--------------------------- MODULE CampaignLaunch ---------------------------
(***************************************************************************)
(* The life of an audited application and the launch of its campaigns:     *)
(* CampaignService.LaunchAsync and AutoLaunchDueAsync beside               *)
(* AuditingService's archive, restore, delete, unregister, configuration,  *)
(* binding and nominee edits.                                              *)
(*                                                                         *)
(* LaunchAsync reads the application, the open campaigns, the roster and   *)
(* the nominees in separate statements, then writes the campaign and its   *)
(* packets in one transaction, then mails the invites.  The edits first    *)
(* read (is there an open campaign?  is the application archived?) and     *)
(* then write.  Every statement outside the transaction commits by itself, *)
(* so each is a step here; the transaction is one step, because its rows   *)
(* are seen by nobody before the commit and its unique and foreign keys    *)
(* make conflicting writers wait for it.                                   *)
(***************************************************************************)
EXTENDS Naturals, FiniteSets

CONSTANTS
  Apps,          \* application_ids
  Groups,        \* AD groups
  People,        \* sAMAccountNames
  Extracts,      \* AD extracts the sync can load: [member, manager]
  Directory,     \* the directory at the start
  Settings,      \* configurations the operators save: [mode, owner, auto]
  FirstNominees, \* the nominees every application starts with
  Pinned,        \* applications another system registered: never hard-deleted
  Operators,     \* concurrent operator requests
  Scheduler,     \* the AuditingSchedulerService of the host
  MaxCampaigns,  \* bound: campaigns launched
  MaxEdits,      \* bound: configuration and directory changes
  MaxFaults,     \* bound: requests or ticks cut off
  None           \* SQL NULL, or a blank business owner

Actors       == Operators \cup {Scheduler}
Ids          == 1..MaxCampaigns
RoutingModes == {"line_manager", "nominees"}
AppStates    == {"active", "archived", "deleted"}
Plans        == UNION {[R -> SUBSET People] : R \in SUBSET People}

DirectoryType == [member : [Groups -> SUBSET People], manager : [People -> People \cup {None}]]

\* A roster row of LaunchAsync: a member and the manager ad_users has for them.
RosterRows == [sam : People, manager : People \cup {None}]

\* A row of campaigns, with its packets and the roster they were made from.
Campaign == [app : Apps, status : {"active", "closed"}, mode : RoutingModes,
             packets : Plans, roster : SUBSET RosterRows, owner : People \cup {None}]

ASSUME LaunchAssumption ==
  /\ Extracts \subseteq DirectoryType /\ Directory \in DirectoryType
  /\ Settings \subseteq [mode : RoutingModes, owner : People \cup {None}, auto : BOOLEAN]
  /\ FirstNominees \subseteq People
  /\ Pinned \subseteq Apps
  /\ Scheduler \notin Operators
  /\ MaxCampaigns \in Nat /\ MaxEdits \in Nat /\ MaxFaults \in Nat
  /\ None \notin Apps \cup People \cup Ids \cup Campaign

VARIABLES
  app,           \* audit_status of each application; "deleted" once its row is gone
  config,        \* audit_routing_mode, business_owner and auto_launch
  bindings,      \* groups with an active binding
  nominees,      \* application_nominees
  directory,     \* group_memberships and ad_users.manager_sam
  campaigns,     \* the campaigns table, by campaign_id
  fresh,         \* applications launched within their cadence interval
  invited,       \* recipients with an invite row in email_log, by campaign_id
  autoLog,       \* auto_launch_log: <<application, result>>
  pc,            \* where each request, or the scheduler's launch, stands
  on,            \* the application it is about
  cfg,           \* the configuration LaunchAsync read
  roster,        \* the roster LaunchAsync read
  plan,          \* its packet plans
  made,          \* the campaign it committed
  due,           \* due applications the tick has left
  dropped,       \* history: due applications a tick gave up without a log row
  cut,           \* history: campaigns whose launch was cut off while mailing
  edits, faults  \* history: changes made, actors cut off

tables     == <<app, config, bindings, nominees, campaigns, fresh, invited, autoLog>>
local      == <<pc, on, cfg, roster, plan, made>>
tick       == <<due, dropped>>
counters   == <<cut, edits, faults>>
vars       == <<tables, directory, local, tick, counters>>

Labels == {"idle", "launchOpen", "launchRoster", "launchPlan", "launchPersist",
           "launchInvite", "archive", "deleteProbe", "deleteHard", "deleteSoft", "edit"}

Configs == [mode : RoutingModes, owner : People \cup {None}, auto : BOOLEAN]

Launched == {i \in Ids : campaigns[i] # None}
OpenFor(a) == {i \in Launched : campaigns[i].app = a /\ campaigns[i].status = "active"}
CampaignsOf(a) == {i \in Launched : campaigns[i].app = a}

\* What SoftUnregisterAppAsync resets the configuration to; the owner stays.
Defaults(owner) == [mode |-> "line_manager", owner |-> owner, auto |-> FALSE]

TypeOK ==
  /\ app       \in [Apps -> AppStates]
  /\ config    \in [Apps -> Configs]
  /\ bindings  \in [Apps -> SUBSET Groups]
  /\ nominees  \in [Apps -> SUBSET People]
  /\ directory \in DirectoryType
  /\ campaigns \in [Ids -> Campaign \cup {None}]
  /\ fresh     \in SUBSET Apps
  /\ invited   \in [Ids -> SUBSET People]
  /\ autoLog   \in SUBSET (Apps \X {"launched", "skipped", "error"})
  /\ pc        \in [Actors -> Labels]
  /\ on        \in [Actors -> Apps \cup {None}]
  /\ cfg       \in [Actors -> Configs \cup {None}]
  /\ roster    \in [Actors -> SUBSET RosterRows]
  /\ plan      \in [Actors -> Plans \cup {None}]
  /\ made      \in [Actors -> Ids \cup {None}]
  /\ due       \in SUBSET Apps
  /\ dropped   \in SUBSET Apps
  /\ cut       \subseteq Ids
  /\ edits     \in 0..MaxEdits
  /\ faults    \in 0..MaxFaults

\* Registered applications with any saved configuration, bound to every group.
Init ==
  /\ app       = [a \in Apps |-> "active"]
  /\ config    \in [Apps -> Settings]
  /\ bindings  = [a \in Apps |-> Groups]
  /\ nominees  = [a \in Apps |-> FirstNominees]
  /\ directory = Directory
  /\ campaigns = [i \in Ids |-> None]
  /\ fresh     = {}
  /\ invited   = [i \in Ids |-> {}]
  /\ autoLog   = {}
  /\ pc        = [x \in Actors |-> "idle"]
  /\ on        = [x \in Actors |-> None]
  /\ cfg       = [x \in Actors |-> None]
  /\ roster    = [x \in Actors |-> {}]
  /\ plan      = [x \in Actors |-> None]
  /\ made      = [x \in Actors |-> None]
  /\ due       = {}
  /\ dropped   = {}
  /\ cut       = {}
  /\ edits     = 0
  /\ faults    = 0

Goto(x, label) == pc' = [pc EXCEPT ![x] = label]

\* The request ends and forgets what it read.
Forget(x) ==
  /\ pc'     = [pc EXCEPT ![x] = "idle"]
  /\ on'     = [on EXCEPT ![x] = None]
  /\ cfg'    = [cfg EXCEPT ![x] = None]
  /\ roster' = [roster EXCEPT ![x] = {}]
  /\ plan'   = [plan EXCEPT ![x] = None]
  /\ made'   = [made EXCEPT ![x] = None]

\* LogAutoLaunchAsync.  Its row references the application: when that is gone
\* the INSERT throws out of AutoLaunchDueAsync and the tick drops the rest.
LogAutoLaunch(x, a, result) ==
  IF x # Scheduler THEN UNCHANGED <<autoLog, tick>>
  ELSE IF app[a] # "deleted"
  THEN autoLog' = autoLog \cup {<<a, result>>} /\ UNCHANGED tick
  ELSE dropped' = dropped \cup due /\ due' = {} /\ UNCHANGED autoLog

\* LaunchAsync throws: a 409 or 500 to an operator, a log row for the scheduler.
LaunchFails(x, result) ==
  /\ LogAutoLaunch(x, on[x], result)
  /\ Forget(x)
  /\ UNCHANGED <<app, config, bindings, nominees, campaigns, fresh, invited, directory, counters>>

----------------------------------------------------------------------------
(* LaunchAsync                                                             *)

\* The application row, read and snapshotted; an archived or missing one is refused.
LaunchRead(x, a) ==
  /\ app[a] = "active"
  /\ on'  = [on EXCEPT ![x] = a]
  /\ cfg' = [cfg EXCEPT ![x] = config[a]]
  /\ Goto(x, "launchOpen")
  /\ UNCHANGED <<tables, directory, roster, plan, made, dropped, counters>>

Launch(x, a) ==
  /\ x \in Operators
  /\ pc[x] = "idle"
  /\ LaunchRead(x, a)
  /\ UNCHANGED due

\* The pre-check for an open campaign.
LaunchCheckOpen(x) ==
  /\ pc[x] = "launchOpen"
  /\ IF OpenFor(on[x]) # {}
     THEN LaunchFails(x, "skipped")
     ELSE /\ Goto(x, "launchRoster")
          /\ UNCHANGED <<tables, directory, on, cfg, roster, plan, made, tick, counters>>

\* Members of the actively bound groups, with their managers.
Roster(a) ==
  {[sam |-> m, manager |-> directory.manager[m]] :
     m \in UNION {directory.member[g] : g \in bindings[a]}}

LaunchReadRoster(x) ==
  /\ pc[x] = "launchRoster"
  /\ IF Roster(on[x]) = {}
     THEN LaunchFails(x, "skipped")
     ELSE /\ roster' = [roster EXCEPT ![x] = Roster(on[x])]
          /\ Goto(x, "launchPlan")
          /\ UNCHANGED <<tables, directory, on, cfg, plan, made, tick, counters>>

Names(rows) == {row.sam : row \in rows}

\* Mutant: the fallback packet replaces the owner's packet as a manager.
LineManagerPlan_Overwrites(rows, owner) ==
  LET unrouted   == {row \in rows : row.manager = None}
      recipients == {row.manager : row \in rows \ unrouted}
                      \cup (IF unrouted = {} THEN {} ELSE {owner})
  IN [m \in recipients |->
        IF m = owner /\ unrouted # {} THEN Names(unrouted)
        ELSE Names({row \in rows : row.manager = m})]

\* One packet per manager; members without one go to the business owner, whose
\* own packet as a manager they join.
LineManagerPlan(rows, owner) ==
  LET unrouted   == {row \in rows : row.manager = None}
      recipients == {row.manager : row \in rows \ unrouted}
                      \cup (IF unrouted = {} THEN {} ELSE {owner})
  IN [m \in recipients |->
        Names({row \in rows : row.manager = m \/ (row \in unrouted /\ m = owner)})]

\* One packet per nominee, each about the whole roster.
NomineePlan(rows, people) == [n \in people |-> Names(rows)]

\* Mutant: a member nobody can vouch for is not looked for.
NobodyToAsk_IgnoresUnrouted(x) == cfg[x].mode = "nominees" /\ nominees[on[x]] = {}

\* No nominee, or a member without a manager and no business owner to fall back on.
NobodyToAsk(x) ==
  IF cfg[x].mode = "nominees" THEN nominees[on[x]] = {}
  ELSE cfg[x].owner = None /\ \E row \in roster[x] : row.manager = None

LaunchPlan(x) ==
  LET a    == on[x]
      rows == roster[x]
  IN
  /\ pc[x] = "launchPlan"
  /\ IF NobodyToAsk(x)
     THEN LaunchFails(x, "skipped")
     ELSE /\ plan' = [plan EXCEPT ![x] =
                        IF cfg[x].mode = "nominees" THEN NomineePlan(rows, nominees[a])
                        ELSE LineManagerPlan(rows, cfg[x].owner)]
          /\ Goto(x, "launchPersist")
          /\ UNCHANGED <<tables, directory, on, cfg, roster, made, tick, counters>>

\* Mutant: the partial unique index idx_campaign_one_open_per_app is missing.
InsertRefused_NoIndex(a) == app[a] = "deleted"

\* The foreign key to the application and the partial unique index of migration 022.
InsertRefused(a) == app[a] = "deleted" \/ OpenFor(a) # {}

\* The row the campaign INSERT writes.
NewCampaign(x) ==
  [app |-> on[x], status |-> "active", mode |-> cfg[x].mode,
   packets |-> plan[x], roster |-> roster[x], owner |-> cfg[x].owner]

\* The transaction: campaign, packets and subjects, all or nothing.
LaunchPersist(x) ==
  LET a    == on[x]
      next == Cardinality(Launched) + 1
  IN
  /\ pc[x] = "launchPersist"
  /\ IF InsertRefused(a)
     THEN LaunchFails(x, IF app[a] = "deleted" THEN "error" ELSE "skipped")
     ELSE /\ next \in Ids
          /\ campaigns' = [campaigns EXCEPT ![next] = NewCampaign(x)]
          /\ fresh' = fresh \cup {a}
          /\ made'  = [made EXCEPT ![x] = next]
          /\ Goto(x, "launchInvite")
          /\ UNCHANGED <<app, config, bindings, nominees, invited, autoLog, directory,
                         on, cfg, roster, plan, tick, counters>>

\* Mutant: nominees are invited from the table as it is now, not from the plan.
Invitees_Reread(x) ==
  IF cfg[x].mode = "nominees" THEN nominees[on[x]] ELSE DOMAIN plan[x]

\* One invite per packet plan.
Invitees(x) == DOMAIN plan[x]

\* The next email_log row of the batch, whatever the relay said of its mail.
LaunchInvite(x) ==
  /\ pc[x] = "launchInvite"
  /\ \E m \in Invitees(x) \ invited[made[x]] :
       invited' = [invited EXCEPT ![made[x]] = @ \cup {m}]
  /\ UNCHANGED <<app, config, bindings, nominees, campaigns, fresh, autoLog,
                 directory, local, tick, counters>>

\* Every packet has its row: LaunchAsync returns, and the scheduler logs the launch.
LaunchEnds(x) ==
  /\ pc[x] = "launchInvite"
  /\ Invitees(x) \subseteq invited[made[x]]
  /\ LogAutoLaunch(x, on[x], "launched")
  /\ Forget(x)
  /\ UNCHANGED <<app, config, bindings, nominees, campaigns, fresh, invited,
                 directory, counters>>

LaunchSteps(x) ==
  \/ LaunchCheckOpen(x)
  \/ LaunchReadRoster(x)
  \/ LaunchPlan(x)
  \/ LaunchPersist(x)
  \/ LaunchInvite(x)
  \/ LaunchEnds(x)

----------------------------------------------------------------------------
(* AutoLaunchDueAsync                                                      *)

IsDue(a) ==
  /\ app[a] = "active" /\ config[a].auto /\ bindings[a] # {}
  /\ OpenFor(a) = {} /\ a \notin fresh

TickSelect ==
  /\ pc[Scheduler] = "idle" /\ due = {}
  /\ due' = {a \in Apps : IsDue(a)}
  /\ UNCHANGED <<tables, directory, local, dropped, counters>>

\* The next application of the tick's list is launched.
TickLaunch(a) ==
  /\ pc[Scheduler] = "idle"
  /\ a \in due
  /\ LaunchRead(Scheduler, a)
  /\ due' = due \ {a}

\* The next application of the list was archived or deleted since the SELECT.
TickRefused(a) ==
  /\ pc[Scheduler] = "idle"
  /\ a \in due /\ app[a] # "active"
  /\ IF app[a] = "deleted"
     THEN dropped' = dropped \cup (due \ {a}) /\ due' = {} /\ UNCHANGED autoLog
     ELSE autoLog' = autoLog \cup {<<a, "skipped">>} /\ due' = due \ {a} /\ UNCHANGED dropped
  /\ UNCHANGED <<app, config, bindings, nominees, campaigns, fresh, invited, directory,
                 local, counters>>

\* Time passes the cadence interval of an application's last launch.
CadenceElapses(a) ==
  /\ a \in fresh /\ edits < MaxEdits
  /\ fresh' = fresh \ {a}
  /\ edits' = edits + 1
  /\ UNCHANGED <<app, config, bindings, nominees, campaigns, invited, autoLog, directory,
                 local, tick, cut, faults>>

----------------------------------------------------------------------------
(* AuditingService: archive, restore, delete, edit                         *)

\* The first statement of an operator's request on application a.
Begin(x, a, label) ==
  /\ x \in Operators
  /\ pc[x] = "idle"
  /\ app[a] # "deleted"
  /\ edits < MaxEdits
  /\ edits' = edits + 1
  /\ on' = [on EXCEPT ![x] = a]
  /\ Goto(x, label)
  /\ UNCHANGED <<tables, directory, cfg, roster, plan, made, tick, cut, faults>>

\* Its last statement, which may change the application's rows.
End(x) == Forget(x) /\ UNCHANGED <<directory, tick, counters>>

\* ArchiveApplicationAsync and DeleteApplicationAsync refuse while a campaign is open.
ArchiveCheck(x, a) == OpenFor(a) = {} /\ Begin(x, a, "archive")
DeleteCheck(x, a)  == OpenFor(a) = {} /\ Begin(x, a, "deleteProbe")

ArchiveWrite(x) ==
  /\ pc[x] = "archive"
  /\ app' = [app EXCEPT ![on[x]] = IF @ = "deleted" THEN @ ELSE "archived"]
  /\ End(x)
  /\ UNCHANGED <<config, bindings, nominees, campaigns, fresh, invited, autoLog>>

\* RestoreApplicationAsync: one guarded UPDATE.
Restore(a) ==
  /\ app[a] = "archived" /\ edits < MaxEdits
  /\ edits' = edits + 1
  /\ app' = [app EXCEPT ![a] = "active"]
  /\ UNCHANGED <<config, bindings, nominees, campaigns, fresh, invited, autoLog, directory,
                 local, tick, cut, faults>>

\* canHardDelete: created by auditing and referenced by no campaign.
CanHardDelete(a) == a \notin Pinned /\ CampaignsOf(a) = {}

DeleteProbe(x) ==
  LET a == on[x] IN
  /\ pc[x] = "deleteProbe"
  /\ IF app[a] = "deleted" THEN Forget(x)
     ELSE /\ Goto(x, IF CanHardDelete(a) THEN "deleteHard" ELSE "deleteSoft")
          /\ UNCHANGED <<on, cfg, roster, plan, made>>
  /\ UNCHANGED <<tables, directory, tick, counters>>

\* Mutant: campaigns.application_id is declared ON DELETE CASCADE.
StillReferenced_Cascade(a) == FALSE

\* The foreign key of campaigns has no ON DELETE: a referenced row stays.
StillReferenced(a) == CampaignsOf(a) # {}

\* HardDeleteAppAsync; a foreign key violation falls back to the soft delete.
DeleteHard(x) ==
  LET a == on[x] IN
  /\ pc[x] = "deleteHard"
  /\ IF StillReferenced(a)
     THEN /\ Goto(x, "deleteSoft")
          /\ UNCHANGED <<tables, directory, on, cfg, roster, plan, made, tick, counters>>
     ELSE /\ app'      = [app EXCEPT ![a] = "deleted"]
          /\ bindings' = [bindings EXCEPT ![a] = {}]
          /\ nominees' = [nominees EXCEPT ![a] = {}]
          /\ autoLog'  = {row \in autoLog : row[1] # a}
          /\ End(x)
          /\ UNCHANGED <<config, campaigns, fresh, invited>>

\* SoftUnregisterAppAsync: defaults, no bindings, no nominees, in one transaction.
DeleteSoft(x) ==
  LET a == on[x] IN
  /\ pc[x] = "deleteSoft"
  /\ IF app[a] = "deleted" THEN UNCHANGED <<app, config, bindings, nominees>>
     ELSE /\ app'      = [app EXCEPT ![a] = "active"]
          /\ config'   = [config EXCEPT ![a] = Defaults(@.owner)]
          /\ bindings' = [bindings EXCEPT ![a] = {}]
          /\ nominees' = [nominees EXCEPT ![a] = {}]
  /\ End(x)
  /\ UNCHANGED <<campaigns, fresh, invited, autoLog>>

\* GuardNotArchivedAsync: every configuration edit starts with it.
EditCheck(x, a) == app[a] # "archived" /\ Begin(x, a, "edit")

\* PatchApplicationAsync, Add/RemoveBindingAsync and Add/RemoveNomineeAsync: the
\* write does not look at audit_status again.  An INSERT for a deleted
\* application fails on its foreign key, an UPDATE or DELETE matches nothing.
EditWrite(x) ==
  LET a == on[x] IN
  /\ pc[x] = "edit"
  /\ \/ app[a] = "deleted" /\ UNCHANGED <<config, bindings, nominees>>
     \/ /\ app[a] # "deleted"
        /\ \/ \E c \in Settings : config' = [config EXCEPT ![a] = c]
              /\ UNCHANGED <<bindings, nominees>>
           \/ \E g \in Groups : \E gs \in {bindings[a] \cup {g}, bindings[a] \ {g}} :
                bindings' = [bindings EXCEPT ![a] = gs]
              /\ UNCHANGED <<config, nominees>>
           \/ \E n \in People : \E ns \in {nominees[a] \cup {n}, nominees[a] \ {n}} :
                nominees' = [nominees EXCEPT ![a] = ns]
              /\ UNCHANGED <<config, bindings>>
  /\ End(x)
  /\ UNCHANGED <<app, campaigns, fresh, invited, autoLog>>

EditSteps(x) ==
  \/ \E a \in Apps : ArchiveCheck(x, a) \/ DeleteCheck(x, a) \/ EditCheck(x, a)
  \/ ArchiveWrite(x)
  \/ DeleteProbe(x)
  \/ DeleteHard(x)
  \/ DeleteSoft(x)
  \/ EditWrite(x)

----------------------------------------------------------------------------
(* The rest of the system                                                  *)

\* A campaign closes: module Attestation says when.
CampaignCloses(i) ==
  /\ i \in Launched /\ campaigns[i].status = "active"
  /\ campaigns' = [campaigns EXCEPT ![i].status = "closed"]
  /\ UNCHANGED <<app, config, bindings, nominees, fresh, invited, autoLog, directory,
                 local, tick, counters>>

\* What sync_auditing makes of the directory from an extract: memberships are
\* pruned only in groups the extract has rows for.
Merged(extract) ==
  [member  |-> [g \in Groups |-> IF extract.member[g] = {} THEN directory.member[g]
                                 ELSE extract.member[g]],
   manager |-> extract.manager]

\* The AD sync commits, in one transaction.
AdSync(extract) ==
  /\ edits < MaxEdits
  /\ edits' = edits + 1
  /\ directory' = Merged(extract)
  /\ directory' # directory
  /\ UNCHANGED <<tables, local, tick, cut, faults>>

\* A request or a tick is cut off between two statements.
CutOff(x) ==
  /\ pc[x] # "idle" /\ faults < MaxFaults
  /\ faults' = faults + 1
  /\ cut' = cut \cup ({made[x]} \ {None})
  /\ Forget(x)
  /\ due' = IF x = Scheduler THEN {} ELSE due
  /\ UNCHANGED <<tables, directory, dropped, edits>>

Next ==
  \/ \E x \in Actors : LaunchSteps(x) \/ CutOff(x)
  \/ \E x \in Operators : EditSteps(x) \/ \E a \in Apps : Launch(x, a)
  \/ TickSelect
  \/ \E a \in Apps : TickLaunch(a) \/ TickRefused(a) \/ CadenceElapses(a) \/ Restore(a)
  \/ \E i \in Ids : CampaignCloses(i)
  \/ \E extract \in Extracts : AdSync(extract)

Spec == Init /\ [][Next]_vars

----------------------------------------------------------------------------
(* Properties                                                              *)

\* However many operators and ticks launch together, an application never has
\* two open campaigns (migration 022: the index, not the pre-check, decides).
OneOpenPerApp == \A a \in Apps : Cardinality(OpenFor(a)) <= 1

\* No campaign outlives its application's row: a delete racing a launch falls
\* back to the soft unregister, or the launch fails.
NoOrphans == \A i \in Launched : app[campaigns[i].app] # "deleted"

\* Everybody on the roster is asked about, of the right person: of their
\* manager (or the business owner), or of every nominee; no packet is empty.
RoutingCovers ==
  \A i \in Launched :
    LET c == campaigns[i] IN
    /\ DOMAIN c.packets # {}
    /\ \A m \in DOMAIN c.packets : c.packets[m] # {} /\ c.packets[m] \subseteq Names(c.roster)
    /\ \A row \in c.roster, m \in DOMAIN c.packets :
         row.sam \in c.packets[m] <=>
           \/ c.mode = "nominees"
           \/ m = (IF row.manager = None THEN c.owner ELSE row.manager)
    /\ c.mode = "line_manager" =>
         \A row \in c.roster : \E m \in DOMAIN c.packets : row.sam \in c.packets[m]

\* Nobody but a campaign's recipients has an invite on record, and each of them has
\* one unless the launch is still mailing or was cut off between the commit and the
\* last email_log row.
InvitedUnlessCutOff ==
  \A i \in Launched :
    /\ invited[i] \subseteq DOMAIN campaigns[i].packets
    /\ \/ DOMAIN campaigns[i].packets \subseteq invited[i]
       \/ \E x \in Actors : made[x] = i
       \/ i \in cut

\* An open campaign's application is still registered and not archived
\* (migration 023: archived applications "cannot launch campaigns"; the archive
\* refuses with "Close it before archiving").
ArchivedHasNoOpenCampaign ==
  \A a \in Apps : app[a] = "archived" => OpenFor(a) = {}

\* "Expected non-fatal cases -> log + continue": no application's refusal makes
\* the tick give up the others.
TickContinues == dropped = {}

=============================================================================
