------------------------ MODULE CampaignLaunchProofs ------------------------
(* Proofs about CampaignLaunch, for any applications, people, groups,         *)
(* directories, operators and bounds: what the launches, the edits and the    *)
(* scheduler, statement by statement, keep true of the tables.                *)
EXTENDS CampaignLaunch, FiniteSetTheorems, TLAPS

LaunchLabels == {"launchOpen", "launchRoster", "launchPlan", "launchPersist", "launchInvite"}

\* The routing of one campaign, as RoutingCovers asks it of each.
Routed(c) ==
  /\ DOMAIN c.packets # {}
  /\ \A m \in DOMAIN c.packets : c.packets[m] # {} /\ c.packets[m] \subseteq Names(c.roster)
  /\ \A row \in c.roster, m \in DOMAIN c.packets :
       row.sam \in c.packets[m] <=>
         \/ c.mode = "nominees"
         \/ m = (IF row.manager = None THEN c.owner ELSE row.manager)
  /\ c.mode = "line_manager" =>
       \A row \in c.roster : \E m \in DOMAIN c.packets : row.sam \in c.packets[m]

\* What a request knows: its application, the configuration it read, a roster with
\* one row per member, a plan that routes all of it, the campaign it committed.
ActorSound(x) ==
  /\ pc[x] # "idle" => on[x] \in Apps
  /\ pc[x] \in LaunchLabels => cfg[x] \in Configs
  /\ pc[x] \in {"launchPlan", "launchPersist"} =>
       roster[x] # {} /\ \A r, s \in roster[x] : r.sam = s.sam => r = s
  /\ pc[x] = "launchPersist" => plan[x] \in Plans /\ Routed(NewCampaign(x))
  /\ pc[x] = "launchInvite" =>
       /\ made[x] \in Launched /\ plan[x] \in Plans
       /\ DOMAIN plan[x] = DOMAIN campaigns[made[x]].packets
  /\ pc[x] # "launchInvite" => made[x] = None

ActorsSound == \A x \in Actors : ActorSound(x)

\* campaign_ids are handed out in order: a launch overwrites no campaign.
IdsInOrder == \E k \in 0..MaxCampaigns : Launched = 1..k

OneOpen == \A a \in Apps : \A i, j \in OpenFor(a) : i = j

\* Nobody is invited to a campaign that is not there yet.
NoEarlyInvites == \A i \in Ids \ Launched : invited[i] = {}

LaunchInv ==
  /\ TypeOK /\ ActorsSound /\ NoEarlyInvites
  /\ IdsInOrder /\ OneOpen /\ NoOrphans /\ RoutingCovers /\ InvitedUnlessCutOff

\* Everything about actor x that is its own.
Same(x) ==
  /\ pc'[x] = pc[x] /\ on'[x] = on[x] /\ cfg'[x] = cfg[x]
  /\ roster'[x] = roster[x] /\ plan'[x] = plan[x] /\ made'[x] = made[x]

\* The campaigns launched stay, with their packets and rosters.
Kept ==
  \A i \in Launched :
    /\ i \in Launched'
    /\ campaigns'[i].packets = campaigns[i].packets

-----------------------------------------------------------------------------
(* Frames.                                                                  *)

LEMMA RoutingIsRouted == RoutingCovers <=> \A i \in Launched : Routed(campaigns[i])
BY DEF RoutingCovers, Routed

LEMMA ActorKept ==
  ASSUME NEW x \in Actors, ActorSound(x), Same(x), Kept
  PROVE  ActorSound(x)'
<1>1. NewCampaign(x)' = NewCampaign(x)
  BY DEF NewCampaign, Same
<1>2. Routed(NewCampaign(x))' <=> Routed(NewCampaign(x))
  BY <1>1 DEF Routed, Names
<1> QED BY <1>2 DEF ActorSound, Same, Kept

\* The actor that ends forgets what it knew.
LEMMA Forgotten ==
  ASSUME TypeOK, NEW x \in Actors, Forget(x)
  PROVE  /\ ActorSound(x)' /\ pc'[x] = "idle" /\ made'[x] = None
         /\ \A y \in Actors \ {x} : Same(y)
         /\ pc' \in [Actors -> Labels] /\ on' \in [Actors -> Apps \cup {None}]
         /\ cfg' \in [Actors -> Configs \cup {None}] /\ roster' \in [Actors -> SUBSET RosterRows]
         /\ plan' \in [Actors -> Plans \cup {None}] /\ made' \in [Actors -> Ids \cup {None}]
<1>1. /\ pc' \in [Actors -> Labels] /\ on' \in [Actors -> Apps \cup {None}]
      /\ cfg' \in [Actors -> Configs \cup {None}] /\ roster' \in [Actors -> SUBSET RosterRows]
      /\ plan' \in [Actors -> Plans \cup {None}] /\ made' \in [Actors -> Ids \cup {None}]
  BY DEF TypeOK, Forget, Labels
<1>2. pc'[x] = "idle" /\ made'[x] = None
  BY DEF TypeOK, Forget
<1>3. ActorSound(x)'
  BY <1>2 DEF ActorSound, LaunchLabels
<1>4. ASSUME NEW y \in Actors \ {x} PROVE Same(y)
  BY <1>4 DEF TypeOK, Forget, Same
<1> QED BY <1>1, <1>2, <1>3, <1>4

\* An actor that goes on to another label with what it knows.
LEMMA WentOn ==
  ASSUME TypeOK, NEW x \in Actors, NEW label \in Labels, Goto(x, label)
  PROVE  /\ pc' \in [Actors -> Labels] /\ pc'[x] = label
         /\ \A y \in Actors \ {x} : pc'[y] = pc[y]
BY DEF TypeOK, Goto

\* Nothing of the campaigns or the invites changed, and none lost its application.
LEMMA CampaignsKept ==
  ASSUME LaunchInv, TypeOK', NoOrphans', UNCHANGED <<campaigns, invited, cut>>,
         NEW x, \A y \in Actors \ {x} : Same(y),
         x \in Actors => ActorSound(x)' /\ made'[x] = made[x]
  PROVE  LaunchInv'
<1>1. Kept /\ UNCHANGED Launched
  BY DEF Kept, Launched
<1>2. ActorsSound'
  <2> SUFFICES ASSUME NEW y \in Actors PROVE ActorSound(y)'
    BY DEF ActorsSound
  <2> QED BY <1>1, ActorKept DEF LaunchInv, ActorsSound
<1>3. IdsInOrder' /\ OneOpen' /\ NoEarlyInvites'
  BY <1>1 DEF LaunchInv, IdsInOrder, OneOpen, OpenFor, NoEarlyInvites
<1>4. RoutingCovers'
  BY <1>1 DEF LaunchInv, RoutingCovers, Names
<1>5. InvitedUnlessCutOff'
  <2>1. \A y \in Actors : made'[y] = made[y]
    BY DEF Same
  <2> QED BY <1>1, <2>1 DEF LaunchInv, InvitedUnlessCutOff
<1> QED BY <1>2, <1>3, <1>4, <1>5 DEF LaunchInv

\* Nor did the applications.
LEMMA TablesKept ==
  ASSUME LaunchInv, TypeOK', UNCHANGED <<app, campaigns, invited, cut>>,
         NEW x, \A y \in Actors \ {x} : Same(y),
         x \in Actors => ActorSound(x)' /\ made'[x] = made[x]
  PROVE  LaunchInv'
<1>1. NoOrphans'
  BY DEF LaunchInv, NoOrphans, Launched
<1> QED BY <1>1, CampaignsKept

\* A step of no actor.
LEMMA NobodyActs ==
  ASSUME LaunchInv, TypeOK', NoOrphans', UNCHANGED <<campaigns, invited, cut, local>>
  PROVE  LaunchInv'
<1>1. Kept /\ \A y \in Actors : Same(y)
  BY DEF Kept, Launched, Same, local
<1>2. \A y \in Actors : ActorSound(y)'
  BY <1>1, ActorKept DEF LaunchInv, ActorsSound
<1> QED BY <1>1, <1>2, CampaignsKept DEF Same

-----------------------------------------------------------------------------
(* LaunchAsync.                                                             *)

\* A launch that fails leaves only its log row.
LEMMA LogTypes ==
  ASSUME TypeOK, NEW x, NEW a \in Apps, NEW result \in {"launched", "skipped", "error"},
         LogAutoLaunch(x, a, result)
  PROVE  /\ autoLog' \in SUBSET (Apps \X {"launched", "skipped", "error"})
         /\ due' \in SUBSET Apps /\ dropped' \in SUBSET Apps
BY DEF LogAutoLaunch, TypeOK, tick

LEMMA FailKeeps ==
  ASSUME LaunchInv, NEW x \in Actors, pc[x] \in LaunchLabels \ {"launchInvite"},
         NEW result \in {"launched", "skipped", "error"}, LaunchFails(x, result)
  PROVE  LaunchInv'
<1>1. on[x] \in Apps /\ made[x] = None /\ TypeOK
  BY DEF LaunchInv, ActorsSound, ActorSound, LaunchLabels
<1>2. Forget(x) /\ LogAutoLaunch(x, on[x], result)
      /\ UNCHANGED <<app, config, bindings, nominees, campaigns, fresh, invited, directory, counters>>
  BY DEF LaunchFails
<1>3. TypeOK'
  <2>1. /\ pc' \in [Actors -> Labels] /\ on' \in [Actors -> Apps \cup {None}]
        /\ cfg' \in [Actors -> Configs \cup {None}] /\ roster' \in [Actors -> SUBSET RosterRows]
        /\ plan' \in [Actors -> Plans \cup {None}] /\ made' \in [Actors -> Ids \cup {None}]
    BY <1>1, <1>2, Forgotten
  <2>2. /\ autoLog' \in SUBSET (Apps \X {"launched", "skipped", "error"})
        /\ due' \in SUBSET Apps /\ dropped' \in SUBSET Apps
    BY <1>1, <1>2, LogTypes
  <2> QED BY <1>1, <1>2, <2>1, <2>2 DEF TypeOK, counters
<1> QED BY <1>1, <1>2, <1>3, Forgotten, TablesKept DEF counters

LEMMA ReadKeeps ==
  ASSUME LaunchInv, NEW x \in Actors, pc[x] = "idle", NEW a \in Apps, LaunchRead(x, a),
         due' \in SUBSET Apps
  PROVE  LaunchInv'
<1>0. TypeOK /\ made[x] = None
  BY DEF LaunchInv, ActorsSound, ActorSound
<1>1. /\ pc' \in [Actors -> Labels] /\ pc'[x] = "launchOpen"
      /\ \A y \in Actors \ {x} : pc'[y] = pc[y]
  BY <1>0, WentOn DEF LaunchRead, Labels
<1>2. /\ on' \in [Actors -> Apps \cup {None}] /\ on'[x] = a
      /\ cfg' \in [Actors -> Configs \cup {None}] /\ cfg'[x] \in Configs
      /\ \A y \in Actors \ {x} : on'[y] = on[y] /\ cfg'[y] = cfg[y]
  BY <1>0 DEF LaunchRead, TypeOK
<1>3. UNCHANGED <<tables, directory, roster, plan, made, dropped, counters>>
  BY DEF LaunchRead
<1>4. TypeOK'
  BY <1>0, <1>1, <1>2, <1>3 DEF TypeOK, tables, counters
<1>5. ActorSound(x)' /\ made'[x] = made[x]
  BY <1>0, <1>1, <1>2, <1>3 DEF ActorSound, LaunchLabels
<1>6. \A y \in Actors \ {x} : Same(y)
  BY <1>1, <1>2, <1>3 DEF Same
<1> QED BY <1>3, <1>4, <1>5, <1>6, TablesKept DEF tables, counters

LEMMA CheckOpenKeeps ==
  ASSUME LaunchInv, NEW x \in Actors, LaunchCheckOpen(x)
  PROVE  LaunchInv'
<1>0. TypeOK /\ pc[x] = "launchOpen" /\ ActorSound(x)
  BY DEF LaunchInv, ActorsSound, LaunchCheckOpen
<1>1. CASE LaunchFails(x, "skipped")
  BY <1>0, <1>1, FailKeeps DEF LaunchLabels
<1>2. CASE Goto(x, "launchRoster")
           /\ UNCHANGED <<tables, directory, on, cfg, roster, plan, made, tick, counters>>
  <2>1. /\ pc' \in [Actors -> Labels] /\ pc'[x] = "launchRoster"
        /\ \A y \in Actors \ {x} : pc'[y] = pc[y]
    BY <1>0, <1>2, WentOn DEF Labels
  <2>2. TypeOK'
    BY <1>0, <1>2, <2>1 DEF TypeOK, tables, tick, counters
  <2>3. ActorSound(x)'
    BY <1>0, <1>2, <2>1 DEF ActorSound, LaunchLabels
  <2>4. \A y \in Actors \ {x} : Same(y)
    BY <1>2, <2>1 DEF Same
  <2> QED BY <1>2, <2>2, <2>3, <2>4, TablesKept DEF tables, counters
<1> QED BY <1>1, <1>2 DEF LaunchCheckOpen

\* The roster has one row per member.
LEMMA RosterSound ==
  ASSUME TypeOK, NEW a \in Apps
  PROVE  Roster(a) \in SUBSET RosterRows /\ \A r, s \in Roster(a) : r.sam = s.sam => r = s
<1>1. bindings[a] \in SUBSET Groups /\ directory.member \in [Groups -> SUBSET People]
      /\ directory.manager \in [People -> People \cup {None}]
  BY DEF TypeOK, DirectoryType
<1>2. UNION {directory.member[g] : g \in bindings[a]} \in SUBSET People
  BY <1>1
<1> QED BY <1>1, <1>2 DEF Roster, RosterRows

LEMMA ReadRosterKeeps ==
  ASSUME LaunchInv, NEW x \in Actors, LaunchReadRoster(x)
  PROVE  LaunchInv'
<1>0. TypeOK /\ pc[x] = "launchRoster" /\ ActorSound(x) /\ on[x] \in Apps
  BY DEF LaunchInv, ActorsSound, ActorSound, LaunchReadRoster
<1>1. CASE LaunchFails(x, "skipped")
  BY <1>0, <1>1, FailKeeps DEF LaunchLabels
<1>2. CASE /\ Roster(on[x]) # {} /\ roster' = [roster EXCEPT ![x] = Roster(on[x])]
           /\ Goto(x, "launchPlan")
           /\ UNCHANGED <<tables, directory, on, cfg, plan, made, tick, counters>>
  <2>1. /\ pc' \in [Actors -> Labels] /\ pc'[x] = "launchPlan"
        /\ \A y \in Actors \ {x} : pc'[y] = pc[y]
    BY <1>0, <1>2, WentOn DEF Labels
  <2>2. Roster(on[x]) \in SUBSET RosterRows
        /\ \A r, s \in Roster(on[x]) : r.sam = s.sam => r = s
    BY <1>0, RosterSound
  <2>3. /\ roster' \in [Actors -> SUBSET RosterRows] /\ roster'[x] = Roster(on[x])
        /\ \A y \in Actors \ {x} : roster'[y] = roster[y]
    BY <1>0, <1>2, <2>2 DEF TypeOK
  <2>4. TypeOK'
    BY <1>0, <1>2, <2>1, <2>3 DEF TypeOK, tables, tick, counters
  <2>5. ActorSound(x)'
    BY <1>0, <1>2, <2>1, <2>2, <2>3 DEF ActorSound, LaunchLabels
  <2>6. \A y \in Actors \ {x} : Same(y)
    BY <1>2, <2>1, <2>3 DEF Same
  <2> QED BY <1>2, <2>4, <2>5, <2>6, TablesKept DEF tables, counters
<1> QED BY <1>1, <1>2 DEF LaunchReadRoster

\* Either way of routing makes packets for all of a roster: of a person's manager, or
\* of the owner, and of no one else; or of every nominee.
LEMMA LineManagersRoute ==
  ASSUME NEW rows \in SUBSET RosterRows, rows # {},
         \A r, s \in rows : r.sam = s.sam => r = s,
         NEW owner \in People \cup {None},
         owner # None \/ \A row \in rows : row.manager # None,
         NEW c, c.packets = LineManagerPlan(rows, owner), c.roster = rows,
         c.mode = "line_manager", c.owner = owner
  PROVE  c.packets \in Plans /\ Routed(c)
<1> DEFINE unrouted   == {row \in rows : row.manager = None}
           recipients == {row.manager : row \in rows \ unrouted}
                           \cup (IF unrouted = {} THEN {} ELSE {owner})
           asked(m) == {row \in rows : row.manager = m \/ (row \in unrouted /\ m = owner)}
           target(row) == IF row.manager = None THEN owner ELSE row.manager
<1>0. None \notin People
  BY LaunchAssumption
<1>1. c.packets = [m \in recipients |-> Names(asked(m))]
  BY DEF LineManagerPlan
<1>2. \A row \in rows : row.sam \in People /\ row.manager \in People \cup {None}
  BY DEF RosterRows
<1>3. recipients \in SUBSET People
  BY <1>0, <1>2
<1>4. \A row \in rows : target(row) \in recipients /\ row \in asked(target(row))
  BY <1>0, <1>2
<1>5. \A m \in recipients : \E row \in asked(m) : TRUE
  BY <1>2
<1>6. \A m \in recipients : \A row \in rows : row \in asked(m) <=> m = target(row)
  BY <1>0, <1>3
<1>7. \A m \in recipients : asked(m) \subseteq rows
  OBVIOUS
<1> HIDE DEF unrouted, recipients, asked
<1>8. DOMAIN c.packets = recipients /\ \A m \in recipients : c.packets[m] = Names(asked(m))
  BY <1>1
<1>9. c.packets \in Plans
  <2>1. \A m \in recipients : Names(asked(m)) \in SUBSET People
    BY <1>2, <1>7 DEF Names
  <2>2. c.packets \in [recipients -> SUBSET People]
    BY <1>1, <2>1
  <2> QED BY <1>3, <2>2 DEF Plans
<1>10. recipients # {}
  BY <1>4
<1>11. \A m \in recipients : Names(asked(m)) # {} /\ Names(asked(m)) \subseteq Names(rows)
  BY <1>5, <1>7 DEF Names
<1>12. \A row \in rows, m \in recipients : row.sam \in Names(asked(m)) <=> row \in asked(m)
  BY <1>7 DEF Names
<1>13. \A row \in rows : \E m \in recipients : row.sam \in Names(asked(m))
  BY <1>4, <1>12
<1> QED BY <1>6, <1>8, <1>9, <1>10, <1>11, <1>12, <1>13 DEF Routed

LEMMA NomineesRoute ==
  ASSUME NEW rows \in SUBSET RosterRows, rows # {}, NEW people \in SUBSET People, people # {},
         NEW c, c.packets = NomineePlan(rows, people), c.roster = rows, c.mode = "nominees"
  PROVE  c.packets \in Plans /\ Routed(c)
<1>1. DOMAIN c.packets = people /\ \A m \in people : c.packets[m] = Names(rows)
  BY DEF NomineePlan
<1>2. Names(rows) # {} /\ Names(rows) \in SUBSET People /\ \A row \in rows : row.sam \in Names(rows)
  BY DEF Names, RosterRows
<1>3. c.packets \in [people -> SUBSET People]
  BY <1>2 DEF NomineePlan
<1>4. c.packets \in Plans
  BY <1>3 DEF Plans
<1> QED BY <1>1, <1>2, <1>4 DEF Routed

LEMMA PlanKeeps ==
  ASSUME LaunchInv, NEW x \in Actors, LaunchPlan(x)
  PROVE  LaunchInv'
<1>0. /\ TypeOK /\ pc[x] = "launchPlan" /\ ActorSound(x) /\ on[x] \in Apps
      /\ cfg[x] \in Configs /\ roster[x] \in SUBSET RosterRows
  BY DEF LaunchInv, ActorsSound, ActorSound, LaunchPlan, LaunchLabels, TypeOK
<1>1. CASE LaunchFails(x, "skipped")
  BY <1>0, <1>1, FailKeeps DEF LaunchLabels
<1>2. CASE /\ ~NobodyToAsk(x)
           /\ plan' = [plan EXCEPT ![x] =
                         IF cfg[x].mode = "nominees" THEN NomineePlan(roster[x], nominees[on[x]])
                         ELSE LineManagerPlan(roster[x], cfg[x].owner)]
           /\ Goto(x, "launchPersist")
           /\ UNCHANGED <<tables, directory, on, cfg, roster, made, tick, counters>>
  <2>1. /\ pc' \in [Actors -> Labels] /\ pc'[x] = "launchPersist"
        /\ \A y \in Actors \ {x} : pc'[y] = pc[y]
    BY <1>0, <1>2, WentOn DEF Labels
  <2>2. PICK p : p = IF cfg[x].mode = "nominees" THEN NomineePlan(roster[x], nominees[on[x]])
                     ELSE LineManagerPlan(roster[x], cfg[x].owner)
    OBVIOUS
  <2>3. PICK c : c = [app |-> on[x], status |-> "active", mode |-> cfg[x].mode,
                      packets |-> p, roster |-> roster[x], owner |-> cfg[x].owner]
    OBVIOUS
  <2>4. /\ cfg[x].mode \in RoutingModes /\ cfg[x].owner \in People \cup {None}
        /\ nominees[on[x]] \in SUBSET People
        /\ roster[x] # {} /\ \A r, s \in roster[x] : r.sam = s.sam => r = s
        /\ c.packets = p /\ c.roster = roster[x] /\ c.mode = cfg[x].mode /\ c.owner = cfg[x].owner
    BY <1>0, <2>3 DEF Configs, TypeOK, ActorSound
  <2>5. p \in Plans /\ Routed(c)
    <3>1. CASE cfg[x].mode = "nominees"
      <4>1. nominees[on[x]] # {} /\ c.packets = NomineePlan(roster[x], nominees[on[x]])
        BY <1>2, <2>2, <2>4, <3>1 DEF NobodyToAsk
      <4> QED BY <1>0, <2>4, <3>1, <4>1, NomineesRoute
    <3>2. CASE cfg[x].mode = "line_manager"
      <4>1. c.packets = LineManagerPlan(roster[x], cfg[x].owner)
        BY <2>2, <2>4, <3>2
      <4>2. cfg[x].owner # None \/ \A row \in roster[x] : row.manager # None
        BY <1>2, <3>2 DEF NobodyToAsk
      <4> QED BY <1>0, <2>4, <3>2, <4>1, <4>2, LineManagersRoute
    <3> QED BY <2>4, <3>1, <3>2 DEF RoutingModes
  <2>6. /\ plan' \in [Actors -> Plans \cup {None}] /\ plan'[x] = p
        /\ \A y \in Actors \ {x} : plan'[y] = plan[y]
    BY <1>0, <1>2, <2>2, <2>5 DEF TypeOK
  <2>7. TypeOK'
    BY <1>0, <1>2, <2>1, <2>6 DEF TypeOK, tables, tick, counters
  <2>8. NewCampaign(x)' = c
    BY <1>2, <2>3, <2>6 DEF NewCampaign
  <2>9. Routed(NewCampaign(x))'
    BY <2>5, <2>8 DEF Routed, Names
  <2>10. ActorSound(x)' /\ made'[x] = made[x]
    BY <1>0, <1>2, <2>1, <2>5, <2>6, <2>9 DEF ActorSound, LaunchLabels
  <2>11. \A y \in Actors \ {x} : Same(y)
    BY <1>2, <2>1, <2>6 DEF Same
  <2> QED BY <1>2, <2>7, <2>10, <2>11, TablesKept DEF tables, counters
<1> QED BY <1>1, <1>2 DEF LaunchPlan

\* The next campaign_id is a new one.
LEMMA NextIsNew ==
  ASSUME LaunchInv, NEW next, next = Cardinality(Launched) + 1, next \in Ids
  PROVE  next \notin Launched /\ \E k \in 0..MaxCampaigns : Launched \cup {next} = 1..k
<1>1. PICK k \in 0..MaxCampaigns : Launched = 1..k
  BY DEF LaunchInv, IdsInOrder
<1>2. k \in Nat /\ MaxCampaigns \in Nat
  BY <1>1, LaunchAssumption
<1>3. Cardinality(1..k) = k
  BY <1>2, FS_Interval
<1>4. next = k + 1 /\ next \in 1..MaxCampaigns
  BY <1>1, <1>3 DEF Ids
<1>5. Launched \cup {next} = 1..(k + 1) /\ k + 1 \in 0..MaxCampaigns
  BY <1>1, <1>2, <1>4
<1> QED BY <1>1, <1>2, <1>4, <1>5

LEMMA PersistKeeps ==
  ASSUME LaunchInv, NEW x \in Actors, LaunchPersist(x)
  PROVE  LaunchInv'
<1>0. /\ TypeOK /\ pc[x] = "launchPersist" /\ ActorSound(x) /\ on[x] \in Apps
      /\ cfg[x] \in Configs /\ roster[x] \in SUBSET RosterRows /\ plan[x] \in Plans
      /\ Routed(NewCampaign(x))
  BY DEF LaunchInv, ActorsSound, ActorSound, LaunchPersist, LaunchLabels, TypeOK
<1>1. ASSUME NEW result \in {"error", "skipped"}, LaunchFails(x, result) PROVE LaunchInv'
  BY <1>0, <1>1, FailKeeps DEF LaunchLabels
<1>2. ASSUME NEW next, next = Cardinality(Launched) + 1, next \in Ids, ~InsertRefused(on[x]),
             campaigns' = [campaigns EXCEPT ![next] = NewCampaign(x)],
             fresh' = fresh \cup {on[x]},
             made' = [made EXCEPT ![x] = next],
             Goto(x, "launchInvite"),
             UNCHANGED <<app, config, bindings, nominees, invited, autoLog, directory,
                         on, cfg, roster, plan, tick, counters>>
      PROVE  LaunchInv'
  <2>1. next \notin Launched /\ \E k \in 0..MaxCampaigns : Launched \cup {next} = 1..k
    BY <1>2, NextIsNew
  <2>2. PICK c : c = NewCampaign(x)
    OBVIOUS
  <2>3. /\ c \in Campaign /\ c.app = on[x] /\ c.status = "active" /\ c.packets = plan[x]
        /\ c # None /\ Routed(c)
    <3>1. c = [app |-> on[x], status |-> "active", mode |-> cfg[x].mode,
               packets |-> plan[x], roster |-> roster[x], owner |-> cfg[x].owner]
      BY <2>2 DEF NewCampaign
    <3>2. cfg[x].mode \in RoutingModes /\ cfg[x].owner \in People \cup {None}
      BY <1>0 DEF Configs
    <3>3. c \in Campaign
      BY <1>0, <3>1, <3>2 DEF Campaign
    <3> QED BY <1>0, <2>2, <3>1, <3>3, LaunchAssumption
  <2>4. /\ campaigns' \in [Ids -> Campaign \cup {None}] /\ campaigns'[next] = c
        /\ \A i \in Ids \ {next} : campaigns'[i] = campaigns[i]
    BY <1>0, <1>2, <2>2, <2>3 DEF TypeOK
  <2>5. Launched' = Launched \cup {next}
    BY <1>2, <2>3, <2>4 DEF Launched
  <2>6. Kept
    BY <2>1, <2>4, <2>5 DEF Kept, Launched
  <2>7. /\ pc' \in [Actors -> Labels] /\ pc'[x] = "launchInvite"
        /\ \A y \in Actors \ {x} : pc'[y] = pc[y]
    BY <1>0, <1>2, WentOn DEF Labels
  <2>8. /\ made' \in [Actors -> Ids \cup {None}] /\ made'[x] = next
        /\ \A y \in Actors \ {x} : made'[y] = made[y]
    BY <1>0, <1>2 DEF TypeOK
  <2>9. TypeOK'
    BY <1>0, <1>2, <2>4, <2>7, <2>8 DEF TypeOK, tick, counters
  <2>10. ActorsSound'
    <3>1. ASSUME NEW y \in Actors \ {x} PROVE ActorSound(y)'
      <4>1. Same(y)
        BY <1>2, <2>7, <2>8 DEF Same
      <4> QED BY <2>6, <4>1, ActorKept DEF LaunchInv, ActorsSound
    <3>2. ActorSound(x)'
      BY <1>0, <1>2, <2>3, <2>4, <2>5, <2>7, <2>8 DEF ActorSound, LaunchLabels
    <3> QED BY <3>1, <3>2 DEF ActorsSound
  <2>11. IdsInOrder'
    BY <2>1, <2>5 DEF IdsInOrder
  <2>12. OneOpen'
    <3> SUFFICES ASSUME NEW a \in Apps, NEW i \in OpenFor(a)', NEW j \in OpenFor(a)' PROVE i = j
      BY DEF OneOpen
    <3>1. OpenFor(a)' \subseteq OpenFor(a) \cup (IF a = on[x] THEN {next} ELSE {})
      BY <1>2, <2>3, <2>4, <2>5 DEF OpenFor, Launched
    <3>2. OpenFor(on[x]) = {}
      BY <1>2 DEF InsertRefused
    <3>3. OneOpen
      BY DEF LaunchInv
    <3>4. CASE a = on[x]
      BY <3>1, <3>2, <3>4
    <3>5. CASE a # on[x]
      BY <3>1, <3>3, <3>5 DEF OneOpen
    <3> QED BY <3>4, <3>5
  <2>13. NoOrphans'
    <3> SUFFICES ASSUME NEW i \in Launched' PROVE app[campaigns'[i].app] # "deleted"
      BY <1>2 DEF NoOrphans
    <3>1. CASE i = next
      BY <1>2, <2>3, <2>4, <3>1 DEF InsertRefused
    <3>2. CASE i # next
      BY <2>4, <2>5, <3>2 DEF LaunchInv, NoOrphans, Launched
    <3> QED BY <3>1, <3>2
  <2>14. RoutingCovers'
    <3>1. \A i \in Launched' : Routed(campaigns'[i])
      BY <2>3, <2>4, <2>5, RoutingIsRouted DEF LaunchInv, Launched
    <3> QED BY <3>1 DEF RoutingCovers, Routed, Names
  <2>15. InvitedUnlessCutOff'
    <3> SUFFICES ASSUME NEW i \in Launched'
                 PROVE  /\ invited[i] \subseteq DOMAIN campaigns'[i].packets
                        /\ \/ DOMAIN campaigns'[i].packets \subseteq invited[i]
                           \/ \E y \in Actors : made'[y] = i
                           \/ i \in cut
      BY <1>2 DEF InvitedUnlessCutOff, counters
    <3>1. CASE i = next
      BY <1>2, <2>1, <2>8, <3>1 DEF LaunchInv, NoEarlyInvites
    <3>2. CASE i # next
      <4>1. i \in Launched /\ campaigns'[i].packets = campaigns[i].packets
        BY <2>5, <2>6, <3>2 DEF Kept
      <4>2. made[x] = None
        BY <1>0 DEF ActorSound
      <4>3. i # None
        BY <4>1, LaunchAssumption DEF Launched
      <4> QED BY <2>8, <4>1, <4>2, <4>3 DEF LaunchInv, InvitedUnlessCutOff
    <3> QED BY <3>1, <3>2
  <2>16. NoEarlyInvites'
    BY <1>2, <2>5 DEF LaunchInv, NoEarlyInvites
  <2> QED BY <2>9, <2>10, <2>11, <2>12, <2>13, <2>14, <2>15, <2>16 DEF LaunchInv
<1> QED BY <1>1, <1>2 DEF LaunchPersist

\* What a launch that is mailing knows of its campaign.
LEMMA InviteReady ==
  ASSUME LaunchInv, NEW x \in Actors, pc[x] = "launchInvite"
  PROVE  /\ TypeOK /\ ActorSound(x) /\ on[x] \in Apps /\ made[x] \in Launched
         /\ Invitees(x) = DOMAIN campaigns[made[x]].packets /\ Invitees(x) \subseteq People
<1>1. /\ TypeOK /\ ActorSound(x) /\ on[x] \in Apps /\ plan[x] \in Plans
      /\ made[x] \in Launched /\ DOMAIN plan[x] = DOMAIN campaigns[made[x]].packets
  BY DEF LaunchInv, ActorsSound, ActorSound
<1> QED BY <1>1 DEF Invitees, Plans

LEMMA InviteKeeps ==
  ASSUME LaunchInv, NEW x \in Actors, LaunchInvite(x)
  PROVE  LaunchInv'
<1>0. /\ TypeOK /\ made[x] \in Launched /\ made[x] \in Ids
      /\ Invitees(x) = DOMAIN campaigns[made[x]].packets /\ Invitees(x) \subseteq People
  BY InviteReady DEF LaunchInvite, Launched
<1>1. PICK m \in Invitees(x) : invited' = [invited EXCEPT ![made[x]] = @ \cup {m}]
  BY DEF LaunchInvite
<1>2. UNCHANGED <<app, config, bindings, nominees, campaigns, fresh, autoLog,
                  directory, local, tick, counters>>
  BY DEF LaunchInvite
<1>3. /\ invited' \in [Ids -> SUBSET People] /\ invited'[made[x]] = invited[made[x]] \cup {m}
      /\ \A i \in Ids \ {made[x]} : invited'[i] = invited[i]
  BY <1>0, <1>1 DEF TypeOK
<1>4. TypeOK'
  BY <1>0, <1>2, <1>3 DEF TypeOK, local, tick, counters
<1>5. Kept /\ UNCHANGED Launched
  BY <1>2 DEF Kept, Launched
<1>6. \A y \in Actors : Same(y)
  BY <1>2 DEF Same, local
<1>7. ActorsSound'
  BY <1>5, <1>6, ActorKept DEF LaunchInv, ActorsSound
<1>8. IdsInOrder' /\ OneOpen' /\ NoOrphans'
  BY <1>2, <1>5 DEF LaunchInv, IdsInOrder, OneOpen, OpenFor, NoOrphans
<1>9. RoutingCovers'
  BY <1>2, <1>5 DEF LaunchInv, RoutingCovers, Names
<1>10. InvitedUnlessCutOff'
  <2> SUFFICES ASSUME NEW i \in Launched
               PROVE  /\ invited'[i] \subseteq DOMAIN campaigns[i].packets
                      /\ \/ DOMAIN campaigns[i].packets \subseteq invited'[i]
                         \/ \E y \in Actors : made[y] = i
                         \/ i \in cut
    BY <1>2, <1>5, <1>6 DEF InvitedUnlessCutOff, counters, local
  <2>1. /\ invited[i] \subseteq DOMAIN campaigns[i].packets
        /\ \/ DOMAIN campaigns[i].packets \subseteq invited[i]
           \/ \E y \in Actors : made[y] = i
           \/ i \in cut
    BY DEF LaunchInv, InvitedUnlessCutOff
  <2>2. CASE i = made[x]
    BY <1>0, <1>1, <1>3, <2>1, <2>2
  <2>3. CASE i # made[x]
    BY <1>3, <2>1, <2>3 DEF Launched
  <2> QED BY <2>2, <2>3
<1>11. NoEarlyInvites'
  BY <1>0, <1>3, <1>5 DEF LaunchInv, NoEarlyInvites
<1> QED BY <1>4, <1>7, <1>8, <1>9, <1>10, <1>11 DEF LaunchInv

\* A launch ends with all of its invites on record.
LEMMA EndsKeeps ==
  ASSUME LaunchInv, NEW x \in Actors, LaunchEnds(x)
  PROVE  LaunchInv'
<1>0. /\ TypeOK /\ ActorSound(x) /\ on[x] \in Apps /\ made[x] \in Launched
      /\ Invitees(x) = DOMAIN campaigns[made[x]].packets
  BY InviteReady DEF LaunchEnds
<1>1. /\ Invitees(x) \subseteq invited[made[x]]
      /\ LogAutoLaunch(x, on[x], "launched") /\ Forget(x)
      /\ UNCHANGED <<app, config, bindings, nominees, campaigns, fresh, invited,
                     directory, counters>>
  BY DEF LaunchEnds
<1>2. TypeOK'
  <2>1. /\ pc' \in [Actors -> Labels] /\ on' \in [Actors -> Apps \cup {None}]
        /\ cfg' \in [Actors -> Configs \cup {None}] /\ roster' \in [Actors -> SUBSET RosterRows]
        /\ plan' \in [Actors -> Plans \cup {None}] /\ made' \in [Actors -> Ids \cup {None}]
    BY <1>0, <1>1, Forgotten
  <2>2. /\ autoLog' \in SUBSET (Apps \X {"launched", "skipped", "error"})
        /\ due' \in SUBSET Apps /\ dropped' \in SUBSET Apps
    BY <1>0, <1>1, LogTypes
  <2> QED BY <1>0, <1>1, <2>1, <2>2 DEF TypeOK, counters
<1>3. Kept /\ UNCHANGED Launched
  BY <1>1 DEF Kept, Launched
<1>4. ActorSound(x)' /\ \A y \in Actors \ {x} : Same(y)
  BY <1>0, <1>1, Forgotten
<1>5. ActorsSound'
  <2> SUFFICES ASSUME NEW y \in Actors PROVE ActorSound(y)'
    BY DEF ActorsSound
  <2> QED BY <1>3, <1>4, ActorKept DEF LaunchInv, ActorsSound
<1>6. IdsInOrder' /\ OneOpen' /\ NoOrphans' /\ NoEarlyInvites'
  BY <1>1, <1>3 DEF LaunchInv, IdsInOrder, OneOpen, OpenFor, NoOrphans, NoEarlyInvites
<1>7. RoutingCovers'
  BY <1>1, <1>3 DEF LaunchInv, RoutingCovers, Names
<1>8. InvitedUnlessCutOff'
  <2> SUFFICES ASSUME NEW i \in Launched
               PROVE  /\ invited[i] \subseteq DOMAIN campaigns[i].packets
                      /\ \/ DOMAIN campaigns[i].packets \subseteq invited[i]
                         \/ \E y \in Actors : made'[y] = i
                         \/ i \in cut
    BY <1>1, <1>3 DEF InvitedUnlessCutOff, counters
  <2>1. CASE i = made[x]
    BY <1>0, <1>1, <2>1 DEF LaunchInv, InvitedUnlessCutOff
  <2>2. CASE i # made[x]
    BY <1>4, <2>2 DEF LaunchInv, InvitedUnlessCutOff, Same
  <2> QED BY <2>1, <2>2
<1> QED BY <1>2, <1>5, <1>6, <1>7, <1>8 DEF LaunchInv

-----------------------------------------------------------------------------
(* AutoLaunchDueAsync and the rest of the system.                           *)

LEMMA LaunchKeeps ==
  ASSUME LaunchInv, NEW x \in Actors, NEW a \in Apps, Launch(x, a)
  PROVE  LaunchInv'
BY ReadKeeps DEF Launch, LaunchInv, TypeOK

LEMMA TickSelectKeeps == LaunchInv /\ TickSelect => LaunchInv'
<1> SUFFICES ASSUME LaunchInv, TickSelect PROVE LaunchInv'
  OBVIOUS
<1>1. TypeOK /\ due' \in SUBSET Apps
      /\ UNCHANGED <<tables, directory, local, dropped, counters>>
  BY DEF LaunchInv, TickSelect
<1>2. TypeOK'
  BY <1>1 DEF TypeOK, tables, local, counters
<1>3. NoOrphans'
  BY <1>1 DEF LaunchInv, NoOrphans, Launched, tables
<1> QED BY <1>1, <1>2, <1>3, NobodyActs DEF tables, counters

LEMMA TickLaunchKeeps ==
  ASSUME LaunchInv, NEW a \in Apps, TickLaunch(a)
  PROVE  LaunchInv'
<1>1. Scheduler \in Actors /\ due' \in SUBSET Apps
  BY DEF Actors, TickLaunch, LaunchInv, TypeOK
<1> QED BY <1>1, ReadKeeps DEF TickLaunch

LEMMA TickRefusedKeeps ==
  ASSUME LaunchInv, NEW a \in Apps, TickRefused(a)
  PROVE  LaunchInv'
<1>1. TypeOK /\ UNCHANGED <<app, config, bindings, nominees, campaigns, fresh, invited, directory,
                            local, counters>>
  BY DEF LaunchInv, TickRefused
<1>2. /\ autoLog' \in SUBSET (Apps \X {"launched", "skipped", "error"})
      /\ due' \in SUBSET Apps /\ dropped' \in SUBSET Apps
  BY <1>1 DEF TickRefused, TypeOK
<1>3. TypeOK'
  BY <1>1, <1>2 DEF TypeOK, local, counters
<1>4. NoOrphans'
  BY <1>1 DEF LaunchInv, NoOrphans, Launched
<1> QED BY <1>1, <1>3, <1>4, NobodyActs DEF counters

LEMMA CadenceKeeps ==
  ASSUME LaunchInv, NEW a \in Apps, CadenceElapses(a)
  PROVE  LaunchInv'
<1>1. TypeOK /\ UNCHANGED <<app, config, bindings, nominees, campaigns, invited, autoLog, directory,
                            local, tick, cut, faults>>
  BY DEF LaunchInv, CadenceElapses
<1>2. fresh' \in SUBSET Apps /\ edits' \in 0..MaxEdits
  BY <1>1, LaunchAssumption DEF CadenceElapses, TypeOK
<1>3. TypeOK'
  BY <1>1, <1>2 DEF TypeOK, local, tick
<1>4. NoOrphans'
  BY <1>1 DEF LaunchInv, NoOrphans, Launched
<1> QED BY <1>1, <1>3, <1>4, NobodyActs

LEMMA SyncKeeps ==
  ASSUME LaunchInv, NEW extract \in Extracts, AdSync(extract)
  PROVE  LaunchInv'
<1>1. TypeOK /\ UNCHANGED <<tables, local, tick, cut, faults>>
  BY DEF LaunchInv, AdSync
<1>2. extract \in DirectoryType
  BY LaunchAssumption
<1>3. directory' \in DirectoryType
  BY <1>1, <1>2 DEF AdSync, Merged, DirectoryType, TypeOK
<1>4. edits' \in 0..MaxEdits
  BY <1>1, LaunchAssumption DEF AdSync, TypeOK
<1>5. TypeOK'
  BY <1>1, <1>3, <1>4 DEF TypeOK, tables, local, tick
<1>6. NoOrphans'
  BY <1>1 DEF LaunchInv, NoOrphans, Launched, tables
<1> QED BY <1>1, <1>5, <1>6, NobodyActs DEF tables

\* A campaign that closes keeps everything but its status.
LEMMA CloseKeeps ==
  ASSUME LaunchInv, NEW i \in Ids, CampaignCloses(i)
  PROVE  LaunchInv'
<1>0. TypeOK /\ i \in Launched /\ campaigns[i] \in Campaign
  BY DEF LaunchInv, TypeOK, CampaignCloses, Launched
<1>1. UNCHANGED <<app, config, bindings, nominees, fresh, invited, autoLog, directory,
                  local, tick, counters>>
  BY DEF CampaignCloses
<1>2. PICK c : c = [campaigns[i] EXCEPT !.status = "closed"]
  OBVIOUS
<1>3. /\ c \in Campaign /\ c.app = campaigns[i].app /\ c.status = "closed"
      /\ c.packets = campaigns[i].packets /\ c.mode = campaigns[i].mode
      /\ c.roster = campaigns[i].roster /\ c.owner = campaigns[i].owner
  BY <1>0, <1>2 DEF Campaign
<1>4. c # None
  BY <1>3, LaunchAssumption
<1>5. /\ campaigns' \in [Ids -> Campaign \cup {None}] /\ campaigns'[i] = c
      /\ \A j \in Ids \ {i} : campaigns'[j] = campaigns[j]
  BY <1>0, <1>2, <1>3 DEF TypeOK, CampaignCloses
<1>6. Launched' = Launched
  BY <1>0, <1>4, <1>5 DEF Launched
<1>7. Kept
  BY <1>3, <1>5, <1>6 DEF Kept, Launched
<1>8. TypeOK'
  BY <1>0, <1>1, <1>5 DEF TypeOK, local, tick, counters
<1>9. \A y \in Actors : Same(y)
  BY <1>1 DEF Same, local
<1>10. ActorsSound'
  BY <1>7, <1>9, ActorKept DEF LaunchInv, ActorsSound
<1>11. IdsInOrder'
  BY <1>6 DEF LaunchInv, IdsInOrder
<1>12. OneOpen'
  <2>1. \A a \in Apps : OpenFor(a)' \subseteq OpenFor(a)
    BY <1>3, <1>5, <1>6 DEF OpenFor, Launched
  <2> QED BY <2>1 DEF LaunchInv, OneOpen
<1>13. NoOrphans'
  BY <1>1, <1>3, <1>5, <1>6 DEF LaunchInv, NoOrphans, Launched
<1>14. RoutingCovers'
  <2>1. Routed(c)
    BY <1>0, <1>3, RoutingIsRouted DEF LaunchInv, Routed
  <2>2. \A j \in Launched' : Routed(campaigns'[j])
    BY <1>5, <1>6, <2>1, RoutingIsRouted DEF LaunchInv, Launched
  <2> QED BY <2>2 DEF RoutingCovers, Routed, Names
<1>15. InvitedUnlessCutOff'
  BY <1>1, <1>6, <1>7 DEF LaunchInv, InvitedUnlessCutOff, Kept, local, counters
<1>16. NoEarlyInvites'
  BY <1>1, <1>6 DEF LaunchInv, NoEarlyInvites
<1> QED BY <1>8, <1>10, <1>11, <1>12, <1>13, <1>14, <1>15, <1>16 DEF LaunchInv

\* A launch that is cut off leaves its campaign among those without invites.
LEMMA CutKeeps ==
  ASSUME LaunchInv, NEW x \in Actors, CutOff(x)
  PROVE  LaunchInv'
<1>1. /\ TypeOK /\ Forget(x) /\ cut' = cut \cup ({made[x]} \ {None})
      /\ UNCHANGED <<tables, directory, dropped, edits>>
  BY DEF LaunchInv, CutOff
<1>2. /\ ActorSound(x)' /\ \A y \in Actors \ {x} : Same(y)
      /\ pc' \in [Actors -> Labels] /\ on' \in [Actors -> Apps \cup {None}]
      /\ cfg' \in [Actors -> Configs \cup {None}] /\ roster' \in [Actors -> SUBSET RosterRows]
      /\ plan' \in [Actors -> Plans \cup {None}] /\ made' \in [Actors -> Ids \cup {None}]
  BY <1>1, Forgotten
<1>3. TypeOK'
  <2>1. due' \in SUBSET Apps /\ cut' \subseteq Ids
    BY <1>1 DEF CutOff, TypeOK
  <2>2. faults' \in 0..MaxFaults
    BY <1>1, LaunchAssumption DEF CutOff, TypeOK
  <2> QED BY <1>1, <1>2, <2>1, <2>2 DEF TypeOK, tables
<1>4. Kept /\ UNCHANGED Launched
  BY <1>1 DEF Kept, Launched, tables
<1>5. ActorsSound'
  <2> SUFFICES ASSUME NEW y \in Actors PROVE ActorSound(y)'
    BY DEF ActorsSound
  <2> QED BY <1>2, <1>4, ActorKept DEF LaunchInv, ActorsSound
<1>6. IdsInOrder' /\ OneOpen' /\ NoOrphans' /\ NoEarlyInvites'
  BY <1>1, <1>4 DEF LaunchInv, IdsInOrder, OneOpen, OpenFor, NoOrphans, NoEarlyInvites, tables
<1>7. RoutingCovers'
  BY <1>1, <1>4 DEF LaunchInv, RoutingCovers, Names, tables
<1>8. InvitedUnlessCutOff'
  <2> SUFFICES ASSUME NEW i \in Launched
               PROVE  /\ invited[i] \subseteq DOMAIN campaigns[i].packets
                      /\ \/ DOMAIN campaigns[i].packets \subseteq invited[i]
                         \/ \E y \in Actors : made'[y] = i
                         \/ i \in cut'
    BY <1>1, <1>4 DEF InvitedUnlessCutOff, tables
  <2>1. i # None
    BY LaunchAssumption DEF Launched
  <2>2. CASE made[x] = i
    BY <1>1, <2>1, <2>2 DEF LaunchInv, InvitedUnlessCutOff
  <2>3. CASE made[x] # i
    BY <1>1, <1>2, <2>3 DEF LaunchInv, InvitedUnlessCutOff, Same
  <2> QED BY <2>2, <2>3
<1> QED BY <1>3, <1>5, <1>6, <1>7, <1>8 DEF LaunchInv

-----------------------------------------------------------------------------
(* AuditingService's edits.                                                 *)

LEMMA BeginKeeps ==
  ASSUME LaunchInv, NEW x, NEW a \in Apps, NEW label \in {"archive", "deleteProbe", "edit"},
         Begin(x, a, label)
  PROVE  LaunchInv'
<1>0. TypeOK /\ x \in Actors /\ ActorSound(x) /\ made[x] = None
  BY DEF LaunchInv, ActorsSound, ActorSound, Begin, Actors
<1>1. /\ pc' \in [Actors -> Labels] /\ pc'[x] = label
      /\ \A y \in Actors \ {x} : pc'[y] = pc[y]
  BY <1>0, WentOn DEF Begin, Labels
<1>2. /\ on' \in [Actors -> Apps \cup {None}] /\ on'[x] = a
      /\ \A y \in Actors \ {x} : on'[y] = on[y]
  BY <1>0 DEF Begin, TypeOK
<1>3. UNCHANGED <<tables, directory, cfg, roster, plan, made, tick, cut, faults>>
  BY DEF Begin
<1>4. edits' \in 0..MaxEdits
  BY <1>0, LaunchAssumption DEF Begin, TypeOK
<1>5. TypeOK'
  BY <1>0, <1>1, <1>2, <1>3, <1>4 DEF TypeOK, tables, tick
<1>6. ActorSound(x)' /\ made'[x] = made[x]
  BY <1>0, <1>1, <1>2, <1>3 DEF ActorSound, LaunchLabels
<1>7. \A y \in Actors \ {x} : Same(y)
  BY <1>1, <1>2, <1>3 DEF Same
<1> QED BY <1>3, <1>5, <1>6, <1>7, TablesKept DEF tables

\* The last statement of an edit leaves the campaigns, their invites and the
\* directory alone: what it makes of the application's rows must have their types.
LEMMA EndKeeps ==
  ASSUME LaunchInv, NEW x \in Actors, pc[x] \notin LaunchLabels, End(x), NoOrphans',
         UNCHANGED <<campaigns, fresh, invited>>,
         app' \in [Apps -> AppStates], config' \in [Apps -> Configs],
         bindings' \in [Apps -> SUBSET Groups], nominees' \in [Apps -> SUBSET People],
         autoLog' \in SUBSET (Apps \X {"launched", "skipped", "error"})
  PROVE  LaunchInv'
<1>0. TypeOK /\ made[x] = None /\ Forget(x) /\ UNCHANGED <<directory, tick, counters>>
  BY DEF LaunchInv, ActorsSound, ActorSound, LaunchLabels, End
<1>1. /\ ActorSound(x)' /\ made'[x] = None /\ \A y \in Actors \ {x} : Same(y)
      /\ pc' \in [Actors -> Labels] /\ on' \in [Actors -> Apps \cup {None}]
      /\ cfg' \in [Actors -> Configs \cup {None}] /\ roster' \in [Actors -> SUBSET RosterRows]
      /\ plan' \in [Actors -> Plans \cup {None}] /\ made' \in [Actors -> Ids \cup {None}]
  BY <1>0, Forgotten
<1>2. TypeOK'
  BY <1>0, <1>1 DEF TypeOK, tick, counters
<1> QED BY <1>0, <1>1, <1>2, CampaignsKept DEF counters

\* What the last statement of an edit starts from.
LEMMA EditReady ==
  ASSUME LaunchInv, NEW x \in Actors, pc[x] \in {"archive", "deleteProbe", "deleteHard", "deleteSoft", "edit"}
  PROVE  TypeOK /\ on[x] \in Apps /\ pc[x] \notin LaunchLabels /\ made[x] = None
BY DEF LaunchInv, ActorsSound, ActorSound, LaunchLabels

LEMMA ArchiveWriteKeeps ==
  ASSUME LaunchInv, NEW x \in Actors, ArchiveWrite(x)
  PROVE  LaunchInv'
<1>0. /\ TypeOK /\ on[x] \in Apps /\ pc[x] \notin LaunchLabels /\ End(x)
      /\ UNCHANGED <<config, bindings, nominees, campaigns, fresh, invited, autoLog>>
  BY EditReady DEF ArchiveWrite
<1>1. app' \in [Apps -> AppStates] /\ \A a \in Apps : app'[a] = "deleted" => app[a] = "deleted"
  BY <1>0 DEF ArchiveWrite, TypeOK, AppStates
<1>2. NoOrphans'
  BY <1>0, <1>1 DEF LaunchInv, NoOrphans, Launched, TypeOK, Campaign
<1> QED BY <1>0, <1>1, <1>2, EndKeeps DEF TypeOK

LEMMA RestoreKeeps ==
  ASSUME LaunchInv, NEW a \in Apps, Restore(a)
  PROVE  LaunchInv'
<1>0. TypeOK /\ UNCHANGED <<config, bindings, nominees, campaigns, fresh, invited, autoLog, directory,
                            local, tick, cut, faults>>
  BY DEF LaunchInv, Restore
<1>1. app' \in [Apps -> AppStates] /\ \A b \in Apps : app'[b] = "deleted" => app[b] = "deleted"
  BY <1>0 DEF Restore, TypeOK, AppStates
<1>2. edits' \in 0..MaxEdits
  BY <1>0, LaunchAssumption DEF Restore, TypeOK
<1>3. TypeOK'
  BY <1>0, <1>1, <1>2 DEF TypeOK, local, tick
<1>4. NoOrphans'
  BY <1>0, <1>1 DEF LaunchInv, NoOrphans, Launched, TypeOK, Campaign
<1> QED BY <1>0, <1>3, <1>4, NobodyActs

LEMMA DeleteProbeKeeps ==
  ASSUME LaunchInv, NEW x \in Actors, DeleteProbe(x)
  PROVE  LaunchInv'
<1>0. TypeOK /\ on[x] \in Apps /\ pc[x] \notin LaunchLabels /\ made[x] = None /\ ActorSound(x)
      /\ UNCHANGED <<tables, directory, tick, counters>>
  BY EditReady DEF DeleteProbe, LaunchInv, ActorsSound
<1>1. CASE Forget(x)
  <2>1. End(x) /\ NoOrphans'
    BY <1>0, <1>1 DEF End, LaunchInv, NoOrphans, Launched, tables
  <2> QED BY <1>0, <2>1, EndKeeps DEF TypeOK, tables
<1>2. ASSUME NEW label \in {"deleteHard", "deleteSoft"}, Goto(x, label),
             UNCHANGED <<on, cfg, roster, plan, made>>
      PROVE  LaunchInv'
  <2>1. /\ pc' \in [Actors -> Labels] /\ pc'[x] = label
        /\ \A y \in Actors \ {x} : pc'[y] = pc[y]
    BY <1>0, <1>2, WentOn DEF Labels
  <2>2. TypeOK'
    BY <1>0, <1>2, <2>1 DEF TypeOK, tables, tick, counters
  <2>3. ActorSound(x)' /\ made'[x] = made[x]
    BY <1>0, <1>2, <2>1 DEF ActorSound, LaunchLabels
  <2>4. \A y \in Actors \ {x} : Same(y)
    BY <1>2, <2>1 DEF Same
  <2> QED BY <1>0, <2>2, <2>3, <2>4, TablesKept DEF tables, counters
<1> QED BY <1>1, <1>2 DEF DeleteProbe

\* The row of an application goes only when no campaign refers to it.
LEMMA DeleteHardKeeps ==
  ASSUME LaunchInv, NEW x \in Actors, DeleteHard(x)
  PROVE  LaunchInv'
<1>0. TypeOK /\ on[x] \in Apps /\ pc[x] \notin LaunchLabels /\ made[x] = None /\ ActorSound(x)
  BY EditReady DEF DeleteHard, LaunchInv, ActorsSound
<1>1. CASE /\ Goto(x, "deleteSoft")
           /\ UNCHANGED <<tables, directory, on, cfg, roster, plan, made, tick, counters>>
  <2>1. /\ pc' \in [Actors -> Labels] /\ pc'[x] = "deleteSoft"
        /\ \A y \in Actors \ {x} : pc'[y] = pc[y]
    BY <1>0, <1>1, WentOn DEF Labels
  <2>2. TypeOK'
    BY <1>0, <1>1, <2>1 DEF TypeOK, tables, tick, counters
  <2>3. ActorSound(x)' /\ made'[x] = made[x]
    BY <1>0, <1>1, <2>1 DEF ActorSound, LaunchLabels
  <2>4. \A y \in Actors \ {x} : Same(y)
    BY <1>1, <2>1 DEF Same
  <2> QED BY <1>1, <2>2, <2>3, <2>4, TablesKept DEF tables, counters
<1>2. CASE /\ ~StillReferenced(on[x])
           /\ app'      = [app EXCEPT ![on[x]] = "deleted"]
           /\ bindings' = [bindings EXCEPT ![on[x]] = {}]
           /\ nominees' = [nominees EXCEPT ![on[x]] = {}]
           /\ autoLog'  = {row \in autoLog : row[1] # on[x]}
           /\ End(x)
           /\ UNCHANGED <<config, campaigns, fresh, invited>>
  <2>1. /\ app' \in [Apps -> AppStates] /\ bindings' \in [Apps -> SUBSET Groups]
        /\ nominees' \in [Apps -> SUBSET People]
        /\ \A a \in Apps \ {on[x]} : app'[a] = app[a]
    BY <1>0, <1>2 DEF TypeOK, AppStates
  <2>2. autoLog' \in SUBSET (Apps \X {"launched", "skipped", "error"})
    BY <1>0, <1>2 DEF TypeOK
  <2>3. \A i \in Launched : campaigns[i].app \in Apps \ {on[x]}
    BY <1>0, <1>2 DEF StillReferenced, CampaignsOf, Launched, TypeOK, Campaign
  <2>4. NoOrphans'
    BY <1>2, <2>1, <2>3 DEF LaunchInv, NoOrphans, Launched
  <2> QED BY <1>0, <1>2, <2>1, <2>2, <2>4, EndKeeps DEF TypeOK
<1> QED BY <1>1, <1>2 DEF DeleteHard

LEMMA DeleteSoftKeeps ==
  ASSUME LaunchInv, NEW x \in Actors, DeleteSoft(x)
  PROVE  LaunchInv'
<1>0. /\ TypeOK /\ on[x] \in Apps /\ pc[x] \notin LaunchLabels /\ End(x)
      /\ UNCHANGED <<campaigns, fresh, invited, autoLog>>
  BY EditReady DEF DeleteSoft
<1>1. config[on[x]] \in Configs
  BY <1>0 DEF TypeOK
<1>2. Defaults(config[on[x]].owner) \in Configs
  BY <1>1 DEF Defaults, Configs, RoutingModes
<1>3. /\ app' \in [Apps -> AppStates] /\ config' \in [Apps -> Configs]
      /\ bindings' \in [Apps -> SUBSET Groups] /\ nominees' \in [Apps -> SUBSET People]
      /\ \A a \in Apps : app'[a] = "deleted" => app[a] = "deleted"
  BY <1>0, <1>2 DEF DeleteSoft, TypeOK, AppStates
<1>4. NoOrphans'
  BY <1>0, <1>3 DEF LaunchInv, NoOrphans, Launched, TypeOK, Campaign
<1> QED BY <1>0, <1>3, <1>4, EndKeeps DEF TypeOK

LEMMA EditWriteKeeps ==
  ASSUME LaunchInv, NEW x \in Actors, EditWrite(x)
  PROVE  LaunchInv'
<1>0. /\ TypeOK /\ on[x] \in Apps /\ pc[x] \notin LaunchLabels /\ End(x)
      /\ UNCHANGED <<app, campaigns, fresh, invited, autoLog>>
  BY EditReady DEF EditWrite
<1>1. /\ config' \in [Apps -> Configs] /\ bindings' \in [Apps -> SUBSET Groups]
      /\ nominees' \in [Apps -> SUBSET People]
  <2>1. Settings \subseteq Configs
    BY LaunchAssumption DEF Configs
  <2> QED BY <1>0, <2>1 DEF EditWrite, TypeOK
<1>2. NoOrphans'
  BY <1>0 DEF LaunchInv, NoOrphans, Launched
<1> QED BY <1>0, <1>1, <1>2, EndKeeps DEF TypeOK

-----------------------------------------------------------------------------
(* The invariant and what follows from it.                                  *)

LEMMA LaunchInit == Init => LaunchInv
<1> SUFFICES ASSUME Init PROVE LaunchInv
  OBVIOUS
<1>1. Launched = {}
  BY DEF Init, Launched
<1>2. TypeOK
  <2>1. config \in [Apps -> Configs]
    BY LaunchAssumption DEF Init, Configs
  <2>2. edits \in 0..MaxEdits /\ faults \in 0..MaxFaults
    BY LaunchAssumption DEF Init
  <2> QED BY <2>1, <2>2, LaunchAssumption DEF Init, TypeOK, AppStates, Labels
<1>3. ActorsSound
  BY DEF Init, ActorsSound, ActorSound, LaunchLabels
<1>4. IdsInOrder
  <2>1. 0 \in 0..MaxCampaigns /\ 1..0 = {}
    BY LaunchAssumption
  <2> QED BY <1>1, <2>1 DEF IdsInOrder
<1> QED BY <1>1, <1>2, <1>3, <1>4
        DEF LaunchInv, OneOpen, OpenFor, NoOrphans, RoutingCovers, InvitedUnlessCutOff,
            NoEarlyInvites, Init

LEMMA LaunchStep == LaunchInv /\ [Next]_vars => LaunchInv'
<1> SUFFICES ASSUME LaunchInv, [Next]_vars PROVE LaunchInv'
  OBVIOUS
<1>1. ASSUME NEW x \in Actors, LaunchSteps(x) PROVE LaunchInv'
  BY <1>1, CheckOpenKeeps, ReadRosterKeeps, PlanKeeps, PersistKeeps, InviteKeeps,
     EndsKeeps DEF LaunchSteps
<1>2. ASSUME NEW x \in Operators, EditSteps(x) PROVE LaunchInv'
  <2>1. x \in Actors
    BY DEF Actors
  <2>2. ASSUME NEW a \in Apps, ArchiveCheck(x, a) \/ DeleteCheck(x, a) \/ EditCheck(x, a)
        PROVE  LaunchInv'
    BY <2>2, BeginKeeps DEF ArchiveCheck, DeleteCheck, EditCheck
  <2> QED BY <1>2, <2>1, <2>2, ArchiveWriteKeeps, DeleteProbeKeeps, DeleteHardKeeps,
             DeleteSoftKeeps, EditWriteKeeps DEF EditSteps
<1>3. ASSUME NEW x \in Operators, NEW a \in Apps, Launch(x, a) PROVE LaunchInv'
  BY <1>3, LaunchKeeps DEF Actors
<1>4. CASE UNCHANGED vars
  <2>1. TypeOK' /\ NoOrphans' /\ UNCHANGED <<campaigns, invited, cut, local>>
    <3>1. UNCHANGED <<app, config, bindings, nominees, campaigns, fresh, invited, autoLog,
                      pc, on, cfg, roster, plan, made, due, dropped, cut, edits, faults, directory>>
      BY <1>4 DEF vars, tables, local, tick, counters
    <3> QED BY <3>1 DEF LaunchInv, TypeOK, NoOrphans, Launched, local
  <2> QED BY <2>1, NobodyActs
<1> QED BY <1>1, <1>2, <1>3, <1>4, CutKeeps, TickSelectKeeps, TickLaunchKeeps, TickRefusedKeeps,
           CadenceKeeps, RestoreKeeps, CloseKeeps, SyncKeeps DEF Next

LEMMA LaunchInvariance == Spec => []LaunchInv
BY LaunchInit, LaunchStep, PTL DEF Spec

\* Type correctness: every table, and everything a request or a tick has read, keeps
\* its type whatever is launched, edited, synced or cut off.
THEOREM LaunchTypes == Spec => []TypeOK
<1>1. LaunchInv => TypeOK
  BY DEF LaunchInv
<1> QED BY <1>1, LaunchInvariance, PTL

\* However many operators and ticks launch an application together, it never has two
\* open campaigns: the index of migration 022 decides.
THEOREM OneOpenCampaign == Spec => []OneOpenPerApp
<1>1. LaunchInv => OneOpenPerApp
  <2> SUFFICES ASSUME LaunchInv, NEW a \in Apps PROVE Cardinality(OpenFor(a)) <= 1
    BY DEF OneOpenPerApp
  <2>1. CASE OpenFor(a) = {}
    BY <2>1, FS_EmptySet
  <2>2. CASE OpenFor(a) # {}
    <3>1. PICK i : i \in OpenFor(a)
      BY <2>2
    <3>2. OpenFor(a) = {i}
      BY <3>1 DEF LaunchInv, OneOpen
    <3>3. Cardinality({i}) = 1
      BY FS_Singleton
    <3> QED BY <3>2, <3>3
  <2> QED BY <2>1, <2>2
<1> QED BY <1>1, LaunchInvariance, PTL

\* No campaign outlives its application's row, however a delete races a launch.
THEOREM NothingOrphaned == Spec => []NoOrphans
<1>1. LaunchInv => NoOrphans
  BY DEF LaunchInv
<1> QED BY <1>1, LaunchInvariance, PTL

\* Every campaign asks about everybody on its roster, and asks the right person,
\* whatever the directory, the bindings and the nominees became between the reads.
THEOREM RoutingIsComplete == Spec => []RoutingCovers
<1>1. LaunchInv => RoutingCovers
  BY DEF LaunchInv
<1> QED BY <1>1, LaunchInvariance, PTL

\* A campaign with a recipient who has no invite on record is still being mailed or was
\* cut off, and nobody else is ever invited.
THEOREM EverybodyInvited == Spec => []InvitedUnlessCutOff
<1>1. LaunchInv => InvitedUnlessCutOff
  BY DEF LaunchInv
<1> QED BY <1>1, LaunchInvariance, PTL

=============================================================================
