---------------------------- MODULE AuditingPage ----------------------------
(* The Auditing page of the browser console, for one application: the form   *)
(* that registers it together with its AD groups (a sequence of calls), the  *)
(* edits of its detail page, its campaigns, and the reloads that follow each *)
(* of them, of the whole list or of the one application.  What is drawn, and *)
(* in which element, is left to ExclusionsPage, whose forms are built the    *)
(* same way.                                                                 *)
EXTENDS Naturals

CONSTANTS
  Groups,      \* AD groups to bind
  Nominees,    \* people to nominate as reviewers
  Configs,     \* what a PATCH changes: names and owners, routing, cadence
  ByNominees,  \* those of them that route to nominees
  MaxAudCalls  \* writes and refreshes of one page load

ASSUME AuditingAssumption ==
  MaxAudCalls \in Nat \ {0} /\ Configs # {} /\ ByNominees \subseteq Configs /\ Groups \cap Nominees = {}

Links == Groups \cup Nominees

VARIABLES
  apiApp,     \* the API's application
  rowApp,     \* the one of AUDITING_DATA.APPLICATIONS
  addForm,    \* the "New application" form: open, and the groups chosen
  editForm,   \* the edit form: open, and the draft kept for the application
  audCalls,   \* calls in flight, a registration from its first call to its last
  audNr,      \* calls made
  audError,   \* an error is recorded
  audRibbon,  \* DEMO ribbon of the page
  audOverlap  \* the last call was made while another was in flight (no code reads it)

audVars == <<apiApp, rowApp, addForm, editForm, audCalls, audNr, audError, audRibbon, audOverlap>>

FirstConfig == CHOOSE v \in Configs : TRUE
NoApp == [status |-> "none", bound |-> {}, config |-> FirstConfig]
\* "in_review" is an active application with an open campaign.
Apps == [status : {"none", "active", "in_review", "archived"}, bound : SUBSET Links,
         config : Configs]
InUse(app) == app.status \in {"active", "in_review"}
NoDraft == "no draft"

\* Writes that reload the list and writes that reload the application.
ListKinds == {"create", "archive", "restore", "delete", "launch", "close", "remind", "wave"}
AppKinds == {"link", "unlink", "patch"}

\* A write is sent and refused, or written and its list read by the API when it
\* gets to it.  A registration goes on: it binds, and reads again.
AudStages == {"sent", "refused", "given_up", "written", "read", "bind", "bound", "read_again"}
AudCalls ==
  [nr : 1..MaxAudCalls, kind : ListKinds \cup AppKinds, all : SUBSET Links, left : SUBSET Links,
   config : Configs, told : BOOLEAN, stage : AudStages, copy : Apps]

AuditingTypeOK ==
  /\ apiApp \in Apps /\ rowApp \in Apps
  /\ addForm \in [open : BOOLEAN, links : SUBSET Groups]
  /\ editForm \in [open : BOOLEAN, draft : Configs \cup {NoDraft}]
  /\ audCalls \in SUBSET AudCalls
  /\ audNr \in 0..MaxAudCalls
  /\ audError \in BOOLEAN /\ audRibbon \in BOOLEAN /\ audOverlap \in BOOLEAN

NewCall(kind, links, config) ==
  [nr |-> audNr + 1, kind |-> kind, all |-> links, left |-> links, config |-> config,
   told |-> FALSE, stage |-> IF kind = "wave" THEN "written" ELSE "sent", copy |-> NoApp]

\* The boot wave is out; the application is known to the API or not yet.
AuditingInit ==
  /\ apiApp \in {NoApp, [NoApp EXCEPT !.status = "active"]}
  /\ rowApp = NoApp
  /\ addForm = [open |-> FALSE, links |-> {}]
  /\ editForm = [open |-> FALSE, draft |-> NoDraft]
  /\ audCalls = {[nr |-> 1, kind |-> "wave", all |-> {}, left |-> {}, config |-> FirstConfig,
                  told |-> FALSE, stage |-> "written", copy |-> NoApp]}
  /\ audNr = 1
  /\ audError = FALSE /\ audRibbon = FALSE /\ audOverlap = FALSE

-----------------------------------------------------------------------------
(* What the user does.                                                      *)

Make(c) ==
  /\ audNr < MaxAudCalls
  /\ audNr' = audNr + 1
  /\ audOverlap' = (audCalls # {})
  /\ audCalls' = audCalls \cup {c}
  /\ UNCHANGED <<apiApp, rowApp>>

Untouched == UNCHANGED <<addForm, editForm, audError, audRibbon>>

\* "+ Add application" and its Cancel; the groups chosen stay in the form.
ToggleAddForm ==
  /\ addForm' = [addForm EXCEPT !.open = ~@]
  /\ UNCHANGED <<apiApp, rowApp, editForm, audCalls, audNr, audError, audRibbon, audOverlap>>

ChooseLink(l) ==
  /\ addForm.open
  /\ addForm' = [addForm EXCEPT !.links = IF l \in @ THEN @ \ {l} ELSE @ \cup {l}]
  /\ UNCHANGED <<apiApp, rowApp, editForm, audCalls, audNr, audError, audRibbon, audOverlap>>

\* "Create application": a name, an owner and at least one group are there.
CreateApplication ==
  /\ addForm.open /\ addForm.links # {}
  /\ Make(NewCall("create", addForm.links, FirstConfig)) /\ Untouched

\* The detail page of a live application: a group is bound or unbound.
ChangeBinding(kind, g) ==
  /\ InUse(rowApp) /\ (kind = "link") = (g \notin rowApp.bound)
  /\ Make(NewCall(kind, {g}, FirstConfig)) /\ Untouched

\* In nominees mode, a reviewer is nominated unless listed already, or removed.
ChangeNominee(kind, n) ==
  /\ InUse(rowApp) /\ rowApp.config \in ByNominees
  /\ (kind = "link") = (n \notin rowApp.bound)
  /\ Make(NewCall(kind, {n}, FirstConfig)) /\ Untouched

\* Routing mode, cadence, auto-launch, due period: each a PATCH of its own.
ChangeConfig(v) ==
  /\ InUse(rowApp) /\ v # rowApp.config
  /\ Make(NewCall("patch", {}, v)) /\ Untouched

\* "Archive" and "Delete" are hidden while the details are edited; an archived
\* application is restored or deleted.
ChangeLife(kind) ==
  /\ \/ InUse(rowApp) /\ ~editForm.open /\ kind \in {"archive", "delete"}
     \/ rowApp.status = "archived" /\ kind \in {"restore", "delete"}
  /\ Make(NewCall(kind, {}, FirstConfig)) /\ Untouched

\* The "New campaign" tab offers every application that is not archived.
LaunchCampaign == InUse(rowApp) /\ Make(NewCall("launch", {}, FirstConfig)) /\ Untouched

\* The page of an open campaign: "Send reminders", "Resend", "Close campaign".
ChangeCampaign(kind) ==
  /\ rowApp.status = "in_review" /\ kind \in {"close", "remind"}
  /\ Make(NewCall(kind, {}, FirstConfig)) /\ Untouched

\* "Edit details" fills the form from the row, or from the draft left there by
\* "Back"; "Save" sends all of it, "Cancel" drops it.
OpenEdit ==
  /\ InUse(rowApp) /\ ~editForm.open
  /\ editForm' = [open |-> TRUE, draft |-> IF editForm.draft = NoDraft THEN rowApp.config
                                                                      ELSE editForm.draft]
  /\ UNCHANGED <<apiApp, rowApp, addForm, audCalls, audNr, audError, audRibbon, audOverlap>>

Edit(f) ==
  /\ editForm.open
  /\ f \in [open : {TRUE}, draft : Configs] \cup {[open |-> FALSE, draft |-> NoDraft],
                                                  [editForm EXCEPT !.open = FALSE]}
  /\ editForm' = f
  /\ UNCHANGED <<apiApp, rowApp, addForm, audCalls, audNr, audError, audRibbon, audOverlap>>

SaveEdit ==
  /\ editForm.open /\ InUse(rowApp)
  /\ Make(NewCall("patch", {}, editForm.draft)) /\ Untouched

\* Refresh, Retry now, another BU.
ReloadAuditing ==
  /\ Make(NewCall("wave", {}, FirstConfig))
  /\ audError' = FALSE /\ audRibbon' = FALSE
  /\ UNCHANGED <<addForm, editForm>>

-----------------------------------------------------------------------------
(* What becomes of a call.                                                  *)

\* What the API accepts, and what it makes of it.
Allowed(c) ==
  CASE c.kind = "create"  -> apiApp.status = "none"
    [] c.kind = "delete"  -> apiApp.status \in {"active", "archived"}
    [] c.kind = "restore" -> apiApp.status = "archived"
    [] c.kind \in {"archive", "launch"} -> apiApp.status = "active"
    [] c.kind \in {"close", "remind"}   -> apiApp.status = "in_review"
    [] OTHER              -> InUse(apiApp)
AppliedTo(c, a) ==
  CASE c.kind = "create"  -> [NoApp EXCEPT !.status = "active"]
    [] c.kind = "delete"  -> NoApp
    [] c.kind = "archive" -> [a EXCEPT !.status = "archived"]
    [] c.kind \in {"restore", "close"} -> [a EXCEPT !.status = "active"]
    [] c.kind = "launch"  -> [a EXCEPT !.status = "in_review"]
    [] c.kind = "link"    -> [a EXCEPT !.bound = @ \cup c.all]
    [] c.kind = "unlink"  -> [a EXCEPT !.bound = @ \ c.all]
    [] c.kind = "patch"   -> [a EXCEPT !.config = c.config]
    [] OTHER              -> a

Become(c, d) == audCalls' = (audCalls \ {c}) \cup {d}
Over(c) == audCalls' = audCalls \ {c}

\* done() of the forms: a registration closes its form and forgets it; a patch of
\* the edit form closes that one and drops the draft.
FormsAfter(c) ==
  /\ addForm' = IF c.kind = "create" THEN [open |-> FALSE, links |-> {}] ELSE addForm
  /\ editForm' \in IF c.kind = "patch" THEN {editForm, [open |-> FALSE, draft |-> NoDraft]}
                                       ELSE {editForm}

\* The API applies, refuses, or reads for a reload.
ApiServes(c) ==
  /\ \/ c.stage = "sent" /\ Allowed(c) /\ apiApp' = AppliedTo(c, apiApp)
        /\ Become(c, [c EXCEPT !.stage = "written"])
     \/ c.stage = "sent" /\ UNCHANGED apiApp /\ Become(c, [c EXCEPT !.stage = "refused"])
     \/ c.stage = "written" /\ UNCHANGED apiApp
        /\ Become(c, [c EXCEPT !.stage = "read", !.copy = apiApp])
     \/ c.stage = "bound" /\ UNCHANGED apiApp
        /\ Become(c, [c EXCEPT !.stage = "read_again", !.copy = apiApp])
     \/ c.stage = "given_up" /\ Over(c)
        /\ apiApp' \in {apiApp} \cup (IF Allowed(c) THEN {AppliedTo(c, apiApp)} ELSE {})
  /\ UNCHANGED <<rowApp, addForm, editForm, audNr, audError, audRibbon, audOverlap>>

\* A refusal, or no answer: the user is told, the form stays, nothing is reloaded.
WriteRejected(c) ==
  /\ \/ c.stage = "refused" /\ Over(c)
     \/ c.stage = "sent" /\ Become(c, [c EXCEPT !.stage = "given_up", !.told = TRUE])
     \/ c.stage = "written" /\ c.kind # "wave" /\ Over(c)
  /\ audError' = TRUE
  /\ UNCHANGED <<apiApp, rowApp, addForm, editForm, audNr, audRibbon, audOverlap>>

\* Mutant: the new application is looked for before its list has been reloaded.
AfterReload_Early(c, row) ==
  IF c.kind = "create" /\ c.stage = "read" /\ rowApp.status # "none"
    THEN Become(c, [c EXCEPT !.stage = "bind", !.copy = NoApp]) /\ UNCHANGED <<addForm, editForm>>
    ELSE Over(c) /\ FormsAfter(c)

\* After the reload, whatever came of it: a registration looks its application up
\* in the list by name and binds if it is there; else it is done, without a word.
AfterReload(c, row) ==
  IF c.kind = "create" /\ c.stage \in {"written", "read"} /\ row.status # "none"
    THEN Become(c, [c EXCEPT !.stage = "bind", !.copy = NoApp]) /\ UNCHANGED <<addForm, editForm>>
    ELSE Over(c) /\ FormsAfter(c)

\* The answer to a reload replaces the row and clears the ribbon; of a list, the
\* detail call of the application may fail, which leaves it out.
ReloadAnswered(c, missing) ==
  /\ c.stage \in {"read", "read_again"}
  /\ missing => c.kind \in ListKinds /\ c.copy.status # "none"
  /\ rowApp' = IF missing THEN NoApp ELSE c.copy
  /\ AfterReload(c, rowApp')
  /\ audError' = (audError \/ missing)
  /\ audRibbon' = FALSE
  /\ UNCHANGED <<apiApp, audNr, audOverlap>>

\* Mutant: a reload that is given up after 15 seconds is recorded nowhere.
ReloadLost_Quiet(c) ==
  /\ c.stage \in {"written", "read", "bound", "read_again"}
  /\ AfterReload(c, rowApp)
  /\ audError' = (audError \/ c.kind \in ListKinds)
  /\ audRibbon' = (audRibbon \/ c.kind \in ListKinds)
  /\ UNCHANGED <<apiApp, rowApp, audNr, audOverlap>>

\* A reload fails: a list's marks the page, an application's does not.  (An
\* application that is gone answers 404.)
ReloadLost(c) ==
  /\ c.stage \in {"written", "read", "bound", "read_again"}
  /\ AfterReload(c, rowApp)
  /\ audError' = TRUE
  /\ audRibbon' = (audRibbon \/ c.kind \in ListKinds)
  /\ UNCHANGED <<apiApp, rowApp, audNr, audOverlap>>

\* The groups are bound one after the other; the first failure is told and ends it.
BindNext(c, l) ==
  /\ c.stage = "bind" /\ l \in c.left
  /\ \/ /\ InUse(apiApp)
        /\ apiApp' = [apiApp EXCEPT !.bound = @ \cup {l}]
        /\ Become(c, [c EXCEPT !.left = @ \ {l}, !.stage = IF c.left = {l} THEN "bound" ELSE @])
        /\ UNCHANGED audError
     \/ /\ apiApp' \in {apiApp} \cup (IF InUse(apiApp)
                                        THEN {[apiApp EXCEPT !.bound = @ \cup {l}]} ELSE {})
        /\ Become(c, [c EXCEPT !.told = TRUE, !.stage = "bound"])
        /\ audError' = TRUE
  /\ UNCHANGED <<rowApp, addForm, editForm, audNr, audRibbon, audOverlap>>

AudCallStep(c) ==
  \/ ApiServes(c) \/ WriteRejected(c) \/ ReloadLost(c)
  \/ \E missing \in BOOLEAN : ReloadAnswered(c, missing)
  \/ \E l \in Links : BindNext(c, l)

AuditingNext ==
  \/ ToggleAddForm \/ CreateApplication
  \/ \E g \in Groups : ChooseLink(g)
  \/ \E kind \in {"link", "unlink"} :
       (\E g \in Groups : ChangeBinding(kind, g)) \/ (\E n \in Nominees : ChangeNominee(kind, n))
  \/ \E v \in Configs : ChangeConfig(v)
  \/ \E kind \in ListKinds : ChangeLife(kind) \/ ChangeCampaign(kind)
  \/ LaunchCampaign
  \/ OpenEdit \/ SaveEdit
  \/ \E open \in BOOLEAN, draft \in Configs \cup {NoDraft} : Edit([open |-> open, draft |-> draft])
  \/ ReloadAuditing
  \/ \E c \in audCalls : AudCallStep(c)

AuditingSpec == AuditingInit /\ [][AuditingNext]_audVars

-----------------------------------------------------------------------------
(* Properties.                                                              *)

\* When nothing is in flight, no error is recorded and the last call had none
\* beside it, the row is the API's application with its groups: neither the long
\* registration nor an edit leaves a state behind that only a Refresh would mend.
QuietAppIsCurrent == audCalls = {} /\ ~audError /\ ~audOverlap => rowApp = apiApp

Ends(c) == c \in audCalls /\ \A d \in audCalls' : d.nr # c.nr

\* A registration that ran alone and met no error leaves every group chosen bound,
\* not just the application: it takes a reload in between to learn its id.
CreatedWithItsGroups ==
  [][\A c \in audCalls :
       c.kind = "create" /\ Ends(c) /\ ~audError' /\ ~audOverlap => c.all \subseteq apiApp.bound]_audVars

\* What the comment on addAuditApp says of onDone: it fires after the application
\* and its bindings are created, so unless the user was told of a failure.
DoneMeansBound ==
  [][\A c \in audCalls :
       c.kind = "create" /\ Ends(c) /\ addForm.open /\ ~addForm'.open /\ ~c.told =>
         c.all \subseteq apiApp.bound]_audVars

=============================================================================
