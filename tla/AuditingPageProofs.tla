------------------------- MODULE AuditingPageProofs -------------------------
(* What a quiet Auditing page shows and what a registration that met no      *)
(* error has done, for any groups, people, configurations and calls.         *)
EXTENDS AuditingPage, TLAPS

\* A call that had no other beside it when it was made stays the only one: while
\* it is out nothing else changes the API's application.
OneAudCall == ~audOverlap => \A c, d \in audCalls : c = d

\* So what it read for its reload is still what the API has, the error it left
\* when it was given up is still recorded,
CopyIsCurrent ==
  ~audOverlap => \A c \in audCalls : c.stage \in {"read", "read_again"} => c.copy = apiApp
TroubleIsTold ==
  ~audOverlap => \A c \in audCalls : c.stage = "given_up" \/ c.told => audError

\* and a registration finds its application in the list, and behind it the groups
\* it has bound so far.
AppIsThere ==
  ~audOverlap => \A c \in audCalls :
    c.kind = "create" /\ c.stage \in {"written", "read"} => apiApp.status = "active"
BoundSoFar ==
  ~audOverlap => \A c \in audCalls :
    c.kind = "create" =>
      /\ c.stage \notin {"bind", "bound", "read_again"} => c.left = c.all
      /\ c.stage = "bind" => c.all \ c.left \subseteq apiApp.bound
      /\ c.stage \in {"bound", "read_again"} /\ ~c.told => c.all \subseteq apiApp.bound

\* An open edit form has been filled.
FormIsFilled == editForm.open => editForm.draft \in Configs

AudQuietInv ==
  /\ AuditingTypeOK /\ FormIsFilled /\ OneAudCall /\ CopyIsCurrent /\ TroubleIsTold /\ AppIsThere /\ BoundSoFar
  /\ QuietAppIsCurrent

-----------------------------------------------------------------------------
(* Types.                                                                   *)

LEMMA FirstConfigType == FirstConfig \in Configs
BY AuditingAssumption DEF FirstConfig

LEMMA NoAppType == NoApp \in Apps
BY FirstConfigType DEF NoApp, Apps

\* An accepted write makes an application of an application.
LEMMA AppliedType ==
  ASSUME NEW c \in AudCalls, NEW a \in Apps
  PROVE  AppliedTo(c, a) \in Apps
<1>1. /\ a.bound \in SUBSET Links /\ c.all \in SUBSET Links /\ c.config \in Configs
      /\ NoApp \in Apps
  BY NoAppType DEF Apps, AudCalls
<1>2. /\ [NoApp EXCEPT !.status = "active"] \in Apps
      /\ \A s \in {"archived", "active", "in_review"} : [a EXCEPT !.status = s] \in Apps
      /\ [a EXCEPT !.bound = a.bound \cup c.all] \in Apps
      /\ [a EXCEPT !.bound = a.bound \ c.all] \in Apps
      /\ [a EXCEPT !.config = c.config] \in Apps
  BY <1>1 DEF Apps
<1> HIDE DEF NoApp
<1> QED BY <1>1, <1>2 DEF AppliedTo

\* What a step makes of a call is a call.
LEMMA CallType ==
  ASSUME NEW c \in AudCalls
  PROVE  /\ \A s \in AudStages : [c EXCEPT !.stage = s] \in AudCalls
         /\ \A s \in AudStages : \A a \in Apps : [c EXCEPT !.stage = s, !.copy = a] \in AudCalls
         /\ \A s \in AudStages : [c EXCEPT !.stage = s, !.told = TRUE] \in AudCalls
         /\ \A s \in AudStages : [c EXCEPT !.told = TRUE, !.stage = s] \in AudCalls
         /\ \A s \in AudStages : \A l \in Links : [c EXCEPT !.left = c.left \ {l}, !.stage = s] \in AudCalls
BY DEF AudCalls

LEMMA NewCallType ==
  ASSUME AuditingTypeOK, audNr < MaxAudCalls,
         NEW kind \in ListKinds \cup AppKinds, NEW links \in SUBSET Links, NEW config \in Configs
  PROVE  /\ NewCall(kind, links, config) \in AudCalls
         /\ audNr + 1 \in 0..MaxAudCalls
         /\ NewCall(kind, links, config).stage = IF kind = "wave" THEN "written" ELSE "sent"
         /\ NewCall(kind, links, config).kind = kind
         /\ NewCall(kind, links, config).left = links /\ NewCall(kind, links, config).all = links
         /\ ~NewCall(kind, links, config).told
<1>1. audNr + 1 \in 1..MaxAudCalls
  BY AuditingAssumption DEF AuditingTypeOK
<1> QED BY <1>1, NoAppType DEF NewCall, AudCalls, AudStages

\* Making a call, and nothing else but the two forms and, for a wave, the error
\* list and the ribbon, keeps the invariant: the new call has read nothing and was
\* not given up, and the page is not quiet.
LEMMA MakeKeeps ==
  ASSUME AudQuietInv, NEW kind \in ListKinds \cup AppKinds, NEW links \in SUBSET Links,
         NEW config \in Configs, Make(NewCall(kind, links, config)),
         UNCHANGED <<addForm, editForm>>, audError' \in BOOLEAN, audRibbon' \in BOOLEAN
  PROVE  AudQuietInv'
<1> DEFINE new == NewCall(kind, links, config)
<1>1. /\ new \in AudCalls /\ new.kind = kind /\ ~new.told
      /\ new.stage = IF kind = "wave" THEN "written" ELSE "sent"
      /\ new.left = new.all /\ audNr + 1 \in 0..MaxAudCalls
  BY NewCallType DEF Make, AudQuietInv
<1>2. /\ audCalls' = audCalls \cup {new} /\ audOverlap' = (audCalls # {}) /\ audNr' = audNr + 1
      /\ UNCHANGED <<apiApp, rowApp>>
  BY DEF Make
<1> HIDE DEF new
<1>3. AuditingTypeOK'
  <2>1. audCalls' \in SUBSET AudCalls /\ audOverlap' \in BOOLEAN
    BY <1>1, <1>2 DEF AudQuietInv, AuditingTypeOK
  <2> QED BY <1>1, <1>2, <2>1 DEF AudQuietInv, AuditingTypeOK
<1>4. ~audOverlap' => audCalls' = {new}
  BY <1>2
<1>5. audCalls' # {}
  BY <1>2
<1>6. FormIsFilled'
  BY DEF AudQuietInv, FormIsFilled
<1> QED BY <1>1, <1>3, <1>4, <1>5, <1>6 DEF AudQuietInv, OneAudCall, CopyIsCurrent, TroubleIsTold,
                                            AppIsThere, BoundSoFar, QuietAppIsCurrent

-----------------------------------------------------------------------------
(* The user's steps.                                                        *)

UserMakes ==
  \/ CreateApplication
  \/ \E kind \in {"link", "unlink"} :
       (\E g \in Groups : ChangeBinding(kind, g)) \/ (\E n \in Nominees : ChangeNominee(kind, n))
  \/ \E v \in Configs : ChangeConfig(v)
  \/ \E kind \in ListKinds : ChangeLife(kind) \/ ChangeCampaign(kind)
  \/ LaunchCampaign \/ SaveEdit \/ ReloadAuditing

UserTypes ==
  \/ ToggleAddForm \/ OpenEdit
  \/ \E g \in Groups : ChooseLink(g)
  \/ \E open \in BOOLEAN, draft \in Configs \cup {NoDraft} : Edit([open |-> open, draft |-> draft])

LEMMA UserMakesKeeps ==
  ASSUME AudQuietInv, UserMakes
  PROVE  AudQuietInv'
<1>0. /\ FirstConfig \in Configs /\ audError \in BOOLEAN /\ audRibbon \in BOOLEAN
      /\ \A g \in Groups \cup Nominees : {g} \in SUBSET Links
      /\ {} \in SUBSET Links
  BY FirstConfigType DEF AudQuietInv, AuditingTypeOK, Links
<1>1. CASE CreateApplication
  <2>1. addForm.links \in SUBSET Links
    BY DEF AudQuietInv, AuditingTypeOK, Links
  <2> QED BY <1>0, <1>1, <2>1, MakeKeeps DEF CreateApplication, Untouched, ListKinds
<1>2. ASSUME NEW kind \in {"link", "unlink"}, NEW g \in Groups, ChangeBinding(kind, g) PROVE AudQuietInv'
  BY <1>0, <1>2, MakeKeeps DEF ChangeBinding, Untouched, AppKinds
<1>3. ASSUME NEW kind \in {"link", "unlink"}, NEW n \in Nominees, ChangeNominee(kind, n) PROVE AudQuietInv'
  BY <1>0, <1>3, MakeKeeps DEF ChangeNominee, Untouched, AppKinds
<1>4. ASSUME NEW v \in Configs, ChangeConfig(v) PROVE AudQuietInv'
  BY <1>0, <1>4, MakeKeeps DEF ChangeConfig, Untouched, AppKinds
<1>5. ASSUME NEW kind \in ListKinds, ChangeLife(kind) \/ ChangeCampaign(kind) PROVE AudQuietInv'
  BY <1>0, <1>5, MakeKeeps DEF ChangeLife, ChangeCampaign, Untouched
<1>6. CASE LaunchCampaign
  BY <1>0, <1>6, MakeKeeps DEF LaunchCampaign, Untouched, ListKinds
<1>7. CASE SaveEdit
  <2>1. editForm.draft \in Configs
    BY <1>7 DEF SaveEdit, AudQuietInv, FormIsFilled
  <2> QED BY <1>0, <1>7, <2>1, MakeKeeps DEF SaveEdit, Untouched, AppKinds
<1>8. CASE ReloadAuditing
  BY <1>0, <1>8, MakeKeeps DEF ReloadAuditing, ListKinds
<1> QED BY <1>1, <1>2, <1>3, <1>4, <1>5, <1>6, <1>7, <1>8 DEF UserMakes

\* Filling a form makes no call.
LEMMA UserTypesKeeps ==
  ASSUME AudQuietInv, UserTypes
  PROVE  AudQuietInv'
<1>1. UNCHANGED <<apiApp, rowApp, audCalls, audNr, audError, audRibbon, audOverlap>>
  <2>1. ASSUME NEW f, Edit(f)
        PROVE  UNCHANGED <<apiApp, rowApp, audCalls, audNr, audError, audRibbon, audOverlap>>
    BY <2>1 DEF Edit
  <2> QED BY <2>1 DEF UserTypes, ToggleAddForm, ChooseLink, OpenEdit
<1>2. addForm' \in [open : BOOLEAN, links : SUBSET Groups]
  <2>1. addForm \in [open : BOOLEAN, links : SUBSET Groups]
    BY DEF AudQuietInv, AuditingTypeOK
  <2>2. CASE ToggleAddForm
    BY <2>1, <2>2 DEF ToggleAddForm
  <2>3. ASSUME NEW g \in Groups, ChooseLink(g)
        PROVE  addForm' \in [open : BOOLEAN, links : SUBSET Groups]
    BY <2>1, <2>3 DEF ChooseLink
  <2>4. ASSUME NEW f, Edit(f) PROVE UNCHANGED addForm
    BY <2>4 DEF Edit
  <2> QED BY <2>1, <2>2, <2>3, <2>4 DEF UserTypes, OpenEdit
<1>3. editForm' \in [open : BOOLEAN, draft : Configs \cup {NoDraft}] /\ FormIsFilled'
  <2>1. editForm \in [open : BOOLEAN, draft : Configs \cup {NoDraft}] /\ rowApp.config \in Configs
    BY DEF AudQuietInv, AuditingTypeOK, Apps
  <2>2. CASE OpenEdit
    BY <2>1, <2>2 DEF OpenEdit, FormIsFilled
  <2>3. ASSUME NEW f, Edit(f)
        PROVE  editForm' \in [open : BOOLEAN, draft : Configs \cup {NoDraft}] /\ FormIsFilled'
    <3>1. CASE f \in [open : {TRUE}, draft : Configs]
      BY <2>3, <3>1 DEF Edit, FormIsFilled
    <3>2. CASE f = [open |-> FALSE, draft |-> NoDraft]
      BY <2>3, <3>2 DEF Edit, FormIsFilled
    <3>3. CASE f = [editForm EXCEPT !.open = FALSE]
      BY <2>1, <2>3, <3>3 DEF Edit, FormIsFilled
    <3> QED BY <2>3, <3>1, <3>2, <3>3 DEF Edit
  <2>4. CASE UNCHANGED editForm
    BY <2>1, <2>4 DEF FormIsFilled, AudQuietInv
  <2> QED BY <2>2, <2>3, <2>4 DEF UserTypes, ToggleAddForm, ChooseLink
<1>4. AuditingTypeOK'
  BY <1>1, <1>2, <1>3 DEF AudQuietInv, AuditingTypeOK
<1> QED BY <1>1, <1>3, <1>4 DEF AudQuietInv, OneAudCall, CopyIsCurrent, TroubleIsTold, AppIsThere,
                                BoundSoFar, QuietAppIsCurrent

-----------------------------------------------------------------------------
(* What becomes of a call.                                                  *)

\* A step of a call keeps the types: it ends, or becomes another stage of itself.
LEMMA AudCallStepTypes ==
  ASSUME AuditingTypeOK, FormIsFilled, NEW c \in audCalls, AudCallStep(c)
  PROVE  AuditingTypeOK' /\ FormIsFilled'
<1>1. c \in AudCalls /\ c.copy \in Apps /\ c.kind \in ListKinds \cup AppKinds
  BY DEF AuditingTypeOK, AudCalls
<1>2. AppliedTo(c, apiApp) \in Apps /\ NoApp \in Apps /\ apiApp \in Apps
  BY <1>1, AppliedType, NoAppType DEF AuditingTypeOK
<1>3. ASSUME AfterReload(c, rowApp')
      PROVE  /\ audCalls' \in SUBSET AudCalls
             /\ addForm' \in [open : BOOLEAN, links : SUBSET Groups]
             /\ editForm' \in [open : BOOLEAN, draft : Configs \cup {NoDraft}] /\ FormIsFilled'
  <2>1. [c EXCEPT !.stage = "bind", !.copy = NoApp] \in AudCalls
    BY <1>1, <1>2, CallType DEF AudStages
  <2>2. CASE Become(c, [c EXCEPT !.stage = "bind", !.copy = NoApp]) /\ UNCHANGED <<addForm, editForm>>
    BY <2>1, <2>2 DEF Become, AuditingTypeOK, FormIsFilled
  <2>3. CASE Over(c) /\ FormsAfter(c)
    <3>1. audCalls' \in SUBSET AudCalls
      BY <2>3 DEF Over, AuditingTypeOK
    <3>2. addForm' \in [open : BOOLEAN, links : SUBSET Groups]
      BY <2>3 DEF FormsAfter, AuditingTypeOK
    <3>3. editForm' = editForm \/ editForm' = [open |-> FALSE, draft |-> NoDraft]
      BY <2>3 DEF FormsAfter
    <3>4. editForm' \in [open : BOOLEAN, draft : Configs \cup {NoDraft}]
      <4>1. editForm \in [open : BOOLEAN, draft : Configs \cup {NoDraft}]
        BY DEF AuditingTypeOK
      <4>2. [open |-> FALSE, draft |-> NoDraft] \in [open : BOOLEAN, draft : Configs \cup {NoDraft}]
        OBVIOUS
      <4> QED BY <3>3, <4>1, <4>2, Zenon
    <3>5. FormIsFilled'
      BY <3>3 DEF FormIsFilled
    <3> QED BY <3>1, <3>2, <3>4, <3>5
  <2>4. \/ Become(c, [c EXCEPT !.stage = "bind", !.copy = NoApp]) /\ UNCHANGED <<addForm, editForm>>
        \/ Over(c) /\ FormsAfter(c)
    BY <1>3, Zenon DEF AfterReload
  <2> QED BY <2>2, <2>3, <2>4
<1>4. CASE ApiServes(c)
  <2>0. {"written", "refused", "read", "read_again"} \subseteq AudStages /\ audCalls \in SUBSET AudCalls
    BY DEF AudStages, AuditingTypeOK
  <2>1. audCalls' \in SUBSET AudCalls
    <3>1. \/ \E d \in AudCalls : Become(c, d)
          \/ Over(c)
      BY <1>1, <1>2, <1>4, <2>0, CallType DEF ApiServes
    <3> QED BY <2>0, <3>1 DEF Become, Over
  <2>2. apiApp' \in Apps
    BY <1>2, <1>4 DEF ApiServes
  <2> QED BY <1>4, <2>1, <2>2 DEF ApiServes, AuditingTypeOK, FormIsFilled
<1>5. CASE WriteRejected(c)
  <2>1. audCalls' \in SUBSET AudCalls
    BY <1>1, <1>5, CallType DEF WriteRejected, Become, Over, AuditingTypeOK, AudStages
  <2> QED BY <1>5, <2>1 DEF WriteRejected, AuditingTypeOK, FormIsFilled
<1>6. CASE ReloadLost(c)
  <2>1. AfterReload(c, rowApp')
    BY <1>6 DEF ReloadLost, AfterReload
  <2>2. audError' \in BOOLEAN /\ audRibbon' \in BOOLEAN
    BY <1>6 DEF ReloadLost, AuditingTypeOK
  <2> QED BY <1>3, <1>6, <2>1, <2>2 DEF ReloadLost, AuditingTypeOK
<1>7. ASSUME NEW missing \in BOOLEAN, ReloadAnswered(c, missing)
      PROVE  AuditingTypeOK' /\ FormIsFilled'
  <2>1. AfterReload(c, rowApp')
    BY <1>7 DEF ReloadAnswered
  <2>2. rowApp' \in Apps
    BY <1>1, <1>2, <1>7 DEF ReloadAnswered
  <2>3. audError' \in BOOLEAN /\ audRibbon' \in BOOLEAN
    BY <1>7 DEF ReloadAnswered
  <2> QED BY <1>3, <1>7, <2>1, <2>2, <2>3 DEF ReloadAnswered, AuditingTypeOK
<1>8. ASSUME NEW l \in Links, BindNext(c, l)
      PROVE  AuditingTypeOK' /\ FormIsFilled'
  <2>1. [apiApp EXCEPT !.bound = apiApp.bound \cup {l}] \in Apps
    BY <1>2 DEF Apps
  <2>2. apiApp' \in Apps
    BY <1>2, <1>8, <2>1 DEF BindNext
  <2>3. c.stage = "bind" /\ "bound" \in AudStages /\ "bind" \in AudStages
    BY <1>8 DEF BindNext, AudStages
  <2>4. audCalls' \in SUBSET AudCalls
    <3>1. \E d \in AudCalls : Become(c, d)
      <4>1. CASE Become(c, [c EXCEPT !.told = TRUE, !.stage = "bound"])
        BY <1>1, <2>3, <4>1, CallType
      <4>2. CASE Become(c, [c EXCEPT !.left = c.left \ {l},
                                     !.stage = IF c.left = {l} THEN "bound" ELSE c.stage])
        BY <1>1, <2>3, <4>2, CallType
      <4> QED BY <1>8, <4>1, <4>2 DEF BindNext
    <3> QED BY <3>1 DEF Become, AuditingTypeOK
  <2>5. audError' \in BOOLEAN
    BY <1>8 DEF BindNext, AuditingTypeOK
  <2> QED BY <1>8, <2>2, <2>4, <2>5 DEF BindNext, AuditingTypeOK, FormIsFilled
<1> QED BY <1>4, <1>5, <1>6, <1>7, <1>8 DEF AudCallStep

\* What the invariant asks of the only call.
Sound(d) ==
  /\ d.stage \in {"read", "read_again"} => d.copy = apiApp
  /\ d.stage = "given_up" \/ d.told => audError
  /\ d.kind = "create" =>
       /\ d.stage \in {"written", "read"} => apiApp.status = "active"
       /\ d.stage \notin {"bind", "bound", "read_again"} => d.left = d.all
       /\ d.stage = "bind" => d.all \ d.left \subseteq apiApp.bound
       /\ d.stage \in {"bound", "read_again"} /\ ~d.told => d.all \subseteq apiApp.bound

LEMMA OnlyCall ==
  ASSUME AudQuietInv, ~audOverlap, NEW c \in audCalls
  PROVE  audCalls = {c} /\ Sound(c)
BY DEF AudQuietInv, OneAudCall, CopyIsCurrent, TroubleIsTold, AppIsThere, BoundSoFar, Sound

LEMMA OnlyCallStays ==
  ASSUME AuditingTypeOK', FormIsFilled', NEW d, audCalls' = {d}, Sound(d)'
  PROVE  AudQuietInv'
BY DEF AudQuietInv, OneAudCall, CopyIsCurrent, TroubleIsTold, AppIsThere, BoundSoFar, QuietAppIsCurrent,
       Sound

LEMMA OnlyCallEnds ==
  ASSUME AuditingTypeOK', FormIsFilled', audCalls' = {}, audError' \/ rowApp' = apiApp'
  PROVE  AudQuietInv'
BY DEF AudQuietInv, OneAudCall, CopyIsCurrent, TroubleIsTold, AppIsThere, BoundSoFar, QuietAppIsCurrent

\* The end of a reload: a registration goes on to its bindings, with all of them
\* to do, or the call is over.
LEMMA AfterReloadKeeps ==
  ASSUME AuditingTypeOK, AuditingTypeOK', FormIsFilled', NEW c \in AudCalls, audCalls = {c}, Sound(c),
         AfterReload(c, rowApp'), audError => audError', audError' \/ rowApp' = apiApp',
         c.stage \in {"written", "read", "bound", "read_again"}
  PROVE  AudQuietInv'
<1> DEFINE binds == [c EXCEPT !.stage = "bind", !.copy = NoApp]
<1>1. CASE /\ c.kind = "create" /\ c.stage \in {"written", "read"} /\ rowApp'.status # "none"
           /\ Become(c, binds)
  <2>1. /\ binds.stage = "bind" /\ binds.left = c.left /\ binds.all = c.all
        /\ binds.told = c.told /\ binds.kind = c.kind
    BY DEF AudCalls
  <2> HIDE DEF binds
  <2>2. Sound(binds)'
    BY <1>1, <2>1 DEF Sound
  <2>3. audCalls' = {binds}
    BY <1>1 DEF Become
  <2> QED BY <2>2, <2>3, OnlyCallStays
<1>2. CASE Over(c)
  <2>1. audCalls' = {}
    BY <1>2 DEF Over
  <2> QED BY <2>1, OnlyCallEnds
<1> QED BY <1>1, <1>2, Zenon DEF AfterReload

LEMMA AudCallStepKeeps ==
  ASSUME AudQuietInv, NEW c \in audCalls, AudCallStep(c)
  PROVE  AudQuietInv'
<1>0. AuditingTypeOK' /\ FormIsFilled' /\ UNCHANGED audOverlap /\ c \in AudCalls
  BY AudCallStepTypes DEF AudQuietInv, AuditingTypeOK, AudCallStep, ApiServes, WriteRejected, ReloadLost,
                       ReloadAnswered, BindNext
<1>1. CASE audOverlap
  BY <1>0, <1>1 DEF AudQuietInv, OneAudCall, CopyIsCurrent, TroubleIsTold, AppIsThere, BoundSoFar,
                    QuietAppIsCurrent
<1>2. CASE ~audOverlap
  <2>0. audCalls = {c} /\ Sound(c) /\ AuditingTypeOK
    BY <1>2, OnlyCall DEF AudQuietInv
  <2>1. CASE ApiServes(c)
    <3>1. CASE c.stage = "sent" /\ apiApp' = AppliedTo(c, apiApp)
               /\ Become(c, [c EXCEPT !.stage = "written"])
      <4> DEFINE d == [c EXCEPT !.stage = "written"]
      <4>1. /\ d.stage = "written" /\ d.kind = c.kind /\ d.told = c.told
            /\ d.left = c.left /\ d.all = c.all
        BY <1>0 DEF AudCalls
      <4>2. c.kind = "create" => apiApp'.status = "active"
        BY <3>1 DEF AppliedTo, NoApp
      <4>3. audCalls' = {d} /\ UNCHANGED audError
        BY <2>0, <2>1, <3>1 DEF Become, ApiServes
      <4> HIDE DEF d
      <4>4. Sound(d)'
        BY <2>0, <3>1, <4>1, <4>2, <4>3 DEF Sound
      <4> QED BY <1>0, <4>3, <4>4, OnlyCallStays
    <3>2. CASE c.stage = "sent" /\ UNCHANGED apiApp /\ Become(c, [c EXCEPT !.stage = "refused"])
      <4> DEFINE d == [c EXCEPT !.stage = "refused"]
      <4>1. /\ d.stage = "refused" /\ d.kind = c.kind /\ d.told = c.told
            /\ d.left = c.left /\ d.all = c.all
        BY <1>0 DEF AudCalls
      <4>3. audCalls' = {d} /\ UNCHANGED audError
        BY <2>0, <2>1, <3>2 DEF Become, ApiServes
      <4> HIDE DEF d
      <4>4. Sound(d)'
        BY <2>0, <3>2, <4>1, <4>3 DEF Sound
      <4> QED BY <1>0, <4>3, <4>4, OnlyCallStays
    <3>3. ASSUME NEW s \in {"read", "read_again"}, UNCHANGED apiApp,
                 c.stage = IF s = "read" THEN "written" ELSE "bound",
                 Become(c, [c EXCEPT !.stage = s, !.copy = apiApp])
          PROVE  AudQuietInv'
      <4>0. PICK d : d = [c EXCEPT !.stage = s, !.copy = apiApp]
        OBVIOUS
      <4>1. /\ d.stage = s /\ d.kind = c.kind /\ d.told = c.told
            /\ d.left = c.left /\ d.all = c.all /\ d.copy = apiApp
        BY <1>0, <4>0 DEF AudCalls
      <4>3. audCalls' = {d} /\ UNCHANGED audError
        BY <2>0, <2>1, <3>3, <4>0 DEF Become, ApiServes
      <4>4. Sound(d)'
        <5>1. CASE s = "read" /\ c.stage = "written"
          BY <2>0, <3>3, <4>1, <4>3, <5>1 DEF Sound
        <5>2. CASE s = "read_again" /\ c.stage = "bound"
          BY <2>0, <3>3, <4>1, <4>3, <5>2 DEF Sound
        <5> QED BY <3>3, <5>1, <5>2
      <4> QED BY <1>0, <4>3, <4>4, OnlyCallStays
    <3>4. CASE c.stage = "given_up" /\ Over(c)
      <4>1. audCalls' = {} /\ audError'
        BY <2>0, <2>1, <3>4 DEF Over, Sound, ApiServes
      <4> QED BY <1>0, <4>1, OnlyCallEnds
    <3> QED BY <2>1, <3>1, <3>2, <3>3, <3>4 DEF ApiServes
  <2>2. CASE WriteRejected(c)
    <3>1. CASE Over(c)
      <4>1. audCalls' = {} /\ audError'
        BY <2>0, <2>2, <3>1 DEF Over, WriteRejected
      <4> QED BY <1>0, <4>1, OnlyCallEnds
    <3>2. CASE c.stage = "sent" /\ Become(c, [c EXCEPT !.stage = "given_up", !.told = TRUE])
      <4> DEFINE d == [c EXCEPT !.stage = "given_up", !.told = TRUE]
      <4>1. d.stage = "given_up" /\ d.left = c.left /\ d.all = c.all /\ d.kind = c.kind
        BY <1>0 DEF AudCalls
      <4>2. audCalls' = {d} /\ audError' = TRUE
        BY <2>0, <2>2, <3>2 DEF Become, WriteRejected
      <4> HIDE DEF d
      <4>3. Sound(d)'
        BY <2>0, <3>2, <4>1, <4>2 DEF Sound
      <4> QED BY <1>0, <4>2, <4>3, OnlyCallStays
    <3> QED BY <2>2, <3>1, <3>2 DEF WriteRejected
  <2>3. CASE ReloadLost(c)
    <3>1. AfterReload(c, rowApp')
      BY <2>3 DEF ReloadLost, AfterReload
    <3>2. audError' = TRUE /\ c.stage \in {"written", "read", "bound", "read_again"}
      BY <2>3 DEF ReloadLost
    <3> QED BY <1>0, <2>0, <3>1, <3>2, AfterReloadKeeps
  <2>4. ASSUME NEW missing \in BOOLEAN, ReloadAnswered(c, missing) PROVE AudQuietInv'
    <3>1. AfterReload(c, rowApp') /\ c.stage \in {"written", "read", "bound", "read_again"}
      BY <2>4 DEF ReloadAnswered
    <3>2. (audError => audError') /\ (audError' \/ rowApp' = apiApp')
      BY <2>0, <2>4 DEF ReloadAnswered, Sound
    <3> QED BY <1>0, <2>0, <3>1, <3>2, AfterReloadKeeps
  <2>5. ASSUME NEW l \in Links, BindNext(c, l) PROVE AudQuietInv'
    <3>1. CASE /\ apiApp' = [apiApp EXCEPT !.bound = @ \cup {l}] /\ UNCHANGED audError
               /\ Become(c, [c EXCEPT !.left = @ \ {l},
                                      !.stage = IF c.left = {l} THEN "bound" ELSE @])
      <4> DEFINE d == [c EXCEPT !.left = @ \ {l}, !.stage = IF c.left = {l} THEN "bound" ELSE @]
      <4>1. /\ d.left = c.left \ {l} /\ d.all = c.all /\ d.told = c.told /\ d.kind = c.kind
            /\ d.stage = IF c.left = {l} THEN "bound" ELSE "bind"
        BY <1>0, <2>5 DEF AudCalls, BindNext
      <4>2. audCalls' = {d}
        BY <2>0, <3>1 DEF Become
      <4>3. apiApp'.bound = apiApp.bound \cup {l}
        BY <2>0, <3>1 DEF AuditingTypeOK, Apps
      <4>4. c.kind = "create" => c.all \ c.left \subseteq apiApp.bound
        BY <2>0, <2>5 DEF Sound, BindNext
      <4>5. c.told => audError
        BY <2>0 DEF Sound
      <4> HIDE DEF d
      <4>6. Sound(d)'
        BY <3>1, <4>1, <4>3, <4>4, <4>5 DEF Sound
      <4> QED BY <1>0, <4>2, <4>6, OnlyCallStays
    <3>2. CASE Become(c, [c EXCEPT !.told = TRUE, !.stage = "bound"]) /\ audError' = TRUE
      <4> DEFINE d == [c EXCEPT !.told = TRUE, !.stage = "bound"]
      <4>1. d.told /\ d.stage = "bound"
        BY <1>0 DEF AudCalls
      <4>2. audCalls' = {d}
        BY <2>0, <3>2 DEF Become
      <4> HIDE DEF d
      <4>3. Sound(d)'
        BY <3>2, <4>1 DEF Sound
      <4> QED BY <1>0, <4>2, <4>3, OnlyCallStays
    <3> QED BY <2>5, <3>1, <3>2 DEF BindNext
  <2> QED BY <2>1, <2>2, <2>3, <2>4, <2>5 DEF AudCallStep
<1> QED BY <1>1, <1>2

-----------------------------------------------------------------------------

LEMMA AudQuietStep ==
  ASSUME AudQuietInv, [AuditingNext]_audVars
  PROVE  AudQuietInv'
<1>1. CASE UNCHANGED audVars
  BY <1>1 DEF audVars, AudQuietInv, AuditingTypeOK, FormIsFilled, OneAudCall, CopyIsCurrent,
              TroubleIsTold, AppIsThere, BoundSoFar, QuietAppIsCurrent
<1>2. CASE AuditingNext
  <2>1. UserMakes \/ UserTypes \/ \E c \in audCalls : AudCallStep(c)
    BY <1>2 DEF AuditingNext, UserMakes, UserTypes
  <2> QED BY <2>1, UserMakesKeeps, UserTypesKeeps, AudCallStepKeeps
<1> QED BY <1>1, <1>2

LEMMA AudQuietInit ==
  ASSUME AuditingInit
  PROVE  AudQuietInv
<1> DEFINE wave == [nr |-> 1, kind |-> "wave", all |-> {}, left |-> {}, config |-> FirstConfig,
                    told |-> FALSE, stage |-> "written", copy |-> NoApp]
<1>1. audCalls = {wave} /\ wave.stage = "written" /\ ~wave.told /\ wave.kind = "wave"
  BY DEF AuditingInit
<1>2. 1 \in 1..MaxAudCalls /\ 1 \in 0..MaxAudCalls
  BY AuditingAssumption
<1>3. wave \in AudCalls
  BY <1>2, NoAppType, FirstConfigType DEF AudCalls, ListKinds, AudStages
<1> HIDE DEF wave
<1>4. apiApp \in Apps /\ rowApp \in Apps
  <2>1. [NoApp EXCEPT !.status = "active"] \in Apps
    BY NoAppType DEF Apps
  <2> QED BY <2>1, NoAppType DEF AuditingInit
<1>5. audCalls \in SUBSET AudCalls /\ audNr \in 0..MaxAudCalls
  BY <1>1, <1>2, <1>3 DEF AuditingInit
<1>6. AuditingTypeOK
  BY <1>4, <1>5 DEF AuditingInit, AuditingTypeOK
<1> QED BY <1>1, <1>6 DEF AuditingInit, AudQuietInv, FormIsFilled, OneAudCall, CopyIsCurrent,
                          TroubleIsTold, AppIsThere, BoundSoFar, QuietAppIsCurrent

\* A quiet Auditing page shows the API's application: when nothing is out, no error
\* is recorded and the last call had none beside it, no registration, edit, launch
\* or reload before has left behind a row that only a Refresh would mend.
THEOREM QuietAppsAreCurrent == AuditingSpec => []QuietAppIsCurrent
<1>1. AudQuietInv => QuietAppIsCurrent
  BY DEF AudQuietInv
<1> QED BY <1>1, AudQuietInit, AudQuietStep, PTL DEF AuditingSpec

\* A registration that ran alone and ended without an error has bound every group
\* chosen, however many there are.
THEOREM RegistrationBindsAll == AuditingSpec => CreatedWithItsGroups
<1>1. ASSUME AudQuietInv, [AuditingNext]_audVars
      PROVE  [\A c \in audCalls :
                c.kind = "create" /\ Ends(c) /\ ~audError' /\ ~audOverlap =>
                  c.all \subseteq apiApp.bound]_audVars
  <2> SUFFICES ASSUME AuditingNext, NEW c \in audCalls, c.kind = "create", Ends(c),
                      ~audError', ~audOverlap
               PROVE  c.all \subseteq apiApp.bound
    BY <1>1
  <2>1. audCalls = {c} /\ Sound(c) /\ c \in AudCalls
    BY <1>1, OnlyCall DEF AudQuietInv, AuditingTypeOK
  <2>2. c \notin audCalls'
    BY DEF Ends
  <2>3. AudCallStep(c)
    <3>1. UserMakes => audCalls \subseteq audCalls'
      BY DEF UserMakes, CreateApplication, ChangeBinding, ChangeNominee, ChangeConfig, ChangeLife,
             ChangeCampaign, LaunchCampaign, SaveEdit, ReloadAuditing, Make
    <3>2. UserTypes => audCalls' = audCalls
      <4>1. ASSUME NEW f, Edit(f) PROVE audCalls' = audCalls
        BY <4>1 DEF Edit
      <4> QED BY <4>1 DEF UserTypes, ToggleAddForm, ChooseLink, OpenEdit
    <3>3. UserMakes \/ UserTypes \/ \E d \in audCalls : AudCallStep(d)
      BY DEF AuditingNext, UserMakes, UserTypes
    <3> QED BY <2>1, <2>2, <3>1, <3>2, <3>3
  <2>4. ASSUME NEW d \in audCalls', d.nr = c.nr PROVE FALSE
    BY <2>4 DEF Ends
  <2>5. ~ApiServes(c)
    <3>1. ASSUME ApiServes(c), c.stage = "given_up" PROVE FALSE
      BY <2>1, <3>1 DEF ApiServes, Sound
    <3>2. ASSUME ApiServes(c), NEW d, d.nr = c.nr, Become(c, d) PROVE FALSE
      BY <2>4, <3>2 DEF Become
    <3>3. /\ \A s \in AudStages : [c EXCEPT !.stage = s].nr = c.nr
          /\ \A s \in AudStages : [c EXCEPT !.stage = s, !.copy = apiApp].nr = c.nr
      BY <2>1 DEF AudCalls
    <3> QED BY <3>1, <3>2, <3>3 DEF ApiServes, AudStages
  <2>6. ~WriteRejected(c) /\ ~ReloadLost(c)
    BY DEF WriteRejected, ReloadLost
  <2>7. ASSUME NEW l \in Links, BindNext(c, l) PROVE FALSE
    <3>1. [c EXCEPT !.left = @ \ {l}, !.stage = IF c.left = {l} THEN "bound" ELSE @].nr = c.nr
      BY <2>1 DEF AudCalls
    <3> QED BY <2>4, <2>7, <3>1 DEF BindNext, Become
  <2>8. ASSUME NEW missing \in BOOLEAN, ReloadAnswered(c, missing) PROVE c.all \subseteq apiApp.bound
    <3>1. ~missing /\ rowApp' = c.copy /\ AfterReload(c, rowApp') /\ c.copy = apiApp
      BY <2>1, <2>8 DEF ReloadAnswered, Sound
    <3>2. CASE c.stage = "read"
      <4>1. [c EXCEPT !.stage = "bind", !.copy = NoApp].nr = c.nr
        BY <2>1 DEF AudCalls
      <4>2. rowApp'.status = "active"
        BY <2>1, <3>1, <3>2 DEF Sound
      <4>3. Become(c, [c EXCEPT !.stage = "bind", !.copy = NoApp])
        BY <3>1, <3>2, <4>2 DEF AfterReload
      <4> QED BY <2>4, <4>1, <4>3 DEF Become
    <3>3. CASE c.stage = "read_again"
      <4>1. ~c.told
        BY <2>1, <2>8 DEF Sound, ReloadAnswered
      <4> QED BY <2>1, <3>3, <4>1 DEF Sound
    <3> QED BY <2>8, <3>2, <3>3 DEF ReloadAnswered
  <2> QED BY <2>3, <2>5, <2>6, <2>7, <2>8 DEF AudCallStep
<1> QED BY <1>1, AudQuietInit, AudQuietStep, PTL DEF AuditingSpec, CreatedWithItsGroups

=============================================================================
