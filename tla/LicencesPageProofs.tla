------------------------- MODULE LicencesPageProofs -------------------------
(* What a quiet Licensing page shows, for any dates and any number of calls. *)
EXTENDS LicencesPage, TLAPS

USE DEF Rows

\* A call that had no other beside it when it was made stays the only one: while
\* it is out nothing else changes the API's licence.
OneLicCall == ~overlapped => \A c, d \in licCalls : c = d

\* So what it read for its reload is still what the API has,
ReadIsStored == ~overlapped => \A c \in licCalls : c.stage = "read" => c.copy = stored

\* and the error it left when it was given up is still recorded.
GivenUpIsTold == ~overlapped => \A c \in licCalls : c.stage = "given_up" => licErrors

LicQuietInv == LicencesTypeOK /\ OneLicCall /\ ReadIsStored /\ GivenUpIsTold /\ QuietRowIsStored

-----------------------------------------------------------------------------
(* Types.                                                                   *)

\* A write makes a row of a row.
LEMMA EffectType ==
  ASSUME NEW c \in Calls, NEW l \in Rows
  PROVE  Effect(c, l) \in Rows
<1>0. c.arg \in Licences /\ c.kind \in Kinds
  BY DEF Calls
<1>1. CASE l = NoLicence
  BY <1>0, <1>1 DEF Effect
<1>2. CASE l \in Licences /\ l # NoLicence
  <2>1. /\ c.arg.expires \in Dates /\ c.arg.flag \in Flags
        /\ l.expires \in Dates /\ l.flag \in Flags /\ l.cycles \in 0..MaxCalls
    BY <1>0, <1>2 DEF Licences
  <2>2. [l EXCEPT !.expires = c.arg.expires, !.flag = c.arg.flag] \in Licences
    BY <1>2, <2>1 DEF Licences
  <2>3. [l EXCEPT !.flag = c.arg.flag] \in Licences
    BY <1>2, <2>1 DEF Licences
  <2>4. (IF l.cycles < MaxCalls THEN l.cycles + 1 ELSE l.cycles) \in 0..MaxCalls
    BY <2>1, LicencesAssumption
  <2>5. [expires |-> c.arg.expires, flag |-> "tracked",
         cycles |-> IF l.cycles < MaxCalls THEN l.cycles + 1 ELSE l.cycles] \in Licences
    BY <2>1, <2>4 DEF Licences, Flags
  <2> HIDE DEF Rows
  <2>6. Effect(c, l) \in Licences \cup {NoLicence}
    BY <1>0, <1>2, <2>2, <2>3, <2>5 DEF Effect
  <2> QED BY <2>6 DEF Rows
<1> QED BY <1>1, <1>2

\* Making a call keeps the types of what it changes.
LEMMA CallTypes ==
  ASSUME LicencesTypeOK, NEW kind \in Kinds, NEW arg \in Licences, Call(kind, arg)
  PROVE  /\ licCalls' \in SUBSET Calls /\ licNr' \in 0..MaxCalls /\ overlapped' \in BOOLEAN
         /\ overlapped' = (licCalls # {})
         /\ \E new \in licCalls' : /\ licCalls' = licCalls \cup {new}
                                   /\ new.stage \in {"sent", "applied"}
<1> DEFINE new == [nr |-> licNr + 1, kind |-> kind, arg |-> arg, copy |-> NoLicence,
                   stage |-> IF kind = "wave" THEN "applied" ELSE "sent"]
<1>1. licNr + 1 \in 1..MaxCalls /\ licNr' = licNr + 1
  BY LicencesAssumption DEF Call, LicencesTypeOK
<1>2. new \in Calls
  BY <1>1 DEF Calls, LicenceStages
<1>3. licCalls' = licCalls \cup {new} /\ overlapped' = (licCalls # {})
  BY DEF Call
<1>4. new.stage \in {"sent", "applied"}
  OBVIOUS
<1> HIDE DEF new
<1> QED BY <1>1, <1>2, <1>3, <1>4 DEF LicencesTypeOK

\* A new call keeps the invariant: alone it has read nothing and was not given up,
\* and the page is not quiet.
LEMMA CallKeeps ==
  ASSUME LicQuietInv, NEW kind \in Kinds, NEW arg \in Licences, Call(kind, arg), LicencesTypeOK',
         UNCHANGED stored
  PROVE  LicQuietInv'
<1>1. PICK new \in licCalls' : /\ licCalls' = licCalls \cup {new}
                               /\ new.stage \in {"sent", "applied"}
                               /\ overlapped' = (licCalls # {})
  BY CallTypes DEF LicQuietInv
<1>2. ~overlapped' => licCalls' = {new}
  BY <1>1
<1>3. licCalls' # {}
  BY <1>1
<1> QED BY <1>1, <1>2, <1>3 DEF LicQuietInv, OneLicCall, ReadIsStored, GivenUpIsTold, QuietRowIsStored

-----------------------------------------------------------------------------
(* The user's steps.                                                        *)

LEMMA FreshType == Fresh \in Licences /\ Fresh \in Rows
BY LicencesAssumption DEF Fresh, Licences, Dates, Flags

LEMMA RowTypes ==
  ASSUME LicencesTypeOK, row # NoLicence, NEW d \in Dates, NEW flag \in Flags
  PROVE  /\ row \in Licences
         /\ [row EXCEPT !.expires = d] \in Licences
         /\ [row EXCEPT !.flag = flag] \in Licences
<1>1. row \in Licences
  BY DEF LicencesTypeOK
<1> QED BY <1>1 DEF Licences

LEMMA UserKeeps ==
  ASSUME LicQuietInv,
         \/ \E f \in {"renew", "edit", "add"} : OpenForm(f)
         \/ Cancel
         \/ \E d \in Dates : ConfirmRenewal(d) \/ SaveChanges(d) \/ AddLicence(d)
         \/ \E flag \in Flags : ChangeStatus(flag)
         \/ RemoveLicence
         \/ ReloadAll
  PROVE  LicQuietInv'
<1> USE DEF Kinds
<1>0. LicencesTypeOK
  BY DEF LicQuietInv
<1>1. ASSUME NEW f \in {"renew", "edit", "add"}, OpenForm(f) PROVE LicQuietInv'
  <2>1. LicencesTypeOK'
    BY <1>0, <1>1 DEF LicencesTypeOK, OpenForm
  <2> QED BY <1>1, <2>1 DEF LicQuietInv, OneLicCall, ReadIsStored, GivenUpIsTold, QuietRowIsStored, OpenForm
<1>2. CASE Cancel
  <2>1. LicencesTypeOK'
    BY <1>0, <1>2 DEF LicencesTypeOK, Cancel
  <2> QED BY <1>2, <2>1 DEF LicQuietInv, OneLicCall, ReadIsStored, GivenUpIsTold, QuietRowIsStored, Cancel
<1>3. ASSUME NEW d \in Dates, ConfirmRenewal(d) PROVE LicQuietInv'
  <2>1. [row EXCEPT !.expires = d] \in Licences /\ Call("renew", [row EXCEPT !.expires = d])
    BY <1>0, <1>3, RowTypes DEF ConfirmRenewal, Flags
  <2>2. LicencesTypeOK'
    BY <1>0, <1>3, <2>1, CallTypes DEF LicencesTypeOK, ConfirmRenewal
  <2> QED BY <1>3, <2>1, <2>2, CallKeeps DEF ConfirmRenewal
<1>4. ASSUME NEW d \in Dates, SaveChanges(d) PROVE LicQuietInv'
  <2>1. [draft EXCEPT !.expires = d] \in Licences /\ Call("patch", [draft EXCEPT !.expires = d])
    BY <1>0, <1>4 DEF LicencesTypeOK, Licences, SaveChanges
  <2>2. LicencesTypeOK'
    BY <1>0, <1>4, <2>1, CallTypes DEF LicencesTypeOK, SaveChanges
  <2> QED BY <1>4, <2>1, <2>2, CallKeeps DEF SaveChanges
<1>5. ASSUME NEW d \in Dates, AddLicence(d) PROVE LicQuietInv'
  <2>1. [Fresh EXCEPT !.expires = d] \in Licences /\ Call("add", [Fresh EXCEPT !.expires = d])
    BY <1>5, FreshType DEF Licences, AddLicence
  <2>2. LicencesTypeOK'
    BY <1>0, <1>5, <2>1, CallTypes DEF LicencesTypeOK, AddLicence
  <2> QED BY <1>5, <2>1, <2>2, CallKeeps DEF AddLicence
<1>6. ASSUME NEW flag \in Flags, ChangeStatus(flag) PROVE LicQuietInv'
  <2>1. [row EXCEPT !.flag = flag] \in Licences /\ Call("status", [row EXCEPT !.flag = flag])
    <3>1. 0 \in Dates
      BY LicencesAssumption DEF Dates
    <3> QED BY <1>0, <1>6, <3>1, RowTypes DEF ChangeStatus
  <2>2. LicencesTypeOK'
    BY <1>0, <1>6, <2>1, CallTypes DEF LicencesTypeOK, ChangeStatus
  <2> QED BY <1>6, <2>1, <2>2, CallKeeps DEF ChangeStatus
<1>7. CASE RemoveLicence
  <2>1. row \in Licences /\ Call("delete", row)
    BY <1>0, <1>7 DEF LicencesTypeOK, RemoveLicence
  <2>2. LicencesTypeOK'
    BY <1>0, <1>7, <2>1, CallTypes DEF LicencesTypeOK, RemoveLicence
  <2> QED BY <1>7, <2>1, <2>2, CallKeeps DEF RemoveLicence
<1>8. CASE ReloadAll
  <2>1. Call("wave", Fresh)
    BY <1>8 DEF ReloadAll
  <2>2. LicencesTypeOK'
    BY <1>0, <1>8, <2>1, FreshType, CallTypes DEF LicencesTypeOK, ReloadAll
  <2> QED BY <1>8, <2>1, <2>2, FreshType, CallKeeps DEF ReloadAll
<1> QED BY <1>1, <1>2, <1>3, <1>4, <1>5, <1>6, <1>7, <1>8

-----------------------------------------------------------------------------
(* What becomes of a call.                                                  *)

\* What a step of a call may leave of it.
LEMMA LicCallStepTypes ==
  ASSUME LicencesTypeOK, NEW c \in licCalls, CallStep(c)
  PROVE  LicencesTypeOK'
<1>1. c \in Calls /\ Effect(c, stored) \in Rows /\ Effect(c, row) \in Rows
  BY EffectType DEF LicencesTypeOK
<1>2. /\ \A s \in LicenceStages : [c EXCEPT !.stage = s] \in Calls
      /\ [c EXCEPT !.stage = "read", !.copy = stored] \in Calls
  BY <1>1 DEF LicencesTypeOK, Calls, LicenceStages
<1>3. CASE ApiActs(c)
  <2>1. licCalls' \in SUBSET Calls
    BY <1>2, <1>3 DEF ApiActs, Stage, Ended, ReadCopy, LicencesTypeOK, LicenceStages
  <2> QED BY <1>1, <1>3, <2>1 DEF ApiActs, LicencesTypeOK
<1>4. CASE Refused(c)
  BY <1>4 DEF Refused, Ended, LicencesTypeOK
<1>5. CASE Unanswered(c)
  <2>1. licCalls' \in SUBSET Calls
    BY <1>2, <1>5 DEF Unanswered, Stage, Ended, LicencesTypeOK, LicenceStages
  <2>2. row' \in Rows /\ licRibbon' \in BOOLEAN /\ form' \in {"none", "renew", "edit", "add"}
    BY <1>1, <1>5 DEF Unanswered, DoneForm, LicencesTypeOK
  <2> QED BY <1>5, <2>1, <2>2 DEF Unanswered, LicencesTypeOK
<1>6. CASE ReloadLands(c)
  <2>1. c.copy \in Rows
    BY <1>1 DEF Calls
  <2> QED BY <1>6, <2>1 DEF ReloadLands, Ended, DoneForm, LicencesTypeOK
<1>7. CASE ReloadFails(c)
  BY <1>7 DEF ReloadFails, Ended, DoneForm, LicencesTypeOK
<1> QED BY <1>3, <1>4, <1>5, <1>6, <1>7 DEF CallStep

LEMMA LicCallStepKeeps ==
  ASSUME LicQuietInv, NEW c \in licCalls, CallStep(c)
  PROVE  LicQuietInv'
<1> DEFINE moved(s) == [c EXCEPT !.stage = s]
           copied == [c EXCEPT !.stage = "read", !.copy = stored]
<1>0. LicencesTypeOK' /\ c \in Calls /\ UNCHANGED overlapped
  BY LicCallStepTypes DEF LicQuietInv, LicencesTypeOK, CallStep, ApiActs, Refused, Unanswered,
                       ReloadLands, ReloadFails
<1>1. CASE overlapped
  BY <1>0, <1>1 DEF LicQuietInv, OneLicCall, ReadIsStored, GivenUpIsTold, QuietRowIsStored
<1>2. CASE ~overlapped
  <2>1. licCalls = {c}
    BY <1>2 DEF LicQuietInv, OneLicCall
  <2>2. /\ \A s \in LicenceStages : moved(s).stage = s
        /\ copied.stage = "read" /\ copied.copy = stored
    BY <1>0 DEF Calls
  <2>3. c.stage = "read" => c.copy = stored
    BY <1>2 DEF LicQuietInv, ReadIsStored
  <2>4. c.stage = "given_up" => licErrors
    BY <1>2 DEF LicQuietInv, GivenUpIsTold
  <2> HIDE DEF moved, copied
  <2>5. CASE ApiActs(c)
    <3>1. CASE c.stage = "given_up" /\ Ended(c)
      BY <1>0, <2>1, <2>4, <2>5, <3>1
         DEF LicQuietInv, OneLicCall, ReadIsStored, GivenUpIsTold, QuietRowIsStored, ApiActs, Ended
    <3>2. CASE licCalls' = {moved("applied")} \/ licCalls' = {moved("refused")}
      BY <1>0, <2>2, <3>2
         DEF LicQuietInv, OneLicCall, ReadIsStored, GivenUpIsTold, QuietRowIsStored, LicenceStages
    <3>3. CASE licCalls' = {copied} /\ UNCHANGED stored
      BY <1>0, <2>2, <3>3 DEF LicQuietInv, OneLicCall, ReadIsStored, GivenUpIsTold, QuietRowIsStored
    <3> QED BY <2>1, <2>5, <3>1, <3>2, <3>3 DEF ApiActs, Stage, ReadCopy, moved, copied
  <2>6. CASE Refused(c)
    BY <1>0, <2>1, <2>6
       DEF LicQuietInv, OneLicCall, ReadIsStored, GivenUpIsTold, QuietRowIsStored, Refused, Ended
  <2>7. CASE Unanswered(c)
    <3>1. licCalls' = {moved("given_up")} \/ licCalls' = {}
      BY <2>1, <2>7 DEF Unanswered, Stage, Ended, moved
    <3> QED BY <1>0, <2>2, <2>7, <3>1
               DEF LicQuietInv, OneLicCall, ReadIsStored, GivenUpIsTold, QuietRowIsStored, Unanswered,
                   LicenceStages
  <2>8. CASE ReloadLands(c)
    BY <1>0, <2>1, <2>3, <2>8
       DEF LicQuietInv, OneLicCall, ReadIsStored, GivenUpIsTold, QuietRowIsStored, ReloadLands, Ended
  <2>9. CASE ReloadFails(c)
    BY <1>0, <2>1, <2>9
       DEF LicQuietInv, OneLicCall, ReadIsStored, GivenUpIsTold, QuietRowIsStored, ReloadFails, Ended
  <2> QED BY <2>5, <2>6, <2>7, <2>8, <2>9 DEF CallStep
<1> QED BY <1>1, <1>2

-----------------------------------------------------------------------------

LEMMA LicQuietStep ==
  ASSUME LicQuietInv, [LicencesNext]_licVars
  PROVE  LicQuietInv'
<1>1. CASE UNCHANGED licVars
  BY <1>1 DEF licVars, LicQuietInv, LicencesTypeOK, OneLicCall, ReadIsStored, GivenUpIsTold,
              QuietRowIsStored
<1> QED BY <1>1, UserKeeps, LicCallStepKeeps DEF LicencesNext

LEMMA LicQuietInit ==
  ASSUME LicencesInit
  PROVE  LicQuietInv
<1> DEFINE wave == [nr |-> 1, kind |-> "wave", arg |-> Fresh, stage |-> "applied", copy |-> NoLicence]
<1>1. licCalls = {wave} /\ wave.stage = "applied" /\ licNr = 1
  BY DEF LicencesInit
<1>2. wave \in Calls
  BY FreshType, LicencesAssumption DEF Calls, Kinds, LicenceStages
<1> HIDE DEF wave
<1>3. LicencesTypeOK
  <2>1. licCalls \in SUBSET Calls /\ licNr \in 0..MaxCalls
    BY <1>1, <1>2, LicencesAssumption
  <2> QED BY <2>1, FreshType DEF LicencesInit, LicencesTypeOK
<1> QED BY <1>1, <1>3 DEF LicencesInit, LicQuietInv, OneLicCall, ReadIsStored, GivenUpIsTold,
                          QuietRowIsStored

\* A quiet Licensing page shows the API's licence: whatever was clicked, refused,
\* given up and reloaded before, when nothing is out, no error is recorded and the
\* last call had none beside it, the row is what the API stores.
THEOREM QuietRowsAreStored == LicencesSpec => []QuietRowIsStored
<1>1. LicQuietInv => QuietRowIsStored
  BY DEF LicQuietInv
<1> QED BY <1>1, LicQuietInit, LicQuietStep, PTL DEF LicencesSpec

=============================================================================
