------------------------- MODULE AttestationProofs -------------------------
(***************************************************************************)
(* Proofs about Attestation, for any number of campaigns, packets and      *)
(* overlapping requests: IInv is inductive, the three safety properties    *)
(* follow from it, and every step is a step of AttestationRecord.          *)
(***************************************************************************)
EXTENDS Attestation, TLAPS

\* A form that decides on exactly the set S is a full map of decisions on S.
LEMMA FullForm ==
  ASSUME NEW f \in Forms, NEW S \in SUBSET People, DOMAIN f = S
  PROVE  f \in [S -> Verdicts]
BY DEF Forms

\* Decisions on the subjects of a packet are a form, and are not NULL.
LEMMA DecisionsAreForms ==
  ASSUME NEW p \in Packets, NEW f \in [SubjectsOf[p] -> Verdicts]
  PROVE  f \in Forms /\ f # None
<1>1. SubjectsOf[p] \in SUBSET People
  BY ParamsAssumption
<1>2. f \in Forms
  BY <1>1 DEF Forms
<1> QED
  BY <1>2, ParamsAssumption

\* The tables as LaunchAsync leaves them satisfy the invariant.
LEMMA InitIInv == Init => IInv
<1> SUFFICES ASSUME Init PROVE IInv
  OBVIOUS
<1> USE ParamsAssumption DEF Init
<1>1. TypeOK
  BY DEF TypeOK, Steps
<1>2. SessionsSound
  BY DEF SessionsSound
<1>3. LocksExclusive
  BY DEF LocksExclusive, HoldsPacket, HoldsCampaign
<1>4. ClosuresSound
  BY DEF ClosuresSound
<1>5. HandClosed /\ RecordComplete /\ AnyAnswerCloses /\ ClosureJustified
  BY DEF HandClosed, RecordComplete, AnyAnswerCloses, ClosureJustified, Submitted, PacketsOf
<1> QED
  BY <1>1, <1>2, <1>3, <1>4, <1>5 DEF IInv

\* Steps that leave the tables alone keep what is said of the tables alone.
LEMMA TablesUnchanged ==
  ASSUME IInv, UNCHANGED <<tables, byHand>>
  PROVE  (HandClosed /\ RecordComplete /\ AnyAnswerCloses /\ ClosureJustified)'
BY DEF IInv, tables, HandClosed, RecordComplete, AnyAnswerCloses, ClosureJustified, Submitted, PacketsOf

LEMMA LoadStep ==
  ASSUME IInv, NEW r \in Requests, NEW p \in Packets, NEW who \in People,
         NEW f \in Forms, SubmitLoad(r, p, who, f)
  PROVE  IInv'
<1> USE DEF IInv, SubmitLoad, tables
<1>1. f \in [SubjectsOf[p] -> Verdicts]
  BY FullForm, ParamsAssumption DEF MaySubmit
<1>2. TypeOK'
  BY DEF TypeOK, Steps
<1>3. SessionsSound'
  BY <1>1, ParamsAssumption DEF SessionsSound, MaySubmit, TypeOK, Submitted
<1>4. LocksExclusive'
  BY DEF LocksExclusive, HoldsPacket, HoldsCampaign, TypeOK
<1>5. ClosuresSound'
  BY DEF ClosuresSound, ClosureApplies, TypeOK, Submitted, PacketsOf
<1> QED
  BY <1>2, <1>3, <1>4, <1>5, TablesUnchanged

LEMMA ClaimStep ==
  ASSUME IInv, NEW r \in Requests, SubmitClaim(r)
  PROVE  IInv'
<1> USE DEF IInv, SubmitClaim, tables
<1>1. TypeOK'
  BY DEF TypeOK, Steps
<1>2. SessionsSound'
  BY DEF SessionsSound, TypeOK, Submitted
<1>3. LocksExclusive'
  BY DEF LocksExclusive, HoldsPacket, HoldsCampaign, PacketFree, TypeOK, SessionsSound
<1>4. ClosuresSound'
  BY DEF ClosuresSound, ClosureApplies, TypeOK, Submitted, PacketsOf
<1> QED
  BY <1>1, <1>2, <1>3, <1>4, TablesUnchanged

\* A transaction that ends without a commit leaves the invariant as it was.
LEMMA EndSessionStep ==
  ASSUME IInv, NEW r \in Requests, EndSession(r), UNCHANGED <<tables, byHand>>,
         faults' \in 0..MaxFaults
  PROVE  IInv'
<1> USE DEF IInv, EndSession, tables
<1>1. TypeOK'
  BY DEF TypeOK, Steps
<1>2. SessionsSound'
  BY DEF SessionsSound, TypeOK, Submitted
<1>3. LocksExclusive'
  BY DEF LocksExclusive, HoldsPacket, HoldsCampaign, TypeOK
<1>4. ClosuresSound'
  BY DEF ClosuresSound, ClosureApplies, TypeOK, Submitted, PacketsOf
<1> QED
  BY <1>1, <1>2, <1>3, <1>4, TablesUnchanged

LEMMA ClosureStep ==
  ASSUME IInv, NEW r \in Requests, SubmitClosure(r)
  PROVE  IInv'
<1> USE DEF IInv, SubmitClosure, tables
<1>1. ClosureApplies(target[r]) \in BOOLEAN
  BY DEF ClosureApplies
<1>2. TypeOK'
  BY <1>1 DEF TypeOK, Steps
<1>3. SessionsSound'
  BY DEF SessionsSound, TypeOK, Submitted
<1>4. LocksExclusive'
  BY <1>1 DEF LocksExclusive, HoldsPacket, HoldsCampaign, CampaignFree, TypeOK
<1>5. ClosuresSound'
  <2>1. target[r] \in Packets
    BY DEF SessionsSound
  <2>2. CampaignOf[target[r]] \in Campaigns
    BY <2>1, ParamsAssumption
  <2>3. ClosureApplies(target[r])' <=> ClosureApplies(target[r])
    BY DEF ClosureApplies, Submitted, PacketsOf
  <2>4. ~ClosureApplies(target[r]) /\ ClosureMode[CampaignOf[target[r]]] = "any_packet"
          => status[CampaignOf[target[r]]] = "closed"
    BY <2>2 DEF ClosureApplies, TypeOK
  <2>5. ASSUME NEW q \in Requests, q # r
        PROVE  pc'[q] = pc[q] /\ closes'[q] = closes[q] /\ target'[q] = target[q]
    BY <2>5 DEF TypeOK
  <2> QED
    BY <1>1, <2>3, <2>4, <2>5 DEF ClosuresSound, ClosureApplies, Submitted, PacketsOf, TypeOK
<1> QED
  BY <1>2, <1>3, <1>4, <1>5, TablesUnchanged

\* What the committing transaction knows: it holds its packet, the packet is
\* outstanding, and if it closes the campaign nobody else is closing it.
LEMMA CommitKnows ==
  ASSUME IInv, NEW r \in Requests, pc[r] = "closing"
  PROVE  /\ target[r] \in Packets
         /\ CampaignOf[target[r]] \in Campaigns
         /\ caller[r] = RecipientOf[target[r]]
         /\ caller[r] \in People /\ caller[r] # None
         /\ form[r] \in [SubjectsOf[target[r]] -> Verdicts]
         /\ form[r] \in Forms
         /\ submitter[target[r]] = None
         /\ closes[r] => ClosureApplies(target[r])
         /\ \A q \in Requests \ {r} : pc[q] \in {"claimed", "closing"} => target[q] # target[r]
         /\ \A q \in Requests \ {r} :
              closes[r] /\ closes[q] => CampaignOf[target[q]] # CampaignOf[target[r]]
<1> USE DEF IInv
<1>1. /\ target[r] \in Packets
      /\ caller[r] = RecipientOf[target[r]]
      /\ form[r] \in [SubjectsOf[target[r]] -> Verdicts]
      /\ submitter[target[r]] = None
  BY DEF SessionsSound, Submitted
<1>2. /\ CampaignOf[target[r]] \in Campaigns
      /\ RecipientOf[target[r]] \in People
      /\ RecipientOf[target[r]] # None
  BY <1>1, ParamsAssumption
<1>3. form[r] \in Forms
  BY <1>1, DecisionsAreForms
<1>4. closes[r] => ClosureApplies(target[r])
  BY DEF ClosuresSound
<1>5. ASSUME NEW q \in Requests \ {r}, pc[q] \in {"claimed", "closing"}
      PROVE  target[q] # target[r]
  BY <1>1, <1>5 DEF LocksExclusive, HoldsPacket
<1>6. ASSUME NEW q \in Requests \ {r}, closes[r], closes[q]
      PROVE  CampaignOf[target[q]] # CampaignOf[target[r]]
  BY <1>2, <1>6 DEF LocksExclusive, HoldsCampaign, ClosuresSound
<1> QED
  BY <1>1, <1>2, <1>3, <1>4, <1>5, <1>6

LEMMA CommitStep ==
  ASSUME IInv, NEW r \in Requests, SubmitCommit(r)
  PROVE  IInv'
<1>0. pc[r] = "closing"
  BY DEF SubmitCommit
<1>p. PICK p \in Packets : p = target[r]
  BY <1>0, CommitKnows
<1>c. PICK c \in Campaigns : c = CampaignOf[p]
  BY <1>p, ParamsAssumption
<1>1. /\ caller[r] = RecipientOf[p] /\ caller[r] \in People /\ caller[r] # None
      /\ form[r] \in [SubjectsOf[p] -> Verdicts] /\ form[r] \in Forms
      /\ submitter[p] = None
      /\ closes[r] => ClosureApplies(p)
      /\ \A q \in Requests \ {r} : pc[q] \in {"claimed", "closing"} => target[q] # p
      /\ \A q \in Requests \ {r} : closes[r] /\ closes[q] => CampaignOf[target[q]] # c
  BY <1>0, <1>p, <1>c, CommitKnows
<1>2. /\ submitter' = [submitter EXCEPT ![p] = caller[r]]
      /\ decisions' = [decisions EXCEPT ![p] = form[r]]
      /\ status'    = [status EXCEPT ![c] = IF closes[r] THEN "closed" ELSE status[c]]
      /\ closedBy'  = [closedBy EXCEPT ![c] =
                         IF closes[r] /\ ClosureMode[c] = "any_packet" THEN p ELSE closedBy[c]]
      /\ pc'     = [pc EXCEPT ![r] = "idle"]
      /\ target' = [target EXCEPT ![r] = None]
      /\ caller' = [caller EXCEPT ![r] = None]
      /\ form'   = [form EXCEPT ![r] = None]
      /\ closes' = [closes EXCEPT ![r] = FALSE]
      /\ byHand' = byHand /\ faults' = faults
  BY <1>p, <1>c DEF SubmitCommit, EndSession
<1> USE DEF IInv
<1>3. TypeOK'
  BY <1>1, <1>2 DEF TypeOK, Steps
<1>4. /\ \A q \in Packets \ {p} : submitter'[q] = submitter[q] /\ decisions'[q] = decisions[q]
      /\ submitter'[p] = caller[r] /\ decisions'[p] = form[r]
      /\ \A d \in Campaigns \ {c} : status'[d] = status[d] /\ closedBy'[d] = closedBy[d]
      /\ \A q \in Requests \ {r} : /\ pc'[q] = pc[q] /\ target'[q] = target[q]
                                   /\ caller'[q] = caller[q] /\ form'[q] = form[q]
                                   /\ closes'[q] = closes[q]
      /\ pc'[r] = "idle" /\ target'[r] = None /\ ~closes'[r]
      /\ status[c] = "closed" => status'[c] = "closed"
  BY <1>1, <1>2 DEF TypeOK
<1>5. SessionsSound'
  BY <1>1, <1>4 DEF SessionsSound, Submitted
<1>6. LocksExclusive'
  BY <1>1, <1>4 DEF LocksExclusive, HoldsPacket, HoldsCampaign
<1>7. ClosuresSound'
  <2> SUFFICES ASSUME NEW q \in Requests
               PROVE  /\ closes'[q] => pc'[q] = "closing" /\ ClosureApplies(target[q])'
                      /\ pc'[q] = "closing" /\ ~closes'[q]
                           /\ ClosureMode[CampaignOf[target'[q]]] = "any_packet"
                           => status'[CampaignOf[target'[q]]] = "closed"
    BY DEF ClosuresSound
  <2>1. CASE q = r
    BY <1>4, <2>1
  <2>2. CASE q # r
    <3>1. pc[q] # "idle" => target[q] \in Packets /\ CampaignOf[target[q]] \in Campaigns
      BY ParamsAssumption DEF SessionsSound
    <3>2. ASSUME closes[q]
          PROVE  ClosureApplies(target[q])'
      <4>1. pc[q] = "closing" /\ ClosureApplies(target[q])
        BY <3>2 DEF ClosuresSound
      <4>2. status'[CampaignOf[target[q]]] = "active"
        <5>1. CASE CampaignOf[target[q]] = c
          BY <1>1, <1>2, <3>2, <4>1, <5>1, <2>2 DEF ClosureApplies, TypeOK
        <5>2. CASE CampaignOf[target[q]] # c
          BY <1>4, <3>1, <4>1, <5>2 DEF ClosureApplies
        <5> QED BY <5>1, <5>2
      <4>3. \A x \in Packets : Submitted(x) => Submitted(x)'
        BY <1>1, <1>4 DEF Submitted
      <4>4. target'[q] = target[q]
        BY <1>4, <2>2
      <4> QED
        BY <4>1, <4>2, <4>3, <4>4 DEF ClosureApplies, PacketsOf
    <3> QED
      BY <1>1, <1>4, <2>2, <3>1, <3>2 DEF ClosuresSound
  <2> QED
    BY <2>1, <2>2
<1>8. RecordComplete'
  BY <1>1, <1>4 DEF RecordComplete, Submitted
<1>9. AnyAnswerCloses'
  <2>1. ClosureMode[c] = "any_packet" => status'[c] = "closed"
    BY <1>0, <1>p, <1>c, <1>1, <1>2 DEF ClosuresSound, TypeOK
  <2> QED
    BY <1>c, <1>1, <1>4, <2>1, ParamsAssumption DEF AnyAnswerCloses, Submitted
<1>10. ClosureJustified'
  <2>1. closes[r] => /\ status[c] = "active"
                     /\ \/ ClosureMode[c] = "any_packet"
                        \/ \A q \in PacketsOf(c) : q = p \/ Submitted(q)
    BY <1>c, <1>1 DEF ClosureApplies
  <2>2. ClosureMode[c] \in ClosureModes
    BY <1>1, ParamsAssumption
  <2>3. \A x \in Packets : Submitted(x) => Submitted(x)'
    BY <1>1, <1>4 DEF Submitted
  <2>4. p \in PacketsOf(c) /\ Submitted(p)'
    BY <1>c, <1>1, <1>4 DEF PacketsOf, Submitted
  <2>5. closes[r] => c \notin byHand
    BY <1>1, <2>1 DEF HandClosed
  <2>6. p # None
    BY ParamsAssumption
  <2>7. SUFFICES ASSUME NEW d \in Campaigns
        PROVE  /\ status'[d] = "closed" =>
                    \/ d \in byHand
                    \/ ClosureMode[d] = "any_packet" /\ closedBy'[d] # None
                    \/ ClosureMode[d] = "all_packets" /\ \A q \in PacketsOf(d) : Submitted(q)'
               /\ closedBy'[d] # None =>
                    /\ ClosureMode[d] = "any_packet" /\ d \notin byHand
                    /\ closedBy'[d] \in PacketsOf(d) /\ Submitted(closedBy[d])'
    BY <1>2 DEF ClosureJustified, PacketsOf
  <2>8. CASE d # c
    BY <1>4, <2>3, <2>8 DEF ClosureJustified, PacketsOf, Submitted
  <2>9. CASE d = c /\ closes[r]
    <3>1. status'[c] = "closed"
          /\ closedBy'[c] = (IF ClosureMode[c] = "any_packet" THEN p ELSE closedBy[c])
      BY <1>2, <2>9 DEF TypeOK
    <3>2. CASE ClosureMode[c] = "any_packet"
      BY <2>4, <2>5, <2>6, <2>9, <3>1, <3>2 DEF Submitted
    <3>3. CASE ClosureMode[c] # "any_packet"
      <4>1. \A q \in PacketsOf(c) : Submitted(q)'
        BY <2>1, <2>3, <2>4, <2>9, <3>3 DEF PacketsOf
      <4> QED
        BY <2>2, <2>3, <2>9, <3>1, <3>3, <4>1 DEF ClosureJustified, ClosureModes, PacketsOf, Submitted
    <3> QED
      BY <3>2, <3>3
  <2>10. CASE d = c /\ ~closes[r]
    <3>1. status'[c] = status[c] /\ closedBy'[c] = closedBy[c]
      BY <1>2, <2>10 DEF TypeOK
    <3> QED
      BY <2>3, <2>10, <3>1 DEF ClosureJustified, PacketsOf, Submitted
  <2> QED
    BY <2>8, <2>9, <2>10
<1>11. HandClosed'
  BY <1>1, <1>2, <1>4 DEF HandClosed, TypeOK
<1> QED
  BY <1>3, <1>5, <1>6, <1>7, <1>8, <1>9, <1>10, <1>11

LEMMA CloseStep ==
  ASSUME IInv, NEW c \in Campaigns, Close(c)
  PROVE  IInv'
<1> USE DEF IInv, Close, session
<1>1. TypeOK'
  BY DEF TypeOK
<1>2. SessionsSound' /\ LocksExclusive' /\ RecordComplete'
  BY DEF SessionsSound, LocksExclusive, HoldsPacket, HoldsCampaign, RecordComplete, Submitted
<1>3. ClosuresSound'
  <2> SUFFICES ASSUME NEW q \in Requests
               PROVE  /\ closes[q] => pc[q] = "closing" /\ ClosureApplies(target[q])'
                      /\ pc[q] = "closing" /\ ~closes[q]
                           /\ ClosureMode[CampaignOf[target[q]]] = "any_packet"
                           => status'[CampaignOf[target[q]]] = "closed"
    BY DEF ClosuresSound
  <2>1. pc[q] = "closing" => CampaignOf[target[q]] \in Campaigns
    BY ParamsAssumption DEF SessionsSound
  <2>2. closes[q] => CampaignOf[target[q]] # c
    BY DEF ClosuresSound, HoldsCampaign
  <2> QED
    BY <2>1, <2>2 DEF ClosuresSound, ClosureApplies, TypeOK, Submitted, PacketsOf
<1>4. AnyAnswerCloses' /\ HandClosed'
  BY ParamsAssumption DEF AnyAnswerCloses, HandClosed, TypeOK, Submitted
<1>5. ClosureJustified'
  <2>1. closedBy[c] = None
    <3>1. ASSUME closedBy[c] # None PROVE FALSE
      <4>1. /\ closedBy[c] \in Packets /\ CampaignOf[closedBy[c]] = c
            /\ Submitted(closedBy[c]) /\ ClosureMode[c] = "any_packet"
        BY <3>1 DEF ClosureJustified, PacketsOf
      <4> QED
        BY <4>1 DEF AnyAnswerCloses
    <3> QED BY <3>1
  <2> QED
    BY <2>1 DEF ClosureJustified, TypeOK, Submitted, PacketsOf
<1> QED
  BY <1>1, <1>2, <1>3, <1>4, <1>5

LEMMA NextStep == IInv /\ [Next]_vars => IInv'
<1> SUFFICES ASSUME IInv, [Next]_vars PROVE IInv'
  OBVIOUS
<1>1. ASSUME NEW r \in Requests, Submit(r)
      PROVE  IInv'
  <2>1. CASE \E p \in Packets, who \in People, f \in Forms : SubmitLoad(r, p, who, f)
    BY <2>1, LoadStep
  <2>2. CASE SubmitClaim(r)
    BY <2>2, ClaimStep
  <2>3. CASE SubmitLosesClaim(r)
    BY <2>3, EndSessionStep DEF SubmitLosesClaim, IInv, TypeOK
  <2>4. CASE SubmitClosure(r)
    BY <2>4, ClosureStep
  <2>5. CASE SubmitCommit(r)
    BY <2>5, CommitStep
  <2>6. CASE SubmitFails(r)
    <3>1. faults' \in 0..MaxFaults
      BY <2>6, ParamsAssumption DEF SubmitFails, IInv, TypeOK
    <3> QED
      BY <2>6, <3>1, EndSessionStep DEF SubmitFails
  <2> QED
    BY <1>1, <2>1, <2>2, <2>3, <2>4, <2>5, <2>6 DEF Submit
<1>2. ASSUME NEW c \in Campaigns, Close(c)
      PROVE  IInv'
  BY <1>2, CloseStep
<1>3. CASE UNCHANGED vars
  BY <1>3 DEF vars, tables, session, IInv, TypeOK, HandClosed, SessionsSound,
     LocksExclusive, HoldsPacket, HoldsCampaign, ClosuresSound, ClosureApplies,
     RecordComplete, AnyAnswerCloses, ClosureJustified, Submitted, PacketsOf
<1> QED
  BY <1>1, <1>2, <1>3 DEF Next

\* The inductive invariant holds in every state of every execution.
THEOREM Invariance == Spec => []IInv
BY InitIInv, NextStep, PTL DEF Spec

\* Every variable keeps its type: statuses, submitters, decisions and the
\* state of every open transaction.
THEOREM TypeCorrect == Spec => []TypeOK
<1>1. IInv => TypeOK
  BY DEF IInv
<1> QED
  BY Invariance, <1>1, PTL

\* Stored decisions are all or nothing, one per subject, by the recipient.
THEOREM AnswersAreComplete == Spec => []RecordComplete
<1>1. IInv => RecordComplete
  BY DEF IInv
<1> QED
  BY Invariance, <1>1, PTL

\* A stored nominee's answer means a closed campaign.
THEOREM FirstAnswerCloses == Spec => []AnyAnswerCloses
<1>1. IInv => AnyAnswerCloses
  BY DEF IInv
<1> QED
  BY Invariance, <1>1, PTL

\* Closed campaigns have a recorded reason.
THEOREM ClosureIsJustified == Spec => []ClosureJustified
<1>1. IInv => ClosureJustified
  BY DEF IInv
<1> QED
  BY Invariance, <1>1, PTL

----------------------------------------------------------------------------
(* The implementation of AttestationRecord.                                *)

\* A commit is an answer to an outstanding packet, closing or not.
LEMMA CommitRefines ==
  ASSUME IInv, NEW r \in Requests, SubmitCommit(r)
  PROVE  Record!Next
<1>0. pc[r] = "closing"
  BY DEF SubmitCommit
<1>p. PICK p \in Packets : p = target[r]
  BY <1>0, CommitKnows
<1>c. PICK c \in Campaigns : c = CampaignOf[p]
  BY <1>p, ParamsAssumption
<1>1. /\ caller[r] = RecipientOf[p] /\ submitter[p] = None
      /\ form[r] \in [SubjectsOf[p] -> Verdicts]
      /\ closes[r] => ClosureApplies(p)
  BY <1>0, <1>p, CommitKnows
<1>2. /\ submitter' = [submitter EXCEPT ![p] = caller[r]]
      /\ decisions' = [decisions EXCEPT ![p] = form[r]]
      /\ status'    = [status EXCEPT ![c] = IF closes[r] THEN "closed" ELSE status[c]]
      /\ closedBy'  = [closedBy EXCEPT ![c] =
                         IF closes[r] /\ ClosureMode[c] = "any_packet" THEN p ELSE closedBy[c]]
  BY <1>p, <1>c DEF SubmitCommit
<1>3. Record!Record(p, form[r])
  BY <1>1, <1>2 DEF Record!Record
<1>4. form[r] \in Record!Answers(p)
  BY <1>1 DEF Record!Answers, Verdicts
<1>5. CASE closes[r]
  <2>1. /\ status[c] = "active"
        /\ \/ ClosureMode[c] = "any_packet"
           \/ \A q \in PacketsOf(c) : q = p \/ Submitted(q)
    BY <1>c, <1>1, <1>5 DEF ClosureApplies
  <2>2. ClosureMode[c] = "all_packets" => Record!Completes(p)
    BY <1>c, <2>1 DEF Record!Completes, PacketsOf, Submitted
  <2>3. Record!AnswerAndClose(p, form[r])
    BY <1>c, <1>2, <1>3, <1>5, <2>1, <2>2 DEF Record!AnswerAndClose
  <2> QED
    BY <1>4, <2>3 DEF Record!Next
<1>6. CASE ~closes[r]
  <2>1. status' = status /\ closedBy' = closedBy
    BY <1>2, <1>6 DEF IInv, TypeOK
  <2>2. status[c] = "closed" \/ ClosureMode[c] = "all_packets"
    BY <1>0, <1>p, <1>c, <1>6, ParamsAssumption DEF IInv, ClosuresSound, ClosureModes
  <2>3. Record!Answer(p, form[r])
    BY <1>c, <1>3, <2>1, <2>2 DEF Record!Answer
  <2> QED
    BY <1>4, <2>3 DEF Record!Next
<1> QED
  BY <1>5, <1>6

LEMMA StepRefines == IInv /\ [Next]_vars => [Record!Next]_(Record!vars)
<1> SUFFICES ASSUME IInv, [Next]_vars PROVE Record!Next \/ UNCHANGED tables
  BY DEF Record!vars, tables
<1>1. ASSUME NEW r \in Requests, Submit(r)
      PROVE  Record!Next \/ UNCHANGED tables
  <2>1. CASE SubmitCommit(r)
    BY <2>1, CommitRefines
  <2>2. CASE ~SubmitCommit(r)
    BY <1>1, <2>2 DEF Submit, SubmitLoad, SubmitClaim, SubmitLosesClaim, SubmitClosure, SubmitFails
  <2> QED
    BY <2>1, <2>2
<1>2. ASSUME NEW c \in Campaigns, Close(c)
      PROVE  Record!Next
  BY <1>2 DEF Close, Record!Next, Record!CloseByHand, IInv, TypeOK
<1>3. CASE UNCHANGED vars
  BY <1>3 DEF vars
<1> QED
  BY <1>1, <1>2, <1>3 DEF Next

\* Every execution of the endpoint and the Close button is an execution of the
\* abstract record: one full answer per packet, no reopening, no change of an
\* answer or of closed_by_packet_id.
THEOREM Refinement == Spec => ImplementsRecord
<1>1. Init => Record!Init
  BY DEF Init, Record!Init
<1> QED
  BY <1>1, Invariance, StepRefines, PTL DEF Spec, ImplementsRecord, Record!Spec

=============================================================================
