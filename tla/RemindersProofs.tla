-------------------------- MODULE RemindersProofs --------------------------
(***************************************************************************)
(* Proofs about Reminders, for any number of campaigns, packets, requests   *)
(* and operators: ReminderIInv is inductive, and what it says of the         *)
(* counters of mails, nudges, log rows and late mails follows.               *)
(***************************************************************************)
EXTENDS Reminders, AttestationProofs, FiniteSetTheorems

----------------------------------------------------------------------------
(* Counting senders                                                        *)

LEMMA SendersFinite == IsFiniteSet(Senders) /\ Cardinality(Senders) \in Nat
BY SendersAssumption, FS_AddElement, FS_CardinalityType DEF Senders

\* Fewer senders count less, and strictly less when one of them is missing.
LEMMA FewerSenders ==
  ASSUME NEW S \in SUBSET Senders, NEW T \in SUBSET S
  PROVE  /\ Cardinality(S) \in Nat /\ Cardinality(T) \in Nat
         /\ Cardinality(T) <= Cardinality(S)
         /\ \A s \in S \ T : Cardinality(T) + 1 <= Cardinality(S)
<1>1. IsFiniteSet(S) /\ Cardinality(S) \in Nat
  BY SendersFinite, FS_Subset, FS_CardinalityType
<1>2. IsFiniteSet(T) /\ Cardinality(T) \in Nat /\ Cardinality(T) <= Cardinality(S)
  BY <1>1, FS_Subset, FS_CardinalityType
<1>3. ASSUME NEW s \in S \ T PROVE Cardinality(T) + 1 <= Cardinality(S)
  <2>1. Cardinality(T) # Cardinality(S)
    BY <1>1, <1>3, FS_Subset
  <2> QED
    BY <1>1, <1>2, <2>1
<1> QED
  BY <1>1, <1>2, <1>3

LEMMA OneMoreSender ==
  ASSUME NEW S \in SUBSET Senders, NEW s \in Senders \ S
  PROVE  Cardinality(S \cup {s}) = Cardinality(S) + 1
<1>1. IsFiniteSet(S)
  BY SendersFinite, FS_Subset
<1> QED
  BY <1>1, FS_AddElement

\* The senders that will still log a mail to the packet as accepted.
AboutToLog(p) == {s \in Senders : p \in delivered[s] \cap batch[s]}

----------------------------------------------------------------------------
\* At the start nothing is selected, sent or stamped, but for the campaigns
\* whose due period stamps every packet at the launch.
LEMMA InitReminderIInv == ReminderInit => ReminderIInv
<1> SUFFICES ASSUME ReminderInit PROVE ReminderIInv
  OBVIOUS
<1> USE ParamsAssumption, SendersAssumption DEF ReminderInit
<1>1. IInv
  BY InitIInv
<1>2. ReminderTypeOK
  BY DEF ReminderTypeOK, Stages
<1>3. BatchesSound /\ DeliveredMeansMailed /\ StampMeansMailed
  BY DEF BatchesSound, DeliveredMeansMailed, StampMeansMailed
<1>4. NudgesSound
  BY DEF NudgesSound, Senders, Init
<1>5. LateSound
  BY DEF LateSound, Submitted, Init
<1>6. EveryMailLogged
  <2> SUFFICES ASSUME NEW p \in Packets
               PROVE  0 <= 0 + Cardinality(AboutToLog(p)) + 0
    BY DEF EveryMailLogged, AboutToLog, Init
  <2>1. Cardinality(AboutToLog(p)) \in Nat
    BY FewerSenders DEF AboutToLog
  <2> QED
    BY <2>1
<1> QED
  BY <1>1, <1>2, <1>3, <1>4, <1>5, <1>6 DEF ReminderIInv

\* A sender's step leaves the submissions' invariant alone: it writes no table of
\* theirs, and at most counts a fault.
LEMMA SubmissionsUndisturbed ==
  ASSUME IInv, UNCHANGED <<tables, session, byHand>>, faults' \in 0..MaxFaults
  PROVE  IInv'
BY DEF tables, session, IInv, TypeOK, HandClosed, SessionsSound,
     LocksExclusive, HoldsPacket, HoldsCampaign, ClosuresSound, ClosureApplies,
     RecordComplete, AnyAnswerCloses, ClosureJustified, Submitted, PacketsOf

\* A SELECT of outstanding packets, by RemindAsync, RemindPacketAsync or the
\* tick: whatever is read is unanswered, and never reminded if the tick reads it.
LEMMA PrepareStep ==
  ASSUME ReminderIInv, NEW s \in Senders, stage[s] \in {"idle", "selected"},
         NEW pending \in SUBSET Packets,
         \A p \in pending : ~Submitted(p),
         s = Scheduler => pending \cap reminded = {},
         Prepare(s, pending),
         campaign' \in [Senders -> Campaigns \cup {None}],
         \A t \in Senders \ {s} : campaign'[t] = campaign[t],
         queue' \in SUBSET Campaigns,
         UNCHANGED <<vars, shortDue, reminded, logged, delivered, history>>
  PROVE  ReminderIInv'
<1> USE SendersAssumption DEF ReminderIInv, Prepare, history, Stages
<1>1. IInv'
  BY SubmissionsUndisturbed DEF vars, IInv, TypeOK
<1>2. ReminderTypeOK'
  BY DEF ReminderTypeOK
<1>3. BatchesSound'
  BY DEF BatchesSound, ReminderTypeOK
<1>4. DeliveredMeansMailed' /\ StampMeansMailed'
  BY DEF DeliveredMeansMailed, StampMeansMailed
<1>5. NudgesSound'
  <2> SUFFICES ASSUME NEW p \in Packets
               PROVE  /\ nudges[p] <= faults + (IF p \in reminded \cup delivered[Scheduler] THEN 1 ELSE 0)
                      /\ p \in batch'[Scheduler] /\ stage'[Scheduler] = "sending" => nudges[p] <= faults
                      /\ CampaignOf[p] \in shortDue =>
                           p \in reminded /\ p \notin batch'[Scheduler] /\ nudges[p] = 0
    BY DEF NudgesSound, vars
  <2>1. Scheduler \in Senders
    BY DEF Senders
  <2>2. CASE s = Scheduler
    <3>1. batch'[s] = pending /\ delivered[s] = {}
      BY DEF BatchesSound, ReminderTypeOK
    <3>2. p \in pending => p \notin reminded /\ p \notin delivered[Scheduler]
      BY <2>2, <3>1
    <3>3. nudges[p] \in Nat /\ faults \in Nat
      BY DEF ReminderTypeOK, IInv, TypeOK
    <3> QED
      BY <2>1, <2>2, <3>1, <3>2, <3>3 DEF NudgesSound
  <2>3. CASE s # Scheduler
    <3>1. batch'[Scheduler] = batch[Scheduler] /\ stage'[Scheduler] = stage[Scheduler]
      BY <2>1, <2>3 DEF ReminderTypeOK
    <3> QED
      BY <3>1 DEF NudgesSound
  <2> QED
    BY <2>2, <2>3
<1>6. LateSound'
  <2> SUFFICES ASSUME NEW p \in Packets
               PROVE  IF Submitted(p)
                      THEN late[p] + Cardinality(AboutToMail(p)') <= Cardinality(Senders)
                      ELSE late[p] = 0
    BY DEF LateSound, Submitted, vars, tables
  <2>1. CASE Submitted(p)
    <3>1. AboutToMail(p)' \subseteq AboutToMail(p)
      BY <2>1 DEF AboutToMail, ReminderTypeOK
    <3>2. AboutToMail(p) \subseteq Senders
      BY DEF AboutToMail
    <3>3. /\ Cardinality(AboutToMail(p)') <= Cardinality(AboutToMail(p))
          /\ Cardinality(AboutToMail(p)') \in Nat /\ Cardinality(AboutToMail(p)) \in Nat
      BY <3>1, <3>2, FewerSenders
    <3>4. late[p] \in Nat
      BY DEF ReminderTypeOK
    <3> QED
      BY <2>1, <3>3, <3>4, SendersFinite DEF LateSound
  <2>2. CASE ~Submitted(p)
    BY <2>2 DEF LateSound
  <2> QED
    BY <2>1, <2>2
<1>7. EveryMailLogged'
  <2>1. \A t \in Senders : delivered[t] \cap batch'[t] = delivered[t] \cap batch[t]
    BY DEF BatchesSound, ReminderTypeOK
  <2>2. \A p \in Packets : AboutToLog(p)' = AboutToLog(p)
    BY <2>1 DEF AboutToLog
  <2> QED
    BY <2>2 DEF EveryMailLogged, AboutToLog, vars
<1> QED
  BY <1>1, <1>2, <1>3, <1>4, <1>5, <1>6, <1>7

LEMMA RemindSelectStep ==
  ASSUME ReminderIInv, NEW s \in Senders, NEW c \in Campaigns, RemindSelect(s, c)
  PROVE  ReminderIInv'
<1> USE DEF ReminderIInv, RemindSelect, history
<1>1. IInv'
  BY SubmissionsUndisturbed DEF vars, IInv, TypeOK
<1>2. ReminderTypeOK'
  BY DEF ReminderTypeOK, Stages
<1>3. BatchesSound'
  BY DEF BatchesSound, ReminderTypeOK
<1>4. DeliveredMeansMailed' /\ StampMeansMailed' /\ EveryMailLogged'
  BY DEF DeliveredMeansMailed, StampMeansMailed, EveryMailLogged, vars
<1>5. NudgesSound'
  BY DEF NudgesSound, ReminderTypeOK, vars
<1>6. LateSound'
  <2>1. \A p \in Packets : AboutToMail(p)' = AboutToMail(p)
    BY DEF AboutToMail, ReminderTypeOK
  <2> QED
    BY <2>1 DEF LateSound, Submitted, vars, tables
<1> QED
  BY <1>1, <1>2, <1>3, <1>4, <1>5, <1>6

LEMMA TickSelectStep ==
  ASSUME ReminderIInv, NEW soon \in SUBSET Campaigns, TickSelect(soon)
  PROVE  ReminderIInv'
<1> USE DEF ReminderIInv, TickSelect, history
<1>1. IInv'
  BY SubmissionsUndisturbed DEF vars, IInv, TypeOK
<1>2. ReminderTypeOK'
  BY DEF ReminderTypeOK, Stages
<1>3. BatchesSound'
  BY DEF BatchesSound
<1>4. DeliveredMeansMailed' /\ StampMeansMailed' /\ EveryMailLogged' /\ NudgesSound'
  BY DEF DeliveredMeansMailed, StampMeansMailed, EveryMailLogged, NudgesSound, vars
<1>5. LateSound'
  BY DEF LateSound, AboutToMail, Submitted, vars, tables
<1> QED
  BY <1>1, <1>2, <1>3, <1>4, <1>5

\* The relay answers: each mail it accepts counts, the scheduler's as a nudge
\* and, when the answer came first, as late.
LEMMA DeliverStep ==
  ASSUME ReminderIInv, NEW s \in Senders, NEW accepted \in SUBSET Packets,
         Deliver(s, accepted)
  PROVE  ReminderIInv'
<1> USE DEF ReminderIInv
<1>1. /\ stage[s] = "sending" /\ accepted \subseteq batch[s]
      /\ batches < MaxBatches /\ batches' = batches + 1
      /\ stage' = [stage EXCEPT ![s] = "stamping"]
      /\ delivered' = [delivered EXCEPT ![s] = accepted]
      /\ mails' = [p \in Packets |-> mails[p] + (IF p \in accepted THEN 1 ELSE 0)]
      /\ nudges' = [p \in Packets |->
                      nudges[p] + (IF p \in (IF s = Scheduler THEN accepted ELSE {}) THEN 1 ELSE 0)]
      /\ late' = [p \in Packets |->
                      late[p] + (IF p \in {q \in accepted : Submitted(q)} THEN 1 ELSE 0)]
      /\ UNCHANGED <<vars, shortDue, reminded, logged, campaign, batch, queue>>
  BY DEF Deliver
<1>2. IInv'
  BY <1>1, SubmissionsUndisturbed DEF vars, IInv, TypeOK
<1>3. ReminderTypeOK'
  BY <1>1, SendersAssumption DEF ReminderTypeOK, Stages
<1>4. BatchesSound'
  BY <1>1 DEF BatchesSound, ReminderTypeOK
<1>5. DeliveredMeansMailed' /\ StampMeansMailed'
  <2>1. \A p \in Packets : mails[p] \in Nat /\ mails'[p] \in Nat /\ mails'[p] >= mails[p]
                           /\ (p \in accepted => mails'[p] > 0)
    BY <1>1 DEF ReminderTypeOK
  <2>2. \A t \in Senders : delivered'[t] = IF t = s THEN accepted ELSE delivered[t]
    BY <1>1 DEF ReminderTypeOK
  <2>3. \A t \in Senders : delivered[t] \subseteq Packets
    BY DEF ReminderTypeOK
  <2>4. DeliveredMeansMailed'
    <3> SUFFICES ASSUME NEW t \in Senders, NEW p \in delivered'[t]
                 PROVE  mails'[p] > 0
      BY DEF DeliveredMeansMailed
    <3>1. p \in Packets /\ (p \in accepted \/ p \in delivered[t])
      BY <2>2, <2>3
    <3> QED
      BY <2>1, <3>1 DEF DeliveredMeansMailed
  <2>5. StampMeansMailed'
    BY <1>1, <2>1 DEF StampMeansMailed, ReminderTypeOK
  <2> QED
    BY <2>4, <2>5
<1>6. NudgesSound'
  <2>1. Scheduler \in Senders /\ faults \in Nat
    BY DEF Senders, IInv, TypeOK
  <2> SUFFICES ASSUME NEW p \in Packets
               PROVE  /\ nudges'[p] <= faults + (IF p \in reminded \cup delivered'[Scheduler] THEN 1 ELSE 0)
                      /\ p \in batch[Scheduler] /\ stage'[Scheduler] = "sending" => nudges'[p] <= faults
                      /\ CampaignOf[p] \in shortDue =>
                           p \in reminded /\ p \notin batch[Scheduler] /\ nudges'[p] = 0
    BY <1>1 DEF NudgesSound, vars
  <2>2. nudges[p] \in Nat
    BY DEF ReminderTypeOK
  <2>3. CASE s = Scheduler /\ p \in accepted
    <3>1. nudges'[p] = nudges[p] + 1 /\ delivered'[s] = accepted /\ stage'[s] = "stamping"
      BY <1>1, <2>3 DEF ReminderTypeOK
    <3>2. nudges[p] <= faults /\ p \in batch[s]
      BY <1>1, <2>3 DEF NudgesSound
    <3> QED
      BY <2>1, <2>2, <2>3, <3>1, <3>2 DEF NudgesSound
  <2>4. CASE s = Scheduler /\ p \notin accepted
    <3>1. nudges'[p] = nudges[p] /\ delivered'[s] = accepted /\ stage'[s] = "stamping"
          /\ delivered[s] = {}
      BY <1>1, <2>4 DEF ReminderTypeOK, BatchesSound
    <3> QED
      BY <2>1, <2>4, <3>1 DEF NudgesSound
  <2>5. CASE s # Scheduler
    <3>1. nudges'[p] = nudges[p] /\ delivered'[Scheduler] = delivered[Scheduler]
          /\ stage'[Scheduler] = stage[Scheduler]
      BY <1>1, <2>1, <2>2, <2>5 DEF ReminderTypeOK
    <3> QED
      BY <3>1 DEF NudgesSound
  <2> QED
    BY <2>3, <2>4, <2>5
<1>7. LateSound'
  <2> SUFFICES ASSUME NEW p \in Packets
               PROVE  IF Submitted(p)
                      THEN late'[p] + Cardinality(AboutToMail(p)') <= Cardinality(Senders)
                      ELSE late'[p] = 0
    BY <1>1 DEF LateSound, Submitted, vars, tables
  <2>1. late[p] \in Nat
    BY DEF ReminderTypeOK
  <2>2. CASE ~Submitted(p)
    BY <1>1, <2>1, <2>2 DEF LateSound
  <2>3. CASE Submitted(p)
    <3>1. AboutToMail(p) \subseteq Senders /\ AboutToMail(p)' = AboutToMail(p) \ {s}
      BY <1>1 DEF AboutToMail, ReminderTypeOK
    <3>2. p \in accepted => s \in AboutToMail(p)
      BY <1>1 DEF AboutToMail
    <3>3. /\ Cardinality(AboutToMail(p)) \in Nat /\ Cardinality(AboutToMail(p)') \in Nat
          /\ Cardinality(AboutToMail(p)') <= Cardinality(AboutToMail(p))
          /\ p \in accepted => Cardinality(AboutToMail(p)') + 1 <= Cardinality(AboutToMail(p))
      BY <3>1, <3>2, FewerSenders
    <3>4. late'[p] = late[p] + (IF p \in accepted THEN 1 ELSE 0)
      BY <1>1, <2>3
    <3>5. late[p] + Cardinality(AboutToMail(p)) <= Cardinality(Senders)
      BY <2>3 DEF LateSound
    <3> QED
      BY <2>1, <2>3, <3>3, <3>4, <3>5, SendersFinite
  <2> QED
    BY <2>2, <2>3
<1>8. EveryMailLogged'
  <2> SUFFICES ASSUME NEW p \in Packets
               PROVE  mails'[p] <= logged[p] + Cardinality(AboutToLog(p)') + faults
    BY <1>1 DEF EveryMailLogged, AboutToLog, vars
  <2>1. mails[p] \in Nat /\ logged[p] \in Nat /\ faults \in Nat
    BY DEF ReminderTypeOK, IInv, TypeOK
  <2>2. mails[p] <= logged[p] + Cardinality(AboutToLog(p)) + faults
    BY DEF EveryMailLogged, AboutToLog
  <2>3. AboutToLog(p) \subseteq Senders /\ s \notin AboutToLog(p)
    BY <1>1 DEF AboutToLog, BatchesSound
  <2>4. AboutToLog(p)' = IF p \in accepted THEN AboutToLog(p) \cup {s} ELSE AboutToLog(p)
    BY <1>1, <2>3 DEF AboutToLog, ReminderTypeOK
  <2>5. Cardinality(AboutToLog(p)) \in Nat
        /\ Cardinality(AboutToLog(p) \cup {s}) = Cardinality(AboutToLog(p)) + 1
    BY <2>3, FewerSenders, OneMoreSender
  <2>6. mails'[p] = mails[p] + (IF p \in accepted THEN 1 ELSE 0)
    BY <1>1
  <2> QED
    BY <2>1, <2>2, <2>4, <2>5, <2>6
<1> QED
  BY <1>2, <1>3, <1>4, <1>5, <1>6, <1>7, <1>8

\* A result is logged; an accepted one stays delivered until it is stamped.
LEMMA LogResultStep ==
  ASSUME ReminderIInv, NEW s \in Senders, NEW p \in Packets, LogResult(s, p)
  PROVE  ReminderIInv'
<1> USE DEF ReminderIInv, history
<1>1. /\ stage[s] = "stamping" /\ p \in batch[s] /\ delivered[s] \subseteq batch[s]
      /\ logged' = [logged EXCEPT ![p] = IF p \in delivered[s] THEN logged[p] + 1 ELSE logged[p]]
      /\ batch' = [batch EXCEPT ![s] = batch[s] \ {p}]
      /\ delivered' = [delivered EXCEPT ![s] = (delivered[s] \ {p}) \cup ({p} \cap delivered[s])]
      /\ \/ stage' = [stage EXCEPT ![s] = "stamping"]
         \/ /\ stage' = [stage EXCEPT ![s] = "idle"]
            /\ batch[s] = {p} /\ p \notin delivered[s]
      /\ UNCHANGED <<vars, shortDue, reminded, campaign, queue, history>>
  BY DEF LogResult, LoggedCount, ToStamp
<1>2. delivered' = delivered
  BY <1>1 DEF ReminderTypeOK
<1>3. IInv'
  BY <1>1, SubmissionsUndisturbed DEF vars, IInv, TypeOK
<1>4. ReminderTypeOK'
  BY <1>1, <1>2 DEF ReminderTypeOK, Stages
<1>5. BatchesSound'
  <2>1. \A t \in Senders : batch'[t] = IF t = s THEN batch[s] \ {p} ELSE batch[t]
    BY <1>1 DEF ReminderTypeOK
  <2>2. \A t \in Senders \ {s} : stage'[t] = stage[t]
    BY <1>1 DEF ReminderTypeOK
  <2>3. stage'[s] = "stamping" \/ (stage'[s] = "idle" /\ batch'[s] = {} /\ delivered[s] = {})
    BY <1>1, <2>1 DEF ReminderTypeOK
  <2> QED
    BY <1>1, <1>2, <2>1, <2>2, <2>3 DEF BatchesSound
<1>6. DeliveredMeansMailed' /\ StampMeansMailed'
  BY <1>1, <1>2 DEF DeliveredMeansMailed, StampMeansMailed
<1>7. NudgesSound'
  <2>1. Scheduler \in Senders
    BY DEF Senders
  <2>2. /\ batch'[Scheduler] \subseteq batch[Scheduler]
        /\ stage'[Scheduler] = "sending" => stage[Scheduler] = "sending"
    BY <1>1, <2>1 DEF ReminderTypeOK
  <2> QED
    BY <1>1, <1>2, <2>2 DEF NudgesSound, vars
<1>8. LateSound'
  <2>1. \A q \in Packets : AboutToMail(q)' = AboutToMail(q)
    BY <1>1 DEF AboutToMail, ReminderTypeOK
  <2> QED
    BY <1>1, <2>1 DEF LateSound, Submitted, vars, tables
<1>9. EveryMailLogged'
  <2> SUFFICES ASSUME NEW q \in Packets
               PROVE  mails[q] <= logged'[q] + Cardinality(AboutToLog(q)') + faults
    BY <1>1 DEF EveryMailLogged, AboutToLog, vars
  <2>1. mails[q] \in Nat /\ logged[q] \in Nat /\ faults \in Nat
    BY DEF ReminderTypeOK, IInv, TypeOK
  <2>2. mails[q] <= logged[q] + Cardinality(AboutToLog(q)) + faults
    BY DEF EveryMailLogged, AboutToLog
  <2>3. \A t \in Senders : batch'[t] = IF t = s THEN batch[s] \ {p} ELSE batch[t]
    BY <1>1 DEF ReminderTypeOK
  <2>4. CASE q = p /\ p \in delivered[s]
    <3>1. AboutToLog(q)' \subseteq Senders /\ s \in Senders \ AboutToLog(q)'
          /\ AboutToLog(q) = AboutToLog(q)' \cup {s}
      BY <1>1, <1>2, <2>3, <2>4 DEF AboutToLog
    <3>2. /\ Cardinality(AboutToLog(q)') \in Nat
          /\ Cardinality(AboutToLog(q)) = Cardinality(AboutToLog(q)') + 1
      BY <3>1, FewerSenders, OneMoreSender
    <3>3. logged'[q] = logged[q] + 1
      BY <1>1, <2>4 DEF ReminderTypeOK
    <3> QED
      BY <2>1, <2>2, <3>2, <3>3
  <2>5. CASE ~(q = p /\ p \in delivered[s])
    <3>1. AboutToLog(q)' = AboutToLog(q) /\ logged'[q] = logged[q]
      BY <1>1, <1>2, <2>3, <2>5 DEF AboutToLog, ReminderTypeOK
    <3> QED
      BY <2>2, <3>1
  <2> QED
    BY <2>4, <2>5
<1> QED
  BY <1>3, <1>4, <1>5, <1>6, <1>7, <1>8, <1>9

\* The stamp: a packet that was mailed and logged joins those reminded.
LEMMA StampReminderStep ==
  ASSUME ReminderIInv, NEW s \in Senders, NEW p \in Packets, StampReminder(s, p)
  PROVE  ReminderIInv'
<1> USE DEF ReminderIInv, history
<1>1. /\ stage[s] = "stamping" /\ p \in delivered[s] \ batch[s]
      /\ reminded' = reminded \cup {p}
      /\ delivered' = [delivered EXCEPT ![s] = delivered[s] \ {p}]
      /\ stage' = [stage EXCEPT ![s] = IF batch[s] = {} THEN "idle" ELSE "stamping"]
      /\ UNCHANGED <<vars, shortDue, logged, campaign, batch, queue, history>>
  BY DEF StampReminder
<1>2. \A t \in Senders : delivered'[t] = IF t = s THEN delivered[s] \ {p} ELSE delivered[t]
  BY <1>1 DEF ReminderTypeOK
<1>3. IInv'
  BY <1>1, SubmissionsUndisturbed DEF vars, IInv, TypeOK
<1>4. ReminderTypeOK'
  BY <1>1 DEF ReminderTypeOK, Stages
<1>5. BatchesSound'
  <2>1. delivered'[s] \subseteq batch[s]
    BY <1>1, <1>2 DEF BatchesSound
  <2>2. \A t \in Senders \ {s} : stage'[t] = stage[t]
    BY <1>1 DEF ReminderTypeOK
  <2>3. stage'[s] = "stamping" \/ (stage'[s] = "idle" /\ batch[s] = {})
    BY <1>1 DEF ReminderTypeOK
  <2> QED
    BY <1>1, <1>2, <2>1, <2>2, <2>3 DEF BatchesSound
<1>6. DeliveredMeansMailed' /\ StampMeansMailed'
  BY <1>1, <1>2 DEF DeliveredMeansMailed, StampMeansMailed
<1>7. NudgesSound'
  <2>1. Scheduler \in Senders
    BY DEF Senders
  <2>2. reminded \cup delivered[Scheduler] \subseteq reminded' \cup delivered'[Scheduler]
    BY <1>1, <1>2, <2>1
  <2>3. stage'[Scheduler] = "sending" => stage[Scheduler] = "sending"
    BY <1>1, <2>1 DEF ReminderTypeOK
  <2> SUFFICES ASSUME NEW q \in Packets
               PROVE  /\ nudges[q] <= faults + (IF q \in reminded' \cup delivered'[Scheduler] THEN 1 ELSE 0)
                      /\ q \in batch[Scheduler] /\ stage'[Scheduler] = "sending" => nudges[q] <= faults
                      /\ CampaignOf[q] \in shortDue =>
                           q \in reminded' /\ q \notin batch[Scheduler] /\ nudges[q] = 0
    BY <1>1 DEF NudgesSound, vars
  <2>4. nudges[q] \in Nat /\ faults \in Nat
    BY DEF ReminderTypeOK, IInv, TypeOK
  <2> QED
    BY <1>1, <2>2, <2>3, <2>4 DEF NudgesSound
<1>8. LateSound'
  <2>1. \A q \in Packets : AboutToMail(q)' = AboutToMail(q)
    BY <1>1 DEF AboutToMail, ReminderTypeOK
  <2> QED
    BY <1>1, <2>1 DEF LateSound, Submitted, vars, tables
<1>9. EveryMailLogged'
  <2>1. \A q \in Packets : AboutToLog(q)' = AboutToLog(q)
    BY <1>1, <1>2 DEF AboutToLog
  <2> QED
    BY <1>1, <2>1 DEF EveryMailLogged, AboutToLog, vars
<1> QED
  BY <1>3, <1>4, <1>5, <1>6, <1>7, <1>8, <1>9

\* A sender is cut off: what it had sent and not stamped is paid by the fault.
LEMMA SenderFailsStep ==
  ASSUME ReminderIInv, NEW s \in Senders, SenderFails(s)
  PROVE  ReminderIInv'
<1> USE DEF ReminderIInv, SenderFails, history
<1>1. IInv'
  BY SubmissionsUndisturbed, ParamsAssumption DEF IInv, TypeOK
<1>2. ReminderTypeOK'
  BY DEF ReminderTypeOK, Stages
<1>3. BatchesSound'
  BY DEF BatchesSound, ReminderTypeOK
<1>4. \A t \in Senders : delivered'[t] = IF t = s THEN {} ELSE delivered[t]
  BY DEF ReminderTypeOK
<1>5. DeliveredMeansMailed' /\ StampMeansMailed'
  BY <1>4 DEF DeliveredMeansMailed, StampMeansMailed
<1>6. faults \in Nat
  BY DEF IInv, TypeOK
<1>7. NudgesSound'
  <2>1. Scheduler \in Senders
    BY DEF Senders
  <2>2. batch'[Scheduler] \subseteq batch[Scheduler]
        /\ (stage'[Scheduler] = "sending" => stage[Scheduler] = "sending")
    BY <2>1 DEF ReminderTypeOK
  <2> SUFFICES ASSUME NEW p \in Packets
               PROVE  /\ nudges[p] <= faults + 1 + (IF p \in reminded \cup delivered'[Scheduler] THEN 1 ELSE 0)
                      /\ p \in batch'[Scheduler] /\ stage'[Scheduler] = "sending" => nudges[p] <= faults + 1
                      /\ CampaignOf[p] \in shortDue =>
                           p \in reminded /\ p \notin batch'[Scheduler] /\ nudges[p] = 0
    BY DEF NudgesSound
  <2>3. nudges[p] \in Nat
    BY DEF ReminderTypeOK
  <2>4. nudges[p] <= faults + 1
    BY <1>6, <2>3 DEF NudgesSound
  <2> QED
    BY <1>6, <2>2, <2>3, <2>4 DEF NudgesSound
<1>8. LateSound'
  <2> SUFFICES ASSUME NEW p \in Packets, Submitted(p)
               PROVE  late[p] + Cardinality(AboutToMail(p)') <= Cardinality(Senders)
    BY DEF LateSound, Submitted, tables
  <2>1. AboutToMail(p)' \subseteq AboutToMail(p) /\ AboutToMail(p) \subseteq Senders
    BY DEF AboutToMail, ReminderTypeOK
  <2>2. /\ Cardinality(AboutToMail(p)') <= Cardinality(AboutToMail(p))
        /\ Cardinality(AboutToMail(p)') \in Nat /\ Cardinality(AboutToMail(p)) \in Nat
    BY <2>1, FewerSenders
  <2>3. late[p] \in Nat
    BY DEF ReminderTypeOK
  <2> QED
    BY <2>2, <2>3, SendersFinite DEF LateSound
<1>9. EveryMailLogged'
  <2> SUFFICES ASSUME NEW p \in Packets
               PROVE  mails[p] <= logged[p] + Cardinality(AboutToLog(p)') + (faults + 1)
    BY DEF EveryMailLogged, AboutToLog
  <2>1. mails[p] \in Nat /\ logged[p] \in Nat
    BY DEF ReminderTypeOK
  <2>2. mails[p] <= logged[p] + Cardinality(AboutToLog(p)) + faults
    BY DEF EveryMailLogged, AboutToLog
  <2>3. AboutToLog(p) \subseteq Senders /\ AboutToLog(p)' = AboutToLog(p) \ {s}
    BY <1>4 DEF AboutToLog
  <2>4. /\ Cardinality(AboutToLog(p)) \in Nat /\ Cardinality(AboutToLog(p)') \in Nat
        /\ Cardinality(AboutToLog(p)) <= Cardinality(AboutToLog(p)') + 1
    <3>1. CASE s \in AboutToLog(p)
      <4>1. AboutToLog(p) = AboutToLog(p)' \cup {s} /\ s \in Senders \ AboutToLog(p)'
            /\ AboutToLog(p)' \subseteq Senders
        BY <2>3, <3>1
      <4> QED
        BY <4>1, FewerSenders, OneMoreSender
    <3>2. CASE s \notin AboutToLog(p)
      <4>1. AboutToLog(p)' = AboutToLog(p)
        BY <2>3, <3>2
      <4> QED
        BY <2>3, <4>1, FewerSenders
    <3> QED
      BY <3>1, <3>2
  <2> QED
    BY <1>6, <2>1, <2>2, <2>4
<1> QED
  BY <1>1, <1>2, <1>3, <1>5, <1>7, <1>8, <1>9

----------------------------------------------------------------------------
(* Submissions and closes beside the senders                               *)

\* An answered packet stays answered.
LEMMA AnswersStand ==
  ASSUME IInv, [Next]_vars, NEW p \in Packets, Submitted(p)
  PROVE  Submitted(p)'
<1>1. CASE \E r \in Requests : SubmitCommit(r)
  <2> PICK r \in Requests : SubmitCommit(r)
    BY <1>1
  <2>1. pc[r] = "closing" /\ submitter' = [submitter EXCEPT ![target[r]] = caller[r]]
    BY DEF SubmitCommit
  <2>2. caller[r] # None
    BY <2>1, CommitKnows
  <2> QED
    BY <2>1, <2>2 DEF IInv, TypeOK, Submitted
<1>2. CASE ~\E r \in Requests : SubmitCommit(r)
  <2>1. submitter' = submitter
    BY <1>2 DEF Next, Submit, SubmitLoad, SubmitClaim, SubmitLosesClaim, SubmitClosure,
       SubmitFails, Close, vars, tables
  <2> QED
    BY <2>1 DEF Submitted
<1> QED
  BY <1>1, <1>2

\* Faults are only ever counted up.
LEMMA FaultsGrow ==
  ASSUME IInv, [Next]_vars
  PROVE  faults \in Nat /\ faults' \in Nat /\ faults <= faults'
<1>1. faults \in Nat
  BY DEF IInv, TypeOK
<1>2. faults' = faults \/ faults' = faults + 1
  BY DEF Next, Submit, SubmitLoad, SubmitClaim, SubmitLosesClaim, SubmitClosure,
     SubmitCommit, SubmitFails, Close, vars
<1> QED
  BY <1>1, <1>2

LEMMA SubmissionStep ==
  ASSUME ReminderIInv, [Next]_vars, UNCHANGED reminderVars
  PROVE  ReminderIInv'
<1> USE DEF ReminderIInv, reminderVars, history
<1>1. IInv'
  BY NextStep
<1>2. faults \in Nat /\ faults' \in Nat /\ faults <= faults'
  BY FaultsGrow
<1>3. ReminderTypeOK' /\ BatchesSound' /\ DeliveredMeansMailed' /\ StampMeansMailed'
  BY DEF ReminderTypeOK, BatchesSound, DeliveredMeansMailed, StampMeansMailed
<1>4. NudgesSound'
  BY <1>2 DEF NudgesSound, ReminderTypeOK
<1>5. LateSound'
  <2> SUFFICES ASSUME NEW p \in Packets
               PROVE  IF Submitted(p)'
                      THEN late[p] + Cardinality(AboutToMail(p)) <= Cardinality(Senders)
                      ELSE late[p] = 0
    BY DEF LateSound, AboutToMail, Submitted
  <2>1. CASE Submitted(p)
    BY <2>1, AnswersStand DEF LateSound
  <2>2. CASE ~Submitted(p)
    <3>1. Cardinality(AboutToMail(p)) \in Nat /\ Cardinality(AboutToMail(p)) <= Cardinality(Senders)
      BY FewerSenders DEF AboutToMail
    <3> QED
      BY <2>2, <3>1, SendersFinite DEF LateSound
  <2> QED
    BY <2>1, <2>2
<1>6. EveryMailLogged'
  <2> SUFFICES ASSUME NEW p \in Packets
               PROVE  mails[p] <= logged[p] + Cardinality(AboutToLog(p)) + faults'
    BY DEF EveryMailLogged, AboutToLog
  <2>1. Cardinality(AboutToLog(p)) \in Nat
    BY FewerSenders DEF AboutToLog
  <2>2. mails[p] \in Nat /\ logged[p] \in Nat
    BY DEF ReminderTypeOK
  <2>3. mails[p] <= logged[p] + Cardinality(AboutToLog(p)) + faults
    BY DEF EveryMailLogged, AboutToLog
  <2> QED
    BY <1>2, <2>1, <2>2, <2>3
<1> QED
  BY <1>1, <1>3, <1>4, <1>5, <1>6

----------------------------------------------------------------------------
LEMMA ReminderNextStep == ReminderIInv /\ [ReminderNext]_allVars => ReminderIInv'
<1> SUFFICES ASSUME ReminderIInv, [ReminderNext]_allVars PROVE ReminderIInv'
  OBVIOUS
<1>1. CASE (Next /\ UNCHANGED reminderVars) \/ UNCHANGED allVars
  BY <1>1, SubmissionStep DEF allVars
<1>2. ASSUME NEW s \in Operators, Remind(s)
      PROVE  ReminderIInv'
  <2>1. s \in Senders /\ s # Scheduler
    BY SendersAssumption DEF Senders
  <2>2. CASE \E c \in Campaigns : RemindSelect(s, c)
    BY <2>1, <2>2, RemindSelectStep
  <2>3. /\ campaign \in [Senders -> Campaigns \cup {None}] /\ queue \in SUBSET Campaigns
        /\ Outstanding(campaign[s]) \in SUBSET Packets
        /\ \A p \in Outstanding(campaign[s]) : ~Submitted(p)
    BY DEF ReminderIInv, ReminderTypeOK, Outstanding, PacketsOf
  <2>4. CASE RemindCampaign(s)
    <3> DEFINE pending == Outstanding(campaign[s])
    <3>1. /\ stage[s] \in {"idle", "selected"} /\ Prepare(s, pending)
          /\ campaign' \in [Senders -> Campaigns \cup {None}]
          /\ \A t \in Senders \ {s} : campaign'[t] = campaign[t]
          /\ queue' \in SUBSET Campaigns
          /\ UNCHANGED <<vars, shortDue, reminded, logged, delivered, history>>
      BY <2>3, <2>4 DEF RemindCampaign
    <3> HIDE DEF pending
    <3>2. pending \in SUBSET Packets /\ \A p \in pending : ~Submitted(p)
      BY <2>3 DEF pending
    <3> QED
      BY <2>1, <3>1, <3>2, PrepareStep
  <2>5. ASSUME NEW p \in Packets, RemindPacket(s, p)
        PROVE  ReminderIInv'
    <3> DEFINE pending == {p} \cap Outstanding(campaign[s])
    <3>1. /\ stage[s] \in {"idle", "selected"} /\ Prepare(s, pending)
          /\ campaign' \in [Senders -> Campaigns \cup {None}]
          /\ \A t \in Senders \ {s} : campaign'[t] = campaign[t]
          /\ queue' \in SUBSET Campaigns
          /\ UNCHANGED <<vars, shortDue, reminded, logged, delivered, history>>
      BY <2>3, <2>5 DEF RemindPacket
    <3> HIDE DEF pending
    <3>2. pending \in SUBSET Packets /\ \A q \in pending : ~Submitted(q)
      BY <2>3 DEF pending
    <3> QED
      BY <2>1, <3>1, <3>2, PrepareStep
  <2> QED
    BY <1>2, <2>2, <2>4, <2>5 DEF Remind
<1>3. CASE Tick
  <2>1. Scheduler \in Senders
    BY DEF Senders
  <2>2. ASSUME NEW c \in Campaigns, TickCampaign(c)
        PROVE  ReminderIInv'
    <3>1. /\ stage[Scheduler] \in {"idle", "selected"} /\ Prepare(Scheduler, NeverReminded(c))
          /\ campaign' \in [Senders -> Campaigns \cup {None}]
          /\ \A t \in Senders \ {Scheduler} : campaign'[t] = campaign[t]
          /\ queue' \in SUBSET Campaigns
          /\ UNCHANGED <<vars, shortDue, reminded, logged, delivered, history>>
      BY <2>2 DEF TickCampaign, ReminderIInv, ReminderTypeOK
    <3>2. /\ NeverReminded(c) \in SUBSET Packets
          /\ \A p \in NeverReminded(c) : ~Submitted(p)
          /\ NeverReminded(c) \cap reminded = {}
      BY DEF NeverReminded, Outstanding, PacketsOf
    <3> QED
      BY <2>1, <3>1, <3>2, PrepareStep
  <2> QED
    BY <1>3, <2>2, TickSelectStep DEF Tick
<1>4. ASSUME NEW s \in Senders, SendAndStamp(s)
      PROVE  ReminderIInv'
  BY <1>4, DeliverStep, LogResultStep, StampReminderStep, SenderFailsStep DEF SendAndStamp
<1> QED
  BY <1>1, <1>2, <1>3, <1>4 DEF ReminderNext

\* The inductive invariant holds in every state of every execution.
THEOREM ReminderInvariance == ReminderSpec => []ReminderIInv
BY InitReminderIInv, ReminderNextStep, PTL DEF ReminderSpec

\* Every variable of the senders keeps its type, and so do those of the
\* submissions beside them.
THEOREM RemindersTypeCorrect == ReminderSpec => [](TypeOK /\ ReminderTypeOK)
<1>1. ReminderIInv => TypeOK /\ ReminderTypeOK
  BY DEF ReminderIInv, IInv
<1> QED
  BY ReminderInvariance, <1>1, PTL

\* The scheduler mails a packet once, plus once per sender that was cut off, and
\* never where the due period suppresses the reminder (reminder_sent_at).
THEOREM NudgedAtMostOnce == ReminderSpec => []NudgedOnce
<1>1. ReminderIInv => NudgedOnce
  <2> SUFFICES ASSUME ReminderIInv, NEW p \in Packets
               PROVE  nudges[p] <= 1 + faults /\ (CampaignOf[p] \in shortDue => nudges[p] = 0)
    BY DEF NudgedOnce
  <2>1. nudges[p] \in Nat /\ faults \in Nat
    BY DEF ReminderIInv, ReminderTypeOK, IInv, TypeOK
  <2> QED
    BY <2>1 DEF ReminderIInv, NudgesSound
<1> QED
  BY ReminderInvariance, <1>1, PTL

\* A stamp is evidence of a mail the relay accepted.
THEOREM StampsAreEvidence == ReminderSpec => []StampMeansMailed
<1>1. ReminderIInv => StampMeansMailed
  BY DEF ReminderIInv
<1> QED
  BY ReminderInvariance, <1>1, PTL

\* A recipient who has answered gets at most one more reminder from each sender,
\* however many requests, ticks and failures there are.
THEOREM LateMailsBounded == ReminderSpec => []LateRemindersBounded
<1>1. ReminderIInv => LateRemindersBounded
  <2> SUFFICES ASSUME ReminderIInv, NEW p \in Packets
               PROVE  late[p] <= Cardinality(Senders)
    BY DEF LateRemindersBounded
  <2>1. late[p] \in Nat /\ Cardinality(AboutToMail(p)) \in Nat
    BY FewerSenders DEF ReminderIInv, ReminderTypeOK, AboutToMail
  <2> QED
    BY <2>1, SendersFinite DEF ReminderIInv, LateSound
<1> QED
  BY ReminderInvariance, <1>1, PTL

\* email_log accounts for every accepted mail that is not in flight and was not cut off.
THEOREM MailsAreLogged == ReminderSpec => []EveryMailLogged
<1>1. ReminderIInv => EveryMailLogged
  BY DEF ReminderIInv
<1> QED
  BY ReminderInvariance, <1>1, PTL

----------------------------------------------------------------------------
(* The audit record beside the senders                                     *)

\* A step of a sender writes no table of the audit record.
LEMMA SendersLeaveTables ==
  ASSUME ReminderNext, ~Next
  PROVE  UNCHANGED tables
<1>1. ASSUME NEW s \in Operators, Remind(s) PROVE UNCHANGED tables
  BY <1>1 DEF Remind, RemindSelect, RemindCampaign, RemindPacket, vars
<1>2. CASE Tick
  BY <1>2 DEF Tick, TickSelect, TickCampaign, vars
<1>3. ASSUME NEW s \in Senders, SendAndStamp(s) PROVE UNCHANGED tables
  BY <1>3 DEF SendAndStamp, Deliver, LogResult, StampReminder, SenderFails, vars
<1> QED
  BY <1>1, <1>2, <1>3 DEF ReminderNext

\* Submissions and closes implement AttestationRecord whatever the operators' and
\* the scheduler's reminders do beside them.
THEOREM RecordBesideReminders == ReminderSpec => ImplementsRecord
<1>1. ReminderInit => Record!Init
  BY DEF ReminderInit, Init, Record!Init
<1>2. ReminderIInv /\ [ReminderNext]_allVars => [Record!Next]_(Record!vars)
  <2> SUFFICES ASSUME ReminderIInv, [ReminderNext]_allVars
               PROVE  [Record!Next]_(Record!vars)
    OBVIOUS
  <2>1. CASE Next \/ UNCHANGED vars
    BY <2>1, StepRefines DEF ReminderIInv
  <2>2. CASE ReminderNext /\ ~Next
    BY <2>2, SendersLeaveTables DEF tables, Record!vars
  <2> QED
    BY <2>1, <2>2 DEF allVars
<1> QED
  BY <1>1, <1>2, ReminderInvariance, PTL DEF ReminderSpec, ImplementsRecord, Record!Spec

=============================================================================
