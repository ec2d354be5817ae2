------------------------- MODULE SyncTrackingProofs -------------------------
(* Proofs about SyncTracking, for any slots, threshold, timeout and interval: *)
(* types and the counting of failures with any number of agents, and with one *)
(* agent, as the pipelines have, what the dashboard and the breaker promise.  *)
EXTENDS SyncTracking, FiniteSetTheorems, TLAPS

USE SyncAssumption DEF UpTo

-----------------------------------------------------------------------------
(* Any number of agents.                                                    *)

CountInv == SyncTypeOK /\ EveryAttemptCounts

LEMMA GotoType ==
  ASSUME SyncTypeOK, NEW s \in Slots, NEW label \in Labels, Goto(s, label)
  PROVE  pc' \in [Slots -> Labels]
BY DEF SyncTypeOK, Goto

LEMMA MarkType ==
  ASSUME SyncTypeOK, NEW s \in Slots,
         NEW mark \in {"none", "running", "success", "error", "cancelled"}, Mark(s, mark)
  PROVE  row' \in [Slots -> {"none", "running", "success", "error", "cancelled"}]
BY DEF SyncTypeOK, Mark

\* Counting a failure, alone or with the attempt it stands for.
LEMMA CountTypes ==
  ASSUME SyncTypeOK, CountFailure
  PROVE  failures' \in 0..Threshold /\ age' \in 0..Timeout /\ failures <= failures'
BY DEF SyncTypeOK, CountFailure

LEMMA AttemptTypes ==
  ASSUME CountInv, CountFailure, Attempted
  PROVE  /\ failures' \in 0..Threshold /\ age' \in 0..Timeout
         /\ streak' \in 0..Threshold /\ streak' <= failures'
         /\ streak = failures => streak' = failures'
BY DEF CountInv, SyncTypeOK, EveryAttemptCounts, CountFailure, Attempted

LEMMA CountStep ==
  ASSUME CountInv, [SyncNext]_syncVars
  PROVE  CountInv'
<1> USE DEF CountInv, EveryAttemptCounts
<1>0. SyncTypeOK /\ (Faulty => faults' \in 0..MaxFaults)
  BY DEF SyncTypeOK, Faulty
<1>1. CASE UNCHANGED syncVars
  BY <1>1 DEF syncVars, statusRow, environment, SyncTypeOK
<1>2. ASSUME NEW s \in Slots, ScheduledStart(s) \/ ManualStart(s) PROVE CountInv'
  <2>1. pc' \in [Slots -> Labels] /\ row' \in [Slots -> {"none", "running", "success", "error", "cancelled"}]
    BY <1>0, <1>2, GotoType, MarkType DEF ScheduledStart, ManualStart, StartSync, Labels
  <2> QED BY <1>2, <2>1 DEF ScheduledStart, ManualStart, StartSync, SyncTypeOK
<1>3. ASSUME NEW s \in Slots, CheckCircuitBreaker(s) \/ Work(s) PROVE CountInv'
  <2>1. pc' \in [Slots -> Labels]
    BY <1>0, <1>3, GotoType DEF CheckCircuitBreaker, Work, Labels
  <2> QED BY <1>3, <2>1 DEF CheckCircuitBreaker, Work, SyncTypeOK, statusRow, environment
<1>4. ASSUME NEW s \in Slots, RecordSkip(s) PROVE CountInv'
  <2>1. pc' \in [Slots -> Labels] /\ row' \in [Slots -> {"none", "running", "success", "error", "cancelled"}]
    BY <1>0, <1>4, GotoType, MarkType DEF RecordSkip, Labels, SkipMark
  <2>2. failures' \in 0..Threshold /\ age' \in 0..Timeout /\ failures <= failures'
    BY <1>0, <1>4, CountTypes DEF RecordSkip
  <2> QED BY <1>4, <2>1, <2>2 DEF RecordSkip, SyncTypeOK, environment
<1>5. ASSUME NEW s \in Slots, CompleteSuccess(s) PROVE CountInv'
  <2>1. pc' \in [Slots -> Labels] /\ row' \in [Slots -> {"none", "running", "success", "error", "cancelled"}]
    BY <1>0, <1>5, GotoType, MarkType DEF CompleteSuccess, Labels
  <2> QED BY <1>5, <2>1 DEF CompleteSuccess, ResetFailures, SyncTypeOK, environment
<1>6. ASSUME NEW s \in Slots, CompleteError(s) PROVE CountInv'
  <2>1. pc' \in [Slots -> Labels] /\ row' \in [Slots -> {"none", "running", "success", "error", "cancelled"}]
    BY <1>0, <1>6, GotoType, MarkType DEF CompleteError, Labels
  <2>2. /\ failures' \in 0..Threshold /\ age' \in 0..Timeout
        /\ streak' \in 0..Threshold /\ streak' <= failures'
    BY <1>6, AttemptTypes DEF CompleteError
  <2> QED BY <1>6, <2>1, <2>2 DEF CompleteError, SyncTypeOK, environment
<1>7. ASSUME NEW s \in Slots, FallbackUpdate(s) PROVE CountInv'
  <2>1. pc' \in [Slots -> Labels]
    BY <1>0, <1>7, GotoType DEF FallbackUpdate, Labels
  <2>2. /\ failures' \in 0..Threshold /\ age' \in 0..Timeout
        /\ streak' \in 0..Threshold /\ streak' <= failures'
    BY <1>7, AttemptTypes DEF FallbackUpdate, FallbackCount
  <2> QED BY <1>7, <2>1, <2>2 DEF FallbackUpdate, SyncTypeOK, environment
<1>8. ASSUME NEW s \in Slots, Fault(s) PROVE CountInv'
  <2>1. pc' \in [Slots -> Labels]
    <3>1. \E label \in Labels : Goto(s, label)
      BY <1>8 DEF Fault, CheckFails, SkipUnrecorded, TrackingFails, FallbackFails, Killed, Labels
    <3> QED BY <1>0, <3>1, GotoType
  <2>2. Faulty /\ UNCHANGED <<statusRow, row, environment, streak>>
    BY <1>8 DEF Fault, CheckFails, SkipUnrecorded, TrackingFails, FallbackFails, Killed
  <2> QED BY <1>0, <2>1, <2>2 DEF SyncTypeOK, statusRow, environment
<1>9. CASE OperatorReset
  BY <1>9 DEF OperatorReset, SyncTypeOK, environment
<1>10. CASE UpstreamChanges
  BY <1>10 DEF UpstreamChanges, SyncTypeOK, statusRow
<1>11. CASE Tick
  BY <1>11 DEF Tick, SyncTypeOK
<1> QED BY <1>1, <1>2, <1>3, <1>4, <1>5, <1>6, <1>7, <1>8, <1>9, <1>10, <1>11
        DEF SyncNext, RunStep

LEMMA CountInit == SyncInit => CountInv
BY DEF SyncInit, CountInv, SyncTypeOK, EveryAttemptCounts, Labels

\* Every variable keeps its type.
THEOREM SyncTypes == SyncSpec => []SyncTypeOK
<1>1. CountInv => SyncTypeOK
  BY DEF CountInv
<1> QED BY <1>1, CountInit, CountStep, PTL DEF SyncSpec

\* A failed attempt that got as far as its tracking is counted whatever other runs,
\* skips and failing updates come between, on any number of agents.
THEOREM FailuresAreCounted == SyncSpec => []EveryAttemptCounts
<1>1. CountInv => EveryAttemptCounts
  BY DEF CountInv
<1> QED BY <1>1, CountInit, CountStep, PTL DEF SyncSpec

-----------------------------------------------------------------------------
(* One agent.                                                               *)

OneAtATime == \A r, s \in Slots : pc[r] # "idle" /\ pc[s] # "idle" => r = s

\* While a run lasts its 'warning' stands, and it only skips at a threshold that
\* nobody has reset since it asked.
RunIsSound ==
  \A s \in Slots :
    /\ pc[s] # "idle" => status = "warning"
    /\ pc[s] = "skipping" => failures = Threshold

\* Without another run beside it, a skip finds the counter at its cap: the counter
\* is the number of attempts in a row that failed.
CounterIsStreak == streak = failures

AgentInv == CountInv /\ OneAtATime /\ RunIsSound /\ CounterIsStreak /\ HealthyMeansReset

\* An agent is free only when no run lasts.
LEMMA StartsAlone ==
  ASSUME Agents = 1, IsFiniteSet(Slots), NEW s \in Slots, CanStart(s)
  PROVE  \A r \in Slots : pc[r] = "idle"
<1> DEFINE runs == {r \in Slots : pc[r] # "idle"}
<1>1. IsFiniteSet(runs)
  BY FS_Subset
<1>2. Cardinality(runs) \in Nat /\ Cardinality(runs) < 1
  BY <1>1, FS_CardinalityType DEF CanStart
<1>3. runs = {}
  BY <1>1, <1>2, FS_EmptySet
<1> QED BY <1>3

\* The last run goes on or ends, and nobody else is there.
LEMMA GoesOn ==
  ASSUME SyncTypeOK, OneAtATime, NEW s \in Slots, pc[s] # "idle", NEW label \in Labels, Goto(s, label)
  PROVE  /\ OneAtATime'
         /\ pc'[s] = label
         /\ \A r \in Slots \ {s} : pc[r] = "idle" /\ pc'[r] = "idle"
BY DEF SyncTypeOK, OneAtATime, Goto

LEMMA RunKeeps ==
  ASSUME AgentInv, CountInv', NEW s \in Slots, RunStep(s) \/ Fault(s)
  PROVE  AgentInv'
<1> USE DEF RunIsSound, CounterIsStreak, HealthyMeansReset
<1>0. SyncTypeOK /\ OneAtATime /\ CountInv /\ Threshold \in Nat \ {0}
  BY DEF AgentInv, CountInv
<1>1. pc[s] # "idle" /\ status = "warning"
  BY DEF AgentInv, RunStep, Fault, CheckCircuitBreaker, Work, RecordSkip, CompleteSuccess,
         CompleteError, FallbackUpdate, CheckFails, SkipUnrecorded, TrackingFails, FallbackFails,
         Killed
<1>2. PICK label \in Labels : Goto(s, label)
  <2>1. RunStep(s) => \E label \in Labels : Goto(s, label)
    BY DEF RunStep, CheckCircuitBreaker, Work, RecordSkip, CompleteSuccess, CompleteError,
           FallbackUpdate, Labels
  <2>2. Fault(s) => \E label \in Labels : Goto(s, label)
    BY DEF Fault, CheckFails, SkipUnrecorded, TrackingFails, FallbackFails, Killed, Labels
  <2> QED BY <2>1, <2>2
<1>3. /\ OneAtATime' /\ pc'[s] = label
      /\ \A r \in Slots \ {s} : pc[r] = "idle" /\ pc'[r] = "idle"
  BY <1>0, <1>1, <1>2, GoesOn
<1>4. CASE CheckCircuitBreaker(s)
  <2>1. pc'[s] \in {"skipping", "working"} /\ (pc'[s] = "skipping" => BreakerOpen)
    BY <1>0, <1>4 DEF CheckCircuitBreaker, Goto, SyncTypeOK
  <2>2. BreakerOpen => failures = Threshold
    BY <1>0 DEF BreakerOpen, SyncTypeOK
  <2>3. UNCHANGED <<status, failures, streak>>
    BY <1>4 DEF CheckCircuitBreaker, statusRow
  <2> QED BY <1>1, <1>3, <2>1, <2>2, <2>3 DEF AgentInv
<1>5. CASE Work(s)
  <2>1. pc'[s] # "skipping" /\ UNCHANGED <<status, failures, streak>>
    BY <1>0, <1>5 DEF Work, Goto, SyncTypeOK, statusRow
  <2> QED BY <1>1, <1>3, <2>1 DEF AgentInv
<1>6. CASE RecordSkip(s)
  <2>1. pc'[s] = "idle" /\ UNCHANGED <<status, streak>>
    BY <1>0, <1>6 DEF RecordSkip, Goto, SyncTypeOK
  <2>2. failures = Threshold /\ failures' = Threshold
    BY <1>0, <1>6 DEF RecordSkip, CountFailure, AgentInv
  <2> QED BY <1>1, <1>3, <2>1, <2>2 DEF AgentInv
<1>7. CASE CompleteSuccess(s)
  <2>1. pc'[s] = "idle" /\ failures' = 0 /\ streak' = 0
    BY <1>0, <1>7 DEF CompleteSuccess, ResetFailures, Goto, SyncTypeOK
  <2> QED BY <1>3, <2>1 DEF AgentInv
<1>8. CASE CompleteError(s) \/ FallbackUpdate(s)
  <2>1. pc'[s] = "idle" /\ status' = "error" /\ CountFailure /\ Attempted
    BY <1>0, <1>8 DEF CompleteError, FallbackUpdate, FallbackCount, Goto, SyncTypeOK
  <2>2. streak' = failures'
    BY <1>0, <2>1, AttemptTypes DEF AgentInv
  <2> QED BY <1>3, <2>1, <2>2 DEF AgentInv
<1>9. CASE Fault(s)
  <2>1. UNCHANGED <<status, failures, streak>>
    BY <1>9 DEF Fault, CheckFails, SkipUnrecorded, TrackingFails, FallbackFails, Killed, statusRow
  <2>2. pc'[s] # "skipping"
    BY <1>0, <1>9 DEF Fault, CheckFails, SkipUnrecorded, TrackingFails, FallbackFails, Killed, Goto,
                      SyncTypeOK
  <2> QED BY <1>1, <1>3, <2>1, <2>2 DEF AgentInv
<1> QED BY <1>4, <1>5, <1>6, <1>7, <1>8, <1>9 DEF RunStep

LEMMA AgentStep ==
  ASSUME Agents = 1, IsFiniteSet(Slots), AgentInv, [SyncNext]_syncVars
  PROVE  AgentInv'
<1> USE DEF RunIsSound, CounterIsStreak, HealthyMeansReset
<1>0. SyncTypeOK /\ OneAtATime /\ CountInv'
  BY CountStep DEF AgentInv, CountInv
<1>1. CASE UNCHANGED syncVars
  BY <1>0, <1>1 DEF syncVars, statusRow, AgentInv, OneAtATime
<1>2. ASSUME NEW s \in Slots, ScheduledStart(s) \/ ManualStart(s) PROVE AgentInv'
  <2>1. StartSync(s) /\ CanStart(s)
    BY <1>2 DEF ScheduledStart, ManualStart, StartSync
  <2>2. \A r \in Slots : pc'[r] = IF r = s THEN "started" ELSE "idle"
    BY <1>0, <2>1, StartsAlone DEF StartSync, Goto, SyncTypeOK
  <2>3. status' = "warning" /\ UNCHANGED <<failures, streak>>
    BY <2>1 DEF StartSync
  <2> QED BY <1>0, <2>2, <2>3 DEF AgentInv, OneAtATime
<1>3. ASSUME NEW s \in Slots, RunStep(s) \/ Fault(s) PROVE AgentInv'
  BY <1>0, <1>3, RunKeeps
<1>4. CASE OperatorReset
  <2>1. /\ failures' = 0 /\ streak' = 0 /\ UNCHANGED <<pc, status>>
        /\ \A s \in Slots : pc[s] # "skipping"
    BY <1>4 DEF OperatorReset, Quiet
  <2> QED BY <1>0, <2>1 DEF AgentInv, OneAtATime
<1>5. CASE UpstreamChanges
  BY <1>0, <1>5 DEF UpstreamChanges, statusRow, AgentInv, OneAtATime
<1>6. CASE Tick
  BY <1>0, <1>6 DEF Tick, AgentInv, OneAtATime
<1> QED BY <1>1, <1>2, <1>3, <1>4, <1>5, <1>6 DEF SyncNext

LEMMA AgentInit == SyncInit => AgentInv
BY CountInit DEF SyncInit, AgentInv, OneAtATime, RunIsSound, CounterIsStreak, HealthyMeansReset

\* With one agent, a sync the dashboard shows as healthy has nothing counted against
\* it: no skip is recorded behind another run's success.
THEOREM HealthyIsReset ==
  ASSUME Agents = 1, IsFiniteSet(Slots)
  PROVE  SyncSpec => []HealthyMeansReset
<1>1. AgentInv => HealthyMeansReset
  BY DEF AgentInv
<1>2. AgentInv /\ [SyncNext]_syncVars => AgentInv'
  BY AgentStep
<1> QED BY <1>1, <1>2, AgentInit, PTL DEF SyncSpec

\* With one agent, a run is skipped only after Threshold attempts in a row failed:
\* the skips that are counted as failures never open the breaker by themselves.
THEOREM SkipsAreEarned ==
  ASSUME Agents = 1, IsFiniteSet(Slots)
  PROVE  SyncSpec => SkipOnlyAfterThreshold
<1>1. AgentInv /\ [SyncNext]_syncVars => AgentInv'
  BY AgentStep
<1>2. ASSUME AgentInv, [SyncNext]_syncVars
      PROVE  [\A s \in Slots : pc[s] = "started" /\ pc'[s] = "skipping" => streak >= Threshold]_syncVars
  <2> SUFFICES ASSUME SyncNext, NEW s \in Slots, pc[s] = "started", pc'[s] = "skipping"
               PROVE  streak >= Threshold
    BY <1>2
  <2>1. streak = failures /\ streak' = failures' /\ AgentInv' /\ SyncTypeOK
    BY <1>1, <1>2 DEF AgentInv, CounterIsStreak, CountInv
  <2>2. failures' = Threshold
    BY <2>1 DEF AgentInv, RunIsSound
  <2>3. CheckCircuitBreaker(s)
    <3>1. ASSUME NEW r \in Slots, NEW label \in Labels, Goto(r, label) PROVE r = s /\ label = "skipping"
      BY <2>1, <3>1 DEF Goto, SyncTypeOK
    <3>2. pc' # pc
      OBVIOUS
    <3>3. PICK r \in Slots : ScheduledStart(r) \/ ManualStart(r) \/ RunStep(r) \/ Fault(r)
      BY <3>2 DEF SyncNext, OperatorReset, UpstreamChanges, Tick
    <3>4. ~ScheduledStart(r) /\ ~ManualStart(r)
      BY <3>1 DEF ScheduledStart, ManualStart, StartSync, Labels
    <3>5. ~Fault(r)
      BY <3>1 DEF Fault, CheckFails, SkipUnrecorded, TrackingFails, FallbackFails, Killed, Labels
    <3>6. RunStep(r) => CheckCircuitBreaker(r) /\ r = s
      BY <3>1 DEF RunStep, CheckCircuitBreaker, Work, RecordSkip, CompleteSuccess, CompleteError,
                  FallbackUpdate, Labels
    <3> QED BY <3>3, <3>4, <3>5, <3>6
  <2>4. failures' = failures
    BY <2>3 DEF CheckCircuitBreaker, statusRow
  <2> QED BY <2>1, <2>2, <2>4
<1> QED BY <1>1, <1>2, AgentInit, PTL DEF SyncSpec, SkipOnlyAfterThreshold

=============================================================================
