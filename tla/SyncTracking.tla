---------------------------- MODULE SyncTracking ----------------------------
(***************************************************************************)
(* SyncContext of sync/common.py: how one sync's runs are recorded in      *)
(* system.sync_status and system.sync_history, and its circuit breaker.    *)
(*                                                                         *)
(* A run is a process the pipeline starts every Interval, or an operator   *)
(* by hand; it enters the context, asks the breaker, works for as long as  *)
(* the upstream system takes, and leaves through __exit__.  Each commit is *)
(* a step, and so is the breaker's SELECT, which is acted on later.        *)
(* Time is counted in units of the schedule's resolution; only the work    *)
(* itself takes time, the bookkeeping statements do not.  last_failure_at  *)
(* is kept as its age, up to the Timeout beyond which it does not matter,  *)
(* and consecutive_failures up to the Threshold.                           *)
(***************************************************************************)
EXTENDS Naturals, FiniteSets

CONSTANTS
  Pipeline,      \* run slots of the schedule
  Manual,        \* run slots of operators, who force the sync past the breaker
  Agents,        \* pipeline agents: runs at a time
  Threshold,     \* CIRCUIT_BREAKER_THRESHOLD
  Timeout,       \* CIRCUIT_BREAKER_TIMEOUT_SECONDS, in time units
  Interval,      \* time units between scheduled runs
  MaxFaults      \* bound: tracking updates that fail, and processes killed

Slots == Pipeline \cup Manual

ASSUME SyncAssumption ==
  /\ Pipeline # {} /\ Pipeline \cap Manual = {}
  /\ Threshold \in Nat \ {0} /\ Timeout \in Nat /\ Interval \in Nat \ {0}
  /\ Agents \in Nat \ {0}
  /\ MaxFaults \in Nat

VARIABLES
  status,        \* sync_status.status
  failures,      \* sync_status.consecutive_failures, up to Threshold
  age,           \* time since sync_status.last_failure_at, up to Timeout
  row,           \* sync_history.status of each slot's last run
  pc,            \* where each slot's run stands
  clock,         \* time until the next scheduled run
  waiting,       \* a scheduled run waits for a slot
  upstream,      \* the system the sync reads from is up
  streak,        \* history: runs that attempted the sync and failed since a success
  faults         \* history: failed updates and kills

statusRow   == <<status, failures, age>>
environment == <<clock, waiting, upstream>>
syncVars        == <<statusRow, row, pc, environment, streak, faults>>

Labels == {"idle", "started", "working", "skipping", "succeeded", "failed",
           "fallback", "recovery"}

SyncTypeOK ==
  /\ status   \in {"unknown", "warning", "healthy", "error"}
  /\ failures \in 0..Threshold
  /\ age      \in 0..Timeout
  /\ row      \in [Slots -> {"none", "running", "success", "error", "cancelled"}]
  /\ pc       \in [Slots -> Labels]
  /\ clock    \in 1..Interval
  /\ waiting  \in BOOLEAN
  /\ upstream \in BOOLEAN
  /\ streak   \in 0..Threshold
  /\ faults   \in 0..MaxFaults

\* The seeded sync_status row: no failure yet counts as one longer ago than Timeout.
SyncInit ==
  /\ status   = "unknown"
  /\ failures = 0
  /\ age      = Timeout
  /\ row      = [s \in Slots |-> "none"]
  /\ pc       = [s \in Slots |-> "idle"]
  /\ clock    = Interval
  /\ waiting  = TRUE
  /\ upstream \in BOOLEAN
  /\ streak   = 0
  /\ faults   = 0

UpTo(bound, n) == IF n < bound THEN n ELSE bound

Goto(s, label) == pc' = [pc EXCEPT ![s] = label]
Mark(s, mark)  == row' = [row EXCEPT ![s] = mark]

Faulty == faults < MaxFaults /\ faults' = faults + 1

\* consecutive_failures + 1 and last_failure_at = CURRENT_TIMESTAMP.
CountFailure ==
  /\ failures' = UpTo(Threshold, failures + 1)
  /\ age'      = 0

\* One more attempt that failed.
Attempted == streak' = UpTo(Threshold, streak + 1)

----------------------------------------------------------------------------
(* __enter__ and check_circuit_breaker                                     *)

\* The slot is free, and so is an agent.
CanStart(s) ==
  /\ pc[s] = "idle"
  /\ Cardinality({r \in Slots : pc[r] # "idle"}) < Agents

\* _start_sync: the history row, and status 'warning' while the run lasts.
StartSync(s) ==
  /\ CanStart(s)
  /\ Goto(s, "started")
  /\ Mark(s, "running")
  /\ status' = "warning"
  /\ UNCHANGED <<failures, age, clock, upstream, streak, faults>>

ScheduledStart(s) == s \in Pipeline /\ waiting /\ waiting' = FALSE /\ StartSync(s)
ManualStart(s)    == s \in Manual /\ UNCHANGED waiting /\ StartSync(s)

\* Mutant: the comparison with the timeout is off by one.
BreakerOpen_OffByOne == failures >= Threshold /\ age <= Timeout

\* Mutant: the breaker opens one failure early.
BreakerOpen_Early == failures + 1 >= Threshold /\ age < Timeout

\* Enough failures in a row, the last of them within the timeout.
BreakerOpen == failures >= Threshold /\ age < Timeout

\* A forced run has CIRCUIT_BREAKER_THRESHOLD = 99 in its environment.
CheckCircuitBreaker(s) ==
  /\ pc[s] = "started"
  /\ Goto(s, IF BreakerOpen /\ s \notin Manual THEN "skipping" ELSE "working")
  /\ UNCHANGED <<statusRow, row, environment, streak, faults>>

\* "Fails open on any DB error": the run proceeds whatever the breaker says, but
\* in the aborted transaction, where the next statement of the sync fails.
CheckFails(s) ==
  /\ pc[s] = "started"
  /\ Faulty
  /\ Goto(s, "failed")
  /\ UNCHANGED <<statusRow, row, environment, streak>>

----------------------------------------------------------------------------
(* The sync and __exit__                                                   *)

\* The body of the sync: it fails when the upstream system is down.
Work(s) ==
  /\ pc[s] = "working"
  /\ Goto(s, IF upstream THEN "succeeded" ELSE "failed")
  /\ UNCHANGED <<statusRow, row, environment, streak, faults>>

SkipMark == "cancelled"

\* CircuitBreakerOpenError: 'cancelled' in the history, one more failure in the
\* status row, whose status stays as it is.
RecordSkip(s) ==
  /\ pc[s] = "skipping"
  /\ Goto(s, "idle")
  /\ Mark(s, SkipMark)
  /\ CountFailure
  /\ UNCHANGED <<status, environment, streak, faults>>

\* The skip's own update fails: a warning in the log, nothing in the tables.
SkipUnrecorded(s) ==
  /\ pc[s] = "skipping"
  /\ Faulty
  /\ Goto(s, "idle")
  /\ UNCHANGED <<statusRow, row, environment, streak>>

\* Mutant: success does not reset the counter.
ResetFailures_Forgotten == failures' = failures

ResetFailures == failures' = 0

\* _complete_sync('success')
CompleteSuccess(s) ==
  /\ pc[s] = "succeeded"
  /\ Goto(s, "idle")
  /\ Mark(s, "success")
  /\ status' = "healthy"
  /\ ResetFailures
  /\ streak' = 0
  /\ UNCHANGED <<age, environment, faults>>

\* _complete_sync('error')
CompleteError(s) ==
  /\ pc[s] = "failed"
  /\ Goto(s, "idle")
  /\ Mark(s, "error")
  /\ status' = "error"
  /\ CountFailure
  /\ Attempted
  /\ UNCHANGED <<environment, faults>>

\* _complete_sync raises and is rolled back, whichever way the run ended.
TrackingFails(s) ==
  /\ pc[s] \in {"succeeded", "failed"}
  /\ Faulty
  /\ Goto(s, "fallback")
  /\ UNCHANGED <<statusRow, row, environment, streak>>

\* Mutant: the fallback marks the error and does not count it.
FallbackCount_StatusOnly == UNCHANGED <<failures, age>>

FallbackCount == CountFailure

\* The fallback update on the same connection, or the recovery update on a new
\* one: the status row only, the history row stays 'running'.
FallbackUpdate(s) ==
  /\ pc[s] \in {"fallback", "recovery"}
  /\ Goto(s, "idle")
  /\ status' = "error"
  /\ FallbackCount
  /\ Attempted
  /\ UNCHANGED <<row, environment, faults>>

\* The fallback fails too; after the recovery, "MANUAL INTERVENTION REQUIRED".
FallbackFails(s) ==
  /\ pc[s] \in {"fallback", "recovery"}
  /\ Faulty
  /\ Goto(s, IF pc[s] = "fallback" THEN "recovery" ELSE "idle")
  /\ UNCHANGED <<statusRow, row, environment, streak>>

\* The process is killed; its open transaction is lost, its commits are not.
Killed(s) ==
  /\ pc[s] # "idle"
  /\ Faulty
  /\ Goto(s, "idle")
  /\ UNCHANGED <<statusRow, row, environment, streak>>

----------------------------------------------------------------------------
(* Operators, the upstream system and time                                 *)

\* Between two runs, or during a run's work: the bookkeeping takes no time.
Quiet == \A s \in Slots : pc[s] \in {"idle", "working"}

\* The runbook's reset: UPDATE system.sync_status SET consecutive_failures = 0.
OperatorReset ==
  /\ Quiet
  /\ failures > 0
  /\ failures' = 0
  /\ streak' = 0
  /\ UNCHANGED <<status, age, row, pc, environment, faults>>

UpstreamChanges ==
  /\ upstream' = ~upstream
  /\ UNCHANGED <<statusRow, row, pc, clock, waiting, streak, faults>>

\* A unit of time passes; a scheduled run that finds no agent free waits for one.
Tick ==
  /\ Quiet
  /\ waiting => \A s \in Pipeline : ~CanStart(s)
  /\ clock'   = IF clock = 1 THEN Interval ELSE clock - 1
  /\ waiting' = (waiting \/ clock = 1)
  /\ age'     = UpTo(Timeout, age + 1)
  /\ UNCHANGED <<status, failures, row, pc, upstream, streak, faults>>

RunStep(s) ==
  \/ CheckCircuitBreaker(s)
  \/ Work(s)
  \/ RecordSkip(s)
  \/ CompleteSuccess(s)
  \/ CompleteError(s)
  \/ FallbackUpdate(s)

Fault(s) ==
  \/ CheckFails(s)
  \/ SkipUnrecorded(s)
  \/ TrackingFails(s)
  \/ FallbackFails(s)
  \/ Killed(s)

SyncNext ==
  \/ \E s \in Slots : ScheduledStart(s) \/ ManualStart(s) \/ RunStep(s) \/ Fault(s)
  \/ OperatorReset
  \/ UpstreamChanges
  \/ Tick

SyncSpec == SyncInit /\ [][SyncNext]_syncVars

\* Time passes, the schedule starts its runs, and a run that is not killed goes on.
SyncFairSpec ==
  /\ SyncSpec
  /\ WF_syncVars(Tick)
  /\ \A s \in Pipeline : WF_syncVars(ScheduledStart(s))
  /\ \A s \in Slots : WF_syncVars(RunStep(s))

----------------------------------------------------------------------------
(* Properties                                                              *)

\* CIRCUIT_BREAKER_THRESHOLD: "Number of consecutive failures to open the
\* circuit".  A run is skipped only after that many attempts failed in a row.
SkipOnlyAfterThreshold ==
  [][\A s \in Slots :
       pc[s] = "started" /\ pc'[s] = "skipping" => streak >= Threshold]_syncVars

\* A sync shown healthy has no failure counted against it: the dashboard and the
\* breaker agree.
HealthyMeansReset == status = "healthy" => failures = 0

\* Every attempt that failed and got as far as its tracking counts, through the
\* fallback and the recovery update too: the breaker opens at the threshold.
EveryAttemptCounts == streak <= failures

\* Once the upstream system is back for good, the sync succeeds again without
\* anybody's help ("will retry after").
Recovers == <>[]upstream => []<>(status = "healthy" /\ failures = 0)

=============================================================================
