--------------------------- MODULE ExclusionAlerts ---------------------------
(***************************************************************************)
(* Patch exclusions: PatchExclusionService holds servers out of the patch    *)
(* cycle until a date, and the daily job alert_patch_exclusion_expiry.py     *)
(* tells Teams about holds that have run out, at most once a week each.      *)
(* The job reads in one statement, posts, and records in a second            *)
(* transaction; operators exclude, extend and release in between.            *)
(***************************************************************************)
EXTENDS Naturals, FiniteSets

CONSTANTS
  Servers,        \* active rows of shared.servers
  ExclusionRuns,  \* runs of the alert job that may overlap
  MaxExclusions,  \* bound: exclusions a server has over time
  ExclusionFaults \* bound: posts and runs lost

ASSUME ExclusionAssumption ==
  /\ IsFiniteSet(ExclusionRuns)
  /\ MaxExclusions \in Nat /\ ExclusionFaults \in Nat

\* held_until is today, which the job already counts as run out, or later.
Until == {"due", "held"}

\* exclusion_id: the n-th exclusion of a server.
Ids == Servers \X (1..MaxExclusions)

VARIABLES
  hold,            \* the active exclusion of a server: "none", "held" or "due"
  count,           \* exclusions a server has had; the last is the active one
  alerted,         \* per exclusion_id: "never", "recently" (7 days) or "before"
  exclusionStage,  \* where each run of the job stands
  expired,         \* the exclusion_ids a run read
  told,            \* history: servers whose present hold has been announced since it ran out
  weekCards,       \* history: cards about a server's exclusion in its present week
  exclusionFaults  \* history: posts and runs lost

exclusionJob  == <<exclusionStage, expired>>
exclusionVars == <<hold, count, alerted, exclusionJob, told, weekCards, exclusionFaults>>

ExclusionTypeOK ==
  /\ hold            \in [Servers -> {"none", "held", "due"}]
  /\ count           \in [Servers -> 0..MaxExclusions]
  /\ \A s \in Servers : count[s] = 0 => hold[s] = "none"
  /\ alerted         \in [Ids -> {"never", "recently", "before"}]
  /\ exclusionStage  \in [ExclusionRuns -> {"idle", "posting", "posted"}]
  /\ expired         \in [ExclusionRuns -> SUBSET Ids]
  /\ \A r \in ExclusionRuns : exclusionStage[r] = "idle" <=> expired[r] = {}
  /\ told            \in SUBSET Servers
  /\ weekCards       \in [Servers -> Nat]
  /\ exclusionFaults \in 0..ExclusionFaults

ExclusionInit ==
  /\ hold            = [s \in Servers |-> "none"]
  /\ count           = [s \in Servers |-> 0]
  /\ alerted         = [i \in Ids |-> "never"]
  /\ exclusionStage  = [r \in ExclusionRuns |-> "idle"]
  /\ expired         = [r \in ExclusionRuns |-> {}]
  /\ told            = {}
  /\ weekCards       = [s \in Servers |-> 0]
  /\ exclusionFaults = 0

Active(s) == <<s, count[s]>>

----------------------------------------------------------------------------
(* PatchExclusionService                                                   *)

\* ExcludeServersAsync and BulkExcludeAsync: one statement for all the servers;
\* one that is already excluded keeps its exclusion_id and gets the new date.
Exclude(ss, until) ==
  LET new == {s \in ss : hold[s] = "none"} IN
  /\ ss # {}
  /\ \A s \in new : count[s] < MaxExclusions
  /\ hold'      = [s \in Servers |-> IF s \in ss THEN until ELSE hold[s]]
  /\ count'     = [s \in Servers |-> IF s \in new THEN count[s] + 1 ELSE count[s]]
  /\ told'      = told \ ss
  /\ weekCards' = [s \in Servers |-> IF s \in new THEN 0 ELSE weekCards[s]]
  /\ UNCHANGED <<alerted, exclusionJob, exclusionFaults>>

\* ExtendExclusionAsync and UpdateExclusionAsync with a date: active rows only.
Extend(s, until) ==
  /\ hold[s] # "none"
  /\ hold' = [hold EXCEPT ![s] = until]
  /\ told' = told \ {s}
  /\ UNCHANGED <<count, alerted, exclusionJob, weekCards, exclusionFaults>>

\* RemoveExclusionAsync: a soft delete; the next exclusion has a new id.
Remove(s) ==
  /\ hold[s] # "none"
  /\ hold' = [hold EXCEPT ![s] = "none"]
  /\ told' = told \ {s}
  /\ UNCHANGED <<count, alerted, exclusionJob, weekCards, exclusionFaults>>

\* The day held_until names has come.
HoldRunsOut(s) ==
  /\ hold[s] = "held"
  /\ hold' = [hold EXCEPT ![s] = "due"]
  /\ UNCHANGED <<count, alerted, exclusionJob, told, weekCards, exclusionFaults>>

\* Seven days have passed since the notification of an exclusion.
WeekPasses(i) ==
  /\ alerted[i] = "recently"
  /\ alerted'   = [alerted EXCEPT ![i] = "before"]
  /\ weekCards' = [s \in Servers |-> IF i = Active(s) THEN 0 ELSE weekCards[s]]
  /\ UNCHANGED <<hold, count, exclusionJob, told, exclusionFaults>>

----------------------------------------------------------------------------
(* alert_patch_exclusion_expiry.py                                         *)

\* Mutant: the subquery lacks its seven-day window.
Suppressed_ForEver(i) == alerted[i] # "never"

\* Mutant: nothing is suppressed.
Suppressed_Never(i) == FALSE

\* exclusion_id NOT IN (notified within 7 days)
Suppressed(i) == alerted[i] = "recently"

\* Mutant: the run does not return when the query finds nothing.
ReadExpired_Always(r) ==
  /\ exclusionStage[r] = "idle"
  /\ exclusionStage' = [exclusionStage EXCEPT ![r] = "posting"]
  /\ expired' = [expired EXCEPT ![r] =
                   {i \in {Active(s) : s \in {t \in Servers : hold[t] = "due"}} : ~Suppressed(i)}]
  /\ UNCHANGED <<hold, count, alerted, told, weekCards, exclusionFaults>>

\* EXPIRED_EXCLUSIONS_QUERY; the run ends when it finds nothing.
ReadExpired(r) ==
  LET due == {i \in {Active(s) : s \in {t \in Servers : hold[t] = "due"}} : ~Suppressed(i)} IN
  /\ exclusionStage[r] = "idle"
  /\ due # {}
  /\ exclusionStage' = [exclusionStage EXCEPT ![r] = "posting"]
  /\ expired'        = [expired EXCEPT ![r] = due]
  /\ UNCHANGED <<hold, count, alerted, told, weekCards, exclusionFaults>>

CardArrives(r) ==
  LET about == {s \in Servers : Active(s) \in expired[r]} IN
  /\ told'      = told \cup {s \in about : hold[s] = "due"}
  /\ weekCards' = [s \in Servers |-> IF s \in about THEN weekCards[s] + 1 ELSE weekCards[s]]

PostExpired(r) ==
  /\ exclusionStage[r] = "posting"
  /\ exclusionStage' = [exclusionStage EXCEPT ![r] = "posted"]
  /\ CardArrives(r)
  /\ UNCHANGED <<hold, count, alerted, expired, exclusionFaults>>

EndExclusionRun(r) ==
  /\ exclusionStage' = [exclusionStage EXCEPT ![r] = "idle"]
  /\ expired'        = [expired EXCEPT ![r] = {}]

\* An attempt is lost, its card delivered or not: http_request tries again, or
\* raises and nothing is recorded.
PostExpiredFails(r) ==
  /\ exclusionStage[r] = "posting"
  /\ exclusionFaults < ExclusionFaults
  /\ exclusionFaults' = exclusionFaults + 1
  /\ CardArrives(r) \/ UNCHANGED <<told, weekCards>>
  /\ EndExclusionRun(r) \/ UNCHANGED exclusionJob
  /\ UNCHANGED <<hold, count, alerted>>

\* record_alerts, for every id that was read, released or extended since or not.
RecordExpired(r) ==
  /\ exclusionStage[r] = "posted"
  /\ alerted' = [i \in Ids |-> IF i \in expired[r] THEN "recently" ELSE alerted[i]]
  /\ EndExclusionRun(r)
  /\ UNCHANGED <<hold, count, told, weekCards, exclusionFaults>>

\* The agent is lost between the post and the record, or before.
ExclusionRunDies(r) ==
  /\ exclusionStage[r] # "idle"
  /\ exclusionFaults < ExclusionFaults
  /\ exclusionFaults' = exclusionFaults + 1
  /\ EndExclusionRun(r)
  /\ UNCHANGED <<hold, count, alerted, told, weekCards>>

ExclusionRunStep(r) == ReadExpired(r) \/ PostExpired(r) \/ RecordExpired(r)

ExclusionNext ==
  \/ \E ss \in SUBSET Servers, until \in Until : Exclude(ss, until)
  \/ \E s \in Servers, until \in Until : Extend(s, until)
  \/ \E s \in Servers : Remove(s) \/ HoldRunsOut(s)
  \/ \E i \in Ids : WeekPasses(i)
  \/ \E r \in ExclusionRuns : ExclusionRunStep(r) \/ PostExpiredFails(r) \/ ExclusionRunDies(r)

\* The daily schedule keeps starting the job, a started run keeps going, and
\* weeks pass.
ExclusionFairness ==
  /\ \A r \in ExclusionRuns : WF_exclusionVars(ExclusionRunStep(r))
  /\ \A i \in Ids : WF_exclusionVars(WeekPasses(i))

ExclusionSpec == ExclusionInit /\ [][ExclusionNext]_exclusionVars /\ ExclusionFairness

----------------------------------------------------------------------------
(* Properties                                                              *)

\* A hold that has run out and is not released is announced under the date it
\* has, also when an earlier date was announced within the week, when it is
\* extended over and over, and when posts and runs are lost.
ExpiredHoldIsAnnounced ==
  \A s \in Servers : <>[](hold[s] = "due") => []<>(s \in told)

\* "Uses patching.exclusion_alerts to ... prevent duplicates": in a week an
\* exclusion is announced once per run that overlaps and once more per post or
\* run that was lost.
AnnouncedOncePerWeek ==
  \A s \in Servers : weekCards[s] <= Cardinality(ExclusionRuns) + exclusionFaults

----------------------------------------------------------------------------
(* The inductive invariant: what the runs know of the notifications.       *)

RecentlyAlerted(s) == Active(s) \in Ids /\ Suppressed(Active(s))

\* The runs that will still announce the present exclusion of a server, and those
\* that have and not recorded it.
AboutToAnnounce(s) == {r \in ExclusionRuns : exclusionStage[r] = "posting" /\ Active(s) \in expired[r]}
HaveAnnounced(s)   == {r \in ExclusionRuns : exclusionStage[r] = "posted" /\ Active(s) \in expired[r]}

\* Until the notification is on record every card was sent by a run that stands
\* before its record, or cost a fault; once it is, only the runs that had read the
\* exclusion announce it again within the week.
CardsSound ==
  \A s \in Servers :
    IF RecentlyAlerted(s)
    THEN weekCards[s] + Cardinality(AboutToAnnounce(s)) <= Cardinality(ExclusionRuns) + exclusionFaults
    ELSE weekCards[s] <= Cardinality(HaveAnnounced(s)) + exclusionFaults

ExclusionIInv == ExclusionTypeOK /\ CardsSound

=============================================================================
