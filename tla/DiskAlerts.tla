----------------------------- MODULE DiskAlerts -----------------------------
(***************************************************************************)
(* Disk paging: the hourly SolarWinds sync writes monitoring.disk_snapshots *)
(* and refreshes the materialized view disk_current; the alert job           *)
(* (alert_disk_breaches.py, three times a working day, or by hand) reads     *)
(* the view and monitoring.alerts, posts one Teams card and records it.      *)
(* Each statement commits by itself or with the one named; the card is       *)
(* posted between the reads and the two recording commits.                   *)
(***************************************************************************)
EXTENDS Naturals, FiniteSets

CONSTANTS
  Disks,         \* (server_name, disk_label) pairs
  DiskRuns,      \* runs of the alert job that may overlap
  Scopes,        \* what the tags of a snapshot can be, as far as the queries look
  Retries,       \* attempts of http_request on the webhook
  MaxWindows,    \* bound: cooldown windows that pass
  DiskFaults     \* bound: lost posts and lost runs

AllScopes == {"paged", "other_env", "other_bu"}

ASSUME DiskAssumption ==
  /\ Scopes \subseteq AllScopes
  /\ Retries \in Nat \ {0}
  /\ IsFiniteSet(DiskRuns)
  /\ MaxWindows \in Nat /\ DiskFaults \in Nat

\* alert_status is 3 ("critical") or less ("below"); None is no snapshot.
Snapshots == [level : {"critical", "below"}, scope : Scopes]
Absent    == [level |-> "absent", scope |-> "absent"]

VARIABLES
  current,       \* monitoring.disk_current: the newest snapshot at the last refresh
  open,          \* rows of monitoring.alerts that are sent and not resolved
  diskStage,     \* where each run of the job stands
  breaches,      \* disks a run read as breaching
  attempts,      \* posts a run has tried
  pages,         \* history: critical cards about a disk in its present window
  windows,       \* history: cooldown windows passed
  diskFaults     \* history: posts and runs lost

diskJob  == <<diskStage, breaches, attempts>>
diskVars == <<current, open, diskJob, pages, windows, diskFaults>>

\* "fresh": sent within the cooldown.  "readBy": the runs that hold the row's
\* alert_id as recovered.  "calm": history, the view has shown the disk below
\* critical since the row was written.  Rows of a disk that agree on all of
\* this are one, since every query only asks whether there is one.
OpenRows == [disk : Disks, fresh : BOOLEAN, readBy : SUBSET DiskRuns, calm : BOOLEAN]

DiskTypeOK ==
  /\ current     \in [Disks -> Snapshots \cup {Absent}]
  /\ open        \in SUBSET OpenRows
  /\ diskStage   \in [DiskRuns -> {"idle", "read", "posting", "posted", "recorded"}]
  /\ breaches    \in [DiskRuns -> SUBSET Disks]
  /\ attempts    \in [DiskRuns -> 0..(Retries - 1)]
  /\ pages       \in [Disks -> Nat]
  /\ windows     \in 0..MaxWindows
  /\ diskFaults  \in 0..DiskFaults

DiskInit ==
  /\ current     = [d \in Disks |-> Absent]
  /\ open        = {}
  /\ diskStage   = [r \in DiskRuns |-> "idle"]
  /\ breaches    = [r \in DiskRuns |-> {}]
  /\ attempts    = [r \in DiskRuns |-> 0]
  /\ pages       = [d \in Disks |-> 0]
  /\ windows     = 0
  /\ diskFaults  = 0

----------------------------------------------------------------------------
(* sync_solarwinds_disks.py and the maintenance job                        *)

\* The view shows a disk as the snapshot s.
Shows(d, s) ==
  /\ current' = [current EXCEPT ![d] = s]
  /\ open' = {IF a.disk = d /\ s.level = "below" THEN [a EXCEPT !.calm = TRUE] ELSE a : a \in open}
  /\ UNCHANGED <<diskJob, pages, windows, diskFaults>>

\* insert_snapshots and refresh_disk_current, as far as one disk goes.  A disk
\* SolarWinds no longer reports, or transform_row rejects, keeps the snapshot it
\* has; so does every disk when the refresh fails, which is only logged.
SyncDisk(d, s) == s # current[d] /\ Shows(d, s)

\* cleanup_disk_snapshots and the next refresh: a disk that has not been reported
\* within the retention, which is far longer than the cooldown, is gone.
CleanupDiskSnapshots(d) ==
  /\ current[d] # Absent
  /\ \A a \in open : ~a.fresh
  /\ Shows(d, Absent)

\* The cooldown of every row of a disk has passed.
CooldownPasses(d) ==
  /\ windows < MaxWindows
  /\ \E a \in open : a.disk = d /\ a.fresh
  /\ windows' = windows + 1
  /\ open'    = {IF a.disk = d THEN [a EXCEPT !.fresh = FALSE] ELSE a : a \in open}
  /\ pages'   = [pages EXCEPT ![d] = 0]
  /\ UNCHANGED <<current, diskJob, diskFaults>>

----------------------------------------------------------------------------
(* alert_disk_breaches.py                                                  *)

\* Mutant: the cooldown is not limited to unresolved, recent alerts of the disk.
Breaching_NoCooldown(d) == current[d].level = "critical" /\ current[d].scope = "paged"

\* BREACH_QUERY
Breaching(d) ==
  /\ current[d].level = "critical" /\ current[d].scope = "paged"
  /\ ~\E a \in open : a.disk = d /\ a.fresh

\* Mutant: resolutions are scoped by environment like the breaches.
Recovered_InEnvironment(a) ==
  current[a.disk].level = "below" /\ current[a.disk].scope = "paged"

\* Mutant: a disk at its critical threshold counts as recovered (<= for <).
Recovered_AtCritical(a) ==
  current[a.disk].level \in {"below", "critical"} /\ current[a.disk].scope # "other_bu"

\* RESOLUTION_QUERY: scoped by business unit, not by environment.
Recovered(a) ==
  current[a.disk].level = "below" /\ current[a.disk].scope # "other_bu"

ReadBreaches(r) ==
  /\ diskStage[r] = "idle"
  /\ diskStage' = [diskStage EXCEPT ![r] = "read"]
  /\ breaches'  = [breaches EXCEPT ![r] = {d \in Disks : Breaching(d)}]
  /\ UNCHANGED <<current, open, attempts, pages, windows, diskFaults>>

\* The second query, a statement later; the run ends when both found nothing.
ReadResolutions(r) ==
  LET recovered == {a \in open : Recovered(a)} IN
  /\ diskStage[r] = "read"
  /\ diskStage' = [diskStage EXCEPT ![r] =
                       IF breaches[r] = {} /\ recovered = {} THEN "idle" ELSE "posting"]
  /\ open' = (open \ recovered) \cup {[a EXCEPT !.readBy = @ \cup {r}] : a \in recovered}
  /\ UNCHANGED <<current, breaches, attempts, pages, windows, diskFaults>>

\* A run's lists go with its process.
Unread(r, rows) == {[a EXCEPT !.readBy = @ \ {r}] : a \in rows}

\* The process ends: normally, by an exception, or with its agent.
EndRun(r) ==
  /\ diskStage' = [diskStage EXCEPT ![r] = "idle"]
  /\ breaches'  = [breaches EXCEPT ![r] = {}]
  /\ attempts'  = [attempts EXCEPT ![r] = 0]

CardAbout(ds) == pages' = [d \in Disks |-> pages[d] + (IF d \in ds THEN 1 ELSE 0)]

\* http_request: an attempt is answered.
Post(r) ==
  /\ diskStage[r] = "posting"
  /\ diskStage' = [diskStage EXCEPT ![r] = "posted"]
  /\ CardAbout(breaches[r])
  /\ UNCHANGED <<current, open, breaches, attempts, windows, diskFaults>>

\* http_request: an attempt times out, its card delivered or not; after the
\* last one the exception ends the run and nothing is recorded.
PostTimesOut(r) ==
  /\ diskStage[r] = "posting"
  /\ diskFaults < DiskFaults
  /\ diskFaults' = diskFaults + 1
  /\ CardAbout(breaches[r]) \/ UNCHANGED pages
  /\ IF attempts[r] + 1 = Retries
     THEN EndRun(r) /\ open' = Unread(r, open)
     ELSE /\ attempts' = [attempts EXCEPT ![r] = @ + 1]
          /\ UNCHANGED <<diskStage, breaches, open>>
  /\ UNCHANGED <<current, windows>>

\* record_breach_alerts, one commit for all the disks of the card.
RecordBreachAlerts(r) ==
  /\ diskStage[r] = "posted"
  /\ open' = open \cup {[disk |-> d, fresh |-> TRUE, readBy |-> {},
                         calm |-> current[d].level = "below"] : d \in breaches[r]}
  /\ diskStage' = [diskStage EXCEPT ![r] = "recorded"]
  /\ UNCHANGED <<current, breaches, attempts, pages, windows, diskFaults>>

\* Mutant: the UPDATE names the disks of the card instead of its alert_ids.
Resolves_ByDisk(r, a) == \E b \in open : r \in b.readBy /\ b.disk = a.disk

\* WHERE alert_id = ANY(...)
Resolves(r, a) == r \in a.readBy

\* record_resolutions, a second commit, and the end of the run.
RecordResolutions(r) ==
  LET closed == {a \in open : Resolves(r, a)} IN
  /\ diskStage[r] = "recorded"
  /\ open'  = Unread(r, open \ closed)
  /\ pages' = [d \in Disks |-> IF \E a \in closed : a.disk = d THEN 0 ELSE pages[d]]
  /\ EndRun(r)
  /\ UNCHANGED <<current, windows, diskFaults>>

\* The agent or its connection is lost; what was committed and posted stays.
RunDies(r) ==
  /\ diskStage[r] # "idle"
  /\ diskFaults < DiskFaults
  /\ diskFaults' = diskFaults + 1
  /\ EndRun(r)
  /\ open' = Unread(r, open)
  /\ UNCHANGED <<current, pages, windows>>

DiskRunStep(r) ==
  \/ ReadBreaches(r) \/ ReadResolutions(r) \/ Post(r)
  \/ RecordBreachAlerts(r) \/ RecordResolutions(r)

DiskNext ==
  \/ \E d \in Disks, s \in Snapshots : SyncDisk(d, s)
  \/ \E d \in Disks : CleanupDiskSnapshots(d) \/ CooldownPasses(d)
  \/ \E r \in DiskRuns : DiskRunStep(r) \/ PostTimesOut(r) \/ RunDies(r)

\* The cron schedule keeps starting the job and a started run keeps going;
\* nothing is assumed of SolarWinds, the refresh or the passing of cooldowns.
DiskFairness == \A r \in DiskRuns : WF_diskVars(DiskRunStep(r))

DiskSpec == DiskInit /\ [][DiskNext]_diskVars /\ DiskFairness

----------------------------------------------------------------------------
(* Properties                                                              *)

\* "avoiding duplicate alerts for a disk that stays critical": within a cooldown
\* window the channel sees a disk's page once, plus at most one more for each
\* run that overlaps and one for each post or run that was lost.
PagedOncePerWindow ==
  \A d \in Disks : pages[d] <= Cardinality(DiskRuns) + diskFaults

\* A page is marked resolved only if the disk has been seen below critical
\* since it was recorded: a run never closes a page it did not read as
\* recovered (RESOLUTION_QUERY, record_resolutions by alert_id).
ResolvedAfterRecovery ==
  [][\A a \in open : ~a.calm =>
        \/ current'[a.disk].level = "below"
        \/ \E b \in open' : b.disk = a.disk /\ ~b.calm]_diskVars

\* A disk that stays critical ends with an open page on record, whatever
\* overlaps, crashes and stale resolutions came before (BREACH_QUERY).
CriticalIsPaged ==
  \A d \in Disks :
    <>[](current[d].level = "critical" /\ current[d].scope = "paged")
      => <>[](\E a \in open : a.disk = d)

\* "an open row always clears once its disk recovers, even if the disk's
\* environment tag changed": a disk that stays below critical ends with no open
\* row.  Holds while the business unit of a disk does not change.
RecoveredIsCleared ==
  \A d \in Disks :
    <>[](current[d].level = "below") => <>[](\A a \in open : a.disk # d)

----------------------------------------------------------------------------
(* The inductive invariants: what the rows and the runs know of each other. *)

\* A row of a disk the view shows below critical, or that a run has read as
\* recovered, has seen its disk recover.
RowsSound ==
  \A a \in open : current[a.disk].level = "below" \/ a.readBy # {} => a.calm

CoolingDown(d) == \E a \in open : a.disk = d /\ a.fresh

\* The runs that will still page the disk, and those that have and not recorded it.
AboutToPage(d) == {r \in DiskRuns : diskStage[r] \in {"read", "posting"} /\ d \in breaches[r]}
HavePaged(d)   == {r \in DiskRuns : diskStage[r] = "posted" /\ d \in breaches[r]}

\* Until a page is on record every page was sent by a run that stands before its
\* record, or cost a fault; once it is, only the runs that had read the disk as
\* breaching page it again.
PagesSound ==
  \A d \in Disks :
    IF CoolingDown(d)
    THEN pages[d] + Cardinality(AboutToPage(d)) <= Cardinality(DiskRuns) + diskFaults
    ELSE pages[d] <= Cardinality(HavePaged(d)) + diskFaults

DiskIInv == DiskTypeOK /\ RowsSound /\ PagesSound

=============================================================================
