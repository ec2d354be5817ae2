---------------------------- MODULE LicenceAlerts ----------------------------
(***************************************************************************)
(* Licence renewal tracking: LicensingService keeps licensing.licences,      *)
(* licensing.renewals and licensing.alerts; the daily job                    *)
(* (alert_licence_expiry.py) reads licences and alerts in two statements,    *)
(* posts a Teams card and records per (licence, threshold) whether it was    *)
(* sent.  An administrator may create, patch, renew or delete a licence      *)
(* between any two of those steps.  Dates are kept as the threshold they     *)
(* have crossed on the present day.                                          *)
(***************************************************************************)
EXTENDS Naturals, FiniteSets

CONSTANTS
  Licences,      \* licence_ids
  Expired,       \* the number of thresholds; the last one is "expired"
  LicenceRuns,   \* runs of the alert job that may overlap
  Renewers,      \* concurrent POST .../renew requests
  MaxRenewals,   \* bound: renewals of a licence
  LicenceFaults, \* bound: posts, runs and requests lost
  NoLicence      \* NULL

ASSUME LicenceAssumption ==
  /\ Expired \in Nat \ {0}
  /\ IsFiniteSet(LicenceRuns)
  /\ MaxRenewals \in Nat /\ LicenceFaults \in Nat
  /\ NoLicence \notin Licences

\* threshold_for: 0 is none, then the notices (six_mo, three_mo, thirty_d), then expired.
Crossed    == 0..Expired
Thresholds == 1..Expired

VARIABLES
  licence,       \* "none", "active" or "deleted" (is_active = FALSE)
  crossed,       \* the threshold expires_at has crossed today
  alerts,        \* licensing.alerts: "none", "failed" or "sent" per threshold
  licenceStage,  \* where each run of the job stands
  listed,        \* licences a run selected, with the threshold it read
  renewing,      \* the licence each renew request has read, or NoLicence
  cycle,         \* history: renewals of each licence committed so far
  cards,         \* history: cards delivered in the present cycle
  readCycle,     \* history: the cycle a run's selection is about
  overtaken,     \* history: alert rows marked sent by a run a renewal overtook
  licenceFaults  \* history: posts, runs and requests lost

job         == <<licenceStage, listed, readCycle>>
licenceVars == <<licence, crossed, alerts, job, renewing, cycle, cards, overtaken, licenceFaults>>

LicenceTypeOK ==
  /\ licence       \in [Licences -> {"none", "active", "deleted"}]
  /\ crossed       \in [Licences -> Crossed]
  /\ alerts        \in [Licences -> [Thresholds -> {"none", "failed", "sent"}]]
  /\ licenceStage  \in [LicenceRuns -> {"idle", "selected", "posting", "sent", "failed"}]
  /\ listed        \in [LicenceRuns -> [Licences -> Crossed]]
  /\ renewing      \in [Renewers -> Licences \cup {NoLicence}]
  /\ cycle         \in [Licences -> 0..MaxRenewals]
  /\ cards         \in [Licences -> [Thresholds -> Nat]]
  /\ readCycle     \in [LicenceRuns -> [Licences -> 0..MaxRenewals]]
  /\ overtaken     \in SUBSET (Licences \X Thresholds)
  /\ licenceFaults \in 0..LicenceFaults

NoCards   == [t \in Thresholds |-> 0]
NoAlerts  == [t \in Thresholds |-> "none"]
NoneListed == [l \in Licences |-> 0]

LicenceInit ==
  /\ licence       = [l \in Licences |-> "none"]
  /\ crossed       = [l \in Licences |-> 0]
  /\ alerts        = [l \in Licences |-> NoAlerts]
  /\ licenceStage  = [r \in LicenceRuns |-> "idle"]
  /\ listed        = [r \in LicenceRuns |-> NoneListed]
  /\ renewing      = [q \in Renewers |-> NoLicence]
  /\ cycle         = [l \in Licences |-> 0]
  /\ cards         = [l \in Licences |-> NoCards]
  /\ readCycle     = [r \in LicenceRuns |-> NoneListed]
  /\ overtaken     = {}
  /\ licenceFaults = 0

----------------------------------------------------------------------------
(* LicensingService                                                        *)

\* CreateAsync: any expiry is accepted, also one in the past.
Create(l, t) ==
  /\ licence[l] = "none"
  /\ licence' = [licence EXCEPT ![l] = "active"]
  /\ crossed' = [crossed EXCEPT ![l] = t]
  /\ UNCHANGED <<alerts, job, renewing, cycle, cards, overtaken, licenceFaults>>

\* PatchAsync of expires_at: the alert rows are left as they are.
Patch(l, t) ==
  /\ licence[l] = "active"
  /\ crossed' = [crossed EXCEPT ![l] = t]
  /\ UNCHANGED <<licence, alerts, job, renewing, cycle, cards, overtaken, licenceFaults>>

\* DeleteAsync is a soft delete.
Delete(l) ==
  /\ licence[l] = "active"
  /\ licence' = [licence EXCEPT ![l] = "deleted"]
  /\ UNCHANGED <<crossed, alerts, job, renewing, cycle, cards, overtaken, licenceFaults>>

\* RenewAsync, LoadDetailAsync: an active licence or 404.
RenewRead(q, l) ==
  /\ renewing[q] = NoLicence
  /\ licence[l] = "active"
  /\ renewing' = [renewing EXCEPT ![q] = l]
  /\ UNCHANGED <<licence, crossed, alerts, job, cycle, cards, overtaken, licenceFaults>>

\* Mutant: the renewal leaves the alert rows of the cycle that ended.
ClearedAlerts_Kept(l) == alerts[l]

\* DELETE FROM licensing.alerts WHERE licence_id = @Id
ClearedAlerts(l) == NoAlerts

\* RenewAsync: the renewal row, the UPDATE, which does not look at is_active
\* again, and the DELETE of the alert rows commit together.  new_expires is
\* today or later, so no renewed licence is expired.
RenewCommit(q, t) ==
  LET l == renewing[q] IN
  /\ l # NoLicence
  /\ cycle[l] < MaxRenewals
  /\ t # Expired
  /\ crossed'    = [crossed EXCEPT ![l] = t]
  /\ alerts'     = [alerts EXCEPT ![l] = ClearedAlerts(l)]
  /\ cycle'      = [cycle EXCEPT ![l] = @ + 1]
  /\ cards'      = [cards EXCEPT ![l] = NoCards]
  /\ overtaken'  = {o \in overtaken : o[1] # l}
  /\ renewing'   = [renewing EXCEPT ![q] = NoLicence]
  /\ UNCHANGED <<licence, job, licenceFaults>>

\* The request's transaction is rolled back.
RenewFails(q) ==
  /\ renewing[q] # NoLicence
  /\ licenceFaults < LicenceFaults
  /\ licenceFaults' = licenceFaults + 1
  /\ renewing'      = [renewing EXCEPT ![q] = NoLicence]
  /\ UNCHANGED <<licence, crossed, alerts, job, cycle, cards, overtaken>>

\* Days pass until the next threshold is crossed.
TimePasses(l) ==
  /\ licence[l] = "active"
  /\ crossed[l] < Expired
  /\ crossed' = [crossed EXCEPT ![l] = @ + 1]
  /\ UNCHANGED <<licence, alerts, job, renewing, cycle, cards, overtaken, licenceFaults>>

----------------------------------------------------------------------------
(* alert_licence_expiry.py                                                 *)

\* LICENCE_QUERY and threshold_for.
SelectLicences(r) ==
  /\ licenceStage[r] = "idle"
  /\ licenceStage' = [licenceStage EXCEPT ![r] = "selected"]
  /\ listed'    = [listed EXCEPT ![r] =
                     [l \in Licences |-> IF licence[l] = "active" THEN crossed[l] ELSE 0]]
  /\ readCycle' = [readCycle EXCEPT ![r] = cycle]
  /\ UNCHANGED <<licence, crossed, alerts, renewing, cycle, cards, overtaken, licenceFaults>>

\* WHERE notification_sent = TRUE, per (licence, threshold).
AlreadySent(l, t) == t # 0 /\ alerts[l][t] = "sent"

\* The second query drops what has fired; the run ends when nothing is left.
DropAlreadySent(r) ==
  LET pending == [l \in Licences |-> IF AlreadySent(l, listed[r][l]) THEN 0 ELSE listed[r][l]] IN
  /\ licenceStage[r] = "selected"
  /\ listed'       = [listed EXCEPT ![r] = pending]
  /\ licenceStage' = [licenceStage EXCEPT ![r] = IF pending = NoneListed THEN "idle" ELSE "posting"]
  /\ readCycle'    = [readCycle EXCEPT ![r] = IF pending = NoneListed THEN NoneListed ELSE @]
  /\ UNCHANGED <<licence, crossed, alerts, renewing, cycle, cards, overtaken, licenceFaults>>

\* The card arrives: it counts for the cycle it was read in.
CardDelivered(r) ==
  cards' = [l \in Licences |-> [t \in Thresholds |->
              IF listed[r][l] = t /\ readCycle[r][l] = cycle[l] THEN cards[l][t] + 1 ELSE cards[l][t]]]

PostLicences(r) ==
  /\ licenceStage[r] = "posting"
  /\ licenceStage' = [licenceStage EXCEPT ![r] = "sent"]
  /\ CardDelivered(r)
  /\ UNCHANGED <<licence, crossed, alerts, listed, readCycle, renewing, cycle, overtaken, licenceFaults>>

\* An attempt fails or is not answered; its card may have arrived.  http_request
\* tries again, or raises and the failure is recorded.
PostLicencesFails(r) ==
  /\ licenceStage[r] = "posting"
  /\ licenceFaults < LicenceFaults
  /\ licenceFaults' = licenceFaults + 1
  /\ licenceStage'  \in {licenceStage, [licenceStage EXCEPT ![r] = "failed"]}
  /\ CardDelivered(r) \/ UNCHANGED cards
  /\ UNCHANGED <<licence, crossed, alerts, listed, readCycle, renewing, cycle, overtaken>>

EndLicenceRun(r) ==
  /\ licenceStage' = [licenceStage EXCEPT ![r] = "idle"]
  /\ listed'       = [listed EXCEPT ![r] = NoneListed]
  /\ readCycle'    = [readCycle EXCEPT ![r] = NoneListed]

\* A row that a run writes is marked sent for another cycle, or is so no longer.
OvertakenAfter(r) ==
  {o \in Licences \X Thresholds :
     IF listed[r][o[1]] = o[2]
     THEN licenceStage[r] = "sent" /\ readCycle[r][o[1]] # cycle[o[1]]
     ELSE o \in overtaken}

\* Mutant: ON CONFLICT DO NOTHING, so a row that failed once never turns sent.
RecordAlerts_KeepsFirst(r) ==
  LET pair(l, t) == listed[r][l] = t IN
  /\ licenceStage[r] \in {"sent", "failed"}
  /\ alerts' = [l \in Licences |-> [t \in Thresholds |->
                  IF pair(l, t) /\ alerts[l][t] = "none" THEN licenceStage[r] ELSE alerts[l][t]]]
  /\ overtaken' = OvertakenAfter(r)
  /\ EndLicenceRun(r)
  /\ UNCHANGED <<licence, crossed, renewing, cycle, cards, licenceFaults>>

\* record_alerts: one upsert per pair in one commit, whatever was there before.
RecordAlerts(r) ==
  LET pair(l, t) == listed[r][l] = t IN
  /\ licenceStage[r] \in {"sent", "failed"}
  /\ alerts' = [l \in Licences |-> [t \in Thresholds |->
                  IF pair(l, t) THEN licenceStage[r] ELSE alerts[l][t]]]
  /\ overtaken' = OvertakenAfter(r)
  /\ EndLicenceRun(r)
  /\ UNCHANGED <<licence, crossed, renewing, cycle, cards, licenceFaults>>

\* The agent is lost with what it has read.
LicenceRunDies(r) ==
  /\ licenceStage[r] # "idle"
  /\ licenceFaults < LicenceFaults
  /\ licenceFaults' = licenceFaults + 1
  /\ EndLicenceRun(r)
  /\ UNCHANGED <<licence, crossed, alerts, renewing, cycle, cards, overtaken>>

LicenceRunStep(r) ==
  SelectLicences(r) \/ DropAlreadySent(r) \/ PostLicences(r) \/ RecordAlerts(r)

LicenceNext ==
  \/ \E l \in Licences, t \in Crossed : Create(l, t) \/ Patch(l, t)
  \/ \E l \in Licences : Delete(l) \/ TimePasses(l)
  \/ \E q \in Renewers, l \in Licences : RenewRead(q, l)
  \/ \E q \in Renewers, t \in Crossed : RenewCommit(q, t)
  \/ \E q \in Renewers : RenewFails(q)
  \/ \E r \in LicenceRuns : LicenceRunStep(r) \/ PostLicencesFails(r) \/ LicenceRunDies(r)

\* The daily schedule keeps starting the job and a started run keeps going.
LicenceFairness == \A r \in LicenceRuns : WF_licenceVars(LicenceRunStep(r))

LicenceSpec == LicenceInit /\ [][LicenceNext]_licenceVars /\ LicenceFairness

----------------------------------------------------------------------------
(* Properties                                                              *)

\* "each threshold only alerts once per cycle": once for each run that overlaps,
\* and again for each post or run that was lost, whose failure may overwrite
\* what an overlapping run has recorded.
ThresholdFiresOnce ==
  \A l \in Licences, t \in Thresholds :
    cards[l][t] <= Cardinality(LicenceRuns) * (1 + licenceFaults)

\* Every threshold a licence stays at is announced in the cycle it is in at last:
\* after failed posts ("the next daily run retries it") and after renewals, whatever
\* was announced before them, unless the row is marked sent by a run that a renewal
\* overtook.
ThresholdIsAnnounced ==
  \A l \in Licences, t \in Thresholds :
    <>[](licence[l] = "active" /\ crossed[l] = t)
      => <>[](cards[l][t] > 0 \/ <<l, t>> \in overtaken)

\* "clear alert rows so the next cycle's thresholds re-fire cleanly": a
\* threshold marked sent has been announced in the present cycle.
SentMeansSentThisCycle ==
  \A l \in Licences, t \in Thresholds : alerts[l][t] = "sent" => cards[l][t] > 0

----------------------------------------------------------------------------
(* The inductive invariant: what the runs know of the alert rows.          *)

Lists(r, l, t) == listed[r][l] = t /\ readCycle[r][l] = cycle[l]

\* Of the present cycle, the runs that will still announce a threshold, and those
\* that have tried to and not recorded it.
AboutToFire(l, t) == {r \in LicenceRuns : licenceStage[r] = "posting" /\ Lists(r, l, t)}
HaveFired(l, t)   == {r \in LicenceRuns : licenceStage[r] \in {"sent", "failed"} /\ Lists(r, l, t)}

\* Runs whose post has failed; the last are about to overwrite the row of a pair.
Failing         == {r \in LicenceRuns : licenceStage[r] = "failed"}
Overwriters(l, t) == {r \in Failing : listed[r][l] = t}

\* The cards of the rounds that are over: a failed run starts another round when
\* it overwrites the row, in which every run may fire, and its fault pays for it.
EarlierRounds(l, t) ==
  Cardinality(LicenceRuns) * (licenceFaults - Cardinality(Overwriters(l, t)))

\* While a pair is not marked sent, each card of the round was sent by a run that
\* stands before its record; once it is, only the runs that had found it unsent
\* fire again.
FiringsSound ==
  \A l \in Licences, t \in Thresholds :
    IF alerts[l][t] = "sent"
    THEN cards[l][t] + Cardinality(AboutToFire(l, t)) <= Cardinality(LicenceRuns) + EarlierRounds(l, t)
    ELSE cards[l][t] <= Cardinality(HaveFired(l, t)) + EarlierRounds(l, t)

\* Every failing run has cost a fault.
FailuresPaid == Cardinality(Failing) <= licenceFaults

LicenceIInv == LicenceTypeOK /\ FailuresPaid /\ FiringsSound

=============================================================================
