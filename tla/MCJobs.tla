------------------------------- MODULE MCJobs -------------------------------
(* The scheduled jobs for TLC: the run tracking every sync shares, and the   *)
(* three alert jobs.  They share no table, so a behaviour runs one of them,  *)
(* chosen at the start, and leaves the others as they begin.                 *)
EXTENDS SyncTracking, DiskAlerts, LicenceAlerts, ExclusionAlerts

VARIABLE chosen   \* the job this behaviour is about

allVars == <<chosen, syncVars, diskVars, licenceVars, exclusionVars>>

\* A behaviour without the tracked sync leaves its upstream system down, so that
\* nothing is asked of it.
MCInit ==
  /\ chosen \in {"sync", "disks", "licences", "exclusions"}
  /\ SyncInit /\ DiskInit /\ LicenceInit /\ ExclusionInit
  /\ chosen # "sync" => ~upstream

OnlySync       == chosen = "sync" /\ UNCHANGED <<chosen, diskVars, licenceVars, exclusionVars>>
OnlyDisks      == chosen = "disks" /\ UNCHANGED <<chosen, syncVars, licenceVars, exclusionVars>>
OnlyLicences   == chosen = "licences" /\ UNCHANGED <<chosen, syncVars, diskVars, exclusionVars>>
OnlyExclusions == chosen = "exclusions" /\ UNCHANGED <<chosen, syncVars, diskVars, licenceVars>>

MCNext ==
  \/ OnlySync /\ SyncNext
  \/ OnlyDisks /\ DiskNext
  \/ OnlyLicences /\ LicenceNext
  \/ OnlyExclusions /\ ExclusionNext

MCSpec == MCInit /\ [][MCNext]_allVars

\* The fairness of each component, for the job the behaviour runs.
MCFairSpec ==
  /\ MCSpec
  /\ WF_allVars(OnlySync /\ Tick)
  /\ \A s \in Pipeline : WF_allVars(OnlySync /\ ScheduledStart(s))
  /\ \A s \in Slots : WF_allVars(OnlySync /\ RunStep(s))
  /\ \A r \in DiskRuns : WF_allVars(OnlyDisks /\ DiskRunStep(r))
  /\ \A r \in LicenceRuns : WF_allVars(OnlyLicences /\ LicenceRunStep(r))
  /\ \A r \in ExclusionRuns : WF_allVars(OnlyExclusions /\ ExclusionRunStep(r))
  /\ \A i \in Ids : WF_allVars(OnlyExclusions /\ WeekPasses(i))

\* One type invariant for the four.
TypeOK == SyncTypeOK /\ DiskTypeOK /\ LicenceTypeOK /\ ExclusionTypeOK

=============================================================================
