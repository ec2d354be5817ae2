----------------------------- MODULE DisksPage -----------------------------
(* The Disks page of the browser console: its filters, kept across visits,  *)
(* the list and the summary they ask the API for, and what the table shows. *)
(* The API filters by environment, status, BU and nonprod; the page filters *)
(* what it loaded once more, and by owner.  A request carries the filters   *)
(* of the moment it is sent and lands whenever it is answered.              *)
EXTENDS Naturals, FiniteSets

CONSTANTS
  ApiDisks,     \* the disks of the estate: env, status, owner, bu, nonprod each
  DemoDisks,    \* DISKS_DEMO, the synthetic rows of the bundle
  DefaultEnvs,  \* the production-class environments a visit starts with
  AllOf,        \* '__all'
  MaxFetches    \* requests of one page load

EnvsOf == {d.env : d \in ApiDisks} \cup DefaultEnvs
StatusesOf == {d.status : d \in ApiDisks \cup DemoDisks}
OwnersOf == {d.owner : d \in ApiDisks}
DiskBUs == {d.bu : d \in ApiDisks} \cup {AllOf}

\* A page load begins with the two requests of its wave; "none" is no BU.
ASSUME DisksAssumption ==
  MaxFetches \in Nat \ {0, 1} /\ AllOf \notin StatusesOf \cup OwnersOf /\ "none" \notin DiskBUs

\* What a request asks for; an empty set of environments asks for all of them.
DiskQueries == [envs : SUBSET EnvsOf, status : StatusesOf \cup {AllOf},
            nonprod : BOOLEAN, bu : DiskBUs]
Seed == [envs |-> {}, status |-> AllOf, nonprod |-> TRUE, bu |-> "none"]

VARIABLES
  diskState,   \* status, owner, envs and nonprod as the page's controls show them
  railBu,      \* window.SELECTED_BU
  listed,      \* the query window.DISKS_DATA answers, or Seed
  summed,      \* the query window.DISK_SUMMARY answers, or Seed
  fetches,     \* requests in flight: what is asked for, and by whom
  fetched,     \* requests sent
  disksRibbon  \* DEMO ribbon of the page

diskVars == <<diskState, railBu, listed, summed, fetches, fetched, disksRibbon>>

\* A boot wave asks for the list and the summary apart, fetchDisks for both.
Fetches == [kind : {"filter", "wave_list", "wave_summary"}, query : DiskQueries, nr : 1..MaxFetches]

DisksTypeOK ==
  /\ diskState \in [status : StatusesOf \cup {AllOf}, owner : OwnersOf \cup {AllOf},
                    envs : SUBSET EnvsOf, nonprod : BOOLEAN]
  /\ railBu \in DiskBUs
  /\ listed \in DiskQueries \cup {Seed} /\ summed \in DiskQueries \cup {Seed}
  /\ fetches \in SUBSET Fetches
  /\ fetched \in 0..MaxFetches
  /\ disksRibbon \in BOOLEAN

-----------------------------------------------------------------------------
(* What the API answers and what the page makes of it.                      *)

InEnvs(d, envs) == envs = {} \/ d.env \in envs

\* GET /disks and /disks/summary: every filter that is set must hold.
Answer(q) ==
  {d \in ApiDisks : /\ InEnvs(d, q.envs)
                    /\ q.status \in {AllOf, d.status}
                    /\ q.bu \in {AllOf, d.bu}
                    /\ d.nonprod => q.nonprod}

\* liveDisks: nothing loaded, or an empty answer, falls back on the demo rows.
liveDisks ==
  LET items == IF listed = Seed THEN {} ELSE Answer(listed)
  IN  IF items # {} THEN items ELSE DemoDisks

\* Mutant: no environment ticked filters everything out.
applyDiskFilters_NoEnv ==
  {d \in liveDisks : /\ diskState.status \in {AllOf, d.status}
                     /\ diskState.owner \in {AllOf, d.owner}
                     /\ d.env \in diskState.envs
                     /\ d.nonprod => diskState.nonprod}

\* The rows of the table, before sorting and paging: the BU is left to the API.
applyDiskFilters ==
  {d \in liveDisks : /\ diskState.status \in {AllOf, d.status}
                     /\ diskState.owner \in {AllOf, d.owner}
                     /\ InEnvs(d, diskState.envs)
                     /\ d.nonprod => diskState.nonprod}

\* The figures of the KPI strip: the summary's, or those of the loaded rows.
diskKpisForFilter ==
  LET rows == IF summed = Seed THEN liveDisks ELSE Answer(summed)
  IN  [s \in StatusesOf |-> Cardinality({d \in rows : d.status = s})]

-----------------------------------------------------------------------------
(* Steps.                                                                   *)

QueryOf(state, bu) ==
  [envs |-> state.envs, status |-> state.status, nonprod |-> state.nonprod, bu |-> bu]

Send(kinds, q) ==
  /\ fetched + Cardinality(kinds) =< MaxFetches
  /\ fetched' = fetched + Cardinality(kinds)
  /\ fetches' = fetches \cup
       {[kind |-> k, query |-> q,
         nr |-> fetched + (IF k = "wave_summary" THEN 2 ELSE 1)] : k \in kinds}

\* A wave asks for the default environments whatever the page shows, its summary
\* for every environment (one query record stands for both: see FetchArrives).
WaveKinds == {"wave_list", "wave_summary"}
WaveQuery(bu) == [envs |-> DefaultEnvs, status |-> AllOf, nonprod |-> FALSE, bu |-> bu]

DisksInit ==
  /\ diskState = [status |-> AllOf, owner |-> AllOf, envs |-> DefaultEnvs, nonprod |-> FALSE]
  /\ railBu \in DiskBUs
  /\ listed = Seed /\ summed = Seed
  /\ fetched = 2
  /\ fetches = {[kind |-> "wave_list", query |-> WaveQuery(railBu), nr |-> 1],
                [kind |-> "wave_summary", query |-> WaveQuery(railBu), nr |-> 2]}
  /\ disksRibbon = FALSE

\* Refresh, or another BU: the ribbon goes and the wave starts over; the
\* controls of the page keep what they show.
Rewave(bu) ==
  /\ Send(WaveKinds, WaveQuery(bu))
  /\ railBu' = bu /\ disksRibbon' = FALSE
  /\ UNCHANGED <<diskState, listed, summed>>

\* An environment ticked or unticked, another status, the nonprod toggle: the
\* control changes at once, the request follows.
Refilter(state) ==
  /\ state # diskState /\ state.owner = diskState.owner
  /\ diskState' = state
  /\ Send({"filter"}, QueryOf(state, railBu))
  /\ UNCHANGED <<railBu, listed, summed, disksRibbon>>

FilterStatus(s) == Refilter([diskState EXCEPT !.status = s])
ToggleEnv(e) ==
  Refilter([diskState EXCEPT !.envs = IF e \in @ THEN @ \ {e} ELSE @ \cup {e}])
AllEnvs == Refilter([diskState EXCEPT !.envs = {}])
ToggleNonprod == Refilter([diskState EXCEPT !.nonprod = ~@])

\* Owner and service filter the loaded rows only.
ChangeOwner(o) ==
  /\ diskState' = [diskState EXCEPT !.owner = o]
  /\ UNCHANGED <<railBu, listed, summed, fetches, fetched, disksRibbon>>

\* Back to the landing filters; a request only when the API's filters changed.
Reset ==
  LET landing == [status |-> AllOf, owner |-> AllOf, envs |-> DefaultEnvs, nonprod |-> FALSE]
  IN  /\ diskState' = landing
      /\ IF QueryOf(landing, railBu) = QueryOf(diskState, railBu)
           THEN UNCHANGED <<fetches, fetched>>
           ELSE Send({"filter"}, QueryOf(landing, railBu))
      /\ UNCHANGED <<railBu, listed, summed, disksRibbon>>

\* The answer is taken whatever was asked for since.
FetchArrives(f) ==
  /\ f \in fetches
  /\ fetches' = fetches \ {f}
  /\ listed' = IF f.kind = "wave_summary" THEN listed ELSE f.query
  /\ summed' = CASE f.kind = "wave_summary" -> [f.query EXCEPT !.envs = {}]
                 [] f.kind = "filter" -> f.query
                 [] OTHER -> summed
  /\ UNCHANGED <<diskState, railBu, fetched, disksRibbon>>

\* A failed call of a wave marks the page; a failed filter leaves the rows that
\* are loaded, and its two calls may fail apart.
FetchFails(f) ==
  /\ f \in fetches
  /\ fetches' = fetches \ {f}
  /\ disksRibbon' = (disksRibbon \/ f.kind # "filter")
  /\ \/ UNCHANGED <<listed, summed>>
     \/ f.kind = "filter" /\ listed' = f.query /\ UNCHANGED summed
     \/ f.kind = "filter" /\ summed' = f.query /\ UNCHANGED listed
  /\ UNCHANGED <<diskState, railBu, fetched>>

DisksNext ==
  \/ \E bu \in DiskBUs : Rewave(bu)
  \/ \E s \in StatusesOf \cup {AllOf} : FilterStatus(s)
  \/ \E e \in EnvsOf : ToggleEnv(e)
  \/ AllEnvs
  \/ ToggleNonprod
  \/ \E o \in OwnersOf \cup {AllOf} : ChangeOwner(o)
  \/ Reset
  \/ \E f \in fetches : FetchArrives(f) \/ FetchFails(f)

DisksSpec == DisksInit /\ [][DisksNext]_diskVars

-----------------------------------------------------------------------------
(* Properties.                                                              *)

\* The rows the controls promise.
Selected ==
  {d \in Answer(QueryOf(diskState, railBu)) : diskState.owner \in {AllOf, d.owner}}

\* When both calls for the very filters the page shows were the last to land,
\* and found something, the table is exactly what they promise and the strip
\* counts it: the API's reading of the filters and the page's second pass over
\* the answer (empty means all; the untagged; nonprod) never disagree, whatever
\* was loaded, toggled or reset in between.
TableAgrees ==
  LET q == QueryOf(diskState, railBu)
  IN  listed = q /\ Answer(q) # {} =>
        /\ applyDiskFilters = Selected
        /\ summed = q /\ diskState.owner = AllOf =>
             \A s \in StatusesOf :
                diskKpisForFilter[s] = Cardinality({d \in applyDiskFilters : d.status = s})

=============================================================================
