------------------------------ MODULE Console ------------------------------
(* The browser console's data: the fetch waves of op-boot.js over api.js,   *)
(* the error list, the DEMO flags and the banner they drive (op-app.js).    *)
(* Every feed starts on the demo seed of the bundle; a wave asks for all of *)
(* them at once, under the business unit (BU) selected when it starts, and  *)
(* its answers land one by one.  A second wave may start before the first   *)
(* has settled.  Page filters and the refreshes after a write ask for       *)
(* single feeds beside the waves.                                           *)
EXTENDS Naturals, FiniteSets

CONSTANTS
  Feeds,      \* the feeds of this instance
  BUs,        \* business units, AllBUs ('__all') among them
  AllBUs,
  Failures,   \* the kinds of error api() tells apart (401, 403, 429, 5xx, timeout, ...)
  MaxWaves,   \* waves of one page load: the boot wave and the retries
  MaxAsks     \* single-feed refreshes of one page load

\* The fetches of runFetches, by the name of what they fill.
ScopedFeeds ==
  {"servers", "unreachable", "unmatched", "certs", "cert_summary", "eol",
   "eol_summary", "patch_groups", "patch_cycles", "exclusions",
   "exclusion_summary", "disks", "disk_summary", "disk_summary_prod"}
GlobalFeeds ==
  {"server_summary", "eol_unmatched", "patch_issues", "syncs", "alerts",
   "licences", "auditing", "me"}

\* A failure of one of these leaves its widget unmarked.
UnmarkedFeeds == {"eol_unmatched", "exclusion_summary", "disk_summary_prod", "me"}

\* The widget whose DEMO ribbon a feed's failure raises.
WidgetOf(f) ==
  CASE f \in {"servers", "server_summary", "unreachable", "unmatched"} -> "servers"
    [] f \in {"certs", "cert_summary"} -> "certs"
    [] f \in {"eol", "eol_summary", "eol_unmatched"} -> "eol"
    [] f \in {"patch_groups", "patch_cycles", "patch_issues"} -> "patching"
    [] f \in {"syncs", "alerts"} -> "health"
    [] f \in {"exclusions", "exclusion_summary"} -> "exclusions"
    [] f \in {"disks", "disk_summary", "disk_summary_prod"} -> "disks"
    [] OTHER -> f

\* Feeds assembled from several calls (pages of servers, lists and their details,
\* two views of the cycles): a call may fail long before the feed ends, and dooms
\* it or only leaves a part out.
DoomedByOne  == {"servers", "auditing"}
SurvivesOne == {"patch_groups", "auditing"}

ASSUME FeedsAssumption == Feeds \subseteq (ScopedFeeds \cup GlobalFeeds)
ASSUME BUsAssumption == AllBUs \in BUs
ASSUME BoundsAssumption == MaxWaves \in Nat \ {0} /\ MaxAsks \in Nat

MarkedFeeds == Feeds \ UnmarkedFeeds
Widgets == {WidgetOf(f) : f \in Feeds}

VARIABLES
  selectedBu,  \* window.SELECTED_BU
  apiErrors,   \* the kinds of error recorded; the rail says "API online" when none is
  demo,        \* window.DEMO_WIDGETS
  data,        \* data[f]: where the feed's globals come from, and their BU
  last,        \* waves started; the waves are numbered 1..last
  misread,     \* history: feeds the latest wave got an answer of another shape for
  waves,       \* waves[w]: its BU, the feeds still out, the feeds bound to fail
  asks,        \* refreshes in flight: kind, feed and BU each
  asked,       \* refreshes started
  loading      \* the skeleton shimmer of the first wave

consoleVars == <<selectedBu, apiErrors, demo, data, last, misread, waves, asks, asked, loading>>

Waves == 1..MaxWaves
WaveStates == [status : {"none", "running", "settled"}, bu : BUs, pending : SUBSET Feeds,
               doomed : SUBSET Feeds]
Wave(bu) == [status |-> "running", bu |-> bu, pending |-> Feeds, doomed |-> {}]
NoWave == [status |-> "none", bu |-> AllBUs, pending |-> {}, doomed |-> {}]

\* What an answer under a BU fills the feed with.
Live(f, bu) == [origin |-> "live", bu |-> IF f \in ScopedFeeds THEN bu ELSE AllBUs]

\* The kinds of refresh: a page filter's, and after a write those that replace a
\* list and the one that replaces a single application.
PageFeeds  == Feeds \cap {"servers", "certs", "exclusions", "disks"}
WriteFeeds == Feeds \cap {"exclusions", "licences", "auditing"}
AppFeeds   == Feeds \cap {"auditing"}
Asks == [kind : {"page"}, feed : PageFeeds, bu : BUs]
          \cup [kind : {"write"}, feed : WriteFeeds, bu : {AllBUs}]
          \cup [kind : {"app"}, feed : AppFeeds, bu : {AllBUs}]

ConsoleTypeOK ==
  /\ selectedBu \in BUs
  /\ apiErrors \in SUBSET Failures
  /\ demo \in SUBSET Widgets
  /\ data \in [Feeds -> [origin : {"seed", "live", "edited"}, bu : BUs]]
  /\ last \in Waves
  /\ misread \in SUBSET Feeds
  /\ waves \in [Waves -> WaveStates]
  /\ asks \in SUBSET Asks
  /\ asked \in 0..MaxAsks
  /\ loading \in BOOLEAN

-----------------------------------------------------------------------------
(* Waves.                                                                   *)

\* boot() starts the first wave under the BU kept in localStorage.
ConsoleInit ==
  /\ selectedBu \in BUs
  /\ apiErrors = {} /\ demo = {}
  /\ data = [f \in Feeds |-> [origin |-> "seed", bu |-> AllBUs]]
  /\ last = 1 /\ misread = {}
  /\ waves = [w \in Waves |-> IF w = 1 THEN Wave(selectedBu) ELSE NoWave]
  /\ asks = {} /\ asked = 0
  /\ loading = TRUE

\* OC_API.retry: the error list and the DEMO flags are emptied together and every
\* feed is asked for again; a wave still running keeps running.
StartWave(bu) ==
  /\ last < MaxWaves
  /\ apiErrors' = {} /\ demo' = {}
  /\ last' = last + 1 /\ misread' = {}
  /\ waves' = [waves EXCEPT ![last + 1] = Wave(bu)]
  /\ UNCHANGED <<data, asks, asked, loading>>

\* The Refresh buttons and the banner's "Retry now".
Retry == StartWave(selectedBu) /\ UNCHANGED selectedBu

\* The rail's BU dropdown and the BU bars of the Disks page.
SetBu(bu) == bu # selectedBu /\ selectedBu' = bu /\ StartWave(bu)

Leave(w, f) == [waves EXCEPT ![w].pending = @ \ {f}, ![w].doomed = @ \ {f}]
Mark(f) == IF f \in UnmarkedFeeds THEN {} ELSE {WidgetOf(f)}

\* One call of a feed that needs several fails; the others are still awaited.
CallFails(w, f, e) ==
  /\ f \in waves[w].pending
  /\ apiErrors' = apiErrors \cup {e}
  /\ \/ f \in DoomedByOne /\ waves' = [waves EXCEPT ![w].doomed = @ \cup {f}]
     \/ f \in SurvivesOne /\ UNCHANGED waves
  /\ UNCHANGED <<selectedBu, demo, data, last, misread, asks, asked, loading>>

\* The answer replaces the feed's globals, whatever asked for it later.
FeedArrives(w, f) ==
  /\ f \in waves[w].pending \ waves[w].doomed
  /\ data' = [data EXCEPT ![f] = Live(f, waves[w].bu)]
  /\ demo' = IF f = "auditing" THEN demo \ {"auditing"} ELSE demo
  /\ waves' = Leave(w, f)
  /\ UNCHANGED <<selectedBu, apiErrors, last, misread, asks, asked, loading>>

\* Mutant: a call given up after 15 seconds is recorded nowhere.
FeedFails_Quiet(w, f, e) ==
  /\ f \in waves[w].pending
  /\ apiErrors' = IF f \in waves[w].doomed \/ e # "http" THEN apiErrors ELSE apiErrors \cup {e}
  /\ demo' = demo \cup Mark(f)
  /\ waves' = Leave(w, f)
  /\ UNCHANGED <<selectedBu, data, last, misread, asks, asked, loading>>

\* A failed call (an HTTP error, or 15 seconds without an answer) leaves the
\* globals alone, records its error and marks the widget.
FeedFails(w, f, e) ==
  /\ f \in waves[w].pending
  /\ apiErrors' = IF f \in waves[w].doomed THEN apiErrors ELSE apiErrors \cup {e}
  /\ demo' = demo \cup Mark(f)
  /\ waves' = Leave(w, f)
  /\ UNCHANGED <<selectedBu, data, last, misread, asks, asked, loading>>

\* A call answers 200 with a body of another shape (null, no array): the globals are
\* left alone and the widget is marked, but no error is recorded.
FeedMisread(w, f) ==
  /\ f \in waves[w].pending \ waves[w].doomed
  /\ demo' = demo \cup Mark(f)
  /\ waves' = Leave(w, f)
  /\ misread' = IF w = last THEN misread \cup {f} ELSE misread
  /\ UNCHANGED <<selectedBu, apiErrors, data, last, asks, asked, loading>>

\* After Promise.allSettled; boot() then ends the shimmer of its own wave.
Settle(w) ==
  /\ waves[w].status = "running" /\ waves[w].pending = {}
  /\ waves' = [waves EXCEPT ![w].status = "settled"]
  /\ loading' = (loading /\ w # 1)
  /\ UNCHANGED <<selectedBu, apiErrors, demo, data, last, misread, asks, asked>>

-----------------------------------------------------------------------------
(* Single feeds: page filters and the refreshes that follow a write.        *)

Ask(a) ==
  /\ asked < MaxAsks
  /\ asked' = asked + 1
  /\ asks' = asks \cup {a}
  /\ UNCHANGED <<selectedBu, apiErrors, demo, data, last, misread, waves, loading>>

\* fetchServers, fetchCerts, fetchExclusions and fetchDisks take the BU of the rail.
\* (The summary they ask for beside the list lands in the same step.)
AskForPage(f) == Ask([kind |-> "page", feed |-> f, bu |-> selectedBu])

\* After an accepted write: a whole list, without a BU, or one application.
AskAfterWrite(f) == Ask([kind |-> "write", feed |-> f, bu |-> AllBUs])
AskForApp(f)     == Ask([kind |-> "app", feed |-> f, bu |-> AllBUs])

\* An application's answer replaces one row: the rest of the list stays what it was.
AskArrives(a) ==
  /\ a \in asks
  /\ asks' = asks \ {a}
  /\ data' = IF a.kind = "app" THEN data ELSE [data EXCEPT ![a.feed] = Live(a.feed, a.bu)]
  /\ demo' = IF a.kind = "page" THEN demo ELSE demo \ {WidgetOf(a.feed)}
  /\ UNCHANGED <<selectedBu, apiErrors, last, misread, waves, asked, loading>>

\* Mutant: any ended refresh clears the ribbon.
AskFails_Clears(a, e) ==
  /\ a \in asks
  /\ asks' = asks \ {a}
  /\ apiErrors' = apiErrors \cup {e}
  /\ demo' = IF a.kind = "write" THEN demo \ {WidgetOf(a.feed)} ELSE demo
  /\ UNCHANGED <<selectedBu, data, last, misread, waves, asked, loading>>

\* The error is recorded; a failed refresh after a write also marks the widget.
AskFails(a, e) ==
  /\ a \in asks
  /\ asks' = asks \ {a}
  /\ apiErrors' = apiErrors \cup {e}
  /\ demo' = IF a.kind = "write" THEN demo \cup {WidgetOf(a.feed)} ELSE demo
  /\ UNCHANGED <<selectedBu, data, last, misread, waves, asked, loading>>

\* An answer of another shape is treated alike, without an error.
AskMisread(a) ==
  /\ a \in asks
  /\ asks' = asks \ {a}
  /\ demo' = IF a.kind = "write" THEN demo \cup {WidgetOf(a.feed)} ELSE demo
  /\ UNCHANGED <<selectedBu, apiErrors, data, last, misread, waves, asked, loading>>

\* A write the API refuses changes nothing but the error list.
WriteRefused(e) ==
  /\ apiErrors' = apiErrors \cup {e}
  /\ UNCHANGED <<selectedBu, demo, data, last, misread, waves, asks, asked, loading>>

\* A licence write that does not reach the API is applied to the loaded list.  (The
\* status cell of the Licensing page, which edits it before asking, is LicencesPage's.)
EditOffline(e) ==
  /\ "licences" \in Feeds
  /\ apiErrors' = apiErrors \cup {e}
  /\ data' = [data EXCEPT !["licences"].origin = IF @ = "live" THEN "edited" ELSE @]
  /\ demo' = demo \cup {"licences"}
  /\ UNCHANGED <<selectedBu, last, misread, waves, asks, asked, loading>>

-----------------------------------------------------------------------------
(* The specification.                                                       *)

WaveStep(w) ==
  \/ Settle(w)
  \/ \E f \in Feeds :
       FeedArrives(w, f) \/ FeedMisread(w, f) \/ \E e \in Failures : FeedFails(w, f, e)

ConsoleNext ==
  \/ Retry
  \/ \E bu \in BUs : SetBu(bu)
  \/ \E w \in Waves : WaveStep(w)
  \/ \E w \in Waves, f \in Feeds, e \in Failures : CallFails(w, f, e)
  \/ \E f \in PageFeeds : AskForPage(f)
  \/ \E f \in WriteFeeds : AskAfterWrite(f)
  \/ \E f \in AppFeeds : AskForApp(f)
  \/ \E a \in asks : AskArrives(a) \/ AskMisread(a) \/ \E e \in Failures : AskFails(a, e)
  \/ \E e \in Failures : WriteRefused(e)
  \/ \E e \in Failures : EditOffline(e)

ConsoleSpec == ConsoleInit /\ [][ConsoleNext]_consoleVars

-----------------------------------------------------------------------------
(* Properties.                                                              *)

Answered(f) == f \notin waves[last].pending
OffLive(f)  == data[f].origin # "live"

\* A list that is not what the API answered carries its DEMO ribbon, unless the
\* latest wave is still asking for it: no order of failures, retries, refreshes
\* after a write and offline edits shows demo or local rows as current.  The
\* auditing list is left out: the reload of one application clears its ribbon
\* while the rest of the list is still the seed.
SeedIsFlagged ==
  \A f \in MarkedFeeds \ {"auditing"} :
     OffLive(f) /\ Answered(f) => WidgetOf(f) \in demo

\* When the rail says "API online" (no recorded error) and the latest wave is done,
\* everything shown came from the API, but for a feed whose answer in that wave had
\* another shape: emptying the error list at a retry never outlives a failure, even
\* one of a wave that was overtaken.
OnlineMeansLive ==
  \A f \in MarkedFeeds :
    apiErrors = {} /\ Answered(f) /\ f \notin misread => ~OffLive(f)

=============================================================================
