--------------------------- MODULE ConsoleProofs ---------------------------
(* What the browser console promises, page by page and for every value of   *)
(* the constants: the DEMO ribbons and "API online", the server detail page, *)
(* the AD pickers, the Disks page and the exclusion wizard; and the types of *)
(* all seven modules side by side.                                          *)
EXTENDS MCConsole, LicencesPageProofs, AuditingPageProofs, FiniteSetTheorems

USE DEF Waves, MarkedFeeds, Widgets

\* A call of the latest wave that failed has left its error: the list is only
\* emptied by the start of a wave, which then is the latest.
DoomedHasError == waves[last].doomed # {} => apiErrors # {}

\* SeedIsFlagged and OnlineMeansLive are inductive together with it.
FlagInv == ConsoleTypeOK /\ SeedIsFlagged
OnlineInv == ConsoleTypeOK /\ DoomedHasError /\ OnlineMeansLive

-----------------------------------------------------------------------------
(* Types.                                                                   *)

LEMMA LiveType ==
  ASSUME NEW f \in Feeds, NEW bu \in BUs
  PROVE  Live(f, bu) \in [origin : {"seed", "live", "edited"}, bu : BUs]
                 /\ Live(f, bu).origin = "live"
BY BUsAssumption DEF Live

LEMMA MarkType ==
  ASSUME NEW f \in Feeds PROVE Mark(f) \subseteq Widgets
BY DEF Mark

LEMMA DataInitTypes == ConsoleInit => ConsoleTypeOK
<1> SUFFICES ASSUME ConsoleInit PROVE ConsoleTypeOK
  OBVIOUS
<1>1. Wave(selectedBu) \in WaveStates
  BY DEF ConsoleInit, Wave, WaveStates
<1>2. NoWave \in WaveStates
  BY BUsAssumption DEF NoWave, WaveStates
<1>3. data \in [Feeds -> [origin : {"seed", "live", "edited"}, bu : BUs]]
  BY BUsAssumption DEF ConsoleInit
<1>4. last \in Waves /\ asked \in 0..MaxAsks
  BY BoundsAssumption DEF ConsoleInit
<1> QED BY <1>1, <1>2, <1>3, <1>4 DEF ConsoleInit, ConsoleTypeOK

LEMMA StartWaveTypes ==
  ASSUME ConsoleTypeOK, NEW bu \in BUs, StartWave(bu), selectedBu' \in BUs
  PROVE  ConsoleTypeOK'
<1>1. Wave(bu) \in WaveStates
  BY DEF Wave, WaveStates
<1>2. last' \in Waves /\ last' = last + 1
  BY BoundsAssumption DEF ConsoleTypeOK, StartWave
<1> QED BY <1>1, <1>2 DEF ConsoleTypeOK, StartWave

LEMMA LeaveType ==
  ASSUME ConsoleTypeOK, NEW w \in Waves, NEW f \in Feeds
  PROVE  Leave(w, f) \in [Waves -> WaveStates]
<1> DEFINE left == [waves[w] EXCEPT !.pending = @ \ {f}, !.doomed = @ \ {f}]
<1>1. waves \in [Waves -> WaveStates] /\ waves[w] \in WaveStates
  BY DEF ConsoleTypeOK
<1>2. left \in WaveStates
  BY <1>1 DEF WaveStates
<1>3. Leave(w, f) = [waves EXCEPT ![w] = left]
  BY <1>1 DEF Leave, WaveStates
<1> HIDE DEF left
<1> QED BY <1>1, <1>2, <1>3

\* What an answer of a wave may do.
AnswerLands(w, f) ==
  FeedArrives(w, f) \/ FeedMisread(w, f) \/ \E e \in Failures : FeedFails(w, f, e) \/ CallFails(w, f, e)

LEMMA WaveTypes ==
  ASSUME ConsoleTypeOK, NEW w \in Waves, NEW f \in Feeds,
         AnswerLands(w, f)
  PROVE  ConsoleTypeOK'
<1>1. CASE FeedArrives(w, f)
  <2>1. data' \in [Feeds -> [origin : {"seed", "live", "edited"}, bu : BUs]]
    BY <1>1, LiveType DEF ConsoleTypeOK, WaveStates, FeedArrives
  <2> QED BY <1>1, <2>1, LeaveType DEF ConsoleTypeOK, FeedArrives
<1>2. ASSUME NEW e \in Failures, FeedFails(w, f, e) PROVE ConsoleTypeOK'
  BY <1>2, LeaveType, MarkType DEF ConsoleTypeOK, FeedFails
<1>3. ASSUME NEW e \in Failures, CallFails(w, f, e) PROVE ConsoleTypeOK'
  BY <1>3 DEF ConsoleTypeOK, CallFails, WaveStates
<1>4. CASE FeedMisread(w, f)
  BY <1>4, LeaveType, MarkType DEF ConsoleTypeOK, FeedMisread
<1> QED BY <1>1, <1>2, <1>3, <1>4 DEF AnswerLands

\* What a refresh may do.
AskLands(a) == Ask(a) \/ AskArrives(a) \/ AskMisread(a) \/ \E e \in Failures : AskFails(a, e)

LEMMA AskTypes ==
  ASSUME ConsoleTypeOK, NEW a \in Asks,
         AskLands(a)
  PROVE  ConsoleTypeOK'
<1> USE BUsAssumption DEF Asks, PageFeeds, WriteFeeds, AppFeeds
<1>1. CASE Ask(a)
  BY <1>1, BoundsAssumption DEF ConsoleTypeOK, Ask
<1>2. CASE AskArrives(a)
  <2>1. data' \in [Feeds -> [origin : {"seed", "live", "edited"}, bu : BUs]]
    BY <1>2, LiveType DEF ConsoleTypeOK, AskArrives
  <2> QED BY <1>2, <2>1 DEF ConsoleTypeOK, AskArrives
<1>3. ASSUME NEW e \in Failures, AskFails(a, e) PROVE ConsoleTypeOK'
  BY <1>3 DEF ConsoleTypeOK, AskFails
<1>4. CASE AskMisread(a)
  BY <1>4 DEF ConsoleTypeOK, AskMisread
<1> QED BY <1>1, <1>2, <1>3, <1>4 DEF AskLands

\* The steps that neither start a wave nor land an answer.
ErrorStep(e) == WriteRefused(e) \/ EditOffline(e)

LEMMA ErrorStepTypes ==
  ASSUME ConsoleTypeOK, NEW e \in Failures, ErrorStep(e)
  PROVE  ConsoleTypeOK'
<1>1. CASE WriteRefused(e)
  BY <1>1 DEF ConsoleTypeOK, WriteRefused
<1>2. CASE EditOffline(e)
  <2>1. "licences" \in Widgets
    BY <1>2 DEF EditOffline, WidgetOf
  <2> QED BY <1>2, <2>1 DEF ConsoleTypeOK, EditOffline
<1> QED BY <1>1, <1>2 DEF ErrorStep

\* Every step is one of the five kinds the lemmas treat.
LEMMA DataStepKinds ==
  ASSUME ConsoleTypeOK, ConsoleNext
  PROVE  \/ \E bu \in BUs : StartWave(bu) /\ selectedBu' \in BUs
         \/ \E w \in Waves : Settle(w)
         \/ \E w \in Waves, f \in Feeds : AnswerLands(w, f)
         \/ \E a \in Asks : AskLands(a)
         \/ \E e \in Failures : ErrorStep(e)
<1>1. CASE Retry
  BY <1>1 DEF Retry, ConsoleTypeOK
<1>2. CASE \E bu \in BUs : SetBu(bu)
  BY <1>2 DEF SetBu
<1>3. CASE \E w \in Waves : WaveStep(w)
  BY <1>3 DEF WaveStep, AnswerLands
<1>4. CASE \E w \in Waves, f \in Feeds, e \in Failures : CallFails(w, f, e)
  BY <1>4 DEF AnswerLands
<1>5. CASE \/ \E f \in PageFeeds : AskForPage(f)
           \/ \E f \in WriteFeeds : AskAfterWrite(f)
           \/ \E f \in AppFeeds : AskForApp(f)
  <2>1. ASSUME NEW f \in PageFeeds, AskForPage(f) PROVE \E a \in Asks : Ask(a)
    BY <2>1 DEF AskForPage, Asks, ConsoleTypeOK
  <2>2. ASSUME NEW f \in WriteFeeds, AskAfterWrite(f) PROVE \E a \in Asks : Ask(a)
    BY <2>2 DEF AskAfterWrite, Asks
  <2>3. ASSUME NEW f \in AppFeeds, AskForApp(f) PROVE \E a \in Asks : Ask(a)
    BY <2>3 DEF AskForApp, Asks
  <2> QED BY <1>5, <2>1, <2>2, <2>3 DEF AskLands
<1>6. CASE \E a \in asks : AskArrives(a) \/ AskMisread(a) \/ \E e \in Failures : AskFails(a, e)
  BY <1>6 DEF ConsoleTypeOK, AskLands
<1>7. CASE (\E e \in Failures : WriteRefused(e)) \/ (\E e \in Failures : EditOffline(e))
  BY <1>7 DEF ErrorStep
<1> QED BY <1>1, <1>2, <1>3, <1>4, <1>5, <1>6, <1>7 DEF ConsoleNext

LEMMA DataStepTypes ==
  ASSUME ConsoleTypeOK, [ConsoleNext]_consoleVars
  PROVE  ConsoleTypeOK'
<1>1. CASE UNCHANGED consoleVars
  BY <1>1 DEF ConsoleTypeOK, consoleVars
<1>2. CASE ConsoleNext
  <2>1. ASSUME NEW w \in Waves, Settle(w) PROVE ConsoleTypeOK'
    BY <2>1 DEF ConsoleTypeOK, Settle, WaveStates
  <2> QED BY <1>2, <2>1, DataStepKinds, StartWaveTypes, WaveTypes, AskTypes, ErrorStepTypes
<1> QED BY <1>1, <1>2

\* The types of the console's state hold in every behaviour.
THEOREM ConsoleTypes == ConsoleSpec => []ConsoleTypeOK
BY DataInitTypes, DataStepTypes, PTL DEF ConsoleSpec

-----------------------------------------------------------------------------
(* The DEMO ribbons.                                                        *)

\* Only the marked feed a write refreshes has that feed's widget.
LEMMA OwnWidget ==
  ASSUME NEW f \in MarkedFeeds, NEW g \in WriteFeeds, WidgetOf(f) = WidgetOf(g)
  PROVE  f = g
BY FeedsAssumption DEF WriteFeeds, WidgetOf, UnmarkedFeeds, ScopedFeeds, GlobalFeeds

\* A failed call of a feed leaves the feed out for its other calls.
LEMMA CallKeepsPending ==
  ASSUME ConsoleTypeOK, NEW w \in Waves, NEW f \in Feeds, NEW e \in Failures,
         CallFails(w, f, e)
  PROVE  last' = last /\ waves'[last].pending = waves[last].pending
<1>1. CASE UNCHANGED waves
  BY <1>1 DEF CallFails
<1>2. CASE waves' = [waves EXCEPT ![w].doomed = @ \cup {f}]
  BY <1>2 DEF CallFails, ConsoleTypeOK, WaveStates
<1> QED BY <1>1, <1>2 DEF CallFails

\* Landing an answer of a wave: a failure marks, an arrival makes its feed live.
LEMMA WaveKeepsFlags ==
  ASSUME ConsoleTypeOK, SeedIsFlagged, NEW w \in Waves, NEW g \in Feeds,
         AnswerLands(w, g)
  PROVE  SeedIsFlagged'
<1> SUFFICES ASSUME NEW f \in MarkedFeeds \ {"auditing"}, OffLive(f)', Answered(f)'
             PROVE  WidgetOf(f) \in demo'
  BY DEF SeedIsFlagged
<1>1. CASE FeedArrives(w, g)
  <2>1. f # g
    BY <1>1, LiveType DEF FeedArrives, ConsoleTypeOK, OffLive, Live
  <2>2. OffLive(f) /\ Answered(f)
    BY <1>1, <2>1 DEF FeedArrives, ConsoleTypeOK, WaveStates, OffLive, Answered, Leave
  <2>3. WidgetOf(f) \in demo
    BY <2>2 DEF SeedIsFlagged
  <2>4. g = "auditing" => WidgetOf(f) # "auditing"
    BY FeedsAssumption DEF WidgetOf, UnmarkedFeeds, ScopedFeeds, GlobalFeeds
  <2> QED BY <1>1, <2>3, <2>4 DEF FeedArrives
<1>2. ASSUME NEW e \in Failures, FeedFails(w, g, e) PROVE WidgetOf(f) \in demo'
  <2>1. CASE f = g
    BY <1>2, <2>1 DEF FeedFails, Mark
  <2>2. CASE f # g
    <3>1. OffLive(f) /\ Answered(f)
      BY <1>2, <2>2 DEF FeedFails, ConsoleTypeOK, WaveStates, OffLive, Answered, Leave
    <3> QED BY <1>2, <3>1 DEF SeedIsFlagged, FeedFails
  <2> QED BY <2>1, <2>2
<1>3. ASSUME NEW e \in Failures, CallFails(w, g, e) PROVE WidgetOf(f) \in demo'
  <2>1. OffLive(f) /\ Answered(f)
    BY <1>3, CallKeepsPending DEF CallFails, OffLive, Answered
  <2> QED BY <1>3, <2>1 DEF SeedIsFlagged, CallFails
<1>4. CASE FeedMisread(w, g)
  <2>1. CASE f = g
    BY <1>4, <2>1 DEF FeedMisread, Mark
  <2>2. CASE f # g
    <3>1. OffLive(f) /\ Answered(f)
      BY <1>4, <2>2 DEF FeedMisread, ConsoleTypeOK, WaveStates, OffLive, Answered, Leave
    <3> QED BY <1>4, <3>1 DEF SeedIsFlagged, FeedMisread
  <2> QED BY <2>1, <2>2
<1> QED BY <1>1, <1>2, <1>3, <1>4 DEF AnswerLands

\* A refresh: the one that clears a ribbon replaced the list the ribbon is about.
LEMMA AskKeepsFlags ==
  ASSUME ConsoleTypeOK, SeedIsFlagged, NEW a \in Asks,
         AskLands(a)
  PROVE  SeedIsFlagged'
<1> SUFFICES ASSUME NEW f \in MarkedFeeds \ {"auditing"}, OffLive(f)', Answered(f)'
             PROVE  WidgetOf(f) \in demo'
  BY DEF SeedIsFlagged
<1>1. CASE Ask(a)
  BY <1>1 DEF SeedIsFlagged, Ask, OffLive, Answered
<1>2. CASE AskArrives(a)
  <2>1. OffLive(f) /\ Answered(f)
    BY <1>2, LiveType, BUsAssumption DEF AskArrives, ConsoleTypeOK, OffLive, Answered, Live,
                                        Asks, PageFeeds, WriteFeeds, AppFeeds
  <2>2. WidgetOf(f) \in demo
    BY <2>1 DEF SeedIsFlagged
  <2>3. CASE a.kind = "page"
    BY <1>2, <2>2, <2>3 DEF AskArrives
  <2>4. CASE a.kind # "page"
    <3>1. a.feed \in WriteFeeds
      BY <2>4 DEF Asks, WriteFeeds, AppFeeds
    <3>2. a.kind = "write" => f # a.feed
      BY <1>2, BUsAssumption DEF AskArrives, ConsoleTypeOK, OffLive, Live, Asks, WriteFeeds
    <3>3. a.kind = "app" => f # a.feed
      BY DEF Asks, AppFeeds
    <3>4. a.kind \in {"write", "app"}
      BY <2>4 DEF Asks
    <3> QED BY <1>2, <2>2, <3>1, <3>2, <3>3, <3>4, OwnWidget DEF AskArrives
  <2> QED BY <2>3, <2>4
<1>3. ASSUME NEW e \in Failures, AskFails(a, e) PROVE WidgetOf(f) \in demo'
  BY <1>3 DEF SeedIsFlagged, AskFails, OffLive, Answered
<1>4. CASE AskMisread(a)
  BY <1>4 DEF SeedIsFlagged, AskMisread, OffLive, Answered
<1> QED BY <1>1, <1>2, <1>3, <1>4 DEF AskLands

LEMMA ErrorStepKeepsFlags ==
  ASSUME ConsoleTypeOK, SeedIsFlagged, NEW e \in Failures, ErrorStep(e)
  PROVE  SeedIsFlagged'
<1>1. CASE WriteRefused(e)
  BY <1>1 DEF SeedIsFlagged, WriteRefused, OffLive, Answered
<1>2. CASE EditOffline(e)
  <2>1. WidgetOf("licences") = "licences"
    BY DEF WidgetOf
  <2> QED BY <1>2, <2>1 DEF SeedIsFlagged, EditOffline, OffLive, Answered, ConsoleTypeOK
<1> QED BY <1>1, <1>2 DEF ErrorStep

LEMMA DataStepKeepsFlags ==
  ASSUME FlagInv, [ConsoleNext]_consoleVars
  PROVE  FlagInv'
<1> USE DEF FlagInv
<1>1. CASE UNCHANGED consoleVars
  BY <1>1, DataStepTypes DEF consoleVars, SeedIsFlagged, OffLive, Answered
<1>2. CASE ConsoleNext
  <2>1. ASSUME NEW bu \in BUs, StartWave(bu) PROVE SeedIsFlagged'
    <3>1. waves'[last'].pending = Feeds
      BY <2>1, BoundsAssumption DEF StartWave, ConsoleTypeOK, Wave
    <3> QED BY <3>1 DEF SeedIsFlagged, Answered
  <2>2. ASSUME NEW w \in Waves, Settle(w) PROVE SeedIsFlagged'
    BY <2>2 DEF Settle, ConsoleTypeOK, WaveStates, SeedIsFlagged, OffLive, Answered
  <2> QED BY <1>2, <2>1, <2>2, DataStepKinds, DataStepTypes, WaveKeepsFlags, AskKeepsFlags, ErrorStepKeepsFlags
<1> QED BY <1>1, <1>2

\* In every behaviour, rows that did not come from the API carry their ribbon
\* unless the latest wave is still asking for them (op-boot.js, runFetches).
THEOREM RibbonsHonest == ConsoleSpec => []SeedIsFlagged
<1>1. ConsoleInit => FlagInv
  BY DataInitTypes, BoundsAssumption DEF ConsoleInit, FlagInv, SeedIsFlagged, Answered, Wave
<1>2. FlagInv => SeedIsFlagged
  BY DEF FlagInv
<1> QED BY <1>1, <1>2, DataStepKeepsFlags, PTL DEF ConsoleSpec

-----------------------------------------------------------------------------
(* The rail's "API online".                                                 *)

\* A feed of the latest wave is doomed by a call whose error is still recorded.
LEMMA WaveKeepsDoomed ==
  ASSUME ConsoleTypeOK, DoomedHasError, NEW w \in Waves, NEW g \in Feeds,
         AnswerLands(w, g)
  PROVE  DoomedHasError'
<1>1. CASE FeedArrives(w, g)
  BY <1>1 DEF FeedArrives, Leave, ConsoleTypeOK, WaveStates, DoomedHasError
<1>2. ASSUME NEW e \in Failures, FeedFails(w, g, e) PROVE DoomedHasError'
  BY <1>2 DEF FeedFails, Leave, ConsoleTypeOK, WaveStates, DoomedHasError
<1>3. ASSUME NEW e \in Failures, CallFails(w, g, e) PROVE DoomedHasError'
  BY <1>3 DEF CallFails, DoomedHasError
<1>4. CASE FeedMisread(w, g)
  BY <1>4 DEF FeedMisread, Leave, ConsoleTypeOK, WaveStates, DoomedHasError
<1> QED BY <1>1, <1>2, <1>3, <1>4 DEF AnswerLands

LEMMA WaveKeepsOnline ==
  ASSUME OnlineInv, NEW w \in Waves, NEW g \in Feeds,
         AnswerLands(w, g)
  PROVE  OnlineMeansLive'
<1> USE DEF OnlineInv
<1> SUFFICES ASSUME NEW f \in MarkedFeeds, apiErrors' = {}, f \notin misread', OffLive(f)'
             PROVE  ~Answered(f)'
  BY DEF OnlineMeansLive
<1>1. CASE FeedArrives(w, g)
  <2>1. f # g /\ OffLive(f)
    BY <1>1, LiveType DEF FeedArrives, OffLive, ConsoleTypeOK, WaveStates
  <2>2. ~Answered(f)
    BY <1>1, <2>1 DEF FeedArrives, OnlineMeansLive
  <2> QED BY <1>1, <2>1, <2>2 DEF FeedArrives, Leave, Answered, ConsoleTypeOK, WaveStates
<1>2. ASSUME NEW e \in Failures, FeedFails(w, g, e) PROVE ~Answered(f)'
  <2>1. /\ apiErrors = {} /\ last' = last /\ misread' = misread
        /\ waves[last].doomed = {} /\ g \in waves[w].doomed
    BY <1>2 DEF FeedFails, DoomedHasError
  <2>2. w # last
    BY <2>1
  <2>3. waves'[last] = waves[last] /\ data' = data
    BY <1>2, <2>2 DEF FeedFails, Leave, ConsoleTypeOK, WaveStates
  <2> QED BY <2>1, <2>3 DEF OnlineMeansLive, OffLive, Answered
<1>3. ASSUME NEW e \in Failures, CallFails(w, g, e) PROVE FALSE
  BY <1>3 DEF CallFails
<1>4. CASE FeedMisread(w, g)
  <2>1. ~Answered(f)
    BY <1>4 DEF FeedMisread, OnlineMeansLive, OffLive
  <2>2. w = last => f # g
    BY <1>4 DEF FeedMisread
  <2> QED BY <1>4, <2>1, <2>2 DEF FeedMisread, Leave, Answered, ConsoleTypeOK, WaveStates
<1> QED BY <1>1, <1>2, <1>3, <1>4 DEF AnswerLands

\* Nothing else lands in a wave: errors only grow, and nothing goes off live
\* without an error.
LEMMA OthersKeepOnline ==
  ASSUME OnlineInv, last' = last, misread' = misread, waves'[last].pending = waves[last].pending,
         waves'[last].doomed = waves[last].doomed, apiErrors \subseteq apiErrors',
         apiErrors' = {} => \A f \in MarkedFeeds : OffLive(f)' => OffLive(f)
  PROVE  DoomedHasError' /\ OnlineMeansLive'
BY DEF OnlineInv, DoomedHasError, OnlineMeansLive, Answered

LEMMA DataStepKeepsOnline ==
  ASSUME OnlineInv, [ConsoleNext]_consoleVars
  PROVE  OnlineInv'
<1> USE DEF OnlineInv
<1>1. CASE UNCHANGED consoleVars
  BY <1>1, DataStepTypes DEF consoleVars, DoomedHasError, OnlineMeansLive, OffLive, Answered
<1>2. CASE ConsoleNext
  <2>1. ASSUME NEW bu \in BUs, StartWave(bu) PROVE DoomedHasError' /\ OnlineMeansLive'
    <3>1. waves'[last'].pending = Feeds /\ waves'[last'].doomed = {}
      BY <2>1, BoundsAssumption DEF StartWave, ConsoleTypeOK, Wave
    <3> QED BY <3>1 DEF DoomedHasError, OnlineMeansLive, Answered
  <2>2. ASSUME NEW w \in Waves, Settle(w) PROVE DoomedHasError' /\ OnlineMeansLive'
    BY <2>2, OthersKeepOnline DEF Settle, ConsoleTypeOK, WaveStates, OffLive
  <2>3. ASSUME NEW a \in Asks, AskLands(a)
        PROVE  DoomedHasError' /\ OnlineMeansLive'
    <3>1. apiErrors \subseteq apiErrors' /\ last' = last /\ misread' = misread /\ waves' = waves
      BY <2>3 DEF AskLands, Ask, AskArrives, AskMisread, AskFails
    <3>2. \A f \in MarkedFeeds : OffLive(f)' => OffLive(f)
      BY <2>3, LiveType, BUsAssumption DEF AskLands, Ask, AskArrives, AskMisread, AskFails, OffLive, ConsoleTypeOK,
                                          Asks, PageFeeds, WriteFeeds, AppFeeds
    <3> QED BY <3>1, <3>2, OthersKeepOnline
  <2>4. ASSUME NEW e \in Failures, ErrorStep(e) PROVE DoomedHasError' /\ OnlineMeansLive'
    BY <2>4 DEF ErrorStep, WriteRefused, EditOffline, DoomedHasError, OnlineMeansLive
  <2> QED BY <1>2, <2>1, <2>2, <2>3, <2>4, DataStepKinds, DataStepTypes, WaveKeepsDoomed, WaveKeepsOnline
<1> QED BY <1>1, <1>2

\* In every behaviour, no recorded error and an answered latest wave mean that
\* every marked list came from the API, or was last answered by something that is
\* no list (api.js errors, OC_API.retry).
THEOREM OnlineHonest == ConsoleSpec => []OnlineMeansLive
<1>1. ConsoleInit => OnlineInv
  BY DataInitTypes, BoundsAssumption DEF ConsoleInit, OnlineInv, DoomedHasError, OnlineMeansLive,
                                     Answered, Wave
<1>2. OnlineInv => OnlineMeansLive
  BY DEF OnlineInv
<1> QED BY <1>1, <1>2, DataStepKeepsOnline, PTL DEF ConsoleSpec

-----------------------------------------------------------------------------
(* The server detail page, for any servers, addresses and number of loads. *)

\* The slot names a server only while the load last asked for it is out.
SlotIsLoading ==
  detailLoading # NoId => \E l \in loads : l.id = detailLoading /\ l.idStr = askedAs[detailLoading]

DetailInv == DetailTypeOK /\ SlotIsLoading /\ LoadingIsAwaited

Loads == [nr : 1..MaxLoads, id : ServerIds, idStr : Addresses, stage : LoadStages]
Askings == [ServerIds -> Addresses \cup {NoId}]

\* What drawing leaves behind, from any cache, slot and set of loads.
LEMMA RenderTypes ==
  ASSUME DetailInv, NEW idStr \in Addresses \cup {NoId},
         NEW cached \in [id : ServerIds \cup {NoId}, bundle : Bundles],
         NEW slot \in ServerIds \cup {NoId}, NEW out \in SUBSET Loads,
         slot # NoId => \E l \in out : l.id = slot /\ l.idStr = askedAs[slot],
         route' = idStr,
         renderServerDetailPage(idStr, cached, slot, out)
  PROVE  /\ view' \in Views
         /\ detailLoading' \in ServerIds \cup {NoId} /\ askedAs' \in Askings
         /\ loads' \in SUBSET Loads /\ loadNr' \in 0..MaxLoads
         /\ SlotIsLoading' /\ LoadingIsAwaited'
<1> DEFINE id == view'.id
<1>1. view' = Drawn(idStr, cached)
  BY DEF renderServerDetailPage
<1>2. view' \in Views
  BY <1>1, DetailAssumption DEF Drawn, Views
<1>3. view'.shows = "loading" => idStr \in Addresses /\ id \in ServerIds
  BY <1>1, DetailAssumption DEF Drawn, Bundles
<1> HIDE DEF id
<1>4. CASE view'.shows = "loading" /\ slot # id
  <2> DEFINE new == [nr |-> loadNr + 1, id |-> id, idStr |-> idStr, stage |-> "server"]
  <2>1. /\ loadNr < MaxLoads /\ detailLoading' = id /\ loadNr' = loadNr + 1
        /\ loads' = out \cup {new}
        /\ askedAs' = [askedAs EXCEPT ![id] = idStr]
    BY <1>4 DEF renderServerDetailPage, id
  <2>2. loadNr + 1 \in 1..MaxLoads
    BY <2>1, DetailAssumption DEF DetailInv, DetailTypeOK
  <2>3. new \in Loads
    BY <1>3, <1>4, <2>2 DEF Loads, LoadStages
  <2>4. new \in loads' /\ new.id = id /\ new.idStr = idStr
    BY <2>1
  <2>5. askedAs' \in Askings /\ askedAs'[id] = idStr
    BY <1>3, <1>4, <2>1 DEF DetailInv, DetailTypeOK, Askings
  <2> HIDE DEF new
  <2>6. SlotIsLoading'
    BY <2>1, <2>4, <2>5 DEF SlotIsLoading
  <2>7. LoadingIsAwaited'
    BY <2>4 DEF LoadingIsAwaited, id
  <2> QED BY <1>2, <1>3, <1>4, <2>1, <2>2, <2>3, <2>5, <2>6, <2>7, DetailAssumption
<1>5. CASE ~(view'.shows = "loading" /\ slot # id)
  <2>1. detailLoading' = slot /\ loads' = out /\ loadNr' = loadNr /\ askedAs' = askedAs
    BY <1>5 DEF renderServerDetailPage, id
  <2>2. SlotIsLoading'
    BY <2>1 DEF SlotIsLoading
  <2>3. LoadingIsAwaited'
    <3> SUFFICES ASSUME view'.shows = "loading", askedAs'[id] = route'
                 PROVE  \E l \in loads' : l.id = id /\ l.idStr = route'
      BY DEF LoadingIsAwaited, id
    <3>1. slot = id /\ id # NoId
      BY <1>3, <1>5, DetailAssumption
    <3> QED BY <2>1, <3>1
  <2> QED BY <1>2, <2>1, <2>2, <2>3 DEF DetailInv, DetailTypeOK, Askings
<1> QED BY <1>4, <1>5

\* A load that changes its stage is still a load of its server.
LEMMA AdvanceKeeps ==
  ASSUME DetailInv, NEW l \in loads, NEW stage \in LoadStages, Advance(l, stage),
         route' = route
  PROVE  loads' \in SUBSET Loads /\ SlotIsLoading' /\ LoadingIsAwaited'
<1> DEFINE next == [l EXCEPT !.stage = stage]
<1>1. next \in Loads /\ next.id = l.id /\ next.idStr = l.idStr
  BY DEF DetailInv, DetailTypeOK, Loads
<1>2. loads' = (loads \ {l}) \cup {next}
  BY DEF Advance
<1> HIDE DEF next
<1>3. \A id, idStr : (\E m \in loads : m.id = id /\ m.idStr = idStr)
                      => \E m \in loads' : m.id = id /\ m.idStr = idStr
  BY <1>1, <1>2
<1>4. SlotIsLoading'
  BY <1>3 DEF SlotIsLoading, Advance, DetailInv
<1>5. LoadingIsAwaited'
  BY <1>3 DEF LoadingIsAwaited, Advance, DetailInv
<1> QED BY <1>1, <1>2, <1>4, <1>5 DEF DetailInv, DetailTypeOK, Loads

\* The load that ends frees the slot whoever holds it, and draws only its own address.
LEMMA FinishKeeps ==
  ASSUME DetailInv, NEW l \in loads, NEW bundle \in Bundles, Finish(l, bundle), route' = route
  PROVE  /\ view' \in Views
         /\ detailLoaded' \in [id : ServerIds \cup {NoId}, bundle : Bundles]
         /\ detailLoading' \in ServerIds \cup {NoId} /\ askedAs' \in Askings
         /\ loads' \in SUBSET Loads /\ loadNr' \in 0..MaxLoads
         /\ SlotIsLoading' /\ LoadingIsAwaited'
<1> DEFINE cached == [id |-> l.id, bundle |-> bundle]
<1>1. l.id \in ServerIds /\ loads \ {l} \in SUBSET Loads
  BY DEF DetailInv, DetailTypeOK, Loads
<1>2. cached \in [id : ServerIds \cup {NoId}, bundle : Bundles] /\ detailLoaded' = cached
  BY <1>1 DEF Finish
<1>3. CASE route = l.idStr
  <2>1. renderServerDetailPage(route, cached, NoId, loads \ {l})
    BY <1>3 DEF Finish
  <2>2. route \in Addresses \cup {NoId}
    BY DEF DetailInv, DetailTypeOK
  <2> HIDE DEF cached
  <2> QED BY <1>1, <1>2, <2>1, <2>2, RenderTypes
<1>4. CASE route # l.idStr
  <2>1. /\ detailLoading' = NoId /\ loads' = loads \ {l}
        /\ view' = view /\ loadNr' = loadNr /\ askedAs' = askedAs
    BY <1>4 DEF Finish
  <2>2. SlotIsLoading'
    BY <2>1 DEF SlotIsLoading
  <2>3. LoadingIsAwaited'
    BY <1>4, <2>1 DEF LoadingIsAwaited, DetailInv
  <2> QED BY <1>1, <1>2, <2>1, <2>2, <2>3 DEF DetailInv, DetailTypeOK, Askings
<1> QED BY <1>3, <1>4

LEMMA StepKeepsDetail ==
  ASSUME DetailInv, [DetailNext]_detailVars
  PROVE  DetailInv'
<1> USE DEF Loads, Askings
<1>0. /\ loads \in SUBSET Loads
      /\ detailLoading # NoId =>
           \E l \in loads : l.id = detailLoading /\ l.idStr = askedAs[detailLoading]
  BY DEF DetailInv, DetailTypeOK, SlotIsLoading
<1>1. CASE UNCHANGED detailVars
  BY <1>1 DEF DetailInv, DetailTypeOK, SlotIsLoading, LoadingIsAwaited, detailVars
<1>2. ASSUME NEW idStr \in Addresses \cup {NoId}, Goto(idStr) PROVE DetailInv'
  BY <1>0, <1>2, RenderTypes DEF DetailInv, DetailTypeOK, Goto
<1>3. CASE Rerender
  <2>1. route' = route /\ renderServerDetailPage(route, detailLoaded, detailLoading, loads)
    BY <1>3 DEF Rerender
  <2> QED BY <1>0, <1>3, <2>1, RenderTypes DEF DetailInv, DetailTypeOK, Rerender
<1>4. ASSUME NEW l \in loads, ServerFound(l) \/ ServerMissing(l) PROVE DetailInv'
  <2>1. PICK stage \in LoadStages : Advance(l, stage)
    BY <1>4 DEF ServerFound, ServerMissing, LoadStages
  <2>2. route' = route /\ errors' \in BOOLEAN /\ detailRibbon' = detailRibbon /\ retries' = retries
    BY <1>4 DEF ServerFound, ServerMissing, DetailInv, DetailTypeOK
  <2>3. loads' \in SUBSET Loads /\ SlotIsLoading' /\ LoadingIsAwaited'
    BY <2>1, <2>2, AdvanceKeeps
  <2> QED BY <2>1, <2>2, <2>3 DEF Advance, DetailInv, DetailTypeOK
<1>5. ASSUME NEW l \in loads, NEW ok \in BOOLEAN, PartsAnswered(l, ok) PROVE DetailInv'
  <2>1. PICK bundle \in Bundles : Finish(l, bundle)
    BY <1>5 DEF PartsAnswered, Bundles
  <2>2. route' = route /\ errors' \in BOOLEAN /\ detailRibbon' \in BOOLEAN /\ retries' = retries
    BY <1>5 DEF PartsAnswered, DetailInv, DetailTypeOK
  <2> QED BY <2>1, <2>2, FinishKeeps DEF DetailInv, DetailTypeOK
<1>6. CASE RetryWave
  <2>1. retries + 1 \in 0..MaxRetries
    BY <1>6, DetailAssumption DEF RetryWave, DetailInv, DetailTypeOK
  <2> QED BY <1>6, <2>1 DEF RetryWave, DetailInv, DetailTypeOK, SlotIsLoading, LoadingIsAwaited
<1> QED BY <1>1, <1>2, <1>3, <1>4, <1>5, <1>6 DEF DetailNext, LoadStep

LEMMA DetailStart == DetailInit => DetailInv
<1> SUFFICES ASSUME DetailInit PROVE DetailInv
  OBVIOUS
<1>1. DetailTypeOK
  <2>1. /\ view \in Views
        /\ detailLoaded \in [id : ServerIds \cup {NoId}, bundle : Bundles]
    BY DEF DetailInit, Empty, Bundles, Views
  <2>2. loadNr \in 0..MaxLoads /\ retries \in 0..MaxRetries
    BY DetailAssumption DEF DetailInit
  <2>3. /\ route = NoId /\ detailLoading = NoId /\ loads = {}
        /\ errors = FALSE /\ detailRibbon = FALSE
        /\ askedAs = [id \in ServerIds |-> NoId]
    BY DEF DetailInit
  <2> QED BY <2>1, <2>2, <2>3 DEF DetailTypeOK
<1>2. SlotIsLoading
  BY DEF DetailInit, SlotIsLoading
<1>3. LoadingIsAwaited
  BY DEF DetailInit, LoadingIsAwaited
<1> QED BY <1>1, <1>2, <1>3 DEF DetailInv

\* In every behaviour a page that says "loading" and whose address is written as
\* it was when its server was last asked for has that load out, and its end draws
\* the page (_serverDetailLoading and stillOnSamePage of op-pages.js).
THEOREM LoadingEndsInView == DetailSpec => []LoadingIsAwaited
<1>1. DetailInv => LoadingIsAwaited
  BY DEF DetailInv
<1> QED BY <1>1, DetailStart, StepKeepsDetail, PTL DEF DetailSpec

-----------------------------------------------------------------------------
(* The AD search pickers, for any queries, names and number of searches.   *)

\* Drawing the picker keeps its part of the types.
LEMMA DrawTypes ==
  ASSUME SearchTypeOK, NEW t \in Texts, NEW busy \in BOOLEAN,
         NEW pending \in SUBSET searches, Draw(t, liveQ, busy, pending)
  PROVE  /\ drawn' \in Texts /\ liveQ' \in Texts /\ searching' \in BOOLEAN
         /\ searches' \in SUBSET [nr : 1..MaxSearches, q : Queries]
         /\ searchNr' \in 0..MaxSearches
<1>1. CASE t \in Queries /\ liveQ # t
  <2>1. /\ drawn' = t /\ liveQ' = t /\ searching' = TRUE
        /\ searchNr < MaxSearches /\ searchNr' = searchNr + 1
        /\ searches' = pending \cup {[nr |-> searchNr + 1, q |-> t]}
    BY <1>1 DEF Draw
  <2>2. searchNr + 1 \in 1..MaxSearches
    <3>1. searchNr \in 0..MaxSearches /\ MaxSearches \in Nat
      BY BoundAssumption DEF SearchTypeOK
    <3> QED BY <2>1, <3>1
  <2>3. pending \in SUBSET [nr : 1..MaxSearches, q : Queries]
    BY DEF SearchTypeOK
  <2>4. searches' \in SUBSET [nr : 1..MaxSearches, q : Queries]
    BY <1>1, <2>1, <2>2, <2>3
  <2>5. searchNr' \in 0..MaxSearches
    BY <2>1, <2>2
  <2> QED BY <2>1, <2>4, <2>5
<1>2. CASE ~(t \in Queries /\ liveQ # t)
  BY <1>2 DEF Draw, SearchTypeOK
<1> QED BY <1>1, <1>2

LEMMA SearchStepTypes ==
  ASSUME SearchTypeOK, [SearchNext]_searchVars
  PROVE  SearchTypeOK'
<1>0. "" \in Texts
  BY SearchAssumption DEF Texts
<1>1. CASE UNCHANGED searchVars
  BY <1>1 DEF SearchTypeOK, searchVars
<1>2. ASSUME NEW t \in Texts, Type(t) PROVE SearchTypeOK'
  BY <1>2 DEF SearchTypeOK, Type
<1>3. CASE DrawPage
  BY <1>3, DrawTypes DEF SearchTypeOK, DrawPage
<1>4. ASSUME NEW a \in searches, AnswerStep(a) PROVE SearchTypeOK'
  <2>1. PICK rows \in SUBSET Names, ok \in BOOLEAN : SearchAnswered(a, rows, ok)
    BY <1>4 DEF AnswerStep
  <2>2. a.q \in Texts
    BY DEF SearchTypeOK, Texts
  <2>3. CASE a.q = liveQ
    <3>1. Draw(typed, liveQ, FALSE, searches \ {a})
      BY <2>1, <2>3 DEF SearchAnswered
    <3>2. typed \in Texts /\ searches \ {a} \in SUBSET searches
      BY DEF SearchTypeOK
    <3>3. /\ drawn' \in Texts /\ liveQ' \in Texts /\ searching' \in BOOLEAN
          /\ searches' \in SUBSET [nr : 1..MaxSearches, q : Queries]
          /\ searchNr' \in 0..MaxSearches
      BY <3>1, <3>2, DrawTypes
    <3> QED BY <2>1, <2>2, <2>3, <3>3 DEF SearchAnswered, SearchTypeOK
  <2>4. CASE a.q # liveQ
    BY <2>1, <2>4 DEF SearchAnswered, SearchTypeOK
  <2> QED BY <2>3, <2>4
<1>5. ASSUME NEW n \in Names, Tick(n) PROVE SearchTypeOK'
  BY <1>5, DrawTypes DEF SearchTypeOK, Tick
<1>6. ASSUME NEW names \in SUBSET Names, Bind(names) PROVE SearchTypeOK'
  BY <1>0, <1>6, DrawTypes DEF SearchTypeOK, Bind
<1>7. ASSUME NEW names \in SUBSET Names, PickUser(names) PROVE SearchTypeOK'
  BY <1>0, <1>7, DrawTypes DEF SearchTypeOK, PickUser
<1>8. CASE ClearSelection
  BY <1>8, DrawTypes DEF SearchTypeOK, ClearSelection
<1> QED BY <1>1, <1>2, <1>3, <1>4, <1>5, <1>6, <1>7, <1>8 DEF SearchNext

LEMMA SearchStart == SearchInit => SearchTypeOK
<1> SUFFICES ASSUME SearchInit PROVE SearchTypeOK
  OBVIOUS
<1>0. "" \in Texts
  BY SearchAssumption DEF Texts
<1>1. 0 \in 0..MaxSearches
  BY BoundAssumption
<1>2. picker \in {"groups", "users"}
  BY DEF SearchInit
<1>3. /\ typed \in Texts /\ drawn \in Texts /\ liveQ \in Texts /\ liveFor \in Texts
      /\ searchNr \in 0..MaxSearches
  BY <1>0, <1>1 DEF SearchInit
<1>4. /\ liveErr \in BOOLEAN /\ searching \in BOOLEAN
      /\ live = {} /\ sel = {} /\ bound = {} /\ searches = {}
  BY DEF SearchInit
<1> QED BY <1>2, <1>3, <1>4 DEF SearchTypeOK

\* What is drawn, asked for and ticked stays of its type (the state of
\* renderADGroupPicker and renderUserPicker).
THEOREM SearchTypes == SearchSpec => []SearchTypeOK
BY SearchStart, SearchStepTypes, PTL DEF SearchSpec

\* Whatever text the page is drawn with, drawing asks for it anew or leaves the
\* query, its answer and the searches alone.
LEMMA DrawKeepsAnswer ==
  ASSUME NEW t, NEW busy, NEW pending, Draw(t, liveQ, busy, pending),
         (\A a \in pending : a.q # liveQ) => liveFor' = liveQ /\ busy = FALSE
  PROVE  LatestAnswerKept'
<1>1. CASE t \in Queries /\ liveQ # t
  <2>1. [nr |-> searchNr + 1, q |-> t] \in searches' /\ liveQ' = t
    BY <1>1 DEF Draw
  <2> QED BY <2>1 DEF LatestAnswerKept
<1>2. CASE ~(t \in Queries /\ liveQ # t)
  BY <1>2 DEF Draw, LatestAnswerKept
<1> QED BY <1>1, <1>2

LEMMA StepKeepsAnswer ==
  ASSUME SearchTypeOK, LatestAnswerKept, [SearchNext]_searchVars
  PROVE  LatestAnswerKept'
<1>0. (\A a \in searches : a.q # liveQ) => liveFor = liveQ /\ searching = FALSE
  BY DEF LatestAnswerKept
<1>1. CASE UNCHANGED searchVars
  BY <1>1 DEF LatestAnswerKept, searchVars
<1>2. ASSUME NEW t \in Texts, Type(t) PROVE LatestAnswerKept'
  BY <1>2 DEF LatestAnswerKept, Type
<1>3. ASSUME DrawPage \/ ClearSelection \/ \E n \in Names : Tick(n) PROVE LatestAnswerKept'
  <2>1. Draw(typed, liveQ, searching, searches) /\ liveFor' = liveFor
    BY <1>3 DEF DrawPage, ClearSelection, Tick
  <2> QED BY <1>0, <2>1, DrawKeepsAnswer
<1>4. ASSUME NEW names \in SUBSET Names, Bind(names) \/ PickUser(names) PROVE LatestAnswerKept'
  <2>1. Draw("", liveQ, searching, searches) /\ liveFor' = liveFor
    BY <1>4 DEF Bind, PickUser
  <2> QED BY <1>0, <2>1, DrawKeepsAnswer
<1>5. ASSUME NEW a \in searches, AnswerStep(a) PROVE LatestAnswerKept'
  <2>1. PICK rows \in SUBSET Names, ok \in BOOLEAN : SearchAnswered(a, rows, ok)
    BY <1>5 DEF AnswerStep
  <2>2. CASE a.q = liveQ
    <3>1. Draw(typed, liveQ, FALSE, searches \ {a}) /\ liveFor' = liveQ
      BY <2>1, <2>2 DEF SearchAnswered
    <3> QED BY <3>1, DrawKeepsAnswer
  <2>3. CASE a.q # liveQ
    BY <2>1, <2>3 DEF SearchAnswered, LatestAnswerKept
  <2> QED BY <2>2, <2>3
<1> QED BY <1>1, <1>2, <1>3, <1>4, <1>5 DEF SearchNext

\* However the answers of a picker's searches are ordered, once none to the last
\* query is out its answer is the one kept (the q !== s._liveQ checks of op-pages.js).
THEOREM AnswersKept == SearchSpec => []LatestAnswerKept
<1>1. SearchInit => LatestAnswerKept
  BY DEF SearchInit, LatestAnswerKept
<1> QED BY <1>1, SearchTypes, StepKeepsAnswer, PTL DEF SearchSpec

-----------------------------------------------------------------------------
(* The Disks page, for any estate and any number of requests.               *)

LEMMA KindCounts ==
  /\ \A k : Cardinality({k}) = 1
  /\ Cardinality(WaveKinds) = 2
<1>1. \A k : Cardinality({k}) = 1
  BY FS_Singleton
<1>2. Cardinality(WaveKinds) = 2
  <2>1. IsFiniteSet({"wave_list"}) /\ Cardinality({"wave_list"}) = 1
    BY FS_Singleton
  <2>2. WaveKinds = {"wave_list"} \cup {"wave_summary"}
    BY DEF WaveKinds
  <2> QED BY <2>1, <2>2, FS_AddElement
<1> QED BY <1>1, <1>2

\* A request asks for what its page may ask for.
LEMMA QueryTypes ==
  /\ \A bu \in DiskBUs : WaveQuery(bu) \in DiskQueries
  /\ \A state \in [status : StatusesOf \cup {AllOf}, owner : OwnersOf \cup {AllOf},
                   envs : SUBSET EnvsOf, nonprod : BOOLEAN], bu \in DiskBUs :
       QueryOf(state, bu) \in DiskQueries
BY DEF WaveQuery, QueryOf, DiskQueries, EnvsOf

LEMMA SendTypes ==
  ASSUME DisksTypeOK, NEW q \in DiskQueries, NEW kinds \in {{"filter"}, WaveKinds},
         Send(kinds, q)
  PROVE  fetches' \in SUBSET Fetches /\ fetched' \in 0..MaxFetches
<1>1. MaxFetches \in Nat /\ fetched \in Nat /\ fetches \in SUBSET Fetches
  BY DisksAssumption DEF DisksTypeOK
<1>2. CASE kinds = {"filter"}
  <2>1. fetched + 1 =< MaxFetches /\ fetched' = fetched + 1
    BY <1>2, KindCounts DEF Send
  <2>2. fetches' = fetches \cup {[kind |-> "filter", query |-> q, nr |-> fetched + 1]}
    BY <1>2 DEF Send
  <2> QED BY <1>1, <2>1, <2>2 DEF Fetches
<1>3. CASE kinds = WaveKinds
  <2>1. fetched + 2 =< MaxFetches /\ fetched' = fetched + 2
    BY <1>3, KindCounts DEF Send
  <2>2. fetches' = fetches \cup {[kind |-> "wave_list", query |-> q, nr |-> fetched + 1],
                                 [kind |-> "wave_summary", query |-> q, nr |-> fetched + 2]}
    BY <1>3 DEF Send, WaveKinds
  <2> QED BY <1>1, <2>1, <2>2 DEF Fetches
<1> QED BY <1>2, <1>3

LEMMA DisksStepTypes ==
  ASSUME DisksTypeOK, [DisksNext]_diskVars
  PROVE  DisksTypeOK'
<1> DEFINE States == [status : StatusesOf \cup {AllOf}, owner : OwnersOf \cup {AllOf},
                      envs : SUBSET EnvsOf, nonprod : BOOLEAN]
<1>1. CASE UNCHANGED diskVars
  BY <1>1 DEF DisksTypeOK, diskVars
<1>2. ASSUME NEW bu \in DiskBUs, Rewave(bu) PROVE DisksTypeOK'
  BY <1>2, SendTypes, QueryTypes DEF DisksTypeOK, Rewave
<1>3. ASSUME NEW state \in States, Refilter(state) PROVE DisksTypeOK'
  <2>1. QueryOf(state, railBu) \in DiskQueries
    BY QueryTypes DEF DisksTypeOK
  <2> QED BY <1>3, <2>1, SendTypes DEF DisksTypeOK, Refilter
<1>4. ASSUME NEW s \in StatusesOf \cup {AllOf}, FilterStatus(s) PROVE DisksTypeOK'
  BY <1>3, <1>4 DEF FilterStatus, DisksTypeOK
<1>5. ASSUME NEW e \in EnvsOf, ToggleEnv(e) PROVE DisksTypeOK'
  BY <1>3, <1>5 DEF ToggleEnv, DisksTypeOK
<1>6. CASE AllEnvs
  BY <1>3, <1>6 DEF AllEnvs, DisksTypeOK
<1>7. CASE ToggleNonprod
  BY <1>3, <1>7 DEF ToggleNonprod, DisksTypeOK
<1>8. ASSUME NEW o \in OwnersOf \cup {AllOf}, ChangeOwner(o) PROVE DisksTypeOK'
  BY <1>8 DEF ChangeOwner, DisksTypeOK
<1>9. CASE Reset
  <2> DEFINE landing == [status |-> AllOf, owner |-> AllOf, envs |-> DefaultEnvs,
                         nonprod |-> FALSE]
  <2>1. landing \in States /\ diskState' = landing
    BY <1>9 DEF Reset, EnvsOf
  <2>2. fetches' \in SUBSET Fetches /\ fetched' \in 0..MaxFetches
    <3>1. CASE UNCHANGED <<fetches, fetched>>
      BY <3>1 DEF DisksTypeOK
    <3>2. CASE Send({"filter"}, QueryOf(landing, railBu))
      <4>1. QueryOf(landing, railBu) \in DiskQueries
        BY <2>1, QueryTypes DEF DisksTypeOK
      <4> HIDE DEF landing
      <4> QED BY <3>2, <4>1, SendTypes
    <3> QED BY <1>9, <3>1, <3>2 DEF Reset
  <2> QED BY <1>9, <2>1, <2>2 DEF Reset, DisksTypeOK
<1>10. ASSUME NEW f \in fetches, FetchArrives(f) \/ FetchFails(f) PROVE DisksTypeOK'
  <2>1. f.query \in DiskQueries /\ [f.query EXCEPT !.envs = {}] \in DiskQueries
    BY DEF DisksTypeOK, Fetches, DiskQueries
  <2>2. CASE FetchArrives(f)
    BY <2>1, <2>2 DEF FetchArrives, DisksTypeOK
  <2>3. CASE FetchFails(f)
    BY <2>1, <2>3 DEF FetchFails, DisksTypeOK
  <2> QED BY <1>10, <2>2, <2>3
<1> QED
  BY <1>1, <1>2, <1>4, <1>5, <1>6, <1>7, <1>8, <1>9, <1>10 DEF DisksNext

LEMMA DisksInitTypes == DisksInit => DisksTypeOK
<1> SUFFICES ASSUME DisksInit PROVE DisksTypeOK
  OBVIOUS
<1>1. WaveQuery(railBu) \in DiskQueries
  BY QueryTypes DEF DisksInit
<1>2. fetches \in SUBSET Fetches /\ fetched \in 0..MaxFetches
  BY <1>1, DisksAssumption DEF DisksInit, Fetches
<1> QED BY <1>2 DEF DisksInit, DisksTypeOK, EnvsOf

\* In every state whose list answers the filters the page shows, and found
\* something, the second pass of applyDiskFilters takes nothing away but by owner,
\* and the figures of the summary are the table's (op-pages.js, liveDisks and
\* diskKpisForFilter).
THEOREM TableIsTheAnswer == DisksSpec => []TableAgrees
<1>1. DisksTypeOK => TableAgrees
  <2> DEFINE q == QueryOf(diskState, railBu)
  <2> SUFFICES ASSUME DisksTypeOK, listed = q, Answer(q) # {}
               PROVE  /\ applyDiskFilters = Selected
                      /\ summed = q /\ diskState.owner = AllOf =>
                           \A s \in StatusesOf :
                              diskKpisForFilter[s] =
                                Cardinality({d \in applyDiskFilters : d.status = s})
    BY DEF TableAgrees
  <2>1. q # Seed
    BY DisksAssumption DEF QueryOf, Seed, DisksTypeOK
  <2>2. liveDisks = Answer(q)
    BY <2>1 DEF liveDisks
  <2>3. applyDiskFilters = Selected
    BY <2>2 DEF applyDiskFilters, Selected, Answer, QueryOf
  <2>4. ASSUME summed = q, diskState.owner = AllOf, NEW s \in StatusesOf
        PROVE  diskKpisForFilter[s] = Cardinality({d \in applyDiskFilters : d.status = s})
    <3>1. applyDiskFilters = Answer(q)
      BY <2>3, <2>4 DEF Selected
    <3> HIDE DEF q
    <3> QED BY <2>1, <2>4, <3>1 DEF diskKpisForFilter
  <2> QED BY <2>3, <2>4
<1> QED BY <1>1, DisksInitTypes, DisksStepTypes, PTL DEF DisksSpec

-----------------------------------------------------------------------------
(* The exclusion wizard and the bulk form, for any servers, texts and number *)
(* of writes.                                                               *)

\* A draft with servers got past the reason only by telling one, and no draft got
\* to the confirm step without a date.
DraftSound(d) ==
  /\ d.step >= 3 /\ d.servers # {} => Told(d)
  /\ d.step = 4 => d.until

\* The draft behind the visible page is the one it was rendered from, text and
\* error apart, unless an answered submission has emptied it since.
Emptied(d) == d.step = 1 /\ d.servers = {} /\ d.until = FALSE
DraftBehind ==
  \/ Emptied(pm.add)
  \/ /\ pm.add.step = seen.add.step /\ pm.add.servers = seen.add.servers
     /\ pm.add.reason = seen.add.reason /\ pm.add.until = seen.add.until

PageStates == [tab : Tabs, add : Wizards, bulk : BulkForms]
WritesNumbered == \A c \in exCalls : c.nr =< exNr

WizardInv ==
  /\ ExclusionsTypeOK /\ WritesNumbered
  /\ DraftSound(pm.add) /\ DraftSound(seen.add) /\ DraftBehind

\* Types of the pieces the steps are made of.
LEMMA DraftTypes ==
  /\ EmptyWizard \in Wizards /\ EmptyBulk \in BulkForms
  /\ \A d \in Wizards : ReasonSent(d) \in Categories \cup Typed
  /\ \A d \in BulkForms : ReasonSent(d) \in Categories \cup Typed
<1>1. EmptyWizard \in Wizards /\ EmptyBulk \in BulkForms
  BY DEF EmptyWizard, EmptyBulk, Wizards, BulkForms, Categories, Typed
<1>2. ASSUME NEW d, d.reason \in Categories, d.text \in Typed
      PROVE  ReasonSent(d) \in Categories \cup Typed
  <2>1. CASE d.reason # "Other"
    BY <1>2, <2>1 DEF ReasonSent
  <2>2. CASE d.reason = "Other" /\ d.text = ""
    BY <2>2 DEF ReasonSent, Categories
  <2>3. CASE d.reason = "Other" /\ d.text # ""
    BY <1>2, <2>3 DEF ReasonSent
  <2> QED BY <2>1, <2>2, <2>3
<1>3. \A d \in Wizards : ReasonSent(d) \in Categories \cup Typed
  BY <1>2 DEF Wizards
<1>4. \A d \in BulkForms : ReasonSent(d) \in Categories \cup Typed
  BY <1>2 DEF BulkForms
<1> QED BY <1>1, <1>3, <1>4

LEMMA EmptyIsEmptied == Emptied(EmptyWizard)
BY DEF Emptied, EmptyWizard

LEMMA EmptiedIsSound ==
  ASSUME NEW d, Emptied(d) PROVE DraftSound(d)
BY DEF Emptied, DraftSound

LEMMA CallsAreCounted == MaxExCalls \in Nat
BY ExclusionsAssumption

\* One field of the wizard's draft is changed.
LEMMA DraftEdits ==
  ASSUME NEW q \in PageStates
  PROVE  /\ q.add \in Wizards
         /\ \A s \in SUBSET Hosts :
              /\ [q EXCEPT !.add.servers = s] \in PageStates
              /\ [q EXCEPT !.add.servers = s].add = [q.add EXCEPT !.servers = s]
         /\ \A n \in 1..4 :
              /\ [q EXCEPT !.add.step = n] \in PageStates
              /\ [q EXCEPT !.add.step = n].add = [q.add EXCEPT !.step = n]
         /\ \A r \in Categories :
              /\ [q EXCEPT !.add.reason = r] \in PageStates
              /\ [q EXCEPT !.add.reason = r].add = [q.add EXCEPT !.reason = r]
         /\ \A t \in Typed :
              /\ [q EXCEPT !.add.text = t] \in PageStates
              /\ [q EXCEPT !.add.text = t].add = [q.add EXCEPT !.text = t]
         /\ \A b \in BOOLEAN :
              /\ [q EXCEPT !.add.until = b] \in PageStates
              /\ [q EXCEPT !.add.until = b].add = [q.add EXCEPT !.until = b]
              /\ [q EXCEPT !.add.error = b] \in PageStates
              /\ [q EXCEPT !.add.error = b].add = [q.add EXCEPT !.error = b]
<1> USE DEF PageStates, Wizards
<1>1. q.add \in Wizards
  OBVIOUS
<1>2. \A s \in SUBSET Hosts :
        /\ [q EXCEPT !.add.servers = s] \in PageStates
        /\ [q EXCEPT !.add.servers = s].add = [q.add EXCEPT !.servers = s]
  OBVIOUS
<1>3. \A n \in 1..4 :
        /\ [q EXCEPT !.add.step = n] \in PageStates
        /\ [q EXCEPT !.add.step = n].add = [q.add EXCEPT !.step = n]
  OBVIOUS
<1>4. \A r \in Categories :
        /\ [q EXCEPT !.add.reason = r] \in PageStates
        /\ [q EXCEPT !.add.reason = r].add = [q.add EXCEPT !.reason = r]
  OBVIOUS
<1>5. \A t \in Typed :
        /\ [q EXCEPT !.add.text = t] \in PageStates
        /\ [q EXCEPT !.add.text = t].add = [q.add EXCEPT !.text = t]
  OBVIOUS
<1>6. \A b \in BOOLEAN :
        /\ [q EXCEPT !.add.until = b] \in PageStates
        /\ [q EXCEPT !.add.until = b].add = [q.add EXCEPT !.until = b]
        /\ [q EXCEPT !.add.error = b] \in PageStates
        /\ [q EXCEPT !.add.error = b].add = [q.add EXCEPT !.error = b]
  OBVIOUS
<1> QED BY <1>1, <1>2, <1>3, <1>4, <1>5, <1>6

LEMMA DetachedTypes ==
  ASSUME NEW calls \in SUBSET ExCalls, \A c \in calls : c.nr =< exNr
  PROVE  Detached(calls) \in SUBSET ExCalls /\ \A c \in Detached(calls) : c.nr =< exNr
BY DEF Detached, ExCalls

\* What a click leaves behind, when it leaves the draft sound.
LEMMA ClickKeeps ==
  ASSUME WizardInv, NEW p \in PageStates, Click(p),
         DraftSound(p.add)
  PROVE  WizardInv'
BY DEF PageStates, WizardInv, ExclusionsTypeOK, WritesNumbered, DraftBehind, Click, Shows, Ready

\* The same for a click that changes nothing of the wizard's draft but its error.
LEMMA ElsewhereKeeps ==
  ASSUME WizardInv, NEW p \in PageStates, Click(p),
         p.add = pm.add \/ \E e \in BOOLEAN : p.add = [pm.add EXCEPT !.error = e]
  PROVE  WizardInv'
<1>1. pm.add \in Wizards /\ DraftSound(pm.add)
  BY DEF WizardInv, ExclusionsTypeOK
<1>2. DraftSound(p.add)
  BY <1>1 DEF DraftSound, Told, Wizards
<1> QED BY <1>2, ClickKeeps

\* A click works on the step that is seen, or on an emptied draft.
LEMMA StepIsSeen ==
  ASSUME WizardInv
  PROVE  pm.add.step = seen.add.step \/ (pm.add.step = 1 /\ pm.add.until = FALSE)
BY DEF WizardInv, DraftBehind, Emptied

LEMMA DraftFacts ==
  ASSUME WizardInv
  PROVE  /\ pm \in PageStates /\ seen \in PageStates /\ DraftSound(pm.add)
         /\ pm.add \in Wizards /\ pm.add.step \in 1..4 /\ seen.add.step \in 1..4
<1>1. pm \in PageStates /\ seen \in PageStates /\ DraftSound(pm.add)
  BY DEF WizardInv, ExclusionsTypeOK, PageStates
<1> QED BY <1>1 DEF PageStates, Wizards

LEMMA ToggleKeeps ==
  ASSUME WizardInv, NEW s \in Hosts, ToggleServer(s) PROVE WizardInv'
<1> DEFINE picks == IF s \in pm.add.servers THEN pm.add.servers \ {s} ELSE pm.add.servers \cup {s}
           p == [pm EXCEPT !.add.servers = picks]
<1>1. Click(p) /\ OnStep(1)
  BY DEF ToggleServer
<1>2. pm.add.step = 1
  BY <1>1, StepIsSeen DEF OnStep
<1>3. picks \in SUBSET Hosts
  BY DraftFacts DEF Wizards
<1> HIDE DEF picks
<1>4. p \in PageStates /\ p.add = [pm.add EXCEPT !.servers = picks]
  BY <1>3, DraftFacts, DraftEdits
<1> HIDE DEF p
<1>5. DraftSound(p.add)
  BY <1>2, <1>4, DraftFacts DEF DraftSound, Wizards
<1> QED BY <1>1, <1>4, <1>5, ClickKeeps

LEMMA ReasonKeeps ==
  ASSUME WizardInv, NEW r \in Categories, PickReason(r) PROVE WizardInv'
<1> DEFINE p == [pm EXCEPT !.add.reason = r]
<1>1. Click(p) /\ OnStep(2)
  BY DEF PickReason
<1>2. pm.add.step \in {1, 2}
  BY <1>1, StepIsSeen DEF OnStep
<1>3. p \in PageStates /\ p.add = [pm.add EXCEPT !.reason = r]
  BY DraftFacts, DraftEdits
<1> HIDE DEF p
<1>4. DraftSound(p.add)
  <2>1. p.add.step = pm.add.step
    BY <1>3, DraftFacts DEF Wizards
  <2>2. ~(p.add.step >= 3) /\ p.add.step # 4
    BY <1>2, <2>1
  <2> QED BY <2>2 DEF DraftSound
<1> QED BY <1>1, <1>3, <1>4, ClickKeeps

LEMMA UntilKeeps ==
  ASSUME WizardInv, PickUntil PROVE WizardInv'
<1> DEFINE p == [pm EXCEPT !.add.until = TRUE]
<1>1. Click(p)
  BY DEF PickUntil
<1>2. p \in PageStates /\ p.add = [pm.add EXCEPT !.until = TRUE]
  BY DraftFacts, DraftEdits
<1> HIDE DEF p
<1>3. DraftSound(p.add)
  BY <1>2, DraftFacts DEF DraftSound, Wizards, Told
<1> QED BY <1>1, <1>2, <1>3, ClickKeeps

\* To another step: to the third with a reason told, to the fourth with a date.
LEMMA TurnKeeps ==
  ASSUME WizardInv, NEW n \in 1..4, Click([pm EXCEPT !.add.step = n]),
         n >= 3 /\ pm.add.servers # {} => Told(pm.add), n = 4 => pm.add.until
  PROVE  WizardInv'
<1> DEFINE p == [pm EXCEPT !.add.step = n]
<1>1. p \in PageStates /\ p.add = [pm.add EXCEPT !.step = n]
  BY DraftFacts, DraftEdits
<1>2. Click(p)
  OBVIOUS
<1> HIDE DEF p
<1>3. DraftSound(p.add)
  BY <1>1, DraftFacts DEF DraftSound, Wizards, Told
<1> QED BY <1>1, <1>2, <1>3, ClickKeeps

LEMMA NextKeeps ==
  ASSUME WizardInv, NextReason \/ NextUntil \/ NextConfirm PROVE WizardInv'
<1>1. CASE NextReason
  BY <1>1, TurnKeeps DEF NextReason
<1>2. CASE NextUntil
  BY <1>2, TurnKeeps DEF NextUntil
<1>3. CASE NextConfirm
  <2>1. OnStep(3) /\ pm.add.until /\ Click([pm EXCEPT !.add.step = 4])
    BY <1>3 DEF NextConfirm
  <2>2. pm.add.step = 3
    BY <2>1, StepIsSeen DEF OnStep
  <2>3. pm.add.servers # {} => Told(pm.add)
    BY <2>2, DraftFacts DEF DraftSound
  <2> QED BY <2>1, <2>3, TurnKeeps
<1> QED BY <1>1, <1>2, <1>3

LEMMA BackKeeps ==
  ASSUME WizardInv, NEW n \in 1..3, BackTo(n) PROVE WizardInv'
<1>1. n < seen.add.step /\ Click([pm EXCEPT !.add.step = n])
  BY DEF BackTo
<1>2. pm.add.servers = {} \/ n < pm.add.step
  BY <1>1 DEF WizardInv, DraftBehind, Emptied
<1>3. n >= 3 /\ pm.add.servers # {} => Told(pm.add)
  BY <1>2, DraftFacts DEF DraftSound
<1> QED BY <1>1, <1>3, TurnKeeps

\* A text is typed without a render: the wizard's in step 2 only.
LEMMA TypingKeeps ==
  ASSUME WizardInv, NEW t \in Typed, TypeReason(t) \/ TypeBulkReason(t)
  PROVE  WizardInv'
<1>0. pm \in PageStates /\ seen \in PageStates /\ DraftSound(pm.add) /\ DraftSound(seen.add)
  BY DEF WizardInv, ExclusionsTypeOK, PageStates
<1>1. pm.add \in Wizards /\ pm.add.step \in 1..4
  BY <1>0 DEF PageStates, Wizards
<1>2. CASE TypeReason(t)
  <2>0. /\ pm' = [pm EXCEPT !.add.text = t] /\ OnStep(2)
        /\ UNCHANGED <<seen, bulkOn, exCalls, exNr, exError, exRows>>
    BY <1>2 DEF TypeReason
  <2>1. pm.add.step \in {1, 2}
    BY <2>0, StepIsSeen DEF OnStep
  <2>2. pm' \in PageStates /\ pm'.add = [pm.add EXCEPT !.text = t]
    BY <1>0, <2>0, DraftEdits
  <2>3. DraftSound(pm'.add)
    <3>1. pm'.add.step = pm.add.step
      BY <1>1, <2>2 DEF Wizards
    <3>2. ~(pm'.add.step >= 3) /\ pm'.add.step # 4
      BY <2>1, <3>1
    <3> QED BY <3>2 DEF DraftSound
  <2>4. DraftBehind'
    <3>1. /\ pm'.add.step = pm.add.step /\ pm'.add.servers = pm.add.servers
          /\ pm'.add.reason = pm.add.reason /\ pm'.add.until = pm.add.until
      BY <1>1, <2>2 DEF Wizards
    <3> QED BY <2>0, <3>1 DEF WizardInv, DraftBehind, Emptied
  <2> QED BY <2>0, <2>2, <2>3, <2>4 DEF WizardInv, ExclusionsTypeOK, WritesNumbered, PageStates
<1>3. CASE TypeBulkReason(t)
  <2>1. pm' \in PageStates /\ pm'.add = pm.add
    BY <1>0, <1>3 DEF TypeBulkReason, BulkForms, PageStates
  <2>2. bulkOn' \in BOOLEAN /\ UNCHANGED <<seen, exCalls, exNr, exError, exRows>>
    BY <1>0, <1>3 DEF TypeBulkReason, BulkForms, PageStates
  <2> QED BY <2>1, <2>2 DEF WizardInv, ExclusionsTypeOK, WritesNumbered, DraftBehind, PageStates
<1> QED BY <1>2, <1>3

\* A write is sent: its number is new, and of the draft only the error goes.
LEMMA SendKeeps ==
  ASSUME WizardInv, NEW p \in PageStates,
         NEW kind \in {"add", "bulk", "renew", "release"}, NEW servers \in SUBSET Hosts,
         NEW reason \in Categories \cup Typed, NEW until \in BOOLEAN,
         SendWrite(Write(kind, servers, reason, until), p),
         p.add = pm.add \/ p.add = [pm.add EXCEPT !.error = FALSE]
  PROVE  WizardInv'
<1> DEFINE w == Write(kind, servers, reason, until)
<1>0. exNr \in 0..MaxExCalls /\ exNr < MaxExCalls
  BY DEF SendWrite, WizardInv, ExclusionsTypeOK
<1>1. exNr + 1 \in 1..MaxExCalls /\ exNr \in Nat
  BY <1>0, CallsAreCounted
<1>2. w \in ExCalls /\ w.nr = exNr + 1
  BY <1>1 DEF Write, ExCalls
<1> HIDE DEF w
<1>3. /\ exCalls' = exCalls \cup {w} /\ exNr' = exNr + 1 /\ pm' = p
      /\ UNCHANGED <<seen, bulkOn, exError, exRows>>
  BY DEF SendWrite, w
<1>4. ExclusionsTypeOK'
  BY <1>1, <1>2, <1>3 DEF WizardInv, ExclusionsTypeOK, PageStates
<1>5. WritesNumbered'
  <2>0. exCalls \in SUBSET ExCalls /\ \A c \in ExCalls : c.nr \in Nat
    BY CallsAreCounted DEF WizardInv, ExclusionsTypeOK, ExCalls
  <2>1. \A c \in exCalls : c.nr \in Nat /\ c.nr =< exNr
    BY <2>0 DEF WizardInv, WritesNumbered
  <2> QED BY <1>1, <1>2, <1>3, <2>1 DEF WritesNumbered
<1>6. pm.add \in Wizards /\ DraftSound(pm.add) /\ DraftSound(seen.add) /\ DraftBehind
  BY DEF WizardInv, ExclusionsTypeOK
<1>7. DraftSound(p.add)
  BY <1>6 DEF DraftSound, Told, Wizards
<1>8. DraftBehind'
  BY <1>3, <1>6 DEF DraftBehind, Emptied, Wizards
<1> QED BY <1>3, <1>4, <1>5, <1>6, <1>7, <1>8 DEF WizardInv

\* The forms: what they send, and their error when they do not.
LEMMA SubmitKeeps ==
  ASSUME WizardInv, Submit PROVE WizardInv'
<1> DEFINE p == [pm EXCEPT !.add.error = FALSE]
           q == [p EXCEPT !.add.error = TRUE]
<1>1. p \in PageStates /\ p.add = [pm.add EXCEPT !.error = FALSE]
  BY DraftFacts, DraftEdits
<1>2. seen.add.servers \in SUBSET Hosts /\ ReasonSent(seen.add) \in Categories \cup Typed
  BY DraftFacts, DraftTypes DEF PageStates, Wizards
<1>3. p.add.until \in BOOLEAN
  BY <1>1 DEF PageStates, Wizards
<1> HIDE DEF p
<1>4. q \in PageStates /\ q.add = [p.add EXCEPT !.error = TRUE]
  BY <1>1, DraftEdits
<1>5. q.add = [pm.add EXCEPT !.error = TRUE]
  BY <1>1, <1>4, DraftFacts DEF Wizards
<1> HIDE DEF q
<1>6. CASE Click(q)
  BY <1>4, <1>5, <1>6, ElsewhereKeeps
<1>7. CASE SendWrite(Write("add", seen.add.servers, ReasonSent(seen.add), p.add.until), p)
  BY <1>1, <1>2, <1>3, <1>7, SendKeeps
<1> QED BY <1>6, <1>7 DEF Submit, p, q

LEMMA BulkSubmitKeeps ==
  ASSUME WizardInv, BulkSubmit PROVE WizardInv'
<1> DEFINE p == [pm EXCEPT !.bulk.error = FALSE]
           q == [p EXCEPT !.bulk.error = TRUE]
<1>1. p \in PageStates /\ p.add = pm.add
  BY DraftFacts DEF PageStates, BulkForms
<1>2. ReasonSent(seen.bulk) \in Categories \cup Typed
  BY DraftFacts, DraftTypes DEF PageStates
<1>3. p.bulk.until \in BOOLEAN
  BY <1>1 DEF PageStates, BulkForms
<1>4. q \in PageStates /\ q.add = pm.add
  BY DraftFacts DEF PageStates, BulkForms
<1> HIDE DEF p, q
<1>6. CASE Click(q)
  BY <1>4, <1>6, ElsewhereKeeps
<1>7. CASE SendWrite(Write("bulk", {}, ReasonSent(seen.bulk), p.bulk.until), p)
  BY <1>1, <1>2, <1>3, <1>7, SendKeeps
<1> QED BY <1>6, <1>7 DEF BulkSubmit, p, q

LEMMA ChangeRowKeeps ==
  ASSUME WizardInv, NEW kind \in {"renew", "release"}, ChangeRow(kind) PROVE WizardInv'
<1>1. SendWrite(Write(kind, {}, "", FALSE), pm)
  BY DEF ChangeRow
<1>2. "" \in Categories \cup Typed
  BY DEF Categories
<1> QED BY <1>1, <1>2, DraftFacts, SendKeeps

\* Everything else the user does leaves the wizard's draft alone, or its error only.
LEMMA OtherClicks ==
  ASSUME WizardInv,
         \/ \E t \in Tabs : OpenTab(t)
         \/ Redraw \/ DismissError \/ DismissBulkError \/ PickBulkUntil
         \/ \E r \in Categories : PickBulkReason(r)
  PROVE  WizardInv'
<1>0. pm \in PageStates
  BY DraftFacts
<1>1. ASSUME NEW t \in Tabs, OpenTab(t) PROVE WizardInv'
  <2>1. [pm EXCEPT !.tab = t] \in PageStates /\ [pm EXCEPT !.tab = t].add = pm.add
    BY <1>0 DEF PageStates
  <2> QED BY <1>1, <2>1, ElsewhereKeeps DEF OpenTab
<1>2. CASE Redraw
  BY <1>0, <1>2, ElsewhereKeeps DEF Redraw
<1>3. CASE DismissError
  <2> DEFINE p == [pm EXCEPT !.add.error = FALSE]
  <2>1. p \in PageStates /\ p.add = [pm.add EXCEPT !.error = FALSE]
    BY <1>0, DraftEdits
  <2>2. Click(p)
    BY <1>3 DEF DismissError
  <2> HIDE DEF p
  <2> QED BY <2>1, <2>2, ElsewhereKeeps
<1>4. ASSUME NEW p \in PageStates, p.add = pm.add, Click(p) PROVE WizardInv'
  BY <1>4, ElsewhereKeeps
<1>5. CASE DismissBulkError
  <2>1. [pm EXCEPT !.bulk.error = FALSE] \in PageStates /\ [pm EXCEPT !.bulk.error = FALSE].add = pm.add
    BY <1>0 DEF PageStates, BulkForms
  <2> QED BY <1>4, <1>5, <2>1 DEF DismissBulkError
<1>6. CASE PickBulkUntil
  <2>1. [pm EXCEPT !.bulk.until = TRUE] \in PageStates /\ [pm EXCEPT !.bulk.until = TRUE].add = pm.add
    BY <1>0 DEF PageStates, BulkForms
  <2> QED BY <1>4, <1>6, <2>1 DEF PickBulkUntil
<1>7. ASSUME NEW r \in Categories, PickBulkReason(r) PROVE WizardInv'
  <2>1. [pm EXCEPT !.bulk.reason = r] \in PageStates /\ [pm EXCEPT !.bulk.reason = r].add = pm.add
    BY <1>0 DEF PageStates, BulkForms
  <2> QED BY <1>4, <1>7, <2>1 DEF PickBulkReason
<1> QED BY <1>1, <1>2, <1>3, <1>5, <1>6, <1>7

\* What an answer makes of the state: an emptied draft, or one with an error.
LEMMA AfterTypes ==
  ASSUME WizardInv, NEW c \in exCalls, NEW p \in {AfterDone(c), AfterFail(c)}
  PROVE  /\ p \in PageStates
         /\ p.add = EmptyWizard \/ p.add = pm.add \/ p.add = [pm.add EXCEPT !.error = TRUE]
<1>0. pm \in PageStates
  BY DraftFacts
<1>1. CASE p = AfterDone(c)
  <2>1. p = [pm EXCEPT !.add = EmptyWizard, !.tab = "excluded"] =>
          p \in PageStates /\ p.add = EmptyWizard
    BY <1>0, DraftTypes DEF PageStates, Tabs
  <2>2. p = [pm EXCEPT !.bulk = EmptyBulk, !.tab = "excluded"] =>
          p \in PageStates /\ p.add = pm.add
    BY <1>0, DraftTypes DEF PageStates, Tabs
  <2> QED BY <1>0, <1>1, <2>1, <2>2 DEF AfterDone
<1>2. CASE p = AfterFail(c)
  <2>1. p = [pm EXCEPT !.add.error = TRUE] =>
          p \in PageStates /\ p.add = [pm.add EXCEPT !.error = TRUE]
    BY <1>0, DraftEdits
  <2>2. p = [pm EXCEPT !.bulk.error = TRUE] => p \in PageStates /\ p.add = pm.add
    BY <1>0 DEF PageStates, BulkForms
  <2> QED BY <1>0, <1>2, <2>1, <2>2 DEF AfterFail
<1> QED BY <1>1, <1>2

\* A handler that ends, seen or unseen.
LEMMA EndKeeps ==
  ASSUME WizardInv, NEW c \in exCalls, NEW p \in {AfterDone(c), AfterFail(c)},
         Unseen(c, p) \/ Late(c, p),
         exNr' = exNr, exError' \in BOOLEAN, exRows' \in {"demo", "live"}
  PROVE  WizardInv'
<1>0. /\ p \in PageStates
      /\ p.add = EmptyWizard \/ p.add = pm.add \/ p.add = [pm.add EXCEPT !.error = TRUE]
  BY AfterTypes
<1>1. /\ exCalls \ {c} \in SUBSET ExCalls /\ \A d \in exCalls \ {c} : d.nr =< exNr
      /\ pm.add \in Wizards /\ seen \in PageStates /\ pm \in PageStates /\ bulkOn \in BOOLEAN
      /\ DraftSound(pm.add) /\ DraftSound(seen.add) /\ DraftBehind
  BY DraftFacts DEF WizardInv, ExclusionsTypeOK, WritesNumbered
<1>2. exCalls' \in SUBSET ExCalls /\ \A d \in exCalls' : d.nr =< exNr
  BY <1>1, DetachedTypes DEF Unseen, Late
<1>3. DraftSound(p.add) /\ (p.add = EmptyWizard => Emptied(p.add))
  <2>1. CASE p.add = EmptyWizard
    BY <2>1, EmptyIsEmptied, EmptiedIsSound
  <2>2. CASE p.add = pm.add
    BY <1>1, <2>2, EmptyIsEmptied
  <2>3. CASE p.add = [pm.add EXCEPT !.error = TRUE]
    <3>1. DraftSound(p.add)
      BY <1>1, <2>3 DEF DraftSound, Told, Wizards
    <3> QED BY <3>1, EmptyIsEmptied
  <2> QED BY <1>0, <2>1, <2>2, <2>3
<1>4. pm' = p /\ (seen' = pm \/ seen' = seen \/ seen' = p)
  BY DEF Unseen, Late, Shows
<1>5. bulkOn' \in BOOLEAN
  BY <1>1 DEF Unseen, Late, Shows, Ready
<1>6. DraftSound(pm.add)' /\ DraftSound(seen.add)'
  BY <1>1, <1>3, <1>4
<1>7. DraftBehind'
  BY <1>0, <1>1, <1>3, <1>4 DEF DraftBehind, Emptied, Wizards
<1>8. ExclusionsTypeOK'
  BY <1>0, <1>1, <1>2, <1>4, <1>5 DEF WizardInv, ExclusionsTypeOK, PageStates
<1> QED BY <1>2, <1>6, <1>7, <1>8 DEF WizardInv, WritesNumbered

LEMMA CallEndKeeps ==
  ASSUME WizardInv, NEW c \in exCalls, CallEnds(c) PROVE WizardInv'
<1>0. exError \in BOOLEAN /\ exRows \in {"demo", "live"}
  BY DEF WizardInv, ExclusionsTypeOK
<1>1. CASE Accepted(c)
  <2> DEFINE d == [c EXCEPT !.stage = "reload"]
  <2>1. c \in ExCalls /\ c.nr =< exNr
    BY DEF WizardInv, ExclusionsTypeOK, WritesNumbered
  <2>2. d \in ExCalls /\ d.nr =< exNr
    BY <2>1 DEF ExCalls
  <2>3. exCalls' = (exCalls \ {c}) \cup {d} /\ UNCHANGED <<pm, seen, bulkOn, exNr, exError, exRows>>
    BY <1>1 DEF Accepted
  <2> HIDE DEF d
  <2> QED BY <2>2, <2>3 DEF WizardInv, ExclusionsTypeOK, WritesNumbered, DraftBehind
<1>2. CASE WriteFails(c)
  BY <1>0, <1>2, EndKeeps DEF WriteFails, Failed
<1>3. CASE ReloadedOk(c)
  BY <1>0, <1>3, EndKeeps DEF ReloadedOk
<1>4. CASE ReloadedNot(c)
  BY <1>0, <1>4, EndKeeps DEF ReloadedNot, Failed
<1> QED BY <1>1, <1>2, <1>3, <1>4 DEF CallEnds

LEMMA WizardStep ==
  ASSUME WizardInv, [ExclusionsNext]_exVars PROVE WizardInv'
<1>1. CASE UNCHANGED exVars
  BY <1>1 DEF exVars, WizardInv, ExclusionsTypeOK, WritesNumbered, DraftBehind
<1>2. CASE ShellRerender
  <2>1. /\ exCalls \in SUBSET ExCalls /\ \A c \in exCalls : c.nr =< exNr
        /\ pm \in PageStates /\ DraftSound(pm.add)
    BY DraftFacts DEF WizardInv, ExclusionsTypeOK, WritesNumbered
  <2>2. exCalls' \in SUBSET ExCalls /\ \A c \in exCalls' : c.nr =< exNr
    BY <1>2, <2>1, DetachedTypes DEF ShellRerender
  <2>3. seen' = pm /\ bulkOn' \in BOOLEAN /\ UNCHANGED <<pm, exNr, exError, exRows>>
    BY <1>2 DEF ShellRerender, Shows, Ready
  <2> QED BY <2>1, <2>2, <2>3 DEF WizardInv, ExclusionsTypeOK, WritesNumbered, DraftBehind, PageStates
<1>3. CASE UserStep
  <2>1. ASSUME NEW r \in Categories \ {""}, PickReason(r) PROVE WizardInv'
    BY <2>1, ReasonKeeps
  <2> QED
    BY <1>3, <2>1, OtherClicks, ToggleKeeps, TypingKeeps, NextKeeps, UntilKeeps, BackKeeps,
       SubmitKeeps, BulkSubmitKeeps, ChangeRowKeeps DEF UserStep
<1>4. ASSUME NEW c \in exCalls, CallEnds(c) PROVE WizardInv'
  BY <1>4, CallEndKeeps
<1> QED BY <1>1, <1>2, <1>3, <1>4 DEF ExclusionsNext

LEMMA WizardInit == ExclusionsInit => WizardInv
<1> SUFFICES ASSUME ExclusionsInit PROVE WizardInv
  OBVIOUS
<1>1. EmptyWizard \in Wizards /\ EmptyBulk \in BulkForms /\ "excluded" \in Tabs
  BY DraftTypes DEF Tabs
<1>2. exNr \in 0..MaxExCalls
  BY CallsAreCounted DEF ExclusionsInit
<1>3. ExclusionsTypeOK /\ WritesNumbered
  BY <1>1, <1>2 DEF ExclusionsInit, ExclusionsTypeOK, WritesNumbered
<1>4. DraftSound(pm.add) /\ DraftSound(seen.add) /\ DraftBehind
  <2>1. pm.add = EmptyWizard /\ seen.add = EmptyWizard
    BY DEF ExclusionsInit
  <2> QED BY <2>1, EmptyIsEmptied, EmptiedIsSound DEF DraftBehind
<1> QED BY <1>3, <1>4 DEF WizardInv

LEMMA WizardInvariance == ExclusionsSpec => []WizardInv
BY WizardInit, WizardStep, PTL DEF ExclusionsSpec

\* The number of a new write is no other's.
LEMMA NewIsLast ==
  ASSUME WizardInv, NEW w, NEW c \in exCalls \cup {w}, c.nr = exNr + 1
  PROVE  c = w
<1>1. exNr \in Nat
  BY CallsAreCounted DEF WizardInv, ExclusionsTypeOK
<1>2. c \in exCalls => c.nr =< exNr /\ c.nr \in Nat
  BY CallsAreCounted DEF WizardInv, WritesNumbered, ExclusionsTypeOK, ExCalls
<1> QED BY <1>1, <1>2

\* A reason that is told is sent as more than nothing.
LEMMA ToldIsSent ==
  ASSUME NEW d, Told(d) PROVE ReasonSent(d) # ""
BY DEF Told, ReasonSent

\* What the two forms send is new, complete, and what the visible page says.
LEMMA SubmitSends ==
  ASSUME WizardInv, Submit, exNr' # exNr, NEW c \in exCalls', c.nr = exNr'
  PROVE  /\ c.kind = "add" /\ c.servers = seen.add.servers /\ c.servers # {}
         /\ Told(seen.add) /\ c.reason = ReasonSent(seen.add)
         /\ c.until = seen.add.until /\ c.until /\ c.reason # ""
<1> DEFINE p == [pm EXCEPT !.add.error = FALSE]
           w == Write("add", seen.add.servers, ReasonSent(seen.add), p.add.until)
<1>1. /\ OnStep(4) /\ w.until /\ w.servers # {} /\ SendWrite(w, p)
  BY DEF Submit, Click
<1>2. c = w
  BY <1>1, NewIsLast DEF SendWrite
<1>3. /\ w.kind = "add" /\ w.servers = seen.add.servers
      /\ w.reason = ReasonSent(seen.add) /\ w.until = p.add.until
  BY DEF Write
<1> HIDE DEF w
<1>4. DraftSound(seen.add) /\ seen.add \in Wizards /\ seen.add.step = 4 /\ p.add.until \in BOOLEAN
  BY <1>1, DraftFacts, DraftEdits DEF WizardInv, OnStep, PageStates, Wizards
<1>5. Told(seen.add) /\ seen.add.until = TRUE
  BY <1>1, <1>3, <1>4 DEF DraftSound, Wizards
<1>6. ReasonSent(seen.add) # ""
  BY <1>5, ToldIsSent
<1> QED BY <1>1, <1>2, <1>3, <1>4, <1>5, <1>6

LEMMA BulkSends ==
  ASSUME WizardInv, BulkSubmit, exNr' # exNr, NEW c \in exCalls', c.nr = exNr'
  PROVE  c.kind = "bulk" /\ c.until /\ c.reason # ""
<1> DEFINE p == [pm EXCEPT !.bulk.error = FALSE]
           w == Write("bulk", {}, ReasonSent(seen.bulk), p.bulk.until)
<1>1. Told(seen.bulk) /\ w.until /\ SendWrite(w, p)
  BY DEF BulkSubmit, Click, Ready
<1>2. c = w
  BY <1>1, NewIsLast DEF SendWrite
<1>3. w.kind = "bulk" /\ w.reason = ReasonSent(seen.bulk)
  BY DEF Write
<1> HIDE DEF w
<1> QED BY <1>1, <1>2, <1>3, ToldIsSent

LEMMA RowSends ==
  ASSUME WizardInv, NEW kind \in {"renew", "release"}, ChangeRow(kind), exNr' # exNr,
         NEW c \in exCalls', c.nr = exNr'
  PROVE  c.kind \notin {"add", "bulk"}
<1> DEFINE w == Write(kind, {}, "", FALSE)
<1>1. SendWrite(w, pm)
  BY DEF ChangeRow
<1>2. c = w
  BY <1>1, NewIsLast DEF SendWrite
<1>3. w.kind = kind
  BY DEF Write
<1> HIDE DEF w
<1> QED BY <1>2, <1>3

\* No other step numbers a write.
LEMMA OnlyFormsSend ==
  ASSUME ExclusionsNext, exNr' # exNr
  PROVE  Submit \/ BulkSubmit \/ \E kind \in {"renew", "release"} : ChangeRow(kind)
<1>1. \A c : ~CallEnds(c)
  BY DEF CallEnds, Accepted, WriteFails, ReloadedOk, ReloadedNot, Failed
<1>2. ~ShellRerender
  BY DEF ShellRerender
<1>3. \A p : ~Click(p)
  BY DEF Click
<1>4. \A t : ~TypeReason(t) /\ ~TypeBulkReason(t)
  BY DEF TypeReason, TypeBulkReason
<1>5. UserStep
  BY <1>1, <1>2 DEF ExclusionsNext
<1>6. /\ \A t : ~OpenTab(t) /\ ~ToggleServer(t) /\ ~PickReason(t) /\ ~BackTo(t) /\ ~PickBulkReason(t)
      /\ ~NextReason /\ ~NextUntil /\ ~PickUntil /\ ~NextConfirm /\ ~Redraw
      /\ ~DismissError /\ ~DismissBulkError /\ ~PickBulkUntil
  BY <1>3 DEF OpenTab, ToggleServer, PickReason, BackTo, PickBulkReason, NextReason, NextUntil,
              PickUntil, NextConfirm, Redraw, DismissError, DismissBulkError, PickBulkUntil
<1> QED BY <1>4, <1>5, <1>6 DEF UserStep

\* However a draft was built, emptied by an answer or left behind by a render, what
\* the wizard sends is what its confirm step shows, and neither form sends without
\* a reason and a date (op-pages.js, the add wizard and the bulk form).
THEOREM SendsWhatIsShown == ExclusionsSpec => SentAsShown
<1> DEFINE Shown == \A c \in exCalls' :
       exNr' # exNr /\ c.nr = exNr' =>
         /\ c.kind = "add" =>
              /\ c.servers = seen.add.servers /\ c.servers # {}
              /\ Told(seen.add) /\ c.reason = ReasonSent(seen.add)
              /\ c.until = seen.add.until
         /\ c.kind \in {"add", "bulk"} => c.until /\ c.reason # ""
<1>1. WizardInv /\ [ExclusionsNext]_exVars => [Shown]_exVars
  <2> SUFFICES ASSUME WizardInv, ExclusionsNext, exNr' # exNr, NEW c \in exCalls', c.nr = exNr'
               PROVE  /\ c.kind = "add" =>
                           /\ c.servers = seen.add.servers /\ c.servers # {}
                           /\ Told(seen.add) /\ c.reason = ReasonSent(seen.add)
                           /\ c.until = seen.add.until
                      /\ c.kind \in {"add", "bulk"} => c.until /\ c.reason # ""
    OBVIOUS
  <2>1. CASE Submit
    BY <2>1, SubmitSends
  <2>2. CASE BulkSubmit
    BY <2>2, BulkSends
  <2>3. ASSUME NEW kind \in {"renew", "release"}, ChangeRow(kind) PROVE c.kind \notin {"add", "bulk"}
    BY <2>3, RowSends
  <2> QED BY <2>1, <2>2, <2>3, OnlyFormsSend
<1>2. ExclusionsSpec => [][Shown]_exVars
  BY <1>1, WizardInvariance, PTL DEF ExclusionsSpec
<1> QED BY <1>2 DEF SentAsShown

-----------------------------------------------------------------------------
(* The seven modules side by side.                                          *)

\* Every variable of the console's pages keeps its type in the behaviours that run
\* one of them and leave the others as they begin.
THEOREM ConsoleTypeCorrect == MCSpec => []TypeOK
<1>1. MCInit => /\ ConsoleInit /\ DisksInit /\ DetailInit /\ LicencesInit /\ ExclusionsInit
                /\ SearchInit /\ AuditingInit
  BY DEF MCInit
<1>2. [MCNext]_<<page, pages>> =>
        /\ [ConsoleNext]_consoleVars /\ [DisksNext]_diskVars /\ [DetailNext]_detailVars
        /\ [LicencesNext]_licVars /\ [ExclusionsNext]_exVars /\ [SearchNext]_searchVars
        /\ [AuditingNext]_audVars
  BY DEF MCNext, Only, pages
<1>3. DetailInv /\ LicQuietInv /\ WizardInv /\ AudQuietInv =>
        DetailTypeOK /\ LicencesTypeOK /\ ExclusionsTypeOK /\ AuditingTypeOK
  BY DEF DetailInv, LicQuietInv, WizardInv, AudQuietInv
<1>4. ConsoleTypeOK /\ DisksTypeOK /\ DetailTypeOK /\ LicencesTypeOK /\ ExclusionsTypeOK
        /\ SearchTypeOK /\ AuditingTypeOK => TypeOK
  BY DEF TypeOK
<1> QED
  BY <1>1, <1>2, <1>3, <1>4, DataInitTypes, DataStepTypes, DisksInitTypes, DisksStepTypes,
     DetailStart, StepKeepsDetail, LicQuietInit, LicQuietStep, WizardInit, WizardStep,
     SearchStart, SearchStepTypes, AudQuietInit, AudQuietStep, PTL DEF MCSpec

=============================================================================
