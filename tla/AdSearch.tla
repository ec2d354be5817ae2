------------------------------ MODULE AdSearch ------------------------------
(* The live directory search behind the console's two pickers: the groups to *)
(* bind to an application, and its owners.  A query is asked for when the    *)
(* page is drawn with it, unless it was the last one asked for; answers come *)
(* back in any order, and one that was overtaken by another query is dropped.*)
EXTENDS Naturals

CONSTANTS
  Queries,      \* what can be typed, of two characters or more
  ShortTexts,   \* nothing (""), or one character: never asked for
  Names,        \* groups or users
  Bundled,      \* those the bundle of the page knows
  MaxSearches   \* searches of one page load

ASSUME SearchAssumption ==
  "" \in ShortTexts /\ Queries \cap ShortTexts = {} /\ Bundled \subseteq Names
ASSUME BoundAssumption == MaxSearches \in Nat

VARIABLES
  picker,    \* which of the two it is
  typed,     \* the text in the input (q)
  drawn,     \* the text the picker was last drawn with
  liveQ,     \* the last query asked for
  liveFor,   \* the last query answered
  live,      \* the rows of that answer
  liveErr,   \* it failed
  searching, \* the picker says "searching AD..."
  sel,       \* rows ticked (groups), or the one chosen (users)
  bound,     \* the groups bound already, or the owner handed to onPick
  searches,  \* searches in flight
  searchNr   \* searches made

searchVars == <<picker, typed, drawn, liveQ, liveFor, live, liveErr, searching,
                sel, bound, searches, searchNr>>

Texts == Queries \cup ShortTexts

SearchTypeOK ==
  /\ picker \in {"groups", "users"}
  /\ typed \in Texts /\ drawn \in Texts /\ liveQ \in Texts /\ liveFor \in Texts
  /\ live \in SUBSET Names
  /\ liveErr \in BOOLEAN /\ searching \in BOOLEAN
  /\ sel \in SUBSET Names /\ bound \in SUBSET Names
  /\ searches \in SUBSET [nr : 1..MaxSearches, q : Queries]
  /\ searchNr \in 0..MaxSearches

SearchInit ==
  /\ picker \in {"groups", "users"}
  /\ typed = "" /\ drawn = ""
  /\ liveQ = "" /\ liveFor = ""
  /\ live = {} /\ liveErr = FALSE /\ searching = FALSE
  /\ sel = {} /\ bound = {}
  /\ searches = {} /\ searchNr = 0

\* The directory's rows stand for the text drawn only if they answer it; else the
\* bundle's do.  A group of alreadyBoundDNs is not offered again.
ShowsLive == drawn \in Queries /\ liveFor = drawn /\ ~liveErr
RowsShown ==
  (CASE drawn = "" -> {} [] ShowsLive -> live [] OTHER -> Bundled)
    \ (IF picker = "groups" THEN bound ELSE {})

\* Drawing the picker with text t, when `pending` searches are out and `asking`
\* was the last query asked for: a query not asked for last is asked for now.
Draw(t, asking, busy, pending) ==
  /\ drawn' = t
  /\ IF t \in Queries /\ asking # t
       THEN /\ searchNr < MaxSearches
            /\ searchNr' = searchNr + 1
            /\ liveQ' = t /\ searching' = TRUE
            /\ searches' = pending \cup {[nr |-> searchNr + 1, q |-> t]}
       ELSE liveQ' = asking /\ searching' = busy /\ searches' = pending /\ UNCHANGED searchNr

-----------------------------------------------------------------------------

\* A key changes the text; the page is drawn 180 ms after the last one.
Type(t) ==
  /\ t # typed /\ typed' = t
  /\ UNCHANGED <<picker, drawn, liveQ, liveFor, live, liveErr, searching, sel, bound, searches, searchNr>>

\* The page is drawn, by that timer or for a reason of its own.
DrawPage ==
  /\ Draw(typed, liveQ, searching, searches)
  /\ UNCHANGED <<picker, typed, liveFor, live, liveErr, sel, bound>>

\* Mutant: the last answer to come is kept, whatever it answers.
SearchAnswered_Any(a, rows, ok) ==
  /\ a \in searches
  /\ liveFor' = a.q /\ live' = rows /\ liveErr' = ~ok
  /\ Draw(typed, liveQ, FALSE, searches \ {a})
  /\ UNCHANGED <<picker, typed, sel, bound>>

\* An answer, of rows or of an error: kept if its query is still the last asked
\* for, and the page drawn.
SearchAnswered(a, rows, ok) ==
  /\ a \in searches
  /\ IF a.q = liveQ
       THEN /\ liveFor' = a.q /\ live' = rows /\ liveErr' = ~ok
            /\ Draw(typed, liveQ, FALSE, searches \ {a})
       ELSE /\ searches' = searches \ {a}
            /\ UNCHANGED <<liveFor, live, liveErr, drawn, liveQ, searching, searchNr>>
  /\ UNCHANGED <<picker, typed, sel, bound>>

\* The picker of groups: a row is ticked or unticked, across queries.
Tick(n) ==
  /\ picker = "groups" /\ n \in RowsShown
  /\ sel' = IF n \in sel THEN sel \ {n} ELSE sel \cup {n}
  /\ Draw(typed, liveQ, searching, searches)
  /\ UNCHANGED <<picker, typed, liveFor, live, liveErr, bound>>

\* "+ Bind" of a row, "Bind n selected": each is handed to onBind, which empties
\* the text; the rest of the selection stays.  A new application's form lists them
\* at once, the detail page when the application is reloaded.
Bind(names) ==
  /\ picker = "groups" /\ names # {}
  /\ names = sel \/ \E n \in RowsShown : names = {n}
  /\ bound' \in {bound, bound \cup names}
  /\ sel' = sel \ names
  /\ typed' = ""
  /\ Draw("", liveQ, searching, searches)
  /\ UNCHANGED <<picker, liveFor, live, liveErr>>

ClearSelection ==
  /\ picker = "groups" /\ sel # {} /\ sel' = {}
  /\ Draw(typed, liveQ, searching, searches)
  /\ UNCHANGED <<picker, typed, liveFor, live, liveErr, bound>>

\* The picker of owners: a row is chosen, or the choice cleared.
PickUser(names) ==
  /\ picker = "users" /\ names # sel
  /\ names = {} \/ \E n \in RowsShown : names = {n}
  /\ sel' = names /\ bound' = names
  /\ typed' = ""
  /\ Draw("", liveQ, searching, searches)
  /\ UNCHANGED <<picker, liveFor, live, liveErr>>

AnswerStep(a) ==
  \/ \E rows \in SUBSET Names : SearchAnswered(a, rows, TRUE)
  \/ SearchAnswered(a, {}, FALSE)

SearchNext ==
  \/ \E t \in Texts : Type(t)
  \/ DrawPage
  \/ \E a \in searches : AnswerStep(a)
  \/ \E n \in Names : Tick(n)
  \/ \E names \in SUBSET Names : Bind(names) \/ PickUser(names)
  \/ ClearSelection

SearchSpec == SearchInit /\ [][SearchNext]_searchVars

-----------------------------------------------------------------------------
(* Properties.                                                              *)

\* A query is asked for once, so its answer must not be lost: when no search for
\* the last query is out, the answer kept is the one to that query and the picker
\* does not say "searching", although the answers to other queries may come after
\* it, before it or twice.
LatestAnswerKept ==
  (\A a \in searches : a.q # liveQ) => liveFor = liveQ /\ ~searching

=============================================================================
