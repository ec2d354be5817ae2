--------------------------- MODULE ExclusionsPage ---------------------------
(* The Patch Management page of the browser console: the add wizard, the     *)
(* bulk form, renewals and releases, and what of all this is on the screen.  *)
(* A render copies the page's state into elements and closures; what is on   *)
(* the screen, and what a click reads, is the copy of the last render.  A    *)
(* handler that waits for the API keeps the element it was rendered in: once *)
(* the shell is rendered again, its own renders are no longer seen.          *)
EXTENDS Naturals

CONSTANTS
  Hosts,       \* servers the wizard can pick
  ReasonTexts, \* free texts for the reason "Other"; the empty one is added
  MaxExCalls   \* writes of one page load

ASSUME ExclusionsAssumption == MaxExCalls \in Nat /\ "" \notin ReasonTexts

VARIABLES
  pm,      \* pmState: the tab, the wizard's draft and the bulk form's
  seen,    \* pmState as the visible page was rendered from it
  bulkOn,  \* the visible bulk button is switched on
  exCalls, \* writes in flight, and the handler each belongs to
  exNr,    \* writes sent
  exError, \* an error is recorded
  exRows   \* the rows come from the bundle or from the API

exVars == <<pm, seen, bulkOn, exCalls, exNr, exError, exRows>>

Tabs == {"excluded", "add", "bulk", "expiring"}
Categories == {"", "listed", "Other"}
Typed == ReasonTexts \cup {""}
Wizards == [step : 1..4, servers : SUBSET Hosts, reason : Categories, text : Typed,
            until : BOOLEAN, error : BOOLEAN]
BulkForms == [reason : Categories, text : Typed, until : BOOLEAN, error : BOOLEAN]

EmptyWizard == [step |-> 1, servers |-> {}, reason |-> "", text |-> "",
                until |-> FALSE, error |-> FALSE]
EmptyBulk == [reason |-> "", text |-> "", until |-> FALSE, error |-> FALSE]

\* Whether a reason is told, and which one is sent.
Told(d) == d.reason # "" /\ (d.reason = "Other" => d.text # "")
Ready(d) == Told(d) /\ d.until
ReasonSent(d) == IF d.reason = "Other" THEN IF d.text = "" THEN "Other" ELSE d.text ELSE d.reason

\* A write is sent, then its list is reloaded; `attached` says whether what its
\* handler renders is still seen.
ExCalls == [nr : 1..MaxExCalls, kind : {"add", "bulk", "renew", "release"},
            servers : SUBSET Hosts, reason : Categories \cup Typed, until : BOOLEAN,
            stage : {"write", "reload"}, attached : BOOLEAN]

ExclusionsTypeOK ==
  /\ pm \in [tab : Tabs, add : Wizards, bulk : BulkForms]
  /\ seen \in [tab : Tabs, add : Wizards, bulk : BulkForms]
  /\ bulkOn \in BOOLEAN
  /\ exCalls \in SUBSET ExCalls
  /\ exNr \in 0..MaxExCalls
  /\ exError \in BOOLEAN
  /\ exRows \in {"demo", "live"}

ExclusionsInit ==
  /\ pm = [tab |-> "excluded", add |-> EmptyWizard, bulk |-> EmptyBulk]
  /\ seen = pm /\ bulkOn = FALSE
  /\ exCalls = {} /\ exNr = 0
  /\ exError = FALSE /\ exRows = "demo"

-----------------------------------------------------------------------------
(* Rendering.                                                               *)

\* What is on the screen is rendered from `p`.
Shows(p) == seen' = p /\ bulkOn' = Ready(p.bulk)

\* RERENDER_SHELL makes a new page element: every waiting handler keeps the old one.
Detached(calls) == {[c EXCEPT !.attached = FALSE] : c \in calls}

\* Another route, another feed, an error of another page.
ShellRerender ==
  /\ Shows(pm) /\ exCalls' = Detached(exCalls)
  /\ UNCHANGED <<pm, exNr, exError, exRows>>

-----------------------------------------------------------------------------
(* What the user does; a click is possible only on what is seen.            *)

Click(p) == pm' = p /\ Shows(p) /\ UNCHANGED <<exCalls, exNr, exError, exRows>>
OnStep(n) == seen.tab = "add" /\ seen.add.step = n

\* The tabs, "+ Add exclusion" and the wizard's Cancel.
OpenTab(t) == Click([pm EXCEPT !.tab = t])

\* Search, sort and page of the table, scope and target of the bulk form, month of
\* the calendar: the page is drawn again.
Redraw == Click(pm)

\* Step 1: servers are picked and dropped; "Next" remembers how many there were
\* when it was rendered.
ToggleServer(s) ==
  OnStep(1) /\ Click([pm EXCEPT !.add.servers = IF s \in @ THEN @ \ {s} ELSE @ \cup {s}])
NextReason == OnStep(1) /\ seen.add.servers # {} /\ Click([pm EXCEPT !.add.step = 2])

\* Step 2: a category, a text for "Other" (typed without a render), and a "Next"
\* that looks at the state of the moment.
PickReason(r) == OnStep(2) /\ Click([pm EXCEPT !.add.reason = r])
TypeReason(t) ==
  /\ OnStep(2) /\ seen.add.reason = "Other"
  /\ pm' = [pm EXCEPT !.add.text = t]
  /\ UNCHANGED <<seen, bulkOn, exCalls, exNr, exError, exRows>>
NextUntil == OnStep(2) /\ Told(pm.add) /\ Click([pm EXCEPT !.add.step = 3])

\* Step 3: a preset or a day of the calendar.
PickUntil == OnStep(3) /\ Click([pm EXCEPT !.add.until = TRUE])
NextConfirm == OnStep(3) /\ pm.add.until /\ Click([pm EXCEPT !.add.step = 4])

\* Mutant: the steps are counted from zero.
BackTo_FromZero(n) == seen.tab = "add" /\ n < seen.add.step /\ Click([pm EXCEPT !.add.step = n - 1])

\* "Back" and the steps done, at the head of the wizard.
BackTo(n) == seen.tab = "add" /\ n < seen.add.step /\ Click([pm EXCEPT !.add.step = n])

DismissBulkError == seen.tab = "bulk" /\ seen.bulk.error /\ Click([pm EXCEPT !.bulk.error = FALSE])
DismissError == OnStep(4) /\ seen.add.error /\ Click([pm EXCEPT !.add.error = FALSE])

Write(kind, servers, reason, until) ==
  [nr |-> exNr + 1, kind |-> kind, servers |-> servers, reason |-> reason,
   until |-> until, stage |-> "write", attached |-> TRUE]

SendWrite(w, p) ==
  /\ exNr < MaxExCalls
  /\ exNr' = exNr + 1
  /\ exCalls' = exCalls \cup {w}
  /\ pm' = p /\ UNCHANGED <<seen, bulkOn, exError, exRows>>

\* Mutant: the date is not looked at before the request is sent.
Submit_NoDateCheck ==
  /\ OnStep(4)
  /\ LET p == [pm EXCEPT !.add.error = FALSE]
         w == Write("add", seen.add.servers, ReasonSent(seen.add), p.add.until)
     IN  IF w.servers # {} THEN SendWrite(w, p) ELSE Click([p EXCEPT !.add.error = TRUE])

\* "Create exclusion": servers and reason are those the page was rendered with,
\* the date that of the moment; without a date or servers there is no request.
\* The button stays as it is while the request is out.
Submit ==
  /\ OnStep(4)
  /\ LET p == [pm EXCEPT !.add.error = FALSE]
         w == Write("add", seen.add.servers, ReasonSent(seen.add), p.add.until)
     IN  IF w.until /\ w.servers # {} THEN SendWrite(w, p) ELSE Click([p EXCEPT !.add.error = TRUE])

\* The bulk form.  A category and a date render the page; a text does not, and
\* only switches the button on and off.
PickBulkReason(r) == seen.tab = "bulk" /\ Click([pm EXCEPT !.bulk.reason = r])
PickBulkUntil == seen.tab = "bulk" /\ Click([pm EXCEPT !.bulk.until = TRUE])
TypeBulkReason(t) ==
  /\ seen.tab = "bulk" /\ seen.bulk.reason = "Other"
  /\ pm' = [pm EXCEPT !.bulk.text = t]
  /\ bulkOn' = (t # "" /\ pm.bulk.until)
  /\ UNCHANGED <<seen, exCalls, exNr, exError, exRows>>

\* "Create n exclusions": readiness and reason are those of the last render, the
\* date that of the moment.
BulkSubmit ==
  /\ seen.tab = "bulk" /\ bulkOn /\ Ready(seen.bulk)
  /\ LET p == [pm EXCEPT !.bulk.error = FALSE]
         w == Write("bulk", {}, ReasonSent(seen.bulk), p.bulk.until)
     IN  IF w.until THEN SendWrite(w, p) ELSE Click([p EXCEPT !.bulk.error = TRUE])

\* "Renew", "Snooze" and "Release" of a row; a row of the bundle has no id and
\* only an alert answers.
ChangeRow(kind) ==
  /\ seen.tab \in {"excluded", "expiring"} /\ exRows = "live"
  /\ SendWrite(Write(kind, {}, "", FALSE), pm)

-----------------------------------------------------------------------------
(* What becomes of a write.                                                 *)

\* reset() and fail() of the wizard and the bulk form; rows have neither.
AfterDone(c) ==
  CASE c.kind = "add"  -> [pm EXCEPT !.add = EmptyWizard, !.tab = "excluded"]
    [] c.kind = "bulk" -> [pm EXCEPT !.bulk = EmptyBulk, !.tab = "excluded"]
    [] OTHER           -> pm
AfterFail(c) ==
  CASE c.kind = "add"  -> [pm EXCEPT !.add.error = TRUE]
    [] c.kind = "bulk" -> [pm EXCEPT !.bulk.error = TRUE]
    [] OTHER           -> pm

\* The API accepts: the list is asked for.
Accepted(c) ==
  /\ c.stage = "write"
  /\ exCalls' = (exCalls \ {c}) \cup {[c EXCEPT !.stage = "reload"]}
  /\ UNCHANGED <<pm, seen, bulkOn, exNr, exError, exRows>>

\* The handler has waited; it leaves the state at p and renders its own element.
Late(c, p) ==
  /\ pm' = p /\ exCalls' = exCalls \ {c}
  /\ IF c.attached /\ c.kind \in {"add", "bulk"} THEN Shows(p) ELSE UNCHANGED <<seen, bulkOn>>

\* The same after the shell was rendered: nothing of it is seen.
Unseen(c, p) == pm' = p /\ Shows(pm) /\ exCalls' = Detached(exCalls \ {c})

\* An error is recorded, which renders the shell unless one of its kind was there.
Failed(c, p) ==
  /\ exError' = TRUE
  /\ Unseen(c, p) \/ (exError /\ Late(c, p))
  /\ UNCHANGED <<exNr, exRows>>

\* The API refuses, or does not answer: fail() puts the message into the state.
WriteFails(c) == c.stage = "write" /\ Failed(c, AfterFail(c))

\* The list lands: page and shell are rendered, and only then reset() is called.
ReloadedOk(c) ==
  /\ c.stage = "reload" /\ Unseen(c, AfterDone(c))
  /\ exRows' = "live"
  /\ UNCHANGED <<exNr, exError>>

\* The reload fails: the rows stay, and reset() is called all the same.
ReloadedNot(c) == c.stage = "reload" /\ Failed(c, AfterDone(c))

CallEnds(c) == Accepted(c) \/ WriteFails(c) \/ ReloadedOk(c) \/ ReloadedNot(c)

UserStep ==
  \/ \E t \in Tabs : OpenTab(t)
  \/ \E s \in Hosts : ToggleServer(s)
  \/ \E r \in Categories \ {""} : PickReason(r)
  \/ \E t \in Typed : TypeReason(t) \/ TypeBulkReason(t)
  \/ NextReason \/ NextUntil \/ PickUntil \/ NextConfirm
  \/ \E n \in 1..3 : BackTo(n)
  \/ Redraw \/ DismissError \/ DismissBulkError \/ Submit
  \/ \E r \in Categories : PickBulkReason(r)
  \/ PickBulkUntil \/ BulkSubmit
  \/ \E kind \in {"renew", "release"} : ChangeRow(kind)

ExclusionsNext ==
  \/ UserStep
  \/ ShellRerender
  \/ \E c \in exCalls : CallEnds(c)

ExclusionsSpec == ExclusionsInit /\ [][ExclusionsNext]_exVars

-----------------------------------------------------------------------------
(* Properties.                                                              *)

\* What the wizard sends is what its confirm step shows: servers, reason and date,
\* the free text as typed; and what either form sends is complete.  An earlier
\* submission may have emptied the draft behind the visible page, the shell may
\* have been rendered in between: no second click, step back on a stale page or
\* rerun of the steps sends half of one draft and half of another.
SentAsShown ==
  [][\A c \in exCalls' :
       exNr' # exNr /\ c.nr = exNr' =>
         /\ c.kind = "add" =>
              /\ c.servers = seen.add.servers /\ c.servers # {}
              /\ Told(seen.add) /\ c.reason = ReasonSent(seen.add)
              /\ c.until = seen.add.until
         /\ c.kind \in {"add", "bulk"} => c.until /\ c.reason # ""]_exVars

\* What the wizard's comments promise: a submission that was answered never leaves
\* the user on the confirm step without a word; the page has moved on, or shows the
\* error.
AnswerIsShown ==
  exCalls = {} /\ OnStep(4) =>
    pm.tab = "add" /\ pm.add.step = 4 /\ seen.add.error = pm.add.error

=============================================================================
