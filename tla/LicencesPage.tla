---------------------------- MODULE LicencesPage ----------------------------
(* The Licensing page of the browser console, for one licence: the row of the *)
(* loaded list, the renew, edit and add forms, and the writes, each followed  *)
(* by a reload of the list.  A write that gets no answer is applied to the    *)
(* loaded row instead; the API may have applied it all the same, or may yet.  *)
EXTENDS Naturals

CONSTANTS
  MaxDate,    \* expiry dates are 0..MaxDate
  MaxCalls    \* writes and refreshes of one page load

ASSUME LicencesAssumption == MaxDate \in Nat /\ MaxCalls \in Nat \ {0}

Dates == 0..MaxDate
Flags == {"tracked", "engaged"}
Licences == [expires : Dates, flag : Flags, cycles : 0..MaxCalls]
NoLicence == [expires |-> 0, flag |-> "tracked", cycles |-> MaxCalls + 1]
Rows == Licences \cup {NoLicence}

VARIABLES
  stored,      \* the API's licence, or NoLicence
  row,         \* the row of LICENSING_DATA.LICENCES (and its renewals), or NoLicence
  form,        \* the open form
  draft,       \* what the edit form was filled with when it was opened
  licCalls,    \* calls in flight
  licNr,       \* calls made
  licErrors,   \* an error is recorded
  licRibbon,   \* DEMO ribbon of the page
  overlapped   \* the last call was made while another was in flight (no code reads it)

licVars == <<stored, row, form, draft, licCalls, licNr, licErrors, licRibbon, overlapped>>

\* A write is sent, then applied or refused by the API; the reload that follows
\* an applied one is read by the API when it gets to it.  A call given up may
\* still be applied.
LicenceStages == {"sent", "applied", "refused", "read", "given_up"}
Kinds == {"add", "patch", "status", "renew", "delete", "wave"}
Calls == [nr : 1..MaxCalls, kind : Kinds, arg : Licences, stage : LicenceStages, copy : Rows]

LicencesTypeOK ==
  /\ stored \in Rows /\ row \in Rows
  /\ form \in {"none", "renew", "edit", "add"}
  /\ draft \in Licences
  /\ licCalls \in SUBSET Calls
  /\ licNr \in 0..MaxCalls
  /\ licErrors \in BOOLEAN /\ licRibbon \in BOOLEAN /\ overlapped \in BOOLEAN

Fresh == [expires |-> 0, flag |-> "tracked", cycles |-> 0]

\* What a write makes of a licence, at the API and, offline, of the loaded row.
Effect(c, l) ==
  IF l = NoLicence THEN IF c.kind = "add" THEN c.arg ELSE NoLicence
  ELSE CASE c.kind = "delete" -> NoLicence
         [] c.kind = "patch"  -> [l EXCEPT !.expires = c.arg.expires, !.flag = c.arg.flag]
         [] c.kind = "status" -> [l EXCEPT !.flag = c.arg.flag]
         [] c.kind = "renew"  -> [expires |-> c.arg.expires, flag |-> "tracked",
                                  cycles |-> IF l.cycles < MaxCalls THEN l.cycles + 1 ELSE l.cycles]
         [] OTHER             -> l

\* The boot wave is under way and nothing of the estate is listed yet.
LicencesInit ==
  /\ stored \in {Fresh, NoLicence}
  /\ row = NoLicence
  /\ form = "none" /\ draft = Fresh
  /\ licCalls = {[nr |-> 1, kind |-> "wave", arg |-> Fresh, stage |-> "applied", copy |-> NoLicence]}
  /\ licNr = 1
  /\ licErrors = FALSE /\ licRibbon = FALSE /\ overlapped = FALSE

-----------------------------------------------------------------------------
(* What the user does.                                                      *)

Call(kind, arg) ==
  /\ licNr < MaxCalls
  /\ licNr' = licNr + 1
  /\ overlapped' = (licCalls # {})
  /\ licCalls' = licCalls \cup
       {[nr |-> licNr + 1, kind |-> kind, arg |-> arg, copy |-> NoLicence,
         stage |-> IF kind = "wave" THEN "applied" ELSE "sent"]}

\* The row is expanded, or the page's button pressed: a form opens.  The edit
\* form is filled from the row as it is loaded now.
OpenForm(f) ==
  /\ form = "none" /\ f # "none"
  /\ f = "add" \/ row # NoLicence
  /\ form' = f
  /\ draft' = IF f = "edit" THEN row ELSE draft
  /\ UNCHANGED <<stored, row, licCalls, licNr, licErrors, licRibbon, overlapped>>

Cancel ==
  /\ form # "none" /\ form' = "none"
  /\ UNCHANGED <<stored, row, draft, licCalls, licNr, licErrors, licRibbon, overlapped>>

\* "Confirm renewal": the new date must lie after the one shown; the form closes
\* whatever becomes of the call.
ConfirmRenewal(d) ==
  /\ form = "renew" /\ row # NoLicence /\ d > row.expires
  /\ Call("renew", [row EXCEPT !.expires = d])
  /\ form' = "none"
  /\ UNCHANGED <<stored, row, draft, licErrors, licRibbon>>

\* "Save Changes" sends the whole draft; the form stays until the call is done.
SaveChanges(d) ==
  /\ form = "edit" /\ row # NoLicence
  /\ Call("patch", [draft EXCEPT !.expires = d])
  /\ UNCHANGED <<stored, row, form, draft, licErrors, licRibbon>>

AddLicence(d) ==
  /\ form = "add"
  /\ Call("add", [Fresh EXCEPT !.expires = d])
  /\ UNCHANGED <<stored, row, form, draft, licErrors, licRibbon>>

\* The status cell of the table changes the loaded row before it asks.
ChangeStatus(flag) ==
  /\ row # NoLicence /\ flag # row.flag
  /\ row' = [row EXCEPT !.flag = flag]
  /\ Call("status", [row EXCEPT !.flag = flag])
  /\ UNCHANGED <<stored, form, draft, licErrors, licRibbon>>

RemoveLicence ==
  /\ row # NoLicence /\ form = "none"
  /\ Call("delete", row)
  /\ UNCHANGED <<stored, row, form, draft, licErrors, licRibbon>>

\* Refresh, Retry now, another BU: errors and ribbons go, everything is reloaded.
ReloadAll ==
  /\ Call("wave", Fresh)
  /\ licErrors' = FALSE /\ licRibbon' = FALSE
  /\ UNCHANGED <<stored, row, form, draft>>

-----------------------------------------------------------------------------
(* What becomes of a call.                                                  *)

Stage(c, stage) == licCalls' = (licCalls \ {c}) \cup {[c EXCEPT !.stage = stage]}
Ended(c) == licCalls' = licCalls \ {c}
ReadCopy(c) == licCalls' = (licCalls \ {c}) \cup {[c EXCEPT !.stage = "read", !.copy = stored]}

\* done() of the add and edit forms.
DoneForm(c) ==
  IF (c.kind = "add" /\ form = "add") \/ (c.kind = "patch" /\ form = "edit") THEN "none" ELSE form

\* The API applies a write, refuses it, or reads the list for a reload.
ApiActs(c) ==
  /\ \/ /\ c.stage = "sent" /\ Stage(c, "applied") /\ stored' = Effect(c, stored)
     \/ /\ c.stage = "sent" /\ Stage(c, "refused") /\ UNCHANGED stored
     \/ /\ c.stage = "applied" /\ ReadCopy(c) /\ UNCHANGED stored
     \/ /\ c.stage = "given_up" /\ Ended(c) /\ stored' \in {stored, Effect(c, stored)}
  /\ UNCHANGED <<row, form, draft, licNr, licErrors, licRibbon, overlapped>>

\* Mutant: a refused status change is told to nobody.
Refused_Quiet(c) ==
  /\ c.stage = "refused" /\ Ended(c)
  /\ licErrors' = (licErrors \/ c.kind # "status")
  /\ UNCHANGED <<stored, row, form, draft, licNr, licRibbon, overlapped>>

\* An HTTP error is recorded and told to the user; the form and the loaded row
\* stay as they are, a status changed ahead of the answer included.
Refused(c) ==
  /\ c.stage = "refused" /\ Ended(c)
  /\ licErrors' = TRUE
  /\ UNCHANGED <<stored, row, form, draft, licNr, licRibbon, overlapped>>

\* No answer: the write is applied to the loaded row, and the page marked.
Unanswered(c) ==
  /\ c.kind # "wave"
  /\ \/ c.stage = "sent" /\ Stage(c, "given_up")
     \/ c.stage \in {"applied", "refused"} /\ Ended(c)
  /\ licErrors' = TRUE
  /\ row' = Effect(c, row)
  /\ licRibbon' = (licRibbon \/ c.kind = "add" \/ row # NoLicence)
  /\ form' = DoneForm(c)
  /\ UNCHANGED <<stored, draft, licNr, overlapped>>

\* A reload replaces the row, whatever happened since it was read.
ReloadLands(c) ==
  /\ c.stage = "read" /\ Ended(c)
  /\ row' = c.copy
  /\ licRibbon' = (licRibbon /\ c.kind = "wave")
  /\ form' = DoneForm(c)
  /\ UNCHANGED <<stored, draft, licNr, licErrors, overlapped>>

\* A reload that fails leaves the row, records the error and marks the page; the
\* write before it counts as done.
ReloadFails(c) ==
  /\ c.stage \in {"applied", "read"} /\ Ended(c)
  /\ licErrors' = TRUE /\ licRibbon' = TRUE
  /\ form' = DoneForm(c)
  /\ UNCHANGED <<stored, row, draft, licNr, overlapped>>

CallStep(c) == ApiActs(c) \/ Refused(c) \/ Unanswered(c) \/ ReloadLands(c) \/ ReloadFails(c)

LicencesNext ==
  \/ \E f \in {"renew", "edit", "add"} : OpenForm(f)
  \/ Cancel
  \/ \E d \in Dates : ConfirmRenewal(d) \/ SaveChanges(d) \/ AddLicence(d)
  \/ \E flag \in Flags : ChangeStatus(flag)
  \/ RemoveLicence
  \/ ReloadAll
  \/ \E c \in licCalls : CallStep(c)

LicencesSpec == LicencesInit /\ [][LicencesNext]_licVars

-----------------------------------------------------------------------------
(* Properties.                                                              *)

\* When nothing is in flight, no error is recorded and the last call had no other
\* beside it, the row is the API's licence: no status shown ahead of its write, no
\* renewal that got no answer and no reload that failed is left standing as if it
\* were the API's, through any number of writes, forms and reloads before.
QuietRowIsStored == licCalls = {} /\ ~licErrors /\ ~overlapped => row = stored

=============================================================================
