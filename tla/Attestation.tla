---------------------------- MODULE Attestation ----------------------------
(***************************************************************************)
(* Submission and closure of attestation packets: what the attestation     *)
(* endpoint (AuditingService.SubmitAttestationAsync) and the campaign's    *)
(* Close button (CampaignService.CloseAsync) do to the tables campaigns,   *)
(* attestation_packets and attestation_decisions.                          *)
(*                                                                         *)
(* Every request runs in its own PostgreSQL transaction at the default     *)
(* isolation level, READ COMMITTED.  The statements of one request are     *)
(* therefore separate steps here, each reads what is committed when it     *)
(* runs plus its own transaction's writes, and an UPDATE waits while       *)
(* another open transaction holds the row.  What a transaction wrote       *)
(* becomes visible in its commit step.                                     *)
(***************************************************************************)
EXTENDS Naturals

CONSTANTS
  Campaigns,     \* launched campaigns
  Packets,       \* attestation packets, one per (campaign, recipient)
  CampaignOf,    \* the campaign_id of each packet
  ClosureMode,   \* closure_mode of each campaign, snapshotted at launch
  People,        \* sAMAccountNames: recipients, subjects and callers
  RecipientOf,   \* recipient_sam of each packet
  SubjectsOf,    \* attestation_packet_subjects of each packet
  Requests,      \* concurrent POSTs to the attestation endpoint
  MaxFaults,     \* bound: requests whose connection or host dies
  None           \* SQL NULL

ClosureModes == {"all_packets", "any_packet"}
Verdicts     == {"keep", "revoke"}

\* The decisions a caller posts, as the map the validation builds from them.
Forms == UNION {[S -> Verdicts] : S \in SUBSET People}

ASSUME ParamsAssumption ==
  /\ CampaignOf  \in [Packets -> Campaigns]
  /\ ClosureMode \in [Campaigns -> ClosureModes]
  /\ RecipientOf \in [Packets -> People]
  /\ SubjectsOf  \in [Packets -> SUBSET People]
  /\ MaxFaults   \in Nat
  /\ None \notin Packets \cup People \cup Forms

VARIABLES
  status,        \* campaigns.status
  closedBy,      \* campaigns.closed_by_packet_id
  submitter,     \* attestation_packets.submitted_by_sam; None while submitted_at IS NULL
  decisions,     \* attestation_decisions of each packet
  pc,            \* where each request stands in SubmitAttestationAsync
  target,        \* the packet a request is about
  caller,        \* the authenticated caller of a request
  form,          \* the decisions a request carries
  closes,        \* does the open transaction hold an UPDATE that closes the campaign?
  byHand,        \* history: campaigns closed by CloseAsync
  faults         \* history: transactions lost so far

tables   == <<status, closedBy, submitter, decisions>>
session  == <<pc, target, caller, form, closes>>
vars     == <<tables, session, byHand, faults>>

Steps == {"idle", "loaded", "claimed", "closing"}

Submitted(p) == submitter[p] # None
PacketsOf(c) == {p \in Packets : CampaignOf[p] = c}

TypeOK ==
  /\ status    \in [Campaigns -> {"active", "closed"}]
  /\ closedBy  \in [Campaigns -> Packets \cup {None}]
  /\ submitter \in [Packets -> People \cup {None}]
  /\ decisions \in [Packets -> Forms \cup {None}]
  /\ pc        \in [Requests -> Steps]
  /\ target    \in [Requests -> Packets \cup {None}]
  /\ caller    \in [Requests -> People \cup {None}]
  /\ form      \in [Requests -> Forms \cup {None}]
  /\ closes    \in [Requests -> BOOLEAN]
  /\ byHand    \in SUBSET Campaigns
  /\ faults    \in 0..MaxFaults

\* A campaign as LaunchAsync commits it: active, every packet outstanding.
Init ==
  /\ status    = [c \in Campaigns |-> "active"]
  /\ closedBy  = [c \in Campaigns |-> None]
  /\ submitter = [p \in Packets |-> None]
  /\ decisions = [p \in Packets |-> None]
  /\ pc        = [r \in Requests |-> "idle"]
  /\ target    = [r \in Requests |-> None]
  /\ caller    = [r \in Requests |-> None]
  /\ form      = [r \in Requests |-> None]
  /\ closes    = [r \in Requests |-> FALSE]
  /\ byHand    = {}
  /\ faults    = 0

----------------------------------------------------------------------------
(* Row locks: an UPDATE that changed a row holds it until its transaction  *)
(* ends, and any other UPDATE of that row waits.                           *)

HoldsPacket(r, p)   == target[r] = p /\ pc[r] \in {"claimed", "closing"}
HoldsCampaign(r, c) == pc[r] = "closing" /\ closes[r] /\ CampaignOf[target[r]] = c

PacketFree(r, p)    == \A q \in Requests \ {r} : ~HoldsPacket(q, p)
CampaignFree(r, c)  == \A q \in Requests \ {r} : ~HoldsCampaign(q, c)

\* The transaction of r ends, by commit, by rollback or by the loss of its connection.
EndSession(r) ==
  /\ pc'     = [pc EXCEPT ![r] = "idle"]
  /\ target' = [target EXCEPT ![r] = None]
  /\ caller' = [caller EXCEPT ![r] = None]
  /\ form'   = [form EXCEPT ![r] = None]
  /\ closes' = [closes EXCEPT ![r] = FALSE]

----------------------------------------------------------------------------
(* SubmitAttestationAsync                                                  *)

\* Mutant: "a decision is required for every subject" is not enforced.
MaySubmit_Partial(p, who, f) ==
  /\ who = RecipientOf[p]
  /\ ~Submitted(p)
  /\ status[CampaignOf[p]] # "closed"
  /\ DOMAIN f # {}
  /\ DOMAIN f \subseteq SubjectsOf[p]

\* The checks made before any write: a non-empty post, the SSO identity gate,
\* the read-only view of a packet that is done, one decision per subject.
MaySubmit(p, who, f) ==
  /\ who = RecipientOf[p]
  /\ ~Submitted(p)
  /\ status[CampaignOf[p]] # "closed"
  /\ DOMAIN f # {}
  /\ DOMAIN f = SubjectsOf[p]

\* LoadPacketAsync and the validation.  A request that fails a check is
\* answered Forbidden, Conflict or BadRequest and rolled back: no state changes.
SubmitLoad(r, p, who, f) ==
  /\ pc[r] = "idle"
  /\ MaySubmit(p, who, f)
  /\ pc'     = [pc EXCEPT ![r] = "loaded"]
  /\ target' = [target EXCEPT ![r] = p]
  /\ caller' = [caller EXCEPT ![r] = who]
  /\ form'   = [form EXCEPT ![r] = f]
  /\ UNCHANGED <<tables, closes, byHand, faults>>

\* Mutant: the claim lacks its WHERE submitted_at IS NULL.
SubmitClaim_Unguarded(r) ==
  /\ pc[r] = "loaded"
  /\ PacketFree(r, target[r])
  /\ pc' = [pc EXCEPT ![r] = "claimed"]
  /\ UNCHANGED <<tables, target, caller, form, closes, byHand, faults>>

\* UPDATE attestation_packets SET submitted_at = NOW() ... WHERE submitted_at IS NULL.
SubmitClaim(r) ==
  /\ pc[r] = "loaded"
  /\ PacketFree(r, target[r])
  /\ ~Submitted(target[r])
  /\ pc' = [pc EXCEPT ![r] = "claimed"]
  /\ UNCHANGED <<tables, target, caller, form, closes, byHand, faults>>

\* Mutant: a lost claim is retried instead of answered.
SubmitLosesClaim_Retries(r) ==
  /\ pc[r] = "loaded"
  /\ PacketFree(r, target[r])
  /\ Submitted(target[r])
  /\ UNCHANGED vars

\* The same UPDATE matching no row: another request committed first.
SubmitLosesClaim(r) ==
  /\ pc[r] = "loaded"
  /\ PacketFree(r, target[r])
  /\ Submitted(target[r])
  /\ EndSession(r)
  /\ UNCHANGED <<tables, byHand, faults>>

\* Mutant: the closure mode is not consulted, every campaign waits for all packets.
ClosureApplies_AlwaysAll(p) ==
  LET c == CampaignOf[p] IN
  /\ status[c] = "active"
  /\ \A q \in PacketsOf(c) : q = p \/ Submitted(q)

\* What the closure UPDATE's WHERE clause sees: committed rows and the
\* claim of its own transaction, not the claims other transactions still hold.
ClosureApplies(p) ==
  LET c == CampaignOf[p] IN
  /\ status[c] = "active"
  /\ \/ ClosureMode[c] = "any_packet"
     \/ \A q \in PacketsOf(c) : q = p \/ Submitted(q)

\* The decision INSERTs (rows only this transaction sees) and the closure UPDATE.
SubmitClosure(r) ==
  /\ pc[r] = "claimed"
  /\ ClosureApplies(target[r]) => CampaignFree(r, CampaignOf[target[r]])
  /\ pc'     = [pc EXCEPT ![r] = "closing"]
  /\ closes' = [closes EXCEPT ![r] = ClosureApplies(target[r])]
  /\ UNCHANGED <<tables, target, caller, form, byHand, faults>>

\* Mutant: the closure UPDATE of any_packet lacks AND status = 'active'.
SubmitCommit_Reclose(r) ==
  LET p == target[r]
      c == CampaignOf[p]
  IN
  /\ pc[r] = "closing"
  /\ submitter' = [submitter EXCEPT ![p] = caller[r]]
  /\ decisions' = [decisions EXCEPT ![p] = form[r]]
  /\ status'    = [status EXCEPT ![c] = IF closes[r] THEN "closed" ELSE @]
  /\ closedBy'  = [closedBy EXCEPT ![c] = IF ClosureMode[c] = "any_packet" THEN p ELSE @]
  /\ EndSession(r)
  /\ UNCHANGED <<byHand, faults>>

\* Mutant: closed_by_packet_id is given the campaign's id (@Cid for @Pid).
SubmitCommit_WrongId(r) ==
  LET p == target[r]
      c == CampaignOf[p]
  IN
  /\ pc[r] = "closing"
  /\ submitter' = [submitter EXCEPT ![p] = caller[r]]
  /\ decisions' = [decisions EXCEPT ![p] = form[r]]
  /\ status'    = [status EXCEPT ![c] = IF closes[r] THEN "closed" ELSE @]
  /\ closedBy'  = [closedBy EXCEPT ![c] = IF closes[r] THEN c ELSE @]
  /\ EndSession(r)
  /\ UNCHANGED <<byHand, faults>>

\* Commit: the claim, the decisions and the closure become visible together.
SubmitCommit(r) ==
  LET p == target[r]
      c == CampaignOf[p]
  IN
  /\ pc[r] = "closing"
  /\ submitter' = [submitter EXCEPT ![p] = caller[r]]
  /\ decisions' = [decisions EXCEPT ![p] = form[r]]
  /\ status'    = [status EXCEPT ![c] = IF closes[r] THEN "closed" ELSE @]
  /\ closedBy'  = [closedBy EXCEPT ![c] =
                     IF closes[r] /\ ClosureMode[c] = "any_packet" THEN p ELSE @]
  /\ EndSession(r)
  /\ UNCHANGED <<byHand, faults>>

\* The connection drops, a statement fails or the host stops: rolled back.
SubmitFails(r) ==
  /\ pc[r] # "idle"
  /\ faults < MaxFaults
  /\ faults' = faults + 1
  /\ EndSession(r)
  /\ UNCHANGED <<tables, byHand>>

----------------------------------------------------------------------------
\* CloseAsync: one UPDATE ... WHERE status <> 'closed' in a transaction of its own.
Close(c) ==
  /\ status[c] # "closed"
  /\ \A q \in Requests : ~HoldsCampaign(q, c)
  /\ status' = [status EXCEPT ![c] = "closed"]
  /\ byHand' = byHand \cup {c}
  /\ UNCHANGED <<closedBy, submitter, decisions, session, faults>>

Submit(r) ==
  \/ \E p \in Packets, who \in People, f \in Forms : SubmitLoad(r, p, who, f)
  \/ SubmitClaim(r)
  \/ SubmitLosesClaim(r)
  \/ SubmitClosure(r)
  \/ SubmitCommit(r)
  \/ SubmitFails(r)

Next ==
  \/ \E r \in Requests : Submit(r)
  \/ \E c \in Campaigns : Close(c)

\* An open transaction keeps running: nothing in the code waits for a user
\* between its statements.  Whether a request arrives at all is not assumed.
Progress(r) == SubmitClaim(r) \/ SubmitLosesClaim(r) \/ SubmitClosure(r) \/ SubmitCommit(r)

Spec == Init /\ [][Next]_vars

FairSpec == Spec /\ \A r \in Requests : WF_vars(Progress(r))

----------------------------------------------------------------------------
(* Properties                                                              *)

InFlight(p) == \E r \in Requests : target[r] = p

\* The stored decisions of a packet are all or nothing: an outstanding packet
\* has none, and a submitted one has exactly one valid decision per subject,
\* posted by its recipient, however requests for it interleave or fail
\* (SubmitAttestationAsync: identity gate, validation, atomic claim).
RecordComplete ==
  \A p \in Packets :
    IF Submitted(p)
    THEN submitter[p] = RecipientOf[p] /\ decisions[p] \in [SubjectsOf[p] -> Verdicts]
    ELSE decisions[p] = None

\* Once one nominee's answer is stored the any_packet campaign is closed: no
\* schedule of submissions, manual closes and failures leaves it open
\* (the closure UPDATE is in the transaction of the claim).
AnyAnswerCloses ==
  \A p \in Packets :
    Submitted(p) /\ ClosureMode[CampaignOf[p]] = "any_packet"
      => status[CampaignOf[p]] = "closed"

\* A campaign is closed for a reason that is still on record: an operator's
\* Close, the answer closed_by_packet_id names, or an answer to every packet
\* (the WHERE clauses of the two closure UPDATEs).
ClosureJustified ==
  \A c \in Campaigns :
    /\ status[c] = "closed" =>
         \/ c \in byHand
         \/ ClosureMode[c] = "any_packet" /\ closedBy[c] # None
         \/ ClosureMode[c] = "all_packets" /\ \A p \in PacketsOf(c) : Submitted(p)
    /\ closedBy[c] # None =>
         /\ ClosureMode[c] = "any_packet" /\ c \notin byHand
         /\ closedBy[c] \in PacketsOf(c) /\ Submitted(closedBy[c])

\* The tables only ever move as the audit record allows (AttestationRecord).
Record == INSTANCE AttestationRecord WITH status <- status, closedBy <- closedBy,
                                          submitter <- submitter, decisions <- decisions
ImplementsRecord == Record!Spec

\* No open transaction waits for ever: the row locks that submissions and
\* closes take (packet, then campaign) cannot block each other for good.
RequestsFinish == \A r \in Requests : pc[r] # "idle" ~> pc[r] = "idle"

\* AuditingService.cs: "all_packets when the last lands".  A campaign with
\* every packet answered and no request in flight is closed.  Holds when
\* requests do not overlap, and fails when two last answers do.
LastSubmissionCloses ==
  \A c \in Campaigns :
    /\ ClosureMode[c] = "all_packets"
    /\ PacketsOf(c) # {}
    /\ \A p \in PacketsOf(c) : Submitted(p) /\ ~InFlight(p)
    => status[c] = "closed"

----------------------------------------------------------------------------
(* The inductive invariant: what open transactions know about the tables.  *)

\* An open transaction works on a packet for its recipient with a full set of
\* decisions, and once it has claimed the packet nobody else has submitted it.
SessionsSound ==
  \A r \in Requests :
    /\ pc[r] = "idle" => target[r] = None
    /\ pc[r] # "idle" =>
         /\ target[r] \in Packets
         /\ caller[r] = RecipientOf[target[r]]
         /\ form[r] \in [SubjectsOf[target[r]] -> Verdicts]
    /\ pc[r] \in {"claimed", "closing"} => ~Submitted(target[r])

\* Row locks are exclusive.
LocksExclusive ==
  \A r, q \in Requests :
    r # q =>
      /\ \A p \in Packets : ~(HoldsPacket(r, p) /\ HoldsPacket(q, p))
      /\ \A c \in Campaigns : ~(HoldsCampaign(r, c) /\ HoldsCampaign(q, c))

\* The lock on the campaign keeps the outcome of the closure UPDATE true until
\* the commit; an any_packet submission that does not close was overtaken.
ClosuresSound ==
  \A r \in Requests :
    /\ closes[r] => pc[r] = "closing" /\ ClosureApplies(target[r])
    /\ pc[r] = "closing" /\ ~closes[r] /\ ClosureMode[CampaignOf[target[r]]] = "any_packet"
         => status[CampaignOf[target[r]]] = "closed"

\* A campaign closed by hand is closed.
HandClosed == \A c \in byHand : status[c] = "closed"

IInv ==
  /\ TypeOK
  /\ HandClosed
  /\ SessionsSound
  /\ LocksExclusive
  /\ ClosuresSound
  /\ RecordComplete
  /\ AnyAnswerCloses
  /\ ClosureJustified

=============================================================================
