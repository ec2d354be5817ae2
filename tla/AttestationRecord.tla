------------------------- MODULE AttestationRecord -------------------------
(***************************************************************************)
(* What the attestation tables promise an auditor, with no requests,       *)
(* transactions or locks: a packet is answered once, in full and by its    *)
(* recipient; an answer is never changed; a closed campaign never reopens; *)
(* and a campaign is closed only by hand, by the first nominee to answer,  *)
(* or by the answer that completes it.                                     *)
(*                                                                         *)
(* Two things are deliberately left open because the code does not promise *)
(* them: an answer may still arrive after the closure (its request was in  *)
(* flight), and the answer that completes an all_packets campaign may fail *)
(* to close it (see Attestation!LastSubmissionCloses).                     *)
(***************************************************************************)
CONSTANTS Campaigns, Packets, CampaignOf, ClosureMode, People, RecipientOf,
          SubjectsOf, None

VARIABLES status, closedBy, submitter, decisions

vars == <<status, closedBy, submitter, decisions>>

Answers(p) == [SubjectsOf[p] -> {"keep", "revoke"}]

Init ==
  /\ status    = [c \in Campaigns |-> "active"]
  /\ closedBy  = [c \in Campaigns |-> None]
  /\ submitter = [p \in Packets |-> None]
  /\ decisions = [p \in Packets |-> None]

\* The recipient of an outstanding packet answers it.
Record(p, f) ==
  /\ submitter[p] = None
  /\ submitter' = [submitter EXCEPT ![p] = RecipientOf[p]]
  /\ decisions' = [decisions EXCEPT ![p] = f]

\* Every other packet of the campaign is already answered.
Completes(p) ==
  \A q \in Packets \ {p} : CampaignOf[q] = CampaignOf[p] => submitter[q] # None

\* An answer that leaves its campaign as it is: one that arrives after the
\* closure, or one of several that an all_packets campaign waits for.
Answer(p, f) ==
  /\ Record(p, f)
  /\ \/ status[CampaignOf[p]] = "closed"
     \/ ClosureMode[CampaignOf[p]] = "all_packets"
  /\ UNCHANGED <<status, closedBy>>

\* An answer that closes its campaign.
AnswerAndClose(p, f) ==
  LET c == CampaignOf[p] IN
  /\ Record(p, f)
  /\ status[c] = "active"
  /\ ClosureMode[c] = "all_packets" => Completes(p)
  /\ status'   = [status EXCEPT ![c] = "closed"]
  /\ closedBy' = [closedBy EXCEPT ![c] =
                    IF ClosureMode[c] = "any_packet" THEN p ELSE @]

CloseByHand(c) ==
  /\ status[c] = "active"
  /\ status' = [status EXCEPT ![c] = "closed"]
  /\ UNCHANGED <<closedBy, submitter, decisions>>

Next ==
  \/ \E p \in Packets : \E f \in Answers(p) : Answer(p, f) \/ AnswerAndClose(p, f)
  \/ \E c \in Campaigns : CloseByHand(c)

Spec == Init /\ [][Next]_vars

=============================================================================
