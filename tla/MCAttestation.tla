--------------------------- MODULE MCAttestation ---------------------------
(* Instances of Attestation for TLC: one all_packets campaign with two line *)
(* managers and one any_packet campaign with two nominees.                  *)
EXTENDS Attestation, TLC

CONSTANTS all, any, p1, p2, n1, n2, ann, bob, cat, r1, r2

MCCampaignOf  == p1 :> all @@ p2 :> all @@ n1 :> any @@ n2 :> any
MCClosureMode == all :> "all_packets" @@ any :> "any_packet"
MCRecipientOf == p1 :> ann @@ p2 :> bob @@ n1 :> ann @@ n2 :> bob
MCSubjectsOf  == p1 :> {bob, cat} @@ p2 :> {ann} @@ n1 :> {cat} @@ n2 :> {cat}

=============================================================================
