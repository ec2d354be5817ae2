---------------------------- MODULE MCReminders ----------------------------
(* An instance of Reminders for TLC: one campaign with two packets.         *)
EXTENDS Reminders, TLC

CONSTANTS all, p1, p2, ann, bob

MCCampaignOf  == p1 :> all @@ p2 :> all
MCClosureMode == all :> "all_packets"
MCRecipientOf == p1 :> ann @@ p2 :> bob
MCSubjectsOf  == p1 :> {bob} @@ p2 :> {ann}

\* Swapping the packets together with their recipients leaves the instance unchanged.
MCSymmetry == {pi \in Permutations({p1, p2, ann, bob}) :
                 /\ {pi[p] : p \in Packets} = Packets
                 /\ \A p \in Packets : pi[MCRecipientOf[p]] = MCRecipientOf[pi[p]]}

=============================================================================
