-------------------------- MODULE MCCampaignLaunch --------------------------
(* Instances of CampaignLaunch for TLC.                                     *)
EXTENDS CampaignLaunch, TLC

CONSTANTS a1, a2, g, ann, bob, o1, o2

\* bob works for ann and ann for nobody: ann's packet and the fallback to the
\* business owner can fall together.
MCDirectory == [member |-> (g :> {ann, bob}), manager |-> (ann :> None @@ bob :> ann)]

\* bob has left the group, and nobody works for ann.
MCExtracts == {[member |-> (g :> {ann}), manager |-> (ann :> None @@ bob :> None)]}

\* Line managers with and without a fallback, and nominees; auto-launched or not.
MCSettings ==
  {[mode |-> "line_manager", owner |-> ann,  auto |-> TRUE],
   [mode |-> "line_manager", owner |-> None, auto |-> FALSE],
   [mode |-> "nominees",     owner |-> None, auto |-> FALSE]}

MCAutoSettings == {[mode |-> "line_manager", owner |-> ann, auto |-> TRUE]}

OperatorSymmetry == Permutations(Operators)

=============================================================================
