------------------------- MODULE MCSubscriberPlugin -------------------------
(***************************************************************************)
(* SubscriberPlugin for TLC: limits in both orders, a delay that doubles   *)
(* into its maximum, the reconnect policies 1 to 3, both decoder settings. *)
(***************************************************************************)
EXTENDS SubscriberPlugin

Config(policy, minwait, maxwait, hw) ==
    [policy |-> policy, minwait |-> minwait, maxwait |-> maxwait, hw |-> hw]

AllPolicies ==
    {Config(1, 2, 1, TRUE), Config(2, 1, 2, TRUE), Config(3, 1, 2, FALSE)}

One == {Config(3, 1, 3, FALSE)}

=============================================================================
