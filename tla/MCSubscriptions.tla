-------------------------- MODULE MCSubscriptions --------------------------
(* Small instances of Subscriptions for TLC.                               *)
EXTENDS Subscriptions

\* Two policies that a swap of group and name turns into each other.
MCPolicies == {[group |-> "a", name |-> "b"], [group |-> "b", name |-> "a"]}
=============================================================================
