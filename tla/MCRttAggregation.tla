------------------------- MODULE MCRttAggregation -------------------------
(* An instance of RttAggregation for TLC. *)
EXTENDS RttAggregation

SomeSrtt == [i \in 1..MaxEvents |-> 10 * i]
SomeRttMin == [i \in 1..MaxEvents |-> 10 * (MaxEvents - i)]
============================================================================
