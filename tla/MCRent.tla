------------------------------- MODULE MCRent -------------------------------
(* Two concurrent calls for pods of one name, one older pod of the account. *)
EXTENDS Rent, TLC

CONSTANTS n1, n2, e1, e2

MCWants ==
  {[kind |-> "up", name |-> n1, node |-> e1],
   [kind |-> "spec", name |-> n1, node |-> e1]}

CONSTANTS c1, c2
CallSymmetry == Permutations({c1, c2})
=============================================================================
