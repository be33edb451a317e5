--------------------------- MODULE MCAccountLinks ---------------------------
(***************************************************************************)
(* The instances of AccountLinks TLC checks.  Emails and handlers are      *)
(* interchangeable; links are not, they are given out in an order.         *)
(***************************************************************************)
EXTENDS AccountLinks, TLC

Symmetry == Permutations(Emails) \cup Permutations(LinkHandlers)
=============================================================================
