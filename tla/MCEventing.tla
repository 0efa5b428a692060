----------------------------- MODULE MCEventing -----------------------------
(* Eventing on two services that share the record addresses.  In the       *)
(* passing run cm has room for two subscribers and cd, whose state         *)
(* changes, for one; the runs for findings have two in each.               *)
EXTENDS Eventing, TLC

CONSTANTS cm, cd

MCMaxSubscribers == [s \in Services |-> IF s = cm THEN 2 ELSE 1]

(* Two subscribers in either service.                                      *)
MCTwoEach == [s \in Services |-> 2]

Symmetry == Permutations(Nodes)
=============================================================================
