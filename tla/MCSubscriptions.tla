--------------------------- MODULE MCSubscriptions ---------------------------
(* Small instances of Subscriptions for TLC. *)
EXTENDS Subscriptions, TLC

CONSTANTS s1, s2, basic, pro, studio, r1, r2

PriceOf == basic :> 1 @@ pro :> 2 @@ studio :> 3
MCAmount == [p \in Plans |-> PriceOf[p]]

(* A checkout is only told from another by the order they are opened in. *)
Symmetry == Permutations(Subs) \cup Permutations(Requests)

=============================================================================
