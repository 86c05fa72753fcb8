---------------------------- MODULE MCRateLimiter ----------------------------
(***************************************************************************)
(* An instance of RateLimiter for TLC: logins, checked by address and then *)
(* by email.  A prune comes due in the middle of the windows.              *)
(***************************************************************************)
EXTENDS RateLimiter, TLC

CONSTANTS ip, email

MCRoutes == {<<ip, email>>}
MCLimit  == [k \in {ip, email} |-> 2]
MCWindow == [k \in {ip, email} |-> 3]

Symmetry == Permutations(Requests)
=============================================================================
