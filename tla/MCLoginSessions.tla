--------------------------- MODULE MCLoginSessions ---------------------------
(* Small instances of LoginSessions for TLC. *)
EXTENDS LoginSessions, TLC

(* Bound: a link sets a password only by a request that found it unused,   *)
(* so it is set at most as often as there are requests in flight.          *)
Symmetry == Permutations(Passwords) \cup Permutations(Cookies)
                \cup Permutations(Resets) \cup Permutations(Confirms) \cup Permutations(Requests)

=============================================================================
