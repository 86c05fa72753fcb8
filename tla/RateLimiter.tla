----------------------------- MODULE RateLimiter -----------------------------
(***************************************************************************)
(* The sliding-window limiter (app/services/ratelimit.py) as the routes    *)
(* use it (app/api/ratelimit.py, app/auth/router.py, app/api/images.py).   *)
(* check() reads the clock before it takes the lock, so that another       *)
(* thread may get the lock in between, with a later time.                  *)
(*                                                                         *)
(* A deque of hits is what is left of all the hits that were admitted      *)
(* since its key was last cleared: hits leave from the front only, so that *)
(* the number of those that are gone tells which are left.                 *)
(***************************************************************************)
EXTENDS Integers, Sequences

CONSTANTS
    Requests,    \* requests in flight, each in a thread of its own
    Keys,        \* "login:ip:...", "login:email:...", "upload:..." ...
    Routes,      \* what a request is checked against: keys in their order
    Emails,      \* keys that a correct password clears
    Limit,       \* Limit[k], Window[k]: the settings of the key's route
    Window,
    PruneEvery,  \* _PRUNE_EVERY
    Delay,       \* the longest a thread is kept between clock and lock
    MaxClock     \* bound on time

ASSUME LimiterAssumption ==
    /\ Routes \subseteq {s \in Seq(Keys) : s # <<>>}
    /\ Limit \in [Keys -> Nat \ {0}]
    /\ Window \in [Keys -> Nat \ {0}]
    /\ PruneEvery \in Nat /\ MaxClock \in Nat /\ Delay \in Nat
    /\ \A k \in Keys : Delay < Window[k]

VARIABLES
    clock,      \* time.monotonic()
    request,    \* request[r]: its keys still to be checked, and its time
    admitted,   \* admitted[k]: the hits recorded since k was last cleared
    gone,       \* gone[k]: how many of them the limiter has dropped
    known,      \* keys of _buckets
    nextPrune   \* _next_prune

buckets == <<admitted, gone, known, nextPrune>>
vars    == <<clock, request, buckets>>

At(place, keys, now, retry) == [at |-> place, keys |-> keys, now |-> now, retry |-> retry]
Idle == At("idle", <<>>, 0, 0)

Init ==
    /\ clock = 0
    /\ request = [r \in Requests |-> Idle]
    /\ admitted = [k \in Keys |-> <<>>]
    /\ gone = [k \in Keys |-> 0]
    /\ known = {}
    /\ nextPrune = PruneEvery

-----------------------------------------------------------------------------
Last(k) == Len(admitted[k])

(* hits[-1] and hits[0] *)
Newest(k)    == admitted[k][Last(k)].stamp
Oldest(k, g) == admitted[k][g + 1].stamp

(* Keys whose every hit has left its window, judged by the last one. *)
Stale_ByFirst(k, now) == gone[k] = Last(k) \/ Oldest(k, gone[k]) <= now - Window[k]
Stale_WhenEmpty(k, now) == gone[k] = Last(k)
Stale(k, now) == gone[k] = Last(k) \/ Newest(k) <= now - Window[k]

Prunes(now) == now >= nextPrune

Pruned(now) == IF Prunes(now) THEN {k \in known : Stale(k, now)} ELSE {}

(* What is gone of k when the prune is over. *)
GoneByPrune(k, now) == IF k \in Pruned(now) THEN Last(k) ELSE gone[k]

(* popleft() while the head has left the window *)
Popped(k, now, g) ==
    /\ g \in GoneByPrune(k, now)..Last(k)
    /\ \A i \in (GoneByPrune(k, now) + 1)..g : admitted[k][i].stamp <= now - Window[k]
    /\ g < Last(k) => Oldest(k, g) > now - Window[k]

(* "the hit is not recorded, so being limited never extends the block" *)
RetryIn_FromNow(k, g, now) == Oldest(k, g) - now
RetryIn(k, g, now) == Oldest(k, g) - (now - Window[k])

-----------------------------------------------------------------------------
(* enforce() for the next key *)
ReadClock(r) ==
    /\ \/ /\ request[r].at = "ready"
          /\ request' = [request EXCEPT ![r] = At("read", @.keys, clock, 0)]
       \/ /\ request[r].at = "idle"
          /\ \E route \in Routes :
                request' = [request EXCEPT ![r] = At("read", route, clock, 0)]
    /\ UNCHANGED <<clock, buckets>>

(* With the lock: prune, pop, and either record the hit or answer 429. *)
Check(r) ==
    LET k   == Head(request[r].keys)
        now == request[r].now
    IN  /\ request[r].at = "read"
        /\ \E g \in 0..Last(k) :
              /\ Popped(k, now, g)
              /\ gone' = [j \in Keys |-> IF j = k THEN g ELSE GoneByPrune(j, now)]
              /\ IF Last(k) - g >= Limit[k]
                 THEN /\ request' = [request EXCEPT ![r] = At("limited", <<k>>, 0, RetryIn(k, g, now))]
                      /\ UNCHANGED admitted
                 ELSE /\ request' = [request EXCEPT ![r] =
                             IF Len(@.keys) = 1 THEN At("passed", <<k>>, 0, 0)
                                                ELSE At("ready", Tail(@.keys), 0, 0)]
                      /\ admitted' = [admitted EXCEPT ![k] =
                             Append(@, [stamp |-> now, at |-> clock])]
        /\ known' = (known \ Pruned(now)) \cup {k}
        /\ nextPrune' = IF Prunes(now) THEN now + PruneEvery ELSE nextPrune
        /\ UNCHANGED clock

(* The handler answers; a correct password forgets the attempts. *)
Answer(r) ==
    /\ request[r].at \in {"passed", "limited"}
    /\ request' = [request EXCEPT ![r] = Idle]
    /\ UNCHANGED <<clock, buckets>>

LoggedIn(r) ==
    LET k == Head(request[r].keys)
    IN  /\ request[r].at = "passed"
        /\ k \in Emails
        /\ request' = [request EXCEPT ![r] = Idle]
        /\ admitted' = [admitted EXCEPT ![k] = <<>>]
        /\ gone' = [gone EXCEPT ![k] = 0]
        /\ known' = known \ {k}
        /\ UNCHANGED <<clock, nextPrune>>

(* Time passes, but no thread is kept from the lock for longer than Delay. *)
Tick ==
    /\ clock < MaxClock
    /\ \A r \in Requests : request[r].at = "read" => clock < request[r].now + Delay
    /\ clock' = clock + 1
    /\ UNCHANGED <<request, buckets>>

Next ==
    \/ \E r \in Requests : ReadClock(r) \/ Check(r) \/ Answer(r) \/ LoggedIn(r)
    \/ Tick

Spec == Init /\ [][Next]_vars

-----------------------------------------------------------------------------
Hit == [stamp : Nat, at : Nat]

Request == [at : {"idle", "ready", "read", "passed", "limited"},
            keys : Seq(Keys), now : Nat, retry : Int]

TypeOK ==
    /\ clock \in Nat
    /\ request \in [Requests -> Request]
    /\ \A r \in Requests : request[r].at # "idle" => request[r].keys # <<>>
    /\ admitted \in [Keys -> Seq(Hit)]
    /\ gone \in [Keys -> Nat]
    /\ \A k \in Keys : gone[k] <= Last(k)
    /\ known \subseteq Keys
    /\ nextPrune \in Nat

(* The limit: of the hits on a key, one and the Limit-th after it are a    *)
(* window apart, less what a thread may be kept from the lock.  Pruning    *)
(* (test_prune_drops_stale_keys) and hits out of order do not break it.    *)
WindowHolds ==
    \A k \in Keys : \A i, j \in 1..Last(k) :
        j - i >= Limit[k] => admitted[k][j].at >= admitted[k][i].at + Window[k] - Delay

(* "otherwise seconds until a slot frees": positive, and never much longer *)
(* than the window.                                                        *)
RetryHonest ==
    \A r \in Requests : request[r].at = "limited" =>
        /\ request[r].retry > 0
        /\ request[r].retry <= Window[Head(request[r].keys)] + Delay

(* "so one-off clients can't grow the dict forever": after a check, every  *)
(* key that is still known was hit at most a prune and a window before.    *)
ForgetsOneOffs ==
    [][\A r \in Requests : Check(r) =>
          \A k \in known' : /\ Last(k)' > 0
                            /\ Newest(k)' > request[r].now - PruneEvery - Window[k]]_vars

-----------------------------------------------------------------------------
(* The inductive strengthening the proofs of RateLimiterProofs use. *)

(* A hit is recorded at most Delay after its time was read, in the order   *)
(* of the lock, and is dropped when its window is over, or nearly so.      *)
HitsInOrder ==
    \A k \in Keys : \A i \in 1..Last(k) :
        /\ admitted[k][i].stamp <= admitted[k][i].at
        /\ admitted[k][i].at <= admitted[k][i].stamp + Delay
        /\ admitted[k][i].at <= clock
        /\ \A j \in i..Last(k) : admitted[k][i].at <= admitted[k][j].at

DroppedLate ==
    \A k \in Keys : \A i \in 1..gone[k] :
        admitted[k][i].at <= clock - Window[k] + Delay

ReadInTime ==
    \A r \in Requests : request[r].at = "read" =>
        request[r].now <= clock /\ clock <= request[r].now + Delay

KnownLive ==
    /\ \A k \in known : Last(k) > 0 /\ Newest(k) > nextPrune - PruneEvery - Window[k]
    /\ \A k \in Keys \ known : gone[k] = Last(k)
    /\ nextPrune - PruneEvery <= clock

IInv ==
    /\ TypeOK
    /\ HitsInOrder /\ DroppedLate /\ ReadInTime /\ KnownLive
    /\ WindowHolds /\ RetryHonest

=============================================================================
