-------------------------- MODULE RateLimiterProofs --------------------------
(***************************************************************************)
(* Proofs about RateLimiter, for any number of requests, any keys with     *)
(* their limits and windows, and any delay shorter than every window.      *)
(***************************************************************************)
EXTENDS RateLimiter, SequenceTheorems, TLAPS

-----------------------------------------------------------------------------
LEMMA Settings ==
    /\ PruneEvery \in Nat /\ Delay \in Nat /\ MaxClock \in Nat
    /\ \A k \in Keys : /\ Limit[k] \in Nat /\ Limit[k] >= 1
                       /\ Window[k] \in Nat /\ Delay < Window[k]
BY LimiterAssumption

LEMMA SeveralKeys ==
    ASSUME NEW s \in Seq(Keys), s # <<>>, Len(s) # 1
    PROVE  Tail(s) \in Seq(Keys) /\ Tail(s) # <<>>
<1>1. Len(s) \in Nat /\ Len(s) # 0
  BY EmptySeq
<1>2. Tail(s) \in Seq(Keys) /\ Len(Tail(s)) = Len(s) - 1
  BY <1>1, HeadTailProperties
<1>3. Len(Tail(s)) # 0
  BY <1>1, <1>2
<1> QED BY <1>2, <1>3, EmptySeq

LEMMA IdleType == Idle \in Request /\ Idle.at = "idle"
BY DEF Idle, At, Request

(* What the type invariant says of one key. *)
LEMMA KeyTypes ==
    ASSUME TypeOK, NEW k \in Keys
    PROVE  /\ admitted[k] \in Seq(Hit) /\ Last(k) \in Nat
           /\ gone[k] \in Nat /\ gone[k] <= Last(k)
           /\ \A i \in 1..Last(k) : admitted[k][i] \in Hit
                                    /\ admitted[k][i].stamp \in Nat /\ admitted[k][i].at \in Nat
<1>1. admitted[k] \in Seq(Hit) /\ gone[k] \in Nat /\ gone[k] <= Last(k)
  BY DEF TypeOK
<1>2. Last(k) \in Nat /\ \A i \in 1..Last(k) : admitted[k][i] \in Hit
  BY <1>1 DEF Last
<1> QED BY <1>1, <1>2 DEF Hit

LEMMA InitIInv == Init => IInv
<1> SUFFICES ASSUME Init PROVE IInv
  OBVIOUS
<1>1. \A k \in Keys : admitted[k] = <<>> /\ gone[k] = 0 /\ Last(k) = 0
  BY DEF Init, Last
<1>2. TypeOK
  BY <1>1, IdleType, Settings DEF Init, TypeOK
<1>3. \A r \in Requests : request[r].at = "idle"
  BY IdleType DEF Init
<1>4. KnownLive
  BY <1>1, Settings DEF Init, KnownLive
<1> QED BY <1>1, <1>2, <1>3, <1>4
        DEF IInv, HitsInOrder, DroppedLate, ReadInTime, WindowHolds, RetryHonest

(* While the buckets stand still, time may pass for what was dropped. *)
LEMMA BucketsStandStill ==
    ASSUME IInv, UNCHANGED buckets, clock' \in Nat, clock' >= clock
    PROVE  HitsInOrder' /\ DroppedLate' /\ KnownLive' /\ WindowHolds'
<1>1. clock \in Nat /\ TypeOK
  BY DEF IInv, TypeOK
<1>2. UNCHANGED <<admitted, gone, known, nextPrune>> /\ \A k \in Keys : Last(k)' = Last(k)
  BY DEF buckets, Last
<1>3. HitsInOrder'
  <2> SUFFICES ASSUME NEW k \in Keys, NEW i \in 1..Last(k)
               PROVE  /\ admitted[k][i].stamp <= admitted[k][i].at
                      /\ admitted[k][i].at <= admitted[k][i].stamp + Delay
                      /\ admitted[k][i].at <= clock'
                      /\ \A j \in i..Last(k) : admitted[k][i].at <= admitted[k][j].at
    BY <1>2 DEF HitsInOrder
  <2>1. admitted[k][i].at \in Nat
    BY <1>1, KeyTypes
  <2> QED BY <1>1, <2>1 DEF IInv, HitsInOrder
<1>4. DroppedLate'
  <2> SUFFICES ASSUME NEW k \in Keys, NEW i \in 1..gone[k]
               PROVE  admitted[k][i].at <= clock' - Window[k] + Delay
    BY <1>2 DEF DroppedLate
  <2>1. i \in 1..Last(k)
    BY <1>1, KeyTypes
  <2>2. admitted[k][i].at \in Nat
    BY <1>1, <2>1, KeyTypes
  <2> QED BY <1>1, <2>2, Settings DEF IInv, DroppedLate
<1>5. KnownLive'
  BY <1>1, <1>2, Settings DEF IInv, KnownLive, Newest, TypeOK
<1>6. WindowHolds'
  BY <1>2 DEF IInv, WindowHolds
<1> QED BY <1>3, <1>4, <1>5, <1>6

LEMMA ReadClockStep ==
    ASSUME IInv, NEW r \in Requests, ReadClock(r)
    PROVE  IInv'
<1>1. UNCHANGED <<clock, buckets>> /\ TypeOK /\ clock \in Nat
  BY DEF ReadClock, IInv, TypeOK
<1>2. PICK keys \in Seq(Keys) :
        keys # <<>> /\ request' = [request EXCEPT ![r] = At("read", keys, clock, 0)]
  BY <1>1, LimiterAssumption DEF ReadClock, TypeOK, Request
<1>3. /\ At("read", keys, clock, 0) \in Request
      /\ At("read", keys, clock, 0).at = "read"
      /\ At("read", keys, clock, 0).now = clock
      /\ At("read", keys, clock, 0).keys # <<>>
  BY <1>1, <1>2 DEF At, Request
<1>4. TypeOK'
  BY <1>1, <1>2, <1>3 DEF TypeOK, buckets, Last
<1>5. ReadInTime'
  BY <1>1, <1>2, <1>3, Settings DEF IInv, ReadInTime, TypeOK
<1>6. RetryHonest'
  BY <1>2, <1>3 DEF IInv, RetryHonest, TypeOK
<1>7. HitsInOrder' /\ DroppedLate' /\ KnownLive' /\ WindowHolds'
  BY <1>1, BucketsStandStill
<1> QED BY <1>4, <1>5, <1>6, <1>7 DEF IInv

LEMMA AnswerStep ==
    ASSUME IInv, NEW r \in Requests, Answer(r)
    PROVE  IInv'
<1>1. UNCHANGED <<clock, buckets>> /\ TypeOK /\ clock \in Nat
  BY DEF Answer, IInv, TypeOK
<1>2. request' = [request EXCEPT ![r] = Idle]
  BY DEF Answer
<1>3. TypeOK'
  BY <1>1, <1>2, IdleType DEF TypeOK, buckets, Last
<1>4. ReadInTime' /\ RetryHonest'
  BY <1>1, <1>2, IdleType DEF IInv, ReadInTime, RetryHonest, TypeOK
<1>5. HitsInOrder' /\ DroppedLate' /\ KnownLive' /\ WindowHolds'
  BY <1>1, BucketsStandStill
<1> QED BY <1>3, <1>4, <1>5 DEF IInv

LEMMA TickStep ==
    ASSUME IInv, Tick
    PROVE  IInv'
<1>1. TypeOK /\ clock \in Nat /\ clock' = clock + 1 /\ UNCHANGED <<request, buckets>>
  BY DEF Tick, IInv, TypeOK
<1>2. clock' \in Nat /\ clock' >= clock
  BY <1>1
<1>3. TypeOK'
  BY <1>1, <1>2 DEF TypeOK, buckets, Last
<1>4. ReadInTime'
  <2> SUFFICES ASSUME NEW r \in Requests, request[r].at = "read"
               PROVE  request[r].now <= clock' /\ clock' <= request[r].now + Delay
    BY <1>1 DEF ReadInTime
  <2>1. request[r].now \in Nat /\ request[r].now <= clock /\ clock < request[r].now + Delay
    BY DEF Tick, IInv, ReadInTime, TypeOK, Request
  <2> QED BY <1>1, <2>1, Settings
<1>5. RetryHonest'
  BY <1>1 DEF IInv, RetryHonest
<1>6. HitsInOrder' /\ DroppedLate' /\ KnownLive' /\ WindowHolds'
  BY <1>1, <1>2, BucketsStandStill
<1> QED BY <1>3, <1>4, <1>5, <1>6 DEF IInv

(* Clearing a key forgets its history, and only its. *)
LEMMA LoggedInStep ==
    ASSUME IInv, NEW r \in Requests, LoggedIn(r)
    PROVE  IInv'
<1>1. /\ TypeOK /\ request[r].keys # <<>> /\ request[r].keys \in Seq(Keys)
      /\ UNCHANGED <<clock, nextPrune>>
  BY DEF LoggedIn, IInv, TypeOK, Request
<1>2. PICK k \in Keys : k = Head(request[r].keys)
  BY <1>1
<1>3. /\ request' = [request EXCEPT ![r] = Idle]
      /\ admitted' = [admitted EXCEPT ![k] = <<>>]
      /\ gone' = [gone EXCEPT ![k] = 0]
      /\ known' = known \ {k}
  BY <1>2 DEF LoggedIn
<1>4. admitted'[k] = <<>> /\ gone'[k] = 0 /\ Last(k)' = 0
  BY <1>1, <1>2, <1>3 DEF TypeOK, Last
<1>5. \A j \in Keys \ {k} : admitted'[j] = admitted[j] /\ gone'[j] = gone[j] /\ Last(j)' = Last(j)
  BY <1>1, <1>2, <1>3 DEF TypeOK, Last
<1>6. TypeOK'
  <2>1. admitted' \in [Keys -> Seq(Hit)] /\ gone' \in [Keys -> Nat]
    BY <1>1, <1>2, <1>3 DEF TypeOK
  <2>2. request' \in [Requests -> Request]
        /\ \A q \in Requests : request'[q].at # "idle" => request'[q].keys # <<>>
    BY <1>1, <1>3, IdleType DEF TypeOK
  <2>3. \A j \in Keys : gone'[j] <= Last(j)'
    <3>1. gone'[k] <= Last(k)'
      BY <1>4
    <3>2. \A j \in Keys \ {k} : gone'[j] <= Last(j)'
      BY <1>1, <1>5, KeyTypes
    <3> QED BY <3>1, <3>2
  <2> QED BY <1>1, <1>3, <2>1, <2>2, <2>3 DEF TypeOK
<1>7. ReadInTime' /\ RetryHonest'
  BY <1>1, <1>3, IdleType DEF IInv, ReadInTime, RetryHonest, TypeOK
<1>8. HitsInOrder'
  BY <1>1, <1>4, <1>5 DEF IInv, HitsInOrder
<1>9. DroppedLate'
  BY <1>1, <1>4, <1>5 DEF IInv, DroppedLate
<1>10. KnownLive'
  <2>1. \A j \in known' : j \in known /\ j \in Keys /\ j # k
    BY <1>1, <1>3 DEF TypeOK
  <2>2. \A j \in Keys \ known' : gone'[j] = Last(j)'
    BY <1>3, <1>4, <1>5 DEF IInv, KnownLive
  <2> QED BY <1>1, <1>5, <2>1, <2>2 DEF IInv, KnownLive, Newest
<1>11. WindowHolds'
  BY <1>4, <1>5 DEF IInv, WindowHolds
<1> QED BY <1>6, <1>7, <1>8, <1>9, <1>10, <1>11 DEF IInv

-----------------------------------------------------------------------------
(* A prune at now drops only hits whose window is over, or nearly so: the  *)
(* last hit of a stale key is the last recorded, though not always the     *)
(* latest, and those before it were recorded at most Delay after its time. *)
LEMMA PruneDropsLate ==
    ASSUME IInv, NEW now \in Nat, now <= clock, NEW k \in Keys
    PROVE  /\ GoneByPrune(k, now) \in gone[k]..Last(k)
           /\ \A i \in 1..GoneByPrune(k, now) :
                 admitted[k][i].at <= clock - Window[k] + Delay
<1>1. /\ Last(k) \in Nat /\ gone[k] \in Nat /\ gone[k] <= Last(k) /\ clock \in Nat
      /\ \A i \in 1..Last(k) : admitted[k][i].stamp \in Nat /\ admitted[k][i].at \in Nat
  BY KeyTypes DEF IInv, TypeOK
<1>2. CASE k \notin Pruned(now) \/ gone[k] = Last(k)
  <2>1. GoneByPrune(k, now) = gone[k]
    BY <1>2 DEF GoneByPrune
  <2> QED BY <1>1, <2>1 DEF IInv, DroppedLate
<1>3. CASE k \in Pruned(now) /\ gone[k] # Last(k)
  <2>1. GoneByPrune(k, now) = Last(k) /\ Newest(k) <= now - Window[k]
    BY <1>3 DEF GoneByPrune, Pruned, Stale
  <2>2. Last(k) >= 1
    BY <1>1, <1>3
  <2>3. ASSUME NEW i \in 1..Last(k)
        PROVE  admitted[k][i].at <= clock - Window[k] + Delay
    <3>1. Last(k) \in i..Last(k) /\ Last(k) \in 1..Last(k)
      BY <1>1, <2>2
    <3>2. admitted[k][i].at <= admitted[k][Last(k)].at
      BY <3>1 DEF IInv, HitsInOrder
    <3>3. admitted[k][Last(k)].at <= admitted[k][Last(k)].stamp + Delay
      BY <3>1 DEF IInv, HitsInOrder
    <3>4. admitted[k][Last(k)].stamp <= now - Window[k]
      BY <2>1 DEF Newest
    <3> QED BY <1>1, <3>1, <3>2, <3>3, <3>4, Settings
  <2> QED BY <1>1, <2>1, <2>3
<1> QED BY <1>2, <1>3

(* So does popping. *)
LEMMA PopDropsLate ==
    ASSUME IInv, NEW now \in Nat, now <= clock, NEW k \in Keys,
           NEW g \in 0..Last(k), Popped(k, now, g)
    PROVE  /\ gone[k] <= g
           /\ \A i \in 1..g : admitted[k][i].at <= clock - Window[k] + Delay
<1> DEFINE p == GoneByPrune(k, now)
<1>1. /\ Last(k) \in Nat /\ gone[k] \in Nat /\ clock \in Nat
      /\ \A i \in 1..Last(k) : admitted[k][i].stamp \in Nat /\ admitted[k][i].at \in Nat
  BY KeyTypes DEF IInv, TypeOK
<1>2. p \in gone[k]..Last(k) /\ g \in p..Last(k)
      /\ \A i \in 1..p : admitted[k][i].at <= clock - Window[k] + Delay
  BY PruneDropsLate DEF Popped
<1>3. \A i \in (p + 1)..g : admitted[k][i].stamp <= now - Window[k]
  BY DEF Popped
<1> HIDE DEF p
<1>4. ASSUME NEW i \in 1..g PROVE admitted[k][i].at <= clock - Window[k] + Delay
  <2>1. CASE i \in 1..p
    BY <1>2, <2>1
  <2>2. CASE i \notin 1..p
    <3>1. i \in (p + 1)..g /\ i \in 1..Last(k)
      BY <1>1, <1>2, <2>2
    <3>2. admitted[k][i].stamp <= now - Window[k]
      BY <1>3, <3>1
    <3>3. admitted[k][i].at <= admitted[k][i].stamp + Delay
      BY <3>1 DEF IInv, HitsInOrder
    <3> QED BY <1>1, <3>1, <3>2, <3>3, Settings
  <2> QED BY <2>1, <2>2
<1> QED BY <1>1, <1>2, <1>4

(* The keys that are known after a check at now, and how far back the last *)
(* hit of each may be.                                                     *)
LEMMA CheckKnows ==
    ASSUME IInv, NEW now \in Nat, now <= clock, clock <= now + Delay,
           NEW j \in known \ Pruned(now),
           NEW next \in Nat, next = IF Prunes(now) THEN now + PruneEvery ELSE nextPrune
    PROVE  Last(j) > 0 /\ Newest(j) > next - PruneEvery - Window[j]
<1>1. j \in Keys /\ Last(j) > 0 /\ Newest(j) > nextPrune - PruneEvery - Window[j]
  BY DEF IInv, KnownLive, TypeOK
<1>2. CASE ~Prunes(now)
  BY <1>1, <1>2
<1>3. CASE Prunes(now)
  <2>1. Last(j) \in 1..Last(j)
    BY <1>1, KeyTypes DEF IInv
  <2>2. Newest(j) \in Nat /\ next - PruneEvery = now
    BY <1>1, <1>3, <2>1, KeyTypes, Settings DEF IInv, Newest
  <2>3. ~(Newest(j) <= now - Window[j])
    BY <1>1, <1>3 DEF Pruned, Stale
  <2> QED BY <1>1, <2>2, <2>3, Settings
<1> QED BY <1>2, <1>3

LEMMA CheckStep ==
    ASSUME IInv, NEW r \in Requests, Check(r)
    PROVE  IInv'
<1>1. /\ TypeOK /\ clock \in Nat /\ UNCHANGED clock
      /\ request[r] \in Request /\ request[r].at = "read" /\ request[r].keys # <<>>
  BY DEF IInv, TypeOK, Check
<1>2. PICK now \in Nat : now = request[r].now
  BY <1>1 DEF Request
<1>3. now <= clock /\ clock <= now + Delay
  BY <1>1, <1>2 DEF IInv, ReadInTime
<1>4. PICK k \in Keys : k = Head(request[r].keys)
  BY <1>1 DEF Request
<1>5. PICK g \in 0..Last(k) :
        /\ Popped(k, now, g)
        /\ gone' = [j \in Keys |-> IF j = k THEN g ELSE GoneByPrune(j, now)]
        /\ IF Last(k) - g >= Limit[k]
           THEN /\ request' = [request EXCEPT ![r] = At("limited", <<k>>, 0, RetryIn(k, g, now))]
                /\ UNCHANGED admitted
           ELSE /\ request' = [request EXCEPT ![r] =
                       IF Len(request[r].keys) = 1 THEN At("passed", <<k>>, 0, 0)
                                          ELSE At("ready", Tail(request[r].keys), 0, 0)]
                /\ admitted' = [admitted EXCEPT ![k] = Append(admitted[k], [stamp |-> now, at |-> clock])]
  BY <1>2, <1>4 DEF Check
<1>6. /\ known' = (known \ Pruned(now)) \cup {k}
      /\ nextPrune' = IF Prunes(now) THEN now + PruneEvery ELSE nextPrune
  BY <1>2, <1>4 DEF Check
<1>7. /\ Last(k) \in Nat /\ gone[k] <= g /\ g <= Last(k) /\ Limit[k] \in Nat /\ Limit[k] >= 1
      /\ Window[k] \in Nat /\ Delay \in Nat /\ Delay < Window[k] /\ PruneEvery \in Nat
      /\ \A i \in 1..g : admitted[k][i].at <= clock - Window[k] + Delay
      /\ \A i \in 1..Last(k) : admitted[k][i] \in Hit
                               /\ admitted[k][i].stamp \in Nat /\ admitted[k][i].at \in Nat
  BY <1>1, <1>3, <1>5, PopDropsLate, KeyTypes, Settings
<1>8. nextPrune' \in Nat /\ nextPrune' - PruneEvery <= clock
  BY <1>1, <1>2, <1>3, <1>6, <1>7 DEF IInv, KnownLive, TypeOK
<1>9. /\ \A j \in Keys : gone'[j] = IF j = k THEN g ELSE GoneByPrune(j, now)
      /\ gone' \in [Keys -> Nat]
      /\ \A j \in Keys \ {k} : admitted'[j] = admitted[j] /\ Last(j)' = Last(j)
  <2>1. \A j \in Keys : GoneByPrune(j, now) \in Nat
    BY <1>3, PruneDropsLate, KeyTypes DEF IInv
  <2>2. \A j \in Keys \ {k} : admitted'[j] = admitted[j]
    BY <1>1, <1>5 DEF TypeOK
  <2> QED BY <1>5, <1>7, <2>1, <2>2 DEF Last
<1>10. known' \subseteq Keys
  BY <1>1, <1>6 DEF TypeOK
<1>11. \A j \in Keys \ {k} : gone'[j] \in gone[j]..Last(j)
        /\ \A i \in 1..gone'[j] : admitted[j][i].at <= clock - Window[j] + Delay
  BY <1>3, <1>9, PruneDropsLate
<1>12. \A j \in known' \ {k} : Last(j)' > 0 /\ Newest(j)' > nextPrune' - PruneEvery - Window[j]
  <2> SUFFICES ASSUME NEW j \in known' \ {k}
               PROVE  Last(j) > 0 /\ Newest(j) > nextPrune' - PruneEvery - Window[j]
    BY <1>9, <1>10 DEF Newest
  <2>1. j \in known \ Pruned(now)
    BY <1>6
  <2> QED BY <1>3, <1>6, <1>8, <2>1, CheckKnows
<1>13. \A j \in Keys \ known' : gone'[j] = Last(j)'
  <2> SUFFICES ASSUME NEW j \in Keys \ known' PROVE GoneByPrune(j, now) = Last(j)
    BY <1>6, <1>9
  <2>1. j \in Pruned(now) \/ j \notin known
    BY <1>6
  <2> QED BY <2>1 DEF GoneByPrune, IInv, KnownLive
<1>14. ASSUME NEW q \in Request, request' = [request EXCEPT ![r] = q], q.keys # <<>>, q.at # "read"
       PROVE  /\ request' \in [Requests -> Request]
              /\ \A s \in Requests : request'[s].at # "idle" => request'[s].keys # <<>>
              /\ ReadInTime'
  BY <1>1, <1>14 DEF TypeOK, IInv, ReadInTime
<1>15. CASE Last(k) - g >= Limit[k]
  <2>1. /\ request' = [request EXCEPT ![r] = At("limited", <<k>>, 0, RetryIn(k, g, now))]
        /\ UNCHANGED admitted
    BY <1>5, <1>15
  <2>2. Last(k)' = Last(k) /\ Last(k) >= 1 /\ g < Last(k) /\ g + 1 \in 1..Last(k)
    BY <1>7, <1>15, <2>1 DEF Last
  <2>3. Oldest(k, g) \in Nat /\ Oldest(k, g) > now - Window[k] /\ Oldest(k, g) <= clock
    <3>1. Oldest(k, g) > now - Window[k]
      BY <1>5, <2>2 DEF Popped
    <3>2. Oldest(k, g) <= admitted[k][g + 1].at /\ admitted[k][g + 1].at <= clock
      BY <2>2 DEF IInv, HitsInOrder, Oldest
    <3>3. Oldest(k, g) \in Nat /\ admitted[k][g + 1].at \in Nat
      BY <1>7, <2>2 DEF Oldest
    <3> QED BY <1>1, <3>1, <3>2, <3>3
  <2>4. RetryIn(k, g, now) \in Int /\ RetryIn(k, g, now) > 0 /\ RetryIn(k, g, now) <= Window[k] + Delay
    BY <1>1, <1>3, <1>7, <2>3 DEF RetryIn
  <2>5. PICK q \in Request :
          /\ request' = [request EXCEPT ![r] = q]
          /\ q.at = "limited" /\ q.keys = <<k>> /\ q.keys # <<>> /\ q.retry = RetryIn(k, g, now)
    <3>1. /\ At("limited", <<k>>, 0, RetryIn(k, g, now)) \in Request
          /\ At("limited", <<k>>, 0, RetryIn(k, g, now)).at = "limited"
          /\ At("limited", <<k>>, 0, RetryIn(k, g, now)).keys = <<k>>
          /\ At("limited", <<k>>, 0, RetryIn(k, g, now)).retry = RetryIn(k, g, now)
      BY <2>4 DEF At, Request
    <3>2. <<k>> # <<>>
      OBVIOUS
    <3> QED BY <2>1, <3>1, <3>2
  <2>6. /\ request' \in [Requests -> Request]
        /\ \A s \in Requests : request'[s].at # "idle" => request'[s].keys # <<>>
        /\ ReadInTime'
    BY <1>14, <2>5
  <2>7. TypeOK'
    <3>1. \A j \in Keys : gone'[j] <= Last(j)'
      BY <1>7, <1>9, <1>11, <2>2, KeyTypes DEF IInv
    <3> QED BY <1>1, <1>8, <1>9, <1>10, <2>1, <2>6, <3>1 DEF TypeOK
  <2>8. HitsInOrder' /\ WindowHolds'
    BY <1>1, <2>1 DEF IInv, HitsInOrder, WindowHolds, Last
  <2>9. DroppedLate'
    BY <1>1, <1>7, <1>9, <1>11, <2>1 DEF DroppedLate
  <2>10. KnownLive'
    <3>1. k \in known \ Pruned(now)
      <4>1. GoneByPrune(k, now) # Last(k)
        BY <1>5, <1>7, <2>2, PruneDropsLate, <1>3, KeyTypes DEF Popped, IInv
      <4> QED BY <4>1 DEF GoneByPrune, IInv, KnownLive
    <3>2. Last(k) > 0 /\ Newest(k) > nextPrune' - PruneEvery - Window[k]
      BY <1>3, <1>6, <1>8, <3>1, CheckKnows
    <3>3. Newest(k)' = Newest(k)
      BY <2>1, <2>2 DEF Newest
    <3> QED BY <1>1, <1>8, <1>12, <1>13, <2>2, <3>2, <3>3 DEF KnownLive
  <2>11. RetryHonest'
    <3> SUFFICES ASSUME NEW s \in Requests, request'[s].at = "limited"
                 PROVE  /\ request'[s].retry > 0
                        /\ request'[s].retry <= Window[Head(request'[s].keys)] + Delay
      BY DEF RetryHonest
    <3>1. CASE s = r
      <4>1. request'[r] = q
        BY <1>1, <2>5 DEF TypeOK
      <4>2. Head(q.keys) = k
        BY <2>5
      <4> QED BY <2>4, <2>5, <3>1, <4>1, <4>2
    <3>2. CASE s # r
      BY <1>1, <2>1, <3>2 DEF IInv, RetryHonest, TypeOK
    <3> QED BY <3>1, <3>2
  <2> QED BY <2>6, <2>7, <2>8, <2>9, <2>10, <2>11 DEF IInv
<1>16. CASE ~(Last(k) - g >= Limit[k])
  <2> DEFINE hit == [stamp |-> now, at |-> clock]
  <2>1. admitted' = [admitted EXCEPT ![k] = Append(admitted[k], hit)]
    BY <1>5, <1>16
  <2>2. /\ admitted' \in [Keys -> Seq(Hit)] /\ Last(k)' = Last(k) + 1
        /\ admitted'[k][Last(k) + 1] = hit
        /\ \A i \in 1..Last(k) : admitted'[k][i] = admitted[k][i]
    <3>1. hit \in Hit /\ admitted[k] \in Seq(Hit)
      BY <1>1 DEF Hit, TypeOK
    <3>2. Append(admitted[k], hit) \in Seq(Hit) /\ Len(Append(admitted[k], hit)) = Last(k) + 1
          /\ Append(admitted[k], hit)[Last(k) + 1] = hit
          /\ \A i \in 1..Last(k) : Append(admitted[k], hit)[i] = admitted[k][i]
      BY <3>1 DEF Last
    <3>3. admitted'[k] = Append(admitted[k], hit) /\ admitted' \in [Keys -> Seq(Hit)]
      BY <1>1, <2>1, <3>2 DEF TypeOK
    <3> QED BY <3>2, <3>3 DEF Last
  <2>3. hit.stamp = now /\ hit.at = clock
    OBVIOUS
  <2>12. Last(k) \in Nat /\ Last(k)' = Last(k) + 1
    BY <1>7, <2>2
  <2> HIDE DEF hit
  <2>4. PICK q \in Request : /\ request' = [request EXCEPT ![r] = q]
                             /\ q.keys # <<>> /\ q.at \notin {"read", "limited"}
    <3>1. CASE Len(request[r].keys) = 1
      <4>1. At("passed", <<k>>, 0, 0) \in Request /\ At("passed", <<k>>, 0, 0).keys # <<>>
            /\ At("passed", <<k>>, 0, 0).at = "passed"
        BY DEF At, Request
      <4> QED BY <1>5, <1>16, <3>1, <4>1
    <3>2. CASE Len(request[r].keys) # 1
      <4>1. Tail(request[r].keys) \in Seq(Keys) /\ Tail(request[r].keys) # <<>>
        BY <1>1, <3>2, SeveralKeys DEF Request
      <4>2. At("ready", Tail(request[r].keys), 0, 0) \in Request
            /\ At("ready", Tail(request[r].keys), 0, 0).keys # <<>>
            /\ At("ready", Tail(request[r].keys), 0, 0).at = "ready"
        BY <4>1 DEF At, Request
      <4> QED BY <1>5, <1>16, <3>2, <4>2
    <3> QED BY <3>1, <3>2
  <2>5. /\ request' \in [Requests -> Request]
        /\ \A s \in Requests : request'[s].at # "idle" => request'[s].keys # <<>>
        /\ ReadInTime'
    BY <1>14, <2>4
  <2>6. TypeOK'
    <3>1. \A j \in Keys : gone'[j] <= Last(j)'
      <4>1. gone'[k] <= Last(k)'
        BY <1>7, <1>9, <2>2
      <4>2. \A j \in Keys \ {k} : gone'[j] <= Last(j)'
        BY <1>1, <1>9, <1>11, KeyTypes
      <4> QED BY <4>1, <4>2
    <3> QED BY <1>1, <1>8, <1>9, <1>10, <2>2, <2>5, <3>1 DEF TypeOK
  <2>7. HitsInOrder'
    <3> SUFFICES ASSUME NEW j \in Keys, NEW i \in 1..Last(j)'
                 PROVE  /\ admitted'[j][i].stamp <= admitted'[j][i].at
                        /\ admitted'[j][i].at <= admitted'[j][i].stamp + Delay
                        /\ admitted'[j][i].at <= clock'
                        /\ \A l \in i..Last(j)' : admitted'[j][i].at <= admitted'[j][l].at
      BY DEF HitsInOrder
    <3>1. CASE j # k
      BY <1>1, <1>9, <3>1 DEF IInv, HitsInOrder
    <3>2. CASE j = k /\ i = Last(k) + 1
      <4>1. \A l \in i..Last(k)' : l = i
        BY <1>7, <2>2, <3>2
      <4> QED BY <1>1, <1>3, <1>7, <2>2, <2>3, <3>2, <4>1
    <3>3. CASE j = k /\ i # Last(k) + 1
      <4>1. i \in 1..Last(k)
        BY <1>7, <2>2, <3>3
      <4>2. /\ admitted[k][i].stamp <= admitted[k][i].at
            /\ admitted[k][i].at <= admitted[k][i].stamp + Delay
            /\ admitted[k][i].at <= clock
            /\ \A l \in i..Last(k) : admitted[k][i].at <= admitted[k][l].at
        BY <4>1 DEF IInv, HitsInOrder
      <4>3. ASSUME NEW l \in i..Last(k)' PROVE admitted'[k][i].at <= admitted'[k][l].at
        <5>1. CASE l = Last(k) + 1
          BY <2>2, <2>3, <4>1, <4>2, <5>1
        <5>2. CASE l # Last(k) + 1
          <6>1. l \in i..Last(k) /\ l \in 1..Last(k)
            BY <2>12, <4>1, <5>2
          <6> QED BY <2>2, <4>1, <4>2, <6>1
        <5> QED BY <5>1, <5>2
      <4> QED BY <1>1, <2>2, <3>3, <4>1, <4>2, <4>3
    <3> QED BY <3>1, <3>2, <3>3
  <2>8. DroppedLate'
    <3> SUFFICES ASSUME NEW j \in Keys, NEW i \in 1..gone'[j]
                 PROVE  admitted'[j][i].at <= clock' - Window[j] + Delay
      BY DEF DroppedLate
    <3>1. CASE j # k
      BY <1>1, <1>9, <1>11, <3>1
    <3>2. CASE j = k
      <4>1. i \in 1..g /\ i \in 1..Last(k)
        BY <1>7, <1>9, <3>2
      <4> QED BY <1>1, <1>7, <2>2, <3>2, <4>1
    <3> QED BY <3>1, <3>2
  <2>9. KnownLive'
    <3>1. Last(k)' > 0 /\ Newest(k)' = now
      BY <1>7, <2>2, <2>3 DEF Newest
    <3>2. now > nextPrune' - PruneEvery - Window[k]
      <4>1. /\ clock \in Nat /\ clock <= now + Delay /\ Delay \in Nat /\ Window[k] \in Nat
            /\ Delay < Window[k] /\ PruneEvery \in Nat
            /\ nextPrune' \in Nat /\ nextPrune' - PruneEvery <= clock
        BY <1>1, <1>3, <1>7, <1>8
      <4> QED BY <1>2, <4>1
    <3> QED BY <1>1, <1>8, <1>12, <1>13, <3>1, <3>2 DEF KnownLive
  <2>10. WindowHolds'
    <3> SUFFICES ASSUME NEW j \in Keys, NEW i \in 1..Last(j)', NEW l \in 1..Last(j)', l - i >= Limit[j]
                 PROVE  admitted'[j][l].at >= admitted'[j][i].at + Window[j] - Delay
      BY DEF WindowHolds
    <3>1. CASE j # k
      BY <1>9, <3>1 DEF IInv, WindowHolds
    <3>2. CASE j = k /\ l = Last(k) + 1
      <4>1. i \in 1..g /\ i \in 1..Last(k)
        BY <1>7, <1>16, <2>12, <3>2
      <4>2. admitted[k][i].at <= clock - Window[k] + Delay /\ admitted[k][i].at \in Nat
        BY <1>7, <4>1
      <4>3. admitted'[k][l].at = clock /\ admitted'[k][i].at = admitted[k][i].at
        BY <2>2, <2>3, <3>2, <4>1
      <4>4. Window[k] \in Nat /\ Delay \in Nat
        BY <1>7
      <4> QED BY <1>1, <3>2, <4>2, <4>3, <4>4
    <3>3. CASE j = k /\ l # Last(k) + 1
      <4>1. i \in 1..Last(k)' /\ l \in 1..Last(k)' /\ l - i >= Limit[k] /\ l # Last(k) + 1
        BY <3>3
      <4>2. Limit[k] \in Nat /\ Limit[k] >= 1
        BY <1>7
      <4>3. l \in 1..Last(k) /\ i \in 1..Last(k)
        BY <2>12, <4>1, <4>2
      <4> QED BY <2>2, <3>3, <4>3 DEF IInv, WindowHolds
    <3> QED BY <3>1, <3>2, <3>3
  <2>11. RetryHonest'
    BY <1>1, <2>4 DEF IInv, RetryHonest, TypeOK
  <2> QED BY <2>5, <2>6, <2>7, <2>8, <2>9, <2>10, <2>11 DEF IInv
<1> QED BY <1>15, <1>16

-----------------------------------------------------------------------------
LEMMA StepPreserves == IInv /\ [Next]_vars => IInv'
<1> SUFFICES ASSUME IInv, [Next]_vars PROVE IInv'
  OBVIOUS
<1>1. CASE UNCHANGED vars
  <2>1. UNCHANGED <<clock, request, admitted, gone, known, nextPrune>>
    BY <1>1 DEF vars, buckets
  <2> QED BY <2>1 DEF IInv, TypeOK, HitsInOrder, DroppedLate, ReadInTime, KnownLive,
                      WindowHolds, RetryHonest, Last, Newest
<1>2. ASSUME NEW r \in Requests,
             ReadClock(r) \/ Check(r) \/ Answer(r) \/ LoggedIn(r)
      PROVE  IInv'
  BY <1>2, ReadClockStep, CheckStep, AnswerStep, LoggedInStep
<1>3. CASE Tick
  BY <1>3, TickStep
<1> QED BY <1>1, <1>2, <1>3 DEF Next

(* Hits are in the order of the lock, and are dropped only when their      *)
(* window is over, or nearly so: the limit follows.                        *)
THEOREM Inductive == Spec => []IInv
<1> QED BY InitIInv, StepPreserves, PTL DEF Spec

(* No key admits more than its limit in a window, less what a thread may   *)
(* be kept from the lock, whatever is pruned, and in whatever order hits   *)
(* are recorded.                                                           *)
THEOREM LimitKept == Spec => []WindowHolds
<1>1. IInv => WindowHolds
  BY DEF IInv
<1> QED BY <1>1, Inductive, PTL

(* Retry-After is positive, and no longer than the window and the delay.   *)
THEOREM RetryIsHonest == Spec => []RetryHonest
<1>1. IInv => RetryHonest
  BY DEF IInv
<1> QED BY <1>1, Inductive, PTL

(* After a check, every key that is known was hit a prune and a window ago *)
(* at most: what is kept is bounded by what was asked lately.              *)
THEOREM OneOffsForgotten == Spec => ForgetsOneOffs
<1>1. ASSUME IInv, [Next]_vars, NEW r \in Requests, Check(r), NEW k \in known'
      PROVE  Last(k)' > 0 /\ Newest(k)' > request[r].now - PruneEvery - Window[k]
  <2>1. IInv'
    BY <1>1, CheckStep
  <2>2. k \in Keys /\ Last(k)' > 0 /\ Newest(k)' > nextPrune' - PruneEvery - Window[k]
    BY <2>1 DEF IInv, TypeOK, KnownLive
  <2>3. Newest(k)' \in Nat
    <3>1. admitted'[k] \in Seq(Hit) /\ Last(k)' = Len(admitted'[k])
      BY <2>1, <2>2 DEF IInv, TypeOK, Last
    <3>2. Last(k)' \in Nat /\ admitted'[k][Last(k)'] \in Hit
      BY <2>2, <3>1
    <3> QED BY <3>2 DEF Newest, Hit
  <2>4. request[r].now \in Nat /\ nextPrune \in Nat /\ nextPrune' \in Nat
    BY <1>1, <2>1 DEF IInv, TypeOK, Request
  <2>5. nextPrune' >= request[r].now
    BY <1>1, <2>4, Settings DEF Check, Prunes
  <2> QED BY <2>2, <2>3, <2>4, <2>5, Settings
<1>2. IInv /\ [Next]_vars => \A r \in Requests : Check(r) =>
          \A k \in known' : /\ Last(k)' > 0
                            /\ Newest(k)' > request[r].now - PruneEvery - Window[k]
  BY <1>1
<1> QED BY <1>2, Inductive, PTL DEF Spec, ForgetsOneOffs

=============================================================================
