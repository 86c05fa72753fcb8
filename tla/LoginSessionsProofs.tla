------------------------- MODULE LoginSessionsProofs -------------------------
(***************************************************************************)
(* Proofs about LoginSessions, for any number of requests, links, session  *)
(* tokens and passwords.                                                   *)
(***************************************************************************)
EXTENDS LoginSessions, TLAPS

-----------------------------------------------------------------------------
(* A request in flight names passwords, links and rows that exist. *)
LEMMA RequestFields ==
    ASSUME TypeOK, NEW r \in Requests
    PROVE  /\ request[r] \in Request
           /\ request[r].kind \in {"login", "reset"} => request[r].password \in Passwords
           /\ request[r].kind = "verify" => request[r].password \in Hash
           /\ request[r].kind = "reset" => request[r].link \in Resets
           /\ request[r].kind = "verify" => request[r].link \in Confirms
           /\ Seen(r) \subseteq Tables
           /\ Drops(r) \subseteq Rows
BY DEF TypeOK, Request, Seen, Drops, Removing

(* The requests of the six kinds, and the one that is over, are requests. *)
LEMMA RequestTypes ==
    /\ Idle \in Request /\ Idle.kind = "idle"
    /\ [kind |-> "forgot"] \in Request
    /\ [kind |-> "delete", seen |-> {}, drops |-> {}] \in Request
    /\ [kind |-> "resend", seen |-> {}, drops |-> {}] \in Request
    /\ \A p \in Passwords : [kind |-> "login", password |-> p] \in Request
    /\ \A p \in Passwords, k \in Resets :
          [kind |-> "reset", password |-> p, link |-> k, seen |-> {}, drops |-> {}] \in Request
    /\ \A p \in Hash, k \in Confirms : [kind |-> "verify", password |-> p, link |-> k] \in Request
BY DEF Request, Idle

(* A DELETE notes the table and the rows it has found, and nothing else.   *)
LEMMA DropTypes ==
    ASSUME TypeOK, NEW r \in Requests, request[r].kind \in Removing,
           NEW table \in Tables, NEW rows \in SUBSET Rows, Drop(r, table, rows)
    PROVE  /\ request' \in [Requests -> Request]
           /\ request'[r].kind = request[r].kind
           /\ request[r].kind = "reset" => request'[r].link = request[r].link
           /\ Seen(r)' = Seen(r) \cup {table} /\ Drops(r)' = Drops(r) \cup rows
           /\ \A q \in Requests \ {r} :
                 request'[q] = request[q] /\ Seen(q)' = Seen(q) /\ Drops(q)' = Drops(q)
<1> DEFINE x == request[r]
           y == [[x EXCEPT !.seen = @ \cup {table}] EXCEPT !.drops = @ \cup rows]
<1>1. x \in Request /\ x.kind \in Removing /\ x.seen \subseteq Tables /\ x.drops \subseteq Rows
  BY RequestFields DEF Seen, Drops
<1>2. request' = [request EXCEPT ![r] = y]
  BY DEF Drop, TypeOK
<1>3. /\ y \in Request /\ y.kind = x.kind /\ y.seen = x.seen \cup {table} /\ y.drops = x.drops \cup rows
      /\ x.kind = "reset" => y.link = x.link
  <2>1. CASE x.kind = "reset"
    <3>1. x \in [kind : {"reset"}, password : Passwords, link : Resets,
                 seen : SUBSET Tables, drops : SUBSET Rows]
      BY <1>1, <2>1 DEF Request
    <3>2. y \in [kind : {"reset"}, password : Passwords, link : Resets,
                 seen : SUBSET Tables, drops : SUBSET Rows]
      BY <3>1
    <3> QED BY <3>1, <3>2 DEF Request
  <2>2. CASE x.kind \in {"delete", "resend"}
    <3>1. x \in [kind : {"delete", "resend"}, seen : SUBSET Tables, drops : SUBSET Rows]
      BY <1>1, <2>2 DEF Request
    <3>2. y \in [kind : {"delete", "resend"}, seen : SUBSET Tables, drops : SUBSET Rows]
      BY <3>1
    <3> QED BY <3>1, <3>2, <2>2 DEF Request
  <2> QED BY <1>1, <2>1, <2>2 DEF Removing
<1> HIDE DEF x, y
<1>4. request' \in [Requests -> Request] /\ request'[r] = y
      /\ \A q \in Requests \ {r} : request'[q] = request[q]
  BY <1>2, <1>3 DEF TypeOK
<1> QED BY <1>1, <1>3, <1>4 DEF Seen, Drops, x

(* Sessions that are closed, or opened with a password, keep their types.  *)
LEMMA SessionTypes ==
    ASSUME TypeOK, NEW o \in SUBSET open
    PROVE  /\ Close(o) => open' \subseteq Cookies /\ proof' \in [Cookies -> Hash]
           /\ \A c \in Cookies, p \in Hash :
                 OnlyOpen(o, c, p) => open' \subseteq Cookies /\ proof' \in [Cookies -> Hash]
BY DEF TypeOK, Close, OnlyOpen, Hash

(* Removing the rows of links leaves links that are gone, or never sent,   *)
(* and the other links as they were.                                       *)
LEMMA RemovedTypes ==
    ASSUME TypeOK, NEW S
    PROVE  /\ Removed(S) \in [Links -> {"none", "sent", "used", "gone"}]
           /\ \A k \in Links : link[k] = "gone" => Removed(S)[k] = "gone"
           /\ \A k \in S \cap Links : link[k] # "none" => Removed(S)[k] = "gone"
           /\ \A k \in Links : link[k] # "none" => Removed(S)[k] # "none"
           /\ \A k \in Links \ S : Removed(S)[k] = link[k]
BY DEF TypeOK, Removed

LEMMA InitIInv == Init => IInv
<1> SUFFICES ASSUME Init PROVE IInv
  OBVIOUS
<1>1. PICK p \in Passwords, c \in Cookies :
        /\ account = [hash |-> p, deleted |-> FALSE, verified |-> FALSE]
        /\ open = {c}
        /\ proof = [d \in Cookies |-> IF d = c THEN p ELSE Unusable]
  BY DEF Init
<1>2. TypeOK
  BY <1>1, RequestTypes DEF Init, TypeOK, Account, Hash, Links
<1>3. RevokedUnlessSlipped
  BY <1>1 DEF RevokedUnlessSlipped
<1>4. VoidedIsGone /\ DropsSent /\ UnseenSlip /\ LockHeld
  BY RequestTypes DEF Init, VoidedIsGone, DropsSent, UnseenSlip, LockHeld, Writing, Seen, Drops, Removing
<1>5. NewestWorks /\ ErasedUnlessLate
  BY <1>1 DEF Init, NewestWorks, ErasedUnlessLate, RowExists, Links
<1> QED BY <1>2, <1>3, <1>4, <1>5 DEF IInv

-----------------------------------------------------------------------------
(* Asking touches nothing but the request, which has removed nothing yet.  *)
LEMMA AskStep ==
    ASSUME IInv, NEW r \in Requests, NEW asked \in Request, Ask(r, asked),
           asked.kind \in Removing => asked.seen = {} /\ asked.drops = {}
    PROVE  IInv'
<1>1. /\ TypeOK /\ request[r].kind = "idle" /\ request' = [request EXCEPT ![r] = asked]
      /\ UNCHANGED <<account, open, proof, link, newest, uses, voided, slipped>>
  BY DEF IInv, Ask
<1>2. /\ request' \in [Requests -> Request] /\ Seen(r)' = {} /\ Drops(r)' = {}
      /\ \A q \in Requests \ {r} :
            request'[q] = request[q] /\ Seen(q)' = Seen(q) /\ Drops(q)' = Drops(q)
  BY <1>1 DEF TypeOK, Seen, Drops
<1>3. TypeOK'
  BY <1>1, <1>2 DEF TypeOK
<1>4. DropsSent' /\ UnseenSlip'
  BY <1>1, <1>2 DEF IInv, DropsSent, UnseenSlip
<1>5. LockHeld'
  BY <1>1, <1>2 DEF IInv, LockHeld, Writing, RowExists
<1>6. (RevokedUnlessSlipped /\ VoidedIsGone /\ NewestWorks /\ ErasedUnlessLate)'
  BY <1>1 DEF IInv, RevokedUnlessSlipped, VoidedIsGone, NewestWorks, ErasedUnlessLate, RowExists
<1> QED BY <1>3, <1>4, <1>5, <1>6 DEF IInv

(* A DELETE notes rows that are there and that it may remove; that of the  *)
(* sessions finds all of them, and a reset begins with its own link there. *)
LEMMA DropStep ==
    ASSUME IInv, NEW r \in Requests, request[r].kind \in Removing,
           NEW table \in Tables, NEW rows \in SUBSET Rows, Drop(r, table, rows),
           table = "sessions" => rows = open,
           \A k \in rows \cap Links :
              /\ link[k] # "none"
              /\ request[r].kind = "resend" => k \in Confirms
              /\ request[r].kind = "reset" => k \in Resets \ {request[r].link},
           request[r].kind = "reset" => r \in Writing \/ (~Locked(r) /\ RowExists(request[r].link))
    PROVE  IInv'
<1>1. TypeOK /\ UNCHANGED <<account, open, proof, link, newest, uses, voided, slipped>>
  BY DEF IInv, Drop
<1>2. /\ request' \in [Requests -> Request]
      /\ request'[r].kind = request[r].kind
      /\ request[r].kind = "reset" => request'[r].link = request[r].link
      /\ Seen(r)' = Seen(r) \cup {table} /\ Drops(r)' = Drops(r) \cup rows
      /\ \A q \in Requests \ {r} :
            request'[q] = request[q] /\ Seen(q)' = Seen(q) /\ Drops(q)' = Drops(q)
  BY <1>1, DropTypes
<1>3. TypeOK'
  BY <1>1, <1>2 DEF TypeOK
<1>4. DropsSent'
  <2> SUFFICES ASSUME NEW q \in Requests, NEW k \in Drops(q)' \cap Links
               PROVE  /\ link[k] # "none"
                      /\ request'[q].kind = "resend" => k \in Confirms
                      /\ request'[q].kind = "reset" => k \in Resets \ {request'[q].link}
    BY <1>1 DEF DropsSent
  <2>1. CASE k \in Drops(q)
    BY <1>2, <2>1 DEF IInv, DropsSent
  <2>2. CASE k \notin Drops(q)
    <3>1. q = r /\ k \in rows \cap Links
      BY <1>2, <2>2
    <3> QED BY <1>2, <3>1
  <2> QED BY <2>1, <2>2
<1>5. UnseenSlip'
  <2> SUFFICES ASSUME NEW q \in Requests, "sessions" \in Seen(q)', NEW c \in open, c \notin Drops(q)'
               PROVE  c \in slipped
    BY <1>1 DEF UnseenSlip
  <2>1. "sessions" \in Seen(q) /\ c \notin Drops(q)
    BY <1>2
  <2> QED BY <2>1 DEF IInv, UnseenSlip
<1>6. LockHeld'
  <2>1. \A q \in Requests \ {r} : q \in Writing' <=> q \in Writing
    BY <1>2 DEF Writing
  <2>2. r \in Writing' => r \in Writing \/ (Writing \subseteq {r} /\ RowExists(request[r].link))
    BY <1>2 DEF Writing, Locked
  <2>3. \A q, w \in Writing' : q = w
    BY <2>1, <2>2 DEF IInv, LockHeld, Writing
  <2>4. \A q \in Writing' : RowExists(request[q].link) /\ request'[q].link = request[q].link
    BY <1>2, <2>1, <2>2 DEF IInv, LockHeld, Writing
  <2> QED BY <1>1, <2>3, <2>4 DEF LockHeld, RowExists
<1>7. (RevokedUnlessSlipped /\ VoidedIsGone /\ NewestWorks /\ ErasedUnlessLate)'
  BY <1>1 DEF IInv, RevokedUnlessSlipped, VoidedIsGone, NewestWorks, ErasedUnlessLate, RowExists
<1> QED BY <1>3, <1>4, <1>5, <1>6, <1>7 DEF IInv

(* The DELETEs of the three handlers. *)
LEMMA DropSessionsStep ==
    ASSUME IInv, NEW r \in Requests, DropSessions(r)
    PROVE  IInv'
<1>1. request[r].kind \in Removing /\ Drop(r, "sessions", open) /\ "sessions" \in Tables
  BY DEF DropSessions, Removing, Tables
<1>2. open \in SUBSET Rows /\ open \cap Links = {}
  BY LoginAssumption DEF IInv, TypeOK, Rows, Links
<1>3. request[r].kind = "reset" => r \in Writing
  BY DEF DropSessions, Writing
<1> QED BY <1>1, <1>2, <1>3, DropStep

LEMMA DropResetsStep ==
    ASSUME IInv, NEW r \in Requests, DropResets(r)
    PROVE  IInv'
<1>1. request[r].kind \in Removing /\ "resets" \in Tables
  BY DEF DropResets, Removing, Tables
<1>2. CASE request[r].kind = "delete"
  <2>1. Drop(r, "resets", Existing(Resets))
    BY <1>2 DEF DropResets
  <2>2. Existing(Resets) \in SUBSET Rows /\ \A k \in Existing(Resets) : link[k] # "none"
    BY DEF Existing, RowExists, Rows, Links
  <2> QED BY <1>1, <1>2, <2>1, <2>2, DropStep
<1>3. CASE request[r].kind = "reset"
  <2> DEFINE S == Existing(Resets \ {request[r].link})
  <2>1. Drop(r, "resets", S) /\ ~Locked(r) /\ RowExists(request[r].link)
    BY <1>3 DEF DropResets
  <2>2. S \in SUBSET Rows /\ \A k \in S : link[k] # "none" /\ k \in Resets \ {request[r].link}
    BY DEF Existing, RowExists, Rows, Links
  <2> HIDE DEF S
  <2> QED BY <1>1, <1>3, <2>1, <2>2, DropStep
<1> QED BY <1>2, <1>3 DEF DropResets

LEMMA DropConfirmsStep ==
    ASSUME IInv, NEW r \in Requests, DropConfirms(r)
    PROVE  IInv'
<1>1. /\ request[r].kind \in Removing /\ request[r].kind # "reset" /\ "confirms" \in Tables
      /\ Drop(r, "confirms", Existing(Confirms))
  BY DEF DropConfirms, Removing, Tables
<1>2. Existing(Confirms) \in SUBSET Rows
      /\ \A k \in Existing(Confirms) : link[k] # "none" /\ k \in Confirms
  BY DEF Existing, RowExists, Rows, Links
<1> QED BY <1>1, <1>2, DropStep

(* The end of a request leaves the others as they are: no link has lost    *)
(* its row unnoticed, a session opened behind a DELETE has slipped, and    *)
(* the link of a reset that has begun is there.                            *)
LEMMA OverStep ==
    ASSUME IInv, NEW r \in Requests, Over(r),
           \A k \in Links : link[k] # "none" => link'[k] # "none",
           \A q \in Requests \ {r} :
              "sessions" \in Seen(q) => open' \ Drops(q) \subseteq slipped',
           \A q \in Writing \ {r} : link'[request[q].link] \in {"sent", "used"}
    PROVE  request' \in [Requests -> Request] /\ DropsSent' /\ UnseenSlip' /\ LockHeld'
<1>1. request' = [request EXCEPT ![r] = Idle] /\ request \in [Requests -> Request]
  BY DEF Over, IInv, TypeOK
<1>2. /\ request' \in [Requests -> Request]
      /\ request'[r].kind = "idle" /\ Seen(r)' = {} /\ Drops(r)' = {}
      /\ \A q \in Requests \ {r} :
            request'[q] = request[q] /\ Seen(q)' = Seen(q) /\ Drops(q)' = Drops(q)
  BY <1>1, RequestTypes DEF Seen, Drops, Removing
<1>3. DropsSent'
  BY <1>2 DEF IInv, DropsSent
<1>4. UnseenSlip'
  BY <1>2 DEF UnseenSlip
<1>5. LockHeld'
  <2>1. \A q \in Writing' : q \in Writing \ {r} /\ request'[q] = request[q]
    BY <1>2 DEF Writing
  <2> QED BY <2>1 DEF IInv, LockHeld, RowExists
<1> QED BY <1>2, <1>3, <1>4, <1>5

(* No other link loses its row, so the resets that have begun keep theirs. *)
LEMMA RowsStay ==
    ASSUME IInv, NEW r \in Requests, \A k \in Resets : RowExists(k) => link'[k] \in {"sent", "used"}
    PROVE  \A q \in Writing \ {r} : link'[request[q].link] \in {"sent", "used"}
<1>1. \A q \in Writing : request[q].link \in Resets /\ RowExists(request[q].link)
  BY RequestFields DEF IInv, LockHeld, Writing
<1> QED BY <1>1

(* A session that is opened with a hash that is no longer the account's,   *)
(* or behind the DELETE of another request, has slipped through.           *)
LEMMA SignInStep ==
    ASSUME IInv, NEW r \in Requests, NEW c \in Cookies, SignIn(r, c), request[r].password \in Hash,
           account'.hash = account.hash
    PROVE  /\ open' \subseteq Cookies /\ proof' \in [Cookies -> Hash] /\ slipped' \subseteq open'
           /\ RevokedUnlessSlipped'
           /\ \A q \in Requests \ {r} :
                 "sessions" \in Seen(q) => open' \ Drops(q) \subseteq slipped'
<1> DEFINE p == request[r].password
<1>1. TypeOK /\ p \in Hash /\ OnlyOpen(open, c, p) /\ open' = open \cup {c}
  BY DEF IInv, SignIn, OnlyOpen
<1>2. open' \subseteq Cookies /\ proof' \in [Cookies -> Hash]
  BY <1>1, SessionTypes
<1>3. slipped \subseteq slipped' /\ slipped' \subseteq open'
  BY <1>1 DEF TypeOK, SignIn
<1>4. RevokedUnlessSlipped'
  <2> SUFFICES ASSUME NEW d \in open' PROVE d \in slipped' \/ proof'[d] = account'.hash
    BY DEF RevokedUnlessSlipped
  <2>1. CASE d = c
    BY <1>1, <2>1 DEF SignIn, OnlyOpen
  <2>2. CASE d # c
    <3>1. d \in open /\ d \in Cookies /\ proof'[d] = proof[d]
      BY <1>1, <2>2 DEF OnlyOpen, TypeOK
    <3> QED BY <1>3, <3>1 DEF IInv, RevokedUnlessSlipped
  <2> QED BY <2>1, <2>2
<1>5. ASSUME NEW q \in Requests \ {r}, "sessions" \in Seen(q)
      PROVE  open' \ Drops(q) \subseteq slipped'
  <2>1. c \in slipped'
    BY <1>5 DEF SignIn, Unseen
  <2>2. open \ Drops(q) \subseteq slipped
    BY <1>5 DEF IInv, UnseenSlip
  <2> QED BY <1>1, <1>3, <2>1, <2>2
<1> QED BY <1>2, <1>3, <1>4, <1>5

LEMMA GiveUpStep ==
    ASSUME IInv, NEW r \in Requests, GiveUp(r)
    PROVE  IInv'
<1>1. Over(r) /\ UNCHANGED <<account, open, proof, link, newest, uses, voided, slipped>>
  BY DEF GiveUp
<1>2. \A q \in Requests \ {r} : "sessions" \in Seen(q) => open' \ Drops(q) \subseteq slipped'
  BY <1>1 DEF IInv, UnseenSlip
<1>3. \A q \in Writing \ {r} : link'[request[q].link] \in {"sent", "used"}
  BY <1>1, RowsStay DEF RowExists
<1>4. request' \in [Requests -> Request] /\ DropsSent' /\ UnseenSlip' /\ LockHeld'
  BY <1>1, <1>2, <1>3, OverStep
<1>5. TypeOK'
  BY <1>1, <1>4 DEF IInv, TypeOK
<1>6. (RevokedUnlessSlipped /\ VoidedIsGone /\ NewestWorks /\ ErasedUnlessLate)'
  BY <1>1 DEF IInv, RevokedUnlessSlipped, VoidedIsGone, NewestWorks, ErasedUnlessLate, RowExists
<1> QED BY <1>4, <1>5, <1>6 DEF IInv

LEMMA LoginStep ==
    ASSUME IInv, NEW r \in Requests, NEW c \in Cookies, Login(r, c)
    PROVE  IInv'
<1>1. request[r].password \in Hash /\ SignIn(r, c) /\ UNCHANGED <<account, link, newest, uses, voided>>
  BY RequestFields DEF IInv, Login, Hash
<1>2. /\ open' \subseteq Cookies /\ proof' \in [Cookies -> Hash] /\ slipped' \subseteq open'
      /\ RevokedUnlessSlipped'
      /\ \A q \in Requests \ {r} : "sessions" \in Seen(q) => open' \ Drops(q) \subseteq slipped'
  BY <1>1, SignInStep
<1>3. \A q \in Writing \ {r} : link'[request[q].link] \in {"sent", "used"}
  BY <1>1, RowsStay DEF RowExists
<1>4. request' \in [Requests -> Request] /\ DropsSent' /\ UnseenSlip' /\ LockHeld'
  BY <1>1, <1>2, <1>3, OverStep DEF SignIn
<1>5. TypeOK'
  BY <1>1, <1>2, <1>4 DEF IInv, TypeOK
<1>6. (VoidedIsGone /\ NewestWorks /\ ErasedUnlessLate)'
  BY <1>1 DEF IInv, VoidedIsGone, NewestWorks, ErasedUnlessLate, RowExists
<1> QED BY <1>2, <1>4, <1>5, <1>6 DEF IInv

LEMMA LogoutStep ==
    ASSUME IInv, NEW c \in Cookies, Logout(c)
    PROVE  IInv'
<1>1. /\ TypeOK /\ Close(open \ {c}) /\ slipped' = slipped \ {c}
      /\ UNCHANGED <<account, link, newest, request, uses, voided>>
  BY DEF IInv, Logout
<1>2. open' \subseteq Cookies /\ proof' \in [Cookies -> Hash] /\ open' = open \ {c}
  BY <1>1, SessionTypes DEF Close
<1>3. TypeOK'
  BY <1>1, <1>2 DEF TypeOK
<1>4. RevokedUnlessSlipped'
  BY <1>1 DEF IInv, RevokedUnlessSlipped, Close, TypeOK
<1>5. UnseenSlip'
  BY <1>1, <1>2 DEF IInv, UnseenSlip, Seen, Drops
<1>6. (VoidedIsGone /\ DropsSent /\ LockHeld /\ NewestWorks /\ ErasedUnlessLate)'
  BY <1>1 DEF IInv, VoidedIsGone, DropsSent, LockHeld, Writing, Seen, Drops, NewestWorks,
              ErasedUnlessLate, RowExists
<1> QED BY <1>3, <1>4, <1>5, <1>6 DEF IInv

LEMMA ForgotStep ==
    ASSUME IInv, NEW r \in Requests, NEW k \in Resets, Forgot(r, k)
    PROVE  IInv'
<1>1. /\ TypeOK /\ k \in Links /\ link[k] = "none" /\ link' = [link EXCEPT ![k] = "sent"] /\ Over(r)
      /\ UNCHANGED <<account, open, proof, newest, uses, voided, slipped>>
  BY DEF IInv, Forgot, Links
<1>2. link' \in [Links -> {"none", "sent", "used", "gone"}] /\ link'[k] = "sent"
      /\ \A l \in Links \ {k} : link'[l] = link[l]
  BY <1>1 DEF TypeOK
<1>3. \A q \in Requests \ {r} : "sessions" \in Seen(q) => open' \ Drops(q) \subseteq slipped'
  BY <1>1 DEF IInv, UnseenSlip
<1>4. \A q \in Writing \ {r} : link'[request[q].link] \in {"sent", "used"}
  BY <1>1, <1>2, RowsStay DEF RowExists, Links
<1>5. request' \in [Requests -> Request] /\ DropsSent' /\ UnseenSlip' /\ LockHeld'
  BY <1>1, <1>2, <1>3, <1>4, OverStep
<1>6. TypeOK'
  BY <1>1, <1>2, <1>5 DEF TypeOK
<1>7. VoidedIsGone'
  BY <1>1, <1>2 DEF IInv, TypeOK, VoidedIsGone
<1>8. NewestWorks'
  <2>1. newest \in Links
    BY <1>1 DEF TypeOK, Links
  <2> QED BY <1>1, <1>2, <2>1 DEF IInv, NewestWorks, RowExists
<1>9. (RevokedUnlessSlipped /\ ErasedUnlessLate)'
  BY <1>1 DEF IInv, RevokedUnlessSlipped, ErasedUnlessLate
<1> QED BY <1>5, <1>6, <1>7, <1>8, <1>9 DEF IInv

(* A reset revokes the sessions its DELETE has found, which are all but    *)
(* those that have slipped, and opens one with the hash it writes; of the  *)
(* links it takes out of use none is its own.                              *)
LEMMA ResetStep ==
    ASSUME IInv, NEW r \in Requests, NEW c \in Cookies, Reset(r, c)
    PROVE  IInv'
<1> DEFINE p == request[r].password
           k == request[r].link
           D == Drops(r)
<1>1. TypeOK /\ p \in Passwords /\ p \in Hash /\ k \in Resets /\ k \in Links
  BY RequestFields DEF IInv, Reset, Links, Hash
<1>2. /\ OnlyOpen(open \ D, c, p)
      /\ slipped' = (slipped \ D) \cup IF Unseen(r) THEN {c} ELSE {}
      /\ account' = [account EXCEPT !.hash = p]
      /\ link' = [Removed(D) EXCEPT ![k] = "used"]
      /\ uses' = [uses EXCEPT ![k] = @ + 1]
      /\ voided' = voided \cup (D \cap Links)
      /\ Over(r) /\ UNCHANGED newest
  BY DEF Reset
<1>3. /\ r \in Writing /\ RowExists(k) /\ \A q \in Writing : q = r
      /\ open \ D \subseteq slipped
      /\ \A l \in D \cap Links : link[l] # "none" /\ l \in Resets \ {k}
  BY DEF Reset, Writing, IInv, LockHeld, UnseenSlip, DropsSent
<1> HIDE DEF p, k, D
<1>4. open' \subseteq Cookies /\ proof' \in [Cookies -> Hash] /\ open' = (open \ D) \cup {c}
      /\ proof'[c] = p
  <2>1. open \ D \in SUBSET open
    OBVIOUS
  <2>2. open' \subseteq Cookies /\ proof' \in [Cookies -> Hash]
    BY <1>1, <1>2, <2>1, SessionTypes
  <2> QED BY <1>2, <2>2 DEF OnlyOpen
<1>5. account' \in Account /\ account'.hash = p /\ account'.deleted = account.deleted
  BY <1>1, <1>2 DEF TypeOK, Account, Hash
<1>6. /\ link' \in [Links -> {"none", "sent", "used", "gone"}] /\ link'[k] = "used"
      /\ \A l \in Links \ {k} : link'[l] = Removed(D)[l]
  BY <1>1, <1>2, RemovedTypes
<1>7. request' \in [Requests -> Request] /\ DropsSent' /\ UnseenSlip' /\ LockHeld'
  <2>1. \A l \in Links : link[l] # "none" => link'[l] # "none"
    BY <1>1, <1>6, RemovedTypes
  <2>2. ASSUME NEW q \in Requests \ {r}, "sessions" \in Seen(q)
        PROVE  open' \ Drops(q) \subseteq slipped'
    <3>1. open \ Drops(q) \subseteq slipped /\ c \in slipped'
      BY <1>2, <2>2 DEF IInv, UnseenSlip, Unseen
    <3> QED BY <1>2, <1>4, <3>1
  <2> QED BY <1>2, <1>3, <2>1, <2>2, OverStep
<1>8. TypeOK'
  <2>1. uses' \in [Links -> Nat] /\ voided' \subseteq Links /\ slipped' \subseteq open'
    BY <1>1, <1>2, <1>4 DEF TypeOK
  <2>2. newest' \in Confirms
    BY <1>1, <1>2 DEF TypeOK
  <2> QED BY <1>4, <1>5, <1>6, <1>7, <2>1, <2>2 DEF TypeOK
<1>9. RevokedUnlessSlipped'
  BY <1>2, <1>3, <1>4, <1>5 DEF RevokedUnlessSlipped
<1>10. k \notin voided' /\ VoidedIsGone'
  <2>1. k \notin voided
    BY <1>3 DEF IInv, VoidedIsGone, RowExists
  <2>2. \A l \in voided' : l # k /\ l \in Links /\ Removed(D)[l] = "gone"
    BY <1>1, <1>2, <1>3, <2>1, RemovedTypes DEF IInv, VoidedIsGone, TypeOK
  <2> QED BY <1>6, <2>2 DEF VoidedIsGone
<1>11. NewestWorks'
  <2>1. newest \in Links \ D /\ newest # k
    BY <1>1, <1>3, LoginAssumption DEF TypeOK, Links
  <2>2. link'[newest] = link[newest]
    BY <1>1, <1>6, <2>1, RemovedTypes
  <2> QED BY <1>2, <1>5, <2>2 DEF IInv, NewestWorks, RowExists
<1>12. ErasedUnlessLate'
  <2>1. uses[k] \in Nat /\ uses'[k] = uses[k] + 1
    BY <1>1, <1>2 DEF TypeOK
  <2>2. uses'[k] > 0
    BY <2>1
  <2> QED BY <1>1, <1>10, <2>2 DEF ErasedUnlessLate
<1> QED BY <1>7, <1>8, <1>9, <1>10, <1>11, <1>12 DEF IInv

(* A deletion commits when no reset has begun, and removes what its        *)
(* DELETEs have found.                                                     *)
LEMMA DeleteStep ==
    ASSUME IInv, NEW r \in Requests, Delete(r)
    PROVE  IInv'
<1> DEFINE D == Drops(r)
<1>1. /\ TypeOK /\ Close(open \ D) /\ link' = Removed(D) /\ voided' = voided \cup (D \cap Links)
      /\ Over(r) /\ UNCHANGED <<newest, uses>> /\ slipped' = slipped \ D
      /\ account' = [account EXCEPT !.hash = Unusable, !.deleted = TRUE]
  BY DEF IInv, Delete
<1>2. /\ open \ D \subseteq slipped /\ Writing = {}
      /\ \A l \in D \cap Links : link[l] # "none"
  BY DEF Delete, Tables, IInv, UnseenSlip, DropsSent, Writing, Locked
<1> HIDE DEF D
<1>3. open' \subseteq Cookies /\ proof' \in [Cookies -> Hash] /\ open' = open \ D
  <2>1. open \ D \in SUBSET open
    OBVIOUS
  <2> QED BY <1>1, <2>1, SessionTypes DEF Close
<1>4. /\ link' \in [Links -> {"none", "sent", "used", "gone"}]
      /\ \A l \in Links : link[l] # "none" => link'[l] # "none"
  BY <1>1, RemovedTypes
<1>5. \A q \in Requests \ {r} : "sessions" \in Seen(q) => open' \ Drops(q) \subseteq slipped'
  BY <1>1, <1>3 DEF IInv, UnseenSlip
<1>6. request' \in [Requests -> Request] /\ DropsSent' /\ UnseenSlip' /\ LockHeld'
  BY <1>1, <1>2, <1>4, <1>5, OverStep
<1>7. account' \in Account /\ account'.deleted /\ account'.hash = Unusable
  BY <1>1 DEF TypeOK, Account, Hash
<1>8. TypeOK'
  BY <1>1, <1>3, <1>4, <1>6, <1>7 DEF TypeOK
<1>9. VoidedIsGone'
  BY <1>1, <1>2, RemovedTypes DEF IInv, VoidedIsGone, TypeOK
<1>10. (RevokedUnlessSlipped /\ NewestWorks /\ ErasedUnlessLate)'
  BY <1>1, <1>2, <1>3, <1>7 DEF RevokedUnlessSlipped, NewestWorks, ErasedUnlessLate
<1> QED BY <1>6, <1>8, <1>9, <1>10 DEF IInv

(* Confirming the address uses a link that still has its row. *)
LEMMA VerifyStep ==
    ASSUME IInv, NEW r \in Requests, NEW c \in Cookies, Verify(r, c)
    PROVE  IInv'
<1> DEFINE k == request[r].link
<1>1. TypeOK /\ request[r].password \in Hash /\ k \in Confirms /\ k \in Links
  BY RequestFields DEF IInv, Verify, Links
<1>2. /\ RowExists(k) /\ SignIn(r, c)
      /\ account' = [account EXCEPT !.verified = TRUE]
      /\ link' = [link EXCEPT ![k] = "used"]
      /\ uses' = [uses EXCEPT ![k] = @ + 1]
      /\ UNCHANGED <<newest, voided>>
  BY DEF Verify
<1> HIDE DEF k
<1>3. account' \in Account /\ account'.hash = account.hash /\ account'.deleted = account.deleted
  BY <1>1, <1>2 DEF TypeOK, Account
<1>4. /\ open' \subseteq Cookies /\ proof' \in [Cookies -> Hash] /\ slipped' \subseteq open'
      /\ RevokedUnlessSlipped'
      /\ \A q \in Requests \ {r} : "sessions" \in Seen(q) => open' \ Drops(q) \subseteq slipped'
  BY <1>1, <1>2, <1>3, SignInStep
<1>5. link' \in [Links -> {"none", "sent", "used", "gone"}] /\ link'[k] = "used"
      /\ \A l \in Links \ {k} : link'[l] = link[l]
  BY <1>1, <1>2 DEF TypeOK
<1>6. uses' \in [Links -> Nat] /\ \A l \in Resets : uses'[l] = uses[l]
  BY <1>1, <1>2, LoginAssumption DEF TypeOK, Links
<1>7. request' \in [Requests -> Request] /\ DropsSent' /\ UnseenSlip' /\ LockHeld'
  <2>1. \A l \in Links : link[l] # "none" => link'[l] # "none"
    BY <1>2, <1>5
  <2>2. \A q \in Writing \ {r} : link'[request[q].link] \in {"sent", "used"}
    BY <1>2, <1>5, RowsStay DEF RowExists, Links
  <2> QED BY <1>2, <1>4, <2>1, <2>2, OverStep DEF SignIn
<1>8. TypeOK'
  BY <1>1, <1>2, <1>3, <1>4, <1>5, <1>6, <1>7 DEF TypeOK
<1>9. VoidedIsGone'
  BY <1>1, <1>2, <1>5 DEF IInv, TypeOK, VoidedIsGone, RowExists
<1>10. NewestWorks'
  <2>1. newest \in Links
    BY <1>1 DEF TypeOK, Links
  <2> QED BY <1>2, <1>3, <1>5, <2>1 DEF IInv, NewestWorks, RowExists
<1>11. ErasedUnlessLate'
  BY <1>2, <1>3, <1>6 DEF IInv, ErasedUnlessLate
<1> QED BY <1>4, <1>7, <1>8, <1>9, <1>10, <1>11 DEF IInv

(* A new confirmation link has its row whatever becomes of the others. *)
LEMMA ResendStep ==
    ASSUME IInv, NEW r \in Requests, NEW k \in Confirms, Resend(r, k)
    PROVE  IInv'
<1> DEFINE S == Drops(r)
<1>1. TypeOK /\ k \in Links
  BY DEF IInv, Links
<1>2. /\ link[k] = "none" /\ link' = [Removed(S) EXCEPT ![k] = "sent"]
      /\ newest' = k /\ voided' = voided \cup (S \cap Links) /\ Over(r)
      /\ UNCHANGED <<account, open, proof, uses, slipped>>
  BY DEF Resend
<1>3. \A l \in S \cap Links : link[l] # "none" /\ l \in Confirms
  BY DEF IInv, DropsSent, Resend
<1> HIDE DEF S
<1>4. /\ link' \in [Links -> {"none", "sent", "used", "gone"}] /\ link'[k] = "sent"
      /\ \A l \in Links \ {k} : link'[l] = Removed(S)[l]
  BY <1>1, <1>2, RemovedTypes
<1>5. request' \in [Requests -> Request] /\ DropsSent' /\ UnseenSlip' /\ LockHeld'
  <2>1. \A l \in Links : link[l] # "none" => link'[l] # "none"
    BY <1>1, <1>4, RemovedTypes
  <2>2. \A l \in Resets : l \in Links \ {k} /\ l \notin S
    BY <1>3, LoginAssumption DEF Links
  <2>3. \A l \in Resets : link'[l] = link[l]
    BY <1>1, <1>4, <2>2, RemovedTypes
  <2>4. \A q \in Writing \ {r} : link'[request[q].link] \in {"sent", "used"}
    BY <2>3, RowsStay DEF RowExists
  <2>5. \A q \in Requests \ {r} : "sessions" \in Seen(q) => open' \ Drops(q) \subseteq slipped'
    BY <1>2 DEF IInv, UnseenSlip
  <2> QED BY <1>2, <2>1, <2>4, <2>5, OverStep
<1>6. TypeOK'
  BY <1>1, <1>2, <1>4, <1>5 DEF TypeOK
<1>7. VoidedIsGone'
  <2>1. \A l \in voided' : l \in Links \ {k} /\ Removed(S)[l] = "gone"
    BY <1>1, <1>2, <1>3, RemovedTypes DEF IInv, TypeOK, VoidedIsGone
  <2> QED BY <1>4, <2>1 DEF VoidedIsGone
<1>8. NewestWorks'
  BY <1>2, <1>4 DEF NewestWorks, RowExists
<1>9. ErasedUnlessLate'
  <2>1. \A l \in Resets \ voided : l \notin voided'
    BY <1>2, <1>3, LoginAssumption
  <2> QED BY <1>2, <2>1 DEF IInv, ErasedUnlessLate
<1>10. RevokedUnlessSlipped'
  BY <1>2 DEF IInv, RevokedUnlessSlipped
<1> QED BY <1>5, <1>6, <1>7, <1>8, <1>9, <1>10 DEF IInv

LEMMA StepPreserves == IInv /\ [Next]_vars => IInv'
<1> SUFFICES ASSUME IInv, [Next]_vars PROVE IInv'
  OBVIOUS
<1>1. CASE UNCHANGED vars
  <2>1. (TypeOK /\ RevokedUnlessSlipped /\ VoidedIsGone /\ NewestWorks /\ ErasedUnlessLate)'
    BY <1>1 DEF vars, IInv, TypeOK, RevokedUnlessSlipped, VoidedIsGone, NewestWorks,
                ErasedUnlessLate, RowExists
  <2>2. (DropsSent /\ UnseenSlip /\ LockHeld)'
    BY <1>1 DEF vars, IInv, DropsSent, UnseenSlip, LockHeld, Writing, Seen, Drops, RowExists
  <2> QED BY <2>1, <2>2 DEF IInv
<1>2. ASSUME NEW r \in Requests, NEW p \in Passwords,
             AskLogin(r, p) \/ \E k \in Resets : AskReset(r, k, p)
      PROVE  IInv'
  <2>1. ASSUME NEW asked \in Request, Ask(r, asked),
               asked.kind \in Removing => asked.seen = {} /\ asked.drops = {}
        PROVE  IInv'
    BY <2>1, AskStep
  <2>2. CASE AskLogin(r, p)
    BY <2>1, <2>2, RequestTypes DEF AskLogin, Removing
  <2>3. CASE \E k \in Resets : AskReset(r, k, p)
    BY <2>1, <2>3, RequestTypes DEF AskReset
  <2> QED BY <1>2, <2>2, <2>3
<1>3. ASSUME NEW r \in Requests, AskForgot(r) \/ AskDelete(r) \/ AskResend(r) PROVE IInv'
  BY <1>3, AskStep, RequestTypes DEF AskForgot, AskDelete, AskResend, Removing
<1>4. ASSUME NEW r \in Requests, NEW k \in Confirms, AskVerify(r, k) PROVE IInv'
  <2>1. account.hash \in Hash
    BY DEF IInv, TypeOK, Account
  <2> QED BY <1>4, <2>1, AskStep, RequestTypes DEF AskVerify, Removing
<1>5. ASSUME NEW r \in Requests, DropSessions(r) \/ DropResets(r) \/ DropConfirms(r) PROVE IInv'
  BY <1>5, DropSessionsStep, DropResetsStep, DropConfirmsStep
<1>6. ASSUME NEW r \in Requests, GiveUp(r) PROVE IInv'
  BY <1>6, GiveUpStep
<1>7. ASSUME NEW r \in Requests, NEW c \in Cookies, Login(r, c) \/ Reset(r, c) \/ Verify(r, c)
      PROVE  IInv'
  BY <1>7, LoginStep, ResetStep, VerifyStep
<1>8. ASSUME NEW r \in Requests,
             \/ \E k \in Resets : Forgot(r, k)
             \/ \E k \in Confirms : Resend(r, k)
             \/ Delete(r)
      PROVE  IInv'
  BY <1>8, ForgotStep, ResendStep, DeleteStep
<1>9. ASSUME NEW c \in Cookies, Logout(c) PROVE IInv'
  BY <1>9, LogoutStep
<1> QED BY <1>1, <1>2, <1>3, <1>4, <1>5, <1>6, <1>7, <1>8, <1>9 DEF Next

-----------------------------------------------------------------------------
(* The invariant holds of every reachable state. *)
THEOREM Inductive == Spec => []IInv
<1> QED BY InitIInv, StepPreserves, PTL DEF Spec

(* A session outlives the password it was opened with, or the account,     *)
(* only if its request inserts it after the DELETE of the reset or the     *)
(* deletion had been run: every other one is revoked.                      *)
THEOREM OldSessionsRevoked == Spec => []RevokedUnlessSlipped
<1>1. IInv => RevokedUnlessSlipped
  BY DEF IInv
<1> QED BY <1>1, Inductive, PTL

(* However many confirmation links are asked for at once, the one inserted *)
(* last has its row until the account is deleted.                          *)
THEOREM NewestLinkWorks == Spec => []NewestWorks
<1>1. IInv => NewestWorks
  BY DEF IInv
<1> QED BY <1>1, Inductive, PTL

(* An erased account regains a password only through a link that the       *)
(* deletion did not see.                                                   *)
THEOREM ErasedStaysErased == Spec => []ErasedUnlessLate
<1>1. IInv => ErasedUnlessLate
  BY DEF IInv
<1> QED BY <1>1, Inductive, PTL

(* Of the links in flight when a reset, a newer confirmation link, or the  *)
(* deletion of the account commits, no other one ever sets a password or   *)
(* opens a session.                                                        *)
THEOREM VoidedStaysVoid == Spec => VoidedNeverWorks
<1>1. IInv /\ [Next]_vars => \A k \in voided : uses'[k] = uses[k]
  <2> SUFFICES ASSUME IInv, [Next]_vars, NEW k \in voided PROVE uses'[k] = uses[k]
    OBVIOUS
  <2>1. ASSUME NEW r \in Requests, NEW c \in Cookies, Reset(r, c) \/ Verify(r, c)
        PROVE  uses'[k] = uses[k]
    <3>1. RowExists(request[r].link) /\ uses' = [uses EXCEPT ![request[r].link] = @ + 1]
      BY <2>1 DEF Reset, Verify, IInv, LockHeld, Writing
    <3>2. request[r].link # k
      BY <3>1 DEF IInv, VoidedIsGone, RowExists
    <3>3. k \in Links /\ uses \in [Links -> Nat]
      BY DEF IInv, TypeOK
    <3> QED BY <3>1, <3>2, <3>3
  <2>2. CASE ~\E r \in Requests, c \in Cookies : Reset(r, c) \/ Verify(r, c)
    <3>1. UNCHANGED uses
      BY <2>2 DEF Next, vars, AskLogin, AskReset, AskForgot, AskDelete, AskVerify, AskResend, Ask,
                  Drop, DropSessions, DropResets, DropConfirms,
                  Login, Forgot, Resend, Delete, GiveUp, Logout
    <3> QED BY <3>1
  <2> QED BY <2>1, <2>2
<1> QED BY <1>1, Inductive, PTL DEF Spec, VoidedNeverWorks

=============================================================================
