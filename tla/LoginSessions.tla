---------------------------- MODULE LoginSessions ----------------------------
(***************************************************************************)
(* How one account's password, login sessions, and the links mailed to it  *)
(* change together (app/auth/service.py, app/auth/router.py, app/services/ *)
(* account.py).  Every handler reads first, often spends a long time in    *)
(* Argon2, and commits at its end; the handlers run in threads, so that    *)
(* other requests may commit in between.                                   *)
(*                                                                         *)
(* A handler that removes rows does so with one DELETE per table, and each *)
(* sees the rows committed when it starts: what is inserted after it stays *)
(* (READ COMMITTED).  Rows are gone for the others with its commit.  Of    *)
(* the locks it takes, the one on the row of users is modelled; to wait    *)
(* for another only delays a statement, and a deadlock ends a request.     *)
(*                                                                         *)
(* Passwords stand for their hashes: a hash verifies one password, and     *)
(* rehashing the same password always changes the column.  Cookies stand   *)
(* for session tokens not in use.  Expiry only takes sessions and links    *)
(* out of use earlier: closing a session covers the first, and a link that *)
(* nobody follows the second.                                              *)
(***************************************************************************)
EXTENDS Integers

CONSTANTS
    Passwords,  \* passwords the account may have
    Unusable,   \* the hash "" of an erased account
    Cookies,    \* session tokens
    Resets,     \* links to set a new password that may be mailed
    Confirms,   \* links to confirm the address that may be mailed
    Requests    \* requests that may be in flight at once

ASSUME LoginAssumption ==
    /\ Unusable \notin Passwords
    /\ Resets \cap Confirms = {}
    /\ Cookies \cap (Resets \cup Confirms) = {}

Links == Resets \cup Confirms

VARIABLES
    account,  \* the row of users
    open,     \* cookies with a row in auth_sessions
    proof,    \* proof[c]: the hash that the request that opened c had read
    link,     \* link[k]: its row in password_resets or email_verifications
    newest,   \* the confirmation link inserted last
    request,  \* request[r]: what it has read and will write
    uses,     \* uses[k]: passwords set, or sessions opened, through the link
    voided,   \* links whose row another request has removed
    slipped   \* sessions opened with a hash since replaced, or unseen by a DELETE

vars == <<account, open, proof, link, newest, request, uses, voided, slipped>>

Hash == Passwords \cup {Unusable}
Account == [hash : Hash, deleted : BOOLEAN, verified : BOOLEAN]

(* seen: the tables its DELETEs have been through; drops: the rows they    *)
(* found.                                                                  *)
Tables == {"sessions", "resets", "confirms"}
Rows == Cookies \cup Links

Request ==
    [kind : {"idle", "forgot"}]
        \cup [kind : {"login"}, password : Passwords]
        \cup [kind : {"verify"}, password : Hash, link : Confirms]
        \cup [kind : {"reset"}, password : Passwords, link : Resets,
              seen : SUBSET Tables, drops : SUBSET Rows]
        \cup [kind : {"delete", "resend"}, seen : SUBSET Tables, drops : SUBSET Rows]

Idle == [kind |-> "idle"]

Removing == {"reset", "delete", "resend"}
Seen(r) == IF request[r].kind \in Removing THEN request[r].seen ELSE {}
Drops(r) == IF request[r].kind \in Removing THEN request[r].drops ELSE {}

(* POST /auth/register: signed in with the password chosen, and mailed a   *)
(* link to confirm the address.                                            *)
Init ==
    /\ \E p \in Passwords, c \in Cookies :
        /\ account = [hash |-> p, deleted |-> FALSE, verified |-> FALSE]
        /\ open = {c}
        /\ proof = [d \in Cookies |-> IF d = c THEN p ELSE Unusable]
    /\ newest \in Confirms
    /\ link = [k \in Links |-> IF k = newest THEN "sent" ELSE "none"]
    /\ request = [r \in Requests |-> Idle]
    /\ uses = [k \in Links |-> 0]
    /\ voided = {}
    /\ slipped = {}

-----------------------------------------------------------------------------
Ask(r, asked) ==
    /\ request[r].kind = "idle"
    /\ request' = [request EXCEPT ![r] = asked]
    /\ UNCHANGED <<account, open, proof, link, newest, uses, voided, slipped>>

Over(r) == request' = [request EXCEPT ![r] = Idle]

(* An error answer, a failed commit, or the death of the process. *)
GiveUp(r) ==
    /\ request[r].kind # "idle"
    /\ Over(r)
    /\ UNCHANGED <<account, open, proof, link, newest, uses, voided, slipped>>

(* Revoked sessions leave nothing behind. *)
Close(o) ==
    /\ open' = o
    /\ proof' = [d \in Cookies |-> IF d \in o THEN proof[d] ELSE Unusable]

OnlyOpen(o, c, p) ==
    /\ open' = o \cup {c}
    /\ proof' = [d \in Cookies |-> IF d = c THEN p ELSE IF d \in o THEN proof[d] ELSE Unusable]

(* A token is a fresh one: of no row, nor of one that is being removed.    *)
Fresh(r, c) ==
    /\ c \notin open \ Drops(r)
    /\ \A q \in Requests \ {r} : c \notin Drops(q)

(* Another request's DELETE of the sessions has been run before this one.  *)
Unseen(r) == \E q \in Requests \ {r} : "sessions" \in Seen(q)

(* A reset writes the new hash before its DELETEs: until it has committed  *)
(* no other request can write the row of users.                            *)
Locked(r) == \E q \in Requests \ {r} : request[q].kind = "reset" /\ Seen(q) # {}

-----------------------------------------------------------------------------
(* POST /auth/login: the password is checked against the hash that was     *)
(* read, then a session is inserted.  A wrong password changes nothing.    *)

AskLogin(r, p) ==
    /\ ~account.deleted          \* the address of a deleted account is scrubbed
    /\ account.hash = p
    /\ Ask(r, [kind |-> "login", password |-> p])

SignIn(r, c) ==
    /\ Fresh(r, c)
    /\ OnlyOpen(open, c, request[r].password)
    /\ slipped' = IF account.hash = request[r].password /\ ~Unseen(r)
                  THEN slipped ELSE slipped \cup {c}
    /\ Over(r)

Login(r, c) ==
    /\ request[r].kind = "login"
    /\ SignIn(r, c)
    /\ UNCHANGED <<account, link, newest, uses, voided>>

(* POST /auth/logout, or the session expires and its row is dropped. *)
Logout(c) ==
    /\ c \in open
    /\ Close(open \ {c})
    /\ slipped' = slipped \ {c}
    /\ UNCHANGED <<account, link, newest, request, uses, voided>>

-----------------------------------------------------------------------------
(* POST /auth/forgot: the account is found by its address, then the link   *)
(* is inserted and mailed to the address that was read.                    *)

AskForgot(r) ==
    /\ ~account.deleted
    /\ Ask(r, [kind |-> "forgot"])

Forgot(r, k) ==
    /\ request[r].kind = "forgot"
    /\ link[k] = "none"
    /\ link' = [link EXCEPT ![k] = "sent"]
    /\ Over(r)
    /\ UNCHANGED <<account, open, proof, newest, uses, voided, slipped>>

-----------------------------------------------------------------------------
(* The DELETEs of a deletion, a reset and a new confirmation link, in the  *)
(* order of each.                                                          *)

RowExists_Unchecked(k) == link[k] # "none"
RowExists(k) == link[k] \in {"sent", "used"}

Removed(S) == [l \in Links |-> IF l \in S /\ link[l] # "none" THEN "gone" ELSE link[l]]
Existing(S) == {l \in S : RowExists(l)}

Drop(r, table, rows) ==
    /\ request' = [request EXCEPT ![r].seen = @ \cup {table}, ![r].drops = @ \cup rows]
    /\ UNCHANGED <<account, open, proof, link, newest, uses, voided, slipped>>

DropSessions(r) ==
    /\ \/ request[r].kind = "delete" /\ Seen(r) = {}
       \/ request[r].kind = "reset" /\ Seen(r) = {"resets"}
    /\ Drop(r, "sessions", open)

(* What a reset has changed is flushed before its first DELETE: the hash,  *)
(* and its link, whose row must be there, though it may have been marked   *)
(* used meanwhile.                                                         *)
DropResets(r) ==
    \/ /\ request[r].kind = "delete" /\ Seen(r) = {"sessions"}
       /\ Drop(r, "resets", Existing(Resets))
    \/ /\ request[r].kind = "reset" /\ Seen(r) = {}
       /\ RowExists(request[r].link) /\ ~Locked(r)
       /\ Drop(r, "resets", Existing(Resets \ {request[r].link}))

DropConfirms(r) ==
    /\ \/ request[r].kind = "delete" /\ Seen(r) = {"sessions", "resets"}
       \/ request[r].kind = "resend" /\ Seen(r) = {}
    /\ Drop(r, "confirms", Existing(Confirms))

-----------------------------------------------------------------------------
(* POST /auth/reset: nothing asks whether the account is deleted.          *)

AskReset(r, k, p) ==
    /\ link[k] = "sent"
    /\ Ask(r, [kind |-> "reset", password |-> p, link |-> k, seen |-> {}, drops |-> {}])

(* The sessions it has found are revoked; its answer signs in.             *)
Reset_KeepsSessions(r, c) ==
    LET k == request[r].link
        p == request[r].password
    IN  /\ request[r].kind = "reset" /\ Seen(r) = {"resets", "sessions"}
        /\ account' = [account EXCEPT !.hash = p]
        /\ link' = [Removed(Drops(r)) EXCEPT ![k] = "used"]
        /\ uses' = [uses EXCEPT ![k] = @ + 1]
        /\ voided' = voided \cup (Drops(r) \cap Links)
        /\ c \notin open
        /\ Fresh(r, c)
        /\ OnlyOpen(open, c, p)
        /\ slipped' = (slipped \ Drops(r)) \cup IF Unseen(r) THEN {c} ELSE {}
        /\ Over(r)
        /\ UNCHANGED newest
Reset(r, c) ==
    LET k == request[r].link
        p == request[r].password
    IN  /\ request[r].kind = "reset" /\ Seen(r) = {"resets", "sessions"}
        /\ account' = [account EXCEPT !.hash = p]
        /\ link' = [Removed(Drops(r)) EXCEPT ![k] = "used"]
        /\ uses' = [uses EXCEPT ![k] = @ + 1]
        /\ voided' = voided \cup (Drops(r) \cap Links)
        /\ Fresh(r, c)
        /\ OnlyOpen(open \ Drops(r), c, p)
        /\ slipped' = (slipped \ Drops(r)) \cup IF Unseen(r) THEN {c} ELSE {}
        /\ Over(r)
        /\ UNCHANGED newest

-----------------------------------------------------------------------------
(* POST /auth/delete: costs a session and the password.  The row of users  *)
(* is scrubbed at the commit, after the DELETEs.                           *)

AskDelete(r) ==
    /\ open # {} /\ ~account.deleted
    /\ Ask(r, [kind |-> "delete", seen |-> {}, drops |-> {}])

Delete(r) ==
    /\ request[r].kind = "delete" /\ Seen(r) = Tables
    /\ ~Locked(r)
    /\ account' = [account EXCEPT !.hash = Unusable, !.deleted = TRUE]
    /\ link' = Removed(Drops(r))
    /\ voided' = voided \cup (Drops(r) \cap Links)
    /\ Close(open \ Drops(r))
    /\ slipped' = slipped \ Drops(r)
    /\ Over(r)
    /\ UNCHANGED <<newest, uses>>

-----------------------------------------------------------------------------
(* POST /auth/verify signs in whoever opens the link, without a password.  *)
(* What it pays is in AccountCredits.                                      *)

AskVerify(r, k) ==
    /\ link[k] = "sent"
    /\ ~account.deleted
    /\ Ask(r, [kind |-> "verify", password |-> account.hash, link |-> k])

Verify(r, c) ==
    LET k == request[r].link
    IN  /\ request[r].kind = "verify"
        /\ RowExists(k)
        /\ account.verified \/ ~Locked(r)
        /\ account' = [account EXCEPT !.verified = TRUE]
        /\ link' = [link EXCEPT ![k] = "used"]
        /\ uses' = [uses EXCEPT ![k] = @ + 1]
        /\ SignIn(r, c)
        /\ UNCHANGED <<newest, voided>>

(* POST /auth/resend-verification: the DELETE does not see the links that  *)
(* other requests have not committed yet.                                  *)
AskResend(r) ==
    /\ open # {} /\ ~account.deleted /\ ~account.verified
    /\ Ask(r, [kind |-> "resend", seen |-> {}, drops |-> {}])

Resend_InsertsFirst(r, k) ==
    /\ request[r].kind = "resend" /\ Seen(r) = {"confirms"}
    /\ link[k] = "none"
    /\ link' = Removed(Drops(r))
    /\ newest' = k
    /\ voided' = voided \cup (Drops(r) \cap Links)
    /\ Over(r)
    /\ UNCHANGED <<account, open, proof, uses, slipped>>
Resend(r, k) ==
    /\ request[r].kind = "resend" /\ Seen(r) = {"confirms"}
    /\ link[k] = "none"
    /\ link' = [Removed(Drops(r)) EXCEPT ![k] = "sent"]
    /\ newest' = k
    /\ voided' = voided \cup (Drops(r) \cap Links)
    /\ Over(r)
    /\ UNCHANGED <<account, open, proof, uses, slipped>>

-----------------------------------------------------------------------------
Next ==
    \/ \E r \in Requests :
        \/ \E p \in Passwords : AskLogin(r, p) \/ \E k \in Resets : AskReset(r, k, p)
        \/ \E c \in Cookies : Login(r, c) \/ Reset(r, c) \/ Verify(r, c)
        \/ AskForgot(r) \/ \E k \in Resets : Forgot(r, k)
        \/ AskResend(r) \/ \E k \in Confirms : AskVerify(r, k) \/ Resend(r, k)
        \/ DropSessions(r) \/ DropResets(r) \/ DropConfirms(r)
        \/ AskDelete(r) \/ Delete(r) \/ GiveUp(r)
    \/ \E c \in Cookies : Logout(c)

Spec == Init /\ [][Next]_vars

-----------------------------------------------------------------------------
(* Sessions that are not open leave no proof behind. *)
TypeOK ==
    /\ account \in Account
    /\ open \subseteq Cookies
    /\ proof \in [Cookies -> Hash]
    /\ link \in [Links -> {"none", "sent", "used", "gone"}]
    /\ newest \in Confirms
    /\ request \in [Requests -> Request]
    /\ uses \in [Links -> Nat]
    /\ voided \subseteq Links
    /\ slipped \subseteq open

(* "resetting your password revokes them all at once" (app/web/templates/  *)
(* privacy.html): every session but those inserted after the DELETE of the *)
(* reset had been run, by requests under way at the same time.  The same   *)
(* goes for the deletion of the account.                                   *)
RevokedUnlessSlipped == \A c \in open : c \in slipped \/ proof[c] = account.hash

(* A link that an earlier reset, a newer confirmation link or the deletion *)
(* of the account has taken out of use sets no password and signs nobody   *)
(* in any more, even when its request had passed every check before.       *)
VoidedNeverWorks == [][\A k \in voided : uses'[k] = uses[k]]_vars

(* "so the newest email is always the one that works" (app/auth/service.py,*)
(* create_email_verification), however many are asked for at once.         *)
NewestWorks == ~account.deleted => RowExists(newest)

(* An erased account has no password, unless through a link that was asked *)
(* for before the deletion, and inserted after it: nothing removes that.   *)
ErasedUnlessLate ==
    account.deleted /\ account.hash # Unusable =>
        \E k \in Resets \ voided : uses[k] > 0

-----------------------------------------------------------------------------
(* The inductive strengthening the proofs of LoginSessionsProofs use.      *)

(* A voided link has no row left, and rows do not come back.               *)
VoidedIsGone == \A k \in voided : link[k] = "gone"

(* What a request drops was there, and the links of a table it has seen.   *)
DropsSent ==
    \A r \in Requests : \A k \in Drops(r) \cap Links :
        /\ link[k] # "none"
        /\ request[r].kind = "resend" => k \in Confirms
        /\ request[r].kind = "reset" => k \in Resets \ {request[r].link}

(* A session that a DELETE has not found was opened after it. *)
UnseenSlip == \A r \in Requests : "sessions" \in Seen(r) => open \ Drops(r) \subseteq slipped

(* One reset at a time has written the row of users, and holds its link.   *)
Writing == {r \in Requests : request[r].kind = "reset" /\ Seen(r) # {}}
LockHeld ==
    /\ \A r, q \in Writing : r = q
    /\ \A r \in Writing : RowExists(request[r].link)

IInv ==
    /\ TypeOK /\ RevokedUnlessSlipped /\ VoidedIsGone
    /\ DropsSent /\ UnseenSlip /\ LockHeld /\ NewestWorks /\ ErasedUnlessLate

=============================================================================
