----------------------------- MODULE Predictions -----------------------------
(***************************************************************************)
(* Runs of models at Replicate (app/providers/replicate.py): create with   *)
(* retries, poll, give up at the deadline.  A member of Calls is one call  *)
(* of ReplicateProvider.run; several may be under way at once.  remote[c]  *)
(* is the prediction at Replicate that the call may have created, which    *)
(* goes on, and is paid for, whether or not anybody watches it.            *)
(***************************************************************************)
EXTENDS Naturals

CONSTANTS
    Calls,
    CreateAttempts,   \* range(5) in _create_with_retry
    Deadline          \* settings.prediction_timeout_seconds, in polls

ASSUME PredictionsAssumption ==
    /\ CreateAttempts \in Nat \ {0}
    /\ Deadline \in Nat

VARIABLES
    call,     \* call[c]: where the call stands, with its attempts and its wait
    remote    \* remote[c]: status of the prediction at Replicate

(* How a call can end.  Of the failed ones, "lost" is a creation without   *)
(* an answer, "blind" a poll without one (or with one that has no status), *)
(* "rejected" a prediction that failed, "gaveup" a deadline that passed,   *)
(* "uncancelled" one whose cancellation did not reach Replicate, "cut" a   *)
(* call that ended with the process.                                       *)
Unanswered == {"lost", "blind", "uncancelled", "cut"}
Over       == {"ok", "refused", "rejected", "gaveup"} \cup Unanswered
UnderWay   == {"creating", "waiting"}

Call   == [at : {"idle"} \cup UnderWay \cup Over, tries : 0..(CreateAttempts - 1), waited : 0..Deadline]
Remote == {"none", "running", "succeeded", "failed", "canceled"}

Idle == [at |-> "idle", tries |-> 0, waited |-> 0]

CallsInit ==
    /\ call = [c \in Calls |-> Idle]
    /\ remote = [c \in Calls |-> "none"]

IsOver(c)     == call[c].at \in Over
IsUnderWay(c) == call[c].at \in UnderWay

(* The caller starts some calls. *)
Begin(S) ==
    call' = [c \in Calls |-> IF c \in S THEN [Idle EXCEPT !.at = "creating"] ELSE call[c]]

End(c, how) == call' = [call EXCEPT ![c] = [Idle EXCEPT !.at = how]]

(* The loop of run, on the status it has just been told. *)
Told(status) ==
    CASE status = "running"   -> "waiting"
      [] status = "succeeded" -> "ok"
      [] OTHER                -> "rejected"

(* 429: sleep and try again, and after the last attempt raise *)
Throttled_Endlessly(c) ==
    /\ call[c].at = "creating"
    /\ call' = [call EXCEPT ![c].tries = @ + 1]
    /\ UNCHANGED remote
Throttled(c) ==
    /\ call[c].at = "creating"
    /\ IF call[c].tries + 1 < CreateAttempts
       THEN call' = [call EXCEPT ![c].tries = @ + 1]
       ELSE End(c, "refused")
    /\ UNCHANGED remote

(* any other error status, or Replicate cannot be reached *)
Refused(c) ==
    /\ call[c].at = "creating"
    /\ End(c, "refused")
    /\ UNCHANGED remote

(* The request timed out, or its answer is not JSON. *)
LosesAnswer(c) ==
    /\ call[c].at = "creating"
    /\ remote' = [remote EXCEPT ![c] = "running"]
    /\ End(c, "lost")

(* "Prefer: wait": the answer may tell the end already. *)
Accepted(c) ==
    /\ call[c].at = "creating"
    /\ \E status \in {"running", "succeeded", "failed"} :
          /\ remote' = [remote EXCEPT ![c] = status]
          /\ IF status = "running"
             THEN call' = [call EXCEPT ![c].at = "waiting"]
             ELSE End(c, Told(status))

(* Sleep, then GET; a slow one takes as long as several. *)
Poll_DeadlineMoves(c) ==
    /\ call[c].at = "waiting"
    /\ \/ End(c, "blind")
       \/ /\ remote[c] # "running"
          /\ End(c, Told(remote[c]))
       \/ /\ remote[c] = "running"
          /\ call' = [call EXCEPT ![c].waited = (@ + 1) % Deadline]
    /\ UNCHANGED remote
Poll(c) ==
    /\ call[c].at = "waiting"
    /\ call[c].waited < Deadline
    /\ \/ End(c, "blind")
       \/ /\ remote[c] # "running"
          /\ End(c, Told(remote[c]))
       \/ /\ remote[c] = "running"
          /\ \E w \in (call[c].waited + 1)..Deadline :
                call' = [call EXCEPT ![c].waited = w]
    /\ UNCHANGED remote

Canceled(c) ==
    [remote EXCEPT ![c] = IF @ = "running" THEN "canceled" ELSE @]

(* Past the deadline: cancel, whose failure is only logged, and raise. *)
GiveUp_LeaveRunning(c) ==
    /\ call[c].at = "waiting"
    /\ call[c].waited >= Deadline
    /\ End(c, "gaveup")
    /\ UNCHANGED remote
GiveUp(c) ==
    /\ call[c].at = "waiting"
    /\ call[c].waited >= Deadline
    /\ \/ remote' = Canceled(c) /\ End(c, "gaveup")
       \/ remote' \in {remote, Canceled(c)} /\ End(c, "uncancelled")

(* Replicate, on its own *)
Settle(c) ==
    /\ remote[c] = "running"
    /\ \E status \in {"succeeded", "failed"} :
          remote' = [remote EXCEPT ![c] = status]
    /\ UNCHANGED call

(* The process dies; a creation under way may have arrived. *)
CallsCut ==
    /\ call' = [c \in Calls |-> IF IsUnderWay(c) THEN [Idle EXCEPT !.at = "cut"] ELSE call[c]]
    /\ \E S \in SUBSET {c \in Calls : call[c].at = "creating"} :
          remote' = [c \in Calls |-> IF c \in S THEN "running" ELSE remote[c]]

Progress(c) ==
    \/ Throttled(c) \/ Refused(c) \/ LosesAnswer(c) \/ Accepted(c)
    \/ Poll(c) \/ GiveUp(c)

CallsTypeOK ==
    /\ call \in [Calls -> Call]
    /\ remote \in [Calls -> Remote]

(* What a call knows of its prediction. *)
CallKnows(c) ==
    /\ call[c].at \in {"idle", "creating", "refused"} => remote[c] = "none"
    /\ call[c].at = "ok" => remote[c] = "succeeded"
    /\ remote[c] = "running" => call[c].at \in {"waiting"} \cup Unanswered

=============================================================================
