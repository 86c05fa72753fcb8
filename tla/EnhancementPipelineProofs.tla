---------------------- MODULE EnhancementPipelineProofs ----------------------
(***************************************************************************)
(* Proofs about EnhancementPipeline, for any faces, texts, requests and    *)
(* similarities, any number of creation attempts and any deadline.         *)
(***************************************************************************)
EXTENDS EnhancementPipeline, TLAPS

-----------------------------------------------------------------------------
(* Different calls have different names. *)
LEMMA CallsDiffer ==
    /\ Caption # Ocr /\ Caption # Upscale /\ Ocr # Upscale
    /\ \A t : Patch(t) \notin {Caption, Ocr, Upscale}
    /\ \A f, k : Pass(f, k) \notin {Caption, Ocr, Upscale}
    /\ \A f, k, t : Pass(f, k) # Patch(t)
    /\ \A s, t : Patch(s) = Patch(t) => s = t
    /\ \A f, g, k, l : Pass(f, k) = Pass(g, l) => f = g /\ k = l
BY DEF Caption, Ocr, Upscale, Patch, Pass

LEMMA CallsExist ==
    /\ Caption \in Calls /\ Ocr \in Calls /\ Upscale \in Calls
    /\ \A t \in Texts : Patch(t) \in Calls
    /\ \A f \in Faces, k \in 1..2 : Pass(f, k) \in Calls
BY CallsAssumption

(* Records of calls, and what End and Begin make of them. *)
LEMMA CallTypes ==
    /\ Idle \in Call /\ Idle.at = "idle"
    /\ \A how \in {"idle"} \cup UnderWay \cup Over :
          [Idle EXCEPT !.at = how] \in Call /\ [Idle EXCEPT !.at = how].at = how
    /\ \A status : Told(status) \in {"waiting", "ok", "rejected"}
BY PredictionsAssumption DEF Idle, Call, UnderWay, Over, Unanswered, Told

LEMMA BeginShape ==
    ASSUME CallsTypeOK, NEW S \in SUBSET Calls, Begin(S)
    PROVE  /\ call' \in [Calls -> Call]
           /\ \A c \in S : call'[c].at = "creating"
           /\ \A c \in Calls \ S : call'[c] = call[c]
BY CallTypes DEF CallsTypeOK, Begin, UnderWay

LEMMA EndShape ==
    ASSUME CallsTypeOK, NEW c \in Calls, NEW how \in Over, End(c, how)
    PROVE  /\ call' \in [Calls -> Call]
           /\ call'[c].at = how
           /\ \A d \in Calls \ {c} : call'[d] = call[d]
BY CallTypes DEF CallsTypeOK, End

(* A step of the provider moves one call that is under way, and what that  *)
(* call knows of its prediction stays true.                                *)
LEMMA ProgressShape ==
    ASSUME CallsTypeOK, NEW c \in Calls, CallKnows(c), Progress(c)
    PROVE  /\ CallsTypeOK'
           /\ IsUnderWay(c)
           /\ call'[c].at \in UnderWay \cup Over
           /\ CallKnows(c)'
           /\ \A d \in Calls \ {c} : call'[d] = call[d] /\ remote'[d] = remote[d]
<1>0. call \in [Calls -> Call] /\ remote \in [Calls -> Remote]
  BY DEF CallsTypeOK
<1>1. CASE Throttled(c)
  <2>1. CASE call[c].tries + 1 < CreateAttempts
    <3>1. call' = [call EXCEPT ![c].tries = @ + 1] /\ UNCHANGED remote /\ call[c].at = "creating"
      BY <1>1, <2>1 DEF Throttled
    <3>2. call[c].tries + 1 \in 0..(CreateAttempts - 1)
      BY <1>0, <2>1, PredictionsAssumption DEF Call
    <3>3. [call[c] EXCEPT !.tries = @ + 1] \in Call
      BY <1>0, <3>2 DEF Call
    <3>4. call' \in [Calls -> Call] /\ call'[c].at = "creating"
          /\ \A d \in Calls \ {c} : call'[d] = call[d]
      BY <1>0, <3>1, <3>3 DEF Call
    <3> QED BY <1>0, <3>1, <3>4 DEF CallsTypeOK, CallKnows, IsUnderWay, UnderWay, Over, Unanswered
  <2>2. CASE ~(call[c].tries + 1 < CreateAttempts)
    <3>1. End(c, "refused") /\ UNCHANGED remote /\ call[c].at = "creating"
      BY <1>1, <2>2 DEF Throttled
    <3>2. "refused" \in Over
      BY DEF Over
    <3> QED BY <1>0, <3>1, <3>2, EndShape DEF CallsTypeOK, CallKnows, IsUnderWay, UnderWay, Over, Unanswered
  <2> QED BY <2>1, <2>2
<1>2. CASE Refused(c)
  <2>1. End(c, "refused") /\ UNCHANGED remote /\ call[c].at = "creating" /\ "refused" \in Over
    BY <1>2 DEF Refused, Over
  <2> QED BY <1>0, <2>1, EndShape DEF CallsTypeOK, CallKnows, IsUnderWay, UnderWay, Over, Unanswered
<1>3. CASE LosesAnswer(c)
  <2>1. End(c, "lost") /\ call[c].at = "creating" /\ "lost" \in Over
    BY <1>3 DEF LosesAnswer, Over, Unanswered
  <2>2. remote' \in [Calls -> Remote] /\ remote'[c] = "running"
        /\ \A d \in Calls \ {c} : remote'[d] = remote[d]
    BY <1>0, <1>3 DEF LosesAnswer, Remote
  <2> QED BY <1>0, <2>1, <2>2, EndShape DEF CallsTypeOK, CallKnows, IsUnderWay, UnderWay, Over, Unanswered
<1>4. CASE Accepted(c)
  <2>1. PICK status \in {"running", "succeeded", "failed"} :
          /\ remote' = [remote EXCEPT ![c] = status]
          /\ IF status = "running"
             THEN call' = [call EXCEPT ![c].at = "waiting"]
             ELSE End(c, Told(status))
    BY <1>4 DEF Accepted
  <2>2. remote' \in [Calls -> Remote] /\ remote'[c] = status
        /\ \A d \in Calls \ {c} : remote'[d] = remote[d]
    BY <1>0, <2>1 DEF Remote
  <2>3. call[c].at = "creating"
    BY <1>4 DEF Accepted
  <2>4. CASE status = "running"
    <3>1. [call[c] EXCEPT !.at = "waiting"] \in Call
      BY <1>0 DEF Call, UnderWay
    <3>2. call' \in [Calls -> Call] /\ call'[c].at = "waiting"
          /\ \A d \in Calls \ {c} : call'[d] = call[d]
      BY <1>0, <2>1, <2>4, <3>1 DEF Call
    <3> QED BY <2>2, <2>3, <2>4, <3>2 DEF CallsTypeOK, CallKnows, IsUnderWay, UnderWay, Over, Unanswered
  <2>5. CASE status # "running"
    <3>1. End(c, Told(status)) /\ Told(status) = IF status = "succeeded" THEN "ok" ELSE "rejected"
      BY <2>1, <2>5 DEF Told
    <3>2. Told(status) \in Over
      BY <3>1 DEF Over
    <3> QED BY <2>2, <2>3, <2>5, <3>1, <3>2, EndShape DEF CallsTypeOK, CallKnows, IsUnderWay, UnderWay, Over, Unanswered
  <2> QED BY <2>4, <2>5
<1>5. CASE Poll(c)
  <2>0. call[c].at = "waiting" /\ UNCHANGED remote /\ call[c].waited < Deadline
    BY <1>5 DEF Poll
  <2>1. CASE End(c, "blind")
    <3>1. "blind" \in Over
      BY DEF Over, Unanswered
    <3> QED BY <1>0, <2>0, <2>1, <3>1, EndShape DEF CallsTypeOK, CallKnows, IsUnderWay, UnderWay, Over, Unanswered
  <2>2. CASE remote[c] # "running" /\ End(c, Told(remote[c]))
    <3>1. Told(remote[c]) = IF remote[c] = "succeeded" THEN "ok" ELSE "rejected"
      BY <2>2 DEF Told
    <3>2. Told(remote[c]) \in Over
      BY <3>1 DEF Over
    <3> QED BY <1>0, <2>0, <2>2, <3>1, <3>2, EndShape DEF CallsTypeOK, CallKnows, IsUnderWay, UnderWay, Over, Unanswered
  <2>3. CASE /\ remote[c] = "running"
             /\ \E w \in (call[c].waited + 1)..Deadline :
                   call' = [call EXCEPT ![c].waited = w]
    <3>1. PICK w \in (call[c].waited + 1)..Deadline : call' = [call EXCEPT ![c].waited = w]
      BY <2>3
    <3>2. w \in 0..Deadline
      BY <1>0, <3>1, PredictionsAssumption DEF Call
    <3>3. [call[c] EXCEPT !.waited = w] \in Call
      BY <1>0, <3>2 DEF Call
    <3>4. call' \in [Calls -> Call] /\ call'[c].at = "waiting"
          /\ \A d \in Calls \ {c} : call'[d] = call[d]
      BY <1>0, <2>0, <3>1, <3>3 DEF Call
    <3> QED BY <1>0, <2>0, <2>3, <3>4 DEF CallsTypeOK, CallKnows, IsUnderWay, UnderWay, Over, Unanswered
  <2> QED BY <1>5, <2>1, <2>2, <2>3 DEF Poll
<1>6. CASE GiveUp(c)
  <2>0. call[c].at = "waiting"
    BY <1>6 DEF GiveUp
  <2>1. Canceled(c) \in [Calls -> Remote] /\ Canceled(c)[c] # "running"
        /\ \A d \in Calls \ {c} : Canceled(c)[d] = remote[d]
    BY <1>0 DEF Canceled, Remote
  <2>2. CASE remote' = Canceled(c) /\ End(c, "gaveup")
    <3>1. "gaveup" \in Over
      BY DEF Over
    <3> QED BY <2>0, <2>1, <2>2, <3>1, EndShape DEF CallsTypeOK, CallKnows, IsUnderWay, UnderWay, Over, Unanswered
  <2>3. CASE remote' \in {remote, Canceled(c)} /\ End(c, "uncancelled")
    <3>1. "uncancelled" \in Over
      BY DEF Over, Unanswered
    <3> QED BY <1>0, <2>0, <2>1, <2>3, <3>1, EndShape DEF CallsTypeOK, CallKnows, IsUnderWay, UnderWay, Over, Unanswered
  <2> QED BY <1>6, <2>2, <2>3 DEF GiveUp
<1> QED BY <1>1, <1>2, <1>3, <1>4, <1>5, <1>6 DEF Progress

-----------------------------------------------------------------------------
(* Everything but TypeOK of the provider, in the form the steps need it. *)
CallsFit == CallsTypeOK /\ \A c \in Calls : CallKnows(c)

LEMMA CallsUntouched ==
    ASSUME CallsFit, UNCHANGED <<call, remote>>
    PROVE  CallsFit'
BY DEF CallsFit, CallsTypeOK, CallKnows

LEMMA BeginFits ==
    ASSUME CallsFit, NEW S \in SUBSET Calls, Begin(S), UNCHANGED remote,
           \A c \in S : call[c].at = "idle"
    PROVE  CallsFit'
<1>1. CallsTypeOK'
  BY BeginShape DEF CallsFit, CallsTypeOK
<1>2. ASSUME NEW c \in Calls PROVE CallKnows(c)'
  <2>1. CASE c \in S
    <3>1. call'[c].at = "creating" /\ call[c].at = "idle" /\ CallKnows(c)
      BY <2>1, BeginShape DEF CallsFit
    <3> QED BY <3>1 DEF CallKnows, Unanswered
  <2>2. CASE c \notin S
    <3>1. call'[c] = call[c] /\ CallKnows(c)
      BY <2>2, BeginShape DEF CallsFit
    <3> QED BY <3>1 DEF CallKnows
  <2> QED BY <2>1, <2>2
<1> QED BY <1>1, <1>2 DEF CallsFit

LEMMA InitIInv == Init => IInv
<1> SUFFICES ASSUME Init PROVE IInv
  OBVIOUS
<1>1. \A c \in Calls : call[c] = Idle /\ remote[c] = "none" /\ call[c].at = "idle"
  BY CallTypes DEF Init, CallsInit
<1>2. TypeOK
  <2>1. CallsTypeOK
    BY CallTypes DEF Init, CallsInit, CallsTypeOK, Remote
  <2>2. Untouched \in [passes : 0..2, kept : Measures, measured : SUBSET Similarities]
    BY DEF Untouched, Measures
  <2> QED BY <2>1, <2>2 DEF Init, TypeOK, Own
<1>3. \A c \in Calls : CallKnows(c) /\ ~IsUnderWay(c)
  BY <1>1 DEF CallKnows, IsUnderWay, UnderWay, Unanswered
<1>4. OptionalNeverFails /\ blame = {}
  BY DEF Init, OptionalNeverFails
<1>5. AwaitedTexts = {} /\ \A f \in Faces, k \in 1..2 : ~Awaits(f, k)
  BY <1>1, CallsExist DEF AwaitedTexts, Awaits
<1>6. StageWaits
  BY <1>3, <1>5 DEF StageWaits
<1>7. NotYetCalled
  <2>1. 2 \in 1..2
    OBVIOUS
  <2> QED BY <1>1, <2>1, CallsExist DEF NotYetCalled
<1>8. PlanFollowed
  BY DEF Init, PlanFollowed
<1>9. GateKept
  BY DEF Init, GateKept, Untouched, Below, Drifted
<1> QED BY <1>2, <1>3, <1>4, <1>6, <1>7, <1>8, <1>9 DEF IInv

(* Replicate and the calls to it move; the job does not.  No call starts.  *)
LEMMA JobStandsStill ==
    ASSUME IInv, CallsFit', UNCHANGED <<at, found, done, blame>>,
           \A c \in Calls : call'[c].at = "idle" <=> call[c].at = "idle",
           \A c \in Calls : IsUnderWay(c)' => IsUnderWay(c)
    PROVE  IInv'
<1>1. TypeOK'
  BY DEF IInv, TypeOK, CallsFit, found, done
<1>2. AwaitedTexts' = AwaitedTexts
  BY CallsExist DEF AwaitedTexts, done
<1>3. \A f \in Faces, k \in 1..2 : Awaits(f, k)' <=> Awaits(f, k)
  BY CallsExist DEF Awaits, done
<1>4. StageWaits'
  BY <1>2, <1>3 DEF IInv, StageWaits
<1>5. NotYetCalled'
  <2>1. 2 \in 1..2
    OBVIOUS
  <2> QED BY <2>1, CallsExist DEF IInv, NotYetCalled, done
<1>6. PlanFollowed'
  BY <1>2 DEF IInv, PlanFollowed, TextsLeft, FacesLeft, Planned, Has, found, done
<1>7. GateKept'
  <2>1. 2 \in 1..2
    OBVIOUS
  <2> QED BY <1>3, <2>1 DEF IInv, GateKept, done
<1>8. OptionalNeverFails' /\ (at' # "failed" => blame' = {})
  BY DEF IInv, OptionalNeverFails
<1> QED BY <1>1, <1>4, <1>5, <1>6, <1>7, <1>8 DEF IInv, CallsFit

LEMMA ProviderStep ==
    ASSUME IInv, NEW c \in Calls, Provider(c)
    PROVE  IInv'
<1>1. CallsTypeOK /\ CallKnows(c) /\ Progress(c)
  BY DEF IInv, TypeOK, Provider
<1>2. /\ CallsTypeOK' /\ IsUnderWay(c) /\ CallKnows(c)'
      /\ call'[c].at \in UnderWay \cup Over
      /\ \A d \in Calls \ {c} : call'[d] = call[d] /\ remote'[d] = remote[d]
  BY <1>1, ProgressShape
<1>3. \A d \in Calls : CallKnows(d)'
  BY <1>2 DEF IInv, CallKnows
<1>4. \A d \in Calls : call'[d].at = "idle" <=> call[d].at = "idle"
  BY <1>2 DEF IsUnderWay, UnderWay, Over, Unanswered
<1>5. \A d \in Calls : IsUnderWay(d)' => IsUnderWay(d)
  BY <1>2 DEF IsUnderWay
<1> QED BY <1>2, <1>3, <1>4, <1>5, JobStandsStill DEF Provider, CallsFit

LEMMA ReplicateStep ==
    ASSUME IInv, Replicate
    PROVE  IInv'
<1>1. PICK c \in Calls : Settle(c) /\ UNCHANGED <<at, found, done, blame>>
  BY DEF Replicate
<1>2. PICK status \in {"succeeded", "failed"} : remote' = [remote EXCEPT ![c] = status]
  BY <1>1 DEF Settle
<1>3. UNCHANGED call /\ remote[c] = "running"
  BY <1>1 DEF Settle
<1>4. CallsFit'
  BY <1>2, <1>3 DEF IInv, TypeOK, CallsFit, CallsTypeOK, Remote, CallKnows, Unanswered
<1> QED BY <1>1, <1>3, <1>4, JobStandsStill DEF IsUnderWay

-----------------------------------------------------------------------------
(* The stages.  Most of them leave the calls, or the regions, alone. *)

(* A step that leaves calls and regions alone keeps what it is said of     *)
(* them, if it goes from a stage that awaits nothing to another.           *)
Quiet == {"new", "analyzed", "captioned", "planned", "enhancing", "completed"}

LEMMA NothingUnderWay ==
    ASSUME IInv
    PROVE  /\ at \in Quiet => \A c \in Calls : ~IsUnderWay(c)
           /\ at \in Quiet \cup {"captioning", "upscaling"} =>
                 AwaitedTexts = {} /\ \A f \in Faces, k \in 1..2 : ~Awaits(f, k)
BY DEF IInv, StageWaits, Quiet

LEMMA QuietWaits ==
    ASSUME IInv, UNCHANGED <<call, done>>,
           \A c \in Calls : ~IsUnderWay(c),
           \/ at' = "failed"
           \/ AwaitedTexts = {} /\ \A f \in Faces, k \in 1..2 : ~Awaits(f, k)
    PROVE  StageWaits'
<1>1. AwaitedTexts' = AwaitedTexts
  BY CallsExist DEF AwaitedTexts, done
<1>2. \A f \in Faces, k \in 1..2 : Awaits(f, k)' <=> Awaits(f, k)
  BY CallsExist DEF Awaits, done
<1>3. \A c \in Calls : ~IsUnderWay(c)'
  BY DEF IsUnderWay
<1>4. at' = "failed" => at' \notin {"patching", "facing"}
  OBVIOUS
<1> QED BY <1>1, <1>2, <1>3, <1>4 DEF IInv, StageWaits

LEMMA QuietGate ==
    ASSUME IInv, UNCHANGED face, at # "facing", at \notin {"failed", "cut"}
    PROVE  GateKept'
BY DEF IInv, GateKept

LEMMA FailedStep ==
    ASSUME IInv, NEW c \in Calls, UNCHANGED <<call, remote, found, done>>,
           Fail({}) \/ (Fail({c}) /\ c \notin {Ocr} \cup {Patch(t) : t \in Texts}),
           \A d \in Calls : ~IsUnderWay(d)
    PROVE  IInv'
<1>1. CallsFit'
  BY CallsUntouched DEF IInv, TypeOK, CallsFit
<1>2. at' = "failed" /\ blame' \in SUBSET Calls /\ OptionalNeverFails'
  BY DEF Fail, OptionalNeverFails
<1>3. TypeOK'
  BY <1>1, <1>2 DEF IInv, TypeOK, CallsFit, found, done, Ended
<1>4. StageWaits'
  BY <1>2, QuietWaits
<1>5. NotYetCalled'
  BY <1>2 DEF IInv, NotYetCalled, done
<1>6. PlanFollowed'
  BY <1>2 DEF IInv, PlanFollowed, found, done
<1>7. GateKept'
  BY <1>2 DEF IInv, GateKept, done
<1> QED BY <1>1, <1>2, <1>3, <1>4, <1>5, <1>6, <1>7 DEF IInv, CallsFit

LEMMA AnalyzeStep ==
    ASSUME IInv, Analyze
    PROVE  IInv'
<1>1. CallsFit'
  BY CallsUntouched DEF IInv, TypeOK, CallsFit, Analyze
<1>2. at = "new" /\ at' = "analyzed" /\ UNCHANGED <<call, done, blame, said, plan, request>>
  BY DEF Analyze
<1>3. TypeOK'
  <2>1. context' \in [faces : SUBSET Faces, texts : SUBSET Texts]
    BY DEF Analyze
  <2> QED BY <1>1, <1>2, <2>1 DEF IInv, TypeOK, CallsFit, done
<1>4. StageWaits'
  BY <1>2, NothingUnderWay, QuietWaits DEF Quiet
<1>5. NotYetCalled'
  BY <1>2 DEF IInv, NotYetCalled, done
<1>6. PlanFollowed'
  <2>1. said' = {}
    BY <1>2 DEF IInv, PlanFollowed
  <2> QED BY <1>2, <2>1 DEF IInv, PlanFollowed, done
<1>7. GateKept'
  BY <1>2, QuietGate DEF done
<1>8. OptionalNeverFails' /\ blame' = {}
  BY <1>2 DEF IInv, OptionalNeverFails
<1> QED BY <1>1, <1>3, <1>4, <1>5, <1>6, <1>7, <1>8 DEF IInv, CallsFit

LEMMA StartCaptionerStep ==
    ASSUME IInv, StartCaptioner
    PROVE  IInv'
<1>0. at = "analyzed" /\ UNCHANGED <<remote, found, done>>
  BY DEF StartCaptioner
<1>1. CASE NotUploaded(Caption)
  <2>1. UNCHANGED call /\ Fail({Caption})
    BY <1>1 DEF NotUploaded
  <2>2. Caption \notin {Ocr} \cup {Patch(t) : t \in Texts}
    BY CallsDiffer
  <2> QED BY <1>0, <2>1, <2>2, NothingUnderWay, FailedStep, CallsExist DEF Quiet
<1>2. CASE ~NotUploaded(Caption)
  <2> DEFINE S == {Caption} \cup IF Has("protect_text") THEN {Ocr} ELSE {}
  <2>1. Begin(S) /\ at' = "captioning" /\ UNCHANGED blame
    BY <1>2 DEF StartCaptioner
  <2>2. S \in SUBSET Calls /\ \A c \in S : c \in {Caption, Ocr}
    BY CallsExist
  <2>3. \A c \in S : call[c].at = "idle"
    BY <1>0, <2>2 DEF IInv, NotYetCalled
  <2>4. CallsFit
    BY DEF IInv, TypeOK, CallsFit
  <2>5. CallsFit'
    BY <1>0, <2>1, <2>2, <2>3, <2>4, BeginFits
  <2>6. \A c \in Calls \ S : call'[c] = call[c]
    BY <2>1, <2>2, <2>4, BeginShape DEF CallsFit
  <2>7. TypeOK'
    BY <1>0, <2>1, <2>5 DEF IInv, TypeOK, CallsFit, found, done, Waiting
  <2>8. \A t \in Texts : call'[Patch(t)] = call[Patch(t)]
    BY <2>2, <2>6, CallsExist, CallsDiffer
  <2>9. \A f \in Faces, k \in 1..2 : call'[Pass(f, k)] = call[Pass(f, k)]
    BY <2>2, <2>6, CallsExist, CallsDiffer
  <2>10. AwaitedTexts' = {} /\ \A f \in Faces, k \in 1..2 : ~Awaits(f, k)'
    BY <1>0, <2>8, <2>9, NothingUnderWay DEF Quiet, AwaitedTexts, Awaits, done
  <2>11. StageWaits'
    <3>1. ASSUME NEW c \in Calls, IsUnderWay(c)' PROVE c \in {Caption, Ocr}
      <4>1. CASE c \notin S
        BY <1>0, <2>6, <3>1, <4>1, NothingUnderWay DEF IsUnderWay, Quiet
      <4> QED BY <2>2, <4>1
    <3> QED BY <2>1, <2>10, <3>1 DEF StageWaits
  <2>12. NotYetCalled'
    <3>1. call'[Upscale] = call[Upscale]
      BY <2>2, <2>6, CallsExist, CallsDiffer
    <3> QED BY <1>0, <2>1, <2>9, <3>1 DEF IInv, NotYetCalled, done
  <2>13. PlanFollowed'
    BY <1>0, <2>1 DEF IInv, PlanFollowed, found, done
  <2>14. GateKept'
    BY <1>0, QuietGate DEF done
  <2>15. OptionalNeverFails' /\ blame' = {}
    BY <1>0, <2>1 DEF IInv, OptionalNeverFails
  <2> QED BY <2>5, <2>7, <2>11, <2>12, <2>13, <2>14, <2>15 DEF IInv, CallsFit
<1> QED BY <1>1, <1>2

LEMMA CaptionerFailsStep ==
    ASSUME IInv, CaptionerFails
    PROVE  IInv'
<1>1. \A c \in Calls : ~IsUnderWay(c)
  BY DEF IInv, StageWaits, CaptionerFails
<1>2. Caption \in Calls /\ Caption \notin {Ocr} \cup {Patch(t) : t \in Texts}
  BY CallsDiffer, CallsExist
<1> QED BY <1>1, <1>2, FailedStep DEF CaptionerFails

LEMMA CaptionerEndsStep ==
    ASSUME IInv, CaptionerEnds
    PROVE  IInv'
<1>1. CallsFit'
  BY CallsUntouched DEF IInv, TypeOK, CallsFit, CaptionerEnds
<1>2. /\ at = "captioning" /\ at' = "captioned"
      /\ UNCHANGED <<call, remote, request, plan, done, blame>>
      /\ \A c \in Calls : ~IsUnderWay(c)
  BY DEF IInv, StageWaits, CaptionerEnds
<1>3. /\ context' \in [faces : SUBSET Faces, texts : SUBSET Texts]
      /\ said' \in SUBSET SUBSET Texts
      /\ said' \subseteq {context'.texts}
  <2>1. CASE UNCHANGED <<said, context>>
    BY <2>1 DEF IInv, TypeOK, PlanFollowed
  <2>2. ASSUME NEW T \in SUBSET Texts, said' = {T}, context' = [context EXCEPT !.texts = T]
        PROVE  <1>3
    BY <2>2 DEF IInv, TypeOK
  <2> QED BY <2>1, <2>2 DEF CaptionerEnds
<1>4. TypeOK'
  BY <1>1, <1>2, <1>3 DEF IInv, TypeOK, CallsFit, done
<1>5. StageWaits'
  BY <1>2, NothingUnderWay, QuietWaits
<1>6. NotYetCalled'
  BY <1>2 DEF IInv, NotYetCalled, done
<1>7. PlanFollowed'
  BY <1>2, <1>3 DEF IInv, PlanFollowed, done
<1>8. GateKept'
  BY <1>2, QuietGate DEF done
<1>9. OptionalNeverFails' /\ blame' = {}
  BY <1>2 DEF IInv, OptionalNeverFails
<1> QED BY <1>1, <1>4, <1>5, <1>6, <1>7, <1>8, <1>9 DEF IInv, CallsFit

LEMMA PlanStep ==
    ASSUME IInv, Plan
    PROVE  IInv'
<1>1. CallsFit'
  BY CallsUntouched DEF IInv, TypeOK, CallsFit, Plan
<1>2. /\ at = "captioned" /\ at' = "planned" /\ plan' = Planned
      /\ UNCHANGED <<call, remote, request, context, said, done, blame>>
  BY DEF Plan
<1>3. Planned \in [denoise : Nat, protect : SUBSET Texts, faces : SUBSET Faces]
  <2>1. request \in [preset : Presets, creativity : {Own} \cup 10..60]
    BY RegionsAssumption DEF IInv, TypeOK
  <2>2. Denoise(request) \in Nat
    BY <2>1 DEF Denoise, Presets, FacePreset, TextPreset, Own
  <2>3. context.faces \subseteq Faces /\ context.texts \subseteq Texts
    BY DEF IInv, TypeOK
  <2>4. RepairFaces(request, context.faces) \subseteq Faces
    BY <2>3 DEF RepairFaces
  <2> QED BY <2>2, <2>3, <2>4 DEF Planned
<1>4. TypeOK'
  BY <1>1, <1>2, <1>3 DEF IInv, TypeOK, CallsFit, done
<1>5. StageWaits'
  BY <1>2, NothingUnderWay, QuietWaits DEF Quiet
<1>6. NotYetCalled'
  BY <1>2 DEF IInv, NotYetCalled, done
<1>7. PlanFollowed'
  <2>1. Planned' = Planned
    BY <1>2 DEF Planned, Has
  <2> QED BY <1>2, <2>1 DEF IInv, PlanFollowed, done
<1>8. GateKept'
  BY <1>2, QuietGate DEF done
<1>9. OptionalNeverFails' /\ blame' = {}
  BY <1>2 DEF IInv, OptionalNeverFails
<1> QED BY <1>1, <1>4, <1>5, <1>6, <1>7, <1>8, <1>9 DEF IInv, CallsFit

(* One call is begun, and the stage waits for it. *)
LEMMA UploadedFits ==
    ASSUME IInv, NEW c \in Calls, NEW next, Uploaded(c, next), UNCHANGED remote,
           call[c].at = "idle"
    PROVE  /\ CallsFit'
           /\ at' = next /\ blame' = blame
           /\ call'[c].at = "creating"
           /\ \A d \in Calls \ {c} : call'[d] = call[d]
<1>1. {c} \in SUBSET Calls /\ Begin({c}) /\ CallsFit
  BY DEF Uploaded, IInv, TypeOK, CallsFit
<1>2. CallsFit'
  BY <1>1, BeginFits
<1>3. call'[c].at = "creating" /\ \A d \in Calls \ {c} : call'[d] = call[d]
  BY <1>1, BeginShape DEF CallsFit
<1> QED BY <1>2, <1>3 DEF Uploaded

LEMMA StartUpscalerStep ==
    ASSUME IInv, StartUpscaler
    PROVE  IInv'
<1>0. at = "planned" /\ UNCHANGED <<remote, found, done>>
  BY DEF StartUpscaler
<1>1. CASE NotUploaded(Upscale)
  <2>1. UNCHANGED call /\ Fail({Upscale})
    BY <1>1 DEF NotUploaded
  <2>2. Upscale \notin {Ocr} \cup {Patch(t) : t \in Texts}
    BY CallsDiffer
  <2> QED BY <1>0, <2>1, <2>2, NothingUnderWay, FailedStep, CallsExist DEF Quiet
<1>2. CASE Uploaded(Upscale, "upscaling")
  <2>1. Upscale \in Calls /\ call[Upscale].at = "idle"
    BY <1>0, CallsExist DEF IInv, NotYetCalled
  <2>2. /\ CallsFit' /\ at' = "upscaling" /\ blame' = blame
        /\ \A d \in Calls \ {Upscale} : call'[d] = call[d]
    BY <1>0, <1>2, <2>1, UploadedFits
  <2>3. TypeOK'
    BY <1>0, <2>2 DEF IInv, TypeOK, CallsFit, found, done, Waiting
  <2>4. \A t \in Texts : call'[Patch(t)] = call[Patch(t)]
    BY <2>2, CallsExist, CallsDiffer
  <2>5. \A f \in Faces, k \in 1..2 : call'[Pass(f, k)] = call[Pass(f, k)]
    BY <2>2, CallsExist, CallsDiffer
  <2>6. AwaitedTexts' = {} /\ \A f \in Faces, k \in 1..2 : ~Awaits(f, k)'
    BY <1>0, <2>4, <2>5, NothingUnderWay DEF Quiet, AwaitedTexts, Awaits, done
  <2>7. \A c \in Calls : IsUnderWay(c)' => c = Upscale
    BY <1>0, <2>2, NothingUnderWay DEF IsUnderWay, Quiet
  <2>8. StageWaits'
    BY <2>2, <2>6, <2>7 DEF StageWaits
  <2>9. NotYetCalled'
    BY <1>0, <2>2, <2>5 DEF IInv, NotYetCalled, done
  <2>10. PlanFollowed'
    BY <1>0, <2>2 DEF IInv, PlanFollowed, Planned, Has, found, done
  <2>11. GateKept'
    BY <1>0, QuietGate DEF done
  <2>12. OptionalNeverFails' /\ blame' = {}
    BY <1>0, <2>2 DEF IInv, OptionalNeverFails
  <2> QED BY <2>2, <2>3, <2>8, <2>9, <2>10, <2>11, <2>12 DEF IInv, CallsFit
<1> QED BY <1>1, <1>2 DEF StartUpscaler

LEMMA UpscalerEndsStep ==
    ASSUME IInv, UpscalerEnds
    PROVE  IInv'
<1>0. /\ at = "upscaling" /\ UNCHANGED <<call, remote, found, done>>
      /\ \A c \in Calls : ~IsUnderWay(c)
  BY DEF IInv, StageWaits, UpscalerEnds, IsOver, IsUnderWay, Over, UnderWay, Unanswered
<1>1. CASE Fail({Upscale})
  <2>1. Upscale \in Calls /\ Upscale \notin {Ocr} \cup {Patch(t) : t \in Texts}
    BY CallsDiffer, CallsExist
  <2> QED BY <1>0, <1>1, <2>1, FailedStep
<1>2. CASE at' = "enhancing" /\ UNCHANGED blame
  <2>1. CallsFit'
    BY <1>0, CallsUntouched DEF IInv, TypeOK, CallsFit
  <2>2. TypeOK'
    BY <1>0, <1>2, <2>1 DEF IInv, TypeOK, CallsFit, found, done
  <2>3. StageWaits'
    BY <1>0, <1>2, NothingUnderWay, QuietWaits
  <2>4. NotYetCalled'
    BY <1>0, <1>2 DEF IInv, NotYetCalled, done
  <2>5. PlanFollowed'
    BY <1>0, <1>2 DEF IInv, PlanFollowed, Planned, Has, found, done
  <2>6. GateKept'
    BY <1>0, QuietGate DEF done
  <2>7. OptionalNeverFails' /\ blame' = {}
    BY <1>0, <1>2 DEF IInv, OptionalNeverFails
  <2> QED BY <2>1, <2>2, <2>3, <2>4, <2>5, <2>6, <2>7 DEF IInv, CallsFit
<1> QED BY <1>1, <1>2 DEF UpscalerEnds

-----------------------------------------------------------------------------
(* The regions, one at a time. *)

LEMMA StartPatchStep ==
    ASSUME IInv, NEW t \in Texts, StartPatch(t)
    PROVE  IInv'
<1>0. /\ at = "enhancing" /\ t \in plan.protect /\ patch[t] = "none"
      /\ UNCHANGED <<remote, found, face>>
      /\ AwaitedTexts = {}
      /\ \A f \in Faces, k \in 1..2 : ~Awaits(f, k)
      /\ \A c \in Calls : ~IsUnderWay(c)
  BY NothingUnderWay DEF StartPatch, TextsLeft, Quiet
<1>1. Patch(t) \in Calls /\ call[Patch(t)].at = "idle"
  BY <1>0, CallsExist DEF AwaitedTexts
<1>2. CASE Uploaded(Patch(t), "patching") /\ UNCHANGED patch
  <2>1. /\ CallsFit' /\ at' = "patching" /\ blame' = blame
        /\ call'[Patch(t)].at = "creating"
        /\ \A d \in Calls \ {Patch(t)} : call'[d] = call[d]
    BY <1>0, <1>1, <1>2, UploadedFits
  <2>2. TypeOK'
    BY <1>0, <1>2, <2>1 DEF IInv, TypeOK, CallsFit, found, Waiting
  <2>3. \A s \in Texts \ {t} : call'[Patch(s)] = call[Patch(s)]
    BY <2>1, CallsExist, CallsDiffer
  <2>4. \A f \in Faces, k \in 1..2 : call'[Pass(f, k)] = call[Pass(f, k)]
    BY <2>1, CallsExist, CallsDiffer
  <2>5. AwaitedTexts' = {t}
    BY <1>0, <1>2, <2>1, <2>3 DEF AwaitedTexts
  <2>6. \A f \in Faces, k \in 1..2 : ~Awaits(f, k)'
    BY <1>0, <2>4 DEF Awaits
  <2>7. \A c \in Calls : IsUnderWay(c)' => c = Patch(t)
    BY <1>0, <2>1 DEF IsUnderWay
  <2>8. StageWaits'
    BY <2>1, <2>5, <2>6, <2>7 DEF StageWaits
  <2>9. NotYetCalled'
    BY <1>0, <2>1, <2>4 DEF IInv, NotYetCalled
  <2>10. PlanFollowed'
    BY <1>0, <1>2, <2>1, <2>5 DEF IInv, PlanFollowed, Planned, Has, found
  <2>11. GateKept'
    BY <1>0, QuietGate
  <2>12. OptionalNeverFails' /\ blame' = {}
    BY <1>0, <2>1 DEF IInv, OptionalNeverFails
  <2> QED BY <2>1, <2>2, <2>8, <2>9, <2>10, <2>11, <2>12 DEF IInv, CallsFit
<1>3. CASE Composite(t, "lanczos") /\ UNCHANGED <<call, at, blame>>
  <2>1. CallsFit'
    BY <1>0, <1>3, CallsUntouched DEF IInv, TypeOK, CallsFit
  <2>2. /\ patch' \in [Texts -> {"none", "upscaled", "lanczos"}]
        /\ \A s \in Texts : patch'[s] = IF s = t THEN "lanczos" ELSE patch[s]
    BY <1>3 DEF IInv, TypeOK, Composite
  <2>3. TypeOK'
    BY <1>0, <1>3, <2>1, <2>2 DEF IInv, TypeOK, CallsFit, found
  <2>4. AwaitedTexts' = {}
    BY <1>0, <1>3, <2>2 DEF AwaitedTexts
  <2>5. \A f \in Faces, k \in 1..2 : ~Awaits(f, k)'
    BY <1>0, <1>3 DEF Awaits
  <2>6. \A c \in Calls : ~IsUnderWay(c)'
    BY <1>0, <1>3 DEF IsUnderWay
  <2>7. StageWaits'
    BY <2>4, <2>5, <2>6 DEF StageWaits
  <2>8. NotYetCalled'
    BY <1>0, <1>3 DEF IInv, NotYetCalled
  <2>9. PlanFollowed'
    BY <1>0, <1>3, <2>2 DEF IInv, PlanFollowed, Planned, Has, found
  <2>10. GateKept'
    BY <1>0, QuietGate
  <2>11. OptionalNeverFails' /\ blame' = {}
    BY <1>0, <1>3 DEF IInv, OptionalNeverFails
  <2> QED BY <2>1, <2>3, <2>7, <2>8, <2>9, <2>10, <2>11 DEF IInv, CallsFit
<1> QED BY <1>2, <1>3 DEF StartPatch

LEMMA PatchEndsStep ==
    ASSUME IInv, NEW t \in Texts, PatchEnds(t)
    PROVE  IInv'
<1>0. /\ at = "patching" /\ at' = "enhancing" /\ IsOver(Patch(t)) /\ patch[t] = "none"
      /\ UNCHANGED <<call, remote, found, face, blame>>
  BY DEF PatchEnds
<1>1. AwaitedTexts = {t}
  <2>1. t \in AwaitedTexts
    BY <1>0 DEF AwaitedTexts, IsOver, Over, Unanswered
  <2> QED BY <2>1 DEF IInv, StageWaits
<1>2. \A c \in Calls : ~IsUnderWay(c)
  BY <1>0, <1>1 DEF IInv, StageWaits, IsOver, IsUnderWay, Over, UnderWay, Unanswered
<1>3. PICK how \in {"upscaled", "lanczos"} : Composite(t, how)
  BY DEF PatchEnds
<1>4. /\ patch' \in [Texts -> {"none", "upscaled", "lanczos"}]
      /\ \A s \in Texts : patch'[s] = IF s = t THEN how ELSE patch[s]
  BY <1>3 DEF IInv, TypeOK, Composite
<1>5. t \in plan.protect
  BY <1>0, <1>1 DEF IInv, PlanFollowed
<1>6. CallsFit'
  BY <1>0, CallsUntouched DEF IInv, TypeOK, CallsFit
<1>7. TypeOK'
  BY <1>0, <1>4, <1>6 DEF IInv, TypeOK, CallsFit, found
<1>8. AwaitedTexts' = {}
  BY <1>0, <1>1, <1>4 DEF AwaitedTexts
<1>9. \A f \in Faces, k \in 1..2 : ~Awaits(f, k)'
  BY <1>0 DEF IInv, StageWaits, Awaits
<1>10. StageWaits'
  BY <1>0, <1>2, <1>8, <1>9 DEF StageWaits, IsUnderWay
<1>11. NotYetCalled'
  BY <1>0 DEF IInv, NotYetCalled
<1>12. PlanFollowed'
  BY <1>0, <1>4, <1>5 DEF IInv, PlanFollowed, Planned, Has, found
<1>13. GateKept'
  BY <1>0, QuietGate
<1>14. OptionalNeverFails' /\ blame' = {}
  BY <1>0 DEF IInv, OptionalNeverFails
<1> QED BY <1>6, <1>7, <1>10, <1>11, <1>12, <1>13, <1>14 DEF IInv, CallsFit

LEMMA StartFaceStep ==
    ASSUME IInv, NEW f \in Faces, StartFace(f)
    PROVE  IInv'
<1>0. /\ at = "enhancing" /\ f \in plan.faces /\ face[f].passes = 0
      /\ TextsLeft = {}
      /\ UNCHANGED <<remote, found, done>>
      /\ AwaitedTexts = {}
      /\ \A g \in Faces, k \in 1..2 : ~Awaits(g, k)
      /\ \A c \in Calls : ~IsUnderWay(c)
  BY NothingUnderWay DEF StartFace, FacesLeft, Quiet
<1>1. 1 \in 1..2 /\ 2 \in 1..2 /\ 1 # 2 /\ 1 - 1 = 0 /\ 2 - 1 = 1
  OBVIOUS
<1>2. Pass(f, 1) \in Calls /\ call[Pass(f, 1)].at = "idle"
  BY <1>0, <1>1, CallsExist DEF Awaits
<1>3. CASE NotUploaded(Pass(f, 1))
  <2>1. UNCHANGED call /\ Fail({Pass(f, 1)})
    BY <1>3 DEF NotUploaded
  <2>2. Pass(f, 1) \notin {Ocr} \cup {Patch(t) : t \in Texts}
    BY CallsDiffer
  <2> QED BY <1>0, <1>2, <2>1, <2>2, FailedStep
<1>4. CASE Uploaded(Pass(f, 1), "facing")
  <2>1. /\ CallsFit' /\ at' = "facing" /\ blame' = blame
        /\ call'[Pass(f, 1)].at = "creating"
        /\ \A d \in Calls \ {Pass(f, 1)} : call'[d] = call[d]
    BY <1>0, <1>2, <1>4, UploadedFits
  <2>2. TypeOK'
    BY <1>0, <2>1 DEF IInv, TypeOK, CallsFit, found, done, Waiting
  <2>3. \A t \in Texts : call'[Patch(t)] = call[Patch(t)]
    BY <2>1, CallsExist, CallsDiffer
  <2>4. \A g \in Faces, k \in 1..2 : <<g, k>> # <<f, 1>> => call'[Pass(g, k)] = call[Pass(g, k)]
    BY <2>1, CallsExist, CallsDiffer
  <2>5. AwaitedTexts' = {}
    BY <1>0, <2>3 DEF AwaitedTexts, done
  <2>6. \A g \in Faces, k \in 1..2 : Awaits(g, k)' <=> g = f /\ k = 1
    <3>1. TAKE g \in Faces, k \in 1..2
    <3>2. CASE g = f /\ k = 1
      BY <1>0, <1>1, <2>1, <3>2 DEF Awaits, done
    <3>3. CASE ~(g = f /\ k = 1)
      BY <1>0, <2>4, <3>3 DEF Awaits, done
    <3> QED BY <3>2, <3>3
  <2>7. \A c \in Calls : IsUnderWay(c)' => c = Pass(f, 1)
    BY <1>0, <2>1 DEF IsUnderWay
  <2>8. StageWaits'
    BY <1>1, <2>1, <2>5, <2>6, <2>7 DEF StageWaits
  <2>9. NotYetCalled'
    BY <1>0, <1>1, <2>1, <2>4 DEF IInv, NotYetCalled, done
  <2>10. PlanFollowed'
    BY <1>0, <2>1 DEF IInv, PlanFollowed, Planned, Has, TextsLeft, found, done
  <2>11. GateKept'
    BY <1>0, QuietGate DEF done
  <2>12. OptionalNeverFails' /\ blame' = {}
    BY <1>0, <2>1 DEF IInv, OptionalNeverFails
  <2> QED BY <2>1, <2>2, <2>8, <2>9, <2>10, <2>11, <2>12 DEF IInv, CallsFit
<1> QED BY <1>3, <1>4 DEF StartFace

(* What is kept is never below what was measured. *)
LEMMA BetterKept ==
    ASSUME NEW old \in Measures, NEW S \in Measures, NEW M \in SUBSET Similarities,
           ~Below(old, M)
    PROVE  /\ Better(old, S) \in Measures
           /\ ~Below(Better(old, S), M \cup S)
<1>1. \A s \in Similarities : s \in Nat
  BY RegionsAssumption
<1>2. CASE Below(old, S)
  <2>1. PICK s \in old, t \in S : s < t
    BY <1>2 DEF Below
  <2>2. old = {s} /\ S = {t} /\ s \in Similarities /\ t \in Similarities
    BY <2>1 DEF Measures
  <2>3. \A u \in M : ~(s < u)
    BY <2>2 DEF Below
  <2>4. \A u \in M \cup S : ~(t < u)
    BY <1>1, <2>1, <2>2, <2>3
  <2> QED BY <1>2, <2>2, <2>4 DEF Better, Below
<1>3. CASE ~Below(old, S)
  BY <1>3 DEF Better, Below
<1> QED BY <1>2, <1>3

LEMMA PassEndsStep ==
    ASSUME IInv, NEW f \in Faces, NEW k \in 1..2, PassEnds(f, k)
    PROVE  IInv'
<1>0. /\ at = "facing" /\ IsOver(Pass(f, k)) /\ face[f].passes = k - 1
      /\ UNCHANGED <<remote, found, patch>>
  BY DEF PassEnds
<1>1. 1 \in 1..2 /\ 2 \in 1..2 /\ k \in {1, 2} /\ 1 - 1 = 0 /\ 2 - 1 = 1
  OBVIOUS
<1>2. Awaits(f, k) /\ \A g \in Faces, l \in 1..2 : Awaits(g, l) => g = f /\ l = k
  <2>1. Awaits(f, k)
    BY <1>0 DEF Awaits, IsOver, Over, Unanswered
  <2> QED BY <2>1 DEF IInv, StageWaits
<1>3. AwaitedTexts = {} /\ \A c \in Calls : ~IsUnderWay(c)
  <2>1. AwaitedTexts = {}
    BY <1>0 DEF IInv, StageWaits
  <2>2. ASSUME NEW c \in Calls, IsUnderWay(c) PROVE FALSE
    <3>1. PICK g \in Faces, l \in 1..2 : Awaits(g, l) /\ c = Pass(g, l)
      BY <1>0, <2>2 DEF IInv, StageWaits
    <3>2. c = Pass(f, k)
      BY <1>2, <3>1
    <3> QED BY <1>0, <2>2, <3>2 DEF IsOver, IsUnderWay, Over, UnderWay, Unanswered
  <2> QED BY <2>1, <2>2
<1>4. CASE Fail({Pass(f, k)}) /\ UNCHANGED <<call, face>>
  <2>1. Pass(f, k) \in Calls /\ Pass(f, k) \notin {Ocr} \cup {Patch(t) : t \in Texts}
    BY CallsDiffer, CallsExist
  <2> QED BY <1>0, <1>3, <1>4, <2>1, FailedStep DEF done
<1>5. ASSUME NEW S \in Measures,
             face' = [face EXCEPT ![f] =
                 [passes |-> k,
                  kept |-> IF k = 1 THEN S ELSE Better(@.kept, S),
                  measured |-> @.measured \cup S]],
             IF k = 1 /\ Drifted(S)
             THEN Uploaded(Pass(f, 2), "facing") \/ NotUploaded(Pass(f, 2))
             ELSE at' = "enhancing" /\ UNCHANGED <<call, blame>>
      PROVE  IInv'
  <2>0. /\ face \in [Faces -> [passes : 0..2, kept : Measures, measured : SUBSET Similarities]]
        /\ ~Below(face[f].kept, face[f].measured)
        /\ k = 1 => face[f] = Untouched
    BY <1>0, <1>1 DEF IInv, TypeOK, GateKept
  <2> DEFINE kept == IF k = 1 THEN S ELSE Better(face[f].kept, S)
             measured == face[f].measured \cup S
  <2>1. kept \in Measures /\ measured \in SUBSET Similarities /\ ~Below(kept, measured)
    <3>1. S \in SUBSET Similarities
      BY DEF Measures
    <3>2. CASE k = 1
      <4>1. kept = S /\ measured = S
        BY <2>0, <3>2 DEF Untouched
      <4>2. ~Below(S, S)
        BY RegionsAssumption DEF Measures, Below
      <4> QED BY <3>1, <4>1, <4>2
    <3>3. CASE k # 1
      BY <2>0, <3>1, <3>3, BetterKept
    <3> QED BY <3>2, <3>3
  <2>2. /\ face' \in [Faces -> [passes : 0..2, kept : Measures, measured : SUBSET Similarities]]
        /\ face'[f] = [passes |-> k, kept |-> kept, measured |-> measured]
        /\ \A g \in Faces \ {f} : face'[g] = face[g]
    <3>1. [passes |-> k, kept |-> kept, measured |-> measured]
             \in [passes : 0..2, kept : Measures, measured : SUBSET Similarities]
      BY <2>1
    <3>2. face' = [face EXCEPT ![f] = [passes |-> k, kept |-> kept, measured |-> measured]]
      BY <1>5
    <3> HIDE DEF kept, measured
    <3> QED BY <2>0, <3>1, <3>2
  <2>3. /\ face'[f].passes = k /\ face'[f].kept = kept /\ face'[f].measured = measured
    BY <2>2
  <2> HIDE DEF kept, measured
  <2>4. \A g \in Faces : ~Below(face[g].kept, face[g].measured)'
    BY <2>1, <2>2, <2>3 DEF IInv, GateKept
  <2>5. \A g \in Faces : face'[g].passes = 0 => g # f /\ face'[g] = face[g]
    BY <1>1, <2>2, <2>3
  <2>6. \A g \in Faces \ {f} : Drifted(face[g].kept)' => face'[g].passes = 2
    BY <1>0, <1>1, <1>2, <2>2 DEF IInv, GateKept
  <2>7. \A g \in Faces, l \in 1..2 : g # f /\ call' = call => ~Awaits(g, l)'
    BY <1>2, <2>2 DEF Awaits
  <2>8. CASE k = 1 /\ Drifted(S) /\ Uploaded(Pass(f, 2), "facing")
    <3>1. Pass(f, 2) \in Calls /\ call[Pass(f, 2)].at = "idle"
      BY <1>0, <1>1, <2>8, CallsExist DEF IInv, NotYetCalled
    <3>2. /\ CallsFit' /\ at' = "facing" /\ blame' = blame
          /\ call'[Pass(f, 2)].at = "creating"
          /\ \A d \in Calls \ {Pass(f, 2)} : call'[d] = call[d]
      BY <1>0, <2>8, <3>1, UploadedFits
    <3>3. TypeOK'
      BY <1>0, <2>2, <3>2 DEF IInv, TypeOK, CallsFit, found, Waiting
    <3>4. \A t \in Texts : call'[Patch(t)] = call[Patch(t)]
      BY <3>2, CallsExist, CallsDiffer
    <3>5. \A g \in Faces, l \in 1..2 : <<g, l>> # <<f, 2>> => call'[Pass(g, l)] = call[Pass(g, l)]
      BY <3>2, CallsExist, CallsDiffer
    <3>6. AwaitedTexts' = {}
      BY <1>0, <1>3, <3>4 DEF AwaitedTexts
    <3>7. \A g \in Faces, l \in 1..2 : Awaits(g, l)' <=> g = f /\ l = 2
      <4>1. TAKE g \in Faces, l \in 1..2
      <4>2. CASE g = f /\ l = 2
        BY <1>1, <2>3, <2>8, <3>2, <4>2 DEF Awaits
      <4>3. CASE g = f /\ l = 1
        BY <1>1, <2>3, <2>8, <4>3 DEF Awaits
      <4>4. CASE g # f
        BY <1>2, <2>2, <3>5, <4>4 DEF Awaits
      <4> QED BY <4>2, <4>3, <4>4
    <3>8. \A c \in Calls : IsUnderWay(c)' => c = Pass(f, 2)
      BY <1>3, <3>2 DEF IsUnderWay
    <3>9. StageWaits'
      BY <1>1, <3>2, <3>6, <3>7, <3>8 DEF StageWaits
    <3>10. NotYetCalled'
      BY <1>0, <1>1, <2>5, <3>2, <3>5 DEF IInv, NotYetCalled
    <3>11. PlanFollowed'
      BY <1>0, <3>2 DEF IInv, PlanFollowed, Planned, Has, TextsLeft, found
    <3>12. GateKept'
      BY <1>1, <2>4, <2>5, <2>6, <3>2, <3>7 DEF IInv, GateKept
    <3>13. OptionalNeverFails' /\ blame' = {}
      BY <1>0, <3>2 DEF IInv, OptionalNeverFails
    <3> QED BY <3>2, <3>3, <3>9, <3>10, <3>11, <3>12, <3>13 DEF IInv, CallsFit
  <2>9. CASE k = 1 /\ Drifted(S) /\ NotUploaded(Pass(f, 2))
    <3>1. at' = "failed" /\ blame' = {Pass(f, 2)} /\ UNCHANGED call
      BY <2>9 DEF NotUploaded, Fail
    <3>2. Pass(f, 2) \in Calls /\ Pass(f, 2) \notin {Ocr} \cup {Patch(t) : t \in Texts}
      BY <1>1, CallsDiffer, CallsExist
    <3>3. CallsFit'
      BY <1>0, <3>1, CallsUntouched DEF IInv, TypeOK, CallsFit
    <3>4. TypeOK'
      BY <1>0, <2>2, <3>1, <3>2, <3>3 DEF IInv, TypeOK, CallsFit, found, Ended
    <3>5. OptionalNeverFails' /\ (at' # "failed" => blame' = {})
      BY <3>1, <3>2 DEF OptionalNeverFails
    <3>6. AwaitedTexts' = {}
      BY <1>0, <1>3, <3>1 DEF AwaitedTexts
    <3>7. \A g \in Faces, l \in 1..2 : ~Awaits(g, l)'
      <4>1. TAKE g \in Faces, l \in 1..2
      <4>2. CASE g = f /\ l = 2
        BY <1>0, <1>1, <2>9, <3>1, <4>2 DEF IInv, NotYetCalled, Awaits
      <4>3. CASE g = f /\ l = 1
        BY <1>1, <2>3, <2>9, <4>3 DEF Awaits
      <4>4. CASE g # f
        BY <2>7, <3>1, <4>4
      <4> QED BY <4>2, <4>3, <4>4
    <3>8. StageWaits'
      BY <1>3, <3>1, <3>6, <3>7 DEF StageWaits, IsUnderWay
    <3>9. NotYetCalled'
      BY <2>5, <3>1 DEF IInv, NotYetCalled
    <3>10. PlanFollowed'
      BY <1>0, <3>1 DEF IInv, PlanFollowed, found
    <3>11. GateKept'
      BY <2>4, <2>5, <3>1 DEF IInv, GateKept
    <3> QED BY <3>3, <3>4, <3>5, <3>8, <3>9, <3>10, <3>11 DEF IInv, CallsFit
  <2>10. CASE ~(k = 1 /\ Drifted(S))
    <3>1. at' = "enhancing" /\ UNCHANGED <<call, blame>>
      BY <1>5, <2>10
    <3>2. CallsFit'
      BY <1>0, <3>1, CallsUntouched DEF IInv, TypeOK, CallsFit
    <3>3. TypeOK'
      BY <1>0, <2>2, <3>1, <3>2 DEF IInv, TypeOK, CallsFit, found
    <3>4. AwaitedTexts' = {}
      BY <1>0, <1>3, <3>1 DEF AwaitedTexts
    <3>5. \A g \in Faces, l \in 1..2 : ~Awaits(g, l)'
      <4>1. TAKE g \in Faces, l \in 1..2
      <4>2. CASE g = f /\ k = 1 /\ l = 2
        BY <1>0, <1>1, <3>1, <4>2 DEF IInv, NotYetCalled, Awaits
      <4>3. CASE g = f /\ ~(k = 1 /\ l = 2)
        BY <1>1, <2>3, <4>3 DEF Awaits
      <4>4. CASE g # f
        BY <2>7, <3>1, <4>4
      <4> QED BY <4>2, <4>3, <4>4
    <3>6. StageWaits'
      BY <1>3, <3>1, <3>4, <3>5 DEF StageWaits, IsUnderWay
    <3>7. NotYetCalled'
      BY <2>5, <3>1 DEF IInv, NotYetCalled
    <3>8. PlanFollowed'
      BY <1>0, <3>1 DEF IInv, PlanFollowed, Planned, Has, found
    <3>9. Drifted(face[f].kept)' => face'[f].passes = 2
      <4>1. CASE k = 1
        BY <2>3, <2>10, <4>1 DEF kept, Drifted
      <4> QED BY <1>1, <2>3, <4>1
    <3>10. GateKept'
      BY <2>4, <2>5, <2>6, <3>1, <3>9 DEF IInv, GateKept
    <3>11. OptionalNeverFails' /\ blame' = {}
      BY <1>0, <3>1 DEF IInv, OptionalNeverFails
    <3> QED BY <3>2, <3>3, <3>6, <3>7, <3>8, <3>10, <3>11 DEF IInv, CallsFit
  <2> QED BY <1>5, <2>8, <2>9, <2>10
<1> QED BY <1>4, <1>5 DEF PassEnds

LEMMA ExportStep ==
    ASSUME IInv, Export
    PROVE  IInv'
<1>1. /\ at = "enhancing" /\ at' = "completed" /\ TextsLeft = {} /\ FacesLeft = {}
      /\ UNCHANGED <<call, remote, found, done, blame>>
  BY DEF Export
<1>2. CallsFit'
  BY <1>1, CallsUntouched DEF IInv, TypeOK, CallsFit
<1>3. TypeOK'
  BY <1>1, <1>2 DEF IInv, TypeOK, CallsFit, found, done, Ended
<1>4. StageWaits'
  BY <1>1, NothingUnderWay, QuietWaits DEF Quiet
<1>5. NotYetCalled'
  BY <1>1 DEF IInv, NotYetCalled, done
<1>6. PlanFollowed'
  BY <1>1 DEF IInv, PlanFollowed, TextsLeft, FacesLeft, Planned, Has, found, done
<1>7. GateKept'
  BY <1>1, QuietGate DEF done
<1>8. OptionalNeverFails' /\ blame' = {}
  BY <1>1 DEF IInv, OptionalNeverFails
<1> QED BY <1>1, <1>2, <1>3, <1>4, <1>5, <1>6, <1>7, <1>8 DEF IInv, CallsFit

LEMMA BreaksStep ==
    ASSUME IInv, Breaks
    PROVE  IInv'
<1>1. Fail({}) /\ UNCHANGED <<call, remote, found, done>> /\ \A c \in Calls : ~IsUnderWay(c)
  BY NothingUnderWay DEF Breaks, Quiet
<1>2. ASSUME NEW c \in Calls PROVE IInv'
  <2>1. Fail({}) \/ (Fail({c}) /\ c \notin {Ocr} \cup {Patch(t) : t \in Texts})
    BY <1>1
  <2> QED BY <1>1, <2>1, FailedStep
<1> QED BY <1>2, CallsExist

(* Calls that are under way end; no stage looks at them any more. *)
LEMMA CutStep ==
    ASSUME IInv, Cut
    PROVE  IInv'
<1>0. /\ at' = "cut" /\ at # "failed" /\ CallsCut /\ UNCHANGED <<found, done, blame>>
  BY DEF Cut, Ended
<1>1. PICK S \in SUBSET {c \in Calls : call[c].at = "creating"} :
        remote' = [c \in Calls |-> IF c \in S THEN "running" ELSE remote[c]]
  BY <1>0 DEF CallsCut
<1>2. \A c \in Calls :
        call'[c] = IF IsUnderWay(c) THEN [Idle EXCEPT !.at = "cut"] ELSE call[c]
  BY <1>0 DEF CallsCut
<1>3. [Idle EXCEPT !.at = "cut"] \in Call /\ [Idle EXCEPT !.at = "cut"].at = "cut"
  BY CallTypes DEF Over, Unanswered
<1>4. CallsTypeOK'
  <2>1. call' \in [Calls -> Call]
    BY <1>0, <1>3 DEF CallsCut, IInv, TypeOK, CallsTypeOK
  <2>2. remote' \in [Calls -> Remote]
    BY <1>1 DEF IInv, TypeOK, CallsTypeOK, Remote
  <2> QED BY <2>1, <2>2 DEF CallsTypeOK
<1>5. ASSUME NEW c \in Calls
      PROVE  CallKnows(c)' /\ ~IsUnderWay(c)' /\ (call'[c].at = "idle" <=> call[c].at = "idle")
  <2>1. CallKnows(c)
    BY DEF IInv
  <2>2. CASE IsUnderWay(c)
    BY <1>2, <1>3, <2>2 DEF CallKnows, IsUnderWay, UnderWay, Unanswered
  <2>3. CASE ~IsUnderWay(c)
    <3>1. call'[c] = call[c] /\ remote'[c] = remote[c]
      BY <1>1, <1>2, <2>3 DEF IsUnderWay, UnderWay
    <3> QED BY <2>1, <2>3, <3>1 DEF CallKnows, IsUnderWay
  <2> QED BY <2>2, <2>3
<1>6. TypeOK'
  BY <1>0, <1>4 DEF IInv, TypeOK, found, done, Ended
<1>7. AwaitedTexts' = AwaitedTexts
  BY <1>0, <1>5, CallsExist DEF AwaitedTexts, done
<1>8. \A f \in Faces, k \in 1..2 : Awaits(f, k)' <=> Awaits(f, k)
  BY <1>0, <1>5, CallsExist DEF Awaits, done
<1>9. StageWaits'
  BY <1>0, <1>5, <1>7, <1>8 DEF IInv, StageWaits
<1>10. NotYetCalled'
  <2>1. 2 \in 1..2
    OBVIOUS
  <2> QED BY <1>0, <1>5, <2>1, CallsExist DEF IInv, NotYetCalled, done
<1>11. PlanFollowed'
  BY <1>0 DEF IInv, PlanFollowed, found, done
<1>12. GateKept'
  BY <1>0 DEF IInv, GateKept, done
<1>13. OptionalNeverFails' /\ (at' # "failed" => blame' = {})
  BY <1>0 DEF IInv, OptionalNeverFails
<1> QED BY <1>4, <1>5, <1>6, <1>9, <1>10, <1>11, <1>12, <1>13 DEF IInv

-----------------------------------------------------------------------------
LEMMA StageStep ==
    ASSUME IInv, Stage
    PROVE  IInv'
<1>1. CASE \/ Analyze \/ StartCaptioner \/ CaptionerFails \/ CaptionerEnds \/ Plan
           \/ StartUpscaler \/ UpscalerEnds \/ Export \/ Breaks
  BY <1>1, AnalyzeStep, StartCaptionerStep, CaptionerFailsStep, CaptionerEndsStep, PlanStep,
     StartUpscalerStep, UpscalerEndsStep, ExportStep, BreaksStep
<1>2. CASE \E t \in Texts : StartPatch(t) \/ PatchEnds(t)
  BY <1>2, StartPatchStep, PatchEndsStep
<1>3. CASE \E f \in Faces : StartFace(f) \/ \E k \in 1..2 : PassEnds(f, k)
  BY <1>3, StartFaceStep, PassEndsStep
<1> QED BY <1>1, <1>2, <1>3 DEF Stage

LEMMA Stutter ==
    ASSUME IInv, UNCHANGED vars
    PROVE  IInv'
<1>1. UNCHANGED <<call, remote, at, found, done, blame>>
  BY DEF vars
<1>2. CallsFit'
  BY <1>1, CallsUntouched DEF IInv, TypeOK, CallsFit
<1> QED BY <1>1, <1>2, JobStandsStill DEF IsUnderWay

(* Calls belong to the stage that awaits them, stages follow the plan, and *)
(* the identity gate keeps the best: all the others follow from it.        *)
THEOREM Inductive == Spec => []IInv
<1>1. IInv /\ [Next]_vars => IInv'
  <2> SUFFICES ASSUME IInv, [Next]_vars PROVE IInv'
    OBVIOUS
  <2>1. CASE Stage
    BY <2>1, StageStep
  <2>2. CASE Cut
    BY <2>2, CutStep
  <2>3. CASE Replicate
    BY <2>3, ReplicateStep
  <2>4. CASE \E c \in Calls : Provider(c)
    BY <2>4, ProviderStep
  <2>5. CASE UNCHANGED vars
    BY <2>5, Stutter
  <2> QED BY <2>1, <2>2, <2>3, <2>4, <2>5 DEF Next
<1> QED BY <1>1, InitIInv, PTL DEF Spec

(* Calls, regions and stages keep their types. *)
THEOREM TypeCorrect == Spec => []TypeOK
<1>1. IInv => TypeOK
  BY DEF IInv
<1> QED BY <1>1, Inductive, PTL

(* Whatever Replicate does with whichever calls, and wherever the job ends *)
(* or is cut, a prediction is left running only where Replicate gave no    *)
(* answer or nobody was alive to ask.                                      *)
THEOREM LeavesNothingRunning == Spec => []UnwatchedForCause
<1>1. IInv => UnwatchedForCause
  <2> SUFFICES ASSUME IInv, NEW c \in Calls
               PROVE  /\ at \in Ended => ~IsUnderWay(c)
                      /\ remote[c] = "running" /\ ~IsUnderWay(c) => call[c].at \in Unanswered
    BY DEF UnwatchedForCause
  <2>1. at \in Ended => ~IsUnderWay(c)
    BY DEF IInv, StageWaits, Ended
  <2>2. CallKnows(c)
    BY DEF IInv
  <2> QED BY <2>1, <2>2 DEF CallKnows, IsUnderWay, UnderWay
<1> QED BY <1>1, Inductive, PTL

(* No failure of the OCR or of a text's upscale is ever the job's. *)
THEOREM OptionalCostsNothing == Spec => []OptionalNeverFails
<1>1. IInv => OptionalNeverFails
  BY DEF IInv
<1> QED BY <1>1, Inductive, PTL

(* No face goes through a hot main pass without a pass of its own, for any *)
(* request and any faces.                                                  *)
THEOREM FacesAreRepaired == Spec => []FacesSurvive
<1>1. IInv => FacesSurvive
  <2> SUFFICES ASSUME IInv, at = "completed", Has("face"), NEW f \in context.faces
               PROVE  \/ f \in Closeups /\ plan.denoise < CloseupSafeCreativity
                      \/ face[f].passes > 0
    BY DEF FacesSurvive
  <2>1. plan = Planned /\ FacesLeft = {}
    BY DEF IInv, PlanFollowed
  <2>2. plan.denoise = Denoise(request) /\ plan.faces = RepairFaces(request, context.faces)
    BY <2>1 DEF Planned
  <2>3. plan.denoise \in Nat /\ f \in Faces /\ face[f].passes \in 0..2
    BY DEF IInv, TypeOK
  <2>4. CASE f \in plan.faces
    <3>1. face[f].passes # 0
      BY <2>1, <2>4 DEF FacesLeft
    <3> QED BY <2>3, <3>1
  <2>5. CASE f \notin plan.faces
    <3>1. ~(Denoise(request) >= CloseupSafeCreativity) /\ f \in Closeups
      BY <2>2, <2>5 DEF RepairFaces
    <3> QED BY <2>2, <2>3, <3>1 DEF CloseupSafeCreativity
  <2> QED BY <2>4, <2>5
<1> QED BY <1>1, Inductive, PTL

(* Exactly the texts that were found are put back. *)
THEOREM TextsArePutBack == Spec => []TextsSurvive
<1>1. IInv => TextsSurvive
  <2> SUFFICES ASSUME IInv, at = "completed", Has("protect_text")
               PROVE  /\ {t \in Texts : patch[t] # "none"} = context.texts
                      /\ said \subseteq {context.texts}
    BY DEF TextsSurvive
  <2>1. plan = Planned /\ TextsLeft = {} /\ said \subseteq {context.texts}
    BY DEF IInv, PlanFollowed
  <2>2. plan.protect = context.texts /\ context.texts \subseteq Texts
    BY <2>1 DEF Planned, IInv, TypeOK
  <2>3. \A t \in Texts : patch[t] # "none" => t \in plan.protect
    BY DEF IInv, PlanFollowed
  <2> QED BY <2>1, <2>2, <2>3 DEF TextsLeft
<1> QED BY <1>1, Inductive, PTL

(* A face that drifted was tried again, and the better one kept. *)
THEOREM IdentityIsGated == Spec => []IdentityGated
<1>1. IInv => IdentityGated
  BY DEF IInv, GateKept, IdentityGated
<1> QED BY <1>1, Inductive, PTL

-----------------------------------------------------------------------------
(* The safety half of AlwaysEnds, which needs no fairness: every step of a *)
(* job, its calls or Replicate moves something forward that never moves    *)
(* back, so a job makes a bounded number of steps; and a stage only waits  *)
(* for a call that was begun.                                              *)

RankOf(stage) ==
    IF stage = "new" THEN 0 ELSE IF stage = "analyzed" THEN 1
    ELSE IF stage = "captioning" THEN 2 ELSE IF stage = "captioned" THEN 3
    ELSE IF stage = "planned" THEN 4 ELSE IF stage = "upscaling" THEN 5
    ELSE IF stage \in Ended THEN 7 ELSE 6

RemoteRank(status) ==
    IF status = "none" THEN 0 ELSE IF status = "running" THEN 1 ELSE 2

(* A call begins once, has a bounded number of attempts and of polls, ends. *)
Onward(old, new) ==
    \/ old.at = "idle" /\ new.at = "creating"
    \/ old.at \in UnderWay /\ new.at \in Over
    \/ old.at = "creating" /\ new.at = "waiting"
    \/ old.at = "creating" /\ new.at = "creating" /\ new.tries > old.tries
    \/ old.at = "waiting" /\ new.at = "waiting" /\ new.waited > old.waited

CallsGoOn ==
    \A c \in Calls :
        /\ call'[c] = call[c] \/ Onward(call[c], call'[c])
        /\ RemoteRank(remote'[c]) >= RemoteRank(remote[c])
RegionsGoOn ==
    /\ \A t \in Texts : patch[t] # "none" => patch'[t] = patch[t]
    /\ \A f \in Faces : face'[f].passes >= face[f].passes
NothingGoesBack == RankOf(at') >= RankOf(at) /\ CallsGoOn /\ RegionsGoOn

SomethingAdvances ==
    \/ RankOf(at') > RankOf(at)
    \/ \E c \in Calls : Onward(call[c], call'[c])
    \/ \E c \in Calls : RemoteRank(remote'[c]) > RemoteRank(remote[c])
    \/ \E t \in Texts : patch[t] = "none" /\ patch'[t] # "none"
    \/ \E f \in Faces : face'[f].passes > face[f].passes

LEMMA Ranks ==
    /\ \A stage : RankOf(stage) \in 0..7
    /\ RankOf("new") = 0 /\ RankOf("analyzed") = 1 /\ RankOf("captioning") = 2
    /\ RankOf("captioned") = 3 /\ RankOf("planned") = 4 /\ RankOf("upscaling") = 5
    /\ \A stage \in {"enhancing", "patching", "facing"} : RankOf(stage) = 6
    /\ \A stage \in Ended : RankOf(stage) = 7
    /\ \A stage : stage \notin Ended => RankOf(stage) < 7
BY DEF RankOf, Ended

LEMMA RemoteRanks ==
    /\ \A status : RemoteRank(status) \in 0..2
    /\ RemoteRank("none") = 0 /\ RemoteRank("running") = 1
    /\ \A status \in Remote \ {"none", "running"} : RemoteRank(status) = 2
BY DEF RemoteRank, Remote

LEMMA CallsStandStill ==
    ASSUME UNCHANGED <<call, remote>>
    PROVE  CallsGoOn
BY RemoteRanks DEF CallsGoOn

LEMMA RegionsStandStill ==
    ASSUME IInv, UNCHANGED done
    PROVE  RegionsGoOn
BY DEF IInv, TypeOK, RegionsGoOn, done

LEMMA BeginGoesOn ==
    ASSUME IInv, NEW S \in SUBSET Calls, Begin(S), UNCHANGED remote,
           \A c \in S : call[c].at = "idle"
    PROVE  CallsGoOn /\ \A c \in S : Onward(call[c], call'[c])
<1>1. /\ \A c \in S : call'[c].at = "creating"
      /\ \A c \in Calls \ S : call'[c] = call[c]
  BY BeginShape DEF IInv, TypeOK
<1> QED BY <1>1, RemoteRanks DEF CallsGoOn, Onward

(* One call, whatever it is told. *)
LEMMA ProgressGoesOn ==
    ASSUME CallsTypeOK, NEW c \in Calls, CallKnows(c), Progress(c)
    PROVE  /\ Onward(call[c], call'[c])
           /\ RemoteRank(remote'[c]) >= RemoteRank(remote[c])
<1>0. call \in [Calls -> Call] /\ remote \in [Calls -> Remote]
  BY DEF CallsTypeOK
<1>1. CASE Throttled(c)
  <2>1. call[c].at = "creating" /\ UNCHANGED remote
    BY <1>1 DEF Throttled
  <2>2. CASE call[c].tries + 1 < CreateAttempts
    <3>1. call' = [call EXCEPT ![c].tries = @ + 1]
      BY <1>1, <2>2 DEF Throttled
    <3>2. call'[c].at = "creating" /\ call'[c].tries = call[c].tries + 1
      BY <1>0, <2>1, <3>1 DEF Call
    <3>3. call'[c].tries > call[c].tries
      BY <1>0, <3>2, PredictionsAssumption DEF Call
    <3> QED BY <2>1, <3>2, <3>3, RemoteRanks DEF Onward
  <2>3. CASE ~(call[c].tries + 1 < CreateAttempts)
    <3>1. End(c, "refused") /\ "refused" \in Over
      BY <1>1, <2>3 DEF Throttled, Over
    <3> QED BY <2>1, <3>1, EndShape, RemoteRanks DEF Onward, UnderWay
  <2> QED BY <2>2, <2>3
<1>2. CASE Refused(c)
  <2>1. End(c, "refused") /\ UNCHANGED remote /\ call[c].at = "creating" /\ "refused" \in Over
    BY <1>2 DEF Refused, Over
  <2> QED BY <2>1, EndShape, RemoteRanks DEF Onward, UnderWay
<1>3. CASE LosesAnswer(c)
  <2>1. End(c, "lost") /\ call[c].at = "creating" /\ "lost" \in Over
    BY <1>3 DEF LosesAnswer, Over, Unanswered
  <2>2. remote[c] = "none"
    BY <2>1 DEF CallKnows
  <2> QED BY <2>1, <2>2, EndShape, RemoteRanks DEF Onward, UnderWay
<1>4. CASE Accepted(c)
  <2>1. PICK status \in {"running", "succeeded", "failed"} :
          IF status = "running"
          THEN call' = [call EXCEPT ![c].at = "waiting"]
          ELSE End(c, Told(status))
    BY <1>4 DEF Accepted
  <2>2. call[c].at = "creating" /\ remote[c] = "none"
    BY <1>4 DEF Accepted, CallKnows
  <2>3. CASE status = "running"
    <3>1. call'[c].at = "waiting"
      BY <1>0, <2>1, <2>3 DEF Call
    <3> QED BY <2>2, <3>1, RemoteRanks DEF Onward
  <2>4. CASE status # "running"
    <3>1. Told(status) \in {"ok", "rejected"}
      BY <2>4 DEF Told
    <3>2. End(c, Told(status)) /\ Told(status) \in Over
      BY <2>1, <2>4, <3>1 DEF Over
    <3> QED BY <2>2, <3>2, EndShape, RemoteRanks DEF Onward, UnderWay
  <2> QED BY <2>3, <2>4
<1>5. CASE Poll(c)
  <2>0. call[c].at = "waiting" /\ UNCHANGED remote
    BY <1>5 DEF Poll
  <2>1. ASSUME NEW how \in Over, End(c, how)
        PROVE  Onward(call[c], call'[c])
    BY <2>0, <2>1, EndShape DEF Onward, UnderWay
  <2>2. CASE End(c, "blind")
    <3>1. "blind" \in Over
      BY DEF Over, Unanswered
    <3> QED BY <2>0, <2>1, <2>2, <3>1, RemoteRanks
  <2>3. CASE remote[c] # "running" /\ End(c, Told(remote[c]))
    <3>1. Told(remote[c]) \in {"ok", "rejected"}
      BY <2>3 DEF Told
    <3>2. Told(remote[c]) \in Over
      BY <3>1 DEF Over
    <3> QED BY <2>0, <2>1, <2>3, <3>2, RemoteRanks
  <2>4. CASE \E w \in (call[c].waited + 1)..Deadline :
                call' = [call EXCEPT ![c].waited = w]
    <3>1. PICK w \in (call[c].waited + 1)..Deadline : call' = [call EXCEPT ![c].waited = w]
      BY <2>4
    <3>2. call'[c].at = "waiting" /\ call'[c].waited = w
      BY <1>0, <2>0, <3>1 DEF Call
    <3>3. w > call[c].waited
      BY <1>0, <3>1, PredictionsAssumption DEF Call
    <3> QED BY <2>0, <3>2, <3>3, RemoteRanks DEF Onward
  <2> QED BY <1>5, <2>2, <2>3, <2>4 DEF Poll
<1>6. CASE GiveUp(c)
  <2>1. call[c].at = "waiting"
    BY <1>6 DEF GiveUp
  <2>2. \E how \in {"gaveup", "uncancelled"} : End(c, how)
    BY <1>6 DEF GiveUp
  <2>3. Onward(call[c], call'[c])
    BY <2>1, <2>2, EndShape DEF Onward, UnderWay, Over, Unanswered
  <2>4. remote' \in {remote, Canceled(c)}
    BY <1>6 DEF GiveUp
  <2>5. Canceled(c)[c] = IF remote[c] = "running" THEN "canceled" ELSE remote[c]
    BY <1>0 DEF Canceled
  <2> QED BY <2>3, <2>4, <2>5, RemoteRanks DEF Remote
<1> QED BY <1>1, <1>2, <1>3, <1>4, <1>5, <1>6 DEF Progress

LEMMA ProviderGoesOn ==
    ASSUME IInv, NEW c \in Calls, Provider(c)
    PROVE  NothingGoesBack /\ SomethingAdvances
<1>1. CallsTypeOK /\ CallKnows(c) /\ Progress(c) /\ UNCHANGED <<at, done>>
  BY DEF IInv, TypeOK, Provider
<1>2. \A d \in Calls \ {c} : call'[d] = call[d] /\ remote'[d] = remote[d]
  BY <1>1, ProgressShape
<1>3. Onward(call[c], call'[c]) /\ RemoteRank(remote'[c]) >= RemoteRank(remote[c])
  BY <1>1, ProgressGoesOn
<1>4. CallsGoOn
  BY <1>2, <1>3, RemoteRanks DEF CallsGoOn
<1>5. RankOf(at') >= RankOf(at)
  BY <1>1, Ranks
<1> QED BY <1>1, <1>3, <1>4, <1>5, RegionsStandStill DEF NothingGoesBack, SomethingAdvances

LEMMA ReplicateGoesOn ==
    ASSUME IInv, Replicate
    PROVE  NothingGoesBack /\ SomethingAdvances
<1>1. PICK c \in Calls : Settle(c) /\ UNCHANGED <<at, done>>
  BY DEF Replicate
<1>2. PICK status \in {"succeeded", "failed"} : remote' = [remote EXCEPT ![c] = status]
  BY <1>1 DEF Settle
<1>3. remote \in [Calls -> Remote] /\ UNCHANGED call /\ remote[c] = "running"
  BY <1>1 DEF IInv, TypeOK, CallsTypeOK, Settle
<1>4. remote'[c] = status /\ \A d \in Calls \ {c} : remote'[d] = remote[d]
  BY <1>2, <1>3
<1>5. RemoteRank(remote[c]) = 1 /\ RemoteRank(remote'[c]) = 2
  BY <1>3, <1>4, RemoteRanks DEF Remote
<1>6. CallsGoOn
  BY <1>3, <1>4, <1>5, RemoteRanks DEF CallsGoOn
<1>7. RankOf(at') >= RankOf(at)
  BY <1>1, Ranks
<1> QED BY <1>1, <1>5, <1>6, <1>7, RegionsStandStill DEF NothingGoesBack, SomethingAdvances

(* The process dies: calls end, and a creation may have arrived. *)
LEMMA CutGoesOn ==
    ASSUME IInv, Cut
    PROVE  NothingGoesBack /\ SomethingAdvances
<1>0. at' = "cut" /\ at \notin Ended /\ CallsCut /\ UNCHANGED done
  BY DEF Cut
<1>1. PICK S \in SUBSET {c \in Calls : call[c].at = "creating"} :
        remote' = [c \in Calls |-> IF c \in S THEN "running" ELSE remote[c]]
  BY <1>0 DEF CallsCut
<1>2. ASSUME NEW c \in Calls
      PROVE  /\ call'[c] = call[c] \/ Onward(call[c], call'[c])
             /\ RemoteRank(remote'[c]) >= RemoteRank(remote[c])
  <2>1. call'[c] = IF IsUnderWay(c) THEN [Idle EXCEPT !.at = "cut"] ELSE call[c]
    BY <1>0 DEF CallsCut
  <2>2. "cut" \in Over /\ [Idle EXCEPT !.at = "cut"].at = "cut"
    BY CallTypes DEF Over, Unanswered
  <2>3. call'[c] = call[c] \/ Onward(call[c], call'[c])
    BY <2>1, <2>2 DEF Onward, IsUnderWay
  <2>4. CallKnows(c) /\ (c \in S => call[c].at = "creating")
    BY DEF IInv
  <2>5. c \in S => remote[c] = "none"
    BY <2>4 DEF CallKnows
  <2>6. remote'[c] = IF c \in S THEN "running" ELSE remote[c]
    BY <1>1
  <2> QED BY <2>3, <2>5, <2>6, RemoteRanks
<1>3. RankOf(at') > RankOf(at)
  BY <1>0, Ranks DEF Ended
<1> QED BY <1>0, <1>2, <1>3, Ranks, RegionsStandStill DEF NothingGoesBack, SomethingAdvances, CallsGoOn

-----------------------------------------------------------------------------
(* The stages. *)
LEMMA NextStageGoesOn ==
    ASSUME IInv, UNCHANGED <<call, remote, done>>, RankOf(at') > RankOf(at)
    PROVE  NothingGoesBack /\ SomethingAdvances
<1>1. CallsGoOn /\ RegionsGoOn
  BY CallsStandStill, RegionsStandStill
<1> QED BY <1>1, Ranks DEF NothingGoesBack, SomethingAdvances

LEMMA FailGoesOn ==
    ASSUME at \notin Ended, NEW S, Fail(S)
    PROVE  RankOf(at') > RankOf(at)
BY Ranks DEF Fail, Ended

LEMMA UploadGoesOn ==
    ASSUME IInv, NEW c \in Calls, NEW next, Uploaded(c, next), UNCHANGED remote,
           call[c].at = "idle", RankOf(next) >= RankOf(at), RegionsGoOn
    PROVE  NothingGoesBack /\ SomethingAdvances
<1>1. Begin({c}) /\ at' = next /\ {c} \in SUBSET Calls
  BY DEF Uploaded
<1>2. CallsGoOn /\ Onward(call[c], call'[c])
  BY <1>1, BeginGoesOn
<1> QED BY <1>1, <1>2 DEF NothingGoesBack, SomethingAdvances

LEMMA MainGoesOn ==
    ASSUME IInv,
           \/ Analyze \/ StartCaptioner \/ CaptionerFails \/ CaptionerEnds \/ Plan
           \/ StartUpscaler \/ UpscalerEnds \/ Export \/ Breaks
    PROVE  NothingGoesBack /\ SomethingAdvances
<1>1. CASE Analyze \/ CaptionerEnds \/ Plan \/ Export
  <2>1. UNCHANGED <<call, remote, done>>
    BY <1>1 DEF Analyze, CaptionerEnds, Plan, Export
  <2>2. RankOf(at') > RankOf(at)
    BY <1>1, Ranks DEF Analyze, CaptionerEnds, Plan, Export, Ended
  <2> QED BY <2>1, <2>2, NextStageGoesOn
<1>2. CASE CaptionerFails \/ UpscalerEnds \/ Breaks
  <2>1. UNCHANGED <<call, remote, done>> /\ at \notin Ended
    BY <1>2 DEF CaptionerFails, UpscalerEnds, Breaks, Ended
  <2>2. (\E S : Fail(S)) \/ (at = "upscaling" /\ at' = "enhancing")
    BY <1>2 DEF CaptionerFails, UpscalerEnds, Breaks
  <2>3. RankOf(at') > RankOf(at)
    BY <2>1, <2>2, FailGoesOn, Ranks
  <2> QED BY <2>1, <2>3, NextStageGoesOn
<1>3. CASE StartCaptioner
  <2>1. at = "analyzed" /\ UNCHANGED <<remote, done>>
    BY <1>3 DEF StartCaptioner
  <2>2. CASE NotUploaded(Caption)
    <3>1. UNCHANGED call /\ Fail({Caption}) /\ at \notin Ended
      BY <2>1, <2>2 DEF NotUploaded, Ended
    <3> QED BY <2>1, <3>1, FailGoesOn, NextStageGoesOn
  <2>3. CASE ~NotUploaded(Caption)
    <3> DEFINE S == {Caption} \cup IF Has("protect_text") THEN {Ocr} ELSE {}
    <3>1. Begin(S) /\ at' = "captioning"
      BY <1>3, <2>3 DEF StartCaptioner
    <3>2. S \in SUBSET Calls /\ \A c \in S : call[c].at = "idle"
      BY <2>1, CallsExist DEF IInv, NotYetCalled
    <3>3. CallsGoOn
      BY <2>1, <3>1, <3>2, BeginGoesOn
    <3> QED BY <2>1, <3>1, <3>3, Ranks, RegionsStandStill DEF NothingGoesBack, SomethingAdvances
  <2> QED BY <2>2, <2>3
<1>4. CASE StartUpscaler
  <2>1. at = "planned" /\ UNCHANGED <<remote, done>>
    BY <1>4 DEF StartUpscaler
  <2>2. CASE NotUploaded(Upscale)
    <3>1. UNCHANGED call /\ Fail({Upscale}) /\ at \notin Ended
      BY <2>1, <2>2 DEF NotUploaded, Ended
    <3> QED BY <2>1, <3>1, FailGoesOn, NextStageGoesOn
  <2>3. CASE Uploaded(Upscale, "upscaling")
    <3>1. Upscale \in Calls /\ call[Upscale].at = "idle"
      BY <2>1, CallsExist DEF IInv, NotYetCalled
    <3>2. RankOf("upscaling") >= RankOf(at)
      BY <2>1, Ranks
    <3> QED BY <2>1, <2>3, <3>1, <3>2, UploadGoesOn, RegionsStandStill
  <2> QED BY <1>4, <2>2, <2>3 DEF StartUpscaler
<1> QED BY <1>1, <1>2, <1>3, <1>4

LEMMA TextGoesOn ==
    ASSUME IInv, NEW t \in Texts, StartPatch(t) \/ PatchEnds(t)
    PROVE  NothingGoesBack /\ SomethingAdvances
<1>1. /\ at \in {"enhancing", "patching"} /\ patch[t] = "none"
      /\ UNCHANGED <<remote, face>>
  BY DEF StartPatch, PatchEnds, TextsLeft
<1>2. ASSUME NEW how \in {"upscaled", "lanczos"}, Composite(t, how),
             UNCHANGED call, at' = "enhancing"
      PROVE  NothingGoesBack /\ SomethingAdvances
  <2>1. patch'[t] = how /\ \A s \in Texts \ {t} : patch'[s] = patch[s]
    BY <1>2 DEF IInv, TypeOK, Composite
  <2>2. RegionsGoOn
    BY <1>1, <2>1 DEF IInv, TypeOK, RegionsGoOn
  <2>3. CallsGoOn
    BY <1>1, <1>2, CallsStandStill
  <2>4. RankOf(at') >= RankOf(at)
    BY <1>1, <1>2, Ranks
  <2> QED BY <1>1, <2>1, <2>2, <2>3, <2>4 DEF NothingGoesBack, SomethingAdvances
<1>3. CASE StartPatch(t) /\ Uploaded(Patch(t), "patching") /\ UNCHANGED patch
  <2>1. at = "enhancing"
    BY <1>3 DEF StartPatch
  <2>2. Patch(t) \in Calls /\ call[Patch(t)].at = "idle"
    BY <1>1, <2>1, NothingUnderWay, CallsExist DEF AwaitedTexts, Quiet
  <2>3. RankOf("patching") >= RankOf(at)
    BY <2>1, Ranks
  <2>4. RegionsGoOn
    BY <1>1, <1>3, RegionsStandStill DEF done
  <2> QED BY <1>1, <1>3, <2>2, <2>3, <2>4, UploadGoesOn
<1>4. CASE StartPatch(t) /\ Composite(t, "lanczos") /\ UNCHANGED <<call, at, blame>>
  <2>1. at' = "enhancing"
    BY <1>4 DEF StartPatch
  <2> QED BY <1>2, <1>4, <2>1
<1>5. CASE PatchEnds(t)
  <2>1. UNCHANGED call /\ at' = "enhancing"
    BY <1>5 DEF PatchEnds
  <2>2. \E how \in {"upscaled", "lanczos"} : Composite(t, how)
    BY <1>5 DEF PatchEnds
  <2> QED BY <1>2, <2>1, <2>2
<1> QED BY <1>3, <1>4, <1>5 DEF StartPatch

LEMMA FaceGoesOn ==
    ASSUME IInv, NEW f \in Faces, StartFace(f) \/ \E k \in 1..2 : PassEnds(f, k)
    PROVE  NothingGoesBack /\ SomethingAdvances
<1>0. 1 \in 1..2 /\ 2 \in 1..2 /\ 1 - 1 = 0
  OBVIOUS
<1>1. CASE StartFace(f)
  <2>1. at = "enhancing" /\ face[f].passes = 0 /\ UNCHANGED <<remote, done>>
    BY <1>1 DEF StartFace, FacesLeft
  <2>2. CASE NotUploaded(Pass(f, 1))
    <3>1. UNCHANGED call /\ Fail({Pass(f, 1)}) /\ at \notin Ended
      BY <2>1, <2>2 DEF NotUploaded, Ended
    <3> QED BY <2>1, <3>1, FailGoesOn, NextStageGoesOn
  <2>3. CASE Uploaded(Pass(f, 1), "facing")
    <3>1. Pass(f, 1) \in Calls /\ call[Pass(f, 1)].at = "idle"
      BY <1>0, <2>1, NothingUnderWay, CallsExist DEF Awaits, Quiet
    <3>2. RankOf("facing") >= RankOf(at)
      BY <2>1, Ranks
    <3> QED BY <2>1, <2>3, <3>1, <3>2, UploadGoesOn, RegionsStandStill
  <2> QED BY <1>1, <2>2, <2>3 DEF StartFace
<1>2. ASSUME NEW k \in 1..2, PassEnds(f, k)
      PROVE  NothingGoesBack /\ SomethingAdvances
  <2>1. at = "facing" /\ face[f].passes = k - 1 /\ UNCHANGED <<remote, patch>>
    BY <1>2 DEF PassEnds
  <2>2. CASE Fail({Pass(f, k)}) /\ UNCHANGED <<call, face>>
    <3>1. at \notin Ended /\ UNCHANGED <<call, remote, done>>
      BY <2>1, <2>2 DEF Ended, done
    <3> QED BY <2>2, <3>1, FailGoesOn, NextStageGoesOn
  <2>3. ASSUME NEW S \in Measures,
               face' = [face EXCEPT ![f] =
                   [passes |-> k,
                    kept |-> IF k = 1 THEN S ELSE Better(@.kept, S),
                    measured |-> @.measured \cup S]],
               IF k = 1 /\ Drifted(S)
               THEN Uploaded(Pass(f, 2), "facing") \/ NotUploaded(Pass(f, 2))
               ELSE at' = "enhancing" /\ UNCHANGED <<call, blame>>
        PROVE  NothingGoesBack /\ SomethingAdvances
    <3>1. /\ DOMAIN face = Faces
          /\ \A g \in Faces : face[g].passes \in 0..2
      BY DEF IInv, TypeOK
    <3>2. face'[f].passes = k /\ \A g \in Faces \ {f} : face'[g] = face[g]
      BY <2>3, <3>1
    <3>3. face'[f].passes > face[f].passes
      BY <2>1, <3>1, <3>2
    <3>4. RegionsGoOn
      BY <2>1, <3>1, <3>2, <3>3 DEF RegionsGoOn
    <3>5. CASE k = 1 /\ Drifted(S) /\ Uploaded(Pass(f, 2), "facing")
      <4>1. Pass(f, 2) \in Calls /\ call[Pass(f, 2)].at = "idle"
        BY <1>0, <2>1, <3>5, CallsExist DEF IInv, NotYetCalled
      <4>2. RankOf("facing") >= RankOf(at)
        BY <2>1, Ranks
      <4> QED BY <2>1, <3>4, <3>5, <4>1, <4>2, UploadGoesOn
    <3>6. CASE NotUploaded(Pass(f, 2)) \/ (at' = "enhancing" /\ UNCHANGED call)
      <4>1. UNCHANGED call /\ (at' = "failed" \/ at' = "enhancing")
        BY <3>6 DEF NotUploaded, Fail
      <4>2. RankOf(at') >= RankOf(at)
        BY <2>1, <4>1, Ranks DEF Ended
      <4>3. CallsGoOn
        BY <2>1, <4>1, CallsStandStill
      <4> QED BY <3>3, <3>4, <4>2, <4>3 DEF NothingGoesBack, SomethingAdvances
    <3> QED BY <2>3, <3>5, <3>6
  <2> QED BY <1>2, <2>2, <2>3 DEF PassEnds
<1> QED BY <1>1, <1>2

(* Whatever a job, its calls and Replicate do, each step uses up one of a  *)
(* bounded number of moves: a stage left, a call begun, tried, polled or   *)
(* ended, a prediction settled, a text or a face done.  No stage, call,    *)
(* text or pass is ever begun again.                                       *)
THEOREM JobsCannotLoop == Spec => [][NothingGoesBack /\ SomethingAdvances]_vars
<1>1. IInv /\ [Next]_vars => [NothingGoesBack /\ SomethingAdvances]_vars
  <2> SUFFICES ASSUME IInv, Next PROVE NothingGoesBack /\ SomethingAdvances
    OBVIOUS
  <2>1. CASE Stage
    BY <2>1, MainGoesOn, TextGoesOn, FaceGoesOn DEF Stage
  <2>2. CASE Cut
    BY <2>2, CutGoesOn
  <2>3. CASE Replicate
    BY <2>3, ReplicateGoesOn
  <2>4. CASE \E c \in Calls : Provider(c)
    BY <2>4, ProviderGoesOn
  <2> QED BY <2>1, <2>2, <2>3, <2>4 DEF Next
<1> QED BY <1>1, Inductive, PTL DEF Spec

(* A stage that waits has begun the call it waits for: that call moves by  *)
(* itself until it is over, and the stage then takes its result.           *)
NobodyWaitsInVain ==
    /\ at = "captioning" => call[Caption].at # "idle"
    /\ at = "upscaling" => call[Upscale].at # "idle"
    /\ at = "patching" => AwaitedTexts # {}
    /\ at = "facing" => \E f \in Faces, k \in 1..2 : Awaits(f, k)

LEMMA NotWaiting ==
    ASSUME at' \notin Waiting
    PROVE  NobodyWaitsInVain'
BY DEF NobodyWaitsInVain, Waiting

LEMMA StillWaiting ==
    ASSUME NobodyWaitsInVain, UNCHANGED <<at, done>>, CallsGoOn
    PROVE  NobodyWaitsInVain'
<1>1. \A c \in Calls : call[c].at # "idle" => call'[c].at # "idle"
  BY DEF CallsGoOn, Onward, Over, Unanswered
<1>2. AwaitedTexts \subseteq AwaitedTexts'
  BY <1>1, CallsExist DEF AwaitedTexts, done
<1>3. \A f \in Faces, k \in 1..2 : Awaits(f, k) => Awaits(f, k)'
  BY <1>1, CallsExist DEF Awaits, done
<1> QED BY <1>1, <1>2, <1>3, CallsExist DEF NobodyWaitsInVain

LEMMA BegunIsNotIdle ==
    ASSUME IInv, NEW S \in SUBSET Calls, Begin(S), NEW c \in S
    PROVE  call'[c].at # "idle"
BY BeginShape DEF IInv, TypeOK

LEMMA StageWaitsForSomething ==
    ASSUME IInv, Stage
    PROVE  NobodyWaitsInVain'
<1>1. CASE Analyze \/ CaptionerFails \/ CaptionerEnds \/ Plan \/ UpscalerEnds \/ Export \/ Breaks
  <2>1. at' \notin Waiting
    BY <1>1 DEF Analyze, CaptionerFails, CaptionerEnds, Plan, UpscalerEnds, Export, Breaks, Fail, Waiting
  <2> QED BY <2>1, NotWaiting
<1>2. CASE StartCaptioner
  <2>1. CASE NotUploaded(Caption)
    BY <2>1, NotWaiting DEF NotUploaded, Fail, Waiting
  <2>2. CASE ~NotUploaded(Caption)
    <3> DEFINE S == {Caption} \cup IF Has("protect_text") THEN {Ocr} ELSE {}
    <3>1. Begin(S) /\ at' = "captioning"
      BY <1>2, <2>2 DEF StartCaptioner
    <3>2. S \in SUBSET Calls /\ Caption \in S
      BY CallsExist
    <3>3. call'[Caption].at # "idle"
      BY <3>1, <3>2, BegunIsNotIdle
    <3> QED BY <3>1, <3>3 DEF NobodyWaitsInVain
  <2> QED BY <2>1, <2>2
<1>3. CASE StartUpscaler
  <2>1. CASE NotUploaded(Upscale)
    BY <2>1, NotWaiting DEF NotUploaded, Fail, Waiting
  <2>2. CASE Uploaded(Upscale, "upscaling")
    <3>1. Begin({Upscale}) /\ at' = "upscaling"
      BY <2>2 DEF Uploaded
    <3>2. call'[Upscale].at # "idle"
      BY <3>1, CallsExist, BegunIsNotIdle
    <3> QED BY <3>1, <3>2 DEF NobodyWaitsInVain
  <2> QED BY <1>3, <2>1, <2>2 DEF StartUpscaler
<1>4. ASSUME NEW t \in Texts, StartPatch(t) \/ PatchEnds(t)
      PROVE  NobodyWaitsInVain'
  <2>1. CASE StartPatch(t) /\ Uploaded(Patch(t), "patching") /\ UNCHANGED patch
    <3>1. Begin({Patch(t)}) /\ at' = "patching" /\ patch'[t] = "none"
      BY <2>1 DEF Uploaded, StartPatch, TextsLeft
    <3>2. call'[Patch(t)].at # "idle"
      BY <3>1, CallsExist, BegunIsNotIdle
    <3>3. t \in AwaitedTexts'
      BY <3>1, <3>2 DEF AwaitedTexts
    <3> QED BY <3>1, <3>3 DEF NobodyWaitsInVain
  <2>2. CASE at' = "enhancing"
    BY <2>2, NotWaiting DEF Waiting
  <2> QED BY <1>4, <2>1, <2>2 DEF StartPatch, PatchEnds
<1>5. ASSUME NEW f \in Faces, NEW k \in 1..2, Uploaded(Pass(f, k), "facing"), face'[f].passes = k - 1
      PROVE  NobodyWaitsInVain'
  <2>1. Begin({Pass(f, k)}) /\ at' = "facing" /\ Pass(f, k) \in Calls
    BY <1>5, CallsExist DEF Uploaded
  <2>2. call'[Pass(f, k)].at # "idle"
    BY <2>1, BegunIsNotIdle
  <2>3. Awaits(f, k)'
    BY <1>5, <2>2 DEF Awaits
  <2> QED BY <2>1, <2>3 DEF NobodyWaitsInVain
<1>6. ASSUME NEW f \in Faces, StartFace(f)
      PROVE  NobodyWaitsInVain'
  <2>1. CASE NotUploaded(Pass(f, 1))
    BY <2>1, NotWaiting DEF NotUploaded, Fail, Waiting
  <2>2. CASE Uploaded(Pass(f, 1), "facing")
    <3>1. 1 \in 1..2 /\ face'[f].passes = 1 - 1
      BY <1>6 DEF StartFace, FacesLeft, done
    <3> QED BY <1>5, <2>2, <3>1
  <2> QED BY <1>6, <2>1, <2>2 DEF StartFace
<1>7. ASSUME NEW f \in Faces, NEW k \in 1..2, PassEnds(f, k)
      PROVE  NobodyWaitsInVain'
  <2>1. CASE at' \in {"failed", "enhancing"}
    BY <2>1, NotWaiting DEF Waiting
  <2>2. CASE at' \notin {"failed", "enhancing"}
    <3>1. PICK S \in Measures :
            /\ face' = [face EXCEPT ![f] =
                   [passes |-> k,
                    kept |-> IF k = 1 THEN S ELSE Better(@.kept, S),
                    measured |-> @.measured \cup S]]
            /\ IF k = 1 /\ Drifted(S)
               THEN Uploaded(Pass(f, 2), "facing") \/ NotUploaded(Pass(f, 2))
               ELSE at' = "enhancing" /\ UNCHANGED <<call, blame>>
      BY <1>7, <2>2 DEF PassEnds, Fail
    <3>2. k = 1 /\ Uploaded(Pass(f, 2), "facing")
      BY <2>2, <3>1 DEF NotUploaded, Fail
    <3>3. face'[f].passes = k
      BY <3>1 DEF IInv, TypeOK
    <3>4. 2 \in 1..2 /\ face'[f].passes = 2 - 1
      BY <3>2, <3>3
    <3> QED BY <1>5, <3>2, <3>4
  <2> QED BY <2>1, <2>2
<1> QED BY <1>1, <1>2, <1>3, <1>4, <1>6, <1>7 DEF Stage

(* No stage waits for a call that nobody began.                            *)
THEOREM StagesWaitForCalls == Spec => []NobodyWaitsInVain
<1>1. Init => NobodyWaitsInVain
  BY DEF Init, NobodyWaitsInVain
<1>2. IInv /\ NobodyWaitsInVain /\ [Next]_vars => NobodyWaitsInVain'
  <2> SUFFICES ASSUME IInv, NobodyWaitsInVain, [Next]_vars PROVE NobodyWaitsInVain'
    OBVIOUS
  <2>1. CASE Stage
    BY <2>1, StageWaitsForSomething
  <2>2. CASE Cut
    BY <2>2, NotWaiting DEF Cut, Waiting
  <2>3. CASE Replicate \/ \E c \in Calls : Provider(c)
    <3>1. UNCHANGED <<at, done>>
      BY <2>3 DEF Replicate, Provider
    <3>2. CallsGoOn
      BY <2>3, ReplicateGoesOn, ProviderGoesOn DEF NothingGoesBack
    <3> QED BY <3>1, <3>2, StillWaiting
  <2>4. CASE UNCHANGED vars
    BY <2>4, CallsStandStill, StillWaiting DEF vars
  <2> QED BY <2>1, <2>2, <2>3, <2>4 DEF Next
<1> QED BY <1>1, <1>2, Inductive, PTL DEF Spec

=============================================================================
