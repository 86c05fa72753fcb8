------------------------- MODULE EnhancementPipeline -------------------------
(***************************************************************************)
(* One enhancement job through the stages of app/pipeline/, which run one  *)
(* after the other on an image in memory (engine.py) and call models at    *)
(* Replicate: what runs, on which regions, and what becomes of the job     *)
(* when a part of it fails.  Pixels are left out: a face or a text is its  *)
(* region, and what the analysis measures is chosen.  Creativities and     *)
(* similarities are in hundredths.                                         *)
(***************************************************************************)
EXTENDS Predictions

CONSTANTS
    Faces,         \* faces the detector may find
    Closeups,      \* those at least 0.4 of the frame high
    Texts,         \* regions the gradient heuristic or the OCR may find
    Requests,      \* what jobs are asked with: a preset and a creativity
    Similarities   \* what the identity gate may measure

FacePreset(n, denoise) == [name |-> n, denoise |-> denoise, enhancers |-> {"face"}]
TextPreset(n, denoise) == [name |-> n, denoise |-> denoise, enhancers |-> {"protect_text"}]
Presets == {FacePreset("portrait", 20), TextPreset("product", 25),
            TextPreset("architecture", 35), FacePreset("ai-generated", 50)}

Own == 0   \* no creativity among the options: the preset's own

ASSUME RegionsAssumption ==
    /\ Closeups \subseteq Faces
    /\ Requests \subseteq [preset : Presets, creativity : {Own} \cup 10..60]
    /\ Similarities \subseteq 0..100

(* The calls a job may make: a face has two passes. *)
Caption    == <<"caption">>
Ocr        == <<"ocr">>
Upscale    == <<"upscale">>
Patch(t)   == <<"patch", t>>
Pass(f, k) == <<"pass", f, k>>
ASSUME CallsAssumption ==
    Calls = {Caption, Ocr, Upscale} \cup {Patch(t) : t \in Texts}
            \cup {Pass(f, k) : f \in Faces, k \in 1..2}

VARIABLES
    at,        \* the stage the job is in
    request,   \* preset and options of the job
    context,   \* ImageContext: the faces and texts found
    said,      \* what the OCR said, when it said something: {} or {texts}
    plan,      \* ExecutionPlan: creativity and regions
    patch,     \* patch[t]: what was composited over text t
    face,      \* face[f]: passes over face f, the similarity kept, all measured
    blame      \* the call that failed the job; none for a stage of its own

found == <<request, context, said, plan>>
done  == <<patch, face>>
vars  == <<call, remote, at, found, done, blame>>

CloseupSafeCreativity == 25
IdentityMin == 50

(* A similarity is known, {s}, or not: no face in one of the two crops. *)
Measures == {{}} \cup {{s} : s \in Similarities}
Below(S, T) == \E s \in S, t \in T : s < t

Has(enhancer) == enhancer \in request.preset.enhancers

Untouched == [passes |-> 0, kept |-> {}, measured |-> {}]

Init ==
    /\ CallsInit
    /\ at = "new"
    /\ request \in Requests
    /\ context = [faces |-> {}, texts |-> {}]
    /\ said = {}
    /\ plan = [denoise |-> Own, protect |-> {}, faces |-> {}]
    /\ patch = [t \in Texts |-> "none"]
    /\ face = [f \in Faces |-> Untouched]
    /\ blame = {}

Fail(S) == at' = "failed" /\ blame' = S

(* An upload before a call: without it the call is not made. *)
Uploaded(c, next) ==
    /\ Begin({c})
    /\ at' = next
    /\ UNCHANGED blame
NotUploaded(c) == Fail({c}) /\ UNCHANGED call

Analyze ==
    /\ at = "new"
    /\ \E F \in SUBSET Faces, T \in SUBSET Texts :
          context' = [faces |-> F, texts |-> T]
    /\ at' = "analyzed"
    /\ UNCHANGED <<call, remote, request, said, plan, done, blame>>

(* The OCR runs beside the caption, for presets that use its boxes. *)
StartCaptioner ==
    /\ at = "analyzed"
    /\ \/ /\ Begin({Caption} \cup IF Has("protect_text") THEN {Ocr} ELSE {})
          /\ at' = "captioning"
          /\ UNCHANGED blame
       \/ NotUploaded(Caption)
    /\ UNCHANGED <<remote, found, done>>

(* gather(..., return_exceptions=True): both have ended, the caption's     *)
(* failure is raised, the OCR's keeps the boxes of the heuristic, and so   *)
(* does an answer that cannot be parsed.                                   *)
CaptionerFails_AtOnce ==
    /\ at = "captioning"
    /\ \E c \in {Caption, Ocr} :
          IsOver(c) /\ call[c].at # "ok" /\ Fail({c})
    /\ UNCHANGED <<call, remote, found, done>>
CaptionerFails ==
    /\ at = "captioning"
    /\ ~IsUnderWay(Caption) /\ ~IsUnderWay(Ocr)
    /\ call[Caption].at # "ok"
    /\ Fail({Caption})
    /\ UNCHANGED <<call, remote, found, done>>

CaptionerEnds_EmptyIsNothing ==
    /\ at = "captioning"
    /\ ~IsUnderWay(Caption) /\ ~IsUnderWay(Ocr)
    /\ call[Caption].at = "ok"
    /\ \/ UNCHANGED <<said, context>>
       \/ /\ call[Ocr].at = "ok"
          /\ \E T \in SUBSET Texts :
                /\ said' = {T}
                /\ context' = [context EXCEPT !.texts = IF T = {} THEN @ ELSE T]
    /\ at' = "captioned"
    /\ UNCHANGED <<call, remote, request, plan, done, blame>>
CaptionerEnds ==
    /\ at = "captioning"
    /\ ~IsUnderWay(Caption) /\ ~IsUnderWay(Ocr)
    /\ call[Caption].at = "ok"
    /\ \/ UNCHANGED <<said, context>>
       \/ /\ call[Ocr].at = "ok"
          /\ \E T \in SUBSET Texts :
                /\ said' = {T}
                /\ context' = [context EXCEPT !.texts = T]
    /\ at' = "captioned"
    /\ UNCHANGED <<call, remote, request, plan, done, blame>>

Denoise(r) == IF r.creativity = Own THEN r.preset.denoise ELSE r.creativity

(* A hot main pass would mangle even a close-up. *)
RepairFaces_ByPreset(r, F) ==
    IF r.preset.denoise >= CloseupSafeCreativity THEN F ELSE F \ Closeups
RepairFaces(r, F) ==
    IF Denoise(r) >= CloseupSafeCreativity THEN F ELSE F \ Closeups

Planned ==
    [denoise |-> Denoise(request),
     protect |-> IF Has("protect_text") THEN context.texts ELSE {},
     faces   |-> IF Has("face") THEN RepairFaces(request, context.faces) ELSE {}]

Plan ==
    /\ at = "captioned"
    /\ plan' = Planned
    /\ at' = "planned"
    /\ UNCHANGED <<call, remote, request, context, said, done, blame>>

(* After the preprocessor, the main generative pass. *)
StartUpscaler ==
    /\ at = "planned"
    /\ Uploaded(Upscale, "upscaling") \/ NotUploaded(Upscale)
    /\ UNCHANGED <<remote, found, done>>

(* The result is downloaded, which may fail as well. *)
UpscalerEnds ==
    /\ at = "upscaling"
    /\ IsOver(Upscale)
    /\ \/ /\ call[Upscale].at = "ok"
          /\ at' = "enhancing"
          /\ UNCHANGED blame
       \/ Fail({Upscale})
    /\ UNCHANGED <<call, remote, found, done>>

-----------------------------------------------------------------------------
(* stages/local_enhancers.py: texts first, then faces, one at a time. *)

TextsLeft == {t \in plan.protect : patch[t] = "none"}
FacesLeft == {f \in plan.faces : face[f].passes = 0}

Composite(t, how) == patch' = [patch EXCEPT ![t] = how]

StartPatch(t) ==
    /\ at = "enhancing"
    /\ t \in TextsLeft
    /\ \/ Uploaded(Patch(t), "patching") /\ UNCHANGED patch
       \/ Composite(t, "lanczos") /\ UNCHANGED <<call, at, blame>>
    /\ UNCHANGED <<remote, found, face>>

(* "a softer patch beats failing a job whose generative pass succeeded" *)
PatchEnds_Raises(t) ==
    /\ at = "patching"
    /\ IsOver(Patch(t)) /\ patch[t] = "none"
    /\ \/ /\ call[Patch(t)].at = "ok"
          /\ Composite(t, "upscaled")
          /\ at' = "enhancing"
          /\ UNCHANGED blame
       \/ Fail({Patch(t)}) /\ UNCHANGED patch
    /\ UNCHANGED <<call, remote, found, face>>
PatchEnds(t) ==
    /\ at = "patching"
    /\ IsOver(Patch(t)) /\ patch[t] = "none"
    /\ \/ call[Patch(t)].at = "ok" /\ Composite(t, "upscaled")
       \/ Composite(t, "lanczos")
    /\ at' = "enhancing"
    /\ UNCHANGED <<call, remote, found, face, blame>>

StartFace(f) ==
    /\ at = "enhancing"
    /\ TextsLeft = {}
    /\ f \in FacesLeft
    /\ Uploaded(Pass(f, 1), "facing") \/ NotUploaded(Pass(f, 1))
    /\ UNCHANGED <<remote, found, done>>

Drifted(S) == Below(S, {IdentityMin})

(* The retry is kept if it measures better. *)
Better_Last(old, new) == new
Better(old, new) == IF Below(old, new) THEN new ELSE old

PassEnds(f, k) ==
    /\ at = "facing"
    /\ IsOver(Pass(f, k)) /\ face[f].passes = k - 1
    /\ \/ Fail({Pass(f, k)}) /\ UNCHANGED <<call, face>>
       \/ /\ call[Pass(f, k)].at = "ok"
          /\ \E S \in Measures :
                /\ face' = [face EXCEPT ![f] =
                       [passes |-> k,
                        kept |-> IF k = 1 THEN S ELSE Better(@.kept, S),
                        measured |-> @.measured \cup S]]
                /\ IF k = 1 /\ Drifted(S)
                   THEN Uploaded(Pass(f, 2), "facing") \/ NotUploaded(Pass(f, 2))
                   ELSE at' = "enhancing" /\ UNCHANGED <<call, blame>>
    /\ UNCHANGED <<remote, found, patch>>

(* Colour match, sharpening, and the three files of the exporter. *)
Export ==
    /\ at = "enhancing"
    /\ TextsLeft = {} /\ FacesLeft = {}
    /\ at' = "completed"
    /\ UNCHANGED <<call, remote, found, done, blame>>

(* An exception in a stage's own work, on the image or with the storage *)
Breaks ==
    /\ at \in {"new", "analyzed", "captioned", "planned", "enhancing"}
    /\ Fail({})
    /\ UNCHANGED <<call, remote, found, done>>

Ended == {"completed", "failed", "cut"}

(* The process dies (EnhancementJobs says what becomes of the row). *)
Cut ==
    /\ at \notin Ended
    /\ at' = "cut"
    /\ CallsCut
    /\ UNCHANGED <<found, done, blame>>

-----------------------------------------------------------------------------
Stage ==
    \/ Analyze \/ StartCaptioner \/ CaptionerFails \/ CaptionerEnds \/ Plan
    \/ StartUpscaler \/ UpscalerEnds
    \/ \E t \in Texts : StartPatch(t) \/ PatchEnds(t)
    \/ \E f \in Faces : StartFace(f) \/ \E k \in 1..2 : PassEnds(f, k)
    \/ Export \/ Breaks

Provider(c) == Progress(c) /\ UNCHANGED <<at, found, done, blame>>
Replicate   == \E c \in Calls : Settle(c) /\ UNCHANGED <<at, found, done, blame>>

Next == Stage \/ Cut \/ Replicate \/ \E c \in Calls : Provider(c)

(* The worker's thread runs; each of its HTTP calls has a timeout.         *)
(* Nothing is assumed of Replicate: a prediction may never end.            *)
Fairness == WF_vars(Stage) /\ \A c \in Calls : WF_vars(Provider(c))

Spec == Init /\ [][Next]_vars
FairSpec == Spec /\ Fairness

-----------------------------------------------------------------------------
Waiting == {"captioning", "upscaling", "patching", "facing"}

TypeOK ==
    /\ CallsTypeOK
    /\ at \in {"new", "analyzed", "captioned", "planned", "enhancing"} \cup Waiting \cup Ended
    /\ request \in Requests
    /\ context \in [faces : SUBSET Faces, texts : SUBSET Texts]
    /\ said \in SUBSET SUBSET Texts
    /\ plan \in [denoise : Nat, protect : SUBSET Texts, faces : SUBSET Faces]
    /\ patch \in [Texts -> {"none", "upscaled", "lanczos"}]
    /\ face \in [Faces -> [passes : 0..2, kept : Measures,
                           measured : SUBSET Similarities]]
    /\ blame \in SUBSET Calls

(* A job that has ended has no call under way, and a prediction that goes  *)
(* on unwatched, and is paid for, is one that Replicate did not answer     *)
(* about, or that the process was too dead to ask about.                   *)
UnwatchedForCause ==
    \A c \in Calls :
        /\ at \in Ended => ~IsUnderWay(c)
        /\ remote[c] = "running" /\ ~IsUnderWay(c) => call[c].at \in Unanswered

(* What only improves a picture does not cost the job: neither the OCR nor *)
(* the upscale of a text fails it (captioner.py, local_enhancers.py).      *)
OptionalNeverFails ==
    at = "failed" => blame \cap ({Ocr} \cup {Patch(t) : t \in Texts}) = {}

(* In a finished picture, for a preset that repairs faces, every face was  *)
(* either large under a main pass cool enough to leave it alone, or was    *)
(* repaired on its own, whoever chose the creativity: preset or options.   *)
FacesSurvive ==
    at = "completed" /\ Has("face") =>
        \A f \in context.faces :
            \/ f \in Closeups /\ plan.denoise < CloseupSafeCreativity
            \/ face[f].passes > 0

(* The face that is kept is the most similar of all that were measured,    *)
(* and is below the floor only after a retry.                              *)
IdentityGated ==
    \A f \in Faces :
        /\ ~ Below(face[f].kept, face[f].measured)
        /\ at = "completed" /\ Drifted(face[f].kept) => face[f].passes = 2

(* Every text the OCR saw, or the heuristic when the OCR said nothing, is  *)
(* put back from the original over the generative result, and no other.    *)
TextsSurvive ==
    at = "completed" /\ Has("protect_text") =>
        /\ {t \in Texts : patch[t] # "none"} = context.texts
        /\ said \subseteq {context.texts}

(* The job ends, even if Replicate never settles a prediction: the worker  *)
(* holds one of a few slots meanwhile.                                     *)
AlwaysEnds == <>(at \in Ended)

-----------------------------------------------------------------------------
(* The inductive strengthening the proofs of EnhancementPipelineProofs use. *)

(* Calls whose end a stage still has to look at. *)
AwaitedTexts  == {t \in Texts : call[Patch(t)].at # "idle" /\ patch[t] = "none"}
Awaits(f, k)  == call[Pass(f, k)].at # "idle" /\ face[f].passes = k - 1

(* A call is under way only while its stage waits for it, and a stage      *)
(* waits for one region at a time.                                         *)
StageWaits ==
    /\ \A c \in Calls : IsUnderWay(c) =>
          \/ at = "captioning" /\ c \in {Caption, Ocr}
          \/ at = "upscaling" /\ c = Upscale
          \/ at = "patching" /\ \E t \in AwaitedTexts : c = Patch(t)
          \/ at = "facing" /\ \E f \in Faces, k \in 1..2 : Awaits(f, k) /\ c = Pass(f, k)
    /\ \A s, t \in AwaitedTexts : s = t
    /\ \A f, g \in Faces, k, l \in 1..2 :
          Awaits(f, k) /\ Awaits(g, l) => f = g /\ k = l
    /\ at \notin {"patching", "failed", "cut"} => AwaitedTexts = {}
    /\ at \notin {"facing", "failed", "cut"} => \A f \in Faces, k \in 1..2 : ~Awaits(f, k)

NotYetCalled ==
    /\ at \in {"new", "analyzed"} => call[Caption].at = "idle" /\ call[Ocr].at = "idle"
    /\ at \in {"new", "analyzed", "captioning", "captioned", "planned"} => call[Upscale].at = "idle"
    /\ \A f \in Faces : face[f].passes = 0 => call[Pass(f, 2)].at = "idle"

PlanFollowed ==
    /\ said \subseteq {context.texts}
    /\ at \in {"new", "analyzed", "captioning"} => said = {}
    /\ at \in {"new", "analyzed", "captioning", "captioned"} => \A t \in Texts : patch[t] = "none"
    /\ at \in {"planned", "upscaling", "enhancing", "patching", "facing", "completed"} => plan = Planned
    /\ \A t \in Texts : patch[t] # "none" => t \in plan.protect
    /\ at = "patching" => AwaitedTexts \subseteq plan.protect
    /\ at \in {"facing", "completed"} => TextsLeft = {}
    /\ at = "completed" => FacesLeft = {}

GateKept ==
    \A f \in Faces :
        /\ ~Below(face[f].kept, face[f].measured)
        /\ face[f].passes = 0 => face[f] = Untouched
        /\ Drifted(face[f].kept) /\ face[f].passes # 2 =>
              \/ at \in {"failed", "cut"}
              \/ at = "facing" /\ Awaits(f, 2)

IInv ==
    /\ TypeOK
    /\ \A c \in Calls : CallKnows(c)
    /\ OptionalNeverFails /\ (at # "failed" => blame = {})
    /\ StageWaits /\ NotYetCalled /\ PlanFollowed /\ GateKept

=============================================================================
