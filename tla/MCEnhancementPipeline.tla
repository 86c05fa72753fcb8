------------------------ MODULE MCEnhancementPipeline ------------------------
(***************************************************************************)
(* An instance of EnhancementPipeline for TLC: a close-up and a small      *)
(* face, two texts, every preset with its own creativity and with one on   *)
(* the other side of the cutover.  Two creation attempts and two polls     *)
(* stand for five and for the deadline.                                    *)
(***************************************************************************)
EXTENDS EnhancementPipeline

CONSTANTS large, small, t1, t2

MCFaces == {large, small}
MCTexts == {t1, t2}
MCCalls == {Caption, Ocr, Upscale} \cup {Patch(t) : t \in MCTexts}
           \cup {Pass(f, k) : f \in MCFaces, k \in 1..2}
MCRequests == [preset : {p \in Presets : p.name \in {"portrait", "ai-generated"}}, creativity : {Own, 10, 60}]
              \cup [preset : {p \in Presets : p.name = "product"}, creativity : {Own}]
=============================================================================
