--------------------------- MODULE MCTargetArtefacts ---------------------------
(* Three segments: two that one speaker says, and one of another. *)
EXTENDS TargetArtefacts, TLC

CONSTANTS s1, s2, s3, ann, bob

TwoSpeakers == (s1 :> ann) @@ (s2 :> ann) @@ (s3 :> bob)
===============================================================================
