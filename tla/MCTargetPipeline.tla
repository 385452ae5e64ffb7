--------------------------- MODULE MCTargetPipeline ---------------------------
(***************************************************************************)
(* Instances of TargetPipeline for TLC.  One localization job owns all the *)
(* targets, so that a cancel hits targets in different states at once; one *)
(* of them, if there are several, has a lip-sync stage.                    *)
(***************************************************************************)
EXTENDS TargetPipeline, TLC

CONSTANTS t1, j1

OneJob == [t \in Targets |-> j1]

WithLips == {t1}

\* Workers and row ids are interchangeable; targets are not (LipSync).
Symmetric == Permutations(Workers) \cup Permutations(TaskIds)
==============================================================================
