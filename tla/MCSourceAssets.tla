---------------------------- MODULE MCSourceAssets ----------------------------
(* Instances of SourceAssets for TLC. *)
EXTENDS SourceAssets
==============================================================================
