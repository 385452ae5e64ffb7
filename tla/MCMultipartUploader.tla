-------------------------- MODULE MCMultipartUploader --------------------------
(* Two uploaders of two different files with the same name and size. *)
EXTENDS MultipartUploader, TLC

CONSTANTS c1, f1, f2, w1

TwoFiles == [c \in Clients |-> IF c = c1 THEN f1 ELSE f2]

\* The second uploader is a single worker, as after concurrency = 1.
OneIsPlain == [c \in Clients |-> IF c = c1 THEN Workers ELSE {w1}]
==============================================================================
