---- MODULE MCLifecycle ----
(***************************************************************************)
(* Instances of Lifecycle for model-checking.                              *)
(***************************************************************************)
EXTENDS Lifecycle

CONSTANTS s1, s2, s3

MCShells == {s1, s2, s3}
====
