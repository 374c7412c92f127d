-------------------------- MODULE MCSingleInstance --------------------------
(***************************************************************************)
(* Instances of SingleInstance for TLC: processes are interchangeable.     *)
(***************************************************************************)
EXTENDS SingleInstance, TLC

Interchangeable == Permutations(Proc)
=============================================================================
