-------------------------- MODULE WorkerRuntimeMC --------------------------
(* Small instances of WorkerRuntime. *)
EXTENDS WorkerRuntime
=============================================================================
