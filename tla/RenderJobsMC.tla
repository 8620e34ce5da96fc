---------------------------- MODULE RenderJobsMC ----------------------------
(* Small instances of RenderJobs: every request asks for the same picture, *)
(* so all of them meet in one request cache key.                           *)
EXTENDS RenderJobs, TLC

CONSTANT k1

OneKey == {k1}
SameKey == [j \in Jobs |-> k1]

(* n disturbances of each kind in ds, none of the others *)
UpTo(n, ds) == [d \in Disturbance |-> IF d \in ds THEN n ELSE 0]

(* Everything but expiring receipts and operator edits; two store failures *)
(* so that the except block's own update can fail as well.                 *)
LifecycleBudget == [UpTo(1, {"api", "asset", "crash", "port"}) EXCEPT !["store"] = 2]
(* Duplicate deliveries, operator edits, one failing port and one failing   *)
(* call of the API.                                                        *)
ChaosBudget == [UpTo(2, {"expire", "operator"}) EXCEPT !["port"] = 1, !["api"] = 1]
(* Duplicate deliveries and crashes, but no attempt ends in failure. *)
ReuseBudget == UpTo(1, {"asset", "crash", "expire"})
PortBudget == UpTo(1, {"port"})
ExpireBudget == UpTo(1, {"expire"})
CrashBudget == UpTo(1, {"crash"})
OperatorBudget == UpTo(1, {"operator"})

Interchangeable == Permutations(Jobs) \cup Permutations(Slots)
=============================================================================
