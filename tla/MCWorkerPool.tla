---- MODULE MCWorkerPool ----
(***************************************************************************)
(* Jobs are numbers and are submitted in their order.  The pool does not   *)
(* tell them apart, so this loses no behaviour up to renaming; unlike a    *)
(* symmetry set it is sound for liveness as well, since callers are under  *)
(* no fairness.                                                            *)
(***************************************************************************)
EXTENDS WorkerPool

SubmittedInOrder ==
    \A j, k \in Job : j < k /\ promise'[k] # "none" => promise'[j] # "none"
====
