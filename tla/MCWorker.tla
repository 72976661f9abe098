----------------------------- MODULE MCWorker -----------------------------
(* Small instances of KnockerWorker for TLC. *)
EXTENDS WorkerProperties, TLC

\* Ids are interchangeable; events, jobs and deliveries are not, for they are ordered.
Symmetry == Permutations(Workers) \cup Permutations(Endpoints)
===========================================================================
