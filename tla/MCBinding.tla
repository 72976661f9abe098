----------------------------- MODULE MCBinding -----------------------------
(* Small instances of BindingWorker for TLC. *)
EXTENDS BindingProperties, TLC

\* Workers of one binding are interchangeable; those of different bindings are not.
Symmetry == Permutations(ChecksAck) \cup Permutations(Workers \ ChecksAck)
===========================================================================
