----------------------------- MODULE MCReplay ------------------------------
(* Small instances of BindingReplay for TLC. *)
EXTENDS BindingReplay, TLC

\* Workers of one binding are interchangeable, and so are callers.
Symmetry == Permutations(ChecksAck) \cup Permutations(Callers)
============================================================================
