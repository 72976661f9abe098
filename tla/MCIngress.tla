----------------------------- MODULE MCIngress -----------------------------
(* Small instances of VerifiedIngress for TLC. *)
EXTENDS VerifiedIngress

AllProviders == DOMAIN PythonScheme
AllIdentities == Identity
===========================================================================
