----------------------------- MODULE MCAnalytics -----------------------------
(* Small instances of Analytics for TLC. *)
EXTENDS Analytics, TLC
=============================================================================
