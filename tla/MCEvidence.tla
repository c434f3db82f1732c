----------------------------- MODULE MCEvidence -----------------------------
(* Two ordinary texts, one of spaces only and one with a space at its end. *)
EXTENDS DiagnosticEvidence
=============================================================================
