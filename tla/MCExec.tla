------------------------------- MODULE MCExec -------------------------------
(* One command on two pods. *)
EXTENDS Exec
=============================================================================
