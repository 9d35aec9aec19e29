------------------------------ MODULE MCPortal ------------------------------
(* Two processes, two hotkeys.                                              *)
EXTENDS Portal

CONSTANTS p1, p2, h1, h2
=============================================================================
