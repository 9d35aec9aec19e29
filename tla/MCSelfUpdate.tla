---------------------------- MODULE MCSelfUpdate ----------------------------
(* Three releases; one process after the other, or two at a time.          *)
EXTENDS SelfUpdate

MCVersions == 1 .. 3
=============================================================================
