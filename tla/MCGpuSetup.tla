----------------------------- MODULE MCGpuSetup -----------------------------
(* One host, set up twice: a second setup meets what the first one left.   *)
EXTENDS GpuSetup
=============================================================================
