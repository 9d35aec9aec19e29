-------------------------------- MODULE MCUp --------------------------------
(* The command lines that tell the properties apart.                        *)
EXTENDS Up, FiniteSets

MCOptions ==
  {o \in [until : BOOLEAN, ask : BOOLEAN, newVolume : BOOLEAN, cap : {0, 1},
          verify : BOOLEAN, strict : BOOLEAN, jupyter : BOOLEAN,
          then : {"return", "logs", "ssh"}] :
     /\ o.then # "return" => ~o.verify /\ ~o.strict /\ ~o.jupyter
     /\ o.ask = o.newVolume
     /\ o.jupyter => o.strict}
=============================================================================
