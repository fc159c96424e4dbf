---------------------------- MODULE MCPassPipeline ----------------------------
(* Every combination of the options and variables that decide where SCF is     *)
(* bridged and dead code goes. The gates of single passes in between are taken *)
(* together: the generic ones and EscapeAnalysis, or else MemorySlotPilot.     *)
EXTENDS PassPipeline

MCEnabled == {{}, {"SwitchRecovery", "EscapeAnalysis"}}

MCOptions == {o \in [skip : BOOLEAN, useCast : BOOLEAN, selective : BOOLEAN,
                     enabled : MCEnabled] : o.enabled # {} => o.selective}

MCEnvironments ==
    {e \in [early : BOOLEAN, defer : {"unset", "off", "on"},
            direct : {"unset", "off", "on"}, legacy : BOOLEAN,
            escape : BOOLEAN, pilot : BOOLEAN, generic : BOOLEAN,
            verifyEach : BOOLEAN] : e.escape = e.generic /\ e.pilot # e.generic}

(* Two runs on one pass manager, in the default environment. *)
MCDefault == {e \in MCEnvironments : /\ ~e.early /\ ~e.legacy /\ ~e.generic
                                     /\ e.defer = "unset" /\ e.direct = "unset"}
==============================================================================
