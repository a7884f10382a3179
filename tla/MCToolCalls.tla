------------------------------ MODULE MCToolCalls ------------------------------
(* A call of each kind, in one round or in several.                         *)
EXTENDS ToolCalls

CONSTANTS api, script, unknown

QueuedCalls == { api }
PodCalls == { script }
ImmediateCalls == { unknown }

NoCalls == {}
===============================================================================
