------------------------------ MODULE MCEngine ------------------------------
(* The engine on small instances.                                            *)
EXTENDS Engine

\* The events of the last step are an output, not a part of the state.
EngineView == <<actorVars, inbox, cmds, retired, rtVars, workerVars, ringVars, clientVars>>

AllOthers == Control \cup Trouble
LostOnly == {[type |-> "DeviceError", lost |-> TRUE]}
=============================================================================
