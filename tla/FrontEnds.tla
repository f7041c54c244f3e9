------------------------------- MODULE FrontEnds -------------------------------
(* The three ways that callers reach a conversation besides the web session   *)
(* itself: the websocket gateway with its speech recognition, the stream      *)
(* adapter of the runtime, and the Pipecat processor of the legacy conductor. *)
(* They share nothing, so a behaviour has one of them, chosen at the start.   *)
EXTENDS AudioGateway, StreamAdapter, LegacyConductor

VARIABLE lane
partVars == <<gatewayVars, streamVars, legacyVars>>
vars == <<partVars, lane>>

Init == GatewayInit /\ StreamInit /\ LegacyInit /\ lane \in {"gateway", "stream", "pipecat"}

Next ==
  /\ UNCHANGED lane
  /\ \/ lane = "gateway" /\ GatewayNext /\ UNCHANGED <<streamVars, legacyVars>>
     \/ lane = "stream" /\ StreamNext /\ UNCHANGED <<gatewayVars, legacyVars>>
     \/ lane = "pipecat" /\ LegacyNext /\ UNCHANGED <<gatewayVars, streamVars>>

(* The event loop goes on with the handlers, the turns and the readers, and   *)
(* consumers ask for the next frame; a connection sends when it likes.        *)
Program ==
  /\ UNCHANGED lane
  /\ \/ lane = "gateway" /\ (\E c \in Conns : Handle(c)) /\ UNCHANGED <<streamVars, legacyVars>>
     \/ /\ lane = "stream" /\ UNCHANGED <<gatewayVars, legacyVars>>
        /\ \E i \in Iterations : Consume(i) \/ Works(i)
Spec == Init /\ [][Next]_vars /\ WF_vars(Program)

-------------------------------------------------------------------------------
(* Once no more frames come, every handler is through with its message and    *)
(* every iteration that waited for a frame has seen the end of its turn,      *)
(* whatever frames the others took from it.                                   *)
ComesToRest ==
  <>[](/\ \A c \in Conns : handler[c] \in {"idle", "gone"}
       /\ \A i \in Iterations : iter[i] # "waiting")
===============================================================================
