---- MODULE MCRealtimeHub ----
(* RealtimeHub for TLC: every version of the room is a phase of its own.   *)
EXTENDS RealtimeHub

Phases == [v \in 0..MaxVersion |-> v]
====
