--------------------------- MODULE ClassicSerial ---------------------------
(***************************************************************************)
(* ClassicConcurrent with a single worker that is never interrupted:       *)
(* whatever the handlers do call by call must then be what ClassicRoom     *)
(* says they do in one step.  The difference between this module and       *)
(* ClassicConcurrent is all that the code leaves to chance.                *)
(***************************************************************************)
EXTENDS ClassicConcurrent

VARIABLE served  \* the rows as the last request served has left them

svars == <<cvars, served>>

Snapshot == [room |-> room, user |-> user, rounds |-> rounds,
             stories |-> stories, votes |-> votes]

SInit == CInit /\ served = Snapshot

\* Time passes, and rooms are created, between requests only.
SNext ==
  /\ \/ Quiescent /\ UNCHANGED req /\ (Tick \/ \E p \in Players : CreateRoom(p))
     \/ \E w \in Workers : Quiescent /\ Receive(w) /\ UNCHANGED now
     \/ \E w \in Workers : Serve(w) /\ UNCHANGED now
  /\ UNCHANGED arrived
  /\ served' = IF Quiescent' THEN Snapshot' ELSE served

SSpec == SInit /\ [][SNext]_svars

Serial == INSTANCE ClassicRoom
            WITH room    <- served.room,
                 user    <- served.user,
                 rounds  <- served.rounds,
                 stories <- served.stories,
                 votes   <- served.votes

\* One request at a time, the handlers are atomic: every run of them, seen
\* when no request is in flight, is a run of ClassicRoom.
ImplementsRoom == Serial!Spec

=============================================================================
