------------------------------ MODULE GameRoom ------------------------------
(***************************************************************************)
(* A room of the game its host asks for, served by the one RoomService and *)
(* the one round lifecycle: ClassicRoom and ThreeLiesRoom side by side, and*)
(* the manager that polls either.                                          *)
(*                                                                         *)
(* As there, "Bug:" marks what is not part of the model.                   *)
(*                                                                         *)
(* A request of the other game's services is refused; it synchronises the  *)
(* round at most, as the requests do that both games already have.         *)
(***************************************************************************)
EXTENDS Integers, Sequences, FiniteSets

CONSTANTS
  Players, NoPlayer, MaxPlayers, WriteTime, VoteTime,
  Expiration, MaxNow,                                  \* as in both rooms
  Statements, CountdownTime, RevealTime, CommentTime,  \* as in ThreeLiesRoom
  ClassicRounds, ThreeLiesRounds                       \* room.MaxRounds of a room of each game

VARIABLES
  gameType,                  \* room.GameTypeID, of the room and of the one still to come
  now, room, user, rounds,   \* the rows that both games have
  stories, ballots,          \* of a classic room: its stories and votes
  postgres, sets, guesses, score   \* of three lies: the votes are guesses

vars == <<gameType, now, room, user, rounds, stories, ballots, postgres, sets, guesses, score>>

Classic   == INSTANCE ClassicRoom WITH votes <- ballots, MaxRounds <- ClassicRounds
ThreeLies == INSTANCE ThreeLiesRoom WITH votes <- guesses, MaxRounds <- ThreeLiesRounds

GameTypes == {"tell-your-story", "three-lies-one-truth"}

Init ==
  /\ gameType \in GameTypes
  /\ Classic!Init /\ ThreeLies!Init
  /\ gameType = "tell-your-story" => ~postgres   \* a classic room is the same with either

\* One game's services leave the other game's rows alone.
InClassic(step) ==
  /\ gameType = "tell-your-story" /\ step
  /\ UNCHANGED <<gameType, postgres, sets, guesses, score>>

InThreeLies(step) ==
  /\ gameType = "three-lies-one-truth" /\ step
  /\ UNCHANGED <<gameType, postgres, stories, ballots>>

\* The room may be created late, so that it outlives the clock of the model.
Tick ==
  \/ InClassic(Classic!Tick)
  \/ InThreeLies(ThreeLies!Tick)
  \/ /\ room.status = "none" /\ now + Expiration < MaxNow
     /\ now' = now + 1
     /\ UNCHANGED <<gameType, room, user, rounds, stories, ballots, postgres, sets, guesses, score>>

\* Bug: only the rooms that are being played are polled.
PollPlayed ==
  /\ room.status = "active"
  /\ \/ InClassic(Classic!GetRoomState)
     \/ InThreeLies(\E shuffle \in ThreeLies!Shuffles : ThreeLies!GetRoomState(shuffle))

\* The manager's timer synchronises every room that has a connected client,
\* whatever its status.
Poll ==
  \/ InClassic(Classic!GetRoomState)
  \/ InThreeLies(\E shuffle \in ThreeLies!Shuffles : ThreeLies!GetRoomState(shuffle))

Next == Tick \/ Poll \/ InClassic(Classic!Next) \/ InThreeLies(ThreeLies!Next)

Spec == Init /\ [][Next]_vars

\* Time passes, and the manager polls; no player is assumed to do anything.
FairSpec == Spec /\ WF_vars(Tick) /\ WF_vars(Poll)

-----------------------------------------------------------------------------
(* Properties.                                                             *)

\* An active room whose current phase ends at the given time.
PhaseUntil(time) == room.status = "active" /\ rounds[Len(rounds)].phaseEndsAt = time

\* A writing phase of three lies that has nothing to present.
NothingToPresent ==
  /\ gameType = "three-lies-one-truth"
  /\ rounds[Len(rounds)].status = "writing"
  /\ ~ThreeLies!Presentable(ThreeLies!game, Len(rounds))

\* A game nobody attends to goes on: in a room that outlives the clock of the
\* model any deadline is noticed by the poll alone, and the phase gives way to
\* the next or the game to its end, but for the phase that has nothing to present.
PhaseEventuallyEnds ==
  \A time \in 1..MaxNow :
    PhaseUntil(time) /\ ~NothingToPresent /\ MaxNow <= room.expiresAt ~> ~PhaseUntil(time)

\* No room stays for good: one that nobody starts, that is paused and forgotten,
\* or stuck with nothing to present, is over once its life is, since it is polled.
RoomEventuallyOver ==
  room.status # "none" /\ room.expiresAt < MaxNow ~> room.status \in {"finished", "expired"}

=============================================================================
