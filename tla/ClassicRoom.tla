---------------------------- MODULE ClassicRoom ----------------------------
(***************************************************************************)
(* One room playing "tell your story", with every request served whole:    *)
(* a handler of RoomService, StoryService or VoteService is one action.    *)
(* This is what the API promises a single caller.  ClassicConcurrent cuts  *)
(* the same handlers at their repository calls and lets them interleave.   *)
(*                                                                         *)
(* A request that the code refuses before it has written anything is a     *)
(* stuttering step and is left out.  A refused request that has already    *)
(* expired the room or synchronised a round keeps that effect here too.    *)
(*                                                                         *)
(* A definition whose comment starts with "Bug:" is not part of the model: *)
(* it is the definition after it with a mistake, which the properties must *)
(* notice when the one takes the place of the other.                       *)
(***************************************************************************)
EXTENDS Integers, Sequences, FiniteSets

CONSTANTS
  Players,     \* user identifiers; an identifier is never given out twice
  NoPlayer,    \* the host of a room that does not exist yet
  MaxPlayers,  \* cfg.MaxPlayersPerRoom
  MaxRounds,   \* room.MaxRounds
  WriteTime,   \* room.TimePerRound
  VoteTime,    \* defaultVotingPhaseDuration
  Expiration,  \* cfg.RoomExpiration
  MaxNow       \* bound of the clock, for model checking only

ASSUME PlayersAssumption == IsFiniteSet(Players) /\ NoPlayer \notin Players
ASSUME LimitsAssumption  == MaxPlayers \in Nat \ {0, 1} /\ MaxRounds \in Nat \ {0}
ASSUME TimesAssumption   == /\ WriteTime \in Nat \ {0}
                            /\ VoteTime \in Nat \ {0}
                            /\ Expiration \in Nat \ {0}
                            /\ MaxNow \in Nat

NoTime == -1   \* a nil *time.Time

VARIABLES
  now,      \* the server's clock
  room,     \* the Room row; status "none" until CreateRoom
  user,     \* per identifier: not yet created, a row of the room, or deleted
  rounds,   \* Round rows in creation order; the last one is the current round
  stories,  \* Story rows in creation order
  votes     \* Vote rows in creation order

vars == <<now, room, user, rounds, stories, votes>>

RoomStatus  == {"none", "waiting", "active", "paused", "finished", "expired"}
RoundStatus == {"writing", "voting", "revealed"}

Rooms   == [status : RoomStatus, hostID : Players \cup {NoPlayer}, expiresAt : Nat]
Rounds  == [number : Nat \ {0}, status : RoundStatus, startedAt : Nat,
            phaseEndsAt : Nat \cup {NoTime}, pausedAt : Nat \cup {NoTime}]
Stories == [round : Nat \ {0}, author : Players, isRevealed : BOOLEAN]
Votes   == [round : Nat \ {0}, voter : Players, story : Nat \ {0}]

Members == {p \in Players : user[p] = "member"}

-----------------------------------------------------------------------------
(* The round lifecycle, as functions of a game: a room and its rounds.     *)

game == [room |-> room, rounds |-> rounds]

Commit(g) == room' = g.room /\ rounds' = g.rounds

WithStatus(g, status) == [g EXCEPT !.room.status = status]

WithRound(g, i, round) == [g EXCEPT !.rounds[i] = round]

Current(g) == Len(g.rounds)

NewRound(number) == [number |-> number, status |-> "writing", startedAt |-> now,
                     phaseEndsAt |-> now + WriteTime, pausedAt |-> NoTime]

ToVoting(round) == [round EXCEPT !.status = "voting",
                                 !.phaseEndsAt = now + VoteTime,
                                 !.pausedAt = NoTime]

ToRevealed(round) == [round EXCEPT !.status = "revealed",
                                   !.phaseEndsAt = NoTime,
                                   !.pausedAt = NoTime]

Advanced(round) ==
  CASE round.status = "writing"  -> ToVoting(round)
    [] round.status = "voting"   -> ToRevealed(round)
    [] round.status = "revealed" -> round

\* Bug: the deadline moves the wrong way.
ShiftedBack(time, pause) == IF time = NoTime THEN NoTime ELSE time - pause

Shifted(time, pause) == IF time = NoTime THEN NoTime ELSE time + pause

\* Bug: the pause mark stays.
ResumedStillMarked(round) == [round EXCEPT !.phaseEndsAt = Shifted(@, now - round.pausedAt)]

\* Bug: resuming starts the round over.
ResumedAfresh(round) == NewRound(round.number)

\* Resuming shifts the deadline by the length of the pause.
Resumed(round) ==
  IF round.pausedAt = NoTime
    THEN round
    ELSE [round EXCEPT !.pausedAt = NoTime,
                       !.phaseEndsAt = Shifted(@, now - round.pausedAt)]

\* Bug: nobody looks at expiresAt.
NeverExpire(g) == g

Expire(g) == IF now > g.room.expiresAt THEN WithStatus(g, "expired") ELSE g

\* Bug: the clock runs in a room that is not active.
DueInAnyRoom(g, i) == /\ g.room.status # "expired"
                      /\ g.rounds[i].pausedAt = NoTime
                      /\ g.rounds[i].phaseEndsAt # NoTime
                      /\ now >= g.rounds[i].phaseEndsAt

\* Bug: a phase goes on at its deadline.
DueTooLate(g, i) == /\ g.room.status = "active"
                    /\ g.rounds[i].pausedAt = NoTime
                    /\ g.rounds[i].phaseEndsAt # NoTime
                    /\ now > g.rounds[i].phaseEndsAt

Due(g, i) == /\ g.room.status = "active"
             /\ g.rounds[i].pausedAt = NoTime
             /\ g.rounds[i].phaseEndsAt # NoTime
             /\ now >= g.rounds[i].phaseEndsAt

SyncRound(g, i) ==
  LET e == Expire(g)
  IN  IF Due(e, i) THEN WithRound(e, i, Advanced(e.rounds[i])) ELSE e

\* syncRoomLifecycle, and all that buildRoomState changes: the second of two
\* synchronisations at the same instant finds nothing left to do
\* (SyncIdempotent in ClassicRoomProofs).
SyncCurrent(g) == IF g.rounds = <<>> THEN g ELSE SyncRound(g, Current(g))

-----------------------------------------------------------------------------
(* Ballots, and the winner of a round: most votes, then first written.     *)

StoriesOf(i) == {s \in DOMAIN stories : stories[s].round = i}

VotesFor(s) == {v \in DOMAIN votes : votes[v].story = s}

WroteIn(p, i) == \E s \in StoriesOf(i) : stories[s].author = p

\* Bug: no vote is ever found.
NeverVotedIn(p, i) == FALSE

VotedIn(p, i) == \E v \in DOMAIN votes : votes[v].round = i /\ votes[v].voter = p

Beats(s, t) == \/ Cardinality(VotesFor(s)) > Cardinality(VotesFor(t))
               \/ /\ Cardinality(VotesFor(s)) = Cardinality(VotesFor(t))
                  /\ s <= t

\* Bug: the votes do not count.
FirstWritten(i) == CHOOSE s \in StoriesOf(i) : \A t \in StoriesOf(i) : s <= t

Winner(i) == CHOOSE s \in StoriesOf(i) : \A t \in StoriesOf(i) : Beats(s, t)

-----------------------------------------------------------------------------
(* Requests.                                                               *)

Init ==
  /\ now = 0
  /\ room = [status |-> "none", hostID |-> NoPlayer, expiresAt |-> 0]
  /\ user = [p \in Players |-> "absent"]
  /\ rounds = <<>>
  /\ stories = <<>>
  /\ votes = <<>>

\* The clock starts with the room: only differences of times matter.
Tick ==
  /\ room.status # "none"
  /\ now < MaxNow
  /\ now' = now + 1
  /\ UNCHANGED <<room, user, rounds, stories, votes>>

CreateRoom(p) ==
  /\ room.status = "none"
  /\ room' = [status |-> "waiting", hostID |-> p, expiresAt |-> now + Expiration]
  /\ user' = [user EXCEPT ![p] = "member"]
  /\ UNCHANGED <<now, rounds, stories, votes>>

\* Also the once-a-second poll of the websocket manager.
GetRoomState ==
  /\ room.status # "none"
  /\ Commit(SyncCurrent(Expire(game)))
  /\ UNCHANGED <<now, user, stories, votes>>

JoinRoom(p) ==
  /\ room.status # "none"
  /\ user[p] = "absent"
  /\ LET g == Expire(game)
     IN  \/ /\ g.room.status = "waiting"
            /\ Cardinality(Members) < MaxPlayers
            /\ user' = [user EXCEPT ![p] = "member"]
            /\ Commit(SyncCurrent(g))
         \/ /\ g.room.status # "waiting" \/ Cardinality(Members) >= MaxPlayers
            /\ Commit(g)
            /\ UNCHANGED user
  /\ UNCHANGED <<now, stories, votes>>

\* Bug: the room is closed by whoever leaves last.
ClosesIfLast(p) == Members = {p}

Closes(p) == p = room.hostID \/ Members = {p}

\* Leaving does not ask whether the room has expired.
LeaveRoom(p) ==
  /\ user[p] = "member"
  /\ user' = [user EXCEPT ![p] = "gone"]
  /\ Commit(SyncCurrent(IF Closes(p) THEN WithStatus(game, "finished") ELSE game))
  /\ UNCHANGED <<now, stories, votes>>

Opened(g, number) == WithStatus([g EXCEPT !.rounds = Append(@, NewRound(number))], "active")

OnCurrent(g, round) == IF g.rounds = <<>> THEN g ELSE WithRound(g, Current(g), round)

Unpaused(g) == WithStatus(OnCurrent(g, Resumed(g.rounds[Current(g)])), "active")

StartGame(p) ==
  /\ user[p] = "member" /\ p = room.hostID
  /\ LET g == Expire(game)
     IN  \/ g.room.status = "waiting" /\ Commit(SyncCurrent(Opened(g, 1)))
         \/ g.room.status = "paused" /\ g.rounds # <<>> /\ Commit(SyncCurrent(Unpaused(g)))
         \/ /\ g.room.status \notin {"waiting", "paused"}
            /\ Commit(g)
  /\ UNCHANGED <<now, user, stories, votes>>

Paused(g) ==
  WithStatus(OnCurrent(g, [g.rounds[Current(g)] EXCEPT !.pausedAt = now]), "paused")

\* A toggle, which does not ask whether the room has expired either.
PauseRound(p) ==
  /\ user[p] = "member" /\ p = room.hostID
  /\ \/ room.status = "active" /\ Commit(SyncCurrent(Paused(game)))
     \/ room.status = "paused" /\ Commit(SyncCurrent(Unpaused(game)))
  /\ UNCHANGED <<now, user, stories, votes>>

\* Bug: one round too many.
SteppedPastLast(g) ==
  LET i == Current(g)
      r == g.rounds[i]
  IN  CASE r.status = "writing" -> WithRound(g, i, ToVoting(r))
        [] r.status = "voting"  -> WithRound(g, i, ToRevealed(r))
        [] r.status = "revealed" /\ r.number > MaxRounds -> WithStatus(g, "finished")
        [] r.status = "revealed" /\ r.number <= MaxRounds -> Opened(g, r.number + 1)

\* Bug: the game is over when the last vote is.
SteppedToTheEnd(g) ==
  LET i == Current(g)
      r == g.rounds[i]
  IN  CASE r.status = "writing" -> WithRound(g, i, ToVoting(r))
        [] r.status = "voting" /\ r.number >= MaxRounds -> WithStatus(g, "finished")
        [] r.status = "voting" /\ r.number < MaxRounds -> WithRound(g, i, ToRevealed(r))
        [] r.status = "revealed" /\ r.number >= MaxRounds -> WithStatus(g, "finished")
        [] r.status = "revealed" /\ r.number < MaxRounds -> Opened(g, r.number + 1)

\* What the host's "next" does to the current round once it is synchronised.
Stepped(g) ==
  LET i == Current(g)
      r == g.rounds[i]
  IN  CASE r.status = "writing" -> WithRound(g, i, ToVoting(r))
        [] r.status = "voting"  -> WithRound(g, i, ToRevealed(r))
        [] r.status = "revealed" /\ r.number >= MaxRounds -> WithStatus(g, "finished")
        [] r.status = "revealed" /\ r.number < MaxRounds -> Opened(g, r.number + 1)

\* Neither a pause nor the end of the game refuses "next".
NextRound(p) ==
  /\ user[p] = "member" /\ p = room.hostID
  /\ LET g == SyncCurrent(Expire(game))
     IN  \/ /\ g.room.status # "expired" /\ g.rounds # <<>>
            /\ Commit(SyncCurrent(Stepped(g)))
         \/ /\ g.room.status = "expired" \/ g.rounds = <<>>
            /\ Commit(g)
  /\ UNCHANGED <<now, user, stories, votes>>

\* GetRoundStories and GetRoundVotes: whoever reads a round moves its clock.
ReadRound(i) ==
  /\ Commit(SyncRound(game, i))
  /\ UNCHANGED <<now, user, stories, votes>>

Playable(g, i, status) == g.room.status = "active" /\ g.rounds[i].status = status

SubmitStory(p, i) ==
  /\ LET g == SyncRound(game, i)
         accepted == /\ Playable(g, i, "writing")
                     /\ user[p] = "member"
                     /\ ~WroteIn(p, i)
     IN  /\ Commit(g)
         /\ \/ /\ accepted
               /\ stories' = Append(stories, [round |-> i, author |-> p, isRevealed |-> FALSE])
            \/ ~accepted /\ UNCHANGED stories
  /\ UNCHANGED <<now, user, votes>>

SubmitVote(p, i, s) ==
  /\ LET g == SyncRound(game, i)
         accepted == /\ Playable(g, i, "voting")
                     /\ user[p] = "member"
                     /\ stories[s].round = i
                     /\ stories[s].author # p
                     /\ ~VotedIn(p, i)
     IN  /\ Commit(g)
         /\ \/ /\ accepted
               /\ votes' = Append(votes, [round |-> i, voter |-> p, story |-> s])
            \/ ~accepted /\ UNCHANGED votes
  /\ UNCHANGED <<now, user, stories>>

\* The winner is marked before its author is looked up, so it stays marked
\* when the author has left and the request fails.
GetTopStory(i) ==
  /\ LET g == SyncRound(game, i)
         accepted == /\ g.room.status \notin {"waiting", "expired"}
                     /\ g.rounds[i].status = "revealed"
                     /\ StoriesOf(i) # {}
     IN  /\ Commit(g)
         /\ \/ accepted /\ stories' = [stories EXCEPT ![Winner(i)].isRevealed = TRUE]
            \/ ~accepted /\ UNCHANGED stories
  /\ UNCHANGED <<now, user, votes>>

Next ==
  \/ Tick
  \/ GetRoomState
  \/ \E p \in Players :
       \/ CreateRoom(p) \/ JoinRoom(p) \/ LeaveRoom(p)
       \/ StartGame(p) \/ PauseRound(p) \/ NextRound(p)
       \/ \E i \in DOMAIN rounds :
            \/ SubmitStory(p, i)
            \/ \E s \in DOMAIN stories : SubmitVote(p, i, s)
  \/ \E i \in DOMAIN rounds : ReadRound(i) \/ GetTopStory(i)

Spec == Init /\ [][Next]_vars

-----------------------------------------------------------------------------
(* Properties.                                                             *)

\* Types of the rows; a round is never paused in the future.
TypeOK ==
  /\ now \in Nat
  /\ room \in Rooms
  /\ user \in [Players -> {"absent", "member", "gone"}]
  /\ rounds \in Seq(Rounds)
  /\ stories \in Seq(Stories)
  /\ votes \in Seq(Votes)
  /\ \A i \in DOMAIN rounds : rounds[i].pausedAt <= now

\* Rounds are played one after the other, 1 to MaxRounds, and a round is only
\* opened once the one before it is revealed (StartGame, NextRound).
RoundsInOrder ==
  \A i \in DOMAIN rounds :
    /\ rounds[i].number = i /\ i <= MaxRounds
    /\ i < Len(rounds) => rounds[i].status = "revealed"

\* The status of the room agrees with the progress of the game: players wait
\* without a round, play with one, and a room that finished while its host is
\* still in it has revealed the last of its rounds.
StatusMatchesProgress ==
  /\ room.status \in {"none", "waiting"} => rounds = <<>>
  /\ room.status \in {"active", "paused"} => rounds # <<>>
  /\ room.status = "finished" /\ user[room.hostID] = "member" =>
       Len(rounds) = MaxRounds /\ rounds[MaxRounds].status = "revealed"

\* An active room never has a stopped clock: the pause mark of the current
\* round is cleared on every way back to active, through PauseRound, StartGame
\* or NextRound.  A mark left behind would freeze the round for good, because
\* SyncRound skips a round that is marked.
ActiveClockRuns ==
  room.status = "active" => rounds[Len(rounds)].pausedAt = NoTime

\* A player has one story and one vote in a round, votes for a story of that
\* round, and never for their own (SubmitStory, SubmitVote).
OneBallotEach ==
  /\ \A s, t \in DOMAIN stories :
       stories[s].round = stories[t].round /\ stories[s].author = stories[t].author => s = t
  /\ \A v, w \in DOMAIN votes :
       votes[v].round = votes[w].round /\ votes[v].voter = votes[w].voter => v = w
  /\ \A v \in DOMAIN votes :
       LET s == votes[v].story
       IN  /\ s \in DOMAIN stories
           /\ stories[s].round = votes[v].round
           /\ stories[s].author # votes[v].voter

\* The story GetTopStory has marked is still the winner whenever anybody asks
\* again: one mark at most per round, on the story that beats all the others,
\* in a round whose votes are over.
MarkedStoryWins ==
  \A s \in DOMAIN stories :
    stories[s].isRevealed =>
      /\ rounds[stories[s].round].status = "revealed"
      /\ \A t \in StoriesOf(stories[s].round) : Beats(s, t)

Phase(status) == CASE status = "writing" -> 1 [] status = "voting" -> 2 [] status = "revealed" -> 3

\* The state machine of a round, writing -> voting -> revealed, has no way
\* back, and a round is never withdrawn.
PhaseNeverRegresses ==
  [][\A i \in DOMAIN rounds :
       i \in DOMAIN rounds' /\ Phase(rounds[i].status) <= Phase(rounds'[i].status)]_rounds

OnTime(g, i) == g.rounds[i].phaseEndsAt # NoTime => now < g.rounds[i].phaseEndsAt

TimelyBallots ==
  /\ \A s \in DOMAIN stories' :
       IF s \in DOMAIN stories
         THEN stories'[s].round = stories[s].round /\ stories'[s].author = stories[s].author
         ELSE LET i == stories'[s].round
              IN  /\ Playable(game, i, "writing") /\ Playable(game', i, "writing")
                  /\ OnTime(game', i)
  /\ \A v \in DOMAIN votes' :
       IF v \in DOMAIN votes
         THEN votes'[v] = votes[v]
         ELSE LET i == votes'[v].round
              IN  Playable(game', i, "voting") /\ OnTime(game', i)
  /\ Len(stories) <= Len(stories') /\ Len(votes) <= Len(votes')

\* Ballots arrive only in their phase and before its deadline: a new story in a
\* round that is being written before and after the request that carries it, a
\* new vote in a round that is being voted on; nothing is ever withdrawn or
\* rewritten but the mark of the winner.
BallotsInPhase == [][TimelyBallots]_vars

\* The clock of a paused room stands still: while the room stays paused only
\* the host's "next" moves a round, whatever is read or submitted meanwhile.
PauseHolds ==
  [][room.status = "paused" /\ room'.status = "paused" =>
       \/ rounds' = rounds
       \/ NextRound(room.hostID)]_vars

\* A room past its lifetime is dead: no request that finds it so starts a
\* round, moves one on, or takes a player, a story, a vote or a mark.
ExpiredIsDead ==
  [][room.status # "none" /\ now > room.expiresAt =>
       /\ Len(rounds') = Len(rounds)
       /\ \A i \in DOMAIN rounds : rounds'[i].status = rounds[i].status
       /\ stories' = stories /\ votes' = votes
       /\ \A p \in Players : user[p] = "absent" => user'[p] = "absent"]_vars

Life == INSTANCE RoomLife
          WITH status <- room.status,
               opened <- Len(rounds),
               hosted <- room.hostID \in Members

\* Whatever requests are served, the room lives the life of RoomLife: a host who
\* starts, interrupts and closes it, rounds one by one, and an end for good.
LivesItsLife == Life!Spec

=============================================================================
