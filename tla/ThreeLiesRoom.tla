---------------------------- MODULE ThreeLiesRoom ----------------------------
(***************************************************************************)
(* One room playing "three lies, one truth", with every request served     *)
(* whole.  A round counts down, is written, and then presents the truth    *)
(* sets one after the other: vote, reveal, commentary.  Nothing but the    *)
(* clock moves it: any request that synchronises the round finds a phase   *)
(* over and starts the next one.                                           *)
(*                                                                         *)
(* As in ClassicRoom, requests refused before they have written anything   *)
(* are left out, and definitions marked "Bug:" are not part of the model.  *)
(***************************************************************************)
EXTENDS Integers, Sequences, FiniteSets, FiniteSetsExt, Functions

CONSTANTS
  Players, NoPlayer, MaxPlayers, MaxRounds, Expiration, MaxNow,  \* as in ClassicRoom
  Statements,     \* the statements of a truth set, told apart by their index only
  CountdownTime,  \* defaultCountdownPhaseDuration
  WriteTime,      \* room.TimePerRound
  VoteTime,       \* defaultVotingPhaseDuration
  RevealTime,     \* defaultRevealPhaseDuration
  CommentTime     \* defaultCommentaryPhaseDuration

ASSUME TLPlayersAssumption == IsFiniteSet(Players) /\ NoPlayer \notin Players
ASSUME TLLimitsAssumption  == MaxPlayers \in Nat \ {0, 1} /\ MaxRounds \in Nat \ {0}
ASSUME TLTimesAssumption ==
  /\ {CountdownTime, WriteTime, VoteTime, RevealTime, CommentTime, Expiration} \subseteq Nat \ {0}
  /\ MaxNow \in Nat

NoTime == -1

VARIABLES
  postgres,         \* whether the server was started with a database: the GORM repositories
  now, room, user,  \* as in ClassicRoom
  rounds,           \* Round rows in creation order; active: index of a truth set, or 0
  sets,             \* TruthSet rows in creation order
  votes,            \* TruthSetVote rows
  score             \* RoomScore per player, 0 while there is no row

vars == <<postgres, now, room, user, rounds, sets, votes, score>>

RoomStatus  == {"none", "waiting", "active", "paused", "finished", "expired"}
Presenting  == {"presentation_voting", "reveal", "commentary"}
RoundStatus == {"countdown", "writing", "finished"} \cup Presenting

Rooms  == [status : RoomStatus, hostID : Players \cup {NoPlayer}, expiresAt : Nat]
Rounds == [number : Nat \ {0}, status : RoundStatus, active : Nat,
           phaseEndsAt : Nat \cup {NoTime}, pausedAt : Nat \cup {NoTime}]
TruthSets == [round : Nat \ {0}, author : Players, truth : Statements,
              order : Nat, scored : BOOLEAN]
Votes  == [set : Nat \ {0}, voter : Players, choice : Statements]

Members == {p \in Players : user[p] = "member"}

-----------------------------------------------------------------------------
(* The points of one truth set, and the ranking.                           *)

VotesOn(s) == {v \in votes : v.set = s}

CorrectVotes(row, ballots) == {v \in ballots : v.choice = row.truth}

PlayerPoints(correct, p) ==
  IF p \notin {v.voter : v \in correct} THEN 0
  ELSE IF Cardinality(correct) = 1 THEN 12 ELSE 10

\* What the author gets when c of n votes are correct.
AuthorPoints(c, n) ==
  CASE c = 0 -> 10
    [] c # 0 /\ c = n -> 0
    [] c # 0 /\ c # n /\ c = n - c -> 2
    [] c # 0 /\ c < n - c -> 5
    [] c # 0 /\ c # n /\ c > n - c -> 0

\* calculateThreeLiesScoreDelta, for one player.
Points(row, ballots, p) ==
  LET correct == CorrectVotes(row, ballots)
  IN  PlayerPoints(correct, p)
      + IF p = row.author THEN AuthorPoints(Cardinality(correct), Cardinality(ballots)) ELSE 0

\* The players left in the room, by score; who comes first of those with the
\* same score, a matter of nicknames, is left open.
Rankings ==
  {ranking \in Bijection(1..Cardinality(Members), Members) :
     \A j, k \in DOMAIN ranking : j < k => score[ranking[j]] >= score[ranking[k]]}

\* Bug: no position is left out after those that are shared.
PositionsWithoutGaps(ranking) ==
  LET position[k \in DOMAIN ranking] ==
        IF k = 1 THEN 1
        ELSE position[k - 1] + IF score[ranking[k]] = score[ranking[k - 1]] THEN 0 ELSE 1
  IN  position

\* buildThreeLiesFinalRanking.
Positions(ranking) ==
  LET position[k \in DOMAIN ranking] ==
        IF k = 1 THEN 1
        ELSE IF score[ranking[k]] = score[ranking[k - 1]] THEN position[k - 1] ELSE k
  IN  position

-----------------------------------------------------------------------------
(* The round lifecycle, as functions of a game.                            *)

game == [room |-> room, rounds |-> rounds, sets |-> sets, score |-> score]

Commit(g) == room' = g.room /\ rounds' = g.rounds /\ sets' = g.sets /\ score' = g.score

WithStatus(g, status) == [g EXCEPT !.room.status = status]

WithRound(g, i, round) == [g EXCEPT !.rounds[i] = round]

Current(g) == Len(g.rounds)

SetsOf(g, i) == {s \in DOMAIN g.sets : g.sets[s].round = i}

NewRound(number, status, duration) ==
  [number |-> number, status |-> status, active |-> 0,
   phaseEndsAt |-> now + duration, pausedAt |-> NoTime]

Enter(round, status, duration) ==
  [round EXCEPT !.status = status, !.phaseEndsAt = now + duration, !.pausedAt = NoTime]

\* Bug: the pause mark stays.
ResumedStillMarked(round) == [round EXCEPT !.phaseEndsAt = @ + (now - round.pausedAt)]

\* Bug: the deadline moves the wrong way.
ResumedBackwards(round) ==
  IF round.pausedAt = NoTime
    THEN round
    ELSE [round EXCEPT !.pausedAt = NoTime, !.phaseEndsAt = @ - (now - round.pausedAt)]

\* Bug: resuming starts the phase over.
ResumedAfresh(round) == Enter(round, round.status, WriteTime)

\* Resuming shifts the deadline by the length of the pause.
Resumed(round) ==
  IF round.pausedAt = NoTime
    THEN round
    ELSE [round EXCEPT !.pausedAt = NoTime,
                       !.phaseEndsAt = IF @ = NoTime THEN @ ELSE @ + (now - round.pausedAt)]

\* Those who have written a truth set that has not got its order yet.
Unordered == {sets[s].author : s \in {t \in DOMAIN sets : rounds[sets[t].round].active = 0}}

\* A shuffle ranks the authors of a round.
Shuffles == Bijection(Unordered, 1..Cardinality(Unordered))

\* Bug: orders start at zero.
PlaceFromZero(g, s, shuffle) ==
  Cardinality({t \in SetsOf(g, g.sets[s].round) :
                 shuffle[g.sets[t].author] < shuffle[g.sets[s].author]})

Place(g, s, shuffle) ==
  1 + Cardinality({t \in SetsOf(g, g.sets[s].round) :
                     shuffle[g.sets[t].author] < shuffle[g.sets[s].author]})

\* presentationOrderAssigned: a round is shuffled once.
Ordered(g, i, shuffle) ==
  IF \A s \in SetsOf(g, i) : g.sets[s].order > 0
    THEN g
    ELSE [g EXCEPT !.sets = [s \in DOMAIN g.sets |->
            IF s \in SetsOf(g, i) THEN [g.sets[s] EXCEPT !.order = Place(g, s, shuffle)]
                                  ELSE g.sets[s]]]

\* idx_truth_set_round_order is a unique index on presentation_order alone.
OrderFree(g, order) == postgres => \A s \in DOMAIN g.sets : g.sets[s].order # order

Presentable(g, i) == SetsOf(g, i) # {} /\ OrderFree(g, 1)

Present(g, i, s) ==
  WithRound(g, i, [Enter(g.rounds[i], "presentation_voting", VoteTime) EXCEPT !.active = s])

\* advanceToPresentationVoting; it fails, and changes nothing, without a truth
\* set and when the first of the orders is taken.
ToPresentation(g, i, shuffle) ==
  LET o == Ordered(g, i, shuffle)
  IN  IF Presentable(g, i)
        THEN Present(o, i, CHOOSE s \in SetsOf(o, i) :
                             \A t \in SetsOf(o, i) : o.sets[s].order <= o.sets[t].order)
        ELSE g

Scored(g, s) ==
  IF g.sets[s].scored
    THEN g
    ELSE [g EXCEPT !.sets[s].scored = TRUE,
                   !.score = [p \in Players |-> @[p] + Points(g.sets[s], VotesOn(s), p)]]

ToReveal(g, i) ==
  WithRound(Scored(g, g.rounds[i].active), i, Enter(g.rounds[i], "reveal", RevealTime))

Finished(round) == [round EXCEPT !.status = "finished", !.phaseEndsAt = NoTime, !.pausedAt = NoTime]

\* Bug: the set before, not the one after.
NextSetsBackwards(g, i) ==
  LET order == g.sets[g.rounds[i].active].order
  IN  {s \in SetsOf(g, i) : order # 0 /\ g.sets[s].order = order - 1}

\* nextPresentationTruthSet: at most one.
NextSets(g, i) ==
  LET order == g.sets[g.rounds[i].active].order
  IN  {s \in SetsOf(g, i) : order # 0 /\ g.sets[s].order = order + 1}

\* Bug: one round too many.
IsLastRoundPassed(round) == round.number > MaxRounds

IsLastRound(round) == round.number >= MaxRounds

AfterCommentary(g, i) ==
  LET r == g.rounds[i]
      f == WithRound(g, i, Finished(r))
  IN  CASE NextSets(g, i) # {} -> Present(g, i, CHOOSE s \in NextSets(g, i) : TRUE)
        [] NextSets(g, i) = {} /\ ~IsLastRound(r) ->
             [f EXCEPT !.rounds = Append(@, NewRound(r.number + 1, "writing", WriteTime))]
        [] NextSets(g, i) = {} /\ IsLastRound(r) -> WithStatus(f, "finished")

Advanced(g, i, shuffle) ==
  LET r == g.rounds[i]
  IN  CASE r.status = "countdown" -> WithRound(g, i, Enter(r, "writing", WriteTime))
        [] r.status = "writing" -> ToPresentation(g, i, shuffle)
        [] r.status = "presentation_voting" -> ToReveal(g, i)
        [] r.status = "reveal" -> WithRound(g, i, Enter(r, "commentary", CommentTime))
        [] r.status = "commentary" -> AfterCommentary(g, i)
        [] r.status = "finished" -> g

Expire(g) == IF now > g.room.expiresAt THEN WithStatus(g, "expired") ELSE g

Due(g, i) == /\ g.room.status = "active"
             /\ g.rounds[i].pausedAt = NoTime
             /\ g.rounds[i].phaseEndsAt # NoTime
             /\ now >= g.rounds[i].phaseEndsAt

SyncRound(g, i, shuffle) ==
  LET e == Expire(g) IN IF Due(e, i) THEN Advanced(e, i, shuffle) ELSE e

SyncCurrent(g, shuffle) == IF g.rounds = <<>> THEN g ELSE SyncRound(g, Current(g), shuffle)

-----------------------------------------------------------------------------
(* Requests of the room service.                                           *)

Init ==
  /\ postgres \in BOOLEAN
  /\ now = 0
  /\ room = [status |-> "none", hostID |-> NoPlayer, expiresAt |-> 0]
  /\ user = [p \in Players |-> "absent"]
  /\ rounds = <<>> /\ sets = <<>> /\ votes = {}
  /\ score = [p \in Players |-> 0]

Tick ==
  /\ room.status # "none" /\ now < MaxNow
  /\ now' = now + 1
  /\ UNCHANGED <<room, user, rounds, sets, votes, score>>

CreateRoom(p) ==
  /\ room.status = "none"
  /\ room' = [status |-> "waiting", hostID |-> p, expiresAt |-> now + Expiration]
  /\ user' = [user EXCEPT ![p] = "member"]
  /\ UNCHANGED <<now, rounds, sets, votes, score>>

\* Also the poll of the websocket manager, and NextRound: the host's "next"
\* synchronises the room and is then refused.
GetRoomState(shuffle) ==
  /\ room.status # "none"
  /\ Commit(SyncCurrent(Expire(game), shuffle))
  /\ UNCHANGED <<now, user, votes>>

JoinRoom(p) ==
  /\ room.status # "none" /\ user[p] = "absent"
  /\ LET g == Expire(game)
     IN  /\ Commit(g)
         /\ \/ /\ g.room.status = "waiting" /\ Cardinality(Members) < MaxPlayers
               /\ user' = [user EXCEPT ![p] = "member"]
            \/ /\ g.room.status # "waiting" \/ Cardinality(Members) >= MaxPlayers
               /\ UNCHANGED user
  /\ UNCHANGED <<now, votes>>

\* Bug: the room is closed by whoever leaves last.
ClosesIfLast(p) == Members = {p}

Closes(p) == p = room.hostID \/ Members = {p}

LeaveRoom(p, shuffle) ==
  /\ user[p] = "member"
  /\ user' = [user EXCEPT ![p] = "gone"]
  /\ Commit(SyncCurrent(IF Closes(p) THEN WithStatus(game, "finished") ELSE game, shuffle))
  /\ UNCHANGED <<now, votes>>

OnCurrent(g, round) == IF g.rounds = <<>> THEN g ELSE WithRound(g, Current(g), round)

Opened(g) ==
  WithStatus([g EXCEPT !.rounds = Append(@, NewRound(1, "countdown", CountdownTime))], "active")

\* Bug: the round stays paused.
UnpausedRoomOnly(g) == WithStatus(g, "active")

Unpaused(g) == WithStatus(OnCurrent(g, Resumed(g.rounds[Current(g)])), "active")

Paused(g) ==
  WithStatus(OnCurrent(g, [g.rounds[Current(g)] EXCEPT !.pausedAt = now]), "paused")

StartGame(p, shuffle) ==
  /\ user[p] = "member" /\ p = room.hostID
  /\ LET g == Expire(game)
     IN  \/ g.room.status = "waiting" /\ Commit(SyncCurrent(Opened(g), shuffle))
         \/ g.room.status = "paused" /\ g.rounds # <<>> /\ Commit(SyncCurrent(Unpaused(g), shuffle))
         \/ g.room.status \notin {"waiting", "paused"} /\ Commit(g)
  /\ UNCHANGED <<now, user, votes>>

PauseRound(p, shuffle) ==
  /\ user[p] = "member" /\ p = room.hostID
  /\ \/ room.status = "active" /\ Commit(SyncCurrent(Paused(game), shuffle))
     \/ room.status = "paused" /\ Commit(SyncCurrent(Unpaused(game), shuffle))
  /\ UNCHANGED <<now, user, votes>>

-----------------------------------------------------------------------------
(* Requests of the truth set and vote services.                            *)

Playable(g, i, status) == g.room.status = "active" /\ g.rounds[i].status = status

\* A submission that is refused, or made to a service that cannot take it, has
\* synchronised its round all the same.
Refused(i, shuffle) ==
  /\ Commit(SyncRound(game, i, shuffle))
  /\ UNCHANGED <<now, user, votes>>

\* The round SyncRound answers with: the new one, when round i has just ended.
Answered(g, i) == IF Current(g) > Len(rounds) THEN Current(g) ELSE i

\* A round still due after it was synchronised is one that could not advance,
\* and the error of that ends the request.  A truth set handed in for a round
\* that is just over is one of the next round.
SubmitTruthSet(p, i, truth, shuffle) ==
  /\ user[p] = "member"
  /\ LET g == SyncRound(game, i, shuffle)
         j == Answered(g, i)
         mine == {s \in SetsOf(g, j) : g.sets[s].author = p}
         row == [round |-> j, author |-> p, truth |-> truth, order |-> 0, scored |-> FALSE]
     IN  /\ Playable(g, j, "writing") /\ ~Due(g, j)
         /\ \/ /\ mine = {}
               /\ Commit(IF OrderFree(g, 0) THEN [g EXCEPT !.sets = Append(@, row)] ELSE g)
            \/ \E s \in mine :
                 Commit([g EXCEPT !.sets[s] = [row EXCEPT !.order = g.sets[s].order]])
  /\ UNCHANGED <<now, user, votes>>

\* Bug: votes are taken while the truth is being revealed.
VotingUntilCommentary(g, i) ==
  \/ Playable(g, i, "presentation_voting") /\ now < g.rounds[i].phaseEndsAt
  \/ Playable(g, i, "reveal")

Voting(g, i) == Playable(g, i, "presentation_voting") /\ now < g.rounds[i].phaseEndsAt

\* Upsert: a player may change the vote until the phase ends.
SubmitVote(p, i, choice, shuffle) ==
  /\ user[p] = "member"
  /\ LET g == SyncRound(game, i, shuffle)
         s == g.rounds[i].active
     IN  /\ Voting(g, i)
         /\ g.sets[s].author # p
         /\ votes' = {v \in votes : ~(v.set = s /\ v.voter = p)}
                       \cup {[set |-> s, voter |-> p, choice |-> choice]}
         /\ Commit(g)
  /\ UNCHANGED <<now, user>>

\* Everybody who is in the room, or would like to be, but for the poll and the
\* submissions.
RoomRequest ==
  \E p \in Players :
    \/ CreateRoom(p) \/ JoinRoom(p)
    \/ \E shuffle \in Shuffles :
         LeaveRoom(p, shuffle) \/ StartGame(p, shuffle) \/ PauseRound(p, shuffle)

RoundRequest(shuffle) ==
  \E i \in DOMAIN rounds :
    \/ Refused(i, shuffle)
    \/ \E p \in Players, x \in Statements :
         SubmitTruthSet(p, i, x, shuffle) \/ SubmitVote(p, i, x, shuffle)

Next ==
  /\ \/ Tick
     \/ RoomRequest
     \/ \E shuffle \in Shuffles : GetRoomState(shuffle) \/ RoundRequest(shuffle)
  /\ UNCHANGED postgres

Spec == Init /\ [][Next]_vars

-----------------------------------------------------------------------------
(* Properties.                                                             *)

\* Types of the rows, and the references between them.
TypeOK ==
  /\ postgres \in BOOLEAN /\ now \in Nat
  /\ room \in Rooms
  /\ user \in [Players -> {"absent", "member", "gone"}]
  /\ rounds \in Seq(Rounds) /\ \A i \in DOMAIN rounds : rounds[i].active \in 0..Len(sets)
  /\ sets \in Seq(TruthSets) /\ \A s \in DOMAIN sets : sets[s].round \in DOMAIN rounds
  /\ votes \subseteq Votes /\ \A v \in votes : v.set \in DOMAIN sets
  /\ score \in [Players -> Nat]

\* The rounds of a room come one after the other, the room plays when it has
\* one, and the game is over when the last round is, or the host gone.
RoundsInOrder ==
  /\ \A i \in DOMAIN rounds :
       /\ rounds[i].number = i /\ i <= MaxRounds
       /\ i < Len(rounds) => rounds[i].status = "finished"
  /\ room.status \in {"active", "paused"} =>
       rounds # <<>> /\ rounds[Len(rounds)].status # "finished"
  /\ room.status = "finished" /\ user[room.hostID] = "member" =>
       Len(rounds) = MaxRounds /\ rounds[MaxRounds].status = "finished"

\* The truth sets of a round are presented one at a time, each once, in an
\* order drawn when the writing is over; those before the active one have been
\* scored and those after it have not, and the active one is from its reveal.
PresentedInOrder ==
  \A i \in DOMAIN rounds :
    LET mine   == SetsOf(game, i)
        active == rounds[i].active
    IN  IF rounds[i].status \in {"countdown", "writing"}
          THEN active = 0 /\ \A s \in mine : sets[s].order = 0 /\ ~sets[s].scored
          ELSE /\ active \in mine
               /\ {sets[s].order : s \in mine} = 1..Cardinality(mine)
               /\ \A s \in mine :
                    sets[s].scored <=>
                      \/ sets[s].order < sets[active].order
                      \/ s = active /\ rounds[i].status # "presentation_voting"
                      \/ rounds[i].status = "finished"

\* The scores of a room are what the votes of the scored truth sets give:
\* nothing is counted twice, forgotten, or changed once it has been counted.
ScoresMatchVotes ==
  \A p \in Players :
    score[p] = MapThenSumSet(LAMBDA s : Points(sets[s], VotesOn(s), p),
                             {s \in DOMAIN sets : sets[s].scored})

\* The ranking of the game, which is worked out entry by entry, does not depend
\* on the order of the entries: a position is the number of players with more
\* points, plus one, and the same for all who have as many.
RankedByPoints ==
  \A ranking \in Rankings : \A k \in DOMAIN ranking :
    Positions(ranking)[k] = 1 + Cardinality({p \in Members : score[p] > score[ranking[k]]})

\* An active room never has a stopped clock, as in ClassicRoom.
ActiveClockRuns ==
  room.status = "active" => rounds[Len(rounds)].pausedAt = NoTime

Stage(i) ==
  LET r == rounds[i]
      order == IF r.active = 0 THEN 0 ELSE sets[r.active].order
  IN  CASE r.status = "countdown" -> 1
        [] r.status = "writing" -> 2
        [] r.status = "presentation_voting" -> 3 * order
        [] r.status = "reveal" -> 3 * order + 1
        [] r.status = "commentary" -> 3 * order + 2
        [] r.status = "finished" -> 3 * (Cardinality(SetsOf(game, i)) + 1)

\* A request moves a round on by one phase at most: no vote, reveal or
\* commentary is skipped, however late the request that notices the time.
OnePhaseAtATime ==
  [][\A i \in DOMAIN rounds : Stage(i)' - Stage(i) \in {0, 1}]_vars

Stuck ==
  /\ rounds # <<>> /\ SetsOf(game, Len(rounds)) = {}
  /\ LET r == rounds[Len(rounds)]
     IN  r.status = "writing" /\ r.phaseEndsAt <= IF r.pausedAt = NoTime THEN now ELSE r.pausedAt

\* A writing phase that ends without a truth set is never left: neither time,
\* nor a pause and what follows it, nor a late truth set, nor a departure gets
\* the round out of it, for in an active room every request that synchronises
\* it ends with ErrActiveTruthSetUnavailable.  The room can still be paused, be finished by
\* its host's leaving, or expire; the game cannot go on.
EmptyWritingIsFinal == [][Stuck => Stuck']_vars

\* SubmitTruthSet "creates or updates the caller's truth set during writing":
\* while a round is written, whoever is in the room can have one stored.  The
\* in-memory repositories hold to it, the database does not: its index has room
\* for a single truth set without an order.
TruthSetsTaken ==
  \A i \in DOMAIN rounds, p \in Members :
    Playable(game, i, "writing") /\ ~Due(game, i) /\ now <= room.expiresAt =>
      \E x \in Statements, shuffle \in Shuffles :
        ENABLED (/\ SubmitTruthSet(p, i, x, shuffle)
                 /\ \E s \in DOMAIN sets' : sets'[s].round = i /\ sets'[s].author = p)

Life == INSTANCE RoomLife
          WITH status <- room.status,
               opened <- Len(rounds),
               hosted <- room.hostID \in Members

\* Whatever requests are served, the room lives the life of RoomLife: a host who
\* starts, interrupts and closes it, rounds one by one, and an end for good.
LivesItsLife == Life!Spec

=============================================================================
