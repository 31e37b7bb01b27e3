# tell-your-story-api: a TLA+ verification project

The repository is a Go service for two party games played in rooms: *tell your story* (the
"classic" game: everybody writes a story, everybody votes, the story with most votes wins the
round) and *three lies, one truth*. This directory models how a room lives in that service, checks
the models with TLC and proves the central properties with TLAPS. All paths below are relative to
the repository root (`src/`).

## The system

| Part | Code | State it keeps | Operations |
| --- | --- | --- | --- |
| Room service | `internal/service/room_service.go` | none (rows in the repositories) | `CreateRoom`, `GetRoomState`, `JoinRoom`, `LeaveRoom`, `StartGame`, `PauseRound`, `NextRound` |
| Round lifecycle | `internal/service/round_lifecycle.go` | none | `SyncRound` (ends a phase whose deadline has passed, expires a room), `ResumeRound`, the three-lies phases |
| Story service, vote service | `story_service.go`, `vote_service.go` | none | `SubmitStory`, `GetRoundStories`; `SubmitVote`, `GetRoundVotes`, `GetTopStory`, `GetUserVote` |
| Three lies services | `three_lies_truth_set_service.go`, `three_lies_vote_service.go`, `three_lies_scoring.go` | none | `SubmitTruthSet`, `SubmitVote`; score deltas and ranking |
| Repositories | `internal/repository` | the tables: rooms, users, rounds, stories, votes, truth sets, truth set votes, scores; in memory (a mutex for each) or in PostgreSQL (GORM) | one row or one query per call, no transactions |
| Realtime manager | `internal/websocket/manager.go` | connected clients per room, the last state sent, keys of events already sent | one reader and one writer goroutine per client, a poll each second |
| HTTP handlers | `internal/api` | none | routing, decoding, mapping of errors; `join` picks the session it answers with |
| Start-up, configuration, validation, utilities | `cmd`, `config`, `database`, `pkg` | none | – |

**How the parts interact.** Every HTTP request and every websocket connection has its own
goroutine. A handler calls one service; a service works only through repository calls, each atomic,
and holds nothing between two of them but its own copies of rows. `Update` writes a *whole row* from
such a copy. There is no timer in the service layer: phases end, and rooms expire, when some request
calls `SyncRound`. In three lies the same call scores truth sets, opens the next round and ends the
game. The realtime manager makes such a request (`GetRoomState`) once a second for
every room with a connected client, and pushes the result.

**What is hard here.** Check-then-insert without a transaction (joins, stories, votes, rounds,
scores); whole-row updates from stale copies; two-row updates (room and round, user and room) that
can be half done; cancelled requests with the database; the clock, which is both read and acted
upon by every request; pauses, which move deadlines. `PROJECT.json` lists each hazard at its line,
with the properties that address it or the reason none does.

**What makes each part correct.**

* Room service: the status of a room agrees with its rounds; rounds come one after the other;
  pausing and resuming lose no time; an expired room takes no further part; the host's departure
  ends the game.
* Round lifecycle: phases only go forwards, each ends at its deadline, a second synchronisation at
  the same instant changes nothing.
* Stories and votes: one each per player and round, only in their phase; the announced winner
  stays the winner.
* Three lies: truth sets are presented one at a time and in their order; a set is scored exactly
  once, from the votes that arrived in time; the sum of the scores is what the votes give.
* Realtime manager: a channel is closed once, an announced event reaches every client, every
  client ends up with the newest state, and no client that stops reading holds up the others.

## Modules

```
RoomLife               what a room goes through, whatever is played in it, and what follows, proved
ClassicRoom            requests served whole: the contract of the API; implements RoomLife
 ├─ ClassicRoomProofs  its invariants, ballots, winners, and that it implements RoomLife, proved
 └─ ClassicConcurrent  the same handlers cut at their repository calls
     └─ ClassicSerial  one handler at a time; refines ClassicRoom
         └─ ClassicConcurrentProofs   types, rounds and counts under overlapping requests, and the
                       refinement of one at a time, proved
ThreeLiesRoom          the three-lies game, requests served whole; implements RoomLife
 ├─ ThreeLiesRoomProofs   its invariants, the order of its phases, that it implements RoomLife, where a
 │                        game gets stuck, and its scores, proved
 └─ ThreeLiesSync      the same handlers cut at their repository calls; alone, they refine it
     └─ ThreeLiesSyncProofs   types, rounds and the end of the game under overlap, proved
         └─ ThreeLiesPointsProofs   truth sets and scores under overlap, proved
             └─ ThreeLiesSlowProofs   slow requests without overlap, proved
GameRoom               a room of either game under the clock and the manager's poll; liveness
RealtimeHub            the websocket manager and the clients of a room
 └─ RealtimeHubProofs  types and channels, and that events reach every client, proved
MCClassicRoom, MCClassicConcurrent, MCClassicSerial, MCThreeLiesRoom, MCThreeLiesSync, MCRealtimeHub,
MCGameRoom             symmetry, state constraints and views for TLC
```

Definitions whose comment starts with `Bug:` are not part of any model. Each is the definition
that follows it with a plausible mistake in it, and `PROJECT.json` (`mutants`) says which property
notices when one takes the place of the other.

### RoomLife

The most abstract specification: the status of a room, how many rounds have been opened, and
whether the host is there. It says what the room service promises of every game: only a host who is
there starts, interrupts and continues it; rounds are opened one by one, up to `MaxRounds`, and only
while the room plays; a room that is finished or expired stays over. `ClassicRoom` and
`ThreeLiesRoom` both implement it (`LivesItsLife`), with `status <- room.status`, `opened <-
Len(rounds)`, `hosted <- room.hostID \in Members`. A request often does more than
one thing (a departure closes the room and synchronises the round, a "next" in a paused room clears
the pause and opens the next round, a resumption in three lies may find the last commentary over),
so it is worth checking that what it amounts to is always one step of this life.

### ClassicRoom

The specification of the classic game. One action per service operation, each the *whole* handler: the
authentication, `ensureRoomAvailable`, the operation's own writes and the synchronisation that
`buildRoomState` ends with.

| Variable | Code |
| --- | --- |
| `now` | `time.Now()`, as a counter |
| `room` | the `Room` row: `status`, `hostID`, `expiresAt` |
| `user` | the `User` rows of the room: not created, present, deleted |
| `rounds` | the `Round` rows in creation order; `GetCurrentByRoomID` is the last |
| `stories`, `votes` | the `Story` and `Vote` rows in creation order |

`SyncRound`, `Expire`, `Resumed`, `Stepped` and so on are functions of a *game*, a record of the
room and its rounds, so that a handler reads as the composition of the calls it makes, as in
`Commit(SyncCurrent(Stepped(g)))`.

Abstractions: a refused request that has written nothing is a stuttering step; one that has already
expired the room or synchronised a round keeps that effect. The text of a story, codes, tokens and
`CompletedAt` are left out (nothing in the classic game reads the last; a round has its `startedAt`,
by which the database sorts; of stories and votes the creation order stands for the order of their
time stamps, so two rows stamped with the same instant are not told apart). A request reads the clock once. The clock starts with the room and
stops at `MaxNow`. One room is modelled: no operation touches two.

### ClassicConcurrent

The concrete specification: a step of a worker is one repository call and the local computation
next to it. `req[w]` holds what the handler's goroutine holds: the operation, the next call (`pc`),
what follows the current synchronisation (`then`), and the copies of the room and the round
(`Seen` is the game made of the copies; `SyncRound` of `ClassicRoom` is applied to it, as the code
applies it to its copies). The constant `Postgres` tells the two families of repositories apart:

* the current round: `ORDER BY round_number DESC, started_at DESC` (`Precedes`; of two rounds of one
  number and instant the later row) or the row appended last;
* `idx_vote_user_round`, the unique index of votes, exists only in the database;
* `Abort`: with a database a request whose context is cancelled, or whose statement fails, makes no
  further call. The maps in memory ignore the context and cannot fail.

`NextRound` builds the next round, with its times, before it updates the room, and carries it to the
insert; it asks for the current round twice, so the second look may find what the first did not
(`reread`).

Each behaviour is a history of requests served whole (the actions of `ClassicRoom`), then a *burst*
of `MaxRequests` requests from `Workers` goroutines that overlap in any way, with `Tick` in between.
Any state the serial system reaches is thus a start for a burst; a bound on the burst is what keeps
the state space finite. `Over` lets the model stop once the burst is served.

### ClassicSerial

`ClassicConcurrent` with one worker that is never interrupted, and `served`, a snapshot of the rows
taken whenever no request is in flight. `ImplementsRoom` is the refinement `Spec` of `ClassicRoom`
under `room <- served.room, ...`: it ties the two translations of every handler together, so
everything that goes wrong in `ClassicConcurrent` is due to interleaving or to calls cut short, and
nothing else.

### ThreeLiesRoom

The other game, in the manner of `ClassicRoom`: the same room requests, a longer lifecycle.

| Variable | Code |
| --- | --- |
| `now`, `room`, `user` | as in `ClassicRoom` |
| `postgres` | whether the server was started with a database; it never changes |
| `rounds` | the `Round` rows; `active` is the index in `sets` of `ActiveTruthSetID`, 0 for none |
| `sets` | the `TruthSet` rows in creation order; `order` is `PresentationOrder`, `scored` says whether `ScoredAt` is set |
| `votes` | the `TruthSetVote` rows, one for each set and voter (`Upsert`) |
| `score` | the `RoomScore` rows |

`Advanced` is the switch of `SyncRound`, with an operator for each `advanceTo...`. The clock is the
only thing that moves a round: a host's "next" is refused once it has synchronised the room, so it
is the action `GetRoomState`. The random shuffle of the truth sets is a parameter of every request
(`shuffle`, any ranking of the authors whose sets have no order yet), used by the one that ends the
writing phase. `Refused` is a submission that changes nothing of its own but has synchronised the
round it names, which need not be the current one. A truth set handed in at the very moment the
last commentary of a round is over is one of the next round (`Answered`): `SyncRound` answers with
the round it has just opened.

With `postgres` the unique index `idx_truth_set_round_order` (`domain/three_lies_models.go:11`) is
in force: a truth set without an order is stored only while there is no other, and a shuffle fails
when its first order is taken. The models have both kinds of server. Statements are model values, of
which only equality matters; `Points` is `calculateThreeLiesScoreDelta`, and `Rankings` and
`Positions` are the two loops of `buildThreeLiesFinalRanking`, sorting and numbering (ties are
broken by nickname in the code and in any way here, since a position may not depend on it).

### ThreeLiesSync

The requests of three lies that synchronise a round, as sequences of repository calls. `req[w]` is
what the goroutine of a request holds: who asks for what, its copy of the round (`round`, of row
`at`), the time it has read (`clock`), and `todo`, the calls it has still to make. A call works on
the rows and on the copy, and may put others in front of the rest: `syncRoom` on a copy that is due
in voting puts `readActive` there, which puts `listVotes`, which puts one `increment` for each
player with points (in any order: the code ranges over a map), the write that marks the set as
scored, and the write of the round. An update writes the whole row it was given when it was
prepared, however old that is. `SyncRound` reads its room (`syncRoom`) and then the clock (`readClock`,
with the status it has read): time and other requests may come in between. Of two rounds with one
number the database's current one is here the later row, since `StartedAt` is not modelled; no
property that is checked over the database depends on it.

| Operation | Code |
| --- | --- |
| `"get"` | `GetRoomState`, the poll and the host's "next": `syncRoomLifecycle` twice |
| `"write"`, `"vote"` | `SubmitTruthSet`, `SubmitVote`: synchronise the round they name, check, look up, store |
| `Abort` | with a database, a request whose context is cancelled or whose statement fails |

As in `ClassicConcurrent`, a history of requests leads to a burst of `MaxRequests` that overlap in
any way. In the history the requests above are already served call by call, one at a time, with
`Tick` between them only; the room requests are those of `ThreeLiesRoom`, whole. `served` holds the
rows as the last request served alone has left them, and `ImplementsRoom` is the refinement of
`ThreeLiesRoom` by it. `overlapped` says whether two requests of the burst have been in flight
together; until they have, a single slow request may see the clock pass a deadline between any two
of its calls. `tally` keeps, for each truth set, the points that were given when it was last marked
as scored.

### GameRoom

`ClassicRoom` and `ThreeLiesRoom` side by side, as the one `RoomService` and the one round lifecycle
serve them: `gameType` is the game the host asks for (`Room.GameTypeID`), which decides how a round
goes on (`round_lifecycle.go:74`) and whose services are refused. `now`, `room`, `user` and `rounds`
are the same rows in both; `stories` and `ballots` are those of the classic game, `sets`, `guesses`
and `score` those of three lies. A refused request of the other game's services synchronises the
round at most (`three_lies_vote_service.go:66`, `vote_service.go:147` and `:232`), which is
what `ReadRound` and `Refused` of the two modules already do. `Poll` is the timer of the realtime manager. This is where liveness
is stated: nothing but requests and the poll moves a room.

### RealtimeHub

The websocket manager and the clients of one room.

| Variable | Code |
| --- | --- |
| `version`, `expired` | what `GetRoomState` answers; it changes from outside |
| `registered` | `clientsByRoom[code]` |
| `conn` | where a connection stands: in `ServeHTTP`, with its pumps, shut by the writer, its reader ended |
| `queued`, `closes` | how many events the channel `client.send` holds, how often it has been closed |
| `last` | `lastRoomState`, `lastPhaseKey`, `lastTruthSetKey`, `lastRevealKey` |
| `todo` | for each goroutine, the steps it has still to take |
| `up` | no panic has ended the process |
| `owed`, `cut` | history: who has not been sent what `last` remembers; whether a broadcast was cut short |

A goroutine (the poll of `Start`, a handler that broadcasts when it is done, a client's `ServeHTTP`
and reader) is a sequence of steps, each of which is what the code does under one hold of the mutex
or with one send: look a key up, remember it, copy the set of clients, send to one of them, register
or unregister a client. A step may put other steps in front of the rest: a broadcast that meets a
full channel unregisters the client, which broadcasts that it has left, which may meet a full
channel. What a full channel leads to differs: the client is dropped by a broadcast, passed over by
the snapshot, refused when it connects, sent an error when it asked, and `truth_set.presented` is
given up altogether. A send on a channel closed since the set of clients was copied panics (`Panic`):
`net/http` recovers it in a handler, in the poll and in a reader it ends the process. The
connection's writer takes events out of the channel whenever it likes, or never.

`Early` are clients connected and up to date when the model begins. The room is one with a current
round; a phase has an event of its own or not (`Presenting`, `Revealing`). A change of the room is
any request, which need not broadcast.

## Runs

| Run | What it shows |
| --- | --- |
| `classic_rounds` | Two players and two rounds, three players and one round, each request served whole. Rounds run 1 to `MaxRounds`, status and progress agree, the clock of an active room runs and that of a paused room stands, phases never go back, an expired room is dead; one story and one vote each, in time, and the marked winner stays the winner after more reads and departures. The room implements `RoomLife`. |
| `serial_refinement` | `ClassicSerial` implements `ClassicRoom`, for all operations. |
| `overlap_classic` | Five overlapping "start" and "next" requests of a host over the database, or three joins, stories and others of several players, some cut short: rounds may be opened twice, but none is skipped, none lies beyond the last, and a late insert never becomes the current round again; how far joins exceed the places, and how many stories one player has in a round, is bounded by the requests in flight. |
| `three_lies_game` | Two players and two rounds, three players and one round, in memory and over the database: every truth set is presented once and in its order, the scores are exactly what the votes of the scored sets give, the position of a player in the ranking is one more than the number of those with more points, a late request moves a round by one phase at most, pauses leave no stopped clock, and a writing phase that ends without a truth set is never left. The room implements `RoomLife`. |
| `three_lies_overlap` | The handlers cut at their calls, over both kinds of repository, two of them overlapping in any phase of a game, or one cut short and another after it. One at a time they implement `ThreeLiesRoom`, and a slow one is as exact. Overlapping: no round is skipped or opened beyond the last; in memory no active room is left with a finished round; a truth set that is marked as scored has brought its points, unless two increments overlap in the database; a player has no more sets in a round than requests in flight, and one with the database. |
| `games_live` | A room of either game under `FairSpec`, three lies in memory and over the database: every phase whose deadline lies within the room's life ends by the poll alone, but for a writing phase of three lies with nothing to present; and a room ends up finished or expired, in whatever state its players left it: never started, paused, or stuck. |
| `hub_events` | Two clients, one of them connecting while the room goes from a phase to the next and expires, a broadcasting handler and the poll: a channel is closed once, an announced event reaches everybody unless a broadcast is cut short, and what is begun ends although nobody need read. |
| `host_leave_race`, `vote_twice`, `truth_set_refused`, `scored_twice`, `state_withheld` | Violations: see Findings. |

**Bounds.** Two players are a host and a guest, all that room operations tell apart; three make a
tie and a majority possible; four overfill a room of two with two requests in flight. Two rounds
show everything a round can do to the next and to the end of the game. With `WriteTime = VoteTime =
1` and `MaxNow` at 2 or 3, deadlines fall before, at and after the room's expiry, and a pause moves
one past it; in the burst of a lone host of `overlap_classic` time passes
once, in that of several players not at all (`LongOrWide`). Two workers suffice for every race of two
requests; five requests are what it takes to open a round late behind its successor (`LastInserted`
is the mutant), three are one more than are in flight. In `overlap_classic` nobody votes: what
overlapping votes do is the matter of `vote_twice`; and nobody has written before a short burst. In `classic_rounds` a third
player is there for a game of one round and `now <= 2` (`ThirdPlaysOneRound`), and a game of two
rounds has four ballots at most (`FewBallots`). States that differ in
`startedAt` only count as one there (`ButStamps`): nothing in `ClassicRoom` reads it.

In `three_lies_game` all durations are 1 and `MaxNow` is 9: enough for two rounds of one truth set
each, or for one round of two sets and the opening of the next, with pauses in any phase of a
shorter game. The third player is there for one round without delays, in which two write, or three
and nobody votes (`ThirdPlaysOneRound`): two guessers and an author give every case of the score,
three sets an order with a middle, three players a tie followed by somebody else.

In `games_live` two players have one statement to guess, since a guess moves no clock. `Expiration =
5` and `MaxNow = 6`: a room that is created at once expires within the clock of the model
(`RoomEventuallyOver`), one that is created a unit later outlives it (`PhaseEventuallyEnds`), and
there is time for every phase of a round of three lies and the opening of the next, as for one
classic round, its pauses included; further classic rounds are opened by the host and not by the
clock. A classic room is the same with either kind of repository. No state constraint and no
symmetry is used. States that differ in `startedAt` only count as one (`MCGameRoom!ButStamps`): no
action, property or fairness condition of `GameRoom` reads it, and every step that sets it changes
other rows as well, so what can follow is the same.

In `three_lies_overlap` requests may be as late as one unit of time (`Brisk`), so that a phase ends
before, at and after a request; before the burst everybody writes and guesses the same statement
(`OneTruth`); nobody leaves or pauses during the burst (`InPlay`: what leaving and pausing do in
between is the matter of the classic runs, and uses the same code); of the second round only the
writing, which is where a round opened twice shows, and the end of its commentary, where the game
is over, see a burst, the latter after one truth set a round (`Finale`); a submission that has to be refused is no different from a
"get" (`Meant`). Each action of `ThreeLiesSync` and each branch of its calls is taken within these
bounds, among them the end of the last round by two requests at once, and the expiry of the room
under a request that is being served. All of these are constraints on safety runs only.

In `hub_events` a channel
holds 4 events instead of 8, so that two pieces of work (`MaxWork`) fill one; two clients are the
one that is full or closed and the one that is served after it; two versions give one change of
phase, from a revealing to a presenting one. Players (and workers) are interchangeable, so symmetry is used in the safety runs
and not in `games_live`.

**Fairness.** `FairSpec` of `GameRoom` assumes `WF(Tick)`, that time passes, and `WF(Poll)`, the poll
of the realtime manager (`manager.go`, `Start` and `syncActiveRooms`), which covers only rooms with a
connected client, whatever the status of the room. No player is assumed to do anything. Without a client nothing ends a phase until
the next request; that is how the service is built. `FairSpec` of `RealtimeHub` assumes only that
some goroutine takes a step as long as one can, which the Go scheduler gives; clients are not
assumed to read, and no writer to run.

## Proofs

`ClassicRoomProofs` proves, for every number of players, rounds and every choice of times; `ThreeLiesRoomProofs`, for
every number of players, rounds and statements, every choice of times, and both kinds of server;
`ClassicConcurrentProofs`, `ThreeLiesSyncProofs`, `ThreeLiesPointsProofs` and `ThreeLiesSlowProofs`, for
every number of workers and requests as well; `RoomLife`, for every number of rounds;
`RealtimeHubProofs`, for every number of clients and
handlers, capacity of the channels and course of the phases:

| Theorem | Property |
| --- | --- |
| `TypeCorrect` | `TypeOK` |
| `RoundsStayInOrder` | `RoundsInOrder` |
| `StatusStaysMatched` | `StatusMatchesProgress` |
| `ActiveClockAlwaysRuns` | `ActiveClockRuns` |
| `PhasesOnlyAdvance` | `PhaseNeverRegresses` |
| `OneBallotPerPlayer` | `OneBallotEach` |
| `BallotsArriveInPhase` | `BallotsInPhase` |
| `ExpiredRoomIsDead` | `ExpiredIsDead` |
| `PausedRoomStandsStill` | `PauseHolds` |
| `MarkedStoryStaysWinner` | `MarkedStoryWins` |
| `ClassicRoomLives` | `LivesItsLife` (of `ClassicRoom`) |
| `RequestsTyped` | `CTypeOK` |
| `RoundsStayChained` | `RoundsChain` |
| `DatabaseNeverFallsBack` (with `Postgres`) | `CurrentNeverFallsBack` |
| `RoomsOverfillByFewAtMost` | `OvershootBounded` |
| `StoriesStayBounded` | `StoriesBounded` |
| `DatabaseKeepsOneVote` (with `Postgres`) | what `vote_twice` shows to fail in memory, `OneVoteEach` |
| `SerialImplementsRoom` | `ImplementsRoom` (of `ClassicSerial`) |
| `ClassicRoomKeepsPromises`, `ThreeLiesRoomKeepsPromises` | the three of `RoomLife` that follow, of either game |
| `HostIsNeeded` | `NeedsItsHost` (of `RoomLife`) |
| `RoundsStayBounded` | `RoundsBounded` (of `RoomLife`) |
| `OverStaysOver` | `OverForGood` (of `RoomLife`) |
| `TypeCorrect` of `ThreeLiesRoomProofs` | `TypeOK` (of `ThreeLiesRoom`) |
| `RoundsStayInOrder` of `ThreeLiesRoomProofs` | `RoundsInOrder` (of `ThreeLiesRoom`) |
| `PresentationsStayInOrder` | `PresentedInOrder` |
| `ActiveClockAlwaysRuns` of `ThreeLiesRoomProofs` | `ActiveClockRuns` (of `ThreeLiesRoom`) |
| `PhasesOneAtATime` | `OnePhaseAtATime` |
| `ThreeLiesRoomLives` | `LivesItsLife` (of `ThreeLiesRoom`) |
| `EmptyWritingStaysFinal` | `EmptyWritingIsFinal` |
| `ScoresAddUp` | `ScoresMatchVotes` |
| `RankingIsByPoints` | `RankedByPoints` |
| `CopiesTyped` | `STypeOK` |
| `RoundsStayLinked` | `RoundsLinked` |
| `GameAlwaysGoesOn` | `GameGoesOn` |
| `TruthSetsStayBounded` | `SetsBounded` |
| `PointsComeBeforeMarks` | `CountedBeforeMarked` |
| `SlowRequestsAreExact` | `SlowIsExact` |
| `HubTypeCorrect` | `HubTypeOK` |
| `ChannelsCloseOnce` | `ClosedOnce` |
| `NobodyForgotten` | `AnnouncedToAll` |

Assumptions: `PlayersAssumption`, `LimitsAssumption` and `TimesAssumption` of `ClassicRoom` (a
finite set of players, positive limits and durations); `TLPlayersAssumption`, `TLLimitsAssumption`
and `TLTimesAssumption` of `ThreeLiesRoom`, which say the same; `HubGoroutinesAssumption` and
`HubLimitsAssumption` of `RealtimeHub` (clients, handlers and the poll are different goroutines; a
channel has room for an event; no phase both presents and reveals).

In the classic game the inductive invariant is `Inv == RowsTyped /\ HostKnown /\ Sound(game, HostHere)`. None of the
invariants is inductive alone. That "next" may open round *n+1* needs the current round to be the
*n*-th (`RoundsInOrder`) and revealed; that a resumed round is not marked needs paused rooms to have
a round (`StatusMatchesProgress`); and that needs to know whether the host is still there, since
only the host's departure finishes a room early: hence `HostKnown`. `Sound` states all of that of a
*game* instead of the variables, because a handler composes several functions before it commits. The
lemmas then have one shape, `Step(g, h, hostHere)`: from a sound game `g`, the function leads to a
sound `h` that is `Forward` of `g` (rounds kept in place, phases not moved back). `ExpireStep`,
`SyncRoundStep`, `PausedStep`, `UnpausedStep`, `SteppedStep`, `OpenStep` prove it for each function,
`StepTransitive` composes them, and `CommitKeeps` turns the result into `Inv'` for the action.
`SyncIdempotent` justifies that `ClassicRoom` synchronises once where `buildRoomState` and the
operation before it do so twice.

Next in `ClassicRoomProofs` is the refinement `Spec => LivesItsLife`. Most requests are `Quiet`:
synchronising a round may expire the room and moves its life in no other way. What is left are the
requests of the host, each of which takes the game to a certain status and number of rounds
(`Becomes`) before its trailing synchronisation, which is quiet again. The invariant is used where
the mapping needs it: a room that finishes by itself has opened its last round
(`StatusMatchesProgress`), a room that plays has one, and `HostKnown` turns the guard
`p = room.hostID` of a handler into `hosted`.
The theorems of `RoomLife` say what this is worth: `LifeInv` is their inductive invariant, one step of
the proof for each action. `ClassicRoomKeepsPromises` and `ThreeLiesRoomKeepsPromises` cite them through
the `INSTANCE`, so they hold of both games.

The last part of `ClassicRoomProofs` adds `OneBallotEach` to the invariant (it is inductive relative to `Inv`), and
proves the action properties action by action. `AcceptedOnTime` is the heart of `BallotsInPhase`: a
synchronised round in a phase with a deadline has not reached it, which needs the new phase to have
a positive duration.

`MarkedStoryStaysWinner` is `MarkInv`, which is inductive: a marked story beats the others of a round
that is revealed, and nothing stores or withdraws a vote of a revealed round. What takes work is that
there is a winner at all. This is an induction over numbers, in the form of a least number
(`LeastNumber`, from the library's `NatLessThanWellFounded` and `WFMin`, which take no operator): the
most votes are the least number of votes missing to all there are, and of the stories with most votes
one has the least index (`FirstOfTheBest`).

`ThreeLiesRoomProofs` has the same layout. A game is `Sound` when its rounds are in order, its
statuses agree with them, and each round is `Presented`: which truth sets have an order and a score
follows from the phase and the active set. `Step(g, h, hostHere, n)` says that a function leads from
a sound game to a sound one and moves a round on by *n* phases at most; one lemma for each of the
`advanceTo...` gives `n = 1`, everything else has `n = 0`, and since a handler advances a round once
at most, `StepTransitive` gives `PhasesOneAtATime`. Two facts carry the order of the presentations. A
shuffle ranks authors while the orders belong to truth sets, so `SetsSound` has to know that nobody
has two in a round; with it, `PlaceIsRank` shows that the places are exactly 1 to the number of
sets. And a shuffle is drawn for the round that is being written, not for any other, which is what
`Drawn` keeps through the functions that come before the one that uses it.

Its part about `RoomLife` differs from the classic counterpart in that a synchronisation is not quiet: it
may open the next round or end the game (`Turns`), whoever has sent the request. The abstract room
does either only while it is `hosted`. `Hosted`, the invariant `NeedsItsHost` of `RoomLife`, is
therefore carried along with the refinement: `NextLives` uses it to take a step of the abstract room,
and `LifeKeepsHost` gets it back from the step taken. `EmptyWritingStaysFinal` is proved request by
request: `StuckSync` shows that a synchronisation only expires the room, `StuckUnpaused` and
`StuckPaused` that the deadline is still behind the clock after a pause, and `LateTruthSet` that no
truth set is stored, because the round it names is due still.

In `RealtimeHub` the closing of channels is not inductive alone: a client that has been unregistered
could be registered again. `Orderly` says why it is not: a client is registered by the first step of
its own goroutine only (`Plain` steps follow), and until then it is in no room and its channel is
open (`Registering`, `NewUnknown`).

`NobodyForgotten` needs to know that a step which covers somebody is never thrown away.
`WellFormed` says so of every program: what is remembered as announced is broadcast by the very next
step; an event of a phase is only sent by sends that drop a client or give the broadcast up; and
behind a send whose failure ends the program (`Quits`) there is neither an event of a phase nor a
client to unregister. Two further facts make it inductive: those owed an event are in the room
(`OwedHere`, so a copy of the set of clients contains them), and the steps that go in front of a
program are well formed (`ConcatWellFormed`, `FewerWellFormed`). `AnnouncedKept` reduces the rest to
the goroutine that takes the step, and there is one lemma for each kind of step.

`ClassicConcurrentProofs` is about requests in flight, so its invariant has to speak of the copies they
hold. `CInv` says, worker by worker, what the next call (`pc`) may rely on: the copied round is a row
of the table, with the number it had; a round about to be opened is the successor of one that is
there; a room about to be written as active has a round. What makes this stable while *others* act is
that rounds are only ever added and keep their numbers; that is all a request may assume of the rest,
and one lemma says that it is enough for every worker that does not move. `RoundsStayChained` and
`DatabaseNeverFallsBack` follow; the latter needs the order in which the database sorts rounds,
which is why it is stated for `Postgres` only (in memory the current round does fall back).
The two bounds rest on a second invariant, `CountInv`. A request that has checked that there is a
place, or that there is no ballot yet, is committed to one insert; the rows already there and the
workers so committed are counted together, and a check succeeds only while the rows are none (or
leave a place). So the sum never exceeds the number of workers, whatever the order of checks and
inserts. In the database the unique index makes the votes one, which is `DatabaseKeepsOneVote`.

The second half of `ClassicConcurrentProofs` proves the refinement of `ClassicRoom` by the handlers made
call by call, one at a time. `Whole(t, s, f)` says in terms of rows what `ClassicRoom` makes of the rows *s* at time
*t*: one disjunct for each of its actions, and `WholeIsStep` turns it into a step, or none. The
functions of a game are taken from `Found(t, s)`, an instance of `ClassicRoom` with the rows of *s* in
the place of its variables. The invariant `SerialInv` speaks of the one request in flight, of the
rows it has found (`served`) and of those there are now. `CopiesFresh` says that its copies are the
rows, which is just what overlapping requests take away; `Entitled` and `Passed` what its checks so far
have found out of the rows found; and `Stage` where it will end: nothing is written yet, so the rows
are those found (`Untouched`), or what is left of the request, the synchronisation by `buildRoomState`
included, will make the rows a whole request of those found. So every call either keeps a promise
made before or makes it, with one lemma for each (`...Goes`), and with the last one the request is over
and `Whole`. `Stage` needs to know that the second synchronisation finds nothing left to do
(`SyncIdempotent` again), and `Tidy` that the last row is the current round with either repository,
since no two rounds of such a room have the same number. It also needs `FlightInv`, the part of `CInv`
that holds without a burst.

`ScoresAddUp` follows from `ScoreInv`, about sums over the finite sets of truth sets and of votes:
a function that moves a round scores at most one set, the active one, and adds to each player exactly
what its votes give; a vote on a scored set is never stored, since the round is past its deadline.
`RankingIsByPoints` is an induction over positions, by the least position at which the order would
fail (`LeastNumber` again).

In `ThreeLiesSyncProofs` the invariant is `BurstOK`. What a request still has to do is a sequence of
calls; `Fits` says that each of them fits the request's copy and those parts of the rows that nobody
can change: a row about to be written over another has its number, or its round and author; a new
round is the successor of a row; a copy in presentation has an active truth set (`RowFits`), and the
calls come in an order the code can produce (`InLine`). Others only let the rows grow (`Grown`),
which keeps everything that fits (`KeptFits`). There is one lemma for each repository call, and
`EffectFits` puts the worker that moves and the others together. For requests of the history, which
run alone but call by call, `RoomRequestKeeps` uses what `ThreeLiesRoomProofs` proves of whole
requests. `GameAlwaysGoesOn` needs more than `BurstOK`, namely who will open the next round: whenever
the current round of an active room is over, some request has a call ahead that opens a round or ends
the game (`Concluded`); in memory no request is cut short, so with none in flight there is none over.

`ThreeLiesPointsProofs` goes on from `BurstOK`. First it sorts the calls: what a worker has ahead after
a call is the rest of what it had, with calls in front that neither pay, mark nor add a set (`Plain`,
`GoesOnPlainly`), with three exceptions: the scoring of a set (`ListVotes`), the set a player is found
not to have (`ReadMine`), and the second half of an increment over the database. `SetsCounted` counts
the sets of a player in a round together with the workers about to add one, as `CountInv` does: a
worker only joins these when there is none. For the scores, `Ahead` is what a request has paid to a
player for a set it has still to mark: nothing, until its last payment to the player is made, and then
all the player is given (`Shaped` says that the calls have this form). `AllPaid` is the invariant: the
points the marked sets have brought, and those ahead in all requests together, are no more than the
score. It is inductive because a payment adds to the score what it adds to `Ahead`, and a mark moves
the same points from one sum to the other (`WorksBalance`). Over the database it needs one thing more,
that the score a request has read is still the score when it writes it back; `ReadStill` says so while
it is alone. With overlapping requests it is not, and the property stops there as the code does.

`ThreeLiesSlowProofs` is about requests in memory that do not overlap. Such a request is served from
copies while the clock goes on, so it may begin before a deadline and end after it, and what is
stored between two of its calls is not what any whole request leaves: sets with half an order, points
without their mark, a finished round without its successor. `Exact` is what a game must satisfy at
rest: the invariant of `ThreeLiesRoomProofs`, and scores that match the votes. `SlowInv` says of a game
at rest that it is exact, and of a request in flight (`Promise`) that the writes it has ahead, made one
after the other (`Applied`, `Leads`), take the game to an exact one, and that the call after them may
rely on what it needs (`Leaves`): that its copy of the round is the row itself (`Fresh`), and what the
handler has checked before (`Ready`). One case is different: when the sets have been given their order
and the first is still to be shown, the end of the path is not exact but `Arranged`, a shuffle away
from an exact game. The proof follows the calls: a write takes the first step of the path
(`WriteShifts`), a read or a check replaces the path by a new one, and for each new one an exact game
is produced at its end. Two facts make the clock harmless. What is exact does not depend on the time
(`ExactLasts`), and a phase begun at the time the request has read is as good as one begun now
(`RetimedExact`). `SlowInv` has been checked with TLC in the configuration of `three_lies_overlap`
before it was proved.

Only model-checked: the liveness properties (fairness and `ENABLED` are out of the prover's reach) and
`ImplementsRoom` of `ThreeLiesSync`, which needs for the three-lies game what `SerialInv` is for the
classic one, with more calls to a request and loops over its players and truth sets.

## Findings

Behaviours of the code at odds with what its documents, comments and tests promise. The first three
need requests that overlap, or one that is cut short.

* **`host_leave_race`.** `StartGame` writes the room back as active from a copy read before
  `LeaveRoom` finished it: an active room without a host. With the database the same state is
  reached when a departing host's request is cancelled between the two statements of `LeaveRoom`.
* **`vote_twice`.** `SubmitVote` looks for a vote of the player (`vote_service.go:114`) and stores one
  (`:133`) in two calls, and the map in memory has no key but the id of a vote: two requests of one
  player that overlap, a double click, are both stored and both counted. `vote_service.go:72` says
  "SubmitVote stores one idempotent vote for a round", `README.md:22` promises "votacao com prevencao
  de voto duplicado", and `TestSubmitVoteRejectsDuplicateVotes` (`vote_service_test.go:13`) wants
  `ErrVoteAlreadyExists` of the second vote, on the repositories in memory. With the database
  `idx_vote_user_round` keeps the promise, which `DatabaseKeepsOneVote` proves. A check and an insert
  under one hold of the repository's mutex would do.
* **`scored_twice`.** `advanceToReveal` reads `ScoredAt`, increments the scores one by one and writes
  `ScoredAt` last. Two requests that notice the end of a voting together both count its votes, and
  so does the request after one that was cut short in between: a player gets more than the 12 points
  (10 for an author) that a truth set can bring. `three_lies_lifecycle_test.go:52` wants 12 points
  for a guest who has guessed one truth set. Since every client and the poll ask for the room when a
  phase ends, two requests that meet are the rule. Marking the set first and conditionally
  (`WHERE scored_at IS NULL`) would do.
* **`truth_set_refused`.** `idx_truth_set_round_order` is declared on
  `PresentationOrder` alone, and a new truth set has order 0: with PostgreSQL only one truth set
  without an order can be stored, in all rooms together, and an order drawn once is taken for good.
  In memory the property holds.
* **`state_withheld`.** `sendRoomStateToClient` answers one client and stores its answer as the last
  state of the *room* (`manager.go:446`). When a client connects, or asks for a synchronisation,
  after the room has changed and before the poll has noticed, the poll then finds nothing new: the
  other clients keep the old state until the next change. `README.md:13` promises the
  synchronisation of the room in real time. Broadcasting only what the *client* lacks, or not
  storing the state there, would do.

Not stated as violations: two overlapping submissions of one player are both stored as stories (the
stories table has no unique index), and two joins can share the last place. `ErrStoryAlreadySubmitted`,
`ErrRoomFull` and their tests speak of one request after another, and no comment promises more.
`overlap_classic` bounds both.

Reachable in the models as well, without a run of their own. In `ClassicConcurrent`, updates write
the whole round from a copy: a pause that read a round being written, and writes its mark after
another request has moved the round to voting, takes the round back to writing
(`PhaseNeverRegresses` holds of requests served whole only; `CurrentNeverFallsBack` is about the
number of the current round and says nothing of its phase). `PauseRound` writes the room as paused and then marks the round; a `StartGame` in between finds no mark to
clear, and the mark arrives in an active room, whose clock then stands until a "next" or another
pause and resume. In `RealtimeHub`, `Panic` is reached: `broadcastEvent` sends outside the mutex, and
a client may unregister meanwhile. Two broadcasts that overlap may leave an older state with a
client; the poll corrects it within a second. In `ThreeLiesSync`, two requests that end a writing
phase together write two shuffles over each other, row by row, and the orders may end up with a gap
or a repetition, so that a truth set is never presented; a vote checked before the deadline may be
stored after the scoring, and is shown but brings nothing; a truth set rewritten while it is being
ordered or scored loses its order or its mark; with a database, two overlapping increments count
once, and a request cut short between finishing a round and opening the next one leaves the room
active with a finished round, which no later request gets out of. Outside the models: the join handler answers with the
session of the user listed last, so two joins that overlap can be given the same one.

Two more things the serial models show. `NextRound` synchronises before it advances, so a "next" that
arrives at the deadline of the writing phase moves the round to voting and straight on to revealed,
and the vote never takes place. And `EmptyWritingIsFinal` of the three-lies game: when nobody has
handed in a truth set in time, `advanceToPresentationVoting` answers
`ErrActiveTruthSetUnavailable` to this and every later request that synchronises the round while the
room is active, reads included. A pause still succeeds, but what follows it meets the same error; the
host's leaving finishes the room, and else it can only wait for its expiry. The game never goes on.

## Plan

What is done: both games with requests served whole and cut at their repository calls, the ranking,
the realtime manager, the abstract `RoomLife` and its implementation by both games, and the liveness
of both games under the poll; the invariants of both games, served whole, their refinement of
`RoomLife`, what overlapping requests keep of the rounds, the counts and the scores, and the manager's properties,
proved; that a classic request served alone, call by call, is one served whole, and that a slow request of three
lies leaves an exact game. Left:

1. **`ImplementsRoom` of `ThreeLiesSync`** as a theorem: what the calls a lone request has made amount
   to, and that with its last call this is the step of the request served whole.

## Not modelled

Text validation and clean-up, random codes and tokens (stateless), the seeding of the table of game types (fixed),
configuration and start-up (its values are constants), CORS and logging, encoding of answers.
`GetUserVote` changes nothing and reads two rows. The statements of a truth set are part of its row;
in the database they are rows of their own, deleted and written again within one transaction of
`Update`. Rows of other rooms do not occur, with one exception in the code: the index on
`presentation_order` is shared by all rooms, so what `truth_set_refused` shows of two rounds happens
between two rooms too.
