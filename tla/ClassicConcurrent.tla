------------------------- MODULE ClassicConcurrent -------------------------
(***************************************************************************)
(* The handlers of ClassicRoom cut at their repository calls.              *)
(*                                                                         *)
(* The HTTP server and the websocket manager serve every request in a      *)
(* goroutine of its own.  A repository call is atomic (a mutex, or one SQL *)
(* statement); between two calls a handler holds nothing but its own       *)
(* copies of the rows it has read, and an Update writes a whole row from   *)
(* such a copy.  A step of a worker is one repository call with the local  *)
(* computation next to it.                                                 *)
(*                                                                         *)
(* A history of requests served one at a time (the actions of ClassicRoom) *)
(* leads to a burst of MaxRequests requests that overlap in any way.       *)
(***************************************************************************)
EXTENDS ClassicRoom

CONSTANTS
  Workers,      \* goroutines serving requests
  Ops,          \* operations requested in the burst
  MaxRequests,  \* requests of the burst
  Postgres      \* TRUE for the GORM repositories, FALSE for the in-memory ones

HostOps  == {"start", "pause", "next"}
RoundOps == {"read", "story", "vote", "top"}
AllOps   == {"get", "join", "leave"} \cup HostOps \cup RoundOps

ASSUME BurstAssumption == /\ IsFiniteSet(Workers) /\ Workers # {}
                          /\ Ops \subseteq AllOps
                          /\ MaxRequests \in Nat
                          /\ Postgres \in BOOLEAN

VARIABLES
  req,      \* the request each worker serves
  arrived   \* requests of the burst that have arrived

cvars == <<vars, req, arrived>>

\* The repository call a worker makes next.
Calls == {"readRoom", "authenticate", "available",
          "listUsers", "readCurrent", "syncRoom", "syncWrite", "reread",
          "countUsers", "createUser", "deleteUser", "countLeft", "close",
          "openFirst", "resume", "setActive", "toggle", "mark", "step", "openNext",
          "readRound", "checkStory", "insertStory", "checkVote", "insertVote",
          "listStories", "listVotes", "markWinner"}

\* What follows once the current round has been synchronised or read again.
Thens == {"build", "step", "resume", "mark", "accept", "done"}

NoRoom == [status |-> "none", hostID |-> NoPlayer, expiresAt |-> 0]
NoRow  == [number |-> 1, status |-> "writing", startedAt |-> 0,
           phaseEndsAt |-> NoTime, pausedAt |-> NoTime]

\* who, at and story are the arguments (at: also the index of the round a room
\* request works on); room and round are the copies of the rows read, or the
\* round to be created.
Requests == [op : AllOps \cup {"none"}, pc : Calls \cup {"idle"}, then : Thens,
             who : Players \cup {NoPlayer}, at : Nat, story : Nat,
             room : Rooms, round : Rounds]

Idle == [op |-> "none", pc |-> "idle", then |-> "done", who |-> NoPlayer,
         at |-> 0, story |-> 0, room |-> NoRoom, round |-> NoRow]

\* Bug: the database, too, returns the last row inserted.
LastInserted == Len(rounds)

\* Whether row i comes before row j, or is row j, with ORDER BY round_number
\* DESC, started_at DESC; of two rounds of one instant the later row does.
Precedes(i, j) ==
  \/ rounds[i].number > rounds[j].number
  \/ /\ rounds[i].number = rounds[j].number
     /\ \/ rounds[i].startedAt > rounds[j].startedAt
        \/ rounds[i].startedAt = rounds[j].startedAt /\ i >= j

\* GetCurrentByRoomID: the first row in that order, or the last one inserted.
Latest ==
  IF Postgres
    THEN CHOOSE i \in DOMAIN rounds : \A j \in DOMAIN rounds : Precedes(i, j)
    ELSE Len(rounds)

-----------------------------------------------------------------------------
(* The building blocks of a step.                                          *)

At(w, call) == req[w].pc = call

Go(w, r) == req' = [req EXCEPT ![w] = r]

Call(w, call) == Go(w, [req[w] EXCEPT !.pc = call])

\* Bug: a worker keeps its copies for the next request.
KeepCopies(w) == Call(w, "idle")

Finish(w) == Go(w, Idle)

Sync(w, then) == Go(w, [req[w] EXCEPT !.pc = "readCurrent", !.then = then])

Reread(w, then) == Go(w, [req[w] EXCEPT !.pc = "reread", !.then = then])

\* buildRoomState: the handler has no more use for its copies.
Build(w) == Go(w, [req[w] EXCEPT !.pc = "listUsers", !.room = NoRoom, !.round = NoRow])

UpdateRoom(row) == room' = row /\ UNCHANGED <<user, rounds, stories, votes>>

UpdateRound(i, row) == /\ rounds' = [rounds EXCEPT ![i] = row]
                       /\ UNCHANGED <<room, user, stories, votes>>

CreateRound(row) == rounds' = Append(rounds, row) /\ UNCHANGED <<room, user, stories, votes>>

JustRead == UNCHANGED <<room, user, rounds, stories, votes>>

Outsiders == {p \in Players : user[p] = "absent"}

-----------------------------------------------------------------------------
(* Arrival, and the calls that many operations share.                      *)

\* Requests that nothing but their arguments gets refused are left out: the
\* host's from another player, those for an unknown round or story.
Arrive(w, op, p, i, s) ==
  /\ At(w, "idle") /\ room.status # "none"
  /\ CASE op \in HostOps -> p = room.hostID
       [] op = "join"    -> p \in Outsiders /\ \A v \in Workers : req[v].who # p
       [] op \in {"leave", "story", "vote"} -> p \in Players \ Outsiders
       [] op \in {"get", "read", "top"} -> p = NoPlayer
  /\ IF op \in RoundOps THEN i \in DOMAIN rounds ELSE i = 0
  /\ IF op = "vote" THEN s \in DOMAIN stories ELSE s = 0
  /\ Go(w, [Idle EXCEPT !.op = op, !.who = p, !.at = i, !.story = s,
                        !.pc = IF op \in RoundOps THEN "readRound" ELSE "readRoom"])
  /\ JustRead

ReadRoom(w) ==
  /\ At(w, "readRoom")
  /\ Go(w, [req[w] EXCEPT !.room = room,
                          !.pc = IF req[w].op \in {"get", "join"} THEN "available"
                                                                  ELSE "authenticate"])
  /\ JustRead

\* AuthenticateUserSession and ensureRoomHost: the user must still exist.
Authenticate(w) ==
  /\ At(w, "authenticate")
  /\ IF user[req[w].who] # "member"
       THEN Finish(w)
       ELSE CASE req[w].op = "leave" -> Call(w, "deleteUser")
              [] req[w].op = "story" -> Call(w, "checkStory")
              [] req[w].op = "vote"  -> Call(w, "checkVote")
              [] req[w].op \in {"start", "next"} -> Call(w, "available")
              [] req[w].op = "pause" -> IF req[w].room.status \in {"active", "paused"}
                                          THEN Call(w, "toggle") ELSE Finish(w)
  /\ JustRead

\* ensureRoomAvailable on the copy of the room, and what the copy lets happen.
Available(w) ==
  /\ At(w, "available")
  /\ IF now > req[w].room.expiresAt
       THEN Finish(w) /\ UpdateRoom([req[w].room EXCEPT !.status = "expired"])
       ELSE /\ JustRead
            /\ LET status == req[w].room.status
                   op     == req[w].op
               IN  CASE op = "get"   /\ status # "expired" -> Sync(w, "build")
                     [] op = "next"  /\ status # "expired" -> Sync(w, "step")
                     [] op = "join"  /\ status = "waiting" -> Call(w, "countUsers")
                     [] op = "start" /\ status = "waiting" -> Call(w, "openFirst")
                     [] op = "start" /\ status = "paused"  -> Reread(w, "resume")
                     [] OTHER -> Finish(w)

\* buildRoomState, which the request of a player who joins reads itself from.
ListUsers(w) == At(w, "listUsers") /\ Sync(w, "done") /\ JustRead

\* syncRoomLifecycle: the current round, then its room, then the update.  No
\* round is no error yet: NextRound asks for it once more.
ReadCurrent(w) ==
  /\ At(w, "readCurrent")
  /\ IF rounds # <<>>
       THEN Go(w, [req[w] EXCEPT !.pc = "syncRoom", !.at = Latest, !.round = rounds[Latest]])
       ELSE CASE req[w].then = "build" -> Build(w)
              [] req[w].then = "step"  -> Call(w, "reread")
              [] OTHER -> Finish(w)
  /\ JustRead

SyncRoom(w) ==
  /\ At(w, "syncRoom")
  /\ Go(w, [req[w] EXCEPT !.pc = "syncWrite", !.room = room])
  /\ JustRead

\* A classic room as a worker sees it: its copies in the place of the rows.
Seen(w) == [room |-> req[w].room, rounds |-> [rounds EXCEPT ![req[w].at] = req[w].round]]

\* What becomes of a request whose round is now as in game g.
Synced(w, g) ==
  LET r == [req[w] EXCEPT !.room = g.room, !.round = g.rounds[req[w].at]]
      accepts == CASE r.op = "story" -> Playable(g, r.at, "writing")
                   [] r.op = "vote"  -> Playable(g, r.at, "voting")
                   [] r.op = "top"   -> r.room.status # "waiting" /\ r.round.status = "revealed"
                   [] OTHER -> FALSE
  IN  CASE r.then = "build" -> Build(w)
        [] r.then = "step"  -> Go(w, [r EXCEPT !.pc = "reread"])
        [] r.then = "accept" /\ accepts ->
             Go(w, [r EXCEPT !.pc = IF r.op = "top" THEN "listStories" ELSE "authenticate"])
        [] OTHER -> Finish(w)

\* lifecycle.SyncRound: an expired room ends the request.
SyncWrite(w) ==
  /\ At(w, "syncWrite")
  /\ LET g == SyncRound(Seen(w), req[w].at)
         i == req[w].at
     IN  \/ /\ g.room.status = "expired"
            /\ Finish(w)
            /\ IF req[w].room.status # "expired" THEN UpdateRoom(g.room) ELSE JustRead
         \/ /\ g.room.status # "expired"
            /\ Synced(w, g)
            /\ IF g.rounds[i] # req[w].round THEN UpdateRound(i, g.rounds[i]) ELSE JustRead

\* GetCurrentByRoomID in a handler of its own right.
RereadCurrent(w) ==
  /\ At(w, "reread")
  /\ IF rounds # <<>>
       THEN Go(w, [req[w] EXCEPT !.pc = req[w].then, !.at = Latest, !.round = rounds[Latest]])
       ELSE IF req[w].op = "pause" THEN Sync(w, "build") ELSE Finish(w)
  /\ JustRead

-----------------------------------------------------------------------------
(* JoinRoom and LeaveRoom.                                                 *)

\* Bug: one player too many.
CountOneTooMany(w) ==
  /\ At(w, "countUsers")
  /\ IF Cardinality(Members) <= MaxPlayers THEN Call(w, "createUser") ELSE Finish(w)
  /\ JustRead

CountUsers(w) ==
  /\ At(w, "countUsers")
  /\ IF Cardinality(Members) < MaxPlayers THEN Call(w, "createUser") ELSE Finish(w)
  /\ JustRead

CreateUser(w) ==
  /\ At(w, "createUser")
  /\ user' = [user EXCEPT ![req[w].who] = "member"]
  /\ Build(w)
  /\ UNCHANGED <<room, rounds, stories, votes>>

\* Deleting a user who is gone already is an error.
DeleteUser(w) ==
  /\ At(w, "deleteUser")
  /\ IF user[req[w].who] = "member" THEN Call(w, "countLeft") ELSE Finish(w)
  /\ user' = [user EXCEPT ![req[w].who] = "gone"]
  /\ UNCHANGED <<room, rounds, stories, votes>>

\* Bug: a host who leaves is a player like any other.
CountPlayersLeft(w) ==
  /\ At(w, "countLeft")
  /\ IF Members = {} THEN Call(w, "close") ELSE Build(w)
  /\ JustRead

CountLeft(w) ==
  /\ At(w, "countLeft")
  /\ IF req[w].who = req[w].room.hostID \/ Members = {} THEN Call(w, "close") ELSE Build(w)
  /\ JustRead

CloseRoom(w) ==
  /\ At(w, "close")
  /\ UpdateRoom([req[w].room EXCEPT !.status = "finished"])
  /\ Build(w)

-----------------------------------------------------------------------------
(* StartGame, PauseRound and NextRound.                                    *)

\* Bug: the room is set active before the round is there.
ActiveFirst(w) ==
  /\ At(w, "openFirst")
  /\ UpdateRoom([req[w].room EXCEPT !.status = "active"])
  /\ Go(w, [req[w] EXCEPT !.pc = "openNext", !.round = NewRound(1)])

OpenFirst(w) == At(w, "openFirst") /\ CreateRound(NewRound(1)) /\ Call(w, "setActive")

ResumeRound(w) ==
  /\ At(w, "resume")
  /\ IF req[w].round.pausedAt # NoTime
       THEN UpdateRound(req[w].at, Resumed(req[w].round)) ELSE JustRead
  /\ Call(w, "setActive")

SetActive(w) ==
  /\ At(w, "setActive")
  /\ UpdateRoom([req[w].room EXCEPT !.status = "active"])
  /\ Build(w)

\* PauseRound writes the room first ...
Toggle(w) ==
  /\ At(w, "toggle")
  /\ LET row == [req[w].room EXCEPT !.status = IF @ = "active" THEN "paused" ELSE "active"]
     IN  UpdateRoom(row) /\ Go(w, [req[w] EXCEPT !.room = row, !.pc = "reread", !.then = "mark"])

\* ... and its round later.
MarkRound(w) ==
  /\ At(w, "mark")
  /\ LET r == req[w].round
     IN  CASE req[w].room.status = "paused" ->
                UpdateRound(req[w].at, [r EXCEPT !.pausedAt = now])
           [] req[w].room.status = "active" ->
                IF r.pausedAt # NoTime THEN UpdateRound(req[w].at, Resumed(r)) ELSE JustRead
  /\ Sync(w, "build")

\* The next round starts when newRound builds it; it is stored later.
Progress(w) ==
  /\ At(w, "step")
  /\ LET r == req[w].round
     IN  \/ /\ r.status \in {"writing", "voting"}
            /\ UpdateRound(req[w].at, Advanced(r))
            /\ Build(w)
         \/ /\ r.status = "revealed" /\ r.number >= MaxRounds
            /\ UpdateRoom([req[w].room EXCEPT !.status = "finished"])
            /\ Build(w)
         \/ /\ r.status = "revealed" /\ r.number < MaxRounds
            /\ UpdateRoom([req[w].room EXCEPT !.status = "active"])
            /\ Go(w, [req[w] EXCEPT !.pc = "openNext", !.round = NewRound(r.number + 1)])

OpenNext(w) == At(w, "openNext") /\ CreateRound(req[w].round) /\ Build(w)

-----------------------------------------------------------------------------
(* SubmitStory, SubmitVote, GetTopStory and the reads of a round.          *)

ReadRoundRow(w) ==
  /\ At(w, "readRound")
  /\ Go(w, [req[w] EXCEPT !.pc = "syncRoom", !.round = rounds[req[w].at],
                          !.then = IF req[w].op = "read" THEN "done" ELSE "accept"])
  /\ JustRead

\* Bug: the check is missing.
SkipCheck(w) == At(w, "checkStory") /\ Call(w, "insertStory") /\ JustRead

CheckStory(w) ==
  /\ At(w, "checkStory")
  /\ IF WroteIn(req[w].who, req[w].at) THEN Finish(w) ELSE Call(w, "insertStory")
  /\ JustRead

\* No index of the stories table forbids a second story.
InsertStory(w) ==
  /\ At(w, "insertStory")
  /\ stories' = Append(stories, [round |-> req[w].at, author |-> req[w].who,
                                 isRevealed |-> FALSE])
  /\ Finish(w)
  /\ UNCHANGED <<room, user, rounds, votes>>

CheckVote(w) ==
  /\ At(w, "checkVote")
  /\ LET s == stories[req[w].story]
     IN  IF s.round = req[w].at /\ s.author # req[w].who /\ ~VotedIn(req[w].who, req[w].at)
           THEN Call(w, "insertVote") ELSE Finish(w)
  /\ JustRead

\* idx_vote_user_round is an index of the database, not of the map in memory.
InsertVote(w) ==
  /\ At(w, "insertVote")
  /\ IF Postgres /\ VotedIn(req[w].who, req[w].at)
       THEN UNCHANGED votes
       ELSE votes' = Append(votes, [round |-> req[w].at, voter |-> req[w].who,
                                    story |-> req[w].story])
  /\ Finish(w)
  /\ UNCHANGED <<room, user, rounds, stories>>

\* The request remembers how many stories it has listed, then their winner.
ListStories(w) ==
  /\ At(w, "listStories")
  /\ IF StoriesOf(req[w].at) = {} THEN Finish(w)
       ELSE Go(w, [req[w] EXCEPT !.pc = "listVotes", !.story = Len(stories)])
  /\ JustRead

ListVotes(w) ==
  /\ At(w, "listVotes")
  /\ LET listed == {s \in StoriesOf(req[w].at) : s <= req[w].story}
         winner == CHOOSE s \in listed : \A t \in listed : Beats(s, t)
     IN  Go(w, [req[w] EXCEPT !.pc = "markWinner", !.story = winner])
  /\ JustRead

MarkWinner(w) ==
  /\ At(w, "markWinner")
  /\ stories' = [stories EXCEPT ![req[w].story].isRevealed = TRUE]
  /\ Finish(w)
  /\ UNCHANGED <<room, user, rounds, votes>>

-----------------------------------------------------------------------------
(* The specification.                                                      *)

\* With a database, a client that goes away (the request's context is
\* cancelled), a failing statement or a crash: the calls left are never made.
\* The maps in memory ignore the context, never fail and do not outlive a crash.
Abort(w) == Postgres /\ ~At(w, "idle") /\ Finish(w) /\ JustRead

\* One repository call of worker w.
Serve(w) ==
  \/ ReadRoom(w) \/ Authenticate(w) \/ Available(w) \/ ListUsers(w)
  \/ ReadCurrent(w) \/ SyncRoom(w) \/ SyncWrite(w) \/ RereadCurrent(w)
  \/ CountUsers(w) \/ CreateUser(w) \/ DeleteUser(w) \/ CountLeft(w) \/ CloseRoom(w)
  \/ OpenFirst(w) \/ ResumeRound(w) \/ SetActive(w)
  \/ Toggle(w) \/ MarkRound(w) \/ Progress(w) \/ OpenNext(w)
  \/ ReadRoundRow(w) \/ CheckStory(w) \/ InsertStory(w) \/ CheckVote(w) \/ InsertVote(w)
  \/ ListStories(w) \/ ListVotes(w) \/ MarkWinner(w)

Receive(w) ==
  \E op \in Ops, p \in Players \cup {NoPlayer},
     i \in 0..Len(rounds), s \in 0..Len(stories) : Arrive(w, op, p, i, s)

Quiescent == \A w \in Workers : req[w] = Idle

CInit == Init /\ req = [w \in Workers |-> Idle] /\ arrived = 0

\* The burst is over: the model stops here, the program goes on.
Over == arrived > 0 /\ Quiescent /\ UNCHANGED <<vars, req, arrived>>

CNext ==
  \/ arrived = 0 /\ Next /\ UNCHANGED <<req, arrived>>
  \/ arrived > 0 /\ Tick /\ UNCHANGED <<req, arrived>>
  \/ /\ arrived < MaxRequests /\ arrived' = arrived + 1
     /\ \E w \in Workers : Receive(w)
     /\ UNCHANGED now
  \/ \E w \in Workers : (Serve(w) \/ Abort(w)) /\ UNCHANGED <<now, arrived>>
  \/ Over

CSpec == CInit /\ [][CNext]_cvars

-----------------------------------------------------------------------------
(* What holds however the requests overlap.                                *)

\* Types of the requests in flight; an idle worker holds on to nothing.
CTypeOK ==
  /\ req \in [Workers -> Requests]
  /\ arrived \in 0..MaxRequests
  /\ \A w \in Workers : req[w].pc = "idle" <=> req[w] = Idle

\* StartGame and NextRound may open the same round twice, but never one beyond
\* the last nor one whose predecessor was not opened before it; and a room is
\* not set to active by requests that overlap before it has a round.
RoundsChain ==
  /\ \A i \in DOMAIN rounds :
       /\ rounds[i].number <= MaxRounds
       /\ rounds[i].number > 1 => \E j \in 1..(i - 1) : rounds[j].number = rounds[i].number - 1
  /\ room.status \in {"active", "paused"} => rounds # <<>>

\* ORDER BY round_number keeps a room from being thrown back: a NextRound that
\* creates its round late does not make it the current one again.
CurrentNeverFallsBack ==
  [][rounds # <<>> => rounds[Latest].number <= rounds'[Latest'].number]_rounds

\* Players who join between the count and the insert of others overfill a
\* room, by one for each further request in flight at most.
OvershootBounded == Cardinality(Members) <= MaxPlayers + Cardinality(Workers) - 1

\* Overlapping stories of a player are all taken (SubmitStory checks, then
\* inserts), but no more than are in flight at once: none gets past the check
\* once a story is stored, whatever else happens to the round meanwhile.
StoriesBounded ==
  \A i \in DOMAIN rounds, p \in Players :
    Cardinality({s \in StoriesOf(i) : stories[s].author = p}) <= Cardinality(Workers)

-----------------------------------------------------------------------------
(* What the documentation promises and overlapping requests break.         *)

\* LeaveRoom: if the host leaves, the room is finished, with no request in
\* flight that is still to do it.
HostGoneRoomOver ==
  Quiescent /\ room.status # "none" /\ user[room.hostID] = "gone"
    => room.status \in {"finished", "expired"}

\* SubmitVote stores one idempotent vote for a round: a player never has two of
\* them in it, however often the request is sent.
OneVoteEach ==
  \A i \in DOMAIN rounds, p \in Players :
    Cardinality({v \in DOMAIN votes : votes[v].round = i /\ votes[v].voter = p}) <= 1

=============================================================================
