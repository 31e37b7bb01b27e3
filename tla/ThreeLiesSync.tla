--------------------------- MODULE ThreeLiesSync ---------------------------
(***************************************************************************)
(* The handlers of ThreeLiesRoom cut at their repository calls.            *)
(*                                                                         *)
(* In three lies every request that touches a room synchronises its round, *)
(* and the poll does so once a second: when a phase ends there is as a     *)
(* rule more than one request that notices.  Each works with copies of the *)
(* rows, and an advance is several writes.                                 *)
(*                                                                         *)
(* The request of a worker is the sequence of the calls it has still to    *)
(* make; a call may put others in front of the rest.  A history of         *)
(* requests served whole, or call by call but alone, leads to a burst of   *)
(* MaxRequests requests that overlap in any way.                           *)
(***************************************************************************)
EXTENDS ThreeLiesRoom, SequencesExt

CONSTANTS
  Workers,     \* goroutines serving requests
  MaxRequests  \* requests of the burst

Ops == {"get", "write", "vote"}

ASSUME TLBurstAssumption == IsFiniteSet(Workers) /\ Workers # {} /\ MaxRequests \in Nat

VARIABLES
  req,        \* the request each worker serves
  arrived,    \* requests of the burst that have arrived
  served,     \* history: the rows as the last request served alone has left them
  overlapped, \* history: two requests have been in flight together
  tally       \* history: per truth set, the points given when it was last marked as scored

rows  == [now |-> now, room |-> room, user |-> user, rounds |-> rounds,
          sets |-> sets, votes |-> votes, score |-> score]
svars == <<vars, req, arrived, served, overlapped, tally>>

NoRow == [number |-> 1, status |-> "writing", active |-> 0,
          phaseEndsAt |-> NoTime, pausedAt |-> NoTime]

\* at: index of the round a request works on; round: its copy of that row;
\* clock: the time its synchronisation has read.
Idle == [op |-> "none", who |-> NoPlayer, at |-> 0, statement |-> 0,
         todo |-> <<>>, round |-> NoRow, clock |-> 0]

Quiescent == \A w \in Workers : req[w] = Idle

-----------------------------------------------------------------------------
(* Calls, and the steps of a request through them.                         *)

Read(call)           == [call |-> call]
ReadClock(status)    == [call |-> "readClock", status |-> status]
WriteRoom(status)    == [call |-> "updateRoom", status |-> status]
WriteRound(row)      == [call |-> "updateRound", row |-> row]
OpenRound(row)       == [call |-> "createRound", row |-> row]
WriteSet(s, row)     == [call |-> "updateSet", set |-> s, row |-> row, given |-> <<>>]
AddSet(row)          == [call |-> "createSet", row |-> row]
AddPoints(p, points) == [call |-> "increment", who |-> p, points |-> points]

\* The set is marked as scored; given is the history of what it was scored with.
MarkScored(s, row, given) ==
  [call |-> "updateSet", set |-> s, row |-> [row EXCEPT !.scored = TRUE], given |-> given]

Doing(w, call) == req[w].todo # <<>> /\ Head(req[w].todo).call = call

Call(w) == Head(req[w].todo)

\* Bug: a worker keeps its copies for the next request.
TurnKeeping(w, r) == req' = [req EXCEPT ![w] = r]

Turn(w, r) == req' = [req EXCEPT ![w] = IF r.todo = <<>> THEN Idle ELSE r]

\* Calls in front of the rest, with the request as r.
Before(w, calls, r) == Turn(w, [r EXCEPT !.todo = calls \o Tail(@)])

Continue(w) == Before(w, <<>>, req[w])

\* An error, or nothing left to do.
End(w) == Turn(w, [req[w] EXCEPT !.todo = <<>>])

\* The last call of a request.
LastCall(w, call) == Turn(w, [req[w] EXCEPT !.todo = <<call>>])

RowsKept == UNCHANGED <<room, user, rounds, sets, votes, score, tally>>

Calls(op) ==
  CASE op = "get"   -> <<Read("readRoom"), Read("readCurrent"), Read("syncRoom"),
                         Read("readCurrent"), Read("syncRoom")>>
    [] op = "write" -> <<Read("readRound"), Read("syncRoom"), Read("accept"), Read("readMine")>>
    [] op = "vote"  -> <<Read("readRound"), Read("syncRoom"), Read("accept"), Read("lookUp")>>

-----------------------------------------------------------------------------
(* Reading the room and the round.                                         *)

\* GetByCode, and ensureRoomAvailable on what it returns.
ReadRoom(w) ==
  /\ Doing(w, "readRoom") /\ RowsKept
  /\ CASE now > room.expiresAt -> LastCall(w, WriteRoom("expired"))
       [] now <= room.expiresAt /\ room.status = "expired" -> End(w)
       [] now <= room.expiresAt /\ room.status # "expired" -> Continue(w)

\* GetCurrentByRoomID: the last row inserted, or ORDER BY round_number DESC,
\* started_at DESC.  Two rounds have one number only if two requests have found
\* the commentary over; the model takes the later row for the later start.
Latest ==
  IF postgres
    THEN CHOOSE i \in DOMAIN rounds :
           \A j \in DOMAIN rounds :
             \/ rounds[j].number < rounds[i].number
             \/ rounds[j].number = rounds[i].number /\ j <= i
    ELSE Len(rounds)

ReadCurrent(w) ==
  /\ Doing(w, "readCurrent") /\ RowsKept
  /\ IF rounds = <<>>
       THEN End(w)
       ELSE Before(w, <<>>, [req[w] EXCEPT !.at = Latest, !.round = rounds[Latest]])

ReadRoundRow(w) ==
  /\ Doing(w, "readRound") /\ RowsKept
  /\ Before(w, <<>>, [req[w] EXCEPT !.round = rounds[req[w].at]])

-----------------------------------------------------------------------------
(* SyncRound.                                                              *)

\* Bug: a phase begins when the last one should have ended.
EnteringOnTime(r, status, duration) ==
  [r.round EXCEPT !.status = status, !.phaseEndsAt = @ + duration, !.pausedAt = NoTime]

\* The copy of the round as it enters a phase.
Entering(r, status, duration) ==
  [r.round EXCEPT !.status = status, !.phaseEndsAt = r.clock + duration, !.pausedAt = NoTime]

Showing(r, s) == [Entering(r, "presentation_voting", VoteTime) EXCEPT !.active = s]

\* Bug: the request goes on with the round as it was.
MovesUnnoticed(w, r, row) == Before(w, <<WriteRound(row)>>, r)

\* Write the round, and go on with it.
Moves(w, r, row) == Before(w, <<WriteRound(row)>>, [r EXCEPT !.round = row])

DueBy(r) == r.round.pausedAt = NoTime /\ r.round.phaseEndsAt # NoTime
            /\ r.clock >= r.round.phaseEndsAt

\* The room is read anew.
SyncRoom(w) ==
  /\ Doing(w, "syncRoom") /\ RowsKept
  /\ Before(w, <<ReadClock(room.status)>>, req[w])

\* What there is to do by the clock, with the room just read and the copy of
\* the round.
Synchronise(w) ==
  /\ Doing(w, "readClock") /\ RowsKept
  /\ LET r == [req[w] EXCEPT !.clock = now]
         status == Call(w).status
         open == now <= room.expiresAt
     IN  \/ ~open /\ status # "expired" /\ LastCall(w, WriteRoom("expired"))
         \/ status = "expired" /\ End(w)
         \/ /\ open /\ status \notin {"expired", "active"}
            /\ IF r.op = "get" THEN Continue(w) ELSE End(w)
         \/ /\ open /\ status = "active"
            /\ IF ~DueBy(r) THEN Before(w, <<>>, r)
               ELSE CASE r.round.status = "countdown" -> Moves(w, r, Entering(r, "writing", WriteTime))
                      [] r.round.status = "writing" -> Before(w, <<Read("listSets")>>, r)
                      [] r.round.status = "presentation_voting" -> Before(w, <<Read("readActive")>>, r)
                      [] r.round.status = "reveal" -> Moves(w, r, Entering(r, "commentary", CommentTime))
                      [] r.round.status = "commentary" -> Before(w, <<Read("listNext")>>, r)

\* advanceToPresentationVoting: without an order, the sets are shuffled and
\* written back row by row, from the copies just listed.
ListSets(w) ==
  /\ Doing(w, "listSets") /\ RowsKept
  /\ LET mine == SetsOf(game, req[w].at)
     IN  CASE mine = {} -> End(w)
           [] mine # {} /\ (\A s \in mine : sets[s].order > 0) ->
                Before(w, <<Read("firstSet")>>, req[w])
           [] \E s \in mine : sets[s].order = 0 ->
                \E shuffled \in SetToSeqs(mine) :
                  Before(w, [k \in DOMAIN shuffled |->
                               WriteSet(shuffled[k], [sets[shuffled[k]] EXCEPT !.order = k])]
                            \o <<Read("firstSet")>>, req[w])

\* firstPresentationTruthSet lists the sets again; those with the same order
\* come as they were created.
FirstSet(w) ==
  /\ Doing(w, "firstSet") /\ RowsKept
  /\ LET mine == SetsOf(game, req[w].at)
     IN  \E s \in {x \in mine : \A t \in mine : sets[x].order <= sets[t].order} :
           Moves(w, req[w], Showing(req[w], s))

\* advanceToReveal: a copy of the active set, which says whether it is scored.
ReadActive(w) ==
  /\ Doing(w, "readActive") /\ RowsKept
  /\ LET s == req[w].round.active
     IN  IF sets[s].scored
           THEN Moves(w, req[w], Entering(req[w], "reveal", RevealTime))
           ELSE Before(w, <<[call |-> "listVotes", set |-> s, row |-> sets[s]]>>, req[w])

\* Bug: the set is marked before the scores are written.
ScoringMarkedFirst(s, row, given, order) ==
  <<MarkScored(s, row, given)>>
    \o [k \in DOMAIN order |-> AddPoints(order[k], given[order[k]])]

\* The points of the players in any order (a map), and those of the author,
\* are written before the set is marked.
Scoring(s, row, given, order) ==
  [k \in DOMAIN order |-> AddPoints(order[k], given[order[k]])]
    \o <<MarkScored(s, row, given)>>

ListVotes(w) ==
  /\ Doing(w, "listVotes") /\ RowsKept
  /\ LET s     == Call(w).set
         row   == Call(w).row
         given == [p \in Players |-> Points(row, VotesOn(s), p)]
         after == Entering(req[w], "reveal", RevealTime)
     IN  \E order \in SetToSeqs({p \in Players \ {row.author} : given[p] > 0}) :
           LET all == IF given[row.author] > 0 THEN Append(order, row.author) ELSE order
           IN  Before(w, Scoring(s, row, given, all) \o <<WriteRound(after)>>,
                      [req[w] EXCEPT !.round = after])

\* Bug: the next round is numbered by the rows there are.
NumberByCount(number) == Len(rounds) + 1

NumberAfter(number) == number + 1

\* Bug: the next round, or the end of the game, is left to another request.
ClosingRoundOnly(over, new) == <<WriteRound(over)>>

\* A round that is over: two writes.
Closing(over, new) ==
  <<WriteRound(over), IF IsLastRound(over) THEN WriteRoom("finished") ELSE OpenRound(new)>>

\* advanceAfterCommentary: the next set, or the end of the round and then the
\* next round or the end of the game.
ListNext(w) ==
  /\ Doing(w, "listNext") /\ RowsKept
  /\ LET r     == req[w]
         order == sets[r.round.active].order
         next  == {s \in SetsOf(game, r.at) : order # 0 /\ sets[s].order = order + 1}
         over  == Finished(r.round)
         new   == [NoRow EXCEPT !.number = NumberAfter(r.round.number),
                                !.phaseEndsAt = r.clock + WriteTime]
     IN  \/ \E s \in next : Moves(w, r, Showing(r, s))
         \/ /\ next = {}
            /\ Before(w, Closing(over, new), [r EXCEPT !.round = over])

-----------------------------------------------------------------------------
(* Writing rows.  An Update writes a whole row from a copy.                *)

UpdateRoom(w) ==
  /\ Doing(w, "updateRoom") /\ Continue(w)
  /\ room' = [room EXCEPT !.status = Call(w).status]
  /\ UNCHANGED <<user, rounds, sets, votes, score, tally>>

UpdateRound(w) ==
  /\ Doing(w, "updateRound") /\ Continue(w)
  /\ rounds' = [rounds EXCEPT ![req[w].at] = Call(w).row]
  /\ UNCHANGED <<room, user, sets, votes, score, tally>>

\* The request goes on with the new round.
CreateRound(w) ==
  /\ Doing(w, "createRound")
  /\ rounds' = Append(rounds, Call(w).row)
  /\ Before(w, <<>>, [req[w] EXCEPT !.at = Len(rounds) + 1, !.round = Call(w).row])
  /\ UNCHANGED <<room, user, sets, votes, score, tally>>

\* Over the database the presentation order is unique, see OrderFree.
UpdateSet(w) ==
  /\ Doing(w, "updateSet")
  /\ UNCHANGED <<room, user, rounds, votes, score>>
  /\ LET s     == Call(w).set
         row   == Call(w).row
         taken == \E t \in DOMAIN sets \ {s} : sets[t].order = row.order
     IN  \/ postgres /\ taken /\ End(w) /\ UNCHANGED <<sets, tally>>
         \/ /\ ~(postgres /\ taken) /\ Continue(w)
            /\ sets' = [sets EXCEPT ![s] = row]
            /\ tally' = IF row.scored /\ Call(w).given # <<>>
                          THEN [tally EXCEPT ![s] = Call(w).given] ELSE tally

\* idx_truth_set_round_author.
AuthorTaken(row) ==
  postgres /\ \E s \in SetsOf(game, row.round) : sets[s].author = row.author

CreateSet(w) ==
  /\ Doing(w, "createSet")
  /\ UNCHANGED <<room, user, rounds, votes, score>>
  /\ LET row == Call(w).row
     IN  IF AuthorTaken(row) \/ ~OrderFree(game, row.order)
           THEN End(w) /\ UNCHANGED <<sets, tally>>
           ELSE /\ Continue(w)
                /\ sets' = Append(sets, row)
                /\ tally' = Append(tally, [p \in Players |-> 0])

\* RoomScoreRepository.Increment: atomic in memory, a read and a write over
\* the database.
Increment(w) ==
  /\ Doing(w, "increment")
  /\ LET c == Call(w)
     IN  IF postgres
           THEN /\ Before(w, <<[call |-> "writeScore", who |-> c.who, points |-> c.points,
                                from |-> score[c.who]]>>, req[w])
                /\ RowsKept
           ELSE /\ score' = [score EXCEPT ![c.who] = @ + c.points]
                /\ Continue(w)
                /\ UNCHANGED <<room, user, rounds, sets, votes, tally>>

\* A row inserted twice is refused by idx_room_score_user.
WriteScore(w) ==
  /\ Doing(w, "writeScore")
  /\ LET c == Call(w)
     IN  IF c.from = 0 /\ score[c.who] # 0
           THEN End(w) /\ UNCHANGED score
           ELSE Continue(w) /\ score' = [score EXCEPT ![c.who] = c.from + c.points]
  /\ UNCHANGED <<room, user, rounds, sets, votes, tally>>

-----------------------------------------------------------------------------
(* SubmitTruthSet and SubmitVote, once the round is synchronised.          *)

\* What the copy of the round lets happen.
Accepts(w) ==
  LET r == req[w]
  IN  \/ r.op = "write" /\ r.round.status = "writing"
      \/ /\ r.op = "vote" /\ r.round.status = "presentation_voting"
         /\ now < r.round.phaseEndsAt
         /\ sets[r.round.active].author # r.who

Accept(w) ==
  /\ Doing(w, "accept") /\ RowsKept
  /\ IF user[req[w].who] = "member" /\ Accepts(w) THEN Continue(w) ELSE End(w)

\* Bug: only the last set of the round is looked at.
OwnIfLast(i, p) == {s \in SetsOf(game, i) : sets[s].author = p /\ s = Len(sets)}

OwnSets(i, p) == {s \in SetsOf(game, i) : sets[s].author = p}

\* GetByAuthorAndRound: of two sets in memory, the one created last.
ReadMine(w) ==
  /\ Doing(w, "readMine") /\ RowsKept
  /\ LET r    == req[w]
         mine == OwnSets(r.at, r.who)
         row  == [round |-> r.at, author |-> r.who, truth |-> r.statement,
                  order |-> 0, scored |-> FALSE]
     IN  LastCall(w, IF mine = {}
                       THEN AddSet(row)
                       ELSE WriteSet(Max(mine), [row EXCEPT !.order = sets[Max(mine)].order]))

Voted(s, p) == \E v \in VotesOn(s) : v.voter = p

\* GetByTruthSetAndUser; in memory the answer makes no difference, over the
\* database Upsert asks once more and acts upon it.
LookUp(w) ==
  /\ Doing(w, "lookUp") /\ RowsKept
  /\ LET s == req[w].round.active
     IN  LastCall(w, [call |-> "upsert", set |-> s, isNew |-> ~Voted(s, req[w].who)])

\* Upsert.  Over the database a row inserted twice is refused by
\* idx_truth_set_vote_user.
Upsert(w) ==
  /\ Doing(w, "upsert") /\ End(w)
  /\ LET s == Call(w).set
         p == req[w].who
     IN  votes' = IF postgres /\ Call(w).isNew /\ Voted(s, p)
                    THEN votes
                    ELSE {v \in votes : ~(v.set = s /\ v.voter = p)}
                           \cup {[set |-> s, voter |-> p, choice |-> req[w].statement]}
  /\ UNCHANGED <<room, user, rounds, sets, score, tally>>

-----------------------------------------------------------------------------
(* The specification.                                                      *)

\* Requests that their arguments get refused are left out, as in
\* ClassicConcurrent; "get" is also the poll and the host's "next".
Arrive(w, op, p, i, x) ==
  /\ req[w] = Idle /\ room.status # "none"
  /\ IF op = "get" THEN p = NoPlayer /\ i = 0 /\ x = 0
                   ELSE p \in Members /\ i \in DOMAIN rounds /\ x \in Statements
  /\ Turn(w, [Idle EXCEPT !.op = op, !.who = p, !.at = i, !.statement = x, !.todo = Calls(op)])
  /\ RowsKept

Receive(w) ==
  \E op \in Ops, p \in Players \cup {NoPlayer}, i \in 0..Len(rounds), x \in Statements \cup {0} :
    Arrive(w, op, p, i, x)

\* One repository call of worker w.
Serve(w) ==
  \/ ReadRoom(w) \/ ReadCurrent(w) \/ ReadRoundRow(w) \/ SyncRoom(w) \/ Synchronise(w)
  \/ ListSets(w) \/ FirstSet(w) \/ ReadActive(w) \/ ListVotes(w) \/ ListNext(w)
  \/ UpdateRoom(w) \/ UpdateRound(w) \/ CreateRound(w)
  \/ UpdateSet(w) \/ CreateSet(w) \/ Increment(w) \/ WriteScore(w)
  \/ Accept(w) \/ ReadMine(w) \/ LookUp(w) \/ Upsert(w)

\* With a database a request may be cut short, as in ClassicConcurrent.
Abort(w) == postgres /\ req[w] # Idle /\ End(w) /\ RowsKept

SInit ==
  /\ Init
  /\ req = [w \in Workers |-> Idle] /\ arrived = 0
  /\ served = rows /\ overlapped = FALSE /\ tally = <<>>

\* The points a request served whole has given.
Tallied ==
  [s \in DOMAIN sets' |->
     IF s \notin DOMAIN sets THEN [p \in Players |-> 0]
     ELSE IF sets'[s].scored /\ ~sets[s].scored
       THEN [p \in Players |-> score'[p] - score[p]]
       ELSE tally[s]]

\* Before the burst requests come one at a time, and time passes between them.
History ==
  /\ arrived = 0 /\ UNCHANGED <<arrived, overlapped>>
  /\ \/ Quiescent /\ RoomRequest /\ tally' = Tallied /\ UNCHANGED req
     \/ Quiescent /\ Tick /\ UNCHANGED <<req, tally>>
     \/ \E w \in Workers : Quiescent /\ Receive(w) /\ UNCHANGED now
     \/ \E w \in Workers : Serve(w) /\ UNCHANGED now

Burst ==
  \/ /\ arrived > 0 \/ Quiescent
     /\ arrived < MaxRequests /\ arrived' = arrived + 1
     /\ overlapped' = (overlapped \/ ~Quiescent)
     /\ \E w \in Workers : Receive(w)
     /\ UNCHANGED now
  \/ /\ arrived > 0 /\ UNCHANGED <<arrived, overlapped>>
     /\ \/ Tick /\ UNCHANGED <<req, tally>>
        \/ \E w \in Workers : (Serve(w) \/ Abort(w)) /\ UNCHANGED now
        \/ Quiescent /\ UNCHANGED <<vars, req, tally>>  \* the model stops here

SNext ==
  /\ History \/ Burst
  /\ served' = IF arrived' > 0 \/ Quiescent' THEN rows' ELSE served
  /\ UNCHANGED postgres

SSpec == SInit /\ [][SNext]_svars

-----------------------------------------------------------------------------
(* What holds however the requests overlap.                                *)

\* Types of the rows and of the histories; whoever has a call left has a
\* request.
STypeOK ==
  /\ TypeOK
  /\ arrived \in 0..MaxRequests /\ overlapped \in BOOLEAN
  /\ tally \in [DOMAIN sets -> [Players -> Nat]]
  /\ \A w \in Workers :
       /\ req[w].round \in Rounds /\ req[w].clock <= now
       /\ req[w].at \in 0..Len(rounds)
       /\ req[w].todo = <<>> <=> req[w] = Idle

\* As in ClassicConcurrent: a round may be opened twice by requests that find
\* the commentary over, but none beyond the last, and none before its
\* predecessor.
RoundsLinked ==
  \A i \in DOMAIN rounds :
    /\ rounds[i].number <= MaxRounds
    /\ rounds[i].number > 1 => \E j \in 1..(i - 1) : rounds[j].number = rounds[i].number - 1

\* In memory, requests that end a round together never leave an active room
\* with a round that is over: it has the next one, or the game is finished.
GameGoesOn ==
  ~postgres /\ Quiescent /\ room.status = "active" => rounds[Latest].status # "finished"

\* A set that is marked as scored has brought its points: cut short, or
\* overtaken by others, a request may count a set again but not lose it.  Only
\* overlapping increments over the database do.
CountedBeforeMarked ==
  ~postgres \/ ~overlapped =>
    \A p \in Players :
      score[p] >= MapThenSumSet(LAMBDA s : tally[s][p], {s \in DOMAIN sets : sets[s].scored})

\* Overlapping submissions of a player may store more than one truth set, but
\* no more than are in flight; the database has one.
SetsBounded ==
  \A i \in DOMAIN rounds, p \in Players :
    Cardinality({s \in SetsOf(game, i) : sets[s].author = p})
      <= IF postgres THEN 1 ELSE Cardinality(Workers)

\* A request may be as slow as it likes, and the clock pass a deadline between
\* any two of its calls: in memory, with no other request in flight, the
\* rounds, the presentations and the scores are as exact as in ThreeLiesRoom.
SlowIsExact ==
  ~postgres /\ ~overlapped /\ Quiescent =>
    RoundsInOrder /\ PresentedInOrder /\ ScoresMatchVotes

Serial == INSTANCE ThreeLiesRoom
            WITH now    <- served.now,
                 room   <- served.room,
                 user   <- served.user,
                 rounds <- served.rounds,
                 sets   <- served.sets,
                 votes  <- served.votes,
                 score  <- served.score

\* One request at a time, the handlers are atomic: as long as none overlap,
\* every run of them, seen when none is in flight, is a run of ThreeLiesRoom.
ImplementsRoom == Serial!Init /\ [][arrived' = 0 => [Serial!Next]_served]_svars

-----------------------------------------------------------------------------
(* What the tests promise and overlapping requests break.                  *)

\* A truth set brings whoever guesses it 12 points at most, and its author 10.
WithinReach ==
  \A p \in Players :
    score[p] <= MapThenSumSet(LAMBDA s : IF sets[s].author = p THEN 10 ELSE 12, DOMAIN sets)

=============================================================================
