------------------------ MODULE ThreeLiesPointsProofs ------------------------
(***************************************************************************)
(* What overlapping requests of three lies add to the game, for any number *)
(* of workers, players and rounds: a player has no more truth sets in a    *)
(* round than there are requests to write them, and the points of a set    *)
(* are in the scores when it is marked as scored.                          *)
(*                                                                         *)
(* Both are a matter of the order in which a request makes its calls.  The *)
(* set it will add counts as one of those there are; the points it has     *)
(* written, for a set it has still to mark, count as marked.               *)
(***************************************************************************)
EXTENDS ThreeLiesSyncProofs

-----------------------------------------------------------------------------
(* What the calls that neither pay, mark nor add a set leave behind them:  *)
(* the rest of the request, with calls in front that do not either; or     *)
(* these alone.                                                            *)

Pays(c) == c.call \in {"increment", "writeScore"}

Marks(c) == c.call = "updateSet" /\ c.given # <<>>

Plain(c) == ~Pays(c) /\ ~Marks(c) /\ c.call # "createSet"

GoesOnPlainly(w) ==
  \E front \in Seq(CallRows) :
    /\ \A k \in 1..Len(front) : Plain(front[k])
    /\ req'[w].todo \in {front, front \o Tail(req[w].todo)}

LEMMA PlainCalls ==
  ASSUME NEW c \in CallRows,
         \/ c.call \in Asking \cup Looking \cup {"firstSet", "updateRoom", "updateRound",
                                                 "createRound", "upsert"}
         \/ c.call = "updateSet" /\ c.given = <<>>
  PROVE  Plain(c)
  BY DEF Plain, Pays, Marks, Asking, Looking

LEMMA OnePlain ==
  ASSUME NEW c \in CallRows, Plain(c)
  PROVE  <<c>> \in Seq(CallRows) /\ \A k \in 1..Len(<<c>>) : Plain(<<c>>[k])
  OBVIOUS

LEMMA EndsPlainly ==
  ASSUME BurstOK, NEW w \in Workers, End(w)
  PROVE  GoesOnPlainly(w) /\ req'[w].todo = <<>>
  <1>1. req[w] \in Requests
    BY DEF BurstOK
  <1>2. [req[w] EXCEPT !.todo = <<>>].todo = <<>>
    BY <1>1 DEF Requests
  <1>3. req'[w].todo = <<>>
    BY <1>2, TurnTodo DEF End
  <1>4. <<>> \in Seq(CallRows) /\ \A k \in 1..Len(<<>>) : Plain(<<>>[k])
    OBVIOUS
  <1>. QED
    BY <1>3, <1>4 DEF GoesOnPlainly

LEMMA LastPlainly ==
  ASSUME BurstOK, NEW w \in Workers, NEW c \in CallRows, LastCall(w, c)
  PROVE  /\ req'[w].todo = <<c>>
         /\ Plain(c) => GoesOnPlainly(w)
  <1>1. req[w] \in Requests
    BY DEF BurstOK
  <1>2. [req[w] EXCEPT !.todo = <<c>>].todo = <<c>>
    BY <1>1 DEF Requests
  <1>3. req'[w].todo = <<c>>
    BY <1>2, TurnTodo DEF LastCall
  <1>. QED
    BY <1>3, OnePlain DEF GoesOnPlainly

LEMMA BeforePlainly ==
  ASSUME BurstOK, NEW w \in Workers, NEW r \in Requests, r.todo = req[w].todo,
         NEW calls \in Seq(CallRows), \A k \in 1..Len(calls) : Plain(calls[k]),
         Before(w, calls, r)
  PROVE  GoesOnPlainly(w)
  <1>1. req'[w].todo = calls \o Tail(r.todo)
    BY BeforeTodo
  <1>. QED
    BY <1>1 DEF GoesOnPlainly

LEMMA NothingBefore ==
  ASSUME BurstOK, NEW w \in Workers, NEW r \in Requests, r.todo = req[w].todo,
         Before(w, <<>>, r)
  PROVE  GoesOnPlainly(w)
  <1>1. <<>> \in Seq(CallRows) /\ \A k \in 1..Len(<<>>) : Plain(<<>>[k])
    OBVIOUS
  <1>. QED
    BY <1>1, BeforePlainly

LEMMA ContinuesPlainly ==
  ASSUME BurstOK, NEW w \in Workers, Continue(w)
  PROVE  GoesOnPlainly(w)
  BY NothingBefore DEF Continue, BurstOK

LEMMA OneBefore ==
  ASSUME BurstOK, NEW w \in Workers, NEW r \in Requests, r.todo = req[w].todo,
         NEW c \in CallRows, Plain(c), Before(w, <<c>>, r)
  PROVE  GoesOnPlainly(w)
  BY OnePlain, BeforePlainly

LEMMA MovesPlainly ==
  ASSUME BurstOK, NEW w \in Workers, NEW r \in Requests, r.todo = req[w].todo,
         NEW row \in Rounds, Moves(w, r, row)
  PROVE  GoesOnPlainly(w)
  <1>1. WriteRound(row) \in CallRows /\ WriteRound(row).call = "updateRound"
    BY CallsTyped
  <1>2. Plain(WriteRound(row))
    BY <1>1, PlainCalls
  <1>3. [r EXCEPT !.round = row] \in Requests /\ [r EXCEPT !.round = row].todo = req[w].todo
    BY DEF Requests
  <1>. QED
    BY <1>1, <1>2, <1>3, OneBefore DEF Moves

LEMMA ReadPlain ==
  ASSUME NEW call \in {"listSets", "firstSet", "readActive", "listNext"}
  PROVE  Read(call) \in CallRows /\ Plain(Read(call))
  <1>1. Read(call) \in CallRows /\ Read(call).call = call
    BY CallsTyped
  <1>. QED
    BY <1>1, PlainCalls DEF Looking

\* The reading calls of a synchronisation, and those that write one row.
LEMMA ReadRoomPlainly ==
  ASSUME BurstOK, NEW w \in Workers, ReadRoom(w)
  PROVE  GoesOnPlainly(w)
  <1>1. WriteRoom("expired") \in CallRows /\ WriteRoom("expired").call = "updateRoom"
    BY CallsTyped
  <1>2. Plain(WriteRoom("expired"))
    BY <1>1, PlainCalls
  <1>. HIDE DEF WriteRoom
  <1>3. now \in Nat /\ room.expiresAt \in Nat
    BY RowsFound DEF BurstOK, Rooms
  <1>4. now > room.expiresAt \/ now <= room.expiresAt
    BY <1>3
  <1>5. LastCall(w, WriteRoom("expired")) \/ End(w) \/ Continue(w)
    BY <1>4 DEF ReadRoom
  <1>. QED
    BY <1>1, <1>2, <1>5, LastPlainly, EndsPlainly, ContinuesPlainly

LEMMA ReadCurrentPlainly ==
  ASSUME BurstOK, NEW w \in Workers, ReadCurrent(w)
  PROVE  GoesOnPlainly(w)
  <1>1. CASE rounds = <<>>
    BY <1>1, EndsPlainly DEF ReadCurrent
  <1>2. CASE rounds # <<>>
    <2> DEFINE at == Latest
               r == [req[w] EXCEPT !.at = at, !.round = rounds[at]]
    <2>1. at \in DOMAIN rounds
      BY <1>2, LatestFound DEF BurstOK
    <2>2. Before(w, <<>>, r)
      BY <1>2 DEF ReadCurrent
    <2>. HIDE DEF at
    <2>3. rounds[at] \in Rounds /\ at \in Nat
      BY <2>1, RowsFound DEF BurstOK
    <2>4. r \in Requests /\ r.todo = req[w].todo
      BY <2>3 DEF Requests, BurstOK
    <2>. HIDE DEF r
    <2>. QED
      BY <2>2, <2>4, NothingBefore
  <1>. QED
    BY <1>1, <1>2

LEMMA ReadRoundPlainly ==
  ASSUME BurstOK, NEW w \in Workers, ReadRoundRow(w)
  PROVE  GoesOnPlainly(w)
  <1> DEFINE r == [req[w] EXCEPT !.round = rounds[req[w].at]]
  <1>1. req[w].todo # <<>> /\ Call(w).call = "readRound"
    BY DEF ReadRoundRow, Doing, Call
  <1>2. req[w].op \in {"write", "vote"} /\ FitsBusy(req[w], now, rounds, sets)
    BY <1>1, WorkerFound DEF FitsCall
  <1>3. req[w].at \in DOMAIN rounds
    BY <1>2 DEF FitsBusy
  <1>4. rounds[req[w].at] \in Rounds
    BY <1>3, RowsFound DEF BurstOK
  <1>5. r \in Requests /\ r.todo = req[w].todo
    BY <1>4 DEF Requests, BurstOK
  <1>6. Before(w, <<>>, r)
    BY DEF ReadRoundRow
  <1>. HIDE DEF r
  <1>. QED
    BY <1>5, <1>6, NothingBefore

LEMMA SyncRoomPlainly ==
  ASSUME BurstOK, NEW w \in Workers, SyncRoom(w)
  PROVE  GoesOnPlainly(w)
  <1> DEFINE c == ReadClock(room.status)
  <1>1. req[w] \in Requests /\ room.status \in RoomStatus /\ Before(w, <<c>>, req[w])
    BY DEF SyncRoom, BurstOK, RowsOK, TypeOK, Rooms
  <1>2. c \in CallRows /\ c.call = "readClock"
    BY <1>1, CallsTyped
  <1>. HIDE DEF c
  <1>3. Plain(c)
    BY <1>2, PlainCalls DEF Looking
  <1>. QED
    BY <1>1, <1>2, <1>3, OneBefore

LEMMA SynchronisePlainly ==
  ASSUME BurstOK, NEW w \in Workers, Synchronise(w)
  PROVE  GoesOnPlainly(w)
  <1> DEFINE r == [req[w] EXCEPT !.clock = now]
  <1>1. req[w].todo # <<>> /\ req[w] \in Requests /\ now \in Nat
    BY RowsFound DEF Synchronise, Doing, BurstOK
  <1>2. r \in Requests /\ r.todo = req[w].todo /\ r.round = req[w].round
    BY <1>1 DEF Requests
  <1>3. RowFits(req[w].round, sets) /\ sets \in Seq(TruthSets)
    BY <1>1, WorkerFound
  <1>4. /\ WriteRoom("expired") \in CallRows /\ Plain(WriteRoom("expired"))
    <2>1. WriteRoom("expired") \in CallRows /\ WriteRoom("expired").call = "updateRoom"
      BY CallsTyped
    <2>. QED
      BY <2>1, PlainCalls
  <1>. HIDE DEF WriteRoom
  <1>5. ASSUME NEW call \in {"listSets", "readActive", "listNext"}, Before(w, <<Read(call)>>, r)
        PROVE  GoesOnPlainly(w)
    <2>. HIDE DEF r
    <2>. QED
      BY <1>2, <1>5, ReadPlain, OneBefore
  <1>6. ASSUME NEW row, row \in Rounds, Moves(w, r, row)
        PROVE  GoesOnPlainly(w)
    <2>. HIDE DEF r
    <2>. QED
      BY <1>2, <1>6, MovesPlainly
  <1>7. ASSUME Before(w, <<>>, r) PROVE GoesOnPlainly(w)
    <2>. HIDE DEF r
    <2>. QED
      BY <1>2, <1>7, NothingBefore
  <1>8. ASSUME r.round.status \in {"countdown", "reveal"},
               NEW status \in {"writing", "commentary"}, NEW duration \in {WriteTime, CommentTime},
               status = "commentary" => r.round.status = "reveal",
               Moves(w, r, Entering(r, status, duration))
        PROVE  GoesOnPlainly(w)
    <2>1. r.round \in Rounds /\ RowFits(r.round, sets) /\ r.clock \in Nat
      BY <1>1, <1>2, <1>3 DEF Requests
    <2>. HIDE DEF r
    <2>2. status \in RoundStatus /\ status # "finished"
      BY DEF RoundStatus, Presenting
    <2>3. status \in Presenting => r.round.active # 0
      BY <1>8, <2>1 DEF RowFits, Presenting
    <2>4. Entering(r, status, duration) \in Rounds
      BY <1>3, <2>1, <2>2, <2>3, EnteringRow
    <2>. QED
      BY <1>6, <1>8, <2>4
  <1>9. DueBy(r) => r.round.status \in
                       {"countdown", "writing", "presentation_voting", "reveal", "commentary"}
    <2>1. r.round.status = "finished" => r.round.phaseEndsAt = NoTime
      BY <1>2, <1>3 DEF RowFits
    <2>2. r.round.status \in RoundStatus
      BY <1>2, <1>3 DEF RowFits, Rounds
    <2>. QED
      BY <2>1, <2>2 DEF DueBy, RoundStatus, Presenting
  <1>10. \/ LastCall(w, WriteRoom("expired"))
         \/ End(w)
         \/ Continue(w)
         \/ Before(w, <<>>, r)
         \/ r.round.status = "countdown" /\ Moves(w, r, Entering(r, "writing", WriteTime))
         \/ Before(w, <<Read("listSets")>>, r)
         \/ Before(w, <<Read("readActive")>>, r)
         \/ r.round.status = "reveal" /\ Moves(w, r, Entering(r, "commentary", CommentTime))
         \/ Before(w, <<Read("listNext")>>, r)
    BY <1>9 DEF Synchronise, r
  <1>. HIDE DEF r
  <1>. QED
    BY <1>4, <1>5, <1>7, <1>8, <1>10, LastPlainly, EndsPlainly, ContinuesPlainly

LEMMA ListSetsPlainly ==
  ASSUME BurstOK, NEW w \in Workers, ListSets(w)
  PROVE  GoesOnPlainly(w)
  <1> DEFINE r == req[w]
             mine == SetsOf(game, r.at)
  <1>1. r \in Requests /\ sets \in Seq(TruthSets)
        /\ \A s \in DOMAIN sets : s \in Nat /\ sets[s] \in TruthSets
    BY RowsFound DEF BurstOK
  <1>2. mine \subseteq DOMAIN sets /\ Cardinality(mine) \in Nat
    <2>1. mine \subseteq DOMAIN sets
      BY DEF SetsOf, game
    <2>2. IsFiniteSet(DOMAIN sets)
      BY <1>1, FS_Interval
    <2>. QED
      BY <2>1, <2>2, FS_Subset, FS_CardinalityType
  <1>. HIDE DEF mine
  <1>3. CASE Before(w, <<Read("firstSet")>>, r)
    BY <1>1, <1>3, ReadPlain, OneBefore
  <1>4. ASSUME NEW shuffled \in SetToSeqs(mine),
               Before(w, [k \in DOMAIN shuffled |->
                            WriteSet(shuffled[k], [sets[shuffled[k]] EXCEPT !.order = k])]
                         \o <<Read("firstSet")>>, r)
        PROVE  GoesOnPlainly(w)
    <2> DEFINE n == Cardinality(mine)
               body == [k \in DOMAIN shuffled |->
                          WriteSet(shuffled[k], [sets[shuffled[k]] EXCEPT !.order = k])]
               last == Read("firstSet")
    <2>1. shuffled \in [1..n -> mine] /\ DOMAIN shuffled = 1..n /\ n \in Nat
      BY <1>2 DEF SetToSeqs
    <2>2. ASSUME NEW k \in 1..n
          PROVE  body[k] \in CallRows /\ Plain(body[k])
      <3> DEFINE s == shuffled[k]
                 row == [sets[s] EXCEPT !.order = k]
      <3>1. s \in Nat /\ sets[s] \in TruthSets /\ k \in Nat
        BY <1>1, <1>2, <2>1
      <3>2. row \in TruthSets
        BY <3>1 DEF TruthSets
      <3>3. body[k] = WriteSet(s, row)
        BY <2>1
      <3>. HIDE DEF s, row, body
      <3>4. body[k] \in CallRows /\ body[k].call = "updateSet" /\ body[k].given = <<>>
        BY <3>1, <3>2, <3>3, CallsTyped
      <3>. QED
        BY <3>4, PlainCalls
    <2>3. body \in Seq(CallRows) /\ Len(body) = n
      <3>1. body \in [1..n -> CallRows]
        BY <2>1, <2>2
      <3>. HIDE DEF body
      <3>. QED
        BY <2>1, <3>1, FunctionIsSequence
    <2>4. last \in CallRows /\ Plain(last)
      BY ReadPlain
    <2>5. Before(w, body \o <<last>>, r)
      BY <1>4
    <2>. HIDE DEF body, last
    <2> DEFINE front == body \o <<last>>
    <2>6. /\ front \in Seq(CallRows) /\ Len(front) = n + 1
          /\ front[n + 1] = last /\ \A k \in 1..n : front[k] = body[k]
      BY <2>3, <2>4, AppendedCall
    <2>7. Before(w, front, r)
      BY <2>5
    <2>. HIDE DEF front, n
    <2>8. \A k \in 1..Len(front) : Plain(front[k])
      <3> SUFFICES ASSUME NEW k \in 1..Len(front) PROVE Plain(front[k])
        OBVIOUS
      <3>1. k \in 1..n \/ k = n + 1
        BY <2>1, <2>6
      <3>. QED
        BY <2>2, <2>4, <2>6, <3>1
    <2>. QED
      BY <1>1, <2>6, <2>7, <2>8, BeforePlainly
  <1>5. CASE End(w)
    BY <1>5, EndsPlainly
  <1>6. \/ mine = {}
        \/ mine # {} /\ \A s \in mine : sets[s].order > 0
        \/ \E s \in mine : sets[s].order = 0
    <2>1. \A s \in mine : sets[s].order \in Nat
      BY <1>1, <1>2 DEF TruthSets
    <2>. QED
      BY <2>1
  <1>. QED
    BY <1>3, <1>4, <1>5, <1>6 DEF ListSets, mine

LEMMA FirstSetPlainly ==
  ASSUME BurstOK, NEW w \in Workers, FirstSet(w)
  PROVE  GoesOnPlainly(w)
  <1> DEFINE r == req[w]
  <1>1. r.todo # <<>> /\ Head(r.todo).call = "firstSet" /\ RowsKept
    BY DEF FirstSet, Doing
  <1>2. /\ r \in Requests /\ r.round \in Rounds /\ r.clock \in Nat /\ sets \in Seq(TruthSets)
        /\ RowFits(r.round, sets) /\ \A s \in DOMAIN sets : s \in 1..Len(sets)
    BY <1>1, LookingFound
  <1>3. PICK s \in SetsOf(game, r.at) : Moves(w, r, Showing(r, s))
    BY DEF FirstSet
  <1>4. s \in 1..Len(sets)
    BY <1>2, <1>3 DEF SetsOf, game
  <1>. HIDE DEF r
  <1>5. Showing(r, s) \in Rounds
    BY <1>2, <1>4, ShowingRow
  <1>6. r.todo = req[w].todo
    BY DEF r
  <1>. QED
    BY <1>2, <1>3, <1>5, <1>6, MovesPlainly

LEMMA ReadActivePlainly ==
  ASSUME BurstOK, NEW w \in Workers, ReadActive(w)
  PROVE  GoesOnPlainly(w)
  <1> DEFINE r == req[w]
             s == r.round.active
             c == [call |-> "listVotes", set |-> s, row |-> sets[s]]
  <1>1. r.todo # <<>> /\ Head(r.todo).call \in Looking /\ RowsKept
        /\ Head(r.todo).call = "readActive"
    BY DEF ReadActive, Doing, Looking
  <1>2. /\ r \in Requests /\ r.round \in Rounds /\ r.clock \in Nat /\ sets \in Seq(TruthSets)
        /\ RowFits(r.round, sets) /\ r.round.status = "presentation_voting"
        /\ \A t \in DOMAIN sets : t \in Nat /\ sets[t] \in TruthSets
    BY <1>1, LookingFound
  <1>3. s # 0 /\ s \in DOMAIN sets
    <2>1. s \in 0..Len(sets) /\ s # 0
      BY <1>2 DEF RowFits, Presenting
    <2>. QED
      BY <1>2, <2>1
  <1>4. CASE Moves(w, r, Entering(r, "reveal", RevealTime))
    <2>1. "reveal" \in RoundStatus /\ r.todo = req[w].todo
      BY DEF RoundStatus, Presenting
    <2>2. r.round.active # 0
      BY <1>3
    <2>. HIDE DEF r
    <2>3. Entering(r, "reveal", RevealTime) \in Rounds
      BY <1>2, <2>1, <2>2, EnteringRow
    <2>. QED
      BY <1>2, <1>4, <2>1, <2>3, MovesPlainly
  <1>5. CASE Before(w, <<c>>, r)
    <2>1. c \in CallRows /\ c.call = "listVotes"
      BY <1>2, <1>3 DEF CallRows
    <2>. HIDE DEF c
    <2>2. Plain(c)
      BY <2>1, PlainCalls DEF Looking
    <2>. QED
      BY <1>2, <1>5, <2>1, <2>2, OneBefore
  <1>. QED
    BY <1>4, <1>5 DEF ReadActive

LEMMA ListNextPlainly ==
  ASSUME BurstOK, NEW w \in Workers, ListNext(w)
  PROVE  GoesOnPlainly(w)
  <1> DEFINE r == req[w]
             over == Finished(r.round)
             new == [NoRow EXCEPT !.number = NumberAfter(r.round.number),
                                  !.phaseEndsAt = r.clock + WriteTime]
  <1>1. r.todo # <<>> /\ Head(r.todo).call \in Looking /\ RowsKept
    BY DEF ListNext, Doing, Looking
  <1>2. /\ r \in Requests /\ r.round \in Rounds /\ r.clock \in Nat /\ sets \in Seq(TruthSets)
        /\ RowFits(r.round, sets) /\ \A s \in DOMAIN sets : s \in 1..Len(sets)
    BY <1>1, LookingFound
  <1>3. CASE \E s \in SetsOf(game, r.at) : Moves(w, r, Showing(r, s))
    <2>1. PICK s \in SetsOf(game, r.at) : Moves(w, r, Showing(r, s))
      BY <1>3
    <2>2. s \in 1..Len(sets) /\ r.todo = req[w].todo
      BY <1>2, <2>1 DEF SetsOf, game
    <2>. HIDE DEF r
    <2>3. Showing(r, s) \in Rounds
      BY <1>2, <2>2, ShowingRow
    <2>. QED
      BY <1>2, <2>1, <2>2, <2>3, MovesPlainly
  <1>4. CASE Before(w, Closing(over, new), [r EXCEPT !.round = over])
    <2> DEFINE a == WriteRound(over)
               b == IF IsLastRound(over) THEN WriteRoom("finished") ELSE OpenRound(new)
    <2>1. over \in Rounds
      BY <1>2 DEF Finished, Rounds, RoundStatus
    <2>2. new \in Rounds
      <3>1. r.round.number \in Nat \ {0} /\ r.clock \in Nat
        BY <1>2 DEF Rounds
      <3>. HIDE DEF r
      <3>2. WriteTime \in Nat
        BY TLTimesAssumption
      <3>3. r.round.number + 1 \in Nat \ {0} /\ r.clock + WriteTime \in Nat
        BY <3>1, <3>2
      <3>4. NumberAfter(r.round.number) = r.round.number + 1
        BY DEF NumberAfter
      <3>. QED
        BY <3>3, <3>4 DEF NoRow, Rounds, RoundStatus
    <2>3. [r EXCEPT !.round = over] \in Requests /\ [r EXCEPT !.round = over].todo = req[w].todo
      <3>. HIDE DEF over
      <3>. QED
        BY <1>2, <2>1 DEF Requests
    <2>. HIDE DEF over, new
    <2>4. a \in CallRows /\ Plain(a)
      <3>1. a \in CallRows /\ a.call = "updateRound"
        BY <2>1, CallsTyped
      <3>. QED
        BY <3>1, PlainCalls
    <2>5. b \in CallRows /\ Plain(b)
      <3>1. b \in CallRows /\ b.call \in {"updateRoom", "createRound"}
        <4>1. CASE IsLastRound(over)
          BY <4>1, CallsTyped
        <4>2. CASE ~IsLastRound(over)
          BY <2>2, <4>2, CallsTyped
        <4>. QED
          BY <4>1, <4>2
      <3>. HIDE DEF b
      <3>. QED
        BY <3>1, PlainCalls
    <2>6. Before(w, <<a, b>>, [r EXCEPT !.round = over])
      BY <1>4 DEF Closing
    <2>. HIDE DEF a, b
    <2> DEFINE next == [r EXCEPT !.round = over]
               front == <<a, b>>
    <2>7. front \in Seq(CallRows) /\ \A k \in 1..Len(front) : Plain(front[k])
      BY <2>4, <2>5
    <2>8. next \in Requests /\ next.todo = req[w].todo /\ Before(w, front, next)
      BY <2>3, <2>6
    <2>. HIDE DEF next, front
    <2>. QED
      BY <2>7, <2>8, BeforePlainly
  <1>. QED
    BY <1>3, <1>4 DEF ListNext

LEMMA LookUpPlainly ==
  ASSUME BurstOK, NEW w \in Workers, LookUp(w)
  PROVE  GoesOnPlainly(w)
  <1> DEFINE s == req[w].round.active
             c == [call |-> "upsert", set |-> s, isNew |-> ~Voted(s, req[w].who)]
  <1>1. s \in Nat
    BY RowsFound DEF BurstOK, Requests, Rounds
  <1>2. c \in CallRows /\ c.call = "upsert"
    BY <1>1 DEF CallRows
  <1>3. LastCall(w, c)
    BY DEF LookUp
  <1>. HIDE DEF c
  <1>4. Plain(c)
    BY <1>2, PlainCalls
  <1>. QED
    BY <1>2, <1>3, <1>4, LastPlainly

\* Whoever looks for his truth set and finds none adds one.
AddsOwn(w) ==
  LET r == req[w]
  IN  /\ OwnSets(r.at, r.who) = {} /\ r.who \in Players
      /\ \E row \in TruthSets : /\ row.round = r.at /\ row.author = r.who
                                /\ req'[w].todo = <<AddSet(row)>>

LEMMA ReadMineAdds ==
  ASSUME BurstOK, NEW w \in Workers, ReadMine(w)
  PROVE  GoesOnPlainly(w) \/ AddsOwn(w)
  <1> DEFINE r == req[w]
             mine == OwnSets(r.at, r.who)
             row == [round |-> r.at, author |-> r.who, truth |-> r.statement,
                     order |-> 0, scored |-> FALSE]
  <1>1. r.todo # <<>> /\ Call(w).call = "readMine"
    BY DEF ReadMine, Doing, Call
  <1>2. /\ FitsBusy(r, now, rounds, sets) /\ FitsCall(Call(w), r, rounds, sets)
        /\ sets \in Seq(TruthSets) /\ DOMAIN rounds = 1..Len(rounds) /\ Len(rounds) \in Nat
        /\ DOMAIN sets = 1..Len(sets) /\ Len(sets) \in Nat
    BY <1>1, WorkerFound
  <1>3. r.op = "write"
    BY <1>1, <1>2 DEF FitsCall
  <1>4. r.who \in Players /\ r.statement \in Statements /\ r.at \in DOMAIN rounds
    BY <1>2, <1>3 DEF FitsBusy
  <1>5. row \in TruthSets /\ row.round = r.at /\ row.author = r.who
    BY <1>2, <1>4 DEF TruthSets
  <1>. HIDE DEF row
  <1>6. CASE mine = {} /\ LastCall(w, AddSet(row))
    <2>1. AddSet(row) \in CallRows
      BY <1>5, CallsTyped
    <2>2. req'[w].todo = <<AddSet(row)>>
      BY <1>6, <2>1, LastPlainly
    <2>. QED
      BY <1>4, <1>5, <1>6, <2>2 DEF AddsOwn
  <1>7. CASE mine # {} /\ LastCall(w, WriteSet(Max(mine), [row EXCEPT !.order = sets[Max(mine)].order]))
    <2> DEFINE s == Max(mine)
               other == [row EXCEPT !.order = sets[s].order]
               c == WriteSet(s, other)
    <2>1. s \in DOMAIN sets
      <3>1. mine \subseteq 1..Len(sets)
        BY <1>2 DEF OwnSets, SetsOf, game
      <3>. QED
        BY <1>2, <1>7, <3>1, LargestFound
    <2>2. LastCall(w, c)
      BY <1>7
    <2>. HIDE DEF s
    <2>3. s \in Nat /\ sets[s].order \in Nat
      <3>1. sets[s] \in TruthSets /\ s \in Nat
        BY <1>2, <2>1
      <3>. QED
        BY <3>1 DEF TruthSets
    <2>4. other \in TruthSets
      BY <1>5, <2>3 DEF TruthSets
    <2>. HIDE DEF other
    <2>5. c \in CallRows /\ c.call = "updateSet" /\ c.given = <<>>
      BY <2>3, <2>4, CallsTyped
    <2>. HIDE DEF c
    <2>6. Plain(c)
      BY <2>5, PlainCalls
    <2>. QED
      BY <2>2, <2>5, <2>6, LastPlainly
  <1>. QED
    BY <1>6, <1>7 DEF ReadMine, row

LEMMA ServesPlainly ==
  ASSUME BurstOK, NEW w \in Workers, Serve(w) \/ Abort(w),
         ~ListVotes(w), ~ReadMine(w), ~(Increment(w) /\ postgres)
  PROVE  GoesOnPlainly(w)
  <1>1. CASE \/ UpdateRoom(w) \/ UpdateRound(w) \/ UpdateSet(w) \/ CreateSet(w)
             \/ Increment(w) \/ WriteScore(w) \/ Accept(w) \/ Upsert(w) \/ Abort(w)
    <2>1. Continue(w) \/ End(w)
      BY <1>1 DEF UpdateRoom, UpdateRound, UpdateSet, CreateSet, Increment, WriteScore, Accept,
           Upsert, Abort
    <2>. QED
      BY <2>1, ContinuesPlainly, EndsPlainly
  <1>2. CASE CreateRound(w)
    <2> DEFINE r == [req[w] EXCEPT !.at = Len(rounds) + 1, !.round = Call(w).row]
    <2>1. req[w].todo # <<>> /\ Call(w).call = "createRound" /\ Before(w, <<>>, r)
      BY <1>2 DEF CreateRound, Doing, Call
    <2>2. Call(w).row \in Rounds /\ Len(rounds) + 1 \in Nat
      BY <2>1, WorkerFound, CallFields
    <2>3. r \in Requests /\ r.todo = req[w].todo
      BY <2>2 DEF Requests, BurstOK
    <2>. HIDE DEF r
    <2>. QED
      BY <2>1, <2>3, NothingBefore
  <1>. QED
    BY <1>1, <1>2, ReadRoomPlainly, ReadCurrentPlainly, ReadRoundPlainly, SyncRoomPlainly,
       SynchronisePlainly, ListSetsPlainly, FirstSetPlainly, ReadActivePlainly, ListNextPlainly, LookUpPlainly
       DEF Serve

\* What the steps of the burst, and those before it, come down to.
Passing == UNCHANGED <<postgres, overlapped, room, user, rounds, sets, votes, score, tally, req>>

RoomServes ==
  /\ Quiescent /\ RoomRequest /\ tally' = Tallied
  /\ UNCHANGED <<req, postgres, overlapped>>

Receives(w) ==
  /\ Receive(w) /\ UNCHANGED <<now, postgres>>
  /\ overlapped' \in BOOLEAN /\ (overlapped' \/ Quiescent) /\ (overlapped => overlapped')

Works(w) == (Serve(w) \/ Abort(w)) /\ UNCHANGED <<now, postgres, overlapped>>

LEMMA BurstCases ==
  ASSUME BurstOK, [SNext]_svars
  PROVE  \/ Passing \/ RoomServes
         \/ \E w \in Workers : Receives(w) \/ Works(w)
  <1>1. CASE UNCHANGED svars
    BY <1>1 DEF svars, vars, Passing
  <1>2. CASE History /\ UNCHANGED postgres
    <2>1. overlapped' = overlapped /\ overlapped \in BOOLEAN
      BY <1>2 DEF History, BurstOK
    <2>2. CASE Quiescent /\ RoomRequest /\ tally' = Tallied /\ UNCHANGED req
      BY <1>2, <2>1, <2>2 DEF RoomServes
    <2>3. CASE Quiescent /\ Tick /\ UNCHANGED <<req, tally>>
      BY <1>2, <2>1, <2>3 DEF Tick, Passing
    <2>4. CASE \E w \in Workers : Quiescent /\ Receive(w) /\ UNCHANGED now
      BY <1>2, <2>1, <2>4 DEF Receives
    <2>5. CASE \E w \in Workers : Serve(w) /\ UNCHANGED now
      BY <1>2, <2>1, <2>5 DEF Works
    <2>. QED
      BY <1>2, <2>2, <2>3, <2>4, <2>5 DEF History
  <1>3. CASE Burst /\ UNCHANGED postgres
    <2>1. CASE /\ overlapped' = (overlapped \/ ~Quiescent)
               /\ \E w \in Workers : Receive(w)
               /\ UNCHANGED now
      <3>1. overlapped' \in BOOLEAN /\ (overlapped' \/ Quiescent) /\ (overlapped => overlapped')
        BY <2>1
      <3>. QED
        BY <1>3, <2>1, <3>1 DEF Receives
    <2>2. CASE UNCHANGED <<arrived, overlapped>> /\ Tick /\ UNCHANGED <<req, tally>>
      BY <1>3, <2>2 DEF Tick, Passing
    <2>3. CASE /\ UNCHANGED <<arrived, overlapped>>
               /\ \E w \in Workers : (Serve(w) \/ Abort(w)) /\ UNCHANGED now
      BY <1>3, <2>3 DEF Works
    <2>4. CASE UNCHANGED <<arrived, overlapped>> /\ UNCHANGED <<vars, req, tally>>
      BY <1>3, <2>4 DEF vars, Passing
    <2>. QED
      BY <1>3, <2>1, <2>2, <2>3, <2>4 DEF Burst
  <1>. QED
    BY <1>1, <1>2, <1>3 DEF SNext

LEMMA WorksEffect ==
  ASSUME BurstOK, NEW w \in Workers, Works(w)
  PROVE  /\ req[w] # Idle /\ req[w] \in Requests /\ req[w].todo \in Seq(CallRows)
         /\ req[w].todo # <<>> /\ InLine(req[w].todo)
         /\ \A v \in Workers : v = w \/ req'[v] = req[v]
  <1>1. req[w] # Idle
    BY RoomServed DEF Works, Abort
  <1>2. req[w] \in Requests /\ Fits(req[w], now, rounds, sets)
    BY DEF BurstOK
  <1>3. req[w].todo # <<>> /\ InLine(req[w].todo) /\ req[w].todo \in Seq(CallRows)
    BY <1>1, <1>2 DEF Fits, FitsBusy, Requests
  <1>4. CASE Serve(w)
    BY <1>1, <1>2, <1>3, <1>4, ServeEffect, EffectFits DEF Works
  <1>5. CASE Abort(w)
    BY <1>1, <1>2, <1>3, <1>5, TurnTodo DEF Abort, End
  <1>. QED
    BY <1>4, <1>5 DEF Works

-----------------------------------------------------------------------------
(* How many truth sets of a player.  As in ClassicConcurrentProofs: those  *)
(* stored, and those of requests past the check, are together no more than *)
(* there are workers.                                                      *)

Own(ss, i, p) == {s \in DOMAIN ss : ss[s].round = i /\ ss[s].author = p}

\* Workers whose next call adds a set of p to round i.
Adding(i, p) ==
  {w \in Workers : Doing(w, "createSet") /\ Call(w).row.round = i /\ Call(w).row.author = p}

SetsCounted ==
  \A i, p : IF postgres THEN Cardinality(Own(sets, i, p)) <= 1
            ELSE Cardinality(Own(sets, i, p)) + Cardinality(Adding(i, p)) <= Cardinality(Workers)

LEMMA FewerIsLess ==
  ASSUME NEW S, NEW F, IsFiniteSet(S), IsFiniteSet(F), NEW F2, F2 \subseteq F
  PROVE  Cardinality(S) + Cardinality(F2) <= Cardinality(S) + Cardinality(F)
  <1>1. IsFiniteSet(F2) /\ Cardinality(F2) <= Cardinality(F)
    BY FS_Subset
  <1>2. Cardinality(S) \in Nat /\ Cardinality(F) \in Nat /\ Cardinality(F2) \in Nat
    BY <1>1, FS_CardinalityType
  <1>. QED
    BY <1>1, <1>2

LEMMA InsertBalances ==
  ASSUME NEW S, NEW F, IsFiniteSet(S), IsFiniteSet(F), NEW x, NEW w \in F, NEW F2,
         F2 \subseteq F \ {w}
  PROVE  Cardinality(S \cup {x}) + Cardinality(F2) <= Cardinality(S) + Cardinality(F)
  <1>1. /\ IsFiniteSet(S \cup {x}) /\ Cardinality(S \cup {x}) \in {Cardinality(S), Cardinality(S) + 1}
        /\ IsFiniteSet(F \ {w}) /\ Cardinality(F \ {w}) = Cardinality(F) - 1
    BY FS_AddElement, FS_RemoveElement
  <1>2. IsFiniteSet(F2) /\ Cardinality(F2) <= Cardinality(F \ {w})
    BY <1>1, FS_Subset
  <1>3. Cardinality(S) \in Nat /\ Cardinality(F) \in Nat /\ Cardinality(F2) \in Nat
    BY <1>2, FS_CardinalityType
  <1>. QED
    BY <1>1, <1>2, <1>3

LEMMA OwnFinite ==
  ASSUME NEW ss \in Seq(TruthSets), NEW i, NEW p
  PROVE  IsFiniteSet(Own(ss, i, p)) /\ Cardinality(Own(ss, i, p)) \in Nat
  <1>1. IsFiniteSet(1..Len(ss)) /\ Own(ss, i, p) \subseteq 1..Len(ss)
    BY FS_Interval DEF Own
  <1>. QED
    BY <1>1, FS_Subset, FS_CardinalityType

LEMMA AddingFinite ==
  ASSUME NEW i, NEW p
  PROVE  /\ IsFiniteSet(Workers) /\ Cardinality(Workers) \in Nat \ {0}
         /\ IsFiniteSet(Adding(i, p)) /\ Cardinality(Adding(i, p)) \in Nat
         /\ Cardinality(Adding(i, p)) <= Cardinality(Workers)
  <1>1. IsFiniteSet(Workers) /\ Workers # {} /\ Adding(i, p) \subseteq Workers
    BY TLBurstAssumption DEF Adding
  <1>. QED
    BY <1>1, FS_Subset, FS_CardinalityType, FS_EmptySet

LEMMA OwnSame ==
  ASSUME NEW ss \in Seq(TruthSets), NEW ss2 \in Seq(TruthSets), Len(ss2) = Len(ss),
         \A s \in 1..Len(ss) : ss2[s].round = ss[s].round /\ ss2[s].author = ss[s].author,
         NEW i, NEW p
  PROVE  Own(ss2, i, p) = Own(ss, i, p)
  BY DEF Own

LEMMA OwnAdded ==
  ASSUME NEW ss \in Seq(TruthSets), NEW row \in TruthSets, NEW i, NEW p
  PROVE  Own(Append(ss, row), i, p) =
           IF row.round = i /\ row.author = p THEN Own(ss, i, p) \cup {Len(ss) + 1}
           ELSE Own(ss, i, p)
  <1> DEFINE n == Len(ss)
             ss2 == Append(ss, row)
  <1>1. /\ n \in Nat /\ DOMAIN ss = 1..n /\ ss2 \in Seq(TruthSets) /\ Len(ss2) = n + 1
        /\ ss2[n + 1] = row /\ \A s \in 1..n : ss2[s] = ss[s]
    BY AppendRow
  <1>2. DOMAIN ss2 = 1..(n + 1)
    BY <1>1
  <1>. HIDE DEF n, ss2
  <1>3. 1..(n + 1) = 1..n \cup {n + 1}
    BY <1>1
  <1>4. Own(ss2, i, p) = IF row.round = i /\ row.author = p THEN Own(ss, i, p) \cup {n + 1}
                         ELSE Own(ss, i, p)
    BY <1>1, <1>2, <1>3 DEF Own
  <1>. QED
    BY <1>4 DEF n, ss2

\* The points a truth set brings are paid, the set is marked, and nothing
\* else is paid or marked.
Scores(q, m) ==
  /\ Marks(q[m])
  /\ \A k \in 1..(m - 1) :
       ~Marks(q[k]) /\ (Pays(q[k]) => q[k].points = q[m].given[q[k].who])
  /\ \A k \in (m + 1)..Len(q) : ~Pays(q[k]) /\ ~Marks(q[k])

\* A mark with nothing left to pay to p before it.
PaidUp(q, p, m) == Marks(q[m]) /\ \A k \in 1..(m - 1) : ~(Pays(q[k]) /\ q[k].who = p)

\* The calls that score a set: whoever is given something is paid first.
ScoresFirst(w) ==
  \E front \in Seq(CallRows), m \in Nat \ {0} :
    /\ Len(front) = m + 1 /\ Scores(front, m) /\ front[m].given \in [Players -> Nat]
    /\ \A k \in 1..m : front[k].call \in {"increment", "updateSet"}
    /\ Plain(front[m + 1])
    /\ \A p \in Players : front[m].given[p] # 0 => ~PaidUp(front, p, m)
    /\ req'[w].todo = front \o Tail(req[w].todo)

LEMMA EveryElement ==
  ASSUME NEW S, IsFiniteSet(S), NEW f \in SetToSeqs(S)
  PROVE  \A x \in S : \E k \in DOMAIN f : f[k] = x
  <1> DEFINE n == Cardinality(S)
  <1>1. n \in Nat /\ IsFiniteSet(1..n) /\ Cardinality(1..n) = n
    BY FS_CardinalityType, FS_Interval
  <1>2. f \in [1..n -> S] /\ \A i, j \in 1..n : i # j => f[i] # f[j]
    BY DEF SetToSeqs
  <1>. HIDE DEF n
  <1>3. f \in Injection(1..n, S)
    BY <1>2 DEF Injection, IsInjective
  <1>4. f \in Surjection(1..n, S)
    BY <1>1, <1>3, FS_Injection DEF n
  <1>. QED
    BY <1>2, <1>4 DEF Surjection

LEMMA ListVotesTodo ==
  ASSUME BurstOK, NEW w \in Workers, ListVotes(w)
  PROVE  ScoresFirst(w)
  <1> DEFINE r == req[w]
             s     == Call(w).set
             row   == Call(w).row
             given == [p \in Players |-> Points(row, VotesOn(s), p)]
             after == Entering(r, "reveal", RevealTime)
             scorers == {p \in Players \ {row.author} : given[p] > 0}
             next == [r EXCEPT !.round = after]
  <1>1. /\ r.todo # <<>> /\ Head(r.todo).call \in Looking /\ RowsKept
        /\ Head(r.todo).call = "listVotes" /\ Call(w).call = "listVotes"
    BY DEF ListVotes, Doing, Looking, Call
  <1>2. /\ r \in Requests /\ r.round \in Rounds /\ sets \in Seq(TruthSets)
        /\ RowFits(r.round, sets) /\ r.clock \in Nat /\ r.round.status = "presentation_voting"
        /\ s \in Nat /\ row \in TruthSets
    <2>1. Call(w) \in CallRows
      BY <1>1, LookingFound
    <2>2. row \in TruthSets /\ s \in Nat
      BY <1>1, <2>1, CallFields
    <2>. QED
      BY <1>1, <2>2, LookingFound
  <1>3. given \in [Players -> Nat]
    <2>1. IsFiniteSet(VotesOn(s))
      BY FS_Subset DEF VotesOn, BurstOK, RowsOK
    <2>. QED
      BY <2>1, PointsNat
  <1>4. row.author \in Players /\ scorers \subseteq Players /\ IsFiniteSet(scorers)
        /\ Cardinality(scorers) \in Nat
    <2>1. row.author \in Players
      BY <1>2 DEF TruthSets
    <2>2. IsFiniteSet(scorers)
      BY TLPlayersAssumption, FS_Subset
    <2>. QED
      BY <2>1, <2>2, FS_CardinalityType
  <1>5. after \in Rounds
    <2>1. r.round.active # 0
      BY <1>2 DEF RowFits, Presenting
    <2>2. "reveal" \in RoundStatus
      BY DEF RoundStatus, Presenting
    <2>. HIDE DEF r
    <2>. QED
      BY <1>2, <2>1, <2>2, EnteringRow
  <1>6. PICK order \in SetToSeqs(scorers) :
          LET all == IF given[row.author] > 0 THEN Append(order, row.author) ELSE order
          IN  Before(w, Scoring(s, row, given, all) \o <<WriteRound(after)>>, next)
    BY DEF ListVotes
  <1>7. \A p \in scorers : \E k \in DOMAIN order : order[k] = p
    BY <1>4, <1>6, EveryElement
  <1>8. next \in Requests /\ next.todo = r.todo
    <2>. HIDE DEF after
    <2>. QED
      BY <1>2, <1>5 DEF Requests
  <1> DEFINE all == IF given[row.author] > 0 THEN Append(order, row.author) ELSE order
             n == Len(all)
  <1>9. order \in Seq(Players) /\ DOMAIN order = 1..Len(order) /\ Len(order) \in Nat
    <2>1. order \in [1..Cardinality(scorers) -> Players]
      BY <1>4, <1>6 DEF SetToSeqs
    <2>2. order \in Seq(Players)
      BY <1>4, <2>1, FunctionIsSequence
    <2>. QED
      BY <2>2
  <1>10. \A p \in Players : given[p] > 0 => p \in scorers \/ p = row.author
    BY <1>3
  <1>11. Before(w, Scoring(s, row, given, all) \o <<WriteRound(after)>>, next)
    BY <1>6
  <1>. HIDE DEF given, after, scorers, s, row, next
  <1>12. all \in Seq(Players) /\ n \in Nat /\ DOMAIN all = 1..n
    <2>1. all \in Seq(Players)
      BY <1>4, <1>9
    <2>. HIDE DEF all
    <2>. QED
      BY <2>1
  <1>13. \A p \in Players : given[p] > 0 => \E k \in 1..n : all[k] = p
    <2> SUFFICES ASSUME NEW p \in Players, given[p] > 0
                 PROVE  \E k \in DOMAIN all : all[k] = p
      BY <1>12
    <2>1. CASE given[row.author] > 0
      <3>1. /\ Len(all) = Len(order) + 1 /\ all[Len(order) + 1] = row.author
            /\ \A k \in 1..Len(order) : all[k] = order[k]
        BY <1>4, <1>9, <2>1
      <3>2. CASE p \in scorers
        <4>1. PICK k \in 1..Len(order) : order[k] = p
          BY <1>7, <1>9, <3>2
        <4>2. k \in 1..n
          BY <1>9, <3>1
        <4>. QED
          BY <1>12, <3>1, <4>1, <4>2
      <3>3. CASE p = row.author
        <4>1. Len(order) + 1 \in 1..n
          BY <1>9, <3>1
        <4>. QED
          BY <1>12, <3>1, <3>3, <4>1
      <3>. QED
        BY <1>10, <3>2, <3>3
    <2>2. CASE ~(given[row.author] > 0)
      <3>1. all = order /\ p \in scorers
        BY <1>10, <2>2
      <3>. QED
        BY <1>7, <3>1
    <2>. QED
      BY <2>1, <2>2
  <1>. HIDE DEF all
  <1> DEFINE adds == [k \in DOMAIN all |-> AddPoints(all[k], given[all[k]])]
             mark == MarkScored(s, row, given)
             body == adds \o <<mark>>
             last == WriteRound(after)
             front == body \o <<last>>
             m == n + 1
  <1>14. \A k \in 1..n : /\ adds[k] \in CallRows /\ adds[k].call = "increment"
                         /\ adds[k].who = all[k] /\ adds[k].points = given[all[k]]
    <2> SUFFICES ASSUME NEW k \in 1..n
                 PROVE  /\ adds[k] \in CallRows /\ adds[k].call = "increment"
                        /\ adds[k].who = all[k] /\ adds[k].points = given[all[k]]
      OBVIOUS
    <2>1. all[k] \in Players
      BY <1>12
    <2>2. given[all[k]] \in Nat
      BY <1>3, <2>1
    <2>3. adds[k] = AddPoints(all[k], given[all[k]])
      BY <1>12
    <2>. QED
      BY <2>1, <2>2, <2>3, CallsTyped
  <1>15. adds \in Seq(CallRows) /\ Len(adds) = n
    <2>1. adds \in [1..n -> CallRows]
      BY <1>12, <1>14
    <2>. HIDE DEF adds, n
    <2>. QED
      BY <1>12, <2>1, FunctionIsSequence
  <1>16. mark \in CallRows /\ mark.call = "updateSet" /\ mark.given = given
    <2>1. s \in Nat /\ row \in TruthSets /\ given \in [Players -> Nat]
      BY <1>2, <1>3
    <2>. QED
      BY <2>1, MarkTyped
  <1>17. last \in CallRows /\ Plain(last)
    <2>1. last \in CallRows /\ last.call = "updateRound"
      BY <1>5, CallsTyped
    <2>. QED
      BY <2>1, PlainCalls
  <1>18. Scoring(s, row, given, all) = body
    BY DEF Scoring
  <1>. HIDE DEF adds, mark, last, n
  <1>19. /\ body \in Seq(CallRows) /\ Len(body) = m /\ body[m] = mark
         /\ \A k \in 1..n : body[k] = adds[k]
    BY <1>12, <1>15, <1>16, AppendedCall
  <1>20. Before(w, front, next)
    BY <1>11, <1>18 DEF last
  <1>. HIDE DEF body
  <1>21. /\ front \in Seq(CallRows) /\ Len(front) = m + 1 /\ front[m + 1] = last
         /\ \A k \in 1..m : front[k] = body[k]
    BY <1>17, <1>19, AppendedCall
  <1>. HIDE DEF front
  <1>22. m \in Nat \ {0} /\ front[m] = mark
         /\ \A k \in 1..n : front[k] = adds[k]
    BY <1>12, <1>19, <1>21
  <1>23. given # <<>>
    <2>1. Players # {} /\ DOMAIN given = Players
      BY <1>3, <1>4
    <2>. QED
      BY <2>1
  <1>24. Scores(front, m)
    <2>1. Marks(front[m])
      BY <1>16, <1>22, <1>23 DEF Marks
    <2>2. \A k \in 1..(m - 1) : ~Marks(front[k]) /\ front[k].points = front[m].given[front[k].who]
      <3>1. m - 1 = n
        BY <1>12
      <3>2. \A k \in 1..n : ~Marks(front[k]) /\ front[k].points = given[front[k].who]
        BY <1>14, <1>22 DEF Marks
      <3>. QED
        BY <1>16, <1>22, <3>1, <3>2
    <2>3. \A k \in (m + 1)..Len(front) : ~Pays(front[k]) /\ ~Marks(front[k])
      <3>1. \A k \in (m + 1)..Len(front) : k = m + 1
        BY <1>21, <1>22
      <3>. QED
        BY <1>17, <1>21, <3>1 DEF Plain
    <2>. QED
      BY <2>1, <2>2, <2>3 DEF Scores
  <1>25. \A k \in 1..m : front[k].call \in {"increment", "updateSet"}
    <2> SUFFICES ASSUME NEW k \in 1..m PROVE front[k].call \in {"increment", "updateSet"}
      OBVIOUS
    <2>1. k \in 1..n \/ k = m
      BY <1>12
    <2>. QED
      BY <1>14, <1>16, <1>22, <2>1
  <1>26. \A p \in Players : front[m].given[p] # 0 => ~PaidUp(front, p, m)
    <2> SUFFICES ASSUME NEW p \in Players, given[p] # 0 PROVE ~PaidUp(front, p, m)
      BY <1>16, <1>22
    <2>1. given[p] > 0
      <3>1. given[p] \in Nat
        BY <1>3
      <3>. QED
        BY <3>1
    <2>2. PICK k \in 1..n : all[k] = p
      BY <1>13, <2>1
    <2>3. front[k].who = p /\ Pays(front[k]) /\ k \in 1..(m - 1)
      BY <1>12, <1>14, <1>22, <2>2 DEF Pays
    <2>. QED
      BY <2>3 DEF PaidUp
  <1>27. req'[w].todo = front \o Tail(req[w].todo)
    <2>1. req'[w].todo = front \o Tail(next.todo)
      BY <1>8, <1>20, BeforeTodo
    <2>. QED
      BY <1>8, <2>1
  <1>28. /\ front[m].given \in [Players -> Nat] /\ Plain(front[m + 1])
    BY <1>3, <1>16, <1>17, <1>21, <1>22
  <1>. HIDE DEF m
  <1>. QED
    BY <1>21, <1>22, <1>24, <1>25, <1>26, <1>27, <1>28 DEF ScoresFirst

LEMMA WorkersFinite ==
  /\ IsFiniteSet(Workers) /\ Cardinality(Workers) \in Nat \ {0}
  /\ \A A \in SUBSET Workers :
       IsFiniteSet(A) /\ Cardinality(A) \in Nat /\ Cardinality(A) <= Cardinality(Workers)
  <1>1. IsFiniteSet(Workers) /\ Workers # {}
    BY TLBurstAssumption
  <1>2. Cardinality(Workers) \in Nat \ {0}
    BY <1>1, FS_CardinalityType, FS_EmptySet
  <1>. QED
    BY <1>1, <1>2, FS_Subset, FS_CardinalityType

LEMMA HeadOfRest ==
  ASSUME NEW S, NEW front \in Seq(S), NEW q \in Seq(S), q # <<>>,
         NEW p \in {front, front \o Tail(q)}, p # <<>>
  PROVE  \/ Len(front) >= 1 /\ Head(p) = front[1]
         \/ Len(q) >= 2 /\ Head(p) = q[2]
  <1> DEFINE t == Tail(q)
  <1>1. t \in Seq(S) /\ Len(t) = Len(q) - 1 /\ Len(q) \in Nat \ {0}
        /\ \A k \in 1..Len(t) : t[k] = q[k + 1]
    OBVIOUS
  <1>2. p \in Seq(S) /\ Head(p) = p[1] /\ Len(p) \in Nat \ {0}
    <2>1. p \in Seq(S)
      <3>1. p = front \/ p = front \o t
        OBVIOUS
      <3>. HIDE DEF t
      <3>2. front \o t \in Seq(S)
        BY <1>1, JoinedCalls
      <3>. QED
        BY <3>1, <3>2
    <2>. QED
      BY <2>1
  <1>3. CASE Len(front) # 0
    <2>1. Len(front) >= 1 /\ p[1] = front[1]
      BY <1>1, <1>3
    <2>. QED
      BY <1>2, <2>1
  <1>4. CASE Len(front) = 0
    <2>1. front = <<>>
      BY <1>4
    <2>2. p = t
      <3>. HIDE DEF t
      <3>. QED
        BY <1>1, <1>2, <2>1
    <2>. HIDE DEF t
    <2>3. Len(t) >= 1 /\ p[1] = t[1]
      BY <1>1, <1>2, <2>2
    <2>4. Len(q) >= 2 /\ t[1] = q[1 + 1]
      BY <1>1, <2>3
    <2>. QED
      BY <1>2, <2>3, <2>4
  <1>. QED
    BY <1>3, <1>4

\* A call that goes on plainly leaves no set to be added next, and no score
\* to be written.
LEMMA PlainlyNotAdding ==
  ASSUME BurstOK, NEW w \in Workers, Works(w), GoesOnPlainly(w)
  PROVE  ~Doing(w, "createSet")' /\ ~Doing(w, "writeScore")'
  <1> DEFINE q == req[w].todo
             p == req'[w].todo
  <1>1. q \in Seq(CallRows) /\ q # <<>> /\ InLine(q)
    BY WorksEffect
  <1>2. PICK front \in Seq(CallRows) :
          /\ \A k \in 1..Len(front) : Plain(front[k])
          /\ p \in {front, front \o Tail(q)}
    BY DEF GoesOnPlainly
  <1>. HIDE DEF p, q
  <1>3. ASSUME p # <<>> PROVE Head(p).call \notin {"createSet", "writeScore"}
    <2>1. CASE Len(front) >= 1 /\ Head(p) = front[1]
      BY <1>2, <2>1 DEF Plain, Pays
    <2>2. CASE Len(q) >= 2 /\ Head(p) = q[2]
      <3>1. 1 \in 1..(Len(q) - 1)
        BY <1>1, <2>2
      <3>2. MayFollow(q[1], q[1 + 1])
        BY <1>1, <3>1 DEF InLine
      <3>. QED
        BY <2>2, <3>2 DEF MayFollow
    <2>. QED
      BY <1>1, <1>2, <1>3, <2>1, <2>2, HeadOfRest
  <1>. QED
    BY <1>3 DEF Doing, p

LEMMA FrontNotAdding ==
  ASSUME NEW w \in Workers, req[w].todo \in Seq(CallRows), req[w].todo # <<>>,
         NEW front \in Seq(CallRows), Len(front) >= 1, NEW call, front[1].call # call,
         req'[w].todo = front \o Tail(req[w].todo)
  PROVE  ~Doing(w, call)'
  <1> DEFINE p == front \o Tail(req[w].todo)
  <1>1. Head(p) = front[1]
    OBVIOUS
  <1>. HIDE DEF p
  <1>. QED
    BY <1>1 DEF Doing, p

LEMMA IncrementTodo ==
  ASSUME BurstOK, NEW w \in Workers, Increment(w), postgres
  PROVE  LET c == Call(w)
         IN  \E x \in CallRows :
               /\ x = [call |-> "writeScore", who |-> c.who, points |-> c.points,
                       from |-> score[c.who]]
               /\ req'[w].todo = <<x>> \o Tail(req[w].todo)
               /\ RowsKept /\ req[w].todo # <<>> /\ c.call = "increment"
  <1> DEFINE c == Call(w)
             x == [call |-> "writeScore", who |-> c.who, points |-> c.points,
                   from |-> score[c.who]]
  <1>1. req[w].todo # <<>> /\ c.call = "increment"
    BY DEF Increment, Doing, Call
  <1>2. c \in CallRows /\ score \in [Players -> Nat]
    BY <1>1, WorkerFound, RowsFound DEF BurstOK
  <1>3. c.who \in Players /\ c.points \in Nat
    BY <1>1, <1>2, CallFields
  <1>4. Before(w, <<x>>, req[w]) /\ RowsKept
    BY DEF Increment
  <1>. HIDE DEF c
  <1>5. x \in CallRows
    BY <1>2, <1>3 DEF CallRows
  <1>6. req'[w].todo = <<x>> \o Tail(req[w].todo)
    <2>. HIDE DEF x
    <2>1. req[w] \in Requests
      BY DEF BurstOK
    <2>. QED
      BY <1>4, <2>1, BeforeTodo
  <1>. QED
    BY <1>1, <1>4, <1>5, <1>6 DEF c

\* A set to be added next is one that was found missing just now.
LEMMA NewAdder ==
  ASSUME BurstOK, NEW w \in Workers, Works(w)
  PROVE  (AddsOwn(w) /\ RowsKept) \/ ~Doing(w, "createSet")'
  <1>1. req[w].todo \in Seq(CallRows) /\ req[w].todo # <<>>
    BY WorksEffect
  <1>2. CASE ListVotes(w)
    <2>1. PICK front \in Seq(CallRows), m \in Nat \ {0} :
            /\ Len(front) = m + 1 /\ \A k \in 1..m : front[k].call \in {"increment", "updateSet"}
            /\ req'[w].todo = front \o Tail(req[w].todo)
      BY <1>2, ListVotesTodo DEF ScoresFirst
    <2>2. Len(front) >= 1 /\ front[1].call # "createSet"
      BY <2>1
    <2>. QED
      BY <1>1, <2>1, <2>2, FrontNotAdding
  <1>3. CASE ReadMine(w)
    <2>1. RowsKept
      BY <1>3 DEF ReadMine
    <2>. QED
      BY <1>3, <2>1, ReadMineAdds, PlainlyNotAdding
  <1>4. CASE Increment(w) /\ postgres
    <2>1. PICK x \in CallRows : x.call = "writeScore" /\ req'[w].todo = <<x>> \o Tail(req[w].todo)
      BY <1>4, IncrementTodo
    <2>2. <<x>> \in Seq(CallRows) /\ Len(<<x>>) >= 1 /\ <<x>>[1].call # "createSet"
      BY <2>1
    <2>. QED
      BY <1>1, <2>1, <2>2, FrontNotAdding
  <1>5. CASE ~ListVotes(w) /\ ~ReadMine(w) /\ ~(Increment(w) /\ postgres)
    BY <1>5, ServesPlainly, PlainlyNotAdding DEF Works
  <1>. QED
    BY <1>2, <1>3, <1>4, <1>5

\* A call adds at most one set, and over the database only the first of its author.
LEMMA WorksSets ==
  ASSUME BurstOK, NEW w \in Workers, Works(w)
  PROVE  \/ Len(sets') = Len(sets)
         \/ /\ Doing(w, "createSet") /\ sets' = Append(sets, Call(w).row)
            /\ ~AuthorTaken(Call(w).row)
  <1>1. CASE Abort(w)
    BY <1>1 DEF Abort, RowsKept
  <1>2. CASE CreateSet(w)
    BY <1>2 DEF CreateSet
  <1>3. CASE UpdateSet(w)
    <2>1. sets \in Seq(TruthSets)
      BY RowsFound DEF BurstOK
    <2>2. sets' = sets \/ sets' = [sets EXCEPT ![Call(w).set] = Call(w).row]
      BY <1>3 DEF UpdateSet
    <2>. QED
      BY <2>1, <2>2
  <1>4. CASE \/ ReadRoom(w) \/ ReadCurrent(w) \/ ReadRoundRow(w) \/ SyncRoom(w) \/ Synchronise(w)
             \/ ListSets(w) \/ FirstSet(w) \/ ReadActive(w) \/ ListVotes(w) \/ ListNext(w)
             \/ Accept(w) \/ ReadMine(w) \/ LookUp(w)
    <2>1. RowsKept
      BY <1>4 DEF ReadRoom, ReadCurrent, ReadRoundRow, SyncRoom, Synchronise, ListSets, FirstSet, ReadActive,
                  ListVotes, ListNext, Accept, ReadMine, LookUp
    <2>. QED
      BY <2>1 DEF RowsKept
  <1>5. CASE UpdateRoom(w) \/ UpdateRound(w) \/ CreateRound(w) \/ Increment(w) \/ WriteScore(w)
             \/ Upsert(w)
    <2>1. sets' = sets
      BY <1>5 DEF UpdateRoom, UpdateRound, CreateRound, Increment, WriteScore, Upsert, RowsKept
    <2>. QED
      BY <2>1
  <1>. QED
    BY <1>1, <1>2, <1>3, <1>4, <1>5 DEF Works, Serve

\* The set a request is about to add is its own only if it found none.
LEMMA AddingAfter ==
  ASSUME BurstOK, NEW w \in Workers, Works(w), NEW i, NEW p
  PROVE  \/ Adding(i, p)' \subseteq Adding(i, p) \ {w}
         \/ Own(sets, i, p) = {} /\ sets' = sets
  <1>1. \A v \in Workers : v = w \/ req'[v] = req[v]
    BY WorksEffect
  <1>2. \A v \in Workers : v # w /\ v \in Adding(i, p)' => v \in Adding(i, p)
    BY <1>1 DEF Adding, Doing, Call
  <1>3. CASE ~Doing(w, "createSet")'
    BY <1>2, <1>3 DEF Adding
  <1>4. CASE AddsOwn(w) /\ RowsKept
    <2>1. PICK row \in TruthSets : /\ row.round = req[w].at /\ row.author = req[w].who
                                   /\ req'[w].todo = <<AddSet(row)>>
      BY <1>4 DEF AddsOwn
    <2>2. Call(w)' = AddSet(row) /\ AddSet(row).row = row
      BY <2>1 DEF Call, AddSet
    <2>3. sets' = sets
      BY <1>4 DEF RowsKept
    <2>4. CASE i = req[w].at /\ p = req[w].who
      <3>1. Own(sets, i, p) = {}
        BY <1>4, <2>4 DEF AddsOwn, OwnSets, Own, SetsOf, game
      <3>. QED
        BY <2>3, <3>1
    <2>5. CASE ~(i = req[w].at /\ p = req[w].who)
      <3>1. w \notin Adding(i, p)'
        BY <2>1, <2>2, <2>5 DEF Adding
      <3>. QED
        BY <1>2, <3>1 DEF Adding
    <2>. QED
      BY <2>4, <2>5
  <1>. QED
    BY <1>3, <1>4, NewAdder

LEMMA WorksCounted ==
  ASSUME BurstOK, SetsCounted, NEW w \in Workers, Works(w)
  PROVE  SetsCounted'
  <1> SUFFICES ASSUME NEW i, NEW p
               PROVE  IF postgres THEN Cardinality(Own(sets', i, p)) <= 1
                      ELSE Cardinality(Own(sets', i, p)) + Cardinality(Adding(i, p)')
                             <= Cardinality(Workers)
    <2>1. postgres' = postgres
      BY DEF Works
    <2>2. \A i, p : Own(sets', i, p) = Own(sets, i, p)'
      BY DEF Own
    <2>. QED
      BY <2>1, <2>2 DEF SetsCounted
  <1> DEFINE S == Own(sets, i, p)
             S2 == Own(sets', i, p)
             F == Adding(i, p)
             F2 == Adding(i, p)'
  <1>1. /\ sets \in Seq(TruthSets) /\ sets' \in Seq(TruthSets) /\ Len(sets) \in Nat
        /\ \A s \in 1..Len(sets) : sets'[s].round = sets[s].round /\ sets'[s].author = sets[s].author
    <2>1. Effect(w)
      <3>1. CASE Serve(w)
        BY <3>1, ServeEffect DEF Works
      <3>2. CASE Abort(w)
        BY <3>2, EndEffect DEF Works, Abort
      <3>. QED
        BY <3>1, <3>2 DEF Works
    <2>2. Grown(now, rounds, sets, now', rounds', sets') /\ RowsOK' /\ RowsOK
      BY <2>1 DEF Effect, BurstOK
    <2>3. sets' \in Seq(TruthSets)
      BY <2>2 DEF RowsOK, TypeOK
    <2>4. sets \in Seq(TruthSets)
      BY <2>2, RowsFound
    <2>. QED
      BY <2>2, <2>3, <2>4 DEF Grown
  <1>2. /\ IsFiniteSet(S) /\ Cardinality(S) \in Nat
        /\ IsFiniteSet(S2) /\ Cardinality(S2) \in Nat
    BY <1>1, OwnFinite
  <1>3. F \in SUBSET Workers /\ F2 \in SUBSET Workers
    BY DEF Adding
  <1>4. /\ IsFiniteSet(F) /\ Cardinality(F) \in Nat
        /\ Cardinality(F2) \in Nat /\ Cardinality(F2) <= Cardinality(Workers)
        /\ Cardinality(Workers) \in Nat
    <2>. HIDE DEF F, F2
    <2>. QED
      BY <1>3, WorkersFinite
  <1>5. IF postgres THEN Cardinality(S) <= 1
        ELSE Cardinality(S) + Cardinality(F) <= Cardinality(Workers)
    BY DEF SetsCounted
  <1>6. F2 \subseteq F \ {w} \/ (S = {} /\ sets' = sets)
    BY AddingAfter
  <1>7. CASE Len(sets') = Len(sets)
    <2>1. S2 = S
      BY <1>1, <1>7, OwnSame
    <2>2. CASE F2 \subseteq F \ {w}
      <3>. HIDE DEF S, S2, F, F2
      <3>1. Cardinality(S) + Cardinality(F2) <= Cardinality(S) + Cardinality(F)
        BY <1>2, <1>4, <2>2, FewerIsLess
      <3>2. IF postgres THEN Cardinality(S2) <= 1
            ELSE Cardinality(S2) + Cardinality(F2) <= Cardinality(Workers)
        BY <1>2, <1>4, <1>5, <2>1, <3>1
      <3>. QED
        BY <3>2 DEF S2, F2
    <2>3. CASE S = {}
      <3>1. Cardinality(S2) = 0
        BY <2>1, <2>3, FS_EmptySet
      <3>. HIDE DEF S, S2, F, F2
      <3>. QED
        BY <1>4, <3>1 DEF S2, F2
    <2>. QED
      BY <1>6, <2>2, <2>3
  <1>8. CASE /\ Doing(w, "createSet") /\ sets' = Append(sets, Call(w).row)
             /\ ~AuthorTaken(Call(w).row)
    <2> DEFINE row == Call(w).row
    <2>1. row \in TruthSets
      <3>1. Call(w) \in CallRows /\ Call(w).call = "createSet"
        BY <1>8, WorkerFound DEF Doing, Call
      <3>. QED
        BY <3>1, CallFields
    <2>2. F2 \subseteq F \ {w}
      <3>1. Len(sets') # Len(sets)
        BY <1>1, <1>8, <2>1
      <3>. QED
        BY <1>6, <3>1
    <2>3. S2 = IF row.round = i /\ row.author = p THEN S \cup {Len(sets) + 1} ELSE S
      <3>1. sets' = Append(sets, row)
        BY <1>8
      <3>. HIDE DEF row
      <3>. QED
        BY <1>1, <2>1, <3>1, OwnAdded
    <2>4. CASE row.round = i /\ row.author = p
      <3>1. w \in F
        BY <1>8, <2>4 DEF Adding
      <3>2. postgres => S = {}
        BY <1>8, <2>4 DEF AuthorTaken, SetsOf, game, Own
      <3>3. CASE postgres
        <4>1. S2 = {Len(sets) + 1}
          BY <2>3, <2>4, <3>2, <3>3
        <4>2. Cardinality(S2) = 1
          BY <4>1, FS_Singleton
        <4>. QED
          BY <3>3, <4>2
      <3>4. CASE ~postgres
        <4>. HIDE DEF S, S2, F, F2
        <4>1. Cardinality(S2) + Cardinality(F2) <= Cardinality(S) + Cardinality(F)
          <5>1. S2 = S \cup {Len(sets) + 1}
            BY <2>3, <2>4
          <5>. QED
            BY <1>2, <1>4, <2>2, <3>1, <5>1, InsertBalances
        <4>2. Cardinality(S2) + Cardinality(F2) <= Cardinality(Workers)
          BY <1>2, <1>4, <1>5, <3>4, <4>1
        <4>. QED
          BY <3>4, <4>2 DEF S2, F2
      <3>. QED
        BY <3>3, <3>4
    <2>5. CASE ~(row.round = i /\ row.author = p)
      <3>1. S2 = S
        BY <2>3, <2>5
      <3>. HIDE DEF S, S2, F, F2
      <3>2. Cardinality(S) + Cardinality(F2) <= Cardinality(S) + Cardinality(F)
        BY <1>2, <1>4, <2>2, FewerIsLess
      <3>3. IF postgres THEN Cardinality(S2) <= 1
            ELSE Cardinality(S2) + Cardinality(F2) <= Cardinality(Workers)
        BY <1>2, <1>4, <1>5, <3>1, <3>2
      <3>. QED
        BY <3>3 DEF S2, F2
    <2>. QED
      BY <2>4, <2>5
  <1>. QED
    BY <1>7, <1>8, WorksSets

LEMMA CountedStep ==
  ASSUME BurstOK, SetsCounted, [SNext]_svars
  PROVE  SetsCounted'
  <1>1. ASSUME postgres' = postgres, \A i, p : Own(sets, i, p)' = Own(sets, i, p),
               \A i, p : Adding(i, p)' \subseteq Adding(i, p)
        PROVE  SetsCounted'
    <2> SUFFICES ASSUME NEW i, NEW p
                 PROVE  IF postgres THEN Cardinality(Own(sets, i, p)) <= 1
                        ELSE Cardinality(Own(sets, i, p)) + Cardinality(Adding(i, p)')
                               <= Cardinality(Workers)
      BY <1>1 DEF SetsCounted
    <2> DEFINE S == Own(sets, i, p)
               F == Adding(i, p)
               F2 == Adding(i, p)'
    <2>1. IF postgres THEN Cardinality(S) <= 1
          ELSE Cardinality(S) + Cardinality(F) <= Cardinality(Workers)
      BY DEF SetsCounted
    <2>2. IsFiniteSet(S) /\ Cardinality(S) \in Nat
      BY RowsFound, OwnFinite DEF BurstOK
    <2>3. F \in SUBSET Workers /\ F2 \subseteq F
      BY <1>1 DEF Adding
    <2>. HIDE DEF S, F, F2
    <2>4. /\ IsFiniteSet(F) /\ Cardinality(F) \in Nat /\ Cardinality(F2) \in Nat
          /\ Cardinality(Workers) \in Nat
      BY <2>3, WorkersFinite
    <2>5. Cardinality(S) + Cardinality(F2) <= Cardinality(S) + Cardinality(F)
      BY <2>2, <2>3, <2>4, FewerIsLess
    <2>6. IF postgres THEN Cardinality(S) <= 1
          ELSE Cardinality(S) + Cardinality(F2) <= Cardinality(Workers)
      BY <2>1, <2>2, <2>4, <2>5
    <2>. QED
      BY <2>6 DEF S, F2
  <1>2. CASE Passing
    BY <1>1, <1>2 DEF Passing, Own, Adding, Doing, Call
  <1>3. CASE RoomServes
    <2>1. PICK h : Housed(h)
      BY <1>3, RoomRequestHoused DEF RoomServes, BurstOK
    <2>2. /\ sets' = h.sets /\ h.sets \in Seq(TruthSets) /\ Len(h.sets) = Len(sets)
          /\ \A s \in 1..Len(sets) : h.sets[s].round = sets[s].round
                                      /\ h.sets[s].author = sets[s].author
      BY <2>1 DEF Housed, Answers, Commit, GameOK, Games, game
    <2>3. sets \in Seq(TruthSets)
      BY RowsFound DEF BurstOK
    <2>4. \A i, p : Own(h.sets, i, p) = Own(sets, i, p)
      BY <2>2, <2>3, OwnSame
    <2>5. \A i, p : Own(sets, i, p)' = Own(sets, i, p)
      BY <2>2, <2>4 DEF Own
    <2>6. \A i, p : Adding(i, p)' = Adding(i, p)
      BY <1>3 DEF RoomServes, Adding, Doing, Call
    <2>. QED
      BY <1>1, <1>3, <2>5, <2>6 DEF RoomServes
  <1>4. ASSUME NEW w \in Workers, Receives(w)
        PROVE  SetsCounted'
    <2>1. RowsKept /\ \A v \in Workers : v = w \/ req'[v] = req[v]
      BY <1>4, ReceiveEffect, EffectFits DEF Receives
    <2>2. ~Doing(w, "createSet")'
      <3>1. PICK op \in Ops, p \in Players \cup {NoPlayer}, i \in 0..Len(rounds),
                 x \in Statements \cup {0} : Arrive(w, op, p, i, x)
        BY <1>4 DEF Receives, Receive
      <3> DEFINE r == [Idle EXCEPT !.op = op, !.who = p, !.at = i, !.statement = x,
                                   !.todo = Calls(op)]
      <3>2. Turn(w, r)
        BY <3>1 DEF Arrive
      <3>3. r.todo = Calls(op)
        BY DEF Idle
      <3>. HIDE DEF r
      <3>4. req'[w].todo = Calls(op)
        BY <3>2, <3>3, TurnTodo
      <3>5. Calls(op) \in Seq(CallRows) /\ Calls(op) # <<>> /\ Calls(op)[1].call # "createSet"
        BY CallsInLine
      <3>6. Head(Calls(op)) = Calls(op)[1]
        BY <3>5
      <3>. QED
        BY <3>4, <3>5, <3>6 DEF Doing
    <2>3. \A i, p : Adding(i, p)' \subseteq Adding(i, p)
      BY <2>1, <2>2 DEF Adding, Doing, Call
    <2>4. \A i, p : Own(sets, i, p)' = Own(sets, i, p)
      BY <2>1 DEF RowsKept, Own
    <2>. QED
      BY <1>1, <1>4, <2>3, <2>4 DEF Receives
  <1>. QED
    BY <1>2, <1>3, <1>4, BurstCases, WorksCounted

LEMMA CountedInit ==
  ASSUME SInit
  PROVE  SetsCounted
  <1>1. sets = <<>> /\ \A w \in Workers : req[w].todo = <<>>
    BY DEF SInit, Init, Idle
  <1>2. \A i, p : Own(sets, i, p) = {} /\ Adding(i, p) = {}
    BY <1>1 DEF Own, Adding, Doing
  <1>3. Cardinality({}) = 0
    BY FS_EmptySet
  <1>4. Cardinality(Workers) \in Nat
    BY WorkersFinite
  <1>. QED
    BY <1>2, <1>3, <1>4 DEF SetsCounted

\* Of one player's truth sets in a round the database has one, and memory no
\* more than there are requests that can overlap.
THEOREM TruthSetsStayBounded == SSpec => []SetsBounded
  <1>1. BurstOK /\ SetsCounted => SetsBounded
    <2> SUFFICES ASSUME BurstOK, SetsCounted, NEW i \in DOMAIN rounds, NEW p \in Players
                 PROVE  Cardinality({s \in SetsOf(game, i) : sets[s].author = p})
                          <= IF postgres THEN 1 ELSE Cardinality(Workers)
      BY DEF SetsBounded
    <2>1. {s \in SetsOf(game, i) : sets[s].author = p} = Own(sets, i, p)
      BY DEF SetsOf, game, Own
    <2>2. Cardinality(Own(sets, i, p)) \in Nat
      BY RowsFound, OwnFinite DEF BurstOK
    <2>3. Adding(i, p) \in SUBSET Workers
      BY DEF Adding
    <2>4. Cardinality(Adding(i, p)) \in Nat /\ Cardinality(Workers) \in Nat
      BY <2>3, WorkersFinite
    <2>5. IF postgres THEN Cardinality(Own(sets, i, p)) <= 1
          ELSE Cardinality(Own(sets, i, p)) + Cardinality(Adding(i, p)) <= Cardinality(Workers)
      BY DEF SetsCounted
    <2>6. Cardinality(Own(sets, i, p)) <= IF postgres THEN 1 ELSE Cardinality(Workers)
      BY <2>2, <2>4, <2>5
    <2>. QED
      BY <2>1, <2>6
  <1>. QED
    BY <1>1, CountedInit, CountedStep, BurstInvariance, PTL DEF SSpec

-----------------------------------------------------------------------------
(* What a request has still to pay.  A truth set is marked as scored when  *)
(* the points of all players it brings something are written: until then   *)
(* the scores run ahead of the mark.                                       *)

Scoreless(q) == \A k \in 1..Len(q) : ~Pays(q[k]) /\ ~Marks(q[k])

Shaped(q) == Scoreless(q) \/ \E m \in 1..Len(q) : Scores(q, m)

\* Points of p that are written, while the set they are for has still to be marked.
Ahead(q, p) ==
  IF \E m \in 1..Len(q) : PaidUp(q, p, m)
    THEN q[CHOOSE m \in 1..Len(q) : PaidUp(q, p, m)].given[p]
    ELSE 0

\* What a call may change in this: it pays, or it marks the set.
RestAhead(q, t, p) ==
  /\ ~Pays(q[1]) /\ ~Marks(q[1]) => Ahead(t, p) <= Ahead(q, p)
  /\ Pays(q[1]) => Ahead(t, p) <= Ahead(q, p) + IF q[1].who = p THEN q[1].points ELSE 0
  /\ Marks(q[1]) => Ahead(t, p) = 0 /\ Ahead(q, p) = q[1].given[p]

LEMMA NothingAhead ==
  ASSUME NEW q, Scoreless(q), NEW p
  PROVE  Ahead(q, p) = 0
  BY DEF Scoreless, Ahead, PaidUp

LEMMA AheadOf ==
  ASSUME NEW q \in Seq(CallRows), NEW m \in 1..Len(q), Scores(q, m), NEW p \in Players
  PROVE  /\ q[m].given \in [Players -> Nat] /\ q[m].given[p] \in Nat
         /\ Ahead(q, p) = IF PaidUp(q, p, m) THEN q[m].given[p] ELSE 0
  <1>1. q[m] \in CallRows /\ Marks(q[m]) /\ Len(q) \in Nat
    BY DEF Scores
  <1>2. q[m].given \in [Players -> Nat]
    BY <1>1, CallFields DEF Marks
  <1>3. \A k \in 1..Len(q) : PaidUp(q, p, k) => k = m
    <2> SUFFICES ASSUME NEW k \in 1..Len(q), Marks(q[k]) PROVE k = m
      BY DEF PaidUp
    <2>1. k \in 1..(m - 1) \/ k = m \/ k \in (m + 1)..Len(q)
      BY <1>1
    <2>. QED
      BY <2>1 DEF Scores
  <1>4. CASE PaidUp(q, p, m)
    <2>1. (CHOOSE k \in 1..Len(q) : PaidUp(q, p, k)) = m
      BY <1>3, <1>4
    <2>. QED
      BY <1>2, <1>4, <2>1 DEF Ahead
  <1>5. CASE ~PaidUp(q, p, m)
    <2>1. ~\E k \in 1..Len(q) : PaidUp(q, p, k)
      BY <1>3, <1>5
    <2>. QED
      BY <1>2, <1>5, <2>1 DEF Ahead
  <1>. QED
    BY <1>4, <1>5

LEMMA AheadNat ==
  ASSUME NEW q \in Seq(CallRows), Shaped(q), NEW p \in Players
  PROVE  Ahead(q, p) \in Nat
  <1>1. CASE Scoreless(q)
    BY <1>1, NothingAhead
  <1>2. ASSUME NEW m \in 1..Len(q), Scores(q, m) PROVE Ahead(q, p) \in Nat
    BY <1>2, AheadOf
  <1>. QED
    BY <1>1, <1>2 DEF Shaped

\* Plain calls in front make no difference.
LEMMA FrontAhead ==
  ASSUME NEW front \in Seq(CallRows), \A k \in 1..Len(front) : Plain(front[k]),
         NEW r \in Seq(CallRows), Shaped(r), NEW p \in Players
  PROVE  Shaped(front \o r) /\ Ahead(front \o r, p) = Ahead(r, p)
  <1> DEFINE y == front \o r
             n == Len(front)
  <1>1. /\ y \in Seq(CallRows) /\ Len(y) = n + Len(r) /\ n \in Nat /\ Len(r) \in Nat
        /\ \A k \in 1..n : y[k] = front[k]
        /\ \A k \in 1..Len(r) : y[n + k] = r[k]
    BY JoinedCalls
  <1>2. \A k \in 1..n : ~Pays(y[k]) /\ ~Marks(y[k])
    BY <1>1 DEF Plain
  <1>. HIDE DEF y, n
  <1>3. \A k \in 1..Len(y) : k \in 1..n \/ \E j \in 1..Len(r) : k = n + j /\ y[k] = r[j]
    <2> SUFFICES ASSUME NEW k \in 1..Len(y), k \notin 1..n
                 PROVE  \E j \in 1..Len(r) : k = n + j /\ y[k] = r[j]
      OBVIOUS
    <2>1. k - n \in 1..Len(r) /\ k = n + (k - n)
      BY <1>1
    <2>. QED
      BY <1>1, <2>1
  <1>4. CASE Scoreless(r)
    <2>1. Scoreless(y)
      BY <1>2, <1>3, <1>4 DEF Scoreless
    <2>2. Ahead(y, p) = 0 /\ Ahead(r, p) = 0
      BY <1>4, <2>1, NothingAhead
    <2>. QED
      BY <2>1, <2>2 DEF Shaped, y
  <1>5. ASSUME NEW m \in 1..Len(r), Scores(r, m)
        PROVE  Shaped(y) /\ Ahead(y, p) = Ahead(r, p)
    <2>1. n + m \in 1..Len(y) /\ y[n + m] = r[m]
      BY <1>1
    <2>2. \A k \in 1..((n + m) - 1) : k \in 1..n \/ \E j \in 1..(m - 1) : k = n + j /\ y[k] = r[j]
      <3> SUFFICES ASSUME NEW k \in 1..((n + m) - 1), k \notin 1..n
                   PROVE  \E j \in 1..(m - 1) : k = n + j /\ y[k] = r[j]
        OBVIOUS
      <3>1. k - n \in 1..(m - 1) /\ k - n \in 1..Len(r) /\ k = n + (k - n)
        BY <1>1
      <3>. QED
        BY <1>1, <3>1
    <2>3. \A k \in ((n + m) + 1)..Len(y) : \E j \in (m + 1)..Len(r) : y[k] = r[j]
      <3> SUFFICES ASSUME NEW k \in ((n + m) + 1)..Len(y)
                   PROVE  \E j \in (m + 1)..Len(r) : y[k] = r[j]
        OBVIOUS
      <3>1. k - n \in (m + 1)..Len(r) /\ k - n \in 1..Len(r) /\ k = n + (k - n)
        BY <1>1
      <3>. QED
        BY <1>1, <3>1
    <2>4. Scores(y, n + m)
      BY <1>2, <1>5, <2>1, <2>2, <2>3 DEF Scores
    <2>5. PaidUp(y, p, n + m) <=> PaidUp(r, p, m)
      <3>1. \A j \in 1..(m - 1) : n + j \in 1..((n + m) - 1) /\ y[n + j] = r[j]
        <4> SUFFICES ASSUME NEW j \in 1..(m - 1)
                     PROVE  n + j \in 1..((n + m) - 1) /\ y[n + j] = r[j]
          OBVIOUS
        <4>1. j \in 1..Len(r) /\ n + j \in 1..((n + m) - 1)
          BY <1>1
        <4>. QED
          BY <1>1, <4>1
      <3>. QED
        BY <1>2, <2>1, <2>2, <3>1 DEF PaidUp
    <2>6. Ahead(y, p) = IF PaidUp(y, p, n + m) THEN y[n + m].given[p] ELSE 0
      <3> DEFINE z == n + m
      <3>1. z \in 1..Len(y) /\ Scores(y, z)
        BY <2>1, <2>4
      <3>. HIDE DEF z
      <3>2. Ahead(y, p) = IF PaidUp(y, p, z) THEN y[z].given[p] ELSE 0
        BY <1>1, <3>1, AheadOf
      <3>. QED
        BY <3>2 DEF z
    <2>7. Ahead(r, p) = IF PaidUp(r, p, m) THEN r[m].given[p] ELSE 0
      BY <1>5, AheadOf
    <2>8. Ahead(y, p) = Ahead(r, p)
      BY <2>1, <2>5, <2>6, <2>7
    <2>. QED
      BY <2>1, <2>4, <2>8 DEF Shaped
  <1>6. Shaped(y) /\ Ahead(y, p) = Ahead(r, p)
    BY <1>4, <1>5 DEF Shaped, y
  <1>. QED
    BY <1>6 DEF y

\* The first call is made.
LEMMA TailAhead ==
  ASSUME NEW q \in Seq(CallRows), q # <<>>, Shaped(q), NEW p \in Players
  PROVE  Shaped(Tail(q)) /\ RestAhead(q, Tail(q), p)
  <1> DEFINE t == Tail(q)
  <1>1. /\ t \in Seq(CallRows) /\ Len(t) = Len(q) - 1 /\ Len(q) \in Nat \ {0}
        /\ \A k \in 1..(Len(q) - 1) : t[k] = q[k + 1]
    BY TailCalls
  <1>. HIDE DEF t
  <1>2. \A k \in 1..Len(t) : k + 1 \in 1..Len(q) /\ t[k] = q[k + 1]
    BY <1>1
  <1>3. 1 \in 1..Len(q)
    BY <1>1
  <1>4. CASE Scoreless(q)
    <2>1. Scoreless(t)
      BY <1>2, <1>4 DEF Scoreless
    <2>2. ~Pays(q[1]) /\ ~Marks(q[1])
      BY <1>3, <1>4 DEF Scoreless
    <2>3. Ahead(t, p) = 0 /\ Ahead(q, p) = 0
      BY <1>4, <2>1, NothingAhead
    <2>. QED
      BY <2>1, <2>2, <2>3 DEF Shaped, RestAhead, t
  <1>5. ASSUME NEW m \in 1..Len(q), Scores(q, m)
        PROVE  Shaped(t) /\ RestAhead(q, t, p)
    <2>1. /\ q[m].given[p] \in Nat /\ Marks(q[m])
          /\ Ahead(q, p) = IF PaidUp(q, p, m) THEN q[m].given[p] ELSE 0
      BY <1>5, AheadOf DEF Scores
    <2>2. CASE m = 1
      <3>1. Scoreless(t)
        <4> SUFFICES ASSUME NEW k \in 1..Len(t) PROVE ~Pays(t[k]) /\ ~Marks(t[k])
          BY DEF Scoreless
        <4>1. k + 1 \in (m + 1)..Len(q) /\ t[k] = q[k + 1]
          BY <1>1, <1>2, <2>2
        <4>. QED
          BY <1>5, <4>1 DEF Scores
      <3>2. Ahead(t, p) = 0
        BY <3>1, NothingAhead
      <3>3. PaidUp(q, p, m)
        BY <2>1, <2>2 DEF PaidUp
      <3>4. Marks(q[1]) /\ ~Pays(q[1])
        BY <2>1, <2>2 DEF Marks, Pays
      <3>. QED
        BY <2>1, <2>2, <3>1, <3>2, <3>3, <3>4 DEF Shaped, RestAhead
    <2>3. CASE m # 1
      <3> DEFINE l == m - 1
      <3>1. l \in 1..Len(t) /\ t[l] = q[m] /\ l + 1 = m /\ 1 \in 1..(m - 1)
        BY <1>1, <2>3
      <3>2. \A k \in 1..(l - 1) : k + 1 \in 1..(m - 1) /\ t[k] = q[k + 1]
        BY <1>1, <3>1
      <3>3. \A k \in (l + 1)..Len(t) : k + 1 \in (m + 1)..Len(q) /\ t[k] = q[k + 1]
        BY <1>1, <3>1
      <3>4. \A k \in 1..(m - 1) : k = 1 \/ (k - 1 \in 1..(l - 1) /\ t[k - 1] = q[k])
        <4> SUFFICES ASSUME NEW k \in 1..(m - 1), k # 1
                     PROVE  k - 1 \in 1..(l - 1) /\ t[k - 1] = q[k]
          OBVIOUS
        <4>1. k - 1 \in 1..(l - 1) /\ (k - 1) + 1 = k
          BY <1>1, <3>1
        <4>. QED
          BY <3>2, <4>1
      <3>. HIDE DEF l
      <3>5. Scores(t, l)
        BY <1>5, <3>1, <3>2, <3>3 DEF Scores
      <3>6. Ahead(t, p) = IF PaidUp(t, p, l) THEN t[l].given[p] ELSE 0
        BY <1>1, <3>1, <3>5, AheadOf
      <3>7. ~Marks(q[1]) /\ (Pays(q[1]) => q[1].points = q[m].given[q[1].who])
        BY <1>5, <3>1 DEF Scores
      <3>8. PaidUp(q, p, m) <=> PaidUp(t, p, l) /\ ~(Pays(q[1]) /\ q[1].who = p)
        <4>1. PaidUp(q, p, m) => PaidUp(t, p, l) /\ ~(Pays(q[1]) /\ q[1].who = p)
          BY <3>1, <3>2 DEF PaidUp
        <4>2. PaidUp(t, p, l) /\ ~(Pays(q[1]) /\ q[1].who = p) => PaidUp(q, p, m)
          BY <3>1, <3>4 DEF PaidUp
        <4>. QED
          BY <4>1, <4>2
      <3>9. RestAhead(q, t, p)
        <4> DEFINE a == Ahead(q, p)
                   b == Ahead(t, p)
                   g == q[m].given[p]
        <4>1. g \in Nat /\ a = (IF PaidUp(q, p, m) THEN g ELSE 0) /\ b = IF PaidUp(t, p, l) THEN g ELSE 0
          BY <2>1, <3>1, <3>6
        <4>2. Pays(q[1]) /\ q[1].who = p => q[1].points = g
          BY <3>7
        <4>. HIDE DEF a, b, g
        <4>3. ~Pays(q[1]) => b <= a
          BY <3>8, <4>1
        <4>4. Pays(q[1]) => b <= a + IF q[1].who = p THEN q[1].points ELSE 0
          <5>1. CASE q[1].who = p
            BY <3>8, <4>1, <4>2, <5>1
          <5>2. CASE q[1].who # p
            BY <3>8, <4>1, <5>2
          <5>. QED
            BY <5>1, <5>2
        <4>. QED
          BY <3>7, <4>3, <4>4 DEF RestAhead, a, b
      <3>. QED
        BY <3>1, <3>5, <3>9 DEF Shaped
    <2>. QED
      BY <2>2, <2>3
  <1>. QED
    BY <1>4, <1>5 DEF Shaped, t

\* Whatever the head is, nothing is ahead of a request with nothing to pay.
LEMMA NothingLeft ==
  ASSUME NEW q \in Seq(CallRows), q # <<>>, Shaped(q), NEW t \in Seq(CallRows), Scoreless(t),
         NEW p \in Players
  PROVE  Shaped(t) /\ RestAhead(q, t, p)
  <1>1. Ahead(t, p) = 0 /\ Ahead(q, p) \in Nat
    BY NothingAhead, AheadNat
  <1>2. RestAhead(q, Tail(q), p)
    BY TailAhead
  <1>3. q[1] \in CallRows
    BY TailCalls
  <1>4. Pays(q[1]) => q[1].points \in Nat
    BY <1>3, CallFields DEF Pays
  <1>. QED
    BY <1>1, <1>2, <1>4 DEF RestAhead, Shaped

LEMMA GoingOnAhead ==
  ASSUME NEW q \in Seq(CallRows), q # <<>>, Shaped(q),
         NEW front \in Seq(CallRows), \A k \in 1..Len(front) : Plain(front[k]),
         NEW t \in {front, front \o Tail(q)}, NEW p \in Players
  PROVE  Shaped(t) /\ RestAhead(q, t, p)
  <1>1. CASE t = front
    <2>1. Scoreless(front)
      BY DEF Scoreless, Plain
    <2>. QED
      BY <1>1, <2>1, NothingLeft
  <1>2. CASE t = front \o Tail(q)
    <2>1. Tail(q) \in Seq(CallRows) /\ Shaped(Tail(q)) /\ RestAhead(q, Tail(q), p)
      BY TailCalls, TailAhead
    <2>2. Shaped(t) /\ Ahead(t, p) = Ahead(Tail(q), p)
      BY <1>2, <2>1, FrontAhead
    <2>. QED
      BY <2>1, <2>2 DEF RestAhead
  <1>. QED
    BY <1>1, <1>2

\* A read score takes the place of the increment it is for.
LEMMA SwappedHead ==
  ASSUME NEW q \in Seq(CallRows), q # <<>>, Shaped(q), Pays(q[1]),
         NEW x \in CallRows, Pays(x), x.who = q[1].who, x.points = q[1].points,
         NEW p \in Players
  PROVE  Shaped(<<x>> \o Tail(q)) /\ Ahead(<<x>> \o Tail(q), p) = Ahead(q, p)
  <1> DEFINE t == Tail(q)
             one == <<x>>
             y == one \o t
  <1>1. /\ t \in Seq(CallRows) /\ Len(t) = Len(q) - 1 /\ Len(q) \in Nat \ {0}
        /\ \A k \in 1..(Len(q) - 1) : t[k] = q[k + 1]
    BY TailCalls
  <1>2. one \in Seq(CallRows) /\ Len(one) = 1 /\ one[1] = x
    OBVIOUS
  <1>. HIDE DEF t, one
  <1>3. /\ y \in Seq(CallRows) /\ Len(y) = Len(one) + Len(t)
        /\ \A k \in 1..Len(one) : y[k] = one[k]
        /\ \A k \in 1..Len(t) : y[Len(one) + k] = t[k]
    <2>1. t \in Seq(CallRows) /\ one \in Seq(CallRows)
      BY <1>1, <1>2
    <2>. QED
      BY <2>1, JoinedCalls
  <1>. HIDE DEF y
  <1>4. Len(y) = Len(q) /\ y[1] = x
    BY <1>1, <1>2, <1>3
  <1>5. \A k \in 1..Len(q) : k = 1 \/ y[k] = q[k]
    <2> SUFFICES ASSUME NEW k \in 1..Len(q), k # 1 PROVE y[k] = q[k]
      OBVIOUS
    <2>1. k - 1 \in 1..Len(t) /\ k - 1 \in 1..(Len(q) - 1) /\ 1 + (k - 1) = k /\ (k - 1) + 1 = k
      BY <1>1
    <2>2. y[1 + (k - 1)] = t[k - 1] /\ t[k - 1] = q[(k - 1) + 1]
      BY <1>1, <1>2, <1>3, <2>1
    <2>. QED
      BY <2>1, <2>2
  <1>6. ~Scoreless(q)
    BY <1>1 DEF Scoreless
  <1>7. PICK m \in 1..Len(q) : Scores(q, m)
    BY <1>6 DEF Shaped
  <1>8. m # 1 /\ ~Marks(x) /\ ~Marks(q[1])
    BY <1>7 DEF Scores, Marks, Pays
  <1>9. /\ m \in 1..Len(y) /\ y[m] = q[m] /\ 1 \in 1..(m - 1)
        /\ \A k \in 1..(m - 1) : k \in 1..Len(q)
        /\ \A k \in (m + 1)..Len(q) : k \in 1..Len(q) /\ k # 1
    BY <1>1, <1>4, <1>5, <1>7, <1>8
  <1>10. Scores(y, m)
    BY <1>4, <1>5, <1>7, <1>8, <1>9 DEF Scores
  <1>11. PaidUp(y, p, m) <=> PaidUp(q, p, m)
    BY <1>4, <1>5, <1>9 DEF PaidUp
  <1>12. Ahead(y, p) = IF PaidUp(y, p, m) THEN y[m].given[p] ELSE 0
    BY <1>3, <1>9, <1>10, AheadOf
  <1>13. Ahead(q, p) = IF PaidUp(q, p, m) THEN q[m].given[p] ELSE 0
    BY <1>7, AheadOf
  <1>14. Shaped(y) /\ Ahead(y, p) = Ahead(q, p)
    BY <1>9, <1>10, <1>11, <1>12, <1>13 DEF Shaped
  <1>. QED
    BY <1>14 DEF y, t, one

\* The calls that score a set: nobody is ahead yet.
LEMMA ScoringAhead ==
  ASSUME NEW front \in Seq(CallRows), NEW m \in Nat \ {0}, Len(front) = m + 1,
         Scores(front, m), Plain(front[m + 1]),
         NEW p \in Players, front[m].given[p] # 0 => ~PaidUp(front, p, m),
         NEW t \in Seq(CallRows), Scoreless(t)
  PROVE  Shaped(front \o t) /\ Ahead(front \o t, p) = 0
  <1> DEFINE y == front \o t
  <1>1. /\ y \in Seq(CallRows) /\ Len(y) = (m + 1) + Len(t) /\ Len(t) \in Nat
        /\ \A k \in 1..(m + 1) : y[k] = front[k]
        /\ \A k \in 1..Len(t) : y[(m + 1) + k] = t[k]
    <2> DEFINE n == Len(front)
    <2>1. y \in Seq(CallRows)
      BY JoinedCalls
    <2>2. Len(y) = n + Len(t)
      BY JoinedCalls
    <2>3. \A k \in 1..n : y[k] = front[k]
      BY JoinedCalls
    <2>4. \A k \in 1..Len(t) : y[n + k] = t[k]
      BY JoinedCalls
    <2>5. n = m + 1 /\ Len(t) \in Nat
      OBVIOUS
    <2>. HIDE DEF n, y
    <2>. QED
      BY <2>1, <2>2, <2>3, <2>4, <2>5
  <1>. HIDE DEF y
  <1>2. m \in 1..Len(y) /\ y[m] = front[m] /\ \A k \in 1..(m - 1) : y[k] = front[k]
    BY <1>1
  <1>3. ASSUME NEW k \in (m + 1)..Len(y) PROVE ~Pays(y[k]) /\ ~Marks(y[k])
    <2>1. CASE k = m + 1
      <3>1. y[k] = front[m + 1]
        BY <1>1, <2>1
      <3>. QED
        BY <3>1 DEF Plain
    <2>2. CASE k # m + 1
      <3>1. k - (m + 1) \in 1..Len(t) /\ (m + 1) + (k - (m + 1)) = k
        BY <1>1, <2>2
      <3>2. y[k] = t[k - (m + 1)]
        BY <1>1, <3>1
      <3>. QED
        BY <3>1, <3>2 DEF Scoreless
    <2>. QED
      BY <2>1, <2>2
  <1>4. Scores(y, m)
    BY <1>2, <1>3 DEF Scores
  <1>5. PaidUp(y, p, m) => PaidUp(front, p, m)
    BY <1>2 DEF PaidUp
  <1>6. Ahead(y, p) = IF PaidUp(y, p, m) THEN y[m].given[p] ELSE 0
    BY <1>1, <1>2, <1>4, AheadOf
  <1>7. Ahead(y, p) = 0
    BY <1>2, <1>5, <1>6
  <1>8. Shaped(y) /\ Ahead(y, p) = 0
    BY <1>2, <1>4, <1>7 DEF Shaped
  <1>. QED
    BY <1>8 DEF y

\* After a look at the rows there are only questions.
LEMMA AfterLooking ==
  ASSUME NEW q \in Seq(CallRows), q # <<>>, InLine(q), Head(q).call \in Looking
  PROVE  Scoreless(Tail(q))
  <1> DEFINE c == [call |-> "readRoom"]
             one == <<WriteRoom("expired")>>
  <1>1. WriteRoom("expired") \in CallRows /\ WriteRoom("expired").call = "updateRoom"
    BY CallsTyped
  <1>2. /\ one \in Seq(CallRows) /\ one # <<>> /\ InLine(one) /\ one[Len(one)].call \notin Asking
    <2>1. ~Ends(WriteRoom("expired"))
      BY <1>1 DEF Ends
    <2>2. /\ one \in Seq(CallRows) /\ one # <<>> /\ InLine(one) /\ Len(one) = 1
          /\ one[1] = WriteRoom("expired")
      BY <1>1, <2>1, OneCall
    <2>. QED
      BY <1>1, <2>2 DEF Asking
  <1>. HIDE DEF one
  <1>3. \A k \in 1..(Len(q) - 1) : q[k + 1].call \in Asking
    BY <1>2, FrontCalls
  <1>4. /\ Len(Tail(q)) = Len(q) - 1 /\ \A k \in 1..(Len(q) - 1) : Tail(q)[k] = q[k + 1]
    BY TailCalls
  <1>. QED
    BY <1>3, <1>4 DEF Scoreless, Pays, Marks, Asking

\* Sums of which one summand changes, or some are left out.
LEMMA TotalChange ==
  ASSUME NEW f, NEW g, NEW S, IsFiniteSet(S),
         \A x \in S : f[x] \in Nat, \A x \in S : g[x] \in Nat,
         NEW z \in S, \A x \in S : x # z => g[x] = f[x]
  PROVE  /\ Total(f, S) \in Nat /\ Total(g, S) \in Nat
         /\ Total(g, S) + f[z] = Total(f, S) + g[z]
  <1> DEFINE R == S \ {z}
  <1>1. IsFiniteSet(R) /\ R \subseteq S /\ \A x \in R : x # z
    BY FS_Subset
  <1>2. Total(f, S) = f[z] + Total(f, R) /\ Total(g, S) = g[z] + Total(g, R)
    BY TotalRemove
  <1>. HIDE DEF R
  <1>3. Total(f, R) = Total(g, R)
    BY <1>1, TotalSame
  <1>4. Total(f, R) \in Nat /\ f[z] \in Nat /\ g[z] \in Nat
    BY <1>1, TotalNat
  <1> DEFINE a == f[z]
             b == g[z]
  <1>. HIDE DEF a, b
  <1>5. Total(f, S) = a + Total(f, R) /\ Total(g, S) = b + Total(f, R) /\ a \in Nat /\ b \in Nat
    BY <1>2, <1>3, <1>4 DEF a, b
  <1>6. /\ Total(f, S) \in Nat /\ Total(g, S) \in Nat
        /\ Total(g, S) + a = Total(f, S) + b
    BY <1>4, <1>5
  <1>. QED
    BY <1>6 DEF a, b

LEMMA TotalOnce ==
  ASSUME NEW S, IsFiniteSet(S), NEW f \in [S -> Nat], NEW z \in S, NEW k \in Nat
  PROVE  /\ Total(f, S) \in Nat /\ Total([f EXCEPT ![z] = k], S) \in Nat
         /\ Total([f EXCEPT ![z] = k], S) + f[z] = Total(f, S) + k
  <1> DEFINE g == [f EXCEPT ![z] = k]
  <1>1. g[z] = k
    OBVIOUS
  <1>2. \A x \in S : f[x] \in Nat
    OBVIOUS
  <1>3. \A x \in S : g[x] \in Nat
    OBVIOUS
  <1>4. \A x \in S : x # z => g[x] = f[x]
    OBVIOUS
  <1>. HIDE DEF g
  <1>5. /\ Total(f, S) \in Nat /\ Total(g, S) \in Nat
        /\ Total(g, S) + f[z] = Total(f, S) + g[z]
    BY <1>2, <1>3, <1>4, TotalChange
  <1>. QED
    BY <1>1, <1>5 DEF g

LEMMA TotalPart ==
  ASSUME NEW w, NEW S, IsFiniteSet(S), \A x \in S : w[x] \in Nat, NEW T \in SUBSET S
  PROVE  Total(w, T) \in Nat /\ Total(w, S) \in Nat /\ Total(w, T) <= Total(w, S)
  <1>1. \A U \in SUBSET S : IsFiniteSet(U) /\ Total(w, U) \in Nat
    <2> SUFFICES ASSUME NEW U \in SUBSET S PROVE IsFiniteSet(U) /\ Total(w, U) \in Nat
      OBVIOUS
    <2>1. IsFiniteSet(U)
      BY FS_Subset
    <2>. QED
      BY <2>1, TotalNat
  <1> DEFINE C == {U \in SUBSET S : ~(Total(w, S \ U) <= Total(w, S))}
  <1>2. C = {}
    <2> SUFFICES ASSUME C # {} PROVE FALSE
      OBVIOUS
    <2>1. PICK U \in C : \A V \in SUBSET U : V # U => V \notin C
      <3> HIDE DEF C
      <3>1. C \subseteq SUBSET S
        BY DEF C
      <3>. QED
        BY <3>1, SmallestSubset
    <2>2. U # {}
      <3>1. ~(Total(w, S \ U) <= Total(w, S))
        BY <2>1
      <3>2. Total(w, S) \in Nat
        BY <1>1
      <3>3. U = {} => S \ U = S
        OBVIOUS
      <3>. HIDE DEF C
      <3>. QED
        BY <3>1, <3>2, <3>3
    <2>3. PICK x : x \in U
      BY <2>2
    <2> DEFINE V == U \ {x}
               W == S \ V
    <2>4. /\ V \in SUBSET U /\ V # U /\ V \in SUBSET S
          /\ W \in SUBSET S /\ x \in W /\ x \in S /\ W \ {x} = S \ U
      BY <2>1, <2>3
    <2>5. Total(w, W) <= Total(w, S)
      BY <2>1, <2>4
    <2>. HIDE DEF V, W
    <2>6. IsFiniteSet(W) /\ \A y \in W : w[y] \in Nat
      BY <1>1, <2>4
    <2>7. Total(w, W) = w[x] + Total(w, W \ {x})
      BY <2>4, <2>6, TotalRemove
    <2>8. /\ Total(w, W \ {x}) \in Nat /\ Total(w, W) \in Nat /\ w[x] \in Nat
          /\ Total(w, S) \in Nat
      BY <1>1, <2>4, <2>6
    <2>9. Total(w, W \ {x}) <= Total(w, S)
      <3> DEFINE a == w[x]
      <3>. HIDE DEF a
      <3>1. Total(w, W) = a + Total(w, W \ {x}) /\ a \in Nat
        BY <2>7, <2>8 DEF a
      <3>. QED
        BY <2>5, <2>8, <3>1
    <2>. QED
      BY <2>1, <2>4, <2>9
  <1>3. S \ T \in SUBSET S /\ S \ (S \ T) = T
    OBVIOUS
  <1>4. Total(w, S \ (S \ T)) <= Total(w, S)
    BY <1>2, <1>3
  <1>. QED
    BY <1>1, <1>3, <1>4

-----------------------------------------------------------------------------
(* The points that are marked, and those about to be, are in the scores.   *)

\* Points marked, set by set, and those about to be, worker by worker.
MarkedIn(S, ty, p) == [s \in S |-> ty[s][p]]

ComingTo(rq, p) == [w \in Workers |-> Ahead(rq[w].todo, p)]

MarkedPoints(S, ty, p) == Total(MarkedIn(S, ty, p), S)

ComingPoints(rq, p) == Total(ComingTo(rq, p), Workers)

AllPaid ==
  ~postgres \/ ~overlapped =>
    \A p \in Players : MarkedPoints(DOMAIN sets, tally, p) + ComingPoints(req, p) <= score[p]

\* Alone, a request writes back the score it has read.
ReadStill ==
  \A w \in Workers :
    Doing(w, "writeScore") => postgres /\ (~overlapped => Call(w).from = score[Call(w).who])

PaidInv == AllPaid /\ ReadStill /\ \A w \in Workers : Shaped(req[w].todo)

LEMMA MarkedNat ==
  ASSUME NEW S, IsFiniteSet(S), NEW ty \in [S -> [Players -> Nat]], NEW p \in Players
  PROVE  /\ MarkedPoints(S, ty, p) \in Nat
         /\ \A s \in S : MarkedIn(S, ty, p)[s] = ty[s][p] /\ ty[s][p] \in Nat
  <1>1. \A s \in S : MarkedIn(S, ty, p)[s] = ty[s][p] /\ ty[s][p] \in Nat
    BY DEF MarkedIn
  <1>. QED
    BY <1>1, TotalNat DEF MarkedPoints

\* A set is added, which has brought nothing yet.
LEMMA MarkedAdded ==
  ASSUME NEW ss \in Seq(TruthSets), NEW ty \in [DOMAIN ss -> [Players -> Nat]],
         NEW row \in TruthSets, NEW p \in Players
  PROVE  MarkedPoints(DOMAIN Append(ss, row), Append(ty, [q \in Players |-> 0]), p)
           = MarkedPoints(DOMAIN ss, ty, p)
  <1> DEFINE n == Len(ss)
             none == [q \in Players |-> 0]
             ty2 == Append(ty, none)
             f == MarkedIn(1..n, ty, p)
             g == MarkedIn(1..(n + 1), ty2, p)
  <1>1. n \in Nat /\ DOMAIN ss = 1..n /\ DOMAIN Append(ss, row) = 1..(n + 1)
    OBVIOUS
  <1>2. none \in [Players -> Nat] /\ none[p] = 0
    OBVIOUS
  <1>3. ty \in Seq([Players -> Nat]) /\ Len(ty) = n
    <2>1. ty \in [1..n -> [Players -> Nat]]
      BY <1>1
    <2>. QED
      BY <1>1, <2>1, FunctionIsSequence
  <1>. HIDE DEF none, n
  <1>4. ty2[n + 1] = none /\ \A s \in 1..n : ty2[s] = ty[s]
    BY <1>1, <1>2, <1>3
  <1>. HIDE DEF ty2
  <1>5. /\ \A s \in 1..n : f[s] = ty[s][p] /\ f[s] \in Nat
        /\ \A s \in 1..(n + 1) : g[s] = ty2[s][p]
    BY <1>1, <1>2 DEF MarkedIn
  <1>. HIDE DEF f, g
  <1>6. g[n + 1] = 0 /\ \A s \in 1..n : g[s] = f[s]
    <2>1. n + 1 \in 1..(n + 1) /\ \A s \in 1..n : s \in 1..(n + 1)
      BY <1>1
    <2>2. g[n + 1] = none[p]
      BY <1>4, <1>5, <2>1
    <2>. QED
      BY <1>2, <1>4, <1>5, <2>1, <2>2
  <1>7. 1..n = (1..(n + 1)) \ {n + 1} /\ n + 1 \in 1..(n + 1)
    BY <1>1
  <1>8. IsFiniteSet(1..(n + 1)) /\ IsFiniteSet(1..n)
    BY <1>1, FS_Interval
  <1>9. \A s \in 1..(n + 1) : g[s] \in Nat
    <2> SUFFICES ASSUME NEW s \in 1..(n + 1) PROVE g[s] \in Nat
      OBVIOUS
    <2>1. s = n + 1 \/ s \in 1..n
      BY <1>1
    <2>. QED
      BY <1>5, <1>6, <2>1
  <1>10. Total(g, 1..(n + 1)) = g[n + 1] + Total(g, 1..n)
    <2> DEFINE S == 1..(n + 1)
               z == n + 1
    <2>2. IsFiniteSet(S) /\ z \in S /\ \A s \in S : g[s] \in Nat
      BY <1>7, <1>8, <1>9
    <2>. HIDE DEF S, z
    <2>1. Total(g, S) = g[z] + Total(g, S \ {z})
      BY <2>2, TotalRemove
    <2>. QED
      BY <1>7, <2>1 DEF S, z
  <1>11. Total(g, 1..n) = Total(f, 1..n) /\ Total(f, 1..n) \in Nat
    BY <1>5, <1>6, <1>8, TotalSame, TotalNat
  <1>12. Total(g, 1..(n + 1)) = Total(f, 1..n)
    BY <1>6, <1>10, <1>11
  <1>. QED
    BY <1>1, <1>12 DEF MarkedPoints, f, g, ty2, none

LEMMA ComingNat ==
  ASSUME NEW rq, NEW p, \A v \in Workers : Ahead(rq[v].todo, p) \in Nat
  PROVE  ComingPoints(rq, p) \in Nat
  <1>1. \A v \in Workers : ComingTo(rq, p)[v] \in Nat
    BY DEF ComingTo
  <1>. QED
    BY <1>1, WorkersFinite, TotalNat DEF ComingPoints

LEMMA PaidTypes ==
  ASSUME BurstOK, PaidInv
  PROVE  /\ score \in [Players -> Nat] /\ tally \in [DOMAIN sets -> [Players -> Nat]]
         /\ sets \in Seq(TruthSets) /\ IsFiniteSet(DOMAIN sets)
         /\ \A v \in Workers :
              /\ req[v].todo \in Seq(CallRows) /\ Shaped(req[v].todo)
              /\ \A p \in Players : Ahead(req[v].todo, p) \in Nat
         /\ \A p \in Players : /\ MarkedPoints(DOMAIN sets, tally, p) \in Nat
                               /\ ComingPoints(req, p) \in Nat
  <1>1. /\ score \in [Players -> Nat] /\ tally \in [DOMAIN sets -> [Players -> Nat]]
        /\ sets \in Seq(TruthSets)
    BY RowsFound DEF BurstOK
  <1>2. IsFiniteSet(DOMAIN sets)
    BY <1>1, FS_Interval
  <1>3. \A v \in Workers : req[v].todo \in Seq(CallRows) /\ Shaped(req[v].todo)
    BY DEF BurstOK, Requests, PaidInv
  <1>4. \A v \in Workers, p \in Players : Ahead(req[v].todo, p) \in Nat
    BY <1>3, AheadNat
  <1>5. \A p \in Players : MarkedPoints(DOMAIN sets, tally, p) \in Nat
    BY <1>1, <1>2, MarkedNat
  <1>6. \A p \in Players : ComingPoints(req, p) \in Nat
    BY <1>4, ComingNat
  <1>. QED
    BY <1>1, <1>2, <1>3, <1>4, <1>5, <1>6

\* What any call leaves ahead of the marks.
LEMMA WorksAhead ==
  ASSUME BurstOK, PaidInv, NEW w \in Workers, Works(w), NEW p \in Players
  PROVE  LET q == req[w].todo
             t == req'[w].todo
         IN  /\ Shaped(t) /\ RestAhead(q, t, p)
             /\ Increment(w) /\ postgres => Ahead(t, p) = Ahead(q, p)
             /\ Abort(w) => Ahead(t, p) = 0
  <1> DEFINE q == req[w].todo
             t == req'[w].todo
  <1>1. q \in Seq(CallRows) /\ q # <<>> /\ InLine(q) /\ Shaped(q)
    BY WorksEffect DEF PaidInv
  <1>2. q[1] = Call(w) /\ q[1] = Head(q) /\ q[1] \in CallRows
    BY <1>1, TailCalls DEF Call
  <1>3. Ahead(q, p) \in Nat
    BY <1>1, AheadNat
  <1>4. CASE ListVotes(w)
    <2>1. PICK front \in Seq(CallRows), m \in Nat \ {0} :
            /\ Len(front) = m + 1 /\ Scores(front, m) /\ Plain(front[m + 1])
            /\ \A r \in Players : front[m].given[r] # 0 => ~PaidUp(front, r, m)
            /\ t = front \o Tail(q)
      BY <1>4, ListVotesTodo DEF ScoresFirst
    <2>2. Head(q).call = "listVotes"
      BY <1>4 DEF ListVotes, Doing
    <2>3. Scoreless(Tail(q)) /\ Tail(q) \in Seq(CallRows)
      <3>1. Head(q).call \in Looking
        BY <2>2 DEF Looking
      <3>. HIDE DEF q
      <3>. QED
        BY <1>1, <3>1, AfterLooking, TailCalls
    <2>. HIDE DEF q, t
    <2>4. Shaped(t) /\ Ahead(t, p) = 0
      BY <2>1, <2>3, ScoringAhead
    <2>5. ~Pays(q[1]) /\ ~Marks(q[1])
      BY <1>2, <2>2 DEF Pays, Marks
    <2>6. RestAhead(q, t, p)
      BY <1>3, <2>4, <2>5 DEF RestAhead
    <2>7. ~Increment(w) /\ ~(Abort(w) /\ Ahead(t, p) # 0)
      BY <2>2, <2>4 DEF Increment, Doing, q
    <2>. QED
      BY <2>4, <2>6, <2>7 DEF q, t
  <1>5. CASE Increment(w) /\ postgres
    <2>1. PICK x \in CallRows :
            /\ x.call = "writeScore" /\ x.who = Call(w).who /\ x.points = Call(w).points
            /\ t = <<x>> \o Tail(q) /\ Call(w).call = "increment"
      <3> DEFINE X == [call |-> "writeScore", who |-> Call(w).who, points |-> Call(w).points,
                          from |-> score[Call(w).who]]
      <3>1. \E x \in CallRows : x = X /\ t = <<x>> \o Tail(q) /\ Call(w).call = "increment"
        BY <1>5, IncrementTodo
      <3>2. X.call = "writeScore" /\ X.who = Call(w).who /\ X.points = Call(w).points
        OBVIOUS
      <3>. HIDE DEF X, t, q
      <3>. QED
        BY <3>1, <3>2
    <2>2. Pays(q[1]) /\ Pays(x) /\ x.who = q[1].who /\ x.points = q[1].points
      BY <1>2, <2>1 DEF Pays
    <2>. HIDE DEF q, t
    <2>3. Shaped(t) /\ Ahead(t, p) = Ahead(q, p)
      BY <1>1, <2>1, <2>2, SwappedHead
    <2>4. q[1].points \in Nat /\ ~Marks(q[1])
      <3>1. ~Marks(q[1])
        BY <2>2 DEF Pays, Marks
      <3>2. q[1].points \in Nat
        BY <1>2, <2>2, CallFields DEF Pays
      <3>. QED
        BY <3>1, <3>2
    <2>5. RestAhead(q, t, p)
      BY <1>3, <2>2, <2>3, <2>4 DEF RestAhead
    <2>6. Abort(w) => Ahead(t, p) = 0
      <3>1. Abort(w) => t = <<>>
        BY EndsPlainly DEF Abort, t
      <3>2. t # <<>>
        <4>1. Tail(q) \in Seq(CallRows) /\ <<x>> \in Seq(CallRows) /\ Len(<<x>>) = 1
          BY <1>1, TailCalls
        <4>2. Len(<<x>> \o Tail(q)) = 1 + Len(Tail(q)) /\ Len(Tail(q)) \in Nat
          BY <4>1
        <4>. QED
          BY <2>1, <4>2
      <3>. QED
        BY <3>1, <3>2
    <2>. QED
      BY <2>3, <2>5, <2>6 DEF q, t
  <1>6. CASE GoesOnPlainly(w) /\ ~(Increment(w) /\ postgres)
    <2>1. PICK front \in Seq(CallRows) :
            (\A k \in 1..Len(front) : Plain(front[k])) /\ t \in {front, front \o Tail(q)}
      BY <1>6 DEF GoesOnPlainly
    <2>2. Abort(w) => t = <<>>
      BY EndsPlainly DEF Abort
    <2>. HIDE DEF q, t
    <2>3. Shaped(t) /\ RestAhead(q, t, p)
      BY <1>1, <2>1, GoingOnAhead
    <2>4. Abort(w) => Ahead(t, p) = 0
      <3>1. Scoreless(<<>>)
        BY DEF Scoreless
      <3>. QED
        BY <2>2, <3>1, NothingAhead
    <2>. QED
      BY <1>6, <2>3, <2>4 DEF q, t
  <1>7. CASE ReadMine(w) /\ AddsOwn(w)
    <2>1. PICK row \in TruthSets : t = <<AddSet(row)>>
      BY <1>7 DEF AddsOwn
    <2>2. Scoreless(t) /\ t \in Seq(CallRows)
      <3>1. AddSet(row) \in CallRows /\ AddSet(row).call = "createSet"
        BY CallsTyped
      <3>. HIDE DEF AddSet, t
      <3>. QED
        BY <2>1, <3>1 DEF Scoreless, Pays, Marks
    <2>3. ~Increment(w)
      BY <1>7 DEF ReadMine, Increment, Doing
    <2>. HIDE DEF q, t
    <2>4. Shaped(t) /\ RestAhead(q, t, p) /\ Ahead(t, p) = 0
      BY <1>1, <2>2, NothingLeft, NothingAhead
    <2>. QED
      BY <2>3, <2>4 DEF q, t
  <1>8. ReadMine(w) => ~Increment(w)
    BY DEF ReadMine, Increment, Doing
  <1>. QED
    BY <1>4, <1>5, <1>6, <1>7, <1>8, ReadMineAdds, ServesPlainly DEF Works

LEMMA NewReader ==
  ASSUME BurstOK, NEW w \in Workers, Works(w), ~(Increment(w) /\ postgres)
  PROVE  ~Doing(w, "writeScore")'
  <1>1. req[w].todo \in Seq(CallRows) /\ req[w].todo # <<>>
    BY WorksEffect
  <1>2. CASE ListVotes(w)
    <2>1. PICK front \in Seq(CallRows), m \in Nat \ {0} :
            /\ Len(front) = m + 1 /\ \A k \in 1..m : front[k].call \in {"increment", "updateSet"}
            /\ req'[w].todo = front \o Tail(req[w].todo)
      BY <1>2, ListVotesTodo DEF ScoresFirst
    <2>2. Len(front) >= 1 /\ front[1].call # "writeScore"
      BY <2>1
    <2>. QED
      BY <1>1, <2>1, <2>2, FrontNotAdding
  <1>3. CASE AddsOwn(w)
    <2>1. PICK row \in TruthSets : req'[w].todo = <<AddSet(row)>>
      BY <1>3 DEF AddsOwn
    <2>2. AddSet(row).call = "createSet"
      BY DEF AddSet
    <2>. HIDE DEF AddSet
    <2>. QED
      BY <2>1, <2>2 DEF Doing
  <1>4. CASE GoesOnPlainly(w)
    BY <1>4, PlainlyNotAdding
  <1>. QED
    BY <1>2, <1>3, <1>4, ReadMineAdds, ServesPlainly DEF Works

LEMMA WorksTyped ==
  ASSUME BurstOK, NEW w \in Workers, Works(w)
  PROVE  /\ RowsOK' /\ req' \in [Workers -> Requests] /\ req'[w].todo \in Seq(CallRows)
         /\ sets' \in Seq(TruthSets) /\ tally' \in [DOMAIN sets' -> [Players -> Nat]]
         /\ score' \in [Players -> Nat]
  <1>1. Effect(w)
    <2>1. CASE Serve(w)
      BY <2>1, ServeEffect DEF Works
    <2>2. CASE Abort(w)
      BY <2>2, EndEffect DEF Works, Abort
    <2>. QED
      BY <2>1, <2>2 DEF Works
  <1>2. RowsOK' /\ req' \in [Workers -> Requests]
    BY <1>1, EffectFits
  <1>3. req'[w].todo \in Seq(CallRows)
    BY <1>2 DEF Requests
  <1>. QED
    BY <1>2, <1>3 DEF RowsOK, TypeOK

LEMMA QuietCalls ==
  ASSUME NEW w \in Workers, Serve(w)
  PROVE  \/ Increment(w) \/ WriteScore(w) \/ UpdateSet(w) \/ CreateSet(w)
         \/ /\ UNCHANGED <<sets, tally, score>>
            /\ Call(w).call \notin {"increment", "writeScore", "updateSet"}
  <1>1. CASE \/ ReadRoom(w) \/ ReadCurrent(w) \/ ReadRoundRow(w) \/ SyncRoom(w) \/ Synchronise(w)
             \/ ListSets(w) \/ FirstSet(w) \/ ReadActive(w) \/ ListVotes(w) \/ ListNext(w)
             \/ Accept(w) \/ ReadMine(w) \/ LookUp(w)
    <2>1. RowsKept
      BY <1>1 DEF ReadRoom, ReadCurrent, ReadRoundRow, SyncRoom, Synchronise, ListSets, FirstSet, ReadActive,
                  ListVotes, ListNext, Accept, ReadMine, LookUp
    <2>2. Call(w).call \in Asking \cup Looking \cup {"firstSet"}
      BY <1>1 DEF ReadRoom, ReadCurrent, ReadRoundRow, SyncRoom, Synchronise, ListSets, FirstSet, ReadActive,
                  ListVotes, ListNext, Accept, ReadMine, LookUp, Doing, Call, Asking, Looking
    <2>. QED
      BY <2>1, <2>2 DEF RowsKept, Asking, Looking
  <1>2. CASE UpdateRoom(w) \/ UpdateRound(w) \/ CreateRound(w) \/ Upsert(w)
    BY <1>2 DEF UpdateRoom, UpdateRound, CreateRound, Upsert, Doing, Call
  <1>. QED
    BY <1>1, <1>2 DEF Serve

LEMMA MarkedOnce ==
  ASSUME NEW S, IsFiniteSet(S), NEW ty \in [S -> [Players -> Nat]], NEW z \in S,
         NEW given \in [Players -> Nat], NEW p \in Players
  PROVE  MarkedPoints(S, [ty EXCEPT ![z] = given], p) + ty[z][p] = MarkedPoints(S, ty, p) + given[p]
  <1> DEFINE ty2 == [ty EXCEPT ![z] = given]
             f == MarkedIn(S, ty, p)
             g == MarkedIn(S, ty2, p)
             k == given[p]
  <1>1. f \in [S -> Nat] /\ f[z] = ty[z][p] /\ k \in Nat
    BY DEF MarkedIn
  <1>2. g = [f EXCEPT ![z] = k]
    <2>1. \A s \in S : ty2[s][p] = IF s = z THEN k ELSE ty[s][p]
      OBVIOUS
    <2>. HIDE DEF ty2, k
    <2>. QED
      BY <2>1 DEF MarkedIn
  <1>. HIDE DEF f, g, k, ty2
  <1>3. Total(g, S) + f[z] = Total(f, S) + k
    BY <1>1, <1>2, TotalOnce
  <1>. QED
    BY <1>1, <1>3 DEF MarkedPoints, f, g, k, ty2

\* Points written, points ahead and points marked keep their balance.
LEMMA WorksBalance ==
  ASSUME BurstOK, PaidInv, NEW w \in Workers, Works(w), NEW p \in Players,
         ~postgres \/ ~overlapped
  PROVE  MarkedPoints(DOMAIN sets', tally', p) + Ahead(req'[w].todo, p) + score[p]
           <= MarkedPoints(DOMAIN sets, tally, p) + Ahead(req[w].todo, p) + score'[p]
  <1> DEFINE m == MarkedPoints(DOMAIN sets, tally, p)
             m2 == MarkedPoints(DOMAIN sets', tally', p)
             a == Ahead(req[w].todo, p)
             b == Ahead(req'[w].todo, p)
             sc == score[p]
             sc2 == score'[p]
             c == Call(w)
  <1>1. /\ score \in [Players -> Nat] /\ tally \in [DOMAIN sets -> [Players -> Nat]]
        /\ sets \in Seq(TruthSets) /\ IsFiniteSet(DOMAIN sets)
        /\ m \in Nat /\ a \in Nat /\ sc \in Nat
    BY PaidTypes
  <1>2. /\ c \in CallRows /\ c = req[w].todo[1] /\ FitsCall(c, req[w], rounds, sets)
        /\ req[w].todo # <<>>
    BY WorksEffect, WorkerFound
  <1>3. /\ b \in Nat
        /\ ~Pays(c) /\ ~Marks(c) => b <= a
        /\ Pays(c) => b <= a + IF c.who = p THEN c.points ELSE 0
        /\ Marks(c) => b = 0 /\ a = c.given[p]
        /\ Increment(w) /\ postgres => b = a
        /\ Abort(w) => b = 0
    <2>1. /\ Shaped(req'[w].todo) /\ RestAhead(req[w].todo, req'[w].todo, p)
          /\ Increment(w) /\ postgres => b = a
          /\ Abort(w) => b = 0
      BY WorksAhead
    <2>2. req'[w].todo \in Seq(CallRows)
      BY WorksTyped
    <2>. HIDE DEF c
    <2>3. b \in Nat
      BY <2>1, <2>2, AheadNat
    <2>. QED
      BY <1>2, <2>1, <2>3 DEF RestAhead
  <1>4. m2 \in Nat /\ score' \in [Players -> Nat] /\ sc2 \in Nat
    <2>1. sets' \in Seq(TruthSets) /\ tally' \in [DOMAIN sets' -> [Players -> Nat]]
          /\ score' \in [Players -> Nat]
      BY WorksTyped
    <2>2. IsFiniteSet(DOMAIN sets')
      BY <2>1, FS_Interval
    <2>. QED
      BY <2>1, <2>2, MarkedNat
  <1>5. ASSUME sets' = sets, tally' = tally PROVE m2 = m
    BY <1>5
  <1>6. CASE Abort(w)
    <2>1. m2 = m /\ sc2 = sc
      BY <1>5, <1>6 DEF Abort, RowsKept
    <2>2. b = 0
      BY <1>3, <1>6
    <2>. HIDE DEF m, m2, a, b, sc, sc2
    <2>3. m2 + b + sc <= m + a + sc2
      BY <1>1, <2>1, <2>2
    <2>. QED
      BY <2>3 DEF m, m2, a, b, sc, sc2
  <1>7. CASE /\ UNCHANGED <<sets, tally, score>>
             /\ c.call \notin {"increment", "writeScore", "updateSet"}
    <2>1. m2 = m /\ sc2 = sc
      BY <1>5, <1>7
    <2>2. b <= a
      BY <1>3, <1>7 DEF Pays, Marks
    <2>. HIDE DEF m, m2, a, b, sc, sc2
    <2>3. m2 + b + sc <= m + a + sc2
      BY <1>1, <1>3, <2>1, <2>2
    <2>. QED
      BY <2>3 DEF m, m2, a, b, sc, sc2
  <1>8. CASE CreateSet(w)
    <2>1. c.call = "createSet" /\ sc2 = sc
      BY <1>8 DEF CreateSet, Doing, Call
    <2>2. b <= a
      BY <1>3, <2>1 DEF Pays, Marks
    <2>3. m2 = m
      <3>1. CASE UNCHANGED <<sets, tally>>
        BY <1>5, <3>1
      <3>2. CASE sets' = Append(sets, c.row) /\ tally' = Append(tally, [q \in Players |-> 0])
        <4>1. c.row \in TruthSets
          BY <1>2, <2>1, CallFields
        <4>. HIDE DEF c
        <4>. QED
          BY <1>1, <3>2, <4>1, MarkedAdded
      <3>. QED
        BY <1>8, <3>1, <3>2 DEF CreateSet
    <2>. HIDE DEF m, m2, a, b, sc, sc2
    <2>4. m2 + b + sc <= m + a + sc2
      BY <1>1, <1>3, <2>1, <2>2, <2>3
    <2>. QED
      BY <2>4 DEF m, m2, a, b, sc, sc2
  <1>9. ASSUME Pays(c), score' = [score EXCEPT ![c.who] = @ + c.points], UNCHANGED <<sets, tally>>
        PROVE  m2 + b + sc <= m + a + sc2
    <2>1. m2 = m
      BY <1>5, <1>9
    <2>2. c.who \in Players /\ c.points \in Nat
      BY <1>2, <1>9, CallFields DEF Pays
    <2> DEFINE d == IF c.who = p THEN c.points ELSE 0
    <2>3. d \in Nat /\ b <= a + d
      BY <1>3, <1>9, <2>2
    <2>4. sc2 = sc + d
      <3>1. CASE c.who = p
        BY <1>1, <1>9, <2>2, <3>1
      <3>2. CASE c.who # p
        BY <1>1, <1>9, <2>2, <3>2
      <3>. QED
        BY <3>1, <3>2
    <2>. HIDE DEF d, m, m2, a, b, sc, sc2
    <2>. QED
      BY <1>1, <1>3, <2>1, <2>3, <2>4
  <1>10. CASE Increment(w)
    <2>1. c.call = "increment"
      BY <1>10 DEF Increment, Doing, Call
    <2>2. CASE postgres
      <3>1. m2 = m /\ sc2 = sc
        BY <1>5, <1>10, <2>2 DEF Increment, RowsKept
      <3>2. b = a
        BY <1>3, <1>10, <2>2
      <3>. HIDE DEF m, m2, a, b, sc, sc2
      <3>3. m2 + b + sc <= m + a + sc2
        BY <1>1, <3>1, <3>2
      <3>. QED
        BY <3>3 DEF m, m2, a, b, sc, sc2
    <2>3. CASE ~postgres
      BY <1>9, <1>10, <2>1, <2>3 DEF Increment, Pays
    <2>. QED
      BY <2>2, <2>3
  <1>11. CASE WriteScore(w)
    <2>1. c.call = "writeScore" /\ Doing(w, "writeScore")
      BY <1>11 DEF WriteScore, Doing, Call
    <2>2. c.from = score[c.who]
      BY <2>1 DEF PaidInv, ReadStill
    <2>3. score' = [score EXCEPT ![c.who] = score[c.who] + c.points] /\ UNCHANGED <<sets, tally>>
      BY <1>11, <2>2 DEF WriteScore
    <2>. QED
      BY <1>9, <2>1, <2>3 DEF Pays
  <1>12. CASE UpdateSet(w)
    <2>1. c.call = "updateSet" /\ sc2 = sc
      BY <1>12 DEF UpdateSet, Doing, Call
    <2>2. c.set \in DOMAIN sets
      BY <1>2, <2>1 DEF FitsCall
    <2>3. b <= a /\ (Marks(c) => b = 0 /\ a = c.given[p])
      <3>1. ~Pays(c)
        BY <2>1 DEF Pays
      <3>2. CASE Marks(c)
        <4>. HIDE DEF a, b, c
        <4>. QED
          BY <1>1, <1>3, <3>2
      <3>3. CASE ~Marks(c)
        BY <1>3, <3>1, <3>3
      <3>. QED
        BY <3>2, <3>3
    <2>4. DOMAIN sets' = DOMAIN sets
      BY <1>12 DEF UpdateSet
    <2>5. CASE tally' = tally
      <3>1. m2 = m
        BY <2>4, <2>5
      <3>. HIDE DEF m, m2, a, b, sc, sc2
      <3>2. m2 + b + sc <= m + a + sc2
        BY <1>1, <1>3, <2>1, <2>3, <3>1
      <3>. QED
        BY <3>2 DEF m, m2, a, b, sc, sc2
    <2>6. CASE c.given # <<>> /\ tally' = [tally EXCEPT ![c.set] = c.given]
      <3>1. Marks(c) /\ c.given \in [Players -> Nat]
        BY <1>2, <2>1, <2>6, CallFields DEF Marks
      <3> DEFINE S == DOMAIN sets
                 z == c.set
                 given == c.given
                 e == tally[z][p]
                 g == given[p]
      <3>2. z \in S /\ IsFiniteSet(S) /\ given \in [Players -> Nat] /\ tally' = [tally EXCEPT ![z] = given]
            /\ tally \in [S -> [Players -> Nat]] /\ b = 0 /\ a = g /\ DOMAIN sets' = S
        BY <1>1, <2>2, <2>3, <2>4, <2>6, <3>1
      <3>. HIDE DEF S, z, given, c
      <3>3. e \in Nat /\ g \in Nat
        BY <3>2
      <3>4. MarkedPoints(S, [tally EXCEPT ![z] = given], p) + e = MarkedPoints(S, tally, p) + g
        <4>1. IsFiniteSet(S)
          BY <3>2
        <4>2. tally \in [S -> [Players -> Nat]]
          BY <3>2
        <4>3. z \in S
          BY <3>2
        <4>4. given \in [Players -> Nat]
          BY <3>2
        <4>. QED
          BY <4>1, <4>2, <4>3, <4>4, MarkedOnce, Zenon
      <3>8. m2 + e = m + g
        BY <3>2, <3>4 DEF S
      <3>. HIDE DEF m, m2, a, b, sc, sc2, e, g
      <3>9. m2 + b + sc <= m + a + sc2
        BY <1>1, <1>4, <2>1, <3>2, <3>3, <3>8
      <3>. QED
        BY <3>9 DEF m, m2, a, b, sc, sc2
    <2>7. tally' = tally \/ (c.given # <<>> /\ tally' = [tally EXCEPT ![c.set] = c.given])
      BY <1>12 DEF UpdateSet
    <2>. QED
      BY <2>5, <2>6, <2>7
  <1>. QED
    BY <1>6, <1>7, <1>8, <1>10, <1>11, <1>12, QuietCalls DEF Works

\* A call of a worker keeps the balance.
LEMMA WorksPaid ==
  ASSUME BurstOK, PaidInv, NEW w \in Workers, Works(w)
  PROVE  PaidInv'
  <1>1. /\ req[w] # Idle /\ \A v \in Workers : v = w \/ req'[v] = req[v]
        /\ UNCHANGED <<postgres, overlapped>>
    BY WorksEffect DEF Works
  <1>2. \A v \in Workers : Shaped(req'[v].todo)
    <2>1. Players # {}
      BY WorkerFound, WorksEffect DEF BurstOK, RowsOK, HostKnown
    <2>2. Shaped(req'[w].todo)
      BY <2>1, WorksAhead
    <2>. QED
      BY <1>1, <2>2 DEF PaidInv
  <1>3. ReadStill'
    <2> SUFFICES ASSUME NEW v \in Workers, Doing(v, "writeScore")'
                 PROVE  (postgres /\ (~overlapped => Call(v).from = score[Call(v).who]))'
      BY DEF ReadStill
    <2>1. CASE v = w
      <3>1. Increment(w) /\ postgres
        BY <2>1, NewReader
      <3>2. PICK x \in CallRows :
              /\ x.who = Call(w).who /\ x.from = score[Call(w).who]
              /\ req'[w].todo = <<x>> \o Tail(req[w].todo) /\ RowsKept
        <4> DEFINE X == [call |-> "writeScore", who |-> Call(w).who, points |-> Call(w).points,
                         from |-> score[Call(w).who]]
        <4>1. \E x \in CallRows :
                x = X /\ req'[w].todo = <<x>> \o Tail(req[w].todo) /\ RowsKept
          BY <3>1, IncrementTodo
        <4>2. X.who = Call(w).who /\ X.from = score[Call(w).who]
          OBVIOUS
        <4>. HIDE DEF X
        <4>. QED
          BY <4>1, <4>2
      <3>3. Head(<<x>> \o Tail(req[w].todo)) = x
        BY WorksEffect
      <3>4. Call(w)' = x
        BY <3>2, <3>3 DEF Call
      <3>5. score' = score
        BY <3>2 DEF RowsKept
      <3>. QED
        BY <1>1, <2>1, <3>1, <3>2, <3>4, <3>5
    <2>2. CASE v # w
      <3>1. req'[v] = req[v]
        BY <1>1, <2>2
      <3>2. Doing(v, "writeScore")
        BY <3>1 DEF Doing
      <3>3. postgres
        BY <3>2 DEF PaidInv, ReadStill
      <3>4. req[v] # Idle
        BY <3>2 DEF Doing, Idle
      <3>5. overlapped
        BY <1>1, <2>2, <3>4 DEF BurstOK
      <3>. QED
        BY <1>1, <3>3, <3>5
    <2>. QED
      BY <2>1, <2>2
  <1>4. AllPaid'
    <2> SUFFICES ASSUME ~postgres \/ ~overlapped, NEW p \in Players
                 PROVE  MarkedPoints(DOMAIN sets', tally', p) + ComingPoints(req', p) <= score'[p]
      BY <1>1 DEF AllPaid
    <2> DEFINE m == MarkedPoints(DOMAIN sets, tally, p)
               m2 == MarkedPoints(DOMAIN sets', tally', p)
               c == ComingPoints(req, p)
               c2 == ComingPoints(req', p)
               a == Ahead(req[w].todo, p)
               b == Ahead(req'[w].todo, p)
               sc == score[p]
               sc2 == score'[p]
    <2>1. \A v \in Workers : Ahead(req[v].todo, p) \in Nat
      BY PaidTypes
    <2>2. \A v \in Workers : Ahead(req'[v].todo, p) \in Nat
      <3>1. req'[w].todo \in Seq(CallRows)
        BY WorksTyped
      <3>2. b \in Nat
        BY <1>2, <3>1, AheadNat
      <3>. QED
        BY <1>1, <2>1, <3>2
    <2>3. \A v \in Workers : v # w => req'[v] = req[v]
      BY <1>1
    <2>4. c \in Nat /\ c2 \in Nat /\ c2 + a = c + b
      <3> DEFINE f == ComingTo(req, p)
                 g == ComingTo(req', p)
      <3>1. f \in [Workers -> Nat] /\ f[w] = a /\ b \in Nat
        BY <2>1, <2>2 DEF ComingTo
      <3>2. g = [f EXCEPT ![w] = b]
        BY <2>3 DEF ComingTo
      <3>. HIDE DEF f, g, a, b
      <3>3. /\ Total(f, Workers) \in Nat /\ Total(g, Workers) \in Nat
            /\ Total(g, Workers) + f[w] = Total(f, Workers) + b
        BY <3>1, <3>2, WorkersFinite, TotalOnce
      <3>. QED
        BY <3>1, <3>3 DEF ComingPoints, f, g
    <2>5. m2 + b + sc <= m + a + sc2
      BY WorksBalance
    <2>6. m + c <= sc
      BY DEF PaidInv, AllPaid
    <2>7. m \in Nat /\ sc \in Nat
      BY PaidTypes
    <2>8. m2 \in Nat /\ sc2 \in Nat
      <3>1. sets' \in Seq(TruthSets) /\ tally' \in [DOMAIN sets' -> [Players -> Nat]]
            /\ score' \in [Players -> Nat]
        BY WorksTyped
      <3>2. IsFiniteSet(DOMAIN sets')
        BY <3>1, FS_Interval
      <3>. QED
        BY <3>1, <3>2, MarkedNat
    <2>9. a \in Nat /\ b \in Nat
      BY <2>1, <2>2
    <2>. HIDE DEF m, m2, c, c2, a, b, sc, sc2
    <2>10. m2 + c2 <= sc2
      BY <2>4, <2>5, <2>6, <2>7, <2>8, <2>9
    <2>. QED
      BY <2>10 DEF m2, c2, sc2
  <1>. QED
    BY <1>2, <1>3, <1>4 DEF PaidInv

\* A request that is served whole gives points for one set at most.
LEMMA HousedMarks ==
  ASSUME BurstOK, NEW h, Housed(h), tally' = Tallied, postgres' = postgres, NEW p \in Players
  PROVE  MarkedPoints(DOMAIN sets', tally', p) + score[p]
           <= MarkedPoints(DOMAIN sets, tally, p) + score'[p]
  <1> DEFINE S == DOMAIN sets
             m == MarkedPoints(S, tally, p)
             m2 == MarkedPoints(S, tally', p)
             sc == score[p]
             sc2 == score'[p]
  <1>1. /\ score \in [Players -> Nat] /\ tally \in [S -> [Players -> Nat]] /\ sets \in Seq(TruthSets)
        /\ S = 1..Len(sets)
    BY RowsFound DEF BurstOK
  <1>2. RowsOK' /\ score' \in [Players -> Nat]
    <2>1. RowsOK'
      BY HousedRows DEF BurstOK
    <2>. QED
      BY <2>1 DEF RowsOK, TypeOK
  <1>3. /\ DOMAIN sets' = S /\ score'[p] >= score[p]
        /\ \E a \in Nat : \A s \in S : s # a => sets'[s].scored = sets[s].scored
    <2>1. sets' = h.sets /\ h.sets \in Seq(TruthSets) /\ Len(h.sets) = Len(sets)
          /\ score' = h.score /\ h.score[p] >= score[p]
          /\ \E a \in Nat : \A s \in 1..Len(sets) : s # a => h.sets[s].scored = sets[s].scored
      BY DEF Housed, Answers, Commit, GameOK, Games, game
    <2>2. DOMAIN sets' = 1..Len(sets)
      BY <2>1
    <2>. QED
      BY <1>1, <2>1, <2>2
  <1>4. PICK a \in Nat : \A s \in S : s # a => sets'[s].scored = sets[s].scored
    BY <1>3
  <1>5. \A s \in S : tally'[s] = IF sets'[s].scored /\ ~sets[s].scored
                                   THEN [r \in Players |-> score'[r] - score[r]] ELSE tally[s]
    BY <1>3 DEF Tallied
  <1>6. tally' \in [S -> [Players -> Nat]]
    BY <1>3, TalliedTyped DEF BurstOK
  <1>7. IsFiniteSet(S)
    BY <1>1, FS_Interval
  <1>8. m \in Nat /\ m2 \in Nat /\ sc \in Nat /\ sc2 \in Nat /\ sc <= sc2
    <2>. HIDE DEF S
    <2>1. MarkedPoints(S, tally, p) \in Nat
      BY <1>1, <1>7, MarkedNat
    <2>2. MarkedPoints(S, tally', p) \in Nat
      BY <1>6, <1>7, MarkedNat
    <2>. QED
      BY <1>1, <1>2, <1>3, <2>1, <2>2
  <1>9. \A s \in S : s # a => tally'[s] = tally[s]
    BY <1>4, <1>5
  <1>10. m2 + sc <= m + sc2
    <2>1. CASE a \in S
      <3> DEFINE e == tally[a][p]
                 g == tally'[a][p]
      <3>1. e \in Nat /\ g \in Nat /\ (g = e \/ g = sc2 - sc)
        BY <1>1, <1>5, <1>6, <2>1
      <3> DEFINE f == MarkedIn(S, tally, p)
                 f2 == MarkedIn(S, tally', p)
      <3>2. f \in [S -> Nat] /\ f[a] = e
        BY <1>1, <2>1 DEF MarkedIn
      <3>3. f2 = [f EXCEPT ![a] = g]
        BY <1>9 DEF MarkedIn
      <3>. HIDE DEF f, f2, e, g, S
      <3>4. Total(f2, S) + f[a] = Total(f, S) + g
        BY <1>7, <2>1, <3>1, <3>2, <3>3, TotalOnce
      <3>5. m2 + e = m + g
        BY <3>2, <3>4 DEF MarkedPoints, f, f2
      <3>. HIDE DEF m, m2, e, g, sc, sc2
      <3>. QED
        BY <1>8, <3>1, <3>5
    <2>2. CASE a \notin S
      <3>1. tally' = tally
        BY <1>1, <1>6, <1>9, <2>2
      <3>2. m2 = m
        BY <3>1
      <3>. HIDE DEF m, m2, sc, sc2
      <3>. QED
        BY <1>8, <3>2
    <2>. QED
      BY <2>1, <2>2
  <1>11. MarkedPoints(DOMAIN sets', tally', p) = m2
    BY <1>3
  <1>. QED
    BY <1>10, <1>11

LEMMA RoomServesPaid ==
  ASSUME BurstOK, PaidInv, RoomServes
  PROVE  PaidInv'
  <1>1. PICK h : Housed(h)
    BY RoomRequestHoused DEF RoomServes, BurstOK
  <1>2. req' = req /\ postgres' = postgres /\ overlapped' = overlapped /\ tally' = Tallied
    BY DEF RoomServes
  <1>3. \A v \in Workers : Shaped(req'[v].todo)
    BY <1>2 DEF PaidInv
  <1>4. ReadStill'
    BY <1>2 DEF ReadStill, RoomServes, Quiescent, Idle, Doing
  <1>5. AllPaid'
    <2> SUFFICES ASSUME ~postgres \/ ~overlapped, NEW p \in Players
                 PROVE  MarkedPoints(DOMAIN sets', tally', p) + ComingPoints(req', p) <= score'[p]
      BY <1>2 DEF AllPaid
    <2> DEFINE m == MarkedPoints(DOMAIN sets, tally, p)
               m2 == MarkedPoints(DOMAIN sets', tally', p)
               c == ComingPoints(req, p)
               c2 == ComingPoints(req', p)
               sc == score[p]
               sc2 == score'[p]
    <2>1. m2 + sc <= m + sc2
      BY <1>1, <1>2, HousedMarks
    <2>2. m + c <= sc
      BY DEF PaidInv, AllPaid
    <2>3. c2 = c
      BY <1>2
    <2>4. m \in Nat /\ c \in Nat /\ sc \in Nat
      BY PaidTypes
    <2>5. RowsOK'
      BY <1>1, <1>2, HousedRows DEF BurstOK
    <2>6. /\ sets' \in Seq(TruthSets) /\ tally' \in [DOMAIN sets' -> [Players -> Nat]]
          /\ score' \in [Players -> Nat]
      BY <2>5 DEF RowsOK, TypeOK
    <2>7. IsFiniteSet(DOMAIN sets')
      BY <2>6, FS_Interval
    <2>8. m2 \in Nat /\ sc2 \in Nat
      BY <2>6, <2>7, MarkedNat
    <2>. HIDE DEF m, m2, c, c2, sc, sc2
    <2>9. m2 + c2 <= sc2
      BY <2>1, <2>2, <2>3, <2>4, <2>8
    <2>. QED
      BY <2>9 DEF m2, c2, sc2
  <1>. QED
    BY <1>3, <1>4, <1>5 DEF PaidInv

\* A request that arrives has nothing to pay yet.
LEMMA ReceivesPaid ==
  ASSUME BurstOK, PaidInv, NEW w \in Workers, Receives(w)
  PROVE  PaidInv'
  <1>1. /\ RowsKept /\ req[w] = Idle /\ \A v \in Workers : v = w \/ req'[v] = req[v]
        /\ postgres' = postgres /\ (overlapped' \/ Quiescent) /\ (overlapped => overlapped')
    BY ReceiveEffect, EffectFits DEF Receives
  <1>2. PICK op \in Ops : req'[w].todo = Calls(op)
    <2>1. PICK op \in Ops, p \in Players \cup {NoPlayer}, i \in 0..Len(rounds),
               x \in Statements \cup {0} : Arrive(w, op, p, i, x)
      BY DEF Receives, Receive
    <2> DEFINE r == [Idle EXCEPT !.op = op, !.who = p, !.at = i, !.statement = x,
                                 !.todo = Calls(op)]
    <2>2. Turn(w, r)
      BY <2>1 DEF Arrive
    <2>3. r.todo = Calls(op)
      BY DEF Idle
    <2>. HIDE DEF r
    <2>. QED
      BY <2>2, <2>3, TurnTodo
  <1>3. /\ Calls(op) \in Seq(CallRows) /\ Calls(op) # <<>>
        /\ \A k \in 1..Len(Calls(op)) : Calls(op)[k].call \in Asking
    BY CallsInLine
  <1>4. Scoreless(req'[w].todo) /\ ~Doing(w, "writeScore")'
    <2>1. Scoreless(Calls(op))
      BY <1>3 DEF Scoreless, Pays, Marks, Asking
    <2>2. Head(Calls(op)).call \in Asking
      BY <1>3
    <2>. QED
      BY <1>2, <2>1, <2>2 DEF Doing, Asking
  <1>5. \A v \in Workers : Shaped(req'[v].todo)
    BY <1>1, <1>4 DEF PaidInv, Shaped
  <1>6. ReadStill'
    <2> SUFFICES ASSUME NEW v \in Workers, Doing(v, "writeScore")'
                 PROVE  postgres' /\ overlapped'
      BY DEF ReadStill
    <2>1. v # w
      BY <1>4
    <2>2. Doing(v, "writeScore")
      BY <1>1, <2>1 DEF Doing
    <2>3. postgres
      BY <2>2 DEF PaidInv, ReadStill
    <2>4. ~Quiescent
      BY <2>2 DEF Quiescent, Doing, Idle
    <2>. QED
      BY <1>1, <2>3, <2>4
  <1>7. AllPaid'
    <2> SUFFICES ASSUME ~postgres \/ ~overlapped, NEW p \in Players
                 PROVE  MarkedPoints(DOMAIN sets, tally, p) + ComingPoints(req', p) <= score[p]
      BY <1>1 DEF AllPaid, RowsKept
    <2>1. Ahead(req[w].todo, p) = 0 /\ Ahead(req'[w].todo, p) = 0
      <3>1. Scoreless(<<>>) /\ req[w].todo = <<>>
        BY <1>1 DEF Scoreless, Idle
      <3>. QED
        BY <1>4, <3>1, NothingAhead
    <2>2. \A v \in Workers : Ahead(req[v].todo, p) \in Nat
      BY PaidTypes
    <2>3. \A v \in Workers : Ahead(req'[v].todo, p) \in Nat
      BY <1>1, <2>1, <2>2
    <2>4. \A v \in Workers : v # w => req'[v] = req[v]
      BY <1>1
    <2> DEFINE c == ComingPoints(req, p)
               c2 == ComingPoints(req', p)
               a == Ahead(req[w].todo, p)
               b == Ahead(req'[w].todo, p)
    <2>5. c \in Nat /\ c2 \in Nat /\ c2 + a = c + b
      <3> DEFINE f == ComingTo(req, p)
                 g == ComingTo(req', p)
      <3>1. f \in [Workers -> Nat] /\ f[w] = a /\ b \in Nat
        BY <2>2, <2>3 DEF ComingTo
      <3>2. g = [f EXCEPT ![w] = b]
        BY <2>4 DEF ComingTo
      <3>. HIDE DEF f, g, a, b
      <3>3. /\ Total(f, Workers) \in Nat /\ Total(g, Workers) \in Nat
            /\ Total(g, Workers) + f[w] = Total(f, Workers) + b
        BY <3>1, <3>2, WorkersFinite, TotalOnce
      <3>. QED
        BY <3>1, <3>3 DEF ComingPoints, f, g
    <2>6. MarkedPoints(DOMAIN sets, tally, p) + c <= score[p]
      BY DEF PaidInv, AllPaid
    <2>7. a = 0 /\ b = 0
      BY <2>1
    <2>. HIDE DEF c, c2, a, b
    <2>8. c2 = c
      BY <2>5, <2>7
    <2>. QED
      BY <2>6, <2>8 DEF c, c2
  <1>. QED
    BY <1>5, <1>6, <1>7 DEF PaidInv

LEMMA PaidStep ==
  ASSUME BurstOK, PaidInv, [SNext]_svars
  PROVE  PaidInv'
  <1>1. CASE Passing
    BY <1>1 DEF Passing, PaidInv, AllPaid, ReadStill, Doing, Call
  <1>. QED
    BY <1>1, BurstCases, RoomServesPaid, ReceivesPaid, WorksPaid

LEMMA TotalZero ==
  ASSUME NEW f, NEW S, IsFiniteSet(S), \A x \in S : f[x] = 0
  PROVE  Total(f, S) = 0
  <1> DEFINE C == {T \in SUBSET S : Total(f, T) # 0}
  <1>1. SUFFICES ASSUME C # {} PROVE FALSE
    <2>1. S \notin C => Total(f, S) = 0
      OBVIOUS
    <2>. HIDE DEF C
    <2>. QED
      BY <2>1
  <1>2. PICK T \in C : \A U \in SUBSET T : U # T => U \notin C
    <2> HIDE DEF C
    <2>1. C \subseteq SUBSET S
      BY DEF C
    <2>. QED
      BY <1>1, <2>1, SmallestSubset
  <1>3. T \in SUBSET S /\ Total(f, T) # 0 /\ IsFiniteSet(T)
    BY <1>2, FS_Subset
  <1>4. Total(f, T) = IF T = {} THEN 0 ELSE f[First(T)] + Total(f, T \ {First(T)})
    BY <1>3, TotalFirst
  <1>5. T # {}
    BY <1>3, <1>4
  <1>6. First(T) \in T
    BY <1>5 DEF First
  <1>7. Total(f, T \ {First(T)}) = 0
    BY <1>2, <1>3, <1>6
  <1>8. f[First(T)] = 0
    BY <1>3, <1>6
  <1>. QED
    BY <1>3, <1>4, <1>5, <1>7, <1>8

LEMMA PaidInit ==
  ASSUME SInit
  PROVE  PaidInv
  <1>1. /\ sets = <<>> /\ tally = <<>> /\ score = [p \in Players |-> 0]
        /\ \A w \in Workers : req[w].todo = <<>>
    BY DEF SInit, Init, Idle
  <1>2. Scoreless(<<>>)
    BY DEF Scoreless
  <1>3. \A w \in Workers : Shaped(req[w].todo) /\ ~Doing(w, "writeScore")
    BY <1>1, <1>2 DEF Shaped, Doing
  <1>4. ASSUME NEW p \in Players
        PROVE  MarkedPoints(DOMAIN sets, tally, p) + ComingPoints(req, p) <= score[p]
    <2>1. DOMAIN sets = {}
      BY <1>1
    <2>2. MarkedPoints(DOMAIN sets, tally, p) = 0
      BY <2>1, FS_EmptySet, TotalZero DEF MarkedPoints
    <2>3. \A w \in Workers : Ahead(req[w].todo, p) = 0
      BY <1>1, <1>2, NothingAhead
    <2>4. \A w \in Workers : ComingTo(req, p)[w] = 0
      BY <2>3 DEF ComingTo
    <2>5. ComingPoints(req, p) = 0
      BY <2>4, WorkersFinite, TotalZero DEF ComingPoints
    <2>6. score[p] = 0
      BY <1>1
    <2>. QED
      BY <2>2, <2>5, <2>6
  <1>. QED
    BY <1>3, <1>4 DEF PaidInv, AllPaid, ReadStill

\* The sum CountedBeforeMarked takes, as a total.
LEMMA MarkedSum ==
  ASSUME NEW p, NEW S, IsFiniteSet(S)
  PROVE  MapThenSumSet(LAMBDA s : tally[s][p], S) = Total(MarkedIn(S, tally, p), S)
  <1> DEFINE w == MarkedIn(S, tally, p)
             Q(f) == f = [T \in SUBSET S |->
                            IF T = {} THEN 0
                            ELSE tally[First(T)][p] + f[T \ {First(T)}]]
             sum == MapThenSumSet(LAMBDA s : tally[s][p], S)
  <1>1. sum = (CHOOSE f : Q(f))[S]
    BY DEF MapThenSumSet, MapThenFoldSet, First
  <1> HIDE DEF sum
  <1>2. \A s \in S : w[s] = tally[s][p]
    BY DEF MarkedIn
  <1> HIDE DEF w
  <1>3. ASSUME NEW f PROVE Q(f) <=> Adds(f, w, S)
    <2>1. \A T \in SUBSET S : T # {} => First(T) \in S
      BY DEF First
    <2>2. \A T \in SUBSET S : (IF T = {} THEN 0 ELSE w[First(T)] + f[T \ {First(T)}])
             = IF T = {} THEN 0 ELSE tally[First(T)][p] + f[T \ {First(T)}]
      BY <1>2, <2>1
    <2>. QED
      BY <2>2 DEF Adds
  <1>4. \E f : Q(f)
    BY <1>3, AddsExists
  <1> HIDE DEF Q
  <1>5. Q(CHOOSE f : Q(f))
    BY <1>4
  <1> DEFINE k == CHOOSE f : Q(f)
  <1>6. Adds(k, w, S)
    BY <1>3, <1>5
  <1> HIDE DEF k
  <1>7. Total(w, S) = k[S]
    BY <1>6, TotalAdds
  <1>8. sum = Total(w, S)
    BY <1>1, <1>7 DEF k
  <1>. QED
    BY <1>8 DEF sum, w

\* Whatever the database and however slow the requests, the points a truth set
\* has brought are in the scores by the time it is marked as scored; only
\* requests that overlap over the database may lose some.
THEOREM PointsComeBeforeMarks == SSpec => []CountedBeforeMarked
  <1>1. BurstOK /\ PaidInv => CountedBeforeMarked
    <2> SUFFICES ASSUME BurstOK, PaidInv, ~postgres \/ ~overlapped, NEW p \in Players
                 PROVE  score[p] >= MapThenSumSet(LAMBDA s : tally[s][p],
                                                  {s \in DOMAIN sets : sets[s].scored})
      BY DEF CountedBeforeMarked
    <2> DEFINE S == DOMAIN sets
               T == {s \in DOMAIN sets : sets[s].scored}
               f == MarkedIn(S, tally, p)
               g == MarkedIn(T, tally, p)
               sum == MapThenSumSet(LAMBDA s : tally[s][p], T)
    <2>1. /\ IsFiniteSet(S) /\ T \in SUBSET S /\ tally \in [S -> [Players -> Nat]]
          /\ score[p] \in Nat /\ ComingPoints(req, p) \in Nat
      BY PaidTypes
    <2>2. IsFiniteSet(T)
      BY <2>1, FS_Subset
    <2>3. \A s \in S : f[s] \in Nat
      BY <2>1 DEF MarkedIn
    <2>4. \A s \in T : g[s] = f[s]
      BY <2>1 DEF MarkedIn
    <2>5. Total(f, S) + ComingPoints(req, p) <= score[p]
      BY DEF PaidInv, AllPaid, MarkedPoints
    <2>6. sum = Total(g, T)
      <3>. HIDE DEF T
      <3>. QED
        BY <2>2, MarkedSum
    <2>. HIDE DEF S, T, f, g, sum
    <2>7. Total(g, T) = Total(f, T)
      BY <2>2, <2>4, TotalSame
    <2>8. Total(f, T) \in Nat /\ Total(f, S) \in Nat /\ Total(f, T) <= Total(f, S)
      BY <2>1, <2>3, TotalPart
    <2>9. score[p] >= sum
      <3> DEFINE a == score[p]
      <3>1. a \in Nat /\ Total(f, S) + ComingPoints(req, p) <= a
        BY <2>1, <2>5
      <3>. HIDE DEF a
      <3>2. a >= sum
        BY <2>1, <2>6, <2>7, <2>8, <3>1
      <3>. QED
        BY <3>2 DEF a
    <2>. QED
      BY <2>9 DEF sum, T
  <1>. QED
    BY <1>1, PaidInit, PaidStep, BurstInvariance, PTL DEF SSpec
==============================================================================
