------------------------- MODULE ThreeLiesSlowProofs -------------------------
(***************************************************************************)
(* What requests of three lies that do not overlap leave of the game, in   *)
(* memory, however slow they are and whatever the clock does between two   *)
(* of their calls: its rounds, its presentations and its scores are as     *)
(* exact as if every request had been served whole.                        *)
(*                                                                         *)
(* A request in the midst of its calls leaves the game in states no whole  *)
(* request does.  The invariant says that the calls still to be made lead  *)
(* back to an exact game, whatever the time they are made at.              *)
(***************************************************************************)
EXTENDS ThreeLiesPointsProofs

-----------------------------------------------------------------------------
(* Requests that do not overlap, in memory.  The calls a request has still *)
(* to make lead the game back to one that is exact: each call of the path  *)
(* writes one row, and at its end the rounds, the presentations and the    *)
(* scores are in order again.                                              *)

Exact(g) == Sound(g, HostHere) /\ Matches(g, votes)

Writes == {"updateRoom", "updateRound", "createRound", "updateSet", "createSet", "increment"}

\* The game once call c, for round i, has been made.
Applied(g, i, c) ==
  CASE c.call = "updateRoom"  -> WithStatus(g, c.status)
    [] c.call = "updateRound" -> WithRound(g, i, c.row)
    [] c.call = "createRound" -> [g EXCEPT !.rounds = Append(@, c.row)]
    [] c.call = "updateSet"   -> WithSet(g, c.set, c.row)
    [] c.call = "createSet"   -> [g EXCEPT !.sets = Append(@, c.row)]
    [] c.call = "increment"   -> [g EXCEPT !.score[c.who] = @ + c.points]

\* The sets of round i have got their places.
Placed(g, i, place) ==
  [g EXCEPT !.sets = [s \in DOMAIN g.sets |->
     IF s \in SetsOf(g, i) THEN [g.sets[s] EXCEPT !.order = place[s]] ELSE g.sets[s]]]

Places(g, i) == Bijection(SetsOf(g, i), 1..Cardinality(SetsOf(g, i)))

\* The writing of round i is over, and its sets are in order: only the round
\* has still to be written.
Arranged(g, i) ==
  \E e, place :
    /\ Exact(e) /\ i \in 1..Len(e.rounds) /\ e.rounds[i].status = "writing"
    /\ SetsOf(e, i) # {} /\ place \in Places(e, i)
    /\ g = Placed(e, i, place)

\* The first m calls of the request are writes, and lead to g.
Leads(r, m, g) ==
  \E f : /\ f[0] = game /\ f[m] = g
         /\ \A k \in 1..m :
              r.todo[k].call \in Writes /\ f[k] = Applied(f[k - 1], r.at, r.todo[k])

\* The calls that act upon the copy of the round, and those that may come after
\* a write.
Copying == {"syncRoom", "accept", "readMine", "lookUp", "firstSet"} \cup Looking
Resting == {"readRoom", "readCurrent", "readRound", "syncRoom", "accept", "firstSet"}

Fresh(r, g) == r.at \in 1..Len(g.rounds) /\ r.round = g.rounds[r.at]

\* What the request knows when its next call is c.
Ready(r, c) ==
  /\ c.call # "writeScore"
  /\ c.call \in {"listSets", "readMine"} => r.round.status = "writing"
  /\ c.call = "readClock" => c.status = room.status
  /\ c.call = "listNext" => room.status = "active"
  /\ c.call = "listVotes" => c.set = r.round.active /\ c.row = sets[c.set]
  /\ c.call = "upsert" => ~sets[c.set].scored

\* What the request leaves, when game g is the end of its first m writes.
Leaves(r, m, g) ==
  IF m = Len(r.todo) THEN Exact(g)
  ELSE LET c == r.todo[m + 1]
       IN  /\ c.call \notin Writes
           /\ IF c.call = "firstSet" THEN Arranged(g, r.at) ELSE Exact(g)
           /\ c.call \in Copying =>
                (m # 0 /\ r.todo[m].call = "createRound") \/ Fresh(r, g)
           /\ IF m = 0 THEN Ready(r, c) ELSE c.call \in Resting

Promise(r) == \E m \in 0..Len(r.todo) : \E g : Leads(r, m, g) /\ Leaves(r, m, g)

SlowInv ==
  ~postgres /\ ~overlapped =>
    /\ Quiescent => Exact(game)
    /\ \A w \in Workers : \A r : req[w] = r /\ r # Idle => Promise(r)

LEMMA RowsAreTyped ==
  ASSUME RowsOK
  PROVE  RowsTyped /\ HostKnown
  <1>1. DOMAIN sets = 1..Len(sets)
    BY RowsFound
  <1>. QED
    BY <1>1 DEF RowsOK, TypeOK, RowsTyped

LEMMA ExactGame ==
  ASSUME RowsOK, Exact(game)
  PROVE  ScoreInv /\ Inv
  BY RowsAreTyped DEF Exact, ScoreInv, Inv

\* What is exact does not depend on the clock, which only goes forward.
LEMMA ExactLasts ==
  ASSUME NEW g, Exact(g), now \in Nat, now' \in Nat, now <= now',
         user' = user, votes' = votes, room'.hostID = room.hostID
  PROVE  Exact(g)'
  <1>1. Core(g) /\ StatusSound(g, HostHere) /\ Matches(g, votes)
    BY DEF Exact, Sound
  <1>2. HostHere' = HostHere
    BY DEF HostHere
  <1>3. ASSUME NEW i \in 1..Len(g.rounds)
        PROVE  RoundSound(g, i)'
    <2>1. RoundSound(g, i) /\ g.rounds[i] \in Rounds
      BY <1>1, RowAt DEF Core
    <2>2. g.rounds[i].pausedAt \in Int
      BY <2>1 DEF Rounds, NoTime
    <2>. QED
      BY <2>1, <2>2 DEF RoundSound
  <1>4. Core(g)'
    BY <1>1, <1>3 DEF Core
  <1>5. StatusSound(g, HostHere)' /\ Matches(g, votes)'
    BY <1>1, <1>2
  <1>. QED
    BY <1>4, <1>5 DEF Exact, Sound

\* The game as a value, and as the rows it is made of.
LEMMA ExactAs ==
  ASSUME NEW g, g = game', Exact(g)'
  PROVE  Exact(game)'
  <1>1. Core(g)' /\ StatusSound(g, HostHere)' /\ Matches(g, votes)'
    BY DEF Exact, Sound
  <1>2. Core(game)'
    BY <1>1 DEF Core, RoundSound
  <1>3. StatusSound(game, HostHere)' /\ Matches(game, votes)'
    BY <1>1
  <1>. QED
    BY <1>2, <1>3 DEF Exact, Sound

LEMMA ArrangedLasts ==
  ASSUME NEW g, NEW i, Arranged(g, i), now \in Nat, now' \in Nat, now <= now',
         user' = user, votes' = votes, room'.hostID = room.hostID
  PROVE  Arranged(g, i)'
  <1>1. PICK e, place :
          /\ Exact(e) /\ i \in 1..Len(e.rounds) /\ e.rounds[i].status = "writing"
          /\ SetsOf(e, i) # {} /\ place \in Places(e, i)
          /\ g = Placed(e, i, place)
    BY DEF Arranged
  <1>2. Exact(e)'
    BY <1>1, ExactLasts
  <1>. QED
    BY <1>1, <1>2 DEF Arranged

LEMMA PromiseLasts ==
  ASSUME NEW r, Promise(r), now \in Nat, now' \in Nat, now <= now',
         UNCHANGED <<room, user, rounds, sets, votes, score>>
  PROVE  Promise(r)'
  <1>1. PICK m \in 0..Len(r.todo) : \E g : Leads(r, m, g) /\ Leaves(r, m, g)
    BY DEF Promise
  <1>2. PICK g : Leads(r, m, g) /\ Leaves(r, m, g)
    BY <1>1
  <1>3. Leads(r, m, g)'
    <2>1. game' = game
      BY DEF game
    <2>. QED
      BY <1>2, <2>1 DEF Leads
  <1>4. Leaves(r, m, g)'
    <2>1. Exact(g) => Exact(g)'
      BY ExactLasts
    <2>2. Arranged(g, r.at) => Arranged(g, r.at)'
      BY ArrangedLasts
    <2>3. CASE m = Len(r.todo)
      BY <1>2, <2>1, <2>3 DEF Leaves
    <2>4. CASE m # Len(r.todo)
      <3>1. Ready(r, r.todo[m + 1]) => Ready(r, r.todo[m + 1])'
        BY DEF Ready
      <3>. QED
        BY <1>2, <2>1, <2>2, <2>4, <3>1 DEF Leaves
    <2>. QED
      BY <2>3, <2>4
  <1>. QED
    BY <1>3, <1>4 DEF Promise

\* The one request in flight goes on as r, or is over.
LEMMA SlowTurn ==
  ASSUME BurstOK, ~overlapped, NEW w \in Workers, req[w] # Idle,
         NEW r, Turn(w, r), Promise(r)'
  PROVE  SlowInv'
  <1>1. \A v \in Workers : v # w => req'[v] = Idle
    BY DEF BurstOK, Turn
  <1>2. req'[w] = IF r.todo = <<>> THEN Idle ELSE r
    BY DEF BurstOK, Turn
  <1>3. CASE r.todo = <<>>
    <2>1. Len(r.todo) = 0
      BY <1>3
    <2>2. PICK m \in 0..Len(r.todo) : \E g : Leads(r, m, g)' /\ Leaves(r, m, g)'
      BY DEF Promise
    <2>3. PICK g : Leads(r, m, g)' /\ Leaves(r, m, g)'
      BY <2>2
    <2>4. m = 0 /\ g = game'
      BY <2>1, <2>2, <2>3 DEF Leads
    <2>5. Exact(g)'
      BY <2>1, <2>3, <2>4 DEF Leaves
    <2>6. Exact(game)'
      BY <2>4, <2>5, ExactAs
    <2>7. \A v \in Workers : req'[v] = Idle
      BY <1>1, <1>2, <1>3
    <2>. QED
      BY <2>6, <2>7 DEF SlowInv
  <1>4. CASE r.todo # <<>>
    <2>1. r # Idle
      BY <1>4, IdleRequest
    <2>2. ~Quiescent'
      BY <1>2, <1>4, <2>1 DEF Quiescent
    <2>. QED
      BY <1>1, <1>2, <1>4, <2>2 DEF SlowInv
  <1>. QED
    BY <1>3, <1>4

LEMMA BusyPromise ==
  ASSUME SlowInv, ~postgres, ~overlapped, NEW w \in Workers, NEW r, req[w] = r, r # Idle
  PROVE  Promise(r)
  BY DEF SlowInv

\* A write takes the first step of the path.
LEMMA WriteShifts ==
  ASSUME NEW r \in Requests, NEW t \in Requests, Promise(r),
         r.todo # <<>>, InLine(r.todo), r.todo[1].call \in Writes, t.todo = Tail(r.todo),
         game' = Applied(game, r.at, r.todo[1]),
         now' = now, now \in Nat, user' = user, votes' = votes, room'.hostID = room.hostID,
         r.todo[1].call # "createRound" => t.at = r.at /\ t.round = r.round,
         r.todo[1].call = "createRound" => Fresh(t, Applied(game, r.at, r.todo[1]))
  PROVE  Promise(t)'
  <1> DEFINE q == r.todo
  <1>1. q \in Seq(CallRows) /\ t.todo \in Seq(CallRows) /\ Len(t.todo) = Len(q) - 1
        /\ Len(q) \in Nat \ {0} /\ \A k \in 1..(Len(q) - 1) : t.todo[k] = q[k + 1]
    <2>1. q \in Seq(CallRows)
      BY RequestFields
    <2>. QED
      BY <2>1, TailCalls
  <1>2. PICK m \in 0..Len(q) : \E h : Leads(r, m, h) /\ Leaves(r, m, h)
    BY DEF Promise
  <1>3. PICK h : Leads(r, m, h) /\ Leaves(r, m, h)
    BY <1>2
  <1>4. m # 0
    BY <1>1, <1>3 DEF Leaves
  <1>5. PICK f : /\ f[0] = game /\ f[m] = h
                 /\ \A k \in 1..m :
                      q[k].call \in Writes /\ f[k] = Applied(f[k - 1], r.at, q[k])
    BY <1>3 DEF Leads
  <1> DEFINE n == m - 1
             g == [k \in 0..n |-> f[k + 1]]
  <1>6. n \in Nat /\ m = n + 1 /\ n \in 0..Len(t.todo) /\ (n = Len(t.todo) <=> m = Len(q))
    BY <1>1, <1>2, <1>4
  <1>7. g[0] = game' /\ g[n] = h /\ (m = 1 => h = game')
    <2>1. 1 \in 1..m /\ f[1] = Applied(f[1 - 1], r.at, q[1])
      BY <1>5, <1>6
    <2>. QED
      BY <1>5, <1>6, <2>1
  <1>8. q[1].call = "createRound" => m = 1
    <2> SUFFICES ASSUME q[1].call = "createRound", m # 1 PROVE FALSE
      OBVIOUS
    <2>1. 2 \in 1..Len(q) /\ 2 \in 1..m /\ 1 \in 1..Len(q)
      BY <1>1, <1>2, <1>4
    <2>2. q[2].call \in Asking
      BY <1>1, <2>1, OnlyAsking DEF Openings
    <2>. QED
      BY <1>5, <2>1, <2>2 DEF Asking, Writes
  <1>9. ASSUME NEW k \in 1..n
        PROVE  t.todo[k].call \in Writes /\ g[k] = Applied(g[k - 1], t.at, t.todo[k])
    <2>1. k + 1 \in 1..m /\ k \in 1..(Len(q) - 1) /\ (k + 1) - 1 = k /\ (k - 1) + 1 = k
          /\ k \in 0..n /\ k - 1 \in 0..n
      <3>1. n \in Nat /\ m = n + 1 /\ m \in 0..Len(q) /\ Len(q) \in Nat
        BY <1>1, <1>2, <1>6
      <3>. HIDE DEF n, q
      <3>2. k \in Nat /\ 1 <= k /\ k <= n /\ m <= Len(q)
        BY <3>1
      <3>. QED
        BY <3>1, <3>2
    <2>2. m # 1
      BY <1>6
    <2>3. t.at = r.at /\ t.todo[k] = q[k + 1]
      BY <1>1, <1>8, <2>1, <2>2
    <2>4. f[k + 1] = Applied(f[k], r.at, q[k + 1]) /\ q[k + 1].call \in Writes
      BY <1>5, <2>1
    <2>5. g[k] = f[k + 1] /\ g[k - 1] = f[k]
      BY <2>1
    <2>. QED
      BY <2>3, <2>4, <2>5
  <1>10. Leads(t, n, h)'
    BY <1>7, <1>9 DEF Leads
  <1>11. Exact(h) => Exact(h)'
    BY ExactLasts
  <1>12. Arranged(h, r.at) => Arranged(h, r.at)'
    BY ArrangedLasts
  <1>. HIDE DEF g
  <1>13. ASSUME m = Len(q) PROVE Leaves(t, n, h)'
    BY <1>3, <1>6, <1>7, <1>11, <1>13 DEF Leaves
  <1>14. ASSUME m # Len(q) PROVE Leaves(t, n, h)'
    <2> DEFINE c == q[m + 1]
    <2>1. /\ c.call \notin Writes
          /\ IF c.call = "firstSet" THEN Arranged(h, r.at) ELSE Exact(h)
          /\ c.call \in Copying => q[m].call = "createRound" \/ Fresh(r, h)
          /\ c.call \in Resting
      BY <1>3, <1>4, <1>14 DEF Leaves
    <2>2. t.todo[n + 1] = c /\ (n # 0 => t.todo[n] = q[m])
      BY <1>1, <1>2, <1>6, <1>14
    <2>3. c.call \in Copying => (n # 0 /\ t.todo[n].call = "createRound") \/ Fresh(t, h)
      <3>1. CASE q[1].call = "createRound"
        BY <1>7, <1>8, <3>1
      <3>2. CASE q[1].call # "createRound"
        BY <1>6, <2>1, <2>2, <3>2 DEF Fresh
      <3>. QED
        BY <3>1, <3>2
    <2>4. c.call = "firstSet" => t.at = r.at
      <3>1. q[1].call # "createRound" \/ c.call # "firstSet"
        <4>1. m + 1 \in 1..Len(q) /\ 1 \in 1..Len(q) /\ 1 < m + 1
          BY <1>1, <1>2, <1>6, <1>14
        <4>2. q[1].call = "createRound" => q[m + 1].call \in Asking
          BY <1>1, <4>1, OnlyAsking DEF Openings
        <4>. QED
          BY <4>2 DEF Asking
      <3>. QED
        BY <3>1
    <2>5. IF c.call = "firstSet" THEN Arranged(h, t.at)' ELSE Exact(h)'
      <3>1. CASE c.call = "firstSet"
        <4>1. Arranged(h, t.at)
          BY <2>1, <2>4, <3>1
        <4>. QED
          BY <3>1, <4>1, ArrangedLasts
      <3>2. CASE c.call # "firstSet"
        BY <1>11, <2>1, <3>2
      <3>. QED
        BY <3>1, <3>2
    <2>6. Ready(t, c)'
      BY <2>1 DEF Ready, Resting
    <2>. HIDE DEF c
    <2>. QED
      BY <1>6, <1>7, <1>14, <2>1, <2>2, <2>3, <2>5, <2>6 DEF Leaves
  <1>15. Leaves(t, n, h)'
    BY <1>7, <1>13, <1>14
  <1>. QED
    BY <1>6, <1>10, <1>15 DEF Promise

-----------------------------------------------------------------------------
(* The calls that write.                                                   *)

\* Alone: in memory, and with no other request in flight.
Alone == BurstOK /\ SlowInv /\ ~postgres /\ ~overlapped

LEMMA AloneFound ==
  ASSUME Alone, NEW w \in Workers, req[w].todo # <<>>
  PROVE  /\ BurstOK /\ RowsOK /\ RowsTyped /\ ~overlapped /\ ~postgres /\ req[w] # Idle
         /\ req[w] \in Requests /\ Promise(req[w])
         /\ req[w].todo \in Seq(CallRows) /\ InLine(req[w].todo)
         /\ Call(w) = req[w].todo[1] /\ Call(w) \in CallRows
         /\ FitsBusy(req[w], now, rounds, sets)
         /\ now \in Nat /\ Len(rounds) \in Nat /\ rounds \in Seq(Rounds)
         /\ Len(sets) \in Nat /\ sets \in Seq(TruthSets)
         /\ DOMAIN rounds = 1..Len(rounds) /\ DOMAIN sets = 1..Len(sets)
         /\ game.room = room /\ game.rounds = rounds /\ game.sets = sets /\ game.score = score
  <1>1. BurstOK /\ SlowInv /\ ~postgres /\ ~overlapped
    BY DEF Alone
  <1>2. /\ FitsBusy(req[w], now, rounds, sets) /\ req[w] \in Requests /\ req[w] # Idle
        /\ req[w].todo \in Seq(CallRows) /\ Call(w) = req[w].todo[1] /\ Call(w) \in CallRows
        /\ now \in Nat /\ Len(rounds) \in Nat /\ rounds \in Seq(Rounds)
        /\ Len(sets) \in Nat /\ sets \in Seq(TruthSets)
        /\ DOMAIN rounds = 1..Len(rounds) /\ DOMAIN sets = 1..Len(sets)
    BY <1>1, WorkerFound
  <1>3. Promise(req[w])
    BY <1>1, <1>2, BusyPromise
  <1>4. InLine(req[w].todo)
    BY <1>2 DEF FitsBusy
  <1>5. RowsOK /\ RowsTyped
    BY <1>1, RowsAreTyped DEF BurstOK
  <1>. QED
    BY <1>1, <1>2, <1>3, <1>4, <1>5 DEF game

\* The room keeps its host.
RestKept == now' = now /\ user' = user /\ votes' = votes /\ room'.hostID = room.hostID

LEMMA WriteGoesOn ==
  ASSUME Alone, NEW w \in Workers, req[w].todo # <<>>, Call(w).call \in Writes,
         Call(w).call # "createRound", Continue(w), RestKept,
         game' = Applied(game, req[w].at, Call(w))
  PROVE  SlowInv'
  <1>1. PICK r : r = req[w]
    OBVIOUS
  <1>2. PICK t : t = [r EXCEPT !.todo = <<>> \o Tail(@)]
    OBVIOUS
  <1>3. /\ BurstOK /\ ~overlapped /\ r \in Requests /\ r.todo \in Seq(CallRows) /\ InLine(r.todo)
        /\ Promise(r) /\ Call(w) = r.todo[1] /\ r.todo # <<>> /\ now \in Nat /\ req[w] # Idle
    BY <1>1, AloneFound
  <1>4. Tail(r.todo) \in Seq(CallRows) /\ <<>> \o Tail(r.todo) = Tail(r.todo)
    BY <1>3, TailCalls, EmptyFront
  <1>5. t \in Requests /\ t.todo = Tail(r.todo) /\ t.at = r.at /\ t.round = r.round
    BY <1>2, <1>3, <1>4 DEF Requests
  <1>6. Turn(w, t)
    BY <1>1, <1>2, <1>3 DEF Continue, Before
  <1>7. game' = Applied(game, r.at, r.todo[1]) /\ r.todo[1].call \in Writes
        /\ r.todo[1].call # "createRound"
    BY <1>1, <1>3
  <1>8. Promise(t)'
    BY <1>3, <1>5, <1>7, WriteShifts DEF RestKept
  <1>. QED
    BY <1>3, <1>6, <1>8, SlowTurn

LEMMA UpdateRoomSlow ==
  ASSUME Alone, NEW w \in Workers, UpdateRoom(w), now' = now
  PROVE  SlowInv'
  <1>1. req[w].todo # <<>> /\ Call(w).call = "updateRoom" /\ Continue(w)
    BY DEF UpdateRoom, Doing, Call
  <1>2. room \in Rooms
    BY <1>1, AloneFound, RowsFound
  <1>3. game' = Applied(game, req[w].at, Call(w)) /\ RestKept
    BY <1>1, <1>2 DEF UpdateRoom, Applied, WithStatus, game, RestKept, Rooms
  <1>. QED
    BY <1>1, <1>3, WriteGoesOn DEF Writes

LEMMA UpdateRoundSlow ==
  ASSUME Alone, NEW w \in Workers, UpdateRound(w), now' = now
  PROVE  SlowInv'
  <1>1. req[w].todo # <<>> /\ Call(w).call = "updateRound" /\ Continue(w)
    BY DEF UpdateRound, Doing, Call
  <1>2. game' = Applied(game, req[w].at, Call(w)) /\ RestKept
    BY <1>1 DEF UpdateRound, Applied, WithRound, game, RestKept
  <1>. QED
    BY <1>1, <1>2, WriteGoesOn DEF Writes

LEMMA UpdateSetSlow ==
  ASSUME Alone, NEW w \in Workers, UpdateSet(w), now' = now
  PROVE  SlowInv'
  <1>1. req[w].todo # <<>> /\ Call(w).call = "updateSet" /\ Continue(w)
    BY DEF UpdateSet, Doing, Call, Alone
  <1>2. game' = Applied(game, req[w].at, Call(w)) /\ RestKept
    BY <1>1 DEF UpdateSet, Applied, WithSet, game, RestKept, Alone
  <1>. QED
    BY <1>1, <1>2, WriteGoesOn DEF Writes

LEMMA CreateSetSlow ==
  ASSUME Alone, NEW w \in Workers, CreateSet(w), now' = now
  PROVE  SlowInv'
  <1>1. req[w].todo # <<>> /\ Call(w).call = "createSet"
    BY DEF CreateSet, Doing, Call
  <1>2. ~AuthorTaken(Call(w).row) /\ OrderFree(game, Call(w).row.order)
    BY DEF Alone, AuthorTaken, OrderFree
  <1>3. Continue(w) /\ sets' = Append(sets, Call(w).row)
    BY <1>2 DEF CreateSet
  <1>4. game' = Applied(game, req[w].at, Call(w)) /\ RestKept
    BY <1>1, <1>3 DEF CreateSet, Applied, game, RestKept
  <1>. QED
    BY <1>1, <1>3, <1>4, WriteGoesOn DEF Writes

LEMMA IncrementSlow ==
  ASSUME Alone, NEW w \in Workers, Increment(w), now' = now
  PROVE  SlowInv'
  <1>1. req[w].todo # <<>> /\ Call(w).call = "increment" /\ Continue(w)
    BY DEF Increment, Doing, Call, Alone
  <1>2. PICK c : c = Call(w)
    OBVIOUS
  <1>3. /\ score' = [score EXCEPT ![c.who] = @ + c.points]
        /\ UNCHANGED <<room, user, rounds, sets, votes>>
    BY <1>2 DEF Increment, Alone
  <1>4. c.call = "increment"
    BY <1>1, <1>2
  <1>5. Applied(game, req[w].at, c) = [game EXCEPT !.score = [score EXCEPT ![c.who] = @ + c.points]]
    BY <1>4 DEF Applied, game
  <1>6. game' = Applied(game, req[w].at, Call(w)) /\ RestKept
    BY <1>2, <1>3, <1>5 DEF game, RestKept
  <1>. QED
    BY <1>1, <1>6, WriteGoesOn DEF Writes

\* No request is about to write a score it has read: that is the database.
LEMMA WriteScoreSlow ==
  ASSUME Alone, NEW w \in Workers, WriteScore(w)
  PROVE  FALSE
  <1>1. req[w].todo # <<>> /\ Call(w).call = "writeScore"
    BY DEF WriteScore, Doing, Call
  <1>2. PICK r : r = req[w]
    OBVIOUS
  <1>3. Promise(r) /\ r.todo \in Seq(CallRows) /\ r.todo[1].call = "writeScore"
    BY <1>1, <1>2, AloneFound
  <1>4. PICK m \in 0..Len(r.todo) : \E g : Leads(r, m, g) /\ Leaves(r, m, g)
    BY <1>3 DEF Promise
  <1>5. PICK g : Leads(r, m, g) /\ Leaves(r, m, g)
    BY <1>4
  <1>6. m # 0 => r.todo[1].call \in Writes
    BY <1>4, <1>5 DEF Leads
  <1>7. m = 0
    BY <1>3, <1>6 DEF Writes
  <1>8. m # Len(r.todo)
    BY <1>1, <1>2, <1>3, <1>7
  <1>. QED
    BY <1>3, <1>5, <1>7, <1>8 DEF Leaves, Ready

LEMMA CreateRoundSlow ==
  ASSUME Alone, NEW w \in Workers, CreateRound(w), now' = now
  PROVE  SlowInv'
  <1>1. req[w].todo # <<>> /\ Call(w).call = "createRound"
        /\ Before(w, <<>>, [req[w] EXCEPT !.at = Len(rounds) + 1, !.round = Call(w).row])
    BY DEF CreateRound, Doing, Call
  <1>2. PICK r : r = req[w]
    OBVIOUS
  <1>3. /\ BurstOK /\ ~overlapped /\ r \in Requests /\ r.todo \in Seq(CallRows) /\ InLine(r.todo)
        /\ Promise(r) /\ Call(w) = r.todo[1] /\ r.todo # <<>> /\ now \in Nat /\ req[w] # Idle
        /\ r.todo[1] \in CallRows /\ rounds \in Seq(Rounds) /\ Len(rounds) \in Nat
        /\ game.rounds = rounds
    BY <1>1, <1>2, AloneFound
  <1>4. PICK u : u = [r EXCEPT !.at = Len(rounds) + 1, !.round = r.todo[1].row]
    OBVIOUS
  <1>5. PICK t : t = [u EXCEPT !.todo = <<>> \o Tail(@)]
    OBVIOUS
  <1>6. Tail(r.todo) \in Seq(CallRows) /\ <<>> \o Tail(r.todo) = Tail(r.todo)
    BY <1>3, TailCalls, EmptyFront
  <1>7. r.todo[1].row \in Rounds /\ Len(rounds) + 1 \in Nat /\ r.todo[1].call = "createRound"
    BY <1>1, <1>3, CallFields
  <1>8. /\ u.todo = r.todo /\ u.at = Len(rounds) + 1 /\ u.round = r.todo[1].row
        /\ u \in Requests
    BY <1>3, <1>4, <1>7 DEF Requests
  <1>9. /\ t \in Requests /\ t.todo = Tail(r.todo)
        /\ t.at = Len(rounds) + 1 /\ t.round = r.todo[1].row
    BY <1>5, <1>6, <1>8 DEF Requests
  <1>10. Turn(w, t)
    BY <1>1, <1>2, <1>3, <1>4, <1>5 DEF Before
  <1>11. game' = Applied(game, r.at, r.todo[1]) /\ RestKept
    BY <1>1, <1>3, <1>7 DEF CreateRound, Applied, game, RestKept
  <1>12. Fresh(t, Applied(game, r.at, r.todo[1]))
    <2>1. Applied(game, r.at, r.todo[1]).rounds = Append(rounds, r.todo[1].row)
      BY <1>3, <1>7 DEF Applied, game
    <2>. QED
      BY <1>3, <1>7, <1>9, <2>1, AppendRow DEF Fresh
  <1>13. Promise(t)'
    BY <1>3, <1>7, <1>9, <1>11, <1>12, WriteShifts DEF RestKept, Writes
  <1>. QED
    BY <1>3, <1>10, <1>13, SlowTurn

-----------------------------------------------------------------------------
(* The calls that read.                                                    *)

LEMMA ReadGoesOn ==
  ASSUME Alone, NEW w \in Workers, req[w].todo # <<>>, RowsKept, now' = now,
         NEW t, Turn(w, t), Promise(t)
  PROVE  SlowInv'
  <1>1. BurstOK /\ ~overlapped /\ req[w] # Idle /\ now \in Nat
    BY AloneFound
  <1>2. now' \in Nat /\ now <= now'
    BY <1>1
  <1>3. UNCHANGED <<room, user, rounds, sets, votes, score>>
    BY DEF RowsKept
  <1>4. Promise(t)'
    BY <1>1, <1>2, <1>3, PromiseLasts
  <1>. QED
    BY <1>1, <1>4, SlowTurn

\* A request that is not writing finds the game at rest.
LEMMA ReadsAtRest ==
  ASSUME NEW r \in Requests, Promise(r), r.todo # <<>>, r.todo[1].call \notin Writes
  PROVE  /\ IF r.todo[1].call = "firstSet" THEN Arranged(game, r.at) ELSE Exact(game)
         /\ r.todo[1].call \in Copying => Fresh(r, game)
         /\ Ready(r, r.todo[1])
  <1>1. r.todo \in Seq(CallRows) /\ Len(r.todo) \in Nat \ {0}
    <2>1. r.todo \in Seq(CallRows)
      BY RequestFields
    <2>. QED
      BY <2>1, TailCalls
  <1>2. PICK m \in 0..Len(r.todo) : \E g : Leads(r, m, g) /\ Leaves(r, m, g)
    BY DEF Promise
  <1>3. PICK g : Leads(r, m, g) /\ Leaves(r, m, g)
    BY <1>2
  <1>4. m = 0
    <2>1. m # 0 => 1 \in 1..m
      BY <1>2
    <2>. QED
      BY <1>3, <2>1 DEF Leads
  <1>5. g = game
    BY <1>3, <1>4 DEF Leads
  <1>. QED
    BY <1>1, <1>3, <1>4, <1>5 DEF Leaves

LEMMA RestPromise ==
  ASSUME NEW t \in Requests, Exact(game),
         t.todo # <<>> =>
           /\ t.todo[1].call \notin Writes \cup {"firstSet"}
           /\ t.todo[1].call \in Copying => Fresh(t, game)
           /\ Ready(t, t.todo[1])
  PROVE  Promise(t)
  <1>1. t.todo \in Seq(CallRows) /\ Len(t.todo) \in Nat /\ (t.todo = <<>> <=> Len(t.todo) = 0)
    <2>1. t.todo \in Seq(CallRows)
      BY RequestFields
    <2>. QED
      BY <2>1
  <1>2. Leads(t, 0, game)
    <2> DEFINE f == [k \in {0} |-> game]
    <2>1. f[0] = game /\ \A k \in 1..0 : FALSE
      OBVIOUS
    <2>. HIDE DEF f
    <2>. QED
      BY <2>1 DEF Leads
  <1>3. Leaves(t, 0, game)
    BY <1>1 DEF Leaves
  <1>4. 0 \in 0..Len(t.todo)
    BY <1>1
  <1>. QED
    BY <1>2, <1>3, <1>4 DEF Promise

LEMMA EndSlow ==
  ASSUME Alone, NEW w \in Workers, req[w].todo # <<>>, RowsKept, now' = now,
         Exact(game), End(w)
  PROVE  SlowInv'
  <1>1. PICK t : t = [req[w] EXCEPT !.todo = <<>>]
    OBVIOUS
  <1>2. req[w] \in Requests
    BY AloneFound
  <1>3. t \in Requests /\ t.todo = <<>> /\ Turn(w, t)
    <2>1. <<>> \in Seq(CallRows)
      OBVIOUS
    <2>2. t \in Requests /\ t.todo = <<>>
      BY <1>1, <1>2, <2>1 DEF Requests
    <2>3. Turn(w, t)
      BY <1>1 DEF End
    <2>. QED
      BY <2>2, <2>3
  <1>4. Promise(t)
    BY <1>3, RestPromise
  <1>. QED
    BY <1>3, <1>4, ReadGoesOn

\* What comes after a call that reads, accept aside.
LEMMA RestOfLine ==
  ASSUME NEW q \in Seq(CallRows), q # <<>>, InLine(q),
         q[1].call \in (Asking \ {"accept"}) \cup Looking \cup {"firstSet"}
  PROVE  /\ Tail(q) \in Seq(CallRows) /\ Len(q) \in Nat \ {0} /\ Len(Tail(q)) = Len(q) - 1
         /\ Tail(q) # <<>> => Len(q) >= 2 /\ Tail(q)[1] = q[2]
         /\ Len(q) >= 2 => q[2].call \in Resting \ {"firstSet"}
         /\ Len(q) >= 2 /\ q[1].call = "readRoom" => q[2].call = "readCurrent"
  <1>1. /\ Tail(q) \in Seq(CallRows) /\ Len(q) \in Nat \ {0} /\ Len(Tail(q)) = Len(q) - 1
        /\ \A k \in 1..(Len(q) - 1) : Tail(q)[k] = q[k + 1]
    BY TailCalls
  <1>2. Tail(q) # <<>> => Len(q) >= 2 /\ Tail(q)[1] = q[2]
    <2>1. Tail(q) # <<>> => Len(Tail(q)) # 0
      BY <1>1
    <2>2. Len(q) >= 2 => 1 \in 1..(Len(q) - 1)
      BY <1>1
    <2>. QED
      BY <1>1, <2>1, <2>2
  <1>3. ASSUME Len(q) >= 2
        PROVE  /\ q[2].call \in Resting \ {"firstSet"}
               /\ q[1].call = "readRoom" => q[2].call = "readCurrent"
    <2>1. 1 \in 1..(Len(q) - 1) /\ 1 \in 1..Len(q) /\ 2 \in 1..Len(q)
      BY <1>1, <1>3
    <2>2. MayFollow(q[1], q[2])
      <3>1. MayFollow(q[1], q[1 + 1]) /\ 1 + 1 = 2
        BY <2>1 DEF InLine
      <3>. QED
        BY <3>1
    <2>3. q[2].call \in Asking /\ q[1].call # "accept"
      <3>1. q[1].call \in Openings /\ q[1].call # "accept"
        BY DEF Openings, Asking, Looking
      <3>. QED
        BY <2>1, <3>1, OnlyAsking
    <2>4. q[2].call \notin {"readMine", "lookUp"}
      BY <2>2, <2>3 DEF MayFollow
    <2>5. q[1].call = "readRoom" => q[2].call = "readCurrent"
      BY <2>2 DEF MayFollow
    <2>. QED
      BY <2>3, <2>4, <2>5 DEF Asking, Resting
  <1>. QED
    BY <1>1, <1>2, <1>3

\* A call that has only read the rest of the request needs a fresh copy.
LEMMA RestGoesOn ==
  ASSUME Alone, NEW w \in Workers, req[w].todo # <<>>, RowsKept, now' = now, Exact(game),
         Call(w).call \in (Asking \ {"accept"}) \cup Looking,
         NEW r \in Requests, r.todo = req[w].todo,
         Call(w).call # "readRoom" => Fresh(r, game),
         Before(w, <<>>, r)
  PROVE  SlowInv'
  <1>1. PICK q : q = req[w].todo
    OBVIOUS
  <1>2. /\ q \in Seq(CallRows) /\ InLine(q) /\ q # <<>> /\ q[1] = Call(w)
    BY <1>1, AloneFound
  <1>3. /\ Tail(q) \in Seq(CallRows)
        /\ Tail(q) # <<>> => Tail(q)[1].call \in Resting \ {"firstSet"}
        /\ Tail(q) # <<>> /\ Call(w).call = "readRoom" => Tail(q)[1].call = "readCurrent"
    BY <1>2, RestOfLine
  <1>4. PICK t : t = [r EXCEPT !.todo = <<>> \o Tail(@)]
    OBVIOUS
  <1>5. <<>> \o Tail(q) = Tail(q)
    BY <1>3, EmptyFront
  <1>6. t \in Requests /\ t.todo = Tail(q) /\ t.at = r.at /\ t.round = r.round
    BY <1>1, <1>3, <1>4, <1>5 DEF Requests
  <1>7. Turn(w, t)
    BY <1>4 DEF Before
  <1>8. ASSUME t.todo # <<>>
        PROVE  /\ t.todo[1].call \notin Writes \cup {"firstSet"}
               /\ t.todo[1].call \in Copying => Fresh(t, game)
               /\ Ready(t, t.todo[1])
    <2>1. t.todo[1].call \in Resting \ {"firstSet"}
      BY <1>3, <1>6, <1>8
    <2>2. t.todo[1].call \in Copying => Call(w).call # "readRoom"
      BY <1>3, <1>6, <1>8 DEF Copying, Looking
    <2>. QED
      BY <1>6, <2>1, <2>2 DEF Resting, Writes, Fresh, Ready
  <1>9. Promise(t)
    BY <1>6, <1>8, RestPromise
  <1>. QED
    BY <1>7, <1>9, ReadGoesOn

LEMMA ReadHead ==
  ASSUME Alone, NEW w \in Workers, NEW call, Doing(w, call), call \in Asking \cup Looking
  PROVE  /\ req[w].todo # <<>> /\ Call(w).call = call /\ req[w] \in Requests
         /\ Exact(game) /\ Ready(req[w], Call(w))
         /\ call \in Copying => Fresh(req[w], game)
  <1>1. req[w].todo # <<>> /\ Call(w).call = call
    BY DEF Doing, Call
  <1>2. req[w] \in Requests /\ Promise(req[w]) /\ Call(w) = req[w].todo[1]
    BY <1>1, AloneFound
  <1>3. call \notin Writes /\ call # "firstSet"
    BY DEF Asking, Looking, Writes
  <1>. QED
    BY <1>1, <1>2, <1>3, ReadsAtRest

LEMMA ReadCurrentSlow ==
  ASSUME Alone, NEW w \in Workers, ReadCurrent(w), now' = now
  PROVE  SlowInv'
  <1>1. Doing(w, "readCurrent") /\ RowsKept
    BY DEF ReadCurrent
  <1>2. req[w].todo # <<>> /\ Call(w).call = "readCurrent" /\ req[w] \in Requests /\ Exact(game)
    BY <1>1, ReadHead DEF Asking
  <1>3. CASE rounds = <<>>
    BY <1>1, <1>2, <1>3, EndSlow DEF ReadCurrent
  <1>4. CASE rounds # <<>>
    <2>1. PICK r : r = [req[w] EXCEPT !.at = Latest, !.round = rounds[Latest]]
      OBVIOUS
    <2>2. RowsOK /\ rounds \in Seq(Rounds) /\ DOMAIN rounds = 1..Len(rounds) /\ game.rounds = rounds
      BY <1>2, AloneFound
    <2>3. Latest \in 1..Len(rounds) /\ Latest \in Nat /\ rounds[Latest] \in Rounds
      BY <1>4, <2>2, LatestFound
    <2>4. r \in Requests /\ r.todo = req[w].todo /\ Fresh(r, game)
      BY <1>2, <2>1, <2>2, <2>3 DEF Requests, Fresh
    <2>5. Before(w, <<>>, r)
      BY <1>4, <2>1 DEF ReadCurrent
    <2>. QED
      BY <1>1, <1>2, <2>4, <2>5, RestGoesOn DEF Asking
  <1>. QED
    BY <1>3, <1>4

LEMMA ReadRoundSlow ==
  ASSUME Alone, NEW w \in Workers, ReadRoundRow(w), now' = now
  PROVE  SlowInv'
  <1>1. Doing(w, "readRound") /\ RowsKept
    BY DEF ReadRoundRow
  <1>2. req[w].todo # <<>> /\ Call(w).call = "readRound" /\ req[w] \in Requests /\ Exact(game)
    BY <1>1, ReadHead DEF Asking
  <1>3. PICK r : r = [req[w] EXCEPT !.round = rounds[req[w].at]]
    OBVIOUS
  <1>4. /\ FitsBusy(req[w], now, rounds, sets) /\ rounds \in Seq(Rounds)
        /\ DOMAIN rounds = 1..Len(rounds) /\ game.rounds = rounds
        /\ Call(w) = req[w].todo[1]
    BY <1>2, AloneFound
  <1>5. req[w].at \in 1..Len(rounds)
    <2>1. req[w].op \in {"write", "vote"}
      <3>1. FitsCall(Call(w), req[w], rounds, sets)
        BY <1>2, WorkerFound DEF Alone
      <3>. QED
        BY <1>2, <3>1 DEF FitsCall
    <2>. QED
      BY <1>4, <2>1 DEF FitsBusy
  <1>6. rounds[req[w].at] \in Rounds
    BY <1>4, <1>5
  <1>7. r \in Requests /\ r.todo = req[w].todo /\ Fresh(r, game)
    BY <1>2, <1>3, <1>4, <1>5, <1>6 DEF Requests, Fresh
  <1>8. Before(w, <<>>, r)
    BY <1>3 DEF ReadRoundRow
  <1>. QED
    BY <1>1, <1>2, <1>7, <1>8, RestGoesOn DEF Asking

\* The writes are the first of the calls that are left.
LEMMA WritesPromise ==
  ASSUME NEW t \in Requests, NEW front \in Seq(CallRows), NEW rest \in Seq(CallRows),
         t.todo = front \o rest, front # <<>>,
         rest # <<>> => rest[1].call \in Resting \ {"firstSet"},
         NEW f, f[0] = game,
         \A k \in 1..Len(front) :
           front[k].call \in Writes /\ f[k] = Applied(f[k - 1], t.at, front[k]),
         Exact(f[Len(front)]),
         rest # <<>> => front[Len(front)].call = "createRound" \/ Fresh(t, f[Len(front)])
  PROVE  Promise(t)
  <1> DEFINE n == Len(front)
  <1>1. /\ n \in Nat \ {0} /\ Len(rest) \in Nat /\ Len(t.todo) = n + Len(rest)
        /\ \A k \in 1..n : t.todo[k] = front[k]
        /\ \A k \in 1..Len(rest) : t.todo[n + k] = rest[k]
        /\ (rest = <<>> <=> Len(rest) = 0)
    BY JoinedCalls
  <1>2. Leads(t, n, f[n])
    BY <1>1 DEF Leads
  <1>3. Leaves(t, n, f[n])
    <2>1. CASE rest = <<>>
      BY <1>1, <2>1 DEF Leaves
    <2>2. CASE rest # <<>>
      <3>1. t.todo[n + 1] = rest[1] /\ n # Len(t.todo) /\ t.todo[n] = front[n]
        BY <1>1, <2>2
      <3>2. rest[1].call \in Resting \ {"firstSet"}
        BY <2>2
      <3>3. rest[1].call \notin Writes
        BY <3>2 DEF Resting, Writes
      <3>. QED
        BY <1>1, <2>2, <3>1, <3>2, <3>3 DEF Leaves
    <2>. QED
      BY <2>1, <2>2
  <1>4. n \in 0..Len(t.todo)
    BY <1>1
  <1>. QED
    BY <1>2, <1>3, <1>4 DEF Promise

LEMMA OneWritePromise ==
  ASSUME NEW t \in Requests, NEW c \in CallRows, NEW rest \in Seq(CallRows),
         t.todo = <<c>> \o rest, c.call \in Writes,
         rest # <<>> => rest[1].call \in Resting \ {"firstSet"},
         NEW g, g = Applied(game, t.at, c), Exact(g),
         rest # <<>> => Fresh(t, g)
  PROVE  Promise(t)
  <1>1. <<c>> \in Seq(CallRows) /\ Len(<<c>>) = 1 /\ <<c>>[1] = c /\ <<c>> # <<>>
    OBVIOUS
  <1> DEFINE f == [k \in 0..1 |-> IF k = 0 THEN game ELSE g]
  <1>2. f[0] = game /\ f[1] = g
    OBVIOUS
  <1>. HIDE DEF f
  <1>3. \A k \in 1..Len(<<c>>) :
          <<c>>[k].call \in Writes /\ f[k] = Applied(f[k - 1], t.at, <<c>>[k])
    <2>1. \A k \in 1..Len(<<c>>) : k = 1 /\ k - 1 = 0
      BY <1>1
    <2>. QED
      BY <1>1, <1>2, <2>1
  <1>. QED
    BY <1>1, <1>2, <1>3, WritesPromise

LEMMA LastPromise ==
  ASSUME NEW t \in Requests, NEW c \in CallRows, t.todo = <<c>>, c.call \in Writes,
         NEW g, g = Applied(game, t.at, c), Exact(g)
  PROVE  Promise(t)
  <1>1. <<>> \in Seq(CallRows) /\ <<c>> \o <<>> = <<c>>
    OBVIOUS
  <1>. QED
    BY <1>1, OneWritePromise

LEMMA LastSlow ==
  ASSUME Alone, NEW w \in Workers, req[w].todo # <<>>, RowsKept, now' = now,
         NEW c \in CallRows, c.call \in Writes, LastCall(w, c),
         NEW g, g = Applied(game, req[w].at, c), Exact(g)
  PROVE  SlowInv'
  <1>1. PICK t : t = [req[w] EXCEPT !.todo = <<c>>]
    OBVIOUS
  <1>2. req[w] \in Requests
    BY AloneFound
  <1>3. <<c>> \in Seq(CallRows)
    OBVIOUS
  <1>4. t \in Requests /\ t.todo = <<c>> /\ t.at = req[w].at
    BY <1>1, <1>2, <1>3 DEF Requests
  <1>5. Turn(w, t)
    BY <1>1 DEF LastCall
  <1>6. Promise(t)
    BY <1>4, LastPromise
  <1>. QED
    BY <1>5, <1>6, ReadGoesOn

LEMMA ExactStep ==
  ASSUME RowsOK, NEW g, Exact(g), NEW h, NEW n \in Nat, Step(g, h, HostHere, n), ScoresKept(g, h)
  PROVE  Exact(h)
  <1>1. Sound(h, HostHere)
    BY DEF Step, Reaches, Sound
  <1>2. g \in Games /\ Matches(g, votes) /\ IsFiniteSet(votes)
    BY DEF Exact, Sound, Core, RowsOK
  <1>3. Matches(h, votes)
    BY <1>2, KeptMatches
  <1>. QED
    BY <1>1, <1>3 DEF Exact

LEMMA ExpiredExact ==
  ASSUME RowsOK, NEW g, Exact(g)
  PROVE  Exact(WithStatus(g, "expired"))
  <1>1. Core(g) /\ g \in Games /\ HostHere \in BOOLEAN
    BY HostHereBoolean DEF Exact, Sound, Core
  <1>2. "expired" \in RoomStatus
    BY DEF RoomStatus
  <1>3. WithStatus(g, "expired").room.status = "expired"
    BY <1>1, <1>2, StatusMoves, 0 \in Nat
  <1>4. StatusSound(WithStatus(g, "expired"), HostHere)
    BY <1>3 DEF StatusSound
  <1>5. Step(g, WithStatus(g, "expired"), HostHere, 0)
    BY <1>1, <1>2, <1>4, StatusStep, 0 \in Nat
  <1>6. ScoresKept(g, WithStatus(g, "expired"))
    BY <1>1, StatusScores
  <1>. QED
    BY <1>5, <1>6, ExactStep, 0 \in Nat

LEMMA ExpireSlow ==
  ASSUME Alone, NEW w \in Workers, req[w].todo # <<>>, RowsKept, now' = now, Exact(game),
         LastCall(w, WriteRoom("expired"))
  PROVE  SlowInv'
  <1>1. PICK c : c = WriteRoom("expired")
    OBVIOUS
  <1>2. c \in CallRows /\ c.call = "updateRoom" /\ c.status = "expired"
    BY <1>1, CallsTyped
  <1>3. Applied(game, req[w].at, c) = WithStatus(game, "expired")
    BY <1>2 DEF Applied
  <1>4. Exact(Applied(game, req[w].at, c))
    BY <1>3, ExpiredExact, AloneFound
  <1>5. LastCall(w, c) /\ c.call \in Writes
    BY <1>1, <1>2 DEF Writes
  <1>. QED
    BY <1>2, <1>4, <1>5, LastSlow

LEMMA ReadRoomSlow ==
  ASSUME Alone, NEW w \in Workers, ReadRoom(w), now' = now
  PROVE  SlowInv'
  <1>1. Doing(w, "readRoom") /\ RowsKept
    BY DEF ReadRoom
  <1>2. req[w].todo # <<>> /\ Call(w).call = "readRoom" /\ req[w] \in Requests /\ Exact(game)
    BY <1>1, ReadHead DEF Asking
  <1>3. room.expiresAt \in Nat /\ now \in Nat
    <2>1. room \in Rooms /\ now \in Nat
      BY <1>2, AloneFound, RowsFound
    <2>. QED
      BY <2>1 DEF Rooms
  <1>4. CASE LastCall(w, WriteRoom("expired"))
    BY <1>1, <1>2, <1>4, ExpireSlow
  <1>5. CASE End(w)
    BY <1>1, <1>2, <1>5, EndSlow
  <1>6. CASE Continue(w)
    <2>1. Before(w, <<>>, req[w])
      BY <1>6 DEF Continue
    <2>. QED
      BY <1>1, <1>2, <2>1, RestGoesOn DEF Asking
  <1>7. \/ now > room.expiresAt
        \/ now <= room.expiresAt /\ room.status = "expired"
        \/ now <= room.expiresAt /\ room.status # "expired"
    BY <1>3
  <1>. QED
    BY <1>4, <1>5, <1>6, <1>7 DEF ReadRoom

LEMMA AcceptSlow ==
  ASSUME Alone, NEW w \in Workers, Accept(w), now' = now
  PROVE  SlowInv'
  <1>1. Doing(w, "accept") /\ RowsKept
    BY DEF Accept
  <1>2. req[w].todo # <<>> /\ Call(w).call = "accept" /\ req[w] \in Requests /\ Exact(game)
        /\ Fresh(req[w], game)
    BY <1>1, ReadHead DEF Asking, Copying
  <1>3. CASE ~(user[req[w].who] = "member" /\ Accepts(w))
    BY <1>1, <1>2, <1>3, EndSlow DEF Accept
  <1>4. CASE user[req[w].who] = "member" /\ Accepts(w)
    <2>1. PICK q : q = req[w].todo
      OBVIOUS
    <2>2. /\ q \in Seq(CallRows) /\ InLine(q) /\ q # <<>> /\ q[1].call = "accept"
          /\ FitsBusy(req[w], now, rounds, sets)
      BY <1>2, <2>1, AloneFound
    <2>3. /\ Tail(q) \in Seq(CallRows) /\ Len(q) \in Nat \ {0} /\ Len(Tail(q)) = Len(q) - 1
          /\ \A k \in 1..(Len(q) - 1) : Tail(q)[k] = q[k + 1]
      BY <2>2, TailCalls
    <2>4. PICK t : t = [req[w] EXCEPT !.todo = <<>> \o Tail(@)]
      OBVIOUS
    <2>5. <<>> \o Tail(q) = Tail(q)
      BY <2>3, EmptyFront
    <2>6. t \in Requests /\ t.todo = Tail(q) /\ t.at = req[w].at /\ t.round = req[w].round
          /\ Turn(w, t)
      <3>1. Turn(w, t)
        BY <1>4, <2>4 DEF Accept, Continue, Before
      <3>2. t \in Requests /\ t.todo = Tail(q) /\ t.at = req[w].at /\ t.round = req[w].round
        BY <1>2, <2>1, <2>3, <2>4, <2>5 DEF Requests
      <3>. QED
        BY <3>1, <3>2
    <2>7. ASSUME t.todo # <<>>
          PROVE  /\ t.todo[1].call \notin Writes \cup {"firstSet"}
                 /\ t.todo[1].call \in Copying => Fresh(t, game)
                 /\ Ready(t, t.todo[1])
      <3>1. 1 \in 1..(Len(q) - 1) /\ 1 \in 1..Len(q) /\ 2 \in 1..Len(q) /\ t.todo[1] = q[2]
        <4>1. Len(q) - 1 # 0
          BY <2>3, <2>6, <2>7
        <4>2. Len(q) - 1 \in Nat
          BY <2>3
        <4>. QED
          BY <2>3, <2>6, <4>1, <4>2
      <3>2. q[1].call \in Openings
        BY <2>2 DEF Openings, Asking
      <3>3. q[2].call \in Asking
        BY <2>2, <3>1, <3>2, OnlyAsking
      <3>4. q[2].call = "readMine" => t.round.status = "writing"
        <4>1. FitsCall(q[2], req[w], rounds, sets)
          BY <2>1, <2>2, <3>1 DEF FitsBusy
        <4>. QED
          BY <1>4, <2>6, <4>1 DEF FitsCall, Accepts
      <3>. QED
        BY <1>2, <2>6, <3>1, <3>3, <3>4 DEF Asking, Writes, Ready, Fresh
    <2>8. Promise(t)
      BY <1>2, <2>6, <2>7, RestPromise
    <2>. QED
      BY <1>1, <1>2, <2>6, <2>8, ReadGoesOn
  <1>. QED
    BY <1>3, <1>4

\* The truth set a player hands in: a new row, or the old one rewritten.
LEMMA AddedExact ==
  ASSUME RowsOK, NEW g, Exact(g), NEW j \in 1..Len(g.rounds), g.rounds[j].status = "writing",
         NEW row \in TruthSets, row.round = j, row.order = 0, ~row.scored,
         \A s \in SetsOf(g, j) : g.sets[s].author # row.author
  PROVE  Exact([g EXCEPT !.sets = Append(@, row)])
  <1> DEFINE h == [g EXCEPT !.sets = Append(@, row)]
  <1>1. /\ Core(g) /\ g \in Games /\ StatusSound(g, HostHere) /\ Matches(g, votes)
        /\ IsFiniteSet(votes)
    BY DEF Exact, Sound, Core, RowsOK
  <1>2. Reaches(g, h, 0) /\ h.room = g.room /\ h.rounds = g.rounds
    BY <1>1, AddedSetMoves
  <1>3. Sound(h, HostHere)
    BY <1>1, <1>2 DEF Sound, Reaches, StatusSound
  <1>4. ScoresKept(g, h)
    <2>1. h.sets = Append(g.sets, row) /\ h.score = g.score
      BY <1>1 DEF Games
    <2>2. /\ g.sets \in Seq(TruthSets) /\ Len(g.sets) \in Nat /\ DOMAIN g.sets = 1..Len(g.sets)
      BY <1>1, RowAt
    <2>3. /\ DOMAIN h.sets = 1..(Len(g.sets) + 1) /\ h.sets[Len(g.sets) + 1] = row
          /\ \A s \in 1..Len(g.sets) : h.sets[s] = g.sets[s]
      <3>1. /\ Append(g.sets, row) \in Seq(TruthSets)
            /\ Len(Append(g.sets, row)) = Len(g.sets) + 1
            /\ Append(g.sets, row)[Len(g.sets) + 1] = row
            /\ \A s \in 1..Len(g.sets) : Append(g.sets, row)[s] = g.sets[s]
        BY <2>2, AppendRow
      <3>. QED
        BY <2>1, <3>1
    <2>. HIDE DEF h
    <2>4. ScoredSets(h) = ScoredSets(g)
      BY <2>2, <2>3 DEF ScoredSets
    <2>. QED
      BY <2>1, <2>2, <2>3, <2>4 DEF ScoresKept, ScoredSets
  <1>. HIDE DEF h
  <1>5. Matches(h, votes)
    BY <1>1, <1>4, KeptMatches
  <1>6. Exact(h)
    BY <1>3, <1>5 DEF Exact
  <1>. QED
    BY <1>6 DEF h

LEMMA RewrittenExact ==
  ASSUME RowsOK, NEW g, Exact(g), NEW j \in 1..Len(g.rounds), g.rounds[j].status = "writing",
         NEW s \in SetsOf(g, j), NEW row \in TruthSets, row.round = j,
         row.author = g.sets[s].author, row.order = g.sets[s].order, ~row.scored
  PROVE  Exact(WithSet(g, s, row))
  <1> DEFINE h == WithSet(g, s, row)
  <1>1. /\ Core(g) /\ g \in Games /\ StatusSound(g, HostHere) /\ Matches(g, votes)
        /\ IsFiniteSet(votes)
    BY DEF Exact, Sound, Core, RowsOK
  <1>2. Reaches(g, h, 0) /\ h.room = g.room /\ h.rounds = g.rounds
    BY <1>1, RewrittenSetMoves
  <1>3. Sound(h, HostHere)
    BY <1>1, <1>2 DEF Sound, Reaches, StatusSound
  <1>4. ScoresKept(g, h)
    <2>1. g.sets \in Seq(TruthSets) /\ DOMAIN g.sets = 1..Len(g.sets) /\ s \in 1..Len(g.sets)
      BY <1>1, RowAt, SetsOfRound
    <2>2. h.sets = [g.sets EXCEPT ![s] = row] /\ h.score = g.score
      BY <1>1 DEF WithSet, Games
    <2>3. ~g.sets[s].scored
      <3>1. Presented(g, j)
        BY <1>1 DEF Core
      <3>. QED
        BY <3>1 DEF Presented
    <2>. HIDE DEF h
    <2>4. /\ DOMAIN h.sets = 1..Len(g.sets) /\ h.sets[s] = row
          /\ \A t \in 1..Len(g.sets) : t # s => h.sets[t] = g.sets[t]
      BY <2>1, <2>2
    <2>5. ScoredSets(h) = ScoredSets(g)
      BY <2>1, <2>3, <2>4 DEF ScoredSets
    <2>. QED
      BY <2>1, <2>2, <2>3, <2>4, <2>5 DEF ScoresKept, ScoredSets
  <1>. HIDE DEF h
  <1>5. Matches(h, votes)
    BY <1>1, <1>4, KeptMatches
  <1>6. Exact(h)
    BY <1>3, <1>5 DEF Exact
  <1>. QED
    BY <1>6 DEF h

LEMMA ReadMineSlow ==
  ASSUME Alone, NEW w \in Workers, ReadMine(w), now' = now
  PROVE  SlowInv'
  <1>1. Doing(w, "readMine") /\ RowsKept
    BY DEF ReadMine
  <1>2. req[w].todo # <<>> /\ Call(w).call = "readMine" /\ req[w] \in Requests /\ Exact(game)
        /\ Fresh(req[w], game) /\ Ready(req[w], Call(w))
    BY <1>1, ReadHead DEF Asking, Copying
  <1>3. PICK r : r = req[w]
    OBVIOUS
  <1>4. /\ FitsBusy(r, now, rounds, sets) /\ RowsOK /\ Call(w) = r.todo[1]
        /\ sets \in Seq(TruthSets) /\ DOMAIN sets = 1..Len(sets) /\ Len(sets) \in Nat
        /\ game.rounds = rounds /\ game.sets = sets
        /\ rounds \in Seq(Rounds) /\ DOMAIN rounds = 1..Len(rounds) /\ Len(rounds) \in Nat
    BY <1>2, <1>3, AloneFound
  <1>5. /\ r.at \in 1..Len(rounds) /\ rounds[r.at].status = "writing"
        /\ r.round.status = "writing"
    BY <1>2, <1>3, <1>4 DEF Fresh, Ready
  <1>6. r.who \in Players /\ r.statement \in Statements
    <2>1. FitsCall(Call(w), req[w], rounds, sets)
      BY <1>2, WorkerFound DEF Alone
    <2>2. r.op = "write"
      BY <1>2, <1>3, <2>1 DEF FitsCall
    <2>. QED
      BY <1>4, <2>2 DEF FitsBusy
  <1>7. PICK row : row = [round |-> r.at, author |-> r.who, truth |-> r.statement,
                          order |-> 0, scored |-> FALSE]
    OBVIOUS
  <1>8. r.at \in Nat \ {0}
    BY <1>4, <1>5
  <1>9. row \in TruthSets
    BY <1>6, <1>7, <1>8 DEF TruthSets
  <1>10. game \in Games /\ SetsOf(game, r.at) \subseteq 1..Len(sets)
    BY <1>2, <1>4, SetsOfRound DEF Exact, Sound, Core
  <1> DEFINE mine == OwnSets(r.at, r.who)
  <1>11. mine = {s \in SetsOf(game, r.at) : sets[s].author = r.who}
    BY DEF OwnSets
  <1>12. CASE mine = {}
    <2>1. PICK c : c = AddSet(row)
      OBVIOUS
    <2>2. c \in CallRows /\ c.call = "createSet" /\ c.row = row
      BY <1>9, <2>1, CallsTyped
    <2>3. LastCall(w, c)
      BY <1>3, <1>7, <1>12, <2>1 DEF ReadMine
    <2>4. Exact([game EXCEPT !.sets = Append(@, row)])
      <3>1. \A s \in SetsOf(game, r.at) : game.sets[s].author # row.author
        BY <1>4, <1>7, <1>11, <1>12
      <3>2. row.round = r.at /\ row.order = 0 /\ ~row.scored
        BY <1>7
      <3>. QED
        BY <1>2, <1>4, <1>5, <1>9, <3>1, <3>2, AddedExact
    <2>5. Applied(game, req[w].at, c) = [game EXCEPT !.sets = Append(@, row)]
      BY <2>2 DEF Applied
    <2>6. Exact(Applied(game, req[w].at, c)) /\ c.call \in Writes
      BY <2>2, <2>4, <2>5 DEF Writes
    <2>. QED
      BY <1>1, <1>2, <2>2, <2>3, <2>6, LastSlow
  <1>13. CASE mine # {}
    <2>1. PICK s : s = Max(mine)
      OBVIOUS
    <2>2. s \in mine
      <3>1. mine \subseteq 1..Len(sets)
        BY <1>10, <1>11
      <3>. HIDE DEF mine
      <3>. QED
        BY <1>4, <1>13, <2>1, <3>1, LargestFound
    <2>3. s \in SetsOf(game, r.at) /\ sets[s].author = r.who /\ s \in Nat /\ sets[s] \in TruthSets
      BY <1>4, <1>10, <1>11, <2>2
    <2>4. PICK u : u = [row EXCEPT !.order = sets[s].order]
      OBVIOUS
    <2>5. /\ u \in TruthSets /\ u.round = r.at /\ u.author = sets[s].author
          /\ u.order = sets[s].order /\ ~u.scored
      BY <1>7, <1>9, <2>3, <2>4 DEF TruthSets
    <2>6. PICK c : c = WriteSet(s, u)
      OBVIOUS
    <2>7. c \in CallRows /\ c.call = "updateSet" /\ c.set = s /\ c.row = u
      BY <2>3, <2>5, <2>6, CallsTyped
    <2>8. LastCall(w, c)
      BY <1>3, <1>7, <1>13, <2>1, <2>4, <2>6 DEF ReadMine
    <2>9. Exact(WithSet(game, s, u))
      BY <1>2, <1>4, <1>5, <2>3, <2>5, RewrittenExact
    <2>10. Applied(game, req[w].at, c) = WithSet(game, s, u)
      BY <2>7 DEF Applied
    <2>11. Exact(Applied(game, req[w].at, c)) /\ c.call \in Writes
      BY <2>7, <2>9, <2>10 DEF Writes
    <2>. QED
      BY <1>1, <1>2, <2>7, <2>8, <2>11, LastSlow
  <1>. QED
    BY <1>12, <1>13

LEMMA LookUpSlow ==
  ASSUME Alone, NEW w \in Workers, LookUp(w), now' = now
  PROVE  SlowInv'
  <1>1. Doing(w, "lookUp") /\ RowsKept
    BY DEF LookUp
  <1>2. req[w].todo # <<>> /\ Call(w).call = "lookUp" /\ req[w] \in Requests /\ Exact(game)
        /\ Fresh(req[w], game)
    BY <1>1, ReadHead DEF Asking, Copying
  <1>3. PICK r : r = req[w]
    OBVIOUS
  <1>4. /\ FitsBusy(r, now, rounds, sets) /\ RowsOK /\ Call(w) = r.todo[1]
        /\ game.rounds = rounds /\ game.sets = sets /\ Core(game)
    BY <1>2, <1>3, AloneFound DEF Exact, Sound
  <1>5. r.round.status = "presentation_voting"
    <2>1. FitsHead(req[w], rounds)
      BY <1>2, WorkerFound DEF Alone
    <2>. QED
      BY <1>2, <1>3, <2>1 DEF FitsHead, Call
  <1>6. r.at \in 1..Len(rounds) /\ rounds[r.at] = r.round
    BY <1>2, <1>3, <1>4 DEF Fresh
  <1>7. PICK s : s = r.round.active
    OBVIOUS
  <1>8. s \in SetsOf(game, r.at) /\ s \in 1..Len(sets) /\ s \in Nat /\ sets[s].order \in Nat
    <2>1. /\ s \in SetsOf(game, r.at) /\ s \in 1..Len(sets)
          /\ sets[s].order \in 1..Cardinality(SetsOf(game, r.at))
          /\ Cardinality(SetsOf(game, r.at)) \in Nat
      BY <1>4, <1>5, <1>6, <1>7, ActiveSet DEF Presenting
    <2>2. Len(sets) \in Nat
      BY <1>4, RowsFound
    <2>. QED
      BY <2>1, <2>2
  <1>9. ~sets[s].scored
    <2>1. Presented(game, r.at)
      BY <1>4, <1>6 DEF Core
    <2>2. sets[s].scored <=> sets[s].order < sets[s].order
      BY <1>4, <1>5, <1>6, <1>7, <1>8, <2>1 DEF Presented
    <2>. QED
      BY <1>8, <2>2
  <1>10. PICK c : c = [call |-> "upsert", set |-> s, isNew |-> ~Voted(s, r.who)]
    OBVIOUS
  <1>11. c \in CallRows /\ c.call = "upsert" /\ c.set = s
    BY <1>8, <1>10 DEF CallRows
  <1>12. LastCall(w, c)
    BY <1>3, <1>7, <1>10 DEF LookUp
  <1>13. PICK t : t = [req[w] EXCEPT !.todo = <<c>>]
    OBVIOUS
  <1>14. <<c>> \in Seq(CallRows) /\ <<c>>[1] = c
    BY <1>11
  <1>15. t \in Requests /\ t.todo = <<c>>
    BY <1>2, <1>13, <1>14 DEF Requests
  <1>16. Turn(w, t)
    BY <1>12, <1>13 DEF LastCall
  <1>17. /\ c.call \notin Writes \cup {"firstSet"} /\ c.call \notin Copying
         /\ Ready(t, c)
    BY <1>9, <1>11 DEF Writes, Copying, Looking, Ready
  <1>18. Promise(t)
    BY <1>2, <1>14, <1>15, <1>17, RestPromise
  <1>. QED
    BY <1>1, <1>2, <1>16, <1>18, ReadGoesOn

\* A vote is for a set that is not scored yet.
LEMMA UpsertSlow ==
  ASSUME Alone, NEW w \in Workers, Upsert(w), now' = now
  PROVE  SlowInv'
  <1>1. req[w].todo # <<>> /\ Call(w).call = "upsert" /\ End(w)
    BY DEF Upsert, Doing, Call
  <1>2. /\ BurstOK /\ RowsOK /\ ~overlapped /\ req[w] # Idle /\ req[w] \in Requests
        /\ Promise(req[w]) /\ Call(w) = req[w].todo[1]
        /\ game.sets = sets /\ ~postgres /\ now \in Nat
    BY <1>1, AloneFound
  <1>3. Exact(game) /\ Ready(req[w], Call(w))
    <2>1. Call(w).call \notin Writes /\ Call(w).call # "firstSet"
      BY <1>1 DEF Writes
    <2>. QED
      BY <1>1, <1>2, <2>1, ReadsAtRest
  <1>4. PICK s : s = Call(w).set
    OBVIOUS
  <1>5. PICK p : p = req[w].who
    OBVIOUS
  <1>6. ~sets[s].scored
    BY <1>1, <1>3, <1>4 DEF Ready
  <1>7. votes' = {v \in votes : ~(v.set = s /\ v.voter = p)}
                   \cup {[set |-> s, voter |-> p, choice |-> req[w].statement]}
    BY <1>2, <1>4, <1>5 DEF Upsert
  <1>8. \A t \in ScoredSets(game) : BallotsOn(votes', t) = BallotsOn(votes, t)
    <2> SUFFICES ASSUME NEW t \in ScoredSets(game)
                 PROVE  BallotsOn(votes', t) = BallotsOn(votes, t)
      OBVIOUS
    <2>1. t # s
      BY <1>2, <1>6 DEF ScoredSets
    <2>. QED
      BY <1>7, <2>1 DEF BallotsOn
  <1>9. PICK g : g = game
    OBVIOUS
  <1>10. Core(g) /\ StatusSound(g, HostHere) /\ Matches(g, votes) /\ g \in Games
         /\ IsFiniteSet(votes)
    BY <1>2, <1>3, <1>9 DEF Exact, Sound, Core, RowsOK
  <1>11. Matches(g, votes')
    <2>1. ScoresKept(g, g)
      BY DEF ScoresKept
    <2>. QED
      BY <1>8, <1>9, <1>10, <2>1, KeptMatches
  <1>12. UNCHANGED <<room, user, rounds, sets, score>>
    BY DEF Upsert
  <1>13. g = game'
    BY <1>9, <1>12 DEF game
  <1>14. Core(g)' /\ StatusSound(g, HostHere)'
    <2>1. HostHere' = HostHere
      BY <1>12 DEF HostHere
    <2>2. Core(g)'
      BY <1>10 DEF Core, RoundSound
    <2>. QED
      BY <1>10, <2>1, <2>2
  <1>15. Exact(g)'
    BY <1>11, <1>14 DEF Exact, Sound
  <1>16. Exact(game)'
    BY <1>13, <1>15, ExactAs
  <1>17. \A v \in Workers : req'[v] = Idle
    <2>1. \A v \in Workers : v # w => req[v] = Idle
      BY <1>2 DEF BurstOK
    <2>2. req' = [req EXCEPT ![w] = Idle]
      BY <1>2 DEF Upsert, End, Turn, Requests
    <2>. QED
      BY <1>2, <2>1, <2>2 DEF BurstOK
  <1>. QED
    BY <1>16, <1>17 DEF SlowInv

-----------------------------------------------------------------------------
(* The calls that move the round.                                          *)

\* A phase that begins with the clock a request has read begins like one that
\* begins now.
LEMMA RetimedExact ==
  ASSUME RowsOK, NEW g \in Games, NEW i \in 1..Len(g.rounds), NEW row \in Rounds,
         Exact(WithRound(g, i, row)), NEW late \in Rounds,
         late.number = row.number, late.status = row.status, late.active = row.active,
         late.pausedAt = row.pausedAt, row.phaseEndsAt # NoTime, late.phaseEndsAt # NoTime
  PROVE  Exact(WithRound(g, i, late))
  <1> DEFINE h == WithRound(g, i, row)
             k == WithRound(g, i, late)
  <1>1. /\ h \in Games /\ h.rounds[i] = row /\ Rewrites(g, h, i) /\ h.room = g.room
        /\ k \in Games /\ k.rounds[i] = late /\ Rewrites(g, k, i) /\ k.room = g.room
        /\ h.sets = g.sets /\ k.sets = g.sets /\ h.score = g.score /\ k.score = g.score
    BY RoundRow
  <1>2. WithRound(h, i, late) = k
    BY DEF WithRound, Games
  <1>. HIDE DEF h, k
  <1>3. Core(h) /\ StatusSound(h, HostHere) /\ Matches(h, votes) /\ IsFiniteSet(votes)
        /\ now \in Nat
    BY RowsFound DEF Exact, Sound, RowsOK, h
  <1>4. i \in 1..Len(h.rounds) /\ Len(h.rounds) = Len(g.rounds) /\ Len(k.rounds) = Len(g.rounds)
    BY <1>1 DEF Rewrites
  <1>5. late.pausedAt <= now
    BY <1>1, <1>3, <1>4 DEF Core, RoundSound
  <1>6. Reaches(h, k, 0) /\ \A j \in 1..Len(h.rounds) : k.rounds[j].status = h.rounds[j].status
    BY <1>1, <1>2, <1>3, <1>4, <1>5, ClockMoves
  <1>7. \A j \in 1..Len(h.rounds) : k.rounds[j].pausedAt = h.rounds[j].pausedAt
    BY <1>1, <1>4 DEF Rewrites
  <1>8. StatusSound(k, HostHere)
    <2>1. Len(g.rounds) \in Nat /\ MaxRounds \in Nat \ {0}
      BY RowAt, TLLimitsAssumption
    <2>2. Len(h.rounds) # 0 => Len(h.rounds) \in 1..Len(h.rounds)
      BY <1>4, <2>1
    <2>. QED
      BY <1>1, <1>3, <1>4, <1>6, <1>7, <2>1, <2>2 DEF StatusSound
  <1>9. Matches(k, votes)
    <2>1. ScoresKept(h, k)
      BY <1>1 DEF ScoresKept, ScoredSets
    <2>. QED
      BY <1>1, <1>3, <2>1, KeptMatches
  <1>10. Exact(k)
    BY <1>6, <1>8, <1>9 DEF Exact, Sound, Reaches
  <1>. QED
    BY <1>10 DEF k

\* Some call of the synchronisation, before the rest of the request.
Syncing == {"syncRoom", "firstSet"} \cup Looking

LEMMA MoveSlow ==
  ASSUME Alone, NEW w \in Workers, req[w].todo # <<>>, RowsKept, now' = now,
         Call(w).call \in Syncing,
         NEW r \in Requests, r.todo = req[w].todo, r.at \in 1..Len(rounds),
         NEW row \in Rounds, Moves(w, r, row), Exact(WithRound(game, r.at, row))
  PROVE  SlowInv'
  <1>1. PICK q : q = req[w].todo
    OBVIOUS
  <1>2. /\ q \in Seq(CallRows) /\ InLine(q) /\ q # <<>> /\ q[1] = Call(w)
        /\ rounds \in Seq(Rounds) /\ game.rounds = rounds
    BY <1>1, AloneFound
  <1>3. Call(w).call \in (Asking \ {"accept"}) \cup Looking \cup {"firstSet"}
    BY DEF Syncing, Asking
  <1>4. /\ Tail(q) \in Seq(CallRows)
        /\ Tail(q) # <<>> => Tail(q)[1].call \in Resting \ {"firstSet"}
    BY <1>2, <1>3, RestOfLine
  <1>5. PICK c : c = WriteRound(row)
    OBVIOUS
  <1>6. c \in CallRows /\ c.call = "updateRound" /\ c.row = row
    BY <1>5, CallsTyped
  <1>7. PICK u : u = [r EXCEPT !.round = row]
    OBVIOUS
  <1>8. PICK t : t = [u EXCEPT !.todo = <<c>> \o Tail(@)]
    OBVIOUS
  <1>9. <<c>> \o Tail(q) \in Seq(CallRows)
    BY <1>4, <1>6
  <1>10. u \in Requests /\ u.todo = q /\ u.at = r.at /\ u.round = row
    BY <1>1, <1>7 DEF Requests
  <1>11. t \in Requests /\ t.todo = <<c>> \o Tail(q) /\ t.at = r.at /\ t.round = row
    BY <1>8, <1>9, <1>10 DEF Requests
  <1>12. Turn(w, t)
    BY <1>5, <1>7, <1>8 DEF Moves, Before
  <1>13. PICK g : g = WithRound(game, r.at, row)
    OBVIOUS
  <1>14. g = Applied(game, t.at, c) /\ Exact(g) /\ c.call \in Writes
    BY <1>6, <1>11, <1>13 DEF Applied, Writes
  <1>15. Fresh(t, g)
    <2>1. g.rounds = [rounds EXCEPT ![r.at] = row]
      BY <1>13 DEF WithRound, game
    <2>. QED
      BY <1>2, <1>11, <2>1, ReplaceRow DEF Fresh
  <1>16. Promise(t)
    BY <1>4, <1>6, <1>11, <1>14, <1>15, OneWritePromise
  <1>. QED
    BY <1>12, <1>16, ReadGoesOn

LEMMA LookSlow ==
  ASSUME Alone, NEW w \in Workers, req[w].todo # <<>>, RowsKept, now' = now, Exact(game),
         Call(w).call \in Syncing,
         NEW r \in Requests, r.todo = req[w].todo, Fresh(r, game),
         NEW c \in CallRows, c.call \in Looking, Ready(r, c), Before(w, <<c>>, r)
  PROVE  SlowInv'
  <1>1. PICK q : q = req[w].todo
    OBVIOUS
  <1>2. q \in Seq(CallRows) /\ q # <<>>
    BY <1>1, AloneFound
  <1>3. Tail(q) \in Seq(CallRows)
    BY <1>2, TailCalls
  <1>4. PICK t : t = [r EXCEPT !.todo = <<c>> \o Tail(@)]
    OBVIOUS
  <1>5. <<c>> \o Tail(q) \in Seq(CallRows) /\ (<<c>> \o Tail(q))[1] = c
    <2>1. <<c>> \in Seq(CallRows) /\ Len(<<c>>) = 1 /\ <<c>>[1] = c
      OBVIOUS
    <2>. QED
      BY <1>3, <2>1, JoinedCalls
  <1>6. t \in Requests /\ t.todo = <<c>> \o Tail(q) /\ t.at = r.at /\ t.round = r.round
    BY <1>1, <1>4, <1>5 DEF Requests
  <1>7. Turn(w, t)
    BY <1>4 DEF Before
  <1>8. c.call \notin Writes \cup {"firstSet"} /\ Fresh(t, game) /\ Ready(t, c)
    BY <1>6 DEF Looking, Writes, Fresh, Ready
  <1>9. Promise(t)
    BY <1>5, <1>6, <1>8, RestPromise
  <1>. QED
    BY <1>7, <1>9, ReadGoesOn

LEMMA SyncRoomSlow ==
  ASSUME Alone, NEW w \in Workers, SyncRoom(w), now' = now
  PROVE  SlowInv'
  <1>1. PICK c : c = ReadClock(room.status)
    OBVIOUS
  <1>2. PICK r : r = req[w]
    OBVIOUS
  <1>3. Doing(w, "syncRoom") /\ RowsKept /\ Before(w, <<c>>, r)
    BY <1>1, <1>2 DEF SyncRoom
  <1>4. r.todo # <<>> /\ Call(w).call = "syncRoom" /\ r \in Requests /\ Exact(game)
        /\ Fresh(r, game)
    BY <1>2, <1>3, ReadHead DEF Asking, Copying
  <1>5. room.status \in RoomStatus
    BY DEF Alone, BurstOK, RowsOK, TypeOK, Rooms
  <1>6. c \in CallRows /\ c.call = "readClock" /\ c.status = room.status
    BY <1>1, <1>5, CallsTyped
  <1>7. c.call \in Looking /\ Ready(r, c) /\ Call(w).call \in Syncing
    BY <1>4, <1>6 DEF Looking, Ready, Syncing
  <1>. QED
    BY <1>2, <1>3, <1>4, <1>6, <1>7, LookSlow

LEMMA SynchroniseSlow ==
  ASSUME Alone, NEW w \in Workers, Synchronise(w), now' = now
  PROVE  SlowInv'
  <1>1. Doing(w, "readClock") /\ RowsKept
    BY DEF Synchronise
  <1>2. req[w].todo # <<>> /\ Call(w).call = "readClock" /\ req[w] \in Requests /\ Exact(game)
        /\ Fresh(req[w], game) /\ Call(w).status = room.status
    BY <1>1, ReadHead DEF Copying, Looking, Ready
  <1>3. RowsOK /\ RowsTyped /\ now \in Nat /\ game.rounds = rounds /\ game.room = room
        /\ HostHere \in BOOLEAN
    BY <1>2, AloneFound, HostHereBoolean
  <1>4. PICK r : r = [req[w] EXCEPT !.clock = now]
    OBVIOUS
  <1>5. r \in Requests /\ r.todo = req[w].todo /\ r.at = req[w].at /\ r.round = req[w].round
        /\ r.clock = now
    BY <1>2, <1>3, <1>4 DEF Requests
  <1>6. Fresh(r, game) /\ r.at \in 1..Len(rounds) /\ r.round = rounds[r.at] /\ r.round \in Rounds
    BY <1>2, <1>3, <1>5, RequestFields DEF Fresh
  <1>7. Sound(game, HostHere) /\ game \in Games
    BY <1>2 DEF Exact, Sound, Core
  <1>8. /\ Call(w).call \in Syncing
        /\ Call(w).call \in (Asking \ {"accept"}) \cup Looking /\ Call(w).call # "readRoom"
    BY <1>2 DEF Syncing, Looking
  <1>9. CASE LastCall(w, WriteRoom("expired"))
    BY <1>1, <1>2, <1>9, ExpireSlow
  <1>10. CASE End(w)
    BY <1>1, <1>2, <1>10, EndSlow
  <1>11. CASE Continue(w)
    <2>1. Before(w, <<>>, req[w])
      BY <1>11 DEF Continue
    <2>. QED
      BY <1>1, <1>2, <1>8, <2>1, RestGoesOn
  <1>12. CASE Before(w, <<>>, r)
    BY <1>1, <1>2, <1>5, <1>6, <1>8, <1>12, RestGoesOn
  <1>13. CASE r.round.status = "countdown" /\ Moves(w, r, Entering(r, "writing", WriteTime))
    <2>1. PICK row : row = Enter(rounds[r.at], "writing", WriteTime)
      OBVIOUS
    <2>2. row = Entering(r, "writing", WriteTime)
      BY <1>5, <1>6, <2>1 DEF Enter, Entering
    <2>3. row \in Rounds
      BY <1>3, <1>6, <2>1, EnterRow DEF RoundStatus
    <2>4. Step(game, WithRound(game, r.at, row), HostHere, 1)
      BY <1>3, <1>6, <1>7, <1>13, <2>1, CountdownStep
    <2>5. Exact(WithRound(game, r.at, row))
      BY <1>2, <1>3, <1>7, <2>4, RowScores, ExactStep, 1 \in Nat
    <2>. QED
      BY <1>1, <1>2, <1>5, <1>6, <1>8, <1>13, <2>2, <2>3, <2>5, MoveSlow
  <1>14. CASE r.round.status = "reveal" /\ Moves(w, r, Entering(r, "commentary", CommentTime))
    <2>1. PICK row : row = Enter(rounds[r.at], "commentary", CommentTime)
      OBVIOUS
    <2>2. row = Entering(r, "commentary", CommentTime)
      BY <1>5, <1>6, <2>1 DEF Enter, Entering
    <2>3. row \in Rounds
      BY <1>3, <1>6, <2>1, EnterRow DEF RoundStatus, Presenting
    <2>4. Step(game, WithRound(game, r.at, row), HostHere, 1)
      BY <1>3, <1>6, <1>7, <1>14, <2>1, RevealStep
    <2>5. Exact(WithRound(game, r.at, row))
      BY <1>2, <1>3, <1>7, <2>4, RowScores, ExactStep, 1 \in Nat
    <2>. QED
      BY <1>1, <1>2, <1>5, <1>6, <1>8, <1>14, <2>2, <2>3, <2>5, MoveSlow
  <1>15. ASSUME NEW call \in {"listSets", "readActive", "listNext"}, Before(w, <<Read(call)>>, r),
                call = "listSets" => r.round.status = "writing",
                call = "listNext" => room.status = "active"
         PROVE  SlowInv'
    <2>1. PICK c : c = Read(call)
      OBVIOUS
    <2>2. c \in CallRows /\ c.call = call
      BY <1>15, <2>1, CallsTyped
    <2>3. c.call \in Looking /\ Ready(r, c)
      BY <1>15, <2>2 DEF Looking, Ready
    <2>. QED
      BY <1>1, <1>2, <1>5, <1>6, <1>8, <1>15, <2>1, <2>2, <2>3, LookSlow
  <1>16. DueBy(r) => r.round.status \in
                       {"countdown", "writing", "presentation_voting", "reveal", "commentary"}
    <2>1. FitsBusy(req[w], now, rounds, sets)
      BY <1>2, AloneFound
    <2>2. r.round.status = "finished" => r.round.phaseEndsAt = NoTime
      BY <1>5, <2>1 DEF FitsBusy, RowFits
    <2>3. r.round.status \in RoundStatus
      BY <1>6 DEF Rounds
    <2>. QED
      BY <2>2, <2>3 DEF DueBy, RoundStatus, Presenting
  <1>17. \/ LastCall(w, WriteRoom("expired"))
         \/ End(w)
         \/ Continue(w)
         \/ Before(w, <<>>, r)
         \/ r.round.status = "countdown" /\ Moves(w, r, Entering(r, "writing", WriteTime))
         \/ r.round.status = "writing" /\ Before(w, <<Read("listSets")>>, r)
         \/ r.round.status = "presentation_voting" /\ Before(w, <<Read("readActive")>>, r)
         \/ r.round.status = "reveal" /\ Moves(w, r, Entering(r, "commentary", CommentTime))
         \/ /\ room.status = "active" /\ r.round.status = "commentary"
            /\ Before(w, <<Read("listNext")>>, r)
    BY <1>2, <1>4, <1>16 DEF Synchronise
  <1>. QED
    BY <1>9, <1>10, <1>11, <1>12, <1>13, <1>14, <1>15, <1>17

-----------------------------------------------------------------------------
(* The end of the writing: the sets get their order, and the first is shown. *)

LEMMA PlacesFound ==
  ASSUME NEW g \in Games, NEW i, NEW place \in Places(g, i)
  PROVE  /\ \A s \in SetsOf(g, i) : place[s] \in 1..Cardinality(SetsOf(g, i))
         /\ \A s, t \in SetsOf(g, i) : place[s] = place[t] => s = t
         /\ \A k \in 1..Cardinality(SetsOf(g, i)) : \E s \in SetsOf(g, i) : place[s] = k
         /\ {place[s] : s \in SetsOf(g, i)} = 1..Cardinality(SetsOf(g, i))
  <1>1. PICK mine : mine = SetsOf(g, i)
    OBVIOUS
  <1>2. PICK n : n = Cardinality(SetsOf(g, i))
    OBVIOUS
  <1>3. place \in Bijection(mine, 1..n)
    BY <1>1, <1>2 DEF Places
  <1>4. /\ place \in [mine -> 1..n]
        /\ \A s, t \in mine : place[s] = place[t] => s = t
        /\ \A k \in 1..n : \E s \in mine : place[s] = k
    BY <1>3 DEF Bijection, Injection, Surjection, IsInjective
  <1>5. {place[s] : s \in mine} = 1..n
    BY <1>4
  <1>. QED
    BY <1>1, <1>2, <1>4, <1>5

LEMMA PlacedGame ==
  ASSUME NEW g, Core(g), NEW i \in 1..Len(g.rounds), g.rounds[i].status = "writing",
         NEW place \in Places(g, i)
  PROVE  LET o == Placed(g, i, place)
             mine == SetsOf(g, i)
         IN  /\ o \in Games /\ o.room = g.room /\ o.rounds = g.rounds /\ o.score = g.score
             /\ Len(o.sets) = Len(g.sets)
             /\ \A s \in 1..Len(g.sets) : s \notin mine => o.sets[s] = g.sets[s]
             /\ \A s \in mine :
                  /\ o.sets[s].order = place[s] /\ ~o.sets[s].scored
                  /\ o.sets[s].round = g.sets[s].round /\ o.sets[s].author = g.sets[s].author
             /\ SetsOf(o, i) = mine
             /\ ScoresKept(g, o)
  <1> DEFINE o == Placed(g, i, place)
             mine == SetsOf(g, i)
             placed(s) == [g.sets[s] EXCEPT !.order = place[s]]
             row(s) == IF s \in mine THEN placed(s) ELSE g.sets[s]
             list == [s \in 1..Len(g.sets) |-> row(s)]
  <1>1. g \in Games /\ Presented(g, i) /\ DOMAIN g.sets = 1..Len(g.sets)
    BY RowAt DEF Core
  <1>2. \A s \in mine : ~g.sets[s].scored
    BY <1>1 DEF Presented
  <1>3. o = [g EXCEPT !.sets = list]
    BY <1>1 DEF Placed
  <1>4. \A s \in mine : place[s] \in Nat
    <2>1. Cardinality(mine) \in Nat
      BY <1>1, SetsOfRound
    <2>2. \A s \in mine : place[s] \in 1..Cardinality(mine)
      BY <1>1, PlacesFound
    <2>. QED
      BY <2>1, <2>2
  <1>5. /\ mine \subseteq 1..Len(g.sets) /\ Len(g.sets) \in Nat
        /\ \A s \in 1..Len(g.sets) : g.sets[s] \in TruthSets
        /\ \A s : s \in mine <=> s \in 1..Len(g.sets) /\ g.sets[s].round = i
    BY <1>1, SetsOfRound, RowAt
  <1>6. ASSUME NEW s \in mine
        PROVE  /\ placed(s) \in TruthSets
               /\ placed(s).order = place[s] /\ ~placed(s).scored
               /\ placed(s).round = g.sets[s].round /\ placed(s).author = g.sets[s].author
               /\ placed(s).truth = g.sets[s].truth
    <2>1. place[s] \in Nat /\ g.sets[s] \in TruthSets /\ ~g.sets[s].scored
      BY <1>2, <1>4, <1>5
    <2>. QED
      BY <2>1 DEF TruthSets
  <1> HIDE DEF placed
  <1>7. \A s \in 1..Len(g.sets) : row(s) \in TruthSets
    BY <1>5, <1>6
  <1> HIDE DEF row
  <1>8. /\ list \in Seq(TruthSets) /\ Len(list) = Len(g.sets)
        /\ \A s \in 1..Len(g.sets) : list[s] = row(s)
        /\ DOMAIN list = 1..Len(g.sets)
    BY <1>5, <1>7
  <1> HIDE DEF list
  <1>9. /\ o \in Games /\ o.room = g.room /\ o.rounds = g.rounds /\ o.sets = list
        /\ o.score = g.score
    BY <1>1, <1>3, <1>8 DEF Games
  <1> HIDE DEF o
  <1>10. \A s \in mine : o.sets[s] = placed(s)
    BY <1>5, <1>8, <1>9 DEF row
  <1>11. \A s \in 1..Len(g.sets) : s \notin mine => o.sets[s] = g.sets[s]
    BY <1>8, <1>9 DEF row
  <1>12. SetsOf(o, i) = mine
    <2>1. \A s : s \in SetsOf(o, i) <=> s \in 1..Len(o.sets) /\ o.sets[s].round = i
      BY <1>9, SetsOfRound
    <2>2. \A s : s \in SetsOf(o, i) <=> s \in mine
      <3> SUFFICES ASSUME NEW s PROVE s \in SetsOf(o, i) <=> s \in mine
        OBVIOUS
      <3>1. CASE s \in mine
        BY <1>5, <1>6, <1>8, <1>9, <1>10, <2>1, <3>1
      <3>2. CASE s \notin mine
        BY <1>5, <1>8, <1>9, <1>11, <2>1, <3>2
      <3>. QED
        BY <3>1, <3>2
    <2>. QED
      BY <2>2
  <1>13. ScoresKept(g, o)
    <2>1. \A s \in 1..Len(g.sets) :
            /\ o.sets[s].scored = g.sets[s].scored
            /\ o.sets[s].truth = g.sets[s].truth /\ o.sets[s].author = g.sets[s].author
      <3> SUFFICES ASSUME NEW s \in 1..Len(g.sets)
                   PROVE  /\ o.sets[s].scored = g.sets[s].scored
                          /\ o.sets[s].truth = g.sets[s].truth
                          /\ o.sets[s].author = g.sets[s].author
        OBVIOUS
      <3>1. CASE s \in mine
        <4>1. g.sets[s].scored \in BOOLEAN /\ o.sets[s].scored \in BOOLEAN
          BY <1>5, <1>6, <1>10, <3>1 DEF TruthSets
        <4>. QED
          BY <1>2, <1>6, <1>10, <3>1, <4>1
      <3>2. CASE s \notin mine
        BY <1>11, <3>2
      <3>. QED
        BY <3>1, <3>2
    <2>2. DOMAIN o.sets = 1..Len(g.sets)
      BY <1>8, <1>9
    <2>3. ScoredSets(o) = ScoredSets(g)
      BY <1>1, <2>1, <2>2 DEF ScoredSets
    <2>. QED
      BY <1>1, <1>9, <2>1, <2>3 DEF ScoresKept, ScoredSets
  <1>. QED
    BY <1>6, <1>8, <1>9, <1>10, <1>11, <1>12, <1>13 DEF o

\* The first of the sets is shown.
LEMMA ShownExact ==
  ASSUME RowsOK, NEW g, NEW i, Arranged(g, i), NEW s \in SetsOf(g, i),
         \A t \in SetsOf(g, i) : g.sets[s].order <= g.sets[t].order,
         NEW row \in Rounds, row.number = g.rounds[i].number,
         row.status = "presentation_voting", row.active = s, row.pausedAt = NoTime,
         row.phaseEndsAt # NoTime
  PROVE  Exact(WithRound(g, i, row))
  <1>1. PICK e, place :
          /\ Exact(e) /\ i \in 1..Len(e.rounds) /\ e.rounds[i].status = "writing"
          /\ SetsOf(e, i) # {} /\ place \in Places(e, i)
          /\ g = Placed(e, i, place)
    BY DEF Arranged
  <1>2. /\ Core(e) /\ e \in Games /\ Sound(e, HostHere) /\ HostHere \in BOOLEAN /\ now \in Nat
        /\ Presented(e, i) /\ e.rounds[i] \in Rounds
    BY <1>1, HostHereBoolean, RowsFound, RowAt DEF Exact, Sound, Core
  <1>3. PICK mine : mine = SetsOf(e, i)
    OBVIOUS
  <1>4. /\ g \in Games /\ g.room = e.room /\ g.rounds = e.rounds /\ g.score = e.score
        /\ Len(g.sets) = Len(e.sets)
        /\ \A t \in 1..Len(e.sets) : t \notin mine => g.sets[t] = e.sets[t]
        /\ \A t \in mine :
             /\ g.sets[t].order = place[t] /\ ~g.sets[t].scored
             /\ g.sets[t].round = e.sets[t].round /\ g.sets[t].author = e.sets[t].author
        /\ SetsOf(g, i) = mine
        /\ ScoresKept(e, g)
    BY <1>1, <1>2, <1>3, PlacedGame
  <1>5. PICK n : n = Cardinality(mine)
    OBVIOUS
  <1>6. /\ \A t \in mine : place[t] \in 1..n
        /\ \A t, u \in mine : place[t] = place[u] => t = u
        /\ \A k \in 1..n : \E t \in mine : place[t] = k
        /\ {place[t] : t \in mine} = 1..n
    BY <1>1, <1>2, <1>3, <1>5, PlacesFound
  <1>7. /\ IsFiniteSet(mine) /\ n \in Nat
        /\ \A t : t \in mine <=> t \in 1..Len(e.sets) /\ e.sets[t].round = i
        /\ Len(e.sets) \in Nat
    BY <1>2, <1>3, <1>5, SetsOfRound, RowAt
  <1>8. s \in mine /\ place[s] = 1
    <2>1. n # 0
      BY <1>1, <1>3, <1>5, <1>7, FS_EmptySet
    <2>2. PICK t \in mine : place[t] = 1
      BY <1>6, <1>7, <2>1
    <2>3. g.sets[s].order <= g.sets[t].order
      BY <1>4, <2>2
    <2>. QED
      BY <1>4, <1>6, <1>7, <2>2, <2>3
  <1>9. PICK h : h = WithRound(g, i, row)
    OBVIOUS
  <1>10. /\ h \in Games /\ h.room = g.room /\ h.sets = g.sets /\ h.score = g.score
         /\ h.rounds[i] = row /\ Rewrites(g, h, i) /\ SetsOf(h, i) = mine
    BY <1>1, <1>4, <1>9, RoundRow
  <1>11. Rewrites(e, h, i)
    <2>1. /\ Len(h.rounds) = Len(e.rounds)
          /\ \A j \in 1..Len(e.rounds) : j # i => h.rounds[j] = e.rounds[j]
      BY <1>4, <1>10 DEF Rewrites
    <2>2. ASSUME NEW t \in 1..Len(e.sets)
          PROVE  /\ h.sets[t].round = e.sets[t].round /\ h.sets[t].author = e.sets[t].author
                 /\ e.sets[t].round # i => h.sets[t] = e.sets[t]
      BY <1>4, <1>7, <1>10
    <2>. QED
      BY <1>4, <1>10, <2>1, <2>2 DEF Rewrites
  <1>12. RoundSound(h, i)
    <2>1. h.rounds[i].number = e.rounds[i].number /\ h.rounds[i].pausedAt <= now
          /\ (h.rounds[i].phaseEndsAt = NoTime <=> h.rounds[i].status = "finished")
      BY <1>2, <1>4, <1>10 DEF NoTime
    <2>2. e.rounds[i].status # "finished" /\ Len(h.rounds) = Len(e.rounds)
      BY <1>1, <1>11 DEF Rewrites
    <2>. QED
      BY <1>1, <1>2, <1>10, <2>1, <2>2, NextRow
  <1>13. Presented(h, i)
    <2>1. {h.sets[t].order : t \in mine} = 1..n
      BY <1>4, <1>6, <1>10
    <2>2. \A t, u \in mine : h.sets[t].order = h.sets[u].order => t = u
      BY <1>4, <1>6, <1>10
    <2>3. \A t \in mine : ~h.sets[t].scored /\ ~(h.sets[t].order < 1)
      BY <1>4, <1>6, <1>7, <1>10
    <2>4. h.sets[s].order = 1 /\ h.rounds[i].active = s
          /\ h.rounds[i].status = "presentation_voting"
      BY <1>4, <1>8, <1>10
    <2>5. \A t \in mine :
            h.sets[t].scored <=>
              \/ h.sets[t].order < h.sets[s].order
              \/ t = s /\ h.rounds[i].status # "presentation_voting"
              \/ h.rounds[i].status = "finished"
      BY <2>3, <2>4
    <2>. QED
      BY <1>5, <1>8, <1>10, <2>1, <2>2, <2>4, <2>5 DEF Presented
  <1>14. StageOf(h, i) - StageOf(e, i) \in 0..1
    <2>1. StageOf(h, i) = 3
      <3>1. h.rounds[i].active = s /\ s # 0 /\ h.sets[s].order = 1
            /\ h.rounds[i].status = "presentation_voting"
        BY <1>4, <1>7, <1>8, <1>10
      <3>. QED
        BY <3>1 DEF StageOf
    <2>2. StageOf(e, i) = 2
      BY <1>1 DEF StageOf
    <2>. QED
      BY <2>1, <2>2
  <1>15. Step(e, h, HostHere, 1)
    <2>1. h.room = e.room /\ h.rounds[i].status # "finished" /\ e.rounds[i].status # "finished"
          /\ h.rounds[i].pausedAt = NoTime
      BY <1>1, <1>4, <1>10
    <2>. QED
      BY <1>1, <1>2, <1>10, <1>11, <1>12, <1>13, <1>14, <2>1, RewriteStep, 1 \in Nat
  <1>16. ScoresKept(e, h)
    BY <1>4, <1>9, RowScores, ScoresTransitive
  <1>17. Exact(h)
    BY <1>1, <1>15, <1>16, ExactStep, 1 \in Nat
  <1>. QED
    BY <1>9, <1>17

LEMMA ShowingFields ==
  ASSUME NEW r \in Requests, NEW s \in Nat
  PROVE  LET row == Showing(r, s)
         IN  /\ row \in Rounds /\ row.number = r.round.number
             /\ row.status = "presentation_voting" /\ row.active = s
             /\ row.pausedAt = NoTime /\ row.phaseEndsAt # NoTime
             /\ row.phaseEndsAt = r.clock + VoteTime
  <1>1. r.round \in Rounds /\ r.clock + VoteTime \in Nat
    BY RequestFields, TLTimesAssumption
  <1>2. PICK end : end = r.clock + VoteTime
    OBVIOUS
  <1>3. end \in Nat /\ end # NoTime /\ "presentation_voting" \in RoundStatus
    BY <1>1, <1>2 DEF NoTime, RoundStatus, Presenting
  <1>4. Showing(r, s) = [[r.round EXCEPT !.status = "presentation_voting", !.phaseEndsAt = end,
                                         !.pausedAt = NoTime] EXCEPT !.active = s]
    BY <1>2 DEF Showing, Entering
  <1>5. PICK row : row = Showing(r, s)
    OBVIOUS
  <1>6. /\ row \in Rounds /\ row.number = r.round.number
        /\ row.status = "presentation_voting" /\ row.active = s
        /\ row.pausedAt = NoTime /\ row.phaseEndsAt = end
    BY <1>1, <1>3, <1>4, <1>5 DEF Rounds
  <1>. QED
    BY <1>2, <1>3, <1>5, <1>6

LEMMA FirstSetSlow ==
  ASSUME Alone, NEW w \in Workers, FirstSet(w), now' = now
  PROVE  SlowInv'
  <1>1. Doing(w, "firstSet") /\ RowsKept
    BY DEF FirstSet
  <1>2. req[w].todo # <<>> /\ Call(w).call = "firstSet"
    BY <1>1 DEF Doing, Call
  <1>3. PICK r : r = req[w]
    OBVIOUS
  <1>4. /\ r \in Requests /\ Promise(r) /\ r.todo # <<>> /\ r.todo[1].call = "firstSet"
        /\ RowsOK /\ game.rounds = rounds /\ game.sets = sets
        /\ sets \in Seq(TruthSets) /\ DOMAIN sets = 1..Len(sets) /\ Len(sets) \in Nat
    BY <1>2, <1>3, AloneFound
  <1>5. Arranged(game, r.at) /\ Fresh(r, game)
    BY <1>4, ReadsAtRest DEF Writes, Copying
  <1>6. PICK s \in SetsOf(game, r.at) :
          /\ \A t \in SetsOf(game, r.at) : sets[s].order <= sets[t].order
          /\ Moves(w, r, Showing(r, s))
    BY <1>3 DEF FirstSet
  <1>7. s \in Nat
    BY <1>4, <1>6 DEF SetsOf
  <1>8. PICK row : row = Showing(r, s)
    OBVIOUS
  <1>9. /\ row \in Rounds /\ row.number = r.round.number
        /\ row.status = "presentation_voting" /\ row.active = s
        /\ row.pausedAt = NoTime /\ row.phaseEndsAt # NoTime
    BY <1>4, <1>7, <1>8, ShowingFields
  <1>10. Exact(WithRound(game, r.at, row))
    BY <1>4, <1>5, <1>6, <1>9, ShownExact DEF Fresh
  <1>11. /\ r.todo = req[w].todo /\ r.at \in 1..Len(rounds) /\ Call(w).call \in Syncing
         /\ Moves(w, r, row)
    BY <1>2, <1>3, <1>4, <1>5, <1>6, <1>8 DEF Fresh, Syncing
  <1>. QED
    BY <1>1, <1>2, <1>4, <1>9, <1>10, <1>11, MoveSlow

\* The set that is voted on.
LEMMA ActiveUnscored ==
  ASSUME RowsOK, NEW r, Exact(game), Fresh(r, game), r.round.status = "presentation_voting"
  PROVE  LET s == r.round.active
         IN  /\ s \in SetsOf(game, r.at) /\ s \in 1..Len(sets) /\ s \in Nat
             /\ sets[s] \in TruthSets /\ ~sets[s].scored
  <1>1. /\ game.rounds = rounds /\ game.sets = sets /\ Core(game) /\ game \in Games
        /\ Len(sets) \in Nat
    BY RowsFound DEF Exact, Sound, Core, game
  <1>2. r.at \in 1..Len(rounds) /\ rounds[r.at] = r.round
    BY <1>1 DEF Fresh
  <1>3. PICK s : s = r.round.active
    OBVIOUS
  <1>4. /\ s \in SetsOf(game, r.at) /\ s \in 1..Len(sets) /\ sets[s] \in TruthSets
    BY <1>1, <1>2, <1>3, ActiveSet DEF Presenting
  <1>5. sets[s].order \in Nat
    BY <1>4 DEF TruthSets
  <1>6. ~sets[s].scored
    <2>1. Presented(game, r.at)
      BY <1>1, <1>2 DEF Core
    <2>2. sets[s].scored <=> sets[s].order < sets[s].order
      BY <1>1, <1>2, <1>3, <1>4, <2>1 DEF Presented
    <2>. QED
      BY <1>5, <2>2
  <1>. QED
    BY <1>1, <1>3, <1>4, <1>6

LEMMA LooksAtRest ==
  ASSUME Alone, NEW w \in Workers, NEW call, Doing(w, call), call \in Looking, RowsKept
  PROVE  /\ req[w].todo # <<>> /\ Call(w).call = call /\ req[w] \in Requests
         /\ RowsOK /\ RowsTyped /\ Exact(game) /\ Ready(req[w], Call(w)) /\ Fresh(req[w], game)
         /\ Call(w).call \in Syncing
         /\ req[w].round \in Rounds /\ req[w].clock \in Nat
         /\ call \in {"readActive", "listVotes"} => req[w].round.status = "presentation_voting"
         /\ call = "listNext" => req[w].round.status = "commentary"
  <1>1. /\ req[w].todo # <<>> /\ Call(w).call = call /\ req[w] \in Requests
        /\ Exact(game) /\ Ready(req[w], Call(w)) /\ Fresh(req[w], game)
    BY ReadHead DEF Copying
  <1>2. Head(req[w].todo).call = call
    BY <1>1 DEF Call
  <1>3. RowsOK /\ RowsTyped /\ BurstOK
    BY <1>1, AloneFound
  <1>4. /\ req[w].round \in Rounds /\ req[w].clock \in Nat
        /\ Head(req[w].todo).call \in {"readActive", "listVotes"} =>
             req[w].round.status = "presentation_voting"
        /\ Head(req[w].todo).call = "listNext" => req[w].round.status = "commentary"
    BY <1>1, <1>2, <1>3, LookingFound
  <1>. QED
    BY <1>1, <1>2, <1>3, <1>4 DEF Syncing

LEMMA ReadActiveSlow ==
  ASSUME Alone, NEW w \in Workers, ReadActive(w), now' = now
  PROVE  SlowInv'
  <1>1. Doing(w, "readActive") /\ RowsKept
    BY DEF ReadActive
  <1>2. PICK r : r = req[w]
    OBVIOUS
  <1>3. /\ r.todo # <<>> /\ r \in Requests /\ RowsOK /\ Exact(game) /\ Fresh(r, game)
        /\ Call(w).call \in Syncing /\ r.round.status = "presentation_voting"
    BY <1>1, <1>2, LooksAtRest DEF Looking
  <1>4. PICK s : s = r.round.active
    OBVIOUS
  <1>5. s \in Nat /\ sets[s] \in TruthSets /\ ~sets[s].scored
    BY <1>3, <1>4, ActiveUnscored
  <1>6. PICK c : c = [call |-> "listVotes", set |-> s, row |-> sets[s]]
    OBVIOUS
  <1>7. c \in CallRows /\ c.call = "listVotes" /\ c.set = s /\ c.row = sets[s]
    BY <1>5, <1>6 DEF CallRows
  <1>8. Before(w, <<c>>, r)
    BY <1>2, <1>4, <1>5, <1>6 DEF ReadActive
  <1>9. Ready(r, c) /\ c.call \in Looking
    BY <1>4, <1>7 DEF Ready, Looking
  <1>. QED
    BY <1>1, <1>2, <1>3, <1>7, <1>8, <1>9, LookSlow

\* Several writes, before the rest of the request.
LEMMA FrontSlow ==
  ASSUME Alone, NEW w \in Workers, req[w].todo # <<>>, RowsKept, now' = now,
         Call(w).call \in Syncing, NEW r \in Requests, r.todo = req[w].todo,
         NEW front \in Seq(CallRows), front # <<>>, Before(w, front, r),
         NEW f, f[0] = game,
         \A k \in 1..Len(front) :
           front[k].call \in Writes /\ f[k] = Applied(f[k - 1], r.at, front[k]),
         Exact(f[Len(front)]),
         front[Len(front)].call = "createRound" \/ Fresh(r, f[Len(front)])
  PROVE  SlowInv'
  <1>1. PICK q : q = req[w].todo
    OBVIOUS
  <1>2. q \in Seq(CallRows) /\ InLine(q) /\ q # <<>> /\ q[1] = Call(w)
    BY <1>1, AloneFound
  <1>3. Call(w).call \in (Asking \ {"accept"}) \cup Looking \cup {"firstSet"}
    BY DEF Syncing, Asking
  <1>4. /\ Tail(q) \in Seq(CallRows)
        /\ Tail(q) # <<>> => Tail(q)[1].call \in Resting \ {"firstSet"}
    BY <1>2, <1>3, RestOfLine
  <1>5. PICK t : t = [r EXCEPT !.todo = front \o Tail(@)]
    OBVIOUS
  <1>6. front \o Tail(q) \in Seq(CallRows)
    BY <1>4, JoinedCalls
  <1>7. t \in Requests /\ t.todo = front \o Tail(q) /\ t.at = r.at /\ t.round = r.round
    BY <1>1, <1>5, <1>6 DEF Requests
  <1>8. Turn(w, t)
    BY <1>5 DEF Before
  <1>9. front[Len(front)].call = "createRound" \/ Fresh(t, f[Len(front)])
    BY <1>7 DEF Fresh
  <1>10. \A k \in 1..Len(front) :
           front[k].call \in Writes /\ f[k] = Applied(f[k - 1], t.at, front[k])
    BY <1>7
  <1>11. Promise(t)
    BY <1>4, <1>7, <1>9, <1>10, WritesPromise
  <1>. QED
    BY <1>8, <1>11, ReadGoesOn

LEMMA LastReplaced ==
  ASSUME NEW q \in Seq(Rounds), NEW x \in Rounds, NEW y \in Rounds, NEW n, n = Len(q) + 1
  PROVE  [Append(q, x) EXCEPT ![n] = y] = Append(q, y)
  <1>1. PICK a : a = Append(q, x)
    OBVIOUS
  <1>2. PICK b : b = Append(q, y)
    OBVIOUS
  <1>3. /\ a \in Seq(Rounds) /\ b \in Seq(Rounds) /\ Len(a) = n /\ Len(b) = n /\ b[n] = y
        /\ n \in Nat
    BY <1>1, <1>2
  <1>4. \A i \in 1..n : i # n => a[i] = b[i]
    <2>1. ASSUME NEW i \in 1..n, i # n
          PROVE  a[i] = q[i] /\ b[i] = q[i]
      <3>1. i \in 1..Len(q)
        BY <1>3, <2>1
      <3>. QED
        BY <1>1, <1>2, <3>1
    <2>. QED
      BY <2>1
  <1>5. DOMAIN a = 1..n /\ DOMAIN b = 1..n /\ a = [i \in 1..n |-> a[i]]
        /\ b = [i \in 1..n |-> b[i]]
    BY <1>3
  <1>6. [a EXCEPT ![n] = y] = [i \in 1..n |-> IF i = n THEN y ELSE a[i]]
    BY <1>5
  <1>7. [i \in 1..n |-> IF i = n THEN y ELSE a[i]] = [i \in 1..n |-> b[i]]
    BY <1>3, <1>4
  <1>. QED
    BY <1>1, <1>2, <1>5, <1>6, <1>7

LEMMA AppendedExact ==
  ASSUME RowsOK, NEW g \in Games, NEW row \in Rounds, NEW late \in Rounds,
         Exact([g EXCEPT !.rounds = Append(@, row)]),
         late.number = row.number, late.status = row.status, late.active = row.active,
         late.pausedAt = row.pausedAt, row.phaseEndsAt # NoTime, late.phaseEndsAt # NoTime
  PROVE  Exact([g EXCEPT !.rounds = Append(@, late)])
  <1>1. PICK h : h = [g EXCEPT !.rounds = Append(@, row)]
    OBVIOUS
  <1>2. PICK n : n = Len(g.rounds) + 1
    OBVIOUS
  <1>3. /\ g.rounds \in Seq(Rounds) /\ n \in Nat \ {0}
        /\ Append(g.rounds, row) \in Seq(Rounds) /\ Len(Append(g.rounds, row)) = n
        /\ Append(g.rounds, row)[n] = row
    BY <1>2, RowAt, AppendRow
  <1>4. PICK q : q = Append(g.rounds, row)
    OBVIOUS
  <1>5. h \in Games /\ h.rounds = q /\ n \in 1..Len(h.rounds) /\ h.rounds[n] = row
    <2>1. h = [g EXCEPT !.rounds = q] /\ q \in Seq(Rounds)
      BY <1>1, <1>3, <1>4
    <2>2. h \in Games /\ h.rounds = q
      BY <2>1 DEF Games
    <2>. QED
      BY <1>3, <1>4, <2>2
  <1>6. WithRound(h, n, row) = h
    <2>1. [q EXCEPT ![n] = row] = q
      <3>1. PICK same \in Rounds : same = row
        OBVIOUS
      <3>2. [Append(g.rounds, row) EXCEPT ![n] = same] = Append(g.rounds, same)
        <4>1. g.rounds \in Seq(Rounds) /\ n = Len(g.rounds) + 1
          BY <1>2, <1>3
        <4>. QED
          BY <4>1, LastReplaced
      <3>. QED
        BY <1>4, <3>1, <3>2
    <2>2. WithRound(h, n, row) = [h EXCEPT !.rounds = [h.rounds EXCEPT ![n] = row]]
      BY DEF WithRound
    <2>3. [h EXCEPT !.rounds = q] = h
      BY <1>5 DEF Games
    <2>. QED
      BY <1>5, <2>1, <2>2, <2>3
  <1>7. Exact(WithRound(h, n, row))
    BY <1>1, <1>6
  <1>8. Exact(WithRound(h, n, late))
    BY <1>5, <1>7, RetimedExact
  <1>9. [Append(g.rounds, row) EXCEPT ![n] = late] = Append(g.rounds, late)
    BY <1>2, <1>3, LastReplaced
  <1>10. WithRound(h, n, late) = [g EXCEPT !.rounds = Append(@, late)]
    <2>1. WithRound(h, n, late) = [h EXCEPT !.rounds = [h.rounds EXCEPT ![n] = late]]
      BY DEF WithRound
    <2>2. [h EXCEPT !.rounds = [h.rounds EXCEPT ![n] = late]]
            = [h EXCEPT !.rounds = Append(g.rounds, late)]
      BY <1>4, <1>5, <1>9
    <2>3. [h EXCEPT !.rounds = Append(g.rounds, late)]
            = [g EXCEPT !.rounds = Append(g.rounds, late)]
      BY <1>1
    <2>. QED
      BY <2>1, <2>2, <2>3
  <1>. QED
    BY <1>8, <1>10

\* The round that is over is closed, and then the next one opened or the game
\* ended.
LEMMA ClosingExact ==
  ASSUME RowsOK, RowsTyped, Exact(game), NEW r \in Requests, Fresh(r, game),
         r.round.status = "commentary", room.status = "active",
         NextSets(game, r.at) = {},
         NEW new \in Rounds, new.number = r.round.number + 1, new.status = "writing",
         new.active = 0, new.pausedAt = NoTime, new.phaseEndsAt # NoTime
  PROVE  LET f == WithRound(game, r.at, Finished(r.round))
         IN  Exact(IF IsLastRound(Finished(r.round)) THEN WithStatus(f, "finished")
                   ELSE [f EXCEPT !.rounds = Append(@, new)])
  <1>1. PICK i : i = r.at
    OBVIOUS
  <1>2. PICK over : over = Finished(r.round)
    OBVIOUS
  <1>3. PICK f : f = WithRound(game, i, over)
    OBVIOUS
  <1>4. /\ game \in Games /\ Sound(game, HostHere) /\ HostHere \in BOOLEAN /\ now \in Nat
        /\ game.room = room /\ i \in 1..Len(game.rounds) /\ game.rounds[i] = r.round
        /\ r.round \in Rounds
    BY <1>1, HostHereBoolean, RowsFound, RowAt DEF Exact, Sound, Core, Fresh, game
  <1>5. Step(game, AfterCommentary(game, i), HostHere, 1)
    BY <1>4, CommentaryStep
  <1>6. /\ over \in Rounds /\ over.number = r.round.number
    BY <1>2, <1>4 DEF Finished, Rounds, RoundStatus
  <1>7. f \in Games /\ f.sets = game.sets /\ f.score = game.score
    BY <1>3, <1>4, <1>6, RoundRow
  <1>8. CASE IsLastRound(over)
    <2>1. PICK k : k = WithStatus(f, "finished")
      OBVIOUS
    <2>2. AfterCommentary(game, i) = k
      BY <1>1, <1>2, <1>3, <1>4, <1>6, <1>8, <2>1 DEF AfterCommentary, IsLastRound
    <2>3. ScoresKept(game, k)
      BY <1>3, <1>4, <1>7, <2>1, RowScores, StatusScores, ScoresTransitive
    <2>4. Exact(k)
      BY <1>5, <2>2, <2>3, ExactStep, 1 \in Nat
    <2>. QED
      BY <1>1, <1>2, <1>3, <1>8, <2>1, <2>4
  <1>9. CASE ~IsLastRound(over)
    <2>1. PICK row : row = NewRound(r.round.number + 1, "writing", WriteTime)
      OBVIOUS
    <2>2. /\ row \in Rounds /\ row.number = r.round.number + 1 /\ row.status = "writing"
          /\ row.active = 0 /\ row.pausedAt = NoTime /\ row.phaseEndsAt # NoTime
      <3>1. r.round.number + 1 \in Nat \ {0}
        BY <1>4 DEF Rounds
      <3>2. now + WriteTime \in Nat
        BY <1>4, TLTimesAssumption
      <3>. QED
        BY <2>1, <3>1, <3>2 DEF NewRound, Rounds, RoundStatus, NoTime
    <2>3. PICK k : k = [f EXCEPT !.rounds = Append(@, row)]
      OBVIOUS
    <2>4. AfterCommentary(game, i) = k
      BY <1>1, <1>2, <1>3, <1>4, <1>6, <1>9, <2>1, <2>3 DEF AfterCommentary, IsLastRound
    <2>5. ScoresKept(game, k)
      <3>1. k.sets = f.sets /\ k.score = f.score
        BY <1>7, <2>3 DEF Games
      <3>. QED
        BY <1>7, <3>1 DEF ScoresKept, ScoredSets
    <2>6. Exact(k)
      BY <1>5, <2>4, <2>5, ExactStep, 1 \in Nat
    <2>7. Exact([f EXCEPT !.rounds = Append(@, new)])
      BY <1>7, <2>2, <2>3, <2>6, AppendedExact
    <2>. QED
      BY <1>1, <1>2, <1>3, <1>9, <2>7
  <1>. QED
    BY <1>8, <1>9

LEMMA TwoWrites ==
  ASSUME NEW a \in CallRows, NEW b \in CallRows, a.call \in Writes, b.call \in Writes, NEW at,
         NEW g, g = Applied(game, at, a), NEW h, h = Applied(g, at, b)
  PROVE  /\ <<a, b>> \in Seq(CallRows) /\ <<a, b>> # <<>> /\ Len(<<a, b>>) = 2
         /\ <<a, b>>[2] = b
         /\ \E f : /\ f[0] = game /\ f[2] = h
                   /\ \A k \in 1..Len(<<a, b>>) :
                        <<a, b>>[k].call \in Writes /\ f[k] = Applied(f[k - 1], at, <<a, b>>[k])
  <1>1. /\ <<a, b>> \in Seq(CallRows) /\ <<a, b>> # <<>> /\ Len(<<a, b>>) = 2
        /\ <<a, b>>[1] = a /\ <<a, b>>[2] = b
    OBVIOUS
  <1>2. PICK f : f = [k \in 0..2 |-> IF k = 0 THEN game ELSE IF k = 1 THEN g ELSE h]
    OBVIOUS
  <1>3. f[0] = game /\ f[1] = g /\ f[2] = h
    BY <1>2
  <1>4. PICK q : q = <<a, b>>
    OBVIOUS
  <1>5. \A k \in 1..Len(q) : q[k].call \in Writes /\ f[k] = Applied(f[k - 1], at, q[k])
    <2>1. \A k \in 1..Len(q) : (k = 1 /\ k - 1 = 0) \/ (k = 2 /\ k - 1 = 1)
      BY <1>1, <1>4
    <2>2. q[1].call \in Writes /\ f[1] = Applied(f[0], at, q[1])
      BY <1>1, <1>3, <1>4
    <2>3. q[2].call \in Writes /\ f[2] = Applied(f[1], at, q[2])
      BY <1>1, <1>3, <1>4
    <2>. QED
      BY <2>1, <2>2, <2>3
  <1>. QED
    BY <1>1, <1>3, <1>4, <1>5

LEMMA ListNextSlow ==
  ASSUME Alone, NEW w \in Workers, ListNext(w), now' = now
  PROVE  SlowInv'
  <1>1. Doing(w, "listNext") /\ RowsKept
    BY DEF ListNext
  <1>2. PICK r : r = req[w]
    OBVIOUS
  <1>3. /\ r.todo # <<>> /\ r \in Requests /\ RowsOK /\ RowsTyped /\ Exact(game) /\ Fresh(r, game)
        /\ Call(w).call \in Syncing /\ r.round.status = "commentary" /\ Ready(r, Call(w))
        /\ Call(w).call = "listNext" /\ r.round \in Rounds /\ r.clock \in Nat
    BY <1>1, <1>2, LooksAtRest DEF Looking
  <1>4. /\ game \in Games /\ Sound(game, HostHere) /\ HostHere \in BOOLEAN /\ now \in Nat
        /\ game.room = room /\ game.rounds = rounds /\ game.sets = sets
        /\ r.at \in 1..Len(rounds) /\ rounds[r.at] = r.round /\ room.status = "active"
    BY <1>3, HostHereBoolean, RowsFound DEF Exact, Sound, Core, Fresh, game, Ready
  <1>5. NextSets(game, r.at) =
          {s \in SetsOf(game, r.at) :
             sets[r.round.active].order # 0 /\ sets[s].order = sets[r.round.active].order + 1}
    BY <1>4 DEF NextSets
  <1>6. CASE \E s \in NextSets(game, r.at) : Moves(w, r, Showing(r, s))
    <2>1. PICK s \in NextSets(game, r.at) : Moves(w, r, Showing(r, s))
      BY <1>6
    <2>2. s \in Nat
      <3>1. s \in SetsOf(game, r.at)
        BY <1>5, <2>1
      <3>2. s \in 1..Len(game.sets) /\ Len(game.sets) \in Nat
        BY <1>4, <3>1, SetsOfRound, RowAt
      <3>. QED
        BY <3>2
    <2>3. PICK late : late = Showing(r, s)
      OBVIOUS
    <2>4. /\ late \in Rounds /\ late.number = r.round.number
          /\ late.status = "presentation_voting" /\ late.active = s
          /\ late.pausedAt = NoTime /\ late.phaseEndsAt # NoTime
      BY <1>3, <2>2, <2>3, ShowingFields
    <2>5. PICK voting : voting = Enter(rounds[r.at], "presentation_voting", VoteTime)
      OBVIOUS
    <2>6. /\ voting \in Rounds /\ voting.number = r.round.number
          /\ voting.status = "presentation_voting" /\ voting.pausedAt = NoTime
          /\ voting.phaseEndsAt # NoTime
      BY <1>3, <1>4, <2>5, EnterRow DEF RoundStatus, Presenting
    <2>7. PICK row : row = [voting EXCEPT !.active = s]
      OBVIOUS
    <2>8. /\ row \in Rounds /\ row.number = r.round.number
          /\ row.status = "presentation_voting" /\ row.active = s
          /\ row.pausedAt = NoTime /\ row.phaseEndsAt # NoTime
      BY <2>2, <2>6, <2>7 DEF Rounds
    <2>9. Present(game, r.at, s) = WithRound(game, r.at, row)
      BY <1>4, <2>5, <2>7 DEF Present
    <2>10. Step(game, WithRound(game, r.at, row), HostHere, 1)
      BY <1>3, <1>4, <2>1, <2>9, NextSetStep
    <2>11. Exact(WithRound(game, r.at, row))
      BY <1>3, <1>4, <2>10, RowScores, ExactStep, 1 \in Nat
    <2>12. Exact(WithRound(game, r.at, late))
      BY <1>3, <1>4, <2>4, <2>8, <2>11, RetimedExact
    <2>13. Moves(w, r, late)
      BY <2>1, <2>3
    <2>. QED
      BY <1>1, <1>2, <1>3, <1>4, <2>4, <2>12, <2>13, MoveSlow
  <1>7. CASE /\ NextSets(game, r.at) = {}
             /\ Before(w, Closing(Finished(r.round),
                                  [NoRow EXCEPT !.number = NumberAfter(r.round.number),
                                                !.phaseEndsAt = r.clock + WriteTime]),
                       [r EXCEPT !.round = Finished(r.round)])
    <2>1. PICK over : over = Finished(r.round)
      OBVIOUS
    <2>2. PICK new : new = [NoRow EXCEPT !.number = NumberAfter(r.round.number),
                                         !.phaseEndsAt = r.clock + WriteTime]
      OBVIOUS
    <2>3. over \in Rounds
      BY <1>3, <2>1 DEF Finished, Rounds, RoundStatus
    <2>4. /\ new \in Rounds /\ new.number = r.round.number + 1 /\ new.status = "writing"
          /\ new.active = 0 /\ new.pausedAt = NoTime /\ new.phaseEndsAt # NoTime
      <3>1. r.round.number + 1 \in Nat \ {0} /\ r.clock + WriteTime \in Nat
        <4>1. r.round.number \in Nat /\ r.clock \in Nat
          BY <1>3 DEF Rounds
        <4>2. WriteTime \in Nat
          BY TLTimesAssumption
        <4>. QED
          BY <4>1, <4>2
      <3>2. PICK number : number = r.round.number + 1
        OBVIOUS
      <3>3. PICK end : end = r.clock + WriteTime
        OBVIOUS
      <3>4. new = [NoRow EXCEPT !.number = number, !.phaseEndsAt = end]
        BY <2>2, <3>2, <3>3 DEF NumberAfter
      <3>5. number \in Nat \ {0} /\ end \in Nat /\ end # NoTime
        BY <3>1, <3>2, <3>3 DEF NoTime
      <3>6. /\ new \in Rounds /\ new.number = number /\ new.status = "writing"
            /\ new.active = 0 /\ new.pausedAt = NoTime /\ new.phaseEndsAt = end
        BY <3>4, <3>5 DEF NoRow, Rounds, RoundStatus
      <3>. QED
        BY <3>2, <3>5, <3>6
    <2>5. PICK a : a = WriteRound(over)
      OBVIOUS
    <2>6. PICK b : b = IF IsLastRound(over) THEN WriteRoom("finished") ELSE OpenRound(new)
      OBVIOUS
    <2>7. a \in CallRows /\ a.call = "updateRound" /\ a.row = over
      BY <2>3, <2>5, CallsTyped
    <2>8. /\ b \in CallRows
          /\ IsLastRound(over) => b.call = "updateRoom" /\ b.status = "finished"
          /\ ~IsLastRound(over) => b.call = "createRound" /\ b.row = new
      BY <2>4, <2>6, CallsTyped
    <2>9. PICK f : f = WithRound(game, r.at, over)
      OBVIOUS
    <2>10. PICK h : h = IF IsLastRound(over) THEN WithStatus(f, "finished")
                        ELSE [f EXCEPT !.rounds = Append(@, new)]
      OBVIOUS
    <2>11. Exact(h)
      BY <1>3, <1>4, <1>7, <2>1, <2>4, <2>9, <2>10, ClosingExact
    <2>12. f = Applied(game, r.at, a) /\ h = Applied(f, r.at, b)
           /\ a.call \in Writes /\ b.call \in Writes
      BY <2>7, <2>8, <2>9, <2>10 DEF Applied, Writes
    <2>13. PICK front : front = <<a, b>>
      OBVIOUS
    <2>14. /\ front \in Seq(CallRows) /\ front # <<>> /\ Len(front) = 2 /\ front[2] = b
      BY <2>7, <2>8, <2>12, <2>13, TwoWrites
    <2>15. PICK z : /\ z[0] = game /\ z[2] = h
                    /\ \A k \in 1..Len(front) :
                         front[k].call \in Writes /\ z[k] = Applied(z[k - 1], r.at, front[k])
      BY <2>7, <2>8, <2>12, <2>13, TwoWrites
    <2>16. PICK u : u = [r EXCEPT !.round = over]
      OBVIOUS
    <2>17. u \in Requests /\ u.todo = r.todo /\ u.at = r.at /\ u.round = over
      BY <1>3, <2>3, <2>16 DEF Requests
    <2>18. Before(w, front, u)
      BY <1>7, <2>1, <2>2, <2>5, <2>6, <2>13, <2>16 DEF Closing
    <2>19. front[Len(front)].call = "createRound" \/ Fresh(u, h)
      <3>1. CASE IsLastRound(over)
        <4>1. f \in Games /\ f.rounds[r.at] = over /\ Len(f.rounds) = Len(rounds)
          BY <1>4, <2>3, <2>9, RoundRow DEF Rewrites
        <4>2. h.rounds = f.rounds
          BY <2>10, <3>1, <4>1 DEF WithStatus, Games
        <4>. QED
          BY <1>4, <2>17, <4>1, <4>2 DEF Fresh
      <3>2. CASE ~IsLastRound(over)
        BY <2>8, <2>14, <3>2
      <3>. QED
        BY <3>1, <3>2
    <2>20. Exact(z[Len(front)])
           /\ (front[Len(front)].call = "createRound" \/ Fresh(u, z[Len(front)]))
      BY <2>11, <2>14, <2>15, <2>19
    <2>21. \A k \in 1..Len(front) :
             front[k].call \in Writes /\ z[k] = Applied(z[k - 1], u.at, front[k])
      BY <2>15, <2>17
    <2>. QED
      BY <1>1, <1>2, <1>3, <2>14, <2>15, <2>17, <2>18, <2>20, <2>21, FrontSlow
  <1>. QED
    BY <1>2, <1>5, <1>6, <1>7 DEF ListNext

\* The sets of a round are written back in the order they were shuffled to.
LEMMA ShuffledPlaces ==
  ASSUME NEW g \in Games, NEW i, NEW shuffled \in SetToSeqs(SetsOf(g, i))
  PROVE  LET n == Cardinality(SetsOf(g, i))
         IN  /\ n \in Nat /\ shuffled \in [1..n -> SetsOf(g, i)] /\ DOMAIN shuffled = 1..n
             /\ \E place \in Places(g, i) :
                  /\ \A k \in 1..n : place[shuffled[k]] = k
                  /\ \A s \in SetsOf(g, i) : shuffled[place[s]] = s
  <1>1. PICK mine : mine = SetsOf(g, i)
    OBVIOUS
  <1>2. PICK n : n = Cardinality(mine)
    OBVIOUS
  <1>3. IsFiniteSet(mine) /\ n \in Nat
    BY <1>1, <1>2, SetsOfRound
  <1>4. /\ shuffled \in [1..n -> mine]
        /\ \A j, k \in 1..n : j # k => shuffled[j] # shuffled[k]
    BY <1>1, <1>2 DEF SetToSeqs
  <1>5. \A s \in mine : \E k \in 1..n : shuffled[k] = s
    BY <1>1, <1>3, <1>4, EveryElement
  <1>6. PICK place : place = [s \in mine |-> CHOOSE k \in 1..n : shuffled[k] = s]
    OBVIOUS
  <1>7. ASSUME NEW s \in mine
        PROVE  place[s] \in 1..n /\ shuffled[place[s]] = s
    <2>1. place[s] = CHOOSE k \in 1..n : shuffled[k] = s
      BY <1>6
    <2>. QED
      BY <1>5, <2>1
  <1>8. \A k \in 1..n : place[shuffled[k]] = k
    <2> SUFFICES ASSUME NEW k \in 1..n PROVE place[shuffled[k]] = k
      OBVIOUS
    <2>1. shuffled[k] \in mine
      BY <1>4
    <2>. QED
      BY <1>4, <1>7, <2>1
  <1>9. place \in Bijection(mine, 1..n)
    <2>1. place \in [mine -> 1..n]
      BY <1>6, <1>7
    <2>2. \A s, t \in mine : place[s] = place[t] => s = t
      BY <1>7
    <2>3. \A k \in 1..n : \E s \in mine : place[s] = k
      BY <1>4, <1>8
    <2>4. place \in Injection(mine, 1..n)
      BY <2>1, <2>2 DEF Injection, IsInjective
    <2>5. place \in Surjection(mine, 1..n)
      BY <2>1, <2>3 DEF Surjection
    <2>. QED
      BY <2>4, <2>5 DEF Bijection
  <1>10. place \in Places(g, i)
    BY <1>1, <1>2, <1>9 DEF Places
  <1>. QED
    BY <1>1, <1>2, <1>3, <1>4, <1>7, <1>8, <1>10

Reorders(g, n, shuffled, f) ==
  /\ f[0] = g
  /\ \A k \in 1..n :
       f[k] = WithSet(f[k - 1], shuffled[k], [g.sets[shuffled[k]] EXCEPT !.order = k])

LEMMA ShuffledGame ==
  ASSUME NEW g \in Games, NEW i, NEW mine, mine = SetsOf(g, i), NEW n, n = Cardinality(mine),
         NEW shuffled \in SetToSeqs(mine)
  PROVE  \E place \in Places(g, i) : \E f :
           Reorders(g, n, shuffled, f) /\ f[n] = Placed(g, i, place)
  <1>3. /\ n \in Nat /\ shuffled \in [1..n -> mine]
    BY ShuffledPlaces
  <1>4. PICK place \in Places(g, i) :
          /\ \A k \in 1..n : place[shuffled[k]] = k
          /\ \A s \in mine : shuffled[place[s]] = s
    BY ShuffledPlaces
  <1>5. \A s \in mine : place[s] \in 1..n
    BY PlacesFound
  <1>6. /\ mine \subseteq DOMAIN g.sets /\ g.sets = [s \in DOMAIN g.sets |-> g.sets[s]]
        /\ g = [g EXCEPT !.sets = g.sets]
    BY RowAt DEF SetsOf, Games
  <1> DEFINE list(k) == [s \in DOMAIN g.sets |->
                           IF s \in mine /\ place[s] <= k THEN [g.sets[s] EXCEPT !.order = place[s]]
                           ELSE g.sets[s]]
             stage(k) == [g EXCEPT !.sets = list(k)]
             f == [k \in 0..n |-> stage(k)]
  <1>7. stage(0) = g
    <2>1. \A s \in mine : ~(place[s] <= 0)
      BY <1>3, <1>5
    <2>2. list(0) = [s \in DOMAIN g.sets |-> g.sets[s]]
      BY <2>1
    <2>. QED
      BY <1>6, <2>2
  <1>8. stage(n) = Placed(g, i, place)
    <2>1. \A s \in mine : place[s] <= n
      BY <1>3, <1>5
    <2>2. list(n) = [s \in DOMAIN g.sets |->
                       IF s \in mine THEN [g.sets[s] EXCEPT !.order = place[s]] ELSE g.sets[s]]
      BY <2>1
    <2>. QED
      BY <2>2 DEF Placed
  <1>9. ASSUME NEW k \in 1..n
        PROVE  stage(k) = WithSet(stage(k - 1), shuffled[k],
                                  [g.sets[shuffled[k]] EXCEPT !.order = k])
    <2>1. PICK x : x = shuffled[k]
      OBVIOUS
    <2>2. PICK row : row = [g.sets[x] EXCEPT !.order = k]
      OBVIOUS
    <2>3. x \in mine /\ place[x] = k /\ x \in DOMAIN g.sets
      BY <1>3, <1>4, <1>6, <2>1
    <2>4. ASSUME NEW s \in mine, s # x
          PROVE  place[s] <= k <=> place[s] <= k - 1
      <3>1. place[s] # k
        BY <1>4, <2>1, <2>4
      <3>2. place[s] \in Int /\ k \in Int
        BY <1>3, <1>5
      <3>. QED
        BY <3>1, <3>2
    <2>5. PICK before : before = list(k - 1)
      OBVIOUS
    <2>6. PICK after : after = list(k)
      OBVIOUS
    <2>7. /\ DOMAIN before = DOMAIN g.sets /\ DOMAIN after = DOMAIN g.sets
          /\ \A s \in DOMAIN g.sets : s # x => after[s] = before[s]
          /\ after[x] = row
          /\ before = [s \in DOMAIN g.sets |-> before[s]]
          /\ after = [s \in DOMAIN g.sets |-> after[s]]
      <3>1. \A s \in DOMAIN g.sets : s # x => after[s] = before[s]
        <4> SUFFICES ASSUME NEW s \in DOMAIN g.sets, s # x PROVE after[s] = before[s]
          OBVIOUS
        <4>1. CASE s \in mine
          BY <2>4, <2>5, <2>6, <4>1
        <4>2. CASE s \notin mine
          BY <2>5, <2>6, <4>2
        <4>. QED
          BY <4>1, <4>2
      <3>2. k <= k
        BY <1>3
      <3>3. after[x] = row
        BY <2>2, <2>3, <2>6, <3>2
      <3>. QED
        BY <2>5, <2>6, <3>1, <3>3
    <2>8. after = [before EXCEPT ![x] = row]
      BY <2>3, <2>7
    <2>9. stage(k - 1) = [g EXCEPT !.sets = before] /\ stage(k) = [g EXCEPT !.sets = after]
      BY <2>5, <2>6
    <2>. HIDE DEF stage, list
    <2>10. WithSet(stage(k - 1), x, row)
             = [stage(k - 1) EXCEPT !.sets = [stage(k - 1).sets EXCEPT ![x] = row]]
      BY DEF WithSet
    <2>11. stage(k - 1).sets = before
      BY <2>9 DEF Games
    <2>12. [stage(k - 1) EXCEPT !.sets = after] = [g EXCEPT !.sets = after]
      BY <2>9
    <2>. QED
      BY <2>1, <2>2, <2>8, <2>9, <2>10, <2>11, <2>12
  <1>. HIDE DEF stage, list
  <1>10. f[0] = g /\ f[n] = Placed(g, i, place)
    <2>1. 0 \in 0..n /\ n \in 0..n
      BY <1>3
    <2>. QED
      BY <1>7, <1>8, <2>1
  <1>11. ASSUME NEW k \in 1..n
         PROVE  f[k] = WithSet(f[k - 1], shuffled[k], [g.sets[shuffled[k]] EXCEPT !.order = k])
    <2>1. k \in 0..n /\ k - 1 \in 0..n
      BY <1>3
    <2>2. f[k] = stage(k) /\ f[k - 1] = stage(k - 1)
      BY <2>1
    <2>. QED
      BY <1>9, <2>2
  <1>. HIDE DEF f
  <1>12. Reorders(g, n, shuffled, f)
    BY <1>10, <1>11 DEF Reorders
  <1>13. \E z : Reorders(g, n, shuffled, z) /\ z[n] = Placed(g, i, place)
    BY <1>10, <1>12
  <1>. QED
    BY <1>13

LEMMA ArrangedPromise ==
  ASSUME NEW t \in Requests, NEW front \in Seq(CallRows), NEW last \in CallRows,
         NEW rest \in Seq(CallRows), t.todo = (front \o <<last>>) \o rest, front # <<>>,
         last.call = "firstSet",
         NEW f, f[0] = game,
         \A k \in 1..Len(front) :
           front[k].call \in Writes /\ f[k] = Applied(f[k - 1], t.at, front[k]),
         Arranged(f[Len(front)], t.at), Fresh(t, f[Len(front)])
  PROVE  Promise(t)
  <1> DEFINE n == Len(front)
             line == front \o <<last>>
  <1>1. /\ line \in Seq(CallRows) /\ Len(line) = n + 1 /\ line[n + 1] = last
        /\ \A k \in 1..n : line[k] = front[k]
        /\ n \in Nat \ {0}
    BY AppendedCall
  <1>. HIDE DEF line
  <1>2. t.todo = line \o rest
    BY DEF line
  <1>3. /\ Len(rest) \in Nat /\ Len(t.todo) = n + 1 + Len(rest)
        /\ \A k \in 1..(n + 1) : t.todo[k] = line[k]
    BY <1>1, <1>2, JoinedCalls
  <1>4. /\ \A k \in 1..n : t.todo[k] = front[k]
        /\ t.todo[n + 1] = last /\ n # Len(t.todo) /\ n \in 0..Len(t.todo)
    BY <1>1, <1>3
  <1>5. Leads(t, n, f[n])
    BY <1>1, <1>4 DEF Leads
  <1>6. Leaves(t, n, f[n])
    <2>1. last.call \notin Writes /\ last.call \in Resting
      BY DEF Writes, Resting
    <2>. QED
      BY <1>1, <1>4, <2>1 DEF Leaves
  <1>. QED
    BY <1>4, <1>5, <1>6 DEF Promise

LEMMA ListSetsSlow ==
  ASSUME Alone, NEW w \in Workers, ListSets(w), now' = now
  PROVE  SlowInv'
  <1>1. Doing(w, "listSets") /\ RowsKept
    BY DEF ListSets
  <1>2. PICK r : r = req[w]
    OBVIOUS
  <1>3. /\ r.todo # <<>> /\ r \in Requests /\ RowsOK /\ Exact(game) /\ Fresh(r, game)
        /\ Call(w).call \in Syncing /\ Ready(r, Call(w)) /\ Call(w).call = "listSets"
    BY <1>1, <1>2, LooksAtRest DEF Looking
  <1>4. PICK i : i = r.at
    OBVIOUS
  <1>5. PICK mine : mine = SetsOf(game, i)
    OBVIOUS
  <1>6. PICK g : g = game
    OBVIOUS
  <1>7. /\ g \in Games /\ Core(g) /\ g.rounds = rounds /\ g.sets = sets
        /\ i \in 1..Len(g.rounds) /\ g.rounds[i] = r.round
        /\ g.rounds[i].status = "writing" /\ mine = SetsOf(g, i)
    BY <1>3, <1>4, <1>5, <1>6, RowsFound DEF Exact, Sound, Core, Fresh, game, Ready
  <1>8. \A s \in mine : sets[s].order = 0 /\ s \in Nat /\ sets[s] \in TruthSets
    <2>1. Presented(g, i)
      BY <1>7 DEF Core
    <2>2. \A s \in mine : s \in Nat /\ g.sets[s] \in TruthSets
      BY <1>7, SetsOfRound, RowAt
    <2>. QED
      BY <1>7, <2>1, <2>2 DEF Presented
  <1>9. CASE mine = {}
    <2>1. End(w)
      BY <1>2, <1>4, <1>5, <1>9 DEF ListSets
    <2>. QED
      BY <1>1, <1>2, <1>3, <2>1, EndSlow
  <1>10. CASE mine # {}
    <2>1. PICK shuffled \in SetToSeqs(mine) :
            Before(w, [k \in DOMAIN shuffled |->
                         WriteSet(shuffled[k], [sets[shuffled[k]] EXCEPT !.order = k])]
                      \o <<Read("firstSet")>>, r)
      <3>1. ~(\A s \in mine : sets[s].order > 0) /\ \E s \in mine : sets[s].order = 0
        BY <1>8, <1>10
      <3>2. SetsOf(game, req[w].at) = mine /\ req[w] = r
        BY <1>2, <1>4, <1>5
      <3>. QED
        BY <1>10, <3>1, <3>2 DEF ListSets
    <2>2. PICK n : n = Cardinality(mine)
      OBVIOUS
    <2>3. n \in Nat /\ shuffled \in [1..n -> mine] /\ DOMAIN shuffled = 1..n
      BY <1>7, <2>1, <2>2, ShuffledPlaces
    <2>4. PICK place \in Places(g, i) : \E f :
            Reorders(g, n, shuffled, f) /\ f[n] = Placed(g, i, place)
      BY <1>7, <2>1, <2>2, ShuffledGame
    <2>5. PICK f : Reorders(g, n, shuffled, f) /\ f[n] = Placed(g, i, place)
      BY <2>4
    <2>6. PICK front : front = [k \in DOMAIN shuffled |->
                                  WriteSet(shuffled[k], [sets[shuffled[k]] EXCEPT !.order = k])]
      OBVIOUS
    <2>7. ASSUME NEW k \in 1..n
          PROVE  /\ front[k] \in CallRows /\ front[k].call = "updateSet"
                 /\ f[k] = Applied(f[k - 1], i, front[k])
      <3>1. PICK s : s = shuffled[k]
        OBVIOUS
      <3>2. PICK row : row = [sets[s] EXCEPT !.order = k]
        OBVIOUS
      <3>3. s \in Nat /\ sets[s] \in TruthSets /\ k \in Nat
        BY <1>8, <2>3, <3>1
      <3>4. row \in TruthSets
        BY <3>2, <3>3 DEF TruthSets
      <3>5. front[k] = WriteSet(s, row)
        BY <2>3, <2>6, <3>1, <3>2
      <3>6. /\ front[k] \in CallRows /\ front[k].call = "updateSet" /\ front[k].set = s
            /\ front[k].row = row
        BY <3>3, <3>4, <3>5, CallsTyped
      <3>7. f[k] = WithSet(f[k - 1], s, row)
        BY <1>7, <2>5, <3>1, <3>2 DEF Reorders
      <3>. QED
        BY <3>6, <3>7 DEF Applied
    <2>8. front \in Seq(CallRows) /\ Len(front) = n
      <3>1. front \in [1..n -> CallRows]
        BY <2>3, <2>6, <2>7
      <3>. QED
        BY <2>3, <3>1, FunctionIsSequence
    <2>9. n # 0
      BY <1>7, <1>10, <2>2, SetsOfRound, FS_EmptySet
    <2>10. front # <<>>
      BY <2>3, <2>8, <2>9
    <2>11. PICK last : last = Read("firstSet")
      OBVIOUS
    <2>12. last \in CallRows /\ last.call = "firstSet"
      BY <2>11, CallsTyped
    <2>13. Before(w, front \o <<last>>, r)
      BY <2>1, <2>6, <2>11
    <2>14. PICK rest : rest = Tail(r.todo)
      OBVIOUS
    <2>15. rest \in Seq(CallRows)
      BY <1>3, <2>14, TailCalls DEF Requests
    <2>16. front \o <<last>> \in Seq(CallRows)
      BY <2>8, <2>12, AppendedCall
    <2>17. (front \o <<last>>) \o rest \in Seq(CallRows)
      BY <2>15, <2>16, JoinedCalls
    <2>18. PICK line : line = (front \o <<last>>) \o rest
      OBVIOUS
    <2>19. PICK t : t = [r EXCEPT !.todo = line]
      OBVIOUS
    <2>20. t \in Requests /\ t.todo = line /\ t.at = r.at /\ t.round = r.round
      BY <1>3, <2>17, <2>18, <2>19 DEF Requests
    <2>21. Turn(w, t)
      BY <2>13, <2>14, <2>18, <2>19 DEF Before
    <2>22. Arranged(f[n], i)
      BY <1>3, <1>6, <1>7, <1>10, <2>4, <2>5 DEF Arranged
    <2>23. Fresh(t, f[n])
      <3>1. f[n].rounds = g.rounds
        BY <1>7, <2>5, PlacedGame
      <3>. QED
        BY <1>4, <1>7, <2>20, <3>1 DEF Fresh
    <2>24. Promise(t)
      <3>1. \A k \in 1..Len(front) :
              front[k].call \in Writes /\ f[k] = Applied(f[k - 1], t.at, front[k])
        BY <1>4, <2>7, <2>8, <2>20 DEF Writes
      <3>2. /\ f[0] = game /\ Arranged(f[Len(front)], t.at) /\ Fresh(t, f[Len(front)])
            /\ t.todo = (front \o <<last>>) \o rest
        BY <1>4, <1>6, <2>5, <2>8, <2>18, <2>20, <2>22, <2>23 DEF Reorders
      <3>. QED
        BY <2>8, <2>10, <2>12, <2>15, <2>20, <3>1, <3>2, ArrangedPromise
    <2>. QED
      BY <1>1, <1>2, <1>3, <2>21, <2>24, ReadGoesOn
  <1>. QED
    BY <1>9, <1>10

-----------------------------------------------------------------------------
(* The end of the vote: the points are written player by player, then the  *)
(* mark of the set, and then the round.                                    *)

Writing(at, front, f) ==
  /\ f[0] = game
  /\ \A k \in 1..Len(front) :
       front[k].call \in Writes /\ f[k] = Applied(f[k - 1], at, front[k])

LEMMA OneMoreWrite ==
  ASSUME NEW at, NEW front \in Seq(CallRows), NEW f, Writing(at, front, f),
         NEW c \in CallRows, c.call \in Writes,
         NEW g, g = f[Len(front)], NEW h, h = Applied(g, at, c)
  PROVE  \E z : Writing(at, front \o <<c>>, z) /\ z[Len(front) + 1] = h
  <1>1. PICK n : n = Len(front)
    OBVIOUS
  <1>2. PICK line : line = front \o <<c>>
    OBVIOUS
  <1>3. /\ n \in Nat /\ Len(line) = n + 1 /\ line[n + 1] = c
        /\ \A k \in 1..n : line[k] = front[k]
    BY <1>1, <1>2, AppendedCall
  <1>4. PICK z : z = [k \in 0..(n + 1) |-> IF k = n + 1 THEN h ELSE f[k]]
    OBVIOUS
  <1>5. z[n + 1] = h /\ \A k \in 0..n : z[k] = f[k]
    BY <1>3, <1>4
  <1>6. z[0] = game
    BY <1>3, <1>5 DEF Writing
  <1>7. ASSUME NEW k \in 1..(n + 1)
        PROVE  line[k].call \in Writes /\ z[k] = Applied(z[k - 1], at, line[k])
    <2>1. CASE k \in 1..n
      <3>1. k \in 0..n /\ k - 1 \in 0..n
        BY <1>3, <2>1
      <3>2. front[k].call \in Writes /\ f[k] = Applied(f[k - 1], at, front[k])
        BY <1>1, <2>1 DEF Writing
      <3>. QED
        BY <1>3, <1>5, <2>1, <3>1, <3>2
    <2>2. CASE k = n + 1
      <3>1. k - 1 = n /\ n \in 0..n
        BY <1>3, <2>2
      <3>. QED
        BY <1>1, <1>3, <1>5, <2>2, <3>1
    <2>. QED
      BY <1>3, <2>1, <2>2
  <1>8. Writing(at, line, z)
    BY <1>3, <1>6, <1>7 DEF Writing
  <1>. QED
    BY <1>1, <1>2, <1>5, <1>8

\* The players who get points, each once: the voters, and then the author.
OtherScorers(given, author) == {p \in Players \ {author} : given[p] > 0}

Gaining(given, author, order) == IF given[author] > 0 THEN Append(order, author) ELSE order

LEMMA ScorersListed ==
  ASSUME NEW given \in [Players -> Nat], NEW author \in Players,
         NEW order \in SetToSeqs(OtherScorers(given, author)),
         NEW all, all = Gaining(given, author, order)
  PROVE  /\ all \in Seq(Players) /\ Len(all) \in Nat /\ DOMAIN all = 1..Len(all)
         /\ \A j, k \in 1..Len(all) : j # k => all[j] # all[k]
         /\ \A p \in Players : given[p] > 0 => \E k \in 1..Len(all) : all[k] = p
  <1>1. PICK scorers : scorers = OtherScorers(given, author)
    OBVIOUS
  <1>2. PICK m : m = Cardinality(scorers)
    OBVIOUS
  <1>3. scorers = {p \in Players \ {author} : given[p] > 0} /\ order \in SetToSeqs(scorers)
        /\ scorers \subseteq Players /\ IsFiniteSet(scorers) /\ m \in Nat
    BY <1>1, <1>2, TLPlayersAssumption, FS_Subset, FS_CardinalityType DEF OtherScorers
  <1>4. /\ order \in [1..m -> scorers]
        /\ \A j, k \in 1..m : j # k => order[j] # order[k]
    BY <1>2, <1>3 DEF SetToSeqs
  <1>5. order \in Seq(Players) /\ Len(order) = m /\ DOMAIN order = 1..m
    <2>1. order \in [1..m -> Players]
      BY <1>3, <1>4
    <2>. QED
      BY <1>3, <2>1, FunctionIsSequence
  <1>6. \A p \in scorers : \E k \in 1..m : order[k] = p
    <2>1. \A p \in scorers : \E k \in DOMAIN order : order[k] = p
      BY <1>3, EveryElement
    <2>. QED
      BY <1>5, <2>1
  <1>7. \A p \in Players : given[p] > 0 => p = author \/ p \in scorers
    BY <1>3
  <1>8. \A k \in 1..m : order[k] # author
    BY <1>3, <1>4
  <1>9. CASE given[author] > 0
    <2>1. /\ all \in Seq(Players) /\ Len(all) = m + 1 /\ DOMAIN all = 1..(m + 1)
          /\ all[m + 1] = author /\ \A k \in 1..m : all[k] = order[k]
      BY <1>5, <1>9 DEF Gaining
    <2>2. \A k \in 1..(m + 1) : k \in 1..m \/ k = m + 1
      BY <1>3
    <2>3. \A j, k \in 1..(m + 1) : j # k => all[j] # all[k]
      BY <1>4, <1>8, <2>1, <2>2
    <2>4. ASSUME NEW p \in Players, given[p] > 0
          PROVE  \E k \in 1..(m + 1) : all[k] = p
      <3>1. CASE p = author
        <4>1. m + 1 \in 1..(m + 1)
          BY <1>3
        <4>. QED
          BY <2>1, <3>1, <4>1
      <3>2. CASE p \in scorers
        <4>1. PICK k \in 1..m : order[k] = p
          BY <1>6, <3>2
        <4>2. k \in 1..(m + 1)
          BY <1>3
        <4>. QED
          BY <2>1, <4>1, <4>2
      <3>. QED
        BY <1>7, <2>4, <3>1, <3>2
    <2>5. Len(all) = m + 1 /\ Len(all) \in Nat
      BY <1>3, <2>1
    <2>. QED
      BY <2>1, <2>3, <2>4, <2>5
  <1>10. CASE ~(given[author] > 0)
    <2>1. all = order
      BY <1>10 DEF Gaining
    <2>. QED
      BY <1>3, <1>4, <1>5, <1>6, <1>7, <1>10, <2>1
  <1>. QED
    BY <1>9, <1>10

Credits(g, all, given, f) ==
  /\ f[0] = g
  /\ \A k \in 1..Len(all) :
       f[k] = [f[k - 1] EXCEPT !.score = [f[k - 1].score EXCEPT ![all[k]] = @ + given[all[k]]]]

Paid(g, given) == [g EXCEPT !.score = [p \in Players |-> g.score[p] + given[p]]]

LEMMA PaidGame ==
  ASSUME NEW g \in Games, NEW given \in [Players -> Nat], NEW all \in Seq(Players),
         \A j, k \in 1..Len(all) : j # k => all[j] # all[k],
         \A p \in Players : given[p] > 0 => \E k \in 1..Len(all) : all[k] = p
  PROVE  \E f : Credits(g, all, given, f) /\ f[Len(all)] = Paid(g, given)
  <1>1. PICK n : n = Len(all)
    OBVIOUS
  <1>2. /\ n \in Nat /\ \A k \in 1..n : all[k] \in Players
        /\ g.score \in [Players -> Nat] /\ g = [g EXCEPT !.score = g.score]
        /\ g.score = [p \in Players |-> g.score[p]]
    BY <1>1 DEF Games
  <1> DEFINE sum(k) == [p \in Players |->
                          IF \E j \in 1..k : all[j] = p THEN g.score[p] + given[p] ELSE g.score[p]]
             stage(k) == [g EXCEPT !.score = sum(k)]
             f == [k \in 0..n |-> stage(k)]
  <1>3. stage(0) = g
    <2>1. sum(0) = [p \in Players |-> g.score[p]]
      OBVIOUS
    <2>. QED
      BY <1>2, <2>1
  <1>4. stage(n) = Paid(g, given)
    <2>1. \A p \in Players : sum(n)[p] = g.score[p] + given[p]
      <3> SUFFICES ASSUME NEW p \in Players PROVE sum(n)[p] = g.score[p] + given[p]
        OBVIOUS
      <3>1. given[p] \in Nat /\ g.score[p] \in Nat
        BY <1>2
      <3>2. CASE \E j \in 1..n : all[j] = p
        BY <3>2
      <3>3. CASE ~\E j \in 1..n : all[j] = p
        <4>1. given[p] = 0
          BY <1>1, <3>1, <3>3
        <4>2. sum(n)[p] = g.score[p]
          BY <3>3
        <4>. QED
          BY <3>1, <4>1, <4>2
      <3>. QED
        BY <3>2, <3>3
    <2>2. sum(n) = [p \in Players |-> sum(n)[p]]
      OBVIOUS
    <2>3. sum(n) = [p \in Players |-> g.score[p] + given[p]]
      BY <2>1, <2>2
    <2>. QED
      BY <2>3 DEF Paid
  <1>5. ASSUME NEW k \in 1..n
        PROVE  stage(k) = [stage(k - 1) EXCEPT
                             !.score = [stage(k - 1).score EXCEPT ![all[k]] = @ + given[all[k]]]]
    <2>1. PICK x : x = all[k]
      OBVIOUS
    <2>2. PICK before : before = sum(k - 1)
      OBVIOUS
    <2>3. PICK after : after = sum(k)
      OBVIOUS
    <2>4. x \in Players /\ k \in 1..k /\ ~(k \in 1..(k - 1))
      BY <1>2, <2>1
    <2>5. /\ before = [p \in Players |-> before[p]] /\ after = [p \in Players |-> after[p]]
          /\ DOMAIN before = Players
      BY <2>2, <2>3
    <2>6. before[x] = g.score[x]
      <3>1. \A j \in 1..(k - 1) : j \in 1..n /\ j # k
        BY <1>2
      <3>2. ~\E j \in 1..(k - 1) : all[j] = x
        BY <1>1, <2>1, <3>1
      <3>. QED
        BY <2>2, <2>4, <3>2
    <2>7. after[x] = before[x] + given[x]
      BY <2>1, <2>3, <2>4, <2>6
    <2>8. ASSUME NEW p \in Players, p # x
          PROVE  after[p] = before[p]
      <3>1. (\E j \in 1..k : all[j] = p) <=> (\E j \in 1..(k - 1) : all[j] = p)
        <4>1. \A j \in 1..k : all[j] = p => j \in 1..(k - 1)
          <5> SUFFICES ASSUME NEW j \in 1..k, all[j] = p PROVE j \in 1..(k - 1)
            OBVIOUS
          <5>1. j # k
            BY <2>1, <2>8
          <5>. QED
            BY <1>2, <5>1
        <4>2. \A j \in 1..(k - 1) : j \in 1..k
          BY <1>2
        <4>. QED
          BY <4>1, <4>2
      <3>. QED
        BY <2>2, <2>3, <3>1
    <2>9. after = [before EXCEPT ![x] = @ + given[x]]
      BY <2>4, <2>5, <2>7, <2>8
    <2>10. stage(k - 1) = [g EXCEPT !.score = before] /\ stage(k) = [g EXCEPT !.score = after]
      BY <2>2, <2>3
    <2>. HIDE DEF stage, sum
    <2>11. stage(k - 1).score = before
      BY <2>10 DEF Games
    <2>12. [stage(k - 1) EXCEPT !.score = after] = [g EXCEPT !.score = after]
      BY <2>10
    <2>. QED
      BY <2>1, <2>9, <2>10, <2>11, <2>12
  <1>. HIDE DEF stage, sum
  <1>6. f[0] = g /\ f[n] = Paid(g, given)
    <2>1. 0 \in 0..n /\ n \in 0..n
      BY <1>2
    <2>. QED
      BY <1>3, <1>4, <2>1
  <1>7. ASSUME NEW k \in 1..n
        PROVE  f[k] = [f[k - 1] EXCEPT
                         !.score = [f[k - 1].score EXCEPT ![all[k]] = @ + given[all[k]]]]
    <2>1. k \in 0..n /\ k - 1 \in 0..n
      BY <1>2
    <2>2. f[k] = stage(k) /\ f[k - 1] = stage(k - 1)
      BY <2>1
    <2>. QED
      BY <1>5, <2>2
  <1>. HIDE DEF f
  <1>8. Credits(g, all, given, f)
    BY <1>1, <1>6, <1>7 DEF Credits
  <1>. QED
    BY <1>1, <1>6, <1>8

LEMMA ScoredAs ==
  ASSUME NEW g \in Games, NEW s \in 1..Len(g.sets), ~g.sets[s].scored,
         NEW given, given = [p \in Players |-> Points(g.sets[s], VotesOn(s), p)]
  PROVE  WithSet(Paid(g, given), s, [g.sets[s] EXCEPT !.scored = TRUE]) = Scored(g, s)
  <1>1. PICK row : row = [g.sets[s] EXCEPT !.scored = TRUE]
    OBVIOUS
  <1>2. PICK paid : paid = [p \in Players |-> g.score[p] + Points(g.sets[s], VotesOn(s), p)]
    OBVIOUS
  <1>3. PICK list : list = [g.sets EXCEPT ![s] = row]
    OBVIOUS
  <1>4. Paid(g, given) = [g EXCEPT !.score = paid]
    <2>1. \A p \in Players : given[p] = Points(g.sets[s], VotesOn(s), p)
      OBVIOUS
    <2>2. [p \in Players |-> g.score[p] + given[p]] = paid
      BY <1>2, <2>1
    <2>. QED
      BY <2>2 DEF Paid
  <1>5. Scored(g, s) = [g EXCEPT !.sets = list, !.score = paid]
    BY <1>1, <1>2, <1>3 DEF Scored
  <1>6. PICK k : k = Paid(g, given)
    OBVIOUS
  <1>7. WithSet(k, s, row) = [k EXCEPT !.sets = [k.sets EXCEPT ![s] = row]]
    BY DEF WithSet
  <1>8. k.sets = g.sets
    BY <1>4, <1>6 DEF Games
  <1>9. [k EXCEPT !.sets = list] = [g EXCEPT !.sets = list, !.score = paid]
    BY <1>4, <1>6 DEF Games
  <1>. QED
    BY <1>1, <1>3, <1>5, <1>6, <1>7, <1>8, <1>9

LEMMA RevealedExact ==
  ASSUME RowsOK, RowsTyped, Exact(game), NEW r \in Requests, Fresh(r, game),
         r.round.status = "presentation_voting", NEW s, s = r.round.active,
         NEW late \in Rounds, late.number = r.round.number, late.status = "reveal",
         late.active = s, late.pausedAt = NoTime, late.phaseEndsAt # NoTime
  PROVE  Exact(WithRound(Scored(game, s), r.at, late))
  <1>1. PICK i : i = r.at
    OBVIOUS
  <1>2. PICK g : g = game
    OBVIOUS
  <1>3. /\ g \in Games /\ Sound(g, HostHere) /\ HostHere \in BOOLEAN /\ now \in Nat
        /\ Matches(g, votes) /\ IsFiniteSet(votes) /\ g.sets = sets
        /\ i \in 1..Len(g.rounds) /\ g.rounds[i] = r.round /\ r.round \in Rounds
    BY <1>1, <1>2, HostHereBoolean, RowsFound, RowAt DEF Exact, Sound, Core, Fresh, game, RowsOK
  <1>4. s \in 1..Len(g.sets) /\ ~g.sets[s].scored
    BY <1>3, ActiveUnscored
  <1>5. PICK k : k = Scored(g, s)
    OBVIOUS
  <1>6. k \in Games /\ k.rounds = g.rounds /\ Matches(k, votes)
    BY <1>3, <1>4, <1>5, ScoredSet, ScoringMatches
  <1>7. PICK row : row = Enter(r.round, "reveal", RevealTime)
    OBVIOUS
  <1>8. /\ row \in Rounds /\ row.number = r.round.number /\ row.status = "reveal"
        /\ row.active = s /\ row.pausedAt = NoTime /\ row.phaseEndsAt # NoTime
    BY <1>3, <1>7, EnterRow DEF RoundStatus, Presenting
  <1>9. ToReveal(g, i) = WithRound(k, i, row)
    BY <1>3, <1>5, <1>7 DEF ToReveal
  <1>10. Step(g, WithRound(k, i, row), HostHere, 1)
    BY <1>3, <1>9, VotingStep
  <1>11. Sound(WithRound(k, i, row), HostHere)
    BY <1>3, <1>10 DEF Step, Reaches, Sound
  <1>12. Matches(WithRound(k, i, row), votes)
    BY <1>3, <1>6, RowScores, KeptMatches
  <1>13. Exact(WithRound(k, i, row))
    BY <1>11, <1>12 DEF Exact
  <1>14. Exact(WithRound(k, i, late))
    BY <1>3, <1>6, <1>8, <1>13, RetimedExact
  <1>. QED
    BY <1>1, <1>2, <1>5, <1>14

LEMMA ListVotesSlow ==
  ASSUME Alone, NEW w \in Workers, ListVotes(w), now' = now
  PROVE  SlowInv'
  <1>1. Doing(w, "listVotes") /\ RowsKept
    BY DEF ListVotes
  <1>2. PICK r : r = req[w]
    OBVIOUS
  <1>3. PICK c : c = Call(w)
    OBVIOUS
  <1>4. /\ r.todo # <<>> /\ r \in Requests /\ RowsOK /\ RowsTyped /\ Exact(game)
        /\ Fresh(r, game) /\ Ready(r, c) /\ c.call = "listVotes" /\ Call(w).call \in Syncing
        /\ r.round.status = "presentation_voting" /\ r.round \in Rounds /\ r.clock \in Nat
    BY <1>1, <1>2, <1>3, LooksAtRest DEF Looking
  <1>5. PICK s : s = r.round.active
    OBVIOUS
  <1>6. PICK row : row = sets[s]
    OBVIOUS
  <1>7. PICK g : g = game
    OBVIOUS
  <1>8. c.set = s /\ c.row = row
    BY <1>4, <1>5, <1>6 DEF Ready
  <1>9. /\ s \in 1..Len(sets) /\ s \in Nat /\ row \in TruthSets /\ ~row.scored
        /\ row.author \in Players
    BY <1>4, <1>5, <1>6, ActiveUnscored DEF TruthSets
  <1>10. g \in Games /\ g.rounds = rounds /\ g.sets = sets /\ r.at \in 1..Len(rounds)
    BY <1>4, <1>7 DEF Exact, Sound, Core, Fresh, game
  <1>11. PICK given : given = [p \in Players |-> Points(row, VotesOn(s), p)]
    OBVIOUS
  <1>12. given \in [Players -> Nat]
    <2>1. IsFiniteSet(VotesOn(s))
      BY <1>4, FS_Subset DEF VotesOn, RowsOK
    <2>. QED
      BY <1>11, <2>1, PointsNat
  <1>13. PICK after : after = Entering(r, "reveal", RevealTime)
    OBVIOUS
  <1>14. /\ after \in Rounds /\ after.number = r.round.number /\ after.status = "reveal"
         /\ after.active = s /\ after.pausedAt = NoTime /\ after.phaseEndsAt # NoTime
    <2>1. PICK end : end = r.clock + RevealTime
      OBVIOUS
    <2>2. end \in Nat /\ end # NoTime /\ "reveal" \in RoundStatus
      BY <1>4, <2>1, TLTimesAssumption DEF NoTime, RoundStatus, Presenting
    <2>3. after = [r.round EXCEPT !.status = "reveal", !.phaseEndsAt = end, !.pausedAt = NoTime]
      BY <1>13, <2>1 DEF Entering
    <2>. QED
      BY <1>4, <1>5, <2>2, <2>3 DEF Rounds
  <1>15. PICK author : author = row.author
    OBVIOUS
  <1>16. PICK order \in SetToSeqs(OtherScorers(given, author)) :
           Before(w, Scoring(s, row, given, Gaining(given, author, order)) \o <<WriteRound(after)>>,
                  [r EXCEPT !.round = after])
    BY <1>2, <1>3, <1>8, <1>11, <1>13, <1>15 DEF ListVotes, OtherScorers, Gaining
  <1>17. PICK all : all = Gaining(given, author, order)
    OBVIOUS
  <1>18. PICK n : n = Len(all)
    OBVIOUS
  <1>19. /\ all \in Seq(Players) /\ n \in Nat /\ DOMAIN all = 1..n
         /\ \A j, k \in 1..Len(all) : j # k => all[j] # all[k]
         /\ \A p \in Players : given[p] > 0 => \E k \in 1..Len(all) : all[k] = p
    <2>1. author \in Players
      BY <1>9, <1>15
    <2>. QED
      BY <1>12, <1>17, <1>18, <2>1, ScorersListed
  <1>20. PICK f : Credits(g, all, given, f) /\ f[n] = Paid(g, given)
    BY <1>10, <1>12, <1>18, <1>19, PaidGame
  <1>21. PICK adds : adds = [k \in DOMAIN all |-> AddPoints(all[k], given[all[k]])]
    OBVIOUS
  <1>22. ASSUME NEW k \in 1..n
         PROVE  /\ adds[k] \in CallRows /\ adds[k].call = "increment"
                /\ f[k] = Applied(f[k - 1], r.at, adds[k])
    <2>1. PICK p : p = all[k]
      OBVIOUS
    <2>2. PICK points : points = given[p]
      OBVIOUS
    <2>3. p \in Players /\ points \in Nat
      BY <1>12, <1>18, <1>19, <2>1, <2>2
    <2>4. adds[k] = AddPoints(p, points)
      BY <1>19, <1>21, <2>1, <2>2
    <2>5. /\ adds[k] \in CallRows /\ adds[k].call = "increment" /\ adds[k].who = p
          /\ adds[k].points = points
      BY <2>3, <2>4, CallsTyped
    <2>6. PICK e : e = f[k - 1]
      OBVIOUS
    <2>7. f[k] = [e EXCEPT !.score = [e.score EXCEPT ![p] = @ + points]]
      BY <1>18, <1>20, <2>1, <2>2, <2>6 DEF Credits
    <2>8. Applied(e, r.at, adds[k]) = [e EXCEPT !.score = [e.score EXCEPT ![p] = @ + points]]
      BY <2>5 DEF Applied
    <2>. QED
      BY <2>5, <2>6, <2>7, <2>8
  <1>23. adds \in Seq(CallRows) /\ Len(adds) = n
    <2>1. adds \in [1..n -> CallRows]
      BY <1>19, <1>21, <1>22
    <2>. QED
      BY <1>19, <2>1, FunctionIsSequence
  <1>24. Writing(r.at, adds, f)
    BY <1>7, <1>20, <1>22, <1>23 DEF Writing, Writes, Credits
  <1>25. PICK mark : mark = MarkScored(s, row, given)
    OBVIOUS
  <1>26. PICK marked : marked = [row EXCEPT !.scored = TRUE]
    OBVIOUS
  <1>27. /\ mark \in CallRows /\ mark.call = "updateSet" /\ mark.set = s
         /\ mark.row = marked
    <2>1. mark \in CallRows /\ mark.call = "updateSet" /\ mark.set = s
      <3>1. s \in Nat /\ row \in TruthSets /\ given \in [Players -> Nat]
        BY <1>9, <1>12
      <3>. QED
        BY <1>25, <3>1, MarkTyped
    <2>2. mark.row = marked
      BY <1>25, <1>26 DEF MarkScored
    <2>. QED
      BY <2>1, <2>2
  <1>28. PICK k : k = Scored(g, s)
    OBVIOUS
  <1>29. k = Applied(f[n], r.at, mark)
    <2>1. WithSet(Paid(g, given), s, marked) = k
      BY <1>6, <1>9, <1>10, <1>11, <1>26, <1>28, ScoredAs
    <2>. QED
      BY <1>20, <1>27, <2>1 DEF Applied
  <1>30. PICK body : body = adds \o <<mark>>
    OBVIOUS
  <1>31. body \in Seq(CallRows) /\ Len(body) = n + 1
    BY <1>23, <1>27, <1>30, AppendedCall
  <1>32. PICK z : Writing(r.at, body, z) /\ z[n + 1] = k
    <2>1. \E z : Writing(r.at, adds \o <<mark>>, z) /\ z[Len(adds) + 1] = k
      BY <1>23, <1>24, <1>27, <1>29, OneMoreWrite DEF Writes
    <2>. QED
      BY <1>23, <1>30, <2>1
  <1>33. PICK last : last = WriteRound(after)
    OBVIOUS
  <1>34. last \in CallRows /\ last.call = "updateRound" /\ last.row = after
    BY <1>14, <1>33, CallsTyped
  <1>35. PICK h : h = WithRound(k, r.at, after)
    OBVIOUS
  <1>36. h = Applied(k, r.at, last)
    BY <1>34, <1>35 DEF Applied
  <1>37. PICK front : front = body \o <<last>>
    OBVIOUS
  <1>38. front \in Seq(CallRows) /\ Len(front) = n + 2 /\ front # <<>>
    <2>1. front \in Seq(CallRows) /\ Len(front) = n + 1 + 1
      BY <1>31, <1>34, <1>37, AppendedCall
    <2>. QED
      BY <1>19, <2>1
  <1>39. PICK y : Writing(r.at, front, y) /\ y[n + 2] = h
    <2>1. \E y : Writing(r.at, body \o <<last>>, y) /\ y[Len(body) + 1] = h
      BY <1>31, <1>32, <1>34, <1>36, OneMoreWrite DEF Writes
    <2>2. Len(body) + 1 = n + 2
      BY <1>19, <1>31
    <2>. QED
      BY <1>37, <2>1, <2>2
  <1>40. Exact(h)
    BY <1>4, <1>5, <1>7, <1>14, <1>28, <1>35, RevealedExact
  <1>41. PICK u : u = [r EXCEPT !.round = after]
    OBVIOUS
  <1>42. u \in Requests /\ u.todo = r.todo /\ u.at = r.at /\ u.round = after
    BY <1>4, <1>14, <1>41 DEF Requests
  <1>43. Before(w, front, u)
    <2>1. Scoring(s, row, given, all) = body
      BY <1>21, <1>25, <1>30 DEF Scoring
    <2>. QED
      BY <1>16, <1>17, <1>33, <1>37, <1>41, <2>1
  <1>44. Fresh(u, h)
    <2>1. k \in Games /\ k.rounds = rounds
      BY <1>4, <1>6, <1>9, <1>10, <1>28, ScoredSet
    <2>2. h.rounds[r.at] = after /\ Len(h.rounds) = Len(rounds)
      BY <1>10, <1>14, <1>35, <2>1, RoundRow DEF Rewrites
    <2>. QED
      BY <1>10, <1>42, <2>2 DEF Fresh
  <1>45. /\ y[0] = game
         /\ \A j \in 1..Len(front) :
              front[j].call \in Writes /\ y[j] = Applied(y[j - 1], u.at, front[j])
    BY <1>39, <1>42 DEF Writing
  <1>46. Exact(y[Len(front)]) /\ Fresh(u, y[Len(front)])
    BY <1>38, <1>39, <1>40, <1>44
  <1>. QED
    BY <1>1, <1>2, <1>4, <1>38, <1>42, <1>43, <1>45, <1>46, FrontSlow

-----------------------------------------------------------------------------
(* The steps.                                                              *)

LEMMA WorksSlow ==
  ASSUME BurstOK, SlowInv, NEW w \in Workers, Works(w)
  PROVE  SlowInv'
  <1>1. now' = now /\ postgres' = postgres /\ overlapped' = overlapped
    BY DEF Works
  <1>2. CASE postgres \/ overlapped
    BY <1>1, <1>2 DEF SlowInv
  <1>3. CASE ~postgres /\ ~overlapped
    <2>1. Alone
      BY <1>3 DEF Alone
    <2>2. Serve(w)
      BY <1>3 DEF Works, Abort
    <2>3. CASE ReadRoom(w) \/ ReadCurrent(w) \/ ReadRoundRow(w) \/ SyncRoom(w) \/ Synchronise(w)
      BY <1>1, <2>1, <2>3, ReadRoomSlow, ReadCurrentSlow, ReadRoundSlow, SyncRoomSlow, SynchroniseSlow
    <2>4. CASE ListSets(w) \/ FirstSet(w) \/ ReadActive(w) \/ ListVotes(w) \/ ListNext(w)
      BY <1>1, <2>1, <2>4, ListSetsSlow, FirstSetSlow, ReadActiveSlow, ListVotesSlow, ListNextSlow
    <2>5. CASE UpdateRoom(w) \/ UpdateRound(w) \/ CreateRound(w)
      BY <1>1, <2>1, <2>5, UpdateRoomSlow, UpdateRoundSlow, CreateRoundSlow
    <2>6. CASE UpdateSet(w) \/ CreateSet(w) \/ Increment(w) \/ WriteScore(w)
      BY <1>1, <2>1, <2>6, UpdateSetSlow, CreateSetSlow, IncrementSlow, WriteScoreSlow
    <2>7. CASE Accept(w) \/ ReadMine(w) \/ LookUp(w) \/ Upsert(w)
      BY <1>1, <2>1, <2>7, AcceptSlow, ReadMineSlow, LookUpSlow, UpsertSlow
    <2>. QED
      BY <2>2, <2>3, <2>4, <2>5, <2>6, <2>7 DEF Serve
  <1>. QED
    BY <1>2, <1>3

\* A request that arrives alone finds the game exact.
LEMMA ReceivesSlow ==
  ASSUME BurstOK, SlowInv, NEW w \in Workers, Receives(w)
  PROVE  SlowInv'
  <1>1. /\ now' = now /\ postgres' = postgres
        /\ (overlapped' \/ Quiescent) /\ (overlapped => overlapped')
    BY DEF Receives
  <1>2. CASE postgres' \/ overlapped'
    BY <1>2 DEF SlowInv
  <1>3. CASE ~postgres' /\ ~overlapped'
    <2>1. Quiescent /\ Exact(game) /\ now \in Nat
      BY <1>1, <1>3, RowsFound DEF SlowInv, BurstOK
    <2>2. PICK op \in Ops, p \in Players \cup {NoPlayer}, i \in 0..Len(rounds),
               x \in Statements \cup {0} : Arrive(w, op, p, i, x)
      BY DEF Receives, Receive
    <2>3. PICK calls : calls = Calls(op)
      OBVIOUS
    <2>4. /\ calls \in Seq(CallRows) /\ calls # <<>>
          /\ calls[1].call \in {"readRoom", "readRound"}
      BY <2>3, CallsInLine
    <2>5. PICK r : r = [Idle EXCEPT !.op = op, !.who = p, !.at = i, !.statement = x,
                                    !.todo = calls]
      OBVIOUS
    <2>6. r \in Requests /\ r.todo = calls
      <3>1. Idle \in Requests /\ Idle.todo = <<>>
        BY IdleRequest
      <3>2. i \in Nat
        BY RowsFound DEF BurstOK
      <3>. QED
        BY <2>4, <2>5, <3>1, <3>2 DEF Requests
    <2>7. RowsKept /\ Turn(w, r)
      BY <2>2, <2>3, <2>5 DEF Arrive
    <2>8. req' = [req EXCEPT ![w] = r]
      BY <2>4, <2>6, <2>7 DEF Turn
    <2>9. r # Idle
      BY <2>4, <2>6, IdleRequest
    <2>10. Promise(r)
      <3>1. calls[1].call \notin Writes \cup {"firstSet"} /\ calls[1].call \notin Copying
        BY <2>4 DEF Writes, Copying, Looking
      <3>2. Ready(r, calls[1])
        BY <2>4 DEF Ready
      <3>. QED
        BY <2>1, <2>6, <3>1, <3>2, RestPromise
    <2>11. Promise(r)'
      BY <1>1, <2>1, <2>7, <2>10, PromiseLasts DEF RowsKept
    <2>12. req'[w] = r /\ \A v \in Workers : v # w => req'[v] = Idle
      BY <2>1, <2>8 DEF Quiescent, BurstOK
    <2>13. ~Quiescent'
      BY <2>9, <2>12 DEF Quiescent
    <2>. QED
      BY <2>9, <2>11, <2>12, <2>13 DEF SlowInv
  <1>. QED
    BY <1>2, <1>3

\* A request served whole is a step of ThreeLiesRoom.
LEMMA RoomServesSlow ==
  ASSUME BurstOK, SlowInv, RoomServes
  PROVE  SlowInv'
  <1>1. Quiescent /\ RoomRequest /\ UNCHANGED <<req, postgres, overlapped>>
    BY DEF RoomServes
  <1>2. CASE postgres \/ overlapped
    BY <1>1, <1>2 DEF SlowInv
  <1>3. CASE ~postgres /\ ~overlapped
    <2>1. Exact(game) /\ RowsOK
      BY <1>1, <1>3 DEF SlowInv, BurstOK
    <2>2. ScoreInv /\ Inv
      BY <2>1, ExactGame
    <2>3. Next
      BY <1>1 DEF Next
    <2>4. Inv' /\ Matches(game, votes)'
      BY <2>2, <2>3, NextKeeps, NextMatches
    <2>5. Exact(game)'
      BY <2>4 DEF Exact, Inv
    <2>6. \A v \in Workers : req'[v] = Idle
      BY <1>1 DEF Quiescent
    <2>. QED
      BY <2>5, <2>6 DEF SlowInv
  <1>. QED
    BY <1>2, <1>3

LEMMA ClockRuns ==
  ASSUME [SNext]_svars
  PROVE  RoomServes \/ now' = now \/ now' = now + 1
  <1>1. CASE UNCHANGED svars
    BY <1>1 DEF svars, vars
  <1>2. CASE History /\ UNCHANGED postgres
    BY <1>2 DEF History, RoomServes, Tick
  <1>3. CASE Burst /\ UNCHANGED postgres
    BY <1>3 DEF Burst, Tick, vars
  <1>. QED
    BY <1>1, <1>2, <1>3 DEF SNext

LEMMA PassingSlow ==
  ASSUME BurstOK, SlowInv, Passing, now' = now \/ now' = now + 1
  PROVE  SlowInv'
  <1>1. /\ now \in Nat /\ now' \in Nat /\ now <= now'
    <2>1. now \in Nat
      BY RowsFound DEF BurstOK
    <2>. QED
      BY <2>1
  <1>2. /\ UNCHANGED <<room, user, rounds, sets, votes, score>>
        /\ postgres' = postgres /\ overlapped' = overlapped /\ req' = req
    BY DEF Passing
  <1>3. CASE postgres \/ overlapped
    BY <1>2, <1>3 DEF SlowInv
  <1>4. CASE ~postgres /\ ~overlapped
    <2>1. ASSUME Quiescent
          PROVE  Exact(game)'
      <3>1. PICK g : g = game
        OBVIOUS
      <3>2. Exact(g)
        BY <1>4, <2>1, <3>1 DEF SlowInv
      <3>3. Exact(g)'
        BY <1>1, <1>2, <3>2, ExactLasts
      <3>4. g = game'
        BY <1>2, <3>1 DEF game
      <3>. QED
        BY <3>3, <3>4, ExactAs
    <2>2. ASSUME NEW v \in Workers, NEW r, req'[v] = r, r # Idle
          PROVE  Promise(r)'
      <3>1. Promise(r)
        BY <1>2, <1>4, <2>2 DEF SlowInv
      <3>. QED
        BY <1>1, <1>2, <3>1, PromiseLasts
    <2>3. Quiescent' => Quiescent
      BY <1>2 DEF Quiescent
    <2>. QED
      BY <2>1, <2>2, <2>3 DEF SlowInv
  <1>. QED
    BY <1>3, <1>4

LEMMA SlowInit ==
  ASSUME SInit
  PROVE  SlowInv
  <1>1. Init /\ \A w \in Workers : req[w] = Idle
    BY DEF SInit
  <1>2. Inv
    BY <1>1, InitInv
  <1>3. Matches(game, votes)
    <2>1. ScoredSets(game) = {} /\ \A p \in Players : game.score[p] = 0
      BY <1>1 DEF Init, game, ScoredSets
    <2>2. \A f : Total(f, {}) = 0
      BY TotalFirst, FS_EmptySet
    <2>. QED
      BY <2>1, <2>2 DEF Matches
  <1>4. Exact(game)
    BY <1>2, <1>3 DEF Exact, Inv
  <1>. QED
    BY <1>1, <1>4 DEF SlowInv

LEMMA SlowStep ==
  ASSUME BurstOK, SlowInv, [SNext]_svars
  PROVE  SlowInv'
  <1>1. CASE RoomServes
    BY <1>1, RoomServesSlow
  <1>2. CASE ~RoomServes /\ Passing
    BY <1>2, ClockRuns, PassingSlow
  <1>3. CASE \E w \in Workers : Receives(w) \/ Works(w)
    BY <1>3, ReceivesSlow, WorksSlow
  <1>. QED
    BY <1>1, <1>2, <1>3, BurstCases

\* A request in memory may be as slow as it likes, with the clock passing any
\* deadline between two of its calls: as long as no other request overlaps it,
\* the game it leaves is in order.  The rounds follow each other, the sets of each
\* are shown in their order, and the score of a player is the sum over the scored
\* sets of the points their votes bring.
THEOREM SlowRequestsAreExact == SSpec => []SlowIsExact
  <1>1. BurstOK /\ SlowInv => SlowIsExact
    <2> SUFFICES ASSUME BurstOK, SlowInv, ~postgres, ~overlapped, Quiescent
                 PROVE  RoundsInOrder /\ PresentedInOrder /\ ScoresMatchVotes
      BY DEF SlowIsExact
    <2>1. RowsOK /\ Exact(game)
      BY DEF BurstOK, SlowInv
    <2>2. ScoreInv /\ Inv
      BY <2>1, ExactGame
    <2>. QED
      BY <2>2, InvParts, ScoresMatch
  <1>. QED
    BY <1>1, SlowInit, SlowStep, BurstInvariance, PTL DEF SSpec

==============================================================================
