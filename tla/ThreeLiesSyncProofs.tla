------------------------- MODULE ThreeLiesSyncProofs -------------------------
(***************************************************************************)
(* Requests of three lies that overlap, for any number of workers, players *)
(* and rounds: the copies they work with stay typed, the rounds they write *)
(* stay linked to the truth sets, and a game that goes on has a round that *)
(* is not over, or a request about to open or end it.                      *)
(*                                                                         *)
(* What is invariant is that the calls a request has still to make fit the *)
(* copies it holds and the rows in the database (Fits): a row that is to   *)
(* be written has the number, the round or the author of the row it will   *)
(* replace, and a copy that presents a truth set has one.                  *)
(***************************************************************************)
EXTENDS ThreeLiesSync, ThreeLiesRoomProofs

-----------------------------------------------------------------------------
(* The invariant of a burst: the calls a request has still to make fit     *)
(* its copy of a round, and both fit the rows in all that no other request *)
(* can change.                                                             *)

\* The calls of Calls(op), and those that look at the clock and at what a round
\* that is due needs.
Asking  == {"readRoom", "readCurrent", "readRound", "syncRoom", "accept", "readMine", "lookUp"}
Looking == {"readClock", "listSets", "readActive", "listVotes", "listNext"}

CallRows ==
       [call : Asking \cup {"listSets", "firstSet", "readActive", "listNext"}]
  \cup [call : {"readClock"}, status : RoomStatus]
  \cup [call : {"updateRoom"}, status : {"expired", "finished"}]
  \cup [call : {"updateRound", "createRound"}, row : Rounds]
  \cup [call : {"updateSet"}, set : Nat, row : TruthSets, given : {<<>>} \cup [Players -> Nat]]
  \cup [call : {"createSet"}, row : TruthSets]
  \cup [call : {"listVotes"}, set : Nat, row : TruthSets]
  \cup [call : {"increment"}, who : Players, points : Nat]
  \cup [call : {"writeScore"}, who : Players, points : Nat, from : Nat]
  \cup [call : {"upsert"}, set : Nat, isNew : BOOLEAN]

Requests ==
  [op : Ops \cup {"none"}, who : Players \cup {NoPlayer}, at : Nat,
   statement : Statements \cup {0}, todo : Seq(CallRows), round : Rounds, clock : Nat]

Concludes(c) == c.call \in {"createRound", "updateRoom"}

Ends(c) == c.call = "updateRound" /\ c.row.status = "finished"

\* What may come after a call a.
MayFollow(a, b) ==
  /\ b.call \notin Looking \cup {"createSet", "writeScore"}
  /\ b.call \notin Asking =>
       a.call \notin Asking \cup Looking \cup {"firstSet", "createRound", "updateRoom"}
  /\ b.call \in {"readMine", "lookUp"} => a.call = "accept"
  /\ a.call = "readRoom" => b.call = "readCurrent"
  /\ Concludes(b) => a.call = "updateRound"
  /\ Ends(a) => Concludes(b)

InLine(q) ==
  /\ \A k \in 1..(Len(q) - 1) : MayFollow(q[k], q[k + 1])
  /\ q # <<>> => ~Ends(q[Len(q)])

\* A round that is presented has an active truth set.
RowFits(row, ss) ==
  /\ row \in Rounds /\ row.active \in 0..Len(ss)
  /\ row.status \in Presenting => row.active # 0
  /\ row.status = "finished" => row.phaseEndsAt = NoTime

Copied(r, rs) == r.at \in DOMAIN rs /\ r.round.number = rs[r.at].number

FitsCall(c, r, rs, ss) ==
  /\ c.call \in {"updateRound", "createRound"} =>
       r.at \in DOMAIN rs /\ RowFits(c.row, ss) /\ c.row.pausedAt = NoTime
  /\ c.call = "updateRound" => c.row.number = rs[r.at].number
  /\ c.call = "createRound" =>
       /\ c.row.status = "writing"
       /\ c.row.number = rs[r.at].number + 1 /\ c.row.number <= MaxRounds
  /\ c.call \in {"updateSet", "listVotes"} =>
       /\ c.set \in DOMAIN ss
       /\ c.row.round = ss[c.set].round /\ c.row.author = ss[c.set].author
  /\ c.call = "createSet" => c.row.round = r.at /\ c.row.author = r.who
  /\ c.call = "upsert" => c.set \in DOMAIN ss
  /\ c.call \in {"readRound", "accept", "createSet", "upsert"} => r.op \in {"write", "vote"}
  /\ c.call = "readMine" => r.op = "write"
  /\ c.call = "lookUp" => r.op = "vote"

\* The next call works with the copy, unless it is one that makes it.
FitsHead(r, rs) ==
  LET c == Head(r.todo)
  IN  /\ \/ Copied(r, rs)
         \/ c.call \in {"readRoom", "readCurrent", "readRound"}
         \/ c.call = "updateRoom" /\ Len(r.todo) = 1
      /\ c.call \in {"lookUp", "readActive", "listVotes"} => r.round.status = "presentation_voting"
      /\ c.call = "listNext" => r.round.status = "commentary"

FitsBusy(r, time, rs, ss) ==
  /\ r \in Requests
  /\ r.clock <= time /\ r.at \in 0..Len(rs) /\ RowFits(r.round, ss)
  /\ r.op \in {"write", "vote"} =>
       r.who \in Players /\ r.statement \in Statements /\ r.at \in DOMAIN rs
  /\ InLine(r.todo)
  /\ \A k \in 1..Len(r.todo) : FitsCall(r.todo[k], r, rs, ss)
  /\ r.todo # <<>> => FitsHead(r, rs)

Fits(r, time, rs, ss) == FitsBusy(r, time, rs, ss) /\ (r.todo = <<>> <=> r = Idle)

RowsOK ==
  /\ TypeOK /\ IsFiniteSet(votes) /\ HostKnown /\ RoundsLinked
  /\ \A i \in DOMAIN rounds : RowFits(rounds[i], sets) /\ rounds[i].pausedAt <= now
  /\ room.status \in {"active", "paused"} => rounds # <<>>
  /\ tally \in [DOMAIN sets -> [Players -> Nat]]

BurstOK ==
  /\ RowsOK
  /\ arrived \in 0..MaxRequests /\ overlapped \in BOOLEAN
  /\ arrived = 0 => ~overlapped
  /\ req \in [Workers -> Requests]
  /\ \A w \in Workers : Fits(req[w], now, rounds, sets)
  /\ ~Quiescent => room.status # "none"
  /\ ~overlapped => \A v, w \in Workers : req[v] # Idle /\ req[w] # Idle => v = w

\* Time goes on, rows are added, and those there are keep their place: a round
\* its number, a truth set its round and its author.
Grown(time, rs, ss, time2, rs2, ss2) ==
  /\ time <= time2 /\ Len(rs) <= Len(rs2) /\ Len(ss) <= Len(ss2)
  /\ \A i \in DOMAIN rs : rs2[i].number = rs[i].number
  /\ \A s \in DOMAIN ss : ss2[s].round = ss[s].round /\ ss2[s].author = ss[s].author

Settled(r) == IF r.todo = <<>> THEN Idle ELSE r

\* What a call of worker w does.
Effect(w) ==
  /\ RowsOK'
  /\ Grown(now, rounds, sets, now', rounds', sets')
  /\ req' = [req EXCEPT ![w] = req'[w]]
  /\ Fits(req'[w], now', rounds', sets')

-----------------------------------------------------------------------------
(* Calls, and sequences of calls.                                          *)

LEMMA RequestFields ==
  ASSUME NEW r \in Requests
  PROVE  /\ r.op \in Ops \cup {"none"} /\ r.who \in Players \cup {NoPlayer} /\ r.at \in Nat
         /\ r.statement \in Statements \cup {0} /\ r.todo \in Seq(CallRows)
         /\ r.round \in Rounds /\ r.clock \in Nat
  BY DEF Requests

LEMMA IdleRequest ==
  /\ Idle \in Requests /\ Idle.todo = <<>> /\ Idle.op = "none"
  /\ NoRow \in Rounds /\ NoRow.status = "writing" /\ NoRow.active = 0
  <1>1. NoRow \in Rounds /\ NoRow.status = "writing" /\ NoRow.active = 0
    BY DEF NoRow, Rounds, RoundStatus
  <1>2. <<>> \in Seq(CallRows)
    OBVIOUS
  <1>. QED
    BY <1>1, <1>2 DEF Idle, Requests

LEMMA IdleFits ==
  ASSUME NEW time \in Nat, NEW rs \in Seq(Rounds), NEW ss \in Seq(TruthSets)
  PROVE  Fits(Idle, time, rs, ss)
  <1>1. /\ Idle \in Requests /\ Idle.todo = <<>> /\ Idle.op = "none" /\ Idle.at = 0
        /\ Idle.clock = 0 /\ Idle.round = NoRow
    BY IdleRequest DEF Idle
  <1>2. RowFits(NoRow, ss)
    BY IdleRequest DEF RowFits, Presenting
  <1>3. InLine(<<>>)
    BY DEF InLine
  <1>. QED
    BY <1>1, <1>2, <1>3 DEF Fits, FitsBusy

LEMMA SettledFits ==
  ASSUME NEW r, NEW time \in Nat, NEW rs \in Seq(Rounds), NEW ss \in Seq(TruthSets),
         FitsBusy(r, time, rs, ss)
  PROVE  Fits(Settled(r), time, rs, ss)
  <1>1. CASE r.todo = <<>>
    BY <1>1, IdleFits DEF Settled
  <1>2. CASE r.todo # <<>>
    BY <1>2, IdleRequest DEF Settled, Fits
  <1>. QED
    BY <1>1, <1>2

LEMMA RowFitsGrown ==
  ASSUME NEW row, NEW ss \in Seq(TruthSets), NEW ss2 \in Seq(TruthSets), Len(ss) <= Len(ss2),
         RowFits(row, ss)
  PROVE  RowFits(row, ss2)
  BY DEF RowFits

LEMMA FitsGrown ==
  ASSUME NEW time \in Nat, NEW rs \in Seq(Rounds), NEW ss \in Seq(TruthSets),
         NEW time2 \in Nat, NEW rs2 \in Seq(Rounds), NEW ss2 \in Seq(TruthSets),
         Grown(time, rs, ss, time2, rs2, ss2),
         NEW r, FitsBusy(r, time, rs, ss)
  PROVE  FitsBusy(r, time2, rs2, ss2)
  <1>1. /\ r \in Requests /\ r.clock \in Nat /\ r.at \in Nat
        /\ DOMAIN rs = 1..Len(rs) /\ DOMAIN rs2 = 1..Len(rs2)
        /\ DOMAIN ss = 1..Len(ss) /\ DOMAIN ss2 = 1..Len(ss2)
    BY RequestFields DEF FitsBusy
  <1>2. Len(rs) \in Nat /\ Len(rs2) \in Nat /\ Len(ss) \in Nat /\ Len(ss2) \in Nat
    OBVIOUS
  <1>3. /\ time <= time2 /\ Len(rs) <= Len(rs2) /\ Len(ss) <= Len(ss2)
        /\ \A i \in DOMAIN rs : i \in DOMAIN rs2 /\ rs2[i].number = rs[i].number
        /\ \A s \in DOMAIN ss :
             s \in DOMAIN ss2 /\ ss2[s].round = ss[s].round /\ ss2[s].author = ss[s].author
    BY <1>1, <1>2 DEF Grown
  <1>4. r.clock <= time2 /\ r.at \in 0..Len(rs2)
    BY <1>1, <1>2, <1>3 DEF FitsBusy
  <1>5. \A row : RowFits(row, ss) => RowFits(row, ss2)
    BY <1>3, RowFitsGrown
  <1>6. r.todo # <<>> => FitsHead(r, rs2)
    BY <1>1, <1>3 DEF FitsBusy, FitsHead, Copied
  <1>7. ASSUME NEW k \in 1..Len(r.todo)
        PROVE  FitsCall(r.todo[k], r, rs2, ss2)
    <2> DEFINE c == r.todo[k]
    <2>1. FitsCall(c, r, rs, ss)
      BY DEF FitsBusy
    <2> HIDE DEF c
    <2>3. FitsCall(c, r, rs2, ss2)
      BY <1>3, <1>5, <2>1 DEF FitsCall
    <2>. QED
      BY <2>3 DEF c
  <1>. QED
    BY <1>1, <1>3, <1>4, <1>5, <1>6, <1>7 DEF FitsBusy

\* Calls after which there are only such as come from Calls(op).
Openings == Asking \cup Looking \cup {"firstSet", "createRound", "updateRoom"}

LEMMA OnlyAsking ==
  ASSUME NEW q \in Seq(CallRows), InLine(q), NEW k \in 1..Len(q), q[k].call \in Openings,
         NEW j \in 1..Len(q), k < j
  PROVE  q[j].call \in Asking
  <1> DEFINE T == {n \in 1..Len(q) : k < n /\ q[n].call \notin Asking}
  <1>1. SUFFICES ASSUME T # {} PROVE FALSE
    OBVIOUS
  <1>2. PICK m \in T : \A n \in T : m <= n
    <2>1. T \subseteq Nat
      OBVIOUS
    <2> HIDE DEF T
    <2>. QED
      BY <1>1, <2>1, LeastNumber
  <1>3. m - 1 \in 1..(Len(q) - 1) /\ m - 1 \notin T /\ k <= m - 1
    BY <1>2
  <1>4. q[m - 1].call \in Openings
    BY <1>3 DEF Openings
  <1>5. MayFollow(q[m - 1], q[m])
    BY <1>3 DEF InLine
  <1>. QED
    BY <1>2, <1>4, <1>5 DEF MayFollow, Openings

LEMMA TailCalls ==
  ASSUME NEW q \in Seq(CallRows), q # <<>>
  PROVE  /\ Tail(q) \in Seq(CallRows) /\ Len(Tail(q)) = Len(q) - 1 /\ Len(q) \in Nat \ {0}
         /\ \A k \in 1..(Len(q) - 1) : Tail(q)[k] = q[k + 1]
         /\ Head(q) = q[1] /\ Head(q) \in CallRows
         /\ InLine(q) => InLine(Tail(q))
  <1>1. /\ Tail(q) \in Seq(CallRows) /\ Len(Tail(q)) = Len(q) - 1 /\ Len(q) \in Nat \ {0}
        /\ \A k \in 1..(Len(q) - 1) : Tail(q)[k] = q[k + 1]
        /\ Head(q) = q[1] /\ Head(q) \in CallRows
    OBVIOUS
  <1> DEFINE t == Tail(q)
  <1> HIDE DEF t
  <1>2. ASSUME InLine(q), NEW k \in 1..(Len(t) - 1)
        PROVE  MayFollow(t[k], t[k + 1])
    <2>1. t[k] = q[k + 1] /\ t[k + 1] = q[k + 2] /\ k + 1 \in 1..(Len(q) - 1) /\ (k + 1) + 1 = k + 2
      BY <1>1 DEF t
    <2>. QED
      BY <1>2, <2>1 DEF InLine
  <1>3. ASSUME InLine(q), t # <<>>
        PROVE  ~Ends(t[Len(t)])
    <2>1. Len(t) \in 1..(Len(q) - 1) /\ Len(t) + 1 = Len(q)
      BY <1>1, <1>3 DEF t
    <2>2. t[Len(t)] = q[Len(q)]
      BY <1>1, <2>1 DEF t
    <2>. QED
      BY <1>3, <2>2 DEF InLine
  <1>4. InLine(q) => InLine(t)
    BY <1>2, <1>3 DEF InLine
  <1>. QED
    BY <1>1, <1>4 DEF t

LEMMA JoinedCalls ==
  ASSUME NEW S, NEW s \in Seq(S), NEW t \in Seq(S)
  PROVE  /\ s \o t \in Seq(S) /\ Len(s \o t) = Len(s) + Len(t)
         /\ \A k \in 1..Len(s) : (s \o t)[k] = s[k]
         /\ \A k \in 1..Len(t) : (s \o t)[Len(s) + k] = t[k]
  OBVIOUS

LEMMA FrontCalls ==
  ASSUME NEW q \in Seq(CallRows), q # <<>>, InLine(q),
         Head(q).call \in (Asking \ {"accept", "readRoom"}) \cup Looking \cup {"firstSet"},
         NEW front \in Seq(CallRows), front # <<>>, InLine(front),
         front[Len(front)].call \notin Asking
  PROVE  LET p == front \o Tail(q)
         IN  /\ p \in Seq(CallRows) /\ p # <<>> /\ InLine(p) /\ Head(p) = front[1]
             /\ Len(p) = Len(front) + Len(q) - 1
             /\ \A k \in 1..Len(front) : p[k] = front[k]
             /\ \A k \in 1..(Len(q) - 1) : p[Len(front) + k] = q[k + 1] /\ q[k + 1].call \in Asking
  <1> DEFINE t == Tail(q)
             p == front \o t
             n == Len(front)
  <1>1. /\ t \in Seq(CallRows) /\ Len(t) = Len(q) - 1 /\ Len(q) \in Nat \ {0}
        /\ \A k \in 1..(Len(q) - 1) : t[k] = q[k + 1]
        /\ Head(q) = q[1]
    BY TailCalls
  <1> HIDE DEF t
  <1>2. /\ p \in Seq(CallRows) /\ Len(p) = n + Len(q) - 1 /\ n \in Nat \ {0}
        /\ \A k \in 1..n : p[k] = front[k]
        /\ \A k \in 1..(Len(q) - 1) : p[n + k] = t[k]
    <2>1. n \in Nat /\ n # 0 /\ Len(t) \in Nat
      BY <1>1
    <2>2. t \in Seq(CallRows)
      BY <1>1
    <2>3. /\ front \o t \in Seq(CallRows) /\ Len(front \o t) = Len(front) + Len(t)
          /\ \A k \in 1..Len(front) : (front \o t)[k] = front[k]
          /\ \A k \in 1..Len(t) : (front \o t)[Len(front) + k] = t[k]
      BY <2>2, JoinedCalls
    <2> HIDE DEF p, n
    <2>. QED
      BY <1>1, <2>1, <2>3 DEF p, n
  <1>3. \A k \in 1..(Len(q) - 1) : q[k + 1].call \in Asking
    <2> SUFFICES ASSUME NEW k \in 1..(Len(q) - 1) PROVE q[k + 1].call \in Asking
      OBVIOUS
    <2>1. 1 \in 1..Len(q) /\ k + 1 \in 1..Len(q) /\ 1 < k + 1
      BY <1>1
    <2>2. q[1].call \in Openings
      BY <1>1 DEF Openings
    <2>. QED
      BY <2>1, <2>2, OnlyAsking
  <1>4. p # <<>> /\ Head(p) = front[1]
    <2>1. p # <<>> /\ Head(p) = p[1] /\ 1 \in 1..n
      BY <1>1, <1>2
    <2>. QED
      BY <1>2, <2>1
  <1> HIDE DEF p
  <1>5. ASSUME NEW k \in 1..(Len(p) - 1)
        PROVE  MayFollow(p[k], p[k + 1])
    <2>1. CASE k < n
      <3>1. k \in 1..(n - 1) /\ k \in 1..n /\ k + 1 \in 1..n
        BY <1>2, <2>1
      <3>. QED
        BY <1>2, <3>1 DEF InLine
    <2>2. CASE k = n
      <3>1. Len(q) - 1 \in Nat /\ 1 \in 1..(Len(q) - 1) /\ n \in 1..n
        BY <1>1, <1>2, <2>2
      <3>2. p[k] = front[n] /\ p[k + 1] = q[2] /\ q[2].call \in Asking
        BY <1>1, <1>2, <1>3, <2>2, <3>1
      <3>3. MayFollow(q[1], q[2])
        BY <3>1 DEF InLine
      <3>4. ~Ends(front[n])
        BY DEF InLine
      <3>. QED
        BY <1>1, <3>2, <3>3, <3>4 DEF MayFollow, Asking, Looking, Concludes
    <2>3. CASE k > n
      <3> DEFINE j == k - n
      <3>1. j \in 1..(Len(q) - 1) /\ j + 1 \in 1..(Len(q) - 1) /\ k = n + j /\ k + 1 = n + (j + 1)
        BY <1>1, <1>2, <2>3
      <3>2. p[n + j] = q[j + 1] /\ p[n + (j + 1)] = q[(j + 1) + 1]
        BY <1>1, <1>2, <3>1
      <3>. QED
        BY <3>1, <3>2 DEF InLine
    <2>. QED
      BY <1>2, <2>1, <2>2, <2>3
  <1>6. ~Ends(p[Len(p)])
    <2>1. CASE Len(q) = 1
      <3>1. Len(p) = n /\ n \in 1..n
        BY <1>2, <2>1
      <3>. QED
        BY <1>2, <3>1 DEF InLine
    <2>2. CASE Len(q) # 1
      <3>1. Len(q) - 1 \in 1..(Len(q) - 1) /\ Len(p) = n + (Len(q) - 1) /\ (Len(q) - 1) + 1 = Len(q)
        BY <1>1, <1>2, <2>2
      <3>2. p[n + (Len(q) - 1)] = q[(Len(q) - 1) + 1]
        BY <1>1, <1>2, <3>1
      <3>. QED
        BY <3>1, <3>2 DEF InLine
    <2>. QED
      BY <2>1, <2>2
  <1>7. InLine(p)
    BY <1>5, <1>6 DEF InLine
  <1>8. \A k \in 1..(Len(q) - 1) : p[n + k] = q[k + 1]
    <2> SUFFICES ASSUME NEW k \in 1..(Len(q) - 1) PROVE p[n + k] = q[k + 1]
      OBVIOUS
    <2>. QED
      BY <1>1, <1>2
  <1>9. /\ front \o Tail(q) \in Seq(CallRows) /\ front \o Tail(q) # <<>>
        /\ InLine(front \o Tail(q)) /\ Head(front \o Tail(q)) = front[1]
        /\ Len(front \o Tail(q)) = Len(front) + Len(q) - 1
    BY <1>2, <1>4, <1>7 DEF p, t
  <1>10. /\ \A k \in 1..Len(front) : (front \o Tail(q))[k] = front[k]
         /\ \A k \in 1..(Len(q) - 1) : (front \o Tail(q))[Len(front) + k] = q[k + 1]
    BY <1>2, <1>8 DEF p, t
  <1>. QED
    BY <1>3, <1>9, <1>10

\* A request that has made its call, and goes on with what is left.
LEMMA TailFits ==
  ASSUME NEW time, NEW rs \in Seq(Rounds), NEW ss,
         NEW r, FitsBusy(r, time, rs, ss), r.todo # <<>>,
         NEW next \in Requests, next.op = r.op, next.who = r.who, next.statement = r.statement,
         next.todo = Tail(r.todo), next.clock <= time, next.at \in 0..Len(rs),
         RowFits(next.round, ss),
         \/ next.at = r.at
         \/ Head(r.todo).call \in {"readCurrent", "readRound", "createRound"} /\ next.at \in DOMAIN rs,
         Copied(next, rs) \/ Head(r.todo).call = "readRoom" \/ Len(r.todo) = 1,
         Head(r.todo).call = "accept" /\ r.op = "vote" => next.round.status = "presentation_voting"
  PROVE  FitsBusy(next, time, rs, ss)
  <1> DEFINE q == r.todo
  <1>1. q \in Seq(CallRows) /\ InLine(q)
    BY RequestFields DEF FitsBusy
  <1>2. /\ Len(Tail(q)) = Len(q) - 1 /\ Len(q) \in Nat \ {0} /\ Head(q) = q[1]
        /\ \A k \in 1..(Len(q) - 1) : Tail(q)[k] = q[k + 1]
        /\ InLine(Tail(q)) /\ Tail(q) \in Seq(CallRows)
        /\ next.todo = Tail(q)
    BY <1>1, TailCalls
  <1>3. ASSUME NEW k \in 1..(Len(q) - 1)
        PROVE  FitsCall(q[k + 1], next, rs, ss)
    <2>1. FitsCall(q[k + 1], r, rs, ss)
      <3>1. k + 1 \in 1..Len(q)
        BY <1>2
      <3>. QED
        BY <3>1 DEF FitsBusy
    <2>2. CASE next.at = r.at
      BY <2>1, <2>2 DEF FitsCall
    <2>3. CASE Head(q).call \in {"readCurrent", "readRound", "createRound"}
      <3>1. 1 \in 1..Len(q) /\ k + 1 \in 1..Len(q) /\ 1 < k + 1 /\ q[1].call \in Openings
        BY <1>2, <2>3 DEF Openings, Asking
      <3>2. q[k + 1].call \in Asking
        BY <1>1, <3>1, OnlyAsking
      <3>. QED
        BY <2>1, <3>2 DEF FitsCall, Asking
    <2>. QED
      BY <2>2, <2>3
  <1>4. ASSUME Len(q) # 1
        PROVE  FitsHead(next, rs)
    <2> DEFINE c == q[2]
    <2> HIDE DEF q
    <2>1. 1 \in 1..(Len(q) - 1) /\ 1 + 1 = 2
      BY <1>2, <1>4
    <2>2. MayFollow(q[1], c) /\ FitsCall(c, next, rs, ss) /\ Tail(q)[1] = c
      BY <1>1, <1>2, <1>3, <2>1 DEF InLine
    <2>3. Head(next.todo) = c
      <3> DEFINE t == Tail(q)
      <3>1. t \in Seq(CallRows) /\ Len(t) # 0
        BY <1>2, <2>1
      <3> HIDE DEF t
      <3>2. Head(t) = t[1]
        BY <3>1
      <3>. QED
        BY <1>2, <2>2, <3>2 DEF t
    <2> HIDE DEF c
    <2>4. \/ Copied(next, rs)
          \/ c.call = "readCurrent"
      BY <1>2, <1>4, <2>2 DEF MayFollow, q
    <2>5. c.call \notin Looking
      BY <2>2 DEF MayFollow
    <2>6. c.call = "lookUp" => next.round.status = "presentation_voting"
      BY <1>2, <2>2 DEF MayFollow, FitsCall, q
    <2>. QED
      BY <2>3, <2>4, <2>5, <2>6 DEF FitsHead, Looking
  <1>5. \A k \in 1..Len(next.todo) : FitsCall(next.todo[k], next, rs, ss)
    BY <1>2, <1>3
  <1>6. next.todo # <<>> => FitsHead(next, rs)
    <2> HIDE DEF q
    <2>1. Tail(q) # <<>> => Len(Tail(q)) # 0
      BY <1>2
    <2>2. Len(Tail(q)) # 0 => Len(q) # 1
      BY <1>2
    <2>. QED
      BY <1>2, <1>4, <2>1, <2>2
  <1>7. r.op \in {"write", "vote"} =>
          r.who \in Players /\ r.statement \in Statements /\ next.at \in DOMAIN rs
    BY DEF FitsBusy
  <1>. QED
    BY <1>2, <1>5, <1>6, <1>7 DEF FitsBusy

\* A request that has made its call, and makes others before what is left.
LEMMA FrontFits ==
  ASSUME NEW time, NEW rs \in Seq(Rounds), NEW ss,
         NEW r, FitsBusy(r, time, rs, ss), r.todo # <<>>,
         Head(r.todo).call \in (Asking \ {"accept", "readRoom"}) \cup Looking \cup {"firstSet"},
         NEW front \in Seq(CallRows), front # <<>>, InLine(front),
         front[Len(front)].call \notin Asking,
         NEW next \in Requests, next.op = r.op, next.who = r.who, next.statement = r.statement,
         next.at = r.at, next.todo = front \o Tail(r.todo), next.clock <= time,
         RowFits(next.round, ss), Copied(next, rs),
         \A k \in 1..Len(front) : FitsCall(front[k], next, rs, ss),
         front[1].call # "lookUp",
         front[1].call \in {"readActive", "listVotes"} => next.round.status = "presentation_voting",
         front[1].call = "listNext" => next.round.status = "commentary"
  PROVE  FitsBusy(next, time, rs, ss)
  <1> DEFINE q == r.todo
             p == next.todo
             n == Len(front)
  <1>1. q \in Seq(CallRows) /\ InLine(q) /\ Len(q) \in Nat \ {0} /\ n \in Nat \ {0}
    BY RequestFields, TailCalls DEF FitsBusy
  <1>2. /\ InLine(p) /\ Head(p) = front[1] /\ Len(p) = n + Len(q) - 1
        /\ \A k \in 1..n : p[k] = front[k]
        /\ \A k \in 1..(Len(q) - 1) : p[n + k] = q[k + 1] /\ q[k + 1].call \in Asking
    <2>1. /\ p = front \o Tail(q) /\ q # <<>>
          /\ Head(q).call \in (Asking \ {"accept", "readRoom"}) \cup Looking \cup {"firstSet"}
      OBVIOUS
    <2>. HIDE DEF p, q
    <2>. QED
      BY <1>1, <2>1, FrontCalls
  <1> HIDE DEF p
  <1>3. ASSUME NEW k \in 1..Len(p)
        PROVE  FitsCall(p[k], next, rs, ss)
    <2>1. CASE k <= n
      BY <1>1, <1>2, <2>1
    <2>2. CASE k > n
      <3> DEFINE j == k - n
      <3>1. j \in 1..(Len(q) - 1) /\ k = n + j /\ j + 1 \in 1..Len(q)
        BY <1>1, <1>2, <2>2
      <3>2. p[k] = q[j + 1] /\ q[j + 1].call \in Asking
        BY <1>2, <3>1
      <3>3. FitsCall(q[j + 1], r, rs, ss)
        BY <3>1 DEF FitsBusy
      <3>. QED
        BY <3>2, <3>3 DEF FitsCall, Asking
    <2>. QED
      BY <1>1, <2>1, <2>2
  <1>4. FitsHead(next, rs)
    BY <1>2 DEF FitsHead, p
  <1>. QED
    BY <1>2, <1>3, <1>4 DEF FitsBusy, p

LEMMA CallFields ==
  ASSUME NEW c \in CallRows
  PROVE  /\ c.call = "updateRoom" => c.status \in {"expired", "finished"}
         /\ c.call \in {"updateRound", "createRound"} => c.row \in Rounds
         /\ c.call \in {"updateSet", "createSet", "listVotes"} => c.row \in TruthSets
         /\ c.call \in {"updateSet", "listVotes", "upsert"} => c.set \in Nat
         /\ c.call = "updateSet" => c.given \in {<<>>} \cup [Players -> Nat]
         /\ c.call \in {"increment", "writeScore"} => c.who \in Players /\ c.points \in Nat
         /\ c.call = "writeScore" => c.from \in Nat
         /\ c.call = "upsert" => c.isNew \in BOOLEAN
  BY DEF CallRows, Asking

LEMMA CallsTyped ==
  /\ \A call \in Asking \cup {"listSets", "firstSet", "readActive", "listNext"} :
       Read(call) \in CallRows /\ Read(call).call = call
  /\ \A status \in RoomStatus :
       /\ ReadClock(status) \in CallRows /\ ReadClock(status).call = "readClock"
       /\ ReadClock(status).status = status
  /\ \A status \in {"expired", "finished"} :
       WriteRoom(status) \in CallRows /\ WriteRoom(status).call = "updateRoom"
         /\ WriteRoom(status).status = status
  /\ \A row \in Rounds :
       /\ WriteRound(row) \in CallRows /\ WriteRound(row).call = "updateRound"
       /\ OpenRound(row) \in CallRows /\ OpenRound(row).call = "createRound"
       /\ WriteRound(row).row = row /\ OpenRound(row).row = row
  /\ \A s \in Nat, row \in TruthSets :
       /\ WriteSet(s, row) \in CallRows /\ WriteSet(s, row).call = "updateSet"
       /\ WriteSet(s, row).set = s /\ WriteSet(s, row).row = row /\ WriteSet(s, row).given = <<>>
  /\ \A row \in TruthSets : AddSet(row) \in CallRows /\ AddSet(row).call = "createSet"
                              /\ AddSet(row).row = row
  /\ \A p \in Players, points \in Nat :
       /\ AddPoints(p, points) \in CallRows /\ AddPoints(p, points).call = "increment"
       /\ AddPoints(p, points).who = p /\ AddPoints(p, points).points = points
  <1>1. \A call \in Asking \cup {"listSets", "firstSet", "readActive", "listNext"} :
          Read(call) \in CallRows /\ Read(call).call = call
    BY DEF CallRows, Read
  <1>c. \A status \in RoomStatus :
          /\ ReadClock(status) \in CallRows /\ ReadClock(status).call = "readClock"
          /\ ReadClock(status).status = status
    BY DEF CallRows, ReadClock
  <1>2. \A status \in {"expired", "finished"} :
          WriteRoom(status) \in CallRows /\ WriteRoom(status).call = "updateRoom"
            /\ WriteRoom(status).status = status
    BY DEF CallRows, WriteRoom
  <1>3. \A row \in Rounds :
          /\ WriteRound(row) \in CallRows /\ WriteRound(row).call = "updateRound"
          /\ OpenRound(row) \in CallRows /\ OpenRound(row).call = "createRound"
          /\ WriteRound(row).row = row /\ OpenRound(row).row = row
    BY DEF CallRows, WriteRound, OpenRound
  <1>4. \A s \in Nat, row \in TruthSets :
          /\ WriteSet(s, row) \in CallRows /\ WriteSet(s, row).call = "updateSet"
          /\ WriteSet(s, row).set = s /\ WriteSet(s, row).row = row /\ WriteSet(s, row).given = <<>>
    BY DEF CallRows, WriteSet
  <1>5. \A row \in TruthSets : AddSet(row) \in CallRows /\ AddSet(row).call = "createSet"
                                 /\ AddSet(row).row = row
    BY DEF CallRows, AddSet
  <1>6. \A p \in Players, points \in Nat :
          /\ AddPoints(p, points) \in CallRows /\ AddPoints(p, points).call = "increment"
          /\ AddPoints(p, points).who = p /\ AddPoints(p, points).points = points
    BY DEF CallRows, AddPoints
  <1>. QED
    BY <1>1, <1>c, <1>2, <1>3, <1>4, <1>5, <1>6

LEMMA MarkTyped ==
  \A s \in Nat, row \in TruthSets, given \in [Players -> Nat] :
    LET mark == MarkScored(s, row, given)
    IN  /\ mark \in CallRows /\ mark.call = "updateSet"
        /\ mark.set = s /\ mark.given = given
        /\ mark.row.round = row.round /\ mark.row.author = row.author
        /\ mark.row.scored
  <1> SUFFICES ASSUME NEW s \in Nat, NEW row \in TruthSets, NEW given \in [Players -> Nat]
               PROVE  LET mark == MarkScored(s, row, given)
                      IN  /\ mark \in CallRows /\ mark.call = "updateSet"
                          /\ mark.set = s /\ mark.given = given
                                        /\ mark.row.round = row.round /\ mark.row.author = row.author
                          /\ mark.row.scored
    OBVIOUS
  <1>1. /\ [row EXCEPT !.scored = TRUE] \in TruthSets
        /\ [row EXCEPT !.scored = TRUE].round = row.round
        /\ [row EXCEPT !.scored = TRUE].author = row.author
        /\ [row EXCEPT !.scored = TRUE].scored
    BY DEF TruthSets
  <1>. QED
    BY <1>1 DEF MarkScored, CallRows

\* A request that has nothing left to do, or one last call.
LEMMA EndFits ==
  ASSUME NEW time, NEW rs \in Seq(Rounds), NEW ss,
         NEW r, FitsBusy(r, time, rs, ss)
  PROVE  FitsBusy([r EXCEPT !.todo = <<>>], time, rs, ss)
  <1> DEFINE next == [r EXCEPT !.todo = <<>>]
  <1>1. r \in Requests
    BY DEF FitsBusy
  <1>2. next \in Requests /\ next.todo = <<>> /\ next.clock = r.clock /\ next.at = r.at
        /\ next.round = r.round /\ next.op = r.op /\ next.who = r.who
        /\ next.statement = r.statement
    <2>1. <<>> \in Seq(CallRows)
      OBVIOUS
    <2>. QED
      BY <1>1, <2>1 DEF Requests
  <1>3. InLine(<<>>)
    BY DEF InLine
  <1>. HIDE DEF next
  <1>4. FitsBusy(next, time, rs, ss)
    BY <1>2, <1>3 DEF FitsBusy
  <1>. QED
    BY <1>4 DEF next

LEMMA LastFits ==
  ASSUME NEW time, NEW rs \in Seq(Rounds), NEW ss,
         NEW r, FitsBusy(r, time, rs, ss),
         NEW c \in CallRows, ~Ends(c), FitsCall(c, r, rs, ss), c.call \notin Looking,
         c.call # "lookUp",
         Copied(r, rs) \/ c.call = "updateRoom"
  PROVE  FitsBusy([r EXCEPT !.todo = <<c>>], time, rs, ss)
  <1> DEFINE next == [r EXCEPT !.todo = <<c>>]
  <1>1. r \in Requests
    BY DEF FitsBusy
  <1>2. /\ <<c>> \in Seq(CallRows) /\ Len(<<c>>) = 1 /\ Head(<<c>>) = c /\ <<c>>[1] = c
        /\ <<c>> # <<>>
    OBVIOUS
  <1>3. next \in Requests /\ next.todo = <<c>> /\ next.clock = r.clock /\ next.at = r.at
        /\ next.round = r.round /\ next.op = r.op /\ next.who = r.who
        /\ next.statement = r.statement
    BY <1>1, <1>2 DEF Requests
  <1>4. InLine(<<c>>)
    BY <1>2 DEF InLine
  <1>5. FitsCall(c, next, rs, ss)
    BY <1>3 DEF FitsCall
  <1>6. FitsHead(next, rs)
    BY <1>2, <1>3 DEF FitsHead, Copied, Looking
  <1>. HIDE DEF next
  <1>7. FitsBusy(next, time, rs, ss)
    BY <1>2, <1>3, <1>4, <1>5, <1>6 DEF FitsBusy
  <1>. QED
    BY <1>7 DEF next

LEMMA EmptyFront ==
  ASSUME NEW S, NEW q \in Seq(S)
  PROVE  <<>> \o q = q
  OBVIOUS

LEMMA OneCall ==
  ASSUME NEW c \in CallRows, ~Ends(c)
  PROVE  /\ <<c>> \in Seq(CallRows) /\ <<c>> # <<>> /\ InLine(<<c>>) /\ Len(<<c>>) = 1
         /\ <<c>>[1] = c
  BY DEF InLine

\* A round is written, and the request goes on with it.
LEMMA MoveFits ==
  ASSUME NEW time \in Nat, NEW rs \in Seq(Rounds), NEW ss,
         NEW r, FitsBusy(r, time, rs, ss), r.todo # <<>>,
         Head(r.todo).call \in (Asking \ {"accept", "readRoom"}) \cup Looking \cup {"firstSet"},
         Copied(r, rs), NEW clock \in Nat, clock <= time,
         NEW row, RowFits(row, ss), row.number = r.round.number, row.status # "finished",
         row.pausedAt = NoTime
  PROVE  FitsBusy([r EXCEPT !.todo = <<WriteRound(row)>> \o Tail(@), !.round = row,
                            !.clock = clock], time, rs, ss)
  <1> DEFINE c == WriteRound(row)
             next == [r EXCEPT !.todo = <<c>> \o Tail(@), !.round = row, !.clock = clock]
  <1>1. r \in Requests /\ r.todo \in Seq(CallRows)
    BY RequestFields DEF FitsBusy
  <1>2. row \in Rounds
    BY DEF RowFits
  <1>3. c \in CallRows /\ c.call = "updateRound" /\ c.row = row /\ ~Ends(c)
    BY <1>2, CallsTyped DEF Ends
  <1>4. /\ <<c>> \in Seq(CallRows) /\ <<c>> # <<>> /\ InLine(<<c>>) /\ Len(<<c>>) = 1
        /\ <<c>>[1] = c
    BY <1>3, OneCall
  <1>. HIDE DEF c
  <1>5. <<c>> \o Tail(r.todo) \in Seq(CallRows)
    <2>1. Tail(r.todo) \in Seq(CallRows)
      BY <1>1, TailCalls
    <2>. QED
      BY <1>4, <2>1, JoinedCalls
  <1>6. /\ next \in Requests /\ next.todo = <<c>> \o Tail(r.todo) /\ next.clock = clock
        /\ next.at = r.at /\ next.round = row /\ next.op = r.op /\ next.who = r.who
        /\ next.statement = r.statement
    BY <1>1, <1>2, <1>5 DEF Requests
  <1>7. Copied(next, rs)
    BY <1>6 DEF Copied
  <1>8. FitsCall(c, next, rs, ss)
    BY <1>3, <1>6, <1>7 DEF FitsCall, Copied
  <1>. HIDE DEF next
  <1>9. FitsBusy(next, time, rs, ss)
    <2> DEFINE front == <<c>>
    <2>1. /\ front \in Seq(CallRows) /\ front # <<>> /\ InLine(front)
          /\ front[Len(front)].call = "updateRound" /\ front[1].call = "updateRound"
          /\ \A k \in 1..Len(front) : FitsCall(front[k], next, rs, ss)
      BY <1>3, <1>4, <1>8
    <2>2. next.todo = front \o Tail(r.todo)
      BY <1>6
    <2>. HIDE DEF front
    <2>. QED
      BY <1>6, <1>7, <2>1, <2>2, FrontFits DEF Asking
  <1>. QED
    BY <1>9 DEF next, c

LEMMA ReplacedHead ==
  ASSUME NEW time \in Nat, NEW rs \in Seq(Rounds), NEW ss,
         NEW r, FitsBusy(r, time, rs, ss), r.todo # <<>>, Head(r.todo).call = "increment",
         NEW c \in CallRows, c.call = "writeScore"
  PROVE  FitsBusy([r EXCEPT !.todo = <<c>> \o Tail(@)], time, rs, ss)
  <1> DEFINE q == r.todo
             p == <<c>> \o Tail(q)
             next == [r EXCEPT !.todo = <<c>> \o Tail(@)]
  <1>1. r \in Requests /\ q \in Seq(CallRows)
    BY RequestFields DEF FitsBusy
  <1>2. /\ Tail(q) \in Seq(CallRows) /\ Len(Tail(q)) = Len(q) - 1 /\ Len(q) \in Nat \ {0}
        /\ \A k \in 1..(Len(q) - 1) : Tail(q)[k] = q[k + 1]
        /\ Head(q) = q[1]
    BY <1>1, TailCalls
  <1>3. /\ <<c>> \in Seq(CallRows) /\ Len(<<c>>) = 1 /\ <<c>>[1] = c
    OBVIOUS
  <1>4. /\ p \in Seq(CallRows) /\ Len(p) = Len(q) /\ p[1] = c
        /\ \A k \in 1..(Len(q) - 1) : p[k + 1] = q[k + 1]
    <2> DEFINE t == Tail(q)
    <2>1. t \in Seq(CallRows) /\ Len(t) = Len(q) - 1
      BY <1>2
    <2> HIDE DEF t
    <2>2. /\ <<c>> \o t \in Seq(CallRows) /\ Len(<<c>> \o t) = 1 + Len(t)
          /\ \A k \in 1..1 : (<<c>> \o t)[k] = <<c>>[k]
          /\ \A k \in 1..Len(t) : (<<c>> \o t)[1 + k] = t[k]
      BY <1>3, <2>1, JoinedCalls
    <2>3. \A k \in 1..(Len(q) - 1) : (<<c>> \o t)[k + 1] = q[k + 1]
      <3> SUFFICES ASSUME NEW k \in 1..(Len(q) - 1) PROVE (<<c>> \o t)[k + 1] = q[k + 1]
        OBVIOUS
      <3>1. k + 1 = 1 + k
        BY <1>2
      <3>. QED
        BY <1>2, <2>1, <2>2, <3>1 DEF t
    <2>. QED
      BY <1>2, <1>3, <2>1, <2>2, <2>3 DEF t
  <1>5. p # <<>> /\ Head(p) = c
    BY <1>2, <1>4
  <1>6. /\ next \in Requests /\ next.todo = p /\ next.clock = r.clock
        /\ next.at = r.at /\ next.round = r.round /\ next.op = r.op /\ next.who = r.who
        /\ next.statement = r.statement
    BY <1>1, <1>4 DEF Requests
  <1>. HIDE DEF p, next
  <1>7. \A k \in 1..Len(q) : k # 1 => p[k] = q[k]
    <2> SUFFICES ASSUME NEW k \in 1..Len(q), k # 1 PROVE p[k] = q[k]
      OBVIOUS
    <2>1. k - 1 \in 1..(Len(q) - 1) /\ (k - 1) + 1 = k
      BY <1>2
    <2>. QED
      BY <1>4, <2>1
  <1>8. \A k \in 1..(Len(p) - 1) : MayFollow(p[k], p[k + 1])
    <2> SUFFICES ASSUME NEW k \in 1..(Len(p) - 1) PROVE MayFollow(p[k], p[k + 1])
      OBVIOUS
    <2>1. k \in 1..(Len(q) - 1) /\ k \in 1..Len(q) /\ k + 1 \in 1..Len(q) /\ k + 1 # 1
      BY <1>2, <1>4
    <2>2. MayFollow(q[k], q[k + 1])
      BY <2>1 DEF FitsBusy, InLine
    <2>3. p[k + 1] = q[k + 1]
      BY <1>7, <2>1
    <2>. QED
      BY <1>2, <1>4, <1>7, <2>1, <2>2, <2>3 DEF MayFollow, Asking, Looking, Ends
  <1>9. ~Ends(p[Len(p)])
    <2>1. Len(p) \in 1..Len(q)
      BY <1>2, <1>4
    <2>2. ~Ends(q[Len(q)])
      BY <1>2 DEF FitsBusy, InLine
    <2>. QED
      BY <1>4, <1>7, <2>1, <2>2 DEF Ends
  <1>10. \A k \in 1..Len(p) : FitsCall(p[k], next, rs, ss)
    <2> SUFFICES ASSUME NEW k \in 1..Len(p) PROVE FitsCall(p[k], next, rs, ss)
      OBVIOUS
    <2>1. CASE k = 1
      BY <1>4, <2>1 DEF FitsCall
    <2>2. CASE k # 1
      <3>1. FitsCall(q[k], r, rs, ss) /\ p[k] = q[k]
        BY <1>4, <1>7, <2>2 DEF FitsBusy
      <3>. QED
        BY <1>6, <3>1 DEF FitsCall
    <2>. QED
      BY <2>1, <2>2
  <1>11. FitsHead(next, rs)
    <2>1. Copied(r, rs)
      BY DEF FitsBusy, FitsHead
    <2>. QED
      BY <1>5, <1>6, <2>1 DEF FitsHead, Copied
  <1>12. FitsBusy(next, time, rs, ss)
    BY <1>4, <1>6, <1>8, <1>9, <1>10, <1>11 DEF FitsBusy, InLine
  <1>. QED
    BY <1>12 DEF next

-----------------------------------------------------------------------------
(* The calls.                                                              *)

LEMMA WorkerFound ==
  ASSUME BurstOK, NEW w \in Workers, req[w].todo # <<>>
  PROVE  /\ FitsBusy(req[w], now, rounds, sets) /\ req[w] \in Requests
         /\ now \in Nat /\ rounds \in Seq(Rounds) /\ sets \in Seq(TruthSets)
         /\ DOMAIN rounds = 1..Len(rounds) /\ DOMAIN sets = 1..Len(sets)
         /\ Len(rounds) \in Nat /\ Len(sets) \in Nat
         /\ req[w].todo \in Seq(CallRows) /\ Call(w) \in CallRows /\ Call(w) = req[w].todo[1]
         /\ FitsCall(Call(w), req[w], rounds, sets) /\ FitsHead(req[w], rounds)
         /\ req[w].round \in Rounds /\ RowFits(req[w].round, sets)
         /\ req[w].clock \in Nat /\ req[w].clock <= now /\ req[w].at \in Nat
         /\ room.status # "none" /\ req[w] # Idle
  <1>1. FitsBusy(req[w], now, rounds, sets) /\ req[w] # Idle
    BY DEF BurstOK, Fits
  <1>2. now \in Nat /\ rounds \in Seq(Rounds) /\ sets \in Seq(TruthSets)
    BY DEF BurstOK, RowsOK, TypeOK
  <1>3. /\ req[w] \in Requests /\ req[w].todo \in Seq(CallRows) /\ req[w].round \in Rounds
        /\ req[w].clock \in Nat /\ req[w].at \in Nat
    BY <1>1, RequestFields DEF FitsBusy
  <1>4. Call(w) \in CallRows /\ Call(w) = req[w].todo[1] /\ 1 \in 1..Len(req[w].todo)
    BY <1>3, TailCalls DEF Call
  <1>5. FitsCall(Call(w), req[w], rounds, sets) /\ FitsHead(req[w], rounds)
        /\ RowFits(req[w].round, sets) /\ req[w].clock <= now
    BY <1>1, <1>4 DEF FitsBusy
  <1>6. room.status # "none"
    BY <1>1 DEF BurstOK, Quiescent
  <1>7. DOMAIN rounds = 1..Len(rounds) /\ DOMAIN sets = 1..Len(sets)
        /\ Len(rounds) \in Nat /\ Len(sets) \in Nat
    BY <1>2
  <1>. QED
    BY <1>1, <1>2, <1>3, <1>4, <1>5, <1>6, <1>7

LEMMA GrownRefl ==
  ASSUME NEW time \in Nat, NEW rs \in Seq(Rounds), NEW ss \in Seq(TruthSets)
  PROVE  Grown(time, rs, ss, time, rs, ss)
  BY DEF Grown

LEMMA TurnEffect ==
  ASSUME BurstOK, NEW w \in Workers, RowsOK', Grown(now, rounds, sets, now', rounds', sets'),
         NEW r, FitsBusy(r, now', rounds', sets'), Turn(w, r)
  PROVE  Effect(w)
  <1>1. now' \in Nat /\ rounds' \in Seq(Rounds) /\ sets' \in Seq(TruthSets)
    BY DEF RowsOK, TypeOK
  <1>2. Fits(Settled(r), now', rounds', sets')
    BY <1>1, SettledFits
  <1>3. req' = [req EXCEPT ![w] = Settled(r)] /\ req'[w] = Settled(r)
    BY DEF Turn, Settled, BurstOK
  <1>. QED
    BY <1>2, <1>3 DEF Effect

LEMMA ReadEffect ==
  ASSUME BurstOK, NEW w \in Workers, RowsKept, now' = now, postgres' = postgres,
         NEW r, FitsBusy(r, now, rounds, sets), Turn(w, r)
  PROVE  Effect(w)
  <1>1. RowsOK'
    BY DEF RowsKept, BurstOK, RowsOK, TypeOK, HostKnown, RoundsLinked, Rooms, Votes
  <1>2. now \in Nat /\ rounds \in Seq(Rounds) /\ sets \in Seq(TruthSets)
    BY DEF BurstOK, RowsOK, TypeOK
  <1>3. now' = now /\ rounds' = rounds /\ sets' = sets
    BY DEF RowsKept
  <1>4. Grown(now, rounds, sets, now', rounds', sets')
    BY <1>2, <1>3, GrownRefl
  <1>5. FitsBusy(r, now', rounds', sets')
    BY <1>3
  <1>. QED
    BY <1>1, <1>4, <1>5, TurnEffect

LEMMA ContinueFits ==
  ASSUME NEW time, NEW rs \in Seq(Rounds), NEW ss,
         NEW r, FitsBusy(r, time, rs, ss), r.todo # <<>>,
         Copied(r, rs) \/ Head(r.todo).call = "readRoom" \/ Len(r.todo) = 1,
         Head(r.todo).call = "accept" /\ r.op = "vote" => r.round.status = "presentation_voting"
  PROVE  FitsBusy([r EXCEPT !.todo = <<>> \o Tail(@)], time, rs, ss)
  <1> DEFINE next == [r EXCEPT !.todo = <<>> \o Tail(@)]
  <1>1. r \in Requests /\ r.todo \in Seq(CallRows)
    BY RequestFields DEF FitsBusy
  <1>2. Tail(r.todo) \in Seq(CallRows) /\ <<>> \o Tail(r.todo) = Tail(r.todo)
    BY <1>1, TailCalls, EmptyFront
  <1>3. /\ next \in Requests /\ next.todo = Tail(r.todo) /\ next.clock = r.clock
        /\ next.at = r.at /\ next.round = r.round /\ next.op = r.op /\ next.who = r.who
        /\ next.statement = r.statement
    BY <1>1, <1>2 DEF Requests
  <1>. HIDE DEF next
  <1>4. next.clock <= time /\ next.at \in 0..Len(rs) /\ RowFits(next.round, ss)
    BY <1>3 DEF FitsBusy
  <1>5. Copied(next, rs) \/ Head(r.todo).call = "readRoom" \/ Len(r.todo) = 1
    BY <1>3 DEF Copied
  <1>6. FitsBusy(next, time, rs, ss)
    BY <1>3, <1>4, <1>5, TailFits
  <1>. QED
    BY <1>6 DEF next

LEMMA ReadRoomEffect ==
  ASSUME BurstOK, NEW w \in Workers, ReadRoom(w), now' = now, postgres' = postgres
  PROVE  Effect(w)
  <1>1. req[w].todo # <<>> /\ Head(req[w].todo).call = "readRoom"
    BY DEF ReadRoom, Doing
  <1>2. FitsBusy(req[w], now, rounds, sets) /\ rounds \in Seq(Rounds) /\ RowsKept
    BY <1>1, WorkerFound DEF ReadRoom
  <1>3. CASE LastCall(w, WriteRoom("expired"))
    <2> DEFINE c == WriteRoom("expired")
    <2>1. c \in CallRows /\ c.call = "updateRoom"
      BY CallsTyped
    <2>. HIDE DEF c
    <2>2. ~Ends(c) /\ FitsCall(c, req[w], rounds, sets) /\ c.call \notin Looking
      BY <2>1 DEF Ends, FitsCall, Looking
    <2>3. FitsBusy([req[w] EXCEPT !.todo = <<c>>], now, rounds, sets)
      BY <1>2, <2>1, <2>2, LastFits
    <2>4. Turn(w, [req[w] EXCEPT !.todo = <<c>>])
      BY <1>3 DEF LastCall, c
    <2>. QED
      BY <1>2, <2>3, <2>4, ReadEffect
  <1>4. CASE End(w)
    <2>1. FitsBusy([req[w] EXCEPT !.todo = <<>>], now, rounds, sets)
      BY <1>2, EndFits
    <2>. QED
      BY <1>2, <1>4, <2>1, ReadEffect DEF End
  <1>5. CASE Continue(w)
    <2>1. FitsBusy([req[w] EXCEPT !.todo = <<>> \o Tail(@)], now, rounds, sets)
      BY <1>1, <1>2, ContinueFits
    <2>. QED
      BY <1>2, <1>5, <2>1, ReadEffect DEF Continue, Before
  <1>6. now \in Nat /\ room.expiresAt \in Nat
    BY DEF BurstOK, RowsOK, TypeOK, Rooms
  <1>7. \/ now > room.expiresAt
        \/ now <= room.expiresAt /\ room.status = "expired"
        \/ now <= room.expiresAt /\ room.status # "expired"
    BY <1>6
  <1>. QED
    BY <1>3, <1>4, <1>5, <1>7 DEF ReadRoom

LEMMA LatestFound ==
  ASSUME RowsOK, rounds # <<>>
  PROVE  Latest \in DOMAIN rounds
  <1>1. /\ rounds \in Seq(Rounds) /\ Len(rounds) \in Nat \ {0} /\ DOMAIN rounds = 1..Len(rounds)
        /\ \A i \in DOMAIN rounds : rounds[i].number \in Nat
    <2>1. rounds \in Seq(Rounds)
      BY DEF RowsOK, TypeOK
    <2>2. \A i \in DOMAIN rounds : rounds[i] \in Rounds
      BY <2>1
    <2>. QED
      BY <2>1, <2>2 DEF Rounds
  <1>2. MaxRounds \in Nat
    BY TLLimitsAssumption
  <1>3. \A i \in DOMAIN rounds : rounds[i].number <= MaxRounds
    BY DEF RowsOK, RoundsLinked
  <1> DEFINE T == {MaxRounds - rounds[i].number : i \in DOMAIN rounds}
  <1>4. PICK m \in T : \A n \in T : m <= n
    <2>1. T \subseteq Nat
      BY <1>1, <1>2, <1>3
    <2>2. T # {}
      <3>1. 1 \in DOMAIN rounds
        BY <1>1
      <3>2. MaxRounds - rounds[1].number \in T
        BY <3>1
      <3>. QED
        BY <3>2
    <2>. HIDE DEF T
    <2>. QED
      BY <2>1, <2>2, LeastNumber
  <1> DEFINE U == {Len(rounds) - i : i \in {k \in DOMAIN rounds : MaxRounds - rounds[k].number = m}}
  <1>5. PICK u \in U : \A n \in U : u <= n
    <2>1. U \subseteq Nat
      BY <1>1
    <2>2. U # {}
      BY <1>4
    <2>. HIDE DEF U
    <2>. QED
      BY <2>1, <2>2, LeastNumber
  <1>6. PICK i \in DOMAIN rounds : MaxRounds - rounds[i].number = m /\ u = Len(rounds) - i
    BY <1>5
  <1>7. ASSUME NEW j \in DOMAIN rounds
        PROVE  \/ rounds[j].number < rounds[i].number
               \/ rounds[j].number = rounds[i].number /\ j <= i
    <2>1. m <= MaxRounds - rounds[j].number
      BY <1>4
    <2>2. MaxRounds - rounds[j].number = m => u <= Len(rounds) - j
      BY <1>5
    <2> DEFINE a == rounds[i].number
               b == rounds[j].number
    <2>3. a \in Nat /\ b \in Nat /\ MaxRounds \in Nat /\ i \in Nat /\ j \in Nat /\ Len(rounds) \in Nat
      BY <1>1, <1>2, <1>6
    <2>4. MaxRounds - a <= MaxRounds - b /\ (MaxRounds - b = MaxRounds - a => Len(rounds) - i <= Len(rounds) - j)
      BY <1>6, <2>1, <2>2
    <2>. HIDE DEF a, b
    <2>5. MaxRounds - b >= MaxRounds - a => b <= a
      BY <2>3
    <2>6. MaxRounds - b = MaxRounds - a <=> a = b
      BY <2>3
    <2>7. Len(rounds) - i <= Len(rounds) - j => j <= i
      BY <2>3
    <2>8. b < a \/ (b = a /\ j <= i)
      <3>1. b <= a /\ (a = b => j <= i)
        BY <2>3, <2>4, <2>5, <2>6, <2>7
      <3>. QED
        BY <2>3, <3>1
    <2>. QED
      BY <2>8 DEF a, b
  <1>8. \E k \in DOMAIN rounds : \A j \in DOMAIN rounds :
          \/ rounds[j].number < rounds[k].number
          \/ rounds[j].number = rounds[k].number /\ j <= k
    BY <1>7
  <1>9. Len(rounds) \in DOMAIN rounds
    BY <1>1
  <1>. QED
    BY <1>8, <1>9 DEF Latest

LEMMA ReadCurrentEffect ==
  ASSUME BurstOK, NEW w \in Workers, ReadCurrent(w), now' = now, postgres' = postgres
  PROVE  Effect(w)
  <1> DEFINE r == req[w]
  <1>1. r.todo # <<>> /\ Head(r.todo).call = "readCurrent" /\ RowsKept
    BY DEF ReadCurrent, Doing
  <1>2. /\ FitsBusy(r, now, rounds, sets) /\ rounds \in Seq(Rounds) /\ r \in Requests
        /\ r.todo \in Seq(CallRows) /\ DOMAIN rounds = 1..Len(rounds) /\ Len(rounds) \in Nat
        /\ r.clock <= now
    BY <1>1, WorkerFound
  <1>3. CASE rounds = <<>>
    <2>1. FitsBusy([r EXCEPT !.todo = <<>>], now, rounds, sets)
      BY <1>2, EndFits
    <2>. QED
      BY <1>1, <1>3, <2>1, ReadEffect DEF End, ReadCurrent
  <1>4. CASE rounds # <<>>
    <2> DEFINE at == Latest
               next == [[r EXCEPT !.at = at, !.round = rounds[at]] EXCEPT !.todo = <<>> \o Tail(@)]
    <2>1. at \in DOMAIN rounds
      BY <1>4, LatestFound DEF BurstOK
    <2>. HIDE DEF at
    <2>2. rounds[at] \in Rounds /\ at \in Nat /\ at \in 0..Len(rounds) /\ RowFits(rounds[at], sets)
      BY <1>2, <2>1 DEF BurstOK, RowsOK
    <2>3. Tail(r.todo) \in Seq(CallRows) /\ <<>> \o Tail(r.todo) = Tail(r.todo)
      BY <1>1, <1>2, TailCalls, EmptyFront
    <2>4. /\ next \in Requests /\ next.todo = Tail(r.todo) /\ next.clock = r.clock
          /\ next.at = at /\ next.round = rounds[at] /\ next.op = r.op /\ next.who = r.who
          /\ next.statement = r.statement
      BY <1>2, <2>2, <2>3 DEF Requests
    <2>5. Turn(w, next)
      BY <1>4 DEF ReadCurrent, Before, at
    <2>. HIDE DEF next
    <2>6. Copied(next, rounds)
      BY <2>1, <2>4 DEF Copied
    <2>7. FitsBusy(next, now, rounds, sets)
      BY <1>1, <1>2, <2>1, <2>2, <2>4, <2>6, TailFits
    <2>. QED
      BY <1>1, <2>5, <2>7, ReadEffect
  <1>. QED
    BY <1>3, <1>4

LEMMA ReadRoundEffect ==
  ASSUME BurstOK, NEW w \in Workers, ReadRoundRow(w), now' = now, postgres' = postgres
  PROVE  Effect(w)
  <1> DEFINE r == req[w]
             at == r.at
             next == [[r EXCEPT !.round = rounds[at]] EXCEPT !.todo = <<>> \o Tail(@)]
  <1>1. r.todo # <<>> /\ Head(r.todo).call = "readRound" /\ RowsKept
    BY DEF ReadRoundRow, Doing
  <1>2. /\ FitsBusy(r, now, rounds, sets) /\ rounds \in Seq(Rounds) /\ r \in Requests
        /\ r.todo \in Seq(CallRows) /\ DOMAIN rounds = 1..Len(rounds) /\ Len(rounds) \in Nat
        /\ r.clock <= now /\ FitsCall(Call(w), r, rounds, sets)
    BY <1>1, WorkerFound
  <1>3. at \in DOMAIN rounds
    BY <1>1, <1>2 DEF FitsCall, FitsBusy, Call
  <1>4. rounds[at] \in Rounds /\ at \in Nat /\ at \in 0..Len(rounds) /\ RowFits(rounds[at], sets)
    BY <1>2, <1>3 DEF BurstOK, RowsOK
  <1>5. Tail(r.todo) \in Seq(CallRows) /\ <<>> \o Tail(r.todo) = Tail(r.todo)
    BY <1>1, <1>2, TailCalls, EmptyFront
  <1>6. /\ next \in Requests /\ next.todo = Tail(r.todo) /\ next.clock = r.clock
        /\ next.at = at /\ next.round = rounds[at] /\ next.op = r.op /\ next.who = r.who
        /\ next.statement = r.statement
    BY <1>2, <1>4, <1>5 DEF Requests
  <1>7. Turn(w, next)
    BY DEF ReadRoundRow, Before
  <1>. HIDE DEF next
  <1>8. Copied(next, rounds)
    BY <1>3, <1>6 DEF Copied
  <1>9. FitsBusy(next, now, rounds, sets)
    BY <1>1, <1>2, <1>3, <1>4, <1>6, <1>8, TailFits
  <1>. QED
    BY <1>1, <1>7, <1>9, ReadEffect

LEMMA EnteringRow ==
  ASSUME NEW r, r.round \in Rounds, r.clock \in Nat, NEW ss \in Seq(TruthSets), RowFits(r.round, ss),
         NEW status \in RoundStatus, status # "finished",
         status \in Presenting => r.round.active # 0,
         NEW duration \in {CountdownTime, WriteTime, VoteTime, RevealTime, CommentTime}
  PROVE  LET row == Entering(r, status, duration)
         IN  /\ RowFits(row, ss) /\ row.number = r.round.number /\ row.status = status
             /\ row \in Rounds /\ row.pausedAt = NoTime
  <1> DEFINE row == Entering(r, status, duration)
  <1>1. duration \in Nat
    BY TLTimesAssumption
  <1>2. r.clock + duration \in Nat
    BY <1>1
  <1>3. row = [r.round EXCEPT !.status = status, !.phaseEndsAt = r.clock + duration, !.pausedAt = NoTime]
    BY DEF Entering
  <1>. HIDE DEF row
  <1>4. /\ row \in Rounds /\ row.number = r.round.number /\ row.status = status
        /\ row.active = r.round.active /\ row.pausedAt = NoTime
    BY <1>2, <1>3 DEF Rounds
  <1>5. RowFits(row, ss)
    BY <1>4 DEF RowFits
  <1>. QED
    BY <1>4, <1>5 DEF row

LEMMA ShowingRow ==
  ASSUME NEW r, r.round \in Rounds, r.clock \in Nat, NEW ss \in Seq(TruthSets), RowFits(r.round, ss),
         NEW s \in 1..Len(ss)
  PROVE  LET row == Showing(r, s)
         IN  /\ RowFits(row, ss) /\ row.number = r.round.number
             /\ row.status = "presentation_voting" /\ row \in Rounds /\ row.pausedAt = NoTime
  <1> DEFINE row == Showing(r, s)
  <1>1. VoteTime \in Nat /\ Len(ss) \in Nat
    BY TLTimesAssumption
  <1>2. r.clock + VoteTime \in Nat /\ s \in Nat /\ s # 0
    BY <1>1
  <1>3. row = [[r.round EXCEPT !.status = "presentation_voting", !.phaseEndsAt = r.clock + VoteTime,
                               !.pausedAt = NoTime] EXCEPT !.active = s]
    BY DEF Showing, Entering
  <1>. HIDE DEF row
  <1>4. /\ row \in Rounds /\ row.number = r.round.number /\ row.status = "presentation_voting"
        /\ row.active = s /\ row.pausedAt = NoTime
    BY <1>2, <1>3 DEF Rounds, RoundStatus, Presenting
  <1>5. RowFits(row, ss)
    BY <1>1, <1>2, <1>4 DEF RowFits
  <1>. QED
    BY <1>4, <1>5 DEF row

\* A request that looks at what its round needs.
LEMMA LookFits ==
  ASSUME NEW time \in Nat, NEW rs \in Seq(Rounds), NEW ss,
         NEW r, FitsBusy(r, time, rs, ss), r.todo # <<>>,
         Head(r.todo).call \in (Asking \ {"accept", "readRoom"}) \cup Looking \cup {"firstSet"},
         Copied(r, rs), NEW clock \in Nat, clock <= time,
         NEW c \in CallRows, c.call \in Looking \cup {"firstSet"},
         FitsCall(c, r, rs, ss),
         c.call \in {"readActive", "listVotes"} => r.round.status = "presentation_voting",
         c.call = "listNext" => r.round.status = "commentary"
  PROVE  FitsBusy([r EXCEPT !.todo = <<c>> \o Tail(@), !.clock = clock], time, rs, ss)
  <1> DEFINE next == [r EXCEPT !.todo = <<c>> \o Tail(@), !.clock = clock]
             front == <<c>>
  <1>1. r \in Requests /\ r.todo \in Seq(CallRows)
    BY RequestFields DEF FitsBusy
  <1>2. ~Ends(c)
    BY DEF Ends, Looking
  <1>3. /\ front \in Seq(CallRows) /\ front # <<>> /\ InLine(front) /\ Len(front) = 1
        /\ front[1] = c
    BY <1>2, OneCall
  <1>. HIDE DEF front
  <1>4. front \o Tail(r.todo) \in Seq(CallRows)
    <2>1. Tail(r.todo) \in Seq(CallRows)
      BY <1>1, TailCalls
    <2>. QED
      BY <1>3, <2>1, JoinedCalls
  <1>5. /\ next \in Requests /\ next.todo = front \o Tail(r.todo) /\ next.clock = clock
        /\ next.at = r.at /\ next.round = r.round /\ next.op = r.op /\ next.who = r.who
        /\ next.statement = r.statement
    BY <1>1, <1>4 DEF Requests, front
  <1>. HIDE DEF next
  <1>6. Copied(next, rs) /\ RowFits(next.round, ss) /\ next.clock <= time
    BY <1>5 DEF Copied, FitsBusy
  <1>7. \A k \in 1..Len(front) : FitsCall(front[k], next, rs, ss)
    BY <1>3, <1>5 DEF FitsCall
  <1>8. c.call \notin Asking
    BY DEF Looking, Asking
  <1>9. /\ front[Len(front)].call \notin Asking /\ front[1].call # "lookUp"
        /\ front[1].call \in {"readActive", "listVotes"} => next.round.status = "presentation_voting"
        /\ front[1].call = "listNext" => next.round.status = "commentary"
    BY <1>3, <1>5, <1>8 DEF Asking
  <1>10. FitsBusy(next, time, rs, ss)
    BY <1>3, <1>5, <1>6, <1>7, <1>9, FrontFits
  <1>. QED
    BY <1>10 DEF next, front

LEMMA ReadFits ==
  ASSUME NEW call \in {"listSets", "firstSet", "readActive", "listNext"}, NEW r, NEW rs, NEW ss
  PROVE  /\ Read(call) \in CallRows /\ Read(call).call = call
         /\ FitsCall(Read(call), r, rs, ss)
  <1>1. Read(call) \in CallRows /\ Read(call).call = call
    BY CallsTyped
  <1>. QED
    BY <1>1 DEF FitsCall

\* The room is read, and the clock is next.
LEMMA SyncRoomEffect ==
  ASSUME BurstOK, NEW w \in Workers, SyncRoom(w), now' = now, postgres' = postgres
  PROVE  Effect(w)
  <1> DEFINE r == req[w]
             c == ReadClock(room.status)
             next == [r EXCEPT !.todo = <<c>> \o Tail(@), !.clock = r.clock]
  <1>1. /\ r.todo # <<>> /\ Head(r.todo).call = "syncRoom" /\ RowsKept
        /\ Before(w, <<c>>, r)
    BY DEF SyncRoom, Doing
  <1>2. /\ FitsBusy(r, now, rounds, sets) /\ rounds \in Seq(Rounds) /\ r \in Requests
        /\ now \in Nat /\ FitsHead(r, rounds) /\ r.clock \in Nat /\ r.clock <= now
    BY <1>1, WorkerFound
  <1>3. Copied(r, rounds) /\ Head(r.todo).call \in Asking \ {"accept", "readRoom"}
    BY <1>1, <1>2 DEF FitsHead, Asking
  <1>4. room.status \in RoomStatus
    BY DEF BurstOK, RowsOK, TypeOK, Rooms
  <1>5. c \in CallRows /\ c.call = "readClock"
    BY <1>4, CallsTyped
  <1>. HIDE DEF c, r
  <1>6. FitsCall(c, r, rounds, sets) /\ c.call \in Looking
    BY <1>5 DEF FitsCall, Looking
  <1>7. FitsBusy(next, now, rounds, sets)
    BY <1>1, <1>2, <1>3, <1>5, <1>6, LookFits
  <1>8. next = [r EXCEPT !.todo = <<c>> \o Tail(@)]
    BY <1>2 DEF Requests
  <1>9. Turn(w, next)
    BY <1>1, <1>8 DEF Before
  <1>. QED
    BY <1>1, <1>7, <1>9, ReadEffect DEF r

LEMMA SynchroniseEffect ==
  ASSUME BurstOK, NEW w \in Workers, Synchronise(w), now' = now, postgres' = postgres
  PROVE  Effect(w)
  <1> DEFINE q == req[w]
             r == [q EXCEPT !.clock = now]
  <1>1. q.todo # <<>> /\ Head(q.todo).call = "readClock" /\ RowsKept
    BY DEF Synchronise, Doing
  <1>2. /\ FitsBusy(q, now, rounds, sets) /\ rounds \in Seq(Rounds) /\ q \in Requests
        /\ q.todo \in Seq(CallRows) /\ now \in Nat /\ sets \in Seq(TruthSets)
        /\ q.round \in Rounds /\ RowFits(q.round, sets) /\ FitsHead(q, rounds) /\ now <= now
    BY <1>1, WorkerFound
  <1>3. Copied(q, rounds) /\ q.todo # <<>>
        /\ Head(q.todo).call \in (Asking \ {"accept", "readRoom"}) \cup Looking \cup {"firstSet"}
    BY <1>1, <1>2 DEF FitsHead, Looking
  <1>4. /\ r \in Requests /\ r.todo = q.todo /\ r.clock = now /\ r.round = q.round
        /\ r.at = q.at /\ r.op = q.op /\ r.who = q.who /\ r.statement = q.statement
    BY <1>2 DEF Requests
  <1>5. CASE LastCall(w, WriteRoom("expired"))
    <2> DEFINE c == WriteRoom("expired")
    <2>1. c \in CallRows /\ c.call = "updateRoom"
      BY CallsTyped
    <2>. HIDE DEF c
    <2>2. ~Ends(c) /\ FitsCall(c, req[w], rounds, sets) /\ c.call \notin Looking
      BY <2>1 DEF Ends, FitsCall, Looking
    <2>3. FitsBusy([req[w] EXCEPT !.todo = <<c>>], now, rounds, sets)
      BY <1>2, <2>1, <2>2, LastFits
    <2>4. Turn(w, [req[w] EXCEPT !.todo = <<c>>])
      BY <1>5 DEF LastCall, c
    <2>. QED
      BY <1>1, <2>3, <2>4, ReadEffect
  <1>6. CASE End(w)
    <2>1. FitsBusy([req[w] EXCEPT !.todo = <<>>], now, rounds, sets)
      BY <1>2, EndFits
    <2>. QED
      BY <1>1, <1>6, <2>1, ReadEffect DEF End
  <1>7. CASE Continue(w)
    <2>1. FitsBusy([req[w] EXCEPT !.todo = <<>> \o Tail(@)], now, rounds, sets)
      BY <1>1, <1>2, <1>3, ContinueFits
    <2>. QED
      BY <1>1, <1>7, <2>1, ReadEffect DEF Continue, Before
  <1>8. CASE Before(w, <<>>, r)
    <2> DEFINE next == [r EXCEPT !.todo = <<>> \o Tail(@)]
    <2>1. Tail(q.todo) \in Seq(CallRows) /\ <<>> \o Tail(q.todo) = Tail(q.todo)
      BY <1>1, <1>2, TailCalls, EmptyFront
    <2>2. /\ next \in Requests /\ next.todo = Tail(q.todo) /\ next.clock = now
          /\ next.at = q.at /\ next.round = q.round /\ next.op = q.op /\ next.who = q.who
          /\ next.statement = q.statement
      BY <1>2, <2>1 DEF Requests
    <2>3. Turn(w, next)
      BY <1>8 DEF Before
    <2>. HIDE DEF next
    <2>4. next.at \in 0..Len(rounds) /\ Copied(next, rounds) /\ next.clock <= now
      BY <1>2, <1>3, <2>2 DEF Copied, FitsBusy
    <2>5. FitsBusy(next, now, rounds, sets)
      BY <1>1, <1>2, <2>2, <2>4, TailFits
    <2>. QED
      BY <1>1, <2>3, <2>5, ReadEffect
  <1>9. ASSUME NEW row, RowFits(row, sets), row.number = q.round.number, row.status # "finished",
               row.pausedAt = NoTime, Moves(w, r, row)
        PROVE  Effect(w)
    <2> DEFINE next == [q EXCEPT !.todo = <<WriteRound(row)>> \o Tail(@), !.round = row,
                                 !.clock = now]
    <2>1. FitsBusy(next, now, rounds, sets)
      BY <1>2, <1>3, <1>9, MoveFits
    <2>2. next = [[r EXCEPT !.round = row] EXCEPT !.todo = <<WriteRound(row)>> \o Tail(@)]
      BY <1>2 DEF Requests
    <2>3. Turn(w, next)
      BY <1>9, <2>2 DEF Moves, Before
    <2>. QED
      BY <1>1, <2>1, <2>3, ReadEffect
  <1>10. ASSUME NEW c \in CallRows, c.call \in Looking \cup {"firstSet"},
                FitsCall(c, q, rounds, sets),
                c.call \in {"readActive", "listVotes"} => q.round.status = "presentation_voting",
                c.call = "listNext" => q.round.status = "commentary",
                Before(w, <<c>>, r)
         PROVE  Effect(w)
    <2> DEFINE next == [q EXCEPT !.todo = <<c>> \o Tail(@), !.clock = now]
    <2>1. FitsBusy(next, now, rounds, sets)
      BY <1>2, <1>3, <1>10, LookFits
    <2>2. next = [r EXCEPT !.todo = <<c>> \o Tail(@)]
      BY <1>2 DEF Requests
    <2>3. Turn(w, next)
      BY <1>10, <2>2 DEF Before
    <2>. QED
      BY <1>1, <2>1, <2>3, ReadEffect
  <1>. HIDE DEF r
  <1>11. ASSUME DueBy(r), r.round.status = "countdown",
                Moves(w, r, Entering(r, "writing", WriteTime))
         PROVE  Effect(w)
    <2>1. LET row == Entering(r, "writing", WriteTime)
          IN  RowFits(row, sets) /\ row.number = r.round.number /\ row.status = "writing"
                /\ row.pausedAt = NoTime
      BY <1>2, <1>4, EnteringRow DEF RoundStatus, Presenting
    <2>. QED
      BY <1>4, <1>9, <1>11, <2>1
  <1>12. ASSUME DueBy(r), r.round.status = "reveal",
                Moves(w, r, Entering(r, "commentary", CommentTime))
         PROVE  Effect(w)
    <2>1. r.round.active # 0
      BY <1>2, <1>4, <1>12 DEF RowFits, Presenting
    <2>2. LET row == Entering(r, "commentary", CommentTime)
          IN  RowFits(row, sets) /\ row.number = r.round.number /\ row.status = "commentary"
                /\ row.pausedAt = NoTime
      BY <1>2, <1>4, <2>1, EnteringRow DEF RoundStatus, Presenting
    <2>. QED
      BY <1>4, <1>9, <1>12, <2>2
  <1>13. ASSUME r.round.status = "writing", Before(w, <<Read("listSets")>>, r)
         PROVE  Effect(w)
    BY <1>10, <1>13, ReadFits DEF Looking
  <1>14. ASSUME r.round.status = "presentation_voting", Before(w, <<Read("readActive")>>, r)
         PROVE  Effect(w)
    BY <1>4, <1>10, <1>14, ReadFits DEF Looking
  <1>15. ASSUME r.round.status = "commentary", Before(w, <<Read("listNext")>>, r)
         PROVE  Effect(w)
    BY <1>4, <1>10, <1>15, ReadFits DEF Looking
  <1>16. DueBy(r) => r.round.status \in
                       {"countdown", "writing", "presentation_voting", "reveal", "commentary"}
    <2>1. r.round.status = "finished" => r.round.phaseEndsAt = NoTime
      BY <1>2, <1>4 DEF RowFits
    <2>2. r.round.status \in RoundStatus
      BY <1>2, <1>4 DEF Rounds
    <2>. QED
      BY <2>1, <2>2 DEF DueBy, RoundStatus, Presenting
  <1>17. \/ LastCall(w, WriteRoom("expired"))
         \/ End(w)
         \/ Continue(w)
         \/ Before(w, <<>>, r)
         \/ DueBy(r) /\ r.round.status = "countdown" /\ Moves(w, r, Entering(r, "writing", WriteTime))
         \/ r.round.status = "writing" /\ Before(w, <<Read("listSets")>>, r)
         \/ r.round.status = "presentation_voting" /\ Before(w, <<Read("readActive")>>, r)
         \/ DueBy(r) /\ r.round.status = "reveal" /\ Moves(w, r, Entering(r, "commentary", CommentTime))
         \/ r.round.status = "commentary" /\ Before(w, <<Read("listNext")>>, r)
    BY <1>16 DEF Synchronise, r
  <1>. QED
    BY <1>5, <1>6, <1>7, <1>8, <1>11, <1>12, <1>13, <1>14, <1>15, <1>17

\* What a request in a round finds.
LEMMA LookingFound ==
  ASSUME BurstOK, NEW w \in Workers, req[w].todo # <<>>, RowsKept,
         Head(req[w].todo).call \in Looking \cup {"firstSet"}
  PROVE  /\ FitsBusy(req[w], now, rounds, sets) /\ req[w] \in Requests
         /\ now \in Nat /\ rounds \in Seq(Rounds) /\ sets \in Seq(TruthSets)
         /\ req[w].todo \in Seq(CallRows) /\ req[w].round \in Rounds
         /\ RowFits(req[w].round, sets) /\ req[w].clock \in Nat /\ req[w].clock <= now
         /\ Copied(req[w], rounds)
         /\ Head(req[w].todo).call \in (Asking \ {"accept", "readRoom"}) \cup Looking \cup {"firstSet"}
         /\ Head(req[w].todo).call \in {"readActive", "listVotes"} =>
              req[w].round.status = "presentation_voting"
         /\ Head(req[w].todo).call = "listNext" => req[w].round.status = "commentary"
         /\ Call(w) \in CallRows /\ FitsCall(Call(w), req[w], rounds, sets)
         /\ \A s \in DOMAIN sets : s \in 1..Len(sets) /\ s \in Nat /\ sets[s] \in TruthSets
  <1>1. /\ FitsBusy(req[w], now, rounds, sets) /\ req[w] \in Requests
        /\ now \in Nat /\ rounds \in Seq(Rounds) /\ sets \in Seq(TruthSets)
        /\ req[w].todo \in Seq(CallRows) /\ req[w].round \in Rounds
        /\ RowFits(req[w].round, sets) /\ req[w].clock \in Nat /\ req[w].clock <= now
        /\ FitsHead(req[w], rounds)
        /\ Call(w) \in CallRows /\ FitsCall(Call(w), req[w], rounds, sets)
    BY WorkerFound
  <1>2. \A s \in DOMAIN sets : s \in 1..Len(sets) /\ s \in Nat /\ sets[s] \in TruthSets
    BY <1>1
  <1>3. Copied(req[w], rounds)
    BY <1>1 DEF FitsHead, Looking
  <1>. QED
    BY <1>1, <1>2, <1>3 DEF FitsHead

LEMMA MovesEffect ==
  ASSUME BurstOK, NEW w \in Workers, req[w].todo # <<>>, RowsKept, now' = now,
         postgres' = postgres, Head(req[w].todo).call \in Looking \cup {"firstSet"},
         NEW row, RowFits(row, sets), row.number = req[w].round.number, row.status # "finished",
         row.pausedAt = NoTime, Moves(w, req[w], row)
  PROVE  Effect(w)
  <1> DEFINE r == req[w]
             next == [r EXCEPT !.todo = <<WriteRound(row)>> \o Tail(@), !.round = row,
                               !.clock = r.clock]
  <1>1. FitsBusy(next, now, rounds, sets)
    BY LookingFound, MoveFits
  <1>2. next = [[r EXCEPT !.round = row] EXCEPT !.todo = <<WriteRound(row)>> \o Tail(@)]
    BY LookingFound DEF Requests
  <1>3. Turn(w, next)
    BY <1>2 DEF Moves, Before
  <1>. QED
    BY <1>1, <1>3, ReadEffect

LEMMA LooksEffect ==
  ASSUME BurstOK, NEW w \in Workers, req[w].todo # <<>>, RowsKept, now' = now,
         postgres' = postgres, Head(req[w].todo).call \in Looking \cup {"firstSet"},
         NEW c \in CallRows, c.call \in Looking \cup {"firstSet"},
         FitsCall(c, req[w], rounds, sets),
         c.call \in {"readActive", "listVotes"} => req[w].round.status = "presentation_voting",
         c.call = "listNext" => req[w].round.status = "commentary",
         Before(w, <<c>>, req[w])
  PROVE  Effect(w)
  <1> DEFINE r == req[w]
             next == [r EXCEPT !.todo = <<c>> \o Tail(@), !.clock = r.clock]
  <1>1. FitsBusy(next, now, rounds, sets)
    BY LookingFound, LookFits
  <1>2. next = [r EXCEPT !.todo = <<c>> \o Tail(@)]
    BY LookingFound DEF Requests
  <1>3. Turn(w, next)
    BY <1>2 DEF Before
  <1>. QED
    BY <1>1, <1>3, ReadEffect

LEMMA EndEffect ==
  ASSUME BurstOK, NEW w \in Workers, RowsKept, now' = now, postgres' = postgres, End(w)
  PROVE  Effect(w)
  <1>1. FitsBusy(req[w], now, rounds, sets) /\ rounds \in Seq(Rounds)
    BY DEF BurstOK, Fits, RowsOK, TypeOK
  <1>2. FitsBusy([req[w] EXCEPT !.todo = <<>>], now, rounds, sets)
    BY <1>1, EndFits
  <1>. QED
    BY <1>2, ReadEffect DEF End

\* Several calls are put in front of the rest.
LEMMA FrontEffect ==
  ASSUME BurstOK, NEW w \in Workers, req[w].todo # <<>>, RowsKept, now' = now,
         postgres' = postgres, Head(req[w].todo).call \in Looking \cup {"firstSet"},
         NEW row, RowFits(row, sets), row.number = req[w].round.number,
         NEW front \in Seq(CallRows), front # <<>>, InLine(front),
         front[Len(front)].call \notin Asking, front[1].call \notin Looking \cup {"lookUp"},
         \A k \in 1..Len(front) : FitsCall(front[k], req[w], rounds, sets),
         Turn(w, [[req[w] EXCEPT !.round = row] EXCEPT !.todo = front \o Tail(@)])
  PROVE  Effect(w)
  <1> DEFINE r == req[w]
             next == [[r EXCEPT !.round = row] EXCEPT !.todo = front \o Tail(@)]
  <1>1. /\ FitsBusy(r, now, rounds, sets) /\ r \in Requests /\ r.todo \in Seq(CallRows)
        /\ rounds \in Seq(Rounds) /\ Copied(r, rounds) /\ r.clock <= now /\ r.todo # <<>>
        /\ Head(r.todo).call \in (Asking \ {"accept", "readRoom"}) \cup Looking \cup {"firstSet"}
    BY LookingFound
  <1>2. front \o Tail(r.todo) \in Seq(CallRows)
    <2>1. Tail(r.todo) \in Seq(CallRows)
      BY <1>1, TailCalls
    <2>. QED
      BY <2>1, JoinedCalls
  <1>3. row \in Rounds
    BY DEF RowFits
  <1>4. /\ next \in Requests /\ next.todo = front \o Tail(r.todo) /\ next.clock = r.clock
        /\ next.at = r.at /\ next.round = row /\ next.op = r.op /\ next.who = r.who
        /\ next.statement = r.statement
    BY <1>1, <1>2, <1>3 DEF Requests
  <1>5. Turn(w, next)
    OBVIOUS
  <1>. HIDE DEF next
  <1>6. Copied(next, rounds)
    BY <1>1, <1>4 DEF Copied
  <1>7. \A k \in 1..Len(front) : FitsCall(front[k], next, rounds, sets)
    BY <1>4 DEF FitsCall
  <1>8. FitsBusy(next, now, rounds, sets)
    BY <1>1, <1>4, <1>6, <1>7, FrontFits DEF Looking
  <1>. QED
    BY <1>5, <1>8, ReadEffect

LEMMA FirstSetEffect ==
  ASSUME BurstOK, NEW w \in Workers, FirstSet(w), now' = now, postgres' = postgres
  PROVE  Effect(w)
  <1>1. req[w].todo # <<>> /\ Head(req[w].todo).call \in Looking \cup {"firstSet"} /\ RowsKept
    BY DEF FirstSet, Doing
  <1>2. PICK s \in SetsOf(game, req[w].at) : Moves(w, req[w], Showing(req[w], s))
    BY DEF FirstSet
  <1>3. s \in 1..Len(sets)
    BY <1>1, <1>2, LookingFound DEF SetsOf, game
  <1>4. LET row == Showing(req[w], s)
        IN  RowFits(row, sets) /\ row.number = req[w].round.number
              /\ row.status = "presentation_voting" /\ row.pausedAt = NoTime
    BY <1>1, <1>3, LookingFound, ShowingRow
  <1>. QED
    BY <1>1, <1>2, <1>4, MovesEffect

LEMMA ReadActiveEffect ==
  ASSUME BurstOK, NEW w \in Workers, ReadActive(w), now' = now, postgres' = postgres
  PROVE  Effect(w)
  <1> DEFINE r == req[w]
             s == r.round.active
             c == [call |-> "listVotes", set |-> s, row |-> sets[s]]
  <1>1. /\ r.todo # <<>> /\ Head(r.todo).call \in Looking \cup {"firstSet"} /\ RowsKept
        /\ Head(r.todo).call = "readActive"
    BY DEF ReadActive, Doing, Looking
  <1>2. s # 0 /\ s \in DOMAIN sets /\ sets[s] \in TruthSets /\ s \in Nat
        /\ r.round.status = "presentation_voting"
    <2>1. /\ RowFits(r.round, sets) /\ r.round.status = "presentation_voting"
          /\ sets \in Seq(TruthSets)
          /\ \A t \in DOMAIN sets : t \in 1..Len(sets) /\ t \in Nat /\ sets[t] \in TruthSets
      BY <1>1, LookingFound
    <2>2. s \in 0..Len(sets) /\ s # 0
      BY <2>1 DEF RowFits, Presenting
    <2>3. s \in DOMAIN sets
      BY <2>1, <2>2
    <2>. QED
      BY <2>1, <2>2, <2>3
  <1>3. CASE Moves(w, r, Entering(r, "reveal", RevealTime))
    <2>1. /\ r.round \in Rounds /\ r.clock \in Nat /\ sets \in Seq(TruthSets)
          /\ RowFits(r.round, sets) /\ r.round.active # 0
      BY <1>1, <1>2, LookingFound
    <2>2. "reveal" \in RoundStatus
      BY DEF RoundStatus, Presenting
    <2>. HIDE DEF r
    <2>3. LET row == Entering(r, "reveal", RevealTime)
          IN  RowFits(row, sets) /\ row.number = r.round.number /\ row.status = "reveal"
              /\ row.pausedAt = NoTime
      BY <2>1, <2>2, EnteringRow
    <2>. USE DEF r
    <2>. QED
      BY <1>1, <1>3, <2>3, MovesEffect
  <1>4. CASE Before(w, <<c>>, r)
    <2>1. c \in CallRows /\ c.call = "listVotes"
      BY <1>2 DEF CallRows
    <2>2. FitsCall(c, r, rounds, sets)
      BY <1>2 DEF FitsCall
    <2>. HIDE DEF c
    <2>. QED
      BY <1>1, <1>2, <1>4, <2>1, <2>2, LooksEffect DEF Looking
  <1>. QED
    BY <1>3, <1>4 DEF ReadActive

LEMMA ListNextEffect ==
  ASSUME BurstOK, NEW w \in Workers, ListNext(w), now' = now, postgres' = postgres
  PROVE  Effect(w)
  <1> DEFINE r == req[w]
             over == Finished(r.round)
             new == [NoRow EXCEPT !.number = NumberAfter(r.round.number),
                                  !.phaseEndsAt = r.clock + WriteTime]
  <1>1. /\ r.todo # <<>> /\ Head(r.todo).call \in Looking \cup {"firstSet"} /\ RowsKept
        /\ Head(r.todo).call = "listNext"
    BY DEF ListNext, Doing, Looking
  <1>2. /\ r.round \in Rounds /\ r.clock \in Nat /\ sets \in Seq(TruthSets)
        /\ RowFits(r.round, sets) /\ r.round.status = "commentary"
        /\ Copied(r, rounds)
        /\ \A s \in DOMAIN sets : s \in 1..Len(sets)
    BY <1>1, LookingFound
  <1>3. CASE \E s \in SetsOf(game, r.at) : Moves(w, r, Showing(r, s))
    <2>1. PICK s \in SetsOf(game, r.at) : Moves(w, r, Showing(r, s))
      BY <1>3
    <2>2. s \in 1..Len(sets)
      BY <1>2, <2>1 DEF SetsOf, game
    <2>3. LET row == Showing(r, s)
          IN  RowFits(row, sets) /\ row.number = r.round.number
                /\ row.status = "presentation_voting" /\ row.pausedAt = NoTime
      BY <1>2, <2>2, ShowingRow
    <2>. QED
      BY <1>1, <2>1, <2>3, MovesEffect
  <1>4. CASE Before(w, Closing(over, new), [r EXCEPT !.round = over])
    <2> DEFINE a == WriteRound(over)
               b == IF IsLastRound(over) THEN WriteRoom("finished") ELSE OpenRound(new)
    <2>1. over \in Rounds /\ over.number = r.round.number /\ over.status = "finished"
          /\ over.active = r.round.active /\ over.phaseEndsAt = NoTime /\ over.pausedAt = NoTime
      BY <1>2 DEF Finished, Rounds, RoundStatus
    <2>2. RowFits(over, sets)
      BY <1>2, <2>1 DEF RowFits, Presenting
    <2>3. new \in Rounds /\ new.number = r.round.number + 1 /\ new.status = "writing" /\ new.active = 0
          /\ new.pausedAt = NoTime
      <3>1. r.round.number \in Nat \ {0} /\ r.clock \in Nat
        BY <1>2 DEF Rounds
      <3>. HIDE DEF r
      <3>2. WriteTime \in Nat
        BY TLTimesAssumption
      <3>3. r.round.number + 1 \in Nat \ {0} /\ r.clock + WriteTime \in Nat
        BY <3>1, <3>2
      <3>4. NumberAfter(r.round.number) = r.round.number + 1
        BY DEF NumberAfter
      <3>. QED
        BY <3>3, <3>4 DEF NoRow, Rounds, RoundStatus
    <2>4. RowFits(new, sets)
      BY <1>2, <2>3 DEF RowFits, Presenting
    <2>. HIDE DEF over, new
    <2>5. a \in CallRows /\ a.call = "updateRound" /\ a.row = over
      BY <2>1, CallsTyped
    <2>6. FitsCall(a, r, rounds, sets)
      BY <1>2, <2>1, <2>2, <2>5 DEF FitsCall, Copied
    <2>7. b \in CallRows /\ Concludes(b) /\ ~Ends(b)
      <3>1. CASE IsLastRound(over)
        BY <3>1, CallsTyped DEF Concludes, Ends
      <3>2. CASE ~IsLastRound(over)
        BY <2>3, <3>2, CallsTyped DEF Concludes, Ends
      <3>. QED
        BY <3>1, <3>2
    <2>8. FitsCall(b, r, rounds, sets)
      <3>1. CASE IsLastRound(over)
        <4>1. b = WriteRoom("finished") /\ b.call = "updateRoom"
          BY <3>1, CallsTyped
        <4>. QED
          BY <4>1 DEF FitsCall
      <3>2. CASE ~IsLastRound(over)
        <4>1. b.call = "createRound" /\ b.row = new
          BY <2>3, <3>2, CallsTyped
        <4>2. r.round.number + 1 <= MaxRounds
          <5>1. r.round.number \in Nat /\ MaxRounds \in Nat
            BY <1>2, TLLimitsAssumption DEF Rounds
          <5>. QED
            BY <2>1, <3>2, <5>1 DEF IsLastRound
        <4>3. r.at \in DOMAIN rounds /\ r.round.number = rounds[r.at].number
          BY <1>2 DEF Copied
        <4>. HIDE DEF b
        <4>. QED
          BY <2>3, <2>4, <4>1, <4>2, <4>3 DEF FitsCall
      <3>. QED
        BY <3>1, <3>2
    <2>. HIDE DEF a, b
    <2> DEFINE front == <<a, b>>
    <2>9. /\ front \in Seq(CallRows) /\ Len(front) = 2 /\ front # <<>> /\ front[1] = a /\ front[2] = b
      BY <2>5, <2>7
    <2>10. MayFollow(a, b)
      BY <2>5, <2>7 DEF MayFollow, Concludes, Asking, Looking
    <2>11. Closing(over, new) = front
      BY DEF Closing, a, b
    <2>. HIDE DEF front
    <2>12. InLine(front)
      BY <2>7, <2>9, <2>10 DEF InLine
    <2>13. \A k \in 1..Len(front) : FitsCall(front[k], r, rounds, sets)
      BY <2>6, <2>8, <2>9
    <2>14. front[Len(front)].call \notin Asking /\ front[1].call \notin Looking \cup {"lookUp"}
      BY <2>5, <2>7, <2>9 DEF Concludes, Asking, Looking
    <2>15. Turn(w, [[r EXCEPT !.round = over] EXCEPT !.todo = front \o Tail(@)])
      BY <1>4, <2>11 DEF Before
    <2>. QED
      BY <1>1, <2>1, <2>2, <2>9, <2>12, <2>13, <2>14, <2>15, FrontEffect
  <1>. QED
    BY <1>3, <1>4 DEF ListNext

LEMMA FunctionIsSequence ==
  ASSUME NEW S, NEW n \in Nat, NEW f \in [1..n -> S]
  PROVE  f \in Seq(S) /\ Len(f) = n /\ DOMAIN f = 1..n
  OBVIOUS

LEMMA AppendedCall ==
  ASSUME NEW S, NEW body \in Seq(S), NEW c \in S
  PROVE  /\ body \o <<c>> \in Seq(S) /\ Len(body \o <<c>>) = Len(body) + 1
         /\ \A k \in 1..Len(body) : (body \o <<c>>)[k] = body[k]
         /\ (body \o <<c>>)[Len(body) + 1] = c
  OBVIOUS

LEMMA LineOfWrites ==
  ASSUME NEW body \in Seq(CallRows),
         \A k \in 1..Len(body) : body[k].call \in {"updateSet", "increment"},
         NEW last \in CallRows, last.call \in {"updateRound", "firstSet"}, ~Ends(last)
  PROVE  LET front == body \o <<last>>
         IN  /\ front \in Seq(CallRows) /\ front # <<>> /\ Len(front) = Len(body) + 1
             /\ front[Len(body) + 1] = last /\ \A k \in 1..Len(body) : front[k] = body[k]
             /\ InLine(front) /\ front[Len(front)].call \notin Asking
             /\ front[1].call \notin Looking \cup {"lookUp"}
  <1> DEFINE front == body \o <<last>>
             n == Len(body)
  <1>1. n \in Nat
    OBVIOUS
  <1>2. /\ front \in Seq(CallRows) /\ Len(front) = n + 1 /\ front[n + 1] = last
        /\ \A k \in 1..n : front[k] = body[k]
    BY AppendedCall
  <1>3. front # <<>>
    BY <1>1, <1>2
  <1>. HIDE DEF front, n
  <1>4. \A k \in 1..n : front[k].call \in {"updateSet", "increment"}
    BY <1>2 DEF n
  <1>5. ASSUME NEW k \in 1..(Len(front) - 1)
        PROVE  MayFollow(front[k], front[k + 1])
    <2>1. k \in 1..n /\ (k + 1 \in 1..n \/ k + 1 = n + 1)
      BY <1>1, <1>2
    <2>2. front[k].call \in {"updateSet", "increment"}
      BY <1>4, <2>1
    <2>3. front[k + 1].call \in {"updateSet", "increment", "updateRound", "firstSet"}
      BY <1>2, <1>4, <2>1
    <2>. QED
      BY <2>2, <2>3 DEF MayFollow, Looking, Asking, Concludes, Ends
  <1>6. InLine(front)
    BY <1>1, <1>2, <1>5 DEF InLine
  <1>7. front[Len(front)].call \notin Asking
    BY <1>2 DEF Asking
  <1>8. front[1].call \notin Looking \cup {"lookUp"}
    <2>1. 1 \in 1..n \/ 1 = n + 1
      BY <1>1
    <2>. QED
      BY <1>2, <1>4, <2>1 DEF Looking
  <1>. QED
    BY <1>2, <1>3, <1>6, <1>7, <1>8 DEF front, n

LEMMA ListSetsEffect ==
  ASSUME BurstOK, NEW w \in Workers, ListSets(w), now' = now, postgres' = postgres
  PROVE  Effect(w)
  <1> DEFINE r == req[w]
             mine == SetsOf(game, r.at)
  <1>1. /\ r.todo # <<>> /\ Head(r.todo).call \in Looking \cup {"firstSet"} /\ RowsKept
        /\ Head(r.todo).call = "listSets"
    BY DEF ListSets, Doing, Looking
  <1>2. /\ r \in Requests /\ r.round \in Rounds /\ sets \in Seq(TruthSets)
        /\ RowFits(r.round, sets)
        /\ \A s \in DOMAIN sets : s \in 1..Len(sets) /\ s \in Nat /\ sets[s] \in TruthSets
    BY <1>1, LookingFound
  <1>3. mine \subseteq DOMAIN sets /\ Cardinality(mine) \in Nat
    <2>1. mine \subseteq DOMAIN sets
      BY DEF SetsOf, game
    <2>2. IsFiniteSet(DOMAIN sets)
      BY <1>2, FS_Interval
    <2>. QED
      BY <2>1, <2>2, FS_Subset, FS_CardinalityType
  <1>. HIDE DEF mine
  <1>4. CASE Before(w, <<Read("firstSet")>>, r)
    <2> DEFINE c == Read("firstSet")
    <2>1. c \in CallRows /\ c.call = "firstSet" /\ FitsCall(c, r, rounds, sets)
      BY ReadFits
    <2>. HIDE DEF c
    <2>2. Before(w, <<c>>, r)
      BY <1>4 DEF c
    <2>. QED
      BY <1>1, <2>1, <2>2, LooksEffect
  <1>5. ASSUME NEW shuffled \in SetToSeqs(mine),
               Before(w, [k \in DOMAIN shuffled |->
                            WriteSet(shuffled[k], [sets[shuffled[k]] EXCEPT !.order = k])]
                         \o <<Read("firstSet")>>, r)
        PROVE  Effect(w)
    <2> DEFINE n == Cardinality(mine)
               body == [k \in DOMAIN shuffled |->
                          WriteSet(shuffled[k], [sets[shuffled[k]] EXCEPT !.order = k])]
               last == Read("firstSet")
    <2>1. shuffled \in [1..n -> mine] /\ DOMAIN shuffled = 1..n /\ n \in Nat
      BY <1>3 DEF SetToSeqs
    <2>2. ASSUME NEW k \in 1..n
          PROVE  /\ body[k] \in CallRows /\ body[k].call = "updateSet"
                 /\ FitsCall(body[k], r, rounds, sets)
      <3> DEFINE s == shuffled[k]
                 row == [sets[s] EXCEPT !.order = k]
      <3>1. s \in DOMAIN sets /\ s \in Nat /\ sets[s] \in TruthSets /\ k \in Nat
        BY <1>2, <1>3, <2>1
      <3>2. row \in TruthSets /\ row.round = sets[s].round /\ row.author = sets[s].author
        BY <3>1 DEF TruthSets
      <3>3. body[k] = WriteSet(s, row)
        BY <2>1
      <3>. HIDE DEF s, row, body
      <3>4. body[k] \in CallRows /\ body[k].call = "updateSet" /\ body[k].set = s
            /\ body[k].row = row
        BY <3>1, <3>2, <3>3, CallsTyped
      <3>. QED
        BY <3>1, <3>2, <3>4 DEF FitsCall
    <2>3. body \in Seq(CallRows) /\ Len(body) = n
      <3>1. body \in [1..n -> CallRows]
        BY <2>1, <2>2
      <3>. HIDE DEF body
      <3>. QED
        BY <2>1, <3>1, FunctionIsSequence
    <2>4. /\ last \in CallRows /\ last.call = "firstSet" /\ ~Ends(last)
          /\ FitsCall(last, r, rounds, sets)
      BY ReadFits DEF Ends
    <2>. HIDE DEF body, last
    <2> DEFINE front == body \o <<last>>
    <2>5. /\ front \in Seq(CallRows) /\ front # <<>> /\ Len(front) = n + 1
          /\ front[n + 1] = last /\ \A k \in 1..n : front[k] = body[k]
          /\ InLine(front) /\ front[Len(front)].call \notin Asking
          /\ front[1].call \notin Looking \cup {"lookUp"}
      BY <2>2, <2>3, <2>4, LineOfWrites
    <2>6. Before(w, front, r)
      BY <1>5 DEF body, last
    <2>. HIDE DEF front, n
    <2>7. \A k \in 1..Len(front) : FitsCall(front[k], r, rounds, sets)
      <3> SUFFICES ASSUME NEW k \in 1..Len(front) PROVE FitsCall(front[k], r, rounds, sets)
        OBVIOUS
      <3>1. k \in 1..n \/ k = n + 1
        BY <2>1, <2>5
      <3>. QED
        BY <2>2, <2>4, <2>5, <3>1
    <2>8. [r EXCEPT !.todo = front \o Tail(@)]
            = [[r EXCEPT !.round = r.round] EXCEPT !.todo = front \o Tail(@)]
      BY <1>2 DEF Requests
    <2>9. Turn(w, [[r EXCEPT !.round = r.round] EXCEPT !.todo = front \o Tail(@)])
      BY <2>6, <2>8 DEF Before
    <2>. QED
      BY <1>1, <1>2, <2>5, <2>7, <2>9, FrontEffect
  <1>6. CASE End(w)
    BY <1>1, <1>6, EndEffect
  <1>7. \/ mine = {}
        \/ mine # {} /\ \A s \in mine : sets[s].order > 0
        \/ \E s \in mine : sets[s].order = 0
    <2>1. \A s \in mine : sets[s].order \in Nat
      BY <1>2, <1>3 DEF TruthSets
    <2>. QED
      BY <2>1
  <1>. QED
    BY <1>4, <1>5, <1>6, <1>7 DEF ListSets, mine

LEMMA ListVotesEffect ==
  ASSUME BurstOK, NEW w \in Workers, ListVotes(w), now' = now, postgres' = postgres
  PROVE  Effect(w)
  <1> DEFINE r == req[w]
             s     == Call(w).set
             row   == Call(w).row
             given == [p \in Players |-> Points(row, VotesOn(s), p)]
             after == Entering(r, "reveal", RevealTime)
             scorers == {p \in Players \ {row.author} : given[p] > 0}
  <1>1. /\ r.todo # <<>> /\ Head(r.todo).call \in Looking \cup {"firstSet"} /\ RowsKept
        /\ Head(r.todo).call = "listVotes" /\ Call(w).call = "listVotes"
    BY DEF ListVotes, Doing, Looking, Call
  <1>2. /\ r.round \in Rounds /\ sets \in Seq(TruthSets) /\ RowFits(r.round, sets)
        /\ r.clock \in Nat /\ Copied(r, rounds) /\ r.round.status = "presentation_voting"
        /\ s \in DOMAIN sets /\ s \in Nat /\ row \in TruthSets
        /\ row.round = sets[s].round /\ row.author = sets[s].author
    <2>1. /\ Call(w) \in CallRows /\ FitsCall(Call(w), r, rounds, sets)
      BY <1>1, LookingFound
    <2>2. row \in TruthSets /\ s \in Nat
      BY <1>1, <2>1, CallFields
    <2>3. s \in DOMAIN sets /\ row.round = sets[s].round /\ row.author = sets[s].author
      BY <1>1, <2>1 DEF FitsCall
    <2>. QED
      BY <1>1, <2>2, <2>3, LookingFound
  <1>3. given \in [Players -> Nat]
    <2>1. IsFiniteSet(VotesOn(s))
      BY FS_Subset DEF VotesOn, BurstOK, RowsOK
    <2>. QED
      BY <2>1, PointsNat
  <1>4. row.author \in Players /\ scorers \subseteq Players /\ Cardinality(scorers) \in Nat
    <2>1. row.author \in Players
      BY <1>2 DEF TruthSets
    <2>2. IsFiniteSet(scorers)
      BY TLPlayersAssumption, FS_Subset
    <2>. QED
      BY <2>1, <2>2, FS_CardinalityType
  <1>5. RowFits(after, sets) /\ after.number = r.round.number /\ after.status = "reveal"
        /\ after \in Rounds /\ after.pausedAt = NoTime
    <2>1. r.round.active # 0
      BY <1>2 DEF RowFits, Presenting
    <2>2. "reveal" \in RoundStatus
      BY DEF RoundStatus, Presenting
    <2>. HIDE DEF r
    <2>. QED
      BY <1>2, <2>1, <2>2, EnteringRow
  <1>6. PICK order \in SetToSeqs(scorers) :
          LET all == IF given[row.author] > 0 THEN Append(order, row.author) ELSE order
          IN  Before(w, Scoring(s, row, given, all) \o <<WriteRound(after)>>,
                     [r EXCEPT !.round = after])
    BY DEF ListVotes
  <1>. HIDE DEF given, after, scorers, s, row
  <1> DEFINE all == IF given[row.author] > 0 THEN Append(order, row.author) ELSE order
             m == Len(all)
  <1>7. all \in Seq(Players) /\ m \in Nat /\ DOMAIN all = 1..m
    <2>1. order \in [1..Cardinality(scorers) -> Players]
      BY <1>4, <1>6 DEF SetToSeqs
    <2>2. order \in Seq(Players)
      BY <1>4, <2>1, FunctionIsSequence
    <2>3. all \in Seq(Players)
      BY <1>4, <2>2
    <2>. HIDE DEF all
    <2>. QED
      BY <2>3
  <1>8. Before(w, Scoring(s, row, given, all) \o <<WriteRound(after)>>, [r EXCEPT !.round = after])
    BY <1>6
  <1>. HIDE DEF all
  <1> DEFINE adds == [k \in DOMAIN all |-> AddPoints(all[k], given[all[k]])]
             mark == MarkScored(s, row, given)
             body == adds \o <<mark>>
             last == WriteRound(after)
             front == body \o <<last>>
  <1>9. \A k \in 1..m : adds[k] \in CallRows /\ adds[k].call = "increment"
    <2> SUFFICES ASSUME NEW k \in 1..m PROVE adds[k] \in CallRows /\ adds[k].call = "increment"
      OBVIOUS
    <2>1. all[k] \in Players
      BY <1>7
    <2>2. given[all[k]] \in Nat
      BY <1>3, <2>1
    <2>3. adds[k] = AddPoints(all[k], given[all[k]])
      BY <1>7
    <2>. QED
      BY <2>1, <2>2, <2>3, CallsTyped
  <1>10. adds \in Seq(CallRows) /\ Len(adds) = m
    <2>1. adds \in [1..m -> CallRows]
      BY <1>7, <1>9
    <2>. HIDE DEF adds, m
    <2>. QED
      BY <1>7, <2>1, FunctionIsSequence
  <1>11. /\ mark \in CallRows /\ mark.call = "updateSet" /\ mark.set = s
         /\ mark.row.round = row.round /\ mark.row.author = row.author
    <2>1. s \in Nat /\ row \in TruthSets /\ given \in [Players -> Nat]
      BY <1>2, <1>3
    <2>. QED
      BY <2>1, MarkTyped
  <1>12. last \in CallRows /\ last.call = "updateRound" /\ last.row = after /\ ~Ends(last)
    BY <1>5, CallsTyped DEF Ends
  <1>13. Scoring(s, row, given, all) = body
    BY DEF Scoring
  <1>. HIDE DEF adds, mark, last
  <1>14. /\ body \in Seq(CallRows) /\ Len(body) = m + 1
         /\ \A k \in 1..m : body[k] = adds[k]
         /\ body[m + 1] = mark
    BY <1>7, <1>10, <1>11, AppendedCall
  <1>15. Before(w, front, [r EXCEPT !.round = after])
    BY <1>8, <1>13 DEF last
  <1>. HIDE DEF body, m
  <1>16. \A k \in 1..Len(body) : body[k].call \in {"updateSet", "increment"}
    <2> SUFFICES ASSUME NEW k \in 1..Len(body) PROVE body[k].call \in {"updateSet", "increment"}
      OBVIOUS
    <2>1. k \in 1..m \/ k = m + 1
      BY <1>7, <1>14
    <2>. QED
      BY <1>9, <1>11, <1>14, <2>1
  <1>17. /\ front \in Seq(CallRows) /\ front # <<>> /\ Len(front) = Len(body) + 1
         /\ front[Len(body) + 1] = last /\ \A k \in 1..Len(body) : front[k] = body[k]
         /\ InLine(front) /\ front[Len(front)].call \notin Asking
         /\ front[1].call \notin Looking \cup {"lookUp"}
    BY <1>12, <1>14, <1>16, LineOfWrites
  <1>. HIDE DEF front
  <1>18. \A k \in 1..Len(front) : FitsCall(front[k], r, rounds, sets)
    <2> SUFFICES ASSUME NEW k \in 1..Len(front) PROVE FitsCall(front[k], r, rounds, sets)
      OBVIOUS
    <2>1. k \in 1..m \/ k = m + 1 \/ k = m + 2
      BY <1>7, <1>14, <1>17
    <2>2. CASE k \in 1..m
      <3>1. k \in 1..Len(body)
        BY <1>7, <1>14, <2>2
      <3>2. front[k] = adds[k]
        BY <1>14, <1>17, <2>2, <3>1
      <3>. QED
        BY <1>9, <2>2, <3>2 DEF FitsCall
    <2>3. CASE k = m + 1
      <3>1. m + 1 \in 1..Len(body)
        BY <1>7, <1>14
      <3>2. front[k] = mark
        BY <1>14, <1>17, <2>3, <3>1
      <3>. QED
        BY <1>2, <1>11, <3>2 DEF FitsCall
    <2>4. CASE k = m + 2
      <3>1. Len(body) + 1 = m + 2
        BY <1>7, <1>14
      <3>2. front[k] = last
        BY <1>17, <2>4, <3>1
      <3>. QED
        BY <1>2, <1>5, <1>12, <3>2 DEF FitsCall, Copied
    <2>. QED
      BY <2>1, <2>2, <2>3, <2>4
  <1>19. Turn(w, [[r EXCEPT !.round = after] EXCEPT !.todo = front \o Tail(@)])
    BY <1>15 DEF Before
  <1>. QED
    BY <1>1, <1>5, <1>17, <1>18, <1>19, FrontEffect

\* The rows after a write.
LEMMA RowsFound ==
  ASSUME RowsOK
  PROVE  /\ now \in Nat /\ rounds \in Seq(Rounds) /\ sets \in Seq(TruthSets)
         /\ DOMAIN rounds = 1..Len(rounds) /\ DOMAIN sets = 1..Len(sets)
         /\ Len(rounds) \in Nat /\ Len(sets) \in Nat
         /\ room \in Rooms /\ score \in [Players -> Nat]
         /\ tally \in [DOMAIN sets -> [Players -> Nat]]
         /\ \A i \in DOMAIN rounds : rounds[i] \in Rounds /\ RowFits(rounds[i], sets)
         /\ \A s \in DOMAIN sets : sets[s] \in TruthSets
  BY DEF RowsOK, TypeOK

LEMMA UpdateRoomEffect ==
  ASSUME BurstOK, NEW w \in Workers, UpdateRoom(w), now' = now, postgres' = postgres
  PROVE  Effect(w)
  <1>1. /\ req[w].todo # <<>> /\ Head(req[w].todo).call = "updateRoom"
        /\ Call(w).call = "updateRoom"
    BY DEF UpdateRoom, Doing, Call
  <1>2. /\ FitsBusy(req[w], now, rounds, sets) /\ rounds \in Seq(Rounds) /\ room.status # "none"
        /\ Call(w).status \in {"expired", "finished"} /\ FitsHead(req[w], rounds)
        /\ now \in Nat /\ sets \in Seq(TruthSets)
    BY <1>1, WorkerFound, CallFields
  <1>3. /\ room' \in Rooms /\ room'.hostID = room.hostID /\ room'.status \in {"expired", "finished"}
        /\ user' = user /\ rounds' = rounds /\ sets' = sets /\ votes' = votes /\ score' = score
        /\ tally' = tally
    <2>1. room \in Rooms
      BY DEF BurstOK, RowsOK, TypeOK
    <2>2. room' = [room EXCEPT !.status = Call(w).status]
      BY DEF UpdateRoom
    <2>3. room' \in Rooms /\ room'.hostID = room.hostID /\ room'.status = Call(w).status
      BY <1>2, <2>1, <2>2 DEF Rooms, RoomStatus
    <2>. QED
      BY <1>2, <2>3 DEF UpdateRoom
  <1>4. RowsOK'
    <2>1. HostKnown'
      BY <1>2, <1>3 DEF HostKnown, BurstOK, RowsOK
    <2>2. TypeOK'
      BY <1>3 DEF BurstOK, RowsOK, TypeOK
    <2>3. RoundsLinked'
      BY <1>3 DEF BurstOK, RowsOK, RoundsLinked
    <2>. QED
      BY <1>3, <2>1, <2>2, <2>3 DEF BurstOK, RowsOK
  <1>5. Grown(now, rounds, sets, now', rounds', sets')
    BY <1>2, <1>3, GrownRefl
  <1>6. FitsBusy([req[w] EXCEPT !.todo = <<>> \o Tail(@)], now, rounds, sets)
    <2>1. Copied(req[w], rounds) \/ Len(req[w].todo) = 1
      BY <1>1, <1>2 DEF FitsHead
    <2>. QED
      BY <1>1, <1>2, <2>1, ContinueFits
  <1>7. FitsBusy([req[w] EXCEPT !.todo = <<>> \o Tail(@)], now', rounds', sets')
    BY <1>3, <1>6
  <1>8. Turn(w, [req[w] EXCEPT !.todo = <<>> \o Tail(@)])
    BY DEF UpdateRoom, Continue, Before
  <1>. QED
    BY <1>4, <1>5, <1>7, <1>8, TurnEffect

LEMMA UpdateRoundEffect ==
  ASSUME BurstOK, NEW w \in Workers, UpdateRound(w), now' = now, postgres' = postgres
  PROVE  Effect(w)
  <1> DEFINE r == req[w]
             i == r.at
             row == Call(w).row
  <1>1. /\ r.todo # <<>> /\ Head(r.todo).call = "updateRound"
        /\ Call(w).call = "updateRound"
    BY DEF UpdateRound, Doing, Call
  <1>2. /\ FitsBusy(r, now, rounds, sets) /\ FitsHead(r, rounds)
        /\ FitsCall(Call(w), r, rounds, sets) /\ row \in Rounds /\ RowsOK
    BY <1>1, WorkerFound, CallFields DEF BurstOK
  <1>3. /\ i \in DOMAIN rounds /\ RowFits(row, sets) /\ row.number = rounds[i].number
        /\ Copied(r, rounds) /\ row.pausedAt <= now
    <2>1. now \in Nat
      BY <1>2 DEF RowsOK, TypeOK
    <2>. QED
      BY <1>1, <1>2, <2>1 DEF FitsCall, FitsHead, NoTime
  <1>4. /\ rounds' = [rounds EXCEPT ![i] = row]
        /\ UNCHANGED <<room, user, sets, votes, score, tally>>
    BY DEF UpdateRound
  <1>5. /\ rounds' \in Seq(Rounds) /\ Len(rounds') = Len(rounds) /\ DOMAIN rounds' = DOMAIN rounds
        /\ rounds'[i] = row /\ \A j \in DOMAIN rounds : j # i => rounds'[j] = rounds[j]
        /\ \A j \in DOMAIN rounds : rounds'[j].number = rounds[j].number /\ RowFits(rounds'[j], sets)
        /\ \A j \in DOMAIN rounds : rounds'[j].pausedAt <= now
    <2>1. rounds \in Seq(Rounds) /\ i \in 1..Len(rounds) /\ DOMAIN rounds = 1..Len(rounds)
      BY <1>2, <1>3, RowsFound
    <2>. HIDE DEF i, row
    <2>2. /\ rounds' \in Seq(Rounds) /\ Len(rounds') = Len(rounds)
          /\ rounds'[i] = row /\ \A j \in 1..Len(rounds) : j # i => rounds'[j] = rounds[j]
      BY <1>2, <1>4, <2>1, ReplaceRow
    <2>3. DOMAIN rounds' = DOMAIN rounds
      BY <2>1, <2>2
    <2>. QED
      BY <1>2, <1>3, <2>1, <2>2, <2>3 DEF RowsOK
  <1>. HIDE DEF i, row
  <1>6. RowsOK'
    <2>1. TypeOK'
      <3>1. /\ now' = now /\ postgres' = postgres /\ room' = room /\ user' = user /\ sets' = sets
            /\ votes' = votes /\ score' = score
        BY <1>4
      <3>2. \A j \in DOMAIN rounds' : rounds'[j].active \in 0..Len(sets)
        BY <1>5 DEF RowFits
      <3>. QED
        BY <1>2, <1>5, <3>1, <3>2 DEF RowsOK, TypeOK
    <2>2. RoundsLinked'
      BY <1>2, <1>5 DEF RowsOK, RoundsLinked
    <2>3. HostKnown'
      BY <1>2, <1>4 DEF RowsOK, HostKnown
    <2>4. rounds # <<>> => rounds' # <<>>
      BY <1>3, <1>5
    <2>. QED
      BY <1>2, <1>4, <1>5, <2>1, <2>2, <2>3, <2>4 DEF RowsOK
  <1>7. Grown(now, rounds, sets, now', rounds', sets')
    BY <1>2, <1>4, <1>5, RowsFound DEF Grown
  <1>8. FitsBusy([r EXCEPT !.todo = <<>> \o Tail(@)], now, rounds, sets)
    BY <1>1, <1>2, <1>3, ContinueFits, RowsFound
  <1>9. FitsBusy([r EXCEPT !.todo = <<>> \o Tail(@)], now', rounds', sets')
    <2> DEFINE next == [r EXCEPT !.todo = <<>> \o Tail(@)]
    <2>1. /\ now \in Nat /\ rounds \in Seq(Rounds) /\ sets \in Seq(TruthSets)
          /\ now' \in Nat /\ rounds' \in Seq(Rounds) /\ sets' \in Seq(TruthSets)
      BY <1>2, <1>4, <1>5, RowsFound
    <2>2. FitsBusy(next, now, rounds, sets)
      BY <1>8
    <2>. HIDE DEF next
    <2>3. FitsBusy(next, now', rounds', sets')
      BY <1>7, <2>1, <2>2, FitsGrown
    <2>. QED
      BY <2>3 DEF next
  <1>10. Turn(w, [r EXCEPT !.todo = <<>> \o Tail(@)])
    BY DEF UpdateRound, Continue, Before
  <1>. QED
    BY <1>6, <1>7, <1>9, <1>10, TurnEffect

LEMMA CreateRoundEffect ==
  ASSUME BurstOK, NEW w \in Workers, CreateRound(w), now' = now, postgres' = postgres
  PROVE  Effect(w)
  <1> DEFINE r == req[w]
             row == Call(w).row
             n == Len(rounds) + 1
             next == [[r EXCEPT !.at = n, !.round = row] EXCEPT !.todo = <<>> \o Tail(@)]
  <1>1. /\ r.todo # <<>> /\ Head(r.todo).call = "createRound"
        /\ Call(w).call = "createRound"
    BY DEF CreateRound, Doing, Call
  <1>2. /\ FitsBusy(r, now, rounds, sets) /\ FitsHead(r, rounds) /\ r \in Requests
        /\ FitsCall(Call(w), r, rounds, sets) /\ row \in Rounds /\ RowsOK
        /\ r.todo \in Seq(CallRows) /\ r.clock \in Nat /\ r.clock <= now
    BY <1>1, WorkerFound, CallFields DEF BurstOK
  <1>3. /\ r.at \in DOMAIN rounds /\ RowFits(row, sets) /\ row.number = rounds[r.at].number + 1
        /\ row.number <= MaxRounds /\ row.pausedAt <= now
    <2>1. now \in Nat
      BY <1>2 DEF RowsOK, TypeOK
    <2>. QED
      BY <1>1, <1>2, <2>1 DEF FitsCall, NoTime
  <1>4. /\ rounds' = Append(rounds, row)
        /\ UNCHANGED <<room, user, sets, votes, score, tally>>
        /\ Turn(w, next)
    BY DEF CreateRound, Before
  <1>5. /\ rounds' \in Seq(Rounds) /\ Len(rounds') = n /\ DOMAIN rounds' = 1..n /\ n \in Nat
        /\ DOMAIN rounds = 1..(n - 1) /\ n \in DOMAIN rounds'
        /\ rounds'[n] = row /\ \A j \in DOMAIN rounds : j \in DOMAIN rounds' /\ rounds'[j] = rounds[j]
    <2>1. rounds \in Seq(Rounds) /\ DOMAIN rounds = 1..Len(rounds) /\ Len(rounds) \in Nat
      BY <1>2, RowsFound
    <2>. HIDE DEF row
    <2>2. /\ rounds' \in Seq(Rounds) /\ Len(rounds') = n
          /\ rounds'[n] = row /\ \A j \in 1..Len(rounds) : rounds'[j] = rounds[j]
      BY <1>2, <1>4, <2>1, AppendRow
    <2>. QED
      BY <2>1, <2>2
  <1>6. Tail(r.todo) \in Seq(CallRows) /\ <<>> \o Tail(r.todo) = Tail(r.todo)
    BY <1>1, <1>2, TailCalls, EmptyFront
  <1>7. /\ next \in Requests /\ next.todo = Tail(r.todo) /\ next.clock = r.clock
        /\ next.at = n /\ next.round = row /\ next.op = r.op /\ next.who = r.who
        /\ next.statement = r.statement
    BY <1>2, <1>5, <1>6 DEF Requests
  <1>. HIDE DEF row, n, next
  <1>8. \A j \in DOMAIN rounds' : j \in DOMAIN rounds \/ j = n
    BY <1>5
  <1>9. RowsOK'
    <2>1. TypeOK'
      <3>1. /\ now' = now /\ postgres' = postgres /\ room' = room /\ user' = user /\ sets' = sets
            /\ votes' = votes /\ score' = score
        BY <1>4
      <3>2. \A j \in DOMAIN rounds' : rounds'[j].active \in 0..Len(sets)
        BY <1>2, <1>3, <1>5, <1>8 DEF RowFits, RowsOK
      <3>. QED
        BY <1>2, <1>5, <3>1, <3>2 DEF RowsOK, TypeOK
    <2>2. RoundsLinked'
      <3> SUFFICES ASSUME NEW j \in DOMAIN rounds'
                   PROVE  /\ rounds'[j].number <= MaxRounds
                          /\ rounds'[j].number > 1 =>
                               \E k \in 1..(j - 1) : rounds'[k].number = rounds'[j].number - 1
        BY DEF RoundsLinked
      <3>1. CASE j \in DOMAIN rounds
        <4>1. /\ rounds[j].number <= MaxRounds
              /\ rounds[j].number > 1 =>
                   \E k \in 1..(j - 1) : rounds[k].number = rounds[j].number - 1
          BY <1>2, <3>1 DEF RowsOK, RoundsLinked
        <4>2. \A k \in 1..(j - 1) : k \in DOMAIN rounds
          BY <1>5, <3>1
        <4>. QED
          BY <1>5, <3>1, <4>1, <4>2
      <3>2. CASE j = n
        <4>1. r.at \in 1..(j - 1) /\ rounds'[r.at] = rounds[r.at] /\ rounds'[j] = row
          BY <1>3, <1>5, <3>2
        <4>2. rounds[r.at].number \in Nat
          BY <1>2, <1>3, RowsFound DEF Rounds
        <4>3. rounds'[r.at].number = rounds'[j].number - 1
          BY <1>3, <4>1, <4>2
        <4>. QED
          BY <1>3, <4>1, <4>3
      <3>. QED
        BY <1>8, <3>1, <3>2
    <2>3. HostKnown'
      BY <1>2, <1>4 DEF RowsOK, HostKnown
    <2>4. rounds' # <<>>
      BY <1>5
    <2>5. \A j \in DOMAIN rounds' : RowFits(rounds'[j], sets') /\ rounds'[j].pausedAt <= now'
      BY <1>2, <1>3, <1>4, <1>5, <1>8 DEF RowsOK
    <2>. QED
      BY <1>2, <1>4, <2>1, <2>2, <2>3, <2>4, <2>5 DEF RowsOK
  <1>10. Grown(now, rounds, sets, now', rounds', sets')
    <2>1. Len(rounds) <= Len(rounds')
      BY <1>2, <1>5, RowsFound DEF n
    <2>. QED
      BY <1>2, <1>4, <1>5, <2>1, RowsFound DEF Grown
  <1>11. FitsBusy(r, now', rounds', sets')
    BY <1>2, <1>4, <1>5, <1>10, FitsGrown, RowsFound
  <1>12. Copied(next, rounds')
    BY <1>5, <1>7 DEF Copied
  <1>13. next.at \in 0..Len(rounds') /\ next.at \in DOMAIN rounds' /\ RowFits(next.round, sets')
         /\ next.clock <= now'
    BY <1>2, <1>3, <1>4, <1>5, <1>7
  <1>14. FitsBusy(next, now', rounds', sets')
    BY <1>1, <1>5, <1>7, <1>11, <1>12, <1>13, TailFits
  <1>. QED
    BY <1>4, <1>9, <1>10, <1>14, TurnEffect

\* Truth sets and their tallies after a write.
LEMMA SetsWritten ==
  ASSUME RowsOK, now' = now, postgres' = postgres,
         UNCHANGED <<room, user, rounds, votes, score>>,
         sets' \in Seq(TruthSets), Len(sets) <= Len(sets'),
         \A s \in DOMAIN sets' : sets'[s].round \in DOMAIN rounds,
         \A s \in DOMAIN sets :
           sets'[s].round = sets[s].round /\ sets'[s].author = sets[s].author,
         tally' \in [DOMAIN sets' -> [Players -> Nat]]
  PROVE  RowsOK' /\ Grown(now, rounds, sets, now', rounds', sets')
  <1>1. /\ now \in Nat /\ rounds \in Seq(Rounds) /\ sets \in Seq(TruthSets)
        /\ DOMAIN rounds = 1..Len(rounds) /\ DOMAIN sets = 1..Len(sets)
        /\ Len(rounds) \in Nat /\ Len(sets) \in Nat
        /\ \A i \in DOMAIN rounds : rounds[i] \in Rounds /\ RowFits(rounds[i], sets)
    BY RowsFound
  <1>2. Len(sets') \in Nat /\ DOMAIN sets' = 1..Len(sets')
    OBVIOUS
  <1>3. \A i \in DOMAIN rounds' : RowFits(rounds'[i], sets')
    BY <1>1, RowFitsGrown
  <1>4. TypeOK'
    <2>1. \A i \in DOMAIN rounds' : rounds'[i].active \in 0..Len(sets')
      BY <1>3 DEF RowFits
    <2>2. \A v \in votes' : v.set \in DOMAIN sets'
      BY <1>1, <1>2 DEF RowsOK, TypeOK
    <2>. QED
      BY <1>1, <2>1, <2>2 DEF RowsOK, TypeOK
  <1>5. HostKnown' /\ RoundsLinked'
    BY DEF RowsOK, HostKnown, RoundsLinked
  <1>6. RowsOK'
    BY <1>3, <1>4, <1>5 DEF RowsOK
  <1>7. Grown(now, rounds, sets, now', rounds', sets')
    BY <1>1, <1>2 DEF Grown
  <1>. QED
    BY <1>6, <1>7

\* A worker that has made a write goes on.
LEMMA ContinueEffect ==
  ASSUME BurstOK, NEW w \in Workers, req[w].todo # <<>>,
         RowsOK', Grown(now, rounds, sets, now', rounds', sets'),
         Copied(req[w], rounds) \/ Len(req[w].todo) = 1, Head(req[w].todo).call # "accept",
         Continue(w)
  PROVE  Effect(w)
  <1> DEFINE next == [req[w] EXCEPT !.todo = <<>> \o Tail(@)]
  <1>1. /\ FitsBusy(req[w], now, rounds, sets)
        /\ now \in Nat /\ rounds \in Seq(Rounds) /\ sets \in Seq(TruthSets)
    BY WorkerFound
  <1>2. now' \in Nat /\ rounds' \in Seq(Rounds) /\ sets' \in Seq(TruthSets)
    BY DEF RowsOK, TypeOK
  <1>3. FitsBusy(next, now, rounds, sets)
    BY <1>1, ContinueFits
  <1>4. Turn(w, next)
    BY DEF Continue, Before
  <1>. HIDE DEF next
  <1>5. FitsBusy(next, now', rounds', sets')
    BY <1>1, <1>2, <1>3, FitsGrown
  <1>. QED
    BY <1>4, <1>5, TurnEffect

LEMMA EndWritten ==
  ASSUME BurstOK, NEW w \in Workers,
         RowsOK', Grown(now, rounds, sets, now', rounds', sets'), End(w)
  PROVE  Effect(w)
  <1> DEFINE next == [req[w] EXCEPT !.todo = <<>>]
  <1>1. /\ FitsBusy(req[w], now, rounds, sets)
        /\ now \in Nat /\ rounds \in Seq(Rounds) /\ sets \in Seq(TruthSets)
    BY RowsFound DEF BurstOK, Fits
  <1>2. now' \in Nat /\ rounds' \in Seq(Rounds) /\ sets' \in Seq(TruthSets)
    BY DEF RowsOK, TypeOK
  <1>3. FitsBusy(next, now, rounds, sets)
    BY <1>1, EndFits
  <1>4. Turn(w, next)
    BY DEF End
  <1>. HIDE DEF next
  <1>5. FitsBusy(next, now', rounds', sets')
    BY <1>1, <1>2, <1>3, FitsGrown
  <1>. QED
    BY <1>4, <1>5, TurnEffect

LEMMA UpdateSetEffect ==
  ASSUME BurstOK, NEW w \in Workers, UpdateSet(w), now' = now, postgres' = postgres
  PROVE  Effect(w)
  <1> DEFINE r == req[w]
             s == Call(w).set
             row == Call(w).row
  <1>1. /\ r.todo # <<>> /\ Head(r.todo).call = "updateSet" /\ Call(w).call = "updateSet"
        /\ UNCHANGED <<room, user, rounds, votes, score>>
    BY DEF UpdateSet, Doing, Call
  <1>2. /\ FitsBusy(r, now, rounds, sets) /\ FitsHead(r, rounds)
        /\ FitsCall(Call(w), r, rounds, sets) /\ row \in TruthSets /\ s \in Nat /\ RowsOK
        /\ Call(w).given \in {<<>>} \cup [Players -> Nat]
    BY <1>1, WorkerFound, CallFields DEF BurstOK
  <1>3. /\ s \in DOMAIN sets /\ row.round = sets[s].round /\ row.author = sets[s].author
        /\ Copied(r, rounds)
    BY <1>1, <1>2 DEF FitsCall, FitsHead
  <1>4. /\ sets \in Seq(TruthSets) /\ DOMAIN sets = 1..Len(sets) /\ Len(sets) \in Nat
        /\ tally \in [DOMAIN sets -> [Players -> Nat]]
        /\ \A t \in DOMAIN sets : sets[t].round \in DOMAIN rounds
    BY <1>2, RowsFound DEF RowsOK, TypeOK
  <1>5. CASE End(w) /\ UNCHANGED <<sets, tally>>
    <2>1. RowsOK' /\ Grown(now, rounds, sets, now', rounds', sets')
      BY <1>1, <1>2, <1>4, <1>5, SetsWritten
    <2>. QED
      BY <1>5, <2>1, EndWritten
  <1>6. CASE /\ Continue(w)
             /\ sets' = [sets EXCEPT ![s] = row]
             /\ tally' = IF row.scored /\ Call(w).given # <<>>
                           THEN [tally EXCEPT ![s] = Call(w).given] ELSE tally
    <2>. HIDE DEF s, row
    <2>1. /\ sets' \in Seq(TruthSets) /\ Len(sets') = Len(sets)
          /\ sets'[s] = row /\ \A t \in 1..Len(sets) : t # s => sets'[t] = sets[t]
      BY <1>2, <1>3, <1>4, <1>6, ReplaceRow
    <2>2. /\ DOMAIN sets' = DOMAIN sets
          /\ \A t \in DOMAIN sets :
               sets'[t].round = sets[t].round /\ sets'[t].author = sets[t].author
      <3>1. DOMAIN sets' = DOMAIN sets
        BY <1>4, <2>1
      <3>2. ASSUME NEW t \in DOMAIN sets
            PROVE  sets'[t].round = sets[t].round /\ sets'[t].author = sets[t].author
        <4>1. t = s \/ sets'[t] = sets[t]
          BY <1>4, <2>1
        <4>. QED
          BY <1>3, <2>1, <4>1
      <3>. QED
        BY <3>1, <3>2
    <2>3. tally' \in [DOMAIN sets' -> [Players -> Nat]]
      BY <1>2, <1>3, <1>4, <1>6, <2>2
    <2>4. RowsOK' /\ Grown(now, rounds, sets, now', rounds', sets')
      <3>1. \A t \in DOMAIN sets' : sets'[t].round \in DOMAIN rounds
        BY <1>4, <2>2
      <3>2. Len(sets) <= Len(sets')
        BY <1>4, <2>1
      <3>. QED
        BY <1>1, <1>2, <2>1, <2>2, <2>3, <3>1, <3>2, SetsWritten
    <2>. QED
      BY <1>1, <1>3, <1>6, <2>4, ContinueEffect
  <1>. QED
    BY <1>5, <1>6 DEF UpdateSet

LEMMA CreateSetEffect ==
  ASSUME BurstOK, NEW w \in Workers, CreateSet(w), now' = now, postgres' = postgres
  PROVE  Effect(w)
  <1> DEFINE r == req[w]
             row == Call(w).row
  <1>1. /\ r.todo # <<>> /\ Head(r.todo).call = "createSet" /\ Call(w).call = "createSet"
        /\ UNCHANGED <<room, user, rounds, votes, score>>
    BY DEF CreateSet, Doing, Call
  <1>2. /\ FitsBusy(r, now, rounds, sets) /\ FitsHead(r, rounds)
        /\ FitsCall(Call(w), r, rounds, sets) /\ row \in TruthSets /\ RowsOK
    BY <1>1, WorkerFound, CallFields DEF BurstOK
  <1>3. row.round \in DOMAIN rounds /\ Copied(r, rounds)
    BY <1>1, <1>2 DEF FitsCall, FitsHead, FitsBusy
  <1>4. /\ sets \in Seq(TruthSets) /\ DOMAIN sets = 1..Len(sets) /\ Len(sets) \in Nat
        /\ tally \in [DOMAIN sets -> [Players -> Nat]]
        /\ \A t \in DOMAIN sets : sets[t].round \in DOMAIN rounds
    BY <1>2, RowsFound DEF RowsOK, TypeOK
  <1>5. CASE End(w) /\ UNCHANGED <<sets, tally>>
    <2>1. RowsOK' /\ Grown(now, rounds, sets, now', rounds', sets')
      BY <1>1, <1>2, <1>4, <1>5, SetsWritten
    <2>. QED
      BY <1>5, <2>1, EndWritten
  <1>6. CASE /\ Continue(w)
             /\ sets' = Append(sets, row)
             /\ tally' = Append(tally, [p \in Players |-> 0])
    <2>. HIDE DEF row
    <2> DEFINE n == Len(sets) + 1
    <2>1. /\ sets' \in Seq(TruthSets) /\ Len(sets') = n
          /\ sets'[n] = row /\ \A t \in 1..Len(sets) : sets'[t] = sets[t]
      BY <1>2, <1>4, <1>6, AppendRow
    <2>2. DOMAIN sets' = 1..n /\ n \in Nat /\ \A t \in 1..n : t \in 1..Len(sets) \/ t = n
      BY <1>4, <2>1
    <2>3. tally' \in [DOMAIN sets' -> [Players -> Nat]]
      <3>1. tally \in Seq([Players -> Nat]) /\ Len(tally) = Len(sets)
        BY <1>4, FunctionIsSequence
      <3>2. [p \in Players |-> 0] \in [Players -> Nat]
        OBVIOUS
      <3>3. tally' \in Seq([Players -> Nat]) /\ Len(tally') = n
        BY <1>6, <3>1, <3>2, AppendRow
      <3>. HIDE DEF n
      <3>. QED
        BY <2>2, <3>3
    <2>. HIDE DEF n
    <2>4. RowsOK' /\ Grown(now, rounds, sets, now', rounds', sets')
      <3>1. \A t \in DOMAIN sets' : sets'[t].round \in DOMAIN rounds
        BY <1>3, <1>4, <2>1, <2>2
      <3>2. Len(sets) <= Len(sets')
        BY <1>4, <2>1 DEF n
      <3>3. \A t \in DOMAIN sets :
              sets'[t].round = sets[t].round /\ sets'[t].author = sets[t].author
        BY <1>4, <2>1
      <3>. QED
        BY <1>1, <1>2, <2>1, <2>3, <3>1, <3>2, <3>3, SetsWritten
    <2>. QED
      BY <1>1, <1>3, <1>6, <2>4, ContinueEffect
  <1>. QED
    BY <1>5, <1>6 DEF CreateSet

\* Points are added.
LEMMA ScoreWritten ==
  ASSUME RowsOK, now' = now, postgres' = postgres, score' \in [Players -> Nat],
         UNCHANGED <<room, user, rounds, sets, votes, tally>>
  PROVE  RowsOK' /\ Grown(now, rounds, sets, now', rounds', sets')
  <1>1. TypeOK'
    BY DEF RowsOK, TypeOK
  <1>2. HostKnown' /\ RoundsLinked'
    BY DEF RowsOK, HostKnown, RoundsLinked
  <1>3. RowsOK'
    BY <1>1, <1>2 DEF RowsOK
  <1>4. Grown(now, rounds, sets, now', rounds', sets')
    BY RowsFound, GrownRefl
  <1>. QED
    BY <1>3, <1>4

LEMMA IncrementEffect ==
  ASSUME BurstOK, NEW w \in Workers, Increment(w), now' = now, postgres' = postgres
  PROVE  Effect(w)
  <1> DEFINE r == req[w]
             c == Call(w)
             d == [call |-> "writeScore", who |-> c.who, points |-> c.points, from |-> score[c.who]]
  <1>1. r.todo # <<>> /\ Head(r.todo).call = "increment" /\ c.call = "increment"
    BY DEF Increment, Doing, Call
  <1>2. /\ FitsBusy(r, now, rounds, sets) /\ FitsHead(r, rounds) /\ RowsOK
        /\ c.who \in Players /\ c.points \in Nat /\ score \in [Players -> Nat]
        /\ now \in Nat /\ rounds \in Seq(Rounds)
    <2>1. /\ FitsBusy(r, now, rounds, sets) /\ FitsHead(r, rounds) /\ RowsOK /\ c \in CallRows
          /\ now \in Nat /\ rounds \in Seq(Rounds)
      BY <1>1, WorkerFound DEF BurstOK
    <2>2. c.who \in Players /\ c.points \in Nat
      BY <1>1, <2>1, CallFields
    <2>. QED
      BY <2>1, <2>2, RowsFound
  <1>3. Copied(r, rounds)
    BY <1>1, <1>2 DEF FitsHead
  <1>4. CASE Before(w, <<d>>, r) /\ RowsKept
    <2>1. d \in CallRows /\ d.call = "writeScore"
      BY <1>2 DEF CallRows
    <2>. HIDE DEF d
    <2>2. FitsBusy([r EXCEPT !.todo = <<d>> \o Tail(@)], now, rounds, sets)
      BY <1>1, <1>2, <2>1, ReplacedHead
    <2>. QED
      BY <1>4, <2>2, ReadEffect DEF Before
  <1>5. CASE /\ score' = [score EXCEPT ![c.who] = @ + c.points]
             /\ Continue(w)
             /\ UNCHANGED <<room, user, rounds, sets, votes, tally>>
    <2>1. score' \in [Players -> Nat]
      BY <1>2, <1>5
    <2>2. RowsOK' /\ Grown(now, rounds, sets, now', rounds', sets')
      BY <1>2, <1>5, <2>1, ScoreWritten
    <2>. QED
      BY <1>1, <1>3, <1>5, <2>2, ContinueEffect
  <1>. QED
    BY <1>4, <1>5 DEF Increment

LEMMA WriteScoreEffect ==
  ASSUME BurstOK, NEW w \in Workers, WriteScore(w), now' = now, postgres' = postgres
  PROVE  Effect(w)
  <1> DEFINE r == req[w]
             c == Call(w)
  <1>1. /\ r.todo # <<>> /\ Head(r.todo).call = "writeScore" /\ c.call = "writeScore"
        /\ UNCHANGED <<room, user, rounds, sets, votes, tally>>
    BY DEF WriteScore, Doing, Call
  <1>2. /\ FitsHead(r, rounds) /\ RowsOK
        /\ c.who \in Players /\ c.points \in Nat /\ c.from \in Nat /\ score \in [Players -> Nat]
    <2>1. /\ FitsHead(r, rounds) /\ RowsOK /\ c \in CallRows
      BY <1>1, WorkerFound DEF BurstOK
    <2>2. c.who \in Players /\ c.points \in Nat /\ c.from \in Nat
      BY <1>1, <2>1, CallFields
    <2>. QED
      BY <2>1, <2>2, RowsFound
  <1>3. Copied(r, rounds)
    BY <1>1, <1>2 DEF FitsHead
  <1>4. CASE End(w) /\ UNCHANGED score
    <2>1. RowsOK' /\ Grown(now, rounds, sets, now', rounds', sets')
      BY <1>1, <1>2, <1>4, ScoreWritten
    <2>. QED
      BY <1>4, <2>1, EndWritten
  <1>5. CASE Continue(w) /\ score' = [score EXCEPT ![c.who] = c.from + c.points]
    <2>1. score' \in [Players -> Nat]
      BY <1>2, <1>5
    <2>2. RowsOK' /\ Grown(now, rounds, sets, now', rounds', sets')
      BY <1>1, <1>2, <2>1, ScoreWritten
    <2>. QED
      BY <1>1, <1>3, <1>5, <2>2, ContinueEffect
  <1>. QED
    BY <1>4, <1>5 DEF WriteScore

LEMMA AcceptEffect ==
  ASSUME BurstOK, NEW w \in Workers, Accept(w), now' = now, postgres' = postgres
  PROVE  Effect(w)
  <1>1. req[w].todo # <<>> /\ Head(req[w].todo).call = "accept" /\ RowsKept
    BY DEF Accept, Doing
  <1>2. /\ FitsBusy(req[w], now, rounds, sets) /\ FitsHead(req[w], rounds)
        /\ rounds \in Seq(Rounds)
    BY <1>1, WorkerFound
  <1>3. CASE End(w)
    BY <1>1, <1>3, EndEffect
  <1>4. CASE Accepts(w) /\ Continue(w)
    <2>1. Copied(req[w], rounds)
      BY <1>1, <1>2 DEF FitsHead
    <2>2. req[w].op = "vote" => req[w].round.status = "presentation_voting"
      BY <1>4 DEF Accepts
    <2>3. FitsBusy([req[w] EXCEPT !.todo = <<>> \o Tail(@)], now, rounds, sets)
      BY <1>1, <1>2, <2>1, <2>2, ContinueFits
    <2>. QED
      BY <1>1, <1>4, <2>3, ReadEffect DEF Continue, Before
  <1>. QED
    BY <1>3, <1>4 DEF Accept

LEMMA LargestFound ==
  ASSUME NEW n \in Nat, NEW T, T \subseteq 1..n, T # {}
  PROVE  Max(T) \in T /\ \A x \in T : x <= Max(T)
  <1> DEFINE U == {n - x : x \in T}
  <1>1. U \subseteq Nat /\ U # {}
    OBVIOUS
  <1>. HIDE DEF U
  <1>2. PICK m \in U : \A u \in U : m <= u
    BY <1>1, LeastNumber
  <1>. USE DEF U
  <1>3. PICK x \in T : m = n - x
    BY <1>2
  <1>4. \A y \in T : x >= y
    <2> SUFFICES ASSUME NEW y \in T PROVE x >= y
      OBVIOUS
    <2>1. m <= n - y
      BY <1>2
    <2>. QED
      BY <1>3, <2>1
  <1>5. \E z \in T : \A y \in T : z >= y
    BY <1>4
  <1>6. Max(T) \in T /\ \A y \in T : Max(T) >= y
    BY <1>5 DEF Max
  <1>. QED
    BY <1>6

LEMMA LastCallEffect ==
  ASSUME BurstOK, NEW w \in Workers, req[w].todo # <<>>, RowsKept, now' = now,
         postgres' = postgres, Copied(req[w], rounds),
         NEW c \in CallRows, c.call \in {"createSet", "updateSet", "upsert"},
         FitsCall(c, req[w], rounds, sets), LastCall(w, c)
  PROVE  Effect(w)
  <1>1. FitsBusy(req[w], now, rounds, sets) /\ rounds \in Seq(Rounds)
    BY WorkerFound
  <1>2. FitsBusy([req[w] EXCEPT !.todo = <<c>>], now, rounds, sets)
    BY <1>1, LastFits DEF Ends, Looking
  <1>. QED
    BY <1>2, ReadEffect DEF LastCall

LEMMA ReadMineEffect ==
  ASSUME BurstOK, NEW w \in Workers, ReadMine(w), now' = now, postgres' = postgres
  PROVE  Effect(w)
  <1> DEFINE r == req[w]
             mine == OwnSets(r.at, r.who)
             row == [round |-> r.at, author |-> r.who, truth |-> r.statement,
                     order |-> 0, scored |-> FALSE]
  <1>1. r.todo # <<>> /\ Head(r.todo).call = "readMine" /\ Call(w).call = "readMine" /\ RowsKept
    BY DEF ReadMine, Doing, Call
  <1>2. /\ FitsBusy(r, now, rounds, sets) /\ FitsHead(r, rounds)
        /\ FitsCall(Call(w), r, rounds, sets)
        /\ rounds \in Seq(Rounds) /\ sets \in Seq(TruthSets)
        /\ DOMAIN rounds = 1..Len(rounds) /\ Len(rounds) \in Nat
        /\ DOMAIN sets = 1..Len(sets) /\ Len(sets) \in Nat
    BY <1>1, WorkerFound
  <1>3. r.op = "write" /\ Copied(r, rounds)
    BY <1>1, <1>2 DEF FitsCall, FitsHead
  <1>4. r.who \in Players /\ r.statement \in Statements /\ r.at \in DOMAIN rounds
    BY <1>2, <1>3 DEF FitsBusy
  <1>5. /\ row \in TruthSets /\ row.round = r.at /\ row.author = r.who
    BY <1>2, <1>4 DEF TruthSets
  <1>. HIDE DEF row
  <1>6. CASE mine = {} /\ LastCall(w, AddSet(row))
    <2> DEFINE c == AddSet(row)
    <2>1. c \in CallRows /\ c.call = "createSet" /\ c.row = row
      BY <1>5, CallsTyped
    <2>. HIDE DEF c
    <2>2. FitsCall(c, r, rounds, sets)
      BY <1>3, <1>5, <2>1 DEF FitsCall
    <2>3. LastCall(w, c)
      BY <1>6 DEF c
    <2>. QED
      BY <1>1, <1>3, <2>1, <2>2, <2>3, LastCallEffect
  <1>7. CASE mine # {} /\ LastCall(w, WriteSet(Max(mine), [row EXCEPT !.order = sets[Max(mine)].order]))
    <2> DEFINE s == Max(mine)
               other == [row EXCEPT !.order = sets[s].order]
               c == WriteSet(s, other)
    <2>1. s \in mine
      <3>1. mine \subseteq 1..Len(sets)
        BY <1>2 DEF OwnSets, SetsOf, game
      <3>. QED
        BY <1>2, <1>7, <3>1, LargestFound
    <2>2. s \in DOMAIN sets /\ sets[s].round = r.at /\ sets[s].author = r.who
      BY <2>1 DEF OwnSets, SetsOf, game
    <2>. HIDE DEF s
    <2>3. s \in Nat /\ sets[s].order \in Nat
      <3>1. sets[s] \in TruthSets /\ s \in Nat
        BY <1>2, <2>2
      <3>. QED
        BY <3>1 DEF TruthSets
    <2>4. other \in TruthSets /\ other.round = r.at /\ other.author = r.who
      BY <1>5, <2>3 DEF TruthSets
    <2>. HIDE DEF other
    <2>5. c \in CallRows /\ c.call = "updateSet" /\ c.row = other /\ c.set = s
      BY <2>3, <2>4, CallsTyped
    <2>. HIDE DEF c
    <2>6. FitsCall(c, r, rounds, sets)
      BY <2>2, <2>4, <2>5 DEF FitsCall
    <2>7. LastCall(w, c)
      BY <1>7 DEF c, s, other
    <2>. QED
      BY <1>1, <1>3, <2>5, <2>6, <2>7, LastCallEffect
  <1>8. \/ mine = {} /\ LastCall(w, AddSet(row))
        \/ mine # {} /\ LastCall(w, WriteSet(Max(mine), [row EXCEPT !.order = sets[Max(mine)].order]))
    BY DEF ReadMine, row
  <1>. QED
    BY <1>6, <1>7, <1>8

LEMMA LookUpEffect ==
  ASSUME BurstOK, NEW w \in Workers, LookUp(w), now' = now, postgres' = postgres
  PROVE  Effect(w)
  <1> DEFINE r == req[w]
             s == r.round.active
             c == [call |-> "upsert", set |-> s, isNew |-> ~Voted(s, r.who)]
  <1>1. r.todo # <<>> /\ Head(r.todo).call = "lookUp" /\ Call(w).call = "lookUp" /\ RowsKept
        /\ LastCall(w, c)
    BY DEF LookUp, Doing, Call
  <1>2. /\ FitsBusy(r, now, rounds, sets) /\ FitsHead(r, rounds)
        /\ FitsCall(Call(w), r, rounds, sets)
        /\ DOMAIN sets = 1..Len(sets) /\ Len(sets) \in Nat /\ RowFits(r.round, sets)
    BY <1>1, WorkerFound
  <1>3. r.op = "vote" /\ Copied(r, rounds) /\ r.round.status = "presentation_voting"
    BY <1>1, <1>2 DEF FitsCall, FitsHead
  <1>4. s \in DOMAIN sets /\ s \in Nat
    BY <1>2, <1>3 DEF RowFits, Presenting
  <1>5. c \in CallRows /\ c.call = "upsert" /\ c.set = s
    <2>1. (~Voted(s, r.who)) \in BOOLEAN
      BY DEF Voted
    <2>. QED
      BY <1>4, <2>1 DEF CallRows
  <1>. HIDE DEF c
  <1>6. FitsCall(c, r, rounds, sets)
    BY <1>3, <1>4, <1>5 DEF FitsCall
  <1>. QED
    BY <1>1, <1>3, <1>5, <1>6, LastCallEffect

LEMMA UpsertEffect ==
  ASSUME BurstOK, NEW w \in Workers, Upsert(w), now' = now, postgres' = postgres
  PROVE  Effect(w)
  <1> DEFINE r == req[w]
             s == Call(w).set
             new == [set |-> s, voter |-> r.who, choice |-> r.statement]
  <1>1. /\ r.todo # <<>> /\ Call(w).call = "upsert" /\ End(w)
        /\ UNCHANGED <<room, user, rounds, sets, score, tally>>
        /\ \/ votes' = votes
           \/ votes' = {v \in votes : ~(v.set = s /\ v.voter = r.who)} \cup {new}
    BY DEF Upsert, Doing, Call
  <1>2. /\ FitsBusy(r, now, rounds, sets) /\ FitsCall(Call(w), r, rounds, sets) /\ RowsOK
    BY <1>1, WorkerFound DEF BurstOK
  <1>3. r.op \in {"write", "vote"} /\ s \in DOMAIN sets
    BY <1>1, <1>2 DEF FitsCall
  <1>4. new \in Votes /\ new.set = s
    <2>1. r.who \in Players /\ r.statement \in Statements
      BY <1>2, <1>3 DEF FitsBusy
    <2>2. s \in Nat \ {0}
      BY <1>2, <1>3, RowsFound
    <2>. QED
      BY <2>1, <2>2 DEF Votes
  <1>. HIDE DEF new
  <1>5. /\ votes' \subseteq Votes /\ IsFiniteSet(votes') /\ \A v \in votes' : v.set \in DOMAIN sets
    <2>1. votes \subseteq Votes /\ IsFiniteSet(votes) /\ \A v \in votes : v.set \in DOMAIN sets
      BY <1>2 DEF RowsOK, TypeOK
    <2>2. IsFiniteSet({v \in votes : ~(v.set = s /\ v.voter = r.who)} \cup {new})
      BY <2>1, FS_Subset, FS_AddElement
    <2>. QED
      BY <1>1, <1>3, <1>4, <2>1, <2>2
  <1>6. RowsOK'
    <2>1. TypeOK'
      BY <1>1, <1>2, <1>5 DEF RowsOK, TypeOK
    <2>2. HostKnown' /\ RoundsLinked'
      BY <1>1, <1>2 DEF RowsOK, HostKnown, RoundsLinked
    <2>. QED
      BY <1>1, <1>2, <1>5, <2>1, <2>2 DEF RowsOK
  <1>7. Grown(now, rounds, sets, now', rounds', sets')
    BY <1>1, <1>2, RowsFound, GrownRefl
  <1>. QED
    BY <1>1, <1>6, <1>7, EndWritten

LEMMA ServeEffect ==
  ASSUME BurstOK, NEW w \in Workers, Serve(w), now' = now, postgres' = postgres
  PROVE  Effect(w)
  BY ReadRoomEffect, ReadCurrentEffect, ReadRoundEffect, SyncRoomEffect, SynchroniseEffect, ListSetsEffect,
     FirstSetEffect, ReadActiveEffect, ListVotesEffect, ListNextEffect, UpdateRoomEffect,
     UpdateRoundEffect, CreateRoundEffect, UpdateSetEffect, CreateSetEffect, IncrementEffect,
     WriteScoreEffect, AcceptEffect, ReadMineEffect, LookUpEffect, UpsertEffect DEF Serve

-----------------------------------------------------------------------------
(* Requests of the room, served whole before the burst.                    *)

Linked(rs) ==
  \A i \in 1..Len(rs) :
    /\ rs[i].number <= MaxRounds
    /\ rs[i].number > 1 => \E j \in 1..(i - 1) : rs[j].number = rs[i].number - 1

GameOK(g) ==
  /\ g \in Games
  /\ \A i \in 1..Len(g.rounds) : RowFits(g.rounds[i], g.sets) /\ g.rounds[i].pausedAt <= now
  /\ \A s \in 1..Len(g.sets) : g.sets[s].round \in 1..Len(g.rounds)
  /\ Linked(g.rounds)
  /\ g.room.status \in {"active", "paused"} => Len(g.rounds) # 0

GoesOn(g) ==
  g.room.status \in {"active", "paused"} => g.rounds[Len(g.rounds)].status # "finished"

\* A request before it synchronises: truth sets and scores are as they were.
Prepares(g, h) ==
  /\ GameOK(h) /\ h.sets = g.sets /\ h.score = g.score
  /\ h.room.hostID = g.room.hostID
  /\ g.room.status # "none" => h.room.status # "none"
  /\ GoesOn(g) => GoesOn(h)

\* A round is synchronised: no truth set comes or goes, and one at most is scored.
Carries(g, h) ==
  /\ GameOK(h) /\ Len(h.sets) = Len(g.sets)
  /\ \A s \in 1..Len(g.sets) :
       h.sets[s].round = g.sets[s].round /\ h.sets[s].author = g.sets[s].author
  /\ \A p \in Players : h.score[p] >= g.score[p]
  /\ \E a \in Nat : \A s \in 1..Len(g.sets) : s # a => h.sets[s].scored = g.sets[s].scored
  /\ h.room.hostID = g.room.hostID
  /\ g.room.status # "none" => h.room.status # "none"
  /\ GoesOn(g) => GoesOn(h)

LEMMA PreparedCarries ==
  ASSUME NEW g, NEW h, NEW k, Prepares(g, h), Carries(h, k)
  PROVE  Carries(g, k)
  BY DEF Prepares, Carries

LEMMA PreparesCarries ==
  ASSUME NEW g \in Games, NEW h, Prepares(g, h)
  PROVE  Carries(g, h)
  <1>1. \A p \in Players : g.score[p] \in Nat
    BY DEF Games
  <1>2. \A p \in Players : h.score[p] >= g.score[p]
    BY <1>1 DEF Prepares
  <1>. QED
    BY <1>2 DEF Prepares, Carries

LEMMA PreparesRefl ==
  ASSUME NEW g, GameOK(g)
  PROVE  Prepares(g, g)
  BY DEF Prepares

LEMMA PreparesTransitive ==
  ASSUME NEW g, NEW h, NEW k, Prepares(g, h), Prepares(h, k)
  PROVE  Prepares(g, k)
  BY DEF Prepares

LEMMA StatusPrepares ==
  ASSUME NEW g, GameOK(g), NEW status \in {"finished", "expired"}
  PROVE  Prepares(g, WithStatus(g, status))
  <1> DEFINE h == WithStatus(g, status)
  <1>1. /\ h \in Games /\ h.room.status = status /\ h.room.hostID = g.room.hostID
        /\ h.rounds = g.rounds /\ h.sets = g.sets /\ h.score = g.score
    BY DEF GameOK, Games, Rooms, RoomStatus, WithStatus
  <1>. HIDE DEF h
  <1>2. GameOK(h)
    BY <1>1 DEF GameOK
  <1>3. Prepares(g, h)
    BY <1>1, <1>2 DEF Prepares, GoesOn
  <1>. QED
    BY <1>3 DEF h

LEMMA ExpirePrepares ==
  ASSUME NEW g, GameOK(g)
  PROVE  Prepares(g, Expire(g))
  BY StatusPrepares, PreparesRefl DEF Expire

\* A round gets another row.
LEMMA RowCarries ==
  ASSUME NEW g, GameOK(g), NEW i \in 1..Len(g.rounds), NEW row, RowFits(row, g.sets),
         row.number = g.rounds[i].number, row.pausedAt <= now
  PROVE  LET h == WithRound(g, i, row)
         IN  /\ GameOK(h) /\ h.sets = g.sets /\ h.score = g.score /\ h.room = g.room
             /\ Len(h.rounds) = Len(g.rounds) /\ h.rounds[i] = row
             /\ row.status # "finished" => Prepares(g, h)
  <1> DEFINE h == WithRound(g, i, row)
  <1>1. g \in Games /\ row \in Rounds
    BY DEF GameOK, RowFits
  <1>2. /\ h \in Games /\ h.sets = g.sets /\ h.score = g.score /\ h.room = g.room
        /\ Len(h.rounds) = Len(g.rounds) /\ h.rounds[i] = row
        /\ \A j \in 1..Len(g.rounds) : j # i => h.rounds[j] = g.rounds[j]
    BY <1>1, RoundRow DEF Rewrites
  <1>. HIDE DEF h
  <1>3. /\ \A j \in 1..Len(g.rounds) : j = i \/ h.rounds[j] = g.rounds[j]
        /\ \A j \in 1..Len(g.rounds) : h.rounds[j].number = g.rounds[j].number
    <2> SUFFICES ASSUME NEW j \in 1..Len(g.rounds)
                 PROVE  /\ j = i \/ h.rounds[j] = g.rounds[j]
                        /\ h.rounds[j].number = g.rounds[j].number
      OBVIOUS
    <2>1. CASE j = i
      BY <1>2, <2>1
    <2>2. CASE j # i
      BY <1>2, <2>2
    <2>. QED
      BY <2>1, <2>2
  <1>4. Len(g.rounds) \in Nat
    BY <1>1, RowAt
  <1>5. Linked(h.rounds)
    <2> SUFFICES ASSUME NEW j \in 1..Len(g.rounds)
                 PROVE  /\ h.rounds[j].number <= MaxRounds
                        /\ h.rounds[j].number > 1 =>
                             \E k \in 1..(j - 1) : h.rounds[k].number = h.rounds[j].number - 1
      BY <1>2 DEF Linked
    <2>1. /\ g.rounds[j].number <= MaxRounds
          /\ g.rounds[j].number > 1 =>
               \E k \in 1..(j - 1) : g.rounds[k].number = g.rounds[j].number - 1
      BY DEF GameOK, Linked
    <2>2. \A k \in 1..(j - 1) : k \in 1..Len(g.rounds)
      BY <1>4
    <2>. QED
      BY <1>3, <2>1, <2>2
  <1>6. \A j \in 1..Len(h.rounds) : RowFits(h.rounds[j], h.sets) /\ h.rounds[j].pausedAt <= now
    BY <1>2, <1>3 DEF GameOK
  <1>7. GameOK(h)
    BY <1>2, <1>5, <1>6 DEF GameOK
  <1>8. row.status # "finished" => Prepares(g, h)
    <2>1. h.room.status \in {"active", "paused"} => Len(g.rounds) \in 1..Len(g.rounds)
      BY <1>2, <1>4 DEF GameOK
    <2>2. row.status # "finished" /\ GoesOn(g) => GoesOn(h)
      BY <1>2, <1>3, <2>1 DEF GoesOn
    <2>. QED
      BY <1>2, <1>7, <2>2 DEF Prepares
  <1>. QED
    BY <1>2, <1>7, <1>8 DEF h

\* A round is added.
LEMMA RoundAdded ==
  ASSUME NEW g, GameOK(g), NEW row, RowFits(row, g.sets), row.status # "finished",
         row.number <= MaxRounds, row.pausedAt <= now,
         row.number > 1 => \E j \in 1..Len(g.rounds) : g.rounds[j].number = row.number - 1
  PROVE  LET h == [g EXCEPT !.rounds = Append(@, row)]
         IN  /\ GameOK(h) /\ h.sets = g.sets /\ h.score = g.score /\ h.room = g.room
             /\ GoesOn(h) /\ Len(h.rounds) = Len(g.rounds) + 1 /\ h.rounds[Len(g.rounds) + 1] = row
  <1> DEFINE h == [g EXCEPT !.rounds = Append(@, row)]
             n == Len(g.rounds) + 1
  <1>1. g \in Games /\ row \in Rounds
    BY DEF GameOK, RowFits
  <1>2. g.rounds \in Seq(Rounds) /\ Len(g.rounds) \in Nat
    BY <1>1, RowAt
  <1> DEFINE rs == g.rounds
             q == Append(rs, row)
  <1>. HIDE DEF rs
  <1>3. /\ q \in Seq(Rounds) /\ Len(q) = Len(rs) + 1 /\ q[Len(rs) + 1] = row
        /\ \A j \in 1..Len(rs) : q[j] = rs[j]
    BY <1>1, <1>2, AppendRow DEF rs
  <1>. HIDE DEF q
  <1>4. /\ h \in Games /\ h.sets = g.sets /\ h.score = g.score /\ h.room = g.room
        /\ h.rounds = q
    BY <1>1, <1>3 DEF Games, q, rs
  <1>. HIDE DEF h
  <1>5. /\ Len(h.rounds) = n /\ h.rounds[n] = row /\ n \in Nat
        /\ \A j \in 1..Len(g.rounds) : h.rounds[j] = g.rounds[j]
        /\ \A j \in 1..n : j \in 1..Len(g.rounds) \/ j = n
    BY <1>2, <1>3, <1>4 DEF rs
  <1>6. Linked(h.rounds)
    <2> SUFFICES ASSUME NEW j \in 1..n
                 PROVE  /\ h.rounds[j].number <= MaxRounds
                        /\ h.rounds[j].number > 1 =>
                             \E k \in 1..(j - 1) : h.rounds[k].number = h.rounds[j].number - 1
      BY <1>5 DEF Linked
    <2>1. CASE j \in 1..Len(g.rounds)
      <3>1. /\ g.rounds[j].number <= MaxRounds
            /\ g.rounds[j].number > 1 =>
                 \E k \in 1..(j - 1) : g.rounds[k].number = g.rounds[j].number - 1
        BY <2>1 DEF GameOK, Linked
      <3>2. \A k \in 1..(j - 1) : k \in 1..Len(g.rounds)
        BY <1>2, <2>1
      <3>. QED
        BY <1>5, <2>1, <3>1, <3>2
    <2>2. CASE j = n
      <3>1. n - 1 = Len(g.rounds)
        BY <1>2
      <3>. HIDE DEF n
      <3>. QED
        BY <1>5, <2>2, <3>1
    <2>. QED
      BY <1>5, <2>1, <2>2
  <1>7. \A j \in 1..Len(h.rounds) : RowFits(h.rounds[j], h.sets) /\ h.rounds[j].pausedAt <= now
    BY <1>4, <1>5 DEF GameOK
  <1>8. \A s \in 1..Len(h.sets) : h.sets[s].round \in 1..Len(h.rounds)
    <2>1. \A j \in 1..Len(g.rounds) : j \in 1..n
      BY <1>2
    <2>. QED
      BY <1>4, <1>5, <2>1 DEF GameOK
  <1>9. GameOK(h) /\ GoesOn(h)
    <2>1. n # 0
      BY <1>2
    <2>. QED
      BY <1>4, <1>5, <1>6, <1>7, <1>8, <2>1 DEF GameOK, GoesOn
  <1>. QED
    BY <1>4, <1>5, <1>9 DEF h

LEMMA EnterFits ==
  ASSUME NEW g, GameOK(g), now \in Nat, NEW i \in 1..Len(g.rounds),
         NEW status \in RoundStatus, status # "finished",
         status \in Presenting => g.rounds[i].active # 0,
         NEW duration \in {CountdownTime, WriteTime, VoteTime, RevealTime, CommentTime}
  PROVE  LET row == Enter(g.rounds[i], status, duration)
         IN  RowFits(row, g.sets) /\ row.number = g.rounds[i].number /\ row.status = status
             /\ row.pausedAt <= now
  <1>1. g.rounds[i] \in Rounds /\ RowFits(g.rounds[i], g.sets)
    BY DEF GameOK, RowFits
  <1> DEFINE r == g.rounds[i]
             row == Enter(r, status, duration)
  <1>. HIDE DEF r
  <1>2. /\ row \in Rounds /\ row.number = r.number /\ row.status = status
        /\ row.active = r.active /\ row.pausedAt <= now
    BY <1>1, EnterRow DEF r
  <1>. HIDE DEF row
  <1>3. RowFits(row, g.sets)
    BY <1>1, <1>2 DEF RowFits, r
  <1>. QED
    BY <1>2, <1>3 DEF row, r

LEMMA EnterCarries ==
  ASSUME NEW g, GameOK(g), now \in Nat, NEW i \in 1..Len(g.rounds),
         NEW status \in RoundStatus, status # "finished",
         status \in Presenting => g.rounds[i].active # 0,
         NEW duration \in {CountdownTime, WriteTime, VoteTime, RevealTime, CommentTime}
  PROVE  Carries(g, WithRound(g, i, Enter(g.rounds[i], status, duration)))
  <1> DEFINE row == Enter(g.rounds[i], status, duration)
  <1>1. RowFits(row, g.sets) /\ row.number = g.rounds[i].number /\ row.status # "finished"
        /\ row.pausedAt <= now
    BY EnterFits
  <1>. HIDE DEF row
  <1>2. Prepares(g, WithRound(g, i, row))
    BY <1>1, RowCarries
  <1>3. g \in Games
    BY DEF GameOK
  <1>. QED
    BY <1>2, <1>3, PreparesCarries DEF row

LEMMA PresentPrepares ==
  ASSUME NEW g, GameOK(g), now \in Nat, NEW i \in 1..Len(g.rounds), NEW s \in 1..Len(g.sets)
  PROVE  Prepares(g, Present(g, i, s))
  <1> DEFINE old == g.rounds[i]
             row == [Enter(old, "presentation_voting", VoteTime) EXCEPT !.active = s]
  <1>1. old \in Rounds /\ RowFits(old, g.sets) /\ Len(g.sets) \in Nat
    BY RowAt DEF GameOK, RowFits
  <1>. HIDE DEF old
  <1>2. LET next == Enter(old, "presentation_voting", VoteTime)
        IN  /\ next \in Rounds /\ next.number = old.number /\ next.status = "presentation_voting"
            /\ next.pausedAt <= now
    <2>1. "presentation_voting" \in RoundStatus
      BY DEF RoundStatus, Presenting
    <2>. QED
      BY <1>1, <2>1, EnterRow
  <1>3. row \in Rounds /\ row.number = old.number /\ row.status = "presentation_voting"
        /\ row.active = s /\ row.pausedAt <= now
    BY <1>1, <1>2 DEF Rounds
  <1>. HIDE DEF row
  <1>4. RowFits(row, g.sets)
    BY <1>1, <1>3 DEF RowFits
  <1>5. Prepares(g, WithRound(g, i, row))
    BY <1>3, <1>4, RowCarries DEF old
  <1>. QED
    BY <1>5 DEF Present, row, old

LEMMA OrderedCarries ==
  ASSUME NEW g, GameOK(g), NEW i, NEW shuffle
  PROVE  LET o == Ordered(g, i, shuffle)
         IN  /\ GameOK(o) /\ o.rounds = g.rounds /\ o.room = g.room /\ o.score = g.score
             /\ Len(o.sets) = Len(g.sets)
             /\ \A s \in 1..Len(g.sets) :
                  /\ o.sets[s].round = g.sets[s].round /\ o.sets[s].author = g.sets[s].author
                  /\ o.sets[s].scored = g.sets[s].scored
  <1> DEFINE o == Ordered(g, i, shuffle)
             mine == SetsOf(g, i)
             ss == [s \in DOMAIN g.sets |->
                      IF s \in mine THEN [g.sets[s] EXCEPT !.order = Place(g, s, shuffle)]
                                    ELSE g.sets[s]]
  <1>1. /\ g \in Games /\ g.sets \in Seq(TruthSets) /\ DOMAIN g.sets = 1..Len(g.sets)
        /\ Len(g.sets) \in Nat /\ \A s \in 1..Len(g.sets) : g.sets[s] \in TruthSets
    BY RowAt DEF GameOK
  <1>2. CASE o = g
    BY <1>2
  <1>3. CASE o = [g EXCEPT !.sets = ss]
    <2>1. \A s \in 1..Len(g.sets) : Place(g, s, shuffle) \in Nat
      <3> SUFFICES ASSUME NEW s \in 1..Len(g.sets) PROVE Place(g, s, shuffle) \in Nat
        OBVIOUS
      <3> DEFINE T == {t \in SetsOf(g, g.sets[s].round) :
                         shuffle[g.sets[t].author] < shuffle[g.sets[s].author]}
      <3>1. IsFiniteSet(T)
        BY <1>1, SetsOfRound, FS_Subset
      <3>2. Cardinality(T) \in Nat
        BY <3>1, FS_CardinalityType
      <3>3. Place(g, s, shuffle) = 1 + Cardinality(T)
        BY DEF Place
      <3>. HIDE DEF T
      <3>. QED
        BY <3>2, <3>3
    <2>2. ASSUME NEW s \in 1..Len(g.sets)
          PROVE  /\ ss[s] \in TruthSets /\ ss[s].round = g.sets[s].round
                 /\ ss[s].author = g.sets[s].author /\ ss[s].scored = g.sets[s].scored
      <3>1. ss[s] = g.sets[s] \/ ss[s] = [g.sets[s] EXCEPT !.order = Place(g, s, shuffle)]
        BY <1>1
      <3>. HIDE DEF ss
      <3>. QED
        BY <1>1, <2>1, <3>1 DEF TruthSets
    <2>3. ss \in Seq(TruthSets) /\ Len(ss) = Len(g.sets)
      <3>1. ss \in [1..Len(g.sets) -> TruthSets]
        BY <1>1, <2>2
      <3>. HIDE DEF ss
      <3>. QED
        BY <1>1, <3>1, FunctionIsSequence
    <2>. HIDE DEF ss
    <2>4. /\ o \in Games /\ o.rounds = g.rounds /\ o.room = g.room /\ o.score = g.score
          /\ o.sets = ss
      BY <1>1, <1>3, <2>3 DEF Games
    <2>5. \A j \in 1..Len(g.rounds) : RowFits(g.rounds[j], ss) /\ g.rounds[j].pausedAt <= now
      BY <2>3 DEF GameOK, RowFits
    <2>. HIDE DEF o
    <2>6. GameOK(o)
      BY <2>2, <2>3, <2>4, <2>5 DEF GameOK
    <2>. QED
      BY <2>2, <2>3, <2>4, <2>6 DEF o
  <1>. QED
    BY <1>2, <1>3 DEF Ordered

LEMMA LowestSet ==
  ASSUME NEW g \in Games, NEW i, SetsOf(g, i) # {}
  PROVE  (CHOOSE s \in SetsOf(g, i) : \A t \in SetsOf(g, i) : g.sets[s].order <= g.sets[t].order)
           \in SetsOf(g, i)
  <1> DEFINE mine == SetsOf(g, i)
             T == {g.sets[s].order : s \in mine}
  <1>1. T \subseteq Nat /\ T # {}
    <2>1. \A s \in mine : g.sets[s] \in TruthSets
      BY RowAt, SetsOfRound
    <2>. QED
      BY <2>1 DEF TruthSets
  <1>. HIDE DEF T
  <1>2. PICK m \in T : \A n \in T : m <= n
    BY <1>1, LeastNumber
  <1>3. PICK s \in mine : m = g.sets[s].order
    BY DEF T
  <1>4. \A t \in mine : g.sets[s].order <= g.sets[t].order
    BY <1>2, <1>3 DEF T
  <1>. HIDE DEF mine
  <1>5. \E x \in mine : \A t \in mine : g.sets[x].order <= g.sets[t].order
    BY <1>4
  <1>6. (CHOOSE x \in mine : \A t \in mine : g.sets[x].order <= g.sets[t].order) \in mine
    BY <1>5
  <1>. QED
    BY <1>6 DEF mine

LEMMA ToPresentationCarries ==
  ASSUME NEW g, GameOK(g), now \in Nat, NEW i \in 1..Len(g.rounds), NEW shuffle
  PROVE  Carries(g, ToPresentation(g, i, shuffle))
  <1>1. CASE ~Presentable(g, i)
    <2>1. ToPresentation(g, i, shuffle) = g
      BY <1>1 DEF ToPresentation
    <2>2. g \in Games
      BY DEF GameOK
    <2>. QED
      BY <2>1, <2>2, PreparesRefl, PreparesCarries
  <1>2. CASE Presentable(g, i)
    <2> DEFINE o == Ordered(g, i, shuffle)
               s == CHOOSE x \in SetsOf(o, i) : \A t \in SetsOf(o, i) : o.sets[x].order <= o.sets[t].order
               h == Present(o, i, s)
    <2>1. ToPresentation(g, i, shuffle) = h
      BY <1>2 DEF ToPresentation
    <2>2. /\ GameOK(o) /\ o.rounds = g.rounds /\ o.room = g.room /\ o.score = g.score
          /\ Len(o.sets) = Len(g.sets) /\ o \in Games /\ g \in Games
          /\ \A x \in 1..Len(g.sets) :
               /\ o.sets[x].round = g.sets[x].round /\ o.sets[x].author = g.sets[x].author
               /\ o.sets[x].scored = g.sets[x].scored
      BY OrderedCarries DEF GameOK
    <2>. HIDE DEF o
    <2>3. SetsOf(o, i) = SetsOf(g, i) /\ SetsOf(g, i) # {}
      <3>1. \A x : x \in SetsOf(o, i) <=> x \in 1..Len(o.sets) /\ o.sets[x].round = i
        BY <2>2, SetsOfRound
      <3>2. \A x : x \in SetsOf(g, i) <=> x \in 1..Len(g.sets) /\ g.sets[x].round = i
        BY <2>2, SetsOfRound
      <3>3. \A x : x \in SetsOf(o, i) <=> x \in SetsOf(g, i)
        BY <2>2, <3>1, <3>2
      <3>. QED
        BY <1>2, <3>3 DEF Presentable
    <2>4. s \in 1..Len(o.sets)
      BY <2>2, <2>3, LowestSet, SetsOfRound
    <2>. HIDE DEF s
    <2>5. Prepares(o, h)
      BY <2>2, <2>4, PresentPrepares
    <2>. HIDE DEF h
    <2>6. /\ h.sets = o.sets /\ h.score = o.score /\ h.room.hostID = g.room.hostID /\ GameOK(h)
          /\ g.room.status # "none" => h.room.status # "none"
          /\ GoesOn(g) => GoesOn(h)
      BY <2>2, <2>5 DEF Prepares, GoesOn
    <2>7. \A p \in Players : h.score[p] >= g.score[p]
      <3>1. \A p \in Players : g.score[p] \in Nat
        BY <2>2 DEF Games
      <3>. QED
        BY <2>2, <2>6, <3>1
    <2>8. Carries(g, h)
      BY <2>2, <2>6, <2>7 DEF Carries
    <2>. QED
      BY <2>1, <2>8
  <1>. QED
    BY <1>1, <1>2

LEMMA ScoredCarries ==
  ASSUME NEW g, GameOK(g), IsFiniteSet(votes), NEW a \in 1..Len(g.sets)
  PROVE  LET k == Scored(g, a)
         IN  /\ GameOK(k) /\ k.room = g.room /\ k.rounds = g.rounds
             /\ Len(k.sets) = Len(g.sets)
             /\ \A s \in 1..Len(g.sets) :
                  /\ k.sets[s].round = g.sets[s].round /\ k.sets[s].author = g.sets[s].author
                  /\ s # a => k.sets[s].scored = g.sets[s].scored
             /\ \A p \in Players : k.score[p] >= g.score[p]
  <1> DEFINE k == Scored(g, a)
             row == g.sets[a]
             points == [p \in Players |-> Points(row, VotesOn(a), p)]
  <1>1. /\ g \in Games /\ g.sets \in Seq(TruthSets) /\ Len(g.sets) \in Nat
        /\ \A s \in 1..Len(g.sets) : g.sets[s] \in TruthSets
        /\ g.score \in [Players -> Nat]
    BY RowAt DEF GameOK, Games
  <1>2. CASE row.scored
    <2>1. k = g /\ \A p \in Players : g.score[p] \in Nat
      BY <1>1, <1>2 DEF Scored
    <2>. QED
      BY <2>1
  <1>3. CASE ~row.scored
    <2> DEFINE ss == [g.sets EXCEPT ![a] = [row EXCEPT !.scored = TRUE]]
               score2 == [p \in Players |-> g.score[p] + points[p]]
    <2>1. points \in [Players -> Nat]
      <3>1. IsFiniteSet(VotesOn(a))
        BY FS_Subset DEF VotesOn
      <3>. QED
        BY <3>1, PointsNat
    <2>2. k = [g EXCEPT !.sets[a].scored = TRUE,
                        !.score = [p \in Players |-> @[p] + Points(row, VotesOn(a), p)]]
      BY <1>3 DEF Scored
    <2>3. /\ k.room = g.room /\ k.rounds = g.rounds /\ k.sets = ss
          /\ k.score = [p \in Players |-> g.score[p] + Points(row, VotesOn(a), p)]
          /\ k = [room |-> g.room, rounds |-> g.rounds, sets |-> ss, score |-> k.score]
      BY <1>1, <2>2 DEF Games
    <2>4. k.score = score2
      BY <2>3
    <2>. HIDE DEF points, k
    <2>5. score2 \in [Players -> Nat] /\ \A p \in Players : score2[p] >= g.score[p]
      BY <1>1, <2>1
    <2>6. /\ [row EXCEPT !.scored = TRUE] \in TruthSets
          /\ [row EXCEPT !.scored = TRUE].round = row.round
          /\ [row EXCEPT !.scored = TRUE].author = row.author
      BY <1>1 DEF TruthSets
    <2> DEFINE new == [row EXCEPT !.scored = TRUE]
    <2>7. /\ ss \in Seq(TruthSets) /\ Len(ss) = Len(g.sets) /\ ss[a] = new
          /\ \A s \in 1..Len(g.sets) : s # a => ss[s] = g.sets[s]
      <3>1. new \in TruthSets
        BY <2>6
      <3>. HIDE DEF new
      <3>2. /\ [g.sets EXCEPT ![a] = new] \in Seq(TruthSets)
            /\ Len([g.sets EXCEPT ![a] = new]) = Len(g.sets)
            /\ [g.sets EXCEPT ![a] = new][a] = new
            /\ \A s \in 1..Len(g.sets) : s # a => [g.sets EXCEPT ![a] = new][s] = g.sets[s]
        BY <1>1, <3>1, ReplaceRow
      <3>. QED
        BY <3>2 DEF new
    <2>. HIDE DEF ss, score2, new
    <2>8. \A s \in 1..Len(g.sets) :
            /\ ss[s].round = g.sets[s].round /\ ss[s].author = g.sets[s].author
            /\ s # a => ss[s].scored = g.sets[s].scored
      <3> SUFFICES ASSUME NEW s \in 1..Len(g.sets)
                   PROVE  /\ ss[s].round = g.sets[s].round /\ ss[s].author = g.sets[s].author
                          /\ s # a => ss[s].scored = g.sets[s].scored
        OBVIOUS
      <3>1. CASE s = a
        BY <2>6, <2>7, <3>1 DEF new
      <3>2. CASE s # a
        BY <2>7, <3>2
      <3>. QED
        BY <3>1, <3>2
    <2>9. k \in Games
      BY <1>1, <2>3, <2>4, <2>5, <2>7 DEF Games
    <2>10. GameOK(k)
      <3>1. \A j \in 1..Len(g.rounds) : RowFits(g.rounds[j], ss) /\ g.rounds[j].pausedAt <= now
        BY <2>7 DEF GameOK, RowFits
      <3>. QED
        BY <2>3, <2>7, <2>8, <2>9, <3>1 DEF GameOK
    <2>. QED
      BY <2>3, <2>4, <2>5, <2>7, <2>8, <2>10 DEF k
  <1>. QED
    BY <1>2, <1>3

LEMMA ToRevealCarries ==
  ASSUME NEW g, GameOK(g), now \in Nat, IsFiniteSet(votes), NEW i \in 1..Len(g.rounds),
         g.rounds[i].status = "presentation_voting"
  PROVE  Carries(g, ToReveal(g, i))
  <1> DEFINE a == g.rounds[i].active
             k == Scored(g, a)
             h == WithRound(k, i, Enter(g.rounds[i], "reveal", RevealTime))
  <1>1. a # 0 /\ a \in 1..Len(g.sets) /\ g \in Games
    <2>1. RowFits(g.rounds[i], g.sets) /\ g \in Games /\ Len(g.sets) \in Nat
      BY RowAt DEF GameOK
    <2>2. a \in 0..Len(g.sets) /\ a # 0
      BY <2>1 DEF RowFits, Presenting
    <2>. HIDE DEF a
    <2>. QED
      BY <2>1, <2>2
  <1>. HIDE DEF a
  <1>2. /\ GameOK(k) /\ k.room = g.room /\ k.rounds = g.rounds /\ k \in Games
        /\ Len(k.sets) = Len(g.sets)
        /\ \A s \in 1..Len(g.sets) :
             /\ k.sets[s].round = g.sets[s].round /\ k.sets[s].author = g.sets[s].author
             /\ s # a => k.sets[s].scored = g.sets[s].scored
        /\ \A p \in Players : k.score[p] >= g.score[p]
    BY <1>1, ScoredCarries DEF GameOK
  <1>. HIDE DEF k
  <1>3. Prepares(k, h)
    <2> DEFINE row == Enter(k.rounds[i], "reveal", RevealTime)
    <2>1. "reveal" \in RoundStatus /\ k.rounds[i].active # 0 /\ i \in 1..Len(k.rounds)
      BY <1>1, <1>2 DEF RoundStatus, Presenting, a
    <2>2. RowFits(row, k.sets) /\ row.number = k.rounds[i].number /\ row.status = "reveal"
          /\ row.pausedAt <= now
      BY <1>2, <2>1, EnterFits
    <2>. HIDE DEF row
    <2>3. Prepares(k, WithRound(k, i, row))
      BY <1>2, <2>1, <2>2, RowCarries
    <2>. QED
      BY <1>2, <2>3 DEF row
  <1>. HIDE DEF h
  <1>4. /\ h.sets = k.sets /\ h.score = k.score /\ h.room.hostID = g.room.hostID /\ GameOK(h)
        /\ g.room.status # "none" => h.room.status # "none"
        /\ GoesOn(g) => GoesOn(h)
    BY <1>2, <1>3 DEF Prepares, GoesOn
  <1>5. \E b \in Nat : \A s \in 1..Len(g.sets) : s # b => h.sets[s].scored = g.sets[s].scored
    <2>1. a \in Nat
      <3>1. Len(g.sets) \in Nat
        BY <1>1, RowAt
      <3>. QED
        BY <1>1, <3>1
    <2>. QED
      BY <1>2, <1>4, <2>1
  <1>6. Carries(g, h)
    BY <1>2, <1>4, <1>5 DEF Carries
  <1>. QED
    BY <1>6 DEF h, k, a, ToReveal

LEMMA AfterCommentaryCarries ==
  ASSUME NEW g, GameOK(g), now \in Nat, NEW i \in 1..Len(g.rounds),
         g.rounds[i].status = "commentary"
  PROVE  Carries(g, AfterCommentary(g, i))
  <1> DEFINE r == g.rounds[i]
             over == Finished(r)
             f == WithRound(g, i, over)
  <1>1. g \in Games /\ r \in Rounds /\ RowFits(r, g.sets) /\ Len(g.rounds) \in Nat
        /\ Len(g.sets) \in Nat
    BY RowAt DEF GameOK, RowFits
  <1>2. over \in Rounds /\ over.number = r.number /\ RowFits(over, g.sets)
        /\ over.pausedAt <= now
    <2>1. over \in Rounds /\ over.number = r.number /\ over.active = r.active
          /\ over.status = "finished" /\ over.phaseEndsAt = NoTime /\ over.pausedAt = NoTime
      BY <1>1 DEF Finished, Rounds, RoundStatus
    <2>2. NoTime <= now
      BY DEF NoTime
    <2>. HIDE DEF over
    <2>. QED
      BY <1>1, <2>1, <2>2 DEF RowFits, Presenting
  <1>. HIDE DEF over
  <1>3. /\ GameOK(f) /\ f.sets = g.sets /\ f.score = g.score /\ f.room = g.room
        /\ Len(f.rounds) = Len(g.rounds) /\ f.rounds[i] = over
    BY <1>2, RowCarries
  <1>. HIDE DEF f
  <1>4. CASE NextSets(g, i) # {} /\ AfterCommentary(g, i) = Present(g, i, CHOOSE s \in NextSets(g, i) : TRUE)
    <2> DEFINE s == CHOOSE x \in NextSets(g, i) : TRUE
    <2>1. s \in NextSets(g, i)
      BY <1>4
    <2>2. s \in 1..Len(g.sets)
      BY <1>1, <2>1, SetsOfRound DEF NextSets
    <2>. HIDE DEF s
    <2>3. Prepares(g, Present(g, i, s))
      BY <2>2, PresentPrepares
    <2>. QED
      BY <1>1, <1>4, <2>3, PreparesCarries DEF s
  <1>5. CASE /\ ~IsLastRound(r)
             /\ AfterCommentary(g, i) =
                  [f EXCEPT !.rounds = Append(@, NewRound(r.number + 1, "writing", WriteTime))]
    <2> DEFINE new == NewRound(r.number + 1, "writing", WriteTime)
    <2> DEFINE m == r.number
    <2>1. m \in Nat \ {0} /\ MaxRounds \in Nat
      BY <1>1, TLLimitsAssumption DEF Rounds
    <2>10. now + WriteTime \in Nat
      BY TLTimesAssumption
    <2>11. ~(m >= MaxRounds)
      BY <1>5 DEF IsLastRound
    <2>2. m + 1 <= MaxRounds /\ m + 1 \in Nat \ {0} /\ (m + 1) - 1 = m
      <3>. HIDE DEF m
      <3>. QED
        BY <2>1, <2>11
    <2>3. /\ new \in Rounds /\ new.number = r.number + 1 /\ new.status = "writing"
          /\ new.active = 0 /\ new.pausedAt <= now
      <3> DEFINE e == now + WriteTime
      <3>1. e \in Nat /\ new = [number |-> m + 1, status |-> "writing", active |-> 0,
                              phaseEndsAt |-> e, pausedAt |-> NoTime]
        BY <2>10 DEF NewRound
      <3>. HIDE DEF m, e, new
      <3>2. /\ new \in Rounds /\ new.number = m + 1 /\ new.status = "writing"
            /\ new.active = 0 /\ new.pausedAt <= now
        BY <1>1, <2>2, <3>1 DEF Rounds, RoundStatus, NoTime
      <3>. QED
        BY <3>2 DEF m
    <2>. HIDE DEF new
    <2>4. RowFits(new, f.sets)
      BY <1>1, <1>3, <2>3 DEF RowFits, Presenting
    <2>5. \E j \in 1..Len(f.rounds) : f.rounds[j].number = new.number - 1
      BY <1>2, <1>3, <2>2, <2>3
    <2> DEFINE h == [f EXCEPT !.rounds = Append(@, new)]
    <2>6. /\ GameOK(h) /\ h.sets = f.sets /\ h.score = f.score /\ h.room = f.room /\ GoesOn(h)
      BY <1>3, <2>2, <2>3, <2>4, <2>5, RoundAdded
    <2>. HIDE DEF h
    <2>7. Prepares(g, h)
      BY <1>3, <2>6 DEF Prepares
    <2>. QED
      BY <1>1, <1>5, <2>7, PreparesCarries DEF h, new
  <1>6. CASE AfterCommentary(g, i) = WithStatus(f, "finished")
    <2> DEFINE h == WithStatus(f, "finished")
    <2>1. Prepares(f, h) /\ h.room.status = "finished"
      <3>1. f \in Games
        BY <1>3 DEF GameOK
      <3>. QED
        BY <1>3, <3>1, StatusPrepares DEF WithStatus, Games, Rooms
    <2>. HIDE DEF h
    <2>2. Prepares(g, h)
      BY <1>3, <2>1 DEF Prepares, GoesOn
    <2>. QED
      BY <1>1, <1>6, <2>2, PreparesCarries DEF h
  <1>. QED
    BY <1>4, <1>5, <1>6 DEF AfterCommentary, f, over

LEMMA AdvancedCarries ==
  ASSUME NEW g, GameOK(g), now \in Nat, IsFiniteSet(votes), NEW i \in 1..Len(g.rounds),
         NEW shuffle
  PROVE  Carries(g, Advanced(g, i, shuffle))
  <1> DEFINE r == g.rounds[i]
  <1>1. g \in Games /\ r.status \in RoundStatus /\ RowFits(r, g.sets)
    BY RowAt DEF GameOK
  <1>2. {"countdown", "writing", "reveal", "commentary"} \subseteq RoundStatus
    BY DEF RoundStatus, Presenting
  <1>3. CASE r.status = "countdown"
    <2>1. Carries(g, WithRound(g, i, Enter(g.rounds[i], "writing", WriteTime)))
      BY <1>2, EnterCarries DEF Presenting
    <2>. QED
      BY <1>3, <2>1 DEF Advanced
  <1>4. CASE r.status = "writing"
    <2>1. Advanced(g, i, shuffle) = ToPresentation(g, i, shuffle)
      BY <1>4 DEF Advanced
    <2>. QED
      BY <2>1, ToPresentationCarries
  <1>5. CASE r.status = "presentation_voting"
    <2>1. Advanced(g, i, shuffle) = ToReveal(g, i)
      BY <1>5 DEF Advanced
    <2>. QED
      BY <1>5, <2>1, ToRevealCarries
  <1>6. CASE r.status = "reveal"
    <2>1. r.active # 0
      BY <1>1, <1>6 DEF RowFits, Presenting
    <2>2. Carries(g, WithRound(g, i, Enter(g.rounds[i], "commentary", CommentTime)))
      BY <1>2, <2>1, EnterCarries
    <2>. QED
      BY <1>6, <2>2 DEF Advanced
  <1>7. CASE r.status = "commentary"
    <2>1. Advanced(g, i, shuffle) = AfterCommentary(g, i)
      BY <1>7 DEF Advanced
    <2>. QED
      BY <1>7, <2>1, AfterCommentaryCarries
  <1>8. CASE r.status = "finished"
    <2>1. Advanced(g, i, shuffle) = g
      BY <1>8 DEF Advanced
    <2>. QED
      BY <1>1, <2>1, PreparesRefl, PreparesCarries
  <1>. QED
    BY <1>1, <1>3, <1>4, <1>5, <1>6, <1>7, <1>8 DEF RoundStatus, Presenting

LEMMA SyncCurrentCarries ==
  ASSUME NEW g, GameOK(g), now \in Nat, IsFiniteSet(votes), NEW shuffle
  PROVE  Carries(g, SyncCurrent(g, shuffle))
  <1> DEFINE e == Expire(g)
             n == Current(g)
  <1>1. Prepares(g, e) /\ GameOK(e) /\ g \in Games /\ e.rounds = g.rounds
    <2>1. e.rounds = g.rounds
      BY DEF Expire, WithStatus, GameOK, Games
    <2>. QED
      BY <2>1, ExpirePrepares DEF Prepares, GameOK
  <1>2. CASE g.rounds = <<>> \/ ~Due(e, n)
    <2>1. SyncCurrent(g, shuffle) \in {g, e}
      BY <1>2 DEF SyncCurrent, SyncRound
    <2>. QED
      BY <1>1, <2>1, PreparesRefl, PreparesCarries
  <1>3. CASE g.rounds # <<>> /\ Due(e, n)
    <2>1. SyncCurrent(g, shuffle) = Advanced(e, n, shuffle)
      BY <1>3 DEF SyncCurrent, SyncRound
    <2>2. n \in 1..Len(e.rounds)
      <3>1. g.rounds \in Seq(Rounds)
        BY <1>1, RowAt
      <3>. QED
        BY <1>1, <1>3, <3>1 DEF Current
    <2>3. Carries(e, Advanced(e, n, shuffle))
      <3>. HIDE DEF e, n
      <3>. QED
        BY <1>1, <2>2, AdvancedCarries
    <2>. QED
      BY <1>1, <2>1, <2>3, PreparedCarries
  <1>. QED
    BY <1>2, <1>3

\* The room is paused or goes on again, and the clock of its last round with it.
LEMMA ClockPrepares ==
  ASSUME NEW g, GameOK(g), now \in Nat, g.room.status \in {"active", "paused"},
         NEW row, RowFits(row, g.sets), row.number = g.rounds[Current(g)].number,
         row.status = g.rounds[Current(g)].status, row.pausedAt <= now,
         NEW status \in {"active", "paused"}
  PROVE  Prepares(g, WithStatus(OnCurrent(g, row), status))
  <1> DEFINE n == Len(g.rounds)
             f == WithRound(g, n, row)
             h == WithStatus(f, status)
  <1>1. g \in Games /\ n \in 1..Len(g.rounds) /\ g.rounds # <<>>
    <2>1. g \in Games /\ g.rounds \in Seq(Rounds) /\ n # 0
      BY RowAt DEF GameOK
    <2>. QED
      BY <2>1
  <1>2. /\ GameOK(f) /\ f.sets = g.sets /\ f.score = g.score /\ f.room = g.room
        /\ Len(f.rounds) = Len(g.rounds) /\ f.rounds[n] = row
    BY <1>1, RowCarries DEF Current
  <1>3. WithStatus(OnCurrent(g, row), status) = h
    BY <1>1 DEF OnCurrent, Current
  <1>. HIDE DEF f
  <1>4. /\ h \in Games /\ h.room.status = status /\ h.room.hostID = f.room.hostID
        /\ h.rounds = f.rounds /\ h.sets = f.sets /\ h.score = f.score
    BY <1>2 DEF GameOK, Games, Rooms, RoomStatus, WithStatus
  <1>. HIDE DEF h
  <1>5. GameOK(h)
    BY <1>1, <1>2, <1>4 DEF GameOK
  <1>6. GoesOn(g) => GoesOn(h)
    BY <1>2, <1>4 DEF GoesOn, Current
  <1>7. Prepares(g, h)
    BY <1>2, <1>4, <1>5, <1>6 DEF Prepares
  <1>. QED
    BY <1>3, <1>7

LEMMA UnpausedPrepares ==
  ASSUME NEW g, GameOK(g), now \in Nat, g.room.status = "paused"
  PROVE  Prepares(g, Unpaused(g))
  <1> DEFINE r == g.rounds[Current(g)]
             row == Resumed(r)
  <1>1. r \in Rounds /\ RowFits(r, g.sets) /\ r.pausedAt <= now
    <2>1. g.rounds \in Seq(Rounds) /\ Len(g.rounds) # 0
      BY RowAt DEF GameOK
    <2>2. Current(g) \in 1..Len(g.rounds)
      BY <2>1 DEF Current
    <2>. QED
      BY <2>2 DEF GameOK, RowFits
  <1>. HIDE DEF r
  <1>2. /\ row \in Rounds /\ row.number = r.number /\ row.status = r.status
        /\ row.active = r.active /\ row.pausedAt <= now
        /\ row.phaseEndsAt = NoTime <=> r.phaseEndsAt = NoTime
    BY <1>1, ResumedRow
  <1>. HIDE DEF row
  <1>3. RowFits(row, g.sets)
    BY <1>1, <1>2 DEF RowFits
  <1>4. Prepares(g, WithStatus(OnCurrent(g, row), "active"))
    BY <1>2, <1>3, ClockPrepares DEF r
  <1>. QED
    BY <1>4 DEF Unpaused, row, r

LEMMA PausedPrepares ==
  ASSUME NEW g, GameOK(g), now \in Nat, g.room.status = "active"
  PROVE  Prepares(g, Paused(g))
  <1> DEFINE r == g.rounds[Current(g)]
             row == [r EXCEPT !.pausedAt = now]
  <1>1. r \in Rounds /\ RowFits(r, g.sets)
    <2>1. g.rounds \in Seq(Rounds) /\ Len(g.rounds) # 0
      BY RowAt DEF GameOK
    <2>2. Current(g) \in 1..Len(g.rounds)
      BY <2>1 DEF Current
    <2>. QED
      BY <2>2 DEF GameOK, RowFits
  <1>. HIDE DEF r
  <1>2. /\ row \in Rounds /\ row.number = r.number /\ row.status = r.status
        /\ row.active = r.active /\ row.pausedAt <= now /\ row.phaseEndsAt = r.phaseEndsAt
    BY <1>1 DEF Rounds
  <1>. HIDE DEF row
  <1>3. RowFits(row, g.sets)
    BY <1>1, <1>2 DEF RowFits
  <1>4. Prepares(g, WithStatus(OnCurrent(g, row), "paused"))
    BY <1>2, <1>3, ClockPrepares DEF r
  <1>. QED
    BY <1>4 DEF Paused, row, r

LEMMA OpenedPrepares ==
  ASSUME NEW g, GameOK(g), now \in Nat
  PROVE  Prepares(g, Opened(g))
  <1> DEFINE row == NewRound(1, "countdown", CountdownTime)
             f == [g EXCEPT !.rounds = Append(@, row)]
             h == WithStatus(f, "active")
  <1>1. now + CountdownTime \in Nat
    BY TLTimesAssumption
  <1>2. /\ row \in Rounds /\ row.number = 1 /\ row.status = "countdown" /\ row.active = 0
        /\ row.pausedAt = NoTime
    BY <1>1 DEF NewRound, Rounds, RoundStatus
  <1>3. NoTime <= now /\ 1 <= MaxRounds /\ ~(1 > 1)
    BY TLLimitsAssumption DEF NoTime
  <1>. HIDE DEF row
  <1>4. RowFits(row, g.sets)
    <2>1. g \in Games /\ Len(g.sets) \in Nat
      BY RowAt DEF GameOK
    <2>. QED
      BY <1>2, <2>1 DEF RowFits, Presenting
  <1>5. /\ GameOK(f) /\ f.sets = g.sets /\ f.score = g.score /\ f.room = g.room
        /\ Len(f.rounds) = Len(g.rounds) + 1 /\ f.rounds[Len(g.rounds) + 1] = row
    BY <1>2, <1>3, <1>4, RoundAdded
  <1>. HIDE DEF f
  <1>6. /\ h \in Games /\ h.room.status = "active" /\ h.room.hostID = f.room.hostID
        /\ h.rounds = f.rounds /\ h.sets = f.sets /\ h.score = f.score
    BY <1>5 DEF GameOK, Games, Rooms, RoomStatus, WithStatus
  <1>. HIDE DEF h
  <1>7. Len(h.rounds) # 0
    <2>1. g \in Games /\ Len(g.rounds) \in Nat
      BY RowAt DEF GameOK
    <2>. QED
      BY <1>5, <1>6, <2>1
  <1>8. GameOK(h) /\ GoesOn(h)
    BY <1>2, <1>5, <1>6, <1>7 DEF GameOK, GoesOn
  <1>9. Prepares(g, h)
    BY <1>5, <1>6, <1>8 DEF Prepares
  <1>. QED
    BY <1>9 DEF h, f, row, Opened

\* What a request of the room leaves to the rest.
Answers(g, h) ==
  /\ GameOK(h) /\ Len(h.sets) = Len(g.sets)
  /\ \A s \in 1..Len(g.sets) :
       h.sets[s].round = g.sets[s].round /\ h.sets[s].author = g.sets[s].author
  /\ \A p \in Players : h.score[p] >= g.score[p]
  /\ \E a \in Nat : \A s \in 1..Len(g.sets) : s # a => h.sets[s].scored = g.sets[s].scored
  /\ GoesOn(g) => GoesOn(h)

LEMMA GameRows ==
  ASSUME RowsOK
  PROVE  /\ GameOK(game) /\ game.room = room /\ game.rounds = rounds /\ game.sets = sets
         /\ game.score = score /\ now \in Nat /\ IsFiniteSet(votes)
  <1>1. game \in Games
    BY DEF RowsOK, TypeOK, game, Games
  <1>2. /\ DOMAIN rounds = 1..Len(rounds) /\ DOMAIN sets = 1..Len(sets) /\ Len(rounds) \in Nat
        /\ rounds # <<>> => Len(rounds) # 0
    BY RowsFound
  <1>3. Linked(rounds)
    BY <1>2 DEF RowsOK, RoundsLinked, Linked
  <1>4. /\ game.room = room /\ game.rounds = rounds /\ game.sets = sets /\ game.score = score
    BY DEF game
  <1>5. GameOK(game)
    BY <1>1, <1>2, <1>3, <1>4 DEF RowsOK, TypeOK, GameOK
  <1>. QED
    BY <1>4, <1>5 DEF RowsOK, TypeOK

LEMMA CarriesGame ==
  ASSUME RowsOK, NEW h, Prepares(game, h), NEW shuffle
  PROVE  Carries(game, SyncCurrent(h, shuffle))
  <1>1. GameOK(h)
    BY DEF Prepares
  <1>2. Carries(h, SyncCurrent(h, shuffle))
    BY <1>1, GameRows, SyncCurrentCarries
  <1>. QED
    BY <1>2, PreparedCarries

\* The room and its users after a request.
Housed(h) ==
  /\ Answers(game, h) /\ Commit(h)
  /\ HostKnown' /\ user' \in [Players -> {"absent", "member", "gone"}]
  /\ votes' = votes /\ now' = now

LEMMA CarriesHoused ==
  ASSUME RowsOK, room.status # "none", NEW h, Carries(game, h), Commit(h),
         user' \in [Players -> {"absent", "member", "gone"}],
         \A p \in Players : user[p] # "absent" => user'[p] # "absent",
         votes' = votes, now' = now
  PROVE  Housed(h)
  <1>1. room.hostID \in Players /\ user[room.hostID] # "absent"
    BY DEF RowsOK, HostKnown
  <1>2. room'.hostID = room.hostID /\ room'.status # "none"
    BY GameRows DEF Carries, Commit
  <1>3. HostKnown'
    BY <1>1, <1>2 DEF HostKnown
  <1>. QED
    BY <1>3 DEF Housed, Answers, Carries

LEMMA CreateRoomHoused ==
  ASSUME RowsOK, NEW p \in Players, CreateRoom(p)
  PROVE  \E h : Housed(h)
  <1> DEFINE new == [status |-> "waiting", hostID |-> p, expiresAt |-> now + Expiration]
             h == [room |-> new, rounds |-> rounds, sets |-> sets, score |-> score]
  <1>1. /\ GameOK(game) /\ game.rounds = rounds /\ game.sets = sets /\ game.score = score
        /\ game \in Games /\ now \in Nat
    BY GameRows DEF GameOK
  <1>2. new \in Rooms /\ new.status = "waiting" /\ new.hostID = p
    BY <1>1, TLTimesAssumption DEF Rooms, RoomStatus
  <1>3. room' = new
    BY DEF CreateRoom
  <1>. HIDE DEF new
  <1>4. /\ h \in Games /\ h.room = new /\ h.rounds = rounds /\ h.sets = sets /\ h.score = score
    BY <1>1, <1>2 DEF Games
  <1>. HIDE DEF h
  <1>5. GameOK(h)
    BY <1>1, <1>2, <1>4 DEF GameOK
  <1>6. \A q \in Players : score[q] >= score[q]
    BY <1>1 DEF Games
  <1>7. Answers(game, h)
    BY <1>1, <1>2, <1>4, <1>5, <1>6 DEF Answers, GoesOn
  <1>8. Commit(h)
    BY <1>3, <1>4 DEF Commit, CreateRoom
  <1>9. user' = [user EXCEPT ![p] = "member"] /\ votes' = votes /\ now' = now
    BY DEF CreateRoom
  <1>10. user' \in [Players -> {"absent", "member", "gone"}] /\ user'[p] # "absent"
    BY <1>9 DEF RowsOK, TypeOK
  <1>11. HostKnown'
    BY <1>2, <1>3, <1>10 DEF HostKnown
  <1>. QED
    BY <1>7, <1>8, <1>9, <1>10, <1>11 DEF Housed

LEMMA JoinRoomHoused ==
  ASSUME RowsOK, NEW p \in Players, JoinRoom(p)
  PROVE  \E h : Housed(h)
  <1>1. Carries(game, Expire(game))
    BY GameRows, ExpirePrepares, PreparesCarries DEF GameOK
  <1>2. Commit(Expire(game)) /\ room.status # "none" /\ votes' = votes /\ now' = now
        /\ user' \in {user, [user EXCEPT ![p] = "member"]}
    BY DEF JoinRoom
  <1>3. /\ user' \in [Players -> {"absent", "member", "gone"}]
        /\ \A q \in Players : user[q] # "absent" => user'[q] # "absent"
    BY <1>2 DEF RowsOK, TypeOK
  <1>. QED
    BY <1>1, <1>2, <1>3, CarriesHoused

LEMMA LeaveRoomHoused ==
  ASSUME RowsOK, NEW p \in Players, NEW shuffle \in Shuffles, LeaveRoom(p, shuffle)
  PROVE  \E h : Housed(h)
  <1> DEFINE g == IF Closes(p) THEN WithStatus(game, "finished") ELSE game
  <1>1. Prepares(game, g)
    BY GameRows, StatusPrepares, PreparesRefl
  <1>. HIDE DEF g
  <1>2. Carries(game, SyncCurrent(g, shuffle))
    BY <1>1, CarriesGame
  <1>3. /\ Commit(SyncCurrent(g, shuffle)) /\ votes' = votes /\ now' = now /\ user[p] = "member"
        /\ user' = [user EXCEPT ![p] = "gone"]
    BY DEF LeaveRoom, g
  <1>4. /\ user' \in [Players -> {"absent", "member", "gone"}]
        /\ \A q \in Players : user[q] # "absent" => user'[q] # "absent"
    BY <1>3 DEF RowsOK, TypeOK
  <1>5. room.status # "none"
    BY <1>3 DEF RowsOK, HostKnown
  <1>. QED
    BY <1>2, <1>3, <1>4, <1>5, CarriesHoused

LEMMA HostHoused ==
  ASSUME RowsOK, room.status # "none", NEW h, Carries(game, h), Commit(h),
         user' = user, votes' = votes, now' = now
  PROVE  Housed(h)
  BY CarriesHoused DEF RowsOK, TypeOK

LEMMA StartGameHoused ==
  ASSUME RowsOK, NEW p \in Players, NEW shuffle \in Shuffles, StartGame(p, shuffle)
  PROVE  \E h : Housed(h)
  <1> DEFINE g == Expire(game)
  <1>1. user' = user /\ votes' = votes /\ now' = now /\ room.status # "none"
    BY DEF StartGame, RowsOK, HostKnown
  <1>2. Prepares(game, g) /\ GameOK(g) /\ now \in Nat /\ GameOK(game) /\ game \in Games
    BY GameRows, ExpirePrepares DEF Prepares, GameOK
  <1>3. \/ Commit(SyncCurrent(Opened(g), shuffle))
        \/ g.room.status = "paused" /\ Commit(SyncCurrent(Unpaused(g), shuffle))
        \/ Commit(g)
    BY DEF StartGame
  <1>. HIDE DEF g
  <1>4. CASE Commit(SyncCurrent(Opened(g), shuffle))
    <2>1. Prepares(game, Opened(g))
      BY <1>2, OpenedPrepares, PreparesTransitive
    <2>. QED
      BY <1>1, <1>4, <2>1, CarriesGame, HostHoused
  <1>5. CASE g.room.status = "paused" /\ Commit(SyncCurrent(Unpaused(g), shuffle))
    <2>1. Prepares(game, Unpaused(g))
      BY <1>2, <1>5, UnpausedPrepares, PreparesTransitive
    <2>. QED
      BY <1>1, <1>5, <2>1, CarriesGame, HostHoused
  <1>6. CASE Commit(g)
    BY <1>1, <1>2, <1>6, PreparesCarries, HostHoused
  <1>. QED
    BY <1>3, <1>4, <1>5, <1>6

LEMMA PauseRoundHoused ==
  ASSUME RowsOK, NEW p \in Players, NEW shuffle \in Shuffles, PauseRound(p, shuffle)
  PROVE  \E h : Housed(h)
  <1>1. user' = user /\ votes' = votes /\ now' = now /\ room.status # "none"
    BY DEF PauseRound, RowsOK, HostKnown
  <1>2. GameOK(game) /\ now \in Nat /\ game.room = room
    BY GameRows
  <1>3. CASE room.status = "active" /\ Commit(SyncCurrent(Paused(game), shuffle))
    <2>1. Prepares(game, Paused(game))
      BY <1>2, <1>3, PausedPrepares
    <2>. QED
      BY <1>1, <1>3, <2>1, CarriesGame, HostHoused
  <1>4. CASE room.status = "paused" /\ Commit(SyncCurrent(Unpaused(game), shuffle))
    <2>1. Prepares(game, Unpaused(game))
      BY <1>2, <1>4, UnpausedPrepares
    <2>. QED
      BY <1>1, <1>4, <2>1, CarriesGame, HostHoused
  <1>. QED
    BY <1>3, <1>4 DEF PauseRound

LEMMA RoomRequestHoused ==
  ASSUME RowsOK, RoomRequest
  PROVE  \E h : Housed(h)
  BY CreateRoomHoused, JoinRoomHoused, LeaveRoomHoused, StartGameHoused, PauseRoundHoused
     DEF RoomRequest

LEMMA TalliedTyped ==
  ASSUME RowsOK, NEW h, Housed(h), tally' = Tallied
  PROVE  tally' \in [DOMAIN sets' -> [Players -> Nat]]
  <1>1. /\ tally \in [DOMAIN sets -> [Players -> Nat]] /\ score \in [Players -> Nat]
        /\ sets' = h.sets /\ score' = h.score /\ h \in Games
    BY RowsFound DEF Housed, Commit, Answers, GameOK
  <1>2. \A p \in Players : score'[p] - score[p] \in Nat
    BY <1>1, GameRows DEF Housed, Answers, Games
  <1>. QED
    BY <1>1, <1>2 DEF Tallied

LEMMA HousedRows ==
  ASSUME RowsOK, NEW h, Housed(h), tally' = Tallied, postgres' = postgres
  PROVE  RowsOK'
  <1>1. /\ GameOK(h) /\ h \in Games /\ Len(h.sets) = Len(sets)
        /\ room' = h.room /\ rounds' = h.rounds /\ sets' = h.sets /\ score' = h.score
        /\ votes' = votes /\ now' = now /\ HostKnown'
        /\ user' \in [Players -> {"absent", "member", "gone"}]
    BY GameRows DEF Housed, Answers, Commit, GameOK
  <1>2. /\ rounds' \in Seq(Rounds) /\ DOMAIN rounds' = 1..Len(rounds') /\ Len(rounds') \in Nat
        /\ sets' \in Seq(TruthSets) /\ DOMAIN sets' = 1..Len(sets') /\ DOMAIN sets = 1..Len(sets)
    BY <1>1, RowAt, RowsFound
  <1>3. /\ \A i \in DOMAIN rounds' : RowFits(rounds'[i], sets') /\ rounds'[i].pausedAt <= now'
        /\ \A s \in DOMAIN sets' : sets'[s].round \in DOMAIN rounds'
        /\ RoundsLinked'
        /\ room'.status \in {"active", "paused"} => rounds' # <<>>
    BY <1>1, <1>2 DEF GameOK, Linked, RoundsLinked
  <1>4. TypeOK'
    <2>1. /\ postgres \in BOOLEAN /\ now \in Nat /\ votes \subseteq Votes
          /\ \A v \in votes : v.set \in DOMAIN sets
      BY DEF RowsOK, TypeOK
    <2>2. room' \in Rooms /\ score' \in [Players -> Nat]
      BY <1>1 DEF Games
    <2>3. \A i \in DOMAIN rounds' : rounds'[i].active \in 0..Len(sets')
      BY <1>3 DEF RowFits
    <2>. QED
      BY <1>1, <1>2, <1>3, <2>1, <2>2, <2>3 DEF TypeOK
  <1>5. tally' \in [DOMAIN sets' -> [Players -> Nat]]
    BY TalliedTyped
  <1>6. IsFiniteSet(votes')
    BY <1>1 DEF RowsOK
  <1>. QED
    BY <1>1, <1>3, <1>4, <1>5, <1>6 DEF RowsOK

-----------------------------------------------------------------------------
(* Every step keeps the invariant.                                         *)

LEMMA CallsInLine ==
  ASSUME NEW op \in Ops
  PROVE  /\ Calls(op) \in Seq(CallRows) /\ Calls(op) # <<>> /\ InLine(Calls(op))
         /\ Calls(op)[1].call = IF op = "get" THEN "readRoom" ELSE "readRound"
         /\ \A k \in 1..Len(Calls(op)) :
              /\ Calls(op)[k].call \in Asking
              /\ Calls(op)[k].call \in {"readRound", "accept"} => op \in {"write", "vote"}
              /\ Calls(op)[k].call = "readMine" => op = "write"
              /\ Calls(op)[k].call = "lookUp" => op = "vote"
  <1>1. \A call \in Asking : Read(call) \in CallRows /\ Read(call).call = call
    BY CallsTyped
  <1>2. CASE op = "get"
    <2> DEFINE q == <<Read("readRoom"), Read("readCurrent"), Read("syncRoom"),
                      Read("readCurrent"), Read("syncRoom")>>
    <2>1. q \in Seq(CallRows) /\ Len(q) = 5
      BY <1>1 DEF Asking
    <2>2. /\ q[1].call = "readRoom" /\ q[2].call = "readCurrent" /\ q[3].call = "syncRoom"
          /\ q[4].call = "readCurrent" /\ q[5].call = "syncRoom"
      BY <1>1 DEF Asking
    <2>. HIDE DEF q
    <2>3. InLine(q)
      <3>1. \A k \in 1..4 : MayFollow(q[k], q[k + 1])
        BY <2>2 DEF MayFollow, Asking, Looking, Concludes, Ends
      <3>2. ~Ends(q[5])
        BY <2>2 DEF Ends
      <3>. QED
        BY <2>1, <3>1, <3>2 DEF InLine
    <2>4. q # <<>>
      BY <2>1
    <2>5. \A k \in 1..5 : q[k].call \in {"readRoom", "readCurrent", "syncRoom"}
      BY <2>2
    <2>6. Calls(op) = q
      BY <1>2 DEF Calls, q
    <2>. QED
      BY <1>2, <2>1, <2>2, <2>3, <2>4, <2>5, <2>6 DEF Asking
  <1>3. ASSUME NEW last \in {"readMine", "lookUp"},
               Calls(op) = <<Read("readRound"), Read("syncRoom"), Read("accept"), Read(last)>>,
               op = IF last = "readMine" THEN "write" ELSE "vote"
        PROVE  /\ Calls(op) \in Seq(CallRows) /\ Calls(op) # <<>> /\ InLine(Calls(op))
               /\ Calls(op)[1].call = "readRound"
               /\ \A k \in 1..Len(Calls(op)) :
                    /\ Calls(op)[k].call \in Asking
                    /\ Calls(op)[k].call \in {"readRound", "accept"} => op \in {"write", "vote"}
                    /\ Calls(op)[k].call = "readMine" => op = "write"
                    /\ Calls(op)[k].call = "lookUp" => op = "vote"
    <2> DEFINE q == <<Read("readRound"), Read("syncRoom"), Read("accept"), Read(last)>>
    <2>1. q \in Seq(CallRows) /\ Len(q) = 4
      BY <1>1 DEF Asking
    <2>2. /\ q[1].call = "readRound" /\ q[2].call = "syncRoom" /\ q[3].call = "accept"
          /\ q[4].call = last
      BY <1>1 DEF Asking
    <2>. HIDE DEF q
    <2>3. InLine(q)
      <3>1. \A k \in 1..3 : MayFollow(q[k], q[k + 1])
        BY <2>2 DEF MayFollow, Asking, Looking, Concludes, Ends
      <3>2. ~Ends(q[4])
        BY <2>2 DEF Ends
      <3>. QED
        BY <2>1, <3>1, <3>2 DEF InLine
    <2>4. q # <<>>
      BY <2>1
    <2>5. \A k \in 1..4 : q[k].call \in {"readRound", "syncRoom", "accept", last}
      BY <2>2
    <2>6. Calls(op) = q
      BY <1>3 DEF q
    <2>. QED
      BY <1>3, <2>1, <2>2, <2>3, <2>4, <2>5, <2>6 DEF Asking
  <1>4. CASE op = "write"
    BY <1>3, <1>4 DEF Calls
  <1>5. CASE op = "vote"
    BY <1>3, <1>5 DEF Calls
  <1>. QED
    BY <1>2, <1>4, <1>5 DEF Ops

LEMMA ReceiveEffect ==
  ASSUME BurstOK, NEW w \in Workers, Receive(w), now' = now, postgres' = postgres
  PROVE  Effect(w) /\ RowsKept /\ room.status # "none" /\ req[w] = Idle
  <1>1. PICK op \in Ops, p \in Players \cup {NoPlayer}, i \in 0..Len(rounds),
             x \in Statements \cup {0} : Arrive(w, op, p, i, x)
    BY DEF Receive
  <1> DEFINE r == [Idle EXCEPT !.op = op, !.who = p, !.at = i, !.statement = x,
                               !.todo = Calls(op)]
  <1>2. Turn(w, r) /\ RowsKept /\ room.status # "none" /\ req[w] = Idle
    BY <1>1 DEF Arrive
  <1>3. op # "get" => p \in Players /\ i \in DOMAIN rounds /\ x \in Statements
    BY <1>1 DEF Arrive, Members
  <1>4. /\ RowsOK /\ now \in Nat /\ rounds \in Seq(Rounds) /\ sets \in Seq(TruthSets)
        /\ i \in Nat /\ Len(sets) \in Nat
    BY RowsFound DEF BurstOK
  <1>5. /\ Calls(op) \in Seq(CallRows) /\ Calls(op) # <<>> /\ InLine(Calls(op))
    BY CallsInLine
  <1>6. /\ r \in Requests /\ r.op = op /\ r.who = p /\ r.at = i /\ r.statement = x
        /\ r.todo = Calls(op) /\ r.round = NoRow /\ r.clock = 0
    <2>1. Idle \in Requests /\ Idle.round = NoRow /\ Idle.clock = 0
      BY IdleRequest DEF Idle
    <2>. HIDE DEF Calls
    <2>. QED
      BY <1>4, <1>5, <2>1 DEF Requests, Ops
  <1>. HIDE DEF r
  <1>7. RowFits(NoRow, sets)
    <2>1. NoRow \in Rounds /\ NoRow.status = "writing" /\ NoRow.active = 0
      BY IdleRequest
    <2>. QED
      BY <1>4, <2>1 DEF RowFits, Presenting
  <1>8. \A k \in 1..Len(r.todo) : FitsCall(r.todo[k], r, rounds, sets)
    <2> SUFFICES ASSUME NEW k \in 1..Len(Calls(op))
                 PROVE  FitsCall(Calls(op)[k], r, rounds, sets)
      BY <1>6
    <2>1. LET c == Calls(op)[k]
          IN  /\ c.call \in Asking
              /\ c.call \in {"readRound", "accept"} => op \in {"write", "vote"}
              /\ c.call = "readMine" => op = "write"
              /\ c.call = "lookUp" => op = "vote"
      BY CallsInLine
    <2>. QED
      BY <1>6, <2>1 DEF FitsCall, Asking
  <1>9. FitsHead(r, rounds)
    <2>1. Head(r.todo) = Calls(op)[1]
      BY <1>5, <1>6, TailCalls
    <2>2. Calls(op)[1].call \in {"readRoom", "readRound"}
      BY CallsInLine
    <2>. QED
      BY <2>1, <2>2 DEF FitsHead
  <1>10. FitsBusy(r, now, rounds, sets)
    <2>1. 0 <= now /\ r.at \in 0..Len(rounds)
      BY <1>4, <1>6
    <2>2. r.op \in {"write", "vote"} =>
            r.who \in Players /\ r.statement \in Statements /\ r.at \in DOMAIN rounds
      BY <1>3, <1>6
    <2>. QED
      BY <1>5, <1>6, <1>7, <1>8, <1>9, <2>1, <2>2 DEF FitsBusy
  <1>11. Effect(w)
    BY <1>2, <1>10, ReadEffect
  <1>. QED
    BY <1>2, <1>11

\* The room does not go away.
LEMMA RoomServed ==
  ASSUME BurstOK, NEW w \in Workers, Serve(w)
  PROVE  room'.status # "none" /\ req[w] # Idle
  <1>1. req[w].todo # <<>>
    BY DEF Serve, ReadRoom, ReadCurrent, ReadRoundRow, SyncRoom, Synchronise, ListSets, FirstSet, ReadActive,
           ListVotes, ListNext, UpdateRoom, UpdateRound, CreateRound, UpdateSet, CreateSet,
           Increment, WriteScore, Accept, ReadMine, LookUp, Upsert, Doing
  <1>2. room.status # "none" /\ req[w] # Idle /\ Call(w) \in CallRows /\ room \in Rooms
    BY <1>1, WorkerFound, RowsFound DEF BurstOK
  <1>3. CASE UpdateRoom(w)
    <2>1. Call(w).status \in {"expired", "finished"}
      BY <1>2, <1>3, CallFields DEF UpdateRoom, Doing, Call
    <2>2. room'.status = Call(w).status
      BY <1>2, <1>3 DEF UpdateRoom, Rooms
    <2>. QED
      BY <1>2, <2>1, <2>2
  <1>4. CASE ~UpdateRoom(w)
    <2>1. room' = room
      BY <1>4 DEF Serve, ReadRoom, ReadCurrent, ReadRoundRow, SyncRoom, Synchronise, ListSets, FirstSet,
           ReadActive, ListVotes, ListNext, UpdateRound, CreateRound, UpdateSet, CreateSet,
           Increment, WriteScore, Accept, ReadMine, LookUp, Upsert, RowsKept
    <2>. QED
      BY <1>2, <2>1
  <1>. QED
    BY <1>3, <1>4

\* What one worker does leaves the others a request that fits.
LEMMA EffectFits ==
  ASSUME BurstOK, NEW w \in Workers, Effect(w)
  PROVE  /\ RowsOK' /\ req' \in [Workers -> Requests]
         /\ \A v \in Workers : Fits(req'[v], now', rounds', sets')
         /\ \A v \in Workers : v = w \/ req'[v] = req[v]
  <1>1. /\ now \in Nat /\ rounds \in Seq(Rounds) /\ sets \in Seq(TruthSets)
        /\ now' \in Nat /\ rounds' \in Seq(Rounds) /\ sets' \in Seq(TruthSets)
    BY DEF BurstOK, Effect, RowsOK, TypeOK
  <1>2. /\ req \in [Workers -> Requests] /\ req' = [req EXCEPT ![w] = req'[w]]
        /\ Fits(req'[w], now', rounds', sets')
    BY DEF BurstOK, Effect
  <1>3. \A v \in Workers : v = w \/ req'[v] = req[v]
    BY <1>2
  <1>4. ASSUME NEW v \in Workers
        PROVE  Fits(req'[v], now', rounds', sets')
    <2>1. CASE v = w
      BY <1>2, <2>1
    <2>2. CASE v # w
      <3>1. Fits(req[v], now, rounds, sets)
        BY DEF BurstOK
      <3>2. FitsBusy(req[v], now', rounds', sets')
        BY <1>1, <3>1, FitsGrown DEF Fits, Effect
      <3>. QED
        BY <1>3, <2>2, <3>1, <3>2 DEF Fits
    <2>. QED
      BY <2>1, <2>2
  <1>5. req' \in [Workers -> Requests]
    <2>1. req'[w] \in Requests
      BY <1>2 DEF Fits, FitsBusy
    <2>. QED
      BY <1>2, <2>1
  <1>. QED
    BY <1>3, <1>4, <1>5 DEF Effect

\* All keep their requests.
LEMMA KeptFits ==
  ASSUME BurstOK, RowsOK', Grown(now, rounds, sets, now', rounds', sets'), req' = req
  PROVE  \A v \in Workers : Fits(req'[v], now', rounds', sets')
  <1>1. /\ now \in Nat /\ rounds \in Seq(Rounds) /\ sets \in Seq(TruthSets)
        /\ now' \in Nat /\ rounds' \in Seq(Rounds) /\ sets' \in Seq(TruthSets)
    BY DEF BurstOK, RowsOK, TypeOK
  <1> SUFFICES ASSUME NEW v \in Workers PROVE Fits(req[v], now', rounds', sets')
    OBVIOUS
  <1>2. Fits(req[v], now, rounds, sets)
    BY DEF BurstOK
  <1>3. FitsBusy(req[v], now', rounds', sets')
    BY <1>1, <1>2, FitsGrown DEF Fits
  <1>. QED
    BY <1>2, <1>3 DEF Fits

LEMMA ServeKeeps ==
  ASSUME BurstOK, NEW w \in Workers, Serve(w) \/ Abort(w), now' = now, postgres' = postgres,
         arrived' = arrived, overlapped' = overlapped
  PROVE  BurstOK'
  <1>1. Effect(w) /\ room'.status # "none" /\ req[w] # Idle
    <2>1. CASE Serve(w)
      BY <2>1, ServeEffect, RoomServed
    <2>2. CASE Abort(w)
      <3>1. req[w] # Idle /\ End(w) /\ RowsKept
        BY <2>2 DEF Abort
      <3>2. req[w].todo # <<>>
        BY <3>1 DEF BurstOK, Fits
      <3>. QED
        BY <3>1, <3>2, EndEffect, WorkerFound DEF RowsKept
    <2>. QED
      BY <2>1, <2>2
  <1>2. /\ RowsOK' /\ req' \in [Workers -> Requests]
        /\ \A v \in Workers : Fits(req'[v], now', rounds', sets')
        /\ \A v \in Workers : req'[v] # Idle => req[v] # Idle
    BY <1>1, EffectFits
  <1>. QED
    BY <1>1, <1>2 DEF BurstOK

LEMMA ReceiveKeeps ==
  ASSUME BurstOK, NEW w \in Workers, Receive(w), now' = now, postgres' = postgres,
         arrived' \in 0..MaxRequests, overlapped' \in BOOLEAN,
         arrived' = 0 => ~overlapped', ~overlapped' => Quiescent
  PROVE  BurstOK'
  <1>1. Effect(w) /\ room'.status # "none"
    BY ReceiveEffect DEF RowsKept
  <1>2. /\ RowsOK' /\ req' \in [Workers -> Requests]
        /\ \A v \in Workers : Fits(req'[v], now', rounds', sets')
        /\ \A v \in Workers : v = w \/ req'[v] = req[v]
    BY <1>1, EffectFits
  <1>3. ~overlapped' => \A v \in Workers : req'[v] # Idle => v = w
    BY <1>2 DEF Quiescent
  <1>. QED
    BY <1>1, <1>2, <1>3 DEF BurstOK

LEMMA PassingKeeps ==
  ASSUME BurstOK, Tick, postgres' = postgres, req' = req, tally' = tally,
         arrived' = arrived, overlapped' = overlapped
  PROVE  BurstOK'
  <1>1. now' = now + 1 /\ UNCHANGED <<room, user, rounds, sets, votes, score>>
    BY DEF Tick
  <1>2. now \in Nat /\ now' \in Nat /\ now <= now'
    BY <1>1, RowsFound DEF BurstOK
  <1>3. \A i \in DOMAIN rounds : rounds[i].pausedAt <= now'
    <2>1. \A i \in DOMAIN rounds : rounds[i] \in Rounds /\ rounds[i].pausedAt <= now
      BY RowsFound DEF BurstOK, RowsOK
    <2>. QED
      BY <1>1, <1>2, <2>1 DEF Rounds, NoTime
  <1>4. RowsOK'
    <2>1. TypeOK'
      BY <1>1, <1>2 DEF BurstOK, RowsOK, TypeOK
    <2>2. HostKnown' /\ RoundsLinked'
      BY <1>1 DEF BurstOK, RowsOK, HostKnown, RoundsLinked
    <2>. QED
      BY <1>1, <1>3, <2>1, <2>2 DEF BurstOK, RowsOK
  <1>5. Grown(now, rounds, sets, now', rounds', sets')
    <2>1. Len(rounds) \in Nat /\ Len(sets) \in Nat
      BY RowsFound DEF BurstOK
    <2>. QED
      BY <1>1, <1>2, <2>1 DEF Grown
  <1>6. \A v \in Workers : Fits(req'[v], now', rounds', sets')
    BY <1>4, <1>5, KeptFits
  <1>7. room'.status = room.status /\ (Quiescent' <=> Quiescent)
    BY <1>1 DEF Quiescent
  <1>. QED
    BY <1>4, <1>6, <1>7 DEF BurstOK

LEMMA RoomRequestKeeps ==
  ASSUME BurstOK, Quiescent, RoomRequest, tally' = Tallied, postgres' = postgres, req' = req,
         arrived' = arrived, overlapped' = overlapped
  PROVE  BurstOK'
  <1>1. RowsOK'
    BY RoomRequestHoused, HousedRows DEF BurstOK
  <1>2. /\ now' \in Nat /\ rounds' \in Seq(Rounds) /\ sets' \in Seq(TruthSets)
    BY <1>1 DEF RowsOK, TypeOK
  <1>3. \A v \in Workers : req'[v] = Idle
    BY DEF Quiescent
  <1>4. \A v \in Workers : Fits(req'[v], now', rounds', sets')
    BY <1>2, <1>3, IdleFits
  <1>. QED
    BY <1>1, <1>3, <1>4 DEF BurstOK, Quiescent

LEMMA KeptKeeps ==
  ASSUME BurstOK, UNCHANGED <<vars, req, tally, arrived, overlapped>>
  PROVE  BurstOK'
  <1>1. RowsOK'
    BY DEF BurstOK, RowsOK, TypeOK, HostKnown, RoundsLinked, vars
  <1>2. /\ now' = now /\ rounds' = rounds /\ sets' = sets /\ req' = req /\ room' = room
        /\ arrived' = arrived /\ overlapped' = overlapped
    BY DEF vars
  <1>. QED
    BY <1>1, <1>2 DEF BurstOK, Quiescent

LEMMA BurstInit ==
  ASSUME SInit
  PROVE  BurstOK
  <1>1. RowsOK
    <2>1. /\ postgres \in BOOLEAN /\ now = 0 /\ rounds = <<>> /\ sets = <<>> /\ votes = {}
          /\ tally = <<>> /\ score = [p \in Players |-> 0]
          /\ user = [p \in Players |-> "absent"]
          /\ room = [status |-> "none", hostID |-> NoPlayer, expiresAt |-> 0]
      BY DEF SInit, Init
    <2>2. room \in Rooms /\ room.status = "none"
      BY <2>1 DEF Rooms, RoomStatus
    <2>3. TypeOK
      BY <2>1, <2>2 DEF TypeOK
    <2>4. IsFiniteSet(votes)
      BY <2>1, FS_EmptySet
    <2>5. HostKnown /\ RoundsLinked
      BY <2>1, <2>2 DEF HostKnown, RoundsLinked
    <2>6. tally \in [DOMAIN sets -> [Players -> Nat]]
      BY <2>1
    <2>. QED
      BY <2>1, <2>2, <2>3, <2>4, <2>5, <2>6 DEF RowsOK
  <1>2. \A w \in Workers : req[w] = Idle
    BY DEF SInit
  <1>3. \A w \in Workers : Fits(req[w], now, rounds, sets)
    BY <1>1, <1>2, RowsFound, IdleFits
  <1>4. req \in [Workers -> Requests]
    BY IdleRequest DEF SInit
  <1>5. ~overlapped /\ overlapped \in BOOLEAN
    BY DEF SInit
  <1>6. arrived \in 0..MaxRequests
    <2>1. MaxRequests \in Nat /\ arrived = 0
      BY TLBurstAssumption DEF SInit
    <2>. QED
      BY <2>1
  <1>. QED
    BY <1>1, <1>2, <1>3, <1>4, <1>5, <1>6 DEF BurstOK, Quiescent

LEMMA BurstStep ==
  ASSUME BurstOK, [SNext]_svars
  PROVE  BurstOK'
  <1>1. CASE UNCHANGED svars
    BY <1>1, KeptKeeps DEF svars
  <1>2. CASE History /\ UNCHANGED postgres
    <2>1. arrived' = arrived /\ overlapped' = overlapped /\ arrived = 0 /\ ~overlapped
          /\ arrived \in 0..MaxRequests /\ overlapped \in BOOLEAN
      BY <1>2 DEF History, BurstOK
    <2>2. CASE Quiescent /\ RoomRequest /\ tally' = Tallied /\ UNCHANGED req
      BY <1>2, <2>1, <2>2, RoomRequestKeeps
    <2>3. CASE Quiescent /\ Tick /\ UNCHANGED <<req, tally>>
      BY <1>2, <2>1, <2>3, PassingKeeps
    <2>4. CASE \E w \in Workers : Quiescent /\ Receive(w) /\ UNCHANGED now
      BY <1>2, <2>1, <2>4, ReceiveKeeps
    <2>5. CASE \E w \in Workers : Serve(w) /\ UNCHANGED now
      BY <1>2, <2>1, <2>5, ServeKeeps
    <2>. QED
      BY <1>2, <2>2, <2>3, <2>4, <2>5 DEF History
  <1>3. CASE Burst /\ UNCHANGED postgres
    <2>1. CASE /\ arrived < MaxRequests /\ arrived' = arrived + 1
               /\ overlapped' = (overlapped \/ ~Quiescent)
               /\ \E w \in Workers : Receive(w)
               /\ UNCHANGED now
      <3>1. arrived' \in 0..MaxRequests /\ arrived' # 0
        BY <2>1, TLBurstAssumption DEF BurstOK
      <3>2. overlapped' \in BOOLEAN /\ (~overlapped' => Quiescent)
        BY <2>1
      <3>. QED
        BY <1>3, <2>1, <3>1, <3>2, ReceiveKeeps
    <2>2. CASE UNCHANGED <<arrived, overlapped>> /\ Tick /\ UNCHANGED <<req, tally>>
      BY <1>3, <2>2, PassingKeeps
    <2>3. CASE /\ UNCHANGED <<arrived, overlapped>>
               /\ \E w \in Workers : (Serve(w) \/ Abort(w)) /\ UNCHANGED now
      BY <1>3, <2>3, ServeKeeps
    <2>4. CASE UNCHANGED <<arrived, overlapped>> /\ UNCHANGED <<vars, req, tally>>
      BY <2>4, KeptKeeps
    <2>. QED
      BY <1>3, <2>1, <2>2, <2>3, <2>4 DEF Burst
  <1>. QED
    BY <1>1, <1>2, <1>3 DEF SNext

LEMMA BurstInvariance == SSpec => []BurstOK
  <1>1. SInit => BurstOK
    BY BurstInit
  <1>2. BurstOK /\ [SNext]_svars => BurstOK'
    BY BurstStep
  <1>. QED
    BY <1>1, <1>2, PTL DEF SSpec

\* The rows and copies of overlapping requests keep their types, nobody works
\* with a clock that is ahead, and a request ends with its calls: STypeOK of the
\* handlers and repositories of ThreeLiesSync.
THEOREM CopiesTyped == SSpec => []STypeOK
  <1>1. BurstOK => STypeOK
    BY DEF BurstOK, RowsOK, Fits, FitsBusy, RowFits, STypeOK
  <1>. QED
    BY <1>1, BurstInvariance, PTL

\* However the requests that end a round overlap, no round is opened beyond the
\* last one or before its predecessor: RoundsLinked, about the two writes of
\* advanceAfterCommentary.
THEOREM RoundsStayLinked == SSpec => []RoundsLinked
  <1>1. BurstOK => RoundsLinked
    BY DEF BurstOK, RowsOK
  <1>. QED
    BY <1>1, BurstInvariance, PTL

-----------------------------------------------------------------------------
(* A round that is over, and the request that goes on from it.             *)

\* The calls a turn leaves to a worker.
LEMMA TurnTodo ==
  ASSUME BurstOK, NEW w \in Workers, NEW r, Turn(w, r)
  PROVE  /\ req'[w].todo = r.todo
         /\ \A v \in Workers : v # w => req'[v] = req[v]
  BY IdleRequest DEF BurstOK, Turn

LEMMA BeforeTodo ==
  ASSUME BurstOK, NEW w \in Workers, NEW r \in Requests, NEW calls, Before(w, calls, r)
  PROVE  /\ req'[w].todo = calls \o Tail(r.todo)
         /\ \A v \in Workers : v # w => req'[v] = req[v]
  <1> DEFINE next == [r EXCEPT !.todo = calls \o Tail(@)]
  <1>1. next.todo = calls \o Tail(r.todo)
    BY DEF Requests
  <1>2. Turn(w, next)
    BY DEF Before
  <1>. HIDE DEF next
  <1>. QED
    BY <1>1, <1>2, TurnTodo

LEMMA ContinueTodo ==
  ASSUME BurstOK, NEW w \in Workers, req[w].todo # <<>>, Continue(w)
  PROVE  /\ req'[w].todo = Tail(req[w].todo)
         /\ \A v \in Workers : v # w => req'[v] = req[v]
  <1>1. req[w] \in Requests /\ req[w].todo \in Seq(CallRows)
    BY WorkerFound
  <1>2. req'[w].todo = <<>> \o Tail(req[w].todo) /\ \A v \in Workers : v # w => req'[v] = req[v]
    BY <1>1, BeforeTodo DEF Continue
  <1>3. Tail(req[w].todo) \in Seq(CallRows)
    BY <1>1, TailCalls
  <1>. QED
    BY <1>2, <1>3, EmptyFront

\* In memory a round that is over and still the last of a room that plays has
\* somebody about to open the next one or to finish the game.
ConcludedBy(w) == req[w].todo # <<>> /\ Concludes(Call(w))

LastOver == rounds[Len(rounds)].status = "finished"

Concluded ==
  ~postgres /\ room.status \in {"active", "paused"} /\ LastOver =>
    \E w \in Workers : ConcludedBy(w)

\* Nobody but the worker itself undoes that.
LEMMA ConclusionLasts ==
  ASSUME BurstOK, NEW w \in Workers, Serve(w), now' = now, postgres' = postgres,
         NEW v \in Workers, ConcludedBy(v), ~UpdateRoom(w), ~CreateRound(w)
  PROVE  ConcludedBy(v)'
  <1>1. v # w
    <2>1. ASSUME v = w PROVE FALSE
      <3>1. Head(req[w].todo).call \in {"createRound", "updateRoom"}
        BY <2>1 DEF ConcludedBy, Concludes, Call
      <3>. QED
        BY <3>1 DEF Serve, ReadRoom, ReadCurrent, ReadRoundRow, SyncRoom, Synchronise, ListSets, FirstSet,
             ReadActive, ListVotes, ListNext, UpdateRound, UpdateSet, CreateSet,
             Increment, WriteScore, Accept, ReadMine, LookUp, Upsert, Doing
    <2>. QED
      BY <2>1
  <1>2. req'[v] = req[v]
    BY <1>1, ServeEffect, EffectFits
  <1>. QED
    BY <1>2 DEF ConcludedBy, Call

LEMMA ServeConcluded ==
  ASSUME BurstOK, Concluded, NEW w \in Workers, Serve(w), now' = now, postgres' = postgres
  PROVE  Concluded'
  <1>1. CASE UpdateRoom(w)
    <2>1. req[w].todo # <<>> /\ Call(w).call = "updateRoom" /\ room \in Rooms
      BY <1>1, RowsFound DEF UpdateRoom, Doing, Call, BurstOK
    <2>2. Call(w).status \in {"expired", "finished"}
      BY <2>1, WorkerFound, CallFields
    <2>3. room'.status = Call(w).status
      BY <1>1, <2>1 DEF UpdateRoom, Rooms
    <2>. QED
      BY <2>2, <2>3 DEF Concluded
  <1>2. CASE CreateRound(w)
    <2>1. req[w].todo # <<>> /\ Call(w).call = "createRound" /\ rounds \in Seq(Rounds)
      BY <1>2, RowsFound DEF CreateRound, Doing, Call, BurstOK
    <2>2. Call(w).row \in Rounds /\ Call(w).row.status = "writing"
      BY <2>1, WorkerFound, CallFields DEF FitsCall
    <2>3. rounds' = Append(rounds, Call(w).row)
      BY <1>2 DEF CreateRound
    <2>4. rounds'[Len(rounds')] = Call(w).row
      BY <2>1, <2>2, <2>3, AppendRow
    <2>. QED
      BY <2>2, <2>4 DEF Concluded, LastOver
  <1>3. CASE UpdateRound(w)
    <2> DEFINE q == req[w].todo
               row == Call(w).row
               i == req[w].at
    <2>1. q # <<>> /\ Call(w).call = "updateRound" /\ rounds \in Seq(Rounds)
      BY <1>3, RowsFound DEF UpdateRound, Doing, Call, BurstOK
    <2>2. /\ row \in Rounds /\ i \in 1..Len(rounds) /\ q \in Seq(CallRows) /\ InLine(q)
          /\ Call(w) = q[1]
      BY <2>1, WorkerFound, CallFields DEF FitsCall, FitsBusy
    <2>3. rounds' = [rounds EXCEPT ![i] = row] /\ Continue(w) /\ room' = room
      BY <1>3 DEF UpdateRound
    <2>4. req'[w].todo = Tail(q)
      BY <2>1, <2>3, ContinueTodo
    <2>. HIDE DEF row, i
    <2>5. /\ Len(rounds') = Len(rounds) /\ rounds'[i] = row
          /\ \A j \in 1..Len(rounds) : j # i => rounds'[j] = rounds[j]
      BY <2>1, <2>2, <2>3, ReplaceRow
    <2>6. CASE row.status = "finished" /\ i = Len(rounds)
      <3>1. Ends(q[1])
        BY <2>1, <2>2, <2>6 DEF Ends, row
      <3>2. Len(q) # 1
        BY <2>1, <2>2, <3>1 DEF InLine
      <3>3. /\ Len(Tail(q)) = Len(q) - 1 /\ Len(q) \in Nat \ {0} /\ Tail(q) \in Seq(CallRows)
            /\ \A k \in 1..(Len(q) - 1) : Tail(q)[k] = q[k + 1]
        BY <2>1, <2>2, TailCalls
      <3>. HIDE DEF q
      <3>4. 1 \in 1..(Len(q) - 1)
        BY <3>2, <3>3
      <3>5. Concludes(q[1 + 1]) /\ Tail(q)[1] = q[1 + 1]
        BY <2>2, <3>1, <3>3, <3>4 DEF InLine, MayFollow
      <3>6. Tail(q) # <<>> /\ Head(Tail(q)) = Tail(q)[1]
        <4> DEFINE t == Tail(q)
        <4>1. t \in Seq(CallRows) /\ Len(t) # 0
          BY <3>3, <3>4
        <4>. HIDE DEF t
        <4>2. t # <<>>
          BY <4>1
        <4>3. Head(t) = t[1]
          BY <4>1, <4>2, TailCalls
        <4>. QED
          BY <4>2, <4>3 DEF t
      <3>. QED
        BY <2>4, <3>5, <3>6 DEF Concluded, ConcludedBy, Call
    <2>7. CASE row.status # "finished" /\ i = Len(rounds)
      BY <2>5, <2>7 DEF Concluded, LastOver
    <2>8. CASE i # Len(rounds)
      <3>1. LastOver' <=> LastOver
        <4>1. Len(rounds) \in 1..Len(rounds)
          BY <2>1, <2>2
        <4>. QED
          BY <2>5, <2>8, <4>1 DEF LastOver
      <3>2. \A v \in Workers : ConcludedBy(v) => ConcludedBy(v)'
        <4>1. ~UpdateRoom(w) /\ ~CreateRound(w)
          BY <2>1 DEF UpdateRoom, CreateRound, Doing, Call
        <4>. QED
          BY <4>1, ConclusionLasts
      <3>. QED
        BY <2>3, <3>1, <3>2 DEF Concluded
    <2>. QED
      BY <2>6, <2>7, <2>8
  <1>4. CASE ~UpdateRoom(w) /\ ~CreateRound(w) /\ ~UpdateRound(w)
    <2>1. room' = room /\ rounds' = rounds
      BY <1>4 DEF Serve, ReadRoom, ReadCurrent, ReadRoundRow, SyncRoom, Synchronise, ListSets, FirstSet,
           ReadActive, ListVotes, ListNext, UpdateSet, CreateSet,
           Increment, WriteScore, Accept, ReadMine, LookUp, Upsert, RowsKept
    <2>2. \A v \in Workers : ConcludedBy(v) => ConcludedBy(v)'
      BY <1>4, ConclusionLasts
    <2>. QED
      BY <2>1, <2>2 DEF Concluded, LastOver
  <1>. QED
    BY <1>1, <1>2, <1>3, <1>4

LEMMA QuietConcluded ==
  ASSUME BurstOK, Concluded, Quiescent, ~postgres
  PROVE  GoesOn(game)
  <1>1. \A w \in Workers : ~ConcludedBy(w)
    BY IdleRequest DEF Quiescent, ConcludedBy
  <1>2. GoesOn(game)
    BY <1>1 DEF Concluded, LastOver, GoesOn, game
  <1>. QED
    BY <1>2

LEMMA ConcludedStep ==
  ASSUME BurstOK, Concluded, [SNext]_svars
  PROVE  Concluded'
  <1>1. ASSUME room' = room, rounds' = rounds, postgres' = postgres,
               \A w \in Workers : ConcludedBy(w) => ConcludedBy(w)'
        PROVE  Concluded'
    BY <1>1 DEF Concluded, LastOver
  <1>2. CASE UNCHANGED <<room, rounds, postgres, req>>
    BY <1>1, <1>2 DEF ConcludedBy, Call
  <1>3. CASE /\ Quiescent /\ RoomRequest /\ tally' = Tallied /\ UNCHANGED req
             /\ UNCHANGED postgres
    <2>1. PICK h : Housed(h)
      BY <1>3, RoomRequestHoused DEF BurstOK
    <2>2. room' = h.room /\ rounds' = h.rounds /\ (GoesOn(game) => GoesOn(h))
      BY <2>1 DEF Housed, Commit, Answers
    <2>. QED
      BY <1>3, <2>2, QuietConcluded DEF Concluded, LastOver, GoesOn
  <1>4. ASSUME NEW w \in Workers, Receive(w), UNCHANGED now, UNCHANGED postgres
        PROVE  Concluded'
    <2>1. /\ Effect(w) /\ req[w] = Idle /\ room' = room /\ rounds' = rounds
      BY <1>4, ReceiveEffect DEF RowsKept
    <2>2. \A v \in Workers : v = w \/ req'[v] = req[v]
      BY <2>1, EffectFits
    <2>3. \A v \in Workers : ConcludedBy(v) => ConcludedBy(v)'
      BY <2>1, <2>2, IdleRequest DEF ConcludedBy, Call
    <2>. QED
      BY <1>1, <1>4, <2>1, <2>3
  <1>5. ASSUME NEW w \in Workers, Serve(w), UNCHANGED now, UNCHANGED postgres
        PROVE  Concluded'
    BY <1>5, ServeConcluded
  <1>6. ASSUME NEW w \in Workers, Abort(w), UNCHANGED postgres
        PROVE  Concluded'
    BY <1>6 DEF Abort, Concluded
  <1>7. CASE Tick /\ UNCHANGED <<req, tally>> /\ UNCHANGED postgres
    BY <1>2, <1>7 DEF Tick
  <1>8. CASE UNCHANGED svars \/ UNCHANGED <<vars, req, tally>>
    BY <1>2, <1>8 DEF svars, vars
  <1>. QED
    BY <1>3, <1>4, <1>5, <1>6, <1>7, <1>8 DEF SNext, History, Burst

\* Requests that end a round together never leave an active room, in memory,
\* with a round that is over: GameGoesOn, about the writes of
\* advanceAfterCommentary and whoever reads between them.
THEOREM GameAlwaysGoesOn == SSpec => []GameGoesOn
  <1>1. SInit => Concluded
    BY DEF SInit, Init, Concluded
  <1>2. BurstOK /\ Concluded /\ [SNext]_svars => Concluded'
    BY ConcludedStep
  <1>3. BurstOK /\ Concluded => GameGoesOn
    <2> SUFFICES ASSUME BurstOK, Concluded, ~postgres, Quiescent, room.status = "active"
                 PROVE  rounds[Latest].status # "finished"
      BY DEF GameGoesOn
    <2>1. GoesOn(game)
      BY QuietConcluded
    <2>. QED
      BY <2>1 DEF GoesOn, game, Latest
  <1>. QED
    BY <1>1, <1>2, <1>3, BurstInvariance, PTL DEF SSpec
==============================================================================
