---------------------- MODULE ClassicConcurrentProofs ----------------------
(***************************************************************************)
(* What holds however the requests of ClassicConcurrent overlap, for any   *)
(* number of players, workers, rounds and requests.                        *)
(*                                                                         *)
(* Before the burst the invariant is that of ClassicRoom.  In the burst it *)
(* is a statement about each request in flight: what the request has still *)
(* to do agrees with the copies it holds, and the copies with the rows in  *)
(* all that no other request can take away from under it.  Most calls only *)
(* read, and the rest write one row, so four lemmas carry all of them.     *)
(*                                                                         *)
(* The second half is about ClassicSerial: one request at a time, the same *)
(* handlers do what ClassicRoom does in one step.                          *)
(***************************************************************************)
EXTENDS ClassicSerial, ClassicRoomProofs

-----------------------------------------------------------------------------
(* The invariant.                                                          *)

\* Calls that work on the copy of a round read as that of index at.
OnRow == {"syncRoom", "syncWrite", "resume", "mark", "step"}

Begun(status) == status \in {"active", "paused"}

\* Rounds are known to the request: its index is a round's, and its copy has
\* the number of that round, which no update changes; a round still to be stored
\* has the number after it.
FitsRounds(r, rs) ==
  /\ r.pc = "setActive" \/ Begun(r.room.status) => rs # <<>>
  /\ r.op \in RoundOps \/ r.pc \in OnRow \/ r.pc = "openNext" => r.at \in DOMAIN rs
  /\ r.pc \in OnRow => r.round.number = rs[r.at].number
  /\ r.pc = "openNext" => /\ r.round.number = rs[r.at].number + 1
                          /\ r.round.number <= MaxRounds

\* So are the stories.
FitsStories(r, ss) ==
  /\ r.op = "vote" \/ r.pc = "markWinner" => r.story \in DOMAIN ss
  /\ r.pc = "listVotes" => \E s \in DOMAIN ss : ss[s].round = r.at /\ s <= r.story

\* A request makes the calls of its own operation only.
FitsOperation(r) ==
  /\ r.op \in {"join", "leave", "story", "vote"} => r.who \in Players
  /\ r.pc = "readRoom" => r.op \in HostOps \cup {"get", "join", "leave"}
  /\ r.pc = "authenticate" => r.op \in HostOps \cup {"leave", "story", "vote"}
  /\ r.pc \in {"countUsers", "createUser"} => r.op = "join"
  /\ r.pc = "deleteUser" => r.op = "leave"
  /\ r.pc \in {"checkStory", "insertStory"} => r.op = "story"
  /\ r.pc \in {"checkVote", "insertVote"} => r.op = "vote"
  /\ r.pc \in {"listStories", "listVotes", "markWinner"} => r.op = "top"
  /\ r.pc = "readRound" => r.op \in RoundOps
  /\ r.pc = "reread" => r.then \in {"step", "resume", "mark"}
  /\ r.pc \in {"toggle", "mark"} => Begun(r.room.status)
  /\ r.pc = "reread" /\ r.then = "mark" => Begun(r.room.status)

Fits(r, time, rs, ss) ==
  /\ r \in Requests
  /\ r.pc = "idle" <=> r = Idle
  /\ r.round.pausedAt <= time
  /\ FitsRounds(r, rs)
  /\ FitsStories(r, ss)
  /\ FitsOperation(r)

FlightInv ==
  /\ TypeOK /\ RoundsChain
  /\ arrived \in 0..MaxRequests
  /\ req \in [Workers -> Requests]
  /\ \A w \in Workers : Fits(req[w], now, rounds, stories)

\* Before the burst there is more: that of ClassicRoom.
CInv == FlightInv /\ (arrived = 0 => BallotInv /\ Quiescent)

LEMMA BurstInFlight == CInv => FlightInv
  BY DEF CInv

\* Time goes on, rows are added, and those there are keep their place: a round
\* its number, a story its round.
Grown(time, rs, ss, time2, rs2, ss2) ==
  /\ time <= time2
  /\ \A i \in DOMAIN rs : i \in DOMAIN rs2 /\ rs2[i].number = rs[i].number
  /\ \A s \in DOMAIN ss : s \in DOMAIN ss2 /\ ss2[s].round = ss[s].round

\* What a call of worker w does.
Effect(w) ==
  /\ TypeOK' /\ RoundsChain'
  /\ Grown(now, rounds, stories, now', rounds', stories')
  /\ req' = [req EXCEPT ![w] = req'[w]]
  /\ Fits(req'[w], now', rounds', stories')

-----------------------------------------------------------------------------
(* Requests.                                                               *)

LEMMA RequestFields ==
  ASSUME NEW r \in Requests
  PROVE  /\ r.op \in AllOps \cup {"none"} /\ r.pc \in Calls \cup {"idle"} /\ r.then \in Thens
         /\ r.who \in Players \cup {NoPlayer} /\ r.at \in Nat /\ r.story \in Nat
         /\ r.room \in Rooms /\ r.round \in Rounds
  BY DEF Requests

LEMMA IdleFits ==
  ASSUME NEW time \in Nat, NEW rs, NEW ss
  PROVE  Fits(Idle, time, rs, ss)
  <1>1. NoRoom \in Rooms /\ NoRow \in Rounds
    BY DEF NoRoom, NoRow, Rooms, Rounds, RoomStatus, RoundStatus
  <1>2. Idle \in Requests
    BY <1>1 DEF Idle, Requests, Thens
  <1>. QED
    BY <1>2 DEF Fits, FitsRounds, FitsStories, FitsOperation, Idle, NoRoom, NoRow, OnRow,
       Begun, RoundOps, NoTime

LEMMA FitsGrown ==
  ASSUME NEW r, NEW time \in Nat, NEW rs, NEW ss, NEW time2 \in Nat, NEW rs2, NEW ss2,
         rs # <<>> => rs2 # <<>>,
         Fits(r, time, rs, ss), Grown(time, rs, ss, time2, rs2, ss2)
  PROVE  Fits(r, time2, rs2, ss2)
  <1>1. r.round.pausedAt <= time2
    <2>1. r.round \in Rounds
      BY RequestFields DEF Fits
    <2>. QED
      BY <2>1 DEF Fits, Grown, Rounds, NoTime
  <1>2. FitsRounds(r, rs2)
    BY DEF Fits, FitsRounds, Grown
  <1>3. FitsStories(r, ss2)
    BY DEF Fits, FitsStories, Grown
  <1>. QED
    BY <1>1, <1>2, <1>3 DEF Fits

\* A request that goes on to its next call with what it has.
LEMMA OnToCall ==
  ASSUME NEW r, NEW time, NEW rs, NEW ss, Fits(r, time, rs, ss),
         NEW pc \in Calls
  PROVE  LET next == [r EXCEPT !.pc = pc]
         IN  FitsRounds(next, rs) /\ FitsStories(next, ss) /\ FitsOperation(next)
               => Fits(next, time, rs, ss)
  <1> DEFINE next == [r EXCEPT !.pc = pc]
  <1>1. next \in Requests /\ next.round = r.round /\ next.pc = pc
    BY DEF Fits, Requests
  <1>2. next.pc # "idle" /\ Idle.pc = "idle"
    BY <1>1 DEF Calls, Idle
  <1>. QED
    BY <1>1, <1>2 DEF Fits

-----------------------------------------------------------------------------
(* The four ways a call changes the rows.                                  *)

LEMMA CallReads ==
  ASSUME FlightInv, NEW w \in Workers, now' = now, JustRead, NEW r, Go(w, r),
         Fits(r, now, rounds, stories)
  PROVE  Effect(w)
  <1>1. TypeOK' /\ RoundsChain'
    BY DEF FlightInv, JustRead, TypeOK, RoundsChain
  <1>2. req' = [req EXCEPT ![w] = r] /\ req'[w] = r
    BY DEF Go, FlightInv
  <1>. QED
    BY <1>1, <1>2 DEF FlightInv, TypeOK, JustRead, Effect, Grown

LEMMA CallUpdatesRoom ==
  ASSUME FlightInv, NEW w \in Workers, now' = now, NEW row \in Rooms, UpdateRoom(row),
         Begun(row.status) => rounds # <<>>,
         NEW r, Go(w, r), Fits(r, now, rounds, stories)
  PROVE  Effect(w)
  <1>1. TypeOK' /\ RoundsChain'
    BY DEF FlightInv, UpdateRoom, TypeOK, RoundsChain, Begun
  <1>2. req' = [req EXCEPT ![w] = r] /\ req'[w] = r
    BY DEF Go, FlightInv
  <1>. QED
    BY <1>1, <1>2 DEF FlightInv, TypeOK, UpdateRoom, Effect, Grown

LEMMA CallUpdatesRound ==
  ASSUME FlightInv, NEW w \in Workers, now' = now, NEW i \in DOMAIN rounds, NEW row \in Rounds,
         UpdateRound(i, row), row.pausedAt <= now, row.number = rounds[i].number,
         NEW r, Go(w, r), Fits(r, now, rounds, stories)
  PROVE  Effect(w)
  <1>1. /\ rounds \in Seq(Rounds) /\ DOMAIN rounds = 1..Len(rounds) /\ Len(rounds) \in Nat
        /\ now \in Nat
    BY DEF FlightInv, TypeOK
  <1>2. rounds' \in Seq(Rounds) /\ DOMAIN rounds' = DOMAIN rounds
    BY <1>1, ReplaceRow DEF UpdateRound
  <1>3. \A j \in DOMAIN rounds : rounds'[j] = IF j = i THEN row ELSE rounds[j]
    BY DEF UpdateRound
  <1>4. \A j \in DOMAIN rounds : rounds'[j].number = rounds[j].number
    BY <1>3
  <1>5. TypeOK'
    BY <1>2, <1>3 DEF FlightInv, UpdateRound, TypeOK
  <1>6. RoundsChain'
    <2>1. rounds # <<>> => rounds' # <<>>
      BY <1>1, <1>2
    <2>2. \A j \in DOMAIN rounds' :
            /\ rounds'[j].number <= MaxRounds
            /\ rounds'[j].number > 1 => \E k \in 1..(j - 1) : rounds'[k].number = rounds'[j].number - 1
      <3> SUFFICES ASSUME NEW j \in DOMAIN rounds
                   PROVE  /\ rounds'[j].number <= MaxRounds
                          /\ rounds'[j].number > 1 =>
                               \E k \in 1..(j - 1) : rounds'[k].number = rounds'[j].number - 1
        BY <1>2
      <3>1. \A k \in 1..(j - 1) : k \in DOMAIN rounds
        BY <1>1
      <3>. QED
        BY <1>4, <3>1 DEF FlightInv, RoundsChain
    <2>. QED
      BY <2>1, <2>2 DEF FlightInv, RoundsChain, UpdateRound
  <1>7. req' = [req EXCEPT ![w] = r] /\ req'[w] = r
    BY DEF Go, FlightInv
  <1>8. Grown(now, rounds, stories, now', rounds', stories')
    BY <1>1, <1>2, <1>4 DEF UpdateRound, Grown
  <1>9. Fits(r, now', rounds', stories')
    <2>1. rounds # <<>> => rounds' # <<>>
      BY <1>1, <1>2
    <2>. QED
      BY <1>1, <1>8, <2>1, FitsGrown
  <1>. QED
    BY <1>5, <1>6, <1>7, <1>8, <1>9 DEF Effect

\* The new round follows one that is there, or is the first.
LEMMA CallCreatesRound ==
  ASSUME FlightInv, NEW w \in Workers, now' = now, NEW row \in Rounds, CreateRound(row),
         row.pausedAt <= now, row.number <= MaxRounds,
         row.number > 1 => \E j \in DOMAIN rounds : rounds[j].number = row.number - 1,
         NEW r, Go(w, r), Fits(r, now, rounds', stories)
  PROVE  Effect(w)
  <1> DEFINE n == Len(rounds)
  <1>1. /\ rounds \in Seq(Rounds) /\ DOMAIN rounds = 1..n /\ n \in Nat /\ now \in Nat
    BY DEF FlightInv, TypeOK
  <1>2. /\ rounds' \in Seq(Rounds) /\ DOMAIN rounds' = 1..(n + 1)
        /\ rounds'[n + 1] = row /\ \A j \in 1..n : rounds'[j] = rounds[j]
    BY <1>1, AppendRow DEF CreateRound
  <1>3. TypeOK'
    BY <1>1, <1>2 DEF FlightInv, CreateRound, TypeOK
  <1>4. RoundsChain'
    <2>1. rounds' # <<>>
      BY <1>1, <1>2
    <2>2. ASSUME NEW j \in 1..(n + 1)
          PROVE  /\ rounds'[j].number <= MaxRounds
                 /\ rounds'[j].number > 1 =>
                      \E k \in 1..(j - 1) : rounds'[k].number = rounds'[j].number - 1
      <3>1. CASE j \in 1..n
        <4>1. \A k \in 1..(j - 1) : k \in 1..n
          BY <1>1, <3>1
        <4>. QED
          BY <1>1, <1>2, <3>1, <4>1 DEF FlightInv, RoundsChain
      <3>2. CASE j = n + 1
        <4>1. j - 1 = n
          BY <1>1, <3>2
        <4>. QED
          BY <1>1, <1>2, <3>2, <4>1
      <3>. QED
        BY <1>1, <3>1, <3>2
    <2>. QED
      BY <1>2, <2>1, <2>2 DEF RoundsChain
  <1>5. req' = [req EXCEPT ![w] = r] /\ req'[w] = r
    BY DEF Go, FlightInv
  <1>6. stories' = stories
    BY DEF CreateRound
  <1>. QED
    <2>1. Grown(now, rounds, stories, now', rounds', stories')
      BY <1>1, <1>2, <1>6 DEF Grown
    <2>. QED
      BY <1>3, <1>4, <1>5, <1>6, <2>1 DEF Effect

-----------------------------------------------------------------------------
(* What a request turns into.                                              *)

LEMMA BuildFits ==
  ASSUME NEW r, NEW time \in Nat, NEW rs, NEW ss, Fits(r, time, rs, ss)
  PROVE  Fits([r EXCEPT !.pc = "listUsers", !.room = NoRoom, !.round = NoRow], time, rs, ss)
  <1> DEFINE next == [r EXCEPT !.pc = "listUsers", !.room = NoRoom, !.round = NoRow]
  <1>1. r \in Requests /\ NoRoom \in Rooms /\ NoRow \in Rounds
    BY DEF Fits, NoRoom, NoRow, Rooms, Rounds, RoomStatus, RoundStatus
  <1>2. /\ next \in Requests /\ next.pc = "listUsers" /\ next.room = NoRoom /\ next.round = NoRow
        /\ next.op = r.op /\ next.who = r.who /\ next.at = r.at /\ next.story = r.story
    BY <1>1 DEF Requests, Calls
  <1> HIDE DEF next
  <1>3. FitsRounds(next, rs)
    BY <1>2 DEF Fits, FitsRounds, OnRow, Begun, NoRoom
  <1>4. FitsStories(next, ss) /\ FitsOperation(next)
    BY <1>2 DEF Fits, FitsStories, FitsOperation
  <1>5. next # Idle /\ next.pc # "idle" /\ next.round.pausedAt <= time
    BY <1>2 DEF Idle, NoRow, NoTime
  <1>6. Fits(next, time, rs, ss)
    BY <1>2, <1>3, <1>4, <1>5 DEF Fits
  <1>. QED
    BY <1>6 DEF next

LEMMA SyncFits ==
  ASSUME NEW r, NEW time \in Nat, NEW rs, NEW ss, Fits(r, time, rs, ss), NEW then \in Thens
  PROVE  Fits([r EXCEPT !.pc = "readCurrent", !.then = then], time, rs, ss)
  <1> DEFINE next == [r EXCEPT !.pc = "readCurrent", !.then = then]
  <1>1. r \in Requests
    BY DEF Fits
  <1>2. /\ next \in Requests /\ next.pc = "readCurrent" /\ next.room = r.room
        /\ next.round = r.round /\ next.op = r.op /\ next.who = r.who /\ next.at = r.at
        /\ next.story = r.story
    BY <1>1 DEF Requests, Calls
  <1> HIDE DEF next
  <1>3. FitsRounds(next, rs)
    BY <1>2 DEF Fits, FitsRounds, OnRow
  <1>4. FitsStories(next, ss) /\ FitsOperation(next)
    BY <1>2 DEF Fits, FitsStories, FitsOperation
  <1>5. next # Idle /\ next.pc # "idle" /\ next.round.pausedAt <= time
    BY <1>2 DEF Idle, Fits
  <1>6. Fits(next, time, rs, ss)
    BY <1>2, <1>3, <1>4, <1>5 DEF Fits
  <1>. QED
    BY <1>6 DEF next

LEMMA RereadFits ==
  ASSUME NEW r, NEW time \in Nat, NEW rs, NEW ss, Fits(r, time, rs, ss),
         NEW then \in {"step", "resume"}
  PROVE  Fits([r EXCEPT !.pc = "reread", !.then = then], time, rs, ss)
  <1> DEFINE next == [r EXCEPT !.pc = "reread", !.then = then]
  <1>1. r \in Requests
    BY DEF Fits
  <1>2. /\ next \in Requests /\ next.pc = "reread" /\ next.then = then /\ next.room = r.room
        /\ next.round = r.round /\ next.op = r.op /\ next.who = r.who /\ next.at = r.at
        /\ next.story = r.story
    BY <1>1 DEF Requests, Calls, Thens
  <1> HIDE DEF next
  <1>3. FitsRounds(next, rs)
    BY <1>2 DEF Fits, FitsRounds, OnRow
  <1>4. FitsStories(next, ss) /\ FitsOperation(next)
    BY <1>2 DEF Fits, FitsStories, FitsOperation
  <1>5. next # Idle /\ next.pc # "idle" /\ next.round.pausedAt <= time
    BY <1>2 DEF Idle, Fits
  <1>6. Fits(next, time, rs, ss)
    BY <1>2, <1>3, <1>4, <1>5 DEF Fits
  <1>. QED
    BY <1>6 DEF next

\* The request takes a copy of a round and its index along to its next call.
LEMMA CopyFits ==
  ASSUME NEW r, NEW time \in Nat, NEW rs, NEW ss, Fits(r, time, rs, ss),
         NEW i \in DOMAIN rs, i \in Nat, NEW row \in Rounds,
         row.number = rs[i].number, row.pausedAt <= time,
         NEW pc \in {"syncRoom", "step", "resume", "mark"},
         pc = "mark" => Begun(r.room.status)
  PROVE  Fits([r EXCEPT !.pc = pc, !.at = i, !.round = row], time, rs, ss)
  <1> DEFINE next == [r EXCEPT !.pc = pc, !.at = i, !.round = row]
  <1>1. r \in Requests
    BY DEF Fits
  <1>2. /\ next \in Requests /\ next.pc = pc /\ next.room = r.room /\ next.round = row
        /\ next.op = r.op /\ next.who = r.who /\ next.at = i /\ next.story = r.story
    BY <1>1 DEF Requests, Calls
  <1> HIDE DEF next
  <1>3. FitsRounds(next, rs)
    BY <1>2 DEF Fits, FitsRounds, OnRow
  <1>4. FitsStories(next, ss) /\ FitsOperation(next)
    BY <1>2 DEF Fits, FitsStories, FitsOperation
  <1>5. next # Idle /\ next.pc # "idle" /\ next.round.pausedAt <= time
    BY <1>2 DEF Idle, Fits
  <1>6. Fits(next, time, rs, ss)
    BY <1>2, <1>3, <1>4, <1>5 DEF Fits
  <1>. QED
    BY <1>6 DEF next

\* What every worker brings to its call.
LEMMA InFlight ==
  ASSUME FlightInv, NEW w \in Workers
  PROVE  /\ now \in Nat /\ Fits(req[w], now, rounds, stories) /\ req[w] \in Requests
         /\ room \in Rooms
         /\ rounds \in Seq(Rounds) /\ DOMAIN rounds = 1..Len(rounds) /\ Len(rounds) \in Nat
         /\ \A i \in DOMAIN rounds : rounds[i] \in Rounds /\ rounds[i].pausedAt <= now
         /\ \A i \in DOMAIN rounds : i \in Nat
         /\ stories \in Seq(Stories) /\ DOMAIN stories = 1..Len(stories) /\ Len(stories) \in Nat
         /\ votes \in Seq(Votes)
         /\ user \in [Players -> {"absent", "member", "gone"}]
  <1>1. TypeOK /\ Fits(req[w], now, rounds, stories) /\ req[w] \in Requests
    BY DEF FlightInv
  <1>2. /\ rounds \in Seq(Rounds) /\ DOMAIN rounds = 1..Len(rounds) /\ Len(rounds) \in Nat
        /\ stories \in Seq(Stories) /\ DOMAIN stories = 1..Len(stories) /\ Len(stories) \in Nat
    BY <1>1 DEF TypeOK
  <1>3. \A i \in DOMAIN rounds : rounds[i] \in Rounds /\ rounds[i].pausedAt <= now /\ i \in Nat
    BY <1>1, <1>2 DEF TypeOK
  <1>. QED
    BY <1>1, <1>2, <1>3 DEF TypeOK

LEMMA CallEnds ==
  ASSUME FlightInv, NEW w \in Workers, now' = now, JustRead, Finish(w)
  PROVE  Effect(w)
  BY InFlight, IdleFits, CallReads DEF Finish

LEMMA CallSyncs ==
  ASSUME FlightInv, NEW w \in Workers, now' = now, JustRead, NEW then \in Thens, Sync(w, then)
  PROVE  Effect(w)
  BY InFlight, SyncFits, CallReads DEF Sync

LEMMA CallBuilds ==
  ASSUME FlightInv, NEW w \in Workers, now' = now, JustRead, Build(w)
  PROVE  Effect(w)
  BY InFlight, BuildFits, CallReads DEF Build

LEMMA CallGoesOn ==
  ASSUME FlightInv, NEW w \in Workers, now' = now, JustRead, NEW pc \in Calls, Call(w, pc),
         NEW next, next = [req[w] EXCEPT !.pc = pc],
         FitsRounds(next, rounds), FitsStories(next, stories), FitsOperation(next)
  PROVE  Effect(w)
  BY InFlight, OnToCall, CallReads DEF Call

-----------------------------------------------------------------------------
(* The calls that many operations share.                                   *)

LEMMA ArriveEffect ==
  ASSUME FlightInv, NEW w \in Workers, now' = now, Receive(w)
  PROVE  Effect(w)
  <1>1. PICK op \in Ops, p \in Players \cup {NoPlayer}, i \in 0..Len(rounds),
             s \in 0..Len(stories) : Arrive(w, op, p, i, s)
    BY DEF Receive
  <1> DEFINE pc   == IF op \in RoundOps THEN "readRound" ELSE "readRoom"
             next == [Idle EXCEPT !.op = op, !.who = p, !.at = i, !.story = s, !.pc = pc]
  <1>2. Go(w, next) /\ JustRead
    BY <1>1 DEF Arrive
  <1>3. /\ NoRoom \in Rooms /\ NoRow \in Rounds /\ op \in AllOps /\ i \in Nat /\ s \in Nat
        /\ pc \in Calls
    BY <1>1, InFlight, BurstAssumption
    DEF NoRoom, NoRow, Rooms, Rounds, RoomStatus, RoundStatus, Calls
  <1>4. /\ next \in Requests /\ next.pc = pc /\ next.op = op /\ next.who = p /\ next.at = i
        /\ next.story = s /\ next.room = NoRoom /\ next.round = NoRow
    BY <1>3 DEF Idle, Requests, Thens
  <1>5. /\ op \in {"join", "leave", "story", "vote"} => p \in Players
        /\ op \in RoundOps => i \in DOMAIN rounds
        /\ op = "vote" => s \in DOMAIN stories
    <2>1. op \in HostOps \cup {"join", "leave", "story", "vote", "get", "read", "top"}
      BY <1>3 DEF AllOps, RoundOps
    <2>2. op \in {"join", "leave", "story", "vote"} => p \in Players
      BY <1>1 DEF Arrive, HostOps, Outsiders
    <2>. QED
      BY <1>1, <2>2 DEF Arrive
  <1>6. pc = IF op \in RoundOps THEN "readRound" ELSE "readRoom"
    OBVIOUS
  <1> HIDE DEF next, pc
  <1>7. FitsRounds(next, rounds)
    BY <1>4, <1>5, <1>6 DEF FitsRounds, OnRow, Begun, NoRoom
  <1>8. FitsStories(next, stories)
    BY <1>4, <1>5, <1>6 DEF FitsStories
  <1>9. FitsOperation(next)
    BY <1>3, <1>4, <1>5, <1>6 DEF FitsOperation, AllOps, RoundOps
  <1>10. next.pc # "idle" /\ next # Idle /\ next.round.pausedAt <= now
    BY <1>4, <1>6, InFlight DEF Idle, NoRow, NoTime
  <1>11. Fits(next, now, rounds, stories)
    BY <1>4, <1>7, <1>8, <1>9, <1>10 DEF Fits
  <1>. QED
    BY <1>2, <1>11, CallReads

LEMMA ReadRoomEffect ==
  ASSUME FlightInv, NEW w \in Workers, now' = now, ReadRoom(w)
  PROVE  Effect(w)
  <1> DEFINE r    == req[w]
             pc   == IF r.op \in {"get", "join"} THEN "available" ELSE "authenticate"
             next == [r EXCEPT !.room = room, !.pc = pc]
  <1>1. Go(w, next) /\ JustRead /\ r.pc = "readRoom"
    BY DEF ReadRoom, At
  <1>2. r \in Requests /\ room \in Rooms /\ Fits(r, now, rounds, stories)
    BY InFlight
  <1>3. pc \in {"available", "authenticate"}
    OBVIOUS
  <1>4. pc = "authenticate" => r.op \in HostOps \cup {"leave", "story", "vote"}
    BY <1>1, <1>2 DEF Fits, FitsOperation
  <1> HIDE DEF pc
  <1>5. /\ next \in Requests /\ next.pc = pc /\ next.op = r.op /\ next.who = r.who
        /\ next.at = r.at /\ next.story = r.story /\ next.room = room /\ next.round = r.round
    BY <1>2, <1>3 DEF Requests, Calls
  <1> HIDE DEF next
  <1>6. FitsRounds(next, rounds)
    BY <1>2, <1>3, <1>5 DEF Fits, FitsRounds, OnRow, FlightInv, RoundsChain, Begun
  <1>7. FitsStories(next, stories)
    BY <1>2, <1>3, <1>5 DEF Fits, FitsStories
  <1>8. FitsOperation(next)
    BY <1>2, <1>3, <1>4, <1>5 DEF Fits, FitsOperation
  <1>9. next.pc # "idle" /\ next # Idle /\ next.round.pausedAt <= now
    BY <1>2, <1>3, <1>5 DEF Fits, Idle
  <1>10. Fits(next, now, rounds, stories)
    BY <1>5, <1>6, <1>7, <1>8, <1>9 DEF Fits
  <1>. QED
    BY <1>1, <1>10, CallReads

\* Most calls only decide which one is next.
LEMMA NextCallEffect ==
  ASSUME FlightInv, NEW w \in Workers, now' = now, JustRead, NEW pc, Call(w, pc),
         \/ pc = "deleteUser" /\ req[w].op = "leave"
         \/ pc \in {"checkStory", "insertStory"} /\ req[w].op = "story"
         \/ pc \in {"checkVote", "insertVote"} /\ req[w].op = "vote"
         \/ pc \in {"countUsers", "createUser"} /\ req[w].op = "join"
         \/ pc \in {"available", "openFirst", "countLeft", "close"}
         \/ pc = "toggle" /\ Begun(req[w].room.status)
         \/ pc = "reread" /\ req[w].then = "step"
  PROVE  Effect(w)
  <1> DEFINE r    == req[w]
             next == [r EXCEPT !.pc = pc]
  <1>1. r \in Requests /\ Fits(r, now, rounds, stories)
    BY InFlight
  <1>2. pc \in Calls
    BY DEF Calls
  <1>3. /\ next.pc = pc /\ next.op = r.op /\ next.who = r.who /\ next.at = r.at
        /\ next.story = r.story /\ next.room = r.room /\ next.round = r.round
        /\ next.then = r.then
    BY <1>1 DEF Requests
  <1>4. FitsRounds(next, rounds)
    BY <1>1, <1>3 DEF Fits, FitsRounds, OnRow
  <1>5. FitsStories(next, stories)
    BY <1>1, <1>3 DEF Fits, FitsStories
  <1>6. FitsOperation(next)
    BY <1>1, <1>3 DEF Fits, FitsOperation
  <1> HIDE DEF next
  <1>. QED
    BY <1>2, <1>4, <1>5, <1>6, CallGoesOn DEF next

LEMMA AuthenticateEffect ==
  ASSUME FlightInv, NEW w \in Workers, now' = now, Authenticate(w)
  PROVE  Effect(w)
  <1>1. JustRead /\ req[w].pc = "authenticate"
    BY DEF Authenticate, At
  <1>2. req[w].op \in HostOps \cup {"leave", "story", "vote"}
    BY <1>1, InFlight DEF Fits, FitsOperation
  <1>3. CASE Finish(w)
    BY <1>1, <1>3, CallEnds
  <1>4. CASE req[w].op = "leave" /\ Call(w, "deleteUser")
    BY <1>1, <1>4, NextCallEffect
  <1>5. CASE req[w].op = "story" /\ Call(w, "checkStory")
    BY <1>1, <1>5, NextCallEffect
  <1>6. CASE req[w].op = "vote" /\ Call(w, "checkVote")
    BY <1>1, <1>6, NextCallEffect
  <1>7. CASE Call(w, "available")
    BY <1>1, <1>7, NextCallEffect
  <1>8. CASE Begun(req[w].room.status) /\ Call(w, "toggle")
    BY <1>1, <1>8, NextCallEffect
  <1>. QED
    BY <1>2, <1>3, <1>4, <1>5, <1>6, <1>7, <1>8 DEF Authenticate, HostOps, Begun

LEMMA AvailableEffect ==
  ASSUME FlightInv, NEW w \in Workers, now' = now, Available(w)
  PROVE  Effect(w)
  <1>1. req[w].room \in Rooms /\ Fits(req[w], now, rounds, stories) /\ now \in Nat
    BY InFlight, RequestFields
  <1>2. CASE Finish(w) /\ UpdateRoom([req[w].room EXCEPT !.status = "expired"])
    <2> DEFINE row == [req[w].room EXCEPT !.status = "expired"]
    <2>1. row \in Rooms /\ ~Begun(row.status)
      BY <1>1 DEF Rooms, RoomStatus, Begun
    <2> HIDE DEF row
    <2>. QED
      BY <1>1, <1>2, <2>1, IdleFits, CallUpdatesRoom DEF Finish, row
  <1>3. CASE JustRead /\ Finish(w)
    BY <1>3, CallEnds
  <1>4. CASE JustRead /\ \E then \in {"build", "step"} : Sync(w, then)
    BY <1>4, CallSyncs DEF Thens
  <1>5. CASE JustRead /\ req[w].op = "join" /\ Call(w, "countUsers")
    BY <1>5, NextCallEffect
  <1>6. CASE JustRead /\ Call(w, "openFirst")
    BY <1>6, NextCallEffect
  <1>7. CASE JustRead /\ Reread(w, "resume")
    BY <1>1, <1>7, RereadFits, CallReads DEF Reread
  <1>. QED
    BY <1>2, <1>3, <1>4, <1>5, <1>6, <1>7 DEF Available

LEMMA ListUsersEffect ==
  ASSUME FlightInv, NEW w \in Workers, now' = now, ListUsers(w)
  PROVE  Effect(w)
  BY CallSyncs DEF ListUsers, Thens

-----------------------------------------------------------------------------
(* Synchronising the current round.                                        *)

\* A set of natural numbers with a bound that is not empty has a greatest element.
LEMMA GreatestNumber ==
  ASSUME NEW T, T \subseteq Nat, T # {}, NEW bound \in Nat, \A n \in T : n <= bound
  PROVE  \E m \in T : \A n \in T : n <= m
  <1> DEFINE missing == {bound - n : n \in T}
  <1>1. missing \subseteq Nat /\ missing # {}
    <2>1. \A n \in T : bound - n \in Nat
      OBVIOUS
    <2>. QED
      BY <2>1
  <1>2. PICK least \in missing : \A k \in missing : least <= k
    BY <1>1, LeastNumber
  <1>3. PICK m \in T : least = bound - m
    BY <1>2
  <1>4. ASSUME NEW n \in T PROVE n <= m
    <2>1. bound - m <= bound - n /\ n \in Nat /\ m \in Nat
      BY <1>2, <1>3
    <2>. QED
      BY <2>1
  <1>. QED
    BY <1>4

\* Finitely many natural numbers have a bound.
LEMMA BoundedValues ==
  ASSUME NEW n \in Nat, NEW f, \A i \in 1..n : f[i] \in Nat
  PROVE  \E b \in Nat : \A i \in 1..n : f[i] <= b
  <1> DEFINE Bounded(k) == \E b \in Nat : \A i \in 1..k : f[i] <= b
             free == {k \in 0..n : ~Bounded(k)}
  <1>1. CASE free = {}
    <2>1. Bounded(n)
      BY <1>1
    <2>. QED
      BY <2>1
  <1>2. CASE free # {}
    <2>1. free \subseteq Nat
      OBVIOUS
    <2> HIDE DEF free
    <2>2. PICK k \in free : \A j \in free : k <= j
      BY <1>2, <2>1, LeastNumber
    <2>3. k \in 0..n /\ ~Bounded(k)
      BY DEF free
    <2>4. k # 0
      <3>1. Bounded(0)
        OBVIOUS
      <3>. QED
        BY <2>3, <3>1
    <2>5. k - 1 \in 0..n /\ k \in 1..n /\ ~(k <= k - 1)
      BY <2>3, <2>4
    <2>6. Bounded(k - 1)
      BY <2>2, <2>5 DEF free
    <2>7. PICK b \in Nat : \A i \in 1..(k - 1) : f[i] <= b
      BY <2>6
    <2>8. f[k] \in Nat /\ b + f[k] \in Nat
      BY <2>5
    <2>9. ASSUME NEW i \in 1..k
          PROVE  f[i] <= b + f[k]
      <3>1. i \in 1..n /\ f[i] \in Nat
        BY <2>5
      <3>2. CASE i = k
        BY <2>8, <3>2
      <3>3. CASE i # k
        <4>1. i \in 1..(k - 1)
          BY <2>5, <3>3
        <4>2. f[i] <= b
          BY <2>7, <4>1
        <4>. QED
          BY <2>8, <3>1, <4>2
      <3>. QED
        BY <3>2, <3>3
    <2>10. Bounded(k)
      BY <2>8, <2>9
    <2>. QED
      BY <2>3, <2>10
  <1>. QED
    BY <1>1, <1>2

\* There is a first row in the order of the database.
LEMMA FirstRow ==
  ASSUME rounds \in Seq(Rounds), rounds # <<>>, RoundsChain
  PROVE  \E m \in DOMAIN rounds : \A i \in DOMAIN rounds : Precedes(m, i)
  <1> DEFINE numbers == {rounds[i].number : i \in DOMAIN rounds}
             started == [i \in DOMAIN rounds |-> rounds[i].startedAt]
  <1>1. /\ DOMAIN rounds = 1..Len(rounds) /\ Len(rounds) \in Nat /\ Len(rounds) \in DOMAIN rounds
        /\ \A i \in DOMAIN rounds : /\ rounds[i].number \in Nat /\ rounds[i].startedAt \in Nat
                                    /\ rounds[i].number <= MaxRounds
    <2>1. DOMAIN rounds = 1..Len(rounds) /\ Len(rounds) \in Nat /\ Len(rounds) # 0
      OBVIOUS
    <2>2. \A i \in DOMAIN rounds : rounds[i] \in Rounds
      BY <2>1
    <2>. QED
      BY <2>1, <2>2 DEF Rounds, RoundsChain
  <1>2. numbers \subseteq Nat /\ numbers # {} /\ \A n \in numbers : n <= MaxRounds
    BY <1>1
  <1>3. PICK top \in numbers : \A n \in numbers : n <= top
    BY <1>2, GreatestNumber, LimitsAssumption
  <1> DEFINE tops   == {i \in DOMAIN rounds : rounds[i].number = top}
             starts == {rounds[i].startedAt : i \in tops}
  <1>4. PICK bound \in Nat : \A i \in DOMAIN rounds : rounds[i].startedAt <= bound
    <2>1. \A i \in 1..Len(rounds) : started[i] = rounds[i].startedAt /\ started[i] \in Nat
      BY <1>1
    <2> HIDE DEF started
    <2>2. PICK b \in Nat : \A i \in 1..Len(rounds) : started[i] <= b
      BY <1>1, <2>1, BoundedValues
    <2>. QED
      BY <1>1, <2>1, <2>2
  <1>5. starts \subseteq Nat /\ starts # {} /\ \A t \in starts : t <= bound
    BY <1>1, <1>3, <1>4
  <1>6. PICK last \in starts : \A t \in starts : t <= last
    BY <1>5, GreatestNumber
  <1> DEFINE lasts == {i \in tops : rounds[i].startedAt = last}
  <1>7. lasts \subseteq Nat /\ lasts # {} /\ \A i \in lasts : i <= Len(rounds)
    BY <1>1, <1>6
  <1>8. PICK m \in lasts : \A i \in lasts : i <= m
    BY <1>1, <1>7, GreatestNumber
  <1>9. ASSUME NEW i \in DOMAIN rounds
        PROVE  Precedes(m, i)
    <2>1. /\ m \in DOMAIN rounds /\ rounds[m].number = top /\ rounds[m].startedAt = last
          /\ rounds[i].number <= top
      BY <1>3, <1>8
    <2>2. rounds[i].number = top => rounds[i].startedAt <= last
      BY <1>6
    <2>3. rounds[i].number = top /\ rounds[i].startedAt = last => i <= m
      BY <1>8
    <2>4. /\ rounds[i].number \in Nat /\ top \in Nat /\ rounds[i].startedAt \in Nat
          /\ last \in Nat /\ i \in Nat /\ m \in Nat
      BY <1>1, <1>2, <1>5, <2>1
    <2>. QED
      BY <2>1, <2>2, <2>3, <2>4 DEF Precedes
  <1>. QED
    BY <1>8, <1>9

\* Whatever the repository, the current round is one of the rounds; the
\* database returns one with the highest number.
LEMMA LatestRound ==
  ASSUME rounds \in Seq(Rounds), rounds # <<>>, RoundsChain
  PROVE  /\ Latest \in DOMAIN rounds
         /\ Postgres => \A i \in DOMAIN rounds : rounds[i].number <= rounds[Latest].number
  <1>1. /\ Len(rounds) \in DOMAIN rounds
        /\ \A i \in DOMAIN rounds : rounds[i].number \in Nat
    <2>1. Len(rounds) \in DOMAIN rounds /\ \A i \in DOMAIN rounds : rounds[i] \in Rounds
      OBVIOUS
    <2>. QED
      BY <2>1 DEF Rounds
  <1>2. CASE Postgres
    <2> DEFINE First(i) == \A j \in DOMAIN rounds : Precedes(i, j)
    <2>1. Latest = CHOOSE i \in DOMAIN rounds : First(i)
      BY <1>2 DEF Latest
    <2>2. \E i \in DOMAIN rounds : First(i)
      BY FirstRow
    <2> HIDE DEF First
    <2>3. Latest \in DOMAIN rounds /\ First(Latest)
      BY <2>1, <2>2
    <2>4. \A i \in DOMAIN rounds : Precedes(Latest, i)
      BY <2>3 DEF First
    <2>. QED
      BY <1>1, <2>3, <2>4 DEF Precedes
  <1>3. CASE ~Postgres
    BY <1>1, <1>3 DEF Latest
  <1>. QED
    BY <1>2, <1>3

LEMMA ReadCurrentEffect ==
  ASSUME FlightInv, NEW w \in Workers, now' = now, ReadCurrent(w)
  PROVE  Effect(w)
  <1>1. JustRead
    BY DEF ReadCurrent
  <1>2. CASE Build(w)
    BY <1>1, <1>2, CallBuilds
  <1>3. CASE Finish(w)
    BY <1>1, <1>3, CallEnds
  <1>4. CASE rounds # <<>> /\ Go(w, [req[w] EXCEPT !.pc = "syncRoom", !.at = Latest,
                                                   !.round = rounds[Latest]])
    <2>1. Latest \in DOMAIN rounds
      BY <1>4, InFlight, LatestRound DEF FlightInv
    <2>2. Fits([req[w] EXCEPT !.pc = "syncRoom", !.at = Latest, !.round = rounds[Latest]],
               now, rounds, stories)
      BY <2>1, InFlight, CopyFits
    <2>. QED
      BY <1>1, <1>4, <2>2, CallReads
  <1>5. CASE req[w].then = "step" /\ Call(w, "reread")
    BY <1>1, <1>5, NextCallEffect
  <1>. QED
    BY <1>2, <1>3, <1>4, <1>5 DEF ReadCurrent

LEMMA RereadCurrentEffect ==
  ASSUME FlightInv, NEW w \in Workers, now' = now, RereadCurrent(w)
  PROVE  Effect(w)
  <1> DEFINE pc == req[w].then
  <1>1. JustRead /\ req[w].pc = "reread"
    BY DEF RereadCurrent, At
  <1>2. CASE Sync(w, "build")
    BY <1>1, <1>2, CallSyncs DEF Thens
  <1>3. CASE Finish(w)
    BY <1>1, <1>3, CallEnds
  <1>4. CASE rounds # <<>> /\ Go(w, [req[w] EXCEPT !.pc = pc, !.at = Latest,
                                                   !.round = rounds[Latest]])
    <2>1. Latest \in DOMAIN rounds
      BY <1>4, InFlight, LatestRound DEF FlightInv
    <2>2. pc \in {"step", "resume", "mark"} /\ (pc = "mark" => Begun(req[w].room.status))
      BY <1>1, InFlight DEF Fits, FitsOperation
    <2> HIDE DEF pc
    <2>3. Fits([req[w] EXCEPT !.pc = pc, !.at = Latest, !.round = rounds[Latest]],
               now, rounds, stories)
      BY <2>1, <2>2, InFlight, CopyFits
    <2>. QED
      BY <1>1, <1>4, <2>3, CallReads
  <1>. QED
    BY <1>2, <1>3, <1>4 DEF RereadCurrent

LEMMA ReadRoundRowEffect ==
  ASSUME FlightInv, NEW w \in Workers, now' = now, ReadRoundRow(w)
  PROVE  Effect(w)
  <1> DEFINE r    == req[w]
             then == IF r.op = "read" THEN "done" ELSE "accept"
             row  == rounds[r.at]
             next == [r EXCEPT !.pc = "syncRoom", !.round = row, !.then = then]
  <1>1. Go(w, next) /\ JustRead /\ r.pc = "readRound"
    BY DEF ReadRoundRow, At
  <1>2. r \in Requests /\ Fits(r, now, rounds, stories)
    BY InFlight
  <1>3. r.at \in DOMAIN rounds
    BY <1>1, <1>2 DEF Fits, FitsRounds, FitsOperation
  <1>4. row \in Rounds /\ row.pausedAt <= now /\ then \in Thens
    BY <1>3, InFlight DEF Thens
  <1>5. row.number = rounds[r.at].number
    OBVIOUS
  <1> HIDE DEF row, then
  <1>6. /\ next \in Requests /\ next.pc = "syncRoom" /\ next.op = r.op /\ next.who = r.who
        /\ next.at = r.at /\ next.story = r.story /\ next.room = r.room /\ next.round = row
    BY <1>2, <1>4 DEF Requests, Calls
  <1> HIDE DEF next
  <1>7. FitsRounds(next, rounds) /\ FitsStories(next, stories) /\ FitsOperation(next)
    BY <1>2, <1>3, <1>5, <1>6 DEF Fits, FitsRounds, FitsStories, FitsOperation
  <1>8. next.pc # "idle" /\ next # Idle
    BY <1>6 DEF Idle
  <1>9. Fits(next, now, rounds, stories)
    BY <1>4, <1>6, <1>7, <1>8 DEF Fits
  <1>. QED
    BY <1>1, <1>9, CallReads

LEMMA SyncRoomEffect ==
  ASSUME FlightInv, NEW w \in Workers, now' = now, SyncRoom(w)
  PROVE  Effect(w)
  <1> DEFINE r    == req[w]
             next == [r EXCEPT !.pc = "syncWrite", !.room = room]
  <1>1. Go(w, next) /\ JustRead /\ r.pc = "syncRoom"
    BY DEF SyncRoom, At
  <1>2. r \in Requests /\ room \in Rooms /\ Fits(r, now, rounds, stories)
    BY InFlight
  <1>3. /\ next \in Requests /\ next.pc = "syncWrite" /\ next.op = r.op /\ next.who = r.who
        /\ next.at = r.at /\ next.story = r.story /\ next.room = room /\ next.round = r.round
    BY <1>2 DEF Requests, Calls
  <1> HIDE DEF next
  <1>4. FitsRounds(next, rounds)
    BY <1>1, <1>2, <1>3 DEF Fits, FitsRounds, OnRow, FlightInv, RoundsChain, Begun
  <1>5. FitsStories(next, stories) /\ FitsOperation(next)
    BY <1>2, <1>3 DEF Fits, FitsStories, FitsOperation
  <1>6. next.pc # "idle" /\ next # Idle /\ next.round.pausedAt <= now
    BY <1>2, <1>3 DEF Idle, Fits
  <1>7. Fits(next, now, rounds, stories)
    BY <1>3, <1>4, <1>5, <1>6 DEF Fits
  <1>. QED
    BY <1>1, <1>7, CallReads

\* What SyncRound makes of the copies of a worker.
LEMMA SeenSynced ==
  ASSUME FlightInv, NEW w \in Workers, At(w, "syncWrite")
  PROVE  LET g == SyncRound(Seen(w), req[w].at)
         IN  /\ req[w].at \in DOMAIN rounds
             /\ g.room \in Rooms
             /\ g.room.status \in {req[w].room.status, "expired"}
             /\ Succeeds(req[w].round, g.rounds[req[w].at])
             /\ req[w].round.number = rounds[req[w].at].number
  <1> DEFINE r == req[w]
             i == r.at
             s == Seen(w)
             e == Expire(s)
             g == SyncRound(s, i)
  <1>1. /\ r \in Requests /\ Fits(r, now, rounds, stories) /\ now \in Nat
        /\ rounds \in Seq(Rounds) /\ DOMAIN rounds = 1..Len(rounds)
    BY InFlight
  <1>2. i \in DOMAIN rounds /\ r.round.number = rounds[i].number /\ r.round.pausedAt <= now
    BY <1>1 DEF At, OnRow, Fits, FitsRounds
  <1>3. r.room \in Rooms /\ r.round \in Rounds
    BY <1>1, RequestFields
  <1>4. /\ s.room = r.room /\ s.rounds = [rounds EXCEPT ![i] = r.round]
        /\ s \in Games
    <2>1. [rounds EXCEPT ![i] = r.round] \in Seq(Rounds)
      BY <1>1, <1>2, <1>3, ReplaceRow
    <2>. QED
      BY <1>3, <2>1 DEF Seen, Games
  <1>5. s.rounds[i] = r.round /\ i \in DOMAIN s.rounds
    BY <1>2, <1>4
  <1> HIDE DEF s
  <1>6. /\ e \in Games /\ e.rounds = s.rounds
        /\ e.room.status \in {r.room.status, "expired"} /\ e.room \in Rooms
    BY <1>4, ExpireStill DEF Games
  <1>7. Succeeds(r.round, r.round) /\ Succeeds(r.round, Advanced(r.round))
    <2>1. r.round.status \in RoundStatus
      BY <1>3 DEF Rounds
    <2>2. Phase(r.round.status) <= Phase(r.round.status)
      BY <2>1 DEF Phase, RoundStatus
    <2>3. Succeeds(r.round, r.round)
      BY <1>2, <1>3, <2>2 DEF Succeeds
    <2>. QED
      BY <1>1, <1>2, <1>3, <2>3, LifecycleRows
  <1>8. g = IF Due(e, i) THEN WithRound(e, i, Advanced(r.round)) ELSE e
    BY <1>5, <1>6 DEF SyncRound
  <1> HIDE DEF e
  <1>9. g.room = e.room /\ g.rounds[i] \in {r.round, Advanced(r.round)}
    BY <1>5, <1>6, <1>8 DEF WithRound, Games
  <1> HIDE DEF g
  <1>10. Succeeds(r.round, g.rounds[i])
    BY <1>7, <1>9
  <1>. QED
    BY <1>2, <1>6, <1>9, <1>10 DEF g, s

\* Where a request goes once its round is synchronised.
LEMMA SyncedFits ==
  ASSUME FlightInv, NEW w \in Workers, At(w, "syncWrite"),
         NEW g, g.room \in Rooms, g.room.status \in {req[w].room.status, "expired"},
         Succeeds(req[w].round, g.rounds[req[w].at]), Synced(w, g)
  PROVE  \E r : Go(w, r) /\ Fits(r, now, rounds, stories)
  <1> DEFINE q   == req[w]
             row == g.rounds[q.at]
             r   == [q EXCEPT !.room = g.room, !.round = row]
  <1>1. /\ q \in Requests /\ Fits(q, now, rounds, stories) /\ now \in Nat
        /\ q.pc = "syncWrite" /\ q.at \in DOMAIN rounds
        /\ q.round.number = rounds[q.at].number
    BY InFlight, SeenSynced DEF At
  <1>2. row \in Rounds /\ row.number = q.round.number /\ row.pausedAt <= now
    BY DEF Succeeds
  <1>3. CASE Build(w)
    BY <1>1, <1>3, BuildFits DEF Build
  <1>4. CASE Finish(w)
    BY <1>1, <1>4, IdleFits DEF Finish
  <1>5. ASSUME NEW pc, Go(w, [r EXCEPT !.pc = pc]),
               \/ pc = "reread" /\ q.then = "step"
               \/ pc = "listStories" /\ q.op = "top"
               \/ pc = "authenticate" /\ q.op \in {"story", "vote"}
        PROVE  \E x : Go(w, x) /\ Fits(x, now, rounds, stories)
    <2> DEFINE next == [r EXCEPT !.pc = pc]
    <2> HIDE DEF row
    <2>1. /\ next \in Requests /\ next.pc = pc /\ next.op = q.op /\ next.who = q.who
          /\ next.at = q.at /\ next.story = q.story /\ next.room = g.room /\ next.round = row
          /\ next.then = q.then
      BY <1>1, <1>2, <1>5 DEF Requests, Calls
    <2> HIDE DEF next
    <2>2. FitsRounds(next, rounds)
      BY <1>1, <1>5, <2>1 DEF Fits, FitsRounds, OnRow, Begun
    <2>3. FitsStories(next, stories)
      BY <1>1, <1>5, <2>1 DEF Fits, FitsStories
    <2>4. FitsOperation(next)
      BY <1>1, <1>5, <2>1 DEF Fits, FitsOperation
    <2>5. next.pc # "idle" /\ next # Idle
      BY <1>5, <2>1 DEF Idle
    <2>6. Fits(next, now, rounds, stories)
      BY <1>2, <2>1, <2>2, <2>3, <2>4, <2>5 DEF Fits
    <2>. QED
      BY <1>5, <2>6 DEF next
  <1>6. r.op = q.op /\ r.then = q.then
    BY <1>1 DEF Requests
  <1>7. \/ Build(w) \/ Finish(w)
        \/ q.then = "step" /\ Go(w, [r EXCEPT !.pc = "reread"])
        \/ q.op = "top" /\ Go(w, [r EXCEPT !.pc = "listStories"])
        \/ q.op \in {"story", "vote"} /\ Go(w, [r EXCEPT !.pc = "authenticate"])
    <2> DEFINE accepts == CASE r.op = "story" -> Playable(g, r.at, "writing")
                            [] r.op = "vote"  -> Playable(g, r.at, "voting")
                            [] r.op = "top"   -> r.room.status # "waiting" /\ r.round.status = "revealed"
                            [] OTHER -> FALSE
    <2>1. CASE r.then = "build" \/ r.then = "step"
      BY <1>6, <2>1 DEF Synced
    <2>2. accepts => r.op \in {"story", "vote", "top"}
      OBVIOUS
    <2>3. CASE r.then = "accept" /\ accepts
      <3> HIDE DEF r
      <3>1. Go(w, [r EXCEPT !.pc = IF r.op = "top" THEN "listStories" ELSE "authenticate"])
        BY <2>3 DEF Synced, r
      <3>. QED
        BY <1>6, <2>2, <2>3, <3>1
    <2>4. CASE r.then \notin {"build", "step"} /\ ~(r.then = "accept" /\ accepts)
      BY <2>4 DEF Synced
    <2>. QED
      BY <2>1, <2>3, <2>4
  <1> HIDE DEF r
  <1>. QED
    BY <1>3, <1>4, <1>5, <1>7

LEMMA SyncWriteEffect ==
  ASSUME FlightInv, NEW w \in Workers, now' = now, SyncWrite(w)
  PROVE  Effect(w)
  <1> DEFINE i == req[w].at
             g == SyncRound(Seen(w), i)
  <1>1. /\ At(w, "syncWrite") /\ i \in DOMAIN rounds /\ g.room \in Rooms
        /\ g.room.status \in {req[w].room.status, "expired"}
        /\ Succeeds(req[w].round, g.rounds[i]) /\ req[w].round.number = rounds[i].number
    BY SeenSynced DEF SyncWrite
  <1>2. SyncWrite(w) <=>
          /\ At(w, "syncWrite")
          /\ \/ /\ g.room.status = "expired"
                /\ Finish(w)
                /\ IF req[w].room.status # "expired" THEN UpdateRoom(g.room) ELSE JustRead
             \/ /\ g.room.status # "expired"
                /\ Synced(w, g)
                /\ IF g.rounds[i] # req[w].round THEN UpdateRound(i, g.rounds[i]) ELSE JustRead
    BY DEF SyncWrite
  <1> HIDE DEF g
  <1>3. CASE JustRead /\ Finish(w)
    BY <1>3, CallEnds
  <1>4. CASE g.room.status = "expired" /\ UpdateRoom(g.room) /\ Finish(w)
    BY <1>1, <1>4, InFlight, IdleFits, CallUpdatesRoom DEF Finish, Begun
  <1>5. CASE Synced(w, g) /\ (UpdateRound(i, g.rounds[i]) \/ JustRead)
    <2>1. PICK r : Go(w, r) /\ Fits(r, now, rounds, stories)
      BY <1>1, <1>5, SyncedFits
    <2>2. /\ g.rounds[i] \in Rounds /\ g.rounds[i].pausedAt <= now
          /\ g.rounds[i].number = rounds[i].number
      BY <1>1 DEF Succeeds
    <2>. QED
      BY <1>1, <1>5, <2>1, <2>2, CallReads, CallUpdatesRound
  <1>. QED
    BY <1>2, <1>3, <1>4, <1>5

-----------------------------------------------------------------------------
(* JoinRoom and LeaveRoom.                                                 *)

LEMMA CountUsersEffect ==
  ASSUME FlightInv, NEW w \in Workers, now' = now, CountUsers(w)
  PROVE  Effect(w)
  <1>1. req[w].op = "join" /\ JustRead
    BY InFlight DEF CountUsers, At, Fits, FitsOperation
  <1>. QED
    BY <1>1, CallEnds, NextCallEffect DEF CountUsers

LEMMA CountLeftEffect ==
  ASSUME FlightInv, NEW w \in Workers, now' = now, CountLeft(w)
  PROVE  Effect(w)
  <1>1. JustRead
    BY DEF CountLeft
  <1>. QED
    BY <1>1, CallBuilds, NextCallEffect DEF CountLeft

\* Calls that change users only.
LEMMA CallChangesUsers ==
  ASSUME FlightInv, NEW w \in Workers, now' = now, UNCHANGED <<room, rounds, stories, votes>>,
         user' \in [Players -> {"absent", "member", "gone"}],
         NEW r, Go(w, r), Fits(r, now, rounds, stories)
  PROVE  Effect(w)
  <1>1. TypeOK' /\ RoundsChain'
    BY DEF FlightInv, TypeOK, RoundsChain
  <1>2. req' = [req EXCEPT ![w] = r] /\ req'[w] = r
    BY DEF Go, FlightInv
  <1>. QED
    BY <1>1, <1>2 DEF FlightInv, TypeOK, Effect, Grown

LEMMA CreateUserEffect ==
  ASSUME FlightInv, NEW w \in Workers, now' = now, CreateUser(w)
  PROVE  Effect(w)
  <1>1. req[w].who \in Players
    BY InFlight DEF CreateUser, At, Fits, FitsOperation
  <1>2. user' \in [Players -> {"absent", "member", "gone"}]
    BY <1>1, InFlight DEF CreateUser
  <1>. QED
    BY <1>2, InFlight, BuildFits, CallChangesUsers DEF CreateUser, Build

LEMMA DeleteUserEffect ==
  ASSUME FlightInv, NEW w \in Workers, now' = now, DeleteUser(w)
  PROVE  Effect(w)
  <1> DEFINE next == [req[w] EXCEPT !.pc = "countLeft"]
  <1>1. Fits(req[w], now, rounds, stories) /\ req[w] \in Requests /\ now \in Nat
        /\ req[w].pc = "deleteUser"
    BY InFlight DEF DeleteUser, At
  <1>2. req[w].who \in Players
    BY <1>1 DEF Fits, FitsOperation
  <1>3. user' \in [Players -> {"absent", "member", "gone"}]
    BY <1>2, InFlight DEF DeleteUser
  <1>4. UNCHANGED <<room, rounds, stories, votes>>
    BY DEF DeleteUser
  <1>5. CASE Go(w, next)
    <2>1. /\ next.pc = "countLeft" /\ next.op = req[w].op /\ next.who = req[w].who
          /\ next.at = req[w].at /\ next.story = req[w].story /\ next.room = req[w].room
      BY <1>1 DEF Requests
    <2>2. FitsRounds(next, rounds) /\ FitsStories(next, stories) /\ FitsOperation(next)
      BY <1>1, <2>1 DEF Fits, FitsRounds, FitsStories, FitsOperation, OnRow
    <2>3. "countLeft" \in Calls
      BY DEF Calls
    <2>4. Fits(next, now, rounds, stories)
      BY <1>1, <2>2, <2>3, OnToCall
    <2>. QED
      BY <1>3, <1>4, <1>5, <2>4, CallChangesUsers
  <1>6. CASE Finish(w)
    BY <1>1, <1>3, <1>4, <1>6, IdleFits, CallChangesUsers DEF Finish
  <1>. QED
    BY <1>5, <1>6 DEF DeleteUser, Call

LEMMA CloseRoomEffect ==
  ASSUME FlightInv, NEW w \in Workers, now' = now, CloseRoom(w)
  PROVE  Effect(w)
  <1> DEFINE row == [req[w].room EXCEPT !.status = "finished"]
  <1>1. row \in Rooms /\ ~Begun(row.status)
    BY InFlight, RequestFields DEF Rooms, RoomStatus, Begun
  <1> HIDE DEF row
  <1>. QED
    BY <1>1, InFlight, BuildFits, CallUpdatesRoom DEF CloseRoom, Build, row

-----------------------------------------------------------------------------
(* StartGame, PauseRound and NextRound.                                    *)

LEMMA NewRoundRow ==
  ASSUME now \in Nat, NEW number \in Nat \ {0}
  PROVE  /\ NewRound(number) \in Rounds /\ NewRound(number).number = number
         /\ NewRound(number).pausedAt <= now
  <1>1. now + WriteTime \in Nat
    BY TimesAssumption
  <1>. QED
    BY <1>1 DEF NewRound, Rounds, RoundStatus, NoTime

LEMMA OpenFirstEffect ==
  ASSUME FlightInv, NEW w \in Workers, now' = now, OpenFirst(w)
  PROVE  Effect(w)
  <1> DEFINE next == [req[w] EXCEPT !.pc = "setActive"]
  <1>1. Fits(req[w], now, rounds, stories) /\ req[w] \in Requests /\ now \in Nat
        /\ stories' = stories
    BY InFlight DEF OpenFirst, CreateRound
  <1>2. /\ NewRound(1) \in Rounds /\ NewRound(1).number = 1 /\ NewRound(1).pausedAt <= now
    BY <1>1, NewRoundRow
  <1>3. CreateRound(NewRound(1)) /\ Go(w, next)
    BY DEF OpenFirst, Call
  <1>4. rounds' # <<>> /\ Grown(now, rounds, stories, now, rounds', stories)
    <2>1. rounds \in Seq(Rounds) /\ DOMAIN rounds = 1..Len(rounds) /\ Len(rounds) \in Nat
      BY InFlight
    <2>2. /\ rounds' \in Seq(Rounds) /\ Len(rounds') = Len(rounds) + 1
          /\ \A j \in 1..Len(rounds) : rounds'[j] = rounds[j]
      BY <1>2, <1>3, <2>1, AppendRow DEF CreateRound
    <2>. QED
      BY <1>1, <2>1, <2>2 DEF Grown
  <1>5. Fits(next, now, rounds', stories)
    <2>1. Fits(req[w], now, rounds', stories)
      BY <1>1, <1>4, FitsGrown
    <2>2. /\ next.pc = "setActive" /\ next.op = req[w].op /\ next.who = req[w].who
          /\ next.at = req[w].at /\ next.story = req[w].story /\ next.room = req[w].room
      BY <1>1 DEF Requests
    <2>3. FitsRounds(next, rounds') /\ FitsStories(next, stories) /\ FitsOperation(next)
      BY <1>4, <2>1, <2>2 DEF Fits, FitsRounds, FitsStories, FitsOperation, OnRow
    <2>4. "setActive" \in Calls
      BY DEF Calls
    <2>. QED
      BY <2>1, <2>3, <2>4, OnToCall
  <1>. QED
    BY <1>2, <1>3, <1>5, CallCreatesRound, LimitsAssumption

LEMMA ResumeRoundEffect ==
  ASSUME FlightInv, NEW w \in Workers, now' = now, ResumeRound(w)
  PROVE  Effect(w)
  <1> DEFINE r    == req[w]
             next == [r EXCEPT !.pc = "setActive"]
  <1>1. Fits(r, now, rounds, stories) /\ r \in Requests /\ now \in Nat /\ r.pc = "resume"
    BY InFlight DEF ResumeRound, At
  <1>2. r.at \in DOMAIN rounds /\ r.round.number = rounds[r.at].number /\ r.round \in Rounds
    BY <1>1, RequestFields DEF Fits, FitsRounds, OnRow
  <1>3. Succeeds(r.round, Resumed(r.round))
    BY <1>1, <1>2, LifecycleRows DEF Fits
  <1>4. Fits(next, now, rounds, stories)
    <2>1. rounds # <<>>
      BY <1>2, InFlight
    <2>2. /\ next.pc = "setActive" /\ next.op = r.op /\ next.who = r.who
          /\ next.at = r.at /\ next.story = r.story /\ next.room = r.room
      BY <1>1 DEF Requests
    <2>3. FitsRounds(next, rounds) /\ FitsStories(next, stories) /\ FitsOperation(next)
      BY <1>1, <2>1, <2>2 DEF Fits, FitsRounds, FitsStories, FitsOperation, OnRow
    <2>4. "setActive" \in Calls
      BY DEF Calls
    <2>. QED
      BY <1>1, <2>3, <2>4, OnToCall
  <1>5. Go(w, next) /\ (UpdateRound(r.at, Resumed(r.round)) \/ JustRead)
    BY DEF ResumeRound, Call
  <1>. QED
    BY <1>2, <1>3, <1>4, <1>5, CallReads, CallUpdatesRound DEF Succeeds

LEMMA SetActiveEffect ==
  ASSUME FlightInv, NEW w \in Workers, now' = now, SetActive(w)
  PROVE  Effect(w)
  <1> DEFINE row == [req[w].room EXCEPT !.status = "active"]
  <1>1. row \in Rooms
    BY InFlight, RequestFields DEF Rooms, RoomStatus
  <1>2. rounds # <<>>
    BY InFlight DEF SetActive, At, Fits, FitsRounds
  <1> HIDE DEF row
  <1>. QED
    BY <1>1, <1>2, InFlight, BuildFits, CallUpdatesRoom DEF SetActive, Build, row

LEMMA ToggleEffect ==
  ASSUME FlightInv, NEW w \in Workers, now' = now, Toggle(w)
  PROVE  Effect(w)
  <1> DEFINE r    == req[w]
             row  == [r.room EXCEPT !.status = IF @ = "active" THEN "paused" ELSE "active"]
             next == [r EXCEPT !.room = row, !.pc = "reread", !.then = "mark"]
  <1>1. UpdateRoom(row) /\ Go(w, next) /\ r.pc = "toggle"
    BY DEF Toggle, At
  <1>2. Fits(r, now, rounds, stories) /\ r \in Requests
    BY InFlight
  <1>3. rounds # <<>>
    BY <1>1, <1>2 DEF Fits, FitsRounds, FitsOperation
  <1>4. row \in Rooms /\ Begun(row.status)
    BY <1>2, RequestFields DEF Rooms, RoomStatus, Begun
  <1> HIDE DEF row
  <1>5. /\ next \in Requests /\ next.pc = "reread" /\ next.then = "mark" /\ next.op = r.op
        /\ next.who = r.who /\ next.at = r.at /\ next.story = r.story /\ next.room = row
        /\ next.round = r.round
    BY <1>2, <1>4 DEF Requests, Calls, Thens
  <1> HIDE DEF next
  <1>6. FitsRounds(next, rounds) /\ FitsStories(next, stories) /\ FitsOperation(next)
    BY <1>2, <1>3, <1>4, <1>5 DEF Fits, FitsRounds, FitsStories, FitsOperation, OnRow
  <1>7. next.pc # "idle" /\ next # Idle /\ next.round.pausedAt <= now
    BY <1>2, <1>5 DEF Idle, Fits
  <1>8. Fits(next, now, rounds, stories)
    BY <1>5, <1>6, <1>7 DEF Fits
  <1>. QED
    BY <1>1, <1>3, <1>4, <1>8, CallUpdatesRoom

LEMMA MarkRoundEffect ==
  ASSUME FlightInv, NEW w \in Workers, now' = now, MarkRound(w)
  PROVE  Effect(w)
  <1> DEFINE r    == req[w]
             next == [r EXCEPT !.pc = "readCurrent", !.then = "build"]
  <1>1. Fits(r, now, rounds, stories) /\ r \in Requests /\ now \in Nat /\ r.pc = "mark"
    BY InFlight DEF MarkRound, At
  <1>2. /\ r.at \in DOMAIN rounds /\ r.round.number = rounds[r.at].number /\ r.round \in Rounds
        /\ r.room.status \in {"active", "paused"}
    BY <1>1, RequestFields DEF Fits, FitsRounds, FitsOperation, OnRow, Begun
  <1>3. /\ Succeeds(r.round, Resumed(r.round))
        /\ Succeeds(r.round, [r.round EXCEPT !.pausedAt = now])
    BY <1>1, <1>2, LifecycleRows DEF Fits
  <1>4. Fits(next, now, rounds, stories)
    BY <1>1, SyncFits DEF Thens
  <1>5. /\ Go(w, next)
        /\ \/ UpdateRound(r.at, Resumed(r.round)) \/ JustRead
           \/ UpdateRound(r.at, [r.round EXCEPT !.pausedAt = now])
    BY <1>2 DEF MarkRound, Sync
  <1>. QED
    BY <1>2, <1>3, <1>4, <1>5, CallReads, CallUpdatesRound DEF Succeeds

LEMMA ProgressEffect ==
  ASSUME FlightInv, NEW w \in Workers, now' = now, Progress(w)
  PROVE  Effect(w)
  <1> DEFINE r == req[w]
  <1>1. Fits(r, now, rounds, stories) /\ r \in Requests /\ now \in Nat /\ r.pc = "step"
    BY InFlight DEF Progress, At
  <1>2. /\ r.at \in DOMAIN rounds /\ r.round.number = rounds[r.at].number /\ r.round \in Rounds
        /\ r.room \in Rooms /\ rounds # <<>>
    <2>1. r.at \in DOMAIN rounds /\ r.round.number = rounds[r.at].number
      BY <1>1 DEF Fits, FitsRounds, OnRow
    <2>. QED
      BY <1>1, <2>1, RequestFields, InFlight
  <1>3. Succeeds(r.round, Advanced(r.round))
    BY <1>1, <1>2, LifecycleRows DEF Fits
  <1>4. CASE UpdateRound(r.at, Advanced(r.round)) /\ Build(w)
    BY <1>1, <1>2, <1>3, <1>4, BuildFits, CallUpdatesRound DEF Build, Succeeds
  <1>5. CASE UpdateRoom([r.room EXCEPT !.status = "finished"]) /\ Build(w)
    <2> DEFINE row == [r.room EXCEPT !.status = "finished"]
    <2>1. row \in Rooms
      BY <1>2 DEF Rooms, RoomStatus
    <2> HIDE DEF row
    <2>. QED
      BY <1>1, <1>2, <1>5, <2>1, BuildFits, CallUpdatesRoom DEF Build, row
  <1>6. CASE /\ r.round.number < MaxRounds
             /\ UpdateRoom([r.room EXCEPT !.status = "active"])
             /\ Go(w, [r EXCEPT !.pc = "openNext", !.round = NewRound(r.round.number + 1)])
    <2> DEFINE row   == [r.room EXCEPT !.status = "active"]
               fresh == NewRound(r.round.number + 1)
               next  == [r EXCEPT !.pc = "openNext", !.round = fresh]
    <2>1. row \in Rooms
      BY <1>2 DEF Rooms, RoomStatus
    <2>2. /\ fresh \in Rounds /\ fresh.number = r.round.number + 1 /\ fresh.pausedAt <= now
          /\ fresh.number <= MaxRounds
      <3>1. r.round.number \in Nat \ {0} /\ r.round.number + 1 \in Nat \ {0}
        BY <1>2 DEF Rounds
      <3>2. r.round.number + 1 <= MaxRounds
        BY <1>6, <3>1, LimitsAssumption
      <3> HIDE DEF r
      <3>. QED
        BY <1>1, <3>1, <3>2, NewRoundRow
    <2> HIDE DEF fresh
    <2>3. /\ next \in Requests /\ next.pc = "openNext" /\ next.op = r.op /\ next.who = r.who
          /\ next.at = r.at /\ next.story = r.story /\ next.room = r.room /\ next.round = fresh
      BY <1>1, <2>2 DEF Requests, Calls
    <2> HIDE DEF next
    <2>4. FitsRounds(next, rounds)
      BY <1>1, <1>2, <2>2, <2>3 DEF Fits, FitsRounds, OnRow
    <2>5. FitsStories(next, stories) /\ FitsOperation(next)
      BY <1>1, <2>3 DEF Fits, FitsStories, FitsOperation
    <2>6. next.pc # "idle" /\ next # Idle
      BY <2>3 DEF Idle
    <2>7. Fits(next, now, rounds, stories)
      BY <2>2, <2>3, <2>4, <2>5, <2>6 DEF Fits
    <2> HIDE DEF row
    <2>. QED
      BY <1>2, <1>6, <2>1, <2>7, CallUpdatesRoom DEF row, next, fresh
  <1>. QED
    BY <1>4, <1>5, <1>6 DEF Progress

LEMMA OpenNextEffect ==
  ASSUME FlightInv, NEW w \in Workers, now' = now, OpenNext(w)
  PROVE  Effect(w)
  <1> DEFINE r    == req[w]
             row  == r.round
             next == [r EXCEPT !.pc = "listUsers", !.room = NoRoom, !.round = NoRow]
  <1>1. Fits(r, now, rounds, stories) /\ r \in Requests /\ now \in Nat /\ r.pc = "openNext"
    BY InFlight DEF OpenNext, At
  <1>2. /\ r.at \in DOMAIN rounds /\ row \in Rounds /\ row.pausedAt <= now
        /\ row.number = rounds[r.at].number + 1 /\ row.number <= MaxRounds
    BY <1>1, RequestFields DEF Fits, FitsRounds
  <1>3. rounds[r.at].number = row.number - 1
    BY <1>2, InFlight DEF Rounds
  <1>4. CreateRound(row) /\ Go(w, next)
    BY DEF OpenNext, Build
  <1> HIDE DEF row
  <1>5. Grown(now, rounds, stories, now, rounds', stories) /\ rounds' # <<>>
    <2>1. rounds \in Seq(Rounds) /\ DOMAIN rounds = 1..Len(rounds) /\ Len(rounds) \in Nat
      BY InFlight
    <2>2. /\ rounds' \in Seq(Rounds) /\ Len(rounds') = Len(rounds) + 1
          /\ \A j \in 1..Len(rounds) : rounds'[j] = rounds[j]
      BY <1>2, <1>4, <2>1, AppendRow DEF CreateRound
    <2>. QED
      BY <1>1, <2>1, <2>2 DEF Grown
  <1>6. Fits(next, now, rounds', stories)
    BY <1>1, <1>5, FitsGrown, BuildFits
  <1>. QED
    BY <1>2, <1>3, <1>4, <1>6, CallCreatesRound

-----------------------------------------------------------------------------
(* SubmitStory, SubmitVote and GetTopStory.                                *)

LEMMA CheckStoryEffect ==
  ASSUME FlightInv, NEW w \in Workers, now' = now, CheckStory(w)
  PROVE  Effect(w)
  <1>1. req[w].op = "story" /\ JustRead
    BY InFlight DEF CheckStory, At, Fits, FitsOperation
  <1>. QED
    BY <1>1, CallEnds, NextCallEffect DEF CheckStory

LEMMA CheckVoteEffect ==
  ASSUME FlightInv, NEW w \in Workers, now' = now, CheckVote(w)
  PROVE  Effect(w)
  <1>1. req[w].op = "vote" /\ JustRead
    BY InFlight DEF CheckVote, At, Fits, FitsOperation
  <1>. QED
    BY <1>1, CallEnds, NextCallEffect DEF CheckVote

\* Calls that add or mark a ballot; each is the last of its request.
LEMMA CallChangesBallots ==
  ASSUME FlightInv, NEW w \in Workers, now' = now, UNCHANGED <<room, user, rounds>>, Finish(w),
         stories' \in Seq(Stories), votes' \in Seq(Votes),
         \A s \in DOMAIN stories :
           s \in DOMAIN stories' /\ stories'[s].round = stories[s].round
  PROVE  Effect(w)
  <1>1. TypeOK' /\ RoundsChain'
    BY DEF FlightInv, TypeOK, RoundsChain
  <1>2. Grown(now, rounds, stories, now', rounds', stories')
    BY InFlight DEF Grown
  <1>3. req' = [req EXCEPT ![w] = Idle] /\ req'[w] = Idle
    BY DEF Finish, Go, FlightInv
  <1>4. Fits(Idle, now', rounds', stories')
    BY InFlight, IdleFits
  <1>. QED
    BY <1>1, <1>2, <1>3, <1>4 DEF Effect

LEMMA InsertStoryEffect ==
  ASSUME FlightInv, NEW w \in Workers, now' = now, InsertStory(w)
  PROVE  Effect(w)
  <1> DEFINE story == [round |-> req[w].at, author |-> req[w].who, isRevealed |-> FALSE]
  <1>1. req[w].at \in DOMAIN rounds /\ req[w].who \in Players
    BY InFlight DEF InsertStory, At, Fits, FitsRounds, FitsOperation, RoundOps
  <1>2. req[w].at \in Nat \ {0}
    BY <1>1, InFlight
  <1>3. story \in Stories
    BY <1>1, <1>2 DEF Stories
  <1>4. stories' = Append(stories, story)
    BY DEF InsertStory
  <1> HIDE DEF story
  <1>5. /\ stories' \in Seq(Stories) /\ Len(stories') = Len(stories) + 1
        /\ \A s \in 1..Len(stories) : stories'[s] = stories[s]
    BY <1>3, <1>4, InFlight, AppendRow
  <1>6. \A s \in DOMAIN stories : s \in DOMAIN stories' /\ stories'[s].round = stories[s].round
    BY <1>5, InFlight
  <1>. QED
    BY <1>5, <1>6, InFlight, CallChangesBallots DEF InsertStory

LEMMA InsertVoteEffect ==
  ASSUME FlightInv, NEW w \in Workers, now' = now, InsertVote(w)
  PROVE  Effect(w)
  <1> DEFINE vote == [round |-> req[w].at, voter |-> req[w].who, story |-> req[w].story]
  <1>1. /\ req[w].at \in DOMAIN rounds /\ req[w].who \in Players
        /\ req[w].story \in DOMAIN stories
    BY InFlight DEF InsertVote, At, Fits, FitsRounds, FitsStories, FitsOperation, RoundOps
  <1>2. req[w].at \in Nat \ {0} /\ req[w].story \in Nat \ {0}
    BY <1>1, InFlight
  <1>3. vote \in Votes
    BY <1>1, <1>2 DEF Votes
  <1>4. votes' = votes \/ votes' = Append(votes, vote)
    BY DEF InsertVote
  <1> HIDE DEF vote
  <1>5. votes' \in Seq(Votes)
    <2>1. votes \in Seq(Votes)
      BY InFlight
    <2>. QED
      BY <1>3, <1>4, <2>1, AppendRow
  <1>. QED
    BY <1>5, InFlight, CallChangesBallots DEF InsertVote

LEMMA ListStoriesEffect ==
  ASSUME FlightInv, NEW w \in Workers, now' = now, ListStories(w)
  PROVE  Effect(w)
  <1> DEFINE r    == req[w]
             next == [r EXCEPT !.pc = "listVotes", !.story = Len(stories)]
  <1>1. Fits(r, now, rounds, stories) /\ r \in Requests /\ r.pc = "listStories" /\ JustRead
    BY InFlight DEF ListStories, At
  <1>2. r.op = "top" /\ r.at \in DOMAIN rounds
    BY <1>1 DEF Fits, FitsOperation, FitsRounds, RoundOps
  <1>3. CASE StoriesOf(r.at) # {} /\ Go(w, next)
    <2>1. /\ next \in Requests /\ next.pc = "listVotes" /\ next.op = r.op /\ next.who = r.who
          /\ next.at = r.at /\ next.story = Len(stories) /\ next.room = r.room
          /\ next.round = r.round
      BY <1>1, InFlight DEF Requests, Calls
    <2> HIDE DEF next
    <2>2. \E s \in DOMAIN stories : stories[s].round = r.at /\ s <= Len(stories)
      BY <1>3, InFlight DEF StoriesOf
    <2>3. FitsRounds(next, rounds) /\ FitsStories(next, stories) /\ FitsOperation(next)
      BY <1>1, <1>2, <2>1, <2>2 DEF Fits, FitsRounds, FitsStories, FitsOperation, OnRow
    <2>4. next.pc # "idle" /\ next # Idle /\ next.round.pausedAt <= now
      BY <1>1, <2>1 DEF Idle, Fits
    <2>5. Fits(next, now, rounds, stories)
      BY <2>1, <2>3, <2>4 DEF Fits
    <2>. QED
      BY <1>1, <1>3, <2>5, CallReads
  <1>. QED
    BY <1>1, <1>3, CallEnds DEF ListStories

\* There is a winner among the stories listed.
LEMMA ListVotesEffect ==
  ASSUME FlightInv, NEW w \in Workers, now' = now, ListVotes(w)
  PROVE  Effect(w)
  <1> DEFINE r      == req[w]
             listed == {s \in StoriesOf(r.at) : s <= r.story}
             winner == CHOOSE s \in listed : \A t \in listed : Beats(s, t)
             next   == [r EXCEPT !.pc = "markWinner", !.story = winner]
  <1>1. Fits(r, now, rounds, stories) /\ r \in Requests /\ r.pc = "listVotes"
    BY InFlight DEF ListVotes, At
  <1>2. r.op = "top" /\ r.at \in DOMAIN rounds
    BY <1>1 DEF Fits, FitsOperation, FitsRounds, RoundOps
  <1>3. listed # {} /\ listed \subseteq DOMAIN stories /\ listed \subseteq Nat
    BY <1>1, InFlight DEF Fits, FitsStories, StoriesOf
  <1>4. winner \in listed
    <2>1. \E s \in listed : \A t \in listed : Beats(s, t)
      BY <1>3, InFlight, WinnerExists
    <2>. QED
      BY <2>1
  <1>5. Go(w, next) /\ JustRead
    BY DEF ListVotes
  <1> HIDE DEF winner
  <1>6. winner \in DOMAIN stories /\ winner \in Nat
    BY <1>3, <1>4
  <1>7. /\ next \in Requests /\ next.pc = "markWinner" /\ next.op = r.op /\ next.who = r.who
        /\ next.at = r.at /\ next.story = winner /\ next.room = r.room /\ next.round = r.round
    BY <1>1, <1>6 DEF Requests, Calls
  <1> HIDE DEF next
  <1>8. FitsRounds(next, rounds) /\ FitsStories(next, stories) /\ FitsOperation(next)
    BY <1>1, <1>2, <1>6, <1>7 DEF Fits, FitsRounds, FitsStories, FitsOperation, OnRow
  <1>9. next.pc # "idle" /\ next # Idle /\ next.round.pausedAt <= now
    BY <1>1, <1>7 DEF Idle, Fits
  <1>10. Fits(next, now, rounds, stories)
    BY <1>7, <1>8, <1>9 DEF Fits
  <1>. QED
    BY <1>5, <1>10, CallReads

LEMMA MarkWinnerEffect ==
  ASSUME FlightInv, NEW w \in Workers, now' = now, MarkWinner(w)
  PROVE  Effect(w)
  <1> DEFINE s   == req[w].story
             row == [stories[s] EXCEPT !.isRevealed = TRUE]
  <1>1. s \in DOMAIN stories
    BY InFlight DEF MarkWinner, At, Fits, FitsStories
  <1>2. stories[s] \in Stories
    BY <1>1, InFlight
  <1>3. row \in Stories /\ row.round = stories[s].round
    BY <1>2 DEF Stories
  <1>4. stories' = [stories EXCEPT ![s] = row]
    BY DEF MarkWinner
  <1> HIDE DEF row
  <1>5. stories' \in Seq(Stories)
    BY <1>1, <1>3, <1>4, InFlight, ReplaceRow
  <1>6. \A t \in DOMAIN stories : t \in DOMAIN stories' /\ stories'[t].round = stories[t].round
    BY <1>1, <1>3, <1>4
  <1>. QED
    BY <1>5, <1>6, InFlight, CallChangesBallots DEF MarkWinner

-----------------------------------------------------------------------------
(* The theorems.                                                           *)

LEMMA ServeEffect ==
  ASSUME FlightInv, NEW w \in Workers, now' = now, Serve(w) \/ Abort(w)
  PROVE  Effect(w)
  <1>1. CASE Abort(w)
    BY <1>1, CallEnds DEF Abort
  <1>2. CASE ReadRoom(w) \/ Authenticate(w) \/ Available(w) \/ ListUsers(w)
    BY <1>2, ReadRoomEffect, AuthenticateEffect, AvailableEffect, ListUsersEffect
  <1>3. CASE ReadCurrent(w) \/ SyncRoom(w) \/ SyncWrite(w) \/ RereadCurrent(w)
    BY <1>3, ReadCurrentEffect, SyncRoomEffect, SyncWriteEffect, RereadCurrentEffect
  <1>4. CASE CountUsers(w) \/ CreateUser(w) \/ DeleteUser(w) \/ CountLeft(w) \/ CloseRoom(w)
    BY <1>4, CountUsersEffect, CreateUserEffect, DeleteUserEffect, CountLeftEffect,
       CloseRoomEffect
  <1>5. CASE OpenFirst(w) \/ ResumeRound(w) \/ SetActive(w)
    BY <1>5, OpenFirstEffect, ResumeRoundEffect, SetActiveEffect
  <1>6. CASE Toggle(w) \/ MarkRound(w) \/ Progress(w) \/ OpenNext(w)
    BY <1>6, ToggleEffect, MarkRoundEffect, ProgressEffect, OpenNextEffect
  <1>7. CASE ReadRoundRow(w) \/ CheckStory(w) \/ InsertStory(w) \/ CheckVote(w) \/ InsertVote(w)
    BY <1>7, ReadRoundRowEffect, CheckStoryEffect, InsertStoryEffect, CheckVoteEffect,
       InsertVoteEffect
  <1>8. CASE ListStories(w) \/ ListVotes(w) \/ MarkWinner(w)
    BY <1>8, ListStoriesEffect, ListVotesEffect, MarkWinnerEffect
  <1>. QED
    BY <1>1, <1>2, <1>3, <1>4, <1>5, <1>6, <1>7, <1>8 DEF Serve

\* A call of one worker takes nothing from the others.
LEMMA EffectKeeps ==
  ASSUME FlightInv, NEW w \in Workers, Effect(w), arrived' \in 0..MaxRequests
  PROVE  FlightInv'
  <1>1. /\ now \in Nat /\ now' \in Nat /\ (rounds # <<>> => rounds' # <<>>)
    <2>1. /\ rounds \in Seq(Rounds) /\ rounds' \in Seq(Rounds) /\ now \in Nat /\ now' \in Nat
          /\ Grown(now, rounds, stories, now', rounds', stories')
      BY DEF FlightInv, Effect, TypeOK
    <2>2. CASE rounds # <<>>
      <3>1. 1 \in DOMAIN rounds
        BY <2>1, <2>2
      <3>2. 1 \in DOMAIN rounds'
        BY <2>1, <3>1 DEF Grown
      <3>. QED
        BY <2>1, <3>2
    <2>. QED
      BY <2>1, <2>2
  <1>2. \A v \in Workers : Fits(req'[v], now', rounds', stories')
    <2> SUFFICES ASSUME NEW v \in Workers PROVE Fits(req'[v], now', rounds', stories')
      OBVIOUS
    <2>1. CASE v = w
      BY <2>1 DEF Effect
    <2>2. CASE v # w
      <3>1. req'[v] = req[v] /\ Fits(req[v], now, rounds, stories)
        BY <2>2 DEF FlightInv, Effect
      <3>2. Grown(now, rounds, stories, now', rounds', stories')
        BY DEF Effect
      <3>. QED
        BY <1>1, <3>1, <3>2, FitsGrown
    <2>. QED
      BY <2>1, <2>2
  <1>3. req' \in [Workers -> Requests]
    <2>1. req'[w] \in Requests
      BY DEF Effect, Fits
    <2> DEFINE r == req'[w]
    <2>2. req' = [req EXCEPT ![w] = r]
      BY DEF Effect
    <2> HIDE DEF r
    <2>. QED
      BY <2>1, <2>2 DEF FlightInv, r
  <1>. QED
    BY <1>2, <1>3 DEF FlightInv, Effect

LEMMA TickKeepsRequests ==
  ASSUME FlightInv, Tick, UNCHANGED <<req, arrived>>
  PROVE  FlightInv'
  <1>1. /\ now \in Nat /\ now' = now + 1 /\ UNCHANGED <<room, user, rounds, stories, votes>>
    BY DEF FlightInv, TypeOK, Tick
  <1>2. TypeOK'
    <2>1. \A i \in DOMAIN rounds : rounds[i] \in Rounds /\ rounds[i].pausedAt <= now
      BY DEF FlightInv, TypeOK
    <2>2. \A i \in DOMAIN rounds : rounds[i].pausedAt <= now + 1
      BY <1>1, <2>1 DEF Rounds, NoTime
    <2>. QED
      BY <1>1, <2>2 DEF FlightInv, TypeOK
  <1>3. RoundsChain'
    BY <1>1 DEF FlightInv, RoundsChain
  <1>4. Grown(now, rounds, stories, now', rounds', stories')
    BY <1>1 DEF Grown
  <1>5. \A w \in Workers : Fits(req[w], now', rounds', stories')
    BY <1>1, <1>4, FitsGrown DEF FlightInv
  <1>. QED
    BY <1>1, <1>2, <1>3, <1>5 DEF FlightInv

\* Requests served one at a time keep the rounds in a chain.
LEMMA InvChain ==
  ASSUME Inv
  PROVE  TypeOK /\ RoundsChain
  <1>1. TypeOK /\ RoundsInOrder /\ StatusMatchesProgress
    BY InvParts
  <1>2. rounds \in Seq(Rounds) /\ DOMAIN rounds = 1..Len(rounds) /\ Len(rounds) \in Nat
    BY <1>1 DEF TypeOK
  <1>3. ASSUME NEW i \in DOMAIN rounds
        PROVE  /\ rounds[i].number <= MaxRounds
               /\ rounds[i].number > 1 =>
                    \E j \in 1..(i - 1) : rounds[j].number = rounds[i].number - 1
    <2>1. rounds[i].number = i /\ i <= MaxRounds /\ i \in Nat
      BY <1>1, <1>2 DEF RoundsInOrder
    <2>2. CASE i > 1
      <3>1. i - 1 \in 1..(i - 1) /\ i - 1 \in DOMAIN rounds
        BY <1>2, <2>1, <2>2
      <3>2. rounds[i - 1].number = i - 1
        BY <1>1, <3>1 DEF RoundsInOrder
      <3>. QED
        BY <2>1, <3>1, <3>2
    <2>. QED
      BY <2>1, <2>2
  <1>. QED
    BY <1>1, <1>3 DEF RoundsChain, StatusMatchesProgress

LEMMA BallotChain == BallotInv => TypeOK /\ RoundsChain
  BY InvChain DEF BallotInv

LEMMA HistoryKeeps ==
  ASSUME CInv, arrived = 0, Next, UNCHANGED <<req, arrived>>
  PROVE  CInv'
  <1>1. BallotInv' /\ Quiescent'
    <2>1. BallotInv /\ Quiescent
      BY DEF CInv, FlightInv
    <2>. QED
      BY <2>1, NextBallots DEF Quiescent
  <1>2. TypeOK' /\ RoundsChain'
    <2>1. BallotInv'
      BY <1>1
    <2>. QED
      BY <2>1, BallotChain, PTL
  <1>3. \A w \in Workers : Fits(req'[w], now', rounds', stories')
    <2>1. now' \in Nat
      BY <1>2 DEF TypeOK
    <2>. QED
      BY <1>1, <2>1, IdleFits DEF Quiescent
  <1>. QED
    BY <1>1, <1>2, <1>3 DEF CInv, FlightInv

LEMMA CInvStutters ==
  ASSUME CInv, UNCHANGED cvars
  PROVE  CInv'
  <1>1. UNCHANGED vars /\ UNCHANGED <<now, room, user, rounds, stories, votes, req, arrived>>
    BY DEF cvars, vars
  <1>2. BallotInv => BallotInv'
    BY <1>1, StutterKeeps DEF BallotInv, OneBallotEach, vars
  <1>. QED
    BY <1>1, <1>2 DEF CInv, FlightInv, TypeOK, RoundsChain, Quiescent

\* Only a worker with a request makes calls.
LEMMA CallInFlight ==
  ASSUME NEW w \in Workers, Serve(w) \/ Abort(w)
  PROVE  req[w].pc # "idle"
  BY DEF Serve, Abort, At, ReadRoom, Authenticate, Available, ListUsers,
     ReadCurrent, SyncRoom, SyncWrite, RereadCurrent, CountUsers, CreateUser, DeleteUser,
     CountLeft, CloseRoom, OpenFirst, ResumeRound, SetActive, Toggle, MarkRound, Progress,
     OpenNext, ReadRoundRow, CheckStory, InsertStory, CheckVote, InsertVote,
     ListStories, ListVotes, MarkWinner

LEMMA CNextKeeps ==
  ASSUME CInv, CNext
  PROVE  CInv'
  <1>1. arrived \in Nat /\ MaxRequests \in Nat /\ arrived <= MaxRequests /\ FlightInv
    BY BurstAssumption DEF CInv, FlightInv
  <1>2. CASE arrived = 0 /\ Next /\ UNCHANGED <<req, arrived>>
    BY <1>2, HistoryKeeps
  <1>3. CASE arrived > 0 /\ Tick /\ UNCHANGED <<req, arrived>>
    BY <1>1, <1>3, TickKeepsRequests DEF CInv
  <1>4. ASSUME arrived < MaxRequests, arrived' = arrived + 1, NEW w \in Workers, Receive(w),
               UNCHANGED now
        PROVE  CInv'
    <2>1. FlightInv' /\ ~(arrived' = 0)
      BY <1>1, <1>4, ArriveEffect, EffectKeeps
    <2>. QED
      BY <2>1 DEF CInv
  <1>5. ASSUME NEW w \in Workers, Serve(w) \/ Abort(w), UNCHANGED <<now, arrived>>
        PROVE  CInv'
    <2>1. arrived > 0
      <3>1. req[w].pc # "idle"
        BY <1>5, CallInFlight
      <3>2. arrived # 0
        BY <3>1 DEF CInv, FlightInv, Quiescent, Idle
      <3>. QED
        BY <1>1, <3>2
    <2>2. FlightInv' /\ ~(arrived' = 0)
      BY <1>1, <1>5, <2>1, ServeEffect, EffectKeeps
    <2>. QED
      BY <2>2 DEF CInv
  <1>6. CASE Over
    BY <1>6, CInvStutters DEF Over, cvars
  <1>. QED
    BY <1>2, <1>3, <1>4, <1>5, <1>6 DEF CNext

LEMMA CInitInv == CInit => CInv
  <1> SUFFICES ASSUME CInit PROVE CInv
    OBVIOUS
  <1>1. BallotInv
    BY InitInv DEF BallotInv, CInit, Init, OneBallotEach
  <1>2. TypeOK /\ RoundsChain
    BY <1>1, BallotChain
  <1>3. req = [w \in Workers |-> Idle] /\ arrived = 0 /\ MaxRequests \in Nat
    BY BurstAssumption DEF CInit
  <1>4. \A w \in Workers : Fits(req[w], now, rounds, stories)
    BY <1>2, <1>3, IdleFits DEF TypeOK
  <1>5. req \in [Workers -> Requests]
    <2>1. \A w \in Workers : Idle \in Requests
      BY <1>3, <1>4 DEF Fits
    <2>. QED
      BY <1>3, <2>1
  <1>. QED
    BY <1>1, <1>2, <1>3, <1>4, <1>5 DEF CInv, FlightInv, Quiescent

THEOREM BurstInvariance == CSpec => []CInv
  BY CInitInv, CNextKeeps, CInvStutters, PTL DEF CSpec

\* However many requests overlap, what they hold on to is well-typed, and a
\* worker without a request holds on to nothing.
THEOREM RequestsTyped == CSpec => []CTypeOK
  <1>1. CInv => CTypeOK
    BY DEF CInv, FlightInv, CTypeOK, Fits
  <1>. QED
    BY <1>1, BurstInvariance, PTL

\* However StartGame and NextRound overlap, no round is opened beyond the last
\* or without its predecessor, and a room only becomes active with a round.
THEOREM RoundsStayChained == CSpec => []RoundsChain
  BY BurstInvariance, PTL DEF CInv, FlightInv

LEMMA RoundsKeepNumbers ==
  ASSUME CInv, CInv', CNext
  PROVE  \A i \in DOMAIN rounds : i \in DOMAIN rounds' /\ rounds'[i].number = rounds[i].number
  <1>1. CASE arrived = 0 /\ Next /\ UNCHANGED <<req, arrived>>
    <2>1. Inv /\ Inv' /\ Forward(game, game')
      BY <1>1, NextKeeps DEF CInv, FlightInv, BallotInv
    <2>2. /\ rounds \in Seq(Rounds) /\ rounds' \in Seq(Rounds)
          /\ Len(rounds) \in Nat /\ Len(rounds') \in Nat /\ Len(rounds) <= Len(rounds')
          /\ \A i \in 1..Len(rounds) : rounds[i].number = i
          /\ \A i \in 1..Len(rounds') : rounds'[i].number = i
      BY <2>1 DEF Inv, Sound, SoundRounds, Games, game, Forward
    <2>. QED
      BY <2>2
  <1>2. ASSUME NEW w \in Workers, Effect(w)
        PROVE  \A i \in DOMAIN rounds :
                 i \in DOMAIN rounds' /\ rounds'[i].number = rounds[i].number
    BY <1>2 DEF Effect, Grown
  <1>3. ASSUME NEW w \in Workers, UNCHANGED now, Receive(w) PROVE Effect(w)
    BY BurstInFlight, <1>3, ArriveEffect
  <1>4. ASSUME NEW w \in Workers, UNCHANGED <<now, arrived>>, Serve(w) \/ Abort(w) PROVE Effect(w)
    BY BurstInFlight, <1>4, ServeEffect
  <1>5. CASE Tick \/ Over
    BY <1>5 DEF Tick, Over, vars
  <1>. QED
    BY <1>1, <1>2, <1>3, <1>4, <1>5 DEF CNext

LatestIsHighest ==
  rounds # <<>> =>
    /\ Latest \in DOMAIN rounds
    /\ Postgres => \A i \in DOMAIN rounds : rounds[i].number <= rounds[Latest].number

LEMMA LatestHighest == CInv => LatestIsHighest
  BY LatestRound DEF CInv, FlightInv, TypeOK, LatestIsHighest

\* Over the database a game is never thrown back to an earlier round, however
\* late a request inserts the round it has opened.
THEOREM DatabaseNeverFallsBack ==
  ASSUME Postgres
  PROVE  CSpec => CurrentNeverFallsBack
  <1> DEFINE A == rounds # <<>> => rounds[Latest].number <= rounds'[Latest'].number
  <1>1. ASSUME CInv, CNext, rounds # <<>>
        PROVE  rounds[Latest].number <= rounds'[Latest'].number
    <2>1. CInv'
      BY <1>1, CNextKeeps
    <2>2. /\ Latest \in DOMAIN rounds /\ Latest \in DOMAIN rounds'
          /\ rounds'[Latest].number = rounds[Latest].number
      BY <1>1, <2>1, LatestHighest, RoundsKeepNumbers DEF LatestIsHighest
    <2>3. LatestIsHighest'
      BY <2>1, LatestHighest, PTL
    <2>4. rounds' # <<>>
      BY <2>1, <2>2 DEF CInv, FlightInv, TypeOK
    <2>. QED
      BY <2>2, <2>3, <2>4 DEF LatestIsHighest
  <1>2. CInv /\ [CNext]_cvars => [A]_rounds
    BY <1>1 DEF cvars, vars
  <1>. QED
    BY <1>2, BurstInvariance, PTL DEF CSpec, CurrentNeverFallsBack

-----------------------------------------------------------------------------
(* How much too much.  What is stored and what is past its check, together *)
(* never exceed the limit by more than the requests that can be in flight: *)
(* a request passes its check only while the limit holds, and an insert    *)
(* turns what was past its check into what is stored.                      *)

\* Requests past their check: to insert a user, or a ballot of p in round i.
Joining == {w \in Workers : req[w].pc = "createUser"}

Pending(call, i, p) ==
  {w \in Workers : req[w].pc = call /\ req[w].at = i /\ req[w].who = p}

StoriesBy(i, p) == {s \in StoriesOf(i) : stories[s].author = p}

VotesBy(i, p) == {v \in DOMAIN votes : votes[v].round = i /\ votes[v].voter = p}

UsersCounted ==
  /\ Cardinality(Members) + Cardinality(Joining) <= MaxPlayers + Cardinality(Workers) - 1
  /\ arrived = 0 => Cardinality(Members) <= MaxPlayers

StoriesCounted ==
  \A i, p : Cardinality(StoriesBy(i, p)) + Cardinality(Pending("insertStory", i, p))
              <= Cardinality(Workers)

VotesCountedOnce ==
  \A i, p : IF Postgres
              THEN Cardinality(VotesBy(i, p)) <= 1
              ELSE Cardinality(VotesBy(i, p)) + Cardinality(Pending("insertVote", i, p))
                     <= Cardinality(Workers)

CountInv == UsersCounted /\ StoriesCounted /\ VotesCountedOnce

LEMMA FewerIsLess ==
  ASSUME NEW S, NEW F, IsFiniteSet(S), IsFiniteSet(F), NEW S2, NEW F2,
         S2 \subseteq S, F2 \subseteq F
  PROVE  /\ Cardinality(S2) + Cardinality(F2) <= Cardinality(S) + Cardinality(F)
         /\ Cardinality(S2) <= Cardinality(S) /\ Cardinality(S2) \in Nat /\ Cardinality(S) \in Nat
  <1>1. /\ IsFiniteSet(S2) /\ IsFiniteSet(F2)
        /\ Cardinality(S2) <= Cardinality(S) /\ Cardinality(F2) <= Cardinality(F)
    BY FS_Subset
  <1>2. /\ Cardinality(S) \in Nat /\ Cardinality(F) \in Nat
        /\ Cardinality(S2) \in Nat /\ Cardinality(F2) \in Nat
    BY <1>1, FS_CardinalityType
  <1>. QED
    BY <1>1, <1>2

\* An insert: one more is stored, and its request is no longer to come.
LEMMA InsertBalances ==
  ASSUME NEW S, NEW F, IsFiniteSet(S), IsFiniteSet(F), NEW S2, NEW F2,
         NEW x, NEW w \in F, S2 \subseteq S \cup {x}, F2 \subseteq F \ {w}
  PROVE  Cardinality(S2) + Cardinality(F2) <= Cardinality(S) + Cardinality(F)
  <1>1. /\ IsFiniteSet(S \cup {x}) /\ Cardinality(S \cup {x}) \in {Cardinality(S), Cardinality(S) + 1}
        /\ IsFiniteSet(F \ {w}) /\ Cardinality(F \ {w}) = Cardinality(F) - 1
    BY FS_AddElement, FS_RemoveElement
  <1>2. /\ IsFiniteSet(S2) /\ IsFiniteSet(F2)
        /\ Cardinality(S2) <= Cardinality(S \cup {x}) /\ Cardinality(F2) <= Cardinality(F \ {w})
    BY <1>1, FS_Subset
  <1>3. /\ Cardinality(S) \in Nat /\ Cardinality(F) \in Nat
        /\ Cardinality(S2) \in Nat /\ Cardinality(F2) \in Nat
    BY <1>2, FS_CardinalityType
  <1>. QED
    BY <1>1, <1>2, <1>3

\* A set with one more element, or with just one.
LEMMA OneMore ==
  ASSUME NEW S, IsFiniteSet(S), NEW x, NEW S2, S2 \subseteq S \cup {x}
  PROVE  IsFiniteSet(S2) /\ Cardinality(S2) \in Nat
  <1>1. IsFiniteSet(S \cup {x})
    BY FS_AddElement
  <1>. QED
    BY <1>1, FS_Subset, FS_CardinalityType

LEMMA JustOne ==
  ASSUME NEW x, NEW S2, S2 \subseteq {x}
  PROVE  Cardinality(S2) \in Nat /\ Cardinality(S2) <= 1
  <1>1. IsFiniteSet({x}) /\ Cardinality({x}) = 1
    BY FS_Singleton
  <1>2. IsFiniteSet(S2) /\ Cardinality(S2) <= Cardinality({x})
    BY <1>1, FS_Subset
  <1>. QED
    BY <1>1, <1>2, FS_CardinalityType

LEMMA CountedSets ==
  ASSUME FlightInv
  PROVE  /\ IsFiniteSet(Members) /\ IsFiniteSet(Joining)
         /\ IsFiniteSet(Workers) /\ Cardinality(Workers) \in Nat \ {0}
         /\ \A i, p, call : IsFiniteSet(Pending(call, i, p)) /\ Pending(call, i, p) \subseteq Workers
         /\ \A i, p : IsFiniteSet(StoriesBy(i, p)) /\ IsFiniteSet(VotesBy(i, p))
         /\ \A i, p : VotesBy(i, p) \subseteq DOMAIN votes
  <1>1. IsFiniteSet(Players) /\ IsFiniteSet(Workers) /\ Workers # {}
    BY PlayersAssumption, BurstAssumption
  <1>2. /\ Members \subseteq Players /\ Joining \subseteq Workers
        /\ \A i, p, call : Pending(call, i, p) \subseteq Workers
    BY DEF Members, Joining, Pending
  <1>3. Cardinality(Workers) \in Nat \ {0}
    BY <1>1, FS_CardinalityType, FS_EmptySet
  <1>4. /\ DOMAIN stories = 1..Len(stories) /\ Len(stories) \in Nat
        /\ DOMAIN votes = 1..Len(votes) /\ Len(votes) \in Nat
    BY DEF FlightInv, TypeOK
  <1>5. IsFiniteSet(DOMAIN stories) /\ IsFiniteSet(DOMAIN votes)
    BY <1>4, FS_Interval
  <1>6. \A i, p : StoriesBy(i, p) \subseteq DOMAIN stories /\ VotesBy(i, p) \subseteq DOMAIN votes
    BY DEF StoriesBy, StoriesOf, VotesBy
  <1>. QED
    BY <1>1, <1>2, <1>3, <1>5, <1>6, FS_Subset

-----------------------------------------------------------------------------
(* What each call does to the counts.                                      *)

\* The call of worker w stores nothing new, nor is it going to.
NoUser(w)  == Members' \subseteq Members /\ req'[w].pc # "createUser"
NoStory(w) == /\ \A i, p : StoriesBy(i, p)' \subseteq StoriesBy(i, p)
              /\ req'[w].pc # "insertStory"
NoVote(w)  == votes' = votes /\ req'[w].pc # "insertVote"

LEMMA SameRowsNothing ==
  ASSUME JustRead \/ UNCHANGED <<user, stories, votes>>
  PROVE  /\ Members' = Members /\ votes' = votes
         /\ \A i, p : StoriesBy(i, p)' \subseteq StoriesBy(i, p)
  BY DEF JustRead, Members, StoriesBy, StoriesOf

LEMMA GoesTo ==
  ASSUME FlightInv, NEW w \in Workers
  PROVE  /\ \A r : Go(w, r) => req'[w] = r
         /\ \A pc : Call(w, pc) => req'[w].pc = pc
         /\ Finish(w) => req'[w].pc = "idle"
         /\ Build(w) => req'[w].pc = "listUsers"
         /\ \A then : Sync(w, then) => req'[w].pc = "readCurrent"
         /\ \A then : Reread(w, then) => req'[w].pc = "reread"
  <1>1. w \in DOMAIN req /\ req[w] \in Requests
    BY DEF FlightInv
  <1>2. \A r : Go(w, r) => req'[w] = r
    BY <1>1 DEF Go
  <1>3. \A pc : Call(w, pc) => req'[w].pc = pc
    BY <1>1, <1>2 DEF Call, Requests
  <1>4. Finish(w) => req'[w].pc = "idle"
    BY <1>2 DEF Finish, Idle
  <1>5. Build(w) => req'[w].pc = "listUsers"
    <2> DEFINE r == [req[w] EXCEPT !.pc = "listUsers", !.room = NoRoom, !.round = NoRow]
    <2>1. r.pc = "listUsers"
      BY <1>1 DEF Requests
    <2> HIDE DEF r
    <2>. QED
      BY <1>2, <2>1 DEF Build, r
  <1>6. \A then : Sync(w, then) => req'[w].pc = "readCurrent"
    BY <1>1, <1>2 DEF Sync, Requests
  <1>7. \A then : Reread(w, then) => req'[w].pc = "reread"
    BY <1>1, <1>2 DEF Reread, Requests
  <1>. QED
    BY <1>2, <1>3, <1>4, <1>5, <1>6, <1>7

\* The calls that count for none of the three.
LEMMA SharedCallsStoreNothing ==
  ASSUME FlightInv, NEW w \in Workers,
         \/ ReadRoom(w) \/ Authenticate(w) \/ Available(w) \/ ListUsers(w)
         \/ ReadCurrent(w) \/ SyncRoom(w) \/ ReadRoundRow(w)
  PROVE  UNCHANGED <<user, stories, votes>> /\
         req'[w].pc \notin {"createUser", "insertStory", "insertVote"}
  <1> USE GoesTo
  <1>1. req[w] \in Requests /\ Fits(req[w], now, rounds, stories)
    BY DEF FlightInv
  <1>2. CASE ReadRoom(w)
    BY <1>1, <1>2 DEF ReadRoom, JustRead, Requests
  <1>3. CASE Authenticate(w)
    <2>1. req[w].op \in HostOps \cup {"leave", "story", "vote"}
      BY <1>1, <1>3 DEF Authenticate, At, Fits, FitsOperation
    <2>. QED
      BY <1>3, <2>1 DEF Authenticate, JustRead, HostOps
  <1>4. CASE Available(w)
    BY <1>4 DEF Available, JustRead, UpdateRoom
  <1>5. CASE ListUsers(w)
    BY <1>5 DEF ListUsers, JustRead
  <1>6. CASE ReadCurrent(w)
    BY <1>1, <1>6 DEF ReadCurrent, JustRead, Requests
  <1>7. CASE SyncRoom(w)
    BY <1>1, <1>7 DEF SyncRoom, JustRead, Requests
  <1>8. CASE ReadRoundRow(w)
    BY <1>1, <1>8 DEF ReadRoundRow, JustRead, Requests
  <1>. QED
    BY <1>2, <1>3, <1>4, <1>5, <1>6, <1>7, <1>8

LEMMA SyncStoresNothing ==
  ASSUME FlightInv, NEW w \in Workers, SyncWrite(w) \/ RereadCurrent(w)
  PROVE  UNCHANGED <<user, stories, votes>> /\
         req'[w].pc \notin {"createUser", "insertStory", "insertVote"}
  <1> USE GoesTo
  <1>1. req[w] \in Requests /\ Fits(req[w], now, rounds, stories)
    BY DEF FlightInv
  <1>2. CASE SyncWrite(w)
    <2> DEFINE g == SyncRound(Seen(w), req[w].at)
               r == [req[w] EXCEPT !.room = g.room, !.round = g.rounds[req[w].at]]
    <2>1. UNCHANGED <<user, stories, votes>> /\ (Finish(w) \/ Synced(w, g))
      BY <1>2 DEF SyncWrite, UpdateRoom, UpdateRound, JustRead
    <2>2. CASE Synced(w, g)
      <3>1. \A pc : [r EXCEPT !.pc = pc].pc = pc
        BY <1>1 DEF Requests
      <3> HIDE DEF g
      <3>2. \/ Build(w) \/ Finish(w)
            \/ \E pc \in {"reread", "listStories", "authenticate"} : Go(w, [r EXCEPT !.pc = pc])
        BY <2>2 DEF Synced
      <3>. QED
        BY <2>1, <3>1, <3>2
    <2>. QED
      BY <2>1, <2>2
  <1>3. CASE RereadCurrent(w)
    <2>1. req[w].then \in Thens
      BY <1>1, RequestFields
    <2>. QED
      BY <1>1, <1>3, <2>1 DEF RereadCurrent, JustRead, Requests, Thens
  <1>. QED
    BY <1>2, <1>3

LEMMA HostCallsStoreNothing ==
  ASSUME FlightInv, NEW w \in Workers,
         \/ CountLeft(w) \/ CloseRoom(w) \/ OpenFirst(w) \/ ResumeRound(w) \/ SetActive(w)
         \/ Toggle(w) \/ MarkRound(w) \/ Progress(w) \/ OpenNext(w) \/ Abort(w)
         \/ ListStories(w) \/ ListVotes(w)
  PROVE  UNCHANGED <<user, stories, votes>> /\
         req'[w].pc \notin {"createUser", "insertStory", "insertVote"}
  <1> USE GoesTo
  <1>1. req[w] \in Requests
    BY DEF FlightInv
  <1>2. CASE CountLeft(w) \/ CloseRoom(w) \/ Abort(w)
    BY <1>2 DEF CountLeft, CloseRoom, Abort, JustRead, UpdateRoom
  <1>3. CASE OpenFirst(w) \/ ResumeRound(w) \/ SetActive(w)
    BY <1>3 DEF OpenFirst, ResumeRound, SetActive, JustRead, UpdateRoom, UpdateRound, CreateRound
  <1>4. CASE Toggle(w)
    <2> DEFINE row  == [req[w].room EXCEPT !.status = IF @ = "active" THEN "paused" ELSE "active"]
               next == [req[w] EXCEPT !.room = row, !.pc = "reread", !.then = "mark"]
    <2> HIDE DEF row
    <2>1. next.pc = "reread"
      BY <1>1 DEF Requests
    <2>2. Go(w, next) /\ UpdateRoom(row)
      BY <1>4 DEF Toggle, row
    <2> HIDE DEF next
    <2>. QED
      BY <2>1, <2>2 DEF UpdateRoom
  <1>5. CASE MarkRound(w)
    <2>1. Sync(w, "build")
      BY <1>5 DEF MarkRound
    <2>2. req[w].room.status \in {"active", "paused"}
      BY <1>5 DEF FlightInv, MarkRound, At, Fits, FitsOperation, Begun
    <2>3. UNCHANGED <<user, stories, votes>>
      BY <1>5, <2>2 DEF MarkRound, UpdateRound, JustRead
    <2>. QED
      BY <2>1, <2>3
  <1>6. CASE Progress(w)
    <2>1. /\ UNCHANGED <<user, stories, votes>>
          /\ \/ Build(w)
             \/ Go(w, [req[w] EXCEPT !.pc = "openNext", !.round = NewRound(req[w].round.number + 1)])
      BY <1>6 DEF Progress, UpdateRoom, UpdateRound
    <2>2. \A row : [req[w] EXCEPT !.pc = "openNext", !.round = row].pc = "openNext"
      BY <1>1 DEF Requests
    <2>. QED
      BY <2>1, <2>2
  <1>7. CASE OpenNext(w)
    BY <1>7 DEF OpenNext, CreateRound
  <1>8. CASE ListStories(w)
    BY <1>1, <1>8 DEF ListStories, JustRead, Requests
  <1>9. CASE ListVotes(w)
    <2>1. UNCHANGED <<user, stories, votes>> /\
          \E s : Go(w, [req[w] EXCEPT !.pc = "markWinner", !.story = s])
      BY <1>9 DEF ListVotes, JustRead
    <2>. QED
      BY <1>1, <2>1 DEF Requests
  <1>. QED
    BY <1>2, <1>3, <1>4, <1>5, <1>6, <1>7, <1>8, <1>9

\* The calls that do count, and those next to them.
CountingCall(w) ==
  \/ CountUsers(w) \/ CreateUser(w) \/ DeleteUser(w)
  \/ CheckStory(w) \/ InsertStory(w) \/ CheckVote(w) \/ InsertVote(w) \/ MarkWinner(w)

LEMMA OtherCallsStoreNothing ==
  ASSUME FlightInv, NEW w \in Workers, Receive(w) \/ Serve(w) \/ Abort(w), ~CountingCall(w)
  PROVE  UNCHANGED <<user, stories, votes>> /\
         req'[w].pc \notin {"createUser", "insertStory", "insertVote"}
  <1>1. CASE Receive(w)
    <2>1. PICK op \in Ops, p \in Players \cup {NoPlayer}, i \in 0..Len(rounds),
               s \in 0..Len(stories) : Arrive(w, op, p, i, s)
      BY <1>1 DEF Receive
    <2> DEFINE pc   == IF op \in RoundOps THEN "readRound" ELSE "readRoom"
               next == [Idle EXCEPT !.op = op, !.who = p, !.at = i, !.story = s, !.pc = pc]
    <2>2. pc \in {"readRound", "readRoom"}
      OBVIOUS
    <2>3. Go(w, next) /\ JustRead
      BY <2>1 DEF Arrive
    <2> HIDE DEF pc
    <2>4. next.pc = pc
      BY DEF Idle
    <2> HIDE DEF next
    <2>. QED
      BY <2>2, <2>3, <2>4, GoesTo DEF JustRead
  <1>2. CASE \/ ReadRoom(w) \/ Authenticate(w) \/ Available(w) \/ ListUsers(w)
             \/ ReadCurrent(w) \/ SyncRoom(w) \/ ReadRoundRow(w)
    BY <1>2, SharedCallsStoreNothing
  <1>3. CASE SyncWrite(w) \/ RereadCurrent(w)
    BY <1>3, SyncStoresNothing
  <1>4. CASE \/ CountLeft(w) \/ CloseRoom(w) \/ OpenFirst(w) \/ ResumeRound(w) \/ SetActive(w)
             \/ Toggle(w) \/ MarkRound(w) \/ Progress(w) \/ OpenNext(w) \/ Abort(w)
             \/ ListStories(w) \/ ListVotes(w)
    BY <1>4, HostCallsStoreNothing
  <1>. QED
    BY <1>1, <1>2, <1>3, <1>4 DEF Serve, CountingCall

\* How the requests past their check change when worker w makes a call.
LEMMA PendingAfter ==
  ASSUME FlightInv, NEW w \in Workers, req' = [req EXCEPT ![w] = req'[w]]
  PROVE  /\ Joining' \subseteq Joining \cup {w}
         /\ req'[w].pc # "createUser" => Joining' \subseteq Joining \ {w}
         /\ \A call, i, p : Pending(call, i, p)' \subseteq Pending(call, i, p) \cup {w}
         /\ \A call, i, p : req'[w].pc # call => Pending(call, i, p)' \subseteq Pending(call, i, p) \ {w}
         /\ \A call, i, p : w \in Pending(call, i, p)' => req'[w].at = i /\ req'[w].who = p
  <1> DEFINE r == req'[w]
  <1>1. \A v \in Workers : req'[v] = IF v = w THEN r ELSE req[v]
    BY DEF FlightInv
  <1> HIDE DEF r
  <1>. QED
    BY <1>1 DEF Joining, Pending, r

LEMMA CallKeepsUsers ==
  ASSUME FlightInv, UsersCounted, NEW w \in Workers, req' = [req EXCEPT ![w] = req'[w]],
         Receive(w) \/ Serve(w) \/ Abort(w)
  PROVE  Cardinality(Members') + Cardinality(Joining') <= MaxPlayers + Cardinality(Workers) - 1
  <1> USE CountedSets, LimitsAssumption
  <1>1. ASSUME NoUser(w)
        PROVE  Cardinality(Members') + Cardinality(Joining') <= MaxPlayers + Cardinality(Workers) - 1
    <2>1. Members' \subseteq Members /\ Joining' \subseteq Joining
      BY <1>1, PendingAfter DEF NoUser
    <2>2. Cardinality(Members') + Cardinality(Joining') <= Cardinality(Members) + Cardinality(Joining)
      BY <2>1, FewerIsLess
    <2>3. /\ Cardinality(Members) \in Nat /\ Cardinality(Joining) \in Nat
          /\ Cardinality(Members') \in Nat /\ Cardinality(Joining') \in Nat
      BY <2>1, FS_CardinalityType, FS_Subset
    <2>. QED
      BY <2>2, <2>3 DEF UsersCounted
  <1>2. CASE CountUsers(w)
    <2>1. Members' = Members
      BY <1>2 DEF CountUsers, JustRead, Members
    <2>2. CASE Cardinality(Members) < MaxPlayers
      <3>1. Joining' \subseteq Workers
        BY DEF Joining
      <3>2. Cardinality(Joining') <= Cardinality(Workers) /\ Cardinality(Joining') \in Nat
        BY <3>1, FS_Subset, FS_CardinalityType
      <3>3. Cardinality(Members) \in Nat
        BY FS_CardinalityType
      <3>. QED
        BY <2>1, <2>2, <3>2, <3>3
    <2>3. CASE ~(Cardinality(Members) < MaxPlayers)
      BY <1>1, <1>2, <2>1, <2>3, GoesTo DEF CountUsers, NoUser
    <2>. QED
      BY <2>2, <2>3
  <1>3. CASE CreateUser(w)
    <2>1. w \in Joining
      BY <1>3 DEF CreateUser, At, Joining
    <2>2. Members' \subseteq Members \cup {req[w].who}
      BY <1>3 DEF CreateUser, Members, FlightInv, TypeOK
    <2>3. Joining' \subseteq Joining \ {w}
      BY <1>3, PendingAfter, GoesTo DEF CreateUser
    <2>4. Cardinality(Members') + Cardinality(Joining') <= Cardinality(Members) + Cardinality(Joining)
      BY <2>1, <2>2, <2>3, InsertBalances
    <2>5. IsFiniteSet(Members') /\ IsFiniteSet(Joining')
      <3>1. Members' \subseteq Players /\ Joining' \subseteq Joining
        BY <2>3 DEF Members
      <3>. QED
        BY <3>1, PlayersAssumption, FS_Subset
    <2>6. /\ Cardinality(Members) \in Nat /\ Cardinality(Joining) \in Nat
          /\ Cardinality(Members') \in Nat /\ Cardinality(Joining') \in Nat
      BY <2>5, FS_CardinalityType
    <2>. QED
      BY <2>4, <2>6 DEF UsersCounted
  <1>4. CASE DeleteUser(w)
    <2>1. Members' \subseteq Members
      BY <1>4 DEF DeleteUser, Members, FlightInv, TypeOK
    <2>2. req'[w].pc # "createUser"
      BY <1>4, GoesTo DEF DeleteUser
    <2>. QED
      BY <1>1, <2>1, <2>2 DEF NoUser
  <1>5. CASE CheckStory(w) \/ InsertStory(w) \/ CheckVote(w) \/ InsertVote(w) \/ MarkWinner(w)
    <2>1. user' = user /\ req'[w].pc # "createUser"
      BY <1>5, GoesTo DEF CheckStory, InsertStory, CheckVote, InsertVote, MarkWinner, JustRead
    <2>. QED
      BY <1>1, <2>1 DEF NoUser, Members
  <1>6. CASE ~CountingCall(w)
    <2>1. user' = user /\ req'[w].pc # "createUser"
      BY <1>6, OtherCallsStoreNothing
    <2>. QED
      BY <1>1, <2>1 DEF NoUser, Members
  <1>. QED
    BY <1>2, <1>3, <1>4, <1>5, <1>6 DEF CountingCall

LEMMA CallKeepsStories ==
  ASSUME FlightInv, StoriesCounted, NEW w \in Workers, req' = [req EXCEPT ![w] = req'[w]],
         Receive(w) \/ Serve(w) \/ Abort(w)
  PROVE  StoriesCounted'
  <1> USE CountedSets
  <1> SUFFICES ASSUME NEW i, NEW p
               PROVE  Cardinality(StoriesBy(i, p)') + Cardinality(Pending("insertStory", i, p)')
                        <= Cardinality(Workers)
    BY DEF StoriesCounted
  <1> DEFINE S  == StoriesBy(i, p)
             F  == Pending("insertStory", i, p)
             S2 == StoriesBy(i, p)'
             F2 == Pending("insertStory", i, p)'
  <1>1. IsFiniteSet(S) /\ IsFiniteSet(F)
    OBVIOUS
  <1>2. Cardinality(S) + Cardinality(F) <= Cardinality(Workers)
    BY DEF StoriesCounted
  <1>3. F2 \subseteq Workers /\ F2 \subseteq F \cup {w}
    BY PendingAfter DEF Pending
  <1>4. Cardinality(S) \in Nat /\ Cardinality(F) \in Nat
    BY <1>1, FS_CardinalityType
  <1>5. \A T : IsFiniteSet(T) => Cardinality(T) \in Nat
    BY FS_CardinalityType
  <1>6. IsFiniteSet(F2) /\ Cardinality(F2) <= Cardinality(Workers)
    BY <1>3, FS_Subset
  <1> SUFFICES Cardinality(S2) + Cardinality(F2) <= Cardinality(Workers)
    OBVIOUS
  <1>7. ASSUME S2 \subseteq S, F2 \subseteq F
        PROVE  Cardinality(S2) + Cardinality(F2) <= Cardinality(Workers)
    <2> HIDE DEF S, F, S2, F2
    <2>1. Cardinality(S2) + Cardinality(F2) <= Cardinality(S) + Cardinality(F)
      BY <1>1, <1>7, FewerIsLess
    <2>2. IsFiniteSet(S2)
      BY <1>1, <1>7, FS_Subset
    <2>. QED
      BY <1>2, <1>4, <1>5, <1>6, <2>1, <2>2
  <1>8. CASE CheckStory(w)
    <2>1. S2 \subseteq S
      BY <1>8, SameRowsNothing DEF CheckStory
    <2>2. CASE F2 \subseteq F
      BY <1>7, <2>1, <2>2
    <2>3. CASE ~(F2 \subseteq F)
      <3>1. w \in F2 /\ req'[w].pc = "insertStory"
        BY <1>3, <2>3 DEF Pending
      <3>2. req'[w].at = i /\ req'[w].who = p
        BY <3>1 DEF Pending
      <3>3. req[w] \in Requests /\ ~WroteIn(req[w].who, req[w].at) /\ Call(w, "insertStory")
        BY <1>8, <3>1, GoesTo DEF CheckStory, FlightInv
      <3>4. req'[w] = [req[w] EXCEPT !.pc = "insertStory"]
        BY <3>3, GoesTo DEF Call
      <3>5. req[w].at = i /\ req[w].who = p
        BY <3>2, <3>3, <3>4 DEF Requests
      <3>6. S2 = {}
        BY <2>1, <3>3, <3>5 DEF WroteIn, StoriesBy
      <3> HIDE DEF S2, F2
      <3>. QED
        BY <1>5, <1>6, <3>6, FS_EmptySet
    <2>. QED
      BY <2>2, <2>3
  <1>9. CASE InsertStory(w)
    <2> DEFINE n == Len(stories)
               story == [round |-> req[w].at, author |-> req[w].who, isRevealed |-> FALSE]
    <2>1. w \in Pending("insertStory", req[w].at, req[w].who)
      BY <1>9 DEF InsertStory, At, Pending
    <2>2. F2 \subseteq F \ {w}
      BY <1>9, PendingAfter, GoesTo DEF InsertStory
    <2>3. /\ DOMAIN stories = 1..n /\ n \in Nat /\ stories \in Seq(Stories)
          /\ story.round = req[w].at /\ story.author = req[w].who
          /\ stories' = Append(stories, story)
      BY <1>9 DEF InsertStory, FlightInv, TypeOK
    <2> HIDE DEF story
    <2>4. /\ DOMAIN stories' = 1..(n + 1) /\ stories'[n + 1] = story
          /\ \A s \in 1..n : stories'[s] = stories[s]
      BY <2>3
    <2>5. CASE req[w].at = i /\ req[w].who = p
      <3>1. S2 \subseteq S \cup {n + 1}
        BY <2>3, <2>4 DEF StoriesBy, StoriesOf
      <3>2. w \in F
        BY <2>1, <2>5
      <3> HIDE DEF S, F, S2, F2
      <3>3. Cardinality(S2) + Cardinality(F2) <= Cardinality(S) + Cardinality(F)
        BY <1>1, <2>2, <3>1, <3>2, InsertBalances
      <3>4. IsFiniteSet(S2)
        BY <1>1, <3>1, FS_AddElement, FS_Subset
      <3>. QED
        BY <1>2, <1>4, <1>5, <1>6, <3>3, <3>4
    <2>6. CASE ~(req[w].at = i /\ req[w].who = p)
      <3>1. S2 \subseteq S
        BY <2>3, <2>4, <2>6 DEF StoriesBy, StoriesOf
      <3>. QED
        BY <1>7, <2>2, <3>1
    <2>. QED
      BY <2>5, <2>6
  <1>10. ASSUME NoStory(w) PROVE Cardinality(S2) + Cardinality(F2) <= Cardinality(Workers)
    BY <1>7, <1>10, PendingAfter DEF NoStory
  <1>11. CASE CountUsers(w) \/ CreateUser(w) \/ DeleteUser(w) \/ CheckVote(w) \/ InsertVote(w)
    <2>1. stories' = stories /\ req'[w].pc # "insertStory"
      BY <1>11, GoesTo DEF CountUsers, CreateUser, DeleteUser, CheckVote, InsertVote, JustRead
    <2>. QED
      BY <1>10, <2>1 DEF NoStory, StoriesBy, StoriesOf
  <1>12. CASE MarkWinner(w)
    <2>1. \A s \in DOMAIN stories : stories[s] \in Stories
      BY DEF FlightInv, TypeOK
    <2>2. /\ DOMAIN stories' = DOMAIN stories
          /\ \A s \in DOMAIN stories :
               stories'[s].round = stories[s].round /\ stories'[s].author = stories[s].author
      BY <1>12, <2>1 DEF MarkWinner, Stories
    <2>3. req'[w].pc # "insertStory"
      BY <1>12, GoesTo DEF MarkWinner
    <2>. QED
      BY <1>10, <2>2, <2>3 DEF NoStory, StoriesBy, StoriesOf
  <1>13. CASE ~CountingCall(w)
    <2>1. stories' = stories /\ req'[w].pc # "insertStory"
      BY <1>13, OtherCallsStoreNothing
    <2>. QED
      BY <1>10, <2>1 DEF NoStory, StoriesBy, StoriesOf
  <1>. QED
    BY <1>8, <1>9, <1>11, <1>12, <1>13 DEF CountingCall

LEMMA VotesAfterInsert ==
  ASSUME FlightInv, NEW w \in Workers, InsertVote(w), NEW i, NEW p
  PROVE  /\ votes' = votes => VotesBy(i, p)' = VotesBy(i, p)
         /\ req[w].at = i /\ req[w].who = p =>
              VotesBy(i, p)' \subseteq VotesBy(i, p) \cup {Len(votes) + 1}
         /\ ~(req[w].at = i /\ req[w].who = p) => VotesBy(i, p)' \subseteq VotesBy(i, p)
  <1> DEFINE n == Len(votes)
             vote == [round |-> req[w].at, voter |-> req[w].who, story |-> req[w].story]
  <1>1. /\ DOMAIN votes = 1..n /\ n \in Nat /\ votes \in Seq(Votes)
        /\ vote.round = req[w].at /\ vote.voter = req[w].who
        /\ votes' = votes \/ votes' = Append(votes, vote)
    BY DEF InsertVote, FlightInv, TypeOK
  <1> HIDE DEF vote
  <1>2. CASE votes' = votes
    BY <1>2 DEF VotesBy
  <1>3. CASE votes' = Append(votes, vote)
    <2>1. /\ DOMAIN votes' = 1..(n + 1) /\ votes'[n + 1] = vote
          /\ \A v \in 1..n : votes'[v] = votes[v]
      BY <1>1, <1>3
    <2>2. votes' = votes => VotesBy(i, p)' = VotesBy(i, p)
      BY DEF VotesBy
    <2>. QED
      BY <1>1, <2>1, <2>2 DEF VotesBy
  <1>. QED
    BY <1>1, <1>2, <1>3

LEMMA CallKeepsVotes ==
  ASSUME FlightInv, VotesCountedOnce, NEW w \in Workers, req' = [req EXCEPT ![w] = req'[w]],
         Receive(w) \/ Serve(w) \/ Abort(w)
  PROVE  VotesCountedOnce'
  <1> USE CountedSets
  <1> SUFFICES ASSUME NEW i, NEW p
               PROVE  IF Postgres
                        THEN Cardinality(VotesBy(i, p)') <= 1
                        ELSE Cardinality(VotesBy(i, p)') + Cardinality(Pending("insertVote", i, p)')
                               <= Cardinality(Workers)
    BY DEF VotesCountedOnce
  <1> DEFINE V  == VotesBy(i, p)
             F  == Pending("insertVote", i, p)
             V2 == VotesBy(i, p)'
             F2 == Pending("insertVote", i, p)'
             Goal == IF Postgres THEN Cardinality(V2) <= 1
                       ELSE Cardinality(V2) + Cardinality(F2) <= Cardinality(Workers)
  <1>1. IsFiniteSet(V) /\ IsFiniteSet(F)
    OBVIOUS
  <1>2. /\ Postgres => Cardinality(V) <= 1
        /\ ~Postgres => Cardinality(V) + Cardinality(F) <= Cardinality(Workers)
    BY DEF VotesCountedOnce
  <1>3. F2 \subseteq Workers /\ F2 \subseteq F \cup {w}
    BY PendingAfter DEF Pending
  <1>4. \A T : IsFiniteSet(T) => Cardinality(T) \in Nat
    BY FS_CardinalityType
  <1>5. IsFiniteSet(F2) /\ Cardinality(F2) <= Cardinality(Workers)
    BY <1>3, FS_Subset
  <1> SUFFICES Goal
    OBVIOUS
  <1>6. ASSUME V2 \subseteq V, F2 \subseteq F PROVE Goal
    <2> HIDE DEF V, F, V2, F2
    <2>1. /\ Cardinality(V2) + Cardinality(F2) <= Cardinality(V) + Cardinality(F)
          /\ Cardinality(V2) <= Cardinality(V)
      BY <1>1, <1>6, FewerIsLess
    <2>2. IsFiniteSet(V2)
      BY <1>1, <1>6, FS_Subset
    <2>. QED
      BY <1>1, <1>2, <1>4, <1>5, <2>1, <2>2
  <1>7. CASE CheckVote(w)
    <2>1. V2 = V
      BY <1>7 DEF CheckVote, JustRead, VotesBy
    <2>2. CASE F2 \subseteq F
      BY <1>6, <2>1, <2>2
    <2>3. CASE ~(F2 \subseteq F)
      <3>1. w \in F2 /\ req'[w].pc = "insertVote"
        BY <1>3, <2>3 DEF Pending
      <3>2. req'[w].at = i /\ req'[w].who = p
        BY <3>1 DEF Pending
      <3>3. req[w] \in Requests /\ ~VotedIn(req[w].who, req[w].at) /\ Call(w, "insertVote")
        BY <1>7, <3>1, GoesTo DEF CheckVote, FlightInv
      <3>4. req'[w] = [req[w] EXCEPT !.pc = "insertVote"]
        BY <3>3, GoesTo DEF Call
      <3>5. req[w].at = i /\ req[w].who = p
        BY <3>2, <3>3, <3>4 DEF Requests
      <3>6. V2 = {}
        BY <2>1, <3>3, <3>5 DEF VotedIn, VotesBy
      <3> HIDE DEF V2, F2
      <3>. QED
        BY <1>4, <1>5, <3>6, FS_EmptySet
    <2>. QED
      BY <2>2, <2>3
  <1>8. CASE InsertVote(w)
    <2>1. w \in Pending("insertVote", req[w].at, req[w].who)
      BY <1>8 DEF InsertVote, At, Pending
    <2>2. F2 \subseteq F \ {w}
      BY <1>8, PendingAfter, GoesTo DEF InsertVote
    <2>3. CASE req[w].at = i /\ req[w].who = p
      <3>1. V2 \subseteq V \cup {Len(votes) + 1} /\ w \in F
        BY <1>8, <2>1, <2>3, VotesAfterInsert
      <3>2. CASE Postgres
        <4>1. V2 = V \/ V = {}
          <5>1. CASE VotedIn(p, i)
            <6>1. votes' = votes
              BY <1>8, <2>3, <3>2, <5>1 DEF InsertVote
            <6>. QED
              BY <1>8, <6>1, VotesAfterInsert
          <5>2. CASE ~VotedIn(p, i)
            BY <5>2 DEF VotedIn, VotesBy
          <5>. QED
            BY <5>1, <5>2
        <4> HIDE DEF V, F, V2, F2
        <4>2. V = {} => V2 \subseteq {Len(votes) + 1}
          BY <3>1
        <4>3. V = {} => Cardinality(V2) <= 1
          BY <4>2, JustOne
        <4>. QED
          BY <1>2, <3>2, <4>1, <4>3
      <3>3. CASE ~Postgres
        <4> HIDE DEF V, F, V2, F2
        <4>1. Cardinality(V2) + Cardinality(F2) <= Cardinality(V) + Cardinality(F)
          BY <1>1, <2>2, <3>1, InsertBalances
        <4>2. IsFiniteSet(V2)
          BY <1>1, <3>1, OneMore
        <4>. QED
          BY <1>1, <1>2, <1>4, <1>5, <3>3, <4>1, <4>2
      <3>. QED
        BY <3>2, <3>3
    <2>4. CASE ~(req[w].at = i /\ req[w].who = p)
      <3>1. V2 \subseteq V
        BY <1>8, <2>4, VotesAfterInsert
      <3>. QED
        BY <1>6, <2>2, <3>1
    <2>. QED
      BY <2>3, <2>4
  <1>9. ASSUME NoVote(w) PROVE Goal
    <2>1. V2 = V /\ F2 \subseteq F
      BY <1>9, PendingAfter DEF NoVote, VotesBy
    <2>. QED
      BY <1>6, <2>1
  <1>10. CASE \/ CountUsers(w) \/ CreateUser(w) \/ DeleteUser(w)
              \/ CheckStory(w) \/ InsertStory(w) \/ MarkWinner(w)
    <2>1. NoVote(w)
      BY <1>10, GoesTo DEF CountUsers, CreateUser, DeleteUser, CheckStory, InsertStory, MarkWinner,
         JustRead, NoVote
    <2>. QED
      BY <1>9, <2>1
  <1>11. CASE ~CountingCall(w)
    BY <1>9, <1>11, OtherCallsStoreNothing DEF NoVote
  <1> HIDE DEF Goal
  <1>. QED
    BY <1>7, <1>8, <1>10, <1>11 DEF CountingCall

-----------------------------------------------------------------------------
(* The history before the burst, and the theorems.                         *)

\* Requests served one at a time: who joins finds a place.
LEMMA HistoryKeepsUsers ==
  ASSUME Inv, Next, IsFiniteSet(Members), Cardinality(Members) <= MaxPlayers
  PROVE  Cardinality(Members') <= MaxPlayers
  <1>1. \A T : IsFiniteSet(T) => Cardinality(T) \in Nat
    BY FS_CardinalityType
  <1>2. ASSUME Members' \subseteq Members PROVE Cardinality(Members') <= MaxPlayers
    <2>1. IsFiniteSet(Members') /\ Cardinality(Members') <= Cardinality(Members)
      BY <1>2, FS_Subset
    <2>. QED
      BY <1>1, <2>1, LimitsAssumption
  <1>3. user \in [Players -> {"absent", "member", "gone"}]
    BY DEF Inv, RowsTyped
  <1>4. ASSUME NEW p \in Players, CreateRoom(p) PROVE Cardinality(Members') <= MaxPlayers
    <2>1. Members' \subseteq {p}
      BY <1>3, <1>4 DEF CreateRoom, Members, Inv, HostKnown
    <2>2. Cardinality(Members') <= 1 /\ Cardinality(Members') \in Nat
      BY <2>1, JustOne
    <2>. QED
      BY <2>2, LimitsAssumption
  <1>5. ASSUME NEW p \in Players, JoinRoom(p) PROVE Cardinality(Members') <= MaxPlayers
    <2>1. CASE user' = user
      BY <1>2, <2>1 DEF Members
    <2>2. CASE user' = [user EXCEPT ![p] = "member"] /\ Cardinality(Members) < MaxPlayers
      <3>1. Members' \subseteq Members \cup {p}
        BY <1>3, <2>2 DEF Members
      <3>2. /\ IsFiniteSet(Members \cup {p})
            /\ Cardinality(Members \cup {p}) \in {Cardinality(Members), Cardinality(Members) + 1}
        BY FS_AddElement
      <3>3. IsFiniteSet(Members') /\ Cardinality(Members') <= Cardinality(Members \cup {p})
        BY <3>1, <3>2, FS_Subset
      <3>. QED
        BY <1>1, <2>2, <3>2, <3>3, LimitsAssumption
    <2>. QED
      BY <1>5, <2>1, <2>2 DEF JoinRoom
  <1>6. ASSUME NEW p \in Players, LeaveRoom(p) PROVE Cardinality(Members') <= MaxPlayers
    <2>1. Members' \subseteq Members
      BY <1>3, <1>6 DEF LeaveRoom, Members
    <2>. QED
      BY <1>2, <2>1
  <1>7. ASSUME user' = user PROVE Cardinality(Members') <= MaxPlayers
    BY <1>2, <1>7 DEF Members
  <1>8. Tick \/ GetRoomState => user' = user
    BY DEF Tick, GetRoomState
  <1>9. \A p \in Players : StartGame(p) \/ PauseRound(p) \/ NextRound(p) => user' = user
    BY DEF StartGame, PauseRound, NextRound
  <1>10. \A p \in Players, i \in DOMAIN rounds :
           SubmitStory(p, i) \/ (\E s \in DOMAIN stories : SubmitVote(p, i, s)) => user' = user
    BY DEF SubmitStory, SubmitVote
  <1>11. \A i \in DOMAIN rounds : ReadRound(i) \/ GetTopStory(i) => user' = user
    BY DEF ReadRound, GetTopStory
  <1>. QED
    BY <1>4, <1>5, <1>6, <1>7, <1>8, <1>9, <1>10, <1>11 DEF Next

\* With one ballot each and nobody in flight, the counts are within bounds.
LEMMA QuiescentCounts ==
  ASSUME CInv, Quiescent, OneBallotEach
  PROVE  StoriesCounted /\ VotesCountedOnce /\ Joining = {}
  <1>1. Joining = {} /\ \A call, i, p : call # "idle" => Pending(call, i, p) = {}
    BY DEF Quiescent, Joining, Pending, Idle
  <1>2. ASSUME NEW T, \A s, t \in T : s = t
        PROVE  Cardinality(T) <= 1 /\ Cardinality(T) \in Nat
    <2>1. CASE T = {}
      BY <2>1, FS_EmptySet
    <2>2. CASE T # {}
      <3>1. PICK s \in T : TRUE
        BY <2>2
      <3>2. T = {s}
        BY <1>2, <3>1
      <3>. QED
        BY <3>2, FS_Singleton
    <2>. QED
      BY <2>1, <2>2
  <1>3. Cardinality({}) = 0 /\ Cardinality(Workers) \in Nat \ {0}
    BY BurstInFlight, CountedSets, FS_EmptySet
  <1>4. \A i, p : /\ Cardinality(StoriesBy(i, p)) <= 1 /\ Cardinality(StoriesBy(i, p)) \in Nat
                  /\ Cardinality(VotesBy(i, p)) <= 1 /\ Cardinality(VotesBy(i, p)) \in Nat
    <2> SUFFICES ASSUME NEW i, NEW p
                 PROVE  /\ \A s, t \in StoriesBy(i, p) : s = t
                        /\ \A v, u \in VotesBy(i, p) : v = u
      BY <1>2
    <2>. QED
      BY DEF OneBallotEach, StoriesBy, StoriesOf, VotesBy
  <1>5. StoriesCounted
    BY <1>1, <1>3, <1>4 DEF StoriesCounted
  <1>6. VotesCountedOnce
    BY <1>1, <1>3, <1>4 DEF VotesCountedOnce
  <1>. QED
    BY <1>1, <1>5, <1>6

\* The sets of ballots and requests, as what the next state knows of them.
Ballots1 == CInv /\ Quiescent /\ OneBallotEach
Counted1 == StoriesCounted /\ VotesCountedOnce /\ Joining = {}

LEMMA QuiescentCounted == Ballots1 => Counted1
  BY QuiescentCounts DEF Ballots1, Counted1

LEMMA HistoryCounts ==
  ASSUME CInv, CountInv, arrived = 0, Next, UNCHANGED <<req, arrived>>
  PROVE  CountInv'
  <1>1. CInv'
    BY HistoryKeeps
  <1>2. Quiescent' /\ OneBallotEach'
    BY <1>1 DEF CInv, FlightInv, BallotInv
  <1>3. Counted1'
    <2>1. Ballots1'
      BY <1>1, <1>2 DEF Ballots1
    <2>. QED
      BY <2>1, QuiescentCounted, PTL
  <1>4. Cardinality(Members') <= MaxPlayers
    <2>1. Inv /\ IsFiniteSet(Members)
      BY CountedSets DEF CInv, FlightInv, BallotInv
    <2>. QED
      BY <2>1, HistoryKeepsUsers DEF CountInv, UsersCounted
  <1>5. UsersCounted'
    <2>1. Joining' = {} /\ Cardinality({}) = 0 /\ Cardinality(Workers) \in Nat \ {0}
      BY BurstInFlight, <1>3, CountedSets, FS_EmptySet DEF Counted1
    <2>2. Members' \subseteq Players
      BY DEF Members
    <2>3. Cardinality(Members') \in Nat
      BY <2>2, PlayersAssumption, FS_Subset, FS_CardinalityType
    <2>. QED
      BY <1>4, <2>1, <2>3, LimitsAssumption DEF UsersCounted
  <1>. QED
    BY <1>3, <1>5 DEF CountInv, Counted1

LEMMA CountStutters ==
  ASSUME CountInv, UNCHANGED <<user, stories, votes, req, arrived>>
  PROVE  CountInv'
  <1>1. Members' = Members /\ Joining' = Joining
    BY DEF Members, Joining
  <1>2. \A i, p : /\ StoriesBy(i, p)' = StoriesBy(i, p) /\ VotesBy(i, p)' = VotesBy(i, p)
                 /\ \A call : Pending(call, i, p)' = Pending(call, i, p)
    BY DEF StoriesBy, StoriesOf, VotesBy, Pending
  <1>3. UsersCounted'
    BY <1>1 DEF CountInv, UsersCounted
  <1>4. StoriesCounted' /\ VotesCountedOnce'
    BY <1>2 DEF CountInv, StoriesCounted, VotesCountedOnce
  <1>. QED
    BY <1>3, <1>4 DEF CountInv

LEMMA CallCounts ==
  ASSUME CInv, CountInv, NEW w \in Workers, UNCHANGED now, Receive(w) \/ Serve(w) \/ Abort(w),
         ~(arrived' = 0)
  PROVE  CountInv'
  <1>1. Effect(w)
    BY BurstInFlight, ArriveEffect, ServeEffect
  <1>2. req' = [req EXCEPT ![w] = req'[w]]
    BY <1>1 DEF Effect
  <1>. QED
    BY BurstInFlight, <1>2, CallKeepsUsers, CallKeepsStories, CallKeepsVotes DEF CountInv, UsersCounted

LEMMA CountNext ==
  ASSUME CInv, CountInv, CNext
  PROVE  CountInv'
  <1>1. arrived \in Nat
    BY BurstAssumption DEF CInv, FlightInv
  <1>2. ASSUME NEW w \in Workers, Serve(w) \/ Abort(w), UNCHANGED <<now, arrived>>
        PROVE  CountInv'
    <2>1. arrived # 0
      BY <1>2, CallInFlight DEF CInv, FlightInv, Quiescent, Idle
    <2>. QED
      BY <1>2, <2>1, CallCounts
  <1>3. ASSUME NEW w \in Workers, Receive(w), UNCHANGED now, arrived' = arrived + 1
        PROVE  CountInv'
    BY <1>1, <1>3, CallCounts
  <1>4. CASE arrived = 0 /\ Next /\ UNCHANGED <<req, arrived>>
    BY <1>4, HistoryCounts
  <1>5. CASE (Tick /\ UNCHANGED <<req, arrived>>) \/ Over
    BY <1>5, CountStutters DEF Tick, Over, vars
  <1>. QED
    BY <1>2, <1>3, <1>4, <1>5 DEF CNext

LEMMA CountInit == CInit => CountInv
  <1> SUFFICES ASSUME CInit PROVE CountInv
    OBVIOUS
  <1>1. CInv /\ Quiescent /\ OneBallotEach
    BY CInitInv DEF CInit, Quiescent, Init, OneBallotEach
  <1>2. StoriesCounted /\ VotesCountedOnce /\ Joining = {}
    BY <1>1, QuiescentCounts
  <1>3. Members = {}
    BY DEF CInit, Init, Members
  <1>4. Cardinality({}) = 0 /\ Cardinality(Workers) \in Nat \ {0}
    BY BurstInFlight, <1>1, CountedSets, FS_EmptySet
  <1>. QED
    BY <1>2, <1>3, <1>4, LimitsAssumption DEF CountInv, UsersCounted

LEMMA CountsHold == CSpec => [](CInv /\ CountInv)
  <1>1. CInv /\ CountInv /\ [CNext]_cvars => CountInv'
    BY CountNext, CountStutters DEF cvars, vars
  <1>. QED
    BY <1>1, CountInit, BurstInvariance, PTL DEF CSpec

\* Players who join between the count and the insert of others overfill a room,
\* but by no more than one for each further worker, however many join.
THEOREM RoomsOverfillByFewAtMost == CSpec => []OvershootBounded
  <1>1. CInv /\ CountInv => OvershootBounded
    <2> SUFFICES ASSUME CInv, CountInv PROVE OvershootBounded
      OBVIOUS
    <2>1. /\ Cardinality(Members) \in Nat /\ Cardinality(Joining) \in Nat
          /\ Cardinality(Workers) \in Nat
      BY BurstInFlight, CountedSets, FS_CardinalityType
    <2>. QED
      BY <2>1, LimitsAssumption DEF CountInv, UsersCounted, OvershootBounded
  <1>. QED
    BY <1>1, CountsHold, PTL

\* A player gets no more stories into a round than there are workers to submit
\* them at once: SubmitStory looks before it inserts.
THEOREM StoriesStayBounded == CSpec => []StoriesBounded
  <1>1. CInv /\ CountInv => StoriesBounded
    <2> SUFFICES ASSUME CInv, CountInv, NEW i \in DOMAIN rounds, NEW p \in Players
                 PROVE  Cardinality(StoriesBy(i, p)) <= Cardinality(Workers)
      BY DEF StoriesBounded, StoriesBy
    <2> DEFINE S == Cardinality(StoriesBy(i, p))
               F == Cardinality(Pending("insertStory", i, p))
               N == Cardinality(Workers)
    <2>1. S \in Nat /\ F \in Nat /\ N \in Nat
      BY BurstInFlight, CountedSets, FS_CardinalityType
    <2>2. S + F <= N
      BY DEF CountInv, StoriesCounted
    <2> HIDE DEF S, F, N
    <2>3. S <= N
      BY <2>1, <2>2
    <2>. QED
      BY <2>3 DEF S, N
  <1>. QED
    BY <1>1, CountsHold, PTL

\* With the unique index of the votes table SubmitVote stores one vote for a
\* round, however its requests overlap.
THEOREM DatabaseKeepsOneVote ==
  ASSUME Postgres
  PROVE  CSpec => []OneVoteEach
  <1>1. CInv /\ CountInv => OneVoteEach
    BY DEF OneVoteEach, VotesBy, CountInv, VotesCountedOnce
  <1>. QED
    BY <1>1, CountsHold, PTL

-----------------------------------------------------------------------------
(* Requests served alone.  The invariant says of the one request in flight *)
(* what the calls made so far have made of the rows it found, and that     *)
(* what is left of it will end as a whole request of ClassicRoom would:    *)
(* Whole relates the rows found to the rows left, and Stage says of every  *)
(* call which rows those will be.                                          *)

\* Whole requests, as a relation of the rows found to the rows left.

\* ClassicRoom at time t, with the rows as in the snapshot s.
Found(t, s) == INSTANCE ClassicRoom
                 WITH now     <- t,
                      room    <- s.room,
                      user    <- s.user,
                      rounds  <- s.rounds,
                      stories <- s.stories,
                      votes   <- s.votes

Game(s) == [room |-> s.room, rounds |-> s.rounds]

Rows(g, users, ss, vs) == [room |-> g.room, user |-> users, rounds |-> g.rounds,
                           stories |-> ss, votes |-> vs]

\* The rows of s with the game as in g.
Playing(s, g) == Rows(g, s.user, s.stories, s.votes)

Late(t, s) == t > s.room.expiresAt

WholeGet(t, s, f) ==
  /\ s.room.status # "none"
  /\ f = Playing(s, Found(t, s)!SyncCurrent(Found(t, s)!Expire(Game(s))))

WholeJoin(t, s, f, p) ==
  /\ s.room.status = "waiting" /\ ~Late(t, s)
  /\ s.user[p] = "absent" /\ Cardinality(Found(t, s)!Members) < MaxPlayers
  /\ f = Rows(Found(t, s)!SyncCurrent(Game(s)), [s.user EXCEPT ![p] = "member"],
              s.stories, s.votes)

WholeLeave(t, s, f, p) ==
  /\ s.user[p] = "member"
  /\ f = Rows(Found(t, s)!SyncCurrent(
                IF Found(t, s)!Closes(p) THEN Found(t, s)!WithStatus(Game(s), "finished")
                                         ELSE Game(s)),
              [s.user EXCEPT ![p] = "gone"], s.stories, s.votes)

\* The host's requests, which leave the users and the ballots alone.
WholeHost(t, s, f, p) ==
  LET g        == Game(s)
      Leads(h) == f = Playing(s, Found(t, s)!SyncCurrent(h))
      synced   == Found(t, s)!SyncCurrent(Found(t, s)!Expire(g))
  IN  /\ s.user[p] = "member" /\ p = s.room.hostID
      /\ \/ ~Late(t, s) /\ s.room.status = "waiting" /\ Leads(Found(t, s)!Opened(g, 1))
         \/ s.room.status = "active" /\ Leads(Found(t, s)!Paused(g))
         \/ s.room.status = "paused" /\ Leads(Found(t, s)!Unpaused(g))
         \/ /\ synced.room.status # "expired" /\ s.rounds # <<>>
            /\ Leads(Found(t, s)!Stepped(synced))

WholeRead(t, s, f, i) == f = Playing(s, Found(t, s)!SyncRound(Game(s), i))

WholeStory(t, s, f, p, i) ==
  LET g == Found(t, s)!SyncRound(Game(s), i)
  IN  /\ Found(t, s)!Playable(g, i, "writing")
      /\ s.user[p] = "member" /\ ~Found(t, s)!WroteIn(p, i)
      /\ f = Rows(g, s.user,
                  Append(s.stories, [round |-> i, author |-> p, isRevealed |-> FALSE]), s.votes)

WholeVote(t, s, f, p, i, x) ==
  LET g == Found(t, s)!SyncRound(Game(s), i)
  IN  /\ Found(t, s)!Playable(g, i, "voting")
      /\ s.user[p] = "member" /\ s.stories[x].round = i /\ s.stories[x].author # p
      /\ ~Found(t, s)!VotedIn(p, i)
      /\ f = Rows(g, s.user, s.stories,
                  Append(s.votes, [round |-> i, voter |-> p, story |-> x]))

WholeTop(t, s, f, i) ==
  LET g == Found(t, s)!SyncRound(Game(s), i)
  IN  /\ g.room.status \notin {"waiting", "expired"} /\ g.rounds[i].status = "revealed"
      /\ Found(t, s)!StoriesOf(i) # {}
      /\ f = Rows(g, s.user,
                  [s.stories EXCEPT ![Found(t, s)!Winner(i)].isRevealed = TRUE], s.votes)

\* A request that is refused leaves the rows alone, or reads them at most.
Whole(t, s, f) ==
  \/ f = s
  \/ WholeGet(t, s, f)
  \/ \E p \in Players :
       \/ WholeJoin(t, s, f, p) \/ WholeLeave(t, s, f, p) \/ WholeHost(t, s, f, p)
       \/ \E i \in DOMAIN s.rounds :
            \/ WholeStory(t, s, f, p, i)
            \/ \E x \in DOMAIN s.stories : WholeVote(t, s, f, p, i, x)
  \/ \E i \in DOMAIN s.rounds : WholeRead(t, s, f, i) \/ WholeTop(t, s, f, i)

-----------------------------------------------------------------------------
(* A request in flight: r, which has found the rows s and made c of them.  *)

\* The calls before which nothing has been written.
Untouched(r) ==
  \/ r.pc \in {"readRoom", "available", "countUsers", "createUser", "deleteUser",
               "openFirst", "toggle", "readRound", "resume"}
  \/ r.pc = "authenticate" /\ r.op \notin RoundOps
  \/ r.pc \in {"readCurrent", "syncRoom", "syncWrite"} /\ r.then \in {"step", "accept"}
  \/ r.pc = "reread" /\ r.then = "resume"

\* The calls on a ballot once its round is synchronised.
BallotCalls == {"checkStory", "insertStory", "checkVote", "insertVote",
                "listStories", "listVotes", "markWinner"}

\* With nobody else at work a copy is as good as the row.
CopiesFresh(r, c) ==
  /\ r.pc \in {"available", "authenticate", "countUsers", "deleteUser", "countLeft", "close",
               "openFirst", "toggle", "reread", "resume", "setActive", "mark", "step",
               "syncWrite"} => r.room = c.room
  /\ r.pc = "readCurrent" /\ r.then = "step" => r.room = c.room
  /\ r.pc \in OnRow => r.at \in DOMAIN c.rounds /\ r.round = c.rounds[r.at]
  /\ r.pc \in OnRow /\ r.op \notin RoundOps => r.at = Len(c.rounds)

\* Who may ask for what.
Entitled(r, s) ==
  /\ s.room.status # "none"
  /\ r.op \in HostOps => r.who \in Players /\ r.who = s.room.hostID
  /\ r.op = "join" => s.user[r.who] = "absent"
  /\ r.op \in HostOps \cup {"leave"} /\ r.pc \notin {"readRoom", "authenticate"} =>
       s.user[r.who] = "member"
  /\ r.op \in RoundOps => r.at \in DOMAIN s.rounds
  /\ r.op = "vote" => r.story \in DOMAIN s.stories

\* What the calls so far have found out.
Passed(t, r, s) ==
  /\ r.op \in RoundOps =>
       r.pc \in BallotCalls \cup {"readRound", "syncRoom", "syncWrite", "authenticate"}
  /\ r.pc = "available" => r.op \in {"get", "join", "start", "next"}
  /\ r.pc \in {"countUsers", "createUser"} => s.room.status = "waiting" /\ ~Late(t, s)
  /\ r.pc = "createUser" => Cardinality(Found(t, s)!Members) < MaxPlayers
  /\ r.pc \in {"countLeft", "close"} => r.op = "leave"
  /\ r.pc = "openFirst" => r.op = "start" /\ s.room.status = "waiting" /\ ~Late(t, s)
  /\ r.pc = "resume" \/ (r.pc = "reread" /\ r.then = "resume") =>
       r.op = "start" /\ s.room.status = "paused"
  /\ r.pc = "toggle" => r.op = "pause" /\ s.room.status \in {"active", "paused"}
  /\ r.pc \in {"readCurrent", "syncRoom", "syncWrite", "reread"} /\ r.then = "step" =>
       r.op = "next"
  /\ r.pc \in {"readCurrent", "syncRoom", "syncWrite"} =>
       r.then \in {"build", "done", "step", "accept"}
  /\ r.pc \in {"readCurrent", "syncRoom", "syncWrite"} =>
       IF r.op = "read" THEN r.then = "done" ELSE r.op \in RoundOps <=> r.then = "accept"

\* What a request on a ballot has done: synchronised its round, and checked.
Ballot(t, r, s, c) ==
  LET i == r.at
      g == Found(t, s)!SyncRound(Game(s), i)
  IN  /\ c = Playing(s, g)
      /\ r.op = "story" => Found(t, s)!Playable(g, i, "writing")
      /\ r.op = "vote" => Found(t, s)!Playable(g, i, "voting")
      /\ r.op = "top" =>
           g.room.status \notin {"waiting", "expired"} /\ g.rounds[i].status = "revealed"
      /\ r.op \in {"story", "vote"} /\ r.pc # "authenticate" => s.user[r.who] = "member"
      /\ r.pc = "insertStory" => ~Found(t, s)!WroteIn(r.who, i)
      /\ r.pc = "insertVote" =>
           /\ s.stories[r.story].round = i /\ s.stories[r.story].author # r.who
           /\ ~Found(t, s)!VotedIn(r.who, i)
      /\ r.pc = "listVotes" => Found(t, s)!StoriesOf(i) # {} /\ r.story = Len(s.stories)
      /\ r.pc = "markWinner" => Found(t, s)!StoriesOf(i) # {} /\ r.story = Found(t, s)!Winner(i)

\* Where what is left of the request will lead.
Stage(t, r, s, c) ==
  LET g == Game(c)
      Ends(h) == Whole(t, s, Playing(c, h))
      EndsSynced(h) == Ends(Found(t, s)!SyncCurrent(h))
  IN  /\ Untouched(r) => c = s
      /\ r.pc = "listUsers" \/ (r.pc = "readCurrent" /\ r.then \in {"build", "done"}) =>
           EndsSynced(g)
      /\ r.pc \in {"syncRoom", "syncWrite"} /\ r.then \in {"build", "done"} =>
           Ends(Found(t, s)!SyncRound(g, r.at))
      /\ r.pc \in {"countLeft", "close"} =>
           c = Rows(Game(s), [s.user EXCEPT ![r.who] = "gone"], s.stories, s.votes)
      /\ r.pc = "close" => Found(t, s)!Closes(r.who)
      /\ r.pc = "setActive" =>
           c.room.status # "none" /\ EndsSynced(Found(t, s)!WithStatus(g, "active"))
      /\ r.pc = "mark" \/ (r.pc = "reread" /\ r.then = "mark") =>
           /\ r.op = "pause"
           /\ c.room.status = "paused" => EndsSynced(Found(t, s)!Paused(g))
           /\ c.room.status = "active" => EndsSynced(Found(t, s)!Unpaused(g))
      /\ r.pc = "step" \/ (r.pc = "reread" /\ r.then = "step") =>
           IF c.rounds = <<>> THEN c = s ELSE EndsSynced(Found(t, s)!Stepped(g))
      /\ r.pc = "openNext" =>
           /\ c.room.status = "active"
           /\ r.round = Found(t, s)!NewRound(Len(c.rounds) + 1)
           /\ EndsSynced(Found(t, s)!Opened(g, Len(c.rounds) + 1))
      /\ r.pc \in BallotCalls \/ (r.pc = "authenticate" /\ r.op \in RoundOps) =>
           Ballot(t, r, s, c)

\* The rows at any time: rounds are numbered as they come, players wait
\* without a round but between the two writes of StartGame.
Tidy(r, c) ==
  /\ \A i \in DOMAIN c.rounds : c.rounds[i].number = i
  /\ c.room.status # "none" => c.room.hostID \in Players
  /\ c.room.status \in {"none", "waiting"} /\ c.rounds # <<>> => r.pc = "setActive"

\* A request that is over has been one of ClassicRoom's.
Going(t, r, s, c) ==
  /\ Tidy(r, c)
  /\ IF r.pc = "idle" THEN Whole(t, s, c)
     ELSE CopiesFresh(r, c) /\ Entitled(r, s) /\ Passed(t, r, s) /\ Stage(t, r, s, c)

SerialInv ==
  /\ FlightInv
  /\ Quiescent => served = Snapshot
  /\ \A w \in Workers :
       /\ Going(now, req[w], served, Snapshot) \/ req[w] = Idle
       /\ req[w] # Idle => \A v \in Workers \ {w} : req[v] = Idle
  /\ Quiescent => Tidy(Idle, Snapshot)

-----------------------------------------------------------------------------
(* The functions of a game.                                                *)

\* The functions of a game only depend on the time.
LEMMA FoundFunctions ==
  ASSUME NEW s
  PROVE  /\ \A g, x : Found(now, s)!WithStatus(g, x) = WithStatus(g, x)
         /\ \A g, i, row : Found(now, s)!WithRound(g, i, row) = WithRound(g, i, row)
         /\ \A g : Found(now, s)!Current(g) = Current(g)
         /\ \A g, i, x : Found(now, s)!Playable(g, i, x) = Playable(g, i, x)
         /\ \A n : Found(now, s)!NewRound(n) = NewRound(n)
         /\ \A row : Found(now, s)!ToVoting(row) = ToVoting(row)
         /\ \A row : Found(now, s)!ToRevealed(row) = ToRevealed(row)
         /\ \A row : Found(now, s)!Advanced(row) = Advanced(row)
         /\ \A row : Found(now, s)!Resumed(row) = Resumed(row)
         /\ \A g : Found(now, s)!Expire(g) = Expire(g)
         /\ \A g, i : Found(now, s)!Due(g, i) = Due(g, i)
         /\ \A g, i : Found(now, s)!SyncRound(g, i) = SyncRound(g, i)
         /\ \A g : Found(now, s)!SyncCurrent(g) = SyncCurrent(g)
         /\ \A g, n : Found(now, s)!Opened(g, n) = Opened(g, n)
         /\ \A g, row : Found(now, s)!OnCurrent(g, row) = OnCurrent(g, row)
         /\ \A g : Found(now, s)!Unpaused(g) = Unpaused(g)
         /\ \A g : Found(now, s)!Paused(g) = Paused(g)
         /\ \A g : Found(now, s)!Stepped(g) = Stepped(g)
  <1>1. /\ \A g, x : Found(now, s)!WithStatus(g, x) = WithStatus(g, x)
        /\ \A g, i, row : Found(now, s)!WithRound(g, i, row) = WithRound(g, i, row)
        /\ \A g : Found(now, s)!Current(g) = Current(g)
        /\ \A g, i, x : Found(now, s)!Playable(g, i, x) = Playable(g, i, x)
    BY DEF WithStatus, Found!WithStatus, WithRound, Found!WithRound, Current, Found!Current, Playable, Found!Playable
  <1>2. /\ \A n : Found(now, s)!NewRound(n) = NewRound(n)
        /\ \A row : Found(now, s)!ToVoting(row) = ToVoting(row)
        /\ \A row : Found(now, s)!ToRevealed(row) = ToRevealed(row)
    BY DEF NewRound, Found!NewRound, ToVoting, Found!ToVoting, ToRevealed, Found!ToRevealed, NoTime, Found!NoTime
  <1>3. /\ \A row : Found(now, s)!Advanced(row) = Advanced(row)
        /\ \A row : Found(now, s)!Resumed(row) = Resumed(row)
    BY <1>2 DEF Advanced, Found!Advanced, Resumed, Found!Resumed, Shifted, Found!Shifted, NoTime, Found!NoTime
  <1>4. /\ \A g : Found(now, s)!Expire(g) = Expire(g)
        /\ \A g, i : Found(now, s)!Due(g, i) = Due(g, i)
    BY <1>1 DEF Expire, Found!Expire, Due, Found!Due, NoTime, Found!NoTime
  <1>5. /\ \A g, i : Found(now, s)!SyncRound(g, i) = SyncRound(g, i)
    BY <1>1, <1>3, <1>4 DEF SyncRound, Found!SyncRound
  <1>6. /\ \A g : Found(now, s)!SyncCurrent(g) = SyncCurrent(g)
    BY <1>1, <1>5 DEF SyncCurrent, Found!SyncCurrent
  <1>7. /\ \A g, n : Found(now, s)!Opened(g, n) = Opened(g, n)
        /\ \A g, row : Found(now, s)!OnCurrent(g, row) = OnCurrent(g, row)
    BY <1>1, <1>2 DEF Opened, Found!Opened, OnCurrent, Found!OnCurrent
  <1>8. /\ \A g : Found(now, s)!Unpaused(g) = Unpaused(g)
        /\ \A g : Found(now, s)!Paused(g) = Paused(g)
    BY <1>1, <1>3, <1>7 DEF Unpaused, Found!Unpaused, Paused, Found!Paused
  <1>9. ASSUME NEW g PROVE Found(now, s)!Stepped(g) = Stepped(g)
    <2> DEFINE i == Current(g)
               r == g.rounds[i]
    <2>1. /\ Found(now, s)!Current(g) = i
          /\ Found(now, s)!WithRound(g, i, Found(now, s)!ToVoting(r)) = WithRound(g, i, ToVoting(r))
          /\ Found(now, s)!WithRound(g, i, Found(now, s)!ToRevealed(r)) = WithRound(g, i, ToRevealed(r))
          /\ Found(now, s)!WithStatus(g, "finished") = WithStatus(g, "finished")
          /\ Found(now, s)!Opened(g, r.number + 1) = Opened(g, r.number + 1)
      BY <1>1, <1>2, <1>7
    <2>. QED
      BY <2>1 DEF Stepped, Found!Stepped
  <1>. QED
    BY <1>1, <1>2, <1>3, <1>4, <1>5, <1>6, <1>7, <1>8, <1>9

LEMMA SerialFunctions ==
  /\ \A g, x : Serial!WithStatus(g, x) = WithStatus(g, x)
  /\ \A g, i, row : Serial!WithRound(g, i, row) = WithRound(g, i, row)
  /\ \A g : Serial!Current(g) = Current(g)
  /\ \A g, i, x : Serial!Playable(g, i, x) = Playable(g, i, x)
  /\ \A n : Serial!NewRound(n) = NewRound(n)
  /\ \A row : Serial!ToVoting(row) = ToVoting(row)
  /\ \A row : Serial!ToRevealed(row) = ToRevealed(row)
  /\ \A row : Serial!Advanced(row) = Advanced(row)
  /\ \A row : Serial!Resumed(row) = Resumed(row)
  /\ \A g : Serial!Expire(g) = Expire(g)
  /\ \A g, i : Serial!Due(g, i) = Due(g, i)
  /\ \A g, i : Serial!SyncRound(g, i) = SyncRound(g, i)
  /\ \A g : Serial!SyncCurrent(g) = SyncCurrent(g)
  /\ \A g, n : Serial!Opened(g, n) = Opened(g, n)
  /\ \A g, row : Serial!OnCurrent(g, row) = OnCurrent(g, row)
  /\ \A g : Serial!Unpaused(g) = Unpaused(g)
  /\ \A g : Serial!Paused(g) = Paused(g)
  /\ \A g : Serial!Stepped(g) = Stepped(g)
  <1>1. /\ \A g, x : Serial!WithStatus(g, x) = WithStatus(g, x)
        /\ \A g, i, row : Serial!WithRound(g, i, row) = WithRound(g, i, row)
        /\ \A g : Serial!Current(g) = Current(g)
        /\ \A g, i, x : Serial!Playable(g, i, x) = Playable(g, i, x)
    BY DEF WithStatus, Serial!WithStatus, WithRound, Serial!WithRound, Current, Serial!Current, Playable, Serial!Playable
  <1>2. /\ \A n : Serial!NewRound(n) = NewRound(n)
        /\ \A row : Serial!ToVoting(row) = ToVoting(row)
        /\ \A row : Serial!ToRevealed(row) = ToRevealed(row)
    BY DEF NewRound, Serial!NewRound, ToVoting, Serial!ToVoting, ToRevealed, Serial!ToRevealed, NoTime, Serial!NoTime
  <1>3. /\ \A row : Serial!Advanced(row) = Advanced(row)
        /\ \A row : Serial!Resumed(row) = Resumed(row)
    BY <1>2 DEF Advanced, Serial!Advanced, Resumed, Serial!Resumed, Shifted, Serial!Shifted, NoTime, Serial!NoTime
  <1>4. /\ \A g : Serial!Expire(g) = Expire(g)
        /\ \A g, i : Serial!Due(g, i) = Due(g, i)
    BY <1>1 DEF Expire, Serial!Expire, Due, Serial!Due, NoTime, Serial!NoTime
  <1>5. /\ \A g, i : Serial!SyncRound(g, i) = SyncRound(g, i)
    BY <1>1, <1>3, <1>4 DEF SyncRound, Serial!SyncRound
  <1>6. /\ \A g : Serial!SyncCurrent(g) = SyncCurrent(g)
    BY <1>1, <1>5 DEF SyncCurrent, Serial!SyncCurrent
  <1>7. /\ \A g, n : Serial!Opened(g, n) = Opened(g, n)
        /\ \A g, row : Serial!OnCurrent(g, row) = OnCurrent(g, row)
    BY <1>1, <1>2 DEF Opened, Serial!Opened, OnCurrent, Serial!OnCurrent
  <1>8. /\ \A g : Serial!Unpaused(g) = Unpaused(g)
        /\ \A g : Serial!Paused(g) = Paused(g)
    BY <1>1, <1>3, <1>7 DEF Unpaused, Serial!Unpaused, Paused, Serial!Paused
  <1>9. /\ \A g : Serial!Stepped(g) = Stepped(g)
    BY <1>1, <1>2, <1>7 DEF Stepped, Serial!Stepped
  <1>. QED
    BY <1>1, <1>2, <1>3, <1>4, <1>5, <1>6, <1>7, <1>8, <1>9


-----------------------------------------------------------------------------
(* A whole request is a step of ClassicRoom.                               *)

\* Every instance has a Cardinality of its own.
LEMMA SameCardinality ==
  /\ \A S : Serial!Cardinality(S) = Cardinality(S)
  /\ \A s, S : Found(now, s)!Cardinality(S) = Cardinality(S)
  BY DEF Serial!Cardinality, Found!Cardinality, Cardinality

LEMMA FoundRows ==
  /\ Found(now, served)!Members = Serial!Members
  /\ \A p : Found(now, served)!Closes(p) = Serial!Closes(p)
  /\ \A i : Found(now, served)!StoriesOf(i) = Serial!StoriesOf(i)
  /\ \A p, i : Found(now, served)!WroteIn(p, i) = Serial!WroteIn(p, i)
  /\ \A p, i : Found(now, served)!VotedIn(p, i) = Serial!VotedIn(p, i)
  /\ \A i : Found(now, served)!Winner(i) = Serial!Winner(i)
  /\ Game(served) = Serial!game
  <1>1. Found(now, served)!Members = Serial!Members /\ Game(served) = Serial!game
    BY DEF Found!Members, Serial!Members, Game, Serial!game
  <1>2. \A p : Found(now, served)!Closes(p) = Serial!Closes(p)
    BY <1>1 DEF Found!Closes, Serial!Closes
  <1>3. \A i : Found(now, served)!StoriesOf(i) = Serial!StoriesOf(i)
    BY DEF Found!StoriesOf, Serial!StoriesOf
  <1>4. /\ \A p, i : Found(now, served)!WroteIn(p, i) = Serial!WroteIn(p, i)
        /\ \A p, i : Found(now, served)!VotedIn(p, i) = Serial!VotedIn(p, i)
    BY <1>3 DEF Found!WroteIn, Serial!WroteIn, Found!VotedIn, Serial!VotedIn
  <1>5. \A x : Found(now, served)!VotesFor(x) = Serial!VotesFor(x)
    BY DEF Found!VotesFor, Serial!VotesFor
  <1>6. \A x, y : Found(now, served)!Beats(x, y) = Serial!Beats(x, y)
    BY <1>5, SameCardinality DEF Found!Beats, Serial!Beats
  <1>7. \A i : Found(now, served)!Winner(i) = Serial!Winner(i)
    BY <1>3, <1>6 DEF Found!Winner, Serial!Winner
  <1>. QED
    BY <1>1, <1>2, <1>3, <1>4, <1>7

LEMMA RowsPlayed ==
  ASSUME NEW g, NEW users, NEW ss, NEW vs, served' = Rows(g, users, ss, vs)
  PROVE  /\ Serial!Commit(g)
         /\ (served.user)' = users /\ (served.stories)' = ss /\ (served.votes)' = vs
  BY DEF Rows, Serial!Commit

LEMMA GetIsStep ==
  ASSUME NEW f, WholeGet(now, served, f), served' = f, now' = now
  PROVE  Serial!Next
  <1>1. Serial!GetRoomState
    BY FoundFunctions, SerialFunctions, FoundRows, RowsPlayed
       DEF WholeGet, Playing, Serial!GetRoomState
  <1>. QED
    BY <1>1 DEF Serial!Next

LEMMA SerialOnTime ==
  ASSUME ~Late(now, served)
  PROVE  Serial!Expire(Serial!game) = Serial!game
  BY DEF Late, Serial!Expire, Serial!game

LEMMA JoinIsStep ==
  ASSUME NEW f, NEW p \in Players, WholeJoin(now, served, f, p), served' = f, now' = now
  PROVE  Serial!Next
  <1>1. Serial!Expire(Serial!game) = Serial!game
    BY SerialOnTime DEF WholeJoin
  <1>2. Serial!game.room.status = "waiting" /\ served.room.status # "none"
    BY DEF WholeJoin, Serial!game
  <1>3. /\ Serial!Commit(Serial!SyncCurrent(Serial!game))
        /\ (served.user)' = [served.user EXCEPT ![p] = "member"]
        /\ UNCHANGED <<now, served.stories, served.votes>>
    BY FoundFunctions, SerialFunctions, FoundRows, RowsPlayed DEF WholeJoin
  <1>4. served.user[p] = "absent" /\ Cardinality(Serial!Members) < MaxPlayers
    BY FoundRows DEF WholeJoin
  <1>5. Serial!JoinRoom(p)
    BY <1>1, <1>2, <1>3, <1>4, SameCardinality DEF Serial!JoinRoom
  <1>. QED
    BY <1>5 DEF Serial!Next

LEMMA LeaveIsStep ==
  ASSUME NEW f, NEW p \in Players, WholeLeave(now, served, f, p), served' = f, now' = now
  PROVE  Serial!Next
  <1>1. Serial!LeaveRoom(p)
    BY FoundFunctions, SerialFunctions, FoundRows, RowsPlayed DEF WholeLeave, Serial!LeaveRoom
  <1>. QED
    BY <1>1 DEF Serial!Next

LEMMA HostIsStep ==
  ASSUME NEW f, NEW p \in Players, WholeHost(now, served, f, p), served' = f, now' = now
  PROVE  Serial!Next
  <1> DEFINE g == Serial!game
             Leads(h) == /\ Serial!Commit(Serial!SyncCurrent(h))
                         /\ UNCHANGED <<now, served.user, served.stories, served.votes>>
             synced == Serial!SyncCurrent(Serial!Expire(g))
  <1>1. ASSUME NEW h, f = Playing(served, Found(now, served)!SyncCurrent(h))
        PROVE  Leads(h)
    BY <1>1, FoundFunctions, SerialFunctions, RowsPlayed DEF Playing
  <1>2. g.room = served.room /\ g.rounds = served.rounds /\ Game(served) = g
    BY FoundRows DEF Serial!game
  <1>3. synced.room.status # "expired" => (synced.rounds # <<>> <=> served.rounds # <<>>)
    BY <1>2 DEF Serial!SyncCurrent, Serial!Expire, Serial!SyncRound, Serial!WithStatus, Serial!WithRound, Serial!Current
  <1>4. served.user[p] = "member" /\ p = served.room.hostID
    BY DEF WholeHost
  <1>5. CASE ~Late(now, served) /\ served.room.status = "waiting" /\ Leads(Serial!Opened(g, 1))
    BY <1>2, <1>4, <1>5, SerialOnTime DEF Serial!StartGame, Serial!Next
  <1>6. CASE served.room.status = "active" /\ Leads(Serial!Paused(g))
    BY <1>4, <1>6 DEF Serial!PauseRound, Serial!Next
  <1>7. CASE served.room.status = "paused" /\ Leads(Serial!Unpaused(g))
    BY <1>4, <1>7 DEF Serial!PauseRound, Serial!Next
  <1>8. CASE synced.room.status # "expired" /\ served.rounds # <<>> /\ Leads(Serial!Stepped(synced))
    BY <1>3, <1>4, <1>8 DEF Serial!NextRound, Serial!Next
  <1>9. /\ Found(now, served)!Opened(g, 1) = Serial!Opened(g, 1)
        /\ Found(now, served)!Paused(g) = Serial!Paused(g)
        /\ Found(now, served)!Unpaused(g) = Serial!Unpaused(g)
        /\ Found(now, served)!SyncCurrent(Found(now, served)!Expire(g)) = synced
        /\ Found(now, served)!Stepped(synced) = Serial!Stepped(synced)
    BY FoundFunctions, SerialFunctions
  <1> HIDE DEF g, Leads, synced
  <1>. QED
    BY <1>1, <1>2, <1>5, <1>6, <1>7, <1>8, <1>9 DEF WholeHost

LEMMA ReadIsStep ==
  ASSUME NEW f, NEW i \in DOMAIN served.rounds, WholeRead(now, served, f, i),
         served' = f, now' = now
  PROVE  Serial!Next
  <1>1. Serial!ReadRound(i)
    BY FoundFunctions, SerialFunctions, FoundRows, RowsPlayed
       DEF WholeRead, Playing, Serial!ReadRound
  <1>. QED
    BY <1>1 DEF Serial!Next

LEMMA StoryIsStep ==
  ASSUME NEW f, NEW p \in Players, NEW i \in DOMAIN served.rounds,
         WholeStory(now, served, f, p, i), served' = f, now' = now
  PROVE  Serial!Next
  <1> DEFINE g == Serial!SyncRound(Serial!game, i)
  <1>1. Found(now, served)!SyncRound(Game(served), i) = g
    BY FoundFunctions, SerialFunctions, FoundRows
  <1>2. /\ Serial!Commit(g)
        /\ (served.user)' = served.user
        /\ (served.stories)' = Append(served.stories, [round |-> i, author |-> p, isRevealed |-> FALSE])
        /\ (served.votes)' = served.votes
    <2>1. PICK ss : ss = Append(served.stories, [round |-> i, author |-> p, isRevealed |-> FALSE])
      OBVIOUS
    <2>2. PICK vs : vs = served.votes
      OBVIOUS
    <2>. HIDE DEF g
    <2>3. f = Rows(g, served.user, ss, vs)
      BY <1>1, <2>1, <2>2 DEF WholeStory
    <2>4. /\ Serial!Commit(g) /\ (served.user)' = served.user
          /\ (served.stories)' = ss /\ (served.votes)' = vs
      BY <2>3, RowsPlayed
    <2>. QED
      BY <2>1, <2>2, <2>4
  <1>3. /\ Serial!Playable(g, i, "writing")
        /\ served.user[p] = "member"
        /\ ~Serial!WroteIn(p, i)
    BY <1>1, FoundFunctions, SerialFunctions, FoundRows DEF WholeStory
  <1> HIDE DEF g
  <1>4. Serial!SubmitStory(p, i)
    BY <1>2, <1>3 DEF Serial!SubmitStory, g
  <1>. QED
    BY <1>4 DEF Serial!Next

LEMMA VoteIsStep ==
  ASSUME NEW f, NEW p \in Players, NEW i \in DOMAIN served.rounds,
         NEW x \in DOMAIN served.stories,
         WholeVote(now, served, f, p, i, x), served' = f, now' = now
  PROVE  Serial!Next
  <1> DEFINE g == Serial!SyncRound(Serial!game, i)
  <1>1. Found(now, served)!SyncRound(Game(served), i) = g
    BY FoundFunctions, SerialFunctions, FoundRows
  <1>2. /\ Serial!Commit(g)
        /\ (served.user)' = served.user
        /\ (served.stories)' = served.stories
        /\ (served.votes)' = Append(served.votes, [round |-> i, voter |-> p, story |-> x])
    <2>1. PICK ss : ss = served.stories
      OBVIOUS
    <2>2. PICK vs : vs = Append(served.votes, [round |-> i, voter |-> p, story |-> x])
      OBVIOUS
    <2>. HIDE DEF g
    <2>3. f = Rows(g, served.user, ss, vs)
      BY <1>1, <2>1, <2>2 DEF WholeVote
    <2>4. /\ Serial!Commit(g) /\ (served.user)' = served.user
          /\ (served.stories)' = ss /\ (served.votes)' = vs
      BY <2>3, RowsPlayed
    <2>. QED
      BY <2>1, <2>2, <2>4
  <1>3. /\ Serial!Playable(g, i, "voting")
        /\ served.user[p] = "member"
        /\ served.stories[x].round = i /\ served.stories[x].author # p
        /\ ~Serial!VotedIn(p, i)
    BY <1>1, FoundFunctions, SerialFunctions, FoundRows DEF WholeVote
  <1> HIDE DEF g
  <1>4. Serial!SubmitVote(p, i, x)
    BY <1>2, <1>3 DEF Serial!SubmitVote, g
  <1>. QED
    BY <1>4 DEF Serial!Next

LEMMA TopIsStep ==
  ASSUME NEW f, NEW i \in DOMAIN served.rounds, WholeTop(now, served, f, i),
         served' = f, now' = now
  PROVE  Serial!Next
  <1> DEFINE g == Serial!SyncRound(Serial!game, i)
  <1>1. Found(now, served)!SyncRound(Game(served), i) = g
    BY FoundFunctions, SerialFunctions, FoundRows
  <1>2. /\ Serial!Commit(g)
        /\ (served.user)' = served.user
        /\ (served.stories)' = [served.stories EXCEPT ![Serial!Winner(i)].isRevealed = TRUE]
        /\ (served.votes)' = served.votes
    <2>1. PICK ss : ss = [served.stories EXCEPT ![Serial!Winner(i)].isRevealed = TRUE]
      OBVIOUS
    <2>2. PICK vs : vs = served.votes
      OBVIOUS
    <2>. HIDE DEF g
    <2>3. f = Rows(g, served.user, ss, vs)
      BY <1>1, <2>1, <2>2, FoundRows DEF WholeTop
    <2>4. /\ Serial!Commit(g) /\ (served.user)' = served.user
          /\ (served.stories)' = ss /\ (served.votes)' = vs
      BY <2>3, RowsPlayed
    <2>. QED
      BY <2>1, <2>2, <2>4
  <1>3. /\ g.room.status \notin {"waiting", "expired"} /\ g.rounds[i].status = "revealed"
        /\ Serial!StoriesOf(i) # {}
    BY <1>1, FoundFunctions, SerialFunctions, FoundRows DEF WholeTop
  <1> HIDE DEF g
  <1>4. Serial!GetTopStory(i)
    BY <1>2, <1>3 DEF Serial!GetTopStory, g
  <1>. QED
    BY <1>4 DEF Serial!Next

\* Rows that are served whole are a step of ClassicRoom, or none.
LEMMA WholeIsStep ==
  ASSUME NEW f, Whole(now, served, f), served' = f, now' = now
  PROVE  [Serial!Next]_(Serial!vars)
  <1>1. CASE f = served
    BY <1>1 DEF Serial!vars
  <1>2. CASE WholeGet(now, served, f)
    BY <1>2, GetIsStep
  <1>3. ASSUME NEW p \in Players,
               \/ WholeJoin(now, served, f, p) \/ WholeLeave(now, served, f, p)
               \/ WholeHost(now, served, f, p)
        PROVE  Serial!Next
    BY <1>3, JoinIsStep, LeaveIsStep, HostIsStep
  <1>4. ASSUME NEW p \in Players, NEW i \in DOMAIN served.rounds,
               \/ WholeStory(now, served, f, p, i)
               \/ \E x \in DOMAIN served.stories : WholeVote(now, served, f, p, i, x)
        PROVE  Serial!Next
    BY <1>4, StoryIsStep, VoteIsStep
  <1>5. ASSUME NEW i \in DOMAIN served.rounds,
               WholeRead(now, served, f, i) \/ WholeTop(now, served, f, i)
        PROVE  Serial!Next
    BY <1>5, ReadIsStep, TopIsStep
  <1>. QED
    BY <1>1, <1>2, <1>3, <1>4, <1>5 DEF Whole

-----------------------------------------------------------------------------
(* One call of the one request in flight.                                  *)

Here(w)  == req[w].pc # "idle" /\ Going(now, req[w], served, Snapshot)
There(w) == Going(now, req'[w], served, Snapshot')

\* What a request was called with, and where it is now.
SameRequest(q, r) == q.op = r.op /\ q.who = r.who /\ q.story = r.story

LEMMA RequestCalls ==
  ASSUME NEW r \in Requests, NEW q, NEW pc, q = [r EXCEPT !.pc = pc]
  PROVE  /\ SameRequest(q, r) /\ q.pc = pc /\ q.then = r.then /\ q.at = r.at
         /\ q.room = r.room /\ q.round = r.round
  BY DEF Requests, SameRequest

LEMMA RequestGoes ==
  ASSUME FlightInv, NEW w \in Workers
  PROVE  /\ \A q : Go(w, q) => req'[w] = q
         /\ \A x : Call(w, x) =>
              /\ SameRequest(req'[w], req[w]) /\ req'[w].pc = x
              /\ req'[w].then = req[w].then /\ req'[w].at = req[w].at
              /\ req'[w].room = req[w].room /\ req'[w].round = req[w].round
         /\ \A x : Sync(w, x) =>
              /\ SameRequest(req'[w], req[w]) /\ req'[w].pc = "readCurrent"
              /\ req'[w].then = x /\ req'[w].at = req[w].at
              /\ req'[w].room = req[w].room /\ req'[w].round = req[w].round
         /\ \A x : Reread(w, x) =>
              /\ SameRequest(req'[w], req[w]) /\ req'[w].pc = "reread"
              /\ req'[w].then = x /\ req'[w].at = req[w].at
              /\ req'[w].room = req[w].room /\ req'[w].round = req[w].round
         /\ Build(w) =>
              /\ SameRequest(req'[w], req[w]) /\ req'[w].pc = "listUsers"
              /\ req'[w].then = req[w].then /\ req'[w].at = req[w].at
         /\ Finish(w) => req'[w] = Idle
  <1>1. req \in [Workers -> Requests] /\ req[w] \in Requests
    BY DEF FlightInv
  <1>2. \A q : Go(w, q) => req'[w] = q
    BY <1>1 DEF Go
  <1> DEFINE r == req[w]
  <1>5. LET q == [r EXCEPT !.pc = "listUsers", !.room = NoRoom, !.round = NoRow]
        IN  SameRequest(q, r) /\ q.pc = "listUsers" /\ q.then = r.then /\ q.at = r.at
    BY <1>1 DEF Requests, SameRequest
  <1>6. /\ \A x : Call(w, x) => req'[w] = [r EXCEPT !.pc = x]
        /\ \A x : Sync(w, x) => req'[w] = [r EXCEPT !.pc = "readCurrent", !.then = x]
        /\ \A x : Reread(w, x) => req'[w] = [r EXCEPT !.pc = "reread", !.then = x]
        /\ Build(w) => req'[w] = [r EXCEPT !.pc = "listUsers", !.room = NoRoom, !.round = NoRow]
        /\ Finish(w) => req'[w] = Idle
    BY <1>2 DEF Call, Sync, Reread, Build, Finish
  <1>a. r \in Requests
    BY <1>1
  <1> HIDE DEF r
  <1>7. ASSUME NEW x, Call(w, x)
        PROVE  /\ SameRequest(req'[w], r) /\ req'[w].pc = x
               /\ req'[w].then = r.then /\ req'[w].at = r.at
               /\ req'[w].room = r.room /\ req'[w].round = r.round
    <2>1. req'[w] = [r EXCEPT !.pc = x]
      BY <1>6, <1>7
    <2>. QED
      BY <1>a, <2>1, RequestCalls
  <1>8. ASSUME NEW x, Sync(w, x)
        PROVE  /\ SameRequest(req'[w], r) /\ req'[w].pc = "readCurrent"
               /\ req'[w].then = x /\ req'[w].at = r.at
               /\ req'[w].room = r.room /\ req'[w].round = r.round
    <2>1. req'[w] = [r EXCEPT !.pc = "readCurrent", !.then = x]
      BY <1>6, <1>8
    <2>. QED
      BY <1>a, <2>1 DEF Requests, SameRequest
  <1>9. ASSUME NEW x, Reread(w, x)
        PROVE  /\ SameRequest(req'[w], r) /\ req'[w].pc = "reread"
               /\ req'[w].then = x /\ req'[w].at = r.at
               /\ req'[w].room = r.room /\ req'[w].round = r.round
    <2>1. req'[w] = [r EXCEPT !.pc = "reread", !.then = x]
      BY <1>6, <1>9
    <2>. QED
      BY <1>a, <2>1 DEF Requests, SameRequest
  <1>. QED
    BY <1>2, <1>5, <1>6, <1>7, <1>8, <1>9 DEF r

\* The rows as records, and as they are when a call has only read.
LEMMA RowsNow ==
  /\ Game(Snapshot) = game /\ game.room = room /\ game.rounds = rounds
  /\ \A h : Playing(Snapshot, h) = Rows(h, user, stories, votes)
  /\ Snapshot = Rows(game, user, stories, votes)
  /\ Snapshot.room = room /\ Snapshot.rounds = rounds /\ Snapshot.user = user
  /\ Snapshot.stories = stories /\ Snapshot.votes = votes
  /\ JustRead => Snapshot' = Snapshot
  BY DEF Game, game, Snapshot, Playing, Rows, JustRead

LEMMA IdlePc == Idle.pc = "idle"
  BY DEF Idle

\* A request that ends with the rows as one of ClassicRoom would leave them.
LEMMA GoneWell ==
  ASSUME FlightInv, NEW w \in Workers, Finish(w), Whole(now, served, Snapshot'),
         Tidy(req'[w], Snapshot')
  PROVE  There(w)
  BY RequestGoes, IdlePc DEF There, Going

LEMMA NothingDone == Whole(now, served, served)
  BY DEF Whole

\* A call that only reads, of a request that has written nothing yet.
LEMMA GoneEarly ==
  ASSUME FlightInv, NEW w \in Workers, Here(w), JustRead, Finish(w), Untouched(req[w])
  PROVE  There(w)
  <1>1. Snapshot' = Snapshot /\ Snapshot = served
    BY RowsNow DEF Here, Going, Stage
  <1>2. Tidy(req'[w], Snapshot')
    BY <1>1, RequestGoes, IdlePc DEF Here, Going, Tidy, Untouched
  <1>. QED
    BY <1>1, <1>2, NothingDone, GoneWell


LEMMA HereFacts ==
  ASSUME FlightInv, NEW w \in Workers, Here(w)
  PROVE  /\ req[w] \in Requests /\ FitsOperation(req[w]) /\ req[w].pc # "idle"
         /\ Tidy(req[w], Snapshot) /\ CopiesFresh(req[w], Snapshot)
         /\ Entitled(req[w], served) /\ Passed(now, req[w], served)
         /\ Stage(now, req[w], served, Snapshot)
         /\ (Untouched(req[w]) => Snapshot = served)
         /\ game \in Games /\ now \in Nat /\ room \in Rooms
         /\ rounds \in Seq(Rounds) /\ DOMAIN rounds = 1..Len(rounds) /\ Len(rounds) \in Nat
         /\ user \in [Players -> {"absent", "member", "gone"}]
         /\ stories \in Seq(Stories) /\ votes \in Seq(Votes)
  <1>1. Fits(req[w], now, rounds, stories) /\ TypeOK
    BY DEF FlightInv
  <1>2. Going(now, req[w], served, Snapshot) /\ req[w].pc # "idle"
    BY DEF Here
  <1>3. /\ Tidy(req[w], Snapshot) /\ CopiesFresh(req[w], Snapshot)
        /\ Entitled(req[w], served) /\ Passed(now, req[w], served)
        /\ Stage(now, req[w], served, Snapshot)
    BY <1>2 DEF Going
  <1>4. Untouched(req[w]) => Snapshot = served
    BY <1>3 DEF Stage
  <1>5. game \in Games
    BY <1>1 DEF TypeOK, Games, game
  <1>. QED
    BY <1>1, <1>2, <1>3, <1>4, <1>5 DEF Fits, TypeOK

LEMMA UntouchedStage ==
  ASSUME NEW q, Untouched(q)
  PROVE  Stage(now, q, served, served) /\ q.pc # "idle" /\ q.pc # "setActive"
  BY DEF Untouched, Stage, RoundOps, BallotCalls

LEMMA GoesOn ==
  ASSUME FlightInv, NEW w \in Workers, Here(w), JustRead, Untouched(req[w]),
         Untouched(req'[w]), CopiesFresh(req'[w], served), Entitled(req'[w], served),
         Passed(now, req'[w], served)
  PROVE  There(w)
  <1>1. Snapshot' = served
    BY HereFacts, RowsNow
  <1>2. Tidy(req'[w], served)
    BY HereFacts, UntouchedStage DEF Tidy
  <1>. QED
    BY <1>1, <1>2, UntouchedStage DEF There, Going

LEMMA LatestIsLast ==
  ASSUME FlightInv, NEW w \in Workers, Here(w), rounds # <<>>
  PROVE  Latest = Len(rounds) /\ Len(rounds) \in DOMAIN rounds
  <1>1. /\ DOMAIN rounds = 1..Len(rounds) /\ Len(rounds) \in Nat /\ Len(rounds) # 0
        /\ \A i \in DOMAIN rounds : rounds[i].number = i
    BY HereFacts, RowsNow DEF Tidy
  <1> DEFINE P(i) == \A j \in DOMAIN rounds : Precedes(i, j)
  <1>2. Len(rounds) \in DOMAIN rounds /\ P(Len(rounds))
    <2>1. ASSUME NEW j \in DOMAIN rounds PROVE Precedes(Len(rounds), j)
      <3>1. /\ rounds[j].number = j /\ rounds[Len(rounds)].number = Len(rounds)
            /\ j \in Nat /\ j <= Len(rounds)
        BY <1>1
      <3>2. CASE j = Len(rounds)
        BY <1>1, <3>2 DEF Precedes
      <3>3. CASE j # Len(rounds)
        BY <1>1, <3>1, <3>3 DEF Precedes
      <3>. QED
        BY <3>2, <3>3
    <2>. QED
      BY <1>1, <2>1
  <1>3. \A i \in DOMAIN rounds : P(i) => i = Len(rounds)
    <2>1. ASSUME NEW i \in DOMAIN rounds, P(i) PROVE i = Len(rounds)
      <3>1. Precedes(i, Len(rounds)) /\ rounds[i].number = i /\ i \in Nat /\ i <= Len(rounds)
            /\ rounds[Len(rounds)].number = Len(rounds)
        BY <1>1, <1>2, <2>1
      <3>. QED
        BY <1>1, <3>1 DEF Precedes
    <2>. QED
      BY <2>1
  <1>4. (CHOOSE i \in DOMAIN rounds : P(i)) = Len(rounds)
    <2> HIDE DEF P
    <2>. QED
      BY <1>2, <1>3
  <1>. QED
    BY <1>2, <1>4 DEF Latest

-----------------------------------------------------------------------------
(* The calls that only read, before anything is written.                   *)

LEMMA ReadRoomGoes ==
  ASSUME FlightInv, NEW w \in Workers, Here(w), ReadRoom(w)
  PROVE  There(w)
  <1> DEFINE r == req[w]
             q == req'[w]
  <1>1. r.pc = "readRoom" /\ r \in Requests /\ JustRead
        /\ q = [r EXCEPT !.room = room,
                         !.pc = IF r.op \in {"get", "join"} THEN "available" ELSE "authenticate"]
    BY RequestGoes DEF FlightInv, ReadRoom, At
  <1>2. /\ Entitled(r, served) /\ Passed(now, r, served) /\ FitsOperation(r)
        /\ Untouched(r) /\ served.room = room
    BY <1>1, HereFacts, RowsNow DEF Stage, Untouched
  <1> HIDE DEF r, q
  <1>3. /\ SameRequest(q, r) /\ q.at = r.at /\ q.room = room
        /\ q.pc = IF r.op \in {"get", "join"} THEN "available" ELSE "authenticate"
    BY <1>1 DEF Requests, SameRequest
  <1>4. r.op \in {"get", "join", "leave"} \cup HostOps /\ r.op \notin RoundOps
    BY <1>1, <1>2 DEF FitsOperation, Passed, BallotCalls
  <1>5. CopiesFresh(q, served)
    BY <1>2, <1>3 DEF CopiesFresh, OnRow
  <1>6. Entitled(q, served)
    BY <1>2, <1>3, <1>4 DEF Entitled, SameRequest, HostOps
  <1>7. Passed(now, q, served)
    BY <1>2, <1>3, <1>4 DEF Passed, SameRequest, HostOps
  <1>8. Untouched(q)
    BY <1>3, <1>4 DEF Untouched, SameRequest
  <1>. QED
    BY <1>1, <1>2, <1>5, <1>6, <1>7, <1>8, GoesOn DEF r, q

-----------------------------------------------------------------------------
(* How a request ends: with the rows as it leaves them, or by building the *)
(* state of the room, which synchronises the current round once more.      *)

LEMMA TidyKept ==
  ASSUME NEW r, NEW q, NEW c, Tidy(r, c), r.pc # "setActive"
  PROVE  Tidy(q, c)
  BY DEF Tidy

\* A row of the room, or of one of its rounds, is written.
LEMMA TidyRows ==
  ASSUME FlightInv, NEW w \in Workers, Here(w), NEW q, NEW c,
         DOMAIN c.rounds = DOMAIN rounds,
         \A i \in DOMAIN rounds : c.rounds[i].number = rounds[i].number,
         c.rounds = <<>> <=> rounds = <<>>,
         c.room.hostID = room.hostID,
         \/ c.room.status = room.status /\ req[w].pc # "setActive"
         \/ c.room.status \notin {"none", "waiting"} /\ room.status # "none"
  PROVE  Tidy(q, c)
  <1>1. Tidy(req[w], Snapshot) /\ Snapshot.room = room /\ Snapshot.rounds = rounds
    BY HereFacts, RowsNow
  <1>. QED
    BY <1>1 DEF Tidy

LEMMA BuildTail ==
  ASSUME FlightInv, NEW w \in Workers, Here(w),
         Build(w) \/ Sync(w, "build") \/ Sync(w, "done"),
         req[w].op \notin RoundOps, req[w].pc \notin {"readRoom", "authenticate"},
         NEW f, Snapshot' = f,
         Whole(now, served, Playing(f, SyncCurrent(Game(f)))), Tidy(req'[w], f)
  PROVE  There(w)
  <1> DEFINE r == req[w]
             q == req'[w]
  <1>1. /\ SameRequest(q, r) /\ q.at = r.at
        /\ \/ q.pc = "listUsers"
           \/ q.pc = "readCurrent" /\ q.then \in {"build", "done"}
    BY RequestGoes
  <1>2. Entitled(r, served) /\ r.op \notin RoundOps /\ r.pc \notin {"readRoom", "authenticate"}
    BY HereFacts
  <1>3. Whole(now, served, Playing(f, Found(now, served)!SyncCurrent(Game(f))))
    BY FoundFunctions
  <1> HIDE DEF r, q
  <1>4. CopiesFresh(q, f)
    BY <1>1 DEF CopiesFresh, OnRow
  <1>5. Entitled(q, served)
    BY <1>1, <1>2 DEF Entitled, SameRequest, RoundOps
  <1>6. Passed(now, q, served)
    BY <1>1, <1>2 DEF Passed, SameRequest, RoundOps
  <1>7. Stage(now, q, served, f)
    BY <1>1, <1>3 DEF Stage, Untouched, BallotCalls
  <1>8. There(w) <=> Going(now, q, served, f)
    BY DEF There, q
  <1>. QED
    BY <1>1, <1>4, <1>5, <1>6, <1>7, <1>8 DEF Going, q

\* A request on a ballot that goes on to its next call.
LEMMA BallotGoes ==
  ASSUME FlightInv, NEW w \in Workers, Here(w), JustRead, req[w].op \in RoundOps,
         req[w].pc # "setActive",
         req'[w].op = req[w].op, req'[w].who = req[w].who, req'[w].at = req[w].at,
         req[w].op = "vote" => req'[w].story = req[w].story,
         req'[w].pc \in BallotCalls,
         Ballot(now, req'[w], served, Snapshot)
  PROVE  There(w)
  <1> DEFINE r == req[w]
             q == req'[w]
  <1>1. Entitled(r, served) /\ Tidy(r, Snapshot)
    BY HereFacts
  <1>2. Snapshot' = Snapshot
    BY RowsNow
  <1>3. /\ q.op = r.op /\ q.who = r.who /\ q.at = r.at /\ r.op \in RoundOps
        /\ r.op = "vote" => q.story = r.story
        /\ q.pc \in BallotCalls /\ Ballot(now, q, served, Snapshot) /\ r.pc # "setActive"
    OBVIOUS
  <1>8. There(w) <=> Going(now, q, served, Snapshot)
    BY <1>2 DEF There, q
  <1> HIDE DEF r, q
  <1>4. CopiesFresh(q, Snapshot)
    BY <1>3 DEF CopiesFresh, OnRow, BallotCalls
  <1>5. Entitled(q, served)
    BY <1>1, <1>3 DEF Entitled, RoundOps, HostOps
  <1>6. Passed(now, q, served)
    BY <1>3 DEF Passed, BallotCalls
  <1>7. Stage(now, q, served, Snapshot)
    BY <1>3 DEF Stage, Untouched, BallotCalls
  <1>9. Tidy(q, Snapshot) /\ q.pc # "idle"
    BY <1>1, <1>3, TidyKept DEF BallotCalls
  <1>. QED
    BY <1>4, <1>5, <1>6, <1>7, <1>8, <1>9 DEF Going

\* A request on a ballot that is refused has read its round.
LEMMA BallotRefused ==
  ASSUME FlightInv, NEW w \in Workers, Here(w), JustRead, Finish(w),
         req[w].op \in RoundOps, req[w].pc # "setActive",
         Ballot(now, req[w], served, Snapshot)
  PROVE  There(w)
  <1>1. req[w].at \in DOMAIN served.rounds /\ Tidy(req[w], Snapshot)
    BY HereFacts DEF Entitled
  <1>2. WholeRead(now, served, Snapshot, req[w].at)
    BY DEF WholeRead, Ballot
  <1>3. Whole(now, served, Snapshot)
    BY <1>1, <1>2 DEF Whole
  <1>4. Snapshot' = Snapshot
    BY RowsNow
  <1>. QED
    BY <1>1, <1>3, <1>4, TidyKept, GoneWell

-----------------------------------------------------------------------------
(* The calls that many operations share.                                   *)

LEMMA AuthenticateGoes ==
  ASSUME FlightInv, NEW w \in Workers, Here(w), Authenticate(w)
  PROVE  There(w)
  <1> DEFINE r == req[w]
  <1>1. r.pc = "authenticate" /\ r \in Requests /\ JustRead
        /\ IF user[r.who] # "member"
             THEN Finish(w)
             ELSE CASE r.op = "leave" -> Call(w, "deleteUser")
                    [] r.op = "story" -> Call(w, "checkStory")
                    [] r.op = "vote"  -> Call(w, "checkVote")
                    [] r.op \in {"start", "next"} -> Call(w, "available")
                    [] r.op = "pause" -> IF r.room.status \in {"active", "paused"}
                                           THEN Call(w, "toggle") ELSE Finish(w)
    BY HereFacts DEF Authenticate, At
  <1>2. r.op \in HostOps \cup {"leave", "story", "vote"}
    BY <1>1, HereFacts DEF FitsOperation
  <1>3. /\ Entitled(r, served) /\ Passed(now, r, served) /\ CopiesFresh(r, Snapshot)
        /\ Stage(now, r, served, Snapshot)
    BY HereFacts
  <1>4. CASE r.op \in {"story", "vote"}
    <2>1. Ballot(now, r, served, Snapshot) /\ r.op \in RoundOps
      BY <1>1, <1>3, <1>4 DEF Stage, RoundOps
    <2>2. CASE user[r.who] # "member"
      BY <1>1, <2>1, <2>2, BallotRefused
    <2>3. CASE user[r.who] = "member"
      <3> DEFINE q == req'[w]
      <3>1. \/ Call(w, "checkStory") /\ r.op = "story"
            \/ Call(w, "checkVote") /\ r.op = "vote"
        BY <1>1, <1>4, <2>3
      <3>2. SameRequest(q, r) /\ q.at = r.at
            /\ \/ q.pc = "checkStory" /\ r.op = "story"
               \/ q.pc = "checkVote" /\ r.op = "vote"
        BY <3>1, RequestGoes
      <3>3. served.user[r.who] = "member"
        BY <2>1, <2>3, RowsNow DEF Ballot, Playing, Rows
      <3>4. Ballot(now, q, served, Snapshot) /\ q.pc \in BallotCalls
        <4> HIDE DEF r, q
        <4>. QED
          BY <2>1, <3>2, <3>3 DEF Ballot, SameRequest, BallotCalls
      <3>. QED
        BY <1>1, <2>1, <3>2, <3>4, BallotGoes DEF SameRequest
    <2>. QED
      BY <2>2, <2>3
  <1>5. CASE r.op \in HostOps \cup {"leave"}
    <2>1. Untouched(r) /\ r.op \notin RoundOps
      BY <1>1, <1>5 DEF Untouched, HostOps, RoundOps
    <2>2. CASE Finish(w)
      BY <1>1, <2>1, <2>2, GoneEarly
    <2>3. ASSUME ~Finish(w) PROVE There(w)
      <3> DEFINE q == req'[w]
      <3>1. /\ user[r.who] = "member"
            /\ \/ r.op = "leave" /\ Call(w, "deleteUser")
               \/ r.op \in {"start", "next"} /\ Call(w, "available")
               \/ r.op = "pause" /\ r.room.status \in {"active", "paused"} /\ Call(w, "toggle")
        BY <1>1, <1>5, <2>3 DEF HostOps
      <3>2. /\ SameRequest(q, r) /\ q.at = r.at /\ q.room = r.room
            /\ \/ r.op = "leave" /\ q.pc = "deleteUser"
               \/ r.op \in {"start", "next"} /\ q.pc = "available"
               \/ r.op = "pause" /\ r.room.status \in {"active", "paused"} /\ q.pc = "toggle"
        BY <3>1, RequestGoes
      <3>3. Snapshot = served /\ served.user = user /\ r.room = served.room
        BY <1>1, <1>3, <2>1, HereFacts, RowsNow DEF CopiesFresh
      <3> HIDE DEF r, q
      <3>4. Untouched(q) /\ CopiesFresh(q, served)
        BY <3>2, <3>3 DEF Untouched, CopiesFresh, OnRow
      <3>5. Entitled(q, served)
        BY <1>3, <3>1, <3>2, <3>3 DEF Entitled, SameRequest, HostOps, RoundOps
      <3>6. Passed(now, q, served)
        BY <3>2, <3>3, <2>1 DEF Passed, SameRequest, RoundOps
      <3>. QED
        BY <1>1, <2>1, <3>4, <3>5, <3>6, GoesOn DEF r, q
    <2>. QED
      BY <2>2, <2>3
  <1>. QED
    BY <1>2, <1>4, <1>5

\* A room that has been read in its last moment, or later.
LEMMA GetIsWhole ==
  ASSUME NEW f, served.room.status # "none",
         f = Playing(served, SyncCurrent(Expire(Game(served))))
  PROVE  Whole(now, served, f)
  BY FoundFunctions DEF Whole, WholeGet

LEMMA ExpiredStays ==
  ASSUME NEW g \in Games, now > g.room.expiresAt, now \in Nat
  PROVE  SyncCurrent(Expire(g)) = WithStatus(g, "expired")
  BY SyncPast DEF Expire

LEMMA StatusRows ==
  ASSUME NEW x, UpdateRoom([room EXCEPT !.status = x])
  PROVE  /\ Snapshot' = Rows(WithStatus(game, x), user, stories, votes)
         /\ Snapshot' = Playing(Snapshot, WithStatus(game, x))
  BY DEF UpdateRoom, Snapshot, Rows, WithStatus, game, Playing

LEMMA AvailableGoes ==
  ASSUME FlightInv, NEW w \in Workers, Here(w), Available(w)
  PROVE  There(w)
  <1> DEFINE r == req[w]
             q == req'[w]
             status == r.room.status
  <1>1. r.pc = "available" /\ r \in Requests
        /\ IF now > r.room.expiresAt
             THEN Finish(w) /\ UpdateRoom([r.room EXCEPT !.status = "expired"])
             ELSE /\ JustRead
                  /\ CASE r.op = "get"   /\ status # "expired" -> Sync(w, "build")
                       [] r.op = "next"  /\ status # "expired" -> Sync(w, "step")
                       [] r.op = "join"  /\ status = "waiting" -> Call(w, "countUsers")
                       [] r.op = "start" /\ status = "waiting" -> Call(w, "openFirst")
                       [] r.op = "start" /\ status = "paused"  -> Reread(w, "resume")
                       [] OTHER -> Finish(w)
    BY HereFacts DEF Available, At
  <1>2. /\ Untouched(r) /\ Snapshot = served
        /\ r.room = room /\ room = served.room /\ game = Game(served)
        /\ served.user = user
    BY <1>1, HereFacts, RowsNow DEF Untouched, CopiesFresh
  <1>3. /\ Entitled(r, served) /\ Passed(now, r, served)
        /\ r.op \in {"get", "join", "start", "next"}
    BY <1>1, HereFacts DEF Passed
  <1>4. CASE now > r.room.expiresAt
    <2>1. Finish(w) /\ Snapshot' = Playing(Snapshot, WithStatus(game, "expired"))
      BY <1>1, <1>2, <1>4, StatusRows
    <2>2. SyncCurrent(Expire(game)) = WithStatus(game, "expired")
      BY <1>2, <1>4, ExpiredStays, HereFacts, RowsNow
    <2>3. Whole(now, served, Snapshot')
      BY <1>2, <1>3, <2>1, <2>2, GetIsWhole DEF Entitled
    <2>4. Tidy(req'[w], Snapshot')
      <3>1. /\ Playing(Snapshot, WithStatus(game, "expired")).rounds = rounds
            /\ Playing(Snapshot, WithStatus(game, "expired")).room.hostID = room.hostID
            /\ Playing(Snapshot, WithStatus(game, "expired")).room.status = "expired"
        BY HereFacts, RowsNow DEF Playing, Rows, WithStatus, Games, Rooms
      <3>. QED
        BY <1>2, <1>3, <2>1, <3>1, TidyRows DEF Entitled
    <2>. QED
      BY <2>1, <2>3, <2>4, GoneWell
  <1>5. CASE ~(now > r.room.expiresAt)
    <2>1. JustRead /\ ~Late(now, served)
      BY <1>1, <1>2, <1>5 DEF Late
    <2>2. CASE Finish(w)
      BY <1>2, <2>1, <2>2, GoneEarly
    <2>3. CASE r.op = "get" /\ Sync(w, "build")
      <3>1. Expire(game) = game
        BY <1>2, <2>1, RowsNow DEF Late, Expire
      <3>2. Whole(now, served, Playing(served, SyncCurrent(Game(served))))
        BY <1>2, <1>3, <3>1, GetIsWhole DEF Entitled
      <3>3. Snapshot' = served
        BY <1>2, <2>1, RowsNow
      <3>4. Tidy(q, served)
        BY <1>1, <1>2, HereFacts, TidyKept
      <3>. QED
        BY <1>1, <2>3, <3>2, <3>3, <3>4, BuildTail DEF RoundOps
    <2>4. ASSUME \/ r.op = "next"  /\ Sync(w, "step")
                 \/ r.op = "join"  /\ status = "waiting" /\ Call(w, "countUsers")
                 \/ r.op = "start" /\ status = "waiting" /\ Call(w, "openFirst")
                 \/ r.op = "start" /\ status = "paused"  /\ Reread(w, "resume")
          PROVE  There(w)
      <3>1. /\ SameRequest(q, r) /\ q.at = r.at /\ q.room = r.room
            /\ \/ r.op = "next" /\ q.pc = "readCurrent" /\ q.then = "step"
               \/ r.op = "join" /\ status = "waiting" /\ q.pc = "countUsers"
               \/ r.op = "start" /\ status = "waiting" /\ q.pc = "openFirst"
               \/ r.op = "start" /\ status = "paused" /\ q.pc = "reread" /\ q.then = "resume"
        BY <2>4, RequestGoes
      <3> HIDE DEF q
      <3>2. Untouched(q) /\ CopiesFresh(q, served)
        BY <1>2, <3>1 DEF Untouched, CopiesFresh, OnRow
      <3>3. Entitled(q, served)
        BY <1>1, <1>3, <3>1 DEF Entitled, SameRequest, HostOps, RoundOps
      <3>4. Passed(now, q, served)
        BY <1>2, <2>1, <3>1 DEF Passed, SameRequest, RoundOps
      <3>. QED
        BY <1>2, <2>1, <3>2, <3>3, <3>4, GoesOn DEF q
    <2>. QED
      BY <1>1, <1>3, <1>5, <2>2, <2>3, <2>4
  <1>. QED
    BY <1>4, <1>5

LEMMA ListUsersGoes ==
  ASSUME FlightInv, NEW w \in Workers, Here(w), ListUsers(w)
  PROVE  There(w)
  <1>1. req[w].pc = "listUsers" /\ Sync(w, "done") /\ JustRead
    BY DEF ListUsers, At
  <1>2. Stage(now, req[w], served, Snapshot) /\ req[w].op \notin RoundOps
    BY <1>1, HereFacts DEF Passed, BallotCalls
  <1>3. Whole(now, served, Playing(Snapshot, SyncCurrent(Game(Snapshot))))
    BY <1>1, <1>2, FoundFunctions DEF Stage
  <1>4. Snapshot' = Snapshot /\ Tidy(req'[w], Snapshot)
    BY <1>1, HereFacts, RowsNow, TidyKept
  <1>. QED
    BY <1>1, <1>2, <1>3, <1>4, BuildTail

LEMMA ReadCurrentGoes ==
  ASSUME FlightInv, NEW w \in Workers, Here(w), ReadCurrent(w)
  PROVE  There(w)
  <1> DEFINE r == req[w]
             q == req'[w]
  <1>1. /\ r.pc = "readCurrent" /\ r \in Requests /\ JustRead
        /\ IF rounds # <<>>
             THEN q = [r EXCEPT !.pc = "syncRoom", !.at = Latest, !.round = rounds[Latest]]
             ELSE CASE r.then = "build" -> Build(w)
                    [] r.then = "step"  -> Call(w, "reread")
                    [] OTHER -> Finish(w)
    BY HereFacts, RequestGoes DEF ReadCurrent, At
  <1>2. /\ Stage(now, r, served, Snapshot) /\ Passed(now, r, served)
        /\ Entitled(r, served) /\ Tidy(r, Snapshot)
    BY HereFacts
  <1>3. r.op \notin RoundOps /\ r.then \in {"build", "done", "step"}
    BY <1>1, <1>2 DEF Passed, BallotCalls, RoundOps
  <1>4. Snapshot' = Snapshot /\ Tidy(q, Snapshot) /\ Game(Snapshot) = game
    BY <1>1, <1>2, RowsNow, TidyKept
  <1>5. r.then \in {"build", "done"} =>
          Whole(now, served, Playing(Snapshot, SyncCurrent(Game(Snapshot))))
    BY <1>1, <1>2, FoundFunctions DEF Stage
  <1>6. r.then = "step" => Untouched(r) /\ Snapshot = served
    BY <1>1, HereFacts DEF Untouched
  <1>7. CASE rounds = <<>>
    <2>1. SyncCurrent(game) = game
      BY <1>7, RowsNow DEF SyncCurrent
    <2>2. Playing(Snapshot, game) = Snapshot
      BY RowsNow
    <2>3. CASE r.then = "build"
      BY <1>1, <1>3, <1>4, <1>5, <1>7, <2>3, BuildTail
    <2>4. CASE r.then = "done"
      BY <1>1, <1>4, <1>5, <1>7, <2>1, <2>2, <2>4, GoneWell
    <2>5. CASE r.then = "step"
      <3>1. /\ SameRequest(q, r) /\ q.pc = "reread" /\ q.then = "step" /\ q.at = r.at
            /\ q.room = r.room
        BY <1>1, <1>7, <2>5, RequestGoes
      <3>2. Snapshot.rounds = <<>> /\ Snapshot = served /\ r.room = Snapshot.room
        BY <1>1, <1>6, <1>7, <2>5, HereFacts, RowsNow DEF CopiesFresh
      <3>3. There(w) <=> Going(now, q, served, Snapshot)
        BY <1>4 DEF There
      <3> HIDE DEF r, q
      <3>4. CopiesFresh(q, Snapshot)
        BY <3>1, <3>2 DEF CopiesFresh, OnRow
      <3>5. Entitled(q, served)
        BY <1>1, <1>2, <1>3, <3>1 DEF Entitled, SameRequest, RoundOps
      <3>6. Passed(now, q, served)
        BY <1>1, <1>2, <1>3, <2>5, <3>1 DEF Passed, SameRequest
      <3>7. Stage(now, q, served, Snapshot)
        BY <3>1, <3>2 DEF Stage, Untouched, BallotCalls
      <3>. QED
        BY <1>4, <3>1, <3>3, <3>4, <3>5, <3>6, <3>7 DEF Going
    <2>. QED
      BY <1>3, <2>3, <2>4, <2>5
  <1>8. CASE rounds # <<>>
    <2>1. Latest = Len(rounds) /\ Len(rounds) \in DOMAIN rounds
      BY <1>8, LatestIsLast
    <2>2. SyncCurrent(game) = SyncRound(game, Len(rounds))
      BY <1>8, RowsNow DEF SyncCurrent, Current
    <2>a. q = [r EXCEPT !.pc = "syncRoom", !.at = Len(rounds), !.round = rounds[Len(rounds)]]
      BY <1>1, <1>8, <2>1
    <2>b. r \in Requests
      BY <1>1
    <2> HIDE DEF r, q
    <2>3. /\ SameRequest(q, r) /\ q.pc = "syncRoom" /\ q.then = r.then /\ q.at = Len(rounds)
          /\ q.round = rounds[Len(rounds)]
      BY <2>a, <2>b DEF Requests, SameRequest
    <2>4. CopiesFresh(q, Snapshot)
      BY <2>1, <2>3, RowsNow DEF CopiesFresh, OnRow
    <2>5. Entitled(q, served)
      BY <1>1, <1>2, <1>3, <2>3 DEF Entitled, SameRequest, HostOps, RoundOps
    <2>6. Passed(now, q, served)
      BY <1>1, <1>2, <1>3, <2>3 DEF Passed, SameRequest
    <2>7. r.then \in {"build", "done"} =>
            Whole(now, served, Playing(Snapshot, Found(now, served)!SyncRound(Game(Snapshot), q.at)))
      BY <1>4, <1>5, <2>2, <2>3, FoundFunctions
    <2>8. Stage(now, q, served, Snapshot)
      BY <1>3, <1>6, <2>3, <2>7 DEF Stage, Untouched, BallotCalls
    <2>9. There(w) <=> Going(now, q, served, Snapshot)
      BY <1>4 DEF There, q
    <2>. QED
      BY <1>4, <2>3, <2>4, <2>5, <2>6, <2>8, <2>9 DEF Going
  <1>. QED
    BY <1>7, <1>8

LEMMA SyncRoomGoes ==
  ASSUME FlightInv, NEW w \in Workers, Here(w), SyncRoom(w)
  PROVE  There(w)
  <1> DEFINE r == req[w]
             q == req'[w]
  <1>1. r.pc = "syncRoom" /\ r \in Requests /\ JustRead
        /\ q = [r EXCEPT !.pc = "syncWrite", !.room = room]
    BY HereFacts, RequestGoes DEF SyncRoom, At
  <1>2. /\ Stage(now, r, served, Snapshot) /\ Passed(now, r, served)
        /\ Entitled(r, served) /\ Tidy(r, Snapshot) /\ CopiesFresh(r, Snapshot)
    BY HereFacts
  <1>3. Snapshot' = Snapshot /\ Tidy(q, Snapshot) /\ Snapshot.room = room
    BY <1>1, <1>2, RowsNow, TidyKept
  <1>4. There(w) <=> Going(now, q, served, Snapshot)
    BY <1>3 DEF There
  <1> HIDE DEF r, q
  <1>5. /\ SameRequest(q, r) /\ q.pc = "syncWrite" /\ q.then = r.then /\ q.at = r.at
        /\ q.round = r.round /\ q.room = room
    BY <1>1 DEF Requests, SameRequest
  <1>6. CopiesFresh(q, Snapshot)
    BY <1>1, <1>2, <1>3, <1>5 DEF CopiesFresh, OnRow, SameRequest
  <1>7. Entitled(q, served)
    BY <1>1, <1>2, <1>5 DEF Entitled, SameRequest
  <1>8. Passed(now, q, served)
    BY <1>1, <1>2, <1>5 DEF Passed, SameRequest
  <1>9. Stage(now, q, served, Snapshot)
    BY <1>1, <1>2, <1>5 DEF Stage, Untouched, BallotCalls, SameRequest
  <1>. QED
    BY <1>3, <1>4, <1>5, <1>6, <1>7, <1>8, <1>9 DEF Going

LEMMA RereadCurrentGoes ==
  ASSUME FlightInv, NEW w \in Workers, Here(w), RereadCurrent(w)
  PROVE  There(w)
  <1> DEFINE r == req[w]
             q == req'[w]
  <1>1. /\ r.pc = "reread" /\ r \in Requests /\ JustRead
        /\ rounds # <<>> =>
             q = [r EXCEPT !.pc = r.then, !.at = Latest, !.round = rounds[Latest]]
        /\ rounds = <<>> /\ r.op # "pause" => Finish(w)
    BY HereFacts, RequestGoes DEF RereadCurrent, At
  <1>2. /\ Stage(now, r, served, Snapshot) /\ Passed(now, r, served)
        /\ Entitled(r, served) /\ Tidy(r, Snapshot) /\ CopiesFresh(r, Snapshot)
        /\ r.then \in {"step", "resume", "mark"} /\ r.op \notin RoundOps
        /\ r.then = "mark" => Begun(r.room.status)
    BY <1>1, HereFacts DEF FitsOperation, Passed, BallotCalls
  <1>3. Snapshot' = Snapshot /\ Tidy(q, Snapshot) /\ Snapshot.room = room /\ Snapshot.rounds = rounds
    BY <1>1, <1>2, RowsNow, TidyKept
  <1>e. CASE rounds = <<>> /\ r.then = "step"
    <2>1. Snapshot = served /\ r.op = "next"
      BY <1>1, <1>2, <1>3, <1>e DEF Stage, Passed
    <2>. QED
      BY <1>1, <1>3, <1>e, <2>1, NothingDone, GoneWell
  <1> SUFFICES ASSUME r.then = "step" => rounds # <<>> PROVE There(w)
    BY <1>e
  <1>4. rounds # <<>>
    <2>1. Begun(room.status) => rounds # <<>>
      BY DEF FlightInv, RoundsChain, Begun
    <2>2. r.then = "resume" => served.room.status = "paused" /\ Snapshot = served
      BY <1>1, <1>2 DEF Passed, Stage, Untouched
    <2>3. r.then = "mark" => r.room = room
      BY <1>1, <1>2, <1>3 DEF CopiesFresh
    <2>. QED
      BY <1>2, <1>3, <2>1, <2>2, <2>3 DEF Begun
  <1>5. Latest = Len(rounds) /\ Len(rounds) \in DOMAIN rounds
    BY <1>4, LatestIsLast
  <1>6. There(w) <=> Going(now, q, served, Snapshot)
    BY <1>3 DEF There
  <1> HIDE DEF r, q
  <1>7. /\ SameRequest(q, r) /\ q.pc = r.then /\ q.at = Len(rounds)
        /\ q.round = rounds[Len(rounds)] /\ q.room = r.room
    BY <1>1, <1>4, <1>5 DEF Requests, SameRequest
  <1>8. CopiesFresh(q, Snapshot)
    BY <1>1, <1>2, <1>3, <1>5, <1>7 DEF CopiesFresh, OnRow
  <1>9. Entitled(q, served)
    BY <1>1, <1>2, <1>7 DEF Entitled, SameRequest, RoundOps
  <1>10. Passed(now, q, served)
    BY <1>1, <1>2, <1>7 DEF Passed, SameRequest
  <1>11. Stage(now, q, served, Snapshot)
    BY <1>1, <1>2, <1>3, <1>4, <1>7 DEF Stage, Untouched, BallotCalls, SameRequest
  <1>. QED
    BY <1>2, <1>3, <1>6, <1>7, <1>8, <1>9, <1>10, <1>11 DEF Going


-----------------------------------------------------------------------------
(* Synchronising a round.                                                  *)

LEMMA SeenIsGame ==
  ASSUME FlightInv, NEW w \in Workers, Here(w), req[w].pc = "syncWrite"
  PROVE  /\ Seen(w) = game /\ req[w].room = room /\ req[w].at \in DOMAIN rounds
         /\ req[w].round = rounds[req[w].at]
  <1>1. /\ req[w].room = room /\ req[w].at \in DOMAIN rounds
        /\ req[w].round = rounds[req[w].at] /\ rounds \in Seq(Rounds)
    BY HereFacts, RowsNow DEF CopiesFresh, OnRow
  <1>2. [rounds EXCEPT ![req[w].at] = rounds[req[w].at]] = rounds
    BY <1>1
  <1>. QED
    BY <1>1, <1>2 DEF Seen, game

LEMMA SyncRows ==
  ASSUME FlightInv, NEW i \in DOMAIN rounds, NEW g, g = SyncRound(game, i)
  PROVE  /\ DOMAIN g.rounds = DOMAIN rounds /\ g.room.hostID = room.hostID
         /\ g.room.status = "expired" =>
              /\ g.rounds = rounds
              /\ g.room = room \/ g.room = [room EXCEPT !.status = "expired"]
              /\ room.status = "expired" => g.room = room
         /\ g.room.status # "expired" =>
              g.room = room /\ g.rounds = [rounds EXCEPT ![i] = g.rounds[i]]
         /\ g = [room |-> g.room, rounds |-> g.rounds]
  <1>1. room \in Rooms /\ rounds \in Seq(Rounds)
    BY DEF FlightInv, TypeOK
  <1>2. game = [room |-> room, rounds |-> rounds]
    BY DEF game
  <1> DEFINE e == Expire(game)
  <1>3. /\ e.rounds = rounds /\ e = [room |-> e.room, rounds |-> e.rounds]
        /\ e.room = room \/ e.room = [room EXCEPT !.status = "expired"]
    BY <1>2 DEF Expire, WithStatus
  <1>4. e.room.hostID = room.hostID /\ (e.room.status # "expired" => e.room = room)
        /\ (room.status = "expired" => e.room = room)
    BY <1>1, <1>3 DEF Rooms
  <1>5. g = IF Due(e, i) THEN WithRound(e, i, Advanced(e.rounds[i])) ELSE e
    BY DEF SyncRound
  <1>6. Due(e, i) => e.room.status = "active"
    BY DEF Due
  <1> HIDE DEF e
  <1>7. CASE ~Due(e, i)
    BY <1>1, <1>3, <1>4, <1>5, <1>7
  <1>8. CASE Due(e, i)
    <2> DEFINE row == Advanced(e.rounds[i])
    <2> HIDE DEF row
    <2>1. g = [e EXCEPT !.rounds[i] = row]
      BY <1>5, <1>8 DEF WithRound, row
    <2>2. g.room = e.room /\ g.rounds = [rounds EXCEPT ![i] = row]
          /\ g = [room |-> g.room, rounds |-> g.rounds]
      BY <1>3, <2>1
    <2>3. g.rounds[i] = row /\ DOMAIN g.rounds = DOMAIN rounds
      BY <1>1, <2>2
    <2>. QED
      BY <1>4, <1>6, <1>8, <2>2, <2>3
  <1>. QED
    BY <1>7, <1>8

LEMMA SyncWritten ==
  ASSUME FlightInv, NEW w \in Workers, Here(w), SyncWrite(w),
         NEW g, g = SyncRound(game, req[w].at)
  PROVE  /\ Snapshot' = Playing(Snapshot, g)
         /\ g.room.status = "expired" => Finish(w)
         /\ g.room.status # "expired" => Synced(w, g)
  <1> DEFINE r == req[w]
             i == req[w].at
  <1>1. r.pc = "syncWrite"
    BY DEF SyncWrite, At
  <1>2. Seen(w) = game /\ r.room = room /\ i \in DOMAIN rounds /\ r.round = rounds[i]
        /\ rounds \in Seq(Rounds)
    BY <1>1, SeenIsGame, HereFacts
  <1>3. \/ /\ g.room.status = "expired"
           /\ Finish(w)
           /\ IF room.status # "expired" THEN UpdateRoom(g.room) ELSE JustRead
        \/ /\ g.room.status # "expired"
           /\ Synced(w, g)
           /\ IF g.rounds[i] # rounds[i] THEN UpdateRound(i, g.rounds[i]) ELSE JustRead
    BY <1>2 DEF SyncWrite
  <1> HIDE DEF r, i
  <1>4. /\ g.room.status = "expired" => g.rounds = rounds /\ (room.status = "expired" => g.room = room)
        /\ g.room.status # "expired" =>
             g.room = room /\ g.rounds = [rounds EXCEPT ![i] = g.rounds[i]]
    BY <1>2, SyncRows DEF i
  <1>5. [rounds EXCEPT ![i] = rounds[i]] = rounds
    BY <1>2
  <1>6. room' = g.room /\ rounds' = g.rounds /\ UNCHANGED <<user, stories, votes>>
    BY <1>3, <1>4, <1>5 DEF UpdateRoom, UpdateRound, JustRead
  <1>. QED
    BY <1>3, <1>6 DEF Snapshot, Playing, Rows

LEMMA SyncTidy ==
  ASSUME FlightInv, NEW w \in Workers, Here(w), now' = now, SyncWrite(w), NEW q
  PROVE  Tidy(q, Snapshot')
  <1> DEFINE g == SyncRound(game, req[w].at)
  <1>1. req[w].pc = "syncWrite" /\ req[w].at \in DOMAIN rounds /\ rounds # <<>>
    <2>1. req[w].pc = "syncWrite"
      BY DEF SyncWrite, At
    <2>. QED
      BY <2>1, SeenIsGame, HereFacts
  <1>2. /\ DOMAIN g.rounds = DOMAIN rounds /\ g.room.hostID = room.hostID
        /\ g.room.status \in {room.status, "expired"}
    BY <1>1, SyncRows
  <1>3. Snapshot' = Playing(Snapshot, g)
    BY SyncWritten
  <1>4. Snapshot'.room = g.room /\ Snapshot'.rounds = g.rounds /\ rounds' = g.rounds
    <2> HIDE DEF g
    <2>. QED
      BY <1>3 DEF Playing, Rows, Snapshot
  <1>5. \A j \in DOMAIN rounds : g.rounds[j].number = rounds[j].number
    <2>1. Effect(w)
      BY SyncWriteEffect
    <2> HIDE DEF g
    <2>. QED
      BY <1>4, <2>1 DEF Effect, Grown
  <1>6. Tidy(req[w], Snapshot) /\ Snapshot.room = room /\ Snapshot.rounds = rounds
    BY HereFacts, RowsNow
  <1>7. DOMAIN rounds = 1..Len(rounds)
    BY HereFacts
  <1> HIDE DEF g
  <1>. QED
    BY <1>1, <1>2, <1>4, <1>5, <1>6, <1>7 DEF Tidy

\* What becomes of the request once its round is as in the game g.
LEMMA SyncedGoes ==
  ASSUME FlightInv, NEW w \in Workers, NEW g, Synced(w, g)
  PROVE  LET r == req[w]
             q == req'[w]
             On(pc) == /\ SameRequest(q, r) /\ q.pc = pc /\ q.then = r.then /\ q.at = r.at
                       /\ q.room = g.room /\ q.round = g.rounds[r.at]
         IN  \/ r.then = "build" /\ Build(w)
             \/ r.then = "step" /\ On("reread")
             \/ /\ r.then = "accept"
                /\ \/ r.op = "story" /\ Playable(g, r.at, "writing") /\ On("authenticate")
                   \/ r.op = "vote" /\ Playable(g, r.at, "voting") /\ On("authenticate")
                   \/ /\ r.op = "top" /\ g.room.status # "waiting"
                      /\ g.rounds[r.at].status = "revealed" /\ On("listStories")
             \/ r.then \notin {"build", "step"} /\ Finish(w)
  <1> DEFINE r == req[w]
             q == req'[w]
             s == [r EXCEPT !.room = g.room, !.round = g.rounds[r.at]]
             On(pc) == /\ SameRequest(q, r) /\ q.pc = pc /\ q.then = r.then /\ q.at = r.at
                       /\ q.room = g.room /\ q.round = g.rounds[r.at]
             accepts == CASE s.op = "story" -> Playable(g, s.at, "writing")
                          [] s.op = "vote"  -> Playable(g, s.at, "voting")
                          [] s.op = "top"   -> s.room.status # "waiting" /\ s.round.status = "revealed"
                          [] OTHER -> FALSE
  <1>1. r \in Requests
    BY DEF FlightInv
  <1>2. s.op = r.op /\ s.then = r.then /\ s.at = r.at /\ s.room = g.room /\ s.round = g.rounds[r.at]
    BY <1>1 DEF Requests
  <1>3. (CASE s.then = "build" -> Build(w)
           [] s.then = "step"  -> Go(w, [s EXCEPT !.pc = "reread"])
           [] s.then = "accept" /\ accepts ->
                Go(w, [s EXCEPT !.pc = IF s.op = "top" THEN "listStories" ELSE "authenticate"])
           [] OTHER -> Finish(w))
    BY DEF Synced
  <1>4. ASSUME NEW pc, Go(w, [s EXCEPT !.pc = pc]) PROVE On(pc)
    <2>1. q = [s EXCEPT !.pc = pc] /\ s = [r EXCEPT !.room = g.room, !.round = g.rounds[r.at]]
      BY <1>4, RequestGoes
    <2> HIDE DEF r, s, q
    <2>2. /\ SameRequest(q, r) /\ q.pc = pc /\ q.then = r.then /\ q.at = r.at
          /\ q.room = g.room /\ q.round = g.rounds[r.at]
      BY <1>1, <2>1 DEF Requests, SameRequest
    <2>. QED
      BY <2>2
  <1>5. accepts => \/ r.op = "story" /\ Playable(g, r.at, "writing")
                   \/ r.op = "vote" /\ Playable(g, r.at, "voting")
                   \/ /\ r.op = "top" /\ g.room.status # "waiting"
                      /\ g.rounds[r.at].status = "revealed"
    BY <1>2
  <1> HIDE DEF s, accepts, On
  <1>6. \/ s.then = "build" /\ Build(w)
        \/ s.then = "step" /\ On("reread")
        \/ /\ s.then = "accept" /\ accepts
           /\ On(IF s.op = "top" THEN "listStories" ELSE "authenticate")
        \/ s.then \notin {"build", "step"} /\ Finish(w)
    BY <1>3, <1>4
  <1>7. \/ r.then = "build" /\ Build(w)
        \/ r.then = "step" /\ On("reread")
        \/ /\ r.then = "accept"
           /\ \/ r.op = "story" /\ Playable(g, r.at, "writing") /\ On("authenticate")
              \/ r.op = "vote" /\ Playable(g, r.at, "voting") /\ On("authenticate")
              \/ /\ r.op = "top" /\ g.room.status # "waiting"
                 /\ g.rounds[r.at].status = "revealed" /\ On("listStories")
        \/ r.then \notin {"build", "step"} /\ Finish(w)
    BY <1>2, <1>5, <1>6
  <1>. QED
    BY <1>7 DEF On


LEMMA SyncWriteFacts ==
  ASSUME FlightInv, NEW w \in Workers, Here(w), now' = now, SyncWrite(w),
         NEW g, g = SyncRound(game, req[w].at)
  PROVE  /\ req[w].pc = "syncWrite" /\ req[w].at \in DOMAIN rounds
         /\ Snapshot' = Playing(Snapshot, g) /\ g = [room |-> g.room, rounds |-> g.rounds]
         /\ Snapshot'.room = g.room /\ Snapshot'.rounds = g.rounds /\ Game(Snapshot') = g
         /\ \A h : Playing(Snapshot', h) = Playing(Snapshot, h)
         /\ DOMAIN g.rounds = DOMAIN rounds /\ g.rounds # <<>>
         /\ \A q : Tidy(q, Snapshot')
         /\ req[w].op \notin RoundOps => g = SyncCurrent(game) /\ req[w].at = Len(rounds)
         /\ Untouched(req[w]) =>
              /\ Snapshot = served /\ Game(served) = game
              /\ Whole(now, served, Snapshot')
  <1>1. req[w].pc = "syncWrite"
    BY DEF SyncWrite, At
  <1>2. req[w].at \in DOMAIN rounds
    BY <1>1, SeenIsGame
  <1>3. Snapshot' = Playing(Snapshot, g) /\ \A q : Tidy(q, Snapshot')
    BY SyncWritten, SyncTidy
  <1>4. DOMAIN g.rounds = DOMAIN rounds /\ g = [room |-> g.room, rounds |-> g.rounds]
    BY <1>2, SyncRows
  <1>5. /\ Snapshot'.room = g.room /\ Snapshot'.rounds = g.rounds /\ Game(Snapshot') = g
        /\ \A h : Playing(Snapshot', h) = Playing(Snapshot, h)
    BY <1>3, <1>4 DEF Playing, Rows, Game
  <1>6. g.rounds # <<>>
    BY <1>2, <1>4
  <1>7. req[w].op \notin RoundOps => g = SyncCurrent(game) /\ req[w].at = Len(rounds)
    <2>1. req[w].op \notin RoundOps => req[w].at = Len(rounds)
      BY <1>1, HereFacts, RowsNow DEF CopiesFresh, OnRow
    <2>2. rounds # <<>>
      BY <1>2
    <2>. QED
      BY <2>1, <2>2, RowsNow DEF SyncCurrent, Current
  <1>8. ASSUME Untouched(req[w])
        PROVE  Snapshot = served /\ Game(served) = game /\ Whole(now, served, Snapshot')
    <2>1. Snapshot = served /\ Game(served) = game /\ served.rounds = rounds
      BY <1>8, HereFacts, RowsNow
    <2>2. WholeRead(now, served, Snapshot', req[w].at)
      BY <1>3, <2>1, FoundFunctions DEF WholeRead
    <2>. QED
      BY <1>2, <2>1, <2>2 DEF Whole
  <1>. QED
    BY <1>1, <1>2, <1>3, <1>4, <1>5, <1>6, <1>7, <1>8

\* NextRound reads the round again and moves it on.
LEMMA StepGoes ==
  ASSUME FlightInv, NEW w \in Workers, Here(w), now' = now, SyncWrite(w),
         NEW g, g = SyncRound(game, req[w].at), g.room.status # "expired",
         req[w].then = "step", SameRequest(req'[w], req[w]), req'[w].pc = "reread",
         req'[w].then = "step", req'[w].room = g.room
  PROVE  There(w)
  <1> DEFINE r == req[w]
             q == req'[w]
  <1>1. r.pc = "syncWrite" /\ r.then = "step"
    BY SyncWriteFacts
  <1>2. Entitled(r, served) /\ Passed(now, r, served) /\ Untouched(r)
    BY <1>1, HereFacts DEF Untouched
  <1>3. r.op = "next" /\ r.op \notin RoundOps
    BY <1>1, <1>2 DEF Passed, RoundOps
  <1>4. /\ Snapshot = served /\ Game(served) = game /\ served.rounds = rounds
        /\ served.room = room /\ rounds # <<>>
        /\ g = SyncCurrent(game) /\ Snapshot'.room = g.room /\ Snapshot'.rounds = g.rounds
        /\ Game(Snapshot') = g /\ g.rounds # <<>> /\ Tidy(q, Snapshot')
        /\ \A h : Playing(Snapshot', h) = Playing(served, h)
    BY <1>2, <1>3, SyncWriteFacts, RowsNow
  <1>5. /\ SameRequest(q, r) /\ q.pc = "reread" /\ q.then = "step" /\ q.room = g.room
    OBVIOUS
  <1>6. r.who \in Players /\ r.who = served.room.hostID /\ served.user[r.who] = "member"
    BY <1>1, <1>2, <1>3 DEF Entitled, HostOps
  <1>7. SyncCurrent(Expire(game)) = g
    <2>1. CASE now > game.room.expiresAt
      <3>1. SyncRound(game, req[w].at) = Expire(game) /\ Expire(game).room.status = "expired"
        BY <2>1, SyncPast, HereFacts
      <3>. QED
        BY <3>1
    <2>2. CASE ~(now > game.room.expiresAt)
      BY <1>4, <2>2 DEF Expire
    <2>. QED
      BY <2>1, <2>2
  <1> DEFINE f == Playing(served, SyncCurrent(Stepped(g)))
  <1>8. WholeHost(now, served, f, r.who)
    <2>1. /\ Found(now, served)!SyncCurrent(Found(now, served)!Expire(Game(served))) = g
          /\ f = Playing(served, Found(now, served)!SyncCurrent(Found(now, served)!Stepped(g)))
      BY <1>4, <1>7, FoundFunctions
    <2> HIDE DEF f
    <2>. QED
      BY <1>4, <1>6, <2>1 DEF WholeHost
  <1>9. Whole(now, served, f)
    BY <1>6, <1>8 DEF Whole
  <1>10. Whole(now, served, Playing(Snapshot', Found(now, served)!SyncCurrent(
                              Found(now, served)!Stepped(Game(Snapshot')))))
    BY <1>4, <1>9, FoundFunctions
  <1>11. There(w) <=> Going(now, q, served, Snapshot')
    BY DEF There
  <1> HIDE DEF r, q, f
  <1>12. CopiesFresh(q, Snapshot')
    BY <1>4, <1>5 DEF CopiesFresh, OnRow
  <1>13. Entitled(q, served)
    BY <1>1, <1>2, <1>3, <1>5 DEF Entitled, SameRequest, RoundOps
  <1>14. Passed(now, q, served)
    BY <1>3, <1>5 DEF Passed, SameRequest
  <1>15. Stage(now, q, served, Snapshot')
    BY <1>4, <1>5, <1>10 DEF Stage, Untouched, BallotCalls
  <1>. QED
    BY <1>4, <1>5, <1>11, <1>12, <1>13, <1>14, <1>15 DEF Going

\* A story, a vote or the question for the winner is let through.
LEMMA AcceptGoes ==
  ASSUME FlightInv, NEW w \in Workers, Here(w), now' = now, SyncWrite(w),
         NEW g, g = SyncRound(game, req[w].at), g.room.status # "expired",
         req[w].then = "accept", SameRequest(req'[w], req[w]),
         req'[w].at = req[w].at, req'[w].room = g.room,
         \/ req[w].op = "story" /\ Playable(g, req[w].at, "writing") /\ req'[w].pc = "authenticate"
         \/ req[w].op = "vote" /\ Playable(g, req[w].at, "voting") /\ req'[w].pc = "authenticate"
         \/ /\ req[w].op = "top" /\ g.room.status # "waiting"
            /\ g.rounds[req[w].at].status = "revealed" /\ req'[w].pc = "listStories"
  PROVE  There(w)
  <1> DEFINE r == req[w]
             q == req'[w]
  <1>1. r.pc = "syncWrite" /\ r.then = "accept"
    BY SyncWriteFacts
  <1>2. Entitled(r, served) /\ Passed(now, r, served) /\ Untouched(r)
    BY <1>1, HereFacts DEF Untouched
  <1>3. /\ Snapshot = served /\ Game(served) = game /\ Snapshot'.room = g.room
        /\ Snapshot' = Playing(served, g) /\ Tidy(q, Snapshot')
    BY <1>2, SyncWriteFacts
  <1>4. g = Found(now, served)!SyncRound(Game(served), r.at)
    BY <1>3, FoundFunctions
  <1>5. \A i, x : Found(now, served)!Playable(g, i, x) = Playable(g, i, x)
    BY FoundFunctions
  <1>6. /\ SameRequest(q, r) /\ q.at = r.at /\ q.room = g.room /\ g.room.status # "expired"
        /\ \/ r.op = "story" /\ Playable(g, r.at, "writing") /\ q.pc = "authenticate"
           \/ r.op = "vote" /\ Playable(g, r.at, "voting") /\ q.pc = "authenticate"
           \/ /\ r.op = "top" /\ g.room.status # "waiting"
              /\ g.rounds[r.at].status = "revealed" /\ q.pc = "listStories"
    OBVIOUS
  <1>7. There(w) <=> Going(now, q, served, Snapshot')
    BY DEF There
  <1> HIDE DEF r, q
  <1>8. Ballot(now, q, served, Snapshot')
    BY <1>3, <1>4, <1>5, <1>6 DEF Ballot, SameRequest
  <1>9. CopiesFresh(q, Snapshot')
    BY <1>3, <1>6 DEF CopiesFresh, OnRow
  <1>10. Entitled(q, served)
    BY <1>2, <1>6 DEF Entitled, SameRequest, HostOps, RoundOps
  <1>11. Passed(now, q, served)
    BY <1>6 DEF Passed, SameRequest, BallotCalls
  <1>12. Stage(now, q, served, Snapshot')
    BY <1>6, <1>8 DEF Stage, Untouched, BallotCalls, SameRequest, RoundOps
  <1>. QED
    BY <1>3, <1>6, <1>7, <1>9, <1>10, <1>11, <1>12 DEF Going

LEMMA SyncWriteGoes ==
  ASSUME FlightInv, NEW w \in Workers, Here(w), now' = now, SyncWrite(w)
  PROVE  There(w)
  <1> DEFINE r == req[w]
             q == req'[w]
             g == SyncRound(game, r.at)
  <1>1. /\ r.pc = "syncWrite" /\ Snapshot' = Playing(Snapshot, g) /\ Tidy(q, Snapshot')
        /\ Game(Snapshot') = g /\ \A h : Playing(Snapshot', h) = Playing(Snapshot, h)
        /\ r.op \notin RoundOps => g = SyncCurrent(game)
    BY SyncWriteFacts
  <1>2. /\ Passed(now, r, served) /\ Stage(now, r, served, Snapshot)
        /\ game \in Games /\ now \in Nat
    BY HereFacts
  <1>3. r.then \in {"build", "done", "step", "accept"}
    BY <1>1, <1>2 DEF Passed
  <1>4. Whole(now, served, Snapshot')
    <2>1. CASE r.then \in {"build", "done"}
      <3>1. Whole(now, served, Playing(Snapshot, Found(now, served)!SyncRound(Game(Snapshot), r.at)))
        BY <1>1, <1>2, <2>1 DEF Stage
      <3>. QED
        BY <1>1, <3>1, FoundFunctions, RowsNow
    <2>2. CASE r.then \in {"step", "accept"}
      BY <1>1, <2>2, SyncWriteFacts DEF Untouched
    <2>. QED
      BY <1>3, <2>1, <2>2
  <1>5. CASE Finish(w)
    BY <1>1, <1>4, <1>5, GoneWell
  <1>6. CASE r.then = "build" /\ Build(w)
    <2>1. r.op \notin RoundOps
      BY <1>1, <1>2, <1>6 DEF Passed, RoundOps
    <2>2. SyncCurrent(g) = g
      BY <1>1, <1>2, <2>1, SyncIdempotent
    <2>3. Playing(Snapshot', SyncCurrent(Game(Snapshot'))) = Snapshot'
      BY <1>1, <2>2
    <2> HIDE DEF g
    <2>. QED
      BY <1>1, <1>4, <1>6, <2>1, <2>3, BuildTail
  <1>7. ASSUME ~Finish(w), ~(r.then = "build" /\ Build(w)) PROVE There(w)
    <2>1. g.room.status # "expired" /\ Synced(w, g)
      BY <1>7, SyncWritten
    <2> DEFINE On(pc) == /\ SameRequest(q, r) /\ q.pc = pc /\ q.then = r.then /\ q.at = r.at
                         /\ q.room = g.room /\ q.round = g.rounds[r.at]
    <2>2. \/ r.then = "step" /\ On("reread")
          \/ /\ r.then = "accept"
             /\ \/ r.op = "story" /\ Playable(g, r.at, "writing") /\ On("authenticate")
                \/ r.op = "vote" /\ Playable(g, r.at, "voting") /\ On("authenticate")
                \/ /\ r.op = "top" /\ g.room.status # "waiting"
                   /\ g.rounds[r.at].status = "revealed" /\ On("listStories")
      BY <1>7, <2>1, SyncedGoes
    <2> HIDE DEF g
    <2>. QED
      BY <2>1, <2>2, StepGoes, AcceptGoes DEF g
  <1>. QED
    BY <1>5, <1>6, <1>7


-----------------------------------------------------------------------------
(* JoinRoom and LeaveRoom.                                                 *)

LEMMA CountUsersGoes ==
  ASSUME FlightInv, NEW w \in Workers, Here(w), CountUsers(w)
  PROVE  There(w)
  <1> DEFINE r == req[w]
             q == req'[w]
  <1>1. /\ r.pc = "countUsers" /\ JustRead
        /\ IF Cardinality(Members) < MaxPlayers THEN Call(w, "createUser") ELSE Finish(w)
    BY DEF CountUsers, At
  <1>2. /\ Untouched(r) /\ Entitled(r, served) /\ Passed(now, r, served)
        /\ Snapshot = served /\ served.user = user /\ r.op = "join"
    BY <1>1, HereFacts, RowsNow DEF Untouched, FitsOperation
  <1>3. CASE Finish(w)
    BY <1>1, <1>2, <1>3, GoneEarly
  <1>4. CASE Cardinality(Members) < MaxPlayers /\ Call(w, "createUser")
    <2>1. SameRequest(q, r) /\ q.pc = "createUser" /\ q.at = r.at
      BY <1>4, RequestGoes
    <2>2. Cardinality(Found(now, served)!Members) < MaxPlayers
      BY <1>2, <1>4, SameCardinality DEF Found!Members, Members
    <2> HIDE DEF r, q
    <2>3. Untouched(q) /\ CopiesFresh(q, served)
      BY <2>1 DEF Untouched, CopiesFresh, OnRow
    <2>4. Entitled(q, served)
      BY <1>2, <2>1 DEF Entitled, SameRequest, HostOps, RoundOps
    <2>5. Passed(now, q, served)
      BY <1>1, <1>2, <2>1, <2>2, SameCardinality DEF Passed, SameRequest, RoundOps
    <2>. QED
      BY <1>1, <1>2, <2>3, <2>4, <2>5, GoesOn DEF r, q
  <1>. QED
    BY <1>1, <1>3, <1>4

\* The rows of the users are written, and no others.
LEMMA UserRows ==
  ASSUME FlightInv, NEW w \in Workers, Here(w), req[w].pc # "setActive",
         UNCHANGED <<room, rounds, stories, votes>>
  PROVE  /\ Snapshot' = Rows(game, user', stories, votes)
         /\ Snapshot'.room = room /\ Snapshot'.rounds = rounds
         /\ \A q : Tidy(q, Snapshot')
         /\ Game(Snapshot') = game
         /\ \A h : Playing(Snapshot', h) = Rows(h, user', stories, votes)
  <1>1. /\ Snapshot' = Rows(game, user', stories, votes)
        /\ Snapshot'.room = room /\ Snapshot'.rounds = rounds
        /\ Game(Snapshot') = game
        /\ \A h : Playing(Snapshot', h) = Rows(h, user', stories, votes)
    BY DEF Snapshot, Rows, game, Game, Playing
  <1>2. Tidy(req[w], Snapshot) /\ Snapshot.room = room /\ Snapshot.rounds = rounds
    BY HereFacts, RowsNow
  <1>. QED
    BY <1>1, <1>2 DEF Tidy

LEMMA CreateUserGoes ==
  ASSUME FlightInv, NEW w \in Workers, Here(w), CreateUser(w)
  PROVE  There(w)
  <1> DEFINE r == req[w]
             p == r.who
             f == Rows(SyncCurrent(game), [user EXCEPT ![p] = "member"], stories, votes)
  <1>1. /\ r.pc = "createUser" /\ Build(w) /\ UNCHANGED <<room, rounds, stories, votes>>
        /\ user' = [user EXCEPT ![p] = "member"]
    BY DEF CreateUser, At
  <1>2. /\ Untouched(r) /\ Entitled(r, served) /\ Passed(now, r, served)
        /\ Snapshot = served /\ r.op = "join" /\ p \in Players
    BY <1>1, HereFacts DEF Untouched, FitsOperation
  <1>3. /\ served.user = user /\ served.stories = stories /\ served.votes = votes
        /\ Game(served) = game /\ served.room = room
    BY <1>2, RowsNow
  <1>4. /\ Game(Snapshot') = game /\ Tidy(req'[w], Snapshot')
        /\ Playing(Snapshot', SyncCurrent(game)) = f
    BY <1>1, UserRows
  <1>5. WholeJoin(now, served, f, p)
    <2>1. f = Rows(Found(now, served)!SyncCurrent(Game(served)),
                   [served.user EXCEPT ![p] = "member"], served.stories, served.votes)
      BY <1>3, FoundFunctions
    <2>2. served.user[p] = "absent" /\ served.room.status = "waiting" /\ ~Late(now, served)
          /\ Cardinality(Found(now, served)!Members) < MaxPlayers
      BY <1>1, <1>2 DEF Entitled, Passed
    <2> HIDE DEF f
    <2>. QED
      BY <2>1, <2>2 DEF WholeJoin
  <1>6. Whole(now, served, f)
    BY <1>2, <1>5 DEF Whole
  <1>. QED
    BY <1>1, <1>2, <1>4, <1>6, BuildTail DEF RoundOps

LEMMA DeleteUserGoes ==
  ASSUME FlightInv, NEW w \in Workers, Here(w), DeleteUser(w)
  PROVE  There(w)
  <1> DEFINE r == req[w]
             q == req'[w]
  <1>1. /\ r.pc = "deleteUser" /\ UNCHANGED <<room, rounds, stories, votes>>
        /\ IF user[r.who] = "member" THEN Call(w, "countLeft") ELSE Finish(w)
        /\ user' = [user EXCEPT ![r.who] = "gone"]
    BY DEF DeleteUser, At
  <1>2. /\ Untouched(r) /\ Entitled(r, served) /\ CopiesFresh(r, Snapshot)
        /\ Snapshot = served /\ r.op = "leave"
        /\ served.user = user /\ served.stories = stories /\ served.votes = votes
        /\ Game(served) = game /\ served.room = room
    BY <1>1, HereFacts, RowsNow DEF Untouched, FitsOperation
  <1>3. user[r.who] = "member" /\ r.room = room
    BY <1>1, <1>2 DEF Entitled, CopiesFresh
  <1>4. SameRequest(q, r) /\ q.pc = "countLeft" /\ q.at = r.at /\ q.room = room
    BY <1>1, <1>3, RequestGoes
  <1>5. /\ Snapshot' = Rows(Game(served), [served.user EXCEPT ![r.who] = "gone"],
                            served.stories, served.votes)
        /\ Snapshot'.room = room /\ Tidy(q, Snapshot')
    BY <1>1, <1>2, UserRows
  <1>6. There(w) <=> Going(now, q, served, Snapshot')
    BY DEF There
  <1> HIDE DEF r, q
  <1>7. CopiesFresh(q, Snapshot')
    BY <1>4, <1>5 DEF CopiesFresh, OnRow
  <1>8. Entitled(q, served)
    BY <1>1, <1>2, <1>4 DEF Entitled, SameRequest, RoundOps
  <1>9. Passed(now, q, served)
    BY <1>2, <1>4 DEF Passed, SameRequest, RoundOps
  <1>10. Stage(now, q, served, Snapshot')
    BY <1>4, <1>5 DEF Stage, Untouched, BallotCalls, SameRequest
  <1>. QED
    BY <1>4, <1>5, <1>6, <1>7, <1>8, <1>9, <1>10 DEF Going

\* What the two calls after the user is deleted know.
LEMMA Left ==
  ASSUME FlightInv, NEW w \in Workers, Here(w), req[w].pc \in {"countLeft", "close"}
  PROVE  /\ req[w].op = "leave" /\ req[w].who \in Players /\ req[w].room = room
         /\ served.user[req[w].who] = "member" /\ room.status # "none"
         /\ user = [served.user EXCEPT ![req[w].who] = "gone"]
         /\ Game(served) = game /\ served.room = room
         /\ served.stories = stories /\ served.votes = votes
         /\ req[w].pc = "close" => Found(now, served)!Closes(req[w].who)
  <1> DEFINE r == req[w]
  <1>1. /\ Entitled(r, served) /\ Passed(now, r, served) /\ CopiesFresh(r, Snapshot)
        /\ Stage(now, r, served, Snapshot) /\ FitsOperation(r)
    BY HereFacts
  <1>2. r.op = "leave" /\ r.room = room
    BY <1>1, RowsNow DEF Passed, CopiesFresh
  <1>3. r.who \in Players /\ served.user[r.who] = "member"
    BY <1>1, <1>2 DEF Entitled, FitsOperation
  <1>4. Snapshot = Rows(Game(served), [served.user EXCEPT ![r.who] = "gone"],
                        served.stories, served.votes)
    BY <1>1 DEF Stage
  <1>5. /\ user = [served.user EXCEPT ![r.who] = "gone"]
        /\ served.stories = stories /\ served.votes = votes
        /\ room = served.room /\ rounds = served.rounds
    BY <1>4 DEF Rows, Snapshot, Game
  <1>6. Game(served) = game
    BY <1>5 DEF Game, game
  <1>7. r.pc = "close" => Found(now, served)!Closes(r.who)
    BY <1>1 DEF Stage
  <1>. QED
    BY <1>1, <1>2, <1>3, <1>5, <1>6, <1>7 DEF Entitled

\* Nobody is left exactly when the one who left was alone.
LEMMA Alone ==
  ASSUME FlightInv, NEW w \in Workers, Here(w), req[w].pc = "countLeft"
  PROVE  Found(now, served)!Closes(req[w].who)
           <=> req[w].who = req[w].room.hostID \/ Members = {}
  <1> DEFINE p == req[w].who
  <1>1. /\ user = [served.user EXCEPT ![p] = "gone"] /\ served.user[p] = "member"
        /\ p \in Players /\ req[w].room = room /\ served.room = room
        /\ DOMAIN user = Players
    BY Left, HereFacts
  <1> HIDE DEF p
  <1>2. DOMAIN served.user = Players
    BY <1>1
  <1>3. Members = {} <=> Found(now, served)!Members = {p}
    BY <1>1, <1>2 DEF Members, Found!Members
  <1>. QED
    BY <1>1, <1>3 DEF Found!Closes, p

LEMMA CountLeftGoes ==
  ASSUME FlightInv, NEW w \in Workers, Here(w), CountLeft(w)
  PROVE  There(w)
  <1> DEFINE r == req[w]
             q == req'[w]
  <1>1. /\ r.pc = "countLeft" /\ JustRead
        /\ IF r.who = r.room.hostID \/ Members = {} THEN Call(w, "close") ELSE Build(w)
    BY DEF CountLeft, At
  <1>2. /\ Snapshot' = Snapshot /\ Tidy(q, Snapshot) /\ Game(Snapshot) = game
        /\ Entitled(r, served) /\ CopiesFresh(r, Snapshot)
        /\ Stage(now, r, served, Snapshot) /\ r.op = "leave" /\ r.op \notin RoundOps
    BY <1>1, HereFacts, Left, TidyKept, RowsNow DEF RoundOps
  <1>3. CASE Call(w, "close") /\ Found(now, served)!Closes(r.who)
    <2>1. SameRequest(q, r) /\ q.pc = "close" /\ q.at = r.at /\ q.room = r.room
      BY <1>3, RequestGoes
    <2>2. There(w) <=> Going(now, q, served, Snapshot)
      BY <1>2 DEF There
    <2>a. Found(now, served)!Closes(r.who)
      BY <1>3
    <2> HIDE DEF r, q
    <2>3. CopiesFresh(q, Snapshot)
      BY <1>1, <1>2, <2>1 DEF CopiesFresh, OnRow
    <2>4. Entitled(q, served)
      BY <1>1, <1>2, <2>1 DEF Entitled, SameRequest, RoundOps
    <2>5. Passed(now, q, served)
      BY <1>2, <2>1 DEF Passed, SameRequest, RoundOps
    <2>6. q.who = r.who /\ Found(now, served)!Closes(q.who)
      BY <2>1, <2>a DEF SameRequest
    <2>7. Stage(now, q, served, Snapshot)
      BY <1>1, <1>2, <2>1, <2>6 DEF Stage, Untouched, BallotCalls
    <2>. QED
      BY <1>2, <2>1, <2>2, <2>3, <2>4, <2>5, <2>7 DEF Going
  <1>4. CASE Build(w) /\ ~Found(now, served)!Closes(r.who)
    <2> DEFINE f == Playing(Snapshot, SyncCurrent(Game(Snapshot)))
    <2>1. /\ user = [served.user EXCEPT ![r.who] = "gone"] /\ Game(served) = game
          /\ served.stories = stories /\ served.votes = votes
          /\ served.user[r.who] = "member" /\ r.who \in Players
      BY <1>1, Left
    <2>2. f = Rows(Found(now, served)!SyncCurrent(Game(served)),
                   [served.user EXCEPT ![r.who] = "gone"], served.stories, served.votes)
      BY <1>2, <2>1, RowsNow, FoundFunctions
    <2> HIDE DEF f
    <2>3. WholeLeave(now, served, f, r.who)
      BY <1>4, <2>1, <2>2 DEF WholeLeave
    <2>4. Whole(now, served, f)
      BY <2>1, <2>3 DEF Whole
    <2>. QED
      BY <1>1, <1>2, <1>4, <2>4, BuildTail DEF f
  <1>. QED
    BY <1>1, <1>3, <1>4, Alone

LEMMA CloseRoomGoes ==
  ASSUME FlightInv, NEW w \in Workers, Here(w), CloseRoom(w)
  PROVE  There(w)
  <1> DEFINE r == req[w]
             g == WithStatus(game, "finished")
             f == Rows(SyncCurrent(g), user, stories, votes)
  <1>1. r.pc = "close" /\ UpdateRoom([r.room EXCEPT !.status = "finished"]) /\ Build(w)
    BY DEF CloseRoom, At
  <1>2. /\ user = [served.user EXCEPT ![r.who] = "gone"] /\ Game(served) = game
        /\ served.stories = stories /\ served.votes = votes
        /\ served.user[r.who] = "member" /\ r.who \in Players /\ r.room = room
        /\ r.op = "leave" /\ room.status # "none" /\ Found(now, served)!Closes(r.who)
    BY <1>1, Left
  <1>3. Snapshot' = Rows(g, user, stories, votes)
    BY <1>1, <1>2, StatusRows
  <1>4. /\ g = [room |-> g.room, rounds |-> g.rounds] /\ g.rounds = rounds
        /\ g.room.hostID = room.hostID /\ g.room.status = "finished"
    BY HereFacts, RowsNow, WithStatusGame, GameParts DEF RoomStatus
  <1> HIDE DEF g
  <1>5. /\ Game(Rows(g, user, stories, votes)) = g
        /\ Playing(Rows(g, user, stories, votes), SyncCurrent(g)) = f
        /\ Rows(g, user, stories, votes).room = g.room
        /\ Rows(g, user, stories, votes).rounds = g.rounds
    BY <1>4 DEF Rows, Game, Playing
  <1>6. Tidy(req'[w], Snapshot')
    BY <1>2, <1>3, <1>4, <1>5, TidyRows
  <1>7. WholeLeave(now, served, f, r.who)
    <2>1. f = Rows(Found(now, served)!SyncCurrent(Found(now, served)!WithStatus(Game(served), "finished")),
                   [served.user EXCEPT ![r.who] = "gone"], served.stories, served.votes)
      BY <1>2, FoundFunctions DEF g
    <2> HIDE DEF f
    <2>. QED
      BY <1>2, <2>1 DEF WholeLeave
  <1>8. Whole(now, served, f)
    BY <1>2, <1>7 DEF Whole
  <1>. QED
    BY <1>1, <1>2, <1>3, <1>5, <1>6, <1>8, BuildTail DEF RoundOps


-----------------------------------------------------------------------------
(* StartGame, PauseRound and NextRound.                                    *)

LEMMA GameForms ==
  ASSUME NEW g \in Games
  PROVE  /\ \A x : WithStatus(g, x) = [room |-> [g.room EXCEPT !.status = x], rounds |-> g.rounds]
         /\ \A n : Opened(g, n) = [room |-> [g.room EXCEPT !.status = "active"],
                                   rounds |-> Append(g.rounds, NewRound(n))]
         /\ g.rounds # <<>> =>
              /\ Paused(g) = [room |-> [g.room EXCEPT !.status = "paused"],
                              rounds |-> [g.rounds EXCEPT ![Len(g.rounds)] =
                                            [g.rounds[Len(g.rounds)] EXCEPT !.pausedAt = now]]]
              /\ Unpaused(g) = [room |-> [g.room EXCEPT !.status = "active"],
                                rounds |-> [g.rounds EXCEPT ![Len(g.rounds)] =
                                              Resumed(g.rounds[Len(g.rounds)])]]
         /\ \A x : g.room.status = x => [g.room EXCEPT !.status = x] = g.room
         /\ \A x, y : [[g.room EXCEPT !.status = x] EXCEPT !.status = y]
                        = [g.room EXCEPT !.status = y]
  <1> DEFINE a == g.room
             b == g.rounds
  <1>1. g = [room |-> a, rounds |-> b] /\ a \in Rooms
    BY GameParts DEF Games
  <1> HIDE DEF a, b
  <1>2. \A x : WithStatus(g, x) = [room |-> [a EXCEPT !.status = x], rounds |-> b]
    BY <1>1 DEF WithStatus
  <1>3. \A n : Opened(g, n) = [room |-> [a EXCEPT !.status = "active"], rounds |-> Append(b, NewRound(n))]
    <2> TAKE n
    <2> DEFINE k == [g EXCEPT !.rounds = Append(@, NewRound(n))]
    <2>1. k = [room |-> a, rounds |-> Append(b, NewRound(n))]
      BY <1>1
    <2>2. Opened(g, n) = WithStatus(k, "active")
      BY DEF Opened
    <2> HIDE DEF k
    <2>. QED
      BY <2>1, <2>2 DEF WithStatus
  <1>4. ASSUME b # <<>>, NEW row, NEW x
        PROVE  WithStatus(OnCurrent(g, row), x)
                 = [room |-> [a EXCEPT !.status = x], rounds |-> [b EXCEPT ![Len(b)] = row]]
    <2> DEFINE k == OnCurrent(g, row)
    <2>1. k = [g EXCEPT !.rounds[Len(b)] = row]
      BY <1>1, <1>4 DEF OnCurrent, WithRound, Current
    <2> HIDE DEF k
    <2>2. k = [room |-> a, rounds |-> [b EXCEPT ![Len(b)] = row]]
      BY <1>1, <2>1
    <2>3. WithStatus(k, x) = [room |-> [a EXCEPT !.status = x], rounds |-> [b EXCEPT ![Len(b)] = row]]
      BY <2>2 DEF WithStatus
    <2>. QED
      BY <2>3 DEF k
  <1>5. b # <<>> =>
          /\ Paused(g) = [room |-> [a EXCEPT !.status = "paused"],
                          rounds |-> [b EXCEPT ![Len(b)] = [b[Len(b)] EXCEPT !.pausedAt = now]]]
          /\ Unpaused(g) = [room |-> [a EXCEPT !.status = "active"],
                            rounds |-> [b EXCEPT ![Len(b)] = Resumed(b[Len(b)])]]
    <2>1. g.rounds = b
      BY <1>1
    <2>. QED
      BY <1>4, <2>1 DEF Paused, Unpaused, Current
  <1>6. /\ \A x : a.status = x => [a EXCEPT !.status = x] = a
        /\ \A x, y : [[a EXCEPT !.status = x] EXCEPT !.status = y] = [a EXCEPT !.status = y]
    BY <1>1 DEF Rooms
  <1>. QED
    BY <1>2, <1>3, <1>5, <1>6 DEF a, b

Played == [room |-> room', rounds |-> rounds']

LEMMA HostRows ==
  ASSUME FlightInv, NEW w \in Workers, Effect(w), UNCHANGED <<user, stories, votes>>
  PROVE  /\ Snapshot'.room = room' /\ Snapshot'.rounds = rounds' /\ Game(Snapshot') = Played
         /\ \A h : Playing(Snapshot', h) = Playing(Snapshot, h)
         /\ Played \in Games /\ Played.room = room' /\ Played.rounds = rounds'
         /\ \A i \in DOMAIN rounds : i \in DOMAIN rounds' /\ rounds'[i].number = rounds[i].number
         /\ Snapshot' = Playing(Snapshot, Played)
  <1>1. room' \in Rooms /\ rounds' \in Seq(Rounds)
    BY DEF Effect, TypeOK
  <1>2. Played \in Games
    BY <1>1 DEF Played, Games
  <1>3. /\ Snapshot'.room = room' /\ Snapshot'.rounds = rounds' /\ Game(Snapshot') = Played
        /\ \A h : Playing(Snapshot', h) = Playing(Snapshot, h)
        /\ Played.room = room' /\ Played.rounds = rounds'
        /\ Snapshot' = Playing(Snapshot, Played)
    BY DEF Snapshot, Playing, Rows, Game, Played
  <1>. QED
    BY <1>2, <1>3 DEF Effect, Grown

LEMMA HostTidy ==
  ASSUME FlightInv, NEW w \in Workers, Here(w), Effect(w), UNCHANGED <<user, stories, votes>>,
         DOMAIN rounds' = DOMAIN rounds, room'.hostID = room.hostID, room.status # "none",
         NEW q, room'.status \notin {"none", "waiting"} \/ q.pc = "setActive"
  PROVE  Tidy(q, Snapshot')
  <1>1. /\ Snapshot'.room = room' /\ Snapshot'.rounds = rounds'
        /\ \A i \in DOMAIN rounds : rounds'[i].number = rounds[i].number
    BY HostRows
  <1>2. Tidy(req[w], Snapshot) /\ Snapshot.room = room /\ Snapshot.rounds = rounds
    BY HereFacts, RowsNow
  <1>. QED
    BY <1>1, <1>2 DEF Tidy

\* The host's request is whole when it leads to the game h.
LEMMA HostLeads ==
  ASSUME FlightInv, NEW w \in Workers, Here(w), Untouched(req[w]), req[w].op \in HostOps,
         req[w].pc \notin {"readRoom", "authenticate"}, NEW h,
         \/ ~Late(now, served) /\ room.status = "waiting" /\ h = Opened(game, 1)
         \/ room.status = "active" /\ h = Paused(game)
         \/ room.status = "paused" /\ h = Unpaused(game)
  PROVE  Whole(now, served, Playing(Snapshot, SyncCurrent(h))) /\ room.status # "none"
  <1> DEFINE p == req[w].who
             f == Playing(served, SyncCurrent(h))
  <1>1. /\ Snapshot = served /\ Game(served) = game /\ served.room = room
        /\ Entitled(req[w], served)
    BY HereFacts, RowsNow
  <1>2. p \in Players /\ p = served.room.hostID /\ served.user[p] = "member"
    BY <1>1 DEF Entitled
  <1>3. /\ f = Playing(served, Found(now, served)!SyncCurrent(h))
        /\ Opened(game, 1) = Found(now, served)!Opened(Game(served), 1)
        /\ Paused(game) = Found(now, served)!Paused(Game(served))
        /\ Unpaused(game) = Found(now, served)!Unpaused(Game(served))
    BY <1>1, FoundFunctions
  <1> HIDE DEF f, p
  <1>4. WholeHost(now, served, f, p)
    BY <1>1, <1>2, <1>3 DEF WholeHost
  <1>5. Whole(now, served, f)
    BY <1>2, <1>4 DEF Whole
  <1>. QED
    BY <1>1, <1>5 DEF f, Entitled

LEMMA HostTail ==
  ASSUME FlightInv, NEW w \in Workers, Here(w), Effect(w), UNCHANGED <<user, stories, votes>>,
         Build(w) \/ Sync(w, "build"),
         req[w].op \notin RoundOps, req[w].pc \notin {"readRoom", "authenticate"},
         Whole(now, served, Playing(Snapshot, SyncCurrent(Played))),
         Tidy(req'[w], Snapshot')
  PROVE  There(w)
  <1>1. Game(Snapshot') = Played
        /\ Playing(Snapshot', SyncCurrent(Played)) = Playing(Snapshot, SyncCurrent(Played))
    BY HostRows
  <1>. QED
    BY <1>1, BuildTail

\* A call of the host that goes on to another, which will lead to the game h.
LEMMA HostGoes ==
  ASSUME FlightInv, NEW w \in Workers, Here(w), Effect(w), UNCHANGED <<user, stories, votes>>,
         req[w].pc \notin {"readRoom", "authenticate"}, req[w].op \notin RoundOps,
         SameRequest(req'[w], req[w]), Tidy(req'[w], Snapshot'),
         NEW h, Whole(now, served, Playing(Snapshot, SyncCurrent(h))),
         \/ /\ req'[w].pc = "setActive" /\ req'[w].room = room' /\ room'.status # "none"
            /\ h = WithStatus(Played, "active")
         \/ /\ req'[w].pc = "reread" /\ req'[w].then = "mark" /\ req'[w].op = "pause"
            /\ req'[w].room = room'
            /\ room'.status = "paused" => h = Paused(Played)
            /\ room'.status = "active" => h = Unpaused(Played)
         \/ /\ req'[w].pc = "openNext" /\ room'.status = "active"
            /\ req'[w].round = NewRound(Len(rounds') + 1)
            /\ h = Opened(Played, Len(rounds') + 1)
  PROVE  There(w)
  <1> DEFINE r == req[w]
             q == req'[w]
             c == Snapshot'
  <1>1. /\ c.room = room' /\ c.rounds = rounds' /\ Game(c) = Played
        /\ \A k : Playing(c, k) = Playing(Snapshot, k)
    BY HostRows
  <1>2. Entitled(r, served)
    BY HereFacts
  <1>3. /\ Whole(now, served, Playing(c, Found(now, served)!SyncCurrent(h)))
        /\ Found(now, served)!WithStatus(Game(c), "active") = WithStatus(Played, "active")
        /\ Found(now, served)!Paused(Game(c)) = Paused(Played)
        /\ Found(now, served)!Unpaused(Game(c)) = Unpaused(Played)
        /\ Found(now, served)!Opened(Game(c), Len(c.rounds) + 1)
             = Opened(Played, Len(c.rounds) + 1)
        /\ Found(now, served)!NewRound(Len(c.rounds) + 1) = NewRound(Len(c.rounds) + 1)
    BY <1>1, FoundFunctions
  <1>4. /\ SameRequest(q, r) /\ Tidy(q, c) /\ r.op \notin RoundOps
        /\ r.pc \notin {"readRoom", "authenticate"}
        /\ \/ /\ q.pc = "setActive" /\ q.room = c.room /\ c.room.status # "none"
              /\ h = WithStatus(Played, "active")
           \/ /\ q.pc = "reread" /\ q.then = "mark" /\ q.op = "pause" /\ q.room = c.room
              /\ c.room.status = "paused" => h = Paused(Played)
              /\ c.room.status = "active" => h = Unpaused(Played)
           \/ /\ q.pc = "openNext" /\ c.room.status = "active"
              /\ q.round = NewRound(Len(c.rounds) + 1)
              /\ h = Opened(Played, Len(c.rounds) + 1)
    BY <1>1
  <1>5. There(w) <=> Going(now, q, served, c)
    BY DEF There
  <1> HIDE DEF r, q, c
  <1>6. CopiesFresh(q, c)
    BY <1>4 DEF CopiesFresh, OnRow
  <1>7. Entitled(q, served)
    BY <1>2, <1>4 DEF Entitled, SameRequest, RoundOps
  <1>8. Passed(now, q, served)
    BY <1>4 DEF Passed, SameRequest
  <1>9. Stage(now, q, served, c)
    BY <1>3, <1>4 DEF Stage, Untouched, BallotCalls
  <1>. QED
    BY <1>4, <1>5, <1>6, <1>7, <1>8, <1>9 DEF Going


LEMMA StatusForm ==
  ASSUME NEW g \in Games, NEW x
  PROVE  WithStatus(g, x) = [room |-> [g.room EXCEPT !.status = x], rounds |-> g.rounds]
  BY GameForms

LEMMA OpenedForm ==
  ASSUME NEW g \in Games, NEW n
  PROVE  Opened(g, n) = [room |-> [g.room EXCEPT !.status = "active"],
                         rounds |-> Append(g.rounds, NewRound(n))]
  BY GameForms

LEMMA OpenFirstGoes ==
  ASSUME FlightInv, NEW w \in Workers, Here(w), now' = now, OpenFirst(w)
  PROVE  There(w)
  <1> DEFINE r == req[w]
  <1>1. /\ r.pc = "openFirst" /\ rounds' = Append(rounds, NewRound(1)) /\ room' = room
        /\ UNCHANGED <<user, stories, votes>> /\ Call(w, "setActive") /\ Effect(w)
    BY OpenFirstEffect DEF OpenFirst, At, CreateRound
  <1>2. /\ Untouched(r) /\ Passed(now, r, served) /\ Tidy(r, Snapshot)
        /\ r.room = room /\ served.room = room
        /\ game \in Games /\ game.room = room /\ game.rounds = rounds
        /\ Snapshot.room = room /\ Snapshot.rounds = rounds
    BY <1>1, HereFacts, RowsNow DEF Untouched, CopiesFresh
  <1>3. r.op = "start" /\ room.status = "waiting" /\ ~Late(now, served)
    BY <1>1, <1>2 DEF Passed
  <1>4. /\ Whole(now, served, Playing(Snapshot, SyncCurrent(Opened(game, 1))))
        /\ r.op \notin RoundOps
    BY <1>1, <1>2, <1>3, HostLeads DEF HostOps, RoundOps
  <1>5. /\ SameRequest(req'[w], r) /\ req'[w].pc = "setActive" /\ req'[w].room = room'
    BY <1>1, <1>2, RequestGoes
  <1>6. WithStatus(Played, "active") = Opened(game, 1)
    <2>1. Played \in Games /\ Played.room = room /\ Played.rounds = Append(rounds, NewRound(1))
      BY <1>1, HostRows
    <2>2. WithStatus(Played, "active") = [room |-> [room EXCEPT !.status = "active"],
                                          rounds |-> Append(rounds, NewRound(1))]
      BY <2>1, StatusForm
    <2>3. Opened(game, 1) = [room |-> [room EXCEPT !.status = "active"],
                             rounds |-> Append(rounds, NewRound(1))]
      BY <1>2, OpenedForm
    <2>. QED
      BY <2>2, <2>3
  <1>7. Tidy(req'[w], Snapshot')
    <2>1. rounds = <<>> /\ room.hostID \in Players
      BY <1>1, <1>2, <1>3 DEF Tidy
    <2>2. DOMAIN rounds' = {1} /\ rounds'[1].number = 1
      BY <1>1, <2>1 DEF NewRound
    <2>3. Snapshot'.room = room /\ Snapshot'.rounds = rounds'
      BY <1>1, HostRows
    <2>. QED
      BY <1>5, <2>1, <2>2, <2>3 DEF Tidy
  <1>. QED
    BY <1>1, <1>3, <1>4, <1>5, <1>6, <1>7, HostGoes

LEMMA ResumeRoundGoes ==
  ASSUME FlightInv, NEW w \in Workers, Here(w), now' = now, ResumeRound(w)
  PROVE  There(w)
  <1> DEFINE r == req[w]
             n == Len(rounds)
  <1>1. /\ r.pc = "resume" /\ Call(w, "setActive") /\ Effect(w)
        /\ IF r.round.pausedAt # NoTime
             THEN UpdateRound(r.at, Resumed(r.round)) ELSE JustRead
    BY ResumeRoundEffect DEF ResumeRound, At
  <1>2. /\ Untouched(r) /\ Passed(now, r, served) /\ CopiesFresh(r, Snapshot)
        /\ r.room = room /\ served.room = room
        /\ game \in Games /\ game.room = room /\ game.rounds = rounds
        /\ Snapshot.room = room /\ Snapshot.rounds = rounds
        /\ rounds \in Seq(Rounds)
    BY <1>1, HereFacts, RowsNow DEF Untouched, CopiesFresh
  <1>3. r.op = "start" /\ room.status = "paused" /\ r.op \notin RoundOps
    BY <1>1, <1>2 DEF Passed, RoundOps
  <1>4. r.at = n /\ n \in DOMAIN rounds /\ r.round = rounds[n] /\ rounds # <<>>
    BY <1>1, <1>2, <1>3 DEF CopiesFresh, OnRow
  <1>5. /\ rounds' = [rounds EXCEPT ![n] = Resumed(rounds[n])] /\ room' = room
        /\ UNCHANGED <<user, stories, votes>>
    <2>1. CASE r.round.pausedAt # NoTime
      BY <1>1, <1>4, <2>1 DEF UpdateRound
    <2>2. CASE r.round.pausedAt = NoTime
      <3>1. Resumed(rounds[n]) = rounds[n] /\ rounds' = rounds
        BY <1>1, <1>4, <2>2 DEF Resumed, JustRead
      <3>2. [rounds EXCEPT ![n] = rounds[n]] = rounds
        BY <1>2, <1>4
      <3>. QED
        BY <1>1, <2>2, <3>1, <3>2 DEF JustRead
    <2>. QED
      BY <2>1, <2>2
  <1>6. Whole(now, served, Playing(Snapshot, SyncCurrent(Unpaused(game)))) /\ room.status # "none"
    BY <1>1, <1>2, <1>3, HostLeads DEF HostOps
  <1>7. /\ SameRequest(req'[w], r) /\ req'[w].pc = "setActive" /\ req'[w].room = room'
    BY <1>1, <1>2, <1>5, RequestGoes
  <1>8. WithStatus(Played, "active") = Unpaused(game)
    <2> DEFINE rs == [rounds EXCEPT ![n] = Resumed(rounds[n])]
    <2>1. Played \in Games /\ Played.room = room /\ Played.rounds = rs
      BY <1>1, <1>5, HostRows
    <2>2. Unpaused(game) = [room |-> [room EXCEPT !.status = "active"], rounds |-> rs]
      BY <1>2, <1>4, GameForms
    <2> HIDE DEF rs
    <2>3. WithStatus(Played, "active") = [room |-> [room EXCEPT !.status = "active"], rounds |-> rs]
      BY <2>1, GameForms
    <2>. QED
      BY <2>2, <2>3
  <1>9. DOMAIN rounds' = DOMAIN rounds
    BY <1>5
  <1>10. Tidy(req'[w], Snapshot')
    BY <1>1, <1>5, <1>6, <1>7, <1>9, HostTidy
  <1>. QED
    BY <1>1, <1>3, <1>5, <1>6, <1>7, <1>8, <1>10, HostGoes

LEMMA SetActiveGoes ==
  ASSUME FlightInv, NEW w \in Workers, Here(w), now' = now, SetActive(w)
  PROVE  There(w)
  <1> DEFINE r == req[w]
  <1>1. /\ r.pc = "setActive" /\ UpdateRoom([r.room EXCEPT !.status = "active"]) /\ Build(w)
        /\ Effect(w)
    BY SetActiveEffect DEF SetActive, At
  <1>2. /\ Stage(now, r, served, Snapshot) /\ Passed(now, r, served)
        /\ r.room = room /\ game \in Games /\ game.room = room /\ game.rounds = rounds
        /\ Game(Snapshot) = game /\ room \in Rooms
        /\ Tidy(r, Snapshot) /\ Snapshot.room = room /\ Snapshot.rounds = rounds
    BY <1>1, HereFacts, RowsNow DEF CopiesFresh
  <1>3. r.op \notin RoundOps
    BY <1>1, <1>2 DEF Passed, BallotCalls
  <1>4. Whole(now, served, Playing(Snapshot, SyncCurrent(WithStatus(game, "active"))))
    BY <1>1, <1>2, FoundFunctions DEF Stage
  <1>5. /\ room' = [room EXCEPT !.status = "active"] /\ rounds' = rounds
        /\ UNCHANGED <<user, stories, votes>>
    BY <1>1, <1>2 DEF UpdateRoom
  <1>6. Played = WithStatus(game, "active")
    <2>a. game \in Games /\ game.room = room /\ game.rounds = rounds
      BY <1>2
    <2>1. WithStatus(game, "active") = [room |-> [room EXCEPT !.status = "active"], rounds |-> rounds]
      BY <2>a, GameForms
    <2>. QED
      BY <1>5, <2>1 DEF Played
  <1>7. room'.status = "active" /\ room'.hostID = room.hostID
    BY <1>2, <1>5 DEF Rooms
  <1>8. Tidy(req'[w], Snapshot')
    <2>1. Snapshot'.room = room' /\ Snapshot'.rounds = rounds
      BY <1>1, <1>5, HostRows
    <2>2. room.status # "none"
      BY <1>1, <1>2 DEF Stage
    <2>. QED
      BY <1>2, <1>7, <2>1, <2>2 DEF Tidy
  <1>. QED
    BY <1>1, <1>3, <1>4, <1>5, <1>6, <1>8, HostTail

LEMMA ToggleGoes ==
  ASSUME FlightInv, NEW w \in Workers, Here(w), now' = now, Toggle(w)
  PROVE  There(w)
  <1> DEFINE r == req[w]
             row == [r.room EXCEPT !.status = IF @ = "active" THEN "paused" ELSE "active"]
  <1>1. /\ r.pc = "toggle" /\ UpdateRoom(row) /\ Effect(w) /\ r \in Requests
        /\ req'[w] = [r EXCEPT !.room = row, !.pc = "reread", !.then = "mark"]
    BY ToggleEffect, RequestGoes, HereFacts DEF Toggle, At
  <1>2. /\ Untouched(r) /\ Passed(now, r, served) /\ r.room = room /\ served.room = room
        /\ game \in Games /\ game.room = room /\ game.rounds = rounds /\ room \in Rooms
    BY <1>1, HereFacts, RowsNow DEF Untouched, CopiesFresh
  <1>3. r.op = "pause" /\ r.op \notin RoundOps /\ r.op \in HostOps
        /\ room.status \in {"active", "paused"}
    BY <1>1, <1>2 DEF Passed, RoundOps, HostOps
  <1>4. rounds # <<>>
    BY <1>3 DEF FlightInv, RoundsChain
  <1>5. row = IF room.status = "active" THEN [room EXCEPT !.status = "paused"]
                                        ELSE [room EXCEPT !.status = "active"]
    BY <1>2 DEF Rooms
  <1>6. /\ row.status = (IF room.status = "active" THEN "paused" ELSE "active")
        /\ row.hostID = room.hostID
    BY <1>2, <1>5 DEF Rooms
  <1> HIDE DEF row
  <1>7. room' = row /\ rounds' = rounds /\ UNCHANGED <<user, stories, votes>>
    BY <1>1 DEF UpdateRoom
  <1>8. /\ SameRequest(req'[w], r) /\ req'[w].pc = "reread" /\ req'[w].then = "mark"
        /\ req'[w].room = row
    <2> DEFINE q == req'[w]
    <2>1. q = [r EXCEPT !.room = row, !.pc = "reread", !.then = "mark"] /\ r \in Requests
      BY <1>1
    <2> HIDE DEF r, q
    <2>2. SameRequest(q, r) /\ q.pc = "reread" /\ q.then = "mark" /\ q.room = row
      BY <2>1 DEF Requests, SameRequest
    <2>. QED
      BY <2>2 DEF q
  <1> DEFINE h == IF room.status = "active" THEN Paused(game) ELSE Unpaused(game)
  <1>9. Whole(now, served, Playing(Snapshot, SyncCurrent(h))) /\ room.status # "none"
    <2>1. \/ room.status = "active" /\ h = Paused(game)
          \/ room.status = "paused" /\ h = Unpaused(game)
      BY <1>3
    <2> HIDE DEF h
    <2>. QED
      BY <1>1, <1>2, <1>3, <2>1, HostLeads
  <1>10. /\ room'.status = "paused" => h = Paused(Played)
         /\ room'.status = "active" => h = Unpaused(Played)
    <2>1. Played \in Games /\ Played.room = row /\ Played.rounds = rounds
      BY <1>1, <1>7, HostRows
    <2>2. \A x, y : [[room EXCEPT !.status = x] EXCEPT !.status = y] = [room EXCEPT !.status = y]
      BY <1>2, GameForms
    <2> DEFINE rs == [rounds EXCEPT ![Len(rounds)] =
                        [rounds[Len(rounds)] EXCEPT !.pausedAt = now]]
               ss == [rounds EXCEPT ![Len(rounds)] = Resumed(rounds[Len(rounds)])]
    <2>3. /\ Paused(game) = [room |-> [room EXCEPT !.status = "paused"], rounds |-> rs]
          /\ Unpaused(game) = [room |-> [room EXCEPT !.status = "active"], rounds |-> ss]
      BY <1>2, <1>4, GameForms
    <2>a. /\ Paused(Played) = [room |-> [row EXCEPT !.status = "paused"], rounds |-> rs]
          /\ Unpaused(Played) = [room |-> [row EXCEPT !.status = "active"], rounds |-> ss]
      BY <1>4, <2>1, GameForms
    <2> HIDE DEF rs, ss
    <2>4. [row EXCEPT !.status = "paused"] = [room EXCEPT !.status = "paused"]
          /\ [row EXCEPT !.status = "active"] = [room EXCEPT !.status = "active"]
      BY <1>5, <2>2
    <2>5. room'.status = "paused" <=> room.status = "active"
      BY <1>6, <1>7
    <2>6. Paused(Played) = Paused(game) /\ Unpaused(Played) = Unpaused(game)
      BY <2>3, <2>a, <2>4
    <2>. QED
      BY <2>5, <2>6, <1>6, <1>7
  <1>11. Tidy(req'[w], Snapshot')
    BY <1>1, <1>6, <1>7, <1>9, HostTidy
  <1> HIDE DEF h
  <1>. QED
    BY <1>1, <1>3, <1>7, <1>8, <1>9, <1>10, <1>11, HostGoes DEF SameRequest


\* What a call on the current round works with.
LEMMA OnCurrentRow ==
  ASSUME FlightInv, NEW w \in Workers, Here(w), req[w].pc \in {"mark", "step"}
  PROVE  /\ req[w].op \notin RoundOps /\ req[w].at = Len(rounds) /\ Len(rounds) \in DOMAIN rounds
         /\ req[w].round = rounds[Len(rounds)] /\ rounds # <<>> /\ rounds \in Seq(Rounds)
         /\ req[w].room = room
         /\ game \in Games /\ game.room = room /\ game.rounds = rounds /\ room \in Rooms
         /\ Game(Snapshot) = game /\ Snapshot.room = room
         /\ room.status # "none" /\ rounds[Len(rounds)].number = Len(rounds)
         /\ Stage(now, req[w], served, Snapshot)
  <1> DEFINE r == req[w]
  <1>1. /\ Passed(now, r, served) /\ CopiesFresh(r, Snapshot) /\ Tidy(r, Snapshot)
        /\ Stage(now, r, served, Snapshot)
        /\ Snapshot.room = room /\ Snapshot.rounds = rounds /\ Game(Snapshot) = game
        /\ game \in Games /\ game.room = room /\ game.rounds = rounds /\ room \in Rooms
        /\ rounds \in Seq(Rounds)
    BY HereFacts, RowsNow
  <1>2. r.op \notin RoundOps
    BY <1>1 DEF Passed, BallotCalls
  <1>3. /\ r.at = Len(rounds) /\ r.at \in DOMAIN rounds /\ r.round = rounds[r.at]
        /\ r.room = room
    BY <1>1, <1>2 DEF CopiesFresh, OnRow
  <1>4. rounds # <<>>
    BY <1>3
  <1>5. room.status # "none" /\ rounds[Len(rounds)].number = Len(rounds)
    BY <1>1, <1>3, <1>4 DEF Tidy
  <1>. QED
    BY <1>1, <1>2, <1>3, <1>4, <1>5

LEMMA MarkRoundGoes ==
  ASSUME FlightInv, NEW w \in Workers, Here(w), now' = now, MarkRound(w)
  PROVE  There(w)
  <1> DEFINE r == req[w]
             n == Len(rounds)
             row == IF room.status = "paused" THEN [rounds[n] EXCEPT !.pausedAt = now]
                                              ELSE Resumed(rounds[n])
             h == IF room.status = "paused" THEN Paused(game) ELSE Unpaused(game)
  <1>1. /\ r.pc = "mark" /\ Sync(w, "build") /\ Effect(w)
        /\ (CASE r.room.status = "paused" -> UpdateRound(r.at, [r.round EXCEPT !.pausedAt = now])
              [] r.room.status = "active" ->
                   IF r.round.pausedAt # NoTime THEN UpdateRound(r.at, Resumed(r.round)) ELSE JustRead)
    BY MarkRoundEffect DEF MarkRound, At
  <1>2. /\ r.op \notin RoundOps /\ r.at = n /\ n \in DOMAIN rounds
        /\ r.round = rounds[n] /\ rounds # <<>> /\ rounds \in Seq(Rounds) /\ r.room = room
        /\ game \in Games /\ game.room = room /\ game.rounds = rounds
        /\ Game(Snapshot) = game /\ room.status # "none" /\ Snapshot.room = room
        /\ Stage(now, r, served, Snapshot)
    BY <1>1, OnCurrentRow
  <1>3. room.status \in {"active", "paused"}
    BY <1>1, <1>2, HereFacts DEF FitsOperation, Begun
  <1>4. /\ rounds' = [rounds EXCEPT ![n] = row] /\ room' = room
        /\ UNCHANGED <<user, stories, votes>>
    <2>1. CASE room.status = "paused"
      BY <1>1, <1>2, <2>1 DEF UpdateRound
    <2>2. CASE room.status = "active" /\ r.round.pausedAt # NoTime
      BY <1>1, <1>2, <2>2 DEF UpdateRound
    <2>3. CASE room.status = "active" /\ r.round.pausedAt = NoTime
      <3>1. row = rounds[n] /\ JustRead
        BY <1>1, <1>2, <2>3 DEF Resumed
      <3> HIDE DEF row
      <3>2. [rounds EXCEPT ![n] = rounds[n]] = rounds
        BY <1>2
      <3>. QED
        BY <3>1, <3>2 DEF JustRead
    <2>. QED
      BY <1>3, <2>1, <2>2, <2>3
  <1>5. Played = h
    <2>1. /\ Paused(game) = [room |-> [room EXCEPT !.status = "paused"],
                             rounds |-> [rounds EXCEPT ![n] = [rounds[n] EXCEPT !.pausedAt = now]]]
          /\ Unpaused(game) = [room |-> [room EXCEPT !.status = "active"],
                               rounds |-> [rounds EXCEPT ![n] = Resumed(rounds[n])]]
      BY <1>2, GameForms
    <2>2. room = [room EXCEPT !.status = room.status]
      BY HereFacts DEF Rooms
    <2>3. CASE room.status = "paused"
      BY <1>4, <2>1, <2>2, <2>3 DEF Played
    <2>4. CASE room.status = "active"
      BY <1>4, <2>1, <2>2, <2>4 DEF Played
    <2>. QED
      BY <1>3, <2>3, <2>4
  <1>6. Whole(now, served, Playing(Snapshot, SyncCurrent(h)))
    <2>1. /\ room.status = "paused" => Whole(now, served, Playing(Snapshot,
               Found(now, served)!SyncCurrent(Found(now, served)!Paused(game))))
          /\ room.status = "active" => Whole(now, served, Playing(Snapshot,
               Found(now, served)!SyncCurrent(Found(now, served)!Unpaused(game))))
      BY <1>1, <1>2 DEF Stage
    <2>. QED
      BY <1>3, <2>1, FoundFunctions
  <1>7. DOMAIN rounds' = DOMAIN rounds
    BY <1>4
  <1> HIDE DEF h, row
  <1>8. Tidy(req'[w], Snapshot')
    BY <1>1, <1>2, <1>3, <1>4, <1>7, HostTidy
  <1>. QED
    BY <1>1, <1>2, <1>4, <1>5, <1>6, <1>8, HostTail

LEMMA ProgressGoes ==
  ASSUME FlightInv, NEW w \in Workers, Here(w), now' = now, Progress(w)
  PROVE  There(w)
  <1> DEFINE r == req[w]
             n == Len(rounds)
             h == Stepped(game)
  <1>1. /\ r.pc = "step" /\ Effect(w)
        /\ \/ /\ r.round.status \in {"writing", "voting"}
              /\ UpdateRound(r.at, Advanced(r.round))
              /\ Build(w)
           \/ /\ r.round.status = "revealed" /\ r.round.number >= MaxRounds
              /\ UpdateRoom([r.room EXCEPT !.status = "finished"])
              /\ Build(w)
           \/ /\ r.round.status = "revealed" /\ r.round.number < MaxRounds
              /\ UpdateRoom([r.room EXCEPT !.status = "active"])
              /\ Go(w, [r EXCEPT !.pc = "openNext", !.round = NewRound(r.round.number + 1)])
    BY ProgressEffect DEF Progress, At
  <1>2. /\ r.op \notin RoundOps /\ r.at = n /\ n \in DOMAIN rounds
        /\ r.round = rounds[n] /\ rounds # <<>> /\ rounds \in Seq(Rounds) /\ r.room = room
        /\ game \in Games /\ game.room = room /\ game.rounds = rounds /\ room \in Rooms
        /\ Game(Snapshot) = game /\ room.status # "none" /\ Snapshot.room = room
        /\ Stage(now, r, served, Snapshot)
    BY <1>1, OnCurrentRow
  <1>3. Whole(now, served, Playing(Snapshot, SyncCurrent(h)))
    <2>1. Snapshot.rounds # <<>>
      BY <1>2, HereFacts, RowsNow
    <2>2. Whole(now, served, Playing(Snapshot,
               Found(now, served)!SyncCurrent(Found(now, served)!Stepped(game))))
      BY <1>1, <1>2, <2>1 DEF Stage
    <2>. QED
      BY <2>2, FoundFunctions
  <1>4. rounds[n].number \in Nat /\ MaxRounds \in Nat /\ game = [room |-> room, rounds |-> rounds]
    <2>1. game \in Games /\ game.room = room /\ game.rounds = rounds /\ rounds[n] \in Rounds
      BY <1>2
    <2>2. game = [room |-> room, rounds |-> rounds]
      BY <2>1, GameParts
    <2>. QED
      BY <2>1, <2>2, LimitsAssumption DEF Rounds
  <1>a. Tidy(r, Snapshot) /\ Snapshot.rounds = rounds
    BY HereFacts, RowsNow
  <1>5. CASE r.round.status \in {"writing", "voting"} /\ UpdateRound(r.at, Advanced(r.round)) /\ Build(w)
    <2>1. /\ rounds' = [rounds EXCEPT ![n] = Advanced(rounds[n])] /\ room' = room
          /\ UNCHANGED <<user, stories, votes>>
      BY <1>2, <1>5 DEF UpdateRound
    <2>2. h = WithRound(game, n, Advanced(rounds[n]))
      <3>1. Current(game) = n /\ game.rounds[n] = rounds[n]
        BY <1>2 DEF Current
      <3>2. rounds[n].status = "writing" \/ rounds[n].status = "voting"
        BY <1>2, <1>5
      <3>. QED
        BY <3>1, <3>2 DEF Stepped, Advanced
    <2>3. Played = h
      <3> DEFINE row == Advanced(rounds[n])
      <3> HIDE DEF row
      <3>1. rounds' = [rounds EXCEPT ![n] = row] /\ h = WithRound(game, n, row)
        BY <2>1, <2>2 DEF row
      <3> HIDE DEF h
      <3>. QED
        BY <1>4, <2>1, <3>1 DEF WithRound, Played
    <2>4. DOMAIN rounds' = DOMAIN rounds
      BY <2>1
    <2>5. room.status \notin {"none", "waiting"}
      BY <1>1, <1>2, <1>a DEF Tidy
    <2>6. Tidy(req'[w], Snapshot')
      BY <1>1, <1>2, <2>1, <2>4, <2>5, HostTidy
    <2> HIDE DEF h
    <2>. QED
      BY <1>1, <1>2, <1>3, <1>5, <2>1, <2>3, <2>6, HostTail
  <1>6. CASE /\ r.round.status = "revealed" /\ r.round.number >= MaxRounds
             /\ UpdateRoom([r.room EXCEPT !.status = "finished"]) /\ Build(w)
    <2>1. /\ room' = [room EXCEPT !.status = "finished"] /\ rounds' = rounds
          /\ UNCHANGED <<user, stories, votes>>
      BY <1>2, <1>6 DEF UpdateRoom
    <2>2. h = WithStatus(game, "finished")
      <3>1. Current(game) = n /\ game.rounds[n] = rounds[n] /\ ~(rounds[n].number < MaxRounds)
            /\ rounds[n].status = "revealed" /\ rounds[n].number >= MaxRounds
        BY <1>2, <1>4, <1>6 DEF Current
      <3>. QED
        BY <3>1 DEF Stepped
    <2>3. Played = h
      BY <1>4, <2>1, <2>2 DEF WithStatus, Played
    <2>4. room'.status = "finished" /\ room'.hostID = room.hostID
      BY <1>2, <2>1 DEF Rooms
    <2>5. Tidy(req'[w], Snapshot')
      BY <1>1, <1>2, <2>1, <2>4, HostTidy
    <2> HIDE DEF h
    <2>. QED
      BY <1>1, <1>2, <1>3, <1>6, <2>1, <2>3, <2>5, HostTail
  <1>7. CASE /\ r.round.status = "revealed" /\ r.round.number < MaxRounds
             /\ UpdateRoom([r.room EXCEPT !.status = "active"])
             /\ Go(w, [r EXCEPT !.pc = "openNext", !.round = NewRound(r.round.number + 1)])
    <2>1. /\ room' = [room EXCEPT !.status = "active"] /\ rounds' = rounds
          /\ UNCHANGED <<user, stories, votes>>
      BY <1>2, <1>7 DEF UpdateRoom
    <2>n. rounds[n].number = n /\ Len(rounds') = n
      BY <1>1, <1>2, <2>1, OnCurrentRow
    <2>2. h = Opened(game, rounds[n].number + 1)
      <3>1. Current(game) = n /\ game.rounds[n] = rounds[n] /\ ~(rounds[n].number >= MaxRounds)
            /\ rounds[n].status = "revealed" /\ rounds[n].number < MaxRounds
        BY <1>2, <1>4, <1>7 DEF Current
      <3>. QED
        BY <3>1 DEF Stepped
    <2>3. room'.status = "active" /\ room'.hostID = room.hostID
      BY <1>2, <2>1 DEF Rooms
    <2>4. Tidy(req'[w], Snapshot')
      BY <1>1, <1>2, <2>1, <2>3, HostTidy
    <2>5. /\ SameRequest(req'[w], r) /\ req'[w].pc = "openNext"
          /\ req'[w].round = NewRound(Len(rounds') + 1)
      <3> DEFINE fresh == NewRound(r.round.number + 1)
      <3>1. fresh = NewRound(Len(rounds') + 1)
        BY <1>2, <2>n
      <3>2. r \in Requests /\ req'[w] = [r EXCEPT !.pc = "openNext", !.round = fresh]
        BY <1>7, HereFacts, RequestGoes
      <3> HIDE DEF fresh, r
      <3>3. /\ SameRequest(req'[w], r) /\ req'[w].pc = "openNext" /\ req'[w].round = fresh
        BY <3>2 DEF Requests, SameRequest
      <3>. QED
        BY <3>1, <3>3 DEF r
    <2>6. Opened(Played, rounds[n].number + 1) = h
      <3> DEFINE rs == Append(rounds, NewRound(rounds[n].number + 1))
      <3>1. Played \in Games /\ Played.room = room' /\ Played.rounds = rounds
        BY <1>1, <2>1, HostRows
      <3>2. Opened(Played, rounds[n].number + 1)
              = [room |-> [room' EXCEPT !.status = "active"], rounds |-> rs]
        BY <3>1, GameForms
      <3>a. game \in Games /\ game.room = room /\ game.rounds = rounds
        BY <1>2
      <3>3. Opened(game, rounds[n].number + 1)
              = [room |-> [room EXCEPT !.status = "active"], rounds |-> rs]
        BY <3>a, GameForms
      <3>4. [room' EXCEPT !.status = "active"] = [room EXCEPT !.status = "active"]
        BY <1>2, <2>1 DEF Rooms
      <3>. QED
        BY <2>2, <3>2, <3>3, <3>4
    <2> HIDE DEF h
    <2>7. h = Opened(Played, Len(rounds') + 1)
      BY <2>n, <2>6
    <2>. QED
      BY <1>1, <1>2, <1>3, <2>1, <2>3, <2>4, <2>5, <2>7, HostGoes
  <1>. QED
    BY <1>1, <1>5, <1>6, <1>7

LEMMA OpenNextGoes ==
  ASSUME FlightInv, NEW w \in Workers, Here(w), now' = now, OpenNext(w)
  PROVE  There(w)
  <1> DEFINE r == req[w]
             n == Len(rounds)
             h == Opened(game, n + 1)
  <1>1. /\ r.pc = "openNext" /\ Effect(w) /\ Build(w)
        /\ rounds' = Append(rounds, r.round) /\ room' = room
        /\ UNCHANGED <<user, stories, votes>>
    BY OpenNextEffect DEF OpenNext, At, CreateRound
  <1>2. /\ r.op \notin RoundOps /\ rounds \in Seq(Rounds)
        /\ game \in Games /\ game.room = room /\ game.rounds = rounds /\ room \in Rooms
        /\ Game(Snapshot) = game /\ Snapshot.room = room /\ Snapshot.rounds = rounds
        /\ Stage(now, r, served, Snapshot)
    BY <1>1, HereFacts, RowsNow DEF Passed, BallotCalls
  <1>3. /\ room.status = "active" /\ Whole(now, served, Playing(Snapshot, SyncCurrent(h)))
        /\ r.round = NewRound(n + 1)
    BY <1>1, <1>2, FoundFunctions DEF Stage
  <1>4. Played = h
    <2>a. game \in Games /\ game.room = room /\ game.rounds = rounds
      BY <1>2
    <2>1. h = [room |-> [room EXCEPT !.status = "active"], rounds |-> Append(rounds, NewRound(n + 1))]
      BY <2>a, GameForms
    <2>2. [room EXCEPT !.status = "active"] = room
      BY <1>2, <1>3 DEF Rooms
    <2>. QED
      BY <1>1, <1>2, <1>3, <2>1, <2>2 DEF Played
  <1>5. Tidy(req'[w], Snapshot')
    <2>1. Snapshot'.room = room /\ Snapshot'.rounds = rounds'
      BY <1>1, HostRows
    <2>2. /\ DOMAIN rounds' = 1..(n + 1) /\ rounds'[n + 1].number = n + 1
          /\ \A i \in 1..n : rounds'[i] = rounds[i]
      BY <1>1, <1>2, <1>3 DEF NewRound
    <2>3. Tidy(r, Snapshot) /\ Snapshot.rounds = rounds
      BY HereFacts, RowsNow
    <2>4. DOMAIN rounds = 1..n /\ n \in Nat
      BY <1>2
    <2>5. \A i \in 1..n : rounds[i].number = i
      BY <2>3, <2>4 DEF Tidy
    <2>6. \A i \in DOMAIN rounds' : rounds'[i].number = i
      <3> HIDE DEF n
      <3>. QED
        BY <2>2, <2>4, <2>5
    <2>7. room.hostID \in Players
      BY <1>2, <1>3, <2>3 DEF Tidy
    <2>. QED
      BY <1>3, <2>1, <2>6, <2>7 DEF Tidy
  <1> HIDE DEF h
  <1>. QED
    BY <1>1, <1>2, <1>3, <1>4, <1>5, HostTail


-----------------------------------------------------------------------------
(* Reading a round, SubmitStory, SubmitVote and GetTopStory.               *)

LEMMA ReadRoundRowGoes ==
  ASSUME FlightInv, NEW w \in Workers, Here(w), ReadRoundRow(w)
  PROVE  There(w)
  <1> DEFINE r == req[w]
             q == req'[w]
             then == IF r.op = "read" THEN "done" ELSE "accept"
  <1>1. /\ r.pc = "readRound" /\ JustRead /\ r \in Requests
        /\ q = [r EXCEPT !.pc = "syncRoom", !.round = rounds[r.at], !.then = then]
    BY HereFacts, RequestGoes DEF ReadRoundRow, At
  <1>2. /\ Untouched(r) /\ Entitled(r, served) /\ r.op \in RoundOps
        /\ Snapshot = served /\ Snapshot' = served /\ served.rounds = rounds
        /\ Tidy(q, served) /\ Game(served) = game
    BY <1>1, HereFacts, RowsNow, TidyKept DEF Untouched, FitsOperation
  <1>3. r.at \in DOMAIN served.rounds
    BY <1>2 DEF Entitled
  <1>4. Whole(now, served, Playing(served, Found(now, served)!SyncRound(Game(served), r.at)))
    BY <1>3 DEF Whole, WholeRead
  <1>5. There(w) <=> Going(now, q, served, served)
    BY <1>2 DEF There
  <1> HIDE DEF r, q
  <1>6. /\ SameRequest(q, r) /\ q.pc = "syncRoom" /\ q.at = r.at /\ q.round = rounds[r.at]
        /\ q.then = IF r.op = "read" THEN "done" ELSE "accept"
    BY <1>1 DEF Requests, SameRequest
  <1>7. CopiesFresh(q, served)
    BY <1>2, <1>3, <1>6 DEF CopiesFresh, OnRow, SameRequest
  <1>8. Entitled(q, served)
    BY <1>2, <1>6 DEF Entitled, SameRequest, HostOps, RoundOps
  <1>9. Passed(now, q, served)
    BY <1>2, <1>6 DEF Passed, SameRequest, RoundOps
  <1>10. Stage(now, q, served, served)
    <2>1. Whole(now, served, Playing(served, Found(now, served)!SyncRound(Game(served), q.at)))
      BY <1>4, <1>6
    <2>. QED
      BY <1>6, <2>1 DEF Stage, BallotCalls
  <1>. QED
    BY <1>2, <1>5, <1>6, <1>7, <1>8, <1>9, <1>10 DEF Going

\* The ballots found are those there, until the request stores its own.
LEMMA BallotsFound ==
  ASSUME served.stories = stories, served.votes = votes
  PROVE  /\ \A i : Found(now, served)!StoriesOf(i) = StoriesOf(i)
         /\ \A p, i : Found(now, served)!WroteIn(p, i) = WroteIn(p, i)
         /\ \A p, i : Found(now, served)!VotedIn(p, i) = VotedIn(p, i)
         /\ \A i : Found(now, served)!Winner(i) = Winner(i)
  <1>1. \A i : Found(now, served)!StoriesOf(i) = StoriesOf(i)
    BY DEF Found!StoriesOf, StoriesOf
  <1>2. \A x : Found(now, served)!VotesFor(x) = VotesFor(x)
    BY DEF Found!VotesFor, VotesFor
  <1>3. \A x, y : Found(now, served)!Beats(x, y) = Beats(x, y)
    BY <1>2, SameCardinality DEF Found!Beats, Beats
  <1>4. /\ \A p, i : Found(now, served)!WroteIn(p, i) = WroteIn(p, i)
        /\ \A p, i : Found(now, served)!VotedIn(p, i) = VotedIn(p, i)
    BY <1>1 DEF Found!WroteIn, WroteIn, Found!VotedIn, VotedIn
  <1>5. \A i : Found(now, served)!Winner(i) = Winner(i)
    BY <1>1, <1>3 DEF Found!Winner, Winner
  <1>. QED
    BY <1>1, <1>4, <1>5

LEMMA BallotHere ==
  ASSUME FlightInv, NEW w \in Workers, Here(w), req[w].pc \in BallotCalls
  PROVE  /\ Ballot(now, req[w], served, Snapshot) /\ Entitled(req[w], served)
         /\ req[w].op \in RoundOps /\ req[w].at \in DOMAIN served.rounds
         /\ req[w].pc \in {"checkStory", "insertStory"} => req[w].op = "story"
         /\ req[w].pc \in {"checkVote", "insertVote"} => req[w].op = "vote"
         /\ req[w].pc \in {"listStories", "listVotes", "markWinner"} => req[w].op = "top"
         /\ req[w].op \in {"story", "vote"} => req[w].who \in Players
         /\ Snapshot = Playing(served, Found(now, served)!SyncRound(Game(served), req[w].at))
         /\ served.user = user /\ served.stories = stories /\ served.votes = votes
         /\ req[w].pc # "setActive" /\ Tidy(req[w], Snapshot)
  <1> DEFINE r == req[w]
  <1>1. /\ Stage(now, r, served, Snapshot) /\ Entitled(r, served) /\ FitsOperation(r)
        /\ Tidy(r, Snapshot)
    BY HereFacts
  <1>2. /\ r.pc \in {"checkStory", "insertStory"} => r.op = "story"
        /\ r.pc \in {"checkVote", "insertVote"} => r.op = "vote"
        /\ r.pc \in {"listStories", "listVotes", "markWinner"} => r.op = "top"
        /\ r.op \in {"story", "vote"} => r.who \in Players
    BY <1>1 DEF FitsOperation
  <1>3. r.op \in RoundOps /\ r.pc # "setActive"
    BY <1>2 DEF RoundOps, BallotCalls
  <1>4. Ballot(now, r, served, Snapshot) /\ r.at \in DOMAIN served.rounds
    BY <1>1, <1>3 DEF Stage, Entitled
  <1>5. Snapshot = Playing(served, Found(now, served)!SyncRound(Game(served), r.at))
    BY <1>4 DEF Ballot
  <1>6. served.user = user /\ served.stories = stories /\ served.votes = votes
    BY <1>5 DEF Playing, Rows, Snapshot
  <1>. QED
    BY <1>1, <1>2, <1>3, <1>4, <1>5, <1>6

\* A ballot is stored: the rows of the game stay as they are.
LEMMA StoredTidy ==
  ASSUME FlightInv, NEW w \in Workers, Here(w), req[w].pc \in BallotCalls,
         UNCHANGED <<room, user, rounds>>, NEW q
  PROVE  /\ Tidy(q, Snapshot')
         /\ Snapshot' = Rows(Found(now, served)!SyncRound(Game(served), req[w].at),
                             served.user, stories', votes')
  <1>1. /\ Tidy(req[w], Snapshot) /\ req[w].pc # "setActive"
        /\ Snapshot = Playing(served, Found(now, served)!SyncRound(Game(served), req[w].at))
        /\ served.user = user
    BY BallotHere
  <1>2. Snapshot'.room = Snapshot.room /\ Snapshot'.rounds = Snapshot.rounds
    BY DEF Snapshot
  <1> DEFINE g == Found(now, served)!SyncRound(Game(served), req[w].at)
  <1> HIDE DEF g
  <1>3. Snapshot = Playing(served, g)
    BY <1>1 DEF g
  <1>4. Snapshot' = Rows(g, served.user, stories', votes')
    BY <1>1, <1>3 DEF Snapshot, Playing, Rows
  <1>. QED
    BY <1>1, <1>2, <1>4 DEF Tidy, g

LEMMA CheckStoryGoes ==
  ASSUME FlightInv, NEW w \in Workers, Here(w), CheckStory(w)
  PROVE  There(w)
  <1> DEFINE r == req[w]
             q == req'[w]
  <1>1. /\ r.pc = "checkStory" /\ JustRead
        /\ IF WroteIn(r.who, r.at) THEN Finish(w) ELSE Call(w, "insertStory")
    BY DEF CheckStory, At
  <1>2. /\ Ballot(now, r, served, Snapshot) /\ r.op \in RoundOps /\ r.op = "story"
        /\ served.stories = stories /\ served.votes = votes /\ r.pc # "setActive"
    BY <1>1, BallotHere DEF BallotCalls
  <1>3. CASE Finish(w)
    BY <1>1, <1>2, <1>3, BallotRefused
  <1>4. CASE ~WroteIn(r.who, r.at) /\ Call(w, "insertStory")
    <2>1. SameRequest(q, r) /\ q.pc = "insertStory" /\ q.at = r.at
      BY <1>4, RequestGoes
    <2>2. ~Found(now, served)!WroteIn(r.who, r.at)
      BY <1>2, <1>4, BallotsFound
    <2>a. r.pc = "checkStory"
      BY <1>1
    <2>3. Ballot(now, q, served, Snapshot) /\ q.pc \in BallotCalls
      <3> HIDE DEF r, q
      <3>. QED
        BY <1>2, <2>1, <2>2, <2>a DEF Ballot, SameRequest, BallotCalls
    <2>. QED
      BY <1>1, <1>2, <2>1, <2>3, BallotGoes DEF SameRequest
  <1>. QED
    BY <1>1, <1>3, <1>4

LEMMA InsertStoryGoes ==
  ASSUME FlightInv, NEW w \in Workers, Here(w), InsertStory(w)
  PROVE  There(w)
  <1> DEFINE r == req[w]
             p == r.who
             i == r.at
  <1>1. /\ r.pc = "insertStory" /\ Finish(w) /\ UNCHANGED <<room, user, rounds, votes>>
        /\ stories' = Append(stories, [round |-> i, author |-> p, isRevealed |-> FALSE])
    BY DEF InsertStory, At
  <1>2. /\ Ballot(now, r, served, Snapshot) /\ r.op = "story" /\ p \in Players
        /\ i \in DOMAIN served.rounds /\ served.stories = stories /\ served.votes = votes
    BY <1>1, BallotHere DEF BallotCalls
  <1>3. Tidy(req'[w], Snapshot')
        /\ Snapshot' = Rows(Found(now, served)!SyncRound(Game(served), i),
                            served.user, stories', votes')
    BY <1>1, StoredTidy DEF BallotCalls
  <1>4. WholeStory(now, served, Snapshot', p, i)
    <2>1. /\ Found(now, served)!Playable(Found(now, served)!SyncRound(Game(served), i), i, "writing")
          /\ served.user[p] = "member" /\ ~Found(now, served)!WroteIn(p, i)
      BY <1>1, <1>2 DEF Ballot
    <2>. QED
      BY <1>1, <1>2, <1>3, <2>1 DEF WholeStory
  <1>5. Whole(now, served, Snapshot')
    BY <1>2, <1>4 DEF Whole
  <1>. QED
    BY <1>1, <1>3, <1>5, GoneWell

LEMMA CheckVoteGoes ==
  ASSUME FlightInv, NEW w \in Workers, Here(w), CheckVote(w)
  PROVE  There(w)
  <1> DEFINE r == req[w]
             q == req'[w]
             s == stories[r.story]
  <1>1. /\ r.pc = "checkVote" /\ JustRead
        /\ IF s.round = r.at /\ s.author # r.who /\ ~VotedIn(r.who, r.at)
             THEN Call(w, "insertVote") ELSE Finish(w)
    BY DEF CheckVote, At
  <1>2. /\ Ballot(now, r, served, Snapshot) /\ r.op \in RoundOps /\ r.op = "vote"
        /\ served.stories = stories /\ served.votes = votes /\ r.pc # "setActive"
    BY <1>1, BallotHere DEF BallotCalls
  <1>3. CASE Finish(w)
    BY <1>1, <1>2, <1>3, BallotRefused
  <1>4. CASE /\ s.round = r.at /\ s.author # r.who /\ ~VotedIn(r.who, r.at)
             /\ Call(w, "insertVote")
    <2>1. SameRequest(q, r) /\ q.pc = "insertVote" /\ q.at = r.at
      BY <1>4, RequestGoes
    <2>2. /\ ~Found(now, served)!VotedIn(r.who, r.at)
          /\ served.stories[r.story].round = r.at /\ served.stories[r.story].author # r.who
      BY <1>2, <1>4, BallotsFound
    <2>a. r.pc = "checkVote"
      BY <1>1
    <2>3. Ballot(now, q, served, Snapshot) /\ q.pc \in BallotCalls
      <3> HIDE DEF r, q
      <3>. QED
        BY <1>2, <2>1, <2>2, <2>a DEF Ballot, SameRequest, BallotCalls
    <2>. QED
      BY <1>1, <1>2, <2>1, <2>3, BallotGoes DEF SameRequest
  <1>. QED
    BY <1>1, <1>3, <1>4

LEMMA InsertVoteGoes ==
  ASSUME FlightInv, NEW w \in Workers, Here(w), InsertVote(w)
  PROVE  There(w)
  <1> DEFINE r == req[w]
             p == r.who
             i == r.at
             x == r.story
  <1>1. /\ r.pc = "insertVote" /\ Finish(w) /\ UNCHANGED <<room, user, rounds, stories>>
        /\ ~VotedIn(p, i) =>
             votes' = Append(votes, [round |-> i, voter |-> p, story |-> x])
    BY DEF InsertVote, At
  <1>2. /\ Ballot(now, r, served, Snapshot) /\ r.op = "vote" /\ p \in Players
        /\ i \in DOMAIN served.rounds /\ served.stories = stories /\ served.votes = votes
        /\ Entitled(r, served)
    BY <1>1, BallotHere DEF BallotCalls
  <1>3. Tidy(req'[w], Snapshot')
        /\ Snapshot' = Rows(Found(now, served)!SyncRound(Game(served), i),
                            served.user, stories', votes')
    BY <1>1, StoredTidy DEF BallotCalls
  <1>4. /\ Found(now, served)!Playable(Found(now, served)!SyncRound(Game(served), i), i, "voting")
        /\ served.user[p] = "member" /\ ~Found(now, served)!VotedIn(p, i)
        /\ served.stories[x].round = i /\ served.stories[x].author # p
        /\ x \in DOMAIN served.stories
    BY <1>1, <1>2 DEF Ballot, Entitled
  <1>5. ~VotedIn(p, i)
    BY <1>2, <1>4, BallotsFound
  <1>6. WholeVote(now, served, Snapshot', p, i, x)
    BY <1>1, <1>2, <1>3, <1>4, <1>5 DEF WholeVote
  <1>7. Whole(now, served, Snapshot')
    BY <1>2, <1>4, <1>6 DEF Whole
  <1>. QED
    BY <1>1, <1>3, <1>7, GoneWell

LEMMA ListStoriesGoes ==
  ASSUME FlightInv, NEW w \in Workers, Here(w), ListStories(w)
  PROVE  There(w)
  <1> DEFINE r == req[w]
             q == req'[w]
  <1>1. /\ r.pc = "listStories" /\ JustRead /\ r \in Requests
        /\ IF StoriesOf(r.at) = {} THEN Finish(w)
             ELSE q = [r EXCEPT !.pc = "listVotes", !.story = Len(stories)]
    BY HereFacts, RequestGoes DEF ListStories, At
  <1>2. /\ Ballot(now, r, served, Snapshot) /\ r.op \in RoundOps /\ r.op = "top"
        /\ served.stories = stories /\ served.votes = votes /\ r.pc # "setActive"
    BY <1>1, BallotHere DEF BallotCalls
  <1>3. CASE StoriesOf(r.at) = {}
    BY <1>1, <1>2, <1>3, BallotRefused
  <1>4. CASE StoriesOf(r.at) # {}
    <2>1. q.op = r.op /\ q.who = r.who /\ q.at = r.at /\ q.pc = "listVotes" /\ q.story = Len(stories)
      <3>1. q = [r EXCEPT !.pc = "listVotes", !.story = Len(stories)] /\ r \in Requests
        BY <1>1, <1>4
      <3> HIDE DEF r, q
      <3>. QED
        BY <3>1 DEF Requests
    <2>2. Found(now, served)!StoriesOf(r.at) # {}
      BY <1>2, <1>4, BallotsFound
    <2>3. Ballot(now, q, served, Snapshot) /\ q.pc \in BallotCalls
      <3> HIDE DEF r, q
      <3>. QED
        BY <1>2, <2>1, <2>2 DEF Ballot, BallotCalls
    <2>. QED
      BY <1>1, <1>2, <2>1, <2>3, BallotGoes
  <1>. QED
    BY <1>3, <1>4

LEMMA ListVotesGoes ==
  ASSUME FlightInv, NEW w \in Workers, Here(w), ListVotes(w)
  PROVE  There(w)
  <1> DEFINE r == req[w]
             q == req'[w]
             listed == {s \in StoriesOf(r.at) : s <= r.story}
             winner == CHOOSE s \in listed : \A t \in listed : Beats(s, t)
  <1>1. /\ r.pc = "listVotes" /\ JustRead /\ r \in Requests
        /\ q = [r EXCEPT !.pc = "markWinner", !.story = winner]
    BY HereFacts, RequestGoes DEF ListVotes, At
  <1>2. /\ Ballot(now, r, served, Snapshot) /\ r.op \in RoundOps /\ r.op = "top"
        /\ served.stories = stories /\ served.votes = votes /\ r.pc # "setActive"
    BY <1>1, BallotHere DEF BallotCalls
  <1>3. Found(now, served)!StoriesOf(r.at) # {} /\ r.story = Len(stories)
    BY <1>1, <1>2 DEF Ballot
  <1>4. listed = StoriesOf(r.at)
    <2>1. stories \in Seq(Stories)
      BY HereFacts
    <2>. QED
      BY <1>3, <2>1 DEF StoriesOf
  <1>5. winner = Found(now, served)!Winner(r.at)
    <2>1. winner = Winner(r.at)
      BY <1>4 DEF Winner
    <2>. QED
      BY <1>2, <2>1, BallotsFound
  <1> HIDE DEF winner, listed
  <1>6. q.op = r.op /\ q.who = r.who /\ q.at = r.at /\ q.pc = "markWinner" /\ q.story = winner
    <2> HIDE DEF r, q
    <2>. QED
      BY <1>1 DEF Requests
  <1>7. Ballot(now, q, served, Snapshot) /\ q.pc \in BallotCalls
    <2> HIDE DEF r, q
    <2>. QED
      BY <1>2, <1>3, <1>5, <1>6 DEF Ballot, BallotCalls
  <1>. QED
    BY <1>1, <1>2, <1>6, <1>7, BallotGoes

LEMMA MarkWinnerGoes ==
  ASSUME FlightInv, NEW w \in Workers, Here(w), MarkWinner(w)
  PROVE  There(w)
  <1> DEFINE r == req[w]
             i == r.at
  <1>1. /\ r.pc = "markWinner" /\ Finish(w) /\ UNCHANGED <<room, user, rounds, votes>>
        /\ stories' = [stories EXCEPT ![r.story].isRevealed = TRUE]
    BY DEF MarkWinner, At
  <1>2. /\ Ballot(now, r, served, Snapshot) /\ r.op = "top"
        /\ i \in DOMAIN served.rounds /\ served.stories = stories /\ served.votes = votes
    BY <1>1, BallotHere DEF BallotCalls
  <1>3. Tidy(req'[w], Snapshot')
        /\ Snapshot' = Rows(Found(now, served)!SyncRound(Game(served), i),
                            served.user, stories', votes')
    BY <1>1, StoredTidy DEF BallotCalls
  <1> DEFINE g == Found(now, served)!SyncRound(Game(served), i)
  <1>4. /\ g.room.status \notin {"waiting", "expired"} /\ g.rounds[i].status = "revealed"
        /\ Found(now, served)!StoriesOf(i) # {} /\ r.story = Found(now, served)!Winner(i)
    BY <1>1, <1>2 DEF Ballot
  <1>5. Snapshot' = Rows(g, served.user,
                         [served.stories EXCEPT ![Found(now, served)!Winner(i)].isRevealed = TRUE],
                         served.votes)
    BY <1>1, <1>2, <1>3, <1>4
  <1>6. WholeTop(now, served, Snapshot', i)
    BY <1>4, <1>5 DEF WholeTop
  <1>7. Whole(now, served, Snapshot')
    BY <1>2, <1>6 DEF Whole
  <1>. QED
    BY <1>1, <1>3, <1>7, GoneWell


-----------------------------------------------------------------------------
(* The steps, and the theorem.                                             *)

LEMMA ServeGoes ==
  ASSUME FlightInv, NEW w \in Workers, Here(w), now' = now, Serve(w)
  PROVE  There(w)
  <1>1. CASE ReadRoom(w) \/ Authenticate(w) \/ Available(w) \/ ListUsers(w)
    BY <1>1, ReadRoomGoes, AuthenticateGoes, AvailableGoes, ListUsersGoes
  <1>2. CASE ReadCurrent(w) \/ SyncRoom(w) \/ SyncWrite(w) \/ RereadCurrent(w)
    BY <1>2, ReadCurrentGoes, SyncRoomGoes, SyncWriteGoes, RereadCurrentGoes
  <1>3. CASE CountUsers(w) \/ CreateUser(w) \/ DeleteUser(w) \/ CountLeft(w) \/ CloseRoom(w)
    BY <1>3, CountUsersGoes, CreateUserGoes, DeleteUserGoes, CountLeftGoes, CloseRoomGoes
  <1>4. CASE OpenFirst(w) \/ ResumeRound(w) \/ SetActive(w)
    BY <1>4, OpenFirstGoes, ResumeRoundGoes, SetActiveGoes
  <1>5. CASE Toggle(w) \/ MarkRound(w) \/ Progress(w) \/ OpenNext(w)
    BY <1>5, ToggleGoes, MarkRoundGoes, ProgressGoes, OpenNextGoes
  <1>6. CASE ReadRoundRow(w) \/ CheckStory(w) \/ InsertStory(w) \/ CheckVote(w) \/ InsertVote(w)
    BY <1>6, ReadRoundRowGoes, CheckStoryGoes, InsertStoryGoes, CheckVoteGoes, InsertVoteGoes
  <1>7. CASE ListStories(w) \/ ListVotes(w) \/ MarkWinner(w)
    BY <1>7, ListStoriesGoes, ListVotesGoes, MarkWinnerGoes
  <1>. QED
    BY <1>1, <1>2, <1>3, <1>4, <1>5, <1>6, <1>7 DEF Serve

LEMMA ReceiveGoes ==
  ASSUME FlightInv, served = Snapshot, Tidy(Idle, Snapshot), NEW w \in Workers, Receive(w)
  PROVE  There(w) /\ req'[w].pc # "idle"
  <1>1. PICK op \in Ops, p \in Players \cup {NoPlayer}, i \in 0..Len(rounds),
             s \in 0..Len(stories) : Arrive(w, op, p, i, s)
    BY DEF Receive
  <1> DEFINE pc == IF op \in RoundOps THEN "readRound" ELSE "readRoom"
             q  == [Idle EXCEPT !.op = op, !.who = p, !.at = i, !.story = s, !.pc = pc]
  <1>2. req'[w] = q /\ Snapshot' = served
    BY <1>1, RequestGoes, RowsNow DEF Arrive
  <1>3. q.pc = pc /\ q.op = op /\ q.who = p /\ q.at = i /\ q.story = s
    BY DEF Idle
  <1>4. /\ pc = IF op \in RoundOps THEN "readRound" ELSE "readRoom"
        /\ op \in AllOps
    BY BurstAssumption
  <1> HIDE DEF q, pc
  <1>5. /\ served.room.status # "none" /\ room.hostID \in Players
        /\ served.room = room /\ served.user = user /\ served.rounds = rounds
        /\ served.stories = stories
    BY <1>1, RowsNow DEF Arrive, Tidy
  <1>6. Untouched(q) /\ CopiesFresh(q, served)
    BY <1>3, <1>4 DEF Untouched, CopiesFresh, OnRow
  <1>7. Entitled(q, served)
    <2>1. op \in HostOps => p = room.hostID
      BY <1>1 DEF Arrive, HostOps
    <2>2. op = "join" => user[p] = "absent"
      BY <1>1 DEF Arrive, Outsiders, HostOps
    <2>3. op \in RoundOps => i \in DOMAIN rounds
      BY <1>1 DEF Arrive
    <2>4. op = "vote" => s \in DOMAIN stories
      BY <1>1 DEF Arrive
    <2>5. op \in HostOps \cup {"leave"} => pc = "readRoom"
      BY <1>4 DEF HostOps, RoundOps
    <2>. QED
      BY <1>3, <1>5, <2>1, <2>2, <2>3, <2>4, <2>5 DEF Entitled
  <1>8. Passed(now, q, served)
    BY <1>3, <1>4 DEF Passed
  <1>9. Tidy(q, served)
    BY TidyKept, IdlePc
  <1>. QED
    BY <1>2, <1>6, <1>7, <1>8, <1>9, UntouchedStage DEF There, Going

\* What becomes of the rows served, and of the other workers.
LEMMA OneInFlight ==
  ASSUME FlightInv, NEW w \in Workers, \A v \in Workers \ {w} : req[v] = Idle,
         Effect(w), There(w), now' = now, UNCHANGED arrived,
         served' = IF Quiescent' THEN Snapshot' ELSE served
  PROVE  SerialInv' /\ [Serial!Next]_(Serial!vars)
  <1>1. FlightInv' /\ (req'[w].pc = "idle" <=> req'[w] = Idle)
    <2>1. FlightInv'
      BY EffectKeeps DEF FlightInv
    <2>2. Fits(req'[w], now', rounds', stories')
      BY DEF Effect
    <2>. QED
      BY <2>1, <2>2 DEF Fits
  <1>2. \A v \in Workers \ {w} : req'[v] = Idle
    BY DEF FlightInv, Effect
  <1>3. Quiescent' <=> req'[w] = Idle
    BY <1>2 DEF Quiescent
  <1>4. CASE req'[w] = Idle
    <2>1. served' = Snapshot' /\ \A v \in Workers : req'[v] = Idle
      BY <1>2, <1>3, <1>4
    <2>2. Tidy(Idle, Snapshot') /\ Whole(now, served, Snapshot')
      BY <1>4, IdlePc DEF There, Going
    <2>3. [Serial!Next]_(Serial!vars)
      BY <2>1, <2>2, WholeIsStep
    <2>. QED
      BY <1>1, <2>1, <2>2, <2>3 DEF SerialInv
  <1>5. CASE req'[w] # Idle
    <2>1. served' = served /\ ~Quiescent'
      BY <1>3, <1>5
    <2>2. Going(now, req[w], served, Snapshot)'
      BY <2>1 DEF There
    <2>3. UNCHANGED Serial!vars
      BY <2>1 DEF Serial!vars
    <2>4. \A v \in Workers : v = w \/ req'[v] = Idle
      BY <1>2
    <2>5. \A v \in Workers :
            /\ Going(now, req[v], served, Snapshot)' \/ req'[v] = Idle
            /\ req'[v] # Idle => \A u \in Workers \ {v} : req'[u] = Idle
      BY <2>2, <2>4
    <2>6. SerialInv'
      BY <1>1, <2>1, <2>5 DEF SerialInv
    <2>. QED
      BY <2>3, <2>6
  <1>. QED
    BY <1>4, <1>5

LEMMA ServedRoom ==
  ASSUME served = Snapshot
  PROVE  /\ served.room = room /\ served.user = user /\ served.rounds = rounds
         /\ served.stories = stories /\ served.votes = votes
  BY DEF Snapshot

\* Between requests time passes, and a room is created, as in ClassicRoom.
LEMMA QuietStep ==
  ASSUME SerialInv, Quiescent, UNCHANGED <<req, arrived>>,
         Tick \/ \E p \in Players : CreateRoom(p),
         served' = IF Quiescent' THEN Snapshot' ELSE served
  PROVE  SerialInv' /\ [Serial!Next]_(Serial!vars)
  <1>1. FlightInv /\ served = Snapshot /\ Tidy(Idle, Snapshot)
    BY DEF SerialInv
  <1>2. Quiescent' /\ served' = Snapshot' /\ \A w \in Workers : req'[w] = Idle
    BY DEF Quiescent
  <1>3. CASE Tick
    <2>1. FlightInv'
      BY <1>1, <1>3, TickKeepsRequests
    <2>2. Snapshot' = Snapshot
      BY <1>3 DEF Tick, Snapshot
    <2>3. Serial!Tick
      BY <1>1, <1>2, <1>3, <2>2, ServedRoom DEF Tick, Serial!Tick
    <2>. QED
      BY <1>1, <1>2, <2>1, <2>2, <2>3 DEF SerialInv, Serial!Next
  <1>4. ASSUME NEW p \in Players, CreateRoom(p)
        PROVE  SerialInv' /\ [Serial!Next]_(Serial!vars)
    <2>1. /\ room.status = "none"
          /\ room' = [status |-> "waiting", hostID |-> p, expiresAt |-> now + Expiration]
          /\ user' = [user EXCEPT ![p] = "member"]
          /\ UNCHANGED <<now, rounds, stories, votes>>
      BY <1>4 DEF CreateRoom
    <2>2. TypeOK' /\ RoundsChain'
      <3>1. room' \in Rooms
        BY <1>1, <2>1, TimesAssumption DEF FlightInv, TypeOK, Rooms, RoomStatus
      <3>2. user' \in [Players -> {"absent", "member", "gone"}]
        BY <1>1, <2>1 DEF FlightInv, TypeOK
      <3>. QED
        BY <1>1, <2>1, <3>1, <3>2 DEF FlightInv, TypeOK, RoundsChain
    <2>3. FlightInv'
      BY <1>1, <2>1, <2>2 DEF FlightInv
    <2>4. Tidy(Idle, Snapshot')
      <3>1. /\ Snapshot.room = room /\ Snapshot.rounds = rounds
            /\ Snapshot'.room = room' /\ Snapshot'.rounds = rounds'
        BY DEF Snapshot
      <3>2. rounds = <<>>
        BY <1>1, <2>1, <3>1, IdlePc DEF Tidy
      <3>. QED
        BY <2>1, <3>1, <3>2 DEF Tidy
    <2>5. Serial!CreateRoom(p)
      <3>1. /\ (served.room)' = room' /\ (served.user)' = user' /\ (served.rounds)' = rounds'
            /\ (served.stories)' = stories' /\ (served.votes)' = votes'
        BY <1>2 DEF Snapshot
      <3>. QED
        BY <1>1, <2>1, <3>1, ServedRoom DEF Serial!CreateRoom
    <2>. QED
      BY <1>2, <2>3, <2>4, <2>5 DEF SerialInv, Serial!Next
  <1>. QED
    BY <1>3, <1>4

LEMMA SerialStep ==
  ASSUME SerialInv, SNext
  PROVE  SerialInv' /\ [Serial!Next]_(Serial!vars)
  <1>1. FlightInv /\ UNCHANGED arrived /\ served' = IF Quiescent' THEN Snapshot' ELSE served
    BY DEF SerialInv, SNext
  <1>2. CASE Quiescent /\ UNCHANGED req /\ (Tick \/ \E p \in Players : CreateRoom(p))
    BY <1>1, <1>2, QuietStep
  <1>3. ASSUME Quiescent, NEW w \in Workers, Receive(w), UNCHANGED now
        PROVE  SerialInv' /\ [Serial!Next]_(Serial!vars)
    <2>1. served = Snapshot /\ Tidy(Idle, Snapshot) /\ \A v \in Workers \ {w} : req[v] = Idle
      BY <1>3 DEF SerialInv, Quiescent
    <2>. QED
      BY <1>1, <1>3, <2>1, ReceiveGoes, ArriveEffect, OneInFlight
  <1>4. ASSUME NEW w \in Workers, Serve(w), UNCHANGED now
        PROVE  SerialInv' /\ [Serial!Next]_(Serial!vars)
    <2>1. req[w].pc # "idle" /\ req[w] # Idle
      BY <1>4, CallInFlight, IdlePc
    <2>2. Here(w) /\ \A v \in Workers \ {w} : req[v] = Idle
      BY <2>1 DEF SerialInv, Here
    <2>. QED
      BY <1>1, <1>4, <2>2, ServeGoes, ServeEffect, OneInFlight
  <1>. QED
    BY <1>1, <1>2, <1>3, <1>4 DEF SNext

LEMMA SerialStutter ==
  ASSUME SerialInv, UNCHANGED svars
  PROVE  SerialInv' /\ [Serial!Next]_(Serial!vars)
  <1>1. /\ UNCHANGED <<now, room, user, rounds, stories, votes, req, arrived, served>>
        /\ Snapshot' = Snapshot
    BY DEF svars, cvars, vars, Snapshot
  <1>2. FlightInv'
    BY <1>1 DEF SerialInv, FlightInv, TypeOK, RoundsChain
  <1>3. UNCHANGED Serial!vars
    BY <1>1 DEF Serial!vars
  <1>. QED
    BY <1>1, <1>2, <1>3 DEF SerialInv, Quiescent

LEMMA SerialStart ==
  ASSUME SInit
  PROVE  SerialInv /\ Serial!Init
  <1>1. FlightInv /\ served = Snapshot /\ Init /\ \A w \in Workers : req[w] = Idle
    BY CInitInv, BurstInFlight DEF SInit, CInit
  <1>2. Serial!Init
    BY <1>1, ServedRoom DEF Init, Serial!Init
  <1>3. Tidy(Idle, Snapshot)
    BY <1>1 DEF Tidy, Snapshot, Init
  <1>. QED
    BY <1>1, <1>2, <1>3 DEF SerialInv

\* Requests served one at a time are atomic, for any number of players, rounds
\* and workers and with either kind of repository: whatever a handler does call
\* by call, from copies of the rows, amounts to the one step, or none, that
\* ClassicRoom has for it.  What may go wrong in ClassicConcurrent is therefore
\* the work of requests that overlap, and of nothing else.
THEOREM SerialImplementsRoom == SSpec => ImplementsRoom
  <1>1. SSpec => []SerialInv
    BY SerialStart, SerialStep, SerialStutter, PTL DEF SSpec
  <1>2. SerialInv /\ [SNext]_svars => [Serial!Next]_(Serial!vars)
    BY SerialStep, SerialStutter
  <1>3. SInit => Serial!Init
    BY SerialStart
  <1>. QED
    BY <1>1, <1>2, <1>3, PTL DEF SSpec, ImplementsRoom, Serial!Spec

=============================================================================
