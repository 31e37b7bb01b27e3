------------------------- MODULE ClassicRoomProofs -------------------------
(***************************************************************************)
(* The inductive invariant of ClassicRoom and the theorems that follow.    *)
(*                                                                         *)
(* Every handler is a composition of functions on a game (a room and its   *)
(* rounds), so the argument is about games: each function keeps a sound    *)
(* game sound and only moves its rounds forward.  The actions then follow  *)
(* one by one.  Then they are shown to live the life of RoomLife, and the  *)
(* last part is about stories and votes, and a room past its lifetime.     *)
(***************************************************************************)
EXTENDS ClassicRoom, FiniteSetTheorems, WellFoundedInduction, TLAPS

Games == [room : Rooms, rounds : Seq(Rounds)]

\* The parts of the invariant that speak of a game alone; hostHere says
\* whether the host is still a member.
SoundRounds(g) ==
  \A i \in 1..Len(g.rounds) :
    /\ g.rounds[i].pausedAt <= now
    /\ g.rounds[i].number = i /\ i <= MaxRounds
    /\ i < Len(g.rounds) => g.rounds[i].status = "revealed"

SoundStatus(g, hostHere) ==
  /\ g.room.status \in {"none", "waiting"} => Len(g.rounds) = 0
  /\ g.room.status \in {"active", "paused"} => Len(g.rounds) # 0
  /\ g.room.status = "finished" /\ hostHere =>
       Len(g.rounds) = MaxRounds /\ g.rounds[MaxRounds].status = "revealed"
  /\ g.room.status = "active" => g.rounds[Len(g.rounds)].pausedAt = NoTime

Sound(g, hostHere) == g \in Games /\ SoundRounds(g) /\ SoundStatus(g, hostHere)

\* Rounds are added and moved on, never withdrawn or moved back.
Forward(g, h) ==
  /\ Len(g.rounds) <= Len(h.rounds)
  /\ \A i \in 1..Len(g.rounds) : Phase(g.rounds[i].status) <= Phase(h.rounds[i].status)

\* What a handler may do to a game: keep it sound, keep its host, move forward,
\* and neither make nor unmake the room.
Step(g, h, hostHere) ==
  /\ Sound(h, hostHere)
  /\ Forward(g, h)
  /\ h.room.hostID = g.room.hostID
  /\ g.room.status # "none" => h.room.status # "none"

HostHere == user[room.hostID] = "member"

HostKnown ==
  IF room.status = "none"
    THEN \A p \in Players : user[p] = "absent"
    ELSE room.hostID \in Players /\ user[room.hostID] # "absent"

RowsTyped ==
  /\ now \in Nat
  /\ user \in [Players -> {"absent", "member", "gone"}]
  /\ stories \in Seq(Stories)
  /\ votes \in Seq(Votes)

Inv == RowsTyped /\ HostKnown /\ Sound(game, HostHere)

-----------------------------------------------------------------------------
(* The functions of the lifecycle keep a game sound and move it forward.   *)

LEMMA RowAt ==
  ASSUME NEW g \in Games
  PROVE  /\ g.rounds \in Seq(Rounds) /\ Len(g.rounds) \in Nat
         /\ \A i \in 1..Len(g.rounds) :
              g.rounds[i] \in Rounds /\ g.rounds[i].status \in RoundStatus
  <1>1. g.rounds \in Seq(Rounds) /\ Len(g.rounds) \in Nat
    BY DEF Games
  <1>2. ASSUME NEW i \in 1..Len(g.rounds)
        PROVE  g.rounds[i] \in Rounds
    BY <1>1
  <1>3. \A round \in Rounds : round.status \in RoundStatus
    BY DEF Rounds
  <1>. QED
    BY <1>1, <1>2, <1>3

\* Changing the status of the room changes nothing else.
LEMMA WithStatusGame ==
  ASSUME NEW g \in Games, NEW status \in RoomStatus
  PROVE  /\ WithStatus(g, status) \in Games
         /\ WithStatus(g, status).rounds = g.rounds
         /\ WithStatus(g, status).room.status = status
         /\ WithStatus(g, status).room.hostID = g.room.hostID
  BY DEF Games, Rooms, WithStatus

LEMMA AppendRow ==
  ASSUME NEW S, NEW seq \in Seq(S), NEW row \in S
  PROVE  /\ Append(seq, row) \in Seq(S)
         /\ Len(Append(seq, row)) = Len(seq) + 1
         /\ Append(seq, row)[Len(seq) + 1] = row
         /\ \A i \in 1..Len(seq) : Append(seq, row)[i] = seq[i]
  OBVIOUS

LEMMA ReplaceRow ==
  ASSUME NEW S, NEW seq \in Seq(S), NEW row \in S, NEW i \in 1..Len(seq)
  PROVE  [seq EXCEPT ![i] = row] \in Seq(S)
  OBVIOUS

LEMMA ReplaceNothing ==
  ASSUME NEW S, NEW T, NEW f \in [S -> T], NEW row, NEW i, i \notin S
  PROVE  [f EXCEPT ![i] = row] = f
  <1>1. \A j \in S : [f EXCEPT ![i] = row][j] = f[j]
    OBVIOUS
  <1>2. [f EXCEPT ![i] = row] = [j \in S |-> f[j]]
    BY <1>1
  <1>. QED
    BY <1>2

LEMMA ForwardTransitive ==
  ASSUME NEW g \in Games, NEW h \in Games, NEW k \in Games, Forward(g, h), Forward(h, k)
  PROVE  Forward(g, k)
  <1>1. /\ Len(g.rounds) \in Nat /\ Len(h.rounds) \in Nat /\ Len(k.rounds) \in Nat
    BY DEF Games
  <1>2. ASSUME NEW i \in 1..Len(g.rounds)
        PROVE  Phase(g.rounds[i].status) <= Phase(k.rounds[i].status)
    <2>1. i \in 1..Len(h.rounds) /\ i \in 1..Len(k.rounds)
      BY <1>1 DEF Forward
    <2>2. /\ g.rounds[i].status \in RoundStatus
          /\ h.rounds[i].status \in RoundStatus
          /\ k.rounds[i].status \in RoundStatus
      BY <2>1, RowAt
    <2>3. /\ Phase(g.rounds[i].status) \in Nat
          /\ Phase(h.rounds[i].status) \in Nat
          /\ Phase(k.rounds[i].status) \in Nat
      BY <2>2 DEF RoundStatus, Phase
    <2>4. /\ Phase(g.rounds[i].status) <= Phase(h.rounds[i].status)
          /\ Phase(h.rounds[i].status) <= Phase(k.rounds[i].status)
      BY <2>1 DEF Forward
    <2>. QED
      BY <2>3, <2>4
  <1>3. Len(g.rounds) <= Len(k.rounds)
    BY <1>1 DEF Forward
  <1>. QED
    BY <1>2, <1>3 DEF Forward

\* A step followed by a step is a step.
LEMMA StepTransitive ==
  ASSUME NEW hostHere \in BOOLEAN, NEW g \in Games, NEW h, NEW k,
         Step(g, h, hostHere), Step(h, k, hostHere)
  PROVE  Step(g, k, hostHere)
  <1>1. h \in Games /\ k \in Games
    BY DEF Step, Sound
  <1>2. Forward(g, k)
    BY <1>1, ForwardTransitive DEF Step
  <1>. QED
    BY <1>2 DEF Step

\* Leaving the game alone is a step.
LEMMA StepRefl ==
  ASSUME NEW hostHere \in BOOLEAN, NEW g, Sound(g, hostHere)
  PROVE  Step(g, g, hostHere)
  <1>1. \A i \in 1..Len(g.rounds) : g.rounds[i].status \in RoundStatus
    BY RowAt DEF Sound
  <1>2. Forward(g, g)
    BY <1>1, RowAt DEF Forward, Phase, RoundStatus, Sound
  <1>. QED
    BY <1>2 DEF Step

\* Any change of status that the progress of the game allows is a step.
LEMMA StatusStep ==
  ASSUME NEW hostHere \in BOOLEAN, NEW g, NEW status \in RoomStatus,
         Sound(g, hostHere), status # "none",
         SoundStatus(WithStatus(g, status), hostHere)
  PROVE  Step(g, WithStatus(g, status), hostHere)
  <1> DEFINE h == WithStatus(g, status)
  <1>1. h \in Games /\ h.rounds = g.rounds
        /\ h.room.hostID = g.room.hostID /\ h.room.status = status
    BY DEF Sound, Games, Rooms, WithStatus
  <1>2. Forward(g, g)
    BY StepRefl DEF Step
  <1>3. SoundRounds(h) /\ Forward(g, h)
    BY <1>1, <1>2 DEF Sound, SoundRounds, Forward
  <1>. QED
    BY <1>1, <1>3 DEF Step, Sound

\* Rewriting one round with a row of the same number that is not behind it and
\* not paused in the future, in a room that need not be active, is a step.
LEMMA RoundStep ==
  ASSUME NEW hostHere \in BOOLEAN, NEW g, Sound(g, hostHere),
         NEW i \in 1..Len(g.rounds), NEW round \in Rounds,
         round.number = g.rounds[i].number,
         Phase(g.rounds[i].status) <= Phase(round.status),
         round.pausedAt <= now,
         g.room.status = "active" => round.pausedAt = NoTime
  PROVE  Step(g, WithRound(g, i, round), hostHere)
  <1> DEFINE h == WithRound(g, i, round)
  <1>1. /\ g \in Games /\ h \in Games
        /\ h.room = g.room
        /\ h.rounds = [g.rounds EXCEPT ![i] = round]
        /\ Len(h.rounds) = Len(g.rounds)
        /\ Len(g.rounds) \in Nat
    BY DEF Sound, Games, WithRound
  <1>2. \A j \in 1..Len(g.rounds) : h.rounds[j] = IF j = i THEN round ELSE g.rounds[j]
    BY <1>1 DEF Games
  <1>3. \A j \in 1..Len(g.rounds) : g.rounds[j].status \in RoundStatus
    BY <1>1, RowAt
  <1>4. round.status \in RoundStatus
    BY DEF Rounds
  <1>5. g.rounds[i].status = "revealed" => round.status = "revealed"
    BY <1>3, <1>4 DEF RoundStatus, Phase
  <1>6. Forward(g, h)
    <2>1. ASSUME NEW j \in 1..Len(g.rounds)
          PROVE  Phase(g.rounds[j].status) <= Phase(h.rounds[j].status)
      <3>1. CASE j = i
        BY <3>1, <1>2
      <3>2. CASE j # i
        BY <3>2, <1>2, <1>3 DEF Phase, RoundStatus
      <3>. QED
        BY <3>1, <3>2
    <2>. QED
      BY <2>1, <1>1 DEF Forward
  <1>7. SoundRounds(h)
    BY <1>1, <1>2, <1>5 DEF Sound, SoundRounds
  <1>8. SoundStatus(h, hostHere)
    <2>1. MaxRounds \in Nat \ {0}
      BY LimitsAssumption
    <2>. QED
      BY <2>1, <1>1, <1>2, <1>5 DEF Sound, SoundStatus
  <1>. QED
    BY <1>1, <1>6, <1>7, <1>8 DEF Step, Sound

\* Opening a round after the last one is revealed, in a room that becomes active.
LEMMA OpenStep ==
  ASSUME NEW hostHere \in BOOLEAN, NEW g, Sound(g, hostHere), now \in Nat,
         NEW number \in Nat \ {0}, number = Len(g.rounds) + 1, number <= MaxRounds,
         Len(g.rounds) # 0 => g.rounds[Len(g.rounds)].status = "revealed"
  PROVE  Step(g, Opened(g, number), hostHere)
  <1> DEFINE h == Opened(g, number)
             k == [g EXCEPT !.rounds = Append(@, NewRound(number))]
  <1>1. NewRound(number) \in Rounds
    BY TimesAssumption DEF NewRound, Rounds, RoundStatus, NoTime
  <1>2. g \in Games /\ Len(g.rounds) \in Nat
    BY RowAt DEF Sound
  <1>3. k \in Games /\ k.room = g.room /\ k.rounds = Append(g.rounds, NewRound(number))
    BY <1>1, <1>2, AppendRow DEF Games
  <1>4. h = WithStatus(k, "active") /\ "active" \in RoomStatus
    BY DEF Opened, RoomStatus
  <1> HIDE DEF h, k
  <1>5. /\ h \in Games /\ h.rounds = Append(g.rounds, NewRound(number))
        /\ h.room.hostID = g.room.hostID /\ h.room.status = "active"
    BY <1>3, <1>4, WithStatusGame
  <1>6. Len(h.rounds) = Len(g.rounds) + 1
        /\ h.rounds[Len(h.rounds)] = NewRound(number)
        /\ \A i \in 1..Len(g.rounds) : h.rounds[i] = g.rounds[i]
    BY <1>1, <1>2, <1>5, AppendRow, RowAt
  <1>7. Forward(g, h)
    <2>1. Forward(g, g)
      BY StepRefl DEF Step
    <2>2. ASSUME NEW i \in 1..Len(g.rounds)
          PROVE  Phase(g.rounds[i].status) <= Phase(h.rounds[i].status)
      BY <2>1, <1>6 DEF Forward
    <2>. QED
      BY <2>2, <1>2, <1>6 DEF Forward
  <1>8. SoundRounds(h)
    <2>1. ASSUME NEW i \in 1..Len(h.rounds)
          PROVE  /\ h.rounds[i].pausedAt <= now
                 /\ h.rounds[i].number = i /\ i <= MaxRounds
                 /\ i < Len(h.rounds) => h.rounds[i].status = "revealed"
      <3>1. CASE i = Len(h.rounds)
        BY <3>1, <1>2, <1>6 DEF NewRound, NoTime
      <3>2. CASE i # Len(h.rounds)
        <4>1. i \in 1..Len(g.rounds) /\ i < Len(h.rounds)
          BY <3>2, <1>2, <1>6
        <4>2. h.rounds[i] = g.rounds[i] /\ Len(g.rounds) # 0
          BY <4>1, <1>6, <1>2
        <4>3. i < Len(g.rounds) => g.rounds[i].status = "revealed"
          BY <4>1 DEF Sound, SoundRounds
        <4>4. g.rounds[i].status = "revealed"
          BY <4>1, <4>2, <4>3, <1>2
        <4>. QED
          BY <4>1, <4>2, <4>4 DEF Sound, SoundRounds
      <3>. QED
        BY <3>1, <3>2
    <2>. QED
      BY <2>1 DEF SoundRounds
  <1>9. SoundStatus(h, hostHere)
    BY <1>2, <1>5, <1>6 DEF SoundStatus, NewRound
  <1>. QED
    BY <1>5, <1>7, <1>8, <1>9 DEF Step, Sound, h

\* ensureRoomAvailable, and the first half of SyncRound.
LEMMA ExpireStep ==
  ASSUME NEW hostHere \in BOOLEAN, NEW g, Sound(g, hostHere)
  PROVE  Step(g, Expire(g), hostHere)
  <1>1. SoundStatus(WithStatus(g, "expired"), hostHere)
    BY DEF Sound, Games, Rooms, WithStatus, SoundStatus
  <1>2. Step(g, WithStatus(g, "expired"), hostHere)
    BY <1>1, StatusStep DEF RoomStatus
  <1>. QED
    BY <1>2, StepRefl DEF Expire

\* The rows that the lifecycle writes in the place of a row.
Succeeds(round, next) ==
  /\ next \in Rounds /\ next.number = round.number
  /\ next.pausedAt <= now
  /\ Phase(round.status) <= Phase(next.status)

LEMMA LifecycleRows ==
  ASSUME NEW round \in Rounds, now \in Nat, round.pausedAt <= now
  PROVE  /\ Succeeds(round, Advanced(round))
         /\ Succeeds(round, Resumed(round))
         /\ Succeeds(round, [round EXCEPT !.pausedAt = now])
         /\ round.status # "revealed" => Advanced(round).pausedAt = NoTime
         /\ Resumed(round).pausedAt = NoTime
  <1>1. VoteTime \in Nat \ {0} /\ round.status \in RoundStatus
    BY TimesAssumption DEF Rounds
  <1>2. /\ Advanced(round) \in Rounds /\ Advanced(round).number = round.number
        /\ Advanced(round).pausedAt <= now
        /\ Phase(round.status) <= Phase(Advanced(round).status)
        /\ round.status # "revealed" => Advanced(round).pausedAt = NoTime
    <2>1. CASE round.status = "writing"
      <3>1. Advanced(round) = ToVoting(round)
        BY <2>1 DEF Advanced
      <3>2. /\ ToVoting(round) \in Rounds /\ ToVoting(round).number = round.number
            /\ ToVoting(round).pausedAt = NoTime /\ ToVoting(round).status = "voting"
        <4> DEFINE deadline == now + VoteTime
        <4>1. deadline \in Nat
          BY <1>1
        <4>2. ToVoting(round) = [round EXCEPT !.status = "voting",
                                              !.phaseEndsAt = deadline,
                                              !.pausedAt = NoTime]
          BY DEF ToVoting
        <4> HIDE DEF deadline
        <4>. QED
          BY <4>1, <4>2 DEF Rounds, RoundStatus
      <3>. QED
        BY <2>1, <3>1, <3>2 DEF Phase, NoTime
    <2>2. CASE round.status = "voting"
      <3>1. Advanced(round) = ToRevealed(round)
        BY <2>2 DEF Advanced
      <3>2. /\ ToRevealed(round) \in Rounds /\ ToRevealed(round).number = round.number
            /\ ToRevealed(round).pausedAt = NoTime /\ ToRevealed(round).status = "revealed"
        BY DEF ToRevealed, Rounds, RoundStatus, NoTime
      <3>. QED
        BY <2>2, <3>1, <3>2 DEF Phase, NoTime
    <2>3. CASE round.status = "revealed"
      BY <2>3 DEF Advanced, Phase
    <2>. QED
      BY <1>1, <2>1, <2>2, <2>3 DEF RoundStatus
  <1>3. Resumed(round) \in Rounds /\ Resumed(round).number = round.number
        /\ Resumed(round).pausedAt = NoTime /\ NoTime <= now
        /\ Resumed(round).status = round.status
    <2>1. CASE round.pausedAt = NoTime
      BY <2>1 DEF Resumed, NoTime
    <2>2. CASE round.pausedAt # NoTime
      <3> DEFINE time == Shifted(round.phaseEndsAt, now - round.pausedAt)
      <3>1. now - round.pausedAt \in Nat
        BY <2>2 DEF Rounds
      <3>2. time \in Nat \cup {NoTime}
        BY <3>1 DEF Shifted, Rounds
      <3>3. Resumed(round) = [round EXCEPT !.pausedAt = NoTime, !.phaseEndsAt = time]
        BY <2>2 DEF Resumed, Rounds
      <3> HIDE DEF time
      <3>4. [round EXCEPT !.pausedAt = NoTime, !.phaseEndsAt = time] \in Rounds
        BY <3>2 DEF Rounds
      <3>. QED
        BY <3>3, <3>4 DEF Rounds, NoTime
    <2>. QED
      BY <2>1, <2>2
  <1>4. [round EXCEPT !.pausedAt = now] \in Rounds
        /\ [round EXCEPT !.pausedAt = now].number = round.number
        /\ [round EXCEPT !.pausedAt = now].pausedAt = now
        /\ [round EXCEPT !.pausedAt = now].status = round.status
    BY DEF Rounds
  <1>5. Phase(round.status) \in Nat
    BY <1>1 DEF Phase, RoundStatus
  <1>. QED
    <2>1. Succeeds(round, Advanced(round))
      BY <1>2 DEF Succeeds
    <2>2. Succeeds(round, Resumed(round))
      BY <1>3, <1>5 DEF Succeeds
    <2>3. Succeeds(round, [round EXCEPT !.pausedAt = now])
      <3> DEFINE marked == [round EXCEPT !.pausedAt = now]
      <3> HIDE DEF marked
      <3>1. /\ marked \in Rounds /\ marked.number = round.number
            /\ marked.pausedAt = now /\ marked.status = round.status
        BY <1>4 DEF marked
      <3>2. Succeeds(round, marked)
        BY <3>1, <1>5 DEF Succeeds
      <3>. QED
        BY <3>2 DEF marked
    <2>. QED
      BY <2>1, <2>2, <2>3, <1>2, <1>3

LEMMA SyncRoundStep ==
  ASSUME NEW hostHere \in BOOLEAN, NEW g, Sound(g, hostHere), now \in Nat,
         NEW i \in 1..Len(g.rounds)
  PROVE  Step(g, SyncRound(g, i), hostHere)
  <1> DEFINE e == Expire(g)
             r == e.rounds[i]
  <1>1. Step(g, e, hostHere)
    BY ExpireStep
  <1>2. Sound(e, hostHere) /\ e \in Games /\ i \in 1..Len(e.rounds) /\ g \in Games
    BY <1>1, RowAt DEF Step, Sound, Forward
  <1>3. CASE ~Due(e, i)
    BY <1>3, <1>1 DEF SyncRound
  <1>4. CASE Due(e, i)
    <2>1. r \in Rounds /\ r.pausedAt <= now /\ r.pausedAt = NoTime
      BY <1>2, <1>4, RowAt DEF Sound, SoundRounds, Due
    <2>2. Advanced(r).pausedAt = NoTime
      BY <2>1, LifecycleRows DEF Advanced, Rounds, RoundStatus
    <2>3. Step(e, WithRound(e, i, Advanced(r)), hostHere)
      <3>1. Succeeds(r, Advanced(r))
        BY <2>1, LifecycleRows
      <3> HIDE DEF r, e
      <3>. QED
        BY <1>2, <2>2, <3>1, RoundStep DEF Succeeds, r
    <2>. QED
      BY <1>1, <1>2, <1>4, <2>3, StepTransitive DEF SyncRound
  <1>. QED
    BY <1>3, <1>4

LEMMA SyncCurrentStep ==
  ASSUME NEW hostHere \in BOOLEAN, NEW g, Sound(g, hostHere), now \in Nat
  PROVE  Step(g, SyncCurrent(g), hostHere)
  <1>1. g \in Games
    BY DEF Sound
  <1>2. CASE g.rounds = <<>>
    BY <1>2, StepRefl DEF SyncCurrent
  <1>3. CASE g.rounds # <<>>
    <2>1. Current(g) \in 1..Len(g.rounds)
      BY <1>1, <1>3 DEF Games, Current
    <2>. QED
      BY <1>3, <2>1, SyncRoundStep DEF SyncCurrent
  <1>. QED
    BY <1>2, <1>3

\* Synchronising a second time at the same instant changes nothing: the phase
\* just entered lasts, and a revealed round has no deadline.
LEMMA SyncIdempotent ==
  ASSUME NEW g \in Games, now \in Nat
  PROVE  SyncCurrent(SyncCurrent(g)) = SyncCurrent(g)
  <1> DEFINE i == Current(g)
             e == Expire(g)
             r == e.rounds[i]
             s == WithRound(e, i, Advanced(r))
  <1>1. CASE g.rounds = <<>>
    BY <1>1 DEF SyncCurrent
  <1>2. CASE g.rounds # <<>> /\ ~Due(e, i)
    <2>1. SyncCurrent(g) = e
      BY <1>2 DEF SyncCurrent, SyncRound
    <2>2. e.rounds = g.rounds /\ Expire(e) = e
      BY DEF Expire, WithStatus, Games, Rooms
    <2>3. SyncCurrent(e) = e
      BY <1>2, <2>2 DEF SyncCurrent, SyncRound, Current
    <2>. QED
      BY <2>1, <2>3
  <1>3. CASE g.rounds # <<>> /\ Due(e, i)
    <2>1. SyncCurrent(g) = s
      BY <1>3 DEF SyncCurrent, SyncRound
    <2>2. e \in Games /\ e.rounds = g.rounds /\ e.room.status = "active"
          /\ ~(now > e.room.expiresAt) /\ i \in 1..Len(e.rounds)
      <3>1. e \in Games /\ e.rounds = g.rounds
        BY WithStatusGame DEF Expire, RoomStatus
      <3>2. e.room.status = "active"
        BY <1>3 DEF Due
      <3>3. e = g /\ ~(now > g.room.expiresAt)
        BY <3>2, WithStatusGame DEF Expire, RoomStatus
      <3>4. i \in 1..Len(g.rounds)
        BY <1>3 DEF Current, Games
      <3>. QED
        BY <3>1, <3>2, <3>3, <3>4
    <2> HIDE DEF e
    <2>3. s.room = e.room /\ s.rounds = [e.rounds EXCEPT ![i] = Advanced(r)]
          /\ s.rounds # <<>> /\ Current(s) = i /\ s.rounds[i] = Advanced(r)
      BY <2>2 DEF WithRound, Games, Current
    <2>4. Expire(s) = s
      BY <2>2, <2>3 DEF Expire
    <2>5. r \in Rounds /\ r.status \in RoundStatus
      BY <2>2, RowAt
    <2>6. CASE r.status = "writing"
      <3>1. Advanced(r).phaseEndsAt = now + VoteTime
        BY <2>5, <2>6 DEF Advanced, ToVoting, Rounds
      <3>2. ~Due(s, i)
        BY <2>3, <3>1, TimesAssumption DEF Due
      <3>. QED
        BY <2>1, <2>3, <2>4, <3>2 DEF SyncCurrent, SyncRound
    <2>7. CASE r.status = "voting"
      <3>1. Advanced(r).phaseEndsAt = NoTime
        BY <2>5, <2>7 DEF Advanced, ToRevealed, Rounds
      <3>2. ~Due(s, i)
        BY <2>3, <3>1 DEF Due
      <3>. QED
        BY <2>1, <2>3, <2>4, <3>2 DEF SyncCurrent, SyncRound
    <2>8. CASE r.status = "revealed"
      <3>1. Advanced(r) = r /\ Advanced(Advanced(r)) = r
        BY <2>8 DEF Advanced
      <3>2. WithRound(s, i, Advanced(s.rounds[i])) = s
        <4>1. WithRound(e, i, r) = e
          <5>1. [e.rounds EXCEPT ![i] = r] = e.rounds
            BY <2>2 DEF Games
          <5>. QED
            BY <2>2, <5>1 DEF WithRound, Games
        <4>2. s = e /\ s.rounds[i] = r
          BY <3>1, <4>1
        <4>. QED
          BY <3>1, <4>1, <4>2
      <3>. QED
        BY <2>1, <2>3, <2>4, <3>2 DEF SyncCurrent, SyncRound
    <2>. QED
      BY <2>5, <2>6, <2>7, <2>8 DEF RoundStatus
  <1>. QED
    BY <1>1, <1>2, <1>3

\* PauseRound and StartGame: stop and restart the clock of the current round.
LEMMA PausedStep ==
  ASSUME NEW hostHere \in BOOLEAN, NEW g, Sound(g, hostHere), now \in Nat,
         g.room.status = "active"
  PROVE  Step(g, Paused(g), hostHere)
  <1> DEFINE i == Current(g)
             r == g.rounds[i]
             marked == [r EXCEPT !.pausedAt = now]
             stopped == WithStatus(g, "paused")
  <1>1. g \in Games /\ i \in 1..Len(g.rounds) /\ g.rounds # <<>>
    BY RowAt DEF Sound, SoundStatus, Current
  <1>2. Succeeds(r, marked)
    BY <1>1, RowAt, LifecycleRows DEF Sound, SoundRounds
  <1>3. Step(g, stopped, hostHere)
    <2>1. SoundStatus(stopped, hostHere)
      BY <1>1, WithStatusGame DEF Sound, SoundStatus, RoomStatus
    <2>. QED
      BY <2>1, StatusStep DEF RoomStatus
  <1>4. stopped.rounds = g.rounds /\ stopped.room.status = "paused" /\ Sound(stopped, hostHere)
    BY <1>1, <1>3, WithStatusGame DEF Step, RoomStatus
  <1>5. Paused(g) = WithRound(stopped, i, marked)
    BY <1>1 DEF Paused, OnCurrent, WithStatus, WithRound, Games
  <1> HIDE DEF marked, stopped, r
  <1>6. Step(stopped, WithRound(stopped, i, marked), hostHere)
    BY <1>1, <1>2, <1>4, RoundStep DEF Succeeds, r
  <1>. QED
    BY <1>1, <1>3, <1>5, <1>6, StepTransitive

LEMMA UnpausedStep ==
  ASSUME NEW hostHere \in BOOLEAN, NEW g, Sound(g, hostHere), now \in Nat,
         g.room.status = "paused"
  PROVE  Step(g, Unpaused(g), hostHere)
  <1> DEFINE i == Current(g)
             r == g.rounds[i]
             resumed == WithRound(g, i, Resumed(r))
  <1>1. g \in Games /\ i \in 1..Len(g.rounds) /\ g.rounds # <<>>
    BY RowAt DEF Sound, SoundStatus, Current
  <1>2. Succeeds(r, Resumed(r)) /\ Resumed(r).pausedAt = NoTime
    BY <1>1, RowAt, LifecycleRows DEF Sound, SoundRounds
  <1>3. Step(g, resumed, hostHere)
    <2> HIDE DEF r
    <2>. QED
      BY <1>1, <1>2, RoundStep DEF Succeeds, r
  <1>4. Unpaused(g) = WithStatus(resumed, "active")
    BY <1>1 DEF Unpaused, OnCurrent
  <1>5. resumed.rounds[i] = Resumed(r) /\ Len(resumed.rounds) = i /\ resumed \in Games
    BY <1>1, <1>3, RowAt DEF WithRound, Games, Current, Step, Sound
  <1> HIDE DEF resumed, r
  <1>6. Sound(resumed, hostHere)
    BY <1>3 DEF Step
  <1>7. SoundStatus(WithStatus(resumed, "active"), hostHere)
    BY <1>1, <1>2, <1>5, WithStatusGame DEF SoundStatus, RoomStatus
  <1>8. Step(resumed, WithStatus(resumed, "active"), hostHere)
    BY <1>6, <1>7, StatusStep DEF RoomStatus
  <1>. QED
    BY <1>1, <1>3, <1>4, <1>8, StepTransitive

\* NextRound on a room that has a round and has not expired.
LEMMA SteppedStep ==
  ASSUME NEW hostHere \in BOOLEAN, NEW g, Sound(g, hostHere), now \in Nat,
         g.rounds # <<>>
  PROVE  Step(g, Stepped(g), hostHere)
  <1> DEFINE i == Current(g)
             r == g.rounds[i]
  <1>1. g \in Games /\ i \in 1..Len(g.rounds) /\ i = Len(g.rounds)
    BY RowAt DEF Sound, Current, Games
  <1>2. r \in Rounds /\ r.status \in RoundStatus /\ r.pausedAt <= now
        /\ r.number = i /\ i <= MaxRounds
    BY <1>1, RowAt DEF Sound, SoundRounds
  <1>3. MaxRounds \in Nat
    BY LimitsAssumption
  <1>4. CASE r.status # "revealed"
    <2>1. Stepped(g) = WithRound(g, i, Advanced(r))
      BY <1>2, <1>4 DEF Stepped, Advanced, RoundStatus
    <2>2. Succeeds(r, Advanced(r)) /\ Advanced(r).pausedAt = NoTime
      BY <1>2, <1>4, LifecycleRows
    <2> HIDE DEF r
    <2>. QED
      BY <1>1, <2>1, <2>2, RoundStep DEF Succeeds, r
  <1>5. CASE r.status = "revealed" /\ r.number >= MaxRounds
    <2>1. Stepped(g) = WithStatus(g, "finished")
      BY <1>2, <1>3, <1>5 DEF Stepped, Rounds
    <2>2. SoundStatus(WithStatus(g, "finished"), hostHere)
      BY <1>1, <1>2, <1>3, <1>5, WithStatusGame DEF SoundStatus, RoomStatus
    <2>. QED
      BY <2>1, <2>2, StatusStep DEF RoomStatus
  <1>6. CASE r.status = "revealed" /\ r.number < MaxRounds
    <2>1. Stepped(g) = Opened(g, i + 1)
      BY <1>2, <1>3, <1>6 DEF Stepped, Rounds
    <2>. QED
      BY <1>1, <1>2, <1>3, <1>6, <2>1, OpenStep
  <1>. QED
    BY <1>2, <1>3, <1>4, <1>5, <1>6 DEF Rounds

-----------------------------------------------------------------------------
(* Every action keeps the invariant and moves the rounds forward.          *)

LEMMA GameParts ==
  ASSUME NEW g \in Games
  PROVE  g = [room |-> g.room, rounds |-> g.rounds]
  BY DEF Games

\* A request that ends by committing a game reached by a step.
LEMMA CommitKeeps ==
  ASSUME Inv, RowsTyped', now' = now, NEW h, Commit(h),
         Step(game, h, HostHere'),
         room.status # "none", user'[room.hostID] # "absent"
  PROVE  Inv' /\ Forward(game, game')
  <1>1. h \in Games /\ Sound(h, HostHere') /\ Forward(game, h)
        /\ h.room.hostID = room.hostID /\ h.room.status # "none"
    BY DEF Step, Sound, game
  <1>2. game' = h
    BY <1>1, GameParts DEF Commit, game
  <1>3. room' = h.room
    BY DEF Commit
  <1>4. HostKnown'
    BY <1>1, <1>3 DEF HostKnown, Inv
  <1>5. Sound(game, HostHere)'
    BY <1>1, <1>2 DEF Sound, SoundRounds, SoundStatus, Games, Rooms, Rounds
  <1>. QED
    BY <1>1, <1>2, <1>4, <1>5 DEF Inv

\* The same for the requests that change no user.
LEMMA CommitKeepsUsers ==
  ASSUME Inv, RowsTyped', now' = now, user' = user, NEW h, Commit(h),
         Step(game, h, HostHere), room.status # "none"
  PROVE  Inv' /\ Forward(game, game')
  <1>1. h.room.hostID = room.hostID /\ room' = h.room
    BY DEF Step, game, Commit
  <1>2. HostHere' = HostHere
    BY <1>1 DEF HostHere
  <1>3. user'[room.hostID] # "absent"
    BY DEF Inv, HostKnown
  <1>. QED
    BY <1>2, <1>3, CommitKeeps

\* Whoever is a member is a member of a room that exists.
LEMMA MemberOfRoom ==
  ASSUME Inv, NEW p \in Players, user[p] = "member"
  PROVE  room.status # "none"
  BY DEF Inv, HostKnown

LEMMA RoundOfRoom ==
  ASSUME Inv, NEW i \in DOMAIN rounds
  PROVE  room.status # "none" /\ i \in 1..Len(game.rounds)
  BY DEF Inv, Sound, SoundStatus, Games, game

LEMMA HostHereBoolean == HostHere \in BOOLEAN
  BY DEF HostHere

LEMMA SyncKeeps ==
  ASSUME Inv
  PROVE  /\ Sound(game, HostHere) /\ now \in Nat /\ game \in Games
         /\ Step(game, Expire(game), HostHere)
         /\ \A i \in 1..Len(game.rounds) : Step(game, SyncRound(game, i), HostHere)
  <1>1. Sound(game, HostHere) /\ now \in Nat /\ game \in Games
    BY DEF Inv, Sound, RowsTyped
  <1>. QED
    BY <1>1, HostHereBoolean, ExpireStep, SyncRoundStep

\* A step followed by the trailing synchronisation of a handler.
LEMMA ThenSync ==
  ASSUME NEW hostHere \in BOOLEAN, NEW g \in Games, NEW h, now \in Nat,
         Step(g, h, hostHere)
  PROVE  Step(g, SyncCurrent(h), hostHere)
  <1>1. Sound(h, hostHere)
    BY DEF Step
  <1>. QED
    BY <1>1, SyncCurrentStep, StepTransitive

LEMMA TickKeeps ==
  ASSUME Inv, Tick
  PROVE  Inv' /\ Forward(game, game')
  <1>1. game' = game /\ HostHere' = HostHere /\ now' \in Nat /\ now <= now'
        /\ HostKnown' /\ RowsTyped'
    BY DEF Tick, Inv, RowsTyped, HostKnown, HostHere, game
  <1>2. Sound(game, HostHere) /\ game \in Games /\ now \in Nat
    BY SyncKeeps
  <1>3. \A i \in 1..Len(game.rounds) : game.rounds[i].pausedAt \in Int
    BY <1>2, RowAt DEF Rounds, NoTime
  <1>4. SoundRounds(game)'
    BY <1>1, <1>2, <1>3 DEF Sound, SoundRounds
  <1>5. SoundStatus(game, HostHere)'
    BY <1>1, <1>2 DEF Sound, SoundStatus
  <1>6. Forward(game, game)
    BY <1>2, HostHereBoolean, StepRefl DEF Step
  <1>. QED
    BY <1>1, <1>2, <1>4, <1>5, <1>6 DEF Inv, Sound, Games, Rooms, Rounds

LEMMA CreateRoomKeeps ==
  ASSUME Inv, NEW p \in Players, CreateRoom(p)
  PROVE  Inv' /\ Forward(game, game')
  <1>1. /\ game.rounds = rounds /\ (game.rounds)' = rounds /\ Len(rounds) = 0
        /\ rounds \in Seq(Rounds)
    BY DEF CreateRoom, Inv, Sound, SoundStatus, Games, game
  <1>2. room'.status = "waiting" /\ room'.hostID = p /\ room' \in Rooms
    <2>1. now + Expiration \in Nat
      BY TimesAssumption DEF Inv, RowsTyped
    <2>. QED
      BY <2>1 DEF CreateRoom, Rooms, RoomStatus
  <1>3. RowsTyped' /\ HostKnown'
    BY <1>2 DEF CreateRoom, Inv, RowsTyped, HostKnown
  <1>4. Sound(game, HostHere)'
    <2>1. game' \in Games /\ (game.rounds)' = rounds /\ (game.room)' = room'
      BY <1>1, <1>2 DEF game, Games, CreateRoom
    <2>2. (game \in Games)'
      BY <2>1 DEF Games, Rooms, Rounds
    <2>3. SoundRounds(game)' /\ SoundStatus(game, HostHere)'
      BY <1>1, <1>2, <2>1 DEF SoundRounds, SoundStatus
    <2>. QED
      BY <2>2, <2>3 DEF Sound
  <1>5. Forward(game, game')
    BY <1>1 DEF Forward
  <1>. QED
    BY <1>3, <1>4, <1>5 DEF Inv

LEMMA GetRoomStateKeeps ==
  ASSUME Inv, GetRoomState
  PROVE  Inv' /\ Forward(game, game')
  <1>1. Step(game, SyncCurrent(Expire(game)), HostHere)
    BY SyncKeeps, HostHereBoolean, ThenSync
  <1>2. RowsTyped'
    BY DEF GetRoomState, Inv, RowsTyped
  <1>. QED
    BY <1>1, <1>2, CommitKeepsUsers DEF GetRoomState

LEMMA JoinRoomKeeps ==
  ASSUME Inv, NEW p \in Players, JoinRoom(p)
  PROVE  Inv' /\ Forward(game, game')
  <1> DEFINE g == Expire(game)
  <1>1. /\ room.status # "none" /\ room.hostID # p /\ room.hostID \in Players
        /\ user[room.hostID] # "absent" /\ user[p] = "absent"
    BY DEF JoinRoom, Inv, HostKnown
  <1>2. Step(game, g, HostHere) /\ Step(game, SyncCurrent(g), HostHere)
    BY SyncKeeps, HostHereBoolean, ThenSync
  <1>3. RowsTyped' /\ now' = now /\ user'[room.hostID] = user[room.hostID]
    BY <1>1 DEF JoinRoom, Inv, RowsTyped
  <1>4. PICK h \in {g, SyncCurrent(g)} : Commit(h)
    BY DEF JoinRoom
  <1> HIDE DEF g
  <1>5. Step(game, h, HostHere)
    BY <1>2
  <1>6. HostHere' = HostHere
    BY <1>3, <1>4, <1>5 DEF HostHere, Commit, Step, game
  <1>. QED
    BY <1>1, <1>3, <1>4, <1>5, <1>6, CommitKeeps

\* When the host leaves, or nobody stays, the room is closed without its host.
LEMMA LeaveRoomKeeps ==
  ASSUME Inv, NEW p \in Players, LeaveRoom(p)
  PROVE  Inv' /\ Forward(game, game')
  <1> DEFINE closes == Closes(p)
             closed == WithStatus(game, "finished")
             h == IF closes THEN closed ELSE game
  <1>1. Sound(game, HostHere) /\ now \in Nat /\ game \in Games
    BY SyncKeeps
  <1>2. room.status # "none" /\ room.hostID \in Players /\ user[room.hostID] # "absent"
    BY MemberOfRoom DEF LeaveRoom, Inv, HostKnown
  <1>3. /\ RowsTyped' /\ now' = now /\ user'[room.hostID] # "absent"
        /\ Commit(SyncCurrent(h))
    BY <1>2 DEF LeaveRoom, Inv, RowsTyped
  <1>4. room'.hostID = room.hostID
    <2>1. closed.room.hostID = room.hostID /\ game.room.hostID = room.hostID
      BY <1>1, WithStatusGame DEF RoomStatus, game
    <2>2. SyncCurrent(h).room.hostID = h.room.hostID
      <3>1. /\ h \in Games
            /\ SyncCurrent(h).room \in {h.room, Expire(h).room}
        BY <1>1, WithStatusGame DEF SyncCurrent, SyncRound, WithRound, RoomStatus, Games, Expire
      <3>2. Expire(h).room.hostID = h.room.hostID
        BY <3>1, WithStatusGame DEF Expire, RoomStatus
      <3>. QED
        BY <3>1, <3>2
    <2>. QED
      BY <1>3, <2>1, <2>2 DEF Commit
  <1>5. HostHere' \in BOOLEAN /\ (HostHere' => HostHere) /\ (closes => ~HostHere')
    BY <1>2, <1>4 DEF HostHere, LeaveRoom, Inv, RowsTyped, Members, Closes
  <1>6. Sound(game, HostHere')
    BY <1>1, <1>5 DEF Sound, SoundStatus
  <1>7. Step(game, h, HostHere')
    <2>1. CASE closes
      <3>1. SoundStatus(closed, HostHere')
        BY <1>1, <1>5, <2>1, WithStatusGame DEF SoundStatus, RoomStatus
      <3>. QED
        BY <1>5, <1>6, <2>1, <3>1, StatusStep DEF RoomStatus
    <2>2. CASE ~closes
      BY <1>5, <1>6, <2>2, StepRefl
    <2>. QED
      BY <2>1, <2>2
  <1> HIDE DEF h
  <1>8. Step(game, SyncCurrent(h), HostHere')
    BY <1>1, <1>5, <1>7, ThenSync
  <1>. QED
    BY <1>2, <1>3, <1>8, CommitKeeps

LEMMA StartGameKeeps ==
  ASSUME Inv, NEW p \in Players, StartGame(p)
  PROVE  Inv' /\ Forward(game, game')
  <1> DEFINE g == Expire(game)
  <1>1. Step(game, g, HostHere) /\ now \in Nat /\ game \in Games /\ HostHere \in BOOLEAN
    BY SyncKeeps, HostHereBoolean
  <1>2. RowsTyped' /\ now' = now /\ user' = user /\ room.status # "none"
    BY MemberOfRoom DEF StartGame, Inv, RowsTyped
  <1>3. Sound(g, HostHere) /\ g \in Games
    BY <1>1 DEF Step, Sound
  <1> HIDE DEF g
  <1>4. CASE g.room.status = "waiting" /\ Commit(SyncCurrent(Opened(g, 1)))
    <2>1. Len(g.rounds) = 0
      BY <1>3, <1>4 DEF Sound, SoundStatus
    <2>2. Step(g, Opened(g, 1), HostHere)
      BY <1>1, <1>3, <2>1, OpenStep, LimitsAssumption
    <2>3. Step(game, SyncCurrent(Opened(g, 1)), HostHere)
      BY <1>1, <1>3, <2>2, StepTransitive, ThenSync
    <2>. QED
      BY <1>2, <1>4, <2>3, CommitKeepsUsers
  <1>5. CASE g.room.status = "paused" /\ Commit(SyncCurrent(Unpaused(g)))
    <2>1. Step(g, Unpaused(g), HostHere)
      BY <1>1, <1>3, <1>5, UnpausedStep
    <2>2. Step(game, SyncCurrent(Unpaused(g)), HostHere)
      BY <1>1, <1>3, <2>1, StepTransitive, ThenSync
    <2>. QED
      BY <1>2, <1>5, <2>2, CommitKeepsUsers
  <1>6. CASE Commit(g)
    BY <1>1, <1>2, <1>6, CommitKeepsUsers
  <1>. QED
    BY <1>4, <1>5, <1>6 DEF StartGame, g

LEMMA PauseRoundKeeps ==
  ASSUME Inv, NEW p \in Players, PauseRound(p)
  PROVE  Inv' /\ Forward(game, game')
  <1>1. Sound(game, HostHere) /\ now \in Nat /\ game \in Games /\ HostHere \in BOOLEAN
    BY SyncKeeps, HostHereBoolean
  <1>2. RowsTyped' /\ now' = now /\ user' = user /\ room.status # "none"
    BY MemberOfRoom DEF PauseRound, Inv, RowsTyped
  <1>3. CASE game.room.status = "active" /\ Commit(SyncCurrent(Paused(game)))
    <2>1. Step(game, SyncCurrent(Paused(game)), HostHere)
      BY <1>1, <1>3, PausedStep, ThenSync
    <2>. QED
      BY <1>2, <1>3, <2>1, CommitKeepsUsers
  <1>4. CASE game.room.status = "paused" /\ Commit(SyncCurrent(Unpaused(game)))
    <2>1. Step(game, SyncCurrent(Unpaused(game)), HostHere)
      BY <1>1, <1>4, UnpausedStep, ThenSync
    <2>. QED
      BY <1>2, <1>4, <2>1, CommitKeepsUsers
  <1>. QED
    BY <1>3, <1>4 DEF PauseRound, game

LEMMA NextRoundKeeps ==
  ASSUME Inv, NEW p \in Players, NextRound(p)
  PROVE  Inv' /\ Forward(game, game')
  <1> DEFINE g == SyncCurrent(Expire(game))
  <1>1. /\ Step(game, g, HostHere) /\ now \in Nat
        /\ game \in Games /\ HostHere \in BOOLEAN
    BY SyncKeeps, HostHereBoolean, ThenSync
  <1>2. RowsTyped' /\ now' = now /\ user' = user /\ room.status # "none"
    BY MemberOfRoom DEF NextRound, Inv, RowsTyped
  <1>3. Sound(g, HostHere) /\ g \in Games
    BY <1>1 DEF Step, Sound
  <1> HIDE DEF g
  <1>4. CASE g.rounds # <<>> /\ Commit(SyncCurrent(Stepped(g)))
    <2>1. Step(game, Stepped(g), HostHere)
      BY <1>1, <1>3, <1>4, SteppedStep, StepTransitive
    <2>2. Step(game, SyncCurrent(Stepped(g)), HostHere)
      BY <1>1, <2>1, ThenSync
    <2>. QED
      BY <1>2, <1>4, <2>2, CommitKeepsUsers
  <1>5. CASE Commit(g)
    BY <1>1, <1>2, <1>5, CommitKeepsUsers
  <1>. QED
    BY <1>4, <1>5 DEF NextRound, g

\* The requests that only synchronise one round, whatever they do to ballots.
LEMMA BallotKeeps ==
  ASSUME Inv, NEW i \in DOMAIN rounds, Commit(SyncRound(game, i)),
         now' = now, user' = user,
         stories' \in Seq(Stories), votes' \in Seq(Votes)
  PROVE  Inv' /\ Forward(game, game')
  <1>1. Step(game, SyncRound(game, i), HostHere)
    BY RoundOfRoom, SyncKeeps
  <1>2. RowsTyped'
    BY DEF Inv, RowsTyped
  <1>. QED
    BY <1>1, <1>2, RoundOfRoom, CommitKeepsUsers

LEMMA SubmitStoryKeeps ==
  ASSUME Inv, NEW p \in Players, NEW i \in DOMAIN rounds, SubmitStory(p, i)
  PROVE  Inv' /\ Forward(game, game')
  <1> DEFINE story == [round |-> i, author |-> p, isRevealed |-> FALSE]
  <1>1. story \in Stories
    BY RoundOfRoom, SyncKeeps, RowAt DEF Stories
  <1>2. stories' = stories \/ stories' = Append(stories, story)
    BY DEF SubmitStory
  <1> HIDE DEF story
  <1>3. stories \in Seq(Stories) /\ votes \in Seq(Votes)
    BY DEF Inv, RowsTyped
  <1>4. votes' = votes
    BY DEF SubmitStory
  <1>5. stories' \in Seq(Stories) /\ votes' \in Seq(Votes)
    BY <1>1, <1>2, <1>3, <1>4, AppendRow
  <1>. QED
    BY <1>5, BallotKeeps DEF SubmitStory

LEMMA SubmitVoteKeeps ==
  ASSUME Inv, NEW p \in Players, NEW i \in DOMAIN rounds, NEW s \in DOMAIN stories,
         SubmitVote(p, i, s)
  PROVE  Inv' /\ Forward(game, game')
  <1> DEFINE vote == [round |-> i, voter |-> p, story |-> s]
  <1>1. vote \in Votes
    <2>1. i \in Nat \ {0}
      BY RoundOfRoom, SyncKeeps, RowAt
    <2>2. s \in Nat \ {0}
      BY DEF Inv, RowsTyped
    <2>. QED
      BY <2>1, <2>2 DEF Votes
  <1>2. votes' = votes \/ votes' = Append(votes, vote)
    BY DEF SubmitVote
  <1> HIDE DEF vote
  <1>3. stories \in Seq(Stories) /\ votes \in Seq(Votes)
    BY DEF Inv, RowsTyped
  <1>4. stories' = stories
    BY DEF SubmitVote
  <1>5. stories' \in Seq(Stories) /\ votes' \in Seq(Votes)
    BY <1>1, <1>2, <1>3, <1>4, AppendRow
  <1>. QED
    BY <1>5, BallotKeeps DEF SubmitVote

LEMMA GetTopStoryKeeps ==
  ASSUME Inv, NEW i \in DOMAIN rounds, GetTopStory(i)
  PROVE  Inv' /\ Forward(game, game')
  <1> DEFINE w == Winner(i)
             marked == [stories EXCEPT ![w].isRevealed = TRUE]
  <1>1. stories \in Seq(Stories) /\ votes' \in Seq(Votes)
    BY DEF Inv, RowsTyped, GetTopStory
  <1>2. stories' = stories \/ stories' = marked
    BY DEF GetTopStory
  <1>3. marked \in Seq(Stories)
    <2> HIDE DEF w
    <2>1. CASE w \in 1..Len(stories)
      <3> DEFINE row == [stories[w] EXCEPT !.isRevealed = TRUE]
      <3>1. row \in Stories
        <4>1. stories[w] \in Stories
          BY <1>1, <2>1
        <4>. QED
          BY <4>1 DEF Stories
      <3>2. marked = [stories EXCEPT ![w] = row]
        OBVIOUS
      <3> HIDE DEF row, marked
      <3>. QED
        BY <1>1, <2>1, <3>1, <3>2, ReplaceRow
    <2>2. CASE w \notin 1..Len(stories)
      <3>1. stories \in [1..Len(stories) -> Stories]
        BY <1>1
      <3> DEFINE row == [stories[w] EXCEPT !.isRevealed = TRUE]
      <3>2. marked = [stories EXCEPT ![w] = row]
        OBVIOUS
      <3> HIDE DEF row, marked
      <3>. QED
        BY <1>1, <2>2, <3>1, <3>2, ReplaceNothing
    <2>. QED
      BY <2>1, <2>2
  <1>4. stories' \in Seq(Stories)
    BY <1>1, <1>2, <1>3
  <1>. QED
    BY <1>1, <1>4, BallotKeeps DEF GetTopStory

-----------------------------------------------------------------------------
(* The theorems.                                                           *)

LEMMA InitInv == Init => Inv
  <1> SUFFICES ASSUME Init PROVE Inv
    OBVIOUS
  <1>1. RowsTyped /\ HostKnown
    BY DEF Init, RowsTyped, HostKnown
  <1>2. game \in Games /\ Len(game.rounds) = 0 /\ game.room.status = "none"
    BY DEF Init, game, Games, Rooms, RoomStatus
  <1>3. Sound(game, HostHere)
    BY <1>2 DEF Sound, SoundRounds, SoundStatus
  <1>. QED
    BY <1>1, <1>3 DEF Inv

LEMMA NextKeeps ==
  ASSUME Inv, Next
  PROVE  Inv' /\ Forward(game, game')
  <1>1. CASE Tick
    BY <1>1, TickKeeps
  <1>2. CASE GetRoomState
    BY <1>2, GetRoomStateKeeps
  <1>3. ASSUME NEW p \in Players, CreateRoom(p)
        PROVE  Inv' /\ Forward(game, game')
    BY <1>3, CreateRoomKeeps
  <1>4. ASSUME NEW p \in Players, JoinRoom(p)
        PROVE  Inv' /\ Forward(game, game')
    BY <1>4, JoinRoomKeeps
  <1>5. ASSUME NEW p \in Players, LeaveRoom(p)
        PROVE  Inv' /\ Forward(game, game')
    BY <1>5, LeaveRoomKeeps
  <1>6. ASSUME NEW p \in Players, StartGame(p)
        PROVE  Inv' /\ Forward(game, game')
    BY <1>6, StartGameKeeps
  <1>7. ASSUME NEW p \in Players, PauseRound(p)
        PROVE  Inv' /\ Forward(game, game')
    BY <1>7, PauseRoundKeeps
  <1>8. ASSUME NEW p \in Players, NextRound(p)
        PROVE  Inv' /\ Forward(game, game')
    BY <1>8, NextRoundKeeps
  <1>9. ASSUME NEW p \in Players, NEW i \in DOMAIN rounds, SubmitStory(p, i)
        PROVE  Inv' /\ Forward(game, game')
    BY <1>9, SubmitStoryKeeps
  <1>10. ASSUME NEW p \in Players, NEW i \in DOMAIN rounds, NEW s \in DOMAIN stories,
                SubmitVote(p, i, s)
         PROVE  Inv' /\ Forward(game, game')
    BY <1>10, SubmitVoteKeeps
  <1>11. ASSUME NEW i \in DOMAIN rounds, ReadRound(i)
         PROVE  Inv' /\ Forward(game, game')
    BY <1>11, BallotKeeps DEF ReadRound, Inv, RowsTyped
  <1>12. ASSUME NEW i \in DOMAIN rounds, GetTopStory(i)
         PROVE  Inv' /\ Forward(game, game')
    BY <1>12, GetTopStoryKeeps
  <1>. QED
    BY <1>1, <1>2, <1>3, <1>4, <1>5, <1>6, <1>7, <1>8, <1>9, <1>10, <1>11, <1>12 DEF Next

LEMMA StutterKeeps ==
  ASSUME Inv, UNCHANGED vars
  PROVE  Inv'
  BY DEF vars, Inv, RowsTyped, HostKnown, HostHere, Sound, SoundRounds, SoundStatus,
         Games, Rooms, Rounds, game

LEMMA InvParts ==
  ASSUME Inv
  PROVE  TypeOK /\ RoundsInOrder /\ StatusMatchesProgress /\ ActiveClockRuns
  <1>1. /\ Sound(game, HostHere) /\ game \in Games
        /\ game.room = room /\ game.rounds = rounds
    BY DEF Inv, Sound, game
  <1>2. room \in Rooms /\ rounds \in Seq(Rounds) /\ DOMAIN rounds = 1..Len(rounds)
    BY <1>1 DEF Games
  <1>3. TypeOK
    BY <1>1, <1>2 DEF TypeOK, Inv, RowsTyped, Sound, SoundRounds
  <1>4. RoundsInOrder
    BY <1>1, <1>2 DEF RoundsInOrder, Sound, SoundRounds
  <1>5. StatusMatchesProgress
    BY <1>1, <1>2 DEF StatusMatchesProgress, Sound, SoundStatus, HostHere
  <1>6. ActiveClockRuns
    BY <1>1 DEF ActiveClockRuns, Sound, SoundStatus
  <1>. QED
    BY <1>3, <1>4, <1>5, <1>6

\* The invariant of every behaviour, for any number of players and rounds and
\* any durations.
THEOREM Invariance == Spec => []Inv
  <1>1. Inv /\ [Next]_vars => Inv'
    BY NextKeeps, StutterKeeps
  <1>. QED
    BY <1>1, InitInv, PTL DEF Spec

\* The rows keep their types, and no round is paused in the future.
THEOREM TypeCorrect == Spec => []TypeOK
  BY Invariance, InvParts, PTL

\* Rounds are opened in order, at most MaxRounds of them, each one only when
\* the one before it is revealed.
THEOREM RoundsStayInOrder == Spec => []RoundsInOrder
  BY Invariance, InvParts, PTL

\* The room's status never disagrees with the rounds that were played.
THEOREM StatusStaysMatched == Spec => []StatusMatchesProgress
  BY Invariance, InvParts, PTL

\* No sequence of pauses, resumptions and "next" requests leaves an active
\* room whose clock is stopped.
THEOREM ActiveClockAlwaysRuns == Spec => []ActiveClockRuns
  BY Invariance, InvParts, PTL

\* No request moves a round back to an earlier phase or withdraws it.
THEOREM PhasesOnlyAdvance == Spec => PhaseNeverRegresses
  <1>1. Inv /\ Next =>
          \A i \in DOMAIN rounds :
            i \in DOMAIN rounds' /\ Phase(rounds[i].status) <= Phase(rounds'[i].status)
    <2> SUFFICES ASSUME Inv, Next
                 PROVE  \A i \in DOMAIN rounds :
                          /\ i \in DOMAIN rounds'
                          /\ Phase(rounds[i].status) <= Phase(rounds'[i].status)
      OBVIOUS
    <2>1. Inv' /\ Forward(game, game')
      BY NextKeeps
    <2>2. rounds \in Seq(Rounds) /\ rounds' \in Seq(Rounds)
      BY <2>1, InvParts DEF Inv, Sound, Games, game
    <2>. QED
      BY <2>1, <2>2 DEF Forward, game
  <1>2. Inv /\ [Next]_vars =>
          [\A i \in DOMAIN rounds :
             i \in DOMAIN rounds' /\ Phase(rounds[i].status) <= Phase(rounds'[i].status)]_rounds
    BY <1>1 DEF vars
  <1>. QED
    BY <1>2, Invariance, PTL DEF Spec, PhaseNeverRegresses

-----------------------------------------------------------------------------
(* ClassicRoom implements RoomLife.                                        *)
(*                                                                         *)
(* Most requests are quiet: synchronising a round changes neither the      *)
(* number of rounds nor the status of the room, but for its expiry.  What  *)
(* is left are the four requests of the host that change the status, and   *)
(* their trailing synchronisation, which is quiet.                         *)

\* From g to h the room may have expired, and its life has not moved otherwise.
Quiet(g, h) ==
  /\ h.room.hostID = g.room.hostID
  /\ h.room.expiresAt = g.room.expiresAt
  /\ Len(h.rounds) = Len(g.rounds)
  /\ \/ h.room.status = g.room.status
     \/ h.room.status = "expired" /\ now > g.room.expiresAt

LifeStep == [Life!Next]_(Life!life)

LEMMA QuietTransitive ==
  ASSUME NEW g, NEW h, NEW k, Quiet(g, h), Quiet(h, k)
  PROVE  Quiet(g, k)
  BY DEF Quiet

LEMMA QuietExpire ==
  ASSUME NEW g \in Games, now \in Nat
  PROVE  /\ Quiet(g, Expire(g)) /\ Expire(g) \in Games
         /\ Expire(g).rounds = g.rounds
         /\ Expire(g).room.status # "expired" => now <= g.room.expiresAt
  <1>1. g.room.expiresAt \in Nat
    BY DEF Games, Rooms
  <1>2. CASE now > g.room.expiresAt
    <2>1. Expire(g) = [g EXCEPT !.room.status = "expired"]
      BY <1>2 DEF Expire, WithStatus
    <2>. QED
      BY <1>2, <2>1 DEF Quiet, Games, Rooms, RoomStatus
  <1>3. CASE ~(now > g.room.expiresAt)
    BY <1>1, <1>3 DEF Quiet, Expire
  <1>. QED
    BY <1>2, <1>3

\* Rewriting a row of a round is quiet.
LEMMA QuietRow ==
  ASSUME NEW g \in Games, NEW i, NEW row
  PROVE  Quiet(g, WithRound(g, i, row))
  <1>1. WithRound(g, i, row).room = g.room
        /\ WithRound(g, i, row).rounds = [g.rounds EXCEPT ![i] = row]
    BY DEF WithRound, Games
  <1>2. Len([g.rounds EXCEPT ![i] = row]) = Len(g.rounds)
    <2>1. g.rounds \in Seq(Rounds)
      BY DEF Games
    <2>. QED
      BY <2>1
  <1>. QED
    BY <1>1, <1>2 DEF Quiet

LEMMA QuietSyncRound ==
  ASSUME NEW g \in Games, now \in Nat, NEW i
  PROVE  Quiet(g, SyncRound(g, i))
  <1> DEFINE e == Expire(g)
             row == Advanced(e.rounds[i])
  <1>1. Quiet(g, e) /\ e \in Games
    BY QuietExpire
  <1>2. SyncRound(g, i) = IF Due(e, i) THEN WithRound(e, i, row) ELSE e
    BY DEF SyncRound
  <1> HIDE DEF e, row
  <1>3. Quiet(e, WithRound(e, i, row))
    BY <1>1, QuietRow
  <1>. QED
    BY <1>1, <1>2, <1>3, QuietTransitive

LEMMA QuietSync ==
  ASSUME NEW g \in Games, now \in Nat
  PROVE  Quiet(g, SyncCurrent(g))
  BY QuietSyncRound DEF SyncCurrent, Quiet

-----------------------------------------------------------------------------
(* Requests that leave the status of the room alone.                       *)

LEMMA HostStays ==
  ASSUME room'.hostID = room.hostID, user' = user
  PROVE  (room.hostID \in Members)' = (room.hostID \in Members)
  BY DEF Members

\* A request that is quiet, and does not concern the host, is a step of the
\* life of the room or none.
LEMMA QuietRequest ==
  ASSUME room.status # "none", NEW h, Quiet(game, h), Commit(h),
         (room.hostID \in Members)' = (room.hostID \in Members)
  PROVE  LifeStep
  <1>1. /\ Len(rounds') = Len(rounds)
        /\ room'.status = room.status \/ room'.status = "expired"
    BY DEF Quiet, Commit, game
  <1>2. CASE room'.status = room.status
    BY <1>1, <1>2 DEF LifeStep, Life!life
  <1>3. CASE room'.status = "expired"
    BY <1>1, <1>3 DEF LifeStep, Life!Next, Life!Expire
  <1>. QED
    BY <1>1, <1>2, <1>3

LEMMA QuietUsers ==
  ASSUME room.status # "none", NEW h, Quiet(game, h), Commit(h), user' = user
  PROVE  LifeStep
  <1>1. room'.hostID = room.hostID
    BY DEF Quiet, Commit, game
  <1>. QED
    BY <1>1, HostStays, QuietRequest

LEMMA ReadingLives ==
  ASSUME Inv, NEW i \in DOMAIN rounds, Commit(SyncRound(game, i)), user' = user
  PROVE  LifeStep
  BY RoundOfRoom, SyncKeeps, QuietSyncRound, QuietUsers

LEMMA GetRoomStateLives ==
  ASSUME Inv, GetRoomState
  PROVE  LifeStep
  <1>1. game \in Games /\ now \in Nat
    BY SyncKeeps
  <1>2. Quiet(game, Expire(game)) /\ Expire(game) \in Games
    BY <1>1, QuietExpire
  <1>3. Quiet(game, SyncCurrent(Expire(game)))
    BY <1>1, <1>2, QuietSync, QuietTransitive
  <1>. QED
    BY <1>3, QuietUsers DEF GetRoomState

\* Whoever joins is not the host: the host has been in the room.
LEMMA JoinRoomLives ==
  ASSUME Inv, NEW p \in Players, JoinRoom(p)
  PROVE  LifeStep
  <1> DEFINE g == Expire(game)
  <1>1. game \in Games /\ now \in Nat
    BY SyncKeeps
  <1>2. Quiet(game, g) /\ g \in Games
    BY <1>1, QuietExpire
  <1>3. Quiet(game, SyncCurrent(g))
    BY <1>1, <1>2, QuietSync, QuietTransitive
  <1>4. room.status # "none" /\ (Commit(SyncCurrent(g)) \/ Commit(g))
    BY DEF JoinRoom
  <1>5. room'.hostID = room.hostID
    <2> HIDE DEF g
    <2>. QED
      BY <1>2, <1>3, <1>4 DEF Quiet, Commit, game
  <1>6. (room.hostID \in Members)' = (room.hostID \in Members)
    <2>1. room.hostID # p /\ room.hostID \in Players
      BY <1>4 DEF JoinRoom, Inv, HostKnown
    <2>2. user'[room.hostID] = user[room.hostID]
      BY <2>1 DEF JoinRoom, Inv, RowsTyped
    <2>. QED
      BY <1>5, <2>1, <2>2 DEF Members
  <1>. QED
    BY <1>2, <1>3, <1>4, <1>6, QuietRequest

-----------------------------------------------------------------------------
(* Requests that change the status of the room.                            *)

LEMMA CreateRoomLives ==
  ASSUME Inv, NEW p \in Players, CreateRoom(p)
  PROVE  LifeStep
  <1>1. room.status = "none" /\ room'.status = "waiting" /\ rounds' = rounds
    BY DEF CreateRoom
  <1>2. room'.hostID \in Members'
    BY DEF CreateRoom, Members, Inv, RowsTyped
  <1>3. Life!Create
    BY <1>1, <1>2 DEF Life!Create
  <1>. QED
    BY <1>3 DEF LifeStep, Life!Next

\* The host who leaves closes the room, and so does whoever leaves last.
LEMMA LeaveRoomLives ==
  ASSUME Inv, NEW p \in Players, LeaveRoom(p)
  PROVE  LifeStep
  <1> DEFINE closed == WithStatus(game, "finished")
  <1>1. game \in Games /\ now \in Nat
    BY SyncKeeps
  <1>2. room.status # "none" /\ room.hostID \in Players /\ user[room.hostID] # "absent"
    BY MemberOfRoom DEF LeaveRoom, Inv, HostKnown
  <1>3. /\ user' = [user EXCEPT ![p] = "gone"] /\ user[p] = "member"
        /\ user \in [Players -> {"absent", "member", "gone"}]
    BY DEF LeaveRoom, Inv, RowsTyped
  <1>4. CASE Closes(p)
    <2>1. /\ closed \in Games /\ closed.room.status = "finished"
          /\ closed.room.hostID = room.hostID /\ closed.rounds = rounds
      BY <1>1, WithStatusGame DEF RoomStatus, game
    <2>2. Commit(SyncCurrent(closed))
      BY <1>4 DEF LeaveRoom
    <2> HIDE DEF closed
    <2>3. Quiet(closed, SyncCurrent(closed))
      BY <1>1, <2>1, QuietSync
    <2>4. /\ room'.hostID = room.hostID /\ Len(rounds') = Len(rounds)
          /\ room'.status \in {"finished", "expired"}
      BY <2>1, <2>2, <2>3 DEF Quiet, Commit
    <2>5. room'.hostID \notin Members'
      BY <1>2, <1>3, <1>4, <2>4 DEF Closes, Members
    <2>6. Life!Close
      BY <1>2, <2>4, <2>5 DEF Life!Close, Life!Over
    <2>. QED
      BY <2>6 DEF LifeStep, Life!Next
  <1>5. CASE ~Closes(p)
    <2>1. Commit(SyncCurrent(game))
      BY <1>5 DEF LeaveRoom
    <2>2. Quiet(game, SyncCurrent(game))
      BY <1>1, QuietSync
    <2>3. room'.hostID = room.hostID
      BY <2>1, <2>2 DEF Quiet, Commit, game
    <2>4. (room.hostID \in Members)' = (room.hostID \in Members)
      <3>1. user'[room.hostID] = user[room.hostID]
        BY <1>2, <1>3, <1>5 DEF Closes
      <3>. QED
        BY <1>2, <2>3, <3>1 DEF Members
    <2>. QED
      BY <1>2, <2>1, <2>2, <2>4, QuietRequest
  <1>. QED
    BY <1>4, <1>5

\* What the host's requests do to the parts of a game that its life is about.
Becomes(g, h, status, opened) ==
  /\ h.room.status = status /\ Len(h.rounds) = opened
  /\ h.room.hostID = g.room.hostID /\ h.room.expiresAt = g.room.expiresAt

LEMMA StatusBecomes ==
  ASSUME NEW g \in Games, NEW status
  PROVE  Becomes(g, WithStatus(g, status), status, Len(g.rounds))
         /\ WithStatus(g, status).rounds = g.rounds
  BY DEF Becomes, WithStatus, Games, Rooms

LEMMA OpenedBecomes ==
  ASSUME NEW g \in Games, now \in Nat, NEW number \in Nat \ {0}
  PROVE  Becomes(g, Opened(g, number), "active", Len(g.rounds) + 1)
  <1> DEFINE k == [g EXCEPT !.rounds = Append(@, NewRound(number))]
  <1>1. NewRound(number) \in Rounds
    BY TimesAssumption DEF NewRound, Rounds, RoundStatus, NoTime
  <1>2. g.rounds \in Seq(Rounds)
    BY DEF Games
  <1>3. k \in Games /\ k.room = g.room /\ k.rounds = Append(g.rounds, NewRound(number))
    BY <1>1, <1>2, AppendRow DEF Games
  <1>4. Opened(g, number) = WithStatus(k, "active")
    BY DEF Opened
  <1>5. Len(k.rounds) = Len(g.rounds) + 1
    BY <1>1, <1>2, <1>3, AppendRow
  <1> HIDE DEF k
  <1>. QED
    BY <1>3, <1>4, <1>5, StatusBecomes DEF Becomes

LEMMA UnpausedBecomes ==
  ASSUME NEW g \in Games, g.rounds # <<>>, NEW i, i = Current(g), i \in 1..Len(g.rounds),
         now \in Nat, g.rounds[i].pausedAt <= now
  PROVE  Becomes(g, Unpaused(g), "active", Len(g.rounds))
  <1> DEFINE row == Resumed(g.rounds[i])
             k   == WithRound(g, i, row)
  <1>1. row \in Rounds
    BY RowAt, LifecycleRows DEF Succeeds
  <1>2. Unpaused(g) = WithStatus(k, "active")
    BY DEF Unpaused, OnCurrent
  <1> HIDE DEF row
  <1>3. k \in Games /\ k.room = g.room
    BY <1>1, ReplaceRow DEF Games, WithRound
  <1>4. Len(k.rounds) = Len(g.rounds)
    BY QuietRow DEF Quiet
  <1> HIDE DEF k
  <1>. QED
    BY <1>2, <1>3, <1>4, StatusBecomes DEF Becomes

LEMMA PausedBecomes ==
  ASSUME NEW g \in Games, g.rounds # <<>>
  PROVE  Becomes(g, Paused(g), "paused", Len(g.rounds))
  <1> DEFINE row == [g.rounds[Current(g)] EXCEPT !.pausedAt = now]
             k   == WithRound(g, Current(g), row)
  <1>1. Paused(g) = WithStatus(k, "paused")
    BY DEF Paused, OnCurrent
  <1>2. k.room = g.room /\ Len(k.rounds) = Len(g.rounds)
    <2> HIDE DEF row
    <2>1. k.room = g.room
      BY DEF WithRound, Games
    <2>2. Len(k.rounds) = Len(g.rounds)
      BY QuietRow DEF Quiet
    <2>. QED
      BY <2>1, <2>2
  <1>3. WithStatus(k, "paused").room = [k.room EXCEPT !.status = "paused"]
        /\ WithStatus(k, "paused").rounds = k.rounds
    <2> HIDE DEF row
    <2>1. k = [room |-> g.room, rounds |-> k.rounds]
      BY DEF WithRound, Games
    <2> HIDE DEF k
    <2>. QED
      BY <2>1 DEF WithStatus
  <1> HIDE DEF k
  <1>. QED
    BY <1>1, <1>2, <1>3 DEF Becomes, Games, Rooms

\* A request of the host that leaves the room active or paused, and not
\* expired, for the synchronisation at its end.
LEMMA HostRequest ==
  ASSUME Inv, NEW p \in Players, user[p] = "member", p = room.hostID, user' = user,
         NEW h \in Games, NEW status, NEW opened,
         Becomes(game, h, status, opened),
         Commit(SyncCurrent(h))
  PROVE  /\ room.hostID \in Members /\ room'.hostID \in Members'
         /\ Len(rounds') = opened
         /\ room'.status \in {status, "expired"}
         /\ now <= room.expiresAt => room'.status = status
  <1>1. Quiet(h, SyncCurrent(h))
    BY SyncKeeps, QuietSync
  <1>2. /\ room'.hostID = room.hostID /\ Len(rounds') = opened
        /\ room'.status = status \/ (room'.status = "expired" /\ now > room.expiresAt)
    BY <1>1 DEF Quiet, Becomes, Commit, game
  <1>3. now \in Nat /\ room.expiresAt \in Nat
    BY SyncKeeps DEF Games, Rooms, game
  <1>. QED
    BY <1>2, <1>3 DEF Members

\* When ensureRoomAvailable lets a request pass, the room has not expired.
LEMMA FoundAlive ==
  ASSUME Inv, Expire(game).room.status # "expired"
  PROVE  Expire(game) = game /\ now <= room.expiresAt
  <1>1. game \in Games /\ now \in Nat
    BY SyncKeeps
  <1>2. now <= game.room.expiresAt
    BY <1>1, QuietExpire
  <1>3. room.expiresAt \in Nat /\ game.room = room
    BY <1>1 DEF Games, Rooms, game
  <1>. QED
    BY <1>1, <1>2, <1>3 DEF Expire

\* What the invariant says of the game a request finds.
LEMMA GameFound ==
  ASSUME Inv
  PROVE  /\ game \in Games /\ now \in Nat /\ Sound(game, HostHere) /\ HostHere \in BOOLEAN
         /\ game.room = room /\ game.rounds = rounds
         /\ room.status \in {"none", "waiting"} => Len(rounds) = 0
         /\ room.status \in {"active", "paused"} => Len(rounds) # 0
         /\ rounds # <<>> => /\ Len(rounds) \in 1..MaxRounds
                             /\ Current(game) \in 1..Len(rounds) /\ Current(game) = Len(rounds)
                             /\ rounds[Len(rounds)].pausedAt <= now
                             /\ rounds[Len(rounds)].number = Len(rounds)
  <1>1. /\ game \in Games /\ now \in Nat /\ Sound(game, HostHere) /\ HostHere \in BOOLEAN
        /\ game.room = room /\ game.rounds = rounds
    BY SyncKeeps DEF game, HostHere
  <1>2. rounds \in Seq(Rounds) /\ Len(rounds) \in Nat
    BY <1>1, RowAt
  <1>3. ASSUME rounds # <<>>
        PROVE  /\ Len(rounds) \in 1..Len(rounds) /\ Current(game) = Len(rounds)
               /\ Len(rounds) <= MaxRounds
               /\ rounds[Len(rounds)].pausedAt <= now
               /\ rounds[Len(rounds)].number = Len(rounds)
    <2>1. Len(rounds) \in 1..Len(rounds)
      BY <1>2, <1>3
    <2>. QED
      BY <1>1, <2>1 DEF Sound, SoundRounds, Current
  <1>4. /\ room.status \in {"none", "waiting"} => Len(rounds) = 0
        /\ room.status \in {"active", "paused"} => Len(rounds) # 0
    BY <1>1 DEF Sound, SoundStatus
  <1>5. MaxRounds \in Nat
    BY LimitsAssumption
  <1>. QED
    BY <1>1, <1>2, <1>3, <1>4, <1>5

LEMMA StartGameLives ==
  ASSUME Inv, NEW p \in Players, StartGame(p)
  PROVE  LifeStep
  <1> DEFINE g == Expire(game)
  <1>1. /\ user[p] = "member" /\ p = room.hostID /\ user' = user
        /\ room.status # "none"
    BY MemberOfRoom DEF StartGame
  <1>2. CASE g.room.status = "waiting" /\ Commit(SyncCurrent(Opened(g, 1)))
    <2>1. g = game /\ now <= room.expiresAt /\ room.status = "waiting"
      BY <1>2, FoundAlive, GameFound
    <2>2. Becomes(game, Opened(game, 1), "active", 1)
      BY <2>1, GameFound, OpenedBecomes
    <2>3. Opened(game, 1) \in Games
      BY <2>1, GameFound, OpenStep, LimitsAssumption DEF Step, Sound
    <2>4. /\ room.hostID \in Members /\ room'.hostID \in Members'
          /\ Len(rounds') = 1 /\ room'.status = "active"
      BY <1>1, <1>2, <2>1, <2>2, <2>3, HostRequest
    <2>5. Life!Start
      BY <2>1, <2>4 DEF Life!Start
    <2>. QED
      BY <2>5 DEF LifeStep, Life!Next
  <1>3. CASE g.room.status = "paused" /\ g.rounds # <<>> /\ Commit(SyncCurrent(Unpaused(g)))
    <2>1. g = game /\ now <= room.expiresAt /\ room.status = "paused"
      BY <1>3, FoundAlive, GameFound
    <2>2. Becomes(game, Unpaused(game), "active", Len(rounds))
      BY <1>3, <2>1, GameFound, UnpausedBecomes
    <2>3. Unpaused(game) \in Games
      BY <2>1, GameFound, UnpausedStep DEF Step, Sound
    <2>4. /\ room.hostID \in Members /\ room'.hostID \in Members'
          /\ Len(rounds') = Len(rounds) /\ room'.status = "active"
      BY <1>1, <1>3, <2>1, <2>2, <2>3, HostRequest
    <2>5. Len(rounds) \in 1..MaxRounds
      BY <1>3, <2>1, GameFound
    <2>6. Life!Resume
      BY <2>1, <2>4, <2>5 DEF Life!Resume
    <2>. QED
      BY <2>6 DEF LifeStep, Life!Next
  <1>4. CASE Commit(g)
    BY <1>1, <1>4, GameFound, QuietExpire, QuietUsers
  <1>. QED
    BY <1>2, <1>3, <1>4 DEF StartGame

LEMMA PauseRoundLives ==
  ASSUME Inv, NEW p \in Players, PauseRound(p)
  PROVE  LifeStep
  <1>1. /\ user[p] = "member" /\ p = room.hostID /\ user' = user
    BY DEF PauseRound
  <1>2. CASE room.status = "active" /\ Commit(SyncCurrent(Paused(game)))
    <2>1. Becomes(game, Paused(game), "paused", Len(rounds))
      BY <1>2, GameFound, PausedBecomes
    <2>2. Paused(game) \in Games
      BY <1>2, GameFound, PausedStep DEF Step, Sound
    <2>3. /\ room.hostID \in Members /\ room'.hostID \in Members'
          /\ Len(rounds') = Len(rounds) /\ room'.status \in {"paused", "expired"}
      BY <1>1, <1>2, <2>1, <2>2, HostRequest
    <2>4. Life!Pause \/ Life!Expire
      BY <1>2, <2>3 DEF Life!Pause, Life!Expire
    <2>. QED
      BY <2>4 DEF LifeStep, Life!Next
  <1>3. CASE room.status = "paused" /\ Commit(SyncCurrent(Unpaused(game)))
    <2>1. rounds # <<>>
      BY <1>3, GameFound
    <2>2. Becomes(game, Unpaused(game), "active", Len(rounds))
      BY <2>1, GameFound, UnpausedBecomes
    <2>3. Unpaused(game) \in Games
      BY <1>3, GameFound, UnpausedStep DEF Step, Sound
    <2>4. /\ room.hostID \in Members /\ room'.hostID \in Members'
          /\ Len(rounds') = Len(rounds) /\ room'.status \in {"active", "expired"}
      BY <1>1, <1>3, <2>2, <2>3, HostRequest
    <2>5. Len(rounds) \in 1..MaxRounds
      BY <2>1, GameFound
    <2>6. Life!Resume \/ Life!Expire
      BY <1>3, <2>4, <2>5 DEF Life!Resume, Life!Expire
    <2>. QED
      BY <2>6 DEF LifeStep, Life!Next
  <1>. QED
    BY <1>2, <1>3 DEF PauseRound

\* "Next" moves the round on, ends the game or opens the next round.
LEMMA SteppedBecomes ==
  ASSUME NEW g, Sound(g, TRUE), now \in Nat, g.rounds # <<>>,
         g.room.status \notin {"none", "expired"}
  PROVE  \/ Quiet(g, Stepped(g))
         \/ /\ Len(g.rounds) = MaxRounds
            /\ Becomes(g, Stepped(g), "finished", MaxRounds)
         \/ /\ g.room.status # "finished" /\ Len(g.rounds) + 1 \in 1..MaxRounds
            /\ Becomes(g, Stepped(g), "active", Len(g.rounds) + 1)
  <1> DEFINE i == Current(g)
             r == g.rounds[i]
  <1>1. g \in Games /\ i \in 1..Len(g.rounds) /\ i = Len(g.rounds)
    BY RowAt DEF Sound, Current, Games
  <1>2. r \in Rounds /\ r.status \in RoundStatus /\ r.number = i /\ i <= MaxRounds
    BY <1>1, RowAt DEF Sound, SoundRounds
  <1>3. MaxRounds \in Nat
    BY LimitsAssumption
  <1>4. CASE r.status # "revealed"
    <2>1. \E row : Stepped(g) = WithRound(g, i, row)
      BY <1>2, <1>4 DEF Stepped, RoundStatus
    <2>. QED
      BY <1>1, <2>1, QuietRow
  <1>5. CASE r.status = "revealed" /\ r.number >= MaxRounds
    <2>1. Stepped(g) = WithStatus(g, "finished") /\ i = MaxRounds
      BY <1>2, <1>3, <1>5 DEF Stepped, Rounds
    <2>. QED
      BY <1>1, <2>1, StatusBecomes
  <1>6. CASE r.status = "revealed" /\ r.number < MaxRounds
    <2>1. Stepped(g) = Opened(g, i + 1)
      BY <1>2, <1>3, <1>6 DEF Stepped, Rounds
    <2>2. Becomes(g, Stepped(g), "active", Len(g.rounds) + 1)
      BY <1>1, <2>1, OpenedBecomes
    <2>3. g.room.status # "finished"
      BY <1>1, <1>2, <1>3, <1>6 DEF Sound, SoundStatus
    <2>. QED
      BY <1>1, <1>2, <1>3, <1>6, <2>2, <2>3
  <1>. QED
    BY <1>2, <1>3, <1>4, <1>5, <1>6 DEF Rounds

LEMMA NextRoundLives ==
  ASSUME Inv, NEW p \in Players, NextRound(p)
  PROVE  LifeStep
  <1> DEFINE e == Expire(game)
             g == SyncCurrent(e)
             h == Stepped(g)
  <1>1. /\ user[p] = "member" /\ p = room.hostID /\ user' = user
        /\ room.status # "none" /\ HostHere
    BY MemberOfRoom DEF NextRound, HostHere
  <1>2. game \in Games /\ now \in Nat /\ game.room = room /\ game.rounds = rounds
    BY GameFound
  <1>3. Step(game, g, HostHere) /\ Quiet(game, e) /\ Quiet(e, g)
    <2>1. Step(game, e, HostHere) /\ Quiet(game, e) /\ e \in Games
      BY <1>2, SyncKeeps, QuietExpire
    <2>. QED
      BY <1>2, <2>1, QuietSync, ThenSync DEF HostHere
  <1>4. Sound(g, TRUE) /\ g \in Games /\ Quiet(game, g)
    BY <1>1, <1>3, QuietTransitive DEF Step, Sound, SoundStatus
  <1>5. CASE Commit(g)
    BY <1>1, <1>4, <1>5, QuietUsers
  <1>6. CASE g.room.status # "expired" /\ g.rounds # <<>> /\ Commit(SyncCurrent(h))
    <2>1. e.room.status # "expired"
      BY <1>3, <1>6 DEF Quiet
    <2>2. now <= room.expiresAt
      BY <2>1, FoundAlive
    <2>3. /\ g.room.status = room.status /\ Len(g.rounds) = Len(rounds)
          /\ g.room.hostID = room.hostID /\ g.room.expiresAt = room.expiresAt
      BY <1>2, <1>4, <1>6 DEF Quiet
    <2>4. h \in Games
      BY <1>2, <1>4, <1>6, SteppedStep DEF Step, Sound
    <2> HIDE DEF e, g
    <2>5. Len(rounds) # 0 /\ room.status \notin {"none", "waiting", "expired"} /\ room.status \in RoomStatus
      <3>1. Len(g.rounds) # 0
        BY <1>4, <1>6 DEF Games
      <3>. QED
        BY <1>1, <1>2, <1>6, <2>3, <3>1, GameFound DEF Games, Rooms
    <2>6. CASE Quiet(g, h)
      <3>1. Quiet(h, SyncCurrent(h))
        BY <1>2, <2>4, QuietSync
      <3>2. Quiet(game, SyncCurrent(h))
        <4> HIDE DEF h
        <4>. QED
          BY <1>4, <2>6, <3>1, QuietTransitive
      <3>. QED
        BY <1>1, <1>6, <3>2, QuietUsers
    <2> HIDE DEF h
    <2>7. CASE Len(g.rounds) = MaxRounds /\ Becomes(g, h, "finished", MaxRounds)
      <3>1. Becomes(game, h, "finished", MaxRounds)
        BY <1>2, <2>3, <2>7 DEF Becomes
      <3>2. /\ room.hostID \in Members /\ room'.hostID \in Members'
            /\ Len(rounds') = MaxRounds /\ room'.status = "finished"
        BY <1>1, <1>6, <2>2, <2>4, <3>1, HostRequest
      <3>3. Life!Finish \/ UNCHANGED Life!life
        BY <2>3, <2>5, <2>7, <3>2 DEF Life!Finish, Life!life, RoomStatus
      <3>. QED
        BY <3>3 DEF LifeStep, Life!Next
    <2>8. CASE /\ g.room.status # "finished" /\ Len(g.rounds) + 1 \in 1..MaxRounds
               /\ Becomes(g, h, "active", Len(g.rounds) + 1)
      <3>1. Becomes(game, h, "active", Len(rounds) + 1)
        BY <1>2, <2>3, <2>8 DEF Becomes
      <3>2. /\ room.hostID \in Members /\ room'.hostID \in Members'
            /\ Len(rounds') = Len(rounds) + 1 /\ room'.status = "active"
        BY <1>1, <1>6, <2>2, <2>4, <3>1, HostRequest
      <3>3. Len(rounds) < MaxRounds /\ Len(rounds) + 1 \in 1..MaxRounds
        BY <1>2, <2>3, <2>8, RowAt, LimitsAssumption
      <3>4. Life!OpenNext \/ Life!Resume
        BY <2>3, <2>5, <2>8, <3>2, <3>3 DEF Life!OpenNext, Life!Resume, RoomStatus
      <3>. QED
        BY <3>4 DEF LifeStep, Life!Next
    <2>. QED
      BY <1>2, <1>4, <1>6, <2>3, <2>5, <2>6, <2>7, <2>8, SteppedBecomes DEF h
  <1>. QED
    BY <1>5, <1>6 DEF NextRound

-----------------------------------------------------------------------------
(* The refinement.                                                         *)

LEMMA NextLives ==
  ASSUME Inv, [Next]_vars
  PROVE  LifeStep
  <1>1. CASE UNCHANGED vars \/ Tick
    <2>1. UNCHANGED <<room, user, rounds>>
      BY <1>1 DEF vars, Tick
    <2>. QED
      BY <2>1 DEF LifeStep, Life!life, Members
  <1>2. CASE GetRoomState
    BY <1>2, GetRoomStateLives
  <1>3. ASSUME NEW p \in Players,
               \/ CreateRoom(p) \/ JoinRoom(p) \/ LeaveRoom(p)
               \/ StartGame(p) \/ PauseRound(p) \/ NextRound(p)
        PROVE  LifeStep
    BY <1>3, CreateRoomLives, JoinRoomLives, LeaveRoomLives, StartGameLives,
       PauseRoundLives, NextRoundLives
  <1>4. ASSUME NEW i \in DOMAIN rounds,
               \/ \E p \in Players : SubmitStory(p, i)
               \/ \E p \in Players, s \in DOMAIN stories : SubmitVote(p, i, s)
               \/ ReadRound(i) \/ GetTopStory(i)
        PROVE  LifeStep
    <2>1. Commit(SyncRound(game, i)) /\ user' = user
      BY <1>4 DEF SubmitStory, SubmitVote, ReadRound, GetTopStory
    <2>. QED
      BY <2>1, ReadingLives
  <1>. QED
    BY <1>1, <1>2, <1>3, <1>4 DEF Next

LEMMA InitLives ==
  ASSUME Init
  PROVE  Life!Init
  <1>1. room.hostID = NoPlayer /\ room.status = "none" /\ rounds = <<>>
    BY DEF Init
  <1>2. room.hostID \notin Members
    BY <1>1, PlayersAssumption DEF Members
  <1>. QED
    BY <1>1, <1>2 DEF Life!Init

\* A classic room lives the life of RoomLife, for any number of players and
\* rounds and any durations.
THEOREM ClassicRoomLives == Spec => LivesItsLife
  <1>1. Inv /\ [Next]_vars => LifeStep
    BY NextLives
  <1>. QED
    BY <1>1, InitLives, Invariance, PTL DEF Spec, LivesItsLife, Life!Spec, LifeStep

\* What RoomLife promises holds of a room of the classic game: it waits, plays or pauses
\* only while its host is there, no round is opened beyond the last, and once it
\* is finished or expired it stays over.
THEOREM ClassicRoomKeepsPromises ==
  Spec => []Life!NeedsItsHost /\ []Life!RoundsBounded /\ Life!OverForGood
  <1>1. Life!Spec => []Life!NeedsItsHost
    BY LimitsAssumption, Life!HostIsNeeded
  <1>2. Life!Spec => []Life!RoundsBounded
    BY LimitsAssumption, Life!RoundsStayBounded
  <1>3. Spec => Life!Spec
    BY ClassicRoomLives DEF LivesItsLife
  <1>. QED
    BY <1>1, <1>2, <1>3, Life!OverStaysOver, PTL

-----------------------------------------------------------------------------
(* Stories and votes, and a room past its lifetime.                        *)

BallotInv == Inv /\ OneBallotEach

\* Rows are only appended, and the author and round of a story never change.
Kept ==
  /\ Len(stories) <= Len(stories') /\ Len(votes) <= Len(votes')
  /\ \A s \in DOMAIN stories :
       stories'[s].round = stories[s].round /\ stories'[s].author = stories[s].author
  /\ \A v \in DOMAIN votes : votes'[v] = votes[v]

LEMMA RowsOf ==
  ASSUME Inv
  PROVE  /\ stories \in Seq(Stories) /\ DOMAIN stories = 1..Len(stories)
         /\ votes \in Seq(Votes) /\ DOMAIN votes = 1..Len(votes)
         /\ Len(stories) \in Nat /\ Len(votes) \in Nat
  BY DEF Inv, RowsTyped

LEMMA UnchangedBallots ==
  ASSUME BallotInv, stories' = stories, votes' = votes
  PROVE  OneBallotEach' /\ Kept
  <1>1. OneBallotEach'
    BY DEF BallotInv, OneBallotEach
  <1>. QED
    BY <1>1, RowsOf DEF BallotInv, Kept

\* A round that a request finds playable once synchronised has time left.
LEMMA AcceptedOnTime ==
  ASSUME Inv, NEW i \in 1..Len(game.rounds), NEW status \in {"writing", "voting"},
         Playable(SyncRound(game, i), i, status)
  PROVE  OnTime(SyncRound(game, i), i)
  <1> DEFINE e == Expire(game)
             r == e.rounds[i]
  <1>1. game \in Games /\ Sound(game, HostHere) /\ now \in Nat
    BY DEF Inv, RowsTyped, Sound
  <1>2. /\ e \in Games /\ e.rounds = game.rounds
        /\ e.room.status = "active" => e = game
    BY <1>1, WithStatusGame DEF Expire, RoomStatus
  <1>3. SyncRound(game, i) = IF Due(e, i) THEN WithRound(e, i, Advanced(r)) ELSE e
    BY DEF SyncRound
  <1>4. r \in Rounds /\ r.status \in RoundStatus
    BY <1>2, RowAt
  <1> HIDE DEF e
  <1>5. CASE Due(e, i)
    <2>1. SyncRound(game, i).rounds[i] = Advanced(r)
      BY <1>2, <1>3, <1>5 DEF WithRound, Games
    <2> HIDE DEF r
    <2>2. \/ Advanced(r).phaseEndsAt \in {NoTime, now + VoteTime}
          \/ r.status = "revealed" /\ Advanced(r) = r
      BY <1>4 DEF Advanced, ToVoting, ToRevealed, Rounds, RoundStatus
    <2>3. r.status # "revealed" \/ Advanced(r) # r
      BY <2>1 DEF Playable
    <2>. QED
      BY <1>1, <2>1, <2>2, <2>3, TimesAssumption DEF OnTime, NoTime
  <1>6. CASE ~Due(e, i)
    <2>1. e = SyncRound(game, i) /\ e.room.status = "active" /\ e.rounds[i].status = status
      BY <1>3, <1>6 DEF Playable
    <2>2. e = game
      BY <1>2, <2>1
    <2>3. i = Len(game.rounds)
      BY <1>1, <2>1, <2>2 DEF Sound, SoundRounds, Games
    <2>4. game.rounds[i].pausedAt = NoTime
      BY <1>1, <2>1, <2>2, <2>3 DEF Sound, SoundStatus
    <2>5. game.rounds[i] \in Rounds
      BY <1>1, RowAt
    <2>. QED
      BY <1>1, <1>6, <2>1, <2>2, <2>4, <2>5 DEF Due, OnTime, Rounds, NoTime
  <1>. QED
    BY <1>5, <1>6

LEMMA SubmitStoryBallots ==
  ASSUME BallotInv, NEW p \in Players, NEW i \in DOMAIN rounds, SubmitStory(p, i)
  PROVE  /\ OneBallotEach' /\ Kept
         /\ \A s \in DOMAIN stories' \ DOMAIN stories :
              /\ Playable(game, stories'[s].round, "writing")
              /\ Playable(game', stories'[s].round, "writing")
              /\ OnTime(game', stories'[s].round)
  <1> DEFINE story == [round |-> i, author |-> p, isRevealed |-> FALSE]
             n == Len(stories)
  <1>1. /\ stories \in Seq(Stories) /\ DOMAIN stories = 1..n /\ n \in Nat
        /\ DOMAIN votes = 1..Len(votes) /\ Len(votes) \in Nat
    BY RowsOf DEF BallotInv
  <1>2. votes' = votes
    BY DEF SubmitStory
  <1>3. CASE stories' = stories
    BY <1>1, <1>2, <1>3, UnchangedBallots
  <1>4. CASE /\ stories' = Append(stories, story)
             /\ Playable(SyncRound(game, i), i, "writing")
             /\ ~WroteIn(p, i)
             /\ Commit(SyncRound(game, i))
    <2>1. story \in Stories /\ i \in 1..Len(game.rounds)
      BY RoundOfRoom, SyncKeeps, RowAt DEF Stories, BallotInv
    <2>2. /\ DOMAIN stories' = 1..(n + 1) /\ Len(stories') = n + 1
          /\ stories'[n + 1] = story
          /\ \A s \in 1..n : stories'[s] = stories[s]
      BY <1>1, <1>4, <2>1, AppendRow
    <2>3. \A s \in 1..n : ~(stories[s].round = i /\ stories[s].author = p)
      BY <1>1, <1>4 DEF StoriesOf, WroteIn
    <2>4. \A s, t \in 1..(n + 1) :
            stories'[s].round = stories'[t].round /\ stories'[s].author = stories'[t].author
              => s = t
      <3> SUFFICES ASSUME NEW s \in 1..(n + 1), NEW t \in 1..(n + 1),
                          stories'[s].round = stories'[t].round,
                          stories'[s].author = stories'[t].author
                   PROVE  s = t
        OBVIOUS
      <3>1. CASE s \in 1..n /\ t \in 1..n
        BY <1>1, <2>2, <3>1 DEF BallotInv, OneBallotEach
      <3>2. CASE s = n + 1 /\ t \in 1..n
        BY <2>2, <2>3, <3>2
      <3>3. CASE s \in 1..n /\ t = n + 1
        BY <2>2, <2>3, <3>3
      <3>. QED
        BY <1>1, <3>1, <3>2, <3>3
    <2>5. \A v \in DOMAIN votes' :
            LET s == votes'[v].story
            IN  /\ s \in DOMAIN stories'
                /\ stories'[s].round = votes'[v].round
                /\ stories'[s].author # votes'[v].voter
      BY <1>1, <1>2, <2>2 DEF BallotInv, OneBallotEach
    <2>6. OneBallotEach'
      BY <1>2, <2>2, <2>4, <2>5 DEF BallotInv, OneBallotEach
    <2>7. Kept
      BY <1>1, <1>2, <2>2 DEF Kept
    <2>8. game' = SyncRound(game, i) /\ SyncRound(game, i) \in Games /\ game \in Games
      <3>1. SyncRound(game, i) \in Games /\ game \in Games
        BY <2>1, SyncKeeps DEF Step, Sound, BallotInv
      <3>. QED
        BY <3>1, <1>4, GameParts DEF Commit, game
    <2>9. Playable(game, i, "writing")
      <3> DEFINE e == Expire(game)
      <3>1. /\ e \in Games /\ e.rounds = game.rounds
            /\ e.room.status = "active" => e = game
        BY <2>8, WithStatusGame DEF Expire, RoomStatus
      <3>2. SyncRound(game, i) = IF Due(e, i) THEN WithRound(e, i, Advanced(e.rounds[i])) ELSE e
        BY DEF SyncRound
      <3> HIDE DEF e
      <3>3. ~Due(e, i)
        <4>1. ASSUME Due(e, i) PROVE FALSE
          <5>1. SyncRound(game, i).rounds[i] = Advanced(e.rounds[i])
            BY <2>1, <3>1, <3>2, <4>1 DEF WithRound, Games
          <5>2. Advanced(e.rounds[i]).status = "writing"
            BY <1>4, <5>1 DEF Playable
          <5>3. e.rounds[i] \in Rounds /\ e.rounds[i].status \in RoundStatus
            BY <2>1, <3>1, RowAt
          <5>. QED
            BY <5>2, <5>3 DEF Advanced, ToVoting, ToRevealed, RoundStatus, Rounds
        <4>. QED
          BY <4>1
      <3>. QED
        BY <1>4, <3>1, <3>2, <3>3 DEF Playable
    <2>10. OnTime(game', i)
      BY <1>4, <2>1, <2>8, AcceptedOnTime DEF BallotInv
    <2>. QED
      BY <1>1, <1>4, <2>2, <2>6, <2>7, <2>8, <2>9, <2>10
  <1>. QED
    BY <1>3, <1>4 DEF SubmitStory

LEMMA SubmitVoteBallots ==
  ASSUME BallotInv, NEW p \in Players, NEW i \in DOMAIN rounds, NEW s \in DOMAIN stories,
         SubmitVote(p, i, s)
  PROVE  /\ OneBallotEach' /\ Kept
         /\ \A v \in DOMAIN votes' \ DOMAIN votes :
              Playable(game', votes'[v].round, "voting") /\ OnTime(game', votes'[v].round)
  <1> DEFINE vote == [round |-> i, voter |-> p, story |-> s]
             n == Len(votes)
  <1>1. /\ votes \in Seq(Votes) /\ DOMAIN votes = 1..n /\ n \in Nat
        /\ DOMAIN stories = 1..Len(stories) /\ Len(stories) \in Nat
    BY RowsOf DEF BallotInv
  <1>2. stories' = stories
    BY DEF SubmitVote
  <1>3. CASE votes' = votes
    BY <1>1, <1>2, <1>3, UnchangedBallots
  <1>4. CASE /\ votes' = Append(votes, vote)
             /\ Playable(SyncRound(game, i), i, "voting")
             /\ stories[s].round = i
             /\ stories[s].author # p
             /\ ~VotedIn(p, i)
             /\ Commit(SyncRound(game, i))
    <2>1. vote \in Votes /\ i \in 1..Len(game.rounds)
      <3>1. i \in Nat \ {0} /\ i \in 1..Len(game.rounds)
        BY RoundOfRoom, SyncKeeps, RowAt DEF BallotInv
      <3>2. s \in Nat \ {0}
        BY <1>1
      <3>. QED
        BY <3>1, <3>2 DEF Votes
    <2>2. /\ DOMAIN votes' = 1..(n + 1) /\ Len(votes') = n + 1
          /\ votes'[n + 1] = vote
          /\ \A v \in 1..n : votes'[v] = votes[v]
      BY <1>1, <1>4, <2>1, AppendRow
    <2>3. \A v, w \in 1..(n + 1) :
            votes'[v].round = votes'[w].round /\ votes'[v].voter = votes'[w].voter => v = w
      <3> SUFFICES ASSUME NEW v \in 1..(n + 1), NEW w \in 1..(n + 1),
                          votes'[v].round = votes'[w].round,
                          votes'[v].voter = votes'[w].voter
                   PROVE  v = w
        OBVIOUS
      <3>1. CASE v \in 1..n /\ w \in 1..n
        BY <1>1, <2>2, <3>1 DEF BallotInv, OneBallotEach
      <3>2. CASE v = n + 1 /\ w \in 1..n
        BY <1>1, <1>4, <2>2, <3>2 DEF VotedIn
      <3>3. CASE v \in 1..n /\ w = n + 1
        BY <1>1, <1>4, <2>2, <3>3 DEF VotedIn
      <3>. QED
        BY <1>1, <3>1, <3>2, <3>3
    <2>4. \A v \in 1..(n + 1) :
            LET t == votes'[v].story
            IN  /\ t \in DOMAIN stories
                /\ stories[t].round = votes'[v].round
                /\ stories[t].author # votes'[v].voter
      <3> SUFFICES ASSUME NEW v \in 1..(n + 1)
                   PROVE  LET t == votes'[v].story
                          IN  /\ t \in DOMAIN stories
                              /\ stories[t].round = votes'[v].round
                              /\ stories[t].author # votes'[v].voter
        OBVIOUS
      <3>1. CASE v \in 1..n
        BY <1>1, <2>2, <3>1 DEF BallotInv, OneBallotEach
      <3>2. CASE v = n + 1
        BY <1>1, <1>4, <2>2, <3>2
      <3>. QED
        BY <1>1, <3>1, <3>2
    <2>5. OneBallotEach'
      BY <1>2, <2>2, <2>3, <2>4 DEF BallotInv, OneBallotEach
    <2>6. Kept
      BY <1>1, <1>2, <2>2 DEF Kept
    <2>7. game' = SyncRound(game, i)
      <3>1. SyncRound(game, i) \in Games
        BY <2>1, SyncKeeps DEF Step, Sound, BallotInv
      <3>. QED
        BY <3>1, <1>4, GameParts DEF Commit, game
    <2>8. OnTime(game', i)
      BY <1>4, <2>1, <2>7, AcceptedOnTime DEF BallotInv
    <2>. QED
      BY <1>1, <1>4, <2>2, <2>5, <2>6, <2>7, <2>8
  <1>. QED
    BY <1>3, <1>4 DEF SubmitVote

LEMMA GetTopStoryBallots ==
  ASSUME BallotInv, NEW i \in DOMAIN rounds, GetTopStory(i)
  PROVE  OneBallotEach' /\ Kept /\ DOMAIN stories' = DOMAIN stories /\ votes' = votes
  <1> DEFINE w == Winner(i)
             marked == [stories EXCEPT ![w].isRevealed = TRUE]
  <1>1. /\ stories \in Seq(Stories) /\ DOMAIN stories = 1..Len(stories) /\ Len(stories) \in Nat
        /\ DOMAIN votes = 1..Len(votes) /\ Len(votes) \in Nat
    BY RowsOf DEF BallotInv
  <1>2. votes' = votes /\ stories' \in {stories, marked}
    BY DEF GetTopStory
  <1>3. Inv'
    BY GetTopStoryKeeps DEF BallotInv
  <1>4. DOMAIN stories' = DOMAIN stories /\ Len(stories') = Len(stories)
    <2>1. DOMAIN stories' = DOMAIN stories
      BY <1>2
    <2>2. stories' \in Seq(Stories)
      BY <1>3 DEF Inv, RowsTyped
    <2>. QED
      BY <1>1, <2>1, <2>2
  <1>5. \A s \in DOMAIN stories :
          stories'[s].round = stories[s].round /\ stories'[s].author = stories[s].author
    <2> SUFFICES ASSUME NEW s \in DOMAIN stories
                 PROVE  stories'[s].round = stories[s].round /\ stories'[s].author = stories[s].author
      OBVIOUS
    <2>1. stories[s] \in Stories
      BY <1>1
    <2>2. stories'[s] \in {stories[s], [stories[s] EXCEPT !.isRevealed = TRUE]}
      BY <1>2
    <2>. QED
      BY <2>1, <2>2 DEF Stories
  <1>6. OneBallotEach'
    BY <1>2, <1>4, <1>5 DEF BallotInv, OneBallotEach
  <1>7. Kept
    BY <1>1, <1>2, <1>4, <1>5 DEF Kept
  <1>. QED
    BY <1>2, <1>4, <1>6, <1>7

\* What one step does to the ballots, whoever takes it.
Ballots ==
  /\ Kept
  /\ \A s \in DOMAIN stories' \ DOMAIN stories :
       /\ Playable(game, stories'[s].round, "writing")
       /\ Playable(game', stories'[s].round, "writing")
       /\ OnTime(game', stories'[s].round)
  /\ \A v \in DOMAIN votes' \ DOMAIN votes :
       Playable(game', votes'[v].round, "voting") /\ OnTime(game', votes'[v].round)

LEMMA NextBallots ==
  ASSUME BallotInv, Next
  PROVE  BallotInv' /\ Ballots
  <1>1. Inv'
    BY NextKeeps DEF BallotInv
  <1>2. CASE UNCHANGED <<stories, votes>>
    BY <1>1, <1>2, UnchangedBallots DEF BallotInv, Ballots
  <1>3. ASSUME NEW p \in Players, NEW i \in DOMAIN rounds, SubmitStory(p, i)
        PROVE  BallotInv' /\ Ballots
    <2>1. votes' = votes
      BY <1>3 DEF SubmitStory
    <2>. QED
      BY <1>1, <1>3, <2>1, SubmitStoryBallots DEF BallotInv, Ballots
  <1>4. ASSUME NEW p \in Players, NEW i \in DOMAIN rounds, NEW s \in DOMAIN stories,
               SubmitVote(p, i, s)
        PROVE  BallotInv' /\ Ballots
    <2>1. stories' = stories
      BY <1>4 DEF SubmitVote
    <2>. QED
      BY <1>1, <1>4, <2>1, SubmitVoteBallots DEF BallotInv, Ballots
  <1>5. ASSUME NEW i \in DOMAIN rounds, GetTopStory(i)
        PROVE  BallotInv' /\ Ballots
    BY <1>1, <1>5, GetTopStoryBallots DEF BallotInv, Ballots
  <1>6. \/ UNCHANGED <<stories, votes>>
        \/ \E p \in Players, i \in DOMAIN rounds : SubmitStory(p, i)
        \/ \E p \in Players, i \in DOMAIN rounds, s \in DOMAIN stories : SubmitVote(p, i, s)
        \/ \E i \in DOMAIN rounds : GetTopStory(i)
    <2>1. Tick \/ GetRoomState => UNCHANGED <<stories, votes>>
      BY DEF Tick, GetRoomState
    <2>2. \A p \in Players :
            CreateRoom(p) \/ JoinRoom(p) \/ LeaveRoom(p) => UNCHANGED <<stories, votes>>
      BY DEF CreateRoom, JoinRoom, LeaveRoom
    <2>3. \A p \in Players :
            StartGame(p) \/ PauseRound(p) \/ NextRound(p) => UNCHANGED <<stories, votes>>
      BY DEF StartGame, PauseRound, NextRound
    <2>4. \A i \in DOMAIN rounds : ReadRound(i) => UNCHANGED <<stories, votes>>
      BY DEF ReadRound
    <2>. QED
      BY <2>1, <2>2, <2>3, <2>4 DEF Next
  <1>. QED
    BY <1>2, <1>3, <1>4, <1>5, <1>6

\* The invariant behind what follows: sound rows and ballots.
THEOREM BallotInvariance == Spec => []BallotInv
  <1>1. Init => BallotInv
    BY InitInv DEF BallotInv, Init, OneBallotEach
  <1>2. BallotInv /\ [Next]_vars => BallotInv'
    <2>1. BallotInv /\ UNCHANGED vars => BallotInv'
      BY StutterKeeps DEF BallotInv, OneBallotEach, vars
    <2>. QED
      BY <2>1, NextBallots
  <1>. QED
    BY <1>1, <1>2, PTL DEF Spec

\* Nobody ever has two stories or two votes in a round, votes across rounds,
\* or votes for themselves.
THEOREM OneBallotPerPlayer == Spec => []OneBallotEach
  BY BallotInvariance, PTL DEF BallotInv

\* Stories only ever arrive while their round is written, votes while it is
\* voted on, and neither is withdrawn or rewritten.
THEOREM BallotsArriveInPhase == Spec => BallotsInPhase
  <1>1. BallotInv /\ Next => TimelyBallots
    BY NextBallots DEF Ballots, Kept, TimelyBallots
  <1>2. BallotInv /\ [Next]_vars => [TimelyBallots]_vars
    BY <1>1
  <1>. QED
    BY <1>2, BallotInvariance, PTL DEF Spec, BallotsInPhase

-----------------------------------------------------------------------------
(* A room past its lifetime.                                               *)

LEMMA SyncPast ==
  ASSUME NEW g \in Games, now > g.room.expiresAt
  PROVE  /\ Expire(g).room.status = "expired" /\ Expire(g).rounds = g.rounds
         /\ \A i : SyncRound(g, i) = Expire(g)
         /\ SyncCurrent(g).rounds = g.rounds
         /\ SyncCurrent(Expire(g)) = Expire(g)
  <1> DEFINE e == Expire(g)
  <1>1. e = WithStatus(g, "expired") /\ e.room.expiresAt = g.room.expiresAt
    BY DEF Expire, WithStatus, Games, Rooms
  <1>2. e.room.status = "expired" /\ e.rounds = g.rounds /\ e \in Games
    BY <1>1, WithStatusGame DEF RoomStatus
  <1>3. Expire(e) = e
    BY <1>1, <1>2 DEF Expire, WithStatus, Games, Rooms
  <1>4. \A i : SyncRound(g, i) = e /\ SyncRound(e, i) = e
    BY <1>2, <1>3 DEF SyncRound, Due
  <1> HIDE DEF e
  <1>. QED
    BY <1>2, <1>3, <1>4 DEF SyncCurrent, e

\* What no request does to a room it finds past its lifetime.
Dead ==
  /\ Len(rounds') = Len(rounds)
  /\ \A i \in DOMAIN rounds : rounds'[i].status = rounds[i].status
  /\ stories' = stories /\ votes' = votes
  /\ \A p \in Players : user[p] = "absent" => user'[p] = "absent"

\* Clock marks may still move: PauseRound writes before it looks at the clock.
LEMMA PauseMarksOnly ==
  ASSUME Inv, now > room.expiresAt, NEW round \in Rounds, rounds # <<>>,
         round.status = rounds[Len(rounds)].status, NEW status \in RoomStatus,
         NEW h, h = SyncCurrent(WithStatus(WithRound(game, Len(rounds), round), status))
  PROVE  /\ Len(h.rounds) = Len(rounds)
         /\ \A i \in DOMAIN rounds : h.rounds[i].status = rounds[i].status
  <1> DEFINE k == WithRound(game, Len(rounds), round)
             g == WithStatus(k, status)
  <1>1. game \in Games /\ game.rounds = rounds /\ game.room = room /\ rounds \in Seq(Rounds)
    BY DEF Inv, Sound, Games, game
  <1>2. k \in Games /\ k.rounds = [rounds EXCEPT ![Len(rounds)] = round] /\ k.room = room
    BY <1>1, ReplaceRow DEF WithRound, Games
  <1>3. g \in Games /\ g.rounds = k.rounds /\ g.room.expiresAt = room.expiresAt
    BY <1>2 DEF WithStatus, Games, Rooms
  <1> HIDE DEF g, k
  <1>4. h.rounds = g.rounds
    BY <1>3, SyncPast DEF g, k
  <1>. QED
    BY <1>1, <1>2, <1>3, <1>4

LEMMA NextDead ==
  ASSUME Inv, Next, room.status # "none", now > room.expiresAt
  PROVE  Dead
  <1> DEFINE e == Expire(game)
  <1>1. /\ game \in Games /\ game.rounds = rounds /\ game.room = room
        /\ rounds \in Seq(Rounds) /\ now \in Nat /\ Sound(game, HostHere)
    BY SyncKeeps DEF Games, game
  <1>2. /\ e.room.status = "expired" /\ e.rounds = rounds
        /\ \A i : SyncRound(game, i) = e
        /\ SyncCurrent(game).rounds = rounds /\ SyncCurrent(e) = e
    BY <1>1, SyncPast
  <1> HIDE DEF e
  <1>3. CASE Tick
    BY <1>3 DEF Tick, Dead
  <1>4. CASE GetRoomState
    BY <1>2, <1>4 DEF GetRoomState, Commit, Dead, e
  <1>5. ASSUME NEW p \in Players, JoinRoom(p) PROVE Dead
    BY <1>2, <1>5 DEF JoinRoom, Commit, Dead, e
  <1>6. ASSUME NEW p \in Players, LeaveRoom(p) PROVE Dead
    <2> DEFINE closed == WithStatus(game, "finished")
    <2>1. closed \in Games /\ closed.rounds = rounds /\ now > closed.room.expiresAt
      BY <1>1 DEF WithStatus, Games, Rooms, RoomStatus
    <2>2. SyncCurrent(closed).rounds = rounds
      BY <2>1, SyncPast
    <2>3. rounds' = rounds
      BY <1>2, <1>6, <2>2 DEF LeaveRoom, Commit
    <2>4. \A q \in Players : user[q] = "absent" => user'[q] = "absent"
      BY <1>6 DEF LeaveRoom, Inv, RowsTyped
    <2>. QED
      BY <1>6, <2>3, <2>4 DEF LeaveRoom, Dead
  <1>7. ASSUME NEW p \in Players, StartGame(p) PROVE Dead
    BY <1>2, <1>7 DEF StartGame, Commit, Dead, e
  <1>8. ASSUME NEW p \in Players, PauseRound(p) PROVE Dead
    <2> DEFINE r == rounds[Len(rounds)]
    <2>1. room.status \in {"active", "paused"} /\ rounds # <<>>
      BY <1>1, <1>8 DEF PauseRound, Sound, SoundStatus
    <2>2. Len(rounds) \in 1..Len(rounds) /\ r \in Rounds /\ r.pausedAt <= now
      BY <1>1, <2>1, RowAt DEF Sound, SoundRounds
    <2>3. [r EXCEPT !.pausedAt = now] \in Rounds /\ [r EXCEPT !.pausedAt = now].status = r.status
      BY <1>1, <2>2 DEF Rounds
    <2>4. Resumed(r) \in Rounds /\ Resumed(r).status = r.status
      <3>1. Resumed(r) \in Rounds
        BY <1>1, <2>2, LifecycleRows DEF Succeeds
      <3>. QED
        BY <3>1, <2>2 DEF Resumed, Rounds
    <2>5. PICK h : Commit(h) /\ \/ h = SyncCurrent(Paused(game))
                                \/ h = SyncCurrent(Unpaused(game))
      BY <1>8 DEF PauseRound
    <2>6. /\ Paused(game) = WithStatus(WithRound(game, Len(rounds), [r EXCEPT !.pausedAt = now]), "paused")
          /\ Unpaused(game) = WithStatus(WithRound(game, Len(rounds), Resumed(r)), "active")
      BY <1>1, <2>1 DEF Paused, Unpaused, OnCurrent, Current
    <2>7. /\ Len(h.rounds) = Len(rounds)
          /\ \A i \in DOMAIN rounds : h.rounds[i].status = rounds[i].status
      <3> HIDE DEF r
      <3>1. CASE h = SyncCurrent(Paused(game))
        <4> DEFINE marked == [r EXCEPT !.pausedAt = now]
        <4>1. marked \in Rounds /\ marked.status = rounds[Len(rounds)].status
          BY <2>3 DEF r
        <4>2. h = SyncCurrent(WithStatus(WithRound(game, Len(rounds), marked), "paused"))
          BY <2>6, <3>1
        <4> HIDE DEF marked
        <4>. QED
          BY <2>1, <4>1, <4>2, PauseMarksOnly DEF RoomStatus
      <3>2. CASE h = SyncCurrent(Unpaused(game))
        <4>1. Resumed(r) \in Rounds /\ Resumed(r).status = rounds[Len(rounds)].status
          BY <2>4 DEF r
        <4>2. h = SyncCurrent(WithStatus(WithRound(game, Len(rounds), Resumed(r)), "active"))
          BY <2>6, <3>2
        <4>. QED
          BY <2>1, <4>1, <4>2, PauseMarksOnly DEF RoomStatus
      <3>. QED
        BY <2>5, <3>1, <3>2
    <2>. QED
      BY <1>8, <2>5, <2>7 DEF PauseRound, Commit, Dead
  <1>9. ASSUME NEW p \in Players, NextRound(p) PROVE Dead
    BY <1>2, <1>9 DEF NextRound, Commit, Dead, e
  <1>10. ASSUME NEW p \in Players, NEW i \in DOMAIN rounds, SubmitStory(p, i) PROVE Dead
    BY <1>2, <1>10 DEF SubmitStory, Playable, Commit, Dead
  <1>11. ASSUME NEW p \in Players, NEW i \in DOMAIN rounds, NEW s \in DOMAIN stories,
                SubmitVote(p, i, s)
         PROVE  Dead
    BY <1>2, <1>11 DEF SubmitVote, Playable, Commit, Dead
  <1>12. ASSUME NEW i \in DOMAIN rounds, ReadRound(i) \/ GetTopStory(i) PROVE Dead
    BY <1>2, <1>12 DEF ReadRound, GetTopStory, Commit, Dead
  <1>13. \A p \in Players : ~CreateRoom(p)
    BY DEF CreateRoom
  <1>. QED
    BY <1>3, <1>4, <1>5, <1>6, <1>7, <1>8, <1>9, <1>10, <1>11, <1>12, <1>13 DEF Next

\* A request that finds the room past its lifetime plays no part of the game.
THEOREM ExpiredRoomIsDead == Spec => ExpiredIsDead
  <1>1. Inv /\ Next => (room.status # "none" /\ now > room.expiresAt => Dead)
    BY NextDead
  <1>2. Inv /\ [Next]_vars => [room.status # "none" /\ now > room.expiresAt => Dead]_vars
    BY <1>1
  <1>. QED
    BY <1>2, Invariance, PTL DEF Spec, ExpiredIsDead, Dead

-----------------------------------------------------------------------------
(* A room that is paused.                                                  *)

LEMMA SyncStill ==
  ASSUME NEW g \in Games, g.room.status # "active"
  PROVE  /\ \A i : SyncRound(g, i).rounds = g.rounds
         /\ \A i : SyncRound(g, i).room.status \in {g.room.status, "expired"}
         /\ SyncCurrent(g).rounds = g.rounds
         /\ SyncCurrent(g).room.status \in {g.room.status, "expired"}
  <1> DEFINE e == Expire(g)
  <1>1. e \in Games /\ e.rounds = g.rounds /\ e.room.status \in {g.room.status, "expired"}
    BY WithStatusGame DEF Expire, RoomStatus
  <1>2. \A i : SyncRound(g, i) = e
    BY <1>1 DEF SyncRound, Due
  <1> HIDE DEF e
  <1>. QED
    BY <1>1, <1>2 DEF SyncCurrent

LEMMA SyncCurrentStatus ==
  ASSUME NEW g \in Games, g.room.status # "paused"
  PROVE  SyncCurrent(g).room.status # "paused"
  <1> DEFINE e == Expire(g)
  <1>1. e \in Games /\ e.room.status # "paused"
    BY WithStatusGame DEF Expire, RoomStatus
  <1>2. \A i : SyncRound(g, i).room = e.room
    BY <1>1 DEF SyncRound, WithRound, Games
  <1> HIDE DEF e
  <1>. QED
    BY <1>1, <1>2 DEF SyncCurrent

LEMMA ExpireStill ==
  ASSUME NEW g \in Games
  PROVE  /\ Expire(g) \in Games /\ Expire(g).rounds = g.rounds
         /\ Expire(g).room.status \in {g.room.status, "expired"}
  BY WithStatusGame DEF Expire, RoomStatus

LEMMA NextStill ==
  ASSUME Inv, Next, room.status = "paused", room'.status = "paused"
  PROVE  rounds' = rounds \/ NextRound(room.hostID)
  <1> DEFINE e == Expire(game)
  <1>1. game \in Games /\ game.rounds = rounds /\ game.room = room
    BY DEF Inv, Sound, game
  <1>2. e \in Games /\ e.rounds = rounds /\ e.room.status \in {"paused", "expired"}
    BY <1>1, ExpireStill
  <1>3. /\ \A i : SyncRound(game, i).rounds = rounds
        /\ SyncCurrent(game).rounds = rounds /\ SyncCurrent(e).rounds = rounds
    <2> HIDE DEF e
    <2>. QED
      BY <1>1, <1>2, SyncStill
  <1> HIDE DEF e
  <1>4. CASE Tick \/ GetRoomState
    BY <1>3, <1>4 DEF Tick, GetRoomState, Commit, e
  <1>5. ASSUME NEW p \in Players, CreateRoom(p) \/ JoinRoom(p) PROVE rounds' = rounds
    BY <1>2, <1>5 DEF CreateRoom, JoinRoom, Commit, e
  <1>6. ASSUME NEW p \in Players, LeaveRoom(p) PROVE rounds' = rounds
    <2> DEFINE closed == WithStatus(game, "finished")
    <2>1. closed \in Games /\ closed.rounds = rounds /\ closed.room.status # "active"
      BY <1>1 DEF WithStatus, Games, Rooms, RoomStatus
    <2>2. SyncCurrent(closed).rounds = rounds
      BY <2>1, SyncStill
    <2>. QED
      BY <1>3, <1>6, <2>2 DEF LeaveRoom, Commit
  <1>7. Unpaused(game) \in Games /\ Unpaused(game).room.status = "active"
    <2>1. Sound(game, HostHere) /\ now \in Nat
      BY DEF Inv, RowsTyped
    <2>2. rounds # <<>>
      BY <1>1, <2>1 DEF Sound, SoundStatus, Games
    <2>3. Unpaused(game) \in Games
      BY <1>1, <2>1, HostHereBoolean, UnpausedStep DEF Step, Sound
    <2> DEFINE row == Resumed(rounds[Len(rounds)])
               k   == WithRound(game, Len(rounds), row)
    <2>4. Unpaused(game) = WithStatus(k, "active")
      BY <1>1, <2>2 DEF Unpaused, OnCurrent, Current
    <2> HIDE DEF row
    <2>5. k = [game EXCEPT !.rounds = [rounds EXCEPT ![Len(rounds)] = row]]
      BY <1>1 DEF WithRound, Games
    <2>6. WithStatus(k, "active").room.status = "active"
      BY <1>1, <2>5 DEF WithStatus, Games, Rooms
    <2>. QED
      BY <2>3, <2>4, <2>6
  <1>8. SyncCurrent(Unpaused(game)).room.status # "paused"
    BY <1>7, SyncCurrentStatus
  <1>9. ASSUME NEW p \in Players, StartGame(p) PROVE rounds' = rounds
    <2>1. e.room.status = "paused" => e = game
      BY <1>1 DEF e, Expire, WithStatus, Games, Rooms
    <2>2. \/ e.room.status = "paused" /\ Commit(SyncCurrent(Unpaused(e)))
          \/ Commit(e)
      BY <1>2, <1>9 DEF StartGame, e
    <2>. QED
      BY <1>2, <1>8, <2>1, <2>2 DEF Commit
  <1>10. ASSUME NEW p \in Players, PauseRound(p) PROVE FALSE
    BY <1>8, <1>10 DEF PauseRound, Commit
  <1>11. ASSUME NEW p \in Players, NextRound(p) PROVE NextRound(room.hostID)
    BY <1>11 DEF NextRound
  <1>12. ASSUME NEW p \in Players, NEW i \in DOMAIN rounds, SubmitStory(p, i) PROVE rounds' = rounds
    BY <1>3, <1>12 DEF SubmitStory, Commit
  <1>13. ASSUME NEW p \in Players, NEW i \in DOMAIN rounds, NEW s \in DOMAIN stories,
                SubmitVote(p, i, s)
         PROVE  rounds' = rounds
    BY <1>3, <1>13 DEF SubmitVote, Commit
  <1>14. ASSUME NEW i \in DOMAIN rounds, ReadRound(i) \/ GetTopStory(i) PROVE rounds' = rounds
    BY <1>3, <1>14 DEF ReadRound, GetTopStory, Commit
  <1>. QED
    BY <1>4, <1>5, <1>6, <1>9, <1>10, <1>11, <1>12, <1>13, <1>14 DEF Next

\* While a room stays paused, only the host's "next" touches its rounds.
THEOREM PausedRoomStandsStill == Spec => PauseHolds
  <1> DEFINE A == room.status = "paused" /\ room'.status = "paused" =>
                    \/ rounds' = rounds
                    \/ NextRound(room.hostID)
  <1>1. Inv /\ Next => A
    BY NextStill
  <1>2. Inv /\ [Next]_vars => [A]_vars
    BY <1>1
  <1>. QED
    BY <1>2, Invariance, PTL DEF Spec, PauseHolds

-----------------------------------------------------------------------------
(* The winner of a round.  That a finite set of stories has one is an      *)
(* induction over numbers, which is had from the library's theorem that    *)
(* the natural numbers are well-founded.                                   *)

\* A set of natural numbers that is not empty has a least element.
LEMMA LeastNumber ==
  ASSUME NEW T, T \subseteq Nat, T # {}
  PROVE  \E m \in T : \A n \in T : m <= n
  <1> DEFINE R == {pair \in Nat \X Nat : pair[1] < pair[2]}
  <1>1. IsWellFoundedOn(R, Nat)
    BY NatLessThanWellFounded DEF OpToRel, IsWellFoundedOn
  <1>2. PICK m \in T : \A n \in T : <<n, m>> \notin R
    <2> HIDE DEF R
    <2>. QED
      BY <1>1, WFMin
  <1>3. ASSUME NEW n \in T PROVE m <= n
    <2>1. n \in Nat /\ m \in Nat /\ <<n, m>> \in Nat \X Nat
      OBVIOUS
    <2>2. ~ (n < m)
      BY <1>2, <2>1
    <2>. QED
      BY <2>1, <2>2
  <1>. QED
    BY <1>3

\* Of numbers that are rated one has the highest rating, and the least of those is
\* the first of them.
LEMMA FirstOfTheBest ==
  ASSUME NEW T, T \subseteq Nat, T # {}, NEW bound \in Nat,
         NEW rate, \A n \in T : rate[n] \in Nat /\ rate[n] <= bound
  PROVE  \E m \in T : \A n \in T : rate[m] > rate[n] \/ (rate[m] = rate[n] /\ m <= n)
  <1> DEFINE missing == {bound - rate[n] : n \in T}
  <1>1. missing \subseteq Nat /\ missing # {}
    <2>1. \A n \in T : bound - rate[n] \in Nat
      OBVIOUS
    <2>. QED
      BY <2>1
  <1>2. PICK least \in missing : \A k \in missing : least <= k
    BY <1>1, LeastNumber
  <1> DEFINE best == {n \in T : bound - rate[n] = least}
  <1>3. best \subseteq Nat /\ best # {}
    BY <1>2
  <1>4. PICK m \in best : \A n \in best : m <= n
    BY <1>3, LeastNumber
  <1>5. m \in T /\ \A n \in T : rate[m] > rate[n] \/ (rate[m] = rate[n] /\ m <= n)
    <2>1. m \in T /\ rate[m] = bound - least
      BY <1>4
    <2> SUFFICES ASSUME NEW n \in T
                 PROVE  rate[m] > rate[n] \/ (rate[m] = rate[n] /\ m <= n)
      BY <2>1
    <2>2. least <= bound - rate[n] /\ least \in Nat
      BY <1>1, <1>2
    <2>3. rate[n] = rate[m] => m <= n
      BY <1>4, <2>1
    <2>. QED
      BY <2>1, <2>2, <2>3
  <1>. QED
    BY <1>5

LEMMA VotesCounted ==
  ASSUME votes \in Seq(Votes), NEW s
  PROVE  Cardinality(VotesFor(s)) \in Nat /\ Cardinality(VotesFor(s)) <= Len(votes)
  <1>1. Len(votes) \in Nat /\ DOMAIN votes = 1..Len(votes)
    OBVIOUS
  <1>2. IsFiniteSet(1..Len(votes)) /\ Cardinality(1..Len(votes)) = Len(votes)
    BY <1>1, FS_Interval
  <1>3. VotesFor(s) \subseteq 1..Len(votes)
    BY <1>1 DEF VotesFor
  <1>. QED
    BY <1>2, <1>3, FS_Subset, FS_CardinalityType

\* Any stories have a winner among them (GetTopStory).
LEMMA WinnerExists ==
  ASSUME votes \in Seq(Votes), NEW T, T \subseteq Nat, T # {}
  PROVE  \E s \in T : \A t \in T : Beats(s, t)
  <1> DEFINE rate == [s \in T |-> Cardinality(VotesFor(s))]
  <1>1. \A s \in T : rate[s] \in Nat /\ rate[s] <= Len(votes) /\ Len(votes) \in Nat
    BY VotesCounted
  <1>2. \A s \in T : rate[s] = Cardinality(VotesFor(s))
    OBVIOUS
  <1> HIDE DEF rate
  <1>3. PICK s \in T : \A t \in T : rate[s] > rate[t] \/ (rate[s] = rate[t] /\ s <= t)
    BY <1>1, FirstOfTheBest
  <1>. QED
    BY <1>2, <1>3 DEF Beats

-----------------------------------------------------------------------------
(* The story that is marked stays the winner: a revealed round takes no    *)
(* story (they arrive while it is written) and no vote (they arrive while  *)
(* it is voted on), and a vote counts in the round of its story.           *)

StoriesKnown == \A s \in DOMAIN stories : stories[s].round \in DOMAIN rounds

MarkInv == BallotInv /\ StoriesKnown /\ MarkedStoryWins

\* What GetTopStory has found out about the story it marks.
Chosen(s, i) ==
  /\ DOMAIN stories' = DOMAIN stories /\ votes' = votes
  /\ rounds'[i].status = "revealed"
  /\ s \in StoriesOf(i) /\ \A t \in StoriesOf(i) : Beats(s, t)

\* Stories are written for a round that exists, and only a winner gets marked.
Marks ==
  \A s \in DOMAIN stories' :
    \/ s \in DOMAIN stories /\ stories'[s].isRevealed = stories[s].isRevealed
    \/ s \notin DOMAIN stories /\ ~stories'[s].isRevealed /\ stories'[s].round \in DOMAIN rounds
    \/ s \in DOMAIN stories /\ \E i \in DOMAIN rounds : Chosen(s, i)

LEMMA SubmitStoryMarks ==
  ASSUME Inv, NEW p \in Players, NEW i \in DOMAIN rounds, SubmitStory(p, i)
  PROVE  Marks
  <1> DEFINE story == [round |-> i, author |-> p, isRevealed |-> FALSE]
             n == Len(stories)
  <1>1. stories \in Seq(Stories) /\ DOMAIN stories = 1..n /\ n \in Nat
    BY RowsOf
  <1>2. CASE stories' = stories
    BY <1>2 DEF Marks
  <1>3. CASE stories' = Append(stories, story)
    <2>1. i \in Nat \ {0}
      BY RoundOfRoom, SyncKeeps, RowAt
    <2>2. story \in Stories
      BY <2>1 DEF Stories
    <2>3. /\ Append(stories, story) \in Seq(Stories) /\ Len(Append(stories, story)) = n + 1
          /\ Append(stories, story)[n + 1] = story
          /\ \A s \in 1..n : Append(stories, story)[s] = stories[s]
      BY <1>1, <2>2, AppendRow
    <2>4. DOMAIN stories' = 1..(n + 1)
      BY <1>1, <1>3, <2>3
    <2>5. \A s \in 1..n : stories'[s].isRevealed = stories[s].isRevealed
      BY <1>3, <2>3
    <2>6. ~stories'[n + 1].isRevealed /\ stories'[n + 1].round \in DOMAIN rounds
      BY <1>3, <2>3
    <2>. QED
      BY <1>1, <2>4, <2>5, <2>6 DEF Marks
  <1>. QED
    BY <1>2, <1>3 DEF SubmitStory

LEMMA GetTopStoryMarks ==
  ASSUME BallotInv, NEW i \in DOMAIN rounds, GetTopStory(i)
  PROVE  Marks
  <1> DEFINE w == Winner(i)
  <1>1. /\ stories \in Seq(Stories) /\ DOMAIN stories = 1..Len(stories) /\ Len(stories) \in Nat
        /\ votes \in Seq(Votes)
    BY RowsOf DEF BallotInv
  <1>2. CASE stories' = stories
    BY <1>2 DEF Marks
  <1>3. CASE /\ stories' = [stories EXCEPT ![w].isRevealed = TRUE]
             /\ SyncRound(game, i).rounds[i].status = "revealed"
             /\ StoriesOf(i) # {}
             /\ Commit(SyncRound(game, i))
    <2>1. DOMAIN stories' = DOMAIN stories /\ votes' = votes
      BY GetTopStoryBallots
    <2>2. StoriesOf(i) \subseteq Nat
      BY <1>1 DEF StoriesOf
    <2>3. w \in StoriesOf(i) /\ \A t \in StoriesOf(i) : Beats(w, t)
      <3>1. \E s \in StoriesOf(i) : \A t \in StoriesOf(i) : Beats(s, t)
        BY <1>1, <1>3, <2>2, WinnerExists
      <3>. QED
        BY <3>1 DEF Winner
    <2>4. rounds'[i].status = "revealed"
      BY <1>3 DEF Commit
    <2>5. Chosen(w, i)
      BY <2>1, <2>3, <2>4 DEF Chosen
    <2> HIDE DEF w
    <2>6. \A s \in DOMAIN stories : s = w \/ stories'[s] = stories[s]
      BY <1>3
    <2>. QED
      BY <2>1, <2>5, <2>6 DEF Marks
  <1>. QED
    BY <1>2, <1>3 DEF GetTopStory

LEMMA NextMarks ==
  ASSUME BallotInv, Next
  PROVE  Marks
  <1>1. CASE stories' = stories
    BY <1>1 DEF Marks
  <1>2. ASSUME NEW p \in Players, NEW i \in DOMAIN rounds, SubmitStory(p, i) PROVE Marks
    BY <1>2, SubmitStoryMarks DEF BallotInv
  <1>3. ASSUME NEW i \in DOMAIN rounds, GetTopStory(i) PROVE Marks
    BY <1>3, GetTopStoryMarks
  <1>4. \/ stories' = stories
        \/ \E p \in Players, i \in DOMAIN rounds : SubmitStory(p, i)
        \/ \E i \in DOMAIN rounds : GetTopStory(i)
    <2>1. Tick \/ GetRoomState => stories' = stories
      BY DEF Tick, GetRoomState
    <2>2. \A p \in Players : CreateRoom(p) \/ JoinRoom(p) \/ LeaveRoom(p) => stories' = stories
      BY DEF CreateRoom, JoinRoom, LeaveRoom
    <2>3. \A p \in Players : StartGame(p) \/ PauseRound(p) \/ NextRound(p) => stories' = stories
      BY DEF StartGame, PauseRound, NextRound
    <2>4. \A i \in DOMAIN rounds : ReadRound(i) => stories' = stories
      BY DEF ReadRound
    <2>5. \A p \in Players, i \in DOMAIN rounds, s \in DOMAIN stories :
            SubmitVote(p, i, s) => stories' = stories
      BY DEF SubmitVote
    <2>. QED
      BY <2>1, <2>2, <2>3, <2>4, <2>5 DEF Next
  <1>. QED
    BY <1>1, <1>2, <1>3, <1>4

\* A revealed round stays revealed, with the stories and votes it has.
LEMMA RevealedSettled ==
  ASSUME BallotInv, BallotInv', Ballots, Forward(game, game'),
         NEW i \in DOMAIN rounds, rounds[i].status = "revealed"
  PROVE  /\ rounds'[i].status = "revealed"
         /\ StoriesOf(i)' = StoriesOf(i)
         /\ \A s \in StoriesOf(i) : VotesFor(s)' = VotesFor(s)
  <1>1. /\ DOMAIN stories = 1..Len(stories) /\ DOMAIN votes = 1..Len(votes)
        /\ Len(stories) \in Nat /\ Len(votes) \in Nat
        /\ game \in Games /\ game.rounds = rounds /\ rounds \in Seq(Rounds)
    BY RowsOf, SyncKeeps DEF BallotInv, game, Games
  <1>2. /\ DOMAIN stories' = 1..Len(stories') /\ DOMAIN votes' = 1..Len(votes')
        /\ Len(stories') \in Nat /\ Len(votes') \in Nat
        /\ game' \in Games /\ (game').rounds = rounds' /\ rounds' \in Seq(Rounds)
    BY RowsOf, SyncKeeps DEF BallotInv, Inv, RowsTyped, Sound, Games, game
  <1>3. /\ DOMAIN stories \subseteq DOMAIN stories' /\ DOMAIN votes \subseteq DOMAIN votes'
        /\ \A s \in DOMAIN stories : stories'[s].round = stories[s].round
        /\ \A v \in DOMAIN votes : votes'[v] = votes[v]
    BY <1>1, <1>2 DEF Ballots, Kept
  <1>4. rounds'[i].status = "revealed"
    <2>1. i \in 1..Len(rounds) /\ i \in 1..Len(rounds')
      BY <1>1, <1>2 DEF Forward
    <2>2. rounds'[i] \in Rounds
      BY <1>2, <2>1
    <2>3. Phase(rounds[i].status) <= Phase(rounds'[i].status)
      BY <1>1, <1>2, <2>1 DEF Forward
    <2>. QED
      BY <2>2, <2>3 DEF Phase, Rounds, RoundStatus
  <1>5. \A s \in DOMAIN stories' \ DOMAIN stories : stories'[s].round # i
    BY <1>1 DEF Ballots, Playable
  <1>6. StoriesOf(i)' = StoriesOf(i)
    BY <1>3, <1>5 DEF StoriesOf
  <1>7. \A v \in DOMAIN votes' \ DOMAIN votes : votes'[v].round # i
    BY <1>2, <1>4 DEF Ballots, Playable
  <1>8. ASSUME NEW s \in StoriesOf(i) PROVE VotesFor(s)' = VotesFor(s)
    <2>1. s \in DOMAIN stories /\ stories'[s].round = i
      BY <1>3, <1>8 DEF StoriesOf
    <2>2. \A v \in DOMAIN votes' : votes'[v].story = s => votes'[v].round = i
      BY <2>1 DEF BallotInv, OneBallotEach
    <2>. QED
      BY <1>3, <1>7, <2>2 DEF VotesFor
  <1>. QED
    BY <1>4, <1>6, <1>8

LEMMA NextKeepsMarks ==
  ASSUME MarkInv, Next
  PROVE  MarkInv'
  <1>1. BallotInv /\ BallotInv' /\ Ballots /\ Marks /\ Forward(game, game')
    BY NextBallots, NextMarks, NextKeeps DEF MarkInv, BallotInv
  <1>2. /\ \A s \in DOMAIN stories : stories'[s].round = stories[s].round
        /\ DOMAIN rounds \subseteq DOMAIN rounds'
    <2>1. rounds \in Seq(Rounds) /\ rounds' \in Seq(Rounds) /\ Len(rounds) <= Len(rounds')
      BY <1>1 DEF BallotInv, Inv, Sound, Games, game, Forward
    <2>. QED
      BY <1>1, <2>1 DEF Ballots, Kept
  <1>3. StoriesKnown'
    BY <1>1, <1>2 DEF MarkInv, StoriesKnown, Marks
  <1>4. MarkedStoryWins'
    <2> SUFFICES ASSUME NEW s \in DOMAIN stories', stories'[s].isRevealed,
                        NEW i, i = stories'[s].round
                 PROVE  /\ rounds'[i].status = "revealed"
                        /\ \A t \in StoriesOf(i)' : Beats(s, t)'
      BY DEF MarkedStoryWins, StoriesOf
    <2>1. CASE s \in DOMAIN stories /\ stories[s].isRevealed
      <3>1. stories[s].round = i
        BY <1>2, <2>1
      <3>2. /\ i \in DOMAIN rounds /\ rounds[i].status = "revealed" /\ s \in StoriesOf(i)
            /\ \A t \in StoriesOf(i) : Beats(s, t)
        BY <2>1, <3>1 DEF MarkInv, StoriesKnown, MarkedStoryWins, StoriesOf
      <3>3. /\ rounds'[i].status = "revealed" /\ StoriesOf(i)' = StoriesOf(i)
            /\ \A t \in StoriesOf(i) : VotesFor(t)' = VotesFor(t)
        BY <1>1, <3>2, RevealedSettled
      <3>. QED
        <4>1. \A t \in StoriesOf(i) : Beats(s, t)'
          BY <3>2, <3>3 DEF Beats
        <4>. QED
          BY <3>3, <4>1
    <2>2. ASSUME s \in DOMAIN stories, NEW j \in DOMAIN rounds, Chosen(s, j)
          PROVE  /\ rounds'[i].status = "revealed"
                 /\ \A t \in StoriesOf(i)' : Beats(s, t)'
      <3>1. i = j
        BY <1>2, <2>2 DEF Chosen, StoriesOf
      <3>2. StoriesOf(i)' = StoriesOf(i)
        BY <1>2, <2>2 DEF Chosen, StoriesOf
      <3>3. \A t : VotesFor(t)' = VotesFor(t)
        BY <2>2 DEF Chosen, VotesFor
      <3>4. \A t \in StoriesOf(i) : Beats(s, t)'
        BY <2>2, <3>1, <3>3 DEF Chosen, Beats
      <3>. QED
        BY <2>2, <3>1, <3>2, <3>4 DEF Chosen
    <2>. QED
      BY <1>1, <2>1, <2>2 DEF Marks
  <1>. QED
    BY <1>1, <1>3, <1>4 DEF MarkInv

\* Whoever asks for the top story of a round, and however often, every story
\* that was ever marked is the one that beats all others of its round.
THEOREM MarkedStoryStaysWinner == Spec => []MarkedStoryWins
  <1>1. Init => MarkInv
    BY InitInv DEF MarkInv, BallotInv, Init, OneBallotEach, StoriesKnown, MarkedStoryWins
  <1>2. MarkInv /\ [Next]_vars => MarkInv'
    <2>1. MarkInv /\ UNCHANGED vars => MarkInv'
      BY StutterKeeps DEF MarkInv, BallotInv, OneBallotEach, StoriesKnown, MarkedStoryWins,
         StoriesOf, Beats, VotesFor, vars
    <2>. QED
      BY <2>1, NextKeepsMarks
  <1>. QED
    BY <1>1, <1>2, PTL DEF Spec, MarkInv

=============================================================================
