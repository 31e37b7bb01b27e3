------------------------ MODULE ThreeLiesRoomProofs ------------------------
(***************************************************************************)
(* The inductive invariant of ThreeLiesRoom and the theorems that follow.  *)
(*                                                                         *)
(* As in ClassicRoomProofs the argument is about games, which the handlers *)
(* compose functions on.  A game is sound when its rounds follow each      *)
(* other, its truth sets are presented in their order, and the status of   *)
(* the room agrees with both.                                              *)
(***************************************************************************)
EXTENDS ThreeLiesRoom, FiniteSetTheorems, WellFoundedInduction, TLAPS

Games == [room : Rooms, rounds : Seq(Rounds), sets : Seq(TruthSets), score : [Players -> Nat]]

\* Rounds are numbered one by one, and a clock runs in all but those over.
RoundSound(g, i) ==
  LET r == g.rounds[i]
  IN  /\ r.number = i /\ i <= MaxRounds /\ r.pausedAt <= now
      /\ r.phaseEndsAt = NoTime <=> r.status = "finished"
      /\ i < Len(g.rounds) => r.status = "finished"

\* PresentedInOrder of one round, and no order is given twice.
Presented(g, i) ==
  LET mine   == SetsOf(g, i)
      active == g.rounds[i].active
  IN  IF g.rounds[i].status \in {"countdown", "writing"}
        THEN active = 0 /\ \A s \in mine : g.sets[s].order = 0 /\ ~g.sets[s].scored
        ELSE /\ active \in mine
             /\ {g.sets[s].order : s \in mine} = 1..Cardinality(mine)
             /\ \A s, t \in mine : g.sets[s].order = g.sets[t].order => s = t
             /\ \A s \in mine :
                  g.sets[s].scored <=>
                    \/ g.sets[s].order < g.sets[active].order
                    \/ s = active /\ g.rounds[i].status # "presentation_voting"
                    \/ g.rounds[i].status = "finished"

\* A truth set is written for a round there is, one by each author.
SetsSound(g) ==
  /\ \A s \in 1..Len(g.sets) : g.sets[s].round \in 1..Len(g.rounds)
  /\ \A s, t \in 1..Len(g.sets) :
       g.sets[s].round = g.sets[t].round /\ g.sets[s].author = g.sets[t].author => s = t

Core(g) ==
  /\ g \in Games /\ SetsSound(g)
  /\ \A i \in 1..Len(g.rounds) : RoundSound(g, i) /\ Presented(g, i)

\* What the status of the room says of its last round; hostHere says whether
\* the host is still a member.
StatusSound(g, hostHere) ==
  /\ g.room.status \in {"none", "waiting"} => Len(g.rounds) = 0
  /\ g.room.status \in {"active", "paused"} =>
       Len(g.rounds) # 0 /\ g.rounds[Len(g.rounds)].status # "finished"
  /\ g.room.status = "finished" /\ hostHere =>
       Len(g.rounds) = MaxRounds /\ g.rounds[MaxRounds].status = "finished"
  /\ g.room.status = "active" => g.rounds[Len(g.rounds)].pausedAt = NoTime

Sound(g, hostHere) == Core(g) /\ StatusSound(g, hostHere)

StageOf(g, i) ==
  LET r == g.rounds[i]
      order == IF r.active = 0 THEN 0 ELSE g.sets[r.active].order
  IN  CASE r.status = "countdown" -> 1
        [] r.status = "writing" -> 2
        [] r.status = "presentation_voting" -> 3 * order
        [] r.status = "reveal" -> 3 * order + 1
        [] r.status = "commentary" -> 3 * order + 2
        [] r.status = "finished" -> 3 * (Cardinality(SetsOf(g, i)) + 1)

\* From g to h no row is lost, and no round moves on by more than n phases, or back.
Forward(g, h, n) ==
  /\ Len(g.rounds) <= Len(h.rounds) /\ Len(g.sets) <= Len(h.sets)
  /\ \A i \in 1..Len(g.rounds) : StageOf(h, i) - StageOf(g, i) \in 0..n

\* What a function of the lifecycle may do to a game.
Reaches(g, h, n) == Core(h) /\ Forward(g, h, n)

\* What a handler may do to a game: keep it sound, keep its host, move a round
\* on by n phases at most, and neither make nor unmake the room.
Step(g, h, hostHere, n) ==
  /\ Reaches(g, h, n) /\ StatusSound(h, hostHere)
  /\ h.room.hostID = g.room.hostID
  /\ g.room.status # "none" => h.room.status # "none"

HostHere == user[room.hostID] = "member"

HostKnown ==
  IF room.status = "none"
    THEN \A p \in Players : user[p] = "absent"
    ELSE room.hostID \in Players /\ user[room.hostID] # "absent"

RowsTyped ==
  /\ postgres \in BOOLEAN /\ now \in Nat
  /\ user \in [Players -> {"absent", "member", "gone"}]
  /\ votes \subseteq Votes /\ IsFiniteSet(votes)
  /\ \A v \in votes : v.set \in 1..Len(sets)

Inv == RowsTyped /\ HostKnown /\ Sound(game, HostHere)

-----------------------------------------------------------------------------
(* Rows, and the stages of a round.                                        *)

LEMMA RowAt ==
  ASSUME NEW g \in Games
  PROVE  /\ g.rounds \in Seq(Rounds) /\ Len(g.rounds) \in Nat /\ DOMAIN g.rounds = 1..Len(g.rounds)
         /\ g.sets \in Seq(TruthSets) /\ Len(g.sets) \in Nat /\ DOMAIN g.sets = 1..Len(g.sets)
         /\ \A i \in 1..Len(g.rounds) :
              g.rounds[i] \in Rounds /\ g.rounds[i].status \in RoundStatus
         /\ \A s \in 1..Len(g.sets) : g.sets[s] \in TruthSets
  <1>1. /\ g.rounds \in Seq(Rounds) /\ Len(g.rounds) \in Nat /\ DOMAIN g.rounds = 1..Len(g.rounds)
        /\ g.sets \in Seq(TruthSets) /\ Len(g.sets) \in Nat /\ DOMAIN g.sets = 1..Len(g.sets)
    BY DEF Games
  <1>2. ASSUME NEW i \in 1..Len(g.rounds)
        PROVE  g.rounds[i] \in Rounds
    BY <1>1
  <1>3. \A round \in Rounds : round.status \in RoundStatus
    BY DEF Rounds
  <1>4. ASSUME NEW s \in 1..Len(g.sets)
        PROVE  g.sets[s] \in TruthSets
    BY <1>1
  <1>. QED
    BY <1>1, <1>2, <1>3, <1>4

LEMMA AppendRow ==
  ASSUME NEW S, NEW seq \in Seq(S), NEW row \in S
  PROVE  /\ Append(seq, row) \in Seq(S)
         /\ Len(Append(seq, row)) = Len(seq) + 1
         /\ Append(seq, row)[Len(seq) + 1] = row
         /\ \A i \in 1..Len(seq) : Append(seq, row)[i] = seq[i]
  OBVIOUS

LEMMA ReplaceRow ==
  ASSUME NEW S, NEW seq \in Seq(S), NEW row \in S, NEW i \in 1..Len(seq)
  PROVE  /\ [seq EXCEPT ![i] = row] \in Seq(S)
         /\ Len([seq EXCEPT ![i] = row]) = Len(seq)
         /\ [seq EXCEPT ![i] = row][i] = row
         /\ \A j \in 1..Len(seq) : j # i => [seq EXCEPT ![i] = row][j] = seq[j]
  OBVIOUS

\* The truth sets of a round are finitely many.
LEMMA SetsOfRound ==
  ASSUME NEW g \in Games, NEW i
  PROVE  /\ SetsOf(g, i) \subseteq 1..Len(g.sets)
         /\ \A s : s \in SetsOf(g, i) <=> s \in 1..Len(g.sets) /\ g.sets[s].round = i
         /\ IsFiniteSet(SetsOf(g, i)) /\ Cardinality(SetsOf(g, i)) \in Nat
  <1>1. /\ SetsOf(g, i) \subseteq 1..Len(g.sets)
        /\ \A s : s \in SetsOf(g, i) <=> s \in 1..Len(g.sets) /\ g.sets[s].round = i
    BY RowAt DEF SetsOf
  <1>2. Len(g.sets) \in Nat
    BY RowAt
  <1>3. IsFiniteSet(1..Len(g.sets))
    BY <1>2, FS_Interval
  <1>4. IsFiniteSet(SetsOf(g, i))
    BY <1>1, <1>3, FS_Subset
  <1>. QED
    BY <1>1, <1>4, FS_CardinalityType

LEMMA StageNat ==
  ASSUME NEW g, Core(g), NEW i \in 1..Len(g.rounds)
  PROVE  StageOf(g, i) \in Nat
  <1>1. g \in Games /\ Presented(g, i)
    BY DEF Core
  <1>2. g.rounds[i].status \in RoundStatus
    BY <1>1, RowAt
  <1>3. Cardinality(SetsOf(g, i)) \in Nat
    BY <1>1, SetsOfRound
  <1>4. CASE g.rounds[i].status \in {"countdown", "writing"}
    BY <1>4 DEF StageOf
  <1>5. CASE g.rounds[i].status \notin {"countdown", "writing"}
    <2>1. g.rounds[i].active \in 1..Len(g.sets)
      BY <1>1, <1>5, SetsOfRound DEF Presented
    <2>2. g.sets[g.rounds[i].active].order \in Nat
      BY <1>1, <2>1, RowAt DEF TruthSets
    <2>3. Len(g.sets) \in Nat
      BY <1>1, RowAt
    <2>4. g.rounds[i].active # 0
      BY <2>1, <2>3
    <2> DEFINE order == g.sets[g.rounds[i].active].order
               c == Cardinality(SetsOf(g, i))
    <2>5. order \in Nat /\ c \in Nat
      BY <2>2, <1>3
    <2>6. StageOf(g, i) =
            CASE g.rounds[i].status = "presentation_voting" -> 3 * order
              [] g.rounds[i].status = "reveal" -> 3 * order + 1
              [] g.rounds[i].status = "commentary" -> 3 * order + 2
              [] g.rounds[i].status = "finished" -> 3 * (c + 1)
      BY <1>2, <1>5, <2>4 DEF StageOf, RoundStatus, Presenting
    <2> HIDE DEF order, c
    <2>. QED
      BY <1>2, <1>5, <2>5, <2>6 DEF RoundStatus, Presenting
  <1>. QED
    BY <1>4, <1>5

-----------------------------------------------------------------------------
(* Changes of a game that keep its rounds in order.                        *)

\* A round whose row and truth sets are left alone.
LEMMA RoundKept ==
  ASSUME NEW g \in Games, NEW h \in Games, NEW i \in 1..Len(g.rounds),
         h.rounds[i] = g.rounds[i], SetsOf(h, i) = SetsOf(g, i),
         \A s \in SetsOf(g, i) : h.sets[s] = g.sets[s],
         Presented(g, i)
  PROVE  Presented(h, i) /\ StageOf(h, i) = StageOf(g, i)
  <1>1. {h.sets[s].order : s \in SetsOf(h, i)} = {g.sets[s].order : s \in SetsOf(g, i)}
    OBVIOUS
  <1>2. CASE g.rounds[i].status \in {"countdown", "writing"}
    <2>1. Presented(h, i)
      BY <1>2 DEF Presented
    <2>2. StageOf(h, i) = StageOf(g, i)
      BY <1>2 DEF StageOf
    <2>. QED
      BY <2>1, <2>2
  <1>3. CASE g.rounds[i].status \notin {"countdown", "writing"}
    <2>1. g.rounds[i].active \in SetsOf(g, i)
      BY <1>3 DEF Presented
    <2>2. h.sets[g.rounds[i].active] = g.sets[g.rounds[i].active]
      BY <2>1
    <2>3. Presented(h, i)
      BY <1>1, <1>3, <2>1, <2>2 DEF Presented
    <2>4. StageOf(h, i) = StageOf(g, i)
      BY <2>2 DEF StageOf
    <2>. QED
      BY <2>3, <2>4
  <1>. QED
    BY <1>2, <1>3

\* From g to h, nothing but round i and the truth sets of round i is rewritten.
Rewrites(g, h, i) ==
  /\ Len(h.rounds) = Len(g.rounds)
  /\ \A j \in 1..Len(g.rounds) : j # i => h.rounds[j] = g.rounds[j]
  /\ Len(h.sets) = Len(g.sets)
  /\ \A s \in 1..Len(g.sets) :
       /\ h.sets[s].round = g.sets[s].round /\ h.sets[s].author = g.sets[s].author
       /\ g.sets[s].round # i => h.sets[s] = g.sets[s]

LEMMA RewriteCore ==
  ASSUME NEW g, Core(g), NEW h \in Games, NEW i \in 1..Len(g.rounds), Rewrites(g, h, i),
         RoundSound(h, i), Presented(h, i)
  PROVE  /\ Core(h)
         /\ \A j \in 1..Len(g.rounds) : j # i => StageOf(h, j) = StageOf(g, j)
  <1>1. g \in Games
    BY DEF Core
  <1>2. ASSUME NEW j
        PROVE  SetsOf(h, j) = SetsOf(g, j)
    <2>1. \A s : s \in SetsOf(h, j) <=> s \in 1..Len(h.sets) /\ h.sets[s].round = j
      BY SetsOfRound
    <2>2. \A s : s \in SetsOf(g, j) <=> s \in 1..Len(g.sets) /\ g.sets[s].round = j
      BY <1>1, SetsOfRound
    <2>3. Len(h.sets) = Len(g.sets) /\ \A s \in 1..Len(g.sets) : h.sets[s].round = g.sets[s].round
      BY DEF Rewrites
    <2>4. \A s : s \in SetsOf(h, j) <=> s \in SetsOf(g, j)
      BY <2>1, <2>2, <2>3
    <2>. QED
      BY <2>4
  <1>3. ASSUME NEW j \in 1..Len(g.rounds), j # i
        PROVE  Presented(h, j) /\ StageOf(h, j) = StageOf(g, j)
    <2>1. \A s \in SetsOf(g, j) : h.sets[s] = g.sets[s]
      BY <1>1, <1>3, SetsOfRound DEF Rewrites
    <2>2. h.rounds[j] = g.rounds[j] /\ Presented(g, j)
      BY <1>3 DEF Rewrites, Core
    <2>. QED
      BY <1>1, <1>2, <2>1, <2>2, RoundKept
  <1>4. ASSUME NEW j \in 1..Len(g.rounds), j # i
        PROVE  RoundSound(h, j)
    BY <1>4 DEF Core, RoundSound, Rewrites
  <1>5. SetsSound(h)
    <2>1. SetsSound(g) /\ Rewrites(g, h, i)
      BY DEF Core
    <2>. QED
      BY <2>1 DEF SetsSound, Rewrites
  <1>6. ASSUME NEW j \in 1..Len(h.rounds)
        PROVE  RoundSound(h, j) /\ Presented(h, j)
    <2>1. j \in 1..Len(g.rounds)
      BY DEF Rewrites
    <2>. QED
      BY <1>3, <1>4, <2>1
  <1>. QED
    BY <1>3, <1>5, <1>6 DEF Core

LEMMA RewriteMoves ==
  ASSUME NEW g, Core(g), NEW h \in Games, NEW i \in 1..Len(g.rounds), Rewrites(g, h, i),
         NEW n \in Nat, RoundSound(h, i), Presented(h, i),
         StageOf(h, i) - StageOf(g, i) \in 0..n
  PROVE  Reaches(g, h, n)
  <1>1. Core(h) /\ \A j \in 1..Len(g.rounds) : j # i => StageOf(h, j) = StageOf(g, j)
    BY RewriteCore
  <1>2. /\ Len(h.rounds) = Len(g.rounds) /\ Len(g.rounds) \in Nat
        /\ Len(h.sets) = Len(g.sets) /\ Len(g.sets) \in Nat
    BY RowAt DEF Rewrites, Core
  <1>3. ASSUME NEW j \in 1..Len(g.rounds)
        PROVE  StageOf(h, j) - StageOf(g, j) \in 0..n
    <2>1. StageOf(g, j) \in Nat
      BY StageNat
    <2>2. CASE j = i
      BY <2>2
    <2>3. CASE j # i
      BY <2>1, <2>3, <1>1
    <2>. QED
      BY <2>2, <2>3
  <1>. QED
    BY <1>1, <1>2, <1>3 DEF Reaches, Forward

LEMMA MovesTransitive ==
  ASSUME NEW g, NEW h, NEW k, NEW m \in Nat, NEW n \in Nat,
         Core(g), Reaches(g, h, m), Reaches(h, k, n)
  PROVE  Reaches(g, k, m + n)
  <1>1. Core(g) /\ Core(h) /\ Core(k) /\ g \in Games /\ h \in Games /\ k \in Games
    BY DEF Reaches, Core
  <1>2. /\ Len(g.rounds) \in Nat /\ Len(h.rounds) \in Nat /\ Len(k.rounds) \in Nat
        /\ Len(g.rounds) <= Len(h.rounds) /\ Len(h.rounds) <= Len(k.rounds)
    BY <1>1, RowAt DEF Reaches, Forward
  <1>3. Len(g.sets) <= Len(k.sets)
    <2>1. Len(g.sets) \in Nat /\ Len(h.sets) \in Nat /\ Len(k.sets) \in Nat
      BY <1>1, RowAt
    <2>2. Len(g.sets) <= Len(h.sets) /\ Len(h.sets) <= Len(k.sets)
      BY DEF Reaches, Forward
    <2>. QED
      BY <2>1, <2>2
  <1>4. ASSUME NEW i \in 1..Len(g.rounds)
        PROVE  StageOf(k, i) - StageOf(g, i) \in 0..(m + n)
    <2>1. i \in 1..Len(h.rounds) /\ i \in 1..Len(k.rounds)
      BY <1>2
    <2>2. StageOf(g, i) \in Nat /\ StageOf(h, i) \in Nat /\ StageOf(k, i) \in Nat
      BY <1>1, <2>1, StageNat
    <2>3. StageOf(h, i) - StageOf(g, i) \in 0..m /\ StageOf(k, i) - StageOf(h, i) \in 0..n
      BY <2>1 DEF Reaches, Forward
    <2>. QED
      BY <2>2, <2>3
  <1>. QED
    BY <1>1, <1>2, <1>3, <1>4 DEF Reaches, Forward

\* A step that rewrites round i, and moves it on by n phases at most.
LEMMA RewriteStep ==
  ASSUME NEW hostHere \in BOOLEAN, NEW g, Sound(g, hostHere), NEW h \in Games,
         NEW i \in 1..Len(g.rounds), Rewrites(g, h, i), NEW n \in Nat,
         RoundSound(h, i), Presented(h, i), StageOf(h, i) - StageOf(g, i) \in 0..n,
         h.room = g.room,
         h.rounds[i].status = "finished" <=> g.rounds[i].status = "finished",
         g.room.status = "active" => h.rounds[i].pausedAt = NoTime
  PROVE  Step(g, h, hostHere, n)
  <1>1. Core(g) /\ StatusSound(g, hostHere) /\ g \in Games
    BY DEF Sound, Core
  <1>2. Reaches(g, h, n)
    BY <1>1, RewriteMoves
  <1>3. Len(h.rounds) = Len(g.rounds) /\ Len(g.rounds) \in Nat
    BY <1>1, RowAt DEF Rewrites
  <1>4. StatusSound(h, hostHere)
    <2>1. \A j \in 1..Len(g.rounds) :
            /\ h.rounds[j].status = "finished" <=> g.rounds[j].status = "finished"
            /\ j # i => h.rounds[j] = g.rounds[j]
      BY DEF Rewrites
    <2>2. MaxRounds \in Nat \ {0}
      BY TLLimitsAssumption
    <2>. QED
      BY <1>1, <1>3, <2>1, <2>2 DEF StatusSound
  <1>. QED
    BY <1>2, <1>4 DEF Step

LEMMA StepTransitive ==
  ASSUME NEW hostHere \in BOOLEAN, NEW g, NEW h, NEW k, NEW m \in Nat, NEW n \in Nat,
         Core(g), Step(g, h, hostHere, m), Step(h, k, hostHere, n)
  PROVE  Step(g, k, hostHere, m + n)
  <1>1. Reaches(g, k, m + n)
    BY MovesTransitive DEF Step
  <1>. QED
    BY <1>1 DEF Step

LEMMA MovesRefl ==
  ASSUME NEW g, Core(g), NEW n \in Nat
  PROVE  Reaches(g, g, n)
  <1>1. Len(g.rounds) \in Nat /\ Len(g.sets) \in Nat
    BY RowAt DEF Core
  <1>2. \A i \in 1..Len(g.rounds) : StageOf(g, i) \in Nat
    BY StageNat
  <1>. QED
    BY <1>1, <1>2 DEF Reaches, Forward

LEMMA StepRefl ==
  ASSUME NEW hostHere \in BOOLEAN, NEW g, Sound(g, hostHere), NEW n \in Nat
  PROVE  Step(g, g, hostHere, n)
  BY MovesRefl DEF Step, Sound

LEMMA StatusMoves ==
  ASSUME NEW g, Core(g), NEW status \in RoomStatus, NEW n \in Nat
  PROVE  LET h == WithStatus(g, status)
         IN  /\ Reaches(g, h, n) /\ h.rounds = g.rounds /\ h.sets = g.sets
             /\ h.room.hostID = g.room.hostID /\ h.room.status = status
  <1> DEFINE h == WithStatus(g, status)
  <1>1. h \in Games /\ h.rounds = g.rounds /\ h.sets = g.sets
        /\ h.room.hostID = g.room.hostID /\ h.room.status = status
    BY DEF Core, Games, Rooms, WithStatus
  <1>2. /\ \A i : SetsOf(h, i) = SetsOf(g, i)
        /\ \A i : Presented(h, i) = Presented(g, i) /\ RoundSound(h, i) = RoundSound(g, i)
        /\ SetsSound(h) = SetsSound(g)
        /\ \A i : StageOf(h, i) = StageOf(g, i)
    BY <1>1 DEF SetsOf, Presented, RoundSound, SetsSound, StageOf
  <1>3. Core(h)
    BY <1>1, <1>2 DEF Core
  <1>4. /\ Len(g.rounds) \in Nat /\ Len(g.sets) \in Nat
        /\ \A i \in 1..Len(g.rounds) : StageOf(g, i) \in Nat
    BY StageNat, RowAt DEF Core
  <1>5. Forward(g, h, n)
    BY <1>1, <1>2, <1>4 DEF Forward
  <1>. QED
    BY <1>1, <1>3, <1>5 DEF Reaches

\* Any change of status that the progress of the game allows is a step.
LEMMA StatusStep ==
  ASSUME NEW hostHere \in BOOLEAN, NEW g, NEW status \in RoomStatus, NEW n \in Nat,
         Core(g), status # "none",
         StatusSound(WithStatus(g, status), hostHere)
  PROVE  Step(g, WithStatus(g, status), hostHere, n)
  BY StatusMoves DEF Step

\* A row that replaces the row of a round.
LEMMA RoundRow ==
  ASSUME NEW g \in Games, NEW i \in 1..Len(g.rounds), NEW round \in Rounds
  PROVE  /\ WithRound(g, i, round) \in Games
         /\ WithRound(g, i, round).room = g.room /\ WithRound(g, i, round).sets = g.sets
         /\ WithRound(g, i, round).score = g.score
         /\ WithRound(g, i, round).rounds[i] = round
         /\ Rewrites(g, WithRound(g, i, round), i)
         /\ \A j : SetsOf(WithRound(g, i, round), j) = SetsOf(g, j)
  <1> DEFINE h == WithRound(g, i, round)
  <1>1. g.rounds \in Seq(Rounds) /\ Len(g.rounds) \in Nat
    BY RowAt
  <1>2. /\ h \in Games /\ h.room = g.room /\ h.sets = g.sets /\ h.score = g.score
        /\ h.rounds = [g.rounds EXCEPT ![i] = round]
    BY <1>1, ReplaceRow DEF Games, WithRound
  <1> HIDE DEF h
  <1>3. /\ Len(h.rounds) = Len(g.rounds) /\ h.rounds[i] = round
        /\ \A j \in 1..Len(g.rounds) : j # i => h.rounds[j] = g.rounds[j]
    BY <1>1, <1>2, ReplaceRow
  <1>4. Rewrites(g, h, i)
    BY <1>2, <1>3 DEF Rewrites
  <1>5. \A j : SetsOf(h, j) = SetsOf(g, j)
    BY <1>2 DEF SetsOf
  <1>. QED
    BY <1>2, <1>3, <1>4, <1>5 DEF h

-----------------------------------------------------------------------------
(* The phases of a round.                                                  *)

\* The row of a round that enters a phase.
LEMMA EnterRow ==
  ASSUME NEW round \in Rounds, now \in Nat, NEW status \in RoundStatus, status # "finished",
         NEW duration \in {CountdownTime, WriteTime, VoteTime, RevealTime, CommentTime}
  PROVE  LET next == Enter(round, status, duration)
         IN  /\ next \in Rounds /\ next.number = round.number /\ next.status = status
             /\ next.active = round.active /\ next.pausedAt = NoTime
             /\ next.pausedAt <= now /\ next.phaseEndsAt # NoTime
  <1> DEFINE deadline == now + duration
  <1>1. deadline \in Nat /\ deadline # NoTime /\ NoTime <= now
    BY TLTimesAssumption DEF NoTime
  <1>2. Enter(round, status, duration) =
          [round EXCEPT !.status = status, !.phaseEndsAt = deadline, !.pausedAt = NoTime]
    BY DEF Enter
  <1> HIDE DEF deadline
  <1>. QED
    BY <1>1, <1>2 DEF Rounds

\* A round in progress is the last one, and stays it with another row.
LEMMA NextRow ==
  ASSUME NEW g, Core(g), NEW i \in 1..Len(g.rounds), g.rounds[i].status # "finished",
         NEW h \in Games, Len(h.rounds) = Len(g.rounds),
         h.rounds[i].number = g.rounds[i].number, h.rounds[i].pausedAt <= now,
         h.rounds[i].phaseEndsAt = NoTime <=> h.rounds[i].status = "finished"
  PROVE  i = Len(g.rounds) /\ RoundSound(h, i)
  <1>1. RoundSound(g, i) /\ Len(g.rounds) \in Nat
    BY RowAt DEF Core
  <1>. QED
    BY <1>1 DEF RoundSound

\* The active truth set of a round that presents them.
LEMMA ActiveSet ==
  ASSUME NEW g, Core(g), NEW i \in 1..Len(g.rounds),
         g.rounds[i].status \in Presenting \cup {"finished"}
  PROVE  LET a == g.rounds[i].active
         IN  /\ a \in SetsOf(g, i) /\ a \in 1..Len(g.sets) /\ a # 0
             /\ g.sets[a] \in TruthSets
             /\ g.sets[a].order \in 1..Cardinality(SetsOf(g, i))
             /\ Cardinality(SetsOf(g, i)) \in Nat
  <1>1. g \in Games /\ Presented(g, i)
    BY DEF Core
  <1> DEFINE a == g.rounds[i].active
             mine == SetsOf(g, i)
  <1>2. a \in mine /\ {g.sets[s].order : s \in mine} = 1..Cardinality(mine)
    BY <1>1 DEF Presented, Presenting
  <1>3. a \in 1..Len(g.sets) /\ g.sets[a] \in TruthSets /\ Len(g.sets) \in Nat
    BY <1>1, <1>2, SetsOfRound, RowAt
  <1>4. Cardinality(mine) \in Nat
    BY <1>1, SetsOfRound
  <1>5. g.sets[a].order \in 1..Cardinality(mine)
    BY <1>2
  <1>. QED
    BY <1>2, <1>3, <1>4, <1>5

LEMMA CountdownStep ==
  ASSUME NEW hostHere \in BOOLEAN, NEW g, Sound(g, hostHere), now \in Nat,
         NEW i \in 1..Len(g.rounds), g.rounds[i].status = "countdown"
  PROVE  Step(g, WithRound(g, i, Enter(g.rounds[i], "writing", WriteTime)), hostHere, 1)
  <1> DEFINE next == Enter(g.rounds[i], "writing", WriteTime)
             h == WithRound(g, i, next)
  <1>1. Core(g) /\ g \in Games /\ g.rounds[i] \in Rounds /\ Presented(g, i)
    BY RowAt DEF Sound, Core
  <1>2. /\ next \in Rounds /\ next.number = g.rounds[i].number /\ next.status = "writing"
        /\ next.active = g.rounds[i].active /\ next.pausedAt = NoTime
        /\ next.pausedAt <= now /\ next.phaseEndsAt # NoTime
    BY <1>1, EnterRow DEF RoundStatus, Presenting
  <1> HIDE DEF next
  <1>3. /\ h \in Games /\ h.room = g.room /\ h.sets = g.sets /\ h.rounds[i] = next
        /\ Rewrites(g, h, i) /\ \A j : SetsOf(h, j) = SetsOf(g, j)
    BY <1>1, <1>2, RoundRow
  <1> HIDE DEF h
  <1>4. RoundSound(h, i)
    BY <1>1, <1>2, <1>3, NextRow DEF Rewrites
  <1>5. Presented(h, i)
    BY <1>1, <1>2, <1>3 DEF Presented
  <1>6. StageOf(g, i) = 1 /\ StageOf(h, i) = 2
    BY <1>2, <1>3 DEF StageOf
  <1>7. Step(g, h, hostHere, 1)
    BY <1>2, <1>3, <1>4, <1>5, <1>6, RewriteStep
  <1>. QED
    BY <1>7 DEF h, next

LEMMA RevealStep ==
  ASSUME NEW hostHere \in BOOLEAN, NEW g, Sound(g, hostHere), now \in Nat,
         NEW i \in 1..Len(g.rounds), g.rounds[i].status = "reveal"
  PROVE  Step(g, WithRound(g, i, Enter(g.rounds[i], "commentary", CommentTime)), hostHere, 1)
  <1> DEFINE next == Enter(g.rounds[i], "commentary", CommentTime)
             h == WithRound(g, i, next)
             order == g.sets[g.rounds[i].active].order
  <1>1. Core(g) /\ g \in Games /\ g.rounds[i] \in Rounds /\ Presented(g, i)
    BY RowAt DEF Sound, Core
  <1>2. /\ next \in Rounds /\ next.number = g.rounds[i].number /\ next.status = "commentary"
        /\ next.active = g.rounds[i].active /\ next.pausedAt = NoTime
        /\ next.pausedAt <= now /\ next.phaseEndsAt # NoTime
    BY <1>1, EnterRow DEF RoundStatus, Presenting
  <1>a. order \in Nat /\ g.rounds[i].active # 0
    BY <1>1, ActiveSet DEF Presenting
  <1> HIDE DEF next
  <1>3. /\ h \in Games /\ h.room = g.room /\ h.sets = g.sets /\ h.rounds[i] = next
        /\ Rewrites(g, h, i) /\ \A j : SetsOf(h, j) = SetsOf(g, j)
    BY <1>1, <1>2, RoundRow
  <1> HIDE DEF h
  <1>4. RoundSound(h, i)
    BY <1>1, <1>2, <1>3, NextRow DEF Rewrites
  <1>5. Presented(h, i)
    BY <1>1, <1>2, <1>3 DEF Presented
  <1>6. StageOf(g, i) = 3 * order + 1 /\ StageOf(h, i) = 3 * order + 2
    BY <1>2, <1>3, <1>a DEF StageOf
  <1>b. StageOf(h, i) - StageOf(g, i) \in 0..1
    <2> HIDE DEF order
    <2>. QED
      BY <1>6, <1>a
  <1>7. Step(g, h, hostHere, 1)
    BY <1>2, <1>3, <1>4, <1>5, <1>b, RewriteStep
  <1>. QED
    BY <1>7 DEF h, next

\* What a truth set gives a player is a number of points.
LEMMA PointsNat ==
  ASSUME NEW row, NEW ballots, IsFiniteSet(ballots), NEW p
  PROVE  Points(row, ballots, p) \in Nat
  <1> DEFINE correct == CorrectVotes(row, ballots)
             c == Cardinality(correct)
             n == Cardinality(ballots)
  <1>1. correct \subseteq ballots
    BY DEF CorrectVotes
  <1>2. IsFiniteSet(correct) /\ c \in Nat /\ n \in Nat /\ c <= n
    BY <1>1, FS_Subset, FS_CardinalityType
  <1>3. AuthorPoints(c, n) \in Nat
    <2> HIDE DEF c, n
    <2>. QED
      BY <1>2 DEF AuthorPoints
  <1>4. PlayerPoints(correct, p) \in Nat
    BY DEF PlayerPoints
  <1> HIDE DEF c, n, correct
  <1>5. Points(row, ballots, p) = PlayerPoints(correct, p) + (IF p = row.author THEN AuthorPoints(c, n) ELSE 0)
    BY DEF Points, c, n, correct
  <1>. QED
    BY <1>3, <1>4, <1>5

LEMMA FiniteBallots ==
  ASSUME RowsTyped, NEW s
  PROVE  IsFiniteSet(VotesOn(s))
  BY FS_Subset DEF RowsTyped, VotesOn

\* Scoring a truth set that has not been scored.
LEMMA ScoredSet ==
  ASSUME NEW g \in Games, RowsTyped, NEW a \in 1..Len(g.sets), ~g.sets[a].scored
  PROVE  LET k == Scored(g, a)
         IN  /\ k \in Games /\ k.room = g.room /\ k.rounds = g.rounds
             /\ k.sets = [g.sets EXCEPT ![a] = [@ EXCEPT !.scored = TRUE]]
  <1> DEFINE scores == [p \in Players |-> g.score[p] + Points(g.sets[a], VotesOn(a), p)]
             row == [g.sets[a] EXCEPT !.scored = TRUE]
             rows == [g.sets EXCEPT ![a] = row]
  <1>1. g.sets \in Seq(TruthSets) /\ g.sets[a] \in TruthSets /\ g.score \in [Players -> Nat]
    BY RowAt DEF Games
  <1>2. scores \in [Players -> Nat]
    BY <1>1, PointsNat, FiniteBallots
  <1>3. row \in TruthSets
    BY <1>1 DEF TruthSets
  <1>4. rows \in Seq(TruthSets)
    BY <1>1, <1>3, ReplaceRow
  <1>5. Scored(g, a) = [g EXCEPT !.sets = rows, !.score = scores]
    BY DEF Scored, Games
  <1> HIDE DEF scores, rows
  <1>6. /\ Scored(g, a) \in Games /\ Scored(g, a).room = g.room
        /\ Scored(g, a).rounds = g.rounds /\ Scored(g, a).sets = rows
    BY <1>2, <1>4, <1>5 DEF Games
  <1>. QED
    BY <1>6 DEF rows

LEMMA VotingStep ==
  ASSUME NEW hostHere \in BOOLEAN, NEW g, Sound(g, hostHere), RowsTyped,
         NEW i \in 1..Len(g.rounds), g.rounds[i].status = "presentation_voting"
  PROVE  Step(g, ToReveal(g, i), hostHere, 1)
  <1> DEFINE a == g.rounds[i].active
             k == Scored(g, a)
             next == Enter(g.rounds[i], "reveal", RevealTime)
             h == WithRound(k, i, next)
             mine == SetsOf(g, i)
             order == g.sets[a].order
  <1>1. Core(g) /\ g \in Games /\ g.rounds[i] \in Rounds /\ Presented(g, i) /\ now \in Nat
    BY RowAt DEF Sound, Core, RowsTyped
  <1>2. /\ next \in Rounds /\ next.number = g.rounds[i].number /\ next.status = "reveal"
        /\ next.active = a /\ next.pausedAt = NoTime
        /\ next.pausedAt <= now /\ next.phaseEndsAt # NoTime
    BY <1>1, EnterRow DEF RoundStatus, Presenting
  <1>3. a \in mine /\ a \in 1..Len(g.sets) /\ a # 0 /\ order \in Nat /\ g.sets[a] \in TruthSets
    BY <1>1, ActiveSet DEF Presenting
  <1>4. /\ \A s, t \in mine : g.sets[s].order = g.sets[t].order => s = t
        /\ \A s \in mine : g.sets[s].scored <=> g.sets[s].order < order
    BY <1>1, <1>3 DEF Presented
  <1>5. ~g.sets[a].scored
    BY <1>3, <1>4
  <1>6. /\ k \in Games /\ k.room = g.room /\ k.rounds = g.rounds
        /\ k.sets = [g.sets EXCEPT ![a] = [@ EXCEPT !.scored = TRUE]]
    BY <1>1, <1>3, <1>5, ScoredSet
  <1> HIDE DEF k, next
  <1>7. /\ h \in Games /\ h.room = k.room /\ h.sets = k.sets /\ h.rounds[i] = next
        /\ Rewrites(k, h, i) /\ \A j : SetsOf(h, j) = SetsOf(k, j)
    BY <1>6, <1>2, RoundRow
  <1> HIDE DEF h
  <1>8. /\ Len(h.sets) = Len(g.sets)
        /\ h.sets[a] = [g.sets[a] EXCEPT !.scored = TRUE]
        /\ \A s \in 1..Len(g.sets) : s # a => h.sets[s] = g.sets[s]
    <2>1. g.sets \in Seq(TruthSets) /\ [g.sets[a] EXCEPT !.scored = TRUE] \in TruthSets
      BY <1>1, <1>3, RowAt DEF TruthSets
    <2>. QED
      BY <1>6, <1>7, <1>3, <2>1, ReplaceRow
  <1>9. /\ h.sets[a].round = g.sets[a].round /\ h.sets[a].author = g.sets[a].author
        /\ h.sets[a].order = order /\ h.sets[a].scored /\ g.sets[a].round = i
    BY <1>8, <1>3, <1>1, SetsOfRound DEF TruthSets
  <1>10. Rewrites(g, h, i)
    <2>1. /\ Len(h.rounds) = Len(g.rounds)
          /\ \A j \in 1..Len(g.rounds) : j # i => h.rounds[j] = g.rounds[j]
      BY <1>6, <1>7 DEF Rewrites
    <2>2. ASSUME NEW s \in 1..Len(g.sets)
          PROVE  /\ h.sets[s].round = g.sets[s].round /\ h.sets[s].author = g.sets[s].author
                 /\ g.sets[s].round # i => h.sets[s] = g.sets[s]
      BY <1>8, <1>9
    <2>. QED
      BY <2>1, <2>2, <1>8 DEF Rewrites
  <1>11. SetsOf(h, i) = mine
    <2>1. \A s : s \in mine <=> s \in 1..Len(g.sets) /\ g.sets[s].round = i
      BY <1>1, SetsOfRound
    <2>2. \A s : s \in SetsOf(h, i) <=> s \in 1..Len(h.sets) /\ h.sets[s].round = i
      BY <1>7, SetsOfRound
    <2>3. \A s : s \in SetsOf(h, i) <=> s \in mine
      BY <2>1, <2>2, <1>10 DEF Rewrites
    <2>. QED
      BY <2>3
  <1>12. RoundSound(h, i)
    BY <1>1, <1>2, <1>7, <1>10, NextRow DEF Rewrites
  <1>13. /\ \A s \in mine : h.sets[s].order = g.sets[s].order
         /\ \A s \in mine : h.sets[s].scored <=> g.sets[s].order < order \/ s = a
    <2>1. mine \subseteq 1..Len(g.sets)
      BY <1>1, SetsOfRound
    <2>. QED
      BY <2>1, <1>4, <1>8, <1>9
  <1>14. Presented(h, i)
    <2>1. {h.sets[s].order : s \in mine} = {g.sets[s].order : s \in mine}
      BY <1>13
    <2>2. {g.sets[s].order : s \in mine} = 1..Cardinality(mine)
      BY <1>1 DEF Presented
    <2>3. h.rounds[i].active = a /\ h.rounds[i].status = "reveal"
      BY <1>2, <1>7
    <2>4. \A s \in mine :
            h.sets[s].scored <=>
              \/ h.sets[s].order < h.sets[a].order
              \/ s = a /\ h.rounds[i].status # "presentation_voting"
              \/ h.rounds[i].status = "finished"
      BY <1>9, <1>13, <2>3
    <2>5. \A s, t \in mine : h.sets[s].order = h.sets[t].order => s = t
      BY <1>4, <1>13
    <2> HIDE DEF mine, order, a
    <2>. QED
      BY <1>3, <1>11, <2>1, <2>2, <2>3, <2>4, <2>5 DEF Presented
  <1>15. StageOf(g, i) = 3 * order /\ StageOf(h, i) = 3 * order + 1
    BY <1>2, <1>3, <1>7, <1>9 DEF StageOf
  <1>16. StageOf(h, i) - StageOf(g, i) \in 0..1
    <2> HIDE DEF order
    <2>. QED
      BY <1>15, <1>3
  <1>17. h.room = g.room
    BY <1>6, <1>7
  <1>18. Step(g, h, hostHere, 1)
    BY <1>2, <1>7, <1>10, <1>12, <1>14, <1>16, <1>17, RewriteStep
  <1>. QED
    BY <1>18 DEF h, k, next, ToReveal

-----------------------------------------------------------------------------
(* The order in which truth sets are presented.                            *)

Authors(g, i) == {g.sets[s].author : s \in SetsOf(g, i)}

\* The shuffle ranks the authors of the round that is being written.
Drawn(g, shuffle) ==
  \A i \in 1..Len(g.rounds) : g.rounds[i].status = "writing" =>
    shuffle \in Bijection(Authors(g, i), 1..Cardinality(Authors(g, i)))

\* The place of a truth set, which counts those before it, is the rank of its
\* author: each author has one truth set, so no place is shared or left out.
LEMMA PlaceIsRank ==
  ASSUME NEW g \in Games, SetsSound(g), NEW i,
         NEW shuffle \in Bijection(Authors(g, i), 1..Cardinality(Authors(g, i)))
  PROVE  /\ {Place(g, s, shuffle) : s \in SetsOf(g, i)} = 1..Cardinality(SetsOf(g, i))
         /\ \A s \in SetsOf(g, i) : Place(g, s, shuffle) \in Nat \ {0}
         /\ \A s, t \in SetsOf(g, i) : Place(g, s, shuffle) = Place(g, t, shuffle) => s = t
  <1> DEFINE mine == SetsOf(g, i)
             A == Authors(g, i)
             n == Cardinality(A)
             rank == [s \in mine |-> shuffle[g.sets[s].author]]
  <1>1. /\ IsFiniteSet(mine)
        /\ \A s : s \in mine <=> s \in 1..Len(g.sets) /\ g.sets[s].round = i
    BY SetsOfRound
  <1>2. /\ \A s \in mine : g.sets[s].author \in A
        /\ \A p \in A : \E s \in mine : g.sets[s].author = p
    BY DEF Authors
  <1>3. IsFiniteSet(A) /\ n \in Nat
    <2> DEFINE writer == [s \in mine |-> g.sets[s].author]
    <2>1. writer \in Surjection(mine, A)
      BY <1>2 DEF Surjection
    <2>2. IsFiniteSet(A)
      BY <1>1, <2>1, FS_Surjection
    <2>. QED
      BY <2>2, FS_CardinalityType
  <1>4. /\ shuffle \in [A -> 1..n]
        /\ \A p, q \in A : shuffle[p] = shuffle[q] => p = q
        /\ \A k \in 1..n : \E p \in A : shuffle[p] = k
    BY DEF Bijection, Injection, Surjection, IsInjective
  <1> HIDE DEF mine, A, n
  <1>5. \A s \in mine : rank[s] = shuffle[g.sets[s].author] /\ rank[s] \in 1..n
    BY <1>2, <1>4
  <1>6. \A s, t \in mine : rank[s] = rank[t] => s = t
    BY <1>1, <1>2, <1>4, <1>5 DEF SetsSound
  <1>7. \A k \in 1..n : \E s \in mine : rank[s] = k
    BY <1>2, <1>4, <1>5
  <1>8. rank \in [mine -> 1..n]
    BY <1>5
  <1> HIDE DEF rank
  <1>9. Cardinality(mine) = n
    <2>1. rank \in Bijection(mine, 1..n)
      BY <1>6, <1>7, <1>8 DEF Bijection, Injection, Surjection, IsInjective
    <2>2. Cardinality(1..n) = Cardinality(mine)
      BY <2>1, <1>1, FS_Bijection DEF ExistsBijection
    <2>3. Cardinality(1..n) = n
      BY <1>3, FS_Interval
    <2>. QED
      BY <2>2, <2>3
  <1>10. ASSUME NEW s \in mine
         PROVE  Place(g, s, shuffle) = rank[s]
    <2> DEFINE before == {t \in mine : rank[t] < rank[s]}
               lower == [t \in before |-> rank[t]]
               k == rank[s]
    <2>1. {t \in SetsOf(g, g.sets[s].round) : shuffle[g.sets[t].author] < shuffle[g.sets[s].author]} = before
      BY <1>1, <1>5 DEF mine
    <2>2. Place(g, s, shuffle) = 1 + Cardinality(before)
      BY <2>1 DEF Place
    <2>3. k \in 1..n
      BY <1>5
    <2>4. IsFiniteSet(before)
      BY <1>1, FS_Subset
    <2>5. lower \in Bijection(before, 1..(k - 1))
      <3>1. lower \in [before -> 1..(k - 1)]
        BY <1>5, <1>3, <2>3
      <3>2. \A t, u \in before : lower[t] = lower[u] => t = u
        BY <1>6
      <3>3. \A j \in 1..(k - 1) : \E t \in before : lower[t] = j
        BY <1>3, <1>7, <2>3
      <3> HIDE DEF lower, before, k
      <3>. QED
        BY <3>1, <3>2, <3>3 DEF Bijection, Injection, Surjection, IsInjective
    <2>6. Cardinality(1..(k - 1)) = Cardinality(before)
      BY <2>4, <2>5, FS_Bijection DEF ExistsBijection
    <2>7. Cardinality(1..(k - 1)) = k - 1
      <3> HIDE DEF k
      <3>1. k - 1 \in Int /\ k \in Nat /\ k >= 1 /\ 1 \in Int
        BY <1>3, <2>3
      <3>. QED
        BY <3>1, FS_Interval
    <2> HIDE DEF before
    <2>. QED
      BY <2>2, <2>3, <2>6, <2>7, <1>3
  <1>11. {Place(g, s, shuffle) : s \in mine} = 1..n
    BY <1>5, <1>7, <1>10
  <1>. QED
    BY <1>3, <1>5, <1>6, <1>9, <1>10, <1>11 DEF mine

\* The truth sets of a round whose writing is over are given their order.
LEMMA OrderedSets ==
  ASSUME NEW g, Core(g), NEW i \in 1..Len(g.rounds), g.rounds[i].status = "writing",
         NEW shuffle, Drawn(g, shuffle), SetsOf(g, i) # {}
  PROVE  LET o == Ordered(g, i, shuffle)
             mine == SetsOf(g, i)
         IN  /\ o \in Games /\ o.room = g.room /\ o.rounds = g.rounds
             /\ Len(o.sets) = Len(g.sets)
             /\ \A s \in 1..Len(g.sets) : s \notin mine => o.sets[s] = g.sets[s]
             /\ \A s \in mine :
                  /\ o.sets[s].order = Place(g, s, shuffle) /\ ~o.sets[s].scored
                  /\ o.sets[s].round = g.sets[s].round /\ o.sets[s].author = g.sets[s].author
  <1> DEFINE o == Ordered(g, i, shuffle)
             mine == SetsOf(g, i)
             placed(s) == [g.sets[s] EXCEPT !.order = Place(g, s, shuffle)]
             row(s) == IF s \in mine THEN placed(s) ELSE g.sets[s]
             rows == [s \in 1..Len(g.sets) |-> row(s)]
  <1>1. g \in Games /\ Presented(g, i) /\ SetsSound(g)
    BY DEF Core
  <1>2. \A s \in mine : g.sets[s].order = 0 /\ ~g.sets[s].scored
    BY <1>1 DEF Presented
  <1>3. Ordered(g, i, shuffle) = [g EXCEPT !.sets = rows]
    <2>1. ~\A s \in SetsOf(g, i) : g.sets[s].order > 0
      BY <1>2
    <2>2. DOMAIN g.sets = 1..Len(g.sets)
      BY <1>1, RowAt
    <2>. QED
      BY <2>1, <2>2 DEF Ordered
  <1>4. \A s \in mine : Place(g, s, shuffle) \in Nat
    BY <1>1, PlaceIsRank DEF Drawn
  <1>5. /\ mine \subseteq 1..Len(g.sets) /\ Len(g.sets) \in Nat
        /\ \A s \in 1..Len(g.sets) : g.sets[s] \in TruthSets
    BY <1>1, SetsOfRound, RowAt
  <1>6. ASSUME NEW s \in mine
        PROVE  /\ placed(s) \in TruthSets
               /\ placed(s).order = Place(g, s, shuffle) /\ ~placed(s).scored
               /\ placed(s).round = g.sets[s].round /\ placed(s).author = g.sets[s].author
    <2> DEFINE place == Place(g, s, shuffle)
    <2>1. place \in Nat /\ g.sets[s] \in TruthSets /\ ~g.sets[s].scored
      BY <1>2, <1>4, <1>5
    <2> HIDE DEF place
    <2>2. LET new == [g.sets[s] EXCEPT !.order = place]
          IN  /\ new \in TruthSets /\ new.order = place /\ ~new.scored
              /\ new.round = g.sets[s].round /\ new.author = g.sets[s].author
      BY <2>1 DEF TruthSets
    <2>. QED
      BY <2>2 DEF place
  <1> HIDE DEF placed
  <1>7. \A s \in 1..Len(g.sets) : row(s) \in TruthSets
    BY <1>5, <1>6
  <1> HIDE DEF row
  <1>8. /\ rows \in Seq(TruthSets) /\ Len(rows) = Len(g.sets)
        /\ \A s \in 1..Len(g.sets) : rows[s] = row(s)
    BY <1>5, <1>7
  <1> HIDE DEF rows
  <1>9. o \in Games /\ o.room = g.room /\ o.rounds = g.rounds /\ o.sets = rows
    BY <1>1, <1>3, <1>8 DEF Games
  <1> HIDE DEF o
  <1>10. \A s \in mine : o.sets[s] = placed(s)
    BY <1>5, <1>8, <1>9 DEF row
  <1>11. \A s \in 1..Len(g.sets) : s \notin mine => o.sets[s] = g.sets[s]
    BY <1>8, <1>9 DEF row
  <1>. QED
    BY <1>6, <1>8, <1>9, <1>10, <1>11 DEF o

LEMMA WritingStep ==
  ASSUME NEW hostHere \in BOOLEAN, NEW g, Sound(g, hostHere), now \in Nat,
         NEW i \in 1..Len(g.rounds), g.rounds[i].status = "writing",
         NEW shuffle, Drawn(g, shuffle)
  PROVE  Step(g, ToPresentation(g, i, shuffle), hostHere, 1)
  <1> DEFINE o == Ordered(g, i, shuffle)
             mine == SetsOf(g, i)
             first == CHOOSE s \in SetsOf(o, i) :
                        \A t \in SetsOf(o, i) : o.sets[s].order <= o.sets[t].order
             voting == Enter(g.rounds[i], "presentation_voting", VoteTime)
             next == [voting EXCEPT !.active = first]
             h == WithRound(o, i, next)
  <1>1. Core(g) /\ g \in Games /\ g.rounds[i] \in Rounds /\ Presented(g, i) /\ SetsSound(g)
    BY RowAt DEF Sound, Core
  <1>2. CASE ~Presentable(g, i)
    BY <1>2, StepRefl DEF ToPresentation
  <1>3. CASE Presentable(g, i)
    <2>1. mine # {}
      BY <1>3 DEF Presentable
    <2>2. /\ o \in Games /\ o.room = g.room /\ o.rounds = g.rounds
          /\ Len(o.sets) = Len(g.sets)
          /\ \A s \in 1..Len(g.sets) : s \notin mine => o.sets[s] = g.sets[s]
          /\ \A s \in mine :
               /\ o.sets[s].order = Place(g, s, shuffle) /\ ~o.sets[s].scored
               /\ o.sets[s].round = g.sets[s].round /\ o.sets[s].author = g.sets[s].author
      BY <1>1, <2>1, OrderedSets
    <2>3. /\ {Place(g, s, shuffle) : s \in mine} = 1..Cardinality(mine)
          /\ \A s \in mine : Place(g, s, shuffle) \in Nat \ {0}
          /\ \A s, t \in mine : Place(g, s, shuffle) = Place(g, t, shuffle) => s = t
      BY <1>1, PlaceIsRank DEF Drawn
    <2>4. /\ IsFiniteSet(mine) /\ Cardinality(mine) \in Nat
          /\ \A s : s \in mine <=> s \in 1..Len(g.sets) /\ g.sets[s].round = i
          /\ Len(g.sets) \in Nat
      BY <1>1, SetsOfRound, RowAt
    <2> HIDE DEF o
    <2>5. SetsOf(o, i) = mine
      <3>1. \A s : s \in SetsOf(o, i) <=> s \in 1..Len(o.sets) /\ o.sets[s].round = i
        BY <2>2, SetsOfRound
      <3>2. \A s : s \in SetsOf(o, i) <=> s \in mine
        BY <2>2, <2>4, <3>1
      <3>. QED
        BY <3>2
    <2>6. first \in mine /\ o.sets[first].order = 1
      <3>1. Cardinality(mine) # 0
        BY <2>1, <2>4, FS_EmptySet
      <3>2. PICK s \in mine : Place(g, s, shuffle) = 1
        BY <2>3, <2>4, <3>1
      <3>3. \A t \in SetsOf(o, i) : o.sets[s].order <= o.sets[t].order
        BY <2>2, <2>3, <2>5, <3>2
      <3>4. first \in SetsOf(o, i) /\ \A t \in SetsOf(o, i) : o.sets[first].order <= o.sets[t].order
        BY <2>5, <3>2, <3>3
      <3> HIDE DEF first
      <3>. QED
        BY <2>2, <2>3, <2>5, <3>2, <3>4
    <2>7. ToPresentation(g, i, shuffle) = h
      BY <1>3, <2>2 DEF ToPresentation, Present, o
    <2> HIDE DEF first, mine
    <2>8. /\ next \in Rounds /\ next.number = g.rounds[i].number
          /\ next.status = "presentation_voting" /\ next.active = first
          /\ next.pausedAt = NoTime /\ next.pausedAt <= now /\ next.phaseEndsAt # NoTime
      <3>1. /\ voting \in Rounds /\ voting.number = g.rounds[i].number
            /\ voting.status = "presentation_voting"
            /\ voting.pausedAt = NoTime /\ voting.pausedAt <= now /\ voting.phaseEndsAt # NoTime
        BY <1>1, EnterRow DEF RoundStatus, Presenting
      <3>2. first \in Nat
        BY <2>4, <2>6
      <3> HIDE DEF voting
      <3>. QED
        BY <3>1, <3>2 DEF Rounds
    <2> HIDE DEF next
    <2>9. /\ h \in Games /\ h.room = o.room /\ h.sets = o.sets /\ h.rounds[i] = next
          /\ Rewrites(o, h, i) /\ \A j : SetsOf(h, j) = SetsOf(o, j)
      BY <2>2, <2>8, RoundRow
    <2> HIDE DEF h
    <2>10. Rewrites(g, h, i)
      <3>1. /\ Len(h.rounds) = Len(g.rounds)
            /\ \A j \in 1..Len(g.rounds) : j # i => h.rounds[j] = g.rounds[j]
        BY <2>2, <2>9 DEF Rewrites
      <3>2. ASSUME NEW s \in 1..Len(g.sets)
            PROVE  /\ h.sets[s].round = g.sets[s].round /\ h.sets[s].author = g.sets[s].author
                   /\ g.sets[s].round # i => h.sets[s] = g.sets[s]
        BY <2>2, <2>4, <2>9
      <3>. QED
        BY <3>1, <3>2, <2>2, <2>9 DEF Rewrites
    <2>11. RoundSound(h, i)
      BY <1>1, <2>8, <2>9, <2>10, NextRow DEF Rewrites
    <2>12. Presented(h, i)
      <3>1. {h.sets[s].order : s \in mine} = 1..Cardinality(mine)
        BY <2>2, <2>3, <2>9
      <3>2. \A s, t \in mine : h.sets[s].order = h.sets[t].order => s = t
        BY <2>2, <2>3, <2>9
      <3>3. \A s \in mine : ~h.sets[s].scored /\ ~(h.sets[s].order < 1)
        BY <2>2, <2>3, <2>9
      <3>4. h.sets[first].order = 1 /\ h.rounds[i].active = first
            /\ h.rounds[i].status = "presentation_voting"
        BY <2>6, <2>8, <2>9
      <3>5. \A s \in mine :
              h.sets[s].scored <=>
                \/ h.sets[s].order < h.sets[first].order
                \/ s = first /\ h.rounds[i].status # "presentation_voting"
                \/ h.rounds[i].status = "finished"
        BY <3>3, <3>4
      <3>. QED
        BY <2>5, <2>6, <2>9, <3>1, <3>2, <3>4, <3>5 DEF Presented
    <2>13. StageOf(g, i) = 2 /\ StageOf(h, i) = 3
      <3>1. first # 0
        BY <2>4, <2>6
      <3>. QED
        BY <2>6, <2>8, <2>9, <3>1 DEF StageOf
    <2>14. Step(g, h, hostHere, 1)
      <3>1. h.rounds[i].status # "finished" /\ h.rounds[i].pausedAt = NoTime /\ h.room = g.room
        BY <2>2, <2>8, <2>9
      <3>. QED
        BY <2>9, <2>10, <2>11, <2>12, <2>13, <3>1, RewriteStep
    <2>. QED
      BY <2>7, <2>14
  <1>. QED
    BY <1>2, <1>3

-----------------------------------------------------------------------------
(* The end of a presentation, and of a round.                              *)

AppendRound(g, number, status, duration) ==
  [g EXCEPT !.rounds = Append(@, NewRound(number, status, duration))]

\* A new round, when there is none or the last one is over.
LEMMA AppendMoves ==
  ASSUME NEW g, Core(g), now \in Nat,
         NEW number \in Nat \ {0}, number = Len(g.rounds) + 1, number <= MaxRounds,
         Len(g.rounds) # 0 => g.rounds[Len(g.rounds)].status = "finished",
         NEW status \in {"countdown", "writing"}, NEW duration \in {CountdownTime, WriteTime}
  PROVE  LET h == AppendRound(g, number, status, duration)
         IN  /\ Reaches(g, h, 0) /\ h.room = g.room /\ h.sets = g.sets
             /\ Len(h.rounds) = number
             /\ \A i \in 1..Len(g.rounds) : h.rounds[i] = g.rounds[i]
             /\ h.rounds[number].status = status /\ h.rounds[number].pausedAt = NoTime
  <1> DEFINE row == NewRound(number, status, duration)
             h == [g EXCEPT !.rounds = Append(@, row)]
             deadline == now + duration
  <1>1. /\ g \in Games /\ SetsSound(g) /\ g.rounds \in Seq(Rounds) /\ Len(g.rounds) \in Nat
        /\ \A i \in 1..Len(g.rounds) : RoundSound(g, i) /\ Presented(g, i)
    BY RowAt DEF Core
  <1>2. /\ row \in Rounds /\ row.number = number /\ row.status = status /\ row.active = 0
        /\ row.pausedAt = NoTime /\ row.pausedAt <= now /\ row.phaseEndsAt # NoTime
    <2>1. deadline \in Nat /\ deadline # NoTime /\ NoTime <= now
      BY TLTimesAssumption DEF NoTime
    <2>2. row = [number |-> number, status |-> status, active |-> 0,
                 phaseEndsAt |-> deadline, pausedAt |-> NoTime]
      BY DEF NewRound
    <2> HIDE DEF row, deadline
    <2>. QED
      BY <2>1, <2>2 DEF Rounds, RoundStatus
  <1> HIDE DEF row
  <1>3. /\ h \in Games /\ h.room = g.room /\ h.sets = g.sets /\ h.score = g.score
        /\ h.rounds = Append(g.rounds, row)
    BY <1>1, <1>2, AppendRow DEF Games
  <1> HIDE DEF h
  <1>4. /\ Len(h.rounds) = number /\ h.rounds[number] = row
        /\ \A i \in 1..Len(g.rounds) : h.rounds[i] = g.rounds[i]
    BY <1>1, <1>2, <1>3, AppendRow
  <1>5. \A j : SetsOf(h, j) = SetsOf(g, j)
    BY <1>3 DEF SetsOf
  <1>6. ASSUME NEW i \in 1..Len(g.rounds)
        PROVE  Presented(h, i) /\ StageOf(h, i) = StageOf(g, i) /\ RoundSound(h, i)
    <2>1. Presented(h, i) /\ StageOf(h, i) = StageOf(g, i)
      <3>1. \A s \in SetsOf(g, i) : h.sets[s] = g.sets[s]
        BY <1>3
      <3>. QED
        BY <1>1, <1>3, <1>4, <1>5, <3>1, RoundKept
    <2>2. RoundSound(h, i)
      BY <1>1, <1>4 DEF RoundSound
    <2>. QED
      BY <2>1, <2>2
  <1>7. Presented(h, number) /\ RoundSound(h, number)
    <2>1. SetsOf(h, number) = {}
      BY <1>1, <1>5, SetsOfRound DEF SetsSound
    <2>2. Presented(h, number)
      BY <1>2, <1>4, <2>1 DEF Presented
    <2>3. RoundSound(h, number)
      BY <1>2, <1>4 DEF RoundSound
    <2>. QED
      BY <2>2, <2>3
  <1>8. Core(h)
    <2>1. SetsSound(h)
      <3>1. \A s \in 1..Len(h.sets) : h.sets[s].round \in 1..Len(g.rounds)
        BY <1>1, <1>3 DEF SetsSound
      <3>2. 1..Len(g.rounds) \subseteq 1..Len(h.rounds)
        BY <1>1, <1>4
      <3>3. \A s, t \in 1..Len(h.sets) :
              h.sets[s].round = h.sets[t].round /\ h.sets[s].author = h.sets[t].author => s = t
        BY <1>1, <1>3 DEF SetsSound
      <3>. QED
        BY <3>1, <3>2, <3>3 DEF SetsSound
    <2>2. ASSUME NEW i \in 1..Len(h.rounds)
          PROVE  RoundSound(h, i) /\ Presented(h, i)
      <3>1. i \in 1..Len(g.rounds) \/ i = number
        BY <1>1, <1>4
      <3>. QED
        BY <3>1, <1>6, <1>7
    <2>. QED
      BY <1>3, <2>1, <2>2 DEF Core
  <1>9. Forward(g, h, 0)
    <2>1. Len(g.sets) \in Nat /\ \A i \in 1..Len(g.rounds) : StageOf(g, i) \in Nat
      BY <1>1, RowAt, StageNat
    <2>. QED
      BY <1>1, <1>3, <1>4, <1>6, <2>1 DEF Forward
  <1>10. /\ Reaches(g, h, 0) /\ h.room = g.room /\ h.sets = g.sets
         /\ Len(h.rounds) = number
         /\ \A i \in 1..Len(g.rounds) : h.rounds[i] = g.rounds[i]
         /\ h.rounds[number].status = status /\ h.rounds[number].pausedAt = NoTime
    BY <1>2, <1>3, <1>4, <1>8, <1>9 DEF Reaches
  <1>. QED
    BY <1>10 DEF h, row, AppendRound

\* The next presentation.
LEMMA NextSetStep ==
  ASSUME NEW hostHere \in BOOLEAN, NEW g, Sound(g, hostHere), now \in Nat,
         NEW i \in 1..Len(g.rounds), g.rounds[i].status = "commentary",
         NEW s \in NextSets(g, i)
  PROVE  Step(g, Present(g, i, s), hostHere, 1)
  <1> DEFINE a == g.rounds[i].active
             mine == SetsOf(g, i)
             order == g.sets[a].order
             voting == Enter(g.rounds[i], "presentation_voting", VoteTime)
             next == [voting EXCEPT !.active = s]
             h == WithRound(g, i, next)
  <1>1. Core(g) /\ g \in Games /\ g.rounds[i] \in Rounds /\ Presented(g, i)
    BY RowAt DEF Sound, Core
  <1>2. a \in mine /\ a # 0 /\ order \in Nat
    BY <1>1, ActiveSet DEF Presenting
  <1>3. s \in mine /\ g.sets[s].order = order + 1 /\ s \in Nat /\ s # 0
    <2>1. s \in mine /\ g.sets[s].order = order + 1
      BY DEF NextSets
    <2>2. s \in 1..Len(g.sets) /\ Len(g.sets) \in Nat
      BY <1>1, <2>1, SetsOfRound, RowAt
    <2>. QED
      BY <2>1, <2>2
  <1>4. /\ next \in Rounds /\ next.number = g.rounds[i].number
        /\ next.status = "presentation_voting" /\ next.active = s
        /\ next.pausedAt = NoTime /\ next.pausedAt <= now /\ next.phaseEndsAt # NoTime
    <2>1. /\ voting \in Rounds /\ voting.number = g.rounds[i].number
          /\ voting.status = "presentation_voting"
          /\ voting.pausedAt = NoTime /\ voting.pausedAt <= now /\ voting.phaseEndsAt # NoTime
      BY <1>1, EnterRow DEF RoundStatus, Presenting
    <2> HIDE DEF voting
    <2>. QED
      BY <1>3, <2>1 DEF Rounds
  <1> HIDE DEF next
  <1>5. /\ h \in Games /\ h.room = g.room /\ h.sets = g.sets /\ h.rounds[i] = next
        /\ Rewrites(g, h, i) /\ \A j : SetsOf(h, j) = SetsOf(g, j)
    BY <1>1, <1>4, RoundRow
  <1> HIDE DEF h
  <1>6. RoundSound(h, i)
    BY <1>1, <1>4, <1>5, NextRow DEF Rewrites
  <1>7. Presented(h, i)
    <2>1. /\ {g.sets[t].order : t \in mine} = 1..Cardinality(mine)
          /\ \A t, u \in mine : g.sets[t].order = g.sets[u].order => t = u
          /\ \A t \in mine : g.sets[t].scored <=> g.sets[t].order < order \/ t = a
      BY <1>1 DEF Presented
    <2>2. \A t \in mine : g.sets[t].order \in Nat
      BY <2>1, <1>1, SetsOfRound, RowAt DEF TruthSets
    <2> HIDE DEF mine
    <2>3. \A t \in mine : g.sets[t].scored <=> g.sets[t].order < order + 1
      <3>1. \A t \in mine : g.sets[t].order = order => t = a
        BY <2>1, <1>2
      <3> HIDE DEF a, order
      <3>2. a \in mine /\ g.sets[a].order = order
        BY <1>2 DEF order
      <3>. QED
        BY <1>2, <2>1, <2>2, <3>1, <3>2
    <2>4. h.rounds[i].active = s /\ h.rounds[i].status = "presentation_voting"
      BY <1>4, <1>5
    <2>5. \A t \in mine :
            h.sets[t].scored <=>
              \/ h.sets[t].order < h.sets[s].order
              \/ t = s /\ h.rounds[i].status # "presentation_voting"
              \/ h.rounds[i].status = "finished"
      BY <1>3, <1>5, <2>3, <2>4
    <2>6. SetsOf(h, i) = mine
      BY <1>5 DEF mine
    <2>7. /\ {h.sets[t].order : t \in mine} = 1..Cardinality(mine)
          /\ \A t, u \in mine : h.sets[t].order = h.sets[u].order => t = u
      BY <1>5, <2>1
    <2>. QED
      BY <1>3, <2>4, <2>5, <2>6, <2>7 DEF Presented
  <1>8. StageOf(g, i) = 3 * order + 2 /\ StageOf(h, i) = 3 * (order + 1)
    BY <1>2, <1>3, <1>4, <1>5 DEF StageOf
  <1>9. StageOf(h, i) - StageOf(g, i) \in 0..1
    <2> HIDE DEF order
    <2>. QED
      BY <1>8, <1>2
  <1>10. Step(g, h, hostHere, 1)
    BY <1>4, <1>5, <1>6, <1>7, <1>9, RewriteStep
  <1>. QED
    BY <1>10 DEF h, next, Present

\* The end of a round: all its truth sets have been presented.
LEMMA FinishedMoves ==
  ASSUME NEW g, Core(g), now \in Nat,
         NEW i \in 1..Len(g.rounds), g.rounds[i].status = "commentary", NextSets(g, i) = {}
  PROVE  LET f == WithRound(g, i, Finished(g.rounds[i]))
         IN  /\ Reaches(g, f, 1) /\ f.room = g.room /\ f.sets = g.sets
             /\ Len(f.rounds) = i /\ Len(g.rounds) = i
             /\ f.rounds[i].status = "finished" /\ g.rounds[i].number = i /\ i <= MaxRounds
  <1> DEFINE a == g.rounds[i].active
             mine == SetsOf(g, i)
             n == Cardinality(mine)
             order == g.sets[a].order
             next == Finished(g.rounds[i])
             f == WithRound(g, i, next)
  <1>1. g \in Games /\ g.rounds[i] \in Rounds /\ Presented(g, i) /\ RoundSound(g, i)
    BY RowAt DEF Core
  <1>2. a \in mine /\ a # 0 /\ order \in 1..n /\ n \in Nat
    BY <1>1, ActiveSet DEF Presenting
  <1>3. /\ {g.sets[t].order : t \in mine} = 1..n
        /\ \A t, u \in mine : g.sets[t].order = g.sets[u].order => t = u
        /\ \A t \in mine : g.sets[t].scored <=> g.sets[t].order < order \/ t = a
    BY <1>1 DEF Presented
  <1>4. order = n
    <2>1. \A t \in mine : g.sets[t].order # order + 1
      BY <1>2 DEF NextSets
    <2>2. order + 1 \notin 1..n
      BY <1>3, <2>1
    <2> HIDE DEF order, n
    <2>. QED
      BY <1>2, <2>2
  <1>5. \A t \in mine : g.sets[t].scored
    <2>1. \A t \in mine : g.sets[t].order \in 1..n
      BY <1>3
    <2>2. \A t \in mine : g.sets[t].order = order => t = a
      BY <1>2, <1>3
    <2> HIDE DEF order, n, mine
    <2>. QED
      BY <1>2, <1>3, <1>4, <2>1, <2>2
  <1>6. /\ next \in Rounds /\ next.number = g.rounds[i].number /\ next.status = "finished"
        /\ next.active = a /\ next.pausedAt <= now /\ next.phaseEndsAt = NoTime
    <2>1. next = [g.rounds[i] EXCEPT !.status = "finished", !.phaseEndsAt = NoTime, !.pausedAt = NoTime]
      BY DEF Finished
    <2>2. NoTime \in Nat \cup {NoTime} /\ NoTime <= now /\ "finished" \in RoundStatus
      BY DEF NoTime, RoundStatus
    <2> HIDE DEF next
    <2>. QED
      BY <1>1, <2>1, <2>2 DEF Rounds
  <1> HIDE DEF next
  <1>7. /\ f \in Games /\ f.room = g.room /\ f.sets = g.sets /\ f.rounds[i] = next
        /\ Rewrites(g, f, i) /\ \A j : SetsOf(f, j) = SetsOf(g, j)
    BY <1>1, <1>6, RoundRow
  <1> HIDE DEF f
  <1>8. i = Len(g.rounds) /\ RoundSound(f, i)
    BY <1>1, <1>6, <1>7, NextRow DEF Rewrites
  <1>9. Presented(f, i)
    <2>1. f.rounds[i].active = a /\ f.rounds[i].status = "finished" /\ SetsOf(f, i) = mine
      BY <1>6, <1>7
    <2>2. /\ {f.sets[t].order : t \in mine} = 1..n
          /\ \A t, u \in mine : f.sets[t].order = f.sets[u].order => t = u
      BY <1>3, <1>7
    <2>3. \A t \in mine :
            f.sets[t].scored <=>
              \/ f.sets[t].order < f.sets[a].order
              \/ t = a /\ f.rounds[i].status # "presentation_voting"
              \/ f.rounds[i].status = "finished"
      BY <1>5, <1>7, <2>1
    <2>. QED
      BY <1>2, <2>1, <2>2, <2>3 DEF Presented
  <1>10. StageOf(g, i) = 3 * n + 2 /\ StageOf(f, i) = 3 * (n + 1)
    BY <1>2, <1>4, <1>6, <1>7 DEF StageOf
  <1>11. StageOf(f, i) - StageOf(g, i) \in 0..1
    <2> HIDE DEF n
    <2>. QED
      BY <1>10, <1>2
  <1>12. Reaches(g, f, 1)
    BY <1>7, <1>8, <1>9, <1>11, RewriteMoves
  <1>13. /\ f.room = g.room /\ f.sets = g.sets
         /\ Len(f.rounds) = i /\ Len(g.rounds) = i
         /\ f.rounds[i].status = "finished" /\ g.rounds[i].number = i /\ i <= MaxRounds
    BY <1>1, <1>6, <1>7, <1>8 DEF Rewrites, RoundSound
  <1>. QED
    BY <1>12, <1>13 DEF f, next

LEMMA CommentaryStep ==
  ASSUME NEW hostHere \in BOOLEAN, NEW g, Sound(g, hostHere), now \in Nat,
         NEW i \in 1..Len(g.rounds), g.rounds[i].status = "commentary",
         g.room.status = "active"
  PROVE  Step(g, AfterCommentary(g, i), hostHere, 1)
  <1> DEFINE r == g.rounds[i]
             f == WithRound(g, i, Finished(r))
  <1>1. Core(g) /\ i \in Nat \ {0} /\ MaxRounds \in Nat
    BY TLLimitsAssumption, RowAt DEF Sound, Core
  <1>2. CASE NextSets(g, i) # {}
    <2> DEFINE s == CHOOSE t \in NextSets(g, i) : TRUE
    <2>1. s \in NextSets(g, i)
      BY <1>2
    <2>2. AfterCommentary(g, i) = Present(g, i, s)
      BY <1>2 DEF AfterCommentary
    <2> HIDE DEF s
    <2>. QED
      BY <2>1, <2>2, NextSetStep
  <1>3. CASE NextSets(g, i) = {}
    <2>1. /\ Reaches(g, f, 1) /\ f.room = g.room /\ f.sets = g.sets
          /\ Len(f.rounds) = i /\ Len(g.rounds) = i
          /\ f.rounds[i].status = "finished" /\ r.number = i /\ i <= MaxRounds
      BY <1>1, <1>3, FinishedMoves
    <2>2. Core(f)
      BY <2>1 DEF Reaches
    <2> HIDE DEF f
    <2>3. CASE IsLastRound(r)
      <3> DEFINE k == WithStatus(f, "finished")
      <3>1. AfterCommentary(g, i) = k
        BY <1>3, <2>3 DEF AfterCommentary, f
      <3>2. /\ Reaches(f, k, 0) /\ k.rounds = f.rounds
            /\ k.room.hostID = f.room.hostID /\ k.room.status = "finished"
        BY <2>2, StatusMoves DEF RoomStatus
      <3> HIDE DEF k
      <3>3. Reaches(g, k, 1 + 0)
        BY <1>1, <2>1, <3>2, MovesTransitive
      <3>4. StatusSound(k, hostHere)
        BY <1>1, <2>1, <2>3, <3>2 DEF StatusSound, IsLastRound
      <3>. QED
        BY <2>1, <3>1, <3>2, <3>3, <3>4 DEF Step
    <2>4. CASE ~IsLastRound(r)
      <3> DEFINE number == i + 1
                 k == AppendRound(f, number, "writing", WriteTime)
      <3>1. AfterCommentary(g, i) = k
        BY <1>3, <2>1, <2>4 DEF AfterCommentary, AppendRound, f
      <3>2. number \in Nat \ {0} /\ number <= MaxRounds
        BY <1>1, <2>1, <2>4 DEF IsLastRound
      <3>3. /\ Reaches(f, k, 0) /\ k.room = f.room
            /\ Len(k.rounds) = number
            /\ k.rounds[number].status = "writing" /\ k.rounds[number].pausedAt = NoTime
        <4>1. /\ number = Len(f.rounds) + 1 /\ f.rounds[Len(f.rounds)].status = "finished"
              /\ "writing" \in {"countdown", "writing"} /\ WriteTime \in {CountdownTime, WriteTime}
          BY <2>1
        <4> HIDE DEF number
        <4>. QED
          BY <2>2, <3>2, <4>1, AppendMoves
      <3> HIDE DEF k
      <3>4. Reaches(g, k, 1 + 0)
        BY <1>1, <2>1, <3>3, MovesTransitive
      <3>5. StatusSound(k, hostHere)
        BY <2>1, <3>2, <3>3 DEF StatusSound
      <3>. QED
        BY <2>1, <3>1, <3>3, <3>4, <3>5 DEF Step
    <2>. QED
      BY <2>3, <2>4
  <1>. QED
    BY <1>2, <1>3

-----------------------------------------------------------------------------
(* Synchronisation.                                                        *)

LEMMA DrawnKept ==
  ASSUME NEW g, NEW h, NEW shuffle, Drawn(g, shuffle),
         h.sets = g.sets, Len(h.rounds) = Len(g.rounds),
         \A i \in 1..Len(g.rounds) : h.rounds[i].status = g.rounds[i].status
  PROVE  Drawn(h, shuffle)
  <1>1. \A i : Authors(h, i) = Authors(g, i)
    BY DEF Authors, SetsOf
  <1>. QED
    BY <1>1 DEF Drawn

\* ensureRoomAvailable, and the first half of SyncRound.
LEMMA ExpireStep ==
  ASSUME NEW hostHere \in BOOLEAN, NEW g, Sound(g, hostHere), NEW n \in Nat
  PROVE  /\ Step(g, Expire(g), hostHere, n)
         /\ Expire(g).rounds = g.rounds /\ Expire(g).sets = g.sets
         /\ Expire(g).room.status \in {g.room.status, "expired"}
  <1> DEFINE h == WithStatus(g, "expired")
  <1>1. Core(g)
    BY DEF Sound
  <1>2. /\ Reaches(g, h, n) /\ h.rounds = g.rounds /\ h.sets = g.sets
        /\ h.room.hostID = g.room.hostID /\ h.room.status = "expired"
    BY <1>1, StatusMoves DEF RoomStatus
  <1> HIDE DEF h
  <1>3. Step(g, h, hostHere, n)
    BY <1>2 DEF Step, StatusSound
  <1>4. Expire(g) = g \/ Expire(g) = h
    BY DEF Expire, h
  <1>. QED
    BY <1>2, <1>3, <1>4, StepRefl

LEMMA AdvancedStep ==
  ASSUME NEW hostHere \in BOOLEAN, NEW g, Sound(g, hostHere), RowsTyped,
         NEW i \in 1..Len(g.rounds), g.room.status = "active",
         NEW shuffle, Drawn(g, shuffle)
  PROVE  Step(g, Advanced(g, i, shuffle), hostHere, 1)
  <1> DEFINE r == g.rounds[i]
  <1>1. r.status \in RoundStatus /\ now \in Nat
    BY RowAt DEF Sound, Core, RowsTyped
  <1>2. CASE r.status = "countdown"
    <2>1. Advanced(g, i, shuffle) = WithRound(g, i, Enter(r, "writing", WriteTime))
      BY <1>2 DEF Advanced
    <2>. QED
      BY <1>1, <1>2, <2>1, CountdownStep
  <1>3. CASE r.status = "writing"
    <2>1. Advanced(g, i, shuffle) = ToPresentation(g, i, shuffle)
      BY <1>3 DEF Advanced
    <2>. QED
      BY <1>1, <1>3, <2>1, WritingStep
  <1>4. CASE r.status = "presentation_voting"
    <2>1. Advanced(g, i, shuffle) = ToReveal(g, i)
      BY <1>4 DEF Advanced
    <2>. QED
      BY <1>4, <2>1, VotingStep
  <1>5. CASE r.status = "reveal"
    <2>1. Advanced(g, i, shuffle) = WithRound(g, i, Enter(r, "commentary", CommentTime))
      BY <1>5 DEF Advanced
    <2>. QED
      BY <1>1, <1>5, <2>1, RevealStep
  <1>6. CASE r.status = "commentary"
    <2>1. Advanced(g, i, shuffle) = AfterCommentary(g, i)
      BY <1>6 DEF Advanced
    <2>. QED
      BY <1>1, <1>6, <2>1, CommentaryStep
  <1>7. CASE r.status = "finished"
    <2>1. Advanced(g, i, shuffle) = g
      BY <1>7 DEF Advanced
    <2>. QED
      BY <2>1, StepRefl
  <1>. QED
    BY <1>1, <1>2, <1>3, <1>4, <1>5, <1>6, <1>7 DEF RoundStatus, Presenting

LEMMA SyncRoundStep ==
  ASSUME NEW hostHere \in BOOLEAN, NEW g, Sound(g, hostHere), RowsTyped,
         NEW i \in 1..Len(g.rounds), NEW shuffle, Drawn(g, shuffle)
  PROVE  Step(g, SyncRound(g, i, shuffle), hostHere, 1)
  <1> DEFINE e == Expire(g)
  <1>1. Step(g, e, hostHere, 1) /\ Step(g, e, hostHere, 0) /\ e.rounds = g.rounds /\ e.sets = g.sets
    BY ExpireStep
  <1>2. Sound(e, hostHere) /\ Core(g) /\ Drawn(e, shuffle)
    <2>1. Drawn(e, shuffle)
      BY <1>1, DrawnKept
    <2>. QED
      BY <1>1, <2>1 DEF Step, Reaches, Sound
  <1> HIDE DEF e
  <1>3. CASE ~Due(e, i)
    BY <1>1, <1>3 DEF SyncRound, e
  <1>4. CASE Due(e, i)
    <2>1. e.room.status = "active" /\ i \in 1..Len(e.rounds)
      BY <1>1, <1>4 DEF Due
    <2>2. Step(e, Advanced(e, i, shuffle), hostHere, 1)
      BY <1>2, <2>1, AdvancedStep
    <2>3. Step(g, Advanced(e, i, shuffle), hostHere, 0 + 1)
      BY <1>1, <1>2, <2>2, StepTransitive
    <2>. QED
      BY <1>4, <2>3 DEF SyncRound, e
  <1>. QED
    BY <1>3, <1>4

LEMMA SyncCurrentStep ==
  ASSUME NEW hostHere \in BOOLEAN, NEW g, Sound(g, hostHere), RowsTyped,
         NEW shuffle, Drawn(g, shuffle)
  PROVE  Step(g, SyncCurrent(g, shuffle), hostHere, 1)
  <1>1. g.rounds \in Seq(Rounds) /\ Len(g.rounds) \in Nat
    BY RowAt DEF Sound, Core
  <1>2. CASE g.rounds = <<>>
    BY <1>2, StepRefl DEF SyncCurrent
  <1>3. CASE g.rounds # <<>>
    <2>1. Current(g) \in 1..Len(g.rounds)
      BY <1>1, <1>3 DEF Current
    <2>. QED
      BY <1>3, <2>1, SyncRoundStep DEF SyncCurrent
  <1>. QED
    BY <1>2, <1>3

-----------------------------------------------------------------------------
(* What the host does to the game.                                         *)

\* The shuffles of the model rank those who write the current round.
LEMMA DrawnGame ==
  ASSUME Inv, NEW shuffle \in Shuffles
  PROVE  Drawn(game, shuffle)
  <1>1. Core(game) /\ game \in Games /\ SetsSound(game)
    BY DEF Inv, Sound, Core
  <1>2. /\ game.rounds = rounds /\ game.sets = sets
        /\ DOMAIN sets = 1..Len(sets) /\ Len(sets) \in Nat /\ Len(rounds) \in Nat
    BY <1>1, RowAt DEF game
  <1>3. ASSUME NEW i \in 1..Len(rounds), rounds[i].status = "writing"
        PROVE  Unordered = Authors(game, i)
    <2>1. ASSUME NEW s \in 1..Len(sets)
          PROVE  rounds[sets[s].round].active = 0 <=> s \in SetsOf(game, i)
      <3> DEFINE j == sets[s].round
      <3>1. j \in 1..Len(rounds)
        BY <1>1, <1>2 DEF SetsSound
      <3>2. s \in SetsOf(game, i) <=> j = i
        BY <1>1, <1>2, SetsOfRound
      <3>3. RoundSound(game, j) /\ RoundSound(game, i) /\ Presented(game, j) /\ Presented(game, i)
        BY <1>1, <1>2, <3>1 DEF Core
      <3>4. j = i => rounds[j].active = 0
        BY <1>2, <1>3, <3>3 DEF Presented
      <3>5. ASSUME j # i
            PROVE  rounds[j].active # 0
        <4>1. i = Len(rounds)
          BY <1>2, <1>3, <3>3 DEF RoundSound
        <4>2. rounds[j].status = "finished"
          BY <1>2, <3>1, <3>3, <3>5, <4>1 DEF RoundSound
        <4>3. game.rounds[j].status \in Presenting \cup {"finished"} /\ j \in 1..Len(game.rounds)
          BY <1>2, <3>1, <4>2
        <4>4. game.rounds[j].active # 0
          BY <1>1, <4>3, ActiveSet
        <4>. QED
          BY <1>2, <4>4
      <3>. QED
        BY <3>2, <3>4, <3>5
    <2>2. {t \in DOMAIN sets : rounds[sets[t].round].active = 0} = SetsOf(game, i)
      <3>1. SetsOf(game, i) \subseteq 1..Len(sets)
        BY <1>1, <1>2, SetsOfRound
      <3>. QED
        BY <1>2, <2>1, <3>1
    <2>. QED
      BY <1>2, <2>2 DEF Unordered, Authors
  <1>. QED
    BY <1>2, <1>3 DEF Drawn, Shuffles

\* Only the clock of a round is rewritten.
LEMMA ClockMoves ==
  ASSUME NEW g, Core(g), now \in Nat, NEW i \in 1..Len(g.rounds), NEW round \in Rounds,
         round.number = g.rounds[i].number, round.status = g.rounds[i].status,
         round.active = g.rounds[i].active, round.pausedAt <= now,
         round.phaseEndsAt = NoTime <=> g.rounds[i].phaseEndsAt = NoTime
  PROVE  LET h == WithRound(g, i, round)
         IN  /\ Reaches(g, h, 0) /\ h.room = g.room /\ h.sets = g.sets
             /\ Len(h.rounds) = Len(g.rounds) /\ h.rounds[i] = round
             /\ \A j \in 1..Len(g.rounds) : h.rounds[j].status = g.rounds[j].status
  <1> DEFINE h == WithRound(g, i, round)
  <1>1. g \in Games /\ Presented(g, i) /\ RoundSound(g, i)
    BY DEF Core
  <1>2. /\ h \in Games /\ h.room = g.room /\ h.sets = g.sets /\ h.rounds[i] = round
        /\ Rewrites(g, h, i) /\ \A j : SetsOf(h, j) = SetsOf(g, j)
    BY <1>1, RoundRow
  <1> HIDE DEF h
  <1>3. /\ Len(h.rounds) = Len(g.rounds)
        /\ \A j \in 1..Len(g.rounds) : h.rounds[j].status = g.rounds[j].status
    BY <1>2 DEF Rewrites
  <1>4. RoundSound(h, i)
    BY <1>1, <1>2, <1>3 DEF RoundSound
  <1>5. Presented(h, i)
    BY <1>1, <1>2 DEF Presented
  <1>6. StageOf(h, i) = StageOf(g, i)
    BY <1>2 DEF StageOf
  <1>7. StageOf(h, i) - StageOf(g, i) \in 0..0
    BY <1>6, StageNat
  <1>8. Reaches(g, h, 0)
    BY <1>2, <1>4, <1>5, <1>7, RewriteMoves
  <1>. QED
    BY <1>2, <1>3, <1>8 DEF h

LEMMA ResumedRow ==
  ASSUME NEW r \in Rounds, now \in Nat, r.pausedAt <= now
  PROVE  /\ Resumed(r) \in Rounds /\ Resumed(r).number = r.number
         /\ Resumed(r).status = r.status /\ Resumed(r).active = r.active
         /\ Resumed(r).pausedAt = NoTime /\ Resumed(r).pausedAt <= now
         /\ Resumed(r).phaseEndsAt = NoTime <=> r.phaseEndsAt = NoTime
  <1>1. CASE r.pausedAt = NoTime
    BY <1>1 DEF Resumed, NoTime
  <1>2. CASE r.pausedAt # NoTime
    <2> DEFINE time == IF r.phaseEndsAt = NoTime THEN r.phaseEndsAt
                                                 ELSE r.phaseEndsAt + (now - r.pausedAt)
    <2>1. now - r.pausedAt \in Nat /\ r.phaseEndsAt \in Nat \cup {NoTime}
      BY <1>2 DEF Rounds
    <2>2. time \in Nat \cup {NoTime} /\ (time = NoTime <=> r.phaseEndsAt = NoTime)
      BY <2>1 DEF NoTime
    <2>3. Resumed(r) = [r EXCEPT !.pausedAt = NoTime, !.phaseEndsAt = time]
      BY <1>2 DEF Resumed, Rounds
    <2> HIDE DEF time
    <2>4. NoTime <= now
      BY DEF NoTime
    <2>. QED
      BY <2>2, <2>3, <2>4 DEF Rounds
  <1>. QED
    BY <1>1, <1>2

\* A pause or its end: the clock of the last round, and the status of the room.
LEMMA ClockStep ==
  ASSUME NEW hostHere \in BOOLEAN, NEW g, Sound(g, hostHere), now \in Nat,
         g.room.status \in {"active", "paused"},
         NEW shuffle, Drawn(g, shuffle),
         NEW status \in {"active", "paused"}, NEW round \in Rounds,
         LET r == g.rounds[Current(g)]
         IN  /\ round.number = r.number /\ round.status = r.status
             /\ round.active = r.active /\ round.pausedAt <= now
             /\ round.phaseEndsAt = NoTime <=> r.phaseEndsAt = NoTime,
         status = "active" => round.pausedAt = NoTime
  PROVE  LET h == WithStatus(OnCurrent(g, round), status)
         IN  Step(g, h, hostHere, 0) /\ Drawn(h, shuffle)
  <1> DEFINE i == Current(g)
             k == WithRound(g, i, round)
             h == WithStatus(k, status)
  <1>1. Core(g) /\ g.rounds \in Seq(Rounds) /\ Len(g.rounds) \in Nat /\ StatusSound(g, hostHere)
    BY RowAt DEF Sound, Core
  <1>2. i = Len(g.rounds) /\ i \in 1..Len(g.rounds) /\ g.rounds # <<>>
    BY <1>1 DEF StatusSound, Current
  <1>3. g.rounds[i].status # "finished"
    BY <1>1, <1>2 DEF StatusSound
  <1>4. /\ Reaches(g, k, 0) /\ k.room = g.room /\ k.sets = g.sets
        /\ Len(k.rounds) = Len(g.rounds) /\ k.rounds[i] = round
        /\ \A j \in 1..Len(g.rounds) : k.rounds[j].status = g.rounds[j].status
    <2> HIDE DEF i, k
    <2>1. /\ round.number = g.rounds[i].number /\ round.status = g.rounds[i].status
          /\ round.active = g.rounds[i].active /\ round.pausedAt <= now
          /\ round.phaseEndsAt = NoTime <=> g.rounds[i].phaseEndsAt = NoTime
      BY DEF i
    <2>. QED
      BY <1>1, <1>2, <2>1, ClockMoves DEF k
  <1>5. OnCurrent(g, round) = k
    BY <1>2 DEF OnCurrent
  <1> HIDE DEF i, k
  <1>6. /\ Reaches(k, h, 0) /\ h.rounds = k.rounds /\ h.sets = k.sets
        /\ h.room.hostID = k.room.hostID /\ h.room.status = status
    BY <1>4, StatusMoves DEF RoomStatus, Reaches
  <1> HIDE DEF h
  <1>7. Reaches(g, h, 0 + 0)
    BY <1>1, <1>4, <1>6, MovesTransitive
  <1>8. StatusSound(h, hostHere)
    BY <1>1, <1>2, <1>3, <1>4, <1>6 DEF StatusSound
  <1>9. Drawn(h, shuffle)
    BY <1>4, <1>6, DrawnKept
  <1>10. Step(g, h, hostHere, 0)
    BY <1>4, <1>6, <1>7, <1>8 DEF Step
  <1>. QED
    BY <1>5, <1>9, <1>10 DEF h

LEMMA UnpausedStep ==
  ASSUME NEW hostHere \in BOOLEAN, NEW g, Sound(g, hostHere), now \in Nat,
         g.room.status = "paused", NEW shuffle, Drawn(g, shuffle)
  PROVE  Step(g, Unpaused(g), hostHere, 0) /\ Drawn(Unpaused(g), shuffle)
  <1> DEFINE r == g.rounds[Current(g)]
  <1>1. r \in Rounds /\ r.pausedAt <= now
    <2>1. Core(g) /\ Len(g.rounds) \in Nat /\ Len(g.rounds) # 0
      BY RowAt DEF Sound, Core, StatusSound
    <2>2. Current(g) \in 1..Len(g.rounds)
      BY <2>1 DEF Current
    <2>. QED
      BY <2>1, <2>2, RowAt DEF Core, RoundSound
  <1>2. /\ Resumed(r) \in Rounds /\ Resumed(r).number = r.number
        /\ Resumed(r).status = r.status /\ Resumed(r).active = r.active
        /\ Resumed(r).pausedAt = NoTime /\ Resumed(r).pausedAt <= now
        /\ Resumed(r).phaseEndsAt = NoTime <=> r.phaseEndsAt = NoTime
    BY <1>1, ResumedRow
  <1>. QED
    BY <1>2, ClockStep DEF Unpaused

LEMMA PausedStep ==
  ASSUME NEW hostHere \in BOOLEAN, NEW g, Sound(g, hostHere), now \in Nat,
         g.room.status = "active", NEW shuffle, Drawn(g, shuffle)
  PROVE  Step(g, Paused(g), hostHere, 0) /\ Drawn(Paused(g), shuffle)
  <1> DEFINE r == g.rounds[Current(g)]
             round == [r EXCEPT !.pausedAt = now]
  <1>1. r \in Rounds
    <2>1. Core(g) /\ Len(g.rounds) \in Nat /\ Len(g.rounds) # 0
      BY RowAt DEF Sound, Core, StatusSound
    <2>2. Current(g) \in 1..Len(g.rounds)
      BY <2>1 DEF Current
    <2>. QED
      BY <2>1, <2>2, RowAt DEF Core
  <1>2. /\ round \in Rounds /\ round.number = r.number
        /\ round.status = r.status /\ round.active = r.active
        /\ round.pausedAt <= now
        /\ round.phaseEndsAt = NoTime <=> r.phaseEndsAt = NoTime
    BY <1>1 DEF Rounds
  <1>3. Paused(g) = WithStatus(OnCurrent(g, round), "paused")
    BY DEF Paused
  <1> HIDE DEF round
  <1>. QED
    BY <1>2, <1>3, ClockStep

LEMMA OpenedStep ==
  ASSUME NEW hostHere \in BOOLEAN, NEW g, Sound(g, hostHere), now \in Nat,
         g.room.status = "waiting", NEW shuffle
  PROVE  Step(g, Opened(g), hostHere, 0) /\ Drawn(Opened(g), shuffle)
  <1> DEFINE k == AppendRound(g, 1, "countdown", CountdownTime)
             h == WithStatus(k, "active")
  <1>1. Core(g) /\ Len(g.rounds) = 0
    BY DEF Sound, StatusSound
  <1>2. Opened(g) = h
    BY DEF Opened, AppendRound
  <1>3. /\ Reaches(g, k, 0) /\ k.room = g.room /\ Len(k.rounds) = 1
        /\ k.rounds[1].status = "countdown" /\ k.rounds[1].pausedAt = NoTime
    <2> DEFINE number == 1
               status == "countdown"
               duration == CountdownTime
    <2>1. number \in Nat \ {0} /\ number = Len(g.rounds) + 1 /\ number <= MaxRounds
      BY <1>1, TLLimitsAssumption
    <2>2. status \in {"countdown", "writing"} /\ duration \in {CountdownTime, WriteTime}
      OBVIOUS
    <2>3. Len(g.rounds) # 0 => g.rounds[Len(g.rounds)].status = "finished"
      BY <1>1
    <2>4. k = AppendRound(g, number, status, duration) /\ number = 1 /\ status = "countdown"
      OBVIOUS
    <2> HIDE DEF number, status, duration, k
    <2>5. LET n == AppendRound(g, number, status, duration)
          IN  /\ Reaches(g, n, 0) /\ n.room = g.room
              /\ Len(n.rounds) = number
              /\ n.rounds[number].status = status /\ n.rounds[number].pausedAt = NoTime
      <3>1. Core(g)
        BY <1>1
      <3>. QED
        BY <2>1, <2>2, <2>3, <3>1, AppendMoves
    <2>. QED
      BY <2>4, <2>5
  <1> HIDE DEF k
  <1>4. /\ Reaches(k, h, 0) /\ h.rounds = k.rounds
        /\ h.room.hostID = k.room.hostID /\ h.room.status = "active"
    BY <1>3, StatusMoves DEF RoomStatus, Reaches
  <1> HIDE DEF h
  <1>5. Reaches(g, h, 0 + 0)
    BY <1>1, <1>3, <1>4, MovesTransitive
  <1>6. StatusSound(h, hostHere)
    BY <1>3, <1>4 DEF StatusSound
  <1>7. Drawn(h, shuffle)
    BY <1>3, <1>4 DEF Drawn
  <1>. QED
    BY <1>2, <1>3, <1>4, <1>5, <1>6, <1>7 DEF Step

-----------------------------------------------------------------------------
(* Truth sets handed in.                                                   *)

\* The first truth set of a player for the round that is being written.
LEMMA AddedSetMoves ==
  ASSUME NEW g, Core(g), NEW j \in 1..Len(g.rounds), g.rounds[j].status = "writing",
         NEW row \in TruthSets, row.round = j, row.order = 0, ~row.scored,
         \A s \in SetsOf(g, j) : g.sets[s].author # row.author
  PROVE  LET h == [g EXCEPT !.sets = Append(@, row)]
         IN  Reaches(g, h, 0) /\ h.room = g.room /\ h.rounds = g.rounds
  <1> DEFINE h == [g EXCEPT !.sets = Append(@, row)]
             n == Len(g.sets)
  <1>1. /\ g \in Games /\ SetsSound(g) /\ g.sets \in Seq(TruthSets) /\ n \in Nat
        /\ Len(g.rounds) \in Nat
        /\ \A i \in 1..Len(g.rounds) : RoundSound(g, i) /\ Presented(g, i)
    BY RowAt DEF Core
  <1>2. /\ h \in Games /\ h.room = g.room /\ h.rounds = g.rounds
        /\ h.sets = Append(g.sets, row)
    BY <1>1, AppendRow DEF Games
  <1> HIDE DEF h
  <1>3. /\ Len(h.sets) = n + 1 /\ h.sets[n + 1] = row
        /\ \A s \in 1..n : h.sets[s] = g.sets[s]
    BY <1>1, <1>2, AppendRow
  <1>4. /\ \A i, s : s \in SetsOf(g, i) <=> s \in 1..n /\ g.sets[s].round = i
        /\ \A i, s : s \in SetsOf(h, i) <=> s \in 1..(n + 1) /\ h.sets[s].round = i
    BY <1>1, <1>2, <1>3, SetsOfRound
  <1>5. ASSUME NEW i \in 1..Len(g.rounds), i # j
        PROVE  Presented(h, i) /\ StageOf(h, i) = StageOf(g, i)
    <2>1. ASSUME NEW s
          PROVE  s \in SetsOf(h, i) <=> s \in SetsOf(g, i)
      <3>1. s \in 1..(n + 1) <=> s \in 1..n \/ s = n + 1
        BY <1>1
      <3>2. h.sets[n + 1].round # i /\ n + 1 \notin 1..n
        BY <1>1, <1>3, <1>5
      <3>. QED
        BY <1>3, <1>4, <3>1, <3>2
    <2>2. SetsOf(h, i) = SetsOf(g, i)
      BY <2>1
    <2>3. \A s \in SetsOf(g, i) : h.sets[s] = g.sets[s]
      BY <1>3, <1>4
    <2>. QED
      BY <1>1, <1>2, <2>2, <2>3, RoundKept
  <1>6. Presented(h, j) /\ StageOf(h, j) = StageOf(g, j)
    <2>1. /\ g.rounds[j].active = 0
          /\ \A s \in SetsOf(g, j) : g.sets[s].order = 0 /\ ~g.sets[s].scored
      BY <1>1 DEF Presented
    <2>2. ASSUME NEW s \in SetsOf(h, j)
          PROVE  h.sets[s].order = 0 /\ ~h.sets[s].scored
      <3>1. CASE s = n + 1
        BY <1>3, <3>1
      <3>2. CASE s # n + 1
        <4>1. s \in 1..n
          BY <1>1, <1>4, <3>2
        <4>2. h.sets[s] = g.sets[s]
          BY <1>3, <4>1
        <4>3. s \in SetsOf(g, j)
          BY <1>4, <4>1, <4>2
        <4>. QED
          BY <2>1, <4>2, <4>3
      <3>. QED
        BY <3>1, <3>2
    <2>3. Presented(h, j)
      BY <1>2, <2>1, <2>2 DEF Presented
    <2>4. StageOf(h, j) = StageOf(g, j)
      BY <1>2 DEF StageOf
    <2>. QED
      BY <2>3, <2>4
  <1>7. SetsSound(h)
    <2>1. ASSUME NEW s \in 1..(n + 1)
          PROVE  h.sets[s].round \in 1..Len(h.rounds)
      <3>1. CASE s = n + 1
        BY <1>2, <1>3, <3>1
      <3>2. CASE s # n + 1
        <4>1. s \in 1..n
          BY <1>1, <3>2
        <4>. QED
          BY <1>1, <1>2, <1>3, <4>1 DEF SetsSound
      <3>. QED
        BY <3>1, <3>2
    <2>2. ASSUME NEW s \in 1..(n + 1), NEW t \in 1..(n + 1),
                 h.sets[s].round = h.sets[t].round, h.sets[s].author = h.sets[t].author
          PROVE  s = t
      <3>1. \A u \in 1..n : h.sets[u].round = j => h.sets[u].author # row.author
        BY <1>3, <1>4
      <3>2. CASE s = n + 1 \/ t = n + 1
        <4>1. s \in 1..n \/ s = n + 1
          BY <1>1
        <4>2. t \in 1..n \/ t = n + 1
          BY <1>1
        <4>. QED
          BY <1>3, <2>2, <3>1, <3>2, <4>1, <4>2
      <3>3. CASE s # n + 1 /\ t # n + 1
        <4>1. s \in 1..n /\ t \in 1..n
          BY <1>1, <3>3
        <4>2. h.sets[s] = g.sets[s] /\ h.sets[t] = g.sets[t]
          BY <1>3, <4>1
        <4>. QED
          BY <1>1, <2>2, <4>1, <4>2 DEF SetsSound
      <3>. QED
        BY <3>2, <3>3
    <2>. QED
      BY <1>3, <2>1, <2>2 DEF SetsSound
  <1>8. Core(h)
    <2>1. \A i \in 1..Len(h.rounds) : Presented(h, i)
      BY <1>2, <1>5, <1>6
    <2>2. \A i \in 1..Len(h.rounds) : RoundSound(h, i)
      BY <1>1, <1>2 DEF RoundSound
    <2>. QED
      BY <1>2, <1>7, <2>1, <2>2 DEF Core
  <1>9. Forward(g, h, 0)
    <2>1. \A i \in 1..Len(g.rounds) : StageOf(g, i) \in Nat /\ StageOf(h, i) = StageOf(g, i)
      BY <1>5, <1>6, StageNat
    <2>2. \A i \in 1..Len(g.rounds) : StageOf(h, i) - StageOf(g, i) \in 0..0
      BY <2>1
    <2>. QED
      BY <1>1, <1>2, <1>3, <2>2 DEF Forward
  <1>. QED
    BY <1>2, <1>8, <1>9 DEF Reaches, h

WithSet(g, s, row) == [g EXCEPT !.sets[s] = row]

\* A truth set rewritten by its author while the round is being written.
LEMMA RewrittenSetMoves ==
  ASSUME NEW g, Core(g), NEW j \in 1..Len(g.rounds), g.rounds[j].status = "writing",
         NEW s \in SetsOf(g, j), NEW row \in TruthSets, row.round = j,
         row.author = g.sets[s].author, row.order = g.sets[s].order, ~row.scored
  PROVE  LET h == WithSet(g, s, row)
         IN  Reaches(g, h, 0) /\ h.room = g.room /\ h.rounds = g.rounds
  <1> DEFINE h == [g EXCEPT !.sets[s] = row]
  <1>1. /\ g \in Games /\ g.sets \in Seq(TruthSets) /\ Len(g.sets) \in Nat
        /\ RoundSound(g, j) /\ Presented(g, j)
    BY RowAt DEF Core
  <1>2. s \in 1..Len(g.sets) /\ g.sets[s].round = j
    BY <1>1, SetsOfRound
  <1>3. /\ h \in Games /\ h.room = g.room /\ h.rounds = g.rounds
        /\ h.sets = [g.sets EXCEPT ![s] = row]
    <2> DEFINE rows == [g.sets EXCEPT ![s] = row]
    <2>1. rows \in Seq(TruthSets)
      BY <1>1, <1>2, ReplaceRow
    <2>2. h = [g EXCEPT !.sets = rows]
      BY <1>1 DEF Games
    <2> HIDE DEF rows, h
    <2>3. h \in Games /\ h.room = g.room /\ h.rounds = g.rounds /\ h.sets = rows
      BY <1>1, <2>1, <2>2 DEF Games
    <2>. QED
      BY <2>3 DEF rows
  <1> HIDE DEF h
  <1>4. /\ Len(h.sets) = Len(g.sets) /\ h.sets[s] = row
        /\ \A t \in 1..Len(g.sets) : t # s => h.sets[t] = g.sets[t]
    BY <1>1, <1>2, <1>3, ReplaceRow
  <1>5. Rewrites(g, h, j)
    BY <1>2, <1>3, <1>4 DEF Rewrites
  <1>6. \A t : t \in SetsOf(h, j) <=> t \in SetsOf(g, j)
    <2>1. \A t : t \in SetsOf(h, j) <=> t \in 1..Len(h.sets) /\ h.sets[t].round = j
      BY <1>3, SetsOfRound
    <2>2. \A t : t \in SetsOf(g, j) <=> t \in 1..Len(g.sets) /\ g.sets[t].round = j
      BY <1>1, SetsOfRound
    <2>. QED
      BY <2>1, <2>2, <1>5 DEF Rewrites
  <1>7. Presented(h, j)
    <2>1. /\ g.rounds[j].active = 0
          /\ \A t \in SetsOf(g, j) : g.sets[t].order = 0 /\ ~g.sets[t].scored
      BY <1>1 DEF Presented
    <2>2. \A t \in SetsOf(g, j) : t \in 1..Len(g.sets)
      BY <1>1, SetsOfRound
    <2>3. \A t \in SetsOf(h, j) : h.sets[t].order = 0 /\ ~h.sets[t].scored
      BY <1>4, <1>6, <2>1, <2>2
    <2>. QED
      BY <1>3, <2>1, <2>3 DEF Presented
  <1>8. RoundSound(h, j)
    BY <1>1, <1>3 DEF RoundSound
  <1>9. StageOf(g, j) = 2 /\ StageOf(h, j) = 2
    BY <1>3 DEF StageOf
  <1>10. Reaches(g, h, 0)
    BY <1>3, <1>5, <1>7, <1>8, <1>9, RewriteMoves
  <1>. QED
    BY <1>3, <1>10 DEF h, WithSet

-----------------------------------------------------------------------------
(* Every action keeps the invariant and moves the rounds forward.          *)

LEMMA GameParts ==
  ASSUME NEW g \in Games
  PROVE  g = [room |-> g.room, rounds |-> g.rounds, sets |-> g.sets, score |-> g.score]
  BY DEF Games

LEMMA HostHereBoolean == HostHere \in BOOLEAN
  BY DEF HostHere

\* A request that ends by committing a game reached by a step.
LEMMA CommitKeeps ==
  ASSUME Inv, now' = now, postgres' = postgres, NEW h, Commit(h),
         Step(game, h, HostHere', 1),
         room.status # "none", user'[room.hostID] # "absent",
         user' \in [Players -> {"absent", "member", "gone"}],
         votes' \subseteq Votes, IsFiniteSet(votes'), \A v \in votes' : v.set \in 1..Len(h.sets)
  PROVE  Inv' /\ Forward(game, game', 1)
  <1>1. /\ h \in Games /\ Core(h) /\ StatusSound(h, HostHere') /\ Forward(game, h, 1)
        /\ h.room.hostID = room.hostID /\ h.room.status # "none"
    BY DEF Step, Reaches, Core, game
  <1>2. game' = h
    BY <1>1, GameParts DEF Commit, game
  <1>3. room' = h.room /\ sets' = h.sets
    BY DEF Commit
  <1>4. HostKnown'
    BY <1>1, <1>3 DEF HostKnown, Inv
  <1>5. RowsTyped'
    BY <1>3 DEF RowsTyped, Inv
  <1>6. Core(game)'
    BY <1>1, <1>2 DEF Core, RoundSound
  <1>7. StatusSound(game, HostHere)'
    BY <1>1, <1>2
  <1>. QED
    BY <1>1, <1>2, <1>4, <1>5, <1>6, <1>7 DEF Inv, Sound

\* No vote is for a truth set that is not there.
LEMMA VotesKept ==
  ASSUME Inv, NEW h, Forward(game, h, 1), h \in Games
  PROVE  \A v \in votes : v.set \in 1..Len(h.sets)
  <1>1. \A v \in votes : v.set \in 1..Len(game.sets)
    BY DEF Inv, RowsTyped, game
  <1>2. Len(game.sets) \in Nat /\ Len(h.sets) \in Nat /\ Len(game.sets) <= Len(h.sets)
    BY RowAt DEF Inv, Sound, Core, Forward
  <1>. QED
    BY <1>1, <1>2

\* The same for the requests that change no vote and no user.
LEMMA CommitKeepsUsers ==
  ASSUME Inv, now' = now, postgres' = postgres, user' = user, votes' = votes, NEW h, Commit(h),
         Step(game, h, HostHere, 1), room.status # "none"
  PROVE  Inv' /\ Forward(game, game', 1)
  <1>1. h.room.hostID = room.hostID /\ room' = h.room
    BY DEF Step, game, Commit
  <1>2. HostHere' = HostHere
    BY <1>1 DEF HostHere
  <1>3. /\ user'[room.hostID] # "absent" /\ user' \in [Players -> {"absent", "member", "gone"}]
        /\ votes' \subseteq Votes /\ IsFiniteSet(votes')
    BY DEF Inv, HostKnown, RowsTyped
  <1>4. \A v \in votes' : v.set \in 1..Len(h.sets)
    BY VotesKept DEF Step, Reaches, Core
  <1>. QED
    BY <1>2, <1>3, <1>4, CommitKeeps

\* Whoever is a member is a member of a room that exists.
LEMMA MemberOfRoom ==
  ASSUME Inv, NEW p \in Players, user[p] = "member"
  PROVE  room.status # "none"
  BY DEF Inv, HostKnown

LEMMA RoundOfRoom ==
  ASSUME Inv, NEW i \in DOMAIN rounds
  PROVE  room.status # "none" /\ i \in 1..Len(game.rounds)
  <1>1. rounds \in Seq(Rounds) /\ game.rounds = rounds /\ game.room = room
    BY DEF Inv, Sound, Core, Games, game
  <1>. QED
    BY <1>1 DEF Inv, Sound, StatusSound

LEMMA SyncKeeps ==
  ASSUME Inv, NEW shuffle \in Shuffles
  PROVE  /\ Sound(game, HostHere) /\ Core(game) /\ RowsTyped /\ now \in Nat
         /\ Drawn(game, shuffle) /\ Drawn(Expire(game), shuffle)
         /\ Step(game, Expire(game), HostHere, 0)
         /\ \A i \in 1..Len(game.rounds) : Step(game, SyncRound(game, i, shuffle), HostHere, 1)
  <1>1. Sound(game, HostHere) /\ RowsTyped /\ now \in Nat /\ Core(game)
    BY DEF Inv, RowsTyped, Sound
  <1>2. Drawn(game, shuffle)
    BY DrawnGame
  <1>3. /\ Step(game, Expire(game), HostHere, 0)
        /\ Expire(game).rounds = game.rounds /\ Expire(game).sets = game.sets
    BY <1>1, HostHereBoolean, ExpireStep
  <1>4. Drawn(Expire(game), shuffle)
    BY <1>2, <1>3, DrawnKept
  <1>. QED
    BY <1>1, <1>2, <1>3, <1>4, HostHereBoolean, SyncRoundStep

\* A step followed by the trailing synchronisation of a handler.
LEMMA ThenSync ==
  ASSUME NEW hostHere \in BOOLEAN, NEW g, Core(g), NEW h, RowsTyped,
         Step(g, h, hostHere, 0), NEW shuffle, Drawn(h, shuffle)
  PROVE  Step(g, SyncCurrent(h, shuffle), hostHere, 1)
  <1>1. Sound(h, hostHere)
    BY DEF Step, Sound, Reaches
  <1>2. Step(h, SyncCurrent(h, shuffle), hostHere, 1)
    BY <1>1, SyncCurrentStep
  <1>3. Step(g, SyncCurrent(h, shuffle), hostHere, 0 + 1)
    BY <1>2, StepTransitive
  <1>. QED
    BY <1>3

LEMMA TickKeeps ==
  ASSUME Inv, Tick, postgres' = postgres
  PROVE  Inv' /\ Forward(game, game', 1)
  <1>1. game' = game /\ HostHere' = HostHere /\ now' \in Nat /\ now \in Nat /\ now <= now'
        /\ HostKnown' /\ RowsTyped'
    BY DEF Tick, Inv, RowsTyped, HostKnown, HostHere, game
  <1>2. Core(game) /\ StatusSound(game, HostHere)
    BY DEF Inv, Sound
  <1>3. ASSUME NEW i \in 1..Len(game.rounds)
        PROVE  RoundSound(game, i)'
    <2>1. RoundSound(game, i) /\ game.rounds[i] \in Rounds
      BY <1>2, RowAt DEF Core
    <2>2. game.rounds[i].pausedAt \in Int
      BY <2>1 DEF Rounds, NoTime
    <2>. QED
      BY <1>1, <2>1, <2>2 DEF RoundSound
  <1>4. Core(game)'
    BY <1>1, <1>2, <1>3 DEF Core
  <1>5. StatusSound(game, HostHere)'
    BY <1>1, <1>2
  <1>6. Forward(game, game, 1)
    BY <1>2, MovesRefl DEF Reaches
  <1>. QED
    BY <1>1, <1>4, <1>5, <1>6 DEF Inv, Sound

LEMMA CreateRoomKeeps ==
  ASSUME Inv, NEW p \in Players, CreateRoom(p), postgres' = postgres
  PROVE  Inv' /\ Forward(game, game', 1)
  <1>1. Core(game) /\ game.rounds = rounds /\ Len(rounds) = 0 /\ game \in Games
    BY DEF CreateRoom, Inv, Sound, Core, StatusSound, game
  <1>2. room'.status = "waiting" /\ room'.hostID = p /\ room' \in Rooms
    <2>1. now + Expiration \in Nat
      BY TLTimesAssumption DEF Inv, RowsTyped
    <2>. QED
      BY <2>1 DEF CreateRoom, Rooms, RoomStatus
  <1>3. RowsTyped' /\ HostKnown'
    BY <1>2 DEF CreateRoom, Inv, RowsTyped, HostKnown
  <1>4. game' \in Games /\ (game.rounds)' = rounds /\ (game.sets)' = game.sets
        /\ (game.room)' = room'
    BY <1>1, <1>2 DEF game, Games, CreateRoom
  <1>5. Core(game)'
    <2>1. Len(game'.rounds) = 0 /\ game'.sets = game.sets
      BY <1>1, <1>4
    <2>2. SetsSound(game')
      BY <1>1, <2>1 DEF Core, SetsSound
    <2>. QED
      BY <1>4, <2>1, <2>2 DEF Core
  <1>6. StatusSound(game, HostHere)'
    BY <1>1, <1>2, <1>4 DEF StatusSound
  <1>7. Forward(game, game', 1)
    <2>1. Len(game.sets) \in Nat
      BY <1>1, RowAt
    <2>. QED
      BY <1>1, <1>4, <2>1 DEF Forward
  <1>. QED
    BY <1>3, <1>5, <1>6, <1>7 DEF Inv, Sound

LEMMA GetRoomStateKeeps ==
  ASSUME Inv, NEW shuffle \in Shuffles, GetRoomState(shuffle), postgres' = postgres
  PROVE  Inv' /\ Forward(game, game', 1)
  <1>1. Step(game, SyncCurrent(Expire(game), shuffle), HostHere, 1)
    BY SyncKeeps, HostHereBoolean, ThenSync
  <1>. QED
    BY <1>1, CommitKeepsUsers DEF GetRoomState

LEMMA JoinRoomKeeps ==
  ASSUME Inv, NEW p \in Players, JoinRoom(p), postgres' = postgres
  PROVE  Inv' /\ Forward(game, game', 1)
  <1> DEFINE g == Expire(game)
  <1>1. /\ room.status # "none" /\ room.hostID # p /\ room.hostID \in Players
        /\ user[room.hostID] # "absent" /\ user[p] = "absent"
    BY DEF JoinRoom, Inv, HostKnown
  <1>2. Step(game, g, HostHere, 1)
    BY HostHereBoolean, ExpireStep DEF Inv
  <1>3. /\ now' = now /\ votes' = votes /\ user'[room.hostID] = user[room.hostID]
        /\ user' \in [Players -> {"absent", "member", "gone"}]
        /\ votes' \subseteq Votes /\ IsFiniteSet(votes') /\ Commit(g)
    BY <1>1 DEF JoinRoom, Inv, RowsTyped
  <1> HIDE DEF g
  <1>4. HostHere' = HostHere
    BY <1>2, <1>3 DEF HostHere, Commit, Step, game
  <1>5. \A v \in votes' : v.set \in 1..Len(g.sets)
    BY <1>2, <1>3, VotesKept DEF Step, Reaches, Core
  <1>. QED
    BY <1>1, <1>2, <1>3, <1>4, <1>5, CommitKeeps

\* When the host leaves, or nobody stays, the room is closed without its host.
LEMMA LeaveRoomKeeps ==
  ASSUME Inv, NEW p \in Players, NEW shuffle \in Shuffles, LeaveRoom(p, shuffle),
         postgres' = postgres
  PROVE  Inv' /\ Forward(game, game', 1)
  <1> DEFINE closes == Closes(p)
             closed == WithStatus(game, "finished")
             h == IF closes THEN closed ELSE game
             k == SyncCurrent(h, shuffle)
             hostStays == user'[room.hostID] = "member"
  <1>1. Sound(game, HostHere) /\ Core(game) /\ RowsTyped /\ Drawn(game, shuffle)
    BY SyncKeeps
  <1>2. room.status # "none" /\ room.hostID \in Players /\ user[room.hostID] # "absent"
    BY MemberOfRoom DEF LeaveRoom, Inv, HostKnown
  <1>3. /\ now' = now /\ votes' = votes /\ user'[room.hostID] # "absent"
        /\ user' \in [Players -> {"absent", "member", "gone"}]
        /\ votes' \subseteq Votes /\ IsFiniteSet(votes') /\ Commit(k)
    BY <1>2 DEF LeaveRoom, Inv, RowsTyped
  <1>4. hostStays \in BOOLEAN /\ (hostStays => HostHere) /\ (closes => ~hostStays)
    BY <1>2 DEF HostHere, LeaveRoom, Inv, RowsTyped, Members, Closes
  <1> HIDE DEF hostStays, closes
  <1>5. Sound(game, hostStays)
    BY <1>1, <1>4 DEF Sound, StatusSound
  <1>6. Step(game, h, hostStays, 0) /\ Drawn(h, shuffle)
    <2>1. CASE closes
      <3>1. /\ Reaches(game, closed, 0) /\ closed.rounds = game.rounds /\ closed.sets = game.sets
            /\ closed.room.hostID = game.room.hostID /\ closed.room.status = "finished"
        BY <1>1, StatusMoves DEF RoomStatus
      <3> HIDE DEF closed
      <3>2. StatusSound(closed, hostStays)
        BY <1>4, <2>1, <3>1 DEF StatusSound
      <3>3. Drawn(closed, shuffle)
        BY <1>1, <3>1, DrawnKept
      <3>. QED
        BY <2>1, <3>1, <3>2, <3>3 DEF Step
    <2>2. CASE ~closes
      BY <1>1, <1>4, <1>5, <2>2, StepRefl
    <2>. QED
      BY <2>1, <2>2
  <1> HIDE DEF h
  <1>7. Step(game, k, hostStays, 1)
    BY <1>1, <1>4, <1>6, ThenSync
  <1> HIDE DEF k
  <1>8. HostHere' = hostStays
    BY <1>3, <1>7 DEF HostHere, hostStays, Commit, Step, game
  <1>9. \A v \in votes' : v.set \in 1..Len(k.sets)
    BY <1>3, <1>7, VotesKept DEF Step, Reaches, Core
  <1>. QED
    BY <1>2, <1>3, <1>7, <1>8, <1>9, CommitKeeps

LEMMA StartGameKeeps ==
  ASSUME Inv, NEW p \in Players, NEW shuffle \in Shuffles, StartGame(p, shuffle),
         postgres' = postgres
  PROVE  Inv' /\ Forward(game, game', 1)
  <1> DEFINE g == Expire(game)
  <1>1. /\ Step(game, g, HostHere, 0) /\ Core(game) /\ RowsTyped /\ now \in Nat
        /\ HostHere \in BOOLEAN /\ Drawn(g, shuffle)
    BY SyncKeeps, HostHereBoolean
  <1>2. now' = now /\ user' = user /\ votes' = votes /\ room.status # "none"
    BY MemberOfRoom DEF StartGame
  <1>3. Sound(g, HostHere) /\ Core(g)
    BY <1>1 DEF Step, Reaches, Sound
  <1>4. \/ g.room.status = "waiting" /\ Commit(SyncCurrent(Opened(g), shuffle))
        \/ g.room.status = "paused" /\ Commit(SyncCurrent(Unpaused(g), shuffle))
        \/ Commit(g)
    BY DEF StartGame
  <1>5. Step(game, g, HostHere, 1)
    BY HostHereBoolean, ExpireStep DEF Inv
  <1> HIDE DEF g
  <1>6. CASE g.room.status = "waiting" /\ Commit(SyncCurrent(Opened(g), shuffle))
    <2>1. Step(g, Opened(g), HostHere, 0) /\ Drawn(Opened(g), shuffle)
      BY <1>1, <1>3, <1>6, OpenedStep
    <2>2. Step(game, Opened(g), HostHere, 0 + 0)
      BY <1>1, <2>1, StepTransitive
    <2>3. Step(game, SyncCurrent(Opened(g), shuffle), HostHere, 1)
      BY <1>1, <2>1, <2>2, ThenSync
    <2>. QED
      BY <1>2, <1>6, <2>3, CommitKeepsUsers
  <1>7. CASE g.room.status = "paused" /\ Commit(SyncCurrent(Unpaused(g), shuffle))
    <2>1. Step(g, Unpaused(g), HostHere, 0) /\ Drawn(Unpaused(g), shuffle)
      BY <1>1, <1>3, <1>7, UnpausedStep
    <2>2. Step(game, Unpaused(g), HostHere, 0 + 0)
      BY <1>1, <2>1, StepTransitive
    <2>3. Step(game, SyncCurrent(Unpaused(g), shuffle), HostHere, 1)
      BY <1>1, <2>1, <2>2, ThenSync
    <2>. QED
      BY <1>2, <1>7, <2>3, CommitKeepsUsers
  <1>8. CASE Commit(g)
    BY <1>2, <1>5, <1>8, CommitKeepsUsers
  <1>. QED
    BY <1>4, <1>6, <1>7, <1>8

LEMMA PauseRoundKeeps ==
  ASSUME Inv, NEW p \in Players, NEW shuffle \in Shuffles, PauseRound(p, shuffle),
         postgres' = postgres
  PROVE  Inv' /\ Forward(game, game', 1)
  <1>1. /\ Sound(game, HostHere) /\ Core(game) /\ RowsTyped /\ now \in Nat
        /\ HostHere \in BOOLEAN /\ Drawn(game, shuffle)
    BY SyncKeeps, HostHereBoolean
  <1>2. now' = now /\ user' = user /\ votes' = votes /\ room.status # "none"
    BY MemberOfRoom DEF PauseRound
  <1>3. CASE game.room.status = "active" /\ Commit(SyncCurrent(Paused(game), shuffle))
    <2>1. Step(game, Paused(game), HostHere, 0) /\ Drawn(Paused(game), shuffle)
      BY <1>1, <1>3, PausedStep
    <2>2. Step(game, SyncCurrent(Paused(game), shuffle), HostHere, 1)
      BY <1>1, <2>1, ThenSync
    <2>. QED
      BY <1>2, <1>3, <2>2, CommitKeepsUsers
  <1>4. CASE game.room.status = "paused" /\ Commit(SyncCurrent(Unpaused(game), shuffle))
    <2>1. Step(game, Unpaused(game), HostHere, 0) /\ Drawn(Unpaused(game), shuffle)
      BY <1>1, <1>4, UnpausedStep
    <2>2. Step(game, SyncCurrent(Unpaused(game), shuffle), HostHere, 1)
      BY <1>1, <2>1, ThenSync
    <2>. QED
      BY <1>2, <1>4, <2>2, CommitKeepsUsers
  <1>. QED
    BY <1>3, <1>4 DEF PauseRound, game

LEMMA RefusedKeeps ==
  ASSUME Inv, NEW i \in DOMAIN rounds, NEW shuffle \in Shuffles, Refused(i, shuffle),
         postgres' = postgres
  PROVE  Inv' /\ Forward(game, game', 1)
  BY RoundOfRoom, SyncKeeps, CommitKeepsUsers DEF Refused

\* The round a submission is answered with is one of the game's.
LEMMA AnsweredRound ==
  ASSUME Inv, NEW g, Step(game, g, HostHere, 1), NEW i \in DOMAIN rounds
  PROVE  Answered(g, i) \in 1..Len(g.rounds)
  <1>1. i \in 1..Len(game.rounds) /\ game.rounds = rounds
    BY RoundOfRoom DEF game
  <1>2. Core(game) /\ Core(g) /\ Len(game.rounds) <= Len(g.rounds)
    BY DEF Inv, Sound, Step, Reaches, Forward
  <1>3. Len(game.rounds) \in Nat /\ Len(g.rounds) \in Nat
    BY <1>2, RowAt DEF Core
  <1>. QED
    BY <1>1, <1>2, <1>3 DEF Answered, Current

LEMMA SubmitTruthSetKeeps ==
  ASSUME Inv, NEW p \in Players, NEW i \in DOMAIN rounds, NEW truth \in Statements,
         NEW shuffle \in Shuffles, SubmitTruthSet(p, i, truth, shuffle), postgres' = postgres
  PROVE  Inv' /\ Forward(game, game', 1)
  <1> DEFINE g == SyncRound(game, i, shuffle)
             j == Answered(g, i)
             mine == {s \in SetsOf(g, j) : g.sets[s].author = p}
             row == [round |-> j, author |-> p, truth |-> truth, order |-> 0, scored |-> FALSE]
             added == [g EXCEPT !.sets = Append(@, row)]
             again(s) == [row EXCEPT !.order = g.sets[s].order]
             rewritten(s) == [g EXCEPT !.sets[s] = again(s)]
  <1>1. Step(game, g, HostHere, 1) /\ Core(game)
    BY RoundOfRoom, SyncKeeps
  <1>2. /\ Playable(g, j, "writing")
        /\ \/ mine = {} /\ Commit(added)
           \/ Commit(g)
           \/ \E s \in mine : Commit(rewritten(s))
    BY DEF SubmitTruthSet
  <1>3. j \in 1..Len(g.rounds)
    BY <1>1, AnsweredRound
  <1> HIDE DEF g, j
  <1>4. Core(g) /\ StatusSound(g, HostHere) /\ g.rounds[j].status = "writing"
    BY <1>1, <1>2 DEF Step, Reaches, Playable
  <1>5. row \in TruthSets /\ row.round = j /\ row.author = p /\ row.order = 0 /\ ~row.scored
    <2>1. j \in Nat \ {0}
      BY <1>3, <1>4, RowAt DEF Core
    <2>. QED
      BY <2>1 DEF TruthSets
  <1> HIDE DEF row
  <1>6. ASSUME NEW h, Reaches(g, h, 0), h.room = g.room, h.rounds = g.rounds, Commit(h)
        PROVE  Inv' /\ Forward(game, game', 1)
    <2>1. StatusSound(h, HostHere)
      BY <1>4, <1>6 DEF StatusSound
    <2>2. Step(g, h, HostHere, 0)
      BY <1>6, <2>1 DEF Step
    <2>3. Step(game, h, HostHere, 1 + 0)
      BY <1>1, <2>2, HostHereBoolean, StepTransitive
    <2>. QED
      BY <1>6, <2>3, RoundOfRoom, CommitKeepsUsers DEF SubmitTruthSet
  <1>7. CASE mine = {} /\ Commit(added)
    <2>1. \A s \in SetsOf(g, j) : g.sets[s].author # row.author
      BY <1>5, <1>7
    <2>2. Reaches(g, added, 0) /\ added.room = g.room /\ added.rounds = g.rounds
      BY <1>3, <1>4, <1>5, <2>1, AddedSetMoves
    <2> HIDE DEF added
    <2>. QED
      BY <1>6, <1>7, <2>2
  <1>8. CASE Commit(g)
    <2>1. Reaches(g, g, 0)
      BY <1>4, MovesRefl
    <2>. QED
      BY <1>6, <1>8, <2>1
  <1>9. ASSUME NEW s \in mine, Commit(rewritten(s))
        PROVE  Inv' /\ Forward(game, game', 1)
    <2> DEFINE order == g.sets[s].order
               new == again(s)
    <2>1. order \in Nat
      <3>1. s \in 1..Len(g.sets)
        BY <1>4, SetsOfRound DEF Core
      <3>. QED
        BY <1>4, <3>1, RowAt DEF Core, TruthSets
    <2> HIDE DEF order
    <2>2. /\ new \in TruthSets /\ new.round = j /\ new.author = p
          /\ new.order = order /\ ~new.scored
      BY <1>5, <2>1 DEF TruthSets, order
    <2> HIDE DEF new
    <2>3. /\ new.author = g.sets[s].author /\ new.order = g.sets[s].order
          /\ rewritten(s) = WithSet(g, s, new)
      BY <2>2 DEF order, new, WithSet
    <2>4. LET h == WithSet(g, s, new)
          IN  Reaches(g, h, 0) /\ h.room = g.room /\ h.rounds = g.rounds
      <3>1. s \in SetsOf(g, j) /\ g.sets[s].author = p
        OBVIOUS
      <3> HIDE DEF mine, added, again, rewritten
      <3>. QED
        BY <1>3, <1>4, <2>2, <2>3, <3>1, RewrittenSetMoves
    <2>. QED
      BY <1>6, <1>9, <2>3, <2>4
  <1>. QED
    BY <1>2, <1>7, <1>8, <1>9

LEMMA SubmitVoteKeeps ==
  ASSUME Inv, NEW p \in Players, NEW i \in DOMAIN rounds, NEW choice \in Statements,
         NEW shuffle \in Shuffles, SubmitVote(p, i, choice, shuffle), postgres' = postgres
  PROVE  Inv' /\ Forward(game, game', 1)
  <1> DEFINE g == SyncRound(game, i, shuffle)
             s == g.rounds[i].active
             others == {v \in votes : ~(v.set = s /\ v.voter = p)}
             vote == [set |-> s, voter |-> p, choice |-> choice]
  <1>1. Step(game, g, HostHere, 1) /\ room.status # "none" /\ i \in 1..Len(game.rounds)
    BY RoundOfRoom, SyncKeeps
  <1>2. /\ Voting(g, i) /\ votes' = others \cup {vote} /\ Commit(g)
        /\ now' = now /\ user' = user
    BY DEF SubmitVote
  <1> HIDE DEF g
  <1>3. Core(g) /\ i \in 1..Len(g.rounds) /\ g.rounds[i].status = "presentation_voting"
    <2>1. Core(g) /\ Core(game) /\ Len(game.rounds) <= Len(g.rounds)
      BY <1>1 DEF Step, Reaches, Forward, Inv, Sound
    <2>2. Len(game.rounds) \in Nat /\ Len(g.rounds) \in Nat
      BY <2>1, RowAt DEF Core
    <2>. QED
      BY <1>1, <1>2, <2>1, <2>2 DEF Voting, Playable
  <1>4. s \in 1..Len(g.sets) /\ Len(g.sets) \in Nat
    BY <1>3, ActiveSet, RowAt DEF Presenting, Core
  <1> HIDE DEF s
  <1>5. /\ votes \subseteq Votes /\ IsFiniteSet(votes)
        /\ \A v \in votes : v.set \in 1..Len(g.sets)
    BY <1>1, <1>3, VotesKept DEF Inv, RowsTyped, Step, Reaches, Core
  <1>6. vote \in Votes /\ vote.set = s
    BY <1>4 DEF Votes
  <1> HIDE DEF vote
  <1>7. votes' \subseteq Votes /\ \A v \in votes' : v.set \in 1..Len(g.sets)
    BY <1>2, <1>4, <1>5, <1>6
  <1>8. IsFiniteSet(votes')
    <2>1. IsFiniteSet(others)
      BY <1>5, FS_Subset
    <2>. QED
      BY <1>2, <2>1, FS_AddElement
  <1>9. HostHere' = HostHere
    BY <1>1, <1>2 DEF HostHere, Commit, Step, game
  <1>10. user'[room.hostID] # "absent" /\ user' \in [Players -> {"absent", "member", "gone"}]
    BY <1>1, <1>2 DEF Inv, HostKnown, RowsTyped
  <1>. QED
    BY <1>1, <1>2, <1>7, <1>8, <1>9, <1>10, CommitKeeps

-----------------------------------------------------------------------------
(* The theorems.                                                           *)

LEMMA InitInv == Init => Inv
  <1> SUFFICES ASSUME Init PROVE Inv
    OBVIOUS
  <1>1. IsFiniteSet(votes)
    BY FS_EmptySet DEF Init
  <1>2. RowsTyped /\ HostKnown
    BY <1>1 DEF Init, RowsTyped, HostKnown
  <1>3. /\ game \in Games /\ Len(game.rounds) = 0 /\ Len(game.sets) = 0
        /\ game.room.status = "none"
    BY DEF Init, game, Games, Rooms, RoomStatus
  <1>4. Core(game)
    BY <1>3 DEF Core, SetsSound
  <1>5. StatusSound(game, HostHere)
    BY <1>3 DEF StatusSound
  <1>. QED
    BY <1>2, <1>4, <1>5 DEF Inv, Sound

LEMMA NextKeeps ==
  ASSUME Inv, Next
  PROVE  Inv' /\ Forward(game, game', 1)
  <1>1. postgres' = postgres
    BY DEF Next
  <1>2. CASE Tick
    BY <1>1, <1>2, TickKeeps
  <1>3. ASSUME NEW p \in Players, CreateRoom(p)
        PROVE  Inv' /\ Forward(game, game', 1)
    BY <1>1, <1>3, CreateRoomKeeps
  <1>4. ASSUME NEW p \in Players, JoinRoom(p)
        PROVE  Inv' /\ Forward(game, game', 1)
    BY <1>1, <1>4, JoinRoomKeeps
  <1>5. ASSUME NEW p \in Players, NEW shuffle \in Shuffles, LeaveRoom(p, shuffle)
        PROVE  Inv' /\ Forward(game, game', 1)
    BY <1>1, <1>5, LeaveRoomKeeps
  <1>6. ASSUME NEW p \in Players, NEW shuffle \in Shuffles, StartGame(p, shuffle)
        PROVE  Inv' /\ Forward(game, game', 1)
    BY <1>1, <1>6, StartGameKeeps
  <1>7. ASSUME NEW p \in Players, NEW shuffle \in Shuffles, PauseRound(p, shuffle)
        PROVE  Inv' /\ Forward(game, game', 1)
    BY <1>1, <1>7, PauseRoundKeeps
  <1>8. ASSUME NEW shuffle \in Shuffles, GetRoomState(shuffle)
        PROVE  Inv' /\ Forward(game, game', 1)
    BY <1>1, <1>8, GetRoomStateKeeps
  <1>9. ASSUME NEW shuffle \in Shuffles, NEW i \in DOMAIN rounds, Refused(i, shuffle)
        PROVE  Inv' /\ Forward(game, game', 1)
    BY <1>1, <1>9, RefusedKeeps
  <1>10. ASSUME NEW shuffle \in Shuffles, NEW i \in DOMAIN rounds, NEW p \in Players,
                NEW x \in Statements, SubmitTruthSet(p, i, x, shuffle)
         PROVE  Inv' /\ Forward(game, game', 1)
    BY <1>1, <1>10, SubmitTruthSetKeeps
  <1>11. ASSUME NEW shuffle \in Shuffles, NEW i \in DOMAIN rounds, NEW p \in Players,
                NEW x \in Statements, SubmitVote(p, i, x, shuffle)
         PROVE  Inv' /\ Forward(game, game', 1)
    BY <1>1, <1>11, SubmitVoteKeeps
  <1>12. CASE RoomRequest
    BY <1>3, <1>4, <1>5, <1>6, <1>7, <1>12 DEF RoomRequest
  <1>13. ASSUME NEW shuffle \in Shuffles, RoundRequest(shuffle)
         PROVE  Inv' /\ Forward(game, game', 1)
    BY <1>9, <1>10, <1>11, <1>13 DEF RoundRequest
  <1>. QED
    BY <1>2, <1>8, <1>12, <1>13 DEF Next

LEMMA StutterKeeps ==
  ASSUME Inv, UNCHANGED vars
  PROVE  Inv' /\ Forward(game, game', 1)
  <1>1. /\ game' = game /\ now' = now /\ HostHere' = HostHere
        /\ RowsTyped' /\ HostKnown'
    BY DEF vars, Inv, RowsTyped, HostKnown, HostHere, game
  <1>2. Core(game) /\ StatusSound(game, HostHere)
    BY DEF Inv, Sound
  <1>3. Core(game)'
    BY <1>1, <1>2 DEF Core, RoundSound
  <1>4. StatusSound(game, HostHere)' /\ Forward(game, game', 1)
    BY <1>1, <1>2, MovesRefl DEF Reaches
  <1>. QED
    BY <1>1, <1>3, <1>4 DEF Inv, Sound

\* The invariant of every behaviour, for any players, rounds, statements and
\* durations, on a database or without.
THEOREM Invariance == Spec => []Inv
  <1>1. Inv /\ [Next]_vars => Inv'
    BY NextKeeps, StutterKeeps
  <1>. QED
    BY <1>1, InitInv, PTL DEF Spec

\* What the invariant says of the variables.
LEMMA InvParts ==
  ASSUME Inv
  PROVE  TypeOK /\ RoundsInOrder /\ PresentedInOrder /\ ActiveClockRuns
  <1>1. /\ Core(game) /\ StatusSound(game, HostHere) /\ RowsTyped /\ game \in Games
        /\ game.room = room /\ game.rounds = rounds /\ game.sets = sets /\ game.score = score
    BY DEF Inv, Sound, Core, game
  <1>2. /\ room \in Rooms /\ score \in [Players -> Nat]
        /\ rounds \in Seq(Rounds) /\ DOMAIN rounds = 1..Len(rounds) /\ Len(rounds) \in Nat
        /\ sets \in Seq(TruthSets) /\ DOMAIN sets = 1..Len(sets) /\ Len(sets) \in Nat
        /\ \A i \in 1..Len(rounds) : rounds[i].status \in RoundStatus
    BY <1>1, RowAt DEF Games
  <1>3. ASSUME NEW i \in 1..Len(rounds)
        PROVE  rounds[i].active \in 0..Len(sets)
    <2>1. CASE rounds[i].status \in {"countdown", "writing"}
      <3>1. rounds[i].active = 0
        BY <1>1, <2>1 DEF Core, Presented
      <3>. QED
        BY <1>2, <3>1
    <2>2. CASE rounds[i].status \notin {"countdown", "writing"}
      <3>1. rounds[i].status \in Presenting \cup {"finished"}
        BY <1>2, <2>2 DEF RoundStatus
      <3>2. rounds[i].active \in 1..Len(sets)
        BY <1>1, <3>1, ActiveSet
      <3>. QED
        BY <1>2, <3>2
    <2>. QED
      BY <2>1, <2>2
  <1>4. TypeOK
    <2>1. \A s \in 1..Len(sets) : sets[s].round \in 1..Len(rounds)
      BY <1>1 DEF Core, SetsSound
    <2>. QED
      BY <1>1, <1>2, <1>3, <2>1 DEF TypeOK, RowsTyped
  <1>5. RoundsInOrder
    <2>1. \A i \in 1..Len(rounds) : RoundSound(game, i)
      BY <1>1 DEF Core
    <2>2. ASSUME NEW i \in 1..Len(rounds)
          PROVE  /\ rounds[i].number = i /\ i <= MaxRounds
                 /\ i < Len(rounds) => rounds[i].status = "finished"
      BY <1>1, <2>1 DEF RoundSound
    <2>3. room.status \in {"active", "paused"} =>
            rounds # <<>> /\ rounds[Len(rounds)].status # "finished"
      BY <1>1, <1>2 DEF StatusSound
    <2>4. room.status = "finished" /\ user[room.hostID] = "member" =>
            Len(rounds) = MaxRounds /\ rounds[MaxRounds].status = "finished"
      BY <1>1 DEF StatusSound, HostHere
    <2>. QED
      BY <1>2, <2>2, <2>3, <2>4 DEF RoundsInOrder
  <1>6. PresentedInOrder
    <2>1. \A i \in 1..Len(rounds) : Presented(game, i)
      BY <1>1 DEF Core
    <2>. QED
      BY <1>1, <1>2, <2>1 DEF PresentedInOrder, Presented
  <1>7. ActiveClockRuns
    BY <1>1 DEF ActiveClockRuns, StatusSound
  <1>. QED
    BY <1>4, <1>5, <1>6, <1>7

\* The rows keep their types, and every truth set, vote and active truth set
\* refers to a row there is.
THEOREM TypeCorrect == Spec => []TypeOK
  BY Invariance, InvParts, PTL

\* Rounds come one after the other, and the status of the room agrees with them.
THEOREM RoundsStayInOrder == Spec => []RoundsInOrder
  BY Invariance, InvParts, PTL

\* Truth sets are presented and scored in the order that was drawn, each once.
THEOREM PresentationsStayInOrder == Spec => []PresentedInOrder
  BY Invariance, InvParts, PTL

\* No pause, and no request that synchronises a paused room, leaves an active
\* room whose clock is stopped.
THEOREM ActiveClockAlwaysRuns == Spec => []ActiveClockRuns
  BY Invariance, InvParts, PTL

\* No request, however late, moves a round on by more than one phase, or back.
THEOREM PhasesOneAtATime == Spec => OnePhaseAtATime
  <1>1. Inv /\ [Next]_vars => \A i \in DOMAIN rounds : Stage(i)' - Stage(i) \in {0, 1}
    <2> SUFFICES ASSUME Inv, [Next]_vars, NEW i \in DOMAIN rounds
                 PROVE  Stage(i)' - Stage(i) \in {0, 1}
      OBVIOUS
    <2>1. Forward(game, game', 1) /\ Core(game)
      BY NextKeeps, StutterKeeps DEF Inv, Sound
    <2>2. i \in 1..Len(game.rounds)
      BY RoundOfRoom
    <2>3. StageOf(game', i) - StageOf(game, i) \in 0..1
      BY <2>1, <2>2 DEF Forward
    <2>4. Stage(i) = StageOf(game, i) /\ Stage(i)' = StageOf(game', i)
      BY DEF Stage, StageOf, game
    <2>. QED
      BY <2>3, <2>4
  <1>2. Inv /\ [Next]_vars => [\A i \in DOMAIN rounds : Stage(i)' - Stage(i) \in {0, 1}]_vars
    BY <1>1
  <1>. QED
    BY <1>2, Invariance, PTL DEF Spec, OnePhaseAtATime

-----------------------------------------------------------------------------
(* ThreeLiesRoom implements RoomLife; a writing phase that ends without a  *)
(* truth set is the end of it; the scores are what the votes give, and the *)
(* ranking is by points.                                                   *)
(*                                                                         *)
(* Unlike in a classic room, a synchronisation moves the life of the room: *)
(* after the last commentary of a round it opens the next round, or ends   *)
(* the game.  Any member may send the request that does so; that the host  *)
(* is still there then has to be known beforehand (Hosted).                *)

Hosted == Life!NeedsItsHost

LifeStep == [Life!Next]_(Life!life)

\* From g to h the room may have expired, and its life has not moved otherwise.
Quiet(g, h) ==
  /\ h.room.hostID = g.room.hostID
  /\ h.room.expiresAt = g.room.expiresAt
  /\ Len(h.rounds) = Len(g.rounds)
  /\ \/ h.room.status = g.room.status
     \/ h.room.status = "expired" /\ now > g.room.expiresAt

\* From g to h the last commentary of a round is over: the next round is open,
\* or the game finished.
Turns(g, h) ==
  /\ h.room.hostID = g.room.hostID
  /\ g.room.status = "active" /\ g.rounds[Len(g.rounds)].status = "commentary"
  /\ \/ /\ Len(g.rounds) < MaxRounds
        /\ Len(h.rounds) = Len(g.rounds) + 1 /\ h.room.status = "active"
     \/ /\ Len(g.rounds) = MaxRounds
        /\ Len(h.rounds) = MaxRounds /\ h.room.status = "finished"

Synced(g, h) == Quiet(g, h) \/ Turns(g, h)

LEMMA QuietTransitive ==
  ASSUME NEW g, NEW h, NEW k, Quiet(g, h), Quiet(h, k)
  PROVE  Quiet(g, k)
  BY DEF Quiet

LEMMA QuietExpire ==
  ASSUME NEW g \in Games, now \in Nat
  PROVE  /\ Quiet(g, Expire(g)) /\ Expire(g) \in Games
         /\ Expire(g).rounds = g.rounds /\ Expire(g).sets = g.sets
         /\ Expire(g).room.status # "expired" => Expire(g) = g /\ now <= g.room.expiresAt
  <1>1. g.room.expiresAt \in Nat
    BY DEF Games, Rooms
  <1>2. CASE now > g.room.expiresAt
    <2>1. Expire(g) = [g EXCEPT !.room.status = "expired"]
      BY <1>2 DEF Expire, WithStatus
    <2>2. Expire(g) \in Games /\ Expire(g).rounds = g.rounds /\ Expire(g).sets = g.sets
          /\ Expire(g).room = [g.room EXCEPT !.status = "expired"]
      BY <2>1 DEF Games, Rooms, RoomStatus
    <2>3. Expire(g).room.status = "expired" /\ Expire(g).room.hostID = g.room.hostID
          /\ Expire(g).room.expiresAt = g.room.expiresAt
      BY <2>2 DEF Games, Rooms
    <2>. QED
      BY <1>2, <2>2, <2>3 DEF Quiet
  <1>3. CASE ~(now > g.room.expiresAt)
    BY <1>1, <1>3 DEF Quiet, Expire
  <1>. QED
    BY <1>2, <1>3

\* Rewriting a row of a round is quiet.
LEMMA QuietRow ==
  ASSUME NEW g \in Games, NEW i, NEW row
  PROVE  Quiet(g, WithRound(g, i, row))
  <1>1. WithRound(g, i, row).room = g.room
        /\ WithRound(g, i, row).rounds = [g.rounds EXCEPT ![i] = row]
    BY DEF WithRound, Games
  <1>2. Len([g.rounds EXCEPT ![i] = row]) = Len(g.rounds)
    <2>1. g.rounds \in Seq(Rounds)
      BY DEF Games
    <2>. QED
      BY <2>1
  <1>. QED
    BY <1>1, <1>2 DEF Quiet

\* What happens after a commentary.
LEMMA CommentarySynced ==
  ASSUME NEW g, Core(g), now \in Nat, NEW i \in 1..Len(g.rounds),
         g.rounds[i].status = "commentary", g.room.status = "active"
  PROVE  Synced(g, AfterCommentary(g, i))
  <1> DEFINE r == g.rounds[i]
             f == WithRound(g, i, Finished(r))
  <1>1. g \in Games /\ i \in Nat \ {0} /\ MaxRounds \in Nat
    BY TLLimitsAssumption, RowAt DEF Core
  <1>2. CASE NextSets(g, i) # {}
    <2> DEFINE s == CHOOSE t \in NextSets(g, i) : TRUE
    <2>1. AfterCommentary(g, i) = Present(g, i, s)
      BY <1>2 DEF AfterCommentary
    <2> HIDE DEF s
    <2>. QED
      BY <1>1, <2>1, QuietRow DEF Present, Synced
  <1>3. CASE NextSets(g, i) = {}
    <2>1. /\ Reaches(g, f, 1) /\ f.room = g.room
          /\ Len(f.rounds) = i /\ Len(g.rounds) = i
          /\ f.rounds[i].status = "finished" /\ r.number = i /\ i <= MaxRounds
      BY <1>3, FinishedMoves
    <2>2. Core(f)
      BY <2>1 DEF Reaches
    <2> HIDE DEF f
    <2>3. CASE IsLastRound(r)
      <3> DEFINE k == WithStatus(f, "finished")
      <3>1. AfterCommentary(g, i) = k
        BY <1>3, <2>3 DEF AfterCommentary, f
      <3>2. k.rounds = f.rounds /\ k.room.hostID = f.room.hostID /\ k.room.status = "finished"
        BY <2>2, StatusMoves DEF RoomStatus
      <3>3. i = MaxRounds
        BY <1>1, <2>1, <2>3 DEF IsLastRound
      <3> HIDE DEF k
      <3>. QED
        BY <2>1, <3>1, <3>2, <3>3 DEF Synced, Turns
    <2>4. CASE ~IsLastRound(r)
      <3> DEFINE number == i + 1
                 k == AppendRound(f, number, "writing", WriteTime)
      <3>1. AfterCommentary(g, i) = k
        BY <1>3, <2>1, <2>4 DEF AfterCommentary, AppendRound, f
      <3>2. number \in Nat \ {0} /\ number <= MaxRounds /\ i < MaxRounds
        BY <1>1, <2>1, <2>4 DEF IsLastRound
      <3>3. k.room = f.room /\ Len(k.rounds) = number
        <4>1. /\ number = Len(f.rounds) + 1 /\ f.rounds[Len(f.rounds)].status = "finished"
              /\ "writing" \in {"countdown", "writing"} /\ WriteTime \in {CountdownTime, WriteTime}
          BY <2>1
        <4> HIDE DEF number
        <4>. QED
          BY <2>2, <3>2, <4>1, AppendMoves
      <3> HIDE DEF k
      <3>. QED
        BY <2>1, <3>1, <3>2, <3>3 DEF Synced, Turns
    <2>. QED
      BY <2>3, <2>4
  <1>. QED
    BY <1>2, <1>3

\* The truth sets get their order, or the scores are counted; neither is part
\* of the life of the room.
LEMMA WritingQuiet ==
  ASSUME NEW g, Core(g), NEW i \in 1..Len(g.rounds), g.rounds[i].status = "writing",
         NEW shuffle, Drawn(g, shuffle)
  PROVE  Quiet(g, ToPresentation(g, i, shuffle))
  <1> DEFINE o == Ordered(g, i, shuffle)
  <1>1. CASE ~Presentable(g, i)
    BY <1>1 DEF ToPresentation, Quiet
  <1>2. CASE Presentable(g, i)
    <2>1. o \in Games /\ o.room = g.room /\ o.rounds = g.rounds
      BY <1>2, OrderedSets DEF Presentable
    <2>2. \E s : ToPresentation(g, i, shuffle) = Present(o, i, s)
      BY <1>2 DEF ToPresentation
    <2> HIDE DEF o
    <2>3. PICK s : ToPresentation(g, i, shuffle) = Present(o, i, s)
      BY <2>2
    <2>4. Quiet(o, Present(o, i, s))
      BY <2>1, QuietRow DEF Present
    <2>. QED
      BY <2>1, <2>3, <2>4 DEF Quiet
  <1>. QED
    BY <1>1, <1>2

LEMMA VotingQuiet ==
  ASSUME NEW g, Core(g), RowsTyped,
         NEW i \in 1..Len(g.rounds), g.rounds[i].status = "presentation_voting"
  PROVE  Quiet(g, ToReveal(g, i))
  <1> DEFINE a == g.rounds[i].active
             k == Scored(g, a)
  <1>1. g \in Games /\ a \in 1..Len(g.sets) /\ g.sets[a].scored \in BOOLEAN
    BY ActiveSet DEF Core, Presenting, TruthSets
  <1>2. k \in Games /\ k.room = g.room /\ k.rounds = g.rounds
    <2>1. CASE g.sets[a].scored
      BY <1>1, <2>1 DEF Scored
    <2>2. CASE ~g.sets[a].scored
      <3> HIDE DEF a
      <3>. QED
        BY <1>1, <2>2, ScoredSet
    <2>. QED
      BY <2>1, <2>2
  <1>3. ToReveal(g, i) = WithRound(k, i, Enter(g.rounds[i], "reveal", RevealTime))
    BY DEF ToReveal
  <1> HIDE DEF k
  <1>4. Quiet(k, ToReveal(g, i))
    BY <1>2, <1>3, QuietRow
  <1>. QED
    BY <1>2, <1>4 DEF Quiet

LEMMA AdvancedSynced ==
  ASSUME NEW g, Core(g), RowsTyped, NEW i \in 1..Len(g.rounds), g.room.status = "active",
         NEW shuffle, Drawn(g, shuffle)
  PROVE  Synced(g, Advanced(g, i, shuffle))
  <1> DEFINE r == g.rounds[i]
  <1>1. r.status \in RoundStatus /\ now \in Nat /\ g \in Games
    BY RowAt DEF Core, RowsTyped
  <1>2. CASE r.status = "countdown"
    <2>1. Advanced(g, i, shuffle) = WithRound(g, i, Enter(r, "writing", WriteTime))
      BY <1>2 DEF Advanced
    <2>. QED
      BY <1>1, <2>1, QuietRow DEF Synced
  <1>3. CASE r.status = "writing"
    <2>1. Advanced(g, i, shuffle) = ToPresentation(g, i, shuffle)
      BY <1>3 DEF Advanced
    <2>. QED
      BY <1>3, <2>1, WritingQuiet DEF Synced
  <1>4. CASE r.status = "presentation_voting"
    <2>1. Advanced(g, i, shuffle) = ToReveal(g, i)
      BY <1>4 DEF Advanced
    <2>. QED
      BY <1>4, <2>1, VotingQuiet DEF Synced
  <1>5. CASE r.status = "reveal"
    <2>1. Advanced(g, i, shuffle) = WithRound(g, i, Enter(r, "commentary", CommentTime))
      BY <1>5 DEF Advanced
    <2>. QED
      BY <1>1, <2>1, QuietRow DEF Synced
  <1>6. CASE r.status = "commentary"
    <2>1. Advanced(g, i, shuffle) = AfterCommentary(g, i)
      BY <1>6 DEF Advanced
    <2>. QED
      BY <1>1, <1>6, <2>1, CommentarySynced
  <1>7. CASE r.status = "finished"
    <2>1. Advanced(g, i, shuffle) = g
      BY <1>7 DEF Advanced
    <2>. QED
      BY <2>1 DEF Synced, Quiet
  <1>. QED
    BY <1>1, <1>2, <1>3, <1>4, <1>5, <1>6, <1>7 DEF RoundStatus, Presenting

LEMMA SyncRoundSynced ==
  ASSUME NEW g, Core(g), RowsTyped, NEW i \in 1..Len(g.rounds),
         NEW shuffle, Drawn(g, shuffle)
  PROVE  Synced(g, SyncRound(g, i, shuffle))
  <1> DEFINE e == Expire(g)
  <1>1. /\ Quiet(g, e) /\ g \in Games
        /\ e.room.status # "expired" => e = g
    BY QuietExpire DEF Core, RowsTyped
  <1>2. SyncRound(g, i, shuffle) = IF Due(e, i) THEN Advanced(e, i, shuffle) ELSE e
    BY DEF SyncRound
  <1> HIDE DEF e
  <1>3. CASE Due(e, i)
    <2>1. e.room.status = "active" /\ e = g
      BY <1>1, <1>3 DEF Due
    <2>. QED
      BY <1>2, <1>3, <2>1, AdvancedSynced
  <1>4. CASE ~Due(e, i)
    BY <1>1, <1>2, <1>4 DEF Synced
  <1>. QED
    BY <1>3, <1>4

LEMMA SyncCurrentSynced ==
  ASSUME NEW g, Core(g), RowsTyped, NEW shuffle, Drawn(g, shuffle)
  PROVE  Synced(g, SyncCurrent(g, shuffle))
  <1>1. CASE g.rounds = <<>>
    BY <1>1 DEF SyncCurrent, Synced, Quiet
  <1>2. CASE g.rounds # <<>>
    <2>1. Current(g) \in 1..Len(g.rounds)
      BY <1>2, RowAt DEF Core, Games, Current
    <2>. QED
      BY <1>2, <2>1, SyncRoundSynced DEF SyncCurrent
  <1>. QED
    BY <1>1, <1>2

-----------------------------------------------------------------------------
(* Requests that only synchronise.                                         *)

LEMMA HostStays ==
  ASSUME room'.hostID = room.hostID, user' = user
  PROVE  (room.hostID \in Members)' = (room.hostID \in Members)
  BY DEF Members

\* What the invariant says of the game a request finds.
LEMMA GameFound ==
  ASSUME Inv
  PROVE  /\ game \in Games /\ Core(game) /\ RowsTyped /\ now \in Nat /\ Sound(game, HostHere)
         /\ game.room = room /\ game.rounds = rounds /\ game.sets = sets
         /\ Len(rounds) \in 0..MaxRounds
         /\ room.status \in {"none", "waiting"} => Len(rounds) = 0
         /\ room.status \in {"active", "paused"} => Len(rounds) # 0
  <1>1. /\ game \in Games /\ Core(game) /\ RowsTyped /\ now \in Nat /\ Sound(game, HostHere)
        /\ game.room = room /\ game.rounds = rounds /\ game.sets = sets
    BY DEF Inv, Sound, Core, RowsTyped, game
  <1>2. Len(rounds) \in Nat /\ MaxRounds \in Nat
    BY <1>1, RowAt, TLLimitsAssumption
  <1>3. Len(rounds) # 0 => Len(rounds) <= MaxRounds
    <2>1. ASSUME Len(rounds) # 0
          PROVE  Len(rounds) \in 1..Len(rounds)
      BY <1>2, <2>1
    <2>. QED
      BY <1>1, <2>1 DEF Core, RoundSound
  <1>4. /\ room.status \in {"none", "waiting"} => Len(rounds) = 0
        /\ room.status \in {"active", "paused"} => Len(rounds) # 0
    BY <1>1 DEF Sound, StatusSound
  <1>. QED
    BY <1>1, <1>2, <1>3, <1>4

\* A request that synchronises a round, and does not concern the host, is a
\* step of the life of the room or none.
LEMMA SyncedRequest ==
  ASSUME Inv, Hosted, room.status # "none", NEW h, Synced(game, h),
         room' = h.room, rounds' = h.rounds,
         (room.hostID \in Members)' = (room.hostID \in Members)
  PROVE  LifeStep
  <1>1. game.room = room /\ game.rounds = rounds
    BY DEF game
  <1>2. CASE Quiet(game, h)
    <2>1. Len(rounds') = Len(rounds) /\ (room'.status = room.status \/ room'.status = "expired")
      BY <1>1, <1>2 DEF Quiet
    <2>2. CASE room'.status = room.status
      BY <2>1, <2>2 DEF LifeStep, Life!life
    <2>3. CASE room'.status = "expired"
      BY <2>1, <2>3 DEF LifeStep, Life!Next, Life!Expire
    <2>. QED
      BY <2>1, <2>2, <2>3
  <1>3. CASE Turns(game, h)
    <2>1. room.hostID \in Members /\ room.status = "active"
      BY <1>1, <1>3 DEF Turns, Hosted, Life!NeedsItsHost
    <2>2. \/ Len(rounds) < MaxRounds /\ Len(rounds') = Len(rounds) + 1 /\ room'.status = "active"
          \/ Len(rounds) = MaxRounds /\ Len(rounds') = MaxRounds /\ room'.status = "finished"
      BY <1>1, <1>3 DEF Turns
    <2>3. Life!OpenNext \/ Life!Finish
      BY <2>1, <2>2 DEF Life!OpenNext, Life!Finish
    <2>. QED
      BY <2>3 DEF LifeStep, Life!Next
  <1>. QED
    BY <1>2, <1>3 DEF Synced

LEMMA SyncedUsers ==
  ASSUME Inv, Hosted, room.status # "none", NEW h, Synced(game, h),
         room' = h.room, rounds' = h.rounds, user' = user
  PROVE  LifeStep
  <1>1. room'.hostID = room.hostID
    BY DEF Synced, Quiet, Turns, game
  <1>. QED
    BY <1>1, HostStays, SyncedRequest

LEMMA GetRoomStateLives ==
  ASSUME Inv, Hosted, NEW shuffle \in Shuffles, GetRoomState(shuffle)
  PROVE  LifeStep
  <1> DEFINE e == Expire(game)
             h == SyncCurrent(e, shuffle)
  <1>1. /\ Quiet(game, e)
        /\ e.room.status # "expired" => e = game
    BY GameFound, QuietExpire
  <1>2. Core(e) /\ RowsTyped /\ Drawn(e, shuffle)
    BY SyncKeeps DEF Step, Reaches
  <1>3. room' = h.room /\ rounds' = h.rounds /\ user' = user /\ room.status # "none"
    BY DEF GetRoomState, Commit
  <1> HIDE DEF e
  <1>4. Synced(e, h)
    BY <1>2, SyncCurrentSynced
  <1> HIDE DEF h
  <1>5. Synced(game, h)
    <2>1. CASE e = game
      BY <1>4, <2>1
    <2>2. CASE e # game
      <3>1. e.room.status = "expired"
        BY <1>1, <2>2
      <3>2. Quiet(e, h)
        BY <1>4, <3>1 DEF Synced, Turns
      <3>. QED
        BY <1>1, <3>2, QuietTransitive DEF Synced
    <2>. QED
      BY <2>1, <2>2
  <1>. QED
    BY <1>3, <1>5, SyncedUsers

\* Submissions leave the room and the rounds as the synchronisation left them.
LEMMA SubmissionLives ==
  ASSUME Inv, Hosted, NEW i \in DOMAIN rounds, NEW shuffle \in Shuffles,
         NEW h, h.room = SyncRound(game, i, shuffle).room,
         h.rounds = SyncRound(game, i, shuffle).rounds, Commit(h), user' = user
  PROVE  LifeStep
  <1> DEFINE g == SyncRound(game, i, shuffle)
  <1>1. Core(game) /\ RowsTyped /\ Drawn(game, shuffle)
    BY SyncKeeps
  <1>2. Synced(game, g)
    BY <1>1, RoundOfRoom, SyncRoundSynced
  <1>3. h.room = g.room /\ h.rounds = g.rounds
    OBVIOUS
  <1> HIDE DEF g
  <1>4. room' = g.room /\ rounds' = g.rounds
    BY <1>3 DEF Commit
  <1>. QED
    BY <1>2, <1>4, RoundOfRoom, SyncedUsers

LEMMA RoundRequestLives ==
  ASSUME Inv, Hosted, NEW i \in DOMAIN rounds, NEW shuffle \in Shuffles,
         \/ Refused(i, shuffle)
         \/ \E p \in Players, x \in Statements :
              SubmitTruthSet(p, i, x, shuffle) \/ SubmitVote(p, i, x, shuffle)
  PROVE  LifeStep
  <1> DEFINE g == SyncRound(game, i, shuffle)
  <1>1. g \in Games
    BY RoundOfRoom, SyncKeeps DEF Step, Reaches, Core
  <1>2. user' = user
    BY DEF Refused, SubmitTruthSet, SubmitVote
  <1>3. Commit(g) \/ \E rows : Commit([g EXCEPT !.sets = rows])
    <2>1. CASE Commit(g)
      BY <2>1
    <2>2. ASSUME NEW p \in Players, NEW x \in Statements, SubmitTruthSet(p, i, x, shuffle)
          PROVE  Commit(g) \/ \E rows : Commit([g EXCEPT !.sets = rows])
      <3> DEFINE j == Answered(g, i)
                 row == [round |-> j, author |-> p, truth |-> x, order |-> 0, scored |-> FALSE]
                 again(s) == [row EXCEPT !.order = g.sets[s].order]
      <3>1. \/ Commit(g)
            \/ Commit([g EXCEPT !.sets = Append(@, row)])
            \/ \E s : Commit([g EXCEPT !.sets[s] = again(s)])
        BY <2>2 DEF SubmitTruthSet
      <3> HIDE DEF g, row
      <3>2. [g EXCEPT !.sets = Append(@, row)] = [g EXCEPT !.sets = Append(g.sets, row)]
        OBVIOUS
      <3>3. \A s : [g EXCEPT !.sets[s] = again(s)]
                     = [g EXCEPT !.sets = [g.sets EXCEPT ![s] = again(s)]]
        OBVIOUS
      <3> HIDE DEF again
      <3>. QED
        BY <3>1, <3>2, <3>3
    <2>. QED
      BY <2>1, <2>2 DEF Refused, SubmitVote
  <1> HIDE DEF g
  <1>4. ASSUME NEW rows
        PROVE  [g EXCEPT !.sets = rows].room = g.room /\ [g EXCEPT !.sets = rows].rounds = g.rounds
    BY <1>1 DEF Games
  <1>5. PICK h : Commit(h) /\ h.room = g.room /\ h.rounds = g.rounds
    BY <1>3, <1>4
  <1>. QED
    BY <1>2, <1>5, SubmissionLives DEF g

\* Whoever joins is not the host: the host has been in the room.
LEMMA JoinRoomLives ==
  ASSUME Inv, Hosted, NEW p \in Players, JoinRoom(p)
  PROVE  LifeStep
  <1> DEFINE g == Expire(game)
  <1>1. Quiet(game, g)
    BY GameFound, QuietExpire
  <1>2. room.status # "none" /\ room' = g.room /\ rounds' = g.rounds
    BY DEF JoinRoom, Commit
  <1> HIDE DEF g
  <1>3. room'.hostID = room.hostID
    BY <1>1, <1>2 DEF Quiet, game
  <1>4. (room.hostID \in Members)' = (room.hostID \in Members)
    <2>1. room.hostID # p /\ room.hostID \in Players
      BY <1>2 DEF JoinRoom, Inv, HostKnown
    <2>2. user'[room.hostID] = user[room.hostID]
      BY <2>1 DEF JoinRoom, Inv, RowsTyped
    <2>. QED
      BY <1>3, <2>1, <2>2 DEF Members
  <1>. QED
    BY <1>1, <1>2, <1>4, SyncedRequest DEF Synced

-----------------------------------------------------------------------------
(* Requests that change the status of the room.                            *)

LEMMA CreateRoomLives ==
  ASSUME Inv, NEW p \in Players, CreateRoom(p)
  PROVE  LifeStep
  <1>1. room.status = "none" /\ room'.status = "waiting" /\ rounds' = rounds
    BY DEF CreateRoom
  <1>2. room'.hostID \in Members'
    BY DEF CreateRoom, Members, Inv, RowsTyped
  <1>3. Life!Create
    BY <1>1, <1>2 DEF Life!Create
  <1>. QED
    BY <1>3 DEF LifeStep, Life!Next

\* The host who leaves closes the room, and so does whoever leaves last.
LEMMA LeaveRoomLives ==
  ASSUME Inv, Hosted, NEW p \in Players, NEW shuffle \in Shuffles, LeaveRoom(p, shuffle)
  PROVE  LifeStep
  <1> DEFINE closed == WithStatus(game, "finished")
  <1>1. Core(game) /\ RowsTyped /\ Drawn(game, shuffle)
    BY SyncKeeps
  <1>2. room.status # "none" /\ room.hostID \in Players /\ user[room.hostID] # "absent"
    BY MemberOfRoom DEF LeaveRoom, Inv, HostKnown
  <1>3. /\ user' = [user EXCEPT ![p] = "gone"] /\ user[p] = "member"
        /\ user \in [Players -> {"absent", "member", "gone"}]
    BY DEF LeaveRoom, Inv, RowsTyped
  <1>4. CASE Closes(p)
    <2>1. /\ Core(closed) /\ closed.room.status = "finished"
          /\ closed.room.hostID = room.hostID /\ closed.rounds = rounds /\ closed.sets = game.sets
      BY <1>1, GameFound, StatusMoves DEF RoomStatus, Reaches
    <2>2. Commit(SyncCurrent(closed, shuffle))
      BY <1>4 DEF LeaveRoom
    <2> HIDE DEF closed
    <2>3. Drawn(closed, shuffle)
      BY <1>1, <2>1, GameFound, DrawnKept
    <2>4. Quiet(closed, SyncCurrent(closed, shuffle))
      BY <1>1, <2>1, <2>3, SyncCurrentSynced DEF Synced, Turns
    <2>5. /\ room'.hostID = room.hostID /\ Len(rounds') = Len(rounds)
          /\ room'.status \in {"finished", "expired"}
      BY <2>1, <2>2, <2>4 DEF Quiet, Commit
    <2>6. room'.hostID \notin Members'
      BY <1>2, <1>3, <1>4, <2>5 DEF Closes, Members
    <2>7. Life!Close
      BY <1>2, <2>5, <2>6 DEF Life!Close, Life!Over
    <2>. QED
      BY <2>7 DEF LifeStep, Life!Next
  <1>5. CASE ~Closes(p)
    <2> DEFINE h == SyncCurrent(game, shuffle)
    <2>1. room' = h.room /\ rounds' = h.rounds
      BY <1>5 DEF LeaveRoom, Commit
    <2>2. Synced(game, h)
      BY <1>1, SyncCurrentSynced
    <2> HIDE DEF h
    <2>3. room'.hostID = room.hostID
      BY <2>1, <2>2 DEF Synced, Quiet, Turns, game
    <2>4. (room.hostID \in Members)' = (room.hostID \in Members)
      <3>1. user'[room.hostID] = user[room.hostID]
        BY <1>2, <1>3, <1>5 DEF Closes
      <3>. QED
        BY <1>2, <2>3, <3>1 DEF Members
    <2>. QED
      BY <1>2, <2>1, <2>2, <2>4, SyncedRequest
  <1>. QED
    BY <1>4, <1>5

LEMMA OpenedGame ==
  ASSUME NEW g \in Games, now \in Nat, Len(g.rounds) = 0
  PROVE  LET h == Opened(g)
         IN  /\ h.room.hostID = g.room.hostID /\ h.room.expiresAt = g.room.expiresAt
             /\ h.room.status = "active"
             /\ Len(h.rounds) = 1 /\ h.rounds[1].status = "countdown"
  <1> DEFINE row == NewRound(1, "countdown", CountdownTime)
             k == [g EXCEPT !.rounds = Append(@, row)]
  <1>1. row \in Rounds /\ row.status = "countdown"
    BY TLTimesAssumption DEF NewRound, Rounds, RoundStatus, NoTime
  <1> HIDE DEF row
  <1>2. g.rounds \in Seq(Rounds)
    BY DEF Games
  <1>3. k.room = g.room /\ k.rounds = Append(g.rounds, row) /\ k \in Games
    BY <1>1, <1>2, AppendRow DEF Games
  <1>4. Len(k.rounds) = 1 /\ k.rounds[1] = row
    BY <1>1, <1>2, <1>3, AppendRow
  <1>5. Opened(g) = WithStatus(k, "active")
    BY DEF Opened, row
  <1> HIDE DEF k
  <1>6. /\ WithStatus(k, "active").rounds = k.rounds
        /\ WithStatus(k, "active").room.hostID = k.room.hostID
        /\ WithStatus(k, "active").room.expiresAt = k.room.expiresAt
        /\ WithStatus(k, "active").room.status = "active"
    BY <1>3 DEF WithStatus, Games, Rooms
  <1>. QED
    BY <1>1, <1>3, <1>4, <1>5, <1>6

\* Pausing and resuming rewrite the row of the current round and the room's.
LEMMA ClockGame ==
  ASSUME NEW g \in Games, g.rounds # <<>>, NEW round \in Rounds, NEW status
  PROVE  LET h == WithStatus(OnCurrent(g, round), status)
         IN  /\ h.room.hostID = g.room.hostID /\ h.room.status = status
             /\ Len(h.rounds) = Len(g.rounds) /\ h.rounds[Len(g.rounds)] = round
             /\ h.sets = g.sets
  <1> DEFINE i == Len(g.rounds)
             k == WithRound(g, i, round)
  <1>1. g.rounds \in Seq(Rounds) /\ i \in 1..Len(g.rounds)
    BY DEF Games
  <1>2. /\ k \in Games /\ k.room = g.room /\ k.sets = g.sets
        /\ k.rounds[i] = round /\ Len(k.rounds) = Len(g.rounds)
    BY <1>1, RoundRow DEF Rewrites
  <1>3. OnCurrent(g, round) = k
    BY DEF OnCurrent, Current
  <1> HIDE DEF i, k
  <1>4. WithStatus(k, status).rounds = k.rounds /\ WithStatus(k, status).sets = k.sets
        /\ WithStatus(k, status).room.hostID = k.room.hostID
        /\ WithStatus(k, status).room.status = status
    BY <1>2 DEF WithStatus, Games, Rooms
  <1>. QED
    BY <1>2, <1>3, <1>4 DEF i

\* The trailing synchronisation of a request that has made h of the game.
LEMMA HostRequest ==
  ASSUME NEW p \in Players, user[p] = "member", p = room.hostID, user' = user,
         NEW h, h.room.hostID = room.hostID, NEW k, Synced(h, k), Commit(k)
  PROVE  /\ room.hostID \in Members /\ room'.hostID \in Members'
         /\ \/ /\ Len(rounds') = Len(h.rounds)
               /\ \/ room'.status = h.room.status
                  \/ room'.status = "expired" /\ now > h.room.expiresAt
            \/ /\ h.room.status = "active" /\ h.rounds[Len(h.rounds)].status = "commentary"
               /\ \/ /\ Len(h.rounds) < MaxRounds
                     /\ Len(rounds') = Len(h.rounds) + 1 /\ room'.status = "active"
                  \/ /\ Len(h.rounds) = MaxRounds
                     /\ Len(rounds') = MaxRounds /\ room'.status = "finished"
  <1>1. room' = k.room /\ rounds' = k.rounds
    BY DEF Commit
  <1>2. room'.hostID = room.hostID
    BY <1>1 DEF Synced, Quiet, Turns
  <1>. QED
    BY <1>1, <1>2 DEF Synced, Quiet, Turns, Members

\* A pause that ends when the last phase of the round is due ends with the
\* next round, or with the game.
LEMMA UnpausedLives ==
  ASSUME Inv, NEW p \in Players, user[p] = "member", p = room.hostID, user' = user,
         room.status = "paused", NEW shuffle \in Shuffles,
         Commit(SyncCurrent(Unpaused(game), shuffle))
  PROVE  LifeStep
  <1> DEFINE n == Len(rounds)
             row == Resumed(game.rounds[Current(game)])
             h == Unpaused(game)
             k == SyncCurrent(h, shuffle)
  <1>1. /\ game \in Games /\ Sound(game, HostHere) /\ RowsTyped /\ now \in Nat
        /\ game.room = room /\ game.rounds = rounds /\ n \in 1..MaxRounds
        /\ Drawn(game, shuffle)
    BY GameFound, SyncKeeps
  <1>2. row \in Rounds
    <2>1. Current(game) \in 1..Len(game.rounds)
      BY <1>1 DEF Current
    <2>2. game.rounds[Current(game)] \in Rounds /\ game.rounds[Current(game)].pausedAt <= now
      BY <1>1, <2>1, RowAt DEF Sound, Core, RoundSound
    <2>. QED
      BY <1>1, <2>2, ResumedRow
  <1>3. /\ h.room.hostID = room.hostID /\ h.room.status = "active" /\ Len(h.rounds) = n
    <2>1. h = WithStatus(OnCurrent(game, row), "active") /\ game.rounds # <<>>
      BY <1>1 DEF Unpaused
    <2> HIDE DEF h, row
    <2>. QED
      BY <1>1, <1>2, <2>1, ClockGame
  <1>4. Core(h) /\ Drawn(h, shuffle)
    BY <1>1, HostHereBoolean, UnpausedStep DEF Step, Reaches
  <1> HIDE DEF h
  <1>5. Synced(h, k) /\ Commit(k)
    BY <1>1, <1>4, SyncCurrentSynced DEF h
  <1> HIDE DEF k
  <1>6. /\ room.hostID \in Members /\ room'.hostID \in Members'
        /\ \/ Len(rounds') = n /\ room'.status \in {"active", "expired"}
           \/ n < MaxRounds /\ Len(rounds') = n + 1 /\ room'.status = "active"
           \/ n = MaxRounds /\ Len(rounds') = n /\ room'.status = "finished"
    BY <1>3, <1>5, HostRequest
  <1>7. n \in 1..MaxRounds /\ (n < MaxRounds => n + 1 \in 1..MaxRounds)
    BY <1>1, TLLimitsAssumption
  <1>8. Life!Resume \/ Life!Expire \/ Life!Finish
    BY <1>6, <1>7 DEF Life!Resume, Life!Expire, Life!Finish
  <1>. QED
    BY <1>8 DEF LifeStep, Life!Next

LEMMA StartGameLives ==
  ASSUME Inv, Hosted, NEW p \in Players, NEW shuffle \in Shuffles, StartGame(p, shuffle)
  PROVE  LifeStep
  <1> DEFINE g == Expire(game)
  <1>1. /\ user[p] = "member" /\ p = room.hostID /\ user' = user
        /\ room.status # "none"
    BY MemberOfRoom DEF StartGame
  <1>2. /\ Quiet(game, g) /\ now \in Nat /\ game \in Games
        /\ g.room.status # "expired" => g = game /\ now <= room.expiresAt
    BY GameFound, QuietExpire
  <1>3. \/ g.room.status = "waiting" /\ Commit(SyncCurrent(Opened(g), shuffle))
        \/ g.room.status = "paused" /\ Commit(SyncCurrent(Unpaused(g), shuffle))
        \/ Commit(g)
    BY DEF StartGame
  <1> HIDE DEF g
  <1>4. CASE g.room.status = "waiting" /\ Commit(SyncCurrent(Opened(g), shuffle))
    <2> DEFINE h == Opened(game)
               k == SyncCurrent(h, shuffle)
    <2>1. g = game /\ now <= room.expiresAt /\ room.status = "waiting" /\ Len(rounds) = 0
      BY <1>2, <1>4, GameFound
    <2>2. /\ h.room.hostID = room.hostID /\ h.room.expiresAt = room.expiresAt
          /\ h.room.status = "active" /\ Len(h.rounds) = 1 /\ h.rounds[1].status = "countdown"
      BY <1>2, <2>1, GameFound, OpenedGame
    <2>3. Core(h) /\ Drawn(h, shuffle) /\ RowsTyped
      BY <2>1, GameFound, HostHereBoolean, OpenedStep DEF Step, Reaches
    <2> HIDE DEF h
    <2>4. Synced(h, k) /\ Commit(k)
      BY <1>4, <2>1, <2>3, SyncCurrentSynced DEF h
    <2> HIDE DEF k
    <2>5. room.hostID \in Members /\ room'.hostID \in Members'
          /\ Len(rounds') = 1 /\ room'.status = "active"
      <3>1. room.expiresAt \in Nat
        BY <1>2, GameFound DEF Games, Rooms
      <3>. QED
        BY <1>1, <1>2, <2>1, <2>2, <2>4, <3>1, HostRequest
    <2>6. Life!Start
      BY <2>1, <2>5 DEF Life!Start
    <2>. QED
      BY <2>6 DEF LifeStep, Life!Next
  <1>5. CASE g.room.status = "paused" /\ Commit(SyncCurrent(Unpaused(g), shuffle))
    <2>1. g = game /\ room.status = "paused"
      BY <1>2, <1>5, GameFound
    <2>. QED
      BY <1>1, <1>5, <2>1, UnpausedLives
  <1>6. CASE Commit(g)
    BY <1>1, <1>2, <1>6, SyncedUsers DEF Commit, Synced
  <1>. QED
    BY <1>3, <1>4, <1>5, <1>6

LEMMA PauseRoundLives ==
  ASSUME Inv, NEW p \in Players, NEW shuffle \in Shuffles, PauseRound(p, shuffle)
  PROVE  LifeStep
  <1>1. user[p] = "member" /\ p = room.hostID /\ user' = user
    BY DEF PauseRound
  <1>2. CASE room.status = "active" /\ Commit(SyncCurrent(Paused(game), shuffle))
    <2> DEFINE row == [game.rounds[Current(game)] EXCEPT !.pausedAt = now]
               h == Paused(game)
               k == SyncCurrent(h, shuffle)
    <2>1. /\ game \in Games /\ Sound(game, HostHere) /\ RowsTyped /\ now \in Nat
          /\ game.room = room /\ game.rounds = rounds /\ Len(rounds) \in 1..MaxRounds
          /\ Drawn(game, shuffle)
      BY <1>2, GameFound, SyncKeeps
    <2>2. row \in Rounds
      <3>1. Current(game) \in 1..Len(game.rounds)
        BY <2>1 DEF Current
      <3>. QED
        BY <2>1, <3>1, RowAt DEF Rounds
    <2>3. h.room.hostID = room.hostID /\ h.room.status = "paused" /\ Len(h.rounds) = Len(rounds)
      <3>1. h = WithStatus(OnCurrent(game, row), "paused") /\ game.rounds # <<>>
        BY <2>1 DEF Paused
      <3> HIDE DEF h, row
      <3>. QED
        BY <2>1, <2>2, <3>1, ClockGame
    <2>4. Core(h) /\ Drawn(h, shuffle)
      BY <1>2, <2>1, HostHereBoolean, PausedStep DEF Step, Reaches
    <2> HIDE DEF h
    <2>5. Synced(h, k) /\ Commit(k)
      BY <1>2, <2>1, <2>4, SyncCurrentSynced DEF h
    <2> HIDE DEF k
    <2>6. /\ room.hostID \in Members /\ room'.hostID \in Members'
          /\ Len(rounds') = Len(rounds) /\ room'.status \in {"paused", "expired"}
      BY <1>1, <2>3, <2>5, HostRequest
    <2>7. Life!Pause \/ Life!Expire
      BY <1>2, <2>6 DEF Life!Pause, Life!Expire
    <2>. QED
      BY <2>7 DEF LifeStep, Life!Next
  <1>3. CASE room.status = "paused" /\ Commit(SyncCurrent(Unpaused(game), shuffle))
    BY <1>1, <1>3, UnpausedLives
  <1>. QED
    BY <1>2, <1>3 DEF PauseRound

-----------------------------------------------------------------------------
(* The refinement.                                                         *)

LEMMA NextLives ==
  ASSUME Inv, Hosted, [Next]_vars
  PROVE  LifeStep
  <1>1. CASE UNCHANGED vars \/ Tick
    <2>1. UNCHANGED <<room, user, rounds>>
      BY <1>1 DEF vars, Tick
    <2>. QED
      BY <2>1 DEF LifeStep, Life!life, Members
  <1>2. CASE RoomRequest
    BY <1>2, CreateRoomLives, JoinRoomLives, LeaveRoomLives, StartGameLives, PauseRoundLives
       DEF RoomRequest
  <1>3. ASSUME NEW shuffle \in Shuffles, GetRoomState(shuffle) \/ RoundRequest(shuffle)
        PROVE  LifeStep
    BY <1>3, GetRoomStateLives, RoundRequestLives DEF RoundRequest
  <1>. QED
    BY <1>1, <1>2, <1>3 DEF Next

LEMMA InitLives ==
  ASSUME Init
  PROVE  Life!Init /\ Hosted
  <1>1. room.hostID = NoPlayer /\ room.status = "none" /\ rounds = <<>>
    BY DEF Init
  <1>2. room.hostID \notin Members
    BY <1>1, TLPlayersAssumption DEF Members
  <1>. QED
    BY <1>1, <1>2 DEF Life!Init, Hosted, Life!NeedsItsHost

\* No step of its life leaves a room playing without its host.
LEMMA LifeKeepsHost ==
  ASSUME Hosted, LifeStep
  PROVE  Hosted'
  <1> DEFINE hosted == room.hostID \in Members
  <1>1. Life!Next \/ (room'.status = room.status /\ hosted' = hosted)
    BY DEF LifeStep, Life!life
  <1> SUFFICES ASSUME room'.status \in {"waiting", "active", "paused"}
               PROVE  room'.hostID \in Members'
    BY DEF Hosted, Life!NeedsItsHost
  <1>2. CASE Life!Next
    BY <1>2 DEF Hosted, Life!NeedsItsHost, Life!Next, Life!Create, Life!Start, Life!Pause,
                Life!Resume, Life!OpenNext, Life!Finish, Life!Close, Life!Expire, Life!Over
  <1>3. CASE room'.status = room.status /\ hosted' = hosted
    BY <1>3 DEF Hosted, Life!NeedsItsHost
  <1>. QED
    BY <1>1, <1>2, <1>3

\* A room of three lies lives the life of RoomLife, for any number of players
\* and rounds and any durations.
THEOREM ThreeLiesRoomLives == Spec => LivesItsLife
  <1>1. Inv /\ Hosted /\ [Next]_vars => LifeStep /\ Hosted'
    BY NextLives, LifeKeepsHost
  <1>. QED
    BY <1>1, InitLives, Invariance, PTL DEF Spec, LivesItsLife, Life!Spec, LifeStep

\* What RoomLife promises holds of a room of three lies: it waits, plays or pauses
\* only while its host is there, no round is opened beyond the last, and once it
\* is finished or expired it stays over.
THEOREM ThreeLiesRoomKeepsPromises ==
  Spec => []Life!NeedsItsHost /\ []Life!RoundsBounded /\ Life!OverForGood
  <1>1. Life!Spec => []Life!NeedsItsHost
    BY TLLimitsAssumption, Life!HostIsNeeded
  <1>2. Life!Spec => []Life!RoundsBounded
    BY TLLimitsAssumption, Life!RoundsStayBounded
  <1>3. Spec => Life!Spec
    BY ThreeLiesRoomLives DEF LivesItsLife
  <1>. QED
    BY <1>1, <1>2, <1>3, Life!OverStaysOver, PTL

-----------------------------------------------------------------------------
(* A writing phase that has ended without a truth set.                     *)

\* Stuck, of a game.
StuckGame(g) ==
  /\ Len(g.rounds) # 0 /\ SetsOf(g, Len(g.rounds)) = {}
  /\ LET r == g.rounds[Len(g.rounds)]
     IN  r.status = "writing" /\ r.phaseEndsAt <= IF r.pausedAt = NoTime THEN now ELSE r.pausedAt

LEMMA StuckIsStuckGame ==
  ASSUME rounds \in Seq(Rounds)
  PROVE  Stuck <=> StuckGame(game)
  <1>1. game.rounds = rounds /\ (rounds # <<>> <=> Len(rounds) # 0)
    BY DEF game
  <1>. QED
    BY <1>1 DEF Stuck, StuckGame

\* There is nothing to present, so the round stays where it is.
LEMMA StuckSync ==
  ASSUME NEW g, Core(g), now \in Nat, StuckGame(g), NEW shuffle
  PROVE  /\ \A i \in 1..Len(g.rounds) : SyncRound(g, i, shuffle) = Expire(g)
         /\ SyncCurrent(g, shuffle) = Expire(g)
         /\ Expire(g).rounds = g.rounds /\ Expire(g).sets = g.sets
  <1> DEFINE e == Expire(g)
             n == Len(g.rounds)
  <1>1. g \in Games /\ n \in Nat /\ n # 0 /\ g.rounds # <<>>
    BY RowAt DEF Core, StuckGame, Games
  <1>2. e.rounds = g.rounds /\ e.sets = g.sets
    BY <1>1, QuietExpire
  <1>3. g.rounds[n].status = "writing" /\ SetsOf(g, n) = {}
    BY DEF StuckGame
  <1>4. ASSUME NEW i \in 1..n
        PROVE  SyncRound(g, i, shuffle) = e
    <2>1. SyncRound(g, i, shuffle) = IF Due(e, i) THEN Advanced(e, i, shuffle) ELSE e
      BY DEF SyncRound
    <2> HIDE DEF e
    <2>2. CASE Due(e, i)
      <3>1. g.rounds[i].phaseEndsAt # NoTime
        BY <1>2, <2>2 DEF Due
      <3>2. i = n
        BY <1>1, <3>1 DEF Core, RoundSound
      <3>3. SetsOf(e, i) = {} /\ e.rounds[i].status = "writing"
        BY <1>2, <1>3, <3>2 DEF SetsOf
      <3>4. Advanced(e, i, shuffle) = ToPresentation(e, i, shuffle)
        BY <3>3 DEF Advanced
      <3>5. ToPresentation(e, i, shuffle) = e
        BY <3>3 DEF ToPresentation, Presentable
      <3>. QED
        BY <2>1, <2>2, <3>4, <3>5
    <2>. QED
      BY <2>1, <2>2
  <1>5. SyncCurrent(g, shuffle) = e
    <2>1. Current(g) \in 1..n
      BY <1>1 DEF Current
    <2>. QED
      BY <1>1, <1>4, <2>1 DEF SyncCurrent
  <1>. QED
    BY <1>2, <1>4, <1>5

\* It stays so as long as neither its row nor a truth set is written.
LEMMA StuckKept ==
  ASSUME NEW g, StuckGame(g), NEW h, h.rounds = g.rounds, h.sets = g.sets
  PROVE  StuckGame(h)
  BY DEF StuckGame, SetsOf

\* A pause keeps the deadline where it was, with respect to the clock.
LEMMA StuckClock ==
  ASSUME NEW g, Core(g), now \in Nat, StuckGame(g), NEW round \in Rounds, NEW status,
         round.status = "writing",
         round.phaseEndsAt <= IF round.pausedAt = NoTime THEN now ELSE round.pausedAt
  PROVE  StuckGame(WithStatus(OnCurrent(g, round), status))
  <1> DEFINE h == WithStatus(OnCurrent(g, round), status)
  <1>1. g \in Games /\ g.rounds # <<>> /\ SetsOf(g, Len(g.rounds)) = {} /\ Len(g.rounds) # 0
    BY DEF Core, StuckGame, Games
  <1>2. Len(h.rounds) = Len(g.rounds) /\ h.rounds[Len(g.rounds)] = round /\ h.sets = g.sets
    BY <1>1, ClockGame
  <1> HIDE DEF h
  <1>3. SetsOf(h, Len(h.rounds)) = {}
    BY <1>1, <1>2 DEF SetsOf
  <1>4. StuckGame(h)
    BY <1>1, <1>2, <1>3 DEF StuckGame
  <1>. QED
    BY <1>4 DEF h

\* The row of the round that is stuck.
LEMMA StuckRow ==
  ASSUME NEW g, Core(g), now \in Nat, StuckGame(g)
  PROVE  LET r == g.rounds[Current(g)]
         IN  /\ r \in Rounds /\ r.status = "writing"
             /\ r.phaseEndsAt \in Nat /\ r.pausedAt \in Nat \cup {NoTime} /\ r.pausedAt <= now
             /\ r.phaseEndsAt <= IF r.pausedAt = NoTime THEN now ELSE r.pausedAt
  <1> DEFINE n == Len(g.rounds)
             r == g.rounds[n]
  <1>1. g \in Games /\ n \in Nat /\ n # 0 /\ Current(g) = n
    BY RowAt DEF Core, StuckGame, Current
  <1>2. r \in Rounds /\ r.status = "writing" /\ RoundSound(g, n)
    BY <1>1, RowAt DEF Core, StuckGame
  <1>3. r.phaseEndsAt <= IF r.pausedAt = NoTime THEN now ELSE r.pausedAt
    BY DEF StuckGame
  <1>4. r.phaseEndsAt # NoTime /\ r.pausedAt <= now
    BY <1>2 DEF RoundSound
  <1>5. r.phaseEndsAt \in Nat \cup {NoTime} /\ r.pausedAt \in Nat \cup {NoTime}
    BY <1>2 DEF Rounds
  <1> HIDE DEF n, r
  <1>6. r.phaseEndsAt \in Nat
    BY <1>4, <1>5
  <1>. QED
    BY <1>1, <1>2, <1>3, <1>4, <1>5, <1>6 DEF r

LEMMA StuckUnpaused ==
  ASSUME NEW g, Core(g), now \in Nat, StuckGame(g)
  PROVE  StuckGame(Unpaused(g))
  <1> DEFINE r == g.rounds[Current(g)]
             row == Resumed(r)
  <1>1. /\ r \in Rounds /\ r.status = "writing"
        /\ r.phaseEndsAt \in Nat /\ r.pausedAt \in Nat \cup {NoTime} /\ r.pausedAt <= now
        /\ r.phaseEndsAt <= IF r.pausedAt = NoTime THEN now ELSE r.pausedAt
    BY StuckRow
  <1> HIDE DEF r
  <1>2. row \in Rounds /\ row.status = "writing" /\ row.pausedAt = NoTime
    BY <1>1, ResumedRow
  <1>3. row.phaseEndsAt <= now
    <2>1. CASE r.pausedAt = NoTime
      BY <1>1, <2>1 DEF Resumed
    <2>2. CASE r.pausedAt # NoTime
      <3>1. row.phaseEndsAt = r.phaseEndsAt + (now - r.pausedAt)
        BY <1>1, <2>2 DEF Resumed, Rounds, NoTime
      <3>2. r.pausedAt \in Nat /\ r.phaseEndsAt <= r.pausedAt
        BY <1>1, <2>2
      <3>. QED
        BY <1>1, <3>1, <3>2
    <2>. QED
      BY <2>1, <2>2
  <1>4. Unpaused(g) = WithStatus(OnCurrent(g, row), "active")
    BY DEF Unpaused, r
  <1> HIDE DEF row
  <1>. QED
    BY <1>2, <1>3, <1>4, StuckClock

LEMMA StuckPaused ==
  ASSUME NEW g, Core(g), now \in Nat, StuckGame(g), g.rounds[Len(g.rounds)].pausedAt = NoTime
  PROVE  StuckGame(Paused(g))
  <1> DEFINE r == g.rounds[Current(g)]
             row == [r EXCEPT !.pausedAt = now]
  <1>1. /\ r \in Rounds /\ r.status = "writing" /\ r.phaseEndsAt <= now
    BY StuckRow DEF Current
  <1> HIDE DEF r
  <1>2. row \in Rounds /\ row.status = "writing" /\ row.pausedAt = now /\ row.phaseEndsAt <= now
    BY <1>1 DEF Rounds
  <1>3. Paused(g) = WithStatus(OnCurrent(g, row), "paused") /\ now # NoTime
    BY DEF Paused, r, NoTime
  <1> HIDE DEF row
  <1>. QED
    BY <1>2, <1>3, StuckClock

LEMMA CommitStuck ==
  ASSUME Inv', NEW h, StuckGame(h), Commit(h), now' = now
  PROVE  Stuck'
  <1>1. rounds' = h.rounds /\ sets' = h.sets
    BY DEF Commit
  <1>2. StuckGame(game)'
    BY <1>1 DEF StuckGame, SetsOf, game
  <1>3. (rounds \in Seq(Rounds))'
    BY DEF Inv, Sound, Core, Games, game
  <1>4. (Stuck <=> StuckGame(game))'
    BY <1>3, StuckIsStuckGame, PTL
  <1>. QED
    BY <1>2, <1>4

\* What a request finds that is stuck, and what its synchronisation makes of it.
LEMMA StuckFound ==
  ASSUME Inv, Stuck, NEW shuffle
  PROVE  /\ Core(game) /\ now \in Nat /\ StuckGame(game) /\ StuckGame(Expire(game))
         /\ Core(Expire(game)) /\ Expire(game).rounds = rounds
         /\ game.rounds = rounds /\ Len(rounds) # 0
         /\ \A i \in 1..Len(rounds) : SyncRound(game, i, shuffle) = Expire(game)
         /\ SyncCurrent(game, shuffle) = Expire(game)
  <1>1. /\ Core(game) /\ now \in Nat /\ StuckGame(game) /\ game.rounds = rounds
        /\ Len(rounds) # 0
    BY GameFound, StuckIsStuckGame DEF Games, StuckGame
  <1>2. /\ \A i \in 1..Len(rounds) : SyncRound(game, i, shuffle) = Expire(game)
        /\ SyncCurrent(game, shuffle) = Expire(game)
        /\ Expire(game).rounds = game.rounds /\ Expire(game).sets = game.sets
    BY <1>1, StuckSync
  <1>3. StuckGame(Expire(game))
    BY <1>1, <1>2, StuckKept
  <1>4. Core(Expire(game))
    BY HostHereBoolean, ExpireStep DEF Inv, RowsTyped, Step, Reaches
  <1>. QED
    BY <1>1, <1>2, <1>3, <1>4

LEMMA TickStuck ==
  ASSUME Inv, Stuck, Inv', Tick
  PROVE  Stuck'
  <1> DEFINE r == rounds[Len(rounds)]
  <1>1. rounds' = rounds /\ sets' = sets /\ now' = now + 1
    BY DEF Tick
  <1>2. now \in Nat /\ r.phaseEndsAt \in Nat /\ r.phaseEndsAt <= IF r.pausedAt = NoTime THEN now ELSE r.pausedAt
    BY StuckFound, StuckRow DEF Current
  <1>3. SetsOf(game, Len(rounds))' = SetsOf(game, Len(rounds))
    BY <1>1 DEF SetsOf, game
  <1>4. r.phaseEndsAt <= IF r.pausedAt = NoTime THEN now' ELSE r.pausedAt
    <2> HIDE DEF r
    <2>. QED
      BY <1>1, <1>2
  <1>. QED
    BY <1>1, <1>3, <1>4 DEF Stuck

\* The host's requests, and those who come and go.
LEMMA RoomRequestStuck ==
  ASSUME Inv, Stuck, Inv', RoomRequest
  PROVE  Stuck'
  <1>1. /\ Core(game) /\ now \in Nat /\ StuckGame(game) /\ StuckGame(Expire(game))
        /\ Core(Expire(game)) /\ game.rounds = rounds /\ Len(rounds) # 0
        /\ \A shuffle : SyncCurrent(game, shuffle) = Expire(game)
    BY StuckFound
  <1>2. room.status \notin {"none", "waiting"} /\ game.room = room /\ game \in Games
    BY <1>1, GameFound
  <1>3. ASSUME NEW h, StuckGame(h), Core(h), NEW shuffle, Commit(SyncCurrent(h, shuffle)),
               now' = now
        PROVE  Stuck'
    <2>1. /\ SyncCurrent(h, shuffle) = Expire(h)
          /\ Expire(h).rounds = h.rounds /\ Expire(h).sets = h.sets
      BY <1>1, <1>3, StuckSync
    <2>2. StuckGame(Expire(h))
      BY <1>3, <2>1, StuckKept
    <2>. QED
      BY <1>3, <2>1, <2>2, CommitStuck
  <1>4. ASSUME NEW p \in Players, CreateRoom(p)
        PROVE  Stuck'
    BY <1>2, <1>4 DEF CreateRoom
  <1>5. ASSUME NEW p \in Players, JoinRoom(p)
        PROVE  Stuck'
    BY <1>1, <1>5, CommitStuck DEF JoinRoom
  <1>6. ASSUME NEW p \in Players, NEW shuffle \in Shuffles, LeaveRoom(p, shuffle)
        PROVE  Stuck'
    <2> DEFINE closed == WithStatus(game, "finished")
    <2>1. now' = now /\ (Commit(SyncCurrent(game, shuffle)) \/ Commit(SyncCurrent(closed, shuffle)))
      BY <1>6 DEF LeaveRoom
    <2>2. Core(closed) /\ closed.rounds = game.rounds /\ closed.sets = game.sets
      BY <1>1, StatusMoves DEF RoomStatus, Reaches
    <2> HIDE DEF closed
    <2>3. StuckGame(closed)
      BY <1>1, <2>2, StuckKept
    <2>. QED
      BY <1>1, <1>3, <2>1, <2>2, <2>3
  <1>7. ASSUME NEW shuffle \in Shuffles, room.status = "paused",
               Commit(SyncCurrent(Unpaused(game), shuffle)), now' = now
        PROVE  Stuck'
    <2>1. Core(Unpaused(game))
      BY <1>2, <1>7, SyncKeeps, HostHereBoolean, UnpausedStep DEF Step, Reaches
    <2>2. StuckGame(Unpaused(game))
      BY <1>1, StuckUnpaused
    <2>. QED
      BY <1>3, <1>7, <2>1, <2>2
  <1>8. ASSUME NEW p \in Players, NEW shuffle \in Shuffles, StartGame(p, shuffle)
        PROVE  Stuck'
    <2> DEFINE g == Expire(game)
    <2>1. now' = now
      BY <1>8 DEF StartGame
    <2>2. g.room.status # "expired" => g = game
      BY <1>1, <1>2, QuietExpire
    <2>3. \/ g.room.status = "waiting"
          \/ g.room.status = "paused" /\ Commit(SyncCurrent(Unpaused(g), shuffle))
          \/ Commit(g)
      BY <1>8 DEF StartGame
    <2>4. StuckGame(g)
      BY <1>1
    <2> HIDE DEF g
    <2>5. CASE g.room.status = "waiting"
      BY <1>2, <2>2, <2>5
    <2>6. CASE g.room.status = "paused" /\ Commit(SyncCurrent(Unpaused(g), shuffle))
      <3>1. g = game /\ room.status = "paused"
        BY <1>2, <2>2, <2>6
      <3>. QED
        BY <1>7, <2>1, <2>6, <3>1
    <2>7. CASE Commit(g)
      BY <2>1, <2>4, <2>7, CommitStuck
    <2>. QED
      BY <2>3, <2>5, <2>6, <2>7
  <1>9. ASSUME NEW p \in Players, NEW shuffle \in Shuffles, PauseRound(p, shuffle)
        PROVE  Stuck'
    <2>1. now' = now
      BY <1>9 DEF PauseRound
    <2>2. CASE room.status = "active" /\ Commit(SyncCurrent(Paused(game), shuffle))
      <3>1. Core(Paused(game))
        BY <1>2, <2>2, SyncKeeps, HostHereBoolean, PausedStep DEF Step, Reaches
      <3>2. game.rounds[Len(game.rounds)].pausedAt = NoTime
        BY <1>2, <2>2 DEF Inv, Sound, StatusSound
      <3>3. StuckGame(Paused(game))
        BY <1>1, <3>2, StuckPaused
      <3>. QED
        BY <1>3, <2>1, <2>2, <3>1, <3>3
    <2>3. CASE room.status = "paused" /\ Commit(SyncCurrent(Unpaused(game), shuffle))
      BY <1>7, <2>1, <2>3
    <2>. QED
      BY <1>9, <2>2, <2>3 DEF PauseRound
  <1>. QED
    BY <1>4, <1>5, <1>6, <1>8, <1>9 DEF RoomRequest

\* A late truth set is not taken: the round it would go to is due still.
LEMMA LateTruthSet ==
  ASSUME Inv, Stuck, NEW p \in Players, NEW i \in DOMAIN rounds, NEW truth \in Statements,
         NEW shuffle \in Shuffles, SubmitTruthSet(p, i, truth, shuffle)
  PROVE  FALSE
  <1> DEFINE g == Expire(game)
             n == Len(rounds)
  <1>1. /\ Core(game) /\ Core(g) /\ now \in Nat /\ StuckGame(g) /\ g.rounds = rounds
        /\ i \in 1..n /\ SyncRound(game, i, shuffle) = g
    BY StuckFound, RoundOfRoom
  <1>2. Answered(g, i) = i /\ n \in Nat /\ g \in Games
    BY <1>1, RowAt DEF Answered, Current, Core
  <1>3. /\ g.room.status = "active" /\ g.rounds[i].status = "writing" /\ ~Due(g, i)
    BY <1>1, <1>2 DEF SubmitTruthSet, Playable
  <1>4. i = n
    BY <1>1, <1>2, <1>3 DEF Core, RoundSound
  <1>5. g.rounds[n].pausedAt = NoTime
    <2>1. StatusSound(g, HostHere)
      BY HostHereBoolean, ExpireStep DEF Inv, Step
    <2>. QED
      BY <1>1, <1>3, <2>1 DEF StatusSound
  <1>6. g.rounds[n].phaseEndsAt \in Nat /\ g.rounds[n].phaseEndsAt <= now
    BY <1>1, <1>5, StuckRow DEF Current
  <1> HIDE DEF g
  <1>7. Due(g, n)
    BY <1>1, <1>3, <1>5, <1>6 DEF Due, NoTime
  <1>. QED
    BY <1>3, <1>4, <1>7

LEMMA RoundRequestStuck ==
  ASSUME Inv, Stuck, Inv', NEW shuffle \in Shuffles, RoundRequest(shuffle)
  PROVE  Stuck'
  <1>1. PICK i \in DOMAIN rounds :
          \/ Refused(i, shuffle)
          \/ \E p \in Players, x \in Statements :
               SubmitTruthSet(p, i, x, shuffle) \/ SubmitVote(p, i, x, shuffle)
    BY DEF RoundRequest
  <1>2. Commit(SyncRound(game, i, shuffle)) /\ now' = now
    <2>1. Refused(i, shuffle) \/ \E p \in Players, x \in Statements : SubmitVote(p, i, x, shuffle)
      BY <1>1, LateTruthSet
    <2>. QED
      BY <2>1 DEF Refused, SubmitVote
  <1>3. SyncRound(game, i, shuffle) = Expire(game) /\ StuckGame(Expire(game))
    BY RoundOfRoom, StuckFound DEF game
  <1>. QED
    BY <1>2, <1>3, CommitStuck

LEMMA GetRoomStateStuck ==
  ASSUME Inv, Stuck, Inv', NEW shuffle \in Shuffles, GetRoomState(shuffle)
  PROVE  Stuck'
  <1> DEFINE e == Expire(game)
  <1>1. Core(e) /\ now \in Nat /\ StuckGame(e)
    BY StuckFound
  <1>2. Commit(SyncCurrent(e, shuffle)) /\ now' = now
    BY DEF GetRoomState
  <1> HIDE DEF e
  <1>3. /\ SyncCurrent(e, shuffle) = Expire(e)
        /\ Expire(e).rounds = e.rounds /\ Expire(e).sets = e.sets
    BY <1>1, StuckSync
  <1>4. StuckGame(Expire(e))
    BY <1>1, <1>3, StuckKept
  <1>. QED
    BY <1>2, <1>3, <1>4, CommitStuck

\* A round that nobody has written a truth set for in time stays in its writing
\* phase: neither time, nor a pause, nor a late truth set gets it out.
THEOREM EmptyWritingStaysFinal == Spec => EmptyWritingIsFinal
  <1>1. ASSUME Inv, Stuck, Inv', [Next]_vars
        PROVE  Stuck'
    <2>1. CASE UNCHANGED vars
      BY <1>1, <2>1 DEF vars, Stuck, SetsOf, game
    <2>2. CASE Tick
      BY <1>1, <2>2, TickStuck
    <2>3. CASE RoomRequest
      BY <1>1, <2>3, RoomRequestStuck
    <2>4. ASSUME NEW shuffle \in Shuffles, GetRoomState(shuffle) \/ RoundRequest(shuffle)
          PROVE  Stuck'
      BY <1>1, <2>4, GetRoomStateStuck, RoundRequestStuck
    <2>. QED
      BY <1>1, <2>1, <2>2, <2>3, <2>4 DEF Next
  <1>2. Inv /\ Inv' /\ [Next]_vars => [Stuck => Stuck']_vars
    BY <1>1
  <1>. QED
    BY <1>2, Invariance, PTL DEF Spec, EmptyWritingIsFinal

-----------------------------------------------------------------------------
(* Sums over finite sets.  MapThenSumSet adds the elements up in an order  *)
(* that CHOOSE draws; that the order does not matter is an induction over  *)
(* the subsets, by a least counterexample.                                 *)

\* A collection of subsets of a finite set that is not empty has a smallest one.
LEMMA SmallestSubset ==
  ASSUME NEW S, IsFiniteSet(S), NEW C, C \subseteq SUBSET S, C # {}
  PROVE  \E T \in C : \A U \in SUBSET T : U # T => U \notin C
  <1>1. /\ IsWellFoundedOn(StrictSubsetOrdering(S), FiniteSubsetsOf(S))
        /\ FiniteSubsetsOf(S) = SUBSET S
    BY FS_StrictSubsetOrderingWellFounded, FS_FiniteSubsetsOfFinite
  <1>2. PICK T \in C : \A U \in C : <<U, T>> \notin StrictSubsetOrdering(S)
    BY <1>1, WFMin
  <1>3. ASSUME NEW U \in SUBSET T, U # T PROVE U \notin C
    <2>1. SUFFICES ASSUME U \in C PROVE FALSE
      OBVIOUS
    <2>2. <<U, T>> \in (SUBSET S) \X (SUBSET S)
      BY <2>1
    <2>. QED
      BY <1>2, <1>3, <2>1, <2>2 DEF StrictSubsetOrdering
  <1>. QED
    BY <1>3

First(T) == CHOOSE x \in T : TRUE

\* f adds up the weights w over the subsets of S.
Adds(f, w, S) ==
  f = [T \in SUBSET S |-> IF T = {} THEN 0 ELSE w[First(T)] + f[T \ {First(T)}]]

Total(w, S) == (CHOOSE f : Adds(f, w, S))[S]

LEMMA AddsUp ==
  ASSUME NEW w, NEW S, NEW f, Adds(f, w, S)
  PROVE  /\ f[{}] = 0
         /\ \A T \in SUBSET S :
              T # {} => First(T) \in T /\ f[T] = w[First(T)] + f[T \ {First(T)}]
  <1>1. \A T \in SUBSET S : f[T] = IF T = {} THEN 0 ELSE w[First(T)] + f[T \ {First(T)}]
    BY DEF Adds
  <1>2. \A T : T # {} => First(T) \in T
    BY DEF First
  <1>. QED
    BY <1>1, <1>2

LEMMA AddsUnique ==
  ASSUME NEW w, NEW S, NEW R, NEW f, NEW g, Adds(f, w, S), Adds(g, w, R),
         NEW T, T \subseteq S, T \subseteq R, IsFiniteSet(T)
  PROVE  f[T] = g[T]
  <1> DEFINE C == {U \in SUBSET T : f[U] # g[U]}
  <1>1. SUFFICES ASSUME C # {} PROVE FALSE
    OBVIOUS
  <1>2. PICK U \in C : \A V \in SUBSET U : V # U => V \notin C
    <2> HIDE DEF C
    <2>1. C \subseteq SUBSET T
      BY DEF C
    <2>. QED
      BY <1>1, <2>1, SmallestSubset
  <1>3. U \subseteq T /\ f[U] # g[U] /\ U \in SUBSET S /\ U \in SUBSET R
    BY <1>2
  <1>4. U # {}
    BY <1>3, AddsUp
  <1>5. First(U) \in U /\ f[U] = w[First(U)] + f[U \ {First(U)}]
        /\ g[U] = w[First(U)] + g[U \ {First(U)}]
    BY <1>3, <1>4, AddsUp
  <1>6. f[U \ {First(U)}] = g[U \ {First(U)}]
    BY <1>2, <1>3, <1>5
  <1>. QED
    BY <1>3, <1>5, <1>6

LEMMA AddsExists ==
  ASSUME NEW w, NEW S, IsFiniteSet(S)
  PROVE  \E f : Adds(f, w, S)
  <1> DEFINE C == {T \in SUBSET S : ~\E f : Adds(f, w, T)}
  <1>1. SUFFICES ASSUME C # {} PROVE FALSE
    OBVIOUS
  <1>2. PICK T \in C : \A U \in SUBSET T : U # T => U \notin C
    <2> HIDE DEF C
    <2>1. C \subseteq SUBSET S
      BY DEF C
    <2>. QED
      BY <1>1, <2>1, SmallestSubset
  <1>3. T \subseteq S /\ ~(\E f : Adds(f, w, T))
        /\ \A U \in SUBSET T : U # T => \E f : Adds(f, w, U)
    BY <1>2
  <1>4. \A U \in SUBSET T : IsFiniteSet(U)
    BY <1>3, FS_Subset
  <1> HIDE DEF C
  <1>5. ASSUME NEW U \in SUBSET T, U # T
        PROVE  Total(w, U) = IF U = {} THEN 0 ELSE w[First(U)] + Total(w, U \ {First(U)})
    <2> DEFINE f == CHOOSE k : Adds(k, w, U)
               V == U \ {First(U)}
               g == CHOOSE k : Adds(k, w, V)
    <2>1. Adds(f, w, U)
      BY <1>3, <1>5
    <2>2. CASE U = {}
      <3> HIDE DEF f
      <3>1. f[U] = 0
        BY <2>1, <2>2, AddsUp
      <3>. QED
        BY <2>2, <3>1 DEF Total, f
    <2>3. CASE U # {}
      <3>1. First(U) \in U
        BY <2>3 DEF First
      <3>2. V \subseteq U /\ V \in SUBSET T /\ V # T
        BY <3>1
      <3>3. Adds(g, w, V)
        BY <1>3, <3>2
      <3> HIDE DEF f, g
      <3>4. f[U] = w[First(U)] + f[V]
        BY <2>1, <2>3, AddsUp
      <3>5. f[V] = g[V]
        BY <1>4, <2>1, <3>2, <3>3, AddsUnique
      <3>6. Total(w, U) = f[U] /\ Total(w, V) = g[V]
        BY DEF Total, f, g
      <3>. QED
        BY <2>3, <3>4, <3>5, <3>6
    <2>. QED
      BY <2>2, <2>3
  <1> DEFINE h == [U \in SUBSET T |->
                     IF U = {} THEN 0 ELSE w[First(U)] + Total(w, U \ {First(U)})]
  <1>6. ASSUME NEW U \in SUBSET T, U # {}
        PROVE  h[U \ {First(U)}] = Total(w, U \ {First(U)})
    <2>1. First(U) \in U
      BY <1>6 DEF First
    <2>2. U \ {First(U)} \in SUBSET T /\ U \ {First(U)} # T
      BY <2>1
    <2>. QED
      BY <1>5, <2>2
  <1>7. Adds(h, w, T)
    <2> DEFINE k == [U \in SUBSET T |->
                       IF U = {} THEN 0 ELSE w[First(U)] + h[U \ {First(U)}]]
    <2>1. \A U \in SUBSET T : h[U] = k[U]
      BY <1>6
    <2>2. h = k
      BY <2>1
    <2>. QED
      BY <2>2 DEF Adds
  <1>. QED
    BY <1>3, <1>7

LEMMA TotalAdds ==
  ASSUME NEW w, NEW S, IsFiniteSet(S), NEW f, Adds(f, w, S)
  PROVE  Total(w, S) = f[S]
  <1> DEFINE g == CHOOSE k : Adds(k, w, S)
  <1>1. Adds(g, w, S)
    OBVIOUS
  <1> HIDE DEF g
  <1>2. g[S] = f[S]
    BY <1>1, AddsUnique
  <1>. QED
    BY <1>2 DEF Total, g

LEMMA TotalFirst ==
  ASSUME NEW w, NEW S, IsFiniteSet(S)
  PROVE  Total(w, S) = IF S = {} THEN 0 ELSE w[First(S)] + Total(w, S \ {First(S)})
  <1>1. PICK f : Adds(f, w, S)
    BY AddsExists
  <1>2. Total(w, S) = f[S]
    BY <1>1, TotalAdds
  <1>3. CASE S = {}
    BY <1>1, <1>2, <1>3, AddsUp
  <1>4. CASE S # {}
    <2> DEFINE U == S \ {First(S)}
    <2>1. IsFiniteSet(U) /\ U \subseteq S
      BY FS_Subset
    <2>2. PICK g : Adds(g, w, U)
      BY <2>1, AddsExists
    <2>3. Total(w, U) = g[U]
      BY <2>1, <2>2, TotalAdds
    <2>4. f[U] = g[U]
      BY <1>1, <2>1, <2>2, AddsUnique
    <2>5. \A T \in SUBSET S : T # {} => f[T] = w[First(T)] + f[T \ {First(T)}]
      BY <1>1, AddsUp
    <2>6. f[S] = w[First(S)] + f[U]
      BY <1>4, <2>5
    <2>. QED
      BY <1>2, <1>4, <2>3, <2>4, <2>6
  <1>. QED
    BY <1>3, <1>4

LEMMA TotalNat ==
  ASSUME NEW w, NEW S, IsFiniteSet(S), \A x \in S : w[x] \in Nat
  PROVE  Total(w, S) \in Nat
  <1> DEFINE C == {T \in SUBSET S : Total(w, T) \notin Nat}
  <1>1. SUFFICES ASSUME C # {} PROVE FALSE
    OBVIOUS
  <1>2. PICK T \in C : \A U \in SUBSET T : U # T => U \notin C
    <2> HIDE DEF C
    <2>1. C \subseteq SUBSET S
      BY DEF C
    <2>. QED
      BY <1>1, <2>1, SmallestSubset
  <1>3. T \in SUBSET S /\ Total(w, T) \notin Nat /\ IsFiniteSet(T)
    BY <1>2, FS_Subset
  <1>4. Total(w, T) = IF T = {} THEN 0 ELSE w[First(T)] + Total(w, T \ {First(T)})
    BY <1>3, TotalFirst
  <1>5. T # {}
    BY <1>3, <1>4
  <1>6. First(T) \in T
    BY <1>5 DEF First
  <1>7. Total(w, T \ {First(T)}) \in Nat
    BY <1>2, <1>3, <1>6
  <1>. QED
    BY <1>3, <1>4, <1>6, <1>7

LEMMA TotalSame ==
  ASSUME NEW w, NEW v, NEW S, IsFiniteSet(S), \A x \in S : w[x] = v[x]
  PROVE  Total(w, S) = Total(v, S)
  <1>1. PICK f : Adds(f, w, S)
    BY AddsExists
  <1>2. \A T \in SUBSET S : T # {} => w[First(T)] = v[First(T)]
    BY DEF First
  <1>3. Adds(f, v, S)
    <2> DEFINE k == [T \in SUBSET S |-> IF T = {} THEN 0 ELSE v[First(T)] + f[T \ {First(T)}]]
               l == [T \in SUBSET S |-> IF T = {} THEN 0 ELSE w[First(T)] + f[T \ {First(T)}]]
    <2>1. \A T \in SUBSET S : l[T] = k[T]
      BY <1>2
    <2>2. l = k
      BY <2>1
    <2>3. f = l
      BY <1>1 DEF Adds
    <2>. QED
      BY <2>2, <2>3 DEF Adds
  <1>. QED
    BY <1>1, <1>3, TotalAdds

\* Any element may be taken out first.
LEMMA TotalRemove ==
  ASSUME NEW w, NEW S, IsFiniteSet(S), \A x \in S : w[x] \in Nat, NEW z \in S
  PROVE  Total(w, S) = w[z] + Total(w, S \ {z})
  <1> DEFINE C == {T \in SUBSET S : \E x \in T : Total(w, T) # w[x] + Total(w, T \ {x})}
  <1>1. SUFFICES ASSUME C # {} PROVE FALSE
    <2>1. S \notin C => Total(w, S) = w[z] + Total(w, S \ {z})
      OBVIOUS
    <2> HIDE DEF C
    <2>. QED
      BY <2>1
  <1>2. PICK T \in C : \A U \in SUBSET T : U # T => U \notin C
    <2> HIDE DEF C
    <2>1. C \subseteq SUBSET S
      BY DEF C
    <2>. QED
      BY <1>1, <2>1, SmallestSubset
  <1>3. PICK x \in T : T \in SUBSET S /\ Total(w, T) # w[x] + Total(w, T \ {x})
    BY <1>2
  <1> DEFINE y == First(T)
             a == Total(w, T \ {y})
             b == Total(w, T \ {x})
             c == Total(w, (T \ {x}) \ {y})
  <1>4. y \in T
    BY <1>3 DEF First
  <1>5. \A U \in SUBSET T : IsFiniteSet(U) /\ Total(w, U) \in Nat
    <2> SUFFICES ASSUME NEW U \in SUBSET T PROVE IsFiniteSet(U) /\ Total(w, U) \in Nat
      OBVIOUS
    <2>1. U \subseteq S /\ IsFiniteSet(U)
      BY <1>3, FS_Subset
    <2>. QED
      BY <2>1, TotalNat
  <1>6. Total(w, T) = w[y] + a
    BY <1>3, <1>5, TotalFirst
  <1>7. x # y
    BY <1>3, <1>6
  <1>8. ASSUME NEW U \in SUBSET T, U # T, NEW u \in U
        PROVE  Total(w, U) = w[u] + Total(w, U \ {u})
    BY <1>2, <1>3, <1>8
  <1> HIDE DEF C
  <1>9. a = w[x] + Total(w, (T \ {y}) \ {x}) /\ b = w[y] + c
    BY <1>4, <1>7, <1>8
  <1>10. (T \ {y}) \ {x} = (T \ {x}) \ {y}
    OBVIOUS
  <1>11. w[x] \in Nat /\ w[y] \in Nat /\ a \in Nat /\ b \in Nat /\ c \in Nat
    BY <1>3, <1>4, <1>5
  <1> HIDE DEF a, b, c, y
  <1>12. Total(w, T) # w[x] + b /\ a = w[x] + c
    BY <1>3, <1>9, <1>10 DEF b, c
  <1>. QED
    BY <1>6, <1>9, <1>11, <1>12

-----------------------------------------------------------------------------
(* The scores.  What a truth set brings depends on its truth, its author   *)
(* and the votes on it, and none of them changes once it has been scored:  *)
(* a truth set that may still be written, or voted on, is not scored yet.  *)

ScoredSets(g) == {s \in DOMAIN g.sets : g.sets[s].scored}

BallotsOn(ballots, s) == {v \in ballots : v.set = s}

\* What the truth sets of g bring player p.
Gains(g, ballots, p) == [s \in DOMAIN g.sets |-> Points(g.sets[s], BallotsOn(ballots, s), p)]

\* ScoresMatchVotes, of any game.
Matches(g, ballots) ==
  \A p \in Players : g.score[p] = Total(Gains(g, ballots, p), ScoredSets(g))

\* From g to h the scores are the same, and so is all they depend on.
ScoresKept(g, h) ==
  /\ h.score = g.score /\ ScoredSets(h) = ScoredSets(g)
  /\ \A s \in ScoredSets(g) :
       h.sets[s].truth = g.sets[s].truth /\ h.sets[s].author = g.sets[s].author

ScoreInv == Inv /\ Matches(game, votes)

LEMMA SumIsTotal ==
  ASSUME NEW p, NEW S, IsFiniteSet(S), S \subseteq DOMAIN sets
  PROVE  MapThenSumSet(LAMBDA s : Points(sets[s], VotesOn(s), p), S)
           = Total(Gains(game, votes, p), S)
  <1> DEFINE w == Gains(game, votes, p)
             Q(f) == f = [T \in SUBSET S |->
                            IF T = {} THEN 0
                            ELSE Points(sets[First(T)], VotesOn(First(T)), p) + f[T \ {First(T)}]]
             sum == MapThenSumSet(LAMBDA s : Points(sets[s], VotesOn(s), p), S)
  <1>1. sum = (CHOOSE f : Q(f))[S]
    BY DEF MapThenSumSet, MapThenFoldSet, First
  <1> HIDE DEF sum
  <1>2. \A s \in S : w[s] = Points(sets[s], VotesOn(s), p)
    BY DEF Gains, BallotsOn, VotesOn, game
  <1> HIDE DEF w
  <1>3. ASSUME NEW f PROVE Q(f) <=> Adds(f, w, S)
    <2>1. \A T \in SUBSET S : T # {} => First(T) \in S
      BY DEF First
    <2>2. \A T \in SUBSET S : (IF T = {} THEN 0 ELSE w[First(T)] + f[T \ {First(T)}])
             = IF T = {} THEN 0
               ELSE Points(sets[First(T)], VotesOn(First(T)), p) + f[T \ {First(T)}]
      BY <1>2, <2>1
    <2>. QED
      BY <2>2 DEF Adds
  <1>4. \E f : Q(f)
    BY <1>3, AddsExists
  <1> HIDE DEF Q
  <1>5. Q(CHOOSE f : Q(f))
    BY <1>4
  <1> DEFINE k == CHOOSE f : Q(f)
  <1>6. Adds(k, w, S)
    BY <1>3, <1>5
  <1> HIDE DEF k
  <1>7. Total(w, S) = k[S]
    BY <1>6, TotalAdds
  <1>8. sum = Total(w, S)
    BY <1>1, <1>7 DEF k
  <1>. QED
    BY <1>8 DEF sum, w

LEMMA ScoresMatch == ScoreInv => ScoresMatchVotes
  <1> SUFFICES ASSUME ScoreInv, NEW p \in Players
               PROVE  score[p] = MapThenSumSet(LAMBDA s : Points(sets[s], VotesOn(s), p),
                                               {s \in DOMAIN sets : sets[s].scored})
    BY DEF ScoresMatchVotes
  <1> DEFINE S == {s \in DOMAIN sets : sets[s].scored}
             sum == MapThenSumSet(LAMBDA s : Points(sets[s], VotesOn(s), p), S)
  <1>1. S = ScoredSets(game) /\ game.score = score
    BY DEF ScoredSets, game
  <1>2. IsFiniteSet(S) /\ S \subseteq DOMAIN sets
    <2>1. DOMAIN sets = 1..Len(sets) /\ Len(sets) \in Nat
      BY InvParts DEF ScoreInv, TypeOK
    <2>2. IsFiniteSet(DOMAIN sets) /\ S \subseteq DOMAIN sets
      BY <2>1, FS_Interval
    <2> HIDE DEF S
    <2>. QED
      BY <2>2, FS_Subset
  <1> HIDE DEF S
  <1>3. sum = Total(Gains(game, votes, p), S)
    BY <1>2, SumIsTotal
  <1> HIDE DEF sum
  <1>4. score[p] = sum
    BY <1>1, <1>3 DEF ScoreInv, Matches
  <1>. QED
    BY <1>4 DEF S, sum

\* The truth sets that are scored, and what they bring.
LEMMA GainsOf ==
  ASSUME NEW g \in Games, NEW ballots, IsFiniteSet(ballots), NEW p
  PROVE  /\ DOMAIN g.sets = 1..Len(g.sets) /\ Len(g.sets) \in Nat
         /\ IsFiniteSet(ScoredSets(g)) /\ ScoredSets(g) \subseteq DOMAIN g.sets
         /\ \A s \in DOMAIN g.sets :
              /\ Gains(g, ballots, p)[s] = Points(g.sets[s], BallotsOn(ballots, s), p)
              /\ Gains(g, ballots, p)[s] \in Nat
  <1>1. DOMAIN g.sets = 1..Len(g.sets) /\ Len(g.sets) \in Nat
    BY RowAt
  <1>2. ScoredSets(g) \subseteq DOMAIN g.sets
    BY DEF ScoredSets
  <1>3. IsFiniteSet(DOMAIN g.sets)
    BY <1>1, FS_Interval
  <1>4. IsFiniteSet(ScoredSets(g))
    BY <1>2, <1>3, FS_Subset
  <1>5. \A s : IsFiniteSet(BallotsOn(ballots, s))
    BY FS_Subset DEF BallotsOn
  <1>6. \A s : Points(g.sets[s], BallotsOn(ballots, s), p) \in Nat
    BY <1>5, PointsNat
  <1>. QED
    BY <1>1, <1>2, <1>4, <1>6 DEF Gains

LEMMA SamePoints ==
  ASSUME NEW row, NEW other, other.truth = row.truth, other.author = row.author
  PROVE  \A ballots, p : Points(other, ballots, p) = Points(row, ballots, p)
  BY DEF Points, CorrectVotes

LEMMA KeptMatches ==
  ASSUME NEW g \in Games, NEW h, NEW ballots, NEW others, IsFiniteSet(ballots),
         ScoresKept(g, h), Matches(g, ballots),
         \A s \in ScoredSets(g) : BallotsOn(others, s) = BallotsOn(ballots, s)
  PROVE  Matches(h, others)
  <1> SUFFICES ASSUME NEW p \in Players
               PROVE  h.score[p] = Total(Gains(h, others, p), ScoredSets(h))
    BY DEF Matches
  <1> DEFINE S == ScoredSets(g)
             w == Gains(g, ballots, p)
             v == Gains(h, others, p)
  <1>1. S = ScoredSets(h) /\ h.score = g.score
    BY DEF ScoresKept
  <1>2. \A s \in S : v[s] = w[s]
    <2> SUFFICES ASSUME NEW s \in S PROVE v[s] = w[s]
      OBVIOUS
    <2>1. s \in DOMAIN g.sets /\ s \in DOMAIN h.sets
      BY <1>1 DEF ScoredSets
    <2>2. /\ w[s] = Points(g.sets[s], BallotsOn(ballots, s), p)
          /\ v[s] = Points(h.sets[s], BallotsOn(others, s), p)
      BY <2>1 DEF Gains
    <2>3. h.sets[s].truth = g.sets[s].truth /\ h.sets[s].author = g.sets[s].author
      BY DEF ScoresKept
    <2>. QED
      BY <2>2, <2>3, SamePoints
  <1>3. IsFiniteSet(S)
    BY GainsOf
  <1> HIDE DEF S, w, v
  <1>4. Total(w, S) = Total(v, S)
    BY <1>2, <1>3, TotalSame
  <1>. QED
    BY <1>1, <1>4 DEF S, w, v, Matches

\* Scoring a truth set adds what it brings, once.
LEMMA ScoringMatches ==
  ASSUME NEW g \in Games, RowsTyped, NEW a \in 1..Len(g.sets), Matches(g, votes)
  PROVE  Matches(Scored(g, a), votes)
  <1> DEFINE k == Scored(g, a)
  <1>1. CASE g.sets[a].scored
    BY <1>1 DEF Scored
  <1>2. CASE ~g.sets[a].scored
    <2> DEFINE marked == [g.sets[a] EXCEPT !.scored = TRUE]
    <2>1. g.sets \in Seq(TruthSets) /\ g.sets[a] \in TruthSets /\ g.score \in [Players -> Nat]
          /\ DOMAIN g.sets = 1..Len(g.sets)
      BY RowAt DEF Games
    <2>2. /\ marked.truth = g.sets[a].truth /\ marked.author = g.sets[a].author /\ marked.scored
      BY <2>1 DEF TruthSets
    <2>3. k \in Games /\ k.sets = [g.sets EXCEPT ![a] = marked]
      BY <1>2, ScoredSet
    <2>4. k.score = [p \in Players |-> g.score[p] + Points(g.sets[a], VotesOn(a), p)]
      BY <1>2 DEF Scored, Games
    <2> HIDE DEF k, marked
    <2>5. /\ DOMAIN k.sets = DOMAIN g.sets /\ k.sets[a] = marked
          /\ \A s \in DOMAIN g.sets : s # a => k.sets[s] = g.sets[s]
      BY <2>1, <2>3
    <2>6. ScoredSets(k) = ScoredSets(g) \cup {a} /\ a \notin ScoredSets(g)
      BY <1>2, <2>1, <2>2, <2>5 DEF ScoredSets
    <2> SUFFICES ASSUME NEW p \in Players
                 PROVE  k.score[p] = Total(Gains(k, votes, p), ScoredSets(k))
      BY DEF Matches, k
    <2> DEFINE w == Gains(g, votes, p)
               v == Gains(k, votes, p)
               S == ScoredSets(g)
               R == ScoredSets(k)
    <2>7. IsFiniteSet(votes)
      BY DEF RowsTyped
    <2>8. /\ IsFiniteSet(S) /\ IsFiniteSet(R) /\ S \subseteq DOMAIN g.sets
          /\ \A s \in R : v[s] \in Nat
          /\ v[a] = Points(g.sets[a], VotesOn(a), p)
      <3>1. v[a] = Points(marked, BallotsOn(votes, a), p)
        BY <2>1, <2>3, <2>5, <2>7, GainsOf
      <3>2. BallotsOn(votes, a) = VotesOn(a)
        BY DEF BallotsOn, VotesOn
      <3>. QED
        BY <2>2, <2>3, <2>7, <3>1, <3>2, GainsOf, SamePoints
    <2>9. \A s \in S : v[s] = w[s]
      BY <2>3, <2>5, <2>6, <2>7, <2>8, GainsOf
    <2> HIDE DEF w, v, S, R
    <2>10. a \in R /\ R \ {a} = S
      BY <2>6 DEF R, S
    <2>11. Total(v, R) = v[a] + Total(v, S)
      BY <2>8, <2>10, TotalRemove
    <2>12. Total(v, S) = Total(w, S)
      BY <2>8, <2>9, TotalSame
    <2>13. g.score[p] = Total(w, S) /\ g.score[p] \in Nat
      BY <2>1 DEF Matches, w, S
    <2>14. v[a] \in Nat
      BY <2>8, <2>10
    <2>. QED
      BY <2>4, <2>8, <2>11, <2>12, <2>13, <2>14 DEF v, R
  <1>. QED
    BY <1>1, <1>2

-----------------------------------------------------------------------------
(* What the lifecycle does to the scores.                                  *)

LEMMA RowScores ==
  ASSUME NEW g \in Games, NEW i, NEW row
  PROVE  ScoresKept(g, WithRound(g, i, row))
  <1>1. WithRound(g, i, row).sets = g.sets /\ WithRound(g, i, row).score = g.score
    BY DEF WithRound, Games
  <1>. QED
    BY <1>1 DEF ScoresKept, ScoredSets

LEMMA StatusScores ==
  ASSUME NEW g \in Games, NEW status
  PROVE  ScoresKept(g, WithStatus(g, status))
  <1>1. WithStatus(g, status).sets = g.sets /\ WithStatus(g, status).score = g.score
    BY DEF WithStatus, Games
  <1>. QED
    BY <1>1 DEF ScoresKept, ScoredSets

LEMMA ScoresTransitive ==
  ASSUME NEW g, NEW h, NEW k, ScoresKept(g, h), ScoresKept(h, k)
  PROVE  ScoresKept(g, k)
  BY DEF ScoresKept

\* A shuffle gives the truth sets their order, and nothing else.
LEMMA OrderedScores ==
  ASSUME NEW g \in Games, NEW i, NEW shuffle
  PROVE  ScoresKept(g, Ordered(g, i, shuffle))
  <1> DEFINE o == Ordered(g, i, shuffle)
             placed(s) == [g.sets[s] EXCEPT !.order = Place(g, s, shuffle)]
             rows == [s \in DOMAIN g.sets |-> IF s \in SetsOf(g, i) THEN placed(s) ELSE g.sets[s]]
  <1>1. CASE o = g
    BY <1>1 DEF ScoresKept
  <1>2. CASE o = [g EXCEPT !.sets = rows]
    <2>1. o.sets = rows /\ o.score = g.score
      BY <1>2 DEF Games
    <2>2. \A s \in DOMAIN g.sets : g.sets[s] \in TruthSets
      BY RowAt
    <2>3. ASSUME NEW s \in DOMAIN g.sets
          PROVE  /\ rows[s].scored = g.sets[s].scored /\ rows[s].truth = g.sets[s].truth
                 /\ rows[s].author = g.sets[s].author
      <3>1. /\ placed(s).scored = g.sets[s].scored /\ placed(s).truth = g.sets[s].truth
            /\ placed(s).author = g.sets[s].author
        BY <2>2 DEF TruthSets
      <3> HIDE DEF placed
      <3>. QED
        BY <3>1
    <2>4. DOMAIN rows = DOMAIN g.sets
      OBVIOUS
    <2> HIDE DEF rows, o
    <2>. QED
      BY <2>1, <2>3, <2>4 DEF ScoresKept, ScoredSets, o
  <1>3. o = g \/ o = [g EXCEPT !.sets = rows]
    BY DEF Ordered
  <1>. QED
    BY <1>1, <1>2, <1>3

\* From g to h no more than truth set a is scored.
ScoresOnce(g, h) ==
  ScoresKept(g, h) \/ \E a \in 1..Len(g.sets) : ScoresKept(Scored(g, a), h)

LEMMA AdvancedScores ==
  ASSUME NEW g, Core(g), RowsTyped, NEW i \in 1..Len(g.rounds),
         NEW shuffle, Drawn(g, shuffle)
  PROVE  ScoresOnce(g, Advanced(g, i, shuffle))
  <1> DEFINE r == g.rounds[i]
             h == Advanced(g, i, shuffle)
  <1>1. r.status \in RoundStatus /\ now \in Nat /\ g \in Games
    BY RowAt DEF Core, RowsTyped
  <1>2. CASE r.status \in {"countdown", "reveal"}
    <2>1. \E row : h = WithRound(g, i, row)
      BY <1>2 DEF Advanced
    <2> HIDE DEF h
    <2>. QED
      BY <1>1, <2>1, RowScores DEF ScoresOnce, h
  <1>3. CASE r.status = "writing"
    <2> DEFINE o == Ordered(g, i, shuffle)
    <2>1. h = ToPresentation(g, i, shuffle)
      BY <1>3 DEF Advanced
    <2>2. CASE ~Presentable(g, i)
      BY <2>1, <2>2 DEF ToPresentation, ScoresOnce, ScoresKept
    <2>3. CASE Presentable(g, i)
      <3>1. o \in Games
        BY <1>3, <2>3, OrderedSets DEF Presentable
      <3>2. \E s : ToPresentation(g, i, shuffle) = Present(o, i, s)
        BY <2>3 DEF ToPresentation
      <3>3. ScoresKept(g, o)
        BY <1>1, OrderedScores
      <3> HIDE DEF o, h
      <3>4. PICK s : h = Present(o, i, s)
        BY <2>1, <3>2
      <3>5. ScoresKept(o, h)
        BY <3>1, <3>4, RowScores DEF Present
      <3>. QED
        BY <3>3, <3>5, ScoresTransitive DEF ScoresOnce, h
    <2>. QED
      BY <2>2, <2>3
  <1>4. CASE r.status = "presentation_voting"
    <2> DEFINE a == g.rounds[i].active
               k == Scored(g, a)
    <2>1. a \in 1..Len(g.sets) /\ g.sets[a].scored \in BOOLEAN
      BY <1>4, ActiveSet DEF Presenting, TruthSets
    <2>2. h = WithRound(k, i, Enter(g.rounds[i], "reveal", RevealTime))
      BY <1>4 DEF Advanced, ToReveal
    <2>3. k \in Games
      <3> HIDE DEF a
      <3>1. CASE g.sets[a].scored
        BY <1>1, <3>1 DEF Scored
      <3>2. CASE ~g.sets[a].scored
        BY <1>1, <2>1, <3>2, ScoredSet
      <3>. QED
        BY <3>1, <3>2
    <2> HIDE DEF k, h
    <2>4. ScoresKept(k, h)
      BY <2>2, <2>3, RowScores
    <2>. QED
      BY <2>1, <2>4 DEF ScoresOnce, k, h
  <1>5. CASE r.status = "commentary"
    <2> DEFINE f == WithRound(g, i, Finished(r))
    <2>1. h = AfterCommentary(g, i)
      BY <1>5 DEF Advanced
    <2>2. ScoresKept(g, f) /\ f.sets = g.sets /\ f.score = g.score
      BY <1>1, RowScores DEF WithRound, Games
    <2>3. \/ \E s : h = Present(g, i, s)
          \/ \E row : h = [f EXCEPT !.rounds = Append(@, row)]
          \/ h = WithStatus(f, "finished")
      BY <2>1 DEF AfterCommentary
    <2>4. /\ \A row : [f EXCEPT !.rounds = Append(@, row)].sets = f.sets
          /\ \A row : [f EXCEPT !.rounds = Append(@, row)].score = f.score
          /\ WithStatus(f, "finished").sets = f.sets /\ WithStatus(f, "finished").score = f.score
      BY <1>1 DEF WithStatus, WithRound, Games
    <2> HIDE DEF f, h
    <2>5. CASE \E s : h = Present(g, i, s)
      BY <1>1, <2>5, RowScores DEF Present, ScoresOnce, h
    <2>6. CASE h.sets = g.sets /\ h.score = g.score
      BY <2>6 DEF ScoresKept, ScoredSets, ScoresOnce, h
    <2>. QED
      BY <2>2, <2>3, <2>4, <2>5, <2>6
  <1>6. CASE r.status = "finished"
    BY <1>6 DEF Advanced, ScoresOnce, ScoresKept
  <1>. QED
    BY <1>1, <1>2, <1>3, <1>4, <1>5, <1>6 DEF RoundStatus, Presenting

LEMMA ExpireScores ==
  ASSUME NEW g \in Games
  PROVE  ScoresKept(g, Expire(g))
  <1>1. Expire(g) = g \/ Expire(g) = WithStatus(g, "expired")
    BY DEF Expire
  <1>. QED
    BY <1>1, StatusScores DEF ScoresKept

LEMMA SyncRoundMatches ==
  ASSUME NEW g, Core(g), RowsTyped, NEW i \in 1..Len(g.rounds),
         NEW shuffle, Drawn(g, shuffle), Matches(g, votes)
  PROVE  Matches(SyncRound(g, i, shuffle), votes)
  <1> DEFINE e == Expire(g)
             h == SyncRound(g, i, shuffle)
  <1>1. g \in Games /\ now \in Nat /\ IsFiniteSet(votes)
    BY DEF Core, RowsTyped
  <1>2. ScoresKept(g, e) /\ e \in Games /\ (e.room.status # "expired" => e = g)
    BY <1>1, ExpireScores, QuietExpire
  <1>3. ScoresOnce(g, h)
    <2>1. CASE Due(e, i)
      <3>1. e = g
        BY <1>2, <2>1 DEF Due
      <3>. QED
        BY <2>1, <3>1, AdvancedScores DEF SyncRound
    <2>2. CASE ~Due(e, i)
      BY <1>2, <2>2 DEF SyncRound, ScoresOnce
    <2>. QED
      BY <2>1, <2>2
  <1> HIDE DEF h, e
  <1>4. CASE ScoresKept(g, h)
    BY <1>1, <1>4, KeptMatches DEF h
  <1>5. ASSUME NEW a \in 1..Len(g.sets), ScoresKept(Scored(g, a), h)
        PROVE  Matches(h, votes)
    <2>1. Matches(Scored(g, a), votes)
      BY <1>1, ScoringMatches
    <2>2. Scored(g, a) \in Games
      <3>1. CASE g.sets[a].scored
        BY <1>1, <3>1 DEF Scored
      <3>2. CASE ~g.sets[a].scored
        BY <1>1, <3>2, ScoredSet
      <3>. QED
        BY <3>1, <3>2
    <2>. QED
      BY <1>1, <1>5, <2>1, <2>2, KeptMatches DEF h
  <1>. QED
    BY <1>3, <1>4, <1>5 DEF ScoresOnce, h

LEMMA SyncCurrentMatches ==
  ASSUME NEW g, Core(g), RowsTyped, NEW shuffle, Drawn(g, shuffle), Matches(g, votes)
  PROVE  Matches(SyncCurrent(g, shuffle), votes)
  <1>1. CASE g.rounds = <<>>
    BY <1>1 DEF SyncCurrent
  <1>2. CASE g.rounds # <<>>
    <2>1. Current(g) \in 1..Len(g.rounds)
      BY <1>2, RowAt DEF Core, Games, Current
    <2>. QED
      BY <1>2, <2>1, SyncRoundMatches DEF SyncCurrent
  <1>. QED
    BY <1>1, <1>2


-----------------------------------------------------------------------------
(* The scores, request by request.                                         *)

\* A request without a vote: what it makes of the game keeps the scores right.
LEMMA CommitMatches ==
  ASSUME NEW h, Matches(h, votes), Commit(h), votes' = votes
  PROVE  Matches(game, votes)'
  <1>1. game'.sets = h.sets /\ game'.score = h.score
    BY DEF Commit, game
  <1>. QED
    BY <1>1 DEF Matches, Gains, ScoredSets

\* A step of the room, then the trailing synchronisation.
LEMMA SyncMatches ==
  ASSUME ScoreInv, NEW h, Core(h), ScoresKept(game, h), NEW shuffle, Drawn(h, shuffle),
         Commit(SyncCurrent(h, shuffle)), votes' = votes
  PROVE  Matches(game, votes)'
  <1>1. RowsTyped /\ IsFiniteSet(votes) /\ game \in Games /\ Matches(game, votes)
    BY GameFound DEF ScoreInv, RowsTyped
  <1>2. Matches(h, votes)
    BY <1>1, KeptMatches DEF Core
  <1>3. Matches(SyncCurrent(h, shuffle), votes)
    BY <1>1, <1>2, SyncCurrentMatches
  <1>. QED
    BY <1>3, CommitMatches

LEMMA SameRowsMatch ==
  ASSUME Matches(game, votes), sets' = sets, score' = score, votes' = votes
  PROVE  Matches(game, votes)'
  <1>1. game'.sets = game.sets /\ game'.score = game.score
    BY DEF game
  <1>. QED
    BY <1>1 DEF Matches, Gains, ScoredSets

\* The host's requests write the room and its rounds.
LEMMA OnCurrentScores ==
  ASSUME NEW g \in Games, NEW row, NEW status
  PROVE  ScoresKept(g, WithStatus(OnCurrent(g, row), status))
  <1> DEFINE h == OnCurrent(g, row)
  <1>1. h.sets = g.sets /\ h.score = g.score /\ h = [h EXCEPT !.room = h.room]
    BY DEF OnCurrent, WithRound, Games
  <1>2. WithStatus(h, status).sets = h.sets /\ WithStatus(h, status).score = h.score
    BY DEF WithStatus, OnCurrent, WithRound, Games
  <1>. QED
    BY <1>1, <1>2 DEF ScoresKept, ScoredSets

LEMMA UnpausedScores ==
  ASSUME NEW g \in Games
  PROVE  ScoresKept(g, Unpaused(g))
  BY OnCurrentScores DEF Unpaused

LEMMA PausedScores ==
  ASSUME NEW g \in Games
  PROVE  ScoresKept(g, Paused(g))
  BY OnCurrentScores DEF Paused

LEMMA OpenedScores ==
  ASSUME NEW g \in Games
  PROVE  ScoresKept(g, Opened(g))
  <1>1. Opened(g).sets = g.sets /\ Opened(g).score = g.score
    BY DEF Opened, WithStatus, Games
  <1>. QED
    BY <1>1 DEF ScoresKept, ScoredSets

LEMMA RoomRequestMatches ==
  ASSUME ScoreInv, RoomRequest
  PROVE  Matches(game, votes)'
  <1>1. /\ Inv /\ Matches(game, votes) /\ game \in Games /\ Core(game) /\ RowsTyped /\ now \in Nat
        /\ game.room = room /\ game.rounds = rounds
        /\ IsFiniteSet(votes) /\ HostHere \in BOOLEAN /\ Sound(game, HostHere)
    BY GameFound, HostHereBoolean DEF ScoreInv, RowsTyped
  <1> DEFINE e == Expire(game)
  <1>2. ScoresKept(game, e)
    BY <1>1, ExpireScores
  <1>3. ASSUME NEW p \in Players, CreateRoom(p)
        PROVE  Matches(game, votes)'
    BY <1>1, <1>3, SameRowsMatch DEF CreateRoom
  <1>4. ASSUME NEW p \in Players, JoinRoom(p)
        PROVE  Matches(game, votes)'
    <2>1. Commit(e) /\ votes' = votes
      BY <1>4 DEF JoinRoom
    <2>2. e \in Games
      BY <1>1, QuietExpire
    <2> HIDE DEF e
    <2>. QED
      BY <1>1, <1>2, <2>1, <2>2, KeptMatches, CommitMatches
  <1>5. ASSUME NEW p \in Players, NEW shuffle \in Shuffles, LeaveRoom(p, shuffle)
        PROVE  Matches(game, votes)'
    <2> DEFINE closed == WithStatus(game, "finished")
               h == IF Closes(p) THEN closed ELSE game
    <2>1. Drawn(game, shuffle) /\ Commit(SyncCurrent(h, shuffle)) /\ votes' = votes
      BY <1>1, <1>5, DrawnGame DEF LeaveRoom
    <2>2. /\ Core(closed) /\ closed.rounds = game.rounds /\ closed.sets = game.sets
          /\ ScoresKept(game, closed)
      BY <1>1, StatusMoves, StatusScores DEF RoomStatus, Reaches
    <2> HIDE DEF closed
    <2>3. Core(h) /\ Drawn(h, shuffle) /\ ScoresKept(game, h)
      BY <1>1, <2>1, <2>2, DrawnKept DEF ScoresKept
    <2> HIDE DEF h
    <2>. QED
      BY <2>1, <2>3, SyncMatches
  <1>6. ASSUME NEW shuffle \in Shuffles, NEW g \in {game, e}, g.room.status = "paused",
               g.rounds # <<>>, Commit(SyncCurrent(Unpaused(g), shuffle)), votes' = votes
        PROVE  Matches(game, votes)'
    <2>1. Sound(g, HostHere) /\ ScoresKept(game, g) /\ Drawn(g, shuffle) /\ g \in Games
      <3>1. /\ Drawn(game, shuffle) /\ Drawn(e, shuffle)
            /\ Step(game, e, HostHere, 0)
        BY <1>1, SyncKeeps
      <3>2. Sound(e, HostHere)
        BY <3>1 DEF Step, Reaches, Sound
      <3> HIDE DEF e
      <3>. QED
        BY <1>1, <1>2, <3>1, <3>2 DEF ScoresKept, Sound, Core
    <2>2. Core(Unpaused(g)) /\ Drawn(Unpaused(g), shuffle)
      BY <1>1, <1>6, <2>1, UnpausedStep DEF Step, Reaches
    <2>3. ScoresKept(g, Unpaused(g))
      BY <2>1, UnpausedScores
    <2>. QED
      BY <1>6, <2>1, <2>2, <2>3, ScoresTransitive, SyncMatches
  <1>7. ASSUME NEW p \in Players, NEW shuffle \in Shuffles, StartGame(p, shuffle)
        PROVE  Matches(game, votes)'
    <2>1. votes' = votes
      BY <1>7 DEF StartGame
    <2>2. \/ e.room.status = "waiting" /\ Commit(SyncCurrent(Opened(e), shuffle))
          \/ e.room.status = "paused" /\ e.rounds # <<>> /\ Commit(SyncCurrent(Unpaused(e), shuffle))
          \/ Commit(e)
      BY <1>7 DEF StartGame
    <2>3. CASE e.room.status = "waiting" /\ Commit(SyncCurrent(Opened(e), shuffle))
      <3>1. Drawn(e, shuffle) /\ Step(game, e, HostHere, 0)
        BY <1>1, SyncKeeps
      <3>2. Sound(e, HostHere) /\ e \in Games
        BY <3>1 DEF Step, Reaches, Sound, Core
      <3> HIDE DEF e
      <3>3. Core(Opened(e)) /\ Drawn(Opened(e), shuffle)
        BY <1>1, <2>3, <3>1, <3>2, OpenedStep DEF Step, Reaches
      <3>4. ScoresKept(e, Opened(e))
        BY <3>2, OpenedScores
      <3>5. ScoresKept(game, Opened(e))
        BY <1>2, <3>4, ScoresTransitive
      <3>. QED
        BY <2>1, <2>3, <3>3, <3>5, SyncMatches
    <2>4. CASE Commit(e)
      <3> HIDE DEF e
      <3>1. Matches(e, votes)
        BY <1>1, <1>2, KeptMatches
      <3>. QED
        BY <2>1, <2>4, <3>1, CommitMatches
    <2>. QED
      BY <1>6, <2>1, <2>2, <2>3, <2>4
  <1>8. ASSUME NEW p \in Players, NEW shuffle \in Shuffles, PauseRound(p, shuffle)
        PROVE  Matches(game, votes)'
    <2>1. votes' = votes
      BY <1>8 DEF PauseRound
    <2>2. CASE room.status = "active" /\ Commit(SyncCurrent(Paused(game), shuffle))
      <3>1. Core(Paused(game)) /\ Drawn(Paused(game), shuffle)
        BY <1>1, <2>2, DrawnGame, PausedStep DEF Step, Reaches
      <3>2. ScoresKept(game, Paused(game))
        BY <1>1, PausedScores
      <3>. QED
        BY <2>1, <2>2, <3>1, <3>2, SyncMatches
    <2>3. CASE room.status = "paused" /\ Commit(SyncCurrent(Unpaused(game), shuffle))
      <3>1. game.rounds # <<>>
        BY <1>1, <2>3, GameFound
      <3>. QED
        BY <1>1, <1>6, <2>1, <2>3, <3>1
    <2>. QED
      BY <1>8, <2>2, <2>3 DEF PauseRound
  <1>. QED
    BY <1>3, <1>4, <1>5, <1>7, <1>8 DEF RoomRequest

\* A truth set that is written has not been scored: it is of a round that is
\* still in its writing phase.
LEMMA TruthSetMatches ==
  ASSUME ScoreInv, NEW p \in Players, NEW i \in DOMAIN rounds, NEW truth \in Statements,
         NEW shuffle \in Shuffles, SubmitTruthSet(p, i, truth, shuffle)
  PROVE  Matches(game, votes)'
  <1> DEFINE g == SyncRound(game, i, shuffle)
             j == Answered(g, i)
             mine == {s \in SetsOf(g, j) : g.sets[s].author = p}
             row == [round |-> j, author |-> p, truth |-> truth, order |-> 0, scored |-> FALSE]
             added == [g EXCEPT !.sets = Append(@, row)]
             again(s) == [row EXCEPT !.order = g.sets[s].order]
             rewritten(s) == [g EXCEPT !.sets[s] = again(s)]
  <1>1. /\ Inv /\ Matches(game, votes) /\ Core(game) /\ RowsTyped /\ IsFiniteSet(votes)
        /\ Step(game, g, HostHere, 1) /\ Drawn(game, shuffle) /\ i \in 1..Len(game.rounds)
    BY RoundOfRoom, SyncKeeps DEF ScoreInv, RowsTyped
  <1>2. Matches(g, votes)
    BY <1>1, SyncRoundMatches
  <1>3. /\ Playable(g, j, "writing") /\ votes' = votes
        /\ Commit(added) \/ Commit(g) \/ \E s \in mine : Commit(rewritten(s))
    BY DEF SubmitTruthSet
  <1>4. j \in 1..Len(g.rounds)
    BY <1>1, AnsweredRound
  <1> HIDE DEF g, j
  <1>5. /\ Core(g) /\ g \in Games /\ g.rounds[j].status = "writing"
        /\ g.sets \in Seq(TruthSets) /\ Len(g.sets) \in Nat /\ DOMAIN g.sets = 1..Len(g.sets)
    BY <1>1, <1>3, RowAt DEF Step, Reaches, Core, Playable
  <1>6. \A s \in mine : s \in 1..Len(g.sets) /\ ~g.sets[s].scored
    BY <1>4, <1>5, SetsOfRound DEF Core, Presented
  <1>7. ~row.scored
    OBVIOUS
  <1> HIDE DEF row
  <1>8. ASSUME NEW h, ScoresKept(g, h), Commit(h)
        PROVE  Matches(game, votes)'
    BY <1>1, <1>2, <1>3, <1>5, <1>8, KeptMatches, CommitMatches
  <1>9. CASE Commit(added)
    <2> DEFINE rows == Append(g.sets, row)
    <2>1. added.sets = rows /\ added.score = g.score
      BY <1>5 DEF Games
    <2>2. /\ DOMAIN rows = 1..(Len(g.sets) + 1) /\ rows[Len(g.sets) + 1] = row
          /\ \A s \in 1..Len(g.sets) : rows[s] = g.sets[s]
      BY <1>5
    <2> HIDE DEF rows, added
    <2>3. ScoredSets(added) = ScoredSets(g)
      BY <1>5, <1>7, <2>1, <2>2 DEF ScoredSets
    <2>4. ScoresKept(g, added)
      BY <1>5, <2>1, <2>2, <2>3 DEF ScoresKept, ScoredSets
    <2>. QED
      BY <1>8, <1>9, <2>4
  <1>10. CASE Commit(g)
    BY <1>8, <1>10 DEF ScoresKept
  <1>11. ASSUME NEW s \in mine, Commit(rewritten(s))
         PROVE  Matches(game, votes)'
    <2> DEFINE new == again(s)
               rows == [g.sets EXCEPT ![s] = new]
               h == rewritten(s)
    <2>1. h.sets = rows /\ h.score = g.score
      BY <1>5 DEF Games
    <2>2. ~new.scored
      BY DEF row
    <2> HIDE DEF new, h
    <2>3. /\ DOMAIN rows = DOMAIN g.sets /\ rows[s] = new
          /\ \A t \in DOMAIN g.sets : t # s => rows[t] = g.sets[t]
      BY <1>5, <1>6
    <2> HIDE DEF rows
    <2>4. ScoredSets(h) = ScoredSets(g) /\ s \notin ScoredSets(g)
      BY <1>6, <2>1, <2>2, <2>3 DEF ScoredSets
    <2>5. ScoresKept(g, h)
      BY <2>1, <2>3, <2>4 DEF ScoresKept, ScoredSets
    <2>. QED
      BY <1>8, <1>11, <2>5 DEF h
  <1>. QED
    BY <1>3, <1>9, <1>10, <1>11

\* A truth set that is voted on has not been scored.
LEMMA VoteMatches ==
  ASSUME ScoreInv, NEW p \in Players, NEW i \in DOMAIN rounds, NEW choice \in Statements,
         NEW shuffle \in Shuffles, SubmitVote(p, i, choice, shuffle)
  PROVE  Matches(game, votes)'
  <1> DEFINE g == SyncRound(game, i, shuffle)
             a == g.rounds[i].active
             others == {v \in votes : ~(v.set = a /\ v.voter = p)}
             vote == [set |-> a, voter |-> p, choice |-> choice]
  <1>1. /\ Inv /\ Matches(game, votes) /\ Core(game) /\ RowsTyped /\ IsFiniteSet(votes)
        /\ Step(game, g, HostHere, 1) /\ Drawn(game, shuffle) /\ i \in 1..Len(game.rounds)
    BY RoundOfRoom, SyncKeeps DEF ScoreInv, RowsTyped
  <1>2. Matches(g, votes)
    BY <1>1, SyncRoundMatches
  <1>3. Voting(g, i) /\ votes' = others \cup {vote} /\ Commit(g)
    BY DEF SubmitVote
  <1> HIDE DEF g
  <1>4. Core(g) /\ i \in 1..Len(g.rounds) /\ g.rounds[i].status = "presentation_voting"
    <2>1. Core(g) /\ Len(game.rounds) <= Len(g.rounds)
      BY <1>1 DEF Step, Reaches, Forward
    <2>2. Len(game.rounds) \in Nat /\ Len(g.rounds) \in Nat
      BY <1>1, <2>1, RowAt DEF Core
    <2>. QED
      BY <1>1, <1>3, <2>1, <2>2 DEF Voting, Playable
  <1>5. a \notin ScoredSets(g)
    <2>1. a \in SetsOf(g, i) /\ g.sets[a].order \in Nat /\ Presented(g, i)
      BY <1>4, ActiveSet DEF Presenting, TruthSets, Core
    <2>. QED
      BY <1>4, <2>1 DEF Presented, ScoredSets
  <1> HIDE DEF a
  <1>6. \A s : s # a => BallotsOn(votes', s) = BallotsOn(votes, s)
    BY <1>3 DEF BallotsOn
  <1>7. g \in Games /\ ScoresKept(g, g)
    BY <1>4 DEF Core, ScoresKept
  <1>8. \A s \in ScoredSets(g) : BallotsOn(votes', s) = BallotsOn(votes, s)
    BY <1>5, <1>6
  <1>9. Matches(g, votes')
    BY <1>1, <1>2, <1>7, <1>8, KeptMatches
  <1>10. game'.sets = g.sets /\ game'.score = g.score
    BY <1>3 DEF Commit, game
  <1>. QED
    BY <1>9, <1>10 DEF Matches, Gains, ScoredSets

LEMMA NextMatches ==
  ASSUME ScoreInv, [Next]_vars
  PROVE  Matches(game, votes)'
  <1>1. Inv /\ Matches(game, votes) /\ IsFiniteSet(votes)
    BY DEF ScoreInv, Inv, RowsTyped
  <1>2. CASE Tick \/ UNCHANGED vars
    BY <1>1, <1>2, SameRowsMatch DEF Tick, vars
  <1>3. CASE RoomRequest
    BY <1>3, RoomRequestMatches
  <1>4. ASSUME NEW shuffle \in Shuffles, GetRoomState(shuffle)
        PROVE  Matches(game, votes)'
    <2> DEFINE e == Expire(game)
    <2>1. Commit(SyncCurrent(e, shuffle)) /\ votes' = votes
      BY <1>4 DEF GetRoomState
    <2>2. Core(e) /\ Drawn(e, shuffle)
      BY <1>1, SyncKeeps DEF Step, Reaches
    <2>3. ScoresKept(game, e)
      BY <1>1, GameFound, ExpireScores
    <2> HIDE DEF e
    <2>. QED
      BY <2>1, <2>2, <2>3, SyncMatches
  <1>5. ASSUME NEW shuffle \in Shuffles, NEW i \in DOMAIN rounds, Refused(i, shuffle)
        PROVE  Matches(game, votes)'
    <2>1. /\ Core(game) /\ RowsTyped /\ Drawn(game, shuffle) /\ i \in 1..Len(game.rounds)
      BY <1>1, RoundOfRoom, SyncKeeps
    <2>2. Matches(SyncRound(game, i, shuffle), votes)
      BY <1>1, <2>1, SyncRoundMatches
    <2>. QED
      BY <1>5, <2>2, CommitMatches DEF Refused
  <1>6. ASSUME NEW shuffle \in Shuffles, NEW i \in DOMAIN rounds, NEW p \in Players,
               NEW x \in Statements, SubmitTruthSet(p, i, x, shuffle) \/ SubmitVote(p, i, x, shuffle)
        PROVE  Matches(game, votes)'
    BY <1>6, TruthSetMatches, VoteMatches
  <1>. QED
    BY <1>2, <1>3, <1>4, <1>5, <1>6 DEF Next, RoundRequest

\* The scores of a room are what the votes on the scored truth sets give, for any
\* number of players, rounds and statements: nothing is counted twice, forgotten,
\* or changed once it has been counted.
THEOREM ScoresAddUp == Spec => []ScoresMatchVotes
  <1>1. Init => Matches(game, votes)
    <2> SUFFICES ASSUME Init PROVE Matches(game, votes)
      OBVIOUS
    <2>1. ScoredSets(game) = {} /\ \A p \in Players : game.score[p] = 0
      BY DEF Init, game, ScoredSets
    <2>2. \A w : Total(w, {}) = 0
      BY TotalFirst, FS_EmptySet
    <2>. QED
      BY <2>1, <2>2 DEF Matches
  <1>2. Inv /\ Matches(game, votes) /\ [Next]_vars => Matches(game, votes)'
    BY NextMatches DEF ScoreInv
  <1>3. Inv /\ Matches(game, votes) => ScoresMatchVotes
    BY ScoresMatch DEF ScoreInv
  <1>. QED
    BY <1>1, <1>2, <1>3, Invariance, PTL DEF Spec

-----------------------------------------------------------------------------
(* The ranking.  Positions works the positions out one after the other;    *)
(* counting the players who have more points gives a function that meets   *)
(* its equation, and by a least counterexample no other does.              *)

Better(ranking, k) == {p \in Members : score[p] > score[ranking[k]]}

Ranks(f, ranking) ==
  f = [k \in DOMAIN ranking |->
         IF k = 1 THEN 1
         ELSE IF score[ranking[k]] = score[ranking[k - 1]] THEN f[k - 1] ELSE k]

LEMMA LeastNumber ==
  ASSUME NEW T, T \subseteq Nat, T # {}
  PROVE  \E m \in T : \A n \in T : m <= n
  <1> DEFINE R == {pair \in Nat \X Nat : pair[1] < pair[2]}
  <1>1. IsWellFoundedOn(R, Nat)
    BY NatLessThanWellFounded DEF OpToRel, IsWellFoundedOn
  <1>2. PICK m \in T : \A n \in T : <<n, m>> \notin R
    <2> HIDE DEF R
    <2>. QED
      BY <1>1, WFMin
  <1>3. ASSUME NEW n \in T PROVE m <= n
    <2>1. n \in Nat /\ m \in Nat /\ <<n, m>> \in Nat \X Nat
      OBVIOUS
    <2>2. ~ (n < m)
      BY <1>2, <2>1
    <2>. QED
      BY <2>1, <2>2
  <1>. QED
    BY <1>3

LEMMA RankingFound ==
  ASSUME NEW ranking \in Rankings
  PROVE  /\ IsFiniteSet(Members) /\ Cardinality(Members) \in Nat
         /\ DOMAIN ranking = 1..Cardinality(Members)
         /\ \A k \in DOMAIN ranking : ranking[k] \in Members
         /\ \A j, k \in DOMAIN ranking : ranking[j] = ranking[k] => j = k
         /\ \A p \in Members : \E k \in DOMAIN ranking : ranking[k] = p
         /\ \A j, k \in DOMAIN ranking : j < k => score[ranking[j]] >= score[ranking[k]]
  <1>1. IsFiniteSet(Members)
    BY FS_Subset, TLPlayersAssumption DEF Members
  <1>2. Cardinality(Members) \in Nat
    BY <1>1, FS_CardinalityType
  <1>3. /\ ranking \in Bijection(1..Cardinality(Members), Members)
        /\ \A j, k \in DOMAIN ranking : j < k => score[ranking[j]] >= score[ranking[k]]
    BY DEF Rankings
  <1>. QED
    BY <1>1, <1>2, <1>3 DEF Bijection, Injection, Surjection, IsInjective

\* Who comes before position k in a ranking has at least as many points, and who
\* comes later at most as many.
LEMMA BetterBefore ==
  ASSUME TypeOK, NEW ranking \in Rankings, NEW k \in DOMAIN ranking
  PROVE  /\ k = 1 => Better(ranking, k) = {}
         /\ k # 1 => /\ k - 1 \in DOMAIN ranking
                     /\ IF score[ranking[k]] = score[ranking[k - 1]]
                          THEN Better(ranking, k) = Better(ranking, k - 1)
                          ELSE Better(ranking, k) = {ranking[j] : j \in 1..(k - 1)}
  <1>1. \A p \in Members : score[p] \in Nat
    BY DEF TypeOK, Members
  <1>2. k \in Nat /\ k >= 1 /\ DOMAIN ranking = 1..Cardinality(Members)
        /\ Cardinality(Members) \in Nat
    BY RankingFound
  <1>3. \A j \in DOMAIN ranking : score[ranking[j]] \in Nat
    BY <1>1, RankingFound
  <1>4. ASSUME NEW p \in Better(ranking, k)
        PROVE  \E j \in 1..(k - 1) : p = ranking[j]
    <2>1. p \in Members /\ score[p] > score[ranking[k]]
      BY <1>4 DEF Better
    <2>2. PICK j \in DOMAIN ranking : ranking[j] = p
      BY <2>1, RankingFound
    <2>3. ~(k < j) /\ j # k
      BY <1>3, <2>1, <2>2, RankingFound
    <2>. QED
      BY <1>2, <2>2, <2>3
  <1>5. k = 1 => Better(ranking, k) = {}
    BY <1>2, <1>4
  <1>6. ASSUME k # 1
        PROVE  k - 1 \in DOMAIN ranking
    BY <1>2, <1>6
  <1>7. ASSUME k # 1, score[ranking[k]] # score[ranking[k - 1]]
        PROVE  Better(ranking, k) = {ranking[j] : j \in 1..(k - 1)}
    <2>1. k - 1 \in DOMAIN ranking /\ k - 1 < k
      BY <1>2, <1>6, <1>7
    <2>2. score[ranking[k - 1]] > score[ranking[k]]
      BY <1>3, <1>7, <2>1, RankingFound
    <2>3. ASSUME NEW j \in 1..(k - 1)
          PROVE  ranking[j] \in Better(ranking, k)
      <3>1. j \in DOMAIN ranking
        BY <1>2, <2>1
      <3>2. score[ranking[j]] >= score[ranking[k - 1]]
        <4>1. CASE j = k - 1
          BY <1>3, <3>1, <4>1
        <4>2. CASE j # k - 1
          <5>1. j < k - 1
            BY <1>2, <4>2
          <5>. QED
            BY <2>1, <3>1, <5>1, RankingFound
        <4>. QED
          BY <4>1, <4>2
      <3>3. ranking[j] \in Members
        BY <3>1, RankingFound
      <3>4. score[ranking[j]] > score[ranking[k]]
        BY <1>3, <2>1, <2>2, <3>1, <3>2
      <3>. QED
        BY <3>3, <3>4 DEF Better
    <2>. QED
      BY <1>4, <2>3
  <1>8. ASSUME score[ranking[k]] = score[ranking[k - 1]]
        PROVE  Better(ranking, k) = Better(ranking, k - 1)
    BY <1>8 DEF Better
  <1>. QED
    BY <1>5, <1>6, <1>7, <1>8

LEMMA BetterCounted ==
  ASSUME TypeOK, NEW ranking \in Rankings
  PROVE  Ranks([k \in DOMAIN ranking |-> 1 + Cardinality(Better(ranking, k))], ranking)
  <1> DEFINE h == [k \in DOMAIN ranking |-> 1 + Cardinality(Better(ranking, k))]
             step == [k \in DOMAIN ranking |->
                        IF k = 1 THEN 1
                        ELSE IF score[ranking[k]] = score[ranking[k - 1]] THEN h[k - 1] ELSE k]
  <1>1. ASSUME NEW k \in DOMAIN ranking PROVE h[k] = step[k]
    <2>1. k \in Nat /\ k >= 1 /\ DOMAIN ranking = 1..Cardinality(Members)
          /\ Cardinality(Members) \in Nat
      BY RankingFound
    <2>2. CASE k = 1
      BY <2>2, BetterBefore, FS_EmptySet
    <2>3. CASE k # 1 /\ score[ranking[k]] = score[ranking[k - 1]]
      BY <2>3, BetterBefore
    <2>4. CASE k # 1 /\ score[ranking[k]] # score[ranking[k - 1]]
      <3> DEFINE before == 1..(k - 1)
                 first == [j \in before |-> ranking[j]]
                 B == Better(ranking, k)
      <3>1. B = {ranking[j] : j \in before} /\ k - 1 \in DOMAIN ranking
        BY <2>4, BetterBefore
      <3>2. IsFiniteSet(before) /\ Cardinality(before) = k - 1
        <4>1. 1 \in Int /\ k - 1 \in Int
          BY <2>1
        <4>2. /\ IsFiniteSet(1..(k - 1))
              /\ Cardinality(1..(k - 1)) = IF 1 > k - 1 THEN 0 ELSE (k - 1) - 1 + 1
          BY <4>1, FS_Interval
        <4>. QED
          BY <2>1, <4>2
      <3>3. before \subseteq DOMAIN ranking
        BY <2>1, <3>1
      <3> HIDE DEF before, B
      <3>4. first \in Bijection(before, B)
        BY <3>1, <3>3, RankingFound DEF Bijection, Injection, Surjection, IsInjective
      <3>5. Cardinality(B) = k - 1
        BY <3>2, <3>4, FS_Bijection DEF ExistsBijection
      <3>. QED
        BY <2>1, <2>4, <3>5 DEF B
    <2>. QED
      BY <2>2, <2>3, <2>4
  <1>2. h = step
    BY <1>1
  <1>. QED
    BY <1>2 DEF Ranks

LEMMA RanksUnique ==
  ASSUME NEW ranking \in Rankings, NEW f, NEW g, Ranks(f, ranking), Ranks(g, ranking),
         NEW k \in DOMAIN ranking
  PROVE  f[k] = g[k]
  <1> DEFINE C == {n \in DOMAIN ranking : f[n] # g[n]}
  <1>1. SUFFICES ASSUME C # {} PROVE FALSE
    OBVIOUS
  <1>2. DOMAIN ranking = 1..Cardinality(Members) /\ Cardinality(Members) \in Nat
    BY RankingFound
  <1>3. PICK m \in C : \A n \in C : m <= n
    <2>1. C \subseteq Nat
      BY <1>2
    <2> HIDE DEF C
    <2>. QED
      BY <1>1, <2>1, LeastNumber
  <1>4. /\ f[m] = IF m = 1 THEN 1
                  ELSE IF score[ranking[m]] = score[ranking[m - 1]] THEN f[m - 1] ELSE m
        /\ g[m] = IF m = 1 THEN 1
                  ELSE IF score[ranking[m]] = score[ranking[m - 1]] THEN g[m - 1] ELSE m
    BY DEF Ranks
  <1>5. m # 1 => m - 1 \in DOMAIN ranking /\ ~(m <= m - 1)
    BY <1>2
  <1>6. m # 1 => f[m - 1] = g[m - 1]
    BY <1>3, <1>5
  <1>. QED
    BY <1>4, <1>6

LEMMA PositionsCount ==
  ASSUME TypeOK, NEW ranking \in Rankings, NEW k \in DOMAIN ranking
  PROVE  Positions(ranking)[k] = 1 + Cardinality(Better(ranking, k))
  <1> DEFINE h == [n \in DOMAIN ranking |-> 1 + Cardinality(Better(ranking, n))]
             f == CHOOSE p : Ranks(p, ranking)
  <1>1. Ranks(h, ranking)
    BY BetterCounted
  <1>2. h[k] = 1 + Cardinality(Better(ranking, k))
    OBVIOUS
  <1> HIDE DEF h
  <1>3. Ranks(f, ranking)
    BY <1>1
  <1>4. f = Positions(ranking)
    BY DEF Ranks, Positions
  <1> HIDE DEF f
  <1>. QED
    BY <1>1, <1>2, <1>3, <1>4, RanksUnique

\* Positions are what they are to be seen as: one more than the number of players
\* with more points, the same for all who have as many, whatever the ranking puts
\* first of those.  It holds for any number of players and any scores.
THEOREM RankingIsByPoints == Spec => []RankedByPoints
  <1>1. TypeOK => RankedByPoints
    <2> SUFFICES ASSUME TypeOK, NEW ranking \in Rankings, NEW k \in DOMAIN ranking
                 PROVE  Positions(ranking)[k]
                          = 1 + Cardinality({p \in Members : score[p] > score[ranking[k]]})
      BY DEF RankedByPoints
    <2>. QED
      BY PositionsCount DEF Better
  <1>. QED
    BY <1>1, TypeCorrect, PTL

=============================================================================
