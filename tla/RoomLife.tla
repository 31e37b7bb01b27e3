------------------------------ MODULE RoomLife ------------------------------
(***************************************************************************)
(* The life of a room, whatever is played in it.  Players wait for the     *)
(* host to start; rounds are opened one by one while the room plays; the   *)
(* host may interrupt it; the game is over after the last round, or when   *)
(* the host leaves, or when the room expires, and over for good.           *)
(*                                                                         *)
(* ClassicRoom and ThreeLiesRoom both implement this, requests being       *)
(* served whole.                                                           *)
(***************************************************************************)
EXTENDS Naturals, TLAPS

CONSTANT MaxRounds

VARIABLES
  status,  \* of the room
  opened,  \* number of rounds opened so far
  hosted   \* whether the host is in the room

life == <<status, opened, hosted>>

Over == {"finished", "expired"}

Init == status = "none" /\ opened = 0 /\ hosted = FALSE

Create ==
  /\ status = "none"
  /\ status' = "waiting" /\ hosted' = TRUE
  /\ UNCHANGED opened

Start ==
  /\ hosted /\ status = "waiting"
  /\ status' = "active" /\ opened' = 1
  /\ UNCHANGED hosted

Pause ==
  /\ hosted /\ status = "active"
  /\ status' = "paused"
  /\ UNCHANGED <<opened, hosted>>

\* A pause may end with the next round: by the host's "next", or because the
\* last phase of a round was due when the pause began.
Resume ==
  /\ hosted /\ status = "paused"
  /\ status' = "active" /\ opened' \in {opened, opened + 1} \cap (1..MaxRounds)
  /\ UNCHANGED hosted

OpenNext ==
  /\ hosted /\ status = "active" /\ opened < MaxRounds
  /\ opened' = opened + 1
  /\ UNCHANGED <<status, hosted>>

Finish ==
  /\ hosted /\ status \in {"active", "paused"} /\ opened = MaxRounds
  /\ status' = "finished"
  /\ UNCHANGED <<opened, hosted>>

\* The host leaves, or the last of the others after the host.
Close ==
  /\ status # "none"
  /\ status' \in Over /\ hosted' = FALSE
  /\ UNCHANGED opened

Expire ==
  /\ status # "none"
  /\ status' = "expired"
  /\ UNCHANGED <<opened, hosted>>

Next == Create \/ Start \/ Pause \/ Resume \/ OpenNext \/ Finish \/ Close \/ Expire

Spec == Init /\ [][Next]_life

-----------------------------------------------------------------------------
(* What follows from it.                                                   *)

\* A room without its host plays no more.
NeedsItsHost == status \in {"waiting", "active", "paused"} => hosted

\* No more than MaxRounds rounds are opened, and a room that plays has one.
RoundsBounded ==
  /\ opened \in 0..MaxRounds
  /\ status \in {"active", "paused"} => opened > 0

\* Once the room is over it stays so, and no round is opened any more.
OverForGood == [][(status \in Over) => status' \in Over /\ opened' = opened]_life

-----------------------------------------------------------------------------
(* What every game that implements this may count on, for any number of    *)
(* rounds.                                                                 *)

Statuses == {"none", "waiting", "active", "paused"} \cup Over

LifeInv ==
  /\ status \in Statuses /\ opened \in 0..MaxRounds
  /\ NeedsItsHost
  /\ status \in {"active", "paused"} => opened > 0

LEMMA LifeInvariance ==
  ASSUME MaxRounds \in Nat \ {0}
  PROVE  Spec => []LifeInv
  <1>1. Init => LifeInv
    BY DEF Init, LifeInv, Statuses, NeedsItsHost
  <1>2. ASSUME LifeInv, [Next]_life
        PROVE  LifeInv'
    <2> USE DEF LifeInv, Statuses, NeedsItsHost, Over
    <2>1. CASE Create
      BY <1>2, <2>1 DEF Create
    <2>2. CASE Start
      BY <1>2, <2>2 DEF Start
    <2>3. CASE Pause
      BY <1>2, <2>3 DEF Pause
    <2>4. CASE Resume
      BY <1>2, <2>4 DEF Resume
    <2>5. CASE OpenNext
      BY <1>2, <2>5 DEF OpenNext
    <2>6. CASE Finish
      BY <1>2, <2>6 DEF Finish
    <2>7. CASE Close
      BY <1>2, <2>7 DEF Close
    <2>8. CASE Expire
      BY <1>2, <2>8 DEF Expire
    <2>9. CASE UNCHANGED life
      BY <1>2, <2>9 DEF life
    <2>. QED
      BY <1>2, <2>1, <2>2, <2>3, <2>4, <2>5, <2>6, <2>7, <2>8, <2>9 DEF Next
  <1>. QED
    BY <1>1, <1>2, PTL DEF Spec

\* A room waits, plays or pauses only while its host is there.
THEOREM HostIsNeeded ==
  ASSUME MaxRounds \in Nat \ {0}
  PROVE  Spec => []NeedsItsHost
  <1>1. LifeInv => NeedsItsHost
    BY DEF LifeInv
  <1>. QED
    BY <1>1, LifeInvariance, PTL

\* At most MaxRounds rounds are opened, and a room that plays has one.
THEOREM RoundsStayBounded ==
  ASSUME MaxRounds \in Nat \ {0}
  PROVE  Spec => []RoundsBounded
  <1>1. LifeInv => RoundsBounded
    BY DEF LifeInv, RoundsBounded
  <1>. QED
    BY <1>1, LifeInvariance, PTL

\* A room that is over never plays again.
THEOREM OverStaysOver == Spec => OverForGood
  <1>1. ASSUME [Next]_life
        PROVE  [(status \in Over) => status' \in Over /\ opened' = opened]_life
    BY <1>1 DEF life, Over, Next, Create, Start, Pause, Resume, OpenNext, Finish, Close, Expire
  <1>. QED
    BY <1>1, PTL DEF Spec, OverForGood

=============================================================================
