-------------------------- MODULE MCThreeLiesRoom --------------------------
(* ThreeLiesRoom for TLC: the players are interchangeable, and so are the   *)
(* statements.                                                             *)
EXTENDS ThreeLiesRoom, TLC

Symmetry == Permutations(Players) \cup Permutations(Statements)

\* A third player is there for a game of one round in which nobody is late or
\* makes a pause, and in which two write, or all three and nobody votes.
ThirdPlaysOneRound ==
  Cardinality({p \in Players : user[p] # "absent"}) = 3 =>
    /\ Len(rounds) <= 1
    /\ Len(sets) <= 2 \/ votes = {}
    /\ room.status # "paused"
    /\ room.status = "waiting" => now = 0
    /\ \A i \in DOMAIN rounds : rounds[i].phaseEndsAt # NoTime => now <= rounds[i].phaseEndsAt

=============================================================================
