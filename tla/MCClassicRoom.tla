-------------------------- MODULE MCClassicRoom ---------------------------
(* ClassicRoom for TLC: the players are interchangeable, a third one is     *)
(* there for a short game of one round only, and a game of two rounds has   *)
(* four ballots at most.                                                  *)
EXTENDS ClassicRoom, TLC

Symmetry == Permutations(Players)

ThirdPlaysOneRound ==
  Cardinality({p \in Players : user[p] # "absent"}) <= 2 \/ (Len(rounds) <= 1 /\ now <= 2)

FewBallots == Len(rounds) <= 1 \/ Len(stories) + Len(votes) <= 4

\* When a round has started decides which of two rounds with one number the
\* database finds first: no operation of ClassicRoom reads it.
Unstamped == [i \in DOMAIN rounds |-> [rounds[i] EXCEPT !.startedAt = 0]]

ButStamps == <<now, room, user, Unstamped, stories, votes>>

=============================================================================
