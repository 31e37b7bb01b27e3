-------------------------- MODULE MCThreeLiesSync --------------------------
(* ThreeLiesSync for TLC: everything that has no name of its own is         *)
(* interchangeable, and a burst finds a game nobody has left or paused.     *)
EXTENDS ThreeLiesSync

Symmetry == Permutations(Players) \cup Permutations(Statements) \cup Permutations(Workers)

\* No phase of a game is ended more than one unit of time late, no pause is
\* longer, and neither a room that somebody has left nor a long first round is
\* of any interest.
Brisk ==
  /\ room.status = "waiting" => now = 0
  /\ Members = Players \/ now <= 4
  /\ Len(rounds) = 1 => now <= IF arrived = 0 THEN 6 ELSE 5
  /\ room.status \in {"active", "paused"} =>
       \A i \in DOMAIN rounds :
         /\ rounds[i].phaseEndsAt # NoTime /\ rounds[i].pausedAt = NoTime =>
              now <= rounds[i].phaseEndsAt + 1
         /\ rounds[i].pausedAt # NoTime => now <= rounds[i].pausedAt + 1 /\ now <= 4
         /\ i > 1 /\ rounds[i].status = "writing" => now <= 6

\* Before the burst everybody writes, and votes for, the same statement.
OneTruth ==
  arrived = 0 => Cardinality({sets[s].truth : s \in DOMAIN sets} \cup {v.choice : v \in votes}) <= 1

InPlay ==
  arrived > 0 =>
    /\ rounds # <<>> /\ Members = Players /\ room.status # "paused" /\ now <= room.expiresAt
    /\ \A i \in DOMAIN rounds :
         rounds[i].pausedAt = NoTime /\ (i > 1 => rounds[i].status \in {"writing", "commentary", "finished"})

\* Of the phases after the writing of the last round only the end of the
\* commentary sees a burst, and one truth set a round leads there.
Finale ==
  \A i \in DOMAIN rounds :
    i > 1 /\ rounds[i].status # "writing" =>
      /\ Len(rounds) = 2 /\ Len(sets) = 2 /\ votes = {} /\ Members = Players
      /\ rounds[i].pausedAt = NoTime
      /\ rounds[i].status \in {"presentation_voting", "reveal"} => now <= rounds[i].phaseEndsAt
      /\ arrived > 0 /\ rounds[i].status = "commentary" => now = rounds[i].phaseEndsAt

\* A submission of the burst that could not but be refused is no more than a "get".
Meant ==
  arrived > 0 =>
    \A w \in Workers :
      req[w] # Idle /\ req[w].todo = Calls(req[w].op) =>
        /\ req[w].op = "write" => rounds[req[w].at].status = "writing"
        /\ req[w].op = "vote"  => rounds[req[w].at].status = "presentation_voting"

=============================================================================
