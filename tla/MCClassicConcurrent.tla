------------------------ MODULE MCClassicConcurrent ------------------------
(* ClassicConcurrent for TLC: interchangeable players and workers, and few  *)
(* ballots over all the rounds.                                            *)
EXTENDS ClassicConcurrent, TLC

CONSTANTS MaxStories, MaxVotes

FewBallots == Len(stories) <= MaxStories /\ Len(votes) <= MaxVotes

Symmetry == Permutations(Players) \cup Permutations(Workers)

\* A long burst of a host who is alone ...
HostAlone ==
  /\ \A p \in Players : user[p] # "absent" => p = room.hostID
  /\ stories = <<>>
  /\ \A w \in Workers : req[w].op \in {"none"} \cup HostOps

\* ... or a short one of several players in the first round, who have written
\* nothing before.
FirstRoundAtOnce ==
  /\ now = 0 /\ Len(rounds) <= 1 /\ arrived <= 3
  /\ arrived = 0 => stories = <<>>

LongOrWide == HostAlone \/ FirstRoundAtOnce

=============================================================================
