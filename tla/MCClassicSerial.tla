-------------------------- MODULE MCClassicSerial --------------------------
(* ClassicSerial for TLC, with few ballots over all the rounds.            *)
EXTENDS ClassicSerial, TLC

CONSTANTS MaxStories, MaxVotes

FewBallots == Len(stories) <= MaxStories /\ Len(votes) <= MaxVotes

Symmetry == Permutations(Players)

=============================================================================
