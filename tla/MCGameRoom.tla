---------------------------- MODULE MCGameRoom ----------------------------
(* GameRoom for TLC: states that differ in the times at which classic       *)
(* rounds have started count as one.  Nothing reads these times, neither an *)
(* action nor a property nor the fairness, so what can follow is the same.  *)
EXTENDS GameRoom

ButStamps ==
  <<now, room, user, postgres, gameType, stories, ballots, sets, guesses, score,
    IF gameType = "tell-your-story"
      THEN [i \in DOMAIN rounds |-> [rounds[i] EXCEPT !.startedAt = 0]]
      ELSE rounds>>

=============================================================================
