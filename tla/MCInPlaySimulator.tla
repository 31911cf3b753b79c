------------------------- MODULE MCInPlaySimulator -------------------------
(***************************************************************************)
(* Instances of InPlaySimulator for TLC: lineups of two, a home team with  *)
(* a substitute, a player who is eligible for neither team.  Paths start   *)
(* tied or not, one or two seconds before the end, with the ball at either *)
(* team, at nobody, or at a team that does not play.                       *)
(***************************************************************************)
EXTENDS InPlaySimulator, TLC

CONSTANTS h1, h2, h3, a1, a2, x1

MCPlayer == {h1, h2, h3, a1, a2, x1}

MCEligible ==
    (Home :> {h1, h2, h3}) @@ (Away :> {a1, a2}) @@ (Stranger :> {})

From(seconds, home, away, team) ==
    [remaining |-> seconds,
     score |-> (Home :> home) @@ (Away :> away),
     possession |-> team]

MCStart ==
    {From(2, 0, 1, None), From(1, 1, 1, Away), From(0, 0, 0, Home),
     From(0, 2, 0, Home), From(2, 0, 0, Stranger)}

PlayerSymmetry == Permutations({h1, h2, h3}) \cup Permutations({a1, a2})
=============================================================================
