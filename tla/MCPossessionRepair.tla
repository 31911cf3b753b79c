------------------------- MODULE MCPossessionRepair -------------------------
(***************************************************************************)
(* Four games of three teams.  Every team has four players; y3 may miss    *)
(* the first game, x3 is traded from X to Y before the third.              *)
(***************************************************************************)
EXTENDS PossessionRepair

MCHome == <<"X", "Y", "X", "X">>
MCAway == <<"Y", "Z", "Y", "Y">>
MCDate == <<1, 2, 3, 4>>
MCSeasons == {<<1, 2, 2, 3>>, <<1, 1, 2, 2>>}

Squad == [X |-> {"x1", "x2", "x3", "x4"}, Y |-> {"y1", "y2", "y3", "y4"},
          Z |-> {"z1", "z2", "z3", "z4"}]

MCFinals(g) ==
    LET squads == Squad[MCHome[g]] \cup Squad[MCAway[g]]
        team(p) == IF p = "x3" /\ g >= 3 THEN "Y"
                   ELSE CHOOSE t \in {"X", "Y", "Z"} : p \in Squad[t]
    IN  {[p \in squads \ out |-> team(p)] : out \in IF g = 1 THEN {{}, {"y3"}} ELSE {{}}}

MCBoxes == {{}, {"x1", "x2"}, {"x1", "x2", "x3", "y1", "y2", "y4"}}

MCScore == {[margin |-> -2, total |-> 4, points |-> 2], [margin |-> 2, total |-> 6, points |-> 0]}

Offer(market, name, player, line) ==
    [market |-> market, name |-> name, player |-> player, line |-> line]

GameBoard == {Offer("spreads", "home", None, -2), Offer("spreads", "away", None, 2),
              Offer("totals", "over", None, 5), Offer("h2h", "away", None, None)}
LaterBoard == {Offer("spreads", "away", None, 3), Offer("h2h", "home", None, None)}
              \cup {Offer("player_points", n, "y3", 1) : n \in {"over", "under"}}
MCBoard == {GameBoard, LaterBoard}
=============================================================================
