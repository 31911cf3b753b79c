-------------------------- MODULE MCLiveReference --------------------------
(***************************************************************************)
(* Three books on a handicap of half a point with a total, and a richer    *)
(* board with a prop and a book that quotes one side or the other sign.    *)
(***************************************************************************)
EXTENDS LiveReference

Quote(book, market, side, line, player) ==
    [book |-> book, market |-> market, side |-> side, line |-> line, player |-> player]

Spread(book, home) == {Quote(book, "spreads", "home", home, None),
                       Quote(book, "spreads", "away", -home, None)}
TotalPair(book, line) == {Quote(book, "totals", s, line, None) : s \in Tellable}

MCBoard ==
    {Spread("A", -2) \cup Spread("B", -2) \cup TotalPair("A", 3),
     Spread("A", -2) \cup Spread("B", 2) \cup Spread("C", -2)
         \cup {Quote("D", "spreads", "home", -2, None)},
     {Quote("A", "h2h", s, None, None) : s \in {"home", "away"}}
         \cup {Quote("B", "player_points", s, 1, "p") : s \in Tellable}
         \cup {Quote("C", "player_points", "over", 1, "p")}}

MCGame == {[period |-> 1, clock |-> 2, age |-> 2], [period |-> 4, clock |-> 0, age |-> 0],
           [period |-> 5, clock |-> 1, age |-> 0], [period |-> 3, clock |-> 2, age |-> 3]}

Listed(n, m) == [players |-> n, repeats |-> m]
MCRows == [home : {Listed(1, 0), Listed(2, 0), Listed(4, 0), Listed(1, 1)},
           away : {Listed(1, 0), Listed(3, 0)}, named : {{"p"}, {}}]

MCRemaining == {None} \cup 0 .. 5 * PeriodLength
=============================================================================
