----------------------------- MODULE MCEventLog -----------------------------
(***************************************************************************)
(* An instance of EventLog.  Two players play for each team, the home team *)
(* has one substitute, and one rostered player belongs to no team of the   *)
(* game.  The feed numbers its events in order, so that every path of      *)
(* accepted events of the given length is one log; beside the third event  *)
(* it may send careless ones, which the reducer must refuse.               *)
(***************************************************************************)
EXTENDS EventLog, TLC

CONSTANTS
    MaxSequence,   \* length of the longest log
    h1, h2, h3, a1, a2, x1

MCPlayer == {h1, h2, h3, a1, a2, x1}
MCStat == {"points", "threes", "fouls"}

\* The envelope of event i; of every two events one is later than the one before.
Sent(i) == [event_id |-> i, game_id |-> GameId, sequence |-> i,
            source |-> i \div 2, received |-> i \div 2]

\* What a careless feed may make of an envelope: a used or an empty id, another
\* game, a gap, no number, a time that falls, times that cross.
Careless(v) ==
    {[v EXCEPT !.event_id = id] : id \in {1, None}}
    \cup {[v EXCEPT !.sequence = n] : n \in {0, MaxSequence + 2}}
    \cup {[v EXCEPT !.game_id = OtherGame], [v EXCEPT !.source = v.received + 1]}
    \cup {[v EXCEPT !.source = 0, !.received = 0]}

MCEnvelope == {Sent(i) : i \in 1 .. MaxSequence} \cup Careless(Sent(3))

Entry(team) == [team_id |-> team, active |-> TRUE]

Roster == (h1 :> Entry(Home)) @@ (h2 :> Entry(Home)) @@ (h3 :> Entry(Home))
          @@ (a1 :> Entry(Away)) @@ (a2 :> Entry(Away)) @@ (x1 :> Entry(Stranger))

\* h2 has changed sides in this roster.
OtherRoster == [Roster EXCEPT ![h2] = Entry(Away)]

Without(p) == [Roster EXCEPT ![p].active = FALSE]

Started(roster, home, away) ==
    [kind |-> "game_started", players |-> roster, home_lineup |-> home,
     away_lineup |-> away, possession_team |-> None]

\* Legal starts, and starts the reducer must refuse: an inactive starter, a
\* player in two lineups, a short lineup.
Starts ==
    {Started(Roster, {h1, h2}, {a1, a2}),
     Started(OtherRoster, {h1, h3}, {a1, h2}),
     Started(Without(h3), {h1, h2}, {a1, a2}),
     Started(Without(h1), {h1, h2}, {a1, a2}),
     Started(Roster, {h1, a1}, {a1, a2}),
     Started(Roster, {h1}, {a1, a2})}

MCBody ==
    Starts
    \cup [kind : {"substitution"}, team_id : {Home, Stranger},
          player_out : {h1, h2, h3, x1}, player_in : {h2, h3, a1}]
    \cup [kind : {"injury"}, player_id : {h2, h3},
          injury_state : {"healthy", "removed", "unheard_of"}]
    \cup [kind : {"foul"}, player_id : {h2, a1, x1}]
    \cup [kind : {"clock"}, period : 1 .. 3, clock_seconds : {1},
          official_correction : {FALSE}]
    \cup [kind : {"clock"}, period : {1, 2}, clock_seconds : {3},
          official_correction : {TRUE}]
    \cup [kind : {"score"}, team_id : {Home, Stranger}, points : {0, 3},
          player_id : {h2}]
    \cup [kind : {"score"}, team_id : {Home}, points : {2}, player_id : {None}]
    \cup [kind : {"stat"}, player_id : {h2}, stat : {"threes", "height"}, delta : {-1}]
    \cup [kind : {"timeout"}, team_id : {Away, Stranger}]
    \cup [kind : {"possession"}, team_id : {Away, Stranger}]
    \cup [kind : {"official_correction"}, side : {Home, None}, value : {-1, 1}]
    \cup FinalBody
=============================================================================
