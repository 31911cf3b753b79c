------------------------------ MODULE EventLog ------------------------------
(***************************************************************************)
(* The event log of a game and what replaying it must give                 *)
(* (wnba_inplay/replay.py).                                                *)
(*                                                                         *)
(* write_jsonl stores a game's events in order and replay folds them, from *)
(* a fresh engine, into a state.  log is that file: the bodies of the      *)
(* events the engine accepted.  The reducer of StateEngine updates its     *)
(* state one event at a time; the properties below say, without any        *)
(* reference to that reduction, what each part of the state must be as a   *)
(* function of the whole log.                                              *)
(***************************************************************************)
EXTENDS StateEngine, FiniteSetsExt

VARIABLE log

LogInit == Init /\ log = << >>

\* replay's loop body: the engine accepts the next event of the file.
Applied(v, b) == Apply(v, b) /\ log' = Append(log, b)

LogNext == \E v \in Envelope, b \in Body : Applied(v, b)

LogSpec == LogInit /\ [][LogNext]_<<vars, log>>

-----------------------------------------------------------------------------
(***************************************************************************)
(* Reading the log.                                                        *)
(***************************************************************************)
Entries(kind) == {i \in 1 .. Len(log) : log[i].kind = kind}

Latest(S) == IF S = {} THEN 0 ELSE Max(S)

\* The game_started that set up the players, 0 before the first one.
StartEntry == Latest(Entries("game_started"))

\* The roster in force when entry i was applied.
StartBefore(i) == Latest({s \in Entries("game_started") : s < i})
FinalBefore(i) == Latest({f \in Entries("game_final") : f < i})
TeamAt(i, p) == log[StartBefore(i)].players[p].team_id

\* The last game_final, 0 before the first one.
FinalEntry == Latest(Entries("game_final"))

\* The clock event that opened the current period, 0 in the first period.
PeriodEntry ==
    IF period = 1 THEN 0
    ELSE Min({i \in Entries("clock") : log[i].period = period})

\* The points and the deltas of entries S of a log.
Points(entries, S) == SumFunctionOnSet([i \in S |-> entries[i].points], S)
Deltas(entries, S) == SumFunctionOnSet([i \in S |-> entries[i].delta], S)

\* The last official correction of a team's score, 0 if there was none, and
\* the baskets of the team since.
Corrected(t) == Latest({i \in Entries("official_correction") : log[i].side = t})
ScoredFor(t) == {i \in Entries("score") : i > Corrected(t) /\ log[i].team_id = t}

\* The fouls of a team in the current period.
FoulsOf(t) ==
    {i \in Entries("foul") :
        i > PeriodEntry /\ TeamAt(i, log[i].player_id) = t}

\* What a player did, and what was credited to him, since the last start.
Since(kind, p) ==
    {i \in Entries(kind) : i > StartEntry /\ log[i].player_id = p}
Threes(p) == {i \in Since("score", p) : log[i].points = 3}
Credits(p, stat) == {i \in Since("stat", p) : log[i].stat = stat}

\* The substitutions since the last start.
Subs == {i \in Entries("substitution") : i > StartEntry}
MovedIn(p) == Latest({i \in Subs : log[i].player_in = p})
MovedOut(p) == Latest({i \in Subs : log[i].player_out = p})

(***************************************************************************)
(* Properties.                                                             *)
(***************************************************************************)

\* A team's score is its last official correction plus the points scored for
\* it since: no restart of the game, no period change and no event of the
\* other team moves it (state_engine.py:136-152, 220-231).
ScoreIsReplay ==
    \A t \in Team :
        score[t] = (IF Corrected(t) = 0 THEN 0 ELSE log[Corrected(t)].value)
                   + Points(log, ScoredFor(t))

\* A game that was called final counts nothing more until it is started anew,
\* which the reducer allows: the status says "in_progress" exactly when the last
\* start is later than the last game_final, and every other event of the log
\* found it so.  With ScoreIsReplay, the final score moves only in a game that
\* was reopened by a game_started (state_engine.py:93-112, 233).
PlayedWhileRunning ==
    /\ status = "in_progress" <=> StartEntry > FinalEntry
    /\ \A i \in 1 .. Len(log) :
          log[i].kind \notin {"game_started", "game_final"} =>
              StartBefore(i) > FinalBefore(i)

\* A team's foul count is the number of fouls of its players since the current
\* period opened, overtime included, whichever roster the fouls were called
\* under (state_engine.py:128, 162).
FoulsAreThisPeriods == \A t \in Team : team_fouls[t] = Cardinality(FoulsOf(t))

\* A player's box score holds exactly what was credited to him since the last
\* game_started: the points of his baskets and the deltas of stat events.
BoxScoreIsReplay ==
    \A p \in DOMAIN players :
        /\ box[p]["points"] = Points(log, Since("score", p)) + Deltas(log, Credits(p, "points"))
        /\ box[p]["threes"] = Cardinality(Threes(p))
                              + Deltas(log, Credits(p, "threes"))
        /\ box[p]["fouls"] = Cardinality(Since("foul", p)) + Deltas(log, Credits(p, "fouls"))

\* A team's lineup is its starters with the substitutions since the last
\* game_started applied in order: a player is in it exactly when the last
\* entry that moved him moved him in.
LineupIsReplay ==
    status # "scheduled" /\ StartEntry # 0 =>
        \A p \in DOMAIN players :
            InLineup(p) <=>
                \/ MovedIn(p) > MovedOut(p)
                \/ /\ MovedIn(p) = 0 /\ MovedOut(p) = 0
                   /\ p \in log[StartEntry].home_lineup \cup log[StartEntry].away_lineup

\* Once a player was removed by injury he is in no lineup until a new
\* game_started rebuilds the roster, even after a later report calls him
\* healthy again (state_engine.py:215-217).
RemovedStaysOut ==
    \A i \in Entries("injury") :
        log[i].injury_state = "removed" /\ i > StartEntry
            => ~ InLineup(log[i].player_id)
=============================================================================
