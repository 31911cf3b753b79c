-------------------------- MODULE MCWalkForwardJob --------------------------
(***************************************************************************)
(* Two processes; one game, in its last period when the first starts.      *)
(* MCPhases are statuses game_is_final knows, MCQuarters also one of those *)
(* collector.py:20 lists for games in progress.                            *)
(***************************************************************************)
EXTENDS WalkForwardJob

Row(status, period) == [status |-> status, period |-> period]

MCGames == 1 .. 1
MCMatched == {1}
MCPhases == <<Row("scheduled", 0), Row("in", 4), Row("live", 5), Row("final/ot", 5)>>
MCQuarters == <<Row("scheduled", 0), Row("in", 1), Row("q4", 4), Row("post", 4)>>
MCStarted == <<3>>
MCBlank == {<<"stats", 1, {"data", "meta"}>>}
=============================================================================
