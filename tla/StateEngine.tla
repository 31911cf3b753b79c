---------------------------- MODULE StateEngine ----------------------------
(***************************************************************************)
(* The authoritative game-state reducer of wnba_inplay/state_engine.py.    *)
(*                                                                         *)
(* StateEngine.apply checks the envelope of an event, reduces the event    *)
(* into a deep copy of the game state, validates the copy, and only then   *)
(* installs it and extends the history.  Here an accepted event is one     *)
(* step: the action of its kind computes the candidate in the primed       *)
(* variables, and ValidState' is the validation of that candidate.  An     *)
(* event the code rejects (every exception apply lets out) enables no      *)
(* action: the engine stutters.                                            *)
(*                                                                         *)
(* Abstracted: a lineup is the set of its players (five entries, all       *)
(* different, is a set of LineupSize players); the state fingerprint kept  *)
(* in the history is a digest of the state and is left out; a payload the  *)
(* code cannot convert (a missing key, text that is no number) is an event *)
(* that enables no action.                                                 *)
(***************************************************************************)
EXTENDS Integers, FiniteSets, Sequences

CONSTANTS
    Home, Away,          \* the two teams of GameConfig
    Stranger,            \* any other team id a payload can name
    None,                \* Python's None
    GameId, OtherGame,   \* the game this engine reduces, and any other
    EventId,             \* event ids; None stands for the empty string
    Player,              \* player ids
    Stat,                \* the fields of PlayerStats
    LineupSize,          \* 5 in the code
    InitialTimeouts,     \* 5 in the code
    RegulationPeriods,   \* 4 in the code
    RegulationSeconds,   \* 600 in the code
    OvertimeSeconds,     \* 300 in the code
    Envelope,            \* the envelopes the feed may put on an event
    Body                 \* the event types and payloads the feed may send

Team == {Home, Away}

InjuryState == {"healthy", "minor_limitation", "material_limitation",
                "probable_removal", "removed"}

(***************************************************************************)
(* Events.  An envelope is what GameEvent carries around every payload; a  *)
(* body is the event type with its payload.                                *)
(***************************************************************************)
EnvelopeType ==
    [event_id : EventId \cup {None}, game_id : {GameId, OtherGame, None},
     sequence : Int, source : Int, received : Int]

RosterEntry == [team_id : Team \cup {Stranger}, active : BOOLEAN]

GameStartedBody ==
    [kind : {"game_started"},
     players : UNION {[S -> RosterEntry] : S \in SUBSET Player},
     home_lineup : SUBSET Player, away_lineup : SUBSET Player,
     possession_team : Team \cup {Stranger, None}]
ClockBody ==
    [kind : {"clock"}, period : Int, clock_seconds : Int,
     official_correction : BOOLEAN]
ScoreBody ==
    [kind : {"score"}, team_id : Team \cup {Stranger}, points : Int,
     player_id : Player \cup {None}]
StatBody == [kind : {"stat"}, player_id : Player, stat : STRING, delta : Int]
FoulBody == [kind : {"foul"}, player_id : Player]
TimeoutBody == [kind : {"timeout"}, team_id : Team \cup {Stranger}]
PossessionBody == [kind : {"possession"}, team_id : Team \cup {Stranger}]
SubstitutionBody ==
    [kind : {"substitution"}, team_id : Team \cup {Stranger},
     player_out : Player, player_in : Player]
InjuryBody == [kind : {"injury"}, player_id : Player, injury_state : STRING]
CorrectionBody ==
    [kind : {"official_correction"}, side : Team \cup {None}, value : Int]
FinalBody == [kind : {"game_final"}]

BodyType ==
    GameStartedBody \cup ClockBody \cup ScoreBody \cup StatBody \cup FoulBody
    \cup TimeoutBody \cup PossessionBody \cup SubstitutionBody
    \cup InjuryBody \cup CorrectionBody \cup FinalBody

ASSUME TeamsDiffer == Home # Away /\ Stranger \notin Team /\ None \notin Team
ASSUME StatsKept == {"points", "threes", "fouls"} \subseteq Stat
ASSUME NoneIsNothingElse == None \notin Player /\ GameId \notin {OtherGame, None}
ASSUME GameShape ==
    /\ LineupSize \in Nat \ {0}
    /\ InitialTimeouts \in Nat
    /\ RegulationPeriods \in Nat \ {0}
    /\ RegulationSeconds \in Nat
    /\ OvertimeSeconds \in Nat
ASSUME EventsWellFormed ==
    /\ Envelope \subseteq EnvelopeType
    /\ Body \subseteq BodyType

VARIABLES
    status,        \* GameState.status
    sequence,      \* GameState.sequence, the last event applied
    period,        \* GameState.period
    clock,         \* GameState.clock_seconds
    score,         \* GameState.home_score and away_score
    possession,    \* GameState.possession_team
    lineup,        \* GameState.home_lineup and away_lineup
    team_fouls,    \* GameState.team_fouls
    timeouts,      \* GameState.timeouts
    players,       \* GameState.players, without
    box,           \* the stats of each player
    last_source,   \* GameState.last_source_timestamp_ms
    last_received, \* GameState.last_received_timestamp_ms
    seen,          \* StateEngine._seen_event_ids
    history        \* StateEngine._history

court == <<lineup, players, box>>
board == <<period, clock, score, team_fouls, timeouts, possession>>
book == <<sequence, last_source, last_received, seen, history>>
vars == <<status, sequence, period, clock, score, possession, lineup,
          team_fouls, timeouts, players, box, last_source, last_received,
          seen, history>>

PlayerState ==
    [team_id : Team \cup {Stranger}, active : BOOLEAN, on_court : BOOLEAN,
     injury_state : InjuryState]

PeriodLength(p) ==
    IF p <= RegulationPeriods THEN RegulationSeconds ELSE OvertimeSeconds

InLineup(p) == p \in lineup[Home] \cup lineup[Away]

(***************************************************************************)
(* _validate_lineup and _validate_state, on the candidate.                 *)
(***************************************************************************)
ValidLineup(team) ==
    /\ Cardinality(lineup[team]) = LineupSize
    /\ lineup[team] \subseteq DOMAIN players
    /\ \A p \in lineup[team] :
          players[p].team_id = team /\ players[p].active

\* MUTANT of ValidState: only the events that move the scoreboard revalidated.
ValidStateBoardOnly ==
    /\ \A t \in Team : score[t] >= 0
    /\ period > 0
    /\ clock \in 0 .. PeriodLength(period)

ValidState ==
    /\ \A t \in Team : score[t] >= 0
    /\ period > 0
    /\ clock \in 0 .. PeriodLength(period)
    /\ status = "in_progress" => \A t \in Team : ValidLineup(t)

(***************************************************************************)
(* GameEvent.validate and _validate_envelope.                              *)
(***************************************************************************)
\* MUTANT of Accepts: the expected sequence is only a lower bound, so a gap in
\* the feed passes.
AcceptsGaps(v) ==
    /\ v.event_id # None
    /\ v.sequence > sequence
    /\ v.source >= 0 /\ v.received >= v.source
    /\ v.game_id = GameId
    /\ v.event_id \notin seen
    /\ v.source >= last_source

\* MUTANT of Accepts: the check against the seen event ids is dropped.
AcceptsDuplicates(v) ==
    /\ v.event_id # None
    /\ v.source >= 0 /\ v.received >= v.source
    /\ v.game_id = GameId
    /\ v.sequence = sequence + 1
    /\ v.source >= last_source

Accepts(v) ==
    /\ v.event_id # None
    /\ v.sequence > 0
    /\ v.source >= 0 /\ v.received >= v.source
    /\ v.game_id = GameId
    /\ v.event_id \notin seen
    /\ v.sequence = sequence + 1
    /\ v.source >= last_source

(***************************************************************************)
(* The tail of apply: the candidate passes validation and is installed     *)
(* with the envelope's sequence and timestamps.                            *)
(***************************************************************************)
Commit(v) ==
    /\ ValidState'
    /\ sequence' = v.sequence
    /\ last_source' = v.source
    /\ last_received' = v.received
    /\ seen' = seen \cup {v.event_id}
    /\ history' = Append(history, [event_id |-> v.event_id,
                                   sequence |-> v.sequence])

(***************************************************************************)
(* _reduce, one action per event type.                                     *)
(***************************************************************************)

\* MUTANT of FreshBox: a player who is already known keeps his old stats.
FreshBoxKept(roster) ==
    [p \in DOMAIN roster |->
        IF p \in DOMAIN box THEN box[p] ELSE [s \in Stat |-> 0]]

FreshBox(roster) == [p \in DOMAIN roster |-> [s \in Stat |-> 0]]

\* Accepted in any status: a second game_started rebuilds the players and the
\* lineups and leaves the scoreboard as it is.
GameStarted(b) ==
    /\ b.kind = "game_started"
    /\ b.home_lineup \cup b.away_lineup \subseteq DOMAIN b.players
    /\ players' = [p \in DOMAIN b.players |->
                      [team_id |-> b.players[p].team_id,
                       active |-> b.players[p].active,
                       on_court |-> p \in b.home_lineup \cup b.away_lineup,
                       injury_state |-> "healthy"]]
    /\ box' = FreshBox(b.players)
    /\ lineup' = [t \in Team |-> IF t = Home THEN b.home_lineup
                                             ELSE b.away_lineup]
    /\ possession' = b.possession_team
    /\ status' = "in_progress"
    /\ UNCHANGED <<period, clock, score, team_fouls, timeouts>>

\* MUTANT of Playing: only a game that has not started refuses events.
PlayingOrFinal == status # "scheduled"

\* Every other event type but game_final needs a game in progress.
Playing == status = "in_progress"

\* MUTANT of FoulsIn: overtime is played on with the fouls of regulation.
FoulsInRegulation(p) ==
    IF p > period /\ p <= RegulationPeriods THEN [t \in Team |-> 0]
                                            ELSE team_fouls

\* A new period wipes the team fouls.
FoulsIn(p) == IF p > period THEN [t \in Team |-> 0] ELSE team_fouls

ClockSet(b) ==
    /\ b.kind = "clock"
    /\ Playing
    /\ b.period \in {period, period + 1}
    /\ b.period = period => b.clock_seconds <= clock \/ b.official_correction
    /\ period' = b.period
    /\ clock' = b.clock_seconds
    /\ team_fouls' = FoulsIn(b.period)
    /\ UNCHANGED <<status, score, timeouts, possession, court>>

\* PlayerStats.apply, on the stats of one player.
Credited(stats, stat, delta) == [stats EXCEPT ![stat] = stats[stat] + delta]

\* The points of a basket, and the three-pointer it may count as.
Basket(stats, points) ==
    LET scored == Credited(stats, "points", points)
    IN  IF points = 3 THEN Credited(scored, "threes", 1) ELSE scored

Score(b) ==
    /\ b.kind = "score"
    /\ Playing
    /\ b.points \in {1, 2, 3}
    /\ b.team_id \in Team
    /\ b.player_id \in DOMAIN players \cup {None}
    /\ score' = [score EXCEPT ![b.team_id] = @ + b.points]
    /\ box' = IF b.player_id = None THEN box
               ELSE [box EXCEPT ![b.player_id] = Basket(@, b.points)]
    /\ UNCHANGED <<status, period, clock, team_fouls, timeouts, possession,
                   lineup, players>>

StatEvent(b) ==
    /\ b.kind = "stat"
    /\ Playing
    /\ b.player_id \in DOMAIN players
    /\ b.stat \in Stat
    /\ box[b.player_id][b.stat] + b.delta >= 0
    /\ box' = [box EXCEPT ![b.player_id] = Credited(@, b.stat, b.delta)]
    /\ UNCHANGED <<status, board, lineup, players>>

\* team_fouls has no entry for a team outside the game: such a foul is a
\* KeyError.
Foul(b) ==
    /\ b.kind = "foul"
    /\ Playing
    /\ b.player_id \in DOMAIN players
    /\ players[b.player_id].team_id \in Team
    /\ box' = [box EXCEPT ![b.player_id] = Credited(@, "fouls", 1)]
    /\ team_fouls' = [team_fouls EXCEPT ![players[b.player_id].team_id] = @ + 1]
    /\ UNCHANGED <<status, period, clock, score, timeouts, possession, lineup,
                   players>>

\* MUTANT of Timeout: the check for timeouts remaining is off by one.
TimeoutOffByOne(b) ==
    /\ b.kind = "timeout"
    /\ Playing
    /\ b.team_id \in Team
    /\ timeouts[b.team_id] >= 0
    /\ timeouts' = [timeouts EXCEPT ![b.team_id] = @ - 1]
    /\ UNCHANGED <<status, period, clock, score, team_fouls, possession, court>>

Timeout(b) ==
    /\ b.kind = "timeout"
    /\ Playing
    /\ b.team_id \in Team
    /\ timeouts[b.team_id] > 0
    /\ timeouts' = [timeouts EXCEPT ![b.team_id] = @ - 1]
    /\ UNCHANGED <<status, period, clock, score, team_fouls, possession, court>>

Possession(b) ==
    /\ b.kind = "possession"
    /\ Playing
    /\ b.team_id \in Team
    /\ possession' = b.team_id
    /\ UNCHANGED <<status, period, clock, score, team_fouls, timeouts, court>>

\* The lineup an id outside the home team is looked up in is the away one.
Side(team) == IF team = Home THEN Home ELSE Away

Flagged(p, flag) == [players[p] EXCEPT !.on_court = flag]

\* MUTANT of Substitution: the player who leaves keeps his on_court flag.
SubstitutionKeepsFlag(b) ==
    LET side == Side(b.team_id)
        both == {b.player_out, b.player_in}
    IN  /\ b.kind = "substitution"
        /\ Playing
        /\ both \subseteq DOMAIN players
        /\ \A p \in both : players[p].team_id = b.team_id
        /\ b.player_out \in lineup[side] /\ b.player_in \notin lineup[side]
        /\ lineup' = [lineup EXCEPT
                        ![side] = (@ \ {b.player_out}) \cup {b.player_in}]
        /\ players' = [players EXCEPT ![b.player_in] = Flagged(b.player_in, TRUE)]
        /\ UNCHANGED <<status, board, box>>

\* MUTANT of Substitution: the flags move, the lineup does not.
SubstitutionFlagsOnly(b) ==
    LET both == {b.player_out, b.player_in}
    IN  /\ b.kind = "substitution"
        /\ Playing
        /\ both \subseteq DOMAIN players
        /\ \A p \in both : players[p].team_id = b.team_id
        /\ b.player_out \in lineup[Side(b.team_id)]
        /\ b.player_in \notin lineup[Side(b.team_id)]
        /\ players' = [players EXCEPT
                         ![b.player_out] = Flagged(b.player_out, FALSE),
                         ![b.player_in] = Flagged(b.player_in, TRUE)]
        /\ UNCHANGED <<status, board, lineup, box>>

Substitution(b) ==
    LET side == Side(b.team_id)
        both == {b.player_out, b.player_in}
    IN  /\ b.kind = "substitution"
        /\ Playing
        /\ both \subseteq DOMAIN players
        /\ \A p \in both : players[p].team_id = b.team_id
        /\ b.player_out \in lineup[side] /\ b.player_in \notin lineup[side]
        /\ lineup' = [lineup EXCEPT
                        ![side] = (@ \ {b.player_out}) \cup {b.player_in}]
        /\ players' = [players EXCEPT
                         ![b.player_out] = Flagged(b.player_out, FALSE),
                         ![b.player_in] = Flagged(b.player_in, TRUE)]
        /\ UNCHANGED <<status, board, box>>

\* MUTANT of Injury: a removed player is only labelled.
InjuryLabelOnly(b) ==
    /\ b.kind = "injury"
    /\ Playing
    /\ b.player_id \in DOMAIN players
    /\ b.injury_state \in InjuryState
    /\ players' = [players EXCEPT
                     ![b.player_id] = [players[b.player_id] EXCEPT
                         !.injury_state = b.injury_state]]
    /\ UNCHANGED <<status, board, lineup, box>>

\* MUTANT of Injury: a later healthy report makes a removed player active again.
InjuryReactivates(b) ==
    /\ b.kind = "injury"
    /\ Playing
    /\ b.player_id \in DOMAIN players
    /\ b.injury_state \in InjuryState
    /\ players' = [players EXCEPT
                     ![b.player_id] = [players[b.player_id] EXCEPT
                         !.injury_state = b.injury_state,
                         !.active = b.injury_state # "removed"]]
    /\ UNCHANGED <<status, board, lineup, box>>

\* "removed" clears active for good; removing a player who is on the court
\* leaves a candidate with an illegal lineup, so it is rejected.
Injury(b) ==
    /\ b.kind = "injury"
    /\ Playing
    /\ b.player_id \in DOMAIN players
    /\ b.injury_state \in InjuryState
    /\ players' = [players EXCEPT
                     ![b.player_id] = [players[b.player_id] EXCEPT
                         !.injury_state = b.injury_state,
                         !.active = players[b.player_id].active
                                    /\ b.injury_state # "removed"]]
    /\ UNCHANGED <<status, board, lineup, box>>

\* MUTANT of OfficialCorrection: the corrected score is added to the old one.
OfficialCorrectionAdds(b) ==
    /\ b.kind = "official_correction"
    /\ Playing
    /\ b.value >= 0
    /\ b.side \in Team
    /\ score' = [score EXCEPT ![b.side] = @ + b.value]
    /\ UNCHANGED <<status, period, clock, team_fouls, timeouts, possession,
                   court>>

OfficialCorrection(b) ==
    /\ b.kind = "official_correction"
    /\ Playing
    /\ b.value >= 0
    /\ b.side \in Team
    /\ score' = [score EXCEPT ![b.side] = b.value]
    /\ UNCHANGED <<status, period, clock, team_fouls, timeouts, possession,
                   court>>

\* Accepted in any status.
GameFinal(b) ==
    /\ b.kind = "game_final"
    /\ status' = "final"
    /\ clock' = 0
    /\ UNCHANGED <<period, score, team_fouls, timeouts, possession, court>>

(***************************************************************************)
(* StateEngine.__init__ and the specification.                             *)
(***************************************************************************)
Init ==
    /\ status = "scheduled"
    /\ sequence = 0
    /\ period = 1
    /\ clock = RegulationSeconds
    /\ score = [t \in Team |-> 0]
    /\ possession = None
    /\ lineup = [t \in Team |-> {}]
    /\ team_fouls = [t \in Team |-> 0]
    /\ timeouts = [t \in Team |-> InitialTimeouts]
    /\ players = [p \in {} |-> None]
    /\ box = [p \in {} |-> None]
    /\ last_source = 0
    /\ last_received = 0
    /\ seen = {}
    /\ history = << >>

Reduce(b) ==
    \/ GameStarted(b)
    \/ ClockSet(b)
    \/ Score(b)
    \/ StatEvent(b)
    \/ Foul(b)
    \/ Timeout(b)
    \/ Possession(b)
    \/ Substitution(b)
    \/ Injury(b)
    \/ OfficialCorrection(b)
    \/ GameFinal(b)

Apply(v, b) == Accepts(v) /\ Reduce(b) /\ Commit(v)

Next == \E v \in Envelope, b \in Body : Apply(v, b)

Spec == Init /\ [][Next]_vars
-----------------------------------------------------------------------------
(***************************************************************************)
(* Properties.                                                             *)
(***************************************************************************)

\* Every part of the state keeps its shape; scores, fouls, timeouts and the
\* game clock never leave their ranges.
TypeOK ==
    /\ status \in {"scheduled", "in_progress", "final"}
    /\ sequence \in Nat
    /\ period \in Nat \ {0}
    /\ clock \in 0 .. PeriodLength(period)
    /\ score \in [Team -> Nat]
    /\ possession \in Team \cup {Stranger, None}
    /\ lineup \in [Team -> SUBSET Player]
    /\ team_fouls \in [Team -> Nat]
    /\ timeouts \in [Team -> 0 .. InitialTimeouts]
    /\ DOMAIN players \subseteq Player
    /\ players \in [DOMAIN players -> PlayerState]
    /\ box \in [DOMAIN players -> [Stat -> Nat]]
    /\ last_source \in Nat
    /\ last_received \in Nat
    /\ seen \subseteq EventId
    /\ history \in Seq([event_id : EventId, sequence : Nat])

\* The on_court flags of the players, which nothing validates, agree with the
\* two lineups: a player is flagged exactly when a lineup holds him, and each
\* lineup holds only active players of its own team.  The flags are set by
\* game_started and swapped by substitution (state_engine.py:105, 200).
CourtMatchesLineups ==
    /\ \A p \in DOMAIN players : players[p].on_court <=> InLineup(p)
    /\ \A t \in Team : \A p \in lineup[t] :
          /\ p \in DOMAIN players
          /\ players[p].team_id = t
          /\ players[p].active

\* While the game runs, each team has exactly five flagged players on court,
\* whatever substitutions, injuries and restarts were accepted.
FiveOnCourt ==
    status = "in_progress" =>
        \A t \in Team :
            Cardinality({p \in DOMAIN players :
                            players[p].on_court /\ players[p].team_id = t})
                = LineupSize

\* A player marked "removed" is neither active nor on the court, in a running
\* and in a finished game: the injury is only accepted once he was replaced,
\* and no substitution brings him back (state_engine.py:215, 274).
RemovedIsOff ==
    \A p \in DOMAIN players :
        players[p].injury_state = "removed" =>
            ~ players[p].active /\ ~ players[p].on_court

\* The history is the gapless list of the applied events: entry n has sequence
\* n, no event id occurs twice, and the set used to detect duplicates is
\* exactly the ids of the history (state_engine.py:66, 79, 81).
HistoryIsGapless ==
    /\ sequence = Len(history)
    /\ \A i \in 1 .. Len(history) : history[i].sequence = i
    /\ \A i, j \in 1 .. Len(history) :
          history[i].event_id = history[j].event_id => i = j
    /\ seen = {history[i].event_id : i \in 1 .. Len(history)}

\* What the reducer promises about its log (module OrderedLog): events enter
\* one at a time, each id once, never backwards in source time.
Log == INSTANCE OrderedLog WITH
          Id <- EventId,
          log <- [i \in 1 .. Len(history) |-> history[i].event_id],
          now <- last_source
ImplementsOrderedLog == Log!Spec
=============================================================================
