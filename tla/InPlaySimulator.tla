-------------------------- MODULE InPlaySimulator --------------------------
(***************************************************************************)
(* One path of the rest-of-game simulator (wnba_inplay/simulation.py,      *)
(* _simulate_one): possessions until the clock runs out on a decided game, *)
(* overtimes while it is tied, a coin flip after the last overtime.        *)
(*                                                                         *)
(* Every random draw is a free choice among the outcomes it can have.      *)
(* Abstracted: the lineup of a possession is any LineupSize eligible       *)
(* players of the team, whatever the sampled minutes rank first; the       *)
(* probabilities; the stats a possession never changes (fouls).  A path    *)
(* counts from zero what it adds to the box score of the state it starts   *)
(* from.  A raised exception ends the path as "failed".                    *)
(***************************************************************************)
EXTENDS Integers, FiniteSets, Functions

CONSTANTS
    Home, Away,          \* the teams of the game
    Stranger,            \* a team of no player, which a state may name
    None,                \* no team has the ball
    Player,
    Eligible,            \* team -> its active players with a profile
    LineupSize,          \* 5 in the code
    OvertimeSeconds,     \* GameConfig.overtime_period_seconds
    MaxOvertimes,        \* 8 in the code
    PossessionLimit,     \* 1000 in the code
    Start                \* the states a path may start from

Team == {Home, Away}

Stat == {"points", "threes", "assists", "turnovers", "steals", "blocks",
         "rebounds", "minutes_seconds"}

\* What a path reads of GameState: game_seconds_remaining, the score and the
\* possession.
StartState ==
    [remaining : Nat, score : [Team -> Nat],
     possession : Team \cup {Stranger, None}]

ASSUME SimTeamsDiffer == Home # Away /\ Stranger \notin Team /\ None \notin Team
ASSUME EligiblePlayers ==
    /\ Eligible \in [Team \cup {Stranger} -> SUBSET Player]
    /\ \A t \in Team : IsFiniteSet(Eligible[t])
    /\ Eligible[Home] \cap Eligible[Away] = {}
ASSUME SimulationBounds ==
    /\ LineupSize \in Nat \ {0}
    /\ OvertimeSeconds \in Nat \ {0}
    /\ MaxOvertimes \in Nat
    /\ PossessionLimit \in Nat
ASSUME StartsWellFormed == Start \subseteq StartState

VARIABLES
    origin,       \* original_state
    mode,         \* playing, final (a path was returned) or failed
    remaining,    \* seconds left in regulation or in the overtime
    score,
    box,          \* what the path added to the players' stats
    offense,      \* possession_team
    overtimes,    \* overtime_periods
    possessions

vars == <<origin, mode, remaining, score, box, offense, overtimes, possessions>>

Opponent(team) == IF team = Home THEN Away ELSE Home

Tied == score[Home] = score[Away]

Init ==
    /\ origin \in Start
    /\ mode = "playing"
    /\ remaining = origin.remaining
    /\ score = origin.score
    /\ box = [p \in Player |-> [s \in Stat |-> 0]]
    /\ offense = IF origin.possession = None THEN Home ELSE origin.possession
    /\ overtimes = 0
    /\ possessions = 0

-----------------------------------------------------------------------------
(***************************************************************************)
(* The clock and the lineups.                                              *)
(***************************************************************************)
\* MUTANT of Elapsed: a possession that takes no time is not stretched to one
\* second.
ElapsedFromZero == 0 .. remaining

\* MUTANT of Elapsed: a possession may outlast the clock.
ElapsedUnclamped == 1 .. remaining + 1

\* max(1, min(elapsed, remaining))
Elapsed == 1 .. remaining

Lineups(team) == {five \in SUBSET Eligible[team] : Cardinality(five) = LineupSize}

\* MUTANT of Clocked: only the team with the ball is credited.
ClockedOffense(five, elapsed) ==
    [p \in Player |->
        IF p \in five[offense]
        THEN [box[p] EXCEPT !["minutes_seconds"] =
                                box[p]["minutes_seconds"] + elapsed]
        ELSE box[p]]

\* _credit_minutes
Clocked(five, elapsed) ==
    [p \in Player |->
        IF p \in five[Home] \cup five[Away]
        THEN [box[p] EXCEPT !["minutes_seconds"] =
                                box[p]["minutes_seconds"] + elapsed]
        ELSE box[p]]

\* PlayerStats.apply
Credit(stats, p, stat, amount) ==
    [stats EXCEPT ![p] = [stats[p] EXCEPT ![stat] = stats[p][stat] + amount]]

\* The loop body around _simulate_possession: time passes, and a path with too
\* many possessions raises.
Possess(elapsed, five) ==
    /\ mode = "playing" /\ remaining > 0
    /\ elapsed \in Elapsed
    /\ five \in [Team -> SUBSET Player]
    /\ \A t \in Team : five[t] \in Lineups(t)
    /\ remaining' = remaining - elapsed
    /\ possessions' = possessions + 1
    /\ mode' = IF possessions + 1 > PossessionLimit THEN "failed" ELSE mode
    /\ UNCHANGED <<origin, overtimes>>

(***************************************************************************)
(* _simulate_possession, one action per way it ends.                       *)
(***************************************************************************)
\* MUTANT of Turnover: any opponent may be credited with the steal.
TurnoverAnySteal(elapsed, five, shooter) ==
    LET lost == Credit(Clocked(five, elapsed), shooter, "turnovers", 1)
        defense == Opponent(offense)
    IN  /\ Possess(elapsed, five)
        /\ \/ box' = lost
           \/ \E p \in Eligible[defense] : box' = Credit(lost, p, "steals", 1)
        /\ offense' = defense
        /\ UNCHANGED score

Turnover(elapsed, five, shooter) ==
    LET lost == Credit(Clocked(five, elapsed), shooter, "turnovers", 1)
        defense == Opponent(offense)
    IN  /\ Possess(elapsed, five)
        /\ \/ box' = lost
           \/ \E p \in five[defense] : box' = Credit(lost, p, "steals", 1)
        /\ offense' = defense
        /\ UNCHANGED score

ShootingFoul(elapsed, five, shooter) ==
    /\ Possess(elapsed, five)
    /\ \E made \in 0 .. 3 :
          /\ box' = Credit(Clocked(five, elapsed), shooter, "points", made)
          /\ score' = [score EXCEPT ![offense] = score[offense] + made]
    /\ offense' = Opponent(offense)

\* MUTANT of MadeShot: a three counts two on the scoreboard.
MadeShotTwo(elapsed, five, shooter) ==
    /\ Possess(elapsed, five)
    /\ \E points \in {2, 3} :
        LET scored == Credit(Credit(Clocked(five, elapsed), shooter, "points",
                                    points),
                             shooter, "threes", IF points = 3 THEN 1 ELSE 0)
        IN  /\ score' = [score EXCEPT ![offense] = score[offense] + 2]
            /\ \/ box' = scored
               \/ \E p \in five[offense] \ {shooter} :
                     box' = Credit(scored, p, "assists", 1)
    /\ offense' = Opponent(offense)

\* The assist may be credited to a teammate on the court.
MadeShot(elapsed, five, shooter) ==
    /\ Possess(elapsed, five)
    /\ \E points \in {2, 3} :
        LET scored == Credit(Credit(Clocked(five, elapsed), shooter, "points",
                                    points),
                             shooter, "threes", IF points = 3 THEN 1 ELSE 0)
        IN  /\ score' = [score EXCEPT ![offense] = score[offense] + points]
            /\ \/ box' = scored
               \/ \E p \in five[offense] \ {shooter} :
                     box' = Credit(scored, p, "assists", 1)
    /\ offense' = Opponent(offense)

\* MUTANT of MissedShot: a blocked shot goes out of play, nobody rebounds it.
MissedShotBlockedOut(elapsed, five, shooter) ==
    LET clocked == Clocked(five, elapsed)
        defense == Opponent(offense)
    IN  /\ Possess(elapsed, five)
        /\ \/ \E t \in Team : \E p \in five[t] :
                 /\ box' = Credit(clocked, p, "rebounds", 1)
                 /\ offense' = t
           \/ \E p \in five[defense] :
                 /\ box' = Credit(clocked, p, "blocks", 1)
                 /\ offense' = defense
        /\ UNCHANGED score

\* A two may be blocked; somebody on the court rebounds, and his team has the
\* ball.
MissedShot(elapsed, five, shooter) ==
    LET clocked == Clocked(five, elapsed)
        blocked == {Credit(clocked, p, "blocks", 1) : p \in five[Opponent(offense)]}
    IN  /\ Possess(elapsed, five)
        /\ \E missed \in {clocked} \cup blocked, t \in Team : \E p \in five[t] :
              /\ box' = Credit(missed, p, "rebounds", 1)
              /\ offense' = t
        /\ UNCHANGED score

\* A team of fewer than LineupSize eligible players has no lineup: a state
\* whose possession names no team of the game fails here.
NoLegalLineup ==
    /\ mode = "playing" /\ remaining > 0
    /\ \E t \in {offense, Opponent(offense)} : Lineups(t) = {}
    /\ mode' = "failed"
    /\ UNCHANGED <<origin, remaining, score, box, offense, overtimes,
                   possessions>>

-----------------------------------------------------------------------------
(***************************************************************************)
(* The top of the loop, when the clock has run out.                        *)
(***************************************************************************)
RanOut == mode = "playing" /\ remaining = 0

\* MUTANT of Finish: a game that is tied when the last overtime ends is over.
FinishAfterOvertimes ==
    /\ RanOut
    /\ ~ Tied \/ overtimes = MaxOvertimes
    /\ mode' = "final"
    /\ UNCHANGED <<origin, remaining, score, box, offense, overtimes,
                   possessions>>

Finish ==
    /\ RanOut
    /\ ~ Tied
    /\ mode' = "final"
    /\ UNCHANGED <<origin, remaining, score, box, offense, overtimes,
                   possessions>>

StartOvertime ==
    /\ RanOut
    /\ Tied
    /\ overtimes < MaxOvertimes
    /\ overtimes' = overtimes + 1
    /\ remaining' = OvertimeSeconds
    /\ UNCHANGED <<origin, mode, score, box, offense, possessions>>

\* The coin flip counts as one more overtime in what the path reports.
TieBreak ==
    /\ RanOut
    /\ Tied
    /\ overtimes = MaxOvertimes
    /\ overtimes' = overtimes + 1
    /\ \E t \in Team : score' = [score EXCEPT ![t] = score[t] + 1]
    /\ mode' = "final"
    /\ UNCHANGED <<origin, remaining, box, offense, possessions>>

Possession ==
    \E elapsed \in Elapsed, home \in Lineups(Home), away \in Lineups(Away) :
        LET five == [t \in Team |-> IF t = Home THEN home ELSE away]
        IN  \E shooter \in five[offense] :
                \/ Turnover(elapsed, five, shooter)
                \/ ShootingFoul(elapsed, five, shooter)
                \/ MadeShot(elapsed, five, shooter)
                \/ MissedShot(elapsed, five, shooter)

Next ==
    \/ offense \in Team /\ Possession
    \/ NoLegalLineup
    \/ Finish \/ StartOvertime \/ TieBreak

Spec == Init /\ [][Next]_vars
-----------------------------------------------------------------------------
(***************************************************************************)
(* Properties.                                                             *)
(***************************************************************************)
TypeOK ==
    /\ origin \in Start
    /\ mode \in {"playing", "final", "failed"}
    /\ remaining \in Nat
    /\ score \in [Team -> Nat]
    /\ box \in [Player -> [Stat -> Nat]]
    /\ offense \in Team \cup {Stranger}
    /\ overtimes \in 0 .. MaxOvertimes + 1
    /\ possessions \in Nat

TeamTotal(team, stat) ==
    SumFunctionOnSet([p \in Player |-> box[p][stat]], Eligible[team])

\* Overtimes that were played: the coin flip is counted but not played.
OvertimesPlayed == IF overtimes > MaxOvertimes THEN MaxOvertimes ELSE overtimes

\* Seconds of basketball the path has simulated.
Played == origin.remaining + OvertimesPlayed * OvertimeSeconds - remaining

\* The points a team gained on the path are the points of its players; only
\* the coin flip after the last overtime gives one team one point nobody
\* scored (simulation.py:266-269, 418-421, 447-451).
ScoresAddUp ==
    LET given(t) == score[t] - origin.score[t] - TeamTotal(t, "points")
    IN  /\ \A t \in Team : given(t) >= 0
        /\ given(Home) + given(Away) =
              IF overtimes > MaxOvertimes THEN 1 ELSE 0

\* Each team's players were credited exactly LineupSize seconds for every
\* second of clock played, regulation and overtimes together, whoever had the
\* ball and however the lineups changed (simulation.py:312-319, 511-520).
SecondsAddUp ==
    \A t \in Team :
        TeamTotal(t, "minutes_seconds") =
            IF Lineups(t) = {} THEN 0 ELSE LineupSize * Played

\* The box scores of the two teams fit each other: every steal is a turnover of
\* the opponent, every block a missed two somebody rebounded, every assist a
\* basket of two or three points, and no possession books more than one
\* turnover, rebound, three or unscored assist.
BoxScoresFit ==
    \A t \in Team :
        LET total(stat) == TeamTotal(t, stat)
            both(stat) == total(stat) + TeamTotal(Opponent(t), stat)
        IN  /\ total("steals") <= TeamTotal(Opponent(t), "turnovers")
            /\ both("blocks") <= both("rebounds")
            /\ total("points") >= 2 * total("assists")
            /\ both("turnovers") + both("rebounds") + both("threes") <= possessions

\* A player who was on the court for no second has no other stat either
\* (tests/reference_engine/test_layer_c_simulation.py: the removed player).
IdlePlayersBookNothing ==
    \A p \in Player :
        box[p]["minutes_seconds"] = 0 => \A s \in Stat : box[p][s] = 0

\* A path that was returned is a finished game with a winner
\* (test_final_games_are_not_tied), after at most MaxOvertimes overtimes and,
\* when there was a coin flip, exactly one point apart.
FinalIsDecided ==
    mode = "final" =>
        /\ remaining = 0
        /\ ~ Tied
        /\ overtimes > MaxOvertimes => score[Home] - score[Away] \in {-1, 1}

\* A possession takes at least a second, so a path has no more possessions than
\* seconds: the possession limit can only end a path that played longer than
\* PossessionLimit seconds (simulation.py:310, 332).
PossessionsWithinClock == possessions <= Played
=============================================================================
