----------------------- MODULE InPlaySimulatorProofs -----------------------
(***************************************************************************)
(* Proofs about InPlaySimulator, for lineups, overtimes, limits and        *)
(* starting states of any size.                                            *)
(***************************************************************************)
EXTENDS InPlaySimulator, SetSums, TLAPS

Box == [Player -> [Stat -> Nat]]

\* What IdlePlayersBookNothing says of any box score.
IdleIn(stats) ==
    \A p \in Player :
        stats[p]["minutes_seconds"] = 0 => \A s \in Stat : stats[p][s] = 0

\* Crediting minutes keeps the box well formed, leaves an idle player's line
\* alone, and puts everybody on the court past zero seconds
\* (simulation.py:511-520).
LEMMA ClockedBox ==
    ASSUME TypeOK, IdlePlayersBookNothing,
           NEW elapsed \in Nat \ {0}, NEW five \in [Team -> SUBSET Player]
    PROVE  /\ Clocked(five, elapsed) \in Box
           /\ IdleIn(Clocked(five, elapsed))
           /\ \A t \in Team : \A p \in five[t] :
                 Clocked(five, elapsed)[p]["minutes_seconds"] > 0
<1> DEFINE court == five[Home] \cup five[Away]
<1> DEFINE now == Clocked(five, elapsed)
<1>1. /\ box \in [Player -> [Stat -> Nat]]
      /\ court \subseteq Player
      /\ "minutes_seconds" \in Stat
  BY DEF TypeOK, Team, Stat
<1>2. ASSUME NEW p \in court
      PROVE  /\ now[p] = [box[p] EXCEPT !["minutes_seconds"] =
                                    box[p]["minutes_seconds"] + elapsed]
             /\ now[p] \in [Stat -> Nat]
             /\ now[p]["minutes_seconds"] = box[p]["minutes_seconds"] + elapsed
             /\ now[p]["minutes_seconds"] > 0
  BY <1>1 DEF Clocked
<1>3. ASSUME NEW p \in Player, p \notin court
      PROVE  now[p] = box[p]
  BY <1>3 DEF Clocked
<1>4. now \in Box
  <2>1. \A p \in Player : now[p] \in [Stat -> Nat]
    BY <1>1, <1>2, <1>3
  <2>2. now = [p \in Player |-> now[p]]
    BY DEF Clocked
  <2> HIDE DEF now
  <2> QED  BY <2>1, <2>2 DEF Box
<1> HIDE DEF now, court
<1>5. IdleIn(now)
  <2>1. ASSUME NEW p \in Player, now[p]["minutes_seconds"] = 0, NEW s \in Stat
        PROVE  now[p][s] = 0
    <3>1. p \notin court
      <4>1. SUFFICES ASSUME p \in court  PROVE FALSE
        OBVIOUS
      <4>2. now[p]["minutes_seconds"] > 0
        BY <1>2, <4>1
      <4> QED  BY <4>2, <2>1
    <3>2. now[p] = box[p]
      BY <3>1, <1>3
    <3> QED  BY <2>1, <3>2 DEF IdlePlayersBookNothing
  <2> QED  BY <2>1 DEF IdleIn
<1>6. \A t \in Team : \A p \in five[t] : now[p]["minutes_seconds"] > 0
  BY <1>2 DEF Team, court
<1> QED  BY <1>4, <1>5, <1>6 DEF now

\* Crediting a player who was on the court keeps the box well formed, idle
\* players' lines empty and everybody's seconds as they are.
LEMMA CreditedBox ==
    ASSUME NEW stats \in Box, IdleIn(stats),
           NEW p \in Player, stats[p]["minutes_seconds"] > 0,
           NEW stat \in Stat \ {"minutes_seconds"}, NEW amount \in Nat
    PROVE  /\ Credit(stats, p, stat, amount) \in Box
           /\ IdleIn(Credit(stats, p, stat, amount))
           /\ \A q \in Player :
                 Credit(stats, p, stat, amount)[q]["minutes_seconds"]
                     = stats[q]["minutes_seconds"]
<1> DEFINE now == Credit(stats, p, stat, amount)
<1> DEFINE line == [stats[p] EXCEPT ![stat] = stats[p][stat] + amount]
<1>1. "minutes_seconds" \in Stat
  BY DEF Stat
<1>2. stats[p] \in [Stat -> Nat]
  BY DEF Box
<1>3. /\ line \in [Stat -> Nat]
      /\ line["minutes_seconds"] = stats[p]["minutes_seconds"]
  BY <1>1, <1>2
<1>4. now = [stats EXCEPT ![p] = line]
  BY DEF Credit
<1> HIDE DEF line, now
<1>5. /\ now \in Box
      /\ now[p] = line
      /\ \A q \in Player : q # p => now[q] = stats[q]
  BY <1>3, <1>4 DEF Box
<1>6. \A q \in Player : now[q]["minutes_seconds"] = stats[q]["minutes_seconds"]
  BY <1>3, <1>5
<1>7. IdleIn(now)
  <2> SUFFICES ASSUME NEW q \in Player, now[q]["minutes_seconds"] = 0,
                      NEW s \in Stat
               PROVE  now[q][s] = 0
    BY DEF IdleIn
  <2>1. stats[q]["minutes_seconds"] = 0
    BY <1>6
  <2>2. q # p
    BY <2>1
  <2> QED  BY <2>1, <2>2, <1>5 DEF IdleIn
<1> QED  BY <1>5, <1>6, <1>7 DEF now

-----------------------------------------------------------------------------
(***************************************************************************)
(* The inductive invariant.  The flip of the coin is only reached from a   *)
(* path that has not flipped it yet, and a finished path is told apart     *)
(* from one still playing by mode alone; the possessions count needs the   *)
(* clock that the overtimes added.                                         *)
(***************************************************************************)
OvertimesBounded == mode = "playing" => overtimes <= MaxOvertimes

PathInv ==
    /\ TypeOK
    /\ OvertimesBounded
    /\ IdlePlayersBookNothing
    /\ FinalIsDecided
    /\ PossessionsWithinClock

\* The overtime clock is an integer, and one more overtime adds one length.
LEMMA OvertimeClock ==
    ASSUME TypeOK
    PROVE  /\ OvertimesPlayed \in Nat
           /\ OvertimesPlayed * OvertimeSeconds \in Nat
           /\ (OvertimesPlayed + 1) * OvertimeSeconds
                 = OvertimesPlayed * OvertimeSeconds + OvertimeSeconds
           /\ origin.remaining \in Nat
<1>1. /\ overtimes \in Nat /\ MaxOvertimes \in Nat /\ OvertimeSeconds \in Nat
      /\ origin.remaining \in Nat
  BY SimulationBounds, StartsWellFormed DEF TypeOK, StartState
<1>2. OvertimesPlayed \in Nat
  BY <1>1 DEF OvertimesPlayed
<1>3. \A n, m \in Nat : n * m \in Nat /\ (n + 1) * m = n * m + m
  OBVIOUS
<1> QED  BY <1>1, <1>2, <1>3

LEMMA PathInvInit == Init => PathInv
<1> SUFFICES ASSUME Init  PROVE PathInv
  OBVIOUS
<1>1. /\ origin \in StartState
      /\ MaxOvertimes \in Nat
  BY StartsWellFormed, SimulationBounds DEF Init
<1>2. TypeOK
  BY <1>1 DEF Init, TypeOK, StartState, Team
<1>3. OvertimesBounded /\ IdlePlayersBookNothing /\ FinalIsDecided
  BY <1>1 DEF Init, OvertimesBounded, IdlePlayersBookNothing, FinalIsDecided,
              Stat
<1>4. PossessionsWithinClock
  <2>1. origin.remaining \in Nat /\ OvertimesPlayed = 0
    BY <1>1 DEF Init, OvertimesPlayed, StartState
  <2>2. OvertimesPlayed * OvertimeSeconds = 0
    BY <2>1, SimulationBounds
  <2> QED  BY <2>1, <2>2 DEF Init, PossessionsWithinClock, Played
<1> QED  BY <1>2, <1>3, <1>4 DEF PathInv

\* Whatever ends a possession, the clock part of the invariant holds after it.
LEMMA PossessKeepsClock ==
    ASSUME PathInv, NEW elapsed, NEW five, Possess(elapsed, five)
    PROVE  /\ elapsed \in Nat \ {0}
           /\ five \in [Team -> SUBSET Player]
           /\ mode' \in {"playing", "failed"}
           /\ remaining' \in Nat
           /\ possessions' \in Nat
           /\ OvertimesBounded'
           /\ PossessionsWithinClock'
           /\ FinalIsDecided'
<1>1. /\ remaining \in Nat /\ possessions \in Nat
      /\ elapsed \in 1 .. remaining
      /\ remaining' = remaining - elapsed
      /\ possessions' = possessions + 1
      /\ five \in [Team -> SUBSET Player]
      /\ UNCHANGED <<origin, overtimes>>
      /\ mode = "playing"
      /\ mode' \in {"playing", "failed"}
  BY DEF PathInv, TypeOK, Possess, Elapsed
<1>2. OvertimesBounded' /\ FinalIsDecided'
  BY <1>1 DEF PathInv, OvertimesBounded, FinalIsDecided
<1>3. PossessionsWithinClock'
  <2> DEFINE overtime == OvertimesPlayed * OvertimeSeconds
  <2>1. overtime \in Nat /\ origin.remaining \in Nat
    BY OvertimeClock DEF PathInv
  <2>2. overtime' = overtime /\ origin'.remaining = origin.remaining
    BY <1>1 DEF OvertimesPlayed
  <2>3. Played = origin.remaining + overtime - remaining
    BY DEF Played
  <2>4. Played' = origin'.remaining + overtime' - remaining'
    BY DEF Played
  <2>5. possessions <= Played
    BY DEF PathInv, PossessionsWithinClock
  <2> HIDE DEF overtime
  <2>6. possessions' <= Played'
    BY <1>1, <2>1, <2>2, <2>3, <2>4, <2>5
  <2> QED  BY <2>6 DEF PossessionsWithinClock
<1> QED  BY <1>1, <1>2, <1>3

-----------------------------------------------------------------------------
(***************************************************************************)
(* The ways a possession ends.                                             *)
(***************************************************************************)
\* A box score in which everybody on the court has played.
Sound(stats, five) ==
    /\ stats \in Box
    /\ IdleIn(stats)
    /\ \A t \in Team : \A p \in five[t] : stats[p]["minutes_seconds"] > 0

LEMMA ClockedSound ==
    ASSUME PathInv, NEW elapsed \in Nat \ {0},
           NEW five \in [Team -> SUBSET Player]
    PROVE  Sound(Clocked(five, elapsed), five)
BY ClockedBox DEF PathInv, Sound

LEMMA CreditSound ==
    ASSUME NEW five \in [Team -> SUBSET Player],
           NEW stats, Sound(stats, five),
           NEW t \in Team, NEW p \in five[t],
           NEW stat \in Stat \ {"minutes_seconds"}, NEW amount \in Nat
    PROVE  Sound(Credit(stats, p, stat, amount), five)
<1> DEFINE now == Credit(stats, p, stat, amount)
<1>1. p \in Player /\ stats[p]["minutes_seconds"] > 0
  BY DEF Sound
<1>2. /\ now \in Box
      /\ IdleIn(now)
      /\ \A q \in Player :
            now[q]["minutes_seconds"] = stats[q]["minutes_seconds"]
  BY <1>1, CreditedBox DEF Sound
<1> HIDE DEF now
<1>3. \A u \in Team : \A q \in five[u] : now[q]["minutes_seconds"] > 0
  BY <1>2 DEF Sound
<1>4. Sound(now, five)
  BY <1>2, <1>3 DEF Sound
<1> QED  BY <1>4 DEF now

\* A possession that leaves a sound box score, natural scores and the ball at
\* a team keeps the invariant.
LEMMA PossessionKeeps ==
    ASSUME PathInv, NEW elapsed, NEW five, Possess(elapsed, five),
           Sound(box', five), score' \in [Team -> Nat], offense' \in Team
    PROVE  PathInv'
<1>1. /\ mode' \in {"playing", "failed"}
      /\ remaining' \in Nat /\ possessions' \in Nat
      /\ OvertimesBounded' /\ PossessionsWithinClock' /\ FinalIsDecided'
  BY PossessKeepsClock
<1>2. UNCHANGED <<origin, overtimes>>
  BY DEF Possess
<1>3. TypeOK'
  BY <1>1, <1>2 DEF PathInv, TypeOK, Sound, Box
<1>4. IdlePlayersBookNothing'
  BY DEF Sound, IdleIn, IdlePlayersBookNothing
<1> QED  BY <1>1, <1>3, <1>4 DEF PathInv

LEMMA OpponentPlays ==
    ASSUME NEW t \in Team
    PROVE  Opponent(t) \in Team
BY DEF Opponent, Team

\* The stats a possession books are stats, and are not the minutes.
LEMMA BookedStats ==
    {"points", "threes", "assists", "turnovers", "steals", "blocks", "rebounds"}
        = Stat \ {"minutes_seconds"}
BY DEF Stat

LEMMA TurnoverKeeps ==
    ASSUME PathInv, offense \in Team, NEW elapsed, NEW five,
           NEW shooter \in five[offense], Turnover(elapsed, five, shooter)
    PROVE  PathInv'
<1> DEFINE defense == Opponent(offense)
<1> DEFINE lost == Credit(Clocked(five, elapsed), shooter, "turnovers", 1)
<1>1. /\ Possess(elapsed, five)
      /\ box' = lost
         \/ \E p \in five[defense] : box' = Credit(lost, p, "steals", 1)
      /\ offense' = defense
      /\ score' = score
  BY DEF Turnover
<1>2. elapsed \in Nat \ {0} /\ five \in [Team -> SUBSET Player]
  BY <1>1, PossessKeepsClock
<1>3. defense \in Team
  BY OpponentPlays
<1>4. Sound(lost, five)
  BY <1>2, ClockedSound, CreditSound, BookedStats
<1> HIDE DEF lost, defense
<1>5. Sound(box', five)
  <2>1. \A p \in five[defense] : Sound(Credit(lost, p, "steals", 1), five)
    BY <1>2, <1>3, <1>4, CreditSound, BookedStats
  <2> QED  BY <1>1, <1>4, <2>1
<1>6. score' \in [Team -> Nat]
  BY <1>1 DEF PathInv, TypeOK
<1> QED  BY <1>1, <1>3, <1>5, <1>6, PossessionKeeps

LEMMA ShootingFoulKeeps ==
    ASSUME PathInv, offense \in Team, NEW elapsed, NEW five,
           NEW shooter \in five[offense], ShootingFoul(elapsed, five, shooter)
    PROVE  PathInv'
<1>1. PICK made \in 0 .. 3 :
          /\ box' = Credit(Clocked(five, elapsed), shooter, "points", made)
          /\ score' = [score EXCEPT ![offense] = score[offense] + made]
  BY DEF ShootingFoul
<1>2. Possess(elapsed, five) /\ offense' = Opponent(offense)
  BY DEF ShootingFoul
<1>3. elapsed \in Nat \ {0} /\ five \in [Team -> SUBSET Player]
  BY <1>2, PossessKeepsClock
<1>4. Sound(box', five)
  <2>1. Sound(Clocked(five, elapsed), five)
    BY <1>3, ClockedSound
  <2>2. made \in Nat
    OBVIOUS
  <2>3. Sound(Credit(Clocked(five, elapsed), shooter, "points", made), five)
    BY <1>3, <2>1, <2>2, CreditSound, BookedStats
  <2> QED  BY <1>1, <2>3
<1>5. score' \in [Team -> Nat]
  BY <1>1 DEF PathInv, TypeOK
<1>6. offense' \in Team
  BY <1>2, OpponentPlays
<1> QED  BY <1>2, <1>4, <1>5, <1>6, PossessionKeeps

LEMMA MadeShotKeeps ==
    ASSUME PathInv, offense \in Team, NEW elapsed, NEW five,
           NEW shooter \in five[offense], MadeShot(elapsed, five, shooter)
    PROVE  PathInv'
<1> DEFINE two(points) ==
        Credit(Clocked(five, elapsed), shooter, "points", points)
<1> DEFINE scored(points) ==
        Credit(two(points), shooter, "threes", IF points = 3 THEN 1 ELSE 0)
<1>1. PICK points \in {2, 3} :
          /\ score' = [score EXCEPT ![offense] = score[offense] + points]
          /\ \/ box' = scored(points)
             \/ \E p \in five[offense] \ {shooter} :
                   box' = Credit(scored(points), p, "assists", 1)
  BY DEF MadeShot
<1>2. Possess(elapsed, five) /\ offense' = Opponent(offense)
  BY DEF MadeShot
<1>3. elapsed \in Nat \ {0} /\ five \in [Team -> SUBSET Player]
  BY <1>2, PossessKeepsClock
<1>4. points \in Nat /\ (IF points = 3 THEN 1 ELSE 0) \in Nat
  OBVIOUS
<1>5. Sound(two(points), five)
  BY <1>3, <1>4, ClockedSound, CreditSound, BookedStats
<1> HIDE DEF two
<1>6. Sound(scored(points), five)
  BY <1>3, <1>4, <1>5, CreditSound, BookedStats
<1> HIDE DEF scored
<1>7. Sound(box', five)
  <2>1. \A p \in five[offense] : Sound(Credit(scored(points), p, "assists", 1), five)
    BY <1>3, <1>6, CreditSound, BookedStats
  <2> QED  BY <1>1, <1>6, <2>1
<1>8. score' \in [Team -> Nat]
  BY <1>1, <1>4 DEF PathInv, TypeOK
<1>9. offense' \in Team
  BY <1>2, OpponentPlays
<1> QED  BY <1>2, <1>7, <1>8, <1>9, PossessionKeeps

LEMMA MissedShotKeeps ==
    ASSUME PathInv, offense \in Team, NEW elapsed, NEW five,
           NEW shooter \in five[offense], MissedShot(elapsed, five, shooter)
    PROVE  PathInv'
<1> DEFINE clocked == Clocked(five, elapsed)
<1> DEFINE blocked == {Credit(clocked, p, "blocks", 1) : p \in five[Opponent(offense)]}
<1>1. PICK missed \in {clocked} \cup blocked, t \in Team :
          \E p \in five[t] : /\ box' = Credit(missed, p, "rebounds", 1)
                             /\ offense' = t
  BY DEF MissedShot
<1>2. Possess(elapsed, five) /\ score' = score
  BY DEF MissedShot
<1>3. elapsed \in Nat \ {0} /\ five \in [Team -> SUBSET Player]
  BY <1>2, PossessKeepsClock
<1>4. Sound(clocked, five)
  BY <1>3, ClockedSound
<1> HIDE DEF clocked
<1>5. Opponent(offense) \in Team
  BY OpponentPlays
<1>6. Sound(missed, five)
  <2>1. \A p \in five[Opponent(offense)] :
            Sound(Credit(clocked, p, "blocks", 1), five)
    BY <1>3, <1>4, <1>5, CreditSound, BookedStats
  <2> QED  BY <1>4, <2>1
<1>7. Sound(box', five)
  <2>1. \A p \in five[t] : Sound(Credit(missed, p, "rebounds", 1), five)
    BY <1>3, <1>6, CreditSound, BookedStats
  <2> QED  BY <1>1, <2>1
<1>8. score' \in [Team -> Nat] /\ offense' \in Team
  BY <1>1, <1>2 DEF PathInv, TypeOK
<1> QED  BY <1>2, <1>7, <1>8, PossessionKeeps

-----------------------------------------------------------------------------
(***************************************************************************)
(* The top of the loop.                                                    *)
(***************************************************************************)
LEMMA StartOvertimeKeeps ==
    ASSUME PathInv, StartOvertime
    PROVE  PathInv'
<1>1. /\ overtimes \in Nat /\ MaxOvertimes \in Nat /\ OvertimeSeconds \in Nat
      /\ overtimes < MaxOvertimes /\ remaining = 0
      /\ overtimes' = overtimes + 1 /\ remaining' = OvertimeSeconds
      /\ mode = "playing"
      /\ UNCHANGED <<origin, mode, score, box, offense, possessions>>
  BY SimulationBounds DEF StartOvertime, RanOut, PathInv, TypeOK
<1>2. TypeOK' /\ OvertimesBounded' /\ FinalIsDecided'
  BY <1>1 DEF PathInv, TypeOK, OvertimesBounded, FinalIsDecided
<1>3. IdlePlayersBookNothing'
  BY <1>1 DEF PathInv, IdlePlayersBookNothing
<1>4. PossessionsWithinClock'
  <2> DEFINE overtime == OvertimesPlayed * OvertimeSeconds
  <2>1. /\ overtime \in Nat /\ origin.remaining \in Nat
        /\ (OvertimesPlayed + 1) * OvertimeSeconds = overtime + OvertimeSeconds
    BY OvertimeClock DEF PathInv
  <2>2. OvertimesPlayed' = OvertimesPlayed + 1
    BY <1>1 DEF OvertimesPlayed
  <2>3. overtime' = overtime + OvertimeSeconds
    BY <2>1, <2>2
  <2>4. Played = origin.remaining + overtime - remaining
    BY DEF Played
  <2>5. Played' = origin'.remaining + overtime' - remaining'
    BY DEF Played
  <2>6. possessions <= Played
    BY DEF PathInv, PossessionsWithinClock
  <2> HIDE DEF overtime
  <2>7. possessions' <= Played'
    BY <1>1, <2>1, <2>3, <2>4, <2>5, <2>6
  <2> QED  BY <2>7 DEF PossessionsWithinClock
<1> QED  BY <1>2, <1>3, <1>4 DEF PathInv

LEMMA TieBreakKeeps ==
    ASSUME PathInv, TieBreak
    PROVE  PathInv'
<1>1. /\ overtimes \in Nat /\ MaxOvertimes \in Nat
      /\ overtimes = MaxOvertimes /\ overtimes' = overtimes + 1
      /\ remaining = 0 /\ score[Home] = score[Away]
      /\ score \in [Team -> Nat]
      /\ mode' = "final"
      /\ UNCHANGED <<origin, remaining, box, offense, possessions>>
  BY SimulationBounds DEF TieBreak, RanOut, Tied, PathInv, TypeOK
<1>2. PICK t \in Team : score' = [score EXCEPT ![t] = score[t] + 1]
  BY DEF TieBreak
<1>3. /\ score' \in [Team -> Nat]
      /\ score'[Home] - score'[Away] \in {-1, 1}
  BY <1>1, <1>2, SimTeamsDiffer DEF Team
<1>4. TypeOK'
  BY <1>1, <1>3 DEF PathInv, TypeOK
<1>5. OvertimesBounded'
  BY <1>1 DEF OvertimesBounded
<1>6. FinalIsDecided'
  <2>1. score'[Home] \in Nat /\ score'[Away] \in Nat
    BY <1>3 DEF Team
  <2>2. score'[Home] # score'[Away]
    BY <1>3, <2>1
  <2> QED  BY <1>1, <1>3, <2>2 DEF FinalIsDecided, Tied
<1>7. IdlePlayersBookNothing'
  BY <1>1 DEF PathInv, IdlePlayersBookNothing
<1>8. PossessionsWithinClock'
  <2>1. OvertimesPlayed' = OvertimesPlayed
    BY <1>1 DEF OvertimesPlayed
  <2>2. Played' = Played
    BY <1>1, <2>1 DEF Played
  <2> QED  BY <1>1, <2>2 DEF PathInv, PossessionsWithinClock
<1> QED  BY <1>4, <1>5, <1>6, <1>7, <1>8 DEF PathInv

\* Ending a path, one way or the other, moves nothing but mode.
LEMMA ModeKeeps ==
    ASSUME PathInv, mode' \in {"playing", "final", "failed"},
           mode' = "playing" => mode = "playing",
           mode' = "final" => \/ mode = "final"
                              \/ /\ remaining = 0 /\ ~ Tied
                                 /\ overtimes <= MaxOvertimes,
           UNCHANGED <<origin, remaining, score, box, offense, overtimes,
                       possessions>>
    PROVE  PathInv'
<1>1. TypeOK' /\ OvertimesBounded' /\ IdlePlayersBookNothing'
  BY DEF PathInv, TypeOK, OvertimesBounded, IdlePlayersBookNothing
<1>2. FinalIsDecided'
  <2>1. overtimes \in Nat /\ MaxOvertimes \in Nat
    BY SimulationBounds DEF PathInv, TypeOK
  <2> QED  BY <2>1 DEF PathInv, FinalIsDecided, Tied
<1>3. PossessionsWithinClock'
  BY DEF PathInv, PossessionsWithinClock, Played, OvertimesPlayed
<1> QED  BY <1>1, <1>2, <1>3 DEF PathInv

LEMMA PathInvStep == PathInv /\ [Next]_vars => PathInv'
<1> SUFFICES ASSUME PathInv, [Next]_vars  PROVE PathInv'
  OBVIOUS
<1>1. CASE offense \in Team /\ Possession
  <2>1. PICK elapsed \in Elapsed, home \in Lineups(Home), away \in Lineups(Away) :
          LET five == [t \in Team |-> IF t = Home THEN home ELSE away]
          IN  \E shooter \in five[offense] :
                \/ Turnover(elapsed, five, shooter)
                \/ ShootingFoul(elapsed, five, shooter)
                \/ MadeShot(elapsed, five, shooter)
                \/ MissedShot(elapsed, five, shooter)
    BY <1>1 DEF Possession
  <2> DEFINE five == [t \in Team |-> IF t = Home THEN home ELSE away]
  <2> HIDE DEF five
  <2>2. PICK shooter \in five[offense] :
                \/ Turnover(elapsed, five, shooter)
                \/ ShootingFoul(elapsed, five, shooter)
                \/ MadeShot(elapsed, five, shooter)
                \/ MissedShot(elapsed, five, shooter)
    BY <2>1 DEF five
  <2> QED  BY <1>1, <2>2, TurnoverKeeps, ShootingFoulKeeps, MadeShotKeeps,
              MissedShotKeeps
<1>2. CASE NoLegalLineup
  BY <1>2, ModeKeeps DEF NoLegalLineup
<1>3. CASE Finish
  BY <1>3, ModeKeeps DEF Finish, RanOut, PathInv, OvertimesBounded
<1>4. CASE StartOvertime
  BY <1>4, StartOvertimeKeeps
<1>5. CASE TieBreak
  BY <1>5, TieBreakKeeps
<1>6. CASE UNCHANGED vars
  <2>1. mode' = mode /\ mode \in {"playing", "final", "failed"}
    BY <1>6 DEF PathInv, TypeOK, vars
  <2>2. UNCHANGED <<origin, remaining, score, box, offense, overtimes,
                    possessions>>
    BY <1>6 DEF vars
  <2>3. /\ mode' \in {"playing", "final", "failed"}
        /\ mode' = "playing" => mode = "playing"
        /\ mode' = "final" => mode = "final"
    BY <2>1
  <2> QED  BY <2>2, <2>3, ModeKeeps
<1> QED  BY <1>1, <1>2, <1>3, <1>4, <1>5, <1>6 DEF Next

LEMMA PathInvariant == Spec => []PathInv
BY PathInvInit, PathInvStep, PTL DEF Spec

-----------------------------------------------------------------------------
(***************************************************************************)
(* The totals of the teams.                                                *)
(***************************************************************************)
Total(stats, team, stat) ==
    SumFunctionOnSet([p \in Player |-> stats[p][stat]], Eligible[team])

LEMMA TotalOfBox ==
    ASSUME NEW t, NEW s
    PROVE  TeamTotal(t, s) = Total(box, t, s)
BY DEF TeamTotal, Total

LEMMA TotalType ==
    ASSUME NEW stats \in Box, NEW t \in Team, NEW s \in Stat
    PROVE  Total(stats, t, s) \in Nat
<1> DEFINE f == [p \in Player |-> stats[p][s]]
<1>1. IsFiniteSet(Eligible[t]) /\ Eligible[t] \subseteq Player
  BY EligiblePlayers DEF Team
<1>2. \A p \in Eligible[t] : f[p] \in Nat
  BY <1>1 DEF Box
<1> HIDE DEF f
<1>3. SumFunctionOnSet(f, Eligible[t]) \in Nat
  BY <1>1, <1>2, SumType
<1> QED  BY <1>3 DEF f, Total

\* Raising one stat of some players of a team by k raises the team's total of
\* it by k each; other totals stay.
LEMMA TotalRaised ==
    ASSUME NEW stats \in Box, NEW next \in Box, NEW t \in Team, NEW s \in Stat,
           NEW C \in SUBSET Eligible[t], NEW k \in Nat,
           \A p \in Eligible[t] :
              next[p][s] = IF p \in C THEN stats[p][s] + k ELSE stats[p][s]
    PROVE  Total(next, t, s) = Total(stats, t, s) + k * Cardinality(C)
<1> DEFINE f == [p \in Player |-> stats[p][s]]
<1> DEFINE g == [p \in Player |-> next[p][s]]
<1>1. IsFiniteSet(Eligible[t]) /\ Eligible[t] \subseteq Player
  BY EligiblePlayers DEF Team
<1>2. \A p \in Eligible[t] :
          /\ f[p] \in Int
          /\ g[p] = IF p \in C THEN f[p] + k ELSE f[p]
  BY <1>1 DEF Box
<1> HIDE DEF f, g
<1>3. SumFunctionOnSet(g, Eligible[t])
        = SumFunctionOnSet(f, Eligible[t]) + k * Cardinality(C)
  BY <1>1, <1>2, SumRaised
<1> QED  BY <1>3 DEF f, g, Total

\* _credit_minutes books LineupSize times the elapsed seconds for either team.
LEMMA ClockedTotals ==
    ASSUME PathInv, NEW elapsed \in Nat \ {0},
           NEW five \in [Team -> SUBSET Player],
           \A t \in Team : five[t] \in Lineups(t),
           NEW t \in Team, NEW s \in Stat
    PROVE  Total(Clocked(five, elapsed), t, s)
             = Total(box, t, s)
               + IF s = "minutes_seconds" THEN LineupSize * elapsed ELSE 0
<1> DEFINE next == Clocked(five, elapsed)
<1> DEFINE C == IF s = "minutes_seconds" THEN five[t] ELSE {}
<1>1. box \in Box /\ next \in Box
  BY ClockedBox DEF PathInv, TypeOK, Box
<1>2. /\ five[t] \subseteq Eligible[t] /\ Cardinality(five[t]) = LineupSize
      /\ Eligible[t] \subseteq Player
      /\ \A p \in Eligible[t] : p \in five[Home] \cup five[Away] <=> p \in five[t]
  BY EligiblePlayers DEF Lineups, Team
<1>3. \A p \in Eligible[t] :
          next[p][s] = IF p \in C THEN box[p][s] + elapsed ELSE box[p][s]
  <2> SUFFICES ASSUME NEW p \in Eligible[t]
               PROVE  next[p][s] = IF p \in C THEN box[p][s] + elapsed
                                              ELSE box[p][s]
    OBVIOUS
  <2>1. p \in Player /\ box[p] \in [Stat -> Nat]
    BY <1>1, <1>2 DEF Box
  <2>2. CASE p \in five[t]
    <3>1. next[p] = [box[p] EXCEPT !["minutes_seconds"] =
                                box[p]["minutes_seconds"] + elapsed]
      BY <1>2, <2>1, <2>2 DEF Clocked
    <3> QED  BY <2>1, <2>2, <3>1
  <2>3. CASE p \notin five[t]
    <3>1. next[p] = box[p]
      BY <1>2, <2>1, <2>3 DEF Clocked
    <3> QED  BY <2>3, <3>1
  <2> QED  BY <2>2, <2>3
<1>4. C \in SUBSET Eligible[t]
  BY <1>2
<1> HIDE DEF next
<1>5. Total(next, t, s) = Total(box, t, s) + elapsed * Cardinality(C)
  <2> HIDE DEF C
  <2> QED  BY <1>1, <1>3, <1>4, TotalRaised
<1>6. elapsed * Cardinality(C)
        = IF s = "minutes_seconds" THEN LineupSize * elapsed ELSE 0
  <2>1. Cardinality(C) = IF s = "minutes_seconds" THEN LineupSize ELSE 0
    BY <1>2, FS_EmptySet
  <2>2. LineupSize \in Nat
    BY SimulationBounds
  <2>3. elapsed * LineupSize = LineupSize * elapsed /\ elapsed * 0 = 0
    BY <2>2
  <2> HIDE DEF C
  <2> QED  BY <2>1, <2>3
<1> QED  BY <1>5, <1>6 DEF next

\* Crediting a player counts for his own team, and for the stat that is named.
LEMMA CreditTotals ==
    ASSUME NEW stats \in Box, NEW t \in Team, NEW p \in Eligible[t],
           NEW stat \in Stat, NEW amount \in Nat,
           NEW u \in Team, NEW s \in Stat
    PROVE  /\ Credit(stats, p, stat, amount) \in Box
           /\ Total(Credit(stats, p, stat, amount), u, s)
                = Total(stats, u, s) + IF u = t /\ s = stat THEN amount ELSE 0
<1> DEFINE next == Credit(stats, p, stat, amount)
<1> DEFINE C == IF u = t /\ s = stat THEN {p} ELSE {}
<1>1. /\ p \in Player
      /\ Eligible[u] \subseteq Player
      /\ u # t => p \notin Eligible[u]
  BY EligiblePlayers DEF Team
<1>2. stats[p] \in [Stat -> Nat]
  BY <1>1 DEF Box
<1>3. /\ next \in Box
      /\ next[p] = [stats[p] EXCEPT ![stat] = stats[p][stat] + amount]
      /\ \A q \in Player : q # p => next[q] = stats[q]
  BY <1>1, <1>2 DEF Credit, Box
<1> HIDE DEF next
<1>4. \A q \in Eligible[u] :
          next[q][s] = IF q \in C THEN stats[q][s] + amount ELSE stats[q][s]
  BY <1>1, <1>2, <1>3
<1>5. C \in SUBSET Eligible[u]
  OBVIOUS
<1>6. Total(next, u, s) = Total(stats, u, s) + amount * Cardinality(C)
  <2> HIDE DEF C
  <2> QED  BY <1>3, <1>4, <1>5, TotalRaised
<1>7. amount * Cardinality(C) = IF u = t /\ s = stat THEN amount ELSE 0
  <2>1. Cardinality(C) = IF u = t /\ s = stat THEN 1 ELSE 0
    BY FS_EmptySet, FS_Singleton
  <2> HIDE DEF C
  <2> QED  BY <2>1
<1> QED  BY <1>3, <1>6, <1>7 DEF next

(***************************************************************************)
(* What a possession books beyond the minutes: g says how much of which    *)
(* stat for which team.  The four endings differ in g only.                *)
(***************************************************************************)
FairGain(g) ==
    /\ g \in [Team -> [Stat -> Nat]]
    /\ \A t \in Team :
          /\ g[t]["minutes_seconds"] = 0
          /\ g[t]["steals"] <= g[Opponent(t)]["turnovers"]
          /\ g[t]["points"] >= 2 * g[t]["assists"]
    /\ g[Home]["blocks"] + g[Away]["blocks"]
          <= g[Home]["rebounds"] + g[Away]["rebounds"]
    /\ g[Home]["turnovers"] + g[Home]["rebounds"] + g[Home]["threes"]
       + g[Away]["turnovers"] + g[Away]["rebounds"] + g[Away]["threes"] <= 1

Books(stats, elapsed, g) ==
    \A t \in Team, s \in Stat :
        Total(stats, t, s) = Total(box, t, s) + g[t][s]
            + IF s = "minutes_seconds" THEN LineupSize * elapsed ELSE 0

SumInv == PathInv /\ ScoresAddUp /\ SecondsAddUp /\ BoxScoresFit

\* A possession with a fair gain keeps the sums.
LEMMA GainKeepsSums ==
    ASSUME SumInv, NEW elapsed, NEW five, Possess(elapsed, five),
           NEW g, FairGain(g), Books(box', elapsed, g),
           \A t \in Team : score'[t] = score[t] + g[t]["points"]
    PROVE  ScoresAddUp' /\ SecondsAddUp' /\ BoxScoresFit'
<1>1. /\ remaining \in Nat /\ possessions \in Nat /\ elapsed \in Nat \ {0}
      /\ overtimes \in Nat /\ MaxOvertimes \in Nat /\ overtimes <= MaxOvertimes
      /\ remaining' = remaining - elapsed
      /\ possessions' = possessions + 1
      /\ UNCHANGED <<origin, overtimes>>
      /\ \A t \in Team : five[t] \in Lineups(t)
      /\ LineupSize \in Nat
      /\ box \in Box
  BY SimulationBounds
     DEF SumInv, PathInv, TypeOK, OvertimesBounded, Possess, Elapsed, Box
<1>2. /\ \A t \in Team : score[t] \in Nat /\ origin.score[t] \in Nat
      /\ Home \in Team /\ Away \in Team /\ Home # Away
  BY StartsWellFormed, SimTeamsDiffer
     DEF SumInv, PathInv, TypeOK, StartState, Team
<1>3. /\ {"points", "threes", "assists", "turnovers", "steals", "blocks",
          "rebounds", "minutes_seconds"} \subseteq Stat
      /\ Opponent(Home) = Away /\ Opponent(Away) = Home
      /\ \A t \in Team : Opponent(t) \in Team
  BY SimTeamsDiffer, OpponentPlays DEF Stat, Opponent
<1>4. \A t \in Team, s \in Stat : TeamTotal(t, s) \in Nat /\ g[t][s] \in Nat
  BY <1>1, TotalType, TotalOfBox DEF FairGain
<1>5. \A t \in Team, s \in Stat :
          TeamTotal(t, s)' = TeamTotal(t, s) + g[t][s]
              + IF s = "minutes_seconds" THEN LineupSize * elapsed ELSE 0
  BY DEF Books, Total, TeamTotal
<1>6. \A t \in Team, s \in Stat \ {"minutes_seconds"} :
          TeamTotal(t, s)' = TeamTotal(t, s) + g[t][s]
  BY <1>4, <1>5
<1>7. ScoresAddUp'
  <2> DEFINE given(t) == score[t] - origin.score[t] - TeamTotal(t, "points")
  <2>1. ASSUME NEW t \in Team
        PROVE  given(t)' = given(t) /\ given(t) >= 0 /\ given(t) \in Int
    <3>1. TeamTotal(t, "points")' = TeamTotal(t, "points") + g[t]["points"]
      BY <1>3, <1>6
    <3>2. origin'.score[t] = origin.score[t]
      BY <1>1
    <3>3. given(t) >= 0
      BY DEF SumInv, ScoresAddUp
    <3>4. TeamTotal(t, "points") \in Nat /\ g[t]["points"] \in Nat
      BY <1>3, <1>4
    <3> QED  BY <1>2, <3>1, <3>2, <3>3, <3>4
  <2>2. given(Home) + given(Away) = IF overtimes > MaxOvertimes THEN 1 ELSE 0
    BY DEF SumInv, ScoresAddUp
  <2>3. overtimes' = overtimes
    BY <1>1
  <2>4. given(Home)' = given(Home) /\ given(Away)' = given(Away)
    BY <1>2, <2>1
  <2>5. \A t \in Team : given(t)' >= 0
    BY <2>1
  <2> HIDE DEF given
  <2>6. given(Home)' + given(Away)' = IF overtimes' > MaxOvertimes THEN 1 ELSE 0
    BY <2>2, <2>3, <2>4
  <2> QED  BY <2>5, <2>6 DEF ScoresAddUp, given
<1>8. SecondsAddUp'
  <2> DEFINE overtime == OvertimesPlayed * OvertimeSeconds
  <2>1. overtime \in Nat /\ origin.remaining \in Nat
    BY OvertimeClock DEF SumInv, PathInv
  <2>2. overtime' = overtime /\ origin'.remaining = origin.remaining
    BY <1>1 DEF OvertimesPlayed
  <2>3. Played = origin.remaining + overtime - remaining
    BY DEF Played
  <2>4. Played' = origin'.remaining + overtime' - remaining'
    BY DEF Played
  <2> HIDE DEF overtime
  <2>5. Played \in Int /\ Played' = Played + elapsed
    BY <1>1, <2>1, <2>2, <2>3, <2>4
  <2>6. LineupSize * Played' = LineupSize * Played + LineupSize * elapsed
    BY <1>1, <2>5
  <2>7. ASSUME NEW t \in Team
        PROVE  TeamTotal(t, "minutes_seconds")' = LineupSize * Played'
    <3>1. Lineups(t) # {}
      BY <1>1
    <3>2. TeamTotal(t, "minutes_seconds") = LineupSize * Played
      BY <3>1 DEF SumInv, SecondsAddUp
    <3>3. g[t]["minutes_seconds"] = 0
      BY DEF FairGain
    <3>4. TeamTotal(t, "minutes_seconds")'
            = TeamTotal(t, "minutes_seconds") + 0 + LineupSize * elapsed
      BY <1>3, <1>5, <3>3
    <3>5. LineupSize * elapsed \in Int /\ LineupSize * Played \in Int
      BY <1>1, <2>5
    <3> QED  BY <2>6, <3>2, <3>4, <3>5
  <2>8. \A t \in Team : Lineups(t)' # {}
    BY <1>1 DEF Lineups
  <2> QED  BY <2>7, <2>8 DEF SecondsAddUp
<1>9. BoxScoresFit'
  <2> DEFINE total(t, s) == TeamTotal(t, s)
  <2> DEFINE other == {"points", "threes", "assists", "turnovers", "steals",
                       "blocks", "rebounds"}
  <2>1. \A t \in Team, s \in other :
            /\ total(t, s)' = total(t, s) + g[t][s]
            /\ total(t, s) \in Nat /\ g[t][s] \in Nat
    BY <1>3, <1>4, <1>6
  <2>2. \A t \in Team :
            /\ total(t, "steals") <= total(Opponent(t), "turnovers")
            /\ total(t, "blocks") + total(Opponent(t), "blocks")
                  <= total(t, "rebounds") + total(Opponent(t), "rebounds")
            /\ total(t, "points") >= 2 * total(t, "assists")
            /\ (total(t, "turnovers") + total(Opponent(t), "turnovers"))
               + (total(t, "rebounds") + total(Opponent(t), "rebounds"))
               + (total(t, "threes") + total(Opponent(t), "threes"))
                  <= possessions
    BY DEF SumInv, BoxScoresFit
  <2> HIDE DEF total
  <2>3. ASSUME NEW t \in {Home, Away}
        PROVE
            /\ total(t, "steals")' <= total(Opponent(t), "turnovers")'
            /\ total(t, "blocks")' + total(Opponent(t), "blocks")'
                  <= total(t, "rebounds")' + total(Opponent(t), "rebounds")'
            /\ total(t, "points")' >= 2 * total(t, "assists")'
            /\ (total(t, "turnovers")' + total(Opponent(t), "turnovers")')
               + (total(t, "rebounds")' + total(Opponent(t), "rebounds")')
               + (total(t, "threes")' + total(Opponent(t), "threes")')
                  <= possessions'
    <3>1. t \in Team /\ Opponent(t) \in Team
      BY <1>2, <1>3
    <3>2. \A u \in {t, Opponent(t)}, s \in other :
            /\ total(u, s)' = total(u, s) + g[u][s]
            /\ total(u, s) \in Nat /\ g[u][s] \in Nat
      BY <2>1, <3>1
    <3>3. total(t, "steals")' <= total(Opponent(t), "turnovers")'
      <4>1. g[t]["steals"] <= g[Opponent(t)]["turnovers"]
        BY <3>1 DEF FairGain
      <4> QED  BY <2>2, <3>1, <3>2, <4>1
    <3>4. total(t, "blocks")' + total(Opponent(t), "blocks")'
            <= total(t, "rebounds")' + total(Opponent(t), "rebounds")'
      <4>1. g[t]["blocks"] + g[Opponent(t)]["blocks"]
              <= g[t]["rebounds"] + g[Opponent(t)]["rebounds"]
        BY <1>2, <1>3, <1>4 DEF FairGain
      <4> QED  BY <2>2, <3>1, <3>2, <4>1
    <3>5. total(t, "points")' >= 2 * total(t, "assists")'
      <4>1. g[t]["points"] >= 2 * g[t]["assists"]
        BY <3>1 DEF FairGain
      <4> QED  BY <2>2, <3>1, <3>2, <4>1
    <3>6. (total(t, "turnovers")' + total(Opponent(t), "turnovers")')
               + (total(t, "rebounds")' + total(Opponent(t), "rebounds")')
               + (total(t, "threes")' + total(Opponent(t), "threes")')
                  <= possessions'
      <4>1. (g[t]["turnovers"] + g[Opponent(t)]["turnovers"])
               + (g[t]["rebounds"] + g[Opponent(t)]["rebounds"])
               + (g[t]["threes"] + g[Opponent(t)]["threes"]) <= 1
        BY <1>2, <1>3, <1>4 DEF FairGain
      <4> QED  BY <1>1, <2>2, <3>1, <3>2, <4>1
    <3> QED  BY <3>3, <3>4, <3>5, <3>6
  <2> QED  BY <2>3 DEF BoxScoresFit, Team, total
<1> QED  BY <1>7, <1>8, <1>9

Nothing == [t \in Team |-> [s \in Stat |-> 0]]

Plus(g, t, stat, n) ==
    [u \in Team |-> [s \in Stat |-> g[u][s] + IF u = t /\ s = stat THEN n ELSE 0]]

LEMMA ClockedBooks ==
    ASSUME PathInv, NEW elapsed \in Nat \ {0},
           NEW five \in [Team -> SUBSET Player],
           \A t \in Team : five[t] \in Lineups(t)
    PROVE  /\ Nothing \in [Team -> [Stat -> Nat]]
           /\ Clocked(five, elapsed) \in Box
           /\ Books(Clocked(five, elapsed), elapsed, Nothing)
<1>1. Nothing \in [Team -> [Stat -> Nat]]
  BY DEF Nothing
<1>2. Clocked(five, elapsed) \in Box /\ box \in Box
  BY ClockedBox DEF PathInv, TypeOK, Box
<1>3. ASSUME NEW t \in Team, NEW s \in Stat
      PROVE  Total(Clocked(five, elapsed), t, s)
               = Total(box, t, s) + Nothing[t][s]
                 + IF s = "minutes_seconds" THEN LineupSize * elapsed ELSE 0
  <2>1. Total(Clocked(five, elapsed), t, s)
          = Total(box, t, s)
            + IF s = "minutes_seconds" THEN LineupSize * elapsed ELSE 0
    BY ClockedTotals
  <2>2. Total(box, t, s) \in Nat /\ Nothing[t][s] = 0
    BY <1>2, TotalType DEF Nothing
  <2> QED  BY <2>1, <2>2
<1> QED  BY <1>1, <1>2, <1>3 DEF Books

LEMMA CreditBooks ==
    ASSUME NEW elapsed \in Nat \ {0}, box \in Box,
           NEW g \in [Team -> [Stat -> Nat]],
           NEW stats \in Box, Books(stats, elapsed, g),
           NEW t \in Team, NEW p \in Eligible[t],
           NEW stat \in Stat, NEW n \in Nat
    PROVE  /\ Plus(g, t, stat, n) \in [Team -> [Stat -> Nat]]
           /\ Credit(stats, p, stat, n) \in Box
           /\ Books(Credit(stats, p, stat, n), elapsed, Plus(g, t, stat, n))
<1> DEFINE minutes(s) == IF s = "minutes_seconds" THEN LineupSize * elapsed ELSE 0
<1>1. Plus(g, t, stat, n) \in [Team -> [Stat -> Nat]]
  BY DEF Plus
<1>2. Credit(stats, p, stat, n) \in Box
  <2>1. t \in Team /\ stat \in Stat
    OBVIOUS
  <2> QED  BY <2>1, CreditTotals
<1>3. ASSUME NEW u \in Team, NEW s \in Stat
      PROVE  Total(Credit(stats, p, stat, n), u, s)
               = Total(box, u, s) + Plus(g, t, stat, n)[u][s] + minutes(s)
  <2> DEFINE gain == IF u = t /\ s = stat THEN n ELSE 0
  <2>1. Total(Credit(stats, p, stat, n), u, s) = Total(stats, u, s) + gain
    BY CreditTotals
  <2>2. Total(stats, u, s) = Total(box, u, s) + g[u][s] + minutes(s)
    BY DEF Books
  <2>3. Plus(g, t, stat, n)[u][s] = g[u][s] + gain
    BY DEF Plus
  <2>4. Total(box, u, s) \in Nat /\ g[u][s] \in Nat /\ gain \in Nat
    BY TotalType
  <2>5. minutes(s) \in Int
    BY SimulationBounds
  <2> HIDE DEF gain, minutes
  <2> QED  BY <2>1, <2>2, <2>3, <2>4, <2>5
<1> QED  BY <1>1, <1>2, <1>3 DEF Books

\* The players of the lineups, when a possession is played.
LEMMA LineupsPlay ==
    ASSUME SumInv, NEW elapsed, NEW five, Possess(elapsed, five)
    PROVE  /\ elapsed \in Nat \ {0}
           /\ five \in [Team -> SUBSET Player]
           /\ \A t \in Team : five[t] \in Lineups(t) /\ five[t] \subseteq Eligible[t]
           /\ box \in Box
BY PossessKeepsClock DEF SumInv, PathInv, TypeOK, Box, Possess, Lineups

LEMMA TurnoverSums ==
    ASSUME SumInv, offense \in Team, NEW elapsed, NEW five,
           NEW shooter \in five[offense], Turnover(elapsed, five, shooter)
    PROVE  ScoresAddUp' /\ SecondsAddUp' /\ BoxScoresFit'
<1> DEFINE defense == Opponent(offense)
<1> DEFINE lost == Credit(Clocked(five, elapsed), shooter, "turnovers", 1)
<1> DEFINE turnover == Plus(Nothing, offense, "turnovers", 1)
<1> DEFINE steal == Plus(turnover, defense, "steals", 1)
<1>1. /\ Possess(elapsed, five)
      /\ box' = lost
         \/ \E p \in five[defense] : box' = Credit(lost, p, "steals", 1)
      /\ score' = score
  BY DEF Turnover
<1>2. /\ elapsed \in Nat \ {0} /\ five \in [Team -> SUBSET Player]
      /\ \A t \in Team : five[t] \in Lineups(t) /\ five[t] \subseteq Eligible[t]
      /\ box \in Box
  BY <1>1, LineupsPlay
<1>3. defense \in Team /\ {"turnovers", "steals"} \subseteq Stat
  BY OpponentPlays DEF Stat
<1>4. /\ turnover \in [Team -> [Stat -> Nat]] /\ lost \in Box
      /\ Books(lost, elapsed, turnover)
  BY <1>2, <1>3, ClockedBooks, CreditBooks DEF SumInv
<1> HIDE DEF lost
<1>5. FairGain(turnover) /\ \A t \in Team : turnover[t]["points"] = 0
  BY <1>4, SimTeamsDiffer DEF FairGain, Plus, Nothing, Team, Stat, Opponent
<1>6. CASE box' = lost
  BY <1>1, <1>4, <1>5, <1>6, GainKeepsSums DEF SumInv, PathInv, TypeOK
<1>7. CASE \E p \in five[defense] : box' = Credit(lost, p, "steals", 1)
  <2>1. PICK p \in five[defense] : box' = Credit(lost, p, "steals", 1)
    BY <1>7
  <2> HIDE DEF turnover
  <2>2. steal \in [Team -> [Stat -> Nat]] /\ Books(box', elapsed, steal)
    <3>1. p \in Eligible[defense]
      BY <1>2, <1>3
    <3> QED  BY <1>2, <1>3, <1>4, <2>1, <3>1, CreditBooks
  <2>3. FairGain(steal) /\ \A t \in Team : steal[t]["points"] = 0
    <3> USE DEF turnover
    <3> QED  BY <2>2, SimTeamsDiffer
             DEF FairGain, Plus, Nothing, Team, Stat, Opponent
  <2> HIDE DEF steal
  <2>4. \A t \in Team : score'[t] = score[t] + steal[t]["points"]
    BY <1>1, <2>3 DEF SumInv, PathInv, TypeOK
  <2> QED  BY <1>1, <2>2, <2>3, <2>4, GainKeepsSums
<1> QED  BY <1>1, <1>6, <1>7

LEMMA ShootingFoulSums ==
    ASSUME SumInv, offense \in Team, NEW elapsed, NEW five,
           NEW shooter \in five[offense], ShootingFoul(elapsed, five, shooter)
    PROVE  ScoresAddUp' /\ SecondsAddUp' /\ BoxScoresFit'
<1>1. PICK made \in 0 .. 3 :
          /\ box' = Credit(Clocked(five, elapsed), shooter, "points", made)
          /\ score' = [score EXCEPT ![offense] = score[offense] + made]
  BY DEF ShootingFoul
<1>2. Possess(elapsed, five)
  BY DEF ShootingFoul
<1>3. /\ elapsed \in Nat \ {0} /\ five \in [Team -> SUBSET Player]
      /\ \A t \in Team : five[t] \in Lineups(t) /\ five[t] \subseteq Eligible[t]
      /\ box \in Box
  BY <1>2, LineupsPlay
<1> DEFINE g == Plus(Nothing, offense, "points", made)
<1>4. /\ g \in [Team -> [Stat -> Nat]]
      /\ Books(box', elapsed, g)
  <2>1. "points" \in Stat /\ made \in Nat
    BY DEF Stat
  <2> QED  BY <1>1, <1>3, <2>1, ClockedBooks, CreditBooks DEF SumInv
<1>5. FairGain(g)
  BY <1>4, SimTeamsDiffer DEF FairGain, Plus, Nothing, Team, Stat, Opponent
<1>6. \A t \in Team : score'[t] = score[t] + g[t]["points"]
  BY <1>1 DEF SumInv, PathInv, TypeOK, Plus, Nothing, Stat
<1> HIDE DEF g
<1> QED  BY <1>2, <1>4, <1>5, <1>6, GainKeepsSums

LEMMA MadeShotSums ==
    ASSUME SumInv, offense \in Team, NEW elapsed, NEW five,
           NEW shooter \in five[offense], MadeShot(elapsed, five, shooter)
    PROVE  ScoresAddUp' /\ SecondsAddUp' /\ BoxScoresFit'
<1> DEFINE two(points) ==
        Credit(Clocked(five, elapsed), shooter, "points", points)
<1> DEFINE scored(points) ==
        Credit(two(points), shooter, "threes", IF points = 3 THEN 1 ELSE 0)
<1>1. PICK points \in {2, 3} :
          /\ score' = [score EXCEPT ![offense] = score[offense] + points]
          /\ \/ box' = scored(points)
             \/ \E p \in five[offense] \ {shooter} :
                   box' = Credit(scored(points), p, "assists", 1)
  BY DEF MadeShot
<1>2. Possess(elapsed, five)
  BY DEF MadeShot
<1>3. /\ elapsed \in Nat \ {0} /\ five \in [Team -> SUBSET Player]
      /\ \A t \in Team : five[t] \in Lineups(t) /\ five[t] \subseteq Eligible[t]
      /\ box \in Box
  BY <1>2, LineupsPlay
<1>4. points \in Nat /\ (IF points = 3 THEN 1 ELSE 0) \in Nat
  OBVIOUS
<1>5. {"points", "threes", "assists"} \subseteq Stat
  BY DEF Stat
<1> DEFINE basket == Plus(Nothing, offense, "points", points)
<1> DEFINE three == Plus(basket, offense, "threes", IF points = 3 THEN 1 ELSE 0)
<1> DEFINE assist == Plus(three, offense, "assists", 1)
<1>6. /\ basket \in [Team -> [Stat -> Nat]] /\ two(points) \in Box
      /\ Books(two(points), elapsed, basket)
  BY <1>3, <1>4, <1>5, ClockedBooks, CreditBooks DEF SumInv
<1> HIDE DEF two, basket
<1>7. /\ three \in [Team -> [Stat -> Nat]] /\ scored(points) \in Box
      /\ Books(scored(points), elapsed, three)
  BY <1>3, <1>4, <1>5, <1>6, CreditBooks
<1> HIDE DEF scored
<1>8. FairGain(three)
  BY <1>7, SimTeamsDiffer
     DEF FairGain, Plus, Nothing, Team, Stat, Opponent, basket
<1>9. \A t \in Team : score'[t] = score[t] + three[t]["points"]
  BY <1>1 DEF SumInv, PathInv, TypeOK, Plus, Nothing, Stat, basket
<1> HIDE DEF three
<1>10. CASE box' = scored(points)
  BY <1>2, <1>7, <1>8, <1>9, <1>10, GainKeepsSums
<1>11. CASE \E p \in five[offense] \ {shooter} :
                box' = Credit(scored(points), p, "assists", 1)
  <2>1. PICK p \in five[offense] : box' = Credit(scored(points), p, "assists", 1)
    BY <1>11
  <2>2. assist \in [Team -> [Stat -> Nat]] /\ Books(box', elapsed, assist)
    <3>1. p \in Eligible[offense]
      BY <1>3
    <3> QED  BY <1>3, <1>5, <1>7, <2>1, <3>1, CreditBooks
  <2>3. FairGain(assist)
    <3>1. \A u \in Team, s \in Stat :
              assist[u][s] = IF u # offense THEN 0
                             ELSE IF s = "points" THEN points
                             ELSE IF s = "threes" THEN IF points = 3 THEN 1 ELSE 0
                             ELSE IF s = "assists" THEN 1
                             ELSE 0
      BY DEF Plus, Nothing, basket, three
    <3> HIDE DEF assist
    <3> QED  BY <2>2, <3>1, SimTeamsDiffer DEF FairGain, Team, Stat, Opponent
  <2>4. \A t \in Team : assist[t]["points"] = three[t]["points"]
    <3>1. "points" \in Stat
      BY DEF Stat
    <3> QED  BY <1>7, <3>1 DEF Plus
  <2> HIDE DEF assist
  <2> QED  BY <1>2, <1>9, <2>2, <2>3, <2>4, GainKeepsSums
<1> QED  BY <1>1, <1>10, <1>11

LEMMA MissedShotSums ==
    ASSUME SumInv, offense \in Team, NEW elapsed, NEW five,
           NEW shooter \in five[offense], MissedShot(elapsed, five, shooter)
    PROVE  ScoresAddUp' /\ SecondsAddUp' /\ BoxScoresFit'
<1> DEFINE defense == Opponent(offense)
<1> DEFINE clocked == Clocked(five, elapsed)
<1> DEFINE blocked == {Credit(clocked, p, "blocks", 1) : p \in five[defense]}
<1>1. PICK missed \in {clocked} \cup blocked, t \in Team :
          \E p \in five[t] : /\ box' = Credit(missed, p, "rebounds", 1)
                             /\ offense' = t
  BY DEF MissedShot
<1>2. PICK p \in five[t] : box' = Credit(missed, p, "rebounds", 1)
  BY <1>1
<1>3. Possess(elapsed, five) /\ score' = score
  BY DEF MissedShot
<1>4. /\ elapsed \in Nat \ {0} /\ five \in [Team -> SUBSET Player]
      /\ \A u \in Team : five[u] \in Lineups(u) /\ five[u] \subseteq Eligible[u]
      /\ box \in Box
  BY <1>3, LineupsPlay
<1>5. defense \in Team /\ {"blocks", "rebounds"} \subseteq Stat
  BY OpponentPlays DEF Stat
<1>6. p \in Eligible[t]
  BY <1>4
<1>7. /\ Nothing \in [Team -> [Stat -> Nat]] /\ clocked \in Box
      /\ Books(clocked, elapsed, Nothing)
  BY <1>4, ClockedBooks DEF SumInv
<1> HIDE DEF clocked
<1>8. \A u \in Team : score'[u] = score[u] /\ score[u] \in Nat
  BY <1>3 DEF SumInv, PathInv, TypeOK
<1> DEFINE block == Plus(Nothing, defense, "blocks", 1)
<1> DEFINE rebound(g) == Plus(g, t, "rebounds", 1)
<1>9. CASE missed = clocked
  <2>1. /\ rebound(Nothing) \in [Team -> [Stat -> Nat]]
        /\ Books(box', elapsed, rebound(Nothing))
    BY <1>2, <1>4, <1>5, <1>6, <1>7, <1>9, CreditBooks
  <2>2. FairGain(rebound(Nothing))
    BY <2>1, SimTeamsDiffer DEF FairGain, Plus, Nothing, Team, Stat, Opponent
  <2>3. \A u \in Team : rebound(Nothing)[u]["points"] = 0
    BY DEF Plus, Nothing, Stat
  <2> HIDE DEF rebound
  <2>4. \A u \in Team : score'[u] = score[u] + rebound(Nothing)[u]["points"]
    BY <1>8, <2>3
  <2> QED  BY <1>3, <2>1, <2>2, <2>4, GainKeepsSums
<1>10. CASE missed \in blocked
  <2>1. PICK q \in five[defense] : missed = Credit(clocked, q, "blocks", 1)
    BY <1>10
  <2>2. q \in Eligible[defense]
    BY <1>4, <1>5
  <2>3. /\ block \in [Team -> [Stat -> Nat]] /\ missed \in Box
        /\ Books(missed, elapsed, block)
    BY <1>4, <1>5, <1>7, <2>1, <2>2, CreditBooks
  <2> HIDE DEF block
  <2>4. /\ rebound(block) \in [Team -> [Stat -> Nat]]
        /\ Books(box', elapsed, rebound(block))
    BY <1>2, <1>4, <1>5, <1>6, <2>3, CreditBooks
  <2>5. FairGain(rebound(block))
    BY <2>4, SimTeamsDiffer
       DEF FairGain, Plus, Nothing, Team, Stat, Opponent, block
  <2>6. \A u \in Team : rebound(block)[u]["points"] = 0
    BY DEF Plus, Nothing, Stat, block
  <2> HIDE DEF rebound
  <2>7. \A u \in Team : score'[u] = score[u] + rebound(block)[u]["points"]
    BY <1>8, <2>6
  <2> QED  BY <1>3, <2>4, <2>5, <2>7, GainKeepsSums
<1> QED  BY <1>9, <1>10

-----------------------------------------------------------------------------
(***************************************************************************)
(* The sums at the top of the loop, where no box score moves.              *)
(***************************************************************************)

\* Steps that leave the scores, the box scores and the clock alone.
LEMMA StandingSums ==
    ASSUME SumInv,
           UNCHANGED <<origin, remaining, score, box, overtimes, possessions>>
    PROVE  ScoresAddUp' /\ SecondsAddUp' /\ BoxScoresFit'
<1>1. \A t, s : TeamTotal(t, s)' = TeamTotal(t, s)
  BY DEF TeamTotal
<1>2. Played' = Played
  BY DEF Played, OvertimesPlayed
<1>3. ScoresAddUp'
  BY <1>1 DEF SumInv, ScoresAddUp
<1>4. SecondsAddUp'
  BY <1>1, <1>2 DEF SumInv, SecondsAddUp, Lineups
<1>5. BoxScoresFit'
  BY <1>1 DEF SumInv, BoxScoresFit
<1> QED  BY <1>3, <1>4, <1>5

LEMMA StartOvertimeSums ==
    ASSUME SumInv, StartOvertime
    PROVE  ScoresAddUp' /\ SecondsAddUp' /\ BoxScoresFit'
<1>1. /\ overtimes \in Nat /\ MaxOvertimes \in Nat /\ OvertimeSeconds \in Nat
      /\ overtimes < MaxOvertimes /\ remaining = 0
      /\ overtimes' = overtimes + 1 /\ remaining' = OvertimeSeconds
      /\ UNCHANGED <<origin, score, box, possessions>>
  BY SimulationBounds DEF StartOvertime, RanOut, SumInv, PathInv, TypeOK
<1>2. \A t, s : TeamTotal(t, s)' = TeamTotal(t, s)
  BY <1>1 DEF TeamTotal
<1>3. Played' = Played
  <2> DEFINE overtime == OvertimesPlayed * OvertimeSeconds
  <2>1. /\ overtime \in Nat /\ origin.remaining \in Nat
        /\ (OvertimesPlayed + 1) * OvertimeSeconds = overtime + OvertimeSeconds
    BY OvertimeClock DEF SumInv, PathInv
  <2>2. OvertimesPlayed' = OvertimesPlayed + 1
    BY <1>1 DEF OvertimesPlayed
  <2>3. overtime' = overtime + OvertimeSeconds
    BY <2>1, <2>2
  <2>4. Played = origin.remaining + overtime - remaining
    BY DEF Played
  <2>5. Played' = origin'.remaining + overtime' - remaining'
    BY DEF Played
  <2> HIDE DEF overtime
  <2> QED  BY <1>1, <2>1, <2>3, <2>4, <2>5
<1>4. ScoresAddUp'
  <2>1. ~ (overtimes > MaxOvertimes) /\ ~ (overtimes' > MaxOvertimes)
    BY <1>1
  <2> QED  BY <1>1, <1>2, <2>1 DEF SumInv, ScoresAddUp
<1>5. SecondsAddUp'
  BY <1>2, <1>3 DEF SumInv, SecondsAddUp, Lineups
<1>6. BoxScoresFit'
  BY <1>1, <1>2 DEF SumInv, BoxScoresFit
<1> QED  BY <1>4, <1>5, <1>6

\* The flipped point is nobody's.
LEMMA TieBreakSums ==
    ASSUME SumInv, TieBreak
    PROVE  ScoresAddUp' /\ SecondsAddUp' /\ BoxScoresFit'
<1>1. /\ overtimes \in Nat /\ MaxOvertimes \in Nat
      /\ overtimes = MaxOvertimes /\ overtimes' = overtimes + 1
      /\ score \in [Team -> Nat]
      /\ UNCHANGED <<origin, remaining, box, possessions>>
      /\ origin.score \in [Team -> Nat]
      /\ box \in Box
  BY SimulationBounds, StartsWellFormed
     DEF TieBreak, RanOut, SumInv, PathInv, TypeOK, StartState, Box
<1>2. PICK w \in Team : score' = [score EXCEPT ![w] = score[w] + 1]
  BY DEF TieBreak
<1>3. \A t, s : TeamTotal(t, s)' = TeamTotal(t, s)
  BY <1>1 DEF TeamTotal
<1>4. Played' = Played
  BY <1>1 DEF Played, OvertimesPlayed
<1>5. ScoresAddUp'
  <2> DEFINE given(t) == score[t] - origin.score[t] - TeamTotal(t, "points")
  <2>1. "points" \in Stat /\ Home \in Team /\ Away \in Team /\ Home # Away
    BY SimTeamsDiffer DEF Stat, Team
  <2>2. \A t \in Team : /\ given(t) >= 0 /\ given(t) \in Int
                        /\ given(t)' = given(t) + IF t = w THEN 1 ELSE 0
    <3> SUFFICES ASSUME NEW t \in Team
                 PROVE  /\ given(t) >= 0 /\ given(t) \in Int
                        /\ given(t)' = given(t) + IF t = w THEN 1 ELSE 0
      OBVIOUS
    <3>1. TeamTotal(t, "points") \in Nat
      BY <1>1, <2>1, TotalType, TotalOfBox
    <3>2. score'[t] = score[t] + IF t = w THEN 1 ELSE 0
      BY <1>1, <1>2
    <3>3. given(t) >= 0
      BY DEF SumInv, ScoresAddUp
    <3>4. given(t)' = score'[t] - origin.score[t] - TeamTotal(t, "points")
      BY <1>1, <1>3
    <3> QED  BY <1>1, <3>1, <3>2, <3>3, <3>4
  <2>3. given(Home) + given(Away) = 0
    BY <1>1 DEF SumInv, ScoresAddUp
  <2> HIDE DEF given
  <2>4. given(Home)' + given(Away)' = 1
    BY <2>1, <2>2, <2>3 DEF Team
  <2>5. \A t \in Team : given(t)' >= 0
    BY <2>2
  <2>6. overtimes' > MaxOvertimes
    BY <1>1
  <2> QED  BY <2>4, <2>5, <2>6 DEF ScoresAddUp, given
<1>6. SecondsAddUp'
  BY <1>3, <1>4 DEF SumInv, SecondsAddUp, Lineups
<1>7. BoxScoresFit'
  BY <1>1, <1>3 DEF SumInv, BoxScoresFit
<1> QED  BY <1>5, <1>6, <1>7

LEMMA SumInvInit == Init => SumInv
<1> SUFFICES ASSUME Init  PROVE SumInv
  OBVIOUS
<1>1. PathInv
  BY PathInvInit
<1>2. ASSUME NEW t \in Team, NEW s \in Stat  PROVE TeamTotal(t, s) = 0
  <2> DEFINE f == [p \in Player |-> box[p][s]]
  <2>1. IsFiniteSet(Eligible[t]) /\ Eligible[t] \subseteq Player
    BY EligiblePlayers DEF Team
  <2>2. \A p \in Eligible[t] : f[p] \in Int /\ f[p] = 0 * f[p]
    BY <2>1 DEF Init
  <2> HIDE DEF f
  <2>3. SumFunctionOnSet(f, Eligible[t]) = 0 * SumFunctionOnSet(f, Eligible[t])
    <3>1. 0 \in Int
      OBVIOUS
    <3> HIDE <1>1
    <3> QED  BY <2>1, <2>2, <3>1, SumScales
  <2>4. SumFunctionOnSet(f, Eligible[t]) \in Int
    BY <2>1, <2>2, SumType
  <2>5. SumFunctionOnSet(f, Eligible[t]) = 0
    BY <2>3, <2>4
  <2> QED  BY <2>5 DEF TeamTotal, f
<1>3. /\ origin \in StartState /\ score = origin.score /\ overtimes = 0
      /\ remaining = origin.remaining /\ possessions = 0
  BY StartsWellFormed DEF Init
<1>4. {"points", "threes", "assists", "turnovers", "steals", "blocks",
       "rebounds", "minutes_seconds"} = Stat
  BY DEF Stat
<1>5. ScoresAddUp
  BY <1>2, <1>3, <1>4, SimulationBounds DEF ScoresAddUp, StartState, Team
<1>6. SecondsAddUp
  <2>1. OvertimesPlayed = 0 /\ origin.remaining \in Nat
    BY <1>3, SimulationBounds DEF OvertimesPlayed, StartState
  <2>2. OvertimesPlayed * OvertimeSeconds = 0
    BY <2>1, SimulationBounds
  <2>3. Played = 0
    BY <1>3, <2>1, <2>2 DEF Played
  <2>4. LineupSize * Played = 0
    BY <2>3, SimulationBounds
  <2> QED  BY <1>2, <1>4, <2>4 DEF SecondsAddUp
<1>7. BoxScoresFit
  BY <1>2, <1>3, <1>4, OpponentPlays DEF BoxScoresFit
<1> QED  BY <1>1, <1>5, <1>6, <1>7 DEF SumInv

LEMMA SumInvStep == SumInv /\ [Next]_vars => SumInv'
<1> SUFFICES ASSUME SumInv, [Next]_vars  PROVE SumInv'
  OBVIOUS
<1>1. PathInv'
  BY PathInvStep DEF SumInv
<1>2. CASE offense \in Team /\ Possession
  <2>1. PICK elapsed \in Elapsed, home \in Lineups(Home), away \in Lineups(Away) :
          LET five == [t \in Team |-> IF t = Home THEN home ELSE away]
          IN  \E shooter \in five[offense] :
                \/ Turnover(elapsed, five, shooter)
                \/ ShootingFoul(elapsed, five, shooter)
                \/ MadeShot(elapsed, five, shooter)
                \/ MissedShot(elapsed, five, shooter)
    BY <1>2 DEF Possession
  <2> DEFINE five == [t \in Team |-> IF t = Home THEN home ELSE away]
  <2> HIDE DEF five
  <2>2. PICK shooter \in five[offense] :
                \/ Turnover(elapsed, five, shooter)
                \/ ShootingFoul(elapsed, five, shooter)
                \/ MadeShot(elapsed, five, shooter)
                \/ MissedShot(elapsed, five, shooter)
    BY <2>1 DEF five
  <2>3. ScoresAddUp' /\ SecondsAddUp' /\ BoxScoresFit'
    BY <1>2, <2>2, TurnoverSums, ShootingFoulSums, MadeShotSums, MissedShotSums
  <2> QED  BY <1>1, <2>3 DEF SumInv
<1>3. CASE NoLegalLineup
  BY <1>1, <1>3, StandingSums DEF NoLegalLineup, SumInv
<1>4. CASE Finish
  BY <1>1, <1>4, StandingSums DEF Finish, SumInv
<1>5. CASE StartOvertime
  BY <1>1, <1>5, StartOvertimeSums DEF SumInv
<1>6. CASE TieBreak
  BY <1>1, <1>6, TieBreakSums DEF SumInv
<1>7. CASE UNCHANGED vars
  BY <1>1, <1>7, StandingSums DEF vars, SumInv
<1> QED  BY <1>2, <1>3, <1>4, <1>5, <1>6, <1>7 DEF Next

LEMMA SumInvariant == Spec => []SumInv
BY SumInvInit, SumInvStep, PTL DEF Spec

-----------------------------------------------------------------------------
(***************************************************************************)
(* The theorems.                                                           *)
(***************************************************************************)

\* The clock, the scores and every stat stay natural numbers: PlayerStats.apply
\* is never asked to take a stat below zero (domain.py:36-42).
THEOREM PathTypes == Spec => []TypeOK
BY PathInvariant, PTL DEF PathInv

\* A player who never was on the court of a path ends it with an empty line,
\* whatever the lineups, the steals and the rebounds drawn.
THEOREM IdlePlayersEmpty == Spec => []IdlePlayersBookNothing
BY PathInvariant, PTL DEF PathInv

\* A returned path has a winner and no clock left, however many overtimes are
\* allowed.
THEOREM PathsAreDecided == Spec => []FinalIsDecided
BY PathInvariant, PTL DEF PathInv

\* A path has at most one possession per second of clock played, so that the
\* possession limit is out of reach of every path shorter than that.
THEOREM PossessionsBounded == Spec => []PossessionsWithinClock
BY PathInvariant, PTL DEF PathInv

\* The scoreboard and the box scores agree: but for the point of the coin flip,
\* every point a team gained on a path is a point of one of its players, for
\* rosters and paths of any length.
THEOREM ScoresAreBooked == Spec => []ScoresAddUp
BY SumInvariant, PTL DEF SumInv

\* The minutes of a team are LineupSize times the clock that was played, through
\* every overtime.
THEOREM SecondsAreBooked == Spec => []SecondsAddUp
BY SumInvariant, PTL DEF SumInv

\* Steals, blocks and assists have their counterpart, and no possession is
\* booked twice.
THEOREM BoxScoresAreFair == Spec => []BoxScoresFit
BY SumInvariant, PTL DEF SumInv
=============================================================================
