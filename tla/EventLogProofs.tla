--------------------------- MODULE EventLogProofs ---------------------------
(***************************************************************************)
(* The state the reducer keeps one event at a time is the function of the  *)
(* whole log that EventLog states, for every log of every length.          *)
(***************************************************************************)
EXTENDS EventLog, StateEngineProofs, SetSums

-----------------------------------------------------------------------------
(***************************************************************************)
(* The latest and the first of a set of entries.                           *)
(***************************************************************************)
LEMMA LatestIs ==
    ASSUME NEW m \in Nat, NEW S \in SUBSET (1 .. m)
    PROVE  /\ Latest(S) \in 0 .. m
           /\ S = {} <=> Latest(S) = 0
           /\ S # {} => Latest(S) \in S
           /\ \A i \in S : i <= Latest(S)
<1>1. CASE S = {}
  BY <1>1 DEF Latest
<1>2. CASE S # {}
  <2> DEFINE D == {m - i : i \in S}
  <2>1. D \in SUBSET Nat /\ D # {}
    <3>1. \A i \in S : m - i \in Nat
      OBVIOUS
    <3> QED  BY <1>2, <3>1
  <2>2. \A i \in S : m - i \in D
    OBVIOUS
  <2>3. \A x \in D : \E i \in S : x = m - i
    OBVIOUS
  <2> HIDE DEF D
  <2>4. PICK k \in D : \A x \in D : k <= x
    BY <2>1, LeastNatural
  <2>5. PICK l \in S : k = m - l
    BY <2>3, <2>4
  <2>6. \A i \in S : m - l <= m - i
    BY <2>2, <2>4, <2>5
  <2>7. \A i \in S : l >= i
    BY <2>6
  <2>8. Max(S) \in S /\ \A i \in S : Max(S) >= i
    BY <2>7 DEF Max
  <2>9. \A i \in S : i \in 1 .. m
    OBVIOUS
  <2>10. Latest(S) = Max(S)
    BY <1>2 DEF Latest
  <2>11. Max(S) \in 1 .. m
    BY <2>8, <2>9
  <2>12. \A i \in S : i <= Max(S)
    BY <2>8, <2>9
  <2>13. Max(S) \in 0 .. m /\ Max(S) # 0
    BY <2>11
  <2> HIDE DEF D
  <2> QED  BY <1>2, <2>8, <2>10, <2>12, <2>13
<1> QED  BY <1>1, <1>2

LEMMA LatestGrows ==
    ASSUME NEW m \in Nat, NEW S \in SUBSET (1 .. m)
    PROVE  Latest(S \cup {m + 1}) = m + 1
<1>1. S \cup {m + 1} \in SUBSET (1 .. m + 1) /\ m + 1 \in Nat
  OBVIOUS
<1>2. /\ Latest(S \cup {m + 1}) \in 0 .. m + 1
      /\ \A i \in S \cup {m + 1} : i <= Latest(S \cup {m + 1})
  BY <1>1, LatestIs
<1> QED  BY <1>2

LEMMA FirstStays ==
    ASSUME NEW m \in Nat, NEW S \in SUBSET (1 .. m), S # {}
    PROVE  /\ Min(S) \in S
           /\ Min(S \cup {m + 1}) = Min(S)
<1>1. PICK k \in S : \A i \in S : k <= i
  BY LeastNatural
<1>2. ASSUME NEW T \in SUBSET Int, k \in T, \A i \in T : k <= i
      PROVE  Min(T) = k
  <2>1. Min(T) \in T /\ \A i \in T : Min(T) <= i
    BY <1>2 DEF Min
  <2>2. Min(T) <= k /\ k <= Min(T) /\ Min(T) \in Int /\ k \in Int
    BY <1>2, <2>1
  <2> QED  BY <2>2
<1>3. S \in SUBSET Int /\ \A i \in S : i \in 1 .. m
  OBVIOUS
<1>4. S \cup {m + 1} \in SUBSET Int /\ \A i \in S \cup {m + 1} : k <= i
  BY <1>1, <1>3
<1>5. Min(S) = k
  BY <1>1, <1>2, <1>3
<1>6. Min(S \cup {m + 1}) = k
  BY <1>1, <1>2, <1>4
<1> QED  BY <1>1, <1>5, <1>6

\* A sum over one entry more.
LEMMA SumExtends ==
    ASSUME NEW S, IsFiniteSet(S), NEW y, y \notin S, NEW f, NEW g,
           \A x \in S : f[x] \in Int /\ g[x] = f[x], g[y] \in Int
    PROVE  SumFunctionOnSet(g, S \cup {y}) = SumFunctionOnSet(f, S) + g[y]
<1>1. SumFunctionOnSet(g, S) = SumFunctionOnSet(f, S)
  BY SumAgrees
<1> QED  BY <1>1, SumInserts

-----------------------------------------------------------------------------
(***************************************************************************)
(* The log grows by one entry.                                             *)
(***************************************************************************)
Here == Len(log) + 1

\* What an entry adds to a set of entries it belongs to under condition c.
New(c) == IF c THEN {Here} ELSE {}

\* The log is a log of events, b is the next one.
Grows(b) == log \in Seq(Body) /\ log' = Append(log, b)

LEMMA Grown ==
    ASSUME NEW b \in Body, Grows(b)
    PROVE  /\ Len(log) \in Nat /\ Here \in Nat /\ Here # 0 /\ Here \notin 1 .. Len(log)
           /\ log' \in Seq(Body) /\ Len(log') = Here /\ log'[Here] = b
           /\ \A i \in 1 .. Len(log) : log[i] \in Body /\ log'[i] = log[i]
           /\ \A kind : /\ Entries(kind)' = Entries(kind) \cup New(b.kind = kind)
                        /\ Entries(kind) \in SUBSET (1 .. Len(log))
<1>1. /\ Len(log) \in Nat /\ Here \in Nat /\ Here # 0 /\ Here \notin 1 .. Len(log)
      /\ log' \in Seq(Body) /\ Len(log') = Here /\ log'[Here] = b
      /\ \A i \in 1 .. Len(log) : log[i] \in Body /\ log'[i] = log[i]
  BY DEF Grows, Here
<1>2. 1 .. Here = (1 .. Len(log)) \cup {Here}
  BY <1>1 DEF Here
<1>3. ASSUME NEW kind
      PROVE  /\ Entries(kind)' = Entries(kind) \cup New(b.kind = kind)
             /\ Entries(kind) \in SUBSET (1 .. Len(log))
  BY <1>1, <1>2 DEF Entries, New
<1> QED  BY <1>1, <1>3

\* Every set of entries is finite.
LEMMA EntriesFinite ==
    ASSUME log \in Seq(Body), NEW S \in SUBSET (1 .. Len(log))
    PROVE  IsFiniteSet(S) /\ Cardinality(S) \in Nat
<1>1. Len(log) \in Int /\ 1 \in Int
  OBVIOUS
<1>2. IsFiniteSet(1 .. Len(log))
  BY <1>1, FS_Interval
<1> QED  BY <1>2, FS_Subset, FS_CardinalityType

\* The entry a start is at moves to the new entry, or stays.
LEMMA StartGrows ==
    ASSUME NEW b \in Body, Grows(b)
    PROVE  /\ StartEntry \in 0 .. Len(log)
           /\ StartEntry' = IF b.kind = "game_started" THEN Here ELSE StartEntry
           /\ StartEntry # 0 => StartEntry \in Entries("game_started")
           /\ b.kind # "game_started" /\ StartEntry # 0 =>
                  log'[StartEntry] = log[StartEntry]
<1>1. Entries("game_started")' = Entries("game_started") \cup New(b.kind = "game_started")
  BY Grown
<1>2. Len(log) \in Nat /\ Entries("game_started") \in SUBSET (1 .. Len(log))
  BY Grown
<1>3. StartEntry \in 0 .. Len(log) /\ (StartEntry # 0 => StartEntry \in Entries("game_started"))
  BY <1>2, LatestIs DEF StartEntry
<1>4. Latest(Entries("game_started") \cup {Here}) = Here
  BY <1>2, LatestGrows DEF Here
<1>5. StartEntry' = IF b.kind = "game_started" THEN Here ELSE StartEntry
  BY <1>1, <1>4 DEF StartEntry, New
<1> QED  BY <1>2, <1>3, <1>5, Grown

\* Points and deltas of entries that were there stay what they were, and the
\* new entry adds its own.
LEMMA PointsGrow ==
    ASSUME NEW b \in Body, Grows(b), NEW S \in SUBSET Entries("score")
    PROVE  /\ Points(log, S) \in Int
           /\ Points(log', S) = Points(log, S)
           /\ b.kind = "score" => Points(log', S \cup {Here}) = Points(log, S) + b.points
<1> DEFINE f == [i \in S |-> log[i].points]
           f1 == [i \in S |-> log'[i].points]
           g == [i \in S \cup {Here} |-> log'[i].points]
<1>1. IsFiniteSet(S) /\ S \in SUBSET (1 .. Len(log)) /\ Here \notin S
  BY Grown, EntriesFinite DEF Grows
<1>2. \A i \in S : log[i].points \in Int /\ log'[i].points = log[i].points
  <2> SUFFICES ASSUME NEW i \in S  PROVE log[i].points \in Int /\ log'[i] = log[i]
    OBVIOUS
  <2>1. log[i] \in Body /\ log[i].kind = "score" /\ log'[i] = log[i]
    BY <1>1, Grown DEF Entries
  <2> QED  BY <2>1, BodyKinds DEF ScoreBody
<1>3. b.kind = "score" => b.points \in Int
  BY BodyKinds DEF ScoreBody
<1>4. log'[Here] = b
  BY Grown
<1>5. \A i \in S : f[i] \in Int /\ f1[i] = f[i] /\ g[i] = f[i]
  BY <1>2
<1>6. g[Here] = b.points
  BY <1>4
<1>7. Points(log, S) = SumFunctionOnSet(f, S) /\ Points(log', S) = SumFunctionOnSet(f1, S)
      /\ Points(log', S \cup {Here}) = SumFunctionOnSet(g, S \cup {Here})
  BY DEF Points
<1> HIDE DEF f, f1, g
<1>8. SumFunctionOnSet(f1, S) = SumFunctionOnSet(f, S)
  BY <1>1, <1>5, SumAgrees
<1>9. SumFunctionOnSet(f, S) \in Int
  BY <1>1, <1>5, SumType
<1>10. ASSUME b.kind = "score"
       PROVE  SumFunctionOnSet(g, S \cup {Here}) = SumFunctionOnSet(f, S) + g[Here]
  <2>1. g[Here] \in Int
    BY <1>3, <1>6, <1>10
  <2>2. \A i \in S : f[i] \in Int /\ g[i] = f[i]
    BY <1>5
  <2> QED  BY <1>1, <2>1, <2>2, SumExtends
<1> QED  BY <1>6, <1>7, <1>8, <1>9, <1>10

LEMMA DeltasGrow ==
    ASSUME NEW b \in Body, Grows(b), NEW S \in SUBSET Entries("stat")
    PROVE  /\ Deltas(log, S) \in Int
           /\ Deltas(log', S) = Deltas(log, S)
           /\ b.kind = "stat" => Deltas(log', S \cup {Here}) = Deltas(log, S) + b.delta
<1> DEFINE f == [i \in S |-> log[i].delta]
           f1 == [i \in S |-> log'[i].delta]
           g == [i \in S \cup {Here} |-> log'[i].delta]
<1>1. IsFiniteSet(S) /\ S \in SUBSET (1 .. Len(log)) /\ Here \notin S
  BY Grown, EntriesFinite DEF Grows
<1>2. \A i \in S : log[i].delta \in Int /\ log'[i].delta = log[i].delta
  <2> SUFFICES ASSUME NEW i \in S  PROVE log[i].delta \in Int /\ log'[i] = log[i]
    OBVIOUS
  <2>1. log[i] \in Body /\ log[i].kind = "stat" /\ log'[i] = log[i]
    BY <1>1, Grown DEF Entries
  <2> QED  BY <2>1, BodyKinds DEF StatBody
<1>3. b.kind = "stat" => b.delta \in Int
  BY BodyKinds DEF StatBody
<1>4. log'[Here] = b
  BY Grown
<1>5. \A i \in S : f[i] \in Int /\ f1[i] = f[i] /\ g[i] = f[i]
  BY <1>2
<1>6. g[Here] = b.delta
  BY <1>4
<1>7. Deltas(log, S) = SumFunctionOnSet(f, S) /\ Deltas(log', S) = SumFunctionOnSet(f1, S)
      /\ Deltas(log', S \cup {Here}) = SumFunctionOnSet(g, S \cup {Here})
  BY DEF Deltas
<1> HIDE DEF f, f1, g
<1>8. SumFunctionOnSet(f1, S) = SumFunctionOnSet(f, S)
  BY <1>1, <1>5, SumAgrees
<1>9. SumFunctionOnSet(f, S) \in Int
  BY <1>1, <1>5, SumType
<1>10. ASSUME b.kind = "stat"
       PROVE  SumFunctionOnSet(g, S \cup {Here}) = SumFunctionOnSet(f, S) + g[Here]
  <2>1. g[Here] \in Int
    BY <1>3, <1>6, <1>10
  <2>2. \A i \in S : f[i] \in Int /\ g[i] = f[i]
    BY <1>5
  <2> QED  BY <1>1, <2>1, <2>2, SumExtends
<1> QED  BY <1>6, <1>7, <1>8, <1>9, <1>10

-----------------------------------------------------------------------------
(***************************************************************************)
(* When the game is on.                                                    *)
(***************************************************************************)

\* The last start and the last game_final before an entry stay what they were,
\* and before the new entry they are the last ones of the log.
LEMMA WhistlesStay ==
    ASSUME NEW b \in Body, Grows(b)
    PROVE  /\ \A i \in 1 .. Len(log) : StartBefore(i)' = StartBefore(i)
                                      /\ FinalBefore(i)' = FinalBefore(i)
           /\ \A i : i = Here => StartBefore(i)' = StartEntry
                               /\ FinalBefore(i)' = FinalEntry
<1>1. /\ Len(log) \in Nat /\ Here = Len(log) + 1
      /\ \A kind : /\ Entries(kind)' = Entries(kind) \cup New(b.kind = kind)
                   /\ Entries(kind) \in SUBSET (1 .. Len(log))
  BY Grown DEF Here
<1>2. \A kind : \A i \in 1 .. Len(log) :
          {s \in Entries(kind)' : s < i} = {s \in Entries(kind) : s < i}
  BY <1>1 DEF New
<1>3. \A kind : \A i : i = Here => {s \in Entries(kind)' : s < i} = Entries(kind)
  BY <1>1 DEF New
<1>4. /\ \A i : StartBefore(i)' = Latest({s \in Entries("game_started")' : s < i})
      /\ \A i : FinalBefore(i)' = Latest({f \in Entries("game_final")' : f < i})
  BY DEF StartBefore, FinalBefore
<1>5. ASSUME NEW i \in 1 .. Len(log)
      PROVE  StartBefore(i)' = StartBefore(i) /\ FinalBefore(i)' = FinalBefore(i)
  BY <1>2, <1>4 DEF StartBefore, FinalBefore
<1>6. ASSUME NEW i, i = Here
      PROVE  StartBefore(i)' = StartEntry /\ FinalBefore(i)' = FinalEntry
  BY <1>3, <1>4, <1>6 DEF StartEntry, FinalEntry
<1> QED  BY <1>5, <1>6

LEMMA PlayedStep ==
    ASSUME PlayedWhileRunning, NEW b \in Body, Grows(b), Reduce(b)
    PROVE  PlayedWhileRunning'
<1>1. /\ Len(log) \in Nat /\ Len(log') = Here /\ log'[Here] = b /\ Here = Len(log) + 1
      /\ \A i \in 1 .. Len(log) : log'[i] = log[i]
  BY Grown DEF Here
<1>2. /\ StartEntry \in 0 .. Len(log)
      /\ StartEntry' = IF b.kind = "game_started" THEN Here ELSE StartEntry
  BY StartGrows
<1>3. /\ FinalEntry \in 0 .. Len(log)
      /\ FinalEntry' = IF b.kind = "game_final" THEN Here ELSE FinalEntry
  <2>1. Entries("game_final")' = Entries("game_final") \cup New(b.kind = "game_final")
    BY Grown
  <2>2. Entries("game_final") \in SUBSET (1 .. Len(log))
    BY Grown
  <2>3. FinalEntry \in 0 .. Len(log)
    BY <1>1, <2>2, LatestIs DEF FinalEntry
  <2>4. Latest(Entries("game_final") \cup {Here}) = Here
    BY <1>1, <2>2, LatestGrows
  <2> QED  BY <2>1, <2>3, <2>4 DEF FinalEntry, New
<1>4. status' = "in_progress" <=> StartEntry' > FinalEntry'
  <2>1. CASE GameStarted(b)
    BY <1>1, <1>2, <1>3, <2>1 DEF GameStarted
  <2>2. CASE GameFinal(b)
    BY <1>1, <1>2, <1>3, <2>2 DEF GameFinal
  <2>3. CASE ~ GameStarted(b) /\ ~ GameFinal(b)
    <3>1. b.kind \notin {"game_started", "game_final"} /\ status' = status
      BY <2>3 DEF Reduce, ClockSet, Score, StatEvent, Foul, Timeout, Possession,
         Substitution, Injury, OfficialCorrection
    <3> QED  BY <1>2, <1>3, <3>1 DEF PlayedWhileRunning
  <2> QED  BY <2>1, <2>2, <2>3
<1>5. b.kind \notin {"game_started", "game_final"} => StartEntry > FinalEntry
  BY DEF Reduce, GameStarted, GameFinal, ClockSet, Score, StatEvent, Foul, Timeout,
     Possession, Substitution, Injury, OfficialCorrection, Playing, PlayedWhileRunning
<1>6. ASSUME NEW i \in 1 .. Len(log'),
             log'[i].kind \notin {"game_started", "game_final"}
      PROVE  StartBefore(i)' > FinalBefore(i)'
  <2>1. CASE i = Here
    BY <1>1, <1>5, <1>6, <2>1, WhistlesStay
  <2>2. CASE i \in 1 .. Len(log)
    BY <1>1, <1>6, <2>2, WhistlesStay DEF PlayedWhileRunning
  <2> QED  BY <1>1, <2>1, <2>2
<1> QED  BY <1>4, <1>6 DEF PlayedWhileRunning

-----------------------------------------------------------------------------
(***************************************************************************)
(* The score.                                                              *)
(***************************************************************************)
LEMMA ScoreStep ==
    ASSUME TypeOK, ScoreIsReplay, NEW b \in Body, Grows(b), Reduce(b)
    PROVE  ScoreIsReplay'
<1> SUFFICES ASSUME NEW t \in Team
             PROVE  score'[t] = (IF Corrected(t)' = 0 THEN 0 ELSE log'[Corrected(t)'].value)
                                + Points(log', ScoredFor(t)')
  BY DEF ScoreIsReplay
<1> DEFINE C == {i \in Entries("official_correction") : log[i].side = t}
           reset == b.kind = "official_correction" /\ b.side = t
           scores == b.kind = "score" /\ b.team_id = t
<1>1. /\ score[t] = (IF Corrected(t) = 0 THEN 0 ELSE log[Corrected(t)].value)
                    + Points(log, ScoredFor(t))
      /\ score[t] \in Nat
  BY DEF ScoreIsReplay, TypeOK
<1>2. C \in SUBSET (1 .. Len(log)) /\ Len(log) \in Nat
  BY Grown
<1>3. Corrected(t)' = Latest(C \cup New(reset)) /\ Corrected(t) = Latest(C)
  <2>1. {i \in Entries("official_correction")' : log'[i].side = t} = C \cup New(reset)
    BY Grown DEF New
  <2> QED  BY <2>1 DEF Corrected
<1>4. /\ Corrected(t) \in 0 .. Len(log)
      /\ Corrected(t)' = IF reset THEN Here ELSE Corrected(t)
  <2> HIDE DEF C, reset
  <2> QED  BY <1>2, <1>3, LatestIs, LatestGrows DEF New, Here
<1>5. ScoredFor(t) \in SUBSET Entries("score")
  BY DEF ScoredFor
<1>6. ScoredFor(t)' = IF reset THEN {} ELSE ScoredFor(t) \cup New(scores)
  <2>1. ScoredFor(t)' = {i \in Entries("score") \cup New(b.kind = "score") :
                             i > Corrected(t)' /\ log'[i].team_id = t}
    BY Grown DEF ScoredFor
  <2>2. \A i \in Entries("score") : i \in 1 .. Len(log) /\ log'[i] = log[i]
    BY Grown
  <2>3. CASE reset
    BY <1>4, <2>1, <2>2, <2>3 DEF New, Here
  <2>4. CASE ~ reset
    <3>1. Corrected(t)' = Corrected(t) /\ Here > Corrected(t) /\ log'[Here] = b
      BY <1>2, <1>4, <2>4, Grown DEF Here
    <3> QED  BY <2>1, <2>2, <2>4, <3>1 DEF ScoredFor, New
  <2> QED  BY <2>3, <2>4
<1>7. CASE reset
  <2>1. OfficialCorrection(b)
    BY <1>7 DEF Reduce, GameStarted, ClockSet, Score, StatEvent, Foul, Timeout,
       Possession, Substitution, Injury, GameFinal
  <2>2. score'[t] = b.value /\ b.value \in Int
    BY <1>7, <2>1, BodyKinds DEF OfficialCorrection, TypeOK, CorrectionBody
  <2>3. Points(log', {}) = 0
    BY SumOfNone DEF Points
  <2>4. log'[Here].value = b.value /\ Here # 0
    BY Grown
  <2> QED  BY <1>4, <1>6, <1>7, <2>2, <2>3, <2>4
<1>8. CASE ~ reset
  <2>1. (IF Corrected(t)' = 0 THEN 0 ELSE log'[Corrected(t)'].value)
          = (IF Corrected(t) = 0 THEN 0 ELSE log[Corrected(t)].value)
    <3>1. Corrected(t) # 0 => log'[Corrected(t)] = log[Corrected(t)]
      BY <1>4, Grown
    <3> QED  BY <1>4, <1>8, <3>1
  <2>2. /\ Points(log, ScoredFor(t)) \in Int
        /\ Points(log', ScoredFor(t)) = Points(log, ScoredFor(t))
        /\ b.kind = "score" => Points(log', ScoredFor(t) \cup {Here})
                                   = Points(log, ScoredFor(t)) + b.points
    BY <1>5, PointsGrow
  <2>3. CASE scores
    <3>1. Score(b)
      BY <2>3 DEF Reduce, GameStarted, ClockSet, StatEvent, Foul, Timeout,
         Possession, Substitution, Injury, OfficialCorrection, GameFinal
    <3>2. score'[t] = score[t] + b.points /\ b.points \in Int
      BY <2>3, <3>1 DEF Score, TypeOK
    <3>3. Points(log', ScoredFor(t)') = Points(log, ScoredFor(t)) + b.points
      BY <1>6, <1>8, <2>2, <2>3 DEF New
    <3>4. IF Corrected(t) = 0 THEN TRUE ELSE log[Corrected(t)].value \in Int
      <4>1. Corrected(t) # 0 => Corrected(t) \in Entries("official_correction")
        BY <1>2, <1>3, LatestIs
      <4> QED  BY <1>4, <4>1, Grown, BodyKinds DEF Entries, CorrectionBody
    <3> QED  BY <1>1, <2>1, <2>2, <3>2, <3>3, <3>4
  <2>4. CASE ~ scores
    <3>1. score'[t] = score[t]
      <4>1. CASE Score(b)
        BY <2>4, <4>1 DEF Score, TypeOK
      <4>2. CASE OfficialCorrection(b)
        BY <1>8, <4>2 DEF OfficialCorrection, TypeOK
      <4> QED  BY <4>1, <4>2 DEF Reduce, GameStarted, ClockSet, StatEvent, Foul, Timeout,
         Possession, Substitution, Injury, GameFinal, board, court
    <3>2. ScoredFor(t)' = ScoredFor(t)
      BY <1>6, <1>8, <2>4 DEF New
    <3> QED  BY <1>1, <2>1, <2>2, <3>1, <3>2
  <2> QED  BY <2>3, <2>4
<1> QED  BY <1>7, <1>8

-----------------------------------------------------------------------------
(***************************************************************************)
(* What the log says of roster, period and injuries: the rest of the       *)
(* inductive invariant.                                                    *)
(***************************************************************************)

\* The players in the state are those of the last game_started, in the teams
\* it gave them.
RosterIsLogged ==
    /\ status = "in_progress" => StartEntry # 0
    /\ StartEntry # 0 =>
          /\ status # "scheduled"
          /\ DOMAIN players = DOMAIN log[StartEntry].players
          /\ \A p \in DOMAIN players :
                players[p].team_id = log[StartEntry].players[p].team_id

\* No clock event names a later period, and one opened every period but the
\* first.
PeriodIsLogged ==
    /\ \A i \in Entries("clock") : log[i].period <= period
    /\ period # 1 => \E i \in Entries("clock") : log[i].period = period

\* A foul is called after a start.
FoulsAreStarted == \A i \in Entries("foul") : StartBefore(i) # 0

\* Who was removed since the last start is not active.
RemovedIsLogged ==
    \A i \in Entries("injury") :
        log[i].injury_state = "removed" /\ i > StartEntry =>
            /\ log[i].player_id \in DOMAIN players
            /\ players[log[i].player_id].active = FALSE

\* Only a start changes who plays, and nothing but a start changes teams.
LEMMA RosterStays ==
    ASSUME TypeOK, NEW b \in Body, Reduce(b)
    PROVE  /\ b.kind = "game_started" =>
                 /\ status' = "in_progress" /\ DOMAIN players' = DOMAIN b.players
                 /\ \A p \in DOMAIN b.players : players'[p].team_id = b.players[p].team_id
           /\ b.kind # "game_started" =>
                 /\ DOMAIN players' = DOMAIN players
                 /\ \A p \in DOMAIN players : players'[p].team_id = players[p].team_id
                 /\ \A p \in DOMAIN players : players[p].active = FALSE =>
                                                  players'[p].active = FALSE
                 /\ (status = "in_progress" /\ status' = status)
                    \/ (b.kind = "game_final" /\ status' = "final")
<1>1. players \in [DOMAIN players -> PlayerState]
  BY DEF TypeOK
<1>2. \A p \in DOMAIN players : players[p] \in PlayerState
  BY <1>1
<1>3. CASE GameStarted(b)
  BY <1>3 DEF GameStarted
<1>4. CASE Substitution(b)
  <2>1. b.kind = "substitution" /\ status = "in_progress" /\ status' = status
        /\ players' = [players EXCEPT ![b.player_out] = Flagged(b.player_out, FALSE),
                                      ![b.player_in] = Flagged(b.player_in, TRUE)]
    BY <1>4 DEF Substitution, Playing
  <2>2. \A p \in DOMAIN players, f \in BOOLEAN :
            Flagged(p, f).team_id = players[p].team_id /\ Flagged(p, f).active = players[p].active
    BY <1>2 DEF Flagged, PlayerState
  <2> QED  BY <2>1, <2>2
<1>5. CASE Injury(b)
  <2>1. b.kind = "injury" /\ status = "in_progress" /\ status' = status
        /\ players' = [players EXCEPT ![b.player_id] =
               [players[b.player_id] EXCEPT !.injury_state = b.injury_state,
                    !.active = players[b.player_id].active /\ b.injury_state # "removed"]]
    BY <1>5 DEF Injury, Playing
  <2>2. b.player_id \in DOMAIN players =>
            /\ players'[b.player_id].team_id = players[b.player_id].team_id
            /\ players'[b.player_id].active =
                   (players[b.player_id].active /\ b.injury_state # "removed")
    BY <1>2, <2>1 DEF PlayerState
  <2>3. DOMAIN players' = DOMAIN players
        /\ \A p \in DOMAIN players : p # b.player_id => players'[p] = players[p]
    BY <2>1
  <2>4. \A p \in DOMAIN players : players'[p].team_id = players[p].team_id
    BY <2>2, <2>3
  <2>5. \A p \in DOMAIN players : players[p].active = FALSE => players'[p].active = FALSE
    BY <2>2, <2>3
  <2> QED  BY <2>1, <2>3, <2>4, <2>5
<1>6. CASE GameFinal(b)
  BY <1>6 DEF GameFinal, court
<1> QED  BY <1>3, <1>4, <1>5, <1>6 DEF Reduce, ClockSet, Score, StatEvent, Foul,
     Timeout, Possession, OfficialCorrection, court, board, Playing

LEMMA RosterStep ==
    ASSUME TypeOK, RosterIsLogged, NEW b \in Body, Grows(b), Reduce(b)
    PROVE  RosterIsLogged'
<1>1. StartEntry' = IF b.kind = "game_started" THEN Here ELSE StartEntry
  BY StartGrows
<1>2. Here # 0 /\ log'[Here] = b
  BY Grown
<1>3. CASE b.kind = "game_started"
  BY <1>1, <1>2, <1>3, RosterStays DEF RosterIsLogged
<1>4. CASE b.kind # "game_started"
  <2>1. StartEntry # 0 => log'[StartEntry] = log[StartEntry]
    BY <1>4, StartGrows
  <2> QED  BY <1>1, <1>4, <2>1, RosterStays DEF RosterIsLogged
<1> QED  BY <1>3, <1>4

LEMMA RemovedStays ==
    ASSUME TypeOK, RemovedIsLogged, NEW b \in Body, Grows(b), Reduce(b)
    PROVE  RemovedIsLogged'
<1> SUFFICES ASSUME NEW i \in Entries("injury")', log'[i].injury_state = "removed",
                    i > StartEntry'
             PROVE  /\ log'[i].player_id \in DOMAIN players'
                    /\ players'[log'[i].player_id].active = FALSE
  BY DEF RemovedIsLogged
<1>1. StartEntry' = IF b.kind = "game_started" THEN Here ELSE StartEntry
  BY StartGrows
<1>2. i \in Entries("injury") \/ (i = Here /\ b.kind = "injury")
  BY Grown DEF New
<1>3. CASE i \in Entries("injury")
  <2>1. i \in 1 .. Len(log) /\ log'[i] = log[i] /\ ~ (i > Here)
    BY <1>3, Grown DEF Here
  <2>2. b.kind # "game_started"
    BY <1>1, <2>1
  <2> QED  BY <1>1, <1>3, <2>1, <2>2, RosterStays DEF RemovedIsLogged
<1>4. CASE i = Here /\ b.kind = "injury"
  <2>1. Injury(b) /\ log'[i] = b /\ b.injury_state = "removed"
    BY <1>4, Grown DEF Reduce, GameStarted, ClockSet, Score, StatEvent, Foul, Timeout,
       Possession, Substitution, OfficialCorrection, GameFinal
  <2>2. b.player_id \in DOMAIN players /\ players[b.player_id] \in PlayerState
    BY <2>1 DEF Injury, TypeOK
  <2>3. players'[b.player_id].active = FALSE /\ DOMAIN players' = DOMAIN players
    BY <2>1, <2>2 DEF Injury, PlayerState
  <2> QED  BY <2>1, <2>2, <2>3
<1> QED  BY <1>2, <1>3, <1>4

LEMMA PeriodStep ==
    ASSUME TypeOK, PeriodIsLogged, NEW b \in Body, Grows(b), Reduce(b)
    PROVE  /\ PeriodIsLogged'
           /\ PeriodEntry \in 0 .. Len(log)
           /\ IF b.kind = "clock" /\ b.period = period + 1
              THEN PeriodEntry' = Here /\ period' = period + 1
              ELSE PeriodEntry' = PeriodEntry /\ period' = period
<1> DEFINE C == {i \in Entries("clock") : log[i].period = period}
<1>1. /\ period \in Nat \ {0} /\ Len(log) \in Nat /\ Here = Len(log) + 1
      /\ C \in SUBSET (1 .. Len(log)) /\ (period # 1 => C # {})
      /\ \A i \in Entries("clock") : log'[i] = log[i] /\ log[i].period \in Int
                                     /\ log[i].period <= period
  <2>1. \A i \in Entries("clock") : log[i] \in Body /\ log[i].kind = "clock"
                                    /\ log'[i] = log[i]
    BY Grown DEF Entries
  <2>2. \A i \in Entries("clock") : log[i].period \in Int
    BY <2>1, BodyKinds DEF ClockBody
  <2>3. period \in Nat \ {0} /\ Len(log) \in Nat /\ Here = Len(log) + 1
    BY Grown DEF TypeOK, Here
  <2>4. Entries("clock") \in SUBSET (1 .. Len(log))
    BY Grown
  <2> QED  BY <2>1, <2>2, <2>3, <2>4 DEF PeriodIsLogged
<1>2. log'[Here] = b /\ Entries("clock")' = Entries("clock") \cup New(b.kind = "clock")
  BY Grown
<1>3. PeriodEntry \in 0 .. Len(log)
  <2>1. PeriodEntry = IF period = 1 THEN 0 ELSE Min(C)
    BY DEF PeriodEntry
  <2> HIDE DEF C
  <2>2. period # 1 => Min(C) \in C
    BY <1>1, FirstStays
  <2> QED  BY <1>1, <2>1, <2>2
<1>4. CASE b.kind = "clock" /\ b.period = period + 1
  <2>1. period' = period + 1
    BY <1>4 DEF Reduce, GameStarted, ClockSet, Score, StatEvent, Foul, Timeout,
       Possession, Substitution, Injury, OfficialCorrection, GameFinal
  <2>2. {i \in Entries("clock")' : log'[i].period = period'} = {Here}
    BY <1>1, <1>2, <1>4, <2>1 DEF New
  <2>3. PeriodEntry' = Min({Here})
    <3>1. period' # 1
      BY <1>1, <2>1
    <3>2. PeriodEntry' = IF period' = 1 THEN 0
                         ELSE Min({i \in Entries("clock")' : log'[i].period = period'})
      BY DEF PeriodEntry
    <3> QED  BY <2>2, <3>1, <3>2
  <2>4. Min({Here}) = Here
    BY <1>1 DEF Min
  <2>5. PeriodIsLogged'
    BY <1>1, <1>2, <1>4, <2>1 DEF PeriodIsLogged, New
  <2> QED  BY <1>3, <1>4, <2>1, <2>3, <2>4, <2>5
<1>5. CASE ~ (b.kind = "clock" /\ b.period = period + 1)
  <2>1. period' = period /\ (b.kind = "clock" => b.period = period)
    BY <1>5 DEF Reduce, GameStarted, ClockSet, Score, StatEvent, Foul, Timeout,
       Possession, Substitution, Injury, OfficialCorrection, GameFinal, board
  <2>2. {i \in Entries("clock")' : log'[i].period = period'} = C \cup New(b.kind = "clock")
    BY <1>1, <1>2, <2>1 DEF New
  <2>3. PeriodEntry' = IF period = 1 THEN 0 ELSE Min(C \cup New(b.kind = "clock"))
    BY <2>1, <2>2 DEF PeriodEntry
  <2>4. PeriodEntry = IF period = 1 THEN 0 ELSE Min(C)
    BY DEF PeriodEntry
  <2>5. PeriodIsLogged'
    BY <1>1, <1>2, <2>1 DEF PeriodIsLogged, New
  <2> HIDE DEF C
  <2>6. period # 1 => Min(C \cup New(b.kind = "clock")) = Min(C)
    BY <1>1, FirstStays DEF New
  <2> QED  BY <1>3, <1>5, <2>1, <2>3, <2>4, <2>5, <2>6
<1> QED  BY <1>4, <1>5

\* The roster an entry was applied under does not change when the log grows.
LEMMA StartBeforeStays ==
    ASSUME NEW b \in Body, Grows(b)
    PROVE  /\ \A i \in 1 .. Len(log) : /\ StartBefore(i)' = StartBefore(i)
                                       /\ StartBefore(i) \in 0 .. Len(log)
           /\ b.kind # "game_started" =>
                  \A i : i = Here => StartBefore(i)' = StartEntry
<1>1. ASSUME NEW i \in 1 .. Len(log)
      PROVE  StartBefore(i)' = StartBefore(i) /\ StartBefore(i) \in 0 .. Len(log)
  <2>1. {s \in Entries("game_started")' : s < i} = {s \in Entries("game_started") : s < i}
    BY Grown DEF New, Here
  <2>2. /\ {s \in Entries("game_started") : s < i} \in SUBSET (1 .. Len(log))
        /\ Len(log) \in Nat
    BY Grown
  <2> QED  BY <2>1, <2>2, LatestIs DEF StartBefore
<1>2. ASSUME b.kind # "game_started", NEW i, i = Here
      PROVE  StartBefore(i)' = StartEntry
  <2>1. Entries("game_started")' = Entries("game_started")
        /\ Entries("game_started") \in SUBSET (1 .. Len(log)) /\ Len(log) \in Nat
    <3>1. Entries("game_started")' = Entries("game_started") \cup New(b.kind = "game_started")
      BY Grown
    <3>2. New(b.kind = "game_started") = {}
      BY <1>2 DEF New
    <3> QED  BY <3>1, <3>2, Grown
  <2>2. {s \in Entries("game_started")' : s < i} = Entries("game_started")
    BY <1>2, <2>1 DEF Here
  <2> QED  BY <2>2 DEF StartBefore, StartEntry
<1> QED  BY <1>1, <1>2

-----------------------------------------------------------------------------
(***************************************************************************)
(* Fouls, box scores and lineups.                                          *)
(***************************************************************************)
LEMMA FoulsStep ==
    ASSUME TypeOK, RosterIsLogged, PeriodIsLogged, FoulsAreStarted, FoulsAreThisPeriods,
           NEW b \in Body, Grows(b), Reduce(b)
    PROVE  FoulsAreStarted' /\ FoulsAreThisPeriods'
<1>1. /\ \A i \in Entries("foul") : /\ StartBefore(i)' = StartBefore(i)
                                    /\ StartBefore(i) \in 1 .. Len(log)
                                    /\ log'[i] = log[i] /\ i \in 1 .. Len(log)
      /\ Entries("foul")' = Entries("foul") \cup New(b.kind = "foul")
      /\ Len(log) \in Nat /\ Here = Len(log) + 1 /\ log'[Here] = b
  <2>1. \A i \in Entries("foul") : i \in 1 .. Len(log) /\ log'[i] = log[i]
    BY Grown
  <2>2. \A i \in Entries("foul") : /\ StartBefore(i)' = StartBefore(i)
                                   /\ StartBefore(i) \in 0 .. Len(log)
                                   /\ StartBefore(i) # 0
    BY <2>1, StartBeforeStays DEF FoulsAreStarted
  <2>3. Len(log) \in Nat /\ Here = Len(log) + 1 /\ log'[Here] = b
        /\ Entries("foul")' = Entries("foul") \cup New(b.kind = "foul")
    BY Grown DEF Here
  <2> QED  BY <2>1, <2>2, <2>3
<1>2. \A i \in Entries("foul") : \A p : TeamAt(i, p)' = TeamAt(i, p)
  <2>1. \A i \in Entries("foul") : log'[StartBefore(i)] = log[StartBefore(i)]
    BY <1>1, Grown
  <2> QED  BY <1>1, <2>1 DEF TeamAt
<1>3. ASSUME b.kind = "foul"
      PROVE  /\ b.player_id \in DOMAIN players
             /\ players[b.player_id].team_id \in Team
             /\ team_fouls' = [team_fouls EXCEPT ![players[b.player_id].team_id] = @ + 1]
             /\ StartEntry # 0
             /\ \A i : i = Here => /\ StartBefore(i)' = StartEntry
                                   /\ TeamAt(i, b.player_id)' = players[b.player_id].team_id
  <2>1. Foul(b)
    BY <1>3 DEF Reduce, GameStarted, ClockSet, Score, StatEvent, Timeout, Possession,
       Substitution, Injury, OfficialCorrection, GameFinal
  <2>2. /\ b.player_id \in DOMAIN players /\ status = "in_progress"
        /\ players[b.player_id].team_id \in Team
        /\ team_fouls' = [team_fouls EXCEPT ![players[b.player_id].team_id] = @ + 1]
    BY <2>1 DEF Foul, Playing
  <2>3. StartEntry # 0 /\ log'[StartEntry] = log[StartEntry]
    BY <1>3, <2>2, StartGrows DEF RosterIsLogged
  <2>4. players[b.player_id].team_id = log[StartEntry].players[b.player_id].team_id
    BY <2>2, <2>3 DEF RosterIsLogged
  <2>5. \A i : i = Here => StartBefore(i)' = StartEntry
    BY <1>3, StartBeforeStays
  <2>6. \A i : i = Here => TeamAt(i, b.player_id)' = log'[StartEntry].players[b.player_id].team_id
    BY <2>5 DEF TeamAt
  <2> QED  BY <2>2, <2>3, <2>4, <2>5, <2>6
<1>4. FoulsAreStarted'
  BY <1>1, <1>3 DEF FoulsAreStarted, New
<1>5. ASSUME NEW t \in Team
      PROVE  team_fouls'[t] = Cardinality(FoulsOf(t)')
  <2> DEFINE called == b.kind = "foul" /\ players[b.player_id].team_id = t
             opens == b.kind = "clock" /\ b.period = period + 1
  <2>1. /\ PeriodEntry \in 0 .. Len(log)
        /\ IF opens THEN PeriodEntry' = Here /\ period' = period + 1
           ELSE PeriodEntry' = PeriodEntry /\ period' = period
    BY PeriodStep
  <2>2. FoulsOf(t) \in SUBSET (1 .. Len(log)) /\ Here \notin FoulsOf(t)
    BY <1>1 DEF FoulsOf
  <2>3. FoulsOf(t)' = {i \in Entries("foul") \cup New(b.kind = "foul") :
                           /\ i > PeriodEntry'
                           /\ log'[StartBefore(i)'].players[log'[i].player_id].team_id = t}
    BY <1>1 DEF FoulsOf, TeamAt
  <2>4. FoulsOf(t)' = IF opens THEN {} ELSE FoulsOf(t) \cup New(called)
    <3>1. CASE opens
      BY <1>1, <2>1, <2>3, <3>1 DEF New
    <3>2. CASE ~ opens
      <4>1. \A i \in Entries("foul") : i \in FoulsOf(t)' <=> i \in FoulsOf(t)
        BY <1>1, <1>2, <2>1, <2>3, <3>2 DEF FoulsOf, TeamAt
      <4>2. b.kind = "foul" => (Here \in FoulsOf(t)' <=> called)
        <5> SUFFICES ASSUME b.kind = "foul", NEW h, h = Here
                     PROVE  h \in FoulsOf(t)' <=> called
          OBVIOUS
        <5>1. h > PeriodEntry' /\ log'[h] = b
          BY <1>1, <2>1, <3>2
        <5>2. log'[StartBefore(h)'].players[b.player_id].team_id
                 = players[b.player_id].team_id
          BY <1>3 DEF TeamAt
        <5> QED  BY <2>3, <5>1, <5>2 DEF New
      <4>3. \A i \in FoulsOf(t)' : i \in Entries("foul") \/ (i = Here /\ b.kind = "foul")
        BY <2>3 DEF New
      <4>4. \A i \in FoulsOf(t) : i \in Entries("foul")
        BY DEF FoulsOf
      <4> QED  BY <3>2, <4>1, <4>2, <4>3, <4>4 DEF New
    <3> QED  BY <3>1, <3>2
  <2>5. team_fouls[t] = Cardinality(FoulsOf(t)) /\ team_fouls[t] \in Nat
    BY DEF FoulsAreThisPeriods, TypeOK
  <2>6. IsFiniteSet(FoulsOf(t))
    BY <2>2, EntriesFinite DEF Grows
  <2>7. CASE opens
    <3>1. ClockSet(b)
      BY <2>7 DEF Reduce, GameStarted, Foul, Score, StatEvent, Timeout, Possession,
         Substitution, Injury, OfficialCorrection, GameFinal
    <3>2. team_fouls'[t] = 0
      BY <2>7, <3>1 DEF ClockSet, FoulsIn, TypeOK
    <3> QED  BY <2>4, <2>7, <3>2, FS_EmptySet
  <2>8. CASE called
    <3>1. team_fouls'[t] = team_fouls[t] + 1
      BY <1>3, <2>8 DEF TypeOK
    <3>2. FoulsOf(t)' = FoulsOf(t) \cup {Here}
      BY <2>4, <2>8 DEF New
    <3> QED  BY <2>2, <2>5, <2>6, <3>1, <3>2, FS_AddElement
  <2>9. CASE ~ opens /\ ~ called
    <3>1. team_fouls'[t] = team_fouls[t]
      <4>1. CASE b.kind = "foul"
        BY <1>3, <2>9, <4>1 DEF TypeOK
      <4>2. CASE ClockSet(b)
        BY <2>1, <2>9, <4>2 DEF ClockSet, FoulsIn, TypeOK
      <4> QED  BY <4>1, <4>2 DEF Reduce, GameStarted, Foul, Score, StatEvent, Timeout,
         Possession, Substitution, Injury, OfficialCorrection, GameFinal, board
    <3>2. FoulsOf(t)' = FoulsOf(t)
      BY <2>4, <2>9 DEF New
    <3> QED  BY <2>5, <3>1, <3>2
  <2> QED  BY <2>7, <2>8, <2>9
<1> QED  BY <1>4, <1>5 DEF FoulsAreThisPeriods

LEMMA GrownCount ==
    ASSUME NEW S, IsFiniteSet(S), Here \notin S, NEW c \in BOOLEAN
    PROVE  Cardinality(S \cup New(c)) = Cardinality(S) + (IF c THEN 1 ELSE 0)
<1>1. Cardinality(S) \in Nat
  BY FS_CardinalityType
<1>2. CASE c
  <2>1. New(c) = {Here}
    BY <1>2 DEF New
  <2>2. Cardinality(S \cup {Here}) = Cardinality(S) + 1
    BY FS_AddElement
  <2> QED  BY <1>2, <2>1, <2>2
<1>3. CASE ~ c
  <2>1. S \cup New(c) = S
    BY <1>3 DEF New
  <2>2. (IF c THEN 1 ELSE 0) = 0
    BY <1>3
  <2>3. Cardinality(S) = Cardinality(S) + 0
    BY <1>1
  <2> QED  BY <2>1, <2>2, <2>3
<1> QED  BY <1>2, <1>3

LEMMA SinceGrows ==
    ASSUME NEW b \in Body, Grows(b), NEW kind, NEW p
    PROVE  /\ Since(kind, p) \in SUBSET Entries(kind)
           /\ Since(kind, p)' = IF b.kind = "game_started" THEN {}
                                ELSE Since(kind, p) \cup New(b.kind = kind /\ b.player_id = p)
<1>1. /\ Entries(kind)' = Entries(kind) \cup New(b.kind = kind)
      /\ \A i \in Entries(kind) : i \in 1 .. Len(log) /\ log'[i] = log[i]
      /\ Len(log) \in Nat /\ Here = Len(log) + 1 /\ log'[Here] = b
  BY Grown DEF Here
<1>2. /\ StartEntry' = IF b.kind = "game_started" THEN Here ELSE StartEntry
      /\ StartEntry \in 0 .. Len(log)
  BY StartGrows
<1>3. Since(kind, p)' = {i \in Entries(kind) \cup New(b.kind = kind) :
                             i > StartEntry' /\ log'[i].player_id = p}
  BY <1>1 DEF Since
<1>4. CASE b.kind = "game_started"
  BY <1>1, <1>2, <1>3, <1>4 DEF New, Since
<1>5. CASE b.kind # "game_started"
  BY <1>1, <1>2, <1>3, <1>5 DEF New, Since
<1> QED  BY <1>4, <1>5

\* What an event other than a start adds to a player's box score.
LEMMA BoxMoves ==
    ASSUME TypeOK, NEW b \in Body, Reduce(b), b.kind # "game_started",
           NEW p \in DOMAIN players
    PROVE  LET scores == b.kind = "score" /\ b.player_id = p
               credits(stat) == IF b.kind = "stat" /\ b.player_id = p /\ b.stat = stat
                                THEN b.delta ELSE 0
           IN  /\ box'[p]["points"] = box[p]["points"]
                      + (IF scores THEN b.points ELSE 0) + credits("points")
               /\ box'[p]["threes"] = box[p]["threes"]
                      + (IF scores /\ b.points = 3 THEN 1 ELSE 0) + credits("threes")
               /\ box'[p]["fouls"] = box[p]["fouls"]
                      + (IF b.kind = "foul" /\ b.player_id = p THEN 1 ELSE 0)
                      + credits("fouls")
<1>1. box \in [DOMAIN players -> [Stat -> Nat]] /\ box[p] \in [Stat -> Nat]
  BY DEF TypeOK
<1>2. /\ "points" \in Stat /\ "threes" \in Stat /\ "fouls" \in Stat
      /\ box[p]["points"] \in Nat /\ box[p]["threes"] \in Nat /\ box[p]["fouls"] \in Nat
  BY <1>1, StatsKept
<1>3. p \in Player /\ p # None
  BY NoneIsNothingElse DEF TypeOK
<1>4. CASE Score(b)
  <2>1. b.kind = "score" /\ b.points \in {1, 2, 3}
        /\ box' = IF b.player_id = None THEN box
                  ELSE [box EXCEPT ![b.player_id] = Basket(box[b.player_id], b.points)]
    BY <1>4 DEF Score
  <2>2. CASE b.player_id = p
    <3>1. box'[p] = Basket(box[p], b.points)
      BY <1>1, <1>3, <2>1, <2>2
    <3> QED  BY <1>1, <1>2, <2>1, <2>2, <3>1 DEF Basket, Credited
  <2>3. CASE b.player_id # p
    <3>1. box'[p] = box[p]
      BY <1>1, <2>1, <2>3
    <3> QED  BY <1>2, <2>1, <2>3, <3>1
  <2> QED  BY <2>2, <2>3
<1>5. CASE StatEvent(b)
  <2>1. b.kind = "stat" /\ b.delta \in Int /\ b.stat \in Stat
        /\ box' = [box EXCEPT ![b.player_id] = Credited(box[b.player_id], b.stat, b.delta)]
    BY <1>5, BodyKinds DEF StatEvent, StatBody
  <2>2. CASE b.player_id = p
    <3>1. box'[p] = Credited(box[p], b.stat, b.delta)
      BY <1>1, <2>1, <2>2
    <3> QED  BY <1>1, <1>2, <2>1, <2>2, <3>1 DEF Credited
  <2>3. CASE b.player_id # p
    <3>1. box'[p] = box[p]
      BY <1>1, <2>1, <2>3
    <3> QED  BY <1>2, <2>1, <2>3, <3>1
  <2> QED  BY <2>2, <2>3
<1>6. CASE Foul(b)
  <2>1. b.kind = "foul"
        /\ box' = [box EXCEPT ![b.player_id] = Credited(box[b.player_id], "fouls", 1)]
    BY <1>6 DEF Foul
  <2>2. CASE b.player_id = p
    <3>1. box'[p] = Credited(box[p], "fouls", 1)
      BY <1>1, <2>1, <2>2
    <3> QED  BY <1>1, <1>2, <2>1, <2>2, <3>1 DEF Credited
  <2>3. CASE b.player_id # p
    <3>1. box'[p] = box[p]
      BY <1>1, <2>1, <2>3
    <3> QED  BY <1>2, <2>1, <2>3, <3>1
  <2> QED  BY <2>2, <2>3
<1>7. CASE ~ (Score(b) \/ StatEvent(b) \/ Foul(b))
  <2>1. b.kind \notin {"score", "stat", "foul"} /\ box' = box
    BY <1>7 DEF Reduce, GameStarted, ClockSet, Timeout, Possession, Substitution,
       Injury, OfficialCorrection, GameFinal, court
  <2> QED  BY <1>2, <2>1
<1> QED  BY <1>4, <1>5, <1>6, <1>7

LEMMA BoxStep ==
    ASSUME TypeOK, BoxScoreIsReplay, NEW b \in Body, Grows(b), Reduce(b)
    PROVE  BoxScoreIsReplay'
<1> SUFFICES ASSUME NEW p \in DOMAIN players'
    PROVE  /\ box'[p]["points"] = Points(log', Since("score", p)')
                                  + Deltas(log', Credits(p, "points")')
           /\ box'[p]["threes"] = Cardinality(Threes(p)')
                                  + Deltas(log', Credits(p, "threes")')
           /\ box'[p]["fouls"] = Cardinality(Since("foul", p)')
                                 + Deltas(log', Credits(p, "fouls")')
  BY DEF BoxScoreIsReplay
<1>1. Here \notin 1 .. Len(log) /\ log'[Here] = b
  BY Grown
<1>2. \A kind : Entries(kind) \in SUBSET (1 .. Len(log))
  BY Grown
<1>3. CASE b.kind = "game_started"
  <2>1. Since("score", p)' = {} /\ Since("foul", p)' = {} /\ Since("stat", p)' = {}
    BY <1>3, SinceGrows
  <2>2. Threes(p)' = {} /\ \A stat : Credits(p, stat)' = {}
    BY <2>1 DEF Threes, Credits
  <2>3. Points(log', {}) = 0 /\ Deltas(log', {}) = 0 /\ Cardinality({}) = 0
    BY SumOfNone, FS_EmptySet DEF Points, Deltas
  <2>4. GameStarted(b)
    BY <1>3 DEF Reduce, ClockSet, Score, StatEvent, Foul, Timeout, Possession,
       Substitution, Injury, OfficialCorrection, GameFinal
  <2>5. box'[p]["points"] = 0 /\ box'[p]["threes"] = 0 /\ box'[p]["fouls"] = 0
    BY <2>4, StatsKept DEF GameStarted, FreshBox
  <2>6. /\ Points(log', Since("score", p)') = 0
        /\ Deltas(log', Credits(p, "points")') = 0
        /\ Deltas(log', Credits(p, "threes")') = 0
        /\ Deltas(log', Credits(p, "fouls")') = 0
        /\ Cardinality(Threes(p)') = 0 /\ Cardinality(Since("foul", p)') = 0
    BY <2>1, <2>2, <2>3
  <2> QED  BY <2>5, <2>6
<1>4. CASE b.kind # "game_started"
  <2> DEFINE scores == b.kind = "score" /\ b.player_id = p
             fouls == b.kind = "foul" /\ b.player_id = p
             stats == b.kind = "stat" /\ b.player_id = p
  <2>1. p \in DOMAIN players
    BY <1>4, RosterStays
  <2>2. /\ box[p]["points"] = Points(log, Since("score", p)) + Deltas(log, Credits(p, "points"))
        /\ box[p]["threes"] = Cardinality(Threes(p)) + Deltas(log, Credits(p, "threes"))
        /\ box[p]["fouls"] = Cardinality(Since("foul", p)) + Deltas(log, Credits(p, "fouls"))
    BY <2>1 DEF BoxScoreIsReplay
  <2>3. /\ Since("score", p)' = Since("score", p) \cup New(scores)
        /\ Since("foul", p)' = Since("foul", p) \cup New(fouls)
        /\ Since("stat", p)' = Since("stat", p) \cup New(stats)
        /\ Since("score", p) \in SUBSET Entries("score")
        /\ Since("foul", p) \in SUBSET Entries("foul")
        /\ Since("stat", p) \in SUBSET Entries("stat")
    BY <1>4, SinceGrows
  <2>4. /\ Points(log, Since("score", p)) \in Int
        /\ Points(log', Since("score", p)')
             = Points(log, Since("score", p)) + (IF scores THEN b.points ELSE 0)
    <3>1. /\ Points(log, Since("score", p)) \in Int
          /\ Points(log', Since("score", p)) = Points(log, Since("score", p))
          /\ b.kind = "score" => Points(log', Since("score", p) \cup {Here})
                                   = Points(log, Since("score", p)) + b.points
      BY <2>3, PointsGrow
    <3>2. CASE scores
      BY <2>3, <3>1, <3>2 DEF New
    <3>3. CASE ~ scores
      <4>1. Since("score", p)' = Since("score", p)
        BY <2>3, <3>3 DEF New
      <4> QED  BY <3>1, <3>3, <4>1
    <3> QED  BY <3>2, <3>3
  <2>5. ASSUME NEW stat
        PROVE  /\ Deltas(log, Credits(p, stat)) \in Int
               /\ Deltas(log', Credits(p, stat)')
                    = Deltas(log, Credits(p, stat))
                      + (IF stats /\ b.stat = stat THEN b.delta ELSE 0)
    <3>1. \A i \in Since("stat", p) : log'[i] = log[i]
      BY <2>3, Grown
    <3>2. Credits(p, stat)' = Credits(p, stat) \cup New(stats /\ b.stat = stat)
      BY <1>1, <2>3, <3>1 DEF Credits, New
    <3>3. Credits(p, stat) \in SUBSET Entries("stat")
      BY <2>3 DEF Credits
    <3>4. /\ Deltas(log, Credits(p, stat)) \in Int
          /\ Deltas(log', Credits(p, stat)) = Deltas(log, Credits(p, stat))
          /\ b.kind = "stat" => Deltas(log', Credits(p, stat) \cup {Here})
                                  = Deltas(log, Credits(p, stat)) + b.delta
      BY <3>3, DeltasGrow
    <3>5. CASE stats /\ b.stat = stat
      BY <3>2, <3>4, <3>5 DEF New
    <3>6. CASE ~ (stats /\ b.stat = stat)
      <4>1. Credits(p, stat)' = Credits(p, stat)
        BY <3>2, <3>6 DEF New
      <4> QED  BY <3>4, <3>6, <4>1
    <3> QED  BY <3>5, <3>6
  <2>6. /\ Cardinality(Threes(p)) \in Nat
        /\ Cardinality(Threes(p)')
             = Cardinality(Threes(p)) + (IF scores /\ b.points = 3 THEN 1 ELSE 0)
    <3>1. \A i \in Since("score", p) : log'[i] = log[i]
      BY <2>3, Grown
    <3>2. Threes(p)' = Threes(p) \cup New(scores /\ b.points = 3)
      BY <1>1, <2>3, <3>1 DEF Threes, New
    <3>3. Threes(p) \in SUBSET (1 .. Len(log))
      BY <1>2, <2>3 DEF Threes
    <3>4. IsFiniteSet(Threes(p)) /\ Cardinality(Threes(p)) \in Nat /\ Here \notin Threes(p)
      BY <1>1, <3>3, EntriesFinite DEF Grows
    <3>5. Cardinality(Threes(p) \cup New(scores /\ b.points = 3))
             = Cardinality(Threes(p)) + (IF scores /\ b.points = 3 THEN 1 ELSE 0)
      BY <3>4, GrownCount
    <3> QED  BY <3>2, <3>4, <3>5
  <2>7. /\ Cardinality(Since("foul", p)) \in Nat
        /\ Cardinality(Since("foul", p)')
             = Cardinality(Since("foul", p)) + (IF fouls THEN 1 ELSE 0)
    <3>1. Since("foul", p) \in SUBSET (1 .. Len(log))
      BY <1>2, <2>3
    <3>2. IsFiniteSet(Since("foul", p)) /\ Cardinality(Since("foul", p)) \in Nat
          /\ Here \notin Since("foul", p)
      BY <1>1, <3>1, EntriesFinite DEF Grows
    <3>3. Cardinality(Since("foul", p) \cup New(fouls))
             = Cardinality(Since("foul", p)) + (IF fouls THEN 1 ELSE 0)
      BY <3>2, GrownCount
    <3> QED  BY <2>3, <3>2, <3>3
  <2>8. (b.kind = "score" => b.points \in Int) /\ (b.kind = "stat" => b.delta \in Int)
    BY BodyKinds DEF ScoreBody, StatBody
  <2>9. /\ box'[p]["points"] = box[p]["points"] + (IF scores THEN b.points ELSE 0)
               + (IF stats /\ b.stat = "points" THEN b.delta ELSE 0)
        /\ box'[p]["threes"] = box[p]["threes"] + (IF scores /\ b.points = 3 THEN 1 ELSE 0)
               + (IF stats /\ b.stat = "threes" THEN b.delta ELSE 0)
        /\ box'[p]["fouls"] = box[p]["fouls"] + (IF fouls THEN 1 ELSE 0)
               + (IF stats /\ b.stat = "fouls" THEN b.delta ELSE 0)
    BY <1>4, <2>1, BoxMoves
  <2>10. box'[p]["points"] = Points(log', Since("score", p)')
                             + Deltas(log', Credits(p, "points")')
    BY <2>2, <2>4, <2>5, <2>8, <2>9
  <2>11. box'[p]["threes"] = Cardinality(Threes(p)') + Deltas(log', Credits(p, "threes")')
    BY <2>2, <2>5, <2>6, <2>8, <2>9
  <2>12. box'[p]["fouls"] = Cardinality(Since("foul", p)') + Deltas(log', Credits(p, "fouls")')
    BY <2>2, <2>5, <2>7, <2>8, <2>9
  <2> QED  BY <2>10, <2>11, <2>12
<1> QED  BY <1>3, <1>4

\* Who the last entry that moved a player moved where.
LEMMA MovesGrow ==
    ASSUME NEW b \in Body, Grows(b), NEW p
    PROVE  LET in == b.kind = "substitution" /\ b.player_in = p
               out == b.kind = "substitution" /\ b.player_out = p
           IN  /\ MovedIn(p) \in 0 .. Len(log) /\ MovedOut(p) \in 0 .. Len(log)
               /\ MovedIn(p)' = IF b.kind = "game_started" THEN 0
                                ELSE IF in THEN Here ELSE MovedIn(p)
               /\ MovedOut(p)' = IF b.kind = "game_started" THEN 0
                                 ELSE IF out THEN Here ELSE MovedOut(p)
<1> DEFINE in == b.kind = "substitution" /\ b.player_in = p
           out == b.kind = "substitution" /\ b.player_out = p
           I == {i \in Subs : log[i].player_in = p}
           O == {i \in Subs : log[i].player_out = p}
<1>1. /\ Entries("substitution")' = Entries("substitution") \cup New(b.kind = "substitution")
      /\ \A i \in Entries("substitution") : i \in 1 .. Len(log) /\ log'[i] = log[i]
      /\ Len(log) \in Nat /\ Here = Len(log) + 1 /\ log'[Here] = b
  BY Grown DEF Here
<1>2. /\ StartEntry' = IF b.kind = "game_started" THEN Here ELSE StartEntry
      /\ StartEntry \in 0 .. Len(log)
  BY StartGrows
<1>3. Subs' = {i \in Entries("substitution") \cup New(b.kind = "substitution") :
                   i > StartEntry'}
  BY <1>1 DEF Subs
<1>4. /\ I \in SUBSET (1 .. Len(log)) /\ O \in SUBSET (1 .. Len(log))
      /\ \A i \in Subs : log'[i] = log[i]
  BY <1>1 DEF Subs
<1>5. Subs' = IF b.kind = "game_started" THEN {} ELSE Subs \cup New(b.kind = "substitution")
  BY <1>1, <1>2, <1>3 DEF Subs, New
<1>6. MovedIn(p) = Latest(I) /\ MovedOut(p) = Latest(O)
  BY DEF MovedIn, MovedOut
<1>7. /\ {i \in Subs' : log'[i].player_in = p}
            = IF b.kind = "game_started" THEN {} ELSE I \cup New(in)
      /\ {i \in Subs' : log'[i].player_out = p}
            = IF b.kind = "game_started" THEN {} ELSE O \cup New(out)
  BY <1>1, <1>4, <1>5 DEF New
<1>8. /\ MovedIn(p)' = Latest(IF b.kind = "game_started" THEN {} ELSE I \cup New(in))
      /\ MovedOut(p)' = Latest(IF b.kind = "game_started" THEN {} ELSE O \cup New(out))
  BY <1>7 DEF MovedIn, MovedOut
<1> HIDE DEF I, O
<1>9. Latest(I) \in 0 .. Len(log) /\ Latest(O) \in 0 .. Len(log)
      /\ Latest(I \cup {Here}) = Here /\ Latest(O \cup {Here}) = Here /\ Latest({}) = 0
  BY <1>1, <1>4, LatestIs, LatestGrows DEF Latest
<1> QED  BY <1>6, <1>8, <1>9 DEF New

LEMMA LineupStep ==
    ASSUME CourtInv, RosterIsLogged, LineupIsReplay, NEW b \in Body, Grows(b), Reduce(b)
    PROVE  LineupIsReplay'
<1> SUFFICES ASSUME status' # "scheduled", StartEntry' # 0, NEW p \in DOMAIN players'
             PROVE  InLineup(p)' <=>
                       \/ MovedIn(p)' > MovedOut(p)'
                       \/ /\ MovedIn(p)' = 0 /\ MovedOut(p)' = 0
                          /\ p \in log'[StartEntry'].home_lineup
                                   \cup log'[StartEntry'].away_lineup
  BY DEF LineupIsReplay
<1> USE DEF CourtInv
<1>1. Len(log) \in Nat /\ Here = Len(log) + 1 /\ log'[Here] = b
  BY Grown DEF Here
<1>2. /\ StartEntry' = IF b.kind = "game_started" THEN Here ELSE StartEntry
      /\ b.kind # "game_started" /\ StartEntry # 0 => log'[StartEntry] = log[StartEntry]
  BY StartGrows
<1>3. /\ MovedIn(p) \in 0 .. Len(log) /\ MovedOut(p) \in 0 .. Len(log)
      /\ MovedIn(p)' = IF b.kind = "game_started" THEN 0
                       ELSE IF b.kind = "substitution" /\ b.player_in = p THEN Here
                       ELSE MovedIn(p)
      /\ MovedOut(p)' = IF b.kind = "game_started" THEN 0
                        ELSE IF b.kind = "substitution" /\ b.player_out = p THEN Here
                        ELSE MovedOut(p)
  BY MovesGrow
<1>4. CASE b.kind = "game_started"
  <2>1. GameStarted(b)
    BY <1>4 DEF Reduce, ClockSet, Score, StatEvent, Foul, Timeout, Possession,
       Substitution, Injury, OfficialCorrection, GameFinal
  <2>2. InLineup(p)' <=> p \in b.home_lineup \cup b.away_lineup
    <3>1. lineup' = [t \in Team |-> IF t = Home THEN b.home_lineup ELSE b.away_lineup]
      BY <2>1 DEF GameStarted
    <3>2. lineup'[Home] = b.home_lineup /\ lineup'[Away] = b.away_lineup
      BY <3>1, TeamsDiffer DEF Team
    <3> QED  BY <3>2 DEF InLineup
  <2> QED  BY <1>1, <1>2, <1>3, <1>4, <2>2
<1>5. CASE b.kind # "game_started"
  <2>1. /\ p \in DOMAIN players /\ StartEntry # 0 /\ status # "scheduled"
        /\ log'[StartEntry'] = log[StartEntry]
    BY <1>2, <1>5, RosterStays DEF RosterIsLogged
  <2>2. InLineup(p) <=>
            \/ MovedIn(p) > MovedOut(p)
            \/ /\ MovedIn(p) = 0 /\ MovedOut(p) = 0
               /\ p \in log[StartEntry].home_lineup \cup log[StartEntry].away_lineup
    BY <2>1 DEF LineupIsReplay
  <2>3. CASE Substitution(b)
    <3>1. PICK side \in Team :
              /\ b.player_out \in lineup[side] /\ b.player_in \notin lineup[side]
              /\ players[b.player_in].team_id = b.team_id
              /\ players[b.player_out].team_id = b.team_id
              /\ lineup' = [lineup EXCEPT ![side] =
                               (lineup[side] \ {b.player_out}) \cup {b.player_in}]
      BY <2>3 DEF Substitution, Side, Team
    <3>2. PICK other \in Team : other # side /\ Team = {side, other}
      BY TeamsDiffer DEF Team
    <3>3. lineup \in [Team -> SUBSET Player]
      BY DEF TypeOK
    <3>4. lineup'[side] = (lineup[side] \ {b.player_out}) \cup {b.player_in}
          /\ lineup'[other] = lineup[other]
      BY <3>1, <3>2, <3>3
    <3>5. InLineup(p) <=> p \in lineup[side] \cup lineup[other]
      BY <3>2 DEF InLineup, Team
    <3>6. InLineup(p)' <=> p \in lineup'[side] \cup lineup'[other]
      BY <3>2 DEF InLineup, Team
    <3>7. b.player_out \notin lineup[other]
      BY <3>1, <3>2 DEF CourtMatchesLineups
    <3>8. b.kind = "substitution" /\ b.player_in # b.player_out
      BY <2>3, <3>1 DEF Substitution
    <3>9. CASE p = b.player_in
      BY <1>1, <1>3, <3>4, <3>6, <3>8, <3>9
    <3>10. CASE p = b.player_out
      BY <1>1, <1>3, <3>4, <3>6, <3>7, <3>8, <3>10
    <3>11. CASE p # b.player_in /\ p # b.player_out
      BY <1>3, <2>1, <2>2, <3>4, <3>5, <3>6, <3>8, <3>11
    <3> QED  BY <3>9, <3>10, <3>11
  <2>4. CASE ~ Substitution(b)
    <3>1. b.kind # "substitution" /\ lineup' = lineup
      BY <1>5, <2>4 DEF Reduce, GameStarted, ClockSet, Score, StatEvent, Foul, Timeout,
         Possession, Injury, OfficialCorrection, GameFinal, court
    <3> QED  BY <1>3, <1>5, <2>1, <2>2, <3>1 DEF InLineup
  <2> QED  BY <2>3, <2>4
<1> QED  BY <1>4, <1>5

-----------------------------------------------------------------------------
(***************************************************************************)
(* Every reachable log.                                                    *)
(***************************************************************************)
LogInv ==
    /\ CourtInv
    /\ log \in Seq(Body)
    /\ RosterIsLogged /\ PeriodIsLogged /\ FoulsAreStarted /\ RemovedIsLogged
    /\ PlayedWhileRunning
    /\ ScoreIsReplay /\ FoulsAreThisPeriods /\ BoxScoreIsReplay /\ LineupIsReplay

LEMMA EmptyLog == LogInit => LogInv
<1> SUFFICES ASSUME LogInit PROVE LogInv
  OBVIOUS
<1>1. CourtInv
  BY CourtInvInit DEF LogInit
<1>2. log \in Seq(Body) /\ Len(log) = 0 /\ \A kind : Entries(kind) = {}
  BY DEF LogInit, Entries
<1>3. StartEntry = 0
  BY <1>2 DEF StartEntry, Latest
<1>4. RosterIsLogged /\ PeriodIsLogged /\ FoulsAreStarted /\ RemovedIsLogged
  BY <1>2, <1>3 DEF LogInit, Init, RosterIsLogged, PeriodIsLogged, FoulsAreStarted,
     RemovedIsLogged
<1>5. ScoreIsReplay
  <2> SUFFICES ASSUME NEW t \in Team
               PROVE  score[t] = (IF Corrected(t) = 0 THEN 0 ELSE log[Corrected(t)].value)
                                 + Points(log, ScoredFor(t))
    BY DEF ScoreIsReplay
  <2>1. Corrected(t) = 0 /\ ScoredFor(t) = {}
    BY <1>2 DEF Corrected, ScoredFor, Latest
  <2>2. Points(log, {}) = 0
    BY SumOfNone DEF Points
  <2> QED  BY <2>1, <2>2 DEF LogInit, Init
<1>6. FoulsAreThisPeriods
  <2>1. \A t \in Team : FoulsOf(t) = {}
    BY <1>2 DEF FoulsOf
  <2> QED  BY <2>1, FS_EmptySet DEF FoulsAreThisPeriods, LogInit, Init
<1>7. BoxScoreIsReplay /\ LineupIsReplay
  BY <1>3 DEF LogInit, Init, BoxScoreIsReplay, LineupIsReplay
<1>8. PlayedWhileRunning
  <2>1. FinalEntry = 0
    BY <1>2 DEF FinalEntry, Latest
  <2> QED  BY <1>2, <1>3, <2>1 DEF LogInit, Init, PlayedWhileRunning
<1> QED  BY <1>1, <1>2, <1>4, <1>5, <1>6, <1>7, <1>8 DEF LogInv

LEMMA NextEntry == LogInv /\ [LogNext]_<<vars, log>> => LogInv'
<1> SUFFICES ASSUME LogInv, [LogNext]_<<vars, log>> PROVE LogInv'
  OBVIOUS
<1>1. ASSUME NEW v \in Envelope, NEW b \in Body, Applied(v, b)
      PROVE  LogInv'
  <2>1. Apply(v, b) /\ Reduce(b) /\ Grows(b)
    BY <1>1 DEF Applied, Apply, LogInv, Grows
  <2>2. CourtInv'
    BY <2>1, CourtInvStep DEF LogInv, Next
  <2>3. log' \in Seq(Body)
    BY <2>1, Grown
  <2>4. TypeOK
    BY DEF LogInv, CourtInv
  <2>5. RosterIsLogged' /\ RemovedIsLogged' /\ PeriodIsLogged'
    BY <2>1, <2>4, RosterStep, RemovedStays, PeriodStep DEF LogInv
  <2>6. FoulsAreStarted' /\ FoulsAreThisPeriods'
    BY <2>1, <2>4, FoulsStep DEF LogInv
  <2>7. ScoreIsReplay' /\ BoxScoreIsReplay'
    BY <2>1, <2>4, ScoreStep, BoxStep DEF LogInv
  <2>8. LineupIsReplay' /\ PlayedWhileRunning'
    BY <2>1, LineupStep, PlayedStep DEF LogInv
  <2> QED  BY <2>2, <2>3, <2>5, <2>6, <2>7, <2>8 DEF LogInv
<1>2. CASE UNCHANGED <<vars, log>>
  <2>1. CourtInv'
    BY <1>2, CourtInvStep DEF LogInv
  <2>2. UNCHANGED <<status, period, score, lineup, team_fouls, players, box, log>>
    BY <1>2 DEF vars
  <2>3. /\ \A kind : Entries(kind)' = Entries(kind)
        /\ StartEntry' = StartEntry /\ PeriodEntry' = PeriodEntry /\ Subs' = Subs
        /\ \A i : StartBefore(i)' = StartBefore(i)
    BY <2>2 DEF Entries, StartEntry, PeriodEntry, Subs, StartBefore
  <2>4. /\ RosterIsLogged' = RosterIsLogged /\ PeriodIsLogged' = PeriodIsLogged
        /\ FoulsAreStarted' = FoulsAreStarted /\ RemovedIsLogged' = RemovedIsLogged
    BY <2>2, <2>3 DEF RosterIsLogged, PeriodIsLogged, FoulsAreStarted, RemovedIsLogged
  <2>5. ScoreIsReplay'
    <3>1. \A t : Corrected(t)' = Corrected(t)
      BY <2>2, <2>3 DEF Corrected
    <3>2. \A t : ScoredFor(t)' = ScoredFor(t)
      BY <2>2, <2>3, <3>1 DEF ScoredFor
    <3> QED  BY <2>2, <3>1, <3>2 DEF LogInv, ScoreIsReplay
  <2>6. FoulsAreThisPeriods'
    <3>1. \A t : FoulsOf(t)' = FoulsOf(t)
      BY <2>2, <2>3 DEF FoulsOf, TeamAt
    <3> QED  BY <2>2, <3>1 DEF LogInv, FoulsAreThisPeriods
  <2>7. BoxScoreIsReplay'
    <3>1. \A kind, p : Since(kind, p)' = Since(kind, p)
      BY <2>2, <2>3 DEF Since
    <3>2. \A p : Threes(p)' = Threes(p) /\ \A stat : Credits(p, stat)' = Credits(p, stat)
      BY <2>2, <3>1 DEF Threes, Credits
    <3> QED  BY <2>2, <3>1, <3>2 DEF LogInv, BoxScoreIsReplay
  <2>8. LineupIsReplay'
    <3>1. \A p : MovedIn(p)' = MovedIn(p) /\ MovedOut(p)' = MovedOut(p)
      BY <2>2, <2>3 DEF MovedIn, MovedOut
    <3> QED  BY <2>2, <2>3, <3>1 DEF LogInv, LineupIsReplay, InLineup
  <2>9. PlayedWhileRunning'
    <3>1. \A i : FinalBefore(i)' = FinalBefore(i) /\ FinalEntry' = FinalEntry
      BY <2>3 DEF FinalBefore, FinalEntry
    <3> QED  BY <2>2, <2>3, <3>1 DEF LogInv, PlayedWhileRunning
  <2> QED  BY <2>1, <2>2, <2>4, <2>5, <2>6, <2>7, <2>8, <2>9 DEF LogInv
<1> QED  BY <1>1, <1>2 DEF LogNext

\* The state the reducer keeps agrees with the log, entry by entry.
THEOREM LogIsInductive == LogSpec => []LogInv
BY EmptyLog, NextEntry, PTL DEF LogSpec

\* The score of a team is its last official correction and the baskets since
\* (state_engine.py:136-152, 220-231).
THEOREM ScoreReplays == LogSpec => []ScoreIsReplay
<1>1. LogInv => ScoreIsReplay
  BY DEF LogInv
<1> QED  BY <1>1, LogIsInductive, PTL

\* Between a game_final and the next game_started the log holds no event that
\* counts (state_engine.py:93-112, 233).
THEOREM NothingAfterFinal == LogSpec => []PlayedWhileRunning
<1>1. LogInv => PlayedWhileRunning
  BY DEF LogInv
<1> QED  BY <1>1, LogIsInductive, PTL

\* The fouls of a team are those called on its players in the current period,
\* each under the roster of its time (state_engine.py:128, 162).
THEOREM FoulsReplay == LogSpec => []FoulsAreThisPeriods
<1>1. LogInv => FoulsAreThisPeriods
  BY DEF LogInv
<1> QED  BY <1>1, LogIsInductive, PTL

\* A box score is what was credited to its player since the last game_started
\* (state_engine.py:93-102, 136-163).
THEOREM BoxScoreReplays == LogSpec => []BoxScoreIsReplay
<1>1. LogInv => BoxScoreIsReplay
  BY DEF LogInv
<1> QED  BY <1>1, LogIsInductive, PTL

\* A lineup is the starters and the substitutions since, in order
\* (state_engine.py:105-110, 181-202).
THEOREM LineupReplays == LogSpec => []LineupIsReplay
<1>1. LogInv => LineupIsReplay
  BY DEF LogInv
<1> QED  BY <1>1, LogIsInductive, PTL

\* A player removed since the last start is in no lineup, whatever is reported
\* of him afterwards (state_engine.py:215-217).
THEOREM RemovedIsOut == LogSpec => []RemovedStaysOut
<1>1. LogInv => RemovedStaysOut
  <2> SUFFICES ASSUME LogInv, NEW i \in Entries("injury"),
                      log[i].injury_state = "removed", i > StartEntry,
                      InLineup(log[i].player_id)
               PROVE  FALSE
    BY DEF RemovedStaysOut
  <2>1. players[log[i].player_id].active = FALSE
    BY DEF LogInv, RemovedIsLogged
  <2>2. PICK t \in Team : log[i].player_id \in lineup[t]
    BY DEF InLineup, Team
  <2>3. players[log[i].player_id].active
    BY <2>2 DEF LogInv, CourtInv, CourtMatchesLineups
  <2> QED  BY <2>1, <2>3
<1> QED  BY <1>1, LogIsInductive, PTL
=============================================================================
