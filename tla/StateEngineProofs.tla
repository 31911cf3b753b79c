------------------------- MODULE StateEngineProofs -------------------------
(***************************************************************************)
(* Proofs about StateEngine, for every set of players, every lineup size   *)
(* and every feed.                                                         *)
(***************************************************************************)
EXTENDS StateEngine, SequenceTheorems, TLAPS

\* An event is well formed, and its kind tells which payload it has.
LEMMA BodyKinds ==
    ASSUME NEW b \in Body
    PROVE  /\ b.kind = "game_started" => b \in GameStartedBody
           /\ b.kind = "clock" => b \in ClockBody
           /\ b.kind = "score" => b \in ScoreBody
           /\ b.kind = "stat" => b \in StatBody
           /\ b.kind = "foul" => b \in FoulBody
           /\ b.kind = "timeout" => b \in TimeoutBody
           /\ b.kind = "possession" => b \in PossessionBody
           /\ b.kind = "substitution" => b \in SubstitutionBody
           /\ b.kind = "injury" => b \in InjuryBody
           /\ b.kind = "official_correction" => b \in CorrectionBody
           /\ b.kind = "game_final" => b \in FinalBody
<1>1. b \in BodyType
  BY EventsWellFormed
<1>2. QED
  BY <1>1 DEF BodyType, GameStartedBody, ClockBody, ScoreBody, StatBody,
     FoulBody, TimeoutBody, PossessionBody, SubstitutionBody, InjuryBody,
     CorrectionBody, FinalBody

LEMMA EnvelopeFields ==
    ASSUME NEW v \in Envelope, Accepts(v)
    PROVE  /\ v.event_id \in EventId
           /\ v.sequence \in Nat
           /\ v.source \in Nat
           /\ v.received \in Nat
BY EventsWellFormed DEF EnvelopeType, Accepts

\* The part of the state every accepted event writes in the same way.
LEMMA BookTypes ==
    ASSUME TypeOK, NEW v \in Envelope, Accepts(v), Commit(v)
    PROVE  /\ sequence' \in Nat
           /\ last_source' \in Nat
           /\ last_received' \in Nat
           /\ seen' \subseteq EventId
           /\ history' \in Seq([event_id : EventId, sequence : Nat])
BY EnvelopeFields DEF TypeOK, Commit

LEMMA CreditedType ==
    ASSUME NEW stats \in [Stat -> Nat], NEW stat \in Stat, NEW delta \in Int,
           stats[stat] + delta >= 0
    PROVE  Credited(stats, stat, delta) \in [Stat -> Nat]
<1>1. stats[stat] + delta \in Nat
  OBVIOUS
<1>2. QED
  BY <1>1 DEF Credited

LEMMA CreditedOne ==
    ASSUME NEW stats \in [Stat -> Nat], NEW stat \in Stat
    PROVE  Credited(stats, stat, 1) \in [Stat -> Nat]
<1>1. stats[stat] + 1 >= 0
  OBVIOUS
<1>2. QED
  BY <1>1, CreditedType

LEMMA BasketType ==
    ASSUME NEW stats \in [Stat -> Nat], NEW points \in Nat
    PROVE  Basket(stats, points) \in [Stat -> Nat]
<1> DEFINE scored == Credited(stats, "points", points)
<1>1. scored \in [Stat -> Nat]
  BY StatsKept, CreditedType
<1>2. Credited(scored, "threes", 1) \in [Stat -> Nat]
  BY <1>1, StatsKept, CreditedType
<1>3. QED
  BY <1>1, <1>2 DEF Basket

LEMMA FlagUpdate ==
    ASSUME NEW r \in PlayerState, NEW flag \in BOOLEAN
    PROVE  [r EXCEPT !.on_court = flag] \in PlayerState
BY DEF PlayerState

LEMMA InjuryUpdate ==
    ASSUME NEW r \in PlayerState, NEW state \in InjuryState, NEW act \in BOOLEAN
    PROVE  [r EXCEPT !.injury_state = state, !.active = act] \in PlayerState
BY DEF PlayerState

LEMMA FlaggedType ==
    ASSUME TypeOK, NEW p \in DOMAIN players
    PROVE  \A flag \in BOOLEAN : Flagged(p, flag) \in PlayerState
<1>1. players \in [DOMAIN players -> PlayerState]
  BY DEF TypeOK
<1>2. players[p] \in PlayerState
  BY <1>1
<1>3. QED
  BY <1>2, FlagUpdate DEF Flagged

\* A lineup or roster the code can hold, whatever the event that built it.
LEMMA CourtTypes ==
    ASSUME TypeOK, NEW b \in Body, Reduce(b)
    PROVE  /\ lineup' \in [Team -> SUBSET Player]
           /\ DOMAIN players' \subseteq Player
           /\ players' \in [DOMAIN players' -> PlayerState]
           /\ box' \in [DOMAIN players' -> [Stat -> Nat]]
<1>1. CASE GameStarted(b)
  <2>1. b \in GameStartedBody
    BY <1>1, BodyKinds DEF GameStarted
  <2>2. /\ DOMAIN b.players \subseteq Player
        /\ b.players \in [DOMAIN b.players -> RosterEntry]
        /\ b.home_lineup \subseteq Player /\ b.away_lineup \subseteq Player
    BY <2>1 DEF GameStartedBody
  <2>3. DOMAIN players' = DOMAIN b.players
    BY <1>1 DEF GameStarted
  <2>4. players' \in [DOMAIN players' -> PlayerState]
    BY <1>1, <2>2, <2>3
       DEF GameStarted, PlayerState, RosterEntry, InjuryState
  <2>5. QED
    BY <1>1, <2>2, <2>3, <2>4 DEF GameStarted, FreshBox, Team
<1>2. CASE ClockSet(b)
  BY <1>2 DEF ClockSet, TypeOK, court
<1>3. CASE Score(b)
  <2>1. b.points \in Nat
    BY <1>3 DEF Score
  <2>2. CASE b.player_id = None
    BY <1>3, <2>2 DEF Score, TypeOK
  <2>3. CASE b.player_id # None
    <3>1. b.player_id \in DOMAIN players
      BY <1>3, <2>3 DEF Score
    <3>2. box[b.player_id] \in [Stat -> Nat]
      BY <3>1 DEF TypeOK
    <3>3. Basket(box[b.player_id], b.points) \in [Stat -> Nat]
      BY <2>1, <3>2, BasketType
    <3>4. /\ box' = [box EXCEPT ![b.player_id] =
                               Basket(box[b.player_id], b.points)]
          /\ UNCHANGED <<lineup, players>>
      BY <1>3, <2>3 DEF Score
    <3>5. QED
      BY <3>1, <3>3, <3>4 DEF TypeOK
  <2>4. QED
    BY <2>2, <2>3
<1>4. CASE StatEvent(b)
  <2>1. b.delta \in Int
    BY <1>4, BodyKinds DEF StatEvent, StatBody
  <2>2. box[b.player_id] \in [Stat -> Nat]
    BY <1>4 DEF StatEvent, TypeOK
  <2>3. Credited(box[b.player_id], b.stat, b.delta) \in [Stat -> Nat]
    BY <1>4, <2>1, <2>2, CreditedType DEF StatEvent
  <2>4. QED
    BY <1>4, <2>3 DEF StatEvent, TypeOK
<1>5. CASE Foul(b)
  <2>1. box[b.player_id] \in [Stat -> Nat]
    BY <1>5 DEF Foul, TypeOK
  <2>2. Credited(box[b.player_id], "fouls", 1) \in [Stat -> Nat]
    BY <2>1, StatsKept, CreditedOne
  <2>3. /\ box' = [box EXCEPT ![b.player_id] =
                             Credited(box[b.player_id], "fouls", 1)]
        /\ UNCHANGED <<lineup, players>>
    BY <1>5 DEF Foul
  <2>4. QED
    BY <2>2, <2>3 DEF TypeOK
<1>6. CASE Timeout(b)
  BY <1>6 DEF Timeout, TypeOK, court
<1>7. CASE Possession(b)
  BY <1>7 DEF Possession, TypeOK, court
<1>8. CASE Substitution(b)
  <2>1. b.player_out \in Player /\ b.player_in \in Player
    BY <1>8, BodyKinds DEF Substitution, SubstitutionBody
  <2>2. lineup' \in [Team -> SUBSET Player]
    BY <1>8, <2>1 DEF Substitution, TypeOK, Side, Team
  <2>3. DOMAIN players' = DOMAIN players /\ box' = box
    BY <1>8 DEF Substitution
  <2>4. players' \in [DOMAIN players -> PlayerState]
    BY <1>8, FlaggedType DEF Substitution, TypeOK
  <2>5. QED
    BY <2>2, <2>3, <2>4 DEF TypeOK
<1>9. CASE Injury(b)
  <2>1. /\ DOMAIN players' = DOMAIN players
        /\ UNCHANGED <<lineup, box>>
    BY <1>9 DEF Injury
  <2>2. players' \in [DOMAIN players -> PlayerState]
    <3> DEFINE r == players[b.player_id]
               act == r.active /\ b.injury_state # "removed"
    <3>1. r \in PlayerState /\ b.injury_state \in InjuryState
      BY <1>9 DEF Injury, TypeOK
    <3>2. act \in BOOLEAN
      OBVIOUS
    <3>3. [r EXCEPT !.injury_state = b.injury_state, !.active = act]
            \in PlayerState
      BY <3>1, <3>2, InjuryUpdate
    <3>4. players' = [players EXCEPT ![b.player_id] =
              [r EXCEPT !.injury_state = b.injury_state, !.active = act]]
      BY <1>9 DEF Injury
    <3> HIDE DEF r, act
    <3>5. QED
      BY <3>3, <3>4 DEF TypeOK
  <2>3. QED
    BY <2>1, <2>2 DEF TypeOK
<1>10. CASE OfficialCorrection(b)
  BY <1>10 DEF OfficialCorrection, TypeOK, court
<1>11. CASE GameFinal(b)
  BY <1>11 DEF GameFinal, TypeOK, court
<1>12. QED
  BY <1>1, <1>2, <1>3, <1>4, <1>5, <1>6, <1>7, <1>8, <1>9, <1>10, <1>11
     DEF Reduce

LEMMA BoardTypes ==
    ASSUME TypeOK, NEW b \in Body, Reduce(b), ValidState'
    PROVE  /\ status' \in {"scheduled", "in_progress", "final"}
           /\ period' \in Nat \ {0}
           /\ clock' \in 0 .. PeriodLength(period)'
           /\ score' \in [Team -> Nat]
           /\ possession' \in Team \cup {Stranger, None}
           /\ team_fouls' \in [Team -> Nat]
           /\ timeouts' \in [Team -> 0 .. InitialTimeouts]
<1>0. clock' \in 0 .. PeriodLength(period)'
  BY DEF ValidState
<1>1. CASE GameStarted(b)
  <2>1. b.possession_team \in Team \cup {Stranger, None}
    BY <1>1, BodyKinds DEF GameStarted, GameStartedBody
  <2>2. QED
    BY <1>0, <1>1, <2>1 DEF GameStarted, TypeOK
<1>2. CASE ClockSet(b)
  <2>1. b.period \in Int
    BY <1>2, BodyKinds DEF ClockSet, ClockBody
  <2>2. period' \in Nat \ {0}
    BY <1>2, <2>1 DEF ClockSet, TypeOK
  <2>3. QED
    BY <1>0, <1>2, <2>2 DEF ClockSet, FoulsIn, TypeOK
<1>3. CASE Score(b)
  <2>1. b.points \in Nat /\ b.team_id \in Team
    BY <1>3 DEF Score
  <2>2. score' = [score EXCEPT ![b.team_id] = score[b.team_id] + b.points]
    BY <1>3 DEF Score
  <2>3. UNCHANGED <<status, period, clock, team_fouls, timeouts, possession>>
    BY <1>3 DEF Score
  <2>4. score' \in [Team -> Nat]
    BY <2>1, <2>2 DEF TypeOK
  <2>5. QED
    BY <1>0, <2>3, <2>4 DEF TypeOK
<1>4. CASE StatEvent(b)
  BY <1>0, <1>4 DEF StatEvent, TypeOK, board
<1>5. CASE Foul(b)
  <2> DEFINE t == players[b.player_id].team_id
  <2>1. t \in Team
    BY <1>5 DEF Foul
  <2>2. team_fouls' = [team_fouls EXCEPT ![t] = team_fouls[t] + 1]
    BY <1>5 DEF Foul
  <2>3. UNCHANGED <<status, period, clock, score, timeouts, possession>>
    BY <1>5 DEF Foul
  <2> HIDE DEF t
  <2>4. team_fouls' \in [Team -> Nat]
    BY <2>1, <2>2 DEF TypeOK
  <2>5. QED
    BY <1>0, <2>3, <2>4 DEF TypeOK
<1>6. CASE Timeout(b)
  <2>1. timeouts' \in [Team -> 0 .. InitialTimeouts]
    BY <1>6, GameShape DEF Timeout, TypeOK
  <2>2. QED
    BY <1>0, <1>6, <2>1 DEF Timeout, TypeOK
<1>7. CASE Possession(b)
  BY <1>0, <1>7 DEF Possession, TypeOK
<1>8. CASE Substitution(b)
  <2>1. UNCHANGED <<status, board>>
    BY <1>8 DEF Substitution
  <2>2. QED
    BY <1>0, <2>1 DEF TypeOK, board
<1>9. CASE Injury(b)
  <2>1. UNCHANGED <<status, board>>
    BY <1>9 DEF Injury
  <2>2. QED
    BY <1>0, <2>1 DEF TypeOK, board
<1>10. CASE OfficialCorrection(b)
  <2>1. b.value \in Nat
    BY <1>10, BodyKinds DEF OfficialCorrection, CorrectionBody
  <2>2. QED
    BY <1>0, <1>10, <2>1 DEF OfficialCorrection, TypeOK
<1>11. CASE GameFinal(b)
  BY <1>0, <1>11 DEF GameFinal, TypeOK
<1>12. QED
  BY <1>1, <1>2, <1>3, <1>4, <1>5, <1>6, <1>7, <1>8, <1>9, <1>10, <1>11
     DEF Reduce

LEMMA TypeInit == Init => TypeOK
<1> SUFFICES ASSUME Init PROVE TypeOK
  OBVIOUS
<1>1. clock \in 0 .. PeriodLength(period)
  BY GameShape DEF Init, PeriodLength
<1>2. DOMAIN players = {} /\ players \in [{} -> PlayerState]
  BY DEF Init
<1>3. box \in [{} -> [Stat -> Nat]]
  BY DEF Init
<1>4. history \in Seq([event_id : EventId, sequence : Nat])
  BY DEF Init
<1>5. timeouts \in [Team -> 0 .. InitialTimeouts]
  BY GameShape DEF Init
<1>6. QED
  BY <1>1, <1>2, <1>3, <1>4, <1>5 DEF Init, TypeOK

LEMMA TypeStep == TypeOK /\ [Next]_vars => TypeOK'
<1> SUFFICES ASSUME TypeOK, [Next]_vars PROVE TypeOK'
  OBVIOUS
<1>1. ASSUME NEW v \in Envelope, NEW b \in Body, Apply(v, b)
      PROVE  TypeOK'
  <2>1. Accepts(v) /\ Reduce(b) /\ Commit(v) /\ ValidState'
    BY <1>1 DEF Apply, Commit
  <2>2. QED
    BY <2>1, CourtTypes, BoardTypes, BookTypes DEF TypeOK
<1>2. CASE UNCHANGED vars
  BY <1>2 DEF vars, TypeOK, PeriodLength
<1>3. QED
  BY <1>1, <1>2 DEF Next

\* The state never loses its shape: whatever the feed sends, the scores, fouls
\* and timeouts are naturals within their bounds, the clock fits its period,
\* and players, box scores and lineups speak of the same players
\* (StateEngine.apply).
THEOREM TypeCorrect == Spec => []TypeOK
<1>1. QED
  BY TypeInit, TypeStep, PTL DEF Spec
-----------------------------------------------------------------------------
(***************************************************************************)
(* The court.  Nothing in _validate_state looks at the on_court flags; they *)
(* stay right because the two places that write them, game_started and     *)
(* substitution, write the lineups too, and because a player of one team   *)
(* is never in the lineup of the other.                                    *)
(***************************************************************************)

\* What validation leaves behind in every state that is in progress.
LineupsFull ==
    status = "in_progress" =>
        \A t \in Team : Cardinality(lineup[t]) = LineupSize

LEMMA ValidatedLineups ==
    ASSUME ValidState', status' = "in_progress"
    PROVE  /\ \A t \in Team : \A p \in lineup'[t] :
                 /\ p \in DOMAIN players'
                 /\ players'[p].team_id = t /\ players'[p].active
           /\ LineupsFull'
BY DEF ValidState, ValidLineup, LineupsFull

LEMMA StatusAfter ==
    ASSUME NEW b \in Body, Reduce(b)
    PROVE  \/ status' = "in_progress"
           \/ GameFinal(b)
BY DEF Reduce, GameStarted, ClockSet, Score, StatEvent, Foul, Timeout,
   Possession, Substitution, Injury, OfficialCorrection, Playing

\* The kinds of event that leave the court alone.
LEMMA CourtMovers ==
    ASSUME NEW b \in Body, Reduce(b)
    PROVE  \/ GameStarted(b) \/ Substitution(b) \/ Injury(b)
           \/ UNCHANGED <<lineup, players>>
BY DEF Reduce, ClockSet, Score, StatEvent, Foul, Timeout, Possession,
   OfficialCorrection, GameFinal, court

LEMMA CourtStep ==
    ASSUME TypeOK, CourtMatchesLineups, NEW v \in Envelope, NEW b \in Body,
           Apply(v, b)
    PROVE  CourtMatchesLineups'
<1> USE DEF InLineup
<1>1. Reduce(b) /\ ValidState'
  BY DEF Apply, Commit
<1>2. \A t \in Team : \A p \in lineup'[t] :
         p \in DOMAIN players' /\ players'[p].team_id = t /\ players'[p].active
  <2>1. CASE status' = "in_progress"
    BY <1>1, <2>1, ValidatedLineups
  <2>2. CASE GameFinal(b)
    BY <2>2 DEF GameFinal, court, CourtMatchesLineups
  <2>3. QED
    BY <1>1, <2>1, <2>2, StatusAfter
<1>3. \A p \in DOMAIN players' :
         players'[p].on_court <=> p \in lineup'[Home] \cup lineup'[Away]
  <2>1. CASE GameStarted(b)
    <3> DEFINE on == b.home_lineup \cup b.away_lineup
    <3>1. lineup'[Home] = b.home_lineup /\ lineup'[Away] = b.away_lineup
      BY <2>1, TeamsDiffer DEF GameStarted, Team
    <3>2. /\ DOMAIN players' = DOMAIN b.players
          /\ \A p \in DOMAIN b.players : players'[p].on_court = (p \in on)
      BY <2>1 DEF GameStarted
    <3>3. QED
      BY <3>1, <3>2
  <2>2. CASE Substitution(b)
    <3> DEFINE side == Side(b.team_id)
               out == b.player_out
               in == b.player_in
    <3>1. /\ side \in Team
          /\ out \in lineup[side] /\ in \notin lineup[side]
          /\ out \in DOMAIN players /\ in \in DOMAIN players
          /\ players[out].team_id = players[in].team_id
          /\ lineup' = [lineup EXCEPT ![side] = (lineup[side] \ {out}) \cup {in}]
          /\ players' = [players EXCEPT ![out] = Flagged(out, FALSE),
                                        ![in] = Flagged(in, TRUE)]
      BY <2>2 DEF Substitution, Side, Team
    <3>2. PICK other \in Team : other # side /\ Team = {side, other}
      BY <3>1, TeamsDiffer DEF Team
    <3>3. out \notin lineup[other] /\ in \notin lineup[other]
      BY <3>1, <3>2 DEF CourtMatchesLineups
    <3>4. \A p \in DOMAIN players : players[p].on_court <=>
             p \in lineup[side] \cup lineup[other]
      BY <3>2 DEF CourtMatchesLineups, Team
    <3>5. \A p \in DOMAIN players :
             p \in lineup'[Home] \cup lineup'[Away]
             <=> p = in \/ (p # out /\ p \in lineup[side] \cup lineup[other])
      BY <3>1, <3>2, <3>3 DEF TypeOK, Team
    <3>6. /\ DOMAIN players' = DOMAIN players
          /\ players'[in] = Flagged(in, TRUE)
          /\ players'[out] = Flagged(out, FALSE)
          /\ \A p \in DOMAIN players : p \notin {in, out} => players'[p] = players[p]
      BY <3>1
    <3>7. Flagged(in, TRUE).on_court /\ ~ Flagged(out, FALSE).on_court
      <4>1. players[in] \in PlayerState /\ players[out] \in PlayerState
        BY <3>1 DEF TypeOK
      <4>2. QED
        BY <4>1 DEF Flagged, PlayerState
    <3>8. QED
      BY <3>1, <3>4, <3>5, <3>6, <3>7
  <2>3. CASE Injury(b)
    <3>1. b.player_id \in DOMAIN players /\ lineup' = lineup
          /\ DOMAIN players' = DOMAIN players
      BY <2>3 DEF Injury
    <3>2. \A p \in DOMAIN players : players'[p].on_court = players[p].on_court
      BY <2>3, <3>1 DEF Injury, TypeOK, PlayerState
    <3>3. QED
      BY <3>1, <3>2 DEF CourtMatchesLineups
  <2>4. CASE UNCHANGED <<lineup, players>>
    BY <2>4 DEF CourtMatchesLineups
  <2>5. QED
    BY <1>1, <2>1, <2>2, <2>3, <2>4, CourtMovers
<1>4. QED
  BY <1>2, <1>3 DEF CourtMatchesLineups

\* A removed player can only have been removed off the court, and nothing but a
\* new game_started makes him active again.
RemovedIsInactive ==
    \A p \in DOMAIN players :
        players[p].injury_state = "removed" => ~ players[p].active

LEMMA RemovedStep ==
    ASSUME TypeOK, RemovedIsInactive, NEW b \in Body, Reduce(b)
    PROVE  RemovedIsInactive'
<1>1. CASE GameStarted(b)
  <2>1. \A p \in DOMAIN players' : players'[p].injury_state = "healthy"
    BY <1>1 DEF GameStarted
  <2>2. QED
    BY <2>1 DEF RemovedIsInactive
<1>2. CASE Substitution(b)
  <2>1. \A p \in DOMAIN players :
           /\ players'[p].injury_state = players[p].injury_state
           /\ players'[p].active = players[p].active
    <3>1. players \in [DOMAIN players -> PlayerState]
      BY DEF TypeOK
    <3>2. QED
      BY <1>2, <3>1 DEF Substitution, Flagged, PlayerState
  <2>2. DOMAIN players' = DOMAIN players
    BY <1>2 DEF Substitution
  <2>3. QED
    BY <2>1, <2>2 DEF RemovedIsInactive
<1>3. CASE Injury(b)
  <2> DEFINE q == b.player_id
  <2>1. players \in [DOMAIN players -> PlayerState]
    BY DEF TypeOK
  <2>2. /\ DOMAIN players' = DOMAIN players
        /\ q \in DOMAIN players
        /\ \A p \in DOMAIN players : p # q => players'[p] = players[p]
    BY <1>3 DEF Injury
  <2>3. players'[q].injury_state = "removed" => ~ players'[q].active
    <3> DEFINE act == players[q].active /\ b.injury_state # "removed"
    <3>1. players[q] \in PlayerState
      BY <2>1, <2>2
    <3>2. players'[q] = [players[q] EXCEPT !.injury_state = b.injury_state,
                                           !.active = act]
      BY <1>3, <2>2 DEF Injury
    <3>3. act \in BOOLEAN /\ (b.injury_state = "removed" => ~ act)
      OBVIOUS
    <3> HIDE DEF act
    <3>4. players'[q].injury_state = b.injury_state /\ players'[q].active = act
      BY <3>1, <3>2 DEF PlayerState
    <3>5. QED
      BY <3>3, <3>4
  <2>4. QED
    BY <2>2, <2>3 DEF RemovedIsInactive
<1>4. CASE UNCHANGED <<lineup, players>>
  BY <1>4 DEF RemovedIsInactive
<1>5. QED
  BY <1>1, <1>2, <1>3, <1>4, CourtMovers

\* The inductive invariant of the court.
CourtInv ==
    /\ TypeOK
    /\ CourtMatchesLineups
    /\ LineupsFull
    /\ RemovedIsInactive

LEMMA CourtInvInit == Init => CourtInv
<1> SUFFICES ASSUME Init PROVE CourtInv
  OBVIOUS
<1>1. DOMAIN players = {} /\ \A t \in Team : lineup[t] = {}
  BY DEF Init
<1>2. QED
  BY <1>1, TypeInit DEF CourtInv, CourtMatchesLineups, LineupsFull,
     RemovedIsInactive, Init

LEMMA CourtInvStep == CourtInv /\ [Next]_vars => CourtInv'
<1> SUFFICES ASSUME CourtInv, [Next]_vars PROVE CourtInv'
  OBVIOUS
<1>1. TypeOK'
  BY TypeStep DEF CourtInv
<1>2. ASSUME NEW v \in Envelope, NEW b \in Body, Apply(v, b)
      PROVE  CourtInv'
  <2>1. Reduce(b) /\ ValidState'
    BY <1>2 DEF Apply, Commit
  <2>2. CourtMatchesLineups'
    BY <1>2, CourtStep DEF CourtInv
  <2>3. RemovedIsInactive'
    BY <2>1, RemovedStep DEF CourtInv
  <2>4. LineupsFull'
    <3>1. CASE status' = "in_progress"
      BY <2>1, <3>1, ValidatedLineups
    <3>2. CASE GameFinal(b)
      BY <3>2 DEF GameFinal, LineupsFull
    <3>3. QED
      BY <2>1, <3>1, <3>2, StatusAfter
  <2>5. QED
    BY <1>1, <2>2, <2>3, <2>4 DEF CourtInv
<1>3. CASE UNCHANGED vars
  <2>1. UNCHANGED <<status, lineup, players>>
    BY <1>3 DEF vars
  <2>2. QED
    BY <1>1, <2>1 DEF CourtInv, CourtMatchesLineups, LineupsFull,
       RemovedIsInactive, InLineup
<1>4. QED
  BY <1>2, <1>3 DEF Next

LEMMA CourtInvariant == Spec => []CourtInv
BY CourtInvInit, CourtInvStep, PTL DEF Spec

\* The on_court flags always agree with the lineups, though no validation
\* compares them (state_engine.py:105, 200).
THEOREM CourtMatches == Spec => []CourtMatchesLineups
<1>1. CourtInv => CourtMatchesLineups
  BY DEF CourtInv
<1>2. QED
  BY <1>1, CourtInvariant, PTL

\* A removed player is inactive and off the court, also after the game.
THEOREM RemovedOff == Spec => []RemovedIsOff
<1>1. CourtInv => RemovedIsOff
  <2> SUFFICES ASSUME CourtInv, NEW p \in DOMAIN players,
                      players[p].injury_state = "removed"
               PROVE  ~ players[p].active /\ ~ players[p].on_court
    BY DEF RemovedIsOff
  <2>1. ~ players[p].active
    BY DEF CourtInv, RemovedIsInactive
  <2>2. ~ InLineup(p)
    BY <2>1 DEF CourtInv, CourtMatchesLineups, InLineup, Team
  <2>3. QED
    BY <2>1, <2>2 DEF CourtInv, CourtMatchesLineups
<1>2. QED
  BY <1>1, CourtInvariant, PTL

\* A team in play has exactly LineupSize players flagged on court.
THEOREM FullTeams == Spec => []FiveOnCourt
<1>1. CourtInv => FiveOnCourt
  <2> SUFFICES ASSUME CourtInv, status = "in_progress", NEW t \in Team
               PROVE  Cardinality({p \in DOMAIN players :
                                      /\ players[p].on_court
                                      /\ players[p].team_id = t}) = LineupSize
    BY DEF FiveOnCourt
  <2>1. \A p \in DOMAIN players :
           players[p].on_court <=> p \in lineup[Home] \cup lineup[Away]
    BY DEF CourtInv, CourtMatchesLineups, InLineup
  <2>2. \A s \in Team : \A p \in lineup[s] :
           p \in DOMAIN players /\ players[p].team_id = s
    BY DEF CourtInv, CourtMatchesLineups
  <2>3. {p \in DOMAIN players : players[p].on_court /\ players[p].team_id = t}
           = lineup[t]
    BY <2>1, <2>2, TeamsDiffer DEF Team
  <2>4. QED
    BY <2>3 DEF CourtInv, LineupsFull
<1>2. QED
  BY <1>1, CourtInvariant, PTL
-----------------------------------------------------------------------------
(***************************************************************************)
(* The book: sequence numbers, the duplicate filter and the history.       *)
(***************************************************************************)

LEMMA HistoryStep ==
    ASSUME TypeOK, HistoryIsGapless, NEW v \in Envelope, Accepts(v), Commit(v)
    PROVE  HistoryIsGapless'
<1> DEFINE e == [event_id |-> v.event_id, sequence |-> v.sequence]
           n == Len(history)
<1>1. /\ n \in Nat /\ sequence = n /\ v.sequence = n + 1
      /\ v.event_id \notin seen
  BY DEF TypeOK, HistoryIsGapless, Accepts
<1>2. e \in [event_id : EventId, sequence : Nat]
  BY EnvelopeFields
<1>3. /\ history' = Append(history, e)
      /\ sequence' = v.sequence
      /\ seen' = seen \cup {v.event_id}
  BY DEF Commit
<1>4. /\ Len(history') = n + 1
      /\ history'[n + 1] = e
      /\ \A i \in 1 .. n : history'[i] = history[i]
  BY <1>1, <1>2, <1>3 DEF TypeOK
<1>5. \A i \in 1 .. n + 1 : i \in 1 .. n \/ i = n + 1
  BY <1>1
<1>6. e.event_id = v.event_id /\ e.sequence = v.sequence
  OBVIOUS
<1> HIDE DEF e, n
<1>7. \A i \in 1 .. n : history[i].event_id \in seen
  BY DEF HistoryIsGapless, n
<1>8. sequence' = Len(history')
  BY <1>1, <1>3, <1>4
<1>9. \A i \in 1 .. Len(history') : history'[i].sequence = i
  BY <1>1, <1>4, <1>5, <1>6 DEF HistoryIsGapless, n
<1>10. \A i, j \in 1 .. Len(history') :
          history'[i].event_id = history'[j].event_id => i = j
  <2> SUFFICES ASSUME NEW i \in 1 .. n + 1, NEW j \in 1 .. n + 1,
                      history'[i].event_id = history'[j].event_id
               PROVE  i = j
    BY <1>4
  <2>1. CASE i \in 1 .. n /\ j \in 1 .. n
    BY <1>4, <2>1 DEF HistoryIsGapless, n
  <2>2. CASE i = n + 1 \/ j = n + 1
    BY <1>1, <1>4, <1>5, <1>6, <1>7, <2>2
  <2>3. QED
    BY <1>5, <2>1, <2>2
<1>11. seen' = {history'[i].event_id : i \in 1 .. Len(history')}
  <2>1. seen = {history[i].event_id : i \in 1 .. n}
    BY DEF HistoryIsGapless, n
  <2>2. 1 .. n + 1 = (1 .. n) \cup {n + 1}
    BY <1>1
  <2>3. QED
    BY <1>3, <1>4, <1>6, <2>1, <2>2
<1>12. QED
  BY <1>8, <1>9, <1>10, <1>11 DEF HistoryIsGapless

BookInv == TypeOK /\ HistoryIsGapless

LEMMA BookInvariant == Spec => []BookInv
<1>1. Init => BookInv
  <2> SUFFICES ASSUME Init PROVE HistoryIsGapless
    BY TypeInit DEF BookInv
  <2>1. Len(history) = 0 /\ 1 .. Len(history) = {}
    BY DEF Init
  <2>2. QED
    BY <2>1 DEF Init, HistoryIsGapless
<1>2. BookInv /\ [Next]_vars => BookInv'
  <2> SUFFICES ASSUME BookInv, [Next]_vars PROVE HistoryIsGapless'
    BY TypeStep DEF BookInv
  <2>1. ASSUME NEW v \in Envelope, NEW b \in Body, Apply(v, b)
        PROVE  HistoryIsGapless'
    BY <2>1, HistoryStep DEF Apply, BookInv
  <2>2. CASE UNCHANGED vars
    BY <2>2 DEF vars, BookInv, HistoryIsGapless
  <2>3. QED
    BY <2>1, <2>2 DEF Next
<1>3. QED
  BY <1>1, <1>2, PTL DEF Spec

\* Applied events are numbered without a gap, no id is applied twice, and the
\* duplicate filter holds exactly the applied ids (StateEngine.apply).
THEOREM GaplessHistory == Spec => []HistoryIsGapless
<1>1. BookInv => HistoryIsGapless
  BY DEF BookInv
<1>2. QED
  BY <1>1, BookInvariant, PTL

\* The reducer implements the ordered log: every accepted event enters it
\* under a new id and never moves source time backwards.
Ids == [i \in 1 .. Len(history) |-> history[i].event_id]

THEOREM OrderedLogImplemented == Spec => ImplementsOrderedLog
<1>1. Init => Log!Init
  BY DEF Init, Log!Init
<1>2. ASSUME TypeOK, HistoryIsGapless, [Next]_vars
      PROVE  [Log!Next]_<<Ids, last_source>>
  <2>1. ASSUME NEW v \in Envelope, NEW b \in Body, Apply(v, b)
        PROVE  Log!Enter(v.event_id) /\ v.event_id \in EventId
    <3>1. Accepts(v) /\ Commit(v)
      BY <2>1 DEF Apply
    <3>2. v.event_id \in EventId /\ v.source \in Nat
      BY <3>1, EnvelopeFields
    <3>3. Len(Ids) = Len(history) /\ Len(history) \in Nat
      BY <1>2 DEF Ids, TypeOK
    <3>4. \A i \in 1 .. Len(Ids) : Ids[i] # v.event_id
      BY <1>2, <3>1, <3>3 DEF Ids, HistoryIsGapless, Accepts
    <3>5. Ids' = Append(Ids, v.event_id)
      <4> DEFINE n == Len(history)
                 e == [event_id |-> v.event_id, sequence |-> v.sequence]
      <4>1. e \in [event_id : EventId, sequence : Nat]
        BY <3>1, EnvelopeFields
      <4>2. history' = Append(history, e)
        BY <3>1 DEF Commit
      <4>3. /\ Len(history') = n + 1
            /\ history'[n + 1] = e
            /\ \A i \in 1 .. n : history'[i] = history[i]
        BY <1>2, <4>1, <4>2 DEF TypeOK
      <4>4. e.event_id = v.event_id
        OBVIOUS
      <4> HIDE DEF e
      <4>5. Ids' = [i \in 1 .. n + 1 |-> IF i = n + 1 THEN v.event_id ELSE Ids[i]]
        BY <3>3, <4>3, <4>4 DEF Ids
      <4>6. Ids \in Seq(EventId)
        <5>1. history \in Seq([event_id : EventId, sequence : Nat])
          BY <1>2 DEF TypeOK
        <5>2. \A i \in 1 .. n :
                 history[i] \in [event_id : EventId, sequence : Nat]
          BY <5>1, ElementOfSeq
        <5>3. Ids \in [1 .. n -> EventId]
          BY <5>2 DEF Ids
        <5>4. QED
          BY <3>3, <5>3
      <4>7. QED
        BY <3>2, <3>3, <4>5, <4>6
    <3>6. last_source' \in Nat /\ last_source' >= last_source
      BY <3>1, <3>2 DEF Accepts, Commit
    <3>7. QED
      BY <3>2, <3>4, <3>5, <3>6 DEF Log!Enter, Ids
  <2>2. CASE UNCHANGED vars
    BY <2>2 DEF vars, Ids
  <2>3. QED
    BY <1>2, <2>1, <2>2 DEF Next, Log!Next
<1>3. QED
  BY <1>1, <1>2, BookInvariant, PTL
     DEF Spec, BookInv, ImplementsOrderedLog, Log!Spec, Ids
=============================================================================
