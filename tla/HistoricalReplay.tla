-------------------------- MODULE HistoricalReplay --------------------------
(***************************************************************************)
(* historical_walkforward.py, raw_rows and the split: finished games are   *)
(* replayed in the order of their dates; at a few fixed game clocks the    *)
(* roster known by then is rebuilt, the archived odds are priced and       *)
(* settled, offers that have vanished are kept as unavailable controls,    *)
(* and after the game its final rows enter the players' histories.  The    *)
(* settled rows are then split into training, calibration and a last part  *)
(* nothing was fitted on.                                                  *)
(*                                                                         *)
(* Probabilities are left out: of a price only the bet it is a price of.   *)
(* Lines and scores are in half points.  The boards are of one bookmaker.  *)
(***************************************************************************)
EXTENDS Integers, FiniteSets, FiniteSetsExt

CONSTANTS
    Games,        \* how many games there are; a game is its place in the order
    Home, Away,   \* its teams, by game
    Date,         \* its date, by game
    Seasons,      \* the ways the games can belong to seasons
    Finals(_),    \* the final box scores a game can have: team by player
    Boxes,        \* the sets of players the plays can have credited so far
    Score,        \* final margin, total, and points by player
    Board,        \* the archived boards: sets of offers
    Checkpoints,  \* checkpoints of a game: 5 in the code
    LineupSize,   \* 5
    Enough,       \* 7: players a team must have for the roster to count as known
    Padded,       \* 8: players it is padded to otherwise
    MinLive,      \* 10: live players without which a checkpoint is skipped
    None

Game == 1 .. Games

ASSUME SomeGames == Games \in Nat \ {0}
ASSUME Calendar == Date \in [Game -> Nat] /\ Seasons \subseteq [Game -> Nat]
ASSUME InOrder == \A g, h \in Game : g < h => Date[g] <= Date[h]
ASSUME SeasonsInOrder == \A s \in Seasons : \A g, h \in Game : g < h => s[g] <= s[h]
ASSUME Results == Score \subseteq [margin : Int, total : Int, points : Int]

\* Only the bets on the winner have no line, and only props name a player.
ASSUME OfferShape ==
    \A board \in Board :
        /\ IsFiniteSet(board)
        /\ \A o \in board :
               /\ o = [market |-> o.market, name |-> o.name, player |-> o.player, line |-> o.line]
               /\ o.market # "h2h" => o.line \in Int
               /\ o.market # "player_points" => o.player = None

VARIABLES
    season,     \* of each game
    game,       \* the game being replayed
    stage,      \* between games, within one, replayed, split, failed
    finals,     \* final rows of the game: the team of each player who played
    score,      \* its final score
    cp,         \* the next checkpoint
    box,        \* players credited in the plays up to the last checkpoint
    histories,  \* earlier final rows: player, team and game
    previous,   \* offers of the last priced checkpoint, by identity
    boards,     \* the boards priced so far in this game, by checkpoint
    view,       \* the roster the last checkpoint was priced with
    rows,       \* the rows of this game
    raw,        \* games with a row
    scored,     \* games with a row that was won or lost
    parts       \* train, calibration and oos, as sets of games

replay == <<season, game, stage, finals, score, cp, box, histories, previous,
            boards, view, rows, raw, scored, parts>>

Teams == {Home[game], Away[game]}

-----------------------------------------------------------------------------
(***************************************************************************)
(* The roster at a checkpoint: rolling_profiles_for_game.                  *)
(***************************************************************************)
\* PlayerHistory.prior_rows: only rows dated before the game.
PriorRows(p) == {r \in histories : r.player = p /\ Date[r.game] < Date[game]}

Latest(p) == CHOOSE r \in PriorRows(p) : \A s \in PriorRows(p) : s.game <= r.game

\* A player's team: from his final row, else from his latest game.
TeamOf(p) ==
    IF p \in DOMAIN finals THEN finals[p]
    ELSE IF PriorRows(p) # {} THEN Latest(p).team ELSE None

\* Credited in the play-by-play, or last seen in one of the two teams.  The code
\* takes ten of a team at most; a team of the instances is smaller.
KnownRoster(seen) ==
    seen \cup {p \in {r.player : r \in histories} :
                  PriorRows(p) # {} /\ Latest(p).team \in Teams}

Count(roster, team) == Cardinality({p \in roster : TeamOf(p) = team})

EnoughKnown(roster, team) == Count(roster, team) >= Enough

Participants(team) == {p \in DOMAIN finals : finals[p] = team}

\* The participants that are added for one team.  Each of them counts, the
\* ones already in the roster too.
Paddings(roster, team) ==
    IF EnoughKnown(roster, team) THEN {{}}
    ELSE LET room == Padded - Count(roster, team)
             all == Participants(team)
         IN  IF Cardinality(all) <= room THEN {all} ELSE kSubset(room, all)

\* MUTANT of IsProxy: padding with final participants is not tagged.
NeverProxy(roster) == FALSE

\* availability_proxy
IsProxy(roster) == \E team \in Teams : ~ EnoughKnown(roster, team)

\* The rolling profiles: who is priced.
LiveRoster(roster) == {p \in roster : TeamOf(p) \in Teams}

\* reconstruct_box_score: only players with a final row can be credited.
Credited == {seen \cap DOMAIN finals : seen \in Boxes}

\* build_possession_state and its simulation need a lineup of each team; any
\* error of theirs leaves the checkpoint without paths.
HasPaths(live) == {FALSE, \A team \in Teams : Count(live, team) >= LineupSize}

-----------------------------------------------------------------------------
(***************************************************************************)
(* The bets.                                                               *)
(***************************************************************************)
Prop(o) == o.market = "player_points"

\* offer_identity: for a prop the name, over or under, does not enter.
Identity(o) == <<o.market, IF Prop(o) THEN o.player ELSE o.name, o.line>>

Sign(n) == IF n > 0 THEN 1 ELSE IF n < 0 THEN -1 ELSE 0

\* final_value
FinalValue(o) ==
    CASE o.market = "totals" -> score.total
      [] o.market = "h2h" -> IF score.margin > 0 THEN 2 ELSE 0
      [] o.market = "spreads" -> score.margin
      [] OTHER -> score.points

\* settle_result: 1 win, 0 push, -1 loss.
Settle(o) ==
    CASE o.market = "h2h" -> IF (o.name = "home") = (FinalValue(o) = 2) THEN 1 ELSE -1
      [] o.market = "spreads" ->
             Sign((IF o.name = "home" THEN FinalValue(o) ELSE -FinalValue(o)) + o.line)
      [] OTHER ->
             IF o.name = "over" THEN Sign(FinalValue(o) - o.line) ELSE Sign(o.line - FinalValue(o))

\* MUTANT of SpreadLine: the handicap is turned for the visitors.
VisitorSpreadLine(o) == IF o.name = "home" THEN o.line ELSE -o.line

\* transformed_line: the home margin a handicap must beat.
SpreadLine(o) == IF o.name = "home" THEN -o.line ELSE o.line

\* price_offer_from_automated_bundle: which side of which line is priced, told
\* by the verdict on a path that ends with the final score.
Automated(o) ==
    LET over(value, line) == Sign(value - line)
        verdict(side, value, line) ==
            IF side THEN over(value, line) ELSE -over(value, line)
    IN  CASE o.market = "h2h" -> verdict(o.name = "home", IF score.margin > 0 THEN 2 ELSE 0, 1)
          [] o.market = "spreads" -> verdict(o.name = "home", score.margin, SpreadLine(o))
          [] o.market = "totals" -> verdict(o.name = "over", score.total, o.line)
          [] OTHER -> verdict(o.name = "over", score.points, o.line)

\* price_offer_from_possession_paths, on such a path.
Possession(o) ==
    CASE o.market = "h2h" ->
             IF o.name = "home" THEN IF score.margin > 0 THEN 1 ELSE -1
             ELSE IF score.margin > 0 THEN -1 ELSE 1
      [] o.market = "spreads" ->
             Sign((IF o.name = "home" THEN score.margin ELSE -score.margin) + o.line)
      [] o.market = "totals" ->
             IF o.name = "over" THEN Sign(score.total - o.line) ELSE Sign(o.line - score.total)
      [] OTHER ->
             IF o.name = "over" THEN Sign(score.points - o.line) ELSE Sign(o.line - score.points)

\* A row is written for an offer that can be settled and priced: a prop needs
\* its player among the final rows and in the roster.
Priceable(o, live) == Prop(o) => o.player \in DOMAIN finals /\ o.player \in live

Row(o, there, proxy, paths) ==
    [cp |-> cp, offer |-> o, available |-> there, proxy |-> proxy, result |-> Settle(o),
     possession |-> paths]

-----------------------------------------------------------------------------
(***************************************************************************)
(* The replay.                                                             *)
(***************************************************************************)
StartGame ==
    /\ stage = "between"
    /\ finals' \in Finals(game)
    /\ score' \in Score
    /\ stage' = "within"
    /\ UNCHANGED <<season, game, cp, box, histories, previous, boards, view, rows,
                   raw, scored, parts>>

\* No event was matched, or the snapshot is too far from the checkpoint.
SkipCheckpoint ==
    /\ stage = "within"
    /\ cp <= Checkpoints
    /\ cp' = cp + 1
    /\ UNCHANGED <<season, game, stage, finals, score, box, histories, previous,
                   boards, view, rows, raw, scored, parts>>

\* Of offers with one identity the last stays, and their order is free.
ByIdentity(board) ==
    {kept \in SUBSET board :
        \A o \in board : Cardinality({k \in kept : Identity(k) = Identity(o)}) = 1}

\* MUTANT of Remembered: a vanished offer is not forgotten.
StillRemembered(kept) == previous \cup kept

Remembered(kept) == kept

\* One checkpoint of raw_rows, with the plays seen by then and the board of
\* the archived snapshot.
Checkpoint(seen, board) ==
    /\ stage = "within"
    /\ cp <= Checkpoints
    /\ box \subseteq seen
    /\ cp' = cp + 1
    /\ box' = seen
    /\ LET known == KnownRoster(seen)
           gone == {o \in previous : \A n \in board : Identity(n) # Identity(o)}
           proxy == IsProxy(known)
       IN  \E hp \in Paddings(known, Home[game]) : \E ap \in Paddings(known, Away[game]) :
               LET live == LiveRoster(known \cup hp \cup ap)
               IN  IF Cardinality(live) < MinLive
                   THEN UNCHANGED <<previous, boards, view, rows>>
                   ELSE /\ view' = [live |-> live, proxy |-> proxy]
                        /\ \E kept \in ByIdentity(board) : previous' = Remembered(kept)
                        /\ boards' = [c \in DOMAIN boards \cup {cp} |->
                                         IF c = cp THEN board ELSE boards[c]]
                        /\ \E paths \in HasPaths(live) :
                              rows' = rows
                                 \cup {Row(o, TRUE, proxy, paths) : o \in {n \in board : Priceable(n, live)}}
                                 \cup {Row(o, FALSE, proxy, paths) : o \in {n \in gone : Priceable(n, live)}}
    /\ UNCHANGED <<season, game, stage, finals, score, histories, raw, scored, parts>>

\* The final rows enter the histories only now; what the loop holds of the game
\* is left behind.  Of the rows the split keeps those that were won or lost.
EndGame ==
    /\ stage = "within"
    /\ cp > Checkpoints
    /\ histories' = histories \cup {[player |-> p, team |-> finals[p], game |-> game] : p \in DOMAIN finals}
    /\ raw' = IF rows # {} THEN raw \cup {game} ELSE raw
    /\ scored' = IF \E r \in rows : r.result # 0 THEN scored \cup {game} ELSE scored
    /\ finals' = << >> /\ box' = {} /\ previous' = {}
    /\ boards' = << >> /\ view' = None /\ cp' = 1
    /\ IF game = Games
       THEN stage' = "replayed" /\ UNCHANGED <<game, score, rows>>
       ELSE stage' = "between" /\ game' = game + 1 /\ score' = None /\ rows' = {}
    /\ UNCHANGED <<season, parts>>

-----------------------------------------------------------------------------
(***************************************************************************)
(* The split.                                                              *)
(***************************************************************************)
Cut(n) == IF n \div 2 > 1 THEN n \div 2 ELSE 1

CalibrationCut(n) == IF (3 * n) \div 4 > Cut(n) + 1 THEN (3 * n) \div 4 ELSE Cut(n) + 1

Place(g) == Cardinality({h \in scored : h <= g})

\* chronological_split: by season if there are three, else by game.
Parts ==
    LET all == {season[g] : g \in scored}
        n == Cardinality(scored)
        last == Max(all)
        next == Max(all \ {last})
    IN  IF Cardinality(all) >= 3
        THEN [train |-> {g \in scored : season[g] < next},
              calibration |-> {g \in scored : season[g] = next},
              oos |-> {g \in scored : season[g] = last}]
        ELSE [train |-> {g \in scored : Place(g) <= Cut(n)},
              calibration |-> {g \in scored : Place(g) > Cut(n) /\ Place(g) <= CalibrationCut(n)},
              oos |-> {g \in scored : Place(g) > CalibrationCut(n)}]

\* The run ends with an error when a part is empty.
Split ==
    /\ stage = "replayed"
    /\ IF scored # {} /\ \A part \in {"train", "calibration", "oos"} : Parts[part] # {}
       THEN parts' = Parts /\ stage' = "split"
       ELSE parts' = parts /\ stage' = "failed"
    /\ UNCHANGED <<season, game, finals, score, cp, box, histories, previous,
                   boards, view, rows, raw, scored>>

ReplayInit ==
    /\ season \in Seasons
    /\ game = 1 /\ stage = "between"
    /\ finals = << >> /\ score = None /\ cp = 1 /\ box = {}
    /\ histories = {} /\ previous = {} /\ boards = << >> /\ view = None /\ rows = {}
    /\ raw = {} /\ scored = {} /\ parts = None

ReplayNext ==
    \/ StartGame \/ SkipCheckpoint \/ EndGame \/ Split
    \/ \E seen \in Credited, board \in Board : Checkpoint(seen, board)
-----------------------------------------------------------------------------
(***************************************************************************)
(* Properties.                                                             *)
(***************************************************************************)

\* What a row is priced from was known then.  A player of a roster that is not
\* tagged as an availability proxy has been credited in the plays of this game
\* or has played in one that is dated before it; and no game a calibrator was
\* fitted on is later than one it is judged on, or the same one
\* (docs/HISTORICAL_WALKFORWARD.md:23-31).
NoLookAhead ==
    /\ stage = "within" /\ view # None /\ ~ view.proxy =>
           \A p \in view.live :
               p \in box \/ \E r \in histories : r.player = p /\ Date[r.game] < Date[game]
    /\ stage = "split" =>
           LET fitted(g) == g \in parts.train \/ g \in parts.calibration
           IN  /\ \A g, h \in scored : fitted(g) /\ h \in parts.oos => Date[g] <= Date[h] /\ g # h
               /\ \A g \in parts.train, h \in parts.calibration : Date[g] <= Date[h] /\ g # h
               /\ \A g \in scored : fitted(g) \/ g \in parts.oos

\* An offer that vanishes between two priced checkpoints leaves an unavailable
\* control at the second, and only there: a control was on the board of the
\* priced checkpoint before, is not on this one, and no two controls have the
\* same identity.  A game market leaves its control without fail
\* (historical_walkforward.py:1893-1911).
ControlsAccounted ==
    \A d \in DOMAIN boards :
        LET earlier == {c \in DOMAIN boards : c < d}
            before == IF earlier = {} THEN {} ELSE boards[Max(earlier)]
            controls == {r \in rows : r.cp = d /\ ~ r.available}
            shows(board, o) == \E n \in board : Identity(n) = Identity(o)
        IN  /\ \A r \in controls : r.offer \in before /\ ~ shows(boards[d], r.offer)
            /\ \A r, s \in controls : Identity(r.offer) = Identity(s.offer) => r = s
            /\ \A o \in before : ~ Prop(o) /\ ~ shows(boards[d], o) =>
                   \E r \in controls : r.offer = o

\* A row is graded on the bet it is priced as: on a path that ends with the
\* final score both engines win, push and lose exactly when the row does, for
\* every market and side (historical_walkforward.py:1166-1370).
SettledAsPriced ==
    \A r \in rows :
        /\ Automated(r.offer) = r.result
        /\ r.possession => Possession(r.offer) = r.result
=============================================================================
