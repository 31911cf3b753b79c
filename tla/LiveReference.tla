--------------------------- MODULE LiveReference ---------------------------
(***************************************************************************)
(* One request for a live reference simulation: live_markets.py builds the *)
(* market feed from the archived odds answers, live_reference.py checks    *)
(* how fresh everything is, builds a game state and the bet to price, and  *)
(* the simulator allocates the remaining seconds (RotationAllocator), and  *)
(* optimization.py finds a consensus of the books to anchor the answer on. *)
(*                                                                         *)
(* The request runs in a thread of the API while the worker goes on        *)
(* archiving: time passes between the reading of the feed and the gates.   *)
(* Time is counted in tens of seconds, lines and scores in half points.    *)
(* Prices and probabilities are left out; which rows enter is not.  What   *)
(* the rest of a request does not read is reset when it was last read, so  *)
(* that requests that go on alike are one state.                           *)
(***************************************************************************)
EXTENDS RotationAllocator, Sequences

CONSTANTS
    Board,        \* the boards an archived answer can hold: sets of offers
    Game,         \* the rows a game of the snapshot can have
    Rows,         \* the box scores the archive can hold: players of a team,
                  \* rows that repeat one of them, and who is named
    Remaining,    \* the overrides of the remaining time that are asked for
    PeriodLength, \* seconds of a regulation period: 600 in the code
    None,
    MaxNow,       \* BOUND: the time at which the archive stops growing
    MaxAnswers    \* BOUND: archived odds answers

Periods == 4
MaxStateAge == 2
MaxPriceAge == 3
Bucket == 3

ASSUME SomePeriod == PeriodLength \in Nat \ {0}
ASSUME NoneIsNothing == None \notin Int /\ None \notin {"over", "under", "home", "away"}
ASSUME GameRows == Game \subseteq [period : Nat \ {0}, clock : 0 .. PeriodLength, age : Nat]
ASSUME BoxScores == \A rows \in Rows :
    rows.home \in [players : Nat, repeats : Nat] /\ rows.away \in [players : Nat, repeats : Nat]
ASSUME RemainingAsked == Remaining \subseteq Nat \cup {None}
ASSUME FiniteBoards == \A board \in Board : IsFiniteSet(board)

VARIABLES
    now,
    archive,    \* archived odds answers of the event: when, and the board
    step,       \* how far the request is
    feed,       \* the answer the feed was built from
    ask,        \* the request
    game,       \* the game's row of the snapshot
    plan,       \* period and clock of the state that is simulated
    spec,       \* the MarketSpec
    anchor,     \* the books whose prices the answer is anchored on
    box,        \* of the box score: does it repeat a player, does it fill lineups
    todo        \* teams the simulator has yet to allocate

vars == <<now, archive, step, feed, ask, game, plan, spec, anchor, box, todo, allocation>>

Offer == UNION Board
Tellable == {"over", "under"}

\* What the odds provider lists under each market.
ASSUME OfferShape == \A o \in Offer :
    \/ o.market \in {"totals", "player_points"} /\ o.side \in Tellable /\ o.line \in Int
    \/ o.market = "spreads" /\ o.side \in {"home", "away"} /\ o.line \in Int
    \/ o.market = "h2h" /\ o.side \in {"home", "away"} /\ o.line = None

-----------------------------------------------------------------------------
(***************************************************************************)
(* The archive and the feed.                                               *)
(***************************************************************************)
Archive(board) ==
    /\ step = "browsing"
    /\ Cardinality(archive) < MaxAnswers
    /\ archive' = archive \cup {[at |-> now, board |-> board]}
    /\ UNCHANGED <<now, step, feed, ask, game, plan, spec, anchor, box, todo, allocation>>

Tick ==
    /\ step \in {"browsing", "reading"}
    /\ now < MaxNow
    /\ now' = now + 1
    /\ UNCHANGED <<archive, step, feed, ask, game, plan, spec, anchor, box, todo, allocation>>

\* MUTANT of Better: the richer answer wins, however old it is.
RicherIsBetter(f, g) ==
    Cardinality(f.board) > Cardinality(g.board)

HalfMinute(f) == f.at \div Bucket
Rich(f) == Cardinality(f.board)

\* rank: the half minute of the answer, the number of outcomes, the time.
Better(f, g) ==
    \/ HalfMinute(f) > HalfMinute(g)
    \/ HalfMinute(f) = HalfMinute(g) /\ Rich(f) > Rich(g)
    \/ HalfMinute(f) = HalfMinute(g) /\ Rich(f) = Rich(g) /\ f.at > g.at

\* Of answers of equal rank the files' order decides, which is free.
Candidates == {f \in archive : \A g \in archive : ~ Better(g, f)}

-----------------------------------------------------------------------------
(***************************************************************************)
(* The simulated time.                                                     *)
(***************************************************************************)
\* MUTANT of RemainingToPeriodClock: the boundary belongs to the earlier period.
EarlierPeriodClock(s) ==
    IF s < PeriodLength THEN [period |-> 4, clock |-> s]
    ELSE IF s < 2 * PeriodLength THEN [period |-> 3, clock |-> s - PeriodLength]
    ELSE IF s < 3 * PeriodLength THEN [period |-> 2, clock |-> s - 2 * PeriodLength]
    ELSE [period |-> 1, clock |-> s - 2 * PeriodLength]

RemainingToPeriodClock(s) ==
    IF s <= PeriodLength THEN [period |-> 4, clock |-> s]
    ELSE IF s <= 2 * PeriodLength THEN [period |-> 3, clock |-> s - PeriodLength]
    ELSE IF s <= 3 * PeriodLength THEN [period |-> 2, clock |-> s - 2 * PeriodLength]
    ELSE LET c == s - 3 * PeriodLength
         IN  [period |-> 1, clock |-> IF c < PeriodLength THEN c ELSE PeriodLength]

GameSecondsRemaining(p) ==
    IF p.period <= Periods THEN p.clock + (Periods - p.period) * PeriodLength
    ELSE p.clock

\* What the dashboard's form fills in for a game, in seconds (app.js).
MinutesRemaining(g) ==
    IF g.period > 4 THEN g.clock ELSE g.clock + (4 - g.period) * PeriodLength

-----------------------------------------------------------------------------
(***************************************************************************)
(* The bet and its consensus.                                              *)
(***************************************************************************)
Prop(o) == o.market = "player_points"

Line(o, a) == IF a.line # None THEN a.line ELSE IF o.line = None THEN 1 ELSE o.line

\* MUTANT of HomeLine: the handicap keeps the sign of the sportsbook.
UnsignedHomeLine(o, a) == Line(o, a)

\* A handicap is turned to the home margin it must beat, but not when the
\* request brings a line of its own.
HomeLine(o, a) == IF a.line = None /\ o.side = "home" THEN -o.line ELSE Line(o, a)

\* _market_spec
MarketSpec(o, a) ==
    LET side == IF a.side # None THEN a.side ELSE o.side
        home == IF o.side = "home" THEN "over" ELSE "under"
    IN  CASE Prop(o) -> [type |-> "player_prop", side |-> side, line |-> Line(o, a)]
          [] o.market = "totals" -> [type |-> "game_total", side |-> side, line |-> Line(o, a)]
          [] o.market = "spreads" ->
                 [type |-> "home_spread", line |-> HomeLine(o, a),
                  side |-> IF a.side \in Tellable THEN a.side ELSE home]
          [] o.market = "h2h" -> [type |-> "moneyline_home", side |-> home, line |-> 1]

\* The errors of _market_spec.
NoSuchBet(o, a, named) ==
    \/ Prop(o) /\ o.player \notin named
    \/ /\ Prop(o) \/ o.market = "totals"
       /\ a.side \notin {None} \cup Tellable

\* _line_key: handicaps are compared without their sign.
LineKey(o) ==
    IF o.market = "h2h" THEN None
    ELSE IF o.market = "spreads" /\ o.line < 0 THEN -o.line ELSE o.line

SameMarket(c, o) ==
    c.market = o.market /\ c.player = o.player /\ LineKey(c) = LineKey(o)

\* MUTANT of Quotes: a book that quotes one side only is taken too.
QuotesOneSide(book, board, o) ==
    LET items == {c \in board : c.book = book /\ SameMarket(c, o)}
    IN  Cardinality({c \in items : c.side = o.side}) = 1

\* Whether a no-vig probability of offer o can be had from this book.
Quotes(book, board, o) ==
    LET items == {c \in board : c.book = book /\ SameMarket(c, o)}
    IN  /\ Cardinality({c \in items : c.side = o.side}) = 1
        /\ Cardinality(items) >= 2

\* consensus_for_market: the other books if there are two, else all.
Consensus(board, o) ==
    LET books == {b \in {c.book : c \in board} : Quotes(b, board, o)}
        others == books \ {o.book}
    IN  IF Cardinality(others) >= 2 THEN others ELSE books

\* anchor_eligible
SameBet(o, a) == a.line \in {None, o.line} /\ a.side \in {None, o.side}

-----------------------------------------------------------------------------
(***************************************************************************)
(* The request.                                                            *)
(***************************************************************************)
\* What can be asked about an offer the client saw at some time.
Asks(o) ==
    [offer : {o}, remaining : Remaining,
     line : {None} \cup IF o.line = None THEN {1} ELSE {o.line, o.line + 1},
     side : {None, o.side, "under"}]

\* The handler reads the snapshot and builds the feed.
Read ==
    /\ step = "browsing"
    /\ step' = "reading"
    /\ \E f \in IF archive = {} THEN {[at |-> now, board |-> {}]} ELSE Candidates :
           feed' = f
    /\ game' \in Game \cup {None}
    /\ ask' \in UNION {Asks(o) : o \in Offer}
    /\ archive' = {}
    /\ UNCHANGED <<now, plan, spec, anchor, box, todo, allocation>>

\* The line is still in the feed, the game in the snapshot, and both gates
\* pass; a price whose file is no longer there is not asked for its age.
Open(there) ==
    /\ ask.offer \in feed.board
    /\ game # None
    /\ game.age <= MaxStateAge
    /\ there => now - feed.at <= MaxPriceAge

Refuse ==
    /\ step' = "refused"
    /\ now' = 0 /\ feed' = None /\ ask' = None /\ game' = None
    /\ UNCHANGED <<archive, plan, spec, anchor, box, todo, allocation>>

RefuseStale ==
    /\ step = "reading"
    /\ \E there \in BOOLEAN : ~ Open(there)
    /\ Refuse

\* MUTANT of EnoughPlayers: one row short of a lineup passes.
AlmostEnoughPlayers(team) == team.players + team.repeats >= LineupSize - 1

\* The rows are counted, and a player who has two counts twice.
EnoughPlayers(team) == team.players + team.repeats >= LineupSize

Priceable(rows) ==
    /\ EnoughPlayers(rows.home) /\ EnoughPlayers(rows.away)
    /\ ~ NoSuchBet(ask.offer, ask, rows.named)

RefuseRows ==
    /\ step = "reading"
    /\ \E there \in BOOLEAN : Open(there)
    /\ \E rows \in Rows : ~ Priceable(rows)
    /\ Refuse

\* _build_state_and_profiles and _market_spec, on the latest box score, whose
\* players are known by their ids.  The consensus reads the feed only; it is
\* taken here, before the simulation.
Build ==
    /\ step = "reading"
    /\ \E there \in BOOLEAN : Open(there)
    /\ \E rows \in Rows :
           /\ Priceable(rows)
           /\ todo' = <<rows.home.players, rows.away.players>>
           /\ box' = [repeats |-> rows.home.repeats + rows.away.repeats > 0,
                      full |-> \A k \in 1 .. 2 : todo'[k] >= LineupSize]
    /\ step' = "built"
    /\ plan' = IF ask.remaining = None
               THEN [period |-> game.period, clock |-> game.clock]
               ELSE RemainingToPeriodClock(ask.remaining)
    /\ spec' = MarketSpec(ask.offer, ask)
    /\ LET books == Consensus(feed.board, ask.offer)
       IN  anchor' = IF SameBet(ask.offer, ask) /\ Cardinality(books) >= 2
                     THEN books ELSE {}
    /\ now' = 0
    /\ UNCHANGED <<archive, feed, ask, game, allocation>>

\* Of the request the simulation needs the state alone.
Simulate ==
    /\ step = "built"
    /\ step' = "simulating"
    /\ feed' = None /\ ask' = None /\ game' = None /\ spec' = None /\ anchor' = {}
    /\ UNCHANGED <<now, archive, plan, box, todo, allocation>>

\* RotationAllocator.sample takes the teams one after the other.
SampleTeam ==
    /\ step = "simulating"
    /\ todo # <<>>
    /\ stage \in {"idle", "done"}
    /\ \E w \in [1 .. Head(todo) -> Weight] : Sample(GameSecondsRemaining(plan), w)
    /\ todo' = Tail(todo)
    /\ UNCHANGED <<now, archive, step, feed, ask, game, plan, spec, anchor, box>>

Allocate ==
    /\ step = "simulating"
    /\ Share \/ Round
    /\ UNCHANGED <<now, archive, step, feed, ask, game, plan, spec, anchor, box, todo>>

\* An error of the engine is not one the handler knows: it answers 500.  With no
\* time left nobody is allocated, but a tie still asks for a lineup.
Answer ==
    /\ step = "simulating"
    /\ \/ stage = "done" /\ todo = <<>> /\ step' = "answered"
       \/ stage = "done" /\ todo = <<>> /\ ~ box.full /\ step' = "failed"
       \/ stage \in {"refused", "stuck"} /\ step' = "failed"
    /\ UNCHANGED <<now, archive, feed, ask, game, plan, spec, anchor, box, todo, allocation>>

Init ==
    /\ now = 0 /\ archive = {} /\ step = "browsing"
    /\ feed = None /\ ask = None /\ game = None /\ plan = None /\ spec = None
    /\ anchor = {} /\ box = None /\ todo = <<>>
    /\ horizon = 0 /\ weight = <<>> /\ values = <<>> /\ unit = 1
    /\ active = {} /\ seconds = <<>> /\ stage = "idle"

Next ==
    \/ \E board \in Board : Archive(board)
    \/ Tick \/ Read \/ RefuseStale \/ RefuseRows \/ Build
    \/ Simulate \/ SampleTeam \/ Allocate \/ Answer

Spec == Init /\ [][Next]_vars
-----------------------------------------------------------------------------
(***************************************************************************)
(* Properties.                                                             *)
(***************************************************************************)

\* What the choice of an archived answer may pass over: one that quotes more
\* only for an answer of a later half minute, and a newer one only for one of
\* the same half minute that quotes more.  The feed is then never half a minute
\* behind the archive; but the half minutes are those of the clock, and a
\* sparse answer that opens one does displace a rich one a moment older
\* (live_markets.py:36-128).
FeedIsRecent ==
    [][step = "browsing" /\ step' = "reading" =>
           \A f \in archive :
               /\ Rich(f) > Rich(feed') => HalfMinute(f) < HalfMinute(feed')
               /\ f.at > feed'.at => HalfMinute(f) = HalfMinute(feed') /\ Rich(f) < Rich(feed')]_vars

\* The simulated game has exactly the time the request asks for, up to a whole
\* game, at the period boundaries too; and what the dashboard fills in for the
\* game by default is the time the engine would use without an override, in
\* overtime too (live_reference.py:185, rotation.py:57, app.js:43).
HorizonIsRequested ==
    step = "built" =>
        LET left == GameSecondsRemaining(plan)
            whole == Periods * PeriodLength
        IN  /\ ask.remaining = None => left = GameSecondsRemaining(game)
            /\ ask.remaining # None =>
                   left = IF ask.remaining < whole THEN ask.remaining ELSE whole
            /\ ask.remaining = MinutesRemaining(game) => left = GameSecondsRemaining(game)

\* How the sportsbook settles an offer: 1 won, 0 pushed, -1 lost.  A score is
\* the final home margin, the total and the player's points.
Sign(n) == IF n > 0 THEN 1 ELSE IF n < 0 THEN -1 ELSE 0
Bet(o, score) ==
    LET margin == IF o.side = "home" THEN score.margin ELSE -score.margin
        count == IF Prop(o) THEN score.points ELSE score.total
    IN  CASE o.market = "h2h" -> Sign(margin)
          [] o.market = "spreads" -> Sign(margin + o.line)
          [] OTHER -> IF o.side = "over" THEN Sign(count - o.line) ELSE Sign(o.line - count)

\* How the simulator prices a MarketSpec on the same final score.
Priced(s, score) ==
    LET value == CASE s.type = "player_prop" -> score.points
                   [] s.type = "game_total" -> score.total
                   [] s.type = "home_spread" -> score.margin
                   [] s.type = "moneyline_home" -> IF score.margin > 0 THEN 2 ELSE 0
    IN  IF s.side = "over" THEN Sign(value - s.line) ELSE Sign(s.line - value)

Scores == [margin : {-4, -2, 2, 4}, total : {2, 4}, points : {0, 2}]

\* The opposite handicap on the same team.
Mirrored(o) ==
    [book |-> o.book, market |-> o.market, side |-> o.side, line |-> -o.line, player |-> o.player]

\* Which bet is priced, when the request keeps the offer's line and side: the
\* MarketSpec wins, pushes and loses on the very scores on which the sportsbook
\* settles the offer, in every market and on every side, but for the handicap
\* of the home team when the request names its line, as the dashboard always
\* does (app.js:354-357).  Its sign is then left as the sportsbook has it, and
\* the opposite handicap is priced (live_reference.py:640-745).
OfferedOrMirroredIsPriced ==
    step = "built" /\ SameBet(ask.offer, ask) =>
        LET wrong == ask.line # None /\ ask.offer.market = "spreads" /\ ask.offer.side = "home"
            bet == IF wrong THEN Mirrored(ask.offer) ELSE ask.offer
        IN  \A score \in Scores : Priced(spec, score) = Bet(bet, score)

\* The anchor is a consensus, and not of one book with itself: at least two
\* books, the offer's own only when fewer than two others can be used, and
\* each of them quotes both sides, so that its margin can be taken out
\* (optimization.py:78-143).
AnchorIsOfOthers ==
    step = "built" /\ anchor # {} =>
        /\ Cardinality(anchor) >= 2
        /\ ask.offer.book \in anchor => Cardinality(anchor) <= 2
        /\ \A b \in anchor : \E c, d \in feed.board :
               /\ c.book = b /\ d.book = b /\ c.side # d.side
               /\ SameMarket(c, ask.offer) /\ SameMarket(d, ask.offer)

\* The engine fails a request that passed the gates only when the box score
\* has a player twice, whose rows the handler counts as two players; without
\* that it never refuses the state that was built for it, and its allocation
\* always comes out even.  No error of it is one the handler explains
\* (live_reference.py:303, 333; rotation.py:206, 264, 320, 343; api.py:210).
EngineFailsOnRepeats == step = "failed" => box.repeats
=============================================================================
