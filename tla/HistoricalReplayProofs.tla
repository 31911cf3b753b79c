----------------------- MODULE HistoricalReplayProofs -----------------------
(***************************************************************************)
(* What the rows of a replayed season can be trusted with, for any number  *)
(* of games, checkpoints and boards, any scores and rosters, and while the *)
(* repair selects among them.                                              *)
(***************************************************************************)
EXTENDS PossessionRepair, SetSums

-----------------------------------------------------------------------------
(***************************************************************************)
(* Greatest elements.                                                      *)
(***************************************************************************)
LEMMA MaxIs ==
    ASSUME NEW S \in SUBSET Int, NEW m \in S, \A x \in S : x <= m
    PROVE  Max(S) = m
<1>1. \A x \in S : (\A y \in S : x >= y) => x = m
  OBVIOUS
<1>2. \A y \in S : m >= y
  OBVIOUS
<1> QED  BY <1>1, <1>2 DEF Max

LEMMA BoundedMax ==
    ASSUME NEW n \in Nat, NEW S \in SUBSET Nat, S # {}, \A x \in S : x <= n
    PROVE  Max(S) \in S /\ \A x \in S : x <= Max(S)
<1> DEFINE D == {n - x : x \in S}
<1>1. \A x \in S : n - x \in Nat
  OBVIOUS
<1>2. D \in SUBSET Nat /\ D # {}
  BY <1>1
<1>3. \A d \in D : \E x \in S : d = n - x
  OBVIOUS
<1>4. \A x \in S : n - x \in D
  OBVIOUS
<1> HIDE DEF D
<1>5. PICK d \in D : \A e \in D : d <= e
  BY <1>2, LeastNatural
<1>6. PICK m \in S : d = n - m
  BY <1>3
<1>7. \A x \in S : x <= m
  <2> TAKE x \in S
  <2>1. n - m <= n - x
    BY <1>4, <1>5, <1>6
  <2> QED  BY <2>1
<1>8. Max(S) = m
  BY <1>7, MaxIs
<1> QED  BY <1>7, <1>8

-----------------------------------------------------------------------------
(***************************************************************************)
(* The bets.  The two pricing engines and the settlement turn the side and *)
(* the line of a bet around in different places.                           *)
(***************************************************************************)
LEMMA SameBet ==
    ASSUME score \in Score, NEW board \in Board, NEW o \in board
    PROVE  Automated(o) = Settle(o) /\ Possession(o) = Settle(o)
<1>1. score.margin \in Int /\ score.total \in Int /\ score.points \in Int
  BY Results
<1>2. o.market # "h2h" => o.line \in Int
  BY OfferShape
<1>3. CASE o.market = "h2h"
  BY <1>3 DEF Automated, Possession, Settle, FinalValue, Sign
<1>4. CASE o.market = "spreads"
  <2>1. CASE o.name = "home"
    BY <1>1, <1>2, <1>4, <2>1
       DEF Automated, Possession, Settle, FinalValue, Sign, SpreadLine
  <2>2. CASE o.name # "home"
    BY <1>1, <1>2, <1>4, <2>2
       DEF Automated, Possession, Settle, FinalValue, Sign, SpreadLine
  <2> QED  BY <2>1, <2>2
<1>5. CASE o.market = "totals"
  BY <1>1, <1>2, <1>5 DEF Automated, Possession, Settle, FinalValue, Sign
<1>6. CASE o.market \notin {"h2h", "spreads", "totals"}
  BY <1>1, <1>2, <1>6 DEF Automated, Possession, Settle, FinalValue, Sign
<1> QED  BY <1>3, <1>4, <1>5, <1>6

-----------------------------------------------------------------------------
(***************************************************************************)
(* The split.                                                              *)
(***************************************************************************)

\* By season: years grow with the games, so a set of games has a last year.
LEMMA LastSeason ==
    ASSUME season \in Seasons, NEW G \in SUBSET Game, G # {}
    PROVE  LET years == {season[g] : g \in G}
           IN  /\ Max(years) \in years
               /\ \A g \in G : season[g] <= Max(years)
<1> DEFINE years == {season[g] : g \in G}
<1>1. G \in SUBSET Nat /\ \A g \in G : g <= Games
  BY SomeGames DEF Game
<1>2. PICK last \in G : \A g \in G : g <= last
  BY <1>1, BoundedMax, SomeGames
<1>3. \A g \in Game : season[g] \in Nat
  BY Calendar
<1>4. \A g \in G : season[g] <= season[last]
  <2> TAKE g \in G
  <2>1. CASE g = last
    BY <2>1, <1>3
  <2>2. CASE g # last
    BY <2>2, <1>1, <1>2, SeasonsInOrder
  <2> QED  BY <2>1, <2>2
<1>5. years \in SUBSET Nat /\ years # {} /\ \A y \in years : y <= season[last]
  BY <1>3, <1>4
<1> HIDE DEF years
<1>6. Max(years) \in years /\ \A y \in years : y <= Max(years)
  BY <1>3, <1>5, BoundedMax
<1> QED  BY <1>6 DEF years

LEMMA PartsAreOrdered ==
    ASSUME season \in Seasons, scored \in SUBSET Game
    PROVE  /\ Parts.train \subseteq scored /\ Parts.calibration \subseteq scored
           /\ Parts.oos \subseteq scored
           /\ \A g \in Parts.train : \A h \in Parts.calibration \cup Parts.oos : g < h
           /\ \A g \in Parts.calibration : \A h \in Parts.oos : g < h
           /\ scored = Parts.train \cup Parts.calibration \cup Parts.oos
<1> DEFINE years == {season[g] : g \in scored}
           n == Cardinality(scored)
           final == Max(years)
           next == Max(years \ {final})
<1>0. \A g \in Game : g \in Nat /\ season[g] \in Nat
  BY Calendar, SomeGames DEF Game
<1>1. CASE Cardinality(years) >= 3
  <2>1. /\ Parts.train = {g \in scored : season[g] < next}
        /\ Parts.calibration = {g \in scored : season[g] = next}
        /\ Parts.oos = {g \in scored : season[g] = final}
    BY <1>1 DEF Parts
  <2>2. years # {} /\ \A y : years # {y}
    <3>1. Cardinality({}) = 0
      BY FS_EmptySet
    <3>2. ASSUME NEW y, years = {y}  PROVE FALSE
      <4>1. Cardinality({y}) = 1
        BY FS_Singleton
      <4>2. Cardinality(years) = 1
        BY <3>2, <4>1, Zenon
      <4> HIDE DEF years
      <4> QED  BY <1>1, <4>2
    <3>3. years # {}
      <4> HIDE DEF years
      <4> QED  BY <1>1, <3>1
    <3> QED  BY <3>2, <3>3
  <2>3. final \in years /\ \A g \in scored : season[g] <= final
    BY <2>2, LastSeason
  <2> DEFINE early == {g \in scored : season[g] # final}
  <2>4. years \ {final} = {season[g] : g \in early}
    OBVIOUS
  <2>5. early # {}
    BY <2>2, <2>3
  <2> HIDE DEF final
  <2>6. next \in years \ {final} /\ \A g \in early : season[g] <= next
    BY <2>4, <2>5, LastSeason
  <2>7. next \in Nat /\ final \in Nat /\ next < final
    BY <1>0, <2>3, <2>6
  <2> HIDE DEF next
  <2>8. \A g, h \in scored : season[g] < season[h] => g < h
    <3> SUFFICES ASSUME NEW g \in scored, NEW h \in scored,
                        season[g] < season[h], ~ (g < h)
                 PROVE  FALSE
      OBVIOUS
    <3>1. g # h /\ h < g
      BY <1>0
    <3>2. season[h] <= season[g]
      BY <3>1, SeasonsInOrder
    <3> QED  BY <3>2, <1>0
  <2>9. \A g \in scored :
            season[g] < next \/ season[g] = next \/ season[g] = final
    BY <1>0, <2>6, <2>7
  <2> QED  BY <1>0, <2>1, <2>7, <2>8, <2>9
<1>2. CASE ~ (Cardinality(years) >= 3)
  <2>1. /\ Parts.train = {g \in scored : Place(g) <= Cut(n)}
        /\ Parts.calibration =
               {g \in scored : Place(g) > Cut(n) /\ Place(g) <= CalibrationCut(n)}
        /\ Parts.oos = {g \in scored : Place(g) > CalibrationCut(n)}
    BY <1>2 DEF Parts
  <2>2. IsFiniteSet(scored)
    <3>1. IsFiniteSet(Game)
      BY SomeGames, FS_Interval DEF Game
    <3> QED  BY <3>1, FS_Subset
  <2>3. n \in Nat
    BY <2>2, FS_CardinalityType
  <2> HIDE DEF n
  <2>4. Cut(n) \in Int /\ CalibrationCut(n) \in Int /\ Cut(n) < CalibrationCut(n)
    BY <2>3 DEF Cut, CalibrationCut
  <2>5. \A g \in scored : Place(g) \in Nat
    <3> TAKE g \in scored
    <3>1. IsFiniteSet({h \in scored : h <= g})
      BY <2>2, FS_Subset
    <3> QED  BY <3>1, FS_CardinalityType DEF Place
  <2>6. \A g, h \in scored : Place(g) < Place(h) => g < h
    <3> SUFFICES ASSUME NEW g \in scored, NEW h \in scored, h <= g
                 PROVE  Place(h) <= Place(g)
      BY <1>0, <2>5
    <3> DEFINE upto(k) == {i \in scored : i <= k}
    <3>1. upto(h) \in SUBSET upto(g)
      BY <1>0
    <3>2. IsFiniteSet(upto(g))
      BY <2>2, FS_Subset
    <3>3. Place(h) = Cardinality(upto(h)) /\ Place(g) = Cardinality(upto(g))
      BY DEF Place
    <3> HIDE DEF upto
    <3> QED  BY <3>1, <3>2, <3>3, FS_Subset
  <2>7. \A g \in Parts.train : \A h \in Parts.calibration \cup Parts.oos :
            Place(g) < Place(h)
    BY <2>1, <2>4, <2>5
  <2>8. \A g \in Parts.calibration : \A h \in Parts.oos : Place(g) < Place(h)
    BY <2>1, <2>4, <2>5
  <2>9. scored = Parts.train \cup Parts.calibration \cup Parts.oos
    BY <2>1, <2>4, <2>5
  <2> QED  BY <2>6, <2>7, <2>8, <2>9
<1> QED  BY <1>1, <1>2

-----------------------------------------------------------------------------
(***************************************************************************)
(* The inductive invariant.                                                *)
(***************************************************************************)
Filed ==
    /\ season \in Seasons
    /\ game \in Game
    /\ cp \in Nat
    /\ scored \subseteq Game
    /\ stage # "between" => score \in Score

\* What the loop holds of a game is gone when the game is over.
NothingCarriedOver ==
    /\ stage # "within" => boards = << >> /\ previous = {} /\ view = None
    /\ stage = "between" => rows = {}

\* Boards and rows are of checkpoints that lie behind.
Behind ==
    /\ \A c \in DOMAIN boards : c \in Nat /\ c < cp /\ boards[c] \in Board
    /\ stage = "within" => \A r \in rows : r.cp \in Nat /\ r.cp < cp

\* A row keeps the result of its game's score, and its offer was on a board.
RowsSettled ==
    \A r \in rows :
        /\ \E board \in Board : r.offer \in board
        /\ r.result = Settle(r.offer)

LastBoard == IF DOMAIN boards = {} THEN {} ELSE boards[Max(DOMAIN boards)]

\* previous is the last priced board, one offer for each identity.
PreviousIsLastBoard == previous \in ByIdentity(LastBoard)

\* The first half of NoLookAhead: who is in a roster that is not tagged.
RosterWasKnown ==
    stage = "within" /\ view # None /\ ~ view.proxy =>
        \A p \in view.live :
            p \in box \/ \E r \in histories : r.player = p /\ Date[r.game] < Date[game]

\* The second half.
SplitIsOrdered == stage = "split" => parts = Parts

ReplayInv ==
    /\ Filed /\ NothingCarriedOver /\ Behind /\ RowsSettled
    /\ PreviousIsLastBoard /\ ControlsAccounted
    /\ RosterWasKnown /\ SplitIsOrdered

LEMMA EmptyBoards ==
    ASSUME boards = << >>, previous = {}
    PROVE  PreviousIsLastBoard /\ ControlsAccounted /\ DOMAIN boards = {}
<1>1. DOMAIN boards = {}
  OBVIOUS
<1>2. LastBoard = {}
  BY <1>1 DEF LastBoard
<1>3. {} \in ByIdentity({})
  BY DEF ByIdentity
<1>4. ControlsAccounted
  BY <1>1 DEF ControlsAccounted
<1> QED  BY <1>1, <1>2, <1>3, <1>4 DEF PreviousIsLastBoard

LEMMA ReplayBegins == ReplayInit => ReplayInv
<1> SUFFICES ASSUME ReplayInit PROVE ReplayInv
  OBVIOUS
<1>1. PreviousIsLastBoard /\ ControlsAccounted /\ DOMAIN boards = {}
  BY EmptyBoards DEF ReplayInit
<1>2. Filed
  BY SomeGames DEF ReplayInit, Filed, Game
<1>3. NothingCarriedOver /\ RowsSettled /\ RosterWasKnown /\ SplitIsOrdered
  BY DEF ReplayInit, NothingCarriedOver, RowsSettled, RosterWasKnown, SplitIsOrdered
<1>4. Behind
  BY <1>1 DEF ReplayInit, Behind
<1> QED  BY <1>1, <1>2, <1>3, <1>4 DEF ReplayInv

-----------------------------------------------------------------------------
(***************************************************************************)
(* A checkpoint.                                                           *)
(***************************************************************************)
Gone(board) == {o \in previous : \A n \in board : Identity(n) # Identity(o)}

RowsOf(offers, there, live, proxy, paths) ==
    {Row(o, there, proxy, paths) : o \in {n \in offers : Priceable(n, live)}}

\* A checkpoint with too few live players prices nothing; any other one prices
\* its board with a roster that is known unless tagged.
Unpriced == UNCHANGED <<previous, boards, view, rows>>

PricedWith(board, live, proxy, paths) ==
    /\ view' = [live |-> live, proxy |-> proxy]
    /\ previous' \in ByIdentity(board)
    /\ boards' = [c \in DOMAIN boards \cup {cp} |-> IF c = cp THEN board ELSE boards[c]]
    /\ rows' = rows \cup RowsOf(board, TRUE, live, proxy, paths)
                    \cup RowsOf(Gone(board), FALSE, live, proxy, paths)

LEMMA CheckpointPrices ==
    ASSUME NEW seen, NEW board, Checkpoint(seen, board)
    PROVE  \/ Unpriced
           \/ \E live, proxy, paths :
                 /\ PricedWith(board, live, proxy, paths)
                 /\ ~ proxy => live \subseteq KnownRoster(seen)
<1> DEFINE known == KnownRoster(seen)
           proxy == IsProxy(known)
<1>1. PICK hp \in Paddings(known, Home[game]), ap \in Paddings(known, Away[game]) :
         LET live == LiveRoster(known \cup hp \cup ap)
         IN  \/ Unpriced
             \/ /\ view' = [live |-> live, proxy |-> proxy]
                /\ \E kept \in ByIdentity(board) : previous' = Remembered(kept)
                /\ boards' = [c \in DOMAIN boards \cup {cp} |-> IF c = cp THEN board ELSE boards[c]]
                /\ \E paths \in HasPaths(live) :
                      rows' = rows \cup RowsOf(board, TRUE, live, proxy, paths)
                                   \cup RowsOf(Gone(board), FALSE, live, proxy, paths)
  BY DEF Checkpoint, Unpriced, RowsOf, Gone
<1> DEFINE live == LiveRoster(known \cup hp \cup ap)
<1>2. ASSUME ~ proxy  PROVE live \subseteq known
  <2>1. EnoughKnown(known, Home[game]) /\ EnoughKnown(known, Away[game])
    BY <1>2 DEF IsProxy, Teams
  <2>2. hp = {} /\ ap = {}
    BY <2>1 DEF Paddings
  <2> QED  BY <2>2 DEF LiveRoster
<1>3. ASSUME ~ Unpriced
      PROVE  \E paths : PricedWith(board, live, proxy, paths)
  <2> HIDE DEF live, proxy
  <2>1. /\ view' = [live |-> live, proxy |-> proxy]
        /\ previous' \in ByIdentity(board)
        /\ boards' = [c \in DOMAIN boards \cup {cp} |-> IF c = cp THEN board ELSE boards[c]]
    BY <1>1, <1>3 DEF live, Remembered
  <2>2. PICK paths :
           rows' = rows \cup RowsOf(board, TRUE, live, proxy, paths)
                        \cup RowsOf(Gone(board), FALSE, live, proxy, paths)
    BY <1>1, <1>3 DEF live
  <2> QED  BY <2>1, <2>2 DEF PricedWith
<1> HIDE DEF live, proxy
<1> QED  BY <1>2, <1>3

\* Two offers of a board with one identity cannot both be remembered, and an
\* offer on a game market is remembered itself.
LEMMA RememberedOnce ==
    ASSUME NEW board \in Board, NEW kept \in ByIdentity(board)
    PROVE  /\ kept \subseteq board
           /\ \A o, p \in kept : Identity(o) = Identity(p) => o = p
           /\ \A o \in board : ~ Prop(o) => o \in kept
<1>1. kept \subseteq board
  BY DEF ByIdentity
<1>2. ASSUME NEW o \in board
      PROVE  \E k : {n \in kept : Identity(n) = Identity(o)} = {k}
  <2> DEFINE same == {n \in kept : Identity(n) = Identity(o)}
  <2>1. Cardinality(same) = 1
    BY DEF ByIdentity
  <2>2. IsFiniteSet(board) /\ same \in SUBSET board
    BY <1>1, OfferShape
  <2> HIDE DEF same
  <2>3. IsFiniteSet(same)
    BY <2>2, FS_Subset
  <2>4. \E k : same = {k}
    BY <2>1, <2>3, FS_Singleton
  <2> QED  BY <2>4 DEF same
<1>3. ASSUME NEW o \in kept, NEW p \in kept, Identity(o) = Identity(p)
      PROVE  o = p
  <2>1. PICK k : {n \in kept : Identity(n) = Identity(o)} = {k}
    BY <1>1, <1>2
  <2>2. o \in {n \in kept : Identity(n) = Identity(o)}
    OBVIOUS
  <2>3. p \in {n \in kept : Identity(n) = Identity(o)}
    BY <1>3
  <2> QED  BY <2>1, <2>2, <2>3
<1>4. ASSUME NEW o \in board, ~ Prop(o)
      PROVE  o \in kept
  <2>1. PICK k : {n \in kept : Identity(n) = Identity(o)} = {k}
    BY <1>2
  <2>2. k \in {n \in kept : Identity(n) = Identity(o)}
    BY <2>1
  <2>3. k \in board /\ k \in kept /\ Identity(k) = Identity(o)
    BY <1>1, <2>2
  <2>4. k.market = o.market
    BY <2>3 DEF Identity
  <2>5. k.name = o.name /\ k.line = o.line
    BY <1>4, <2>3, <2>4 DEF Identity, Prop
  <2>6. k.player = None /\ o.player = None
    BY <1>4, <2>3, <2>4, OfferShape DEF Prop
  <2>7. /\ k = [market |-> k.market, name |-> k.name, player |-> k.player, line |-> k.line]
        /\ o = [market |-> o.market, name |-> o.name, player |-> o.player, line |-> o.line]
    BY <2>3, OfferShape
  <2>8. k = o
    BY <2>4, <2>5, <2>6, <2>7
  <2> QED  BY <2>3, <2>8
<1> QED  BY <1>1, <1>3, <1>4

\* ControlsAccounted, board by board.
Before(bs, d) ==
    LET earlier == {c \in DOMAIN bs : c < d}
    IN  IF earlier = {} THEN {} ELSE bs[Max(earlier)]

ControlsOf(rs, d) == {r \in rs : r.cp = d /\ ~ r.available}

Shows(board, o) == \E n \in board : Identity(n) = Identity(o)

Accounted(controls, before, board) ==
    /\ \A r \in controls : r.offer \in before /\ ~ Shows(board, r.offer)
    /\ \A r, s \in controls : Identity(r.offer) = Identity(s.offer) => r = s
    /\ \A o \in before : ~ Prop(o) /\ ~ Shows(board, o) => \E r \in controls : r.offer = o

LEMMA VanishedAccounted ==
    ASSUME NEW before, previous \in ByIdentity(before),
           before = {} \/ before \in Board,
           NEW board, NEW live, NEW proxy, NEW paths
    PROVE  Accounted(RowsOf(Gone(board), FALSE, live, proxy, paths), before, board)
<1> DEFINE controls == RowsOf(Gone(board), FALSE, live, proxy, paths)
<1>1. /\ previous \subseteq before
      /\ \A o, p \in previous : Identity(o) = Identity(p) => o = p
      /\ \A o \in before : ~ Prop(o) => o \in previous
  <2>1. CASE before = {}
    BY <2>1 DEF ByIdentity
  <2>2. CASE before \in Board
    BY <2>2, RememberedOnce
  <2> QED  BY <2>1, <2>2
<1>2. \A r \in controls :
         \E o \in Gone(board) : r = Row(o, FALSE, proxy, paths) /\ r.offer = o
  BY DEF RowsOf, Row
<1>3. \A o \in Gone(board) : o \in previous /\ ~ Shows(board, o)
  BY DEF Gone, Shows
<1>4. \A o \in before : ~ Prop(o) /\ ~ Shows(board, o) => \E r \in controls : r.offer = o
  <2> SUFFICES ASSUME NEW o \in before, ~ Prop(o), ~ Shows(board, o)
               PROVE  \E r \in controls : r.offer = o
    OBVIOUS
  <2>1. o \in Gone(board)
    BY <1>1 DEF Gone, Shows
  <2>2. Row(o, FALSE, proxy, paths) \in controls
    BY <2>1 DEF RowsOf, Priceable
  <2>3. Row(o, FALSE, proxy, paths).offer = o
    BY DEF Row
  <2> QED  BY <2>2, <2>3
<1> HIDE DEF controls
<1>5. \A r \in controls : r.offer \in before /\ ~ Shows(board, r.offer)
  BY <1>1, <1>2, <1>3
<1>6. \A r, s \in controls : Identity(r.offer) = Identity(s.offer) => r = s
  <2> SUFFICES ASSUME NEW r \in controls, NEW s \in controls,
                      Identity(r.offer) = Identity(s.offer)
               PROVE  r = s
    OBVIOUS
  <2>1. r.offer \in previous /\ r = Row(r.offer, FALSE, proxy, paths)
    BY <1>2, <1>3
  <2>2. s.offer \in previous /\ s = Row(s.offer, FALSE, proxy, paths)
    BY <1>2, <1>3
  <2>3. r.offer = s.offer
    BY <1>1, <2>1, <2>2
  <2> QED  BY <2>1, <2>2, <2>3
<1>7. Accounted(controls, before, board)
  BY <1>4, <1>5, <1>6 DEF Accounted
<1> QED  BY <1>7 DEF controls

LEMMA PricedStep ==
    ASSUME Filed, Behind, PreviousIsLastBoard, ControlsAccounted, stage = "within",
           NEW board \in Board, NEW live, NEW proxy, NEW paths, PricedWith(board, live, proxy, paths),
           cp' = cp + 1
    PROVE  /\ \A c \in DOMAIN boards' : c \in Nat /\ c < cp' /\ boards'[c] \in Board
           /\ \A r \in rows' : r.cp \in Nat /\ r.cp < cp'
           /\ PreviousIsLastBoard' /\ ControlsAccounted'
<1> DEFINE D == DOMAIN boards
           shown == RowsOf(board, TRUE, live, proxy, paths)
           controls == RowsOf(Gone(board), FALSE, live, proxy, paths)
<1>1. /\ D \in SUBSET Nat /\ cp \in Nat
      /\ \A c \in D : c < cp /\ boards[c] \in Board
      /\ \A r \in rows : r.cp \in Nat /\ r.cp < cp
  BY DEF Behind, Filed
<1>2. /\ DOMAIN boards' = D \cup {cp}
      /\ boards'[cp] = board
      /\ \A c \in D : boards'[c] = boards[c]
  BY <1>1 DEF PricedWith
<1>3. /\ rows' = rows \cup shown \cup controls
      /\ \A r \in shown : r.cp = cp /\ r.available
      /\ \A r \in controls : r.cp = cp /\ ~ r.available
  BY DEF PricedWith, RowsOf, Row
<1> HIDE DEF shown, controls
<1>4. \A c \in DOMAIN boards' : c \in Nat /\ c < cp' /\ boards'[c] \in Board
  BY <1>1, <1>2
<1>5. \A r \in rows' : r.cp \in Nat /\ r.cp < cp'
  BY <1>1, <1>3
<1>6. PreviousIsLastBoard'
  <2>1. Max(D \cup {cp}) = cp
    BY <1>1, MaxIs
  <2>2. LastBoard' = board
    BY <1>2, <2>1 DEF LastBoard
  <2> QED  BY <2>2 DEF PreviousIsLastBoard, PricedWith, ByIdentity, Identity
<1>7. D = {} \/ (Max(D) \in D /\ LastBoard \in Board)
  <2>1. CASE D # {}
    <3>1. Max(D) \in D
      <4>1. \A c \in D : c <= cp
        BY <1>1
      <4> HIDE DEF D
      <4> QED  BY <1>1, <2>1, <4>1, BoundedMax
    <3> QED  BY <1>1, <2>1, <3>1 DEF LastBoard
  <2> QED  BY <2>1
<1>8. LastBoard = {} \/ LastBoard \in Board
  BY <1>7 DEF LastBoard
<1>9. Accounted(controls, LastBoard, board)
  BY <1>8, VanishedAccounted DEF PreviousIsLastBoard, controls
<1>10. ControlsOf(rows', cp) = controls
  BY <1>1, <1>3 DEF ControlsOf
<1>11. Before(boards', cp) = LastBoard
  <2>1. {c \in DOMAIN boards' : c < cp} = D
    BY <1>1, <1>2
  <2>2. CASE D = {}
    BY <2>1, <2>2 DEF Before, LastBoard
  <2>3. CASE D # {}
    BY <1>2, <1>7, <2>1, <2>3 DEF Before, LastBoard
  <2> QED  BY <2>2, <2>3
<1>12. ASSUME NEW d \in D
       PROVE  /\ Before(boards', d) = Before(boards, d)
              /\ ControlsOf(rows', d) = ControlsOf(rows, d)
  <2> DEFINE earlier == {c \in D : c < d}
  <2>1. {c \in DOMAIN boards' : c < d} = earlier
    BY <1>1, <1>2
  <2>2. earlier \in SUBSET Nat /\ \A c \in earlier : c <= d
    BY <1>1
  <2>3. earlier # {} => Max(earlier) \in D
    <3> SUFFICES ASSUME earlier # {}  PROVE Max(earlier) \in earlier
      OBVIOUS
    <3>1. d \in Nat
      BY <1>1
    <3> HIDE DEF earlier
    <3> QED  BY <2>2, <3>1, BoundedMax
  <2>4. ControlsOf(rows', d) = ControlsOf(rows, d)
    BY <1>1, <1>3 DEF ControlsOf
  <2>5. Before(boards', d) = IF earlier = {} THEN {} ELSE boards'[Max(earlier)]
    BY <2>1 DEF Before
  <2>6. Before(boards, d) = IF earlier = {} THEN {} ELSE boards[Max(earlier)]
    BY DEF Before
  <2> HIDE DEF earlier
  <2> QED  BY <1>2, <2>3, <2>4, <2>5, <2>6
<1>13. \A d \in D : Accounted(ControlsOf(rows, d), Before(boards, d), boards[d])
  BY DEF ControlsAccounted, Accounted, ControlsOf, Before, Shows
<1>14. \A d \in DOMAIN boards' :
          Accounted(ControlsOf(rows', d), Before(boards', d), boards'[d])
  BY <1>2, <1>9, <1>10, <1>11, <1>12, <1>13
<1>15. ControlsAccounted'
  BY <1>14 DEF ControlsAccounted, Accounted, ControlsOf, Before, Shows, Identity, Prop
<1> QED  BY <1>4, <1>5, <1>6, <1>15

LEMMA BoardsStay ==
    ASSUME PreviousIsLastBoard, ControlsAccounted,
           UNCHANGED <<previous, boards, rows>>
    PROVE  PreviousIsLastBoard' /\ ControlsAccounted'
<1>1. LastBoard' = LastBoard
  BY DEF LastBoard
<1>2. PreviousIsLastBoard'
  BY <1>1 DEF PreviousIsLastBoard, ByIdentity
<1>3. ControlsAccounted'
  BY DEF ControlsAccounted
<1> QED  BY <1>2, <1>3

\* What is remembered was on the last board, and that is an archived board.
LEMMA PreviousWasShown ==
    ASSUME Filed, Behind, PreviousIsLastBoard, NEW o \in previous
    PROVE  \E board \in Board : o \in board
<1>1. o \in LastBoard
  BY DEF PreviousIsLastBoard, ByIdentity
<1>2. DOMAIN boards # {}
  BY <1>1 DEF LastBoard
<1>3. DOMAIN boards \in SUBSET Nat /\ cp \in Nat /\ \A c \in DOMAIN boards : c <= cp
  BY DEF Behind, Filed
<1>4. Max(DOMAIN boards) \in DOMAIN boards
  BY <1>2, <1>3, BoundedMax
<1> QED  BY <1>1, <1>2, <1>4 DEF LastBoard, Behind

LEMMA CheckpointStep ==
    ASSUME ReplayInv, NEW seen \in Credited, NEW board \in Board,
           Checkpoint(seen, board)
    PROVE  ReplayInv'
<1>1. /\ stage = "within" /\ box \subseteq seen /\ cp' = cp + 1 /\ box' = seen
      /\ UNCHANGED <<season, game, stage, finals, score, histories, raw, scored, parts>>
  BY DEF Checkpoint
<1>2. /\ Filed /\ NothingCarriedOver /\ Behind /\ RowsSettled
      /\ PreviousIsLastBoard /\ ControlsAccounted /\ RosterWasKnown
  BY DEF ReplayInv
<1>3. Filed' /\ NothingCarriedOver' /\ SplitIsOrdered'
  BY <1>1, <1>2 DEF Filed, NothingCarriedOver, SplitIsOrdered
<1>4. CASE Unpriced
  <2>1. Behind'
    BY <1>1, <1>2, <1>4 DEF Unpriced, Behind, Filed
  <2>2. RowsSettled'
    BY <1>1, <1>2, <1>4 DEF Unpriced, RowsSettled, Settle, FinalValue
  <2>3. PreviousIsLastBoard' /\ ControlsAccounted'
    BY <1>2, <1>4, BoardsStay DEF Unpriced
  <2>4. RosterWasKnown'
    BY <1>1, <1>2, <1>4 DEF Unpriced, RosterWasKnown
  <2> QED  BY <1>3, <2>1, <2>2, <2>3, <2>4 DEF ReplayInv
<1>5. ASSUME NEW live, NEW proxy, NEW paths, PricedWith(board, live, proxy, paths),
             ~ proxy => live \subseteq KnownRoster(seen)
      PROVE  ReplayInv'
  <2>1. /\ \A c \in DOMAIN boards' : c \in Nat /\ c < cp' /\ boards'[c] \in Board
        /\ \A r \in rows' : r.cp \in Nat /\ r.cp < cp'
        /\ PreviousIsLastBoard' /\ ControlsAccounted'
    BY <1>1, <1>2, <1>5, PricedStep
  <2>2. Behind'
    BY <2>1 DEF Behind
  <2>3. RowsSettled'
    <3>1. rows' = rows \cup RowsOf(board, TRUE, live, proxy, paths)
                       \cup RowsOf(Gone(board), FALSE, live, proxy, paths)
      BY <1>5 DEF PricedWith
    <3>2. \A r \in RowsOf(board, TRUE, live, proxy, paths) :
             r.offer \in board /\ r.result = Settle(r.offer)
      BY DEF RowsOf, Row
    <3>3. \A r \in RowsOf(Gone(board), FALSE, live, proxy, paths) :
             r.offer \in previous /\ r.result = Settle(r.offer)
      BY DEF RowsOf, Row, Gone
    <3>4. \A o \in previous : \E b \in Board : o \in b
      BY <1>2, PreviousWasShown
    <3>5. \A r \in rows' :
             (\E b \in Board : r.offer \in b) /\ r.result = Settle(r.offer)
      BY <1>2, <3>1, <3>2, <3>3, <3>4 DEF RowsSettled
    <3> QED  BY <1>1, <3>5 DEF RowsSettled, Settle, FinalValue
  <2>4. RosterWasKnown'
    <3>1. view' = [live |-> live, proxy |-> proxy]
      BY <1>5 DEF PricedWith
    <3>2. \A p \in KnownRoster(seen) :
             p \in seen \/ \E r \in histories : r.player = p /\ Date[r.game] < Date[game]
      BY DEF KnownRoster, PriorRows
    <3> QED  BY <1>1, <1>5, <3>1, <3>2 DEF RosterWasKnown
  <2> QED  BY <1>3, <2>1, <2>2, <2>3, <2>4 DEF ReplayInv
<1> QED  BY <1>4, <1>5, CheckpointPrices

-----------------------------------------------------------------------------
(***************************************************************************)
(* The other steps.                                                        *)
(***************************************************************************)
LEMMA StartStep ==
    ASSUME ReplayInv, StartGame
    PROVE  ReplayInv'
<1>1. /\ stage = "between" /\ stage' = "within" /\ score' \in Score
      /\ UNCHANGED <<season, game, cp, box, histories, previous, boards, view, rows,
                     raw, scored, parts>>
  BY DEF StartGame
<1>2. boards = << >> /\ previous = {} /\ view = None /\ rows = {}
  BY <1>1 DEF ReplayInv, NothingCarriedOver
<1>3. Filed' /\ NothingCarriedOver' /\ RowsSettled' /\ RosterWasKnown' /\ SplitIsOrdered'
  BY <1>1, <1>2 DEF ReplayInv, Filed, NothingCarriedOver, RowsSettled,
     RosterWasKnown, SplitIsOrdered
<1>4. Behind'
  BY <1>1, <1>2 DEF ReplayInv, Behind
<1>5. PreviousIsLastBoard' /\ ControlsAccounted'
  BY <1>1, BoardsStay DEF ReplayInv
<1> QED  BY <1>3, <1>4, <1>5 DEF ReplayInv

LEMMA SkipStep ==
    ASSUME ReplayInv, SkipCheckpoint
    PROVE  ReplayInv'
<1>1. /\ stage = "within" /\ cp' = cp + 1
      /\ UNCHANGED <<season, game, stage, finals, score, box, histories, previous,
                     boards, view, rows, raw, scored, parts>>
  BY DEF SkipCheckpoint
<1>2. Filed' /\ NothingCarriedOver' /\ RosterWasKnown' /\ SplitIsOrdered'
  BY <1>1 DEF ReplayInv, Filed, NothingCarriedOver, RosterWasKnown, SplitIsOrdered
<1>3. Behind'
  BY <1>1 DEF ReplayInv, Behind, Filed
<1>4. RowsSettled'
  BY <1>1 DEF ReplayInv, RowsSettled, Settle, FinalValue
<1>5. PreviousIsLastBoard' /\ ControlsAccounted'
  BY <1>1, BoardsStay DEF ReplayInv
<1> QED  BY <1>2, <1>3, <1>4, <1>5 DEF ReplayInv

\* The rows of the last game stay, and with them its score.
LEMMA EndStep ==
    ASSUME ReplayInv, EndGame
    PROVE  ReplayInv'
<1>1. /\ stage = "within" /\ boards' = << >> /\ previous' = {} /\ view' = None
      /\ cp' = 1 /\ season' = season
      /\ scored' = scored \/ scored' = scored \cup {game}
  BY DEF EndGame
<1>2. \/ /\ game = Games /\ stage' = "replayed" /\ UNCHANGED <<game, score, rows>>
      \/ /\ game # Games /\ stage' = "between" /\ game' = game + 1 /\ rows' = {}
  BY DEF EndGame
<1>3. Filed'
  <2>1. /\ season \in Seasons /\ game \in Game /\ scored \subseteq Game
        /\ score \in Score
    BY <1>1 DEF ReplayInv, Filed
  <2>2. game' \in Game
    BY <1>2, <2>1, SomeGames DEF Game
  <2>3. scored' \subseteq Game
    BY <1>1, <2>1
  <2>4. stage' # "between" => score' \in Score
    BY <1>2, <2>1
  <2>5. season' \in Seasons /\ cp' \in Nat
    BY <1>1, <2>1
  <2> QED  BY <2>2, <2>3, <2>4, <2>5 DEF Filed
<1>4. NothingCarriedOver' /\ RosterWasKnown' /\ SplitIsOrdered'
  BY <1>1, <1>2 DEF NothingCarriedOver, RosterWasKnown, SplitIsOrdered
<1>5. RowsSettled'
  BY <1>2 DEF ReplayInv, RowsSettled, Settle, FinalValue
<1>6. DOMAIN boards' = {}
  BY <1>1
<1>7. Behind' /\ ControlsAccounted'
  BY <1>1, <1>2, <1>6 DEF Behind, ControlsAccounted
<1>8. PreviousIsLastBoard'
  BY <1>1, <1>6 DEF PreviousIsLastBoard, LastBoard, ByIdentity
<1> QED  BY <1>3, <1>4, <1>5, <1>7, <1>8 DEF ReplayInv

LEMMA SplitStep ==
    ASSUME ReplayInv, Split
    PROVE  ReplayInv'
<1>1. /\ stage = "replayed"
      /\ (stage' = "split" /\ parts' = Parts) \/ stage' = "failed"
      /\ UNCHANGED <<season, game, finals, score, cp, box, histories, previous,
                     boards, view, rows, raw, scored>>
  BY DEF Split
<1>2. Filed' /\ NothingCarriedOver' /\ RosterWasKnown'
  BY <1>1 DEF ReplayInv, Filed, NothingCarriedOver, RosterWasKnown
<1>3. Behind'
  BY <1>1 DEF ReplayInv, Behind
<1>4. RowsSettled'
  BY <1>1 DEF ReplayInv, RowsSettled, Settle, FinalValue
<1>5. PreviousIsLastBoard' /\ ControlsAccounted'
  BY <1>1, BoardsStay DEF ReplayInv
<1>6. SplitIsOrdered'
  BY <1>1 DEF SplitIsOrdered, Parts, Place
<1> QED  BY <1>2, <1>3, <1>4, <1>5, <1>6 DEF ReplayInv

LEMMA StutterStep ==
    ASSUME ReplayInv, UNCHANGED replay
    PROVE  ReplayInv'
<1>1. Filed' /\ NothingCarriedOver' /\ Behind' /\ RosterWasKnown'
  BY DEF replay, ReplayInv, Filed, NothingCarriedOver, Behind, RosterWasKnown
<1>2. RowsSettled'
  BY DEF replay, ReplayInv, RowsSettled, Settle, FinalValue
<1>3. PreviousIsLastBoard' /\ ControlsAccounted'
  BY BoardsStay DEF replay, ReplayInv
<1>4. SplitIsOrdered'
  BY DEF replay, ReplayInv, SplitIsOrdered, Parts, Place
<1> QED  BY <1>1, <1>2, <1>3, <1>4 DEF ReplayInv

LEMMA RepairInvStep == ReplayInv /\ [RepairNext]_all => ReplayInv'
<1> SUFFICES ASSUME ReplayInv, [RepairNext]_all  PROVE ReplayInv'
  OBVIOUS
<1>1. ReplayNext \/ UNCHANGED replay
  BY DEF RepairNext, Repair, Judge, all
<1>2. CASE ReplayNext
  BY <1>2, StartStep, SkipStep, EndStep, SplitStep, CheckpointStep DEF ReplayNext
<1> QED  BY <1>1, <1>2, StutterStep

LEMMA ReplayInvariant == RepairSpec => []ReplayInv
<1>1. RepairInit => ReplayInv
  BY ReplayBegins DEF RepairInit
<1> QED  BY <1>1, RepairInvStep, PTL DEF RepairSpec

-----------------------------------------------------------------------------
(***************************************************************************)
(* The theorems.                                                           *)
(***************************************************************************)

\* A roster that is not tagged holds only players who were credited before or
\* had played in an earlier game, and each part of the split lies before the
\* next in time, for any calendar, rosters and plays
\* (historical_walkforward.py:745-802, 1562-1594).
THEOREM NothingFromTheFuture == RepairSpec => []NoLookAhead
<1>1. ReplayInv => NoLookAhead
  <2> SUFFICES ASSUME ReplayInv PROVE NoLookAhead
    OBVIOUS
  <2>1. RosterWasKnown /\ SplitIsOrdered /\ season \in Seasons /\ scored \in SUBSET Game
    BY DEF ReplayInv, Filed
  <2>2. /\ Parts.train \subseteq scored /\ Parts.calibration \subseteq scored
        /\ Parts.oos \subseteq scored
        /\ \A g \in Parts.train : \A h \in Parts.calibration \cup Parts.oos : g < h
        /\ \A g \in Parts.calibration : \A h \in Parts.oos : g < h
        /\ scored = Parts.train \cup Parts.calibration \cup Parts.oos
    BY <2>1, PartsAreOrdered
  <2>3. \A g, h \in Game : g < h => Date[g] <= Date[h] /\ g # h
    <3>1. \A g \in Game : g \in Nat
      BY SomeGames DEF Game
    <3> QED  BY <3>1, InOrder
  <2>4. stage = "split" =>
           LET fitted(g) == g \in parts.train \/ g \in parts.calibration
           IN  /\ \A g, h \in scored : fitted(g) /\ h \in parts.oos => Date[g] <= Date[h] /\ g # h
               /\ \A g \in parts.train, h \in parts.calibration : Date[g] <= Date[h] /\ g # h
               /\ \A g \in scored : fitted(g) \/ g \in parts.oos
    BY <2>1, <2>2, <2>3 DEF SplitIsOrdered
  <2> QED  BY <2>1, <2>4 DEF NoLookAhead, RosterWasKnown
<1> QED  BY <1>1, ReplayInvariant, PTL

\* Every unavailable control is an offer that vanished since the checkpoint
\* before, once for each identity, and no vanished game market lacks one, for
\* boards of any size (historical_walkforward.py:1893-1911).
THEOREM VanishedOffersAreControls == RepairSpec => []ControlsAccounted
<1>1. ReplayInv => ControlsAccounted
  BY DEF ReplayInv
<1> QED  BY <1>1, ReplayInvariant, PTL

\* Both engines price the bet the row is settled as, for every score and line
\* (historical_walkforward.py:1166-1370).
THEOREM RowsAreSettledAsPriced == RepairSpec => []SettledAsPriced
<1>1. ReplayInv => SettledAsPriced
  <2> SUFFICES ASSUME ReplayInv, NEW r \in rows
               PROVE  Automated(r.offer) = r.result /\ Possession(r.offer) = r.result
    BY DEF SettledAsPriced
  <2>1. PICK board \in Board : r.offer \in board
    BY DEF ReplayInv, RowsSettled
  <2>2. r.result = Settle(r.offer)
    BY DEF ReplayInv, RowsSettled
  <2>3. score \in Score
    BY DEF ReplayInv, Filed, NothingCarriedOver
  <2> QED  BY <2>1, <2>2, <2>3, SameBet
<1> QED  BY <1>1, ReplayInvariant, PTL
=============================================================================
