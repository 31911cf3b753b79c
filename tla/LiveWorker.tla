----------------------------- MODULE LiveWorker -----------------------------
(***************************************************************************)
(* The live worker of wizard_wnba: one process that collects the providers'*)
(* answers (collector.py), prices the games in progress (live_engine.py)   *)
(* and replaces the published snapshot (worker.py, publication.py), forever.*)
(*                                                                         *)
(* Every await of the collector and every game priced is a step of its     *)
(* own; time passes and the process may die between any two of them.  What *)
(* the provider sends and what the bundle file holds are parameters of the *)
(* steps that read them; LivePublication says who changes them.  The       *)
(* crosswalk of player names is rewritten in place for every game priced.  *)
(*                                                                         *)
(* Abstracted: a game stands for its row, its plays, its odds event and    *)
(* its odds; all offers of a game get one verdict, PUBLISHED or HELD       *)
(* (QUALIFIED, WATCH and SUSPENDED), decided by the data's age and         *)
(* otherwise free, as ROI, uncertainty and calibration are.  Clock         *)
(* readings are kept as ages, which stop growing at Horizon.  A graceful   *)
(* stop (SIGTERM) ends the process like a Kill in the waiting phase.       *)
(***************************************************************************)
EXTENDS Naturals, FiniteSets

CONSTANTS
    Game,          \* games the providers know
    Model,         \* versions of a complete model bundle
    None,          \* no snapshot, no model, no game
    Kinds,         \* what the providers may send malformed of a game: its row,
                   \* which raises in the collector, or the game, its statistics
                   \* or its offers, which raise when they are normalized
    MaxStateAge,   \* settings.max_game_state_age_seconds
    Interval,      \* settings.game_discovery_seconds
    Horizon        \* BOUND: ages are not told apart from here on

ASSUME AgesComparable ==
    /\ MaxStateAge \in Nat /\ Interval \in Nat /\ Horizon \in Nat
    /\ MaxStateAge < Horizon /\ Interval <= Horizon
ASSUME NoneIsNoModel == None \notin Model
ASSUME KindsOfFlaws == Kinds \subseteq {"row", "game", "stats", "offers"}
ASSUME BundleNames == {"absent", "unready", "torn"} \cap Model = {}

\* What models/production.json may hold: nothing, a bundle the loader refuses,
\* a half-written file, or a complete bundle.
Bundle == {"absent", "unready", "torn"} \cup Model

VARIABLES
    phase,      \* where live_loop is
    todo,       \* games the current loop of the phase has still to visit
    live,       \* rows of the games payload that are in progress
    flaw,       \* what in the payloads of a game raises first, if anything
    listed,     \* games with one matching odds event
    gathered,   \* live_game_payloads: plays and player stats collected
    odds,       \* event_odds_payloads
    health,     \* DEGRADED once all_errors is not empty
    model,      \* the bundle loaded for this cycle
    current,    \* the game whose statistics were normalized last
    evaluated,  \* games evaluate_game returned for
    recs,       \* recommendations of this cycle
    captured,   \* age of captured_at
    fetched,    \* age of the oldest payload of this cycle
    waited,     \* time since the snapshot was replaced
    crosswalk,  \* models/player_crosswalk.json
    file        \* recommendations/current.json

rows == <<live, flaw>>
collected == <<rows, listed, gathered, odds>>
priced == <<model, current, evaluated, recs>>
cycle == <<collected, health, priced>>
ages == <<captured, fetched, waited>>
disk == <<crosswalk, file>>
vars == <<phase, todo, cycle, ages, disk>>

\* The loop body of process, from normalize_bdl_player_stats on, has phases of
\* its own: it rewrites the crosswalk, then it evaluates the game.
Pricing == {"pricing", "saving", "evaluating"}
Phases == {"down", "games", "events", "live", "odds", "writing", "replacing",
           "waiting"} \cup Pricing

Flaws == [Game -> {"none"} \cup Kinds]

Health == {"HEALTHY", "DEGRADED"}

Rec == [game : Game, status : {"PUBLISHED", "HELD"}, priced : 0 .. Horizon,
        model : Model]

\* live and evaluated are not in the file itself, which lists the games it could
\* normalize: they record of which rows and evaluations its cycle was made. The
\* file names the model version once per recommendation, and model here is the
\* bundle its cycle loaded, kept also when there is no recommendation to name it.
LiveSnapshot ==
    [source : {"live"}, status : Health, recs : SUBSET Rec,
     model : Model \cup {None}, live : SUBSET Game, evaluated : SUBSET Game]

\* The snapshot api.py seeds an empty volume with; its recommendations are made up.
Demo == [source |-> "demo", status |-> "HEALTHY", recs |-> {}, model |-> None,
         live |-> {}, evaluated |-> {}]

\* An absent file is no snapshot.
ASSUME NoneIsNoSnapshot == None \notin LiveSnapshot \cup {Demo}

TypeOK ==
    /\ phase \in Phases
    /\ todo \subseteq Game
    /\ live \subseteq Game
    /\ flaw \in Flaws
    /\ listed \subseteq Game
    /\ gathered \subseteq live
    /\ odds \subseteq listed
    /\ health \in Health
    /\ model \in Model \cup {None}
    /\ current \in Game \cup {None}
    /\ evaluated \subseteq gathered
    /\ recs \subseteq Rec
    /\ crosswalk \in {"whole", "torn"}
    /\ captured \in 0 .. Horizon
    /\ fetched \in 0 .. Horizon
    /\ waited \in 0 .. Horizon
    /\ file \in LiveSnapshot \cup {Demo, None}

-----------------------------------------------------------------------------
(***************************************************************************)
(* collect_once.                                                           *)
(***************************************************************************)

\* MUTANT of Fresh: the list of recommendations outlives its cycle.
FreshButRecs ==
    /\ live' = {} /\ flaw' = [g \in Game |-> "none"]
    /\ listed' = {} /\ gathered' = {} /\ odds' = {} /\ health' = "HEALTHY"
    /\ model' = None /\ current' = None /\ evaluated' = {}
    /\ recs' = recs
    /\ captured' = 0 /\ fetched' = 0 /\ waited' = 0
    /\ todo' = {}

\* The locals of a cycle, empty.
Fresh ==
    /\ live' = {} /\ flaw' = [g \in Game |-> "none"]
    /\ listed' = {} /\ gathered' = {} /\ odds' = {} /\ health' = "HEALTHY"
    /\ model' = None /\ current' = None /\ evaluated' = {}
    /\ recs' = {}
    /\ captured' = 0 /\ fetched' = 0 /\ waited' = 0
    /\ todo' = {}

\* A request that fails, and an answer that cannot be archived, add an error.
MayFail == health' \in {health, "DEGRADED"}

\* A payload of g came, with or without a flaw of this kind; a flaw that bites
\* earlier hides it.
Takes(g, bad, what) ==
    flaw' = IF bad[g] = what /\ flaw[g] = "none" THEN [flaw EXCEPT ![g] = what] ELSE flaw

\* The loop of live_loop goes round: captured_at is now.
StartCycle ==
    /\ phase = "waiting" /\ waited >= Interval
    /\ phase' = "games"
    /\ Fresh
    /\ UNCHANGED disk

\* The payload is assigned before it is archived, so it survives a failing
\* archive.  bad says what the provider sends malformed of which game.
GamesArrive(bad) ==
    /\ phase = "games"
    /\ live' \in SUBSET Game
    /\ flaw' = [g \in Game |-> IF g \in live' /\ bad[g] \in {"row", "game"} THEN bad[g] ELSE "none"]
    /\ fetched' = 0
    /\ MayFail
    /\ phase' = "events"
    /\ UNCHANGED <<todo, listed, gathered, odds, priced, captured, waited, disk>>

GamesFail ==
    /\ phase = "games"
    /\ health' = "DEGRADED"
    /\ phase' = "events"
    /\ UNCHANGED <<todo, collected, priced, ages, disk>>

\* events(), answered or not, and the choice of the rows in progress.
Events ==
    /\ phase = "events"
    /\ \/ listed' \in SUBSET Game /\ MayFail
       \/ listed' = {} /\ health' = "DEGRADED"
    /\ phase' = "live"
    /\ todo' = live
    /\ UNCHANGED <<rows, gathered, odds, priced, ages, disk>>

\* MUTANT of CollectGame: failing plays or player stats are not recorded.
CollectGameQuiet(g, bad) ==
    /\ phase = "live" /\ g \in todo /\ flaw[g] # "row"
    /\ todo' = todo \ {g}
    /\ \/ gathered' = gathered \cup {g} /\ Takes(g, bad, "stats") /\ MayFail
       \/ UNCHANGED <<gathered, flaw, health>>
    /\ UNCHANGED <<phase, live, listed, odds, priced, ages, disk>>

\* _collect_live_game: without plays or stats the game is dropped with an
\* error; without props it is kept with an error.
CollectGame(g, bad) ==
    /\ phase = "live" /\ g \in todo /\ flaw[g] # "row"
    /\ todo' = todo \ {g}
    /\ \/ gathered' = gathered \cup {g} /\ Takes(g, bad, "stats") /\ MayFail
       \/ UNCHANGED <<gathered, flaw>> /\ health' = "DEGRADED"
    /\ UNCHANGED <<phase, live, listed, odds, priced, ages, disk>>

\* The archive of plays, stats and props is not guarded.
ArchiveFails ==
    /\ phase = "live" /\ todo # {}
    /\ phase' = "down"
    /\ Fresh
    /\ UNCHANGED disk

\* MUTANT of FeaturedOdds: captured_at is read late in the collection.
FeaturedOddsStamps ==
    /\ phase = "live" /\ todo = {}
    /\ MayFail
    /\ phase' = "odds"
    /\ todo' = listed
    /\ captured' = 0
    /\ UNCHANGED <<collected, priced, fetched, waited, disk>>

FeaturedOdds ==
    /\ phase = "live" /\ todo = {}
    /\ MayFail
    /\ phase' = "odds"
    /\ todo' = listed
    /\ UNCHANGED <<collected, priced, ages, disk>>

EventOdds(g, bad) ==
    /\ phase = "odds" /\ g \in todo
    /\ todo' = todo \ {g}
    /\ \/ odds' = odds \cup {g} /\ Takes(g, bad, "offers") /\ MayFail
       \/ UNCHANGED <<odds, flaw>> /\ health' = "DEGRADED"
    /\ UNCHANGED <<phase, live, listed, gathered, priced, ages, disk>>

-----------------------------------------------------------------------------
(***************************************************************************)
(* LiveRecommendationEngine.process.                                       *)
(***************************************************************************)
Collected == phase = "odds" /\ todo = {}

\* summarize_live_games reports a game it cannot normalize and goes on.
Summarized == IF \E g \in gathered : flaw[g] = "game" THEN "DEGRADED" ELSE health

\* MUTANT of LoadBundle: the games priced are the rows, not the payloads.
LoadBundleAllRows(bundle) ==
    /\ Collected
    /\ bundle \in Model
    /\ model' = bundle
    /\ health' = Summarized
    /\ phase' = "pricing"
    /\ todo' = live
    /\ UNCHANGED <<collected, current, evaluated, recs, ages, disk>>

\* MUTANT of LoadBundle: the first bundle loaded is kept.
LoadBundleOnce(bundle) ==
    /\ Collected
    /\ bundle \in Model
    /\ model' = IF file = None \/ file.model = None THEN bundle ELSE file.model
    /\ health' = Summarized
    /\ phase' = "pricing"
    /\ todo' = gathered
    /\ UNCHANGED <<collected, current, evaluated, recs, ages, disk>>

\* The bundle is loaded anew in every cycle.
LoadBundle(bundle) ==
    /\ Collected
    /\ bundle \in Model
    /\ model' = bundle
    /\ health' = Summarized
    /\ phase' = "pricing"
    /\ todo' = gathered
    /\ UNCHANGED <<collected, current, evaluated, recs, ages, disk>>

\* MUTANT of BundleNotReady: the loader's own error is not caught.
BundleNotReadyRaises(bundle) ==
    /\ Collected
    /\ bundle \in {"absent", "unready"}
    /\ phase' = "down"
    /\ Fresh
    /\ UNCHANGED disk

BundleNotReady(bundle) ==
    /\ Collected
    /\ bundle \in {"absent", "unready"}
    /\ health' = "DEGRADED"
    /\ phase' = "writing"
    /\ UNCHANGED <<todo, collected, priced, ages, disk>>

\* ModelBundle.load lets every error but its own through.
TornBundle(bundle) ==
    /\ Collected
    /\ bundle = "torn"
    /\ phase' = "down"
    /\ Fresh
    /\ UNCHANGED disk

\* What the game's providers sent raises where nothing catches it: its row in
\* collect_once, the rest in process.
MalformedGame(g) ==
    /\ \/ phase = "live" /\ g \in todo /\ flaw[g] = "row"
       \/ phase = "pricing" /\ g \in todo /\ flaw[g] = "game"
       \/ phase = "pricing" /\ g \in todo /\ g \in listed \cap odds /\ flaw[g] = "stats"
       \/ phase = "evaluating" /\ g = current /\ flaw[g] = "offers"
    /\ phase' = "down"
    /\ Fresh
    /\ UNCHANGED disk

\* A game without an odds event, or without its odds, is skipped with an error.
SkipUnmatched(g) ==
    /\ phase = "pricing" /\ g \in todo
    /\ flaw[g] # "game" /\ g \notin listed \cap odds
    /\ health' = "DEGRADED"
    /\ todo' = todo \ {g}
    /\ UNCHANGED <<phase, collected, priced, ages, disk>>

\* normalize_bdl_player_stats, up to the write_text of IdentityRegistry.save,
\* which first empties the file.
OpenCrosswalk(g) ==
    /\ phase = "pricing" /\ g \in todo
    /\ flaw[g] \notin {"game", "stats"} /\ g \in listed \cap odds
    /\ current' = g
    /\ crosswalk' = "torn"
    /\ phase' = "saving"
    /\ UNCHANGED <<todo, collected, health, model, evaluated, recs, ages, file>>

SaveCrosswalk ==
    /\ phase = "saving"
    /\ crosswalk' = "whole"
    /\ phase' = "evaluating"
    /\ UNCHANGED <<todo, cycle, ages, file>>

\* A player without a profile, or a simulation that failed: an error.
SkipGame ==
    /\ phase = "evaluating"
    /\ health' = "DEGRADED"
    /\ phase' = "pricing"
    /\ todo' = todo \ {current}
    /\ current' = None
    /\ UNCHANGED <<collected, model, evaluated, recs, ages, disk>>

\* AdaptivePolicy.evaluate: data older than the gate suspends.
Verdicts == IF captured > MaxStateAge THEN {"HELD"} ELSE {"PUBLISHED", "HELD"}

\* evaluate_game returns one recommendation for every offer it can price,
\* which may be none.
PriceGame ==
    /\ phase = "evaluating" /\ flaw[current] # "offers"
    /\ \/ recs' = recs
       \/ \E status \in Verdicts :
             recs' = recs \cup {[game |-> current, status |-> status,
                                 priced |-> fetched, model |-> model]}
    /\ evaluated' = evaluated \cup {current}
    /\ phase' = "pricing"
    /\ todo' = todo \ {current}
    /\ current' = None
    /\ UNCHANGED <<collected, health, model, ages, disk>>

Priced ==
    /\ phase = "pricing" /\ todo = {}
    /\ phase' = "writing"
    /\ UNCHANGED <<todo, cycle, ages, disk>>

-----------------------------------------------------------------------------
(***************************************************************************)
(* AtomicPublicationStore.write.                                           *)
(***************************************************************************)
Snapshot ==
    [source |-> "live", status |-> health,
     recs |-> recs, model |-> model, live |-> live, evaluated |-> evaluated]

WriteTemporary ==
    /\ phase = "writing"
    /\ phase' = "replacing"
    /\ UNCHANGED <<todo, cycle, ages, disk>>

Replace ==
    /\ phase = "replacing"
    /\ file' = Snapshot
    /\ phase' = "waiting"
    /\ Fresh
    /\ UNCHANGED crosswalk

-----------------------------------------------------------------------------
(***************************************************************************)
(* The process and what surrounds it.                                      *)
(***************************************************************************)

\* The container's restart policy starts live_loop again, which reads the
\* crosswalk unguarded: of a torn one every start dies.
Restart ==
    /\ phase = "down" /\ crosswalk = "whole"
    /\ phase' = "games"
    /\ Fresh
    /\ UNCHANGED disk

\* The process is stopped, or an exception nothing catches ends it.
Kill ==
    /\ phase # "down"
    /\ phase' = "down"
    /\ Fresh
    /\ UNCHANGED disk

Outage == ArchiveFails \/ Kill

Older(age) == IF age < Horizon THEN age + 1 ELSE age

Tick ==
    /\ captured' = Older(captured)
    /\ fetched' = Older(fetched)
    /\ waited' = Older(waited)
    /\ UNCHANGED <<phase, todo, cycle, disk>>

Collect(bad) ==
    \/ GamesArrive(bad) \/ GamesFail \/ Events
    \/ \E g \in Game : CollectGame(g, bad) \/ EventOdds(g, bad)
    \/ FeaturedOdds

Process(bundle) ==
    \/ LoadBundle(bundle) \/ BundleNotReady(bundle) \/ TornBundle(bundle)
    \/ \E g \in Game : SkipUnmatched(g) \/ OpenCrosswalk(g)
    \/ SaveCrosswalk \/ SkipGame \/ PriceGame \/ Priced

Publish == WriteTemporary \/ Replace

\* The steps that read neither the providers nor the bundle.
Alone ==
    \/ StartCycle \/ Publish \/ Restart
    \/ \E g \in Game : MalformedGame(g)

Work(bad, bundle) == Collect(bad) \/ Process(bundle) \/ Alone

Init ==
    /\ phase = "down" /\ todo = {}
    /\ live = {} /\ flaw = [g \in Game |-> "none"]
    /\ listed = {} /\ gathered = {} /\ odds = {} /\ health = "HEALTHY"
    /\ model = None /\ current = None /\ evaluated = {} /\ recs = {}
    /\ captured = 0 /\ fetched = 0 /\ waited = 0
    /\ crosswalk = "whole" /\ file = None

Next ==
    \/ \E bad \in Flaws : Collect(bad)
    \/ \E bundle \in Bundle : Process(bundle)
    \/ Alone \/ Outage \/ Tick

Spec == Init /\ [][Next]_vars
-----------------------------------------------------------------------------
(***************************************************************************)
(* Properties.                                                             *)
(***************************************************************************)

\* A snapshot speaks of its own cycle only: each recommendation is for a game
\* this cycle evaluated and comes from the one model the cycle loaded, even
\* when the bundle is replaced or the process restarted half way
\* (worker.py:91, live_engine.py:131).
CurrentCycleOnly ==
    file \notin {None, Demo} =>
        \A r \in file.recs : r.game \in file.evaluated /\ r.model = file.model

\* A recommendation is only PUBLISHED when no payload it was priced from had
\* been in hand for longer than the freshness gate, however slow the rest of
\* the cycle was: captured_at is read before the first request
\* (collector.py:103, recommendation.py:92).
FreshWhenPublished ==
    file # None =>
        \A r \in file.recs : r.status = "PUBLISHED" => r.priced <= MaxStateAge

\* A snapshot that calls itself HEALTHY left no game in progress out: each was
\* collected, matched, and priced (worker.py:80-89).
HealthyMeansAllPriced ==
    file # None /\ file.status = "HEALTHY" => file.evaluated = file.live

\* docs/RUNBOOK.md, "Fail-closed state": a DEGRADED snapshot recommends nothing.
DegradedShowsNothing ==
    file # None /\ file.status = "DEGRADED" => file.recs = {}
=============================================================================
