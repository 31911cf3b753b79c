# Verification of the WNBA in-play simulation

TLA+ models of the two programs of the repository, checked with TLC on small
instances and proved with TLAPS for every value of the constants.

## The system

The repository holds two Python packages.

* **`wnba_inplay`**, the reference engine. Sequential library code: an
  event-sourced reducer of one game (`state_engine.py`), the replay of its log
  (`replay.py`), the allocation of remaining minutes (`rotation.py`), a
  possession-by-possession Monte Carlo simulator (`simulation.py`), pricing,
  validation and a service that assembles reports (`pricing.py`,
  `validation.py`, `service.py`).
* **`wizard_wnba`**, the deployed product. Two containers over one data volume
  (`docker-compose.yml`): a **worker** that loops over collecting the providers'
  answers (`collector.py`), pricing the games in progress (`live_engine.py`,
  `pipeline.py`, `recommendation.py`) and replacing one snapshot file
  (`worker.py`, `publication.py`); and an **API** that seeds the file on an empty
  volume and serves it to a dashboard (`api.py`, `static/app.js`). A
  **walk-forward job** (`historical_walkforward.py`, and the repair in
  `scripts/repair_possession_walkforward_v2.py`), run next to the worker, replays
  past seasons and writes the model bundle the worker loads. A **live reference
  request** (`live_reference.py`) runs the reference engine in a thread of the API,
  on the snapshot and the archived odds: the one place where the packages meet,
  besides the replay.

| component | state it keeps | operations | what makes it correct |
|---|---|---|---|
| reducer | game state, seen ids, history | one per event type | gapless history, legal lineups, nothing played after a final, state = function of the log |
| replay | the log | fold the reducer | same |
| simulator | state copy, clock, possession, overtimes | possession outcomes, overtime, coin flip | scores, lines and seconds fit together; decided games |
| rotation allocator | none | largest-remainder allocation | sums and caps |
| collector | locals of one cycle | six kinds of request, archiving | every loss leaves an error |
| live engine | locals of one cycle | load bundle, price each game | fail closed per game; one model; fresh data |
| worker and store | `current.json` | status, atomic replace | snapshot of one cycle only; goes round forever |
| API start | `current.json` | look, seed | demo never replaces live data |
| live reference request | none; reads snapshot and archive | feed, gates, state, bet, consensus, simulation | prices the bet and the time that were asked for, from fresh data |
| walk-forward replay | histories, offers of the last checkpoint, rows | checkpoint, end of game, split, selection | nothing is priced, fitted or selected from what was known only later |
| walk-forward job | cache, rows, candidate, bundle, marker | cached requests, gate, installation | gate and bundle agree; the cache holds what was received, of games that are over; every run ends |
| identity registry | crosswalk file | load, resolve, upsert, save | can be loaded after a crash |
| providers' adapters | none | request with retries | bounded, never a false success |
| dashboard | last snapshot | overlapping refreshes | never goes back in time |

Interaction is by two files. `recommendations/current.json` is written to a
temporary file and renamed; `models/production.json` is truncated and written in
place, and so are the rows and the candidate from which the repair makes it. The
worker rewrites `models/player_crosswalk.json` in place for every game it prices and
reads it when it starts. The
job's cache is written like the snapshot. There are no locks and no messages between processes. The hard behaviour
is therefore: a cycle of many awaits in which each request may fail, answer late
or bring malformed rows; files that change between two steps; crashes and
restarts at any point; and, in the reducer, long sequences of individually legal
events.

## Modules

| module | models | correspondence |
|---|---|---|
| `StateEngine` | `state_engine.py`, `events.py`, `domain.py` | one action per event type of `_reduce`; `Accepts` is `_validate_envelope` with `GameEvent.validate`, `ValidState'` is `_validate_state` on the candidate, `Commit` the tail of `apply`. A rejected event enables no action |
| `OrderedLog` | what the reducer promises | abstract: ids enter once, at the end, in source-time order |
| `EventLog` | `replay.py` | `StateEngine` with the file of accepted events next to it; the properties recompute each part of the state from the file |
| `InPlaySimulator` | `simulation.py`, `_simulate_one` and what it calls | one action per way a possession ends, `StartOvertime`, `TieBreak`, `Finish`, `NoLegalLineup`; draws are free choices |
| `LiveWorker` | `collector.py`, `live_engine.py`, `worker.py`, `publication.py` | one action per await or game of a cycle, and per file operation; `phase` is the program counter, the other variables the locals of the cycle. `MalformedGame` is every exception a game's row, plays, statistics or offers can raise outside a handler; `OpenCrosswalk` and `SaveCrosswalk` are the two halves of `IdentityRegistry.save` |
| `LivePublication` | `api.py` start, `docker-compose.yml`, the job's write of `production.json`, the provider | extends `LiveWorker`: `WorkerStep` runs it against the current bundle and feed; the other actions change these around it |
| `RotationAllocator` | `rotation.py` | `Sample` is `_sample_team` up to its checks, `Share` one pass of the loop of `_capped_proportional_allocation`, `Round` is `_largest_remainder` with the checks after it |
| `LiveReference` | `live_reference.py`, `live_markets.py`, `optimization.py`, the form in `app.js` | extends `RotationAllocator`: one request, from `Read` (the handler) over the gates (`RefuseStale`, `RefuseRows`) and `Build` to the allocation for both teams and `Answer`; `Archive` and `Tick` go on in between |
| `HistoricalReplay` | `raw_rows` and `chronological_split` of `historical_walkforward.py` | one action per checkpoint, game and split; the pricing functions and `settle_result` are operators over a final score |
| `PossessionRepair` | `scripts/repair_possession_walkforward_v2.py` | extends `HistoricalReplay`: `Repair` is `main` up to the eligible markets, `Judge` is `compute_roi_and_select` |
| `WalkForwardJob` | `JsonCache`, `HistoricalApi`, `backfill_*`, `run`, `main` of the repair | one action per request, answer, file operation and exit of each of several processes; `Arrive` is what the back-fill does with an answer, cached or not; `Reply` takes proper pages and 200 answers that lack data or meta, `Choke` the null that raises |
| `SetSums` | - | lemmas on `SumFunctionOnSet` and on least elements, used by the proofs |
| `StateEngineProofs`, `EventLogProofs`, `InPlaySimulatorProofs`, `LivePublicationProofs`, `LiveReferenceProofs`, `WalkForwardJobProofs`, `HistoricalReplayProofs` | - | the theorems and their proofs; `LivePublicationProofs` holds those on `LiveWorker` too, `LiveReferenceProofs` those on `RotationAllocator`, `HistoricalReplayProofs` is about `PossessionRepair`'s specification |
| `MC*` | - | constants for TLC |

`LivePublication` composes the worker with its surroundings. `StateEngine`
implements `OrderedLog` under a refinement mapping (`log` is the ids of the
history, `now` the last source timestamp).

### What is abstracted

* A lineup is the set of its players. The fingerprint in the history is a digest
  of the state and is left out. A payload the code cannot convert is an event
  that enables no action.
* A simulated path picks any eligible lineup of the right size: which five the
  sampled minutes rank first, and every probability, is left open. Stats count
  from zero what the path adds.
* A game in `LiveWorker` stands for its row, plays, odds event and odds; all
  offers of a game share one verdict, PUBLISHED or HELD, free but for the
  freshness gate. `flaw` is the first thing in a game's payloads that will raise.
  The three concurrent requests of a game are one step: the
  collector continues only when all three are in, and they write nothing shared.
* Clock readings are ages that stop growing at `Horizon`. `Tick` may come
  between any two steps, so any request may be slow.
* The allocator's floats are exact fractions; where a share is a whole number,
  `Round` leaves open whether the float lies just below it. Weights are small
  numbers and floors zero: no caller sets `minimum_remaining_seconds`.
* `LiveReference` has one event and its archived boards. Prices matter only by
  being there; time is in tens of seconds, lines and scores in half points. The
  players' rates and the blend with the consensus are left out, and what the rest
  of a request does not read is reset.
* In `HistoricalReplay` a bet is told by its verdict on a path that ends with the
  final score. That is enough to say which bet it is: with lines on both sides of
  the score, another side or line has another verdict. Boards are of one
  bookmaker; the ten-per-team limit of the roster is above any instance's team.
  `boards` and `view` are recorded for the properties.
* In `PossessionRepair` which prices are good and which markets eligible is free.
* In `WalkForwardJob` an answer is the pages received, each with how far its game
  was then, or without rows; how far a game is, is a status and a period of the
  season list (`Phases`). A cursor is a page and the JSON type it comes in, since a
  number never equals the text that was sent. Rows that come twice, with a page
  that is asked for twice, are not counted. The rows of the replay and the gate's
  verdicts are free. A file that is being written is torn. Where
  two processes write one file at a time, what the second leaves may be a mixture
  that does not parse. The predictions and reports, which no process reads again,
  are left out.
* `live` and `evaluated` of a snapshot, and `log` of `EventLog`, are recorded for
  the properties; the program's file does not hold the first two.

## Runs

| run | instance | shows |
|---|---|---|
| `event_log` | lineups of 2, a substitute, a player of no team, five ids, logs of up to five accepted events, careless envelopes and illegal bodies, a second roster in which players change sides; regulation of one period of 3 s (257,868 states) | a careless feed cannot bring the reducer into an illegal state; score, fouls, box score and lineups are the functions of the log; the refinement of `OrderedLog` |
| `simulator` | lineups of 2 with one substitute, an ineligible player, up to 4 possessions, 2 overtimes of 1 s, limit of 3 | conservation of points and seconds; decided games; the limit and the coin flip are both reached |
| `worker` | two games, two models, freshness gate 0, interval 1, horizon 1 | snapshot properties under failures and crashes at every step |
| `publication` | one game, two models, one outage | demo, recovery and promotion, under fairness |
| `live_reference` | three boards with up to four books, four kinds of game row, every remaining time from 0 to five periods of 2 s, lineups of 2, up to 4 players, box scores that repeat a player | choice of the feed, the simulated time, the bet, its consensus, and which requests the engine fails |
| `replay_rows` | four games of three teams of four, three checkpoints, two boards, three or two seasons; a traded and a missing player | no look-ahead, controls for vanished offers, grading equals pricing |
| `job` | two processes, one game in its overtime, two pages, two attempts, a blank 200 answer, cursors repeated as text | the cache, what is kept, what is installed, and termination |
| `degraded_recommends` | violation | a DEGRADED snapshot with recommendations |
| `shown_past_expiry` | violation, interval 3, TTL 2 | an expired recommendation served as current |
| `kept_unfinished` | violation, one process, a game listed as "q4" | statistics of a running game are cached for good |
| `crash_keeps_old_board` | violation, liveness, interval 3, TTL 2 | a crash loop keeps an old board |
| `hindsight` | violation, as `replay_rows` with two checkpoints | a push at the first qualifying checkpoint makes the repair select a later line |

**Bounds.** In the reducer the interesting events interact pairwise or in
threes: start, substitution, injury, restart, final. Five events after each other
hold each such triple with room for the second start. Only the order of sequence
numbers and timestamps is compared, so small ones suffice; event ids are
interchangeable (symmetry). `RegulationPeriods = 1` puts overtime within reach of
two clock events. The careless envelopes (a gap, a used id, another game, a falling
timestamp) are variants of the third event, after which every kind of log still has
two events to go.
In the simulator a possession's booking depends on the possession alone, so a few
possessions show every sum; one-second overtimes make all of the loop's exits
reachable. In the worker two games let one be priced while the other is slow,
malformed or lost; ages are compared only with the gate and the interval, so a
horizon one past the gate tells all ages apart that the code does. `MaxOutages`
bounds deaths from outside (a kill, a full disk); crashes the code inflicts on
itself are not bounded. In `live_reference` a period of two seconds has an inside
and both boundaries, and up to four weighted players are what it takes for a
second round of sharing and for ties in the rounding; two archived answers can
compete in each part of the rank. In `replay_rows` three checkpoints are needed to
forget a control again, and four games for three seasons of which one has two. In
`job` two processes are what a race needs; one game suffices because games are
fetched one after another, and the game goes on from its overtime to its end
while processes run. Kills and starts are not bounded.

**Deadlock** is checked in the worker, publication and job runs. The event
log, the simulator, the live reference request and the replay of seasons end:
the feed has no further event, the path is final, the request is answered.

**Fairness** (`WalkForwardJob`). Weak fairness of each process's own steps: it is
one sequential program, every request times out, and nothing waits for another
process. Starting, killing, refusals and the course of the game are not fair. That
the provider's cursors run out, or repeat the last one as text, is an assumption
about the provider (`NextCursor`, `Repeats`). A longer cycle would hold the loop for
ever, and so does one number repeated: `next_cursor` is compared as it came with the
text that was sent (`historical_walkforward.py:348-351`). With `Repeats = {"int"}`
TLC finds `RunsEnd` violated by that run.

**Fairness** (`LivePublication`). Weak fairness of `WorkerStep`: the worker is
one sequential program whose every request has a timeout and whose waits are
bounded, and docker restarts its process (`restart: unless-stopped`). Weak
fairness of `TimePasses`; of `JobEnds`, a job that is writing finishes or dies;
of `ApiStarts`, `ApiSeeds` and `CreateWorker`, which compose performs. None of
the choices is fair: requests may fail forever, the provider may send bad rows
forever, a job may never run. `CyclesForever` and `PromotionTakesEffect` assume that
from some time on payloads are well formed, the bundle is not left torn and the
crosswalk can be read (`Loadable`): a worker killed between the truncation and the
write of the crosswalk (`identity.py:42-48`) dies at every later start
(`worker.py:70-72`), and nothing in the system repairs the file.

## Where documents and code disagree

* `docs/RUNBOOK.md` shows a fail-closed state with `recommendations=[]`. The
  worker labels the snapshot DEGRADED and publishes the recommendations of the
  games it could price (`worker.py:82-95`).
* `docs/GO_LIVE_CHECKLIST.md` and `docs/USER_EXPERIENCE.md` ask for working
  expiry. Recommendations live 20 s, snapshots more than 30 s, and neither the
  endpoint nor the dashboard compares `expires_at` with the time.
* `docs/ARCHITECTURE.md` promises an empty, degraded board when a cycle cannot be
  priced. When the cycle raises - a torn bundle, a row, statistics or offers that
  cannot be normalized - or the crosswalk is torn and no start succeeds, the worker
  dies before its write and the old board stays.
* `docs/HISTORICAL_WALKFORWARD.md` lists completed games and final box scores as what
  is cached. `game_is_final` takes a game of a fourth period for final unless its
  status is exactly scheduled, in or live; `collector.py:19-23` knows running games
  as q4, 4th qtr, halftime, overtime, ot or in progress. What is fetched of such a
  game is kept for good (`kept_unfinished`). `KeptOnceToldApart` is what does hold.
* `README_POSSESSION_REPAIR_V2.md` promises a selection without hindsight. A bet
  that was pushed is dropped before the selection, and whether it was is known
  only after the game (`repair_possession_walkforward_v2.py:125-135`).

Seen while modelling, and in the models as the code has it, without a run of
their own:

* The dashboard always sends the line, also an unchanged one, and for a home
  handicap `_market_spec` then leaves the sportsbook's sign as it is: -5.5 is
  priced as a home margin above -5.5, and still anchored on the consensus of the
  real bet (`live_reference.py:690`, `app.js:354-357`). `OfferedOrMirroredIsPriced`
  says so: the opposite handicap is the bet that is priced.
* The rank of an archived answer starts with the half minute of the clock, so a
  sparse answer that opens one displaces a rich one a second older
  (`live_markets.py:101-110`); `FeedIsRecent` says what the choice may pass over.
* The five players of a team are counted by box-score rows
  (`live_reference.py:303, 333`): with a player listed twice a request passes, and the
  engine raises (`EngineFailsOnRepeats`). The age of a price is not asked for when
  its file is gone (`live_reference.py:829-843`).
* `game_started` after `game_final` is accepted and reopens the game with the old
  score (`state_engine.py:93-109`); `PlayedWhileRunning` says that nothing else does.
* A 200 answer that is no object, or lacks data or meta, is an empty last page and is
  cached (`historical_walkforward.py:345-350, 372-376, 404-405`); `SavedAsReceived`
  claims no more than that the cache holds what came.
* Lines are grouped without their sign, so that home -1.5 and home +1.5 are one
  market to `consensus_for_market` (`optimization.py:41`); the side tells apart
  what is left. The replay's `complementary_key` does the same.
* The identity of a prop has no side, so of a vanished over and under only one
  leaves a control (`historical_walkforward.py:1106`); `ControlsAccounted` asks for
  game markets only.
* The age of the game state is the one written into the snapshot and does not grow
  while the snapshot stands (`live_reference.py:819`).
* A repair reads whatever rows and candidate lie there: after a run that was killed
  between the two, they are of different runs, and rows cut off between two lines
  read as if they were all. `ProductionPassed` speaks of the gate only.
* `backup` of the repair does not keep `production.json` or the marker, and the
  bundle it writes has calibrators of the eligible markets only.
* The team of a player in the replay comes from his final row where there is one,
  and the participants that pad a short roster are counted a second time if they
  were known already; `NoLookAhead` is about who is in the roster, untagged.

## Proofs

Every invariant and action property of the passing runs is also a theorem, for
every instance of the constants under the named assumptions of the modules, which
TLC evaluates on each instance:

* `StateEngine`, `EventLog`: distinct teams, the named stats exist, sizes are
  naturals, payloads have the fields the reducer reads.
* `InPlaySimulator`: disjoint teams, finitely many eligible players, positive
  overtime length, starting states of the right shape.
* `LiveWorker`, `LivePublication`: the gate lies below the horizon, no model is
  called like a broken bundle, an absent file is no snapshot, flaws are of the kinds
  the code meets.
* `RotationAllocator`, `LiveReference`: positive weights (`_sample_team`
  keeps them above zero), a positive period length, rows and boards of the shape the providers'
  normalization leaves, finite boards; only bets on the winner have no line.
* `WalkForwardJob`: attempts and pages are positive, games are numbered, the course of
  a game is a non-empty sequence of statuses and periods. Which ones is free.
* `HistoricalReplay`: games and seasons are in the order of their dates, as
  `backfill_games` sorts them; scores and lines are integers (half points), boards
  are finite, only props name a player.

The inductive invariants, and why the properties need them:

* `StateEngineProofs`. `CourtInv` = types, agreement of flags and lineups,
  full lineups in a running game, removed players inactive. None of the last
  three is inductive alone: that a substitution keeps five flagged players needs
  the flags to match the lineups, and that a removed player stays off the court
  needs lineups of active players, which only the validation of the candidate
  establishes. `FiveOnCourt` counts flags and follows because the flagged
  players of a team are its lineup. `BookInv` covers the history and gives both
  `HistoryIsGapless` and, step by step, the refinement of `OrderedLog`.
* `EventLogProofs`. `LogInv` = `CourtInv`, the log's entries are bodies, and the
  state as functions of the log: besides the properties that the roster is that of
  the last start, the period the last one named, and inactive players those
  reported removed. Fouls need the roster and the period (a foul counts for the
  team its player had then), `RemovedStaysOut` needs `CourtInv` as well. The status
  is a function of the last start and the last final, which is what
  `PlayedWhileRunning` needs when the next event is appended. An
  appended entry splits every total into the old one and its own share
  (`SumInserts`); a start or an official correction empties the set summed over.
* `InPlaySimulatorProofs`. `PathInv` = types, overtimes within bounds while
  playing, idle players' lines empty, decided finals, possessions within the
  clock. The four endings of a possession share one lemma about the clock and two
  about box scores (`ClockedSound`, `CreditSound`): everybody on the court has
  played a second before anything is credited to him. On top of it, the points of a
  team are the sum of its players' and the seconds `LineupSize` times those played:
  a possession raises a team's sums by what it adds to the clock and the score
  (`SumRaised`), because who is credited is among its eligible players.
* `LivePublicationProofs`. `CycleInv` = types, phases not yet reached have produced
  nothing, every live game is accounted for or an error is on record, the capture
  stamp is as old as any payload, recommendations belong to the cycle's model and
  games, and the file holds all that of the cycle that wrote it. `SystemInv` adds
  the surroundings and `SeedsFirst`: a volume that is being seeded has no snapshot
  and no worker yet. That is what keeps the demo away although the API looks and
  seeds in two steps: the worker is first created when the API was up once, and
  then there is a snapshot, which nobody removes.
* `LiveReferenceProofs`. For the allocation, `AllocInv`: while sharing, what is left
  is not negative, the active players are those below the cap, a larger weight has
  the larger share unless the cap took it. When the loop ends nothing is left: with
  everybody at the cap a full roster has taken all (`NothingIsLeft`). The rests of
  the shares then add up to the missing seconds (`RestsAreMissing`), and raising as
  many of the largest gives every second away (`ToppedUpEvenly`). The loop itself
  ends, since a pass that takes nobody to the cap hands out the rest
  (`SharingAdvances`, stated for the proof only). For the request,
  `ReferenceInv` = `AllocInv`, the types of what was read, and that plan, bet and
  anchor come from the one request, feed and row that were read, although the
  archive and the clock go on. The choice of the feed follows from
  the rank: none of the archived answers beats the chosen one. That the engine fails
  only on repeats follows from the rosters: rows that repeat nobody are as many
  players as were counted, and a full roster's allocation never gets stuck.
* `WalkForwardJobProofs`. `JobInv` = every process is coherent and the volume is
  sound. The temporary file a process is about to move is the one it wrote, with
  the pages it holds, which holds because no two processes share a name; it writes
  the production model only when the gate it remembers passed; and, if running
  games are told apart, it asks only for games that are over, so that every page of
  statistics or plays it holds is of a finished game or without rows.
  `SavedAsReceived` is a step property: only `Replace` touches the cache.
  `KeptOnceToldApart` alone is not inductive: it depends on what a process in the
  middle of a request holds.
* `HistoricalReplayProofs`. `ReplayInv` = nothing is carried over from one game to
  the next, boards and rows lie behind the next checkpoint, rows keep the result of
  their game's score, and `previous` is the last priced board, one offer for each
  identity. The last one is what accounts for the controls: a vanished offer of a
  game market is the only one of its identity. The split is ordered by season
  because seasons follow the games, otherwise by place (`PartsAreOrdered`). That
  pricing and settlement mean the same bet (`SameBet`) is a case analysis over
  markets and sides.

Sums are stated with `SumFunctionOnSet`, of which `SetSums` proves what the proofs
use: the recursion exists and does not depend on the order of its picks, a sum
gains what an element adds, is bounded, scales, and splits. The induction behind it
is over sets: a set of naturals has a least element (from the library's
well-founded order), so a set of counterexamples would have a smallest. Facts that
mention a changing variable twice, before and after a step, are stated for operators
with the value as a parameter.

Model-checked only: liveness under fairness (`CyclesForever`,
`PromotionTakesEffect`, `RunsEnd`), which is out of the prover's reach, and the
violations, which are counterexamples on one instance.

## Not modelled, and why

* Floating-point numerics: probabilities, PMFs, pricing, calibration,
  out-of-sample statistics, the scenario lab.
* Read-only endpoints, rendering, formatting, logging, installers.
* `RecommendationStore` (`storage.py`) is not used by any process that runs.
* Which name the crosswalk resolves to whom, the suspension gates of the reference
  pricing, and overlapping refreshes of the dashboard.
* Of what the reference engine refuses, `LiveReference` has the allocator's errors and
  the lineup that an overtime asks for; its other validations are met by the state
  the request builds, or depend on the players' rates, which are left out.

## Plan

1. Abstract specifications for the other components, and the refinements proved:
   the snapshot as a register of one cycle's results, the job's cache as a map that
   only ever gains sound answers, the allocation as any fair division.
2. Proofs about parts that no run checks: that a request's steps end, and the totals
   of team stats of the simulator.
3. The dashboard's refreshes; the suspension gates as operators against reference
   definitions; with a run for cursors that repeat as numbers, once a document says
   that a run ends.
