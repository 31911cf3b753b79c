--------------------------- MODULE WalkForwardJob ---------------------------
(***************************************************************************)
(* The model promotion job as operators run it: processes of the           *)
(* historical walk-forward (historical_walkforward.py) and of the          *)
(* possession repair (repair_possession_walkforward_v2.py), one after      *)
(* another or overlapping, over one data volume.  A walk-forward process   *)
(* fetches the season lists, then statistics, plays, the event and its     *)
(* odds for every final game, each through a file cache that a later       *)
(* process resumes from; then it writes its rows, evaluates the gate and   *)
(* installs or withdraws the approval.  A process can be killed between    *)
(* any two steps.  HistoricalReplay has what the rows contain.             *)
(***************************************************************************)
EXTENDS Naturals, FiniteSets, Sequences, SequencesExt

CONSTANTS
    Process,     \* processes that may run at the same time
    Games,       \* 1 .. n, by date; page i of the season list holds game i
    StatPages,   \* pages of the statistics of a game
    Matched,     \* games for which the odds provider has an event
    Attempts,    \* attempts of a request: 6 in the code
    Phases,      \* what the season list says of a game, from before it starts
                 \* until it is over
    Started,     \* how far the games are when the first process starts
    Repeats,     \* JSON types in which the provider may repeat its last cursor
    Blank        \* what its answers may lack: <<kind of request, page, what>>

ASSUME JobAssumption ==
    /\ Phases \in Seq([status : STRING, period : Nat]) /\ Phases # <<>>
    /\ Repeats \subseteq {"int", "str"}
    /\ StatPages \in Nat \ {0}
    /\ Attempts \in Nat \ {0}
    /\ IsFiniteSet(Games) /\ Games # {} /\ Games = 1 .. Cardinality(Games)
    /\ Matched \subseteq Games
    /\ Started \in [Games -> 1 .. Len(Phases)]

Over == Len(Phases)

VARIABLES
    world,       \* how far each game is
    cache,       \* files of the cache: request -> content
    temp,        \* temporary files of the cache
    file,        \* raw rows, candidate and production model
    marker,      \* PROMOTION_APPROVED exists
    kind,        \* what a process runs
    pc,          \* where it is
    task,        \* the request it is at
    cursor,      \* the page it asks for
    got,         \* the pages it holds: page -> how far the game was, or NoRows
    attempt,     \* failed attempts of the request
    todo,        \* games it has yet to back-fill
    target,      \* the file it writes
    passed       \* its gate passed

volume == <<cache, temp, file, marker>>
fetch == <<task, cursor, got, attempt, todo>>
writing == <<target, passed>>
vars == <<world, volume, kind, pc, fetch, writing>>

Season == <<"games", 0>>
Stats(g) == <<"stats", g>>
Payload(g) == <<"game", g>>
Events(g) == <<"events", g>>
Odds(g) == <<"odds", g>>

\* The pages of an answer.  The payload of a game is its statistics and, as
\* one page more, its plays.
Pages(k) == CASE k = Season -> Cardinality(Games)
              [] k[1] = "stats" -> StatPages
              [] k[1] = "game" -> StatPages + 1
              [] OTHER -> 1

\* How far the game was of which page n of request k tells.  The archive of
\* the odds provider answers for a past moment: always the same.
Seen(k, n) == CASE k = Season -> world[n]
                [] k[1] \in {"stats", "game"} -> world[k[2]]
                [] OTHER -> Over

\* "post", and the statuses that start with "final"
FinalNames == {"post", "final", "final/ot"}
RunningNames == {"scheduled", "in", "live"}

\* A 200 answer that is no object, or has no data, is a page without rows.
NoRows == 0

FinalWithoutStatus(n) == Phases[n].period >= 4

\* game_is_final, of a row of the season list; a score that is no number is 0.
GameIsFinal(n) ==
    \/ Phases[n].status \in FinalNames
    \/ Phases[n].period >= 4 /\ Phases[n].status \notin RunningNames

-----------------------------------------------------------------------------
(***************************************************************************)
(* JsonCache.                                                              *)
(***************************************************************************)
\* f with v at k, in place of what was there.
Put(f, k, v) == [x \in DOMAIN f \cup {k} |-> IF x = k THEN v ELSE f[x]]

SharedTempPath(p, k) == <<Season, k>>
TempPath(p, k) == <<p, k>>

\* load: an unreadable file is a miss.
Cached(k) == k \in DOMAIN cache /\ cache[k].readable

\* save: the temporary file is opened, written and moved over the cached one.
OpenTemp(p) ==
    /\ pc[p] = "save"
    /\ temp' = Put(temp, TempPath(p, task[p]), [readable |-> FALSE, answer |-> <<>>])
    /\ pc' = [pc EXCEPT ![p] = "fill temp"]
    /\ UNCHANGED <<world, cache, file, marker, kind, fetch, writing>>

WriteTemp(p) ==
    /\ pc[p] = "fill temp"
    /\ temp' = Put(temp, TempPath(p, task[p]), [readable |-> TRUE, answer |-> got[p]])
    /\ pc' = [pc EXCEPT ![p] = "replace"]
    /\ UNCHANGED <<world, cache, file, marker, kind, fetch, writing>>

-----------------------------------------------------------------------------
(***************************************************************************)
(* A process: what it does next, and how it ends.                          *)
(***************************************************************************)
\* The process is gone and with it all that it knew.
End(p) ==
    /\ pc' = [pc EXCEPT ![p] = "idle"]
    /\ kind' = [kind EXCEPT ![p] = "none"]
    /\ task' = [task EXCEPT ![p] = Season]
    /\ cursor' = [cursor EXCEPT ![p] = 1]
    /\ got' = [got EXCEPT ![p] = <<>>]
    /\ attempt' = [attempt EXCEPT ![p] = 0]
    /\ todo' = [todo EXCEPT ![p] = {}]
    /\ target' = [target EXCEPT ![p] = "rows"]
    /\ passed' = [passed EXCEPT ![p] = FALSE]

\* The next request, and what of its answer is already there.
Ask(p, k, held) ==
    /\ task' = [task EXCEPT ![p] = k]
    /\ got' = [got EXCEPT ![p] = held]
    /\ cursor' = [cursor EXCEPT ![p] = IF k[1] = "game" THEN Pages(k) ELSE 1]
    /\ attempt' = [attempt EXCEPT ![p] = 0]
    /\ UNCHANGED <<kind, writing>>

\* The loop of raw_rows: the next game by date, or all rows are written.
NextGame(p, games) ==
    /\ todo' = [todo EXCEPT ![p] = games]
    /\ IF games = {}
       THEN pc' = [pc EXCEPT ![p] = "open"] /\ Ask(p, Season, <<>>)
       ELSE pc' = [pc EXCEPT ![p] = "lookup"] /\ Ask(p, Payload(Min(games)), <<>>)

\* The answer to the task is there: backfill_games and backfill_game go on.
Arrive(p, answer) ==
    LET k == task[p]
        g == k[2]
        final == {i \in DOMAIN answer : answer[i] # NoRows /\ GameIsFinal(answer[i])}
    IN  CASE k = Season /\ final = {} -> End(p)
          [] k = Season /\ final # {} -> NextGame(p, final)
          [] k[1] = "stats" -> /\ pc' = [pc EXCEPT ![p] = "send"]
                               /\ Ask(p, Payload(g), answer)
                               /\ UNCHANGED todo
          [] k[1] = "game" -> /\ pc' = [pc EXCEPT ![p] = "lookup"]
                              /\ Ask(p, Events(g), <<>>)
                              /\ UNCHANGED todo
          [] k[1] = "events" /\ g \in Matched /\ answer[1] # NoRows ->
                 /\ pc' = [pc EXCEPT ![p] = "lookup"]
                 /\ Ask(p, Odds(g), <<>>)
                 /\ UNCHANGED todo
          [] OTHER -> NextGame(p, todo[p] \ {g})

\* A cached answer is used as it is; of a game without a payload the
\* statistics are looked up first.
Lookup(p) ==
    /\ pc[p] = "lookup"
    /\ IF Cached(task[p]) THEN Arrive(p, cache[task[p]].answer)
       ELSE /\ IF task[p][1] = "game"
               THEN pc' = pc /\ Ask(p, Stats(task[p][2]), <<>>)
               ELSE pc' = [pc EXCEPT ![p] = "send"] /\ Ask(p, task[p], <<>>)
            /\ UNCHANGED todo
    /\ UNCHANGED <<world, volume>>

\* os.replace; the temporary file is missing if somebody else moved it.
Replace(p) ==
    LET path == TempPath(p, task[p])
    IN  /\ pc[p] = "replace"
        /\ temp' = Restrict(temp, DOMAIN temp \ {path})
        /\ IF path \in DOMAIN temp
           THEN /\ cache' = Put(cache, task[p], temp[path])
                /\ Arrive(p, got[p])
           ELSE UNCHANGED cache /\ End(p)
        /\ UNCHANGED <<world, file, marker>>

-----------------------------------------------------------------------------
(***************************************************************************)
(* _request and bdl_paginated.                                             *)
(***************************************************************************)
Send(p) ==
    /\ pc[p] = "send"
    /\ pc' = [pc EXCEPT ![p] = "wait"]
    /\ UNCHANGED <<world, volume, kind, fetch, writing>>

\* next_cursor in the answer to page n, as JSON has it: a string or a number.
\* With the last page comes none, or the one it was asked with.
NoCursor == [type |-> "none", page |-> 0]
Cursor(type, n) == [type |-> type, page |-> n]
Paged(k) == k = Season \/ k[1] = "stats"
NextCursor(k, n) ==
    IF n < Pages(k) THEN {Cursor(type, n + 1) : type \in {"int", "str"}}
    ELSE {NoCursor} \cup {Cursor(type, n) : type \in IF Paged(k) /\ n > 1 THEN Repeats ELSE {}}

LastIsEmpty(next, n) == next = NoCursor

\* The cursor of the request is text: a number is never equal to it.
LastPage(next, n) == next \in {NoCursor, Cursor("str", n)}

\* What the answer to page n may lack; an answer that is no object lacks both.
Lacking(k, n) == {{}} \cup {l \in SUBSET {"data", "meta"} : <<k[1], n, l>> \in Blank}

\* A page, or a 200 answer that lacks data, meta or both; without meta it is
\* taken for the last page.  Rows of a page that comes twice are kept twice,
\* which is left out.
Reply(p) ==
    LET n == cursor[p]
    IN  /\ pc[p] = "wait"
        /\ \E lacks \in Lacking(task[p], n) :
             /\ got' = [got EXCEPT ![p] = Put(got[p], n, IF "data" \in lacks THEN NoRows
                                                        ELSE Seen(task[p], n))]
             /\ \E next \in IF "meta" \in lacks THEN {NoCursor} ELSE NextCursor(task[p], n) :
                  IF LastPage(next, n)
                  THEN pc' = [pc EXCEPT ![p] = "save"] /\ UNCHANGED cursor
                  ELSE /\ cursor' = [cursor EXCEPT ![p] = next.page]
                       /\ pc' = [pc EXCEPT ![p] = "send"]
        /\ attempt' = [attempt EXCEPT ![p] = 0]
        /\ UNCHANGED <<world, volume, kind, task, todo, writing>>

\* A null in place of data or meta raises outside the handler of _request.
Choke(p) ==
    /\ pc[p] = "wait" /\ (Paged(task[p]) \/ task[p][1] = "events")
    /\ End(p)
    /\ UNCHANGED <<world, volume>>

\* 429, a transport error, or an answer that is not JSON: the attempts are
\* counted whatever it was, and the last one ends the process.
Refuse(p) ==
    /\ pc[p] = "wait"
    /\ UNCHANGED <<world, volume>>
    /\ IF attempt[p] + 1 >= Attempts THEN End(p)
       ELSE /\ attempt' = [attempt EXCEPT ![p] = @ + 1]
            /\ pc' = [pc EXCEPT ![p] = "send"]
            /\ UNCHANGED <<kind, task, cursor, got, todo, writing>>

-----------------------------------------------------------------------------
(***************************************************************************)
(* run() after the rows, and main() of the repair.                         *)
(***************************************************************************)
Whole(ok) == [state |-> "whole", passed |-> ok]
Torn == [state |-> "torn", passed |-> FALSE]
Absent == [state |-> "absent", passed |-> FALSE]

\* open(..., "w") and write_text empty the file in place.
Open(p) ==
    /\ pc[p] = "open"
    /\ file' = [file EXCEPT ![target[p]] = Torn]
    /\ pc' = [pc EXCEPT ![p] = "fill"]
    /\ UNCHANGED <<world, cache, temp, marker, kind, fetch, writing>>

\* The content is written over whatever another process has written since.
Written(p) == IF file[target[p]].state = "whole" THEN {Whole(passed[p]), Torn}
              ELSE {Whole(passed[p])}

After(f) == CASE f = "rows" -> "gate" [] f = "candidate" -> "install" [] OTHER -> "approve"

Fill(p) ==
    /\ pc[p] = "fill"
    /\ \E content \in Written(p) : file' = [file EXCEPT ![target[p]] = content]
    /\ pc' = [pc EXCEPT ![p] = After(target[p])]
    /\ UNCHANGED <<world, cache, temp, marker, kind, fetch, writing>>

\* The repair needs rows and a candidate; whether they are whole it sees late.
\* Rows cut off between two lines are read as if they were all.
Inputs(p) ==
    /\ pc[p] = "inputs"
    /\ UNCHANGED <<world, volume>>
    /\ IF Absent \in {file["rows"], file["candidate"]} THEN End(p)
       ELSE /\ pc' = [pc EXCEPT ![p] = "gate"]
            /\ UNCHANGED <<kind, fetch, writing>>

\* evaluate_oos_rows and evaluate: what the rows say is free.
Gate(p) ==
    /\ pc[p] = "gate"
    /\ \E ok \in BOOLEAN : passed' = [passed EXCEPT ![p] = ok]
    /\ IF kind[p] = "walk"
       THEN /\ target' = [target EXCEPT ![p] = "candidate"]
            /\ pc' = [pc EXCEPT ![p] = "open"]
       ELSE /\ UNCHANGED target
            /\ pc' = [pc EXCEPT ![p] = "bundle"]
    /\ UNCHANGED <<world, volume, kind, fetch>>

\* A part of the split is empty, rows do not parse, a season is missing, or no
\* market is eligible.
NoVerdict(p) ==
    /\ pc[p] = "gate"
    /\ End(p)
    /\ UNCHANGED <<world, volume>>

\* The repair takes the profiles of the candidate into its own bundle.
ReadCandidate(p) ==
    /\ pc[p] = "bundle"
    /\ UNCHANGED <<world, volume>>
    /\ IF file["candidate"] = Torn THEN End(p)
       ELSE /\ pc' = [pc EXCEPT ![p] = "install"]
            /\ UNCHANGED <<kind, fetch, writing>>

CandidatePasses(p) == passed[p] \/ file["candidate"].passed
Passes(p) == passed[p]

Install(p) ==
    /\ pc[p] = "install"
    /\ Passes(p)
    /\ target' = [target EXCEPT ![p] = "production"]
    /\ pc' = [pc EXCEPT ![p] = "open"]
    /\ UNCHANGED <<world, volume, kind, fetch, passed>>

\* The marker goes; the production model stays.
Withdraw(p) ==
    /\ pc[p] = "install"
    /\ ~ Passes(p)
    /\ marker' = FALSE
    /\ End(p)
    /\ UNCHANGED <<world, cache, temp, file>>

Approve(p) ==
    /\ pc[p] = "approve"
    /\ marker' = TRUE
    /\ End(p)
    /\ UNCHANGED <<world, cache, temp, file>>

-----------------------------------------------------------------------------
Start(p, what) ==
    /\ pc[p] = "idle"
    /\ kind' = [kind EXCEPT ![p] = what]
    /\ pc' = [pc EXCEPT ![p] = IF what = "walk" THEN "lookup" ELSE "inputs"]
    /\ UNCHANGED <<world, volume, fetch, writing>>

\* The temporary file that is left behind has a name no process will use again.
Kill(p) ==
    /\ pc[p] # "idle"
    /\ temp' = Restrict(temp, DOMAIN temp \ {TempPath(p, task[p])})
    /\ End(p)
    /\ UNCHANGED <<world, cache, file, marker>>

\* External: a game goes on.
Play(g) ==
    /\ world[g] < Over
    /\ world' = [world EXCEPT ![g] = @ + 1]
    /\ UNCHANGED <<volume, kind, pc, fetch, writing>>

Step(p) ==
    \/ Lookup(p) \/ Send(p) \/ Reply(p) \/ Choke(p) \/ Refuse(p)
    \/ OpenTemp(p) \/ WriteTemp(p) \/ Replace(p)
    \/ Inputs(p) \/ Open(p) \/ Fill(p) \/ Gate(p) \/ NoVerdict(p)
    \/ ReadCandidate(p) \/ Install(p) \/ Withdraw(p) \/ Approve(p)

Init ==
    /\ world = Started
    /\ cache = <<>>
    /\ temp = <<>>
    /\ file = [f \in {"rows", "candidate", "production"} |-> Absent]
    /\ marker = FALSE
    /\ kind = [p \in Process |-> "none"]
    /\ pc = [p \in Process |-> "idle"]
    /\ task = [p \in Process |-> Season]
    /\ cursor = [p \in Process |-> 1]
    /\ got = [p \in Process |-> <<>>]
    /\ attempt = [p \in Process |-> 0]
    /\ todo = [p \in Process |-> {}]
    /\ target = [p \in Process |-> "rows"]
    /\ passed = [p \in Process |-> FALSE]

Next ==
    \/ \E p \in Process :
          Step(p) \/ Kill(p) \/ Start(p, "walk") \/ Start(p, "repair")
    \/ \E g \in Games : Play(g)

\* A running process takes its steps: a request is answered or times out, and
\* nothing in it waits for another process.
Fairness == \A p \in Process : WF_vars(Step(p))

Spec == Init /\ [][Next]_vars /\ Fairness
-----------------------------------------------------------------------------
(***************************************************************************)
(* Properties.                                                             *)
(***************************************************************************)

\* However processes overlap and wherever they are killed, what enters the
\* cache under a request is readable and exactly what the process that moves it
\* there received, page for page: never a half-written file, nor a page of
\* another process (JsonCache.save).
SavedAsReceived ==
    [][\A k \in DOMAIN cache' :
          \/ k \in DOMAIN cache /\ cache'[k] = cache[k]
          \/ \E p \in Process :
                /\ pc[p] = "replace" /\ task[p] = k
                /\ cache'[k] = [readable |-> TRUE, answer |-> got[p]]]_vars

\* docs/HISTORICAL_WALKFORWARD.md:11-13: the box scores and plays that are
\* cached, for good, are those of completed games.
KeptWhenOver ==
    \A k \in DOMAIN cache :
        k[1] \in {"stats", "game"} => Range(cache[k].answer) \subseteq {Over, NoRows}

\* The season list names a game that is still on by a status game_is_final
\* knows, or is not in its fourth period yet.
ToldApart ==
    \A n \in 1 .. Over - 1 :
        \/ Phases[n].status \in RunningNames
        \/ Phases[n].period < 4 /\ Phases[n].status \notin FinalNames

\* If the season list tells games apart so, nothing is kept of a game that was
\* on, though the list that is read may be far older than the request.
KeptOnceToldApart == ToldApart => KeptWhenOver

\* A production model that can be read is one whose own gate passed, whichever
\* processes wrote rows, candidates and it (docs/HISTORICAL_WALKFORWARD.md:49,
\* "only when all strict gates pass").
ProductionPassed ==
    file["production"].state = "whole" => file["production"].passed

\* Every process ends, killed or not: pages run out and attempts do, and a
\* cursor that is repeated as text ends the pages too.  One that is repeated as
\* a number does not: Repeats = {"int"} has a run that never ends.
RunsEnd == \A p \in Process : pc[p] # "idle" ~> pc[p] = "idle"
=============================================================================
