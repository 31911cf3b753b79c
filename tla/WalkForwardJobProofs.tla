------------------------ MODULE WalkForwardJobProofs ------------------------
(***************************************************************************)
(* What the data volume of the walk-forward job holds however its          *)
(* processes overlap and wherever they are killed, for every number of     *)
(* processes, games, pages and attempts.                                   *)
(***************************************************************************)
EXTENDS WalkForwardJob, SetSums

Requests == {Season} \cup {<<kind_of, g>> : kind_of \in {"stats", "game", "events", "odds"}, g \in Games}

\* A game of which a row of the season list counts as final.
Ended(w, g) == ToldApart => w[g] = Over

\* What a page of an answer may say, if it has rows: of the season list no more
\* than is true by now, of a game's own pages that it was over.
Sound(w, k, n, v) ==
    v = NoRows \/ IF k = Season THEN v \in 1 .. w[n] ELSE ToldApart => v = Over

AnswerIs(w, k, answer) ==
    /\ DOMAIN answer \subseteq 1 .. Pages(k)
    /\ \A n \in DOMAIN answer : Sound(w, k, n, answer[n])

Fetching == {"send", "wait"}
Saving == {"save", "fill temp", "replace"}

\* A process asks for pages of games the season list called final, and holds
\* nothing else.
Fetches(p) ==
    /\ task[p] \in Requests
    /\ task[p] # Season => Ended(world, task[p][2])
    /\ todo[p] \subseteq {g \in Games : Ended(world, g)}
    /\ pc[p] \in Fetching => cursor[p] \in 1 .. Pages(task[p])
    /\ pc[p] \in Fetching \cup Saving => AnswerIs(world, task[p], got[p])

\* The temporary file a process is about to move is the one it wrote.
Moves(p) ==
    pc[p] = "replace" /\ TempPath(p, task[p]) \in DOMAIN temp =>
        temp[TempPath(p, task[p])] = [readable |-> TRUE, answer |-> got[p]]

\* Only a process whose gate passed writes the production model.
Promotes(p) ==
    target[p] = "production" => passed[p] = TRUE /\ pc[p] \in {"open", "fill", "approve"}

Coherent(p) == Fetches(p) /\ Moves(p) /\ Promotes(p)

Volume ==
    /\ \A k \in DOMAIN cache : /\ k \in Requests
                               /\ cache[k].readable = TRUE
                               /\ AnswerIs(world, k, cache[k].answer)
    /\ ProductionPassed

Shape ==
    /\ world \in [Games -> 1 .. Over]
    /\ DOMAIN file = {"rows", "candidate", "production"}
    /\ \A f \in {pc, task, cursor, got, todo, target, passed} : DOMAIN f = Process

JobInv == Shape /\ Volume /\ \A p \in Process : Coherent(p)
-----------------------------------------------------------------------------
\* Adding or replacing a value of a function, and leaving some out.
LEMMA PutAt ==
    ASSUME NEW f, NEW k, NEW v
    PROVE  /\ DOMAIN Put(f, k, v) = DOMAIN f \cup {k}
           /\ Put(f, k, v)[k] = v
           /\ \A x \in DOMAIN f : x # k => Put(f, k, v)[x] = f[x]
BY DEF Put

LEMMA Restricted ==
    ASSUME NEW f, NEW S
    PROVE  /\ DOMAIN Restrict(f, S) = S
           /\ \A x \in S : Restrict(f, S)[x] = f[x]
BY DEF Restrict

LEMMA SmallestGame ==
    ASSUME NEW S \in SUBSET Nat, S # {}
    PROVE  Min(S) \in S
BY LeastNatural DEF Min

LEMMA OverIsANumber == Over \in Nat \ {0}
BY JobAssumption DEF Over

\* A row of the season list counts as final only when the game is over, if the
\* list tells games apart.
LEMMA FinalIsOver ==
    ASSUME ToldApart, NEW n \in 1 .. Over, GameIsFinal(n)
    PROVE  n = Over
<1> SUFFICES ASSUME n \in 1 .. Over - 1 PROVE FALSE
  BY OverIsANumber
<1>1. Phases[n].period \in Nat
  <2>1. n \in 1 .. Len(Phases)
    BY OverIsANumber DEF Over
  <2> DEFINE Row == [status : STRING, period : Nat]
  <2>2. Phases \in Seq(Row)
    BY JobAssumption
  <2> HIDE DEF Row
  <2>3. Phases[n] \in Row
    BY <2>1, <2>2
  <2> QED  BY <2>3 DEF Row
<1>2. \/ Phases[n].status \in RunningNames
      \/ Phases[n].period < 4 /\ Phases[n].status \notin FinalNames
  BY DEF ToldApart
<1>3. \/ Phases[n].status \in FinalNames
      \/ Phases[n].period >= 4 /\ Phases[n].status \notin RunningNames
  BY DEF GameIsFinal
<1>4. Phases[n].status \in RunningNames => Phases[n].status \notin FinalNames
  BY DEF RunningNames, FinalNames
<1> QED  BY <1>1, <1>2, <1>3, <1>4

LEMMA GamesAreNaturals == Games \subseteq Nat
<1>1. Cardinality(Games) \in Nat
  BY JobAssumption, FS_CardinalityType
<1>2. \A g \in 1 .. Cardinality(Games) : g \in Nat
  BY <1>1
<1> QED  BY <1>2, JobAssumption

LEMMA RequestPages ==
    ASSUME NEW k \in Requests
    PROVE  /\ Pages(k) \in Nat \ {0}
           /\ k = Season => Pages(k) = Cardinality(Games)
           /\ k # Season => /\ k[1] \in {"stats", "game", "events", "odds"}
                            /\ k[2] \in Games
                            /\ k = <<k[1], k[2]>>
           /\ k[1] = "stats" => Pages(k) = StatPages
           /\ k[1] = "game" => Pages(k) = StatPages + 1
<1>1. Cardinality(Games) \in Nat \ {0}
  BY JobAssumption, FS_EmptySet, FS_CardinalityType
<1>2. CASE k = Season
  BY <1>1, <1>2 DEF Pages, Season
<1>3. ASSUME NEW s \in {"stats", "game", "events", "odds"}, NEW g \in Games, k = <<s, g>>
      PROVE  /\ k # Season /\ k[1] = s /\ k[2] = g
             /\ Pages(k) = IF s = "stats" THEN StatPages
                           ELSE IF s = "game" THEN StatPages + 1 ELSE 1
  BY <1>3 DEF Pages, Season
<1> QED  BY <1>2, <1>3, JobAssumption DEF Requests, Season

-----------------------------------------------------------------------------
(***************************************************************************)
(* Steps of one process do not touch what another one holds.               *)
(***************************************************************************)
Holds(q) == <<pc[q], task[q], cursor[q], got[q], todo[q], target[q], passed[q]>>

Alone(p) ==
    /\ \A q \in Process \ {p} : Holds(q)' = Holds(q)
    /\ \A f \in {pc, task, cursor, got, todo, target, passed}' : DOMAIN f = Process

\* Another process stays coherent: the games only go on, and no temporary file
\* of its own is written.
LEMMA OthersStay ==
    ASSUME Shape, Shape', NEW p \in Process, NEW q \in Process, Coherent(q),
           Holds(q)' = Holds(q),
           \A g \in Games : world[g] <= world'[g],
           \A k \in Requests : <<q, k>> \in DOMAIN temp' =>
               <<q, k>> \in DOMAIN temp /\ temp'[<<q, k>>] = temp[<<q, k>>]
    PROVE  Coherent(q)'
<1>1. /\ pc'[q] = pc[q] /\ task'[q] = task[q] /\ cursor'[q] = cursor[q]
      /\ got'[q] = got[q] /\ todo'[q] = todo[q] /\ target'[q] = target[q]
      /\ passed'[q] = passed[q]
  BY DEF Holds
<1>2. \A g \in Games : world[g] \in 1 .. Over /\ world'[g] \in 1 .. Over
  BY DEF Shape
<1>3. Over \in Nat
  BY OverIsANumber
<1>4. \A g \in Games : Ended(world, g) => Ended(world', g)
  BY <1>2, <1>3 DEF Ended
<1>5. task[q] \in Requests /\ (task[q] # Season => task[q][2] \in Games)
  BY RequestPages DEF Coherent, Fetches
<1>6. ASSUME NEW n \in 1 .. Pages(task[q]), NEW v, Sound(world, task[q], n, v)
      PROVE  Sound(world', task[q], n, v)
  <2>1. CASE task[q] = Season
    <3>1. n \in Games
      BY <1>5, <2>1, RequestPages, JobAssumption
    <3>2. world[n] \in Int /\ world'[n] \in Int /\ world[n] <= world'[n]
      BY <1>2, <1>3, <3>1
    <3> QED  BY <1>6, <2>1, <3>2 DEF Sound
  <2>2. CASE task[q] # Season
    BY <1>6, <2>2 DEF Sound
  <2> QED  BY <2>1, <2>2
<1>7. Fetches(q)'
  <2>1. task[q] # Season => Ended(world', task[q][2])
    BY <1>4, <1>5 DEF Coherent, Fetches
  <2>2. todo[q] \subseteq {g \in Games : Ended(world', g)}
    BY <1>4 DEF Coherent, Fetches
  <2>3. pc[q] \in Fetching \cup Saving => AnswerIs(world', task[q], got[q])
    BY <1>6 DEF Coherent, Fetches, AnswerIs
  <2> QED  BY <1>1, <1>5, <2>1, <2>2, <2>3 DEF Coherent, Fetches
<1>8. Moves(q)'
  BY <1>1, <1>5 DEF Coherent, Moves, TempPath
<1>9. Promotes(q)'
  BY <1>1 DEF Coherent, Promotes
<1> QED  BY <1>7, <1>8, <1>9 DEF Coherent

-----------------------------------------------------------------------------
(***************************************************************************)
(* How a process goes on.                                                  *)
(***************************************************************************)
LEMMA EndsCoherent ==
    ASSUME Shape, NEW p \in Process, End(p)
    PROVE  Coherent(p)' /\ Alone(p)
<1>1. /\ pc'[p] = "idle" /\ task'[p] = Season /\ todo'[p] = {} /\ target'[p] = "rows"
      /\ Alone(p)
  BY DEF Shape, End, Alone, Holds
<1>2. Fetches(p)'
  BY <1>1 DEF Fetches, Requests, Fetching, Saving
<1> QED  BY <1>1, <1>2 DEF Coherent, Moves, Promotes

\* The loop over the games asks only for games that are over.
LEMMA NextGameCoherent ==
    ASSUME Shape, NEW p \in Process, target[p] # "production", world' = world,
           NEW games \in SUBSET {g \in Games : Ended(world, g)}, NextGame(p, games)
    PROVE  Coherent(p)' /\ Alone(p)
<1>1. /\ todo'[p] = games /\ target'[p] # "production"
      /\ Alone(p)
  BY DEF Shape, NextGame, Ask, writing, Alone, Holds
<1>2. CASE games = {}
  <2>1. pc'[p] = "open" /\ task'[p] = Season
    BY <1>2 DEF NextGame, Ask, Shape
  <2>2. Fetches(p)'
    BY <1>1, <2>1 DEF Fetches, Requests, Fetching, Saving
  <2> QED  BY <1>1, <2>1, <2>2 DEF Coherent, Moves, Promotes
<1>3. CASE games # {}
  <2>1. Min(games) \in games
    <3>1. games \in SUBSET Nat
      BY GamesAreNaturals
    <3> QED  BY <1>3, <3>1, SmallestGame
  <2>2. pc'[p] = "lookup" /\ task'[p] = Payload(Min(games))
    BY <1>3 DEF NextGame, Ask, Shape
  <2>3. task'[p] \in Requests /\ task'[p][2] = Min(games) /\ Min(games) \in Games
    BY <2>1, <2>2 DEF Requests, Payload
  <2>4. Fetches(p)'
    BY <1>1, <2>1, <2>2, <2>3 DEF Fetches, Fetching, Saving
  <2> QED  BY <1>1, <2>2, <2>4 DEF Coherent, Moves, Promotes
<1> QED  BY <1>2, <1>3

\* A process goes on from a sound answer to requests it may make.
LEMMA ArriveCoherent ==
    ASSUME Shape, NEW p \in Process, Coherent(p), target[p] # "production",
           world' = world, NEW answer, AnswerIs(world, task[p], answer),
           Arrive(p, answer)
    PROVE  Coherent(p)' /\ Alone(p)
<1> DEFINE k == task[p]
<1> DEFINE final == {i \in DOMAIN answer : answer[i] # NoRows /\ GameIsFinal(answer[i])}
<1>1. /\ k \in Requests /\ (k # Season => Ended(world, k[2]))
      /\ todo[p] \in SUBSET {g \in Games : Ended(world, g)}
  BY DEF Coherent, Fetches
<1>2. /\ k # Season => /\ k[1] \in {"stats", "game", "events", "odds"}
                       /\ k[2] \in Games
  BY <1>1, RequestPages
<1>3. ASSUME NEW s \in {"stats", "game", "events", "odds"}, NEW g \in Games
      PROVE  <<s, g>> \in Requests /\ <<s, g>>[2] = g /\ <<s, g>> # Season
  BY DEF Requests, Season
<1>0. k = Season => DOMAIN answer \subseteq Games
  BY <1>1, RequestPages, JobAssumption DEF AnswerIs
<1>4. k = Season => final \in SUBSET {g \in Games : Ended(world, g)}
  <2> SUFFICES ASSUME k = Season, NEW i \in DOMAIN answer, answer[i] # NoRows,
                      GameIsFinal(answer[i]), ToldApart
               PROVE  i \in Games /\ world[i] = Over
    BY <1>0 DEF Ended
  <2>1. i \in Games /\ answer[i] \in 1 .. world[i]
    BY <1>0 DEF AnswerIs, Sound
  <2>2. world[i] \in 1 .. Over /\ Over \in Nat
    BY <2>1, OverIsANumber DEF Shape
  <2>3. answer[i] = Over
    BY <2>1, <2>2, FinalIsOver
  <2> QED  BY <2>1, <2>2, <2>3
<1>5. CASE k = Season /\ final = {}
  <2>1. End(p)
    BY <1>5 DEF Arrive, Season
  <2> QED  BY <2>1, EndsCoherent
<1>6. CASE k = Season /\ final # {}
  <2>1. NextGame(p, final)
    BY <1>6 DEF Arrive, Season
  <2> QED  BY <1>4, <1>6, <2>1, NextGameCoherent
<1>7. CASE k # Season /\ k[1] = "stats"
  <2>1. /\ pc' = [pc EXCEPT ![p] = "send"]
        /\ Ask(p, Payload(k[2]), answer)
        /\ UNCHANGED todo
    BY <1>7 DEF Arrive
  <2>2. /\ pc'[p] = "send" /\ task'[p] = Payload(k[2]) /\ got'[p] = answer
        /\ cursor'[p] = Pages(Payload(k[2]))
        /\ todo'[p] = todo[p] /\ target'[p] = target[p] /\ Alone(p)
    BY <2>1 DEF Ask, Payload, Shape, writing, Alone, Holds
  <2>3. /\ Payload(k[2]) \in Requests /\ Payload(k[2]) # Season
        /\ Payload(k[2])[2] = k[2] /\ Payload(k[2])[1] = "game"
    BY <1>2, <1>3, <1>7 DEF Payload
  <2>4. Pages(Payload(k[2])) = StatPages + 1 /\ Pages(k) = StatPages
    BY <1>1, <1>7, <2>3, RequestPages
  <2>5. StatPages \in Nat \ {0}
    BY JobAssumption
  <2>6. AnswerIs(world, Payload(k[2]), answer)
    <3>1. \A n \in 1 .. StatPages : n \in 1 .. StatPages + 1
      BY <2>5
    <3> QED  BY <1>7, <2>3, <2>4, <3>1 DEF AnswerIs, Sound
  <2>7. cursor'[p] \in 1 .. Pages(Payload(k[2]))
    BY <2>2, <2>4, <2>5
  <2>8. Fetches(p)'
    BY <1>1, <1>7, <2>2, <2>3, <2>6, <2>7 DEF Fetches
  <2> QED  BY <2>2, <2>8 DEF Coherent, Moves, Promotes
<1>8. ASSUME NEW s \in {"events", "odds"}, k # Season,
             pc' = [pc EXCEPT ![p] = "lookup"], Ask(p, <<s, k[2]>>, <<>>), UNCHANGED todo
      PROVE  Coherent(p)' /\ Alone(p)
  <2>1. /\ pc'[p] = "lookup" /\ task'[p] = <<s, k[2]>>
        /\ todo'[p] = todo[p] /\ target'[p] = target[p] /\ Alone(p)
    BY <1>8 DEF Ask, Shape, writing, Alone, Holds
  <2>2. <<s, k[2]>> \in Requests /\ <<s, k[2]>>[2] = k[2]
    BY <1>2, <1>3, <1>8
  <2>3. Fetches(p)'
    BY <1>1, <1>8, <2>1, <2>2 DEF Fetches, Fetching, Saving
  <2> QED  BY <2>1, <2>3 DEF Coherent, Moves, Promotes
<1>9. CASE k # Season /\ k[1] = "game"
  BY <1>8, <1>9 DEF Arrive, Events
<1>10. CASE k # Season /\ k[1] = "events" /\ k[2] \in Matched /\ answer[1] # NoRows
  BY <1>8, <1>10 DEF Arrive, Odds
<1>11. CASE /\ k # Season
            /\ k[1] = "odds" \/ (k[1] = "events" /\ ~ (k[2] \in Matched /\ answer[1] # NoRows))
  <2>1. NextGame(p, todo[p] \ {k[2]})
    BY <1>11 DEF Arrive
  <2>2. todo[p] \ {k[2]} \in SUBSET {g \in Games : Ended(world, g)}
    BY <1>1
  <2> QED  BY <2>1, <2>2, NextGameCoherent
<1> QED  BY <1>2, <1>5, <1>6, <1>7, <1>9, <1>10, <1>11

-----------------------------------------------------------------------------
(***************************************************************************)
(* The actions.                                                            *)
(***************************************************************************)

\* A step of one process that leaves games and cache alone, and of the
\* temporary files touches no other process's, needs to be looked at for that
\* process and the model files only.
LEMMA OneProcess ==
    ASSUME JobInv, NEW p \in Process, Coherent(p)', Alone(p), world' = world,
           cache' = cache \/ \E k \in Requests : \E answer :
               AnswerIs(world, k, answer) /\
               cache' = Put(cache, k, [readable |-> TRUE, answer |-> answer]),
           DOMAIN file' = DOMAIN file, ProductionPassed',
           \A q \in Process \ {p}, k \in Requests : <<q, k>> \in DOMAIN temp' =>
               <<q, k>> \in DOMAIN temp /\ temp'[<<q, k>>] = temp[<<q, k>>]
    PROVE  JobInv'
<1>1. Shape'
  BY DEF JobInv, Shape, Alone
<1>2. \A k \in DOMAIN cache' : /\ k \in Requests
                               /\ cache'[k].readable = TRUE
                               /\ AnswerIs(world', k, cache'[k].answer)
  <2>1. CASE cache' = cache
    BY <2>1 DEF JobInv, Volume
  <2>2. CASE cache' # cache
    <3>0. PICK k \in Requests : \E answer :
              AnswerIs(world, k, answer) /\
              cache' = Put(cache, k, [readable |-> TRUE, answer |-> answer])
      BY <2>2
    <3>1. PICK answer :
              AnswerIs(world, k, answer) /\
              cache' = Put(cache, k, [readable |-> TRUE, answer |-> answer])
      BY <3>0
    <3>2. /\ DOMAIN cache' = DOMAIN cache \cup {k}
          /\ cache'[k] = [readable |-> TRUE, answer |-> answer]
          /\ \A x \in DOMAIN cache : x # k => cache'[x] = cache[x]
      BY <3>1, PutAt
    <3>3. ASSUME NEW x \in DOMAIN cache'
          PROVE  /\ x \in Requests
                 /\ cache'[x].readable = TRUE
                 /\ AnswerIs(world', x, cache'[x].answer)
      <4>1. CASE x = k
        BY <3>1, <3>2, <4>1
      <4>2. CASE x # k
        BY <3>2, <3>3, <4>2 DEF JobInv, Volume
      <4> QED  BY <4>1, <4>2
    <3> QED  BY <3>3
  <2> QED  BY <2>1, <2>2
<1>3. ASSUME NEW q \in Process \ {p}  PROVE Coherent(q)'
  <2>1. \A g \in Games : world[g] <= world'[g]
    BY OverIsANumber DEF JobInv, Shape
  <2>2. Shape /\ Coherent(q) /\ Holds(q)' = Holds(q)
    BY DEF JobInv, Alone
  <2>3. \A k \in Requests : <<q, k>> \in DOMAIN temp' =>
            <<q, k>> \in DOMAIN temp /\ temp'[<<q, k>>] = temp[<<q, k>>]
    OBVIOUS
  <2> QED  BY <1>1, <2>1, <2>2, <2>3, OthersStay
<1>4. Volume'
  BY <1>2 DEF Volume
<1> QED  BY <1>1, <1>3, <1>4 DEF JobInv

LEMMA FilesStay == ProductionPassed /\ UNCHANGED file => ProductionPassed'
BY DEF ProductionPassed

\* What a process is about to do, and the production model.
LEMMA Guards ==
    ASSUME JobInv, NEW p \in Process
    PROVE  /\ Shape /\ Coherent(p) /\ ProductionPassed
           /\ pc[p] \notin {"open", "fill", "approve"} => target[p] # "production"
           /\ task[p] \in Requests
           /\ \A k \in Requests : \A q \in Process \ {p} :
                  <<q, k>> # TempPath(p, task[p])
BY DEF JobInv, Volume, Coherent, Promotes, Fetches, TempPath

\* A lookup that is answered by the cache has a sound answer.
LEMMA LookupKeeps == ASSUME JobInv, NEW p \in Process, Lookup(p) PROVE JobInv'
<1> USE Guards
<1>1. /\ pc[p] = "lookup" /\ world' = world /\ UNCHANGED volume
  BY DEF Lookup
<1>2. CASE Cached(task[p])
  <2>1. Arrive(p, cache[task[p]].answer)
    BY <1>2 DEF Lookup
  <2>2. AnswerIs(world, task[p], cache[task[p]].answer)
    BY <1>2 DEF Cached, JobInv, Volume
  <2>3. Coherent(p)' /\ Alone(p)
    BY <1>1, <2>1, <2>2, ArriveCoherent
  <2> QED  BY <1>1, <2>3, OneProcess, FilesStay DEF volume
<1>3. CASE ~ Cached(task[p]) /\ task[p][1] = "game"
  <2>1. pc' = pc /\ Ask(p, Stats(task[p][2]), <<>>) /\ UNCHANGED todo
    BY <1>3 DEF Lookup
  <2>2. /\ pc'[p] = "lookup" /\ task'[p] = Stats(task[p][2])
        /\ todo'[p] = todo[p] /\ target'[p] = target[p] /\ Alone(p)
    BY <1>1, <2>1 DEF Ask, Shape, writing, Alone, Holds
  <2>3. task[p] # Season /\ task[p][2] \in Games /\ Ended(world, task[p][2])
    BY <1>3, RequestPages DEF Season, Coherent, Fetches
  <2>4. task'[p] \in Requests /\ task'[p][2] = task[p][2]
    BY <2>2, <2>3 DEF Requests, Stats
  <2>5. Coherent(p)'
    BY <1>1, <2>2, <2>3, <2>4
       DEF Coherent, Fetches, Moves, Promotes, Fetching, Saving
  <2> QED  BY <1>1, <2>2, <2>5, OneProcess, FilesStay DEF volume
<1>4. CASE ~ Cached(task[p]) /\ task[p][1] # "game"
  <2>1. pc' = [pc EXCEPT ![p] = "send"] /\ Ask(p, task[p], <<>>) /\ UNCHANGED todo
    BY <1>4 DEF Lookup
  <2>2. /\ pc'[p] = "send" /\ task'[p] = task[p]
        /\ got'[p] = <<>> /\ cursor'[p] = 1
        /\ todo'[p] = todo[p] /\ target'[p] = target[p] /\ Alone(p)
    BY <1>4, <2>1 DEF Ask, Shape, writing, Alone, Holds
  <2>3. DOMAIN got'[p] = {}
    BY <2>2
  <2>4. Pages(task[p]) \in Nat \ {0} /\ cursor'[p] \in 1 .. Pages(task[p])
    BY <2>2, RequestPages
  <2>5. Fetches(p)'
    BY <1>1, <2>2, <2>3, <2>4 DEF Coherent, Fetches, AnswerIs
  <2>6. Coherent(p)'
    BY <1>1, <2>2, <2>5 DEF Coherent, Moves, Promotes
  <2> QED  BY <1>1, <2>2, <2>6, OneProcess, FilesStay DEF volume
<1> QED  BY <1>2, <1>3, <1>4

\* What comes is a page of what was asked for, or nothing; the next request is
\* for a page there is; and a process that cannot go on ends.
LEMMA FetchKeeps ==
    ASSUME JobInv, NEW p \in Process, Send(p) \/ Reply(p) \/ Choke(p) \/ Refuse(p)
    PROVE  JobInv'
<1> USE Guards
<1>1. /\ pc[p] \in Fetching /\ world' = world /\ UNCHANGED volume
  BY DEF Send, Reply, Choke, Refuse, volume, Fetching
<1>2. /\ cursor[p] \in 1 .. Pages(task[p]) /\ AnswerIs(world, task[p], got[p])
      /\ (task[p] # Season => Ended(world, task[p][2]))
      /\ todo[p] \subseteq {g \in Games : Ended(world, g)}
      /\ Pages(task[p]) \in Nat \ {0}
  BY <1>1, RequestPages DEF Coherent, Fetches
<1>3. target[p] # "production"
  BY <1>1 DEF Fetching
<1>4. CASE Send(p)
  <2>1. /\ pc'[p] = "wait" /\ task'[p] = task[p] /\ cursor'[p] = cursor[p]
        /\ got'[p] = got[p] /\ todo'[p] = todo[p] /\ target'[p] = target[p] /\ Alone(p)
    BY <1>4 DEF Send, Shape, fetch, writing, Alone, Holds
  <2>2. Coherent(p)'
    BY <1>1, <1>2, <1>3, <2>1
       DEF Coherent, Fetches, Moves, Promotes, Fetching, Saving
  <2> QED  BY <1>1, <2>1, <2>2, OneProcess, FilesStay DEF volume
<1>5. CASE Refuse(p)
  <2>1. CASE attempt[p] + 1 >= Attempts
    <3>1. End(p)
      BY <1>5, <2>1 DEF Refuse
    <3> QED  BY <1>1, <3>1, EndsCoherent, OneProcess, FilesStay DEF volume
  <2>2. CASE ~ (attempt[p] + 1 >= Attempts)
    <3>1. /\ pc'[p] = "send" /\ task'[p] = task[p] /\ cursor'[p] = cursor[p]
          /\ got'[p] = got[p] /\ todo'[p] = todo[p] /\ target'[p] = target[p] /\ Alone(p)
      BY <1>5, <2>2 DEF Refuse, Shape, writing, Alone, Holds
    <3>2. Coherent(p)'
      BY <1>1, <1>2, <1>3, <3>1
         DEF Coherent, Fetches, Moves, Promotes, Fetching, Saving
    <3> QED  BY <1>1, <3>1, <3>2, OneProcess, FilesStay DEF volume
  <2> QED  BY <2>1, <2>2
<1>6. CASE Choke(p)
  BY <1>1, <1>6, EndsCoherent, OneProcess, FilesStay DEF Choke, volume
<1>7. CASE Reply(p)
  <2> DEFINE n == cursor[p]
  <2>1. PICK lacks \in Lacking(task[p], n) :
            /\ got' = [got EXCEPT ![p] = Put(got[p], n, IF "data" \in lacks THEN NoRows
                                                        ELSE Seen(task[p], n))]
            /\ \E next \in IF "meta" \in lacks THEN {NoCursor} ELSE NextCursor(task[p], n) :
                 IF LastPage(next, n)
                 THEN pc' = [pc EXCEPT ![p] = "save"] /\ UNCHANGED cursor
                 ELSE /\ cursor' = [cursor EXCEPT ![p] = next.page]
                      /\ pc' = [pc EXCEPT ![p] = "send"]
    BY <1>7 DEF Reply
  <2>2. PICK next \in {NoCursor} \cup NextCursor(task[p], n) :
            IF LastPage(next, n)
            THEN pc' = [pc EXCEPT ![p] = "save"] /\ UNCHANGED cursor
            ELSE /\ cursor' = [cursor EXCEPT ![p] = next.page]
                 /\ pc' = [pc EXCEPT ![p] = "send"]
    BY <2>1
  <2> DEFINE page == IF "data" \in lacks THEN NoRows ELSE Seen(task[p], n)
  <2>3. /\ got'[p] = Put(got[p], n, page) /\ task'[p] = task[p]
        /\ todo'[p] = todo[p] /\ target'[p] = target[p] /\ Alone(p)
        /\ pc'[p] \in {"send", "save"}
    BY <1>7, <2>1, <2>2 DEF Reply, Shape, writing, Alone, Holds
  <2>4. Sound(world, task[p], n, page)
    <3>1. CASE task[p] = Season
      <4>1. n \in Games
        BY <1>2, <3>1, RequestPages, JobAssumption
      <4>2. world[n] \in 1 .. Over /\ Over \in Nat
        BY <4>1, OverIsANumber DEF Shape
      <4>3. page \in {NoRows, world[n]}
        BY <3>1 DEF Seen, Season
      <4> QED  BY <3>1, <4>2, <4>3 DEF Sound
    <3>2. CASE task[p] # Season
      <4>1. ToldApart => page \in {NoRows, Over}
        BY <1>2, <3>2 DEF Seen, Ended
      <4> QED  BY <3>2, <4>1 DEF Sound
    <3> QED  BY <3>1, <3>2
  <2>5. AnswerIs(world, task[p], got'[p])
    <3> HIDE DEF page
    <3>1. /\ DOMAIN got'[p] = DOMAIN got[p] \cup {n}
          /\ got'[p][n] = page
          /\ \A x \in DOMAIN got[p] : x # n => got'[p][x] = got[p][x]
      BY <2>3 DEF Put
    <3> QED  BY <1>2, <2>4, <3>1 DEF AnswerIs
  <2>6. pc'[p] = "send" => cursor'[p] \in 1 .. Pages(task[p])
    <3> SUFFICES ASSUME pc'[p] = "send" PROVE cursor'[p] \in 1 .. Pages(task[p])
      OBVIOUS
    <3>1. cursor'[p] = next.page /\ ~ LastPage(next, n)
      BY <2>2 DEF Shape
    <3>2. next # NoCursor
      BY <3>1 DEF LastPage
    <3>3. \E type : \/ n < Pages(task[p]) /\ next = Cursor(type, n + 1)
                    \/ next = Cursor(type, n)
      BY <2>2, <3>2 DEF NextCursor
    <3>4. next.page = n \/ (n < Pages(task[p]) /\ next.page = n + 1)
      BY <3>3 DEF Cursor
    <3> QED  BY <1>2, <3>1, <3>4
  <2>7. Fetches(p)'
    BY <1>1, <1>2, <2>3, <2>5, <2>6 DEF Fetches, Fetching
  <2>8. Coherent(p)'
    BY <1>3, <2>3, <2>7 DEF Coherent, Moves, Promotes
  <2> QED  BY <1>1, <2>3, <2>8, <1>7, OneProcess, FilesStay DEF volume, Reply
<1> QED  BY <1>4, <1>5, <1>6, <1>7

\* A temporary file belongs to the process that opened it, and what is moved
\* into the cache is the whole answer it holds.
LEMMA SaveKeeps ==
    ASSUME JobInv, NEW p \in Process, OpenTemp(p) \/ WriteTemp(p) \/ Replace(p)
    PROVE  JobInv'
<1> USE Guards
<1> DEFINE path == TempPath(p, task[p])
<1>1. /\ pc[p] \in Saving /\ world' = world /\ file' = file
      /\ AnswerIs(world, task[p], got[p])
      /\ (task[p] # Season => Ended(world, task[p][2]))
      /\ todo[p] \subseteq {g \in Games : Ended(world, g)}
  BY DEF OpenTemp, WriteTemp, Replace, Saving, Coherent, Fetches
<1>2. target[p] # "production"
  BY <1>1 DEF Saving
<1>3. ASSUME NEW content, temp' = Put(temp, path, content)
      PROVE  /\ temp'[path] = content
             /\ \A q \in Process \ {p}, k \in Requests : <<q, k>> \in DOMAIN temp' =>
                    <<q, k>> \in DOMAIN temp /\ temp'[<<q, k>>] = temp[<<q, k>>]
  <2>1. \A x \in DOMAIN temp' : x # path => x \in DOMAIN temp /\ temp'[x] = temp[x]
    BY <1>3 DEF Put
  <2>2. temp'[path] = content
    BY <1>3 DEF Put
  <2> QED  BY <2>1, <2>2
<1>4. CASE OpenTemp(p)
  <2>1. /\ pc'[p] = "fill temp" /\ task'[p] = task[p] /\ got'[p] = got[p]
        /\ todo'[p] = todo[p] /\ target'[p] = target[p] /\ cache' = cache /\ Alone(p)
    BY <1>4 DEF OpenTemp, Shape, fetch, writing, Alone, Holds
  <2>2. Coherent(p)'
    BY <1>1, <1>2, <2>1 DEF Coherent, Fetches, Moves, Promotes, Fetching, Saving
  <2>3. temp' = Put(temp, path, [readable |-> FALSE, answer |-> <<>>])
    BY <1>4 DEF OpenTemp
  <2> QED  BY <1>1, <1>3, <2>1, <2>2, <2>3, OneProcess, FilesStay
<1>5. CASE WriteTemp(p)
  <2>1. /\ pc'[p] = "replace" /\ task'[p] = task[p] /\ got'[p] = got[p]
        /\ todo'[p] = todo[p] /\ target'[p] = target[p] /\ cache' = cache /\ Alone(p)
    BY <1>5 DEF WriteTemp, Shape, fetch, writing, Alone, Holds
  <2>2. temp' = Put(temp, path, [readable |-> TRUE, answer |-> got[p]])
    BY <1>5 DEF WriteTemp
  <2>3. Fetches(p)'
    BY <1>1, <2>1 DEF Fetches, Fetching, Saving, Coherent
  <2>4. temp'[path] = [readable |-> TRUE, answer |-> got[p]]
    BY <1>3, <2>2
  <2>5. Coherent(p)'
    BY <1>2, <2>1, <2>3, <2>4 DEF Coherent, Moves, Promotes, TempPath
  <2> QED  BY <1>1, <1>3, <2>1, <2>2, <2>5, OneProcess, FilesStay
<1>6. CASE Replace(p)
  <2>1. \A q \in Process \ {p}, k \in Requests : <<q, k>> \in DOMAIN temp' =>
            <<q, k>> \in DOMAIN temp /\ temp'[<<q, k>>] = temp[<<q, k>>]
    <3>1. temp' = Restrict(temp, DOMAIN temp \ {path})
      BY <1>6 DEF Replace
    <3> QED  BY <3>1, Restricted
  <2>2. CASE path \in DOMAIN temp
    <3>1. cache' = Put(cache, task[p], temp[path]) /\ Arrive(p, got[p])
      BY <1>6, <2>2 DEF Replace
    <3>2. temp[path] = [readable |-> TRUE, answer |-> got[p]]
      BY <1>6, <2>2 DEF Replace, Coherent, Moves
    <3>3. Coherent(p)' /\ Alone(p)
      BY <1>1, <1>2, <3>1, ArriveCoherent
    <3> QED  BY <1>1, <2>1, <3>1, <3>2, <3>3, OneProcess, FilesStay
  <2>3. CASE path \notin DOMAIN temp
    <3>1. cache' = cache /\ End(p)
      BY <1>6, <2>3 DEF Replace
    <3> QED  BY <1>1, <2>1, <3>1, EndsCoherent, OneProcess, FilesStay
  <2> QED  BY <2>2, <2>3
<1> QED  BY <1>4, <1>5, <1>6

\* What is written is a verdict of the process itself: whoever wrote the
\* production model before, its content says what this gate said, or is torn.
LEMMA FileKeeps ==
    ASSUME JobInv, NEW p \in Process, Open(p) \/ Fill(p)
    PROVE  JobInv'
<1> USE Guards
<1>1. /\ world' = world /\ cache' = cache /\ temp' = temp /\ task' = task
      /\ todo' = todo /\ target' = target /\ passed' = passed /\ got' = got
      /\ cursor' = cursor /\ pc[p] \in {"open", "fill"}
  BY DEF Open, Fill, fetch, writing
<1>2. Alone(p) /\ pc'[p] \in {"fill", "gate", "install", "approve"}
      /\ (target[p] = "production" => pc'[p] \in {"fill", "approve"})
  BY DEF Open, Fill, After, fetch, writing, Alone, Holds, Shape
<1>3. Fetches(p)'
  BY <1>1, <1>2 DEF Coherent, Fetches, Fetching, Saving
<1>4. Coherent(p)'
  BY <1>1, <1>2, <1>3 DEF Coherent, Moves, Promotes
<1>5. PICK content \in {Torn} \cup Written(p) :
          file' = [file EXCEPT ![target[p]] = content]
  BY DEF Open, Fill
<1>6. target[p] = "production" /\ content.state = "whole" => content.passed = TRUE
  <2> SUFFICES ASSUME target[p] = "production", content.state = "whole"
               PROVE  content.passed = TRUE
    OBVIOUS
  <2>1. passed[p] = TRUE
    BY DEF Coherent, Promotes
  <2>2. content # Torn
    BY DEF Torn
  <2>3. content = Whole(passed[p])
    BY <1>5, <2>2 DEF Written
  <2> QED  BY <2>1, <2>3 DEF Whole
<1>7. ProductionPassed' /\ DOMAIN file' = DOMAIN file
  BY <1>5, <1>6 DEF ProductionPassed, Shape
<1> QED  BY <1>1, <1>2, <1>4, <1>7, OneProcess

\* The gate and what it decides: the production model becomes the target only
\* of a process whose gate passed.
LEMMA VerdictKeeps ==
    ASSUME JobInv, NEW p \in Process,
           \/ Inputs(p) \/ Gate(p) \/ NoVerdict(p) \/ ReadCandidate(p)
           \/ Install(p) \/ Withdraw(p) \/ Approve(p)
    PROVE  JobInv'
<1> USE Guards
<1>1. /\ world' = world /\ cache' = cache /\ temp' = temp /\ file' = file
      /\ pc[p] \in {"inputs", "gate", "bundle", "install", "approve"}
  BY DEF Inputs, Gate, NoVerdict, ReadCandidate, Install, Withdraw, Approve, volume
<1>2. SUFFICES Coherent(p)' /\ Alone(p)
  BY <1>1, <1>2, OneProcess, FilesStay
<1>3. CASE End(p)
  BY <1>3, EndsCoherent
<1>4. ASSUME UNCHANGED fetch, Alone(p), pc'[p] \in {"gate", "bundle", "install", "open"},
             target'[p] = "production" => passed'[p] = TRUE /\ pc'[p] = "open"
      PROVE  Coherent(p)' /\ Alone(p)
  <2>1. Fetches(p)'
    BY <1>1, <1>4 DEF Coherent, Fetches, Fetching, Saving, fetch
  <2> QED  BY <1>4, <2>1 DEF Coherent, Moves, Promotes
<1>5. CASE ~ End(p) /\ (Inputs(p) \/ ReadCandidate(p))
  <2>1. UNCHANGED fetch /\ Alone(p) /\ pc'[p] \in {"gate", "install"}
        /\ target'[p] # "production"
    BY <1>5 DEF Inputs, ReadCandidate, fetch, writing, Alone, Holds, Shape
  <2> QED  BY <1>4, <2>1
<1>6. CASE Gate(p)
  <2>1. UNCHANGED fetch /\ Alone(p) /\ pc'[p] \in {"open", "bundle"}
        /\ target'[p] # "production"
    BY <1>6 DEF Gate, fetch, Alone, Holds, Shape
  <2> QED  BY <1>4, <2>1
<1>7. CASE Install(p)
  <2>1. UNCHANGED fetch /\ Alone(p) /\ pc'[p] = "open" /\ passed'[p] = passed[p]
    BY <1>7 DEF Install, fetch, Alone, Holds, Shape
  <2>2. passed[p] = TRUE
    BY <1>7 DEF Install, Passes
  <2> QED  BY <1>4, <2>1, <2>2
<1>8. NoVerdict(p) \/ Withdraw(p) \/ Approve(p) => End(p)
  BY DEF NoVerdict, Withdraw, Approve
<1> QED  BY <1>3, <1>5, <1>6, <1>7, <1>8

\* A process starts from nothing, and is killed into nothing.
LEMMA StartKillKeeps ==
    ASSUME JobInv, NEW p \in Process,
           Kill(p) \/ Start(p, "walk") \/ Start(p, "repair")
    PROVE  JobInv'
<1> USE Guards
<1>1. CASE Kill(p)
  <2>1. End(p) /\ world' = world /\ cache' = cache /\ file' = file
        /\ temp' = Restrict(temp, DOMAIN temp \ {TempPath(p, task[p])})
    BY <1>1 DEF Kill
  <2> QED  BY <2>1, EndsCoherent, OneProcess, FilesStay, Restricted
<1>2. CASE Start(p, "walk") \/ Start(p, "repair")
  <2>1. /\ pc[p] = "idle" /\ pc'[p] \in {"lookup", "inputs"}
        /\ UNCHANGED <<world, cache, temp, file, task, cursor, got, todo, target, passed>>
        /\ Alone(p)
    BY <1>2 DEF Start, volume, fetch, writing, Alone, Holds, Shape
  <2>2. Fetches(p)'
    BY <2>1 DEF Coherent, Fetches, Fetching, Saving
  <2>3. Coherent(p)'
    BY <2>1, <2>2 DEF Coherent, Moves, Promotes
  <2> QED  BY <2>1, <2>3, OneProcess, FilesStay
<1> QED  BY <1>1, <1>2

\* The games go on under running processes: what pages and cached answers say
\* stays true.
LEMMA PlayKeeps == ASSUME JobInv, NEW g \in Games, Play(g) PROVE JobInv'
<1>1. /\ world' = [world EXCEPT ![g] = world[g] + 1] /\ world[g] < Over
      /\ cache' = cache /\ temp' = temp /\ file' = file /\ pc' = pc /\ task' = task
      /\ cursor' = cursor /\ got' = got /\ todo' = todo /\ target' = target
      /\ passed' = passed
  BY DEF Play, volume, fetch, writing
<1>2. Shape'
  BY <1>1, OverIsANumber DEF JobInv, Shape
<1>3. \A x \in Games : /\ world[x] \in 1 .. Over /\ world'[x] \in 1 .. Over
                       /\ world[x] <= world'[x]
  BY <1>1, <1>2, OverIsANumber DEF JobInv, Shape
<1>4. ASSUME NEW q \in Process  PROVE Coherent(q)'
  <2>1. Shape /\ Coherent(q) /\ Holds(q)' = Holds(q)
    BY <1>1 DEF JobInv, Holds
  <2> QED  BY <1>1, <1>2, <1>3, <2>1, OthersStay
<1>5. ASSUME NEW k \in DOMAIN cache
      PROVE  k \in Requests /\ cache[k].readable = TRUE /\ AnswerIs(world', k, cache[k].answer)
  <2>1. /\ k \in Requests /\ cache[k].readable = TRUE
        /\ AnswerIs(world, k, cache[k].answer)
    BY DEF JobInv, Volume
  <2>2. ASSUME NEW n \in DOMAIN cache[k].answer
        PROVE  Sound(world', k, n, cache[k].answer[n])
    <3>1. Sound(world, k, n, cache[k].answer[n]) /\ n \in 1 .. Pages(k)
      BY <2>1 DEF AnswerIs
    <3>2. CASE k = Season
      <4>1. n \in Games
        BY <2>1, <3>1, <3>2, RequestPages, JobAssumption
      <4>2. world[n] \in Int /\ world'[n] \in Int /\ world[n] <= world'[n]
        BY <1>3, <4>1, OverIsANumber
      <4> QED  BY <3>1, <3>2, <4>2 DEF Sound
    <3>3. CASE k # Season
      BY <3>1, <3>3 DEF Sound
    <3> QED  BY <3>2, <3>3
  <2>3. AnswerIs(world', k, cache[k].answer)
    BY <2>1, <2>2 DEF AnswerIs
  <2> QED  BY <2>1, <2>3
<1>6. Volume'
  BY <1>1, <1>5, FilesStay DEF Volume, JobInv
<1> QED  BY <1>2, <1>4, <1>6 DEF JobInv

LEMMA InitJob == Init => JobInv
<1> SUFFICES ASSUME Init PROVE JobInv
  OBVIOUS
<1>1. Shape
  BY JobAssumption, OverIsANumber DEF Init, Shape, Over
<1>2. Volume
  <2>1. DOMAIN cache = {}
    BY DEF Init
  <2> QED  BY <2>1 DEF Init, Volume, ProductionPassed, Absent
<1>3. ASSUME NEW p \in Process  PROVE Coherent(p)
  <2>1. /\ pc[p] = "idle" /\ task[p] = Season /\ todo[p] = {} /\ target[p] = "rows"
    BY DEF Init
  <2> QED  BY <2>1 DEF Coherent, Fetches, Moves, Promotes, Requests, Fetching, Saving
<1> QED  BY <1>1, <1>2, <1>3 DEF JobInv

LEMMA NextJob == JobInv /\ [Next]_vars => JobInv'
<1> SUFFICES ASSUME JobInv, [Next]_vars PROVE JobInv'
  OBVIOUS
<1>1. ASSUME NEW p \in Process, Step(p)  PROVE JobInv'
  BY <1>1, LookupKeeps, FetchKeeps, SaveKeeps, FileKeeps, VerdictKeeps DEF Step
<1>2. ASSUME NEW p \in Process, Kill(p) \/ Start(p, "walk") \/ Start(p, "repair")
      PROVE  JobInv'
  BY <1>2, StartKillKeeps
<1>3. ASSUME NEW g \in Games, Play(g)  PROVE JobInv'
  BY <1>3, PlayKeeps
<1>4. CASE UNCHANGED vars
  BY <1>4 DEF vars, volume, fetch, writing, JobInv, Shape, Volume, ProductionPassed,
              Coherent, Fetches, Moves, Promotes
<1> QED  BY <1>1, <1>2, <1>3, <1>4 DEF Next
-----------------------------------------------------------------------------
(***************************************************************************)
(* What the volume holds.                                                  *)
(***************************************************************************)

\* Whatever the interleaving of processes, kills and games, every process is
\* coherent and the volume sound.
THEOREM JobIsInductive == Spec => []JobInv
BY InitJob, NextJob, PTL DEF Spec

\* A process moves into the cache, under the request it is at, what it received
\* for it: the temporary file it moves has a name of its own, and it was written
\* before (JsonCache.save).
THEOREM TheCacheIsReceived == Spec => SavedAsReceived
<1> DEFINE Saves ==
        \A k \in DOMAIN cache' :
            \/ k \in DOMAIN cache /\ cache'[k] = cache[k]
            \/ \E p \in Process :
                  /\ pc[p] = "replace" /\ task[p] = k
                  /\ cache'[k] = [readable |-> TRUE, answer |-> got[p]]
<1>1. JobInv /\ [Next]_vars => [Saves]_vars
  <2> SUFFICES ASSUME JobInv, [Next]_vars PROVE Saves
    OBVIOUS
  <2>1. CASE cache' = cache
    BY <2>1
  <2>2. CASE cache' # cache
    <3>1. PICK p \in Process : Replace(p)
      <4>1. ~ UNCHANGED vars
        BY <2>2 DEF vars, volume
      <4>2. \A g \in Games : ~ Play(g)
        BY <2>2 DEF Play, volume
      <4>3. PICK p \in Process : Step(p) \/ Kill(p) \/ Start(p, "walk") \/ Start(p, "repair")
        BY <4>1, <4>2 DEF Next
      <4>4. Replace(p)
        BY <2>2, <4>3 DEF Step, Kill, Start, Lookup, Send, Reply, Choke, Refuse, OpenTemp,
           WriteTemp, Inputs, Open, Fill, Gate, NoVerdict, ReadCandidate, Install, Withdraw,
           Approve, volume
      <4> QED  BY <4>4
    <3>2. TempPath(p, task[p]) \in DOMAIN temp
      BY <2>2, <3>1 DEF Replace
    <3>3. cache' = Put(cache, task[p], temp[TempPath(p, task[p])]) /\ pc[p] = "replace"
      BY <3>1, <3>2 DEF Replace
    <3>4. temp[TempPath(p, task[p])] = [readable |-> TRUE, answer |-> got[p]]
      BY <3>2, <3>3 DEF JobInv, Coherent, Moves
    <3>5. ASSUME NEW k \in DOMAIN cache', k # task[p]
          PROVE  k \in DOMAIN cache /\ cache'[k] = cache[k]
      BY <3>3, <3>5 DEF Put
    <3>6. cache'[task[p]] = [readable |-> TRUE, answer |-> got[p]]
      BY <3>3, <3>4 DEF Put
    <3> QED  BY <3>3, <3>5, <3>6
  <2> QED  BY <2>1, <2>2
<1> QED  BY <1>1, JobIsInductive, PTL DEF Spec, SavedAsReceived

\* Where the season list tells running games from finished ones, statistics and
\* plays in the cache are those of the finished game: it is asked for only after
\* the list called it final, and stays final.  Of a list that calls a running
\* game "q4" the theorem says nothing.
THEOREM TheCacheIsFinal == Spec => []KeptOnceToldApart
<1>1. JobInv => KeptOnceToldApart
  <2> SUFFICES ASSUME JobInv, ToldApart, NEW k \in DOMAIN cache, k[1] \in {"stats", "game"}
               PROVE  Range(cache[k].answer) \subseteq {Over, NoRows}
    BY DEF KeptOnceToldApart, KeptWhenOver
  <2>1. k \in Requests /\ AnswerIs(world, k, cache[k].answer)
    BY DEF JobInv, Volume
  <2>2. k # Season
    BY DEF Season
  <2>3. \A n \in DOMAIN cache[k].answer : cache[k].answer[n] \in {Over, NoRows}
    BY <2>1, <2>2 DEF AnswerIs, Sound
  <2> QED  BY <2>3 DEF Range
<1> QED  BY <1>1, JobIsInductive, PTL

\* However the walk-forward and the repair overlap on rows, candidate and
\* production model, a production model that can be read passed its own gate.
THEOREM TheModelPassed == Spec => []ProductionPassed
<1>1. JobInv => ProductionPassed
  BY DEF JobInv, Volume
<1> QED  BY <1>1, JobIsInductive, PTL
=============================================================================
