------------------------ MODULE PollingWatcherProofs ------------------------
(***************************************************************************)
(* Theorems of PollingWatcher, for every number of clients, watchers,      *)
(* loops, edits and failures, of polls and of publishes.                   *)
(***************************************************************************)
EXTENDS PollingWatcher, FiniteSetTheorems, TLAPS

\* The part of TypeOK that the reports rest on.
Types ==
  /\ version \in Nat /\ created \in Nat /\ current \in Nat
  /\ mine \in [Clients -> Nat]
  /\ loop \in [Loops -> Loop]
  /\ failures \in Seq(Loops \cup {None})

\* The events that report a failure of loop l.
ReportsOf(l) == {k \in DOMAIN failures : failures[k] = l}

Working == {"unborn", "born", "wait", "scan", "compare", "same", "differ", "read", "index"}

\* None before the poll fails; while the handler runs, the one the exception is
\* tagged with, if the engine has published it; one once the loop goes down.
\* When publishing may raise, the engine's event may be there without a tag.
Reported(l) ==
  /\ loop[l].at \in Working => ReportsOf(l) = {}
  /\ loop[l].at \in {"scan", "compare", "same", "differ", "read", "index"} =>
       loop[l].tag = None /\ loop[l].cursor <= Len(failures)
  /\ loop[l].at = "report" =>
       \/ loop[l].tag = None /\ (polls.lossy \/ ReportsOf(l) = {})
       \/ loop[l].tag \in (loop[l].cursor + 1)..Len(failures) /\ ReportsOf(l) = {loop[l].tag}
  /\ loop[l].at \in {"down", "halt", "announce"} =>
       polls.lossy \/ \E k \in Nat : ReportsOf(l) = {k}

Inv == Types /\ \A l \in Loops : Reported(l)

-----------------------------------------------------------------------------
LEMMA NoneIsNoLoop == None \notin Loops /\ Loops \subseteq Nat /\ None \in Nat
  BY WatcherAssumption DEF Loops, None

\* One field of a loop's state is set.
LEMMA SetAt ==
  ASSUME NEW r \in Loop, NEW x \in LoopSteps
  PROVE  LET n == [r EXCEPT !.at = x] IN
         /\ n \in Loop /\ n.at = x /\ n.of = r.of /\ n.cursor = r.cursor
         /\ n.seen = r.seen /\ n.tag = r.tag
  BY Zenon DEF Loop
LEMMA SetOf ==
  ASSUME NEW r \in Loop, NEW x \in Nat
  PROVE  LET n == [r EXCEPT !.of = x] IN
         /\ n \in Loop /\ n.at = r.at /\ n.of = x /\ n.cursor = r.cursor
         /\ n.seen = r.seen /\ n.tag = r.tag
  BY Zenon DEF Loop
LEMMA SetCursor ==
  ASSUME NEW r \in Loop, NEW x \in Nat
  PROVE  LET n == [r EXCEPT !.cursor = x] IN
         /\ n \in Loop /\ n.at = r.at /\ n.of = r.of /\ n.cursor = x
         /\ n.seen = r.seen /\ n.tag = r.tag
  BY Zenon DEF Loop
LEMMA SetSeen ==
  ASSUME NEW r \in Loop, NEW x \in Nat
  PROVE  LET n == [r EXCEPT !.seen = x] IN
         /\ n \in Loop /\ n.at = r.at /\ n.of = r.of /\ n.cursor = r.cursor
         /\ n.seen = x /\ n.tag = r.tag
  BY Zenon DEF Loop
LEMMA SetTag ==
  ASSUME NEW r \in Loop, NEW x \in Nat
  PROVE  LET n == [r EXCEPT !.tag = x] IN
         /\ n \in Loop /\ n.at = r.at /\ n.of = r.of /\ n.cursor = r.cursor
         /\ n.seen = r.seen /\ n.tag = x
  BY Zenon DEF Loop

\* A function of loops in which one loop's state is set twice.
LEMMA SetTwice ==
  ASSUME NEW f \in [Loops -> Loop], NEW l \in Loops, NEW r \in Loop, NEW n \in Loop,
         NEW g, NEW h,
         g = [f EXCEPT ![l] = r], h = [g EXCEPT ![l] = n]
  PROVE  /\ h \in [Loops -> Loop] /\ h[l] = n
         /\ \A m \in Loops \ {l} : h[m] = f[m]
  OBVIOUS

\* One loop moves; the others stand where they stood, and no event is theirs.
Only(l) == \A m \in Loops \ {l} : loop'[m] = loop[m]

LEMMA OthersKeep ==
  ASSUME Inv, NEW l \in Loops, Only(l), polls' = polls,
         \/ failures' = failures
         \/ failures' = Append(failures, l)
  PROVE  \A m \in Loops \ {l} : Reported(m)'
  <1> SUFFICES ASSUME NEW m \in Loops \ {l}  PROVE Reported(m)'
    OBVIOUS
  <1>1. Reported(m) /\ loop'[m] = loop[m] /\ failures \in Seq(Loops \cup {None})
        /\ loop[m] \in Loop
    BY DEF Inv, Types, Only
  <1>2. ReportsOf(m)' = ReportsOf(m)
    BY <1>1 DEF ReportsOf
  <1>3. Len(failures) \in Nat /\ Len(failures') >= Len(failures) /\ Len(failures') \in Nat
    BY <1>1
  <1> QED  BY <1>1, <1>2, <1>3 DEF Reported, Loop

\* Another request's failure is no loop's.
LEMMA OtherFailureKeeps ==
  ASSUME Inv, failures' = Append(failures, None), UNCHANGED <<polls, version, created, current,
  mine, loop>>
  PROVE  Inv'
  <1>1. failures \in Seq(Loops \cup {None}) /\ Types'
    BY DEF Inv, Types
  <1>2. ASSUME NEW m \in Loops PROVE Reported(m)'
    <2>1. Reported(m) /\ loop'[m] = loop[m] /\ loop[m] \in Loop /\ m # None
      BY NoneIsNoLoop DEF Inv, Types
    <2>2. ReportsOf(m)' = ReportsOf(m)
      BY <1>1, <2>1 DEF ReportsOf
    <2>3. Len(failures) \in Nat /\ Len(failures') >= Len(failures) /\ Len(failures') \in Nat
      BY <1>1
    <2> QED  BY <2>1, <2>2, <2>3 DEF Reported, Loop
  <1> QED  BY <1>1, <1>2 DEF Inv

\* A step that moves loop l, and perhaps publishes its failure.
LEMMA Moves ==
  ASSUME Inv, NEW l \in Loops, NEW n \in Loop,
         loop' \in [Loops -> Loop], loop'[l] = n, Only(l),
         UNCHANGED <<polls, version, created, current, mine>>,
         \/ failures' = failures
         \/ failures' = Append(failures, l),
         Reported(l)'
  PROVE  Inv'
  <1>0. Types /\ failures \in Seq(Loops \cup {None})
    BY DEF Inv, Types
  <1>1. failures' \in Seq(Loops \cup {None})
    BY <1>0
  <1>2. Types'
    BY <1>0, <1>1 DEF Types
  <1>3. \A m \in Loops \ {l} : Reported(m)'
    BY OthersKeep
  <1> QED  BY <1>2, <1>3 DEF Inv

LEMMA GotoEffect ==
  ASSUME Types, NEW l \in Loops, NEW x \in LoopSteps, GotoL(l, x)
  PROVE  /\ loop' \in [Loops -> Loop] /\ Only(l) /\ loop'[l] \in Loop
         /\ loop'[l].at = x /\ loop'[l].cursor = loop[l].cursor /\ loop'[l].tag = loop[l].tag
  <1> DEFINE n == [loop[l] EXCEPT !.at = x]
  <1>1. loop \in [Loops -> Loop] /\ loop[l] \in Loop
    BY DEF Types
  <1>2. n \in Loop /\ n.at = x /\ n.cursor = loop[l].cursor /\ n.tag = loop[l].tag
    BY <1>1, SetAt, Zenon
  <1>3. loop' \in [Loops -> Loop] /\ loop'[l] = n /\ Only(l)
    BY <1>1, <1>2, Zenon DEF GotoL, Only
  <1> HIDE DEF n
  <1> QED  BY <1>2, <1>3, Zenon

-----------------------------------------------------------------------------
(* The actions of the loops. *)

\* Steps that publish nothing, and after which the loop has its tag and cursor.
LEMMA PlainStepKeeps ==
  ASSUME Inv, NEW l \in Loops,
         \/ LoopEnds(l) \/ ScanRaises(l) \/ PollCompares(l) \/ PollTakes(l) \/ IndexEnds(l)
         \/ NoticeRaises(l)
         \/ LoopUnruns(l) \/ LoopSets(l) \/ LoopAnnounces(l)
  PROVE  Inv'
  <1> DEFINE before == loop[l].at
             after == CASE before = "wait" -> {"dead"}
                        [] before = "scan" -> {"report"}
                        [] before = "compare" -> {"same", "differ"}
                        [] before \in {"same", "differ"} -> {"read", "wait"}
                        [] before = "read" -> {"report"}
                        [] before = "index" -> {"wait"}
                        [] before = "down" -> {"halt"}
                        [] before = "halt" -> {"announce"}
                        [] OTHER -> {"dead"}
  <1>1. Types /\ Reported(l)
    BY DEF Inv
  <1>2. /\ before \in {"wait", "scan", "compare", "same", "differ", "read", "index", "down", "halt",
                       "announce"}
        /\ UNCHANGED <<polls, version, created, current, mine, failures>>
        /\ \E x \in after : GotoL(l, x)
    BY DEF LoopEnds, ScanRaises, PollCompares, PollTakes, IndexEnds, NoticeRaises, LoopUnruns,
           LoopSets, LoopAnnounces, vaultVars, fieldVars, registryVars, clientVars, eventVars
  <1>3. PICK x \in after : GotoL(l, x)
    BY <1>2
  <1>4. x \in LoopSteps
    BY <1>2, <1>3 DEF LoopSteps
  <1>5. /\ loop' \in [Loops -> Loop] /\ Only(l) /\ loop'[l] \in Loop
        /\ loop'[l].at = x /\ loop'[l].cursor = loop[l].cursor /\ loop'[l].tag = loop[l].tag
    BY <1>1, <1>3, <1>4, GotoEffect
  <1>6. ReportsOf(l)' = ReportsOf(l) /\ Len(failures)' = Len(failures)
    BY <1>2 DEF ReportsOf
  <1>7. Reported(l)'
    BY <1>1, <1>2, <1>3, <1>5, <1>6 DEF Reported, Working
  <1> QED  BY <1>2, <1>5, <1>7, Moves

\* A poll begins: the cursor is taken and there is no tag.
LEMMA LoopWakesKeeps ==
  ASSUME Inv, NEW l \in Loops, LoopWakes(l)
  PROVE  Inv'
  <1> DEFINE a == [loop[l] EXCEPT !.at = "scan"]
             b == [a EXCEPT !.cursor = Len(failures)]
             n == [b EXCEPT !.tag = None]
             g == [loop EXCEPT ![l].at = "scan"]
             h == [g EXCEPT ![l].cursor = Len(failures)]
  <1>1. /\ Types /\ Reported(l) /\ loop[l].at = "wait"
        /\ loop \in [Loops -> Loop] /\ loop[l] \in Loop
        /\ Len(failures) \in Nat
        /\ UNCHANGED <<polls, version, created, current, mine, failures>>
    BY DEF Inv, Types, LoopWakes, vaultVars, registryVars, clientVars, eventVars
  <1>2. a \in Loop /\ a.at = "scan"
    BY <1>1, SetAt, Zenon DEF LoopSteps
  <1>3. loop' = [h EXCEPT ![l].tag = None]
    BY Zenon DEF LoopWakes
  <1>4. g \in [Loops -> Loop] /\ g[l] = a /\ \A m \in Loops \ {l} : g[m] = loop[m]
    BY <1>1, <1>2, Zenon
  <1> HIDE DEF a, g
  <1>5. b \in Loop /\ b.at = "scan" /\ b.cursor = Len(failures)
    BY <1>1, <1>2, SetCursor, Zenon
  <1>6. h \in [Loops -> Loop] /\ h[l] = b /\ \A m \in Loops \ {l} : h[m] = loop[m]
    BY <1>4, <1>5, Zenon
  <1> HIDE DEF b, h
  <1>7. n \in Loop /\ n.at = "scan" /\ n.cursor = Len(failures) /\ n.tag = None
    BY <1>5, NoneIsNoLoop, SetTag, Zenon
  <1>8. loop' \in [Loops -> Loop] /\ loop'[l] = n /\ Only(l)
    BY <1>3, <1>6, <1>7, Zenon DEF Only
  <1> HIDE DEF n
  <1>9. Reported(l)'
    BY <1>1, <1>7, <1>8 DEF Reported, Working, ReportsOf
  <1> QED  BY <1>1, <1>7, <1>8, <1>9, Moves

\* The files are looked at, to compare or to index.
LEMMA LooksKeeps ==
  ASSUME Inv, NEW l \in Loops, PollScans(l) \/ IndexReads(l)
  PROVE  Inv'
  <1> DEFINE x == IF loop[l].at = "scan" THEN "compare" ELSE "index"
             a == [loop[l] EXCEPT !.at = x]
             n == [a EXCEPT !.seen = version]
             g == [loop EXCEPT ![l].at = x]
  <1>1. /\ Types /\ Reported(l) /\ loop[l].at \in {"scan", "read"}
        /\ loop \in [Loops -> Loop] /\ loop[l] \in Loop /\ version \in Nat
        /\ UNCHANGED <<polls, version, created, current, mine, failures>>
        /\ x \in LoopSteps /\ x \in {"compare", "index"}
    BY DEF Inv, Types, PollScans, IndexReads, vaultVars, registryVars, clientVars, eventVars,
           LoopSteps
  <1>2. loop' = [g EXCEPT ![l].seen = version]
    <2>1. CASE PollScans(l)
      <3>1. x = "compare"
        BY <2>1 DEF PollScans
      <3>2. loop' = [loop EXCEPT ![l].at = "compare", ![l].seen = version]
        BY <2>1 DEF PollScans
      <3> HIDE DEF x
      <3> QED  BY <3>1, <3>2, Zenon
    <2>2. CASE IndexReads(l)
      <3>1. x = "index"
        BY <2>2 DEF IndexReads
      <3>2. loop' = [loop EXCEPT ![l].at = "index", ![l].seen = version]
        BY <2>2 DEF IndexReads
      <3> HIDE DEF x
      <3> QED  BY <3>1, <3>2, Zenon
    <2> QED  BY <2>1, <2>2
  <1> HIDE DEF x
  <1>3. a \in Loop /\ a.at = x /\ a.cursor = loop[l].cursor /\ a.tag = loop[l].tag
    BY <1>1, SetAt, Zenon
  <1>4. g \in [Loops -> Loop] /\ g[l] = a /\ \A m \in Loops \ {l} : g[m] = loop[m]
    BY <1>1, <1>3, Zenon
  <1> HIDE DEF a, g
  <1>5. n \in Loop /\ n.at = x /\ n.cursor = loop[l].cursor /\ n.tag = loop[l].tag
    BY <1>1, <1>3, SetSeen, Zenon
  <1>6. loop' \in [Loops -> Loop] /\ loop'[l] = n /\ Only(l)
    BY <1>2, <1>4, <1>5, Zenon DEF Only
  <1> HIDE DEF n
  <1>7. Reported(l)'
    BY <1>1, <1>5, <1>6 DEF Reported, Working, ReportsOf
  <1> QED  BY <1>1, <1>5, <1>6, <1>7, Moves

LEMMA AppendReports ==
  ASSUME Types, NEW l \in Loops, failures' = Append(failures, l), ReportsOf(l) = {}
  PROVE  /\ Len(failures') = Len(failures) + 1 /\ Len(failures) \in Nat
         /\ ReportsOf(l)' = {Len(failures')}
  <1>1. failures \in Seq(Loops \cup {None})
    BY DEF Types
  <1>2. Len(failures') = Len(failures) + 1 /\ Len(failures) \in Nat
    BY <1>1
  <1>3. DOMAIN failures' = DOMAIN failures \cup {Len(failures')}
    BY <1>1
  <1>4. \A k \in DOMAIN failures : failures'[k] = failures[k]
    BY <1>1
  <1>5. failures'[Len(failures')] = l
    BY <1>1
  <1> QED  BY <1>2, <1>3, <1>4, <1>5 DEF ReportsOf

\* The engine publishes the failure and tags the exception with the event.
LEMMA IndexRaisesKeeps ==
  ASSUME Inv, NEW l \in Loops, IndexRaises(l)
  PROVE  Inv'
  <1> DEFINE tag == Len(failures')
             a == [loop[l] EXCEPT !.at = "report"]
             n == [a EXCEPT !.tag = tag]
             g == [loop EXCEPT ![l].at = "report"]
  <1>1. /\ Types /\ Reported(l) /\ loop[l].at = "index"
        /\ loop \in [Loops -> Loop] /\ loop[l] \in Loop
        /\ failures' = Append(failures, l)
        /\ UNCHANGED <<polls, version, created, current, mine>>
    BY DEF Inv, Types, IndexRaises, IndexFails, registryVars, clientVars
  <1>2. ReportsOf(l) = {} /\ loop[l].cursor <= Len(failures) /\ loop[l].cursor \in Nat
    BY <1>1 DEF Reported, Working, Loop
  <1>3. tag = Len(failures) + 1 /\ Len(failures) \in Nat /\ ReportsOf(l)' = {tag}
    BY <1>1, <1>2, AppendReports
  <1>4. tag \in Nat
    BY <1>3
  <1>5. loop' = [g EXCEPT ![l].tag = tag]
    BY Zenon DEF IndexRaises
  <1>6. a \in Loop /\ a.at = "report" /\ a.cursor = loop[l].cursor
    BY <1>1, SetAt, Zenon DEF LoopSteps
  <1>7. g \in [Loops -> Loop] /\ g[l] = a /\ \A m \in Loops \ {l} : g[m] = loop[m]
    BY <1>1, <1>6, Zenon
  <1> HIDE DEF a, g, tag
  <1>8. n \in Loop /\ n.at = "report" /\ n.cursor = loop[l].cursor /\ n.tag = tag
    BY <1>4, <1>6, SetTag, Zenon
  <1>9. loop' \in [Loops -> Loop] /\ loop'[l] = n /\ Only(l)
    BY <1>5, <1>7, <1>8, Zenon DEF Only
  <1> HIDE DEF n
  <1>10. Reported(l)'
    <2>1. tag = Len(failures)'
      BY DEF tag
    <2> QED  BY <1>2, <1>3, <1>4, <1>8, <1>9, <2>1 DEF Reported, Working
  <1> QED  BY <1>1, <1>8, <1>9, <1>10, Moves

\* The engine's event is there and the exception has no tag.
LEMMA FailureRaisesKeeps ==
  ASSUME Inv, NEW l \in Loops, FailureRaises(l)
  PROVE  Inv'
  <1>1. /\ Types /\ Reported(l) /\ loop[l].at = "index" /\ polls.lossy
        /\ failures' = Append(failures, l)
        /\ GotoL(l, "report") /\ "report" \in LoopSteps
        /\ UNCHANGED <<polls, version, created, current, mine>>
    BY DEF Inv, FailureRaises, IndexFails, registryVars, clientVars, LoopSteps
  <1>2. /\ loop' \in [Loops -> Loop] /\ Only(l) /\ loop'[l] \in Loop
        /\ loop'[l].at = "report" /\ loop'[l].tag = loop[l].tag
    BY <1>1, GotoEffect
  <1>3. Reported(l)'
    BY <1>1, <1>2 DEF Reported, Working
  <1> QED  BY <1>1, <1>2, <1>3, Moves

\* A loop that ends in its handler goes no further.
LEMMA ReportRaisesKeeps ==
  ASSUME Inv, NEW l \in Loops, ReportRaises(l)
  PROVE  Inv'
  <1>1. /\ Types /\ failures' = Append(failures, l)
        /\ GotoL(l, "dead") /\ "dead" \in LoopSteps
        /\ UNCHANGED <<polls, version, created, current, mine>>
    BY DEF Inv, ReportRaises, vaultVars, registryVars, clientVars, LoopSteps
  <1>2. /\ loop' \in [Loops -> Loop] /\ Only(l) /\ loop'[l] \in Loop
        /\ loop'[l].at = "dead"
    BY <1>1, GotoEffect
  <1>3. Reported(l)'
    BY <1>2 DEF Reported, Working
  <1> QED  BY <1>1, <1>2, <1>3, Moves

\* The handler publishes the failure unless the engine has.
LEMMA LoopReportsKeeps ==
  ASSUME Inv, NEW l \in Loops, LoopReports(l)
  PROVE  Inv'
  <1>1. /\ Types /\ Reported(l) /\ loop[l].at = "report" /\ loop[l] \in Loop
        /\ failures' = IF EngineEmitted(l) THEN failures ELSE Append(failures, l)
        /\ GotoL(l, "down") /\ "down" \in LoopSteps
        /\ UNCHANGED <<polls, version, created, current, mine>>
    BY DEF Inv, Types, LoopReports, vaultVars, registryVars, clientVars, LoopSteps
  <1>2. /\ loop' \in [Loops -> Loop] /\ Only(l) /\ loop'[l] \in Loop
        /\ loop'[l].at = "down"
    BY <1>1, GotoEffect
  <1>3. polls.lossy \/ \E k \in Nat : ReportsOf(l)' = {k}
    <2>1. CASE loop[l].tag = None /\ ReportsOf(l) = {} /\ ~polls.lossy
      <3>1. failures' = Append(failures, l)
        BY <1>1, <2>1 DEF EngineEmitted
      <3>2. ReportsOf(l)' = {Len(failures')} /\ Len(failures') \in Nat
        BY <1>1, <2>1, <3>1, AppendReports
      <3> QED  BY <3>2
    <2>2. CASE /\ loop[l].tag \in (loop[l].cursor + 1)..Len(failures)
               /\ ReportsOf(l) = {loop[l].tag}
      <3>1. loop[l].tag # None /\ loop[l].cursor \in Nat /\ loop[l].tag \in Nat
        BY <1>1, <2>2 DEF Loop, None
      <3>2. failures' = failures
        BY <1>1, <2>2, <3>1 DEF EngineEmitted
      <3>3. ReportsOf(l)' = ReportsOf(l)
        BY <3>2 DEF ReportsOf
      <3> QED  BY <2>2, <3>1, <3>3
    <2> QED  BY <1>1, <2>1, <2>2 DEF Reported
  <1>4. Reported(l)'
    BY <1>1, <1>2, <1>3 DEF Reported, Working
  <1> QED  BY <1>1, <1>2, <1>4, Moves

-----------------------------------------------------------------------------
(* The other actions. *)

\* A loop is born, with nothing published for it.
LEMMA StartSpawnsKeeps ==
  ASSUME Inv, NEW c \in Clients, StartSpawns(c)
  PROVE  Inv'
  <1>1. PICK l \in Unborn : loop' = [loop EXCEPT ![l].at = "born", ![l].of = mine[c]]
    BY DEF StartSpawns
  <1> DEFINE a == [loop[l] EXCEPT !.at = "born"]
             n == [a EXCEPT !.of = mine[c]]
             g == [loop EXCEPT ![l].at = "born"]
  <1>2. /\ Types /\ l \in Loops /\ loop[l].at = "unborn" /\ Reported(l)
        /\ loop \in [Loops -> Loop] /\ loop[l] \in Loop /\ mine[c] \in Nat
        /\ UNCHANGED <<polls, version, created, current, mine, failures>>
    BY DEF Inv, Types, StartSpawns, vaultVars, registryVars, eventVars, Unborn
  <1>3. a \in Loop /\ a.at = "born"
    BY <1>2, SetAt, Zenon DEF LoopSteps
  <1>4. g \in [Loops -> Loop] /\ g[l] = a /\ \A m \in Loops \ {l} : g[m] = loop[m]
    BY <1>2, <1>3, Zenon
  <1>5. loop' = [g EXCEPT ![l].of = mine[c]]
    BY <1>1, Zenon
  <1> HIDE DEF a, g
  <1>6. n \in Loop /\ n.at = "born"
    BY <1>2, <1>3, SetOf, Zenon
  <1>7. loop' \in [Loops -> Loop] /\ loop'[l] = n /\ Only(l)
    BY <1>2, <1>4, <1>5, <1>6, Zenon DEF Only
  <1> HIDE DEF n
  <1>8. Reported(l)'
    BY <1>2, <1>6, <1>7 DEF Reported, Working, ReportsOf
  <1> QED  BY <1>2, <1>6, <1>7, <1>8, Moves

LEMMA StartLaunchesKeeps ==
  ASSUME Inv, NEW c \in Clients, StartLaunches(c)
  PROVE  Inv'
  <1>0. PICK l \in Startable(mine[c]) : GotoL(l, "wait")
    BY DEF StartLaunches
  <1>1. /\ Types /\ l \in Loops /\ Reported(l) /\ loop[l].at = "born" /\ "wait" \in LoopSteps
        /\ UNCHANGED <<polls, version, created, current, mine, failures>>
    BY DEF Inv, StartLaunches, Startable, vaultVars, registryVars, eventVars, LoopSteps
  <1>2. /\ loop' \in [Loops -> Loop] /\ Only(l) /\ loop'[l] \in Loop
        /\ loop'[l].at = "wait"
    BY <1>0, <1>1, GotoEffect
  <1>3. Reported(l)'
    BY <1>1, <1>2 DEF Reported, Working, ReportsOf
  <1> QED  BY <1>1, <1>2, <1>3, Moves

\* Steps that leave loops and reports alone.
LEMMA AsideKeeps ==
  ASSUME Inv, Types', UNCHANGED <<polls, loop, failures>>
  PROVE  Inv'
  <1>1. \A l \in Loops : Reported(l)'
    BY DEF Inv, Reported, ReportsOf
  <1> QED  BY <1>1 DEF Inv

LEMMA ClientKeeps ==
  ASSUME Inv, NEW c \in Clients, StartLooksUp(c) \/ StopLooksUp(c) \/ Serve(c)
  PROVE  Inv'
  <1>1. Types /\ mine \in [Clients -> Nat] /\ None \in Nat /\ current \in Nat /\ created \in Nat
    BY NoneIsNoLoop DEF Inv, Types
  <1>2. CASE StartLooksUp(c) \/ StopLooksUp(c)
    <2>1. Types' /\ UNCHANGED <<polls, loop, failures>>
      BY <1>1, <1>2 DEF StartLooksUp, StopLooksUp, Types, vaultVars, registryVars, eventVars
    <2> QED  BY <2>1, AsideKeeps
  <1>3. CASE StartCreates(c)
    <2>1. Types' /\ UNCHANGED <<polls, loop, failures>>
      BY <1>1, <1>3 DEF StartCreates, Types, vaultVars, eventVars
    <2> QED  BY <2>1, AsideKeeps
  <1>4. CASE StartSpawns(c) \/ StartLaunches(c)
    BY <1>4, StartSpawnsKeeps, StartLaunchesKeeps
  <1>5. CASE StartSaves(c) \/ StopSaves(c) \/ CallRaises(c)
    <2>1. Types' /\ UNCHANGED <<polls, loop, failures>>
      BY <1>1, <1>5 DEF StartSaves, StopSaves, CallRaises, StartScanRaises, StartLaunchRaises,
                        StopJoinRaises, AnnounceRaises, SaveRaises, Types, vaultVars,
                        registryVars, eventVars
    <2> QED  BY <2>1, AsideKeeps
  <1>6. CASE \/ StartChecks(c) \/ StartScans(c) \/ StartRuns(c) \/ StartClears(c)
             \/ StartAnnounces(c) \/ StopChecks(c) \/ StopUnruns(c) \/ StopSets(c)
             \/ StopJoins(c) \/ StopForgets(c) \/ StopAnnounces(c)
    <2>1. UNCHANGED <<polls, version, created, current, mine, loop, failures>>
      BY <1>6 DEF StartChecks, StartScans, StartRuns, StartClears, StartAnnounces, StopChecks,
                  StopUnruns, StopSets, StopJoins, StopForgets, StopAnnounces, vaultVars,
                  registryVars, eventVars
    <2> QED  BY <1>1, <2>1, AsideKeeps DEF Types
  <1> QED  BY <1>2, <1>3, <1>4, <1>5, <1>6 DEF Serve, CallRaises

LEMMA InvInit == Init => Inv
  <1> SUFFICES ASSUME Init PROVE Inv
    OBVIOUS
  <1>1. Types
    BY NoneIsNoLoop DEF Init, Types, Loop, LoopSteps
  <1>2. \A l \in Loops : Reported(l)
    BY DEF Init, Reported, ReportsOf, Working
  <1> QED  BY <1>1, <1>2 DEF Inv

LEMMA InvStep == Inv /\ [Next]_vars => Inv'
  <1> SUFFICES ASSUME Inv, [Next]_vars PROVE Inv'
    OBVIOUS
  <1>1. CASE EditVault
    <2>1. Types' /\ UNCHANGED <<polls, loop, failures>>
      BY <1>1 DEF Inv, EditVault, Types, registryVars, clientVars, eventVars
    <2> QED  BY <2>1, AsideKeeps
  <1>2. CASE OtherIndexFails
    BY <1>2, OtherFailureKeeps DEF OtherIndexFails, vaultVars, registryVars, clientVars
  <1>3. ASSUME NEW c \in Clients, StartLooksUp(c) \/ StopLooksUp(c) \/ Serve(c)  PROVE Inv'
    BY <1>3, ClientKeeps
  <1>4. ASSUME NEW l \in Loops, Run(l)  PROVE Inv'
    BY <1>4, PlainStepKeeps, LoopWakesKeeps, LooksKeeps, IndexRaisesKeeps, FailureRaisesKeeps,
       LoopReportsKeeps, ReportRaisesKeeps DEF Run
  <1>5. CASE UNCHANGED vars
    BY <1>5, AsideKeeps DEF Inv, Types, vars
  <1> QED  BY <1>1, <1>2, <1>3, <1>4, <1>5 DEF Next

\* watcher.py:101: every poll that fails is reported by exactly one index_failed,
\* whoever publishes it and whatever other requests publish meanwhile.
THEOREM ReportedOnce == Spec => []OneReportPerFailure
  <1>1. Inv => OneReportPerFailure
    <2> SUFFICES ASSUME Inv, NEW l \in Loops, ~polls.lossy,
                        loop[l].at \in {"down", "halt", "announce"}
                 PROVE  Cardinality(ReportsOf(l)) = 1
      BY DEF OneReportPerFailure, ReportsOf
    <2>1. PICK k \in Nat : ReportsOf(l) = {k}
      BY DEF Inv, Reported
    <2> QED  BY <2>1, FS_Singleton
  <1> QED  BY <1>1, InvInit, InvStep, PTL DEF Spec

-----------------------------------------------------------------------------
(* The rest of the type invariant. *)

LEMMA ClientTypes ==
  ASSUME TypeOK, Types', NEW c \in Clients, StartLooksUp(c) \/ StopLooksUp(c) \/ Serve(c)
  PROVE  TypeOK'
  <1>1. mine[c] \in 0..created /\ current \in 0..created /\ created \in Nat /\ None = 0
    BY DEF TypeOK, None
  <1>2. CASE StartLooksUp(c) \/ StopLooksUp(c)
    BY <1>1, <1>2 DEF StartLooksUp, StopLooksUp, TypeOK, Types, vaultVars, fieldVars, registryVars,
                      eventVars
  <1>3. CASE StartCreates(c)
    BY <1>1, <1>3 DEF StartCreates, TypeOK, Types, vaultVars, fieldVars, eventVars
  <1>4. CASE StartSaves(c) \/ StopSaves(c) \/ CallRaises(c)
    <2>1. mine' = [mine EXCEPT ![c] = None] /\ 0 \in 0..created /\ created' = created
      BY <1>1, <1>4 DEF StartSaves, StopSaves, CallRaises, StartScanRaises, StartLaunchRaises,
                        StopJoinRaises, AnnounceRaises, SaveRaises, registryVars
    <2>2. mine' \in [Clients -> 0..created]
      BY <1>1, <2>1 DEF TypeOK
    <2> QED
      BY <1>4, <2>1, <2>2 DEF StartSaves, StopSaves, CallRaises, StartScanRaises,
                              StartLaunchRaises, StopJoinRaises, AnnounceRaises, SaveRaises,
                              TypeOK, Types,
                              vaultVars, fieldVars, registryVars, eventVars
  <1>5. CASE StartScans(c) \/ StartRuns(c) \/ StartClears(c)
    BY <1>5 DEF StartScans, StartRuns, StartClears, TypeOK, Types, vaultVars, registryVars,
                eventVars
  <1>6. CASE StartSpawns(c)
    BY <1>6 DEF StartSpawns, Unborn, TypeOK, Types, vaultVars, registryVars, eventVars
  <1>9. CASE StartLaunches(c)
    BY <1>9 DEF StartLaunches, TypeOK, Types, vaultVars, fieldVars, registryVars, eventVars
  <1>7. CASE StopUnruns(c) \/ StopSets(c) \/ StopForgets(c)
    BY <1>7 DEF StopUnruns, StopSets, StopForgets, TypeOK, Types, vaultVars, registryVars, eventVars
  <1>8. CASE \/ StartChecks(c) \/ StopChecks(c) \/ StopJoins(c)
             \/ StartAnnounces(c) \/ StopAnnounces(c)
    BY <1>8 DEF StartChecks, StopChecks, StopJoins, StartAnnounces, StopAnnounces, TypeOK, Types,
                vaultVars, fieldVars, registryVars, eventVars
  <1> QED  BY <1>2, <1>3, <1>4, <1>5, <1>6, <1>7, <1>8, <1>9
           DEF Serve, CallRaises

LEMMA LoopTypes ==
  ASSUME TypeOK, Types', NEW l \in Loops, Run(l)
  PROVE  TypeOK'
  <1>1. CASE LoopEnds(l) \/ LoopWakes(l) \/ PollScans(l) \/ ScanRaises(l) \/ PollCompares(l)
             \/ NoticeRaises(l) \/ IndexReads(l)
    BY <1>1 DEF LoopEnds, LoopWakes, PollScans, ScanRaises, PollCompares, NoticeRaises, IndexReads,
                TypeOK, Types, vaultVars, fieldVars, registryVars, clientVars, eventVars
  <1>2. CASE PollTakes(l)
    BY <1>2 DEF PollTakes, TypeOK, Types, Loop, vaultVars, registryVars,
                clientVars, eventVars
  <1>3. CASE IndexEnds(l)
    BY <1>3 DEF IndexEnds, TypeOK, Types, Loop, fieldVars, registryVars, clientVars, eventVars
  <1>4. CASE IndexRaises(l) \/ FailureRaises(l)
    BY <1>4 DEF IndexRaises, FailureRaises, IndexFails, TypeOK, Types, Loop, fieldVars,
                registryVars, clientVars
  <1>7. CASE LoopReports(l) \/ ReportRaises(l)
    BY <1>7 DEF LoopReports, ReportRaises, TypeOK, Types, vaultVars, fieldVars, registryVars,
                clientVars
  <1>5. CASE LoopUnruns(l) \/ LoopSets(l)
    BY <1>5 DEF LoopUnruns, LoopSets, TypeOK, Types, vaultVars, registryVars, clientVars, eventVars
  <1>6. CASE LoopAnnounces(l)
    BY <1>6 DEF LoopAnnounces, TypeOK, Types, vaultVars, fieldVars, registryVars, clientVars
  <1> QED  BY <1>1, <1>2, <1>3, <1>4, <1>5, <1>6, <1>7 DEF Run

LEMMA TypeStep == TypeOK /\ Types' /\ [Next]_vars => TypeOK'
  <1> SUFFICES ASSUME TypeOK, Types', [Next]_vars PROVE TypeOK'
    OBVIOUS
  <1>1. CASE EditVault
    BY <1>1 DEF EditVault, TypeOK, Types, fieldVars, registryVars, clientVars, eventVars
  <1>2. CASE OtherIndexFails
    BY <1>2 DEF OtherIndexFails, TypeOK, Types, vaultVars, fieldVars, registryVars, clientVars
  <1>3. ASSUME NEW c \in Clients, StartLooksUp(c) \/ StopLooksUp(c) \/ Serve(c)  PROVE TypeOK'
    BY <1>3, ClientTypes
  <1>4. ASSUME NEW l \in Loops, Run(l)  PROVE TypeOK'
    BY <1>4, LoopTypes
  <1>5. CASE UNCHANGED vars
    BY <1>5 DEF TypeOK, vars
  <1> QED  BY <1>1, <1>2, <1>3, <1>4, <1>5 DEF Next

\* The shape of the state, and that a call works on a watcher that was created.
THEOREM TypeCorrect == Spec => []TypeOK
  <1>1. Init => TypeOK
    <2> SUFFICES ASSUME Init PROVE TypeOK
      OBVIOUS
    <2>1. Types
      BY InvInit DEF Inv
    <2>2. polls \in Polls
      BY WatcherAssumption DEF Init
    <2>3. 0 \in Nat /\ 0 \in 0..0
      OBVIOUS
    <2>4. current \in 0..created /\ mine \in [Clients -> 0..created]
      BY <2>3 DEF Init, None
    <2> QED  BY <2>1, <2>2, <2>4 DEF Init, TypeOK, Types
  <1>2. Inv => Types
    BY DEF Inv
  <1> QED  BY <1>1, <1>2, InvInit, InvStep, TypeStep, PTL DEF Spec

-----------------------------------------------------------------------------
(* What a step of a loop and a step of a call may change. *)

\* Where a loop polls, or has failed and not yet said that it does not run.
Polling == {"wait", "scan", "compare", "same", "differ", "read", "index", "report", "down"}

\* Of a loop's step: only one that polls goes on polling, what it has read is
\* the vault as it is, and only one that has failed says so.
LEMMA LoopMoves ==
  ASSUME TypeOK, NEW l \in Loops, Run(l)
  PROVE  /\ UNCHANGED <<polls, version, thread, current, created, pc, mine, starts>>
         /\ \A m \in Loops \ {l} : loop'[m] = loop[m]
         /\ loop'[l].at \in Polling => loop[l].at \in Polling
         /\ loop[l].at # "born"
         /\ loop'[l].at = "index" => loop'[l].seen = version /\ indexed' = indexed
         /\ indexed' = indexed \/ (loop[l].at = "index" /\ indexed' = loop[l].seen)
         /\ \/ running' = running
            \/ /\ loop[l].at = "down" /\ loop'[l].at \notin Polling
               /\ running' = [running EXCEPT ![loop[l].of] = FALSE]
  <1>1. loop \in [Loops -> Loop] /\ loop[l] \in Loop
    BY DEF TypeOK
  <1> USE <1>1 DEF Loop, GotoL, Polling
  <1>2. CASE LoopEnds(l) \/ LoopWakes(l)
    BY <1>2 DEF LoopEnds, LoopWakes, vaultVars, fieldVars, registryVars, clientVars, eventVars
  <1>3. CASE PollScans(l) \/ ScanRaises(l) \/ PollCompares(l) \/ NoticeRaises(l)
    BY <1>3 DEF PollScans, ScanRaises, PollCompares, NoticeRaises, vaultVars, fieldVars, registryVars,
                clientVars, eventVars
  <1>4. CASE PollTakes(l)
    BY <1>4 DEF PollTakes, vaultVars, registryVars, clientVars, eventVars
  <1>5. CASE IndexReads(l)
    BY <1>5 DEF IndexReads, vaultVars, fieldVars, registryVars, clientVars, eventVars
  <1>6. CASE IndexEnds(l)
    BY <1>6 DEF IndexEnds, fieldVars, registryVars, clientVars, eventVars
  <1>7. CASE IndexRaises(l) \/ FailureRaises(l)
    BY <1>7 DEF IndexRaises, FailureRaises, IndexFails, fieldVars, registryVars, clientVars
  <1>11. CASE LoopReports(l) \/ ReportRaises(l)
    BY <1>11 DEF LoopReports, ReportRaises, vaultVars, fieldVars, registryVars, clientVars
  <1>8. CASE LoopUnruns(l)
    BY <1>8 DEF LoopUnruns, vaultVars, registryVars, clientVars, eventVars
  <1>9. CASE LoopSets(l)
    BY <1>9 DEF LoopSets, vaultVars, registryVars, clientVars, eventVars
  <1>10. CASE LoopAnnounces(l)
    BY <1>10 DEF LoopAnnounces, vaultVars, fieldVars, registryVars, clientVars
  <1> QED  BY <1>2, <1>3, <1>4, <1>5, <1>6, <1>7, <1>8, <1>9, <1>10, <1>11
           DEF Run

-----------------------------------------------------------------------------
(* The status, when one client calls. *)

CallSteps == {"idle", "create", "check", "snapshot", "run", "clear", "announce", "spawn", "launch",
              "save", "checkStop", "unrun", "set", "join", "forget", "announceStop", "unsave"}

\* Where a loop is when its polls have not failed.
Calm == Working \cup {"dead"}

\* A loop polls for the current watcher.
Served == \E l \in Live : loop[l].of = current

\* The current watcher has a thread that is about to be started.
Launchable ==
  \E l \in Loops : l = thread[current] /\ loop[l].at = "born" /\ loop[l].of = current

\* The call of client c works on the one watcher there is, and a stop on its
\* way has told that it does not run: whatever has raised.
OnCurrent(c) ==
  /\ pc[c] \notin {"idle", "create", "unsave"} => current # None /\ mine[c] = current
  /\ pc[c] = "create" => current = None /\ 1 \in Watchers
  /\ pc[c] \in {"set", "join", "forget", "announceStop"} => ~running[current]

\* Where client c stands, and what is so there unless something has raised.
\* Between two calls a watcher that runs has a loop and is not told to stop; a
\* start sets `running` before it clears _stop, and clears it before it spawns; a
\* stop undoes both before it says so.  A loop that outlived its stop is told to
\* go on again by the next start, which spawns another all the same.
Standing(c) ==
  /\ pc[c] \notin {"idle", "create", "unsave"} => current # None /\ mine[c] = current
  /\ pc[c] = "create" => current = None /\ 1 \in Watchers /\ row = FALSE
  /\ pc[c] \in {"idle", "check", "checkStop"} =>
       /\ Watching => ~stop[current] /\ Served
       /\ Watching <=> announced = "started"
       /\ row = Watching
  /\ pc[c] \in {"create", "snapshot", "run"} => ~Watching /\ announced # "started"
  /\ pc[c] = "clear" => Watching /\ announced # "started"
  /\ pc[c] = "announce" => Watching /\ ~stop[current] /\ announced # "started"
  /\ pc[c] \in {"spawn", "launch", "save", "unrun"} =>
       Watching /\ ~stop[current] /\ announced = "started"
  /\ pc[c] = "launch" => Launchable
  /\ pc[c] \in {"save", "unrun"} => Served
  /\ pc[c] \in {"set", "join", "forget", "announceStop"} => ~Watching
  /\ pc[c] = "unsave" => ~Watching /\ announced # "started"

OneWatcher ==
  /\ pc \in [Clients -> CallSteps]
  /\ starts \in Nat
  /\ current \in Watchers \cup {None} /\ created = current
  /\ current = None => \A w \in Watchers : ~running[w]

StatusInv(c) ==
  /\ OneWatcher /\ OnCurrent(c)
  /\ ~raised => Standing(c) /\ \A l \in Loops : loop[l].at \in Calm

\* A loop that is not told to stop goes on; none goes into the handler.
LEMMA LoopGoesOn ==
  ASSUME TypeOK, ~raised', NEW l \in Loops, Run(l), loop[l].at \in Calm
  PROVE  /\ UNCHANGED <<running, stop, current, created, row, pc, mine, starts, announced>>
         /\ \A m \in Loops \ {l} : loop'[m] = loop[m]
         /\ loop'[l].of = loop[l].of /\ loop'[l].at \in Calm
         /\ ~stop[loop[l].of] => loop'[l].at \notin {"unborn", "born", "dead"}
  <1>1. loop \in [Loops -> Loop] /\ loop[l] \in Loop
    BY DEF TypeOK
  <1>2. CASE LoopEnds(l)
    <2>1. loop' = [loop EXCEPT ![l].at = "dead"] /\ stop[loop[l].of]
      BY <1>2 DEF LoopEnds, GotoL
    <2> QED
      BY <1>1, <1>2, <2>1 DEF LoopEnds, Loop, Calm, Working, vaultVars, fieldVars, registryVars,
                              clientVars, eventVars
  <1>3. CASE LoopWakes(l)
    BY <1>1, <1>3 DEF LoopWakes, Loop, Calm, Working, vaultVars, fieldVars, registryVars,
                      clientVars, eventVars
  <1>4. CASE PollScans(l) \/ IndexReads(l)
    BY <1>1, <1>4 DEF PollScans, IndexReads, Loop, Calm, Working, vaultVars, fieldVars,
                      registryVars, clientVars, eventVars
  <1>5. CASE PollCompares(l) \/ PollTakes(l)
    BY <1>1, <1>5 DEF PollCompares, PollTakes, GotoL, Loop, Calm, Working, vaultVars, fieldVars,
                      registryVars, clientVars, eventVars
  <1>6. CASE IndexEnds(l)
    BY <1>1, <1>6 DEF IndexEnds, GotoL, Loop, Calm, Working, fieldVars, registryVars,
                      clientVars, eventVars
  <1>7. ~ (ScanRaises(l) \/ NoticeRaises(l) \/ IndexRaises(l) \/ FailureRaises(l))
    BY DEF ScanRaises, NoticeRaises, IndexRaises, FailureRaises, IndexFails
  <1>8. ~ (LoopReports(l) \/ ReportRaises(l) \/ LoopUnruns(l) \/ LoopSets(l) \/ LoopAnnounces(l))
    BY DEF LoopReports, ReportRaises, LoopUnruns, LoopSets, LoopAnnounces, Calm, Working
  <1> QED  BY <1>2, <1>3, <1>4, <1>5, <1>6, <1>7, <1>8 DEF Run

LEMMA LoopKeepsStatus ==
  ASSUME NEW c, Clients = {c}, TypeOK, StatusInv(c), NEW l \in Loops, Run(l)
  PROVE  StatusInv(c)'
  <1>1. /\ UNCHANGED <<thread, current, created, pc, mine, starts>>
        /\ loop[l].at # "born"
        /\ running' = running \/ running' = [running EXCEPT ![loop[l].of] = FALSE]
        /\ running \in [Watchers -> BOOLEAN]
    BY LoopMoves DEF TypeOK
  <1>2. (OneWatcher /\ OnCurrent(c))'
    BY <1>1 DEF StatusInv, OneWatcher, OnCurrent
  <1>3. ASSUME ~raised'
        PROVE  (Standing(c) /\ \A m \in Loops : loop[m].at \in Calm)'
    <2>1. ~raised
      BY <1>3 DEF Run, LoopEnds, LoopWakes, PollScans, ScanRaises, PollCompares, PollTakes,
             NoticeRaises, IndexReads, IndexEnds, IndexRaises, FailureRaises, IndexFails,
             LoopReports, ReportRaises, LoopUnruns, LoopSets, LoopAnnounces, eventVars
    <2>2. Standing(c) /\ \A m \in Loops : loop[m].at \in Calm
      BY <2>1 DEF StatusInv
    <2>3. /\ UNCHANGED <<running, stop, current, created, row, pc, mine, starts, announced>>
          /\ \A m \in Loops \ {l} : loop'[m] = loop[m]
          /\ loop'[l].of = loop[l].of /\ loop'[l].at \in Calm
          /\ ~stop[loop[l].of] => loop'[l].at \notin {"unborn", "born", "dead"}
      BY <1>3, <2>2, LoopGoesOn
    <2>4. (~stop[current] /\ Served) => Served'
      <3> SUFFICES ASSUME ~stop[current], NEW m \in Live, loop[m].of = current
                   PROVE  m \in Live' /\ loop'[m].of = current
        BY <2>3 DEF Served
      <3> QED  BY <2>3 DEF Live
    <2>6. Launchable => Launchable'
      <3> SUFFICES ASSUME NEW m \in Loops, m = thread[current], loop[m].at = "born",
                          loop[m].of = current
                   PROVE  loop'[m] = loop[m]
        BY <1>1 DEF Launchable
      <3> QED  BY <1>1, <2>3
    <2>5. Standing(c)'
      BY <2>2, <2>3, <2>4, <2>6 DEF Standing, Watching
    <2> QED  BY <2>2, <2>3, <2>5
  <1> QED  BY <1>2, <1>3 DEF StatusInv

\* A step of a call goes on with the one watcher, whatever has raised.
LEMMA CallKeepsWatcher ==
  ASSUME NEW c, Clients = {c}, TypeOK, OneWatcher, OnCurrent(c),
         StartLooksUp(c) \/ StopLooksUp(c) \/ Serve(c)
  PROVE  (OneWatcher /\ OnCurrent(c))'
  <1> USE DEF OneWatcher, CallSteps
  <1>0. /\ c \in Clients /\ None = 0 /\ MaxStarts \in Nat /\ Watchers \subseteq Nat
        /\ running \in [Watchers -> BOOLEAN] /\ mine \in [Clients -> 0..created]
        /\ None \notin Watchers
    BY WatcherAssumption DEF TypeOK, None, Watchers
  <1>1. CASE StartLooksUp(c)
    <2>1. /\ pc[c] = "idle" /\ starts < MaxStarts /\ starts' = starts + 1
          /\ mine'[c] = current
          /\ pc' = [pc EXCEPT ![c] = IF current = None THEN "create" ELSE "check"]
          /\ UNCHANGED <<running, current, created>>
      BY <1>0, <1>1 DEF StartLooksUp, GotoC, fieldVars, registryVars
    <2>2. 1 \in Watchers
      BY <1>0, <2>1 DEF Watchers
    <2> QED  BY <1>0, <2>1, <2>2 DEF OnCurrent
  <1>2. CASE StartCreates(c)
    <2>1. /\ pc[c] = "create" /\ current' = created + 1 /\ created' = created + 1
          /\ mine'[c] = created' /\ pc' = [pc EXCEPT ![c] = "check"]
          /\ UNCHANGED <<running, starts>>
      BY <1>0, <1>2 DEF StartCreates, GotoC, fieldVars
    <2>2. current = None /\ current' = 1 /\ created' = 1 /\ 1 \in Watchers
      BY <1>0, <2>1 DEF OnCurrent
    <2>3. OneWatcher'
      BY <1>0, <2>1, <2>2
    <2>4. pc'[c] = "check" /\ current' # None /\ mine'[c] = current'
      BY <1>0, <2>1, <2>2
    <2>5. OnCurrent(c)'
      BY <2>4 DEF OnCurrent
    <2> QED  BY <2>3, <2>5
  <1>3. CASE StopLooksUp(c)
    <2>1. /\ pc[c] = "idle" /\ mine'[c] = current
          /\ pc' = [pc EXCEPT ![c] = IF current = None THEN "unsave" ELSE "checkStop"]
          /\ UNCHANGED <<running, current, created, starts>>
      BY <1>0, <1>3 DEF StopLooksUp, GotoC, fieldVars, registryVars
    <2> QED  BY <1>0, <2>1 DEF OnCurrent
  <1>4. CASE StartRuns(c) \/ StopUnruns(c)
    <2>1. /\ \/ /\ pc[c] = "run" /\ pc' = [pc EXCEPT ![c] = "clear"]
                /\ running' = [running EXCEPT ![mine[c]] = TRUE]
             \/ /\ pc[c] = "unrun" /\ pc' = [pc EXCEPT ![c] = "set"]
                /\ running' = [running EXCEPT ![mine[c]] = FALSE]
          /\ UNCHANGED <<current, created, starts, mine>>
      BY <1>4 DEF StartRuns, StopUnruns, GotoC, registryVars
    <2> QED  BY <1>0, <2>1 DEF OnCurrent
  <1>5. CASE StartSaves(c) \/ StopSaves(c) \/ CallRaises(c)
    <2>1. /\ pc' = [pc EXCEPT ![c] = "idle"]
          /\ UNCHANGED <<running, current, created, starts>>
      BY <1>5 DEF StartSaves, StopSaves, CallRaises, StartScanRaises, StartLaunchRaises,
                  StopJoinRaises, AnnounceRaises, SaveRaises, GotoC, fieldVars, registryVars
    <2> QED  BY <1>0, <2>1 DEF OnCurrent
  <1>6. CASE \/ StartChecks(c) \/ StartScans(c) \/ StartClears(c) \/ StartAnnounces(c)
             \/ StartSpawns(c) \/ StartLaunches(c)
    <2>1. /\ pc[c] \in {"check", "snapshot", "clear", "announce", "spawn", "launch"}
          /\ \E x \in {"save", "snapshot", "run", "announce", "spawn", "launch"} :
               pc' = [pc EXCEPT ![c] = x]
          /\ UNCHANGED <<running, current, created, starts, mine>>
      BY <1>6 DEF StartChecks, StartScans, StartClears, StartAnnounces, StartSpawns,
                  StartLaunches, GotoC, fieldVars, registryVars
    <2> QED  BY <1>0, <2>1 DEF OnCurrent
  <1>7. CASE StopChecks(c)
    <2>1. /\ pc[c] = "checkStop"
          /\ pc' = [pc EXCEPT ![c] = IF running[mine[c]] THEN "unrun" ELSE "unsave"]
          /\ UNCHANGED <<running, current, created, starts, mine>>
      BY <1>7 DEF StopChecks, GotoC, fieldVars, registryVars
    <2> QED  BY <1>0, <2>1 DEF OnCurrent
  <1>8. CASE StopSets(c) \/ StopJoins(c) \/ StopForgets(c) \/ StopAnnounces(c)
    <2>1. /\ pc[c] \in {"set", "join", "forget", "announceStop"}
          /\ \E x \in {"join", "forget", "announceStop", "unsave"} : pc' = [pc EXCEPT ![c] = x]
          /\ UNCHANGED <<running, current, created, starts, mine>>
      BY <1>8 DEF StopSets, StopJoins, StopForgets, StopAnnounces, GotoC, fieldVars, registryVars
    <2> QED  BY <1>0, <2>1 DEF OnCurrent
  <1> QED  BY <1>1, <1>2, <1>3, <1>4, <1>5, <1>6, <1>7, <1>8 DEF Serve, CallRaises

LEMMA StartKeepsStatus ==
  ASSUME NEW c, Clients = {c}, TypeOK, OneWatcher, Standing(c),
         \A l \in Loops : loop[l].at \in Calm,
         \/ StartLooksUp(c) \/ StartCreates(c) \/ StartChecks(c) \/ StartScans(c) \/ StartRuns(c)
         \/ StartClears(c) \/ StartAnnounces(c) \/ StartSpawns(c) \/ StartLaunches(c)
         \/ StartSaves(c)
  PROVE  (OneWatcher /\ Standing(c) /\ \A l \in Loops : loop[l].at \in Calm)'
  <1> USE DEF OneWatcher, CallSteps
  <1>0. /\ c \in Clients /\ None = 0 /\ MaxStarts \in Nat /\ Watchers \subseteq Nat
        /\ running \in [Watchers -> BOOLEAN] /\ stop \in [Watchers -> BOOLEAN]
        /\ mine \in [Clients -> 0..created] /\ None \notin Watchers
    BY WatcherAssumption DEF TypeOK, None, Watchers
  <1>1. CASE StartLooksUp(c)
    <2>1. /\ pc[c] = "idle" /\ starts < MaxStarts /\ starts' = starts + 1
          /\ mine'[c] = current
          /\ pc' = [pc EXCEPT ![c] = IF current = None THEN "create" ELSE "check"]
          /\ UNCHANGED <<running, stop, current, created, row, announced, loop>>
      BY <1>0, <1>1 DEF StartLooksUp, GotoC, fieldVars, registryVars, eventVars
    <2>2. 1 \in Watchers
      BY <1>0, <2>1 DEF Watchers
    <2> QED  BY <1>0, <2>1, <2>2 DEF Standing, Watching, Served, Live
  <1>2. CASE StartCreates(c)
    <2>1. /\ pc[c] = "create" /\ current' = created + 1 /\ created' = created + 1
          /\ mine'[c] = created' /\ pc' = [pc EXCEPT ![c] = "check"]
          /\ UNCHANGED <<running, stop, row, announced, loop, starts>>
      BY <1>0, <1>2 DEF StartCreates, GotoC, fieldVars, eventVars
    <2>2. current = None /\ 1 \in Watchers /\ row = FALSE /\ announced # "started"
      BY <2>1 DEF Standing
    <2>3. current' = 1 /\ created' = 1 /\ running[1] = FALSE
      BY <1>0, <2>1, <2>2
    <2>4. Watching' = FALSE
      BY <2>1, <2>3 DEF Watching
    <2>5. pc'[c] = "check" /\ mine'[c] = current' /\ current' # None
      BY <1>0, <2>1, <2>3
    <2>6. Standing(c)'
      BY <2>1, <2>2, <2>4, <2>5 DEF Standing
    <2>7. OneWatcher'
      BY <1>0, <2>1, <2>2, <2>3
    <2> QED  BY <2>1, <2>6, <2>7
  <1>3. CASE StartChecks(c)
    <2>1. /\ pc[c] = "check"
          /\ pc' = [pc EXCEPT ![c] = IF running[mine[c]] THEN "save" ELSE "snapshot"]
          /\ UNCHANGED <<running, stop, current, created, row, announced, loop, starts, mine>>
      BY <1>3 DEF StartChecks, GotoC, fieldVars, registryVars, eventVars
    <2> QED  BY <1>0, <2>1 DEF Standing, Watching, Served, Live
  <1>4. CASE StartScans(c)
    <2>1. /\ pc[c] = "snapshot" /\ pc' = [pc EXCEPT ![c] = "run"]
          /\ UNCHANGED <<running, stop, current, created, row, announced, loop, starts, mine>>
      BY <1>4 DEF StartScans, GotoC, registryVars, eventVars
    <2> QED  BY <1>0, <2>1 DEF Standing, Watching
  <1>5. CASE StartRuns(c)
    <2>1. /\ pc[c] = "run" /\ pc' = [pc EXCEPT ![c] = "clear"]
          /\ running' = [running EXCEPT ![mine[c]] = TRUE]
          /\ UNCHANGED <<stop, current, created, row, announced, loop, starts, mine>>
      BY <1>5 DEF StartRuns, GotoC, registryVars, eventVars
    <2> QED  BY <1>0, <2>1 DEF Standing, Watching
  <1>6. CASE StartClears(c)
    <2>1. /\ pc[c] = "clear" /\ pc' = [pc EXCEPT ![c] = "announce"]
          /\ stop' = [stop EXCEPT ![mine[c]] = FALSE]
          /\ UNCHANGED <<running, current, created, row, announced, loop, starts, mine>>
      BY <1>6 DEF StartClears, GotoC, registryVars, eventVars
    <2> QED  BY <1>0, <2>1 DEF Standing, Watching
  <1>7. CASE StartAnnounces(c)
    <2>1. /\ pc[c] = "announce" /\ pc' = [pc EXCEPT ![c] = "spawn"] /\ announced' = "started"
          /\ UNCHANGED <<running, stop, current, created, row, loop, starts, mine>>
      BY <1>7 DEF StartAnnounces, GotoC, fieldVars, registryVars
    <2> QED  BY <1>0, <2>1 DEF Standing, Watching
  <1>8. CASE StartSpawns(c)
    <2>1. /\ pc[c] = "spawn" /\ pc' = [pc EXCEPT ![c] = "launch"]
          /\ UNCHANGED <<running, stop, current, created, row, announced, starts, mine>>
      BY <1>8 DEF StartSpawns, GotoC, registryVars, eventVars
    <2>2. PICK l \in Unborn : /\ loop' = [loop EXCEPT ![l].at = "born", ![l].of = mine[c]]
                             /\ thread' = [thread EXCEPT ![mine[c]] = l]
      BY <1>8 DEF StartSpawns
    <2>3. /\ l \in Loops /\ loop'[l].at = "born" /\ loop'[l].of = mine[c]
          /\ \A m \in Loops \ {l} : loop'[m] = loop[m]
      BY <2>2 DEF Unborn, TypeOK, Loop
    <2>4. \A m \in Loops : loop'[m].at \in Calm
      BY <2>3 DEF Calm, Working
    <2>5. /\ mine[c] = current /\ Watching /\ ~stop[current] /\ announced = "started"
          /\ current \in Watchers
      BY <2>1 DEF Standing
    <2>7. thread'[current] = l
      BY <2>2, <2>5 DEF TypeOK
    <2>6. Launchable'
      BY <2>1, <2>3, <2>5, <2>7 DEF Launchable
    <2> QED  BY <1>0, <2>1, <2>4, <2>5, <2>6 DEF Standing, Watching
  <1>10. CASE StartLaunches(c)
    <2>1. /\ pc[c] = "launch" /\ pc' = [pc EXCEPT ![c] = "save"]
          /\ UNCHANGED <<running, stop, current, created, row, announced, starts, mine>>
      BY <1>10 DEF StartLaunches, GotoC, fieldVars, registryVars, eventVars
    <2>2. PICK l \in Startable(mine[c]) : GotoL(l, "wait")
      BY <1>10 DEF StartLaunches
    <2>3. /\ mine[c] = current /\ Watching /\ ~stop[current] /\ announced = "started"
          /\ l = thread[current] /\ l \in Loops /\ loop[l].of = current
      BY <2>1, <2>2 DEF Standing, Launchable, Startable
    <2>4. /\ loop'[l].at = "wait" /\ loop'[l].of = current
          /\ \A m \in Loops \ {l} : loop'[m] = loop[m]
      BY <2>2, <2>3 DEF GotoL, TypeOK, Loop
    <2>5. \A m \in Loops : loop'[m].at \in Calm
      BY <2>4 DEF Calm, Working
    <2>6. Served'
      BY <2>1, <2>3, <2>4 DEF Served, Live
    <2> QED  BY <1>0, <2>1, <2>3, <2>5, <2>6 DEF Standing, Watching
  <1>9. CASE StartSaves(c)
    <2>1. /\ pc[c] = "save" /\ pc' = [pc EXCEPT ![c] = "idle"] /\ row' = TRUE
          /\ UNCHANGED <<running, stop, current, created, announced, loop, starts>>
      BY <1>9 DEF StartSaves, GotoC, fieldVars, eventVars
    <2> QED  BY <1>0, <2>1 DEF Standing, Watching, Served, Live
  <1> QED  BY <1>1, <1>2, <1>3, <1>4, <1>5, <1>6, <1>7, <1>8, <1>9, <1>10

LEMMA StopKeepsStatus ==
  ASSUME NEW c, Clients = {c}, TypeOK, OneWatcher, Standing(c),
         \A l \in Loops : loop[l].at \in Calm,
         \/ StopLooksUp(c) \/ StopChecks(c) \/ StopUnruns(c) \/ StopSets(c) \/ StopJoins(c)
         \/ StopForgets(c) \/ StopAnnounces(c) \/ StopSaves(c)
  PROVE  (OneWatcher /\ Standing(c) /\ \A l \in Loops : loop[l].at \in Calm)'
  <1> USE DEF OneWatcher, CallSteps
  <1>0. /\ c \in Clients /\ running \in [Watchers -> BOOLEAN] /\ stop \in [Watchers -> BOOLEAN]
        /\ mine \in [Clients -> 0..created] /\ None \notin Watchers
    BY DEF TypeOK, None, Watchers
  <1>1. CASE StopLooksUp(c)
    <2>1. /\ pc[c] = "idle" /\ mine'[c] = current
          /\ pc' = [pc EXCEPT ![c] = IF current = None THEN "unsave" ELSE "checkStop"]
          /\ UNCHANGED <<running, stop, current, created, row, announced, loop, starts>>
      BY <1>0, <1>1 DEF StopLooksUp, GotoC, fieldVars, registryVars, eventVars
    <2> QED  BY <1>0, <2>1 DEF Standing, Watching, Served, Live
  <1>2. CASE StopChecks(c)
    <2>1. /\ pc[c] = "checkStop"
          /\ pc' = [pc EXCEPT ![c] = IF running[mine[c]] THEN "unrun" ELSE "unsave"]
          /\ UNCHANGED <<running, stop, current, created, row, announced, loop, starts, mine>>
      BY <1>2 DEF StopChecks, GotoC, fieldVars, registryVars, eventVars
    <2> QED  BY <1>0, <2>1 DEF Standing, Watching, Served, Live
  <1>3. CASE StopUnruns(c)
    <2>1. /\ pc[c] = "unrun" /\ pc' = [pc EXCEPT ![c] = "set"]
          /\ running' = [running EXCEPT ![mine[c]] = FALSE]
          /\ UNCHANGED <<stop, current, created, row, announced, loop, starts, mine>>
      BY <1>3 DEF StopUnruns, GotoC, registryVars, eventVars
    <2> QED  BY <1>0, <2>1 DEF Standing, Watching
  <1>4. CASE StopSets(c) \/ StopJoins(c) \/ StopForgets(c)
    <2>1. /\ pc[c] \in {"set", "join", "forget"}
          /\ \E x \in {"join", "forget", "announceStop"} : pc' = [pc EXCEPT ![c] = x]
          /\ UNCHANGED <<running, current, created, row, announced, loop, starts, mine>>
      BY <1>4 DEF StopSets, StopJoins, StopForgets, GotoC, fieldVars, registryVars, eventVars
    <2> QED  BY <1>0, <2>1 DEF Standing, Watching
  <1>5. CASE StopAnnounces(c)
    <2>1. /\ pc[c] = "announceStop" /\ pc' = [pc EXCEPT ![c] = "unsave"] /\ announced' = "stopped"
          /\ UNCHANGED <<running, stop, current, created, row, loop, starts, mine>>
      BY <1>5 DEF StopAnnounces, GotoC, fieldVars, registryVars
    <2> QED  BY <1>0, <2>1 DEF Standing, Watching
  <1>6. CASE StopSaves(c)
    <2>1. /\ pc[c] = "unsave" /\ pc' = [pc EXCEPT ![c] = "idle"] /\ row' = FALSE
          /\ UNCHANGED <<running, stop, current, created, announced, loop, starts>>
      BY <1>6 DEF StopSaves, GotoC, fieldVars, eventVars
    <2> QED  BY <1>0, <2>1 DEF Standing, Watching
  <1> QED  BY <1>1, <1>2, <1>3, <1>4, <1>5, <1>6

LEMMA StatusStep ==
  ASSUME NEW c, Clients = {c}, TypeOK, StatusInv(c), [Next]_vars
  PROVE  StatusInv(c)'
  <1>1. CASE EditVault \/ OtherIndexFails \/ UNCHANGED vars
    <2>1. UNCHANGED <<raised, running, stop, thread, current, created, row, pc, mine, starts,
                      announced, loop>>
      BY <1>1 DEF EditVault, OtherIndexFails, vars, vaultVars, fieldVars, registryVars,
                  clientVars, eventVars
    <2> QED  BY <2>1 DEF StatusInv, OneWatcher, OnCurrent, Standing, Watching, Served, Live,
                         Launchable
  <1>2. ASSUME NEW l \in Loops, Run(l) PROVE StatusInv(c)'
    BY <1>2, LoopKeepsStatus
  <1>3. CASE StartLooksUp(c) \/ StopLooksUp(c) \/ Serve(c)
    <2>1. (OneWatcher /\ OnCurrent(c))'
      BY <1>3, CallKeepsWatcher DEF StatusInv
    <2>2. ASSUME ~raised'
          PROVE  (Standing(c) /\ \A l \in Loops : loop[l].at \in Calm)'
      <3>1. ~CallRaises(c)
        BY <2>2 DEF CallRaises, StartScanRaises, StartLaunchRaises, StopJoinRaises,
                    AnnounceRaises, SaveRaises
      <3>2. CASE ~raised
        BY <1>3, <3>1, <3>2, StartKeepsStatus, StopKeepsStatus DEF StatusInv, Serve
      <3>3. CASE raised
        <4>1. StopAnnounces(c) /\ Live = {}
          BY <1>3, <2>2, <3>1, <3>3 DEF StartLooksUp, StopLooksUp, Serve, StartCreates,
             StartChecks, StartScans, StartRuns, StartClears, StartAnnounces, StartSpawns,
             StartLaunches, StartSaves, StopChecks, StopUnruns, StopSets, StopJoins, StopForgets, StopAnnounces,
             StopSaves, eventVars
        <4>2. /\ pc[c] = "announceStop" /\ pc' = [pc EXCEPT ![c] = "unsave"]
              /\ announced' = "stopped" /\ UNCHANGED <<running, current, loop>>
          BY <4>1 DEF StopAnnounces, GotoC, fieldVars, registryVars
        <4>3. pc'[c] = "unsave" /\ Watching' = FALSE
          BY <4>2 DEF StatusInv, OneWatcher, OnCurrent, Watching
        <4>4. Standing(c)'
          BY <4>2, <4>3 DEF Standing
        <4>5. \A l \in Loops : loop'[l].at \in Calm
          BY <4>1, <4>2 DEF Live, Calm, Working
        <4> QED  BY <4>4, <4>5
      <3> QED  BY <3>2, <3>3
    <2> QED  BY <2>1, <2>2 DEF StatusInv
  <1> QED  BY <1>1, <1>2, <1>3 DEF Next

\* What the status says is so, when one client calls: a watcher that reports
\* running has a loop that goes on polling, and the last event and the row say
\* the same, for any number of starts, stops, edits and loops that outlive a
\* stop; and whatever raised before a stop that announced itself and left no
\* loop.
THEOREM StatusStaysTrue ==
  ASSUME NEW c, Clients = {c}
  PROVE  Spec => []StatusIsTrue
  <1>1. Init => StatusInv(c)
    <2> SUFFICES ASSUME Init
                 PROVE  OneWatcher /\ OnCurrent(c) /\ Standing(c)
                        /\ \A l \in Loops : loop[l].at \in Calm
      BY DEF StatusInv
    <2>1. OneWatcher
      BY DEF Init, OneWatcher, CallSteps, None
    <2>2. pc[c] = "idle" /\ Watching = FALSE /\ row = FALSE /\ announced = "none"
      BY DEF Init, Watching
    <2>3. OnCurrent(c) /\ Standing(c)
      BY <2>2 DEF OnCurrent, Standing
    <2>4. \A l \in Loops : loop[l].at \in Calm
      BY DEF Init, Calm, Working
    <2> QED  BY <2>1, <2>3, <2>4
  <1>2. StatusInv(c) => StatusIsTrue
    BY DEF StatusInv, Standing, Served, StatusIsTrue, Quiet
  <1>3. TypeOK /\ StatusInv(c) /\ [Next]_vars => StatusInv(c)'
    BY StatusStep
  <1> QED  BY <1>1, <1>2, <1>3, TypeCorrect, PTL DEF Spec

-----------------------------------------------------------------------------
(* The index, when one client calls and every poll ends before stop()'s join  *)
(* times out.                                                                 *)

\* One loop polls at most: the one stop() would join, while the watcher runs or
\* is being stopped.  None does while a start is on its way to spawn one, or
\* once a stop has waited.
OneLoopPolls(c) ==
  \A l \in Loops : loop[l].at \in Polling =>
    /\ current # None /\ l = thread[current]
    /\ running[current] \/ pc[c] \in {"set", "join"}
    /\ pc[c] \notin {"snapshot", "run", "clear", "announce", "spawn", "launch", "forget",
                  "announceStop"}

\* What a loop has read is no older than what is indexed.
ReadsAreNewer ==
  /\ indexed <= version
  /\ \A l \in Loops : loop[l].at = "index" => indexed <= loop[l].seen /\ loop[l].seen <= version

CallsOnCurrent(c) ==
  /\ pc[c] \notin {"idle", "create", "unsave"} => current # None /\ mine[c] = current
  /\ pc[c] = "create" => current = None /\ 1 \in Watchers
  /\ pc[c] \in {"clear", "announce", "spawn", "launch"} => running[current]

OrderInv(c) ==
  ~polls.slow => OneWatcher /\ CallsOnCurrent(c) /\ OneLoopPolls(c) /\ ReadsAreNewer

LEMMA LoopKeepsOrder ==
  ASSUME NEW c, Clients = {c}, TypeOK, OneWatcher, CallsOnCurrent(c), OneLoopPolls(c),
         ReadsAreNewer, NEW l \in Loops, Run(l)
  PROVE  (OneWatcher /\ CallsOnCurrent(c) /\ OneLoopPolls(c) /\ ReadsAreNewer)'
         /\ indexed' >= indexed
  <1>1. /\ UNCHANGED <<polls, version, thread, current, created, pc, mine, starts>>
        /\ \A m \in Loops \ {l} : loop'[m] = loop[m]
        /\ loop'[l].at \in Polling => loop[l].at \in Polling
        /\ loop'[l].at = "index" => loop'[l].seen = version /\ indexed' = indexed
        /\ indexed' = indexed \/ (loop[l].at = "index" /\ indexed' = loop[l].seen)
        /\ \/ running' = running
           \/ /\ loop[l].at = "down" /\ loop'[l].at \notin Polling
              /\ running' = [running EXCEPT ![loop[l].of] = FALSE]
    BY LoopMoves
  <1>2. \A m \in Loops \ {l} :
          loop[l].at \in Polling => loop[m].at \notin Polling
    BY DEF OneLoopPolls
  <1>3. version \in Nat /\ indexed \in Nat /\ running \in [Watchers -> BOOLEAN]
        /\ \A m \in Loops : loop[m].seen \in Nat
    BY DEF TypeOK, Loop
  <1>4. ReadsAreNewer' /\ indexed' >= indexed
    BY <1>1, <1>2, <1>3 DEF ReadsAreNewer, Polling
  <1>5. OneLoopPolls(c)'
    BY <1>1, <1>2 DEF OneLoopPolls, Polling
  <1>6. OneWatcher'
    BY <1>1, <1>3 DEF OneWatcher
  <1>7. CallsOnCurrent(c)'
    <2>1. pc[c] \in {"clear", "announce", "spawn", "launch"} => loop[l].at # "down"
      BY DEF OneLoopPolls, Polling
    <2> QED  BY <1>1, <2>1 DEF CallsOnCurrent
  <1> QED  BY <1>4, <1>5, <1>6, <1>7

LEMMA ClientKeepsOrder ==
  ASSUME NEW c, Clients = {c}, TypeOK, ~polls.slow, OneWatcher, CallsOnCurrent(c),
         OneLoopPolls(c), ReadsAreNewer, StartLooksUp(c) \/ StopLooksUp(c) \/ Serve(c)
  PROVE  (OneWatcher /\ CallsOnCurrent(c) /\ OneLoopPolls(c) /\ ReadsAreNewer)'
         /\ indexed' = indexed
  <1> USE DEF OneWatcher, CallSteps
  <1>0. /\ c \in Clients /\ None = 0 /\ MaxStarts \in Nat /\ Watchers \subseteq Nat
        /\ running \in [Watchers -> BOOLEAN] /\ thread \in [Watchers -> Loops \cup {None}]
        /\ mine \in [Clients -> 0..created] /\ None \notin Watchers
        /\ loop \in [Loops -> Loop]
    BY WatcherAssumption DEF TypeOK, None, Watchers
  <1>1. UNCHANGED <<polls, version, indexed>>
    BY DEF StartLooksUp, StopLooksUp, Serve, StartCreates, StartChecks, StartScans, StartRuns,
           StartClears, StartAnnounces, StartSpawns, StartLaunches, StartSaves, StopChecks,
           StopUnruns, StopSets, StopJoins, StopForgets, StopAnnounces, StopSaves, CallRaises,
           StartScanRaises, StartLaunchRaises, StopJoinRaises, AnnounceRaises, SaveRaises,
           vaultVars
  <1>2. CASE StartSpawns(c)
    <2>1. /\ pc[c] = "spawn" /\ pc' = [pc EXCEPT ![c] = "launch"]
          /\ UNCHANGED <<running, current, created, starts, mine>>
      BY <1>2 DEF StartSpawns, GotoC, registryVars, eventVars
    <2>2. PICK l \in Unborn : loop' = [loop EXCEPT ![l].at = "born", ![l].of = mine[c]]
      BY <1>2 DEF StartSpawns
    <2>3. /\ l \in Loops /\ loop'[l].at = "born"
          /\ \A m \in Loops \ {l} : loop'[m] = loop[m]
      BY <1>0, <2>2 DEF Unborn, Loop
    <2>4. \A m \in Loops : loop[m].at \notin Polling
      BY <2>1 DEF OneLoopPolls
    <2>5. \A m \in Loops : loop'[m].at \notin Polling
      BY <2>3, <2>4 DEF Polling
    <2>6. OneLoopPolls(c)' /\ ReadsAreNewer'
      BY <1>1, <2>5 DEF OneLoopPolls, ReadsAreNewer, Polling
    <2>7. OneWatcher' /\ CallsOnCurrent(c)'
      BY <1>0, <2>1 DEF CallsOnCurrent
    <2> QED  BY <1>1, <2>6, <2>7
  <1>16. CASE StartLaunches(c)
    <2>1. /\ pc[c] = "launch" /\ pc' = [pc EXCEPT ![c] = "save"]
          /\ UNCHANGED <<running, thread, current, created, starts, mine>>
      BY <1>16 DEF StartLaunches, GotoC, fieldVars, registryVars, eventVars
    <2>2. PICK l \in Startable(mine[c]) : GotoL(l, "wait")
      BY <1>16 DEF StartLaunches
    <2>3. mine[c] = current /\ current \in Watchers /\ current # None /\ running[current]
      BY <2>1 DEF CallsOnCurrent
    <2>4. /\ l \in Loops /\ l = thread[current] /\ loop'[l].at = "wait"
          /\ \A m \in Loops \ {l} : loop'[m] = loop[m]
      BY <1>0, <2>2, <2>3 DEF Startable, GotoL, Loop
    <2>5. \A m \in Loops : loop[m].at \notin Polling
      BY <2>1 DEF OneLoopPolls
    <2>6. OneLoopPolls(c)'
      BY <2>1, <2>3, <2>4, <2>5 DEF OneLoopPolls
    <2>7. ReadsAreNewer'
      BY <1>1, <2>4, <2>5 DEF ReadsAreNewer, Polling
    <2>8. OneWatcher' /\ CallsOnCurrent(c)'
      BY <1>0, <2>1, <2>3 DEF CallsOnCurrent
    <2> QED  BY <1>1, <2>6, <2>7, <2>8
  <1>3. ASSUME loop' = loop PROVE ReadsAreNewer'
    BY <1>1, <1>3 DEF ReadsAreNewer
  <1>4. CASE StartCreates(c)
    <2>1. /\ pc[c] = "create" /\ current' = created + 1 /\ created' = created + 1
          /\ mine'[c] = created' /\ pc' = [pc EXCEPT ![c] = "check"]
          /\ UNCHANGED <<running, thread, loop, starts>>
      BY <1>0, <1>4 DEF StartCreates, GotoC, fieldVars, eventVars
    <2>2. current = None /\ current' = 1 /\ created' = 1 /\ 1 \in Watchers
      BY <1>0, <2>1 DEF CallsOnCurrent
    <2>3. OneLoopPolls(c)'
      BY <2>1, <2>2 DEF OneLoopPolls
    <2>4. OneWatcher'
      BY <1>0, <2>1, <2>2
    <2>5. pc'[c] = "check" /\ current' # None /\ mine'[c] = current'
      BY <1>0, <2>1, <2>2
    <2>6. CallsOnCurrent(c)'
      BY <2>5 DEF CallsOnCurrent
    <2> QED  BY <1>1, <1>3, <2>1, <2>3, <2>4, <2>6
  <1>5. CASE StartLooksUp(c)
    <2>1. /\ pc[c] = "idle" /\ starts < MaxStarts /\ starts' = starts + 1
          /\ mine'[c] = current
          /\ pc' = [pc EXCEPT ![c] = IF current = None THEN "create" ELSE "check"]
          /\ UNCHANGED <<running, thread, current, created, loop>>
      BY <1>0, <1>5 DEF StartLooksUp, GotoC, fieldVars, registryVars, eventVars
    <2>2. 1 \in Watchers
      BY <1>0, <2>1 DEF Watchers
    <2> QED  BY <1>0, <1>1, <1>3, <2>1, <2>2 DEF CallsOnCurrent, OneLoopPolls
  <1>6. CASE StopLooksUp(c)
    <2>1. /\ pc[c] = "idle" /\ mine'[c] = current
          /\ pc' = [pc EXCEPT ![c] = IF current = None THEN "unsave" ELSE "checkStop"]
          /\ UNCHANGED <<running, thread, current, created, loop, starts>>
      BY <1>0, <1>6 DEF StopLooksUp, GotoC, fieldVars, registryVars, eventVars
    <2> QED  BY <1>0, <1>1, <1>3, <2>1 DEF CallsOnCurrent, OneLoopPolls
  <1>7. CASE StartChecks(c)
    <2>1. /\ pc[c] = "check"
          /\ pc' = [pc EXCEPT ![c] = IF running[mine[c]] THEN "save" ELSE "snapshot"]
          /\ UNCHANGED <<running, thread, current, created, loop, starts, mine>>
      BY <1>7 DEF StartChecks, GotoC, fieldVars, registryVars, eventVars
    <2> QED  BY <1>0, <1>1, <1>3, <2>1 DEF CallsOnCurrent, OneLoopPolls
  <1>8. CASE StartRuns(c)
    <2>1. /\ pc[c] = "run" /\ pc' = [pc EXCEPT ![c] = "clear"]
          /\ running' = [running EXCEPT ![mine[c]] = TRUE]
          /\ UNCHANGED <<thread, current, created, loop, starts, mine>>
      BY <1>8 DEF StartRuns, GotoC, registryVars, eventVars
    <2> QED  BY <1>0, <1>1, <1>3, <2>1 DEF CallsOnCurrent, OneLoopPolls
  <1>9. CASE StartScans(c) \/ StartClears(c) \/ StartAnnounces(c)
    <2>1. /\ \/ pc[c] = "snapshot" /\ pc' = [pc EXCEPT ![c] = "run"]
             \/ pc[c] = "clear" /\ pc' = [pc EXCEPT ![c] = "announce"]
             \/ pc[c] = "announce" /\ pc' = [pc EXCEPT ![c] = "spawn"]
          /\ UNCHANGED <<running, thread, current, created, loop, starts, mine>>
      BY <1>9 DEF StartScans, StartClears, StartAnnounces, GotoC, fieldVars, registryVars, eventVars
    <2> QED  BY <1>0, <1>1, <1>3, <2>1 DEF CallsOnCurrent, OneLoopPolls
  <1>17. CASE StopJoinRaises(c)
    <2>1. /\ pc[c] = "join" /\ pc' = [pc EXCEPT ![c] = "idle"]
          /\ UNCHANGED <<running, thread, current, created, loop, starts>>
      BY <1>17 DEF StopJoinRaises, GotoC, fieldVars, registryVars, eventVars
    <2>2. PICK l \in Loops : l = thread[mine[c]] /\ loop[l].at = "born"
      BY <1>17 DEF StopJoinRaises, Startable
    <2>3. mine[c] = current
      BY <2>1 DEF CallsOnCurrent
    <2>4. \A m \in Loops : loop[m].at \notin Polling
      BY <2>2, <2>3 DEF OneLoopPolls, Polling
    <2> QED  BY <1>0, <1>1, <1>3, <2>1, <2>4 DEF CallsOnCurrent, OneLoopPolls
  <1>10. CASE \/ StartSaves(c) \/ StopSaves(c) \/ StartScanRaises(c) \/ StartLaunchRaises(c)
              \/ AnnounceRaises(c) \/ SaveRaises(c)
    <2>1. /\ pc[c] \in {"snapshot", "save", "unsave", "announce", "announceStop", "launch"}
          /\ pc' = [pc EXCEPT ![c] = "idle"]
          /\ UNCHANGED <<running, thread, current, created, loop, starts>>
      BY <1>10 DEF StartSaves, StopSaves, StartScanRaises, StartLaunchRaises, AnnounceRaises,
                   SaveRaises, GotoC, fieldVars, registryVars, eventVars
    <2> QED  BY <1>0, <1>1, <1>3, <2>1 DEF CallsOnCurrent, OneLoopPolls
  <1>11. CASE StopChecks(c)
    <2>1. /\ pc[c] = "checkStop"
          /\ pc' = [pc EXCEPT ![c] = IF running[mine[c]] THEN "unrun" ELSE "unsave"]
          /\ UNCHANGED <<running, thread, current, created, loop, starts, mine>>
      BY <1>11 DEF StopChecks, GotoC, fieldVars, registryVars, eventVars
    <2> QED  BY <1>0, <1>1, <1>3, <2>1 DEF CallsOnCurrent, OneLoopPolls
  <1>12. CASE StopUnruns(c)
    <2>1. /\ pc[c] = "unrun" /\ pc' = [pc EXCEPT ![c] = "set"]
          /\ running' = [running EXCEPT ![mine[c]] = FALSE]
          /\ UNCHANGED <<thread, current, created, loop, starts, mine>>
      BY <1>12 DEF StopUnruns, GotoC, registryVars, eventVars
    <2> QED  BY <1>0, <1>1, <1>3, <2>1 DEF CallsOnCurrent, OneLoopPolls
  <1>13. CASE StopSets(c)
    <2>1. /\ pc[c] = "set" /\ pc' = [pc EXCEPT ![c] = "join"]
          /\ UNCHANGED <<running, thread, current, created, loop, starts, mine>>
      BY <1>13 DEF StopSets, GotoC, registryVars, eventVars
    <2> QED  BY <1>0, <1>1, <1>3, <2>1 DEF CallsOnCurrent, OneLoopPolls
  <1>14. CASE StopJoins(c)
    <2>1. /\ pc[c] = "join" /\ pc' = [pc EXCEPT ![c] = "forget"] /\ thread[mine[c]] \notin Live
          /\ UNCHANGED <<running, thread, current, created, loop, starts, mine>>
      BY <1>14 DEF StopJoins, GotoC, fieldVars, registryVars, eventVars
    <2>2. \A l \in Loops : loop[l].at \notin Polling
      BY <2>1 DEF CallsOnCurrent, OneLoopPolls, Live, Polling
    <2> QED  BY <1>0, <1>1, <1>3, <2>1, <2>2 DEF CallsOnCurrent, OneLoopPolls
  <1>15. CASE StopForgets(c) \/ StopAnnounces(c)
    <2>1. /\ \/ pc[c] = "forget" /\ pc' = [pc EXCEPT ![c] = "announceStop"]
             \/ pc[c] = "announceStop" /\ pc' = [pc EXCEPT ![c] = "unsave"]
          /\ UNCHANGED <<running, current, created, loop, starts, mine>>
      BY <1>15 DEF StopForgets, StopAnnounces, GotoC, fieldVars, registryVars, eventVars
    <2>2. \A l \in Loops : loop[l].at \notin Polling
      BY <2>1 DEF OneLoopPolls
    <2> QED  BY <1>0, <1>1, <1>3, <2>1, <2>2 DEF CallsOnCurrent, OneLoopPolls
  <1> QED  BY <1>2, <1>4, <1>5, <1>6, <1>7, <1>8, <1>9, <1>10, <1>11, <1>12, <1>13, <1>14, <1>15,
           <1>16, <1>17
           DEF Serve, CallRaises

\* An indexing run of a loop that was stopped or has failed does not end after
\* one of the loop started next, when one client calls and every poll ends
\* before stop()'s join times out; polls may fail at any point.
THEOREM IndexOnlyAdvances ==
  ASSUME NEW c, Clients = {c}
  PROVE  Spec => IndexNeverGoesBack
  <1> DEFINE A == ~polls.slow => indexed' >= indexed
  <1>1. Init => OrderInv(c)
    <2> SUFFICES ASSUME Init
                 PROVE  OneWatcher /\ CallsOnCurrent(c) /\ OneLoopPolls(c) /\ ReadsAreNewer
      BY DEF OrderInv
    <2>1. OneWatcher
      BY DEF Init, OneWatcher, CallSteps, None
    <2> QED  BY <2>1 DEF Init, CallsOnCurrent, OneLoopPolls, ReadsAreNewer, Polling
  <1>2. TypeOK /\ OrderInv(c) /\ [Next]_vars => OrderInv(c)' /\ A
    <2> SUFFICES ASSUME TypeOK, OrderInv(c), [Next]_vars PROVE OrderInv(c)' /\ A
      OBVIOUS
    <2>0. polls' = polls
      <3>1. CASE EditVault \/ OtherIndexFails \/ UNCHANGED vars
        BY <3>1 DEF EditVault, OtherIndexFails, vars, vaultVars
      <3>2. CASE StartLooksUp(c) \/ StopLooksUp(c)
        BY <3>2 DEF StartLooksUp, StopLooksUp, vaultVars
      <3>3. CASE Serve(c)
        <4>1. CASE StartCreates(c) \/ StartChecks(c) \/ StartScans(c) \/ StartRuns(c)
                   \/ StartClears(c) \/ StartAnnounces(c) \/ StartSpawns(c)
                   \/ StartLaunches(c) \/ StartSaves(c)
          BY <4>1 DEF StartCreates, StartChecks, StartScans, StartRuns, StartClears,
                      StartAnnounces, StartSpawns, StartLaunches, StartSaves, vaultVars
        <4>2. CASE StopChecks(c) \/ StopUnruns(c) \/ StopSets(c) \/ StopJoins(c)
                   \/ StopForgets(c) \/ StopAnnounces(c) \/ StopSaves(c)
                   \/ CallRaises(c)
          BY <4>2 DEF StopChecks, StopUnruns, StopSets, StopJoins, StopForgets,
                      StopAnnounces, StopSaves, CallRaises, StartScanRaises,
                      StartLaunchRaises, StopJoinRaises, AnnounceRaises, SaveRaises, vaultVars
        <4> QED  BY <3>3, <4>1, <4>2 DEF Serve
      <3>4. ASSUME NEW l \in Loops, Run(l) PROVE polls' = polls
        BY <3>4, LoopMoves
      <3> QED  BY <3>1, <3>2, <3>3, <3>4 DEF Next
    <2> SUFFICES ASSUME ~polls.slow
                 PROVE  (OneWatcher /\ CallsOnCurrent(c) /\ OneLoopPolls(c) /\ ReadsAreNewer)'
                        /\ indexed' >= indexed
      BY <2>0 DEF OrderInv
    <2>1. OneWatcher /\ CallsOnCurrent(c) /\ OneLoopPolls(c) /\ ReadsAreNewer
          /\ indexed \in Nat /\ version \in Nat /\ \A l \in Loops : loop[l].seen \in Nat
      BY DEF OrderInv, TypeOK, Loop
    <2>2. CASE EditVault
      <3>1. /\ version' = version + 1
            /\ UNCHANGED <<indexed, running, thread, current, created, pc, mine, starts, loop>>
        BY <2>2 DEF EditVault, fieldVars, registryVars, clientVars
      <3>2. ReadsAreNewer' /\ indexed' >= indexed
        BY <2>1, <3>1 DEF ReadsAreNewer
      <3> QED  BY <2>1, <3>1, <3>2 DEF OneWatcher, CallsOnCurrent, OneLoopPolls
    <2>3. CASE OtherIndexFails \/ UNCHANGED vars
      <3>1. UNCHANGED <<version, indexed, running, thread, current, created, pc, mine, starts,
      loop>>
        BY <2>3 DEF OtherIndexFails, vars, vaultVars, fieldVars, registryVars, clientVars
      <3> QED  BY <2>1, <3>1 DEF OneWatcher, CallsOnCurrent, OneLoopPolls, ReadsAreNewer
    <2>4. CASE StartLooksUp(c) \/ StopLooksUp(c) \/ Serve(c)
      <3>1. (OneWatcher /\ CallsOnCurrent(c) /\ OneLoopPolls(c) /\ ReadsAreNewer)'
            /\ indexed' = indexed
        BY <2>1, <2>4, ClientKeepsOrder
      <3> QED  BY <2>1, <3>1
    <2>5. ASSUME NEW l \in Loops, Run(l)
          PROVE  (OneWatcher /\ CallsOnCurrent(c) /\ OneLoopPolls(c) /\ ReadsAreNewer)'
                 /\ indexed' >= indexed
      BY <2>1, <2>5, LoopKeepsOrder
    <2> QED  BY <2>2, <2>3, <2>4, <2>5 DEF Next
  <1> HIDE DEF A
  <1>3. Spec => [][A]_vars
    BY <1>1, <1>2, TypeCorrect, PTL DEF Spec
  <1> QED  BY <1>3 DEF A, IndexNeverGoesBack

=============================================================================
