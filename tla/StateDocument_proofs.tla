------------------------ MODULE StateDocument_proofs ------------------------
(***************************************************************************)
(* Theorems about state.json and its writers, for every set of builds and  *)
(* every bound on sessions, starts, results, repairs and faults.           *)
(***************************************************************************)
EXTENDS StateDocument, FiniteSetTheorems, TLAPS

(***************************************************************************)
(* The inductive invariant, part by part.                                  *)
(***************************************************************************)
(* What the control states say.  Before it serves an app has no sessions   *)
(* and neither writer runs; a session about to be published is one, and    *)
(* the cap was checked under the lock that is still held.                  *)
ShapeInv ==
    /\ disk # "document" => doc = Initial
    /\ disk = "torn" => "tear" \in suffered
    /\ disk = "absent" => live = {} /\ op # "publish"
    /\ app # "serving" => /\ live = {} /\ op = "none" /\ watch = "sleep"
                          /\ stale = {} /\ ~reconciled
    /\ op = "none" => who = {}
    /\ op \in {"create", "publish"} => (\E s \in Id : who = {s}) /\ BelowCap

Loaded == op \in {"create", "remove"}

(* Live sessions are in the document, and in every copy that may replace   *)
(* it, but a stale one of the watcher.                                     *)
VisibleInv ==
    ~clobbered =>
        /\ disk = "document" => live \subseteq doc.rows
        /\ op = "publish" /\ disk = "document" => who \subseteq doc.rows
        /\ op = "create" => live \cup who \subseteq rcopy.rows
        /\ op = "remove" => live \subseteq rcopy.rows
        /\ watch # "sleep" /\ "watcher" \notin stale =>
              /\ live \subseteq wcopy.rows
              /\ op = "publish" => who \subseteq wcopy.rows

(* After the reconciliation, the document and the copy under the lock name *)
(* no other session; a fresh copy of the watcher has the document's rows.  *)
RowsInv ==
    ~clobbered /\ suffered = {} =>
        /\ reconciled => doc.rows \subseteq live \cup who
        /\ reconciled /\ op = "create" => rcopy.rows \subseteq live \cup who
        /\ reconciled /\ op = "remove" => rcopy.rows \subseteq live
        /\ watch # "sleep" /\ "watcher" \notin stale => wcopy.rows = doc.rows

(* Two documents that record the same results; one that records more.      *)
Same(d, e) == d.last = e.last /\ d.rolled = e.rolled

Keeps(d, e) ==
    /\ d.last <= e.last
    /\ \/ Mem(d.rolled) \subseteq Mem(e.rolled)
       \/ Mem(e.rolled) \ Mem(d.rolled) # {} /\ Len(e.rolled) = MaxRolled

Intact == suffered \cap {"read", "tear"} = {}

(* A fresh copy records what the document does, and more once a result was *)
(* folded in.                                                              *)
EvidenceInv ==
    /\ Len(doc.rolled) <= MaxRolled /\ Len(copy.rolled) <= MaxRolled
    /\ Len(wcopy.rolled) <= MaxRolled /\ Len(rcopy.rolled) <= MaxRolled
    /\ Intact =>
        /\ app \in {"repairs", "events", "result"} => Same(doc, copy)
        /\ app = "save" => Keeps(doc, copy)
        /\ watch \in {"clean", "staged"} /\ "watcher" \notin stale => Same(doc, wcopy)
        /\ watch = "save" /\ "watcher" \notin stale => Keeps(doc, wcopy)
        /\ Loaded /\ "registry" \notin stale => Same(doc, rcopy)

(* Every copy of the document has passed only lines whose event is there.  *)
Recorded(n) == n <= written /\ \A line \in 1..n : events[line] > 0

RepairInv ==
    suffered \cap {"write", "rotate"} = {} =>
        /\ base = 0
        /\ Recorded(doc.offset)
        /\ app = "repairs" => Recorded(copy.offset)
        /\ app = "events" => Recorded(cursor) /\ copy.offset = upto /\ upto <= written
        /\ app \in {"result", "save"} => Recorded(copy.offset)
        /\ watch # "sleep" => Recorded(wcopy.offset)
        /\ Loaded => Recorded(rcopy.offset)

(* A fresh copy is not ahead of the document, or its verdict says why.     *)
Says(d) == d.last > doc.last => d.verdict = d.outcome

VerdictInv ==
    disk # "torn" =>
        /\ app \in {"repairs", "events", "result"} => copy.last <= doc.last
        /\ app = "save" => Says(copy)
        /\ watch \in {"clean", "staged"} /\ "watcher" \notin stale => wcopy.last <= doc.last
        /\ watch = "save" /\ "watcher" \notin stale => Says(wcopy)
        /\ Loaded /\ "registry" \notin stale => rcopy.last <= doc.last

(***************************************************************************)
(* What the operators on documents do to the fields, stated once, so that  *)
(* no step below expands the set of documents.                             *)
(***************************************************************************)
LEMMA DocFacts ==
    \A d \in Doc : /\ d.rows \subseteq Id /\ d.last \in Nat /\ d.rolled \in Seq(Build)
                   /\ d.offset \in Nat
BY DEF Doc

LEMMA InitialFacts ==
    /\ Initial \in Doc
    /\ Initial.rows = {} /\ Initial.last = 0 /\ Initial.rolled = <<>> /\ Initial.offset = 0
BY DEF Initial, Doc, Verdict

LEMMA RowsFacts ==
    ASSUME NEW d \in Doc, NEW rows \in SUBSET Id
    PROVE  LET e == [d EXCEPT !.rows = rows]
           IN  /\ e \in Doc
               /\ e.rows = rows /\ e.last = d.last /\ e.rolled = d.rolled /\ e.offset = d.offset
BY DEF Doc

LEMMA RefreshedFacts ==
    ASSUME doc \in Doc
    PROVE  /\ Refreshed \in Doc
           /\ Refreshed.rows = doc.rows /\ Refreshed.last = doc.last
           /\ Refreshed.rolled = doc.rolled /\ Refreshed.offset = doc.offset
BY DEF Refreshed, Doc, Verdict

LEMMA PassedFacts ==
    ASSUME NEW d \in Doc, NEW n \in Nat, NEW v \in Verdict
    PROVE  LET e == [d EXCEPT !.offset = n, !.verdict = v]
           IN  /\ e \in Doc
               /\ e.rows = d.rows /\ e.last = d.last /\ e.rolled = d.rolled /\ e.offset = n
BY DEF Doc

LEMMA IngestFacts ==
    ASSUME NEW d \in Doc, request \in Build \cup {None}
    PROVE  /\ Ingest(d) \in Doc
           /\ Ingest(d).rows = d.rows /\ Ingest(d).last = d.last
           /\ Ingest(d).rolled = d.rolled /\ Ingest(d).offset = d.offset
BY DEF Ingest, Doc

(* The memory stays a list of builds; it keeps every build, or is full and *)
(* has gained one.                                                         *)
LEMMA RememberType ==
    ASSUME NEW rolled \in Seq(Build), NEW b \in Build
    PROVE  Remember(rolled, b) \in Seq(Build)
<1>1. CASE rolled = <<>>
  BY <1>1, BoundAssumption DEF Remember
<1>2. CASE rolled # <<>>
  BY <1>2 DEF Remember
<1> QED
  BY <1>1, <1>2

LEMMA RememberKeeps ==
    ASSUME NEW rolled \in Seq(Build), NEW b \in Build, Len(rolled) <= MaxRolled
    PROVE  /\ Len(Remember(rolled, b)) <= MaxRolled
           /\ \/ Mem(rolled) \subseteq Mem(Remember(rolled, b))
              \/ /\ Mem(Remember(rolled, b)) \ Mem(rolled) # {}
                 /\ Len(Remember(rolled, b)) = MaxRolled
<1> USE BoundAssumption
<1>1. CASE \E i \in DOMAIN rolled : rolled[i] = b
  BY <1>1 DEF Remember
<1>2. CASE ~(\E i \in DOMAIN rolled : rolled[i] = b) /\ Len(rolled) < MaxRolled
  <2>1. Remember(rolled, b) = Append(rolled, b)
    BY <1>2 DEF Remember
  <2>2. \A i \in DOMAIN rolled : i \in DOMAIN Append(rolled, b) /\ Append(rolled, b)[i] = rolled[i]
    OBVIOUS
  <2>3. Len(Append(rolled, b)) <= MaxRolled
    BY <1>2
  <2> QED
    BY <2>1, <2>2, <2>3 DEF Mem
<1>3. CASE ~(\E i \in DOMAIN rolled : rolled[i] = b) /\ Len(rolled) = MaxRolled
  <2> DEFINE kept == Append(Tail(rolled), b)
  <2>1. Remember(rolled, b) = kept
    BY <1>3 DEF Remember
  <2>2. rolled # <<>> /\ Tail(rolled) \in Seq(Build) /\ Len(Tail(rolled)) = Len(rolled) - 1
    BY <1>3
  <2>3. Len(kept) = MaxRolled /\ MaxRolled \in DOMAIN kept /\ kept[MaxRolled] = b
    BY <1>3, <2>2
  <2>4. b \in Mem(kept) /\ b \notin Mem(rolled)
    BY <1>3, <2>3 DEF Mem
  <2> QED
    BY <2>1, <2>3, <2>4
<1> QED
  BY <1>1, <1>2, <1>3

LEMMA HoldFacts ==
    ASSUME doc \in Doc, NEW what, NEW ids, NEW rows \in SUBSET Id, Hold(what, ids, rows)
    PROVE  /\ op' = what /\ who' = ids /\ disk # "torn" /\ suffered' = suffered
           /\ rcopy'.rows = rows /\ rcopy'.last = doc.last
           /\ rcopy'.rolled = doc.rolled /\ rcopy'.offset = doc.offset
BY RowsFacts DEF Hold

LEMMA LoadFailsFacts ==
    LoadFails => UNCHANGED <<op, who, rcopy>> /\ suffered \subseteq suffered'
BY DEF LoadFails, Fails

LEMMA FoldFacts ==
    ASSUME NEW d \in Doc, result \in Result \cup {NoResult}
    PROVE  /\ Fold(d) \in Doc
           /\ Fold(d).rows = d.rows /\ Fold(d).offset = d.offset
           /\ Fold(d).last > d.last => Fold(d).verdict = Fold(d).outcome
           /\ Len(d.rolled) <= MaxRolled =>
                 Len(Fold(d).rolled) <= MaxRolled /\ Keeps(d, Fold(d))
<1>1. CASE ~Newer(d)
  BY <1>1, DocFacts DEF Fold, Keeps
<1>2. CASE Newer(d)
  <2>1. /\ result \in Result /\ result.at \in Nat /\ result.at > d.last
        /\ result.outcome \in Outcome /\ result.build \in Build
    BY <1>2 DEF Newer, Result
  <2> DEFINE rolled == IF result.outcome = "rolled_back"
                       THEN Remember(d.rolled, result.build) ELSE d.rolled
  <2>2. rolled \in Seq(Build)
    BY <2>1, DocFacts, RememberType
  <2>3. Len(d.rolled) <= MaxRolled =>
           /\ Len(rolled) <= MaxRolled
           /\ \/ Mem(d.rolled) \subseteq Mem(rolled)
              \/ Mem(rolled) \ Mem(d.rolled) # {} /\ Len(rolled) = MaxRolled
    BY <2>1, DocFacts, RememberKeeps
  <2> DEFINE to == IF result.outcome = "refused" THEN d.to ELSE result.build
  <2>4. Fold(d) = [d EXCEPT !.phase = "idle", !.to = to, !.outcome = result.outcome,
                            !.last = result.at, !.rolled = rolled,
                            !.verdict = result.outcome]
    BY <1>2 DEF Fold, NewVerdict, Doc
  <2> HIDE DEF rolled
  <2>5. to \in Build \cup {None}
    BY <2>1 DEF Doc
  <2> HIDE DEF to
  <2>6. /\ Fold(d) \in Doc
        /\ Fold(d).rows = d.rows /\ Fold(d).offset = d.offset
        /\ Fold(d).last = result.at /\ Fold(d).rolled = rolled
        /\ Fold(d).verdict = Fold(d).outcome
    BY <2>1, <2>2, <2>4, <2>5 DEF Doc, Verdict
  <2> QED
    BY <2>1, <2>3, <2>6, DocFacts DEF Keeps
<1> QED
  BY <1>1, <1>2

(***************************************************************************)
(* Type correctness.                                                       *)
(***************************************************************************)
LEMMA TypeInit == Init => TypeOK
<1> SUFFICES ASSUME Init PROVE TypeOK
  OBVIOUS
<1>1. clobbered \in BOOLEAN /\ reconciled \in BOOLEAN
  BY Zenon DEF Init
<1> QED
  BY <1>1, InitialFacts, BoundAssumption, FaultAssumption DEF Init, TypeOK

LEMMA TypeStep == TypeOK /\ [Next]_vars => TypeOK'
<1> SUFFICES ASSUME TypeOK, [Next]_vars
             PROVE  TypeOK'
  OBVIOUS
<1> USE BoundAssumption, FaultAssumption
<1> USE DEF TypeOK
<1>1. CASE Repair
  BY <1>1
  DEF Repair, file, startup, watcher, registry, sessions, history, count
<1>2. CASE Rotate
  BY <1>2
  DEF Rotate, Suffer, Fails, file, startup, watcher, registry, sessions,
      history
<1>3. CASE RemoveRequest
  BY <1>3
  DEF RemoveRequest, file, startup, watcher, registry, sessions, history,
      count
<1>4. CASE Tear
  BY <1>4, InitialFacts
  DEF Tear, Suffer, Fails, evidence, startup, watcher, registry, sessions,
      history
<1>5. ASSUME NEW b \in Build, Stage(b) PROVE TypeOK'
  BY <1>5
  DEF Stage, file, startup, watcher, registry, sessions, history, count
<1>6. ASSUME NEW o \in Outcome, Answer(o) PROVE TypeOK'
  <2>1. clock + 1 \in 0..MaxResults /\ request \in Build
    BY <1>6
    DEF Answer
  <2>2. [outcome |-> o, build |-> request, at |-> clock + 1] \in Result
    BY <2>1 DEF Result
  <2> QED
    BY <1>6, <2>1, <2>2 DEF Answer, file, startup, watcher, registry, sessions, history, count
<1>7. CASE StartLoad
  <2>1. Refreshed \in Doc
    BY RefreshedFacts
  <2> QED
    BY <1>7, <2>1 DEF StartLoad, Start, file, evidence, watcher, registry, sessions, history
<1>8. CASE StartQuarantine
  <2>1. suffered' \subseteq Fault /\ disk' \in {"absent", "document", "torn"} /\ doc' \in Doc
    BY <1>8, InitialFacts DEF StartQuarantine, Fails, file
  <2>2. starts' \in 0..MaxStarts /\ copy' \in Doc
    BY <1>8, InitialFacts DEF StartQuarantine, Start
  <2> QED
    BY <1>8, <2>1, <2>2 DEF StartQuarantine, Start, evidence, watcher, registry, sessions, history
<1>9. CASE ReadRepairs
  <2>1. Unread \in 0..written /\ LogLength \in Nat
    BY DocFacts DEF Unread, LogLength
  <2>2. (IF Unread < written THEN "repaired" ELSE copy.verdict) \in Verdict
    BY DEF Verdict, Doc
  <2> DEFINE said == IF Unread < written THEN "repaired" ELSE copy.verdict
  <2>3. copy' \in Doc
    <3>1. copy' = [copy EXCEPT !.offset = LogLength, !.verdict = said]
      BY <1>9 DEF ReadRepairs, Doc
    <3> HIDE DEF said
    <3> QED
      BY <2>1, <2>2, <3>1, PassedFacts DEF said
  <2> QED
    BY <1>9, <2>1, <2>3 DEF ReadRepairs, file, evidence, watcher, registry, sessions, history, count, LastLine
<1>10. CASE RecordEvent
  <2>1. cursor + 1 \in 1..MaxRepairs /\ cursor' \in 0..upto
    BY <1>10 DEF RecordEvent
  <2>2. events' \in [1..MaxRepairs -> Nat] /\ starts' \in 0..MaxStarts /\ suffered' \subseteq Fault
    <3>1. CASE events' = [events EXCEPT ![cursor + 1] = @ + 1] /\ UNCHANGED count
      BY <3>1, <2>1 DEF count
    <3>2. CASE Suffer("write") /\ UNCHANGED events
      BY <3>2 DEF Suffer, Fails
    <3> QED
      BY <1>10, <3>1, <3>2 DEF RecordEvent
  <2> QED
    BY <1>10, <2>1, <2>2 DEF RecordEvent, file, evidence, watcher, registry, sessions, history
<1>11. CASE IngestAtStart
  <2>1. Ingest(copy) \in Doc
    BY IngestFacts
  <2> QED
    BY <1>11, <2>1 DEF IngestAtStart, file, evidence, watcher, registry, sessions, history, count
<1>12. CASE FoldAtStart
  <2>1. Fold(copy) \in Doc
    BY FoldFacts
  <2> QED
    BY <1>12, <2>1 DEF FoldAtStart, file, evidence, watcher, registry, sessions, history, count
<1>13. CASE SaveAtStart
  BY <1>13, InitialFacts
  DEF SaveAtStart, Suffer, Fails, file, evidence, watcher, registry, sessions,
      history, count
<1>14. CASE AppEnds
  <2>1. /\ reconciled' = FALSE /\ clobbered' = FALSE
        /\ live' = {} /\ opening' = {} /\ who' = {} /\ stale' = {}
        /\ next' = 1 /\ op' = "none" /\ watch' = "sleep"
        /\ wcopy' = Initial /\ rcopy' = Initial /\ copy' = Initial
        /\ cursor' = 0 /\ upto' = 0 /\ app' = "down"
    BY <1>14 DEF AppEnds, Idle
  <2>2. UNCHANGED <<file, evidence, events, count>>
    BY <1>14 DEF AppEnds
  <2>3. reconciled' \in BOOLEAN /\ clobbered' \in BOOLEAN
    BY <2>1, <2>2, Zenon
  <2>4. next' \in 1..(MaxIds + 1) /\ cursor' \in 0..upto' /\ upto' \in 0..MaxRepairs
    BY <2>1
  <2>5. live' \subseteq Id /\ opening' \subseteq Id /\ who' \subseteq Id
    BY <2>1
  <2> QED
    BY <2>1, <2>2, <2>3, <2>4, <2>5, InitialFacts DEF file, evidence, count
<1>15. CASE WatchLoad
  <2>1. Ingest(doc) \in Doc
    BY IngestFacts
  <2>2. wcopy' \in Doc /\ watch' \in {"clean", "staged"}
    BY <1>15, <2>1 DEF WatchLoad
  <2> QED
    BY <1>15, <2>2 DEF WatchLoad, file, evidence, startup, registry, sessions, history, count
<1>16. CASE WatchSkip
  BY <1>16 DEF WatchSkip, vars, file, evidence, startup, watcher, registry, sessions, history, count
<1>17. CASE WatchResult
  <2>1. Fold(wcopy) \in Doc
    BY FoldFacts
  <2>2. /\ watch' \in {"sleep", "save"} /\ wcopy' \in {Initial, Fold(wcopy)}
        /\ stale' \subseteq stale
    BY <1>17, Zenon DEF WatchResult
  <2> QED
    BY <1>17, <2>1, <2>2, InitialFacts DEF WatchResult, file, evidence, startup, registry, sessions, count
<1>18. CASE WatchSave
  <2>1. /\ disk' \in {"absent", "document", "torn"} /\ doc' \in Doc
        /\ stale' \subseteq {"watcher", "registry"}
        /\ suffered' \subseteq Fault /\ starts' \in 0..MaxStarts
    BY <1>18 DEF WatchSave, Save, SaveFails, Suffer, Fails, file, count
  <2>2. clobbered' \in BOOLEAN
    <3>1. CASE clobbered' = (clobbered \/ "watcher" \in stale)
      BY <3>1, Zenon
    <3>2. CASE UNCHANGED clobbered
      BY <3>2
    <3> QED
      BY <1>18, <3>1, <3>2, Zenon DEF WatchSave, Save, SaveFails
  <2>3. watch' = "sleep" /\ wcopy' = Initial
    BY <1>18 DEF WatchSave
  <2>4. UNCHANGED <<evidence, events, startup, registry>>
    BY <1>18 DEF WatchSave
  <2> QED
    BY <2>1, <2>2, <2>3, <2>4, InitialFacts DEF evidence, startup, registry, sessions
<1>19. CASE Open
  <2>1. opening' \subseteq Id /\ next' \in 1..(MaxIds + 1)
    BY <1>19 DEF Open, Id
  <2> QED
    BY <1>19, <2>1 DEF Open, file, evidence, startup, watcher, history, count
<1>20. ASSUME NEW s \in opening, RefuseCreate(s) PROVE TypeOK'
  BY <1>20
  DEF RefuseCreate, Unlocked, file, evidence, startup, watcher, history, count
<1>21. ASSUME NEW s \in opening, BeginCreate(s) PROVE TypeOK'
  <2>0. \A rows \in SUBSET Id : [doc EXCEPT !.rows = rows] \in Doc
    BY RowsFacts
  <2>1. /\ op' \in {"none", "create", "remove"} /\ who' \subseteq Id /\ rcopy' \in Doc
        /\ suffered' \subseteq Fault
    BY <1>21, <2>0, DocFacts DEF BeginCreate, Hold, LoadFails, Fails, Unlocked
  <2> QED
    BY <1>21, <2>1 DEF BeginCreate, file, evidence, startup, watcher, history
<1>22. ASSUME NEW gone \in SUBSET live, BeginRemove(gone) PROVE TypeOK'
  <2>0. \A rows \in SUBSET Id : [doc EXCEPT !.rows = rows] \in Doc
    BY RowsFacts
  <2>1. /\ op' \in {"none", "create", "remove"} /\ who' \subseteq Id /\ rcopy' \in Doc
        /\ suffered' \subseteq Fault
    BY <1>22, <2>0, DocFacts DEF BeginRemove, Hold, LoadFails, Fails, Unlocked
  <2> QED
    BY <1>22, <2>1 DEF BeginRemove, file, evidence, startup, watcher, history
<1>23. CASE BeginReconcile
  <2>0. \A rows \in SUBSET Id : [doc EXCEPT !.rows = rows] \in Doc
    BY RowsFacts
  <2>1. /\ op' \in {"none", "create", "remove"} /\ who' \subseteq Id /\ rcopy' \in Doc
        /\ suffered' \subseteq Fault
    BY <1>23, <2>0, DocFacts DEF BeginReconcile, Hold, LoadFails, Fails, Unlocked, LiveRows
  <2>2. reconciled' = TRUE
    BY <1>23 DEF BeginReconcile
  <2>3. UNCHANGED <<file, evidence, events, startup, watcher, sessions, history, starts>>
    BY <1>23 DEF BeginReconcile
  <2> QED
    BY <2>1, <2>2, <2>3 DEF file, evidence, startup, watcher, sessions, history
<1>24. CASE SaveRow
  <2>1. /\ disk' \in {"absent", "document", "torn"} /\ doc' \in Doc
        /\ stale' \subseteq {"watcher", "registry"}
        /\ suffered' \subseteq Fault /\ starts' \in 0..MaxStarts
    BY <1>24 DEF SaveRow, Save, SaveFails, Suffer, Fails, file, count
  <2>2. clobbered' \in BOOLEAN
    <3>1. CASE clobbered' = (clobbered \/ "registry" \in stale)
      BY <3>1, Zenon
    <3>2. CASE UNCHANGED clobbered
      BY <3>2
    <3> QED
      BY <1>24, <3>1, <3>2, Zenon DEF SaveRow, Save, SaveFails
  <2>3. /\ op' \in {"none", "publish"} /\ rcopy' = Initial
        /\ who' \in {who, {}} /\ opening' \subseteq Id
    BY <1>24 DEF SaveRow, DropSession, Release
  <2>4. UNCHANGED <<evidence, events, startup, watcher, reconciled, live, next>>
    BY <1>24 DEF SaveRow
  <2> QED
    BY <2>1, <2>2, <2>3, <2>4, InitialFacts DEF evidence, startup, watcher
<1>25. CASE Publish
  BY <1>25, InitialFacts
  DEF Publish, Release, file, evidence, startup, watcher, history, count
<1>26. CASE SaveRemoval
  <2>1. /\ disk' \in {"absent", "document", "torn"} /\ doc' \in Doc
        /\ stale' \subseteq {"watcher", "registry"}
        /\ suffered' \subseteq Fault /\ starts' \in 0..MaxStarts
    BY <1>26 DEF SaveRemoval, Save, SaveFails, Suffer, Fails, file, count
  <2>2. clobbered' \in BOOLEAN
    <3>1. CASE clobbered' = (clobbered \/ "registry" \in stale)
      BY <3>1, Zenon
    <3>2. CASE UNCHANGED clobbered
      BY <3>2
    <3> QED
      BY <1>26, <3>1, <3>2, Zenon DEF SaveRemoval, Save, SaveFails
  <2>3. op' = "none" /\ rcopy' = Initial /\ who' = {}
    BY <1>26 DEF SaveRemoval, Release
  <2>4. UNCHANGED <<evidence, events, startup, watcher, reconciled, sessions>>
    BY <1>26 DEF SaveRemoval
  <2> QED
    BY <2>1, <2>2, <2>3, <2>4, InitialFacts DEF evidence, startup, watcher, sessions
<1>27. CASE UNCHANGED vars
  BY <1>27
  DEF vars, file, evidence, startup, watcher, registry, sessions, history,
      count
<1> QED
  BY <1>1, <1>2, <1>3, <1>4, <1>5, <1>6, <1>7, <1>8, <1>9, <1>10,
     <1>11, <1>12, <1>13, <1>14, <1>15, <1>16, <1>17, <1>18, <1>19,
     <1>20, <1>21, <1>22, <1>23, <1>24, <1>25, <1>26, <1>27
  DEF Next, EvidenceStep, StartStep, WatchStep, RegistryStep, LockedStep

(***************************************************************************)
(* The parts of the invariant, one lemma per part.                         *)
(***************************************************************************)
LEMMA ShapePreserved == TypeOK /\ ShapeInv /\ [Next]_vars => ShapeInv'
<1> SUFFICES ASSUME TypeOK, ShapeInv, [Next]_vars
             PROVE  ShapeInv'
  OBVIOUS
<1> USE DEF ShapeInv
<1>1. CASE Repair
  BY <1>1
  DEF Repair, file, startup, watcher, registry, sessions, history, count,
      BelowCap
<1>2. CASE Rotate
  BY <1>2
  DEF Rotate, Suffer, Fails, file, startup, watcher, registry, sessions,
      history, BelowCap
<1>3. CASE RemoveRequest
  BY <1>3
  DEF RemoveRequest, file, startup, watcher, registry, sessions, history,
      count, BelowCap
<1>4. CASE Tear
  BY <1>4
  DEF Tear, Suffer, Fails, evidence, startup, watcher, registry, sessions,
      history, BelowCap
<1>5. ASSUME NEW b \in Build, Stage(b) PROVE ShapeInv'
  BY <1>5
  DEF Stage, file, startup, watcher, registry, sessions, history, count,
      BelowCap
<1>6. ASSUME NEW o \in Outcome, Answer(o) PROVE ShapeInv'
  BY <1>6
  DEF Answer, file, startup, watcher, registry, sessions, history, count,
      BelowCap
<1>7. CASE StartLoad
  BY <1>7
  DEF StartLoad, Start, file, evidence, watcher, registry, sessions, history,
      BelowCap
<1>8. CASE StartQuarantine
  BY <1>8
  DEF StartQuarantine, Fails, Start, file, evidence, watcher, registry,
      sessions, history, BelowCap
<1>9. CASE ReadRepairs
  BY <1>9
  DEF ReadRepairs, file, evidence, watcher, registry, sessions, history,
      count, BelowCap
<1>10. CASE RecordEvent
  BY <1>10
  DEF RecordEvent, Suffer, Fails, file, evidence, watcher, registry, sessions,
      history, count, BelowCap
<1>11. CASE IngestAtStart
  BY <1>11
  DEF IngestAtStart, file, evidence, watcher, registry, sessions, history,
      count, BelowCap
<1>12. CASE FoldAtStart
  BY <1>12
  DEF FoldAtStart, file, evidence, watcher, registry, sessions, history,
      count, BelowCap
<1>13. CASE SaveAtStart
  BY <1>13
  DEF SaveAtStart, Suffer, Fails, file, evidence, watcher, registry, sessions,
      history, count, BelowCap
<1>14. CASE AppEnds
  BY <1>14
  DEF AppEnds, Idle, file, evidence, count, BelowCap
<1>15. CASE WatchLoad
  BY <1>15
  DEF WatchLoad, file, evidence, startup, registry, sessions, history, count,
      BelowCap
<1>16. CASE WatchSkip
  BY <1>16
  DEF WatchSkip, vars, file, evidence, startup, watcher, registry, sessions,
      history, count, BelowCap
<1>17. CASE WatchResult
  BY <1>17
  DEF WatchResult, file, evidence, startup, watcher, registry, sessions,
      count, BelowCap
<1>18. CASE WatchSave
  BY <1>18
  DEF WatchSave, Save, SaveFails, file, evidence, startup, watcher, registry,
      sessions, count, Suffer, Fails, BelowCap
<1>19. CASE Open
  BY <1>19
  DEF Open, file, evidence, startup, watcher, history, count, BelowCap
<1>20. ASSUME NEW s \in opening, RefuseCreate(s) PROVE ShapeInv'
  BY <1>20
  DEF RefuseCreate, Unlocked, file, evidence, startup, watcher, history,
      count, BelowCap
<1>21. ASSUME NEW s \in opening, BeginCreate(s) PROVE ShapeInv'
  <2>1. s \in Id
    BY <1>21 DEF TypeOK
  <2>2. \/ op' = "create" /\ who' = {s} /\ disk # "torn"
        \/ UNCHANGED <<op, who>>
    BY <1>21 DEF BeginCreate, Hold, LoadFails
  <2>3. suffered \subseteq suffered' /\ BelowCap /\ op = "none" /\ app = "serving"
    BY <1>21 DEF BeginCreate, Hold, LoadFails, Fails, Unlocked
  <2>4. UNCHANGED <<file, startup, watcher, live, reconciled, history>>
    BY <1>21 DEF BeginCreate
  <2> QED
    BY <2>1, <2>2, <2>3, <2>4 DEF BelowCap, file, startup, watcher, history
<1>22. ASSUME NEW gone \in SUBSET live, BeginRemove(gone) PROVE ShapeInv'
  BY <1>22
  DEF BeginRemove, Unlocked, Hold, LoadFails, file, evidence, startup,
      watcher, history, Fails, BelowCap
<1>23. CASE BeginReconcile
  BY <1>23
  DEF BeginReconcile, Unlocked, Hold, LoadFails, file, evidence, startup,
      watcher, sessions, history, Fails, BelowCap
<1>24. CASE SaveRow
  BY <1>24
  DEF SaveRow, Save, SaveFails, DropSession, file, evidence, startup, watcher,
      registry, sessions, count, Suffer, Fails, Release, BelowCap
<1>25. CASE Publish
  BY <1>25
  DEF Publish, Release, file, evidence, startup, watcher, history, count,
      BelowCap
<1>26. CASE SaveRemoval
  BY <1>26
  DEF SaveRemoval, Save, SaveFails, Release, file, evidence, startup, watcher,
      registry, sessions, count, Suffer, Fails, BelowCap
<1>27. CASE UNCHANGED vars
  BY <1>27
  DEF vars, file, evidence, startup, watcher, registry, sessions, history,
      count, BelowCap
<1> QED
  BY <1>1, <1>2, <1>3, <1>4, <1>5, <1>6, <1>7, <1>8, <1>9, <1>10,
     <1>11, <1>12, <1>13, <1>14, <1>15, <1>16, <1>17, <1>18, <1>19,
     <1>20, <1>21, <1>22, <1>23, <1>24, <1>25, <1>26, <1>27
  DEF Next, EvidenceStep, StartStep, WatchStep, RegistryStep, LockedStep

LEMMA VisiblePreserved == TypeOK /\ ShapeInv /\ VisibleInv /\ [Next]_vars => VisibleInv'
<1> SUFFICES ASSUME TypeOK, ShapeInv, VisibleInv, [Next]_vars
             PROVE  VisibleInv'
  OBVIOUS
<1> USE DEF VisibleInv
<1>1. CASE Repair
  BY <1>1
  DEF Repair, file, startup, watcher, registry, sessions, history, count
<1>2. CASE Rotate
  BY <1>2
  DEF Rotate, Suffer, Fails, file, startup, watcher, registry, sessions,
      history
<1>3. CASE RemoveRequest
  BY <1>3
  DEF RemoveRequest, file, startup, watcher, registry, sessions, history,
      count
<1>4. CASE Tear
  BY <1>4
  DEF Tear, Suffer, Fails, evidence, startup, watcher, registry, sessions,
      history
<1>5. ASSUME NEW b \in Build, Stage(b) PROVE VisibleInv'
  BY <1>5
  DEF Stage, file, startup, watcher, registry, sessions, history, count
<1>6. ASSUME NEW o \in Outcome, Answer(o) PROVE VisibleInv'
  BY <1>6
  DEF Answer, file, startup, watcher, registry, sessions, history, count
<1>7. CASE StartLoad
  BY <1>7
  DEF StartLoad, Start, file, evidence, watcher, registry, sessions, history
<1>8. CASE StartQuarantine
  BY <1>8
  DEF StartQuarantine, Fails, Start, file, evidence, watcher, registry,
      sessions, history
<1>9. CASE ReadRepairs
  BY <1>9
  DEF ReadRepairs, file, evidence, watcher, registry, sessions, history, count
<1>10. CASE RecordEvent
  BY <1>10
  DEF RecordEvent, Suffer, Fails, file, evidence, watcher, registry, sessions,
      history, count
<1>11. CASE IngestAtStart
  BY <1>11
  DEF IngestAtStart, file, evidence, watcher, registry, sessions, history,
      count
<1>12. CASE FoldAtStart
  BY <1>12
  DEF FoldAtStart, file, evidence, watcher, registry, sessions, history, count
<1>13. CASE SaveAtStart
  <2>1. live = {} /\ op = "none" /\ watch = "sleep"
    BY <1>13 DEF SaveAtStart, ShapeInv
  <2> QED
    BY <1>13, <2>1 DEF SaveAtStart, Suffer, Fails, file, evidence, watcher, registry, sessions, history, count
<1>14. CASE AppEnds
  BY <1>14
  DEF AppEnds, Idle, file, evidence, count
<1>15. CASE WatchLoad
  <2>1. Ingest(doc).rows = doc.rows
    BY IngestFacts DEF TypeOK
  <2> QED
    BY <1>15, <2>1 DEF WatchLoad, file, evidence, startup, registry, sessions, history, count
<1>16. CASE WatchSkip
  BY <1>16
  DEF WatchSkip, vars, file, evidence, startup, watcher, registry, sessions,
      history, count
<1>17. CASE WatchResult
  <2>1. Fold(wcopy).rows = wcopy.rows
    BY FoldFacts DEF TypeOK
  <2> QED
    BY <1>17, <2>1 DEF WatchResult, file, evidence, startup, watcher, registry, sessions, count
<1>18. CASE WatchSave
  BY <1>18
  DEF WatchSave, Save, SaveFails, file, evidence, startup, watcher, registry,
      sessions, count, Suffer, Fails
<1>19. CASE Open
  BY <1>19
  DEF Open, file, evidence, startup, watcher, history, count
<1>20. ASSUME NEW s \in opening, RefuseCreate(s) PROVE VisibleInv'
  BY <1>20
  DEF RefuseCreate, Unlocked, file, evidence, startup, watcher, history, count
<1>21. ASSUME NEW s \in opening, BeginCreate(s) PROVE VisibleInv'
  <2>1. /\ app = "serving" /\ op = "none" /\ who = {} /\ s \in Id
        /\ UNCHANGED <<file, evidence, events, startup, watcher, live, reconciled, history>>
    BY <1>21 DEF BeginCreate, Unlocked, sessions, TypeOK, ShapeInv
  <2>2. disk = "document" \/ (doc.rows = {} /\ doc.last = 0)
    BY InitialFacts DEF ShapeInv
  <2>3. CASE Hold("create", {s}, doc.rows \cup {s})
    <3>1. (doc.rows \cup {s}) \in SUBSET Id
      BY <2>1, DocFacts DEF TypeOK
    <3>2. /\ op' = "create" /\ who' = {s} /\ disk # "torn" /\ suffered' = suffered
          /\ rcopy'.rows = doc.rows \cup {s} /\ rcopy'.last = doc.last
          /\ rcopy'.rolled = doc.rolled /\ rcopy'.offset = doc.offset
      BY <2>3, <3>1, HoldFacts DEF TypeOK
    <3>3. disk = "document" \/ live = {}
      BY <3>2 DEF ShapeInv, TypeOK
    <3> QED
      BY <2>1, <2>2, <3>2, <3>3 DEF file, evidence, startup, watcher, history
  <2>4. CASE LoadFails
    <3>1. UNCHANGED <<op, who, rcopy>> /\ suffered \subseteq suffered'
      BY <2>4, LoadFailsFacts
    <3>2. disk = "torn" \/ suffered' # {}
      BY <2>4 DEF LoadFails, Fails
    <3> QED
      BY <2>1, <2>2, <3>1, <3>2 DEF file, evidence, startup, watcher, history
  <2> QED
    BY <1>21, <2>3, <2>4 DEF BeginCreate
<1>22. ASSUME NEW gone \in SUBSET live, BeginRemove(gone) PROVE VisibleInv'
  <2>1. /\ app = "serving" /\ op = "none" /\ who = {} /\ live' = live \ gone
        /\ UNCHANGED <<file, evidence, events, startup, watcher, reconciled, history>>
    BY <1>22 DEF BeginRemove, Unlocked, sessions, TypeOK, ShapeInv
  <2>2. disk = "document" \/ (doc.rows = {} /\ doc.last = 0)
    BY InitialFacts DEF ShapeInv
  <2>3. CASE Hold("remove", gone, doc.rows \ gone)
    <3>1. (doc.rows \ gone) \in SUBSET Id
      BY <2>1, DocFacts DEF TypeOK
    <3>2. /\ op' = "remove" /\ who' = gone /\ disk # "torn" /\ suffered' = suffered
          /\ rcopy'.rows = doc.rows \ gone /\ rcopy'.last = doc.last
          /\ rcopy'.rolled = doc.rolled /\ rcopy'.offset = doc.offset
      BY <2>3, <3>1, HoldFacts DEF TypeOK
    <3>3. disk = "document" \/ live = {}
      BY <3>2 DEF ShapeInv, TypeOK
    <3> QED
      BY <2>1, <2>2, <3>2, <3>3 DEF file, evidence, startup, watcher, history
  <2>4. CASE LoadFails
    <3>1. UNCHANGED <<op, who, rcopy>> /\ suffered \subseteq suffered'
      BY <2>4, LoadFailsFacts
    <3>2. disk = "torn" \/ suffered' # {}
      BY <2>4 DEF LoadFails, Fails
    <3> QED
      BY <2>1, <2>2, <3>1, <3>2 DEF file, evidence, startup, watcher, history
  <2> QED
    BY <1>22, <2>3, <2>4 DEF BeginRemove
<1>23. CASE BeginReconcile
  <2>1. /\ app = "serving" /\ op = "none" /\ who = {} /\ ~reconciled /\ reconciled' = TRUE
        /\ UNCHANGED <<file, evidence, events, startup, watcher, live, history>>
    BY <1>23 DEF BeginReconcile, Unlocked, sessions, TypeOK, ShapeInv
  <2>2. disk = "document" \/ (doc.rows = {} /\ doc.last = 0)
    BY InitialFacts DEF ShapeInv
  <2>3. CASE Hold("remove", doc.rows \ LiveRows, LiveRows)
    <3>1. (LiveRows) \in SUBSET Id
      BY <2>1, DocFacts DEF TypeOK, LiveRows
    <3>2. /\ op' = "remove" /\ who' = doc.rows \ LiveRows /\ disk # "torn" /\ suffered' = suffered
          /\ rcopy'.rows = LiveRows /\ rcopy'.last = doc.last
          /\ rcopy'.rolled = doc.rolled /\ rcopy'.offset = doc.offset
      BY <2>3, <3>1, HoldFacts DEF TypeOK
    <3>3. disk = "document" \/ live = {}
      BY <3>2 DEF ShapeInv, TypeOK
    <3> QED
      BY <2>1, <2>2, <3>2, <3>3 DEF file, evidence, startup, watcher, history, LiveRows
  <2>4. CASE LoadFails
    <3>1. UNCHANGED <<op, who, rcopy>> /\ suffered \subseteq suffered'
      BY <2>4, LoadFailsFacts
    <3>2. disk = "torn" \/ suffered' # {}
      BY <2>4 DEF LoadFails, Fails
    <3> QED
      BY <2>1, <2>2, <3>1, <3>2 DEF file, evidence, startup, watcher, history
  <2>5. CASE doc.rows = LiveRows /\ UNCHANGED <<op, who, rcopy, suffered>>
    BY <2>1, <2>5 DEF LiveRows, file, evidence, startup, watcher, history
  <2> QED
    BY <1>23, <2>3, <2>4, <2>5 DEF BeginReconcile
<1>24. CASE SaveRow
  BY <1>24
  DEF SaveRow, Save, SaveFails, DropSession, file, evidence, startup, watcher,
      registry, sessions, count, Suffer, Fails, Release
<1>25. CASE Publish
  BY <1>25
  DEF Publish, Release, file, evidence, startup, watcher, history, count
<1>26. CASE SaveRemoval
  BY <1>26
  DEF SaveRemoval, Save, SaveFails, Release, file, evidence, startup, watcher,
      registry, sessions, count, Suffer, Fails
<1>27. CASE UNCHANGED vars
  BY <1>27
  DEF vars, file, evidence, startup, watcher, registry, sessions, history,
      count
<1> QED
  BY <1>1, <1>2, <1>3, <1>4, <1>5, <1>6, <1>7, <1>8, <1>9, <1>10,
     <1>11, <1>12, <1>13, <1>14, <1>15, <1>16, <1>17, <1>18, <1>19,
     <1>20, <1>21, <1>22, <1>23, <1>24, <1>25, <1>26, <1>27
  DEF Next, EvidenceStep, StartStep, WatchStep, RegistryStep, LockedStep

LEMMA RowsPreserved == TypeOK /\ ShapeInv /\ RowsInv /\ [Next]_vars => RowsInv'
<1> SUFFICES ASSUME TypeOK, ShapeInv, RowsInv, [Next]_vars
             PROVE  RowsInv'
  OBVIOUS
<1> USE DEF RowsInv
<1>1. CASE Repair
  BY <1>1
  DEF Repair, file, startup, watcher, registry, sessions, history, count
<1>2. CASE Rotate
  BY <1>2
  DEF Rotate, Suffer, Fails, file, startup, watcher, registry, sessions,
      history
<1>3. CASE RemoveRequest
  BY <1>3
  DEF RemoveRequest, file, startup, watcher, registry, sessions, history,
      count
<1>4. CASE Tear
  BY <1>4
  DEF Tear, Suffer, Fails, evidence, startup, watcher, registry, sessions,
      history
<1>5. ASSUME NEW b \in Build, Stage(b) PROVE RowsInv'
  BY <1>5
  DEF Stage, file, startup, watcher, registry, sessions, history, count
<1>6. ASSUME NEW o \in Outcome, Answer(o) PROVE RowsInv'
  BY <1>6
  DEF Answer, file, startup, watcher, registry, sessions, history, count
<1>7. CASE StartLoad
  BY <1>7
  DEF StartLoad, Start, file, evidence, watcher, registry, sessions, history
<1>8. CASE StartQuarantine
  <2>1. ~reconciled /\ watch = "sleep" /\ op = "none"
    BY <1>8 DEF StartQuarantine, Start, ShapeInv
  <2> QED
    BY <1>8, <2>1 DEF StartQuarantine, Fails, Start, file, evidence, watcher, registry, sessions, history
<1>9. CASE ReadRepairs
  BY <1>9
  DEF ReadRepairs, file, evidence, watcher, registry, sessions, history, count
<1>10. CASE RecordEvent
  BY <1>10
  DEF RecordEvent, Suffer, Fails, file, evidence, watcher, registry, sessions,
      history, count
<1>11. CASE IngestAtStart
  BY <1>11
  DEF IngestAtStart, file, evidence, watcher, registry, sessions, history,
      count
<1>12. CASE FoldAtStart
  BY <1>12
  DEF FoldAtStart, file, evidence, watcher, registry, sessions, history, count
<1>13. CASE SaveAtStart
  <2>1. ~reconciled /\ live = {} /\ op = "none" /\ watch = "sleep"
    BY <1>13 DEF SaveAtStart, ShapeInv
  <2> QED
    BY <1>13, <2>1 DEF SaveAtStart, Suffer, Fails, file, evidence, watcher, registry, sessions, history, count
<1>14. CASE AppEnds
  BY <1>14
  DEF AppEnds, Idle, file, evidence, count
<1>15. CASE WatchLoad
  <2>1. Ingest(doc).rows = doc.rows
    BY IngestFacts DEF TypeOK
  <2> QED
    BY <1>15, <2>1 DEF WatchLoad, file, evidence, startup, registry, sessions, history, count
<1>16. CASE WatchSkip
  BY <1>16
  DEF WatchSkip, vars, file, evidence, startup, watcher, registry, sessions,
      history, count
<1>17. CASE WatchResult
  <2>1. Fold(wcopy).rows = wcopy.rows
    BY FoldFacts DEF TypeOK
  <2> QED
    BY <1>17, <2>1 DEF WatchResult, file, evidence, startup, watcher, registry, sessions, count
<1>18. CASE WatchSave
  BY <1>18
  DEF WatchSave, Save, SaveFails, file, evidence, startup, watcher, registry,
      sessions, count, Suffer, Fails
<1>19. CASE Open
  BY <1>19
  DEF Open, file, evidence, startup, watcher, history, count
<1>20. ASSUME NEW s \in opening, RefuseCreate(s) PROVE RowsInv'
  BY <1>20
  DEF RefuseCreate, Unlocked, file, evidence, startup, watcher, history, count
<1>21. ASSUME NEW s \in opening, BeginCreate(s) PROVE RowsInv'
  <2>1. /\ app = "serving" /\ op = "none" /\ who = {} /\ s \in Id
        /\ UNCHANGED <<file, evidence, events, startup, watcher, live, reconciled, history>>
    BY <1>21 DEF BeginCreate, Unlocked, sessions, TypeOK, ShapeInv
  <2>2. disk = "document" \/ (doc.rows = {} /\ doc.last = 0)
    BY InitialFacts DEF ShapeInv
  <2>3. CASE Hold("create", {s}, doc.rows \cup {s})
    <3>1. (doc.rows \cup {s}) \in SUBSET Id
      BY <2>1, DocFacts DEF TypeOK
    <3>2. /\ op' = "create" /\ who' = {s} /\ disk # "torn" /\ suffered' = suffered
          /\ rcopy'.rows = doc.rows \cup {s} /\ rcopy'.last = doc.last
          /\ rcopy'.rolled = doc.rolled /\ rcopy'.offset = doc.offset
      BY <2>3, <3>1, HoldFacts DEF TypeOK
    <3>3. disk = "document" \/ live = {}
      BY <3>2 DEF ShapeInv, TypeOK
    <3> QED
      BY <2>1, <2>2, <3>2, <3>3 DEF file, evidence, startup, watcher, history
  <2>4. CASE LoadFails
    <3>1. UNCHANGED <<op, who, rcopy>> /\ suffered \subseteq suffered'
      BY <2>4, LoadFailsFacts
    <3>2. disk = "torn" \/ suffered' # {}
      BY <2>4 DEF LoadFails, Fails
    <3> QED
      BY <2>1, <2>2, <3>1, <3>2 DEF file, evidence, startup, watcher, history
  <2> QED
    BY <1>21, <2>3, <2>4 DEF BeginCreate
<1>22. ASSUME NEW gone \in SUBSET live, BeginRemove(gone) PROVE RowsInv'
  <2>1. /\ app = "serving" /\ op = "none" /\ who = {} /\ live' = live \ gone
        /\ UNCHANGED <<file, evidence, events, startup, watcher, reconciled, history>>
    BY <1>22 DEF BeginRemove, Unlocked, sessions, TypeOK, ShapeInv
  <2>2. disk = "document" \/ (doc.rows = {} /\ doc.last = 0)
    BY InitialFacts DEF ShapeInv
  <2>3. CASE Hold("remove", gone, doc.rows \ gone)
    <3>1. (doc.rows \ gone) \in SUBSET Id
      BY <2>1, DocFacts DEF TypeOK
    <3>2. /\ op' = "remove" /\ who' = gone /\ disk # "torn" /\ suffered' = suffered
          /\ rcopy'.rows = doc.rows \ gone /\ rcopy'.last = doc.last
          /\ rcopy'.rolled = doc.rolled /\ rcopy'.offset = doc.offset
      BY <2>3, <3>1, HoldFacts DEF TypeOK
    <3>3. disk = "document" \/ live = {}
      BY <3>2 DEF ShapeInv, TypeOK
    <3> QED
      BY <2>1, <2>2, <3>2, <3>3 DEF file, evidence, startup, watcher, history
  <2>4. CASE LoadFails
    <3>1. UNCHANGED <<op, who, rcopy>> /\ suffered \subseteq suffered'
      BY <2>4, LoadFailsFacts
    <3>2. disk = "torn" \/ suffered' # {}
      BY <2>4 DEF LoadFails, Fails
    <3> QED
      BY <2>1, <2>2, <3>1, <3>2 DEF file, evidence, startup, watcher, history
  <2> QED
    BY <1>22, <2>3, <2>4 DEF BeginRemove
<1>23. CASE BeginReconcile
  <2>1. /\ app = "serving" /\ op = "none" /\ who = {} /\ ~reconciled /\ reconciled' = TRUE
        /\ UNCHANGED <<file, evidence, events, startup, watcher, live, history>>
    BY <1>23 DEF BeginReconcile, Unlocked, sessions, TypeOK, ShapeInv
  <2>2. disk = "document" \/ (doc.rows = {} /\ doc.last = 0)
    BY InitialFacts DEF ShapeInv
  <2>3. CASE Hold("remove", doc.rows \ LiveRows, LiveRows)
    <3>1. (LiveRows) \in SUBSET Id
      BY <2>1, DocFacts DEF TypeOK, LiveRows
    <3>2. /\ op' = "remove" /\ who' = doc.rows \ LiveRows /\ disk # "torn" /\ suffered' = suffered
          /\ rcopy'.rows = LiveRows /\ rcopy'.last = doc.last
          /\ rcopy'.rolled = doc.rolled /\ rcopy'.offset = doc.offset
      BY <2>3, <3>1, HoldFacts DEF TypeOK
    <3>3. disk = "document" \/ live = {}
      BY <3>2 DEF ShapeInv, TypeOK
    <3> QED
      BY <2>1, <2>2, <3>2, <3>3 DEF file, evidence, startup, watcher, history, LiveRows
  <2>4. CASE LoadFails
    <3>1. UNCHANGED <<op, who, rcopy>> /\ suffered \subseteq suffered'
      BY <2>4, LoadFailsFacts
    <3>2. disk = "torn" \/ suffered' # {}
      BY <2>4 DEF LoadFails, Fails
    <3> QED
      BY <2>1, <2>2, <3>1, <3>2 DEF file, evidence, startup, watcher, history
  <2>5. CASE doc.rows = LiveRows /\ UNCHANGED <<op, who, rcopy, suffered>>
    BY <2>1, <2>5 DEF LiveRows, file, evidence, startup, watcher, history
  <2> QED
    BY <1>23, <2>3, <2>4, <2>5 DEF BeginReconcile
<1>24. CASE SaveRow
  BY <1>24
  DEF SaveRow, Save, SaveFails, DropSession, file, evidence, startup, watcher,
      registry, sessions, count, Suffer, Fails, Release
<1>25. CASE Publish
  BY <1>25
  DEF Publish, Release, file, evidence, startup, watcher, history, count
<1>26. CASE SaveRemoval
  BY <1>26
  DEF SaveRemoval, Save, SaveFails, Release, file, evidence, startup, watcher,
      registry, sessions, count, Suffer, Fails
<1>27. CASE UNCHANGED vars
  BY <1>27
  DEF vars, file, evidence, startup, watcher, registry, sessions, history,
      count
<1> QED
  BY <1>1, <1>2, <1>3, <1>4, <1>5, <1>6, <1>7, <1>8, <1>9, <1>10,
     <1>11, <1>12, <1>13, <1>14, <1>15, <1>16, <1>17, <1>18, <1>19,
     <1>20, <1>21, <1>22, <1>23, <1>24, <1>25, <1>26, <1>27
  DEF Next, EvidenceStep, StartStep, WatchStep, RegistryStep, LockedStep

LEMMA EvidencePreserved == TypeOK /\ ShapeInv /\ EvidenceInv /\ [Next]_vars => EvidenceInv'
<1> SUFFICES ASSUME TypeOK, ShapeInv, EvidenceInv, [Next]_vars
             PROVE  EvidenceInv'
  OBVIOUS
<1> USE DEF EvidenceInv
<1>1. CASE Repair
  BY <1>1
  DEF Repair, file, startup, watcher, registry, sessions, history, count,
      Loaded, Intact
<1>2. CASE Rotate
  BY <1>2
  DEF Rotate, Suffer, Fails, file, startup, watcher, registry, sessions,
      history, Loaded, Intact
<1>3. CASE RemoveRequest
  BY <1>3
  DEF RemoveRequest, file, startup, watcher, registry, sessions, history,
      count, Loaded, Intact
<1>4. CASE Tear
  BY <1>4, InitialFacts, BoundAssumption
  DEF Tear, Suffer, Fails, evidence, startup, watcher, registry, sessions,
      history, Loaded, Intact
<1>5. ASSUME NEW b \in Build, Stage(b) PROVE EvidenceInv'
  BY <1>5
  DEF Stage, file, startup, watcher, registry, sessions, history, count,
      Loaded, Intact
<1>6. ASSUME NEW o \in Outcome, Answer(o) PROVE EvidenceInv'
  BY <1>6
  DEF Answer, file, startup, watcher, registry, sessions, history, count,
      Loaded, Intact
<1>7. CASE StartLoad
  <2>1. /\ Refreshed.last = doc.last /\ Refreshed.rolled = doc.rolled
    BY RefreshedFacts DEF TypeOK
  <2> QED
    BY <1>7, <2>1 DEF StartLoad, Start, file, evidence, watcher, registry, sessions, history, Loaded, Intact, Same, ShapeInv
<1>8. CASE StartQuarantine
  <2>1. ~Intact'
    BY <1>8 DEF StartQuarantine, Fails, Intact, ShapeInv
  <2>2. copy' = Initial /\ doc' \in {Initial, doc} /\ UNCHANGED <<wcopy, rcopy>>
    BY <1>8 DEF StartQuarantine, Start, file, watcher, registry
  <2> QED
    BY <2>1, <2>2, InitialFacts, BoundAssumption
<1>9. CASE ReadRepairs
  <2>1. copy'.last = copy.last /\ copy'.rolled = copy.rolled
    BY <1>9 DEF ReadRepairs, TypeOK, Doc
  <2> QED
    BY <1>9, <2>1 DEF ReadRepairs, file, evidence, watcher, registry, sessions, history, count, Loaded, Intact, Same
<1>10. CASE RecordEvent
  BY <1>10
  DEF RecordEvent, Suffer, Fails, file, evidence, watcher, registry, sessions,
      history, count, Loaded, Intact
<1>11. CASE IngestAtStart
  <2>1. copy'.last = copy.last /\ copy'.rolled = copy.rolled
    BY <1>11, IngestFacts DEF IngestAtStart, TypeOK
  <2> QED
    BY <1>11, <2>1 DEF IngestAtStart, file, evidence, watcher, registry, sessions, history, count, Loaded, Intact, Same
<1>12. CASE FoldAtStart
  <2>1. Len(Fold(copy).rolled) <= MaxRolled /\ Keeps(copy, Fold(copy))
    BY FoldFacts DEF TypeOK
  <2>2. Same(doc, copy) => Keeps(doc, Fold(copy))
    BY <2>1 DEF Same, Keeps
  <2> QED
    BY <1>12, <2>1, <2>2 DEF FoldAtStart, file, evidence, watcher, registry, sessions, history, count, Loaded, Intact
<1>13. CASE SaveAtStart
  BY <1>13, InitialFacts, BoundAssumption
  DEF SaveAtStart, Suffer, Fails, file, evidence, watcher, registry, sessions,
      history, count, Loaded, Intact, ShapeInv
<1>14. CASE AppEnds
  BY <1>14, InitialFacts, BoundAssumption
  DEF AppEnds, Idle, file, evidence, count, Loaded, Intact, ShapeInv
<1>15. CASE WatchLoad
  <2>1. wcopy'.last = doc.last /\ wcopy'.rolled = doc.rolled
    BY <1>15, IngestFacts DEF WatchLoad, TypeOK
  <2> QED
    BY <1>15, <2>1 DEF WatchLoad, file, evidence, startup, registry, sessions, history, count, Loaded, Intact, Same
<1>16. CASE WatchSkip
  BY <1>16
  DEF WatchSkip, vars, file, evidence, startup, watcher, registry, sessions,
      history, count, Loaded, Intact
<1>17. CASE WatchResult
  <2>1. Len(Fold(wcopy).rolled) <= MaxRolled /\ Keeps(wcopy, Fold(wcopy))
    BY FoldFacts DEF TypeOK
  <2>2. Same(doc, wcopy) => Keeps(doc, Fold(wcopy))
    BY <2>1 DEF Same, Keeps
  <2> QED
    BY <1>17, <2>1, <2>2, InitialFacts, BoundAssumption DEF WatchResult, file, evidence, startup, watcher, registry, sessions, count, Loaded, Intact
<1>18. CASE WatchSave
  <2>1. /\ watch = "save" /\ app = "serving" /\ watch' = "sleep" /\ wcopy' = Initial
        /\ UNCHANGED <<evidence, events, startup, registry>>
    BY <1>18 DEF WatchSave, Release, DropSession, ShapeInv
  <2>2. CASE Save("watcher", "registry", op \in {"create", "remove"}, wcopy) /\ UNCHANGED count
    <3>1. /\ disk' = "document" /\ doc' = wcopy
          /\ op \in {"create", "remove"} => "registry" \in stale'
      BY <2>2, Zenon DEF Save
    <3> QED
      BY <2>1, <2>2, <3>1, InitialFacts, BoundAssumption DEF evidence, startup, watcher, registry, sessions, count, Loaded, Intact
  <2>3. CASE SaveFails("watcher")
    <3>1. /\ UNCHANGED <<disk, doc, clobbered>> /\ suffered \subseteq suffered'
          /\ "write" \in suffered' /\ stale' = stale \ {"watcher"}
      BY <2>3 DEF SaveFails, Suffer, Fails, file
    <3> QED
      BY <2>1, <2>3, <3>1, InitialFacts, BoundAssumption DEF evidence, startup, watcher, registry, sessions, count, Loaded, Intact
  <2> QED
    BY <1>18, <2>2, <2>3, Zenon DEF WatchSave
<1>19. CASE Open
  BY <1>19
  DEF Open, file, evidence, startup, watcher, history, count, Loaded, Intact
<1>20. ASSUME NEW s \in opening, RefuseCreate(s) PROVE EvidenceInv'
  BY <1>20
  DEF RefuseCreate, Unlocked, file, evidence, startup, watcher, history,
      count, Loaded, Intact
<1>21. ASSUME NEW s \in opening, BeginCreate(s) PROVE EvidenceInv'
  <2>1. /\ app = "serving" /\ op = "none" /\ who = {} /\ s \in Id
        /\ UNCHANGED <<file, evidence, events, startup, watcher, live, reconciled, history>>
    BY <1>21 DEF BeginCreate, Unlocked, sessions, TypeOK, ShapeInv
  <2>2. disk = "document" \/ (doc.rows = {} /\ doc.last = 0)
    BY InitialFacts DEF ShapeInv
  <2>3. CASE Hold("create", {s}, doc.rows \cup {s})
    <3>1. (doc.rows \cup {s}) \in SUBSET Id
      BY <2>1, DocFacts DEF TypeOK
    <3>2. /\ op' = "create" /\ who' = {s} /\ disk # "torn" /\ suffered' = suffered
          /\ rcopy'.rows = doc.rows \cup {s} /\ rcopy'.last = doc.last
          /\ rcopy'.rolled = doc.rolled /\ rcopy'.offset = doc.offset
      BY <2>3, <3>1, HoldFacts DEF TypeOK
    <3>3. disk = "document" \/ live = {}
      BY <3>2 DEF ShapeInv, TypeOK
    <3> QED
      BY <2>1, <2>2, <3>2, <3>3 DEF file, evidence, startup, watcher, history, Loaded, Intact, Same
  <2>4. CASE LoadFails
    <3>1. UNCHANGED <<op, who, rcopy>> /\ suffered \subseteq suffered'
      BY <2>4, LoadFailsFacts
    <3>2. disk = "torn" \/ suffered' # {}
      BY <2>4 DEF LoadFails, Fails
    <3> QED
      BY <2>1, <2>2, <3>1, <3>2 DEF file, evidence, startup, watcher, history, Loaded, Intact, Same
  <2> QED
    BY <1>21, <2>3, <2>4 DEF BeginCreate
<1>22. ASSUME NEW gone \in SUBSET live, BeginRemove(gone) PROVE EvidenceInv'
  <2>1. /\ app = "serving" /\ op = "none" /\ who = {} /\ live' = live \ gone
        /\ UNCHANGED <<file, evidence, events, startup, watcher, reconciled, history>>
    BY <1>22 DEF BeginRemove, Unlocked, sessions, TypeOK, ShapeInv
  <2>2. disk = "document" \/ (doc.rows = {} /\ doc.last = 0)
    BY InitialFacts DEF ShapeInv
  <2>3. CASE Hold("remove", gone, doc.rows \ gone)
    <3>1. (doc.rows \ gone) \in SUBSET Id
      BY <2>1, DocFacts DEF TypeOK
    <3>2. /\ op' = "remove" /\ who' = gone /\ disk # "torn" /\ suffered' = suffered
          /\ rcopy'.rows = doc.rows \ gone /\ rcopy'.last = doc.last
          /\ rcopy'.rolled = doc.rolled /\ rcopy'.offset = doc.offset
      BY <2>3, <3>1, HoldFacts DEF TypeOK
    <3>3. disk = "document" \/ live = {}
      BY <3>2 DEF ShapeInv, TypeOK
    <3> QED
      BY <2>1, <2>2, <3>2, <3>3 DEF file, evidence, startup, watcher, history, Loaded, Intact, Same
  <2>4. CASE LoadFails
    <3>1. UNCHANGED <<op, who, rcopy>> /\ suffered \subseteq suffered'
      BY <2>4, LoadFailsFacts
    <3>2. disk = "torn" \/ suffered' # {}
      BY <2>4 DEF LoadFails, Fails
    <3> QED
      BY <2>1, <2>2, <3>1, <3>2 DEF file, evidence, startup, watcher, history, Loaded, Intact, Same
  <2> QED
    BY <1>22, <2>3, <2>4 DEF BeginRemove
<1>23. CASE BeginReconcile
  <2>1. /\ app = "serving" /\ op = "none" /\ who = {} /\ ~reconciled /\ reconciled' = TRUE
        /\ UNCHANGED <<file, evidence, events, startup, watcher, live, history>>
    BY <1>23 DEF BeginReconcile, Unlocked, sessions, TypeOK, ShapeInv
  <2>2. disk = "document" \/ (doc.rows = {} /\ doc.last = 0)
    BY InitialFacts DEF ShapeInv
  <2>3. CASE Hold("remove", doc.rows \ LiveRows, LiveRows)
    <3>1. (LiveRows) \in SUBSET Id
      BY <2>1, DocFacts DEF TypeOK, LiveRows
    <3>2. /\ op' = "remove" /\ who' = doc.rows \ LiveRows /\ disk # "torn" /\ suffered' = suffered
          /\ rcopy'.rows = LiveRows /\ rcopy'.last = doc.last
          /\ rcopy'.rolled = doc.rolled /\ rcopy'.offset = doc.offset
      BY <2>3, <3>1, HoldFacts DEF TypeOK
    <3>3. disk = "document" \/ live = {}
      BY <3>2 DEF ShapeInv, TypeOK
    <3> QED
      BY <2>1, <2>2, <3>2, <3>3 DEF file, evidence, startup, watcher, history, Loaded, Intact, Same, LiveRows
  <2>4. CASE LoadFails
    <3>1. UNCHANGED <<op, who, rcopy>> /\ suffered \subseteq suffered'
      BY <2>4, LoadFailsFacts
    <3>2. disk = "torn" \/ suffered' # {}
      BY <2>4 DEF LoadFails, Fails
    <3> QED
      BY <2>1, <2>2, <3>1, <3>2 DEF file, evidence, startup, watcher, history, Loaded, Intact, Same
  <2>5. CASE doc.rows = LiveRows /\ UNCHANGED <<op, who, rcopy, suffered>>
    BY <2>1, <2>5 DEF LiveRows, file, evidence, startup, watcher, history, Loaded, Intact, Same
  <2> QED
    BY <1>23, <2>3, <2>4, <2>5 DEF BeginReconcile
<1>24. CASE SaveRow
  <2>1. /\ op = "create" /\ app = "serving" /\ op' \in {"none", "publish"} /\ rcopy' = Initial
        /\ UNCHANGED <<evidence, events, startup, watcher, reconciled, live, next>>
    BY <1>24 DEF SaveRow, Release, DropSession, ShapeInv
  <2>2. CASE Save("registry", "watcher", watch # "sleep", rcopy) /\ op' = "publish" /\ UNCHANGED <<who, opening, count>>
    <3>1. /\ disk' = "document" /\ doc' = rcopy
          /\ watch # "sleep" => "watcher" \in stale'
      BY <2>2, Zenon DEF Save
    <3> QED
      BY <2>1, <2>2, <3>1, InitialFacts, BoundAssumption DEF evidence, startup, watcher, registry, sessions, count, Loaded, Intact
  <2>3. CASE SaveFails("registry") /\ DropSession
    <3>1. /\ UNCHANGED <<disk, doc, clobbered>> /\ suffered \subseteq suffered'
          /\ "write" \in suffered' /\ stale' = stale \ {"registry"}
      BY <2>3 DEF SaveFails, Suffer, Fails, file
    <3> QED
      BY <2>1, <2>3, <3>1, InitialFacts, BoundAssumption DEF evidence, startup, watcher, registry, sessions, count, Loaded, Intact
  <2> QED
    BY <1>24, <2>2, <2>3, Zenon DEF SaveRow
<1>25. CASE Publish
  BY <1>25, InitialFacts, BoundAssumption
  DEF Publish, Release, file, evidence, startup, watcher, history, count,
      Loaded, Intact
<1>26. CASE SaveRemoval
  <2>1. /\ op = "remove" /\ app = "serving" /\ op' = "none" /\ who' = {} /\ rcopy' = Initial
        /\ UNCHANGED <<evidence, events, startup, watcher, reconciled, sessions>>
    BY <1>26 DEF SaveRemoval, Release, DropSession, ShapeInv
  <2>2. CASE Save("registry", "watcher", watch # "sleep", rcopy) /\ UNCHANGED count
    <3>1. /\ disk' = "document" /\ doc' = rcopy
          /\ watch # "sleep" => "watcher" \in stale'
      BY <2>2, Zenon DEF Save
    <3> QED
      BY <2>1, <2>2, <3>1, InitialFacts, BoundAssumption DEF evidence, startup, watcher, registry, sessions, count, Loaded, Intact
  <2>3. CASE SaveFails("registry")
    <3>1. /\ UNCHANGED <<disk, doc, clobbered>> /\ suffered \subseteq suffered'
          /\ "write" \in suffered' /\ stale' = stale \ {"registry"}
      BY <2>3 DEF SaveFails, Suffer, Fails, file
    <3> QED
      BY <2>1, <2>3, <3>1, InitialFacts, BoundAssumption DEF evidence, startup, watcher, registry, sessions, count, Loaded, Intact
  <2> QED
    BY <1>26, <2>2, <2>3, Zenon DEF SaveRemoval
<1>27. CASE UNCHANGED vars
  BY <1>27
  DEF vars, file, evidence, startup, watcher, registry, sessions, history,
      count, Loaded, Intact
<1> QED
  BY <1>1, <1>2, <1>3, <1>4, <1>5, <1>6, <1>7, <1>8, <1>9, <1>10,
     <1>11, <1>12, <1>13, <1>14, <1>15, <1>16, <1>17, <1>18, <1>19,
     <1>20, <1>21, <1>22, <1>23, <1>24, <1>25, <1>26, <1>27
  DEF Next, EvidenceStep, StartStep, WatchStep, RegistryStep, LockedStep

LEMMA RepairPreserved == TypeOK /\ ShapeInv /\ RepairInv /\ [Next]_vars => RepairInv'
<1> SUFFICES ASSUME TypeOK, ShapeInv, RepairInv, [Next]_vars
             PROVE  RepairInv'
  OBVIOUS
<1> USE DEF RepairInv
<1>1. CASE Repair
  <2>1. \A n \in Nat : Recorded(n) => n <= written' /\ \A line \in 1..n : events'[line] > 0
    <3>1. written <= written' /\ written \in Nat /\ written' \in Nat /\ events' = events
      BY <1>1 DEF Repair, TypeOK
    <3> QED
      BY <3>1 DEF Recorded
  <2>2. /\ doc.offset \in Nat /\ wcopy.offset \in Nat /\ rcopy.offset \in Nat
        /\ watch = "sleep" /\ op = "none"
    BY <1>1, DocFacts DEF Repair, TypeOK, ShapeInv
  <2> QED
    BY <1>1, <2>1, <2>2 DEF Repair, file, startup, watcher, registry, sessions, history, count, Loaded, Recorded
<1>2. CASE Rotate
  <2>1. "rotate" \in suffered'
    BY <1>2 DEF Rotate, Suffer, Fails
  <2> QED
    BY <2>1
<1>3. CASE RemoveRequest
  BY <1>3
  DEF RemoveRequest, file, startup, watcher, registry, sessions, history,
      count, Loaded, Recorded
<1>4. CASE Tear
  BY <1>4, InitialFacts
  DEF Tear, Suffer, Fails, evidence, startup, watcher, registry, sessions,
      history, Loaded, Recorded, TypeOK
<1>5. ASSUME NEW b \in Build, Stage(b) PROVE RepairInv'
  BY <1>5
  DEF Stage, file, startup, watcher, registry, sessions, history, count,
      Loaded, Recorded
<1>6. ASSUME NEW o \in Outcome, Answer(o) PROVE RepairInv'
  BY <1>6
  DEF Answer, file, startup, watcher, registry, sessions, history, count,
      Loaded, Recorded
<1>7. CASE StartLoad
  <2>1. copy'.offset = doc.offset
    BY <1>7, RefreshedFacts DEF StartLoad, TypeOK
  <2> QED
    BY <1>7, <2>1 DEF StartLoad, Start, file, evidence, watcher, registry, sessions, history, Loaded, Recorded, ShapeInv
<1>8. CASE StartQuarantine
  <2>1. copy'.offset = 0 /\ doc'.offset \in {0, doc.offset} /\ suffered \subseteq suffered'
    BY <1>8, InitialFacts DEF StartQuarantine, Start, Fails, file
  <2>2. Recorded(0)
    BY DEF Recorded, TypeOK
  <2>3. /\ app' = "repairs" /\ watch = "sleep" /\ op = "none"
        /\ UNCHANGED <<evidence, events, watcher, registry>>
    BY <1>8 DEF StartQuarantine, Start, ShapeInv
  <2> QED
    BY <2>1, <2>2, <2>3 DEF evidence, watcher, registry, Loaded, Recorded
<1>9. CASE ReadRepairs
  <2>1. copy'.offset = LogLength
    BY <1>9 DEF ReadRepairs, TypeOK, Doc
  <2>2. UNCHANGED <<file, evidence, events, watcher, registry, history, count>> /\ app' = "events"
        /\ app = "repairs" /\ cursor' = Unread /\ upto' = written
    BY <1>9 DEF ReadRepairs, LastLine
  <2>3. ASSUME suffered \cap {"write", "rotate"} = {}
        PROVE  cursor' = copy.offset /\ copy'.offset = upto' /\ upto' = written
    BY <2>1, <2>2, <2>3, DocFacts DEF Unread, LogLength, Recorded, TypeOK
  <2> QED
    BY <2>2, <2>3, DocFacts DEF file, evidence, watcher, registry, count, Loaded, Recorded, TypeOK
<1>10. CASE RecordEvent
  <2>1. /\ app = "events" /\ cursor < upto /\ cursor' = cursor + 1
        /\ UNCHANGED <<file, evidence, app, copy, upto, watcher, registry, history>>
    BY <1>10 DEF RecordEvent
  <2>2. CASE events' = [events EXCEPT ![cursor + 1] = @ + 1] /\ UNCHANGED count
    <3>1. cursor + 1 \in 1..MaxRepairs /\ events \in [1..MaxRepairs -> Nat]
      BY <2>1, BoundAssumption DEF TypeOK
    <3>2. events'[cursor + 1] > 0
      BY <2>2, <3>1
    <3>3. \A line \in 1..MaxRepairs : events[line] > 0 => events'[line] > 0
      BY <2>2, <3>1
    <3>4. \A n \in Nat : Recorded(n) => \A line \in 1..n : events'[line] > 0
      BY <3>3, BoundAssumption DEF Recorded, TypeOK
    <3>5. Recorded(cursor) /\ upto <= written =>
             cursor' <= written /\ \A line \in 1..cursor' : events'[line] > 0
      <4>1. Recorded(cursor) => \A line \in 1..cursor : events'[line] > 0
        BY <3>4 DEF TypeOK
      <4>2. 1..cursor' = (1..cursor) \cup {cursor + 1}
        BY <2>1 DEF TypeOK
      <4> QED
        BY <2>1, <3>2, <4>1, <4>2 DEF TypeOK
    <3>6. /\ doc.offset \in Nat /\ wcopy.offset \in Nat /\ rcopy.offset \in Nat
          /\ watch = "sleep" /\ op = "none"
      BY <2>1, DocFacts DEF TypeOK, ShapeInv
    <3> QED
      BY <2>1, <2>2, <3>4, <3>5, <3>6
      DEF file, evidence, watcher, registry, count, Loaded, Recorded
  <2>3. CASE Suffer("write") /\ UNCHANGED events
    BY <2>3 DEF Suffer, Fails
  <2> QED
    BY <1>10, <2>2, <2>3 DEF RecordEvent
<1>11. CASE IngestAtStart
  <2>1. copy'.offset = copy.offset
    BY <1>11, IngestFacts DEF IngestAtStart, TypeOK
  <2> QED
    BY <1>11, <2>1 DEF IngestAtStart, file, evidence, watcher, registry, sessions, history, count, Loaded, Recorded
<1>12. CASE FoldAtStart
  <2>1. copy'.offset = copy.offset
    BY <1>12, FoldFacts DEF FoldAtStart, TypeOK
  <2> QED
    BY <1>12, <2>1 DEF FoldAtStart, file, evidence, watcher, registry, sessions, history, count, Loaded, Recorded
<1>13. CASE SaveAtStart
  <2>1. watch = "sleep" /\ op = "none"
    BY <1>13 DEF SaveAtStart, ShapeInv
  <2> QED
    BY <1>13, <2>1 DEF SaveAtStart, Suffer, Fails, file, evidence, watcher, registry, sessions, history, count, Loaded, Recorded
<1>14. CASE AppEnds
  BY <1>14, InitialFacts
  DEF AppEnds, Idle, file, evidence, count, Loaded, Recorded
<1>15. CASE WatchLoad
  <2>1. wcopy'.offset = doc.offset
    BY <1>15, IngestFacts DEF WatchLoad, TypeOK
  <2> QED
    BY <1>15, <2>1 DEF WatchLoad, file, evidence, startup, registry, sessions, history, count, Loaded, Recorded
<1>16. CASE WatchSkip
  BY <1>16
  DEF WatchSkip, vars, file, evidence, startup, watcher, registry, sessions,
      history, count, Loaded, Recorded
<1>17. CASE WatchResult
  <2>1. Fold(wcopy).offset = wcopy.offset
    BY FoldFacts DEF TypeOK
  <2> QED
    BY <1>17, <2>1 DEF WatchResult, file, evidence, startup, watcher, registry, sessions, count, Loaded, Recorded
<1>18. CASE WatchSave
  <2>1. /\ watch = "save" /\ app = "serving" /\ watch' = "sleep" /\ wcopy' = Initial
        /\ UNCHANGED <<evidence, events, startup, registry>>
    BY <1>18 DEF WatchSave, Release, DropSession, ShapeInv
  <2>2. CASE Save("watcher", "registry", op \in {"create", "remove"}, wcopy) /\ UNCHANGED count
    <3>1. /\ disk' = "document" /\ doc' = wcopy
          /\ op \in {"create", "remove"} => "registry" \in stale'
      BY <2>2, Zenon DEF Save
    <3> QED
      BY <2>1, <2>2, <3>1, InitialFacts, BoundAssumption DEF evidence, startup, watcher, registry, sessions, count, Loaded, Recorded
  <2>3. CASE SaveFails("watcher")
    <3>1. /\ UNCHANGED <<disk, doc, clobbered>> /\ suffered \subseteq suffered'
          /\ "write" \in suffered' /\ stale' = stale \ {"watcher"}
      BY <2>3 DEF SaveFails, Suffer, Fails, file
    <3> QED
      BY <2>1, <2>3, <3>1, InitialFacts, BoundAssumption DEF evidence, startup, watcher, registry, sessions, count, Loaded, Recorded
  <2> QED
    BY <1>18, <2>2, <2>3, Zenon DEF WatchSave
<1>19. CASE Open
  BY <1>19
  DEF Open, file, evidence, startup, watcher, history, count, Loaded, Recorded
<1>20. ASSUME NEW s \in opening, RefuseCreate(s) PROVE RepairInv'
  BY <1>20
  DEF RefuseCreate, Unlocked, file, evidence, startup, watcher, history,
      count, Loaded, Recorded
<1>21. ASSUME NEW s \in opening, BeginCreate(s) PROVE RepairInv'
  <2>1. /\ app = "serving" /\ op = "none" /\ who = {} /\ s \in Id
        /\ UNCHANGED <<file, evidence, events, startup, watcher, live, reconciled, history>>
    BY <1>21 DEF BeginCreate, Unlocked, sessions, TypeOK, ShapeInv
  <2>2. disk = "document" \/ (doc.rows = {} /\ doc.last = 0)
    BY InitialFacts DEF ShapeInv
  <2>3. CASE Hold("create", {s}, doc.rows \cup {s})
    <3>1. (doc.rows \cup {s}) \in SUBSET Id
      BY <2>1, DocFacts DEF TypeOK
    <3>2. /\ op' = "create" /\ who' = {s} /\ disk # "torn" /\ suffered' = suffered
          /\ rcopy'.rows = doc.rows \cup {s} /\ rcopy'.last = doc.last
          /\ rcopy'.rolled = doc.rolled /\ rcopy'.offset = doc.offset
      BY <2>3, <3>1, HoldFacts DEF TypeOK
    <3>3. disk = "document" \/ live = {}
      BY <3>2 DEF ShapeInv, TypeOK
    <3> QED
      BY <2>1, <2>2, <3>2, <3>3 DEF file, evidence, startup, watcher, history, Loaded, Recorded
  <2>4. CASE LoadFails
    <3>1. UNCHANGED <<op, who, rcopy>> /\ suffered \subseteq suffered'
      BY <2>4, LoadFailsFacts
    <3>2. disk = "torn" \/ suffered' # {}
      BY <2>4 DEF LoadFails, Fails
    <3> QED
      BY <2>1, <2>2, <3>1, <3>2 DEF file, evidence, startup, watcher, history, Loaded, Recorded
  <2> QED
    BY <1>21, <2>3, <2>4 DEF BeginCreate
<1>22. ASSUME NEW gone \in SUBSET live, BeginRemove(gone) PROVE RepairInv'
  <2>1. /\ app = "serving" /\ op = "none" /\ who = {} /\ live' = live \ gone
        /\ UNCHANGED <<file, evidence, events, startup, watcher, reconciled, history>>
    BY <1>22 DEF BeginRemove, Unlocked, sessions, TypeOK, ShapeInv
  <2>2. disk = "document" \/ (doc.rows = {} /\ doc.last = 0)
    BY InitialFacts DEF ShapeInv
  <2>3. CASE Hold("remove", gone, doc.rows \ gone)
    <3>1. (doc.rows \ gone) \in SUBSET Id
      BY <2>1, DocFacts DEF TypeOK
    <3>2. /\ op' = "remove" /\ who' = gone /\ disk # "torn" /\ suffered' = suffered
          /\ rcopy'.rows = doc.rows \ gone /\ rcopy'.last = doc.last
          /\ rcopy'.rolled = doc.rolled /\ rcopy'.offset = doc.offset
      BY <2>3, <3>1, HoldFacts DEF TypeOK
    <3>3. disk = "document" \/ live = {}
      BY <3>2 DEF ShapeInv, TypeOK
    <3> QED
      BY <2>1, <2>2, <3>2, <3>3 DEF file, evidence, startup, watcher, history, Loaded, Recorded
  <2>4. CASE LoadFails
    <3>1. UNCHANGED <<op, who, rcopy>> /\ suffered \subseteq suffered'
      BY <2>4, LoadFailsFacts
    <3>2. disk = "torn" \/ suffered' # {}
      BY <2>4 DEF LoadFails, Fails
    <3> QED
      BY <2>1, <2>2, <3>1, <3>2 DEF file, evidence, startup, watcher, history, Loaded, Recorded
  <2> QED
    BY <1>22, <2>3, <2>4 DEF BeginRemove
<1>23. CASE BeginReconcile
  <2>1. /\ app = "serving" /\ op = "none" /\ who = {} /\ ~reconciled /\ reconciled' = TRUE
        /\ UNCHANGED <<file, evidence, events, startup, watcher, live, history>>
    BY <1>23 DEF BeginReconcile, Unlocked, sessions, TypeOK, ShapeInv
  <2>2. disk = "document" \/ (doc.rows = {} /\ doc.last = 0)
    BY InitialFacts DEF ShapeInv
  <2>3. CASE Hold("remove", doc.rows \ LiveRows, LiveRows)
    <3>1. (LiveRows) \in SUBSET Id
      BY <2>1, DocFacts DEF TypeOK, LiveRows
    <3>2. /\ op' = "remove" /\ who' = doc.rows \ LiveRows /\ disk # "torn" /\ suffered' = suffered
          /\ rcopy'.rows = LiveRows /\ rcopy'.last = doc.last
          /\ rcopy'.rolled = doc.rolled /\ rcopy'.offset = doc.offset
      BY <2>3, <3>1, HoldFacts DEF TypeOK
    <3>3. disk = "document" \/ live = {}
      BY <3>2 DEF ShapeInv, TypeOK
    <3> QED
      BY <2>1, <2>2, <3>2, <3>3 DEF file, evidence, startup, watcher, history, Loaded, Recorded, LiveRows
  <2>4. CASE LoadFails
    <3>1. UNCHANGED <<op, who, rcopy>> /\ suffered \subseteq suffered'
      BY <2>4, LoadFailsFacts
    <3>2. disk = "torn" \/ suffered' # {}
      BY <2>4 DEF LoadFails, Fails
    <3> QED
      BY <2>1, <2>2, <3>1, <3>2 DEF file, evidence, startup, watcher, history, Loaded, Recorded
  <2>5. CASE doc.rows = LiveRows /\ UNCHANGED <<op, who, rcopy, suffered>>
    BY <2>1, <2>5 DEF LiveRows, file, evidence, startup, watcher, history, Loaded, Recorded
  <2> QED
    BY <1>23, <2>3, <2>4, <2>5 DEF BeginReconcile
<1>24. CASE SaveRow
  <2>1. /\ op = "create" /\ app = "serving" /\ op' \in {"none", "publish"} /\ rcopy' = Initial
        /\ UNCHANGED <<evidence, events, startup, watcher, reconciled, live, next>>
    BY <1>24 DEF SaveRow, Release, DropSession, ShapeInv
  <2>2. CASE Save("registry", "watcher", watch # "sleep", rcopy) /\ op' = "publish" /\ UNCHANGED <<who, opening, count>>
    <3>1. /\ disk' = "document" /\ doc' = rcopy
          /\ watch # "sleep" => "watcher" \in stale'
      BY <2>2, Zenon DEF Save
    <3> QED
      BY <2>1, <2>2, <3>1, InitialFacts, BoundAssumption DEF evidence, startup, watcher, registry, sessions, count, Loaded, Recorded
  <2>3. CASE SaveFails("registry") /\ DropSession
    <3>1. /\ UNCHANGED <<disk, doc, clobbered>> /\ suffered \subseteq suffered'
          /\ "write" \in suffered' /\ stale' = stale \ {"registry"}
      BY <2>3 DEF SaveFails, Suffer, Fails, file
    <3> QED
      BY <2>1, <2>3, <3>1, InitialFacts, BoundAssumption DEF evidence, startup, watcher, registry, sessions, count, Loaded, Recorded
  <2> QED
    BY <1>24, <2>2, <2>3, Zenon DEF SaveRow
<1>25. CASE Publish
  BY <1>25
  DEF Publish, Release, file, evidence, startup, watcher, history, count,
      Loaded, Recorded
<1>26. CASE SaveRemoval
  <2>1. /\ op = "remove" /\ app = "serving" /\ op' = "none" /\ who' = {} /\ rcopy' = Initial
        /\ UNCHANGED <<evidence, events, startup, watcher, reconciled, sessions>>
    BY <1>26 DEF SaveRemoval, Release, DropSession, ShapeInv
  <2>2. CASE Save("registry", "watcher", watch # "sleep", rcopy) /\ UNCHANGED count
    <3>1. /\ disk' = "document" /\ doc' = rcopy
          /\ watch # "sleep" => "watcher" \in stale'
      BY <2>2, Zenon DEF Save
    <3> QED
      BY <2>1, <2>2, <3>1, InitialFacts, BoundAssumption DEF evidence, startup, watcher, registry, sessions, count, Loaded, Recorded
  <2>3. CASE SaveFails("registry")
    <3>1. /\ UNCHANGED <<disk, doc, clobbered>> /\ suffered \subseteq suffered'
          /\ "write" \in suffered' /\ stale' = stale \ {"registry"}
      BY <2>3 DEF SaveFails, Suffer, Fails, file
    <3> QED
      BY <2>1, <2>3, <3>1, InitialFacts, BoundAssumption DEF evidence, startup, watcher, registry, sessions, count, Loaded, Recorded
  <2> QED
    BY <1>26, <2>2, <2>3, Zenon DEF SaveRemoval
<1>27. CASE UNCHANGED vars
  BY <1>27
  DEF vars, file, evidence, startup, watcher, registry, sessions, history,
      count, Loaded, Recorded
<1> QED
  BY <1>1, <1>2, <1>3, <1>4, <1>5, <1>6, <1>7, <1>8, <1>9, <1>10,
     <1>11, <1>12, <1>13, <1>14, <1>15, <1>16, <1>17, <1>18, <1>19,
     <1>20, <1>21, <1>22, <1>23, <1>24, <1>25, <1>26, <1>27
  DEF Next, EvidenceStep, StartStep, WatchStep, RegistryStep, LockedStep

LEMMA VerdictPreserved == TypeOK /\ ShapeInv /\ VerdictInv /\ [Next]_vars => VerdictInv'
<1> SUFFICES ASSUME TypeOK, ShapeInv, VerdictInv, [Next]_vars
             PROVE  VerdictInv'
  OBVIOUS
<1> USE DEF VerdictInv
<1>1. CASE Repair
  BY <1>1
  DEF Repair, file, startup, watcher, registry, sessions, history, count,
      Loaded, Says
<1>2. CASE Rotate
  BY <1>2
  DEF Rotate, Suffer, Fails, file, startup, watcher, registry, sessions,
      history, Loaded, Says
<1>3. CASE RemoveRequest
  BY <1>3
  DEF RemoveRequest, file, startup, watcher, registry, sessions, history,
      count, Loaded, Says
<1>4. CASE Tear
  BY <1>4 DEF Tear, Suffer, Fails, evidence, startup, watcher, registry, sessions, history
<1>5. ASSUME NEW b \in Build, Stage(b) PROVE VerdictInv'
  BY <1>5
  DEF Stage, file, startup, watcher, registry, sessions, history, count,
      Loaded, Says
<1>6. ASSUME NEW o \in Outcome, Answer(o) PROVE VerdictInv'
  BY <1>6
  DEF Answer, file, startup, watcher, registry, sessions, history, count,
      Loaded, Says
<1>7. CASE StartLoad
  <2>1. copy'.last = doc.last /\ doc.last \in Nat
    BY <1>7, RefreshedFacts, DocFacts DEF StartLoad, TypeOK
  <2> QED
    BY <1>7, <2>1 DEF StartLoad, Start, file, evidence, watcher, registry, sessions, history, Loaded, Says, ShapeInv
<1>8. CASE StartQuarantine
  <2>1. /\ app' = "repairs" /\ watch = "sleep" /\ op = "none" /\ copy'.last = 0
        /\ UNCHANGED <<watcher, registry, history>>
    BY <1>8, InitialFacts DEF StartQuarantine, Start, ShapeInv
  <2>2. doc'.last \in {0, doc.last} /\ doc.last \in Nat
    BY <1>8, InitialFacts, DocFacts DEF StartQuarantine, file, TypeOK
  <2> QED
    BY <2>1, <2>2 DEF watcher, registry, history, Loaded
<1>9. CASE ReadRepairs
  <2>1. copy'.last = copy.last
    BY <1>9 DEF ReadRepairs, TypeOK, Doc
  <2> QED
    BY <1>9, <2>1 DEF ReadRepairs, file, evidence, watcher, registry, sessions, history, count, Loaded, Says
<1>10. CASE RecordEvent
  BY <1>10
  DEF RecordEvent, Suffer, Fails, file, evidence, watcher, registry, sessions,
      history, count, Loaded, Says
<1>11. CASE IngestAtStart
  <2>1. copy'.last = copy.last /\ doc.last \in Nat
    BY <1>11, IngestFacts, DocFacts DEF IngestAtStart, TypeOK
  <2> QED
    BY <1>11, <2>1 DEF IngestAtStart, file, evidence, watcher, registry, sessions, history, count, Loaded, Says
<1>12. CASE FoldAtStart
  <2>1. Fold(copy).last > copy.last => Fold(copy).verdict = Fold(copy).outcome
    BY FoldFacts DEF TypeOK
  <2>2. Fold(copy) \in Doc
    BY FoldFacts DEF TypeOK
  <2>3. copy.last \in Nat /\ doc.last \in Nat /\ Fold(copy).last \in Nat
    BY <2>2, DocFacts DEF TypeOK
  <2>4. copy.last <= doc.last => Says(Fold(copy))
    BY <2>1, <2>3 DEF Says
  <2> QED
    BY <1>12, <2>4 DEF FoldAtStart, file, evidence, watcher, registry, sessions, history, count, Loaded, Says
<1>13. CASE SaveAtStart
  <2>1. watch = "sleep" /\ op = "none"
    BY <1>13 DEF SaveAtStart, ShapeInv
  <2> QED
    BY <1>13, <2>1 DEF SaveAtStart, Suffer, Fails, file, evidence, watcher, registry, sessions, history, count, Loaded, Says
<1>14. CASE AppEnds
  BY <1>14
  DEF AppEnds, Idle, file, evidence, count, Loaded, Says
<1>15. CASE WatchLoad
  <2>1. wcopy'.last = doc.last /\ doc.last \in Nat
    BY <1>15, IngestFacts, DocFacts DEF WatchLoad, TypeOK
  <2> QED
    BY <1>15, <2>1 DEF WatchLoad, file, evidence, startup, registry, sessions, history, count, Loaded, Says
<1>16. CASE WatchSkip
  BY <1>16
  DEF WatchSkip, vars, file, evidence, startup, watcher, registry, sessions,
      history, count, Loaded, Says
<1>17. CASE WatchResult
  <2>1. Fold(wcopy).last > wcopy.last => Fold(wcopy).verdict = Fold(wcopy).outcome
    BY FoldFacts DEF TypeOK
  <2>2. Fold(wcopy) \in Doc
    BY FoldFacts DEF TypeOK
  <2>3. wcopy.last \in Nat /\ doc.last \in Nat /\ Fold(wcopy).last \in Nat
    BY <2>2, DocFacts DEF TypeOK
  <2>4. wcopy.last <= doc.last => Says(Fold(wcopy))
    BY <2>1, <2>3 DEF Says
  <2> QED
    BY <1>17, <2>4 DEF WatchResult, file, evidence, startup, watcher, registry, sessions, count, Loaded, Says
<1>18. CASE WatchSave
  <2>1. /\ watch = "save" /\ app = "serving" /\ watch' = "sleep" /\ wcopy' = Initial
        /\ UNCHANGED <<evidence, events, startup, registry>>
    BY <1>18 DEF WatchSave, Release, DropSession, ShapeInv
  <2>2. CASE Save("watcher", "registry", op \in {"create", "remove"}, wcopy) /\ UNCHANGED count
    <3>1. /\ disk' = "document" /\ doc' = wcopy
          /\ op \in {"create", "remove"} => "registry" \in stale'
      BY <2>2, Zenon DEF Save
    <3> QED
      BY <2>1, <2>2, <3>1, InitialFacts, BoundAssumption DEF evidence, startup, watcher, registry, sessions, count, Loaded, Says
  <2>3. CASE SaveFails("watcher")
    <3>1. /\ UNCHANGED <<disk, doc, clobbered>> /\ suffered \subseteq suffered'
          /\ "write" \in suffered' /\ stale' = stale \ {"watcher"}
      BY <2>3 DEF SaveFails, Suffer, Fails, file
    <3> QED
      BY <2>1, <2>3, <3>1, InitialFacts, BoundAssumption DEF evidence, startup, watcher, registry, sessions, count, Loaded, Says
  <2> QED
    BY <1>18, <2>2, <2>3, Zenon DEF WatchSave
<1>19. CASE Open
  BY <1>19
  DEF Open, file, evidence, startup, watcher, history, count, Loaded, Says
<1>20. ASSUME NEW s \in opening, RefuseCreate(s) PROVE VerdictInv'
  BY <1>20
  DEF RefuseCreate, Unlocked, file, evidence, startup, watcher, history,
      count, Loaded, Says
<1>21. ASSUME NEW s \in opening, BeginCreate(s) PROVE VerdictInv'
  <2>1. /\ app = "serving" /\ op = "none" /\ who = {} /\ s \in Id
        /\ UNCHANGED <<file, evidence, events, startup, watcher, live, reconciled, history>>
    BY <1>21 DEF BeginCreate, Unlocked, sessions, TypeOK, ShapeInv
  <2>0. doc.last \in Nat
    BY DocFacts DEF TypeOK
  <2>2. disk = "document" \/ (doc.rows = {} /\ doc.last = 0)
    BY InitialFacts DEF ShapeInv
  <2>3. CASE Hold("create", {s}, doc.rows \cup {s})
    <3>1. (doc.rows \cup {s}) \in SUBSET Id
      BY <2>1, DocFacts DEF TypeOK
    <3>2. /\ op' = "create" /\ who' = {s} /\ disk # "torn" /\ suffered' = suffered
          /\ rcopy'.rows = doc.rows \cup {s} /\ rcopy'.last = doc.last
          /\ rcopy'.rolled = doc.rolled /\ rcopy'.offset = doc.offset
      BY <2>3, <3>1, HoldFacts DEF TypeOK
    <3>3. disk = "document" \/ live = {}
      BY <3>2 DEF ShapeInv, TypeOK
    <3> QED
      BY <2>1, <2>2, <3>2, <3>3, <2>0 DEF file, evidence, startup, watcher, history, Loaded, Says
  <2>4. CASE LoadFails
    <3>1. UNCHANGED <<op, who, rcopy>> /\ suffered \subseteq suffered'
      BY <2>4, LoadFailsFacts
    <3>2. disk = "torn" \/ suffered' # {}
      BY <2>4 DEF LoadFails, Fails
    <3> QED
      BY <2>1, <2>2, <3>1, <3>2 DEF file, evidence, startup, watcher, history, Loaded, Says
  <2> QED
    BY <1>21, <2>3, <2>4 DEF BeginCreate
<1>22. ASSUME NEW gone \in SUBSET live, BeginRemove(gone) PROVE VerdictInv'
  <2>1. /\ app = "serving" /\ op = "none" /\ who = {} /\ live' = live \ gone
        /\ UNCHANGED <<file, evidence, events, startup, watcher, reconciled, history>>
    BY <1>22 DEF BeginRemove, Unlocked, sessions, TypeOK, ShapeInv
  <2>0. doc.last \in Nat
    BY DocFacts DEF TypeOK
  <2>2. disk = "document" \/ (doc.rows = {} /\ doc.last = 0)
    BY InitialFacts DEF ShapeInv
  <2>3. CASE Hold("remove", gone, doc.rows \ gone)
    <3>1. (doc.rows \ gone) \in SUBSET Id
      BY <2>1, DocFacts DEF TypeOK
    <3>2. /\ op' = "remove" /\ who' = gone /\ disk # "torn" /\ suffered' = suffered
          /\ rcopy'.rows = doc.rows \ gone /\ rcopy'.last = doc.last
          /\ rcopy'.rolled = doc.rolled /\ rcopy'.offset = doc.offset
      BY <2>3, <3>1, HoldFacts DEF TypeOK
    <3>3. disk = "document" \/ live = {}
      BY <3>2 DEF ShapeInv, TypeOK
    <3> QED
      BY <2>1, <2>2, <3>2, <3>3, <2>0 DEF file, evidence, startup, watcher, history, Loaded, Says
  <2>4. CASE LoadFails
    <3>1. UNCHANGED <<op, who, rcopy>> /\ suffered \subseteq suffered'
      BY <2>4, LoadFailsFacts
    <3>2. disk = "torn" \/ suffered' # {}
      BY <2>4 DEF LoadFails, Fails
    <3> QED
      BY <2>1, <2>2, <3>1, <3>2 DEF file, evidence, startup, watcher, history, Loaded, Says
  <2> QED
    BY <1>22, <2>3, <2>4 DEF BeginRemove
<1>23. CASE BeginReconcile
  <2>1. /\ app = "serving" /\ op = "none" /\ who = {} /\ ~reconciled /\ reconciled' = TRUE
        /\ UNCHANGED <<file, evidence, events, startup, watcher, live, history>>
    BY <1>23 DEF BeginReconcile, Unlocked, sessions, TypeOK, ShapeInv
  <2>0. doc.last \in Nat
    BY DocFacts DEF TypeOK
  <2>2. disk = "document" \/ (doc.rows = {} /\ doc.last = 0)
    BY InitialFacts DEF ShapeInv
  <2>3. CASE Hold("remove", doc.rows \ LiveRows, LiveRows)
    <3>1. (LiveRows) \in SUBSET Id
      BY <2>1, DocFacts DEF TypeOK, LiveRows
    <3>2. /\ op' = "remove" /\ who' = doc.rows \ LiveRows /\ disk # "torn" /\ suffered' = suffered
          /\ rcopy'.rows = LiveRows /\ rcopy'.last = doc.last
          /\ rcopy'.rolled = doc.rolled /\ rcopy'.offset = doc.offset
      BY <2>3, <3>1, HoldFacts DEF TypeOK
    <3>3. disk = "document" \/ live = {}
      BY <3>2 DEF ShapeInv, TypeOK
    <3> QED
      BY <2>1, <2>2, <3>2, <3>3, <2>0 DEF file, evidence, startup, watcher, history, Loaded, Says, LiveRows
  <2>4. CASE LoadFails
    <3>1. UNCHANGED <<op, who, rcopy>> /\ suffered \subseteq suffered'
      BY <2>4, LoadFailsFacts
    <3>2. disk = "torn" \/ suffered' # {}
      BY <2>4 DEF LoadFails, Fails
    <3> QED
      BY <2>1, <2>2, <3>1, <3>2 DEF file, evidence, startup, watcher, history, Loaded, Says
  <2>5. CASE doc.rows = LiveRows /\ UNCHANGED <<op, who, rcopy, suffered>>
    BY <2>1, <2>5 DEF LiveRows, file, evidence, startup, watcher, history, Loaded, Says
  <2> QED
    BY <1>23, <2>3, <2>4, <2>5 DEF BeginReconcile
<1>24. CASE SaveRow
  <2>1. /\ op = "create" /\ app = "serving" /\ op' \in {"none", "publish"} /\ rcopy' = Initial
        /\ UNCHANGED <<evidence, events, startup, watcher, reconciled, live, next>>
    BY <1>24 DEF SaveRow, Release, DropSession, ShapeInv
  <2>2. CASE Save("registry", "watcher", watch # "sleep", rcopy) /\ op' = "publish" /\ UNCHANGED <<who, opening, count>>
    <3>1. /\ disk' = "document" /\ doc' = rcopy
          /\ watch # "sleep" => "watcher" \in stale'
      BY <2>2, Zenon DEF Save
    <3> QED
      BY <2>1, <2>2, <3>1, InitialFacts, BoundAssumption DEF evidence, startup, watcher, registry, sessions, count, Loaded, Says
  <2>3. CASE SaveFails("registry") /\ DropSession
    <3>1. /\ UNCHANGED <<disk, doc, clobbered>> /\ suffered \subseteq suffered'
          /\ "write" \in suffered' /\ stale' = stale \ {"registry"}
      BY <2>3 DEF SaveFails, Suffer, Fails, file
    <3> QED
      BY <2>1, <2>3, <3>1, InitialFacts, BoundAssumption DEF evidence, startup, watcher, registry, sessions, count, Loaded, Says
  <2> QED
    BY <1>24, <2>2, <2>3, Zenon DEF SaveRow
<1>25. CASE Publish
  BY <1>25
  DEF Publish, Release, file, evidence, startup, watcher, history, count,
      Loaded, Says
<1>26. CASE SaveRemoval
  <2>1. /\ op = "remove" /\ app = "serving" /\ op' = "none" /\ who' = {} /\ rcopy' = Initial
        /\ UNCHANGED <<evidence, events, startup, watcher, reconciled, sessions>>
    BY <1>26 DEF SaveRemoval, Release, DropSession, ShapeInv
  <2>2. CASE Save("registry", "watcher", watch # "sleep", rcopy) /\ UNCHANGED count
    <3>1. /\ disk' = "document" /\ doc' = rcopy
          /\ watch # "sleep" => "watcher" \in stale'
      BY <2>2, Zenon DEF Save
    <3> QED
      BY <2>1, <2>2, <3>1, InitialFacts, BoundAssumption DEF evidence, startup, watcher, registry, sessions, count, Loaded, Says
  <2>3. CASE SaveFails("registry")
    <3>1. /\ UNCHANGED <<disk, doc, clobbered>> /\ suffered \subseteq suffered'
          /\ "write" \in suffered' /\ stale' = stale \ {"registry"}
      BY <2>3 DEF SaveFails, Suffer, Fails, file
    <3> QED
      BY <2>1, <2>3, <3>1, InitialFacts, BoundAssumption DEF evidence, startup, watcher, registry, sessions, count, Loaded, Says
  <2> QED
    BY <1>26, <2>2, <2>3, Zenon DEF SaveRemoval
<1>27. CASE UNCHANGED vars
  BY <1>27
  DEF vars, file, evidence, startup, watcher, registry, sessions, history,
      count, Loaded, Says
<1> QED
  BY <1>1, <1>2, <1>3, <1>4, <1>5, <1>6, <1>7, <1>8, <1>9, <1>10,
     <1>11, <1>12, <1>13, <1>14, <1>15, <1>16, <1>17, <1>18, <1>19,
     <1>20, <1>21, <1>22, <1>23, <1>24, <1>25, <1>26, <1>27
  DEF Next, EvidenceStep, StartStep, WatchStep, RegistryStep, LockedStep

LEMMA PartsInit ==
    Init => ShapeInv /\ VisibleInv /\ RowsInv /\ EvidenceInv /\ RepairInv /\ VerdictInv
<1> SUFFICES ASSUME Init
             PROVE  ShapeInv /\ VisibleInv /\ RowsInv /\ EvidenceInv /\ RepairInv /\ VerdictInv
  OBVIOUS
<1>1. ShapeInv
  BY DEF Init, ShapeInv
<1>2. VisibleInv /\ RowsInv
  BY InitialFacts DEF Init, VisibleInv, RowsInv
<1>3. EvidenceInv
  BY InitialFacts, BoundAssumption DEF Init, EvidenceInv, Loaded
<1>4. RepairInv
  BY InitialFacts DEF Init, RepairInv, Loaded, Recorded
<1>5. VerdictInv
  BY InitialFacts DEF Init, VerdictInv, Loaded
<1> QED
  BY <1>1, <1>2, <1>3, <1>4, <1>5

(***************************************************************************)
(* The theorems.                                                           *)
(***************************************************************************)
(* Every variable holds a value of its kind.                               *)
THEOREM TypeCorrect == Spec => []TypeOK
<1>1. Init => TypeOK
  BY TypeInit
<1>2. TypeOK /\ [Next]_vars => TypeOK'
  BY TypeStep
<1> QED
  BY <1>1, <1>2, PTL DEF Spec

LEMMA ShapeHolds == Spec => []ShapeInv
<1>1. Init => ShapeInv
  BY PartsInit
<1>2. TypeOK /\ ShapeInv /\ [Next]_vars => ShapeInv'
  BY ShapePreserved
<1> QED
  BY <1>1, <1>2, TypeCorrect, PTL DEF Spec

(* A live session is in the document, unless this app's watcher saved a    *)
(* copy that the registry had overtaken: no fault, crash or restart hides  *)
(* one, and no save of the registry, whatever the bounds.                  *)
THEOREM LiveSessionsAreVisible == Spec => []VisibleUnlessClobbered
<1>1. Init => VisibleInv
  BY PartsInit
<1>2. TypeOK /\ ShapeInv /\ VisibleInv /\ [Next]_vars => VisibleInv'
  BY VisiblePreserved
<1>3. VisibleInv => VisibleUnlessClobbered
  BY DEF VisibleInv, VisibleUnlessClobbered, LiveIsVisible
<1> QED
  BY <1>1, <1>2, <1>3, TypeCorrect, ShapeHolds, PTL DEF Spec

(* After the reconciliation of a run the document names live sessions, and *)
(* those under the lock, only, as long as no load or save has failed and   *)
(* this run's watcher has not saved a copy that the registry had overtaken.*)
THEOREM DeadRowsAreGone == Spec => []NoDeadRows
<1>1. Init => RowsInv
  BY PartsInit
<1>2. TypeOK /\ ShapeInv /\ RowsInv /\ [Next]_vars => RowsInv'
  BY RowsPreserved
<1>3. RowsInv => NoDeadRows
  BY DEF RowsInv, NoDeadRows
<1> QED
  BY <1>1, <1>2, <1>3, TypeCorrect, ShapeHolds, PTL DEF Spec

(* The offset in the document never passes a repair without an event.      *)
THEOREM RepairsAreRecorded == Spec => []NoRepairSkipped
<1>1. Init => RepairInv
  BY PartsInit
<1>2. TypeOK /\ ShapeInv /\ RepairInv /\ [Next]_vars => RepairInv'
  BY RepairPreserved
<1>3. RepairInv => NoRepairSkipped
  BY DEF RepairInv, NoRepairSkipped, Recorded
<1> QED
  BY <1>1, <1>2, <1>3, TypeCorrect, ShapeHolds, PTL DEF Spec

(* The cap holds, however many creates passed the first check: only the one *)
(* under the lock is published, and the cap was checked under that lock.   *)
THEOREM CapIsKept == Spec => []CapHolds
<1>1. Init => CapHolds
  BY FS_EmptySet, BoundAssumption DEF Init, CapHolds
<1>2. TypeOK /\ ShapeInv /\ CapHolds /\ [Next]_vars => CapHolds'
  <2> SUFFICES ASSUME TypeOK, ShapeInv, CapHolds, [Next]_vars
               PROVE  CapHolds'
    OBVIOUS
  <2>1. IsFiniteSet(live) /\ Cardinality(live) \in Nat
    <3>1. IsFiniteSet(Id)
      BY FS_Interval, BoundAssumption DEF Id
    <3>2. IsFiniteSet(live)
      BY <3>1, FS_Subset DEF TypeOK
    <3> QED
      BY <3>2, FS_CardinalityType
  <2>2. CASE Publish
    <3>1. PICK s \in Id : live' = live \cup {s}
      BY <2>2 DEF Publish, ShapeInv
    <3>2. Cardinality(live) < MaxLive
      BY <2>2 DEF Publish, ShapeInv, BelowCap
    <3>3. Cardinality(live') \in {Cardinality(live), Cardinality(live) + 1}
      BY <2>1, <3>1, FS_AddElement
    <3> QED
      BY <2>1, <3>2, <3>3, BoundAssumption DEF CapHolds
  <2>3. CASE live' \subseteq live
    <3>1. Cardinality(live') <= Cardinality(live) /\ Cardinality(live') \in Nat
      BY <2>1, <2>3, FS_Subset, FS_CardinalityType
    <3> QED
      BY <2>1, <3>1, BoundAssumption DEF CapHolds
  <2>4. Publish \/ live' \subseteq live
    <3>1. CASE EvidenceStep
      BY <3>1
      DEF EvidenceStep, Repair, file, startup, watcher, registry,
          sessions, history, count, Rotate, Suffer, Fails, RemoveRequest,
          Tear, evidence, Stage, Answer
    <3>2. CASE StartStep
      BY <3>2
      DEF StartStep, StartLoad, Start, file, evidence, watcher, registry,
          sessions, history, StartQuarantine, Fails, ReadRepairs, count,
          RecordEvent, Suffer, IngestAtStart, FoldAtStart, SaveAtStart
    <3>3. CASE AppEnds
      BY <3>3
      DEF AppEnds, Idle, file, evidence, count
    <3>4. CASE WatchStep
      BY <3>4
      DEF WatchStep, WatchSkip, vars, file, evidence, startup, watcher,
          registry, sessions, history, count, WatchLoad, WatchResult,
          WatchSave, Save, SaveFails, Suffer, Fails
    <3>5. CASE RegistryStep
      BY <3>5
      DEF RegistryStep, LockedStep, Open, file, evidence, startup,
          watcher, history, count, RefuseCreate, Unlocked, BeginCreate,
          Hold, LoadFails, Fails, BeginRemove, BeginReconcile, sessions,
          SaveRow, Save, SaveFails, DropSession, registry, Suffer,
          Release, Publish, SaveRemoval
    <3>6. CASE UNCHANGED vars
      BY <3>6
      DEF vars, file, evidence, startup, watcher, registry, sessions,
          history, count
    <3> QED
      BY <3>1, <3>2, <3>3, <3>4, <3>5, <3>6 DEF Next
  <2> QED
    BY <2>2, <2>3, <2>4
<1> QED
  BY <1>1, <1>2, TypeCorrect, ShapeHolds, PTL DEF Spec

(* Who changes the document: a save does, of a copy that is then the        *)
(* document, and what damages it or moves it aside.                        *)
LEMMA DocumentChanges ==
    ASSUME TypeOK, ShapeInv, [Next]_vars
    PROVE  \/ UNCHANGED <<doc, disk>>
           \/ Tear \/ StartQuarantine
           \/ app = "save" /\ doc' = copy /\ suffered' = suffered
           \/ /\ watch = "save" /\ doc' = wcopy /\ suffered' = suffered
              /\ stale \subseteq stale' => "watcher" \notin stale
           \/ /\ Loaded /\ doc' = rcopy /\ suffered' = suffered
              /\ stale \subseteq stale' => "registry" \notin stale
<1>1. CASE EvidenceStep
  BY <1>1
  DEF EvidenceStep, Repair, file, startup, watcher, registry, sessions,
      history, count, Rotate, Suffer, Fails, RemoveRequest, Tear, evidence,
      Stage, Answer, Loaded
<1>2. CASE StartStep
  BY <1>2
  DEF StartStep, StartLoad, Start, file, evidence, watcher, registry,
      sessions, history, StartQuarantine, Fails, ReadRepairs, count,
      RecordEvent, Suffer, IngestAtStart, FoldAtStart, SaveAtStart, Loaded
<1>3. CASE AppEnds
  BY <1>3
  DEF AppEnds, Idle, file, evidence, count, Loaded
<1>4. CASE WatchStep
  BY <1>4
  DEF WatchStep, WatchSkip, vars, file, evidence, startup, watcher, registry,
      sessions, history, count, WatchLoad, WatchResult, WatchSave, Save,
      SaveFails, Suffer, Fails, Loaded
<1>5. CASE RegistryStep
  BY <1>5
  DEF RegistryStep, LockedStep, Open, file, evidence, startup, watcher,
      history, count, RefuseCreate, Unlocked, BeginCreate, Hold, LoadFails,
      Fails, BeginRemove, BeginReconcile, sessions, SaveRow, Save, SaveFails,
      DropSession, registry, Suffer, Release, Publish, SaveRemoval, Loaded
<1>6. CASE UNCHANGED vars
  BY <1>6
  DEF vars, file, evidence, startup, watcher, registry, sessions, history,
      count, Loaded
<1> QED
  BY <1>1, <1>2, <1>3, <1>4, <1>5, <1>6 DEF Next

(* No step but the save of a copy that the other writer has overtaken      *)
(* lowers the watermark of the results or takes a rolled-back build out of *)
(* the memory but for another one, as long as the document is neither      *)
(* damaged nor unreadable: starts, crashes and failed saves included.      *)
THEOREM EvidenceIsKept == Spec => EvidenceKept
<1>1. Init => EvidenceInv
  BY PartsInit
<1>2. TypeOK /\ ShapeInv /\ EvidenceInv /\ [Next]_vars => EvidenceInv'
  BY EvidencePreserved
<1>3. TypeOK /\ ShapeInv /\ EvidenceInv /\ [Next]_vars => KeepsEvidence
  <2> SUFFICES ASSUME TypeOK, ShapeInv, EvidenceInv, [Next]_vars
               PROVE  KeepsEvidence
    OBVIOUS
  <2> SUFFICES ASSUME Intact', stale \subseteq stale'
               PROVE  Keeps(doc, doc')
    BY DEF KeepsEvidence, StaleSave, OnlyGains, Intact, Keeps
  <2>1. doc.last \in Nat
    BY DocFacts DEF TypeOK
  <2>2. ~Tear /\ (StartQuarantine => UNCHANGED doc)
    <3>1. Tear => "tear" \in suffered'
      BY DEF Tear, Suffer, Fails
    <3>2. StartQuarantine => "read" \in suffered' \/ "tear" \in suffered'
      BY DEF StartQuarantine, Fails, ShapeInv
    <3> QED
      BY <3>1, <3>2 DEF Intact
  <2>3. suffered \cap {"read", "tear"} = {} \/ UNCHANGED doc
    BY <2>2, DocumentChanges DEF Intact
  <2> QED
    BY <2>1, <2>2, <2>3, DocumentChanges DEF Keeps, Same, Intact, EvidenceInv
<1> QED
  BY <1>1, <1>2, <1>3, TypeCorrect, ShapeHolds, PTL DEF Spec, EvidenceKept

(* A save that records a new result, and is not a stale one, leaves that   *)
(* result as the verdict.                                                  *)
THEOREM ResultSpeaksLast == Spec => ResultHasLastWord
<1>1. Init => VerdictInv
  BY PartsInit
<1>2. TypeOK /\ ShapeInv /\ VerdictInv /\ [Next]_vars => VerdictInv'
  BY VerdictPreserved
<1>3. TypeOK /\ ShapeInv /\ VerdictInv /\ [Next]_vars => SaysResult
  <2> SUFFICES ASSUME TypeOK, ShapeInv, VerdictInv, [Next]_vars
               PROVE  SaysResult
    OBVIOUS
  <2> SUFFICES ASSUME stale \subseteq stale', disk # "torn", doc'.last > doc.last
               PROVE  doc'.verdict = doc'.outcome
    BY DEF SaysResult, StaleSave
  <2>1. doc.last \in Nat /\ doc'.last \in Nat /\ wcopy.last \in Nat /\ rcopy.last \in Nat
    BY DocFacts, TypeStep DEF TypeOK
  <2>2. ~Tear /\ (StartQuarantine => UNCHANGED doc)
    BY <2>1, InitialFacts DEF Tear, StartQuarantine, file
  <2> QED
    BY <2>1, <2>2, DocumentChanges DEF VerdictInv, Says
<1> QED
  BY <1>1, <1>2, <1>3, TypeCorrect, ShapeHolds, PTL DEF Spec, ResultHasLastWord

=============================================================================
