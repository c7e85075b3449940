---------------------------- MODULE StateDocument ----------------------------
(***************************************************************************)
(* state.json and the threads of the serving app that write it.            *)
(*                                                                         *)
(* A save replaces the document atomically, so what can be lost is lost    *)
(* between a load and the save that follows it.  Three parts of the app    *)
(* load, change and save:                                                  *)
(*   - the start (`ensure_state`), alone, before anything is served;       *)
(*   - the swap watcher (`reconcile_swap`), every second, under no lock;   *)
(*   - the terminal registry (create, close, sweep, reconcile), under the  *)
(*     audit log's lock.                                                   *)
(* The device lock admits one app, so one app is modelled; it may end at   *)
(* any step.  Evidence comes from the supervisor: lines of repair.log,     *)
(* written before it starts the app, a request and a result.  SwapMailbox  *)
(* says who writes the last two and in which order; here they just change. *)
(*                                                                         *)
(* A line of repair.log has a number, counted over all logs: the log on    *)
(* disk holds the lines base + 1 .. written.  A build stands for a digest  *)
(* and its version.  The start's own facts (release, pid, time) are not    *)
(* modelled: no other part reads them back.                                *)
(*                                                                         *)
(* `stale` and `clobbered` are history: no action's guard reads them.      *)
(* Reset and the like are faulty variants.                                 *)
(***************************************************************************)
EXTENDS Naturals, Sequences, FiniteSets

CONSTANTS
    Build,
    None,
    Fault,      \* the kinds of fault that may happen, each at most once
    MaxFaults,  \* how many kinds happen
    MaxRolled,  \* MAX_ROLLED_BACK
    MaxLive,    \* limits.max_sessions
    MaxIds,     \* sessions opened by one app
    MaxStarts,  \* starts of the app
    MaxResults,
    MaxRepairs

(* A document that cannot be read although it is intact, a failed save, a  *)
(* document whose bytes are damaged, a repair.log that is replaced.        *)
ASSUME FaultAssumption == Fault \subseteq {"read", "write", "tear", "rotate"}
ASSUME BuildAssumption == None \notin Build
ASSUME BoundAssumption == /\ MaxRolled \in Nat \ {0}
                          /\ MaxFaults \in Nat
                          /\ MaxLive \in Nat
                          /\ MaxIds \in Nat
                          /\ MaxStarts \in Nat
                          /\ MaxResults \in Nat
                          /\ MaxRepairs \in Nat

VARIABLES
    disk,       \* what is at state.json: nothing, a document, or torn bytes
    doc,        \* the document there (the initial one while there is none)
    base, written,  \* the lines of repair.log
    events,     \* how often events.jsonl holds the event of each line
    request, result, clock,
    app,        \* where the app is in its start
    copy,       \* the document the start holds
    cursor, upto,   \* the repair lines the start has still to record
    watch,      \* where the swap watcher is
    wcopy,      \* the document it holds
    op,         \* what the registry does under its lock
    who,        \* the sessions it does it for
    rcopy,      \* the document it holds
    live,       \* the registry's map of sessions
    opening,    \* sessions that run but wait for the lock
    next,       \* the next session number
    reconciled, \* the registry has reconciled the rows of a dead run
    stale,      \* history: who holds a copy that the other has overtaken
    clobbered,  \* history: the watcher of this app saved a stale copy
    starts, suffered

file == <<disk, doc>>
evidence == <<base, written, request, result, clock>>
startup == <<app, copy, cursor, upto>>
watcher == <<watch, wcopy>>
sessions == <<live, opening, next>>
registry == <<op, who, rcopy, reconciled, sessions>>
history == <<stale, clobbered>>
count == <<starts, suffered>>
vars == <<file, evidence, events, startup, watcher, registry, history, count>>

Id == 1..MaxIds
Outcome == {"applied", "rolled_back", "refused"}

(* The last verdict, by the sentence it says.                              *)
Verdict == {"started", "repaired"} \cup Outcome
Result == [outcome: Outcome, build: Build, at: Nat]
NoResult == [outcome |-> "none", build |-> None, at |-> 0]
Doc == [rows: SUBSET Id, phase: {"idle", "staged"}, to: Build \cup {None},
        outcome: Outcome \cup {"none"}, last: Nat, rolled: Seq(Build),
        offset: Nat, verdict: Verdict]

Initial == [rows |-> {}, phase |-> "idle", to |-> None, outcome |-> "none", last |-> 0,
            rolled |-> <<>>, offset |-> 0, verdict |-> "started"]

Fails(kind) == /\ kind \in Fault \ suffered
               /\ Cardinality(suffered) < MaxFaults
               /\ suffered' = suffered \cup {kind}

Suffer(kind) == Fails(kind) /\ UNCHANGED starts

Idle == /\ watch' = "sleep" /\ wcopy' = Initial
        /\ op' = "none" /\ who' = {} /\ rcopy' = Initial /\ reconciled' = FALSE
        /\ live' = {} /\ opening' = {} /\ next' = 1
        /\ stale' = {} /\ clobbered' = FALSE

Init ==
    /\ disk = "absent" /\ doc = Initial
    /\ base = 0 /\ written = 0
    /\ events = [line \in 1..MaxRepairs |-> 0]
    /\ request = None /\ result = NoResult /\ clock = 0
    /\ app = "down" /\ copy = Initial /\ cursor = 0 /\ upto = 0
    /\ watch = "sleep" /\ wcopy = Initial
    /\ op = "none" /\ who = {} /\ rcopy = Initial /\ reconciled = FALSE
    /\ live = {} /\ opening = {} /\ next = 1
    /\ stale = {} /\ clobbered = FALSE
    /\ starts = 0 /\ suffered = {}

(***************************************************************************)
(* Evidence: what the supervisor and the stagers leave on disk.            *)
(***************************************************************************)
Repair ==
    /\ app = "down"
    /\ written < MaxRepairs
    /\ written' = written + 1
    /\ UNCHANGED <<file, base, request, result, clock, events, startup, watcher, registry,
                   history, count>>

Rotate ==
    /\ Suffer("rotate")
    /\ base' = written
    /\ UNCHANGED <<file, written, request, result, clock, events, startup, watcher, registry,
                   history>>

(* A request; the result of an earlier one is removed first.               *)
Stage(b) ==
    /\ clock < MaxResults
    /\ request' = b
    /\ result' = NoResult
    /\ UNCHANGED <<file, base, written, clock, events, startup, watcher, registry, history,
                   count>>

Answer(o) ==
    /\ request # None
    /\ clock < MaxResults
    /\ clock' = clock + 1
    /\ result' = [outcome |-> o, build |-> request, at |-> clock + 1]
    /\ UNCHANGED <<file, base, written, request, events, startup, watcher, registry, history,
                   count>>

RemoveRequest ==
    /\ request # None
    /\ request' = None
    /\ UNCHANGED <<file, base, written, result, clock, events, startup, watcher, registry,
                   history, count>>

Tear ==
    /\ disk = "document"
    /\ Suffer("tear")
    /\ disk' = "torn"
    /\ doc' = Initial
    /\ UNCHANGED <<evidence, events, startup, watcher, registry, history>>

(***************************************************************************)
(* What a poll and a start fold into the document.                         *)
(***************************************************************************)
(* State::record_rolled_back: a digest once, the oldest evicted.           *)
Remember(rolled, b) ==
    IF \E i \in DOMAIN rolled : rolled[i] = b THEN rolled
    ELSE Append(IF Len(rolled) >= MaxRolled THEN Tail(rolled) ELSE rolled, b)

Ingest(d) ==
    IF request = None \/ d.to = request THEN d
    ELSE [d EXCEPT !.phase = "staged", !.to = request, !.outcome = "none"]

Newer(d) == result # NoResult /\ result.at > d.last

NewVerdict(d) == result.outcome

(* A refusal names no version.                                             *)
Fold(d) ==
    IF ~Newer(d) THEN d
    ELSE [d EXCEPT !.phase = "idle",
                   !.to = IF result.outcome = "refused" THEN @ ELSE result.build,
                   !.outcome = result.outcome,
                   !.last = result.at,
                   !.rolled = IF result.outcome = "rolled_back"
                              THEN Remember(@, result.build) ELSE @,
                   !.verdict = NewVerdict(d)]

(***************************************************************************)
(* The start.                                                              *)
(***************************************************************************)
Start == /\ app = "down"
         /\ starts < MaxStarts
         /\ starts' = starts + 1
         /\ app' = "repairs"
         /\ UNCHANGED <<evidence, events, cursor, upto, watcher, registry, history>>

Reset == Initial

(* Every fact is kept but the verdict.                                     *)
Refreshed == [doc EXCEPT !.verdict = "started"]

StartLoad == /\ Start
             /\ disk # "torn"
             /\ copy' = Refreshed
             /\ UNCHANGED <<file, suffered>>

(* A document that cannot be read is moved aside, damaged or not; what is  *)
(* left if the move fails is replaced by the save.                         *)
StartQuarantine ==
    /\ Start
    /\ \/ disk = "torn" /\ UNCHANGED suffered
       \/ disk = "document" /\ Fails("read")
    /\ copy' = Initial
    /\ \/ disk' = "absent" /\ doc' = Initial
       \/ UNCHANGED file

LogLength == written - base
Unread == base + (IF copy.offset > LogLength THEN 0 ELSE copy.offset)

UnreadButOne == IF Unread < written THEN written - 1 ELSE written

LastLine == written

(* read_new_repairs: an offset past the end means another log.             *)
ReadRepairs ==
    /\ app = "repairs"
    /\ cursor' = Unread
    /\ upto' = LastLine
    /\ copy' = [copy EXCEPT !.offset = LogLength,
                            !.verdict = IF Unread < written THEN "repaired" ELSE @]
    /\ app' = "events"
    /\ UNCHANGED <<file, evidence, events, watcher, registry, history, count>>

(* An event that cannot be written is lost; the start goes on.             *)
RecordEvent ==
    /\ app = "events"
    /\ cursor < upto
    /\ cursor' = cursor + 1
    /\ \/ events' = [events EXCEPT ![cursor + 1] = @ + 1] /\ UNCHANGED count
       \/ Suffer("write") /\ UNCHANGED events
    /\ UNCHANGED <<file, evidence, app, copy, upto, watcher, registry, history>>

IngestAtStart ==
    /\ app = "events"
    /\ cursor = upto
    /\ copy' = Ingest(copy)
    /\ cursor' = 0 /\ upto' = 0
    /\ app' = "result"
    /\ UNCHANGED <<file, evidence, events, watcher, registry, history, count>>

FoldAtStart ==
    /\ app = "result"
    /\ copy' = Fold(copy)
    /\ app' = "save"
    /\ UNCHANGED <<file, evidence, events, cursor, upto, watcher, registry, history, count>>

(* A start that cannot save serves all the same.                           *)
SaveAtStart ==
    /\ app = "save"
    /\ \/ disk' = "document" /\ doc' = copy /\ UNCHANGED count
       \/ Suffer("write") /\ UNCHANGED file
    /\ app' = "serving"
    /\ copy' = Initial
    /\ UNCHANGED <<evidence, events, cursor, upto, watcher, registry, history>>

(* The supervisor stops the app, it crashes, or one of the files of the    *)
(* start cannot be read: what it held is gone.  It is started again.       *)
AppEnds ==
    /\ app # "down"
    /\ starts < MaxStarts
    /\ app' = "down"
    /\ copy' = Initial /\ cursor' = 0 /\ upto' = 0
    /\ Idle
    /\ UNCHANGED <<file, evidence, events, count>>

(***************************************************************************)
(* A save of one of the two writers of a serving app.  What the other one  *)
(* holds is stale then: its save will undo this one.                       *)
(***************************************************************************)
Save(writer, other, held, d) ==
    /\ disk' = "document"
    /\ doc' = d
    /\ clobbered' = (clobbered \/ (writer = "watcher" /\ "watcher" \in stale))
    /\ stale' = (stale \ {writer}) \cup (IF held THEN {other} ELSE {})

SaveFails(writer) == Suffer("write") /\ stale' = stale \ {writer} /\ UNCHANGED <<file, clobbered>>

(***************************************************************************)
(* The swap watcher.  No document, or a torn one, is left alone.           *)
(***************************************************************************)
WatchLoad ==
    /\ app = "serving"
    /\ watch = "sleep"
    /\ disk = "document"
    /\ wcopy' = Ingest(doc)
    /\ watch' = IF Ingest(doc) # doc THEN "staged" ELSE "clean"
    /\ UNCHANGED <<file, evidence, events, startup, registry, history, count>>

WatchSkip ==
    /\ app = "serving"
    /\ watch = "sleep"
    /\ disk # "document"
    /\ UNCHANGED vars

NothingStaged == watch = "clean"

NothingNew == watch = "clean" /\ ~Newer(wcopy)

WatchResult ==
    /\ watch \in {"clean", "staged"}
    /\ IF NothingNew
       THEN watch' = "sleep" /\ wcopy' = Initial /\ stale' = stale \ {"watcher"}
       ELSE watch' = "save" /\ wcopy' = Fold(wcopy) /\ UNCHANGED stale
    /\ UNCHANGED <<file, evidence, events, startup, registry, clobbered, count>>

WatchSave ==
    /\ watch = "save"
    /\ \/ Save("watcher", "registry", op \in {"create", "remove"}, wcopy) /\ UNCHANGED count
       \/ SaveFails("watcher")
    /\ watch' = "sleep"
    /\ wcopy' = Initial
    /\ UNCHANGED <<evidence, events, startup, registry>>

(***************************************************************************)
(* The terminal registry.  `op` is held with the lock.                     *)
(***************************************************************************)
Release == /\ op' = "none"
           /\ who' = {}
           /\ rcopy' = Initial

Unlocked == app = "serving" /\ op = "none"

(* The lock is taken and the document loaded, to be saved with these rows. *)
Hold(what, ids, rows) ==
    /\ disk # "torn"
    /\ op' = what
    /\ who' = ids
    /\ rcopy' = [doc EXCEPT !.rows = rows]
    /\ UNCHANGED suffered

(* The document cannot be loaded, and the lock is given back.              *)
LoadFails == /\ \/ disk = "torn" /\ UNCHANGED suffered
                \/ Fails("read")
             /\ UNCHANGED <<op, who, rcopy>>

(* The cap is checked before the session is opened, which may take long.   *)
Open ==
    /\ app = "serving"
    /\ next <= MaxIds
    /\ Cardinality(live) < MaxLive
    /\ opening' = opening \cup {next}
    /\ next' = next + 1
    /\ UNCHANGED <<file, evidence, events, startup, watcher, op, who, rcopy, live, reconciled,
                   history, count>>

NoCap == TRUE

(* It is checked again under the lock.                                     *)
BelowCap == Cardinality(live) < MaxLive

RefuseCreate(s) ==
    /\ Unlocked
    /\ s \in opening
    /\ ~BelowCap
    /\ opening' = opening \ {s}
    /\ UNCHANGED <<file, evidence, events, startup, watcher, op, who, rcopy, live, next,
                   reconciled, history, count>>

BeginCreate(s) ==
    /\ Unlocked
    /\ s \in opening
    /\ BelowCap
    /\ \/ Hold("create", {s}, doc.rows \cup {s}) /\ UNCHANGED opening
       \/ LoadFails /\ opening' = opening \ {s}
    /\ UNCHANGED <<file, evidence, events, startup, watcher, live, next, reconciled, history,
                   starts>>

PublishAnyway == op' = "publish" /\ rcopy' = Initial /\ UNCHANGED <<who, opening>>

(* A row that cannot be saved ends the session.                            *)
DropSession == Release /\ opening' = opening \ who

SaveRow ==
    /\ op = "create"
    /\ \/ /\ Save("registry", "watcher", watch # "sleep", rcopy)
          /\ op' = "publish" /\ rcopy' = Initial
          /\ UNCHANGED <<who, opening, count>>
       \/ SaveFails("registry") /\ DropSession
    /\ UNCHANGED <<evidence, events, startup, watcher, reconciled, live, next>>

Publish ==
    /\ op = "publish"
    /\ live' = live \cup who
    /\ opening' = opening \ who
    /\ Release
    /\ UNCHANGED <<file, evidence, events, startup, watcher, reconciled, next, history, count>>

(* close, of one session, and sweep_idle, of all that have been idle.      *)
BeginRemove(gone) ==
    /\ Unlocked
    /\ gone # {}
    /\ gone \subseteq live
    /\ live' = live \ gone
    /\ \/ Hold("remove", gone, doc.rows \ gone)
       \/ LoadFails
    /\ UNCHANGED <<file, evidence, events, startup, watcher, opening, next, reconciled, history,
                   starts>>

EveryRow == doc.rows

(* reconcile_state, once: rows of a run before are removed.                *)
LiveRows == doc.rows \cap live

BeginReconcile ==
    /\ Unlocked
    /\ ~reconciled
    /\ reconciled' = TRUE
    /\ IF doc.rows = LiveRows
       THEN UNCHANGED <<op, who, rcopy, suffered>>
       ELSE Hold("remove", doc.rows \ LiveRows, LiveRows) \/ LoadFails
    /\ UNCHANGED <<file, evidence, events, startup, watcher, sessions, history, starts>>

(* A removal that cannot be saved leaves its rows behind.                  *)
SaveRemoval ==
    /\ op = "remove"
    /\ \/ Save("registry", "watcher", watch # "sleep", rcopy) /\ UNCHANGED count
       \/ SaveFails("registry")
    /\ Release
    /\ UNCHANGED <<evidence, events, startup, watcher, reconciled, sessions>>

EvidenceStep ==
    \/ Repair \/ Rotate \/ RemoveRequest \/ Tear
    \/ \E b \in Build : Stage(b)
    \/ \E o \in Outcome : Answer(o)

StartStep ==
    \/ StartLoad \/ StartQuarantine \/ ReadRepairs \/ RecordEvent
    \/ IngestAtStart \/ FoldAtStart \/ SaveAtStart

WatchStep == WatchSkip \/ WatchLoad \/ WatchResult \/ WatchSave

LockedStep == SaveRow \/ Publish \/ SaveRemoval

RegistryStep ==
    \/ Open
    \/ \E s \in opening : RefuseCreate(s) \/ BeginCreate(s)
    \/ \E gone \in SUBSET live : BeginRemove(gone)
    \/ BeginReconcile
    \/ LockedStep

Next == EvidenceStep \/ StartStep \/ AppEnds \/ WatchStep \/ RegistryStep

Spec == Init /\ [][Next]_vars

(* The supervisor starts the app again, a start runs to its end, the       *)
(* watcher polls every second, and the lock is fair: it is given in turn.  *)
FairSpec == /\ Spec
            /\ WF_vars(StartStep)
            /\ WF_vars(WatchStep)
            /\ WF_vars(LockedStep)
            /\ SF_vars(BeginReconcile)

(***************************************************************************)
(* Properties.                                                             *)
(***************************************************************************)
(* Every variable holds a value of its kind.                               *)
TypeOK ==
    /\ disk \in {"absent", "document", "torn"}
    /\ doc \in Doc
    /\ base \in 0..written /\ written \in 0..MaxRepairs
    /\ events \in [1..MaxRepairs -> Nat]
    /\ request \in Build \cup {None}
    /\ result \in Result \cup {NoResult}
    /\ clock \in 0..MaxResults
    /\ app \in {"down", "repairs", "events", "result", "save", "serving"}
    /\ copy \in Doc
    /\ cursor \in 0..upto /\ upto \in 0..MaxRepairs
    /\ watch \in {"sleep", "clean", "staged", "save"}
    /\ wcopy \in Doc
    /\ op \in {"none", "create", "publish", "remove"}
    /\ who \subseteq Id
    /\ rcopy \in Doc
    /\ live \subseteq Id /\ opening \subseteq Id /\ next \in 1..(MaxIds + 1)
    /\ reconciled \in BOOLEAN
    /\ stale \subseteq {"watcher", "registry"}
    /\ clobbered \in BOOLEAN
    /\ starts \in 0..MaxStarts
    /\ suffered \subseteq Fault

(* A live session is never invisible in the document.  In no run: the      *)
(* watcher's save of a copy it loaded earlier violates it.                 *)
LiveIsVisible == disk = "document" => live \subseteq doc.rows

(* It is visible, whatever fails or ends and whatever the registry saves,  *)
(* unless this app's watcher saved a copy that the registry had overtaken. *)
VisibleUnlessClobbered == ~clobbered => LiveIsVisible

(* However many creates wait for the lock, the cap holds.                  *)
CapHolds == Cardinality(live) <= MaxLive

(* Once a run has reconciled, the document names no session of another     *)
(* run (a row is a live session or one that the registry is working on),   *)
(* unless this app's watcher saved a copy that the registry had overtaken, *)
(* or a load or a save of the document has failed.                         *)
NoDeadRows ==
    (reconciled /\ ~clobbered /\ suffered = {}) => doc.rows \subseteq live \cup who

(* A line that the document has passed has its event, unless the event     *)
(* could not be written or the log was replaced: the document never runs   *)
(* ahead of the audit.                                                     *)
NoRepairSkipped ==
    suffered \cap {"write", "rotate"} = {} =>
        \A line \in 1..doc.offset : events[line] > 0

(* Each repair line is recorded once.  In no run: an end of the app, or a  *)
(* failed save, after the event and before the offset violates it.         *)
RepairRecordedOnce == \A line \in DOMAIN events : events[line] <= 1

(* The watermark of the results never falls, and a rolled-back build       *)
(* leaves the memory only to make room for another one.                    *)
Mem(rolled) == {rolled[i] : i \in DOMAIN rolled}

OnlyGains ==
    /\ doc.last <= doc'.last
    /\ \/ Mem(doc.rolled) \subseteq Mem(doc'.rolled)
       \/ Mem(doc'.rolled) \ Mem(doc.rolled) # {} /\ Len(doc'.rolled) = MaxRolled

(* The comment of `last_result_at_ms`: "this is how the app records one     *)
(* result exactly once across restarts".  In no run: the registry's save of *)
(* a copy it loaded before the watcher's save takes back what that one     *)
(* recorded, and the next poll records the result again.                   *)
EvidenceOnlyGains == [][OnlyGains]_vars

(* No step but such a save, of a copy the other writer has overtaken,      *)
(* forgets what the document recorded, neither a start nor another save,   *)
(* as long as the document is neither damaged nor unreadable.              *)
StaleSave == ~(stale \subseteq stale')

KeepsEvidence == StaleSave \/ suffered' \cap {"read", "tear"} # {} \/ OnlyGains

EvidenceKept == [][KeepsEvidence]_vars

(* A save that records a result says so, unless it is a stale one: neither *)
(* the start nor a repair that the same start found has the last word.     *)
SaysResult == (~StaleSave /\ disk # "torn" /\ doc'.last > doc.last)
                  => doc'.verdict = doc'.outcome

ResultHasLastWord == [][SaysResult]_vars

(* A result that stays on disk is recorded for good, if there is a         *)
(* document to record it in, whichever app is up or is started later.      *)
ResultRecorded == <>[](disk = "document" => doc.last >= result.at)

(* Rows of a dead run leave the document for good ("a reader of /api/state  *)
(* sees live sessions, not a dead run's").  In no run: a watcher that loaded *)
(* rows before the registry removed them saves them back, and an app that  *)
(* has reconciled does not do it again.                                    *)
DeadRowsLeaveForGood == <>[](doc.rows \subseteq live \cup who)

(* They leave for good, unless the watcher of the app that goes on running *)
(* saved a stale copy, or a load or a save of the document failed.         *)
DeadRowsLeave == <>[](clobbered \/ suffered # {} \/ doc.rows \subseteq live \cup who)
=============================================================================
