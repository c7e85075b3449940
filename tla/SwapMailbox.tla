----------------------------- MODULE SwapMailbox -----------------------------
(***************************************************************************)
(* How the device asks its supervisor for an update and learns the answer. *)
(*                                                                         *)
(* The stagers (`--stage`, `--check-update`, the app's update schedule),   *)
(* the supervisor and the serving app share three files and no lock: the   *)
(* staged pair, swap.request.json and swap.result.json.  A stager writes   *)
(* the pair, then the request, then reads the result until one is at least *)
(* as young as its request.  The supervisor answers what it read and       *)
(* removes whatever request is there.  The app folds both files into       *)
(* state.json.                                                             *)
(*                                                                         *)
(* The transaction itself is the module BaselineSwap; here it is one step  *)
(* with an outcome.  A build stands for an artifact's digest and its       *)
(* sidecar; two builds may carry the same version.  A request and a result *)
(* name who asked (`by`, `req`): history, which no action reads.  The      *)
(* clock counts milliseconds.  Writing a staged binary takes at least one, *)
(* and so does the wait between two polls of the supervisor; anything else *)
(* may happen within one.  The app's polls and its starts read the files   *)
(* in the same order; how often is left open.                              *)
(*                                                                         *)
(* NewerOrSame, TakeNoTime and the like are faulty variants: each breaks a *)
(* property below, which shows that the property is earned.                *)
(***************************************************************************)
EXTENDS Naturals

CONSTANTS
    Client,     \* the stager processes
    Waiter,     \* those that wait for the answer: all but the app's schedule
    Guarded,    \* those that read the rolled-back memory: all but a bare --stage
    Build,      \* artifacts, by digest
    Version,
    VersionOf,  \* the version a build's sidecar signs
    Seed,       \* the build the device starts with
    None,
    Fault,      \* the kinds of fault that may happen
    MaxRuns,    \* how often a stager runs
    MaxFaults   \* how many faults happen

(* Supervisor crashes, service stops, failed writes, and stagers that give *)
(* up (a time-out, an interrupt).                                          *)
ASSUME FaultAssumption == /\ Fault \subseteq {"crash", "stop", "io", "quit"}
                          /\ MaxRuns \in Nat
                          /\ MaxFaults \in Nat

ASSUME BuildAssumption == /\ Seed \in Build
                          /\ None \notin Build \cup Version \cup Client
                          /\ VersionOf \in [Build -> Version]
ASSUME ClientAssumption == Waiter \subseteq Client /\ Guarded \subseteq Client

VARIABLES
    clock,
    staged,     \* summrise-device.new.exe and its sidecar
    request,    \* swap.request.json
    result,     \* swap.result.json
    step,       \* where each stager is
    pick,       \* the build each stager chose
    mem,        \* the rolled-back builds each stager read before it fetched
    at,         \* requested_at_ms
    sup,        \* where the supervisor is
    taken,      \* the request it read
    out,        \* the result it is about to write
    current,    \* the build the device runs
    app,        \* "idle", or "result" between reading the two files
    copy,       \* the document as the poll holds it
    doc,        \* state.json, its update part and the rolled-back memory
    failed,     \* history: the builds the supervisor has said it rolled back
    recorded,   \* history: the result state.json folded in last
    misled,     \* history: a stager took another request's answer for its own
    overlapped, \* history: two requests were under way at one time
    runs,       \* the stager runs so far
    faults      \* the faults so far

stagers == <<step, pick, mem, at>>
supervisor == <<sup, taken, out, current>>
document == <<app, copy, doc>>
history == <<failed, recorded, misled, overlapped>>
count == <<runs, faults>>
vars == <<clock, staged, request, result, stagers, supervisor, document, history, count>>

Outcome == {"applied", "rolled_back", "refused"}
Request == [by: Client, at: Nat, build: Build]
NoRequest == [by |-> None, at |-> 0, build |-> None]
Result == [outcome: Outcome, build: Build \cup {None}, at: Nat, req: Request]
NoResult == [outcome |-> "none", build |-> None, at |-> 0, req |-> NoRequest]
Doc == [phase: {"idle", "staged"}, to: Version \cup {None},
        outcome: Outcome \cup {"none"}, last: Nat, rolled: SUBSET Build]

Usable == staged.side # None /\ staged.exe = staged.side

Suffer(kind) == /\ kind \in Fault
                /\ faults < MaxFaults
                /\ faults' = faults + 1
                /\ UNCHANGED runs

Init ==
    /\ clock = 1
    /\ staged = [exe |-> None, side |-> None]
    /\ request = NoRequest
    /\ result = NoResult
    /\ step = [c \in Client |-> "idle"]
    /\ pick = [c \in Client |-> None]
    /\ mem = [c \in Client |-> {}]
    /\ at = [c \in Client |-> 0]
    /\ sup = "poll"
    /\ taken = NoRequest
    /\ out = NoResult
    /\ current = Seed
    /\ app = "idle"
    /\ doc = [phase |-> "idle", to |-> None, outcome |-> "none", last |-> 0, rolled |-> {}]
    /\ copy = doc
    /\ failed = {}
    /\ recorded = NoResult
    /\ misled = FALSE
    /\ overlapped = FALSE
    /\ runs = 0
    /\ faults = 0

(***************************************************************************)
(* A stager: choose a build, write the pair, ask, wait.                    *)
(***************************************************************************)
Goto(c, place) == step' = [step EXCEPT ![c] = place]

Done(c) == /\ Goto(c, "idle")
           /\ pick' = [pick EXCEPT ![c] = None]
           /\ at' = [at EXCEPT ![c] = 0]

(* The memory is read before the release is fetched.                       *)
ReadMemory(c) ==
    /\ step[c] = "idle"
    /\ runs < MaxRuns
    /\ runs' = runs + 1
    /\ mem' = [mem EXCEPT ![c] = IF c \in Guarded THEN doc.rolled ELSE {}]
    /\ Goto(c, "fetch")
    /\ UNCHANGED <<clock, staged, request, result, pick, at, supervisor, document, history,
                   faults>>

(* A release is refused when the memory names its digest.  The staged      *)
(* binary is written first.                                                *)
StageExe(c) ==
    /\ step[c] = "fetch"
    /\ clock' = clock + 1
    /\ \E b \in Build \ mem[c] :
           /\ pick' = [pick EXCEPT ![c] = b]
           /\ staged' = [staged EXCEPT !.exe = b]
    /\ mem' = [mem EXCEPT ![c] = {}]
    /\ Goto(c, "sidecar")
    /\ UNCHANGED <<request, result, at, supervisor, document, history, count>>

StageSidecar(c) ==
    /\ step[c] = "sidecar"
    /\ staged' = [staged EXCEPT !.side = pick[c]]
    /\ Goto(c, "now")
    /\ UNCHANGED <<clock, request, result, pick, mem, at, supervisor, document,
                   history, count>>

(* A request is on disk or being answered, or another stager asks or still *)
(* waits.  TakeTime counts a request answered in its own millisecond too.  *)
Busy(c) ==
    \/ request # NoRequest
    \/ sup # "poll"
    \/ \E d \in Client \ {c} : step[d] \in {"discard", "unlink", "write", "wait", "drop"}

TakeNoTime(c) ==
    /\ step[c] = "now"
    /\ overlapped' = (overlapped \/ Busy(c) \/ result.at = clock)
    /\ Goto(c, "discard")
    /\ UNCHANGED <<clock, staged, request, result, pick, mem, at, supervisor, document,
                   failed, recorded, misled, count>>

(* request_swap: take the time, drop an older result, write the request.   *)
TakeTime(c) ==
    /\ step[c] = "now"
    /\ clock' \in {clock, clock + 1}
    /\ at' = [at EXCEPT ![c] = clock']
    /\ overlapped' = (overlapped \/ Busy(c) \/ result.at = clock')
    /\ Goto(c, "discard")
    /\ UNCHANGED <<staged, request, result, pick, mem, supervisor, document,
                   failed, recorded, misled, count>>

DiscardRead(c) ==
    /\ step[c] = "discard"
    /\ Goto(c, IF result # NoResult /\ result.at < at[c] THEN "unlink" ELSE "write")
    /\ UNCHANGED <<clock, staged, request, result, pick, mem, at, supervisor, document,
                   history, count>>

(* The removal takes whatever result is there by now; none is an error.    *)
DiscardRemove(c) ==
    /\ step[c] = "unlink"
    /\ result' = NoResult
    /\ IF result = NoResult THEN Done(c) ELSE Goto(c, "write") /\ UNCHANGED <<pick, at>>
    /\ UNCHANGED <<clock, staged, request, mem, supervisor, document, history, count>>

WriteRequest(c) ==
    /\ step[c] = "write"
    /\ request' = [by |-> c, at |-> at[c], build |-> pick[c]]
    /\ overlapped' = (overlapped \/ Busy(c))
    /\ IF c \in Waiter THEN Goto(c, "wait") /\ UNCHANGED <<pick, at>> ELSE Done(c)
    /\ UNCHANGED <<clock, staged, result, mem, supervisor, document,
                   failed, recorded, misled, count>>

MyRequest(c) == [by |-> c, at |-> at[c], build |-> pick[c]]

(* await_swap_result: any result at least as young as the request.         *)
AwaitAccept(c) ==
    /\ step[c] = "wait" /\ result # NoResult
    /\ result.at >= at[c]
    /\ misled' = (misled \/ result.req # MyRequest(c))
    /\ Done(c)
    /\ UNCHANGED <<clock, staged, request, result, mem, supervisor, document,
                   failed, recorded, overlapped, count>>

AwaitStale(c) ==
    /\ step[c] = "wait" /\ result # NoResult
    /\ result.at < at[c]
    /\ Goto(c, "drop")
    /\ UNCHANGED <<clock, staged, request, result, pick, mem, at, supervisor, document,
                   history, count>>

(* Again the removal takes whatever result is there by now.                *)
AwaitDrop(c) ==
    /\ step[c] = "drop"
    /\ result' = NoResult
    /\ Goto(c, "wait")
    /\ UNCHANGED <<clock, staged, request, pick, mem, at, supervisor, document,
                   history, count>>

(* A time-out while waiting; elsewhere a failed write, an interrupt, or    *)
(* the app that runs the schedule being stopped.                           *)
Quit(c) ==
    /\ step[c] # "idle"
    /\ Suffer("quit")
    /\ Done(c)
    /\ mem' = [mem EXCEPT ![c] = {}]
    /\ UNCHANGED <<clock, staged, request, result, supervisor, document, history>>

(***************************************************************************)
(* The supervisor: poll_swap and publish_result.                           *)
(***************************************************************************)
ReadRequest ==
    /\ sup = "poll" /\ request # NoRequest
    /\ taken' = request
    /\ clock' = clock + 1
    /\ sup' = "check"
    /\ UNCHANGED <<staged, request, result, stagers, out, current, document,
                   history, count>>

Publishing(outcome, build) ==
    /\ out' = [outcome |-> outcome, build |-> build, at |-> clock, req |-> taken]
    /\ sup' = "write"

Matching == Usable /\ staged.side = taken.build

(* Too old, or the staged pair is unusable or another one.                 *)
Refuse ==
    /\ sup = "check"
    /\ \/ Publishing("refused", None)
       \/ ~Matching /\ Publishing("refused", IF Usable THEN staged.side ELSE None)
    /\ UNCHANGED <<clock, staged, request, result, stagers, taken, current, document,
                   history, count>>

AlreadyCurrent ==
    /\ sup = "check" /\ Matching /\ taken.build = current
    /\ Publishing("applied", current)
    /\ UNCHANGED <<clock, staged, request, result, stagers, taken, current, document,
                   history, count>>

(* The removal of the previous result is best effort.                      *)
BeginSwap ==
    /\ sup = "check" /\ Matching /\ taken.build # current
    /\ result' \in {NoResult, result}
    /\ sup' = "swap"
    /\ UNCHANGED <<clock, staged, request, stagers, taken, out, current, document,
                   history, count>>

EndSwap ==
    /\ sup = "swap"
    /\ \/ Publishing("applied", taken.build) /\ current' = taken.build
       \/ /\ \/ Publishing("rolled_back", taken.build)
             \/ Publishing("refused", taken.build)
          /\ UNCHANGED current
    /\ UNCHANGED <<clock, staged, request, result, stagers, taken, document, history, count>>

Return == sup' = "poll" /\ taken' = NoRequest /\ out' = NoResult

(* A service stop abandons the swap: the request is removed, unanswered, as *)
(* best it can be.                                                         *)
StopSwap ==
    /\ sup = "swap"
    /\ Suffer("stop")
    /\ request' \in {NoRequest, request}
    /\ Return
    /\ UNCHANGED <<clock, staged, result, stagers, current, document, history>>

PublishResult ==
    /\ sup = "write"
    /\ sup' = "remove"
    /\ \/ /\ result' = out
          /\ failed' = failed \cup (IF out.outcome = "rolled_back" THEN {out.build} ELSE {})
          /\ UNCHANGED count
       \/ Suffer("io") /\ UNCHANGED <<result, failed>>
    /\ UNCHANGED <<clock, staged, request, stagers, taken, out, current, document,
                   recorded, misled, overlapped>>

(* The removal takes whatever request is there by now, or fails with a     *)
(* warning: the next poll answers the request once more.                   *)
RemoveRequest ==
    /\ sup = "remove"
    /\ \/ request' = NoRequest /\ UNCHANGED count
       \/ Suffer("io") /\ UNCHANGED request
    /\ Return
    /\ UNCHANGED <<clock, staged, result, stagers, current, document, history>>

(* The restarted supervisor polls again.  The swap may have committed.     *)
CrashForgetsRequest ==
    /\ sup # "poll"
    /\ Suffer("crash")
    /\ Return
    /\ request' = NoRequest
    /\ current' \in {current} \cup (IF sup = "swap" THEN {taken.build} ELSE {})
    /\ UNCHANGED <<clock, staged, result, stagers, document, history>>

Crash ==
    /\ sup # "poll"
    /\ Suffer("crash")
    /\ Return
    /\ current' \in {current} \cup (IF sup = "swap" THEN {taken.build} ELSE {})
    /\ UNCHANGED <<clock, staged, request, result, stagers, document, history>>

(***************************************************************************)
(* The app: reconcile_swap, and the same two reads of ensure_state.        *)
(***************************************************************************)
(* ingest_swap_request: a version the document names already is left alone.*)
Ingest(d, r) ==
    IF r = NoRequest \/ d.to = VersionOf[r.build] THEN d
    ELSE [d EXCEPT !.phase = "staged", !.to = VersionOf[r.build], !.outcome = "none"]

NewerOrSame(d, r) == r # NoResult /\ r.at >= d.last

(* A result no younger than the recorded one is in the document already.   *)
Newer(d, r) == r # NoResult /\ r.at > d.last

FoldOnlyStaged(d, r) ==
    IF ~Newer(d, r) \/ d.phase = "idle" THEN d
    ELSE [phase |-> "idle",
          to |-> IF r.outcome = "refused" THEN d.to ELSE VersionOf[r.build],
          outcome |-> r.outcome,
          last |-> r.at,
          rolled |-> d.rolled \cup (IF r.outcome = "rolled_back" THEN {r.build} ELSE {})]

(* apply_swap_result.  A refusal carries no version.                       *)
Fold(d, r) ==
    IF ~Newer(d, r) THEN d
    ELSE [phase |-> "idle",
          to |-> IF r.outcome = "refused" THEN d.to ELSE VersionOf[r.build],
          outcome |-> r.outcome,
          last |-> r.at,
          rolled |-> d.rolled \cup (IF r.outcome = "rolled_back" THEN {r.build} ELSE {})]

AppReadRequest ==
    /\ app = "idle"
    /\ copy' = Ingest(doc, request)
    /\ app' = "result"
    /\ UNCHANGED <<clock, staged, request, result, stagers, supervisor, doc, history, count>>

(* The document is saved when it changed.  A save that fails, or an app    *)
(* that ends first, loses the copy.                                        *)
AppReadResult ==
    /\ app = "result"
    /\ app' = "idle"
    /\ \/ /\ doc' = Fold(copy, result)
          /\ recorded' = IF Newer(copy, result) THEN result ELSE recorded
          /\ UNCHANGED count
       \/ Suffer("io") /\ UNCHANGED <<doc, recorded>>
    /\ copy' = doc'
    /\ UNCHANGED <<clock, staged, request, result, stagers, supervisor,
                   failed, misled, overlapped>>

StagerStep ==
    \E c \in Client :
        \/ ReadMemory(c) \/ StageExe(c) \/ StageSidecar(c) \/ TakeTime(c)
        \/ DiscardRead(c) \/ DiscardRemove(c) \/ WriteRequest(c)
        \/ AwaitAccept(c) \/ AwaitStale(c) \/ AwaitDrop(c) \/ Quit(c)

SupervisorStep ==
    \/ ReadRequest \/ Refuse \/ AlreadyCurrent \/ BeginSwap \/ EndSwap \/ StopSwap
    \/ PublishResult \/ RemoveRequest \/ Crash

AppStep == AppReadRequest \/ AppReadResult

Next == StagerStep \/ SupervisorStep \/ AppStep

Spec == Init /\ [][Next]_vars

(* The supervisor polls every two seconds and runs a transaction to its    *)
(* end; the app polls every second.                                        *)
FairSpec == Spec /\ WF_vars(SupervisorStep) /\ WF_vars(AppStep)

(***************************************************************************)
(* Properties.                                                             *)
(***************************************************************************)
StagerPlaces == {"idle", "fetch", "sidecar", "now", "discard", "unlink", "write",
                 "wait", "drop"}
SupervisorPlaces == {"poll", "check", "swap", "write", "remove"}

(* Every variable holds a value of its kind.                               *)
TypeOK ==
    /\ clock \in Nat
    /\ staged \in [exe: Build \cup {None}, side: Build \cup {None}]
    /\ request \in Request \cup {NoRequest}
    /\ result \in Result \cup {NoResult}
    /\ step \in [Client -> StagerPlaces]
    /\ pick \in [Client -> Build \cup {None}]
    /\ mem \in [Client -> SUBSET Build]
    /\ at \in [Client -> Nat]
    /\ sup \in SupervisorPlaces
    /\ taken \in Request \cup {NoRequest}
    /\ out \in Result \cup {NoResult}
    /\ current \in Build
    /\ app \in {"idle", "result"}
    /\ copy \in Doc
    /\ doc \in Doc
    /\ failed \subseteq Build
    /\ recorded \in Result \cup {NoResult}
    /\ misled \in BOOLEAN
    /\ overlapped \in BOOLEAN
    /\ runs \in 0..MaxRuns
    /\ faults \in 0..MaxFaults

(* A stager that takes an answer takes the answer to its own request.  In  *)
(* no run: another stager's request meanwhile violates it.                 *)
AnswerIsOwn == ~misled

(* It does so whatever crashes, times out or fails to be written, as long  *)
(* as no second request was under way while it asked.                      *)
OwnAnswerUnlessOverlapped == misled => overlapped

(* state.json never shows an outcome beside a version or a time other than *)
(* those of the result that said so.                                       *)
OutcomeNamesItsResult ==
    doc.outcome \in {"applied", "rolled_back"} =>
        /\ recorded.outcome = doc.outcome
        /\ recorded.at = doc.last
        /\ VersionOf[recorded.build] = doc.to

(* A result that state.json holds never overrides a later request: while   *)
(* it stays on disk, a poll saves no more than the request it read.        *)
RecordedOnce ==
    [][(result # NoResult /\ result = recorded /\ doc' # doc) => doc' = copy]_vars

(* The guard refuses only builds the supervisor did roll back.             *)
OnlyFailedRemembered == doc.rolled \subseteq failed

(* No clock passes this: a run moves it at most twice and has its request  *)
(* read once, or once more after each fault.                               *)
Horizon == 1 + 3 * MaxRuns + MaxFaults

(* A request is answered even if the supervisor crashes at any step of it, *)
(* unless another stager asked in the meantime.                            *)
RequestAnswered ==
    \A c \in Client, t \in 1..Horizon :
        (request.by = c /\ request.at = t)
            ~> (overlapped \/ (result.req.by = c /\ result.req.at = t))

(* A rollback on disk reaches state.json, or is removed or replaced first. *)
RollbackRecorded ==
    \A b \in Build :
        (result.outcome = "rolled_back" /\ result.build = b)
            ~> (b \in doc.rolled \/ result.outcome # "rolled_back" \/ result.build # b)

(* No rollback is forgotten: its result is removed or replaced only after  *)
(* state.json has recorded it.  In no run: a stager that asks before the   *)
(* app has read the result violates it.                                    *)
RollbackKept ==
    [][(result.outcome = "rolled_back" /\ result' # result) => result.build \in doc.rolled]_vars
=============================================================================
