---------------------------- MODULE BaselineSwap ----------------------------
(***************************************************************************)
(* The device supervisor's update transaction (device/launch).             *)
(*                                                                         *)
(* A device keeps its app binary plus three baseline generations on disk:  *)
(* `current` boots, `previous` is what a failed update returns to, and     *)
(* `pending` is a written but unproven candidate.  The supervisor polls    *)
(* for a swap request, stages the candidate, stops the app, installs the   *)
(* candidate, starts it, requires two matching health answers and rotates  *)
(* the generations.  Every disk operation of that path is one step here,   *)
(* so a crash, a failed operation, a service stop or a concurrent stager   *)
(* can fall between any two of them.                                       *)
(*                                                                         *)
(* Abstractions.  A build is a model value: it stands for a version, its   *)
(* digest and the sidecar that signs both.  A generation is a pair of the  *)
(* build in its binary and the build its sidecar signs; a directory that   *)
(* does not exist is the pair of two None.  Copies and sidecar writes go   *)
(* through a temporary sibling and a rename (write_atomic_bytes,           *)
(* copy_file_synced), so they are atomic.  Time is abstracted: a request   *)
(* may be found too old at any poll, a probe may fail for any build.       *)
(*                                                                         *)
(* The definitions that no other one uses (RecordedRewrite,                *)
(* CommitRotateDeletes, ...) are faulty variants of the one that follows   *)
(* them: each breaks a property below.                                     *)
(***************************************************************************)
EXTENDS Naturals

CONSTANTS
    Build,      \* the signed builds
    Seed,       \* the build the installer seeded the device with
    None,       \* no file, no build, no process
    Rotten,     \* bytes that hash to no signed digest
    Budget      \* how often each kind of disturbance may happen

(* The disturbances: a supervisor crash or power loss, a service stop, an  *)
(* app exit, a disk operation that returns an error, a child that does not *)
(* die, a file that rots, and the number of artifacts staged.              *)
Disturbance == {"crash", "stop", "exit", "io", "kill", "rot", "stage"}

ASSUME BuildAssumption == /\ Seed \in Build
                          /\ None \notin Build
                          /\ Rotten \notin Build \cup {None}
ASSUME BudgetAssumption == Budget \in [Disturbance -> Nat]

VARIABLES
    app,        \* the bytes of <install>/summrise-device.exe
    current,    \* baseline/current
    previous,   \* baseline/previous
    pending,    \* baseline/pending
    staged,     \* summrise-device.new.exe and its sidecar, the stager's files
    request,    \* swap.request.json: the build it names
    result,     \* swap.result.json
    repairs,    \* the generations repair.log says the app was repaired from
    stager,     \* the build a stager has written the binary of, not yet the sidecar
    child,      \* the bytes the running app process was started from
    stop,       \* the service stop flag
    pc,         \* where the supervisor is
    cand,       \* the sidecar run_swap holds in memory
    base,       \* the sidecar resolve_baseline returned
    path,       \* "start" on the startup path, "rollback" inside roll_back
    origin,     \* the generation resolve_baseline chose
    answer,     \* the outcome the next publish_result writes
    cont,       \* where publish_result returns to
    proven,     \* history: the seed and every build that passed its probes
    unlogged,   \* history: a startup rebuilt current and repair.log does not say so
    left        \* what is left of Budget

history == <<proven, unlogged>>
disk == <<current, previous, pending>>
files == <<staged, request, result, repairs, stager>>
memory == <<cand, base, path, origin, answer, cont>>
vars == <<app, disk, files, child, stop, pc, memory, history, left>>

(***************************************************************************)
(* Values.                                                                 *)
(***************************************************************************)
Bytes == Build \cup {None, Rotten}
Pair == [exe: Bytes, side: Build \cup {None}]
Absent == [exe |-> None, side |-> None]
Outcome == {"applied", "rolled_back", "refused"}
NoResult == [outcome |-> "none", build |-> None]

(* The pc values, grouped by the function the supervisor is inside.        *)
SwapSteps == {"t_clear", "t_side", "t_exe", "t_stop", "t_install", "t_start"}
CommitSteps == {"c_previous", "c_rotate", "c_promote", "c_sync"}
RestoreSteps == {"b_resolve", "b_side", "b_exe", "b_app", "b_log", "b_spawn"}
PcValues == {"off", "poll", "serve", "t_probe", "x_consume", "p_write",
             "p_remove", "r_kill", "r_discard"}
            \cup SwapSteps \cup CommitSteps \cup RestoreSteps

(* inspect_generation plus the signature check of                          *)
(* resolve_baseline_signed_with: a complete, hash-consistent signed pair.  *)
Usable(pair) == pair.side # None /\ pair.exe = pair.side

(* resolve_baseline: current, then previous, never pending.                *)
Resolved == IF Usable(current) THEN current.side
            ELSE IF Usable(previous) THEN previous.side
            ELSE None
Bootable == Resolved # None

Spend(kind) == /\ left[kind] > 0
               /\ left' = [left EXCEPT ![kind] = @ - 1]

Answered(outcome, next) ==
    /\ answer' = outcome
    /\ cont' = next
    /\ pc' = "p_write"

Init ==
    /\ app = Seed
    /\ current = [exe |-> Seed, side |-> Seed]
    /\ previous = Absent
    /\ pending = Absent
    /\ staged = Absent
    /\ request = None
    /\ result = NoResult
    /\ repairs = {}
    /\ stager = None
    /\ child = None
    /\ stop = FALSE
    /\ pc = "off"
    /\ cand = None
    /\ base = None
    /\ path = "start"
    /\ origin = "current"
    /\ answer = "refused"
    /\ cont = "serve"
    /\ proven = {Seed}
    /\ unlogged = FALSE
    /\ left = Budget

(***************************************************************************)
(* The supervisor loop: supervise.                                         *)
(***************************************************************************)

(* A discard_pending whose error the caller ignores or only logs.          *)
DiscardPending == pending' \in {Absent, pending}

(* A start deletes a leftover pending generation unread.  The first loop   *)
(* iteration always polls.  The stop flag belongs to the process.          *)
Boot ==
    /\ pc = "off"
    /\ pc' = "poll"
    /\ stop' = FALSE
    /\ DiscardPending
    /\ UNCHANGED <<app, current, previous, files, child, memory, history, left>>

(* A clean stop leaves the flag up: `stop` while "off" is a service that    *)
(* the service control manager must not start again.                       *)
StopSeen ==
    /\ pc = "serve" /\ stop
    /\ child' = None
    /\ pc' = "off"
    /\ UNCHANGED <<app, disk, files, stop, memory, history, left>>

PollDue ==
    /\ pc = "serve" /\ ~stop
    /\ pc' = "poll"
    /\ UNCHANGED <<app, disk, files, child, stop, memory, history, left>>

StartDue ==
    /\ pc = "serve" /\ child = None
    /\ path' = "start"
    /\ pc' = "b_resolve"
    /\ UNCHANGED <<app, disk, files, child, stop, history, left,
                   cand, base, origin, answer, cont>>

(* The restart budget is spent: the supervisor returns a failure code and  *)
(* the service control manager's failure actions start it again.           *)
GiveUp ==
    /\ pc = "serve" /\ child = None
    /\ Spend("exit")
    /\ pc' = "off"
    /\ stop' = FALSE
    /\ UNCHANGED <<app, disk, files, child, memory, history>>

(***************************************************************************)
(* poll_swap.                                                              *)
(***************************************************************************)
PollIdle ==
    /\ pc = "poll" /\ request = None
    /\ pc' = "serve"
    /\ UNCHANGED <<app, disk, files, child, stop, memory, history, left>>

(* The request named, the staged sidecar and the staged bytes all agree.   *)
Admissible == Usable(staged) /\ staged.side = request

PollTooOld ==
    /\ pc = "poll" /\ request # None
    /\ cand' = None
    /\ Answered("refused", "serve")
    /\ UNCHANGED <<app, disk, files, child, stop, history, left, base, path, origin>>

PollRefuse ==
    /\ pc = "poll" /\ request # None /\ ~Admissible
    /\ cand' = IF Usable(staged) THEN staged.side ELSE None
    /\ Answered("refused", "serve")
    /\ UNCHANGED <<app, disk, files, child, stop, history, left, base, path, origin>>

PollAnyCurrent ==
    /\ pc = "poll" /\ request # None /\ Admissible
    /\ Usable(current)
    /\ cand' = staged.side
    /\ Answered("applied", "serve")
    /\ UNCHANGED <<app, disk, files, child, stop, history, left, base, path, origin>>

(* current_generation_is: a crash after the commit, before the answer.     *)
PollAlreadyCurrent ==
    /\ pc = "poll" /\ request # None /\ Admissible
    /\ Usable(current) /\ current.side = staged.side
    /\ cand' = staged.side
    /\ Answered("applied", "serve")
    /\ UNCHANGED <<app, disk, files, child, stop, history, left, base, path, origin>>

(* The removal of the old result is best effort.                           *)
PollBegin ==
    /\ pc = "poll" /\ request # None /\ Admissible
    /\ ~(Usable(current) /\ current.side = staged.side)
    /\ cand' = staged.side
    /\ result' \in {NoResult, result}
    /\ pc' = "t_clear"
    /\ UNCHANGED <<app, disk, staged, request, repairs, stager, child, stop,
                   history, left, base, path, origin, answer, cont>>

(***************************************************************************)
(* publish_result: write the result, then remove the request whether or    *)
(* not the write succeeded.                                                *)
(***************************************************************************)
PublishWrite ==
    /\ pc = "p_write"
    /\ pc' = "p_remove"
    /\ \/ /\ result' = [outcome |-> answer, build |-> cand]
          /\ UNCHANGED left
       \/ Spend("io") /\ UNCHANGED result
    /\ UNCHANGED <<app, disk, staged, request, repairs, stager, child, stop,
                   memory, history>>

PublishKeepRefused ==
    /\ pc = "p_remove"
    /\ pc' = cont
    /\ request' = IF answer = "refused" THEN request ELSE None
    /\ UNCHANGED <<app, disk, staged, result, repairs, stager, child, stop,
                   memory, history, left>>

PublishRemove ==
    /\ pc = "p_remove"
    /\ pc' = cont
    /\ \/ request' = None /\ UNCHANGED left
       \/ Spend("io") /\ UNCHANGED request
    /\ UNCHANGED <<app, disk, staged, result, repairs, stager, child, stop,
                   memory, history>>

(***************************************************************************)
(* run_swap: stage_pending, stop_current, install, start, probe.           *)
(***************************************************************************)
SwapClear ==
    /\ pc = "t_clear"
    /\ \/ /\ pending' = Absent
          /\ pc' = "t_side"
          /\ UNCHANGED <<left, answer, cont>>
       \/ /\ Spend("io")
          /\ Answered("refused", "serve")
          /\ UNCHANGED pending
    /\ UNCHANGED <<app, current, previous, files, child, stop, history,
                   cand, base, path, origin>>

SwapSide ==
    /\ pc = "t_side"
    /\ \/ /\ pending' = [exe |-> None, side |-> cand]
          /\ pc' = "t_exe"
          /\ UNCHANGED <<left, answer, cont>>
       \/ /\ Spend("io")
          /\ DiscardPending
          /\ Answered("refused", "serve")
    /\ UNCHANGED <<app, current, previous, files, child, stop, history,
                   cand, base, path, origin>>

(* The staged bytes are copied as they are NOW, then hashed against the    *)
(* sidecar that was verified before: a stager may have replaced them.      *)
SwapExe ==
    /\ pc = "t_exe"
    /\ \/ /\ staged.exe = cand
          /\ pending' = [pending EXCEPT !.exe = staged.exe]
          /\ pc' = "t_stop"
          /\ UNCHANGED <<left, answer, cont>>
       \/ /\ \/ staged.exe # cand /\ UNCHANGED left
             \/ Spend("io")
          /\ DiscardPending
          /\ Answered("refused", "serve")
    /\ UNCHANGED <<app, current, previous, files, child, stop, history,
                   cand, base, path, origin>>

SwapStop ==
    /\ pc = "t_stop"
    /\ \/ /\ child' = None
          /\ pc' = "t_install"
          /\ UNCHANGED <<pending, left, answer, cont>>
       \/ /\ child # None
          /\ Spend("kill")
          /\ DiscardPending
          /\ Answered("refused", "serve")
          /\ UNCHANGED child
    /\ UNCHANGED <<app, current, previous, files, stop, history,
                   cand, base, path, origin>>

SwapAbandonRunning ==
    /\ pc \in {"t_install", "t_start", "t_probe"} /\ stop
    /\ pending' = Absent
    /\ pc' = "x_consume"
    /\ UNCHANGED <<app, current, previous, files, child, stop, memory, history,
                   left>>

(* A stop before the install, before the start or during the probe         *)
(* abandons the transaction: kill the candidate, discard pending, and      *)
(* consume the request without an answer.  A candidate that does not die   *)
(* ends with the supervisor's job.                                         *)
SwapAbandon ==
    /\ pc \in {"t_install", "t_start", "t_probe"} /\ stop
    /\ \/ child' = None /\ UNCHANGED left
       \/ child # None /\ Spend("kill") /\ UNCHANGED child
    /\ DiscardPending
    /\ pc' = "x_consume"
    /\ UNCHANGED <<app, current, previous, files, stop, memory, history>>

ConsumeRequest ==
    /\ pc = "x_consume"
    /\ \/ request' = None /\ UNCHANGED left
       \/ Spend("io") /\ UNCHANGED request
    /\ child' = None
    /\ pc' = "off"
    /\ UNCHANGED <<app, disk, staged, result, repairs, stager, stop, memory,
                   history>>

RollBack == Answered("rolled_back", "r_kill")

(* The copy over the app is not atomic: a failure may leave part of it.    *)
SwapInstall ==
    /\ pc = "t_install" /\ ~stop
    /\ \/ /\ app' = cand
          /\ pc' = "t_start"
          /\ UNCHANGED <<left, answer, cont>>
       \/ /\ Spend("io")
          /\ app' \in {app, Rotten, cand}
          /\ RollBack
    /\ UNCHANGED <<disk, files, child, stop, history, cand, base, path, origin>>

SwapStartUnprobed ==
    /\ pc = "t_start" /\ ~stop /\ app = cand
    /\ child' = cand
    /\ pc' = "c_previous"
    /\ UNCHANGED <<app, disk, files, stop, memory, history, left>>

(* The app is started as it is on disk; bytes that have rotted since the   *)
(* install may or may not start.                                           *)
SwapStart ==
    /\ pc = "t_start" /\ ~stop
    /\ \/ /\ app # None
          /\ child' = app
          /\ pc' = "t_probe"
          /\ UNCHANGED <<left, answer, cont>>
       \/ /\ \/ app \in {None, Rotten} /\ UNCHANGED left
             \/ Spend("io")
          /\ RollBack
          /\ UNCHANGED child
    /\ UNCHANGED <<app, disk, files, stop, history, cand, base, path, origin>>

(* wait_healthy: two matching answers from the started pid and version.    *)
ProbePassed ==
    /\ pc = "t_probe" /\ child = cand
    /\ proven' = proven \cup {cand}
    /\ pc' = "c_previous"
    /\ UNCHANGED <<app, disk, files, child, stop, memory, unlogged, left>>

ProbeFailedIgnored ==
    /\ pc = "t_probe" /\ ~stop
    /\ pc' = "c_previous"
    /\ UNCHANGED <<app, disk, files, child, stop, memory, history, left>>

ProbeFailed ==
    /\ pc = "t_probe" /\ ~stop
    /\ RollBack
    /\ UNCHANGED <<app, disk, files, child, stop, history, left,
                   cand, base, path, origin>>

(***************************************************************************)
(* commit_pending: delete previous, current -> previous, pending ->        *)
(* current, flush.                                                         *)
(***************************************************************************)
(* The directory is removed file by file, in no particular order.          *)
CommitDeletePrevious ==
    /\ pc = "c_previous"
    /\ \/ /\ previous' \in {[previous EXCEPT !.exe = None],
                           [previous EXCEPT !.side = None]}
          /\ UNCHANGED <<pc, left, answer, cont>>
       \/ /\ previous' = Absent
          /\ pc' = "c_rotate"
          /\ UNCHANGED <<left, answer, cont>>
       \/ /\ Spend("io")
          /\ previous' \in {previous, Absent}
          /\ RollBack
    /\ UNCHANGED <<app, current, pending, files, child, stop, history,
                   cand, base, path, origin>>

CommitRotateDeletes ==
    /\ pc = "c_rotate"
    /\ current' = Absent
    /\ pc' = "c_promote"
    /\ UNCHANGED <<app, previous, pending, files, child, stop, memory, history,
                   left>>

CommitRotate ==
    /\ pc = "c_rotate"
    /\ \/ /\ current # Absent
          /\ previous' = current /\ current' = Absent
          /\ pc' = "c_promote"
          /\ UNCHANGED <<left, answer, cont>>
       \/ /\ current = Absent
          /\ pc' = "c_promote"
          /\ UNCHANGED <<current, previous, left, answer, cont>>
       \/ /\ current # Absent
          /\ Spend("io")
          /\ \/ UNCHANGED <<current, previous>>
             \/ previous' = current /\ current' = Absent
          /\ RollBack
    /\ UNCHANGED <<app, pending, files, child, stop, history,
                   cand, base, path, origin>>

CommitPromoteForgets ==
    /\ pc = "c_promote"
    /\ \/ /\ current' = pending /\ pending' = Absent
          /\ pc' = "c_sync"
          /\ UNCHANGED <<previous, left, answer, cont>>
       \/ /\ Spend("io")
          /\ previous' = Absent
          /\ RollBack
          /\ UNCHANGED <<current, pending>>
    /\ UNCHANGED <<app, files, child, stop, history, cand, base, path, origin>>

(* A failed promotion reverses the rotation; the reversal is best effort.  *)
CommitPromote ==
    /\ pc = "c_promote"
    /\ \/ /\ current' = pending /\ pending' = Absent
          /\ pc' = "c_sync"
          /\ UNCHANGED <<previous, left, answer, cont>>
       \/ /\ Spend("io")
          /\ \/ /\ current = Absent /\ previous # Absent
                /\ current' = previous /\ previous' = Absent
             \/ UNCHANGED <<current, previous>>
          /\ RollBack
          /\ UNCHANGED pending
    /\ UNCHANGED <<app, files, child, stop, history, cand, base, path, origin>>

(* The directory flushes after the promotion: an error is returned too.    *)
CommitSync ==
    /\ pc = "c_sync"
    /\ \/ Answered("applied", "serve") /\ UNCHANGED left
       \/ Spend("io") /\ RollBack
    /\ UNCHANGED <<app, disk, files, child, stop, history,
                   cand, base, path, origin>>

(***************************************************************************)
(* roll_back: publish (above), kill the candidate, discard pending,        *)
(* restore and start the resolved baseline, then publish again.            *)
(***************************************************************************)
RollBackKill ==
    /\ pc = "r_kill"
    /\ \/ /\ child' = None
          /\ pc' = "r_discard"
          /\ UNCHANGED <<left, answer, cont>>
       \/ /\ child # None
          /\ Spend("kill")
          /\ Answered("rolled_back", "serve")
          /\ UNCHANGED child
    /\ UNCHANGED <<app, disk, files, stop, history, cand, base, path, origin>>

RollBackDiscard ==
    /\ pc = "r_discard"
    /\ DiscardPending
    /\ path' = "rollback"
    /\ pc' = "b_resolve"
    /\ UNCHANGED <<app, current, previous, files, child, stop, history,
                   left, cand, base, origin, answer, cont>>

(***************************************************************************)
(* start_supervised_child and start_current: resolve a generation, rebuild *)
(* current from previous when current is unusable, repair the app from it, *)
(* record the repair (startup only) and start the app.                     *)
(***************************************************************************)
RestoreFailed ==
    IF path = "rollback"
    THEN Answered("rolled_back", "serve")
    ELSE pc' = "serve" /\ UNCHANGED <<answer, cont>>

ResolveCurrent ==
    /\ pc = "b_resolve" /\ Usable(current)
    /\ base' = current.side
    /\ origin' = "current"
    /\ pc' = "b_app"
    /\ UNCHANGED <<app, disk, files, child, stop, history, left,
                   cand, path, answer, cont>>

ResolvePrevious ==
    /\ pc = "b_resolve" /\ ~Usable(current) /\ Usable(previous)
    /\ base' = previous.side
    /\ origin' = "previous"
    /\ pc' = "b_side"
    /\ UNCHANGED <<app, disk, files, child, stop, history, left,
                   cand, path, answer, cont>>

ResolveNeedsHuman ==
    /\ pc = "b_resolve" /\ ~Bootable
    /\ RestoreFailed
    /\ UNCHANGED <<app, disk, files, child, stop, history, left,
                   cand, base, path, origin>>

RestoreSide ==
    /\ pc = "b_side"
    /\ \/ /\ current' = [current EXCEPT !.side = base]
          /\ pc' = "b_exe"
          /\ UNCHANGED <<left, answer, cont>>
       \/ Spend("io") /\ RestoreFailed /\ UNCHANGED current
    /\ UNCHANGED <<app, previous, pending, files, child, stop, history,
                   cand, base, path, origin>>

RestoreExe ==
    /\ pc = "b_exe"
    /\ \/ /\ current' = [current EXCEPT !.exe = previous.exe]
          /\ IF previous.exe = base
             THEN /\ pc' = "b_app"
                  /\ unlogged' = (unlogged \/ path = "start")
                  /\ UNCHANGED <<answer, cont>>
             ELSE RestoreFailed /\ UNCHANGED unlogged
          /\ UNCHANGED left
       \/ /\ Spend("io")
          /\ RestoreFailed
          /\ \/ UNCHANGED <<current, unlogged>>
             \/ /\ current' = [current EXCEPT !.exe = previous.exe]
                /\ unlogged' = (unlogged \/ (path = "start" /\ previous.exe = base))
    /\ UNCHANGED <<app, previous, pending, files, child, stop, proven,
                   cand, base, path, origin>>

RecordedRewrite == path = "start" /\ app # base

(* verify_or_restore: the app is rewritten only when it does not hash to   *)
(* the baseline's digest, from baseline bytes that do.                     *)
Recorded == path = "start" /\ (app # base \/ origin = "previous")

RestoreAppNever ==
    /\ pc = "b_app"
    /\ IF app = base
       THEN pc' = "b_spawn" /\ UNCHANGED <<answer, cont>>
       ELSE RestoreFailed
    /\ UNCHANGED <<app, disk, files, child, stop, history, left, cand, base,
                   path, origin>>

RestoreApp ==
    /\ pc = "b_app"
    /\ \/ /\ app = base \/ current.exe = base
          /\ app' = base
          /\ pc' = IF Recorded THEN "b_log" ELSE "b_spawn"
          /\ UNCHANGED <<left, answer, cont>>
       \/ /\ app # base
          /\ \/ current.exe # base /\ UNCHANGED left
             \/ Spend("io")
          /\ RestoreFailed
          /\ UNCHANGED app
    /\ UNCHANGED <<disk, files, child, stop, history, cand, base, path, origin>>

LogRepair ==
    /\ pc = "b_log"
    /\ \/ /\ repairs' = repairs \cup {origin}
          /\ unlogged' = (unlogged /\ origin # "previous")
          /\ UNCHANGED left
       \/ Spend("io") /\ UNCHANGED <<repairs, unlogged>>
    /\ pc' = "b_spawn"
    /\ UNCHANGED <<app, disk, staged, request, result, stager, child, stop,
                   memory, proven>>

SpawnBaseline ==
    /\ pc = "b_spawn"
    /\ \/ /\ app # None
          /\ child' = app
          /\ IF path = "rollback"
             THEN Answered("rolled_back", "serve")
             ELSE pc' = "serve" /\ UNCHANGED <<answer, cont>>
          /\ UNCHANGED left
       \/ /\ \/ app \in {None, Rotten} /\ UNCHANGED left
             \/ Spend("io")
          /\ RestoreFailed
          /\ UNCHANGED child
    /\ UNCHANGED <<app, disk, files, stop, history, cand, base, path, origin>>

(***************************************************************************)
(* The environment.                                                        *)
(***************************************************************************)

(* The child lives in a kill-on-close job: it dies with the supervisor,    *)
(* and everything the supervisor held in memory is gone.  A crash during   *)
(* the copy over the app leaves part of it.                                *)
Crash ==
    /\ pc # "off"
    /\ Spend("crash")
    /\ pc' = "off"
    /\ child' = None
    /\ cand' = None /\ base' = None
    /\ path' = "start" /\ origin' = "current"
    /\ answer' = "refused" /\ cont' = "serve"
    /\ app' \in IF pc = "t_install" /\ ~stop THEN {app, Rotten} ELSE {app}
    /\ stop' = FALSE
    /\ UNCHANGED <<disk, files, history>>

StopRequested ==
    /\ pc # "off" /\ ~stop
    /\ Spend("stop")
    /\ stop' = TRUE
    /\ UNCHANGED <<app, disk, files, child, pc, memory, history>>

ChildExits ==
    /\ child # None
    /\ Spend("exit")
    /\ child' = None
    /\ UNCHANGED <<app, disk, files, stop, pc, memory, history>>

(* Bit rot, an antivirus quarantine or an operator's delete takes the      *)
(* bytes of the app, of current or of previous.                            *)
Rot ==
    /\ Spend("rot")
    /\ \/ app' = Rotten /\ UNCHANGED <<current, previous>>
       \/ /\ current # Absent
          /\ current' = [current EXCEPT !.exe = Rotten]
          /\ UNCHANGED <<app, previous>>
       \/ /\ previous # Absent
          /\ previous' = [previous EXCEPT !.exe = Rotten]
          /\ UNCHANGED <<app, current>>
    /\ UNCHANGED <<pending, files, child, stop, pc, memory, history>>

(* stage: the binary first, the sidecar last.                              *)
StageExe(b) ==
    /\ stager = None
    /\ Spend("stage")
    /\ stager' = b
    /\ staged' = [staged EXCEPT !.exe = b]
    /\ UNCHANGED <<app, disk, request, result, repairs, child, stop, pc,
                   memory, history>>

(* The sidecar completes the pair; request_swap then discards a result     *)
(* older than the request and writes the request.                          *)
StageSidecar ==
    /\ stager # None
    /\ staged' = [staged EXCEPT !.side = stager]
    /\ stager' = None
    /\ \/ request' = stager /\ result' = NoResult
       \/ UNCHANGED <<request, result>>
    /\ UNCHANGED <<app, disk, repairs, child, stop, pc, memory, history, left>>

Polling == PollIdle \/ PollTooOld \/ PollRefuse \/ PollAlreadyCurrent \/ PollBegin
Publishing == PublishWrite \/ PublishRemove
Swapping == \/ SwapClear \/ SwapSide \/ SwapExe \/ SwapStop \/ SwapAbandon
            \/ ConsumeRequest \/ SwapInstall \/ SwapStart
            \/ ProbePassed \/ ProbeFailed
Committing == \/ CommitDeletePrevious \/ CommitRotate \/ CommitPromote
              \/ CommitSync
Restoring == \/ ResolveCurrent \/ ResolvePrevious \/ ResolveNeedsHuman
             \/ RestoreSide \/ RestoreExe \/ RestoreApp \/ LogRepair
             \/ SpawnBaseline
RollingBack == RollBackKill \/ RollBackDiscard

(* The service control manager restarts a supervisor that failed; one that *)
(* was stopped waits for an operator or a reboot.                          *)
StoppedCleanly == pc = "off" /\ stop
Restarted == Boot /\ ~StoppedCleanly
Started == Boot /\ StoppedCleanly

Supervisor == \/ Restarted \/ StopSeen \/ PollDue \/ StartDue
              \/ Polling \/ Publishing \/ Swapping \/ Committing
              \/ RollingBack \/ Restoring

Environment == \/ Crash \/ StopRequested \/ ChildExits \/ GiveUp \/ Rot
               \/ (\E b \in Build : StageExe(b)) \/ StageSidecar \/ Started

Next == Supervisor \/ Environment

Spec == Init /\ [][Next]_vars

(* The supervisor is a process that keeps running and the service manager  *)
(* starts it again when it fails; nobody is obliged to start a service     *)
(* that was stopped (win.rs:512).  Every iteration of its loop checks the  *)
(* stop flag, and it polls every SWAP_POLL_INTERVAL and starts a missing   *)
(* app after its backoff: none of the three starves the others.            *)
FairSpec == /\ Spec
            /\ WF_vars(Supervisor)
            /\ SF_vars(StopSeen)
            /\ SF_vars(PollDue)
            /\ SF_vars(StartDue)

(***************************************************************************)
(* Properties.                                                             *)
(***************************************************************************)

(* Every variable holds a value of its kind.                               *)
TypeOK ==
    /\ app \in Bytes
    /\ current \in Pair /\ previous \in Pair /\ pending \in Pair
    /\ staged \in Pair
    /\ request \in Build \cup {None}
    /\ result \in [outcome: Outcome, build: Build \cup {None}] \cup {NoResult}
    /\ repairs \subseteq {"current", "previous"}
    /\ stager \in Build \cup {None}
    /\ child \in Bytes
    /\ stop \in BOOLEAN
    /\ pc \in PcValues
    /\ cand \in Build \cup {None}
    /\ base \in Build \cup {None}
    /\ path \in {"start", "rollback"}
    /\ origin \in {"current", "previous"}
    /\ answer \in Outcome
    /\ cont \in {"serve", "r_kill"}
    /\ proven \subseteq Build
    /\ unlogged \in BOOLEAN
    /\ left \in [Disturbance -> Nat]

(* Only proven builds boot: whatever crashes, failed operations and        *)
(* concurrent stagers do, the sidecar of a generation that can boot names  *)
(* the seed or a build whose probes passed (resolve_baseline's "never      *)
(* pending", lib.rs:1197).                                                 *)
TrustedGenerations ==
    /\ current.side \in proven \cup {None}
    /\ previous.side \in proven \cup {None}

(* A binary is never paired with another build's sidecar: the bytes of a   *)
(* generation are those its sidecar signs, or bytes no sidecar signs       *)
(* (stage_pending's digest check, the order of restore_previous_into_      *)
(* current).                                                               *)
GenerationsIntact ==
    /\ current.exe \in {current.side, None, Rotten}
    /\ previous.exe \in {previous.side, None, Rotten} \/ previous.side = None

(* A build that passed no probe runs only while it is being probed or      *)
(* while its rollback has not yet killed it, unless a termination failed   *)
(* (run_swap and roll_back in win.rs).                                     *)
UnprovenOnlyUnderProbe ==
    child \notin proven \cup {None, Rotten} =>
        \/ pc \in {"t_probe", "r_kill"}
        \/ pc \in {"p_write", "p_remove"} /\ cont = "r_kill"
        \/ left["kill"] < Budget["kill"]

(* `applied` is never said early: when the supervisor publishes it, the    *)
(* named build was probed, and it was the committed current generation     *)
(* unless a file has rotted (win.rs poll_swap, SwapOutcome::Applied).      *)
AppliedIsCommitted ==
    [][result' # result /\ result'.outcome = "applied" =>
         /\ result'.build \in proven
         /\ current.side = result'.build
         /\ Usable(current) \/ left["rot"] < Budget["rot"]]_vars

(* The supervisor never destroys the last bootable generation, with one    *)
(* exception: commit_pending deletes previous without looking at current,  *)
(* so a commit that begins while current is unusable does.                 *)
BootableKept ==
    [][Bootable => \/ Bootable'
                   \/ pc = "c_previous" /\ ~Usable(current)
                   \/ (left["rot"])' < left["rot"]]_vars

RotHappened == left["rot"] < Budget["rot"]
Rots == Budget["rot"] - left["rot"]
Failures == (Budget["crash"] - left["crash"]) + (Budget["io"] - left["io"])

(* After one crash or one failed disk operation, and while no file rots,   *)
(* the device still has a generation to boot whenever the supervisor is    *)
(* down, polling or serving (lib.rs:1580, "the order is the transaction"). *)
BootableAtRest ==
    Failures <= 1 /\ ~RotHappened /\ pc \in {"off", "poll", "serve"} => Bootable

(* Neither a crash, a rollback nor a failed operation ever brings another  *)
(* build back: what boots changes to a build only by promoting the probed  *)
(* candidate, or in the very step in which a file of a generation rots.    *)
BootsAnotherBuildOnlyByPromotion ==
    [][Resolved' \notin {Resolved, None} =>
         \/ pc = "c_promote" /\ Resolved' = cand /\ cand \in proven
         \/ (left["rot"])' < left["rot"]]_vars

(* A rolled_back answer means that the failed build is not what boots:     *)
(* "the previous generation is `current` and is serving again"             *)
(* (lib.rs:1998).  In no run: a directory flush that fails after the       *)
(* promotion violates it.                                                  *)
RolledBackIsNotCurrent ==
    pc = "serve" /\ result.outcome = "rolled_back" => Resolved # result.build

(* "a device that comes back from the previous generation always leaves    *)
(* the evidence behind" (lib.rs:1671): unless the supervisor crashed or    *)
(* the log could not be written, an app started at startup never runs      *)
(* while the rebuild of current from previous is missing from repair.log.  *)
(* A second file that rots is excused: current, once more unusable before  *)
(* the app is repaired from it, ends the start before the record.          *)
RestoredFromPreviousIsLogged ==
    Failures = 0 /\ Rots <= 1 /\ pc = "serve" /\ child # None => ~unlogged

(* A crash inside commit_pending leaves a bootable generation behind       *)
(* (lib.rs:1580-1582).                                                     *)
CrashInCommitLeavesBootable ==
    [][(pc \in CommitSteps /\ pc' = "off") => (Bootable)']_vars

(* The refinement: the transaction implements UpdateTrial.  The candidate  *)
(* is on trial from poll_swap's acceptance to the promotion or rollback.   *)
OnTrial == pc \in SwapSteps \cup {"t_probe"} \cup (CommitSteps \ {"c_sync"})
Trial == INSTANCE UpdateTrial
           WITH trusted <- Resolved,
                trial <- IF OnTrial THEN cand ELSE None,
                proven <- proven,
                MayRot <- Budget["rot"] > 0
ImplementsUpdateTrial == Trial!Spec

(* Every request is taken off the disk, answered, refused or abandoned,    *)
(* unless the service is stopped first; then the next start polls it       *)
(* (poll_swap, publish_result).                                            *)
RequestConsumed ==
    \A b \in Build : request = b ~> (request # b \/ StoppedCleanly)

(* The app is brought back whenever a generation can boot, however the     *)
(* supervisor failed, until the service is stopped (supervise).            *)
AppComesBack == child = None ~> (child # None \/ ~Bootable \/ StoppedCleanly)

(***************************************************************************)
(* The inductive strengthening of the safety properties.                   *)
(***************************************************************************)

(* pending is the candidate's pair from the staged copy to the promotion.  *)
PendingIsCandidate ==
    /\ pc = "t_exe" => pending.side = cand
    /\ pc \in {"t_stop", "t_install", "t_start", "t_probe",
              "c_previous", "c_rotate", "c_promote"}
         => pending.exe = cand /\ pending.side = cand

(* What the commit has already done to current and previous.               *)
CommitProgress ==
    /\ pc \in CommitSteps => cand \in proven
    /\ pc = "c_rotate" => previous = Absent
    /\ pc = "c_promote" => /\ current = Absent
                           /\ previous.exe \in {previous.side, None, Rotten}
    /\ pc = "c_sync" \/ (pc = "p_write" /\ answer = "applied")
         => /\ cand \in proven
            /\ current.side = cand
            /\ current.exe = cand \/ RotHappened

(* What a restore has already done: current is rebuilt from previous,      *)
(* sidecar first, from a generation that was usable when it was resolved.  *)
RestoreProgress ==
    /\ pc \in RestoreSteps \ {"b_resolve"} => base \in proven
    /\ pc \in {"b_side", "b_exe"}
         => previous.side = base /\ (previous.exe = base \/ RotHappened)
    /\ pc \in {"b_side", "b_exe"} => ~Usable(current)
    /\ pc = "b_exe" => current.side = base
    /\ pc \in {"b_log", "b_spawn"} => app \in {base, Rotten}

BudgetOnlyShrinks == \A k \in Disturbance : left[k] <= Budget[k]

SwapInv == /\ Seed \in proven
           /\ TrustedGenerations
           /\ UnprovenOnlyUnderProbe
           /\ PendingIsCandidate
           /\ CommitProgress
           /\ RestoreProgress
           /\ GenerationsIntact
           /\ BudgetOnlyShrinks
=============================================================================
