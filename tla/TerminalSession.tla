--------------------------- MODULE TerminalSession ---------------------------
(***************************************************************************)
(* One pseudo-terminal session of the device, as it runs on Linux: the     *)
(* shell and the background jobs it leaves, the thread that drains their   *)
(* output and notices the end, the tasks that write the clients' input,    *)
(* and the close that tears it all down while they run.                    *)
(*                                                                         *)
(* The reader and the close share the handle of the child (a lock: only    *)
(* its holder waits for the shell or signals its session) and the output   *)
(* (`eof`, `closed`).  A pid stays the shell's until somebody has reaped   *)
(* it; after that the kernel may give it to another process, but not while *)
(* a member of the session still bears it as its session id.               *)
(*                                                                         *)
(* The terminal outlives the shell: every job that has it open may go on   *)
(* writing to it, also one that left the session, and the reader's read    *)
(* ends, like a blocked write, only when the last of them has closed it.   *)
(*                                                                         *)
(* Output and input are counted, in reads and in chunks.  The rows of      *)
(* state.json that come and go with a session are StateDocument's.         *)
(*                                                                         *)
(* EndsAtExit, KillsGroupOnly, ReleaseOnTimeout, SignalsAlways,            *)
(* ReadsEndRetries and WaitsForReader are faulty variants: each breaks a   *)
(* property below, which shows that the property is earned.                *)
(***************************************************************************)
EXTENDS Naturals, Sequences, FiniteSets

CONSTANTS
    Job,        \* processes the shell and its jobs start in the background
    MaxOutput,  \* how much the session writes
    MaxWrites,  \* calls of terminal.write
    Chunks      \* WRITE_CHUNK_BYTES chunks in each

ASSUME BoundAssumption == /\ MaxOutput \in Nat
                          /\ MaxWrites \in Nat
                          /\ Chunks \in Nat \ {0}

Write == 1 .. MaxWrites

VARIABLES
    shell,      \* "running", "leaving" (its files are closed), "zombie", "reaped"
    killed,     \* it was sent SIGKILL
    job,        \* "unborn", "gone", or what it keeps (JobStates)
    recycled,   \* the shell's pid is another process's
    produced,   \* what the session wrote to its terminal
    total,      \* what the reader appended to the ring
    eof, closed, \* Output
    end,        \* the exit status was published with the end
    reader,     \* where the reader thread is
    session,    \* where the session is, from "live" to "dropped"
    holder,     \* who holds the child's lock
    scan,       \* the members its holder found and has not signalled yet
    toldEnd,    \* a client was told that the session is not alive
    task,       \* the task of each write
    told,       \* what its caller was told
    gate,       \* write_gate
    input,      \* the chunks the terminal took, by write
    raced,      \* history: jobs started while a scan was acted upon, and theirs
    struck      \* history: who signalled another process's pid

processVars == <<shell, killed, job, recycled, raced>>
outputVars == <<total, eof, closed, end>>
closeVars == <<reader, session, holder, scan, struck>>
writeVars == <<task, told, gate, input>>
vars == <<processVars, produced, outputVars, closeVars, toldEnd, writeVars>>

\* A job belongs to the session and has its terminal open ("member"), has closed
\* the terminal ("quiet"), or has the terminal open in a session of its own
\* ("left").  One that has neither is "gone", like one that died.
JobStates == {"unborn", "member", "quiet", "left", "gone"}
Members == {j \in Job : job[j] \in {"member", "quiet"}}
Holders == {j \in Job : job[j] \in {"member", "left"}}

TypeOK ==
    /\ shell \in {"running", "leaving", "zombie", "reaped"}
    /\ killed \in BOOLEAN
    /\ job \in [Job -> JobStates]
    /\ recycled \in BOOLEAN
    /\ produced \in 0 .. MaxOutput
    /\ total \in 0 .. produced
    /\ eof \in BOOLEAN /\ closed \in BOOLEAN
    /\ end \in BOOLEAN
    /\ reader \in {"top", "blocked", "ended", "signalling", "reaping", "done"}
    /\ session \in {"live", "removed", "closing", "signalling", "waiting", "dropped"}
    /\ holder \in {"nobody", "reader", "close"}
    /\ scan \subseteq Job
    /\ toldEnd \in BOOLEAN
    /\ task \in [Write -> {"none", "parked", "writing", "written", "late", "failed"}]
    /\ told \in [Write -> {"none", "ok", "busy", "timeout", "error"}]
    /\ gate \in BOOLEAN
    /\ input \in Seq(Write)
    /\ raced \subseteq Job
    /\ struck \subseteq {"reader", "close"}

\* spawn_pty.
Init ==
    /\ shell = "running" /\ killed = FALSE
    /\ job = [j \in Job |-> "unborn"]
    /\ recycled = FALSE
    /\ produced = 0 /\ total = 0
    /\ eof = FALSE /\ closed = FALSE /\ end = FALSE
    /\ reader = "top" /\ session = "live" /\ holder = "nobody" /\ scan = {}
    /\ toldEnd = FALSE
    /\ task = [w \in Write |-> "none"]
    /\ told = [w \in Write |-> "none"]
    /\ gate = FALSE
    /\ input = <<>>
    /\ raced = {} /\ struck = {}

-----------------------------------------------------------------------------
(* The processes of the session, and the kernel.                           *)

\* Nobody has the terminal open any more, and nobody will again.
HungUp == shell # "running" /\ Holders = {}

\* The shell writes, or whoever else has the terminal open.
Produce ==
    /\ ~HungUp
    /\ produced < MaxOutput
    /\ produced' = produced + 1
    /\ UNCHANGED <<processVars, outputVars, closeVars, toldEnd, writeVars>>

\* A job in a process group of its own, of the shell or of another job, whose
\* session and terminal it inherits.
Fork(j) ==
    /\ job[j] = "unborn"
    /\ \/ /\ shell = "running" /\ ~killed
          /\ job' = [job EXCEPT ![j] = "member"]
          /\ UNCHANGED raced
       \/ \E parent \in Members \cup Holders :
             /\ job' = [job EXCEPT ![j] = job[parent]]
             /\ raced' = IF session = "signalling" \/ parent \in raced
                         THEN raced \cup {j} ELSE raced
    /\ UNCHANGED <<shell, killed, recycled, produced, outputVars, closeVars,
                   toldEnd, writeVars>>

\* It calls setsid, closes the terminal, or dies.
JobLeaves(j) ==
    /\ \/ /\ job[j] = "member"
          /\ \E s \in {"left", "quiet", "gone"} : job' = [job EXCEPT ![j] = s]
       \/ /\ job[j] \in {"left", "quiet"}
          /\ job' = [job EXCEPT ![j] = "gone"]
    /\ UNCHANGED <<shell, killed, recycled, raced, produced, outputVars,
                   closeVars, toldEnd, writeVars>>

\* The shell is on its way out: it has closed its terminal before anybody can
\* wait for it.
ShellLeaves ==
    /\ shell = "running"
    /\ shell' = "leaving"
    /\ UNCHANGED <<killed, job, recycled, raced, produced, outputVars, closeVars,
                   toldEnd, writeVars>>

ShellDies ==
    /\ shell = "leaving"
    /\ shell' = "zombie"
    /\ UNCHANGED <<killed, job, recycled, raced, produced, outputVars, closeVars,
                   toldEnd, writeVars>>

Recycle ==
    /\ shell = "reaped" /\ Members = {}
    /\ recycled' = TRUE
    /\ UNCHANGED <<shell, killed, job, raced, produced, outputVars, closeVars,
                   toldEnd, writeVars>>

-----------------------------------------------------------------------------
(* kill_session: the group of the shell, the members of its session that   *)
(* /proc listed, and the shell.                                            *)

KillsGroupOnly(who) ==
    /\ killed' = (killed \/ shell \in {"running", "leaving"})
    /\ scan' = {}
    /\ struck' = IF recycled THEN struck \cup {who} ELSE struck

Signals(who) ==
    /\ killed' = (killed \/ shell \in {"running", "leaving"})
    /\ scan' = Members
    /\ struck' = IF recycled THEN struck \cup {who} ELSE struck

\* A listed job that calls setsid before its turn is killed all the same.
SignalsScanned == job' = [j \in Job |-> IF j \in scan THEN "gone" ELSE job[j]]

-----------------------------------------------------------------------------
(* drain_reader.                                                           *)

ReaderLooks ==
    /\ reader = "top"
    /\ reader' = IF closed THEN "done" ELSE "blocked"
    /\ UNCHANGED <<processVars, produced, outputVars, session, holder, scan, struck,
                   toldEnd, writeVars>>

ReadsChunk ==
    /\ reader = "blocked"
    /\ total' \in (total + 1) .. produced
    /\ reader' = "top"
    /\ UNCHANGED <<processVars, produced, eof, closed, end, session, holder, scan,
                   struck, toldEnd, writeVars>>

EndsAtExit ==
    /\ reader = "blocked"
    /\ shell # "running"
    /\ reader' = "ended"
    /\ UNCHANGED <<processVars, produced, outputVars, session, holder, scan, struck,
                   toldEnd, writeVars>>

ReadsEndRetries ==
    /\ reader = "blocked"
    /\ HungUp /\ total = produced
    /\ reader' = "top"
    /\ UNCHANGED <<processVars, produced, outputVars, session, holder, scan, struck,
                   toldEnd, writeVars>>

\* The master fails to read once nobody has the terminal open and it is drained.
ReadsEnd ==
    /\ reader = "blocked"
    /\ HungUp /\ total = produced
    /\ reader' = "ended"
    /\ UNCHANGED <<processVars, produced, outputVars, session, holder, scan, struck,
                   toldEnd, writeVars>>

SignalsAlways ==
    /\ reader = "ended" /\ holder = "nobody"
    /\ holder' = "reader"
    /\ reader' = "signalling"
    /\ Signals("reader")
    /\ UNCHANGED <<shell, job, recycled, raced, produced, outputVars, session,
                   toldEnd, writeVars>>

\* With the child's lock; the session is signalled unless it is being closed.
ReaderLocks ==
    /\ reader = "ended" /\ holder = "nobody"
    /\ holder' = "reader"
    /\ IF closed
       THEN reader' = "reaping" /\ UNCHANGED <<killed, scan, struck>>
       ELSE reader' = "signalling" /\ Signals("reader")
    /\ UNCHANGED <<shell, job, recycled, raced, produced, outputVars, session,
                   toldEnd, writeVars>>

ReaderSignals ==
    /\ reader = "signalling"
    /\ SignalsScanned
    /\ scan' = {}
    /\ reader' = "reaping"
    /\ UNCHANGED <<shell, killed, recycled, raced, produced, outputVars, session,
                   holder, struck, toldEnd, writeVars>>

\* One try_wait, and the end is published.  A shell that nobody can wait for
\* yet is left to the close; one that was reaped has its status kept.
ReaderReaps ==
    /\ reader = "reaping"
    /\ shell' = IF shell = "zombie" THEN "reaped" ELSE shell
    /\ end' = (shell' = "reaped")
    /\ eof' = TRUE
    /\ reader' = "done"
    /\ holder' = "nobody"
    /\ UNCHANGED <<killed, job, recycled, raced, produced, total, closed, session,
                   scan, struck, toldEnd, writeVars>>

-----------------------------------------------------------------------------
(* close and sweep_idle, and the drop of the session.                      *)

Remove ==
    /\ session = "live"
    /\ session' = "removed"
    /\ UNCHANGED <<processVars, produced, outputVars, reader, holder, scan, struck,
                   toldEnd, writeVars>>

DropBegins ==
    /\ session = "removed"
    /\ session' = "closing"
    /\ closed' = TRUE
    /\ UNCHANGED <<processVars, produced, total, eof, end, reader, holder, scan, struck,
                   toldEnd, writeVars>>

\* PtyBackend::close: try_wait reaps a shell that can be waited for, and answers
\* the same for one the reader reaped long ago; the session is signalled in
\* every case.
DropSignals ==
    /\ session = "closing" /\ holder = "nobody"
    /\ holder' = "close"
    /\ session' = "signalling"
    /\ shell' = IF shell = "zombie" THEN "reaped" ELSE shell
    /\ Signals("close")
    /\ UNCHANGED <<job, recycled, raced, produced, outputVars, reader,
                   toldEnd, writeVars>>

DropSignalsScanned ==
    /\ session = "signalling"
    /\ SignalsScanned
    /\ scan' = {}
    /\ session' = "waiting"
    /\ UNCHANGED <<shell, killed, recycled, raced, produced, outputVars, reader,
                   holder, struck, toldEnd, writeVars>>


\* kill and wait, unless try_wait had its status already.
DropWaits ==
    /\ session = "waiting"
    /\ shell \in {"zombie", "reaped"}
    /\ shell' = "reaped"
    /\ session' = "dropped"
    /\ holder' = "nobody"
    /\ UNCHANGED <<killed, job, recycled, raced, produced, outputVars, reader,
                   scan, struck, toldEnd, writeVars>>

-----------------------------------------------------------------------------
(* The clients.                                                            *)

\* read: everything from the cursor, with `alive` under the same lock.
Read ==
    /\ session = "live"
    /\ toldEnd' = (toldEnd \/ eof)
    /\ UNCHANGED <<processVars, produced, outputVars, closeVars, writeVars>>

\* write: calls are numbered as they reach the gate.
WriteBegins(w) ==
    /\ session = "live"
    /\ task[w] = "none" /\ told[w] = "none"
    /\ \A v \in 1 .. (w - 1) : <<task[v], told[v]>> # <<"none", "none">>
    /\ IF gate
       THEN told' = [told EXCEPT ![w] = "busy"] /\ UNCHANGED <<task, gate>>
       ELSE /\ gate' = TRUE
            /\ task' = [task EXCEPT ![w] = "parked"]
            /\ UNCHANGED told
    /\ UNCHANGED <<processVars, produced, outputVars, closeVars, toldEnd, input>>

\* The blocking thread has the writer's lock.
WriteStarts(w) ==
    /\ task[w] = "parked"
    /\ \A v \in Write : task[v] # "writing"
    /\ task' = [task EXCEPT ![w] = "writing"]
    /\ UNCHANGED <<processVars, produced, outputVars, closeVars, toldEnd, told,
                   gate, input>>

Taken(w) == Cardinality({k \in DOMAIN input : input[k] = w})

\* The terminal takes a chunk when somebody reads, or never.
WritesChunk(w) ==
    /\ task[w] = "writing"
    /\ ~HungUp
    /\ Taken(w) < Chunks
    /\ input' = Append(input, w)
    /\ UNCHANGED <<processVars, produced, outputVars, closeVars, toldEnd, task,
                   told, gate>>

\* The task ends with all chunks written, with its deadline passed between two
\* chunks, or with a terminal that nobody has open; the gate opens when it does.
WriteEnds(w) ==
    /\ task[w] = "writing"
    /\ task' \in {[task EXCEPT ![w] = result] : result \in
                      (IF Taken(w) = Chunks THEN {"written"} ELSE {"late"})
                      \cup (IF HungUp THEN {"failed"} ELSE {})}
    /\ gate' = FALSE
    /\ UNCHANGED <<processVars, produced, outputVars, closeVars, toldEnd, told,
                   input>>

WriteAnswered(w) ==
    /\ told[w] = "none"
    /\ task[w] \in {"written", "late", "failed"}
    /\ told' = [told EXCEPT ![w] = CASE task[w] = "written" -> "ok"
                                     [] task[w] = "late"    -> "timeout"
                                     [] task[w] = "failed"  -> "error"]
    /\ UNCHANGED <<processVars, produced, outputVars, closeVars, toldEnd, task,
                   gate, input>>

ReleaseOnTimeout(w) ==
    /\ told[w] = "none"
    /\ task[w] # "none"
    /\ told' = [told EXCEPT ![w] = "timeout"]
    /\ gate' = FALSE
    /\ UNCHANGED <<processVars, produced, outputVars, closeVars, toldEnd, task,
                   input>>

\* The caller waits for write_timeout_ms; the task goes on.
WriteTimesOut(w) ==
    /\ told[w] = "none"
    /\ task[w] # "none"
    /\ told' = [told EXCEPT ![w] = "timeout"]
    /\ UNCHANGED <<processVars, produced, outputVars, closeVars, toldEnd, task,
                   gate, input>>

-----------------------------------------------------------------------------
ReaderStep == \/ ReaderLooks \/ ReadsChunk \/ ReadsEnd \/ ReaderLocks
              \/ ReaderSignals \/ ReaderReaps
DropStep == DropBegins \/ DropSignals \/ DropSignalsScanned \/ DropWaits

Next == \/ Produce \/ ShellLeaves \/ ShellDies \/ Recycle
        \/ \E j \in Job : Fork(j) \/ JobLeaves(j)
        \/ ReaderStep \/ DropStep \/ Remove
        \/ Read
        \/ \E w \in Write : \/ WriteBegins(w) \/ WriteStarts(w) \/ WritesChunk(w)
                            \/ WriteEnds(w) \/ WriteAnswered(w) \/ WriteTimesOut(w)

Spec == Init /\ [][Next]_vars

(* Threads run, a process that was killed or is leaving ends, and a write   *)
(* on a terminal that nobody has open fails.  Nothing obliges a shell or a  *)
(* job to end by itself, to close the terminal or to read its input, or a   *)
(* client to act.                                                           *)
FairSpec == /\ Spec
            /\ WF_vars(ReaderStep)
            /\ WF_vars(DropStep)
            /\ WF_vars(ShellDies)
            /\ WF_vars(killed /\ ShellLeaves)
            /\ \A w \in Write : /\ WF_vars(WriteStarts(w))
                                /\ WF_vars(HungUp /\ WriteEnds(w))

-----------------------------------------------------------------------------
\* A client that is told the session is not alive has read all that was ever
\* written to its terminal, by the shell and by every job that had it open: the
\* end is never published ahead of output.
EndIsComplete == toldEnd => total = produced

\* A close that has returned leaves no shell behind and no job of its session,
\* whether it has the terminal open or not, except one that was started while the
\* close acted upon its list of members, and what this one started.
NothingSurvivesClose ==
    session = "dropped" => shell = "reaped" /\ Members \subseteq raced

\* Input arrives as it was sent: never a chunk of an earlier write after one of
\* a later write, all of a write that was answered with success, nothing of
\* one that was refused as busy.
InputInOrder ==
    /\ \A k \in DOMAIN input : k > 1 => input[k - 1] <= input[k]
    /\ \A w \in Write : /\ told[w] = "ok" => Taken(w) = Chunks
                        /\ told[w] = "busy" => Taken(w) = 0

\* The reader signals the shell's session only while the pid is the shell's: it
\* never strikes another process.
ReaderSignalsItsOwn == "reader" \notin struck

\* Whoever holds something that others wait for gives it back: the child's lock is
\* held by a close that waits for a shell which was killed, or by a reader that
\* waits for nothing, and the gate is shut only while the task of a write lives,
\* also one whose caller was told that it timed out.  In no run: proved, and what
\* CloseEnds rests on.
HeldIsGivenBack ==
    /\ holder = "reader" => reader \in {"signalling", "reaping"}
    /\ holder = "close" =>
          \/ session = "signalling"
          \/ session = "waiting" /\ (killed \/ shell \in {"zombie", "reaped"})
    /\ gate => \E w \in Write : task[w] \in {"parked", "writing"}

\* A terminal that nobody has open any more is noticed, unless the session is
\* being closed (the end of drain_reader).
EndIsNoticed == HungUp ~> (eof \/ session # "live")


\* The comment at the end of drain_reader: "waiting for the sweeper would leave a
\* zombie for up to half an hour".  In no run: while a job has the terminal open
\* the reader is not told of the end, and the shell is a zombie until a close.
ExitIsNoticed == shell = "zombie" ~> (eof \/ session # "live")

\* A close ends all that the session kept running.  In no run: a job that left the
\* session, or was started during the close, keeps the reader's thread and a write
\* in their system calls for as long as it keeps the terminal.
CloseEndsThreads ==
    session = "dropped" ~>
        /\ reader = "done"
        /\ \A w \in Write : task[w] \notin {"parked", "writing"}

\* The comment in PtyBackend::close: a pid the reader reaped earlier may belong
\* to another process, and neither its group nor its session is signalled.  In no
\* run: try_wait answers the status it kept, and the pid is signalled.
CloseSignalsItsOwn == "close" \notin struck
=============================================================================
