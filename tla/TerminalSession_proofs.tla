------------------------ MODULE TerminalSession_proofs ------------------------
(***************************************************************************)
(* Proofs about TerminalSession, for every number of jobs, of writes and   *)
(* of chunks, and any length of output.                                    *)
(*                                                                         *)
(* Three things carry them.  The end: the reader meets it when nobody has  *)
(* the terminal open, and a process that is left can only start others     *)
(* that have not, so nothing more is written to it.  The pid: it is the shell's *)
(* until somebody has reaped it, the reader last of all it does, or the    *)
(* close, which marks the output closed first.  The gate: it is shut while *)
(* the task of a write lives, so the one that lives is the newest.         *)
(***************************************************************************)
EXTENDS TerminalSession, FiniteSetTheorems, TLAPS

\* The reader ends with all the output read and nobody left to write more, and so
\* does whoever is told of it.
AtEnd ==
    /\ reader \in {"ended", "signalling", "reaping"} \/ eof => HungUp /\ total = produced
    /\ toldEnd => eof

\* Only the reader's last step and a close reap the shell.
Reaped ==
    /\ closed <=> session \notin {"live", "removed"}
    /\ shell = "reaped" => closed \/ reader = "done"
    /\ recycled => shell = "reaped"
    /\ "reader" \notin struck

\* Who holds the child's lock, and whom its list of members misses.
Locked ==
    /\ holder = "reader" <=> reader \in {"signalling", "reaping"}
    /\ holder = "close" <=> session \in {"signalling", "waiting"}

Struck ==
    /\ session \in {"signalling", "waiting", "dropped"} =>
          killed \/ shell \in {"zombie", "reaped"}
    /\ session = "signalling" => Members \subseteq scan \cup raced
    /\ session \in {"waiting", "dropped"} => Members \subseteq raced
    /\ session = "dropped" => shell = "reaped"

Begun(w) == task[w] # "none" \/ told[w] # "none"
Writing == {"parked", "writing"}

\* One write is under way at a time, and it is the newest that was let in.
Gated ==
    /\ \A w \in Write : task[w] \in Writing => gate
    /\ \A v, w \in Write : task[v] \in Writing /\ task[w] \in Writing => v = w
    /\ \A v, w \in Write : v < w /\ Begun(w) => Begun(v)
    /\ \A w \in Write : told[w] = "busy" => task[w] = "none"
    /\ \A w \in Write : told[w] = "ok" => task[w] = "written"
    /\ \A w \in Write : told[w] \in {"timeout", "error"} => task[w] # "none"

\* Its chunks come last.
Ordered ==
    /\ \A k \in 1 .. Len(input) : task[input[k]] # "none"
    /\ \A w \in Write : task[w] \in Writing => \A k \in 1 .. Len(input) : input[k] <= w
    /\ \A k \in 1 .. Len(input) : k > 1 => input[k - 1] <= input[k]

Complete == \A w \in Write : task[w] = "written" => Taken(w) = Chunks

IInv == TypeOK /\ AtEnd /\ Reaped /\ Locked /\ Struck /\ Gated /\ Ordered /\ Complete

USE BoundAssumption DEF Write, Writing, Begun, JobStates, HungUp, Holders, Members

-----------------------------------------------------------------------------
LEMMA InitInv == Init => IInv
<1> SUFFICES ASSUME Init PROVE IInv
    OBVIOUS
<1>0. <<>> \in Seq(Write)
  OBVIOUS
<1>00. input \in Seq(Write)
  BY <1>0 DEF Init
<1>01. produced \in 0 .. MaxOutput /\ total \in 0 .. produced
  BY DEF Init
<1>02. /\ task \in [Write -> {"none", "parked", "writing", "written", "late", "failed"}]
       /\ told \in [Write -> {"none", "ok", "busy", "timeout", "error"}]
       /\ job \in [Job -> JobStates]
  BY DEF Init
<1>1. TypeOK
  BY <1>00, <1>01, <1>02, Zenon DEF Init, TypeOK
<1>2. AtEnd /\ Reaped /\ Locked /\ Struck /\ Gated /\ Ordered /\ Complete
  BY DEF Init, AtEnd, Reaped, Locked, Struck, Gated, Ordered, Complete
<1> QED BY <1>1, <1>2 DEF IInv

LEMMA ProduceInv == ASSUME IInv, Produce PROVE IInv'
<1> USE DEF IInv, Produce, processVars, outputVars, closeVars, writeVars
<1>1. TypeOK'
  BY DEF TypeOK
<1>2. AtEnd'
  BY DEF TypeOK, AtEnd
<1>3. Reaped'
  BY DEF TypeOK, Reaped
<1>4. Locked'
  BY DEF TypeOK, Locked
<1>5. Struck'
  BY DEF TypeOK, Struck
<1>6. Gated'
  BY DEF TypeOK, Gated
<1>7. Ordered'
  BY DEF TypeOK, Ordered
<1>8. Complete'
  BY DEF TypeOK, Complete, Taken
<1> QED BY <1>1, <1>2, <1>3, <1>4, <1>5, <1>6, <1>7, <1>8

\* Nobody opens the terminal for a job whose parent has closed it.
LEMMA ForkInv == ASSUME IInv, NEW j \in Job, Fork(j) PROVE IInv'
<1> USE DEF IInv
<1>0. /\ UNCHANGED <<shell, killed, recycled, produced, outputVars, closeVars, toldEnd,
                     writeVars>>
      /\ \A i \in Job \ {j} : job'[i] = job[i]
      /\ job' \in [Job -> JobStates]
      /\ raced \subseteq raced' /\ raced' \subseteq Job
  BY DEF Fork, TypeOK
<1>1. TypeOK'
  BY <1>0, SMTT(30) DEF TypeOK, processVars, outputVars, closeVars, writeVars
<1>2. AtEnd'
  <2>1. HungUp => HungUp'
    <3> SUFFICES ASSUME HungUp PROVE HungUp'
      OBVIOUS
    <3>1. PICK parent \in Members \cup Holders : job'[j] = job[parent]
      BY DEF Fork, TypeOK
    <3>2. job'[j] = "quiet"
      BY <3>1
    <3> QED BY <1>0, <3>2
  <2> HIDE DEF HungUp
  <2> QED BY <1>0, <2>1 DEF AtEnd, outputVars, closeVars
<1>3. Reaped'
  BY <1>0 DEF TypeOK, Reaped, outputVars, closeVars
<1>4. Locked'
  BY <1>0 DEF TypeOK, Locked, closeVars
<1>5. Struck'
  <2>1. CASE session = "signalling"
    <3>1. shell # "running" \/ killed
      BY <2>1 DEF Struck
    <3>2. raced' = raced \cup {j}
      BY <2>1, <3>1 DEF Fork
    <3> QED BY <1>0, <2>1, <3>2 DEF Struck, closeVars
  <2>2. CASE session \in {"waiting", "dropped"}
    <3>1. shell # "running" \/ killed
      BY <2>2 DEF Struck
    <3>2. PICK parent \in Members \cup Holders :
            /\ job'[j] = job[parent]
            /\ parent \in raced => j \in raced'
      BY <3>1 DEF Fork, TypeOK
    <3>3. Members' \subseteq raced'
      BY <1>0, <2>2, <3>2 DEF Struck
    <3> QED BY <1>0, <2>2, <3>3 DEF Struck, closeVars
  <2>3. CASE session \notin {"signalling", "waiting", "dropped"}
    BY <1>0, <2>3 DEF Struck, closeVars
  <2> QED BY <2>1, <2>2, <2>3
<1>6. Gated'
  BY <1>0 DEF TypeOK, Gated, writeVars
<1>7. Ordered'
  BY <1>0 DEF TypeOK, Ordered, writeVars
<1>8. Complete'
  BY <1>0 DEF TypeOK, Complete, Taken, writeVars
<1> QED BY <1>1, <1>2, <1>3, <1>4, <1>5, <1>6, <1>7, <1>8

LEMMA JobLeavesInv == ASSUME IInv, NEW j \in Job, JobLeaves(j) PROVE IInv'
<1> USE DEF IInv
<1>0. /\ UNCHANGED <<shell, killed, recycled, raced, produced, outputVars, closeVars,
                     toldEnd, writeVars>>
      /\ job' \in [Job -> JobStates]
      /\ Members' \subseteq Members /\ Holders' \subseteq Holders
  BY DEF JobLeaves, TypeOK
<1>1. TypeOK'
  BY <1>0, SMTT(30) DEF TypeOK, processVars, outputVars, closeVars, writeVars
<1>2. AtEnd'
  BY <1>0 DEF TypeOK, AtEnd, outputVars, closeVars
<1>3. Reaped'
  BY <1>0 DEF TypeOK, Reaped, outputVars, closeVars
<1>4. Locked'
  BY <1>0 DEF TypeOK, Locked, closeVars
<1>5. Struck'
  BY <1>0 DEF TypeOK, Struck, closeVars
<1>6. Gated'
  BY <1>0 DEF TypeOK, Gated, writeVars
<1>7. Ordered'
  BY <1>0 DEF TypeOK, Ordered, writeVars
<1>8. Complete'
  BY <1>0 DEF TypeOK, Complete, Taken, writeVars
<1> QED BY <1>1, <1>2, <1>3, <1>4, <1>5, <1>6, <1>7, <1>8

LEMMA ShellLeavesInv == ASSUME IInv, ShellLeaves PROVE IInv'
<1> USE DEF IInv, ShellLeaves, processVars, outputVars, closeVars, writeVars
<1>1. TypeOK'
  BY DEF TypeOK
<1>2. AtEnd'
  BY DEF TypeOK, AtEnd
<1>3. Reaped'
  BY DEF TypeOK, Reaped
<1>4. Locked'
  BY DEF TypeOK, Locked
<1>5. Struck'
  BY DEF TypeOK, Struck
<1>6. Gated'
  BY DEF TypeOK, Gated
<1>7. Ordered'
  BY DEF TypeOK, Ordered
<1>8. Complete'
  BY DEF TypeOK, Complete, Taken
<1> QED BY <1>1, <1>2, <1>3, <1>4, <1>5, <1>6, <1>7, <1>8

LEMMA ShellDiesInv == ASSUME IInv, ShellDies PROVE IInv'
<1> USE DEF IInv, ShellDies, processVars, outputVars, closeVars, writeVars
<1>1. TypeOK'
  BY DEF TypeOK
<1>2. AtEnd'
  BY DEF TypeOK, AtEnd
<1>3. Reaped'
  BY DEF TypeOK, Reaped
<1>4. Locked'
  BY DEF TypeOK, Locked
<1>5. Struck'
  BY DEF TypeOK, Struck
<1>6. Gated'
  BY DEF TypeOK, Gated
<1>7. Ordered'
  BY DEF TypeOK, Ordered
<1>8. Complete'
  BY DEF TypeOK, Complete, Taken
<1> QED BY <1>1, <1>2, <1>3, <1>4, <1>5, <1>6, <1>7, <1>8

LEMMA RecycleInv == ASSUME IInv, Recycle PROVE IInv'
<1> USE DEF IInv, Recycle, processVars, outputVars, closeVars, writeVars
<1>1. TypeOK'
  BY DEF TypeOK
<1>2. AtEnd'
  BY DEF TypeOK, AtEnd
<1>3. Reaped'
  BY DEF TypeOK, Reaped
<1>4. Locked'
  BY DEF TypeOK, Locked
<1>5. Struck'
  BY DEF TypeOK, Struck
<1>6. Gated'
  BY DEF TypeOK, Gated
<1>7. Ordered'
  BY DEF TypeOK, Ordered
<1>8. Complete'
  BY DEF TypeOK, Complete, Taken
<1> QED BY <1>1, <1>2, <1>3, <1>4, <1>5, <1>6, <1>7, <1>8

LEMMA ReaderLooksInv == ASSUME IInv, ReaderLooks PROVE IInv'
<1> USE DEF IInv, ReaderLooks, processVars, outputVars, closeVars, writeVars
<1>1. TypeOK'
  BY DEF TypeOK
<1>2. AtEnd'
  BY DEF TypeOK, AtEnd
<1>3. Reaped'
  BY DEF TypeOK, Reaped
<1>4. Locked'
  BY DEF TypeOK, Locked
<1>5. Struck'
  BY DEF TypeOK, Struck
<1>6. Gated'
  BY DEF TypeOK, Gated
<1>7. Ordered'
  BY DEF TypeOK, Ordered
<1>8. Complete'
  BY DEF TypeOK, Complete, Taken
<1> QED BY <1>1, <1>2, <1>3, <1>4, <1>5, <1>6, <1>7, <1>8

LEMMA ReadsChunkInv == ASSUME IInv, ReadsChunk PROVE IInv'
<1> USE DEF IInv, ReadsChunk, processVars, outputVars, closeVars, writeVars
<1>1. TypeOK'
  BY DEF TypeOK
<1>2. AtEnd'
  BY DEF TypeOK, AtEnd
<1>3. Reaped'
  BY DEF TypeOK, Reaped
<1>4. Locked'
  BY DEF TypeOK, Locked
<1>5. Struck'
  BY DEF TypeOK, Struck
<1>6. Gated'
  BY DEF TypeOK, Gated
<1>7. Ordered'
  BY DEF TypeOK, Ordered
<1>8. Complete'
  BY DEF TypeOK, Complete, Taken
<1> QED BY <1>1, <1>2, <1>3, <1>4, <1>5, <1>6, <1>7, <1>8

LEMMA ReadsEndInv == ASSUME IInv, ReadsEnd PROVE IInv'
<1> USE DEF IInv, ReadsEnd, processVars, outputVars, closeVars, writeVars
<1>1. TypeOK'
  BY DEF TypeOK
<1>2. AtEnd'
  BY DEF TypeOK, AtEnd
<1>3. Reaped'
  BY DEF TypeOK, Reaped
<1>4. Locked'
  BY DEF TypeOK, Locked
<1>5. Struck'
  BY DEF TypeOK, Struck
<1>6. Gated'
  BY DEF TypeOK, Gated
<1>7. Ordered'
  BY DEF TypeOK, Ordered
<1>8. Complete'
  BY DEF TypeOK, Complete, Taken
<1> QED BY <1>1, <1>2, <1>3, <1>4, <1>5, <1>6, <1>7, <1>8

LEMMA ReaderLocksInv == ASSUME IInv, ReaderLocks PROVE IInv'
<1> USE DEF IInv, ReaderLocks, Signals, processVars, outputVars, closeVars, writeVars
<1>1. TypeOK'
  <2>1. /\ UNCHANGED <<shell, job, recycled, raced, produced, total, eof, closed, end, session,
                      toldEnd, task, told, gate, input>>
        /\ holder' = "reader" /\ reader' \in {"signalling", "reaping"}
    OBVIOUS
  <2>2. /\ killed' = killed \/ killed' = (killed \/ shell \in {"running", "leaving"})
        /\ scan' = scan \/ scan' = Members
        /\ struck' \in {struck, struck \cup {"reader"}}
    OBVIOUS
  <2>3. killed' \in BOOLEAN /\ scan' \subseteq Job /\ struck' \subseteq {"reader", "close"}
    <3> HIDE DEF ReaderLocks
    <3> QED BY <2>2 DEF TypeOK
  <2> HIDE DEF ReaderLocks, JobStates
  <2> QED BY <2>1, <2>3 DEF TypeOK
<1>2. AtEnd'
  BY DEF TypeOK, AtEnd
<1>3. Reaped'
  BY DEF TypeOK, Reaped, AtEnd
<1>4. Locked'
  BY DEF TypeOK, Locked
<1>5. Struck'
  BY DEF TypeOK, Struck
<1>6. Gated'
  BY DEF TypeOK, Gated
<1>7. Ordered'
  BY DEF TypeOK, Ordered
<1>8. Complete'
  BY DEF TypeOK, Complete, Taken
<1> QED BY <1>1, <1>2, <1>3, <1>4, <1>5, <1>6, <1>7, <1>8

LEMMA ReaderSignalsInv == ASSUME IInv, ReaderSignals PROVE IInv'
<1> USE DEF IInv, ReaderSignals, SignalsScanned, processVars, outputVars, closeVars, writeVars
<1>1. TypeOK'
  BY DEF TypeOK
<1>2. AtEnd'
  BY DEF TypeOK, AtEnd
<1>3. Reaped'
  BY DEF TypeOK, Reaped, AtEnd
<1>4. Locked'
  BY DEF TypeOK, Locked
<1>5. Struck'
  BY DEF TypeOK, Struck, Locked
<1>6. Gated'
  BY DEF TypeOK, Gated
<1>7. Ordered'
  BY DEF TypeOK, Ordered
<1>8. Complete'
  BY DEF TypeOK, Complete, Taken
<1> QED BY <1>1, <1>2, <1>3, <1>4, <1>5, <1>6, <1>7, <1>8

LEMMA ReaderReapsInv == ASSUME IInv, ReaderReaps PROVE IInv'
<1> USE DEF IInv, ReaderReaps, processVars, outputVars, closeVars, writeVars
<1>1. TypeOK'
  BY DEF TypeOK
<1>2. AtEnd'
  BY DEF TypeOK, AtEnd
<1>3. Reaped'
  BY DEF TypeOK, Reaped, Locked
<1>4. Locked'
  BY DEF TypeOK, Locked
<1>5. Struck'
  BY DEF TypeOK, Struck
<1>6. Gated'
  BY DEF TypeOK, Gated
<1>7. Ordered'
  BY DEF TypeOK, Ordered
<1>8. Complete'
  BY DEF TypeOK, Complete, Taken
<1> QED BY <1>1, <1>2, <1>3, <1>4, <1>5, <1>6, <1>7, <1>8

LEMMA RemoveInv == ASSUME IInv, Remove PROVE IInv'
<1> USE DEF IInv, Remove, processVars, outputVars, closeVars, writeVars
<1>1. TypeOK'
  BY DEF TypeOK
<1>2. AtEnd'
  BY DEF TypeOK, AtEnd
<1>3. Reaped'
  BY DEF TypeOK, Reaped
<1>4. Locked'
  BY DEF TypeOK, Locked
<1>5. Struck'
  BY DEF TypeOK, Struck
<1>6. Gated'
  BY DEF TypeOK, Gated
<1>7. Ordered'
  BY DEF TypeOK, Ordered
<1>8. Complete'
  BY DEF TypeOK, Complete, Taken
<1> QED BY <1>1, <1>2, <1>3, <1>4, <1>5, <1>6, <1>7, <1>8

LEMMA DropBeginsInv == ASSUME IInv, DropBegins PROVE IInv'
<1> USE DEF IInv, DropBegins, processVars, outputVars, closeVars, writeVars
<1>1. TypeOK'
  BY DEF TypeOK
<1>2. AtEnd'
  BY DEF TypeOK, AtEnd
<1>3. Reaped'
  BY DEF TypeOK, Reaped
<1>4. Locked'
  BY DEF TypeOK, Locked
<1>5. Struck'
  BY DEF TypeOK, Struck
<1>6. Gated'
  BY DEF TypeOK, Gated
<1>7. Ordered'
  BY DEF TypeOK, Ordered
<1>8. Complete'
  BY DEF TypeOK, Complete, Taken
<1> QED BY <1>1, <1>2, <1>3, <1>4, <1>5, <1>6, <1>7, <1>8

LEMMA DropSignalsInv == ASSUME IInv, DropSignals PROVE IInv'
<1> USE DEF IInv, DropSignals, Signals, processVars, outputVars, closeVars, writeVars
<1>1. TypeOK'
  BY DEF TypeOK
<1>2. AtEnd'
  BY DEF TypeOK, AtEnd
<1>3. Reaped'
  BY DEF TypeOK, Reaped
<1>4. Locked'
  BY DEF TypeOK, Locked
<1>5. Struck'
  BY DEF TypeOK, Struck
<1>6. Gated'
  BY DEF TypeOK, Gated
<1>7. Ordered'
  BY DEF TypeOK, Ordered
<1>8. Complete'
  BY DEF TypeOK, Complete, Taken
<1> QED BY <1>1, <1>2, <1>3, <1>4, <1>5, <1>6, <1>7, <1>8

LEMMA DropSignalsScannedInv == ASSUME IInv, DropSignalsScanned PROVE IInv'
<1> USE DEF IInv, DropSignalsScanned, SignalsScanned, processVars, outputVars, closeVars, writeVars
<1>1. TypeOK'
  BY DEF TypeOK
<1>2. AtEnd'
  BY DEF TypeOK, AtEnd
<1>3. Reaped'
  BY DEF TypeOK, Reaped
<1>4. Locked'
  BY DEF TypeOK, Locked
<1>5. Struck'
  BY DEF TypeOK, Struck
<1>6. Gated'
  BY DEF TypeOK, Gated
<1>7. Ordered'
  BY DEF TypeOK, Ordered
<1>8. Complete'
  BY DEF TypeOK, Complete, Taken
<1> QED BY <1>1, <1>2, <1>3, <1>4, <1>5, <1>6, <1>7, <1>8

LEMMA DropWaitsInv == ASSUME IInv, DropWaits PROVE IInv'
<1> USE DEF IInv, DropWaits, processVars, outputVars, closeVars, writeVars
<1>1. TypeOK'
  BY DEF TypeOK
<1>2. AtEnd'
  BY DEF TypeOK, AtEnd
<1>3. Reaped'
  BY DEF TypeOK, Reaped
<1>4. Locked'
  BY DEF TypeOK, Locked
<1>5. Struck'
  BY DEF TypeOK, Struck
<1>6. Gated'
  BY DEF TypeOK, Gated
<1>7. Ordered'
  BY DEF TypeOK, Ordered
<1>8. Complete'
  BY DEF TypeOK, Complete, Taken
<1> QED BY <1>1, <1>2, <1>3, <1>4, <1>5, <1>6, <1>7, <1>8

LEMMA ReadInv == ASSUME IInv, Read PROVE IInv'
<1> USE DEF IInv, Read, processVars, outputVars, closeVars, writeVars
<1>1. TypeOK'
  BY DEF TypeOK
<1>2. AtEnd'
  BY DEF TypeOK, AtEnd
<1>3. Reaped'
  BY DEF TypeOK, Reaped
<1>4. Locked'
  BY DEF TypeOK, Locked
<1>5. Struck'
  BY DEF TypeOK, Struck
<1>6. Gated'
  BY DEF TypeOK, Gated
<1>7. Ordered'
  BY DEF TypeOK, Ordered
<1>8. Complete'
  BY DEF TypeOK, Complete, Taken
<1> QED BY <1>1, <1>2, <1>3, <1>4, <1>5, <1>6, <1>7, <1>8

LEMMA WriteBeginsInv == ASSUME IInv, NEW w \in Write, WriteBegins(w) PROVE IInv'
<1> USE DEF IInv, WriteBegins, processVars, outputVars, closeVars, writeVars
<1>0. /\ told' \in [Write -> {"none", "ok", "busy", "timeout", "error"}]
      /\ task' \in [Write -> {"none", "parked", "writing", "written", "late", "failed"}]
      /\ gate' \in BOOLEAN
  BY DEF TypeOK
<1>00. \A k \in 1 .. Len(input) : input[k] \in Write /\ input[k] < w
  <2> SUFFICES ASSUME NEW k \in 1 .. Len(input), ~(input[k] < w) PROVE FALSE
    BY DEF TypeOK
  <2>0. input[k] \in Write /\ task[input[k]] # "none"
    <3> HIDE DEF WriteBegins
    <3> QED BY DEF TypeOK, Ordered
  <2>1. input[k] \in Write /\ task[input[k]] # "none" /\ input[k] # w
    BY <2>0
  <2>2. ~Begun(w) /\ w < input[k]
    BY <2>1
  <2> QED BY <2>1, <2>2 DEF Gated
<1>1. TypeOK'
  BY <1>0 DEF TypeOK
<1>2. AtEnd'
  BY DEF TypeOK, AtEnd
<1>3. Reaped'
  BY DEF TypeOK, Reaped
<1>4. Locked'
  BY DEF TypeOK, Locked
<1>5. Struck'
  BY DEF TypeOK, Struck
<1>6. Gated'
  BY DEF TypeOK, Gated
<1>7. Ordered'
  <2>1. CASE gate
    BY <2>1 DEF TypeOK, Ordered
  <2>2. CASE ~gate
    <3>1. /\ task' = [task EXCEPT ![w] = "parked"]
          /\ \A v \in Write : task[v] \notin Writing
      BY <2>2 DEF Gated
    <3> QED BY <1>00, <3>1 DEF TypeOK, Ordered
  <2> QED BY <2>1, <2>2
<1>8. Complete'
  BY DEF TypeOK, Complete, Taken, Gated
<1> QED BY <1>1, <1>2, <1>3, <1>4, <1>5, <1>6, <1>7, <1>8

LEMMA WriteStartsInv == ASSUME IInv, NEW w \in Write, WriteStarts(w) PROVE IInv'
<1> USE DEF IInv, WriteStarts, processVars, outputVars, closeVars, writeVars
<1>1. TypeOK'
  BY DEF TypeOK
<1>2. AtEnd'
  BY DEF TypeOK, AtEnd
<1>3. Reaped'
  BY DEF TypeOK, Reaped
<1>4. Locked'
  BY DEF TypeOK, Locked
<1>5. Struck'
  BY DEF TypeOK, Struck
<1>6. Gated'
  BY DEF TypeOK, Gated
<1>7. Ordered'
  BY DEF TypeOK, Ordered
<1>8. Complete'
  BY DEF TypeOK, Complete, Taken
<1> QED BY <1>1, <1>2, <1>3, <1>4, <1>5, <1>6, <1>7, <1>8

LEMMA WritesChunkInv == ASSUME IInv, NEW w \in Write, WritesChunk(w) PROVE IInv'
<1> USE DEF IInv, WritesChunk, processVars, outputVars, closeVars, writeVars
<1>1. TypeOK'
  BY DEF TypeOK
<1>2. AtEnd'
  BY DEF TypeOK, AtEnd
<1>3. Reaped'
  BY DEF TypeOK, Reaped
<1>4. Locked'
  BY DEF TypeOK, Locked
<1>5. Struck'
  BY DEF TypeOK, Struck
<1>6. Gated'
  BY DEF TypeOK, Gated
<1>7. Ordered'
  BY DEF TypeOK, Ordered, Gated
<1>8. Complete'
  <2>1. task[w] = "writing" /\ task' = task /\ input' = Append(input, w) /\ input \in Seq(Write)
    BY DEF TypeOK
  <2>2. ASSUME NEW v \in Write, task[v] = "written" PROVE Taken(v)' = Taken(v)
    <3> HIDE DEF WritesChunk
    <3>1. v # w
      BY <2>1, <2>2
    <3>2. {k \in DOMAIN input' : input'[k] = v} = {k \in DOMAIN input : input[k] = v}
      BY <2>1, <3>1
    <3> QED BY <3>2 DEF Taken
  <2> QED BY <2>1, <2>2 DEF Complete
<1> QED BY <1>1, <1>2, <1>3, <1>4, <1>5, <1>6, <1>7, <1>8

LEMMA WriteEndsInv == ASSUME IInv, NEW w \in Write, WriteEnds(w) PROVE IInv'
<1>0. PICK result \in {"written", "late", "failed"} :
        /\ task' = [task EXCEPT ![w] = result]
        /\ result = "written" => Taken(w) = Chunks
  BY DEF WriteEnds
<1>00. /\ task[w] = "writing" /\ gate' = FALSE
       /\ UNCHANGED <<processVars, produced, outputVars, closeVars, toldEnd, told, input>>
  BY DEF WriteEnds
<1> USE <1>0, <1>00 DEF IInv, processVars, outputVars, closeVars
<1>1. TypeOK'
  <2>1. /\ task' \in [Write -> {"none", "parked", "writing", "written", "late", "failed"}]
        /\ gate' \in BOOLEAN
    BY DEF TypeOK
  <2>2. UNCHANGED <<shell, killed, job, recycled, raced, produced, total, eof, closed, end,
                    reader, session, holder, scan, struck, toldEnd, told, input>>
    OBVIOUS
  <2> QED BY <2>1, <2>2, SMTT(30) DEF TypeOK
<1>2. AtEnd'
  BY DEF TypeOK, AtEnd
<1>3. Reaped'
  BY DEF TypeOK, Reaped
<1>4. Locked'
  BY DEF TypeOK, Locked
<1>5. Struck'
  BY DEF TypeOK, Struck
<1>6. Gated'
  BY DEF TypeOK, Gated
<1>7. Ordered'
  BY DEF TypeOK, Ordered
<1>8. Complete'
  <2>1. \A v \in Write : Taken(v)' = Taken(v)
    BY DEF Taken
  <2>2. \A v \in Write : task'[v] = IF v = w THEN result ELSE task[v]
    BY DEF TypeOK
  <2> QED BY <2>1, <2>2 DEF Complete
<1> QED BY <1>1, <1>2, <1>3, <1>4, <1>5, <1>6, <1>7, <1>8

LEMMA WriteAnsweredInv == ASSUME IInv, NEW w \in Write, WriteAnswered(w) PROVE IInv'
<1> USE DEF IInv, WriteAnswered, processVars, outputVars, closeVars, writeVars
<1>1. TypeOK'
  BY DEF TypeOK
<1>2. AtEnd'
  BY DEF TypeOK, AtEnd
<1>3. Reaped'
  BY DEF TypeOK, Reaped
<1>4. Locked'
  BY DEF TypeOK, Locked
<1>5. Struck'
  BY DEF TypeOK, Struck
<1>6. Gated'
  BY DEF TypeOK, Gated
<1>7. Ordered'
  BY DEF TypeOK, Ordered
<1>8. Complete'
  BY DEF TypeOK, Complete, Taken, Gated
<1> QED BY <1>1, <1>2, <1>3, <1>4, <1>5, <1>6, <1>7, <1>8

LEMMA WriteTimesOutInv == ASSUME IInv, NEW w \in Write, WriteTimesOut(w) PROVE IInv'
<1> USE DEF IInv, WriteTimesOut, processVars, outputVars, closeVars, writeVars
<1>1. TypeOK'
  BY DEF TypeOK
<1>2. AtEnd'
  BY DEF TypeOK, AtEnd
<1>3. Reaped'
  BY DEF TypeOK, Reaped
<1>4. Locked'
  BY DEF TypeOK, Locked
<1>5. Struck'
  BY DEF TypeOK, Struck
<1>6. Gated'
  BY DEF TypeOK, Gated
<1>7. Ordered'
  BY DEF TypeOK, Ordered
<1>8. Complete'
  BY DEF TypeOK, Complete, Taken
<1> QED BY <1>1, <1>2, <1>3, <1>4, <1>5, <1>6, <1>7, <1>8

-----------------------------------------------------------------------------
LEMMA StepInv == IInv /\ [Next]_vars => IInv'
<1> SUFFICES ASSUME IInv, [Next]_vars PROVE IInv'
    OBVIOUS
<1>1. CASE UNCHANGED vars
  <2> USE <1>1 DEF vars, processVars, outputVars, closeVars, writeVars
  <2>1. TypeOK' /\ AtEnd' /\ Reaped' /\ Locked' /\ Struck'
    BY DEF IInv, TypeOK, AtEnd, Reaped, Locked, Struck
  <2>2. Gated' /\ Ordered' /\ Complete'
    BY DEF IInv, Gated, Ordered, Complete, Taken
  <2> QED BY <2>1, <2>2 DEF IInv
<1>2. CASE Produce \/ ShellLeaves \/ ShellDies \/ Recycle
  BY <1>2, ProduceInv, ShellLeavesInv, ShellDiesInv, RecycleInv
<1>3. ASSUME NEW j \in Job, Fork(j) \/ JobLeaves(j) PROVE IInv'
  BY <1>3, ForkInv, JobLeavesInv
<1>4. CASE ReaderStep
  BY <1>4, ReaderLooksInv, ReadsChunkInv, ReadsEndInv, ReaderLocksInv, ReaderSignalsInv,
     ReaderReapsInv DEF ReaderStep
<1>5. CASE DropStep \/ Remove
  BY <1>5, DropBeginsInv, DropSignalsInv, DropSignalsScannedInv, DropWaitsInv, RemoveInv
     DEF DropStep
<1>6. CASE Read
  BY <1>6, ReadInv
<1>7. ASSUME NEW w \in Write, WriteBegins(w) \/ WriteStarts(w) \/ WritesChunk(w)
                              \/ WriteEnds(w) \/ WriteAnswered(w) \/ WriteTimesOut(w)
      PROVE  IInv'
  BY <1>7, WriteBeginsInv, WriteStartsInv, WritesChunkInv, WriteEndsInv, WriteAnsweredInv,
     WriteTimesOutInv
<1> QED BY <1>1, <1>2, <1>3, <1>4, <1>5, <1>6, <1>7 DEF Next

\* However the processes, the reader, a close and the writes interleave, the
\* invariant above holds.
THEOREM Invariant == Spec => []IInv
<1> QED BY InitInv, StepInv, PTL DEF Spec

\* The session's variables keep their types.
THEOREM TypeCorrect == Spec => []TypeOK
<1>1. IInv => TypeOK
  BY DEF IInv
<1> QED BY <1>1, Invariant, PTL

\* Whoever is told the session is not alive has been given all its output.
THEOREM EndComplete == Spec => []EndIsComplete
<1>1. IInv => EndIsComplete
  BY DEF IInv, AtEnd, EndIsComplete
<1> QED BY <1>1, Invariant, PTL

\* The reader never signals a pid that was given to another process.
THEOREM ReaderSafe == Spec => []ReaderSignalsItsOwn
<1>1. IInv => ReaderSignalsItsOwn
  BY DEF IInv, Reaped, ReaderSignalsItsOwn
<1> QED BY <1>1, Invariant, PTL

\* A finished close leaves neither the shell nor a member of its session that
\* its lists could have named.
THEOREM CloseComplete == Spec => []NothingSurvivesClose
<1>1. IInv => NothingSurvivesClose
  BY DEF IInv, Struck, NothingSurvivesClose
<1> QED BY <1>1, Invariant, PTL

\* The input of the writes arrives in the order of the calls, whole for those
\* answered with success and not at all for those refused.
THEOREM InputOrdered == Spec => []InputInOrder
<1>1. IInv => InputInOrder
  <2> SUFFICES ASSUME IInv PROVE InputInOrder
    OBVIOUS
  <2>1. DOMAIN input = 1 .. Len(input)
    BY DEF IInv, TypeOK
  <2>2. \A k \in DOMAIN input : k > 1 => input[k - 1] <= input[k]
    BY <2>1 DEF IInv, Ordered
  <2>3. \A w \in Write : told[w] = "ok" => Taken(w) = Chunks
    BY DEF IInv, Gated, Complete
  <2>4. ASSUME NEW w \in Write, told[w] = "busy" PROVE Taken(w) = 0
    <3>1. {k \in DOMAIN input : input[k] = w} = {}
      BY <2>1, <2>4 DEF IInv, Gated, Ordered
    <3> QED BY <3>1, FS_EmptySet DEF Taken
  <2> QED BY <2>2, <2>3, <2>4 DEF InputInOrder
<1> QED BY <1>1, Invariant, PTL

\* A shut gate is some task's to open.
GateIsHeld == gate => \E w \in Write : task[w] \in Writing

LEMMA GateStep == ASSUME IInv, GateIsHeld, [Next]_vars PROVE GateIsHeld'
<1>1. CASE UNCHANGED <<gate, task>>
  BY <1>1 DEF GateIsHeld
<1>2. ASSUME NEW w \in Write, WriteBegins(w) \/ WriteStarts(w) PROVE GateIsHeld'
  BY <1>2 DEF WriteBegins, WriteStarts, GateIsHeld, IInv, TypeOK
<1>3. ASSUME NEW w \in Write, WriteEnds(w) PROVE GateIsHeld'
  BY <1>3 DEF WriteEnds, GateIsHeld
<1>4. ASSUME NEW w \in Write, WritesChunk(w) \/ WriteAnswered(w) \/ WriteTimesOut(w)
      PROVE  UNCHANGED <<gate, task>>
  BY <1>4 DEF WritesChunk, WriteAnswered, WriteTimesOut
<1>5. ASSUME NEW j \in Job, Fork(j) \/ JobLeaves(j) PROVE UNCHANGED <<gate, task>>
  BY <1>5 DEF Fork, JobLeaves, writeVars
<1>6. CASE Produce \/ ShellLeaves \/ ShellDies \/ Recycle \/ Remove \/ Read
  BY <1>1, <1>6 DEF Produce, ShellLeaves, ShellDies, Recycle, Remove, Read, writeVars
<1>7. CASE ReaderStep
  BY <1>1, <1>7 DEF ReaderStep, ReaderLooks, ReadsChunk, ReadsEnd, ReaderLocks, ReaderSignals,
                    ReaderReaps, writeVars
<1>8. CASE DropStep
  BY <1>1, <1>8 DEF DropStep, DropBegins, DropSignals, DropSignalsScanned, DropWaits, writeVars
<1>9. CASE UNCHANGED vars
  BY <1>1, <1>9 DEF vars, writeVars
<1> QED
  BY <1>1, <1>2, <1>3, <1>4, <1>5, <1>6, <1>7, <1>8, <1>9 DEF Next

\* The child's lock and the gate are always somebody's who will give them back.
THEOREM GivenBack == Spec => []HeldIsGivenBack
<1>1. Init => GateIsHeld
  BY DEF Init, GateIsHeld
<1>2. IInv /\ GateIsHeld => HeldIsGivenBack
  BY DEF IInv, Locked, Struck, GateIsHeld, HeldIsGivenBack
<1> QED
  BY <1>1, <1>2, GateStep, Invariant, PTL DEF Spec
=============================================================================
