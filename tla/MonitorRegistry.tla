---------------------------- MODULE MonitorRegistry ----------------------------
(***************************************************************************)
(* The device's reachability monitor: the watched targets, one probe loop  *)
(* for each, the file they are kept in, and the calls that add, remove and *)
(* probe them while the loops run.                                         *)
(*                                                                         *)
(* A call changes the list and the file under one lock, takes the handle   *)
(* of the loop it supersedes out of `tasks`, and aborts that loop, starts  *)
(* the new one and inserts its handle after the lock is gone: another call *)
(* on the same target can come in between.  An abort does not stop a loop  *)
(* that is already past its last await.  A loop is known by its target and *)
(* the generation it was started for.                                      *)
(*                                                                         *)
(* A rule stands for all a caller says of a target: the call that said it. *)
(* The loops of one run end with its process; the file outlives it.        *)
(*                                                                         *)
(* AddCommitsFirst, AbortsListed, RecordsAny and TicksAlways are faulty     *)
(* variants: each breaks a property below.                                 *)
(***************************************************************************)
EXTENDS Naturals, FiniteSets

CONSTANTS
    Target,     \* ids of targets
    MaxTargets, \* Limits::max_targets
    MaxCalls,   \* calls of the tools
    MaxStarts   \* runs of the process

ASSUME BoundAssumption == MaxTargets \in Nat /\ MaxCalls \in Nat /\ MaxStarts \in Nat
ASSUME TargetAssumption == IsFiniteSet(Target)

Call == 1 .. MaxCalls
Rule == Call
Generation == 0 .. MaxCalls     \* next_generation starts at 1; 0 is a loaded target's
Loop == Target \X Generation

VARIABLES
    watched,    \* Inner.targets
    tasks,      \* Inner.tasks: the loops whose handle is kept
    next,       \* Inner.next_generation
    loop,       \* what each loop is doing
    aborted,    \* loops that were aborted and have not noticed
    sample,     \* the generations each target's samples were taken for
    file,       \* monitors.json
    call,       \* where each call is
    on,         \* its target
    made,       \* the generation it made, or read
    old,        \* the handle it took out of `tasks`
    starts,
    unread      \* history: this run could not read the file, and has not saved it

callVars == <<call, on, made, old>>
vars == <<watched, tasks, next, loop, aborted, sample, file, callVars, starts, unread>>

TypeOK ==
    /\ watched \subseteq [id : Target, gen : Generation, rule : Rule]
    /\ tasks \subseteq Loop
    /\ next \in 1 .. (MaxCalls + 1)
    /\ loop \in [Loop -> {"none", "waiting", "probing", "ended"}]
    /\ aborted \subseteq Loop
    /\ sample \in [Target -> SUBSET Generation]
    /\ file \subseteq Target \X Rule
    /\ call \in [Call -> {"none", "added", "started", "removed", "probing", "done"}]
    /\ on \in [Call -> Target]
    /\ made \in [Call -> Generation]
    /\ old \in [Call -> SUBSET Loop]
    /\ starts \in 0 .. MaxStarts
    /\ unread \in BOOLEAN

Rows(w) == {<<x.id, x.rule>> : x \in w}
Of(t) == {x \in watched : x.id = t}
Current == {<<x.id, x.gen>> : x \in watched}

-----------------------------------------------------------------------------
(* new and spawn.                                                          *)

Init ==
    /\ watched = {} /\ tasks = {} /\ next = 1
    /\ loop = [l \in Loop |-> "none"] /\ aborted = {}
    /\ sample = [t \in Target |-> {}]
    /\ file = {}
    /\ call = [c \in Call |-> "none"]
    /\ on \in [Call -> Target]
    /\ made = [c \in Call |-> 0] /\ old = [c \in Call |-> {}]
    /\ starts = 0 /\ unread = FALSE

\* The registry begins with what it could load, and a loop for each.
Begins(rows) ==
    /\ watched' = {[id |-> r[1], gen |-> 0, rule |-> r[2]] : r \in rows}
    /\ tasks' = {<<r[1], 0>> : r \in rows}
    /\ loop' = [l \in Loop |-> IF l \in tasks' THEN "waiting" ELSE "none"]
    /\ next' = 1 /\ aborted' = {}
    /\ sample' = [t \in Target |-> {}]

\* The process ends at any step and starts again, with its file as it was, with
\* a damaged file that it moves aside, or with one that it cannot read, or cannot
\* move aside, and leaves where it is.
Restart ==
    /\ starts < MaxStarts
    /\ starts' = starts + 1
    /\ call' = [c \in Call |-> IF call[c] = "none" THEN "none" ELSE "done"]
    /\ \/ Begins(file) /\ unread' = FALSE /\ UNCHANGED file
       \/ Begins({}) /\ unread' = FALSE /\ file' = {}
       \/ Begins({}) /\ unread' = (file # {}) /\ UNCHANGED file
    /\ UNCHANGED <<on, made, old>>

-----------------------------------------------------------------------------
(* add, remove and probe.                                                  *)

Ready(c) == /\ call[c] = "none"
            /\ \A b \in 1 .. (c - 1) : call[b] # "none"

\* The list as a call wants it is saved before it is adopted; a failed save
\* leaves both as they were.
Adopts(c, rows, then) ==
    \/ /\ watched' = rows
       /\ file' = Rows(rows)
       /\ unread' = FALSE
       /\ tasks' = {l \in tasks : l[1] # on[c]}
       /\ old' = [old EXCEPT ![c] = {l \in tasks : l[1] = on[c]}]
       /\ call' = [call EXCEPT ![c] = then]
    \/ /\ call' = [call EXCEPT ![c] = "done"]
       /\ UNCHANGED <<watched, file, unread, tasks, old>>

Added(c) == {x \in watched : x.id # on[c]}
            \cup {[id |-> on[c], gen |-> next, rule |-> c]}

AddCommitsFirst(c) ==
    /\ Ready(c)
    /\ watched' = Added(c)
    /\ next' = next + 1
    /\ made' = [made EXCEPT ![c] = next]
    /\ sample' = [sample EXCEPT ![on[c]] = IF Of(on[c]) = {} THEN {} ELSE @]
    /\ tasks' = {l \in tasks : l[1] # on[c]}
    /\ old' = [old EXCEPT ![c] = {l \in tasks : l[1] = on[c]}]
    /\ call' = [call EXCEPT ![c] = "added"]
    /\ \/ file' = Rows(watched') /\ unread' = FALSE
       \/ UNCHANGED <<file, unread>>
    /\ UNCHANGED <<loop, aborted, on, starts>>

\* A target that is watched already gets a new generation and keeps its samples.
AddCommits(c) ==
    /\ Ready(c)
    /\ Of(on[c]) # {} \/ Cardinality(watched) < MaxTargets
    /\ Adopts(c, Added(c), "added")
    /\ next' = IF call'[c] = "added" THEN next + 1 ELSE next
    /\ made' = IF call'[c] = "added" THEN [made EXCEPT ![c] = next] ELSE made
    /\ sample' = IF call'[c] = "added" /\ Of(on[c]) = {}
                 THEN [sample EXCEPT ![on[c]] = {}] ELSE sample
    /\ UNCHANGED <<loop, aborted, on, starts>>

Starts(c, superseded) ==
    /\ call[c] = "added"
    /\ aborted' = aborted \cup superseded
    /\ loop' = [loop EXCEPT ![<<on[c], made[c]>>] = "waiting"]
    /\ call' = [call EXCEPT ![c] = "started"]
    /\ UNCHANGED <<watched, tasks, next, sample, file, on, made, old, starts, unread>>

AbortsListed(c) == Starts(c, old[c] \cup {l \in tasks : l[1] = on[c]})

\* Outside the lock: the superseded loop is aborted and the new one spawned.
AddStarts(c) == Starts(c, old[c])

\* HashMap::insert: a handle that another call inserted meanwhile is dropped,
\* which leaves its loop running.
AddInserts(c) ==
    /\ call[c] = "started"
    /\ tasks' = {l \in tasks : l[1] # on[c]} \cup {<<on[c], made[c]>>}
    /\ call' = [call EXCEPT ![c] = "done"]
    /\ UNCHANGED <<watched, next, loop, aborted, sample, file, on, made, old, starts, unread>>

RemoveCommits(c) ==
    /\ Ready(c)
    /\ Of(on[c]) # {}
    /\ Adopts(c, {x \in watched : x.id # on[c]}, "removed")
    /\ UNCHANGED <<next, loop, aborted, sample, on, made, starts>>

RemoveAborts(c) ==
    /\ call[c] = "removed"
    /\ aborted' = aborted \cup old[c]
    /\ call' = [call EXCEPT ![c] = "done"]
    /\ UNCHANGED <<watched, tasks, next, loop, sample, file, on, made, old, starts, unread>>

\* probe: the rule and its generation are read before the probe and not after.
ProbeBegins(c) ==
    /\ Ready(c)
    /\ \E x \in Of(on[c]) : made' = [made EXCEPT ![c] = x.gen]
    /\ call' = [call EXCEPT ![c] = "probing"]
    /\ UNCHANGED <<watched, tasks, next, loop, aborted, sample, file, on, old, starts, unread>>

-----------------------------------------------------------------------------
(* Samples, and the loops.                                                 *)

RecordsAny(t, g) ==
    sample' = IF Of(t) # {} THEN [sample EXCEPT ![t] = @ \cup {g}] ELSE sample

\* record: only for the generation that the sample was taken for.
Records(t, g) ==
    sample' = IF <<t, g>> \in Current THEN [sample EXCEPT ![t] = @ \cup {g}] ELSE sample

ProbeEnds(c) ==
    /\ call[c] = "probing"
    /\ Records(on[c], made[c])
    /\ call' = [call EXCEPT ![c] = "done"]
    /\ UNCHANGED <<watched, tasks, next, loop, aborted, file, on, made, old, starts, unread>>

TicksAlways(l) ==
    /\ loop[l] = "waiting" /\ l \notin aborted
    /\ loop' = [loop EXCEPT ![l] = "probing"]
    /\ UNCHANGED <<watched, tasks, next, aborted, sample, file, callVars, starts, unread>>

\* scheduled_probe: a loop whose generation is gone ends.
Ticks(l) ==
    /\ loop[l] = "waiting" /\ l \notin aborted
    /\ loop' = [loop EXCEPT ![l] = IF l \in Current THEN "probing" ELSE "ended"]
    /\ UNCHANGED <<watched, tasks, next, aborted, sample, file, callVars, starts, unread>>

\* The probe is over; an aborted loop may still record it.
Probed(l) ==
    /\ loop[l] = "probing"
    /\ Records(l[1], l[2])
    /\ loop' = [loop EXCEPT ![l] = "waiting"]
    /\ UNCHANGED <<watched, tasks, next, aborted, file, callVars, starts, unread>>

\* An aborted task ends at an await.
Stops(l) ==
    /\ loop[l] \in {"waiting", "probing"} /\ l \in aborted
    /\ loop' = [loop EXCEPT ![l] = "ended"]
    /\ aborted' = aborted \ {l}
    /\ UNCHANGED <<watched, tasks, next, sample, file, callVars, starts, unread>>

-----------------------------------------------------------------------------
LoopStep(l) == Ticks(l) \/ Probed(l) \/ Stops(l)
CallStep(c) == AddStarts(c) \/ AddInserts(c) \/ RemoveAborts(c) \/ ProbeEnds(c)

Next == \/ Restart
        \/ \E c \in Call : AddCommits(c) \/ RemoveCommits(c) \/ ProbeBegins(c) \/ CallStep(c)
        \/ \E l \in Loop : LoopStep(l)

Spec == Init /\ [][Next]_vars

(* Timers fire, probes are bounded by their timeouts, and a call that has   *)
(* taken the lock goes on to its end.                                       *)
FairSpec == /\ Spec
            /\ \A l \in Loop : WF_vars(LoopStep(l))
            /\ \A c \in Call : WF_vars(CallStep(c))

-----------------------------------------------------------------------------
\* The file names exactly the targets that are watched, under the rules they are
\* watched by, whatever saves fail and calls cross; except from a start that
\* could not read the file to the next save, which replaces what it did not load.
WatchesArePersisted == ~unread => file = Rows(watched)

Runs(l) == loop[l] \in {"waiting", "probing"} /\ l \notin aborted
Coming(l) == \E c \in Call : call[c] = "added" /\ <<on[c], made[c]>> = l

\* Every watched target has a loop that nobody aborted, or a call on its way to
\* start one: calls that cross never stop the loop of the last of them.
EveryTargetHasItsLoop == \A l \in Current : Runs(l) \/ Coming(l)

\* A probe that outlives its rule leaves no sample: what a target's samples gain
\* was measured for the generation in force.
NoLateSample ==
    [][\A t \in Target : \A g \in sample'[t] \ sample[t] : <<t, g>> \in Current]_vars

\* A loop that was superseded ends, also when the handle that would abort it was
\* overwritten by another call's.
SupersededLoopsEnd ==
    \A l \in Loop : (loop[l] \in {"waiting", "probing"} /\ l \notin Current)
                        ~> (loop[l] \in {"none", "ended"} \/ l \in Current)

\* The module's doc promises that a watch outlives a restart (monitor.rs:11).  Not
\* so after a start that could not read the file: the first call that changes the
\* list then writes it without the targets it never loaded, and no start reads
\* them again.  In no run; the property is violated by what the code does.
WatchOutlivesRestart ==
    [][\A t \in Target : t \in {r[1] : r \in file} \ {r[1] : r \in file'} =>
          \/ \E c \in Call : call[c] = "none" /\ call'[c] = "removed" /\ on[c] = t
          \/ starts' # starts]_vars
=============================================================================
