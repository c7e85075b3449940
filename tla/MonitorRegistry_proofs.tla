------------------------ MODULE MonitorRegistry_proofs ------------------------
(***************************************************************************)
(* Proofs about MonitorRegistry, for every set of targets and every bound. *)
(*                                                                         *)
(* That each target has its loop is not inductive: a call aborts the loop  *)
(* whose handle it took, and that one must not be the current one.  What   *)
(* makes it so is that generations only grow: a handle that anybody holds, *)
(* in `tasks`, in a call or among the aborted, is older than the next      *)
(* generation, and the ones that calls hold and the aborted ones are of    *)
(* loops that are not current.                                             *)
(***************************************************************************)
EXTENDS MonitorRegistry, TLAPS

\* Calls are numbered as they begin, and each makes at most one generation.
InOrder == \A c \in Call : call[c] = "none" => next <= c

Holding(c) == call[c] \in {"added", "removed"}

\* Every generation in use is one that was made.
Made ==
    /\ \A l \in tasks : l[2] < next
    /\ \A l \in aborted : l[2] < next
    /\ \A x \in watched : x.gen < next
    /\ \A c \in Call : /\ Holding(c) => \A l \in old[c] : l[2] < next
                       /\ call[c] \in {"added", "started"} => made[c] < next

\* What was aborted, or is about to be, is superseded.
Superseded ==
    /\ aborted \cap Current = {}
    /\ \A c \in Call : Holding(c) => old[c] \cap Current = {}

IInv == /\ TypeOK /\ InOrder /\ Made /\ Superseded
        /\ WatchesArePersisted /\ EveryTargetHasItsLoop

USE BoundAssumption DEF Call, Rule, Generation, Loop

-----------------------------------------------------------------------------
LEMMA InitInv == Init => IInv
<1> SUFFICES ASSUME Init PROVE IInv
    OBVIOUS
<1>0. 1 \in 1 .. (MaxCalls + 1) /\ 0 \in Generation /\ 0 \in 0 .. MaxStarts
  OBVIOUS
<1>1. TypeOK
  BY <1>0 DEF Init, TypeOK
<1>2. InOrder /\ Made /\ Superseded
  BY DEF Init, InOrder, Made, Superseded, Holding, Current
<1>3. WatchesArePersisted /\ EveryTargetHasItsLoop
  BY DEF Init, WatchesArePersisted, EveryTargetHasItsLoop, Rows, Current
<1> QED BY <1>1, <1>2, <1>3 DEF IInv

(* What the loops of a new process are: those of the targets it loaded.    *)
LEMMA BeginsInv ==
    ASSUME NEW rows \in SUBSET (Target \X Rule), Begins(rows), TypeOK
    PROVE  /\ watched' \subseteq [id : Target, gen : Generation, rule : Rule]
           /\ tasks' \subseteq Loop
           /\ next' = 1 /\ aborted' = {}
           /\ loop' \in [Loop -> {"none", "waiting", "probing", "ended"}]
           /\ sample' \in [Target -> SUBSET Generation]
           /\ \A l \in tasks' : l[2] = 0
           /\ \A x \in watched' : x.gen = 0
           /\ Rows(watched') = rows
           /\ Current' = tasks'
           /\ \A l \in tasks' : loop'[l] = "waiting"
<1>1. watched' \subseteq [id : Target, gen : Generation, rule : Rule]
  BY DEF Begins
<1>2. tasks' \subseteq Loop
  BY DEF Begins
<1>3. loop' \in [Loop -> {"none", "waiting", "probing", "ended"}]
  BY DEF Begins
<1>4. sample' \in [Target -> SUBSET Generation]
  BY DEF Begins
<1>5. (\A l \in tasks' : l[2] = 0) /\ (\A x \in watched' : x.gen = 0)
  BY DEF Begins
<1>6. Rows(watched') = rows
  <2>1. ASSUME NEW r \in rows PROVE r \in Rows(watched')
    <3> DEFINE x == [id |-> r[1], gen |-> 0, rule |-> r[2]]
    <3>1. x \in watched'
      BY DEF Begins
    <3>2. <<x.id, x.rule>> = r
      OBVIOUS
    <3> QED BY <3>1, <3>2 DEF Rows
  <2>2. ASSUME NEW r \in Rows(watched') PROVE r \in rows
    <3>1. PICK x \in watched' : r = <<x.id, x.rule>>
      BY DEF Rows
    <3>2. PICK q \in rows : x = [id |-> q[1], gen |-> 0, rule |-> q[2]]
      BY DEF Begins
    <3>3. r = <<q[1], q[2]>> /\ q = <<q[1], q[2]>>
      BY <3>1, <3>2
    <3> QED BY <3>3
  <2> QED BY <2>1, <2>2
<1>7. Current' = tasks'
  <2>1. ASSUME NEW l \in tasks' PROVE l \in Current'
    <3>1. PICK r \in rows : l = <<r[1], 0>>
      BY DEF Begins
    <3> DEFINE x == [id |-> r[1], gen |-> 0, rule |-> r[2]]
    <3>2. x \in watched' /\ l = <<x.id, x.gen>>
      BY <3>1 DEF Begins
    <3> QED BY <3>2 DEF Current
  <2>2. ASSUME NEW l \in Current' PROVE l \in tasks'
    <3>1. PICK x \in watched' : l = <<x.id, x.gen>>
      BY DEF Current
    <3>2. PICK r \in rows : x = [id |-> r[1], gen |-> 0, rule |-> r[2]]
      BY DEF Begins
    <3>3. l = <<r[1], 0>>
      BY <3>1, <3>2
    <3> QED BY <3>3 DEF Begins
  <2> QED BY <2>1, <2>2
<1>8. \A l \in tasks' : loop'[l] = "waiting"
  BY <1>2 DEF Begins
<1> QED BY <1>1, <1>2, <1>3, <1>4, <1>5, <1>6, <1>7, <1>8 DEF Begins

LEMMA RestartInv == ASSUME IInv, Restart PROVE IInv'
<1> USE DEF IInv
<1>0. PICK rows \in {file, {}} :
        /\ Begins(rows)
        /\ ~unread' => file' = rows
        /\ unread' \in BOOLEAN
        /\ file' \in SUBSET (Target \X Rule)
  BY DEF Restart, TypeOK
<1>1. rows \in SUBSET (Target \X Rule)
  BY <1>0 DEF TypeOK
<1>2. /\ watched' \subseteq [id : Target, gen : Generation, rule : Rule]
      /\ tasks' \subseteq Loop
      /\ next' = 1 /\ aborted' = {}
      /\ loop' \in [Loop -> {"none", "waiting", "probing", "ended"}]
      /\ sample' \in [Target -> SUBSET Generation]
      /\ \A l \in tasks' : l[2] = 0
      /\ \A x \in watched' : x.gen = 0
      /\ Rows(watched') = rows
      /\ Current' = tasks'
      /\ \A l \in tasks' : loop'[l] = "waiting"
  BY <1>0, <1>1, BeginsInv
<1>3. \A c \in Call : call'[c] \in {"none", "done"}
  BY DEF Restart
<1>4. TypeOK'
  BY <1>0, <1>2 DEF TypeOK, Restart
<1>5. InOrder'
  BY <1>2 DEF InOrder
<1>6. Made' /\ Superseded'
  BY <1>2, <1>3 DEF Made, Superseded, Holding
<1>7. WatchesArePersisted'
  BY <1>0, <1>2 DEF WatchesArePersisted, Rows
<1>8. EveryTargetHasItsLoop'
  BY <1>2 DEF EveryTargetHasItsLoop, Runs
<1> QED BY <1>4, <1>5, <1>6, <1>7, <1>8

LEMMA AddCommitsInv == ASSUME IInv, NEW c \in Call, AddCommits(c) PROVE IInv'
<1> USE DEF IInv
<1> DEFINE new == [id |-> on[c], gen |-> next, rule |-> c]
           mine == {l \in tasks : l[1] = on[c]}
<1>0. /\ call[c] = "none" /\ next <= c
      /\ on[c] \in Target
      /\ call' \in [Call -> {"none", "added", "started", "removed", "probing", "done"}]
      /\ \A b \in Call : call'[b] = "none" => call[b] = "none" /\ b > c
      /\ \A b \in Call \ {c} : call'[b] = call[b] /\ old'[b] = old[b] /\ made'[b] = made[b]
  BY SMTT(30) DEF AddCommits, Adopts, Ready, TypeOK, InOrder
<1>1. CASE call'[c] = "done"
  <2>1. UNCHANGED <<watched, file, unread, tasks, old, next, made, sample, loop, aborted, on, starts>>
    BY <1>1, <1>0 DEF AddCommits, Adopts, TypeOK
  <2>2. TypeOK'
    BY <1>0, <2>1 DEF TypeOK
  <2>3. InOrder' /\ Made' /\ Superseded' /\ WatchesArePersisted'
    BY <1>0, <1>1, <2>1 DEF InOrder, Made, Superseded, WatchesArePersisted, Current, Rows, Holding
  <2>4. EveryTargetHasItsLoop'
    BY <1>0, <2>1 DEF EveryTargetHasItsLoop, Runs, Coming, Current
  <2> QED BY <2>2, <2>3, <2>4
<1>2. CASE call'[c] # "done"
  <2>1. /\ watched' = {x \in watched : x.id # on[c]} \cup {new}
        /\ file' = Rows(watched') /\ unread' = FALSE
        /\ tasks' = {l \in tasks : l[1] # on[c]}
        /\ old' = [old EXCEPT ![c] = mine]
        /\ call' = [call EXCEPT ![c] = "added"]
        /\ next' = next + 1
        /\ made' = [made EXCEPT ![c] = next]
        /\ sample' \in {sample, [sample EXCEPT ![on[c]] = {}]}
        /\ UNCHANGED <<loop, aborted, on, starts>>
    BY <1>0, <1>2 DEF AddCommits, Adopts, Added, TypeOK
  <2>2. next \in Generation /\ next + 1 \in 1 .. (MaxCalls + 1)
    BY <1>0 DEF TypeOK
  <2>3. watched' \subseteq [id : Target, gen : Generation, rule : Rule]
    BY <1>0, <2>1, <2>2 DEF TypeOK
  <2>4. file' \subseteq Target \X Rule
    BY <2>1, <2>3 DEF Rows
  <2>5. tasks' \subseteq Loop /\ old' \in [Call -> SUBSET Loop] /\ made' \in [Call -> Generation]
    BY <2>1, <2>2 DEF TypeOK
  <2>6. sample' \in [Target -> SUBSET Generation]
    BY <2>1 DEF TypeOK
  <2>7. TypeOK'
    BY <1>0, <2>1, <2>2, <2>3, <2>4, <2>5, <2>6 DEF TypeOK
  <2>8. InOrder'
    BY <1>0, <2>1 DEF InOrder, TypeOK
  <2>9. old'[c] = mine /\ made'[c] = next /\ call'[c] = "added"
    BY <2>1 DEF TypeOK
  <2>10. \A l \in Loop : l[2] < next => l[2] < next + 1
    BY DEF TypeOK
  <2>11. Made'
    <3>1. \A l \in tasks' \cup aborted' \cup mine : l[2] < next'
      BY <2>1, <2>10 DEF Made, TypeOK
    <3>2. \A x \in watched' : x.gen < next'
      BY <2>1, <2>2 DEF Made, TypeOK
    <3>3. \A b \in Call : /\ Holding(b)' => \A l \in old'[b] : l[2] < next'
                          /\ call'[b] \in {"added", "started"} => made'[b] < next'
      <4> TAKE b \in Call
      <4>1. CASE b = c
        BY <4>1, <2>9, <2>1, <2>2, <3>1
      <4>2. CASE b # c
        BY <4>2, <1>0, <2>1, <2>2, <2>10 DEF Made, Holding, TypeOK
      <4> QED BY <4>1, <4>2
    <3> QED BY <3>1, <3>2, <3>3 DEF Made
  <2>12. Current' = {l \in Current : l[1] # on[c]} \cup {<<on[c], next>>}
    <3>1. \A x \in watched : x.id # on[c] <=> <<x.id, x.gen>>[1] # on[c]
      OBVIOUS
    <3>2. new.id = on[c] /\ new.gen = next
      OBVIOUS
    <3>3. Current' = {<<x.id, x.gen>> : x \in watched'}
      BY DEF Current
    <3>4. ASSUME NEW l \in Current' PROVE l \in {k \in Current : k[1] # on[c]} \cup {<<on[c], next>>}
      <4>1. PICK x \in watched' : l = <<x.id, x.gen>>
        BY <3>3
      <4> QED BY <4>1, <2>1, <3>1 DEF Current
    <3>5. ASSUME NEW l \in Current, l[1] # on[c] PROVE l \in Current'
      <4>1. PICK x \in watched : l = <<x.id, x.gen>>
        BY DEF Current
      <4>2. x \in watched'
        BY <4>1, <3>5, <2>1
      <4> QED BY <4>1, <4>2, <3>3
    <3>6. <<on[c], next>> \in Current'
      BY <2>1, <3>2, <3>3
    <3> QED BY <3>4, <3>5, <3>6
  <2>13. Superseded'
    <3>1. aborted' \cap Current' = {}
      BY <2>1, <2>12, <2>2 DEF Superseded, Made, TypeOK
    <3>2. \A b \in Call : Holding(b)' => old'[b] \cap Current' = {}
      <4> TAKE b \in Call
      <4>1. CASE b = c
        BY <4>1, <2>9, <2>12, <2>2 DEF Made, TypeOK
      <4>2. CASE b # c
        BY <4>2, <1>0, <2>12, <2>2 DEF Made, Superseded, Holding, TypeOK
      <4> QED BY <4>1, <4>2
    <3> QED BY <3>1, <3>2 DEF Superseded
  <2>14. WatchesArePersisted'
    BY <2>1 DEF WatchesArePersisted, Rows
  <2>15. EveryTargetHasItsLoop'
    <3> SUFFICES ASSUME NEW l \in Current' PROVE Runs(l)' \/ Coming(l)'
      BY DEF EveryTargetHasItsLoop
    <3>1. CASE l = <<on[c], next>>
      BY <3>1, <2>1, <2>9 DEF Coming
    <3>2. CASE l \in Current
      <4>1. Runs(l) \/ Coming(l)
        BY <3>2 DEF EveryTargetHasItsLoop
      <4>2. CASE Runs(l)
        BY <4>2, <2>1 DEF Runs
      <4>3. CASE Coming(l)
        <5>1. PICK b \in Call : call[b] = "added" /\ <<on[b], made[b]>> = l
          BY <4>3 DEF Coming
        <5>2. b # c
          BY <5>1, <1>0
        <5>3. call'[b] = "added" /\ <<on'[b], made'[b]>> = l
          BY <5>1, <5>2, <1>0, <2>1
        <5> QED BY <5>3 DEF Coming
      <4> QED BY <4>1, <4>2, <4>3
    <3> QED BY <2>12, <3>1, <3>2
  <2> QED BY <2>7, <2>8, <2>11, <2>13, <2>14, <2>15
<1> QED BY <1>1, <1>2

(* What a step that touches neither the list nor the file leaves as it is. *)
LEMMA AddStartsInv == ASSUME IInv, NEW c \in Call, AddStarts(c) PROVE IInv'
<1> USE DEF IInv
<1> DEFINE mine == <<on[c], made[c]>>
<1>1. /\ call[c] = "added"
      /\ aborted' = aborted \cup old[c]
      /\ loop' = [loop EXCEPT ![mine] = "waiting"]
      /\ call' = [call EXCEPT ![c] = "started"]
      /\ UNCHANGED <<watched, tasks, next, sample, file, on, made, old, starts, unread>>
  BY DEF AddStarts, Starts
<1>2. mine \in Loop /\ old[c] \subseteq Loop
  BY DEF TypeOK
<1>3. TypeOK'
  BY <1>1, <1>2 DEF TypeOK
<1>4. InOrder' /\ Made' /\ Superseded'
  BY <1>1 DEF InOrder, Made, Superseded, Holding, Current, TypeOK
<1>5. WatchesArePersisted'
  BY <1>1 DEF WatchesArePersisted, Rows
<1>6. EveryTargetHasItsLoop'
  <2> SUFFICES ASSUME NEW l \in Current' PROVE Runs(l)' \/ Coming(l)'
    BY DEF EveryTargetHasItsLoop
  <2>1. l \in Current /\ l \notin aborted'
    BY <1>1, <1>4 DEF Current, Superseded
  <2>2. l \in Loop
    BY <2>1 DEF Current, TypeOK
  <2>3. CASE l = mine
    <3>1. loop'[l] = "waiting"
      BY <2>3, <2>2, <1>1 DEF TypeOK
    <3> QED BY <3>1, <2>1 DEF Runs
  <2>4. CASE l # mine
    <3>1. loop'[l] = loop[l]
      BY <2>4, <2>2, <1>1 DEF TypeOK
    <3>2. CASE Runs(l)
      BY <3>1, <3>2, <2>1 DEF Runs
    <3>3. CASE Coming(l)
      <4>1. PICK b \in Call : call[b] = "added" /\ <<on[b], made[b]>> = l
        BY <3>3 DEF Coming
      <4>2. call'[b] = "added" /\ <<on'[b], made'[b]>> = l
        BY <4>1, <2>4, <1>1 DEF TypeOK
      <4> QED BY <4>2 DEF Coming
    <3> QED BY <3>2, <3>3, <2>1 DEF EveryTargetHasItsLoop
  <2> QED BY <2>3, <2>4
<1> QED BY <1>3, <1>4, <1>5, <1>6

LEMMA RemoveCommitsInv == ASSUME IInv, NEW c \in Call, RemoveCommits(c) PROVE IInv'
<1> USE DEF IInv
<1> DEFINE mine == {l \in tasks : l[1] = on[c]}
<1>0. /\ call[c] = "none"
      /\ UNCHANGED <<next, loop, aborted, sample, on, made, starts>>
      /\ \A b \in Call : call'[b] = "none" => call[b] = "none"
  BY DEF RemoveCommits, Adopts, Ready, TypeOK
<1>1. CASE call'[c] = "done"
  <2>1. /\ UNCHANGED <<watched, file, unread, tasks, old>>
        /\ call' = [call EXCEPT ![c] = "done"]
    BY <1>1 DEF RemoveCommits, Adopts, TypeOK
  <2>2. TypeOK' /\ InOrder' /\ Made' /\ Superseded' /\ WatchesArePersisted'
    BY <1>0, <2>1 DEF TypeOK, InOrder, Made, Superseded, WatchesArePersisted, Current, Rows, Holding
  <2>3. EveryTargetHasItsLoop'
    BY <1>0, <2>1 DEF EveryTargetHasItsLoop, Runs, Coming, Current, TypeOK
  <2> QED BY <2>2, <2>3
<1>2. CASE call'[c] # "done"
  <2>1. /\ watched' = {x \in watched : x.id # on[c]}
        /\ file' = Rows(watched') /\ unread' = FALSE
        /\ tasks' = {l \in tasks : l[1] # on[c]}
        /\ old' = [old EXCEPT ![c] = mine]
        /\ call' = [call EXCEPT ![c] = "removed"]
    BY <1>2 DEF RemoveCommits, Adopts, TypeOK
  <2>2. TypeOK'
    <3>1. file' \subseteq Target \X Rule
      BY <2>1 DEF TypeOK, Rows
    <3> QED BY <1>0, <2>1, <3>1 DEF TypeOK
  <2>3. Current' \subseteq Current
    BY <2>1 DEF Current
  <2>4. mine \cap Current' = {}
    <3>1. ASSUME NEW l \in Current' PROVE l[1] # on[c]
      <4>1. PICK x \in watched' : l = <<x.id, x.gen>>
        BY DEF Current
      <4> QED BY <4>1, <2>1
    <3> QED BY <3>1
  <2>5. InOrder' /\ Made'
    BY <1>0, <2>1 DEF InOrder, Made, Holding, TypeOK
  <2>6. Superseded'
    <3>1. aborted' \cap Current' = {}
      BY <1>0, <2>3 DEF Superseded
    <3>2. \A b \in Call : Holding(b)' => old'[b] \cap Current' = {}
      BY <2>1, <2>3, <2>4 DEF Superseded, Holding, TypeOK
    <3> QED BY <3>1, <3>2 DEF Superseded
  <2>7. WatchesArePersisted'
    BY <2>1 DEF WatchesArePersisted, Rows
  <2>8. EveryTargetHasItsLoop'
    BY <1>0, <2>1, <2>3 DEF EveryTargetHasItsLoop, Runs, Coming, TypeOK
  <2> QED BY <2>2, <2>5, <2>6, <2>7, <2>8
<1> QED BY <1>1, <1>2

LEMMA CallInv ==
    ASSUME IInv, NEW c \in Call,
           AddInserts(c) \/ RemoveAborts(c) \/ ProbeBegins(c) \/ ProbeEnds(c)
    PROVE  IInv'
<1> USE DEF IInv
<1>0. /\ UNCHANGED <<watched, next, loop, file, on, old, starts, unread>>
      /\ Current' = Current
  BY DEF AddInserts, RemoveAborts, ProbeBegins, ProbeEnds, Current
<1>1. /\ aborted' \in {aborted, aborted \cup old[c]}
      /\ aborted' # aborted => call[c] = "removed"
      /\ call[c] # "added" /\ call'[c] \in {"done", "probing"}
      /\ \E what \in {"done", "probing"} : call' = [call EXCEPT ![c] = what]
      /\ call[c] # "started" => tasks' = tasks
      /\ \A b \in Call \ {c} : made'[b] = made[b]
      /\ made' \in [Call -> Generation]
  <2>1. CASE ProbeBegins(c)
    <3>1. PICK x \in Of(on[c]) : made' = [made EXCEPT ![c] = x.gen]
      BY <2>1 DEF ProbeBegins
    <3>2. x.gen \in Generation
      BY <3>1 DEF Of, TypeOK
    <3>3. made' \in [Call -> Generation] /\ \A b \in Call \ {c} : made'[b] = made[b]
      BY <3>1, <3>2 DEF TypeOK
    <3> QED BY <2>1, <3>3 DEF ProbeBegins, Ready, TypeOK
  <2>2. CASE ~ProbeBegins(c)
    BY <2>2 DEF AddInserts, RemoveAborts, ProbeEnds, TypeOK
  <2> QED BY <2>1, <2>2
<1>2. sample' \in [Target -> SUBSET Generation]
  <2>1. CASE ProbeEnds(c)
    BY <2>1 DEF ProbeEnds, Records, TypeOK
  <2>2. CASE ~ProbeEnds(c)
    BY <2>2 DEF AddInserts, RemoveAborts, ProbeBegins, TypeOK
  <2> QED BY <2>1, <2>2
<1>3. /\ tasks' \subseteq Loop
      /\ \A l \in tasks' : l[2] < next
  <2>1. CASE call[c] = "started"
    <3>1. tasks' \subseteq tasks \cup {<<on[c], made[c]>>}
      BY <2>1 DEF AddInserts, RemoveAborts, ProbeBegins, ProbeEnds, Ready
    <3> QED BY <3>1, <2>1 DEF Made, TypeOK
  <2>2. CASE call[c] # "started"
    BY <2>2, <1>1 DEF Made, TypeOK
  <2> QED BY <2>1, <2>2
<1>4. TypeOK'
  BY <1>0, <1>1, <1>2, <1>3 DEF TypeOK
<1>5. InOrder'
  BY <1>0, <1>1 DEF InOrder, TypeOK
<1>6. Made' /\ Superseded'
  BY <1>0, <1>1, <1>3 DEF Made, Superseded, Holding, TypeOK
<1>7. WatchesArePersisted'
  BY <1>0 DEF WatchesArePersisted, Rows
<1>8. EveryTargetHasItsLoop'
  <2> SUFFICES ASSUME NEW l \in Current PROVE Runs(l)' \/ Coming(l)'
    BY <1>0 DEF EveryTargetHasItsLoop
  <2>1. l \notin aborted'
    BY <1>0, <1>6 DEF Superseded
  <2>2. CASE Runs(l)
    BY <2>1, <2>2, <1>0 DEF Runs
  <2>3. CASE Coming(l)
    BY <2>3, <1>0, <1>1 DEF Coming, TypeOK
  <2> QED BY <2>2, <2>3 DEF EveryTargetHasItsLoop
<1> QED BY <1>4, <1>5, <1>6, <1>7, <1>8

LEMMA LoopInv == ASSUME IInv, NEW l \in Loop, LoopStep(l) PROVE IInv'
<1> USE DEF IInv
<1>0. /\ UNCHANGED <<watched, tasks, next, file, callVars, starts, unread>>
      /\ Current' = Current
  BY DEF LoopStep, Ticks, Probed, Stops, Current
<1>1. /\ loop' \in [Loop -> {"none", "waiting", "probing", "ended"}]
      /\ aborted' \subseteq aborted
      /\ sample' \in [Target -> SUBSET Generation]
  <2>1. /\ loop' \in [Loop -> {"none", "waiting", "probing", "ended"}]
        /\ aborted' \subseteq aborted
    BY DEF LoopStep, Ticks, Probed, Stops, TypeOK
  <2>2. l[1] \in Target /\ l[2] \in Generation
    OBVIOUS
  <2>3. ASSUME Records(l[1], l[2]) PROVE sample' \in [Target -> SUBSET Generation]
    BY <2>2, <2>3 DEF Records, TypeOK
  <2> QED BY <2>1, <2>3 DEF LoopStep, Ticks, Probed, Stops, TypeOK
<1>2. TypeOK' /\ InOrder' /\ Made' /\ Superseded' /\ WatchesArePersisted'
  BY <1>0, <1>1 DEF TypeOK, InOrder, Made, Superseded, WatchesArePersisted, Rows, Holding, callVars
<1>3. EveryTargetHasItsLoop'
  <2> SUFFICES ASSUME NEW k \in Current PROVE Runs(k)' \/ Coming(k)'
    BY <1>0 DEF EveryTargetHasItsLoop
  <2>1. k \in Loop /\ k \notin aborted
    BY DEF Current, Superseded, TypeOK
  <2>2. CASE Coming(k)
    BY <2>2, <1>0 DEF Coming, callVars
  <2>3. CASE Runs(k)
    <3>1. loop'[k] \in {"waiting", "probing"}
      BY <2>1, <2>3 DEF LoopStep, Ticks, Probed, Stops, Runs, TypeOK
    <3> QED BY <3>1, <2>1, <1>1 DEF Runs
  <2> QED BY <2>2, <2>3 DEF EveryTargetHasItsLoop
<1> QED BY <1>2, <1>3

LEMMA StepInv == IInv /\ [Next]_vars => IInv'
<1> SUFFICES ASSUME IInv, [Next]_vars PROVE IInv'
    OBVIOUS
<1>1. CASE Restart
  BY <1>1, RestartInv
<1>2. ASSUME NEW c \in Call, AddCommits(c) \/ RemoveCommits(c) \/ ProbeBegins(c) \/ CallStep(c)
      PROVE IInv'
  <2>1. CASE AddCommits(c)
    BY <2>1, AddCommitsInv
  <2>2. CASE RemoveCommits(c)
    BY <2>2, RemoveCommitsInv
  <2>3. CASE AddStarts(c)
    BY <2>3, AddStartsInv
  <2>4. CASE AddInserts(c) \/ RemoveAborts(c) \/ ProbeBegins(c) \/ ProbeEnds(c)
    BY <2>4, CallInv
  <2> QED BY <1>2, <2>1, <2>2, <2>3, <2>4 DEF CallStep
<1>3. ASSUME NEW l \in Loop, LoopStep(l) PROVE IInv'
  BY <1>3, LoopInv
<1>4. CASE UNCHANGED vars
  BY <1>4 DEF vars, callVars, IInv, TypeOK, InOrder, Made, Superseded, Holding, Current,
              WatchesArePersisted, Rows, EveryTargetHasItsLoop, Runs, Coming
<1> QED BY <1>1, <1>2, <1>3, <1>4 DEF Next

-----------------------------------------------------------------------------
\* Whatever calls cross, whatever saves fail and however often the process ends,
\* the registry keeps the invariant above.
THEOREM Invariant == Spec => []IInv
<1> QED BY InitInv, StepInv, PTL DEF Spec

\* Every variable keeps its type: a generation is never more than the calls.
THEOREM TypeCorrect == Spec => []TypeOK
<1>1. IInv => TypeOK
  BY DEF IInv
<1> QED BY Invariant, <1>1, PTL

\* monitors.json names the watched targets under their rules, for every number of
\* calls, saves that fail and restarts, except from a restart that could not read
\* it to the next save.
THEOREM Persisted == Spec => []WatchesArePersisted
<1>1. IInv => WatchesArePersisted
  BY DEF IInv
<1> QED BY Invariant, <1>1, PTL

\* No interleaving of calls stops the loop of the last one that added a target.
THEOREM LoopsStay == Spec => []EveryTargetHasItsLoop
<1>1. IInv => EveryTargetHasItsLoop
  BY DEF IInv
<1> QED BY Invariant, <1>1, PTL

\* A sample is kept only for the generation in force when the probe ends.
THEOREM SamplesAreOwn == Spec => NoLateSample
<1> DEFINE Own == \A t \in Target : \A g \in sample'[t] \ sample[t] : <<t, g>> \in Current
<1>1. ASSUME TypeOK, [Next]_vars PROVE [Own]_vars
  <2>1. CASE Restart
    <3>1. sample' = [t \in Target |-> {}]
      BY <2>1 DEF Restart, Begins
    <3> QED BY <3>1
  <2>2. ASSUME NEW c \in Call, AddCommits(c) PROVE Own
    <3>1. sample' \in {sample, [sample EXCEPT ![on[c]] = {}]}
      BY <2>2 DEF AddCommits
    <3> QED BY <3>1, <1>1 DEF TypeOK
  <2>3. ASSUME NEW t \in Target, NEW g \in Generation, Records(t, g) PROVE Own
    BY <2>3, <1>1 DEF Records, TypeOK
  <2>4. ASSUME NEW c \in Call, ProbeEnds(c) PROVE Own
    <3>1. on[c] \in Target /\ made[c] \in Generation
      BY <1>1 DEF TypeOK
    <3> QED BY <2>3, <2>4, <3>1 DEF ProbeEnds
  <2>5. ASSUME NEW l \in Loop, Probed(l) PROVE Own
    BY <2>3, <2>5 DEF Probed
  <2>6. ASSUME sample' = sample PROVE Own
    BY <2>6
  <2> QED
    BY <1>1, <2>1, <2>2, <2>4, <2>5, <2>6
       DEF Next, CallStep, LoopStep, RemoveCommits, ProbeBegins, AddStarts, Starts, AddInserts,
           RemoveAborts, Ticks, Stops
<1> QED BY TypeCorrect, <1>1, PTL DEF Spec, NoLateSample
=============================================================================
