------------------------- MODULE DeviceChannel_proofs -------------------------
(***************************************************************************)
(* Proofs about DeviceChannel, for every number of calls, sockets and      *)
(* faults and every queue.                                                 *)
(*                                                                         *)
(* A waiter is found because the live socket is always one that is served, *)
(* and a task empties its map of waiters before it ends.  An operation is  *)
(* not run twice because a call's frame is in one place at a time (in the  *)
(* queue, in the task's hands, on the wire, at the device), and a call     *)
(* whose failure is answered as safe to retry has its frame in none.  The  *)
(* second half maps each step to one of CallPromise, or to none; it needs  *)
(* that an answer on its way is one the device gave (Honest).              *)
(***************************************************************************)
EXTENDS DeviceChannel, TLAPS

Listens == {"claimed", "queued", "sent"}
Served == {"serving", "parting", "closing", "clearing"}

QueueType(q) ==
    /\ q \in [Socket -> Seq(Call \cup {Close})]
    /\ \A s \in Socket : Len(q[s]) <= Capacity

\* The other conjuncts of TypeOK.
Types ==
    /\ registered \in BOOLEAN
    /\ removal \in {"none", "unregistered", "done"}
    /\ live \in Socket \cup {None}
    /\ serve \in [Socket -> {"unused", "upgrading", "serving", "parting", "closing", "clearing", "ended"}]
    /\ sending \in [Socket -> Call \cup {None}]
    /\ pending \in [Socket -> SUBSET Call]
    /\ call \in [Call -> Stages]
    /\ on \in [Call -> Socket \cup {None}]
    /\ accepted \in [Call -> {"none", "ok", "offline", "timeout", "gone"}]
    /\ answer \in [Call -> {"none", "reply", "offline", "gone"}]
    /\ broken \in [Socket -> BOOLEAN]
    /\ down \in [Socket -> SUBSET Call]
    /\ up \in [Socket -> SUBSET Call]
    /\ link \in Socket \cup {None, Stopped}
    /\ task \in [Call -> {"none", "parked", "done"}]
    /\ ran \in [Op -> Nat]
    /\ drained \subseteq Op
    /\ faults \in 0 .. MaxFaults

LiveServed == live # None => serve[live] \in {"serving", "parting", "closing"}

\* A call on a socket has its waiter there, or has been answered.
Waiters == \A i \in Call : call[i] \in Listens =>
    /\ on[i] \in Socket
    /\ answer[i] = "none" => i \in pending[on[i]] /\ serve[on[i]] \in Served

In(q, i, s) == \E k \in 1 .. Len(q[s]) : q[s][k] = i
Single(q) == \A s \in Socket : \A j, k \in 1 .. Len(q[s]) :
                 q[s][j] = q[s][k] /\ q[s][j] # Close => j = k

\* A frame is in one place, on its own socket.
Placed == \A i \in Call, s \in Socket :
    /\ In(queue, i, s) \/ sending[s] = i => accepted[i] = "none"
    /\ In(queue, i, s) \/ sending[s] = i \/ i \in down[s] => s = on[i] /\ task[i] = "none"
    /\ In(queue, i, s) => sending[s] # i
    /\ i \in down[s] => sending[s] # i /\ ~In(queue, i, s)

Untouched(i) ==
    /\ task[i] = "none"
    /\ \A s \in Socket : ~In(queue, i, s) /\ sending[s] # i /\ i \notin down[s]

\* Where nothing of a call has reached a queue, and when the task speaks of it.
Early == \A i \in Call :
    /\ call[i] \in {"unused", "admitted", "waiting", "claimed", "unknown_device"} => Untouched(i)
    /\ accepted[i] # "none" => call[i] \in {"queued", "sent"}

Safe == \A i \in Call :
    /\ call[i] \in Retryable /\ OpOf[i] \notin drained => Untouched(i)
    /\ accepted[i] = "offline" => Untouched(i)
    /\ answer[i] = "offline" => OpOf[i] \in drained

\* A later call for an operation was allowed by every earlier one.
Repeats == \A i, j \in Call : j < i /\ call[i] # "unused" =>
    /\ call[j] # "unused"
    /\ OpOf[j] = OpOf[i] => call[j] \in Retryable

RanOnce == \A o \in Op \ drained :
    ran[o] = 0 \/ (ran[o] = 1 /\ \E i \in Call : OpOf[i] = o /\ task[i] = "done")

IInv == /\ Types /\ QueueType(queue) /\ LiveServed /\ Waiters /\ Placed /\ Single(queue)
        /\ Early /\ Safe /\ Repeats /\ RanOnce

USE BoundAssumption
    DEF Socket, Call, None, Close, Stopped, Waiting, Outcome, Retryable, Stages, Listens, Served

-----------------------------------------------------------------------------
(* Queues.                                                                 *)

LEMMA Appended ==
    ASSUME NEW q, QueueType(q), NEW s \in Socket, NEW x \in Call \cup {Close},
           Len(q[s]) < Capacity
    PROVE  LET p == [q EXCEPT ![s] = Append(@, x)] IN
           /\ QueueType(p)
           /\ \A i \in Call, t \in Socket : In(p, i, t) <=> In(q, i, t) \/ (t = s /\ i = x)
           /\ Single(q) /\ (x = Close \/ ~In(q, x, s)) => Single(p)
<1> DEFINE p == [q EXCEPT ![s] = Append(@, x)]
<1>1. /\ p \in [Socket -> Seq(Call \cup {Close})]
      /\ \A t \in Socket : p[t] = IF t = s THEN Append(q[s], x) ELSE q[t]
  BY DEF QueueType
<1>2. /\ q[s] \in Seq(Call \cup {Close}) /\ Len(q[s]) \in Nat
      /\ Len(p[s]) = Len(q[s]) + 1
      /\ \A k \in 1 .. Len(q[s]) : p[s][k] = q[s][k]
      /\ p[s][Len(q[s]) + 1] = x
  BY <1>1 DEF QueueType
<1> HIDE DEF p
<1>3. QueueType(p)
  <2>1. \A t \in Socket : Len(p[t]) <= Capacity
    <3> SUFFICES ASSUME NEW t \in Socket PROVE Len(p[t]) <= Capacity
      OBVIOUS
    <3>1. CASE t = s
      BY <1>2, <3>1
    <3>2. CASE t # s
      BY <1>1, <3>2 DEF QueueType
    <3> QED BY <3>1, <3>2
  <2> QED BY <1>1, <2>1 DEF QueueType
<1>4. \A i \in Call, t \in Socket : In(p, i, t) <=> In(q, i, t) \/ (t = s /\ i = x)
  <2> SUFFICES ASSUME NEW i \in Call, NEW t \in Socket
               PROVE  In(p, i, t) <=> In(q, i, t) \/ (t = s /\ i = x)
    OBVIOUS
  <2>1. CASE t # s
    BY <1>1, <2>1 DEF In
  <2>2. CASE t = s
    <3>1. ASSUME In(p, i, s) PROVE In(q, i, s) \/ i = x
      <4>1. PICK k \in 1 .. Len(p[s]) : p[s][k] = i
        BY <3>1 DEF In
      <4>2. CASE k = Len(q[s]) + 1
        BY <1>2, <4>1, <4>2
      <4>3. CASE k # Len(q[s]) + 1
        <5>1. k \in 1 .. Len(q[s])
          BY <1>2, <4>1, <4>3
        <5> QED BY <1>2, <4>1, <5>1 DEF In
      <4> QED BY <4>2, <4>3
    <3>2. ASSUME In(q, i, s) PROVE In(p, i, s)
      <4>1. PICK k \in 1 .. Len(q[s]) : q[s][k] = i
        BY <3>2 DEF In
      <4>2. k \in 1 .. Len(p[s]) /\ p[s][k] = i
        BY <1>2, <4>1
      <4> QED BY <4>2 DEF In
    <3>3. In(p, x, s)
      <4>1. Len(q[s]) + 1 \in 1 .. Len(p[s])
        BY <1>2
      <4> QED BY <1>2, <4>1 DEF In
    <3> QED BY <2>2, <3>1, <3>2, <3>3
  <2> QED BY <2>1, <2>2
<1>5. ASSUME Single(q), x = Close \/ ~In(q, x, s) PROVE Single(p)
  <2> SUFFICES ASSUME NEW t \in Socket, NEW j \in 1 .. Len(p[t]), NEW k \in 1 .. Len(p[t]),
                      p[t][j] = p[t][k], p[t][j] # Close
               PROVE  j = k
    BY DEF Single
  <2>1. CASE t # s
    BY <1>1, <1>5, <2>1 DEF Single
  <2>2. CASE t = s
    <3>1. CASE j \in 1 .. Len(q[s]) /\ k \in 1 .. Len(q[s])
      BY <1>2, <1>5, <2>2, <3>1 DEF Single
    <3>2. CASE j = Len(q[s]) + 1 /\ k = Len(q[s]) + 1
      BY <3>2
    <3>3. CASE j \in 1 .. Len(q[s]) /\ k = Len(q[s]) + 1
      BY <1>2, <1>5, <2>2, <3>3 DEF In
    <3>4. CASE j = Len(q[s]) + 1 /\ k \in 1 .. Len(q[s])
      BY <1>2, <1>5, <2>2, <3>4 DEF In
    <3> QED BY <1>2, <2>2, <3>1, <3>2, <3>3, <3>4
  <2> QED BY <2>1, <2>2
<1> QED BY <1>3, <1>4, <1>5 DEF p

LEMMA Taken ==
    ASSUME NEW q, QueueType(q), NEW s \in Socket, q[s] # <<>>
    PROVE  LET p == [q EXCEPT ![s] = Tail(@)] IN
           /\ QueueType(p)
           /\ Head(q[s]) \in Call \cup {Close}
           /\ \A i \in Call, t \in Socket : In(p, i, t) => In(q, i, t)
           /\ Head(q[s]) # Close => In(q, Head(q[s]), s)
           /\ Single(q) => /\ Single(p)
                           /\ Head(q[s]) # Close => ~In(p, Head(q[s]), s)
<1> DEFINE p == [q EXCEPT ![s] = Tail(@)]
<1>1. /\ p \in [Socket -> Seq(Call \cup {Close})]
      /\ \A t \in Socket : p[t] = IF t = s THEN Tail(q[s]) ELSE q[t]
  BY DEF QueueType
<1>2. /\ q[s] \in Seq(Call \cup {Close}) /\ Len(q[s]) \in Nat /\ Len(q[s]) > 0
      /\ Len(p[s]) = Len(q[s]) - 1
      /\ \A k \in 1 .. Len(p[s]) : p[s][k] = q[s][k + 1]
      /\ Head(q[s]) = q[s][1] /\ q[s][1] \in Call \cup {Close}
  BY <1>1 DEF QueueType
<1> HIDE DEF p
<1>3. QueueType(p)
  BY SMTT(30), <1>1, <1>2 DEF QueueType
<1>4. \A i \in Call, t \in Socket : In(p, i, t) => In(q, i, t)
  <2> SUFFICES ASSUME NEW i \in Call, NEW t \in Socket, In(p, i, t) PROVE In(q, i, t)
    OBVIOUS
  <2>1. CASE t # s
    BY <1>1, <2>1 DEF In
  <2>2. CASE t = s
    <3>1. PICK k \in 1 .. Len(p[s]) : p[s][k] = i
      BY <2>2 DEF In
    <3>2. k + 1 \in 1 .. Len(q[s]) /\ q[s][k + 1] = i
      BY <1>2, <3>1
    <3> QED BY <2>2, <3>2 DEF In
  <2> QED BY <2>1, <2>2
<1>5. In(q, Head(q[s]), s)
  BY <1>2 DEF In
<1>6. ASSUME Single(q) PROVE Single(p) /\ (Head(q[s]) # Close => ~In(p, Head(q[s]), s))
  <2>1. Single(p)
    <3> SUFFICES ASSUME NEW t \in Socket, NEW j \in 1 .. Len(p[t]), NEW k \in 1 .. Len(p[t]),
                        p[t][j] = p[t][k], p[t][j] # Close
                 PROVE  j = k
      BY DEF Single
    <3>1. CASE t # s
      BY <1>1, <1>6, <3>1 DEF Single
    <3>2. CASE t = s
      <4>1. j + 1 \in 1 .. Len(q[s]) /\ k + 1 \in 1 .. Len(q[s])
        BY <1>2, <3>2
      <4>2. q[s][j + 1] = q[s][k + 1] /\ q[s][j + 1] # Close
        BY <1>2, <3>2
      <4>3. j + 1 = k + 1
        BY <1>6, <4>1, <4>2 DEF Single
      <4> QED BY <4>3
    <3> QED BY <3>1, <3>2
  <2>2. ASSUME Head(q[s]) # Close, In(p, Head(q[s]), s) PROVE FALSE
    <3>1. PICK k \in 1 .. Len(p[s]) : p[s][k] = Head(q[s])
      BY <2>2 DEF In
    <3>2. k + 1 \in 1 .. Len(q[s]) /\ 1 \in 1 .. Len(q[s]) /\ q[s][k + 1] = q[s][1]
          /\ q[s][1] # Close
      BY <1>2, <2>2, <3>1
    <3>3. k + 1 = 1
      BY <1>6, <3>2 DEF Single
    <3> QED BY <3>3
  <2> QED BY <2>1, <2>2
<1> QED BY <1>2, <1>3, <1>4, <1>5, <1>6 DEF p

LEMMA Emptied ==
    ASSUME NEW q, QueueType(q), NEW s \in Socket
    PROVE  LET p == [q EXCEPT ![s] = <<>>] IN
           /\ QueueType(p)
           /\ \A i \in Call, t \in Socket : In(p, i, t) => In(q, i, t) /\ t # s
           /\ Single(q) => Single(p)
<1> DEFINE p == [q EXCEPT ![s] = <<>>]
<1>1. /\ p \in [Socket -> Seq(Call \cup {Close})]
      /\ \A t \in Socket : p[t] = IF t = s THEN <<>> ELSE q[t]
  <2>1. <<>> \in Seq(Call \cup {Close})
    OBVIOUS
  <2> QED BY <2>1 DEF QueueType
<1>1a. Len(<<>>) = 0 /\ 1 .. 0 = {}
  OBVIOUS
<1>1b. \A t \in Socket : t # s => p[t] = q[t]
  BY <1>1
<1>1c. p[s] = <<>>
  BY <1>1
<1> HIDE DEF p
<1>2. QueueType(p)
  <2>1. ASSUME NEW t \in Socket PROVE Len(p[t]) <= Capacity
    <3>1. CASE t = s
      BY <1>1a, <1>1c, <3>1
    <3>2. CASE t # s
      BY <1>1b, <3>2 DEF QueueType
    <3> QED BY <3>1, <3>2
  <2> QED BY <1>1, <2>1 DEF QueueType
<1>3. ASSUME NEW i \in Call, NEW t \in Socket, In(p, i, t) PROVE In(q, i, t) /\ t # s
  <2>1. t # s
    BY <1>1a, <1>1c, <1>3 DEF In
  <2> QED BY <1>1b, <1>3, <2>1 DEF In
<1>4. ASSUME Single(q) PROVE Single(p)
  <2> SUFFICES ASSUME NEW t \in Socket, NEW j \in 1 .. Len(p[t]), NEW k \in 1 .. Len(p[t]),
                      p[t][j] = p[t][k], p[t][j] # Close
               PROVE  j = k
    BY DEF Single
  <2>1. CASE t = s
    BY <1>1a, <1>1c, <2>1
  <2>2. CASE t # s
    BY <1>1b, <1>4, <2>2 DEF Single
  <2> QED BY <2>1, <2>2
<1> QED BY <1>2, <1>3, <1>4 DEF p

LEMMA Asked ==
    ASSUME NEW q, QueueType(q), NEW s \in Socket
    PROVE  /\ QueueType(AskClose(s, q))
           /\ \A i \in Call, t \in Socket : In(AskClose(s, q), i, t) <=> In(q, i, t)
           /\ Single(q) => Single(AskClose(s, q))
<1>1. CASE Len(q[s]) < Capacity
  <2>1. /\ AskClose(s, q) = [q EXCEPT ![s] = Append(@, Close)]
        /\ \A i \in Call : i # Close
    BY <1>1 DEF AskClose
  <2>2. Close \in Call \cup {Close}
    OBVIOUS
  <2>3. /\ QueueType([q EXCEPT ![s] = Append(@, Close)])
        /\ \A i \in Call, t \in Socket :
               In([q EXCEPT ![s] = Append(@, Close)], i, t) <=> In(q, i, t) \/ (t = s /\ i = Close)
        /\ Single(q) => Single([q EXCEPT ![s] = Append(@, Close)])
    <3> HIDE DEF Close
    <3> QED BY <1>1, <2>2, Appended
  <2> QED BY <2>1, <2>3
<1>2. CASE ~(Len(q[s]) < Capacity)
  BY <1>2 DEF AskClose
<1> QED BY <1>1, <1>2

-----------------------------------------------------------------------------
LEMMA InitInv == Init => IInv
<1> SUFFICES ASSUME Init PROVE IInv
    OBVIOUS
<1>1. /\ QueueType(queue) /\ Single(queue)
      /\ \A i \in Call, s \in Socket : ~In(queue, i, s)
  <2>1. <<>> \in Seq(Call \cup {Close}) /\ Len(<<>>) = 0
    OBVIOUS
  <2>2. queue \in [Socket -> Seq(Call \cup {Close})] /\ \A s \in Socket : Len(queue[s]) = 0
    BY <2>1 DEF Init
  <2> QED BY <2>2 DEF QueueType, Single, In
<1>2. Types
  BY DEF Init, Types
<1>3. LiveServed /\ Waiters
  BY DEF Init, LiveServed, Waiters
<1>4. \A i \in Call : /\ task[i] = "none" /\ accepted[i] = "none" /\ answer[i] = "none"
                      /\ call[i] = "unused" /\ i # 0
  BY DEF Init
<1>5. \A s \in Socket : sending[s] = 0 /\ down[s] = {}
  BY DEF Init
<1>6. Placed /\ Early /\ Safe
  BY <1>1, <1>4, <1>5 DEF Placed, Early, Safe, Untouched
<1>7. Repeats /\ RanOnce
  BY <1>4 DEF Init, Repeats, RanOnce
<1> QED BY <1>1, <1>2, <1>3, <1>6, <1>7 DEF IInv

-----------------------------------------------------------------------------
(* What the names of the calls and sockets have to do with one another.    *)

LEMMA Names ==
    /\ None \notin Socket /\ Close \notin Call /\ None \notin Call
    /\ Stopped \notin Socket /\ Stopped # None
    /\ OpOf \in [Call -> Op]
OBVIOUS

HIDE DEF Socket, Call, None, Close, Stopped

LEMMA FinishInv ==
    ASSUME IInv, NEW i \in Call,
           NEW o \in {"offline", "disconnected", "busy", "timeout", "replied"},
           call[i] \in Waiting, Finish(i, o),
           o \in Retryable /\ OpOf[i] \notin drained => Untouched(i),
           UNCHANGED <<registered, removal, live, serve, sending, queue, on, wireVars,
                       deviceVars, drained, faults>>
    PROVE  IInv'
<1> USE Names DEF IInv
<1>0a. \A j \in Call : call'[j] = IF j = i THEN o ELSE call[j]
  BY DEF Finish, consoleVars, callVars, deviceVars, wireVars, Types
<1>0c. \A j \in Call : accepted'[j] = IF j = i THEN "none" ELSE accepted[j]
  BY DEF Finish, consoleVars, callVars, deviceVars, wireVars, Types
<1>0d. \A j \in Call : answer'[j] = IF j = i THEN "none" ELSE answer[j]
  BY DEF Finish, consoleVars, callVars, deviceVars, wireVars, Types
<1>0e. \A t \in Socket : pending'[t] = pending[t] \ {i}
  BY DEF Finish, consoleVars, callVars, deviceVars, wireVars, Types
<1>0f. call' \in [Call -> Stages]
  BY DEF Finish, consoleVars, callVars, deviceVars, wireVars, Types
<1>0h. pending' \in [Socket -> SUBSET Call]
  BY DEF Finish, consoleVars, callVars, deviceVars, wireVars, Types
<1>0i. accepted' \in [Call -> {"none", "ok", "offline", "timeout", "gone"}]
  BY DEF Finish, consoleVars, callVars, deviceVars, wireVars, Types
<1>0j. answer' \in [Call -> {"none", "reply", "offline", "gone"}]
  BY DEF Finish, consoleVars, callVars, deviceVars, wireVars, Types
<1>0b. /\ registered' = registered /\ removal' = removal /\ live' = live /\ serve' = serve
       /\ sending' = sending /\ queue' = queue /\ on' = on /\ broken' = broken
       /\ down' = down /\ up' = up /\ link' = link /\ task' = task
       /\ ran' = ran /\ drained' = drained /\ faults' = faults
  BY DEF Finish, consoleVars, callVars, deviceVars, wireVars, Types
<1>0q. /\ QueueType(queue)' /\ Single(queue)'
       /\ \A j \in Call, t \in Socket : In(queue', j, t) <=> In(queue, j, t)
  BY <1>0b
<1>1. Types'
  BY <1>0f, <1>0h, <1>0i, <1>0j, <1>0b DEF Types
<1>2. QueueType(queue)'
  BY <1>0q
<1>3. LiveServed'
  BY <1>0b DEF Types, LiveServed
<1>4. Waiters'
  BY <1>0a, <1>0d, <1>0e, <1>0b DEF Waiters
<1>5. Placed'
  BY <1>0c, <1>0b, <1>0q DEF Placed
<1>6. Single(queue)'
  BY <1>0q
<1>7. Early'
  BY <1>0a, <1>0c, <1>0b, <1>0q DEF Early, Untouched
<1>8. Safe'
  BY <1>0a, <1>0c, <1>0d, <1>0b, <1>0q DEF Safe, Untouched
<1>9. Repeats'
  BY <1>0a, <1>0b DEF Repeats
<1>10. RanOnce'
  BY <1>0b DEF RanOnce
<1> QED BY <1>1, <1>2, <1>3, <1>4, <1>5, <1>6, <1>7, <1>8, <1>9, <1>10

LEMMA ClaimInv ==
    ASSUME IInv, NEW i \in Call, call[i] \in {"admitted", "waiting"},
           live # None, ClaimLive(i),
           UNCHANGED <<registered, removal, live, serve, sending, queue, accepted, answer,
                       wireVars, deviceVars, drained, faults>>
    PROVE  IInv'
<1> USE Names DEF IInv
<1>0a. \A j \in Call : call'[j] = IF j = i THEN "claimed" ELSE call[j]
  BY DEF ClaimLive, consoleVars, callVars, deviceVars, wireVars, Types
<1>0c. \A j \in Call : on'[j] = IF j = i THEN live ELSE on[j]
  BY DEF ClaimLive, consoleVars, callVars, deviceVars, wireVars, Types
<1>0d. \A t \in Socket : pending'[t] = IF t = live THEN pending[t] \cup {i} ELSE pending[t]
  BY DEF ClaimLive, consoleVars, callVars, deviceVars, wireVars, Types
<1>0e. call' \in [Call -> Stages]
  BY DEF ClaimLive, consoleVars, callVars, deviceVars, wireVars, Types
<1>0f. pending' \in [Socket -> SUBSET Call]
  BY DEF ClaimLive, consoleVars, callVars, deviceVars, wireVars, Types
<1>0h. on' \in [Call -> Socket \cup {None}]
  BY DEF ClaimLive, consoleVars, callVars, deviceVars, wireVars, Types
<1>0b. /\ registered' = registered /\ removal' = removal /\ live' = live /\ serve' = serve
       /\ sending' = sending /\ queue' = queue /\ accepted' = accepted /\ answer' = answer
       /\ broken' = broken /\ down' = down /\ up' = up /\ link' = link
       /\ task' = task /\ ran' = ran /\ drained' = drained /\ faults' = faults
  BY DEF ClaimLive, consoleVars, callVars, deviceVars, wireVars, Types
<1>0g. /\ live \in Socket /\ serve[live] \in Served
       /\ task[i] = "none"
       /\ \A t \in Socket : ~In(queue, i, t) /\ sending[t] # i /\ i \notin down[t]
  BY DEF ClaimLive, consoleVars, callVars, deviceVars, wireVars, Types, LiveServed,
     Early, Untouched
<1>0q. /\ QueueType(queue)' /\ Single(queue)'
       /\ \A j \in Call, t \in Socket : In(queue', j, t) <=> In(queue, j, t)
  BY <1>0b
<1>1. Types'
  BY <1>0e, <1>0f, <1>0h, <1>0b DEF Types
<1>2. QueueType(queue)'
  BY <1>0q
<1>3. LiveServed'
  BY <1>0b, <1>0g DEF Types, LiveServed
<1>4. Waiters'
  <2> SUFFICES ASSUME NEW j \in Call, call'[j] \in Listens
               PROVE  /\ on'[j] \in Socket
                      /\ answer'[j] = "none" => j \in pending'[on'[j]] /\ serve'[on'[j]] \in Served
    BY DEF Waiters
  <2>1. CASE j = i
    BY <1>0c, <1>0d, <1>0b, <1>0g, <2>1
  <2>2. CASE j # i
    <3>1. /\ on[j] \in Socket
          /\ answer[j] = "none" => j \in pending[on[j]] /\ serve[on[j]] \in Served
      BY <1>0a, <2>2 DEF Waiters
    <3> QED BY <1>0c, <1>0d, <1>0b, <2>2, <3>1
  <2> QED BY <2>1, <2>2
<1>5. Placed'
  BY <1>0c, <1>0b, <1>0g, <1>0q DEF Placed
<1>6. Single(queue)'
  BY <1>0q
<1>7. Early'
  BY <1>0a, <1>0b, <1>0g, <1>0q DEF Early, Untouched
<1>8. Safe'
  BY <1>0a, <1>0b, <1>0g, <1>0q DEF Safe, Untouched
<1>9. Repeats'
  BY <1>0a, <1>0b DEF Repeats
<1>10. RanOnce'
  BY <1>0b, <1>0g DEF RanOnce
<1> QED BY <1>1, <1>2, <1>3, <1>4, <1>5, <1>6, <1>7, <1>8, <1>9, <1>10

LEMMA StageInv ==
    ASSUME IInv, NEW i \in Call, NEW c \in {"admitted", "unknown_device", "busy", "waiting", "sent"},
           call[i] # "unused" \/ MayStart(i), call[i] \notin Retryable,
           call' = [call EXCEPT ![i] = c],
           c # "sent" => call[i] \in {"unused", "admitted"},
           c = "sent" => call[i] = "queued",
           UNCHANGED <<registered, removal, consoleVars, on, accepted, answer,
                       wireVars, deviceVars, drained, faults>>
    PROVE  IInv'
<1> USE Names DEF IInv
<1>0a. \A j \in Call : call'[j] = IF j = i THEN c ELSE call[j]
  BY DEF MayStart, consoleVars, callVars, deviceVars, wireVars, Types
<1>0c. call' \in [Call -> Stages]
  BY DEF MayStart, consoleVars, callVars, deviceVars, wireVars, Types
<1>0b. /\ registered' = registered /\ removal' = removal /\ live' = live /\ serve' = serve
       /\ sending' = sending /\ queue' = queue /\ pending' = pending /\ on' = on
       /\ accepted' = accepted /\ answer' = answer /\ broken' = broken /\ down' = down
       /\ up' = up /\ link' = link /\ task' = task /\ ran' = ran
       /\ drained' = drained /\ faults' = faults
  BY DEF MayStart, consoleVars, callVars, deviceVars, wireVars, Types
<1>0g. /\ c # "sent" => Untouched(i)
  BY DEF MayStart, consoleVars, callVars, deviceVars, wireVars, Types, Early
<1>0q. /\ QueueType(queue)' /\ Single(queue)'
       /\ \A j \in Call, t \in Socket : In(queue', j, t) <=> In(queue, j, t)
  BY <1>0b
<1>1. Types'
  BY <1>0c, <1>0b DEF Types
<1>2. QueueType(queue)'
  BY <1>0q
<1>3. LiveServed'
  BY <1>0b, <1>0g DEF Types, LiveServed
<1>4. Waiters'
  BY <1>0a, <1>0b, <1>0g DEF Waiters
<1>5. Placed'
  BY <1>0b, <1>0g, <1>0q DEF Placed
<1>6. Single(queue)'
  BY <1>0q
<1>7. Early'
  BY <1>0a, <1>0b, <1>0g, <1>0q DEF Early, Untouched
<1>8. Safe'
  BY <1>0a, <1>0b, <1>0g, <1>0q DEF Safe, Untouched
<1>9. Repeats'
  <2> SUFFICES ASSUME NEW k \in Call, NEW j \in Call, j < k, call'[k] # "unused"
               PROVE  call'[j] # "unused" /\ (OpOf[j] = OpOf[k] => call'[j] \in Retryable)
    BY <1>0b DEF Repeats
  <2>1. CASE k = i /\ call[i] = "unused"
    BY <1>0a, <1>0b, <2>1 DEF MayStart, Call
  <2>2. CASE j = i /\ call[k] # "unused"
    BY <1>0a, <1>0b, <2>2 DEF Repeats, Call
  <2>3. CASE j # i /\ call[k] # "unused"
    BY <1>0a, <1>0b, <2>3 DEF Repeats, Call
  <2> QED BY <1>0a, <2>1, <2>2, <2>3 DEF Call
<1>10. RanOnce'
  BY <1>0b, <1>0g DEF RanOnce
<1> QED BY <1>1, <1>2, <1>3, <1>4, <1>5, <1>6, <1>7, <1>8, <1>9, <1>10

LEMMA EnqueueInv ==
    ASSUME IInv, NEW i \in Call, call[i] = "claimed", Len(queue[on[i]]) < Capacity,
           call' = [call EXCEPT ![i] = "queued"],
           queue' = [queue EXCEPT ![on[i]] = Append(@, i)],
           UNCHANGED <<registered, removal, live, serve, sending, pending, on, accepted,
                       answer, wireVars, deviceVars, drained, faults>>
    PROVE  IInv'
<1> USE Names DEF IInv
<1>0a. \A j \in Call : call'[j] = IF j = i THEN "queued" ELSE call[j]
  BY DEF wireVars, consoleVars, callVars, deviceVars, wireVars, Types
<1>0c. call' \in [Call -> Stages]
  BY DEF wireVars, consoleVars, callVars, deviceVars, wireVars, Types
<1>0b. /\ registered' = registered /\ removal' = removal /\ live' = live /\ serve' = serve
       /\ sending' = sending /\ pending' = pending /\ on' = on /\ accepted' = accepted
       /\ answer' = answer /\ broken' = broken /\ down' = down /\ up' = up
       /\ link' = link /\ task' = task /\ ran' = ran /\ drained' = drained
       /\ faults' = faults
  BY DEF wireVars, consoleVars, callVars, deviceVars, wireVars, Types
<1>0g. /\ on[i] \in Socket
       /\ accepted[i] = "none"
       /\ task[i] = "none"
       /\ \A t \in Socket : ~In(queue, i, t) /\ sending[t] # i /\ i \notin down[t]
  BY DEF wireVars, consoleVars, callVars, deviceVars, wireVars, Types, Early,
     Untouched, Waiters
<1>0q. /\ QueueType(queue)' /\ Single(queue)'
       /\ \A j \in Call, t \in Socket : In(queue', j, t) <=> In(queue, j, t) \/ (t = on[i] /\ j = i)
  <2>1. LET p == [queue EXCEPT ![on[i]] = Append(@, i)] IN
        /\ QueueType(p)
        /\ \A j \in Call, t \in Socket : In(p, j, t) <=> In(queue, j, t) \/ (t = on[i] /\ j = i)
        /\ Single(queue) /\ (i = Close \/ ~In(queue, i, on[i])) => Single(p)
    BY <1>0g, Appended
  <2> QED BY <1>0g, <2>1
<1>1. Types'
  BY <1>0c, <1>0b DEF Types
<1>2. QueueType(queue)'
  BY <1>0q
<1>3. LiveServed'
  BY <1>0b, <1>0g DEF Types, LiveServed
<1>4. Waiters'
  BY <1>0a, <1>0b, <1>0g DEF Waiters
<1>5. Placed'
  <2> SUFFICES ASSUME NEW j \in Call, NEW t \in Socket
               PROVE  /\ In(queue', j, t) \/ sending'[t] = j => accepted'[j] = "none"
                      /\ In(queue', j, t) \/ sending'[t] = j \/ j \in down'[t]
                             => t = on'[j] /\ task'[j] = "none"
                      /\ In(queue', j, t) => sending'[t] # j
                      /\ j \in down'[t] => sending'[t] # j /\ ~In(queue', j, t)
    BY DEF Placed
  <2>a. /\ In(queue, j, t) \/ sending[t] = j => accepted[j] = "none"
        /\ In(queue, j, t) \/ sending[t] = j \/ j \in down[t] => t = on[j] /\ task[j] = "none"
        /\ In(queue, j, t) => sending[t] # j
        /\ j \in down[t] => sending[t] # j /\ ~In(queue, j, t)
    BY DEF Placed
  <2>1. CASE j = i
    BY <1>0a, <1>0b, <1>0g, <1>0q, <2>a, <2>1
  <2>2. CASE j # i
    BY <1>0a, <1>0b, <1>0g, <1>0q, <2>a, <2>2
  <2> QED BY <2>1, <2>2
<1>6. Single(queue)'
  BY <1>0q
<1>7. Early'
  <2>1. \A j \in Call : j # i /\ Untouched(j) => Untouched(j)'
    BY <1>0a, <1>0b, <1>0g, <1>0q DEF Untouched
  <2> QED BY <1>0a, <1>0b, <1>0g, <1>0q, <2>1 DEF Early
<1>8. Safe'
  <2>1. \A j \in Call : j # i /\ Untouched(j) => Untouched(j)'
    BY <1>0a, <1>0b, <1>0g, <1>0q DEF Untouched
  <2> QED BY <1>0a, <1>0b, <1>0g, <1>0q, <2>1 DEF Safe
<1>9. Repeats'
  BY <1>0a, <1>0b DEF Repeats
<1>10. RanOnce'
  BY <1>0b, <1>0g DEF RanOnce
<1> QED BY <1>1, <1>2, <1>3, <1>4, <1>5, <1>6, <1>7, <1>8, <1>9, <1>10

LEMMA OpenInv ==
    ASSUME IInv, NEW s \in Socket, Open(s)
    PROVE  IInv'
<1> USE Names DEF IInv
<1>0a. \A t \in Socket : serve'[t] = IF t = s THEN "serving" ELSE serve[t]
  BY DEF Open, Told, consoleVars, callVars, deviceVars, wireVars, Types
<1>0c. live' = s
  BY DEF Open, Told, consoleVars, callVars, deviceVars, wireVars, Types
<1>0d. \A j \in Call : answer'[j] =
          IF live # None /\ j \in pending[live] /\ answer[j] = "none" THEN "gone" ELSE answer[j]
  BY DEF Open, Told, consoleVars, callVars, deviceVars, wireVars, Types
<1>0e. \A t \in Socket : pending'[t] = IF t = live THEN {} ELSE pending[t]
  BY DEF Open, Told, consoleVars, callVars, deviceVars, wireVars, Types
<1>0f. serve' \in [Socket -> {"unused", "upgrading", "serving", "parting", "closing", "clearing", "ended"}]
  BY DEF Open, Told, consoleVars, callVars, deviceVars, wireVars, Types
<1>0h. answer' \in [Call -> {"none", "reply", "offline", "gone"}]
  BY DEF Open, Told, consoleVars, callVars, deviceVars, wireVars, Types
<1>0i. pending' \in [Socket -> SUBSET Call]
  BY DEF Open, Told, consoleVars, callVars, deviceVars, wireVars, Types
<1>0b. /\ registered' = registered /\ removal' = removal /\ sending' = sending /\ call' = call
       /\ on' = on /\ accepted' = accepted /\ broken' = broken /\ down' = down
       /\ up' = up /\ link' = link /\ task' = task /\ ran' = ran
       /\ drained' = drained /\ faults' = faults
  BY DEF Open, Told, consoleVars, callVars, deviceVars, wireVars, Types
<1>0g. /\ live # s /\ s \in Socket
  BY DEF Open, Told, consoleVars, callVars, deviceVars, wireVars, Types, LiveServed
<1>0q. /\ QueueType(queue)' /\ Single(queue)'
       /\ \A j \in Call, t \in Socket : In(queue', j, t) <=> In(queue, j, t)
  <2>1. CASE queue' = queue
    BY <2>1
  <2>2. CASE live \in Socket /\ queue' = AskClose(live, queue)
    BY <2>2, Asked
  <2> QED BY <2>1, <2>2 DEF Open, Types
<1>1. Types'
  BY <1>0c, <1>0f, <1>0h, <1>0i, <1>0b DEF Types
<1>2. QueueType(queue)'
  BY <1>0q
<1>3. LiveServed'
  BY <1>0a, <1>0c, <1>0b, <1>0g DEF Types, LiveServed
<1>4. Waiters'
  <2> SUFFICES ASSUME NEW j \in Call, call'[j] \in Listens
               PROVE  /\ on'[j] \in Socket
                      /\ answer'[j] = "none" => j \in pending'[on'[j]] /\ serve'[on'[j]] \in Served
    BY DEF Waiters
  <2>1. /\ on[j] \in Socket
        /\ answer[j] = "none" => j \in pending[on[j]] /\ serve[on[j]] \in Served
    BY <1>0b DEF Waiters
  <2>2. answer'[j] = "none" => answer[j] = "none" /\ on[j] # live
    BY <1>0d, <1>0b, <2>1
  <2> QED BY <1>0a, <1>0c, <1>0d, <1>0e, <1>0b, <2>1, <2>2
<1>5. Placed'
  BY <1>0b, <1>0g, <1>0q DEF Placed
<1>6. Single(queue)'
  BY <1>0q
<1>7. Early'
  BY <1>0b, <1>0g, <1>0q DEF Early, Untouched
<1>8. Safe'
  BY <1>0d, <1>0b, <1>0g, <1>0q DEF Safe, Untouched
<1>9. Repeats'
  BY <1>0b DEF Repeats
<1>10. RanOnce'
  BY <1>0b, <1>0g DEF RanOnce
<1> QED BY <1>1, <1>2, <1>3, <1>4, <1>5, <1>6, <1>7, <1>8, <1>9, <1>10

LEMMA DisconnectInv ==
    ASSUME IInv, Disconnect
    PROVE  IInv'
<1> USE Names DEF IInv
<1>0a. live' = None
  BY DEF Disconnect, Told, consoleVars, callVars, deviceVars, wireVars, Types
<1>0c. \A j \in Call : answer'[j] =
          IF live # None /\ j \in pending[live] /\ answer[j] = "none" THEN "offline" ELSE answer[j]
  BY DEF Disconnect, Told, consoleVars, callVars, deviceVars, wireVars, Types
<1>0d. \A t \in Socket : pending'[t] = IF t = live THEN {} ELSE pending[t]
  BY ZenonT(30), SMTT(30) DEF Disconnect, Types
<1>0e. drained \subseteq drained' /\ (live # None => \A j \in pending[live] : OpOf[j] \in drained')
  BY DEF Disconnect, Told, consoleVars, callVars, deviceVars, wireVars, Types
<1>0f. removal' \in {"none", "unregistered", "done"}
  BY DEF Disconnect, Told, consoleVars, callVars, deviceVars, wireVars, Types
<1>0h. answer' \in [Call -> {"none", "reply", "offline", "gone"}]
  BY DEF Disconnect, Told, consoleVars, callVars, deviceVars, wireVars, Types
<1>0i. pending' \in [Socket -> SUBSET Call]
  BY DEF Disconnect, Told, consoleVars, callVars, deviceVars, wireVars, Types
<1>0j. drained' \in SUBSET Op
  BY DEF Disconnect, Told, consoleVars, callVars, deviceVars, wireVars, Types
<1>0b. /\ registered' = registered /\ serve' = serve /\ sending' = sending /\ call' = call
       /\ on' = on /\ accepted' = accepted /\ broken' = broken /\ down' = down
       /\ up' = up /\ link' = link /\ task' = task /\ ran' = ran
       /\ faults' = faults
  BY DEF Disconnect, Told, consoleVars, callVars, deviceVars, wireVars, Types
<1>0q. /\ QueueType(queue)' /\ Single(queue)'
       /\ \A j \in Call, t \in Socket : In(queue', j, t) <=> In(queue, j, t)
  <2>1. CASE queue' = queue
    BY <2>1
  <2>2. CASE live \in Socket /\ queue' = AskClose(live, queue)
    BY <2>2, Asked
  <2> QED BY <2>1, <2>2 DEF Disconnect, Types
<1>1. Types'
  BY <1>0a, <1>0f, <1>0h, <1>0i, <1>0j, <1>0b DEF Types
<1>2. QueueType(queue)'
  BY <1>0q
<1>3. LiveServed'
  BY <1>0a, <1>0b DEF Types, LiveServed
<1>4. Waiters'
  <2> SUFFICES ASSUME NEW j \in Call, call'[j] \in Listens
               PROVE  /\ on'[j] \in Socket
                      /\ answer'[j] = "none" => j \in pending'[on'[j]] /\ serve'[on'[j]] \in Served
    BY DEF Waiters
  <2>1. /\ on[j] \in Socket
        /\ answer[j] = "none" => j \in pending[on[j]] /\ serve[on[j]] \in Served
    BY <1>0b DEF Waiters
  <2>2. answer'[j] = "none" => answer[j] = "none" /\ on[j] # live
    BY <1>0c, <1>0b, <2>1
  <2> QED BY <1>0a, <1>0c, <1>0d, <1>0b, <2>1, <2>2
<1>5. Placed'
  BY <1>0b, <1>0q DEF Placed
<1>6. Single(queue)'
  BY <1>0q
<1>7. Early'
  BY <1>0b, <1>0q DEF Early, Untouched
<1>8. Safe'
  BY <1>0c, <1>0e, <1>0b, <1>0q DEF Safe, Untouched
<1>9. Repeats'
  BY <1>0b DEF Repeats
<1>10. RanOnce'
  BY <1>0e, <1>0b DEF RanOnce
<1> QED BY <1>1, <1>2, <1>3, <1>4, <1>5, <1>6, <1>7, <1>8, <1>9, <1>10

LEMMA UpgradeFailsInv ==
    ASSUME IInv, NEW s \in Socket, UpgradeFails(s)
    PROVE  IInv'
<1> USE Names DEF IInv
<1>0a. \A t \in Socket : serve'[t] = IF t = s THEN "ended" ELSE serve[t]
  BY DEF UpgradeFails, consoleVars, callVars, deviceVars, wireVars, Types
<1>0c. serve' \in [Socket -> {"unused", "upgrading", "serving", "parting", "closing", "clearing", "ended"}]
  BY DEF UpgradeFails, consoleVars, callVars, deviceVars, wireVars, Types
<1>0b. /\ registered' = registered /\ removal' = removal /\ live' = live /\ sending' = sending
       /\ queue' = queue /\ pending' = pending /\ call' = call /\ on' = on
       /\ accepted' = accepted /\ answer' = answer /\ broken' = broken /\ down' = down
       /\ up' = up /\ link' = link /\ task' = task /\ ran' = ran
       /\ drained' = drained /\ faults' = faults
  BY DEF UpgradeFails, consoleVars, callVars, deviceVars, wireVars, Types
<1>0g. /\ serve[s] = "upgrading"
  BY DEF UpgradeFails, consoleVars, callVars, deviceVars, wireVars, Types
<1>0q. /\ QueueType(queue)' /\ Single(queue)'
       /\ \A j \in Call, t \in Socket : In(queue', j, t) <=> In(queue, j, t)
  BY <1>0b
<1>1. Types'
  BY <1>0c, <1>0b DEF Types
<1>2. QueueType(queue)'
  BY <1>0q
<1>3. LiveServed'
  BY <1>0a, <1>0b, <1>0g DEF Types, LiveServed
<1>4. Waiters'
  BY <1>0a, <1>0b, <1>0g DEF Waiters
<1>5. Placed'
  BY <1>0b, <1>0g, <1>0q DEF Placed
<1>6. Single(queue)'
  BY <1>0q
<1>7. Early'
  BY <1>0b, <1>0g, <1>0q DEF Early, Untouched
<1>8. Safe'
  BY <1>0b, <1>0g, <1>0q DEF Safe, Untouched
<1>9. Repeats'
  BY <1>0b DEF Repeats
<1>10. RanOnce'
  BY <1>0b, <1>0g DEF RanOnce
<1> QED BY <1>1, <1>2, <1>3, <1>4, <1>5, <1>6, <1>7, <1>8, <1>9, <1>10

LEMMA NoSenderInv ==
    ASSUME IInv, NEW s \in Socket, NoSender(s)
    PROVE  IInv'
<1> USE Names DEF IInv
<1>0a. \A t \in Socket : serve'[t] = IF t = s THEN "closing" ELSE serve[t]
  BY DEF NoSender, consoleVars, callVars, deviceVars, wireVars, Types
<1>0c. serve' \in [Socket -> {"unused", "upgrading", "serving", "parting", "closing", "clearing", "ended"}]
  BY DEF NoSender, consoleVars, callVars, deviceVars, wireVars, Types
<1>0b. /\ registered' = registered /\ removal' = removal /\ live' = live /\ sending' = sending
       /\ queue' = queue /\ pending' = pending /\ call' = call /\ on' = on
       /\ accepted' = accepted /\ answer' = answer /\ broken' = broken /\ down' = down
       /\ up' = up /\ link' = link /\ task' = task /\ ran' = ran
       /\ drained' = drained /\ faults' = faults
  BY DEF NoSender, consoleVars, callVars, deviceVars, wireVars, Types
<1>0g. /\ serve[s] = "serving"
  BY DEF NoSender, consoleVars, callVars, deviceVars, wireVars, Types
<1>0q. /\ QueueType(queue)' /\ Single(queue)'
       /\ \A j \in Call, t \in Socket : In(queue', j, t) <=> In(queue, j, t)
  BY <1>0b
<1>1. Types'
  BY <1>0c, <1>0b DEF Types
<1>2. QueueType(queue)'
  BY <1>0q
<1>3. LiveServed'
  BY <1>0a, <1>0b, <1>0g DEF Types, LiveServed
<1>4. Waiters'
  BY <1>0a, <1>0b, <1>0g DEF Waiters
<1>5. Placed'
  BY <1>0b, <1>0g, <1>0q DEF Placed
<1>6. Single(queue)'
  BY <1>0q
<1>7. Early'
  BY <1>0b, <1>0g, <1>0q DEF Early, Untouched
<1>8. Safe'
  BY <1>0b, <1>0g, <1>0q DEF Safe, Untouched
<1>9. Repeats'
  BY <1>0b DEF Repeats
<1>10. RanOnce'
  BY <1>0b, <1>0g DEF RanOnce
<1> QED BY <1>1, <1>2, <1>3, <1>4, <1>5, <1>6, <1>7, <1>8, <1>9, <1>10

LEMMA PartsInv ==
    ASSUME IInv, NEW s \in Socket, Parts(s)
    PROVE  IInv'
<1> USE Names DEF IInv
<1>0a. \A t \in Socket : serve'[t] = IF t = s THEN "closing" ELSE serve[t]
  BY DEF Parts, consoleVars, callVars, deviceVars, wireVars, Types
<1>0c. serve' \in [Socket -> {"unused", "upgrading", "serving", "parting", "closing", "clearing", "ended"}]
  BY DEF Parts, consoleVars, callVars, deviceVars, wireVars, Types
<1>0b. /\ registered' = registered /\ removal' = removal /\ live' = live /\ sending' = sending
       /\ queue' = queue /\ pending' = pending /\ call' = call /\ on' = on
       /\ accepted' = accepted /\ answer' = answer /\ down' = down
       /\ up' = up /\ link' = link /\ task' = task /\ ran' = ran
       /\ drained' = drained /\ faults' = faults
  BY DEF Parts, consoleVars, callVars, deviceVars, wireVars, Types
<1>0h. broken' \in [Socket -> BOOLEAN]
  BY DEF Parts, consoleVars, callVars, deviceVars, wireVars, Types
<1>0g. /\ serve[s] = "parting"
  BY DEF Parts, consoleVars, callVars, deviceVars, wireVars, Types
<1>0q. /\ QueueType(queue)' /\ Single(queue)'
       /\ \A j \in Call, t \in Socket : In(queue', j, t) <=> In(queue, j, t)
  BY <1>0b
<1>1. Types'
  BY <1>0c, <1>0b, <1>0h DEF Types
<1>2. QueueType(queue)'
  BY <1>0q
<1>3. LiveServed'
  BY <1>0a, <1>0b, <1>0g DEF Types, LiveServed
<1>4. Waiters'
  BY <1>0a, <1>0b, <1>0g DEF Waiters
<1>5. Placed'
  BY <1>0b, <1>0g, <1>0q DEF Placed
<1>6. Single(queue)'
  BY <1>0q
<1>7. Early'
  BY <1>0b, <1>0g, <1>0q DEF Early, Untouched
<1>8. Safe'
  BY <1>0b, <1>0g, <1>0q DEF Safe, Untouched
<1>9. Repeats'
  BY <1>0b DEF Repeats
<1>10. RanOnce'
  BY <1>0b, <1>0g DEF RanOnce
<1> QED BY <1>1, <1>2, <1>3, <1>4, <1>5, <1>6, <1>7, <1>8, <1>9, <1>10

LEMMA ReadEndsInv ==
    ASSUME IInv, NEW s \in Socket, ReadEnds(s)
    PROVE  IInv'
<1> USE Names DEF IInv
<1>0a. \A t \in Socket : serve'[t] = IF t = s THEN "closing" ELSE serve[t]
  BY DEF ReadEnds, consoleVars, callVars, deviceVars, wireVars, Types
<1>0c. serve' \in [Socket -> {"unused", "upgrading", "serving", "parting", "closing", "clearing", "ended"}]
  BY DEF ReadEnds, consoleVars, callVars, deviceVars, wireVars, Types
<1>0b. /\ registered' = registered /\ removal' = removal /\ live' = live /\ sending' = sending
       /\ queue' = queue /\ pending' = pending /\ call' = call /\ on' = on
       /\ accepted' = accepted /\ answer' = answer /\ broken' = broken /\ down' = down
       /\ up' = up /\ link' = link /\ task' = task /\ ran' = ran
       /\ drained' = drained /\ faults' = faults
  BY DEF ReadEnds, consoleVars, callVars, deviceVars, wireVars, Types
<1>0g. /\ serve[s] = "serving"
  BY DEF ReadEnds, consoleVars, callVars, deviceVars, wireVars, Types
<1>0q. /\ QueueType(queue)' /\ Single(queue)'
       /\ \A j \in Call, t \in Socket : In(queue', j, t) <=> In(queue, j, t)
  BY <1>0b
<1>1. Types'
  BY <1>0c, <1>0b DEF Types
<1>2. QueueType(queue)'
  BY <1>0q
<1>3. LiveServed'
  BY <1>0a, <1>0b, <1>0g DEF Types, LiveServed
<1>4. Waiters'
  BY <1>0a, <1>0b, <1>0g DEF Waiters
<1>5. Placed'
  BY <1>0b, <1>0g, <1>0q DEF Placed
<1>6. Single(queue)'
  BY <1>0q
<1>7. Early'
  BY <1>0b, <1>0g, <1>0q DEF Early, Untouched
<1>8. Safe'
  BY <1>0b, <1>0g, <1>0q DEF Safe, Untouched
<1>9. Repeats'
  BY <1>0b DEF Repeats
<1>10. RanOnce'
  BY <1>0b, <1>0g DEF RanOnce
<1> QED BY <1>1, <1>2, <1>3, <1>4, <1>5, <1>6, <1>7, <1>8, <1>9, <1>10

LEMMA CloseChannelInv ==
    ASSUME IInv, NEW s \in Socket, CloseChannel(s)
    PROVE  IInv'
<1> USE Names DEF IInv
<1>0a. \A t \in Socket : serve'[t] = IF t = s THEN "clearing" ELSE serve[t]
  BY DEF CloseChannel, consoleVars, callVars, deviceVars, wireVars, Types
<1>0c. live' = IF live = s THEN None ELSE live
  BY DEF CloseChannel, consoleVars, callVars, deviceVars, wireVars, Types
<1>0d. serve' \in [Socket -> {"unused", "upgrading", "serving", "parting", "closing", "clearing", "ended"}]
  BY DEF CloseChannel, consoleVars, callVars, deviceVars, wireVars, Types
<1>0e. live' \in Socket \cup {None}
  BY DEF CloseChannel, consoleVars, callVars, deviceVars, wireVars, Types
<1>0b. /\ registered' = registered /\ removal' = removal /\ sending' = sending /\ queue' = queue
       /\ pending' = pending /\ call' = call /\ on' = on /\ accepted' = accepted
       /\ answer' = answer /\ broken' = broken /\ down' = down /\ up' = up
       /\ link' = link /\ task' = task /\ ran' = ran /\ drained' = drained
       /\ faults' = faults
  BY DEF CloseChannel, consoleVars, callVars, deviceVars, wireVars, Types
<1>0g. /\ serve[s] = "closing"
  BY DEF CloseChannel, consoleVars, callVars, deviceVars, wireVars, Types
<1>0q. /\ QueueType(queue)' /\ Single(queue)'
       /\ \A j \in Call, t \in Socket : In(queue', j, t) <=> In(queue, j, t)
  BY <1>0b
<1>1. Types'
  BY <1>0c, <1>0d, <1>0e, <1>0b DEF Types
<1>2. QueueType(queue)'
  BY <1>0q
<1>3. LiveServed'
  BY <1>0a, <1>0c, <1>0b, <1>0g DEF Types, LiveServed
<1>4. Waiters'
  BY <1>0a, <1>0c, <1>0b, <1>0g DEF Waiters
<1>5. Placed'
  BY <1>0b, <1>0g, <1>0q DEF Placed
<1>6. Single(queue)'
  BY <1>0q
<1>7. Early'
  BY <1>0b, <1>0g, <1>0q DEF Early, Untouched
<1>8. Safe'
  BY <1>0b, <1>0g, <1>0q DEF Safe, Untouched
<1>9. Repeats'
  BY <1>0b DEF Repeats
<1>10. RanOnce'
  BY <1>0b, <1>0g DEF RanOnce
<1> QED BY <1>1, <1>2, <1>3, <1>4, <1>5, <1>6, <1>7, <1>8, <1>9, <1>10

LEMMA TakeCommandInv ==
    ASSUME IInv, NEW s \in Socket, NEW c, c = Head(queue[s]), TakeCommand(s)
    PROVE  IInv'
<1> USE Names DEF IInv
<1>0a. \A t \in Socket : serve'[t] = IF t = s /\ c = Close THEN "parting" ELSE serve[t]
  BY DEF TakeCommand, Accept, consoleVars, callVars, deviceVars, wireVars, Types
<1>0c. \A t \in Socket : sending'[t] =
          IF t = s /\ c # Close /\ c \in pending[s] THEN c ELSE sending[t]
  BY DEF TakeCommand, Accept, consoleVars, callVars, deviceVars, wireVars, Types
<1>0d. \A j \in Call : accepted'[j] =
          IF j = c /\ c \notin pending[s] /\ call[j] = "queued" THEN "timeout" ELSE accepted[j]
  BY DEF TakeCommand, Accept, consoleVars, callVars, deviceVars, wireVars, Types
<1>0e. serve' \in [Socket -> {"unused", "upgrading", "serving", "parting", "closing", "clearing", "ended"}]
  BY DEF TakeCommand, Accept, consoleVars, callVars, deviceVars, wireVars, Types
<1>0f. sending' \in [Socket -> Call \cup {None}]
    <2>1. sending' = sending \/ (c \in pending[s] /\ sending' = [sending EXCEPT ![s] = c])
    BY DEF TakeCommand
  <2>2. pending[s] \subseteq Call
    BY DEF Types
  <2> QED BY <2>1, <2>2 DEF Types
<1>0h. accepted' \in [Call -> {"none", "ok", "offline", "timeout", "gone"}]
  BY DEF TakeCommand, Accept, consoleVars, callVars, deviceVars, wireVars, Types
<1>0b. /\ registered' = registered /\ removal' = removal /\ live' = live /\ pending' = pending
       /\ call' = call /\ on' = on /\ answer' = answer /\ broken' = broken /\ down' = down
       /\ up' = up /\ link' = link /\ task' = task /\ ran' = ran
       /\ drained' = drained /\ faults' = faults
  BY DEF TakeCommand, Accept, consoleVars, callVars, deviceVars, wireVars, Types
<1>0g. /\ serve[s] = "serving" /\ sending[s] = None
  BY DEF TakeCommand, Accept, consoleVars, callVars, deviceVars, wireVars, Types
<1>0q. /\ QueueType(queue)' /\ Single(queue)'
       /\ \A j \in Call, t \in Socket : In(queue', j, t) => In(queue, j, t)
  BY Taken DEF TakeCommand
<1>0r. c \in Call \cup {Close} /\ (c # Close => In(queue, c, s) /\ ~In(queue', c, s))
  BY Taken DEF TakeCommand
<1>1. Types'
  BY <1>0e, <1>0f, <1>0h, <1>0b DEF Types
<1>2. QueueType(queue)'
  BY <1>0q
<1>3. LiveServed'
  BY <1>0a, <1>0b, <1>0g DEF Types, LiveServed
<1>4. Waiters'
  BY <1>0a, <1>0b, <1>0g DEF Waiters
<1>5. Placed'
  BY <1>0c, <1>0d, <1>0b, <1>0g, <1>0q, <1>0r DEF Placed
<1>6. Single(queue)'
  BY <1>0q
<1>7. Early'
  BY <1>0c, <1>0d, <1>0b, <1>0g, <1>0q, <1>0r DEF Early, Untouched
<1>8. Safe'
  BY <1>0c, <1>0d, <1>0b, <1>0g, <1>0q, <1>0r DEF Safe, Untouched
<1>9. Repeats'
  BY <1>0b DEF Repeats
<1>10. RanOnce'
  BY <1>0b, <1>0g DEF RanOnce
<1> QED BY <1>1, <1>2, <1>3, <1>4, <1>5, <1>6, <1>7, <1>8, <1>9, <1>10

LEMMA WrittenInv ==
    ASSUME IInv, NEW s \in Socket, NEW i, i = sending[s], Written(s)
    PROVE  IInv'
<1> USE Names DEF IInv
<1>0a. \A t \in Socket : serve'[t] = serve[t] \/ (t = s /\ serve'[t] = "closing")
  BY DEF Written, Accept, consoleVars, callVars, deviceVars, wireVars, Types
<1>0c. \A t \in Socket : sending'[t] = IF t = s THEN None ELSE sending[t]
  BY DEF Written, Accept, consoleVars, callVars, deviceVars, wireVars, Types
<1>0d. \A j \in Call : accepted'[j] = accepted[j]
             \/ /\ j = i /\ call[j] = "queued" /\ accepted'[j] # "none"
                /\ accepted'[j] = "offline" => down' = down
  BY DEF Written, Accept, consoleVars, callVars, deviceVars, wireVars, Types
<1>0e. \A t \in Socket : \A j \in down'[t] : j \in down[t] \/ (t = s /\ j = i)
  BY DEF Written, Accept, consoleVars, callVars, deviceVars, wireVars, Types
<1>0f. serve' \in [Socket -> {"unused", "upgrading", "serving", "parting", "closing", "clearing", "ended"}]
  BY DEF Written, Accept, consoleVars, callVars, deviceVars, wireVars, Types
<1>0h. sending' \in [Socket -> Call \cup {None}]
  BY DEF Written, Accept, consoleVars, callVars, deviceVars, wireVars, Types
<1>0i. accepted' \in [Call -> {"none", "ok", "offline", "timeout", "gone"}]
    <2>1. PICK w \in {"ok", "offline", "timeout"} :
            accepted' = [accepted EXCEPT ![i] = IF call[i] = "queued" THEN w ELSE @]
    BY DEF Written, Accept
  <2> QED BY <2>1 DEF Types
<1>0j. down' \in [Socket -> SUBSET Call]
    <2> DEFINE d == down[s] \cup {i}
  <2>1. down' = down \/ down' = [down EXCEPT ![s] = d]
    BY DEF Written
  <2>2. d \in SUBSET Call
    BY DEF Written, Types
  <2> HIDE DEF d
  <2> QED BY <2>1, <2>2 DEF Types
<1>0b. /\ registered' = registered /\ removal' = removal /\ live' = live /\ queue' = queue
       /\ pending' = pending /\ call' = call /\ on' = on /\ answer' = answer
       /\ broken' = broken /\ up' = up /\ link' = link /\ task' = task
       /\ ran' = ran /\ drained' = drained /\ faults' = faults
  BY DEF Written, Accept, consoleVars, callVars, deviceVars, wireVars, Types
<1>0g. /\ i \in Call /\ sending[s] = i
  BY DEF Written, Accept, consoleVars, callVars, deviceVars, wireVars, Types
<1>0q. /\ QueueType(queue)' /\ Single(queue)'
       /\ \A j \in Call, t \in Socket : In(queue', j, t) <=> In(queue, j, t)
  BY <1>0b
<1>1. Types'
  BY <1>0f, <1>0h, <1>0i, <1>0j, <1>0b DEF Types
<1>2. QueueType(queue)'
  BY <1>0q
<1>3. LiveServed'
  BY <1>0a, <1>0b, <1>0g DEF Types, LiveServed
<1>4. Waiters'
  BY <1>0a, <1>0b, <1>0g DEF Waiters
<1>5. Placed'
  BY <1>0c, <1>0d, <1>0e, <1>0b, <1>0g, <1>0q DEF Placed
<1>6. Single(queue)'
  BY <1>0q
<1>7. Early'
  BY <1>0c, <1>0d, <1>0e, <1>0b, <1>0g, <1>0q DEF Early, Untouched
<1>8. Safe'
  <2>1. \A j \in Call : j # i /\ Untouched(j) => Untouched(j)'
    BY <1>0c, <1>0e, <1>0b, <1>0q DEF Untouched
  <2>2. ~Untouched(i) /\ accepted[i] = "none"
    BY <1>0g DEF Untouched, Placed
  <2>3. ASSUME accepted'[i] = "offline" PROVE Untouched(i)'
    <3>1. down' = down
      BY <1>0d, <1>0g, <2>2, <2>3
    <3>2. \A t \in Socket : ~In(queue, i, t) /\ i \notin down[t] /\ (sending[t] = i => t = s)
      BY <1>0g DEF Placed
    <3>3. task[i] = "none"
      BY <1>0g DEF Placed
    <3>4. \A t \in Socket : ~In(queue', i, t)
      BY <1>0g, <1>0q, <3>2
    <3>5. \A t \in Socket : sending'[t] # i
      BY <1>0c, <1>0g, <3>2
    <3>6. task' = task
      BY <1>0b
    <3> QED BY <3>1, <3>2, <3>3, <3>4, <3>5, <3>6 DEF Untouched
  <2>4. \A j \in Call : j # i => accepted'[j] = accepted[j]
    BY <1>0d
  <2> QED BY <1>0b, <1>0g, <2>1, <2>2, <2>3, <2>4 DEF Safe
<1>9. Repeats'
  BY <1>0b DEF Repeats
<1>10. RanOnce'
  BY <1>0b, <1>0g DEF RanOnce
<1> QED BY <1>1, <1>2, <1>3, <1>4, <1>5, <1>6, <1>7, <1>8, <1>9, <1>10

LEMMA WedgedInv ==
    ASSUME IInv, NEW s \in Socket, NEW i, i = sending[s], Wedged(s)
    PROVE  IInv'
<1> USE Names DEF IInv
<1>0a. \A t \in Socket : serve'[t] = serve[t] \/ (t = s /\ serve'[t] = "closing")
  BY DEF Wedged, Accept, consoleVars, callVars, deviceVars, wireVars, Types
<1>0c. \A t \in Socket : sending'[t] = IF t = s THEN None ELSE sending[t]
  BY DEF Wedged, Accept, consoleVars, callVars, deviceVars, wireVars, Types
<1>0d. \A j \in Call : accepted'[j] = accepted[j]
             \/ /\ j = i /\ call[j] = "queued" /\ accepted'[j] # "none"
                /\ accepted'[j] = "offline" => down' = down
  BY DEF Wedged, Accept, consoleVars, callVars, deviceVars, wireVars, Types
<1>0e. \A t \in Socket : \A j \in down'[t] : j \in down[t] \/ (t = s /\ j = i)
  BY DEF Wedged, Accept, consoleVars, callVars, deviceVars, wireVars, Types
<1>0f. serve' \in [Socket -> {"unused", "upgrading", "serving", "parting", "closing", "clearing", "ended"}]
  BY DEF Wedged, Accept, consoleVars, callVars, deviceVars, wireVars, Types
<1>0h. sending' \in [Socket -> Call \cup {None}]
  BY DEF Wedged, Accept, consoleVars, callVars, deviceVars, wireVars, Types
<1>0i. accepted' \in [Call -> {"none", "ok", "offline", "timeout", "gone"}]
    <2>1. PICK w \in {"ok", "offline", "timeout"} :
            accepted' = [accepted EXCEPT ![i] = IF call[i] = "queued" THEN w ELSE @]
    BY DEF Wedged, Accept
  <2> QED BY <2>1 DEF Types
<1>0j. down' \in [Socket -> SUBSET Call]
    <2> DEFINE d == down[s] \cup {i}
  <2>1. down' = down \/ down' = [down EXCEPT ![s] = d]
    BY DEF Wedged
  <2>2. d \in SUBSET Call
    BY DEF Wedged, Types
  <2> HIDE DEF d
  <2> QED BY <2>1, <2>2 DEF Types
<1>0k. faults' \in 0 .. MaxFaults
  BY DEF Wedged, Accept, consoleVars, callVars, deviceVars, wireVars, Types
<1>0b. /\ registered' = registered /\ removal' = removal /\ live' = live /\ queue' = queue
       /\ pending' = pending /\ call' = call /\ on' = on /\ answer' = answer
       /\ broken' = broken /\ up' = up /\ link' = link /\ task' = task
       /\ ran' = ran /\ drained' = drained
  BY DEF Wedged, Accept, consoleVars, callVars, deviceVars, wireVars, Types
<1>0g. /\ i \in Call /\ sending[s] = i
  BY DEF Wedged, Accept, consoleVars, callVars, deviceVars, wireVars, Types
<1>0q. /\ QueueType(queue)' /\ Single(queue)'
       /\ \A j \in Call, t \in Socket : In(queue', j, t) <=> In(queue, j, t)
  BY <1>0b
<1>1. Types'
  BY <1>0f, <1>0h, <1>0i, <1>0j, <1>0k, <1>0b DEF Types
<1>2. QueueType(queue)'
  BY <1>0q
<1>3. LiveServed'
  BY <1>0a, <1>0b, <1>0g DEF Types, LiveServed
<1>4. Waiters'
  BY <1>0a, <1>0b, <1>0g DEF Waiters
<1>5. Placed'
  BY <1>0c, <1>0d, <1>0e, <1>0b, <1>0g, <1>0q DEF Placed
<1>6. Single(queue)'
  BY <1>0q
<1>7. Early'
  BY <1>0c, <1>0d, <1>0e, <1>0b, <1>0g, <1>0q DEF Early, Untouched
<1>8. Safe'
  <2>1. \A j \in Call : j # i /\ Untouched(j) => Untouched(j)'
    BY <1>0c, <1>0e, <1>0b, <1>0q DEF Untouched
  <2>2. ~Untouched(i) /\ accepted[i] = "none"
    BY <1>0g DEF Untouched, Placed
  <2>3. ASSUME accepted'[i] = "offline" PROVE Untouched(i)'
    <3>1. down' = down
      BY <1>0d, <1>0g, <2>2, <2>3
    <3>2. \A t \in Socket : ~In(queue, i, t) /\ i \notin down[t] /\ (sending[t] = i => t = s)
      BY <1>0g DEF Placed
    <3>3. task[i] = "none"
      BY <1>0g DEF Placed
    <3>4. \A t \in Socket : ~In(queue', i, t)
      BY <1>0g, <1>0q, <3>2
    <3>5. \A t \in Socket : sending'[t] # i
      BY <1>0c, <1>0g, <3>2
    <3>6. task' = task
      BY <1>0b
    <3> QED BY <3>1, <3>2, <3>3, <3>4, <3>5, <3>6 DEF Untouched
  <2>4. \A j \in Call : j # i => accepted'[j] = accepted[j]
    BY <1>0d
  <2> QED BY <1>0b, <1>0g, <2>1, <2>2, <2>3, <2>4 DEF Safe
<1>9. Repeats'
  BY <1>0b DEF Repeats
<1>10. RanOnce'
  BY <1>0b, <1>0g DEF RanOnce
<1> QED BY <1>1, <1>2, <1>3, <1>4, <1>5, <1>6, <1>7, <1>8, <1>9, <1>10

LEMMA DeliverInv ==
    ASSUME IInv, NEW s \in Socket, NEW i \in up[s],
           up' = [up EXCEPT ![s] = @ \ {i}],
           answer' = Told({i} \cap pending[s], "reply"),
           pending' = [pending EXCEPT ![s] = @ \ {i}],
           UNCHANGED <<registered, removal, live, serve, sending, queue, call, 
                   on, accepted, broken, down, deviceVars, drained, faults>>
    PROVE  IInv'
<1> USE Names DEF IInv
<1>0a. \A j \in Call : answer'[j] =
          IF j = i /\ j \in pending[s] /\ answer[j] = "none" THEN "reply" ELSE answer[j]
  BY DEF Told, consoleVars, callVars, deviceVars, wireVars, Types
<1>0c. \A t \in Socket : pending'[t] = IF t = s THEN pending[t] \ {i} ELSE pending[t]
  BY DEF Told, consoleVars, callVars, deviceVars, wireVars, Types
<1>0d. up' \in [Socket -> SUBSET Call]
  BY DEF Told, consoleVars, callVars, deviceVars, wireVars, Types
<1>0e. answer' \in [Call -> {"none", "reply", "offline", "gone"}]
  BY DEF Told, consoleVars, callVars, deviceVars, wireVars, Types
<1>0f. pending' \in [Socket -> SUBSET Call]
  BY DEF Told, consoleVars, callVars, deviceVars, wireVars, Types
<1>0b. /\ registered' = registered /\ removal' = removal /\ live' = live /\ serve' = serve
       /\ sending' = sending /\ queue' = queue /\ call' = call /\ on' = on
       /\ accepted' = accepted /\ broken' = broken /\ down' = down /\ link' = link
       /\ task' = task /\ ran' = ran /\ drained' = drained /\ faults' = faults
  BY DEF Told, consoleVars, callVars, deviceVars, wireVars, Types
<1>0q. /\ QueueType(queue)' /\ Single(queue)'
       /\ \A j \in Call, t \in Socket : In(queue', j, t) <=> In(queue, j, t)
  BY <1>0b
<1>1. Types'
  BY <1>0d, <1>0e, <1>0f, <1>0b DEF Types
<1>2. QueueType(queue)'
  BY <1>0q
<1>3. LiveServed'
  BY <1>0b DEF Types, LiveServed
<1>4. Waiters'
  <2> SUFFICES ASSUME NEW j \in Call, call'[j] \in Listens
               PROVE  /\ on'[j] \in Socket
                      /\ answer'[j] = "none" => j \in pending'[on'[j]] /\ serve'[on'[j]] \in Served
    BY DEF Waiters
  <2>1. /\ on[j] \in Socket
        /\ answer[j] = "none" => j \in pending[on[j]] /\ serve[on[j]] \in Served
    BY <1>0b DEF Waiters
  <2>2. answer'[j] = "none" => answer[j] = "none" /\ (j # i \/ on[j] # s)
    BY <1>0a, <2>1
  <2> QED BY <1>0c, <1>0b, <2>1, <2>2
<1>5. Placed'
  BY <1>0b, <1>0q DEF Placed
<1>6. Single(queue)'
  BY <1>0q
<1>7. Early'
  BY <1>0b, <1>0q DEF Early, Untouched
<1>8. Safe'
  <2>1. \A j \in Call : Untouched(j) => Untouched(j)'
    BY <1>0b, <1>0q DEF Untouched
  <2> QED BY <1>0a, <1>0b, <2>1 DEF Safe
<1>9. Repeats'
  BY <1>0b DEF Repeats
<1>10. RanOnce'
  BY <1>0b DEF RanOnce
<1> QED BY <1>1, <1>2, <1>3, <1>4, <1>5, <1>6, <1>7, <1>8, <1>9, <1>10

LEMMA ClearPendingInv ==
    ASSUME IInv, NEW s \in Socket, ClearPending(s)
    PROVE  IInv'
<1> USE Names DEF IInv
<1>0a. \A j \in Call : answer'[j] =
          IF j \in pending[s] /\ answer[j] = "none" THEN "gone" ELSE answer[j]
  BY DEF ClearPending, Told, In, QueueType, consoleVars, callVars, deviceVars,
     wireVars, Types
<1>0c. \A t \in Socket : pending'[t] = IF t = s THEN {} ELSE pending[t]
  BY DEF ClearPending, Told, In, QueueType, consoleVars, callVars, deviceVars,
     wireVars, Types
<1>0d. \A j \in Call : accepted'[j] =
          IF call[j] = "queued" /\ In(queue, j, s) THEN "gone" ELSE accepted[j]
  BY DEF ClearPending, Told, In, QueueType, consoleVars, callVars, deviceVars,
     wireVars, Types
<1>0e. \A t \in Socket : serve'[t] = IF t = s THEN "ended" ELSE serve[t]
  BY DEF ClearPending, Told, In, QueueType, consoleVars, callVars, deviceVars,
     wireVars, Types
<1>0f. answer' \in [Call -> {"none", "reply", "offline", "gone"}]
  BY DEF ClearPending, Told, In, QueueType, consoleVars, callVars, deviceVars,
     wireVars, Types
<1>0h. pending' \in [Socket -> SUBSET Call]
  BY DEF ClearPending, Told, In, QueueType, consoleVars, callVars, deviceVars,
     wireVars, Types
<1>0i. accepted' \in [Call -> {"none", "ok", "offline", "timeout", "gone"}]
  BY DEF ClearPending, Told, In, QueueType, consoleVars, callVars, deviceVars,
     wireVars, Types
<1>0j. serve' \in [Socket -> {"unused", "upgrading", "serving", "parting", "closing", "clearing", "ended"}]
  BY DEF ClearPending, Told, In, QueueType, consoleVars, callVars, deviceVars,
     wireVars, Types
<1>0k. broken' \in [Socket -> BOOLEAN]
  BY DEF ClearPending, Told, In, QueueType, consoleVars, callVars, deviceVars,
     wireVars, Types
<1>0l. up' \in [Socket -> SUBSET Call]
  BY DEF ClearPending, Told, In, QueueType, consoleVars, callVars, deviceVars,
     wireVars, Types
<1>0b. /\ registered' = registered /\ removal' = removal /\ live' = live /\ sending' = sending
       /\ call' = call /\ on' = on /\ down' = down /\ link' = link
       /\ task' = task /\ ran' = ran /\ drained' = drained /\ faults' = faults
  BY DEF ClearPending, Told, In, QueueType, consoleVars, callVars, deviceVars,
     wireVars, Types
<1>0g. /\ serve[s] = "clearing"
  BY DEF ClearPending, Told, In, QueueType, consoleVars, callVars, deviceVars,
     wireVars, Types
<1>0q. /\ QueueType(queue)' /\ Single(queue)'
       /\ \A j \in Call, t \in Socket : In(queue', j, t) => In(queue, j, t) /\ t # s
  BY Emptied DEF ClearPending
<1>1. Types'
  BY <1>0f, <1>0h, <1>0i, <1>0j, <1>0k, <1>0l, <1>0b DEF Types
<1>2. QueueType(queue)'
  BY <1>0q
<1>3. LiveServed'
  BY <1>0e, <1>0b, <1>0g DEF Types, LiveServed
<1>4. Waiters'
  BY <1>0a, <1>0c, <1>0e, <1>0b, <1>0g DEF Waiters
<1>5. Placed'
  BY <1>0d, <1>0b, <1>0g, <1>0q DEF Placed
<1>6. Single(queue)'
  BY <1>0q
<1>7. Early'
  BY <1>0d, <1>0b, <1>0g, <1>0q DEF Early, Untouched
<1>8. Safe'
  BY <1>0a, <1>0d, <1>0b, <1>0g, <1>0q DEF Safe, Untouched
<1>9. Repeats'
  BY <1>0b DEF Repeats
<1>10. RanOnce'
  BY <1>0b, <1>0g DEF RanOnce
<1> QED BY <1>1, <1>2, <1>3, <1>4, <1>5, <1>6, <1>7, <1>8, <1>9, <1>10

LEMMA UnregisterInv ==
    ASSUME IInv, Unregister
    PROVE  IInv'
<1> USE Names DEF IInv
<1>0a. registered' \in BOOLEAN
  BY DEF Unregister, consoleVars, callVars, deviceVars, wireVars, Types
<1>0c. removal' \in {"none", "unregistered", "done"}
  BY DEF Unregister, consoleVars, callVars, deviceVars, wireVars, Types
<1>0d. faults' \in 0 .. MaxFaults
  BY DEF Unregister, consoleVars, callVars, deviceVars, wireVars, Types
<1>0b. /\ live' = live /\ serve' = serve /\ sending' = sending /\ queue' = queue
       /\ pending' = pending /\ call' = call /\ on' = on /\ accepted' = accepted
       /\ answer' = answer /\ broken' = broken /\ down' = down /\ up' = up
       /\ link' = link /\ task' = task /\ ran' = ran /\ drained' = drained
  BY DEF Unregister, consoleVars, callVars, deviceVars, wireVars, Types
<1>0q. /\ QueueType(queue)' /\ Single(queue)'
       /\ \A j \in Call, t \in Socket : In(queue', j, t) <=> In(queue, j, t)
  BY <1>0b
<1>1. Types'
  BY <1>0a, <1>0c, <1>0d, <1>0b DEF Types
<1>2. QueueType(queue)'
  BY <1>0q
<1>3. LiveServed'
  BY <1>0b DEF Types, LiveServed
<1>4. Waiters'
  BY <1>0b DEF Waiters
<1>5. Placed'
  BY <1>0b, <1>0q DEF Placed
<1>6. Single(queue)'
  BY <1>0q
<1>7. Early'
  BY <1>0b, <1>0q DEF Early, Untouched
<1>8. Safe'
  BY <1>0b, <1>0q DEF Safe, Untouched
<1>9. Repeats'
  BY <1>0b DEF Repeats
<1>10. RanOnce'
  BY <1>0b DEF RanOnce
<1> QED BY <1>1, <1>2, <1>3, <1>4, <1>5, <1>6, <1>7, <1>8, <1>9, <1>10

LEMMA DialInv ==
    ASSUME IInv, Dial
    PROVE  IInv'
<1> USE Names DEF IInv
<1>0a. \A t \in Socket : serve'[t] = serve[t] \/ (serve[t] = "unused" /\ serve'[t] = "upgrading")
  BY DEF Dial, consoleVars, callVars, deviceVars, wireVars, Types
<1>0c. serve' \in [Socket -> {"unused", "upgrading", "serving", "parting", "closing", "clearing", "ended"}]
    <2>1. serve' = serve \/ \E s \in Socket : serve' = [serve EXCEPT ![s] = "upgrading"]
    BY DEF Dial
  <2> QED BY <2>1 DEF Types
<1>0d. link' \in Socket \cup {None, Stopped}
  BY DEF Dial, consoleVars, callVars, deviceVars, wireVars, Types
<1>0b. /\ registered' = registered /\ removal' = removal /\ live' = live /\ sending' = sending
       /\ queue' = queue /\ pending' = pending /\ call' = call /\ on' = on
       /\ accepted' = accepted /\ answer' = answer /\ broken' = broken /\ down' = down
       /\ up' = up /\ task' = task /\ ran' = ran /\ drained' = drained
       /\ faults' = faults
  BY DEF Dial, consoleVars, callVars, deviceVars, wireVars, Types
<1>0q. /\ QueueType(queue)' /\ Single(queue)'
       /\ \A j \in Call, t \in Socket : In(queue', j, t) <=> In(queue, j, t)
  BY <1>0b
<1>1. Types'
  BY <1>0c, <1>0d, <1>0b DEF Types
<1>2. QueueType(queue)'
  BY <1>0q
<1>3. LiveServed'
  BY <1>0a, <1>0b DEF Types, LiveServed
<1>4. Waiters'
  BY <1>0a, <1>0b DEF Waiters
<1>5. Placed'
  BY <1>0b, <1>0q DEF Placed
<1>6. Single(queue)'
  BY <1>0q
<1>7. Early'
  BY <1>0b, <1>0q DEF Early, Untouched
<1>8. Safe'
  BY <1>0b, <1>0q DEF Safe, Untouched
<1>9. Repeats'
  BY <1>0b DEF Repeats
<1>10. RanOnce'
  BY <1>0b DEF RanOnce
<1> QED BY <1>1, <1>2, <1>3, <1>4, <1>5, <1>6, <1>7, <1>8, <1>9, <1>10

LEMMA LeaveInv ==
    ASSUME IInv, Leave
    PROVE  IInv'
<1> USE Names DEF IInv
<1>0a. \A t \in Socket : down'[t] \subseteq down[t]
  BY DEF Leave, consoleVars, callVars, deviceVars, wireVars, Types
<1>0c. link' \in Socket \cup {None, Stopped}
  BY DEF Leave, consoleVars, callVars, deviceVars, wireVars, Types
<1>0d. down' \in [Socket -> SUBSET Call]
  BY DEF Leave, consoleVars, callVars, deviceVars, wireVars, Types
<1>0b. /\ registered' = registered /\ removal' = removal /\ live' = live /\ serve' = serve
       /\ sending' = sending /\ queue' = queue /\ pending' = pending /\ call' = call
       /\ on' = on /\ accepted' = accepted /\ answer' = answer /\ broken' = broken
       /\ up' = up /\ task' = task /\ ran' = ran /\ drained' = drained
       /\ faults' = faults
  BY DEF Leave, consoleVars, callVars, deviceVars, wireVars, Types
<1>0q. /\ QueueType(queue)' /\ Single(queue)'
       /\ \A j \in Call, t \in Socket : In(queue', j, t) <=> In(queue, j, t)
  BY <1>0b
<1>1. Types'
  BY <1>0c, <1>0d, <1>0b DEF Types
<1>2. QueueType(queue)'
  BY <1>0q
<1>3. LiveServed'
  BY <1>0b DEF Types, LiveServed
<1>4. Waiters'
  BY <1>0b DEF Waiters
<1>5. Placed'
  BY <1>0a, <1>0b, <1>0q DEF Placed
<1>6. Single(queue)'
  BY <1>0q
<1>7. Early'
  BY <1>0a, <1>0b, <1>0q DEF Early, Untouched
<1>8. Safe'
  BY <1>0a, <1>0b, <1>0q DEF Safe, Untouched
<1>9. Repeats'
  BY <1>0b DEF Repeats
<1>10. RanOnce'
  BY <1>0b DEF RanOnce
<1> QED BY <1>1, <1>2, <1>3, <1>4, <1>5, <1>6, <1>7, <1>8, <1>9, <1>10

LEMMA ReceiveInv ==
    ASSUME IInv, NEW i \in Call, Receive(i)
    PROVE  IInv'
<1> USE Names DEF IInv
<1>0a. \A j \in Call : task'[j] = IF j = i THEN "parked" ELSE task[j]
  BY DEF Receive, consoleVars, callVars, deviceVars, wireVars, Types
<1>0c. \A t \in Socket : down'[t] = IF t = link THEN down[t] \ {i} ELSE down[t]
  BY DEF Receive, consoleVars, callVars, deviceVars, wireVars, Types
<1>0d. down' \in [Socket -> SUBSET Call]
  BY DEF Receive, consoleVars, callVars, deviceVars, wireVars, Types
<1>0e. task' \in [Call -> {"none", "parked", "done"}]
  BY DEF Receive, consoleVars, callVars, deviceVars, wireVars, Types
<1>0b. /\ registered' = registered /\ removal' = removal /\ live' = live /\ serve' = serve
       /\ sending' = sending /\ queue' = queue /\ pending' = pending /\ call' = call
       /\ on' = on /\ accepted' = accepted /\ answer' = answer /\ broken' = broken
       /\ up' = up /\ link' = link /\ ran' = ran /\ drained' = drained
       /\ faults' = faults
  BY DEF Receive, consoleVars, callVars, deviceVars, wireVars, Types
<1>0g. /\ link \in Socket /\ i \in down[link]
       /\ task[i] = "none"
       /\ \A t \in Socket : ~In(queue, i, t) /\ sending[t] # i
       /\ \A t \in Socket : i \in down[t] => t = link
       /\ ~Untouched(i)
  BY DEF Receive, consoleVars, callVars, deviceVars, wireVars, Types, Placed, Untouched
<1>0q. /\ QueueType(queue)' /\ Single(queue)'
       /\ \A j \in Call, t \in Socket : In(queue', j, t) <=> In(queue, j, t)
  BY <1>0b
<1>1. Types'
  BY <1>0d, <1>0e, <1>0b DEF Types
<1>2. QueueType(queue)'
  BY <1>0q
<1>3. LiveServed'
  BY <1>0b, <1>0g DEF Types, LiveServed
<1>4. Waiters'
  BY <1>0b, <1>0g DEF Waiters
<1>5. Placed'
  <2> SUFFICES ASSUME NEW j \in Call, NEW t \in Socket
               PROVE  /\ In(queue', j, t) \/ sending'[t] = j => accepted'[j] = "none"
                      /\ In(queue', j, t) \/ sending'[t] = j \/ j \in down'[t]
                             => t = on'[j] /\ task'[j] = "none"
                      /\ In(queue', j, t) => sending'[t] # j
                      /\ j \in down'[t] => sending'[t] # j /\ ~In(queue', j, t)
    BY DEF Placed
  <2>a. /\ In(queue, j, t) \/ sending[t] = j => accepted[j] = "none"
        /\ In(queue, j, t) \/ sending[t] = j \/ j \in down[t] => t = on[j] /\ task[j] = "none"
        /\ In(queue, j, t) => sending[t] # j
        /\ j \in down[t] => sending[t] # j /\ ~In(queue, j, t)
    BY DEF Placed
  <2>1. CASE j = i
    BY <1>0a, <1>0c, <1>0b, <1>0g, <1>0q, <2>a, <2>1
  <2>2. CASE j # i
    BY <1>0a, <1>0c, <1>0b, <1>0g, <1>0q, <2>a, <2>2
  <2> QED BY <2>1, <2>2
<1>6. Single(queue)'
  BY <1>0q
<1>7. Early'
  <2>1. \A j \in Call : j # i /\ Untouched(j) => Untouched(j)'
    BY <1>0a, <1>0c, <1>0b, <1>0g, <1>0q DEF Untouched
  <2> QED BY <1>0a, <1>0c, <1>0b, <1>0g, <1>0q, <2>1 DEF Early
<1>8. Safe'
  <2>1. \A j \in Call : j # i /\ Untouched(j) => Untouched(j)'
    BY <1>0a, <1>0c, <1>0b, <1>0g, <1>0q DEF Untouched
  <2> QED BY <1>0a, <1>0c, <1>0b, <1>0g, <1>0q, <2>1 DEF Safe
<1>9. Repeats'
  BY <1>0b DEF Repeats
<1>10. RanOnce'
  BY <1>0a, <1>0b, <1>0g DEF RanOnce
<1> QED BY <1>1, <1>2, <1>3, <1>4, <1>5, <1>6, <1>7, <1>8, <1>9, <1>10

LEMMA RunInv ==
    ASSUME IInv, NEW i \in Call, Run(i)
    PROVE  IInv'
<1> USE Names DEF IInv
<1>0a. \A j \in Call : task'[j] = IF j = i THEN "done" ELSE task[j]
  BY DEF Run, consoleVars, callVars, deviceVars, wireVars, Types
<1>0c. \A o \in Op : ran'[o] = IF o = OpOf[i] THEN ran[o] + 1 ELSE ran[o]
  BY DEF Run, consoleVars, callVars, deviceVars, wireVars, Types
<1>0d. up' \in [Socket -> SUBSET Call]
  <2>1. up' = [up EXCEPT ![link] = @ \cup {i}] \/ up' = up
    BY DEF Run
  <2>2. up \in [Socket -> SUBSET Call]
    BY DEF Types
  <2> QED BY <2>1, <2>2
<1>0e. task' \in [Call -> {"none", "parked", "done"}]
  BY DEF Run, consoleVars, callVars, deviceVars, wireVars, Types
<1>0f. ran' \in [Op -> Nat]
  BY DEF Run, consoleVars, callVars, deviceVars, wireVars, Types
<1>0b. /\ registered' = registered /\ removal' = removal /\ live' = live /\ serve' = serve
       /\ sending' = sending /\ queue' = queue /\ pending' = pending /\ call' = call
       /\ on' = on /\ accepted' = accepted /\ answer' = answer /\ broken' = broken
       /\ down' = down /\ link' = link /\ drained' = drained /\ faults' = faults
  BY DEF Run, consoleVars, callVars, deviceVars, wireVars, Types
<1>0g. /\ task[i] = "parked"
       /\ ~Untouched(i)
  BY DEF Run, consoleVars, callVars, deviceVars, wireVars, Types, Untouched
<1>0q. /\ QueueType(queue)' /\ Single(queue)'
       /\ \A j \in Call, t \in Socket : In(queue', j, t) <=> In(queue, j, t)
  BY <1>0b
<1>1. Types'
  BY <1>0d, <1>0e, <1>0f, <1>0b DEF Types
<1>2. QueueType(queue)'
  BY <1>0q
<1>3. LiveServed'
  BY <1>0b, <1>0g DEF Types, LiveServed
<1>4. Waiters'
  BY <1>0b, <1>0g DEF Waiters
<1>5. Placed'
  BY <1>0a, <1>0b, <1>0g, <1>0q DEF Placed
<1>6. Single(queue)'
  BY <1>0q
<1>7. Early'
  BY <1>0a, <1>0b, <1>0g, <1>0q DEF Early, Untouched
<1>8. Safe'
  BY <1>0a, <1>0b, <1>0g, <1>0q DEF Safe, Untouched
<1>9. Repeats'
  BY <1>0b DEF Repeats
<1>10. RanOnce'
  <2>1. ASSUME NEW j \in Call, OpOf[j] = OpOf[i], task[j] = "done", OpOf[i] \notin drained
        PROVE  FALSE
    <3>1. /\ j # i /\ ~Untouched(j) /\ ~Untouched(i)
          /\ call[j] \notin Retryable /\ call[i] \notin Retryable
          /\ call[i] # "unused" /\ call[j] # "unused"
      BY <1>0g, <2>1 DEF Untouched, Early, Safe
    <3>2. i < j \/ j < i
      BY <3>1 DEF Call
    <3> QED BY <2>1, <3>1, <3>2 DEF Repeats
  <2>2. OpOf[i] \notin drained => ran[OpOf[i]] = 0
    BY <2>1 DEF RanOnce, Types
  <2>3. ASSUME NEW o \in Op \ drained, o # OpOf[i]
        PROVE  ran'[o] = 0 \/ (ran'[o] = 1 /\ \E k \in Call : OpOf[k] = o /\ task'[k] = "done")
    BY <1>0a, <1>0c, <1>0g, <2>3 DEF RanOnce
  <2>4. OpOf[i] \notin drained => ran'[OpOf[i]] = 1 /\ task'[i] = "done"
    BY <1>0a, <1>0c, <2>2
  <2> QED BY <1>0b, <2>3, <2>4 DEF RanOnce
<1> QED BY <1>1, <1>2, <1>3, <1>4, <1>5, <1>6, <1>7, <1>8, <1>9, <1>10

LEMMA RestartInv ==
    ASSUME IInv, Restart
    PROVE  IInv'
<1> USE Names DEF IInv
<1>0a. \A t \in Socket : down'[t] = {}
  BY DEF Restart, ProcessEnds, consoleVars, callVars, deviceVars, wireVars, Types
<1>0c. \A j \in Call : task'[j] = IF task[j] = "none" THEN "none" ELSE "done"
  BY DEF Restart, ProcessEnds, consoleVars, callVars, deviceVars, wireVars, Types
<1>0d. link' \in Socket \cup {None, Stopped}
  BY DEF Restart, ProcessEnds, consoleVars, callVars, deviceVars, wireVars, Types
<1>0e. broken' \in [Socket -> BOOLEAN]
  BY DEF Restart, ProcessEnds, consoleVars, callVars, deviceVars, wireVars, Types
<1>0f. down' \in [Socket -> SUBSET Call]
  BY DEF Restart, ProcessEnds, consoleVars, callVars, deviceVars, wireVars, Types
<1>0h. up' \in [Socket -> SUBSET Call]
  BY DEF Restart, ProcessEnds, consoleVars, callVars, deviceVars, wireVars, Types
<1>0i. task' \in [Call -> {"none", "parked", "done"}]
  BY DEF Restart, ProcessEnds, consoleVars, callVars, deviceVars, wireVars, Types
<1>0j. faults' \in 0 .. MaxFaults
  BY DEF Restart, ProcessEnds, consoleVars, callVars, deviceVars, wireVars, Types
<1>0b. /\ registered' = registered /\ removal' = removal /\ live' = live /\ serve' = serve
       /\ sending' = sending /\ queue' = queue /\ pending' = pending /\ call' = call
       /\ on' = on /\ accepted' = accepted /\ answer' = answer /\ ran' = ran
       /\ drained' = drained
  BY DEF Restart, ProcessEnds, consoleVars, callVars, deviceVars, wireVars, Types
<1>0q. /\ QueueType(queue)' /\ Single(queue)'
       /\ \A j \in Call, t \in Socket : In(queue', j, t) <=> In(queue, j, t)
  BY <1>0b
<1>1. Types'
  BY <1>0d, <1>0e, <1>0f, <1>0h, <1>0i, <1>0j, <1>0b DEF Types
<1>2. QueueType(queue)'
  BY <1>0q
<1>3. LiveServed'
  BY <1>0b DEF Types, LiveServed
<1>4. Waiters'
  BY <1>0b DEF Waiters
<1>5. Placed'
  BY <1>0a, <1>0c, <1>0b, <1>0q DEF Placed
<1>6. Single(queue)'
  BY <1>0q
<1>7. Early'
  BY <1>0a, <1>0c, <1>0b, <1>0q DEF Early, Untouched
<1>8. Safe'
  BY <1>0a, <1>0c, <1>0b, <1>0q DEF Safe, Untouched
<1>9. Repeats'
  BY <1>0b DEF Repeats
<1>10. RanOnce'
  BY <1>0c, <1>0b DEF RanOnce
<1> QED BY <1>1, <1>2, <1>3, <1>4, <1>5, <1>6, <1>7, <1>8, <1>9, <1>10

LEMMA ReenrollInv ==
    ASSUME IInv, Reenroll
    PROVE  IInv'
<1> USE Names DEF IInv
<1>0a. \A t \in Socket : down'[t] = {}
  BY DEF Reenroll, ProcessEnds, consoleVars, callVars, deviceVars, wireVars, Types
<1>0c. \A j \in Call : task'[j] = IF task[j] = "none" THEN "none" ELSE "done"
  BY DEF Reenroll, ProcessEnds, consoleVars, callVars, deviceVars, wireVars, Types
<1>0d. link' \in Socket \cup {None, Stopped}
  BY DEF Reenroll, ProcessEnds, consoleVars, callVars, deviceVars, wireVars, Types
<1>0e. broken' \in [Socket -> BOOLEAN]
  BY DEF Reenroll, ProcessEnds, consoleVars, callVars, deviceVars, wireVars, Types
<1>0f. down' \in [Socket -> SUBSET Call]
  BY DEF Reenroll, ProcessEnds, consoleVars, callVars, deviceVars, wireVars, Types
<1>0h. up' \in [Socket -> SUBSET Call]
  BY DEF Reenroll, ProcessEnds, consoleVars, callVars, deviceVars, wireVars, Types
<1>0i. task' \in [Call -> {"none", "parked", "done"}]
  BY DEF Reenroll, ProcessEnds, consoleVars, callVars, deviceVars, wireVars, Types
<1>0j. registered' \in BOOLEAN
  BY DEF Reenroll, ProcessEnds, consoleVars, callVars, deviceVars, wireVars, Types
<1>0k. removal' \in {"none", "unregistered", "done"}
  BY DEF Reenroll, ProcessEnds, consoleVars, callVars, deviceVars, wireVars, Types
<1>0b. /\ live' = live /\ serve' = serve /\ sending' = sending /\ queue' = queue
       /\ pending' = pending /\ call' = call /\ on' = on /\ accepted' = accepted
       /\ answer' = answer /\ ran' = ran /\ drained' = drained /\ faults' = faults
  BY DEF Reenroll, ProcessEnds, consoleVars, callVars, deviceVars, wireVars, Types
<1>0q. /\ QueueType(queue)' /\ Single(queue)'
       /\ \A j \in Call, t \in Socket : In(queue', j, t) <=> In(queue, j, t)
  BY <1>0b
<1>1. Types'
  BY <1>0d, <1>0e, <1>0f, <1>0h, <1>0i, <1>0j, <1>0k, <1>0b DEF Types
<1>2. QueueType(queue)'
  BY <1>0q
<1>3. LiveServed'
  BY <1>0b DEF Types, LiveServed
<1>4. Waiters'
  BY <1>0b DEF Waiters
<1>5. Placed'
  BY <1>0a, <1>0c, <1>0b, <1>0q DEF Placed
<1>6. Single(queue)'
  BY <1>0q
<1>7. Early'
  BY <1>0a, <1>0c, <1>0b, <1>0q DEF Early, Untouched
<1>8. Safe'
  BY <1>0a, <1>0c, <1>0b, <1>0q DEF Safe, Untouched
<1>9. Repeats'
  BY <1>0b DEF Repeats
<1>10. RanOnce'
  BY <1>0c, <1>0b DEF RanOnce
<1> QED BY <1>1, <1>2, <1>3, <1>4, <1>5, <1>6, <1>7, <1>8, <1>9, <1>10

LEMMA BreakInv ==
    ASSUME IInv, NEW s \in Socket, Break(s)
    PROVE  IInv'
<1> USE Names DEF IInv
<1>0a. \A t \in Socket : down'[t] \subseteq down[t]
  BY DEF Break, consoleVars, callVars, deviceVars, wireVars, Types
<1>0c. broken' \in [Socket -> BOOLEAN]
  BY DEF Break, consoleVars, callVars, deviceVars, wireVars, Types
<1>0d. down' \in [Socket -> SUBSET Call]
  BY DEF Break, consoleVars, callVars, deviceVars, wireVars, Types
<1>0e. up' \in [Socket -> SUBSET Call]
  BY DEF Break, consoleVars, callVars, deviceVars, wireVars, Types
<1>0f. faults' \in 0 .. MaxFaults
  BY DEF Break, consoleVars, callVars, deviceVars, wireVars, Types
<1>0b. /\ registered' = registered /\ removal' = removal /\ live' = live /\ serve' = serve
       /\ sending' = sending /\ queue' = queue /\ pending' = pending /\ call' = call
       /\ on' = on /\ accepted' = accepted /\ answer' = answer /\ link' = link
       /\ task' = task /\ ran' = ran /\ drained' = drained
  BY DEF Break, consoleVars, callVars, deviceVars, wireVars, Types
<1>0q. /\ QueueType(queue)' /\ Single(queue)'
       /\ \A j \in Call, t \in Socket : In(queue', j, t) <=> In(queue, j, t)
  BY <1>0b
<1>1. Types'
  BY <1>0c, <1>0d, <1>0e, <1>0f, <1>0b DEF Types
<1>2. QueueType(queue)'
  BY <1>0q
<1>3. LiveServed'
  BY <1>0b DEF Types, LiveServed
<1>4. Waiters'
  BY <1>0b DEF Waiters
<1>5. Placed'
  BY <1>0a, <1>0b, <1>0q DEF Placed
<1>6. Single(queue)'
  BY <1>0q
<1>7. Early'
  BY <1>0a, <1>0b, <1>0q DEF Early, Untouched
<1>8. Safe'
  BY <1>0a, <1>0b, <1>0q DEF Safe, Untouched
<1>9. Repeats'
  BY <1>0b DEF Repeats
<1>10. RanOnce'
  BY <1>0b DEF RanOnce
<1> QED BY <1>1, <1>2, <1>3, <1>4, <1>5, <1>6, <1>7, <1>8, <1>9, <1>10

-----------------------------------------------------------------------------
LEMMA AdmitInv == ASSUME IInv, NEW i \in Call, Admit(i) PROVE IInv'
<1>1. PICK c \in {"admitted", "unknown_device"} : call' = [call EXCEPT ![i] = c]
  BY DEF Admit
<1>2. MayStart(i) /\ call[i] = "unused"
  BY DEF Admit, MayStart
<1> QED BY <1>1, <1>2, StageInv DEF Admit

LEMMA BeginInv == ASSUME IInv, NEW i \in Call, Begin(i) PROVE IInv'
<1>1. CASE live # None /\ ClaimLive(i)
  BY <1>1, ClaimInv DEF Begin
<1>2. ASSUME NEW c \in {"busy", "waiting"}, call' = [call EXCEPT ![i] = c], UNCHANGED <<on, pending>>
      PROVE  IInv'
  <2>1. UNCHANGED consoleVars
    BY <1>2 DEF Begin, consoleVars
  <2>2. call[i] = "admitted" /\ call[i] \notin Retryable
    BY DEF Begin
  <2> QED BY <1>2, <2>1, <2>2, StageInv DEF Begin
<1> QED BY <1>1, <1>2 DEF Begin

\* A channel whose task ended has nobody to listen, so a claim on it is answered.
LEMMA EnqueueStep == ASSUME IInv, NEW i \in Call, Enqueue(i) PROVE IInv'
<1>1. Untouched(i) /\ call[i] \in Waiting
  BY DEF Enqueue, IInv, Early
<1>2. ASSUME NEW o \in {"offline", "busy"}, Finish(i, o), UNCHANGED queue PROVE IInv'
  BY <1>1, <1>2, FinishInv DEF Enqueue
<1>3. CASE /\ Len(queue[on[i]]) < Capacity
           /\ call' = [call EXCEPT ![i] = "queued"]
           /\ queue' = [queue EXCEPT ![on[i]] = Append(@, i)]
           /\ UNCHANGED <<pending, accepted, answer>>
  BY <1>3, EnqueueInv DEF Enqueue
<1>4. Len(queue[on[i]]) \in Nat
  <2>1. on[i] \in Socket
    BY DEF Enqueue, IInv, Waiters
  <2> QED BY <2>1 DEF IInv, QueueType
<1> QED BY <1>2, <1>3, <1>4 DEF Enqueue

LEMMA AcceptedStep == ASSUME IInv, NEW i \in Call, Accepted(i) PROVE IInv'
<1>1. CASE accepted[i] = "ok"
  <2>1. UNCHANGED consoleVars /\ call' = [call EXCEPT ![i] = "sent"]
    BY <1>1 DEF Accepted, consoleVars
  <2>2. call[i] = "queued" /\ call[i] \notin Retryable
    BY DEF Accepted
  <2> QED BY <1>1, <2>1, <2>2, StageInv DEF Accepted
<1>2. CASE accepted[i] # "ok"
  <2>1. /\ Finish(i, AcceptedOutcome(i)) /\ call[i] \in Waiting
        /\ AcceptedOutcome(i) \in {"offline", "disconnected", "busy", "timeout", "replied"}
        /\ AcceptedOutcome(i) \in Retryable => accepted[i] = "offline"
    BY <1>2 DEF Accepted, AcceptedOutcome
  <2>2. AcceptedOutcome(i) \in Retryable => Untouched(i)
    BY <2>1 DEF IInv, Safe
  <2> QED BY <1>2, <2>1, <2>2, FinishInv DEF Accepted
<1> QED BY <1>1, <1>2

LEMMA AnsweredStep == ASSUME IInv, NEW i \in Call, Answered(i) PROVE IInv'
<1>1. /\ Finish(i, AnswerOutcome(i)) /\ call[i] \in Waiting
      /\ AnswerOutcome(i) \in {"offline", "disconnected", "busy", "timeout", "replied"}
      /\ AnswerOutcome(i) \in Retryable => answer[i] = "offline"
  BY DEF Answered, AnswerOutcome
<1>2. AnswerOutcome(i) \in Retryable => OpOf[i] \in drained
  BY <1>1 DEF IInv, Safe
<1> QED BY <1>1, <1>2, FinishInv DEF Answered

LEMMA NoChannelStep == ASSUME IInv, NEW i \in Call, NoChannel(i) PROVE IInv'
<1>1. call[i] \in Waiting /\ Untouched(i)
  BY DEF NoChannel, IInv, Early
<1> QED BY <1>1, FinishInv DEF NoChannel

LEMMA TimesOutStep == ASSUME IInv, NEW i \in Call, TimesOut(i) PROVE IInv'
<1>1. call[i] \in Waiting /\ "timeout" \notin Retryable
  BY DEF TimesOut
<1> QED BY <1>1, FinishInv DEF TimesOut

LEMMA ClaimStep == ASSUME IInv, NEW i \in Call, Claim(i) PROVE IInv'
BY ClaimInv DEF Claim

LEMMA DeliverStep == ASSUME IInv, NEW s \in Socket, Deliver(s) PROVE IInv'
<1>1. PICK i \in up[s] : /\ up' = [up EXCEPT ![s] = @ \ {i}]
                         /\ answer' = Told({i} \cap pending[s], "reply")
                         /\ pending' = [pending EXCEPT ![s] = @ \ {i}]
  BY DEF Deliver
<1> QED BY <1>1, DeliverInv DEF Deliver

LEMMA IdleInv == ASSUME IInv, UNCHANGED vars PROVE IInv'
<1> USE Names DEF IInv
<1>0b. /\ registered' = registered /\ removal' = removal /\ live' = live /\ serve' = serve
       /\ sending' = sending /\ queue' = queue /\ pending' = pending /\ call' = call
       /\ on' = on /\ accepted' = accepted /\ answer' = answer /\ broken' = broken
       /\ down' = down /\ up' = up /\ link' = link /\ task' = task
       /\ ran' = ran /\ drained' = drained /\ faults' = faults
  BY DEF vars, consoleVars, callVars, deviceVars, wireVars
<1>1. Types' /\ QueueType(queue)' /\ LiveServed' /\ Waiters' /\ Placed' /\ Single(queue)'
  BY <1>0b DEF Types, LiveServed, Waiters, Placed
<1>2. Early' /\ Safe'
  BY <1>0b DEF Early, Safe, Untouched
<1>3. Repeats' /\ RanOnce'
  BY <1>0b DEF Repeats, RanOnce
<1> QED BY <1>1, <1>2, <1>3

LEMMA StepInv == IInv /\ [Next]_vars => IInv'
<1> SUFFICES ASSUME IInv, [Next]_vars PROVE IInv'
  OBVIOUS
<1>1. ASSUME NEW i \in Call, Admit(i) \/ NoChannel(i) \/ TimesOut(i) \/ CallStep(i) PROVE IInv'
  BY <1>1, AdmitInv, NoChannelStep, TimesOutStep, BeginInv, ClaimStep, EnqueueStep,
     AcceptedStep, AnsweredStep DEF CallStep
<1>2. ASSUME NEW s \in Socket, ServeStep(s) \/ Parts(s) \/ ReadEnds(s) PROVE IInv'
  <2>1. CASE TakeCommand(s)
    BY <2>1, TakeCommandInv
  <2>2. CASE Written(s)
    BY <2>2, WrittenInv
  <2> QED BY <1>2, <2>1, <2>2, OpenInv, UpgradeFailsInv, NoSenderInv, PartsInv, DeliverStep,
             CloseChannelInv, ClearPendingInv, ReadEndsInv DEF ServeStep
<1>3. CASE DeviceStep
  BY <1>3, DialInv, LeaveInv, ReceiveInv, RunInv DEF DeviceStep
<1>4. CASE Fault
  <2>1. ASSUME NEW s \in Socket, Wedged(s) PROVE IInv'
    BY <2>1, WedgedInv
  <2> QED BY <1>4, <2>1, UnregisterInv, RestartInv, BreakInv DEF Fault
<1>5. CASE UNCHANGED vars
  BY <1>5, IdleInv
<1> QED BY <1>1, <1>2, <1>3, <1>4, <1>5, DisconnectInv, ReenrollInv DEF Next

\* Whatever the clients, the network and the operator do, the invariant holds:
\* the live socket is served, waiters are where they are looked for, a frame is
\* in one place and a retry is allowed only for what left no trace.
THEOREM Invariant == Spec => []IInv
<1> QED BY InitInv, StepInv, PTL DEF Spec

\* Every variable keeps the type the code gives it; no queue outgrows
\* CHANNEL_CAPACITY.
THEOREM TypeCorrect == Spec => []TypeOK
<1>1. IInv => TypeOK
  BY DEF IInv, Types, QueueType, TypeOK
<1> QED BY <1>1, Invariant, PTL

\* However calls, sockets and removals interleave, a call that waits for an
\* answer has its waiter on a socket whose task has not ended.
THEOREM NoOrphans == Spec => []NoOrphanWaiter
<1>1. IInv => NoOrphanWaiter
  BY DEF IInv, Waiters, NoOrphanWaiter
<1> QED BY <1>1, Invariant, PTL

\* For any number of calls, sockets, breaks and restarts: a client that repeats
\* only what it was told is safe to repeat has nothing done twice.
THEOREM AtMostOnce == Spec => []RunsAtMostOnce
<1>1. ASSUME IInv PROVE RunsAtMostOnce
  <2> SUFFICES ASSUME NEW o \in Op \ drained PROVE ran[o] <= 1
    BY DEF RunsAtMostOnce
  <2>1. ran[o] = 0 \/ ran[o] = 1
    BY <1>1 DEF IInv, RanOnce
  <2> QED BY <2>1
<1> QED BY <1>1, Invariant, PTL

\* What the comment on RequestError::Offline promises, without what a removal
\* found waiting: the device never saw a call that may be repeated.
THEOREM RetryIsSafeUnlessSpared ==
    Spec => [](\A i \in Call :
                  call[i] \in Retryable => task[i] = "none" \/ OpOf[i] \in drained)
<1>1. IInv => \A i \in Call :
                 call[i] \in Retryable => task[i] = "none" \/ OpOf[i] \in drained
  BY DEF IInv, Safe, Untouched
<1> QED BY <1>1, Invariant, PTL

-----------------------------------------------------------------------------
(* One open socket.                                                        *)

\* A frame is in the hands of a task that serves.
InHand == \A s \in Socket : sending[s] # None => serve[s] = "serving"

\* What a task's step does to its socket; those of others stay.
Serves(s) ==
    /\ link' = link
    /\ serve[s] # "unused" /\ serve'[s] # "unused"
    /\ serve'[s] = "ended" => serve[s] = "ended" \/ broken'[s]
    /\ broken[s] => broken'[s]
    /\ sending'[s] # None => serve'[s] = "serving"
    /\ \A t \in Socket \ {s} : /\ serve'[t] = serve[t] /\ broken'[t] = broken[t]
                               /\ sending'[t] = sending[t]

LEMMA TaskServes ==
    ASSUME IInv, InHand, NEW s \in Socket, ServeStep(s) \/ Parts(s) \/ ReadEnds(s) \/ Wedged(s) \/ Break(s)
    PROVE  Serves(s)
<1> USE DEF IInv, Types, Serves, InHand, wireVars, deviceVars, consoleVars, callVars
<1>1. CASE Open(s) \/ UpgradeFails(s) \/ NoSender(s) \/ Parts(s) \/ ReadEnds(s)
  BY <1>1 DEF Open, UpgradeFails, NoSender, Parts, ReadEnds
<1>2. CASE CloseChannel(s) \/ Deliver(s) \/ Break(s)
  BY <1>2 DEF CloseChannel, Deliver, Break
<1>3. CASE Written(s)
  BY <1>3 DEF Written
<1>4. CASE Wedged(s)
  BY <1>4 DEF Wedged
<1>5. CASE TakeCommand(s)
  BY <1>5 DEF TakeCommand
<1>6. CASE ClearPending(s)
  BY <1>6 DEF ClearPending
<1> QED
  BY <1>1, <1>2, <1>3, <1>4, <1>5, <1>6 DEF ServeStep

LEMMA OneOpenStep ==
    ASSUME IInv, InHand, OneOpenSocket, [Next]_vars
    PROVE  InHand' /\ OneOpenSocket'
<1>1. CASE UNCHANGED <<serve, sending, broken, link>>
  BY <1>1 DEF InHand, OneOpenSocket
<1>2. ASSUME NEW i \in Call, Admit(i) \/ NoChannel(i) \/ TimesOut(i) \/ CallStep(i)
      PROVE  UNCHANGED <<serve, sending, broken, link>>
  BY <1>2 DEF Admit, NoChannel, TimesOut, CallStep, Begin, Claim, Enqueue, Accepted, Answered,
              consoleVars, wireVars, deviceVars
<1>3. ASSUME NEW s \in Socket, Serves(s) PROVE InHand' /\ OneOpenSocket'
  BY <1>3 DEF Serves, InHand, OneOpenSocket
<1>4. CASE Dial
  <2>1. /\ link = None /\ UNCHANGED <<sending, broken>>
        /\ \/ UNCHANGED serve
           \/ \E s \in Socket : /\ serve[s] = "unused" /\ link' = s
                                /\ \A t \in Socket : serve'[t] = IF t = s THEN "upgrading" ELSE serve[t]
    BY <1>4 DEF Dial, wireVars, IInv, Types
  <2> QED
    BY <2>1, Names DEF InHand, OneOpenSocket
<1>5. CASE Leave
  BY <1>5, Names DEF Leave, consoleVars, InHand, OneOpenSocket
<1>6. CASE Restart \/ Reenroll
  <2>1. /\ UNCHANGED <<serve, sending>>
        /\ broken' = [s \in Socket |-> broken[s] \/ serve[s] # "unused"]
    BY <1>6 DEF Restart, Reenroll, ProcessEnds, consoleVars
  <2>2. \A s \in Socket : serve'[s] # "unused" => broken'[s]
    BY <2>1, Zenon
  <2> QED
    BY <2>1, <2>2 DEF InHand, OneOpenSocket
<1>7. ASSUME (\E i \in Call : Receive(i) \/ Run(i)) \/ Disconnect \/ Unregister
      PROVE  UNCHANGED <<serve, sending, broken, link>>
  BY <1>7 DEF Receive, Run, Disconnect, Unregister, consoleVars, wireVars, deviceVars
<1> QED
  BY <1>1, <1>2, <1>3, <1>4, <1>5, <1>6, <1>7, TaskServes
  DEF Next, DeviceStep, Fault, vars, consoleVars, wireVars, deviceVars

\* At most one socket is open at both ends, and the device serves it.
THEOREM OneOpen == Spec => []OneOpenSocket
<1>1. Init => InHand /\ OneOpenSocket
  BY DEF Init, InHand, OneOpenSocket
<1> QED
  BY <1>1, OneOpenStep, Invariant, PTL DEF Spec

-----------------------------------------------------------------------------
(* The channel implements CallPromise.                                     *)

\* An answer, wherever it is on its way to the client, is of an operation that
\* ran, and only a call that listens has a waiter.
Honest == \A i \in Call :
    /\ \/ answer[i] = "reply"
       \/ call[i] = "replied"
       \/ \E s \in Socket : i \in up[s]
       => ran[OpOf[i]] # 0
    /\ \A s \in Socket : i \in pending[s] => call[i] \in Listens

\* What a step may do with answers and waiters.
HonestMove ==
    /\ \A o \in Op : ran[o] # 0 => ran'[o] # 0
    /\ \A i \in Call :
        /\ answer'[i] = "reply" => answer[i] = "reply" \/ \E s \in Socket : i \in up[s]
        /\ call'[i] = "replied" => call[i] = "replied" \/ answer[i] = "reply"
        /\ \A s \in Socket :
            /\ i \in up'[s] => i \in up[s] \/ ran'[OpOf[i]] # 0
            /\ i \in pending'[s] => \/ i \in pending[s] /\ call'[i] = call[i]
                                    \/ call'[i] \in Listens

LEMMA HonestStep == ASSUME Honest, HonestMove PROVE Honest'
BY Names DEF Honest, HonestMove

\* The actions that leave answers, waiters and the device's work alone.
LEMMA QuietMove ==
    ASSUME IInv, UNCHANGED <<ran, call>>,
           \A i \in Call : answer'[i] = "reply" => answer[i] = "reply",
           \A s \in Socket : up'[s] \subseteq up[s] /\ pending'[s] \subseteq pending[s]
    PROVE  HonestMove
BY DEF HonestMove

LEMMA ToldMove ==
    ASSUME IInv, NEW calls, NEW w \in {"offline", "gone"}, NEW i \in Call,
           answer' = Told(calls, w), answer'[i] = "reply"
    PROVE  answer[i] = "reply"
BY DEF Told

LEMMA FinishMove ==
    ASSUME IInv, NEW i \in Call, NEW o \in Outcome, Finish(i, o),
           o = "replied" => answer[i] = "reply",
           UNCHANGED <<up, ran>>
    PROVE  HonestMove
<1>1. /\ \A j \in Call : /\ call'[j] = IF j = i THEN o ELSE call[j]
                         /\ answer'[j] = IF j = i THEN "none" ELSE answer[j]
      /\ \A s \in Socket : pending'[s] = pending[s] \ {i}
  BY DEF Finish, IInv, Types
<1> QED
  BY <1>1 DEF HonestMove

LEMMA StageMove ==
    ASSUME IInv, NEW i \in Call, NEW c \in Listens \cup {"admitted", "unknown_device", "busy", "waiting"},
           call' = [call EXCEPT ![i] = c],
           c \in Listens \/ call[i] \notin Listens,
           UNCHANGED <<answer, up, pending, ran>>, Honest
    PROVE  HonestMove
<1>1. \A j \in Call : call'[j] = IF j = i THEN c ELSE call[j]
  BY DEF IInv, Types
<1> QED
  BY <1>1 DEF HonestMove, Honest

LEMMA CallMove ==
    ASSUME IInv, Honest, NEW i \in Call,
           Admit(i) \/ NoChannel(i) \/ TimesOut(i) \/ CallStep(i)
    PROVE  HonestMove
<1>1. CASE Admit(i)
  <2>1. PICK c \in {"admitted", "unknown_device"} : call' = [call EXCEPT ![i] = c]
    BY <1>1 DEF Admit
  <2>2. /\ call[i] = "unused"
        /\ UNCHANGED <<answer, up, pending, ran>>
    BY <1>1 DEF Admit, MayStart, consoleVars, wireVars, deviceVars
  <2> QED
    BY <2>1, <2>2, StageMove
<1>2. CASE NoChannel(i) \/ TimesOut(i)
  <2>1. PICK o \in {"offline", "timeout"} : Finish(i, o)
    BY <1>2 DEF NoChannel, TimesOut
  <2>2. UNCHANGED <<up, ran>>
    BY <1>2 DEF NoChannel, TimesOut, wireVars, deviceVars
  <2> QED
    BY <2>1, <2>2, FinishMove
<1>3. ASSUME ClaimLive(i), live # None, UNCHANGED <<answer, up, ran>>
      PROVE  HonestMove
  <2>1. live \in Socket
    BY <1>3 DEF IInv, Types
  <2>2. /\ \A j \in Call : call'[j] = IF j = i THEN "claimed" ELSE call[j]
        /\ \A s \in Socket : pending'[s] = IF s = live THEN pending[s] \cup {i} ELSE pending[s]
    BY <1>3, <2>1 DEF ClaimLive, IInv, Types
  <2> QED
    BY <1>3, <2>2 DEF HonestMove
<1>4. CASE Begin(i)
  <2>1. UNCHANGED <<answer, up, ran>> /\ call[i] = "admitted"
    BY <1>4 DEF Begin, wireVars, deviceVars
  <2>2. CASE live # None /\ ClaimLive(i)
    BY <1>3, <2>1, <2>2
  <2>3. ASSUME NEW c \in {"busy", "waiting"}, call' = [call EXCEPT ![i] = c], UNCHANGED pending
        PROVE  HonestMove
    BY <2>1, <2>3, StageMove
  <2> QED
    BY <1>4, <2>2, <2>3 DEF Begin
<1>5. CASE Claim(i)
  BY <1>3, <1>5 DEF Claim, wireVars, deviceVars
<1>6. CASE Enqueue(i)
  <2>1. UNCHANGED <<up, ran>>
    BY <1>6 DEF Enqueue, wireVars, deviceVars
  <2>2. CASE Finish(i, "offline") \/ Finish(i, "busy")
    BY <2>1, <2>2, FinishMove
  <2>3. CASE call' = [call EXCEPT ![i] = "queued"] /\ UNCHANGED <<pending, accepted, answer>>
    BY <2>1, <2>3, StageMove
  <2> QED
    BY <1>6, <2>2, <2>3 DEF Enqueue
<1>7. CASE Accepted(i)
  <2>1. UNCHANGED <<up, ran>>
    BY <1>7 DEF Accepted, wireVars, deviceVars
  <2>2. CASE Finish(i, AcceptedOutcome(i))
    <3>1. AcceptedOutcome(i) \in Outcome \ {"replied"}
      BY DEF AcceptedOutcome
    <3> QED
      BY <2>1, <2>2, <3>1, FinishMove
  <2>3. CASE call' = [call EXCEPT ![i] = "sent"] /\ UNCHANGED <<pending, accepted, answer>>
    BY <2>1, <2>3, StageMove
  <2> QED
    BY <1>7, <2>2, <2>3 DEF Accepted
<1>8. CASE Answered(i)
  <2>1. /\ UNCHANGED <<up, ran>>
        /\ Finish(i, AnswerOutcome(i))
    BY <1>8 DEF Answered, wireVars, deviceVars
  <2>2. /\ AnswerOutcome(i) \in Outcome
        /\ AnswerOutcome(i) = "replied" => answer[i] = "reply"
    BY DEF AnswerOutcome
  <2> QED
    BY <2>1, <2>2, FinishMove
<1> QED
  BY <1>1, <1>2, <1>4, <1>5, <1>6, <1>7, <1>8 DEF CallStep

LEMMA ServeMove ==
    ASSUME IInv, NEW s \in Socket, ServeStep(s) \/ Parts(s) \/ ReadEnds(s) \/ Wedged(s) \/ Break(s)
    PROVE  HonestMove
<1>1. CASE Open(s)
  <2>1. UNCHANGED <<ran, call, up>>
    BY <1>1 DEF Open, wireVars, deviceVars
  <2>2. CASE live = None
    BY <1>1, <2>1, <2>2, QuietMove DEF Open
  <2>3. CASE live # None
    <3>1. /\ answer' = Told(pending[live], "gone")
          /\ \A t \in Socket : pending'[t] \subseteq pending[t]
      BY <1>1, <2>3 DEF Open, IInv, Types
    <3> QED
      BY <2>1, <3>1, ToldMove, QuietMove
  <2> QED
    BY <2>2, <2>3
<1>2. CASE ClearPending(s)
  <2>1. /\ UNCHANGED <<ran, call>>
        /\ answer' = Told(pending[s], "gone")
        /\ \A t \in Socket : pending'[t] \subseteq pending[t] /\ up'[t] \subseteq up[t]
    BY <1>2 DEF ClearPending, deviceVars, IInv, Types
  <2> QED
    BY <2>1, ToldMove, QuietMove
<1>3. CASE Deliver(s)
  <2>1. PICK i \in up[s] : /\ up' = [up EXCEPT ![s] = @ \ {i}]
                           /\ answer' = Told({i} \cap pending[s], "reply")
                           /\ pending' = [pending EXCEPT ![s] = @ \ {i}]
    BY <1>3 DEF Deliver
  <2>2. UNCHANGED <<ran, call>>
    BY <1>3 DEF Deliver, deviceVars
  <2>3. \A t \in Socket : up'[t] \subseteq up[t] /\ pending'[t] \subseteq pending[t]
    BY <2>1 DEF IInv, Types
  <2>4. \A j \in Call : answer'[j] = "reply" => answer[j] = "reply" \/ j = i
    BY <2>1 DEF Told
  <2> QED
    BY <2>1, <2>2, <2>3, <2>4 DEF HonestMove
<1>4. CASE Break(s)
  <2>1. /\ UNCHANGED <<ran, call, answer, pending>>
        /\ \A t \in Socket : up'[t] \subseteq up[t]
    BY <1>4 DEF Break, deviceVars, callVars, consoleVars, IInv, Types
  <2> QED
    BY <2>1, QuietMove
<1>5. CASE UpgradeFails(s) \/ TakeCommand(s) \/ NoSender(s) \/ Parts(s) \/ Written(s)
           \/ CloseChannel(s) \/ ReadEnds(s) \/ Wedged(s)
  <2>1. UNCHANGED <<ran, call, answer, pending, up>>
    BY <1>5
    DEF UpgradeFails, TakeCommand, NoSender, Parts, Written, CloseChannel, ReadEnds, Wedged,
        deviceVars, callVars, wireVars
  <2> QED
    BY <2>1, QuietMove
<1> QED
  BY <1>1, <1>2, <1>3, <1>4, <1>5 DEF ServeStep

LEMMA DeviceMove ==
    ASSUME IInv, DeviceStep \/ Restart \/ Reenroll
    PROVE  HonestMove
<1>1. ASSUME NEW i \in Call, Run(i) PROVE HonestMove
  <2>1. /\ \A o \in Op : ran'[o] = IF o = OpOf[i] THEN ran[o] + 1 ELSE ran[o]
        /\ UNCHANGED <<call, answer, pending>>
        /\ \A j \in Call, s \in Socket : j \in up'[s] => j \in up[s] \/ j = i
    BY <1>1 DEF Run, consoleVars, callVars, IInv, Types
  <2>2. /\ OpOf[i] \in Op
        /\ \A o \in Op : ran[o] \in Nat
    BY Names DEF IInv, Types
  <2>3. /\ ran'[OpOf[i]] # 0
        /\ \A o \in Op : ran[o] # 0 => ran'[o] # 0
    BY <2>1, <2>2
  <2> QED
    BY <2>1, <2>3 DEF HonestMove
<1>2. CASE Restart \/ Reenroll
  <2>1. /\ UNCHANGED <<ran, call, answer, pending>>
        /\ \A s \in Socket : up'[s] = {}
    BY <1>2 DEF Restart, Reenroll, ProcessEnds, consoleVars, callVars
  <2> QED
    BY <2>1, QuietMove
<1>3. CASE Dial \/ Leave \/ \E i \in Call : Receive(i)
  <2>1. UNCHANGED <<ran, call, answer, pending, up>>
    BY <1>3 DEF Dial, Leave, Receive, consoleVars, callVars, wireVars
  <2> QED
    BY <2>1, QuietMove
<1> QED
  BY <1>1, <1>2, <1>3 DEF DeviceStep

LEMMA DisconnectMove == ASSUME IInv, Disconnect PROVE HonestMove
<1>1. UNCHANGED <<ran, call, up>>
  BY DEF Disconnect, wireVars, deviceVars
<1>2. CASE live = None
  BY <1>1, <1>2, QuietMove DEF Disconnect
<1>3. CASE live # None
  <2>1. /\ answer' = Told(pending[live], "offline")
        /\ \A t \in Socket : pending'[t] \subseteq pending[t]
    BY <1>3 DEF Disconnect, IInv, Types
  <2> QED
    BY <1>1, <2>1, ToldMove, QuietMove
<1> QED
  BY <1>2, <1>3

LEMMA HonestInv == ASSUME IInv, Honest, [Next]_vars PROVE Honest'
<1>1. CASE Unregister \/ UNCHANGED vars
  <2>1. UNCHANGED <<ran, call, answer, pending, up>>
    BY <1>1 DEF Unregister, vars, consoleVars, callVars, wireVars, deviceVars
  <2> QED
    BY <2>1, QuietMove, HonestStep
<1> QED
  BY <1>1, CallMove, ServeMove, DeviceMove, DisconnectMove, HonestStep DEF Next, Fault

-----------------------------------------------------------------------------
(* Each step is a step of CallPromise, or none.                            *)

toldNow == [j \in Call |-> Known(call[j])]

\* A step that moves one call tells its client that much.
LEMMA ToldSet ==
    ASSUME call \in [Call -> Stages], NEW i \in Call, NEW c, call' = [call EXCEPT ![i] = c]
    PROVE  /\ toldNow' = [toldNow EXCEPT ![i] = Known(c)]
           /\ Known(c) = Known(call[i]) => toldNow' = toldNow
           /\ toldNow[i] = Known(call[i])
<1>1. \A j \in Call : call'[j] = IF j = i THEN c ELSE call[j]
  OBVIOUS
<1>2. \A j \in Call : toldNow'[j] = IF j = i THEN Known(c) ELSE toldNow[j]
  BY <1>1 DEF toldNow
<1> QED
  BY <1>1, <1>2 DEF toldNow

\* What each stage tells.
LEMMA KnownOf ==
    /\ Known("unused") = "unused" /\ Known("replied") = "replied"
    /\ Known("unknown_device") = "failed" /\ Known("timeout") = "failed"
    /\ Known("disconnected") = "failed"
    /\ \A c \in {"admitted"} \cup Waiting : Known(c) = "open"
    /\ \A c \in Retryable : Known(c) = "retry"
    /\ \A c \in Stages : /\ Known(c) = "unused" => c = "unused"
                         /\ Known(c) = "replied" => c = "replied"
                         /\ Known(c) = "retry" => c \in Retryable
BY DEF Known

\* The only call of its operation that is under way, and nothing of it left the
\* console: the operation has not run.
LEMMA NotRan ==
    ASSUME IInv, NEW i \in Call, call[i] \in {"admitted"} \cup Waiting,
           Untouched(i), OpOf[i] \notin drained
    PROVE  ran[OpOf[i]] = 0
<1>1. ASSUME NEW j \in Call, OpOf[j] = OpOf[i] PROVE task[j] = "none"
  <2>1. CASE j = i
    BY <2>1 DEF Untouched
  <2>2. CASE j < i
    BY <1>1, <2>2 DEF IInv, Repeats, Safe, Untouched
  <2>3. CASE i < j
    BY <1>1, <2>3 DEF IInv, Repeats, Early, Untouched
  <2> QED
    BY <2>1, <2>2, <2>3 DEF Call
<1> QED
  BY <1>1, Names DEF IInv, RanOnce

LEMMA PromiseStutters ==
    ASSUME toldNow' = toldNow, UNCHANGED <<ran, drained>>,
           (removal = "unregistered") <=> (removal' = "unregistered")
    PROVE  UNCHANGED Promise!vars
BY DEF Promise!vars, toldNow

LEMMA Refused ==
    ASSUME IInv, NEW i \in Call, NEW c \in Retryable, call' = [call EXCEPT ![i] = c],
           call[i] \in {"admitted"} \cup Waiting,
           OpOf[i] \notin drained => Untouched(i),
           UNCHANGED <<ran, drained, removal>>
    PROVE  Promise!Refuse(i)
<1>1. OpOf[i] \notin drained => ran[OpOf[i]] = 0
  BY NotRan
<1>2. toldNow[i] = "open" /\ toldNow' = [toldNow EXCEPT ![i] = "retry"]
  <2>1. /\ toldNow' = [toldNow EXCEPT ![i] = Known(c)]
        /\ toldNow[i] = Known(call[i])
    BY ToldSet DEF IInv, Types
  <2> QED
    BY <2>1, KnownOf
<1> QED
  BY <1>1, <1>2 DEF Promise!Refuse, toldNow

LEMMA Failed ==
    ASSUME IInv, NEW i \in Call, NEW c \in {"timeout", "disconnected"},
           call' = [call EXCEPT ![i] = c],
           call[i] \in {"admitted"} \cup Waiting,
           UNCHANGED <<ran, drained, removal>>
    PROVE  Promise!Fail(i)
<1>1. toldNow[i] = "open" /\ toldNow' = [toldNow EXCEPT ![i] = "failed"]
  <2>1. /\ toldNow' = [toldNow EXCEPT ![i] = Known(c)]
        /\ toldNow[i] = Known(call[i])
    BY ToldSet DEF IInv, Types
  <2> QED
    BY <2>1, KnownOf
<1> QED
  BY <1>1 DEF Promise!Fail, toldNow

LEMMA StillOpen ==
    ASSUME IInv, NEW i \in Call, NEW c \in Waiting, call' = [call EXCEPT ![i] = c],
           call[i] \in {"admitted"} \cup Waiting,
           UNCHANGED <<ran, drained, removal>>
    PROVE  UNCHANGED Promise!vars
<1>1. toldNow' = toldNow
  <2>1. Known(c) = Known(call[i])
    BY KnownOf
  <2> QED
    BY <2>1, ToldSet DEF IInv, Types
<1> QED
  BY <1>1, PromiseStutters

LEMMA AdmitAsks == ASSUME IInv, NEW i \in Call, Admit(i) PROVE Promise!Ask(i)
<1>1. /\ MayStart(i)
      /\ UNCHANGED <<ran, drained, removal>>
  BY DEF Admit, deviceVars
<1>2. PICK c \in {"admitted", "unknown_device"} : call' = [call EXCEPT ![i] = c]
  BY DEF Admit
<1>3. /\ toldNow[i] = "unused"
      /\ toldNow' = [toldNow EXCEPT ![i] = Known(c)]
      /\ Known(c) \in {"open", "failed"}
  <2>1. /\ toldNow' = [toldNow EXCEPT ![i] = Known(c)]
        /\ toldNow[i] = Known(call[i])
    BY <1>2, ToldSet DEF IInv, Types
  <2>2. call[i] = "unused"
    BY <1>1 DEF MayStart
  <2> QED
    BY <2>1, <2>2, KnownOf
<1>4. \A j \in Call : OpOf[j] = OpOf[i] /\ j < i => toldNow[j] = "retry"
  <2>1. ASSUME NEW j \in Call, j < i PROVE j \in 1 .. (i - 1)
    BY <2>1 DEF Call
  <2> QED
    BY <1>1, <2>1, KnownOf DEF MayStart, toldNow
<1> QED
  BY <1>1, <1>3, <1>4 DEF Promise!Ask, Promise!CallsOf, toldNow

LEMMA BeginKeeps ==
    ASSUME IInv, NEW i \in Call, Begin(i)
    PROVE  Promise!Refuse(i) \/ UNCHANGED Promise!vars
<1>1. /\ call[i] = "admitted" /\ Untouched(i)
      /\ UNCHANGED <<ran, drained, removal>>
  BY DEF Begin, deviceVars, IInv, Early
<1>2. CASE call' = [call EXCEPT ![i] = "busy"]
  BY <1>1, <1>2, Refused
<1>3. CASE \E c \in {"claimed", "waiting"} : call' = [call EXCEPT ![i] = c]
  BY <1>1, <1>3, StillOpen
<1> QED
  BY <1>2, <1>3 DEF Begin, ClaimLive

LEMMA EnqueueKeeps ==
    ASSUME IInv, NEW i \in Call, Enqueue(i)
    PROVE  Promise!Refuse(i) \/ UNCHANGED Promise!vars
<1>1. /\ call[i] = "claimed" /\ Untouched(i)
      /\ UNCHANGED <<ran, drained, removal>>
  BY DEF Enqueue, deviceVars, IInv, Early
<1>2. CASE \E c \in {"offline", "busy"} : call' = [call EXCEPT ![i] = c]
  BY <1>1, <1>2, Refused
<1>3. CASE call' = [call EXCEPT ![i] = "queued"]
  BY <1>1, <1>3, StillOpen
<1> QED
  BY <1>2, <1>3 DEF Enqueue, Finish

LEMMA AcceptedKeeps ==
    ASSUME IInv, NEW i \in Call, Accepted(i)
    PROVE  Promise!Refuse(i) \/ Promise!Fail(i) \/ UNCHANGED Promise!vars
<1>1. /\ call[i] = "queued"
      /\ UNCHANGED <<ran, drained, removal>>
  BY DEF Accepted, deviceVars
<1>2. CASE call' = [call EXCEPT ![i] = "sent"]
  BY <1>1, <1>2, StillOpen
<1>3. CASE accepted[i] = "offline" /\ call' = [call EXCEPT ![i] = "offline"]
  <2>1. Untouched(i)
    BY <1>3 DEF IInv, Safe
  <2> QED
    BY <1>1, <1>3, <2>1, Refused
<1>4. CASE \E c \in {"timeout", "disconnected"} : call' = [call EXCEPT ![i] = c]
  BY <1>1, <1>4, Failed
<1> QED
  BY <1>2, <1>3, <1>4 DEF Accepted, AcceptedOutcome, Finish

LEMMA AnsweredKeeps ==
    ASSUME IInv, Honest, NEW i \in Call, Answered(i)
    PROVE  Promise!Reply(i) \/ Promise!Refuse(i) \/ Promise!Fail(i)
<1>1. /\ call[i] = "sent"
      /\ UNCHANGED <<ran, drained, removal>>
      /\ call' = [call EXCEPT ![i] = AnswerOutcome(i)]
  BY DEF Answered, Finish, deviceVars
<1>2. CASE answer[i] = "reply"
  <2>1. ran[OpOf[i]] # 0
    BY <1>2 DEF Honest
  <2>2. toldNow[i] = "open" /\ toldNow' = [toldNow EXCEPT ![i] = "replied"]
    <3>1. call' = [call EXCEPT ![i] = "replied"]
      BY <1>1, <1>2 DEF AnswerOutcome
    <3>2. /\ toldNow' = [toldNow EXCEPT ![i] = Known("replied")]
          /\ toldNow[i] = Known(call[i])
      BY <3>1, ToldSet DEF IInv, Types
    <3> QED
      BY <1>1, <3>2, KnownOf
  <2> QED
    BY <1>1, <2>1, <2>2 DEF Promise!Reply, toldNow
<1>3. CASE answer[i] = "offline"
  <2>1. OpOf[i] \in drained
    BY <1>3 DEF IInv, Safe
  <2> QED
    BY <1>1, <1>3, <2>1, Refused DEF AnswerOutcome
<1>4. CASE answer[i] \notin {"reply", "offline"}
  BY <1>1, <1>4, Failed DEF AnswerOutcome
<1> QED
  BY <1>2, <1>3, <1>4

LEMMA GivesUp ==
    ASSUME IInv, NEW i \in Call, NoChannel(i) \/ TimesOut(i)
    PROVE  Promise!Refuse(i) \/ Promise!Fail(i)
<1>1. UNCHANGED <<ran, drained, removal>>
  BY DEF NoChannel, TimesOut, deviceVars
<1>2. CASE NoChannel(i)
  BY <1>1, <1>2, Refused DEF NoChannel, Finish, IInv, Early
<1>3. CASE TimesOut(i)
  BY <1>1, <1>3, Failed DEF TimesOut, Finish
<1> QED
  BY <1>2, <1>3

LEMMA RunExecutes ==
    ASSUME IInv, Honest, NEW i \in Call, Run(i)
    PROVE  Promise!Execute(OpOf[i])
<1>1. /\ task[i] = "parked" /\ ~Untouched(i)
      /\ ran' = [ran EXCEPT ![OpOf[i]] = @ + 1]
      /\ UNCHANGED <<call, drained, removal>>
  BY DEF Run, Untouched, callVars
<1>2. call[i] # "unused" /\ call[i] # "admitted"
  BY <1>1 DEF IInv, Early
<1>3. ASSUME OpOf[i] \notin drained
      PROVE  /\ ran[OpOf[i]] = 0
             /\ \A j \in Call : OpOf[j] = OpOf[i] => call[j] # "replied"
             /\ call[i] \notin Retryable
  <2>1. call[i] \notin Retryable
    BY <1>1, <1>3 DEF IInv, Safe
  <2>2. ASSUME NEW j \in Call, OpOf[j] = OpOf[i], task[j] = "done" PROVE FALSE
    <3>1. j # i /\ ~Untouched(j) /\ call[j] \notin Retryable /\ call[j] # "unused"
      BY <1>1, <1>3, <2>2 DEF Untouched, IInv, Early, Safe
    <3>2. i < j \/ j < i
      BY <3>1 DEF Call
    <3> QED
      BY <1>2, <2>1, <2>2, <3>1, <3>2 DEF IInv, Repeats
  <2>3. ran[OpOf[i]] = 0
    BY <1>3, <2>2, Names DEF IInv, RanOnce
  <2> QED
    BY <2>1, <2>3 DEF Honest
<1>4. /\ toldNow[i] # "unused"
      /\ toldNow[i] \in {"open", "failed", "replied", "retry"}
      /\ \A j \in Call : toldNow[j] = "replied" => call[j] = "replied"
      /\ toldNow[i] = "retry" => call[i] \in Retryable
  BY <1>2, KnownOf DEF toldNow, IInv, Types, Known
<1>5. toldNow' = toldNow /\ UNCHANGED <<drained, removal>>
  BY <1>1 DEF toldNow
<1> QED
  BY <1>1, <1>3, <1>4, <1>5 DEF Promise!Execute, Promise!CallsOf, toldNow

LEMMA DisconnectKeeps ==
    ASSUME IInv, Honest, Disconnect
    PROVE  Promise!Removed
<1>1. /\ removal = "unregistered" /\ removal' # "unregistered"
      /\ UNCHANGED <<ran, call>>
  BY DEF Disconnect, deviceVars
<1> DEFINE waiting == IF live = None THEN {} ELSE pending[live]
<1>2. drained' = drained \cup {OpOf[i] : i \in waiting}
  BY DEF Disconnect
<1>3. waiting \in SUBSET {i \in Call : toldNow[i] = "open"}
  BY KnownOf DEF Honest, IInv, Types, toldNow
<1> HIDE DEF waiting
<1>4. /\ toldNow' = toldNow
      /\ (removal' = "unregistered") = FALSE
  BY <1>1 DEF toldNow
<1> QED
  BY <1>1, <1>2, <1>3, <1>4 DEF Promise!Removed, toldNow

\* The steps of sockets and of the device's link, and a return of the device.
LEMMA OthersKeep ==
    ASSUME \/ \E s \in Socket : ServeStep(s) \/ Parts(s) \/ ReadEnds(s) \/ Wedged(s) \/ Break(s)
           \/ Dial \/ Leave \/ (\E i \in Call : Receive(i))
           \/ Restart \/ Reenroll \/ UNCHANGED vars
    PROVE  UNCHANGED Promise!vars
<1>1. CASE \E s \in Socket : ServeStep(s) \/ Parts(s) \/ ReadEnds(s) \/ Wedged(s) \/ Break(s)
  <2>1. UNCHANGED <<call, ran, drained, removal>>
    BY <1>1
    DEF ServeStep, Open, UpgradeFails, TakeCommand, NoSender, Parts, Written, Deliver,
        CloseChannel, ClearPending, ReadEnds, Wedged, Break, callVars, deviceVars
  <2> QED
    BY <2>1, PromiseStutters DEF toldNow
<1>2. CASE Dial \/ Leave \/ (\E i \in Call : Receive(i)) \/ Restart \/ UNCHANGED vars
  <2>1. UNCHANGED <<call, ran, drained, removal>>
    BY <1>2
    DEF Dial, Leave, Receive, Restart, ProcessEnds, vars, callVars, deviceVars
  <2> QED
    BY <2>1, PromiseStutters DEF toldNow
<1>3. CASE Reenroll
  <2>1. /\ UNCHANGED <<call, ran, drained>>
        /\ (removal = "unregistered") <=> (removal' = "unregistered")
    BY <1>3 DEF Reenroll, ProcessEnds, callVars
  <2> QED
    BY <2>1, PromiseStutters DEF toldNow
<1> QED
  BY <1>1, <1>2, <1>3

LEMMA UnregisterKeeps == ASSUME Unregister PROVE Promise!Remove
<1>1. /\ removal # "unregistered" /\ removal' = "unregistered"
      /\ UNCHANGED <<call, ran, drained>>
  BY DEF Unregister, callVars, deviceVars
<1> QED
  BY <1>1 DEF Promise!Remove

LEMMA PromiseStep ==
    ASSUME IInv, Honest, [Next]_vars
    PROVE  [Promise!Next]_(Promise!vars)
<1> USE DEF Promise!Next
<1>1. ASSUME NEW i \in Call, Admit(i) \/ NoChannel(i) \/ TimesOut(i) \/ CallStep(i)
      PROVE  [Promise!Next]_(Promise!vars)
  <2>1. CASE Claim(i)
    BY <2>1, StillOpen DEF Claim, ClaimLive, deviceVars
  <2> QED
    BY <1>1, <2>1, AdmitAsks, BeginKeeps, EnqueueKeeps, AcceptedKeeps,
       AnsweredKeeps, GivesUp DEF CallStep
<1>2. ASSUME NEW i \in Call, Run(i) PROVE Promise!Next
  BY <1>2, RunExecutes, Names
<1> QED
  BY <1>1, <1>2, DisconnectKeeps, UnregisterKeeps, OthersKeep
  DEF Next, DeviceStep, Fault

\* For any number of calls, sockets and faults the channel implements
\* CallPromise: replies are the device's own, what may be repeated has not run
\* and will not, and an operation runs once, the removal of a device aside.
THEOREM Implements == Spec => ImplementsCallPromise
<1>1. Init => Promise!Init
  BY KnownOf DEF Init, Promise!Init
<1>2. Init => Honest
  BY Names DEF Init, Honest
<1>3. IInv /\ Honest /\ [Next]_vars => Honest'
  BY HonestInv
<1>4. IInv /\ Honest /\ [Next]_vars => [Promise!Next]_(Promise!vars)
  BY PromiseStep
<1> QED
  BY <1>1, <1>2, <1>3, <1>4, Invariant, PTL DEF Spec, ImplementsCallPromise, Promise!Spec
=============================================================================
