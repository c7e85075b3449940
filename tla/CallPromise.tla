----------------------------- MODULE CallPromise -----------------------------
(***************************************************************************)
(* What the console and a device promise a client about its operations,    *)
(* without sockets, queues, frames or timers: a reply means that the       *)
(* operation ran, a refusal means that it has not run and will not run     *)
(* before it is asked for again, and it runs once.                         *)
(*                                                                         *)
(* Spared is the exception that the removal of a device leaves open: the   *)
(* calls that wait while the device is removed are told that a retry is    *)
(* safe, written or not, and nothing is promised of their operations any   *)
(* more, except that a reply is still not made up.                         *)
(***************************************************************************)
EXTENDS Naturals

CONSTANTS Op, Call, OpOf

VARIABLES
    told,       \* what the client of each call knows
    ran,        \* how often the device ran each operation
    removing,   \* the device is being removed
    spared      \* the operations of which nothing is promised

vars == <<told, ran, removing, spared>>

Known == {"unused", "open", "replied", "retry", "failed"}
CallsOf(o) == {i \in Call : OpOf[i] = o}

Init == /\ told = [i \in Call |-> "unused"]
        /\ ran = [o \in Op |-> 0]
        /\ removing = FALSE
        /\ spared = {}

\* A client asks, or asks again once every earlier call for the operation was
\* answered as safe to retry.  A device nobody knows is refused at once.
Ask(i) ==
    /\ told[i] = "unused"
    /\ \A j \in CallsOf(OpOf[i]) : j < i => told[j] = "retry"
    /\ \E k \in {"open", "failed"} : told' = [told EXCEPT ![i] = k]
    /\ UNCHANGED <<ran, removing, spared>>

\* The device runs the operation.  The client may have given up, but it was not
\* answered, neither with a reply nor with a refusal.
Execute(o) ==
    /\ \E i \in CallsOf(o) : told[i] # "unused"
    /\ o \notin spared => /\ ran[o] = 0
                          /\ \E i \in CallsOf(o) : told[i] \in {"open", "failed"}
                          /\ \A i \in CallsOf(o) : told[i] # "replied"
    /\ ran' = [ran EXCEPT ![o] = @ + 1]
    /\ UNCHANGED <<told, removing, spared>>

Reply(i) ==
    /\ told[i] = "open"
    /\ ran[OpOf[i]] # 0
    /\ told' = [told EXCEPT ![i] = "replied"]
    /\ UNCHANGED <<ran, removing, spared>>

Refuse(i) ==
    /\ told[i] = "open"
    /\ OpOf[i] \notin spared => ran[OpOf[i]] = 0
    /\ told' = [told EXCEPT ![i] = "retry"]
    /\ UNCHANGED <<ran, removing, spared>>

\* A timeout, or a channel that was lost: the client learns nothing.
Fail(i) ==
    /\ told[i] = "open"
    /\ told' = [told EXCEPT ![i] = "failed"]
    /\ UNCHANGED <<ran, removing, spared>>

Remove ==
    /\ ~removing
    /\ removing' = TRUE
    /\ UNCHANGED <<told, ran, spared>>

\* The end of a removal, which may find calls that wait.
Removed ==
    /\ removing
    /\ removing' = FALSE
    /\ \E waiting \in SUBSET {i \in Call : told[i] = "open"} :
          spared' = spared \cup {OpOf[i] : i \in waiting}
    /\ UNCHANGED <<told, ran>>

Next == \/ \E i \in Call : Ask(i) \/ Reply(i) \/ Refuse(i) \/ Fail(i)
        \/ \E o \in Op : Execute(o)
        \/ Remove \/ Removed

Spec == Init /\ [][Next]_vars
=============================================================================
