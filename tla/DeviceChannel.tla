---------------------------- MODULE DeviceChannel ----------------------------
(***************************************************************************)
(* One device's channel to the console, from both ends: the socket the     *)
(* device dials, the registry that says which socket is the live one, the  *)
(* calls that travel over it, and the removal of the device while they do. *)
(*                                                                         *)
(* The console runs a task per HTTP call and a task per socket; they share *)
(* the registry (`live`), the bounded queue of a socket and its map of     *)
(* waiters (`pending`).  A call hands its frame to the serving task and    *)
(* waits twice, for the socket to accept the frame and for the device to   *)
(* answer.  The device runs one task per frame.  A socket is named by the  *)
(* order in which the device dialled, a call by the order in which it came *)
(* in; a client repeats an operation only when the console told it that a  *)
(* retry is safe.                                                          *)
(*                                                                         *)
(* Every device has a channel of its own and nothing here relates two of   *)
(* them.  Timers fire whenever what they wait for has not happened.        *)
(*                                                                         *)
(* DroppedIsOffline, NoSenderWaits and ClearMissesOwn are faulty variants: *)
(* each breaks a property below, which shows that the property is earned.  *)
(***************************************************************************)
EXTENDS Naturals, Sequences

CONSTANTS
    Op,             \* what the operator's clients want done
    MaxCalls,       \* how many calls they make in all
    OpOf,           \* what each call is for
    MaxSockets,     \* how often the device dials
    MaxFaults,      \* broken sockets, wedged sends, restarts, removals
    Capacity        \* CHANNEL_CAPACITY

ASSUME BoundAssumption == /\ MaxCalls \in Nat
                          /\ MaxSockets \in Nat
                          /\ MaxFaults \in Nat
                          /\ Capacity \in Nat \ {0}
                          /\ OpOf \in [1 .. MaxCalls -> Op]

Socket == 1 .. MaxSockets
Call == 1 .. MaxCalls
None == 0

VARIABLES
    registered, \* the registry admits the device
    removal,    \* DELETE /devices/:id: "none", "unregistered" (under way), "done"
    live,       \* the socket in the channel registry, or None
    serve,      \* where the task of each socket is
    sending,    \* the frame that task is writing, or None
    queue,      \* the frames waiting for that task; Close asks it to end
    pending,    \* the calls with a waiter on the socket
    call,       \* where each call is, or how it ended
    on,         \* the socket it claimed
    accepted,   \* what the serving task told it about its frame
    answer,     \* what its waiter received
    broken,     \* sockets whose transport is gone, at either end or between
    down, up,   \* frames and answers on the wire
    link,       \* the socket the device serves, None (it dials) or Stopped
    task,       \* the device's task for each frame
    ran,        \* history: how often the device ran each operation
    drained,    \* history: operations a removal failed while they waited
    faults

consoleVars == <<live, serve, sending, queue, pending>>
callVars == <<call, on, accepted, answer>>
deviceVars == <<link, task, ran>>
wireVars == <<broken, down, up>>
vars == <<registered, removal, consoleVars, callVars, wireVars, deviceVars,
          drained, faults>>

Close == 0
Stopped == MaxSockets + 1

Waiting == {"waiting", "claimed", "queued", "sent"}
\* RequestError, with the outcomes of the proxy around it.
Outcome == {"replied", "offline", "disconnected", "busy", "timeout",
            "unknown_device"}
\* The failures that reach the client as 503 with retry_after_ms.
Retryable == {"offline", "busy"}
Stages == {"unused", "admitted"} \cup Waiting \cup Outcome

TypeOK ==
    /\ registered \in BOOLEAN
    /\ removal \in {"none", "unregistered", "done"}
    /\ live \in Socket \cup {None}
    /\ serve \in [Socket -> {"unused", "upgrading", "serving", "parting",
                             "closing", "clearing", "ended"}]
    /\ sending \in [Socket -> Call \cup {None}]
    /\ queue \in [Socket -> Seq(Call \cup {Close})]
    /\ \A s \in Socket : Len(queue[s]) <= Capacity
    /\ pending \in [Socket -> SUBSET Call]
    /\ call \in [Call -> Stages]
    /\ on \in [Call -> Socket \cup {None}]
    /\ accepted \in [Call -> {"none", "ok", "offline", "timeout", "gone"}]
    /\ answer \in [Call -> {"none", "reply", "offline", "gone"}]
    /\ broken \in [Socket -> BOOLEAN]
    /\ down \in [Socket -> SUBSET Call]
    /\ up \in [Socket -> SUBSET Call]
    /\ link \in Socket \cup {None, Stopped}
    /\ task \in [Call -> {"none", "parked", "done"}]
    /\ ran \in [Op -> Nat]
    /\ drained \subseteq Op
    /\ faults \in 0 .. MaxFaults

Init ==
    /\ registered = TRUE
    /\ removal = "none"
    /\ live = None
    /\ serve = [s \in Socket |-> "unused"]
    /\ sending = [s \in Socket |-> None]
    /\ queue = [s \in Socket |-> <<>>]
    /\ pending = [s \in Socket |-> {}]
    /\ call = [i \in Call |-> "unused"]
    /\ on = [i \in Call |-> None]
    /\ accepted = [i \in Call |-> "none"]
    /\ answer = [i \in Call |-> "none"]
    /\ broken = [s \in Socket |-> FALSE]
    /\ down = [s \in Socket |-> {}]
    /\ up = [s \in Socket |-> {}]
    /\ link = None
    /\ task = [i \in Call |-> "none"]
    /\ ran = [o \in Op |-> 0]
    /\ drained = {}
    /\ faults = 0

-----------------------------------------------------------------------------
(* The call: request_within and the handlers around it.                    *)

\* The guards of request_within release the slot and take the waiter back; the
\* receiving ends of what it waited for go with it.
Finish(i, outcome) ==
    /\ call' = [call EXCEPT ![i] = outcome]
    /\ pending' = [s \in Socket |-> pending[s] \ {i}]
    /\ accepted' = [accepted EXCEPT ![i] = "none"]
    /\ answer' = [answer EXCEPT ![i] = "none"]

\* The client starts an operation, or repeats one that was safe to repeat.
MayStart(i) ==
    /\ call[i] = "unused"
    /\ \A j \in 1 .. (i - 1) : /\ call[j] # "unused"
                               /\ OpOf[j] = OpOf[i] => call[j] \in Retryable

\* ensure_registered; the body is read before the call goes further.
Admit(i) ==
    /\ MayStart(i)
    /\ call' = [call EXCEPT ![i] = IF registered THEN "admitted"
                                                 ELSE "unknown_device"]
    /\ UNCHANGED <<registered, removal, consoleVars, on, accepted, answer,
                   wireVars, deviceVars, drained, faults>>

\* wait_for_channel inserts the waiter while it holds the registry.
ClaimLive(i) ==
    /\ call' = [call EXCEPT ![i] = "claimed"]
    /\ on' = [on EXCEPT ![i] = live]
    /\ pending' = [pending EXCEPT ![live] = @ \cup {i}]

\* InFlight::begin, and the first look for a channel.  Calls outside the model
\* (other operations of other clients) may hold every slot of the device.
Begin(i) ==
    /\ call[i] = "admitted"
    /\ \/ /\ call' = [call EXCEPT ![i] = "busy"]
          /\ UNCHANGED <<on, pending>>
       \/ /\ live # None
          /\ ClaimLive(i)
       \/ /\ live = None
          /\ call' = [call EXCEPT ![i] = "waiting"]
          /\ UNCHANGED <<on, pending>>
    /\ UNCHANGED <<registered, removal, live, serve, sending, queue, 
                   accepted, answer, wireVars, deviceVars, drained, faults>>

\* A channel opened inside RECONNECT_WAIT.
Claim(i) ==
    /\ call[i] = "waiting"
    /\ live # None
    /\ ClaimLive(i)
    /\ UNCHANGED <<registered, removal, live, serve, sending, queue, 
                   accepted, answer, wireVars, deviceVars, drained, faults>>

\* RECONNECT_WAIT passed; a channel that opens at that moment is not looked at.
NoChannel(i) ==
    /\ call[i] = "waiting"
    /\ Finish(i, "offline")
    /\ UNCHANGED <<registered, removal, live, serve, sending, queue, on, wireVars,
                   deviceVars, drained, faults>>

\* try_send: the receiver may be gone, or the queue full.
Enqueue(i) ==
    /\ call[i] = "claimed"
    /\ LET s == on[i] IN
       IF serve[s] = "ended"
       THEN Finish(i, "offline") /\ UNCHANGED queue
       ELSE IF Len(queue[s]) >= Capacity
       THEN Finish(i, "busy") /\ UNCHANGED queue
       ELSE /\ call' = [call EXCEPT ![i] = "queued"]
            /\ queue' = [queue EXCEPT ![s] = Append(@, i)]
            /\ UNCHANGED <<pending, accepted, answer>>
    /\ UNCHANGED <<registered, removal, live, serve, sending, on, wireVars,
                   deviceVars, drained, faults>>

\* What the serving task said of the frame.
AcceptedOutcome(i) ==
    CASE accepted[i] = "offline" -> "offline"
      [] accepted[i] = "timeout" -> "timeout"
      [] OTHER                   -> "disconnected"

Accepted(i) ==
    /\ call[i] = "queued"
    /\ accepted[i] # "none"
    /\ IF accepted[i] = "ok"
       THEN /\ call' = [call EXCEPT ![i] = "sent"]
            /\ UNCHANGED <<pending, accepted, answer>>
       ELSE Finish(i, AcceptedOutcome(i))
    /\ UNCHANGED <<registered, removal, live, serve, sending, queue, on, wireVars,
                   deviceVars, drained, faults>>

\* A dropped waiter is a retry the client must not make.
DroppedIsOffline(i) ==
    IF answer[i] = "reply" THEN "replied" ELSE "offline"

\* What the waiter received once the frame was accepted.
AnswerOutcome(i) ==
    CASE answer[i] = "reply"   -> "replied"
      [] answer[i] = "offline" -> "offline"
      [] OTHER                 -> "disconnected"

Answered(i) ==
    /\ call[i] = "sent"
    /\ answer[i] # "none"
    /\ Finish(i, AnswerOutcome(i))
    /\ UNCHANGED <<registered, removal, live, serve, sending, queue, on, wireVars,
                   deviceVars, drained, faults>>

\* SEND_TIMEOUT, the reply bound, the proxy's backstop around them, and a
\* client that hangs up.
TimesOut(i) ==
    /\ call[i] \in {"waiting", "queued", "sent"}
    /\ Finish(i, "timeout")
    /\ UNCHANGED <<registered, removal, live, serve, sending, queue, on, wireVars,
                   deviceVars, drained, faults>>

-----------------------------------------------------------------------------
(* The console's serving task of a socket.                                 *)

\* The frame's own channel, while the call still listens to it.
Accept(i, what) ==
    [accepted EXCEPT ![i] = IF call[i] = "queued" THEN what ELSE @]

\* Waiters that have no answer yet, when their senders go away or are told.
Told(calls, what) ==
    [i \in Call |-> IF i \in calls /\ answer[i] = "none" THEN what ELSE answer[i]]

\* try_send of Close: a full queue is left alone.
AskClose(s, q) ==
    IF Len(q[s]) < Capacity THEN [q EXCEPT ![s] = Append(@, Close)] ELSE q

\* open: the socket becomes the live one and its predecessor is failed.
Open(s) ==
    /\ serve[s] = "upgrading"
    /\ serve' = [serve EXCEPT ![s] = "serving"]
    /\ live' = s
    /\ IF live = None
       THEN UNCHANGED <<answer, pending, queue>>
       ELSE /\ answer' = Told(pending[live], "gone")
            /\ pending' = [pending EXCEPT ![live] = {}]
            /\ queue' = IF serve[live] = "ended" THEN queue ELSE AskClose(live, queue)
    /\ UNCHANGED <<registered, removal, sending, call, on, accepted,
                   wireVars, deviceVars, drained, faults>>

\* The upgrade never completes on a socket that is already gone.
UpgradeFails(s) ==
    /\ serve[s] = "upgrading"
    /\ broken[s]
    /\ serve' = [serve EXCEPT ![s] = "ended"]
    /\ UNCHANGED <<registered, removal, live, sending, queue, pending, callVars,
                   wireVars, deviceVars, drained, faults>>

\* The next command: a call that already gave up is not written late.
TakeCommand(s) ==
    /\ serve[s] = "serving" /\ sending[s] = None
    /\ queue[s] # <<>>
    /\ queue' = [queue EXCEPT ![s] = Tail(@)]
    /\ LET c == Head(queue[s]) IN
       \/ /\ c = Close
          /\ serve' = [serve EXCEPT ![s] = "parting"]
          /\ UNCHANGED <<sending, accepted>>
       \/ /\ c # Close /\ c \notin pending[s]
          /\ accepted' = Accept(c, "timeout")
          /\ UNCHANGED <<serve, sending>>
       \/ /\ c # Close /\ c \in pending[s]
          /\ sending' = [sending EXCEPT ![s] = c]
          /\ UNCHANGED <<serve, accepted>>
    /\ UNCHANGED <<registered, removal, live, pending, call, on, answer,
                   wireVars, deviceVars, drained, faults>>

\* The close frame is written, for which the task waits as long as it takes, or
\* cannot be.  The device reads it, if it reaches it, before this task is done.
Parts(s) ==
    /\ serve[s] = "parting"
    /\ serve' = [serve EXCEPT ![s] = "closing"]
    /\ broken' = [broken EXCEPT ![s] = TRUE]
    /\ UNCHANGED <<registered, removal, live, sending, queue, pending, callVars,
                   down, up, deviceVars, drained, faults>>

\* The task goes on reading its socket when no command can come any more.
NoSenderWaits(s) ==
    /\ serve[s] = "serving" /\ sending[s] = None
    /\ queue[s] = <<>> /\ live # s /\ broken[s]
    /\ serve' = [serve EXCEPT ![s] = "closing"]
    /\ UNCHANGED <<registered, removal, live, sending, queue, pending, callVars,
                   wireVars, deviceVars, drained, faults>>

\* Nobody holds the sending half any more.
NoSender(s) ==
    /\ serve[s] = "serving" /\ sending[s] = None
    /\ queue[s] = <<>>
    /\ live # s
    /\ \A i \in Call : on[i] = s => call[i] \notin {"claimed", "queued", "sent"}
    /\ serve' = [serve EXCEPT ![s] = "closing"]
    /\ UNCHANGED <<registered, removal, live, sending, queue, pending, callVars,
                   wireVars, deviceVars, drained, faults>>

\* The socket takes the frame.  On a broken one the bytes go nowhere, or the
\* write fails.
Written(s) ==
    /\ sending[s] # None
    /\ sending' = [sending EXCEPT ![s] = None]
    /\ LET i == sending[s] IN
       \/ /\ accepted' = Accept(i, "ok")
          /\ down' = IF broken[s] THEN down ELSE [down EXCEPT ![s] = @ \cup {i}]
          /\ UNCHANGED serve
       \/ /\ broken[s]
          /\ accepted' = Accept(i, "offline")
          /\ serve' = [serve EXCEPT ![s] = "closing"]
          /\ UNCHANGED down
    /\ UNCHANGED <<registered, removal, live, queue, pending, call, on,
                   answer, broken, up, deviceVars, drained, faults>>

\* The socket accepts nothing for the whole bound; what had been handed to
\* the transport may still arrive.
Wedged(s) ==
    /\ sending[s] # None
    /\ faults < MaxFaults
    /\ faults' = faults + 1
    /\ sending' = [sending EXCEPT ![s] = None]
    /\ accepted' = Accept(sending[s], "timeout")
    /\ \/ UNCHANGED down
       \/ ~broken[s] /\ down' = [down EXCEPT ![s] = @ \cup {sending[s]}]
    /\ serve' = [serve EXCEPT ![s] = "closing"]
    /\ UNCHANGED <<registered, removal, live, queue, pending, call, on,
                   answer, broken, up, deviceVars, drained>>

\* deliver: an answer goes to the waiter of its id, or nowhere.
Deliver(s) ==
    /\ serve[s] = "serving" /\ sending[s] = None
    /\ \E i \in up[s] :
        /\ up' = [up EXCEPT ![s] = @ \ {i}]
        /\ answer' = Told({i} \cap pending[s], "reply")
        /\ pending' = [pending EXCEPT ![s] = @ \ {i}]
    /\ UNCHANGED <<registered, removal, live, serve, sending, queue, call, 
                   on, accepted, broken, down, deviceVars, drained, faults>>

\* A read that ends: the device closed the socket, or its loss was noticed.
ReadEnds(s) ==
    /\ serve[s] = "serving" /\ sending[s] = None
    /\ broken[s]
    /\ serve' = [serve EXCEPT ![s] = "closing"]
    /\ UNCHANGED <<registered, removal, live, sending, queue, pending, callVars,
                   wireVars, deviceVars, drained, faults>>

\* close: forget the channel if it is still the one this task opened.
CloseChannel(s) ==
    /\ serve[s] = "closing"
    /\ live' = IF live = s THEN None ELSE live
    /\ serve' = [serve EXCEPT ![s] = "clearing"]
    /\ UNCHANGED <<registered, removal, sending, queue, pending, callVars,
                   wireVars, deviceVars, drained, faults>>

\* Only the caller of the frame in hand is told that the channel is gone.
ClearMissesOwn(s) ==
    /\ serve[s] = "clearing"
    /\ accepted' = [i \in Call |->
           IF call[i] = "queued" /\ \E k \in DOMAIN queue[s] : queue[s][k] = i
           THEN "gone" ELSE accepted[i]]
    /\ queue' = [queue EXCEPT ![s] = <<>>]
    /\ serve' = [serve EXCEPT ![s] = "ended"]
    /\ broken' = [broken EXCEPT ![s] = TRUE]
    /\ up' = [up EXCEPT ![s] = {}]
    /\ UNCHANGED <<registered, removal, live, sending, pending, call, on, answer,
                   down, deviceVars, drained, faults>>

\* The pending set is emptied only after the channel left the registry; with
\* the task goes the receiving half, and every frame still in it.
ClearPending(s) ==
    /\ serve[s] = "clearing"
    /\ answer' = Told(pending[s], "gone")
    /\ pending' = [pending EXCEPT ![s] = {}]
    /\ accepted' = [i \in Call |->
           IF call[i] = "queued" /\ \E k \in DOMAIN queue[s] : queue[s][k] = i
           THEN "gone" ELSE accepted[i]]
    /\ queue' = [queue EXCEPT ![s] = <<>>]
    /\ serve' = [serve EXCEPT ![s] = "ended"]
    /\ broken' = [broken EXCEPT ![s] = TRUE]
    /\ up' = [up EXCEPT ![s] = {}]
    /\ UNCHANGED <<registered, removal, live, sending, call, on, down,
                   deviceVars, drained, faults>>

-----------------------------------------------------------------------------
(* The removal of the device, and its return.                              *)

Unregister ==
    /\ registered /\ removal # "unregistered"
    /\ faults < MaxFaults
    /\ faults' = faults + 1
    /\ registered' = FALSE
    /\ removal' = "unregistered"
    /\ UNCHANGED <<consoleVars, callVars, wireVars, deviceVars, drained>>

\* disconnect: the live channel leaves the registry and its waiters are told.
Disconnect ==
    /\ removal = "unregistered"
    /\ removal' = IF registered THEN "none" ELSE "done"
    /\ live' = None
    /\ IF live = None
       THEN UNCHANGED <<answer, pending, queue, drained>>
       ELSE /\ queue' = IF serve[live] = "ended" THEN queue ELSE AskClose(live, queue)
            /\ answer' = Told(pending[live], "offline")
            /\ drained' = drained \cup {OpOf[i] : i \in pending[live]}
            /\ pending' = [pending EXCEPT ![live] = {}]
    /\ UNCHANGED <<registered, serve, sending, call, on, accepted, wireVars,
                   deviceVars, faults>>

-----------------------------------------------------------------------------
(* The device.                                                             *)

\* connect: the console authorizes the handshake and upgrades it later; a
\* refusal ends the link for the life of the process.
Dial ==
    /\ link = None
    /\ IF registered
       THEN \E s \in Socket :
             /\ serve[s] = "unused"
             /\ \A t \in 1 .. (s - 1) : serve[t] # "unused"
             /\ serve' = [serve EXCEPT ![s] = "upgrading"]
             /\ link' = s
       ELSE link' = Stopped /\ UNCHANGED serve
    /\ UNCHANGED <<registered, removal, live, sending, queue, pending, callVars,
                   wireVars, task, ran, drained, faults>>

\* The loop ends on a close, or on a read or a host report that fails; the
\* frames it had not read go with the socket.
Leave ==
    /\ link \in Socket
    /\ broken[link]
    /\ link' = None
    /\ down' = [down EXCEPT ![link] = {}]
    /\ UNCHANGED <<registered, removal, consoleVars, callVars, broken, up, task,
                   ran, drained, faults>>

\* A frame gets a task of its own, which waits for a permit.
Receive(i) ==
    /\ link \in Socket
    /\ i \in down[link]
    /\ down' = [down EXCEPT ![link] = @ \ {i}]
    /\ task' = [task EXCEPT ![i] = "parked"]
    /\ UNCHANGED <<registered, removal, consoleVars, callVars, broken, up, link,
                   ran, drained, faults>>

\* The task runs the frame, its socket open or not; the answer goes to the
\* loop of that socket, if it is still there.
Run(i) ==
    /\ task[i] = "parked"
    /\ task' = [task EXCEPT ![i] = "done"]
    /\ ran' = [ran EXCEPT ![OpOf[i]] = @ + 1]
    /\ up' = IF link = on[i] /\ ~broken[link]
             THEN [up EXCEPT ![link] = @ \cup {i}] ELSE up
    /\ UNCHANGED <<registered, removal, consoleVars, callVars, broken, down, link,
                   drained, faults>>

\* The process ends: its sockets break and its tasks are no more.
ProcessEnds ==
    /\ link' = None
    /\ broken' = [s \in Socket |-> broken[s] \/ serve[s] # "unused"]
    /\ down' = [s \in Socket |-> {}]
    /\ up' = [s \in Socket |-> {}]
    /\ task' = [i \in Call |-> IF task[i] = "none" THEN "none" ELSE "done"]
    /\ UNCHANGED ran

Restart ==
    /\ faults < MaxFaults
    /\ faults' = faults + 1
    /\ ProcessEnds
    /\ UNCHANGED <<registered, removal, consoleVars, callVars, drained>>

\* The operator enrols the device again and starts it.
Reenroll ==
    /\ ~registered
    /\ registered' = TRUE
    /\ removal' = IF removal = "done" THEN "none" ELSE removal
    /\ ProcessEnds
    /\ UNCHANGED <<consoleVars, callVars, drained, faults>>

\* The network drops a socket and what travels on it.
Break(s) ==
    /\ serve[s] \notin {"unused", "ended"} /\ ~broken[s]
    /\ faults < MaxFaults
    /\ faults' = faults + 1
    /\ broken' = [broken EXCEPT ![s] = TRUE]
    /\ down' = [down EXCEPT ![s] = {}]
    /\ up' = [up EXCEPT ![s] = {}]
    /\ UNCHANGED <<registered, removal, consoleVars, callVars, deviceVars, drained>>

-----------------------------------------------------------------------------
CallStep(i) == Begin(i) \/ Claim(i) \/ Enqueue(i) \/ Accepted(i) \/ Answered(i)
\* A socket whose loss nobody noticed stays as it is until something is written;
\* nothing bounds the writing of a close frame.
ServeStep(s) == \/ Open(s) \/ UpgradeFails(s) \/ TakeCommand(s) \/ NoSender(s)
                \/ Written(s) \/ Deliver(s) \/ CloseChannel(s) \/ ClearPending(s)
DeviceStep == \/ Dial \/ Leave
              \/ \E i \in Call : Receive(i) \/ Run(i)
Fault == \/ Unregister \/ Restart
         \/ \E s \in Socket : Wedged(s) \/ Break(s)

Next == \/ \E i \in Call : Admit(i) \/ NoChannel(i) \/ TimesOut(i) \/ CallStep(i)
        \/ \E s \in Socket : ServeStep(s) \/ Parts(s) \/ ReadEnds(s)
        \/ DeviceStep
        \/ Disconnect
        \/ Reenroll
        \/ Fault

Spec == Init /\ [][Next]_vars

(* The runtimes poll every task that can move.  Nothing obliges a client   *)
(* to call, a timer to fire first, an operator to act, a console to notice *)
(* a silent socket or a socket that is gone to take a close frame.         *)
FairSpec == /\ Spec
            /\ \A i \in Call : WF_vars(CallStep(i))
            /\ \A s \in Socket : /\ WF_vars(ServeStep(s))
                                 /\ WF_vars(~broken[s] /\ Parts(s))
            /\ WF_vars(DeviceStep)
            /\ WF_vars(Disconnect)

-----------------------------------------------------------------------------
\* What a client knows of its call.
Known(c) ==
    CASE c = "unused"                         -> "unused"
      [] c \in {"admitted"} \cup Waiting      -> "open"
      [] c \in Retryable                      -> "retry"
      [] c = "replied"                        -> "replied"
      [] OTHER                                -> "failed"

Promise == INSTANCE CallPromise
             WITH told <- [i \in Call |-> Known(call[i])],
                  removing <- removal = "unregistered",
                  spared <- drained

\* Whatever breaks, wedges, restarts or is replaced in between, the channel
\* keeps what CallPromise says of each operation: a reply is the device's own, a
\* call that may be repeated has not run and will not, and no operation runs
\* twice, for those a removal did not find waiting.
ImplementsCallPromise == Promise!Spec

\* The part of that promise a client relies on: one that repeats a call only when
\* told that nothing was written never has the device do the same thing twice.
\* In no run, for ImplementsCallPromise says more; proved on its own.
RunsAtMostOnce == \A o \in Op : ran[o] <= 1 \/ o \in drained

\* A call that waits for an answer has its waiter where somebody will find it:
\* on a socket whose task has not ended.  Were a waiter left behind on a dead
\* socket, the call would hang for the whole reply bound.
NoOrphanWaiter ==
    \A i \in Call :
        (call[i] \in {"claimed", "queued", "sent"} /\ answer[i] = "none")
            => i \in pending[on[i]] /\ serve[on[i]] # "ended"

\* However often device and console replace, close or lose their sockets, at most
\* one is open at both ends, and that one the device serves and a task of the
\* console has not left: no half-open link on which each waits for the other.  In
\* no run: proved, and what LinkHeals rests on.
OneOpenSocket ==
    \A s \in Socket : serve[s] # "unused" /\ ~broken[s] => link = s /\ serve[s] # "ended"

\* A device that stays registered comes back by itself: however its sockets
\* broke, closed or were replaced, the socket it serves ends up the live one (as
\* long as the model has a socket left for it to dial).
LinkHeals ==
    <>[](registered /\ \E s \in Socket : serve[s] = "unused")
        => <>[](link # None /\ link = live)

\* The comment on RequestError::Offline and the proxy's 503: nothing was
\* written, so a retry is safe.  In no run: the removal of a device violates it
\* for the calls whose frames were written.
RetryIsSafe ==
    \A i \in Call : call[i] \in Retryable => task[i] = "none"

\* The comment in remove_device: closing the live channel makes the revocation
\* immediate instead of waiting for a disconnect.  In no run: a handshake that
\* was authorized before the removal and upgraded after it violates it.
RemovedIsOffline == removal = "done" => live = None
=============================================================================
