----------------------------- MODULE RelayPairing -----------------------------
(***************************************************************************)
(* The relay floor of the mesh: one task per accepted connection, one      *)
(* table of waiting and active sessions behind a lock, and a one-shot      *)
(* channel through which a second client's socket travels to the task of   *)
(* the first.                                                              *)
(*                                                                         *)
(* A waiter's task ends its wait on a partner, on its timer, or when its   *)
(* client leaves or speaks out of turn, and only then looks at the table:  *)
(* a partner may have taken its slot meanwhile, and the partner's task is  *)
(* still on its way to hand over its socket.  Every step of a task that    *)
(* ends at an await is an action, so two tasks meet at each of them.       *)
(*                                                                         *)
(* The token of a slot is its client.  Frames are not modelled: a splice   *)
(* may end at any time, on a frame that is not one or on a client that     *)
(* goes.  A client whose network is cut without a word is one that stays:  *)
(* the relay has neither an idle timeout nor a keepalive.                  *)
(*                                                                         *)
(* ClaimsUnchecked, ExpiresByName, LeavesClaim and ExpiresIfLeft are       *)
(* faulty variants: each breaks a property below.                          *)
(***************************************************************************)
EXTENDS Naturals, FiniteSets

CONSTANTS
    MaxClients, \* connections
    Session,    \* session ids
    Capacity,   \* pairs: the permits
    Impatient,  \* the clients that may send data before they are acknowledged
    NoSession   \* the session of a client that has not asked

ASSUME BoundAssumption == MaxClients \in Nat /\ Capacity \in Nat
ASSUME SessionAssumption == NoSession \notin Session

Client == 1 .. MaxClients   \* numbered as they connect
None == 0

VARIABLES
    task,       \* where the task of each connection is in handle_client
    open,       \* sockets that neither end has closed, as far as the relay knows
    early,      \* waiters whose clients sent data, unread, and stay
    asked,      \* the session each one asked for
    told,       \* what the relay answered it, "ended" once its socket is closed
    late,       \* waiters whose slot is older than the pair timeout
    mate,       \* the waiter whose slot a second client took
    parcel,     \* the socket that was sent to a waiter
    cut,        \* waiters whose sender was dropped
    waiting,    \* RelayState.waiting: who waits for each session
    active,     \* RelayState.active
    swept       \* history: sessions of which a sweep dropped a slot

tableVars == <<waiting, active, swept>>
channelVars == <<mate, parcel, cut>>
vars == <<task, open, asked, told, late, early, channelVars, tableVars>>

Waits == {"waiting", "expired", "left", "receiving", "draining"}
Joins == {"joined", "answered", "splicing"}

TypeOK ==
    /\ task \in [Client -> {"absent", "reading", "sending", "releasing", "given", "ended"}
                           \cup Waits \cup Joins]
    /\ open \subseteq Client /\ early \subseteq Client
    /\ asked \in [Client -> Session \cup {NoSession}]
    /\ told \in [Client -> {"nothing", "ok", "busy", "bad", "timeout", "ended"}]
    /\ late \subseteq Client
    /\ mate \in [Client -> Client \cup {None}]
    /\ parcel \in [Client -> Client \cup {None}]
    /\ cut \subseteq Client
    /\ waiting \in [Session -> Client \cup {None}]
    /\ active \subseteq Session
    /\ swept \subseteq Session

Init ==
    /\ task = [c \in Client |-> "absent"]
    /\ open = {} /\ early = {}
    /\ asked = [c \in Client |-> NoSession]
    /\ told = [c \in Client |-> "nothing"]
    /\ late = {}
    /\ mate = [c \in Client |-> None]
    /\ parcel = [c \in Client |-> None]
    /\ cut = {}
    /\ waiting = [s \in Session |-> None]
    /\ active = {} /\ swept = {}

-----------------------------------------------------------------------------
(* A permit is the task's, not the socket's: a second client's task ends   *)
(* when its socket was handed over.                                        *)
Permits == {c \in Client : task[c] \notin {"absent", "given", "ended"}}

Ends(c, answer) ==
    /\ task' = [task EXCEPT ![c] = "ended"]
    /\ told' = [told EXCEPT ![c] = answer]
    /\ open' = open \ {c}
    /\ late' = late \ {c}
    /\ early' = early \ {c}

\* run: the permit is taken before the socket is read, and a connection that
\* finds none is closed.
Connects(c) ==
    /\ task[c] = "absent"
    /\ \A b \in 1 .. (c - 1) : task[b] # "absent"
    /\ IF Cardinality(Permits) < Capacity
       THEN /\ task' = [task EXCEPT ![c] = "reading"]
            /\ open' = open \cup {c}
            /\ UNCHANGED <<told, late, early>>
       ELSE Ends(c, "ended")
    /\ UNCHANGED <<asked, channelVars, tableVars>>

\* A client closes a socket that the relay has not closed, or its machine does
\* when it ends: the relay's end is told.
ClientGoes(c) ==
    /\ c \in open
    /\ open' = open \ {c}
    /\ early' = early \ {c}
    /\ UNCHANGED <<task, asked, told, late, channelVars, tableVars>>

\* A waiting client sends data before it was acknowledged.
Speaks(c) ==
    /\ task[c] = "waiting"
    /\ c \in Impatient \cap open /\ c \notin early
    /\ early' = early \cup {c}
    /\ UNCHANGED <<task, open, asked, told, late, channelVars, tableVars>>

\* The request did not come in time, names no session, or is none.
NoRequest(c) ==
    /\ task[c] = "reading"
    /\ \E answer \in {"timeout", "bad", "ended"} : Ends(c, answer)
    /\ UNCHANGED <<asked, channelVars, tableVars>>

\* sweep_waiting: slots older than the pair timeout; their senders drop.
Stale == {s \in Session : waiting[s] \in late}
Kept == [s \in Session |-> IF s \in Stale THEN None ELSE waiting[s]]

ClaimsUnchecked(c, s) ==
    /\ task[c] = "reading"
    /\ asked' = [asked EXCEPT ![c] = s]
    /\ swept' = swept \cup Stale
    /\ cut' = cut \cup {waiting[t] : t \in Stale}
    /\ \/ /\ Kept[s] # None
          /\ waiting' = [Kept EXCEPT ![s] = None]
          /\ active' = active \cup {s}
          /\ mate' = [mate EXCEPT ![c] = Kept[s]]
          /\ task' = [task EXCEPT ![c] = "sending"]
          /\ UNCHANGED <<told, open, late, early>>
       \/ /\ Kept[s] = None
          /\ waiting' = [Kept EXCEPT ![s] = c]
          /\ task' = [task EXCEPT ![c] = "waiting"]
          /\ UNCHANGED <<active, told, open, late, early, mate>>
    /\ UNCHANGED parcel

\* One look at the table: swept, then busy, paired or waiting.
Claims(c, s) ==
    /\ task[c] = "reading"
    /\ asked' = [asked EXCEPT ![c] = s]
    /\ swept' = swept \cup Stale
    /\ cut' = cut \cup {waiting[t] : t \in Stale}
    /\ \/ /\ s \in active
          /\ waiting' = Kept
          /\ Ends(c, "busy")
          /\ UNCHANGED <<active, mate>>
       \/ /\ s \notin active /\ Kept[s] # None
          /\ waiting' = [Kept EXCEPT ![s] = None]
          /\ active' = active \cup {s}
          /\ mate' = [mate EXCEPT ![c] = Kept[s]]
          /\ task' = [task EXCEPT ![c] = "sending"]
          /\ UNCHANGED <<told, open, late, early>>
       \/ /\ s \notin active /\ Kept[s] = None
          /\ waiting' = [Kept EXCEPT ![s] = c]
          /\ task' = [task EXCEPT ![c] = "waiting"]
          /\ UNCHANGED <<active, told, open, late, early, mate>>
    /\ UNCHANGED parcel

\* The socket travels to the first task; a first task that no longer listens
\* undoes the claim.
Sends(c) ==
    /\ task[c] = "sending"
    /\ IF task[mate[c]] \in Waits
       THEN /\ parcel' = [parcel EXCEPT ![mate[c]] = c]
            /\ task' = [task EXCEPT ![c] = "given"]
            /\ UNCHANGED <<told, open, late, early, active>>
       ELSE /\ active' = active \ {asked[c]}
            /\ Ends(c, "timeout")
            /\ UNCHANGED parcel
    /\ mate' = [mate EXCEPT ![c] = None]
    /\ UNCHANGED <<asked, cut, waiting, swept>>

-----------------------------------------------------------------------------
(* The waiter.                                                             *)

Ages(c) ==
    /\ task[c] = "waiting" /\ c \notin late
    /\ late' = late \cup {c}
    /\ UNCHANGED <<task, open, early, asked, told, channelVars, tableVars>>

Receives(c) ==
    /\ task[c] \in {"waiting", "receiving"}
    /\ parcel[c] # None
    /\ task' = [task EXCEPT ![c] = "joined"]
    /\ late' = late \ {c}
    /\ early' = early \ {c}
    /\ UNCHANGED <<open, asked, told, channelVars, tableVars>>

\* Answered if its timer has not fired yet, closed without an answer if it has.
Unsent(c) ==
    /\ task[c] \in {"waiting", "receiving"}
    /\ c \in cut
    /\ Ends(c, IF task[c] = "waiting" THEN "timeout" ELSE "ended")
    /\ UNCHANGED <<asked, channelVars, tableVars>>

\* peek: the client is gone, or has sent what it may not send yet.
Notices(c) ==
    /\ task[c] = "waiting"
    /\ c \notin open \ early
    /\ task' = [task EXCEPT ![c] = "left"]
    /\ UNCHANGED <<open, asked, told, late, early, channelVars, tableVars>>

ExpiresIfLeft(c) ==
    /\ task[c] = "waiting"
    /\ c \in late /\ c \notin open \ early
    /\ parcel[c] = None /\ c \notin cut
    /\ task' = [task EXCEPT ![c] = "expired"]
    /\ UNCHANGED <<open, asked, told, late, early, channelVars, tableVars>>

\* The timer is looked at after the channel and the socket.
Expires(c) ==
    /\ task[c] = "waiting"
    /\ c \in late /\ c \in open \ early
    /\ parcel[c] = None /\ c \notin cut
    /\ task' = [task EXCEPT ![c] = "expired"]
    /\ UNCHANGED <<open, asked, told, late, early, channelVars, tableVars>>

ExpiresByName(c) ==
    /\ task[c] \in {"expired", "left"}
    /\ IF waiting[asked[c]] # None
       THEN /\ waiting' = [waiting EXCEPT ![asked[c]] = None]
            /\ cut' = cut \cup {waiting[asked[c]]}
            /\ Ends(c, "timeout")
       ELSE /\ task' = [task EXCEPT ![c] = IF @ = "expired" THEN "receiving" ELSE "draining"]
            /\ UNCHANGED <<waiting, told, open, late, early, cut>>
    /\ UNCHANGED <<asked, mate, parcel, active, swept>>

\* remove_if_ours.
LooksBack(c) ==
    /\ task[c] \in {"expired", "left"}
    /\ IF waiting[asked[c]] = c
       THEN /\ waiting' = [waiting EXCEPT ![asked[c]] = None]
            /\ Ends(c, "timeout")
       ELSE /\ task' = [task EXCEPT ![c] = IF @ = "expired" THEN "receiving" ELSE "draining"]
            /\ UNCHANGED <<waiting, told, open, late, early>>
    /\ UNCHANGED <<asked, channelVars, active, swept>>

\* Both sockets are dropped.
Closes(c) ==
    /\ told' = [d \in Client |-> IF d \in {c, parcel[c]} THEN "ended" ELSE told[d]]
    /\ open' = open \ {c, parcel[c]}
    /\ late' = late \ {c}
    /\ early' = early \ {c}

LeavesClaim(c) ==
    /\ task[c] = "draining"
    /\ parcel[c] # None \/ c \in cut
    /\ task' = [task EXCEPT ![c] = "ended"]
    /\ Closes(c)
    /\ UNCHANGED <<asked, channelVars, tableVars>>

\* The wait was given up and a partner had taken the slot: the partner's socket
\* is taken and dropped.
Drains(c) ==
    /\ task[c] = "draining"
    /\ parcel[c] # None \/ c \in cut
    /\ task' = [task EXCEPT ![c] = "releasing"]
    /\ Closes(c)
    /\ UNCHANGED <<asked, channelVars, tableVars>>

-----------------------------------------------------------------------------
(* pair_and_splice.                                                        *)

\* An answer to a client that is gone may fail, which closes the other one.
Acknowledges(c, d, next) ==
    \/ /\ told' = [told EXCEPT ![d] = "ok"]
       /\ task' = [task EXCEPT ![c] = next]
       /\ UNCHANGED <<open, late, early>>
    \/ /\ d \notin open
       /\ Closes(c)
       /\ task' = [task EXCEPT ![c] = "releasing"]

AcknowledgesFirst(c) ==
    /\ task[c] = "joined"
    /\ Acknowledges(c, c, "answered")
    /\ UNCHANGED <<asked, channelVars, tableVars>>

AcknowledgesSecond(c) ==
    /\ task[c] = "answered"
    /\ Acknowledges(c, parcel[c], "splicing")
    /\ UNCHANGED <<asked, channelVars, tableVars>>

\* Whichever direction ends first, with its reader, its writer or a frame that is
\* cut short or too long, ends both.
SpliceEnds(c) ==
    /\ task[c] = "splicing"
    /\ Closes(c)
    /\ task' = [task EXCEPT ![c] = "releasing"]
    /\ UNCHANGED <<asked, channelVars, tableVars>>

Releases(c) ==
    /\ task[c] = "releasing"
    /\ active' = active \ {asked[c]}
    /\ task' = [task EXCEPT ![c] = "ended"]
    /\ parcel' = [parcel EXCEPT ![c] = None]
    /\ UNCHANGED <<open, asked, told, late, early, mate, cut, waiting, swept>>

-----------------------------------------------------------------------------
TaskStep(c) == \/ NoRequest(c) \/ \E s \in Session : Claims(c, s)
               \/ Sends(c) \/ Receives(c) \/ Unsent(c) \/ Notices(c) \/ Expires(c)
               \/ LooksBack(c) \/ Drains(c)
               \/ AcknowledgesFirst(c) \/ AcknowledgesSecond(c)
               \/ Releases(c)

Next == \E c \in Client : \/ Connects(c) \/ ClientGoes(c) \/ Speaks(c) \/ Ages(c)
                         \/ TaskStep(c) \/ SpliceEnds(c)

Spec == Init /\ [][Next]_vars

(* Tasks run and timers fire; nothing obliges a client to connect, to ask, *)
(* to speak or to leave.  A splice ends when both its clients are gone: of *)
(* one alone nothing may be read for as long as the other takes no more,   *)
(* and no timer ends it.                                                   *)
BothGone(c) == {c, parcel[c]} \cap open = {}
FairSpec == /\ Spec
            /\ \A c \in Client :
                  /\ WF_vars(TaskStep(c) \/ (BothGone(c) /\ SpliceEnds(c)))
                  /\ WF_vars(Ages(c))

-----------------------------------------------------------------------------
Joined(s) == {c \in Client : task[c] \in Joins /\ asked[c] = s}

\* A pair is made when the second client takes the slot of the first and lasts
\* until the claim is released.
pairs == {p \in Client \X Client : parcel[p[1]] = p[2] \/ mate[p[2]] = p[1]}

Meeting == INSTANCE Rendezvous WITH spoiled <- swept

\* Through every crossing of timers, departures and claims the relay is a
\* rendezvous: who is told ok has a partner under the same session, a pair starts
\* and ends together, and a session that has one refuses everybody else; except
\* where a sweep dropped the slot of a waiter that had not noticed its timeout.
ImplementsRendezvous == Meeting!Spec

\* One pair at a time owns a session, and no other client is let in meanwhile,
\* whatever timers and departures cross a partner's claim; except when a sweep
\* dropped the slot of a waiter that had not noticed its own timeout yet.  In no
\* run, for ImplementsRendezvous says more; proved on its own.
OnePairAtATime ==
    \A s \in Session \ swept :
        /\ Cardinality(Joined(s)) <= 1
        /\ Joined(s) # {} => s \in active /\ waiting[s] = None

\* A client that keeps its socket open, and keeps silent until it is acknowledged,
\* is told that the pairing timed out only if it was late itself: nobody else's
\* timeout or departure takes its slot.  One that speaks before gives it up: "a
\* client that does not speak the protocol" (relay.rs:459).
TimeoutIsOwn ==
    [][\A c \in open \ early :
          told'[c] = "timeout" /\ asked[c] # NoSession => c \in late]_vars

\* A client that was told ok, and has its socket still open at the relay, has a
\* partner under the same session.  In no run, for ImplementsRendezvous says as
\* much of pairs; proved on its own, with the task that splices them.
OkHasPartner ==
    \A c \in Client : told[c] = "ok" =>
        \E d \in Client \ {c} : /\ asked[d] = asked[c]
                                /\ \/ task[c] \in Joins /\ parcel[c] = d
                                   \/ task[d] \in Joins /\ parcel[d] = c

\* A task that waits does not wait in vain: its slot is in the table, where a
\* partner or a sweep finds it, or its partner's socket is on its way, there, or
\* known not to come.  One that looked back and found its slot gone has nothing
\* but the latter to rely on, as it waits without a timer.  In no run: proved,
\* and what EveryoneIsAnswered rests on.
SocketComes(c) == \/ parcel[c] # None \/ c \in cut
                  \/ \E d \in Client : task[d] = "sending" /\ mate[d] = c
NobodyWaitsInVain ==
    \A c \in Client :
        /\ task[c] \in {"waiting", "expired", "left"} => waiting[asked[c]] = c \/ SocketComes(c)
        /\ task[c] \in {"receiving", "draining"} => SocketComes(c)

\* Every client that stays is answered or closed, however its wait ends.
EveryoneIsAnswered ==
    \A c \in Client : task[c] # "absent" ~> (told[c] # "nothing" \/ c \notin open)

\* Nobody's end leaves a claim, a slot or a permit behind: a session whose clients
\* have all closed their sockets, or had them closed, is free again, or asked for
\* again.  Two clients that the network cut off silently never close theirs, and
\* keep their claim and their permit.
Free(s) == /\ s \notin active /\ waiting[s] = None
           /\ \A c \in Permits : asked[c] # s
SessionIsReleased ==
    \A s \in Session :
        (\A c \in Client : asked[c] = s => c \notin open)
            ~> (Free(s) \/ \E c \in Client : asked[c] = s /\ c \in open)

\* What SessionIsReleased rests on: the table holds no claim and no slot that no
\* task will take out again.  In no run: proved.
TablesHaveOwners ==
    \A s \in Session :
        /\ s \in active => \E c \in Permits :
               /\ asked[c] = s
               /\ task[c] \in Joins \cup {"sending", "releasing"} \/ parcel[c] # None
        /\ waiting[s] # None => waiting[s] \in Permits /\ asked[waiting[s]] = s

\* The module's protocol: a session already in use is refused.  In no run: a
\* waiter that left and whose slot was swept releases a later pair's claim.
InUseIsBusy == \A s \in Session : Joined(s) # {} => s \in active
=============================================================================
