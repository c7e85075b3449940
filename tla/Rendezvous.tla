------------------------------ MODULE Rendezvous ------------------------------
(***************************************************************************)
(* What the relay promises two machines that meet under a session, without *)
(* tasks, tables, timers or sockets: a client that is told ok has a        *)
(* partner that asked for the same session, a session holds one pair at a  *)
(* time, nobody is refused unless there is one, and a pair ends together.  *)
(*                                                                         *)
(* Spoiled is the exception that the sweep of the waiting table leaves     *)
(* open: a session of which it dropped a slot may hold a second pair, and  *)
(* may keep a client waiting beside a pair.                                *)
(***************************************************************************)
CONSTANTS Client, Session, NoSession

VARIABLES
    asked,      \* the session each client asked for
    told,       \* what it was answered, "ended" once it is closed
    pairs,      \* who waited, and who came
    spoiled     \* the sessions of which nothing is promised

vars == <<asked, told, pairs, spoiled>>

Members(p) == {p[1], p[2]}
Single(c) == \A p \in pairs : c \notin Members(p)
Holds(s) == \E p \in pairs : asked[p[1]] = s
Waits(c) == asked[c] # NoSession /\ told[c] = "nothing" /\ Single(c)

Init == /\ asked = [c \in Client |-> NoSession]
        /\ told = [c \in Client |-> "nothing"]
        /\ pairs = {}
        /\ spoiled = {}

\* A client asks; a slot that is swept at that moment spoils its session.
Asks(c, s) ==
    /\ asked[c] = NoSession /\ told[c] = "nothing"
    /\ asked' = [asked EXCEPT ![c] = s]
    /\ \E swept \in SUBSET {asked[d] : d \in {e \in Client : Waits(e)}} :
          spoiled' = spoiled \cup swept

Refuse(c, s) ==
    /\ Asks(c, s)
    /\ Holds(s)
    /\ told' = [told EXCEPT ![c] = "busy"]
    /\ UNCHANGED pairs

Stay(c, s) ==
    /\ Asks(c, s)
    /\ Holds(s) => s \in spoiled'
    /\ UNCHANGED <<told, pairs>>

Meet(c, d, s) ==
    /\ Asks(c, s)
    /\ Holds(s) => s \in spoiled'
    /\ Waits(d) /\ asked[d] = s
    /\ pairs' = pairs \cup {<<d, c>>}
    /\ UNCHANGED told

\* The one that waited is answered first.
Acknowledge(p, c) ==
    /\ c \in Members(p) /\ told[c] = "nothing"
    /\ c = p[2] => told[p[1]] = "ok"
    /\ told' = [told EXCEPT ![c] = "ok"]
    /\ UNCHANGED <<asked, pairs, spoiled>>

\* Whatever ends a pair ends it for both.
Part(p) ==
    /\ \A c \in Members(p) : told[c] \in {"nothing", "ok"}
    /\ told' = [c \in Client |-> IF c \in Members(p) THEN "ended" ELSE told[c]]
    /\ UNCHANGED <<asked, pairs, spoiled>>

\* The session is free for others once both are gone.
Release(p) ==
    /\ \A c \in Members(p) : told[c] = "ended"
    /\ pairs' = pairs \ {p}
    /\ UNCHANGED <<asked, told, spoiled>>

\* A client without a partner is let go.
TurnAway(c) ==
    /\ told[c] = "nothing" /\ Single(c)
    /\ \E a \in {"timeout", "bad", "ended"} :
          /\ a = "bad" => asked[c] = NoSession
          /\ told' = [told EXCEPT ![c] = a]
    /\ UNCHANGED <<asked, pairs, spoiled>>

Next == \/ \E c \in Client, s \in Session : \/ Refuse(c, s) \/ Stay(c, s)
                                            \/ \E d \in Client \ {c} : Meet(c, d, s)
        \/ \E p \in pairs : \/ Part(p) \/ Release(p)
                            \/ \E c \in Client : Acknowledge(p, c)
        \/ \E c \in Client : TurnAway(c)

Spec == Init /\ [][Next]_vars
=============================================================================
