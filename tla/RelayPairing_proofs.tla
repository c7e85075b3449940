------------------------- MODULE RelayPairing_proofs -------------------------
(***************************************************************************)
(* Proofs about RelayPairing, for every number of clients and permits and  *)
(* every set of sessions.                                                  *)
(*                                                                         *)
(* A claim on a session passes from hand to hand: from the client that     *)
(* took a slot to the waiter it sends its socket to, and from there to the *)
(* release.  The invariant says who holds it at each of these stages (at   *)
(* most one does), that the waiter whose slot was taken listens until the  *)
(* socket has come, and that a sender is dropped only for a slot a sweep   *)
(* found too old.  The last part maps each step to one of Rendezvous, or   *)
(* to none, through what a pair knows of each other (Met, Spliced) and     *)
(* whose claim the table holds (ClaimsHeld).                               *)
(***************************************************************************)
EXTENDS RelayPairing, FiniteSetTheorems, TLAPS

Entered == Waits \cup Joins \cup {"sending", "releasing"}

\* A task has a session from its claim on; before, it has done nothing.
Asked == \A c \in Client :
    /\ task[c] \in {"absent", "reading"} => asked[c] = NoSession
    /\ task[c] \in Entered => asked[c] \in Session
    /\ task[c] = "absent" => told[c] = "nothing" /\ c \notin open

\* A slot is of a task that waits and that nobody has answered.
Slots == \A s \in Session : waiting[s] # None =>
    /\ task[waiting[s]] \in {"waiting", "expired", "left"}
    /\ asked[waiting[s]] = s
    /\ parcel[waiting[s]] = None
    /\ waiting[s] \notin cut

\* The waiter whose slot was taken listens until the socket comes.
Partners == \A c \in Client : task[c] = "sending" =>
    /\ mate[c] \in Client
    /\ task[mate[c]] \in Waits
    /\ asked[mate[c]] = asked[c]
    /\ parcel[mate[c]] = None
    /\ mate[c] \notin cut
    /\ \A s \in Session : waiting[s] # mate[c]
    /\ \A d \in Client : task[d] = "sending" /\ mate[d] = mate[c] => d = c

Parcels == \A c \in Client : parcel[c] # None =>
    /\ task[c] \in Waits \cup Joins \cup {"releasing"}
    /\ task[parcel[c]] = "given"
    /\ c \notin cut
    /\ \A s \in Session : waiting[s] # c

\* Only a sweep drops a sender, and only that of a late waiter.
Cuts == \A c \in cut : /\ asked[c] \in swept
                       /\ task[c] \in Waits => c \in late

\* What a task knows of its own end.
Known == \A c \in Client :
    /\ task[c] = "expired" => c \in late
    /\ task[c] = "left" => c \notin open \ early
    /\ told[c] \in {"busy", "bad", "timeout", "ended"} => c \notin open

Holder(c, s) ==
    /\ asked[c] = s
    /\ \/ task[c] \in Joins \cup {"sending", "releasing"}
       \/ task[c] \in Waits /\ parcel[c] # None

\* One task at a time holds the claim on a session, and the session is active.
Claimed == \A s \in Session \ swept : \A c \in Client : Holder(c, s) =>
    /\ s \in active
    /\ waiting[s] = None
    /\ \A d \in Client : Holder(d, s) => d = c

IInv == TypeOK /\ Asked /\ Slots /\ Partners /\ Parcels /\ Cuts /\ Known /\ Claimed

USE BoundAssumption, SessionAssumption DEF Client, None, Waits, Joins

-----------------------------------------------------------------------------
LEMMA InitInv == Init => IInv
<1> SUFFICES ASSUME Init PROVE IInv
    OBVIOUS
<1>1. TypeOK
  BY DEF Init, TypeOK
<1>2. Asked /\ Slots /\ Partners /\ Parcels /\ Cuts /\ Known /\ Claimed
  BY DEF Init, Asked, Entered, Slots, Partners, Parcels, Cuts, Known, Claimed, Holder
<1> QED BY <1>1, <1>2 DEF IInv

LEMMA ConnectsInv == ASSUME IInv, NEW c \in Client, Connects(c) PROVE IInv'
<1> USE DEF IInv
<1> USE DEF Connects, Ends, tableVars, channelVars
<1>1. TypeOK'
  BY DEF TypeOK
<1>2. Asked'
  BY DEF TypeOK, Asked, Entered
<1>3. Slots'
  <2>1. task[c] = "absent" /\ UNCHANGED <<asked, parcel, cut, waiting>>
    OBVIOUS
  <2>2. \A d \in Client : d # c => task'[d] = task[d]
    BY DEF TypeOK
  <2> HIDE DEF Connects, Ends
  <2> QED BY <2>1, <2>2 DEF TypeOK, Slots
<1>4. Partners'
  <2>1. /\ task[c] = "absent" /\ UNCHANGED <<asked, mate, parcel, cut, waiting>>
        /\ \E t \in {"reading", "ended"} : task' = [task EXCEPT ![c] = t]
    OBVIOUS
  <2> HIDE DEF Connects, Ends
  <2>2. \A d \in Client : d # c => task'[d] = task[d]
    BY <2>1 DEF TypeOK
  <2>3. \A d \in Client : task'[d] = "sending" => task[d] = "sending"
    BY <2>1 DEF TypeOK
  <2>4. \A d \in Client : task[d] = "sending" => mate[d] # c
    BY <2>1 DEF Partners, Waits
  <2> QED BY <2>1, <2>2, <2>3, <2>4 DEF Partners
<1>5. Parcels'
  BY DEF TypeOK, Parcels
<1>6. Cuts'
  BY DEF TypeOK, Cuts
<1>7. Known'
  BY DEF TypeOK, Known, Asked, Entered
<1>8. Claimed'
  BY DEF TypeOK, Claimed, Holder
<1> QED BY <1>1, <1>2, <1>3, <1>4, <1>5, <1>6, <1>7, <1>8

LEMMA ClientGoesInv == ASSUME IInv, NEW c \in Client, ClientGoes(c) PROVE IInv'
<1> USE DEF IInv
<1> USE DEF ClientGoes, tableVars, channelVars
<1>1. TypeOK'
  BY DEF TypeOK
<1>2. Asked'
  BY DEF TypeOK, Asked, Entered
<1>3. Slots'
  BY DEF TypeOK, Slots
<1>4. Partners'
  BY DEF TypeOK, Partners
<1>5. Parcels'
  BY DEF TypeOK, Parcels
<1>6. Cuts'
  BY DEF TypeOK, Cuts
<1>7. Known'
  BY DEF TypeOK, Known
<1>8. Claimed'
  BY DEF TypeOK, Claimed, Holder
<1> QED BY <1>1, <1>2, <1>3, <1>4, <1>5, <1>6, <1>7, <1>8

LEMMA SpeaksInv == ASSUME IInv, NEW c \in Client, Speaks(c) PROVE IInv'
<1> USE DEF IInv
<1> USE DEF Speaks, tableVars, channelVars
<1>1. TypeOK'
  BY DEF TypeOK
<1>2. Asked'
  BY DEF TypeOK, Asked, Entered
<1>3. Slots'
  BY DEF TypeOK, Slots
<1>4. Partners'
  BY DEF TypeOK, Partners
<1>5. Parcels'
  BY DEF TypeOK, Parcels
<1>6. Cuts'
  BY DEF TypeOK, Cuts
<1>7. Known'
  BY DEF TypeOK, Known
<1>8. Claimed'
  BY DEF TypeOK, Claimed, Holder
<1> QED BY <1>1, <1>2, <1>3, <1>4, <1>5, <1>6, <1>7, <1>8

LEMMA AgesInv == ASSUME IInv, NEW c \in Client, Ages(c) PROVE IInv'
<1> USE DEF IInv
<1> USE DEF Ages, tableVars, channelVars
<1>1. TypeOK'
  BY DEF TypeOK
<1>2. Asked'
  BY DEF TypeOK, Asked, Entered
<1>3. Slots'
  BY DEF TypeOK, Slots
<1>4. Partners'
  BY DEF TypeOK, Partners
<1>5. Parcels'
  BY DEF TypeOK, Parcels
<1>6. Cuts'
  BY DEF TypeOK, Cuts
<1>7. Known'
  BY DEF TypeOK, Known
<1>8. Claimed'
  BY DEF TypeOK, Claimed, Holder
<1> QED BY <1>1, <1>2, <1>3, <1>4, <1>5, <1>6, <1>7, <1>8

LEMMA NoRequestInv == ASSUME IInv, NEW c \in Client, NoRequest(c) PROVE IInv'
<1> USE DEF IInv
<1> USE DEF NoRequest, Ends, tableVars, channelVars
<1>1. TypeOK'
  BY DEF TypeOK
<1>2. Asked'
  BY DEF TypeOK, Asked, Entered
<1>3. Slots'
  BY DEF TypeOK, Slots
<1>4. Partners'
  BY DEF TypeOK, Partners
<1>5. Parcels'
  BY DEF TypeOK, Parcels
<1>6. Cuts'
  BY DEF TypeOK, Cuts
<1>7. Known'
  BY DEF TypeOK, Known
<1>8. Claimed'
  BY DEF TypeOK, Claimed, Holder
<1> QED BY <1>1, <1>2, <1>3, <1>4, <1>5, <1>6, <1>7, <1>8

LEMMA SendsInv == ASSUME IInv, NEW c \in Client, Sends(c) PROVE IInv'
<1> USE DEF IInv
<1>0. /\ mate[c] \in Client /\ task[mate[c]] \in Waits /\ mate[c] # c
      /\ parcel' = [parcel EXCEPT ![mate[c]] = c]
      /\ task' = [task EXCEPT ![c] = "given"]
      /\ mate' = [mate EXCEPT ![c] = None]
      /\ task[c] = "sending"
      /\ UNCHANGED <<told, open, late, early, active, asked, cut, waiting, swept>>
  BY DEF Partners, Sends, Ends, TypeOK
<1>1. TypeOK'
  BY <1>0 DEF TypeOK, Asked, Entered, Partners, Partners
<1>2. Asked'
  BY <1>0 DEF TypeOK, Asked, Entered, Partners
<1>3. Slots'
  BY <1>0 DEF TypeOK, Asked, Entered, Partners, Parcels, Slots
<1>4. Partners'
  BY <1>0 DEF TypeOK, Partners
<1>5. Parcels'
  BY <1>0 DEF TypeOK, Asked, Entered, Partners, Parcels
<1>6. Cuts'
  BY <1>0 DEF TypeOK, Asked, Entered, Partners, Cuts
<1>7. Known'
  BY <1>0 DEF TypeOK, Asked, Entered, Partners, Known
<1>8. Claimed'
  BY <1>0 DEF TypeOK, Partners, Claimed, Holder
<1> QED BY <1>1, <1>2, <1>3, <1>4, <1>5, <1>6, <1>7, <1>8

LEMMA ReceivesInv == ASSUME IInv, NEW c \in Client, Receives(c) PROVE IInv'
<1> USE DEF IInv
<1> USE DEF Receives, tableVars, channelVars
<1>1. TypeOK'
  BY DEF TypeOK
<1>2. Asked'
  BY DEF TypeOK, Asked, Entered
<1>3. Slots'
  BY DEF TypeOK, Slots
<1>4. Partners'
  BY DEF TypeOK, Partners
<1>5. Parcels'
  BY DEF TypeOK, Parcels
<1>6. Cuts'
  BY DEF TypeOK, Cuts
<1>7. Known'
  BY DEF TypeOK, Known
<1>8. Claimed'
  BY DEF TypeOK, Claimed, Holder
<1> QED BY <1>1, <1>2, <1>3, <1>4, <1>5, <1>6, <1>7, <1>8

LEMMA UnsentInv == ASSUME IInv, NEW c \in Client, Unsent(c) PROVE IInv'
<1> USE DEF IInv
<1> USE DEF Unsent, Ends, tableVars, channelVars
<1>1. TypeOK'
  BY DEF TypeOK
<1>2. Asked'
  BY DEF TypeOK, Asked, Entered
<1>3. Slots'
  BY DEF TypeOK, Slots
<1>4. Partners'
  BY DEF TypeOK, Partners
<1>5. Parcels'
  BY DEF TypeOK, Parcels
<1>6. Cuts'
  BY DEF TypeOK, Cuts
<1>7. Known'
  BY DEF TypeOK, Known
<1>8. Claimed'
  BY DEF TypeOK, Claimed, Holder
<1> QED BY <1>1, <1>2, <1>3, <1>4, <1>5, <1>6, <1>7, <1>8

LEMMA NoticesInv == ASSUME IInv, NEW c \in Client, Notices(c) PROVE IInv'
<1> USE DEF IInv
<1> USE DEF Notices, tableVars, channelVars
<1>1. TypeOK'
  BY DEF TypeOK
<1>2. Asked'
  BY DEF TypeOK, Asked, Entered
<1>3. Slots'
  BY DEF TypeOK, Slots
<1>4. Partners'
  BY DEF TypeOK, Partners
<1>5. Parcels'
  BY DEF TypeOK, Parcels
<1>6. Cuts'
  BY DEF TypeOK, Cuts
<1>7. Known'
  BY DEF TypeOK, Known
<1>8. Claimed'
  BY DEF TypeOK, Claimed, Holder
<1> QED BY <1>1, <1>2, <1>3, <1>4, <1>5, <1>6, <1>7, <1>8

LEMMA ExpiresInv == ASSUME IInv, NEW c \in Client, Expires(c) PROVE IInv'
<1> USE DEF IInv
<1> USE DEF Expires, tableVars, channelVars
<1>1. TypeOK'
  BY DEF TypeOK
<1>2. Asked'
  BY DEF TypeOK, Asked, Entered
<1>3. Slots'
  BY DEF TypeOK, Slots
<1>4. Partners'
  BY DEF TypeOK, Partners
<1>5. Parcels'
  BY DEF TypeOK, Parcels
<1>6. Cuts'
  BY DEF TypeOK, Cuts
<1>7. Known'
  BY DEF TypeOK, Known
<1>8. Claimed'
  BY DEF TypeOK, Claimed, Holder
<1> QED BY <1>1, <1>2, <1>3, <1>4, <1>5, <1>6, <1>7, <1>8

LEMMA LooksBackInv == ASSUME IInv, NEW c \in Client, LooksBack(c) PROVE IInv'
<1> USE DEF IInv
<1>0. \/ /\ waiting[asked[c]] = c
         /\ waiting' = [waiting EXCEPT ![asked[c]] = None]
         /\ task' = [task EXCEPT ![c] = "ended"]
         /\ told' = [told EXCEPT ![c] = "timeout"]
         /\ open' = open \ {c}
         /\ late' = late \ {c}
         /\ early' = early \ {c}
      \/ /\ waiting[asked[c]] # c
         /\ task' = [task EXCEPT ![c] = IF @ = "expired" THEN "receiving" ELSE "draining"]
         /\ UNCHANGED <<waiting, told, open, late, early>>
  BY DEF LooksBack, Ends
<1>00. /\ task[c] \in {"expired", "left"} /\ asked[c] \in Session
       /\ waiting[asked[c]] \in Client \cup {None}
       /\ UNCHANGED <<asked, mate, parcel, cut, active, swept>>
  BY DEF LooksBack, channelVars, Asked, Entered, TypeOK
<1>1. TypeOK'
  <2>1. /\ task' \in [Client -> {"absent", "reading", "sending", "releasing", "given", "ended"}
                               \cup Waits \cup Joins]
        /\ told' \in [Client -> {"nothing", "ok", "busy", "bad", "timeout", "ended"}]
    BY <1>0 DEF TypeOK, Waits
  <2>2. /\ waiting' \in [Session -> Client \cup {None}]
        /\ open' \subseteq Client /\ early' \subseteq Client /\ late' \subseteq Client
    BY <1>0, <1>00 DEF TypeOK
  <2> HIDE DEF Waits, Joins
  <2> QED BY <1>00, <2>1, <2>2 DEF TypeOK
<1>2. Asked'
  BY <1>0, <1>00 DEF TypeOK, Asked, Entered
<1>3. Slots'
  BY SMTT(30), <1>0, <1>00 DEF TypeOK, Slots
<1>4. Partners'
  BY <1>0, <1>00 DEF TypeOK, Partners
<1>5. Parcels'
  BY <1>0, <1>00 DEF TypeOK, Parcels
<1>6. Cuts'
  BY <1>0, <1>00 DEF TypeOK, Cuts
<1>7. Known'
  BY <1>0, <1>00 DEF TypeOK, Known
<1>8. Claimed'
  BY <1>0, <1>00 DEF TypeOK, Claimed, Holder
<1> QED BY <1>1, <1>2, <1>3, <1>4, <1>5, <1>6, <1>7, <1>8

LEMMA DrainsInv == ASSUME IInv, NEW c \in Client, Drains(c) PROVE IInv'
<1> USE DEF IInv
<1> USE DEF Drains, Closes, tableVars, channelVars
<1>1. TypeOK'
  BY DEF TypeOK
<1>2. Asked'
  BY DEF TypeOK, Asked, Entered, Parcels
<1>3. Slots'
  BY DEF TypeOK, Slots
<1>4. Partners'
  BY DEF TypeOK, Partners
<1>5. Parcels'
  BY DEF TypeOK, Parcels
<1>6. Cuts'
  BY DEF TypeOK, Cuts
<1>7. Known'
  BY DEF TypeOK, Known
<1>8. Claimed'
  BY DEF TypeOK, Claimed, Holder, Cuts
<1> QED BY <1>1, <1>2, <1>3, <1>4, <1>5, <1>6, <1>7, <1>8

LEMMA AcknowledgesFirstInv == ASSUME IInv, NEW c \in Client, AcknowledgesFirst(c) PROVE IInv'
<1> USE DEF IInv
<1> USE DEF AcknowledgesFirst, Acknowledges, Closes, tableVars, channelVars
<1>0. \/ task' = [task EXCEPT ![c] = "answered"]
      \/ task' = [task EXCEPT ![c] = "releasing"]
  OBVIOUS
<1>00. task[c] = "joined" /\ UNCHANGED <<asked, mate, parcel, cut, waiting, active, swept>>
  OBVIOUS
<1>1. TypeOK'
  BY ZenonT(30), SMTT(30) DEF TypeOK
<1>2. Asked'
  BY DEF TypeOK, Asked, Entered, Parcels
<1>3. Slots'
  BY DEF TypeOK, Slots
<1>4. Partners'
  <2> HIDE DEF AcknowledgesFirst, Acknowledges, Closes
  <2>1. \A d \in Client : \/ task'[d] = task[d]
                          \/ d = c /\ task'[d] # "sending"
    <3>1. DOMAIN task = Client
      BY DEF TypeOK
    <3> HIDE DEF IInv
    <3> QED BY <1>0, <3>1
  <2>2. \A d \in Client : task[d] = "sending" => task'[mate[d]] = task[mate[d]]
    BY <1>00, <2>1 DEF Partners, Waits
  <2>3. \A d \in Client : task'[d] = "sending" => task[d] = "sending"
    BY <2>1
  <2> QED BY <1>00, <2>2, <2>3, ZenonT(30), SMTT(30) DEF Partners
<1>5. Parcels'
  BY DEF TypeOK, Parcels
<1>6. Cuts'
  BY DEF TypeOK, Cuts
<1>7. Known'
  BY DEF TypeOK, Known
<1>8. Claimed'
  BY DEF TypeOK, Claimed, Holder
<1> QED BY <1>1, <1>2, <1>3, <1>4, <1>5, <1>6, <1>7, <1>8

LEMMA AcknowledgesSecondInv == ASSUME IInv, NEW c \in Client, AcknowledgesSecond(c) PROVE IInv'
<1> USE DEF IInv
<1> USE DEF AcknowledgesSecond, Acknowledges, Closes, tableVars, channelVars
<1>1. TypeOK'
  BY ZenonT(30), SMTT(30) DEF TypeOK
<1>2. Asked'
  BY DEF TypeOK, Asked, Entered, Parcels
<1>3. Slots'
  BY DEF TypeOK, Slots
<1>4. Partners'
  <2>1. /\ task[c] = "answered" /\ UNCHANGED <<asked, mate, parcel, cut, waiting>>
        /\ \E t \in {"splicing", "releasing"} : task' = [task EXCEPT ![c] = t]
    OBVIOUS
  <2> HIDE DEF AcknowledgesSecond, Acknowledges, Closes
  <2> QED BY <2>1 DEF TypeOK, Partners
<1>5. Parcels'
  BY DEF TypeOK, Parcels
<1>6. Cuts'
  BY DEF TypeOK, Cuts
<1>7. Known'
  BY DEF TypeOK, Known
<1>8. Claimed'
  BY DEF TypeOK, Claimed, Holder
<1> QED BY <1>1, <1>2, <1>3, <1>4, <1>5, <1>6, <1>7, <1>8

LEMMA SpliceEndsInv == ASSUME IInv, NEW c \in Client, SpliceEnds(c) PROVE IInv'
<1> USE DEF IInv
<1> USE DEF SpliceEnds, Closes, tableVars, channelVars
<1>1. TypeOK'
  BY DEF TypeOK
<1>2. Asked'
  BY SMTT(30) DEF TypeOK, Asked, Entered, Parcels
<1>3. Slots'
  BY DEF TypeOK, Slots
<1>4. Partners'
  BY DEF TypeOK, Partners
<1>5. Parcels'
  BY DEF TypeOK, Parcels
<1>6. Cuts'
  BY DEF TypeOK, Cuts
<1>7. Known'
  BY DEF TypeOK, Known
<1>8. Claimed'
  BY DEF TypeOK, Claimed, Holder
<1> QED BY <1>1, <1>2, <1>3, <1>4, <1>5, <1>6, <1>7, <1>8

LEMMA ReleasesInv == ASSUME IInv, NEW c \in Client, Releases(c) PROVE IInv'
<1> USE DEF IInv
<1> USE DEF Releases, tableVars, channelVars
<1>1. TypeOK'
  BY DEF TypeOK
<1>2. Asked'
  BY DEF TypeOK, Asked, Entered
<1>3. Slots'
  BY DEF TypeOK, Slots
<1>4. Partners'
  BY DEF TypeOK, Partners
<1>5. Parcels'
  BY DEF TypeOK, Parcels
<1>6. Cuts'
  BY DEF TypeOK, Cuts
<1>7. Known'
  BY DEF TypeOK, Known
<1>8. Claimed'
  BY DEF TypeOK, Claimed, Holder
<1> QED BY <1>1, <1>2, <1>3, <1>4, <1>5, <1>6, <1>7, <1>8

-----------------------------------------------------------------------------
(* What a look at the table leaves of the slots: none of a late waiter.    *)
LEMMA Sweeps ==
    ASSUME IInv
    PROVE  \A s \in Session :
             /\ s \in Stale => Kept[s] = None /\ waiting[s] \in Client /\ waiting[s] \in late
             /\ s \notin Stale => Kept[s] = waiting[s]
             /\ Kept[s] \in Client \cup {None}
             /\ Kept[s] # None => Kept[s] = waiting[s] /\ s \notin Stale
<1> QED
  BY DEF IInv, TypeOK, Stale, Kept

\* The three outcomes of a claim.
Busy(c, s) ==
    /\ waiting' = Kept
    /\ Ends(c, "busy")
    /\ UNCHANGED <<active, mate>>

Pairs(c, s) ==
    /\ s \notin active /\ Kept[s] # None
    /\ waiting' = [Kept EXCEPT ![s] = None]
    /\ active' = active \cup {s}
    /\ mate' = [mate EXCEPT ![c] = Kept[s]]
    /\ task' = [task EXCEPT ![c] = "sending"]
    /\ UNCHANGED <<told, open, late, early>>

Queues(c, s) ==
    /\ s \notin active /\ Kept[s] = None
    /\ waiting' = [Kept EXCEPT ![s] = c]
    /\ task' = [task EXCEPT ![c] = "waiting"]
    /\ UNCHANGED <<active, told, open, late, early, mate>>

Looks(c, s) ==
    /\ task[c] = "reading"
    /\ asked' = [asked EXCEPT ![c] = s]
    /\ swept' = swept \cup Stale
    /\ cut' = cut \cup {waiting[t] : t \in Stale}
    /\ UNCHANGED parcel

LEMMA ClaimOutcomes ==
    ASSUME NEW c \in Client, NEW s \in Session, Claims(c, s)
    PROVE  Looks(c, s) /\ (Busy(c, s) \/ Pairs(c, s) \/ Queues(c, s))
<1> QED
  BY DEF Claims, Looks, Busy, Pairs, Queues

\* Nothing in the tables speaks of a client whose request has not been read.
LEMMA StillReading ==
    ASSUME IInv, NEW c \in Client, task[c] = "reading"
    PROVE  /\ asked[c] = NoSession /\ parcel[c] = None /\ c \notin cut
           /\ \A t \in Session : waiting[t] # c
           /\ \A d \in Client : task[d] = "sending" => mate[d] # c
<1> USE DEF IInv
<1>1. asked[c] = NoSession
  BY DEF TypeOK, Asked, Entered
<1>2. parcel[c] = None
  BY DEF TypeOK, Parcels
<1>3. c \notin cut
  BY <1>1 DEF TypeOK, Cuts
<1>4. \A t \in Session : waiting[t] # c
  <2> SUFFICES ASSUME NEW t \in Session, waiting[t] = c PROVE FALSE
    OBVIOUS
  <2>1. waiting[t] # None
    OBVIOUS
  <2> QED BY <2>1 DEF Slots
<1>5. \A d \in Client : task[d] = "sending" => mate[d] # c
  BY DEF Partners
<1> QED BY <1>1, <1>2, <1>3, <1>4, <1>5

LEMMA BusyInv ==
    ASSUME IInv, NEW c \in Client, NEW s \in Session, Looks(c, s), Busy(c, s)
    PROVE  IInv'
<1> USE DEF IInv, Looks, Busy, Ends
<1>0. /\ Stale \subseteq Session
      /\ Kept = [t \in Session |-> Kept[t]]
  BY DEF Stale, Kept
<1>00. /\ asked[c] = NoSession /\ parcel[c] = None /\ c \notin cut
       /\ \A t \in Session : waiting[t] # c
       /\ \A d \in Client : task[d] = "sending" => mate[d] # c
  BY StillReading
<1>1. TypeOK'
  BY <1>0, <1>00, Sweeps DEF TypeOK
<1>2. Asked'
  BY <1>0, <1>00, Sweeps DEF TypeOK, Asked, Entered
<1>3. Slots'
  BY <1>0, <1>00, Sweeps DEF TypeOK, Slots, Asked, Entered
<1>4. Partners'
  BY <1>0, <1>00, Sweeps DEF TypeOK, Partners, Asked, Entered, Slots
<1>5. Parcels'
  BY <1>0, <1>00, Sweeps DEF TypeOK, Parcels, Asked, Entered, Slots
<1>6. Cuts'
  <2> SUFFICES ASSUME NEW d \in cut'
               PROVE  asked'[d] \in swept' /\ (task'[d] \in Waits => d \in late')
    BY DEF Cuts
  <2>1. CASE d \in cut
    BY <1>00, <2>1 DEF TypeOK, Cuts
  <2>2. CASE d \notin cut
    <3>1. PICK t \in Stale : d = waiting[t]
      BY <2>2
    <3>2. t \in Session /\ d \in Client /\ d # c /\ asked[d] = t /\ d \in late
      BY <1>0, <1>00, <3>1, Sweeps DEF Slots
    <3> QED BY <3>1, <3>2 DEF TypeOK
  <2> QED BY <2>1, <2>2
<1>7. Known'
  BY <1>0, <1>00, Sweeps DEF TypeOK, Known
<1>8. Claimed'
  BY <1>0, <1>00, Sweeps DEF TypeOK, Claimed, Holder, Asked, Entered, Slots
<1> QED BY <1>1, <1>2, <1>3, <1>4, <1>5, <1>6, <1>7, <1>8

LEMMA PairsInv ==
    ASSUME IInv, NEW c \in Client, NEW s \in Session, Looks(c, s), Pairs(c, s)
    PROVE  IInv'
<1> USE DEF IInv, Looks, Pairs
<1>0. /\ Stale \subseteq Session
      /\ Kept = [t \in Session |-> Kept[t]]
  BY DEF Stale, Kept
<1>00. /\ asked[c] = NoSession /\ parcel[c] = None /\ c \notin cut
       /\ \A t \in Session : waiting[t] # c
       /\ \A d \in Client : task[d] = "sending" => mate[d] # c
  BY StillReading
<1>1. TypeOK'
  BY <1>0, <1>00, Sweeps DEF TypeOK
<1>2. Asked'
  BY <1>0, <1>00, Sweeps DEF TypeOK, Asked, Entered
<1>3. Slots'
  BY <1>0, <1>00, Sweeps DEF TypeOK, Slots, Asked, Entered
<1>4. Partners'
  BY <1>0, <1>00, Sweeps DEF TypeOK, Partners, Asked, Entered, Slots
<1>5. Parcels'
  BY <1>0, <1>00, Sweeps DEF TypeOK, Parcels, Asked, Entered, Slots
<1>6. Cuts'
  <2> SUFFICES ASSUME NEW d \in cut'
               PROVE  asked'[d] \in swept' /\ (task'[d] \in Waits => d \in late')
    BY DEF Cuts
  <2>1. CASE d \in cut
    BY <1>00, <2>1 DEF TypeOK, Cuts
  <2>2. CASE d \notin cut
    <3>1. PICK t \in Stale : d = waiting[t]
      BY <2>2
    <3>2. t \in Session /\ d \in Client /\ d # c /\ asked[d] = t /\ d \in late
      BY <1>0, <1>00, <3>1, Sweeps DEF Slots
    <3> QED BY <3>1, <3>2 DEF TypeOK
  <2> QED BY <2>1, <2>2
<1>7. Known'
  BY <1>0, <1>00, Sweeps DEF TypeOK, Known
<1>8. Claimed'
  BY <1>0, <1>00, Sweeps DEF TypeOK, Claimed, Holder, Asked, Entered, Slots
<1> QED BY <1>1, <1>2, <1>3, <1>4, <1>5, <1>6, <1>7, <1>8

LEMMA QueuesInv ==
    ASSUME IInv, NEW c \in Client, NEW s \in Session, Looks(c, s), Queues(c, s)
    PROVE  IInv'
<1> USE DEF IInv, Looks, Queues
<1>0. /\ Stale \subseteq Session
      /\ Kept = [t \in Session |-> Kept[t]]
  BY DEF Stale, Kept
<1>00. /\ asked[c] = NoSession /\ parcel[c] = None /\ c \notin cut
       /\ \A t \in Session : waiting[t] # c
       /\ \A d \in Client : task[d] = "sending" => mate[d] # c
  BY StillReading
<1>1. TypeOK'
  BY <1>0, <1>00, Sweeps DEF TypeOK
<1>2. Asked'
  BY <1>0, <1>00, Sweeps DEF TypeOK, Asked, Entered
<1>3. Slots'
  BY <1>0, <1>00, Sweeps DEF TypeOK, Slots, Asked, Entered
<1>4. Partners'
  BY <1>0, <1>00, Sweeps DEF TypeOK, Partners, Asked, Entered, Slots
<1>5. Parcels'
  BY <1>0, <1>00, Sweeps DEF TypeOK, Parcels, Asked, Entered, Slots
<1>6. Cuts'
  <2> SUFFICES ASSUME NEW d \in cut'
               PROVE  asked'[d] \in swept' /\ (task'[d] \in Waits => d \in late')
    BY DEF Cuts
  <2>1. CASE d \in cut
    BY <1>00, <2>1 DEF TypeOK, Cuts
  <2>2. CASE d \notin cut
    <3>1. PICK t \in Stale : d = waiting[t]
      BY <2>2
    <3>2. t \in Session /\ d \in Client /\ d # c /\ asked[d] = t /\ d \in late
      BY <1>0, <1>00, <3>1, Sweeps DEF Slots
    <3> QED BY <3>1, <3>2 DEF TypeOK
  <2> QED BY <2>1, <2>2
<1>7. Known'
  BY <1>0, <1>00, Sweeps DEF TypeOK, Known
<1>8. Claimed'
  BY <1>0, <1>00, Sweeps DEF TypeOK, Claimed, Holder, Asked, Entered, Slots
<1> QED BY <1>1, <1>2, <1>3, <1>4, <1>5, <1>6, <1>7, <1>8

LEMMA ClaimsInv == ASSUME IInv, NEW c \in Client, NEW s \in Session, Claims(c, s) PROVE IInv'
<1> QED BY ClaimOutcomes, BusyInv, PairsInv, QueuesInv

-----------------------------------------------------------------------------
LEMMA StepInv == IInv /\ [Next]_vars => IInv'
<1> SUFFICES ASSUME IInv, [Next]_vars PROVE IInv'
    OBVIOUS
<1>1. CASE UNCHANGED vars
  <2> USE <1>1 DEF vars, tableVars, channelVars
  <2>1. TypeOK' /\ Asked' /\ Slots' /\ Partners' /\ Parcels' /\ Cuts' /\ Known'
    BY DEF IInv, TypeOK, Asked, Entered, Slots, Partners, Parcels, Cuts, Known
  <2>2. Claimed'
    BY DEF IInv, Claimed, Holder
  <2> QED BY <2>1, <2>2 DEF IInv
<1>2. ASSUME NEW c \in Client, Connects(c) \/ ClientGoes(c) \/ Speaks(c) \/ Ages(c) PROVE IInv'
  BY <1>2, ConnectsInv, ClientGoesInv, SpeaksInv, AgesInv
<1>3. ASSUME NEW c \in Client, TaskStep(c) \/ SpliceEnds(c) PROVE IInv'
  BY <1>3, NoRequestInv, ClaimsInv, SendsInv, ReceivesInv, UnsentInv, NoticesInv, ExpiresInv,
     LooksBackInv, DrainsInv, AcknowledgesFirstInv, AcknowledgesSecondInv, SpliceEndsInv,
     ReleasesInv
     DEF TaskStep
<1> QED BY <1>1, <1>2, <1>3 DEF Next

\* In every reachable state, a claim has one holder, and a waiter whose slot was
\* taken listens until its partner's socket has come.
THEOREM Invariant == Spec => []IInv
<1> QED BY InitInv, StepInv, PTL DEF Spec

\* The tables and the tasks of the relay keep their types.
THEOREM TypeCorrect == Spec => []TypeOK
<1>1. IInv => TypeOK
  BY DEF IInv
<1> QED BY <1>1, Invariant, PTL

\* One pair at a time owns a session, and while it does the session is refused
\* to others, unless a sweep dropped a slot of that session.
THEOREM OnePair == Spec => []OnePairAtATime
<1>1. IInv => OnePairAtATime
  <2> SUFFICES ASSUME IInv, NEW s \in Session \ swept
               PROVE  /\ Cardinality(Joined(s)) <= 1
                      /\ Joined(s) # {} => s \in active /\ waiting[s] = None
      BY DEF OnePairAtATime
  <2>1. \A c \in Joined(s) : c \in Client /\ Holder(c, s)
    BY DEF Joined, Holder
  <2>2. CASE Joined(s) = {}
    BY <2>2, FS_EmptySet
  <2>3. CASE Joined(s) # {}
    <3>1. PICK c \in Joined(s) : TRUE
      BY <2>3
    <3>2. Joined(s) = {c} /\ s \in active /\ waiting[s] = None
      BY <2>1, <3>1 DEF IInv, Claimed
    <3>3. Cardinality({c}) = 1
      BY FS_Singleton
    <3> QED BY <3>2, <3>3
  <2> QED BY <2>2, <2>3
<1> QED BY <1>1, Invariant, PTL

-----------------------------------------------------------------------------
OwnTimeout(c) == c \in open \ early /\ told'[c] = "timeout" /\ asked[c] # NoSession => c \in late

LEMMA StepTimeout ==
    ASSUME IInv, [Next]_vars
    PROVE  \A c \in open \ early : told'[c] = "timeout" /\ asked[c] # NoSession => c \in late
<1> SUFFICES ASSUME NEW c \in Client PROVE OwnTimeout(c)
  BY DEF IInv, TypeOK, OwnTimeout
<1> USE DEF OwnTimeout
<1>0. c \in open => told[c] # "timeout"
  BY DEF IInv, Known
<1>1. CASE UNCHANGED told
  BY <1>0, <1>1
<1>2. ASSUME NEW d \in Client, Connects(d) PROVE OwnTimeout(c)
  BY <1>0, <1>2 DEF IInv, TypeOK, Connects, Ends
<1>3. ASSUME NEW d \in Client, NoRequest(d) PROVE OwnTimeout(c)
  BY <1>0, <1>3 DEF IInv, TypeOK, Asked, NoRequest, Ends
<1>4. ASSUME NEW d \in Client, NEW s \in Session, Claims(d, s) PROVE OwnTimeout(c)
  BY <1>0, <1>4 DEF IInv, TypeOK, Claims, Ends
<1>5. ASSUME NEW d \in Client, Sends(d) PROVE OwnTimeout(c)
  BY <1>0, <1>5 DEF IInv, Partners, Sends
<1>6. ASSUME NEW d \in Client, Unsent(d) PROVE OwnTimeout(c)
  BY <1>0, <1>6 DEF IInv, TypeOK, Cuts, Unsent, Ends
<1>7. ASSUME NEW d \in Client, LooksBack(d) PROVE OwnTimeout(c)
  BY <1>0, <1>7 DEF IInv, TypeOK, Known, LooksBack, Ends
<1>8. ASSUME NEW d \in Client, Drains(d) \/ AcknowledgesFirst(d) \/ AcknowledgesSecond(d)
                               \/ SpliceEnds(d)
      PROVE  OwnTimeout(c)
  BY <1>0, <1>8 DEF IInv, TypeOK, Drains, AcknowledgesFirst, AcknowledgesSecond, SpliceEnds,
                   Acknowledges, Closes
<1>9. ASSUME NEW d \in Client, ClientGoes(d) \/ Speaks(d) \/ Ages(d) \/ Receives(d) \/ Notices(d)
                               \/ Expires(d) \/ Releases(d)
      PROVE  UNCHANGED told
  BY <1>9 DEF ClientGoes, Speaks, Ages, Receives, Notices, Expires, Releases
<1>10. CASE UNCHANGED vars
  BY <1>1, <1>10 DEF vars
<1> QED BY <1>1, <1>2, <1>3, <1>4, <1>5, <1>6, <1>7, <1>8, <1>9, <1>10 DEF Next, TaskStep

\* A client that keeps its socket open hears of a timeout only if it was late.
THEOREM OwnTimeouts == Spec => TimeoutIsOwn
<1>1. IInv /\ [Next]_vars =>
        [\A c \in open \ early : told'[c] = "timeout" /\ asked[c] # NoSession => c \in late]_vars
  BY StepTimeout
<1> QED BY <1>1, Invariant, PTL DEF Spec, TimeoutIsOwn

-----------------------------------------------------------------------------
(* Who waits is found by a partner or by a sweep, or its partner's task is *)
(* on the way to it.                                                       *)
Found(c) ==
    /\ task[c] \in {"waiting", "expired", "left"} => waiting[asked[c]] = c \/ SocketComes(c)
    /\ task[c] \in {"receiving", "draining"} => SocketComes(c)

\* A step of one task, other than a hand-over: the others keep what they wait for
\* if their slots stay, are swept, or are taken by that task.
LEMMA OthersFound ==
    ASSUME NobodyWaitsInVain, NEW c \in Client,
           task[c] # "sending",
           \A d \in Client \ {c} :
               /\ task'[d] = task[d] /\ asked'[d] = asked[d]
               /\ parcel'[d] = parcel[d] /\ mate'[d] = mate[d]
               /\ task[d] \in Waits /\ waiting[asked[d]] = d =>
                    \/ waiting'[asked[d]] = d \/ d \in cut'
                    \/ task'[c] = "sending" /\ mate'[c] = d,
           cut \subseteq cut',
           Found(c)'
    PROVE  NobodyWaitsInVain'
<1> SUFFICES ASSUME NEW d \in Client \ {c} PROVE Found(d)'
  BY DEF NobodyWaitsInVain, Found
<1>1. SocketComes(d) => SocketComes(d)'
  BY DEF SocketComes
<1>2. task[d] \in Waits /\ waiting[asked[d]] = d => waiting'[asked'[d]] = d \/ SocketComes(d)'
  BY DEF SocketComes
<1>3. Found(d)
  BY DEF NobodyWaitsInVain, Found
<1> QED
  BY <1>1, <1>2, <1>3 DEF Found

\* A task that goes on, and leaves the tables and the channels alone.
LEMMA GoesOnFound ==
    ASSUME NobodyWaitsInVain, NEW c \in Client,
           task[c] # "sending",
           \A d \in Client \ {c} : task'[d] = task[d],
           UNCHANGED <<asked, parcel, mate, cut, waiting>>,
           \/ task'[c] \notin Waits
           \/ task[c] = "waiting" /\ task'[c] \in {"expired", "left"}
    PROVE  NobodyWaitsInVain'
<1>1. Found(c)
  BY DEF NobodyWaitsInVain, Found
<1>2. SocketComes(c) => SocketComes(c)'
  <2>1. \A d \in Client : task[d] = "sending" => task'[d] = "sending"
    OBVIOUS
  <2> QED
    BY <2>1 DEF SocketComes
<1>3. Found(c)'
  BY <1>1, <1>2 DEF Found
<1> QED
  BY <1>3, OthersFound

LEMMA ClaimsFound ==
    ASSUME IInv, NobodyWaitsInVain, NEW c \in Client, NEW s \in Session, Claims(c, s)
    PROVE  NobodyWaitsInVain'
<1>1. Looks(c, s) /\ (Busy(c, s) \/ Pairs(c, s) \/ Queues(c, s))
  BY ClaimOutcomes
<1>2. /\ task[c] = "reading"
      /\ \A d \in Client \ {c} : asked'[d] = asked[d] /\ parcel'[d] = parcel[d]
      /\ asked'[c] = s
      /\ cut \subseteq cut'
      /\ \A t \in Stale : waiting[t] \in cut'
  BY <1>1 DEF Looks, IInv, TypeOK
<1>3. \A d \in Client, t \in Session : waiting[t] = d => Kept[t] = d \/ d \in cut'
  BY <1>2, Sweeps
<1>4. \A d \in Client : task[d] \in Waits => asked[d] \in Session
  BY DEF IInv, Asked, Entered
<1>5. CASE Busy(c, s)
  <2>1. /\ \A d \in Client : task'[d] = IF d = c THEN "ended" ELSE task[d]
        /\ waiting' = Kept /\ mate' = mate
    BY <1>5 DEF Busy, Ends, IInv, TypeOK
  <2>2. Found(c)'
    BY <2>1 DEF Found
  <2> QED
    BY <1>2, <1>3, <1>4, <2>1, <2>2, OthersFound
<1>6. CASE Pairs(c, s)
  <2>1. /\ \A d \in Client : task'[d] = IF d = c THEN "sending" ELSE task[d]
        /\ \A d \in Client : mate'[d] = IF d = c THEN Kept[s] ELSE mate[d]
        /\ \A t \in Session : waiting'[t] = IF t = s THEN None ELSE Kept[t]
    BY <1>6 DEF Pairs, IInv, TypeOK, Kept
  <2>2. Found(c)'
    BY <2>1 DEF Found
  <2> QED
    BY <1>2, <1>3, <1>4, <2>1, <2>2, OthersFound
<1>7. CASE Queues(c, s)
  <2>1. /\ \A d \in Client : task'[d] = IF d = c THEN "waiting" ELSE task[d]
        /\ mate' = mate
        /\ \A t \in Session : waiting'[t] = IF t = s THEN c ELSE Kept[t]
        /\ Kept[s] = None
    BY <1>7 DEF Queues, IInv, TypeOK, Kept
  <2>2. Found(c)'
    BY <1>2, <2>1 DEF Found
  <2> QED
    BY <1>2, <1>3, <1>4, <2>1, <2>2, OthersFound
<1> QED
  BY <1>1, <1>5, <1>6, <1>7

\* The socket that was on its way to the mate is there, and nobody else's was.
LEMMA SendsFound ==
    ASSUME IInv, NobodyWaitsInVain, NEW c \in Client, Sends(c)
    PROVE  NobodyWaitsInVain'
<1>1. /\ task[c] = "sending" /\ mate[c] \in Client /\ task[mate[c]] \in Waits
      /\ c # mate[c]
  BY DEF Sends, IInv, Partners
<1>2. /\ \A d \in Client : task'[d] = IF d = c THEN "given" ELSE task[d]
      /\ \A d \in Client : parcel'[d] = IF d = mate[c] THEN c ELSE parcel[d]
      /\ \A d \in Client : mate'[d] = IF d = c THEN None ELSE mate[d]
      /\ UNCHANGED <<asked, cut, waiting>>
  BY <1>1 DEF Sends, IInv, TypeOK
<1> SUFFICES ASSUME NEW d \in Client \ {c} PROVE Found(d)'
  BY <1>2 DEF NobodyWaitsInVain, Found
<1>3. Found(d)
  BY DEF NobodyWaitsInVain, Found
<1>4. SocketComes(d) => SocketComes(d)'
  BY <1>2 DEF SocketComes
<1> QED
  BY <1>2, <1>3, <1>4 DEF Found

\* A task looks back and ends, or it has something to wait for.
LEMMA LooksBackFound ==
    ASSUME IInv, NobodyWaitsInVain, NEW c \in Client, LooksBack(c)
    PROVE  NobodyWaitsInVain'
<1>1. /\ task[c] \in {"expired", "left"}
      /\ \A d \in Client \ {c} : task'[d] = task[d]
      /\ task'[c] \in {"ended", "receiving", "draining"}
      /\ task'[c] # "ended" => waiting[asked[c]] # c
      /\ UNCHANGED <<asked, parcel, mate, cut>>
      /\ \A t \in Session : waiting[t] # c => waiting'[t] = waiting[t]
  BY DEF LooksBack, Ends, channelVars, IInv, TypeOK
<1>2. \A d \in Client : task[d] \in Waits => asked[d] \in Session
  BY DEF IInv, Asked, Entered
<1>3. Found(c)
  BY DEF NobodyWaitsInVain, Found
<1>4. SocketComes(c) => SocketComes(c)'
  BY <1>1 DEF SocketComes
<1>5. Found(c)'
  BY <1>1, <1>3, <1>4 DEF Found
<1> QED
  BY <1>1, <1>2, <1>5, OthersFound

LEMMA FoundStep == ASSUME IInv, NobodyWaitsInVain, [Next]_vars PROVE NobodyWaitsInVain'
<1>1. ASSUME NEW c \in Client, Connects(c) \/ NoRequest(c) \/ Unsent(c) PROVE NobodyWaitsInVain'
  <2>1. /\ task[c] # "sending" /\ task'[c] \notin Waits
        /\ \A d \in Client \ {c} : task'[d] = task[d]
        /\ UNCHANGED <<asked, parcel, mate, cut, waiting>>
    BY <1>1 DEF Connects, NoRequest, Unsent, Ends, channelVars, tableVars, IInv, TypeOK
  <2> QED
    BY <2>1, GoesOnFound
<1>2. ASSUME NEW c \in Client,
             \/ Receives(c) \/ Drains(c) \/ SpliceEnds(c)
             \/ AcknowledgesFirst(c) \/ AcknowledgesSecond(c)
      PROVE  NobodyWaitsInVain'
  <2>1. /\ task[c] # "sending" /\ task'[c] \notin Waits
        /\ \A d \in Client \ {c} : task'[d] = task[d]
        /\ UNCHANGED <<asked, parcel, mate, cut, waiting>>
    BY <1>2 DEF Receives, Drains, SpliceEnds, AcknowledgesFirst, AcknowledgesSecond,
                Acknowledges, channelVars, tableVars, IInv, TypeOK
  <2> QED
    BY <2>1, GoesOnFound
<1>3. ASSUME NEW c \in Client, Notices(c) \/ Expires(c) PROVE NobodyWaitsInVain'
  <2>1. /\ task[c] = "waiting" /\ task'[c] \in {"expired", "left"}
        /\ \A d \in Client \ {c} : task'[d] = task[d]
        /\ UNCHANGED <<asked, parcel, mate, cut, waiting>>
    BY <1>3 DEF Notices, Expires, channelVars, tableVars, IInv, TypeOK
  <2> QED
    BY <2>1, GoesOnFound
<1>4. ASSUME NEW c \in Client, Releases(c) PROVE NobodyWaitsInVain'
  <2>1. /\ task[c] = "releasing" /\ task'[c] = "ended"
        /\ \A d \in Client \ {c} : task'[d] = task[d] /\ parcel'[d] = parcel[d]
        /\ UNCHANGED <<asked, mate, cut, waiting>>
    BY <1>4 DEF Releases, IInv, TypeOK
  <2>2. Found(c)'
    BY <2>1 DEF Found
  <2> QED
    BY <2>1, <2>2, OthersFound
<1>5. CASE UNCHANGED <<task, asked, parcel, mate, cut, waiting>>
  BY <1>5 DEF NobodyWaitsInVain, SocketComes
<1>6. ASSUME NEW c \in Client, ClientGoes(c) \/ Speaks(c) \/ Ages(c)
      PROVE  UNCHANGED <<task, asked, parcel, mate, cut, waiting>>
  BY <1>6 DEF ClientGoes, Speaks, Ages, channelVars, tableVars
<1> QED
  BY <1>1, <1>2, <1>3, <1>4, <1>5, <1>6, ClaimsFound, SendsFound, LooksBackFound
  DEF Next, TaskStep, vars, channelVars, tableVars

\* No task waits in vain: what it waits for is in the table or on its way.
THEOREM NobodyInVain == Spec => []NobodyWaitsInVain
<1>1. Init => NobodyWaitsInVain
  BY DEF Init, NobodyWaitsInVain
<1> QED
  BY <1>1, FoundStep, Invariant, PTL DEF Spec

-----------------------------------------------------------------------------
(* The relay implements Rendezvous.                                        *)

\* What a client was told at each stage of its task and of the task that has its
\* socket, and that a socket is in one task's hands.
Met == \A c \in Client :
    /\ mate[c] # None => task[c] = "sending"
    /\ task[c] \in {"absent", "reading", "sending", "joined"} \cup Waits => told[c] = "nothing"
    /\ task[c] \in Joins => parcel[c] # None
    /\ task[c] \in {"answered", "splicing"} => told[c] = "ok"
    /\ task[c] = "releasing" => told[c] = "ended"
    /\ parcel[c] # None =>
        /\ asked[parcel[c]] = asked[c]
        /\ \A d \in Client : parcel[d] = parcel[c] => d = c
        /\ task[c] \in Waits \cup {"joined", "answered"} => told[parcel[c]] = "nothing"
        /\ task[c] = "splicing" => told[parcel[c]] = "ok"
        /\ task[c] = "releasing" => told[parcel[c]] = "ended"

\* A claim in the table is a pair's.
ClaimsHeld == \A s \in active :
    \E a, b \in Client : asked[a] = s /\ (parcel[a] = b \/ mate[b] = a)

\* A client whose task ends without a partner is in no other task's hands.
Alone(c) ==
    /\ parcel[c] = None /\ mate[c] = None
    /\ \A d \in Client : parcel[d] # c /\ mate[d] # c

LEMMA NobodysMate ==
    ASSUME IInv, Met, NEW c \in Client
    PROVE  /\ task[c] \in {"absent", "reading"} => Alone(c)
           /\ \A s \in Session : waiting[s] = c => Alone(c)
           /\ c \in cut /\ task[c] \in Waits => Alone(c)
<1> USE DEF IInv, Alone
<1>1. /\ mate[c] # None => task[c] = "sending"
      /\ \A d \in Client : mate[d] = c => task[d] = "sending"
      /\ \A d \in Client : parcel[d] = c => task[c] = "given"
  BY DEF Met, Parcels
<1>2. task[c] \in {"absent", "reading"} => Alone(c)
  <2>1. parcel[c] # None => task[c] \notin {"absent", "reading"}
    BY DEF Parcels
  <2>2. \A d \in Client : mate[d] = c => task[c] \in Waits
    BY <1>1 DEF Partners
  <2> QED
    BY <1>1, <2>1, <2>2
<1>3. \A s \in Session : waiting[s] = c => Alone(c)
  BY <1>1 DEF TypeOK, Slots, Partners
<1>4. c \in cut /\ task[c] \in Waits => Alone(c)
  BY <1>1 DEF TypeOK, Parcels, Partners
<1> QED
  BY <1>2, <1>3, <1>4

LEMMA MetInit == Init => Met /\ ClaimsHeld
BY DEF Init, Met, ClaimsHeld

\* A task that ends with nobody in its hands and in nobody's.
LEMMA EndsMet ==
    ASSUME IInv, Met, NEW c \in Client, NEW a \in {"busy", "bad", "timeout", "ended"},
           task[c] \in {"absent", "reading"} \cup Waits, Alone(c),
           Ends(c, a), UNCHANGED <<mate, parcel>>,
           \A d \in Client \ {c} : asked'[d] = asked[d]
    PROVE  Met'
<1>1. /\ \A d \in Client : task'[d] = IF d = c THEN "ended" ELSE task[d]
      /\ \A d \in Client : told'[d] = IF d = c THEN a ELSE told[d]
  BY DEF Ends, IInv, TypeOK
<1>2. \A d \in Client : parcel[d] # c /\ (parcel[d] # None => parcel[d] \in Client)
  BY DEF Alone, IInv, TypeOK
<1> QED
  BY <1>1, <1>2 DEF Met, Alone

\* A task that moves and tells nobody anything.
LEMMA MovesMet ==
    ASSUME IInv, Met, NEW c \in Client,
           NEW t \in Waits \cup {"reading", "joined"},
           task' = [task EXCEPT ![c] = t],
           task[c] \in Waits \cup {"absent", "reading"},
           t = "joined" => parcel[c] # None,
           UNCHANGED <<told, mate, parcel>>,
           asked[c] # asked'[c] => Alone(c),
           \A d \in Client \ {c} : asked'[d] = asked[d]
    PROVE  Met'
<1>1. \A d \in Client : task'[d] = IF d = c THEN t ELSE task[d]
  BY DEF IInv, TypeOK
<1>2. \A d \in Client : parcel[d] # None =>
         parcel[d] \in Client /\ (asked'[c] = asked[c] \/ (parcel[d] # c /\ d # c))
  <2>1. \A d \in Client : parcel[d] # None => parcel[d] \in Client
    BY DEF IInv, TypeOK
  <2>2. Alone(c) => parcel[c] = None /\ \A d \in Client : parcel[d] # c
    BY DEF Alone
  <2> QED
    BY <2>1, <2>2
<1>3. task[c] \in {"absent", "reading"} => parcel[c] = None
  BY NobodysMate DEF Alone
<1> QED
  BY <1>1, <1>2, <1>3 DEF Met

\* Both sockets of a pair are dropped, or that of a client alone.
LEMMA ClosesMet ==
    ASSUME IInv, Met, NEW c \in Client, Closes(c),
           task' = [task EXCEPT ![c] = "releasing"],
           task[c] \in Joins \cup {"draining"},
           UNCHANGED <<asked, mate, parcel>>
    PROVE  Met'
<1>1. /\ \A d \in Client : task'[d] = IF d = c THEN "releasing" ELSE task[d]
      /\ \A d \in Client : told'[d] = IF d \in {c, parcel[c]} THEN "ended" ELSE told[d]
  BY DEF Closes, IInv, TypeOK
<1>2. \A d \in Client : /\ parcel[d] # None => parcel[d] \in Client /\ task[parcel[d]] = "given"
                        /\ parcel[d] # None /\ parcel[d] = parcel[c] => d = c
  BY DEF Met, IInv, TypeOK, Parcels
<1> QED
  BY <1>1, <1>2 DEF Met

LEMMA AcknowledgesMet ==
    ASSUME IInv, Met, NEW c \in Client, AcknowledgesFirst(c) \/ AcknowledgesSecond(c)
    PROVE  Met'
<1>1. UNCHANGED <<asked, mate, parcel>>
  BY DEF AcknowledgesFirst, AcknowledgesSecond, channelVars
<1>2. parcel[c] \in Client /\ task[parcel[c]] = "given" /\ task[c] \in Joins
  BY DEF AcknowledgesFirst, AcknowledgesSecond, Met, IInv, TypeOK, Parcels
<1>3. CASE Closes(c) /\ task' = [task EXCEPT ![c] = "releasing"]
  BY <1>1, <1>2, <1>3, ClosesMet
<1>4. \A d \in Client : /\ parcel[d] # None => parcel[d] \in Client /\ task[parcel[d]] = "given"
                        /\ parcel[d] # None /\ parcel[d] = parcel[c] => d = c
  BY DEF Met, IInv, TypeOK, Parcels
<1>5. CASE /\ task[c] = "joined" /\ told' = [told EXCEPT ![c] = "ok"]
           /\ task' = [task EXCEPT ![c] = "answered"]
  <2>1. /\ \A d \in Client : task'[d] = IF d = c THEN "answered" ELSE task[d]
        /\ \A d \in Client : told'[d] = IF d = c THEN "ok" ELSE told[d]
    BY <1>5 DEF IInv, TypeOK
  <2> QED
    BY <1>1, <1>2, <1>4, <1>5, <2>1 DEF Met
<1>6. CASE /\ task[c] = "answered" /\ told' = [told EXCEPT ![parcel[c]] = "ok"]
           /\ task' = [task EXCEPT ![c] = "splicing"]
  <2>1. /\ \A d \in Client : task'[d] = IF d = c THEN "splicing" ELSE task[d]
        /\ \A d \in Client : told'[d] = IF d = parcel[c] THEN "ok" ELSE told[d]
    BY <1>6 DEF IInv, TypeOK
  <2> QED
    BY <1>1, <1>2, <1>4, <1>6, <2>1 DEF Met
<1> QED
  BY <1>3, <1>5, <1>6 DEF AcknowledgesFirst, AcknowledgesSecond, Acknowledges

\* The socket is handed over: the waiter listens, so the other branch is dead.
LEMMA SendsOver ==
    ASSUME IInv, NEW c \in Client, Sends(c)
    PROVE  /\ mate[c] \in Client /\ mate[c] # c /\ task[c] = "sending"
           /\ task[mate[c]] \in Waits /\ parcel[mate[c]] = None
           /\ parcel' = [parcel EXCEPT ![mate[c]] = c]
           /\ task' = [task EXCEPT ![c] = "given"]
           /\ mate' = [mate EXCEPT ![c] = None]
           /\ UNCHANGED <<told, active, asked, swept>>
BY DEF Sends, IInv, Partners

LEMMA SendsMet == ASSUME IInv, Met, NEW c \in Client, Sends(c) PROVE Met'
<1>1. /\ \A d \in Client : task'[d] = IF d = c THEN "given" ELSE task[d]
      /\ \A d \in Client : parcel'[d] = IF d = mate[c] THEN c ELSE parcel[d]
      /\ \A d \in Client : mate'[d] = IF d = c THEN None ELSE mate[d]
      /\ UNCHANGED <<told, asked>>
  BY SendsOver DEF IInv, TypeOK
<1>2. /\ asked[mate[c]] = asked[c] /\ told[c] = "nothing"
      /\ \A d \in Client : parcel[d] # c
  BY SendsOver DEF IInv, Partners, Parcels, Met
<1> QED
  BY <1>1, <1>2, SendsOver DEF Met

LEMMA ReleasesMet == ASSUME IInv, Met, NEW c \in Client, Releases(c) PROVE Met'
<1>1. /\ \A d \in Client : task'[d] = IF d = c THEN "ended" ELSE task[d]
      /\ \A d \in Client : parcel'[d] = IF d = c THEN None ELSE parcel[d]
      /\ UNCHANGED <<told, asked, mate>>
      /\ task[c] = "releasing"
  BY DEF Releases, IInv, TypeOK
<1> QED
  BY <1>1 DEF Met

LEMMA ClaimsMet ==
    ASSUME IInv, Met, NEW c \in Client, NEW s \in Session, Claims(c, s)
    PROVE  Met'
<1>1. /\ Looks(c, s) /\ task[c] = "reading" /\ Alone(c)
      /\ \A d \in Client : asked'[d] = IF d = c THEN s ELSE asked[d]
      /\ UNCHANGED parcel
  <2>1. Looks(c, s) /\ task[c] = "reading"
    BY ClaimOutcomes DEF Looks
  <2>2. Alone(c)
    BY <2>1, NobodysMate
  <2> QED
    BY <2>1, <2>2 DEF Looks, IInv, TypeOK
<1>2. CASE Busy(c, s)
  BY <1>1, <1>2, EndsMet DEF Busy
<1>3. CASE Queues(c, s)
  BY <1>1, <1>3, MovesMet DEF Queues
<1>4. CASE Pairs(c, s)
  <2>1. /\ \A d \in Client : task'[d] = IF d = c THEN "sending" ELSE task[d]
        /\ \A d \in Client : mate'[d] = IF d = c THEN Kept[s] ELSE mate[d]
        /\ UNCHANGED told
    BY <1>4 DEF Pairs, IInv, TypeOK
  <2>2. /\ parcel[c] = None
        /\ \A d \in Client : parcel[d] # c /\ (parcel[d] # None => parcel[d] \in Client)
    BY <1>1 DEF Alone, IInv, TypeOK
  <2> QED
    BY <1>1, <2>1, <2>2 DEF Met
<1> QED
  BY <1>2, <1>3, <1>4, ClaimOutcomes

LEMMA MetStep == ASSUME IInv, Met, [Next]_vars PROVE Met'
<1>1. ASSUME NEW c \in Client, Connects(c) PROVE Met'
  <2>1. task[c] = "absent" /\ Alone(c) /\ UNCHANGED <<asked, mate, parcel>>
    BY <1>1, NobodysMate DEF Connects, channelVars
  <2>2. CASE Ends(c, "ended")
    BY <2>1, <2>2, EndsMet
  <2>3. CASE task' = [task EXCEPT ![c] = "reading"] /\ UNCHANGED told
    BY <2>1, <2>3, MovesMet
  <2> QED
    BY <1>1, <2>2, <2>3 DEF Connects
<1>2. CASE \/ UNCHANGED vars
           \/ \E c \in Client : ClientGoes(c) \/ Speaks(c) \/ Ages(c)
  <2>1. UNCHANGED <<task, told, asked, mate, parcel>>
    BY <1>2 DEF ClientGoes, Speaks, Ages, vars, channelVars
  <2> QED
    BY <2>1 DEF Met
<1>3. ASSUME NEW c \in Client, NoRequest(c) \/ Unsent(c) PROVE Met'
  <2>1. Alone(c) /\ UNCHANGED <<asked, mate, parcel>>
    BY <1>3, NobodysMate DEF NoRequest, Unsent, channelVars
  <2>2. task[c] \in {"reading", "waiting", "receiving"}
        /\ \E a \in {"timeout", "bad", "ended"} : Ends(c, a)
    BY <1>3 DEF NoRequest, Unsent
  <2> QED
    BY <2>1, <2>2, EndsMet
<1>4. ASSUME NEW c \in Client, LooksBack(c) PROVE Met'
  <2>1. task[c] \in {"expired", "left"} /\ UNCHANGED <<asked, mate, parcel>>
    BY <1>4 DEF LooksBack, channelVars
  <2>2. CASE waiting[asked[c]] = c /\ Ends(c, "timeout")
    <3>1. Alone(c)
      BY <2>1, <2>2, NobodysMate DEF IInv, Asked, Entered
    <3> QED
      BY <2>1, <2>2, <3>1, EndsMet
  <2>3. CASE \E t \in {"receiving", "draining"} :
                task' = [task EXCEPT ![c] = t] /\ UNCHANGED told
    BY <2>1, <2>3, MovesMet
  <2> QED
    BY <1>4, <2>2, <2>3 DEF LooksBack
<1>5. ASSUME NEW c \in Client, Receives(c) \/ Notices(c) \/ Expires(c) PROVE Met'
  <2>1. /\ task[c] \in Waits /\ UNCHANGED <<asked, told, mate, parcel>>
        /\ \E t \in {"joined", "left", "expired"} :
              /\ task' = [task EXCEPT ![c] = t]
              /\ t = "joined" => parcel[c] # None
    BY <1>5 DEF Receives, Notices, Expires, channelVars
  <2> QED
    BY <2>1, MovesMet
<1>6. ASSUME NEW c \in Client, Drains(c) \/ SpliceEnds(c) PROVE Met'
  BY <1>6, ClosesMet DEF Drains, SpliceEnds, channelVars
<1> QED
  BY <1>1, <1>2, <1>3, <1>4, <1>5, <1>6, AcknowledgesMet, SendsMet, ReleasesMet, ClaimsMet
  DEF Next, TaskStep

\* Who was told ok is spliced or about to be, and so is its partner.
Spliced == \A c \in Client : told[c] = "ok" =>
    \/ task[c] \in {"answered", "splicing"}
    \/ \E d \in Client : task[d] = "splicing" /\ parcel[d] = c

LEMMA SplicedInit == Init => Spliced
BY DEF Init, Spliced

\* The steps that neither tell a client ok nor touch a splice.
LEMMA SplicedKept ==
    ASSUME Spliced,
           \A c \in Client : told'[c] = "ok" => told[c] = "ok",
           \A d \in Client : task[d] \in {"answered", "splicing"} =>
               task'[d] = task[d] /\ parcel'[d] = parcel[d]
    PROVE  Spliced'
BY DEF Spliced

LEMMA ClosesSpliced ==
    ASSUME IInv, Spliced, NEW c \in Client, Closes(c),
           task' = [task EXCEPT ![c] = "releasing"], UNCHANGED parcel
    PROVE  Spliced'
<1>1. /\ \A d \in Client : task'[d] = IF d = c THEN "releasing" ELSE task[d]
      /\ \A d \in Client : told'[d] = IF d \in {c, parcel[c]} THEN "ended" ELSE told[d]
  BY DEF Closes, IInv, TypeOK
<1> QED
  BY <1>1 DEF Spliced

LEMMA SplicedStep == ASSUME IInv, Met, Spliced, [Next]_vars PROVE Spliced'
<1>1. ASSUME NEW c \in Client, AcknowledgesFirst(c) \/ AcknowledgesSecond(c)
      PROVE  Spliced'
  <2>1. UNCHANGED parcel /\ parcel[c] \in Client
    BY <1>1 DEF AcknowledgesFirst, AcknowledgesSecond, channelVars, Met, IInv, TypeOK
  <2>2. CASE Closes(c) /\ task' = [task EXCEPT ![c] = "releasing"]
    BY <2>1, <2>2, ClosesSpliced
  <2>3. CASE /\ task[c] = "joined" /\ told' = [told EXCEPT ![c] = "ok"]
             /\ task' = [task EXCEPT ![c] = "answered"]
    <3>1. /\ \A d \in Client : task'[d] = IF d = c THEN "answered" ELSE task[d]
          /\ \A d \in Client : told'[d] = IF d = c THEN "ok" ELSE told[d]
      BY <2>3 DEF IInv, TypeOK
    <3> QED
      BY <2>1, <2>3, <3>1 DEF Spliced
  <2>4. CASE /\ task[c] = "answered" /\ told' = [told EXCEPT ![parcel[c]] = "ok"]
             /\ task' = [task EXCEPT ![c] = "splicing"]
    <3>1. /\ \A d \in Client : task'[d] = IF d = c THEN "splicing" ELSE task[d]
          /\ \A d \in Client : told'[d] = IF d = parcel[c] THEN "ok" ELSE told[d]
      BY <2>4 DEF IInv, TypeOK
    <3> QED
      BY <2>1, <2>4, <3>1 DEF Spliced
  <2> QED
    BY <1>1, <2>2, <2>3, <2>4 DEF AcknowledgesFirst, AcknowledgesSecond, Acknowledges
<1>2. ASSUME NEW c \in Client, Drains(c) \/ SpliceEnds(c) PROVE Spliced'
  BY <1>2, ClosesSpliced DEF Drains, SpliceEnds, channelVars
<1>3. ASSUME NEW c \in Client, NEW a \in {"busy", "bad", "timeout", "ended"}, Ends(c, a),
             task[c] \notin {"answered", "splicing"}, UNCHANGED parcel
      PROVE  Spliced'
  <2>1. /\ \A d \in Client : task'[d] = IF d = c THEN "ended" ELSE task[d]
        /\ \A d \in Client : told'[d] = IF d = c THEN a ELSE told[d]
    BY <1>3 DEF Ends, IInv, TypeOK
  <2> QED
    BY <1>3, <2>1, SplicedKept
<1>4. ASSUME NEW c \in Client, NEW t, task' = [task EXCEPT ![c] = t],
             task[c] \notin {"answered", "splicing"},
             UNCHANGED told, \A d \in Client : task[d] \in Joins => parcel'[d] = parcel[d]
      PROVE  Spliced'
  <2>1. \A d \in Client : task'[d] = IF d = c THEN t ELSE task[d]
    BY <1>4 DEF IInv, TypeOK
  <2> QED
    BY <1>4, <2>1, SplicedKept
<1>5. ASSUME NEW c \in Client, Connects(c) \/ NoRequest(c) \/ Unsent(c) \/ LooksBack(c)
      PROVE  Spliced'
  <2>1. UNCHANGED parcel /\ task[c] \notin {"answered", "splicing"}
    BY <1>5 DEF Connects, NoRequest, Unsent, LooksBack, channelVars
  <2> QED
    BY <1>3, <1>4, <1>5, <2>1 DEF Connects, NoRequest, Unsent, LooksBack
<1>6. ASSUME NEW c \in Client, NEW s \in Session, Claims(c, s) PROVE Spliced'
  <2>1. task[c] = "reading" /\ UNCHANGED parcel
    BY <1>6 DEF Claims
  <2> QED
    BY <1>3, <1>4, <1>6, <2>1 DEF Claims
<1>7. ASSUME NEW c \in Client, Receives(c) \/ Notices(c) \/ Expires(c) PROVE Spliced'
  <2>1. /\ UNCHANGED <<told, parcel>> /\ task[c] \in Waits
        /\ \E t \in {"joined", "left", "expired"} : task' = [task EXCEPT ![c] = t]
    BY <1>7 DEF Receives, Notices, Expires, channelVars
  <2> QED
    BY <1>4, <2>1
<1>8. ASSUME NEW c \in Client, Sends(c) PROVE Spliced'
  <2>1. \A d \in Client : task[d] \in Joins => parcel'[d] = parcel[d]
    <3>1. \A d \in Client : parcel'[d] = IF d = mate[c] THEN c ELSE parcel[d]
      BY <1>8, SendsOver DEF IInv, TypeOK
    <3> QED
      BY <1>8, <3>1, SendsOver
  <2> QED
    BY <1>4, <1>8, <2>1, SendsOver
<1>9. ASSUME NEW c \in Client, Releases(c) PROVE Spliced'
  <2>1. \A d \in Client : task[d] \in Joins => parcel'[d] = parcel[d]
    BY <1>9 DEF Releases, IInv, TypeOK
  <2> QED
    BY <1>4, <1>9, <2>1 DEF Releases
<1>10. CASE \/ UNCHANGED vars
            \/ \E c \in Client : ClientGoes(c) \/ Speaks(c) \/ Ages(c)
  <2>1. UNCHANGED <<task, told, parcel>>
    BY <1>10 DEF ClientGoes, Speaks, Ages, vars, channelVars
  <2> QED
    BY <2>1, SplicedKept
<1> QED
  BY <1>1, <1>2, <1>5, <1>6, <1>7, <1>8, <1>9, <1>10 DEF Next, TaskStep

\* A client that was told ok has a partner under the same session.
THEOREM PartnersOk == Spec => []OkHasPartner
<1>1. ASSUME IInv, Met, Spliced PROVE OkHasPartner
  <2> SUFFICES ASSUME NEW c \in Client, told[c] = "ok"
               PROVE  \E d \in Client \ {c} :
                        /\ asked[d] = asked[c]
                        /\ \/ task[c] \in Joins /\ parcel[c] = d
                           \/ task[d] \in Joins /\ parcel[d] = c
    BY DEF OkHasPartner
  <2>1. \A d \in Client : parcel[d] # None =>
           /\ parcel[d] \in Client \ {d}
           /\ asked[parcel[d]] = asked[d]
    BY <1>1 DEF IInv, TypeOK, Parcels, Met
  <2>2. CASE task[c] \in {"answered", "splicing"}
    BY <1>1, <2>1, <2>2 DEF Met
  <2>3. CASE \E d \in Client : task[d] = "splicing" /\ parcel[d] = c
    BY <2>1, <2>3
  <2> QED
    BY <1>1, <2>2, <2>3 DEF Spliced
<1>2. IInv /\ Met /\ Spliced => OkHasPartner
  BY <1>1
<1> QED
  BY <1>2, MetInit, MetStep, SplicedInit, SplicedStep, Invariant, PTL DEF Spec

-----------------------------------------------------------------------------
LEMMA InPairs ==
    /\ \A a, b \in Client : <<a, b>> \in pairs <=> parcel[a] = b \/ mate[b] = a
    /\ \A p \in pairs : /\ p[1] \in Client /\ p[2] \in Client /\ p = <<p[1], p[2]>>
                        /\ parcel[p[1]] = p[2] \/ mate[p[2]] = p[1]
BY DEF pairs

LEMMA PairsAfter ==
    /\ \A a, b \in Client : <<a, b>> \in pairs' <=> parcel'[a] = b \/ mate'[b] = a
    /\ \A p \in pairs' : /\ p[1] \in Client /\ p[2] \in Client /\ p = <<p[1], p[2]>>
                         /\ parcel'[p[1]] = p[2] \/ mate'[p[2]] = p[1]
BY DEF pairs

LEMMA PairsSame == ASSUME UNCHANGED <<parcel, mate>> PROVE pairs' = pairs
BY DEF pairs

LEMMA SingleIsAlone ==
    ASSUME NEW c \in Client, Alone(c)
    PROVE  Meeting!Single(c)
BY InPairs DEF Meeting!Single, Meeting!Members, Alone

\* Whose socket is where, read off the pairs.
LEMMA PairTold ==
    ASSUME IInv, Met, NEW p \in pairs
    PROVE  /\ asked[p[1]] \in Session /\ asked[p[2]] = asked[p[1]]
           /\ Holder(p[1], asked[p[1]]) \/ Holder(p[2], asked[p[1]])
<1>1. p[1] \in Client /\ p[2] \in Client
  BY InPairs
<1>2. CASE parcel[p[1]] = p[2]
  BY <1>1, <1>2 DEF Met, IInv, Parcels, Asked, Entered, Holder
<1>3. CASE mate[p[2]] = p[1]
  BY <1>1, <1>3 DEF Met, IInv, Partners, Asked, Entered, Holder
<1> QED
  BY <1>2, <1>3, InPairs

\* An unspoiled session that the table does not hold has no pair.
LEMMA NotHeld ==
    ASSUME IInv, Met, NEW s \in Session, s \notin active, Meeting!Holds(s)
    PROVE  s \in swept
<1>1. PICK p \in pairs : asked[p[1]] = s
  BY DEF Meeting!Holds
<1>2. \E c \in Client : Holder(c, s)
  BY <1>1, PairTold, InPairs
<1> QED
  BY <1>2 DEF IInv, Claimed

LEMMA HeldByPair ==
    ASSUME ClaimsHeld, NEW s \in active
    PROVE  Meeting!Holds(s)
<1>1. PICK a \in Client, b \in Client : asked[a] = s /\ (parcel[a] = b \/ mate[b] = a)
  BY DEF ClaimsHeld
<1>2. <<a, b>> \in pairs /\ <<a, b>>[1] = a
  BY <1>1, InPairs
<1> QED
  BY <1>1, <1>2 DEF Meeting!Holds

LEMMA HeldSame ==
    ASSUME ClaimsHeld, active' \subseteq active,
           \A a, b \in Client : asked[a] \in active' /\ (parcel[a] = b \/ mate[b] = a)
              => asked'[a] = asked[a] /\ (parcel'[a] = b \/ mate'[b] = a)
    PROVE  ClaimsHeld'
<1> SUFFICES ASSUME NEW s \in active'
             PROVE  \E a, b \in Client : asked'[a] = s /\ (parcel'[a] = b \/ mate'[b] = a)
  BY DEF ClaimsHeld
<1>1. PICK a \in Client, b \in Client : asked[a] = s /\ (parcel[a] = b \/ mate[b] = a)
  BY DEF ClaimsHeld
<1> QED
  BY <1>1

LEMMA ClaimsHeldStep == ASSUME IInv, Met, ClaimsHeld, [Next]_vars PROVE ClaimsHeld'
<1>1. CASE UNCHANGED <<active, asked, parcel, mate>>
  BY <1>1, HeldSame
<1>2. ASSUME NEW c \in Client, NEW s \in Session, Claims(c, s) PROVE ClaimsHeld'
  <2>1. /\ Alone(c) /\ UNCHANGED parcel
        /\ \A d \in Client : asked'[d] = IF d = c THEN s ELSE asked[d]
    BY <1>2, NobodysMate DEF Claims, IInv, TypeOK
  <2>2. CASE Busy(c, s) \/ Queues(c, s)
    <3>1. UNCHANGED <<active, mate>>
      BY <2>2 DEF Busy, Queues
    <3>2. \A a, b \in Client : parcel[a] = b \/ mate[b] = a => a # c
      BY <2>1 DEF Alone, IInv, TypeOK
    <3> QED
      BY <2>1, <3>1, <3>2, HeldSame
  <2>3. CASE Pairs(c, s)
    <3>1. /\ active' = active \cup {s}
          /\ \A d \in Client : mate'[d] = IF d = c THEN Kept[s] ELSE mate[d]
          /\ Kept[s] \in Client /\ Kept[s] = waiting[s]
      BY <2>3, Sweeps DEF Pairs, IInv, TypeOK
    <3>2. asked[Kept[s]] = s
      BY <3>1 DEF IInv, Slots
    <3> SUFFICES ASSUME NEW t \in active'
                 PROVE  \E a, b \in Client : asked'[a] = t /\ (parcel'[a] = b \/ mate'[b] = a)
      BY DEF ClaimsHeld
    <3>3. CASE t = s
      BY <2>1, <3>1, <3>2, <3>3
    <3>4. CASE t \in active
      <4>1. PICK a \in Client, b \in Client : asked[a] = t /\ (parcel[a] = b \/ mate[b] = a)
        BY <3>4 DEF ClaimsHeld
      <4>2. a # c /\ b # c
        BY <2>1, <4>1 DEF Alone
      <4> QED
        BY <2>1, <3>1, <4>1, <4>2
    <3> QED
      BY <3>1, <3>3, <3>4
  <2> QED
    BY <1>2, <2>2, <2>3, ClaimOutcomes
<1>3. ASSUME NEW c \in Client, Sends(c) PROVE ClaimsHeld'
  <2>1. /\ \A d \in Client : parcel'[d] = IF d = mate[c] THEN c ELSE parcel[d]
        /\ \A d \in Client : mate'[d] = IF d = c THEN None ELSE mate[d]
        /\ parcel[mate[c]] = None /\ UNCHANGED <<asked, active>>
    BY <1>3, SendsOver DEF IInv, TypeOK
  <2>2. \A a, b \in Client : parcel[a] = b \/ mate[b] = a
                             => parcel'[a] = b \/ mate'[b] = a
    BY <2>1
  <2> QED
    BY <2>1, <2>2, HeldSame
<1>4. ASSUME NEW c \in Client, Releases(c) PROVE ClaimsHeld'
  <2>1. /\ \A d \in Client : parcel'[d] = IF d = c THEN None ELSE parcel[d]
        /\ active' = active \ {asked[c]} /\ UNCHANGED <<asked, mate>>
    BY <1>4 DEF Releases, IInv, TypeOK
  <2> QED
    BY <2>1, HeldSame
<1>5. ASSUME NEW c \in Client,
             \/ Connects(c) \/ ClientGoes(c) \/ Speaks(c) \/ Ages(c) \/ NoRequest(c) \/ Receives(c)
             \/ Unsent(c) \/ Notices(c) \/ Expires(c) \/ LooksBack(c) \/ Drains(c)
             \/ AcknowledgesFirst(c) \/ AcknowledgesSecond(c) \/ SpliceEnds(c)
      PROVE  ClaimsHeld'
  <2>1. UNCHANGED <<active, asked, parcel, mate>>
    BY <1>5
    DEF Connects, ClientGoes, Speaks, Ages, NoRequest, Receives, Unsent, Notices, Expires,
        LooksBack, Drains, AcknowledgesFirst, AcknowledgesSecond, SpliceEnds,
        channelVars, tableVars
  <2> QED
    BY <2>1, <1>1
<1>6. CASE UNCHANGED vars
  BY <1>1, <1>6 DEF vars, channelVars, tableVars
<1> QED
  BY <1>2, <1>3, <1>4, <1>5, <1>6 DEF Next, TaskStep

\* No claim and no slot outlives the tasks that would take it out of the table.
THEOREM Owners == Spec => []TablesHaveOwners
<1>1. ASSUME IInv, Met, ClaimsHeld PROVE TablesHaveOwners
  <2>1. ASSUME NEW s \in Session, waiting[s] # None
        PROVE  waiting[s] \in Permits /\ asked[waiting[s]] = s
    <3>1. waiting[s] \in Client
      BY <1>1, <2>1 DEF IInv, TypeOK
    <3>2. task[waiting[s]] \in {"waiting", "expired", "left"} /\ asked[waiting[s]] = s
      BY <1>1, <2>1 DEF IInv, Slots
    <3> QED BY <3>1, <3>2 DEF Permits
  <2>2. ASSUME NEW s \in Session, s \in active
        PROVE  \E c \in Permits :
                  /\ asked[c] = s
                  /\ task[c] \in Joins \cup {"sending", "releasing"} \/ parcel[c] # None
    <3>1. PICK a \in Client, b \in Client : asked[a] = s /\ (parcel[a] = b \/ mate[b] = a)
      BY <1>1, <2>2 DEF ClaimsHeld
    <3>2. CASE parcel[a] = b
      BY <1>1, <3>1, <3>2 DEF IInv, Parcels, Permits
    <3>3. CASE mate[b] = a
      <4>1. task[b] = "sending" /\ asked[b] = s
        BY <1>1, <3>1, <3>3 DEF IInv, Partners, Met
      <4> QED
        BY <4>1 DEF Permits
    <3> QED
      BY <3>1, <3>2, <3>3
  <2> QED
    BY <2>1, <2>2 DEF TablesHaveOwners
<1>2. IInv /\ Met /\ ClaimsHeld => TablesHaveOwners
  BY <1>1
<1> QED
  BY <1>2, MetInit, MetStep, ClaimsHeldStep, Invariant, PTL DEF Spec

-----------------------------------------------------------------------------
(* Each step is a step of Rendezvous, or none.                             *)

LEMMA MeetingStutters ==
    ASSUME UNCHANGED <<asked, told, parcel, mate, swept>>
    PROVE  UNCHANGED Meeting!vars
BY PairsSame DEF Meeting!vars

LEMMA EndsTurnsAway ==
    ASSUME IInv, Met, NEW c \in Client, NEW a \in {"timeout", "bad", "ended"}, Ends(c, a),
           a = "bad" => asked[c] = NoSession,
           task[c] \in {"absent", "reading"} \cup Waits, Alone(c),
           UNCHANGED <<asked, mate, parcel, swept>>
    PROVE  Meeting!TurnAway(c)
BY SingleIsAlone, PairsSame DEF Meeting!TurnAway, Ends, Met

LEMMA ClosesParts ==
    ASSUME IInv, Met, NEW c \in Client, Closes(c), task[c] \in Joins \cup {"draining"},
           UNCHANGED <<asked, mate, parcel, swept>>, parcel[c] # None
    PROVE  Meeting!Next
<1>1. /\ parcel[c] \in Client
      /\ <<c, parcel[c]>> \in pairs
      /\ <<c, parcel[c]>>[1] = c /\ <<c, parcel[c]>>[2] = parcel[c]
  BY InPairs DEF IInv, TypeOK
<1>2. told[c] \in {"nothing", "ok"} /\ told[parcel[c]] \in {"nothing", "ok"}
  BY DEF Met
<1>3. Meeting!Part(<<c, parcel[c]>>)
  BY <1>1, <1>2, PairsSame DEF Meeting!Part, Meeting!Members, Closes
<1> QED
  BY <1>1, <1>3 DEF Meeting!Next

\* A client that left and whose slot was swept takes nobody with it.
LEMMA DrainsAlone ==
    ASSUME IInv, Met, NEW c \in Client, Drains(c), parcel[c] = None
    PROVE  Meeting!TurnAway(c)
<1>1. /\ c \in cut /\ task[c] = "draining"
      /\ UNCHANGED <<asked, mate, parcel, swept>>
      /\ \A d \in Client : told'[d] = IF d \in {c, None} THEN "ended" ELSE told[d]
      /\ told' \in [Client -> {"ended", "nothing", "ok", "busy", "bad", "timeout"}]
  BY DEF Drains, Closes, channelVars, tableVars, IInv, TypeOK
<1>2. Alone(c) /\ told[c] = "nothing"
  BY <1>1, NobodysMate DEF Met
<1>3. told' = [told EXCEPT ![c] = "ended"]
  BY <1>1 DEF IInv, TypeOK
<1> QED
  BY <1>1, <1>2, <1>3, SingleIsAlone, PairsSame DEF Meeting!TurnAway

LEMMA AcknowledgeMeets ==
    ASSUME IInv, Met, NEW c \in Client, AcknowledgesFirst(c) \/ AcknowledgesSecond(c)
    PROVE  Meeting!Next
<1>1. /\ UNCHANGED <<asked, mate, parcel, swept>>
      /\ task[c] \in {"joined", "answered"} /\ parcel[c] # None
      /\ parcel[c] \in Client /\ parcel[c] # c
  BY DEF AcknowledgesFirst, AcknowledgesSecond, channelVars, tableVars, Met, IInv,
         TypeOK, Parcels
<1>2. /\ <<c, parcel[c]>> \in pairs
      /\ <<c, parcel[c]>>[1] = c /\ <<c, parcel[c]>>[2] = parcel[c]
  BY <1>1, InPairs
<1>3. CASE Closes(c)
  BY <1>1, <1>3, ClosesParts
<1>4. CASE task[c] = "joined" /\ told' = [told EXCEPT ![c] = "ok"]
  <2>1. told[c] = "nothing"
    BY <1>4 DEF Met
  <2>2. Meeting!Acknowledge(<<c, parcel[c]>>, c)
    BY <1>1, <1>2, <1>4, <2>1, PairsSame DEF Meeting!Acknowledge, Meeting!Members
  <2> QED
    BY <1>2, <2>2 DEF Meeting!Next
<1>5. CASE task[c] = "answered" /\ told' = [told EXCEPT ![parcel[c]] = "ok"]
  <2>1. told[parcel[c]] = "nothing" /\ told[c] = "ok"
    BY <1>1, <1>5 DEF Met
  <2>2. Meeting!Acknowledge(<<c, parcel[c]>>, parcel[c])
    BY <1>1, <1>2, <1>5, <2>1, PairsSame DEF Meeting!Acknowledge, Meeting!Members
  <2> QED
    BY <1>1, <1>2, <2>2 DEF Meeting!Next
<1> QED
  BY <1>3, <1>4, <1>5 DEF AcknowledgesFirst, AcknowledgesSecond, Acknowledges

LEMMA SendsMeets ==
    ASSUME IInv, Met, NEW c \in Client, Sends(c)
    PROVE  UNCHANGED Meeting!vars
<1>1. /\ \A d \in Client : parcel'[d] = IF d = mate[c] THEN c ELSE parcel[d]
      /\ \A d \in Client : mate'[d] = IF d = c THEN None ELSE mate[d]
      /\ mate[c] \in Client /\ parcel[mate[c]] = None
      /\ UNCHANGED <<asked, told, swept>>
  BY SendsOver DEF IInv, TypeOK
<1>2. \A a, b \in Client : (parcel'[a] = b \/ mate'[b] = a) <=> (parcel[a] = b \/ mate[b] = a)
  BY <1>1
<1>3. pairs' = pairs
  BY <1>2 DEF pairs
<1> QED
  BY <1>1, <1>3 DEF Meeting!vars

LEMMA ReleasesMeets ==
    ASSUME IInv, Met, NEW c \in Client, Releases(c)
    PROVE  [Meeting!Next]_(Meeting!vars)
<1>1. /\ \A d \in Client : parcel'[d] = IF d = c THEN None ELSE parcel[d]
      /\ task[c] = "releasing" /\ UNCHANGED <<asked, told, mate, swept>>
  BY DEF Releases, IInv, TypeOK
<1>2. CASE parcel[c] = None
  <2>1. \A a, b \in Client : parcel'[a] = b <=> parcel[a] = b
    BY <1>1, <1>2
  <2>2. pairs' = pairs
    BY <1>1, <2>1 DEF pairs
  <2> QED
    BY <1>1, <2>2 DEF Meeting!vars
<1>3. CASE parcel[c] # None
  <2> DEFINE p == <<c, parcel[c]>>
  <2>1. /\ parcel[c] \in Client /\ p \in pairs /\ p[1] = c /\ p[2] = parcel[c]
        /\ task[parcel[c]] = "given"
    BY <1>3, InPairs DEF IInv, TypeOK, Parcels
  <2>2. mate[parcel[c]] # c
    BY <2>1 DEF Met
  <2>3. \A a, b \in Client : (parcel'[a] = b \/ mate'[b] = a)
                             <=> (parcel[a] = b \/ mate[b] = a) /\ <<a, b>> # p
    BY <1>1, <2>1, <2>2
  <2> HIDE DEF p
  <2>4. pairs' = pairs \ {p}
    BY <2>3 DEF pairs
  <2>5. told[c] = "ended" /\ told[parcel[c]] = "ended"
    BY <1>1, <1>3 DEF Met
  <2>6. Meeting!Release(p)
    BY <1>1, <2>1, <2>4, <2>5 DEF Meeting!Release, Meeting!Members
  <2> QED
    BY <2>1, <2>6 DEF Meeting!Next
<1> QED
  BY <1>2, <1>3

LEMMA ClaimsMeets ==
    ASSUME IInv, Met, ClaimsHeld, NEW c \in Client, NEW s \in Session, Claims(c, s)
    PROVE  Meeting!Next
<1>1. /\ task[c] = "reading" /\ Alone(c) /\ asked[c] = NoSession /\ told[c] = "nothing"
      /\ asked' = [asked EXCEPT ![c] = s]
      /\ UNCHANGED parcel
  BY NobodysMate, StillReading DEF Claims, Met
<1>2. \A t \in Session : waiting[t] # None =>
         /\ waiting[t] \in Client /\ asked[waiting[t]] = t
         /\ Meeting!Waits(waiting[t])
  BY NobodysMate, SingleIsAlone DEF Meeting!Waits, IInv, TypeOK, Slots, Met
<1>3. Meeting!Asks(c, s)
  <2>1. \A t \in Stale : t \in Session /\ waiting[t] \in Client
    BY Sweeps DEF Stale
  <2>2. Stale \in SUBSET {asked[d] : d \in {e \in Client : Meeting!Waits(e)}}
    BY <1>2, <2>1
  <2>3. swept' = swept \cup Stale
    BY DEF Claims
  <2> QED
    BY <1>1, <2>2, <2>3 DEF Meeting!Asks
<1>4. CASE Busy(c, s) /\ s \in active
  <2>1. Meeting!Holds(s)
    BY <1>4, HeldByPair
  <2>2. told' = [told EXCEPT ![c] = "busy"] /\ pairs' = pairs
    BY <1>1, <1>4, PairsSame DEF Busy, Ends
  <2>3. Meeting!Refuse(c, s)
    BY <1>3, <2>1, <2>2 DEF Meeting!Refuse
  <2> QED
    BY <2>3 DEF Meeting!Next
<1>5. ASSUME s \notin active PROVE Meeting!Holds(s) => s \in swept'
  BY <1>5, NotHeld DEF Claims
<1>6. CASE Queues(c, s)
  <2>1. UNCHANGED told /\ pairs' = pairs /\ s \notin active
    BY <1>1, <1>6, PairsSame DEF Queues
  <2>2. Meeting!Stay(c, s)
    BY <1>3, <1>5, <2>1 DEF Meeting!Stay
  <2> QED
    BY <2>2 DEF Meeting!Next
<1>7. CASE Pairs(c, s)
  <2>1. /\ Kept[s] \in Client /\ Kept[s] = waiting[s]
        /\ \A d \in Client : mate'[d] = IF d = c THEN Kept[s] ELSE mate[d]
        /\ UNCHANGED told /\ s \notin active
    BY <1>7, Sweeps DEF Pairs, IInv, TypeOK
  <2>2. Meeting!Waits(Kept[s]) /\ asked[Kept[s]] = s /\ Kept[s] # c
    BY <1>1, <1>2, <2>1 DEF IInv, TypeOK
  <2>3. \A a, b \in Client : (parcel'[a] = b \/ mate'[b] = a)
                             <=> (parcel[a] = b \/ mate[b] = a) \/ <<a, b>> = <<Kept[s], c>>
    BY <1>1, <2>1 DEF Alone
  <2>4. pairs' = pairs \cup {<<Kept[s], c>>}
    BY <2>1, <2>3, InPairs, PairsAfter
  <2>5. Meeting!Meet(c, Kept[s], s)
    BY <1>3, <1>5, <2>1, <2>2, <2>4 DEF Meeting!Meet
  <2> QED
    BY <2>1, <2>2, <2>5 DEF Meeting!Next
<1> QED
  BY <1>4, <1>6, <1>7 DEF Claims, Busy, Queues, Pairs

LEMMA MeetingStep ==
    ASSUME IInv, Met, ClaimsHeld, [Next]_vars
    PROVE  [Meeting!Next]_(Meeting!vars)
<1>1. ASSUME NEW c \in Client, Meeting!TurnAway(c) PROVE Meeting!Next
  BY <1>1 DEF Meeting!Next
<1>2. ASSUME NEW c \in Client, Connects(c) \/ NoRequest(c) \/ Unsent(c)
      PROVE  [Meeting!Next]_(Meeting!vars)
  <2>1. /\ task[c] \in {"absent", "reading"} \cup Waits /\ Alone(c)
        /\ UNCHANGED <<asked, mate, parcel, swept>>
        /\ \/ UNCHANGED told
           \/ Ends(c, "ended") \/ Ends(c, "timeout")
           \/ asked[c] = NoSession /\ Ends(c, "bad")
    BY <1>2, NobodysMate
    DEF Connects, NoRequest, Unsent, channelVars, tableVars, IInv, Asked
  <2> QED
    BY <1>1, <2>1, EndsTurnsAway, MeetingStutters
<1>3. ASSUME NEW c \in Client, LooksBack(c) PROVE [Meeting!Next]_(Meeting!vars)
  <2>1. /\ task[c] \in Waits /\ asked[c] \in Session
        /\ UNCHANGED <<asked, mate, parcel, swept>>
        /\ UNCHANGED told \/ (waiting[asked[c]] = c /\ Ends(c, "timeout"))
    BY <1>3 DEF LooksBack, channelVars, IInv, Asked, Entered
  <2>2. waiting[asked[c]] = c => Alone(c)
    BY <2>1, NobodysMate
  <2> QED
    BY <1>1, <2>1, <2>2, EndsTurnsAway, MeetingStutters
<1>4. ASSUME NEW c \in Client, Drains(c) \/ SpliceEnds(c)
      PROVE  Meeting!Next
  <2>1. /\ Closes(c) /\ task[c] \in Joins \cup {"draining"}
        /\ UNCHANGED <<asked, mate, parcel, swept>>
        /\ SpliceEnds(c) => parcel[c] # None
    BY <1>4 DEF Drains, SpliceEnds, channelVars, tableVars, Met
  <2> QED
    BY <1>1, <1>4, <2>1, ClosesParts, DrainsAlone
<1>5. CASE \/ UNCHANGED vars
           \/ \E c \in Client : ClientGoes(c) \/ Speaks(c) \/ Ages(c) \/ Receives(c) \/ Notices(c)
                                \/ Expires(c)
  <2>1. UNCHANGED <<asked, told, parcel, mate, swept>>
    BY <1>5 DEF ClientGoes, Speaks, Ages, Receives, Notices, Expires, vars, channelVars, tableVars
  <2> QED
    BY <2>1, MeetingStutters
<1> QED
  BY <1>2, <1>3, <1>4, <1>5, ClaimsMeets, SendsMeets, ReleasesMeets, AcknowledgeMeets
  DEF Next, TaskStep

\* For any number of clients, permits and sessions the relay implements
\* Rendezvous: ok means a partner, busy means a pair, a pair ends together and a
\* session holds one at a time, unless a sweep dropped one of its slots.
THEOREM Implements == Spec => ImplementsRendezvous
<1>1. Init => Meeting!Init
  BY DEF Init, Meeting!Init, pairs
<1> QED
  BY <1>1, MetInit, MetStep, ClaimsHeldStep, MeetingStep, Invariant, PTL
  DEF Spec, ImplementsRendezvous, Meeting!Spec
=============================================================================
