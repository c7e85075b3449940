------------------------- MODULE SwapMailbox_proofs -------------------------
(***************************************************************************)
(* Theorems about asking for an update, for every set of stagers and       *)
(* builds and every number of runs and faults.                             *)
(***************************************************************************)
EXTENDS SwapMailbox, TLAPS

(* What the definitions of the records give a step: stated once, so that   *)
(* the steps below never expand a set of records.                          *)
LEMMA RecordFacts ==
    /\ NoRequest.by = None /\ NoRequest.at = 0 /\ NoRequest.build = None
    /\ NoResult.outcome = "none" /\ NoResult.at = 0
    /\ NoResult.build = None /\ NoResult.req = NoRequest
    /\ NoRequest \notin Request /\ NoResult \notin Result
    /\ \A r \in Request : r.by \in Client /\ r.at \in Nat /\ r.build \in Build
    /\ \A r \in Result : /\ r.outcome \in Outcome /\ r.build \in Build \cup {None}
                         /\ r.at \in Nat /\ r.req \in Request
    /\ \A c \in Client, t \in Nat, b \in Build :
         [by |-> c, at |-> t, build |-> b] \in Request
    /\ \A o \in Outcome, b \in Build \cup {None}, t \in Nat, q \in Request :
         [outcome |-> o, build |-> b, at |-> t, req |-> q] \in Result
BY BuildAssumption DEF NoRequest, NoResult, Request, Result, Outcome

(* An applied or rolled-back result names its build.                       *)
Named(r) == r.outcome \in {"applied", "rolled_back"} => r.build \in Build

TypeInv ==
    /\ TypeOK
    /\ sup # "poll" => taken \in Request
    /\ Named(out) /\ Named(result)
    /\ \A c \in Client : step[c] \notin {"idle", "fetch"} => pick[c] \in Build

LEMMA TypeInvInit == Init => TypeInv
<1> SUFFICES ASSUME Init PROVE TypeInv
  OBVIOUS
<1>1. overlapped \in BOOLEAN /\ misled \in BOOLEAN
  BY Zenon DEF Init
<1>2. doc \in Doc /\ copy \in Doc
  BY DEF Init, Doc
<1> QED
  BY <1>1, <1>2, BuildAssumption, FaultAssumption, RecordFacts
  DEF Init, TypeInv, TypeOK, Named, StagerPlaces, SupervisorPlaces

(* The two folds keep a document a document.                               *)
LEMMA IngestType ==
    ASSUME NEW d \in Doc, NEW r \in Request \cup {NoRequest}
    PROVE  Ingest(d, r) \in Doc
BY BuildAssumption, RecordFacts DEF Ingest, Doc

LEMMA FoldType ==
    ASSUME NEW d \in Doc, NEW r \in Result \cup {NoResult}, Named(r)
    PROVE  Fold(d, r) \in Doc
<1>1. CASE ~Newer(d, r)
  BY <1>1 DEF Fold
<1>2. CASE Newer(d, r)
  <2>1. r \in Result
    BY <1>2 DEF Newer
  <2>2. r.outcome # "refused" => r.build \in Build
    BY <2>1, RecordFacts DEF Named, Outcome
  <2>3. r.outcome # "refused" => VersionOf[r.build] \in Version
    BY <2>2, BuildAssumption
  <2>4. d.to \in Version \cup {None} /\ d.rolled \subseteq Build
    BY DEF Doc
  <2>5. r.at \in Nat /\ r.outcome \in Outcome
    BY <2>1, RecordFacts
  <2> QED
    BY <1>2, <2>2, <2>3, <2>4, <2>5 DEF Fold, Doc, Outcome
<1> QED
  BY <1>1, <1>2

LEMMA TypeInvStep == TypeInv /\ [Next]_vars => TypeInv'
<1> SUFFICES ASSUME TypeInv, [Next]_vars
             PROVE  TypeInv'
  OBVIOUS
<1> USE BuildAssumption, FaultAssumption
<1> USE DEF TypeInv, TypeOK, Named, StagerPlaces, SupervisorPlaces
<1>1. ASSUME NEW c \in Client, ReadMemory(c) PROVE TypeInv'
  <2>1. doc.rolled \subseteq Build
    BY DEF Doc
  <2> QED
    BY <1>1, <2>1 DEF ReadMemory, Goto, supervisor, document, history
<1>2. ASSUME NEW c \in Client, StageExe(c) PROVE TypeInv'
  BY <1>2
  DEF StageExe, Goto, count, document, history, supervisor
<1>3. ASSUME NEW c \in Client, StageSidecar(c) PROVE TypeInv'
  BY <1>3
  DEF StageSidecar, Goto, count, document, history, supervisor
<1>4. ASSUME NEW c \in Client, TakeTime(c) PROVE TypeInv'
  <2>1. overlapped' \in BOOLEAN
    BY <1>4, Zenon DEF TakeTime
  <2>2. /\ clock' \in {clock, clock + 1}
        /\ at' = [at EXCEPT ![c] = clock']
        /\ step[c] = "now" /\ step' = [step EXCEPT ![c] = "discard"]
        /\ UNCHANGED <<staged, request, result, pick, mem, supervisor, document,
                       failed, recorded, misled, count>>
    BY <1>4, Zenon DEF TakeTime, Goto
  <2> QED
    BY <2>1, <2>2 DEF supervisor, document, count
<1>5. ASSUME NEW c \in Client, DiscardRead(c) PROVE TypeInv'
  <2>1. \E p \in {"unlink", "write"} : Goto(c, p)
    BY <1>5 DEF DiscardRead
  <2> QED
    BY <1>5, <2>1 DEF DiscardRead, Goto, supervisor, document, history, count
<1>6. ASSUME NEW c \in Client, DiscardRemove(c) PROVE TypeInv'
  <2>1. /\ step[c] = "unlink" /\ result' = NoResult
        /\ \/ Goto(c, "write") /\ UNCHANGED <<pick, at>>
           \/ Done(c)
        /\ UNCHANGED <<clock, staged, request, mem, supervisor, document, history, count>>
    BY <1>6, Zenon DEF DiscardRemove
  <2>2. CASE Goto(c, "write") /\ UNCHANGED <<pick, at>>
    BY <2>1, <2>2, RecordFacts DEF Goto, supervisor, document, history, count
  <2>3. CASE Done(c)
    BY <2>1, <2>3, RecordFacts DEF Done, Goto, supervisor, document, history, count
  <2> QED
    BY <2>1, <2>2, <2>3
<1>7. ASSUME NEW c \in Client, WriteRequest(c) PROVE TypeInv'
  <2>1. overlapped' \in BOOLEAN
    BY <1>7, Zenon DEF WriteRequest
  <2>2. /\ step[c] = "write"
        /\ request' = [by |-> c, at |-> at[c], build |-> pick[c]]
        /\ \/ Goto(c, "wait") /\ UNCHANGED <<pick, at>>
           \/ Done(c)
        /\ UNCHANGED <<clock, staged, result, mem, supervisor, document,
                       failed, recorded, misled, count>>
    BY <1>7, Zenon DEF WriteRequest
  <2>3. request' \in Request
    BY <2>2, RecordFacts
  <2> QED
    BY <2>1, <2>2, <2>3 DEF Goto, Done, supervisor, document, count
<1>8. ASSUME NEW c \in Client, AwaitAccept(c) PROVE TypeInv'
  <2>1. misled' \in BOOLEAN
    BY <1>8, Zenon DEF AwaitAccept
  <2>2. /\ step[c] = "wait" /\ Done(c)
        /\ UNCHANGED <<clock, staged, request, result, mem, supervisor, document,
                       failed, recorded, overlapped, count>>
    BY <1>8, Zenon DEF AwaitAccept
  <2> QED
    BY <2>1, <2>2 DEF Done, Goto, supervisor, document, count
<1>9. ASSUME NEW c \in Client, AwaitStale(c) PROVE TypeInv'
  BY <1>9
  DEF AwaitStale, Goto, count, document, history, supervisor
<1>10. ASSUME NEW c \in Client, AwaitDrop(c) PROVE TypeInv'
  BY <1>10, RecordFacts
  DEF AwaitDrop, Goto, count, document, history, supervisor
<1>11. ASSUME NEW c \in Client, Quit(c) PROVE TypeInv'
  BY <1>11
  DEF Quit, Done, Goto, Suffer, document, history, supervisor
<1>12. CASE ReadRequest
  BY <1>12, RecordFacts
  DEF ReadRequest, count, document, history, stagers
<1>13. CASE Refuse
  BY <1>13, RecordFacts
  DEF Refuse, Publishing, Matching, Usable, count, document, history,
      stagers, Outcome
<1>14. CASE AlreadyCurrent
  BY <1>14, RecordFacts
  DEF AlreadyCurrent, Publishing, Matching, Usable, count, document,
      history, stagers, Outcome
<1>15. CASE BeginSwap
  BY <1>15, RecordFacts
  DEF BeginSwap, Matching, Usable, count, document, history, stagers
<1>16. CASE EndSwap
  BY <1>16, RecordFacts
  DEF EndSwap, Publishing, count, document, history, stagers, Outcome
<1>17. CASE StopSwap
  BY <1>17, RecordFacts
  DEF StopSwap, Suffer, Return, document, history, stagers
<1>18. CASE PublishResult
  BY <1>18, RecordFacts
  DEF PublishResult, Suffer, count, document, stagers
<1>19. CASE RemoveRequest
  BY <1>19, RecordFacts
  DEF RemoveRequest, Suffer, Return, count, document, history, stagers
<1>20. CASE Crash
  BY <1>20, RecordFacts
  DEF Crash, Suffer, Return, document, history, stagers
<1>21. CASE AppReadRequest
  BY <1>21, IngestType DEF AppReadRequest, stagers, supervisor, history, count
<1>22. CASE AppReadResult
  <2>1. doc' \in Doc /\ copy' \in Doc
    BY <1>22, FoldType DEF AppReadResult
  <2> QED
    BY <1>22, <2>1, RecordFacts
    DEF AppReadResult, Suffer, Newer, stagers, supervisor, history, count
<1>23. CASE UNCHANGED vars
  BY <1>23 DEF vars, stagers, supervisor, document, history, count
<1> QED
  BY <1>1, <1>2, <1>3, <1>4, <1>5, <1>6, <1>7, <1>8, <1>9, <1>10,
     <1>11, <1>12, <1>13, <1>14, <1>15, <1>16, <1>17, <1>18, <1>19,
     <1>20, <1>21, <1>22, <1>23
  DEF Next, StagerStep, SupervisorStep, AppStep

(* Every variable keeps a value of its kind: the type invariant the runs   *)
(* check, for every set of stagers and builds.                             *)
THEOREM TypeCorrect == Spec => []TypeOK
<1>1. TypeInv => TypeOK
  BY DEF TypeInv
<1>2. QED
  BY <1>1, TypeInvInit, TypeInvStep, PTL DEF Spec

(***************************************************************************)
(* A stager takes its own answer.  The results on disk and in hand are not *)
(* from the future; and while requests do not overlap, one stager at most  *)
(* asks, nothing else is on disk or being answered, and a result old       *)
(* enough to be another's is too old to be taken.                          *)
(***************************************************************************)
Asking == {"discard", "unlink", "write", "wait", "drop"}

Slot ==
    /\ \A c \in Client, d \in Client :
           step[c] \in Asking /\ step[d] \in Asking => c = d
    /\ \A c \in Client :
           /\ step[c] \in {"discard", "unlink", "write"} =>
                 request = NoRequest /\ sup = "poll"
           /\ step[c] \in {"wait", "drop"} =>
                 /\ request \in {NoRequest, MyRequest(c)}
                 /\ sup # "poll" => taken = MyRequest(c)
           /\ step[c] \in Asking => result.at < at[c] \/ result.req = MyRequest(c)
                                  \/ result = NoResult

TimeInv ==
    /\ result.at <= clock
    /\ out.at <= clock
    /\ sup \in {"write", "remove"} => out.req = taken

SlotInv == TimeInv /\ (overlapped \/ (~misled /\ Slot))

LEMMA TimeStep == TypeInv /\ TimeInv /\ [Next]_vars => TimeInv'
<1> SUFFICES ASSUME TypeInv, TimeInv, [Next]_vars
             PROVE  TimeInv'
  OBVIOUS
<1>a. /\ clock \in Nat /\ result.at \in Nat /\ out.at \in Nat
      /\ NoResult.at = 0
  BY RecordFacts DEF TypeInv, TypeOK
<1> USE <1>a DEF TimeInv
<1>1. ASSUME NEW c \in Client, ReadMemory(c) PROVE TimeInv'
  BY <1>1
  DEF ReadMemory, Goto, document, history, supervisor
<1>2. ASSUME NEW c \in Client, StageExe(c) PROVE TimeInv'
  BY <1>2
  DEF StageExe, Goto, count, document, history, supervisor
<1>3. ASSUME NEW c \in Client, StageSidecar(c) PROVE TimeInv'
  BY <1>3
  DEF StageSidecar, Goto, count, document, history, supervisor
<1>4. ASSUME NEW c \in Client, TakeTime(c) PROVE TimeInv'
  BY <1>4
  DEF TakeTime, Goto, Busy, count, document, supervisor
<1>5. ASSUME NEW c \in Client, DiscardRead(c) PROVE TimeInv'
  BY <1>5
  DEF DiscardRead, Goto, count, document, history, supervisor
<1>6. ASSUME NEW c \in Client, DiscardRemove(c) PROVE TimeInv'
  BY <1>6
  DEF DiscardRemove, Done, Goto, count, document, history, supervisor
<1>7. ASSUME NEW c \in Client, WriteRequest(c) PROVE TimeInv'
  BY <1>7
  DEF WriteRequest, Done, Goto, Busy, count, document, supervisor
<1>8. ASSUME NEW c \in Client, AwaitAccept(c) PROVE TimeInv'
  BY <1>8
  DEF AwaitAccept, Done, Goto, MyRequest, count, document, supervisor
<1>9. ASSUME NEW c \in Client, AwaitStale(c) PROVE TimeInv'
  BY <1>9
  DEF AwaitStale, Goto, count, document, history, supervisor
<1>10. ASSUME NEW c \in Client, AwaitDrop(c) PROVE TimeInv'
  BY <1>10
  DEF AwaitDrop, Goto, count, document, history, supervisor
<1>11. ASSUME NEW c \in Client, Quit(c) PROVE TimeInv'
  BY <1>11
  DEF Quit, Done, Goto, Suffer, document, history, supervisor
<1>12. CASE ReadRequest
  BY <1>12
  DEF ReadRequest, count, document, history, stagers
<1>13. CASE Refuse
  BY <1>13
  DEF Refuse, Publishing, Matching, Usable, count, document, history,
      stagers
<1>14. CASE AlreadyCurrent
  BY <1>14
  DEF AlreadyCurrent, Publishing, Matching, Usable, count, document,
      history, stagers
<1>15. CASE BeginSwap
  BY <1>15
  DEF BeginSwap, Matching, Usable, count, document, history, stagers
<1>16. CASE EndSwap
  BY <1>16
  DEF EndSwap, Publishing, count, document, history, stagers
<1>17. CASE StopSwap
  BY <1>17
  DEF StopSwap, Suffer, Return, document, history, stagers
<1>18. CASE PublishResult
  BY <1>18
  DEF PublishResult, Suffer, count, document, stagers
<1>19. CASE RemoveRequest
  BY <1>19
  DEF RemoveRequest, Return, count, document, history, stagers
<1>20. CASE Crash
  BY <1>20
  DEF Crash, Suffer, Return, document, history, stagers
<1>21. CASE AppReadRequest
  BY <1>21
  DEF AppReadRequest, count, history, stagers, supervisor
<1>22. CASE AppReadResult
  BY <1>22
  DEF AppReadResult, Suffer, count, stagers, supervisor
<1>23. CASE UNCHANGED vars
  BY <1>23 DEF vars, stagers, supervisor, document, history, count
<1> QED
  BY <1>1, <1>2, <1>3, <1>4, <1>5, <1>6, <1>7, <1>8, <1>9, <1>10,
     <1>11, <1>12, <1>13, <1>14, <1>15, <1>16, <1>17, <1>18, <1>19,
     <1>20, <1>21, <1>22, <1>23
  DEF Next, StagerStep, SupervisorStep, AppStep

(* A stager asks while another request is under way: the clauses of        *)
(* TakeTime and WriteRequest that set `overlapped`.                        *)
Overlaps == \E c \in Client :
    \/ TakeTime(c) /\ (Busy(c) \/ result.at = clock')
    \/ WriteRequest(c) /\ Busy(c)

LEMMA SlotStep == TypeInv /\ TimeInv /\ Slot /\ [Next]_vars /\ ~Overlaps => Slot'
<1> SUFFICES ASSUME TypeInv, TimeInv, Slot, [Next]_vars, ~Overlaps
             PROVE  Slot'
  OBVIOUS
<1>a. /\ clock \in Nat /\ at \in [Client -> Nat] /\ step \in [Client -> StagerPlaces]
      /\ pick \in [Client -> Build \cup {None}] /\ result.at \in Nat
      /\ sup \in SupervisorPlaces
  BY RecordFacts DEF TypeInv, TypeOK
<1> USE <1>a DEF Slot, Asking, MyRequest, StagerPlaces, SupervisorPlaces
<1>1. ASSUME NEW c \in Client, ReadMemory(c) PROVE Slot'
  BY <1>1
  DEF ReadMemory, Goto, document, history, supervisor
<1>2. ASSUME NEW c \in Client, StageExe(c) PROVE Slot'
  BY <1>2
  DEF StageExe, Goto, count, document, history, supervisor
<1>3. ASSUME NEW c \in Client, StageSidecar(c) PROVE Slot'
  BY <1>3
  DEF StageSidecar, Goto, count, document, history, supervisor
<1>4. ASSUME NEW c \in Client, TakeTime(c) PROVE Slot'
  <2>1. request = NoRequest /\ sup = "poll" /\ result.at # clock'
    BY <1>4 DEF Overlaps, Busy
  <2>2. \A d \in Client \ {c} : step[d] \notin Asking
    BY <1>4 DEF Overlaps, Busy
  <2>3. /\ clock' \in {clock, clock + 1}
        /\ at' = [at EXCEPT ![c] = clock']
        /\ step' = [step EXCEPT ![c] = "discard"]
        /\ UNCHANGED <<request, result, pick, sup, taken>>
    BY <1>4, Zenon DEF TakeTime, Goto, supervisor
  <2> QED
    BY <2>1, <2>2, <2>3 DEF TimeInv
<1>5. ASSUME NEW c \in Client, DiscardRead(c) PROVE Slot'
  BY <1>5
  DEF DiscardRead, Goto, count, document, history, supervisor
<1>6. ASSUME NEW c \in Client, DiscardRemove(c) PROVE Slot'
  <2>1. /\ step[c] = "unlink" /\ result' = NoResult
        /\ \/ Goto(c, "write") /\ UNCHANGED <<pick, at>>
           \/ Done(c)
        /\ UNCHANGED <<request, sup, taken>>
    BY <1>6, Zenon DEF DiscardRemove, supervisor
  <2> QED
    BY <2>1 DEF Goto, Done
<1>7. ASSUME NEW c \in Client, WriteRequest(c) PROVE Slot'
  <2>1. /\ step[c] = "write"
        /\ request' = MyRequest(c)
        /\ \/ Goto(c, "wait") /\ UNCHANGED <<pick, at>>
           \/ Done(c)
        /\ UNCHANGED <<result, sup, taken>>
    BY <1>7, Zenon DEF WriteRequest, supervisor
  <2> QED
    BY <2>1 DEF Goto, Done
<1>8. ASSUME NEW c \in Client, AwaitAccept(c) PROVE Slot'
  <2>1. Done(c) /\ UNCHANGED <<request, result, sup, taken>>
    BY <1>8, Zenon DEF AwaitAccept, supervisor
  <2> QED
    BY <2>1 DEF Goto, Done
<1>9. ASSUME NEW c \in Client, AwaitStale(c) PROVE Slot'
  BY <1>9
  DEF AwaitStale, Goto, count, document, history, supervisor
<1>10. ASSUME NEW c \in Client, AwaitDrop(c) PROVE Slot'
  BY <1>10
  DEF AwaitDrop, Goto, count, document, history, supervisor
<1>11. ASSUME NEW c \in Client, Quit(c) PROVE Slot'
  BY <1>11
  DEF Quit, Done, Goto, Suffer, document, history, supervisor
<1>12. CASE ReadRequest
  BY <1>12
  DEF ReadRequest, count, document, history, stagers
<1>13. CASE Refuse
  BY <1>13
  DEF Refuse, Publishing, Matching, Usable, count, document, history,
      stagers
<1>14. CASE AlreadyCurrent
  BY <1>14
  DEF AlreadyCurrent, Publishing, Matching, Usable, count, document,
      history, stagers
<1>15. CASE BeginSwap
  BY <1>15
  DEF BeginSwap, Matching, Usable, count, document, history, stagers
<1>16. CASE EndSwap
  BY <1>16
  DEF EndSwap, Publishing, count, document, history, stagers
<1>17. CASE StopSwap
  BY <1>17
  DEF StopSwap, Suffer, Return, document, history, stagers
<1>18. CASE PublishResult
  BY <1>18
  DEF PublishResult, Suffer, count, document, stagers, TimeInv
<1>19. CASE RemoveRequest
  BY <1>19
  DEF RemoveRequest, Return, count, document, history, stagers
<1>20. CASE Crash
  BY <1>20
  DEF Crash, Suffer, Return, document, history, stagers
<1>21. CASE AppReadRequest
  BY <1>21
  DEF AppReadRequest, count, history, stagers, supervisor
<1>22. CASE AppReadResult
  BY <1>22
  DEF AppReadResult, Suffer, count, stagers, supervisor
<1>23. CASE UNCHANGED vars
  BY <1>23 DEF vars, stagers, supervisor, document, history, count
<1> QED
  BY <1>1, <1>2, <1>3, <1>4, <1>5, <1>6, <1>7, <1>8, <1>9, <1>10,
     <1>11, <1>12, <1>13, <1>14, <1>15, <1>16, <1>17, <1>18, <1>19,
     <1>20, <1>21, <1>22, <1>23
  DEF Next, StagerStep, SupervisorStep, AppStep

(* What a step does to the two flags.                                      *)
LEMMA FlagStep ==
    ASSUME [Next]_vars
    PROVE  /\ Overlaps => overlapped'
           /\ overlapped => overlapped'
           /\ misled' => misled \/ \E c \in Client :
                                     AwaitAccept(c) /\ result.req # MyRequest(c)
<1>1. ASSUME NEW c \in Client, TakeTime(c)
      PROVE  /\ overlapped' = (overlapped \/ Busy(c) \/ result.at = clock')
             /\ UNCHANGED misled
  BY <1>1, Zenon DEF TakeTime
<1>2. ASSUME NEW c \in Client, WriteRequest(c)
      PROVE  overlapped' = (overlapped \/ Busy(c)) /\ UNCHANGED misled
  BY <1>2, Zenon DEF WriteRequest
<1>3. ASSUME NEW c \in Client, AwaitAccept(c)
      PROVE  UNCHANGED overlapped /\ misled' = (misled \/ result.req # MyRequest(c))
  BY <1>3, Zenon DEF AwaitAccept
<1>4. ASSUME NEW c \in Client,
             \/ ReadMemory(c) \/ StageExe(c) \/ StageSidecar(c) \/ DiscardRead(c)
             \/ DiscardRemove(c) \/ AwaitStale(c) \/ AwaitDrop(c) \/ Quit(c)
      PROVE  UNCHANGED <<overlapped, misled>>
  BY <1>4, Zenon DEF ReadMemory, StageExe, StageSidecar, DiscardRead, DiscardRemove,
     AwaitStale, AwaitDrop, Quit, history
<1>5. ASSUME SupervisorStep \/ AppStep \/ UNCHANGED vars
      PROVE  UNCHANGED <<overlapped, misled>>
  BY <1>5, Zenon DEF SupervisorStep, AppStep, vars, history, ReadRequest, Refuse,
     AlreadyCurrent, BeginSwap, EndSwap, StopSwap, PublishResult, RemoveRequest, Crash,
     AppReadRequest, AppReadResult
<1>6. Overlaps => overlapped'
  BY <1>1, <1>2, Zenon DEF Overlaps
<1>7. StagerStep \/ SupervisorStep \/ AppStep \/ UNCHANGED vars
  BY Zenon DEF Next
<1>8. CASE StagerStep
  BY <1>1, <1>2, <1>3, <1>4, <1>6, <1>8, Zenon DEF StagerStep
<1>9. CASE SupervisorStep \/ AppStep \/ UNCHANGED vars
  <2>1. overlapped' = overlapped /\ misled' = misled
    BY <1>5, <1>9
  <2> QED
    BY <1>6, <2>1, Zenon
<1> QED
  BY <1>7, <1>8, <1>9

LEMMA SlotInvStep == TypeInv /\ SlotInv /\ [Next]_vars => SlotInv'
<1> SUFFICES ASSUME TypeInv, SlotInv, [Next]_vars
             PROVE  SlotInv'
  OBVIOUS
<1>1. TimeInv'
  BY TimeStep DEF SlotInv
<1>2. CASE overlapped \/ Overlaps
  BY <1>1, <1>2, FlagStep, Zenon DEF SlotInv
<1>3. CASE ~overlapped /\ ~Overlaps
  <2>1. ~misled /\ Slot
    BY <1>3, Zenon DEF SlotInv
  <2>2. Slot'
    BY <1>3, <2>1, SlotStep DEF SlotInv
  <2>3. ASSUME NEW c \in Client, AwaitAccept(c)
        PROVE  result.req = MyRequest(c)
    <3>1. /\ step[c] = "wait" /\ result # NoResult /\ result.at >= at[c]
      BY <2>3, Zenon DEF AwaitAccept
    <3>2. result.at \in Nat /\ at[c] \in Nat
      BY RecordFacts DEF TypeInv, TypeOK
    <3> QED
      BY <2>1, <3>1, <3>2 DEF Slot, Asking
  <2>4. ~misled'
    BY <2>1, <2>3, FlagStep, Zenon
  <2> QED
    BY <1>1, <2>2, <2>4, Zenon DEF SlotInv
<1> QED
  BY <1>2, <1>3

LEMMA SlotInvInit == Init => SlotInv
<1> SUFFICES ASSUME Init PROVE SlotInv
  OBVIOUS
<1>1. ~misled
  BY Zenon DEF Init
<1>2. TimeInv
  BY RecordFacts DEF Init, TimeInv
<1>3. Slot
  BY DEF Init, Slot, Asking
<1> QED
  BY <1>1, <1>2, <1>3, Zenon DEF SlotInv

(* A stager that takes an answer takes its own, whatever fails, unless     *)
(* another request was under way while it asked.                           *)
THEOREM OwnAnswer == Spec => []OwnAnswerUnlessOverlapped
<1>1. SlotInv => OwnAnswerUnlessOverlapped
  BY Zenon DEF SlotInv, OwnAnswerUnlessOverlapped
<1>2. QED
  BY <1>1, TypeInvInit, TypeInvStep, SlotInvInit, SlotInvStep, PTL DEF Spec

(***************************************************************************)
(* What state.json says.  Between the two reads of a poll the copy differs *)
(* from the document by the request it folded in, nothing else.            *)
(***************************************************************************)
Says(d) ==
    d.outcome \in {"applied", "rolled_back"} =>
        /\ recorded.outcome = d.outcome
        /\ recorded.at = d.last
        /\ VersionOf[recorded.build] = d.to

DocInv ==
    /\ Says(doc) /\ Says(copy)
    /\ copy.last = doc.last /\ copy.rolled = doc.rolled
    /\ recorded # NoResult => recorded.at = doc.last
    /\ doc.rolled \subseteq failed
    /\ result.outcome = "rolled_back" => result.build \in failed

LEMMA DocInvInit == Init => DocInv
BY RecordFacts DEF Init, DocInv, Says

LEMMA IngestSays ==
    ASSUME NEW d \in Doc, NEW r \in Request \cup {NoRequest}, Says(d)
    PROVE  /\ Says(Ingest(d, r))
           /\ Ingest(d, r).last = d.last /\ Ingest(d, r).rolled = d.rolled
BY DEF Ingest, Doc, Says

LEMMA DocInvStep == TypeInv /\ DocInv /\ [Next]_vars => DocInv'
<1> SUFFICES ASSUME TypeInv, DocInv, [Next]_vars
             PROVE  DocInv'
  OBVIOUS
<1>a. NoResult.outcome = "none"
  BY RecordFacts
<1> USE <1>a DEF DocInv, Says
<1>1. ASSUME NEW c \in Client, ReadMemory(c) PROVE DocInv'
  BY <1>1
  DEF ReadMemory, Goto, document, history, supervisor
<1>2. ASSUME NEW c \in Client, StageExe(c) PROVE DocInv'
  BY <1>2
  DEF StageExe, Goto, count, document, history, supervisor
<1>3. ASSUME NEW c \in Client, StageSidecar(c) PROVE DocInv'
  BY <1>3
  DEF StageSidecar, Goto, count, document, history, supervisor
<1>4. ASSUME NEW c \in Client, TakeTime(c) PROVE DocInv'
  BY <1>4
  DEF TakeTime, Goto, Busy, count, document, supervisor
<1>5. ASSUME NEW c \in Client, DiscardRead(c) PROVE DocInv'
  BY <1>5
  DEF DiscardRead, Goto, count, document, history, supervisor
<1>6. ASSUME NEW c \in Client, DiscardRemove(c) PROVE DocInv'
  BY <1>6
  DEF DiscardRemove, Done, Goto, count, document, history, supervisor
<1>7. ASSUME NEW c \in Client, WriteRequest(c) PROVE DocInv'
  BY <1>7
  DEF WriteRequest, Done, Goto, Busy, count, document, supervisor
<1>8. ASSUME NEW c \in Client, AwaitAccept(c) PROVE DocInv'
  BY <1>8
  DEF AwaitAccept, Done, Goto, MyRequest, count, document, supervisor
<1>9. ASSUME NEW c \in Client, AwaitStale(c) PROVE DocInv'
  BY <1>9
  DEF AwaitStale, Goto, count, document, history, supervisor
<1>10. ASSUME NEW c \in Client, AwaitDrop(c) PROVE DocInv'
  BY <1>10
  DEF AwaitDrop, Goto, count, document, history, supervisor
<1>11. ASSUME NEW c \in Client, Quit(c) PROVE DocInv'
  BY <1>11
  DEF Quit, Done, Goto, Suffer, document, history, supervisor
<1>12. CASE ReadRequest
  BY <1>12
  DEF ReadRequest, count, document, history, stagers
<1>13. CASE Refuse
  BY <1>13
  DEF Refuse, Publishing, Matching, Usable, count, document, history,
      stagers
<1>14. CASE AlreadyCurrent
  BY <1>14
  DEF AlreadyCurrent, Publishing, Matching, Usable, count, document,
      history, stagers
<1>15. CASE BeginSwap
  BY <1>15
  DEF BeginSwap, Matching, Usable, count, document, history, stagers
<1>16. CASE EndSwap
  BY <1>16
  DEF EndSwap, Publishing, count, document, history, stagers
<1>17. CASE StopSwap
  BY <1>17
  DEF StopSwap, Suffer, Return, document, history, stagers
<1>18. CASE PublishResult
  <2>1. /\ UNCHANGED <<copy, doc, recorded>>
        /\ \/ /\ result' = out
              /\ failed' = failed \cup (IF out.outcome = "rolled_back" THEN {out.build} ELSE {})
           \/ UNCHANGED <<result, failed>>
    BY <1>18 DEF PublishResult, document
  <2> QED
    BY <2>1
<1>19. CASE RemoveRequest
  BY <1>19
  DEF RemoveRequest, Return, count, document, history, stagers
<1>20. CASE Crash
  BY <1>20
  DEF Crash, Suffer, Return, document, history, stagers
<1>21. CASE AppReadRequest
  BY <1>21, IngestSays DEF AppReadRequest, history, supervisor, TypeInv, TypeOK
<1>22. CASE AppReadResult
  <2>1. /\ UNCHANGED <<result, failed>>
        /\ copy' = doc'
        /\ \/ /\ doc' = Fold(copy, result)
              /\ recorded' = IF Newer(copy, result) THEN result ELSE recorded
           \/ UNCHANGED <<doc, recorded>>
    BY <1>22 DEF AppReadResult
  <2>2. CASE doc' = doc /\ recorded' = recorded
    BY <2>1, <2>2
  <2>3. CASE doc' = Fold(copy, result) /\ ~Newer(copy, result) /\ recorded' = recorded
    BY <2>1, <2>3 DEF Fold
  <2>4. CASE doc' = Fold(copy, result) /\ Newer(copy, result) /\ recorded' = result
    <3>1. doc' = [phase |-> "idle",
                  to |-> IF result.outcome = "refused" THEN copy.to
                         ELSE VersionOf[result.build],
                  outcome |-> result.outcome,
                  last |-> result.at,
                  rolled |-> copy.rolled \cup
                    (IF result.outcome = "rolled_back" THEN {result.build} ELSE {})]
      BY <2>4 DEF Fold
    <3>2. Says(doc)'
      BY <2>4, <3>1
    <3>3. doc'.rolled \subseteq failed
      BY <3>1
    <3> QED
      BY <2>1, <2>4, <3>1, <3>2, <3>3
  <2> QED
    BY <2>1, <2>2, <2>3, <2>4
<1>23. CASE UNCHANGED vars
  BY <1>23 DEF vars, stagers, supervisor, document, history, count
<1> QED
  BY <1>1, <1>2, <1>3, <1>4, <1>5, <1>6, <1>7, <1>8, <1>9, <1>10,
     <1>11, <1>12, <1>13, <1>14, <1>15, <1>16, <1>17, <1>18, <1>19,
     <1>20, <1>21, <1>22, <1>23
  DEF Next, StagerStep, SupervisorStep, AppStep

(* An outcome in state.json stands beside the version and the time of the  *)
(* result that said so.                                                    *)
THEOREM OutcomeNames == Spec => []OutcomeNamesItsResult
<1>1. DocInv => OutcomeNamesItsResult
  BY DEF DocInv, Says, OutcomeNamesItsResult
<1>2. QED
  BY <1>1, TypeInvInit, TypeInvStep, DocInvInit, DocInvStep, PTL DEF Spec

(* The rolled-back memory holds only builds that were rolled back.         *)
THEOREM OnlyFailed == Spec => []OnlyFailedRemembered
<1>1. DocInv => OnlyFailedRemembered
  BY DEF DocInv, OnlyFailedRemembered
<1>2. QED
  BY <1>1, TypeInvInit, TypeInvStep, DocInvInit, DocInvStep, PTL DEF Spec

(* A result that is in state.json is not folded in again.                  *)
THEOREM Once == Spec => RecordedOnce
<1>1. ASSUME TypeInv, DocInv, [Next]_vars
      PROVE  (result # NoResult /\ result = recorded /\ doc' # doc) => doc' = copy
  <2> SUFFICES ASSUME result # NoResult, result = recorded, doc' # doc
               PROVE  doc' = copy
    OBVIOUS
  <2>1. AppReadResult
    BY <1>1, Zenon DEF Next, StagerStep, SupervisorStep, AppStep, vars, document,
       ReadMemory, StageExe, StageSidecar, TakeTime, DiscardRead, DiscardRemove,
       WriteRequest, AwaitAccept, AwaitStale, AwaitDrop, Quit, ReadRequest, Refuse,
       AlreadyCurrent, BeginSwap, EndSwap, StopSwap, PublishResult, RemoveRequest,
       Crash, AppReadRequest
  <2>2. doc' = Fold(copy, result)
    BY <2>1 DEF AppReadResult
  <2>3. result.at = copy.last /\ result.at \in Nat
    BY <1>1, RecordFacts DEF DocInv, TypeInv, TypeOK
  <2> QED
    BY <2>2, <2>3 DEF Fold, Newer
<1>2. QED
  BY <1>1, TypeInvInit, TypeInvStep, DocInvInit, DocInvStep, PTL DEF Spec, RecordedOnce
=============================================================================
