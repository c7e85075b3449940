------------------------- MODULE BaselineSwap_proofs -------------------------
(***************************************************************************)
(* Theorems about the update transaction, for every set of builds and      *)
(* every budget of crashes, failed operations, stops and stagers.          *)
(***************************************************************************)
EXTENDS BaselineSwap, TLAPS

(* What the definitions of pairs and budgets give a step: stated once, so  *)
(* that the steps below never expand a set of records or functions.        *)
LEMMA PairFacts ==
    /\ Absent \in Pair
    /\ Absent.exe = None /\ Absent.side = None
    /\ \A p \in Pair : p.exe \in Bytes /\ p.side \in Build \cup {None}
    /\ \A x \in Bytes, s \in Build \cup {None} :
         [exe |-> x, side |-> s] \in Pair
    /\ \A p \in Pair, x \in Bytes : [p EXCEPT !.exe = x] \in Pair
    /\ \A p \in Pair, s \in Build \cup {None} : [p EXCEPT !.side = s] \in Pair
    /\ None \in Bytes /\ Rotten \in Bytes /\ Build \subseteq Bytes
BY DEF Pair, Absent, Bytes

LEMMA SpendType ==
    ASSUME NEW k \in Disturbance, left \in [Disturbance -> Nat], Spend(k)
    PROVE  left' \in [Disturbance -> Nat]
BY DEF Spend

LEMMA ResultFacts ==
    \A o \in Outcome, b \in Build \cup {None} :
        [outcome |-> o, build |-> b]
            \in [outcome: Outcome, build: Build \cup {None}] \cup {NoResult}
OBVIOUS

(* A candidate is held whenever a transaction is under way; without it the *)
(* set of proven builds would not stay a set of builds.                    *)
CandidateHeld ==
    pc \in SwapSteps \cup {"t_probe"} \cup CommitSteps => cand \in Build
TypeInv == TypeOK /\ CandidateHeld

LEMMA TypeInvInit == Init => TypeInv
<1> SUFFICES ASSUME Init PROVE TypeInv
  OBVIOUS
<1>1. stop \in BOOLEAN /\ unlogged \in BOOLEAN
  BY Zenon DEF Init
<1> QED
  BY <1>1, BuildAssumption, BudgetAssumption, PairFacts
  DEF Init, TypeInv, CandidateHeld, TypeOK, NoResult, Outcome, PcValues,
      SwapSteps, CommitSteps

LEMMA TypeInvStep == TypeInv /\ [Next]_vars => TypeInv'
<1> SUFFICES ASSUME TypeInv, [Next]_vars
             PROVE  TypeInv'
  OBVIOUS
<1> USE BuildAssumption
<1> USE DEF TypeInv, CandidateHeld, TypeOK, NoResult, Outcome, PcValues,
            SwapSteps, CommitSteps, RestoreSteps, Disturbance
<1>1. CASE Boot
  <2>1. stop' \in BOOLEAN
    BY <1>1, Zenon DEF Boot
  <2> QED
    BY <2>1, <1>1, PairFacts
    DEF Boot, DiscardPending, files, memory, history
<1>2. CASE StopSeen
  BY <1>2, PairFacts
  DEF StopSeen, disk, files, memory, history
<1>3. CASE PollDue
  BY <1>3
  DEF PollDue, disk, files, memory, history
<1>4. CASE StartDue
  BY <1>4
  DEF StartDue, disk, files, history
<1>5. CASE PollIdle
  BY <1>5
  DEF PollIdle, disk, files, memory, history
<1>6. CASE PollTooOld
  BY <1>6
  DEF PollTooOld, Answered, disk, files, history
<1>7. CASE PollRefuse
  BY <1>7, PairFacts
  DEF PollRefuse, Answered, Admissible, Usable, disk, files, history
<1>8. CASE PollAlreadyCurrent
  BY <1>8, PairFacts
  DEF PollAlreadyCurrent, Answered, Admissible, Usable, disk, files,
      history
<1>9. CASE PollBegin
  BY <1>9, PairFacts
  DEF PollBegin, Admissible, Usable, disk, history
<1>10. CASE PublishWrite
  BY <1>10, SpendType
  DEF PublishWrite, disk, memory, history
<1>11. CASE PublishRemove
  BY <1>11, SpendType
  DEF PublishRemove, disk, memory, history
<1>12. CASE SwapClear
  BY <1>12, SpendType, PairFacts
  DEF SwapClear, Answered, files, history
<1>13. CASE SwapSide
  BY <1>13, SpendType, PairFacts
  DEF SwapSide, Answered, DiscardPending, files, history
<1>14. CASE SwapExe
  BY <1>14, SpendType, PairFacts
  DEF SwapExe, Answered, DiscardPending, files, history
<1>15. CASE SwapStop
  BY <1>15, SpendType, PairFacts
  DEF SwapStop, Answered, DiscardPending, files, history
<1>16. CASE SwapAbandon
  BY <1>16, SpendType, PairFacts
  DEF SwapAbandon, DiscardPending, files, memory, history
<1>17. CASE ConsumeRequest
  BY <1>17, SpendType, PairFacts
  DEF ConsumeRequest, disk, memory, history
<1>18. CASE SwapInstall
  BY <1>18, SpendType, PairFacts
  DEF SwapInstall, RollBack, Answered, disk, files, history
<1>19. CASE SwapStart
  BY <1>19, SpendType, PairFacts
  DEF SwapStart, RollBack, Answered, disk, files, history
<1>20. CASE ProbePassed
  BY <1>20
  DEF ProbePassed, disk, files, memory
<1>21. CASE ProbeFailed
  BY <1>21
  DEF ProbeFailed, RollBack, Answered, disk, files, history
<1>22. CASE CommitDeletePrevious
  BY <1>22, SpendType, PairFacts
  DEF CommitDeletePrevious, RollBack, Answered, files, history
<1>23. CASE CommitRotate
  BY <1>23, SpendType, PairFacts
  DEF CommitRotate, RollBack, Answered, files, history
<1>24. CASE CommitPromote
  BY <1>24, SpendType, PairFacts
  DEF CommitPromote, RollBack, Answered, files, history
<1>25. CASE CommitSync
  BY <1>25, SpendType
  DEF CommitSync, Answered, RollBack, disk, files, history
<1>26. CASE RollBackKill
  BY <1>26, SpendType, PairFacts
  DEF RollBackKill, Answered, disk, files, history
<1>27. CASE RollBackDiscard
  BY <1>27, PairFacts
  DEF RollBackDiscard, DiscardPending, files, history
<1>28. CASE ResolveCurrent
  BY <1>28, PairFacts
  DEF ResolveCurrent, Usable, disk, files, history
<1>29. CASE ResolvePrevious
  BY <1>29, PairFacts
  DEF ResolvePrevious, Usable, disk, files, history
<1>30. CASE ResolveNeedsHuman
  BY <1>30
  DEF ResolveNeedsHuman, RestoreFailed, Bootable, Answered,
      Resolved, Usable, disk, files, history
<1>31. CASE RestoreSide
  BY <1>31, SpendType, PairFacts
  DEF RestoreSide, RestoreFailed, Answered, files, history
<1>32. CASE RestoreExe
  <2>1. unlogged' \in BOOLEAN
    BY <1>32, Zenon DEF RestoreExe
  <2> QED
    BY <2>1, <1>32, SpendType, PairFacts
    DEF RestoreExe, RestoreFailed, Answered, files
<1>33. CASE RestoreApp
  BY <1>33, SpendType, PairFacts
  DEF RestoreApp, RestoreFailed, Recorded, Answered, disk, files,
      history
<1>34. CASE LogRepair
  <2>1. unlogged' \in BOOLEAN
    BY <1>34, Zenon DEF LogRepair
  <2>2. repairs' \subseteq {"current", "previous"} /\ left' \in [Disturbance -> Nat]
    BY <1>34, SpendType DEF LogRepair
  <2>3. /\ pc' = "b_spawn"
        /\ UNCHANGED <<app, disk, staged, request, result, stager, child,
                       stop, memory, proven>>
    BY <1>34 DEF LogRepair
  <2> QED
    BY <2>1, <2>2, <2>3 DEF disk, memory
<1>35. CASE SpawnBaseline
  BY <1>35, SpendType, PairFacts
  DEF SpawnBaseline, Answered, RestoreFailed, disk, files, history
<1>36. CASE Crash
  <2>1. stop' \in BOOLEAN
    BY <1>36, Zenon DEF Crash
  <2> QED
    BY <2>1, <1>36, SpendType, PairFacts
    DEF Crash, disk, files, history
<1>37. CASE StopRequested
  BY <1>37, SpendType
  DEF StopRequested, disk, files, memory, history
<1>38. CASE ChildExits
  BY <1>38, SpendType, PairFacts
  DEF ChildExits, disk, files, memory, history
<1>39. CASE GiveUp
  <2>1. stop' \in BOOLEAN
    BY <1>39, Zenon DEF GiveUp
  <2> QED
    BY <2>1, <1>39, SpendType
    DEF GiveUp, disk, files, memory, history
<1>40. CASE Rot
  BY <1>40, SpendType, PairFacts
  DEF Rot, files, memory, history
<1>41. ASSUME NEW b \in Build, StageExe(b)
      PROVE  TypeInv'
  BY <1>41, SpendType, PairFacts
  DEF StageExe, disk, memory, history
<1>42. CASE StageSidecar
  BY <1>42, PairFacts
  DEF StageSidecar, disk, memory, history
<1>43. CASE UNCHANGED vars
  BY <1>43
  DEF vars, disk, files, memory, history
<1> QED
  BY <1>1, <1>2, <1>3, <1>4, <1>5, <1>6, <1>7, <1>8, <1>9, <1>10,
     <1>11, <1>12, <1>13, <1>14, <1>15, <1>16, <1>17, <1>18,
     <1>19, <1>20, <1>21, <1>22, <1>23, <1>24, <1>25, <1>26,
     <1>27, <1>28, <1>29, <1>30, <1>31, <1>32, <1>33, <1>34,
     <1>35, <1>36, <1>37, <1>38, <1>39, <1>40, <1>41, <1>42, <1>43
  DEF Next, Restarted, Started, Supervisor, Polling, Publishing, Swapping, Committing,
      RollingBack, Restoring, Environment

(* Every variable keeps a value of its kind: the type invariant the runs   *)
(* check, for every set of builds and every budget.                        *)
THEOREM TypeCorrect == Spec => []TypeOK
<1>1. TypeInv => TypeOK
  BY DEF TypeInv
<1>2. QED
  BY <1>1, TypeInvInit, TypeInvStep, PTL DEF Spec

(* Replacing one file of a generation leaves the other.                    *)
LEMMA PairUpdate ==
    /\ \A p \in Pair : \A x : /\ [p EXCEPT !.exe = x].exe = x
                          /\ [p EXCEPT !.exe = x].side = p.side
    /\ \A p \in Pair : \A s : /\ [p EXCEPT !.side = s].side = s
                          /\ [p EXCEPT !.side = s].exe = p.exe
BY DEF Pair

(* A step that rots a file says so in the budget, and leaves a generation  *)
(* that was unusable unusable.                                             *)
LEMMA RotSpends ==
    ASSUME left \in [Disturbance -> Nat], BudgetOnlyShrinks, Spend("rot")
    PROVE  (left["rot"])' < left["rot"] /\ (left["rot"])' < Budget["rot"]
<1>1. left["rot"] \in Nat /\ Budget["rot"] \in Nat /\ left["rot"] <= Budget["rot"]
  BY BudgetAssumption DEF BudgetOnlyShrinks, Disturbance
<1>2. left'["rot"] = left["rot"] - 1
  BY DEF Spend, Disturbance
<1> QED
  BY <1>1, <1>2

LEMMA RotUnusable ==
    \A p \in Pair : ~Usable([p EXCEPT !.exe = Rotten])
BY BuildAssumption DEF Pair, Usable

(* A step spends from the budget or leaves it, so it never grows.          *)
LEMMA LeftStep ==
    [Next]_vars => UNCHANGED left \/ \E k \in Disturbance : Spend(k)
<1> SUFFICES ASSUME [Next]_vars
             PROVE  UNCHANGED left \/ \E k \in Disturbance : Spend(k)
  OBVIOUS
<1> USE DEF Disturbance
<1>1. ASSUME Boot \/ PublishWrite \/ PublishRemove \/ SwapClear \/
             SwapSide \/ SwapExe \/ SwapStop \/
             SwapInstall \/ SwapStart \/ SwapAbandon \/ ConsumeRequest \/
             CommitDeletePrevious \/ CommitRotate \/
             CommitPromote \/ CommitSync \/ RollBackKill
             \/ RollBackDiscard \/ RestoreSide \/
             RestoreExe \/ RestoreApp \/ LogRepair \/
             SpawnBaseline \/ Crash \/ StopRequested \/
             ChildExits \/ GiveUp \/ Rot \/ (\E b \in
             Build : StageExe(b))
      PROVE  UNCHANGED left \/ \E k \in Disturbance : Spend(k)
  BY <1>1
  DEF Boot, PublishWrite, PublishRemove, SwapClear, SwapSide, SwapExe,
      SwapStop, SwapAbandon, ConsumeRequest, SwapInstall, SwapStart, CommitDeletePrevious,
      CommitRotate, CommitPromote, CommitSync, RollBackKill,
      RollBackDiscard, RestoreSide, RestoreExe, RestoreApp, LogRepair,
      SpawnBaseline, Crash, StopRequested, ChildExits, GiveUp, Rot,
      StageExe
<1>2. ASSUME StopSeen \/ PollDue \/ StartDue \/ PollIdle \/
             PollTooOld \/ PollRefuse \/
             PollAlreadyCurrent \/ PollBegin \/
             ProbePassed \/ ProbeFailed \/
             ResolveCurrent \/ ResolvePrevious \/
             ResolveNeedsHuman \/ StageSidecar \/
             (UNCHANGED vars)
      PROVE  UNCHANGED left
  BY <1>2
  DEF StopSeen, PollDue, StartDue, PollIdle, PollTooOld, PollRefuse,
      PollAlreadyCurrent, PollBegin,
      ProbePassed, ProbeFailed, ResolveCurrent, ResolvePrevious,
      ResolveNeedsHuman, StageSidecar, vars
<1> QED
  BY <1>1, <1>2
  DEF Next, Restarted, Started, Supervisor, Polling, Publishing, Swapping, Committing,
      RollingBack, Restoring, Environment, vars

LEMMA BudgetStep ==
    TypeInv /\ BudgetOnlyShrinks /\ [Next]_vars
      => /\ BudgetOnlyShrinks'
         /\ \A k \in Disturbance : (left[k])' <= left[k]
<1> SUFFICES ASSUME TypeInv, BudgetOnlyShrinks, [Next]_vars
             PROVE  /\ BudgetOnlyShrinks'
                    /\ \A k \in Disturbance : (left[k])' <= left[k]
  OBVIOUS
<1>1. CASE UNCHANGED left
  BY <1>1, BudgetAssumption DEF TypeInv, TypeOK, BudgetOnlyShrinks
<1>2. ASSUME NEW k \in Disturbance, Spend(k)
      PROVE  /\ BudgetOnlyShrinks'
             /\ \A j \in Disturbance : (left[j])' <= left[j]
  <2>1. left \in [Disturbance -> Nat]
    BY DEF TypeInv, TypeOK
  <2>2. \A j \in Disturbance : left'[j] = IF j = k THEN left[j] - 1 ELSE left[j]
    BY <1>2, <2>1 DEF Spend
  <2>3. \A j \in Disturbance : left'[j] <= left[j]
    BY <2>1, <2>2
  <2>4. \A j \in Disturbance : left'[j] <= Budget[j]
    <3> SUFFICES ASSUME NEW j \in Disturbance
                 PROVE  left'[j] <= Budget[j]
      OBVIOUS
    <3>1. left[j] \in Nat /\ Budget[j] \in Nat /\ left[j] <= Budget[j]
      BY <2>1, BudgetAssumption DEF BudgetOnlyShrinks
    <3> QED
      BY <3>1, <2>2
  <2> QED
    BY <2>3, <2>4 DEF BudgetOnlyShrinks
<1> QED
  BY <1>1, <1>2, LeftStep

LEMMA SwapInvInit == Init => SwapInv
BY BuildAssumption, BudgetAssumption, PairFacts
DEF Init, SwapInv, TrustedGenerations, UnprovenOnlyUnderProbe, RotHappened,
    PendingIsCandidate, CommitProgress, RestoreProgress, BudgetOnlyShrinks,
    GenerationsIntact,
    CommitSteps, RestoreSteps

LEMMA SwapInvStep == TypeInv /\ SwapInv /\ [Next]_vars => SwapInv'
<1> SUFFICES ASSUME TypeInv, SwapInv, [Next]_vars
             PROVE  SwapInv'
  OBVIOUS
<1> USE BuildAssumption, BudgetAssumption
<1>t. /\ left \in [Disturbance -> Nat]
      /\ current \in Pair /\ previous \in Pair /\ pending \in Pair
      /\ staged \in Pair /\ proven \subseteq Build /\ app \in Bytes
      /\ cont \in {"serve", "r_kill"}
      /\ cand \in Build \cup {None} /\ base \in Build \cup {None}
      /\ pc \in SwapSteps \cup {"t_probe"} \cup CommitSteps => cand \in Build
  BY DEF TypeInv, TypeOK, CandidateHeld
<1>b. /\ BudgetOnlyShrinks'
      /\ \A k \in Disturbance : (left[k])' <= left[k]
      /\ "rot" \in Disturbance /\ "kill" \in Disturbance
  <2>1. BudgetOnlyShrinks
    BY DEF SwapInv
  <2> QED
    BY <2>1, BudgetStep DEF Disturbance
<1>l. /\ (left["rot"])' <= left["rot"] /\ (left["kill"])' <= left["kill"]
      /\ left["rot"] <= Budget["rot"] /\ left["kill"] <= Budget["kill"]
      /\ left["rot"] \in Nat /\ left["kill"] \in Nat
      /\ (left["rot"])' \in Nat /\ (left["kill"])' \in Nat
      /\ Budget["rot"] \in Nat /\ Budget["kill"] \in Nat
  <2>1. left' \in [Disturbance -> Nat]
    BY TypeInvStep DEF TypeInv, TypeOK
  <2> QED
    BY <1>t, <1>b, <2>1 DEF SwapInv, BudgetOnlyShrinks
<1> USE DEF SwapInv, TrustedGenerations, UnprovenOnlyUnderProbe,
            PendingIsCandidate, CommitProgress, RestoreProgress,
            GenerationsIntact, SwapSteps, CommitSteps, RestoreSteps
<1>1. CASE Boot
  BY <1>1, <1>t, <1>b, <1>l, PairFacts
  DEF Boot, DiscardPending, files, memory, history, RotHappened
<1>2. CASE StopSeen
  BY <1>2, <1>t, <1>b, <1>l, PairFacts
  DEF StopSeen, disk, files, memory, history, RotHappened
<1>3. CASE PollDue
  BY <1>3, <1>t, <1>b, <1>l, PairFacts
  DEF PollDue, disk, files, memory, history, RotHappened
<1>4. CASE StartDue
  BY <1>4, <1>t, <1>b, <1>l, PairFacts
  DEF StartDue, disk, files, history, RotHappened
<1>5. CASE PollIdle
  BY <1>5, <1>t, <1>b, <1>l, PairFacts
  DEF PollIdle, disk, files, memory, history, RotHappened
<1>6. CASE PollTooOld
  BY <1>6, <1>t, <1>b, <1>l, PairFacts
  DEF PollTooOld, Answered, disk, files, history, RotHappened
<1>7. CASE PollRefuse
  BY <1>7, <1>t, <1>b, <1>l, PairFacts
  DEF PollRefuse, Answered, Admissible, Usable, disk, files, history,
      RotHappened
<1>8. CASE PollAlreadyCurrent
  BY <1>8, <1>t, <1>b, <1>l, PairFacts
  DEF PollAlreadyCurrent, Answered, Admissible, Usable, disk, files,
      history, RotHappened
<1>9. CASE PollBegin
  BY <1>9, <1>t, <1>b, <1>l, PairFacts
  DEF PollBegin, Admissible, Usable, disk, history, RotHappened
<1>10. CASE PublishWrite
  BY <1>10, <1>t, <1>b, <1>l, PairFacts
  DEF PublishWrite, disk, memory, history, RotHappened
<1>11. CASE PublishRemove
  BY <1>11, <1>t, <1>b, <1>l, PairFacts
  DEF PublishRemove, disk, memory, history, RotHappened
<1>12. CASE SwapClear
  BY <1>12, <1>t, <1>b, <1>l, PairFacts
  DEF SwapClear, Answered, files, history, RotHappened
<1>13. CASE SwapSide
  BY <1>13, <1>t, <1>b, <1>l, PairFacts
  DEF SwapSide, Answered, DiscardPending, files, history, RotHappened
<1>14. CASE SwapExe
  <2>1. CASE pending' = [pending EXCEPT !.exe = staged.exe] /\ staged.exe = cand
                /\ pc' = "t_stop"
    <3>1. pending'.exe = cand /\ pending'.side = cand
      BY <1>14, <2>1, <1>t, PairUpdate DEF SwapExe
    <3>2. UNCHANGED <<current, previous, child, cand, base, proven>>
          /\ left' = left
      BY <1>14, <2>1, <1>l DEF SwapExe, history, Answered
    <3> QED
      BY <2>1, <3>1, <3>2, <1>14, <1>t, <1>b, <1>l DEF RotHappened, SwapExe
  <2>2. CASE pc' = "p_write" /\ answer' = "refused"
    <3>1. UNCHANGED <<current, previous, child, cand, base, proven>>
      BY <1>14 DEF SwapExe, history
    <3> QED
      BY <2>2, <3>1, <1>14, <1>t, <1>b, <1>l DEF RotHappened, SwapExe
  <2> QED
    BY <2>1, <2>2, <1>14 DEF SwapExe, Answered
<1>15. CASE SwapStop
  BY <1>15, <1>t, <1>b, <1>l, PairFacts
  DEF SwapStop, Answered, DiscardPending, files, history, RotHappened,
      Spend
<1>16. CASE SwapAbandon
  BY <1>16, <1>t, <1>b, <1>l, PairFacts
  DEF SwapAbandon, DiscardPending, files, memory, history,
      RotHappened, Spend
<1>17. CASE ConsumeRequest
  BY <1>17, <1>t, <1>b, <1>l, PairFacts
  DEF ConsumeRequest, disk, memory, history, RotHappened
<1>18. CASE SwapInstall
  BY <1>18, <1>t, <1>b, <1>l, PairFacts
  DEF SwapInstall, RollBack, Answered, disk, files, history,
      RotHappened
<1>19. CASE SwapStart
  BY <1>19, <1>t, <1>b, <1>l, PairFacts
  DEF SwapStart, RollBack, Answered, disk, files, history, RotHappened
<1>20. CASE ProbePassed
  BY <1>20, <1>t, <1>b, <1>l, PairFacts
  DEF ProbePassed, disk, files, memory, RotHappened
<1>21. CASE ProbeFailed
  BY <1>21, <1>t, <1>b, <1>l, PairFacts
  DEF ProbeFailed, RollBack, Answered, disk, files, history,
      RotHappened
<1>22. CASE CommitDeletePrevious
  <2>1. /\ pc = "c_previous"
        /\ previous'.side \in {previous.side, None}
        /\ previous'.exe \in {previous'.side, None, Rotten} \/ previous'.side = None
        /\ UNCHANGED <<current, pending, child, cand, base, proven>>
    BY <1>22, <1>t, PairFacts DEF CommitDeletePrevious, Pair, history
  <2>2. \/ pc' = "c_rotate" /\ previous' = Absent
        \/ pc' = pc /\ UNCHANGED <<answer, cont>>
        \/ pc' = "p_write" /\ answer' = "rolled_back" /\ cont' = "r_kill"
    BY <1>22 DEF CommitDeletePrevious, RollBack, Answered
  <2> QED
    BY <2>1, <2>2, <1>t, <1>b, <1>l DEF RotHappened
<1>23. CASE CommitRotate
  BY <1>23, <1>t, <1>b, <1>l, PairFacts
  DEF CommitRotate, RollBack, Answered, files, history, RotHappened
<1>24. CASE CommitPromote
  BY <1>24, <1>t, <1>b, <1>l, PairFacts
  DEF CommitPromote, RollBack, Answered, files, history, RotHappened
<1>25. CASE CommitSync
  BY <1>25, <1>t, <1>b, <1>l, PairFacts
  DEF CommitSync, Answered, RollBack, disk, files, history,
      RotHappened
<1>26. CASE RollBackKill
  BY <1>26, <1>t, <1>b, <1>l, PairFacts
  DEF RollBackKill, Answered, disk, files, history, RotHappened, Spend
<1>27. CASE RollBackDiscard
  BY <1>27, <1>t, <1>b, <1>l, PairFacts
  DEF RollBackDiscard, DiscardPending, files, history, RotHappened
<1>28. CASE ResolveCurrent
  BY <1>28, <1>t, <1>b, <1>l, PairFacts
  DEF ResolveCurrent, Usable, disk, files, history, RotHappened
<1>29. CASE ResolvePrevious
  BY <1>29, <1>t, <1>b, <1>l, PairFacts
  DEF ResolvePrevious, Usable, disk, files, history, RotHappened
<1>30. CASE ResolveNeedsHuman
  BY <1>30, <1>t, <1>b, <1>l, PairFacts
  DEF ResolveNeedsHuman, RestoreFailed, Bootable, Answered, Resolved,
      Usable, disk, files, history, RotHappened
<1>31. CASE RestoreSide
  <2>1. CASE current' = [current EXCEPT !.side = base] /\ pc' = "b_exe"
    <3>1. /\ current'.side = base /\ base \in Build
          /\ current'.exe = current.exe
      BY <1>31, <2>1, <1>t, PairUpdate DEF RestoreSide
    <3>3. current'.exe \in {None, Rotten} /\ ~(Usable(current))'
      BY <1>31, <3>1, <1>t DEF RestoreSide, Usable
    <3>2. UNCHANGED <<previous, pending, child, cand, base, proven>>
      BY <1>31 DEF RestoreSide, history
    <3> QED
      BY <2>1, <3>1, <3>2, <3>3, <1>31, <1>t, <1>b, <1>l DEF RotHappened, RestoreSide
  <2>2. CASE UNCHANGED current /\ RestoreFailed
    <3>1. UNCHANGED <<previous, pending, child, cand, base, proven>>
      BY <1>31 DEF RestoreSide, history
    <3> QED
      BY <2>2, <3>1, <1>31, <1>t, <1>b, <1>l
      DEF RotHappened, RestoreSide, RestoreFailed, Answered
  <2> QED
    BY <2>1, <2>2, <1>31 DEF RestoreSide
<1>32. CASE RestoreExe
  <2>1. /\ current'.side = current.side
        /\ UNCHANGED <<previous, pending, child, cand, base, proven>>
    BY <1>32, <1>t DEF RestoreExe, Pair, history
  <2>2. \/ pc' = "b_app"
        \/ pc' = "serve"
        \/ pc' = "p_write" /\ answer' = "rolled_back"
    BY <1>32 DEF RestoreExe, RestoreFailed, Answered
  <2>3. pc = "b_exe"
    BY <1>32 DEF RestoreExe
  <2>4. current'.exe \in {current'.side, None, Rotten}
    BY <2>1, <1>32, <1>t DEF RestoreExe, Pair
  <2> QED
    BY <2>1, <2>2, <2>3, <2>4, <1>t, <1>b, <1>l DEF RotHappened
<1>33. CASE RestoreApp
  BY <1>33, <1>t, <1>b, <1>l, PairFacts
  DEF RestoreApp, RestoreFailed, Recorded, Answered, disk, files,
      history, RotHappened
<1>34. CASE LogRepair
  BY <1>34, <1>t, <1>b, <1>l, PairFacts
  DEF LogRepair, disk, memory, RotHappened
<1>35. CASE SpawnBaseline
  BY <1>35, <1>t, <1>b, <1>l, PairFacts
  DEF SpawnBaseline, Answered, RestoreFailed, disk, files, history,
      RotHappened
<1>36. CASE Crash
  BY <1>36, <1>t, <1>b, <1>l, PairFacts
  DEF Crash, disk, files, history, RotHappened
<1>37. CASE StopRequested
  BY <1>37, <1>t, <1>b, <1>l, PairFacts
  DEF StopRequested, disk, files, memory, history, RotHappened
<1>38. CASE ChildExits
  BY <1>38, <1>t, <1>b, <1>l, PairFacts
  DEF ChildExits, disk, files, memory, history, RotHappened
<1>39. CASE GiveUp
  BY <1>39, <1>t, <1>b, <1>l, PairFacts
  DEF GiveUp, disk, files, memory, history, RotHappened
<1>40. CASE Rot
  <2>1. /\ (RotHappened)'
        /\ UNCHANGED <<pending, child, pc, cand, base, cont, answer, proven>>
    BY <1>40, <1>t, <1>l, RotSpends DEF Rot, RotHappened, memory, history
  <2>2. current'.side = current.side /\ previous'.side = previous.side
    BY <1>40, <1>t DEF Rot, Pair
  <2>3. /\ current = Absent => current' = Absent
        /\ previous = Absent => previous' = Absent
    BY <1>40 DEF Rot
  <2>4. pc \in {"b_side", "b_exe"} => ~(Usable(current))'
    BY <1>40, <1>t, RotUnusable DEF Rot
  <2>5. /\ current'.exe \in {current.exe, Rotten}
        /\ previous'.exe \in {previous.exe, Rotten}
    BY <1>40, <1>t DEF Rot, Pair
  <2>6. app' \in {app, Rotten}
    BY <1>40 DEF Rot
  <2> QED
    BY <2>1, <2>2, <2>3, <2>4, <2>5, <2>6, <1>t, <1>b, <1>l
<1>41. ASSUME NEW b \in Build, StageExe(b)
      PROVE  SwapInv'
  BY <1>41, <1>t, <1>b, <1>l, PairFacts
  DEF StageExe, disk, memory, history, RotHappened
<1>42. CASE StageSidecar
  BY <1>42, <1>t, <1>b, <1>l, PairFacts
  DEF StageSidecar, disk, memory, history, RotHappened
<1>43. CASE UNCHANGED vars
  BY <1>43, <1>t, <1>b, <1>l, PairFacts
  DEF vars, disk, files, memory, history, RotHappened
<1> QED
  BY <1>1, <1>2, <1>3, <1>4, <1>5, <1>6, <1>7, <1>8, <1>9, <1>10,
     <1>11, <1>12, <1>13, <1>14, <1>15, <1>16, <1>17, <1>18, <1>19,
     <1>20, <1>21, <1>22, <1>23, <1>24, <1>25, <1>26, <1>27, <1>28,
     <1>29, <1>30, <1>31, <1>32, <1>33, <1>34, <1>35, <1>36, <1>37,
     <1>38, <1>39, <1>40, <1>41, <1>42, <1>43
  DEF Next, Restarted, Started, Supervisor, Polling, Publishing, Swapping, Committing,
      RollingBack, Restoring, Environment

(* The invariant of the transaction holds throughout: with TypeInv it is   *)
(* what every theorem below rests on.                                      *)
THEOREM SwapSafe == Spec => [](TypeInv /\ SwapInv)
<1>1. Init => TypeInv /\ SwapInv
  BY TypeInvInit, SwapInvInit
<1>2. (TypeInv /\ SwapInv) /\ [Next]_vars => (TypeInv /\ SwapInv)'
  BY TypeInvStep, SwapInvStep
<1>3. QED
  BY <1>1, <1>2, PTL DEF Spec

(* Only proven builds boot (resolve_baseline, "never pending"), for every  *)
(* budget of crashes, errors, stops, rotten files and stagers.             *)
THEOREM OnlyProvenBoots == Spec => []TrustedGenerations
<1>1. SwapInv => TrustedGenerations
  BY DEF SwapInv
<1>2. QED
  BY <1>1, SwapSafe, PTL

(* No generation ever pairs one build's binary with another build's        *)
(* sidecar (stage_pending's digest check, the order of the restore).       *)
THEOREM PairsIntact == Spec => []GenerationsIntact
<1>1. SwapInv => GenerationsIntact
  BY DEF SwapInv
<1>2. QED
  BY <1>1, SwapSafe, PTL

(* A build that passed no probe never runs outside its own transaction     *)
(* unless a termination failed (run_swap, roll_back).                      *)
THEOREM OnlyProvenRuns == Spec => []UnprovenOnlyUnderProbe
<1>1. SwapInv => UnprovenOnlyUnderProbe
  BY DEF SwapInv
<1>2. QED
  BY <1>1, SwapSafe, PTL

(* Only publish_result changes the answer on disk to `applied`.            *)
LEMMA AppliedStep ==
    TypeInv /\ [Next]_vars /\ result' # result /\ result'.outcome = "applied"
      => /\ pc = "p_write" /\ answer = "applied"
         /\ result' = [outcome |-> answer, build |-> cand]
         /\ UNCHANGED <<proven, current>>
<1> SUFFICES ASSUME TypeInv, [Next]_vars, result' # result,
                    result'.outcome = "applied"
             PROVE  /\ pc = "p_write" /\ answer = "applied"
                    /\ result' = [outcome |-> answer, build |-> cand]
                    /\ UNCHANGED <<proven, current>>
  OBVIOUS
<1>1. CASE PublishWrite
  BY <1>1 DEF PublishWrite, disk, history
<1>2. ASSUME result' = NoResult
      PROVE  FALSE
  BY <1>2 DEF NoResult
<1>3. CASE PollBegin \/ StageSidecar
  BY <1>2, <1>3 DEF PollBegin, StageSidecar
<1>4. ASSUME UNCHANGED result
      PROVE  FALSE
  BY <1>4
<1>5. CASE Boot \/ StopSeen \/ PollDue \/ StartDue \/ GiveUp \/ PollIdle
           \/ PollTooOld \/ PollRefuse \/ PollAlreadyCurrent \/ PublishRemove
           \/ SwapClear \/ SwapSide \/ SwapExe \/ SwapStop \/ SwapAbandon
           \/ ConsumeRequest \/ SwapInstall \/ SwapStart \/ ProbePassed
           \/ ProbeFailed \/ Committing \/ RollingBack \/ Restoring
           \/ Crash \/ StopRequested \/ ChildExits \/ Rot
           \/ (\E b \in Build : StageExe(b)) \/ (UNCHANGED vars)
  BY <1>4, <1>5
  DEF Boot, StopSeen, PollDue, StartDue, GiveUp, PollIdle, PollTooOld,
      PollRefuse, PollAlreadyCurrent, PublishRemove, SwapClear, SwapSide,
      SwapExe, SwapStop, SwapAbandon, ConsumeRequest, SwapInstall, SwapStart,
      ProbePassed, ProbeFailed, Committing, CommitDeletePrevious,
      CommitRotate, CommitPromote, CommitSync, RollingBack, RollBackKill,
      RollBackDiscard, Restoring, ResolveCurrent, ResolvePrevious,
      ResolveNeedsHuman, RestoreSide, RestoreExe, RestoreApp, LogRepair,
      SpawnBaseline, Crash, StopRequested, ChildExits, Rot, StageExe, files,
      vars
<1> QED
  BY <1>1, <1>3, <1>5
  DEF Next, Restarted, Started, Supervisor, Environment, Polling, Publishing, Swapping

(* `applied` is never published early: the build it names was probed and   *)
(* is the committed current generation, intact unless a file has rotted.   *)
THEOREM AppliedMeansCommitted == Spec => AppliedIsCommitted
<1> DEFINE Claim ==
      result' # result /\ result'.outcome = "applied" =>
        /\ result'.build \in proven
        /\ current.side = result'.build
        /\ Usable(current) \/ left["rot"] < Budget["rot"]
<1>1. TypeInv /\ SwapInv /\ [Next]_vars => Claim
  <2> SUFFICES ASSUME TypeInv, SwapInv, [Next]_vars, result' # result,
                      result'.outcome = "applied"
               PROVE  /\ result'.build \in proven
                      /\ current.side = result'.build
                      /\ Usable(current) \/ left["rot"] < Budget["rot"]
    OBVIOUS
  <2>1. pc = "p_write" /\ answer = "applied" /\ result'.build = cand
    BY AppliedStep
  <2>2. /\ cand \in proven /\ current.side = cand
        /\ current.exe = cand \/ RotHappened
    BY <2>1 DEF SwapInv, CommitProgress
  <2>3. cand # None
    BY <2>2, BuildAssumption DEF TypeInv, TypeOK
  <2> QED
    BY <2>1, <2>2, <2>3 DEF Usable, RotHappened
<1>2. [](TypeInv /\ SwapInv) /\ [][Next]_vars => [][Claim]_vars
  BY <1>1, PTL
<1>3. QED
  BY <1>2, SwapSafe, PTL DEF Spec, AppliedIsCommitted

(***************************************************************************)
(* What a step can do to the build that boots.                             *)
(***************************************************************************)
ResolvedMove ==
    \/ Resolved' = Resolved
    \/ pc = "c_promote" /\ pc' = "c_sync" /\ Resolved' = cand
    \/ pc = "c_previous" /\ ~Usable(current) /\ Resolved' = None
    \/ (left["rot"])' < left["rot"] /\ UNCHANGED <<pc, cand, proven>>

LEMMA ResolvedStep == TypeInv /\ SwapInv /\ [Next]_vars => ResolvedMove
<1> SUFFICES ASSUME TypeInv, SwapInv, [Next]_vars
             PROVE  ResolvedMove
  OBVIOUS
<1>t. /\ current \in Pair /\ previous \in Pair /\ pending \in Pair
      /\ left \in [Disturbance -> Nat] /\ BudgetOnlyShrinks
  BY DEF TypeInv, TypeOK, SwapInv
<1>1. CASE UNCHANGED <<current, previous>>
  BY <1>1 DEF ResolvedMove, Resolved, Usable
<1>2. CASE CommitDeletePrevious
  <2>1. /\ pc = "c_previous" /\ UNCHANGED current
        /\ previous' \in {previous, [previous EXCEPT !.exe = None],
                         [previous EXCEPT !.side = None], Absent}
    BY <1>2 DEF CommitDeletePrevious
  <2>2. previous' = previous \/ ~(Usable(previous))'
    BY <2>1, <1>t, BuildAssumption DEF Pair, Usable, Absent
  <2> QED
    BY <2>1, <2>2 DEF ResolvedMove, Resolved, Usable
<1>3. CASE CommitRotate
  <2>1. ~Usable(previous) /\ ~Usable(Absent)
    BY <1>3 DEF CommitRotate, SwapInv, CommitProgress, CommitSteps, Usable, Absent
  <2>2. \/ UNCHANGED <<current, previous>>
        \/ previous' = current /\ current' = Absent
    BY <1>3 DEF CommitRotate
  <2> QED
    BY <2>1, <2>2 DEF ResolvedMove, Resolved, Usable
<1>4. CASE CommitPromote
  <2>1. /\ pc = "c_promote" /\ ~Usable(current) /\ ~Usable(Absent)
        /\ cand \in Build /\ pending.exe = cand /\ pending.side = cand
    BY <1>4
    DEF CommitPromote, SwapInv, CommitProgress, PendingIsCandidate,
        CommitSteps, Usable, Absent, TypeInv, CandidateHeld
  <2>2. \/ current' = pending /\ pc' = "c_sync"
        \/ current' = previous /\ previous' = Absent
        \/ UNCHANGED <<current, previous>>
    BY <1>4 DEF CommitPromote
  <2> QED
    BY <2>1, <2>2, BuildAssumption DEF ResolvedMove, Resolved, Usable
<1>5. CASE RestoreSide
  <2>1. /\ ~Usable(current) /\ current.exe \in {current.side, None, Rotten}
        /\ base \in Build
    BY <1>5 DEF RestoreSide, SwapInv, RestoreProgress, RestoreSteps,
                GenerationsIntact, TypeInv, TypeOK
  <2>2. CASE current' = [current EXCEPT !.side = base]
    <3>1. current'.exe = current.exe /\ current'.side = base
      BY <2>2, <1>t DEF Pair
    <3>2. current.exe \in {None, Rotten}
      BY <2>1 DEF Usable
    <3>3. ~(Usable(current))'
      BY <3>1, <3>2, <2>1, BuildAssumption DEF Usable
    <3> QED
      BY <3>3, <2>1, <1>5 DEF RestoreSide, ResolvedMove, Resolved, Usable
  <2> QED
    BY <2>2, <1>1, <1>5 DEF RestoreSide
<1>6. CASE RestoreExe
  <2>1. /\ ~Usable(current) /\ current.side = base /\ previous.side = base
        /\ base \in Build /\ UNCHANGED previous
    BY <1>6 DEF RestoreExe, SwapInv, RestoreProgress, RestoreSteps,
                TypeInv, TypeOK
  <2>2. CASE current' = [current EXCEPT !.exe = previous.exe]
    <3>1. current'.exe = previous.exe /\ current'.side = base
      BY <2>1, <2>2, <1>t DEF Pair
    <3> QED
      BY <3>1, <2>1 DEF ResolvedMove, Resolved, Usable
  <2> QED
    BY <2>1, <2>2, <1>1, <1>6 DEF RestoreExe
<1>7. CASE Rot
  BY <1>7, <1>t, RotSpends DEF Rot, ResolvedMove, memory, history
<1>8. CASE Boot \/ StopSeen \/ PollDue \/ StartDue \/ GiveUp \/ Polling
           \/ Publishing \/ Swapping
  BY <1>1, <1>8
  DEF Boot, StopSeen, PollDue, StartDue, GiveUp, Polling, PollIdle,
      PollTooOld, PollRefuse, PollAlreadyCurrent, PollBegin, Publishing,
      PublishWrite, PublishRemove, Swapping, SwapClear, SwapSide,
      SwapExe, SwapStop, SwapAbandon, ConsumeRequest, SwapInstall, SwapStart,
      ProbePassed, ProbeFailed, disk
<1>9. CASE CommitSync \/ RollingBack \/ ResolveCurrent \/ ResolvePrevious
           \/ ResolveNeedsHuman \/ RestoreApp \/ LogRepair \/ SpawnBaseline
           \/ Crash \/ StopRequested \/ ChildExits
           \/ (\E b \in Build : StageExe(b)) \/ StageSidecar
           \/ (UNCHANGED vars)
  BY <1>1, <1>9
  DEF CommitSync, RollingBack, RollBackKill, RollBackDiscard, ResolveCurrent,
      ResolvePrevious, ResolveNeedsHuman, RestoreApp, LogRepair,
      SpawnBaseline, Crash, StopRequested, ChildExits, StageExe,
      StageSidecar, disk, vars
<1> QED
  BY <1>2, <1>3, <1>4, <1>5, <1>6, <1>7, <1>8, <1>9
  DEF Next, Restarted, Started, Supervisor, Environment, Committing, Restoring

(* Neither a crash, a rollback nor a failed operation brings another build *)
(* back: only the promotion of a probed candidate does, or a file that     *)
(* rots in that very step.                                                 *)
THEOREM PromotionOnly == Spec => BootsAnotherBuildOnlyByPromotion
<1> DEFINE Claim ==
      Resolved' \notin {Resolved, None} =>
         \/ pc = "c_promote" /\ Resolved' = cand /\ cand \in proven
         \/ (left["rot"])' < left["rot"]
<1>1. TypeInv /\ SwapInv /\ [Next]_vars => Claim
  BY ResolvedStep DEF ResolvedMove, SwapInv, CommitProgress, CommitSteps
<1>2. [](TypeInv /\ SwapInv) /\ [][Next]_vars => [][Claim]_vars
  BY <1>1, PTL
<1>3. QED
  BY <1>2, SwapSafe, PTL DEF Spec, BootsAnotherBuildOnlyByPromotion

LEMMA BootableMove ==
    ASSUME TypeInv, SwapInv, [Next]_vars, Bootable
    PROVE  \/ (Bootable)'
           \/ pc = "c_previous" /\ ~Usable(current)
           \/ (left["rot"])' < left["rot"]
<1>1. pc = "c_promote" => cand # None
  BY BuildAssumption DEF TypeInv, CandidateHeld, CommitSteps
<1> QED
  BY <1>1, ResolvedStep DEF ResolvedMove, Bootable

(* The last bootable generation is destroyed by nothing but a rotting file *)
(* or commit_pending's deletion of previous while current is unusable.     *)
THEOREM KeptBootable == Spec => BootableKept
<1> DEFINE Claim ==
      Bootable => \/ (Bootable)'
                  \/ pc = "c_previous" /\ ~Usable(current)
                  \/ (left["rot"])' < left["rot"]
<1>1. TypeInv /\ SwapInv /\ [Next]_vars => Claim
  BY BootableMove
<1>2. [](TypeInv /\ SwapInv) /\ [][Next]_vars => [][Claim]_vars
  BY <1>1, PTL
<1>3. QED
  BY <1>2, SwapSafe, PTL DEF Spec, BootableKept

(***************************************************************************)
(* What one failure leaves to boot.                                        *)
(***************************************************************************)
LEMMA BootableIff == Bootable <=> Usable(current) \/ Usable(previous)
BY DEF Bootable, Resolved, Usable

LEMMA Counted ==
    ASSUME left \in [Disturbance -> Nat], BudgetOnlyShrinks
    PROVE  /\ Failures \in Nat /\ Rots \in Nat
           /\ RotHappened <=> Rots # 0
<1>1. \A k \in {"crash", "io", "rot"} :
        left[k] \in Nat /\ Budget[k] \in Nat /\ left[k] <= Budget[k]
  BY BudgetAssumption DEF BudgetOnlyShrinks, Disturbance
<1> QED
  BY <1>1 DEF Failures, Rots, RotHappened

(* No step takes a failure back, and the steps that fail count theirs.     *)
LEMMA CountedStep ==
    ASSUME TypeInv, SwapInv, TypeInv', SwapInv', [Next]_vars
    PROVE  /\ Failures \in Nat /\ Failures' \in Nat /\ Failures <= Failures'
           /\ Rots \in Nat /\ Rots' \in Nat /\ Rots <= Rots'
           /\ RotHappened <=> Rots # 0
           /\ (RotHappened)' <=> Rots' # 0
           /\ Spend("io") \/ Spend("crash") => Failures' = Failures + 1
           /\ (left["rot"])' < left["rot"] => Rots' = Rots + 1
<1>1. \A k \in {"crash", "io", "rot"} :
        /\ left[k] \in Nat /\ Budget[k] \in Nat /\ left'[k] \in Nat
        /\ left[k] <= Budget[k] /\ left'[k] <= left[k]
  BY BudgetAssumption, BudgetStep
  DEF TypeInv, TypeOK, SwapInv, BudgetOnlyShrinks, Disturbance
<1>2. /\ Failures \in Nat /\ Rots \in Nat
      /\ RotHappened <=> Rots # 0
  BY Counted DEF TypeInv, TypeOK, SwapInv
<1>3. /\ Failures' = (Budget["crash"] - left'["crash"]) + (Budget["io"] - left'["io"])
      /\ Rots' = Budget["rot"] - left'["rot"]
      /\ (RotHappened)' <=> left'["rot"] < Budget["rot"]
  BY DEF Failures, Rots, RotHappened
<1>4. Spend("io") \/ Spend("crash") => Failures' = Failures + 1
  <2>1. left \in [Disturbance -> Nat]
    BY DEF TypeInv, TypeOK
  <2>2. Spend("io") => left'["io"] = left["io"] - 1 /\ left'["crash"] = left["crash"]
    BY <2>1 DEF Spend, Disturbance
  <2>3. Spend("crash") => left'["crash"] = left["crash"] - 1 /\ left'["io"] = left["io"]
    BY <2>1 DEF Spend, Disturbance
  <2> QED
    BY <1>1, <1>3, <2>2, <2>3 DEF Failures
<1>5. (left["rot"])' < left["rot"] => Rots' = Rots + 1
  <2>1. UNCHANGED left \/ \E k \in Disturbance : Spend(k)
    BY LeftStep
  <2>2. ASSUME NEW k \in Disturbance, Spend(k), left'["rot"] < left["rot"]
        PROVE  left'["rot"] = left["rot"] - 1
    <3>1. left \in [Disturbance -> Nat]
      BY DEF TypeInv, TypeOK
    <3>2. left'["rot"] = IF k = "rot" THEN left["rot"] - 1 ELSE left["rot"]
      BY <2>2, <3>1 DEF Spend, Disturbance
    <3> QED
      BY <1>1, <2>2, <3>2
  <2>3. UNCHANGED left => left'["rot"] = left["rot"]
    OBVIOUS
  <2> QED
    BY <1>1, <1>3, <2>1, <2>2, <2>3 DEF Rots
<1> QED
  BY <1>1, <1>2, <1>3, <1>4, <1>5 DEF Failures, Rots

(* The steps of commit_pending between which a generation is missing.      *)
Rotating == {"c_previous", "c_rotate", "c_promote"}

(* Before any failure current is usable, or retired to previous until the  *)
(* promotion; after one, something boots wherever the rotation is not      *)
(* under way.                                                              *)
OneFailure ==
    ~RotHappened =>
        /\ Failures = 0 => Usable(current) \/ (pc = "c_promote" /\ Usable(previous))
        /\ Failures <= 1 /\ pc \notin Rotating => Bootable

(* Nothing else moves the supervisor or a generation during the rotation.  *)
LEMMA RotatingStep ==
    ASSUME [Next]_vars, pc \in Rotating
    PROVE  \/ CommitDeletePrevious \/ CommitRotate \/ CommitPromote
           \/ Crash \/ Rot
           \/ UNCHANGED <<pc, current, previous>>
<1> USE DEF Rotating
<1>1. ~(Boot \/ StopSeen \/ PollDue \/ StartDue \/ GiveUp \/ Polling \/ Publishing)
  BY DEF Boot, StopSeen, PollDue, StartDue, GiveUp, Polling, PollIdle, PollTooOld,
         PollRefuse, PollAlreadyCurrent, PollBegin, Publishing, PublishWrite,
         PublishRemove
<1>2. ~(Swapping \/ CommitSync \/ RollingBack)
  BY DEF Swapping, SwapClear, SwapSide, SwapExe, SwapStop, SwapAbandon,
         ConsumeRequest, SwapInstall, SwapStart, ProbePassed, ProbeFailed,
         CommitSync, RollingBack, RollBackKill, RollBackDiscard
<1>3. ~Restoring
  BY DEF Restoring, ResolveCurrent, ResolvePrevious, ResolveNeedsHuman,
         RestoreSide, RestoreExe, RestoreApp, LogRepair, SpawnBaseline
<1>4. CASE StopRequested \/ ChildExits \/ (\E b \in Build : StageExe(b))
           \/ StageSidecar \/ (UNCHANGED vars)
  BY <1>4 DEF StopRequested, ChildExits, StageExe, StageSidecar, vars, disk
<1> QED
  BY <1>1, <1>2, <1>3, <1>4 DEF Next, Restarted, Started, Supervisor, Environment, Committing

(* Elsewhere a usable current is left alone.                               *)
LEMMA CurrentStays ==
    ASSUME TypeInv, SwapInv, [Next]_vars, ~Rot, pc \notin Rotating, Usable(current)
    PROVE  UNCHANGED current
<1>1. ~(CommitDeletePrevious \/ CommitRotate \/ CommitPromote)
  BY DEF CommitDeletePrevious, CommitRotate, CommitPromote, Rotating
<1>2. ~(RestoreSide \/ RestoreExe)
  BY DEF RestoreSide, RestoreExe, SwapInv, RestoreProgress
<1>3. CASE Boot \/ StopSeen \/ PollDue \/ StartDue \/ GiveUp \/ Polling
           \/ Publishing \/ Swapping
  BY <1>3
  DEF Boot, StopSeen, PollDue, StartDue, GiveUp, Polling, PollIdle,
      PollTooOld, PollRefuse, PollAlreadyCurrent, PollBegin, Publishing,
      PublishWrite, PublishRemove, Swapping, SwapClear, SwapSide,
      SwapExe, SwapStop, SwapAbandon, ConsumeRequest, SwapInstall, SwapStart,
      ProbePassed, ProbeFailed, disk
<1>4. CASE CommitSync \/ RollingBack \/ ResolveCurrent \/ ResolvePrevious
           \/ ResolveNeedsHuman \/ RestoreApp \/ LogRepair \/ SpawnBaseline
           \/ Crash \/ StopRequested \/ ChildExits
           \/ (\E b \in Build : StageExe(b)) \/ StageSidecar
           \/ (UNCHANGED vars)
  BY <1>4
  DEF CommitSync, RollingBack, RollBackKill, RollBackDiscard, ResolveCurrent,
      ResolvePrevious, ResolveNeedsHuman, RestoreApp, LogRepair,
      SpawnBaseline, Crash, StopRequested, ChildExits, StageExe,
      StageSidecar, disk, vars
<1> QED
  BY <1>1, <1>2, <1>3, <1>4
  DEF Next, Restarted, Started, Supervisor, Environment, Committing, Restoring

LEMMA OneFailureStep ==
    ASSUME TypeInv, SwapInv, TypeInv', SwapInv', [Next]_vars, OneFailure
    PROVE  OneFailure'
<1> SUFFICES ASSUME ~(RotHappened)'
             PROVE  /\ Failures' = 0 => (Usable(current))'
                                        \/ (pc' = "c_promote" /\ (Usable(previous))')
                    /\ Failures' <= 1 /\ pc' \notin Rotating => (Bootable)'
  BY DEF OneFailure, Rotating
<1>1. /\ Failures \in Nat /\ Failures' \in Nat /\ Failures <= Failures'
      /\ Spend("io") \/ Spend("crash") => Failures' = Failures + 1
      /\ ~RotHappened
      /\ ~((left["rot"])' < left["rot"])
  BY CountedStep
<1>2. ~Rot
  BY <1>1, RotSpends DEF Rot, TypeInv, TypeOK, SwapInv
<1>3. /\ Failures = 0 => Usable(current) \/ (pc = "c_promote" /\ Usable(previous))
      /\ Failures <= 1 /\ pc \notin Rotating => Bootable
  BY <1>1 DEF OneFailure
<1>4. (Bootable)' <=> (Usable(current))' \/ (Usable(previous))'
  BY BootableIff, PTL
<1>5. CASE pc \notin Rotating
  <2>1. Usable(current) => (Usable(current))'
    BY <1>2, <1>5, CurrentStays DEF Usable
  <2>2. Bootable => (Bootable)'
    BY <1>1, <1>5, BootableMove DEF Rotating
  <2> QED
    BY <1>1, <1>3, <1>5, <2>1, <2>2 DEF Rotating
<1>6. CASE CommitDeletePrevious
  <2>1. /\ pc = "c_previous"
        /\ (Usable(current))' <=> Usable(current)
        /\ pc' \in Rotating \/ Spend("io")
    BY <1>6 DEF CommitDeletePrevious, Rotating, Usable
  <2> QED
    BY <1>1, <1>3, <1>4, <2>1
<1>7. CASE CommitRotate
  <2>1. /\ pc = "c_rotate"
        /\ \/ /\ current # Absent /\ pc' = "c_promote"
              /\ previous' = current
           \/ /\ current = Absent /\ pc' = "c_promote"
           \/ /\ Spend("io")
              /\ UNCHANGED <<current, previous>> \/ previous' = current
    BY <1>7 DEF CommitRotate
  <2>2. Usable(current) => current # Absent
    BY DEF Usable, Absent
  <2>3. CASE UNCHANGED <<current, previous>>
    BY <1>1, <1>3, <1>4, <2>1, <2>2, <2>3 DEF Usable, Rotating
  <2>4. CASE previous' = current
    BY <1>1, <1>3, <1>4, <2>1, <2>2, <2>4 DEF Usable, Rotating
  <2> QED
    BY <1>1, <1>3, <1>4, <2>1, <2>2, <2>3, <2>4 DEF Rotating
<1>8. CASE CommitPromote
  <2>1. CASE current' = pending
    <3>1. pending.side = cand /\ pending.exe = cand /\ cand # None
      BY <1>8, BuildAssumption
      DEF CommitPromote, SwapInv, PendingIsCandidate, TypeInv, CandidateHeld, CommitSteps
    <3> QED
      BY <1>4, <2>1, <3>1 DEF Usable
  <2>2. CASE /\ Spend("io")
             /\ \/ current = Absent /\ current' = previous
                \/ UNCHANGED <<current, previous>>
    <3>1. Failures' = Failures + 1
      BY <1>1, <2>2
    <3>2. ~Usable(Absent)
      BY DEF Usable, Absent
    <3>3. Usable(current) \/ Usable(previous) => (Usable(current))' \/ (Usable(previous))'
      BY <2>2, <3>2 DEF Usable
    <3> QED
      BY <1>1, <1>3, <1>4, <3>1, <3>3
  <2> QED
    BY <1>8, <2>1, <2>2 DEF CommitPromote
<1>9. CASE Crash
  <2>1. Spend("crash") /\ UNCHANGED <<current, previous>>
    BY <1>9 DEF Crash, disk
  <2> QED
    BY <1>1, <1>3, <1>4, <2>1 DEF Usable
<1>10. CASE pc \in Rotating /\ UNCHANGED <<pc, current, previous>>
  BY <1>1, <1>3, <1>10 DEF Usable
<1> QED
  BY <1>2, <1>5, <1>6, <1>7, <1>8, <1>9, <1>10, RotatingStep

LEMMA OneFailureHolds == Spec => [](TypeInv /\ SwapInv /\ OneFailure)
<1>1. Init => OneFailure
  BY BuildAssumption DEF Init, OneFailure, Bootable, Resolved, Usable
<1> QED
  BY <1>1, OneFailureStep, SwapSafe, PTL DEF Spec

(* While no file has rotted: whatever step a single crash or failed disk   *)
(* operation falls on, the device has a generation to boot once the        *)
(* supervisor is down, polls or serves.  The rotation's order is the       *)
(* transaction.                                                            *)
THEOREM OneFailureBoots == Spec => []BootableAtRest
<1>1. OneFailure => BootableAtRest
  BY DEF OneFailure, BootableAtRest, Rotating
<1> QED
  BY <1>1, OneFailureHolds, PTL

(***************************************************************************)
(* The record of a start from previous.                                    *)
(***************************************************************************)
RebuildsFromPrevious == pc \in {"b_side", "b_exe"} => origin = "previous"

(* A rebuild that is not recorded yet is being recorded: it took a rotten  *)
(* file, so nothing but a second one stops the start before the record.    *)
Unrecorded ==
    Failures = 0 /\ Rots <= 1 /\ unlogged =>
        /\ Rots = 1
        /\ pc \in {"b_app", "b_log"} /\ path = "start" /\ origin = "previous"
        /\ current.exe = base

LEMMA RebuildStep ==
    ASSUME TypeInv, [Next]_vars, RebuildsFromPrevious
    PROVE  RebuildsFromPrevious'
<1> USE DEF RebuildsFromPrevious
<1>1. CASE ResolvePrevious \/ RestoreSide
  BY <1>1 DEF ResolvePrevious, RestoreSide, RestoreFailed, Answered
<1>2. cont \in {"serve", "r_kill"}
  BY DEF TypeInv, TypeOK
<1>3. CASE Boot \/ StopSeen \/ PollDue \/ StartDue \/ GiveUp \/ Polling \/ Publishing
  BY <1>2, <1>3
  DEF Boot, StopSeen, PollDue, StartDue, GiveUp, Polling, PollIdle, PollTooOld,
      PollRefuse, PollAlreadyCurrent, PollBegin, Publishing, PublishWrite,
      PublishRemove, Answered
<1>4. CASE Swapping \/ Committing \/ RollingBack
  BY <1>4
  DEF Swapping, SwapClear, SwapSide, SwapExe, SwapStop, SwapAbandon,
      ConsumeRequest, SwapInstall, SwapStart, ProbePassed, ProbeFailed,
      Committing, CommitDeletePrevious, CommitRotate, CommitPromote, CommitSync,
      RollingBack, RollBackKill, RollBackDiscard, RollBack, Answered
<1>5. CASE ResolveCurrent \/ ResolveNeedsHuman \/ RestoreExe \/ RestoreApp
           \/ LogRepair \/ SpawnBaseline
  BY <1>5
  DEF ResolveCurrent, ResolveNeedsHuman, RestoreExe, RestoreApp, LogRepair,
      SpawnBaseline, RestoreFailed, Answered
<1>6. CASE Crash
  BY <1>6 DEF Crash
<1>7. CASE StopRequested \/ ChildExits \/ Rot \/ (\E b \in Build : StageExe(b))
           \/ StageSidecar \/ (UNCHANGED vars)
  BY <1>7 DEF StopRequested, ChildExits, Rot, StageExe, StageSidecar, vars, memory
<1> QED
  BY <1>1, <1>3, <1>4, <1>5, <1>6, <1>7
  DEF Next, Restarted, Started, Supervisor, Environment, Restoring

(* Only the repair of the app and its record move a start that got here.   *)
LEMMA RecordingStep ==
    ASSUME [Next]_vars, pc \in {"b_app", "b_log"}
    PROVE  \/ RestoreApp \/ LogRepair \/ Crash \/ Rot
           \/ UNCHANGED <<pc, path, origin, current, base>>
<1>1. ~(Boot \/ StopSeen \/ PollDue \/ StartDue \/ GiveUp \/ Polling \/ Publishing)
  BY DEF Boot, StopSeen, PollDue, StartDue, GiveUp, Polling, PollIdle, PollTooOld,
         PollRefuse, PollAlreadyCurrent, PollBegin, Publishing, PublishWrite,
         PublishRemove
<1>2. ~(Swapping \/ Committing \/ RollingBack)
  BY DEF Swapping, SwapClear, SwapSide, SwapExe, SwapStop, SwapAbandon,
         ConsumeRequest, SwapInstall, SwapStart, ProbePassed, ProbeFailed,
         Committing, CommitDeletePrevious, CommitRotate, CommitPromote, CommitSync,
         RollingBack, RollBackKill, RollBackDiscard
<1>3. ~(ResolveCurrent \/ ResolvePrevious \/ ResolveNeedsHuman \/ RestoreSide
        \/ RestoreExe \/ SpawnBaseline)
  BY DEF ResolveCurrent, ResolvePrevious, ResolveNeedsHuman, RestoreSide,
         RestoreExe, SpawnBaseline
<1>4. CASE StopRequested \/ ChildExits \/ (\E b \in Build : StageExe(b))
           \/ StageSidecar \/ (UNCHANGED vars)
  BY <1>4 DEF StopRequested, ChildExits, StageExe, StageSidecar, vars, disk, memory
<1> QED
  BY <1>1, <1>2, <1>3, <1>4 DEF Next, Restarted, Started, Supervisor, Environment, Restoring

(* Only a rebuild of current at startup can leave something to record.     *)
LEMMA UnloggedMove ==
    ASSUME [Next]_vars, unlogged', ~unlogged
    PROVE  RestoreExe
<1>1. ~LogRepair
  BY DEF LogRepair
<1>2. ASSUME UNCHANGED unlogged PROVE FALSE
  BY <1>2
<1>3. CASE Boot \/ StopSeen \/ PollDue \/ StartDue \/ GiveUp \/ Polling \/ Publishing
  BY <1>2, <1>3
  DEF Boot, StopSeen, PollDue, StartDue, GiveUp, Polling, PollIdle, PollTooOld,
      PollRefuse, PollAlreadyCurrent, PollBegin, Publishing, PublishWrite,
      PublishRemove, history
<1>4. CASE Swapping \/ Committing \/ RollingBack
  BY <1>2, <1>4
  DEF Swapping, SwapClear, SwapSide, SwapExe, SwapStop, SwapAbandon,
      ConsumeRequest, SwapInstall, SwapStart, ProbePassed, ProbeFailed,
      Committing, CommitDeletePrevious, CommitRotate, CommitPromote, CommitSync,
      RollingBack, RollBackKill, RollBackDiscard, history
<1>5. CASE ResolveCurrent \/ ResolvePrevious \/ ResolveNeedsHuman \/ RestoreSide
           \/ RestoreApp \/ SpawnBaseline
  BY <1>2, <1>5
  DEF ResolveCurrent, ResolvePrevious, ResolveNeedsHuman, RestoreSide,
      RestoreApp, SpawnBaseline, history
<1>6. CASE Crash \/ StopRequested \/ ChildExits \/ Rot
           \/ (\E b \in Build : StageExe(b)) \/ StageSidecar \/ (UNCHANGED vars)
  BY <1>2, <1>6
  DEF Crash, StopRequested, ChildExits, Rot, StageExe, StageSidecar, vars, history
<1> QED
  BY <1>1, <1>3, <1>4, <1>5, <1>6 DEF Next, Restarted, Started, Supervisor, Environment, Restoring

LEMMA UnrecordedStep ==
    ASSUME TypeInv, SwapInv, TypeInv', SwapInv', [Next]_vars, OneFailure,
           RebuildsFromPrevious, Unrecorded
    PROVE  Unrecorded'
<1> SUFFICES ASSUME Failures' = 0, Rots' <= 1, unlogged'
             PROVE  /\ Rots' = 1
                    /\ pc' \in {"b_app", "b_log"} /\ path' = "start"
                    /\ origin' = "previous" /\ current'.exe = base'
  BY DEF Unrecorded
<1>1. /\ Failures = 0 /\ Rots \in Nat /\ Rots' \in Nat /\ Rots <= 1 /\ Rots <= Rots'
      /\ ~Spend("io") /\ ~Spend("crash")
      /\ RotHappened <=> Rots # 0
      /\ (left["rot"])' < left["rot"] => Rots' = Rots + 1
  BY CountedStep
<1>2. CASE unlogged
  <2>1. /\ Rots = 1 /\ pc \in {"b_app", "b_log"} /\ path = "start"
        /\ origin = "previous" /\ current.exe = base
    BY <1>1, <1>2 DEF Unrecorded
  <2>2. Rots' = 1 /\ ~Rot
    BY <1>1, <2>1, RotSpends DEF Rot, TypeInv, TypeOK, SwapInv
  <2>3. ~Crash
    BY <1>1 DEF Crash
  <2>4. ~LogRepair
    BY <1>1, <2>1 DEF LogRepair
  <2>5. CASE RestoreApp
    BY <1>1, <2>1, <2>2, <2>5 DEF RestoreApp, Recorded, disk
  <2> QED
    BY <2>1, <2>2, <2>3, <2>4, <2>5, RecordingStep
<1>3. CASE ~unlogged
  <2>1. RestoreExe
    BY <1>3, UnloggedMove
  <2>2. /\ pc = "b_exe" /\ UNCHANGED <<base, path, origin>>
        /\ current' = [current EXCEPT !.exe = previous.exe]
        /\ previous.exe = base /\ pc' = "b_app" /\ path = "start"
    BY <1>1, <1>3, <2>1, Zenon DEF RestoreExe
  <2>3. ~Usable(current)
    BY <2>2 DEF SwapInv, RestoreProgress
  <2>4. Rots # 0
    BY <1>1, <2>2, <2>3 DEF OneFailure
  <2>5. current'.exe = base
    BY <2>2, PairUpdate DEF TypeInv, TypeOK
  <2> QED
    BY <1>1, <2>2, <2>4, <2>5 DEF RebuildsFromPrevious
<1> QED
  BY <1>2, <1>3

(* A device that comes back from previous has the evidence in repair.log   *)
(* by the time an app runs: for every budget, as long as nothing failed    *)
(* and at most one file rotted.                                            *)
THEOREM RestoresAreLogged == Spec => []RestoredFromPreviousIsLogged
<1>1. Init => RebuildsFromPrevious /\ Unrecorded
  BY DEF Init, RebuildsFromPrevious, Unrecorded
<1>2. Unrecorded => RestoredFromPreviousIsLogged
  BY DEF Unrecorded, RestoredFromPreviousIsLogged
<1> QED
  BY <1>1, <1>2, RebuildStep, UnrecordedStep, OneFailureHolds, PTL DEF Spec

(***************************************************************************)
(* The transaction implements UpdateTrial.                                 *)
(***************************************************************************)
OnTrialBuild == IF OnTrial THEN cand ELSE None

(* What a step can do to the candidate on trial and to the proven builds.  *)
TrialMove ==
    \/ /\ UNCHANGED proven
       /\ OnTrialBuild' \in {OnTrialBuild, None}
    \/ /\ OnTrialBuild = None /\ OnTrialBuild' \in Build
       /\ UNCHANGED <<proven, current, previous>>
    \/ /\ OnTrialBuild # None /\ OnTrialBuild' = OnTrialBuild
       /\ proven' = proven \cup {OnTrialBuild}
       /\ UNCHANGED <<current, previous>>

LEMMA TrialStep == TypeInv /\ [Next]_vars => TrialMove
<1> SUFFICES ASSUME TypeInv, [Next]_vars
             PROVE  TrialMove
  OBVIOUS
<1> USE DEF OnTrial, OnTrialBuild, TrialMove, SwapSteps, CommitSteps, Answered,
            RollBack, RestoreFailed
<1>c. cont \in {"serve", "r_kill"}
  BY DEF TypeInv, TypeOK
<1>1. CASE PollBegin
  <2>1. staged.side \in Build \cup {None} /\ staged.side # None
    BY <1>1, PairFacts DEF PollBegin, Admissible, Usable, TypeInv, TypeOK
  <2> QED
    BY <1>1, <2>1 DEF PollBegin, disk, history
<1>2. CASE ProbePassed
  <2>1. cand \in Build /\ pc = "t_probe"
    BY <1>2 DEF ProbePassed, TypeInv, CandidateHeld
  <2> QED
    BY <1>2, <2>1, BuildAssumption DEF ProbePassed, disk, memory
<1>3. CASE Boot \/ StopSeen \/ PollDue \/ StartDue \/ GiveUp \/ PollIdle
           \/ PollTooOld \/ PollRefuse \/ PollAlreadyCurrent \/ PublishWrite
           \/ PublishRemove
  BY <1>3, <1>c
  DEF Boot, StopSeen, PollDue, StartDue, GiveUp, PollIdle, PollTooOld,
      PollRefuse, PollAlreadyCurrent, PublishWrite, PublishRemove, memory,
      history
<1>4. CASE SwapClear \/ SwapSide \/ SwapExe \/ SwapStop \/ SwapAbandon
           \/ ConsumeRequest \/ SwapInstall \/ SwapStart \/ ProbeFailed
  BY <1>4
  DEF SwapClear, SwapSide, SwapExe, SwapStop, SwapAbandon, ConsumeRequest,
      SwapInstall, SwapStart, ProbeFailed, memory, history
<1>5. CASE Committing \/ RollingBack
  BY <1>5
  DEF Committing, CommitDeletePrevious, CommitRotate, CommitPromote,
      CommitSync, RollingBack, RollBackKill, RollBackDiscard, history
<1>6. CASE Restoring
  BY <1>6
  DEF Restoring, ResolveCurrent, ResolvePrevious, ResolveNeedsHuman,
      RestoreSide, RestoreExe, RestoreApp, LogRepair, SpawnBaseline, memory,
      history
<1>7. CASE Environment \/ (UNCHANGED vars)
  BY <1>7
  DEF Environment, Started, Boot, Crash, StopRequested, ChildExits, GiveUp, Rot, StageExe,
      StageSidecar, vars, memory, history
<1> QED
  BY <1>1, <1>2, <1>3, <1>4, <1>5, <1>6, <1>7
  DEF Next, Restarted, Started, Supervisor, Polling, Publishing, Swapping

(* A file that rots was allowed to: the budget held one for it.            *)
LEMMA RotAllowed ==
    TypeInv /\ SwapInv /\ (left["rot"])' < left["rot"] /\ TypeInv'
      => Budget["rot"] > 0
<1> SUFFICES ASSUME TypeInv, SwapInv, (left["rot"])' < left["rot"], TypeInv'
             PROVE  Budget["rot"] > 0
  OBVIOUS
<1>1. /\ left["rot"] \in Nat /\ (left["rot"])' \in Nat
      /\ Budget["rot"] \in Nat /\ left["rot"] <= Budget["rot"]
  BY BudgetAssumption
  DEF TypeInv, TypeOK, SwapInv, BudgetOnlyShrinks, Disturbance
<1> QED
  BY <1>1

(* A generation that can boot is signed by a proven build.                 *)
LEMMA ResolvedProven == TrustedGenerations => Resolved \in proven \cup {None}
BY DEF TrustedGenerations, Resolved, Usable

(* The update transaction implements UpdateTrial: one trusted build, one   *)
(* candidate, and no candidate trusted before it has passed its trial.     *)
THEOREM Implements == Spec => ImplementsUpdateTrial
<1>1. Init => Trial!Init
  BY BuildAssumption
  DEF Init, Trial!Init, Resolved, Usable, OnTrial, SwapSteps, CommitSteps
<1>2. TypeInv /\ SwapInv /\ TypeInv' /\ SwapInv' /\ [Next]_vars
        => [Trial!Next]_(Trial!vars)
  <2> SUFFICES ASSUME TypeInv, SwapInv, TypeInv', SwapInv', [Next]_vars
               PROVE  [Trial!Next]_(Trial!vars)
    OBVIOUS
  <2> USE DEF Trial!Next, Trial!vars, OnTrialBuild
  <2>1. CASE OnTrialBuild = None /\ OnTrialBuild' \in Build
             /\ UNCHANGED <<proven, current, previous>>
    BY <2>1 DEF Trial!Begin, Resolved, Usable
  <2>2. CASE /\ OnTrialBuild # None /\ OnTrialBuild' = OnTrialBuild
             /\ proven' = proven \cup {OnTrialBuild}
             /\ UNCHANGED <<current, previous>>
    BY <2>2 DEF Trial!Pass, Resolved, Usable
  <2>3. CASE UNCHANGED proven /\ OnTrialBuild' \in {OnTrialBuild, None}
    <3>1. CASE Resolved' = Resolved
      BY <2>3, <3>1 DEF Trial!GiveUpTrial
    <3>2. CASE pc = "c_promote" /\ pc' = "c_sync" /\ Resolved' = cand
      <4>1. OnTrialBuild = cand /\ cand \in proven /\ OnTrialBuild' = None
        BY <3>2 DEF OnTrial, SwapSteps, CommitSteps, SwapInv, CommitProgress
      <4> QED
        BY <2>3, <3>2, <4>1 DEF Trial!Promote
    <3>3. CASE pc = "c_previous" /\ ~Usable(current) /\ Resolved' = None
      <4>1. OnTrialBuild = cand /\ cand \in proven
        BY <3>3 DEF OnTrial, SwapSteps, CommitSteps, SwapInv, CommitProgress
      <4> QED
        BY <2>3, <3>3, <4>1 DEF Trial!Stranded
    <3>4. CASE (left["rot"])' < left["rot"] /\ UNCHANGED <<pc, cand, proven>>
      <4>1. OnTrialBuild' = OnTrialBuild
        BY <3>4 DEF OnTrial
      <4>2. Resolved' \in proven \cup {None}
        BY <3>4, ResolvedProven DEF SwapInv, TrustedGenerations, Resolved, Usable
      <4>3. Budget["rot"] > 0
        BY <3>4, RotAllowed
      <4> QED
        BY <2>3, <4>1, <4>2, <4>3 DEF Trial!FallBack
    <3> QED
      BY <3>1, <3>2, <3>3, <3>4, ResolvedStep DEF ResolvedMove
  <2> QED
    BY <2>1, <2>2, <2>3, TrialStep DEF TrialMove
<1>3. QED
  BY <1>1, <1>2, SwapSafe, PTL DEF Spec, ImplementsUpdateTrial, Trial!Spec
=============================================================================
