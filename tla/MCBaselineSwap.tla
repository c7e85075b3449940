--------------------------- MODULE MCBaselineSwap ---------------------------
(* Instances of BaselineSwap for TLC: one budget per question.             *)
EXTENDS BaselineSwap, TLC

Budgets(crash, stops, exits, io, kill, rot, stage) ==
    [crash |-> crash, stop |-> stops, exit |-> exits, io |-> io,
     kill |-> kill, rot |-> rot, stage |-> stage]

AnyFault == Budgets(1, 1, 1, 1, 1, 1, 2)
TwoCrashes == Budgets(2, 0, 0, 0, 0, 0, 1)
Live == Budgets(1, 1, 1, 1, 0, 0, 1)

Candidates == Permutations(Build \ {Seed})
=============================================================================
