-------------------------- MODULE MCConsoleRegistry --------------------------
(* Small instances of ConsoleRegistry.                                     *)
EXTENDS ConsoleRegistry, TLC
Symmetry == Permutations(Device) \cup Permutations(Code)
=============================================================================
