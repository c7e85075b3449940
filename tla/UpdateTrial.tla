----------------------------- MODULE UpdateTrial -----------------------------
(***************************************************************************)
(* What the supervisor promises of an update, without files or processes:  *)
(* one trusted build that boots, at most one candidate on trial, and a     *)
(* candidate that becomes the trusted build only after it passed.          *)
(*                                                                         *)
(* Stranded is the exception commit_pending leaves open: a commit that     *)
(* begins while current is unusable deletes the last bootable generation   *)
(* before it promotes the candidate.  FallBack is what resolve_baseline    *)
(* does when a file of a generation has rotted; MayRot says whether that   *)
(* can happen at all.                                                      *)
(***************************************************************************)
CONSTANTS Build, Seed, None, MayRot

VARIABLES
    trusted,    \* the build that boots, None when no generation is usable
    trial,      \* the candidate of the transaction under way, or None
    proven      \* the seed and every build that passed its trial

vars == <<trusted, trial, proven>>

Init == /\ trusted = Seed
        /\ trial = None
        /\ proven = {Seed}

Begin(b) == /\ trial = None
            /\ trial' = b
            /\ UNCHANGED <<trusted, proven>>

Pass == /\ trial # None
        /\ proven' = proven \cup {trial}
        /\ UNCHANGED <<trusted, trial>>

Promote == /\ trial \in proven
           /\ trusted' = trial
           /\ trial' = None
           /\ UNCHANGED proven

GiveUpTrial == /\ trial' = None
               /\ UNCHANGED <<trusted, proven>>

Stranded == /\ trial \in proven
            /\ trusted' = None
            /\ trial' \in {trial, None}
            /\ UNCHANGED proven

FallBack == /\ MayRot
            /\ trusted' \in proven \cup {None}
            /\ UNCHANGED <<trial, proven>>

Next == \/ \E b \in Build : Begin(b)
        \/ Pass \/ Promote \/ GiveUpTrial \/ Stranded \/ FallBack

Spec == Init /\ [][Next]_vars
=============================================================================
