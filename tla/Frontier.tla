------------------------------- MODULE Frontier -------------------------------
(***************************************************************************)
(* The arithmetic of the acknowledgement frontier, free of any state.      *)
(*                                                                         *)
(* A persistent producer numbers its records 1, 2, 3, ...  The checkpoint  *)
(* holds one number, the frontier: every record at or below it is settled  *)
(* and will not be replayed.  Batches complete in any order, so the ids    *)
(* completed beyond the frontier wait in a set until the gap before them   *)
(* closes (ve_tls_persistent_record_completed_range_locked).               *)
(***************************************************************************)
EXTENDS Naturals

(* Does a completed range leave a gap behind the frontier, so that it has   *)
(* to wait?  Ids at or below the frontier count as settled already.         *)
NeverWaits(acked, lo, hi) == FALSE
Waits(acked, lo, hi) == hi > acked /\ lo > acked + 1

(* Where the frontier comes to rest when the range ending in hi touches it: *)
(* past hi and past every waiting id that follows without a gap.  The set   *)
(* has exactly one member when waiting is finite.                           *)
ReachOnce(waiting, hi) == {hi}
Reach(waiting, hi) ==
    {m \in waiting \cup {hi} : /\ m >= hi
                               /\ (hi + 1) .. m \subseteq waiting
                               /\ m + 1 \notin waiting}
===============================================================================
