------------------------------- MODULE MCSync -------------------------------
(***************************************************************************)
(* The instance of Sync for TLC: two transactions from the two days before *)
(* the model starts.  The bridge has one of them for sure on the first day *)
(* and the other on the second; a first pull on the second day no longer   *)
(* reaches back to the older one, and neither does the start date.         *)
(***************************************************************************)
EXTENDS Sync

CONSTANTS t1, t2

MCPosted == [t \in {t1, t2} |-> IF t = t1 THEN FirstDay - 1 ELSE FirstDay - 2]
=============================================================================
