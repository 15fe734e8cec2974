----------------------------- MODULE MCPlanning -----------------------------
(***************************************************************************)
(* The instance of Planning for TLC: one kind of entry, and plans that fit *)
(* it or, changed to the other form, are for another month and amount.     *)
(***************************************************************************)
EXTENDS Planning, TLC

CONSTANTS u1, u2, food

MCEntryForms ==
    {[payer |-> u1, category |-> food, amount |-> 2, month |-> 1]}
MCPlanForms ==
    {[payer |-> u1, category |-> food, amount |-> 2, only |-> EveryMonth],
     [payer |-> u1, category |-> food, amount |-> 3, only |-> 2]}
Handlers == Permutations(Procs)
=============================================================================
