----------------------------- MODULE MCAccounts -----------------------------
(***************************************************************************)
(* Small instances of Accounts for TLC.                                    *)
(***************************************************************************)
EXTENDS Accounts, TLC

CONSTANTS k1, k2, pw1, pw2, c1, c2, c3, weak, strong, s1, s2, h1, h2

Interchangeable ==
    Permutations(Keys) \cup Permutations(Codes) \cup Permutations(Sessions)
=============================================================================
