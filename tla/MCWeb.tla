------------------------------- MODULE MCWeb --------------------------------
(***************************************************************************)
(* The instance of Web for TLC: a burst of sign-in attempts, or one member *)
(* with two requests at a time.                                            *)
(***************************************************************************)
EXTENDS Web

CONSTANTS l1, r1, r2, p1, p2

MCMixes == {{l1, r1, r2}, {l1, p1, p2}}
=============================================================================
