------------------------------ MODULE MCDomain ------------------------------
(***************************************************************************)
(* The inputs of Domain for TLC.  Half is 512, so that amounts of five     *)
(* dollars and a few cents are at the end of the type.                     *)
(***************************************************************************)
EXTENDS Domain

CONSTANTS u1, u2

SeqsUpTo(S, n) == UNION {[1 .. k -> S] : k \in 0 .. n}

MCTexts == [neg : BOOLEAN, whole : {0, 1, 4, 5, 6, 11, 511, 512},
            frac : SeqsUpTo({0, 1, 2, 9}, 3)]

Edges == -3 .. 3 \cup {Smallest, Smallest + 1, Largest - 1, Largest}
MCRequests == [tx : Edges, requested : Edges]

Transaction == [account : 1 .. 2, amount : {-1, 1}, posted : 1 .. 3]
MCPools == SeqsUpTo(Transaction, 4)
           \cup SeqsUpTo([account : 1 .. 2, amount : {-1, 0, 1}, posted : {1}], 3)

HouseholdRule == [len : 1 .. 2, matches : BOOLEAN, says : 1 .. 2]
MCRuleLists == [card : BOOLEAN, private : SeqsUpTo([matches : BOOLEAN], 2),
                household : SeqsUpTo(HouseholdRule, 3)]

(* Plan 3 exists and does not apply to the month. *)
Entry == [payer : Users, amount : {1, -4}, category : 1 .. 2, plan : 0 .. 3]
Expected == [payer : Users, amount : {16, 64}]
MCHouseholds == [entries : SeqsUpTo(Entry, 2), planned : SeqsUpTo(Expected, 2),
                 contribs : {[u \in Users |-> IF u = u1 THEN 100 ELSE 200]},
                 closed : BOOLEAN]

MCContributions == {-1, 0, 2}

(* Three spellings of one word, one of them with another capital outside   *)
(* ASCII, and a second word; payer 2 may be mapped to nobody.              *)
Spelled(word, caps, wide) == [word |-> word, caps |-> caps, wide |-> wide]
Names == {Spelled(1, 0, 0), Spelled(1, 1, 0), Spelled(1, 0, 1), Spelled(2, 0, 0)}
ImportRows == [payer : 1 .. 2, type : Names, err : {FALSE}]
              \cup [payer : {1}, type : Names, err : {TRUE}]
Mapping == [payers : {[p \in 1 .. 2 |-> IF p = 1 THEN u1 ELSE x] : x \in {0, u2}},
            types : [Names -> {0, 1, 3}]]
MCImports == [rows : SeqsUpTo(ImportRows, 2), mapping : Mapping,
              categories : {<<>>, <<Spelled(2, 1, 0)>>,
                            <<Spelled(1, 1, 0), Spelled(1, 0, 0)>>}]
=============================================================================
