------------------------------ MODULE DataKey -------------------------------
(***************************************************************************)
(* What an account promises its member, with no sessions to load and no    *)
(* requests in flight: a data key is chosen once and never replaced; at    *)
(* any moment exactly one password and one recovery code yield it, and     *)
(* nothing is stored or held under another.  Module Accounts is shown to   *)
(* implement it.                                                           *)
(***************************************************************************)
CONSTANTS
    Keys,       \* data keys
    Passwords,
    Codes,      \* recovery codes
    Nothing     \* no key yet

VARIABLES
    key,        \* the member's data key
    yields,     \* the pairs of a secret and the key it yields
    stored,     \* the keys that stored rows are sealed with
    held        \* the keys in sessions

vars == <<key, yields, stored, held>>

Init == key = Nothing /\ yields = {} /\ stored = {} /\ held = {}

Secrets(k) ==
    {{<<password, k>>, <<code, k>>} : password \in Passwords, code \in Codes}

SignUp ==
    /\ key = Nothing
    /\ key' \in Keys
    /\ yields' \in Secrets(key')
    /\ UNCHANGED <<stored, held>>

(* A password change or a recovery: other secrets, the same key. *)
Rewrap ==
    /\ key \in Keys
    /\ yields' \in Secrets(key)
    /\ UNCHANGED <<key, stored, held>>

Store ==
    /\ key \in Keys
    /\ stored' = {key}
    /\ UNCHANGED <<key, yields, held>>

(* Sessions begin, under the data key, and end. *)
Hold ==
    /\ held' \subseteq {key} \ {Nothing}
    /\ UNCHANGED <<key, yields, stored>>

Next == SignUp \/ Rewrap \/ Store \/ Hold

Spec == Init /\ [][Next]_vars
=============================================================================
