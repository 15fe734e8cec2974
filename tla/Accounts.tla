------------------------------ MODULE Accounts ------------------------------
(***************************************************************************)
(* One member's account: the data key that seals the private rows, wrapped *)
(* once under the password and once under the recovery code, and the       *)
(* requests that replace the wraps (internal/service/auth.go, SetUserKeys  *)
(* in internal/store/users.go).  Every one of them reads the row, derives  *)
(* keys for a good part of a second, and then overwrites all of it with    *)
(* one UPDATE that names nothing but the user's id.                        *)
(*                                                                         *)
(* A wrap opens with the secret and the Argon2id parameters it was made    *)
(* with.  Rejected requests (wrong secret, password too short) change      *)
(* nothing and are not modelled.                                           *)
(***************************************************************************)
EXTENDS Naturals, FiniteSets

CONSTANTS
    Keys,           \* data keys that may be generated
    Passwords,
    Codes,          \* recovery codes that may be generated
    Kdfs,           \* configurations of the key derivation
    Sessions,       \* session slots
    Procs,          \* requests running at the same time
    Activators,     \* those that may submit the invitation
    Nothing

ASSUME AccountsAssumption ==
    /\ Activators \subseteq Procs
    /\ Passwords \cap Codes = {}
    /\ Nothing \notin Keys

VARIABLES
    user,       \* the row of table users
    kdf,        \* the parameters this process derives new wraps with
    session,    \* session[s]: the data key in memory, or Nothing
    sealed,     \* the data keys that private rows are sealed with
    keys,       \* the data keys generated so far
    codes,      \* the recovery codes generated so far
    spent,      \* the codes a completed recovery was made with
    req

vars == <<user, kdf, session, sealed, keys, codes, spent, req>>

WrapUnder(secrets) == [key : Keys, secret : secrets, kdf : Kdfs]
UserRow ==
    [state : {"invited"}]
    \cup [state : {"active"}, pw : WrapUnder(Passwords), rc : WrapUnder(Codes),
          kdf : Kdfs]

Idle == [op |-> "idle"]
Request ==
    {Idle}
    \cup [op : {"Activate"}, new : Passwords]
    \cup [op : {"Change"}, key : Keys, new : Passwords, rc : WrapUnder(Codes),
          kdf : Kdfs]
    \cup [op : {"Login"}, key : Keys]
    \cup [op : {"Recover"}, key : Keys, new : Passwords, code : Codes]

At(p, op) == req[p].op = op
Become(p, r) == req' = [req EXCEPT ![p] = r]

Active == user.state = "active"

(* Unwrap under the row's parameters, as Login and Recover derive the key. *)
Opens(wrap, secret) == wrap.secret = secret /\ wrap.kdf = user.kdf

Wrapped(key, secret, params) == [key |-> key, secret |-> secret, kdf |-> params]

(* An invitation has been issued. *)
Init ==
    /\ user = [state |-> "invited"]
    /\ kdf \in Kdfs
    /\ session = [s \in Sessions |-> Nothing]
    /\ sealed = {} /\ keys = {} /\ codes = {} /\ spent = {}
    /\ req = [p \in Procs |-> Idle]

-----------------------------------------------------------------------------
(* SetUserKeys: the whole row, whatever it holds by now. *)
SetUserKeys(pw, rc, params) ==
    user' = [state |-> "active", pw |-> pw, rc |-> rc, kdf |-> params]

(* wrapAll: both wraps, a fresh recovery code, today's parameters. *)
WrapAll(key, new, code) ==
    /\ code \in Codes \ codes
    /\ codes' = codes \cup {code}
    /\ SetUserKeys(Wrapped(key, new, kdf), Wrapped(key, code, kdf), kdf)

InviteKept == TRUE                     \* mutant: a token that stays valid
Invited == user.state = "invited"

ActivateLoad(p, new) ==
    /\ req[p] = Idle /\ p \in Activators
    /\ Invited
    /\ Become(p, [op |-> "Activate", new |-> new])
    /\ UNCHANGED <<user, kdf, session, sealed, keys, codes, spent>>

ActivateWrite(p, key, code) ==
    /\ At(p, "Activate")
    /\ key \in Keys \ keys
    /\ keys' = keys \cup {key}
    /\ WrapAll(key, req[p].new, code)
    /\ Become(p, Idle)
    /\ UNCHANGED <<kdf, session, sealed, spent>>

LoginLoad(p, password) ==
    /\ req[p] = Idle
    /\ Active /\ Opens(user.pw, password)
    /\ Become(p, [op |-> "Login", key |-> user.pw.key])
    /\ UNCHANGED <<user, kdf, session, sealed, keys, codes, spent>>

LoginEnd(p, s) ==
    /\ At(p, "Login")
    /\ session[s] = Nothing
    /\ session' = [session EXCEPT ![s] = req[p].key]
    /\ Become(p, Idle)
    /\ UNCHANGED <<user, kdf, sealed, keys, codes, spent>>

(* Logout, or the session expired. *)
Leave(s) ==
    /\ session[s] # Nothing
    /\ session' = [session EXCEPT ![s] = Nothing]
    /\ UNCHANGED <<user, kdf, sealed, keys, codes, spent, req>>

(* A sync, a rule or a renamed account stores a row sealed by the session. *)
Seal(s) ==
    /\ session[s] # Nothing
    /\ sealed' = sealed \cup {session[s]}
    /\ UNCHANGED <<user, kdf, session, keys, codes, spent, req>>

TodaysKdf(params) == kdf          \* mutant: the configured parameters
KeptKdf(params) == params

ChangeLoad(p, s, old, new) ==
    /\ req[p] = Idle /\ session[s] # Nothing
    /\ Active /\ Opens(user.pw, old)
    /\ Become(p, [op |-> "Change", key |-> session[s], new |-> new,
                  rc |-> user.rc, kdf |-> KeptKdf(user.kdf)])
    /\ UNCHANGED <<user, kdf, session, sealed, keys, codes, spent>>

ChangeWrite(p) ==
    /\ At(p, "Change")
    /\ SetUserKeys(Wrapped(req[p].key, req[p].new, req[p].kdf),
                   req[p].rc, req[p].kdf)
    /\ Become(p, Idle)
    /\ UNCHANGED <<kdf, session, sealed, keys, codes, spent>>

SecretAsKey(wrap) == wrap.secret  \* mutant: the code's key, not the data key
RecoveredKey(wrap) == wrap.key

RecoverLoad(p, code, new) ==
    /\ req[p] = Idle
    /\ Active /\ Opens(user.rc, code)
    /\ Become(p, [op |-> "Recover", key |-> RecoveredKey(user.rc),
                  new |-> new, code |-> code])
    /\ UNCHANGED <<user, kdf, session, sealed, keys, codes, spent>>

RecoverWrite(p, code) ==
    /\ At(p, "Recover")
    /\ WrapAll(req[p].key, req[p].new, code)
    /\ spent' = spent \cup {req[p].code}
    /\ Become(p, Idle)
    /\ UNCHANGED <<kdf, session, sealed, keys>>

(* The client is gone, or the request fails before its UPDATE. *)
Abort(p) ==
    /\ req[p] # Idle
    /\ Become(p, Idle)
    /\ UNCHANGED <<user, kdf, session, sealed, keys, codes, spent>>

(* The process restarts, perhaps with other parameters: sessions and       *)
(* requests were only in memory.                                           *)
Restart ==
    /\ kdf' \in Kdfs
    /\ session' = [s \in Sessions |-> Nothing]
    /\ req' = [p \in Procs |-> Idle]
    /\ UNCHANGED <<user, sealed, keys, codes, spent>>

Step(p) ==
    \/ \E new \in Passwords : ActivateLoad(p, new)
    \/ \E key \in Keys, code \in Codes : ActivateWrite(p, key, code)
    \/ \E s \in Sessions, old \in Passwords, new \in Passwords :
          ChangeLoad(p, s, old, new)
    \/ \E password \in Passwords : LoginLoad(p, password)
    \/ \E s \in Sessions : LoginEnd(p, s)
    \/ ChangeWrite(p)
    \/ \E code \in Codes, new \in Passwords : RecoverLoad(p, code, new)
    \/ \E code \in Codes : RecoverWrite(p, code)
    \/ Abort(p)

Next ==
    \/ \E p \in Procs : Step(p)
    \/ \E s \in Sessions : Leave(s) \/ Seal(s)
    \/ Restart

Spec == Init /\ [][Next]_vars

-----------------------------------------------------------------------------
(* Every variable holds values of its shape. *)
TypeOK ==
    /\ user \in UserRow
    /\ kdf \in Kdfs
    /\ session \in [Sessions -> Keys \cup {Nothing}]
    /\ sealed \subseteq Keys /\ keys \subseteq Keys
    /\ codes \subseteq Codes /\ spent \subseteq Codes
    /\ req \in [Procs -> Request]

(* Password and recovery code open the account, under the parameters the   *)
(* row names, and open the same data key.                                  *)
BothOpenOneKey ==
    Active => /\ user.pw.kdf = user.kdf /\ user.rc.kdf = user.kdf
              /\ user.pw.key = user.rc.key

(* The keys in sessions. *)
Held == {session[s] : s \in Sessions} \ {Nothing}

(* No private row is ever sealed with a key the account does not hold, and *)
(* every session opens all of them: what a sync stored stays readable      *)
(* through every password change and recovery, also when they overlap.     *)
DataReadable ==
    \A k \in sealed \cup Held :
        Active /\ k = user.pw.key

(* auth.go, Invite: a "one-time invitation token", and design.md: one data *)
(* key per user, "generated at signup".                                    *)
OneDataKey == Cardinality(keys) <= 1

(* auth_test.go: "old code must be dead": a code a recovery was made with  *)
(* never opens the account again.                                          *)
SpentCodeDead ==
    Active => user.rc.secret \notin spent

(* What each secret yields, if its wrap opens under the row's parameters. *)
Yields ==
    IF ~Active THEN {}
    ELSE {<<wrap.secret, wrap.key>> : wrap \in {w \in {user.pw, user.rc} : Opens(w, w.secret)}}

(* The abstract specification: one data key, and secrets that yield it. *)
Promise == INSTANCE DataKey WITH
    key <- IF Active THEN user.pw.key ELSE Nothing,
    yields <- Yields, stored <- sealed, held <- Held

(* However sign-ins, password changes and recoveries overlap, each         *)
(* overwriting the whole row, the account behaves as if each happened at   *)
(* once: the data key is never replaced, and both secrets yield it.        *)
KeepsPromise == Promise!Spec
=============================================================================
