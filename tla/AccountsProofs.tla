--------------------------- MODULE AccountsProofs ---------------------------
(***************************************************************************)
(* Type correctness of Accounts, and: when no two requests can submit the  *)
(* invitation at once, any number of sign-ins, password changes and        *)
(* recoveries may overlap and the account keeps one data key, which both   *)
(* secrets open and which every private row is sealed with; it implements  *)
(* the account of DataKey.  A code that was spent stays dead when requests *)
(* do not overlap.                                                         *)
(***************************************************************************)
EXTENDS Accounts, FiniteSetTheorems, TLAPS

-----------------------------------------------------------------------------
LEMMA BecomeTyped ==
    ASSUME TypeOK, NEW p \in Procs, NEW r \in Request, Become(p, r)
    PROVE  req' \in [Procs -> Request]
  BY DEF TypeOK, Become

LEMMA IdleTyped == Idle \in Request
  BY DEF Request

(* What a request in the middle of something remembers. *)
LEMMA RequestShape ==
    ASSUME TypeOK, NEW p \in Procs
    PROVE  /\ At(p, "Activate") => req[p].new \in Passwords
           /\ At(p, "Login") => req[p].key \in Keys
           /\ At(p, "Change") =>
                 /\ req[p].key \in Keys /\ req[p].new \in Passwords
                 /\ req[p].rc \in WrapUnder(Codes) /\ req[p].kdf \in Kdfs
           /\ At(p, "Recover") =>
                 /\ req[p].key \in Keys /\ req[p].new \in Passwords
                 /\ req[p].code \in Codes
  BY DEF TypeOK, Request, Idle, At

LEMMA ActiveRow ==
    ASSUME TypeOK, Active
    PROVE  /\ user.pw \in WrapUnder(Passwords) /\ user.rc \in WrapUnder(Codes)
           /\ user.kdf \in Kdfs
  BY DEF TypeOK, UserRow, Active

LEMMA TypeStep == ASSUME TypeOK, [Next]_vars PROVE TypeOK'
  <1>1. CASE UNCHANGED vars
    BY <1>1 DEF TypeOK, vars
  <1>2. ASSUME NEW p \in Procs, Step(p) PROVE TypeOK'
    <2>1. ASSUME NEW new \in Passwords, ActivateLoad(p, new) PROVE TypeOK'
      <3>1. [op |-> "Activate", new |-> new] \in Request
        BY DEF Request
      <3>2. QED  BY <2>1, <3>1, BecomeTyped DEF ActivateLoad, TypeOK
    <2>2. ASSUME NEW key \in Keys, NEW code \in Codes, ActivateWrite(p, key, code)
          PROVE TypeOK'
      <3>1. user' \in UserRow /\ codes' \subseteq Codes
        BY <2>2, RequestShape
           DEF ActivateWrite, WrapAll, SetUserKeys, Wrapped, WrapUnder, UserRow, TypeOK
      <3>2. QED
        BY <2>2, <3>1, BecomeTyped, IdleTyped DEF ActivateWrite, TypeOK
    <2>3. ASSUME NEW password \in Passwords, LoginLoad(p, password) PROVE TypeOK'
      <3>1. [op |-> "Login", key |-> user.pw.key] \in Request
        BY <2>3, ActiveRow DEF LoginLoad, WrapUnder, Request
      <3>2. QED  BY <2>3, <3>1, BecomeTyped DEF LoginLoad, TypeOK
    <2>4. ASSUME NEW s \in Sessions, LoginEnd(p, s) PROVE TypeOK'
      <3>1. session' \in [Sessions -> Keys \cup {Nothing}]
        BY <2>4, RequestShape DEF LoginEnd, TypeOK
      <3>2. QED  BY <2>4, <3>1, BecomeTyped, IdleTyped DEF LoginEnd, TypeOK
    <2>5. ASSUME NEW s \in Sessions, NEW old \in Passwords, NEW new \in Passwords,
                 ChangeLoad(p, s, old, new)
          PROVE TypeOK'
      <3>1. [op |-> "Change", key |-> session[s], new |-> new, rc |-> user.rc,
             kdf |-> KeptKdf(user.kdf)] \in Request
        BY <2>5, ActiveRow DEF ChangeLoad, KeptKdf, Request, TypeOK
      <3>2. QED  BY <2>5, <3>1, BecomeTyped DEF ChangeLoad, TypeOK
    <2>6. CASE ChangeWrite(p)
      <3>1. user' \in UserRow
        BY <2>6, RequestShape DEF ChangeWrite, SetUserKeys, Wrapped, WrapUnder, UserRow
      <3>2. QED  BY <2>6, <3>1, BecomeTyped, IdleTyped DEF ChangeWrite, TypeOK
    <2>7. ASSUME NEW code \in Codes, NEW new \in Passwords, RecoverLoad(p, code, new)
          PROVE TypeOK'
      <3>1. [op |-> "Recover", key |-> RecoveredKey(user.rc), new |-> new,
             code |-> code] \in Request
        BY <2>7, ActiveRow DEF RecoverLoad, RecoveredKey, WrapUnder, Request
      <3>2. QED  BY <2>7, <3>1, BecomeTyped DEF RecoverLoad, TypeOK
    <2>8. ASSUME NEW code \in Codes, RecoverWrite(p, code) PROVE TypeOK'
      <3>1. /\ user' \in UserRow
            /\ codes' \subseteq Codes /\ spent' \subseteq Codes
        BY <2>8, RequestShape
           DEF RecoverWrite, WrapAll, SetUserKeys, Wrapped, WrapUnder, UserRow, TypeOK
      <3>2. QED
        BY <2>8, <3>1, BecomeTyped, IdleTyped DEF RecoverWrite, TypeOK
    <2>9. CASE Abort(p)
      BY <2>9, BecomeTyped, IdleTyped DEF Abort, TypeOK
    <2>10. QED
      BY <1>2, <2>1, <2>2, <2>3, <2>4, <2>5, <2>6, <2>7, <2>8, <2>9 DEF Step
  <1>3. ASSUME NEW s \in Sessions, Leave(s) \/ Seal(s) PROVE TypeOK'
    BY <1>3 DEF Leave, Seal, TypeOK
  <1>4. CASE Restart
    BY <1>4, IdleTyped DEF Restart, TypeOK
  <1>5. QED
    BY <1>1, <1>2, <1>3, <1>4 DEF Next

(* The row, the sessions and the requests hold values of their shapes. *)
THEOREM TypeCorrect == Spec => []TypeOK
  <1>1. Init => TypeOK
    BY DEF Init, TypeOK, UserRow, Request
  <1>2. QED
    BY <1>1, TypeStep, PTL DEF Spec

-----------------------------------------------------------------------------
(* The inductive invariant.  A request holds the key of the row as it was  *)
(* read; that it is still the row's key when the request overwrites the    *)
(* row is what makes overlapping requests harmless.                        *)

Activating == \A p \in Procs : At(p, "Activate") => p \in Activators /\ ~Active

HoldsKey ==
    \A p \in Procs : req[p].op \in {"Login", "Change", "Recover"} =>
        Active /\ req[p].key = user.pw.key

KeepsRecoveryWrap ==
    \A p \in Procs : At(p, "Change") =>
        req[p].rc.key = user.pw.key /\ req[p].rc.kdf = req[p].kdf

OneKey ==
    Activating /\ HoldsKey /\ KeepsRecoveryWrap /\ BothOpenOneKey /\ DataReadable

(* A step of p that leaves the row alone changes nothing for the others.   *)
LEMMA OthersKeep ==
    ASSUME TypeOK, OneKey, NEW p \in Procs, NEW r, Become(p, r), UNCHANGED user,
           r = Idle \/ (r.op = "Activate" /\ p \in Activators /\ ~Active)
             \/ (r.op \in {"Login", "Recover"} /\ Active /\ r.key = user.pw.key)
             \/ (r.op = "Change" /\ Active /\ r.key = user.pw.key
                 /\ r.rc.key = user.pw.key /\ r.rc.kdf = r.kdf)
    PROVE  Activating' /\ HoldsKey' /\ KeepsRecoveryWrap' /\ BothOpenOneKey'
  <1>1. \A q \in Procs : req'[q] = IF q = p THEN r ELSE req[q]
    BY DEF TypeOK, Become
  <1>2. Active' <=> Active
    BY DEF Active
  <1>3. Activating'
    BY <1>1, <1>2 DEF OneKey, Activating, At, Idle
  <1>4. HoldsKey'
    BY <1>1, <1>2 DEF OneKey, HoldsKey, At, Idle
  <1>5. KeepsRecoveryWrap'
    BY <1>1, <1>2 DEF OneKey, KeepsRecoveryWrap, At, Idle
  <1>6. QED
    BY <1>2, <1>3, <1>4, <1>5 DEF OneKey, BothOpenOneKey

(* Overwriting the row with wraps of the key it already has.               *)
LEMMA RewrapKeeps ==
    ASSUME TypeOK, OneKey, Active, NEW p \in Procs, Become(p, Idle),
           NEW pw, NEW rc, NEW params, SetUserKeys(pw, rc, params),
           pw.key = user.pw.key, rc.key = user.pw.key,
           pw.kdf = params, rc.kdf = params,
           UNCHANGED <<sealed, session>>
    PROVE  OneKey'
  <1>1. \A q \in Procs : req'[q] = IF q = p THEN Idle ELSE req[q]
    BY IdleTyped DEF TypeOK, Become
  <1>2. Active' /\ user'.pw.key = user.pw.key
    BY DEF SetUserKeys, Active
  <1>3. Activating'
    BY <1>1 DEF OneKey, Activating, At, Idle
  <1>4. HoldsKey' /\ KeepsRecoveryWrap'
    BY <1>1, <1>2 DEF OneKey, HoldsKey, KeepsRecoveryWrap, At, Idle
  <1>5. BothOpenOneKey'
    BY DEF SetUserKeys, BothOpenOneKey
  <1>6. DataReadable'
    BY <1>2 DEF OneKey, DataReadable, Held
  <1>7. QED
    BY <1>3, <1>4, <1>5, <1>6 DEF OneKey

(* The first wraps: no other request, session or row can hold a key yet.   *)
LEMMA ActivationKeeps ==
    ASSUME \A q, r \in Activators : q = r,
           TypeOK, OneKey, NEW p \in Procs, NEW key \in Keys, NEW code \in Codes,
           ActivateWrite(p, key, code)
    PROVE  OneKey'
  <1>1. p \in Activators /\ ~Active
    BY DEF OneKey, Activating, ActivateWrite
  <1>2. \A q \in Procs : req'[q] = IF q = p THEN Idle ELSE req[q]
    BY IdleTyped DEF TypeOK, Become, ActivateWrite
  <1>3. \A q \in Procs : req'[q].op \notin {"Activate", "Login", "Change", "Recover"}
    BY <1>1, <1>2 DEF OneKey, Activating, HoldsKey, At, Idle
  <1>4. Activating' /\ HoldsKey' /\ KeepsRecoveryWrap'
    BY <1>3 DEF Activating, HoldsKey, KeepsRecoveryWrap, At
  <1>5. BothOpenOneKey'
    BY DEF ActivateWrite, WrapAll, SetUserKeys, Wrapped, BothOpenOneKey
  <1>6. sealed \cup ({session[s] : s \in Sessions} \ {Nothing}) = {}
    BY <1>1 DEF OneKey, DataReadable, Held
  <1>7. DataReadable'
    BY <1>6 DEF DataReadable, Held, ActivateWrite
  <1>8. QED
    BY <1>4, <1>5, <1>7 DEF OneKey

LEMMA OneKeyStep ==
    ASSUME \A q, r \in Activators : q = r, TypeOK, OneKey, [Next]_vars
    PROVE  OneKey'
  <1>1. CASE UNCHANGED vars
    BY <1>1 DEF OneKey, Activating, HoldsKey, KeepsRecoveryWrap, BothOpenOneKey,
                DataReadable, Held, Active, At, vars
  <1>2. ASSUME NEW p \in Procs, Step(p) PROVE OneKey'
    <2>1. ASSUME NEW new \in Passwords, ActivateLoad(p, new) PROVE OneKey'
      <3>1. ~Active
        BY <2>1 DEF ActivateLoad, Invited, Active
      <3>2. Activating' /\ HoldsKey' /\ KeepsRecoveryWrap' /\ BothOpenOneKey'
        BY <2>1, <3>1, OthersKeep DEF ActivateLoad
      <3>3. QED
        BY <2>1, <3>2 DEF ActivateLoad, OneKey, DataReadable, Held, Active
    <2>2. ASSUME NEW key \in Keys, NEW code \in Codes, ActivateWrite(p, key, code)
          PROVE OneKey'
      BY <2>2, ActivationKeeps
    <2>3. ASSUME NEW password \in Passwords, LoginLoad(p, password) PROVE OneKey'
      <3>1. Activating' /\ HoldsKey' /\ KeepsRecoveryWrap' /\ BothOpenOneKey'
        BY <2>3, OthersKeep DEF LoginLoad
      <3>2. QED
        BY <2>3, <3>1 DEF LoginLoad, OneKey, DataReadable, Held, Active
    <2>4. ASSUME NEW s \in Sessions, LoginEnd(p, s) PROVE OneKey'
      <3>1. Activating' /\ HoldsKey' /\ KeepsRecoveryWrap' /\ BothOpenOneKey'
        BY <2>4, OthersKeep DEF LoginEnd
      <3>2. Active /\ req[p].key = user.pw.key
        BY <2>4 DEF LoginEnd, At, OneKey, HoldsKey
      <3>3. \A x \in Sessions : session'[x] = IF x = s THEN user.pw.key
                                              ELSE session[x]
        BY <2>4, <3>2 DEF LoginEnd, TypeOK
      <3>4. DataReadable'
        BY <2>4, <3>2, <3>3 DEF LoginEnd, OneKey, DataReadable, Held, Active
      <3>5. QED  BY <3>1, <3>4 DEF OneKey
    <2>5. ASSUME NEW s \in Sessions, NEW old \in Passwords, NEW new \in Passwords,
                 ChangeLoad(p, s, old, new)
          PROVE OneKey'
      <3>1. Active /\ session[s] = user.pw.key
        BY <2>5 DEF ChangeLoad, OneKey, DataReadable, Held
      <3>2. user.rc.key = user.pw.key /\ user.rc.kdf = KeptKdf(user.kdf)
        BY <3>1 DEF OneKey, BothOpenOneKey, KeptKdf
      <3>3. Activating' /\ HoldsKey' /\ KeepsRecoveryWrap' /\ BothOpenOneKey'
        BY <2>5, <3>1, <3>2, OthersKeep DEF ChangeLoad
      <3>4. QED
        BY <2>5, <3>3 DEF ChangeLoad, OneKey, DataReadable, Held, Active
    <2>6. CASE ChangeWrite(p)
      <3>1. /\ Active /\ req[p].key = user.pw.key
            /\ req[p].rc.key = user.pw.key /\ req[p].rc.kdf = req[p].kdf
        BY <2>6 DEF ChangeWrite, At, OneKey, HoldsKey, KeepsRecoveryWrap
      <3>2. QED
        BY <2>6, <3>1, RewrapKeeps DEF ChangeWrite, Wrapped
    <2>7. ASSUME NEW code \in Codes, NEW new \in Passwords, RecoverLoad(p, code, new)
          PROVE OneKey'
      <3>1. Active /\ RecoveredKey(user.rc) = user.pw.key
        BY <2>7 DEF RecoverLoad, RecoveredKey, OneKey, BothOpenOneKey
      <3>2. Activating' /\ HoldsKey' /\ KeepsRecoveryWrap' /\ BothOpenOneKey'
        BY <2>7, <3>1, OthersKeep DEF RecoverLoad
      <3>3. QED
        BY <2>7, <3>2 DEF RecoverLoad, OneKey, DataReadable, Held, Active
    <2>8. ASSUME NEW code \in Codes, RecoverWrite(p, code) PROVE OneKey'
      <3>1. Active /\ req[p].key = user.pw.key
        BY <2>8 DEF RecoverWrite, At, OneKey, HoldsKey
      <3>2. QED
        BY <2>8, <3>1, RewrapKeeps DEF RecoverWrite, WrapAll, Wrapped
    <2>9. CASE Abort(p)
      <3>1. Activating' /\ HoldsKey' /\ KeepsRecoveryWrap' /\ BothOpenOneKey'
        BY <2>9, OthersKeep DEF Abort
      <3>2. QED
        BY <2>9, <3>1 DEF Abort, OneKey, DataReadable, Held, Active
    <2>10. QED
      BY <1>2, <2>1, <2>2, <2>3, <2>4, <2>5, <2>6, <2>7, <2>8, <2>9 DEF Step
  <1>3. ASSUME NEW s \in Sessions, Leave(s) \/ Seal(s) PROVE OneKey'
    <2>1. UNCHANGED <<user, req>>
      BY <1>3 DEF Leave, Seal
    <2>2. DataReadable'
      <3>1. CASE Leave(s)
        <4>1. \A x \in Sessions : session'[x] \in {session[x], Nothing}
          BY <3>1 DEF Leave, TypeOK
        <4>2. QED  BY <2>1, <3>1, <4>1 DEF Leave, OneKey, DataReadable, Held, Active
      <3>2. CASE Seal(s)
        BY <2>1, <3>2 DEF Seal, OneKey, DataReadable, Held, Active
      <3>3. QED  BY <1>3, <3>1, <3>2
    <2>3. QED
      BY <2>1, <2>2 DEF OneKey, Activating, HoldsKey, KeepsRecoveryWrap,
                        BothOpenOneKey, Active, At
  <1>4. CASE Restart
    BY <1>4 DEF Restart, OneKey, Activating, HoldsKey, KeepsRecoveryWrap,
                BothOpenOneKey, DataReadable, Held, Active, At, Idle
  <1>5. QED
    BY <1>1, <1>2, <1>3, <1>4 DEF Next

LEMMA OneKeyInit == Init => OneKey
  BY DEF Init, OneKey, Activating, HoldsKey, KeepsRecoveryWrap,
         BothOpenOneKey, DataReadable, Held, Active, At, Idle

(* With at most one request that submits the invitation, password and      *)
(* recovery code always open the same data key, and every private row and  *)
(* every session is under that key.                                        *)
THEOREM OneKeyForever ==
    ASSUME \A q, r \in Activators : q = r
    PROVE  Spec => [](BothOpenOneKey /\ DataReadable)
  <1>1. OneKey => BothOpenOneKey /\ DataReadable
    BY DEF OneKey
  <1>2. QED
    BY <1>1, OneKeyInit, OneKeyStep, TypeCorrect, PTL DEF Spec

(* In particular neither a password change nor a recovery leaves the other *)
(* secret behind under a key, or under parameters, that no longer open it. *)
THEOREM BothSecretsOpen ==
    ASSUME \A q, r \in Activators : q = r
    PROVE  Spec => []BothOpenOneKey
  <1>1. BothOpenOneKey /\ DataReadable => BothOpenOneKey
    OBVIOUS
  <1>2. QED  BY <1>1, OneKeyForever, PTL

-----------------------------------------------------------------------------
(* The data key is generated once. *)

Generated == keys = IF Active THEN {user.pw.key} ELSE {}

LEMMA GeneratedStep ==
    ASSUME TypeOK, OneKey, Generated, [Next]_vars PROVE Generated'
  <1> USE DEF Generated, Active
  <1>1. ASSUME NEW p \in Procs, NEW key \in Keys, NEW code \in Codes,
               ActivateWrite(p, key, code)
        PROVE  Generated'
    <2>1. ~Active
      BY <1>1 DEF ActivateWrite, OneKey, Activating
    <2>2. QED
      BY <1>1, <2>1 DEF ActivateWrite, WrapAll, SetUserKeys, Wrapped
  <1>2. ASSUME NEW p \in Procs, NEW code \in Codes, RecoverWrite(p, code)
        PROVE  Generated'
    BY <1>2 DEF RecoverWrite, WrapAll, SetUserKeys, Wrapped, At, OneKey, HoldsKey
  <1>3. ASSUME NEW p \in Procs, ChangeWrite(p) PROVE Generated'
    BY <1>3 DEF ChangeWrite, SetUserKeys, Wrapped, At, OneKey, HoldsKey
  <1>4. CASE UNCHANGED <<user, keys>>
    BY <1>4
  <1>5. QED
    BY <1>1, <1>2, <1>3, <1>4
       DEF Next, Step, vars, ActivateLoad, LoginLoad, LoginEnd, ChangeLoad,
           RecoverLoad, Abort, Leave, Seal, Restart

(* design.md: a data key per user, "generated at signup": with at most one *)
(* request that submits the invitation, no other is ever generated.        *)
THEOREM KeyGeneratedOnce ==
    ASSUME \A q, r \in Activators : q = r
    PROVE  Spec => []OneDataKey
  <1>1. Init => Generated
    BY DEF Init, Generated, Active
  <1>2. Generated => OneDataKey
    <2>1. Cardinality({}) = 0 /\ Cardinality({user.pw.key}) = 1
      BY FS_EmptySet, FS_Singleton
    <2>2. QED  BY <2>1 DEF Generated, OneDataKey
  <1>3. QED
    BY <1>1, <1>2, OneKeyInit, OneKeyStep, GeneratedStep, TypeCorrect, PTL DEF Spec

-----------------------------------------------------------------------------
(* A code that was used. *)

(* What the only request in flight read is still in the row. *)
RowCurrent ==
    \A p \in Procs :
        /\ At(p, "Change") => Active /\ req[p].rc = user.rc
        /\ At(p, "Recover") => Active /\ req[p].code = user.rc.secret

CodesKnown ==
    /\ spent \subseteq codes
    /\ Active => user.rc.secret \in codes
    /\ \A p \in Procs : At(p, "Activate") => ~Active

CodeDead == RowCurrent /\ CodesKnown /\ SpentCodeDead

LEMMA CodeDeadStep ==
    ASSUME \A p, q \in Procs : p = q, TypeOK, CodeDead, [Next]_vars
    PROVE  CodeDead'
  <1> USE DEF CodeDead, RowCurrent, CodesKnown, SpentCodeDead, Active, At
  <1>1. CASE UNCHANGED vars
    BY <1>1 DEF vars
  <1>2. ASSUME NEW p \in Procs, Step(p) PROVE CodeDead'
    <2> USE DEF Become, Idle
    <2>0. \A r : Become(p, r) => req'[p] = r /\ \A q \in Procs : q = p
      BY DEF TypeOK
    <2>1. ASSUME NEW new \in Passwords, ActivateLoad(p, new) PROVE CodeDead'
      BY <2>0, <2>1 DEF ActivateLoad, Invited
    <2>2. ASSUME NEW key \in Keys, NEW code \in Codes, ActivateWrite(p, key, code)
          PROVE CodeDead'
      <3>1. /\ user'.state = "active" /\ user'.rc.secret = code
            /\ code \notin codes /\ codes' = codes \cup {code} /\ UNCHANGED spent
        BY <2>2 DEF ActivateWrite, WrapAll, SetUserKeys, Wrapped
      <3>2. \A q \in Procs : req'[q] = Idle
        BY <2>0, <2>2 DEF ActivateWrite
      <3>3. QED  BY <3>1, <3>2
    <2>3. ASSUME NEW password \in Passwords, LoginLoad(p, password) PROVE CodeDead'
      BY <2>0, <2>3 DEF LoginLoad
    <2>4. ASSUME NEW s \in Sessions, LoginEnd(p, s) PROVE CodeDead'
      BY <2>0, <2>4 DEF LoginEnd
    <2>5. ASSUME NEW s \in Sessions, NEW old \in Passwords, NEW new \in Passwords,
                 ChangeLoad(p, s, old, new)
          PROVE CodeDead'
      BY <2>0, <2>5 DEF ChangeLoad
    <2>6. CASE ChangeWrite(p)
      <3>1. /\ user'.state = "active" /\ user'.rc = user.rc
            /\ Active /\ UNCHANGED <<codes, spent>>
        BY <2>6 DEF ChangeWrite, SetUserKeys
      <3>2. \A q \in Procs : req'[q] = Idle
        BY <2>0, <2>6 DEF ChangeWrite
      <3>3. QED  BY <3>1, <3>2
    <2>7. ASSUME NEW code \in Codes, NEW new \in Passwords, RecoverLoad(p, code, new)
          PROVE CodeDead'
      BY <2>0, <2>7 DEF RecoverLoad, Opens
    <2>8. ASSUME NEW code \in Codes, RecoverWrite(p, code) PROVE CodeDead'
      <3>1. /\ user'.state = "active" /\ user'.rc.secret = code
            /\ code \notin codes /\ codes' = codes \cup {code}
        BY <2>8 DEF RecoverWrite, WrapAll, SetUserKeys, Wrapped
      <3>2. req[p].code \in codes /\ spent' = spent \cup {req[p].code}
        BY <2>8 DEF RecoverWrite
      <3>3. \A q \in Procs : req'[q] = Idle
        BY <2>0, <2>8 DEF RecoverWrite
      <3>4. QED  BY <3>1, <3>2, <3>3
    <2>9. CASE Abort(p)
      BY <2>0, <2>9 DEF Abort
    <2>10. QED
      BY <1>2, <2>1, <2>2, <2>3, <2>4, <2>5, <2>6, <2>7, <2>8, <2>9 DEF Step
  <1>3. ASSUME NEW s \in Sessions, Leave(s) \/ Seal(s) PROVE CodeDead'
    BY <1>3 DEF Leave, Seal
  <1>4. CASE Restart
    BY <1>4 DEF Restart, Idle
  <1>5. QED  BY <1>1, <1>2, <1>3, <1>4 DEF Next

(* auth_test.go: "old code must be dead", as long as the requests of a     *)
(* member do not overlap.                                                  *)
THEOREM SpentCodeStaysDead ==
    ASSUME \A p, q \in Procs : p = q
    PROVE  Spec => []SpentCodeDead
  <1>1. Init => CodeDead
    BY DEF Init, CodeDead, RowCurrent, CodesKnown, SpentCodeDead, Active, At, Idle
  <1>2. CodeDead => SpentCodeDead
    BY DEF CodeDead
  <1>3. QED  BY <1>1, <1>2, CodeDeadStep, TypeCorrect, PTL DEF Spec

-----------------------------------------------------------------------------
(* Accounts implements DataKey. *)

KeyNow == IF Active THEN user.pw.key ELSE Nothing

Promised == [Promise!Next]_(Promise!vars)

LEMMA InitPromised == Init => Promise!Init
  BY DEF Init, Promise!Init, Active, Yields, Held

LEMMA SameRow ==
    ASSUME UNCHANGED user
    PROVE  KeyNow' = KeyNow /\ Yields' = Yields
  BY DEF KeyNow, Yields, Active, Opens

LEMMA StutterPromised ==
    ASSUME UNCHANGED <<user, session, sealed>>
    PROVE  Promised
  BY SameRow DEF Promised, Promise!vars, KeyNow, Held

(* A row with two wraps of one key, both under its parameters. *)
LEMMA WrapsYield ==
    ASSUME NEW k \in Keys, NEW password \in Passwords, NEW code \in Codes, NEW params,
           user' = [state |-> "active", pw |-> Wrapped(k, password, params),
                    rc |-> Wrapped(k, code, params), kdf |-> params]
    PROVE  KeyNow' = k /\ Yields' \in Promise!Secrets(k)
  <1>1. KeyNow' = k /\ Active'
    BY DEF KeyNow, Active, Wrapped
  <1>2. {w \in {user.pw, user.rc} : Opens(w, w.secret)}' = {user'.pw, user'.rc}
    BY DEF Opens, Wrapped
  <1>3. Yields' = {<<password, k>>, <<code, k>>}
    BY <1>1, <1>2 DEF Yields, Wrapped
  <1>4. QED  BY <1>1, <1>3 DEF Promise!Secrets

LEMMA RewrapPromised ==
    ASSUME TypeOK, OneKey, Active, NEW password \in Passwords, NEW code \in Codes,
           NEW params,
           user' = [state |-> "active", pw |-> Wrapped(user.pw.key, password, params),
                    rc |-> Wrapped(user.pw.key, code, params), kdf |-> params],
           UNCHANGED <<session, sealed>>
    PROVE  Promised
  <1>1. user.pw.key \in Keys /\ KeyNow = user.pw.key
    BY ActiveRow DEF WrapUnder, KeyNow
  <1>2. KeyNow' = KeyNow /\ Yields' \in Promise!Secrets(KeyNow)
    BY <1>1, WrapsYield
  <1>3. Promise!Rewrap
    BY <1>1, <1>2 DEF Promise!Rewrap, KeyNow, Held
  <1>4. QED  BY <1>3 DEF Promised, Promise!Next

LEMMA StepPromised ==
    ASSUME TypeOK, OneKey, OneKey', [Next]_vars PROVE Promised
  <1>0. CASE UNCHANGED <<user, session, sealed>>
    BY <1>0, StutterPromised
  <1>1. ASSUME NEW p \in Procs, NEW key \in Keys, NEW code \in Codes,
               ActivateWrite(p, key, code)
        PROVE  Promised
    <2>1. ~Active /\ req[p].new \in Passwords
      BY <1>1, RequestShape DEF ActivateWrite, OneKey, Activating
    <2>2. KeyNow' = key /\ Yields' \in Promise!Secrets(key) /\ KeyNow = Nothing
      BY <1>1, <2>1, WrapsYield DEF ActivateWrite, WrapAll, SetUserKeys, KeyNow
    <2>3. Promise!SignUp
      BY <1>1, <2>2 DEF Promise!SignUp, ActivateWrite, KeyNow, Held
    <2>4. QED  BY <2>3 DEF Promised, Promise!Next
  <1>2. ASSUME NEW p \in Procs, NEW code \in Codes, RecoverWrite(p, code)
        PROVE  Promised
    <2>1. Active /\ req[p].key = user.pw.key /\ req[p].new \in Passwords
      BY <1>2, RequestShape DEF RecoverWrite, At, OneKey, HoldsKey
    <2>2. QED
      BY <1>2, <2>1, RewrapPromised DEF RecoverWrite, WrapAll, SetUserKeys
  <1>3. ASSUME NEW p \in Procs, ChangeWrite(p) PROVE Promised
    <2>1. /\ Active /\ req[p].key = user.pw.key /\ req[p].new \in Passwords
          /\ req[p].rc \in WrapUnder(Codes)
          /\ req[p].rc.key = user.pw.key /\ req[p].rc.kdf = req[p].kdf
      BY <1>3, RequestShape DEF ChangeWrite, At, OneKey, HoldsKey, KeepsRecoveryWrap
    <2>2. /\ req[p].rc.secret \in Codes
          /\ req[p].rc = Wrapped(user.pw.key, req[p].rc.secret, req[p].kdf)
      BY <2>1 DEF WrapUnder, Wrapped
    <2>3. QED
      BY <1>3, <2>1, <2>2, RewrapPromised DEF ChangeWrite, SetUserKeys
  <1>4. ASSUME NEW s \in Sessions, Seal(s) PROVE Promised
    <2>1. session[s] \in Held
      BY <1>4 DEF Held, Seal
    <2>2. Active /\ session[s] = user.pw.key /\ sealed \subseteq {user.pw.key}
      BY <2>1 DEF OneKey, DataReadable
    <2>3. sealed' = {KeyNow} /\ KeyNow \in Keys
      BY <1>4, <2>2, ActiveRow DEF Seal, KeyNow, WrapUnder
    <2>4. Promise!Store
      BY <1>4, <2>3, SameRow DEF Promise!Store, Seal, KeyNow, Held
    <2>5. QED  BY <2>4 DEF Promised, Promise!Next
  <1>5. CASE UNCHANGED <<user, sealed>>
    <2>1. KeyNow' = KeyNow /\ Yields' = Yields
      BY <1>5, SameRow
    <2>2. Held' \subseteq {KeyNow} \ {Nothing}
      BY <1>5 DEF OneKey, DataReadable, Held, KeyNow, Active
    <2>3. Promise!Hold
      BY <1>5, <2>1, <2>2 DEF Promise!Hold, KeyNow
    <2>4. QED  BY <2>3 DEF Promised, Promise!Next
  <1>6. QED
    BY <1>0, <1>1, <1>2, <1>3, <1>4, <1>5
       DEF Next, Step, vars, ActivateLoad, LoginLoad, LoginEnd, ChangeLoad,
           RecoverLoad, Abort, Leave, Restart

(* Any number of sign-ins, password changes and recoveries at once, and    *)
(* one request that submits the invitation: Accounts implements DataKey.   *)
THEOREM KeyRefinement ==
    ASSUME \A q, r \in Activators : q = r
    PROVE  Spec => KeepsPromise
  <1>1. TypeOK /\ OneKey /\ [Next]_vars => OneKey' /\ Promised
    BY OneKeyStep, StepPromised
  <1>2. QED
    BY <1>1, InitPromised, OneKeyInit, TypeCorrect, PTL
       DEF Spec, KeepsPromise, Promise!Spec, Promised
=============================================================================
