SPECIFICATION Spec
CONSTANTS
    alice = alice
    bob = bob
    a1 = a1
    a2 = a2
    b1 = b1
    full = full
    part = part
    h1 = h1
    h2 = h2
    Users = {alice, bob}
    Txs = {a1, a2, b1}
    Owner <- MCOwner
    Transfers <- OneTransfer
    Vals = {full, part}
    SuggestedVal = full
    MaxId = 3
    Procs = {h1}
    Ops = {"Sync", "Flag", "EditFlagged", "Dismiss", "Restore", "Unflag", "AcceptAll", "ReapplyRules", "AddManual", "UpdateEntry", "DeleteEntry"}
    NoTx = NoTx
    NoRow = NoRow
INVARIANT TypeOK
INVARIANT FlaggedIffEntry
PROPERTY KeepsPromise
