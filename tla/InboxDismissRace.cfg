SPECIFICATION Spec
CONSTANTS
    alice = alice
    bob = bob
    a1 = a1
    a2 = a2
    b1 = b1
    full = full
    part = part
    h1 = h1
    h2 = h2
    Users = {alice, bob}
    Txs = {a1, a2}
    Owner <- MCOwner
    Transfers <- OneTransfer
    Vals = {full}
    SuggestedVal = full
    MaxId = 2
    Procs = {h1, h2}
    Ops = {"Sync", "Flag", "Dismiss"}
    NoTx = NoTx
    NoRow = NoRow
SYMMETRY Handlers
INVARIANT DismissedHasNoEntry
