SPECIFICATION Spec
CONSTANTS
    alice = alice
    bob = bob
    a1 = a1
    a2 = a2
    b1 = b1
    full = full
    part = part
    h1 = h1
    h2 = h2
    Users = {alice, bob}
    Txs = {a1, b1}
    Owner <- MCOwner
    Transfers <- NoTransfer
    Vals = {full, part}
    SuggestedVal = full
    MaxId = 3
    Procs = {h1, h2}
    Ops = {"Sync", "Flag", "Unflag", "AcceptAll", "AddManual"}
    NoTx = NoTx
    NoRow = NoRow
SYMMETRY Handlers
INVARIANT FlaggedIffEntry
INVARIANT BookedOnceOnOwner
PROPERTY KeepsPromise
