SPECIFICATION Spec
CONSTANTS
    inbox = inbox
    sent = sent
    trash = trash
    Mailboxes <- MCMailboxes
    None = None
    MaxLines = 6
SYMMETRY Symmetry
CHECK_DEADLOCK FALSE
INVARIANTS
    TypeOK
    PairedIfAdjacent
    NoneDropped
