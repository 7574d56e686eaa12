SPECIFICATION Spec
CONSTANTS
    Peer = {a}
    Proc = {p, q}
    MaxMail = 1
    MaxCommands = 2
CHECK_DEADLOCK FALSE
PROPERTY OnlyAPersonUnblocks
