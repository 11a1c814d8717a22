SPECIFICATION Spec
CONSTANTS
    d1 = d1
    d2 = d2
    f1 = f1
    f2 = f2
    t1 = t1
    t2 = t2
    Dirs = {d1, d2}
    Names = {f1, f2}
    NoName = NoName
    Texts = {t1, t2}
    NoText = NoText
    Editions <- MCEditions
    Gone = Gone
    NoDir = NoDir
    Reentrant = TRUE
    MaxNesting = 2
INVARIANTS
    TypeOK
    OpenedIsAccepted
    SetsTold
PROPERTY
    AskedOnce
