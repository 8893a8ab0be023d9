\* Two builds at a time, two notes, three changes.
CONSTANTS
    None = None
    a = a
    b = b
    t1 = t1
    t2 = t2
    Notes = {a, b}
    Threads = {t1, t2}
    FolderOf <- OneEach
    Edited = {a}
    Inodes = {1, 2, 3}
    Overhead = 1
    MaxNoteBytes = 2
    MaxBytes = 5
    MaxNotes = 2
    MaxIndexes = 2
    SettleTime = 0
    TickLen = 1
    MaxNow = 2
    MaxChanges = 2
    MaxCalls = 3
SPECIFICATION Spec
SYMMETRY Symmetric
CONSTRAINT Calling
VIEW Ranked
INVARIANT NotesAccounted
PROPERTIES
    HitIsCurrent
    IndexIsCurrent
CHECK_DEADLOCK FALSE
