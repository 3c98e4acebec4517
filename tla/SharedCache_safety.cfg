\* Two backends, two rows; VACUUM, crashes and leftover files.
SPECIFICATION FairSpec
CONSTANTS
    p1 = p1
    p2 = p2
    p3 = p3
    NoProc = NoProc
    Procs = {p1, p2}
    MaxRows = 2
    MaxGen = 4
INVARIANTS
    ScanViewSound
    ScanViewComplete
    NothingReaped
PROPERTIES
    
    BuildsKeepTheirFile
    AttachEnds
