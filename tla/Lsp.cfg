SPECIFICATION FairSpec
CONSTANTS
    w1 = w1
    w2 = w2
    w3 = w3
    buf1 = buf1
    buf2 = buf2
    Servers = {s1, s2, s3}
    Calls = {c1, c2, c3, c4}
    Roots = {w1, w2, w3}
    Texts <- AllTexts
    Disk = Disk
    Loads <- AllLoads
    Project = Project
    Minted = {m1, m2}
    FolderCap = 2
    None = None
INVARIANTS FoldersMatchRoots CheckedMeansEnded
PROPERTIES DeathEndsTheWait
CHECK_DEADLOCK FALSE
