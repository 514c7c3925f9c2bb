SPECIFICATION MetadataSpec
CONSTANTS
    f1 = f1  f2 = f2  f3 = f3  name1 = name1  u1 = u1  u2 = u2  d1 = d1  d2 = d2
    Folders = {f1, f2, f3}
    Documents = {x1}
    Names = {name1, name2}
    Requests = {r1, r2}
    Root = Root
    NoRequest = NoRequest
    HopLimit = 4
    MaxTree = 4
    MaxOps = 2
    Paths = {p1, p2}
    Contents = {c1, c2}
    NumWatchers = 2
    MaxTime = 2
    MaxActs = 2
    MaxRows = 2
    Links = {link1}
    Visits = {v1, v2}
    Edits = {e1}
    Passwords = {pw}
    NoPassword = NoPassword
    Limits = {0, 1}
    Lifetimes = {0, 1}
    Keep = Keep
    LastTime = 1
    MaxRequests = 3
    Users = {u1, u2}
    Sessions = {s1}
    Codes = {code1}
    Devices = {d1, d2}
    NoCode = NoCode
    Guests = {g1, g2}
    Nobody = Nobody
    Clients = {k1}
    Burst = 2
    Window = 2
    CodeTTL = 1
    SessionTTL = 2
    LastSecond = 3
INVARIANTS
    MetadataTypeOK
    CyclesNeedARace
    NothingDangles
    UploadsShareFolders
    NoticedChangesArrive
    EntriesTellTheContent
    LimitHolds
    FirstComeOnly
    BurstBounded
PROPERTIES
    TrashTakesTheTree
CONSTRAINT DrawnInOrder
CHECK_DEADLOCK FALSE
