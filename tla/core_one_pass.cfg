SPECIFICATION Spec
CONSTANTS
    f1 = f1  f2 = f2  worker = worker  request = request
    r1 = r1  r2 = r2  c1 = c1  h1 = h1  h2 = h2
    None = None
    Files = {f1}
    Passes = {worker}
    Requests = {worker}
    Readers = {r1}
    Cleaners = {c1}
    HashOf <- SameContent
    EmptyHash = h2
    Policies = {"mirror", "smart", "cloud_only"}
    Events = {"crash", "disconnect", "store_fails", "trash", "delete", "remove_source", "read_fails"}
INVARIANTS TypeOK LatestIsWhole BytesSomewhere SyncedHasVersion CompletedHasVersion
PROPERTIES SparesSource SyncedIsStable EvictsOnlySynced
CHECK_DEADLOCK FALSE
