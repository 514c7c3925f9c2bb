SPECIFICATION Spec
CONSTANTS
    f1 = f1  f2 = f2  worker = worker  request = request
    r1 = r1  r2 = r2  c1 = c1  h1 = h1  h2 = h2
    None = None
    Files = {f1, f2}
    Passes = {worker}
    Requests = {}
    Readers = {r1}
    Cleaners = {}
    HashOf <- SameContent
    EmptyHash = h2
    Policies = {"cloud_only"}
    Events = {"remove_source"}
INVARIANTS UploadedContentStays
CHECK_DEADLOCK FALSE
