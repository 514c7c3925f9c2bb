SPECIFICATION FairSpec
CONSTANTS
    f1 = f1  f2 = f2  worker = worker  request = request
    r1 = r1  r2 = r2  c1 = c1  h1 = h1  h2 = h2
    None = None
    Files = {f1}
    Passes = {worker}
    Requests = {}
    Readers = {}
    Cleaners = {}
    HashOf <- SameContent
    EmptyHash = h2
    Policies = {"mirror"}
    Events = {"crash"}
PROPERTIES UploadingSettles
CHECK_DEADLOCK FALSE
