SPECIFICATION Spec
CONSTANTS
    Subjects = {"files", "sqlite", "layout", "fetch", "media"}
    Writer = {w1, w2}
    Key = {k1, k2}
    Body = {b1, b2}
    None = None
    Nil = Nil
    Vacant = Vacant
    Stem = {1, 2, 3}
    CanonicalStem = 2
    SchemaVersion = 1
    MaxRevision = 1
    Identity = {m1, m2}
    Spelling = {"toml", "TOML"}
    NewDocument = NewDocument
    Fetcher = {f1, f2}
    Wanted = wanted
    Other = other
    Units = 2
    MaxFetches = 3
    Id = {i1, i2}
    Version = {"v1", "v2", "v3"}
    SizeOf <- MCSize
    Url = {u1}
    Backstop = 1
    MaxChanges = 2
    MaxRequests = 2
SYMMETRY MCSymmetry
INVARIANTS TypeOK SnapshotsAreOfTheirTime MigrateKeepsDocuments PublishedIsVerified ListingIsRecent DownloadIsOneImage
PROPERTIES StoresKeepPromise
CHECK_DEADLOCK FALSE
