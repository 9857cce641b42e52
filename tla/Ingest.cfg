CONSTANTS
    m1 = m1  m2 = m2  m3 = m3
    k1 = k1  k2 = k2  k3 = k3
    i1 = i1  i3 = i3
    p1 = p1  w1 = w1  w2 = w2
    Msgs = {m1, m2, m3}
    Keys = {k1, k2, k3}
    Ids = {i1, i3}
    Parts = {p1}
    Workers = {w1, w2}
    RawKey <- MCRawKey
    StorageId <- MCStorageId
    Atts <- MCAtts
    Malformed = {}
    MaxJobs = 2
    NoMsg = NoMsg
    NoDoc = NoDoc
SPECIFICATION FairSpec
INVARIANTS TypeOK AttachmentsDurable ReportedIntact AnsweredExists
PROPERTIES ImplementsStore FirstEnds
