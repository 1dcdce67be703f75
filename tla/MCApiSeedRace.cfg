CONSTANTS
    Files = {apidb}
    ApiFile = apidb
    Devices = {e0, e1, e9}
    e0 = e0
    e1 = e1
    e9 = e9
    i1 = i1
    i2 = i2
    bad = bad
    m24 = m24
    g1 = g1
    p1 = p1
    SysIfaces <- TwoAdapters
    Ips = {i1, i2}
    Netmasks = {m24}
    Gateways = {g1}
    CustomIds = {p1}
    DefaultNetmask = m24
    Empty = Empty
    Missing = Missing
    NoArray = NoArray
    StoreFaults = {}
    Workers = {w1, w2}
    Bodies <- RoleBodies
    StoredJson = Missing
    StoredKeys <- NoKeys
    Jobs = {j1, j2}
    ApiJobs = {j1, j2}
    MaxRequests = 2
SPECIFICATION Spec
PROPERTIES
    OnlyPostReplaces
CHECK_DEADLOCK FALSE
