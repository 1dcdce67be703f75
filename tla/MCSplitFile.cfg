CONSTANTS
    Files = {sysdb, apidb}
    CliFile = sysdb
    SysFile = sysdb
    ApiFile = apidb
    e0 = e0
    e1 = e1
    e2 = e2
    i1 = i1
    i2 = i2
    m24 = m24
    g1 = g1
    p1 = p1
    Devices = {e0, e1, e2}
    SystemDevices = {e0, e1}
    SysIfaces <- TwoAdapters
    LegacyDevice <- Eth
    Ips = {i1, i2}
    Netmasks = {m24}
    Gateways = {g1}
    CustomIds = {p1}
    DefaultNetmask = m24
    Empty = Empty
    Missing = Missing
    NoArray = NoArray
    StoreFaults = {}
    Workers = {w1}
    Bodies <- FullBodies
    Jobs = {cli, bg}
    ApiJobs = {bg}
    CliJob = cli
    MaxOps = 1
    MaxRequests = 1
    Serial = TRUE
SPECIFICATION Spec
INVARIANTS
    FileFollowsApi
CHECK_DEADLOCK FALSE
