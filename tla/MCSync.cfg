CONSTANTS
    Files = {sysdb}
    SysFile = sysdb
    e0 = e0
    e1 = e1
    e2 = e2
    i1 = i1
    i2 = i2
    m24 = m24
    m16 = m16
    g1 = g1
    Devices = {e0, e1, e2}
    SystemDevices = {e0, e1}
    LegacyDevice <- Eth
    Ips = {i1, i2}
    Netmasks = {m24, m16}
    Gateways = {g1}
    CustomIds = {}
    DefaultNetmask = m24
    Empty = Empty
    Missing = Missing
    StoreFaults = {}
    Jobs = {cli}
    Waited = {cli}
    Stores <- AllStores
    MaxChanges = 4
SPECIFICATION FairSpec
INVARIANTS
    Synchronized
PROPERTIES
    Converges
CHECK_DEADLOCK FALSE
