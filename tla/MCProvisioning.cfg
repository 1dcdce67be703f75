CONSTANTS
    Files = {sysdb}
    CliFile = sysdb
    Devices = {e0, e1}
    SystemDevices = {e0, e1}
    Ips = {i1, i2}
    Netmasks = {m24}
    Gateways = {g1}
    CustomIds = {}
    DefaultNetmask = m24
    Empty = Empty
    Missing = Missing
    StoreFaults = {}
    Jobs = {cli}
    CliJob = cli
    MaxOps = 3
    MaxKills = 1
SPECIFICATION Spec
SYMMETRY Symmetry
INVARIANTS
    TypeOK
    DevicesDistinct
    PublishedDistinct
    MirrorWhenWhole
PROPERTIES
    PublishRepairs
    ImplementsAssignment
CHECK_DEADLOCK FALSE
