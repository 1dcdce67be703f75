CONSTANTS
    Tabs = {t1, t2}
    PageTab = t1
    Polling = {t2}
    MaxLogins = 2
    MaxRestarts = 1
    MaxSent = 2
    MaxActs = 5
    CustomIds = {"custom_1"}
    Unset = Unset
    LicenceKeys = {"k1", "k2"}
    Urls = {"u1"}
    Zones = {"UTC", "Africa/Cairo"}
    KnownZones = {"UTC", "Africa/Cairo"}
    Servers = {"pool.ntp.org", "bad"}
    SafeServers = {"pool.ntp.org"}
    Tools = {"ping"}
    Tables = {"arp"}
    Tests = {"ping"}
    Scenes = {"network"}
SPECIFICATION MCSpec
PROPERTIES
    SystemInterfacesStay
