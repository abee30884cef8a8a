CONSTANTS
    Requests = {r1, r2}
    t1 = t1
    t2 = t2
    Tenants = {t1, t2}
    Devices = {t1}
    Broadcasts <- CrossedBroadcasts
    MaxEdition = 1
    MaxVersions <- MostOfOne
SYMMETRY Symmetric
CHECK_DEADLOCK FALSE
SPECIFICATION Spec
INVARIANTS
    TypeOK
    VersionsGapless
    CatalogueOfVersions
    DeviceIsConsistent
PROPERTY AllOrNothing
