SPECIFICATION Spec
CONSTANTS
    Catalogue <- MCCatalogue
    Hooks <- MCHooks
    Issued <- MCIssued
    Clients <- MCClients
    Wirings <- MCWirings
    Capabilities <- MCCapabilities
    NoModule = "none"
    Frames = {"f1", "f2", "f3"}
    NoFrame = "none"
    MaxAbandoned = 1
    MaxDepth = 2
    MaxHandles = 1
    Events = {"ev"}
    Delimited = {}
    Tenants = {"t", "u"}
    NoTenant = "none"
    Tables = {"contacts", "notes", "deals", "sagas", "accounts", "revoked"}
    TenantTables = {"contacts", "notes", "deals", "sagas", "accounts"}
    AwareTables = {"contacts", "deals", "sagas"}
    NoTable = "none"
    Owned = {"sagas", "accounts", "revoked"}
    OwnedModels = {"sagas"}
    Exempt = {"accounts"}
    Unreadable = {}
    Broker = TRUE
INVARIANT
    UngrantedIsDenied
