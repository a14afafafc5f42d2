\* Two peers, two networks.
CONSTANTS
    Clients = {"visitor", "probe"}
    None = None
    Blank = Blank
    Sends <- PortalSends
    Nets = {"home", "lab"}
    Setups <- PortalSetups
    DataWait = 1
    PostWait = 1
    FormWait = 1
    CloseWait = 1
    PortalTimeout = 1
SPECIFICATION PortalFairSpec
INVARIANTS
    PortalInv
    HandledAsSent
PROPERTIES
    JoinsWhatWasSaved
    LeavesForAReason
    WaiterServed
    TimeoutEndsOrForm
