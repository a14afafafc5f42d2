\* One portal with a timeout, against the promise of the documentation.
CONSTANTS
    Clients = {"visitor", "probe"}
    None = None
    Blank = Blank
    Sends <- PortalSends
    Nets = {"home", "lab"}
    Setups <- TimeoutSetups
    DataWait = 1
    PostWait = 1
    FormWait = 1
    CloseWait = 1
    PortalTimeout = 1
SPECIFICATION PortalFairSpec
PROPERTY TimeoutReturns
