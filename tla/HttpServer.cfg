CONSTANTS
    Connections = {k1, k2}
    SentRequests <- MCSentRequests
SPECIFICATION FairSpec
INVARIANTS ListensUntilAcceptFails OneExchange 
PROPERTIES EveryConnectionIsClosed
