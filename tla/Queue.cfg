SPECIFICATION FairSpec
CONSTANTS
    l1 = l1
    l2 = l2
    e1 = e1
    LocalReader = {l1, l2}
    RemoteReader = {e1}
    Impatient = {l2}
    MaxChunks = 2
    MaxMessages = 3
INVARIANTS ReadyComesFirst NoWriteWhileReading
PROPERTIES RefinesBroadcast EveryMessageDelivered
