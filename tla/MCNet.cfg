CONSTANTS
    gw = gw
    near = near
    next = next
    far = far
    Local <- MCLocal
    Remote <- MCRemote
    Gateway = gw
    CacheSize = 2
    TxSlots = 1
    Count = 2
SPECIFICATION Spec
INVARIANTS
    TypeOK
    OneEntryPerHost
    AddressedRight
    CountedWereAnswered
    WaitsInVain
PROPERTY PingEnds
