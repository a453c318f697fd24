CONSTANTS
    gw = gw
    near = near
    next = next
    far = far
    Local <- MCLocal
    Remote <- MCRemote
    Gateway = gw
    CacheSize = 2
    TxSlots = 2
    Count = 1
SPECIFICATION Spec
INVARIANT SentAsBuilt
