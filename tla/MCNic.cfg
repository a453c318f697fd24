CONSTANTS
    RingSize = 32
    Word = 64
    Lens = {6, 12}
    MaxLen = 16
    TxSlots = 2
    Frame = {f1, f2}
    Nothing = Nothing
SPECIFICATION FairSpec
INVARIANT TypeOK
PROPERTIES
    ImplementsRx
    ImplementsTx
    PacketsGetHandled
