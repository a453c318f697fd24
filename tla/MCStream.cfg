CONSTANTS
    MaxFiles = 2
    Paths = {p, q}
    DiskClusters = 2
    Strings <- MCStrings
    Sec = 2
    MaxPos = 4
    Seeks = {1}
    Esi = {0, 5}
SPECIFICATION StreamSpec
SYMMETRY PathSymmetry
INVARIANTS
    StreamsMatchCallers
    AcceptedBytesLand
