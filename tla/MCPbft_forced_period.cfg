CONSTANTS
    n0 = n0
    n1 = n1
    n2 = n2
    n3 = n3
    n4 = n4
    NoBlock = NoBlock
    Peers <- MCPeers
    PeersAt <- MCPeersAt
    Crashed = {n3}
    HeadNum = 2
    MaxSeq = 3
    MaxView = 0
    ForcedPeriod = 3
    MaxBacklog = 1
    Byzantine = {}
    EarlyMsgs = {}
    EarlyBlocks = {}
SPECIFICATION Spec
PROPERTY ForcedRotation
