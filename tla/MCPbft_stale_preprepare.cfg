CONSTANTS
    n0 = n0
    n1 = n1
    n2 = n2
    n3 = n3
    n4 = n4
    NoBlock = NoBlock
    Peers <- MCPeers
    PeersAt <- MCPeersAt
    Crashed = {n0}
    HeadNum = 2
    MaxSeq = 3
    MaxView = 1
    ForcedPeriod = 100
    MaxBacklog = 1
    Byzantine = {}
    EarlyMsgs <- MCCrashedPrimaryMsgs
    EarlyBlocks <- MCCrashedPrimaryBlocks
SPECIFICATION Spec
INVARIANT NewPrimaryAccepted
