CONSTANTS
    n0 = n0
    n1 = n1
    n2 = n2
    n3 = n3
    n4 = n4
    NoBlock = NoBlock
    Peers <- MCPeers
    PeersAt <- MCPeersAtChanged
    Crashed = {n3}
    HeadNum = 2
    MaxSeq = 3
    MaxView = 0
    ForcedPeriod = 4
    MaxBacklog = 1
    Byzantine = {}
    EarlyMsgs = {}
    EarlyBlocks = {}
SPECIFICATION Spec
INVARIANT MembershipFollowsChain
