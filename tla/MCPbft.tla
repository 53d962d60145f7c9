------------------------------- MODULE MCPbft -------------------------------
EXTENDS PbftNode

CONSTANTS n0, n1, n2, n3, n4

MCPeers == <<n0, n1, n2, n3>>
MCPeersAt == [k \in 0..MaxSeq |-> MCPeers]

\* The on-chain peer list replaces n3 by n4 at block 3.
MCPeersAtChanged == [k \in 0..MaxSeq |-> IF k < 3 THEN MCPeers ELSE <<n0, n1, n2, n4>>]

\* The on-chain peer list replaces n2 by n4 at block 3.
MCPeersAtRemoved == [k \in 0..MaxSeq |-> IF k < 3 THEN MCPeers ELSE <<n0, n1, n3, n4>>]
\* A Byzantine n3 (the primary n0 honest) signs blocks with its own key and
\* with a fresh key n4 that is no peer's.  It publishes two blocks numbered
\* 3 on the head, and on each a block numbered 4 whose seal holds Commit
\* votes for it that name n1 and n2 as signers: verify_consensus_vote
\* returns the signer written inside each vote, while the signature it
\* checks is n3's own.  Nobody prepared or committed either block 3.
ForgedVotes(v, id) == {MakeMsg("Commit", v, id.num, id, p) : p \in {n1, n2}}
ForgedSeal(v, id) == [prev |-> id, votes |-> ForgedVotes(v, id)]
MCEarlyBlocks ==
    UNION { { [id |-> BlockId(3, k), prev |-> HeadId, seal |-> ForgedSeal(0, HeadId)],
              [id |-> BlockId(4, k), prev |-> BlockId(3, k), seal |-> ForgedSeal(0, BlockId(3, k))] }
            : k \in {n3, n4} }

\* A block 3 on the head and a block 4 on it whose seal holds votes from
\* view 1, as a seal made after the other nodes left view 0 would.
MCByzLaterView ==
    { [id |-> BlockId(3, n3), prev |-> HeadId, seal |-> ForgedSeal(0, HeadId)],
      [id |-> BlockId(4, n3), prev |-> BlockId(3, n3), seal |-> ForgedSeal(1, BlockId(3, n3))] }
\* The primary n0 published block 3 (its seal: the head's Commits of n1 and
\* n2, as build_seal picks them) and broadcast its PrePrepare, then crashed.
MCCrashedPrimaryBlocks ==
    {[id |-> BlockId(3, n0), prev |-> HeadId, seal |-> ForgedSeal(0, HeadId)]}
MCCrashedPrimaryMsgs == {MakeMsg("PrePrepare", 0, 3, BlockId(3, n0), n0)}
====
