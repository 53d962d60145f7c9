------------------------------ MODULE PbftNode ------------------------------
(***************************************************************************)
(* PbftNode of src/src/node.rs, run by every node of a network, with the  *)
(* peer transport and each node's validator as the environment.           *)
(*                                                                        *)
(* A step of a node is one call of the engine loop into the node (a peer  *)
(* message, BlockNew, BlockValid, BlockCommit, try_publish, retry_backlog *)
(* or the faulty-primary timeout) and runs to completion: messages the    *)
(* node broadcasts are delivered to itself inside the same step           *)
(* (_broadcast_message calls on_peer_message), so the handlers are        *)
(* mutually recursive operators on a context (see PbftHandlers).          *)
(*                                                                        *)
(* The network keeps every broadcast message in `net`; a node may receive *)
(* any of them, at any time, any number of times, or never: loss,         *)
(* duplication and reordering.                                            *)
(***************************************************************************)
EXTENDS Naturals, FiniteSets, Sequences, Functions, PbftHandlers

CONSTANTS
    Peers,        \* the configured peer list (config.peers), in order
    Crashed,      \* nodes that never take a step
    HeadNum,         \* block number of the chain head when the nodes start
    MaxSeq,       \* no block with a higher number is published
    MaxView,      \* no view change beyond this view is proposed
    ForcedPeriod, \* forced_view_change_period
    MaxBacklog,   \* no message is received while the backlog holds this many
    PeersAt,      \* PeersAt[k]: the on-chain peer list at block number k
    Byzantine,    \* nodes that take no step of this code
    EarlyMsgs,    \* peer messages in the network at the start, and
    EarlyBlocks   \* blocks published before the start: what Byzantine
                  \* nodes sent (anything), or Crashed nodes sent before
                  \* they crashed (what this code sends)

Nodes == Range(Peers)
Honest == Nodes \ (Crashed \cup Byzantine)

ASSUME /\ Len(Peers) >= 4
       /\ Crashed \subseteq Nodes
       /\ Byzantine \subseteq Nodes
       /\ MaxView < Len(Peers)          \* (num, publisher) names a block
       /\ ForcedPeriod \in Nat \ {0}
       /\ \A k \in DOMAIN PeersAt : FaultBound(PeersAt[k]) >= 1

VARIABLES
    state,   \* state[n]: PbftState of node n
    log,     \* log[n]: PbftLog of node n
    host,    \* host[n]: the validator of node n
    net,     \* every message broadcast so far
    blocks   \* every block published so far

vars == <<state, log, host, net, blocks>>

(***************************************************************************)
(* Blocks.  A block id is [num, by]: its number and its publisher.  A     *)
(* published block is [id, prev, seal]; its payload is either empty       *)
(* (NoBlock) or a seal [prev, votes]: the id of the block it certifies    *)
(* and the Commit messages that vote for it.                              *)
(***************************************************************************)
BlockId(num, by) == [num |-> num, by |-> by]
HeadId == BlockId(HeadNum, Peers[1])

\* pbft_block_from_block keeps id, signer and number: the block id.

\* A fresh context for node n (see PbftHandlers).
Ctx(n) == [id |-> n, st |-> state[n], lg |-> log[n], hs |-> host[n],
           out |-> {}, pub |-> {}, err |-> "ok"]

\* Write a context back: the step's effect on the node, its validator, the
\* network and the published blocks.
\* (The context is computed once, as the one element of {c}.)
Apply(c) ==
    \E r \in {c} :
        /\ state' = [state EXCEPT ![r.id] = r.st]
        /\ log' = [log EXCEPT ![r.id] = r.lg]
        /\ host' = [host EXCEPT ![r.id] = r.hs]
        /\ net' = net \cup r.out
        /\ blocks' = blocks \cup r.pub

Multicast == {"PrePrepare", "Prepare", "Commit"}

RECURSIVE OnPeerMessage(_, _)

\* _broadcast_message (the non-test build): send to the peers, then
\* deliver to ourselves.
BroadcastMessage(c, m) == OnPeerMessage([c EXCEPT !.out = @ \cup {m}], m)

\* _broadcast_pbft_message: multicast messages are only sent when the
\* phase expects that kind of message.
BroadcastPbftMessage(c, seq, type, block) ==
    IF type \in Multicast /\ type # CheckMsgType(c.st.phase) THEN c
    ELSE BroadcastMessage(c, MakeMsg(type, c.st.view, seq, block, c.id))

\* Mutant: the seal looked up under the current sequence number.
ProposeViewChangeKeyOff(c) ==
    IF c.st.mode = "ViewChanging" THEN c
    ELSE LET c1 == [c EXCEPT !.st.mode = "ViewChanging"]
             key == c.st.seq_num
         IN IF ~HasConsensusSeal(c1.lg, key) THEN Fail(c1, "NoSeal")
            ELSE BroadcastMessage(c1,
                    [MakeMsg("ViewChange", c.st.view + 1, key, NoBlock, c.id)
                        EXCEPT !.seal = c1.lg.seals[key].prev])

\* propose_view_change: enter ViewChanging, then broadcast a ViewChange
\* for view + 1 carrying the seal stored under seq_num - 1; with no such
\* seal the call fails after the mode was set.
ProposeViewChange(c) ==
    IF c.st.mode = "ViewChanging" THEN c
    ELSE LET c1 == [c EXCEPT !.st.mode = "ViewChanging"]
             key == c.st.seq_num - 1
         IN IF ~HasConsensusSeal(c1.lg, key) THEN Fail(c1, "NoSeal")
            ELSE BroadcastMessage(c1,
                    [MakeMsg("ViewChange", c.st.view + 1, key, NoBlock, c.id)
                        EXCEPT !.seal = c1.lg.seals[key].prev])

\* Mutant: the Prepare is sent for the next sequence number.
BroadcastPrePrepareNextSeq(c, m) == BroadcastPbftMessage(c, m.seq + 1, "Prepare", m.block)

\* broadcast_pre_prepare: answer an accepted PrePrepare with a Prepare.
BroadcastPrePrepare(c, m) == BroadcastPbftMessage(c, m.seq, "Prepare", m.block)

\* Mutant: the phase test inverted.
CheckBlocksIfNotCheckingInv(c, m) ==
    IF c.st.phase = "Checking"
    THEN [c EXCEPT !.st = SwitchPhase(@, "Checking"), !.hs = CheckBlocks(@, m.block)]
    ELSE c

\* check_blocks_if_not_checking
CheckBlocksIfNotChecking(c, m) ==
    IF c.st.phase # "Checking"
    THEN [c EXCEPT !.st = SwitchPhase(@, "Checking"), !.hs = CheckBlocks(@, m.block)]
    ELSE c

\* commit_block_if_committing
CommitBlockIfCommitting(c, m) ==
    IF c.st.phase = "Committing" THEN CommitHandler(c, m) ELSE c

\* propose_view_change_if_enough_messages returns true ("stop here") when
\* the node is in Normal mode and f + 1 ViewChanges for a higher view are
\* not there; it proposes a view change when they are.
ViewChangeStops(c, m) ==
    /\ c.st.mode # "ViewChanging"
    /\ ~(LogHasRequiredMsgs(c.lg, "ViewChange", m, FALSE, c.st.f + 1) /\ m.view > c.st.view)
ProposeViewChangeIfEnoughMessages(c, m) ==
    IF c.st.mode # "ViewChanging" /\ ~ViewChangeStops(c, m) THEN ProposeViewChange(c) ELSE c

\* on_peer_message
OnPeerMessage(c, m) ==
    CASE m.type = "PrePrepare" ->
            LET r == PrePrepareHandler(c, m) IN
            IF r.err = "NoBlockNew" THEN [c EXCEPT !.lg = PushBacklog(@, m)]
            ELSE IF ~Ok(r) THEN r
            ELSE BroadcastPrePrepare(r, m)
      [] m.type = "Prepare" ->
            LET c1 == [c EXCEPT !.lg = AddMessage(@, m)] IN
            IF m.seq = c1.st.seq_num /\ CheckPrepared(c1.lg, m, c1.st)
            THEN CheckBlocksIfNotChecking(c1, m) ELSE c1
      [] m.type = "Commit" ->
            LET c1 == [c EXCEPT !.lg = AddMessage(@, m)] IN
            IF m.seq = c1.st.seq_num /\ CheckCommittable(c1.lg, m, c1.st)
            THEN CommitBlockIfCommitting(c1, m) ELSE c1
      [] m.type = "ViewChange" ->
            LET c1 == [c EXCEPT !.lg = AddMessage(@, m)]
                c2 == ProposeViewChangeIfEnoughMessages(c1, m)
            IN IF ViewChangeStops(c1, m) THEN c1
               ELSE IF ~Ok(c2) THEN c2
               ELSE ViewChangeHandler(c2, m)
      [] OTHER -> c

\* update_membership: the peer list in the settings at the committed block
\* replaces ours when it names a different set of peers.
MembershipChanged(c, id) == Range(PeersAt[id.num]) # Range(c.st.peer_ids)

\* Mutant: f is recomputed but the peer list is not replaced.
UpdateMembershipFOnly(c, id) ==
    [c EXCEPT !.st.f = FaultBound(PeersAt[id.num])]

UpdateMembership(c, id) ==
    [c EXCEPT !.st.peer_ids = PeersAt[id.num], !.st.f = FaultBound(PeersAt[id.num])]

\* Mutant: the queued BlockNew looked up for the sequence number just
\* committed.
QueuedBlockNewPrev(lg, seq) ==
    LET next == GetMessagesOfTypeSeq(lg, "BlockNew", seq - 1)
    IN IF next = {} THEN NoBlock ELSE (CHOOSE x \in next : TRUE).block

\* The block of the first BlockNew logged for seq (which one is first is
\* the log's order, fixed by CHOOSE), or NoBlock.
QueuedBlockNew(lg, seq) ==
    LET next == GetMessagesOfTypeSeq(lg, "BlockNew", seq)
    IN IF next = {} THEN NoBlock ELSE (CHOOSE x \in next : TRUE).block

\* on_block_commit: only for the working block in Finished.  Move to the
\* next sequence number, take an already announced block as the working
\* block, force a view change at the forced period or (only when that is
\* not the case: `||` short-circuits) when membership changed, collect the
\* log, restart the faulty-primary timeout, and have a primary without a
\* working block start a new one.
OnBlockCommit(c, id) ==
    IF c.st.phase # "Finished" \/ c.st.working_block # id THEN c
    ELSE LET st1 == [SwitchPhase(c.st, "PrePreparing") EXCEPT !.seq_num = @ + 1]
             c1 == [c EXCEPT !.st = [st1 EXCEPT !.working_block =
                                        QueuedBlockNew(c.lg, st1.seq_num)]]
             c2 == IF AtForcedViewChange(c1.st, ForcedPeriod) THEN ForceViewChange(c1)
                   ELSE IF MembershipChanged(c1, id) THEN ForceViewChange(UpdateMembership(c1, id))
                   ELSE c1
             c3 == [c2 EXCEPT !.lg = GarbageCollect(@, c2.st.seq_num),
                              !.st.timeout = StartTimeout(@)]
         IN IF IsPrimary(c3.st) /\ c3.st.working_block = NoBlock
            THEN [c3 EXCEPT !.hs = InitializeBlock(@, id)]
            ELSE c3

\* verify_consensus_vote and verify_consensus_seal: blocks below 2 carry no
\* seal; otherwise the seal must certify the block's predecessor, every
\* vote must be for that block, the voters must be peers (at the
\* predecessor) other than the block's signer, and there must be 2f of
\* them.  The voter of a vote is the signer written in its message, which
\* is all verify_consensus_vote returns (the header signature it checks
\* is not tied to that signer), so signatures are not modelled: an honest
\* node's seal holds real votes, a Byzantine node's may name anyone.  The
\* summary is not modelled either (a seal repeats its block's summary).
VerifyConsensusSeal(c, b) ==
    IF b.id.num < 2 THEN "none"
    ELSE IF b.seal = NoBlock THEN "err"
    ELSE IF b.seal.prev # b.prev THEN "err"
    ELSE IF \E v \in b.seal.votes : v.block # b.seal.prev THEN "err"
    ELSE LET voters == Signers(b.seal.votes)
         IN IF ~(voters \subseteq Range(PeersAt[b.prev.num]) \ {b.id.by}) THEN "err"
            ELSE IF Cardinality(voters) < 2 * c.st.f THEN "err"
            ELSE "ok"

\* catchup: commit the working block with the votes in the next block's
\* seal.  The first vote's view is adopted when it is higher; the votes
\* are logged, the node jumps to Committing, commits as if the first vote
\* were a live Commit, and runs on_block_commit at once.
Catchup(c, b) ==
    IF c.st.working_block = NoBlock THEN Fail(c, "NoWorkingBlock")
    ELSE IF b.id.num # c.st.working_block.num + 1 \/ b.prev # c.st.working_block
         THEN Fail(c, "BlockMismatch")
    ELSE LET first == CHOOSE v \in b.seal.votes : TRUE
             c1 == IF first.view > c.st.view THEN [c EXCEPT !.st.view = first.view] ELSE c
             c2 == [c1 EXCEPT !.lg.msgs = @ \cup b.seal.votes, !.st.phase = "Committing"]
             c3 == CommitHandler(c2, first)
         IN OnBlockCommit(c3, first.block)

\* on_block_new
OnBlockNew(c, b) ==
    IF b.id.num < c.st.seq_num THEN c
    ELSE LET verdict == VerifyConsensusSeal(c, b) IN
         IF verdict = "err"
         THEN Fail(ProposeViewChange([c EXCEPT !.hs = FailBlock(@, b.id)]), "SealInvalid")
         ELSE LET c1 == IF verdict = "ok"
                        THEN [c EXCEPT !.lg = AddConsensusSeal(@, c.st.seq_num, b.seal)]
                        ELSE c
                  c2 == [c1 EXCEPT !.lg = AddMessage(@, MakeMsg("BlockNew", c1.st.view,
                                                                  b.id.num, b.id, c1.id))]
              IN IF b.id.num = c2.st.seq_num + 1 /\ c2.st.phase # "Finished"
                 THEN Catchup(c2, b)
                 ELSE IF b.id.num = c2.st.seq_num
                 THEN LET c3 == [c2 EXCEPT !.st.working_block = b.id] IN
                      IF IsPrimary(c3.st)
                      THEN BroadcastPbftMessage(c3, c3.st.seq_num, "PrePrepare", b.id)
                      ELSE c3
                 ELSE c2

\* on_block_valid: for the working block only; switch to Committing and
\* broadcast a Commit.
OnBlockValid(c, id) ==
    IF c.st.working_block = NoBlock THEN Fail(c, "NoWorkingBlock")
    ELSE IF c.st.working_block # id THEN Fail(c, "NotReadyForMessage")
    ELSE BroadcastPbftMessage([c EXCEPT !.st = SwitchPhase(@, "Committing")],
                              c.st.seq_num, "Commit", id)

\* build_seal: 2f Commits for seq_num - 1 from other nodes, or an error.
BuildSeal(c) ==
    LET votes == GetEnoughMessages(c.lg, "Commit", c.st.seq_num - 1, 2 * c.st.f, c.id)
    IN IF votes = {} THEN NoBlock
       ELSE [prev |-> (CHOOSE v \in votes : TRUE).block, votes |-> votes]

\* try_publish: a primary in PrePreparing whose validator is building a
\* block finalizes it, with an empty payload up to sequence number 1 and
\* with a seal after that (no seal: an error, nothing published).  The
\* validator declining to summarize or finalize ("not ready") changes
\* nothing and is not a step.
TryPublish(c) ==
    IF ~IsPrimary(c.st) \/ c.st.phase # "PrePreparing" \/ c.hs.building = NoBlock THEN c
    ELSE LET data == IF c.st.seq_num <= 1 THEN NoBlock ELSE BuildSeal(c)
             blk == [id |-> BlockId(c.hs.building.num + 1, c.id),
                     prev |-> c.hs.building, seal |-> data]
         IN IF c.st.seq_num > 1 /\ data = NoBlock THEN Fail(c, "NoSeal")
            ELSE [c EXCEPT !.hs.building = NoBlock, !.pub = @ \cup {blk}]

\* retry_backlog: feed the oldest deferred message back in.
RetryBacklog(c) ==
    IF c.lg.backlog = <<>> THEN c
    ELSE OnPeerMessage([c EXCEPT !.lg = PopBacklog(@)], Head(c.lg.backlog))

(***************************************************************************)
(* The network and the engine loop.                                       *)
(***************************************************************************)

\* A node that was running has, at the head, the head's Commits in its log
\* and (from BlockNew of the head, heads above 1 only) a seal stored under
\* the head's number; at a fresh start (HeadNum = 0) the log is empty.
InitLog ==
    [EmptyLog EXCEPT
        !.msgs = IF HeadNum = 0 THEN {}
                 ELSE {MakeMsg("Commit", 0, HeadNum, HeadId, p) : p \in Nodes},
        !.seals = [s \in IF HeadNum < 2 THEN {} ELSE {HeadNum} |->
                    [prev |-> BlockId(HeadNum - 1, Peers[1]),
                     votes |-> {MakeMsg("Commit", 0, HeadNum - 1, BlockId(HeadNum - 1, Peers[1]), p)
                                  : p \in {Peers[2], Peers[3]}}]]]

\* Every node starts at the head with its faulty-primary timeout running;
\* the primary's validator is building on the head (PbftNode::new, or
\* on_block_commit of the head).  What Byzantine or crashed nodes sent is
\* in the network from the start (receivers may take it at any later time).
Init ==
    /\ state = [n \in Nodes |-> [NewState(n, HeadNum, Peers) EXCEPT !.timeout = StartTimeout(@)]]
    /\ log = [n \in Nodes |-> InitLog]
    /\ host = [n \in Nodes |-> NewValidator(HeadId, IF n = Peers[1] THEN HeadId ELSE NoBlock)]
    /\ net = EarlyMsgs
    /\ blocks = EarlyBlocks

\* A late Prepare (below the node's sequence number) or a late Commit (below
\* seq_num - 1, or for seq_num - 1 once no further block may be published)
\* only adds a log entry that nothing reads before garbage collection drops
\* it (check_prepared and check_committable look at the current sequence
\* number, build_seal at seq_num - 1); so does a ViewChange for a view the
\* node has already reached (views only grow, and the view-change checks
\* count ViewChanges for views above the current one): their delivery is
\* left out.  Every other message can arrive at any time.
Observable(n, m) ==
    CASE m.type = "Prepare" -> m.seq >= state[n].seq_num
      [] m.type = "Commit"  -> \/ m.seq >= state[n].seq_num
                               \/ m.seq + 1 = state[n].seq_num /\ state[n].seq_num <= MaxSeq
      [] m.type = "ViewChange" -> m.view > state[n].view
      [] OTHER              -> TRUE

\* on_peer_message for a message broadcast by another node.
ReceiveMessage(n) ==
    \E m \in net :
        /\ m.signer # n
        /\ Observable(n, m)
        /\ Len(log[n].backlog) < MaxBacklog
        /\ Apply(OnPeerMessage(Ctx(n), m))

\* on_block_new, once for every published block.
BlockNew(n) ==
    \E b \in blocks :
        /\ b.id \notin host[n].seen
        /\ Apply(OnBlockNew([Ctx(n) EXCEPT !.hs.seen = @ \cup {b.id}], b))

\* on_block_valid / on_block_commit, for an update the validator sent.
BlockValid(n) ==
    \E e \in host[n].events :
        /\ e.kind = "BlockValid"
        /\ Apply(OnBlockValid([Ctx(n) EXCEPT !.hs.events = @ \ {e}], e.block))
BlockCommit(n) ==
    \E e \in host[n].events :
        /\ e.kind = "BlockCommit"
        /\ Apply(OnBlockCommit([Ctx(n) EXCEPT !.hs.events = @ \ {e}], e.block))

\* try_publish (bounded: no block above MaxSeq).
Publish(n) ==
    /\ host[n].building # NoBlock
    /\ host[n].building.num < MaxSeq
    /\ Apply(TryPublish(Ctx(n)))

\* retry_backlog
Backlog(n) ==
    /\ log[n].backlog # <<>>
    /\ Apply(RetryBacklog(Ctx(n)))

\* The engine polls check_faulty_primary_timeout_expired; once the timeout
\* has expired it calls propose_view_change (bounded by MaxView).
FaultyPrimaryTimeout(n) ==
    /\ state[n].timeout # "Inactive"
    /\ state[n].view < MaxView
    /\ Apply(ProposeViewChange([Ctx(n) EXCEPT !.st.timeout = PollTimeout(@, TRUE)]))

\* Every running node has committed the last block the bounds allow.
Done ==
    /\ \A n \in Honest : state[n].seq_num > MaxSeq
    /\ UNCHANGED vars

Next ==
    \/ Done
    \/ \E n \in Honest :
           \/ ReceiveMessage(n)
           \/ BlockNew(n)
           \/ BlockValid(n)
           \/ BlockCommit(n)
           \/ Publish(n)
           \/ Backlog(n)
           \/ FaultyPrimaryTimeout(n)

Spec == Init /\ [][Next]_vars

(***************************************************************************)
(* Properties                                                             *)
(***************************************************************************)
BlockIds == [num : 0..MaxSeq, by : Nodes]
MsgTypes == {"PrePrepare", "Prepare", "Commit", "ViewChange", "BlockNew"}
Messages == [type : MsgTypes, view : Nat, seq : 0..MaxSeq,
             block : BlockIds \cup {NoBlock}, signer : Nodes, seal : BlockIds \cup {NoBlock}]

TypeOK ==
    /\ \A n \in Nodes :
        /\ state[n].seq_num \in 1..MaxSeq + 1
        /\ state[n] \in PbftStates(Seq(Nodes \cup UNION {Range(PeersAt[k]) : k \in DOMAIN PeersAt}),
                                    BlockIds)
        /\ log[n].msgs \subseteq Messages
        /\ host[n].head \in BlockIds
        /\ host[n].committed \subseteq BlockIds
    /\ net \subseteq Messages

\* Delivery of a message the node has not logged yet (a first delivery, or
\* one of a message it deferred or rejected).
ReceiveFresh(n) ==
    \E m \in net :
        /\ m \notin log[n].msgs
        /\ m.signer # n
        /\ Observable(n, m)
        /\ Len(log[n].backlog) < MaxBacklog
        /\ Apply(OnPeerMessage(Ctx(n), m))

\* Every running node's engine loop keeps calling into the node, its
\* validator answers every request, a running timeout expires, and the
\* network eventually delivers every message at least once (it may also
\* duplicate messages forever, which is why fairness is on ReceiveFresh
\* and not on ReceiveMessage).
Fairness ==
    \A n \in Honest :
        /\ WF_vars(ReceiveFresh(n))
        /\ WF_vars(BlockNew(n))
        /\ WF_vars(BlockValid(n))
        /\ WF_vars(BlockCommit(n))
        /\ WF_vars(Publish(n))
        /\ WF_vars(Backlog(n))
        /\ WF_vars(FaultyPrimaryTimeout(n))

FairSpec == Spec /\ Fairness

\* Commits are certified: a block a validator was told to commit (other
\* than the head it started from) received Commit votes from 2f + 1
\* distinct nodes in one view -- what check_committable in on_peer_message
\* and the seal votes used by catchup are meant to guarantee.
CommittedHasQuorum ==
    \A n \in Honest : \A b \in host[n].committed \ {HeadId} :
        \E v \in {m.view : m \in net} :
            Cardinality(Signers({m \in net : m.type = "Commit" /\ m.view = v /\ m.block = b}))
                >= 2 * state[n].f + 1

\* The working block is the block for the current sequence number
\* (spec.md section 8): on_block_new only adopts a block numbered
\* seq_num, and on_block_commit takes the BlockNew of the new seq_num.
WorkingBlockAtSeq ==
    \A n \in Honest :
        state[n].working_block # NoBlock => state[n].working_block.num = state[n].seq_num

\* The stored role agrees with the view: is_primary reads the role field,
\* which view changes set; a node believes it is primary exactly when the
\* view's primary is itself.
RoleMatchesView ==
    \A n \in Honest :
        IsPrimary(state[n]) <=> GetPrimaryId(state[n]) = n

\* A node that entered ViewChanging has asked the others for the next view:
\* propose_view_change sets the mode and broadcasts its ViewChange (which
\* is the only way out of ViewChanging for a node left behind).
ViewChangeAnnounced ==
    \A n \in Honest :
        state[n].mode = "ViewChanging" =>
            \E m \in net : m.type = "ViewChange" /\ m.signer = n /\ m.view = state[n].view + 1

\* A node doing a view change drops peer messages other than ViewChanges
\* (the doc comment of propose_view_change: it "will not process any peer
\* messages other than ViewChanges until the view change is complete"):
\* while a node stays ViewChanging, the only messages of other nodes that
\* enter its log are ViewChanges.  on_peer_message dispatches on the
\* message type alone and never reads the mode.
ViewChangingDropsPeerMessages ==
    [][\A n \in Honest :
          state[n].mode = "ViewChanging" /\ state'[n].mode = "ViewChanging" =>
              \A m \in log'[n].msgs \ log[n].msgs :
                  m.signer # n => m.type = "ViewChange"]_vars

\* The membership a node works with is the one on chain at the block it
\* committed last: on_block_commit consults the peers setting at every
\* committed block (spec.md section 4.4 calls update_membership there
\* unconditionally).
MembershipFollowsChain ==
    \A n \in Honest : Range(state[n].peer_ids) = Range(PeersAt[state[n].seq_num - 1])

\* Forced rotation (spec.md section 8, scenario 6): committing a block whose
\* number is a multiple of forced_view_change_period makes on_block_commit
\* change the view.
ForcedRotation ==
    [][\A n \in Honest :
          (state'[n].seq_num = state[n].seq_num + 1 /\ state[n].seq_num % ForcedPeriod = 0)
              => state'[n].view > state[n].view]_vars

\* Seals built by honest primaries verify (spec.md section 8: build_seal
\* then verify_consensus_seal on the next block succeeds): every running
\* node accepts the seal of a block a running node published.
BuiltSealsVerify ==
    \A b \in blocks, n \in Honest :
        b.id.by \in Honest => VerifyConsensusSeal(Ctx(n), b) # "err"

\* A new view can start: a running node in Normal mode that holds the
\* BlockNew of a block never refuses the PrePrepare a running primary of
\* its view sent for it at its sequence number because an earlier view
\* bound that sequence number to another block (pre_prepare's
\* MessageExists check, reached from on_peer_message).
NewPrimaryAccepted ==
    \A n \in Honest, m \in net :
        /\ m.type = "PrePrepare"
        /\ m.signer \in Honest
        /\ m.view = state[n].view
        /\ m.seq = state[n].seq_num
        /\ state[n].mode = "Normal"
        => PrePrepareHandler(Ctx(n), m).err # "MessageExists"

\* Every running node commits every block up to MaxSeq.
Termination == <>(\A n \in Honest : state[n].seq_num > MaxSeq)

\* Agreement: no two validators (nor one validator twice) are told by the
\* consensus engine to commit two different blocks with the same number;
\* commits come from check_committable in on_peer_message and from
\* catchup's use of a seal.
Agreement ==
    \A n, m \in Honest : \A a \in host[n].committed, b \in host[m].committed :
        a.num = b.num => a = b
\* The view changes of the nodes implement ViewChangeSpec: a node's view,
\* mode and sequence number are its PbftState's; a node asked for view v
\* when its ViewChange for v is in the network.
ViewChanges == INSTANCE ViewChangeSpec WITH
    Node   <- Nodes,
    F      <- FaultBound(Peers),
    Start  <- HeadNum + 1,
    view   <- [n \in Nodes |-> state[n].view],
    mode   <- [n \in Nodes |-> state[n].mode],
    height <- [n \in Nodes |-> state[n].seq_num],
    asked  <- {<<m.signer, m.view>> : m \in {x \in net : x.type = "ViewChange"}}

\* View changes are justified: every step of the nodes is a step of
\* ViewChangeSpec -- propose_view_change asks and sets the mode together,
\* view_change enters a view only on 2f + 1 ViewChanges, and only
\* on_block_commit (forced rotation, membership change) and catchup move
\* a view without them.
ViewChangeRefinement == ViewChanges!Spec
=============================================================================
