# TLA+ models of sawtooth-pbft

This directory holds TLA+ models of the PBFT consensus engine in `src/src`
(`node.rs`, `state.rs`, `timing.rs`), the TLC configurations that check them,
and `PROJECT.json`. `PROJECT.json` maps every modelled definition to the
source lines it translates, and lists the runs, mutants, findings and hazards.

## The system

Each validator runs one PBFT node. A single-threaded engine loop calls into
the node for each of these events:

- a peer message: `on_peer_message`;
- a validator update: `on_block_new`, `on_block_valid`, `on_block_commit`;
- timer-driven calls: `try_publish`, `retry_backlog`, and the faulty-primary
  timeout, which leads to `propose_view_change`.

The node keeps three pieces of state:

- a `PbftState`: sequence number, view, phase, mode, role, peers, `f`, the
  timeout and the working block;
- a `PbftLog`: messages, the backlog and seals;
- a handle on the validator `Service`.

A round has five steps:

1. The primary publishes a block.
2. Every node receives `BlockNew`.
3. The primary multicasts a PrePrepare.
4. Nodes exchange Prepares, ask the validator to check the block, and
   exchange Commits.
5. Each node tells its validator to commit, and `on_block_commit` moves the
   node to the next sequence number.

Every broadcast is delivered to the node itself synchronously. The block of
each round carries a **seal**: the previous block's 2f Commit votes. Seals
serve two purposes:

- a node can catch up by committing with the seal's votes instead of live
  votes;
- a node attaches its seal to a ViewChange.

View changes can start in four ways:

- the faulty-primary timeout expires;
- the node sees f+1 ViewChanges for a higher view;
- a seal fails verification;
- a forced rotation, every `forced_view_change_period` blocks, or a
  membership change.

## Modules

| Module | Models | Source |
|---|---|---|
| `PbftTiming` | `Timeout`: Inactive, Active or Expired, with start, stop and is_expired. The clock is the poll's input. | `timing.rs` |
| `PbftState` | The `PbftState` record (`PbftStates`, the struct with its fields' values, used by `TypeOK`) and its operations, as pure operators on a record. | `state.rs` |
| `PbftLog` | The message log: a set of messages, a backlog FIFO, seals by sequence number, the quorum predicates and garbage collection. | spec.md §4.2 (`message_log.rs` is not among the sources) |
| `PbftHandlers` | `handlers::pre_prepare`, `commit`, `view_change` and `force_view_change`. | spec.md §4.4 and §4.8 (`handlers.rs` is not among the sources) |
| `Validator` | The host validator as the environment: head, block being built, pending updates, committed blocks. | not repository code |
| `PbftNode` | The node of `node.rs`, run by every peer, plus the network. | `node.rs` |
| `ViewChangeSpec` | The abstract view-change protocol (spec.md §4.8): views, modes, heights and the set of asks. `PbftNode` refines it (`ViewChangeRefinement`). | spec.md §4.8 |
| `MCPbft` | Model values for four peers, the on-chain peer lists, and what a Byzantine peer has sent. | — |

**Contexts and self-delivery.** Every node method is an operator from a
*context* `[id, st, lg, hs, out, pub, err]` to a context. A context holds:

- the node's state, log and validator;
- the messages broadcast and the blocks published so far in the step;
- the returned error.

The step then writes the context back. `_broadcast_message` calls
`on_peer_message`, and that call can reach `propose_view_change` and broadcast
again. So self-delivery is a chain of RECURSIVE operators inside one step,
which is how the engine runs it. When a call fails partway, the changes it
made before the error are kept (`Fail`), as with `?` in Rust.

**Actions of `PbftNode`.** The actions are:

- `ReceiveMessage(n)`: any message in `net` not signed by n, any number of
  times, or never. This covers loss, duplication and reordering.
- `BlockNew(n)`: once per published block.
- `BlockValid(n)` and `BlockCommit(n)`: one for each update the validator
  queued.
- `Publish(n)`: `try_publish`.
- `Backlog(n)`: `retry_backlog`.
- `FaultyPrimaryTimeout(n)`: the timeout expires and `propose_view_change`
  runs.

Crashed nodes (`Crashed`) never take a step.

**Early messages and Byzantine peers.** Nodes in `Byzantine` run none of
this code either. The messages `EarlyMsgs` and the blocks `EarlyBlocks`
are in the network from the start, and the MC module defines both sets.
They hold one of two things:

- what Byzantine peers sent (anything);
- what a crashed node sent before it crashed (what this code would send).

A receiver may take such a message at any later time, so seeding them at
the start loses nothing. The other runs set both sets to `{}`.

**Refinement.** `ViewChangeSpec` says what view changes may do:

- a node in Normal mode asks for the next view and becomes ViewChanging, in one step;
- a node enters a higher view, in Normal mode, once 2f+1 nodes asked for that view;
- only at a commit may a node move up without asks: at most one view above the highest view any node is in.

The mapping takes these from the concrete state:

- each node's `view`, `mode` and `seq_num`;
- the set of `<<signer, view>>` pairs of the ViewChanges in `net`.

`ViewChangeRefinement == ViewChanges!Spec` is a PROPERTY of the
`viewchange` run.

## Runs

All runs use four peers (f = 1). Most take `HeadNum = 2` and `MaxSeq = 3`,
which is one new block. `fresh_start` starts at head 1 (two blocks can
follow), and `removed_voter` allows two new blocks (`MaxSeq = 4`).

| Run | Configuration | Checks | Result |
|---|---|---|---|
| `normal` | n3 crashed, no view change (`MaxView = 0`) | `TypeOK`; `CommittedHasQuorum` (every committed block has 2f+1 Commit signers in one view); `WorkingBlockAtSeq` (spec §8); `Termination` under fairness | pass, 8,709 states |
| `viewchange` | n0 (the primary) crashed, `MaxView = 1`, membership changes at block 3 | `RoleMatchesView`; `ViewChangeAnnounced`; `MembershipFollowsChain`; `ViewChangeRefinement` | pass, about 51k states |
| `fresh_start` | as `viewchange`, head 1 | `ViewChangeAnnounced` | violation |
| `forced_period` | as `normal`, period 3 | `ForcedRotation` (spec §8, scenario 6) | violation |
| `byz_forged_seal` | n3 Byzantine (f = 1), nobody crashed, `MaxView = 0` | `Agreement` | violation |
| `catchup_role` | as `byz_forged_seal`, the seal's votes from view 1 | `RoleMatchesView` | violation |
| `removed_voter` | as `normal`, two blocks (`MaxSeq = 4`), n2 replaced by n4 at block 3 | `BuiltSealsVerify` (every seal a running primary built verifies at every running node) | violation |
| `stale_preprepare` | n0 crashed after publishing block 3 and sending its PrePrepare, `MaxView = 1` | `NewPrimaryAccepted` | violation |
| `membership_forced` | as `normal`, period 4, membership changes at block 3 | `MembershipFollowsChain` | violation |
| `viewchanging_votes` | as `normal`, `MaxView = 1`, no fairness | `ViewChangingDropsPeerMessages` (action property: while a node stays ViewChanging, only ViewChanges of other nodes enter its log) | violation |

Every property of a passing run has a mutant in `PROJECT.json`: a plausible
bug in the mapped code, which TLC must catch. The mutants are:

- a Prepare sent for seq+1;
- a 2f commit quorum instead of 2f+1;
- the queued BlockNew read for the old sequence number;
- an inverted phase test in `check_blocks_if_not_checking`;
- `downgrade_role` never applied;
- the seal looked up under the wrong key;
- `update_membership` that does not replace the peers;
- `discard_current_block` that does not reset the mode to Normal, which breaks the refinement.

## Findings

The eight violation runs each show one finding:

1. **A failed view change leaves the node stuck.** `propose_view_change` sets
   `mode = ViewChanging` (`node.rs:724`) before `get_consensus_seal(seq_num-1)?`
   (`node.rs:735`). No seal is stored below block 2. So at `seq_num` 2 the
   node enters ViewChanging, never broadcasts its ViewChange, and ignores
   every later timeout. If the primary of block 2 crashes, the network stops.
   The unit tests add a seal under key 0 by hand (`node.rs:1333`).
2. **Forced rotation comes one block early.** `at_forced_view_change` is
   tested after `seq_num += 1` (`node.rs:535`, `node.rs:546`). Spec
   scenario 6 wants the change *at* block 30 when the period is 30.
3. **A forced rotation hides a membership change.** `at_forced_view_change()
   || update_membership(..)` skips the membership update at a forced-rotation
   block (`node.rs:546`).
4. **Seal votes can be forged.** `verify_consensus_vote` checks a
   vote's header signature. It then returns the signer id written inside
   the vote's message, which is never compared with `header.signer_id`
   (`node.rs:275`). `verify_consensus_seal` counts those ids. So one
   Byzantine peer can publish, on each of two blocks numbered 3, a block 4
   whose seal names n1 and n2 as voters. With f = 1 and only that one
   faulty peer:
   - n0 catches up to one block 3 and n1 to the other;
   - `on_block_new` never checks who published a block.
5. **Catch-up keeps a stale role.** `catchup` adopts the view of the
   seal's votes (`node.rs:412`) without updating the role. A primary of
   view 0 that catches up through a seal made in view 1 still reports
   `is_primary()`, although the primary of view 1 is n1. The run takes
   this seal from the Byzantine peer to stay small. An honest seal made
   after a view change reaches the same line.
6. **A valid seal fails after a membership change.**
   `verify_consensus_seal` reads the allowed voters from the peers
   setting at the sealed block (`node.rs:329`), that is, after that
   block's own membership change. The votes in the seal were cast by the
   peers before it. In the run, block 3 replaces n2 by n4:
   - the new primary n1 can only seal block 3 with the Commits of n0 and n2;
   - every node then rejects block 4, fails it and proposes a view change.

   spec.md §8 says that a seal from `build_seal` verifies on the next
   block.
7. **A stale PrePrepare blocks every later view.** The acceptance rule
   of `handlers::pre_prepare`, reached from `on_peer_message`
   (`node.rs:86`), refuses a PrePrepare for a sequence number that the
   log binds to another block, in any view (spec.md §4.4). In the run:
   - n1 logged the PrePrepare for block 3 of n0, which then crashed;
   - after the view change n1 is primary, publishes its own block 3, and
     refuses its own PrePrepare;
   - garbage collection only drops the entry after a commit, so with n0
     crashed no later view reaches 2f+1 Commits.
8. **A ViewChanging node still processes the old view.** The doc
   comment of `propose_view_change` (`node.rs:717`) says a node doing a
   view change "will not process any peer messages other than
   `ViewChanges`". `on_peer_message` (`node.rs:83`) dispatches on the
   message type alone and never reads the mode. In the run:
   - the primary n0 publishes block 3 and sends its Prepare;
   - n1's faulty-primary timeout expires, and n1 becomes ViewChanging;
   - n1 receives n0's Prepare, logs it (`node.rs:102`) and runs
     `check_prepared` on it. PrePrepares and Commits are handled the same way.

Not a finding: a seal is filed under the sequence number of the block that
carries it, so the seal stored at s certifies block s−1 (spec.md §3, §4.4
step 2), and the ViewChange for `seq_num − 1` carries the seal stored
there, as §4.8 asks.

Not a model result: `check_faulty_primary_timeout_expired` calls
`Timeout::check_expired` (`node.rs:694`), but `timing.rs` only defines
`is_expired`. The model uses `is_expired`.

## Bounds, reductions and fairness

**Bounds.**

- `MaxSeq` stops publishing.
- `MaxView` stops timeout-driven view changes.
- `MaxBacklog` pauses reception while the backlog is full. Without this bound
  the backlog grows forever under duplicated PrePrepares (a hazard of the
  code).
- `Done` lets a finished system stutter, so finishing is not a deadlock.
- `MaxView < |Peers|` keeps `(num, publisher)` a unique block id.

One new block already covers the whole round, the view change, publishing
with a seal, and the membership change at that block. Larger bounds (two
blocks with a live primary and a view change) run past five minutes.

**Reduction (`Observable`).** Some deliveries are left out because they only
add a log entry that no later step reads. Views and sequence numbers only
grow, and the checks read the current sequence number (`build_seal` reads
seq_num−1) and views above the current one. The deliveries left out are:

- a Prepare below `seq_num`;
- a Commit below `seq_num − 1`, or at `seq_num − 1` once nothing more is
  published;
- a ViewChange for a view already reached.

**Fairness.** Fairness is weak fairness per node for each of these:

- validator updates;
- publishing;
- the backlog retry;
- the timeout;
- `ReceiveFresh`: first delivery of a message the node has not logged.

Fairness is deliberately not on `ReceiveMessage`. Endless duplicate Prepares
make the node re-validate forever (`node.rs:177`), and weak fairness on
`ReceiveMessage` is satisfied by those duplicates. That is why `Termination`
assumes that every message is eventually delivered once, and nothing
stronger.

## Not modelled yet, and the plan

1. **Honest catch-up with a view change.** Finding 5 with honest seals
   needs two blocks past the head, which is beyond the five-minute budget.
2. **Termination in the view-change configuration.** The liveness check costs
   too much at the current size.
3. **Byzantine live messages.** A Byzantine peer that sends PrePrepares,
   Prepares or Commits of its own during a round. The rounds of three live
   honest nodes are beyond the budget, and the seal forgery of finding 4
   already breaks agreement with blocks alone.
4. **Not modelled at all:**
   - signatures, hashes, block summaries and protobuf encoding;
   - messages are records;
   - a live message's signer is its sender. The engine checks peer message signatures outside the sources.
