------------------------------- MODULE PbftLog -------------------------------
(***************************************************************************)
(* PbftLog, the message log (message_log.rs is not part of the sources;   *)
(* this module follows the log's contract in spec.md section 4.2).        *)
(* A log is a record [msgs, backlog, seals]:                              *)
(*   msgs    - the set of parsed messages held, of every type;            *)
(*   backlog - the FIFO of deferred peer messages;                        *)
(*   seals   - the function from a sequence number to the seal stored     *)
(*             under it.                                                  *)
(* A message is a record [type, view, seq, block, signer, seal]; `seal`   *)
(* is the block id a ViewChange's attached seal certifies (NoBlock        *)
(* elsewhere).                                                            *)
(***************************************************************************)
EXTENDS Naturals, FiniteSets, Sequences, PbftState

\* PbftLog::new
EmptyLog == [msgs |-> {}, backlog |-> <<>>, seals |-> [s \in {} |-> NoBlock]]

\* The signers of a set of messages: distinctness is by signer id.
Signers(S) == {m.signer : m \in S}

\* add_message: store the message; adding it twice keeps one copy.
AddMessage(lg, m) == [lg EXCEPT !.msgs = @ \cup {m}]

\* get_messages_of_type_seq
GetMessagesOfTypeSeq(lg, type, seq) ==
    {m \in lg.msgs : m.type = type /\ m.seq = seq}

\* log_has_required_msgs: at least `count` distinct signers of `type`
\* messages matching m's view and sequence number (and block, if exact).
LogHasRequiredMsgs(lg, type, m, exact, count) ==
    Cardinality(Signers({x \in GetMessagesOfTypeSeq(lg, type, m.seq) :
                            x.view = m.view /\ (exact => x.block = m.block)}))
        >= count

\* check_prepared: a PrePrepare for (view, seq) from that view's primary,
\* and 2f Prepares for its block from distinct signers other than the
\* primary.
CheckPrepared(lg, info, st) ==
    LET primary == PrimaryOfView(st, info.view)
    IN \E pp \in GetMessagesOfTypeSeq(lg, "PrePrepare", info.seq) :
          /\ pp.view = info.view
          /\ pp.signer = primary
          /\ Cardinality(Signers({p \in GetMessagesOfTypeSeq(lg, "Prepare", info.seq) :
                                    p.view = info.view /\ p.block = pp.block})
                         \ {primary}) >= 2 * st.f

\* Mutant: 2f Commits taken for a quorum.
CheckCommittableTwoF(lg, info, st) ==
    /\ CheckPrepared(lg, info, st)
    /\ LogHasRequiredMsgs(lg, "Commit", info, TRUE, 2 * st.f)

\* check_committable: prepared, and 2f + 1 distinct signers of Commits for
\* the same view, sequence number and block.
CheckCommittable(lg, info, st) ==
    /\ CheckPrepared(lg, info, st)
    /\ LogHasRequiredMsgs(lg, "Commit", info, TRUE, 2 * st.f + 1)

\* get_enough_messages(Commit, seq, min_votes): min_votes Commits for seq,
\* for one block, from distinct signers other than the node itself; the
\* empty set stands for None.  Which qualifying messages come first is the
\* log's iteration order, which the model fixes by CHOOSE.
GetEnoughMessages(lg, type, seq, min_votes, self) ==
    LET cands == {S \in SUBSET {m \in GetMessagesOfTypeSeq(lg, type, seq) : m.signer # self} :
                    /\ Cardinality(S) = min_votes
                    /\ Cardinality(Signers(S)) = min_votes
                    /\ \A a, b \in S : a.block = b.block}
    IN IF cands = {} THEN {} ELSE CHOOSE S \in cands : TRUE

\* push_backlog / pop_backlog: FIFO.
PushBacklog(lg, m) == [lg EXCEPT !.backlog = Append(@, m)]
PopBacklog(lg) == [lg EXCEPT !.backlog = Tail(@)]

\* add_consensus_seal(block_id, seq, seal) / get_consensus_seal(seq): the
\* seal is stored under the given sequence number.
AddConsensusSeal(lg, seq, seal) ==
    [lg EXCEPT !.seals = [s \in DOMAIN @ \cup {seq} |-> IF s = seq THEN seal ELSE @[s]]]
HasConsensusSeal(lg, seq) == seq \in DOMAIN lg.seals

\* garbage_collect(committed_seq): forget messages and seals older than
\* the retention window (committed_seq - 1 is kept, so the commits and
\* the seal for the block just committed survive).
GarbageCollect(lg, seq) ==
    [lg EXCEPT !.msgs = {m \in @ : m.seq + 1 >= seq},
               !.seals = [s \in {k \in DOMAIN @ : k + 1 >= seq} |-> @[s]]]
=============================================================================
