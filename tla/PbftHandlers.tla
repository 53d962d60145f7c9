---------------------------- MODULE PbftHandlers ----------------------------
(***************************************************************************)
(* The handlers the node invokes on specific messages (handlers.rs is not *)
(* part of the sources; this module follows spec.md sections 4.3, 4.4 and *)
(* 4.8).                                                                  *)
(*                                                                        *)
(* Every handler of the node is an operator from a context to a context:  *)
(*   [id, st, lg, hs, out, pub, err]                                      *)
(* the node's id, its PbftState, its PbftLog, its validator, the messages *)
(* broadcast and the blocks published so far in this step, and the error *)
(* the step returns ("ok" for Ok(())).  A step that returns an error      *)
(* keeps the changes it made before the error.                            *)
(***************************************************************************)
EXTENDS PbftLog, Validator

Ok(c) == c.err = "ok"
Fail(c, e) == [c EXCEPT !.err = e]

\* make_msg_info plus the block: a PbftMessage.
MakeMsg(type, view, seq, block, signer) ==
    [type |-> type, view |-> view, seq |-> seq, block |-> block,
     signer |-> signer, seal |-> NoBlock]

\* handlers::pre_prepare: accept a PrePrepare from the primary of its view
\* whose sequence number is not bound to another block by an earlier
\* PrePrepare, once the BlockNew for its block is known; on success the
\* message is logged and the node moves to Preparing.
PrePrepareHandler(c, m) ==
    IF m.signer # PrimaryOfView(c.st, m.view) THEN Fail(c, "NotFromPrimary")
    ELSE IF \E p \in GetMessagesOfTypeSeq(c.lg, "PrePrepare", m.seq) : p.block # m.block
         THEN Fail(c, "MessageExists")
    ELSE IF ~\E b \in GetMessagesOfTypeSeq(c.lg, "BlockNew", m.seq) : b.block = m.block
         THEN Fail(c, "NoBlockNew")
    ELSE [c EXCEPT !.lg = AddMessage(@, m), !.st = SwitchPhase(@, "Preparing")]

\* handlers::commit: tell the validator to commit the message's block and
\* move Committing -> Finished.
CommitHandler(c, m) ==
    [c EXCEPT !.hs = CommitBlock(@, m.block), !.st = SwitchPhase(@, "Finished")]

\* The end of a view change: adopt view v, take the role the view gives
\* (a new primary starts building a block, a secondary cancels one) and
\* discard the working block.
EnterView(c, v) ==
    LET st1 == [c.st EXCEPT !.view = v]
        primary == PrimaryOfView(st1, v) = c.id
    IN [c EXCEPT !.st = DiscardCurrentBlock(SetRole(st1, primary)),
                 !.hs = IF primary THEN InitializeBlock(@, NoBlock) ELSE CancelBlock(@)]

\* handlers::view_change: once 2f + 1 distinct nodes asked for the
\* message's (higher) view, enter it.
ViewChangeHandler(c, m) ==
    IF /\ m.view > c.st.view
       /\ Cardinality(Signers({x \in c.lg.msgs : x.type = "ViewChange" /\ x.view = m.view}))
              >= 2 * c.st.f + 1
    THEN EnterView(c, m.view)
    ELSE Fail(c, "WrongNumMessages")

\* handlers::force_view_change: enter the next view unconditionally.
ForceViewChange(c) == EnterView(c, c.st.view + 1)
=============================================================================
