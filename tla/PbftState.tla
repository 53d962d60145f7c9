------------------------------ MODULE PbftState ------------------------------
(***************************************************************************)
(* PbftState of src/src/state.rs: the per-node record and its operations, *)
(* as pure operators on a record                                           *)
(*   [seq_num, view, phase, mode, role, peer_ids, f, timeout,             *)
(*    working_block].                                                     *)
(* `id` is kept outside the record (it is the node the record belongs to) *)
(* and forced_view_change_period is a constant of the model.              *)
(***************************************************************************)
EXTENDS Naturals, Sequences, PbftTiming

CONSTANT NoBlock   \* Option::None for a block id

\* enum PbftPhase, in the order of the cycle
PhaseCycle == <<"PrePreparing", "Preparing", "Checking", "Committing", "Finished">>
Phases == {PhaseCycle[i] : i \in 1..5}
Modes == {"Normal", "ViewChanging"}
Roles == {"Primary", "Secondary"}

\* struct PbftState, with the peer lists and block ids it may hold as
\* parameters (the Display impl only formats it for the log).
PbftStates(PeerLists, BlockIds) ==
    [seq_num : Nat, view : Nat, phase : Phases, role : Roles, mode : Modes,
     peer_ids : PeerLists, f : Nat, timeout : TimeoutStates,
     working_block : BlockIds \cup {NoBlock}]

\* The maximum number of faulty nodes: (peers.len() - 1) / 3.
FaultBound(peers) == (Len(peers) - 1) \div 3

\* PbftState::new: sequence number one past the chain head, view 0, the
\* first configured peer is primary.  (The panic when f = 0 is an ASSUME of
\* the models that use it.)
NewState(id, head_block_num, peers) ==
    [seq_num       |-> head_block_num + 1,
     view          |-> 0,
     phase         |-> "PrePreparing",
     role          |-> IF peers[1] = id THEN "Primary" ELSE "Secondary",
     mode          |-> "Normal",
     f             |-> FaultBound(peers),
     peer_ids      |-> peers,
     timeout       |-> NewTimeout,
     working_block |-> NoBlock]

\* check_msg_type: the kind of message the node emits in its phase.
CheckMsgType(phase) ==
    CASE phase = "PrePreparing" -> "PrePrepare"
      [] phase = "Preparing"    -> "Prepare"
      [] phase = "Checking"     -> "Prepare"
      [] phase = "Committing"   -> "Commit"
      [] phase = "Finished"     -> "Unset"

\* get_primary_id, for an arbitrary view (v mod number of peers).
PrimaryOfView(st, v) == st.peer_ids[(v % Len(st.peer_ids)) + 1]
GetPrimaryId(st) == PrimaryOfView(st, st.view)

\* is_primary reads the stored role, not the view.
IsPrimary(st) == st.role = "Primary"

\* Mutant: a node that loses the primary role is never downgraded.
SetRoleNoDowngrade(st, primary) == IF primary THEN [st EXCEPT !.role = "Primary"] ELSE st

\* upgrade_role / downgrade_role
SetRole(st, primary) == [st EXCEPT !.role = IF primary THEN "Primary" ELSE "Secondary"]

\* switch_phase: move to `desired` only if it is the next phase of the
\* cycle; otherwise nothing changes.
NextPhase(p) == PhaseCycle[((CHOOSE i \in 1..5 : PhaseCycle[i] = p) % 5) + 1]
SwitchPhase(st, desired) ==
    IF desired = NextPhase(st.phase) THEN [st EXCEPT !.phase = desired] ELSE st

\* at_forced_view_change
AtForcedViewChange(st, period) == st.seq_num > 0 /\ st.seq_num % period = 0

\* Mutant: the mode is not reset to Normal.
DiscardCurrentBlockKeepMode(st) ==
    [st EXCEPT !.working_block = NoBlock,
               !.phase = "PrePreparing",
               !.timeout = StartTimeout(@)]

\* discard_current_block: drop the working block, back to PrePreparing in
\* Normal mode, restart the faulty-primary timeout.
DiscardCurrentBlock(st) ==
    [st EXCEPT !.working_block = NoBlock,
               !.phase = "PrePreparing",
               !.mode = "Normal",
               !.timeout = StartTimeout(@)]
=============================================================================
