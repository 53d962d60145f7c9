------------------------------ MODULE Validator ------------------------------
(***************************************************************************)
(* The host validator behind the consensus Service trait (an external     *)
(* collaborator, not code of this repository): the environment each node  *)
(* calls into.  A node's validator is a record                            *)
(*   [head, building, events, seen, committed]:                           *)
(*   head      - the chain head (the block last committed);               *)
(*   building  - the block a new block is being built on, or NoBlock;     *)
(*   events    - BlockValid / BlockCommit updates not yet delivered;      *)
(*   seen      - the blocks already announced to the node by BlockNew;    *)
(*   committed - every block this validator was told to commit.           *)
(***************************************************************************)
EXTENDS PbftState

NewValidator(head, building) ==
    [head |-> head, building |-> building, events |-> {}, seen |-> {head},
     committed |-> {head}]

Event(kind, id) == [kind |-> kind, block |-> id]

\* check_blocks: the validator checks the block and answers BlockValid.
CheckBlocks(hs, id) == [hs EXCEPT !.events = @ \cup {Event("BlockValid", id)}]

\* commit_block: the block becomes the chain head (switching forks if it
\* must) and BlockCommit is sent back.
CommitBlock(hs, id) ==
    [hs EXCEPT !.head = id, !.committed = @ \cup {id},
               !.events = @ \cup {Event("BlockCommit", id)}]

\* initialize_block(previous_id): start building on previous_id (the chain
\* head for None); refused while a block is already being built.
InitializeBlock(hs, prev) ==
    IF hs.building # NoBlock THEN hs
    ELSE [hs EXCEPT !.building = IF prev = NoBlock THEN hs.head ELSE prev]

\* cancel_block
CancelBlock(hs) == [hs EXCEPT !.building = NoBlock]

\* fail_block: the validator drops the block; nothing the core observes.
FailBlock(hs, id) == hs
=============================================================================
