---------------------------- MODULE SummitIdentity ----------------------------
(***************************************************************************)
(* What a getCheckpoint reply must show before a snapshot is certified     *)
(* with it (checkpoint/manager.rs).  Pure operators, no state.             *)
(*                                                                         *)
(* A reply carries four artifacts, each abstracted to its place, the chain *)
(* and the height it is of: a checkpoint to the height of the consensus    *)
(* state in it, a finalized header and a block to their own.  A digest is  *)
(* the place it was computed from, so an artifact may be taken from        *)
(* anywhere, but what it says of others cannot be forged.                  *)
(***************************************************************************)
EXTENDS Schedule

CONSTANTS Chains, None,   \* the chains Summit and Reth may be on; no chain
          MaxEpoch,       \* bound: epochs 0..MaxEpoch
          LastHeight      \* on each chain, the last height of each epoch

Epochs == 0..MaxEpoch

ASSUME ChainsAssumption == None \notin Chains
ASSUME HeightsAssumption ==
  /\ LastHeight \in [Chains -> [Epochs -> Nat]]
  /\ \A c \in Chains : \A e, f \in Epochs : e < f => LastHeight[c][e] < LastHeight[c][f]

Places == [chain: Chains, height: Nat]

\* An artifact of length 0; also what an attempt holds before it has one.
Empty == [chain |-> None, height |-> 0]

Terminal(c, e) == [chain |-> c, height |-> LastHeight[c][e]]
Penultimate(c, e) == [chain |-> c, height |-> SatSub(LastHeight[c][e], 1)]

\* The epoch a state, header or block at p states.
InEpoch(p, e) ==
  /\ p.height <= LastHeight[p.chain][e]
  /\ \A f \in Epochs : f < e => LastHeight[p.chain][f] < p.height

Parent(p) == [p EXCEPT !.height = @ - 1]

\* Only the header that ends an epoch has the hash of a checkpoint, which is of
\* the state before it.
Commits(header, checkpoint) ==
  /\ \E e \in Epochs : header = Terminal(header.chain, e)
  /\ checkpoint = Parent(header)

\* What an honest Summit replies, and what one may reply that does not read its
\* artifacts at one moment: anything.
Reply(c, e) ==
  [epoch |-> e, digest |-> Penultimate(c, e), checkpoint |-> Penultimate(c, e),
   finalized_header |-> Terminal(c, e), last_block |-> Terminal(c, e)]

Replies ==
  [epoch: Epochs, digest: Places \cup {Empty}, checkpoint: Places \cup {Empty},
   finalized_header: Places \cup {Empty}, last_block: Places \cup {Empty}]

-----------------------------------------------------------------------------
\* SummitRpcClient::get_checkpoint
EpochMatches(e, r) == r.epoch = e

\* validate_checkpoint_digest: it is still the checkpoint that was discovered.
DigestMatches(expected, r) == r.digest = expected

Complete(r) == Empty \notin {r.checkpoint, r.last_block, r.finalized_header}

\* Mutant: the header need not commit to the checkpoint.
ArtifactsBoundByBlock(r) ==
  /\ r.checkpoint = r.digest
  /\ r.last_block = r.finalized_header

\* decode_summit_checkpoint_identity: each artifact vouches for the next.
ArtifactsBound(r) ==
  /\ r.checkpoint = r.digest
  /\ Commits(r.finalized_header, r.checkpoint)
  /\ r.last_block = r.finalized_header
  /\ r.checkpoint = Parent(r.last_block)

\* validate_summit_checkpoint_position: the state is the one of the block the
\* database is unwound to, and the other two are of the block after it.
PositionMatches(e, block, r) ==
  /\ block < MaxU64
  /\ InEpoch(r.checkpoint, e) /\ r.checkpoint.height = block
  /\ InEpoch(r.finalized_header, e) /\ r.finalized_header.height = block + 1
  /\ InEpoch(r.last_block, e) /\ r.last_block.height = block + 1

Accepted(e, block, expected, r) ==
  /\ EpochMatches(e, r) /\ DigestMatches(expected, r)
  /\ Complete(r) /\ ArtifactsBound(r) /\ PositionMatches(e, block, r)

\* validate_checkpoint_execution_identity, on the block Reth returned.
ExecutionMatches(block, checkpoint, rethBlock) ==
  rethBlock.height = block /\ checkpoint = rethBlock
=============================================================================
