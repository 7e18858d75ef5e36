------------------------- MODULE SummitIdentityProofs -------------------------
(***************************************************************************)
(* What the identity checks accept, for every reply and any number of      *)
(* chains and epochs.                                                      *)
(***************************************************************************)
EXTENDS SummitIdentity, TLAPS

\* Only one epoch of a chain ends at a given height.
LEMMA TerminalEpoch ==
  ASSUME NEW c \in Chains, NEW e \in Epochs, NEW f \in Epochs,
         InEpoch(Terminal(c, f), e)
  PROVE  e = f
<1>1. LastHeight[c][f] <= LastHeight[c][e]
  BY DEF InEpoch, Terminal
<1>2. \A g \in Epochs : g < e => LastHeight[c][g] < LastHeight[c][f]
  BY DEF InEpoch, Terminal
<1>3. {LastHeight[c][e], LastHeight[c][f]} \subseteq Nat
  BY HeightsAssumption
<1>4. ~(e < f)
  BY <1>1, <1>3, HeightsAssumption
<1>5. ~(f < e)
  BY <1>2, <1>3
<1> QED
  BY <1>4, <1>5 DEF Epochs

\* A reply that passes every check holds the three artifacts of one checkpoint, the
\* one that was discovered, of the epoch asked for, and the database was unwound to
\* its block; whatever artifacts of whatever chains and heights Summit mixes.
THEOREM AcceptedIsOneCheckpoint ==
  ASSUME NEW e \in Epochs, NEW block \in Nat, NEW expected, NEW r \in Replies,
         Accepted(e, block, expected, r)
  PROVE  \E c \in Chains :
           /\ expected = Penultimate(c, e)
           /\ r.checkpoint = Penultimate(c, e)
           /\ r.finalized_header = Terminal(c, e)
           /\ r.last_block = Terminal(c, e)
           /\ block + 1 = LastHeight[c][e]
<1>1. r.checkpoint = expected /\ r.last_block = r.finalized_header
  BY DEF Accepted, DigestMatches, ArtifactsBound
<1>2. r.finalized_header \in Places
  BY DEF Accepted, Complete, Replies
<1> DEFINE c == r.finalized_header.chain
<1>3. c \in Chains /\ r.finalized_header = [chain |-> c, height |-> block + 1]
  BY <1>2 DEF Places, Accepted, PositionMatches
<1>4. PICK f \in Epochs : r.finalized_header = Terminal(c, f)
  BY DEF Accepted, ArtifactsBound, Commits
<1>5. e = f
  BY <1>3, <1>4, TerminalEpoch DEF Accepted, PositionMatches
<1>6. block + 1 = LastHeight[c][e]
  BY <1>3, <1>4, <1>5 DEF Terminal
<1>7. r.checkpoint = [chain |-> c, height |-> block]
  <2>1. r.checkpoint = [r.finalized_header EXCEPT !.height = @ - 1]
    BY DEF Accepted, ArtifactsBound, Commits, Parent
  <2> QED
    BY <1>3, <2>1
<1>8. Penultimate(c, e) = [chain |-> c, height |-> block]
  BY <1>6 DEF Penultimate, SatSub
<1> QED
  BY <1>1, <1>3, <1>4, <1>5, <1>6, <1>7, <1>8

\* The checks let an honest reply pass, for every epoch that has a block before the
\* one it ends with.
THEOREM HonestReplyAccepted ==
  ASSUME NEW c \in Chains, NEW e \in Epochs,
         InEpoch(Penultimate(c, e), e),
         LastHeight[c][e] \in 1..MaxU64
  PROVE  Accepted(e, SatSub(LastHeight[c][e], 1), Penultimate(c, e), Reply(c, e))
<1> DEFINE h == LastHeight[c][e]
<1>1. h \in Nat /\ h > 0 /\ SatSub(h, 1) = h - 1
  BY HeightsAssumption DEF SatSub
<1>2. Penultimate(c, e) = [chain |-> c, height |-> h - 1]
  BY <1>1 DEF Penultimate
<1>3. Parent(Terminal(c, e)) = Penultimate(c, e)
  BY <1>2 DEF Parent, Terminal
<1>4. InEpoch(Terminal(c, e), e)
  BY <1>1, HeightsAssumption DEF InEpoch, Terminal, Epochs
<1>5. Complete(Reply(c, e))
  BY <1>2, ChainsAssumption DEF Complete, Reply, Empty, Terminal
<1>6. ArtifactsBound(Reply(c, e))
  BY <1>3 DEF ArtifactsBound, Reply, Commits, Terminal
<1>7. SatSub(h, 1) < MaxU64 /\ SatSub(h, 1) + 1 = h
  BY <1>1, MaxU64Assumption
<1>8. PositionMatches(e, SatSub(h, 1), Reply(c, e))
  BY <1>1, <1>2, <1>4, <1>7 DEF PositionMatches, Reply, Terminal
<1> QED
  BY <1>5, <1>6, <1>8 DEF Accepted, EpochMatches, DigestMatches, Reply
=============================================================================
