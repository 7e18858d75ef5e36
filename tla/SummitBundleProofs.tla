-------------------------- MODULE SummitBundleProofs --------------------------
(***************************************************************************)
(* A bundle is of one chain, for any number of chains and epochs, any      *)
(* failures and crashes, and one change of Summit's chain at any moment.   *)
(***************************************************************************)
EXTENDS SummitBundle, SummitIdentityProofs

LEMMA ArtifactTypes ==
  /\ \A c \in Chains, e \in Epochs :
       {Penultimate(c, e), Terminal(c, e)} \subseteq Places /\ Reply(c, e) \in Replies
  /\ MixedReplies \subseteq Replies
<1>1. ASSUME NEW c \in Chains, NEW e \in Epochs
      PROVE  {Penultimate(c, e), Terminal(c, e)} \subseteq Places /\ Reply(c, e) \in Replies
  <2>1. LastHeight[c][e] \in Nat /\ SatSub(LastHeight[c][e], 1) \in Nat
    BY HeightsAssumption DEF SatSub
  <2>2. Penultimate(c, e) \in Places /\ Terminal(c, e) \in Places
    BY <2>1 DEF Penultimate, Terminal, Places
  <2> QED
    BY <2>2 DEF Reply, Replies
<1>2. Found \subseteq Places \cup {Empty}
  <2>1. \A c \in Chains : LastHeight[c][MaxEpoch] \in Nat
    BY HeightsAssumption, BundleCountsAssumption DEF Epochs
  <2>2. \A c \in Chains : \A h \in 0..LastHeight[c][MaxEpoch] : [chain |-> c, height |-> h] \in Places
    BY <2>1 DEF Places
  <2> QED
    BY <2>2 DEF Found
<1>3. MixedReplies \subseteq Replies
  <2> SUFFICES ASSUME NEW r \in MixedReplies
               PROVE  r \in Replies
    OBVIOUS
  <2>1. PICK pair \in Found \X Found : r \in Mixture({pair[1], pair[2]})
    BY DEF MixedReplies
  <2>2. {pair[1], pair[2]} \subseteq Places \cup {Empty}
    BY <1>2
  <2> QED
    BY <2>1, <2>2 DEF Mixture, Replies
<1> QED
  BY <1>1, <1>3

\* The artifacts an attempt keeps are those of one checkpoint.
LEMMA KeptIsOneCheckpoint ==
  ASSUME TypeOK, pc = "checkpoint", NEW r \in Replies, Passes(r), Keep(r)
  PROVE  \E c \in Chains :
           /\ attempt.digest = Penultimate(c, attempt.epoch)
           /\ attempt' = [attempt EXCEPT !.checkpoint = Penultimate(c, attempt.epoch),
                                         !.last_block = Terminal(c, attempt.epoch),
                                         !.finalized_header = Terminal(c, attempt.epoch)]
           /\ attempt.block + 1 = LastHeight[c][attempt.epoch]
<1>1. attempt.epoch \in Epochs /\ attempt.block \in Nat
  BY DEF TypeOK
<1>2. Accepted(attempt.epoch, attempt.block, attempt.digest, r)
  BY DEF Passes
<1>3. PICK c \in Chains :
        /\ attempt.digest = Penultimate(c, attempt.epoch)
        /\ r.checkpoint = Penultimate(c, attempt.epoch)
        /\ r.finalized_header = Terminal(c, attempt.epoch)
        /\ r.last_block = Terminal(c, attempt.epoch)
        /\ attempt.block + 1 = LastHeight[c][attempt.epoch]
  BY <1>1, <1>2, AcceptedIsOneCheckpoint
<1> QED
  BY <1>3 DEF Keep

LEMMA InitBundleType == Init => TypeOK
<1>1. 0 \in 0..MaxSwitches /\ 0 \in 0..MaxAborts /\ 0 \in 0..(MaxEpoch + 1)
  BY BundleCountsAssumption
<1> QED
  BY <1>1 DEF Init, TypeOK, Blank, NoAttempt

\* An attempt that ends leaves nothing but the cache.
LEMMA RestType ==
  ASSUME TypeOK, Rest, UNCHANGED <<chain, cache>>, aborts' \in 0..MaxAborts
  PROVE  TypeOK'
<1>1. 0 \in 0..(MaxEpoch + 1)
  BY BundleCountsAssumption
<1> QED
  BY <1>1 DEF TypeOK, Rest, chain, Blank, NoAttempt

LEMMA AddHeaderType ==
  ASSUME TypeOK, pc = "headers", NEW c \in Chains \cup {None}, AddHeader(c),
         cache' \in [Epochs -> Chains \cup {None}]
  PROVE  TypeOK'
<1>1. /\ MaxEpoch \in Nat /\ attempt.epoch \in 0..MaxEpoch
      /\ k \in 0..(MaxEpoch + 1) /\ k <= attempt.epoch
  BY BundleCountsAssumption DEF TypeOK, Epochs
<1>2. k' \in 0..(MaxEpoch + 1) /\ (pc' = "headers" => k' <= attempt'.epoch)
  BY <1>1 DEF AddHeader
<1> QED
  BY <1>2 DEF TypeOK, AddHeader, chain

LEMMA StepBundleType == TypeOK /\ [Next]_vars => TypeOK'
<1> SUFFICES ASSUME TypeOK, [Next]_vars
             PROVE  TypeOK'
  OBVIOUS
<1>0. aborts \in 0..MaxAborts /\ (aborts' = aborts => aborts' \in 0..MaxAborts)
  BY DEF TypeOK
<1>r. ASSUME Rest, UNCHANGED <<chain, cache, aborts>>
      PROVE  TypeOK'
  BY <1>0, <1>r, RestType
<1>1. CASE Discover
  <2>1. latest[summit] \in Epochs /\ Penultimate(summit, latest[summit]) \in Places
    BY <1>1, ArtifactTypes DEF Discover, TypeOK
  <2> QED
    BY <1>1, <2>1 DEF Discover, Go, TypeOK, chain, NoAttempt
<1>2. CASE GetBounds
  <2>1. CASE Rest
    BY <1>2, <2>1, <1>r DEF GetBounds
  <2>2. CASE ~Rest
    <3>1. attempt' = [attempt EXCEPT !.block = SatSub(LastHeight[summit][attempt.epoch], 1)]
          /\ Go("checkpoint") /\ pc = "bounds" /\ UNCHANGED <<chain, cache, aborts>>
      BY <1>2, <2>2 DEF GetBounds
    <3>2. LastHeight[summit][attempt.epoch] \in Nat
      BY <3>1, HeightsAssumption DEF TypeOK
    <3>3. SatSub(LastHeight[summit][attempt.epoch], 1) \in Nat
      BY <3>2 DEF SatSub
    <3> QED
      BY <3>1, <3>3 DEF Go, TypeOK, chain
  <2> QED
    BY <2>1, <2>2
<1>k. ASSUME NEW r \in Replies, pc = "checkpoint", Passes(r), Keep(r), UNCHANGED <<chain, cache>>,
             aborts' \in 0..MaxAborts
      PROVE  TypeOK'
  <2>1. PICK c \in Chains :
          attempt' = [attempt EXCEPT !.checkpoint = Penultimate(c, attempt.epoch),
                                     !.last_block = Terminal(c, attempt.epoch),
                                     !.finalized_header = Terminal(c, attempt.epoch)]
    BY <1>k, KeptIsOneCheckpoint
  <2>2. {Penultimate(c, attempt.epoch), Terminal(c, attempt.epoch)} \subseteq Places
    BY <1>k, ArtifactTypes DEF TypeOK
  <2> QED
    BY <1>k, <2>1, <2>2 DEF Keep, Go, TypeOK, chain
<1>3. CASE GetCheckpoint
  <2>1. CASE Rest
    BY <1>3, <2>1, <1>r DEF GetCheckpoint
  <2>2. CASE ~Rest
    <3>1. attempt.epoch \in Epochs /\ summit \in Chains
      BY <1>3 DEF GetCheckpoint, TypeOK
    <3> QED
      BY <1>3, <2>2, <3>1, <1>k, <1>0, ArtifactTypes DEF GetCheckpoint
  <2> QED
    BY <2>1, <2>2
<1>m. CASE GetMixedCheckpoint
  <2>1. aborts' \in 0..MaxAborts
    BY <1>0, <1>m, BundleCountsAssumption DEF GetMixedCheckpoint
  <2>2. CASE Rest
    BY <1>m, <2>1, <2>2, RestType DEF GetMixedCheckpoint
  <2>3. CASE ~Rest
    BY <1>m, <2>1, <2>3, <1>k, ArtifactTypes DEF GetMixedCheckpoint
  <2> QED
    BY <2>2, <2>3
<1>4. CASE ConfirmWithReth
  BY <1>4, <1>r DEF ConfirmWithReth, Go, TypeOK, chain
<1>5. CASE FetchGenesis
  <2>1. pc = "genesis" => k = 0 /\ attempt.epoch >= 0
    BY DEF TypeOK, Epochs
  <2> QED
    BY <1>5, <1>r, <2>1 DEF FetchGenesis, Go, TypeOK, chain
<1>6. CASE ResetEntry
  BY <1>6 DEF ResetEntry, TypeOK, chain
<1>7. CASE SeedCache
  <2>1. pc = "reset" => k = 0 /\ attempt.epoch >= 0
    BY DEF TypeOK, Epochs
  <2> QED
    BY <1>7, <2>1 DEF SeedCache, Go, TypeOK, chain
<1>8. CASE TakeGenesis
  BY <1>8, <1>r, AddHeaderType DEF TakeGenesis, Drop, TypeOK
<1>9. CASE TakeCached
  <2>1. k \in Epochs
    BY <1>9, BundleCountsAssumption DEF TakeCached, InBetween, TypeOK, Epochs
  <2> QED
    BY <1>9, <2>1, AddHeaderType DEF TakeCached, InBetween, TypeOK
<1>10. CASE FetchHeader \/ FetchTerminal
  BY <1>10, <1>r, AddHeaderType DEF FetchHeader, FetchTerminal, InBetween, Drop, TypeOK
<1>11. CASE Finish
  BY <1>11, <1>r DEF Finish
<1>12. CASE Aborted
  <2>1. aborts' \in 0..MaxAborts
    BY <1>0, <1>12, BundleCountsAssumption DEF Aborted
  <2> QED
    BY <1>12, <2>1, RestType DEF Aborted
<1>13. CASE NewEpoch
  <2>1. latest[summit] + 1 \in Epochs
    BY <1>13, BundleCountsAssumption DEF NewEpoch, TypeOK, Epochs, NoEpoch
  <2> QED
    BY <1>13, <2>1 DEF NewEpoch, TypeOK
<1>14. CASE SummitSwitches
  <2>1. switches' \in 0..MaxSwitches
    BY <1>14, BundleCountsAssumption DEF SummitSwitches, TypeOK
  <2> QED
    BY <1>14, <2>1 DEF SummitSwitches, TypeOK
<1>15. CASE RethSwitches
  <2>1. rethSwitches' \in 0..MaxSwitches
    BY <1>15, BundleCountsAssumption DEF RethSwitches, TypeOK
  <2> QED
    BY <1>15, <2>1 DEF RethSwitches, TypeOK
<1>16. CASE UNCHANGED vars
  BY <1>16 DEF vars, chain, TypeOK
<1> QED
  BY <1>1, <1>2, <1>3, <1>4, <1>5, <1>6, <1>7, <1>8, <1>9, <1>10, <1>11, <1>12, <1>13,
     <1>14, <1>15, <1>16, <1>m DEF Next, Step

\* Every variable keeps to its values; in particular the loop over the headers
\* never runs past the attempt's epoch.
THEOREM BundleTypes == Spec => []TypeOK
BY InitBundleType, StepBundleType, PTL DEF Spec

-----------------------------------------------------------------------------
(* Why one change of chain is harmless: what was fetched before it and what   *)
(* after it never pass the checks together.                                   *)

\* The chain of the checkpoint the attempt has accepted.
CheckpointChain == attempt.finalized_header.chain

\* Before the change everything is of the chain Summit is on.
BeforeInv ==
  switches = 0 =>
    /\ {attempt.digest.chain, CheckpointChain} \subseteq {summit, None}
    /\ \A e \in Epochs : cache[e] \in {summit, None}

\* A cache that starts with this chain's epoch 0 holds nothing else.
CacheInv == cache[0] = summit => \A e \in Epochs : cache[e] \in {summit, None}

\* What the checks have established, and what a checkpoint of the present chain
\* says of the epoch 0 fetched after it and of the headers so far.
AttemptInv ==
  /\ pc \in {"confirm", "genesis", "reset", "headers", "done"} =>
       /\ CheckpointChain \in Chains
       /\ attempt.checkpoint = Penultimate(CheckpointChain, attempt.epoch)
       /\ attempt.finalized_header = Terminal(CheckpointChain, attempt.epoch)
       /\ attempt.last_block = Terminal(CheckpointChain, attempt.epoch)
       /\ attempt.block + 1 = LastHeight[CheckpointChain][attempt.epoch]
  /\ pc \in {"genesis", "reset", "headers", "done"} => CheckpointChain = reth
  /\ pc \in {"reset", "headers"} =>
       attempt.genesis \in Chains /\ (CheckpointChain = summit => attempt.genesis = summit)
  /\ pc = "headers" /\ CheckpointChain = summit =>
       cache[0] = summit /\ \A e \in 0..(k - 1) : bundle[e] = summit
  /\ pc = "done" => \A e \in 0..attempt.epoch : bundle[e] = CheckpointChain

OneChainInv == TypeOK /\ BeforeInv /\ CacheInv /\ AttemptInv

\* Headers are added in order, so the prefix grows by the one just added.
LEMMA PrefixGrows ==
  ASSUME TypeOK, pc = "headers", NEW c \in Chains, AddHeader(c),
         \A e \in 0..(k - 1) : bundle[e] = c
  PROVE  \A e \in 0..k : bundle'[e] = c
<1>1. k \in 0..MaxEpoch /\ k \in Epochs /\ MaxEpoch \in Nat
  BY BundleCountsAssumption DEF TypeOK, Epochs
<1>2. bundle' = [bundle EXCEPT ![k] = c] /\ DOMAIN bundle = Epochs
  BY DEF AddHeader, TypeOK
<1>3. SUFFICES ASSUME NEW e \in 0..k
               PROVE  bundle'[e] = c
  OBVIOUS
<1>4. e \in Epochs /\ (e = k \/ e \in 0..(k - 1))
  BY <1>1, <1>3 DEF Epochs
<1> QED
  BY <1>2, <1>4

LEMMA InitOneChain == Init => OneChainInv
<1>1. Init => \A e \in Epochs : cache[e] = None
  BY DEF Init, Blank
<1>2. 0 \in Epochs
  BY BundleCountsAssumption DEF Epochs
<1> QED
  BY <1>1, <1>2, InitBundleType, ChainsAssumption
  DEF Init, OneChainInv, BeforeInv, CacheInv, AttemptInv, NoAttempt, CheckpointChain, Empty

\* An accepted checkpoint is of the chain that was discovered.
LEMMA CheckpointOneChain ==
  ASSUME OneChainInv, GetCheckpoint \/ GetMixedCheckpoint, ~Rest
  PROVE  BeforeInv' /\ CacheInv' /\ AttemptInv'
<1>1. PICK r \in Replies : pc = "checkpoint" /\ Passes(r) /\ Keep(r)
  BY ArtifactTypes DEF GetCheckpoint, GetMixedCheckpoint, OneChainInv, TypeOK
<1>2. PICK c \in Chains :
        /\ attempt.digest = Penultimate(c, attempt.epoch)
        /\ attempt' = [attempt EXCEPT !.checkpoint = Penultimate(c, attempt.epoch),
                                      !.last_block = Terminal(c, attempt.epoch),
                                      !.finalized_header = Terminal(c, attempt.epoch)]
        /\ attempt.block + 1 = LastHeight[c][attempt.epoch]
  BY <1>1, KeptIsOneCheckpoint DEF OneChainInv
<1>3. UNCHANGED <<chain, cache, bundle, k>> /\ pc' = "confirm"
  BY <1>1 DEF GetCheckpoint, GetMixedCheckpoint, Keep, Go
<1>4. /\ attempt'.checkpoint = Penultimate(c, attempt.epoch)
      /\ attempt'.finalized_header = Terminal(c, attempt.epoch)
      /\ attempt'.last_block = Terminal(c, attempt.epoch)
      /\ attempt'.epoch = attempt.epoch /\ attempt'.block = attempt.block
      /\ attempt'.digest = attempt.digest
  BY <1>2 DEF OneChainInv, TypeOK
<1>5. CheckpointChain' = c
  BY <1>4 DEF CheckpointChain, Terminal
<1>6. attempt.digest.chain = c
  BY <1>2 DEF Penultimate
<1> HIDE DEF CheckpointChain
<1>7. BeforeInv'
  BY <1>3, <1>4, <1>5, <1>6 DEF chain, OneChainInv, BeforeInv
<1>8. CacheInv'
  BY <1>3 DEF chain, OneChainInv, CacheInv
<1>9. AttemptInv'
  BY <1>2, <1>3, <1>4, <1>5 DEF AttemptInv
<1> QED
  BY <1>7, <1>8, <1>9

\* The other calls before the header loop, and the end of an attempt.
LEMMA CallsOneChain ==
  ASSUME OneChainInv,
         \/ Discover \/ GetBounds \/ ConfirmWithReth \/ FetchGenesis \/ Finish \/ Aborted
         \/ (GetCheckpoint \/ GetMixedCheckpoint) /\ Rest
  PROVE  BeforeInv' /\ CacheInv' /\ AttemptInv'
<1> USE DEF chain
<1>1. summit' = summit /\ switches' = switches /\ cache' = cache /\ reth' = reth
  BY DEF Discover, GetBounds, GetCheckpoint, GetMixedCheckpoint, ConfirmWithReth, FetchGenesis,
         Finish, Aborted
<1>2. CacheInv'
  BY <1>1 DEF OneChainInv, CacheInv
<1>3. /\ CheckpointChain' \in {CheckpointChain, None}
      /\ attempt'.digest.chain \in {attempt.digest.chain, summit, None}
  <2>1. CASE Rest
    BY <2>1 DEF Rest, NoAttempt, CheckpointChain, Empty
  <2>2. CASE Discover
    BY <2>2 DEF Discover, NoAttempt, CheckpointChain, Empty, Penultimate
  <2>3. CASE ~(Rest \/ Discover)
    BY <2>3 DEF GetBounds, ConfirmWithReth, FetchGenesis, Finish, Aborted,
                OneChainInv, TypeOK, CheckpointChain
  <2> QED
    BY <2>1, <2>2, <2>3
<1>4. BeforeInv'
  BY <1>1, <1>3 DEF OneChainInv, BeforeInv
<1>5. AttemptInv'
  <2>1. CASE Rest
    BY <2>1 DEF Rest, AttemptInv
  <2>2. CASE (Discover \/ GetBounds) /\ ~Rest
    BY <2>2 DEF Discover, GetBounds, Go, AttemptInv
  <2>4. CASE ConfirmWithReth /\ ~Rest
    <3>1. attempt.checkpoint = [chain |-> reth, height |-> attempt.block]
          /\ pc = "confirm" /\ pc' = "genesis" /\ attempt' = attempt
      BY <2>4 DEF ConfirmWithReth, ExecutionMatches, RethBlock, Go
    <3>2. CheckpointChain = reth
      BY <3>1 DEF OneChainInv, AttemptInv, Penultimate
    <3>3. CheckpointChain' = CheckpointChain
      BY <3>1 DEF CheckpointChain
    <3> HIDE DEF CheckpointChain
    <3> QED
      BY <1>1, <3>1, <3>2, <3>3 DEF AttemptInv, OneChainInv
  <2>5. CASE FetchGenesis /\ ~Rest
    <3>1. k = 0 /\ pc = "genesis" /\ attempt' = [attempt EXCEPT !.genesis = summit]
          /\ Go(IF cache[0] = summit THEN "headers" ELSE "reset")
      BY <2>5 DEF FetchGenesis, OneChainInv, TypeOK
    <3>2. \A e \in 0..(k' - 1) : FALSE
      BY <3>1 DEF Go
    <3> QED
      BY <1>1, <3>1, <3>2 DEF Go, AttemptInv, OneChainInv, TypeOK, CheckpointChain
  <2> QED
    BY <2>1, <2>2, <2>4, <2>5 DEF Finish, Aborted
<1> QED
  BY <1>2, <1>4, <1>5

\* The reset of the cache: it never starts with the present chain's epoch 0 then,
\* unless what is left holds nothing else.
LEMMA ResetOneChain ==
  ASSUME OneChainInv, ResetEntry \/ SeedCache
  PROVE  BeforeInv' /\ CacheInv' /\ AttemptInv'
<1> USE DEF chain
<1>0. 0 \in Epochs
  BY BundleCountsAssumption DEF Epochs
<1>1. CASE ResetEntry
  <2>1. PICK e \in Epochs : cache' = [cache EXCEPT ![e] = None]
    BY <1>1 DEF ResetEntry
  <2>2. \A f \in Epochs : cache'[f] \in {cache[f], None}
    BY <2>1 DEF OneChainInv, TypeOK
  <2>3. summit # None /\ pc = "reset" /\ UNCHANGED <<chain, pc, attempt, k, bundle>>
    BY <1>1, ChainsAssumption DEF ResetEntry, OneChainInv, TypeOK
  <2> QED
    BY <1>0, <2>2, <2>3 DEF OneChainInv, BeforeInv, CacheInv, AttemptInv, CheckpointChain
<1>2. CASE SeedCache
  <2>1. /\ pc = "reset" /\ pc' = "headers" /\ cache = Blank
        /\ cache' = [cache EXCEPT ![0] = attempt.genesis]
        /\ UNCHANGED <<chain, attempt, k, bundle>>
    BY <1>2 DEF SeedCache, Go
  <2>2. cache'[0] = attempt.genesis /\ \A e \in Epochs : e # 0 => cache'[e] = None
    BY <1>0, <2>1 DEF Blank
  <2>3. k = 0 /\ \A e \in 0..(k' - 1) : FALSE
    BY <2>1 DEF OneChainInv, TypeOK
  <2>4. CheckpointChain # None /\ (switches = 0 => CheckpointChain = summit)
    BY <2>1, ChainsAssumption DEF OneChainInv, BeforeInv, AttemptInv, TypeOK
  <2>5. BeforeInv'
    BY <2>1, <2>2, <2>4 DEF OneChainInv, BeforeInv, AttemptInv, CheckpointChain
  <2> QED
    BY <2>1, <2>2, <2>3, <2>5 DEF OneChainInv, CacheInv, AttemptInv, CheckpointChain
<1> QED
  BY <1>1, <1>2

\* The header loop.
LEMMA HeadersOneChain ==
  ASSUME OneChainInv, TakeGenesis \/ TakeCached \/ FetchHeader \/ FetchTerminal
  PROVE  BeforeInv' /\ CacheInv' /\ AttemptInv'
<1> USE DEF chain
<1>0. /\ pc = "headers" /\ k \in Epochs /\ k \in Nat /\ attempt.epoch \in Nat
      /\ summit \in Chains /\ summit # None
  BY ChainsAssumption, BundleCountsAssumption
  DEF OneChainInv, TypeOK, Epochs, TakeGenesis, TakeCached, FetchHeader, FetchTerminal, InBetween
<1>1. UNCHANGED <<summit, switches, reth>> /\ (cache' = cache \/ cache' = [cache EXCEPT ![k] = summit])
  BY DEF TakeGenesis, TakeCached, FetchHeader, FetchTerminal, Drop, AddHeader
<1>2. \A e \in Epochs : cache'[e] \in {cache[e], summit}
  BY <1>1 DEF OneChainInv, TypeOK
<1>3. cache' = cache \/ k # 0
  BY DEF TakeGenesis, TakeCached, FetchHeader, FetchTerminal, Drop, InBetween
<1>4. cache'[0] = cache[0]
  <2>1. 0 \in Epochs
    BY BundleCountsAssumption DEF Epochs
  <2> QED
    BY <1>0, <1>1, <1>3, <2>1 DEF OneChainInv, TypeOK
<1>5. CacheInv'
  BY <1>1, <1>2, <1>4 DEF OneChainInv, CacheInv
<1>6. CASE Drop
  <2>1. BeforeInv'
    BY <1>1, <1>2, <1>6 DEF Drop, Rest, NoAttempt, OneChainInv, BeforeInv, CheckpointChain, Empty
  <2>2. AttemptInv'
    BY <1>6 DEF Drop, Rest, AttemptInv
  <2> QED
    BY <1>5, <2>1, <2>2
<1>7. ASSUME NEW c \in Chains, AddHeader(c),
             CheckpointChain = summit => c = summit,
             k = attempt.epoch => c = CheckpointChain /\ (summit = c \/ k = 0)
      PROVE  BeforeInv' /\ AttemptInv'
  <2>1. attempt' = attempt /\ k' = k + 1 /\ pc' \in {"headers", "done"}
        /\ (pc' = "done" <=> k = attempt.epoch)
    BY <1>0, <1>7 DEF AddHeader
  <2>2. BeforeInv'
    BY <1>1, <1>2, <2>1 DEF OneChainInv, BeforeInv, CheckpointChain
  <2>3. CheckpointChain = summit => \A e \in 0..k : bundle'[e] = summit
    BY <1>0, <1>7, PrefixGrows DEF OneChainInv, AttemptInv
  <2>4. k = 0 => \A e \in 0..k : bundle'[e] = c
    BY <1>0, <1>7, PrefixGrows DEF OneChainInv
  <2>5. pc' = "done" => \A e \in 0..attempt.epoch : bundle'[e] = CheckpointChain
    BY <1>7, <2>1, <2>3, <2>4
  <2>6. (k + 1) - 1 = k
    BY <1>0
  <2> QED
    BY <1>0, <1>1, <1>4, <2>1, <2>2, <2>3, <2>5, <2>6 DEF OneChainInv, AttemptInv, CheckpointChain
<1>8. CASE TakeGenesis /\ ~Drop
  <2>1. k = 0 /\ AddHeader(attempt.genesis)
        /\ (k = attempt.epoch => attempt.genesis = CheckpointChain)
    BY <1>8 DEF TakeGenesis, Terminal, CheckpointChain
  <2>2. attempt.genesis \in Chains
    BY <1>0 DEF OneChainInv, AttemptInv
  <2> QED
    BY <1>0, <1>5, <1>7, <2>1, <2>2 DEF OneChainInv, AttemptInv
<1>9. CASE TakeCached
  <2>1. cache[k] \in Chains /\ AddHeader(cache[k]) /\ k < attempt.epoch
    BY <1>0, <1>9 DEF TakeCached, InBetween, OneChainInv, TypeOK
  <2>2. CheckpointChain = summit => cache[k] = summit
    BY <1>0, <2>1, ChainsAssumption DEF OneChainInv, AttemptInv, CacheInv
  <2> QED
    BY <1>0, <1>5, <1>7, <2>1, <2>2
<1>10. CASE FetchHeader /\ ~Drop
  <2>1. AddHeader(summit) /\ k < attempt.epoch
    BY <1>0, <1>10 DEF FetchHeader, InBetween
  <2> QED
    BY <1>0, <1>5, <1>7, <2>1
<1>11. CASE FetchTerminal /\ ~Drop
  <2>1. AddHeader(summit) /\ summit = CheckpointChain
    BY <1>11 DEF FetchTerminal, Terminal, CheckpointChain
  <2> QED
    BY <1>0, <1>5, <1>7, <2>1
<1> QED
  BY <1>6, <1>8, <1>9, <1>10, <1>11

\* Everything but Reth, which waits for the attempt to end, may change in the
\* middle of an attempt; no cached header can be of the chain Summit moves to.
LEMMA ChainOneChain ==
  ASSUME MaxSwitches <= 1, OneChainInv, NewEpoch \/ SummitSwitches \/ RethSwitches
  PROVE  BeforeInv' /\ CacheInv' /\ AttemptInv'
<1>0. 0 \in Epochs
  BY BundleCountsAssumption DEF Epochs
<1>1. CASE NewEpoch
  BY <1>1 DEF NewEpoch, OneChainInv, BeforeInv, CacheInv, AttemptInv, CheckpointChain
<1>2. CASE SummitSwitches
  <2>1. switches = 0 /\ switches' = 1
    BY <1>2, BundleCountsAssumption DEF SummitSwitches, OneChainInv, TypeOK
  <2>2. summit' \notin {summit, None}
    BY <1>2, ChainsAssumption DEF SummitSwitches
  <2>3. CheckpointChain # summit' /\ cache[0] # summit'
    BY <1>0, <2>1, <2>2 DEF OneChainInv, BeforeInv
  <2> QED
    BY <1>2, <2>1, <2>3
    DEF SummitSwitches, OneChainInv, BeforeInv, CacheInv, AttemptInv, CheckpointChain
<1>3. CASE RethSwitches
  BY <1>3 DEF RethSwitches, OneChainInv, BeforeInv, CacheInv, AttemptInv, CheckpointChain
<1> QED
  BY <1>1, <1>2, <1>3

\* Whatever Summit's one change of chain, failures and crashes do to the attempts
\* and to the cache, a bundle that is finished is of one chain, Reth's.
THEOREM OneSwitchIsHarmless ==
  ASSUME MaxSwitches <= 1
  PROVE  Spec => []BundleIsOfOneChain
<1>1. OneChainInv /\ [Next]_vars => OneChainInv'
  <2> SUFFICES ASSUME OneChainInv, [Next]_vars
               PROVE  OneChainInv'
    OBVIOUS
  <2>1. TypeOK'
    BY StepBundleType DEF OneChainInv
  <2>2. CASE Next
    BY <2>1, <2>2, CheckpointOneChain, CallsOneChain, ResetOneChain, HeadersOneChain, ChainOneChain
    DEF Next, Step, OneChainInv
  <2>3. CASE UNCHANGED vars
    BY <2>1, <2>3 DEF vars, chain, OneChainInv, BeforeInv, CacheInv, AttemptInv, CheckpointChain
  <2> QED
    BY <2>2, <2>3
<1>2. OneChainInv => BundleIsOfOneChain
  BY DEF OneChainInv, AttemptInv, BundleIsOfOneChain
<1> QED
  BY <1>1, <1>2, InitOneChain, PTL DEF Spec
=============================================================================
