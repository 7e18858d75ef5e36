----------------------------- MODULE SummitBundle -----------------------------
(***************************************************************************)
(* Inside the Bundle step of CheckpointManager: what one attempt asks      *)
(* Summit and Reth, in which order, what it compares, and the cache of     *)
(* finalized headers that outlives attempts and restarts.  Between two     *)
(* calls Summit may move on to a new epoch, or come back with another      *)
(* chain; the attempt may fail or the process die.                         *)
(*                                                                         *)
(* A header in the cache or in the bundle, which belongs to an epoch, is   *)
(* abstracted to the chain it is of, since a Summit has one per epoch and  *)
(* chain and no two chains share any.  The artifacts of a checkpoint are   *)
(* abstracted as in SummitIdentity.                                        *)
(***************************************************************************)
EXTENDS SummitIdentity

CONSTANTS MaxSwitches,    \* bound: changes of chain, of Summit and of Reth each
          MaxAborts       \* bound: attempts that meet a failure, crash or mixed reply

NoEpoch == -1

ASSUME BundleCountsAssumption == {MaxEpoch, MaxSwitches, MaxAborts} \subseteq Nat

VARIABLES
  summit,       \* the chain Summit answers for
  latest,       \* on each chain, the latest checkpointed epoch, or NoEpoch
  reth,         \* the chain of Reth's database
  cache,        \* the header cache: for each epoch, the chain of its entry
  pc,           \* the call about to be made; "idle" between attempts
  attempt,      \* what the attempt has learnt so far
  k,            \* the epoch whose header is next
  bundle,       \* finalized_headers/ in the working directory
  switches, rethSwitches, aborts

chain == <<summit, latest, reth, switches, rethSwitches>>
vars == <<chain, cache, pc, attempt, k, bundle, aborts>>

Blank == [e \in Epochs |-> None]
NoAttempt == [epoch |-> NoEpoch, digest |-> Empty, block |-> 0, checkpoint |-> Empty,
              finalized_header |-> Empty, last_block |-> Empty, genesis |-> None]

Init ==
  /\ summit \in Chains /\ reth \in Chains
  /\ latest = [c \in Chains |-> NoEpoch]
  /\ cache = Blank /\ bundle = Blank
  /\ pc = "idle" /\ attempt = NoAttempt /\ k = 0
  /\ switches = 0 /\ rethSwitches = 0 /\ aborts = 0

-----------------------------------------------------------------------------
(* The attempt.  Every call may find that Summit does not know the epoch. *)

\* The attempt ends; the next one starts with an empty working directory.
Rest ==
  /\ pc' = "idle" /\ attempt' = NoAttempt /\ k' = 0 /\ bundle' = Blank

Go(p) == pc' = p /\ UNCHANGED <<k, bundle>>

Knows(e) == latest[summit] >= e

\* getLatestCheckpointInfo; "not found" means there is nothing to do yet.  That the
\* epoch may be done or not ready is CheckpointManager's part.
Discover ==
  /\ pc = "idle" /\ latest[summit] # NoEpoch
  /\ attempt' = [NoAttempt EXCEPT !.epoch = latest[summit], !.digest = Penultimate(summit, latest[summit])]
  /\ Go("bounds")
  /\ UNCHANGED <<chain, cache, aborts>>

\* getEpochBounds, and with it the block the database is unwound to.
GetBounds ==
  /\ pc = "bounds"
  /\ IF Knows(attempt.epoch)
       THEN /\ attempt' = [attempt EXCEPT !.block = SatSub(LastHeight[summit][attempt.epoch], 1)]
            /\ Go("checkpoint")
       ELSE Rest
  /\ UNCHANGED <<chain, cache, aborts>>

\* The checks on what getCheckpoint returned.
Passes(r) == Accepted(attempt.epoch, attempt.block, attempt.digest, r)
Keep(r) ==
  /\ attempt' = [attempt EXCEPT !.checkpoint = r.checkpoint, !.last_block = r.last_block,
                                !.finalized_header = r.finalized_header]
  /\ Go("confirm")

GetCheckpoint ==
  /\ pc = "checkpoint"
  /\ LET r == Reply(summit, attempt.epoch)
     IN  IF Knows(attempt.epoch) /\ Passes(r) THEN Keep(r) ELSE Rest
  /\ UNCHANGED <<chain, cache, aborts>>

\* Bound: the artifacts of a mixed reply come from at most two places.
Found == {Empty} \cup
  UNION {{[chain |-> c, height |-> h] : h \in 0..LastHeight[c][MaxEpoch]} : c \in Chains}
Mixture(places) ==
  [epoch: Epochs, digest: places, checkpoint: places,
   finalized_header: places, last_block: places]
MixedReplies == UNION {Mixture({pair[1], pair[2]}) : pair \in Found \X Found}

\* Summit returns artifacts that do not belong together; some mixture never passes.
GetMixedCheckpoint ==
  /\ pc = "checkpoint" /\ aborts < MaxAborts
  /\ aborts' = aborts + 1
  /\ Rest \/ \E r \in MixedReplies : Passes(r) /\ Keep(r)
  /\ UNCHANGED <<chain, cache>>

\* eth_getBlockByNumber of the checkpoint block.
RethBlock == [chain |-> reth, height |-> attempt.block]

ConfirmWithReth ==
  /\ pc = "confirm"
  /\ IF ExecutionMatches(attempt.block, attempt.checkpoint, RethBlock)
       THEN Go("genesis") /\ UNCHANGED attempt
       ELSE Rest
  /\ UNCHANGED <<chain, cache, aborts>>

\* Mutant: a cache of another chain makes the attempt fail.
OtherGenesisRefused ==
  /\ pc = "genesis"
  /\ IF Knows(0) /\ cache[0] \in {summit, None}
       THEN /\ attempt' = [attempt EXCEPT !.genesis = summit]
            /\ Go(IF cache[0] = summit THEN "headers" ELSE "reset")
       ELSE Rest
  /\ UNCHANGED <<chain, cache, aborts>>

\* prepare_finalized_header_cache: the header of epoch 0 is fetched every time.
FetchGenesis ==
  /\ pc = "genesis"
  /\ IF Knows(0)
       THEN /\ attempt' = [attempt EXCEPT !.genesis = summit]
            /\ Go(IF cache[0] = summit THEN "headers" ELSE "reset")
       ELSE Rest
  /\ UNCHANGED <<chain, cache, aborts>>

\* remove_dir_all of the cache, entry by entry in no fixed order.
ResetEntry ==
  /\ pc = "reset"
  /\ \E e \in Epochs :
       cache[e] # None /\ cache' = [cache EXCEPT ![e] = None]
  /\ UNCHANGED <<chain, pc, attempt, k, bundle, aborts>>

\* An entry is written to a hidden file and renamed, so it is there or not.
SeedCache ==
  /\ pc = "reset" /\ cache = Blank
  /\ cache' = [cache EXCEPT ![0] = attempt.genesis]
  /\ Go("headers")
  /\ UNCHANGED <<chain, attempt, aborts>>

-----------------------------------------------------------------------------
(* The header chain, from epoch 0 to the attempt's, one file after another. *)

\* Mutant: the loop runs over 0..=epoch+1.
LoopRunsOver(c) ==
  /\ bundle' = [bundle EXCEPT ![k] = c]
  /\ k' = k + 1
  /\ pc' = IF k > attempt.epoch THEN "done" ELSE "headers"
  /\ UNCHANGED <<attempt, chain, aborts>>

AddHeader(c) ==
  /\ bundle' = [bundle EXCEPT ![k] = c]
  /\ k' = k + 1
  /\ pc' = IF k = attempt.epoch THEN "done" ELSE "headers"
  /\ UNCHANGED <<attempt, chain, aborts>>

Drop == Rest /\ UNCHANGED <<cache, chain, aborts>>

\* The last header must be the one getCheckpoint returned.
TakeGenesis ==
  /\ pc = "headers" /\ k = 0
  /\ IF attempt.epoch = 0 /\ Terminal(attempt.genesis, 0) # attempt.finalized_header
       THEN Drop
       ELSE AddHeader(attempt.genesis) /\ UNCHANGED cache

InBetween == pc = "headers" /\ k \in 1..(attempt.epoch - 1)

TakeCached ==
  /\ InBetween /\ cache[k] # None
  /\ AddHeader(cache[k])
  /\ UNCHANGED cache

FetchHeader ==
  /\ InBetween /\ cache[k] = None
  /\ IF Knows(k)
       THEN AddHeader(summit) /\ cache' = [cache EXCEPT ![k] = summit]
       ELSE Drop

FetchTerminal ==
  /\ pc = "headers" /\ k = attempt.epoch /\ k # 0
  /\ IF Knows(k) /\ Terminal(summit, k) = attempt.finalized_header
       THEN AddHeader(summit) /\ cache' = [cache EXCEPT ![k] = summit]
       ELSE Drop

\* The rest of the attempt packs and publishes the bundle.
Finish ==
  /\ pc = "done"
  /\ Rest
  /\ UNCHANGED <<chain, cache, aborts>>

\* A call or a write fails, or the process dies: the cache is what survives.
Aborted ==
  /\ pc # "idle" /\ aborts < MaxAborts
  /\ aborts' = aborts + 1
  /\ Rest
  /\ UNCHANGED <<chain, cache>>

-----------------------------------------------------------------------------
(* Summit and Reth *)

NewEpoch ==
  /\ latest[summit] < MaxEpoch
  /\ latest' = [latest EXCEPT ![summit] = @ + 1]
  /\ UNCHANGED <<summit, reth, switches, rethSwitches, cache, pc, attempt, k, bundle, aborts>>

\* Summit restarts on another chain, or the URL leads to another Summit.
SummitSwitches ==
  /\ switches < MaxSwitches /\ switches' = switches + 1
  /\ summit' \in Chains \ {summit}
  /\ UNCHANGED <<latest, reth, rethSwitches, cache, pc, attempt, k, bundle, aborts>>

\* Reth's database is only replaced while no attempt reads it.
RethSwitches ==
  /\ pc = "idle"
  /\ rethSwitches < MaxSwitches /\ rethSwitches' = rethSwitches + 1
  /\ reth' \in Chains \ {reth}
  /\ UNCHANGED <<summit, latest, switches, cache, pc, attempt, k, bundle, aborts>>

-----------------------------------------------------------------------------
Step ==
  \/ Discover \/ GetBounds \/ GetCheckpoint \/ ConfirmWithReth
  \/ FetchGenesis \/ ResetEntry \/ SeedCache
  \/ TakeGenesis \/ TakeCached \/ FetchHeader \/ FetchTerminal \/ Finish

Next == Step \/ GetMixedCheckpoint \/ Aborted \/ NewEpoch \/ SummitSwitches \/ RethSwitches

Spec == Init /\ [][Next]_vars

\* An attempt that has begun goes on, and the monitor keeps polling.
FairSpec == Spec /\ WF_vars(Step)

-----------------------------------------------------------------------------
(* Properties *)

\* Every variable keeps to the values the program can hold.
TypeOK ==
  /\ {summit, reth} \subseteq Chains
  /\ latest \in [Chains -> Epochs \cup {NoEpoch}]
  /\ {cache, bundle} \subseteq [Epochs -> Chains \cup {None}]
  /\ pc \in {"idle", "bounds", "checkpoint", "confirm", "genesis", "reset", "headers", "done"}
  /\ attempt \in [epoch: Epochs \cup {NoEpoch}, block: Nat, genesis: Chains \cup {None},
                  digest: Places \cup {Empty}, checkpoint: Places \cup {Empty},
                  finalized_header: Places \cup {Empty}, last_block: Places \cup {Empty}]
  /\ pc # "idle" => attempt.epoch \in Epochs
  /\ k \in 0..(MaxEpoch + 1) /\ (pc = "headers" => k <= attempt.epoch)
  /\ pc \notin {"headers", "done"} => k = 0
  /\ {switches, rethSwitches} \subseteq 0..MaxSwitches /\ aborts \in 0..MaxAborts

\* The bundle that is packed next to Reth's database holds one checkpoint of that
\* database's chain, the header and the block that end its epoch, the unbroken
\* header chain that leads to it, and nothing of another chain or epoch, and the
\* database was unwound to the checkpoint's own block; although Summit changed its
\* chain, or mixed up what it returns, in the middle of this or another attempt.
BundleIsOfOneChain ==
  pc = "done" =>
    /\ attempt.checkpoint = Penultimate(reth, attempt.epoch)
    /\ attempt.finalized_header = Terminal(reth, attempt.epoch)
    /\ attempt.last_block = Terminal(reth, attempt.epoch)
    /\ attempt.block + 1 = LastHeight[reth][attempt.epoch]
    /\ \A e \in 0..attempt.epoch : bundle[e] = reth

\* Once Summit and Reth are on the same chain for good, bundles get made, however
\* the cache was left by failures, crashes and the other chain.
BundlesGetMade ==
  <>[](summit = reth /\ latest[summit] # NoEpoch) => []<>(pc = "done")

\* manager.rs: epoch 0 is always refreshed "so a cache created for another chain
\* cannot be reused", so a header that is reused is of the chain of that epoch 0.
CacheOfAnotherChainNotReused ==
  [][TakeCached => bundle'[k] = attempt.genesis]_vars
=============================================================================
