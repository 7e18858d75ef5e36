---------------------------- MODULE Configuration ----------------------------
(***************************************************************************)
(* How the settings the service runs with come about (config.rs): one      *)
(* value per key out of four sources, and what validate() then refuses.    *)
(* Pure operators, no state.  CheckpointManager has the settings that      *)
(* steer it as CONSTANTS; AcceptedSettings is why its assumptions on them  *)
(* hold.                                                                   *)
(*                                                                         *)
(* A source is a function from the keys it sets to their values.  A        *)
(* setting that may be None is a set of at most one value.  Parsing the    *)
(* sources and expanding paths, which can fail, are left out.              *)
(***************************************************************************)
EXTENDS Naturals

NumberKeys == {"checkpoint.epoch_blocks", "checkpoint.checkpoint_delay_blocks",
               "summit.rpc_timeout_secs", "monitor.poll_interval_secs",
               "monitor.retry_interval_secs"}
FlagKeys == {"checkpoint.compact", "summit.enabled"}
TextKeys == {"reth.rpc_url", "reth.db_path", "checkpoint.output_dir",
             "checkpoint.mdbx_copy_path", "checkpoint.reth_path", "summit.rpc_url",
             "state.state_file", "logging.level", "logging.format"}
OptionKeys == {"checkpoint.max_snapshots"}
Keys == NumberKeys \cup FlagKeys \cup TextKeys \cup OptionKeys

Options == {{}} \cup {{n} : n \in Nat}

\* What the sources and the result of try_deserialize can hold; a text is any value.
Typed(c) ==
  \A key \in DOMAIN c :
    /\ key \in NumberKeys => c[key] \in Nat
    /\ key \in FlagKeys => c[key] \in BOOLEAN
    /\ key \in OptionKeys => c[key] \in Options

\* The defaults the properties depend on; texts are paths, addresses and names.
Defaults ==
  [key \in Keys |->
    CASE key = "checkpoint.epoch_blocks"            -> 1000
      [] key = "checkpoint.checkpoint_delay_blocks" -> 3
      [] key = "summit.rpc_timeout_secs"            -> 100
      [] key = "monitor.poll_interval_secs"         -> 30
      [] key = "monitor.retry_interval_secs"        -> 60
      [] key = "checkpoint.compact"                 -> TRUE
      [] key = "summit.enabled"                     -> FALSE
      [] key = "checkpoint.max_snapshots"           -> {}
      [] key = "logging.level"                      -> "info"
      [] key = "logging.format"                     -> "pretty"
      [] OTHER                                      -> "default"]

\* The separator between section and name is "_" as well, and every "_" of a
\* variable separates: a variable reaches only keys whose name has none.
EnvironmentKeys == {"checkpoint.compact", "summit.enabled", "logging.level", "logging.format"}

CliKeys == {"reth.rpc_url", "reth.db_path", "checkpoint.epoch_blocks",
            "checkpoint.checkpoint_delay_blocks", "checkpoint.output_dir",
            "checkpoint.max_snapshots", "checkpoint.mdbx_copy_path", "checkpoint.reth_path",
            "logging.level", "logging.format"}

Over(upper, reached, lower) ==
  [key \in DOMAIN lower |->
    IF key \in DOMAIN upper \cap reached THEN upper[key] ELSE lower[key]]

\* Config::load, up to validate().
Load(cli, environment, file) ==
  Over(cli, CliKeys, Over(environment, EnvironmentKeys, Over(file, Keys, Defaults)))

Valid(c) ==
  /\ c["checkpoint.epoch_blocks"] # 0
  /\ c["checkpoint.max_snapshots"] # {0}
  /\ c["summit.rpc_timeout_secs"] # 0
  /\ c["monitor.poll_interval_secs"] # 0
  /\ c["monitor.retry_interval_secs"] # 0
  /\ c["logging.level"] \in {"trace", "debug", "info", "warn", "error"}
  /\ c["logging.format"] \in {"json", "pretty"}

\* RpcClient::new, which runs after the state was loaded, fails on a timeout of 0.
ClientsFail(c) == c["summit.enabled"] /\ c["summit.rpc_timeout_secs"] = 0

\* max_snapshots as CheckpointManager has it: 0 for None.
Retained(c) ==
  IF c["checkpoint.max_snapshots"] = {} THEN 0
  ELSE CHOOSE n \in Nat : c["checkpoint.max_snapshots"] = {n}

-----------------------------------------------------------------------------
\* The defaults set every key, each to a value of its type.
LEMMA DefaultsTyped == Typed(Defaults) /\ DOMAIN Defaults = Keys
<1>1. DOMAIN Defaults = Keys
  BY DEF Defaults
<1>2. /\ Defaults["checkpoint.epoch_blocks"] = 1000
      /\ Defaults["checkpoint.checkpoint_delay_blocks"] = 3
      /\ Defaults["summit.rpc_timeout_secs"] = 100
      /\ Defaults["monitor.poll_interval_secs"] = 30
      /\ Defaults["monitor.retry_interval_secs"] = 60
  BY DEF Defaults, Keys, NumberKeys
<1>3. /\ Defaults["checkpoint.compact"] = TRUE
      /\ Defaults["summit.enabled"] = FALSE
  BY DEF Defaults, Keys, FlagKeys
<1>4. Defaults["checkpoint.max_snapshots"] = {}
  BY DEF Defaults, Keys, OptionKeys
<1>5. ASSUME NEW key \in NumberKeys  PROVE Defaults[key] \in Nat
  BY <1>2 DEF NumberKeys
<1>6. ASSUME NEW key \in FlagKeys  PROVE Defaults[key] \in BOOLEAN
  BY <1>3 DEF FlagKeys
<1>7. ASSUME NEW key \in OptionKeys  PROVE Defaults[key] \in Options
  BY <1>4 DEF OptionKeys, Options
<1> QED  BY <1>1, <1>5, <1>6, <1>7 DEF Typed

\* A source that is laid over another keeps every key and every type.
LEMMA OverTyped ==
  ASSUME NEW upper, NEW reached, NEW lower, Typed(upper), Typed(lower)
  PROVE  Typed(Over(upper, reached, lower)) /\ DOMAIN Over(upper, reached, lower) = DOMAIN lower
<1> DEFINE o == Over(upper, reached, lower)
<1>1. DOMAIN o = DOMAIN lower
  BY DEF Over
<1>2. ASSUME NEW key \in DOMAIN o
      PROVE  \/ key \in DOMAIN upper /\ o[key] = upper[key]
             \/ key \in DOMAIN lower /\ o[key] = lower[key]
  BY <1>2 DEF Over
<1> HIDE DEF o
<1>3. Typed(o)
  BY <1>2 DEF Typed
<1> QED  BY <1>1, <1>3 DEF o

\* Whatever the command line, the environment and the file say, settings that
\* validate() accepts meet what CheckpointManager assumes of its constants, 0
\* stands for nothing but None, and start-up does not fail on a timeout.
THEOREM AcceptedSettings ==
  ASSUME NEW cli, NEW environment, NEW file,
         Typed(cli), Typed(environment), Typed(file),
         Valid(Load(cli, environment, file))
  PROVE  LET c == Load(cli, environment, file)
         IN  /\ c["checkpoint.epoch_blocks"] \in Nat \ {0}
             /\ c["checkpoint.checkpoint_delay_blocks"] \in Nat
             /\ Retained(c) \in Nat
             /\ (Retained(c) = 0) <=> (c["checkpoint.max_snapshots"] = {})
             /\ ~ClientsFail(c)
<1> DEFINE c == Load(cli, environment, file)
<1>1. Typed(c) /\ DOMAIN c = Keys
  <2> DEFINE f == Over(file, Keys, Defaults)
             e == Over(environment, EnvironmentKeys, f)
  <2>1. Typed(f) /\ DOMAIN f = Keys
    BY DefaultsTyped, OverTyped
  <2> HIDE DEF f
  <2>2. Typed(e) /\ DOMAIN e = Keys
    BY <2>1, OverTyped
  <2> HIDE DEF e
  <2>3. Typed(Over(cli, CliKeys, e)) /\ DOMAIN Over(cli, CliKeys, e) = Keys
    BY <2>2, OverTyped
  <2> QED  BY <2>3 DEF Load, e, f
<1>2. /\ c["checkpoint.epoch_blocks"] \in Nat
      /\ c["checkpoint.checkpoint_delay_blocks"] \in Nat
      /\ c["checkpoint.max_snapshots"] \in Options
  <2> HIDE DEF c
  <2> QED  BY <1>1 DEF Typed, Keys, NumberKeys, OptionKeys
<1>3. c["checkpoint.epoch_blocks"] # 0 /\ c["checkpoint.max_snapshots"] # {0} /\ ~ClientsFail(c)
  BY DEF Valid, ClientsFail
<1> HIDE DEF c
<1>4. Retained(c) \in Nat /\ ((Retained(c) = 0) <=> (c["checkpoint.max_snapshots"] = {}))
  <2>1. CASE c["checkpoint.max_snapshots"] = {}
    BY <2>1 DEF Retained
  <2>2. CASE c["checkpoint.max_snapshots"] # {}
    <3>1. PICK n \in Nat : c["checkpoint.max_snapshots"] = {n}
      BY <1>2, <2>2 DEF Options
    <3>2. n # 0
      BY <1>3, <3>1
    <3>3. Retained(c) = n
      BY <2>2, <3>1 DEF Retained
    <3> QED  BY <2>2, <3>2, <3>3
  <2> QED  BY <2>1, <2>2
<1>5. c["checkpoint.epoch_blocks"] \in Nat \ {0}
  BY <1>2, <1>3
<1> QED  BY <1>2, <1>3, <1>4, <1>5 DEF c
=============================================================================
