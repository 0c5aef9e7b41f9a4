------------------------------- MODULE Startup -------------------------------
(***************************************************************************)
(* The start of the process: main (cmd/main.go) reads the environment      *)
(* (config/settings.go), sets the package variables that the pipelines     *)
(* share (pkgs/prost/contract.go, pkgs/redis/client.go), and starts the    *)
(* pipelines, each of which makes a ticker first.  log.Fatal ends the      *)
(* process, and so does a panic in any goroutine.                          *)
(*                                                                         *)
(* Of a setting only what decides about the start is kept: a number's      *)
(* sign, a list's being empty, a flag; "unset" and "bad" (it cannot be     *)
(* parsed) are for the environment only.                                   *)
(***************************************************************************)
EXTENDS Naturals, Sequences, SequencesExt

CONSTANTS
  Environment,               \* the values each variable may have at the start
  Failing                    \* the steps of main whose calls may fail

VARIABLES
  settings,                  \* what LoadConfig has read
  pc,                        \* the step of main: its place in Steps
  defined,                   \* the package variables set so far
  address,                   \* SnapshotterStateAddress: "zero" or "contract"
  routine,                   \* the goroutines: "off", "starting" or "running"
  process                    \* "alive", "exited" (log.Fatal) or "panicked"

vars == <<settings, pc, defined, address, routine, process>>
-----------------------------------------------------------------------------
(***************************************************************************)
(* Configuration.                                                          *)
(***************************************************************************)

\* The environment variables in the order in which LoadConfig reads them.
Variables ==
  <<"DATA_MARKET_ADDRESSES", "POLLING_STATIC_STATE_VARIABLES",
    "STATE_POLLING_INTERVAL", "SLOT_SYNC_INTERVAL", "REDIS_FLUSH_BATCH_SIZE",
    "RPC_NODES", "ARCHIVE_NODES", "SLACK_REPORTING_URL", "MAX_RETRIES",
    "RETRY_DELAY_MS", "MAX_RETRY_DELAY_S", "REQUEST_TIMEOUT_S", "REDIS_DB",
    "BLOCK_INTERVAL", "BLOCK_OFFSET">>

ASSUME StartupAssumption == \A n \in DOMAIN Variables : Environment[Variables[n]] # {}

Lists == {"DATA_MARKET_ADDRESSES", "RPC_NODES", "ARCHIVE_NODES"}

\* getEnv, getEnvInt: an unset variable has its default, except for REDIS_DB,
\* whose default is the empty string.
getEnv(name, raw) ==
  IF raw # "unset" THEN raw
  ELSE CASE name \in Lists -> "empty"
         [] name = "POLLING_STATIC_STATE_VARIABLES" -> "true"
         [] name = "SLACK_REPORTING_URL" -> "unset"
         [] name = "REDIS_DB" -> "bad"
         [] OTHER -> "positive"

LoggedOnly(name, value) ==                                         \* mutation
  name = "DATA_MARKET_ADDRESSES" => value # "empty"

Accepted(name, value) ==
  /\ value # "bad"
  /\ name = "DATA_MARKET_ADDRESSES" => value # "empty"
  /\ name = "REDIS_DB" => value # "negative"

Intervals ==
  [MonitorEvents    |-> "BLOCK_INTERVAL",
   DynamicStateSync |-> "STATE_POLLING_INTERVAL",
   StaticStateSync  |-> "STATE_POLLING_INTERVAL",
   SyncAllSlots     |-> "SLOT_SYNC_INTERVAL"]

AllRoutines == DOMAIN Intervals

BaseRoutines(s) == AllRoutines \ {"StaticStateSync"}               \* mutation

\* The goroutines main starts.
Routines(s) ==
  IF s["POLLING_STATIC_STATE_VARIABLES"] = "true" THEN AllRoutines
  ELSE AllRoutines \ {"StaticStateSync"}
-----------------------------------------------------------------------------
(***************************************************************************)
(* What main does, what each step needs and what it sets.                  *)
(***************************************************************************)
RedisLast ==                                                       \* mutation
  <<"LoadConfig", "RPCHelper", "Client", "Instance", "SnapshotterStateAddress",
    "SnapshotterStateInstance", "ContractABI", "SnapshotterStateContractABI",
    "StaticStateVariables", "RedisClient", "EventProcessor", "Routines">>

Steps ==
  <<"LoadConfig", "RPCHelper", "Client", "Instance", "SnapshotterStateAddress",
    "SnapshotterStateInstance", "ContractABI", "SnapshotterStateContractABI",
    "RedisClient", "StaticStateVariables", "EventProcessor", "Routines">>

At(step) == process = "alive" /\ pc \in DOMAIN Steps /\ Steps[pc] = step

Needs(activity) ==
  CASE activity \in {"RPCHelper", "RedisClient"} -> {"SettingsObj"}
    [] activity = "Client" -> {"SettingsObj", "RPCHelper"}
    [] activity = "Instance" -> {"SettingsObj", "ContractBackend"}
    [] activity = "SnapshotterStateAddress" -> {"Instance"}
    [] activity = "SnapshotterStateInstance" -> {"SnapshotterStateAddress", "ContractBackend"}
    [] activity \in {"StaticStateVariables", "StaticStateSync", "DynamicStateSync"}
         -> {"SettingsObj", "Instance", "RedisClient"}
    [] activity = "Routines" -> {"SettingsObj", "EventProcessor"}
    [] activity = "MonitorEvents"
         -> {"SettingsObj", "RPCHelper", "ContractABI", "Instance", "RedisClient"}
    [] activity = "SyncAllSlots"
         -> {"SettingsObj", "Instance", "SnapshotterStateInstance", "RedisClient"}
    [] OTHER -> {}

Sets(step) ==
  CASE step = "LoadConfig" -> {"SettingsObj"}
    [] step = "Client" -> {"Client", "ContractBackend"}
    [] OTHER -> {step}

Init ==
  /\ settings = <<>>
  /\ pc = 1
  /\ defined = {}
  /\ address = "zero"
  /\ routine = [r \in AllRoutines |-> "off"]
  /\ process = "alive"

Fatal ==
  /\ process' = "exited"
  /\ UNCHANGED <<settings, pc, defined, address, routine>>

Complete(step) ==
  /\ pc' = pc + 1
  /\ defined' = defined \union Sets(step)

\* LoadConfig reads the next variable, and ends the process if it is refused.
\* SettingsObj is set after the last one.
ReadVariable ==
  /\ At("LoadConfig")
  /\ Len(settings) < Len(Variables)
  /\ LET name == Variables[Len(settings) + 1]
     IN \E raw \in Environment[name] :
          \/ /\ Accepted(name, getEnv(name, raw))
             /\ settings' = Append(settings, getEnv(name, raw))
             /\ UNCHANGED <<pc, defined, address, routine, process>>
          \/ /\ ~Accepted(name, getEnv(name, raw))
             /\ Fatal

Setting(name) == settings[CHOOSE n \in DOMAIN Variables : Variables[n] = name]

SettingsObj == [name \in ToSet(Variables) |-> Setting(name)]

LoadConfigReturns ==
  /\ At("LoadConfig")
  /\ Len(settings) = Len(Variables)
  /\ Complete("LoadConfig")
  /\ UNCHANGED <<settings, address, routine, process>>

\* Every later step of main before the goroutines; those in Failing may end
\* the process instead.  Initialize of the RPC helper waits five seconds for
\* its alert first, when it has a webhook.
Step(step) ==
  /\ step \notin {"LoadConfig", "SnapshotterStateAddress", "Routines"}
  /\ At(step)
  /\ \/ Complete(step) /\ UNCHANGED <<settings, address, routine, process>>
     \/ step \in Failing /\ Fatal

\* SnapshotterState(): an error is logged only, and the address stays zero.
FetchSnapshotterState ==
  /\ At("SnapshotterStateAddress")
  /\ \/ address' = "contract"
     \/ "SnapshotterStateAddress" \in Failing /\ UNCHANGED address
  /\ Complete("SnapshotterStateAddress")
  /\ UNCHANGED <<settings, routine, process>>

\* The go statements, after which main waits for goroutines that never return.
StartRoutines ==
  /\ At("Routines")
  /\ routine' = [r \in AllRoutines |-> IF r \in Routines(SettingsObj) THEN "starting"
                                                                     ELSE "off"]
  /\ Complete("Routines")
  /\ UNCHANGED <<settings, address, process>>

\* time.NewTicker panics unless the interval is positive.
NewTicker(r) ==
  /\ process = "alive"
  /\ routine[r] = "starting"
  /\ IF Setting(Intervals[r]) = "positive"
     THEN routine' = [routine EXCEPT ![r] = "running"] /\ UNCHANGED process
     ELSE process' = "panicked" /\ UNCHANGED routine
  /\ UNCHANGED <<settings, pc, defined, address>>

Main ==
  \/ ReadVariable \/ LoadConfigReturns
  \/ \E step \in ToSet(Steps) : Step(step)
  \/ FetchSnapshotterState \/ StartRoutines

Next == Main \/ \E r \in AllRoutines : NewTicker(r)

Spec == Init /\ [][Next]_vars

\* main and the goroutines it starts are scheduled.
FairSpec == Spec /\ WF_vars(Main) /\ \A r \in AllRoutines : WF_vars(NewTicker(r))
-----------------------------------------------------------------------------
TypeOK ==
  /\ Len(settings) \in 0..Len(Variables)
  /\ \A n \in DOMAIN settings : settings[n] # "bad"
  /\ pc \in 1..(Len(Steps) + 1)
  /\ defined \subseteq UNION {Sets(s) : s \in ToSet(Steps)}
  /\ address \in {"zero", "contract"}
  /\ routine \in [AllRoutines -> {"off", "starting", "running"}]
  /\ process \in {"alive", "exited", "panicked"}

(***************************************************************************)
(* Nothing that main or a pipeline is about to use is nil: the package     *)
(* variables are set in four files, and nothing but the order of main's    *)
(* calls sees to it.                                                       *)
(***************************************************************************)
NothingUsedBeforeSet ==
  /\ pc \in DOMAIN Steps => Needs(Steps[pc]) \subseteq defined
  /\ \A r \in AllRoutines : routine[r] # "off" => Needs(r) \subseteq defined

(***************************************************************************)
(* The process either ends or runs every pipeline the configuration asks   *)
(* for: it is never left waiting with some of them only.  It panics only   *)
(* when the interval of a pipeline that it started is not positive, which  *)
(* LoadConfig lets pass (a setting may also round to nothing).             *)
(***************************************************************************)
Wanted(r) ==
  r # "StaticStateSync" \/ Setting("POLLING_STATIC_STATE_VARIABLES") = "true"

RunsAllOrEnds ==
  <>[](\/ process = "exited"
       \/ /\ process = "panicked"
          /\ \E r \in AllRoutines : Wanted(r) /\ Setting(Intervals[r]) # "positive"
       \/ /\ Len(settings) = Len(Variables)
          /\ \A r \in AllRoutines : routine[r] = "running" <=> Wanted(r))

(***************************************************************************)
(* "Extract snapshotter state contract address" (contract.go:102) and      *)
(* "Initialize snapshotter state contract instance" (contract.go:109): the *)
(* slots are synchronised from the snapshotter state contract.             *)
(***************************************************************************)
SlotsAreReadable == routine["SyncAllSlots"] = "running" => address = "contract"
=============================================================================
