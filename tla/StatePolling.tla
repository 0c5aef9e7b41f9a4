---------------------------- MODULE StatePolling ----------------------------
(***************************************************************************)
(* The pollers of contract state variables (pkgs/prost/contract.go), as    *)
(* cmd/main.go starts them: StaticStateVariables once in main, before      *)
(* anything else, then StaticStateSync, if configured, and                 *)
(* DynamicStateSync at every tick.                                         *)
(*                                                                         *)
(* The values that a variable takes are numbered in their order; number 0  *)
(* is the zero value of a variable that the contract has not set.          *)
(*                                                                         *)
(* A definition marked "mutation" is no part of the model: it is a mistake *)
(* that the code could contain, kept to show that a property catches it.   *)
(***************************************************************************)
EXTENDS StateVariables, Integers, FiniteSets, Functions, Redis

CONSTANTS
  PollingStaticStateVariables,  \* POLLING_STATIC_STATE_VARIABLES
  MaxLag,                    \* bound: the lag of the RPC nodes
  MaxVersion,                \* bound: the values of a variable
  MaxChanges,                \* bound: the changes of all variables together
  MaxCrashes                 \* bound: the number of crashes

ASSUME StatePollingAssumption ==
  /\ PollingStaticStateVariables \in BOOLEAN
  /\ MaxLag \in Nat
  /\ MaxVersion \in Nat
  /\ MaxChanges \in Nat
  /\ MaxCrashes \in Nat

VARIABLES
  contract,                  \* the contract: the value of every variable
  store,                     \* Redis: the key of every variable
  poller,                    \* the three callers and where they are
  started,                   \* main has set the static state variables
  crashes,                   \* the number of crashes so far
  lag                        \* how far, in values, the RPC nodes may be behind

vars == <<contract, store, poller, started, alerts, crashes, lag>>
-----------------------------------------------------------------------------
Callers == {"main", "StaticStateSync", "DynamicStateSync"}

Round(p) == IF p = "DynamicStateSync" THEN DynamicStateVariables
                                      ELSE StaticStateVariables

\* pos = 0: waiting for a tick; val: the answer that is about to be stored.
Waiting == [pos |-> 0, val |-> Absent]

InRound(p) == poller[p].pos \in DOMAIN Round(p)

Variable(p) == Round(p)[poller[p].pos]

Init ==
  /\ contract = [k \in Keys |-> 0]
  /\ store = [k \in Keys |-> Absent]
  /\ poller = [p \in Callers |-> IF p = "main" THEN [Waiting EXCEPT !.pos = 1]
                                               ELSE Waiting]
  /\ started = FALSE
  /\ alerts = <<>>
  /\ crashes = 0
  /\ lag \in 0..MaxLag

Change(k) ==
  /\ contract[k] < MaxVersion
  /\ FoldFunction(+, 0, contract) < MaxChanges
  /\ contract' = [contract EXCEPT ![k] = @ + 1]
  /\ UNCHANGED <<store, poller, started, alerts, crashes, lag>>
-----------------------------------------------------------------------------
TickingDynamic(p) == started /\ p = "DynamicStateSync"             \* mutation

TickingAtOnce(p) == p # "main"                                     \* mutation

\* The tickers that main has set running.
Ticking(p) ==
  /\ started
  /\ \/ p = "DynamicStateSync"
     \/ p = "StaticStateSync" /\ PollingStaticStateVariables

Tick(p) ==
  /\ Ticking(p)
  /\ poller[p].pos = 0
  /\ poller' = [poller EXCEPT ![p].pos = 1]
  /\ UNCHANGED <<contract, store, started, alerts, crashes, lag>>

\* An epoch size of zero counts as no answer.
Keep(k, v) == ~(k[1] = "EPOCH_SIZE" /\ v = 0)

\* What the nodes may answer for k.
Answers(k) == {v \in (contract[k] - lag)..contract[k] : v >= 0}

\* The call for the variable at pos; a failure is not even logged.
Call(p) ==
  /\ InRound(p)
  /\ poller[p].val = Absent
  /\ \/ \E v \in Answers(Variable(p)) :
          /\ Keep(Variable(p), v)
          /\ poller' = [poller EXCEPT ![p].val = v]
     \/ /\ \/ "call" \in Faults
           \/ \E v \in Answers(Variable(p)) : ~Keep(Variable(p), v)
        /\ poller' = [poller EXCEPT ![p].pos = @ + 1]
  /\ UNCHANGED <<contract, store, started, alerts, crashes, lag>>

NextKey(p) ==                                                      \* mutation
  Round(p)[(poller[p].pos % Len(Round(p))) + 1]

KeyFor(p) == Variable(p)

\* HSet on the quota table: its error is logged and nothing is reported.
HSet(k, v) ==
  /\ \/ store' = Stored(store, k, v)
     \/ "redis" \in Faults /\ UNCHANGED store
  /\ UNCHANGED alerts

Store(p) ==
  /\ InRound(p)
  /\ poller[p].val # Absent
  /\ \/ Variable(p)[1] = "dailySnapshotQuota" /\ HSet(KeyFor(p), poller[p].val)
     \/ Variable(p)[1] # "dailySnapshotQuota" /\ PersistState(store, KeyFor(p), poller[p].val)
  /\ poller' = [poller EXCEPT ![p] = [pos |-> @.pos + 1, val |-> Absent]]
  /\ UNCHANGED <<contract, started, crashes, lag>>

\* The round is over; main's makes way for the goroutines.
RoundEnds(p) ==
  /\ poller[p].pos > Len(Round(p))
  /\ poller' = [poller EXCEPT ![p] = Waiting]
  /\ started' = (started \/ p = "main")
  /\ UNCHANGED <<contract, store, alerts, crashes, lag>>

Crash ==
  /\ crashes < MaxCrashes
  /\ crashes' = crashes + 1
  /\ poller' = [p \in Callers |-> IF p = "main" THEN [Waiting EXCEPT !.pos = 1]
                                                ELSE Waiting]
  /\ started' = FALSE
  /\ alerts' = <<>>
  /\ UNCHANGED <<contract, store, lag>>

Step(p) == Tick(p) \/ Call(p) \/ Store(p) \/ RoundEnds(p)

Next == Crash \/ (\E k \in Keys : Change(k)) \/ (\E p \in Callers : Step(p))

Spec == Init /\ [][Next]_vars

\* Goroutines are scheduled and tickers tick.
FairSpec == Spec /\ \A p \in Callers : WF_vars(Step(p))
-----------------------------------------------------------------------------
\* Only main's caller is at work before the others are started, and none
\* goes past its round.
TypeOK ==
  /\ contract \in [Keys -> Nat]
  /\ store \in [Keys -> Nat \union {Absent}]
  /\ poller \in [Callers -> [pos : Nat, val : Nat \union {Absent}]]
  /\ \A p \in Callers : poller[p].pos <= Len(Round(p)) + 1
  /\ started \in BOOLEAN
  /\ \A p \in Callers : poller[p].pos # 0 => (started <=> p # "main")
  /\ AlertsTypeOK
  /\ crashes \in Nat
  /\ lag \in Nat

(***************************************************************************)
(* A call of k that is made again and again, answers again and again, and  *)
(* so it is with the write of the answer: failures go on or not.           *)
(***************************************************************************)
AskedFor(k) == \E p \in Callers : InRound(p) /\ Variable(p) = k /\ Call(p)

Answered(k) ==
  AskedFor(k) /\ \E p \in Callers : InRound(p) /\ Variable(p) = k /\
    (poller'[p].val # poller[p].val \/ ~Keep(k, contract[k]))

Writing(k) == \E p \in Callers : InRound(p) /\ Variable(p) = k /\ Store(p)

Written(k) ==
  Writing(k) /\ \E p \in Callers : poller'[p] # poller[p] /\ store'[k] = poller[p].val

NotForEver(k) ==
  /\ []<><<AskedFor(k)>>_vars => []<><<Answered(k)>>_vars
  /\ []<><<Writing(k)>>_vars => []<><<Written(k)>>_vars

(***************************************************************************)
(* Unless the contract changes for ever, Redis ends up holding the current *)
(* value of every variable whose call and write do not fail for ever, and  *)
(* keeps it, when RPC nodes are up to date: each poller comes back to each *)
(* variable however many calls fail, and whatever becomes of the others.   *)
(***************************************************************************)
Current(k) == Keep(k, contract[k]) => store[k] = contract[k]

Converges ==
  lag = 0 =>
    \/ []<><<contract' # contract>>_vars
    \/ \A k \in Keys : NotForEver(k) => <>[]Current(k)

Mirror == INSTANCE ContractMirror
            WITH cache <- store, published <- [k \in Keys |-> 0..contract[k]]

(***************************************************************************)
(* The pollers implement a cache of contract state: Redis never holds for  *)
(* a variable what the contract did not answer for that very variable,     *)
(* however far RPC nodes are behind.                                       *)
(***************************************************************************)
MirrorsContract == Mirror!Spec

(***************************************************************************)
(* With RPC nodes that are up to date no variable goes back to an older    *)
(* value, although main and StaticStateSync write the same keys.  Of other *)
(* nodes it says nothing.                                                  *)
(***************************************************************************)
UpToDate == INSTANCE ContractMirror
              WITH cache <- IF lag = 0 THEN store ELSE [k \in Keys |-> Absent],
                   published <- [k \in Keys |-> 0..contract[k]]

MirrorsInOrder == UpToDate!OrderedSpec
=============================================================================
