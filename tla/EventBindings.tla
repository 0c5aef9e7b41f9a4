---------------------------- MODULE EventBindings ----------------------------
(***************************************************************************)
(* What abigen generates for an event of a contract, once for all events:  *)
(* pkgs/contract and pkgs/snapshotterStateContract repeat it per event.    *)
(* The events themselves are listed in ContractEvents and                  *)
(* SnapshotterStateEvents.                                                 *)
(*                                                                         *)
(* A log carries the event's signature, a topic per indexed parameter, and *)
(* the other parameters as data.  Values are abstract; a log that the ABI  *)
(* cannot decode has "sound" FALSE.  A contract emits such a log after an  *)
(* upgrade that changed which parameters are indexed: the signature does   *)
(* not tell.                                                               *)
(***************************************************************************)
EXTENDS Naturals, Sequences, SequencesExt

\* An event: its name, its indexed parameters in the order of the ABI, which
\* is the order of the topics, its other parameters, and the parameters whose
\* rules FilterX passes to FilterLogs, and WatchX to WatchLogs, in that order.
Binding(contract, name, indexed, data, filter, watch) ==
  [contract |-> contract, name |-> name, indexed |-> indexed, data |-> data,
   filter |-> filter, watch |-> watch]

Parameters(event) == ToSet(event.indexed) \union ToSet(event.data)

\* Of an indexed string only the hash is in the log.
Topic(parameter, value) == [hashed |-> parameter = "batchCid", of |-> value]

\* The log of an event with the parameters "args".
LogOf(event, args) ==
  [name   |-> event.name,
   topics |-> [i \in DOMAIN event.indexed |-> Topic(event.indexed[i], args[event.indexed[i]])],
   data   |-> [i \in DOMAIN event.data |-> args[event.data[i]]],
   sound  |-> TRUE]
-----------------------------------------------------------------------------
SwappedRules(order, asked) ==                                      \* mutation
  [i \in DOMAIN order |->
     LET p == order[Len(order) + 1 - i] IN {Topic(p, v) : v \in asked[p]}]

\* The rules FilterX and WatchX make of their arguments and pass in an order:
\* the topics of the values asked for, none standing for all.
Rules(order, asked) ==
  [i \in DOMAIN order |-> {Topic(order[i], v) : v \in asked[order[i]]}]

\* How a node applies them: by position.
Selects(event, rules, log) ==
  /\ log.name = event.name
  /\ Len(log.topics) >= Len(rules)
  /\ \A i \in DOMAIN rules : rules[i] # {} => log.topics[i] \in rules[i]

Unpacks(event, log) == log.name = event.name /\ log.sound

\* UnpackLog: the fields of the event's struct, an indexed string as its hash.
UnpackLog(event, log) ==
  [p \in Parameters(event) |->
     IF \E i \in DOMAIN event.indexed : event.indexed[i] = p
     THEN log.topics[CHOOSE i \in DOMAIN event.indexed : event.indexed[i] = p]
     ELSE log.data[CHOOSE i \in DOMAIN event.data : event.data[i] = p]]
-----------------------------------------------------------------------------
(***************************************************************************)
(* The reference: what a caller who asks for values by name expects.       *)
(***************************************************************************)
Expected(event, asked, args) ==
  \A p \in ToSet(event.indexed) : asked[p] # {} => args[p] \in asked[p]

Fields(event, args) ==
  [p \in Parameters(event) |->
     IF p \in ToSet(event.indexed) THEN Topic(p, args[p]) ELSE args[p]]
=============================================================================
