----------------------------- MODULE EventCalls -----------------------------
(***************************************************************************)
(* What FilterX and WatchX have in common: the events X, the contract that *)
(* emits them, and what the caller who asks for some of them should get.   *)
(***************************************************************************)
EXTENDS EventBindings, FiniteSets

CONSTANTS
  Bindings,                  \* the events X
  Capacity,                  \* the size of the channel of logs
  Emissions(_),              \* what the contract may emit, by event
  Queries(_),                \* what the caller may ask for, by event
  MaxEmitted                 \* bound: the number of emissions

ASSUME EventCallsAssumption ==
  /\ Capacity \in Nat \ {0}
  /\ MaxEmitted \in Nat
  /\ \A ev \in Bindings :
       /\ ev.name # "other"
       /\ ev.indexed \in Seq(Parameters(ev))
       /\ ev.data \in Seq(Parameters(ev))
       /\ \A e \in Emissions(ev) : e.kind \in {"sound", "unsound", "other"}

\* Of the generated functions: their rules are in the order of the topics.
ASSUME RulesFollowTopics ==
  \A ev \in Bindings : ev.filter = ev.indexed /\ ev.watch = ev.indexed

\* The log of an emission: of X, of X but not decodable, or of another event.
Log(event, e) ==
  [LogOf(event, e.args) EXCEPT !.name  = IF e.kind = "other" THEN "other" ELSE @,
                               !.sound = e.kind # "unsound"]

\* The numbers in a finite set, in ascending order.
Ascending(S) ==
  [i \in 1..Cardinality(S) |-> CHOOSE n \in S : Cardinality({m \in S : m <= n}) = i]

\* The logs that a node selects from a chain of emissions, in its order.
Selected(event, rules, chain) ==
  LET order == Ascending({i \in DOMAIN chain : Selects(event, rules, Log(event, chain[i]))})
  IN [i \in DOMAIN order |-> Log(event, chain[order[i]])]

(***************************************************************************)
(* The reference: of the emissions the caller asks for by the parameters'  *)
(* names, in their order, the fields, and whether the ABI can decode them. *)
(***************************************************************************)
Asks(event, asked, e) == e.kind # "other" /\ Expected(event, asked, e.args)

Meaning(event, e) == [sound |-> e.kind = "sound", fields |-> Fields(event, e.args)]

WantedOf(event, asked, chain) ==
  LET order == Ascending({i \in DOMAIN chain : Asks(event, asked, chain[i])})
  IN [i \in DOMAIN order |-> Meaning(event, chain[order[i]])]

\* Unpacking a log gives the fields of its event, if it can be decoded.
Reads(event, log, meaning) ==
  /\ Unpacks(event, log) <=> meaning.sound
  /\ UnpackLog(event, log) = meaning.fields

\* The fields a caller got, as meanings.
Got(events) == [i \in DOMAIN events |-> [sound |-> TRUE, fields |-> events[i]]]
=============================================================================
