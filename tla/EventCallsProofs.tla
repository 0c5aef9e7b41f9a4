-------------------------- MODULE EventCallsProofs --------------------------
(***************************************************************************)
(* Lemmas and theorems about EventBindings and EventCalls, for every set   *)
(* of events, emissions and queries: what a node selects by the position   *)
(* of the topics is what the caller asks for by the parameters' names.     *)
(***************************************************************************)
EXTENDS EventCalls, FiniteSetTheorems, FunctionTheorems, SequenceTheorems, TLAPS

LEMMA FunctionIsSeq ==
  ASSUME NEW n \in Nat, NEW T, NEW f \in [1..n -> T]
  PROVE  f \in Seq(T) /\ Len(f) = n /\ DOMAIN f = 1..n
<1>1. f \in Seq(T)
  <2>1. \A i \in 1..n : f[i] \in T
    OBVIOUS
  <2>2. f = [i \in 1..n |-> f[i]]
    OBVIOUS
  <2>3. [i \in 1..n |-> f[i]] \in Seq(T)
    BY <2>1, IsASeq
  <2> QED  BY <2>2, <2>3
<1>2. Len(f) \in Nat /\ DOMAIN f = 1..Len(f)
  BY <1>1, LenProperties
<1>3. 1..Len(f) = 1..n
  BY <1>2
<1>4. Len(f) = n
  <2>1. \A k, m \in Nat : 1..k = 1..m => k = m
    <3> SUFFICES ASSUME NEW k \in Nat, NEW m \in Nat, 1..k = 1..m PROVE k = m
      OBVIOUS
    <3>1. k > 0 => k \in 1..m
      OBVIOUS
    <3>2. m > 0 => m \in 1..k
      OBVIOUS
    <3> QED  BY <3>1, <3>2
  <2> QED  BY <1>2, <1>3, <2>1
<1> QED  BY <1>1, <1>2, <1>4
-----------------------------------------------------------------------------
(***************************************************************************)
(* Ascending.                                                              *)
(***************************************************************************)
Rank(S, n) == Cardinality({m \in S : m <= n})

LEMMA RankGrows ==
  ASSUME NEW S \in SUBSET Nat, IsFiniteSet(S), NEW n \in S, NEW k \in S, n < k
  PROVE  Rank(S, n) < Rank(S, k)
<1> DEFINE A == {m \in S : m <= n}
           B == {m \in S : m <= k}
<1>1. IsFiniteSet(A) /\ IsFiniteSet(B) /\ Cardinality(A) \in Nat /\ Cardinality(B) \in Nat
  <2>1. A \in SUBSET S /\ B \in SUBSET S
    OBVIOUS
  <2> HIDE DEF A, B
  <2>2. IsFiniteSet(A) /\ IsFiniteSet(B)
    BY <2>1, FS_Subset
  <2> QED  BY <2>2, FS_CardinalityType
<1>2. A \subseteq B /\ k \in B /\ k \notin A
  <2>1. n \in Nat /\ k \in Nat /\ ~(k <= n) /\ k <= k
    OBVIOUS
  <2>2. \A m \in S : m <= n => m <= k
    OBVIOUS
  <2> QED  BY <2>1, <2>2
<1> HIDE DEF A, B
<1>3. Cardinality(A) <= Cardinality(B) /\ (Cardinality(B) = Cardinality(A) => A = B)
  BY <1>1, <1>2, FS_Subset
<1> QED  BY <1>1, <1>2, <1>3 DEF Rank, A, B

LEMMA RankType ==
  ASSUME NEW S \in SUBSET Nat, IsFiniteSet(S), NEW n \in S
  PROVE  Rank(S, n) \in 1..Cardinality(S)
<1> DEFINE A == {m \in S : m <= n}
<1>1. A \subseteq S /\ n \in A
  OBVIOUS
<1> HIDE DEF A
<1>2. IsFiniteSet(A) /\ Cardinality(A) <= Cardinality(S)
  BY <1>1, FS_Subset
<1>3. Cardinality(A) \in Nat /\ Cardinality(S) \in Nat /\ Cardinality(A) # 0
  BY <1>1, <1>2, FS_CardinalityType, FS_EmptySet
<1> QED  BY <1>2, <1>3 DEF Rank, A

\* Every rank is taken, by one element: ranks are a bijection.
LEMMA RankTaken ==
  ASSUME NEW S \in SUBSET Nat, IsFiniteSet(S), NEW i \in 1..Cardinality(S)
  PROVE  \E n \in S : Rank(S, n) = i
<1> DEFINE f == [n \in S |-> Rank(S, n)]
           N == 1..Cardinality(S)
<1>1. f \in [S -> N]
  BY RankType
<1>2. \A n, k \in S : f[n] = f[k] => n = k
  <2> SUFFICES ASSUME NEW n \in S, NEW k \in S, n # k PROVE Rank(S, n) # Rank(S, k)
    OBVIOUS
  <2>1. Rank(S, n) \in Int /\ Rank(S, k) \in Int
    BY RankType
  <2>2. n < k \/ k < n
    OBVIOUS
  <2> QED  BY <2>1, <2>2, RankGrows
<1>3. Cardinality(S) \in Nat
  BY FS_CardinalityType
<1>4. IsFiniteSet(N) /\ Cardinality(N) = Cardinality(S)
  BY <1>3, FS_Interval
<1> HIDE DEF f, N
<1>5. f \in Injection(S, N)
  BY <1>1, <1>2, Fun_IsInj
<1>6. f \in Surjection(S, N)
  BY <1>4, <1>5, FS_Injection
<1>7. \A t \in N : \E s \in S : f[s] = t
  BY <1>6, Fun_SurjectionProperties
<1> QED  BY <1>7 DEF f, N

LEMMA AscendingProperties ==
  ASSUME NEW S \in SUBSET Nat, IsFiniteSet(S)
  PROVE  /\ Cardinality(S) \in Nat
         /\ DOMAIN Ascending(S) = 1..Cardinality(S)
         /\ \A i \in 1..Cardinality(S) : /\ Ascending(S)[i] \in S
                                         /\ Rank(S, Ascending(S)[i]) = i
<1>1. Cardinality(S) \in Nat
  BY FS_CardinalityType
<1>2. ASSUME NEW i \in 1..Cardinality(S)
      PROVE  Ascending(S)[i] \in S /\ Rank(S, Ascending(S)[i]) = i
  <2>1. Ascending(S)[i] = CHOOSE n \in S : Rank(S, n) = i
    BY DEF Ascending, Rank
  <2> QED  BY <2>1, RankTaken
<1> QED  BY <1>1, <1>2 DEF Ascending

\* An element of S that has rank i is the i-th.
LEMMA RankDetermines ==
  ASSUME NEW S \in SUBSET Nat, IsFiniteSet(S), NEW n \in S
  PROVE  Ascending(S)[Rank(S, n)] = n
<1> DEFINE k == Ascending(S)[Rank(S, n)]
<1>1. k \in S /\ Rank(S, k) = Rank(S, n) /\ Rank(S, n) \in Int
  BY RankType, AscendingProperties
<1> HIDE DEF k
<1>2. k < n \/ n < k \/ k = n
  BY <1>1
<1>3. k = n
  BY <1>1, <1>2, RankGrows
<1> QED  BY <1>3 DEF k

\* A number above all others comes last and moves none.
LEMMA AscendingAppend ==
  ASSUME NEW n \in Nat, NEW S \in SUBSET (1..n)
  PROVE  /\ IsFiniteSet(S) /\ IsFiniteSet(S \union {n + 1})
         /\ Cardinality(S) \in Nat
         /\ Cardinality(S \union {n + 1}) = Cardinality(S) + 1
         /\ \A i \in 1..Cardinality(S) : Ascending(S \union {n + 1})[i] = Ascending(S)[i]
         /\ Ascending(S \union {n + 1})[Cardinality(S) + 1] = n + 1
<1> DEFINE T == S \union {n + 1}
<1>1. IsFiniteSet(S) /\ Cardinality(S) \in Nat /\ S \in SUBSET Nat
  <2>1. IsFiniteSet(1..n)
    BY FS_Interval, 1 \in Int, n \in Int
  <2>2. IsFiniteSet(S)
    BY <2>1, FS_Subset
  <2> QED  BY <2>2, FS_CardinalityType
<1>2. n + 1 \notin S /\ T \in SUBSET Nat
  OBVIOUS
<1>3. IsFiniteSet(T) /\ Cardinality(T) = Cardinality(S) + 1
  BY <1>1, <1>2, FS_AddElement
<1>4. \A k \in S : {m \in T : m <= k} = {m \in S : m <= k}
  OBVIOUS
<1>5. \A k \in S : Rank(T, k) = Rank(S, k) /\ k \in T
  BY <1>4 DEF Rank
<1>6. {m \in T : m <= n + 1} = T
  <2>1. \A m \in T : m <= n + 1
    OBVIOUS
  <2> HIDE DEF T
  <2> QED  BY <2>1
<1>7. n + 1 \in T /\ Rank(T, n + 1) = Cardinality(S) + 1
  BY <1>3, <1>6 DEF Rank
<1> HIDE DEF T
<1>8. Ascending(T)[Cardinality(S) + 1] = n + 1
  BY <1>2, <1>3, <1>7, RankDetermines
<1>9. ASSUME NEW i \in 1..Cardinality(S) PROVE Ascending(T)[i] = Ascending(S)[i]
  <2>1. PICK k \in S : k = Ascending(S)[i] /\ Rank(S, k) = i
    BY <1>1, AscendingProperties
  <2>2. k \in T /\ Rank(T, k) = i
    BY <1>5, <2>1
  <2>3. Ascending(T)[Rank(T, k)] = k
    BY <1>2, <1>3, <2>2, RankDetermines
  <2> QED  BY <2>1, <2>2, <2>3
<1> QED  BY <1>1, <1>3, <1>8, <1>9 DEF T
-----------------------------------------------------------------------------
(***************************************************************************)
(* One log.                                                                *)
(***************************************************************************)
LEMMA LogFields ==
  ASSUME NEW event, NEW e
  PROVE  /\ Log(event, e).name = IF e.kind = "other" THEN "other" ELSE event.name
         /\ Log(event, e).topics = [i \in DOMAIN event.indexed |->
                                      Topic(event.indexed[i], e.args[event.indexed[i]])]
         /\ Log(event, e).data = [i \in DOMAIN event.data |-> e.args[event.data[i]]]
         /\ Log(event, e).sound = (e.kind # "unsound")
BY DEF Log, LogOf

LEMMA SoundIsBoolean == \A event, e : Log(event, e).sound \in BOOLEAN
BY DEF Log, LogOf

LEMMA TopicIsInjective ==
  \A p, v, w : Topic(p, v) = Topic(p, w) => v = w
<1> SUFFICES ASSUME NEW p, NEW v, NEW w, Topic(p, v) = Topic(p, w) PROVE v = w
  OBVIOUS
<1>1. Topic(p, v).of = v /\ Topic(p, w).of = w
  BY DEF Topic
<1> QED  BY <1>1

\* A node that compares topics with rules position by position selects the
\* events whose parameters the caller asked for by name, if the rules are
\* passed in the order of the topics.
LEMMA SelectsByName ==
  ASSUME NEW event, event.name # "other",
         Len(event.indexed) \in Nat, DOMAIN event.indexed = 1..Len(event.indexed),
         NEW order, order = event.indexed, NEW asked, NEW e
  PROVE  Selects(event, Rules(order, asked), Log(event, e)) <=> Asks(event, asked, e)
<1> DEFINE log == Log(event, e)
           n == Len(event.indexed)
           rules == Rules(order, asked)
<1>1. n \in Nat /\ DOMAIN event.indexed = 1..n
  OBVIOUS
<1>2. /\ log.topics = [i \in 1..n |-> Topic(event.indexed[i], e.args[event.indexed[i]])]
      /\ rules = [i \in 1..n |-> {Topic(event.indexed[i], v) : v \in asked[event.indexed[i]]}]
  <2>1. log.topics = [i \in DOMAIN event.indexed |->
                        Topic(event.indexed[i], e.args[event.indexed[i]])]
    BY LogFields
  <2>2. rules = [i \in DOMAIN event.indexed |->
                   {Topic(event.indexed[i], v) : v \in asked[event.indexed[i]]}]
    BY DEF Rules
  <2> HIDE DEF log, rules, n
  <2> QED  BY <1>1, <2>1, <2>2
<1>3. Len(log.topics) = n /\ Len(rules) = n /\ DOMAIN rules = 1..n
  <2>1. log.topics \in [1..n -> {log.topics[i] : i \in 1..n}]
    BY <1>2
  <2>2. rules \in [1..n -> {rules[i] : i \in 1..n}]
    BY <1>2
  <2> HIDE DEF log, rules, n
  <2> QED  BY <1>1, <2>1, <2>2, FunctionIsSeq
<1>4. log.name = event.name <=> e.kind # "other"
  BY LogFields
<1>5. ASSUME NEW i \in 1..n
      PROVE  /\ rules[i] = {} <=> asked[event.indexed[i]] = {}
             /\ log.topics[i] \in rules[i] <=> e.args[event.indexed[i]] \in asked[event.indexed[i]]
  <2> DEFINE p == event.indexed[i]
  <2>1. rules[i] = {Topic(p, v) : v \in asked[p]} /\ log.topics[i] = Topic(p, e.args[p])
    BY <1>2
  <2> HIDE DEF log, rules, p
  <2> QED  BY <2>1, TopicIsInjective DEF p
<1>6. Expected(event, asked, e.args)
        <=> \A i \in 1..n : asked[event.indexed[i]] # {}
                              => e.args[event.indexed[i]] \in asked[event.indexed[i]]
  BY <1>1 DEF Expected, ToSet
<1>7. Selects(event, rules, log)
        <=> /\ log.name = event.name
            /\ \A i \in 1..n : rules[i] # {} => log.topics[i] \in rules[i]
  BY <1>1, <1>3 DEF Selects
<1> HIDE DEF log, rules, n
<1>8. Selects(event, rules, log) <=> e.kind # "other" /\ Expected(event, asked, e.args)
  BY <1>4, <1>5, <1>6, <1>7
<1> QED  BY <1>8 DEF Asks, log, rules

LEMMA UnpacksMeaning ==
  ASSUME NEW event \in Bindings, NEW e \in Emissions(event), e.kind # "other"
  PROVE  Reads(event, Log(event, e), Meaning(event, e))
<1> DEFINE log == Log(event, e)
<1>1. Unpacks(event, log) <=> Meaning(event, e).sound
  BY EventCallsAssumption, LogFields DEF Unpacks, Meaning
<1>2. Parameters(event) = {event.indexed[i] : i \in DOMAIN event.indexed}
                            \union {event.data[i] : i \in DOMAIN event.data}
  BY DEF Parameters, ToSet
<1> DEFINE Field(p) ==
      IF \E i \in DOMAIN event.indexed : event.indexed[i] = p
      THEN log.topics[CHOOSE i \in DOMAIN event.indexed : event.indexed[i] = p]
      ELSE log.data[CHOOSE i \in DOMAIN event.data : event.data[i] = p]
           Value(p) == IF p \in ToSet(event.indexed) THEN Topic(p, e.args[p]) ELSE e.args[p]
<1>3. ASSUME NEW p \in Parameters(event) PROVE Field(p) = Value(p)
  <2>1. CASE \E i \in DOMAIN event.indexed : event.indexed[i] = p
    <3> DEFINE j == CHOOSE i \in DOMAIN event.indexed : event.indexed[i] = p
    <3>1. j \in DOMAIN event.indexed /\ event.indexed[j] = p
      BY <2>1
    <3>2. Field(p) = log.topics[j] /\ p \in ToSet(event.indexed)
      BY <2>1 DEF ToSet
    <3> HIDE DEF j
    <3>3. log.topics[j] = Topic(p, e.args[p])
      <4>1. log.topics = [i \in DOMAIN event.indexed |->
                            Topic(event.indexed[i], e.args[event.indexed[i]])]
        BY LogFields
      <4> HIDE DEF log
      <4> QED  BY <3>1, <4>1
    <3> QED  BY <3>2, <3>3
  <2>2. CASE ~\E i \in DOMAIN event.indexed : event.indexed[i] = p
    <3> DEFINE j == CHOOSE i \in DOMAIN event.data : event.data[i] = p
    <3>1. p \notin ToSet(event.indexed) /\ \E i \in DOMAIN event.data : event.data[i] = p
      BY <2>2, <1>2 DEF ToSet
    <3>2. j \in DOMAIN event.data /\ event.data[j] = p
      BY <3>1
    <3>3. Field(p) = log.data[j]
      BY <2>2
    <3> HIDE DEF j
    <3>4. log.data[j] = e.args[p]
      <4>1. log.data = [i \in DOMAIN event.data |-> e.args[event.data[i]]]
        BY LogFields
      <4> HIDE DEF log
      <4> QED  BY <3>2, <4>1
    <3> QED  BY <3>1, <3>3, <3>4
  <2> QED  BY <2>1, <2>2
<1>4. UnpackLog(event, log) = [p \in Parameters(event) |-> Field(p)]
  BY DEF UnpackLog
<1>5. Meaning(event, e).fields = [p \in Parameters(event) |-> Value(p)]
  BY DEF Meaning, Fields
<1> HIDE DEF Field, Value
<1>6. UnpackLog(event, log) = Meaning(event, e).fields
  BY <1>3, <1>4, <1>5
<1> QED  BY <1>1, <1>6 DEF Reads
-----------------------------------------------------------------------------
(***************************************************************************)
(* A chain of emissions.                                                   *)
(***************************************************************************)
Logs(event) == {Log(event, e) : e \in Emissions(event)}

Meanings(event) == {Meaning(event, e) : e \in Emissions(event)}

AskedFor(event, asked, chain) == {i \in DOMAIN chain : Asks(event, asked, chain[i])}

LEMMA AskedForType ==
  ASSUME NEW event, NEW asked, NEW chain \in Seq(Emissions(event))
  PROVE  /\ Len(chain) \in Nat
         /\ AskedFor(event, asked, chain) \in SUBSET (1..Len(chain))
         /\ AskedFor(event, asked, chain) \in SUBSET Nat
         /\ IsFiniteSet(AskedFor(event, asked, chain))
         /\ Cardinality(AskedFor(event, asked, chain)) \in Nat
<1>1. Len(chain) \in Nat /\ DOMAIN chain = 1..Len(chain)
  BY LenProperties
<1>2. AskedFor(event, asked, chain) \in SUBSET (1..Len(chain))
  BY <1>1 DEF AskedFor
<1> DEFINE S == AskedFor(event, asked, chain)
<1> HIDE DEF S
<1>3. IsFiniteSet(1..Len(chain))
  BY <1>1, FS_Interval, 1 \in Int, Len(chain) \in Int
<1>4. IsFiniteSet(S) /\ S \in SUBSET Nat
  BY <1>1, <1>2, <1>3, FS_Subset DEF S
<1>5. Cardinality(S) \in Nat
  BY <1>4, FS_CardinalityType
<1> QED  BY <1>1, <1>2, <1>4, <1>5 DEF S

LEMMA WantedType ==
  ASSUME NEW event, NEW asked, NEW chain \in Seq(Emissions(event))
  PROVE  /\ WantedOf(event, asked, chain) \in Seq(Meanings(event))
         /\ Len(WantedOf(event, asked, chain)) = Cardinality(AskedFor(event, asked, chain))
         /\ \A i \in 1..Cardinality(AskedFor(event, asked, chain)) :
              LET e == chain[Ascending(AskedFor(event, asked, chain))[i]]
              IN  /\ WantedOf(event, asked, chain)[i] = Meaning(event, e)
                  /\ e \in Emissions(event) /\ Asks(event, asked, e)
<1> DEFINE S == AskedFor(event, asked, chain)
           n == Cardinality(S)
           w == WantedOf(event, asked, chain)
<1>1. n \in Nat /\ DOMAIN Ascending(S) = 1..n /\ \A i \in 1..n : Ascending(S)[i] \in S
  BY AskedForType, AscendingProperties
<1>2. \A i \in S : chain[i] \in Emissions(event) /\ Asks(event, asked, chain[i])
  BY ElementOfSeq, LenProperties DEF AskedFor
<1>3. w = [i \in 1..n |-> Meaning(event, chain[Ascending(S)[i]])]
  BY <1>1 DEF WantedOf, AskedFor
<1> HIDE DEF S, n, w
<1>4. \A i \in 1..n : w[i] = Meaning(event, chain[Ascending(S)[i]])
  BY <1>3
<1>5. w \in [1..n -> Meanings(event)]
  BY <1>1, <1>2, <1>3 DEF Meanings
<1>6. w \in Seq(Meanings(event)) /\ Len(w) = n
  BY <1>1, <1>5, FunctionIsSeq
<1> QED  BY <1>1, <1>2, <1>4, <1>6 DEF S, n, w

\* The node's answer holds, log by log, what the caller asked for.
LEMMA SelectedIsWanted ==
  ASSUME NEW event \in Bindings, NEW order, order = event.indexed,
         NEW asked, NEW chain \in Seq(Emissions(event))
  PROVE  LET logs   == Selected(event, Rules(order, asked), chain)
             wanted == WantedOf(event, asked, chain)
         IN  /\ logs \in Seq(Logs(event))
             /\ Len(logs) = Len(wanted)
             /\ \A i \in 1..Len(wanted) : Reads(event, logs[i], wanted[i])
<1> DEFINE S == AskedFor(event, asked, chain)
           n == Cardinality(S)
           l == Selected(event, Rules(order, asked), chain)
           w == WantedOf(event, asked, chain)
<1>1. \A i \in DOMAIN chain : chain[i] \in Emissions(event)
  BY ElementOfSeq, LenProperties
<1>2. {i \in DOMAIN chain : Selects(event, Rules(order, asked), Log(event, chain[i]))} = S
  <2>1. event.indexed \in Seq(Parameters(event)) /\ event.name # "other"
    BY EventCallsAssumption
  <2>2. Len(event.indexed) \in Nat /\ DOMAIN event.indexed = 1..Len(event.indexed)
    BY <2>1, LenProperties
  <2> QED  BY <2>1, <2>2, SelectsByName DEF AskedFor
<1>3. n \in Nat /\ DOMAIN Ascending(S) = 1..n /\ \A i \in 1..n : Ascending(S)[i] \in S
  BY AskedForType, AscendingProperties
<1>4. l = [i \in 1..n |-> Log(event, chain[Ascending(S)[i]])]
  BY <1>2, <1>3 DEF Selected
<1>5. \A i \in S : chain[i] \in Emissions(event) /\ Asks(event, asked, chain[i])
  BY <1>1 DEF AskedFor
<1>6. Len(w) = n /\ \A i \in 1..n : w[i] = Meaning(event, chain[Ascending(S)[i]])
  BY WantedType
<1> HIDE DEF S, n, l, w
<1>7. l \in [1..n -> Logs(event)]
  BY <1>3, <1>4, <1>5 DEF Logs
<1>8. l \in Seq(Logs(event)) /\ Len(l) = n
  BY <1>3, <1>7, FunctionIsSeq
<1>9. ASSUME NEW i \in 1..n PROVE Reads(event, l[i], w[i])
  <2>1. PICK e \in Emissions(event) : e = chain[Ascending(S)[i]] /\ Asks(event, asked, e)
    BY <1>3, <1>5
  <2>2. l[i] = Log(event, e) /\ w[i] = Meaning(event, e)
    BY <1>4, <1>6, <2>1
  <2>3. e.kind # "other"
    BY <2>1 DEF Asks
  <2> QED  BY <2>2, <2>3, UnpacksMeaning
<1> QED  BY <1>6, <1>8, <1>9 DEF l, w

\* A new emission extends what is wanted, or leaves it.
LEMMA WantedAppend ==
  ASSUME NEW event, NEW asked, NEW chain \in Seq(Emissions(event)), NEW e \in Emissions(event)
  PROVE  WantedOf(event, asked, Append(chain, e)) =
           IF Asks(event, asked, e)
           THEN Append(WantedOf(event, asked, chain), Meaning(event, e))
           ELSE WantedOf(event, asked, chain)
<1> DEFINE n == Len(chain)
           longer == Append(chain, e)
           S == AskedFor(event, asked, chain)
           T == AskedFor(event, asked, longer)
           w == WantedOf(event, asked, chain)
           v == WantedOf(event, asked, longer)
           M == Meanings(event)
<1>1. /\ longer \in Seq(Emissions(event)) /\ Len(longer) = n + 1 /\ n \in Nat
      /\ \A i \in 1..n : longer[i] = chain[i]
      /\ longer[n + 1] = e
      /\ DOMAIN chain = 1..n /\ DOMAIN longer = 1..(n + 1)
  BY AppendProperties, LenProperties
<1> HIDE DEF longer, n
<1>2. S \in SUBSET (1..n)
  BY <1>1 DEF AskedFor
<1>3. T = IF Asks(event, asked, e) THEN S \union {n + 1} ELSE S
  <2>1. \A i : i \in 1..(n + 1) <=> i \in 1..n \/ i = n + 1
    BY <1>1
  <2>2. \A i : i \in S <=> i \in 1..n /\ Asks(event, asked, chain[i])
    BY <1>1 DEF AskedFor
  <2>3. \A i : i \in T <=> i \in 1..(n + 1) /\ Asks(event, asked, longer[i])
    BY <1>1 DEF AskedFor
  <2>4. n + 1 \notin 1..n
    BY <1>1
  <2> HIDE DEF S, T
  <2> QED  BY <1>1, <2>1, <2>2, <2>3, <2>4
<1>4. /\ w \in Seq(M) /\ Len(w) = Cardinality(S)
      /\ \A i \in 1..Cardinality(S) : w[i] = Meaning(event, chain[Ascending(S)[i]])
  BY WantedType
<1>5. /\ v \in Seq(M) /\ Len(v) = Cardinality(T)
      /\ \A i \in 1..Cardinality(T) : v[i] = Meaning(event, longer[Ascending(T)[i]])
  BY <1>1, WantedType
<1>6. /\ Cardinality(S) \in Nat
      /\ \A i \in 1..Cardinality(S) : Ascending(S)[i] \in 1..n
  BY <1>1, <1>2, AscendingAppend, AscendingProperties, AskedForType
<1> HIDE DEF S, T, v, w
<1>7. \A i \in 1..Cardinality(S) : w[i] = Meaning(event, longer[Ascending(S)[i]])
  BY <1>1, <1>4, <1>6
<1>8. CASE ~Asks(event, asked, e)
  <2>1. T = S
    BY <1>3, <1>8
  <2>2. \A i \in 1..Len(w) : v[i] = w[i]
    BY <1>4, <1>5, <1>7, <2>1
  <2>3. v = w
    BY <1>4, <1>5, <2>1, <2>2, SeqEqual
  <2> QED  BY <1>8, <2>3 DEF v, w, longer
<1>9. CASE Asks(event, asked, e)
  <2>1. /\ Cardinality(T) = Cardinality(S) + 1
        /\ \A i \in 1..Cardinality(S) : Ascending(T)[i] = Ascending(S)[i]
        /\ Ascending(T)[Cardinality(S) + 1] = n + 1
    BY <1>1, <1>2, <1>3, <1>9, AscendingAppend
  <2> DEFINE x == Meaning(event, e)
             u == Append(w, x)
  <2>2. x \in M
    BY DEF Meanings
  <2>3. /\ u \in Seq(M) /\ Len(u) = Cardinality(S) + 1
        /\ \A i \in 1..Cardinality(S) : u[i] = w[i]
        /\ u[Cardinality(S) + 1] = x
    BY <1>4, <2>2, AppendProperties
  <2> HIDE DEF u
  <2>4. \A i \in 1..Cardinality(S) : v[i] = u[i]
    BY <1>5, <1>6, <1>7, <2>1, <2>3
  <2>5. v[Cardinality(S) + 1] = u[Cardinality(S) + 1]
    BY <1>1, <1>5, <1>6, <2>1, <2>3
  <2>6. \A i \in 1..Len(u) : v[i] = u[i]
    BY <1>6, <2>3, <2>4, <2>5
  <2>7. v = u
    BY <1>5, <2>1, <2>3, <2>6, SeqEqual
  <2> QED  BY <1>9, <2>7 DEF v, w, u, longer
<1> QED  BY <1>8, <1>9

LEMMA BoundedSeqIsSeq == \A S, n : BoundedSeq(S, n) \subseteq Seq(S)
<1> SUFFICES ASSUME NEW S, NEW n, NEW m \in 0..n, NEW f \in [1..m -> S]
             PROVE  f \in Seq(S)
  BY DEF BoundedSeq, SeqOf
<1>1. m \in Nat
  OBVIOUS
<1> QED  BY <1>1, FunctionIsSeq

LEMMA MeaningIsRecord ==
  ASSUME NEW event, NEW m \in Meanings(event)
  PROVE  m = [sound |-> m.sound, fields |-> m.fields] /\ m.sound \in BOOLEAN
<1>1. PICK e \in Emissions(event) : m = Meaning(event, e)
  BY DEF Meanings
<1>2. \A b \in BOOLEAN : \A f :
        LET r == [sound |-> b, fields |-> f]
        IN  r = [sound |-> r.sound, fields |-> r.fields] /\ r.sound = b
  OBVIOUS
<1>3. (e.kind = "sound") \in BOOLEAN
  OBVIOUS
<1> QED  BY <1>1, <1>2, <1>3, Zenon DEF Meaning

LEMMA GotType ==
  ASSUME NEW T, NEW d \in Seq(T)
  PROVE  Got(d) \in Seq([sound : BOOLEAN, fields : T]) /\ Len(Got(d)) = Len(d)
<1>1. Len(d) \in Nat /\ d \in [1..Len(d) -> T] /\ DOMAIN d = 1..Len(d)
  BY LenProperties
<1>2. Got(d) \in [1..Len(d) -> [sound : BOOLEAN, fields : T]]
  BY <1>1 DEF Got
<1> QED  BY <1>1, <1>2, FunctionIsSeq

LEMMA GotAppend ==
  ASSUME NEW T, NEW d \in Seq(T), NEW x \in T
  PROVE  Got(Append(d, x)) = Append(Got(d), [sound |-> TRUE, fields |-> x])
<1> DEFINE n == Len(d)
           R == [sound : BOOLEAN, fields : T]
           r == [sound |-> TRUE, fields |-> x]
           e == Append(d, x)
           g == Append(Got(d), r)
<1>1. /\ e \in Seq(T) /\ Len(e) = n + 1 /\ n \in Nat
      /\ \A i \in 1..n : e[i] = d[i]
      /\ e[n + 1] = x
      /\ DOMAIN d = 1..n /\ DOMAIN e = 1..(n + 1)
  BY AppendProperties, LenProperties
<1>2. Got(d) \in Seq(R) /\ Len(Got(d)) = n
  BY GotType
<1>3. r \in R
  OBVIOUS
<1> HIDE DEF R, r, e, n
<1>4. Got(e) \in Seq(R) /\ Len(Got(e)) = n + 1
  BY <1>1, GotType DEF R
<1>5. /\ g \in Seq(R) /\ Len(g) = n + 1 /\ g[n + 1] = r
      /\ \A i \in 1..n : g[i] = Got(d)[i]
  BY <1>2, <1>3, AppendProperties
<1> HIDE DEF g
<1>6. /\ \A i \in 1..n : Got(e)[i] = Got(d)[i]
      /\ Got(e)[n + 1] = r
  <2>1. \A i \in DOMAIN e : Got(e)[i] = [sound |-> TRUE, fields |-> e[i]]
    BY DEF Got
  <2>2. \A i \in DOMAIN d : Got(d)[i] = [sound |-> TRUE, fields |-> d[i]]
    BY DEF Got
  <2>3. \A i \in 1..n : i \in 1..(n + 1)
    BY <1>1
  <2>4. n + 1 \in 1..(n + 1)
    BY <1>1
  <2> QED  BY <1>1, <2>1, <2>2, <2>3, <2>4 DEF r
<1>7. \A i \in 1..(n + 1) : i \in 1..n \/ i = n + 1
  BY <1>1
<1>8. \A i \in 1..Len(g) : Got(e)[i] = g[i]
  BY <1>5, <1>6, <1>7
<1>9. Got(e) = g
  BY <1>4, <1>5, <1>8, SeqEqual
<1> QED  BY <1>9 DEF e, g, r

LEMMA EmptyIsPrefix ==
  ASSUME NEW T, NEW s \in Seq(T)
  PROVE  IsPrefix(<<>>, s)
<1>1. Len(<<>>) = 0 /\ Len(s) \in Nat
  BY EmptySeq, LenProperties
<1>2. SubSeq(<<>>, 1, 0) = <<>> /\ SubSeq(s, 1, 0) = <<>>
  BY SubSeqEmpty, 1 \in Int, 0 \in Int
<1> QED  BY <1>1, <1>2 DEF IsPrefix

LEMMA AppendIsPrefix ==
  ASSUME NEW T, NEW s \in Seq(T), NEW x \in T
  PROVE  IsPrefix(s, Append(s, x))
<1> DEFINE t == Append(s, x)
           n == Len(s)
<1>1. /\ t \in Seq(T) /\ Len(t) = n + 1 /\ n \in Nat
      /\ \A i \in 1..n : t[i] = s[i]
  BY AppendProperties, LenProperties
<1> HIDE DEF t, n
<1>2. \A i \in 1..n : s[i] \in T /\ t[i] \in T
  BY <1>1, ElementOfSeq DEF n
<1>3. /\ SubSeq(s, 1, n) \in Seq(T) /\ Len(SubSeq(s, 1, n)) = n
      /\ \A i \in 1..n : SubSeq(s, 1, n)[i] = s[i]
  BY <1>1, <1>2, SubSeqProperties, 1 \in Int, n \in Int
<1>4. /\ SubSeq(t, 1, n) \in Seq(T) /\ Len(SubSeq(t, 1, n)) = n
      /\ \A i \in 1..n : SubSeq(t, 1, n)[i] = t[i]
  BY <1>1, <1>2, SubSeqProperties, 1 \in Int, n \in Int
<1>5. SubSeq(s, 1, n) = SubSeq(t, 1, n)
  BY <1>1, <1>3, <1>4, SeqEqual
<1> QED  BY <1>1, <1>5 DEF IsPrefix, t, n
=============================================================================
