------------------------- MODULE HostSelectionProofs -------------------------
(***************************************************************************)
(* Proofs for HostSelection, for any hosts, order of their names and       *)
(* weights: its types, whose turn it is in the round robin selector, and   *)
(* the sums the weighted random selector divides into ranges.              *)
(***************************************************************************)
EXTENDS HostSelection, FiniteSetTheorems, WellFoundedInduction, TLAPS

-----------------------------------------------------------------------------
(* The turns of the round robin selector: what is inductive about them.    *)

\* The eligible hosts from s on, up to t, past the last one if t comes before s.
Stretch(s, t) ==
  {k \in available :
     IF Position[s] <= Position[t] THEN Position[s] <= Position[k] /\ Position[k] <= Position[t]
     ELSE Position[s] <= Position[k] \/ Position[k] <= Position[t]}

\* A host under way has fewer selections left than its weight.
Counted(info) == info.lastHost \in Hosts => info.weightCounter < Weight(info.weights, info.lastHost)

\* The info of the host whose turn it is; all eligible hosts share it.
TurnInfo == clusterInfo[entry[selected]]
Shared ==
  /\ entry[selected] \in Hosts /\ \A h \in available : entry[h] = entry[selected]
  /\ TurnInfo.seen = weights /\ TurnInfo.lastHost = selected

\* What was selected and what is left of the turn make up its weight, except in the
\* first turn, whose beginning was not counted.
TurnCounted ==
  /\ turn.times > 0 /\ turn.times + TurnInfo.weightCounter <= Weight(TurnInfo.weights, selected)
  /\ \/ turn.had = {selected}
     \/ turn.times + TurnInfo.weightCounter = Weight(TurnInfo.weights, selected)

TurnKnown ==
  turn.had # {} =>
    /\ strategy = "roundRobin" /\ selected \in available /\ Shared /\ TurnCounted
    /\ \E s \in available : turn.had = Stretch(s, selected)

InfosCounted == \A i \in Hosts : Counted(clusterInfo[i])

-----------------------------------------------------------------------------
(* Types *)

\* Of the natural numbers some choice maps a non-empty set to, one is the smallest.
LEMMA Smallest ==
  ASSUME NEW S, S # {}, NEW f \in [S -> Nat]
  PROVE  \E h \in S : \A k \in S : f[h] <= f[k]
<1>. DEFINE T == {f[h] : h \in S}
<1>1. T \subseteq Nat /\ T # {}
  OBVIOUS
<1>2. PICK m \in T : \A n \in T : ~ (<<n, m>> \in OpToRel(<, Nat))
  BY <1>1, NatLessThanWellFounded, WFMin
<1>3. \A n \in T : ~ (n < m)
  BY <1>1, <1>2 DEF OpToRel
<1>4. PICK h \in S : m = f[h]
  OBVIOUS
<1>5. ASSUME NEW k \in S PROVE f[h] <= f[k]
  <2>1. f[k] \in T /\ f[k] \in Nat /\ f[h] \in Nat
    OBVIOUS
  <2>. HIDE DEF T
  <2>. QED  BY <1>3, <1>4, <2>1
<1>. QED  BY <1>5

LEMMA PositionType == Position \in [Hosts -> Nat]
<1>1. ASSUME NEW h \in Hosts PROVE \E i \in 1..Len(HostOrder) : HostOrder[i] = h
  BY SelectionAssumption DEF ToSet
<1>. QED  BY <1>1 DEF Position

LEMMA HostsFinite == IsFiniteSet(Hosts) /\ Cardinality(Hosts) \in Nat
<1>1. HostOrder \in [1..Len(HostOrder) -> Hosts] /\ Len(HostOrder) \in Nat
  BY SelectionAssumption
<1>2. HostOrder \in Surjection(1..Len(HostOrder), Hosts)
  BY <1>1, SelectionAssumption DEF Surjection, ToSet
<1>3. IsFiniteSet(1..Len(HostOrder))
  BY <1>1, FS_Interval
<1>4. IsFiniteSet(Hosts)
  BY <1>2, <1>3, FS_Surjection
<1>. QED  BY <1>4, FS_CardinalityType

\* The first of some hosts is one of them, and none comes before it.
LEMMA FirstIsLowest ==
  ASSUME NEW S \in SUBSET Hosts, S # {}
  PROVE  FirstOf(S) \in S /\ \A k \in S : Position[FirstOf(S)] <= Position[k]
<1>. DEFINE f == [h \in S |-> Position[h]]
<1>1. f \in [S -> Nat]
  BY PositionType
<1>2. \E h \in S : \A k \in S : f[h] <= f[k]
  <2>. HIDE DEF f
  <2>. QED  BY <1>1, Smallest
<1>3. \E h \in S : \A k \in S : Position[h] <= Position[k]
  BY <1>2
<1>. QED  BY <1>3 DEF FirstOf

LEMMA FirstIsOne ==
  ASSUME NEW S \in SUBSET Hosts, S # {}
  PROVE  FirstOf(S) \in S
BY FirstIsLowest

\* Some host is outweighed by none.
LEMMA HeaviestExists ==
  ASSUME NEW S \in SUBSET Hosts, S # {}, NEW w \in [Hosts -> 0..MaxWeight]
  PROVE  \E h \in S : \A k \in S : w[k] <= w[h]
<1>. DEFINE f == [h \in S |-> MaxWeight - w[h]]
<1>0. MaxWeight \in Nat
  BY SelectionAssumption
<1>1. f \in [S -> Nat]
  BY <1>0
<1>2. PICK h \in S : \A k \in S : f[h] <= f[k]
  <2>. HIDE DEF f
  <2>. QED  BY <1>1, Smallest
<1>3. ASSUME NEW k \in S PROVE w[k] <= w[h]
  BY <1>0, <1>2
<1>. QED  BY <1>3

\* An eligible host without an info leaves one for it.
LEMMA InfoLeft ==
  ASSUME NEW a \in Hosts, NEW e \in [Hosts -> Hosts \cup {None}], e[a] = None
  PROVE  \E i \in Hosts : \A h \in Hosts : e[h] # i
<1>. SUFFICES ASSUME \A i \in Hosts : \E h \in Hosts : e[h] = i
              PROVE  FALSE
  OBVIOUS
<1>. DEFINE g == [h \in Hosts \ {a} |-> IF e[h] = None THEN a ELSE e[h]]
<1>1. g \in [Hosts \ {a} -> Hosts]
  OBVIOUS
<1>2. ASSUME NEW i \in Hosts PROVE \E h \in Hosts \ {a} : g[h] = i
  <2>1. PICK h \in Hosts : e[h] = i
    OBVIOUS
  <2>2. h # a /\ e[h] # None
    BY <2>1, SelectionAssumption
  <2>. QED  BY <2>1, <2>2
<1>3. g \in Surjection(Hosts \ {a}, Hosts)
  <2>. HIDE DEF g
  <2>. QED  BY <1>1, <1>2 DEF Surjection
<1>4. IsFiniteSet(Hosts \ {a}) /\ Cardinality(Hosts \ {a}) = Cardinality(Hosts) - 1
  BY HostsFinite, FS_RemoveElement
<1>5. Cardinality(Hosts) <= Cardinality(Hosts \ {a})
  <2>. HIDE DEF g
  <2>. QED  BY <1>3, <1>4, FS_Surjection
<1>. QED  BY <1>4, <1>5, HostsFinite


LEMMA InfoUsedType ==
  ASSUME SelectionTypeOK, available # {}
  PROVE  InfoUsed \in Hosts
<1>. DEFINE having == {h \in available : entry[h] # None}
<1>1. CASE having # {}
  <2>1. FirstOf(having) \in having
    <3>. having \in SUBSET Hosts
      BY DEF SelectionTypeOK
    <3>. HIDE DEF having
    <3>. QED  BY <1>1, FirstIsOne
  <2>. QED  BY <1>1, <2>1 DEF InfoUsed, SelectionTypeOK
<1>2. CASE having = {}
  <2>1. PICK a \in Hosts : entry[a] = None
    BY <1>2 DEF SelectionTypeOK
  <2>2. \E i \in Hosts : \A h \in Hosts : entry[h] # i
    BY <2>1, InfoLeft DEF SelectionTypeOK
  <2>. QED  BY <1>2, <2>2 DEF InfoUsed
<1>. QED  BY <1>1, <1>2

LEMMA NoInfoType == NoWeights \in [Hosts -> 0..MaxWeight] /\ NoInfo \in ClusterInfos
<1>1. NoWeights \in [Hosts -> 0..MaxWeight] /\ NoWeights \in WeightSets
  BY SelectionAssumption DEF NoWeights
<1>2. 0 \in 0..MaxWeight
  BY SelectionAssumption
<1>. QED  BY <1>1, <1>2 DEF NoInfo, ClusterInfos

LEMMA RefreshedType ==
  ASSUME SelectionTypeOK, NEW info \in ClusterInfos
  PROVE  Refreshed(info) \in ClusterInfos
<1>1. weights # Invalid => weights \in [Hosts -> 0..MaxWeight]
  BY SelectionAssumption DEF SelectionTypeOK
<1>2. MergedWeights(info.weights) \in [Hosts -> 0..MaxWeight]
  <2>1. info.weights \in [Hosts -> 0..MaxWeight]
    BY DEF ClusterInfos
  <2>. QED  BY <1>1, <2>1, NoInfoType DEF MergedWeights
<1>3. 0 \in 0..MaxWeight
  BY SelectionAssumption
<1>. QED  BY <1>2, <1>3 DEF Refreshed, ClusterInfos, SelectionTypeOK

LEMMA RoundRobinType ==
  ASSUME SelectionTypeOK, available # {}, NEW info \in ClusterInfos
  PROVE  RoundRobin(info) \in ClusterInfos /\ RoundRobin(info).lastHost \in available
<1>1. ASSUME NEW h PROVE NextInTurn(h) \in available
  <2>1. After(h) \in SUBSET available /\ available \in SUBSET Hosts
    BY DEF After, SelectionTypeOK
  <2>2. CASE After(h) = {}
    BY <2>1, <2>2, FirstIsOne DEF NextInTurn
  <2>3. CASE After(h) # {}
    <3>1. After(h) \in SUBSET Hosts
      BY <2>1
    <3>2. FirstOf(After(h)) \in After(h)
      BY <2>3, <3>1, FirstIsOne
    <3>. QED  BY <2>1, <2>3, <3>2 DEF NextInTurn
  <2>. QED  BY <2>2, <2>3
<1>2. /\ info.weightCounter \in 0..MaxWeight /\ MaxWeight \in Nat \ {0}
      /\ info.weights \in [Hosts -> 0..MaxWeight] /\ available \subseteq Hosts
  BY SelectionAssumption DEF ClusterInfos, SelectionTypeOK
<1>3. CASE info.weightCounter > 0 /\ info.lastHost \in available
  <2>1. RoundRobin(info) = [info EXCEPT !.weightCounter = info.weightCounter - 1]
    BY <1>3 DEF RoundRobin
  <2>2. info.weightCounter - 1 \in 0..MaxWeight
    BY <1>2, <1>3
  <2>. QED  BY <1>3, <2>1, <2>2 DEF ClusterInfos
<1>4. CASE ~ (info.weightCounter > 0 /\ info.lastHost \in available)
  <2>. DEFINE h == NextInTurn(info.lastHost)
  <2>1. RoundRobin(info) = [info EXCEPT !.lastHost = h, !.weightCounter = Weight(info.weights, h) - 1]
    BY <1>4 DEF RoundRobin
  <2>2. h \in available
    BY <1>1
  <2>. HIDE DEF h
  <2>3. Weight(info.weights, h) - 1 \in 0..MaxWeight
    BY <1>2, <2>2 DEF Weight
  <2>. QED  BY <1>2, <2>1, <2>2, <2>3 DEF ClusterInfos
<1>. QED  BY <1>3, <1>4

\* Whatever the strategy, a host is selected or none, and what the selector
\* keeps has its type.
LEMMA SelectionTypes ==
  ASSUME SelectionTypeOK, strategy = "highestWeight" => weights # Invalid,
         GetHostInfoByStrategy
  PROVE  /\ SelectionTypeOK' /\ UNCHANGED <<strategy, available, weights>>
<1>0. available \subseteq Hosts
  BY DEF SelectionTypeOK
<1>1. CASE SelectRandom
  BY <1>0, <1>1 DEF SelectRandom, SelectionTypeOK
<1>2. CASE SelectHighestWeight
  <2>1. weights \in [Hosts -> 0..MaxWeight]
    BY <1>2, SelectionAssumption DEF SelectHighestWeight, SelectionTypeOK
  <2>. DEFINE S == {h \in available : \A k \in available : weights[k] <= weights[h]}
  <2>2. S # {}
    BY <1>0, <1>2, <2>1, HeaviestExists DEF SelectHighestWeight
  <2>3. S \in SUBSET Hosts /\ HighestWeight = FirstOf(S)
    BY <1>0 DEF HighestWeight
  <2>4. HighestWeight \in Hosts
    <3>. HIDE DEF S
    <3>. QED  BY <2>2, <2>3, FirstIsOne
  <2>. QED  BY <1>2, <2>4 DEF SelectHighestWeight, SelectionTypeOK
<1>3. CASE SelectWeightedRandom
  <2>1. ReadHostWeights # Invalid => ReadHostWeights \in [Hosts -> 0..MaxWeight]
    BY SelectionAssumption DEF ReadHostWeights, SelectionTypeOK
  <2>2. \A map, n : WeightedRandom(map, n) \subseteq Hosts
    BY <1>0 DEF WeightedRandom
  <2>3. hostWeightMap' \in [Hosts -> 0..MaxWeight] /\ selected' \in Hosts \cup {None}
    BY <1>3, <2>1, <2>2 DEF SelectWeightedRandom, SelectionTypeOK
  <2>. QED  BY <1>3, <2>3 DEF SelectWeightedRandom, SelectionTypeOK
<1>4. CASE SelectRoundRobin
  <2>1. available # {} /\ InfoUsed \in Hosts
    BY <1>4, InfoUsedType DEF SelectRoundRobin
  <2>2. InfoFound \in ClusterInfos
    BY <2>1, NoInfoType DEF InfoFound, SelectionTypeOK
  <2>. DEFINE info == RoundRobin(Refreshed(InfoFound))
  <2>3. info \in ClusterInfos /\ info.lastHost \in available
    BY <2>1, <2>2, RefreshedType, RoundRobinType
  <2>4. entry' \in [Hosts -> Hosts \cup {None}]
    BY <1>4, <2>1 DEF SelectRoundRobin, SelectionTypeOK
  <2>5. clusterInfo' \in [Hosts -> ClusterInfos]
    <3>1. clusterInfo' = [i \in Hosts |-> CASE i = InfoUsed -> info
                                            [] \A h \in Hosts : entry'[h] # i -> NoInfo
                                            [] OTHER -> clusterInfo[i]]
      BY <1>4 DEF SelectRoundRobin
    <3>. HIDE DEF info
    <3>. QED  BY <2>3, <3>1, NoInfoType DEF SelectionTypeOK
  <2>6. selected' = info.lastHost
    BY <1>4 DEF SelectRoundRobin
  <2>7. turn' \in [had : SUBSET Hosts, times : Nat]
    <3>. DEFINE begins == info.weightCounter = Weight(info.weights, info.lastHost) - 1
    <3>1. turn' = IF ~ begins /\ info.lastHost = selected THEN [turn EXCEPT !.times = @ + 1]
                  ELSE IF turn.had = available THEN [had |-> {info.lastHost}, times |-> 1]
                  ELSE [had |-> turn.had \cup {info.lastHost}, times |-> 1]
      BY <1>4 DEF SelectRoundRobin
    <3>2. info.lastHost \in Hosts /\ turn \in [had : SUBSET Hosts, times : Nat]
      BY <1>0, <2>3 DEF SelectionTypeOK
    <3>. HIDE DEF info, begins
    <3>3. [turn EXCEPT !.times = @ + 1] \in [had : SUBSET Hosts, times : Nat]
      BY <3>2
    <3>4. [had |-> turn.had \cup {info.lastHost}, times |-> 1] \in [had : SUBSET Hosts, times : Nat]
      BY <3>2
    <3>5. [had |-> {info.lastHost}, times |-> 1] \in [had : SUBSET Hosts, times : Nat]
      BY <3>2
    <3>. QED  BY <3>1, <3>3, <3>4, <3>5
  <2>8. UNCHANGED <<strategy, available, weights, hostWeightMap>>
    BY <1>4 DEF SelectRoundRobin
  <2>. HIDE DEF info
  <2>. QED  BY <1>0, <2>3, <2>4, <2>5, <2>6, <2>7, <2>8 DEF SelectionTypeOK
<1>5. CASE SelectRoundRobinFails
  <2>1. InfoUsed \in Hosts
    BY <1>5, InfoUsedType DEF SelectRoundRobinFails
  <2>2. clusterInfo[InfoUsed] \in ClusterInfos
    BY <2>1 DEF SelectionTypeOK
  <2>3. Refreshed(clusterInfo[InfoUsed]) \in ClusterInfos
    BY <2>2, RefreshedType
  <2>4. clusterInfo' \in [Hosts -> ClusterInfos]
    BY <1>5, <2>1, <2>3 DEF SelectRoundRobinFails, SelectionTypeOK
  <2>. QED  BY <1>5, <2>4 DEF SelectRoundRobinFails, SelectionTypeOK, NoTurn
<1>6. CASE SelectNone
  BY <1>6 DEF SelectNone, SelectionTypeOK
<1>. QED  BY <1>1, <1>2, <1>3, <1>4, <1>5, <1>6 DEF GetHostInfoByStrategy

\* The cluster and the cached infos change.
LEMMA ChangeTypes ==
  ASSUME SelectionTypeOK, strategy = "highestWeight" => weights # Invalid,
         NEW h \in Hosts, NEW w \in WeightSets,
         ChangeAvailability(h) \/ EntryExpires(h) \/ ChangeWeights(w)
  PROVE  /\ SelectionTypeOK' /\ UNCHANGED strategy
         /\ strategy = "highestWeight" => weights' # Invalid
<1>1. CASE ChangeAvailability(h)
  BY <1>1 DEF ChangeAvailability, SelectionTypeOK, NoTurn
<1>2. CASE EntryExpires(h)
  BY <1>2, NoInfoType DEF EntryExpires, SelectionTypeOK, NoTurn
<1>3. CASE ChangeWeights(w)
  BY <1>3 DEF ChangeWeights, SelectionTypeOK, NoTurn
<1>. QED  BY <1>1, <1>2, <1>3

-----------------------------------------------------------------------------
(* Whose turn it is *)

\* No two hosts have the same place.
LEMMA PositionInjective ==
  ASSUME NEW h \in Hosts, NEW k \in Hosts, Position[h] = Position[k]
  PROVE  h = k
<1>1. ASSUME NEW x \in Hosts PROVE HostOrder[Position[x]] = x
  <2>1. \E i \in 1..Len(HostOrder) : HostOrder[i] = x
    BY SelectionAssumption DEF ToSet
  <2>. QED  BY <2>1 DEF Position
<1>. QED  BY <1>1

\* The next in turn follows without a gap, or begins again with the first.
LEMMA NextFollows ==
  ASSUME available \subseteq Hosts, NEW t \in available
  PROVE  LET n == NextInTurn(t) IN
         /\ n \in available
         /\ \/ /\ Position[n] > Position[t]
               /\ \A k \in available : Position[k] <= Position[t] \/ Position[n] <= Position[k]
            \/ /\ \A k \in available : Position[n] <= Position[k] /\ Position[k] <= Position[t]
<1>1. Position \in [Hosts -> Nat] /\ available \in SUBSET Hosts /\ After(t) \in SUBSET Hosts
  BY PositionType DEF After
<1>2. CASE After(t) = {}
  <2>1. NextInTurn(t) = FirstOf(available)
    BY <1>2 DEF NextInTurn
  <2>2. \A k \in available : Position[k] <= Position[t]
    BY <1>1, <1>2 DEF After
  <2>. QED  BY <1>1, <2>1, <2>2, FirstIsLowest
<1>3. CASE After(t) # {}
  <2>1. NextInTurn(t) = FirstOf(After(t))
    BY <1>3 DEF NextInTurn
  <2>2. NextInTurn(t) \in After(t) /\ \A k \in After(t) : Position[NextInTurn(t)] <= Position[k]
    BY <1>1, <1>3, <2>1, FirstIsLowest
  <2>. QED  BY <1>1, <2>2 DEF After
<1>. QED  BY <1>2, <1>3

\* The hosts that had a turn are a stretch of the eligible ones: the next is outside
\* it, unless it has gone all the way round, and makes it one longer.
LEMMA StretchGrows ==
  ASSUME available \subseteq Hosts, NEW s \in available, NEW t \in available
  PROVE  LET n == NextInTurn(t) IN
         /\ Stretch(n, n) = {n}
         /\ n \in Stretch(s, t) => Stretch(s, t) = available
         /\ n \notin Stretch(s, t) => Stretch(s, n) = Stretch(s, t) \cup {n}
         /\ n = t => available = {t}
<1>. DEFINE n == NextInTurn(t)
<1>1. /\ n \in available
      /\ \/ /\ Position[n] > Position[t]
            /\ \A k \in available : Position[k] <= Position[t] \/ Position[n] <= Position[k]
         \/ /\ \A k \in available : Position[n] <= Position[k] /\ Position[k] <= Position[t]
  BY NextFollows
<1>2. \A h \in available : Position[h] \in Nat
  BY PositionType
<1>3. \A h, k \in available : Position[h] = Position[k] => h = k
  BY PositionInjective
<1>. HIDE DEF n
<1>4. Stretch(n, n) = {n}
  BY <1>1, <1>2, <1>3 DEF Stretch
<1>5. ASSUME n \in Stretch(s, t) PROVE Stretch(s, t) = available
  <2>1. Position[n] = Position[s]
    BY <1>1, <1>2, <1>5 DEF Stretch
  <2>. QED  BY <1>1, <1>2, <1>3, <2>1 DEF Stretch
<1>6. ASSUME n \notin Stretch(s, t) PROVE Stretch(s, n) = Stretch(s, t) \cup {n}
  <2>1. ASSUME NEW k \in available PROVE k \in Stretch(s, n) <=> k \in Stretch(s, t) \/ k = n
    BY <1>1, <1>2, <1>3, <1>6 DEF Stretch
  <2>. QED  BY <1>1, <2>1 DEF Stretch
<1>7. ASSUME n = t PROVE available = {t}
  BY <1>1, <1>2, <1>3, <1>7
<1>. QED  BY <1>4, <1>5, <1>6, <1>7 DEF n

-----------------------------------------------------------------------------
(* The round robin selector *)

LEMMA WeightType ==
  ASSUME NEW w \in [Hosts -> 0..MaxWeight], NEW h \in Hosts
  PROVE  Weight(w, h) \in Nat \ {0}
BY SelectionAssumption DEF Weight

LEMMA InfoFields ==
  ASSUME NEW info \in ClusterInfos
  PROVE  info.weightCounter \in Nat /\ info.weights \in [Hosts -> 0..MaxWeight]
BY SelectionAssumption DEF ClusterInfos

LEMMA RefreshedCounted ==
  ASSUME NEW info, Counted(info)
  PROVE  Counted(Refreshed(info))
<1>1. CASE info.seen = weights
  BY <1>1 DEF Refreshed
<1>2. CASE info.seen # weights
  BY <1>2, SelectionAssumption DEF Refreshed, Counted
<1>. QED  BY <1>1, <1>2

\* The host under way is selected again, or the next one begins its turn.
LEMMA RoundRobinCases ==
  ASSUME SelectionTypeOK, available # {}, NEW info \in ClusterInfos, Counted(info)
  PROVE  LET new == RoundRobin(info) IN
         /\ new \in ClusterInfos /\ new.lastHost \in available /\ Counted(new)
         /\ new.weights = info.weights /\ new.seen = info.seen
         /\ IF info.weightCounter > 0 /\ info.lastHost \in available
              THEN /\ new.lastHost = info.lastHost /\ new.weightCounter = info.weightCounter - 1
                   /\ new.weightCounter # Weight(new.weights, new.lastHost) - 1
              ELSE /\ new.lastHost = NextInTurn(info.lastHost)
                   /\ new.weightCounter = Weight(new.weights, new.lastHost) - 1
<1>. DEFINE new == RoundRobin(info)
<1>1. new \in ClusterInfos /\ new.lastHost \in available
  BY RoundRobinType
<1>2. /\ new.weightCounter \in Nat /\ info.weightCounter \in Nat
      /\ info.weights \in [Hosts -> 0..MaxWeight] /\ available \subseteq Hosts
  <2>. HIDE DEF new
  <2>. QED  BY <1>1, InfoFields DEF SelectionTypeOK
<1>3. CASE info.weightCounter > 0 /\ info.lastHost \in available
  <2>1. /\ new.weights = info.weights /\ new.seen = info.seen
        /\ new.lastHost = info.lastHost /\ new.weightCounter = info.weightCounter - 1
    BY <1>3 DEF RoundRobin, ClusterInfos
  <2>2. Weight(info.weights, info.lastHost) \in Nat \ {0}
    BY <1>2, <1>3, WeightType
  <2>3. info.weightCounter < Weight(info.weights, info.lastHost)
    BY <1>2, <1>3 DEF Counted
  <2>. HIDE DEF new
  <2>. QED  BY <1>1, <1>2, <1>3, <2>1, <2>2, <2>3 DEF new, Counted
<1>4. CASE ~ (info.weightCounter > 0 /\ info.lastHost \in available)
  <2>1. /\ new.weights = info.weights /\ new.seen = info.seen
        /\ new.lastHost = NextInTurn(info.lastHost)
        /\ new.weightCounter = Weight(info.weights, new.lastHost) - 1
    BY <1>4 DEF RoundRobin, ClusterInfos
  <2>2. Weight(info.weights, new.lastHost) \in Nat \ {0}
    BY <1>1, <1>2, WeightType
  <2>. HIDE DEF new
  <2>3. Counted(new)
    BY <2>1, <2>2 DEF Counted
  <2>. QED  BY <1>1, <1>4, <2>1, <2>3 DEF new
<1>. QED  BY <1>3, <1>4

\* The info that GetHost leaves behind is the one all eligible hosts share.
LEMMA InfoShared ==
  ASSUME SelectionTypeOK, InfosCounted, SelectRoundRobin
  PROVE  LET info == RoundRobin(Refreshed(InfoFound)) IN
         /\ InfosCounted' /\ selected' = info.lastHost /\ selected' \in available'
         /\ Shared' /\ TurnInfo' = info /\ InfoFound \in ClusterInfos /\ Counted(InfoFound)
<1>. DEFINE info == RoundRobin(Refreshed(InfoFound))
<1>0. available # {} /\ InfoUsed \in Hosts /\ available \subseteq Hosts /\ UNCHANGED <<available, weights>>
  BY InfoUsedType DEF SelectRoundRobin, SelectionTypeOK
<1>1. Counted(NoInfo)
  BY SelectionAssumption DEF Counted, NoInfo
<1>2. InfoFound \in ClusterInfos /\ Counted(InfoFound)
  BY <1>0, <1>1, NoInfoType DEF InfoFound, SelectionTypeOK, InfosCounted
<1>3. Refreshed(InfoFound) \in ClusterInfos /\ Counted(Refreshed(InfoFound)) /\ Refreshed(InfoFound).seen = weights
  <2>1. Refreshed(InfoFound).seen = weights
    BY DEF Refreshed
  <2>. QED  BY <1>2, <2>1, RefreshedType, RefreshedCounted
<1>4. Counted(info) /\ info.lastHost \in available /\ info.seen = weights
  BY <1>0, <1>3, RoundRobinCases
<1>5. entry' = [h \in Hosts |-> IF h \in available THEN InfoUsed ELSE entry[h]]
  BY DEF SelectRoundRobin
<1>6. clusterInfo' = [i \in Hosts |-> CASE i = InfoUsed -> info
                                       [] \A h \in Hosts : entry'[h] # i -> NoInfo
                                       [] OTHER -> clusterInfo[i]]
  BY DEF SelectRoundRobin
<1>7. selected' = info.lastHost
  BY DEF SelectRoundRobin
<1>. HIDE DEF info
<1>8. ~ \A h \in Hosts : entry'[h] # InfoUsed
  BY <1>0, <1>5
<1>9. clusterInfo'[InfoUsed] = info /\ \A i \in Hosts \ {InfoUsed} : clusterInfo'[i] \in {NoInfo, clusterInfo[i]}
  <2>1. clusterInfo'[InfoUsed] = info
    BY <1>0, <1>6, <1>8
  <2>. QED  BY <1>0, <1>6, <2>1
<1>10. InfosCounted'
  <2>. SUFFICES ASSUME NEW i \in Hosts PROVE Counted(clusterInfo'[i])
    BY DEF InfosCounted, Counted, Weight
  <2>. QED  BY <1>1, <1>4, <1>9 DEF InfosCounted
<1>11. entry'[selected'] = InfoUsed /\ TurnInfo' = info
  BY <1>0, <1>4, <1>5, <1>7, <1>9 DEF TurnInfo
<1>12. Shared'
  BY <1>0, <1>4, <1>5, <1>7, <1>11 DEF Shared
<1>. QED  BY <1>0, <1>2, <1>4, <1>7, <1>10, <1>11, <1>12 DEF info

\* With a turn under way, its info is found as it was left.
LEMMA TurnFound ==
  ASSUME SelectionTypeOK, TurnKnown, turn.had # {}
  PROVE  Refreshed(InfoFound) = TurnInfo
<1>1. Shared /\ selected \in available /\ available \subseteq Hosts
  BY DEF TurnKnown, SelectionTypeOK
<1>2. IsCached
  BY <1>1, SelectionAssumption DEF IsCached, Shared
<1>3. InfoUsed = entry[selected]
  <2>. DEFINE having == {h \in available : entry[h] # None}
  <2>1. having # {} /\ having \in SUBSET Hosts
    BY <1>1, <1>2 DEF IsCached
  <2>2. FirstOf(having) \in having
    <3>. HIDE DEF having
    <3>. QED  BY <2>1, FirstIsOne
  <2>. QED  BY <1>1, <2>1, <2>2 DEF InfoUsed, Shared
<1>4. InfoFound = TurnInfo
  BY <1>2, <1>3 DEF InfoFound, TurnInfo
<1>. QED  BY <1>1, <1>4 DEF Refreshed, Shared

\* What one call of GetHost does to the turn under way, if any.
LEMMA TurnGoesOn ==
  ASSUME SelectionTypeOK, InfosCounted, TurnKnown, turn.had # {}, SelectRoundRobin
  PROVE  /\ TurnInfo'.weights = TurnInfo.weights
         /\ \/ /\ TurnInfo.weightCounter > 0 /\ selected' = selected
               /\ TurnInfo'.weightCounter = TurnInfo.weightCounter - 1
               /\ turn' = [turn EXCEPT !.times = turn.times + 1]
            \/ /\ TurnInfo.weightCounter = 0 /\ selected' = NextInTurn(selected)
               /\ TurnInfo'.weightCounter = Weight(TurnInfo.weights, selected') - 1
               /\ turn' = [had |-> IF turn.had = available THEN {selected'} ELSE turn.had \cup {selected'},
                           times |-> 1]
<1>. DEFINE info == RoundRobin(Refreshed(InfoFound))
<1>1. Refreshed(InfoFound) = TurnInfo
  BY TurnFound
<1>2. InfoFound \in ClusterInfos /\ Counted(InfoFound) /\ TurnInfo' = info /\ selected' = info.lastHost
  BY InfoShared
<1>3. TurnInfo \in ClusterInfos /\ Counted(TurnInfo) /\ available # {}
  BY <1>1, <1>2, RefreshedType, RefreshedCounted DEF SelectRoundRobin
<1>4. /\ info.weights = TurnInfo.weights
      /\ IF TurnInfo.weightCounter > 0 /\ TurnInfo.lastHost \in available
           THEN /\ info.lastHost = TurnInfo.lastHost /\ info.weightCounter = TurnInfo.weightCounter - 1
                /\ info.weightCounter # Weight(info.weights, info.lastHost) - 1
           ELSE /\ info.lastHost = NextInTurn(TurnInfo.lastHost)
                /\ info.weightCounter = Weight(info.weights, info.lastHost) - 1
  BY <1>1, <1>3, RoundRobinCases
<1>5. TurnInfo.lastHost = selected /\ selected \in available /\ TurnInfo.weightCounter \in Nat
  BY <1>3, SelectionAssumption DEF TurnKnown, Shared, ClusterInfos
<1>6. turn' = IF info.weightCounter # Weight(info.weights, info.lastHost) - 1 /\ info.lastHost = selected
                THEN [turn EXCEPT !.times = turn.times + 1]
              ELSE IF turn.had = available THEN [had |-> {info.lastHost}, times |-> 1]
              ELSE [had |-> turn.had \cup {info.lastHost}, times |-> 1]
  BY DEF SelectRoundRobin
<1>. HIDE DEF info
<1>7. CASE TurnInfo.weightCounter > 0
  BY <1>2, <1>4, <1>5, <1>6, <1>7
<1>8. CASE TurnInfo.weightCounter = 0
  BY <1>2, <1>4, <1>5, <1>6, <1>8
<1>. QED  BY <1>5, <1>7, <1>8

\* A call of the round robin selector keeps account of the turns.
LEMMA SelectTurns ==
  ASSUME SelectionTypeOK, InfosCounted, TurnKnown, SelectRoundRobin
  PROVE  InfosCounted' /\ TurnKnown'
<1>. DEFINE info == RoundRobin(Refreshed(InfoFound))
<1>1. /\ InfosCounted' /\ selected' = info.lastHost /\ selected' \in available'
      /\ Shared' /\ TurnInfo' = info /\ InfoFound \in ClusterInfos /\ Counted(InfoFound)
  BY InfoShared
<1>2. /\ strategy' = "roundRobin" /\ available' = available /\ available \subseteq Hosts
      /\ available # {} /\ strategy = "roundRobin"
  BY DEF SelectRoundRobin, SelectionTypeOK
<1>3. \A s, t : Stretch(s, t)' = Stretch(s, t)
  BY <1>2 DEF Stretch
<1>4. info \in ClusterInfos /\ Counted(info)
  BY <1>1, <1>2, RefreshedType, RefreshedCounted, RoundRobinCases
<1>5. TurnInfo'.weightCounter \in Nat /\ Weight(TurnInfo'.weights, selected') \in Nat \ {0}
  <2>. HIDE DEF info
  <2>. QED  BY <1>1, <1>2, <1>4, WeightType, InfoFields
<1>6. TurnInfo'.weightCounter < Weight(TurnInfo'.weights, selected')
  <2>. HIDE DEF info
  <2>. QED  BY <1>1, <1>2, <1>4 DEF Counted
<1>7. CASE turn.had # {}
  <2>1. PICK s \in available : turn.had = Stretch(s, selected)
    BY <1>7 DEF TurnKnown
  <2>2. /\ selected \in available /\ TurnCounted /\ turn \in [had : SUBSET Hosts, times : Nat]
        /\ TurnInfo.weightCounter \in Nat /\ Weight(TurnInfo.weights, selected) \in Nat
    <3>1. selected \in available /\ Shared /\ TurnCounted /\ turn \in [had : SUBSET Hosts, times : Nat]
      BY <1>7 DEF TurnKnown, SelectionTypeOK
    <3>2. TurnInfo \in ClusterInfos
      BY <3>1 DEF Shared, TurnInfo, SelectionTypeOK
    <3>. QED  BY <1>2, <3>1, <3>2, WeightType, SelectionAssumption DEF ClusterInfos
  <2>3. CASE /\ TurnInfo.weightCounter > 0 /\ selected' = selected
             /\ TurnInfo'.weightCounter = TurnInfo.weightCounter - 1
             /\ turn' = [turn EXCEPT !.times = turn.times + 1]
    <3>1. turn'.had = turn.had /\ turn'.times = turn.times + 1
      BY <2>2, <2>3
    <3>2. TurnInfo'.weights = TurnInfo.weights
      BY <1>7, TurnGoesOn
    <3>3. TurnCounted'
      BY <2>2, <2>3, <3>1, <3>2 DEF TurnCounted
    <3>4. \E x \in available' : turn'.had = Stretch(x, selected)'
      BY <1>2, <1>3, <2>1, <2>3, <3>1
    <3>. QED  BY <1>1, <1>2, <3>3, <3>4 DEF TurnKnown
  <2>4. CASE /\ selected' = NextInTurn(selected)
             /\ TurnInfo'.weightCounter = Weight(TurnInfo.weights, selected') - 1
             /\ turn' = [had |-> IF turn.had = available THEN {selected'} ELSE turn.had \cup {selected'},
                         times |-> 1]
    <3>2. TurnInfo'.weights = TurnInfo.weights
      BY <1>7, TurnGoesOn
    <3>3. TurnCounted'
      BY <1>5, <2>4, <3>2 DEF TurnCounted
    <3>. DEFINE n == NextInTurn(selected)
    <3>4. /\ Stretch(n, n) = {n}
          /\ n \in Stretch(s, selected) => Stretch(s, selected) = available
          /\ n \notin Stretch(s, selected) => Stretch(s, n) = Stretch(s, selected) \cup {n}
      BY <1>2, <2>1, <2>2, StretchGrows
    <3>. HIDE DEF n
    <3>5. n = selected' /\ turn'.had = IF turn.had = available THEN {n} ELSE turn.had \cup {n}
      BY <2>4 DEF n
    <3>6. \E x \in available : turn'.had = Stretch(x, n)
      BY <1>1, <1>2, <2>1, <3>4, <3>5
    <3>7. \E x \in available' : turn'.had = Stretch(x, selected)'
      BY <1>2, <1>3, <3>5, <3>6 DEF Stretch
    <3>. QED  BY <1>1, <1>2, <3>3, <3>7 DEF TurnKnown
  <2>. QED  BY <1>7, <2>3, <2>4, TurnGoesOn
<1>8. CASE turn.had = {}
  <2>. SUFFICES ASSUME turn'.had # {} PROVE TurnKnown'
    BY <1>1 DEF TurnKnown
  <2>1. turn' = IF info.weightCounter # Weight(info.weights, info.lastHost) - 1 /\ info.lastHost = selected
                  THEN [turn EXCEPT !.times = turn.times + 1]
                ELSE IF turn.had = available THEN [had |-> {info.lastHost}, times |-> 1]
                ELSE [had |-> turn.had \cup {info.lastHost}, times |-> 1]
    BY DEF SelectRoundRobin
  <2>. HIDE DEF info
  <2>2. turn'.had = {selected'} /\ turn'.times = 1
    BY <1>1, <1>2, <1>8, <2>1 DEF SelectionTypeOK
  <2>3. TurnCounted'
    BY <1>5, <1>6, <2>2 DEF TurnCounted
  <2>4. Stretch(selected', selected') = {selected'}
    <3>1. \A h \in available : Position[h] \in Nat
      BY <1>2, PositionType
    <3>2. \A h, k \in available : Position[h] = Position[k] => h = k
      BY <1>2, PositionInjective
    <3>. QED  BY <1>1, <1>2, <3>1, <3>2 DEF Stretch
  <2>5. \E x \in available' : turn'.had = Stretch(x, selected)'
    BY <1>1, <1>2, <2>2, <2>4 DEF Stretch
  <2>. QED  BY <1>1, <1>2, <2>3, <2>5 DEF TurnKnown
<1>. QED  BY <1>1, <1>7, <1>8

-----------------------------------------------------------------------------
(* Sums of weights *)

\* One step of the sum g of the weights of s, and the function that takes it.
SumStep(map, g, s) ==
  IF s = {} THEN 0 ELSE Weight(map, CHOOSE x \in s : TRUE) + g[s \ {CHOOSE x \in s : TRUE}]
IsSum(map, D, g) == g = [s \in D |-> SumStep(map, g, s)]

LEMMA TotalIsSum ==
  ASSUME NEW map, NEW S
  PROVE  TotalWeight(map, S) = (CHOOSE g : IsSum(map, SUBSET S, g))[S]
BY DEF TotalWeight, MapThenSumSet, MapThenFoldSet, IsSum, SumStep

\* The recursion is well founded: sums exist for sets up to any size.
LEMMA SumExists ==
  ASSUME NEW map, NEW S, IsFiniteSet(S)
  PROVE  \E g : IsSum(map, SUBSET S, g)
<1>. DEFINE D(n) == {s \in SUBSET S : Cardinality(s) <= n}
            Q == {n \in Nat : ~ \E g : IsSum(map, D(n), g)}
<1>1. \A s \in SUBSET S : IsFiniteSet(s) /\ Cardinality(s) \in Nat /\ Cardinality(s) <= Cardinality(S)
  BY FS_Subset, FS_CardinalityType
<1>2. ASSUME Q # {} PROVE FALSE
  <2>1. PICK m \in Q : \A k \in Q : m <= k
    <3>1. [n \in Q |-> n] \in [Q -> Nat]
      OBVIOUS
    <3>. HIDE DEF Q
    <3>2. \E h \in Q : \A k \in Q : [n \in Q |-> n][h] <= [n \in Q |-> n][k]
      BY <1>2, <3>1, Smallest
    <3>. QED  BY <3>2
  <2>2. ASSUME m = 0 PROVE FALSE
    <3>1. \A s \in D(0) : s = {}
      BY <1>1, FS_EmptySet
    <3>2. IsSum(map, D(0), [s \in D(0) |-> 0])
      BY <3>1 DEF IsSum, SumStep
    <3>. QED  BY <2>1, <2>2, <3>2
  <2>3. ASSUME m # 0 PROVE FALSE
    <3>1. m - 1 \in Nat /\ m - 1 \notin Q
      <4>1. m \in Nat
        OBVIOUS
      <4>. HIDE DEF Q
      <4>. QED  BY <2>1, <2>3, <4>1
    <3>2. PICK g : IsSum(map, D(m - 1), g)
      BY <3>1
    <3>. DEFINE h == [s \in D(m) |-> SumStep(map, g, s)]
    <3>3. ASSUME NEW s \in D(m) PROVE SumStep(map, g, s) = SumStep(map, h, s)
      <4>1. CASE s = {}
        BY <4>1 DEF SumStep
      <4>2. CASE s # {}
        <5>. DEFINE x == CHOOSE x \in s : TRUE
                    t == s \ {x}
        <5>1. x \in s
          BY <4>2
        <5>2. t \in D(m - 1) /\ t \in D(m)
          <6>1. Cardinality(t) = Cardinality(s) - 1
            BY <1>1, <5>1, FS_RemoveElement
          <6>. QED  BY <1>1, <3>1, <6>1
        <5>3. g[t] = SumStep(map, g, t)
          <6>. HIDE DEF t, D
          <6>. QED  BY <3>2, <5>2 DEF IsSum
        <5>4. h[t] = SumStep(map, g, t)
          <6>. HIDE DEF t, D
          <6>. QED  BY <5>2
        <5>. HIDE DEF h
        <5>. QED  BY <4>2, <5>3, <5>4 DEF SumStep
      <4>. QED  BY <4>1, <4>2
    <3>4. IsSum(map, D(m), h)
      <4>. HIDE DEF D
      <4>. QED  BY <3>3 DEF IsSum
    <3>. QED  BY <2>1, <3>4
  <2>. QED  BY <2>2, <2>3
<1>3. \E g : IsSum(map, D(Cardinality(S)), g)
  <2>1. Cardinality(S) \in Nat
    BY FS_CardinalityType
  <2>. QED  BY <1>2, <2>1
<1>4. D(Cardinality(S)) = SUBSET S
  BY <1>1
<1>. QED  BY <1>3, <1>4

\* All sums agree.
LEMMA SumUnique ==
  ASSUME NEW map, NEW S, IsFiniteSet(S), NEW T \in SUBSET S, NEW g, NEW h,
         IsSum(map, SUBSET S, g), IsSum(map, SUBSET T, h)
  PROVE  \A s \in SUBSET T : g[s] = h[s]
<1>. DEFINE Q == {s \in SUBSET T : g[s] # h[s]}
<1>1. ASSUME Q # {} PROVE FALSE
  <2>0. \A s \in SUBSET T : IsFiniteSet(s) /\ Cardinality(s) \in Nat
    BY FS_Subset, FS_CardinalityType
  <2>1. PICK s \in Q : \A k \in Q : Cardinality(s) <= Cardinality(k)
    <3>1. [n \in Q |-> Cardinality(n)] \in [Q -> Nat]
      BY <2>0
    <3>. HIDE DEF Q
    <3>2. \E x \in Q : \A k \in Q : [n \in Q |-> Cardinality(n)][x] <= [n \in Q |-> Cardinality(n)][k]
      BY <1>1, <3>1, Smallest
    <3>. QED  BY <3>2
  <2>2. g[s] = SumStep(map, g, s) /\ h[s] = SumStep(map, h, s)
    BY DEF IsSum
  <2>3. s # {}
    BY <2>2 DEF SumStep
  <2>. DEFINE x == CHOOSE x \in s : TRUE
  <2>4. x \in s
    BY <2>3
  <2>5. Cardinality(s \ {x}) = Cardinality(s) - 1
    BY <2>0, <2>4, FS_RemoveElement
  <2>6. g[s \ {x}] = h[s \ {x}]
    BY <2>0, <2>1, <2>5
  <2>. QED  BY <2>2, <2>3, <2>6 DEF SumStep
<1>. QED  BY <1>1

\* The total is the sum that any of them computes.
LEMMA TotalOf ==
  ASSUME NEW map, NEW S, IsFiniteSet(S), NEW T \in SUBSET S, NEW g, IsSum(map, SUBSET S, g)
  PROVE  TotalWeight(map, T) = g[T]
<1>. DEFINE h == CHOOSE f : IsSum(map, SUBSET T, f)
<1>1. IsFiniteSet(T)
  BY FS_Subset
<1>2. IsSum(map, SUBSET T, h)
  BY <1>1, SumExists
<1>3. g[T] = h[T]
  <2>. HIDE DEF h
  <2>. QED  BY <1>2, SumUnique, SMTT(30)
<1>. QED  BY <1>3, TotalIsSum

\* The weights of some hosts together: none weigh nothing, and a host that is taken
\* out takes its weight with it.
LEMMA TotalFirst ==
  ASSUME NEW map, NEW S, IsFiniteSet(S)
  PROVE  TotalWeight(map, S) =
           IF S = {} THEN 0
           ELSE Weight(map, CHOOSE x \in S : TRUE) + TotalWeight(map, S \ {CHOOSE x \in S : TRUE})
<1>1. PICK g : IsSum(map, SUBSET S, g)
  BY SumExists
<1>2. g[S] = SumStep(map, g, S)
  BY <1>1 DEF IsSum
<1>3. \A T \in SUBSET S : TotalWeight(map, T) = g[T]
  BY <1>1, TotalOf
<1>. QED  BY <1>2, <1>3 DEF SumStep

LEMMA TotalNone ==
  ASSUME NEW map
  PROVE  TotalWeight(map, {}) = 0
<1>1. IsFiniteSet({})
  BY FS_EmptySet
<1>. QED  BY <1>1, TotalFirst

LEMMA SmallestSet ==
  ASSUME NEW S, IsFiniteSet(S), NEW Q \in SUBSET SUBSET S, Q # {}
  PROVE  \E s \in Q : \A t \in Q : Cardinality(s) <= Cardinality(t)
<1>1. [s \in Q |-> Cardinality(s)] \in [Q -> Nat]
  BY FS_Subset, FS_CardinalityType
<1>2. \E s \in Q : \A t \in Q : [q \in Q |-> Cardinality(q)][s] <= [q \in Q |-> Cardinality(q)][t]
  BY <1>1, Smallest
<1>. QED  BY <1>2

LEMMA TotalType ==
  ASSUME NEW map \in [Hosts -> 0..MaxWeight], NEW S \in SUBSET Hosts, IsFiniteSet(Hosts)
  PROVE  TotalWeight(map, S) \in Nat
<1>. DEFINE Q == {s \in SUBSET Hosts : TotalWeight(map, s) \notin Nat}
<1>0. \A s \in SUBSET Hosts : IsFiniteSet(s) /\ Cardinality(s) \in Nat
  BY FS_Subset, FS_CardinalityType
<1>1. ASSUME Q # {} PROVE FALSE
  <2>1. PICK s \in Q : \A t \in Q : Cardinality(s) <= Cardinality(t)
    BY <1>1, SmallestSet
  <2>. DEFINE x == CHOOSE x \in s : TRUE
  <2>2. TotalWeight(map, s) = IF s = {} THEN 0 ELSE Weight(map, x) + TotalWeight(map, s \ {x})
    BY <1>0, TotalFirst
  <2>3. x \in s
    BY <2>1, <2>2
  <2>4. Cardinality(s \ {x}) = Cardinality(s) - 1
    BY <1>0, <2>3, FS_RemoveElement
  <2>5. TotalWeight(map, s \ {x}) \in Nat
    BY <1>0, <2>1, <2>4
  <2>6. Weight(map, x) \in Nat
    BY <2>3, WeightType
  <2>. QED  BY <2>1, <2>2, <2>5, <2>6
<1>. QED  BY <1>1

\* In whatever order the sum is taken.
LEMMA TotalWithout ==
  ASSUME NEW map \in [Hosts -> 0..MaxWeight], NEW S \in SUBSET Hosts, NEW a \in S, IsFiniteSet(Hosts)
  PROVE  TotalWeight(map, S) = Weight(map, a) + TotalWeight(map, S \ {a})
<1>. DEFINE Q == {s \in SUBSET Hosts :
                    \E h \in s : TotalWeight(map, s) # Weight(map, h) + TotalWeight(map, s \ {h})}
<1>0. \A s \in SUBSET Hosts : IsFiniteSet(s) /\ Cardinality(s) \in Nat
  BY FS_Subset, FS_CardinalityType
<1>1. ASSUME Q # {} PROVE FALSE
  <2>1. PICK s \in Q : \A t \in Q : Cardinality(s) <= Cardinality(t)
    BY <1>1, SmallestSet
  <2>2. PICK h \in s : TotalWeight(map, s) # Weight(map, h) + TotalWeight(map, s \ {h})
    OBVIOUS
  <2>. DEFINE x == CHOOSE x \in s : TRUE
  <2>3. TotalWeight(map, s) = Weight(map, x) + TotalWeight(map, s \ {x})
    BY <1>0, TotalFirst
  <2>4. x \in s /\ x # h
    BY <2>2, <2>3
  <2>. HIDE DEF x
  <2>5. ASSUME NEW y \in s, NEW z \in s, z # y
        PROVE  TotalWeight(map, s \ {y}) = Weight(map, z) + TotalWeight(map, (s \ {y}) \ {z})
    <3>1. Cardinality(s \ {y}) = Cardinality(s) - 1
      BY <1>0, FS_RemoveElement
    <3>2. s \ {y} \in SUBSET Hosts /\ s \ {y} \notin Q
      <4>1. s \in SUBSET Hosts /\ s \ {y} \in SUBSET Hosts
        OBVIOUS
      <4>. HIDE DEF Q
      <4>. QED  BY <1>0, <2>1, <3>1, <4>1
    <3>. QED  BY <2>5, <3>2
  <2>6. (s \ {x}) \ {h} = (s \ {h}) \ {x}
    OBVIOUS
  <2>7. /\ TotalWeight(map, s \ {x}) = Weight(map, h) + TotalWeight(map, (s \ {h}) \ {x})
        /\ TotalWeight(map, s \ {h}) = Weight(map, x) + TotalWeight(map, (s \ {h}) \ {x})
    BY <2>4, <2>5, <2>6
  <2>8. Weight(map, h) \in Nat /\ Weight(map, x) \in Nat /\ TotalWeight(map, (s \ {h}) \ {x}) \in Nat
    <3>1. (s \ {h}) \ {x} \in SUBSET Hosts /\ h \in Hosts /\ x \in Hosts
      BY <2>4
    <3>. QED  BY <3>1, WeightType, TotalType
  <2>. QED  BY <2>2, <2>3, <2>7, <2>8
<1>. QED  BY <1>1

\* More hosts weigh more.
LEMMA TotalGrows ==
  ASSUME NEW map \in [Hosts -> 0..MaxWeight], NEW S \in SUBSET Hosts, NEW T \in SUBSET S, IsFiniteSet(Hosts)
  PROVE  TotalWeight(map, T) <= TotalWeight(map, S)
<1>. DEFINE Q == {s \in SUBSET Hosts : T \subseteq s /\ ~ (TotalWeight(map, T) <= TotalWeight(map, s))}
<1>0. \A s \in SUBSET Hosts : IsFiniteSet(s) /\ Cardinality(s) \in Nat
  BY FS_Subset, FS_CardinalityType
<1>1. ASSUME Q # {} PROVE FALSE
  <2>1. PICK s \in Q : \A t \in Q : Cardinality(s) <= Cardinality(t)
    BY <1>1, SmallestSet
  <2>2. T \in SUBSET Hosts /\ s \in SUBSET Hosts
    OBVIOUS
  <2>3. TotalWeight(map, s) \in Nat /\ TotalWeight(map, T) \in Nat
    BY <2>2, TotalType
  <2>4. PICK x \in s : x \notin T
    BY <2>3
  <2>5. TotalWeight(map, s) = Weight(map, x) + TotalWeight(map, s \ {x})
    BY TotalWithout
  <2>6. Cardinality(s \ {x}) = Cardinality(s) - 1
    BY <1>0, FS_RemoveElement
  <2>7. TotalWeight(map, T) <= TotalWeight(map, s \ {x})
    BY <1>0, <2>1, <2>4, <2>6
  <2>8. Weight(map, x) \in Nat /\ TotalWeight(map, s \ {x}) \in Nat
    BY <2>2, WeightType, TotalType
  <2>. QED  BY <2>3, <2>5, <2>7, <2>8
<1>. QED  BY <1>1

-----------------------------------------------------------------------------
(* Ranges of numbers *)

\* Some hosts have a last one.
LEMMA LastExists ==
  ASSUME NEW S \in SUBSET Hosts, S # {}
  PROVE  \E h \in S : \A k \in S : Position[k] <= Position[h]
<1>1. Len(HostOrder) \in Nat /\ \A h \in Hosts : Position[h] \in 1..Len(HostOrder)
  <2>1. ASSUME NEW h \in Hosts PROVE \E i \in 1..Len(HostOrder) : HostOrder[i] = h
    BY SelectionAssumption DEF ToSet
  <2>. QED  BY <2>1, SelectionAssumption DEF Position
<1>. DEFINE f == [h \in S |-> Len(HostOrder) - Position[h]]
<1>2. f \in [S -> Nat]
  BY <1>1
<1>3. PICK h \in S : \A k \in S : f[h] <= f[k]
  <2>. HIDE DEF f
  <2>. QED  BY <1>2, Smallest
<1>4. ASSUME NEW k \in S PROVE Position[k] <= Position[h]
  BY <1>1, <1>3
<1>. QED  BY <1>4

\* The eligible hosts before a host, and those up to it.
Before(h) == {k \in available : Position[k] < Position[h]}
UpTo(h) == {k \in available : Position[k] <= Position[h]}

\* A range begins where the weights before the host end, and ends with its own.
LEMMA RangeEnds ==
  ASSUME available \subseteq Hosts, NEW map \in [Hosts -> 0..MaxWeight], NEW h \in available
  PROVE  /\ RangeStart(map, h) = 1 + TotalWeight(map, Before(h))
         /\ RangeStart(map, h) + Weight(map, h) = 1 + TotalWeight(map, UpTo(h))
         /\ TotalWeight(map, Before(h)) \in Nat /\ TotalWeight(map, UpTo(h)) \in Nat
         /\ TotalWeight(map, UpTo(h)) <= TotalWeight(map, available)
<1>1. \A k \in available : Position[k] \in Nat /\ (Position[k] = Position[h] => k = h)
  BY PositionType, PositionInjective
<1>2. UpTo(h) \ {h} = Before(h) /\ h \in UpTo(h)
  BY <1>1 DEF UpTo, Before
<1>3. UpTo(h) \in SUBSET available /\ UpTo(h) \in SUBSET Hosts /\ Before(h) \in SUBSET Hosts
  BY DEF UpTo, Before
<1>4. TotalWeight(map, UpTo(h)) = Weight(map, h) + TotalWeight(map, Before(h))
  BY <1>2, <1>3, TotalWithout, HostsFinite
<1>5. /\ TotalWeight(map, Before(h)) \in Nat /\ TotalWeight(map, UpTo(h)) \in Nat
      /\ TotalWeight(map, UpTo(h)) <= TotalWeight(map, available)
  BY <1>3, TotalType, TotalGrows, HostsFinite
<1>6. RangeStart(map, h) = 1 + TotalWeight(map, Before(h))
  BY DEF RangeStart, Before
<1>7. Weight(map, h) \in Nat
  BY WeightType
<1>. QED  BY <1>4, <1>5, <1>6, <1>7

\* Ranges follow each other and do not overlap.
LEMMA RangesApart ==
  ASSUME available \subseteq Hosts, NEW map \in [Hosts -> 0..MaxWeight],
         NEW h \in available, NEW k \in available, Position[h] < Position[k]
  PROVE  RangeStart(map, h) + Weight(map, h) <= RangeStart(map, k)
<1>1. \A x \in available : Position[x] \in Nat
  BY PositionType
<1>2. UpTo(h) \in SUBSET Before(k) /\ Before(k) \in SUBSET Hosts
  BY <1>1 DEF UpTo, Before
<1>3. TotalWeight(map, UpTo(h)) <= TotalWeight(map, Before(k))
  BY <1>2, TotalGrows, HostsFinite
<1>. QED  BY <1>3, RangeEnds

\* Every number is in some range.
LEMMA RangesCover ==
  ASSUME available \subseteq Hosts, NEW map \in [Hosts -> 0..MaxWeight], NEW n \in RandomNumbers(map)
  PROVE  WeightedRandom(map, n) # {}
<1>1. \A x \in available : Position[x] \in Nat
  BY PositionType
<1>2. /\ TotalWeight(map, available) \in Nat /\ n \in Nat
      /\ 1 <= n /\ n <= TotalWeight(map, available)
  BY TotalType, HostsFinite DEF RandomNumbers
<1>3. available # {}
  BY <1>2, TotalNone
<1>. DEFINE C == {h \in available : n < RangeStart(map, h) + Weight(map, h)}
<1>4. C # {}
  <2>1. PICK h \in available : \A k \in available : Position[k] <= Position[h]
    BY <1>3, LastExists
  <2>2. UpTo(h) = available
    BY <2>1 DEF UpTo
  <2>3. n < RangeStart(map, h) + Weight(map, h)
    BY <1>2, <2>2, RangeEnds
  <2>. QED  BY <2>3
<1>5. PICK h \in C : \A k \in C : Position[h] <= Position[k]
  <2>1. C \in SUBSET Hosts
    OBVIOUS
  <2>. HIDE DEF C
  <2>. QED  BY <1>4, <2>1, FirstIsLowest
<1>6. RangeStart(map, h) <= n
  <2>1. CASE Before(h) = {}
    BY <1>2, <2>1, RangeEnds, TotalNone
  <2>2. CASE Before(h) # {}
    <3>1. PICK p \in Before(h) : \A k \in Before(h) : Position[k] <= Position[p]
      <4>1. Before(h) \in SUBSET Hosts
        BY DEF Before
      <4>. QED  BY <2>2, <4>1, LastExists
    <3>2. p \in available /\ UpTo(p) = Before(h)
      BY <1>1, <3>1 DEF Before, UpTo
    <3>3. p \notin C
      <4>. HIDE DEF C
      <4>1. h \in available
        BY DEF C
      <4>. QED  BY <1>1, <1>5, <3>1, <3>2, <4>1 DEF Before
    <3>4. RangeStart(map, p) + Weight(map, p) = RangeStart(map, h) /\ RangeStart(map, h) \in Nat
      BY <3>2, RangeEnds
    <3>. QED  BY <1>2, <3>2, <3>3, <3>4
  <2>. QED  BY <2>1, <2>2
<1>. QED  BY <1>6 DEF WeightedRandom

\* The ranges of the eligible hosts divide the random numbers, and each has as many
\* as the host's weight.
LEMMA WeightsDivide == SelectionTypeOK => WeightsRespected
<1>. SUFFICES ASSUME SelectionTypeOK PROVE WeightsRespected
  OBVIOUS
<1>. DEFINE map == hostWeightMap
<1>0. available \subseteq Hosts /\ map \in [Hosts -> 0..MaxWeight]
  BY DEF SelectionTypeOK
<1>. HIDE DEF map
<1>1. ASSUME NEW n \in RandomNumbers(map) PROVE Cardinality(WeightedRandom(map, n)) = 1
  <2>1. PICK h : h \in WeightedRandom(map, n)
    BY <1>0, RangesCover
  <2>2. ASSUME NEW k \in WeightedRandom(map, n) PROVE k = h
    <3>1. /\ h \in available /\ RangeStart(map, h) <= n /\ n < RangeStart(map, h) + Weight(map, h)
          /\ k \in available /\ RangeStart(map, k) <= n /\ n < RangeStart(map, k) + Weight(map, k)
      BY <2>1, <2>2 DEF WeightedRandom
    <3>2. /\ n \in Nat /\ RangeStart(map, h) \in Nat /\ RangeStart(map, k) \in Nat
          /\ Weight(map, h) \in Nat /\ Weight(map, k) \in Nat
      BY <1>0, <3>1, RangeEnds, WeightType, TotalType, HostsFinite DEF RandomNumbers
    <3>3. ~ (Position[h] < Position[k]) /\ ~ (Position[k] < Position[h])
      BY <1>0, <3>1, <3>2, RangesApart
    <3>4. Position[h] \in Nat /\ Position[k] \in Nat
      BY <1>0, <3>1, PositionType
    <3>. QED  BY <1>0, <3>1, <3>3, <3>4, PositionInjective
  <2>3. WeightedRandom(map, n) = {h}
    BY <2>1, <2>2
  <2>. QED  BY <2>3, FS_Singleton
<1>2. ASSUME NEW h \in available
      PROVE  Cardinality({n \in RandomNumbers(map) : h \in WeightedRandom(map, n)}) = Weight(map, h)
  <2>. DEFINE a == RangeStart(map, h)
              w == Weight(map, h)
  <2>1. a \in Nat \ {0} /\ w \in Nat \ {0} /\ a + w <= 1 + TotalWeight(map, available)
    BY <1>0, RangeEnds, WeightType, TotalType, HostsFinite
  <2>2. TotalWeight(map, available) \in Nat
    BY <1>0, TotalType, HostsFinite
  <2>. HIDE DEF a, w
  <2>3. {n \in RandomNumbers(map) : h \in WeightedRandom(map, n)} = a..(a + w - 1)
    <3>1. ASSUME NEW n \in RandomNumbers(map)
          PROVE  h \in WeightedRandom(map, n) <=> a <= n /\ n < a + w
      BY DEF WeightedRandom, a, w
    <3>2. RandomNumbers(map) = 1..TotalWeight(map, available)
      BY DEF RandomNumbers
    <3>3. ASSUME NEW n \in a..(a + w - 1) PROVE n \in RandomNumbers(map) /\ a <= n /\ n < a + w
      BY <2>1, <2>2, <3>2, <3>3
    <3>4. ASSUME NEW n \in RandomNumbers(map), a <= n, n < a + w PROVE n \in a..(a + w - 1)
      BY <2>1, <2>2, <3>2, <3>4
    <3>. QED  BY <3>1, <3>3, <3>4
  <2>4. Cardinality(a..(a + w - 1)) = w
    BY <2>1, FS_Interval
  <2>. QED  BY <2>3, <2>4 DEF w
<1>. QED  BY <1>1, <1>2 DEF WeightsRespected, map

=============================================================================
