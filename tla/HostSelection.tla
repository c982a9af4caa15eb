---------------------------- MODULE HostSelection ----------------------------
(***************************************************************************)
(* The host selectors: random, highest weight, weighted random and round   *)
(* robin.  The last two keep a state of their own: the weighted random     *)
(* selector the weights it has read, the round robin selector, shared by   *)
(* the whole process, a RoundRobinClusterInfo found under every host of    *)
(* the cluster in a cache whose entries expire one by one.                 *)
(*                                                                         *)
(* A weight property is a function from hosts to weights, 0 for a host it  *)
(* does not list (such a host has the default weight, 1), or Invalid.      *)
(***************************************************************************)
EXTENDS Naturals, Sequences, FiniteSets, SequencesExt

CONSTANTS
  Hosts,
  HostOrder,     \* the hosts, sorted by name
  None,
  Invalid,       \* a weight property that is not a list of host:weight pairs
  MaxWeight,
  WeightSets,    \* values of the weight properties
  Strategies

ASSUME SelectionAssumption ==
  /\ None \notin Hosts /\ Hosts # {}
  /\ HostOrder \in Seq(Hosts)
  /\ ToSet(HostOrder) = Hosts /\ Len(HostOrder) = Cardinality(Hosts)
  /\ MaxWeight \in Nat \ {0}
  /\ WeightSets \subseteq [Hosts -> 0..MaxWeight] \cup {Invalid}
  /\ Invalid \notin [Hosts -> 0..MaxWeight]
  /\ [h \in Hosts |-> 0] \in WeightSets   \* no weight property is given at first
  /\ Strategies \subseteq {"random", "highestWeight", "weightedRandom", "roundRobin"}

VARIABLES
  strategy,    \* the strategy in use
  available,   \* the hosts that are AVAILABLE and have the role asked for
  weights,     \* the weight property (for highestWeight: HostInfo.Weight)
  hostWeightMap, \* weighted random: the weights read so far
  entry,       \* round robin: each host's RoundRobinClusterInfo in the cache
  clusterInfo, \* the infos: property value seen, weights, lastHost, weightCounter
  selected,    \* the host selected last, None after an error
  turn         \* for the properties: the hosts that had a turn since a change,
               \* and how often the last one was selected

selection ==
  <<strategy, available, weights, hostWeightMap, entry, clusterInfo, selected, turn>>

NoWeights == [h \in Hosts |-> 0]
NoInfo == [seen |-> NoWeights, weights |-> NoWeights, lastHost |-> None, weightCounter |-> 0]
NoTurn == [had |-> {}, times |-> 0]

ClusterInfos ==
  [seen : WeightSets, weights : [Hosts -> 0..MaxWeight], lastHost : Hosts \cup {None},
   weightCounter : 0..MaxWeight]

SelectionTypeOK ==
  /\ strategy \in Strategies /\ available \subseteq Hosts /\ weights \in WeightSets
  /\ hostWeightMap \in [Hosts -> 0..MaxWeight]
  /\ entry \in [Hosts -> Hosts \cup {None}] /\ clusterInfo \in [Hosts -> ClusterInfos]
  /\ selected \in Hosts \cup {None}
  /\ turn \in [had : SUBSET Hosts, times : Nat]

SelectionInit(s, hosts) ==
  /\ strategy = s /\ available = hosts
  /\ weights = NoWeights /\ hostWeightMap = NoWeights
  /\ entry = [h \in Hosts |-> None] /\ clusterInfo = [i \in Hosts |-> NoInfo]
  /\ selected = None /\ turn = NoTurn

\* slices.SortFunc of the round robin selector, of the hosts that utils.FilterSlice
\* leaves; the other selectors take the hosts in some order too.
Position == [h \in Hosts |-> CHOOSE i \in 1..Len(HostOrder) : HostOrder[i] = h]
FirstOf(S) == CHOOSE h \in S : \A k \in S : Position[h] <= Position[k]

\* MUTANT of Weight: the default weight is forgotten.
ListedWeight(map, h) == map[h]

Weight(map, h) == IF map[h] = 0 THEN 1 ELSE map[h]

\* The first of the eligible hosts that no host outweighs.
HighestWeight ==
  FirstOf({h \in available : \A k \in available : weights[k] <= weights[h]})

\* The weights of some hosts together.
TotalWeight(map, S) == MapThenSumSet(LAMBDA h : Weight(map, h), S)

\* MUTANT of RangeStart: the first range begins at 0.
RangeStartTooSoon(map, h) == TotalWeight(map, {k \in available : Position[k] < Position[h]})

\* The numbers of each eligible host: one range after the other, from 1.
RangeStart(map, h) == 1 + TotalWeight(map, {k \in available : Position[k] < Position[h]})

\* randomNumberFunc(count - 1) + 1
RandomNumbers(map) == 1..TotalWeight(map, available)

\* The hosts whose NumberRange holds n.
WeightedRandom(map, n) ==
  {h \in available : RangeStart(map, h) <= n /\ n < RangeStart(map, h) + Weight(map, h)}

\* The weights are read from the properties as long as none were found.
ReadHostWeights == IF hostWeightMap = NoWeights THEN weights ELSE hostWeightMap

-----------------------------------------------------------------------------
(* RoundRobinHostSelector.GetHost, under its mutex.                        *)

\* createCacheEntryForHosts takes the info of the first eligible host that has
\* one, or a new one.
InfoUsed ==
  LET having == {h \in available : entry[h] # None}
  IN  IF having # {} THEN entry[FirstOf(having)]
      ELSE CHOOSE i \in Hosts : \A h \in Hosts : entry[h] # i

IsCached == \E h \in available : entry[h] # None

InfoFound == IF IsCached THEN clusterInfo[InfoUsed] ELSE NoInfo

\* updateCachedHostWeightPairsProps...: an empty property clears the weights, one
\* with pairs is merged into them, an invalid one leaves them.
MergedWeights(old) ==
  CASE weights = Invalid -> old
    [] weights = NoWeights -> NoWeights
    [] OTHER -> [h \in Hosts |-> IF weights[h] = 0 THEN old[h] ELSE weights[h]]

\* A changed property starts the rounds again; it counts as seen although it may
\* be invalid.
Refreshed(info) ==
  IF info.seen = weights THEN info
  ELSE [seen |-> weights, weights |-> MergedWeights(info.weights),
        lastHost |-> None, weightCounter |-> 0]

\* The eligible hosts after h, none if h is not eligible itself.
After(h) == {k \in available : h \in available /\ Position[k] > Position[h]}

\* MUTANT of NextInTurn: the last host is passed over.
SkipLast(h) ==
  LET later == {k \in After(h) : After(k) # {}}
  IN  FirstOf(IF later = {} THEN available ELSE later)

\* The host after the last one, or the first.
NextInTurn(h) == FirstOf(IF After(h) = {} THEN available ELSE After(h))

RoundRobin(info) ==
  IF info.weightCounter > 0 /\ info.lastHost \in available
    THEN [info EXCEPT !.weightCounter = @ - 1]
    ELSE LET h == NextInTurn(info.lastHost)
         IN  [info EXCEPT !.lastHost = h, !.weightCounter = Weight(info.weights, h) - 1]

\* An invalid property is an error: of every call that would create an info, and
\* of the first one that finds it changed.
RoundRobinFails == weights = Invalid /\ (IsCached => InfoFound.seen # Invalid)

SelectRoundRobinFails ==
  /\ strategy = "roundRobin" /\ available # {} /\ RoundRobinFails
  /\ clusterInfo' = IF IsCached THEN [clusterInfo EXCEPT ![InfoUsed] = Refreshed(@)]
                    ELSE clusterInfo
  /\ selected' = None /\ turn' = NoTurn
  /\ UNCHANGED <<strategy, available, weights, hostWeightMap, entry>>

SelectRoundRobin ==
  /\ strategy = "roundRobin" /\ available # {} /\ ~ RoundRobinFails
  /\ LET info  == RoundRobin(Refreshed(InfoFound))
         begins == info.weightCounter = Weight(info.weights, info.lastHost) - 1
     IN
     /\ entry' = [h \in Hosts |-> IF h \in available THEN InfoUsed ELSE entry[h]]
     /\ clusterInfo' = [i \in Hosts |-> CASE i = InfoUsed -> info
                                         [] \A h \in Hosts : entry'[h] # i -> NoInfo
                                         [] OTHER -> clusterInfo[i]]
     /\ selected' = info.lastHost
     /\ turn' = IF ~ begins /\ info.lastHost = selected THEN [turn EXCEPT !.times = @ + 1]
                ELSE IF turn.had = available THEN [had |-> {info.lastHost}, times |-> 1]
                ELSE [had |-> turn.had \cup {info.lastHost}, times |-> 1]
  /\ UNCHANGED <<strategy, available, weights, hostWeightMap>>

-----------------------------------------------------------------------------
(* The other selectors.                                                    *)

SelectRandom ==
  /\ strategy = "random" /\ selected' \in available
  /\ UNCHANGED <<strategy, available, weights, hostWeightMap, entry, clusterInfo, turn>>

SelectHighestWeight ==
  /\ strategy = "highestWeight" /\ available # {}
  /\ selected' = HighestWeight
  /\ UNCHANGED <<strategy, available, weights, hostWeightMap, entry, clusterInfo, turn>>

SelectWeightedRandom ==
  /\ strategy = "weightedRandom"
  /\ IF ReadHostWeights = Invalid THEN selected' = None /\ UNCHANGED hostWeightMap
     ELSE /\ hostWeightMap' = ReadHostWeights
          /\ IF available = {} THEN selected' = None
             ELSE \E n \in RandomNumbers(hostWeightMap') :
                    selected' \in WeightedRandom(hostWeightMap', n)
  /\ UNCHANGED <<strategy, available, weights, entry, clusterInfo, turn>>

\* No eligible host: an error.
SelectNone ==
  /\ available = {} /\ strategy # "weightedRandom" /\ selected' = None
  /\ UNCHANGED <<strategy, available, weights, hostWeightMap, entry, clusterInfo, turn>>

GetHostInfoByStrategy ==
  \/ SelectRandom
  \/ SelectHighestWeight
  \/ SelectWeightedRandom
  \/ SelectRoundRobin
  \/ SelectRoundRobinFails
  \/ SelectNone

-----------------------------------------------------------------------------
(* Availability and properties change, and cache entries expire.           *)

ChangeAvailability(h) ==
  /\ available' = IF h \in available THEN available \ {h} ELSE available \cup {h}
  /\ turn' = NoTurn
  /\ UNCHANGED <<strategy, weights, hostWeightMap, entry, clusterInfo, selected>>

ChangeWeights(w) ==
  /\ w # weights /\ (strategy = "highestWeight" => w # Invalid)
  /\ weights' = w /\ turn' = NoTurn
  /\ UNCHANGED <<strategy, available, hostWeightMap, entry, clusterInfo, selected>>

EntryExpires(h) ==
  /\ entry[h] # None /\ entry' = [entry EXCEPT ![h] = None] /\ turn' = NoTurn
  /\ clusterInfo' = [i \in Hosts |-> IF \A k \in Hosts : entry'[k] # i THEN NoInfo
                                     ELSE clusterInfo[i]]
  /\ UNCHANGED <<strategy, available, weights, hostWeightMap, selected>>

-----------------------------------------------------------------------------
\* While hosts and weights stay the same, the round robin selector selects each
\* eligible host as often in a row as its weight says, and goes round all of them
\* before it comes back to one.  The first turn after a change may be the rest of
\* one that was under way (RoundRobinHostSelector.GetHost).
FairTurns ==
  [][SelectRoundRobin /\ turn.had # {} =>
       LET weight == Weight(clusterInfo'[entry'[selected']].weights, selected) IN
       \/ turn'.times = turn.times + 1 /\ selected' = selected /\ turn.times < weight
       \/ /\ turn.times = weight \/ Cardinality(turn.had) = 1
          /\ IF turn.had = available THEN selected' # selected \/ Cardinality(available) = 1
             ELSE selected' \notin turn.had]_selection

\* Of the random numbers, every eligible host has as many as its weight, and every
\* number leads to one host (WeightedRandomHostSelector.GetHost).
WeightsRespected ==
  /\ \A n \in RandomNumbers(hostWeightMap) : Cardinality(WeightedRandom(hostWeightMap, n)) = 1
  /\ \A h \in available :
       Cardinality({n \in RandomNumbers(hostWeightMap) : h \in WeightedRandom(hostWeightMap, n)})
         = Weight(hostWeightMap, h)

=============================================================================
