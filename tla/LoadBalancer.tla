----------------------------- MODULE LoadBalancer -----------------------------
(***************************************************************************)
(* LoadBalancerService for one service: its instances with their health,    *)
(* weight, response time and open connections, and the index that round     *)
(* robin and weighted round robin share.  Instances are listed in the order *)
(* they were registered; those that are healthy are taken by their place.   *)
(***************************************************************************)
EXTENDS Integers, Sequences, FiniteSets, FiniteSetsExt

CONSTANTS Urls,       \* instances that may be registered
          Weights,    \* weights an instance may have; 0 stands for "not given"
          MaxIndex,   \* bound: requests routed
          MaxOpen     \* bound: connections of an instance

ASSUME WeightsAssumption == Weights \subseteq Nat

VARIABLES instances,  \* serviceInstances: a sequence of records
          index,      \* roundRobinIndexes
          served      \* history: picks of each instance since the last change, per strategy

lbVars == <<instances, index, served>>

Fresh == [mode |-> "none", picks |-> [u \in Urls |-> 0]]

LBInit == instances = <<>> /\ index = 0 /\ served = Fresh

\* The places of the healthy instances, and of those that come before one.
Healthy == {k \in DOMAIN instances : instances[k].healthy}
Earlier(k) == {j \in Healthy : j < k}

Weight == [k \in DOMAIN instances |-> IF instances[k].weight = 0 THEN 1 ELSE instances[k].weight]
TotalWeight(places) == MapThenSumSet(LAMBDA k : Weight[k], places)

Registered(u) == \E k \in DOMAIN instances : instances[k].url = u
Change(u, f(_)) ==
    [k \in DOMAIN instances |-> IF instances[k].url = u THEN f(instances[k]) ELSE instances[k]]

RegisterInstance(u, w) ==
    /\ instances' = IF Registered(u) THEN Change(u, LAMBDA i : [i EXCEPT !.weight = w])
                    ELSE Append(instances, [url |-> u, healthy |-> TRUE, weight |-> w,
                                            slow |-> 0, open |-> 0])
    /\ served' = Fresh
    /\ UNCHANGED index

UpdateInstanceHealth(u, healthy, slow) ==
    /\ Registered(u)
    /\ instances' = Change(u, LAMBDA i : [i EXCEPT !.healthy = healthy, !.slow = slow])
    /\ served' = Fresh
    /\ UNCHANGED index

Picked(mode, k) ==
    served' = LET now == IF served.mode = mode THEN served ELSE [Fresh EXCEPT !.mode = mode]
              IN  [now EXCEPT !.picks[instances[k].url] = @ + 1]

RoundRobin_FixedIndex ==
    \E k \in Healthy :
        /\ index < MaxIndex
        /\ Earlier(k) = {}
        /\ Picked("roundRobin", k)
        /\ index' = index + 1
        /\ UNCHANGED instances

\* The healthy instance at position index modulo their number.
RoundRobin ==
    \E k \in Healthy :
        /\ index < MaxIndex
        /\ Cardinality(Earlier(k)) = index % Cardinality(Healthy)
        /\ Picked("roundRobin", k)
        /\ index' = index + 1
        /\ UNCHANGED instances

\* The first instance whose cumulated weight exceeds the position.
WeightedRoundRobin ==
    \E k \in Healthy :
        /\ index < MaxIndex
        /\ LET position == index % TotalWeight(Healthy)
           IN  /\ position >= TotalWeight(Earlier(k))
               /\ position < TotalWeight(Earlier(k) \cup {k})
        /\ Picked("weighted", k)
        /\ index' = index + 1
        /\ UNCHANGED instances

\* The first of the least loaded; the connections are counted by the caller.
LeastConnections ==
    \E k \in Healthy :
        /\ \A j \in Healthy : instances[k].open <= instances[j].open
        /\ \A j \in Earlier(k) : instances[k].open < instances[j].open
        /\ instances[k].open < MaxOpen
        /\ instances' = Change(instances[k].url, LAMBDA i : [i EXCEPT !.open = @ + 1])
        /\ UNCHANGED <<index, served>>

\* The caller's address, summed up by octets, modulo the healthy instances.
IpHash(hash) ==
    \E k \in Healthy :
        /\ Cardinality(Earlier(k)) = hash % Cardinality(Healthy)
        /\ served' = [Fresh EXCEPT !.mode = "ipHash", !.picks[instances[k].url] = 1]
        /\ UNCHANGED <<instances, index>>

\* The first of the fastest.
HealthBased ==
    \E k \in Healthy :
        /\ \A j \in Healthy : instances[k].slow <= instances[j].slow
        /\ \A j \in Earlier(k) : instances[k].slow < instances[j].slow
        /\ served' = [Fresh EXCEPT !.mode = "healthBased", !.picks[instances[k].url] = 1]
        /\ UNCHANGED <<instances, index>>

DecrementConnections(u) ==
    /\ Registered(u)
    /\ instances' = Change(u, LAMBDA i : [i EXCEPT !.open = IF @ > 0 THEN @ - 1 ELSE @])
    /\ UNCHANGED <<index, served>>

LBNext ==
    \/ \E u \in Urls, w \in Weights : RegisterInstance(u, w)
    \/ \E u \in Urls, healthy \in BOOLEAN, slow \in 0 .. 1 : UpdateInstanceHealth(u, healthy, slow)
    \/ RoundRobin \/ WeightedRoundRobin \/ LeastConnections \/ HealthBased
    \/ \E hash \in 0 .. 3 : IpHash(hash)
    \/ \E u \in Urls : DecrementConnections(u)

LBSpec == LBInit /\ [][LBNext]_lbVars

(***************************************************************************)
(* Nobody is starved: between two changes of the instances, round robin    *)
(* picks any two healthy instances equally often but for one, and the      *)
(* weighted form in proportion to their weights but for one round - from   *)
(* whatever index the other strategy, or an instance that left, left.      *)
(***************************************************************************)
FairShare ==
    \A j, k \in Healthy :
        LET a == served.picks[instances[j].url]
            b == served.picks[instances[k].url]
        IN  CASE served.mode = "roundRobin" -> a - b <= 1
              [] served.mode = "weighted" -> a * Weight[k] - b * Weight[j] <= Weight[j] * Weight[k]
              [] OTHER -> TRUE

==============================================================================
