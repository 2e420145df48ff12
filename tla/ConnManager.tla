----------------------------- MODULE ConnManager -----------------------------
(***************************************************************************)
(* ConnectionManager (connection_manager.go) and the LoadBalancer inside it *)
(* (load_balancer.go).  Every method holds cm.lock from its first to its    *)
(* last access, so each is one step.  Slices are indexed from 1 here.       *)
(*                                                                         *)
(* The program uses a manager in two ways: the connection pools add, delete *)
(* and get; the list of agents (hackManager) adds, sets weights and gets,   *)
(* and never deletes.                                                       *)
(***************************************************************************)
EXTENDS Integers, Sequences

CONSTANTS
    Conns,              \* the connections or agents; each is added once, as the
                        \* range loop of DeleteConnection needs
    Weights,            \* weights given to UpdateLB
    Uses,               \* the ways it is used: pool, agents
    W                   \* the counters are unsigned, modulo W (2^32 in the code)

ASSUME ConstAssumption ==
    /\ Weights \subseteq Nat
    /\ Uses \subseteq {"pool", "agents"}
    /\ W \in Nat \ {0}

VARIABLES
    connList,           \* cm.connList
    weight, minWeight,  \* the balancer's slices
    totalCount, nowBase,
    lastCount, lastIndex, lastBaseCount,
    use,                \* how this manager is used
    fresh,              \* connections not added so far
    chosen              \* history: what the last GetConnection returned

slices   == <<connList, weight, minWeight, totalCount, nowBase>>
counters == <<lastCount, lastIndex, lastBaseCount>>
vars     == <<connList, weight, minWeight, totalCount, nowBase, lastCount,
              lastIndex, lastBaseCount, use, fresh, chosen>>

Nil == "nil"

TypeOK ==
    /\ connList \in Seq(Conns)
    /\ weight \in Seq(Nat) /\ minWeight \in Seq(Nat)
    /\ totalCount \in Nat /\ nowBase \in Nat
    /\ lastCount \in 0..(W - 1) /\ lastIndex \in 0..(W - 1)
    /\ lastBaseCount \in 0..(W - 1)
    /\ use \in {"pool", "agents"}
    /\ fresh \subseteq Conns
    /\ chosen \in Conns \cup {Nil}

Init ==
    /\ connList = << >> /\ weight = << >> /\ minWeight = << >>
    /\ totalCount = 0 /\ nowBase = 0
    /\ lastCount = 0 /\ lastIndex = 0 /\ lastBaseCount = 0
    /\ use \in Uses /\ fresh = Conns /\ chosen = Nil

-----------------------------------------------------------------------------
(* LoadBalancer                                                             *)

\* Mutant: an existing entry keeps its old share.
UpdateStale(index, w) ==
    IF Len(weight) <= index
      THEN /\ totalCount' = totalCount + 1
           /\ nowBase' = IF index = 0 THEN 100 ELSE nowBase
           /\ minWeight' = Append(minWeight, w \div nowBase')
           /\ weight' = Append(weight, w)
      ELSE /\ weight' = [weight EXCEPT ![index + 1] = w]
           /\ UNCHANGED <<minWeight, totalCount, nowBase>>

\* Update(index, weight): a new entry is appended at the end of both slices;
\* index counts from 0.
Update(index, w) ==
    IF Len(weight) <= index
      THEN /\ totalCount' = totalCount + 1
           /\ nowBase' = IF index = 0 THEN 100 ELSE nowBase
           /\ minWeight' = Append(minWeight, w \div nowBase')
           /\ weight' = Append(weight, w)
      ELSE /\ weight' = [weight EXCEPT ![index + 1] = w]
           /\ minWeight' = [minWeight EXCEPT ![index + 1] = w \div nowBase]
           /\ UNCHANGED <<totalCount, nowBase>>

\* The slice s without its entry at position i (from 1).
Without(s, i) == SubSeq(s, 1, i - 1) \o SubSeq(s, i + 1, Len(s))

\* Mutant: the number of entries is not decremented.
DeleteKeepsTotal(index) ==
    IF Len(weight) <= index
      THEN UNCHANGED <<weight, minWeight, totalCount, nowBase>>
      ELSE /\ weight' = Without(weight, index + 1)
           /\ UNCHANGED <<minWeight, totalCount, nowBase>>

\* Delete(index): the weight goes, its minWeight stays in the slice.
Delete(index) ==
    IF Len(weight) <= index
      THEN UNCHANGED <<weight, minWeight, totalCount, nowBase>>
      ELSE /\ minWeight' = SubSeq(minWeight, 1, index)
                             \o SubSeq(minWeight, index + 1, Len(minWeight))
           /\ weight' = Without(weight, index + 1)
           /\ totalCount' = totalCount - 1
           /\ UNCHANGED nowBase

\* The turn of the current entry is over.
TurnOver(count) ==
    (count - lastBaseCount) % W > minWeight[(lastIndex % totalCount) + 1]

\* Mutant: the turn starts again with the same entry.
GetSameIndex ==
    IF totalCount = 0
      THEN UNCHANGED counters
      ELSE LET newCount == (lastCount + 1) % W IN
           /\ lastCount' = newCount
           /\ lastBaseCount' = IF TurnOver(newCount) THEN newCount ELSE lastBaseCount
           /\ UNCHANGED lastIndex

\* Get(): the index, counting from 0, is lastIndex' % totalCount.
Get ==
    IF totalCount = 0
      THEN UNCHANGED counters
      ELSE LET newCount == (lastCount + 1) % W IN
           /\ lastCount' = newCount
           /\ IF TurnOver(newCount)
                THEN /\ lastIndex' = (lastIndex + 1) % W
                     /\ lastBaseCount' = newCount
                ELSE UNCHANGED <<lastIndex, lastBaseCount>>

-----------------------------------------------------------------------------
(* ConnectionManager                                                        *)

AddConnection(c) ==
    /\ c \in fresh
    /\ fresh' = fresh \ {c}
    /\ connList' = Append(connList, c)
    /\ Update(Len(connList), 1000)
    /\ UNCHANGED <<counters, use, chosen>>

\* The range loop of DeleteConnection meets c once, or not at all.
DeleteConnection(c) ==
    /\ use = "pool" /\ c \notin fresh
    /\ \/ \E i \in DOMAIN connList :
            /\ connList[i] = c
            /\ connList' = Without(connList, i)
            /\ Delete(i - 1)
       \/ /\ \A i \in DOMAIN connList : connList[i] # c
          /\ UNCHANGED slices
    /\ UNCHANGED <<counters, use, fresh, chosen>>

GetConnection ==
    IF connList = << >>
      THEN chosen' = Nil /\ UNCHANGED <<slices, counters, use, fresh>>
      ELSE /\ Get
           /\ LET index == IF totalCount = 0 THEN 0 ELSE lastIndex' % totalCount IN
                chosen' = connList[(index % Len(connList)) + 1]
           /\ UNCHANGED <<slices, use, fresh>>

\* AddAgent passes the index of an agent that is in the list.
UpdateLB(index, w) ==
    /\ use = "agents" /\ index < Len(connList)
    /\ Update(index, w)
    /\ UNCHANGED <<connList, counters, use, fresh, chosen>>

Next ==
    \/ \E c \in Conns : AddConnection(c) \/ DeleteConnection(c)
    \/ GetConnection
    \/ \E i \in 0..(Len(connList) - 1), w \in Weights : UpdateLB(i, w)

\* Requests keep coming.
Spec == Init /\ [][Next]_vars /\ WF_vars(GetConnection)

-----------------------------------------------------------------------------
(* Properties.                                                              *)

Members == {connList[i] : i \in DOMAIN connList}

\* The balancer and the list stay in step, though two types keep them: what
\* Get divides by and indexes with is in range, for load_balancer.go:25
\* (minWeight), :40 and :45 (nowBase) and connection_manager.go:44 (connList).
InStep ==
    /\ totalCount = Len(connList)
    /\ Len(weight) = Len(connList)
    /\ Len(minWeight) >= totalCount
    /\ connList # << >> => nowBase = 100

\* Each entry is served with the weight it was given (load_balancer.go:37-45).
WeightsAligned ==
    \A i \in DOMAIN weight : minWeight[i] = weight[i] \div nowBase

\* A connection that stays in the list is used again and again, whatever is
\* added and deleted around it and though the counters wrap.
EveryMemberServed ==
    \A c \in Conns : <>[](c \in Members) => []<>(chosen = c)
=============================================================================
