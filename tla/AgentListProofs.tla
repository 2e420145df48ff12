--------------------------- MODULE AgentListProofs ---------------------------
(***************************************************************************)
(* Proofs about the lists that requests are spread by.  First ConnManager,  *)
(* in both its uses: the list and the balancer stay in step, and every      *)
(* entry is served with its own weight.  Then Discovery, for any providers, *)
(* values, starts and puts: every address is in the consumer's list once,   *)
(* with the weight of its last PUT.  Last the two together: what Discovery  *)
(* does to the list is what ConnManager takes for granted of its users.     *)
(***************************************************************************)
EXTENDS Discovery, ConnManager, SequenceTheorems, TLAPS

-----------------------------------------------------------------------------
(* ConnManager.                                                             *)

\* A remainder is a valid index.
LEMMA ModRange ==
    \A a \in Int, n \in Nat \ {0} : a % n \in 0..(n - 1)
  BY Z3

\* A slice cut in two, with d entries (none or one) left out in between.
LEMMA CutType ==
    ASSUME NEW S, NEW s \in Seq(S), NEW i \in Nat, NEW d \in {0, 1},
           i + d <= Len(s)
    PROVE  LET r == SubSeq(s, 1, i) \o SubSeq(s, i + d + 1, Len(s)) IN
           /\ r \in Seq(S)
           /\ Len(r) = Len(s) - d
           /\ \A j \in 1..(Len(s) - d) : r[j] = IF j <= i THEN s[j] ELSE s[j + d]
<1> DEFINE a == SubSeq(s, 1, i)
           b == SubSeq(s, i + d + 1, Len(s))
<1>0. Len(s) \in Nat /\ \A j \in 1..Len(s) : s[j] \in S
  BY LenProperties
<1>1. /\ a \in Seq(S) /\ Len(a) = i
      /\ \A j \in 1..i : a[j] = s[j]
  <2>1. \A j \in 1..i : s[j] \in S
    BY <1>0
  <2>2. /\ a \in Seq(S) /\ Len(a) = IF 1 <= i THEN i - 1 + 1 ELSE 0
        /\ \A j \in 1..(i - 1 + 1) : a[j] = s[1 + j - 1]
    BY <2>1, SubSeqProperties
  <2> QED BY <2>2
<1>2. /\ b \in Seq(S) /\ Len(b) = Len(s) - i - d
      /\ \A j \in 1..(Len(s) - i - d) : b[j] = s[i + d + j]
  <2>1. \A j \in (i + d + 1)..Len(s) : s[j] \in S
    BY <1>0
  <2>2. /\ b \in Seq(S)
        /\ Len(b) = IF i + d + 1 <= Len(s) THEN Len(s) - (i + d + 1) + 1 ELSE 0
        /\ \A j \in 1..(Len(s) - (i + d + 1) + 1) : b[j] = s[(i + d + 1) + j - 1]
    <3>1. i + d + 1 \in Int /\ Len(s) \in Int
      BY <1>0
    <3> QED BY <2>1, <3>1, SubSeqProperties
  <2> QED BY <2>2, <1>0
<1>3. /\ a \o b \in Seq(S)
      /\ Len(a \o b) = Len(a) + Len(b)
      /\ \A j \in 1..(Len(a) + Len(b)) :
           (a \o b)[j] = IF j <= Len(a) THEN a[j] ELSE b[j - Len(a)]
  BY Zenon, <1>1, <1>2, ConcatProperties
<1> HIDE DEF a, b
<1>4. \A j \in 1..(Len(s) - d) : (a \o b)[j] = IF j <= i THEN s[j] ELSE s[j + d]
  <2> SUFFICES ASSUME NEW j \in 1..(Len(s) - d)
               PROVE  (a \o b)[j] = IF j <= i THEN s[j] ELSE s[j + d]
    BY Zenon
  <2>1. CASE j <= i
    BY <2>1, <1>0, <1>1, <1>2, <1>3
  <2>2. CASE ~(j <= i)
    <3>1. (a \o b)[j] = b[j - i]
      BY <2>2, <1>0, <1>1, <1>2, <1>3
    <3>2. j - i \in 1..(Len(s) - i - d) /\ i + d + (j - i) = j + d
      BY <2>2, <1>0
    <3> QED BY <2>2, <3>1, <3>2, <1>2
  <2> QED BY Zenon, <2>1, <2>2
<1>5. Len(a \o b) = Len(s) - d
  BY <1>0, <1>1, <1>2, <1>3
<1> QED BY <1>3, <1>4, <1>5, Zenon DEF a, b

\* A slice cut before its k-th entry and joined again.
LEMMA RejoinType ==
    ASSUME NEW S, NEW s \in Seq(S), NEW k \in 1..Len(s)
    PROVE  LET r == SubSeq(s, 1, k - 1) \o SubSeq(s, k, Len(s)) IN
           r \in Seq(S) /\ Len(r) = Len(s) /\ \A j \in 1..Len(s) : r[j] = s[j]
<1>1. PICK i \in Nat : i = k - 1
  OBVIOUS
<1>2. /\ i + 0 <= Len(s) /\ i + 0 + 1 = k /\ 0 \in {0, 1}
      /\ Len(s) - 0 = Len(s) /\ \A j \in 1..Len(s) : j + 0 = j
  BY <1>1, LenProperties
<1> DEFINE r == SubSeq(s, 1, i) \o SubSeq(s, i + 0 + 1, Len(s))
<1>3. /\ r \in Seq(S) /\ Len(r) = Len(s) - 0
      /\ \A j \in 1..(Len(s) - 0) : r[j] = IF j <= i THEN s[j] ELSE s[j + 0]
  BY <1>2, CutType, ZenonT(60)
<1>4. r = SubSeq(s, 1, k - 1) \o SubSeq(s, k, Len(s))
  BY <1>1, <1>2
<1> HIDE DEF r
<1>5. r \in Seq(S) /\ Len(r) = Len(s) /\ \A j \in 1..Len(s) : r[j] = s[j]
  BY <1>2, <1>3
<1> QED BY <1>4, <1>5, Zenon

\* The slice without its k-th entry.
LEMMA WithoutType ==
    ASSUME NEW S, NEW s \in Seq(S), NEW k \in 1..Len(s)
    PROVE  /\ Without(s, k) \in Seq(S)
           /\ Len(Without(s, k)) = Len(s) - 1
           /\ \A j \in 1..(Len(s) - 1) :
                Without(s, k)[j] = IF j <= k - 1 THEN s[j] ELSE s[j + 1]
<1>1. PICK i \in Nat : i = k - 1
  OBVIOUS
<1>2. i + 1 <= Len(s) /\ i + 1 + 1 = k + 1 /\ 1 \in {0, 1}
  BY <1>1, LenProperties
<1>3. Without(s, k) = SubSeq(s, 1, i) \o SubSeq(s, i + 1 + 1, Len(s))
  BY Zenon, <1>1, <1>2 DEF Without
<1> DEFINE r == SubSeq(s, 1, i) \o SubSeq(s, i + 1 + 1, Len(s))
<1>4. /\ r \in Seq(S) /\ Len(r) = Len(s) - 1
      /\ \A j \in 1..(Len(s) - 1) : r[j] = IF j <= i THEN s[j] ELSE s[j + 1]
  BY <1>2, CutType, ZenonT(60)
<1>5. Without(s, k) = r
  BY <1>3
<1> HIDE DEF r
<1> QED BY <1>1, <1>4, <1>5, Zenon

-----------------------------------------------------------------------------
(* The inductive invariant.                                                 *)

\* The shares: a pool only ever holds weight 1000, so the share that Delete
\* leaves behind is the right one for the next connection; the agents' list
\* never deletes, so its two slices have one length.
Shares ==
    IF use = "pool"
      THEN /\ \A i \in 1..Len(weight) : weight[i] = 1000
           /\ \A i \in 1..Len(minWeight) : minWeight[i] = 10
      ELSE /\ Len(minWeight) = Len(weight)
           /\ \A i \in 1..Len(weight) : minWeight[i] = weight[i] \div 100

IInv == TypeOK /\ InStep /\ Shares

\* A new ConnectionManager, with its LoadBalancer, satisfies the invariant.
LEMMA InitIInv == Init => IInv
  BY ConstAssumption DEF Init, IInv, TypeOK, InStep, Shares

\* An entry is appended to the three slices.
LEMMA AddStep ==
    ASSUME IInv, NEW c \in Conns, AddConnection(c) PROVE IInv'
<1> USE ConstAssumption DEF IInv
<1>1. Len(weight) = Len(connList) /\ Len(connList) \in Nat /\ Len(minWeight) \in Nat
  BY LenProperties DEF TypeOK, InStep
<1>2. nowBase' = 100
  <2>1. CASE connList = << >>
    BY <2>1, <1>1 DEF AddConnection, Update
  <2>2. CASE connList # << >>
    BY <2>2, <1>1 DEF AddConnection, Update, InStep, TypeOK
  <2> QED BY <2>1, <2>2
<1>3. /\ totalCount' = totalCount + 1
      /\ minWeight' = Append(minWeight, 10)
      /\ weight' = Append(weight, 1000)
      /\ connList' = Append(connList, c)
      /\ UNCHANGED <<counters, use, chosen>>
      /\ fresh' = fresh \ {c}
  <2>1. 1000 \div 100 = 10
    OBVIOUS
  <2> QED BY <1>1, <1>2, <2>1 DEF AddConnection, Update
<1>4. /\ minWeight' \in Seq(Nat) /\ Len(minWeight') = Len(minWeight) + 1
      /\ \A i \in 1..Len(minWeight) : minWeight'[i] = minWeight[i]
      /\ minWeight'[Len(minWeight) + 1] = 10
      /\ weight' \in Seq(Nat) /\ Len(weight') = Len(weight) + 1
      /\ \A i \in 1..Len(weight) : weight'[i] = weight[i]
      /\ weight'[Len(weight) + 1] = 1000
      /\ connList' \in Seq(Conns) /\ Len(connList') = Len(connList) + 1
  BY <1>3, AppendProperties DEF TypeOK
<1>5. TypeOK'
  BY <1>2, <1>3, <1>4 DEF TypeOK, counters
<1>6. InStep'
  BY <1>1, <1>2, <1>3, <1>4 DEF InStep, TypeOK
<1>7. Shares'
  <2>1. CASE use = "pool"
    <3>1. \A i \in 1..Len(weight') : weight'[i] = 1000
      <4> TAKE i \in 1..Len(weight')
      <4>1. i \in 1..Len(weight) \/ i = Len(weight) + 1
        BY <1>1, <1>4
      <4>2. \A j \in 1..Len(weight) : weight[j] = 1000
        BY <2>1 DEF Shares
      <4>3. CASE i \in 1..Len(weight)
        <5>1. weight[i] = 1000
          BY <4>2, <4>3
        <5>2. weight'[i] = weight[i]
          BY SMTT(30), <4>3, <1>4
        <5> QED BY <5>1, <5>2
      <4>4. CASE i = Len(weight) + 1
        BY <4>4, <1>4
      <4> QED BY <4>1, <4>3, <4>4
    <3>2. \A i \in 1..Len(minWeight') : minWeight'[i] = 10
      <4> TAKE i \in 1..Len(minWeight')
      <4>1. i \in 1..Len(minWeight) \/ i = Len(minWeight) + 1
        BY <1>1, <1>4
      <4>2. \A j \in 1..Len(minWeight) : minWeight[j] = 10
        BY <2>1 DEF Shares
      <4>3. CASE i \in 1..Len(minWeight)
        <5>1. minWeight[i] = 10
          BY <4>2, <4>3
        <5>2. minWeight'[i] = minWeight[i]
          BY ZenonT(90), <4>3, <1>4
        <5> QED BY <5>1, <5>2
      <4>4. CASE i = Len(minWeight) + 1
        BY <4>4, <1>4
      <4> QED BY <4>1, <4>3, <4>4
    <3> QED BY <2>1, <3>1, <3>2, <1>3 DEF Shares
  <2>2. CASE use # "pool"
    <3>1. 1000 \div 100 = 10
      OBVIOUS
    <3>2. Len(minWeight) = Len(weight) /\ Len(minWeight') = Len(weight')
      BY <2>2, <1>4 DEF Shares
    <3>3. \A i \in 1..Len(weight') : minWeight'[i] = weight'[i] \div 100
      <4> TAKE i \in 1..Len(weight')
      <4>1. CASE i \in 1..Len(weight)
        <5>1. minWeight[i] = weight[i] \div 100
          BY <2>2, <4>1 DEF Shares
        <5> QED BY <4>1, <5>1, <3>2, <1>4
      <4>2. CASE i = Len(weight) + 1
        BY <4>2, <3>1, <3>2, <1>4
      <4>3. i \in 1..Len(weight) \/ i = Len(weight) + 1
        BY <1>1, <1>4
      <4> QED BY <4>1, <4>2, <4>3
    <3> QED BY <2>2, <3>2, <3>3, <1>3 DEF Shares
  <2> QED BY <2>1, <2>2
<1> QED BY <1>5, <1>6, <1>7

\* An entry goes from the list and from the weights; the shares stay.
LEMMA DeleteStep ==
    ASSUME IInv, NEW c \in Conns, DeleteConnection(c) PROVE IInv'
<1> USE ConstAssumption DEF IInv
<1>1. /\ Len(weight) = Len(connList) /\ Len(connList) \in Nat
      /\ Len(minWeight) \in Nat /\ DOMAIN connList = 1..Len(connList)
  BY LenProperties DEF TypeOK, InStep
<1>2. CASE UNCHANGED slices
  BY <1>2 DEF DeleteConnection, slices, counters, TypeOK, InStep, Shares
<1>3. ASSUME NEW k \in DOMAIN connList,
             connList' = Without(connList, k), Delete(k - 1)
      PROVE  IInv'
  <2>1. /\ k \in 1..Len(connList) /\ k - 1 \in Nat /\ ~(Len(weight) <= k - 1)
        /\ (k - 1) + 1 = k
    BY <1>1, <1>3
  <2>2. /\ weight' = Without(weight, k)
        /\ minWeight' = SubSeq(minWeight, 1, k - 1)
                          \o SubSeq(minWeight, k, Len(minWeight))
        /\ totalCount' = totalCount - 1 /\ nowBase' = nowBase
    BY Zenon, <1>3, <2>1 DEF Delete
  <2>3. /\ weight' \in Seq(Nat) /\ Len(weight') = Len(weight) - 1
        /\ \A j \in 1..(Len(weight) - 1) :
             weight'[j] = IF j <= k - 1 THEN weight[j] ELSE weight[j + 1]
    <3>1. weight \in Seq(Nat) /\ k \in 1..Len(weight)
      BY <2>1, <1>1 DEF TypeOK
    <3> QED BY Zenon, <2>2, <3>1, WithoutType
  <2>4. connList' \in Seq(Conns) /\ Len(connList') = Len(connList) - 1
    BY Zenon, <1>3, <2>1, WithoutType DEF TypeOK
  <2>5. /\ minWeight' \in Seq(Nat) /\ Len(minWeight') = Len(minWeight)
        /\ \A j \in 1..Len(minWeight) : minWeight'[j] = minWeight[j]
    <3>1. minWeight \in Seq(Nat) /\ k \in 1..Len(minWeight)
      BY <2>1, <1>1 DEF TypeOK, InStep
    <3> QED BY <2>2, <3>1, RejoinType, Zenon
  <2>6. TypeOK'
    <3>1. UNCHANGED <<lastCount, lastIndex, lastBaseCount, use, fresh, chosen>>
      BY DEF DeleteConnection, counters
    <3>2. totalCount' \in Nat /\ nowBase' \in Nat
      BY <1>1, <2>1, <2>2 DEF TypeOK, InStep
    <3> QED BY <2>3, <2>4, <2>5, <3>1, <3>2 DEF TypeOK
  <2>7. InStep'
    BY SMTT(30), <1>1, <2>1, <2>2, <2>3, <2>4, <2>5 DEF InStep
  <2>8. Shares'
    <3>1. use' = "pool" /\ use = "pool"
      BY DEF DeleteConnection
    <3>2. \A j \in 1..Len(weight') : weight'[j] = 1000
      <4> TAKE j \in 1..Len(weight')
      <4>1. /\ j \in 1..(Len(weight) - 1)
            /\ j \in 1..Len(weight) /\ j + 1 \in 1..Len(weight)
        BY <1>1, <2>3
      <4>2. weight[j] = 1000 /\ weight[j + 1] = 1000
        BY <3>1, <4>1 DEF Shares
      <4> QED BY SMTT(30), <4>1, <4>2, <2>3
    <3>3. \A j \in 1..Len(minWeight') : minWeight'[j] = 10
      BY <3>1, <2>5 DEF Shares
    <3> QED BY <3>1, <3>2, <3>3 DEF Shares
  <2> QED BY <2>6, <2>7, <2>8
<1> QED BY <1>2, <1>3 DEF DeleteConnection

\* A new weight for an agent of the list.
LEMMA UpdateStep ==
    ASSUME IInv, NEW k \in 0..(Len(connList) - 1), NEW w \in Weights, UpdateLB(k, w)
    PROVE  IInv'
<1> USE ConstAssumption DEF IInv
<1>1. /\ Len(weight) = Len(connList) /\ Len(connList) \in Nat
      /\ ~(Len(weight) <= k) /\ k + 1 \in 1..Len(weight)
      /\ use = "agents" /\ Len(minWeight) = Len(weight) /\ w \in Nat
  BY LenProperties DEF TypeOK, InStep, Shares, UpdateLB
<1>2. nowBase = 100 /\ w \div 100 \in Nat
  BY <1>1, LenProperties DEF InStep, TypeOK
<1>3. /\ weight' = [weight EXCEPT ![k + 1] = w]
      /\ minWeight' = [minWeight EXCEPT ![k + 1] = w \div 100]
      /\ UNCHANGED <<totalCount, nowBase, connList, counters, use, fresh, chosen>>
  BY <1>1, <1>2 DEF UpdateLB, Update
<1>4. /\ weight' \in Seq(Nat) /\ Len(weight') = Len(weight)
      /\ \A j \in 1..Len(weight) : weight'[j] = IF j = k + 1 THEN w ELSE weight[j]
  BY SMTT(30), <1>1, <1>3, ExceptSeq DEF TypeOK
<1>5. /\ minWeight' \in Seq(Nat) /\ Len(minWeight') = Len(minWeight)
      /\ \A j \in 1..Len(minWeight) :
           minWeight'[j] = IF j = k + 1 THEN w \div 100 ELSE minWeight[j]
  BY SMTT(30), <1>1, <1>2, <1>3, ExceptSeq DEF TypeOK
<1>6. TypeOK'
  BY <1>3, <1>4, <1>5 DEF TypeOK, counters
<1>7. InStep'
  BY Zenon, <1>1, <1>3, <1>4, <1>5 DEF InStep
<1>8. Shares'
  BY SMTT(30), <1>1, <1>3, <1>4, <1>5 DEF Shares
<1> QED BY <1>6, <1>7, <1>8

\* A choice moves the counters only, and is an entry of the list.
LEMMA GetStep ==
    ASSUME IInv, GetConnection PROVE IInv'
<1> USE ConstAssumption DEF IInv
<1>1. /\ totalCount = Len(connList) /\ Len(connList) \in Nat
      /\ \A i \in 1..Len(connList) : connList[i] \in Conns
  BY LenProperties DEF TypeOK, InStep
<1>2. UNCHANGED <<slices, use, fresh>>
  BY DEF GetConnection
<1>3. /\ lastCount' \in 0..(W - 1) /\ lastIndex' \in 0..(W - 1)
      /\ lastBaseCount' \in 0..(W - 1)
  <2>1. (lastCount + 1) % W \in 0..(W - 1) /\ (lastIndex + 1) % W \in 0..(W - 1)
    BY ModRange DEF TypeOK
  <2> QED BY Zenon, <2>1 DEF GetConnection, Get, TypeOK, counters
<1>4. chosen' \in Conns \cup {Nil}
  <2>1. CASE connList = << >>
    BY <2>1 DEF GetConnection
  <2>2. CASE connList # << >>
    <3>1. Len(connList) \in Nat \ {0} /\ totalCount # 0
      BY <2>2, <1>1 DEF TypeOK
    <3>2. lastIndex' % totalCount \in Int
      BY <3>1, <1>1, <1>3, ModRange
    <3>3. (lastIndex' % totalCount) % Len(connList) \in 0..(Len(connList) - 1)
      BY Zenon, <3>1, <3>2, ModRange
    <3>4. chosen' = connList[((lastIndex' % totalCount) % Len(connList)) + 1]
      BY <2>2, <3>1 DEF GetConnection
    <3>5. ((lastIndex' % totalCount) % Len(connList)) + 1 \in 1..Len(connList)
      BY <3>3, <3>1
    <3> QED BY <1>1, <3>4, <3>5
  <2> QED BY <2>1, <2>2
<1> QED BY SMTT(30), <1>2, <1>3, <1>4 DEF slices, TypeOK, InStep, Shares

\* Every method of ConnectionManager preserves the invariant.
LEMMA NextIInv == IInv /\ [Next]_vars => IInv'
<1> SUFFICES ASSUME IInv, [Next]_vars PROVE IInv'
  OBVIOUS
<1>1. CASE UNCHANGED vars
  BY <1>1 DEF vars, IInv, TypeOK, InStep, Shares
<1>2. CASE Next
  BY <1>2, AddStep, DeleteStep, UpdateStep, GetStep DEF Next
<1> QED BY <1>1, <1>2

-----------------------------------------------------------------------------
(* The theorems.                                                            *)

\* Every method keeps the inductive invariant.
THEOREM Invariance == Spec => []IInv
  BY InitIInv, NextIInv, PTL DEF Spec

\* For any number of connections and any counter width, the lengths, the base
\* and the counters that Get divides by and indexes with stay in range.
THEOREM ManagerInStep == Spec => [](TypeOK /\ InStep)
<1>1. IInv => TypeOK /\ InStep
  BY DEF IInv
<1> QED BY <1>1, Invariance, PTL

\* For any weights, each entry is served with the weight it was given: in the
\* pools although Delete leaves a share behind, and in the list of agents.
THEOREM ManagerAligned == Spec => []WeightsAligned
<1>1. IInv => WeightsAligned
  <2> SUFFICES ASSUME IInv, NEW i \in DOMAIN weight
               PROVE  minWeight[i] = weight[i] \div nowBase
    BY DEF WeightsAligned
  <2>1. i \in 1..Len(weight) /\ Len(weight) \in Nat
    BY Zenon, LenProperties DEF IInv, TypeOK
  <2>2. nowBase = 100 /\ i \in 1..Len(minWeight)
    BY <2>1, LenProperties DEF IInv, TypeOK, InStep
  <2>3. 1000 \div 100 = 10
    OBVIOUS
  <2> QED BY <2>1, <2>2, <2>3 DEF IInv, Shares
<1> QED BY <1>1, Invariance, PTL

-----------------------------------------------------------------------------
(* Discovery.                                                               *)

Event == [type : {"PUT", "DELETE"}, agent : Providers, value : Values]

\* The parts of DiscoveryTypeOK that the argument needs.
DType ==
    /\ watch \in Seq(Event)
    /\ latest \in [Providers -> Values \cup {None}]
    /\ apc \in {"idle", "look", "dial", "add", "lb"}
    /\ apc # "idle" => cur \in [agent : Providers, weight : Nat, idx : Nat]
    /\ agents \in Seq(Providers) /\ weights \in Seq(Nat)
    /\ Len(weights) = Len(agents)

\* AddAgent adds an address that it has not found, and updates one at an index
\* of the list.
ListInv ==
    /\ AgentOnce
    /\ apc \in {"dial", "add"} => \A i \in 1..Len(agents) : agents[i] # cur.agent
    /\ apc = "lb" => cur.idx \in 1..Len(agents)

IsPut(e, p) == e.type = "PUT" /\ e.agent = p
Due(p) == IF latest[p] = None THEN DefaultWeight ELSE Weight(latest[p])

\* The weight that is due to p is on its way, as the last PUT in the watch or
\* as the argument of AddAgent, or else it is the one in the balancer.
WeightInv ==
    /\ cpc # "watch" => watch = << >> /\ \A p \in Providers : latest[p] = None
    /\ \A p \in Providers :
         /\ \A k \in 1..Len(watch) :
              IsPut(watch[k], p) /\ (\A j \in 1..Len(watch) : IsPut(watch[j], p) => j <= k) =>
                 watch[k].value = latest[p]
         /\ (\A k \in 1..Len(watch) : ~IsPut(watch[k], p)) =>
              /\ apc # "idle" /\ cur.agent = p => cur.weight = Due(p)
              /\ apc = "idle" \/ cur.agent # p =>
                   \A i \in 1..Len(agents) : agents[i] = p => weights[i] = Due(p)

DInv == DType /\ ListInv /\ WeightInv

\* Nothing is known and nothing has happened.
LEMMA DInit == DiscoveryInit => DInv
<1> SUFFICES ASSUME DiscoveryInit PROVE DInv
  OBVIOUS
<1>1. watch = << >> /\ agents = << >> /\ weights = << >> /\ Len(<< >>) = 0
  BY DEF DiscoveryInit
<1> QED BY <1>1 DEF DiscoveryInit, DInv, DType, ListInv, AgentOnce, WeightInv, IsPut, Due, None

\* AddAgent's steps change neither the events nor what is due.
LEMMA LookStep == ASSUME DInv, AddAgentLook PROVE DInv'
<1> USE DEF DInv, etcd
<1>1. CASE cur.agent \in Range(agents)
  <2> DEFINE First(k) == agents[k] = cur.agent /\ \A j \in 1..(k - 1) : agents[j] # cur.agent
             n == CHOOSE k \in DOMAIN agents : First(k)
  <2>1. \E k \in DOMAIN agents : First(k)
    <3>1. PICK k \in DOMAIN agents : agents[k] = cur.agent
      BY <1>1 DEF Range
    <3>2. \A j \in 1..(k - 1) : j \in DOMAIN agents /\ j # k
      BY LenProperties DEF DType
    <3>3. \A j \in 1..(k - 1) : agents[j] # agents[k]
      BY <3>2 DEF ListInv, AgentOnce
    <3> QED BY <3>1, <3>3
  <2>2. n \in DOMAIN agents /\ First(n)
    BY <2>1
  <2>3. cur' = [cur EXCEPT !.idx = n] /\ apc' = "lb" /\ apc # "idle"
        /\ UNCHANGED <<watch, latest, cpc, agents, weights>>
    BY <1>1 DEF AddAgentLook
  <2>4. n \in 1..Len(agents) /\ n \in Nat /\ agents[n] = cur.agent
    BY <2>2, LenProperties DEF DType
  <2> HIDE DEF n
  <2>5. /\ cur'.agent = cur.agent /\ cur'.weight = cur.weight /\ cur'.idx = n
        /\ cur' \in [agent : Providers, weight : Nat, idx : Nat]
    BY Zenon, <2>3, <2>4 DEF DType
  <2> QED BY <2>3, <2>4, <2>5 DEF DType, ListInv, AgentOnce, WeightInv, IsPut, Due
<1>2. CASE cur.agent \notin Range(agents)
  <2>1. cur' = [cur EXCEPT !.idx = Len(agents) + 1] /\ apc' = "dial" /\ apc # "idle"
        /\ UNCHANGED <<watch, latest, cpc, agents, weights>>
    BY <1>2 DEF AddAgentLook
  <2>2. Len(agents) \in Nat /\ \A i \in 1..Len(agents) : agents[i] # cur.agent
    BY Zenon, <1>2, LenProperties DEF DType, Range
  <2>3. PICK n \in Nat : n = Len(agents) + 1
    BY <2>2
  <2>4. cur' = [cur EXCEPT !.idx = n] /\ cur \in [agent : Providers, weight : Nat, idx : Nat]
    BY <2>1, <2>3 DEF DType
  <2>5. /\ cur'.agent = cur.agent /\ cur'.weight = cur.weight /\ cur'.idx = n
        /\ cur' \in [agent : Providers, weight : Nat, idx : Nat]
    BY Zenon, <2>4
  <2> QED BY <2>1, <2>2, <2>3, <2>5 DEF DType, ListInv, AgentOnce, WeightInv, IsPut, Due
<1> QED BY Zenon, <1>1, <1>2

\* AddAgent appends an agent it has not found in the list.
LEMMA AgentAddStep == ASSUME DInv, AddAgentAdd PROVE DInv'
<1> USE DEF DInv, etcd
<1>1. /\ apc = "add" /\ apc' = "lb" /\ UNCHANGED <<watch, latest, cpc, cur>>
      /\ agents' = Append(agents, cur.agent) /\ weights' = Append(weights, DefaultWeight)
  BY DEF AddAgentAdd
<1>2. /\ agents \in Seq(Providers) /\ cur.agent \in Providers
      /\ weights \in Seq(Nat) /\ DefaultWeight \in Nat
      /\ Len(agents) \in Nat /\ Len(weights) = Len(agents)
  BY <1>1, LenProperties DEF DType, DefaultWeight
<1>3. /\ agents' \in Seq(Providers) /\ Len(agents') = Len(agents) + 1
      /\ \A i \in 1..Len(agents) : agents'[i] = agents[i]
      /\ agents'[Len(agents) + 1] = cur.agent
  BY <1>1, <1>2, AppendProperties
<1>4. /\ weights' \in Seq(Nat) /\ Len(weights') = Len(weights) + 1
      /\ \A i \in 1..Len(weights) : weights'[i] = weights[i]
  BY <1>1, <1>2, AppendProperties
<1>5. \A i \in 1..Len(agents') : i \in 1..Len(agents) \/ i = Len(agents) + 1
  BY <1>2, <1>3
<1>6. DOMAIN agents = 1..Len(agents) /\ DOMAIN agents' = 1..Len(agents')
  BY Zenon, <1>2, <1>3, LenProperties
<1>7. DType'
  BY Zenon, <1>1, <1>2, <1>3, <1>4 DEF DType
<1>8. ListInv'
  <2>1. \A i \in 1..Len(agents) : agents[i] # cur.agent
    BY <1>1 DEF ListInv
  <2>2. \A i, j \in DOMAIN agents' : agents'[i] = agents'[j] => i = j
    BY Zenon, <1>3, <1>5, <1>6, <2>1 DEF ListInv, AgentOnce
  <2>3. cur.idx = Len(agents) + 1
    BY <1>1 DEF ListInv, AgentOnce
  <2> QED BY <1>1, <1>2, <1>3, <2>2, <2>3 DEF ListInv, AgentOnce
<1>9. WeightInv'
  <2>1. ASSUME NEW p \in Providers, \A k \in 1..Len(watch) : ~IsPut(watch[k], p), cur.agent # p,
               NEW i \in 1..Len(agents'), agents'[i] = p
        PROVE  weights'[i] = Due(p)
    <3>1. i \in 1..Len(agents) /\ agents[i] = p
      BY <1>3, <1>5, <2>1
    <3> QED BY Zenon, <1>2, <1>4, <2>1, <3>1 DEF WeightInv
  <2> QED BY ZenonT(60), <1>1, <2>1 DEF WeightInv, IsPut, Due
<1> QED BY <1>7, <1>8, <1>9

\* AddAgent sets the weight of the agent it has found.
LEMMA AgentUpdateStep == ASSUME DInv, AddAgentUpdate PROVE DInv'
<1> USE DEF DInv, etcd
<1>1. /\ apc = "lb" /\ apc' = "idle" /\ UNCHANGED <<watch, latest, cpc, agents>>
      /\ weights' = [weights EXCEPT ![cur.idx] = cur.weight]
  BY DEF AddAgentUpdate
<1>2. /\ cur.idx \in 1..Len(agents) /\ agents[cur.idx] = cur.agent /\ cur.weight \in Nat
      /\ DOMAIN agents = 1..Len(agents) /\ DOMAIN weights = 1..Len(agents)
      /\ Len(agents) \in Nat /\ weights \in [1..Len(agents) -> Nat]
  BY <1>1, LenProperties DEF DType, ListInv, AgentOnce
<1>3. /\ weights' \in [1..Len(agents) -> Nat]
      /\ weights'[cur.idx] = cur.weight
      /\ \A i \in 1..Len(agents) : i # cur.idx => weights'[i] = weights[i]
  BY <1>1, <1>2
<1>4. weights' \in Seq(Nat) /\ Len(weights') = Len(agents)
  BY SMTT(30), <1>2, <1>3
<1>5. DType' /\ ListInv'
  BY <1>1, <1>2, <1>4 DEF DType, ListInv, AgentOnce
<1>6. WeightInv'
  <2>1. ASSUME NEW p \in Providers, \A k \in 1..Len(watch) : ~IsPut(watch[k], p),
               NEW i \in 1..Len(agents), agents[i] = p
        PROVE  weights'[i] = Due(p)
    <3>1. CASE cur.agent = p
      <4>1. i = cur.idx
        BY Zenon, <1>2, <2>1, <3>1 DEF ListInv, AgentOnce
      <4> QED BY Zenon, <1>1, <1>3, <2>1, <3>1, <4>1 DEF WeightInv
    <3>2. CASE cur.agent # p
      BY Zenon, <1>2, <1>3, <2>1, <3>2 DEF WeightInv
    <3> QED BY Zenon, <3>1, <3>2
  <2> QED BY <1>1, <2>1 DEF WeightInv, IsPut, Due
<1> QED BY <1>5, <1>6
\* An event of etcd becomes the last one of the watch, if there is a watch.
LEMMA HappensStep ==
    ASSUME DInv, NEW type \in {"PUT", "DELETE"}, NEW q \in Providers, NEW v \in Values,
           Happens(type, q, v), UNCHANGED <<cpc, apc, cur, agents, weights>>
    PROVE  DInv'
<1> USE DEF DInv
<1>1. CASE cpc # "watch"
  BY <1>1 DEF Happens, DType, ListInv, AgentOnce, WeightInv, IsPut, Due
<1>2. CASE cpc = "watch"
  <2> DEFINE e == [type |-> type, agent |-> q, value |-> v]
  <2>1. /\ watch' = Append(watch, e)
        /\ latest' = IF type = "PUT" THEN [latest EXCEPT ![q] = v] ELSE latest
    BY Zenon, <1>2 DEF Happens
  <2>2. watch \in Seq(Event) /\ e \in Event /\ Len(watch) \in Nat
        /\ latest \in [Providers -> Values \cup {None}]
    BY Zenon, LenProperties DEF DType, Event
  <2>3. /\ watch' \in Seq(Event) /\ Len(watch') = Len(watch) + 1
        /\ \A k \in 1..Len(watch) : watch'[k] = watch[k]
        /\ watch'[Len(watch) + 1] = e
    BY <2>1, <2>2, AppendProperties
  <2>4. e.type = type /\ e.agent = q /\ e.value = v
    BY Zenon
  <2> HIDE DEF e
  <2>5. DType' /\ ListInv'
    BY Zenon, <2>1, <2>2, <2>3 DEF DType, ListInv, AgentOnce
  <2>6. \A k \in 1..Len(watch') : k \in 1..Len(watch) \/ k = Len(watch) + 1
    BY <2>2, <2>3
  <2>7. \A k \in 1..Len(watch) : k \in 1..Len(watch') /\ k < Len(watch) + 1
    BY <2>2, <2>3
  <2>8. Len(watch) + 1 \in 1..Len(watch')
    BY <2>2, <2>3
  <2>9. \A p \in Providers, k \in 1..Len(watch) : IsPut(watch'[k], p) <=> IsPut(watch[k], p)
    BY Zenon, <2>3 DEF IsPut
  <2>10. \A p \in Providers : IsPut(watch'[Len(watch) + 1], p) <=> type = "PUT" /\ p = q
    BY Zenon, <2>3, <2>4 DEF IsPut
  <2>11. ASSUME NEW p \in Providers, NEW k \in 1..Len(watch'), IsPut(watch'[k], p),
                \A j \in 1..Len(watch') : IsPut(watch'[j], p) => j <= k
         PROVE  watch'[k].value = latest'[p]
    <3>1. CASE type = "PUT" /\ p = q
      <4>1. k = Len(watch) + 1
        BY SMTT(30), <2>6, <2>7, <2>8, <2>10, <2>11, <3>1
      <4> QED BY Zenon, <2>1, <2>2, <2>3, <2>4, <3>1, <4>1
    <3>2. CASE ~(type = "PUT" /\ p = q)
      <4>1. k \in 1..Len(watch) /\ latest'[p] = latest[p]
        BY Zenon, <2>1, <2>2, <2>6, <2>10, <2>11, <3>2
      <4>2. IsPut(watch[k], p) /\ \A j \in 1..Len(watch) : IsPut(watch[j], p) => j <= k
        BY Zenon, <2>7, <2>9, <2>11, <4>1
      <4> QED BY SMTT(30), <2>3, <4>1, <4>2 DEF WeightInv
    <3> QED BY Zenon, <3>1, <3>2
  <2>12. ASSUME NEW p \in Providers, \A k \in 1..Len(watch') : ~IsPut(watch'[k], p)
         PROVE  (\A k \in 1..Len(watch) : ~IsPut(watch[k], p)) /\ latest'[p] = latest[p]
    BY Zenon, <2>1, <2>2, <2>7, <2>8, <2>9, <2>10, <2>12
  <2>13. WeightInv'
    <3>1. cpc' = "watch" /\ agents' = agents /\ weights' = weights /\ apc' = apc /\ cur' = cur
      BY Zenon, <1>2
    <3>2. ASSUME NEW p \in Providers, \A k \in 1..Len(watch') : ~IsPut(watch'[k], p)
          PROVE  Due(p)' = Due(p)
      BY Zenon, <2>12, <3>2 DEF Due
    <3>3. ASSUME NEW p \in Providers, \A k \in 1..Len(watch') : ~IsPut(watch'[k], p)
          PROVE  /\ apc' # "idle" /\ cur'.agent = p => cur'.weight = Due(p)'
                 /\ apc' = "idle" \/ cur'.agent # p =>
                      \A i \in 1..Len(agents') : agents'[i] = p => weights'[i] = Due(p)'
      <4>1. /\ apc # "idle" /\ cur.agent = p => cur.weight = Due(p)
            /\ apc = "idle" \/ cur.agent # p =>
                 \A i \in 1..Len(agents) : agents[i] = p => weights[i] = Due(p)
        BY Zenon, <2>12, <3>3 DEF WeightInv
      <4>2. Due(p)' = Due(p)
        BY Zenon, <3>2, <3>3
      <4> QED BY Zenon, <3>1, <4>1, <4>2
    <3> QED BY Zenon, <2>11, <3>1, <3>3 DEF WeightInv
  <2> QED BY Zenon, <2>5, <2>13
<1> QED BY Zenon, <1>1, <1>2
\* The consumer takes the first event: a PUT that was the last one of its
\* agent is now the argument of AddAgent.
LEMMA EventStep == ASSUME DInv, ListenEvent PROVE DInv'
<1> USE DEF DInv
<1> DEFINE ev == Head(watch)
<1>1. /\ cpc = "watch" /\ apc = "idle" /\ watch # << >> /\ watch' = Tail(watch)
      /\ UNCHANGED <<latest, cpc, agents, weights>>
      /\ IF ev.type = "PUT"
           THEN apc' = "look" /\ cur' = [agent |-> ev.agent, weight |-> Weight(ev.value), idx |-> 0]
           ELSE apc' = apc /\ cur' = cur
  BY Zenon DEF ListenEvent, CallAddAgent, adding
<1>2. watch \in Seq(Event) /\ Len(watch) \in Nat \ {0} /\ ev = watch[1] /\ ev \in Event
  BY SMTT(30), <1>1, LenProperties, HeadTailProperties, EmptySeq DEF DType
<1>3. /\ watch' \in Seq(Event) /\ Len(watch') = Len(watch) - 1
      /\ \A k \in 1..Len(watch') : watch'[k] = watch[k + 1]
  BY <1>1, HeadTailProperties DEF DType
<1> HIDE DEF ev
<1>4. /\ ev.type \in {"PUT", "DELETE"} /\ ev.agent \in Providers
      /\ ev.value \in Nat /\ Weight(ev.value) \in Nat /\ ev.value # None
  <2>1. ev.type \in {"PUT", "DELETE"} /\ ev.agent \in Providers /\ ev.value \in Values
    BY <1>2 DEF Event
  <2>2. ev.value \in Nat
    BY Zenon, <2>1, DiscoveryAssumption
  <2> QED BY <2>1, <2>2 DEF Weight, DefaultWeight, None
<1>5. /\ ev.type = "PUT" => /\ cur'.agent = ev.agent /\ cur'.weight = Weight(ev.value)
                            /\ cur' \in [agent : Providers, weight : Nat, idx : Nat]
  BY SMTT(30), <1>1, <1>4
<1>6. DType' /\ ListInv'
  BY Zenon, <1>1, <1>3, <1>5 DEF DType, ListInv, AgentOnce
<1>7. \A k \in 1..Len(watch') : k + 1 \in 1..Len(watch)
  BY <1>2, <1>3
<1>8. \A k \in 1..Len(watch) : k = 1 \/ (k - 1 \in 1..Len(watch') /\ watch[k] = watch'[k - 1])
  BY SMTT(30), <1>2, <1>3
<1>9. ASSUME NEW p \in Providers, NEW k \in 1..Len(watch'), IsPut(watch'[k], p),
             \A j \in 1..Len(watch') : IsPut(watch'[j], p) => j <= k
      PROVE  watch'[k].value = latest'[p]
  <2>1. \A j \in 1..Len(watch) : IsPut(watch[j], p) => j <= k + 1
    <3> SUFFICES ASSUME NEW j \in 1..Len(watch), IsPut(watch[j], p) PROVE j <= k + 1
      OBVIOUS
    <3>1. CASE j = 1
      BY <3>1
    <3>2. CASE j # 1
      <4>1. j - 1 \in 1..Len(watch') /\ IsPut(watch'[j - 1], p)
        BY <1>8, <3>2
      <4>2. j - 1 <= k
        BY <1>9, <4>1
      <4> QED BY <4>2
    <3> QED BY <3>1, <3>2
  <2>2. k + 1 \in 1..Len(watch) /\ watch[k + 1] = watch'[k]
    BY Zenon, <1>3, <1>7
  <2> QED BY <1>1, <1>9, <2>1, <2>2 DEF WeightInv
<1>10. ASSUME NEW p \in Providers, \A k \in 1..Len(watch') : ~IsPut(watch'[k], p),
              ~IsPut(ev, p)
       PROVE  /\ \A i \in 1..Len(agents) : agents[i] = p => weights[i] = Due(p)
              /\ apc' # "idle" => cur'.agent # p
  <2>1. \A k \in 1..Len(watch) : ~IsPut(watch[k], p)
    BY Zenon, <1>2, <1>8, <1>10
  <2> QED BY Zenon, <1>1, <1>5, <1>10, <2>1 DEF WeightInv, IsPut
<1>11. ASSUME NEW p \in Providers, \A k \in 1..Len(watch') : ~IsPut(watch'[k], p),
              IsPut(ev, p)
       PROVE  apc' = "look" /\ cur'.agent = p /\ cur'.weight = Due(p)
  <2>1. 1 \in 1..Len(watch) /\ \A j \in 1..Len(watch) : IsPut(watch[j], p) => j <= 1
    BY SMTT(30), <1>2, <1>8, <1>11
  <2>2. ev.value = latest[p]
    BY <1>2, <1>11, <2>1 DEF WeightInv
  <2> QED BY Zenon, <1>1, <1>4, <1>5, <1>11, <2>2 DEF IsPut, Due
<1>12. WeightInv'
  BY ZenonT(60), <1>1, <1>9, <1>10, <1>11 DEF WeightInv, Due
<1> QED BY <1>6, <1>12

\* Every step of RegisterInterface, ListenInterface, AddAgent and etcd.
LEMMA DNext == ASSUME DInv, [DiscoveryNext]_discoveryVars PROVE DInv'
<1> USE DEF DInv
<1>0. ASSUME UNCHANGED <<watch, latest, apc, cur, agents, weights>>,
             cpc' = cpc \/ cpc # "watch"
      PROVE  DInv'
  BY <1>0 DEF DType, ListInv, AgentOnce, WeightInv, Due
<1>1. CASE ListenGet \/ ListenWatch \/ UNCHANGED discoveryVars
  BY <1>0, <1>1 DEF ListenGet, ListenWatch, discoveryVars, etcd, adding
<1>2. ASSUME NEW p \in Providers, ListenKey(p) PROVE DInv'
  <2>1. /\ cpc = "list" /\ apc = "idle" /\ apc' = "look"
        /\ cur' = [agent |-> p, weight |-> DefaultWeight, idx |-> 0]
        /\ UNCHANGED <<watch, latest, cpc, agents, weights>>
    BY <1>2 DEF ListenKey, CallAddAgent, etcd
  <2>2. /\ cur'.agent = p /\ cur'.weight = DefaultWeight
        /\ cur' \in [agent : Providers, weight : Nat, idx : Nat]
    BY SMTT(30), <2>1 DEF DefaultWeight
  <2>3. \A q \in Providers : Due(q) = DefaultWeight /\ Due(q)' = DefaultWeight
    BY Zenon, <2>1 DEF WeightInv, Due
  <2> QED BY ZenonT(90), <2>1, <2>2, <2>3 DEF DType, ListInv, AgentOnce, WeightInv
<1>3. CASE AddAgentDial
  BY SMTT(30), <1>3 DEF AddAgentDial, etcd, DType, ListInv, AgentOnce, WeightInv, Due
<1>4. ASSUME NEW p \in Providers, Grant(p) \/ KeepAlive(p) \/ Crash(p) PROVE DInv'
  BY ZenonT(60), <1>0, <1>4 DEF Grant, KeepAlive, Crash, etcd, adding
<1>5. ASSUME NEW p \in Providers, Put(p) \/ Expire(p) PROVE DInv'
  BY Zenon, <1>5, HappensStep, DiscoveryAssumption DEF Put, Expire, adding
<1>6. ASSUME NEW p \in Providers, NEW v \in Values, OperatorPut(p, v) PROVE DInv'
  BY <1>6, HappensStep DEF OperatorPut, adding
<1> QED
  BY <1>1, <1>2, <1>3, <1>4, <1>5, <1>6, EventStep, LookStep, AgentAddStep, AgentUpdateStep
     DEF DiscoveryNext, ListenInterface, RegisterInterface, AddAgent

\* Whatever providers, operators and leases do while AddAgent runs, the list
\* of agents has every address once, and once all events have been dealt with
\* every agent has the weight of its last PUT.
THEOREM ListIsRight == DiscoverySpec => []ListedOnceUpToDate
<1>1. DInv => ListedOnceUpToDate
  <2> SUFFICES ASSUME DInv PROVE ListedOnceUpToDate
    OBVIOUS
  <2>1. /\ DOMAIN agents = 1..Len(agents) /\ Len(<< >>) = 0
        /\ \A i \in 1..Len(agents) : agents[i] \in Providers
    BY SMTT(30), LenProperties DEF DInv, DType
  <2> QED BY <2>1 DEF DInv, ListInv, WeightInv, ListedOnceUpToDate, WeightIsLatest, Due
<1>2. DInv /\ [DiscoveryNext]_discoveryVars => DInv'
  BY DNext
<1> QED BY DInit, <1>1, <1>2, PTL DEF DiscoverySpec
-----------------------------------------------------------------------------
(* Types.                                                                   *)

Call == [agent : Providers, weight : Nat \ {0}, idx : Nat]

\* Nobody is not the argument of a call, so that a weight is positive.
TInv == DInv /\ DiscoveryTypeOK /\ (apc # "idle" => cur \in Call)

\* The consumer's variables, changed by AddAgent and its calls.
ListType ==
    /\ apc \in {"idle", "look", "dial", "add", "lb"}
    /\ cur = Nobody \/ cur \in Call
    /\ apc # "idle" => cur \in Call
    /\ agents \in Seq(Providers)
    /\ weights \in Seq(Nat \ {0}) /\ Len(weights) = Len(agents)

\* The variables of etcd, of the providers and of ListenInterface.
StoreType ==
    /\ store \in [Providers -> [value : Values, lease : Nat \cup {-1}]]
    /\ ppc \in [Providers -> {"down", "granted", "put", "up"}]
    /\ starts \in [Providers -> Nat] /\ puts \in 0..MaxPuts
    /\ cpc \in {"get", "list", "watch"}
    /\ todo \subseteq Providers

\* TInv by its parts.
LEMMA TInvParts == TInv <=> DInv /\ ListType /\ StoreType
  BY DEF TInv, DInv, DType, DiscoveryTypeOK, ListType, StoreType, Call, Event

\* AddAgent leaves the list and the weights as long as each other, and the
\* weights positive.
LEMMA AddAgentType == ASSUME DInv, ListType, AddAgent PROVE ListType'
<1>1. CASE AddAgentLook
  <2>1. /\ apc = "look" /\ apc' \in {"lb", "dial"} /\ UNCHANGED <<agents, weights>>
        /\ \E k : cur' = [cur EXCEPT !.idx = k]
    BY <1>1 DEF AddAgentLook
  <2>2. cur' \in [agent : Providers, weight : Nat, idx : Nat]
    BY <1>1, <2>1, LookStep DEF DInv, DType
  <2>3. cur \in Call /\ cur'.weight = cur.weight
    BY <2>1 DEF ListType, Call
  <2>4. cur' \in Call
    BY <2>2, <2>3 DEF Call
  <2> QED BY <2>1, <2>4 DEF ListType
<1>2. CASE AddAgentDial
  BY Zenon, <1>2 DEF AddAgentDial, ListType
<1>3. CASE AddAgentAdd
  <2>1. /\ apc = "add" /\ apc' = "lb" /\ cur' = cur /\ cur \in Call /\ cur.agent \in Providers
        /\ agents' = Append(agents, cur.agent) /\ weights' = Append(weights, DefaultWeight)
    BY <1>3 DEF AddAgentAdd, ListType, Call
  <2>2. DefaultWeight \in Nat \ {0}
    BY SMTT(30) DEF DefaultWeight
  <2>3. agents' \in Seq(Providers) /\ Len(agents') = Len(agents) + 1
    BY Zenon, <2>1, AppendProperties DEF ListType
  <2>4. weights' \in Seq(Nat \ {0}) /\ Len(weights') = Len(weights) + 1
    BY Zenon, <2>1, <2>2, AppendProperties DEF ListType
  <2> QED BY Zenon, <2>1, <2>3, <2>4 DEF ListType
<1>4. CASE AddAgentUpdate
  <2>1. /\ apc = "lb" /\ apc' = "idle" /\ cur' = Nobody /\ agents' = agents
        /\ weights' = [weights EXCEPT ![cur.idx] = cur.weight]
        /\ cur.weight \in Nat \ {0}
    BY Zenon, <1>4 DEF AddAgentUpdate, ListType, Call
  <2>2. cur.idx \in 1..Len(weights) /\ weights \in Seq(Nat \ {0})
    BY Zenon, <2>1 DEF DInv, ListInv, ListType
  <2>3. weights' \in Seq(Nat \ {0}) /\ Len(weights') = Len(weights)
    BY SMTT(30), <2>1, <2>2, ExceptSeq
  <2> QED BY Zenon, <2>1, <2>3 DEF ListType
<1> QED BY <1>1, <1>2, <1>3, <1>4 DEF AddAgent

\* Every step of RegisterInterface, ListenInterface, AddAgent and etcd.
LEMMA TNext == ASSUME TInv, [DiscoveryNext]_discoveryVars PROVE TInv'
<1>0. DInv /\ ListType /\ StoreType /\ DInv'
  BY Zenon, TInvParts, DNext DEF TInv
<1> SUFFICES ListType' /\ StoreType'
  BY Zenon, <1>0 DEF TInv, DInv, DType, DiscoveryTypeOK, ListType, StoreType, Call, Event
<1>1. CASE AddAgent
  <2>1. UNCHANGED <<store, ppc, starts, puts, cpc, todo>>
    BY <1>1 DEF AddAgent, AddAgentLook, AddAgentDial, AddAgentAdd, AddAgentUpdate, etcd, providers
  <2> QED BY <1>0, <1>1, <2>1, AddAgentType DEF StoreType
<1>2. CASE ListenGet \/ ListenWatch \/ UNCHANGED discoveryVars
  BY Zenon, <1>0, <1>2 DEF ListenGet, ListenWatch, ListType, StoreType, etcd, providers, adding, discoveryVars
<1>3. ASSUME NEW p \in Providers, ListenKey(p) PROVE ListType' /\ StoreType'
  <2>1. DefaultWeight \in Nat \ {0}
    BY SMTT(30) DEF DefaultWeight
  <2> QED BY <1>0, <1>3, <2>1
             DEF ListenKey, CallAddAgent, ListType, StoreType, Call, etcd, providers
<1>4. CASE ListenEvent
  <2>1. Head(watch) \in Event
    BY Zenon, <1>0, <1>4, HeadTailProperties DEF ListenEvent, DInv, DType
  <2>2. Head(watch).agent \in Providers /\ Weight(Head(watch).value) \in Nat \ {0}
    <3>1. Head(watch).agent \in Providers /\ Head(watch).value \in Values
      BY <2>1 DEF Event
    <3>2. Head(watch).value \in Nat
      BY Zenon, <3>1, DiscoveryAssumption
    <3> QED BY <3>1, <3>2 DEF Weight, DefaultWeight
  <2>3. UNCHANGED <<store, ppc, starts, puts, cpc, todo, agents, weights>>
    BY Zenon, <1>4 DEF ListenEvent, CallAddAgent, providers, adding
  <2>4. \/ apc' = apc /\ cur' = cur
        \/ apc' = "look" /\ cur' = [agent |-> Head(watch).agent,
                                    weight |-> Weight(Head(watch).value), idx |-> 0]
    BY Zenon, <1>4 DEF ListenEvent, CallAddAgent, adding
  <2> QED BY SMTT(30), <1>0, <2>2, <2>3, <2>4 DEF ListType, StoreType, Call
<1>5. ASSUME NEW p \in Providers, Grant(p) \/ KeepAlive(p) \/ Crash(p)
      PROVE  ListType' /\ StoreType'
  <2>1. UNCHANGED <<store, puts, cpc, todo, apc, cur, agents, weights>>
    BY Zenon, <1>5 DEF Grant, KeepAlive, Crash, etcd, adding
  <2>2. ppc' \in [Providers -> {"down", "granted", "put", "up"}]
    BY Zenon, <1>0, <1>5 DEF Grant, KeepAlive, Crash, StoreType
  <2>3. starts' \in [Providers -> Nat]
    BY SMTT(30), <1>0, <1>5 DEF Grant, KeepAlive, Crash, StoreType
  <2> QED BY Zenon, <1>0, <2>1, <2>2, <2>3 DEF ListType, StoreType
<1>6. ASSUME NEW p \in Providers, NEW key \in [value : Values, lease : Nat \cup {-1}],
             store' = [store EXCEPT ![p] = key],
             UNCHANGED <<starts, cpc, todo, apc, cur, agents, weights>>,
             ppc' \in [Providers -> {"down", "granted", "put", "up"}], puts' \in 0..MaxPuts
      PROVE  ListType' /\ StoreType'
  BY SMTT(30), <1>0, <1>6 DEF ListType, StoreType
<1>7. ASSUME NEW p \in Providers, Put(p) PROVE ListType' /\ StoreType'
  <2>1. [value |-> 0, lease |-> starts[p]] \in [value : Values, lease : Nat \cup {-1}]
    BY Zenon, <1>0, DiscoveryAssumption DEF StoreType
  <2>2. ppc' \in [Providers -> {"down", "granted", "put", "up"}] /\ puts' \in 0..MaxPuts
    BY <1>0, <1>7 DEF Put, StoreType
  <2> QED BY Zenon, <1>6, <1>7, <2>1, <2>2 DEF Put, adding
<1>8. ASSUME NEW p \in Providers, Expire(p) PROVE ListType' /\ StoreType'
  <2>1. NoKey \in [value : Values, lease : Nat \cup {-1}]
    BY DiscoveryAssumption DEF NoKey
  <2> QED BY Zenon, <1>0, <1>6, <1>8, <2>1 DEF Expire, StoreType, providers, adding
<1>9. ASSUME NEW p \in Providers, NEW v \in Values, OperatorPut(p, v)
      PROVE  ListType' /\ StoreType'
  <2>1. [value |-> v, lease |-> 0] \in [value : Values, lease : Nat \cup {-1}]
    OBVIOUS
  <2>2. puts' \in 0..MaxPuts /\ ppc' = ppc
    BY <1>0, <1>9, DiscoveryAssumption DEF OperatorPut, StoreType
  <2> QED BY ZenonT(60), <1>0, <1>6, <1>9, <2>1, <2>2 DEF OperatorPut, StoreType, adding
<1> QED
  BY Zenon, <1>1, <1>2, <1>3, <1>4, <1>5, <1>7, <1>8, <1>9
     DEF DiscoveryNext, ListenInterface, RegisterInterface

\* The consumer's list and its balancer are as long as each other, and every
\* weight in it is positive, whatever an operator puts in etcd.
THEOREM TypeCorrect == DiscoverySpec => []DiscoveryTypeOK
<1>1. DiscoveryInit => TInv
  <2> SUFFICES ASSUME DiscoveryInit PROVE ListType /\ StoreType
    BY DInit, TInvParts
  <2> QED BY DiscoveryAssumption DEF DiscoveryInit, ListType, StoreType, NoKey
<1>2. TInv /\ [DiscoveryNext]_discoveryVars => TInv'
  BY TNext
<1>3. TInv => DiscoveryTypeOK
  BY DEF TInv
<1> QED BY <1>1, <1>2, <1>3, PTL DEF DiscoverySpec

-----------------------------------------------------------------------------
(* Discovery uses the manager as ConnManager describes.                     *)

\* What AddAgent may be asked to set, and the shares the balancer makes of it.
GivenWeights == {Weight(v) : v \in Values}
SharesOf(w) == [i \in DOMAIN w |-> w[i] \div 100]

\* A weight on its way to the balancer is one that ListenInterface made of a
\* value.
GivenInv == apc # "idle" => cur.weight \in GivenWeights

\* ListenInterface calls AddAgent with the default weight, or with one that
\* Atoi read from an event (remote_agent.go:239-277); AddAgent keeps it.
LEMMA GivenNext ==
    ASSUME DInv, GivenInv, [DiscoveryNext]_discoveryVars
    PROVE  GivenInv'
<1>1. DefaultWeight \in GivenWeights
  <2>1. 0 \in Values /\ Weight(0) = DefaultWeight
    BY SMTT(30), DiscoveryAssumption DEF Weight
  <2> QED BY Zenon, <2>1 DEF GivenWeights
<1>2. CASE ListenEvent
  <2>1. watch \in Seq(Event) /\ watch # << >>
    BY <1>2 DEF ListenEvent, DInv, DType
  <2>2. Head(watch) \in Event
    BY <2>1, HeadTailProperties
  <2>3. Head(watch).value \in Values
    BY <2>2 DEF Event
  <2>4. Weight(Head(watch).value) \in GivenWeights
    BY ZenonT(60), <2>3 DEF GivenWeights
  <2>5. \/ cur' = [agent |-> Head(watch).agent, weight |-> Weight(Head(watch).value), idx |-> 0]
        \/ apc' = apc /\ cur' = cur
    BY SMTT(30), <1>2 DEF ListenEvent, CallAddAgent, adding
  <2>6. CASE cur' = [agent |-> Head(watch).agent, weight |-> Weight(Head(watch).value), idx |-> 0]
    BY Zenon, <2>4, <2>6 DEF GivenInv
  <2>7. CASE apc' = apc /\ cur' = cur
    BY Zenon, <2>7 DEF GivenInv, GivenWeights
  <2> QED BY Zenon, <2>5, <2>6, <2>7
<1>3. ASSUME NEW p \in Providers, ListenKey(p) PROVE GivenInv'
  <2>1. cur' = [agent |-> p, weight |-> DefaultWeight, idx |-> 0]
    BY <1>3 DEF ListenKey, CallAddAgent
  <2>2. cur'.weight = DefaultWeight
    BY Zenon, <2>1
  <2> QED BY Zenon, <1>1, <2>2 DEF GivenInv
<1>4. CASE AddAgentLook
  <2>1. apc # "idle" /\ cur \in [agent : Providers, weight : Nat, idx : Nat]
    BY <1>4 DEF AddAgentLook, DInv, DType
  <2>2. \E n : cur' = [cur EXCEPT !.idx = n]
    BY Zenon, <1>4 DEF AddAgentLook
  <2>3. cur'.weight = cur.weight
    BY Zenon, <2>1, <2>2
  <2> QED BY <2>1, <2>3 DEF GivenInv
<1>5. CASE AddAgentDial \/ AddAgentAdd \/ AddAgentUpdate
  BY <1>5 DEF GivenInv, AddAgentDial, AddAgentAdd, AddAgentUpdate
<1>6. CASE UNCHANGED <<apc, cur>>
  BY Zenon, <1>6 DEF GivenInv
<1> QED BY Zenon, <1>2, <1>3, <1>4, <1>5, <1>6
        DEF DiscoveryNext, ListenInterface, ListenGet, ListenWatch, AddAgent, RegisterInterface,
            Grant, Put, KeepAlive, Crash, Expire, OperatorPut, adding, discoveryVars

\* The shares of a list of weights are a list as long.
LEMMA SharesSeq ==
    ASSUME NEW w \in Seq(Nat)
    PROVE  /\ SharesOf(w) \in Seq(Nat) /\ Len(SharesOf(w)) = Len(w)
           /\ \A i \in 1..Len(w) : SharesOf(w)[i] = w[i] \div 100
<1>1. Len(w) \in Nat /\ DOMAIN w = 1..Len(w)
  BY LenProperties
<1>2. \A i \in 1..Len(w) : w[i] \div 100 \in Nat
  <2> TAKE i \in 1..Len(w)
  <2>1. w[i] \in Nat
    BY ElementOfSeq
  <2> QED BY <2>1
<1>3. SharesOf(w) = [i \in 1..Len(w) |-> w[i] \div 100]
  BY Zenon, <1>1 DEF SharesOf
<1> QED BY <1>1, <1>2, <1>3

\* LoadBalancer.Update at the end of the slices, and at an index of them.
LEMMA SharesAppend ==
    ASSUME NEW w \in Seq(Nat), NEW x \in Nat
    PROVE  SharesOf(Append(w, x)) = Append(SharesOf(w), x \div 100)
<1>1. x \div 100 \in Nat /\ Len(w) \in Nat
  BY LenProperties
<1>2. PICK v : v = Append(w, x)
  BY Zenon
<1>3. v \in Seq(Nat) /\ Len(v) = Len(w) + 1 /\ v[Len(w) + 1] = x
      /\ \A i \in 1..Len(w) : v[i] = w[i]
  BY <1>2, AppendProperties
<1>4. PICK s : s = SharesOf(w)
  BY Zenon
<1>5. s \in Seq(Nat) /\ Len(s) = Len(w) /\ \A i \in 1..Len(w) : s[i] = w[i] \div 100
  BY Zenon, <1>4, SharesSeq
<1>6. PICK t : t = Append(s, x \div 100)
  BY Zenon
<1>7. t \in Seq(Nat) /\ Len(t) = Len(w) + 1 /\ t[Len(w) + 1] = x \div 100
      /\ \A i \in 1..Len(w) : t[i] = s[i]
  BY SMTT(30), <1>1, <1>5, <1>6, AppendProperties
<1>8. SharesOf(v) \in Seq(Nat) /\ Len(SharesOf(v)) = Len(v)
      /\ \A i \in 1..Len(v) : SharesOf(v)[i] = v[i] \div 100
  BY Zenon, <1>3, SharesSeq
<1>9. \A i \in 1..Len(v) : SharesOf(v)[i] = t[i]
  <2> TAKE i \in 1..Len(v)
  <2>1. i \in 1..Len(w) \/ i = Len(w) + 1
    BY <1>1, <1>3
  <2> QED BY SMTT(30), <1>3, <1>5, <1>7, <1>8, <2>1
<1>10. SharesOf(v) = t
  BY SMTT(30), <1>3, <1>7, <1>8, <1>9, SeqEqual
<1> QED BY Zenon, <1>2, <1>4, <1>6, <1>10

\* The same of an index of the slices.
LEMMA SharesExcept ==
    ASSUME NEW w \in Seq(Nat), NEW k \in 1..Len(w), NEW x \in Nat
    PROVE  SharesOf([w EXCEPT ![k] = x]) = [SharesOf(w) EXCEPT ![k] = x \div 100]
<1>1. w \in [1..Len(w) -> Nat]
  BY LenProperties
<1>2. PICK D : D = 1..Len(w)
  BY Zenon
<1>3. w \in [D -> Nat] /\ k \in D
  BY Zenon, <1>1, <1>2
<1> QED BY Zenon, <1>3 DEF SharesOf

\* An empty list is an empty manager.
LEMMA ManagerInit == DiscoveryInit => Manager!Init
<1> SUFFICES ASSUME DiscoveryInit PROVE Manager!Init
  OBVIOUS
<1>1. agents = << >> /\ weights = << >> /\ Len(<< >>) = 0 /\ DOMAIN << >> = {}
  BY DEF DiscoveryInit
<1>2. SharesOf(weights) = << >>
  BY <1>1 DEF SharesOf
<1>3. Providers \ Range(agents) = Providers
  BY <1>1 DEF Range
<1> QED BY Zenon, <1>1, <1>2, <1>3 DEF Manager!Init, Manager!Nil, SharesOf

\* AddConnection of hackManager finds the agent neither in its list nor in the
\* balancer, although AddAgent has looked long before (remote_agent.go:94, :125).
LEMMA ManagerAdds ==
    ASSUME DInv, AddAgentAdd PROVE \E c \in Providers : Manager!AddConnection(c)
<1>1. /\ agents \in Seq(Providers) /\ weights \in Seq(Nat) /\ Len(weights) = Len(agents)
      /\ cur \in [agent : Providers, weight : Nat, idx : Nat]
      /\ \A i \in 1..Len(agents) : agents[i] # cur.agent
  BY DEF AddAgentAdd, DInv, DType, ListInv
<1>2. agents' = Append(agents, cur.agent) /\ weights' = Append(weights, 1000)
  BY DEF AddAgentAdd, DefaultWeight
<1>3. PICK a : a = cur.agent
  BY Zenon
<1>4. a \in Providers
  BY Zenon, <1>1, <1>3
<1>5. /\ Len(agents) \in Nat /\ DOMAIN agents = 1..Len(agents)
      /\ agents' \in Seq(Providers) /\ agents' # << >> /\ Len(agents') = Len(agents) + 1
      /\ \A i \in 1..Len(agents) : agents'[i] = agents[i]
      /\ agents'[Len(agents) + 1] = a
  BY <1>1, <1>2, <1>3, <1>4, LenProperties, AppendProperties
<1>6. DOMAIN agents' = 1..(Len(agents) + 1)
  BY Zenon, <1>5, LenProperties
<1>7. a \notin Range(agents)
  BY <1>1, <1>3, <1>5 DEF Range
<1>8. Range(agents') = Range(agents) \cup {a}
  <2>1. \A i \in DOMAIN agents' : i \in DOMAIN agents \/ i = Len(agents) + 1
    BY <1>5, <1>6
  <2>2. DOMAIN agents \subseteq DOMAIN agents' /\ Len(agents) + 1 \in DOMAIN agents'
    BY SMTT(30), <1>5, <1>6
  <2> QED BY Zenon, <1>5, <2>1, <2>2 DEF Range
<1>9. SharesOf(weights)' = Append(SharesOf(weights), 1000 \div 100)
  BY SMTT(30), <1>1, <1>2, SharesAppend DEF SharesOf
<1>10. Len(weights) <= Len(agents) /\ (Len(agents) = 0 <=> agents = << >>)
  BY <1>1, <1>5
<1>11. Manager!Update(Len(agents), 1000)
  <2> DEFINE base == IF agents = << >> THEN 0 ELSE 100
             shares == [i \in DOMAIN weights |-> weights[i] \div 100]
  <2>1. base' = 100 /\ base' = IF Len(agents) = 0 THEN 100 ELSE base
    BY <1>5, <1>10
  <2>2. shares' = Append(shares, 1000 \div 100)
    BY ZenonT(60), <1>9 DEF SharesOf
  <2>3. shares' = Append(shares, 1000 \div base')
    <3> HIDE DEF base, shares
    <3>1. PICK b : b = base' /\ b = 100
      BY Zenon, <2>1
    <3>2. shares' = Append(shares, 1000 \div b)
      BY <2>2, <3>1
    <3> QED BY <3>1, <3>2
  <2>4. Len(agents)' = Len(agents) + 1 /\ weights' = Append(weights, 1000)
    BY <1>2, <1>5
  <2> QED BY SMTT(30), <1>10, <2>1, <2>3, <2>4 DEF Manager!Update
<1>12. Manager!AddConnection(a)
  BY <1>2, <1>3, <1>4, <1>7, <1>8, <1>11 DEF Manager!AddConnection, Manager!counters
<1> QED BY Zenon, <1>4, <1>12

\* UpdateLB of hackManager gets an index of the list and a weight that
\* ListenInterface has made of a value (remote_agent.go:105, :127).
LEMMA ManagerUpdates ==
    ASSUME DInv, GivenInv, AddAgentUpdate
    PROVE  \E i \in 0..(Len(agents) - 1), w \in GivenWeights : Manager!UpdateLB(i, w)
<1>1. /\ agents \in Seq(Providers) /\ weights \in Seq(Nat) /\ Len(weights) = Len(agents)
      /\ cur \in [agent : Providers, weight : Nat, idx : Nat]
      /\ cur.idx \in 1..Len(agents)
  BY DEF AddAgentUpdate, DInv, DType, ListInv
<1>2. weights' = [weights EXCEPT ![cur.idx] = cur.weight] /\ agents' = agents
  BY DEF AddAgentUpdate
<1>3. PICK k, w : k = cur.idx /\ w = cur.weight
  BY Zenon
<1>4. Len(agents) \in Nat /\ k \in 1..Len(weights) /\ w \in Nat
  BY <1>1, <1>3, LenProperties
<1>5. SharesOf(weights)' = [SharesOf(weights) EXCEPT ![k] = w \div 100]
  BY Zenon, <1>1, <1>2, <1>3, <1>4, SharesExcept DEF SharesOf
<1>6. (k - 1) + 1 = k /\ ~(Len(weights) <= k - 1) /\ k - 1 < Len(agents) /\ agents # << >>
  BY <1>1, <1>4
<1>7. Manager!Update(k - 1, w)
  <2> DEFINE base == IF agents = << >> THEN 0 ELSE 100
             shares == [i \in DOMAIN weights |-> weights[i] \div 100]
  <2>1. base = 100 /\ base' = base /\ Len(agents)' = Len(agents)
    BY <1>2, <1>6
  <2>2. shares' = [shares EXCEPT ![(k - 1) + 1] = w \div base]
    BY Zenon, <1>5, <1>6, <2>1 DEF SharesOf
  <2>3. weights' = [weights EXCEPT ![(k - 1) + 1] = w]
    BY Zenon, <1>2, <1>3, <1>6
  <2> QED BY Zenon, <1>6, <2>1, <2>2, <2>3 DEF Manager!Update
<1>8. UNCHANGED (Providers \ Range(agents))
  BY <1>2 DEF Range
<1>9. Manager!UpdateLB(k - 1, w)
  BY Zenon, <1>2, <1>6, <1>7, <1>8 DEF Manager!UpdateLB, Manager!counters
<1>10. k - 1 \in 0..(Len(agents) - 1) /\ w \in GivenWeights
  BY <1>1, <1>3, <1>4 DEF GivenInv, AddAgentUpdate
<1> QED BY Zenon, <1>9, <1>10

\* Every step of ListenInterface, AddAgent, etcd and the providers is a step of
\* the manager or leaves it as it is.
LEMMA ManagerStep ==
    ASSUME DInv, GivenInv, [DiscoveryNext]_discoveryVars
    PROVE  [Manager!Next]_(Manager!vars)
<1>1. CASE UNCHANGED <<agents, weights>>
  <2>1. UNCHANGED <<Range(agents), Len(agents), SharesOf(weights)>>
    BY Zenon, <1>1 DEF Range, SharesOf
  <2> QED BY Zenon, <1>1, <2>1 DEF Manager!vars, SharesOf
<1>2. CASE AddAgentAdd
  BY Zenon, <1>2, ManagerAdds DEF Manager!Next
<1>3. CASE AddAgentUpdate
  BY <1>3, ManagerUpdates DEF Manager!Next, GivenWeights
<1>4. CASE AddAgentLook \/ AddAgentDial
  BY Zenon, <1>1, <1>4 DEF AddAgentLook, AddAgentDial
<1>5. CASE ListenGet \/ ListenWatch \/ ListenEvent \/ UNCHANGED discoveryVars
  BY SMTT(30), <1>1, <1>5 DEF ListenGet, ListenWatch, ListenEvent, CallAddAgent, adding, discoveryVars
<1>6. ASSUME NEW p \in Providers,
             ListenKey(p) \/ RegisterInterface(p) \/ Crash(p) \/ Expire(p)
      PROVE  UNCHANGED <<agents, weights>>
  BY Zenon, <1>6 DEF ListenKey, CallAddAgent, RegisterInterface, Grant, Put, KeepAlive, Crash,
              Expire, adding
<1>7. ASSUME NEW p \in Providers, NEW v \in Values, OperatorPut(p, v)
      PROVE  UNCHANGED <<agents, weights>>
  BY <1>7 DEF OperatorPut, adding
<1> QED
  BY Zenon, <1>1, <1>2, <1>3, <1>4, <1>5, <1>6, <1>7 DEF DiscoveryNext, ListenInterface, AddAgent

\* AddAgent uses hackManager as ConnManager takes for granted, for any number of
\* providers, restarts and weights: an agent is added once, although AddAgent
\* looks and adds in two calls with the lock of the manager released between
\* them, and UpdateLB is never given an index past the list.
THEOREM ManagerIsUsed == DiscoverySpec => UsesManager
<1> DEFINE UseInv == DInv /\ GivenInv
<1>1. DiscoveryInit => UseInv /\ Manager!Init
  BY DInit, ManagerInit DEF DiscoveryInit, GivenInv
<1>2. UseInv /\ [DiscoveryNext]_discoveryVars => UseInv'
  BY DNext, GivenNext
<1>3. UseInv /\ [DiscoveryNext]_discoveryVars => [Manager!Next]_(Manager!vars)
  BY ManagerStep
<1> HIDE DEF UseInv
<1> QED BY <1>1, <1>2, <1>3, PTL DEF DiscoverySpec, UsesManager
=============================================================================
