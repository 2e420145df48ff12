--------------------------- MODULE ConnPoolProofs ---------------------------
(***************************************************************************)
(* No connection is leaked, and the spawned creations are bounded, for any  *)
(* connections, request goroutines and pool size, in both uses of a pool.   *)
(***************************************************************************)
EXTENDS ConnPool, FiniteSetTheorems, TLAPS

\* The parts of TypeOK that the argument needs.
PoolType ==
    /\ alive \in [Conns -> {"unused", "up", "down", "closed"}]
    /\ pc \in [Actors -> {"idle", "get", "create", "add"}]
    /\ mine \in [Actors -> Conns \cup {Nil}]

\* Who holds a dialed connection is about to add it: nobody dials a second one
\* over it.
HeldIsAdded == \A a \in Actors : mine[a] # Nil => pc[a] = "add"

PoolInv == PoolType /\ HeldIsAdded /\ OpenIsPooled

\* Nothing is held, pooled or open before the first creation.
LEMMA InitPoolInv == Init => PoolInv
  BY DEF Init, PoolInv, PoolType, HeldIsAdded, OpenIsPooled

\* Every step of outConnect, AddConnection, DeleteConnection and of the
\* callers of GetConnection keeps an open connection in the pool or in the
\* hands of who will add it.
LEMMA NextPoolInv == PoolInv /\ [Next]_vars => PoolInv'
  <1> SUFFICES ASSUME PoolInv, [Next]_vars PROVE PoolInv'
    OBVIOUS
  <1> USE DEF PoolInv, PoolType
  <1>1. CASE AddAgentCreate
    BY <1>1 DEF AddAgentCreate, HeldIsAdded, OpenIsPooled, BeingAdded, Actors
  <1>2. ASSUME NEW a \in Callers, Request(a) PROVE PoolInv'
    BY <1>2 DEF Request, HeldIsAdded, OpenIsPooled, BeingAdded, Actors
  <1>3. ASSUME NEW a \in Actors, GetConnection(a) PROVE PoolInv'
    BY <1>3 DEF GetConnection, HeldIsAdded, OpenIsPooled, BeingAdded
  <1>4. ASSUME NEW a \in Actors, CreateFail(a) PROVE PoolInv'
    BY <1>4 DEF CreateFail, HeldIsAdded, OpenIsPooled, BeingAdded
  <1>5. ASSUME NEW a \in Actors, CreateAdd(a) PROVE PoolInv'
    <2>1. PoolType' /\ HeldIsAdded'
      BY <1>5 DEF CreateAdd, HeldIsAdded
    <2>2. OpenIsPooled'
      BY <1>5 DEF CreateAdd, OpenIsPooled, BeingAdded
    <2> QED BY <2>1, <2>2
  <1>6. ASSUME NEW a \in Actors, NEW c \in Conns, CreateDial(a, c) PROVE PoolInv'
    <2>1. PoolType' /\ HeldIsAdded'
      BY <1>6 DEF CreateDial, HeldIsAdded
    <2>2. mine[a] = Nil
      BY <1>6 DEF CreateDial, HeldIsAdded
    <2>3. ASSUME NEW d \in Conns, alive'[d] \in {"up", "down"}, ~BeingAdded(d)'
          PROVE  d \in pool'
      <3>1. d # c
        BY <1>6, <2>3 DEF CreateDial, BeingAdded
      <3>2. ~BeingAdded(d)
        BY <1>6, <2>2, <2>3, ConstAssumption DEF CreateDial, BeingAdded
      <3> QED BY <1>6, <2>3, <3>1, <3>2 DEF CreateDial, OpenIsPooled
    <2> QED BY <2>1, <2>3 DEF OpenIsPooled
  <1>7. CASE SpawnFail
    BY <1>7 DEF SpawnFail, HeldIsAdded, OpenIsPooled, BeingAdded
  <1>8. ASSUME NEW c \in Conns, SpawnDial(c) PROVE PoolInv'
    BY <1>8 DEF SpawnDial, HeldIsAdded, OpenIsPooled, BeingAdded
  <1>9. ASSUME NEW c \in Conns, SpawnAdd(c) PROVE PoolInv'
    BY <1>9 DEF SpawnAdd, HeldIsAdded, OpenIsPooled, BeingAdded
  <1>10. ASSUME NEW c \in Conns, PeerClose(c) PROVE PoolInv'
    BY <1>10 DEF PeerClose, HeldIsAdded, OpenIsPooled, BeingAdded
  <1>11. ASSUME NEW c \in Conns, Closed(c) PROVE PoolInv'
    BY <1>11 DEF Closed, HeldIsAdded, OpenIsPooled, BeingAdded, Actors
  <1>12. CASE UNCHANGED vars
    BY <1>12 DEF vars, HeldIsAdded, OpenIsPooled, BeingAdded
  <1> QED
    BY <1>1, <1>2, <1>3, <1>4, <1>5, <1>6, <1>7, <1>8, <1>9, <1>10, <1>11, <1>12
       DEF Next

\* A connection that is open and whose creation is over is in the pool, in
\* every execution: overlapping creations, deletions and requests leak none.
THEOREM NoLeak == Spec => []OpenIsPooled
  <1>1. PoolInv => OpenIsPooled
    BY DEF PoolInv
  <1> QED BY InitPoolInv, NextPoolInv, <1>1, PTL DEF Spec

-----------------------------------------------------------------------------
(* The types, and how many creations are spawned.                           *)

\* TypeOK but for the bound on todo; who is about to add holds a connection.
SpawnType ==
    /\ kind \in Kinds
    /\ alive \in [Conns -> {"unused", "up", "down", "closed"}]
    /\ pool \subseteq Conns /\ adding \subseteq Conns
    /\ todo \in Nat
    /\ pc \in [Actors -> {"idle", "get", "create", "add"}]
    /\ mine \in [Actors -> Conns \cup {Nil}]
    /\ first \in 0..Default
    /\ calls \in [Callers -> 0..MaxCalls]
    /\ \A a \in Actors : pc[a] = "add" => mine[a] \in Conns
    /\ first > 0 => kind = "agent"

\* The requests begun and the connections closed, each of which spawns at most
\* Default creations, and the actors that have still to spawn theirs.
Begun == {r \in Callers \X (1..MaxCalls) : r[2] <= calls[r[1]]}
Over  == {c \in Conns : alive[c] = "closed"}
Owing == {a \in Actors :
            pc[a] = "get" \/ (kind = "dubbo" /\ pc[a] \in {"create", "add"})}

\* What is spawned, and what still can be, is within the budget.
Budget ==
    todo + Default * Cardinality(Owing)
        <= Default * (Cardinality(Begun) + Cardinality(Over))

SpawnInv == SpawnType /\ Budget

\* Missing is at most the size of a full pool.
LEMMA MissingBound ==
    ASSUME NEW n \in Nat
    PROVE  Missing(n) \in 0..Default
  BY ConstAssumption DEF Missing

\* The sets that are counted are finite.
LEMMA Finite ==
    /\ IsFiniteSet(Actors) /\ IsFiniteSet(Owing) /\ IsFiniteSet(Begun) /\ IsFiniteSet(Over)
    /\ Cardinality(Owing) \in Nat /\ Cardinality(Begun) \in Nat /\ Cardinality(Over) \in Nat
    /\ Cardinality(Begun) <= MaxCalls * Cardinality(Callers)
    /\ Cardinality(Over) <= Cardinality(Conns)
    /\ Cardinality(Callers) \in Nat /\ Cardinality(Conns) \in Nat
  <1>1. IsFiniteSet(Callers \cup {"loop"})
    BY ConstAssumption, FS_AddElement
  <1>2. IsFiniteSet((Callers \cup {"loop"}) \cup {"setup"})
    BY <1>1, FS_AddElement
  <1>3. (Callers \cup {"loop"}) \cup {"setup"} = Actors
    BY DEF Actors
  <1>4. IsFiniteSet(Actors)
    BY <1>2, <1>3
  <1>5. IsFiniteSet(Owing)
    <2>1. Owing \in SUBSET Actors
      BY DEF Owing
    <2> QED
      BY <1>4, <2>1, FS_Subset
  <1>6. IsFiniteSet(1..MaxCalls) /\ Cardinality(1..MaxCalls) = MaxCalls
    <2>1. 1 \in Int /\ MaxCalls \in Int
      BY ConstAssumption
    <2>2. /\ IsFiniteSet(1..MaxCalls)
          /\ Cardinality(1..MaxCalls) = IF 1 > MaxCalls THEN 0 ELSE MaxCalls - 1 + 1
      BY <2>1, FS_Interval
    <2> QED
      BY <2>2, ConstAssumption
  <1>7. Cardinality(Callers) \in Nat /\ Cardinality(Conns) \in Nat
    BY ConstAssumption, FS_CardinalityType
  <1>8. /\ IsFiniteSet(Callers \X (1..MaxCalls))
        /\ Cardinality(Callers \X (1..MaxCalls)) = Cardinality(Callers) * MaxCalls
    BY <1>6, ConstAssumption, FS_Product
  <1>9. IsFiniteSet(Begun) /\ Cardinality(Begun) <= Cardinality(Callers) * MaxCalls
    <2>1. Begun \in SUBSET (Callers \X (1..MaxCalls))
      BY DEF Begun
    <2> QED
      BY <1>8, <2>1, FS_Subset
  <1>10. IsFiniteSet(Over) /\ Cardinality(Over) <= Cardinality(Conns)
    <2>1. Over \in SUBSET Conns
      BY DEF Over
    <2> QED
      BY <2>1, ConstAssumption, FS_Subset
  <1>11. Cardinality(Callers) * MaxCalls = MaxCalls * Cardinality(Callers)
    BY <1>7, ConstAssumption
  <1>12. Cardinality(Owing) \in Nat /\ Cardinality(Begun) \in Nat /\ Cardinality(Over) \in Nat
    BY <1>5, <1>9, <1>10, FS_CardinalityType
  <1> QED
    BY <1>4, <1>5, <1>7, <1>9, <1>10, <1>11, <1>12

\* The budget after a step in which the counts change by one at most: what is
\* spawned is at most what one actor owed.
LEMMA BudgetMoves ==
    ASSUME NEW t \in Nat, NEW o \in Nat, NEW g \in Nat,
           t + Default * o <= Default * g
    PROVE  /\ t + Default * (o + 1) <= Default * (g + 1)
           /\ t + Default * o <= Default * (g + 1)
           /\ \A m \in 0..Default : o > 0 => (t + m) + Default * (o - 1) <= Default * g
  <1>1. Default \in Nat
    BY ConstAssumption
  <1>2. /\ Default * (o + 1) = Default * o + Default
        /\ Default * (g + 1) = Default * g + Default
        /\ Default * (o - 1) = Default * o - Default
        /\ Default * o \in Nat /\ Default * g \in Nat
    BY <1>1
  <1> QED
    BY <1>1, <1>2

\* Nothing is owed or spawned at the start.
LEMMA SpawnInit ==
    ASSUME Init
    PROVE  SpawnInv
  <1>1. SpawnType
    BY ConstAssumption DEF Init, SpawnType
  <1>2. Owing = {}
    BY DEF Init, Owing
  <1>3. Cardinality(Owing) = 0
    BY <1>2, FS_EmptySet
  <1>4. Default * 0 = 0 /\ 0 <= Default * (Cardinality(Begun) + Cardinality(Over))
    BY Finite, ConstAssumption
  <1>5. Budget
    BY SMTT(30), <1>3, <1>4 DEF Budget, Init
  <1> QED
    BY <1>1, <1>5 DEF SpawnInv

\* Every step keeps the types.
LEMMA SpawnTypeStep ==
    ASSUME SpawnType, [Next]_vars
    PROVE  SpawnType'
  <1> USE DEF SpawnType
  <1>1. CASE AddAgentCreate
    <2>1. first' \in 0..Default /\ (first' > 0 => kind = "agent")
      BY <1>1, ConstAssumption DEF AddAgentCreate
    <2>2. pc' \in [Actors -> {"idle", "get", "create", "add"}]
      BY Zenon, <1>1 DEF AddAgentCreate
    <2>3. \A b \in Actors : pc'[b] = "add" => mine'[b] \in Conns
      BY <1>1 DEF AddAgentCreate
    <2> QED
      BY <1>1, <2>1, <2>2, <2>3 DEF AddAgentCreate
  <1>2. ASSUME NEW a \in Callers, Request(a) PROVE SpawnType'
    <2>1. calls[a] + 1 \in 0..MaxCalls
      BY <1>2, ConstAssumption DEF Request
    <2>2. calls' \in [Callers -> 0..MaxCalls]
      BY <1>2, <2>1 DEF Request
    <2>3. pc' \in [Actors -> {"idle", "get", "create", "add"}]
      BY <1>2 DEF Request, Actors
    <2>4. \A b \in Actors : pc'[b] = "add" => mine'[b] \in Conns
      BY <1>2 DEF Request, Actors
    <2> QED
      BY <1>2, <2>2, <2>3, <2>4 DEF Request
  <1>3. ASSUME NEW a \in Actors, GetConnection(a) PROVE SpawnType'
    <2>1. Cardinality(pool) \in Nat
      BY ConstAssumption, FS_Subset, FS_CardinalityType
    <2>2. Missing(Cardinality(pool)) \in Nat /\ Missing(0) \in Nat
      BY <2>1, MissingBound, ConstAssumption
    <2>3. todo' \in Nat
      BY <1>3, <2>2 DEF GetConnection
    <2> QED
      BY <1>3, <2>3 DEF GetConnection
  <1>4. ASSUME NEW a \in Actors, CreateFail(a) PROVE SpawnType'
    BY <1>4 DEF CreateFail
  <1>5. ASSUME NEW a \in Actors, CreateAdd(a) PROVE SpawnType'
    <2>1. Missing(1) \in Nat
      BY MissingBound, ConstAssumption
    <2>2. todo' \in Nat
      BY <1>5, <2>1 DEF CreateAdd
    <2>3. pool' \subseteq Conns
      BY <1>5 DEF CreateAdd
    <2> QED
      BY <1>5, <2>2, <2>3 DEF CreateAdd
  <1>6. ASSUME NEW a \in Actors, NEW c \in Conns, CreateDial(a, c) PROVE SpawnType'
    BY <1>6 DEF CreateDial
  <1>7. CASE SpawnFail
    BY <1>7 DEF SpawnFail
  <1>8. ASSUME NEW c \in Conns, SpawnDial(c) PROVE SpawnType'
    BY <1>8 DEF SpawnDial
  <1>9. ASSUME NEW c \in Conns, SpawnAdd(c) PROVE SpawnType'
    BY <1>9 DEF SpawnAdd
  <1>10. ASSUME NEW c \in Conns, PeerClose(c) PROVE SpawnType'
    BY <1>10 DEF PeerClose
  <1>11. ASSUME NEW c \in Conns, Closed(c) PROVE SpawnType'
    BY <1>11 DEF Closed, Actors
  <1>12. CASE UNCHANGED vars
    BY <1>12 DEF vars
  <1> QED
    BY SMTT(30), <1>1, <1>2, <1>3, <1>4, <1>5, <1>6, <1>7, <1>8, <1>9, <1>10, <1>11, <1>12
       DEF Next

\* A step that owes and spawns nothing.
LEMMA BudgetKept ==
    ASSUME Budget, todo \in Nat, todo' \in Nat, todo' <= todo,
           Owing' = Owing, Begun' = Begun, Over' = Over
    PROVE  Budget'
  <1>1. Default * Cardinality(Owing) \in Nat
        /\ Default * (Cardinality(Begun) + Cardinality(Over)) \in Nat
    BY Finite, ConstAssumption
  <1>2. todo' + Default * Cardinality(Owing)
          <= Default * (Cardinality(Begun) + Cardinality(Over))
    BY <1>1 DEF Budget
  <1> QED
    BY <1>2 DEF Budget

\* A step in which an actor spawns what it owed.
LEMMA BudgetPaid ==
    ASSUME Budget, todo \in Nat, NEW a \in Owing, NEW m \in 0..Default,
           todo' = todo + m,
           Owing' = Owing \ {a}, Begun' = Begun, Over' = Over
    PROVE  Budget'
  <1>1. Cardinality(Owing') = Cardinality(Owing) - 1
    BY Zenon, Finite, FS_RemoveElement
  <1>2. Cardinality(Owing) > 0
    <2>1. Owing # {}
      OBVIOUS
    <2> QED
      BY <2>1, Finite, FS_EmptySet
  <1>3. (todo + m) + Default * (Cardinality(Owing) - 1)
          <= Default * (Cardinality(Begun) + Cardinality(Over))
    <2>1. Cardinality(Begun) + Cardinality(Over) \in Nat
      BY Finite
    <2> QED
      BY <1>2, <2>1, Finite, BudgetMoves DEF Budget
  <1> QED
    BY <1>1, <1>3 DEF Budget

\* A request or a close in which an actor comes to owe, or not.
LEMMA BudgetOwed ==
    ASSUME Budget, todo \in Nat, todo' = todo,
           \/ Owing' = Owing
           \/ \E a : a \notin Owing /\ Owing' = Owing \cup {a},
           \/ Over' = Over /\ \E r : r \notin Begun /\ Begun' = Begun \cup {r}
           \/ Begun' = Begun /\ \E c : c \notin Over /\ Over' = Over \cup {c}
    PROVE  Budget'
  <1>1. /\ Cardinality(Owing) \in Nat /\ Cardinality(Begun) \in Nat
        /\ Cardinality(Over) \in Nat
        /\ IsFiniteSet(Owing) /\ IsFiniteSet(Begun) /\ IsFiniteSet(Over)
    BY Finite
  <1>2. Cardinality(Owing') \in {Cardinality(Owing), Cardinality(Owing) + 1}
    BY <1>1, FS_AddElement
  <1>3. Cardinality(Begun') + Cardinality(Over') = (Cardinality(Begun) + Cardinality(Over)) + 1
    <2>1. CASE Over' = Over /\ \E r : r \notin Begun /\ Begun' = Begun \cup {r}
      <3>1. Cardinality(Begun') = Cardinality(Begun) + 1
        BY Zenon, <1>1, <2>1, FS_AddElement
      <3> QED
        BY <1>1, <2>1, <3>1
    <2>2. CASE Begun' = Begun /\ \E c : c \notin Over /\ Over' = Over \cup {c}
      <3>1. Cardinality(Over') = Cardinality(Over) + 1
        BY Zenon, <1>1, <2>2, FS_AddElement
      <3> QED
        BY <1>1, <2>2, <3>1
    <2> QED
      BY <2>1, <2>2
  <1>4. PICK g \in Nat : g = Cardinality(Begun) + Cardinality(Over)
    BY <1>1
  <1>5. todo + Default * Cardinality(Owing) <= Default * g
    BY <1>4 DEF Budget
  <1>6. /\ todo + Default * (Cardinality(Owing) + 1) <= Default * (g + 1)
        /\ todo + Default * Cardinality(Owing) <= Default * (g + 1)
    BY SMTT(30), <1>1, <1>4, <1>5, BudgetMoves
  <1>7. todo' + Default * Cardinality(Owing') <= Default * (g + 1)
    BY <1>2, <1>6
  <1> QED
    BY <1>3, <1>4, <1>7 DEF Budget

\* Every step keeps the budget: a request or the close of a connection makes
\* one actor owe a GetConnection, and each GetConnection spawns once.
LEMMA BudgetStep ==
    ASSUME SpawnInv, [Next]_vars
    PROVE  Budget'
  <1>1. SpawnType /\ SpawnType' /\ Budget
    BY SpawnTypeStep DEF SpawnInv
  <1>2. /\ todo \in Nat /\ todo' \in Nat /\ pool \subseteq Conns
        /\ alive \in [Conns -> {"unused", "up", "down", "closed"}]
        /\ pc \in [Actors -> {"idle", "get", "create", "add"}]
        /\ calls \in [Callers -> 0..MaxCalls]
        /\ kind \in {"agent", "dubbo"}
        /\ first > 0 => kind = "agent"
    BY <1>1, ConstAssumption DEF SpawnType
  <1>3. todo <= todo
    BY <1>2
  <1>4. CASE AddAgentCreate
    <2>1. kind = "agent"
      BY SMTT(30), <1>2, <1>4 DEF AddAgentCreate
    <2>2. Owing' = Owing /\ Begun' = Begun /\ Over' = Over /\ todo' = todo
      BY <1>2, <1>4, <2>1 DEF AddAgentCreate, Owing, Begun, Over, Actors
    <2> QED
      BY SMTT(30), <1>1, <1>2, <1>3, <2>2, BudgetKept
  <1>5. ASSUME NEW a \in Callers, Request(a) PROVE Budget'
    <2>1. PICK r : r = <<a, calls[a] + 1>>
      BY Zenon
    <2>2. calls[a] + 1 \in 1..MaxCalls /\ calls[a] \in Nat
      BY <1>2, <1>5, ConstAssumption DEF Request
    <2>3. r \notin Begun
      BY <2>1, <2>2 DEF Begun
    <2>4. Begun' = Begun \cup {r}
      <3>1. \A x \in Callers \X (1..MaxCalls) :
              x[2] <= calls'[x[1]] <=> x[2] <= calls[x[1]] \/ x = r
        <4>1. TAKE x \in Callers \X (1..MaxCalls)
        <4>2. CASE x[1] = a
          <5>1. calls'[x[1]] = calls[a] + 1 /\ x[2] \in Nat
            BY <1>2, <1>5, <4>2 DEF Request
          <5>2. x = r <=> x[2] = calls[a] + 1
            BY <2>1, <4>2
          <5> QED
            BY <2>2, <4>2, <5>1, <5>2
        <4>3. CASE x[1] # a
          <5>1. calls'[x[1]] = calls[x[1]] /\ x # r
            BY <1>2, <1>5, <2>1, <4>3 DEF Request
          <5> QED
            BY <5>1
        <4> QED
          BY <4>2, <4>3
      <3>2. r \in Callers \X (1..MaxCalls)
        BY <2>1, <2>2
      <3> QED
        BY <3>1, <3>2 DEF Begun
    <2>5. a \in Actors /\ a \notin Owing /\ Owing' = Owing \cup {a}
      BY <1>2, <1>5 DEF Request, Owing, Actors
    <2>6. Over' = Over /\ todo' = todo
      BY <1>5 DEF Request, Over
    <2> QED
      BY <1>1, <1>2, <2>3, <2>4, <2>5, <2>6, BudgetOwed
  <1>6. ASSUME NEW a \in Actors, GetConnection(a) PROVE Budget'
    <2>1. Cardinality(pool) \in Nat
      BY SMTT(30), <1>2, ConstAssumption, FS_Subset, FS_CardinalityType
    <2>2. Missing(Cardinality(pool)) \in 0..Default /\ Missing(0) \in 0..Default
      BY <2>1, MissingBound
    <2>3. a \in Owing /\ Begun' = Begun /\ Over' = Over
      BY <1>6 DEF GetConnection, Owing, Begun, Over
    <2>4. CASE pool # {}
      <3>1. Owing' = Owing \ {a} /\ todo' = todo + Missing(Cardinality(pool))
        BY <1>2, <1>6, <2>4 DEF GetConnection, Owing
      <3> QED
        BY SMTT(30), <1>1, <1>2, <2>2, <2>3, <3>1, BudgetPaid
    <2>5. CASE pool = {} /\ kind = "agent"
      <3>1. Owing' = Owing \ {a} /\ todo' = todo + Missing(0)
        BY <1>2, <1>6, <2>5 DEF GetConnection, Owing
      <3> QED
        BY SMTT(30), <1>1, <1>2, <2>2, <2>3, <3>1, BudgetPaid
    <2>6. CASE pool = {} /\ kind = "dubbo"
      <3>1. Owing' = Owing /\ todo' = todo
        BY <1>2, <1>6, <2>6 DEF GetConnection, Owing
      <3> QED
        BY SMTT(30), <1>1, <1>2, <1>3, <2>3, <3>1, BudgetKept
    <2> QED
      BY <1>2, <2>4, <2>5, <2>6
  <1>7. ASSUME NEW a \in Actors, CreateFail(a) PROVE Budget'
    <2>1. Owing' = Owing /\ Begun' = Begun /\ Over' = Over /\ todo' = todo
      BY <1>2, <1>7 DEF CreateFail, Owing, Begun, Over
    <2> QED
      BY <1>1, <1>2, <1>3, <2>1, BudgetKept
  <1>8. ASSUME NEW a \in Actors, CreateAdd(a) PROVE Budget'
    <2>1. Begun' = Begun /\ Over' = Over
      BY <1>8 DEF CreateAdd, Begun, Over
    <2>2. CASE kind = "dubbo"
      <3>1. a \in Owing /\ Owing' = Owing \ {a} /\ todo' = todo + Missing(1)
        BY <1>2, <1>8, <2>2 DEF CreateAdd, Owing
      <3> QED
        BY SMTT(30), <1>1, <1>2, <2>1, <3>1, MissingBound, BudgetPaid
    <2>3. CASE kind = "agent"
      <3>1. Owing' = Owing /\ todo' = todo
        BY <1>2, <1>8, <2>3 DEF CreateAdd, Owing
      <3> QED
        BY <1>1, <1>2, <1>3, <2>1, <3>1, BudgetKept
    <2> QED
      BY <1>2, <2>2, <2>3
  <1>9. ASSUME NEW a \in Actors, NEW c \in Conns, CreateDial(a, c) PROVE Budget'
    <2>1. Owing' = Owing /\ Begun' = Begun /\ Over' = Over /\ todo' = todo
      BY <1>2, <1>9 DEF CreateDial, Owing, Begun, Over
    <2> QED
      BY <1>1, <1>2, <1>3, <2>1, BudgetKept
  <1>10. CASE SpawnFail
    <2>1. Owing' = Owing /\ Begun' = Begun /\ Over' = Over /\ todo' <= todo
      BY <1>2, <1>10 DEF SpawnFail, Owing, Begun, Over
    <2> QED
      BY <1>1, <1>2, <2>1, BudgetKept
  <1>11. ASSUME NEW c \in Conns, SpawnDial(c) PROVE Budget'
    <2>1. Owing' = Owing /\ Begun' = Begun /\ Over' = Over
      BY <1>2, <1>11 DEF SpawnDial, Owing, Begun, Over
    <2>2. todo' <= todo
      BY <1>2, <1>11 DEF SpawnDial
    <2> QED
      BY <1>1, <1>2, <2>1, <2>2, BudgetKept
  <1>12. ASSUME NEW c \in Conns, SpawnAdd(c) \/ PeerClose(c) PROVE Budget'
    <2>1. Owing' = Owing /\ Begun' = Begun /\ Over' = Over /\ todo' = todo
      BY <1>2, <1>12 DEF SpawnAdd, PeerClose, Owing, Begun, Over
    <2> QED
      BY SMTT(30), <1>1, <1>2, <1>3, <2>1, BudgetKept
  <1>13. ASSUME NEW c \in Conns, Closed(c) PROVE Budget'
    <2>1. c \notin Over /\ Over' = Over \cup {c} /\ Begun' = Begun /\ todo' = todo
      BY <1>2, <1>13 DEF Closed, Over, Begun
    <2>2. "loop" \in Actors
      BY DEF Actors
    <2>3. CASE kind = "agent"
      <3>1. Owing' = Owing
        BY <1>2, <1>13, <2>2, <2>3 DEF Closed, Owing
      <3> QED
        BY <1>1, <1>2, <2>1, <3>1, BudgetOwed
    <2>4. CASE kind = "dubbo"
      <3>1. "loop" \notin Owing /\ Owing' = Owing \cup {"loop"}
        BY SMTT(30), <1>2, <1>13, <2>2, <2>4 DEF Closed, Owing
      <3> QED
        BY <1>1, <1>2, <2>1, <3>1, BudgetOwed
    <2> QED
      BY <1>2, <2>3, <2>4
  <1>14. CASE UNCHANGED vars
    <2>1. Owing' = Owing /\ Begun' = Begun /\ Over' = Over /\ todo' = todo
      BY <1>14 DEF vars, Owing, Begun, Over
    <2> QED
      BY <1>1, <1>2, <1>3, <2>1, BudgetKept
  <1> QED
    BY SMTT(30), <1>4, <1>5, <1>6, <1>7, <1>8, <1>9, <1>10, <1>11, <1>12, <1>13, <1>14 DEF Next

\* The pools are typed, and what GetConnection has spawned stays within Default
\* creations for each request and each connection that was closed, although
\* every GetConnection counts only what is in the pool and not what is on its
\* way there.
THEOREM SpawnsAreBounded == Spec => []TypeOK
  <1>1. Init => SpawnInv
    BY SpawnInit
  <1>2. SpawnInv /\ [Next]_vars => SpawnInv'
    BY SpawnTypeStep, BudgetStep DEF SpawnInv
  <1>3. SpawnInv => TypeOK
    <2> SUFFICES ASSUME SpawnInv PROVE TypeOK
      OBVIOUS
    <2>1. PICK b \in Nat : b = MaxCalls * Cardinality(Callers) + Cardinality(Conns)
      BY Finite, ConstAssumption
    <2>2. PICK g \in Nat : g = Cardinality(Begun) + Cardinality(Over)
      BY Finite
    <2>3. g <= b
      <3>1. PICK q \in Nat : q = MaxCalls * Cardinality(Callers)
        BY Finite, ConstAssumption
      <3> QED
        BY <2>1, <2>2, <3>1, Finite
    <2>4. Default * g <= Default * b /\ Default * b \in Nat
      BY <2>1, <2>2, <2>3, ConstAssumption
    <2>5. Default * Cardinality(Owing) \in Nat
      BY Finite, ConstAssumption
    <2>6. todo \in Nat /\ todo + Default * Cardinality(Owing) <= Default * g
      BY <2>2 DEF SpawnInv, SpawnType, Budget
    <2>7. todo <= Default * b
      <3>1. PICK x \in Nat : x = Default * Cardinality(Owing)
        BY <2>5
      <3>2. PICK y : y = Default * g
        OBVIOUS
      <3>3. y \in Nat
        BY <2>2, <3>2, ConstAssumption
      <3>4. PICK z \in Nat : z = Default * b
        BY <2>4
      <3> QED
        BY <2>4, <2>6, <3>1, <3>2, <3>3, <3>4
    <2>8. todo \in 0..(Default * (MaxCalls * Cardinality(Callers) + Cardinality(Conns)))
      BY <2>1, <2>4, <2>6, <2>7
    <2> QED
      BY <2>8 DEF SpawnInv, SpawnType, TypeOK
  <1> QED
    BY <1>1, <1>2, <1>3, PTL DEF Spec
=============================================================================
