------------------------------ MODULE ConnPool ------------------------------
(***************************************************************************)
(* A pool of outgoing connections: RemoteAgent's to a provider              *)
(* (remote_agent.go) or LocalDubboAgent's to dubbo (dubbo_agent.go).        *)
(* Request goroutines take a connection and have missing ones created; a    *)
(* creation dials, which registers the connection with a loop, and then     *)
(* adds it to the pool; the loop's Closed callback deletes the connection   *)
(* and creates a replacement.  AddAgent creates a provider's first          *)
(* connections before requests can find it.  ConnManager has the list       *)
(* itself; here the pool is a set, and each of its methods one step.        *)
(***************************************************************************)
EXTENDS Integers, FiniteSets

CONSTANTS
    Kinds,              \* whose pools: agent, dubbo
    Conns,              \* connection objects, each used once
    Callers,            \* request goroutines
    MaxCalls,           \* bound: requests per goroutine
    Default             \* defaultConn, dubboConnCount

Nil == "nil"

ASSUME ConstAssumption ==
    /\ Kinds \subseteq {"agent", "dubbo"}
    /\ Default \in Nat /\ MaxCalls \in Nat
    /\ IsFiniteSet(Conns) /\ IsFiniteSet(Callers)
    /\ {"loop", "setup"} \cap Callers = {}
    /\ Nil \notin Conns

\* setup is the goroutine of ListenInterface, in AddAgent.
Actors == Callers \cup {"loop", "setup"}

VARIABLES
    kind,               \* whose pool this is
    alive,              \* unused, up, down (peer gone) or closed (after Closed)
    pool,               \* connManager.connList
    adding,             \* dialed by a spawned goroutine and not added yet
    todo,               \* spawned goroutines that have not dialed
    pc, mine,           \* actor: idle, get, create or add; what it dialed
    first,              \* connections AddAgent has still to create
    calls               \* requests begun

vars == <<kind, alive, pool, adding, todo, pc, mine, first, calls>>

TypeOK ==
    /\ kind \in Kinds
    /\ alive \in [Conns -> {"unused", "up", "down", "closed"}]
    /\ pool \subseteq Conns /\ adding \subseteq Conns
    /\ todo \in 0..(Default * (MaxCalls * Cardinality(Callers) + Cardinality(Conns)))
    /\ pc \in [Actors -> {"idle", "get", "create", "add"}]
    /\ mine \in [Actors -> Conns \cup {Nil}]
    /\ first \in 0..Default
    /\ calls \in [Callers -> 0..MaxCalls]

Init ==
    /\ kind \in Kinds
    /\ alive = [c \in Conns |-> "unused"]
    /\ pool = {} /\ adding = {} /\ todo = 0
    /\ pc = [a \in Actors |-> "idle"] /\ mine = [a \in Actors |-> Nil]
    /\ first = IF kind = "agent" THEN Default ELSE 0
    /\ calls = [a \in Callers |-> 0]

-----------------------------------------------------------------------------
\* Mutant: a pool that is over-full counts as a debt.
MissingSigned(n) == Default - n

Missing(n) == IF n < Default THEN Default - n ELSE 0

\* AddAgent: defaultConn times, a connection is created; a failure is logged.
AddAgentCreate ==
    /\ pc["setup"] = "idle" /\ first > 0
    /\ first' = first - 1
    /\ pc' = [pc EXCEPT !["setup"] = "create"]
    /\ UNCHANGED <<kind, alive, pool, adding, todo, mine, calls>>

\* AddAgent has put the agent into the list, so that a request can find it.
Request(a) ==
    /\ pc[a] = "idle" /\ calls[a] < MaxCalls
    /\ first = 0 /\ pc["setup"] = "idle"
    /\ calls' = [calls EXCEPT ![a] = @ + 1]
    /\ pc' = [pc EXCEPT ![a] = "get"]
    /\ UNCHANGED <<kind, alive, pool, adding, todo, mine, first>>

\* GetConnection: creations of what is missing are spawned; with an empty pool
\* the caller creates one itself (dubbo: first, and one fewer is spawned).
GetConnection(a) ==
    /\ pc[a] = "get"
    /\ IF pool # {}
         THEN /\ todo' = todo + Missing(Cardinality(pool))
              /\ pc' = [pc EXCEPT ![a] = "idle"]
         ELSE /\ todo' = IF kind = "agent" THEN todo + Missing(0) ELSE todo
              /\ pc' = [pc EXCEPT ![a] = "create"]
    /\ UNCHANGED <<kind, alive, pool, adding, mine, first, calls>>

\* outConnect succeeds: from here on the loop owns the connection.
CreateDial(a, c) ==
    /\ pc[a] = "create" /\ alive[c] = "unused"
    /\ alive' = [alive EXCEPT ![c] = "up"]
    /\ mine' = [mine EXCEPT ![a] = c]
    /\ pc' = [pc EXCEPT ![a] = "add"]
    /\ UNCHANGED <<kind, pool, adding, todo, first, calls>>

\* outConnect fails: the agent's caller gets nil; dubbo's tries again.
CreateFail(a) ==
    /\ pc[a] = "create" /\ kind = "agent"
    /\ pc' = [pc EXCEPT ![a] = "idle"]
    /\ UNCHANGED <<kind, alive, pool, adding, todo, mine, first, calls>>

CreateAdd(a) ==
    /\ pc[a] = "add"
    /\ pool' = pool \cup {mine[a]}
    /\ mine' = [mine EXCEPT ![a] = Nil]
    /\ pc' = [pc EXCEPT ![a] = "idle"]
    /\ todo' = IF kind = "dubbo" THEN todo + Missing(1) ELSE todo
    /\ UNCHANGED <<kind, alive, adding, first, calls>>

\* A spawned creation, with the same two steps.
SpawnDial(c) ==
    /\ todo > 0 /\ alive[c] = "unused"
    /\ todo' = todo - 1
    /\ alive' = [alive EXCEPT ![c] = "up"]
    /\ adding' = adding \cup {c}
    /\ UNCHANGED <<kind, pool, pc, mine, first, calls>>

SpawnFail ==
    /\ todo > 0
    /\ todo' = todo - 1
    /\ UNCHANGED <<kind, alive, pool, adding, pc, mine, first, calls>>

\* Mutant: a full pool turns the connection away.
SpawnAddCapped(c) ==
    /\ c \in adding
    /\ adding' = adding \ {c}
    /\ pool' = IF Cardinality(pool) < Default THEN pool \cup {c} ELSE pool
    /\ UNCHANGED <<kind, alive, todo, pc, mine, first, calls>>

SpawnAdd(c) ==
    /\ c \in adding
    /\ adding' = adding \ {c}
    /\ pool' = pool \cup {c}
    /\ UNCHANGED <<kind, alive, todo, pc, mine, first, calls>>

PeerClose(c) ==
    /\ alive[c] = "up"
    /\ alive' = [alive EXCEPT ![c] = "down"]
    /\ UNCHANGED <<kind, pool, adding, todo, pc, mine, first, calls>>

\* The Closed callback: delete the connection, then create another one (agent)
\* or call GetConnection (dubbo), all of it in the loop's goroutine.
Closed(c) ==
    /\ pc["loop"] = "idle" /\ alive[c] = "down"
    /\ alive' = [alive EXCEPT ![c] = "closed"]
    /\ pool' = pool \ {c}
    /\ pc' = [pc EXCEPT !["loop"] = IF kind = "agent" THEN "create" ELSE "get"]
    /\ UNCHANGED <<kind, adding, todo, mine, first, calls>>

Next ==
    \/ AddAgentCreate
    \/ \E a \in Callers : Request(a)
    \/ \E a \in Actors : GetConnection(a) \/ CreateFail(a) \/ CreateAdd(a)
    \/ \E a \in Actors, c \in Conns : CreateDial(a, c)
    \/ SpawnFail
    \/ \E c \in Conns : SpawnDial(c) \/ SpawnAdd(c) \/ PeerClose(c) \/ Closed(c)

Spec == Init /\ [][Next]_vars

-----------------------------------------------------------------------------
(* Properties.                                                              *)

\* Dialed, and its AddConnection still to come.
BeingAdded(c) == c \in adding \/ \E a \in Actors : mine[a] = c

\* An open connection whose creation is over is in the pool: none is leaked,
\* whichever creations, deletions and requests overlap.
OpenIsPooled ==
    \A c \in Conns : alive[c] \in {"up", "down"} /\ ~BeingAdded(c) => c \in pool

\* "in close it has to be destroyed, delete the connection"
\* (dubbo_agent.go:52-53): a closed connection is not in the pool.
ClosedNotPooled == \A c \in Conns : alive[c] = "closed" => c \notin pool
=============================================================================
