----------------------------- MODULE Discovery -----------------------------
(***************************************************************************)
(* Service discovery over etcd (remote_agent.go).  A provider registers its *)
(* address under a lease that it keeps alive (RegisterInterface); the       *)
(* consumer reads all keys once and then watches them (ListenInterface),    *)
(* and adds agents to its list, or gives them new weights (AddAgent).       *)
(*                                                                         *)
(* etcd is external: a store with leases, and a watch that delivers, in     *)
(* order, the events that come after its creation.  The list and its        *)
(* balancer are those of ConnManager, here two sequences.                   *)
(***************************************************************************)
EXTENDS Integers, Sequences, Functions

CONSTANTS
    Providers,          \* addresses
    MaxStarts,          \* bound: starts of each provider
    Values,             \* values an operator may give a key: weights, or 0 for
                        \* one that Atoi does not accept or is not positive
    MaxPuts             \* bound: the operator's puts

ASSUME DiscoveryAssumption ==
    /\ MaxStarts \in [Providers -> Nat] /\ MaxPuts \in Nat
    /\ Values \subseteq Nat /\ 0 \in Values

VARIABLES
    store,              \* etcd: keys, each with its value and the start of the
                        \* provider that its lease belongs to (0: no lease)
    watch,              \* etcd: events that the watch has still to deliver
    latest,             \* value of the last PUT since Watch, or None (history)
    ppc, starts,        \* providers: down, granted, put or up; number of starts
    puts,               \* operator: puts so far
    cpc,                \* ListenInterface: get, list, watch
    todo,               \* keys that Get returned and that are not added yet
    apc, cur,           \* AddAgent: idle, look, dial, add or lb; its arguments
    agents, weights     \* hackManager: connList and lb.weight

etcd == <<store, watch, latest>>
providers == <<ppc, starts, puts>>
adding == <<apc, cur, agents, weights>>
discoveryVars == <<store, watch, latest, ppc, starts, puts, cpc, todo, apc, cur, agents, weights>>

None == -1
NoKey == [value |-> 0, lease |-> -1]
DefaultWeight == 1000
Nobody == [agent |-> "nobody", weight |-> 0, idx |-> 0]

DiscoveryTypeOK ==
    /\ store \in [Providers -> [value : Values, lease : Nat \cup {-1}]]
    /\ watch \in Seq([type : {"PUT", "DELETE"}, agent : Providers, value : Values])
    /\ latest \in [Providers -> Values \cup {None}]
    /\ ppc \in [Providers -> {"down", "granted", "put", "up"}]
    /\ starts \in [Providers -> Nat] /\ puts \in 0..MaxPuts
    /\ cpc \in {"get", "list", "watch"}
    /\ todo \subseteq Providers
    /\ apc \in {"idle", "look", "dial", "add", "lb"}
    /\ cur = Nobody \/ cur \in [agent : Providers, weight : Nat \ {0}, idx : Nat]
    /\ agents \in Seq(Providers)
    /\ weights \in Seq(Nat \ {0}) /\ Len(weights) = Len(agents)

DiscoveryInit ==
    /\ store = [p \in Providers |-> NoKey] /\ watch = << >>
    /\ latest = [p \in Providers |-> None]
    /\ ppc = [p \in Providers |-> "down"] /\ starts = [p \in Providers |-> 0]
    /\ puts = 0
    /\ cpc = "get" /\ todo = {}
    /\ apc = "idle" /\ cur = Nobody
    /\ agents = << >> /\ weights = << >>

\* An event goes to the watch if there is one.
Happens(type, p, v) ==
    IF cpc = "watch"
      THEN /\ watch' = Append(watch, [type |-> type, agent |-> p, value |-> v])
           /\ latest' = IF type = "PUT" THEN [latest EXCEPT ![p] = v] ELSE latest
      ELSE UNCHANGED <<watch, latest>>

-----------------------------------------------------------------------------
(* RegisterInterface, and etcd                                              *)

Grant(p) ==
    /\ ppc[p] = "down" /\ starts[p] < MaxStarts[p]
    /\ ppc' = [ppc EXCEPT ![p] = "granted"]
    /\ starts' = [starts EXCEPT ![p] = @ + 1]
    /\ UNCHANGED <<etcd, puts, cpc, todo, adding>>

\* The key with an empty value, under the lease of this start.
Put(p) ==
    /\ ppc[p] = "granted"
    /\ ppc' = [ppc EXCEPT ![p] = "put"]
    /\ store' = [store EXCEPT ![p] = [value |-> 0, lease |-> starts[p]]]
    /\ Happens("PUT", p, 0)
    /\ UNCHANGED <<starts, puts, cpc, todo, adding>>

\* From here on the goroutine does nothing (select {}).
KeepAlive(p) ==
    /\ ppc[p] = "put"
    /\ ppc' = [ppc EXCEPT ![p] = "up"]
    /\ UNCHANGED <<etcd, starts, puts, cpc, todo, adding>>

\* The process ends, by log.Fatal after an error or otherwise.
Crash(p) ==
    /\ ppc[p] # "down"
    /\ ppc' = [ppc EXCEPT ![p] = "down"]
    /\ UNCHANGED <<etcd, starts, puts, cpc, todo, adding>>

\* A lease runs out: its provider has gone, or could not reach etcd in time.
Expire(p) ==
    /\ store[p].lease > 0
    /\ store' = [store EXCEPT ![p] = NoKey]
    /\ Happens("DELETE", p, 0)
    /\ UNCHANGED <<providers, cpc, todo, adding>>

\* Somebody gives a key a weight, without a lease.
OperatorPut(p, v) ==
    /\ puts < MaxPuts
    /\ puts' = puts + 1
    /\ store' = [store EXCEPT ![p] = [value |-> v, lease |-> 0]]
    /\ Happens("PUT", p, v)
    /\ UNCHANGED <<ppc, starts, cpc, todo, adding>>

-----------------------------------------------------------------------------
(* AddAgent                                                                 *)

\* The call, from where ListenInterface is.
CallAddAgent(p, w) ==
    /\ apc' = "look"
    /\ cur' = [agent |-> p, weight |-> w, idx |-> 0]
    /\ UNCHANGED <<agents, weights>>

\* Mutant: a known address is not looked for.
AddAgentLookNew ==
    /\ apc = "look"
    /\ apc' = "dial"
    /\ cur' = [cur EXCEPT !.idx = Len(agents) + 1]
    /\ UNCHANGED <<etcd, providers, cpc, todo, agents, weights>>

\* The address is looked up in a copy of the list; for a new one the index
\* that it will have is the length of that copy.
AddAgentLook ==
    /\ apc = "look"
    /\ IF cur.agent \in Range(agents)
         THEN /\ apc' = "lb"
              /\ cur' = [cur EXCEPT !.idx = CHOOSE k \in DOMAIN agents :
                             agents[k] = cur.agent /\ \A j \in 1..(k - 1) : agents[j] # cur.agent]
         ELSE /\ apc' = "dial"
              /\ cur' = [cur EXCEPT !.idx = Len(agents) + 1]
    /\ UNCHANGED <<etcd, providers, cpc, todo, agents, weights>>

\* defaultConn connections, one after the other, successful or not (ConnPool).
AddAgentDial ==
    /\ apc = "dial"
    /\ apc' = "add"
    /\ UNCHANGED <<etcd, providers, cpc, todo, cur, agents, weights>>

\* AddConnection: from here on requests may go to the agent.
AddAgentAdd ==
    /\ apc = "add"
    /\ apc' = "lb"
    /\ agents' = Append(agents, cur.agent)
    /\ weights' = Append(weights, DefaultWeight)
    /\ UNCHANGED <<etcd, providers, cpc, todo, cur>>

\* Mutant: an agent that is known keeps its weight.
AddAgentUpdateNew ==
    /\ apc = "lb"
    /\ apc' = "idle" /\ cur' = Nobody
    /\ weights' = IF cur.idx = Len(agents) THEN [weights EXCEPT ![cur.idx] = cur.weight] ELSE weights
    /\ UNCHANGED <<etcd, providers, cpc, todo, agents>>

\* UpdateLB.
AddAgentUpdate ==
    /\ apc = "lb"
    /\ apc' = "idle" /\ cur' = Nobody
    /\ weights' = [weights EXCEPT ![cur.idx] = cur.weight]
    /\ UNCHANGED <<etcd, providers, cpc, todo, agents>>

AddAgent == AddAgentLook \/ AddAgentDial \/ AddAgentAdd \/ AddAgentUpdate

-----------------------------------------------------------------------------
(* ListenInterface                                                          *)

ListenGet ==
    /\ cpc = "get"
    /\ cpc' = "list"
    /\ todo' = {p \in Providers : store[p] # NoKey}
    /\ UNCHANGED <<etcd, providers, adding>>

\* A key of Get's answer: its value is not looked at.
ListenKey(p) ==
    /\ cpc = "list" /\ apc = "idle" /\ p \in todo
    /\ todo' = todo \ {p}
    /\ CallAddAgent(p, DefaultWeight)
    /\ UNCHANGED <<etcd, providers, cpc>>

\* Watch, from the present revision on.
ListenWatch ==
    /\ cpc = "list" /\ apc = "idle" /\ todo = {}
    /\ cpc' = "watch"
    /\ UNCHANGED <<etcd, providers, todo, adding>>

\* A value that Atoi refuses or that is not positive means the default.
Weight(v) == IF v > 0 THEN v ELSE DefaultWeight

\* Mutant: only the first event of a response is looked at.
ListenEventFirst ==
    /\ cpc = "watch" /\ apc = "idle" /\ watch # << >>
    /\ watch' = << >>
    /\ LET ev == Head(watch) IN
         IF ev.type = "PUT" THEN CallAddAgent(ev.agent, Weight(ev.value)) ELSE UNCHANGED adding
    /\ UNCHANGED <<store, latest, providers, cpc, todo>>

\* The next event; a DELETE is left as it is.
ListenEvent ==
    /\ cpc = "watch" /\ apc = "idle" /\ watch # << >>
    /\ watch' = Tail(watch)
    /\ LET ev == Head(watch) IN
         IF ev.type = "PUT" THEN CallAddAgent(ev.agent, Weight(ev.value)) ELSE UNCHANGED adding
    /\ UNCHANGED <<store, latest, providers, cpc, todo>>

ListenInterface ==
    ListenGet \/ ListenWatch \/ ListenEvent \/ AddAgent \/ \E p \in Providers : ListenKey(p)

-----------------------------------------------------------------------------
RegisterInterface(p) == Grant(p) \/ Put(p) \/ KeepAlive(p)

DiscoveryNext ==
    \/ ListenInterface
    \/ \E p \in Providers : RegisterInterface(p) \/ Crash(p) \/ Expire(p)
    \/ \E p \in Providers, v \in Values : OperatorPut(p, v)

\* The consumer's goroutine runs and etcd delivers what it has; nothing is
\* assumed of providers.
DiscoverySpec == DiscoveryInit /\ [][DiscoveryNext]_discoveryVars /\ WF_discoveryVars(ListenInterface)

-----------------------------------------------------------------------------
(* Properties.                                                              *)

Known(p) == p \in Range(agents)

\* However often a provider starts again, its address is in the list once, and
\* the index that AddAgent has found before it dialed is still that of the
\* agent when the weight is written (remote_agent.go:127).
AgentOnce ==
    /\ \A i, j \in DOMAIN agents : agents[i] = agents[j] => i = j
    /\ apc = "lb" => agents[cur.idx] = cur.agent
    /\ apc \in {"dial", "add"} => cur.idx = Len(agents) + 1

\* When the consumer has dealt with all events, every agent has the weight of
\* the last PUT the watch has delivered for it, and without one the default:
\* neither a restart nor an interleaving of agents leaves an older weight.
WeightIsLatest ==
    (cpc = "watch" /\ apc = "idle" /\ watch = << >>) =>
        \A i \in DOMAIN agents :
            weights[i] = IF latest[agents[i]] = None THEN DefaultWeight
                         ELSE Weight(latest[agents[i]])

\* Both together: the list that requests are sent by names every provider
\* once, and with its latest weight when there is nothing left to be done.
ListedOnceUpToDate == AgentOnce /\ WeightIsLatest

\* A provider that Get returns, or that registers after the watch has begun,
\* comes to be known (remote_agent.go:239-277).
AnnouncedIsFound ==
    \A p \in Providers :
        (p \in todo \/ latest[p] # None) ~> Known(p)

\* Every provider that has registered comes to be known (refuted: one that
\* registers between Get and Watch, remote_agent.go:254, is missed).
RegisteredIsFound == \A p \in Providers : (ppc[p] = "up") ~> (Known(p) \/ ppc[p] = "down")

\* A provider that has gone is forgotten (refuted: "@todo", remote_agent.go:274).
GoneIsForgotten == \A p \in Providers : (store[p] = NoKey /\ Known(p)) ~> (~Known(p) \/ store[p] # NoKey)

\* "the key will be kept forever" (remote_agent.go:174; refuted: a lease that
\* runs out once while the provider is up is not granted again).
KeptForever == \A p \in Providers : ppc[p] = "up" => store[p] # NoKey

-----------------------------------------------------------------------------
(* The list of agents as a ConnManager.                                     *)

\* hackManager, as far as this module knows it: its counters and what its
\* GetConnection has chosen belong to those who send requests.
Manager == INSTANCE ConnManager WITH
    Conns <- Providers, Weights <- {Weight(v) : v \in Values}, Uses <- {"agents"}, W <- 1,
    connList <- agents, weight <- weights,
    minWeight <- [i \in DOMAIN weights |-> weights[i] \div 100],
    totalCount <- Len(agents), nowBase <- IF agents = << >> THEN 0 ELSE 100,
    lastCount <- 0, lastIndex <- 0, lastBaseCount <- 0,
    use <- "agents", fresh <- Providers \ Range(agents), chosen <- "nil"

\* AddAgent uses hackManager as ConnManager takes for granted: it adds every
\* agent once, although it looks and adds in two calls, each under the lock of
\* its own, and the index it gives UpdateLB is one of the list, although the
\* list may have grown since (remote_agent.go:92-128).
UsesManager == Manager!Init /\ [][Manager!Next]_(Manager!vars)
=============================================================================
