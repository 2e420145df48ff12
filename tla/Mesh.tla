-------------------------------- MODULE Mesh --------------------------------
(***************************************************************************)
(* A request on its way through the mesh: HTTP client, consumer agent,      *)
(* provider agent, dubbo service, and back.  Consumer and provider each     *)
(* find the origin of an answer in a map keyed by the request's number.     *)
(*                                                                         *)
(* A consumer has one RemoteAgent per provider it knows, with its own       *)
(* counter reqID and its own requestMap; a provider has one requestMap for  *)
(* all its consumers.  An agent connection is a pool of TCP connections     *)
(* (ConnManager picks one), so messages overtake each other; a message is   *)
(* lost with its connection when Lossy.  Framing is in Framing.             *)
(***************************************************************************)
EXTENDS Integers, Sequences, FiniteSets

CONSTANTS
    Consumers, Providers,
    Requests,           \* HTTP requests
    At,                 \* At[r]: the consumer that request r reaches
    Lossy               \* connections may break

ASSUME ConstAssumption ==
    /\ IsFiniteSet(Requests)
    /\ At \in [Requests -> Consumers]
    /\ Lossy \in BOOLEAN

Id == 1..Cardinality(Requests)
None == "none"

ASSUME NoneAssumption == None \notin Requests

VARIABLES
    known,              \* known[c]: providers with a RemoteAgent at c
    stage, via, rid,    \* request: position, its RemoteAgent's provider, its number
    reqID, requestMap,  \* RemoteAgent (c, p): last number, number -> request
    dubboMap,           \* LocalDubboAgent.requestMap: number -> AgentRequest
    items,              \* messages, queue entries and half-done work
    answers,            \* history: what was sent to the client of each request
    lost                \* history: a connection broke with a message on it

vars == <<known, stage, via, rid, reqID, requestMap, dubboMap, items, answers,
          lost>>

consumerv == <<known, stage, via, rid, reqID>>

\* req: on the wire to p; work: in p's workerQueue; put: stored, not yet sent;
\* dreq, dresp: on the wire to and from dubbo; found: origin looked up by p's
\* worker; del: answered, not yet deleted; resp: on the wire to c; cfound and
\* cdel: the same two positions of c's worker.  of is the request the content
\* is about, org the request of the entry that was found.
ItemType == {"req", "work", "put", "dreq", "dresp", "found", "del", "resp",
             "cfound", "cdel"}

Item(t, c, p, id, of, org) ==
    [t |-> t, c |-> c, p |-> p, id |-> id, of |-> of, org |-> org]

TypeOK ==
    /\ known \in [Consumers -> SUBSET Providers]
    /\ stage \in [Requests -> {"new", "queued", "numbered", "stored", "sent", "failed"}]
    /\ via \in [Requests -> Providers \cup {None}]
    /\ rid \in [Requests -> Id \cup {0}]
    /\ reqID \in [Consumers \X Providers -> Id \cup {0}]
    /\ requestMap \in [Consumers \X Providers -> [Id -> Requests \cup {None}]]
    /\ dubboMap \in [Providers -> [Id -> (Consumers \X Requests) \cup {<<None, None>>}]]
    /\ items \subseteq [t : ItemType, c : Consumers \cup {None}, p : Providers,
                        id : Id, of : Requests, org : Requests \cup {None}]
    /\ answers \in [Requests -> Seq(Requests)] /\ lost \in BOOLEAN

Init ==
    /\ known = [c \in Consumers |-> {}]
    /\ stage = [r \in Requests |-> "new"]
    /\ via = [r \in Requests |-> None] /\ rid = [r \in Requests |-> 0]
    /\ reqID = [a \in Consumers \X Providers |-> 0]
    /\ requestMap = [a \in Consumers \X Providers |-> [i \in Id |-> None]]
    /\ dubboMap = [p \in Providers |-> [i \in Id |-> <<None, None>>]]
    /\ items = {} /\ answers = [r \in Requests |-> << >>] /\ lost = FALSE

Replace(x, y) == items' = (items \ {x}) \cup {y}

-----------------------------------------------------------------------------
(* The consumer, on the way out.                                            *)

\* ListenInterface has seen provider p in etcd: AddAgent.  (An entry that
\* goes away is ignored by the code.)
AddAgent(c, p) ==
    /\ p \notin known[c]
    /\ known' = [known EXCEPT ![c] = @ \cup {p}]
    /\ UNCHANGED <<stage, via, rid, reqID, requestMap, dubboMap, items, answers, lost>>

\* ServeListenHttp queues the parsed request for a worker.
HttpData(r) ==
    /\ stage[r] = "new"
    /\ stage' = [stage EXCEPT ![r] = "queued"]
    /\ UNCHANGED <<known, via, rid, reqID, requestMap, dubboMap, items, answers, lost>>

\* LocalHttpServer's worker: no agent known, or no connection to be had.
ForwardError(r) ==
    /\ stage[r] = "queued"
    /\ known[At[r]] = {} \/ Lossy
    /\ stage' = [stage EXCEPT ![r] = "failed"]
    /\ UNCHANGED <<known, via, rid, reqID, requestMap, dubboMap, items, answers, lost>>

\* Mutant: the number is read and not advanced.
SendRequestNumberStale(r) ==
    /\ stage[r] = "queued"
    /\ \E p \in known[At[r]] :
         /\ via' = [via EXCEPT ![r] = p]
         /\ rid' = [rid EXCEPT ![r] = reqID[<<At[r], p>>] + 1]
    /\ stage' = [stage EXCEPT ![r] = "numbered"]
    /\ UNCHANGED <<known, reqID, requestMap, dubboMap, items, answers, lost>>

\* Mutant: the counter is advanced twice.
SendRequestNumberTwice(r) ==
    /\ stage[r] = "queued"
    /\ \E p \in known[At[r]] :
         /\ via' = [via EXCEPT ![r] = p]
         /\ reqID' = [reqID EXCEPT ![<<At[r], p>>] = @ + 2]
         /\ rid' = [rid EXCEPT ![r] = reqID'[<<At[r], p>>] - 1]
    /\ stage' = [stage EXCEPT ![r] = "numbered"]
    /\ UNCHANGED <<known, requestMap, dubboMap, items, answers, lost>>

\* ForwardRequest picks an agent; SendRequest takes the next number.
SendRequestNumber(r) ==
    /\ stage[r] = "queued"
    /\ \E p \in known[At[r]] :
         /\ via' = [via EXCEPT ![r] = p]
         /\ reqID' = [reqID EXCEPT ![<<At[r], p>>] = @ + 1]
         /\ rid' = [rid EXCEPT ![r] = reqID'[<<At[r], p>>]]
    /\ stage' = [stage EXCEPT ![r] = "numbered"]
    /\ UNCHANGED <<known, requestMap, dubboMap, items, answers, lost>>

\* Mutant: the request is not remembered.
SendRequestNoStore(r) ==
    /\ stage[r] = "numbered"
    /\ stage' = [stage EXCEPT ![r] = "stored"]
    /\ UNCHANGED <<known, via, rid, reqID, requestMap, dubboMap, items, answers, lost>>

SendRequestStore(r) ==
    /\ stage[r] = "numbered"
    /\ requestMap' = [requestMap EXCEPT ![<<At[r], via[r]>>][rid[r]] = r]
    /\ stage' = [stage EXCEPT ![r] = "stored"]
    /\ UNCHANGED <<known, via, rid, reqID, dubboMap, items, answers, lost>>

SendRequestSend(r) ==
    /\ stage[r] = "stored"
    /\ items' = items \cup {Item("req", At[r], via[r], rid[r], r, None)}
    /\ stage' = [stage EXCEPT ![r] = "sent"]
    /\ UNCHANGED <<known, via, rid, reqID, requestMap, dubboMap, answers, lost>>

-----------------------------------------------------------------------------
(* The provider and dubbo.                                                  *)

\* The agent server's Data handler queues the message for a worker.
AgentData(m) ==
    /\ m \in items /\ m.t = "req"
    /\ Replace(m, [m EXCEPT !.t = "work"])
    /\ UNCHANGED <<consumerv, requestMap, dubboMap, answers, lost>>

\* SendDubboRequest stores the request under its number, then sends.
SendDubboStore(m) ==
    /\ m \in items /\ m.t = "work"
    /\ dubboMap' = [dubboMap EXCEPT ![m.p][m.id] = <<m.c, m.of>>]
    /\ Replace(m, [m EXCEPT !.t = "put"])
    /\ UNCHANGED <<consumerv, requestMap, answers, lost>>

SendDubboSend(m) ==
    /\ m \in items /\ m.t = "put"
    /\ Replace(m, Item("dreq", None, m.p, m.id, m.of, None))
    /\ UNCHANGED <<consumerv, requestMap, dubboMap, answers, lost>>

\* The dubbo service (external) answers with the number it was given.
Dubbo(m) ==
    /\ m \in items /\ m.t = "dreq"
    /\ Replace(m, [m EXCEPT !.t = "dresp"])
    /\ UNCHANGED <<consumerv, requestMap, dubboMap, answers, lost>>

\* The worker of ServeConnectDubbo: look the number up, answer, delete.
DubboRespLoad(m) ==
    /\ m \in items /\ m.t = "dresp"
    /\ LET e == dubboMap[m.p][m.id] IN
         items' = (items \ {m}) \cup
            (IF e = <<None, None>> THEN {}
             ELSE {Item("found", e[1], m.p, m.id, m.of, e[2])})
    /\ UNCHANGED <<consumerv, requestMap, dubboMap, answers, lost>>

DubboRespSend(m) ==
    /\ m \in items /\ m.t = "found"
    /\ items' = (items \ {m}) \cup {[m EXCEPT !.t = "resp"], [m EXCEPT !.t = "del"]}
    /\ UNCHANGED <<consumerv, requestMap, dubboMap, answers, lost>>

DubboRespDelete(m) ==
    /\ m \in items /\ m.t = "del"
    /\ dubboMap' = [dubboMap EXCEPT ![m.p][m.id] = <<None, None>>]
    /\ items' = items \ {m}
    /\ UNCHANGED <<consumerv, requestMap, answers, lost>>

-----------------------------------------------------------------------------
(* The consumer, on the way back: the worker of ServeConnectAgent.          *)

AgentRespLoad(m) ==
    /\ m \in items /\ m.t = "resp"
    /\ LET r == requestMap[<<m.c, m.p>>][m.id] IN
         items' = (items \ {m}) \cup
            (IF r = None THEN {} ELSE {[m EXCEPT !.t = "cfound", !.org = r]})
    /\ UNCHANGED <<consumerv, requestMap, dubboMap, answers, lost>>

\* HttpRequest.Response
AgentRespSend(m) ==
    /\ m \in items /\ m.t = "cfound"
    /\ answers' = [answers EXCEPT ![m.org] = Append(@, m.of)]
    /\ Replace(m, [m EXCEPT !.t = "cdel"])
    /\ UNCHANGED <<consumerv, requestMap, dubboMap, lost>>

\* Mutant: the entry is left in the map.
AgentRespNoDelete(m) ==
    /\ m \in items /\ m.t = "cdel"
    /\ items' = items \ {m}
    /\ UNCHANGED <<consumerv, requestMap, dubboMap, answers, lost>>

AgentRespDelete(m) ==
    /\ m \in items /\ m.t = "cdel"
    /\ requestMap' = [requestMap EXCEPT ![<<m.c, m.p>>][m.id] = None]
    /\ items' = items \ {m}
    /\ UNCHANGED <<consumerv, dubboMap, answers, lost>>

-----------------------------------------------------------------------------
\* A connection breaks with a message on it.
Lose(m) ==
    /\ Lossy /\ m \in items /\ m.t \in {"req", "dreq", "dresp", "resp"}
    /\ items' = items \ {m} /\ lost' = TRUE
    /\ UNCHANGED <<consumerv, requestMap, dubboMap, answers>>

Out(r) == ForwardError(r) \/ SendRequestNumber(r) \/ SendRequestStore(r) \/ SendRequestSend(r)

Move(m) ==
    \/ AgentData(m) \/ SendDubboStore(m) \/ SendDubboSend(m) \/ Dubbo(m)
    \/ DubboRespLoad(m) \/ DubboRespSend(m) \/ DubboRespDelete(m)
    \/ AgentRespLoad(m) \/ AgentRespSend(m) \/ AgentRespDelete(m)

Next ==
    \/ \E c \in Consumers, p \in Providers : AddAgent(c, p)
    \/ \E r \in Requests : HttpData(r) \/ Out(r)
    \/ \E m \in items : Move(m) \/ Lose(m)

\* Workers run and what is on the wire is delivered.
Fairness ==
    /\ \A r \in Requests : WF_vars(Out(r))
    /\ WF_vars(\E m \in items : Move(m))

Spec == Init /\ [][Next]_vars /\ Fairness

-----------------------------------------------------------------------------
(* Properties.                                                              *)

\* The client of a request gets the answer to that request, once, although
\* two maps keyed by small numbers lie between it and dubbo.
OwnAnswer == \A r \in Requests : answers[r] \in {<< >>, <<r>>}

\* No entry outlives its request: when all is done, and no message went down
\* with a connection, both maps are empty.
MapsDrain ==
    ~lost /\ items = {} /\ (\A r \in Requests : stage[r] \in {"new", "queued", "sent", "failed"})
        => /\ \A a \in Consumers \X Providers, i \in Id : requestMap[a][i] = None
           /\ \A p \in Providers, i \in Id : dubboMap[p][i] = <<None, None>>

\* What the client sees of a request.
Outcome ==
    [r \in Requests |->
        CASE stage[r] = "new"    -> "none"
          [] stage[r] = "failed" -> "failed"
          [] answers[r] = << >> /\ stage[r] \notin {"new", "failed"} -> "pending"
          [] answers[r] = <<r>> -> "answered"
          [] OTHER -> "corrupt"]

Abstract == INSTANCE Rpc WITH outcome <- Outcome

\* The mesh implements Rpc, though connections break: a request gets one
\* outcome, and an answer is its own.
ImplementsRpc == Abstract!RSpec

\* A request that arrived is answered or refused, unless a message goes down
\* with a connection: the code has no timeout that would answer then.
RequestsDecided ==
    \A r \in Requests :
        stage[r] = "queued" ~> lost \/ Outcome[r] \in {"answered", "failed"}
=============================================================================
