----------------------------- MODULE MeshProofs -----------------------------
(***************************************************************************)
(* Proofs about Mesh, for every number of providers and requests, with or   *)
(* without loss: the types, that the numbers of a RemoteAgent are unique,   *)
(* and, when all requests reach one consumer, that each client gets its own *)
(* answer, that the maps drain and that the mesh implements Rpc.            *)
(***************************************************************************)
EXTENDS Mesh, FiniteSetTheorems, SequenceTheorems, TLAPS

\* The providers' maps are keyed by the number alone, so that the requests of
\* two consumers collide in them: what is said of answers needs one consumer.
OneConsumer == \A r, q \in Requests : At[r] = At[q]

Numbered == {"numbered", "stored", "sent"}

NumberedBy(a) == {r \in Requests : stage[r] \in Numbered /\ <<At[r], via[r]>> = a}

\* SendRequest's counter: it has counted the requests of its RemoteAgent, and
\* no two of them have the same number.
NumberInv ==
    /\ \A r \in Requests : stage[r] \in Numbered =>
         /\ via[r] \in Providers
         /\ rid[r] \in 1..reqID[<<At[r], via[r]>>]
    /\ \A r, q \in Requests :
         /\ stage[r] \in Numbered /\ stage[q] \in Numbered
         /\ At[r] = At[q] /\ via[r] = via[q] /\ rid[r] = rid[q]
         => r = q
    /\ \A a \in Consumers \X Providers : reqID[a] = Cardinality(NumberedBy(a))

\* A message that is not between a provider and its dubbo service names its
\* consumer, and what c's worker found is a request.
ItemOK(m) ==
    /\ m.t \notin {"dreq", "dresp"} => m.c \in Consumers
    /\ m.t \in {"found", "del", "resp", "cfound", "cdel"} => m.org \in Requests

ItemInv == \A m \in items : ItemOK(m)

\* With one consumer: where each message of a request is headed is what the
\* request was sent with, and an origin that was found is the right one.
Shape(m) ==
    /\ stage[m.of] = "sent" /\ m.p = via[m.of] /\ m.id = rid[m.of]
    /\ m.c = IF m.t \in {"dreq", "dresp"} THEN None ELSE At[m.of]
    /\ m.org = IF m.t \in {"found", "del", "resp", "cfound", "cdel"} THEN m.of ELSE None

ShapeInv == \A m \in items : Shape(m)

\* The positions at which something about request r is.
Tags(r) == {m.t : m \in {n \in items : n.of = r}}

\* A request is at one position, next to the provider's pending deletion, and
\* it is answered at most once.
LifeInv ==
    \A r \in Requests :
        /\ \A t, u \in Tags(r) \ {"del"} : t = u
        /\ "del" \in Tags(r) =>
             Tags(r) \cap {"req", "work", "put", "dreq", "dresp", "found"} = {}
        /\ answers[r] = << >> \/ (answers[r] = <<r>> /\ Tags(r) \subseteq {"del", "cdel"})
        /\ stage[r] # "sent" => answers[r] = << >>

\* An entry of a consumer's map is in its place, and is on its way out unless
\* a message was lost.
RequestMapInv ==
    \A a \in Consumers \X Providers, i \in Id, r \in Requests :
        requestMap[a][i] = r =>
            /\ stage[r] \in {"stored", "sent"}
            /\ a = <<At[r], via[r]>> /\ i = rid[r]
            /\ ~lost => stage[r] = "stored" \/ Tags(r) \ {"del"} # {}

\* The same of a provider's map; and what is at dubbo can be looked up.
DubboEntryInv ==
    \A p \in Providers, i \in Id, r \in Requests :
        dubboMap[p][i] # <<None, None>> /\ dubboMap[p][i][2] = r =>
            /\ dubboMap[p][i][1] = At[r] /\ stage[r] = "sent"
            /\ p = via[r] /\ i = rid[r]
            /\ ~lost => Tags(r) \cap {"put", "dreq", "dresp", "found", "del"} # {}

DubboLookupInv ==
    \A r \in Requests : Tags(r) \cap {"put", "dreq", "dresp"} # {} =>
        dubboMap[via[r]][rid[r]] = <<At[r], r>>

DubboMapInv == DubboEntryInv /\ DubboLookupInv

TypeInv == TypeOK /\ NumberInv /\ ItemInv
RouteInv == ShapeInv /\ LifeInv /\ RequestMapInv /\ DubboMapInv

-----------------------------------------------------------------------------
(* Types and numbers.                                                       *)

Items == [t : ItemType, c : Consumers \cup {None}, p : Providers,
          id : Id, of : Requests, org : Requests \cup {None}]

\* A message made from its fields.
LEMMA NewItem ==
    ASSUME NEW t, NEW c, NEW p, NEW id, NEW of, NEW org, NEW m, m = Item(t, c, p, id, of, org)
    PROVE  /\ m.t = t /\ m.c = c /\ m.p = p /\ m.id = id /\ m.of = of /\ m.org = org
           /\ (/\ t \in ItemType /\ c \in Consumers \cup {None} /\ p \in Providers
               /\ id \in Id /\ of \in Requests /\ org \in Requests \cup {None}) => m \in Items
  BY DEF Item, Items

\* A message that goes on to another position.
LEMMA NextItem ==
    ASSUME NEW m \in Items, NEW t \in ItemType, NEW n, n = [m EXCEPT !.t = t]
    PROVE  /\ n.t = t /\ n.c = m.c /\ n.p = m.p /\ n.id = m.id /\ n.of = m.of /\ n.org = m.org
           /\ n \in Items
  BY DEF Items

\* The fields of a message, which make it up.
LEMMA ItemParts ==
    ASSUME NEW m \in Items
    PROVE  /\ m.t \in ItemType /\ m.c \in Consumers \cup {None} /\ m.p \in Providers
           /\ m.id \in Id /\ m.of \in Requests /\ m.org \in Requests \cup {None}
           /\ \A n \in Items :
                (/\ m.t = n.t /\ m.c = n.c /\ m.p = n.p /\ m.id = n.id /\ m.of = n.of
                 /\ m.org = n.org) => m = n
  BY DEF Items

\* The steps that number no request leave NumberInv alone.
LEMMA SameNumbers ==
    ASSUME NumberInv, UNCHANGED <<via, rid, reqID>>,
           \A r \in Requests : stage'[r] \in Numbered <=> stage[r] \in Numbered
    PROVE  NumberInv'
<1>1. \A a : NumberedBy(a)' = NumberedBy(a)
  BY DEF NumberedBy
<1> QED BY <1>1 DEF NumberInv

\* There are never more numbers given than requests.
LEMMA NumbersFit ==
    ASSUME NumberInv, NEW a \in Consumers \X Providers
    PROVE  /\ IsFiniteSet(NumberedBy(a))
           /\ reqID[a] = Cardinality(NumberedBy(a)) /\ reqID[a] \in Nat
           /\ reqID[a] <= Cardinality(Requests)
           /\ Cardinality(Requests) \in Nat
  BY SMTT(30), ConstAssumption, FS_Subset, FS_CardinalityType DEF NumberInv, NumberedBy

\* SendRequest takes the next number of the RemoteAgent: it is a new one, and
\* within the requests there are.
LEMMA NextNumber ==
    ASSUME TypeInv, NEW r \in Requests, SendRequestNumber(r)
    PROVE  /\ NumberInv'
           /\ via' \in [Requests -> Providers \cup {None}]
           /\ rid' \in [Requests -> Id \cup {0}]
           /\ reqID' \in [Consumers \X Providers -> Id \cup {0}]
<1> USE DEF TypeInv
<1>1. PICK p \in known[At[r]] :
         /\ via' = [via EXCEPT ![r] = p]
         /\ reqID' = [reqID EXCEPT ![<<At[r], p>>] = @ + 1]
         /\ rid' = [rid EXCEPT ![r] = reqID'[<<At[r], p>>]]
  BY Zenon DEF SendRequestNumber
<1> DEFINE a == <<At[r], p>>
           n == reqID[a] + 1
<1>2. p \in Providers /\ At[r] \in Consumers /\ a \in Consumers \X Providers
  BY ConstAssumption DEF TypeOK
<1>3. stage[r] = "queued" /\ stage' = [stage EXCEPT ![r] = "numbered"]
  BY DEF SendRequestNumber
<1>4. /\ via'[r] = p /\ \A q \in Requests : q # r => via'[q] = via[q]
      /\ reqID'[a] = n /\ \A b \in Consumers \X Providers : b # a => reqID'[b] = reqID[b]
      /\ rid'[r] = n /\ \A q \in Requests : q # r => rid'[q] = rid[q]
      /\ stage'[r] = "numbered" /\ \A q \in Requests : q # r => stage'[q] = stage[q]
  BY Zenon, <1>1, <1>2, <1>3 DEF TypeOK
<1>5. /\ NumberedBy(a)' = NumberedBy(a) \cup {r} /\ r \notin NumberedBy(a)
      /\ NumberedBy(a)' \subseteq Requests
  BY <1>3, <1>4 DEF NumberedBy, Numbered
<1>6. \A b \in Consumers \X Providers : b # a => NumberedBy(b)' = NumberedBy(b)
  BY <1>3, <1>4 DEF NumberedBy, Numbered
<1>7. /\ IsFiniteSet(NumberedBy(a)) /\ reqID[a] = Cardinality(NumberedBy(a))
      /\ reqID[a] \in Nat /\ Cardinality(Requests) \in Nat
  BY <1>2, NumbersFit
<1>8. Cardinality(NumberedBy(a)') = n
  BY SMTT(30), <1>5, <1>7, FS_AddElement
<1>9. n \in 1..Cardinality(Requests)
  <2>1. Cardinality(NumberedBy(a)') <= Cardinality(Requests)
    BY <1>5, ConstAssumption, FS_Subset
  <2> QED BY <1>7, <1>8, <2>1
<1>10. /\ via' \in [Requests -> Providers \cup {None}]
       /\ rid' \in [Requests -> Id \cup {0}]
       /\ reqID' \in [Consumers \X Providers -> Id \cup {0}]
  BY Zenon, <1>1, <1>2, <1>4, <1>9 DEF TypeOK, Id
<1>11. \A q \in Requests : stage'[q] \in Numbered =>
         /\ via'[q] \in Providers
         /\ rid'[q] \in 1..reqID'[<<At[q], via'[q]>>]
  <2> SUFFICES ASSUME NEW q \in Requests, stage'[q] \in Numbered
               PROVE  via'[q] \in Providers /\ rid'[q] \in 1..reqID'[<<At[q], via'[q]>>]
    OBVIOUS
  <2>1. CASE q = r
    BY SMTT(30), <1>2, <1>4, <1>7, <2>1
  <2>2. CASE q # r
    <3>1. via[q] \in Providers /\ rid[q] \in 1..reqID[<<At[q], via[q]>>]
      BY <1>4, <2>2 DEF NumberInv
    <3>2. <<At[q], via[q]>> \in Consumers \X Providers
      BY <3>1, ConstAssumption
    <3>3. reqID[<<At[q], via[q]>>] \in Nat
      BY Zenon, <3>2, NumbersFit
    <3> QED BY SMTT(30), <1>4, <1>7, <2>2, <3>1, <3>2, <3>3
  <2> QED BY <2>1, <2>2
<1>12. \A q \in Requests : /\ q # r /\ stage[q] \in Numbered
                           /\ At[q] = At[r] /\ via[q] = p
                           => rid[q] # n
  BY <1>7 DEF NumberInv
<1>13. \A q, s \in Requests :
         /\ stage'[q] \in Numbered /\ stage'[s] \in Numbered
         /\ At[q] = At[s] /\ via'[q] = via'[s] /\ rid'[q] = rid'[s]
         => q = s
  BY <1>4, <1>12 DEF NumberInv
<1>14. \A b \in Consumers \X Providers : reqID'[b] = Cardinality(NumberedBy(b)')
  BY <1>4, <1>6, <1>8 DEF NumberInv
<1>15. NumberInv'
  BY Zenon, <1>11, <1>13, <1>14 DEF NumberInv
<1> QED BY <1>10, <1>15

\* A step that only moves messages, to positions where they may be.
LEMMA MoveTyped ==
    ASSUME TypeInv, UNCHANGED consumerv,
           \A n \in items' : n \in items \/ (n \in Items /\ ItemOK(n))
    PROVE  /\ items' \subseteq Items /\ ItemInv' /\ NumberInv'
           /\ UNCHANGED <<known, stage, via, rid, reqID>>
<1>1. UNCHANGED <<known, stage, via, rid, reqID>>
  BY DEF consumerv
<1>2. NumberInv'
  BY <1>1, SameNumbers DEF TypeInv
<1>3. items' \subseteq Items
  BY DEF TypeInv, TypeOK, Items
<1>4. \A m \in items : ItemOK(m)
  BY DEF TypeInv, ItemInv
<1>5. \A m \in items' : ItemOK(m)
  BY <1>4
<1>6. ItemInv'
  BY <1>5 DEF ItemInv, ItemOK
<1> QED BY <1>1, <1>2, <1>3, <1>6

\* The consumer's steps on the way out keep the types (http_server.go,
\* agent_client.go).
LEMMA OutTyped ==
    ASSUME TypeInv, NEW r \in Requests, HttpData(r) \/ Out(r)
    PROVE  TypeInv'
<1> USE DEF TypeInv
<1>1. CASE HttpData(r) \/ ForwardError(r)
  <2>1. /\ stage[r] \in {"new", "queued"} /\ stage' \in [Requests -> {"new", "queued", "numbered", "stored", "sent", "failed"}]
        /\ stage'[r] \in {"queued", "failed"} /\ \A q \in Requests : q # r => stage'[q] = stage[q]
        /\ UNCHANGED <<known, via, rid, reqID, requestMap, dubboMap, items, answers, lost>>
    BY Zenon, <1>1 DEF HttpData, ForwardError, TypeOK
  <2>2. NumberInv'
    BY Zenon, <2>1, SameNumbers DEF Numbered
  <2>3. TypeOK' /\ ItemInv'
    BY <2>1 DEF TypeOK, ItemInv, ItemOK
  <2> QED BY <2>2, <2>3
<1>2. CASE SendRequestNumber(r)
  <2>1. UNCHANGED <<known, requestMap, dubboMap, items, answers, lost>>
    BY <1>2 DEF SendRequestNumber
  <2>2. stage' \in [Requests -> {"new", "queued", "numbered", "stored", "sent", "failed"}]
    BY Zenon, <1>2 DEF SendRequestNumber, TypeOK
  <2>3. TypeOK' /\ ItemInv'
    BY Zenon, <1>2, <2>1, <2>2, NextNumber DEF TypeOK, ItemInv, ItemOK
  <2> QED BY Zenon, <1>2, <2>3, NextNumber
<1>3. CASE SendRequestStore(r)
  <2>1. /\ stage[r] = "numbered" /\ stage' = [stage EXCEPT ![r] = "stored"]
        /\ requestMap' = [requestMap EXCEPT ![<<At[r], via[r]>>][rid[r]] = r]
        /\ UNCHANGED <<known, via, rid, reqID, dubboMap, items, answers, lost>>
    BY <1>3 DEF SendRequestStore
  <2>2. /\ stage' \in [Requests -> {"new", "queued", "numbered", "stored", "sent", "failed"}]
        /\ \A q \in Requests : stage'[q] \in Numbered <=> stage[q] \in Numbered
    BY <2>1 DEF TypeOK, Numbered
  <2>3. <<At[r], via[r]>> \in Consumers \X Providers
    BY Zenon, <2>1, ConstAssumption DEF NumberInv, Numbered
  <2>4. requestMap' \in [Consumers \X Providers -> [Id -> Requests \cup {None}]]
    BY Zenon, <2>1, <2>3 DEF TypeOK
  <2>5. NumberInv'
    BY Zenon, <2>1, <2>2, SameNumbers
  <2>6. TypeOK' /\ ItemInv'
    BY <2>1, <2>2, <2>4 DEF TypeOK, ItemInv, ItemOK
  <2> QED BY <2>5, <2>6
<1>4. CASE SendRequestSend(r)
  <2> DEFINE n == Item("req", At[r], via[r], rid[r], r, None)
  <2>1. /\ stage[r] = "stored" /\ stage' = [stage EXCEPT ![r] = "sent"]
        /\ items' = items \cup {n}
        /\ UNCHANGED <<known, via, rid, reqID, requestMap, dubboMap, answers, lost>>
    BY <1>4 DEF SendRequestSend
  <2>2. /\ stage' \in [Requests -> {"new", "queued", "numbered", "stored", "sent", "failed"}]
        /\ \A q \in Requests : stage'[q] \in Numbered <=> stage[q] \in Numbered
    BY <2>1 DEF TypeOK, Numbered
  <2>3. /\ <<At[r], via[r]>> \in Consumers \X Providers /\ via[r] \in Providers
        /\ At[r] \in Consumers /\ rid[r] \in 1..reqID[<<At[r], via[r]>>]
    BY Zenon, <2>1, ConstAssumption DEF NumberInv, Numbered
  <2>4. rid[r] \in Id
    BY SMTT(30), <2>3, NumbersFit DEF Id
  <2>5. n \in Items /\ ItemOK(n)
    <3> HIDE DEF n
    <3>1. n = Item("req", At[r], via[r], rid[r], r, None)
      BY Zenon DEF n
    <3> QED BY SMTT(30), <2>3, <2>4, <3>1, NewItem DEF ItemType, ItemOK
  <2>6. NumberInv'
    BY Zenon, <2>1, <2>2, SameNumbers
  <2>7. items' \subseteq Items /\ ItemInv'
    BY Zenon, <2>1, <2>5 DEF TypeOK, Items, ItemInv, ItemOK
  <2>8. TypeOK'
    BY Zenon, <2>1, <2>2, <2>7 DEF TypeOK, Items
  <2> QED BY Zenon, <2>6, <2>7, <2>8
<1> QED BY Zenon, <1>1, <1>2, <1>3, <1>4 DEF Out

\* The steps of the provider, of dubbo and of the consumer's worker keep the
\* types (agent_server.go, dubbo_agent.go, agent_client.go).
LEMMA MoveKeepsType ==
    ASSUME TypeInv, NEW m \in items, Move(m) \/ Lose(m)
    PROVE  TypeInv'
<1> USE DEF TypeInv
<1>0. m \in Items /\ ItemOK(m)
  BY DEF TypeOK, Items, ItemInv
<1>1. /\ m.t \in ItemType /\ m.c \in Consumers \cup {None} /\ m.p \in Providers
      /\ m.id \in Id /\ m.of \in Requests /\ m.org \in Requests \cup {None}
  BY <1>0, ItemParts
<1>2. ASSUME UNCHANGED consumerv,
             \A n \in items' : n \in items \/ (n \in Items /\ ItemOK(n)),
             requestMap' \in [Consumers \X Providers -> [Id -> Requests \cup {None}]],
             dubboMap' \in [Providers -> [Id -> (Consumers \X Requests) \cup {<<None, None>>}]],
             answers' \in [Requests -> Seq(Requests)], lost' \in BOOLEAN
      PROVE  TypeInv'
  <2>1. /\ items' \subseteq Items /\ ItemInv' /\ NumberInv'
        /\ UNCHANGED <<known, stage, via, rid, reqID>>
    BY Zenon, <1>2, MoveTyped
  <2>2. TypeOK'
    BY <1>2, <2>1 DEF TypeOK, Items
  <2> QED BY Zenon, <2>1, <2>2
<1>3. ASSUME NEW t \in ItemType, t \notin {"dreq", "dresp"} => m.t \notin {"dreq", "dresp"},
             t \in {"found", "del", "resp", "cfound", "cdel"} =>
               m.t \in {"found", "del", "resp", "cfound", "cdel"},
             NEW n, n = [m EXCEPT !.t = t]
      PROVE  n \in Items /\ ItemOK(n)
  BY SMTT(30), <1>0, <1>3, NextItem DEF ItemOK
<1>4. CASE AgentData(m) \/ Dubbo(m)
  <2>1. /\ UNCHANGED <<consumerv, requestMap, dubboMap, answers, lost>>
        /\ \/ m.t = "req" /\ items' = (items \ {m}) \cup {[m EXCEPT !.t = "work"]}
           \/ m.t = "dreq" /\ items' = (items \ {m}) \cup {[m EXCEPT !.t = "dresp"]}
    BY <1>4 DEF AgentData, Dubbo, Replace
  <2>2. PICK n : items' = (items \ {m}) \cup {n} /\ n \in Items /\ ItemOK(n)
    BY Zenon, <1>3, <2>1 DEF ItemType
  <2> QED BY Zenon, <1>2, <2>1, <2>2 DEF TypeOK
<1>5. CASE SendDubboStore(m)
  <2>1. /\ m.t = "work" /\ UNCHANGED <<consumerv, requestMap, answers, lost>>
        /\ dubboMap' = [dubboMap EXCEPT ![m.p][m.id] = <<m.c, m.of>>]
        /\ items' = (items \ {m}) \cup {[m EXCEPT !.t = "put"]}
    BY <1>5 DEF SendDubboStore, Replace
  <2>2. PICK n : items' = (items \ {m}) \cup {n} /\ n \in Items /\ ItemOK(n)
    BY Zenon, <1>3, <2>1 DEF ItemType
  <2>3. <<m.c, m.of>> \in Consumers \X Requests
    BY Zenon, <1>0, <1>1, <2>1 DEF ItemOK
  <2>4. dubboMap' \in [Providers -> [Id -> (Consumers \X Requests) \cup {<<None, None>>}]]
    BY Zenon, <1>1, <2>1, <2>3 DEF TypeOK
  <2> QED BY Zenon, <1>2, <2>1, <2>2, <2>4 DEF TypeOK
<1>6. CASE SendDubboSend(m)
  <2>1. /\ UNCHANGED <<consumerv, requestMap, dubboMap, answers, lost>>
        /\ items' = (items \ {m}) \cup {Item("dreq", None, m.p, m.id, m.of, None)}
    BY <1>6 DEF SendDubboSend, Replace
  <2>2. PICK n : n = Item("dreq", None, m.p, m.id, m.of, None)
    BY Zenon
  <2>3. n \in Items /\ ItemOK(n)
    BY SMTT(30), <1>1, <2>2, NewItem DEF ItemType, ItemOK
  <2>4. items' = (items \ {m}) \cup {n}
    BY Zenon, <2>1, <2>2
  <2> QED BY Zenon, <1>2, <2>1, <2>3, <2>4 DEF TypeOK
<1>7. CASE DubboRespLoad(m)
  <2> DEFINE e == dubboMap[m.p][m.id]
  <2>1. /\ UNCHANGED <<consumerv, requestMap, dubboMap, answers, lost>>
        /\ items' = (items \ {m}) \cup
              (IF e = <<None, None>> THEN {}
               ELSE {Item("found", e[1], m.p, m.id, m.of, e[2])})
    BY Zenon, <1>7 DEF DubboRespLoad
  <2>2. e \in (Consumers \X Requests) \cup {<<None, None>>}
    BY SMTT(30), <1>1 DEF TypeOK
  <2>3. CASE e = <<None, None>>
    <3>1. items' \subseteq items
      BY Zenon, <2>1, <2>3
    <3> QED BY Zenon, <1>2, <2>1, <3>1 DEF TypeOK
  <2>4. CASE e # <<None, None>>
    <3>1. PICK d \in Consumers, q \in Requests : e[1] = d /\ e[2] = q
      BY Zenon, <2>2, <2>4
    <3>2. PICK n : n = Item("found", d, m.p, m.id, m.of, q)
      OBVIOUS
    <3>3. n \in Items /\ ItemOK(n)
      <4>1. n.t = "found" /\ n.c = d /\ n.org = q
        BY SMTT(30), <3>2, NewItem
      <4>2. n \in Items
        BY SMTT(30), <1>1, <3>2, NewItem DEF ItemType
      <4> QED BY Zenon, <4>1, <4>2 DEF ItemOK
    <3>4. items' = (items \ {m}) \cup {n}
      BY Zenon, <2>1, <2>4, <3>1, <3>2
    <3> QED BY Zenon, <1>2, <2>1, <3>3, <3>4 DEF TypeOK
  <2> QED BY Zenon, <2>3, <2>4
<1>8. CASE DubboRespSend(m)
  <2>1. /\ m.t = "found" /\ UNCHANGED <<consumerv, requestMap, dubboMap, answers, lost>>
        /\ items' = (items \ {m}) \cup {[m EXCEPT !.t = "resp"], [m EXCEPT !.t = "del"]}
    BY <1>8 DEF DubboRespSend
  <2>2. \A n \in {[m EXCEPT !.t = "resp"], [m EXCEPT !.t = "del"]} : n \in Items /\ ItemOK(n)
    BY Zenon, <1>3, <2>1 DEF ItemType
  <2> QED BY Zenon, <1>2, <2>1, <2>2 DEF TypeOK
<1>9. CASE DubboRespDelete(m)
  <2>1. /\ UNCHANGED <<consumerv, requestMap, answers, lost>>
        /\ dubboMap' = [dubboMap EXCEPT ![m.p][m.id] = <<None, None>>]
        /\ items' \subseteq items
    BY Zenon, <1>9 DEF DubboRespDelete
  <2>2. dubboMap' \in [Providers -> [Id -> (Consumers \X Requests) \cup {<<None, None>>}]]
    BY Zenon, <1>1, <2>1 DEF TypeOK
  <2> QED BY Zenon, <1>2, <2>1, <2>2 DEF TypeOK
<1>10. CASE AgentRespLoad(m)
  <2> DEFINE r == requestMap[<<m.c, m.p>>][m.id]
  <2>1. /\ m.t = "resp" /\ UNCHANGED <<consumerv, requestMap, dubboMap, answers, lost>>
        /\ items' = (items \ {m}) \cup
              (IF r = None THEN {} ELSE {[m EXCEPT !.t = "cfound", !.org = r]})
    BY <1>10 DEF AgentRespLoad
  <2>2. <<m.c, m.p>> \in Consumers \X Providers /\ m.c \in Consumers
    BY Zenon, <1>0, <1>1, <2>1 DEF ItemOK
  <2>3. r \in Requests \cup {None}
    BY <1>1, <2>2 DEF TypeOK
  <2>4. CASE r = None
    <3>1. items' \subseteq items
      BY Zenon, <2>1, <2>4
    <3> QED BY Zenon, <1>2, <2>1, <3>1 DEF TypeOK
  <2>5. CASE r # None
    <3>0. PICK q \in Requests : q = r
      BY <2>3, <2>5
    <3>1. PICK n : n = [m EXCEPT !.t = "cfound", !.org = q]
      OBVIOUS
    <3>2. n \in Items /\ ItemOK(n)
      <4>1. n.t = "cfound" /\ n.c = m.c /\ n.org = q /\ n \in Items
        BY Zenon, <1>0, <3>0, <3>1 DEF Items, ItemType
      <4> QED BY <2>2, <4>1 DEF ItemOK
    <3>3. items' = (items \ {m}) \cup {n}
      BY Zenon, <2>1, <2>5, <3>0, <3>1
    <3> QED BY Zenon, <1>2, <2>1, <3>2, <3>3 DEF TypeOK
  <2> QED BY Zenon, <2>4, <2>5
<1>11. CASE AgentRespSend(m)
  <2>1. /\ m.t = "cfound" /\ UNCHANGED <<consumerv, requestMap, dubboMap, lost>>
        /\ answers' = [answers EXCEPT ![m.org] = Append(@, m.of)]
        /\ items' = (items \ {m}) \cup {[m EXCEPT !.t = "cdel"]}
    BY <1>11 DEF AgentRespSend, Replace
  <2>2. PICK n : items' = (items \ {m}) \cup {n} /\ n \in Items /\ ItemOK(n)
    BY Zenon, <1>3, <2>1 DEF ItemType
  <2>3. m.org \in Requests
    BY Zenon, <1>0, <2>1 DEF ItemOK
  <2>4. answers' \in [Requests -> Seq(Requests)]
    BY SMTT(30), <1>1, <2>1, <2>3, AppendProperties DEF TypeOK
  <2> QED BY Zenon, <1>2, <2>1, <2>2, <2>4 DEF TypeOK
<1>12. CASE AgentRespDelete(m)
  <2>1. /\ m.t = "cdel" /\ UNCHANGED <<consumerv, dubboMap, answers, lost>>
        /\ requestMap' = [requestMap EXCEPT ![<<m.c, m.p>>][m.id] = None]
        /\ items' \subseteq items
    BY Zenon, <1>12 DEF AgentRespDelete
  <2>2. <<m.c, m.p>> \in Consumers \X Providers
    BY Zenon, <1>0, <1>1, <2>1 DEF ItemOK
  <2>3. requestMap' \in [Consumers \X Providers -> [Id -> Requests \cup {None}]]
    BY Zenon, <1>1, <2>1, <2>2 DEF TypeOK
  <2> QED BY Zenon, <1>2, <2>1, <2>3 DEF TypeOK
<1>13. CASE Lose(m)
  <2>1. /\ UNCHANGED <<consumerv, requestMap, dubboMap, answers>> /\ lost' \in BOOLEAN
        /\ items' \subseteq items
    BY Zenon, <1>13 DEF Lose
  <2> QED BY Zenon, <1>2, <2>1 DEF TypeOK
<1> QED
  BY ZenonT(90), <1>4, <1>5, <1>6, <1>7, <1>8, <1>9, <1>10, <1>11, <1>12, <1>13 DEF Move

\* Every step keeps the types and the numbers.
LEMMA StepTyped ==
    ASSUME TypeInv, [Next]_vars
    PROVE  TypeInv'
<1>1. ASSUME NEW c \in Consumers, NEW p \in Providers, AddAgent(c, p) PROVE TypeInv'
  <2>1. /\ known' = [known EXCEPT ![c] = @ \cup {p}]
        /\ UNCHANGED <<stage, via, rid, reqID, requestMap, dubboMap, items, answers, lost>>
    BY <1>1 DEF AddAgent
  <2>2. NumberInv'
    BY Zenon, <2>1, SameNumbers DEF TypeInv
  <2>3. TypeOK' /\ ItemInv'
    BY <2>1 DEF TypeInv, TypeOK, ItemInv, ItemOK
  <2> QED BY Zenon, <2>2, <2>3 DEF TypeInv
<1>2. CASE UNCHANGED vars
  <2>1. UNCHANGED <<known, stage, via, rid, reqID, requestMap, dubboMap, items, answers, lost>>
    BY <1>2 DEF vars
  <2>2. NumberInv'
    BY Zenon, <2>1, SameNumbers DEF TypeInv
  <2>3. TypeOK' /\ ItemInv'
    BY <2>1 DEF TypeInv, TypeOK, ItemInv, ItemOK
  <2> QED BY Zenon, <2>2, <2>3 DEF TypeInv
<1> QED BY Zenon, <1>1, <1>2, OutTyped, MoveKeepsType DEF Next

\* Nothing is numbered at the start.
LEMMA InitTyped ==
    ASSUME Init
    PROVE  TypeInv
<1>1. TypeOK
  BY Zenon, EmptySeq DEF Init, TypeOK
<1>2. ItemInv
  BY DEF Init, ItemInv
<1>3. \A a : NumberedBy(a) = {}
  BY DEF Init, NumberedBy, Numbered
<1>4. NumberInv
  BY Zenon, <1>3, FS_EmptySet DEF Init, NumberInv, Numbered
<1> QED BY <1>1, <1>2, <1>4 DEF TypeInv

\* Types hold for any number of consumers, providers and requests: above all,
\* no RemoteAgent gives more numbers than there are requests.
THEOREM MeshTyped == Spec => [](TypeOK /\ NumberInv)
<1>1. Init => TypeInv
  BY InitTyped
<1>2. TypeInv /\ [Next]_vars => TypeInv'
  BY StepTyped
<1>3. TypeInv => TypeOK /\ NumberInv
  BY Zenon DEF TypeInv
<1> QED BY <1>1, <1>2, <1>3, PTL DEF Spec

-----------------------------------------------------------------------------
(* The way of a request, when all requests reach one consumer.              *)

Outward == {"req", "work", "put", "dreq", "dresp", "found"}
AtDubbo == {"put", "dreq", "dresp"}
Pending == {"put", "dreq", "dresp", "found", "del"}

\* With one consumer a provider and a number make out a request.
LEMMA OnePlace ==
    ASSUME OneConsumer, NumberInv, NEW r \in Requests, NEW q \in Requests,
           stage[r] \in Numbered, stage[q] \in Numbered,
           via[r] = via[q], rid[r] = rid[q]
    PROVE  r = q
  BY DEF OneConsumer, NumberInv

\* What the entry of a request in a consumer's map says of the request.
LEMMA RequestEntry ==
    ASSUME RequestMapInv, NEW a \in Consumers \X Providers, NEW i \in Id, NEW r \in Requests,
           requestMap[a][i] = r
    PROVE  /\ stage[r] \in {"stored", "sent"} /\ a = <<At[r], via[r]>> /\ i = rid[r]
           /\ ~lost => stage[r] = "stored" \/ Tags(r) \ {"del"} # {}
  BY DEF RequestMapInv

\* What the entry of a request in a provider's map says of the request.
LEMMA DubboEntry ==
    ASSUME DubboMapInv, NEW p \in Providers, NEW i \in Id, NEW r \in Requests,
           dubboMap[p][i] # <<None, None>>, dubboMap[p][i][2] = r
    PROVE  /\ dubboMap[p][i][1] = At[r] /\ stage[r] = "sent" /\ p = via[r] /\ i = rid[r]
           /\ ~lost => Tags(r) \cap {"put", "dreq", "dresp", "found", "del"} # {}
  BY DEF DubboMapInv, DubboEntryInv

\* A message that moves: nothing changes for the other requests, and its own
\* has the new positions for the old one.
LEMMA TagsMove ==
    ASSUME items \subseteq Items, ShapeInv, NEW m \in items, NEW T,
           items \ {m} \subseteq items', m \in items' => m.t \in T,
           \A n \in items' : n \in items \/ (n.of = m.of /\ n.t \in T),
           \A t \in T : \E n \in items' : n.of = m.of /\ n.t = t
    PROVE  /\ Tags(m.of)' = (Tags(m.of) \ {m.t}) \cup T
           /\ m.t \in Tags(m.of)
           /\ \A r \in Requests : r # m.of => Tags(r)' = Tags(r)
<1>1. \A n \in items : n.of = m.of /\ n.t = m.t => n = m
  BY SMTT(30), ItemParts DEF ShapeInv, Shape
<1>2. ASSUME NEW t PROVE t \in Tags(m.of)' <=> t \in (Tags(m.of) \ {m.t}) \cup T
  <2>1. t \in Tags(m.of)' <=> \E n \in items' : n.of = m.of /\ n.t = t
    BY DEF Tags
  <2>2. t \in Tags(m.of) <=> \E n \in items : n.of = m.of /\ n.t = t
    BY DEF Tags
  <2> QED BY Zenon, <1>1, <2>1, <2>2
<1>3. ASSUME NEW r \in Requests, r # m.of, NEW t PROVE t \in Tags(r)' <=> t \in Tags(r)
  <2>1. t \in Tags(r)' <=> \E n \in items' : n.of = r /\ n.t = t
    BY DEF Tags
  <2>2. t \in Tags(r) <=> \E n \in items : n.of = r /\ n.t = t
    BY DEF Tags
  <2> QED BY Zenon, <1>3, <2>1, <2>2
<1>4. m.t \in Tags(m.of)
  BY DEF Tags
<1>5. Tags(m.of)' = (Tags(m.of) \ {m.t}) \cup T
  BY <1>2
<1>6. \A r \in Requests : r # m.of => Tags(r)' = Tags(r)
  BY Zenon, <1>3
<1> QED BY Zenon, <1>4, <1>5, <1>6

\* The life of a request goes on when its message goes from one position to
\* the next, or is gone.
LEMMA LifeMove ==
    ASSUME LifeInv, NEW o \in Requests, NEW old, NEW T, old \in Tags(o),
           Tags(o)' = (Tags(o) \ {old}) \cup T,
           \A r \in Requests : r # o => Tags(r)' = Tags(r),
           UNCHANGED <<stage, answers>>,
           old = "del" => T = {},
           \A t, u \in T \ {"del"} : t = u,
           T \cap Outward # {} => old \in Outward /\ "del" \notin T,
           old = "cdel" => T = {}
    PROVE  LifeInv'
<1> SUFFICES ASSUME NEW r \in Requests
             PROVE  /\ \A t, u \in Tags(r)' \ {"del"} : t = u
                    /\ "del" \in Tags(r)' => Tags(r)' \cap Outward = {}
                    /\ answers[r] = << >> \/ (answers[r] = <<r>> /\ Tags(r)' \subseteq {"del", "cdel"})
                    /\ stage[r] # "sent" => answers[r] = << >>
  BY Zenon DEF LifeInv, Outward
<1>1. /\ \A t, u \in Tags(r) \ {"del"} : t = u
      /\ "del" \in Tags(r) => Tags(r) \cap Outward = {}
      /\ answers[r] = << >> \/ (answers[r] = <<r>> /\ Tags(r) \subseteq {"del", "cdel"})
      /\ stage[r] # "sent" => answers[r] = << >>
  BY Zenon DEF LifeInv, Outward
<1>2. CASE r # o
  BY Zenon, <1>1, <1>2
<1>3. CASE r = o
  BY SMTT(30), <1>1, <1>3 DEF Outward
<1> QED BY Zenon, <1>2, <1>3

\* The entries of the consumer's map stay right while no request loses its
\* last message, unless that message is lost.
LEMMA RequestMapSame ==
    ASSUME TypeOK, RequestMapInv, UNCHANGED <<stage, via, rid, requestMap>>, lost => lost',
           \A r \in Requests :
             /\ requestMap[<<At[r], via[r]>>][rid[r]] = r /\ ~lost'
             /\ Tags(r) \ {"del"} # {}
             => Tags(r)' \ {"del"} # {}
    PROVE  RequestMapInv'
<1> SUFFICES ASSUME NEW a \in Consumers \X Providers, NEW i \in Id, NEW r \in Requests,
                    r = requestMap[a][i]
             PROVE  /\ stage[r] \in {"stored", "sent"}
                    /\ a = <<At[r], via[r]>> /\ i = rid[r]
                    /\ ~lost' => stage[r] = "stored" \/ Tags(r)' \ {"del"} # {}
  BY SMTT(30) DEF RequestMapInv
<1>1. r \in Requests
  BY Zenon DEF TypeOK
<1>2. /\ stage[r] \in {"stored", "sent"} /\ a = <<At[r], via[r]>> /\ i = rid[r]
      /\ ~lost => stage[r] = "stored" \/ Tags(r) \ {"del"} # {}
  BY DEF RequestMapInv
<1> QED BY Zenon, <1>1, <1>2

\* The same of a provider's map.
LEMMA DubboMapSame ==
    ASSUME TypeOK, DubboMapInv, UNCHANGED <<stage, via, rid, dubboMap>>, lost => lost',
           \A r \in Requests : ~lost' /\ Tags(r) \cap Pending # {} => Tags(r)' \cap Pending # {},
           \A r \in Requests : Tags(r)' \cap AtDubbo # {} => Tags(r) \cap AtDubbo # {}
    PROVE  DubboMapInv'
<1>1. \A r \in Requests : Tags(r)' \cap {"put", "dreq", "dresp"} # {} =>
         dubboMap'[via'[r]][rid'[r]] = <<At[r], r>>
  BY Zenon DEF DubboMapInv, DubboEntryInv, DubboLookupInv, AtDubbo
<1>2. ASSUME NEW p \in Providers, NEW i \in Id, NEW r \in Requests, r = dubboMap[p][i][2],
             dubboMap[p][i] # <<None, None>>
      PROVE  /\ dubboMap[p][i][1] = At[r] /\ stage[r] = "sent"
             /\ p = via[r] /\ i = rid[r]
             /\ ~lost' => Tags(r)' \cap {"put", "dreq", "dresp", "found", "del"} # {}
  <2>1. r \in Requests
    BY Zenon, <1>2 DEF TypeOK
  <2>2. /\ dubboMap[p][i][1] = At[r] /\ stage[r] = "sent"
        /\ p = via[r] /\ i = rid[r]
        /\ ~lost => Tags(r) \cap {"put", "dreq", "dresp", "found", "del"} # {}
    BY SMTT(30), <1>2 DEF DubboMapInv, DubboEntryInv, DubboLookupInv
  <2> QED BY Zenon, <2>1, <2>2 DEF Pending
<1>3. DubboLookupInv'
  BY Zenon, <1>1 DEF DubboLookupInv
<1>4. DubboEntryInv'
  BY SMTT(30), <1>2 DEF DubboEntryInv
<1> QED BY Zenon, <1>3, <1>4 DEF DubboMapInv

\* A request that has not been sent is nowhere, and is not answered.
LEMMA NotSent ==
    ASSUME TypeOK, RouteInv, NEW r \in Requests, stage[r] # "sent"
    PROVE  /\ Tags(r) = {} /\ answers[r] = << >>
           /\ \A m \in items : m.of # r
           /\ \A p \in Providers, i \in Id : dubboMap[p][i] # <<None, None>> => dubboMap[p][i][2] # r
<1>1. \A m \in items : m.of # r
  BY DEF RouteInv, ShapeInv, Shape
<1>2. Tags(r) = {}
  BY Zenon, <1>1 DEF Tags
<1> QED BY SMTT(30), <1>1, <1>2 DEF RouteInv, LifeInv, DubboMapInv, DubboEntryInv

\* Steps before a request is stored: no map and no message knows of it.
LEMMA EarlyRoute ==
    ASSUME TypeOK, RouteInv, NEW r \in Requests, stage[r] \notin {"stored", "sent"},
           stage'[r] \notin {"stored", "sent"},
           \A q \in Requests : q # r =>
             stage'[q] = stage[q] /\ via'[q] = via[q] /\ rid'[q] = rid[q],
           UNCHANGED <<requestMap, dubboMap, items, answers, lost>>
    PROVE  RouteInv'
<1> USE DEF RouteInv
<1>1. \A q : Tags(q)' = Tags(q)
  BY Zenon DEF Tags
<1>2. /\ Tags(r) = {} /\ answers[r] = << >> /\ \A m \in items : m.of # r
  BY Zenon, NotSent
<1>3. ShapeInv'
  <2>1. \A m \in items : m.of \in Requests
    BY Zenon DEF TypeOK
  <2> QED BY SMTT(90), <1>2, <2>1 DEF ShapeInv, Shape
<1>4. LifeInv'
  BY SMTT(30), <1>1, <1>2 DEF LifeInv
<1>5. RequestMapInv'
  <2> SUFFICES ASSUME NEW a \in Consumers \X Providers, NEW i \in Id, NEW q \in Requests,
                      q = requestMap[a][i]
               PROVE  /\ stage'[q] \in {"stored", "sent"}
                      /\ a = <<At[q], via'[q]>> /\ i = rid'[q]
                      /\ ~lost => stage'[q] = "stored" \/ Tags(q)' \ {"del"} # {}
    BY SMTT(30) DEF RequestMapInv
  <2>1. q \in Requests
    BY Zenon DEF TypeOK
  <2>2. /\ stage[q] \in {"stored", "sent"} /\ a = <<At[q], via[q]>> /\ i = rid[q]
        /\ ~lost => stage[q] = "stored" \/ Tags(q) \ {"del"} # {}
    BY SMTT(30) DEF RequestMapInv
  <2>3. q # r
    BY Zenon, <2>2
  <2> QED BY ZenonT(60), <1>1, <2>1, <2>2, <2>3
<1>6. DubboMapInv'
  <2>1. \A q \in Requests : Tags(q)' \cap {"put", "dreq", "dresp"} # {} =>
           dubboMap'[via'[q]][rid'[q]] = <<At[q], q>>
    BY Zenon, <1>1, <1>2 DEF DubboMapInv, DubboEntryInv, DubboLookupInv
  <2>2. ASSUME NEW p \in Providers, NEW i \in Id, NEW q \in Requests, q = dubboMap[p][i][2],
               dubboMap[p][i] # <<None, None>>
        PROVE  /\ dubboMap[p][i][1] = At[q] /\ stage'[q] = "sent"
               /\ p = via'[q] /\ i = rid'[q]
               /\ ~lost => Tags(q)' \cap {"put", "dreq", "dresp", "found", "del"} # {}
    <3>1. q \in Requests
      BY Zenon, <2>2 DEF TypeOK
    <3>2. /\ dubboMap[p][i][1] = At[q] /\ stage[q] = "sent"
          /\ p = via[q] /\ i = rid[q]
          /\ ~lost => Tags(q) \cap {"put", "dreq", "dresp", "found", "del"} # {}
      BY SMTT(30), <2>2 DEF DubboMapInv, DubboEntryInv, DubboLookupInv
    <3>3. q # r
      BY Zenon, <3>2
    <3> QED BY Zenon, <1>1, <3>1, <3>2, <3>3
  <2>3. DubboLookupInv'
    BY Zenon, <2>1 DEF DubboLookupInv
  <2>4. DubboEntryInv'
    BY SMTT(30), <2>2 DEF DubboEntryInv
  <2> QED BY Zenon, <2>3, <2>4 DEF DubboMapInv
<1> QED BY Zenon, <1>3, <1>4, <1>5, <1>6

\* SendRequest stores the request under its number, a free place.
LEMMA StoreRoute ==
    ASSUME TypeInv, RouteInv, NEW r \in Requests, SendRequestStore(r)
    PROVE  RouteInv'
<1> USE DEF RouteInv, TypeInv
<1>0. /\ stage[r] = "numbered" /\ stage' = [stage EXCEPT ![r] = "stored"]
      /\ requestMap' = [requestMap EXCEPT ![<<At[r], via[r]>>][rid[r]] = r]
      /\ UNCHANGED <<known, via, rid, reqID, dubboMap, items, answers, lost>>
  BY DEF SendRequestStore
<1>1. \A q : Tags(q)' = Tags(q)
  BY Zenon, <1>0 DEF Tags
<1>2. /\ Tags(r) = {} /\ answers[r] = << >> /\ \A m \in items : m.of # r
  BY Zenon, <1>0, NotSent
<1>3. stage'[r] = "stored" /\ \A q \in Requests : q # r => stage'[q] = stage[q]
  BY Zenon, <1>0 DEF TypeOK
<1>4. ShapeInv'
  <2>1. \A m \in items : m.of \in Requests
    BY Zenon DEF TypeOK
  <2> QED BY Zenon, <1>0, <1>2, <1>3, <2>1 DEF ShapeInv, Shape
<1>5. LifeInv'
  BY ZenonT(90), <1>0, <1>1, <1>2, <1>3 DEF LifeInv
<1>6. RequestMapInv'
  <2> SUFFICES ASSUME NEW a \in Consumers \X Providers, NEW i \in Id, NEW q \in Requests,
                      q = requestMap'[a][i]
               PROVE  /\ stage'[q] \in {"stored", "sent"}
                      /\ a = <<At[q], via[q]>> /\ i = rid[q]
                      /\ ~lost => stage'[q] = "stored" \/ Tags(q) \ {"del"} # {}
    BY SMTT(30), <1>0, <1>1 DEF RequestMapInv
  <2>1. CASE a = <<At[r], via[r]>> /\ i = rid[r]
    <3>1. q = r
      BY Zenon, <1>0, <2>1 DEF TypeOK
    <3> QED BY Zenon, <1>3, <2>1, <3>1
  <2>2. CASE ~(a = <<At[r], via[r]>> /\ i = rid[r])
    <3>1. q = requestMap[a][i]
      BY Zenon, <1>0, <2>2 DEF TypeOK
    <3>2. q \in Requests
      BY Zenon, <3>1 DEF TypeOK
    <3>3. /\ stage[q] \in {"stored", "sent"} /\ a = <<At[q], via[q]>> /\ i = rid[q]
          /\ ~lost => stage[q] = "stored" \/ Tags(q) \ {"del"} # {}
      BY SMTT(30), <3>1 DEF RequestMapInv
    <3>4. q # r
      BY ZenonT(60), <1>0, <3>3
    <3> QED BY Zenon, <1>3, <3>2, <3>3, <3>4
  <2> QED BY Zenon, <2>1, <2>2
<1>7. DubboMapInv'
  <2>1. \A q \in Requests : stage[q] = "sent" => stage'[q] = "sent"
    BY Zenon, <1>0, <1>3
  <2>2. \A p \in Providers, i \in Id :
           dubboMap[p][i] # <<None, None>> => dubboMap[p][i][2] \in Requests
    BY SMTT(30) DEF TypeOK
  <2> QED BY SMTT(30), <1>0, <1>1, <2>1, <2>2 DEF DubboMapInv, DubboEntryInv, DubboLookupInv
<1> QED BY Zenon, <1>4, <1>5, <1>6, <1>7

\* SendRequest sends it: its first position is the wire to the provider.
LEMMA SendRoute ==
    ASSUME TypeInv, RouteInv, NEW r \in Requests, SendRequestSend(r)
    PROVE  RouteInv'
<1> USE DEF RouteInv, TypeInv
<1>0. /\ stage[r] = "stored" /\ stage' = [stage EXCEPT ![r] = "sent"]
      /\ items' = items \cup {Item("req", At[r], via[r], rid[r], r, None)}
      /\ UNCHANGED <<known, via, rid, reqID, requestMap, dubboMap, answers, lost>>
  BY Zenon DEF SendRequestSend
<1>1. PICK n : n = Item("req", At[r], via[r], rid[r], r, None)
  BY Zenon
<1>2. /\ n.t = "req" /\ n.c = At[r] /\ n.p = via[r] /\ n.id = rid[r] /\ n.of = r
      /\ n.org = None
  BY SMTT(30), <1>1, NewItem
<1>3. items' = items \cup {n}
  BY Zenon, <1>0, <1>1
<1>4. /\ Tags(r) = {} /\ answers[r] = << >> /\ \A m \in items : m.of # r
  BY Zenon, <1>0, NotSent
<1>5. stage'[r] = "sent" /\ \A q \in Requests : q # r => stage'[q] = stage[q]
  BY Zenon, <1>0 DEF TypeOK
<1>6. Tags(r)' = {"req"} /\ \A q : q # r => Tags(q)' = Tags(q)
  BY Zenon, <1>2, <1>3, <1>4 DEF Tags
<1>7. ShapeInv'
  <2>1. \A m \in items : m.of \in Requests /\ m.of # r
    BY Zenon, <1>4 DEF TypeOK
  <2>2. \A m \in items : Shape(m)'
    BY Zenon, <1>0, <1>5, <2>1 DEF ShapeInv, Shape
  <2>3. Shape(n)'
    BY Zenon, <1>0, <1>2, <1>5 DEF Shape
  <2> QED BY Zenon, <1>3, <2>2, <2>3 DEF ShapeInv
<1>8. LifeInv'
  <2> SUFFICES ASSUME NEW q \in Requests
               PROVE  /\ \A t, u \in Tags(q)' \ {"del"} : t = u
                      /\ "del" \in Tags(q)' =>
                           Tags(q)' \cap {"req", "work", "put", "dreq", "dresp", "found"} = {}
                      /\ answers[q] = << >> \/ (answers[q] = <<q>> /\ Tags(q)' \subseteq {"del", "cdel"})
                      /\ stage'[q] # "sent" => answers[q] = << >>
    BY Zenon, <1>0 DEF LifeInv
  <2>1. CASE q = r
    BY Zenon, <1>4, <1>6, <2>1
  <2>2. CASE q # r
    BY SMTT(30), <1>5, <1>6, <2>2 DEF LifeInv
  <2> QED BY Zenon, <2>1, <2>2
<1>9. RequestMapInv'
  <2> SUFFICES ASSUME NEW a \in Consumers \X Providers, NEW i \in Id, NEW q \in Requests,
                      q = requestMap[a][i]
               PROVE  /\ stage'[q] \in {"stored", "sent"}
                      /\ a = <<At[q], via[q]>> /\ i = rid[q]
                      /\ ~lost => stage'[q] = "stored" \/ Tags(q)' \ {"del"} # {}
    BY SMTT(30), <1>0 DEF RequestMapInv
  <2>1. q \in Requests
    BY Zenon DEF TypeOK
  <2>2. /\ stage[q] \in {"stored", "sent"} /\ a = <<At[q], via[q]>> /\ i = rid[q]
        /\ ~lost => stage[q] = "stored" \/ Tags(q) \ {"del"} # {}
    BY SMTT(30) DEF RequestMapInv
  <2>3. CASE q = r
    BY Zenon, <1>5, <1>6, <2>2, <2>3
  <2>4. CASE q # r
    BY Zenon, <1>5, <1>6, <2>1, <2>2, <2>4
  <2> QED BY Zenon, <2>3, <2>4
<1>10. DubboMapInv'
  <2>1. \A q \in Requests : stage[q] = "sent" => stage'[q] = "sent" /\ q # r
    BY Zenon, <1>0, <1>5
  <2>2. \A p \in Providers, i \in Id :
           dubboMap[p][i] # <<None, None>> => dubboMap[p][i][2] \in Requests
    BY DEF TypeOK
  <2>3. \A q \in Requests : Tags(q)' \cap {"put", "dreq", "dresp"} # {} =>
           dubboMap'[via'[q]][rid'[q]] = <<At[q], q>>
    BY Zenon, <1>0, <1>6 DEF DubboMapInv, DubboEntryInv, DubboLookupInv
  <2>4. DubboEntryInv'
    <3> SUFFICES ASSUME NEW p \in Providers, NEW i \in Id, NEW q \in Requests,
                        dubboMap[p][i] # <<None, None>>, dubboMap[p][i][2] = q
                 PROVE  /\ dubboMap[p][i][1] = At[q] /\ stage'[q] = "sent"
                        /\ p = via[q] /\ i = rid[q]
                        /\ ~lost => Tags(q)' \cap {"put", "dreq", "dresp", "found", "del"} # {}
      BY SMTT(30), <1>0 DEF DubboEntryInv
    <3>1. /\ dubboMap[p][i][1] = At[q] /\ stage[q] = "sent" /\ p = via[q] /\ i = rid[q]
          /\ ~lost => Tags(q) \cap {"put", "dreq", "dresp", "found", "del"} # {}
      BY SMTT(30), DubboEntry
    <3>2. q # r /\ stage'[q] = "sent"
      BY Zenon, <2>1, <3>1
    <3>3. Tags(q)' = Tags(q)
      BY Zenon, <1>6, <3>2
    <3> QED BY Zenon, <3>1, <3>2, <3>3
  <2>5. DubboLookupInv'
    BY Zenon, <2>3 DEF DubboLookupInv
  <2> QED BY Zenon, <2>4, <2>5 DEF DubboMapInv
<1> QED BY <1>7, <1>8, <1>9, <1>10

\* A step of a message m to the positions T, in the maps' terms: what it does
\* to the shape of messages and to the positions of requests.
LEMMA MoveRoute ==
    ASSUME TypeInv, RouteInv, NEW m \in items, NEW T, UNCHANGED consumerv,
           items \ {m} \subseteq items',
           \A n \in items' : (n \in items /\ n # m) \/ (n.of = m.of /\ n.t \in T /\ Shape(n)),
           \A t \in T : \E n \in items' : n.of = m.of /\ n.t = t
    PROVE  /\ ShapeInv' /\ UNCHANGED <<stage, via, rid>>
           /\ Tags(m.of)' = (Tags(m.of) \ {m.t}) \cup T
           /\ m.t \in Tags(m.of) /\ m.of \in Requests
           /\ \A r \in Requests : r # m.of => Tags(r)' = Tags(r)
           /\ m.t # "del" => Tags(m.of) \ {"del"} = {m.t}
<1>1. UNCHANGED <<stage, via, rid>>
  BY Zenon DEF consumerv
<1>2. items \subseteq Items /\ m.of \in Requests /\ ShapeInv /\ LifeInv
  BY Zenon DEF TypeInv, TypeOK, Items, RouteInv
<1>3. ShapeInv'
  BY Zenon, <1>1, <1>2 DEF ShapeInv, Shape
<1>4. /\ Tags(m.of)' = (Tags(m.of) \ {m.t}) \cup T
      /\ m.t \in Tags(m.of)
      /\ \A r \in Requests : r # m.of => Tags(r)' = Tags(r)
  BY Zenon, <1>2, TagsMove
<1>5. \A t, u \in Tags(m.of) \ {"del"} : t = u
  BY Zenon, <1>2 DEF LifeInv
<1>6. m.t # "del" => Tags(m.of) \ {"del"} = {m.t}
  BY SMTT(30), <1>4, <1>5
<1> QED BY Zenon, <1>1, <1>2, <1>3, <1>4, <1>6

\* A step to one next position that touches neither map: AgentData,
\* SendDubboSend, Dubbo, DubboRespLoad, DubboRespSend, AgentRespLoad.
LEMMA PlainMove ==
    ASSUME TypeInv, RouteInv, NEW m \in items, NEW T, UNCHANGED consumerv,
           items \ {m} \subseteq items',
           \A n \in items' : (n \in items /\ n # m) \/ (n.of = m.of /\ n.t \in T /\ Shape(n)),
           \A t \in T : \E n \in items' : n.of = m.of /\ n.t = t,
           UNCHANGED <<requestMap, dubboMap, answers, lost>>,
           \/ m.t = "req" /\ T = {"work"}
           \/ m.t = "put" /\ T = {"dreq"}
           \/ m.t = "dreq" /\ T = {"dresp"}
           \/ m.t = "dresp" /\ T = {"found"}
           \/ m.t = "found" /\ T = {"resp", "del"}
           \/ m.t = "resp" /\ T = {"cfound"}
    PROVE  RouteInv'
<1> USE DEF RouteInv, TypeInv
<1> DEFINE o == m.of
           old == m.t
<1>1. /\ ShapeInv' /\ UNCHANGED <<stage, via, rid>>
      /\ Tags(o)' = (Tags(o) \ {old}) \cup T
      /\ old \in Tags(o) /\ o \in Requests
      /\ \A r \in Requests : r # o => Tags(r)' = Tags(r)
      /\ old # "del" => Tags(o) \ {"del"} = {old}
  BY Zenon, MoveRoute
<1>2. /\ old = "del" => T = {}
      /\ \A t, u \in T \ {"del"} : t = u
      /\ T \cap Outward # {} => old \in Outward /\ "del" \notin T
      /\ old = "cdel" => T = {}
      /\ T \ {"del"} # {} /\ old # "del"
      /\ old \in Pending => T \cap Pending # {}
      /\ T \cap AtDubbo # {} => old \in AtDubbo
  BY Zenon DEF Outward, AtDubbo, Pending
<1> HIDE DEF o, old
<1>3. LifeInv'
  BY SMTT(30), <1>1, <1>2, LifeMove
<1>4. \A r \in Requests : Tags(r) \ {"del"} # {} => Tags(r)' \ {"del"} # {}
  BY Zenon, <1>1, <1>2
<1>5. RequestMapInv'
  BY Zenon, <1>1, <1>4, RequestMapSame
<1>6. \A r \in Requests : Tags(r) \cap Pending # {} => Tags(r)' \cap Pending # {}
  BY SMTT(30), <1>1, <1>2
<1>7. \A r \in Requests : Tags(r)' \cap AtDubbo # {} => Tags(r) \cap AtDubbo # {}
  BY Zenon, <1>1, <1>2
<1>8. DubboMapInv'
  BY Zenon, <1>1, <1>6, <1>7, DubboMapSame
<1> QED BY Zenon, <1>1, <1>3, <1>5, <1>8

\* Messages on the wire or in a queue that move on, and the two lookups: each
\* finds the entry of its own request, though the key is a small number.
LEMMA TransportRoute ==
    ASSUME OneConsumer, TypeInv, RouteInv, NEW m \in items,
           \/ AgentData(m) \/ SendDubboSend(m) \/ Dubbo(m)
           \/ DubboRespLoad(m) \/ DubboRespSend(m)
    PROVE  RouteInv'
<1>0. m \in Items /\ Shape(m)
  BY Zenon DEF TypeInv, TypeOK, Items, RouteInv, ShapeInv
<1>1. /\ m.t \in ItemType /\ m.p \in Providers /\ m.id \in Id /\ m.of \in Requests
  BY Zenon, <1>0, ItemParts
<1>2. CASE AgentData(m) \/ Dubbo(m)
  <2>1. /\ UNCHANGED <<consumerv, requestMap, dubboMap, answers, lost>>
        /\ \/ m.t = "req" /\ items' = (items \ {m}) \cup {[m EXCEPT !.t = "work"]}
           \/ m.t = "dreq" /\ items' = (items \ {m}) \cup {[m EXCEPT !.t = "dresp"]}
    BY Zenon, <1>2 DEF AgentData, Dubbo, Replace
  <2>2. PICK t \in {"work", "dresp"} : /\ items' = (items \ {m}) \cup {[m EXCEPT !.t = t]}
                                      /\ m.t = IF t = "work" THEN "req" ELSE "dreq"
    BY <2>1
  <2>3. PICK n : n = [m EXCEPT !.t = t]
    BY Zenon
  <2>4. n.t = t /\ n.c = m.c /\ n.p = m.p /\ n.id = m.id /\ n.of = m.of /\ n.org = m.org
    BY SMTT(30), <1>0, <2>2, <2>3, NextItem DEF ItemType
  <2>5. Shape(n)
    BY Zenon, <1>0, <2>2, <2>4 DEF Shape
  <2>6. items' = (items \ {m}) \cup {n}
    BY Zenon, <2>2, <2>3
  <2>7. \E T : /\ T = {t}
               /\ \A k \in items' : (k \in items /\ k # m) \/ (k.of = m.of /\ k.t \in T /\ Shape(k))
               /\ \A u \in T : \E k \in items' : k.of = m.of /\ k.t = u
               /\ (m.t = "req" /\ T = {"work"}) \/ (m.t = "dreq" /\ T = {"dresp"})
    BY ZenonT(60), <2>2, <2>4, <2>5, <2>6
  <2> QED BY Zenon, <2>1, <2>6, <2>7, PlainMove
<1>3. CASE SendDubboSend(m)
  <2>1. /\ m.t = "put" /\ UNCHANGED <<consumerv, requestMap, dubboMap, answers, lost>>
        /\ items' = (items \ {m}) \cup {Item("dreq", None, m.p, m.id, m.of, None)}
    BY Zenon, <1>3 DEF SendDubboSend, Replace
  <2>2. PICK n : n = Item("dreq", None, m.p, m.id, m.of, None)
    BY Zenon
  <2>3. n.t = "dreq" /\ n.c = None /\ n.p = m.p /\ n.id = m.id /\ n.of = m.of /\ n.org = None
    BY SMTT(30), <2>2, NewItem
  <2>4. Shape(n)
    BY Zenon, <1>0, <2>1, <2>3 DEF Shape
  <2>5. items' = (items \ {m}) \cup {n}
    BY Zenon, <2>1, <2>2
  <2>6. PICK T : T = {"dreq"}
    BY ZenonT(60)
  <2>7. \A k \in items' : (k \in items /\ k # m) \/ (k.of = m.of /\ k.t \in T /\ Shape(k))
    BY Zenon, <2>3, <2>4, <2>5, <2>6
  <2>8. \A u \in T : \E k \in items' : k.of = m.of /\ k.t = u
    BY Zenon, <2>3, <2>4, <2>5, <2>6
  <2> QED BY SMTT(30), <2>1, <2>5, <2>6, <2>7, <2>8, PlainMove
<1>4. CASE DubboRespLoad(m)
  <2>1. /\ m.t = "dresp" /\ UNCHANGED <<consumerv, requestMap, dubboMap, answers, lost>>
        /\ items' = (items \ {m}) \cup
              (IF dubboMap[m.p][m.id] = <<None, None>> THEN {}
               ELSE {Item("found", dubboMap[m.p][m.id][1], m.p, m.id, m.of,
                          dubboMap[m.p][m.id][2])})
    BY Zenon, <1>4 DEF DubboRespLoad
  <2>2. dubboMap[m.p][m.id] = <<At[m.of], m.of>>
    <3>1. m.t \in Tags(m.of)
      BY SMTT(30) DEF Tags
    <3>2. dubboMap[via[m.of]][rid[m.of]] = <<At[m.of], m.of>>
      BY ZenonT(60), <1>1, <2>1, <3>1 DEF RouteInv, DubboMapInv, DubboLookupInv
    <3> QED BY Zenon, <1>0, <3>2 DEF Shape
  <2>3. dubboMap[m.p][m.id] # <<None, None>>
    BY SMTT(30), <1>1, <2>2, NoneAssumption
  <2>4. PICK n : n = Item("found", At[m.of], m.p, m.id, m.of, m.of)
    BY SMTT(30)
  <2>5. n.t = "found" /\ n.c = At[m.of] /\ n.p = m.p /\ n.id = m.id /\ n.of = m.of /\ n.org = m.of
    BY Zenon, <2>4 DEF Item
  <2>6. Shape(n)
    BY Zenon, <1>0, <2>1, <2>5 DEF Shape
  <2>7. items' = (items \ {m}) \cup {n}
    <3>1. PICK e : e = dubboMap[m.p][m.id]
      BY Zenon
    <3>2. e = <<At[m.of], m.of>> /\ e # <<None, None>>
      BY Zenon, <2>2, <2>3, <3>1
    <3>3. items' = (items \ {m}) \cup {Item("found", e[1], m.p, m.id, m.of, e[2])}
      BY <2>1, <3>1, <3>2, ZenonT(60)
    <3>4. e[1] = At[m.of] /\ e[2] = m.of
      BY <3>2
    <3> QED BY <2>4, <3>3, <3>4, Zenon
  <2>8. PICK T : T = {"found"}
    BY ZenonT(60)
  <2>9. \A k \in items' : (k \in items /\ k # m) \/ (k.of = m.of /\ k.t \in T /\ Shape(k))
    BY Zenon, <2>5, <2>6, <2>7, <2>8
  <2>10. \A u \in T : \E k \in items' : k.of = m.of /\ k.t = u
    BY Zenon, <2>5, <2>6, <2>7, <2>8
  <2>11. m.t = "dresp" /\ UNCHANGED <<consumerv, requestMap, dubboMap, answers, lost>>
    BY Zenon, <2>1
  <2> QED BY SMTT(30), <2>7, <2>8, <2>9, <2>10, <2>11, PlainMove
<1>5. CASE DubboRespSend(m)
  <2>1. /\ m.t = "found" /\ UNCHANGED <<consumerv, requestMap, dubboMap, answers, lost>>
        /\ items' = (items \ {m}) \cup {[m EXCEPT !.t = "resp"], [m EXCEPT !.t = "del"]}
    BY <1>5 DEF DubboRespSend
  <2>2. PICK n, d : n = [m EXCEPT !.t = "resp"] /\ d = [m EXCEPT !.t = "del"]
    BY Zenon
  <2>3. /\ n.t = "resp" /\ n.c = m.c /\ n.p = m.p /\ n.id = m.id /\ n.of = m.of /\ n.org = m.org
        /\ d.t = "del" /\ d.c = m.c /\ d.p = m.p /\ d.id = m.id /\ d.of = m.of /\ d.org = m.org
    BY <1>0, <2>2, NextItem DEF ItemType
  <2>4. Shape(n) /\ Shape(d)
    BY <1>0, <2>1, <2>3 DEF Shape
  <2>5. items' = (items \ {m}) \cup {n, d}
    BY SMTT(30), <2>1, <2>2
  <2>6. PICK T : T = {"resp", "del"}
    BY Zenon
  <2>7. \A k \in items' : (k \in items /\ k # m) \/ (k.of = m.of /\ k.t \in T /\ Shape(k))
    BY Zenon, <2>3, <2>4, <2>5, <2>6
  <2>8. \A u \in T : \E k \in items' : k.of = m.of /\ k.t = u
    BY Zenon, <2>3, <2>4, <2>5, <2>6
  <2>9. items \ {m} \subseteq items'
    BY Zenon, <2>5
  <2>10. /\ UNCHANGED consumerv
         /\ UNCHANGED <<requestMap, dubboMap, answers, lost>>
    BY <2>1
  <2>11. m.t = "found" /\ T = {"resp", "del"}
    BY Zenon, <2>1, <2>6
  <2> QED BY ZenonT(60), <2>7, <2>8, <2>9, <2>10, <2>11, PlainMove
<1> QED BY Zenon, <1>2, <1>3, <1>4, <1>5

\* SendDubboRequest's store and the deletion after the answer write a place of
\* the provider's map that only this request uses.
LEMMA DubboMapRoute ==
    ASSUME OneConsumer, TypeInv, RouteInv, NEW m \in items,
           SendDubboStore(m) \/ DubboRespDelete(m)
    PROVE  RouteInv'
<1> USE DEF RouteInv, TypeInv
<1>0. m \in Items /\ Shape(m)
  BY Zenon DEF TypeOK, Items, ShapeInv
<1>1. /\ m.p \in Providers /\ m.id \in Id /\ m.of \in Requests
      /\ stage[m.of] = "sent" /\ m.p = via[m.of] /\ m.id = rid[m.of]
  BY Zenon, <1>0, ItemParts DEF Shape
<1> DEFINE o == m.of
<1>3. ASSUME NEW q \in Requests, stage[q] = "sent", via[q] = m.p, rid[q] = m.id
      PROVE  q = o
  BY Zenon, <1>1, <1>3, OnePlace DEF Numbered
<1>4. CASE SendDubboStore(m)
  <2>1. /\ m.t = "work" /\ UNCHANGED <<consumerv, requestMap, answers, lost>>
        /\ dubboMap' = [dubboMap EXCEPT ![m.p][m.id] = <<m.c, m.of>>]
        /\ items' = (items \ {m}) \cup {[m EXCEPT !.t = "put"]}
    BY Zenon, <1>4 DEF SendDubboStore, Replace
  <2>2. PICK n : n = [m EXCEPT !.t = "put"]
    BY Zenon
  <2>3. n.t = "put" /\ n.c = m.c /\ n.p = m.p /\ n.id = m.id /\ n.of = m.of /\ n.org = m.org
    BY SMTT(30), <1>0, <2>2, NextItem DEF ItemType
  <2>4. Shape(n)
    BY Zenon, <1>0, <2>1, <2>3 DEF Shape
  <2>5. items' = (items \ {m}) \cup {n}
    BY Zenon, <2>1, <2>2
  <2>6. PICK T : T = {"put"}
    BY Zenon
  <2>7. \A k \in items' : (k \in items /\ k # m) \/ (k.of = m.of /\ k.t \in T /\ Shape(k))
    BY Zenon, <2>3, <2>4, <2>5, <2>6
  <2>8. \A u \in T : \E k \in items' : k.of = m.of /\ k.t = u
    BY Zenon, <2>3, <2>5, <2>6
  <2>9. /\ ShapeInv' /\ UNCHANGED <<stage, via, rid>>
        /\ Tags(o)' = (Tags(o) \ {"work"}) \cup T
        /\ "work" \in Tags(o) /\ o \in Requests
        /\ \A r \in Requests : r # o => Tags(r)' = Tags(r)
        /\ Tags(o) \ {"del"} = {"work"}
    BY ZenonT(60), <2>1, <2>5, <2>7, <2>8, MoveRoute
  <2>10. LifeInv'
    <3>1. /\ \A t, u \in T \ {"del"} : t = u
          /\ T \cap Outward # {} => "work" \in Outward /\ "del" \notin T
      BY <2>6 DEF Outward
    <3> QED BY <2>1, <2>9, <3>1, LifeMove
  <2>11. \A r \in Requests : Tags(r) \ {"del"} # {} => Tags(r)' \ {"del"} # {}
    BY Zenon, <2>6, <2>9
  <2>12. RequestMapInv'
    BY Zenon, <2>1, <2>9, <2>11, RequestMapSame
  <2>13. /\ dubboMap'[m.p][m.id] = <<At[o], o>>
         /\ \A p \in Providers, i \in Id : ~(p = m.p /\ i = m.id) => dubboMap'[p][i] = dubboMap[p][i]
    <3>1. m.c = At[o] /\ m.of = o
      BY Zenon, <1>0, <2>1 DEF Shape
    <3> QED BY Zenon, <1>1, <2>1, <3>1 DEF TypeOK
  <2>14. \A r \in Requests : Tags(r)' \cap {"put", "dreq", "dresp"} # {} =>
           dubboMap'[via'[r]][rid'[r]] = <<At[r], r>>
    <3> SUFFICES ASSUME NEW r \in Requests, Tags(r)' \cap {"put", "dreq", "dresp"} # {}
                 PROVE  dubboMap'[via[r]][rid[r]] = <<At[r], r>>
      BY Zenon, <2>9
    <3>1. CASE r = o
      BY Zenon, <1>1, <2>13, <3>1
    <3>2. CASE r # o
      <4>1. Tags(r) \cap {"put", "dreq", "dresp"} # {}
        BY Zenon, <2>9, <3>2
      <4>2. dubboMap[via[r]][rid[r]] = <<At[r], r>> /\ stage[r] = "sent"
        BY Zenon, <4>1, NotSent DEF DubboMapInv, DubboEntryInv, DubboLookupInv
      <4>3. via[r] \in Providers /\ rid[r] \in Id
        <5>1. PICK k \in items : k.of = r
          BY Zenon, <4>1 DEF Tags
        <5>2. k.p = via[r] /\ k.id = rid[r]
          BY Zenon, <5>1 DEF ShapeInv, Shape
        <5> QED BY Zenon, <5>2, ItemParts DEF TypeOK, Items
      <4> QED BY Zenon, <1>3, <2>13, <3>2, <4>2, <4>3
    <3> QED BY Zenon, <3>1, <3>2
  <2>15. ASSUME NEW p \in Providers, NEW i \in Id, NEW r \in Requests, r = dubboMap'[p][i][2],
               dubboMap'[p][i] # <<None, None>>
        PROVE  /\ dubboMap'[p][i][1] = At[r] /\ stage[r] = "sent"
               /\ p = via[r] /\ i = rid[r]
               /\ ~lost => Tags(r)' \cap {"put", "dreq", "dresp", "found", "del"} # {}
    <3>1. CASE p = m.p /\ i = m.id
      <4>1. r = o /\ dubboMap'[p][i][1] = At[r]
        BY SMTT(30), <2>13, <2>15, <3>1
      <4> QED BY Zenon, <1>1, <2>6, <2>9, <3>1, <4>1
    <3>2. CASE ~(p = m.p /\ i = m.id)
      <4>1. dubboMap'[p][i] = dubboMap[p][i]
        BY Zenon, <2>13, <3>2
      <4>2. r \in Requests
        BY Zenon, <2>15, <4>1 DEF TypeOK
      <4>3. /\ dubboMap[p][i][1] = At[r] /\ stage[r] = "sent"
            /\ p = via[r] /\ i = rid[r]
            /\ ~lost => Tags(r) \cap {"put", "dreq", "dresp", "found", "del"} # {}
        BY SMTT(30), <2>15, <4>1 DEF DubboMapInv, DubboEntryInv, DubboLookupInv
      <4>4. r # o
        BY Zenon, <1>1, <3>2, <4>3
      <4> QED BY Zenon, <2>9, <4>1, <4>2, <4>3, <4>4
    <3> QED BY Zenon, <3>1, <3>2
  <2>16. DubboMapInv'
    <3>1. DubboLookupInv'
      BY Zenon, <2>14 DEF DubboLookupInv
    <3>2. DubboEntryInv'
      BY SMTT(30), <2>1, <2>9, <2>15 DEF DubboEntryInv
    <3> QED BY Zenon, <3>1, <3>2 DEF DubboMapInv
  <2> QED BY Zenon, <2>9, <2>10, <2>12, <2>16
<1>5. CASE DubboRespDelete(m)
  <2>1. /\ m.t = "del" /\ UNCHANGED <<consumerv, requestMap, answers, lost>>
        /\ dubboMap' = [dubboMap EXCEPT ![m.p][m.id] = <<None, None>>]
        /\ items' = items \ {m}
    BY <1>5 DEF DubboRespDelete
  <2>2. PICK T : T = {}
    BY Zenon
  <2>3. /\ \A k \in items' : (k \in items /\ k # m) \/ (k.of = m.of /\ k.t \in T /\ Shape(k))
        /\ \A u \in T : \E k \in items' : k.of = m.of /\ k.t = u
    BY Zenon, <2>1, <2>2
  <2>4. /\ ShapeInv' /\ UNCHANGED <<stage, via, rid>>
        /\ Tags(o)' = (Tags(o) \ {m.t}) \cup T
        /\ m.t \in Tags(o) /\ o \in Requests
        /\ \A r \in Requests : r # o => Tags(r)' = Tags(r)
    <3>1. UNCHANGED consumerv /\ items \ {m} \subseteq items'
      BY Zenon, <2>1
    <3> QED BY Zenon, <2>3, <3>1, MoveRoute
  <2>5. LifeInv'
    BY SMTT(30), <2>1, <2>2, <2>4, LifeMove
  <2>6. \A r \in Requests : Tags(r) \ {"del"} # {} => Tags(r)' \ {"del"} # {}
    BY Zenon, <2>1, <2>2, <2>4
  <2>7. RequestMapInv'
    BY Zenon, <2>1, <2>4, <2>6, RequestMapSame
  <2>8. /\ dubboMap'[m.p][m.id] = <<None, None>>
        /\ \A p \in Providers, i \in Id : ~(p = m.p /\ i = m.id) => dubboMap'[p][i] = dubboMap[p][i]
    BY Zenon, <1>1, <2>1 DEF TypeOK
  <2>9. Tags(o)' \cap {"put", "dreq", "dresp"} = {}
    BY SMTT(30), <2>1, <2>2, <2>4 DEF LifeInv
  <2>10. \A r \in Requests : Tags(r)' \cap {"put", "dreq", "dresp"} # {} =>
           dubboMap'[via'[r]][rid'[r]] = <<At[r], r>>
    <3> SUFFICES ASSUME NEW r \in Requests, Tags(r)' \cap {"put", "dreq", "dresp"} # {}
                 PROVE  dubboMap'[via[r]][rid[r]] = <<At[r], r>>
      BY Zenon, <2>4
    <3>1. r # o
      BY Zenon, <2>9
    <3>2. Tags(r) \cap {"put", "dreq", "dresp"} # {}
      BY Zenon, <2>4, <3>1
    <3>3. dubboMap[via[r]][rid[r]] = <<At[r], r>> /\ stage[r] = "sent"
      BY <3>2, NotSent DEF DubboMapInv, DubboEntryInv, DubboLookupInv
    <3>4. via[r] \in Providers /\ rid[r] \in Id
      <4>1. PICK k \in items : k.of = r
        BY <3>2 DEF Tags
      <4>2. k.p = via[r] /\ k.id = rid[r]
        BY <4>1 DEF ShapeInv, Shape
      <4> QED BY <4>2, ItemParts DEF TypeOK, Items
    <3> QED BY Zenon, <1>3, <2>8, <3>1, <3>3, <3>4
  <2>11. ASSUME NEW p \in Providers, NEW i \in Id, NEW r \in Requests, r = dubboMap'[p][i][2],
               dubboMap'[p][i] # <<None, None>>
        PROVE  /\ dubboMap'[p][i][1] = At[r] /\ stage[r] = "sent"
               /\ p = via[r] /\ i = rid[r]
               /\ ~lost => Tags(r)' \cap {"put", "dreq", "dresp", "found", "del"} # {}
    <3>1. ~(p = m.p /\ i = m.id) /\ dubboMap'[p][i] = dubboMap[p][i]
      BY Zenon, <2>8, <2>11
    <3>2. r \in Requests
      BY Zenon, <2>11, <3>1 DEF TypeOK
    <3>3. /\ dubboMap[p][i][1] = At[r] /\ stage[r] = "sent"
          /\ p = via[r] /\ i = rid[r]
          /\ ~lost => Tags(r) \cap {"put", "dreq", "dresp", "found", "del"} # {}
      BY SMTT(30), <2>11, <3>1 DEF DubboMapInv, DubboEntryInv, DubboLookupInv
    <3>4. r # o
      BY Zenon, <1>1, <3>1, <3>3
    <3> QED BY ZenonT(60), <2>4, <3>1, <3>2, <3>3, <3>4
  <2>12. DubboMapInv'
    <3>1. DubboLookupInv'
      BY <2>10 DEF DubboLookupInv
    <3>2. DubboEntryInv'
      BY SMTT(30), <2>1, <2>4, <2>11 DEF DubboEntryInv
    <3> QED BY <3>1, <3>2 DEF DubboMapInv
  <2> QED BY Zenon, <2>4, <2>5, <2>7, <2>12
<1> QED BY Zenon, <1>4, <1>5

\* The consumer's worker: it finds the request the answer is about, answers
\* it once, and deletes a place of its map that only this request uses.
LEMMA AnswerRoute ==
    ASSUME OneConsumer, TypeInv, RouteInv, NEW m \in items,
           AgentRespLoad(m) \/ AgentRespSend(m) \/ AgentRespDelete(m)
    PROVE  RouteInv'
<1> USE DEF RouteInv, TypeInv
<1> DEFINE o == m.of
<1>0. m \in Items /\ Shape(m)
  BY Zenon DEF TypeOK, Items, ShapeInv
<1>1. /\ m.p \in Providers /\ m.id \in Id /\ m.of \in Requests /\ At[o] \in Consumers
      /\ stage[m.of] = "sent" /\ m.p = via[m.of] /\ m.id = rid[m.of]
  BY Zenon, <1>0, ItemParts, ConstAssumption DEF Shape
<1>2. CASE AgentRespLoad(m)
  <2>1. /\ m.t = "resp" /\ UNCHANGED <<consumerv, requestMap, dubboMap, answers, lost>>
        /\ items' = (items \ {m}) \cup
              (IF requestMap[<<m.c, m.p>>][m.id] = None THEN {}
               ELSE {[m EXCEPT !.t = "cfound", !.org = requestMap[<<m.c, m.p>>][m.id]]})
    BY Zenon, <1>2 DEF AgentRespLoad
  <2>2. m.c = At[o] /\ m.org = o
    BY Zenon, <1>0, <2>1 DEF Shape
  <2>3. PICK q \in Requests \cup {None} : q = requestMap[<<m.c, m.p>>][m.id]
    BY SMTT(30), <1>1, <2>2 DEF TypeOK
  <2>4. CASE q = None
    <3>1. items' = items \ {m}
      BY Zenon, <2>1, <2>3, <2>4
    <3>2. PICK T : T = {}
      BY Zenon
    <3>3. /\ \A k \in items' : (k \in items /\ k # m) \/ (k.of = m.of /\ k.t \in T /\ Shape(k))
          /\ \A u \in T : \E k \in items' : k.of = m.of /\ k.t = u
      BY Zenon, <3>1, <3>2
    <3>4. UNCHANGED consumerv /\ items \ {m} \subseteq items'
      BY Zenon, <2>1, <3>1
    <3>5. /\ ShapeInv' /\ UNCHANGED <<stage, via, rid>>
          /\ Tags(o)' = (Tags(o) \ {m.t}) \cup T
          /\ m.t \in Tags(o) /\ o \in Requests
          /\ \A r \in Requests : r # o => Tags(r)' = Tags(r)
      BY Zenon, <3>3, <3>4, MoveRoute
    <3>6. LifeInv'
      BY Zenon, <2>1, <3>2, <3>5, LifeMove
    <3>7. requestMap[<<At[o], via[o]>>][rid[o]] # o
      BY Zenon, <1>1, <2>2, <2>3, <2>4, NoneAssumption
    <3>8. RequestMapInv'
      BY Zenon, <2>1, <3>5, <3>7, RequestMapSame
    <3>9. \A r \in Requests : Tags(r) \cap Pending # {} => Tags(r)' \cap Pending # {}
      BY Zenon, <2>1, <3>5 DEF Pending
    <3>10. \A r \in Requests : Tags(r)' \cap AtDubbo # {} => Tags(r) \cap AtDubbo # {}
      BY Zenon, <3>2, <3>5
    <3>11. DubboMapInv'
      BY Zenon, <2>1, <3>5, <3>9, <3>10, DubboMapSame
    <3> QED BY Zenon, <3>5, <3>6, <3>8, <3>11
  <2>5. CASE q # None
    <3>1. q \in Requests
      BY Zenon, <2>3, <2>5
    <3>2. /\ stage[q] \in {"stored", "sent"} /\ <<m.c, m.p>> = <<At[q], via[q]>> /\ m.id = rid[q]
      <4>1. PICK a \in Consumers \X Providers : a = <<m.c, m.p>>
        BY ZenonT(60), <1>1, <2>2
      <4>2. requestMap[a][m.id] = q /\ m.id \in Id
        BY Zenon, <1>1, <2>3, <4>1
      <4> QED BY SMTT(30), <3>1, <4>1, <4>2, RequestEntry
    <3>3. q = o
      BY Zenon, <1>1, <3>1, <3>2, OnePlace DEF Numbered
    <3>4. PICK n : n = [m EXCEPT !.t = "cfound", !.org = q]
      OBVIOUS
    <3>5. /\ n.t = "cfound" /\ n.c = m.c /\ n.p = m.p /\ n.id = m.id /\ n.of = m.of
          /\ n.org = q
      BY Zenon, <1>0, <3>1, <3>4 DEF Items
    <3>6. Shape(n)
      BY Zenon, <1>0, <2>1, <3>3, <3>5 DEF Shape
    <3>7. items' = (items \ {m}) \cup {n}
      BY Zenon, <2>1, <2>3, <2>5, <3>4
    <3>8. PICK T : T = {"cfound"}
      BY Zenon
    <3>9. \A k \in items' : (k \in items /\ k # m) \/ (k.of = m.of /\ k.t \in T /\ Shape(k))
      BY Zenon, <3>5, <3>6, <3>7, <3>8
    <3>10. \A u \in T : \E k \in items' : k.of = m.of /\ k.t = u
      BY Zenon, <3>5, <3>7, <3>8
    <3>11. /\ m.t = "resp" /\ UNCHANGED <<consumerv, requestMap, dubboMap, answers, lost>>
           /\ items \ {m} \subseteq items'
      BY Zenon, <2>1, <3>7
    <3> QED BY ZenonT(90), <3>8, <3>9, <3>10, <3>11, PlainMove
  <2> QED BY Zenon, <2>4, <2>5
<1>3. CASE AgentRespSend(m)
  <2>1. /\ m.t = "cfound" /\ UNCHANGED <<consumerv, requestMap, dubboMap, lost>>
        /\ answers' = [answers EXCEPT ![m.org] = Append(@, m.of)]
        /\ items' = (items \ {m}) \cup {[m EXCEPT !.t = "cdel"]}
    BY <1>3 DEF AgentRespSend, Replace
  <2>2. PICK n : n = [m EXCEPT !.t = "cdel"]
    BY Zenon
  <2>3. n.t = "cdel" /\ n.c = m.c /\ n.p = m.p /\ n.id = m.id /\ n.of = m.of /\ n.org = m.org
    BY SMTT(30), <1>0, <2>2, NextItem DEF ItemType
  <2>4. Shape(n) /\ m.org = o
    BY Zenon, <1>0, <2>1, <2>3 DEF Shape
  <2>5. items' = (items \ {m}) \cup {n}
    BY Zenon, <2>1, <2>2
  <2>6. PICK T : T = {"cdel"}
    BY Zenon
  <2>7. \A k \in items' : (k \in items /\ k # m) \/ (k.of = m.of /\ k.t \in T /\ Shape(k))
    BY Zenon, <2>3, <2>4, <2>5, <2>6
  <2>8. \A u \in T : \E k \in items' : k.of = m.of /\ k.t = u
    BY Zenon, <2>3, <2>5, <2>6
  <2>9. /\ ShapeInv' /\ UNCHANGED <<stage, via, rid>>
        /\ Tags(o)' = (Tags(o) \ {m.t}) \cup T
        /\ m.t \in Tags(o) /\ o \in Requests
        /\ \A r \in Requests : r # o => Tags(r)' = Tags(r)
        /\ m.t # "del" => Tags(o) \ {"del"} = {m.t}
    <3>1. UNCHANGED consumerv /\ items \ {m} \subseteq items'
      BY Zenon, <2>1
    <3> QED BY Zenon, <2>7, <2>8, <3>1, MoveRoute
  <2>10. answers[o] = << >>
    BY Zenon, <1>1, <2>1, <2>9 DEF LifeInv
  <2>11. answers'[o] = <<o>> /\ \A r \in Requests : r # o => answers'[r] = answers[r]
    BY SMTT(30), <1>1, <2>1, <2>4, <2>10 DEF TypeOK
  <2>12. LifeInv'
    <3> SUFFICES ASSUME NEW r \in Requests
                 PROVE  /\ \A t, u \in Tags(r)' \ {"del"} : t = u
                        /\ "del" \in Tags(r)' =>
                             Tags(r)' \cap {"req", "work", "put", "dreq", "dresp", "found"} = {}
                        /\ answers'[r] = << >> \/ (answers'[r] = <<r>> /\ Tags(r)' \subseteq {"del", "cdel"})
                        /\ stage'[r] # "sent" => answers'[r] = << >>
      BY Zenon DEF LifeInv
    <3>1. CASE r = o
      <4>1. Tags(o)' \subseteq {"del", "cdel"}
        BY Zenon, <2>1, <2>6, <2>9
      <4> QED BY ZenonT(90), <1>1, <2>9, <2>11, <3>1, <4>1
    <3>2. CASE r # o
      BY SMTT(30), <2>9, <2>11, <3>2 DEF LifeInv
    <3> QED BY Zenon, <3>1, <3>2
  <2>13. \A r \in Requests : Tags(r) \ {"del"} # {} => Tags(r)' \ {"del"} # {}
    BY Zenon, <2>6, <2>9
  <2>14. RequestMapInv'
    BY Zenon, <2>1, <2>9, <2>13, RequestMapSame
  <2>15. \A r \in Requests : Tags(r) \cap Pending # {} => Tags(r)' \cap Pending # {}
    BY Zenon, <2>1, <2>9 DEF Pending
  <2>16. \A r \in Requests : Tags(r)' \cap AtDubbo # {} => Tags(r) \cap AtDubbo # {}
    BY Zenon, <2>6, <2>9 DEF AtDubbo
  <2>17. DubboMapInv'
    BY Zenon, <2>1, <2>9, <2>15, <2>16, DubboMapSame
  <2> QED BY Zenon, <2>9, <2>12, <2>14, <2>17
<1>4. CASE AgentRespDelete(m)
  <2>1. /\ m.t = "cdel" /\ UNCHANGED <<consumerv, dubboMap, answers, lost>>
        /\ requestMap' = [requestMap EXCEPT ![<<m.c, m.p>>][m.id] = None]
        /\ items' = items \ {m}
    BY Zenon, <1>4 DEF AgentRespDelete
  <2>2. m.c = At[o]
    BY Zenon, <1>0, <2>1 DEF Shape
  <2>3. PICK T : T = {}
    BY Zenon
  <2>4. /\ \A k \in items' : (k \in items /\ k # m) \/ (k.of = m.of /\ k.t \in T /\ Shape(k))
        /\ \A u \in T : \E k \in items' : k.of = m.of /\ k.t = u
    BY Zenon, <2>1, <2>3
  <2>5. /\ ShapeInv' /\ UNCHANGED <<stage, via, rid>>
        /\ Tags(o)' = (Tags(o) \ {m.t}) \cup T
        /\ m.t \in Tags(o) /\ o \in Requests
        /\ \A r \in Requests : r # o => Tags(r)' = Tags(r)
    <3>1. UNCHANGED consumerv /\ items \ {m} \subseteq items'
      BY <2>1
    <3> QED BY Zenon, <2>4, <3>1, MoveRoute
  <2>6. LifeInv'
    BY <2>1, <2>3, <2>5, LifeMove
  <2>7. \A r \in Requests : Tags(r) \cap Pending # {} => Tags(r)' \cap Pending # {}
    BY Zenon, <2>1, <2>5 DEF Pending
  <2>8. \A r \in Requests : Tags(r)' \cap AtDubbo # {} => Tags(r) \cap AtDubbo # {}
    BY Zenon, <2>3, <2>5
  <2>9. DubboMapInv'
    BY Zenon, <2>1, <2>5, <2>7, <2>8, DubboMapSame
  <2>10. RequestMapInv'
    <3> SUFFICES ASSUME NEW a \in Consumers \X Providers, NEW i \in Id, NEW r \in Requests,
                        r = requestMap'[a][i]
                 PROVE  /\ stage[r] \in {"stored", "sent"}
                        /\ a = <<At[r], via[r]>> /\ i = rid[r]
                        /\ ~lost => stage[r] = "stored" \/ Tags(r)' \ {"del"} # {}
      BY SMTT(30), <2>1, <2>5 DEF RequestMapInv
    <3>1. <<m.c, m.p>> \in Consumers \X Providers
      BY Zenon, <1>1, <2>2
    <3>2. ~(a = <<m.c, m.p>> /\ i = m.id) /\ r = requestMap[a][i]
      BY ZenonT(60), <1>1, <2>1, <3>1, NoneAssumption DEF TypeOK
    <3>3. /\ stage[r] \in {"stored", "sent"} /\ a = <<At[r], via[r]>> /\ i = rid[r]
          /\ ~lost => stage[r] = "stored" \/ Tags(r) \ {"del"} # {}
      BY SMTT(30), <3>2, RequestEntry
    <3>4. r # o
      BY ZenonT(60), <1>1, <2>2, <3>2, <3>3
    <3> QED BY ZenonT(60), <2>5, <3>3, <3>4
  <2> QED BY Zenon, <2>5, <2>6, <2>9, <2>10
<1> QED BY Zenon, <1>2, <1>3, <1>4

\* A connection breaks: the message is gone, and nothing takes its place.
LEMMA LoseRoute ==
    ASSUME TypeInv, RouteInv, NEW m \in items, Lose(m)
    PROVE  RouteInv'
<1> USE DEF RouteInv, TypeInv
<1> DEFINE o == m.of
<1>1. /\ m.t \in {"req", "dreq", "dresp", "resp"} /\ lost' = TRUE /\ items' = items \ {m}
      /\ UNCHANGED <<consumerv, requestMap, dubboMap, answers>>
  BY DEF Lose
<1>2. PICK T : T = {}
  BY Zenon
<1>3. /\ \A k \in items' : (k \in items /\ k # m) \/ (k.of = m.of /\ k.t \in T /\ Shape(k))
      /\ \A u \in T : \E k \in items' : k.of = m.of /\ k.t = u
  BY Zenon, <1>1, <1>2
<1>4. /\ ShapeInv' /\ UNCHANGED <<stage, via, rid>>
      /\ Tags(o)' = (Tags(o) \ {m.t}) \cup T
      /\ m.t \in Tags(o) /\ o \in Requests
      /\ \A r \in Requests : r # o => Tags(r)' = Tags(r)
  <2>1. UNCHANGED consumerv /\ items \ {m} \subseteq items'
    BY Zenon, <1>1
  <2> QED BY Zenon, <1>3, <2>1, MoveRoute
<1>5. LifeInv'
  BY SMTT(30), <1>1, <1>2, <1>4, LifeMove
<1>6. RequestMapInv'
  BY Zenon, <1>1, <1>4, RequestMapSame
<1>7. \A r \in Requests : Tags(r)' \cap AtDubbo # {} => Tags(r) \cap AtDubbo # {}
  BY Zenon, <1>2, <1>4
<1>8. DubboMapInv'
  BY Zenon, <1>1, <1>4, <1>7, DubboMapSame
<1> QED BY Zenon, <1>4, <1>5, <1>6, <1>8

\* Every step keeps the requests on their way.
LEMMA StepRoute ==
    ASSUME OneConsumer, TypeInv, RouteInv, [Next]_vars
    PROVE  RouteInv'
<1>1. ASSUME UNCHANGED <<stage, via, rid, requestMap, dubboMap, items, answers, lost>>
      PROVE  RouteInv'
  <2>1. \A r : Tags(r)' = Tags(r)
    BY Zenon, <1>1 DEF Tags
  <2>2. ShapeInv' /\ LifeInv'
    BY SMTT(30), <1>1, <2>1 DEF RouteInv, ShapeInv, Shape, LifeInv
  <2>3. RequestMapInv'
    BY Zenon, <1>1, <2>1, RequestMapSame DEF TypeInv, RouteInv
  <2>4. DubboMapInv'
    BY Zenon, <1>1, <2>1, DubboMapSame DEF TypeInv, RouteInv
  <2> QED BY Zenon, <2>2, <2>3, <2>4 DEF RouteInv
<1>2. ASSUME NEW c \in Consumers, NEW p \in Providers, AddAgent(c, p) PROVE RouteInv'
  BY Zenon, <1>1, <1>2 DEF AddAgent
<1>3. ASSUME NEW r \in Requests, HttpData(r) \/ ForwardError(r) PROVE RouteInv'
  <2>1. /\ stage[r] \notin {"stored", "sent"} /\ stage'[r] \notin {"stored", "sent"}
        /\ \A q \in Requests : q # r => stage'[q] = stage[q]
        /\ UNCHANGED <<via, rid, requestMap, dubboMap, items, answers, lost>>
    BY Zenon, <1>3 DEF HttpData, ForwardError, TypeInv, TypeOK
  <2> QED BY Zenon, <2>1, EarlyRoute DEF TypeInv
<1>4. ASSUME NEW r \in Requests, SendRequestNumber(r) PROVE RouteInv'
  <2>1. /\ stage[r] \notin {"stored", "sent"} /\ stage'[r] \notin {"stored", "sent"}
        /\ UNCHANGED <<requestMap, dubboMap, items, answers, lost>>
        /\ \A q \in Requests : q # r => stage'[q] = stage[q]
    BY Zenon, <1>4 DEF SendRequestNumber, TypeInv, TypeOK
  <2>2. \A q \in Requests : q # r => via'[q] = via[q] /\ rid'[q] = rid[q]
    BY Zenon, <1>4 DEF SendRequestNumber, TypeInv, TypeOK
  <2> QED BY ZenonT(60), <2>1, <2>2, EarlyRoute DEF TypeInv
<1>5. ASSUME NEW r \in Requests, Out(r) PROVE RouteInv'
  BY Zenon, <1>3, <1>4, <1>5, StoreRoute, SendRoute DEF Out
<1>6. ASSUME NEW m \in items, Move(m) PROVE RouteInv'
  BY Zenon, <1>6, TransportRoute, DubboMapRoute, AnswerRoute DEF Move
<1>7. CASE UNCHANGED vars
  BY Zenon, <1>1, <1>7 DEF vars
<1> QED BY Zenon, <1>2, <1>3, <1>5, <1>6, <1>7, LoseRoute DEF Next

\* At the start there is no message and no entry.
LEMMA InitRoute ==
    ASSUME Init
    PROVE  RouteInv
<1>1. \A r : Tags(r) = {}
  BY Zenon DEF Init, Tags
<1>2. ShapeInv /\ LifeInv
  BY Zenon, <1>1 DEF Init, ShapeInv, LifeInv
<1>3. RequestMapInv
  BY Zenon, NoneAssumption DEF Init, RequestMapInv
<1>4. DubboMapInv
  BY Zenon, <1>1 DEF Init, DubboMapInv, DubboEntryInv, DubboLookupInv
<1> QED BY Zenon, <1>2, <1>3, <1>4 DEF RouteInv

-----------------------------------------------------------------------------
(* The theorems for one consumer.                                           *)

\* The strengthened invariant: numbers are unique, every message is about the
\* request it was made for, and the maps' entries are in their places.
THEOREM MeshInvariant == OneConsumer => (Spec => [](TypeInv /\ RouteInv))
<1> SUFFICES ASSUME OneConsumer PROVE Spec => [](TypeInv /\ RouteInv)
  OBVIOUS
<1>1. Init => TypeInv /\ RouteInv
  BY Zenon, InitTyped, InitRoute
<1>2. TypeInv /\ RouteInv /\ [Next]_vars => (TypeInv /\ RouteInv)'
  BY Zenon, StepTyped, StepRoute
<1> QED BY <1>1, <1>2, PTL DEF Spec

\* With one consumer the client of a request gets the answer to that request,
\* and gets it once, whatever overtakes and whatever is lost.
THEOREM AnswersAreOwn == OneConsumer => (Spec => []OwnAnswer)
<1> SUFFICES ASSUME OneConsumer PROVE Spec => []OwnAnswer
  OBVIOUS
<1>1. TypeInv /\ RouteInv => OwnAnswer
  BY Zenon DEF RouteInv, LifeInv, OwnAnswer
<1>2. Spec => [](TypeInv /\ RouteInv)
  BY Zenon, MeshInvariant
<1> QED BY <1>1, <1>2, PTL

\* With one consumer neither map keeps an entry of a finished request, unless
\* a message was lost.
THEOREM MapsAreDrained == OneConsumer => (Spec => []MapsDrain)
<1> SUFFICES ASSUME OneConsumer PROVE Spec => []MapsDrain
  OBVIOUS
<1>1. TypeInv /\ RouteInv => MapsDrain
  <2> SUFFICES ASSUME TypeInv, RouteInv, ~lost, items = {},
                      \A r \in Requests : stage[r] \in {"new", "queued", "sent", "failed"}
               PROVE  /\ \A a \in Consumers \X Providers, i \in Id : requestMap[a][i] = None
                      /\ \A p \in Providers, i \in Id : dubboMap[p][i] = <<None, None>>
    BY Zenon DEF MapsDrain
  <2>1. \A r : Tags(r) = {}
    BY Zenon DEF Tags
  <2>2. ASSUME NEW a \in Consumers \X Providers, NEW i \in Id PROVE requestMap[a][i] = None
    <3>1. requestMap[a][i] \in Requests \cup {None}
      BY SMTT(30) DEF TypeInv, TypeOK
    <3>2. \A r \in Requests : requestMap[a][i] # r
      BY Zenon, <2>1 DEF RouteInv, RequestMapInv
    <3> QED BY Zenon, <3>1, <3>2
  <2>3. ASSUME NEW p \in Providers, NEW i \in Id PROVE dubboMap[p][i] = <<None, None>>
    <3>1. dubboMap[p][i] \in (Consumers \X Requests) \cup {<<None, None>>}
      BY SMTT(30) DEF TypeInv, TypeOK
    <3>2. \A r \in Requests : ~(dubboMap[p][i] # <<None, None>> /\ dubboMap[p][i][2] = r)
      BY <2>1 DEF RouteInv, DubboMapInv, DubboEntryInv
    <3> QED BY Zenon, <3>1, <3>2
  <2> QED BY Zenon, <2>2, <2>3
<1>2. Spec => [](TypeInv /\ RouteInv)
  BY MeshInvariant
<1> QED BY <1>1, <1>2, PTL

-----------------------------------------------------------------------------
(* The mesh implements Rpc.                                                 *)

\* The abstract outcome, by a request's stage and its answers.
Seen(s, a) == IF s = "new" THEN "none" ELSE IF s = "failed" THEN "failed"
              ELSE IF a = << >> THEN "pending" ELSE "answered"

\* Outcome is Seen while the requests are on their way.
LEMMA OutcomeIs ==
    ASSUME RouteInv
    PROVE  Outcome = [r \in Requests |-> Seen(stage[r], answers[r])]
<1> SUFFICES ASSUME NEW r \in Requests PROVE Outcome[r] = Seen(stage[r], answers[r])
  BY DEF Outcome
<1>1. answers[r] \in {<< >>, <<r>>} /\ <<r>> # << >>
  BY Zenon DEF RouteInv, LifeInv
<1>2. stage[r] # "sent" => answers[r] = << >>
  BY DEF RouteInv, LifeInv
<1> QED BY Zenon, <1>1, <1>2 DEF Outcome, Seen

\* The same in the next state.
LEMMA OutcomeIsNext ==
    ASSUME RouteInv'
    PROVE  Outcome' = [r \in Requests |-> Seen(stage'[r], answers'[r])]
<1>1. ASSUME NEW r \in Requests PROVE Outcome'[r] = Seen(stage'[r], answers'[r])
  <2>1. answers'[r] \in {<< >>, <<r>>} /\ <<r>> # << >>
    BY Zenon DEF RouteInv, LifeInv
  <2>2. stage'[r] # "sent" => answers'[r] = << >>
    BY Zenon DEF RouteInv, LifeInv
  <2> QED BY <2>1, <2>2 DEF Outcome, Seen
<1> QED BY Zenon, <1>1 DEF Outcome

\* HttpData is Arrive, ForwardError is Refuse and HttpRequest.Response is
\* Answer; no other step shows.
LEMMA StepRpc ==
    ASSUME TypeInv, RouteInv, RouteInv', [Next]_vars
    PROVE  [Abstract!RNext]_Outcome
<1>1. /\ Outcome = [r \in Requests |-> Seen(stage[r], answers[r])]
      /\ Outcome' = [r \in Requests |-> Seen(stage'[r], answers'[r])]
  BY Zenon, OutcomeIs, OutcomeIsNext
<1>2. ASSUME NEW r \in Requests,
             \A q \in Requests : q # r => stage'[q] = stage[q] /\ answers'[q] = answers[q]
      PROVE  Outcome' = [Outcome EXCEPT ![r] = Seen(stage'[r], answers'[r])]
  BY Zenon, <1>1, <1>2
<1>3. ASSUME NEW r \in Requests, HttpData(r) PROVE Abstract!RNext
  <2>1. /\ stage[r] = "new" /\ stage'[r] = "queued" /\ answers' = answers
        /\ \A q \in Requests : q # r => stage'[q] = stage[q]
    BY Zenon, <1>3 DEF HttpData, TypeInv, TypeOK
  <2>2. answers[r] = << >>
    BY Zenon, <2>1 DEF RouteInv, LifeInv
  <2>3. Outcome[r] = "none" /\ Seen(stage'[r], answers'[r]) = "pending"
    BY Zenon, <1>1, <2>1, <2>2 DEF Seen
  <2>4. Outcome' = [Outcome EXCEPT ![r] = "pending"]
    BY Zenon, <1>2, <2>1, <2>3
  <2> QED BY ZenonT(60), <2>3, <2>4 DEF Abstract!RNext, Abstract!Arrive, Abstract!Become
<1>4. ASSUME NEW r \in Requests, ForwardError(r) PROVE Abstract!RNext
  <2>1. /\ stage[r] = "queued" /\ stage'[r] = "failed" /\ answers' = answers
        /\ \A q \in Requests : q # r => stage'[q] = stage[q]
    BY Zenon, <1>4 DEF ForwardError, TypeInv, TypeOK
  <2>2. answers[r] = << >>
    BY Zenon, <2>1 DEF RouteInv, LifeInv
  <2>3. Outcome[r] = "pending" /\ Seen(stage'[r], answers'[r]) = "failed"
    BY Zenon, <1>1, <2>1, <2>2 DEF Seen
  <2>4. Outcome' = [Outcome EXCEPT ![r] = "failed"]
    BY Zenon, <1>2, <2>1, <2>3
  <2> QED BY ZenonT(60), <2>3, <2>4 DEF Abstract!RNext, Abstract!Refuse, Abstract!Become
<1>5. ASSUME NEW m \in items, AgentRespSend(m) PROVE Abstract!RNext
  <2> DEFINE o == m.of
  <2>1. /\ m.t = "cfound" /\ stage' = stage
        /\ answers' = [answers EXCEPT ![m.org] = Append(@, m.of)]
    BY Zenon, <1>5 DEF AgentRespSend, consumerv
  <2>2. o \in Requests /\ Shape(m)
    BY Zenon DEF TypeInv, TypeOK, RouteInv, ShapeInv
  <2>3. stage[o] = "sent" /\ m.org = o
    BY Zenon, <2>1, <2>2 DEF Shape
  <2>4. answers[o] = << >>
    <3>1. "cfound" \in Tags(o)
      BY Zenon, <2>1 DEF Tags
    <3>2. answers[o] = << >> \/ Tags(o) \subseteq {"del", "cdel"}
      BY Zenon, <2>2 DEF RouteInv, LifeInv
    <3> QED BY Zenon, <3>1, <3>2
  <2>5. answers'[o] = <<o>> /\ \A q \in Requests : q # o => answers'[q] = answers[q]
    BY SMTT(30), <2>1, <2>2, <2>3, <2>4 DEF TypeInv, TypeOK
  <2>6. Outcome[o] = "pending" /\ Seen(stage'[o], answers'[o]) = "answered"
    BY SMTT(30), <1>1, <2>1, <2>2, <2>3, <2>4, <2>5 DEF Seen
  <2>7. Outcome' = [Outcome EXCEPT ![o] = "answered"]
    BY Zenon, <1>2, <2>1, <2>2, <2>5, <2>6
  <2> QED BY Zenon, <2>2, <2>6, <2>7 DEF Abstract!RNext, Abstract!Answer, Abstract!Become
<1>6. ASSUME answers' = answers,
             \A r \in Requests : stage'[r] = stage[r]
                 \/ (stage[r] \notin {"new", "failed"} /\ stage'[r] \notin {"new", "failed"})
      PROVE  UNCHANGED Outcome
  <2>1. \A r \in Requests : Seen(stage'[r], answers'[r]) = Seen(stage[r], answers[r])
    BY Zenon, <1>6 DEF Seen
  <2> QED BY Zenon, <1>1, <2>1
<1>7. ASSUME NEW r \in Requests,
             SendRequestNumber(r) \/ SendRequestStore(r) \/ SendRequestSend(r)
      PROVE  UNCHANGED Outcome
  <2>1. /\ stage[r] \in {"queued", "numbered", "stored"}
        /\ stage'[r] \in {"numbered", "stored", "sent"}
        /\ \A q \in Requests : q # r => stage'[q] = stage[q]
        /\ answers' = answers
    BY Zenon, <1>7 DEF SendRequestNumber, SendRequestStore, SendRequestSend, TypeInv, TypeOK
  <2> QED BY Zenon, <1>6, <2>1
<1>8. CASE \/ \E c \in Consumers, p \in Providers : AddAgent(c, p)
           \/ \E m \in items :
                \/ AgentData(m) \/ SendDubboStore(m) \/ SendDubboSend(m) \/ Dubbo(m)
                \/ DubboRespLoad(m) \/ DubboRespSend(m) \/ DubboRespDelete(m)
                \/ AgentRespLoad(m) \/ AgentRespDelete(m) \/ Lose(m)
           \/ UNCHANGED vars
  <2>1. UNCHANGED <<stage, answers>>
    BY Zenon, <1>8 DEF AddAgent, AgentData, SendDubboStore, SendDubboSend, Dubbo, DubboRespLoad,
                DubboRespSend, DubboRespDelete, AgentRespLoad, AgentRespDelete, Lose,
                consumerv, vars
  <2> QED BY Zenon, <1>6, <2>1
<1> QED
  BY Zenon, <1>3, <1>4, <1>5, <1>7, <1>8 DEF Next, Out, Move

\* With one consumer the mesh implements Rpc, though connections break and
\* messages overtake each other: a request gets at most one outcome, an
\* answer is its own, and an outcome is final.
THEOREM MeshImplementsRpc == OneConsumer => (Spec => ImplementsRpc)
<1> SUFFICES ASSUME OneConsumer PROVE Spec => ImplementsRpc
  BY Zenon
<1>1. Init => Abstract!RInit
  <2> SUFFICES ASSUME Init PROVE Abstract!RInit
    BY Zenon
  <2>1. Outcome = [r \in Requests |-> Seen(stage[r], answers[r])]
    BY Zenon, InitRoute, OutcomeIs
  <2>2. \A r \in Requests : Seen(stage[r], answers[r]) = "none"
    BY Zenon DEF Init, Seen
  <2> QED BY Zenon, <2>1, <2>2 DEF Abstract!RInit
<1>2. TypeInv /\ RouteInv /\ (TypeInv /\ RouteInv)' /\ [Next]_vars => [Abstract!RNext]_Outcome
  BY Zenon, StepRpc
<1>3. Spec => [](TypeInv /\ RouteInv)
  BY MeshInvariant
<1> QED
  BY <1>1, <1>2, <1>3, PTL DEF Spec, ImplementsRpc, Abstract!RSpec
=============================================================================
