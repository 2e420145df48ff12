------------------------------- MODULE Framing -------------------------------
(***************************************************************************)
(* The Data handlers of the three protocols and the InputStream they share: *)
(* a peer writes whole messages, TCP delivers them in pieces, and the       *)
(* handler cuts messages out of what it has and queues them for a worker.   *)
(*   agent: CreateAgentEvent, parseAgentReq     (agent_server.go)           *)
(*   http:  ServeListenHttp, parsereq           (http_server.go)            *)
(*   dubbo: CreateDubboEvent, UnpackResponse    (dubbo_agent.go, codec)     *)
(*                                                                         *)
(* A message is a fixed number of cells; a cell <<m, k>> is the k-th piece  *)
(* of message m, the smallest unit a segment boundary can separate.  Its    *)
(* first HeadLen cells are the part that is parsed as one (the 16 byte      *)
(* header; the request line and header lines).                              *)
(***************************************************************************)
EXTENDS Integers, Sequences

CONSTANTS
    Protocols,          \* agent, http, dubbo
    Count,              \* messages the peer sends, numbered from 1
    Malformed,          \* the ones with a wrong magic number or form body
    CutBodies,          \* the protocols whose segments may end between a header
                        \* and the end of its message
    QueueCap            \* capacity of workerQueue

ASSUME ConstAssumption ==
    /\ Protocols \subseteq {"agent", "http", "dubbo"}
    /\ Count \in Nat /\ QueueCap \in Nat \ {0}
    /\ Malformed \subseteq 1..Count
    /\ CutBodies \subseteq Protocols

VARIABLES
    protocol,           \* what this connection speaks
    sent,               \* cells of the stream delivered so far
    is,                 \* the connection's InputStream
    pc, data,           \* handler: idle, parse or closed; its local data
    action,             \* what the last call of Data returned: None or Close
    workerQueue,        \* messages waiting for a worker
    busy,               \* the message a worker is handling, 0 if none
    got,                \* history: messages the workers have handled
    spoilt              \* history: messages overwritten before that

vars == <<protocol, sent, is, pc, data, action, workerQueue, busy, got, spoilt>>

HeadLen == 2

\* Where the fields of a message end: for the agent protocol header, interface,
\* method and param; for the others header and body.
FieldEnds == IF protocol = "agent" THEN <<2, 3, 4, 6>> ELSE <<2, 4>>
MsgLen == FieldEnds[Len(FieldEnds)]

\* The messages a parser refuses; of a response only the length is looked at.
Bad == IF protocol = "dubbo" THEN {} ELSE Malformed

Cell == (1..Count) \X (1..MsgLen)

\* InputStream.b: its cells and its capacity, and the messages that are still
\* in use and are slices of its array, each with the place of its first cell.
Stream == [b : Seq(Cell), cap : Nat, lent : SUBSET ((1..Count) \X Nat)]
NilStream == [b |-> << >>, cap |-> 0, lent |-> {}]

TypeOK ==
    /\ protocol \in Protocols
    /\ sent \in 0..(Count * MsgLen)
    /\ is \in Stream /\ Len(is.b) <= is.cap /\ data \in Seq(Cell)
    /\ pc \in {"idle", "parse", "closed"} /\ action \in {"None", "Close"}
    /\ workerQueue \in Seq(1..Count) /\ Len(workerQueue) <= QueueCap
    /\ busy \in 0..Count /\ got \in Seq(1..Count) /\ spoilt \subseteq 1..Count

Init ==
    /\ protocol \in Protocols
    /\ sent = 0 /\ is = NilStream /\ pc = "idle" /\ data = << >>
    /\ action = "None" /\ workerQueue = << >> /\ busy = 0
    /\ got = << >> /\ spoilt = {}

\* The i-th cell of the peer's stream.
StreamCell(i) == <<((i - 1) \div MsgLen) + 1, ((i - 1) % MsgLen) + 1>>
Segment(from, to) == [i \in 1..(to - from) |-> StreamCell(from + i)]

Drop(s, n) == SubSeq(s, n + 1, Len(s))

-----------------------------------------------------------------------------
(* The parsers: what is left, and the outcome.                              *)

NotReady(left) == [left |-> left, status |-> "more", msg |-> 0]
Broken(d)      == [left |-> d, status |-> "error", msg |-> 0]
Ready(left, m) == [left |-> left, status |-> "ready", msg |-> m]

\* Field after field of a fresh request; an incomplete field leaves the cells
\* of the fields before it consumed.
parseAgentReq(d) ==
    LET fields == {i \in DOMAIN FieldEnds : FieldEnds[i] <= Len(d)} IN
    IF fields = {} THEN NotReady(d)
    ELSE IF d[1][2] # 1 \/ d[1][1] \in Bad THEN Broken(d)
    ELSE IF fields = DOMAIN FieldEnds THEN Ready(Drop(d, MsgLen), d[1][1])
    ELSE NotReady(Drop(d, FieldEnds[CHOOSE i \in fields : \A j \in fields : j <= i]))

\* A request line, whatever text comes before it, and the first blank line
\* after it; if the body is incomplete the header is consumed.  The form body
\* is checked by ParseFormBody.
parsereq(d) ==
    LET ends == {i \in 2..Len(d) : d[i][2] = HeadLen}
        e    == CHOOSE i \in ends : \A j \in ends : i <= j
        body == MsgLen - HeadLen
    IN  IF ends = {} THEN NotReady(d)
        ELSE IF Len(d) - e < body THEN NotReady(Drop(d, e))
        ELSE IF d[e][1] \in Bad THEN Broken(d)
        ELSE Ready(Drop(d, e + body), d[e][1])

\* Mutant: the length of the header is left out of the total.
UnpackResponseShort(d) ==
    IF Len(d) < HeadLen \/ Len(d) < MsgLen - HeadLen THEN NotReady(d)
    ELSE Ready(Drop(d, MsgLen - HeadLen), d[1][1])

\* Nothing is consumed before the message is complete.
UnpackResponse(d) ==
    IF Len(d) < HeadLen \/ Len(d) < MsgLen THEN NotReady(d)
    ELSE Ready(Drop(d, MsgLen), d[1][1])

Parse(d) ==
    CASE protocol = "agent" -> parseAgentReq(d)
      [] protocol = "http"  -> parsereq(d)
      [] protocol = "dubbo" -> UnpackResponse(d)

-----------------------------------------------------------------------------
(* InputStream.                                                             *)

\* What a message keeps of the data it was cut from: an agent's Param and a
\* response's Data are slices of it, the rest are copies.
Kept(place) ==
    IF protocol = "http" THEN {}
    ELSE (place + FieldEnds[Len(FieldEnds) - 1])..(place + MsgLen - 1)

\* append(s.b[:n], d...): in place if the array is large enough, else in a new
\* one, which may have room to spare.
AppendTo(s, n, d) ==
    LET b    == SubSeq(s.b, 1, n) \o d
        hurt == {l \in s.lent : Kept(l[2]) \cap (n..(Len(b) - 1)) # {}}
    IN  IF Len(b) <= s.cap
        THEN /\ is' = [s EXCEPT !.b = b, !.lent = @ \ hurt]
             /\ spoilt' = spoilt \cup {l[1] : l \in hurt}
        ELSE /\ \E room \in {0, MsgLen} :
                  is' = [b |-> b, cap |-> Len(b) + room, lent |-> {}]
             /\ UNCHANGED spoilt

\* A segment is joined to what was kept, if anything was.
Begin(packet) ==
    /\ data' = is.b \o packet
    /\ IF is.b = << >>
         THEN UNCHANGED <<is, spoilt>>
         ELSE AppendTo(is, Len(is.b), packet)

\* Mutant: nothing is kept when the data is shorter than what was kept.
EndShrink(s, d) ==
    IF Len(d) > Len(s.b)
    THEN AppendTo(s, 0, d)
    ELSE is' = [s EXCEPT !.b = << >>] /\ UNCHANGED spoilt

\* What is unprocessed is kept.
End(s, d) ==
    IF d # << >> /\ Len(d) # Len(s.b)
    THEN AppendTo(s, 0, d)
    ELSE is' = [s EXCEPT !.b = IF d = << >> THEN d ELSE s.b] /\ UNCHANGED spoilt

-----------------------------------------------------------------------------
(* The handler.                                                             *)

InBody(i) == i % MsgLen >= HeadLen

\* A read returned a segment.
DataBegin ==
    /\ pc = "idle"
    /\ \E to \in (sent + 1)..(Count * MsgLen) :
         /\ InBody(to) => protocol \in CutBodies
         /\ Begin(Segment(sent, to))
         /\ sent' = to
    /\ pc' = "parse"
    /\ UNCHANGED <<protocol, action, workerQueue, busy, got>>

\* Mutant: no handler drops is.b.
TurnKeep == is

\* What a turn of the loop makes of the stream before it parses: the agent and
\* http handlers give up is.b, and the next End allocates.
Turn == IF protocol = "dubbo" \/ data = << >> THEN is ELSE NilStream

\* Mutant: the queue has no limit.
DataReadyUnbounded ==
    /\ pc = "parse" /\ data # << >> /\ Parse(data).status = "ready"
    /\ workerQueue' = Append(workerQueue, Parse(data).msg)
    /\ data' = Parse(data).left
    /\ is' = Turn
    /\ UNCHANGED <<protocol, sent, pc, action, busy, got, spoilt>>

\* One turn that cuts out a message.  If the data is is.b, and not the segment
\* itself, the message is lent from its array.
DataReady ==
    /\ pc = "parse" /\ data # << >> /\ Parse(data).status = "ready"
    /\ Len(workerQueue) < QueueCap
    /\ workerQueue' = Append(workerQueue, Parse(data).msg)
    /\ data' = Parse(data).left
    /\ is' = IF Turn.b = << >> THEN Turn
             ELSE [Turn EXCEPT !.lent =
                     @ \cup {<<Parse(data).msg, Len(Turn.b) - Len(data)>>}]
    /\ UNCHANGED <<protocol, sent, pc, action, busy, got, spoilt>>

\* The last turn: the rest is kept for the next segment.
DataMore ==
    /\ pc = "parse"
    /\ \/ data = << >> /\ End(Turn, data)
       \/ /\ data # << >> /\ Parse(data).status = "more"
          /\ End(Turn, Parse(data).left)
    /\ pc' = "idle" /\ data' = << >> /\ action' = "None"
    /\ UNCHANGED <<protocol, sent, workerQueue, busy, got>>

\* The handler answers with Close and keeps what it could not parse.
DataError ==
    /\ pc = "parse" /\ data # << >> /\ Parse(data).status = "error"
    /\ End(Turn, data)
    /\ pc' = "idle" /\ data' = << >> /\ action' = "Close"
    /\ UNCHANGED <<protocol, sent, workerQueue, busy, got>>

\* The loop acts on the Close, some time later: until then it may have read
\* more and called Data again.
loopAction ==
    /\ pc = "idle" /\ action = "Close"
    /\ pc' = "closed"
    /\ UNCHANGED <<protocol, sent, is, data, action, workerQueue, busy, got, spoilt>>

WorkerTake ==
    /\ busy = 0 /\ workerQueue # << >>
    /\ busy' = Head(workerQueue) /\ workerQueue' = Tail(workerQueue)
    /\ UNCHANGED <<protocol, sent, is, pc, data, action, got, spoilt>>

\* The message has been read, and is used no more.
WorkerDone ==
    /\ busy # 0
    /\ got' = Append(got, busy) /\ busy' = 0
    /\ is' = [is EXCEPT !.lent = {l \in @ : l[1] # busy}]
    /\ UNCHANGED <<protocol, sent, pc, data, action, workerQueue, spoilt>>

Worker == WorkerTake \/ WorkerDone
Handler == DataBegin \/ DataReady \/ DataMore \/ DataError
Next == Handler \/ loopAction \/ Worker

\* The stream is delivered, the loop runs the handler, and a worker runs.
Spec == Init /\ [][Next]_vars /\ WF_vars(Handler) /\ WF_vars(Worker)

-----------------------------------------------------------------------------
(* Properties.                                                              *)

\* The messages before the first malformed one.
Good == {m \in 1..Count : \A b \in Bad : m < b}

\* What the workers get is the peer's messages, each once and in order,
\* however TCP cuts and joins them, and none after a malformed one, although
\* Data may be called again after it has answered Close.
MessagesInOrder ==
    LET all == got \o (IF busy = 0 THEN << >> ELSE <<busy>>) \o workerQueue IN
    /\ \A i \in DOMAIN all : all[i] = i
    /\ Len(all) \in {0} \cup Good

\* The Param of a request of an agent, which is a slice of the handler's data,
\* is not written over before the worker has read it: the handlers that give
\* up is.b never write to an array that a message was cut from.
ParamIntact == protocol # "dubbo" => spoilt = {}

\* Refuted: neither is the Data of a dubbo response.  CreateDubboEvent keeps
\* is.b, and End and the next Begin write into the array that the responses in
\* the queue are slices of (dubbo_agent.go:91).
DataIntact == spoilt = {}

\* Every well-formed message reaches a worker.
MessagesArrive ==
    \A m \in 1..Count : <>(m \in Good => \E i \in DOMAIN got : got[i] = m)

\* Well-formed messages are waited for ("request not ready, yet",
\* agent_server.go:134): a connection is closed only for a malformed one.
ClosedForCause == pc = "closed" => Bad # {}
=============================================================================
