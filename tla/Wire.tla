-------------------------------- MODULE Wire --------------------------------
(***************************************************************************)
(* The packets of the two binary protocols, byte by byte:                   *)
(*   agent: SendAgentRequest, parseAgentReq     (agent_server.go)           *)
(*   dubbo: PackRequest, UnpackResponse         (codec/jsonrpc)             *)
(* Framing abstracts a packet to a few cells; here are the lengths, the     *)
(* integer widths and the offsets that abstraction rests on.                *)
(*                                                                         *)
(* A byte has Byte values, 256 in the code.  With a smaller Byte the fixed  *)
(* width integers wrap around at lengths TLC can enumerate: an uint16 has   *)
(* Byte^2 values, an uint32 Byte^4 and an uint64 Byte^8.                    *)
(***************************************************************************)
EXTENDS Integers, Sequences

CONSTANTS
    Byte,               \* values of a byte
    agentPacketMagic    \* first uint32 of an agent packet

-----------------------------------------------------------------------------
(* encoding/binary, as src/ uses it.  Writing an integer keeps its lowest w *)
(* bytes, which is what the conversions uint16(..), uint32(..) do.          *)

LittleEndian(w, v) == [i \in 1..w |-> (v \div Byte^(i - 1)) % Byte]
BigEndian(w, v)    == [i \in 1..w |-> (v \div Byte^(w - i)) % Byte]

\* The integer in the w bytes that follow the first `at' ones.
RECURSIVE Little(_, _, _)
Little(b, at, w) ==
    IF w = 0 THEN 0 ELSE b[at + 1] + Byte * Little(b, at + 1, w - 1)

RECURSIVE Big(_, _, _)
Big(b, at, w) == IF w = 0 THEN 0 ELSE Byte * Big(b, at, w - 1) + b[at + w]

\* uint64 as int64 and back, uint32 as int32: two's complement.
Signed(w, v)   == IF 2 * v >= Byte^w THEN v - Byte^w ELSE v
Unsigned(w, v) == v % Byte^w

\* The slice b[lo:hi]; the bounds are checked.
Slice(b, lo, hi) == SubSeq(b, lo + 1, hi)
InBounds(b, lo, hi) == lo <= hi /\ hi <= Len(b)

-----------------------------------------------------------------------------
(* Agent packets.  A request is a record of the fields of AgentRequest that *)
(* travel.                                                                  *)

\* Mutant: the length of the parameter is written in 16 bits.
SendAgentRequestNarrow(r) ==
    LittleEndian(4, agentPacketMagic) \o LittleEndian(4, r.Result)
      \o LittleEndian(8, r.RequestID)
      \o LittleEndian(2, Len(r.Interf)) \o r.Interf
      \o LittleEndian(2, Len(r.Method)) \o r.Method
      \o LittleEndian(2, r.ParamType)
      \o LittleEndian(4, Len(r.Param) % Byte^2) \o r.Param

SendAgentRequest(r) ==
    LittleEndian(4, agentPacketMagic) \o LittleEndian(4, r.Result)
      \o LittleEndian(8, r.RequestID)
      \o LittleEndian(2, Len(r.Interf)) \o r.Interf
      \o LittleEndian(2, Len(r.Method)) \o r.Method
      \o LittleEndian(2, r.ParamType)
      \o LittleEndian(4, Len(r.Param)) \o r.Param

\* What the parser answers: the bytes left, the outcome, the request.
Stop(body, req)   == [body |-> body, status |-> "more", req |-> req]
Refuse(body, req) == [body |-> body, status |-> "error", req |-> req]
Panic(req)        == [body |-> << >>, status |-> "panic", req |-> req]

With(req, field, value) == [f \in DOMAIN req \cup {field} |->
                              IF f = field THEN value ELSE req[f]]

\* An uint16 type, an uint32 length and the bytes, which end at an uint32.
ParamPhase(body, req) ==
    IF Len(body) < 6 \/ Len(body) - 6 < Little(body, 2, 4) THEN Stop(body, req)
    ELSE LET end == (6 + Little(body, 2, 4)) % Byte^4 IN
         IF ~InBounds(body, 6, end) THEN Panic(req)
         ELSE [body   |-> Slice(body, end, Len(body)), status |-> "ready",
               req    |-> With(With(req, "ParamType", Little(body, 0, 2)),
                               "Param", Slice(body, 6, end))]

\* Interface and method: an uint16 length and the text.  The end of the text,
\* 2 + interfaceLen, is an uint16 as well.
TextPhase(field, body, req) ==
    IF Len(body) < 2 \/ Len(body) - 2 < Little(body, 0, 2) THEN Stop(body, req)
    ELSE LET end == (2 + Little(body, 0, 2)) % Byte^2 IN
         IF ~InBounds(body, 2, end) THEN Panic(req)
         ELSE [body |-> Slice(body, end, Len(body)), status |-> "next",
               req  |-> With(req, field, Slice(body, 2, end))]

MethodPhase(body, req) ==
    LET method == TextPhase("Method", body, req) IN
    IF method.status = "next" THEN ParamPhase(method.body, method.req) ELSE method

InterfacePhase(body, req) ==
    LET interf == TextPhase("Interf", body, req) IN
    IF interf.status = "next" THEN MethodPhase(interf.body, interf.req) ELSE interf

parseAgentReq(data) ==
    IF Len(data) < 16 THEN Stop(data, << >>)
    ELSE IF Little(data, 0, 4) # agentPacketMagic THEN Refuse(data, << >>)
    ELSE InterfacePhase(Slice(data, 16, Len(data)),
                        [Result |-> Little(data, 4, 4),
                         RequestID |-> Little(data, 8, 8)])

-----------------------------------------------------------------------------
(* Dubbo packets.  A byte that is no part of an integer stands for itself.  *)

HEADER_LENGTH == 16

\* Every object is a line of its own.
RECURSIVE writeJsonObjects(_)
writeJsonObjects(objects) ==
    IF objects = << >> THEN << >>
    ELSE Head(objects) \o <<"newline">> \o writeJsonObjects(Tail(objects))

\* m.Data: the objects of the invocation (version, interface, null, method,
\* parameter types, arguments, attachments), none if it is no RpcInvocation.
PackRequest(m) ==
    LET json == writeJsonObjects(m.Data) IN
    <<"da", "bb",
      {"request", "twoway", "serialization 6"}
        \cup (IF m.Type = "Heartbeat" THEN {"event"} ELSE {}),
      0>>
      \o BigEndian(8, Unsigned(8, m.ID))
      \o BigEndian(4, Len(json)) \o json

\* External: a server answers with the identifier it was sent and a body of
\* two lines: the kind of the value, and the value.
Answer(request, status, value) ==
    <<"da", "bb", {"serialization 6"}, status>> \o Slice(request, 4, 12)
      \o BigEndian(4, Len(value) + 3)
      \o <<"kind", "newline">> \o value \o <<"newline">>

\* Mutant: the last byte of the body is kept.
UnpackResponseUncut(buf) ==
    LET tt == Signed(4, Big(buf, 12, 4)) + HEADER_LENGTH IN
    IF Len(buf) < HEADER_LENGTH \/ Len(buf) < tt
    THEN [body |-> buf, status |-> "more", res |-> << >>]
    ELSE [body |-> Slice(buf, tt, Len(buf)), status |-> "ready",
          res |-> [ID |-> Signed(8, Big(buf, 4, 8)), Status |-> buf[4],
                   Data |-> Slice(buf, HEADER_LENGTH + 2, tt)]]

\* The response, without the first two bytes of the body and the last one.
UnpackResponse(buf) ==
    LET tt == Signed(4, Big(buf, 12, 4)) + HEADER_LENGTH IN
    IF Len(buf) < HEADER_LENGTH \/ Len(buf) < tt
    THEN [body |-> buf, status |-> "more", res |-> << >>]
    ELSE [body |-> Slice(buf, tt, Len(buf)), status |-> "ready",
          res |-> [ID |-> Signed(8, Big(buf, 4, 8)), Status |-> buf[4],
                   Data |-> Slice(buf, HEADER_LENGTH + 2, tt - 1)]]
=============================================================================
