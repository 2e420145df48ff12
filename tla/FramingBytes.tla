---------------------------- MODULE FramingBytes ----------------------------
(***************************************************************************)
(* Framing beside the bytes its cells stand for.  Every message of the      *)
(* stream is a packet of Wire, with lengths and numbers at the edges of     *)
(* their widths, and the byte parsers are run on what the handler has.      *)
(***************************************************************************)
EXTENDS Framing, SequencesExt

CONSTANTS
    Byte,               \* values of a byte, see Wire
    agentPacketMagic

ASSUME ByteAssumption ==
    Byte \in Nat \ {0, 1} /\ agentPacketMagic \in 0..(Byte^4 - 2)

Wire == INSTANCE Wire

Text(n) == [i \in 1..n |-> (i + n) % Byte]

\* The longest text whose end, 2 + length, is an uint16.
LongestText == Byte^2 - 3

\* The i-th of the numbers at the edges of w bytes, and of a few lengths.
Edge(w, i) == <<0, Byte^w - 1, Byte^w \div 2, Byte^w \div 2 - 1, 1>>[1 + (i % 5)]
Length(i) == <<0, LongestText, 1, Byte>>[1 + (i % 4)]

Request(m) ==
    [Result |-> Edge(4, m), RequestID |-> Edge(8, m + 1),
     Interf |-> Text(Length(m)), Method |-> Text(Length(m + 2)),
     ParamType |-> Edge(2, m + 2),
     Param |-> Text(Length(m + 3) + IF m % 2 = 0 THEN Byte^2 ELSE 0)]

Value(m) == Text(Length(m) + IF m % 2 = 0 THEN Byte^2 ELSE 0)

\* What LocalDubboAgent.SendDubboRequest makes of an agent's request
\* (dubbo_agent.go:102): the identifier becomes an int64.
DubboRequest(m) ==
    Wire!PackRequest([ID |-> Wire!Signed(8, Request(m).RequestID),
                      Type |-> "Request",
                      Data |-> <<Request(m).Interf, Request(m).Method, Request(m).Param>>])

\* The m-th packet of the stream.  A malformed one has another magic number.
Packet(m) ==
    IF protocol = "agent"
    THEN Wire!LittleEndian(4, agentPacketMagic + IF m \in Bad THEN 1 ELSE 0)
           \o SubSeq(Wire!SendAgentRequest(Request(m)), 5,
                     Len(Wire!SendAgentRequest(Request(m))))
    ELSE Wire!Answer(DubboRequest(m), 20, Value(m))

\* Where the cells of the m-th packet end, in bytes.
CellEnds(m) ==
    LET text == 18 + Len(Request(m).Interf)
        end  == Len(Packet(m))
    IN  IF protocol = "agent"
        THEN <<0, 8, 16, text, text + 2 + Len(Request(m).Method), end - 1, end>>
        ELSE <<0, 8, 16, end - 1, end>>

CellBytes(c) == SubSeq(Packet(c[1]), CellEnds(c[1])[c[2]] + 1, CellEnds(c[1])[c[2] + 1])
Bytes(cells) == FlattenSeq([i \in DOMAIN cells |-> CellBytes(cells[i])])

\* The byte parsers, with the status of Framing's.
ParseBytes(b) ==
    IF protocol = "agent" THEN Wire!parseAgentReq(b) ELSE Wire!UnpackResponse(b)

-----------------------------------------------------------------------------
(* Properties.                                                              *)

\* The workers have nothing to do.  What the handler has does not depend on
\* them, so it is enough to look at it then.
WorkersIdle == busy = 0 /\ workerQueue = << >>

\* The handler's data, to a little after its first message.
Seen == SubSeq(data, 1, Min({Len(data), MsgLen + 2}))

\* A cut anywhere between two bytes is answered by parseAgentReq and
\* UnpackResponse as Framing's parsers answer the cut before the cell it is
\* in: the same outcome, and the same bytes consumed.  So the cells are all
\* the boundaries there are, and whatever follows a packet is left alone.
CutsAreCells ==
    WorkersIdle /\ protocol \in {"agent", "dubbo"} =>
       LET b    == Bytes(Seen)
           size == [k \in 0..Len(Seen) |-> Len(Bytes(SubSeq(Seen, 1, k)))]
       IN  \A k \in 0..Len(Seen) :
             LET abs == Parse(SubSeq(Seen, 1, k)) IN
             \A n \in size[k]..(IF k = Len(Seen) THEN size[k] ELSE size[k + 1] - 1) :
                LET out == ParseBytes(SubSeq(b, 1, n)) IN
                /\ out.status = abs.status
                /\ n - Len(out.body) = size[k - Len(abs.left)]

\* What comes out of a packet is what went in: parseAgentReq gives back every
\* field that SendAgentRequest wrote, the length PackRequest wrote is where a
\* server has to cut its stream, and UnpackResponse gives the value the server
\* sent and an identifier that, as an uint64 again, finds the request in the
\* request map (dubbo_agent.go:131).
FieldsReturn ==
    WorkersIdle /\ data # << >> /\ protocol \in {"agent", "dubbo"} /\ Parse(data).status = "ready" =>
       LET m   == Parse(data).msg
           out == ParseBytes(Bytes(Seen))
       IN  IF protocol = "agent"
           THEN out.req = Request(m)
           ELSE /\ Len(DubboRequest(m))
                     = Wire!HEADER_LENGTH + Wire!Big(DubboRequest(m), 12, 4)
                /\ Wire!Unsigned(8, out.res.ID) = Request(m).RequestID
                /\ out.res.Data = Value(m)

\* Refuted: every text whose length an uint16 holds comes back.  The end of
\* the longest two, 2 + interfaceLen, is not an uint16 (agent_server.go:220).
EveryTextReturns ==
    \A n \in 0..(sent % Byte^2) :
       Wire!parseAgentReq(Wire!SendAgentRequest(
          [Request(1) EXCEPT !.Interf = Text(n)])).status = "ready"
=============================================================================
