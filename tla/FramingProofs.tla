---------------------------- MODULE FramingProofs ----------------------------
(***************************************************************************)
(* Proofs about Framing, for any number of messages, any capacity of the    *)
(* queue and every way to cut the stream into segments: the types, that a   *)
(* queued parameter is not written over, that messages come in order, and   *)
(* why a connection is closed.                                              *)
(***************************************************************************)
EXTENDS Framing, SequenceTheorems, WellFoundedInduction, TLAPS

\* The messages cut out of the stream so far.
Taken == Len(got) + (IF busy = 0 THEN 0 ELSE 1) + Len(workerQueue)

\* The types, that the agent and http handlers never lend a slice of is.b, and
\* that data is no longer than the buffer it is a part of.
TypeInv ==
    /\ TypeOK
    /\ protocol # "dubbo" => is.lent = {} /\ spoilt = {}
    /\ pc = "parse" => is.b = << >> \/ Len(data) <= Len(is.b)

\* The messages taken are numbered in order, through the queue and the worker.
QueueInv ==
    /\ \A i \in 1..Len(got) : got[i] = i
    /\ busy # 0 => busy = Len(got) + 1
    /\ \A i \in 1..Len(workerQueue) :
         workerQueue[i] = Len(got) + (IF busy = 0 THEN 0 ELSE 1) + i

\* How far into the next message the unprocessed data may start: parseAgentReq
\* forgets the fields of a request that it has read.
Lost == IF protocol = "agent" THEN {0, 2, 3, 4} ELSE {0}

\* What is unprocessed is the stream from place p to the end of the last
\* segment; the buffer it was cut from ends there too.
StreamAt(p) ==
    /\ pc = "parse" =>
         /\ data = Segment(p, sent)
         /\ is.b # << >> => \E f \in 0..p : is.b = Segment(f, sent)
    /\ pc # "parse" => is.b = Segment(p, sent)

\* Nothing of the stream is skipped but first fields of a request, and no
\* message is taken from a malformed one on.
StreamInv ==
    /\ protocol = "http" => ~InBody(sent)
    /\ \E c \in Lost, p \in 0..sent : p = Taken * MsgLen + c /\ StreamAt(p)
    /\ \A b \in Bad : Taken < b

\* No segment of an http request ends between its header and its end.
WholeHttp == "http" \notin CutBodies

-----------------------------------------------------------------------------
(* Lengths and sequences.                                                   *)

\* A message of an agent is six cells, the others are four.
LEMMA Sizes ==
    ASSUME protocol \in Protocols
    PROVE  /\ MsgLen = IF protocol = "agent" THEN 6 ELSE 4
           /\ DOMAIN FieldEnds = IF protocol = "agent" THEN 1..4 ELSE 1..2
  BY DEF MsgLen, FieldEnds

\* Drop gives the rest of a sequence.
LEMMA DropIs ==
    ASSUME NEW S, NEW d \in Seq(S), NEW n \in 0..Len(d)
    PROVE  /\ Drop(d, n) \in Seq(S)
           /\ Len(Drop(d, n)) = Len(d) - n
           /\ \A i \in 1..(Len(d) - n) : Drop(d, n)[i] = d[n + i]
  <1>1. \A i \in (n + 1)..Len(d) : d[i] \in S
    BY ElementOfSeq
  <1>2. Len(d) \in Nat
    BY LenProperties
  <1>3. n + 1 \in Int /\ Len(d) \in Int
    BY <1>2
  <1>4. /\ SubSeq(d, n + 1, Len(d)) \in Seq(S)
        /\ Len(SubSeq(d, n + 1, Len(d))) =
             IF n + 1 <= Len(d) THEN Len(d) - (n + 1) + 1 ELSE 0
        /\ \A i \in 1..(Len(d) - (n + 1) + 1) :
             SubSeq(d, n + 1, Len(d))[i] = d[(n + 1) + i - 1]
    BY <1>1, <1>3, SubSeqProperties
  <1> QED
    BY <1>2, <1>4 DEF Drop

\* The first blank line exists if there is one.
LEMMA FirstIn ==
    ASSUME NEW T, T \subseteq Nat, T # {}
    PROVE  \E i \in T : \A j \in T : i <= j
  <1>1. PICK i \in T : \A j \in T : ~ (<<j, i>> \in OpToRel(<, Nat))
    BY Zenon, NatLessThanWellFounded, WFMin
  <1>2. \A j \in T : ~ (j < i)
    BY Zenon, <1>1 DEF OpToRel
  <1> QED
    BY <1>2

-----------------------------------------------------------------------------
(* The parsers, on any cells.                                               *)

\* What a parser may return: the data itself or a rest of it, and a message of
\* the peer's.
Outcome(p, d) ==
    /\ p.status \in {"more", "error", "ready"}
    /\ p.left \in Seq(Cell) /\ Len(p.left) <= Len(d)
    /\ p.status = "ready" => p.msg \in 1..Count

\* A record of a parser has the fields it was made of.
LEMMA Returns ==
    ASSUME NEW d, NEW l \in Seq(Cell), Len(l) <= Len(d), NEW m \in 1..Count
    PROVE  Outcome(NotReady(l), d) /\ Outcome(Broken(l), d) /\ Outcome(Ready(l, m), d)
  BY DEF Outcome, NotReady, Broken, Ready

\* Without a message: what is left is typed.
LEMMA ReturnsNone ==
    ASSUME NEW d, NEW l \in Seq(Cell), Len(l) <= Len(d)
    PROVE  Outcome(NotReady(l), d) /\ Outcome(Broken(l), d)
  BY DEF Outcome, NotReady, Broken

\* parseAgentReq consumes whole fields of the data.
LEMMA AgentParses ==
    ASSUME protocol = "agent", protocol \in Protocols,
           NEW d \in Seq(Cell), d # << >>
    PROVE  Outcome(parseAgentReq(d), d)
  <1> DEFINE fields == {i \in DOMAIN FieldEnds : FieldEnds[i] <= Len(d)}
             top    == CHOOSE i \in fields : \A j \in fields : j <= i
  <1>1. Len(d) \in Nat \ {0} /\ d[1] \in Cell
    BY EmptySeq, ElementOfSeq
  <1>2. MsgLen = 6 /\ FieldEnds = <<2, 3, 4, 6>> /\ d[1][1] \in 1..Count
    BY <1>1, Sizes DEF Cell, FieldEnds
  <1>3. Len(d) <= Len(d)
    BY <1>1
  <1>4. CASE fields = {}
    BY <1>3, <1>4, ReturnsNone DEF parseAgentReq
  <1>5. CASE fields # {} /\ (d[1][2] # 1 \/ d[1][1] \in Bad)
    BY <1>3, <1>5, ReturnsNone DEF parseAgentReq
  <1>6. CASE fields # {} /\ ~(d[1][2] # 1 \/ d[1][1] \in Bad) /\ fields = DOMAIN FieldEnds
    <2>1. 4 \in DOMAIN FieldEnds /\ FieldEnds[4] = 6
      BY <1>2
    <2>2. 6 \in 0..Len(d)
      BY <1>1, <1>6, <2>1
    <2>3. Drop(d, MsgLen) \in Seq(Cell) /\ Len(Drop(d, MsgLen)) <= Len(d)
      BY <1>1, <1>2, <2>2, DropIs
    <2>4. parseAgentReq(d) = Ready(Drop(d, MsgLen), d[1][1])
      BY <1>6 DEF parseAgentReq
    <2> QED
      BY <1>2, <2>3, <2>4, Returns
  <1>7. CASE fields # {} /\ ~(d[1][2] # 1 \/ d[1][1] \in Bad) /\ fields # DOMAIN FieldEnds
    <2>1. \E i \in fields : \A j \in fields : j <= i
      <3>1. fields \subseteq {1, 2, 3, 4}
        BY <1>2
      <3>2. CASE 4 \in fields
        BY <3>1, <3>2
      <3>3. CASE 4 \notin fields /\ 3 \in fields
        BY <3>1, <3>3
      <3>4. CASE 4 \notin fields /\ 3 \notin fields /\ 2 \in fields
        BY <3>1, <3>4
      <3>5. CASE 4 \notin fields /\ 3 \notin fields /\ 2 \notin fields
        <4>1. fields = {1}
          BY <1>7, <3>1, <3>5
        <4> QED
          BY <4>1
      <3> QED
        BY <3>2, <3>3, <3>4, <3>5
    <2>2. top \in fields
      BY <2>1
    <2>3. FieldEnds[top] \in 0..Len(d)
      <3>1. top \in DOMAIN FieldEnds /\ FieldEnds[top] <= Len(d)
        BY <2>2
      <3> HIDE DEF top
      <3>2. FieldEnds[top] \in {2, 3, 4, 6}
        BY <1>2, <3>1
      <3> QED
        BY <1>1, <3>1, <3>2
    <2>4. Drop(d, FieldEnds[top]) \in Seq(Cell) /\ Len(Drop(d, FieldEnds[top])) <= Len(d)
      <3>1. \A n \in 0..Len(d) : Drop(d, n) \in Seq(Cell) /\ Len(Drop(d, n)) <= Len(d)
        BY <1>1, DropIs
      <3> HIDE DEF top
      <3> QED
        BY Zenon, <2>3, <3>1
    <2>5. parseAgentReq(d) = NotReady(Drop(d, FieldEnds[top]))
      BY <1>7 DEF parseAgentReq
    <2> QED
      BY <2>4, <2>5, ReturnsNone
  <1> QED
    BY <1>4, <1>5, <1>6, <1>7

\* parsereq consumes up to a blank line, or to the end of a body.
LEMMA HttpParses ==
    ASSUME protocol = "http", protocol \in Protocols,
           NEW d \in Seq(Cell), d # << >>
    PROVE  Outcome(parsereq(d), d)
  <1> DEFINE ends == {i \in 2..Len(d) : d[i][2] = HeadLen}
             e    == CHOOSE i \in ends : \A j \in ends : i <= j
  <1>1. Len(d) \in Nat /\ Len(d) <= Len(d)
    BY LenProperties
  <1>2. MsgLen - HeadLen = 2
    BY Sizes DEF HeadLen
  <1>3. CASE ends = {}
    BY <1>1, <1>3, ReturnsNone DEF parsereq
  <1>4. CASE ends # {}
    <2>1. ends \subseteq Nat
      BY <1>1
    <2>2. e \in ends
      BY Zenon, <1>4, <2>1, FirstIn
    <2>3. e \in 2..Len(d) /\ d[e] \in Cell
      BY <1>1, <2>2, ElementOfSeq
    <2>4. d[e][1] \in 1..Count
      BY <2>3 DEF Cell
    <2>5. CASE Len(d) - e < MsgLen - HeadLen
      <3>1. Drop(d, e) \in Seq(Cell) /\ Len(Drop(d, e)) <= Len(d)
        BY <1>1, <2>3, DropIs
      <3>2. parsereq(d) = NotReady(Drop(d, e))
        BY <1>4, <2>5 DEF parsereq
      <3> QED
        BY <3>1, <3>2, ReturnsNone
    <2>6. CASE ~(Len(d) - e < MsgLen - HeadLen) /\ d[e][1] \in Bad
      BY SMTT(30), <1>1, <1>4, <2>6, ReturnsNone DEF parsereq
    <2>7. CASE ~(Len(d) - e < MsgLen - HeadLen) /\ d[e][1] \notin Bad
      <3> DEFINE rest == Drop(d, e + (MsgLen - HeadLen))
      <3>1. e + (MsgLen - HeadLen) \in 0..Len(d)
        BY <1>1, <1>2, <2>3, <2>7
      <3>2. rest \in Seq(Cell) /\ Len(rest) <= Len(d)
        BY <1>1, <3>1, DropIs
      <3>3. parsereq(d) = Ready(rest, d[e][1])
        BY <1>4, <2>7 DEF parsereq
      <3> QED
        BY Zenon, <2>4, <3>2, <3>3, Returns
    <2> QED
      BY <2>5, <2>6, <2>7
  <1> QED
    BY <1>3, <1>4

\* UnpackResponse consumes whole messages.
LEMMA DubboParses ==
    ASSUME protocol = "dubbo", protocol \in Protocols,
           NEW d \in Seq(Cell), d # << >>
    PROVE  Outcome(UnpackResponse(d), d)
  <1>1. Len(d) \in Nat \ {0} /\ d[1] \in Cell
    BY EmptySeq, ElementOfSeq
  <1>2. MsgLen = 4 /\ HeadLen = 2 /\ d[1][1] \in 1..Count
    BY <1>1, Sizes DEF Cell, HeadLen
  <1>3. CASE Len(d) < HeadLen \/ Len(d) < MsgLen
    BY <1>1, <1>3, ReturnsNone DEF UnpackResponse
  <1>4. CASE ~(Len(d) < HeadLen \/ Len(d) < MsgLen)
    <2>1. MsgLen \in 0..Len(d)
      BY <1>1, <1>2, <1>4
    <2>2. Drop(d, MsgLen) \in Seq(Cell) /\ Len(Drop(d, MsgLen)) <= Len(d)
      BY <1>1, <2>1, DropIs
    <2>3. UnpackResponse(d) = Ready(Drop(d, MsgLen), d[1][1])
      BY <1>4 DEF UnpackResponse
    <2> QED
      BY <1>2, <2>2, <2>3, Returns
  <1> QED
    BY <1>3, <1>4

\* Whatever the protocol, a parser gives back a part of the cells it was given.
LEMMA ParseTyped ==
    ASSUME protocol \in Protocols, NEW d \in Seq(Cell), d # << >>
    PROVE  Outcome(Parse(d), d)
  <1>1. protocol \in {"agent", "http", "dubbo"}
    BY ConstAssumption
  <1>2. CASE protocol = "agent"
    BY <1>2, AgentParses DEF Parse
  <1>3. CASE protocol = "http"
    BY <1>3, HttpParses DEF Parse
  <1>4. CASE protocol = "dubbo"
    BY <1>4, DubboParses DEF Parse
  <1> QED
    BY <1>1, <1>2, <1>3, <1>4

-----------------------------------------------------------------------------
(* InputStream.                                                             *)

Lent == SUBSET ((1..Count) \X Nat)

\* A stream is made of its three fields.
LEMMA StreamMade ==
    ASSUME NEW b \in Seq(Cell), NEW c \in Nat, NEW l \in Lent
    PROVE  LET r == [b |-> b, cap |-> c, lent |-> l] IN
           r \in Stream /\ r.b = b /\ r.cap = c /\ r.lent = l
  BY DEF Stream, Lent

\* An assignment to b, to lent or to both leaves the rest.
LEMMA StreamSet ==
    ASSUME NEW s \in Stream, NEW b \in Seq(Cell), NEW l \in Lent
    PROVE  /\ [s EXCEPT !.b = b] = [b |-> b, cap |-> s.cap, lent |-> s.lent]
           /\ [s EXCEPT !.lent = l] = [b |-> s.b, cap |-> s.cap, lent |-> l]
           /\ [s EXCEPT !.b = b, !.lent = l] = [b |-> b, cap |-> s.cap, lent |-> l]
           /\ s.b \in Seq(Cell) /\ s.cap \in Nat /\ s.lent \in Lent
  <1>1. s.b \in Seq(Cell) /\ s.cap \in Nat /\ s.lent \in Lent
    BY DEF Stream, Lent
  <1>2. [s EXCEPT !.b = b] = [b |-> b, cap |-> s.cap, lent |-> s.lent]
    BY DEF Stream
  <1>3. \A t \in Stream : [t EXCEPT !.lent = l] = [b |-> t.b, cap |-> t.cap, lent |-> l]
    BY DEF Stream
  <1>4. [s EXCEPT !.b = b, !.lent = l] = [b |-> b, cap |-> s.cap, lent |-> l]
    <2>1. [s EXCEPT !.b = b, !.lent = l] = [[s EXCEPT !.b = b] EXCEPT !.lent = l]
      OBVIOUS
    <2>2. PICK t : t = [s EXCEPT !.b = b]
      BY Zenon
    <2>3. t \in Stream /\ t.b = b /\ t.cap = s.cap
      BY <1>1, <1>2, <2>2, StreamMade
    <2>4. [t EXCEPT !.lent = l] = [b |-> b, cap |-> s.cap, lent |-> l]
      BY <1>3, <2>3
    <2> QED
      BY <2>1, <2>2, <2>4
  <1> QED
    BY <1>1, <1>2, <1>3, <1>4

\* append: the buffer is the kept part and the new one, it fits its capacity,
\* and nothing is overwritten where nothing was lent.
LEMMA AppendTyped ==
    ASSUME protocol \in Protocols, spoilt \subseteq 1..Count,
           NEW s \in Stream, NEW n \in 0..Len(s.b), NEW d \in Seq(Cell),
           AppendTo(s, n, d)
    PROVE  /\ is' \in Stream /\ is'.b = SubSeq(s.b, 1, n) \o d
           /\ Len(is'.b) <= is'.cap
           /\ spoilt' \subseteq 1..Count
           /\ s.lent = {} => is'.lent = {} /\ spoilt' = spoilt
  <1> DEFINE b    == SubSeq(s.b, 1, n) \o d
             hurt == {l \in s.lent : Kept(l[2]) \cap (n..(Len(b) - 1)) # {}}
  <1>1. s.b \in Seq(Cell) /\ s.cap \in Nat /\ s.lent \in Lent
    BY DEF Stream, Lent
  <1>2. Len(s.b) \in Nat /\ n \in Int /\ 1 \in Int /\ \A i \in 1..n : s.b[i] \in Cell
    BY <1>1, LenProperties, ElementOfSeq
  <1>3. SubSeq(s.b, 1, n) \in Seq(Cell)
    BY <1>2, SubSeqProperties
  <1>4. b \in Seq(Cell) /\ Len(b) \in Nat
    BY <1>3, ConcatProperties, LenProperties
  <1>5. s.lent \ hurt \in Lent /\ hurt \subseteq s.lent
    BY <1>1 DEF Lent
  <1> HIDE DEF b
  <1>6. CASE Len(b) <= s.cap
    <2>1. /\ is' = [s EXCEPT !.b = b, !.lent = @ \ hurt]
          /\ spoilt' = spoilt \cup {l[1] : l \in hurt}
      BY <1>6 DEF AppendTo, b
    <2>2. {l[1] : l \in hurt} \subseteq 1..Count
      BY <1>1, <1>5 DEF Lent
    <2> HIDE DEF hurt
    <2>3. is' = [b |-> b, cap |-> s.cap, lent |-> s.lent \ hurt]
      BY Zenon, <1>4, <1>5, <2>1, StreamSet
    <2>4. is' \in Stream /\ is'.b = b /\ is'.cap = s.cap /\ is'.lent = s.lent \ hurt
      BY Zenon, <1>1, <1>4, <1>5, <2>3, StreamMade
    <2>5. s.lent = {} => hurt = {} /\ spoilt' = spoilt
      BY <1>5, <2>1
    <2> QED
      BY Zenon, <1>6, <2>1, <2>2, <2>4, <2>5 DEF b
  <1>7. CASE ~(Len(b) <= s.cap)
    <2>1. spoilt' = spoilt
      BY <1>7 DEF AppendTo, b
    <2>2. PICK room \in {0, MsgLen} : is' = [b |-> b, cap |-> Len(b) + room, lent |-> {}]
      BY <1>7 DEF AppendTo, b
    <2>3. room \in Nat
      BY <2>2, Sizes
    <2>4. Len(b) + room \in Nat /\ {} \in Lent
      BY <1>4, <2>3 DEF Lent
    <2>5. is' \in Stream /\ is'.b = b /\ is'.cap = Len(b) + room /\ is'.lent = {}
      BY Zenon, <1>4, <2>2, <2>4, StreamMade
    <2>6. Len(is'.b) <= is'.cap
      BY <1>4, <2>3, <2>5
    <2> QED
      BY <2>1, <2>5, <2>6 DEF b
  <1> QED
    BY <1>6, <1>7

\* Every place of the stream holds a cell of one of the messages.
LEMMA CellTyped ==
    ASSUME protocol \in Protocols, NEW j \in 1..(Count * MsgLen)
    PROVE  StreamCell(j) \in Cell
  <1>1. Count \in Nat
    BY ConstAssumption
  <1>2. CASE protocol = "agent"
    <2>1. MsgLen = 6
      BY <1>2, Sizes
    <2>2. j \in 1..(Count * 6)
      BY <2>1
    <2>3. ((j - 1) \div 6) + 1 \in 1..Count /\ ((j - 1) % 6) + 1 \in 1..6
      BY <1>1, <2>2
    <2> QED
      BY <2>1, <2>3 DEF StreamCell, Cell
  <1>3. CASE protocol # "agent"
    <2>1. MsgLen = 4
      BY <1>3, Sizes
    <2>2. j \in 1..(Count * 4)
      BY <2>1
    <2>3. ((j - 1) \div 4) + 1 \in 1..Count /\ ((j - 1) % 4) + 1 \in 1..4
      BY <1>1, <2>2
    <2> QED
      BY <2>1, <2>3 DEF StreamCell, Cell
  <1> QED
    BY <1>2, <1>3

\* A segment of the stream is a sequence of its cells.
LEMMA SegmentIs ==
    ASSUME protocol \in Protocols, NEW f \in Nat, NEW t \in f..(Count * MsgLen)
    PROVE  /\ Segment(f, t) \in Seq(Cell) /\ Len(Segment(f, t)) = t - f
           /\ \A i \in 1..(t - f) : Segment(f, t)[i] = StreamCell(f + i)
  <1>1. Count * MsgLen \in Nat
    BY ConstAssumption, Sizes
  <1>2. t - f \in Nat
    BY <1>1
  <1>3. \A i \in 1..(t - f) : f + i \in 1..(Count * MsgLen)
    BY <1>1
  <1>4. \A i \in 1..(t - f) : StreamCell(f + i) \in Cell
    BY <1>3, CellTyped
  <1>5. PICK n : n = t - f
    OBVIOUS
  <1>6. Segment(f, t) = [i \in 1..n |-> StreamCell(f + i)]
    BY <1>5 DEF Segment
  <1>7. Segment(f, t) \in [1..n -> Cell]
    BY <1>4, <1>5, <1>6
  <1>8. Segment(f, t) \in Seq(Cell) /\ Len(Segment(f, t)) = n
    BY <1>2, <1>5, <1>7
  <1> QED
    BY <1>5, <1>6, <1>8

\* Begin: data is what was kept and the segment; the buffer holds it too,
\* unless it was empty.
LEMMA BeginTyped ==
    ASSUME TypeInv, NEW packet \in Seq(Cell), Begin(packet)
    PROVE  /\ data' = is.b \o packet /\ data' \in Seq(Cell)
           /\ is' \in Stream /\ Len(is'.b) <= is'.cap
           /\ (is'.b = << >> /\ is.b = << >>) \/ is'.b = data'
           /\ spoilt' \subseteq 1..Count
           /\ protocol # "dubbo" => is'.lent = {} /\ spoilt' = {}
  <1>1. /\ protocol \in Protocols /\ is \in Stream /\ is.b \in Seq(Cell)
        /\ Len(is.b) <= is.cap /\ spoilt \subseteq 1..Count
        /\ protocol # "dubbo" => is.lent = {} /\ spoilt = {}
    BY DEF TypeInv, TypeOK, Stream
  <1>2. data' = is.b \o packet /\ data' \in Seq(Cell)
    BY <1>1, ConcatProperties DEF Begin
  <1>3. CASE is.b = << >>
    <2>1. is' = is /\ spoilt' = spoilt
      BY <1>3 DEF Begin
    <2> QED
      BY <1>1, <1>2, <1>3, <2>1
  <1>4. CASE is.b # << >>
    <2>1. AppendTo(is, Len(is.b), packet)
      BY <1>4 DEF Begin
    <2>2. Len(is.b) \in 0..Len(is.b)
      BY <1>1, LenProperties
    <2>3. SubSeq(is.b, 1, Len(is.b)) = is.b
      BY <1>1, SubSeqFull
    <2>4. /\ is' \in Stream /\ is'.b = SubSeq(is.b, 1, Len(is.b)) \o packet
          /\ Len(is'.b) <= is'.cap
          /\ spoilt' \subseteq 1..Count
          /\ is.lent = {} => is'.lent = {} /\ spoilt' = spoilt
      BY Zenon, <1>1, <2>1, <2>2, AppendTyped
    <2> QED
      BY Zenon, <1>1, <1>2, <2>3, <2>4
  <1> QED
    BY <1>3, <1>4

\* End: the buffer holds what is unprocessed, provided that a buffer as long as
\* it is the same cells.
LEMMA EndTyped ==
    ASSUME protocol \in Protocols, spoilt \subseteq 1..Count,
           NEW s \in Stream, Len(s.b) <= s.cap, NEW d \in Seq(Cell), End(s, d)
    PROVE  /\ is' \in Stream /\ Len(is'.b) <= is'.cap
           /\ (Len(d) = Len(s.b) => d = s.b) => is'.b = d
           /\ spoilt' \subseteq 1..Count
           /\ s.lent = {} => is'.lent = {} /\ spoilt' = spoilt
  <1>1. s.b \in Seq(Cell) /\ s.cap \in Nat /\ s.lent \in Lent
    BY DEF Stream, Lent
  <1>2. Len(s.b) \in Nat
    BY <1>1, LenProperties
  <1>3. CASE d # << >> /\ Len(d) # Len(s.b)
    <2>1. AppendTo(s, 0, d)
      BY <1>3 DEF End
    <2>2. 0 \in 0..Len(s.b)
      BY <1>2
    <2>3. SubSeq(s.b, 1, 0) = << >>
      BY SubSeqEmpty
    <2>4. /\ is' \in Stream /\ is'.b = SubSeq(s.b, 1, 0) \o d
          /\ Len(is'.b) <= is'.cap
          /\ spoilt' \subseteq 1..Count
          /\ s.lent = {} => is'.lent = {} /\ spoilt' = spoilt
      BY <2>1, <2>2, AppendTyped
    <2>5. << >> \o d = d
      BY ConcatEmptySeq
    <2> QED
      BY <2>3, <2>4, <2>5
  <1>4. CASE ~(d # << >> /\ Len(d) # Len(s.b))
    <2>1. PICK b : b = IF d = << >> THEN d ELSE s.b
      OBVIOUS
    <2>2. is' = [s EXCEPT !.b = b] /\ spoilt' = spoilt
      BY <1>4, <2>1 DEF End
    <2>3. b \in Seq(Cell)
      BY SMTT(30), <1>1, <2>1
    <2>4. is' = [b |-> b, cap |-> s.cap, lent |-> s.lent]
      BY Zenon, <1>1, <2>2, <2>3, StreamSet
    <2>5. is' \in Stream /\ is'.b = b /\ is'.cap = s.cap /\ is'.lent = s.lent
      BY <1>1, <2>3, <2>4, StreamMade
    <2>6. Len(b) <= s.cap
      <3>1. Len(<< >>) = 0
        BY EmptySeq
      <3> QED
        BY <1>1, <2>1, <3>1
    <2>7. (Len(d) = Len(s.b) => d = s.b) => b = d
      BY <1>4, <2>1
    <2> QED
      BY <2>2, <2>5, <2>6, <2>7
  <1> QED
    BY <1>3, <1>4

-----------------------------------------------------------------------------
(* The types.                                                               *)

\* The parts of TypeInv', over the cells of the unchanged protocol.
LEMMA TypeFold ==
    ASSUME protocol \in Protocols, protocol' = protocol,
           sent' \in 0..(Count * MsgLen),
           is' \in Stream, Len(is'.b) <= is'.cap, data' \in Seq(Cell),
           pc' \in {"idle", "parse", "closed"}, action' \in {"None", "Close"},
           workerQueue' \in Seq(1..Count), Len(workerQueue') <= QueueCap,
           busy' \in 0..Count, got' \in Seq(1..Count), spoilt' \subseteq 1..Count,
           protocol # "dubbo" => is'.lent = {} /\ spoilt' = {},
           pc' = "parse" => is'.b = << >> \/ Len(data') <= Len(is'.b)
    PROVE  TypeInv'
  <1>1. MsgLen' = MsgLen
    BY DEF MsgLen, FieldEnds
  <1>2. Cell' = Cell
    BY <1>1 DEF Cell
  <1>3. Stream' = Stream
    BY <1>2 DEF Stream
  <1>4. TypeOK'
    BY <1>1, <1>2, <1>3 DEF TypeOK
  <1> QED
    BY <1>4 DEF TypeInv

\* What a turn makes of the stream is a stream.
LEMMA TurnTyped ==
    ASSUME TypeInv
    PROVE  /\ Turn \in Stream /\ Len(Turn.b) <= Turn.cap
           /\ protocol # "dubbo" => Turn.lent = {}
           /\ Turn = is \/ Turn.b = << >>
  <1>1. /\ is \in Stream /\ Len(is.b) <= is.cap
        /\ protocol # "dubbo" => is.lent = {}
    BY DEF TypeInv, TypeOK
  <1>2. << >> \in Seq(Cell) /\ Len(<< >>) = 0 /\ {} \in Lent
    BY EmptySeq DEF Lent
  <1>3. /\ NilStream \in Stream /\ NilStream.b = << >> /\ NilStream.cap = 0
        /\ NilStream.lent = {}
    BY Zenon, <1>2, StreamMade DEF NilStream
  <1> QED
    BY <1>1, <1>2, <1>3 DEF Turn

\* The queue and the worker are not touched by the handler's other steps.
LEMMA TypeSame ==
    ASSUME TypeInv
    PROVE  /\ protocol \in Protocols /\ sent \in 0..(Count * MsgLen)
           /\ is \in Stream /\ Len(is.b) <= is.cap /\ data \in Seq(Cell)
           /\ pc \in {"idle", "parse", "closed"} /\ action \in {"None", "Close"}
           /\ workerQueue \in Seq(1..Count) /\ Len(workerQueue) <= QueueCap
           /\ busy \in 0..Count /\ got \in Seq(1..Count) /\ spoilt \subseteq 1..Count
           /\ protocol # "dubbo" => is.lent = {} /\ spoilt = {}
           /\ pc = "parse" => is.b = << >> \/ Len(data) <= Len(is.b)
  BY DEF TypeInv, TypeOK

\* Reading a segment keeps the types.
LEMMA TypeBegin ==
    ASSUME TypeInv, DataBegin
    PROVE  TypeInv'
  <1>1. PICK to \in (sent + 1)..(Count * MsgLen) :
          Begin(Segment(sent, to)) /\ sent' = to
    BY DEF DataBegin
  <1>2. protocol \in Protocols /\ sent \in 0..(Count * MsgLen)
    BY TypeSame
  <1>3. Count * MsgLen \in Nat
    BY <1>2, ConstAssumption, Sizes
  <1>4. sent \in Nat /\ to \in sent..(Count * MsgLen) /\ to \in 0..(Count * MsgLen)
    BY <1>1, <1>2, <1>3
  <1>5. Segment(sent, to) \in Seq(Cell)
    BY <1>2, <1>4, SegmentIs
  <1>6. /\ data' \in Seq(Cell) /\ is' \in Stream /\ Len(is'.b) <= is'.cap
        /\ is'.b = << >> \/ is'.b = data'
        /\ spoilt' \subseteq 1..Count
        /\ protocol # "dubbo" => is'.lent = {} /\ spoilt' = {}
    BY <1>1, <1>5, BeginTyped
  <1>7. Len(data') <= Len(data')
    BY <1>6, LenProperties
  <1>8. /\ pc' = "parse"
        /\ UNCHANGED <<protocol, action, workerQueue, busy, got>>
    BY DEF DataBegin
  <1> QED
    BY Zenon, <1>1, <1>4, <1>6, <1>7, <1>8, TypeSame, TypeFold

\* Cutting out a message keeps the types: it is lent from a place of is.b.
LEMMA TypeReady ==
    ASSUME TypeInv, DataReady
    PROVE  TypeInv'
  <1>1. /\ pc = "parse" /\ data # << >> /\ Parse(data).status = "ready"
        /\ Len(workerQueue) < QueueCap
        /\ workerQueue' = Append(workerQueue, Parse(data).msg)
        /\ data' = Parse(data).left
        /\ UNCHANGED <<protocol, sent, pc, action, busy, got, spoilt>>
    BY DEF DataReady
  <1>2. Outcome(Parse(data), data)
    BY <1>1, TypeSame, ParseTyped
  <1>3. /\ Parse(data).msg \in 1..Count /\ data' \in Seq(Cell)
        /\ Len(data') <= Len(data)
    BY <1>1, <1>2 DEF Outcome
  <1>4. workerQueue' \in Seq(1..Count) /\ Len(workerQueue') <= QueueCap
    <2>1. Len(workerQueue) \in Nat
      BY TypeSame, LenProperties
    <2> QED
      BY <1>1, <1>3, <2>1, TypeSame, AppendProperties, ConstAssumption
  <1>5. /\ Turn \in Stream /\ Len(Turn.b) <= Turn.cap
        /\ protocol # "dubbo" => Turn.lent = {}
        /\ Turn = is \/ Turn.b = << >>
    BY TurnTyped
  <1>6. Len(data) \in Nat /\ Len(data') \in Nat /\ Len(is.b) \in Nat
    BY Zenon, <1>3, TypeSame, LenProperties DEF Stream
  <1>7. CASE Turn.b = << >>
    <2>1. is' = Turn
      BY Zenon, <1>7 DEF DataReady
    <2> QED
      BY Zenon, <1>1, <1>3, <1>4, <1>5, <1>7, <2>1, TypeSame, TypeFold
  <1>8. CASE Turn.b # << >>
    <2>1. Turn = is /\ protocol = "dubbo"
      <3>1. NilStream.b = << >>
        BY DEF NilStream
      <3> QED
        BY <1>1, <1>8, <3>1 DEF Turn
    <2>2. PICK l : l = is.lent \cup {<<Parse(data).msg, Len(is.b) - Len(data)>>}
      BY Zenon
    <2>3. is' = [is EXCEPT !.lent = l]
      BY Zenon, <1>8, <2>1, <2>2 DEF DataReady
    <2>4. Len(data) <= Len(is.b)
      BY Zenon, <1>1, <1>8, <2>1, TypeSame
    <2>5. Len(is.b) - Len(data) \in Nat
      BY <1>6, <2>4
    <2>6. is.lent \in Lent
      BY TypeSame DEF Stream, Lent
    <2>7. l \in Lent
      BY SMTT(30), <1>3, <2>2, <2>5, <2>6 DEF Lent
    <2>8. /\ is' = [b |-> is.b, cap |-> is.cap, lent |-> l]
          /\ is.b \in Seq(Cell) /\ is.cap \in Nat
      <3>1. << >> \in Seq(Cell)
        BY Zenon, EmptySeq
      <3> QED
        BY Zenon, <2>3, <2>7, <3>1, TypeSame, StreamSet
    <2>9. is' \in Stream /\ is'.b = is.b /\ is'.cap = is.cap
      BY <2>7, <2>8, StreamMade
    <2>10. Len(data') <= Len(is'.b) /\ Len(is'.b) <= is'.cap
      BY SMTT(30), <1>3, <1>6, <2>4, <2>9, TypeSame
    <2> QED
      BY Zenon, <1>1, <1>3, <1>4, <2>1, <2>9, <2>10, TypeSame, TypeFold
  <1> QED
    BY <1>7, <1>8

\* Keeping what is unprocessed keeps the types.
LEMMA TypeEnd ==
    ASSUME TypeInv, DataMore \/ DataError
    PROVE  TypeInv'
  <1>1. PICK d : d \in Seq(Cell) /\ End(Turn, d)
    <2>1. CASE data = << >>
      BY Zenon, <2>1, TypeSame DEF DataMore, DataError
    <2>2. CASE data # << >>
      <3>1. Outcome(Parse(data), data)
        BY <2>2, TypeSame, ParseTyped
      <3> QED
        BY Zenon, <2>2, <3>1, TypeSame DEF DataMore, DataError, Outcome
    <2> QED
      BY <2>1, <2>2
  <1>2. /\ Turn \in Stream /\ Len(Turn.b) <= Turn.cap
        /\ protocol # "dubbo" => Turn.lent = {}
    BY TurnTyped
  <1>3. /\ is' \in Stream /\ Len(is'.b) <= is'.cap
        /\ spoilt' \subseteq 1..Count
        /\ Turn.lent = {} => is'.lent = {} /\ spoilt' = spoilt
    BY Zenon, <1>1, <1>2, TypeSame, EndTyped
  <1>4. /\ pc' = "idle" /\ data' = << >> /\ action' \in {"None", "Close"}
        /\ UNCHANGED <<protocol, sent, workerQueue, busy, got>>
    BY DEF DataMore, DataError
  <1>5. data' \in Seq(Cell)
    BY <1>4, EmptySeq
  <1> QED
    BY Zenon, <1>2, <1>3, <1>4, <1>5, TypeSame, TypeFold

\* The loop's close and the workers keep the types.
LEMMA TypeWorker ==
    ASSUME TypeInv, loopAction \/ Worker
    PROVE  TypeInv'
  <1>1. CASE loopAction
    BY Zenon, <1>1, TypeSame, TypeFold DEF loopAction
  <1>2. CASE WorkerTake
    <2>1. /\ Head(workerQueue) \in 1..Count /\ Tail(workerQueue) \in Seq(1..Count)
          /\ Len(Tail(workerQueue)) = Len(workerQueue) - 1
      BY Zenon, <1>2, TypeSame, HeadTailProperties DEF WorkerTake
    <2>2. Len(workerQueue) \in Nat
      BY TypeSame, LenProperties
    <2>3. busy' \in 0..Count
      BY <1>2, <2>1 DEF WorkerTake
    <2>4. workerQueue' \in Seq(1..Count) /\ Len(workerQueue') <= QueueCap
      BY SMTT(30), <1>2, <2>1, <2>2, TypeSame, ConstAssumption DEF WorkerTake
    <2> QED
      BY Zenon, <1>2, <2>3, <2>4, TypeSame, TypeFold DEF WorkerTake
  <1>3. CASE WorkerDone
    <2>1. busy \in 1..Count
      BY <1>3, TypeSame, ConstAssumption DEF WorkerDone
    <2>2. got' \in Seq(1..Count)
      BY <1>3, <2>1, TypeSame, AppendProperties DEF WorkerDone
    <2>3. PICK l : l = {x \in is.lent : x[1] # busy}
      BY ZenonT(60)
    <2>4. is.lent \in Lent
      BY TypeSame DEF Stream, Lent
    <2>5. l \in Lent /\ (is.lent = {} => l = {})
      BY <2>3, <2>4 DEF Lent
    <2>6. is' = [is EXCEPT !.lent = l]
      BY <1>3, <2>3 DEF WorkerDone
    <2>7. /\ is' = [b |-> is.b, cap |-> is.cap, lent |-> l]
          /\ is.b \in Seq(Cell) /\ is.cap \in Nat
      <3>1. << >> \in Seq(Cell)
        BY EmptySeq
      <3> QED
        BY Zenon, <2>5, <2>6, <3>1, TypeSame, StreamSet
    <2>8. is' \in Stream /\ is'.b = is.b /\ is'.cap = is.cap /\ is'.lent = l
      BY <2>5, <2>7, StreamMade
    <2>9. busy' \in 0..Count
      BY <1>3, ConstAssumption DEF WorkerDone
    <2> QED
      BY Zenon, <1>3, <2>2, <2>5, <2>8, <2>9, TypeSame, TypeFold DEF WorkerDone
  <1> QED
    BY Zenon, <1>1, <1>2, <1>3 DEF Worker

\* The types hold at the start.
LEMMA TypeInit ==
    ASSUME Init
    PROVE  TypeInv
  <1>1. Len(<< >>) = 0 /\ << >> \in Seq(Cell) /\ << >> \in Seq(1..Count)
    BY EmptySeq
  <1>2. {} \in Lent /\ 0 \in Nat
    BY DEF Lent
  <1>3. /\ is \in Stream /\ is.b = << >> /\ is.cap = 0 /\ is.lent = {}
    BY Zenon, <1>1, <1>2, StreamMade DEF Init, NilStream
  <1>4. 0 \in 0..(Count * MsgLen) /\ 0 \in 0..Count /\ 0 <= QueueCap
    <2>1. Count * MsgLen \in Nat
      BY ConstAssumption, Sizes DEF Init
    <2> QED
      BY <2>1, ConstAssumption
  <1> QED
    BY <1>1, <1>3, <1>4 DEF Init, TypeInv, TypeOK

\* Every step keeps the types.
LEMMA TypeStep ==
    ASSUME TypeInv, [Next]_vars
    PROVE  TypeInv'
  <1>1. CASE Next
    BY Zenon, <1>1, TypeBegin, TypeReady, TypeEnd, TypeWorker DEF Next, Handler
  <1>2. CASE UNCHANGED vars
    BY <1>2, TypeSame, TypeFold DEF vars
  <1> QED
    BY <1>1, <1>2

\* Whatever the protocols, the segments and the malformed messages, the handler
\* works on cells of the peer's stream, InputStream.b stays within its capacity
\* and the queue within QueueCap.
THEOREM FramingTyped == Spec => []TypeOK
  <1>1. Init => TypeInv
    BY TypeInit
  <1>2. TypeInv /\ [Next]_vars => TypeInv'
    BY TypeStep
  <1>3. TypeInv => TypeOK
    BY DEF TypeInv
  <1> QED
    BY <1>1, <1>2, <1>3, PTL DEF Spec

\* The agent and http handlers never write over a message that a worker has not
\* read yet: they give up is.b before they cut messages out of it.
THEOREM ParamIsIntact == Spec => []ParamIntact
  <1>1. Init => TypeInv
    BY TypeInit
  <1>2. TypeInv /\ [Next]_vars => TypeInv'
    BY TypeStep
  <1>3. TypeInv => ParamIntact
    BY DEF TypeInv, ParamIntact
  <1> QED
    BY <1>1, <1>2, <1>3, PTL DEF Spec

-----------------------------------------------------------------------------
(* Segments of the stream.                                                  *)

\* A segment joined to the one before it is a segment.
LEMMA SegmentJoin ==
    ASSUME protocol \in Protocols, NEW f \in Nat, NEW u \in f..(Count * MsgLen),
           NEW t \in f..u
    PROVE  Segment(f, t) \o Segment(t, u) = Segment(f, u)
  <1>1. Count * MsgLen \in Nat
    BY ConstAssumption, Sizes
  <1>2. t \in f..(Count * MsgLen) /\ t \in Nat /\ u \in t..(Count * MsgLen) /\ u \in Nat
    BY <1>1
  <1>3. /\ Segment(f, t) \in Seq(Cell) /\ Len(Segment(f, t)) = t - f
        /\ \A i \in 1..(t - f) : Segment(f, t)[i] = StreamCell(f + i)
    BY Zenon, <1>2, SegmentIs
  <1>4. /\ Segment(t, u) \in Seq(Cell) /\ Len(Segment(t, u)) = u - t
        /\ \A i \in 1..(u - t) : Segment(t, u)[i] = StreamCell(t + i)
    BY <1>2, SegmentIs
  <1>5. /\ Segment(f, u) \in Seq(Cell) /\ Len(Segment(f, u)) = u - f
        /\ \A i \in 1..(u - f) : Segment(f, u)[i] = StreamCell(f + i)
    BY SegmentIs
  <1>6. PICK a : a = Segment(f, t)
    OBVIOUS
  <1>7. PICK b : b = Segment(t, u)
    OBVIOUS
  <1>8. /\ a \o b \in Seq(Cell) /\ Len(a \o b) = (t - f) + (u - t)
        /\ \A i \in 1..((t - f) + (u - t)) :
             (a \o b)[i] = IF i <= t - f THEN a[i] ELSE b[i - (t - f)]
    <2>1. a \in Seq(Cell) /\ b \in Seq(Cell) /\ Len(a) = t - f /\ Len(b) = u - t
      BY SMTT(30), <1>3, <1>4, <1>6, <1>7
    <2>2. /\ a \o b \in Seq(Cell) /\ Len(a \o b) = Len(a) + Len(b)
          /\ \A i \in 1..(Len(a) + Len(b)) :
               (a \o b)[i] = IF i <= Len(a) THEN a[i] ELSE b[i - Len(a)]
      BY Zenon, <2>1, ConcatProperties
    <2> QED BY Zenon, <2>1, <2>2
  <1>9. (t - f) + (u - t) = u - f
    BY <1>2
  <1>10. \A i \in 1..(u - f) : (a \o b)[i] = Segment(f, u)[i]
    <2>1. TAKE i \in 1..(u - f)
    <2>2. CASE i <= t - f
      BY <1>2, <1>3, <1>5, <1>6, <1>8, <1>9, <2>2
    <2>3. CASE ~(i <= t - f)
      <3>1. i - (t - f) \in 1..(u - t) /\ t + (i - (t - f)) = f + i
        BY <1>2, <2>3
      <3> QED
        BY SMTT(30), <1>4, <1>5, <1>7, <1>8, <1>9, <2>3, <3>1
    <2> QED
      BY Zenon, <2>2, <2>3
  <1>11. a \o b = Segment(f, u)
    BY Zenon, <1>5, <1>8, <1>9, <1>10, SeqEqual
  <1> QED
    BY <1>6, <1>7, <1>11

\* The rest of a segment is a segment.
LEMMA SegmentDrop ==
    ASSUME protocol \in Protocols, NEW f \in Nat, NEW t \in f..(Count * MsgLen),
           NEW n \in 0..(t - f)
    PROVE  Drop(Segment(f, t), n) = Segment(f + n, t)
  <1>1. Count * MsgLen \in Nat
    BY ConstAssumption, Sizes
  <1>2. f + n \in Nat /\ t \in (f + n)..(Count * MsgLen) /\ t - (f + n) = (t - f) - n
    BY <1>1
  <1>3. /\ Segment(f, t) \in Seq(Cell) /\ Len(Segment(f, t)) = t - f
        /\ \A i \in 1..(t - f) : Segment(f, t)[i] = StreamCell(f + i)
    BY SegmentIs
  <1>4. /\ Segment(f + n, t) \in Seq(Cell)
        /\ Len(Segment(f + n, t)) = t - (f + n)
        /\ \A i \in 1..(t - (f + n)) : Segment(f + n, t)[i] = StreamCell((f + n) + i)
    BY <1>2, SegmentIs
  <1>5. PICK a : a = Segment(f, t)
    OBVIOUS
  <1>6. /\ Drop(a, n) \in Seq(Cell) /\ Len(Drop(a, n)) = (t - f) - n
        /\ \A i \in 1..((t - f) - n) : Drop(a, n)[i] = a[n + i]
    <2>1. a \in Seq(Cell) /\ Len(a) = t - f /\ n \in 0..Len(a)
      BY <1>3, <1>5
    <2>2. /\ Drop(a, n) \in Seq(Cell) /\ Len(Drop(a, n)) = Len(a) - n
          /\ \A i \in 1..(Len(a) - n) : Drop(a, n)[i] = a[n + i]
      BY Zenon, <2>1, DropIs
    <2> QED
      BY Zenon, <2>1, <2>2
  <1>7. \A i \in 1..((t - f) - n) : Drop(a, n)[i] = Segment(f + n, t)[i]
    <2>1. TAKE i \in 1..((t - f) - n)
    <2>2. n + i \in 1..(t - f) /\ f + (n + i) = (f + n) + i
      BY <1>1
    <2> QED
      BY Zenon, <1>2, <1>3, <1>4, <1>5, <1>6, <2>2
  <1>8. Drop(a, n) = Segment(f + n, t)
    BY Zenon, <1>2, <1>4, <1>6, <1>7, SeqEqual
  <1> QED
    BY <1>5, <1>8

\* The j-th cell after k whole messages is the j-th of the next one.
LEMMA CellAt ==
    ASSUME protocol \in Protocols, NEW k \in Nat, NEW j \in 1..MsgLen
    PROVE  StreamCell(k * MsgLen + j) = <<k + 1, j>>
  <1>1. MsgLen \in {4, 6}
    BY Sizes
  <1>2. CASE MsgLen = 6
    <2>1. (((k * 6 + j) - 1) \div 6) + 1 = k + 1 /\ (((k * 6 + j) - 1) % 6) + 1 = j
      BY <1>2
    <2> QED
      BY <1>2, <2>1 DEF StreamCell
  <1>3. CASE MsgLen = 4
    <2>1. (((k * 4 + j) - 1) \div 4) + 1 = k + 1 /\ (((k * 4 + j) - 1) % 4) + 1 = j
      BY <1>3
    <2> QED
      BY <1>3, <2>1 DEF StreamCell
  <1> QED
    BY <1>1, <1>2, <1>3

-----------------------------------------------------------------------------
(* The parsers, on the stream from the end of a message or of a field.      *)

\* Nothing is consumed, or the first fields of the next message, or exactly it,
\* and then it is well-formed.
Exact(r, k, p, t) ==
    /\ r.status = "more" =>
         \E c \in Lost : k * MsgLen + c \in p..t /\ r.left = Segment(k * MsgLen + c, t)
    /\ r.status = "ready" =>
         /\ r.msg = k + 1 /\ k + 1 \notin Bad /\ p = k * MsgLen /\ (k + 1) * MsgLen <= t
         /\ r.left = Segment((k + 1) * MsgLen, t)

\* The ways to return exactly.
LEMMA ExactReturns ==
    ASSUME protocol \in Protocols, NEW k \in Nat, NEW c \in Lost, NEW p \in Nat,
           p = k * MsgLen + c, NEW t \in p..(Count * MsgLen), NEW d, d = Segment(p, t)
    PROVE  /\ Exact(NotReady(d), k, p, t) /\ Exact(Broken(d), k, p, t)
           /\ c = 0 /\ (k + 1) * MsgLen <= t /\ k + 1 \notin Bad =>
                Exact(Ready(Drop(d, MsgLen), k + 1), k, p, t)
           /\ \A e \in Lost : c = 0 /\ p + e <= t => Exact(NotReady(Drop(d, e)), k, p, t)
  <1>1. MsgLen \in {4, 6} /\ c \in Nat
    BY Sizes DEF Lost
  <1>2. Count * MsgLen \in Nat /\ k * MsgLen \in Nat
    BY <1>1, ConstAssumption
  <1>3. Exact(NotReady(d), k, p, t)
    <2>1. k * MsgLen + c \in p..t
      BY <1>2
    <2>2. NotReady(d).status = "more" /\ NotReady(d).left = Segment(k * MsgLen + c, t)
      BY DEF NotReady
    <2> QED
      BY <2>1, <2>2 DEF Exact
  <1>4. Exact(Broken(d), k, p, t)
    BY DEF Exact, Broken
  <1>5. ASSUME c = 0, (k + 1) * MsgLen <= t, k + 1 \notin Bad
        PROVE  Exact(Ready(Drop(d, MsgLen), k + 1), k, p, t)
    <2>1. p = k * MsgLen /\ (k + 1) * MsgLen = p + MsgLen
      BY SMTT(30), <1>1, <1>2, <1>5
    <2>2. MsgLen \in 0..(t - p)
      BY SMTT(30), <1>1, <1>2, <1>5, <2>1
    <2>3. Drop(d, MsgLen) = Segment((k + 1) * MsgLen, t)
      BY Zenon, <2>1, <2>2, SegmentDrop
    <2> QED
      BY Zenon, <1>5, <2>1, <2>3 DEF Exact, Ready
  <1>6. ASSUME NEW e \in Lost, c = 0, p + e <= t
        PROVE  Exact(NotReady(Drop(d, e)), k, p, t)
    <2>1. e \in Nat /\ k * MsgLen + e = p + e
      BY <1>2, <1>6 DEF Lost
    <2>2. e \in 0..(t - p) /\ k * MsgLen + e \in p..t
      BY <1>2, <1>6, <2>1
    <2>3. Drop(d, e) = Segment(k * MsgLen + e, t)
      BY Zenon, <2>1, <2>2, SegmentDrop
    <2>4. NotReady(Drop(d, e)).status = "more" /\ NotReady(Drop(d, e)).left = Drop(d, e)
      BY Zenon DEF NotReady
    <2> QED
      BY Zenon, <2>2, <2>3, <2>4 DEF Exact
  <1> QED
    BY Zenon, <1>3, <1>4, <1>5, <1>6

\* The length of what is unprocessed, and its first cells.
LEMMA Rest ==
    ASSUME protocol \in Protocols, NEW k \in Nat, NEW c \in Lost, NEW p \in Nat,
           p = k * MsgLen + c, NEW t \in p..(Count * MsgLen), p < t
    PROVE  /\ Segment(p, t) \in Seq(Cell) /\ Len(Segment(p, t)) = t - p
           /\ Segment(p, t)[1] = <<k + 1, c + 1>>
           /\ p + 2 <= t => Segment(p, t)[2] = <<k + 1, c + 2>>
  <1>1. MsgLen = (IF protocol = "agent" THEN 6 ELSE 4) /\ c \in Nat
    BY Sizes DEF Lost
  <1>2. Count * MsgLen \in Nat /\ k * MsgLen \in Nat
    BY <1>1, ConstAssumption
  <1>3. c + 1 \in 1..MsgLen /\ c + 2 \in 1..MsgLen
    BY <1>1 DEF Lost
  <1>4. p + 1 = k * MsgLen + (c + 1) /\ p + 2 = k * MsgLen + (c + 2)
    BY <1>1, <1>2
  <1>5. StreamCell(p + 1) = <<k + 1, c + 1>> /\ StreamCell(p + 2) = <<k + 1, c + 2>>
    BY <1>3, <1>4, CellAt
  <1>6. /\ Segment(p, t) \in Seq(Cell) /\ Len(Segment(p, t)) = t - p
        /\ \A i \in 1..(t - p) : Segment(p, t)[i] = StreamCell(p + i)
    BY Zenon, SegmentIs
  <1>7. 1 \in 1..(t - p) /\ (p + 2 <= t => 2 \in 1..(t - p))
    BY SMTT(30), <1>2
  <1> QED
    BY Zenon, <1>5, <1>6, <1>7

\* parseAgentReq takes exactly the next request, or the fields of it that have
\* arrived; once it has lost a header it never finds another.
LEMMA AgentExact ==
    ASSUME protocol = "agent", protocol \in Protocols, NEW k \in Nat, NEW c \in Lost,
           NEW p \in Nat, p = k * MsgLen + c, NEW t \in p..(Count * MsgLen), p < t
    PROVE  Exact(parseAgentReq(Segment(p, t)), k, p, t)
  <1>1. PICK d : d = Segment(p, t)
    OBVIOUS
  <1> DEFINE fields == {i \in DOMAIN FieldEnds : FieldEnds[i] <= Len(d)}
             top    == CHOOSE i \in fields : \A j \in fields : j <= i
  <1>2. MsgLen = 6 /\ FieldEnds = <<2, 3, 4, 6>>
    BY Sizes DEF FieldEnds
  <1>3. Count * MsgLen \in Nat /\ t \in Nat /\ c \in Nat
    BY <1>2, ConstAssumption DEF Lost
  <1>4. d[1] = <<k + 1, c + 1>> /\ Len(d) = t - p /\ d \in Seq(Cell)
    BY ZenonT(60), <1>1, Rest
  <1>5. Len(d) \in Nat \ {0} /\ d[1][1] = k + 1 /\ d[1][2] = c + 1
    BY <1>3, <1>4
  <1>6. CASE fields = {}
    <2>1. parseAgentReq(d) = NotReady(d)
      BY <1>6 DEF parseAgentReq
    <2> QED
      BY <1>1, <2>1, ExactReturns
  <1>7. CASE fields # {} /\ (c # 0 \/ k + 1 \in Bad)
    <2>1. d[1][2] # 1 \/ d[1][1] \in Bad
      BY SMTT(30), <1>3, <1>5, <1>7
    <2>2. parseAgentReq(d) = Broken(d)
      BY Zenon, <1>7, <2>1 DEF parseAgentReq
    <2> QED
      BY Zenon, <1>1, <2>2, ExactReturns
  <1>8. CASE fields # {} /\ c = 0 /\ k + 1 \notin Bad /\ fields = DOMAIN FieldEnds
    <2>1. 4 \in fields
      BY <1>2, <1>8
    <2>2. 6 <= Len(d)
      BY <1>2, <2>1
    <2>3. (k + 1) * MsgLen <= t
      BY SMTT(30), <1>2, <1>3, <1>4, <1>8, <2>2
    <2>4. parseAgentReq(d) = Ready(Drop(d, MsgLen), k + 1)
      BY SMTT(30), <1>5, <1>8 DEF parseAgentReq
    <2> QED
      BY Zenon, <1>1, <1>8, <2>3, <2>4, ExactReturns
  <1>9. CASE fields # {} /\ c = 0 /\ k + 1 \notin Bad /\ fields # DOMAIN FieldEnds
    <2>1. fields \subseteq {1, 2, 3}
      BY SMTT(30), <1>2, <1>5, <1>9
    <2>2. \E i \in fields : \A j \in fields : j <= i
      <3>1. CASE 3 \in fields
        BY <2>1, <3>1
      <3>2. CASE 3 \notin fields /\ 2 \in fields
        BY SMTT(30), <2>1, <3>2
      <3>3. CASE 3 \notin fields /\ 2 \notin fields
        <4>1. fields \subseteq {1}
          BY <2>1, <3>3
        <4>2. \A i \in fields : i = 1
          BY <4>1
        <4>3. \A i, j \in fields : j <= i
          <5> HIDE DEF fields
          <5> QED
            BY <4>2
        <4> QED
          BY <1>9, <4>3
      <3> QED
        BY <3>1, <3>2, <3>3
    <2>3. top \in fields
      BY <2>2
    <2>4. PICK e : e = FieldEnds[top]
      BY Zenon
    <2>5. e \in {2, 3, 4} /\ e <= Len(d)
      <3>1. \A i \in fields : FieldEnds[i] \in {2, 3, 4} /\ FieldEnds[i] <= Len(d)
        BY <1>2, <2>1
      <3> HIDE DEF top
      <3> QED
        BY SMTT(30), <2>3, <2>4, <3>1
    <2>6. e \in Lost /\ p + e <= t
      BY SMTT(30), <1>3, <1>4, <2>5 DEF Lost
    <2>7. parseAgentReq(d) = NotReady(Drop(d, e))
      BY <1>5, <1>9, <2>4 DEF parseAgentReq
    <2> QED
      BY SMTT(30), <1>1, <1>9, <2>6, <2>7, ExactReturns
  <1> QED
    BY Zenon, <1>1, <1>6, <1>7, <1>8, <1>9

\* Where no segment ends in a body, the first blank line parsereq finds is the
\* one of the next request, and its body is there.
LEMMA HttpExact ==
    ASSUME protocol = "http", protocol \in Protocols, NEW k \in Nat, NEW c \in Lost,
           NEW p \in Nat, p = k * MsgLen + c, NEW t \in p..(Count * MsgLen), p < t,
           ~InBody(t)
    PROVE  Exact(parsereq(Segment(p, t)), k, p, t)
  <1>1. PICK d : d = Segment(p, t)
    OBVIOUS
  <1> DEFINE ends == {i \in 2..Len(d) : d[i][2] = HeadLen}
             e    == CHOOSE i \in ends : \A j \in ends : i <= j
  <1>2. MsgLen = 4 /\ HeadLen = 2 /\ c = 0
    BY Sizes DEF HeadLen, Lost
  <1>3. t \in Nat /\ p = k * 4 /\ t % 4 < 2
    <2>1. Count * 4 \in Nat
      BY ConstAssumption
    <2> QED
      BY <1>2, <2>1 DEF InBody
  <1>4. Len(d) = t - p /\ (p + 2 <= t => d[2] = <<k + 1, c + 2>>)
    BY ZenonT(60), <1>1, Rest
  <1>5. Len(d) = 1 \/ Len(d) >= 4
    BY <1>3, <1>4
  <1>6. Len(d) \in Nat
    BY SMTT(30), <1>3, <1>4
  <1>7. CASE Len(d) = 1
    <2>1. ends = {}
      BY SMTT(30), <1>7
    <2>2. parsereq(d) = NotReady(d)
      BY <2>1 DEF parsereq
    <2> QED
      BY Zenon, <1>1, <2>2, ExactReturns
  <1>8. CASE Len(d) >= 4
    <2>1. d[2] = <<k + 1, 2>>
      BY SMTT(30), <1>2, <1>3, <1>4, <1>8
    <2>2. 2 \in ends /\ \A j \in ends : 2 <= j
      BY SMTT(30), <1>2, <1>6, <1>8, <2>1
    <2>3. e \in ends /\ \A j \in ends : e <= j
      <3> HIDE DEF ends
      <3>1. \E i \in ends : \A j \in ends : i <= j
        BY <2>2
      <3> QED
        BY <3>1
    <2>4. \A i \in ends : i \in 2..Len(d)
      OBVIOUS
    <2>5. e = 2
      <3> HIDE DEF e, ends
      <3> QED
        BY SMTT(30), <1>6, <2>2, <2>3, <2>4
    <2>6. ends # {}
      BY <2>2
    <2>7. ~(Len(d) - e < MsgLen - HeadLen) /\ e + (MsgLen - HeadLen) = MsgLen
      <3> HIDE DEF e
      <3> QED
        BY SMTT(30), <1>2, <1>6, <1>8, <2>5
    <2>8. d[e][1] = k + 1
      <3> HIDE DEF e
      <3> QED
        BY SMTT(30), <2>1, <2>5
    <2>9. CASE k + 1 \in Bad
      <3>1. parsereq(d) = Broken(d)
        BY Zenon, <2>6, <2>7, <2>8, <2>9 DEF parsereq
      <3> QED
        BY Zenon, <1>1, <3>1, ExactReturns
    <2>10. CASE k + 1 \notin Bad
      <3>1. parsereq(d) = Ready(Drop(d, e + (MsgLen - HeadLen)), d[e][1])
        BY Zenon, <2>6, <2>7, <2>8, <2>10 DEF parsereq
      <3>2. parsereq(d) = Ready(Drop(d, MsgLen), k + 1)
        <4> HIDE DEF e
        <4> QED
          BY Zenon, <2>7, <2>8, <3>1
      <3>3. (k + 1) * MsgLen <= t
        BY SMTT(30), <1>2, <1>3, <1>4, <1>8
      <3> QED
        BY SMTT(30), <1>1, <1>2, <2>10, <3>2, <3>3, ExactReturns
    <2> QED
      BY SMTT(30), <2>9, <2>10
  <1> QED
    BY <1>1, <1>5, <1>7, <1>8

\* UnpackResponse takes exactly the next response, however it was cut.
LEMMA DubboExact ==
    ASSUME protocol = "dubbo", protocol \in Protocols, NEW k \in Nat, NEW c \in Lost,
           NEW p \in Nat, p = k * MsgLen + c, NEW t \in p..(Count * MsgLen), p < t
    PROVE  Exact(UnpackResponse(Segment(p, t)), k, p, t)
  <1>1. PICK d : d = Segment(p, t)
    OBVIOUS
  <1>2. MsgLen = 4 /\ HeadLen = 2 /\ Bad = {} /\ c = 0
    BY Sizes DEF HeadLen, Bad, Lost
  <1>3. t \in Nat /\ p = k * 4
    <2>1. Count * 4 \in Nat
      BY ConstAssumption
    <2> QED
      BY <1>2, <2>1
  <1>4. d[1] = <<k + 1, c + 1>> /\ Len(d) = t - p
    BY ZenonT(60), <1>1, Rest
  <1>5. CASE Len(d) < HeadLen \/ Len(d) < MsgLen
    <2>1. UnpackResponse(d) = NotReady(d)
      BY <1>5 DEF UnpackResponse
    <2> QED
      BY <1>1, <2>1, ExactReturns
  <1>6. CASE ~(Len(d) < HeadLen \/ Len(d) < MsgLen)
    <2>1. UnpackResponse(d) = Ready(Drop(d, MsgLen), d[1][1])
      BY <1>6 DEF UnpackResponse
    <2>2. UnpackResponse(d) = Ready(Drop(d, MsgLen), k + 1)
      BY <1>4, <2>1
    <2>3. (k + 1) * MsgLen <= t
      BY SMTT(30), <1>2, <1>3, <1>4, <1>6
    <2> QED
      BY ZenonT(90), <1>1, <1>2, <2>2, <2>3, ExactReturns
  <1> QED
    BY Zenon, <1>1, <1>5, <1>6

\* Whatever the protocol.
LEMMA ParseExact ==
    ASSUME protocol \in Protocols, NEW k \in Nat, NEW c \in Lost,
           NEW p \in Nat, p = k * MsgLen + c, NEW t \in p..(Count * MsgLen), p < t,
           protocol = "http" => ~InBody(t)
    PROVE  Exact(Parse(Segment(p, t)), k, p, t)
  <1>1. protocol \in {"agent", "http", "dubbo"}
    BY ConstAssumption
  <1>2. CASE protocol = "agent"
    BY <1>2, AgentExact DEF Parse
  <1>3. CASE protocol = "http"
    BY <1>3, HttpExact DEF Parse
  <1>4. CASE protocol = "dubbo"
    BY <1>4, DubboExact DEF Parse
  <1> QED
    BY Zenon, <1>1, <1>2, <1>3, <1>4

-----------------------------------------------------------------------------
(* The order of the messages.                                               *)

\* The number of messages taken is a number.
LEMMA TakenType ==
    ASSUME TypeInv
    PROVE  /\ Taken \in Nat
           /\ Len(got) \in Nat /\ Len(workerQueue) \in Nat
  <1>1. Len(got) \in Nat /\ Len(workerQueue) \in Nat
    BY TypeSame, LenProperties
  <1> QED
    BY <1>1 DEF Taken

\* A message that is queued with the next number keeps the order.
LEMMA QueuePut ==
    ASSUME TypeInv, QueueInv, Taken + 1 \in 1..Count,
           workerQueue' = Append(workerQueue, Taken + 1), UNCHANGED <<busy, got>>
    PROVE  QueueInv' /\ Taken' = Taken + 1
  <1>1. Taken \in Nat /\ Len(got) \in Nat /\ Len(workerQueue) \in Nat
    BY Zenon, TakenType
  <1>2. /\ Len(workerQueue') = Len(workerQueue) + 1
        /\ \A i \in 1..Len(workerQueue) : workerQueue'[i] = workerQueue[i]
        /\ workerQueue'[Len(workerQueue) + 1] = Taken + 1
    BY TypeSame, AppendProperties
  <1>3. PICK h \in Nat : h = IF busy = 0 THEN 0 ELSE 1
    OBVIOUS
  <1>4. Taken = Len(got) + h + Len(workerQueue) /\ Taken' = Len(got) + h + Len(workerQueue')
    BY <1>3 DEF Taken
  <1>5. Taken' = Taken + 1
    <2>1. h \in Nat
      BY Zenon, <1>3
    <2> QED
      BY SMTT(30), <1>1, <1>2, <1>4, <2>1
  <1>6. \A i \in 1..Len(workerQueue') : workerQueue'[i] = Len(got) + h + i
    <2>1. TAKE i \in 1..Len(workerQueue')
    <2>2. CASE i \in 1..Len(workerQueue)
      BY Zenon, <1>2, <1>3, <2>2 DEF QueueInv
    <2>3. CASE i = Len(workerQueue) + 1
      <3>1. h \in Nat
        BY <1>3
      <3>2. Taken + 1 = Len(got) + h + i
        BY SMTT(30), <1>1, <1>4, <2>3, <3>1
      <3> QED
        BY Zenon, <1>2, <2>3, <3>2
    <2> QED
      BY SMTT(30), <1>1, <1>2, <2>2, <2>3
  <1> QED
    BY <1>3, <1>5, <1>6 DEF QueueInv

\* A worker takes the next message, and hands over the one it has.
LEMMA QueueWorker ==
    ASSUME TypeInv, QueueInv, Worker
    PROVE  QueueInv' /\ Taken' = Taken
  <1>1. Taken \in Nat /\ Len(got) \in Nat /\ Len(workerQueue) \in Nat
    BY TakenType
  <1>2. CASE WorkerTake
    <2>1. /\ busy = 0 /\ workerQueue # << >> /\ busy' = Head(workerQueue)
          /\ workerQueue' = Tail(workerQueue) /\ got' = got
      BY Zenon, <1>2 DEF WorkerTake
    <2>2. Len(workerQueue) \in Nat \ {0} /\ Head(workerQueue) = workerQueue[1]
      BY SMTT(30), <2>1, TypeSame, EmptySeq
    <2>3. /\ Len(workerQueue') = Len(workerQueue) - 1
          /\ \A i \in 1..Len(workerQueue') : workerQueue'[i] = workerQueue[i + 1]
      BY Zenon, <2>1, TypeSame, HeadTailProperties
    <2>4. \A i \in 1..Len(workerQueue) : workerQueue[i] = Len(got) + i
      BY SMTT(30), <1>1, <2>1 DEF QueueInv
    <2>5. busy' = Len(got) + 1 /\ busy' # 0
      BY SMTT(30), <1>1, <2>1, <2>2, <2>4
    <2>6. Taken' = Taken
      BY SMTT(30), <1>1, <2>1, <2>2, <2>3, <2>5 DEF Taken
    <2>7. \A i \in 1..Len(workerQueue') : workerQueue'[i] = Len(got) + 1 + i
      <3>1. TAKE i \in 1..Len(workerQueue')
      <3>2. i + 1 \in 1..Len(workerQueue)
        BY <2>2, <2>3
      <3> QED
        BY SMTT(30), <1>1, <2>3, <2>4, <3>2
    <2> QED
      BY Zenon, <2>1, <2>5, <2>6, <2>7 DEF QueueInv
  <1>3. CASE WorkerDone
    <2>1. busy # 0 /\ got' = Append(got, busy) /\ busy' = 0 /\ workerQueue' = workerQueue
      BY Zenon, <1>3 DEF WorkerDone
    <2>2. busy \in 1..Count /\ busy = Len(got) + 1
      BY SMTT(30), <2>1, TypeSame, ConstAssumption DEF QueueInv
    <2>3. /\ Len(got') = Len(got) + 1 /\ got'[Len(got) + 1] = busy
          /\ \A i \in 1..Len(got) : got'[i] = got[i]
      BY SMTT(30), <2>1, <2>2, TypeSame, AppendProperties
    <2>4. Taken' = Taken
      BY SMTT(30), <1>1, <2>1, <2>3 DEF Taken
    <2>5. \A i \in 1..Len(got') : got'[i] = i
      <3>1. TAKE i \in 1..Len(got')
      <3>2. i \in 1..Len(got) \/ i = Len(got) + 1
        BY <1>1, <2>3
      <3> QED
        BY <2>2, <2>3, <3>2 DEF QueueInv
    <2>6. \A i \in 1..Len(workerQueue') : workerQueue'[i] = Len(got') + 0 + i
      BY SMTT(30), <1>1, <2>1, <2>3 DEF QueueInv
    <2> QED
      BY Zenon, <2>1, <2>4, <2>5, <2>6 DEF QueueInv
  <1> QED
    BY <1>2, <1>3 DEF Worker

\* The parts of StreamInv', with k messages taken and what is unprocessed at p.
LEMMA StreamFold ==
    ASSUME protocol \in Protocols, protocol' = protocol,
           NEW k \in Nat, Taken' = k, NEW c \in Lost, NEW p \in 0..sent', p = k * MsgLen + c,
           protocol = "http" => ~InBody(sent'),
           pc' = "parse" =>
             /\ data' = Segment(p, sent')
             /\ is'.b # << >> => \E f \in 0..p : is'.b = Segment(f, sent'),
           pc' # "parse" => is'.b = Segment(p, sent'),
           \A b \in Bad : k < b
    PROVE  StreamInv'
  <1>1. MsgLen' = MsgLen /\ Bad' = Bad /\ Lost' = Lost
    BY Zenon DEF MsgLen, FieldEnds, Bad, Lost
  <1>2. StreamAt(p)'
    BY Zenon, <1>1 DEF StreamAt, Segment, StreamCell
  <1>3. (protocol = "http" => ~InBody(sent))' /\ (\A b \in Bad : Taken < b)'
    BY Zenon, <1>1 DEF InBody, HeadLen
  <1>4. (\E e \in Lost, q \in 0..sent : q = Taken * MsgLen + e /\ StreamAt(q))'
    BY Zenon, <1>1, <1>2
  <1> QED
    BY Zenon, <1>3, <1>4 DEF StreamInv

\* The parts of StreamInv, with k messages taken and what is unprocessed at p.
LEMMA StreamFacts ==
    ASSUME TypeInv, StreamInv, NEW k, k = Taken
    PROVE  \E c \in Lost, p \in Nat :
           /\ k \in Nat /\ sent \in Nat /\ p = k * MsgLen + c /\ p <= sent
           /\ Count * MsgLen \in Nat /\ sent \in p..(Count * MsgLen)
           /\ protocol = "http" => ~InBody(sent)
           /\ pc = "parse" =>
                /\ data = Segment(p, sent)
                /\ is.b # << >> => \E f \in 0..p : is.b = Segment(f, sent)
           /\ pc # "parse" => is.b = Segment(p, sent)
           /\ \A b \in Bad : k < b
  <1>1. k \in Nat
    BY Zenon, TakenType
  <1>2. MsgLen \in {4, 6} /\ sent \in 0..(Count * MsgLen)
    BY Zenon, TypeSame, Sizes
  <1>3. PICK c \in Lost, p \in 0..sent : p = k * MsgLen + c /\ StreamAt(p)
    BY DEF StreamInv
  <1>4. Count * MsgLen \in Nat
    BY SMTT(30), <1>2, ConstAssumption
  <1>5. sent \in Nat /\ p \in Nat /\ p <= sent /\ sent \in p..(Count * MsgLen)
    BY SMTT(30), <1>2, <1>3, <1>4
  <1>6. /\ pc = "parse" =>
             /\ data = Segment(p, sent)
             /\ is.b # << >> => \E f \in 0..p : is.b = Segment(f, sent)
        /\ pc # "parse" => is.b = Segment(p, sent)
    BY <1>3 DEF StreamAt
  <1>7. (protocol = "http" => ~InBody(sent)) /\ \A b \in Bad : k < b
    BY Zenon DEF StreamInv
  <1> QED
    BY Zenon, <1>1, <1>3, <1>4, <1>5, <1>6, <1>7

\* A segment is joined where the stream was left off.
LEMMA StreamBegin ==
    ASSUME WholeHttp, TypeInv, StreamInv, DataBegin
    PROVE  StreamInv'
  <1>1. PICK k : k = Taken
    OBVIOUS
  <1>2. PICK c \in Lost, p \in Nat :
        /\ k \in Nat /\ sent \in Nat /\ p = k * MsgLen + c /\ p <= sent
        /\ Count * MsgLen \in Nat
        /\ pc # "parse" => is.b = Segment(p, sent)
        /\ \A b \in Bad : k < b
    BY Zenon, <1>1, StreamFacts
  <1>3. PICK to \in (sent + 1)..(Count * MsgLen) :
          /\ InBody(to) => protocol \in CutBodies
          /\ Begin(Segment(sent, to)) /\ sent' = to
    BY DEF DataBegin
  <1>4. /\ pc = "idle" /\ pc' = "parse" /\ Taken' = k
        /\ UNCHANGED protocol
    BY Zenon, <1>1 DEF DataBegin, Taken
  <1>5. protocol \in Protocols
    BY Zenon, TypeSame
  <1>6. /\ to \in p..(Count * MsgLen) /\ sent \in p..to
        /\ to \in sent..(Count * MsgLen) /\ p \in 0..to
    BY SMTT(30), <1>2, <1>3
  <1>7. Segment(sent, to) \in Seq(Cell)
    BY Zenon, <1>2, <1>5, <1>6, SegmentIs
  <1>8. /\ data' = is.b \o Segment(sent, to)
        /\ is'.b = << >> \/ is'.b = data'
    BY Zenon, <1>3, <1>7, BeginTyped
  <1>9. data' = Segment(p, to)
    BY Zenon, <1>2, <1>4, <1>5, <1>6, <1>8, SegmentJoin
  <1>10. p \in 0..p
    BY <1>2
  <1>11. is'.b # << >> => \E f \in 0..p : is'.b = Segment(f, to)
    BY Zenon, <1>8, <1>9, <1>10
  <1>12. protocol = "http" => ~InBody(to)
    BY <1>3 DEF WholeHttp
  <1> QED
    BY Zenon, <1>2, <1>3, <1>4, <1>5, <1>6, <1>9, <1>11, <1>12, StreamFold

\* The message cut out is the next one, and the rest starts after it.
LEMMA StreamReady ==
    ASSUME TypeInv, QueueInv, StreamInv, DataReady
    PROVE  QueueInv' /\ StreamInv'
  <1>1. PICK k : k = Taken
    OBVIOUS
  <1>2. PICK c \in Lost, p \in Nat :
        /\ k \in Nat /\ sent \in Nat /\ p = k * MsgLen + c /\ p <= sent
        /\ sent \in p..(Count * MsgLen)
        /\ protocol = "http" => ~InBody(sent)
        /\ pc = "parse" =>
             /\ data = Segment(p, sent)
             /\ is.b # << >> => \E f \in 0..p : is.b = Segment(f, sent)
        /\ \A b \in Bad : k < b
    BY <1>1, StreamFacts
  <1>3. /\ pc = "parse" /\ pc' = "parse" /\ data # << >>
        /\ Parse(data).status = "ready"
        /\ workerQueue' = Append(workerQueue, Parse(data).msg)
        /\ data' = Parse(data).left
        /\ UNCHANGED <<protocol, sent, busy, got>>
    BY Zenon DEF DataReady
  <1>4. protocol \in Protocols /\ data \in Seq(Cell)
    BY Zenon, TypeSame
  <1>5. p < sent
    <2>1. Len(data) = sent - p
      BY Zenon, <1>2, <1>3, <1>4, SegmentIs
    <2>2. Len(data) \in Nat \ {0}
      BY Zenon, <1>3, <1>4, EmptySeq
    <2> QED
      BY SMTT(30), <1>2, <2>1, <2>2
  <1>6. Exact(Parse(Segment(p, sent)), k, p, sent)
    BY Zenon, <1>2, <1>4, <1>5, ParseExact
  <1>7. Exact(Parse(data), k, p, sent)
    BY Zenon, <1>2, <1>3, <1>6
  <1>8. /\ Parse(data).msg = k + 1 /\ k + 1 \notin Bad /\ p = k * MsgLen
        /\ (k + 1) * MsgLen <= sent
        /\ data' = Segment((k + 1) * MsgLen, sent)
    BY Zenon, <1>3, <1>7 DEF Exact
  <1>9. k + 1 \in 1..Count
    <2>1. Outcome(Parse(data), data)
      BY Zenon, <1>3, <1>4, ParseTyped
    <2> QED
      BY Zenon, <1>3, <1>8, <2>1 DEF Outcome
  <1>10. QueueInv' /\ Taken' = k + 1
    BY Zenon, <1>1, <1>3, <1>8, <1>9, QueuePut
  <1>11. \A b \in Bad : k + 1 < b
    <2>1. \A b \in Malformed : b \in Int
      BY ConstAssumption
    <2>2. Bad \subseteq Malformed
      BY DEF Bad
    <2> QED
      BY SMTT(30), <1>2, <1>8, <2>1, <2>2
  <1>12. is'.b # << >> => is'.b = is.b
    <2>1. CASE Turn.b = << >>
      BY <2>1 DEF DataReady
    <2>2. CASE Turn.b # << >>
      <3>1. Turn = is
        BY Zenon, <2>2, TurnTyped
      <3>2. PICK l : is' = [is EXCEPT !.lent = l]
        BY Zenon, <2>2, <3>1 DEF DataReady
      <3>3. is \in Stream
        BY Zenon, TypeSame
      <3> QED
        BY Zenon, <3>2, <3>3 DEF Stream
    <2> QED
      BY Zenon, <2>1, <2>2
  <1>13. MsgLen \in Nat /\ (k + 1) * MsgLen = p + MsgLen
    <2>1. MsgLen \in {4, 6}
      BY Zenon, <1>4, Sizes
    <2> QED
      BY SMTT(30), <1>2, <1>8, <2>1
  <1>14. PICK q \in Nat : q = p + MsgLen
    BY SMTT(30), <1>2, <1>13
  <1>15. is'.b # << >> => \E f \in 0..q : is'.b = Segment(f, sent)
    <2>1. \A f \in 0..p : f \in 0..q
      BY SMTT(30), <1>2, <1>13, <1>14
    <2> QED
      BY Zenon, <1>2, <1>3, <1>12, <2>1
  <1>16. k + 1 \in Nat /\ 0 \in Lost /\ q = (k + 1) * MsgLen + 0 /\ q \in 0..sent
    BY SMTT(30), <1>2, <1>8, <1>13, <1>14 DEF Lost
  <1>17. StreamInv'
    BY Zenon, <1>2, <1>3, <1>4, <1>8, <1>10, <1>11, <1>13, <1>14, <1>15, <1>16, StreamFold
  <1> QED
    BY <1>10, <1>17

\* What is kept is exactly what is unprocessed: a buffer as long as it is the
\* same segment.
LEMMA StreamEnd ==
    ASSUME TypeInv, StreamInv, DataMore \/ DataError
    PROVE  StreamInv'
  <1>1. PICK k : k = Taken
    BY Zenon
  <1>2. PICK c \in Lost, p \in Nat :
        /\ k \in Nat /\ sent \in Nat /\ p = k * MsgLen + c /\ p <= sent
        /\ Count * MsgLen \in Nat /\ sent \in p..(Count * MsgLen)
        /\ protocol = "http" => ~InBody(sent)
        /\ pc = "parse" =>
             /\ data = Segment(p, sent)
             /\ is.b # << >> => \E f \in 0..p : is.b = Segment(f, sent)
        /\ \A b \in Bad : k < b
    BY Zenon, <1>1, StreamFacts
  <1>3. /\ pc = "parse" /\ pc' = "idle" /\ Taken' = k
        /\ UNCHANGED <<protocol, sent>>
    BY Zenon, <1>1 DEF DataMore, DataError, Taken
  <1>4. protocol \in Protocols /\ data \in Seq(Cell)
    BY SMTT(30), TypeSame
  <1>5. Len(data) = sent - p
    BY Zenon, <1>2, <1>3, <1>4, SegmentIs
  <1>6. \E e \in Lost : k * MsgLen + e \in p..sent /\ End(Turn, Segment(k * MsgLen + e, sent))
    <2>1. p \in p..sent
      BY SMTT(30), <1>2
    <2>2. CASE data = << >>
      BY Zenon, <1>2, <1>3, <2>1, <2>2 DEF DataMore, DataError
    <2>3. CASE data # << >> /\ Parse(data).status = "more"
      <3>1. Len(data) \in Nat \ {0}
        BY Zenon, <1>4, <2>3, EmptySeq
      <3>2. p < sent
        BY SMTT(30), <1>2, <1>5, <3>1
      <3>3. Exact(Parse(Segment(p, sent)), k, p, sent)
        BY Zenon, <1>2, <1>4, <3>2, ParseExact
      <3>4. Exact(Parse(data), k, p, sent)
        BY Zenon, <1>2, <1>3, <3>3
      <3>5. \E e \in Lost : /\ k * MsgLen + e \in p..sent
                            /\ Parse(data).left = Segment(k * MsgLen + e, sent)
        BY Zenon, <2>3, <3>4 DEF Exact
      <3>6. End(Turn, Parse(data).left)
        BY Zenon, <2>3 DEF DataMore, DataError
      <3> QED
        BY Zenon, <3>5, <3>6
    <2>4. CASE data # << >> /\ Parse(data).status # "more"
      BY Zenon, <1>2, <1>3, <2>1, <2>4 DEF DataMore, DataError
    <2> QED
      BY Zenon, <2>2, <2>3, <2>4
  <1>7. PICK e \in Lost : k * MsgLen + e \in p..sent /\ End(Turn, Segment(k * MsgLen + e, sent))
    BY Zenon, <1>6
  <1>8. PICK q : q = k * MsgLen + e
    BY Zenon
  <1>9. q \in Nat /\ q \in p..sent /\ q \in 0..sent /\ sent \in q..(Count * MsgLen)
    BY SMTT(30), <1>2, <1>7, <1>8
  <1>10. PICK d : d = Segment(q, sent)
    OBVIOUS
  <1>11. d \in Seq(Cell) /\ Len(d) = sent - q
    BY Zenon, <1>4, <1>9, <1>10, SegmentIs
  <1>12. Len(d) = Len(Turn.b) => d = Turn.b
    <2>1. HAVE Len(d) = Len(Turn.b)
    <2>2. CASE Turn.b = << >>
      <3>1. Len(Turn.b) = 0
        BY Zenon, <2>2, EmptySeq
      <3>2. d = << >>
        BY Zenon, <1>11, <2>1, <3>1, EmptySeq
      <3> QED
        BY Zenon, <2>2, <3>2
    <2>3. CASE Turn.b # << >>
      <3>1. Turn = is
        BY Zenon, <2>3, TurnTyped
      <3>2. PICK f \in 0..p : is.b = Segment(f, sent)
        BY Zenon, <1>2, <1>3, <2>3, <3>1
      <3>3. f \in Nat /\ sent \in f..(Count * MsgLen)
        BY SMTT(30), <1>2, <3>2
      <3>4. Len(is.b) = sent - f
        BY Zenon, <1>4, <3>2, <3>3, SegmentIs
      <3>5. f = q
        BY SMTT(30), <1>2, <1>9, <1>11, <2>1, <3>1, <3>3, <3>4
      <3> QED
        BY Zenon, <1>10, <3>1, <3>2, <3>5
    <2> QED
      BY Zenon, <2>2, <2>3
  <1>13. is'.b = d
    <2>1. Turn \in Stream /\ Len(Turn.b) <= Turn.cap
      BY Zenon, TurnTyped
    <2>2. End(Turn, d)
      BY Zenon, <1>7, <1>8, <1>10
    <2> QED
      BY ZenonT(60), <1>4, <1>11, <1>12, <2>1, <2>2, TypeSame, EndTyped
  <1> QED
    BY Zenon, <1>2, <1>3, <1>4, <1>7, <1>8, <1>9, <1>10, <1>13, StreamFold

\* The loop's close, a worker's steps and a stutter leave the stream alone.
LEMMA StreamSame ==
    ASSUME TypeInv, StreamInv, UNCHANGED <<protocol, sent, data>>,
           Taken' = Taken, is'.b = is.b,
           pc' = "parse" <=> pc = "parse"
    PROVE  StreamInv'
  <1>1. PICK k : k = Taken
    BY Zenon
  <1>2. PICK c \in Lost, p \in Nat :
        /\ k \in Nat /\ p = k * MsgLen + c /\ p <= sent /\ sent \in Nat
        /\ protocol = "http" => ~InBody(sent)
        /\ pc = "parse" =>
             /\ data = Segment(p, sent)
             /\ is.b # << >> => \E f \in 0..p : is.b = Segment(f, sent)
        /\ pc # "parse" => is.b = Segment(p, sent)
        /\ \A b \in Bad : k < b
    BY Zenon, <1>1, StreamFacts
  <1>3. p \in 0..sent
    BY <1>2
  <1> QED
    BY Zenon, <1>1, <1>2, <1>3, TypeSame, StreamFold

\* Every step keeps the order.
LEMMA OrderStep ==
    ASSUME WholeHttp, TypeInv, QueueInv, StreamInv, [Next]_vars
    PROVE  QueueInv' /\ StreamInv'
  <1>1. ASSUME UNCHANGED <<workerQueue, busy, got>>
        PROVE  QueueInv' /\ Taken' = Taken
    BY <1>1 DEF QueueInv, Taken
  <1>2. CASE DataBegin
    <2>1. UNCHANGED <<workerQueue, busy, got>>
      BY <1>2 DEF DataBegin
    <2> QED
      BY Zenon, <1>1, <1>2, <2>1, StreamBegin
  <1>3. CASE DataReady
    BY <1>3, StreamReady
  <1>4. CASE DataMore \/ DataError
    <2>1. UNCHANGED <<workerQueue, busy, got>>
      BY Zenon, <1>4 DEF DataMore, DataError
    <2> QED
      BY Zenon, <1>1, <1>4, <2>1, StreamEnd
  <1>5. CASE loopAction
    <2>1. /\ UNCHANGED <<workerQueue, busy, got, protocol, sent, data, is>>
          /\ pc = "idle" /\ pc' = "closed"
      BY Zenon, <1>5 DEF loopAction
    <2> QED
      BY Zenon, <1>1, <2>1, StreamSame
  <1>6. CASE Worker
    <2>1. QueueInv' /\ Taken' = Taken
      BY Zenon, <1>6, QueueWorker
    <2>2. UNCHANGED <<protocol, sent, data, pc>>
      BY Zenon, <1>6 DEF Worker, WorkerTake, WorkerDone
    <2>3. is'.b = is.b
      <3>1. is \in Stream
        BY TypeSame
      <3>2. CASE WorkerTake
        BY <3>2 DEF WorkerTake
      <3>3. CASE WorkerDone
        <4>1. PICK l : is' = [is EXCEPT !.lent = l]
          BY Zenon, <3>3 DEF WorkerDone
        <4> QED
          BY <3>1, <4>1 DEF Stream
      <3> QED
        BY Zenon, <1>6, <3>2, <3>3 DEF Worker
    <2> QED
      BY Zenon, <2>1, <2>2, <2>3, StreamSame
  <1>7. CASE UNCHANGED vars
    <2>1. UNCHANGED <<workerQueue, busy, got, protocol, sent, data, is, pc>>
      BY <1>7 DEF vars
    <2> QED
      BY Zenon, <1>1, <2>1, StreamSame
  <1> QED
    BY Zenon, <1>2, <1>3, <1>4, <1>5, <1>6, <1>7 DEF Next, Handler

\* Nothing is taken and nothing is kept at the start.
LEMMA OrderInit ==
    ASSUME Init
    PROVE  QueueInv /\ StreamInv
  <1>1. Len(<< >>) = 0
    BY Zenon, EmptySeq
  <1>2. Taken = 0
    BY <1>1 DEF Init, Taken
  <1>3. QueueInv
    BY <1>1 DEF Init, QueueInv
  <1>4. protocol \in Protocols /\ MsgLen \in {4, 6} /\ Count * MsgLen \in Nat
    BY ConstAssumption, Sizes DEF Init
  <1>5. 0 * MsgLen = 0 /\ 0 \in 0..(Count * MsgLen) /\ 0 \in Nat /\ 0 - 0 = 0
    BY <1>4
  <1>6. Segment(0, 0) \in Seq(Cell) /\ Len(Segment(0, 0)) = 0
    BY Zenon, <1>4, <1>5, SegmentIs
  <1>7. Segment(0, 0) = << >>
    BY Zenon, <1>6, EmptySeq
  <1>8. is.b = << >> /\ sent = 0 /\ pc = "idle"
    BY DEF Init, NilStream
  <1>9. ~InBody(0)
    BY <1>4 DEF InBody, HeadLen
  <1>10. \A b \in Bad : 0 < b
    <2>1. \A b \in Malformed : 0 < b
      BY ConstAssumption
    <2> QED
      BY <2>1 DEF Bad
  <1>11. 0 \in Lost /\ 0 = Taken * MsgLen + 0 /\ StreamAt(0) /\ 0 \in 0..sent
    BY SMTT(30), <1>2, <1>5, <1>7, <1>8 DEF Lost, StreamAt
  <1>12. StreamInv
    BY Zenon, <1>2, <1>8, <1>9, <1>10, <1>11 DEF StreamInv
  <1> QED
    BY <1>3, <1>12

\* The messages taken, one after the other through the worker and the queue,
\* are the first ones, and all of them well-formed.
LEMMA OrderSound ==
    ASSUME TypeInv, QueueInv, StreamInv
    PROVE  MessagesInOrder
  <1>1. PICK h : h = IF busy = 0 THEN << >> ELSE <<busy>>
    BY Zenon
  <1>2. Len(got) \in Nat /\ Len(workerQueue) \in Nat /\ got \in Seq(1..Count)
        /\ workerQueue \in Seq(1..Count)
    BY TypeSame, TakenType
  <1>3. PICK n \in Nat : n = IF busy = 0 THEN 0 ELSE 1
    OBVIOUS
  <1>4. h \in Seq(1..Count) /\ Len(h) = n /\ \A i \in 1..n : h[i] = Len(got) + i
    <2>1. CASE busy = 0
      BY SMTT(30), <1>1, <1>3, <2>1, EmptySeq
    <2>2. CASE busy # 0
      <3>1. busy \in 1..Count /\ busy = Len(got) + 1
        BY SMTT(30), <2>2, TypeSame, ConstAssumption DEF QueueInv
      <3>2. h = <<busy>> /\ n = 1
        BY Zenon, <1>1, <1>3, <2>2
      <3> QED
        BY SMTT(30), <3>1, <3>2
    <2> QED
      BY Zenon, <2>1, <2>2
  <1>5. PICK a : a = got \o h
    BY Zenon
  <1>6. /\ a \in Seq(1..Count) /\ Len(a) = Len(got) + n
        /\ \A i \in 1..(Len(got) + n) :
             a[i] = IF i <= Len(got) THEN got[i] ELSE h[i - Len(got)]
    BY Zenon, <1>2, <1>4, <1>5, ConcatProperties
  <1>7. \A i \in 1..(Len(got) + n) : a[i] = i
    <2>1. TAKE i \in 1..(Len(got) + n)
    <2>2. n \in Nat
      BY Zenon, <1>3
    <2>3. CASE i <= Len(got)
      BY SMTT(30), <1>2, <1>6, <2>3 DEF QueueInv
    <2>4. CASE ~(i <= Len(got))
      <3>1. i - Len(got) \in 1..n /\ Len(got) + (i - Len(got)) = i
        BY SMTT(30), <1>2, <2>2, <2>4
      <3> QED
        BY Zenon, <1>4, <1>6, <2>4, <3>1
    <2> QED
      BY <2>3, <2>4
  <1>8. PICK all : all = a \o workerQueue
    BY Zenon
  <1>9. /\ all \in Seq(1..Count) /\ Len(all) = (Len(got) + n) + Len(workerQueue)
        /\ \A i \in 1..((Len(got) + n) + Len(workerQueue)) :
             all[i] = IF i <= Len(got) + n THEN a[i] ELSE workerQueue[i - (Len(got) + n)]
    <2>1. /\ a \o workerQueue \in Seq(1..Count)
          /\ Len(a \o workerQueue) = Len(a) + Len(workerQueue)
          /\ \A i \in 1..(Len(a) + Len(workerQueue)) :
               (a \o workerQueue)[i] =
                 IF i <= Len(a) THEN a[i] ELSE workerQueue[i - Len(a)]
      BY Zenon, <1>2, <1>6, ConcatProperties
    <2>2. Len(a) = Len(got) + n
      BY Zenon, <1>6
    <2> QED
      BY <1>8, <2>1, <2>2
  <1>10. \A i \in 1..Len(all) : all[i] = i
    <2>1. TAKE i \in 1..Len(all)
    <2>2. n \in Nat
      BY Zenon, <1>3
    <2>3. CASE i <= Len(got) + n
      BY SMTT(30), <1>2, <1>7, <1>9, <2>2, <2>3
    <2>4. CASE ~(i <= Len(got) + n)
      <3>1. /\ i - (Len(got) + n) \in 1..Len(workerQueue)
            /\ (Len(got) + n) + (i - (Len(got) + n)) = i
        BY SMTT(30), <1>2, <1>9, <2>2, <2>4
      <3>2. \A j \in 1..Len(workerQueue) : workerQueue[j] = (Len(got) + n) + j
        BY Zenon, <1>3 DEF QueueInv
      <3> QED
        BY Zenon, <1>9, <2>4, <3>1, <3>2
    <2> QED
      BY Zenon, <2>3, <2>4
  <1>11. DOMAIN all = 1..Len(all)
    BY Zenon, <1>9, LenProperties
  <1>12. Len(all) = Taken
    BY SMTT(30), <1>3, <1>9 DEF Taken
  <1>13. Taken \in {0} \cup Good
    <2>1. PICK k : k = Taken
      BY Zenon
    <2>2. PICK c \in Lost, p \in Nat :
          /\ k \in Nat /\ p = k * MsgLen + c /\ sent \in p..(Count * MsgLen)
          /\ Count * MsgLen \in Nat
          /\ \A b \in Bad : k < b
      BY Zenon, <2>1, StreamFacts
    <2>3. MsgLen \in {4, 6} /\ Count \in Nat
      BY Zenon, TypeSame, Sizes, ConstAssumption
    <2>4. k * MsgLen <= Count * MsgLen
      <3>1. c \in Nat /\ k * MsgLen \in Nat
        BY SMTT(30), <2>2, <2>3 DEF Lost
      <3> QED
        BY SMTT(30), <2>2, <3>1
    <2>5. k <= Count
      <3>1. k \in Nat /\ Count \in Nat
        BY Zenon, <2>2, <2>3
      <3>2. CASE MsgLen = 4
        <4>1. k * 4 <= Count * 4
          BY Zenon, <2>4, <3>2
        <4> QED BY <3>1, <4>1
      <3>3. CASE MsgLen = 6
        <4>1. k * 6 <= Count * 6
          BY Zenon, <2>4, <3>3
        <4> QED BY <3>1, <4>1
      <3> QED BY Zenon, <2>3, <3>2, <3>3
    <2>6. k = 0 \/ k \in 1..Count
      BY SMTT(30), <2>2, <2>3, <2>5
    <2> QED
      BY Zenon, <2>1, <2>2, <2>6 DEF Good
  <1>14. all = got \o (IF busy = 0 THEN << >> ELSE <<busy>>) \o workerQueue
    BY Zenon, <1>1, <1>5, <1>8
  <1> QED
    BY Zenon, <1>10, <1>11, <1>12, <1>13, <1>14 DEF MessagesInOrder

\* The invariant that the next theorem rests on: what a handler has not
\* processed is the stream from the end of the last message it took, but for the
\* fields of a request that parseAgentReq has read and forgotten.
THEOREM FramingInvariant ==
    WholeHttp => (Spec => [](TypeInv /\ QueueInv /\ StreamInv))
  <1> SUFFICES ASSUME WholeHttp
               PROVE  Spec => [](TypeInv /\ QueueInv /\ StreamInv)
    OBVIOUS
  <1>1. Init => TypeInv /\ QueueInv /\ StreamInv
    BY Zenon, TypeInit, OrderInit
  <1>2. TypeInv /\ QueueInv /\ StreamInv /\ [Next]_vars
          => (TypeInv /\ QueueInv /\ StreamInv)'
    BY TypeStep, OrderStep
  <1> QED
    BY <1>1, <1>2, PTL DEF Spec

\* The workers get the peer's messages, each once and in order, and none after
\* a malformed one: those of an agent and of dubbo however TCP cuts them, http
\* requests where no segment ends between a header and the end of its body,
\* since parsereq then drops the header and takes a later request instead.
THEOREM MessagesAreInOrder == WholeHttp => (Spec => []MessagesInOrder)
  <1> SUFFICES ASSUME WholeHttp
               PROVE  Spec => []MessagesInOrder
    OBVIOUS
  <1>1. Spec => [](TypeInv /\ QueueInv /\ StreamInv)
    BY FramingInvariant
  <1>2. TypeInv /\ QueueInv /\ StreamInv => MessagesInOrder
    BY Zenon, OrderSound
  <1> QED
    BY <1>1, <1>2, PTL

-----------------------------------------------------------------------------
(* Why a connection is closed.                                              *)

\* No segment of an agent's or of an http request ends between its header and
\* its end.
WholeRequests == CutBodies \subseteq {"dubbo"}

\* What the handler has not processed.
Left == IF pc = "parse" THEN data ELSE is.b

\* The handler of the agents has lost no field of a request: what is left is
\* as long as the stream from the end of the last message taken.
AgentInv ==
    protocol = "agent" => ~InBody(sent) /\ Len(Left) = sent - Taken * MsgLen

\* Close is answered for a malformed message, and the loop closes for Close.
CloseInv ==
    /\ action = "Close" => Bad # {}
    /\ pc = "closed" => action = "Close"

\* Where a request is whole or has not got beyond its header, parseAgentReq
\* consumes nothing of an incomplete one and refuses none but a malformed one.
LEMMA AgentWhole ==
    ASSUME protocol = "agent", protocol \in Protocols, NEW k \in Nat,
           NEW p \in Nat, p = k * MsgLen, NEW t \in p..(Count * MsgLen), p < t, ~InBody(t),
           NEW d, d = Segment(p, t)
    PROVE  \/ parseAgentReq(d) = NotReady(d)
           \/ parseAgentReq(d) = Broken(d) /\ k + 1 \in Bad
           \/ parseAgentReq(d) = Ready(Drop(d, MsgLen), k + 1)
  <1> DEFINE fields == {i \in DOMAIN FieldEnds : FieldEnds[i] <= Len(d)}
  <1>1. MsgLen = 6 /\ FieldEnds = <<2, 3, 4, 6>> /\ DOMAIN FieldEnds = 1..4
    BY Zenon, Sizes DEF FieldEnds
  <1>2. Count * 6 \in Nat /\ k * 6 \in Nat /\ t \in Nat /\ p = k * 6 /\ t % 6 < 2
    BY SMTT(30), <1>1, ConstAssumption DEF InBody, HeadLen
  <1>3. 0 \in Lost /\ p = k * MsgLen + 0
    BY SMTT(30), <1>1, <1>2 DEF Lost
  <1>4. d[1] = <<k + 1, 1>> /\ Len(d) = t - p
    <2>1. d[1] = <<k + 1, 0 + 1>> /\ Len(d) = t - p
      BY Zenon, <1>3, Rest
    <2> QED
      BY <2>1
  <1>5. t - p = 1 \/ t - p >= 6
    BY SMTT(30), <1>2
  <1>6. CASE t - p = 1
    <2>1. \A i \in 1..4 : ~(FieldEnds[i] <= 1)
      BY SMTT(30), <1>1
    <2>2. fields = {}
      BY Zenon, <1>1, <1>4, <1>6, <2>1
    <2> QED
      BY Zenon, <2>2 DEF parseAgentReq
  <1>7. CASE t - p >= 6
    <2>1. \A i \in 1..4 : FieldEnds[i] <= t - p
      BY SMTT(30), <1>1, <1>2, <1>7
    <2>2. fields = DOMAIN FieldEnds /\ fields # {}
      BY SMTT(30), <1>1, <1>4, <2>1
    <2>3. d[1][1] = k + 1 /\ d[1][2] = 1
      BY SMTT(30), <1>4
    <2> QED
      BY Zenon, <2>2, <2>3 DEF parseAgentReq
  <1> QED
    BY Zenon, <1>5, <1>6, <1>7

\* The handler of the agents parses from the end of the last message taken.
LEMMA AgentAligned ==
    ASSUME TypeInv, StreamInv, AgentInv, protocol = "agent", pc = "parse", data # << >>,
           NEW k, k = Taken
    PROVE  /\ k \in Nat /\ k * MsgLen \in Nat /\ sent \in (k * MsgLen)..(Count * MsgLen)
           /\ k * MsgLen < sent /\ data = Segment(k * MsgLen, sent)
  <1>1. PICK c \in Lost, p \in Nat :
        /\ k \in Nat /\ sent \in Nat /\ p = k * MsgLen + c /\ p <= sent
        /\ Count * MsgLen \in Nat /\ sent \in p..(Count * MsgLen)
        /\ data = Segment(p, sent)
    BY Zenon, StreamFacts
  <1>2. protocol \in Protocols /\ data \in Seq(Cell)
    BY Zenon, TypeSame
  <1>3. MsgLen = 6 /\ c \in Nat
    BY <1>2, Sizes DEF Lost
  <1>4. Len(data) = sent - p
    BY Zenon, <1>1, <1>2, SegmentIs
  <1>5. Len(data) = sent - k * MsgLen /\ Len(data) \in Nat \ {0}
    BY Zenon, <1>2, EmptySeq DEF AgentInv, Left
  <1>6. k * MsgLen \in Nat
    BY SMTT(30), <1>1, <1>3
  <1>7. p = k * MsgLen
    BY SMTT(30), <1>1, <1>4, <1>5, <1>6
  <1> QED
    BY SMTT(30), <1>1, <1>4, <1>5, <1>6, <1>7

\* No step of the agents' handler loses a field, or leaves a rest of another
\* length than the stream has after the last message taken.
LEMMA AgentStep ==
    ASSUME WholeRequests, TypeInv, QueueInv, StreamInv, AgentInv, [Next]_vars
    PROVE  AgentInv'
  <1> SUFFICES ASSUME protocol' = "agent"
               PROVE  ~InBody(sent)' /\ Len(Left)' = (sent - Taken * MsgLen)'
    BY Zenon DEF AgentInv
  <1>1. protocol = "agent" /\ protocol' = protocol
    BY DEF Next, Handler, DataBegin, DataReady, DataMore, DataError, loopAction, Worker,
           WorkerTake, WorkerDone, vars
  <1>2. MsgLen = 6 /\ MsgLen' = 6 /\ FieldEnds' = FieldEnds /\ protocol \in Protocols
    <2>1. protocol \in Protocols
      BY TypeSame
    <2> QED
      BY Zenon, <1>1, <2>1, Sizes DEF MsgLen, FieldEnds
  <1>3. ~InBody(sent) /\ Len(Left) = sent - Taken * 6
    BY Zenon, <1>1, <1>2 DEF AgentInv
  <1>4. PICK k : k = Taken
    BY Zenon
  <1>5. k \in Nat /\ k * 6 \in Nat
    BY SMTT(30), <1>4, TakenType
  <1>6. CASE DataBegin
    <2>1. PICK to \in (sent + 1)..(Count * MsgLen) :
            (InBody(to) => protocol \in CutBodies) /\ Begin(Segment(sent, to)) /\ sent' = to
      BY Zenon, <1>6 DEF DataBegin
    <2>2. pc = "idle" /\ pc' = "parse" /\ Taken' = k
      BY Zenon, <1>4, <1>6 DEF DataBegin, Taken
    <2>3. sent \in Nat /\ to \in sent..(Count * MsgLen) /\ to - sent \in Nat
      <3>1. sent \in 0..(Count * MsgLen) /\ Count * MsgLen \in Nat
        BY SMTT(30), <1>2, TypeSame, ConstAssumption
      <3> QED
        BY SMTT(30), <2>1, <3>1
    <2>4. Segment(sent, to) \in Seq(Cell) /\ Len(Segment(sent, to)) = to - sent
      BY Zenon, <1>2, <2>3, SegmentIs
    <2>5. is.b \in Seq(Cell) /\ data' = is.b \o Segment(sent, to)
      BY Zenon, <2>1, TypeSame DEF Stream, Begin
    <2>6. Len(data') = Len(is.b) + Len(Segment(sent, to))
      BY Zenon, <2>4, <2>5, ConcatProperties
    <2>7. Len(is.b) = sent - k * 6
      BY Zenon, <1>3, <1>4, <2>2 DEF Left
    <2>8. ~InBody(to)
      BY Zenon, <1>1, <2>1 DEF WholeRequests
    <2>9. Len(data') = to - k * 6
      BY SMTT(30), <1>5, <2>3, <2>4, <2>6, <2>7
    <2>10. Left' = data'
      BY Zenon, <2>2 DEF Left
    <2>11. ~InBody(sent)'
      BY Zenon, <1>2, <2>1, <2>8 DEF InBody, HeadLen
    <2> QED
      BY Zenon, <1>2, <2>1, <2>2, <2>9, <2>10, <2>11
  <1>7. CASE DataReady
    <2>1. /\ pc = "parse" /\ pc' = "parse" /\ data # << >> /\ data' = Parse(data).left
          /\ Parse(data).status = "ready" /\ sent' = sent
          /\ workerQueue' = Append(workerQueue, Parse(data).msg) /\ UNCHANGED <<busy, got>>
      BY Zenon, <1>7 DEF DataReady
    <2>2. /\ k * MsgLen \in Nat /\ sent \in (k * MsgLen)..(Count * MsgLen)
          /\ k * MsgLen < sent /\ data = Segment(k * MsgLen, sent)
      BY Zenon, <1>1, <1>4, <2>1, AgentAligned
    <2>3. 0 \in Lost /\ k * MsgLen = k * MsgLen + 0
      BY <2>2 DEF Lost
    <2>4. Exact(Parse(data), k, k * MsgLen, sent)
      BY Zenon, <1>1, <1>2, <1>5, <2>2, <2>3, ParseExact
    <2>5. /\ Parse(data).msg = k + 1 /\ (k + 1) * MsgLen <= sent
          /\ data' = Segment((k + 1) * MsgLen, sent)
      BY Zenon, <2>1, <2>4 DEF Exact
    <2>6. (k + 1) * MsgLen \in Nat /\ sent \in ((k + 1) * MsgLen)..(Count * MsgLen)
      BY <1>2, <1>5, <2>2, <2>5
    <2>7. Len(data') = sent - (k + 1) * MsgLen
      BY Zenon, <1>2, <2>5, <2>6, SegmentIs
    <2>8. Taken' = k + 1
      <3>1. k + 1 \in 1..Count
        BY SMTT(30), <1>2, <1>5, <2>6, ConstAssumption
      <3> QED
        BY Zenon, <1>4, <2>1, <2>5, <3>1, QueuePut
    <2>9. Left' = data' /\ ~InBody(sent)'
      BY Zenon, <1>2, <1>3, <2>1 DEF Left, InBody, HeadLen
    <2> QED
      BY Zenon, <1>2, <2>1, <2>7, <2>8, <2>9
  <1>8. CASE DataMore \/ DataError
    <2>1. pc = "parse" /\ pc' = "idle" /\ sent' = sent /\ Taken' = k
      BY Zenon, <1>4, <1>8 DEF DataMore, DataError, Taken
    <2>2. data \in Seq(Cell) /\ Len(data) = sent - k * 6
      BY Zenon, <1>3, <1>4, <2>1, TypeSame DEF Left
    <2>3. End(Turn, data)
      <3>1. CASE data = << >> \/ DataError
        BY Zenon, <1>8, <3>1 DEF DataMore, DataError
      <3>2. CASE data # << >> /\ DataMore
        <4>1. Parse(data).status = "more" /\ End(Turn, Parse(data).left)
          BY Zenon, <3>2 DEF DataMore
        <4>2. /\ k * MsgLen \in Nat /\ sent \in (k * MsgLen)..(Count * MsgLen)
              /\ k * MsgLen < sent /\ data = Segment(k * MsgLen, sent)
          BY Zenon, <1>1, <1>4, <2>1, <3>2, AgentAligned
        <4>3. \/ parseAgentReq(data) = NotReady(data)
              \/ parseAgentReq(data) = Broken(data)
              \/ parseAgentReq(data) = Ready(Drop(data, MsgLen), k + 1)
          BY ZenonT(60), <1>1, <1>2, <1>3, <1>5, <4>2, AgentWhole
        <4>4. Parse(data).left = data
          BY <1>1, <4>1, <4>3 DEF Parse, NotReady, Broken, Ready
        <4> QED
          BY Zenon, <4>1, <4>4
      <3> QED
        BY Zenon, <1>8, <3>1, <3>2
    <2>4. is'.b = data
      <3>1. Turn \in Stream /\ Len(Turn.b) <= Turn.cap
        BY TurnTyped
      <3>2. Len(data) = Len(Turn.b) => data = Turn.b
        <4>1. CASE data = << >>
          <5>1. Turn.b \in Seq(Cell) /\ Len(data) = 0
            BY Zenon, <3>1, <4>1, EmptySeq DEF Stream
          <5> QED
            BY Zenon, <4>1, <5>1, EmptySeq
        <4>2. CASE data # << >>
          <5>1. Turn.b = << >>
            BY Zenon, <1>1, <4>2 DEF Turn, NilStream
          <5>2. Len(Turn.b) = 0 /\ Len(data) \in Nat \ {0}
            BY Zenon, <2>2, <4>2, <5>1, EmptySeq
          <5> QED
            BY Zenon, <5>2
        <4> QED
          BY Zenon, <4>1, <4>2
      <3> QED
        BY Zenon, <1>2, <2>2, <2>3, <3>1, <3>2, TypeSame, EndTyped
    <2>5. Left' = data /\ ~InBody(sent)'
      BY Zenon, <1>2, <1>3, <2>1, <2>4 DEF Left, InBody, HeadLen
    <2> QED
      BY Zenon, <1>2, <2>1, <2>2, <2>5
  <1>9. ASSUME UNCHANGED <<sent, data>>, Taken' = Taken, is'.b = is.b, pc' = "parse" <=> pc = "parse"
        PROVE  ~InBody(sent)' /\ Len(Left)' = (sent - Taken * MsgLen)'
    <2>1. Left' = Left /\ ~InBody(sent)'
      BY Zenon, <1>2, <1>3, <1>9 DEF Left, InBody, HeadLen
    <2> QED
      BY Zenon, <1>2, <1>3, <1>9, <2>1
  <1>10. CASE loopAction \/ UNCHANGED vars
    <2>1. UNCHANGED <<sent, data, is>> /\ Taken' = Taken /\ (pc' = "parse" <=> pc = "parse")
      BY Zenon, <1>10 DEF loopAction, vars, Taken
    <2> QED
      BY Zenon, <1>9, <2>1
  <1>11. CASE Worker
    <2>1. Taken' = Taken
      BY Zenon, <1>11, QueueWorker
    <2>2. UNCHANGED <<sent, data, pc>> /\ is'.b = is.b
      BY Zenon, <1>11, TypeSame DEF Worker, WorkerTake, WorkerDone, Stream
    <2> QED
      BY Zenon, <1>9, <2>1, <2>2
  <1> QED
    BY Zenon, <1>6, <1>7, <1>8, <1>10, <1>11 DEF Next, Handler

\* A handler answers Close only for a message that its parser refuses, and the
\* loop closes the connection only after that.
LEMMA CloseStep ==
    ASSUME TypeInv, StreamInv, AgentInv, CloseInv, [Next]_vars
    PROVE  CloseInv'
  <1>1. Bad' = Bad
    BY DEF Next, Handler, DataBegin, DataReady, DataMore, DataError, loopAction, Worker,
           WorkerTake, WorkerDone, vars, Bad
  <1>2. CASE DataError
    <2>1. pc = "parse" /\ data # << >> /\ Parse(data).status = "error" /\ pc' = "idle"
      BY Zenon, <1>2 DEF DataError
    <2>2. CASE protocol = "agent"
      <3>1. PICK k : k = Taken
        BY Zenon
      <3>2. /\ k \in Nat /\ k * MsgLen \in Nat /\ sent \in (k * MsgLen)..(Count * MsgLen)
            /\ k * MsgLen < sent /\ data = Segment(k * MsgLen, sent)
        BY Zenon, <2>1, <2>2, <3>1, AgentAligned
      <3>3. protocol \in Protocols /\ ~InBody(sent)
        BY <2>2, TypeSame DEF AgentInv
      <3>4. \/ parseAgentReq(data) = NotReady(data)
            \/ parseAgentReq(data) = Broken(data) /\ k + 1 \in Bad
            \/ parseAgentReq(data) = Ready(Drop(data, MsgLen), k + 1)
        BY Zenon, <2>2, <3>2, <3>3, AgentWhole
      <3>5. k + 1 \in Bad
        BY <2>1, <2>2, <3>4 DEF Parse, NotReady, Broken, Ready
      <3> QED
        BY <1>1, <2>1, <3>5 DEF CloseInv
    <2>3. CASE protocol = "http"
      <3>1. parsereq(data).status = "error"
        BY Zenon, <2>1, <2>3 DEF Parse
      <3>2. Bad # {}
        BY Zenon, <3>1 DEF parsereq, NotReady, Ready
      <3> QED
        BY Zenon, <1>1, <2>1, <3>2 DEF CloseInv
    <2>4. CASE protocol = "dubbo"
      <3>1. UnpackResponse(data).status = "error"
        BY Zenon, <2>1, <2>4 DEF Parse
      <3> QED
        BY <3>1 DEF UnpackResponse, NotReady, Ready
    <2>5. protocol \in {"agent", "http", "dubbo"}
      BY Zenon, TypeSame, ConstAssumption
    <2> QED
      BY Zenon, <2>2, <2>3, <2>4, <2>5
  <1>3. CASE DataMore
    BY Zenon, <1>3 DEF DataMore, CloseInv
  <1>4. CASE loopAction
    BY Zenon, <1>1, <1>4 DEF loopAction, CloseInv
  <1>5. CASE DataBegin \/ DataReady
    BY Zenon, <1>1, <1>5 DEF DataBegin, DataReady, CloseInv
  <1>6. CASE Worker \/ UNCHANGED vars
    BY Zenon, <1>1, <1>6 DEF Worker, WorkerTake, WorkerDone, vars, CloseInv
  <1> QED
    BY Zenon, <1>2, <1>3, <1>4, <1>5, <1>6 DEF Next, Handler

\* "request not ready, yet" (agent_server.go:134): while no request is cut
\* between its header and its end, a connection of any protocol is closed only
\* for a malformed message, for any number of messages and every other way to
\* cut the stream.
THEOREM ClosesForCause == WholeRequests => (Spec => []ClosedForCause)
  <1> SUFFICES ASSUME WholeRequests
               PROVE  Spec => []ClosedForCause
    OBVIOUS
  <1> DEFINE Before == TypeInv /\ QueueInv /\ StreamInv
  <1>1. Spec => []Before
    BY Zenon, FramingInvariant DEF WholeRequests, WholeHttp
  <1>2. Init => AgentInv /\ CloseInv
    <2>1. ASSUME Init PROVE AgentInv
      <3>1. Len(<< >>) = 0
        BY Zenon, EmptySeq
      <3>2. Taken = 0 /\ Left = << >> /\ sent = 0
        BY <2>1, <3>1 DEF Init, Taken, Left, NilStream
      <3>3. ASSUME protocol = "agent" PROVE MsgLen = 6
        BY Zenon, <2>1, <3>3, Sizes DEF Init
      <3> QED
        BY <3>1, <3>2, <3>3 DEF AgentInv, InBody, HeadLen
    <2> QED
      BY <2>1 DEF Init, CloseInv
  <1>3. Before /\ AgentInv /\ CloseInv /\ [Next]_vars => AgentInv' /\ CloseInv'
    BY Zenon, AgentStep, CloseStep
  <1>4. CloseInv => ClosedForCause
    BY DEF CloseInv, ClosedForCause
  <1> HIDE DEF Before
  <1> QED
    BY <1>1, <1>2, <1>3, <1>4, PTL DEF Spec
=============================================================================
