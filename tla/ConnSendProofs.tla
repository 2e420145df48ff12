--------------------------- MODULE ConnSendProofs ---------------------------
(***************************************************************************)
(* Proofs about ConnSend, for any number of senders, of calls and of units  *)
(* the socket takes: the types, that messages arrive whole and once until   *)
(* the socket takes only a part of one, and that nothing goes to another    *)
(* connection before this one's peer has gone.                              *)
(***************************************************************************)
EXTENDS ConnSend, SequenceTheorems, TLAPS

\* Until a write is short, c.out stays nil: no call of Send comes to append,
\* and the loop has nothing to write.
NothingBuffered ==
    /\ out = << >> /\ lpc \notin {"cut", "store", "mod"}
    /\ \A s \in Senders : spc[s] \in {"idle", "test", "write", "mod"}

\* A call that has not written yet holds its whole message.
WholeInHand ==
    \A s \in Senders : spc[s] \in {"test", "write"} => data[s] = Message(s, sends[s])

\* What has been written belongs to calls that have written.
WrittenBefore ==
    \A i \in DOMAIN stream :
        /\ stream[i][2] <= sends[stream[i][1]]
        /\ spc[stream[i][1]] \in {"test", "write"} => stream[i][2] < sends[stream[i][1]]

\* The inductive invariant behind IntactUntilShort.
IntactInv ==
    ~short => /\ NothingBuffered /\ WholeInHand /\ WrittenBefore
              /\ WholeMessages /\ SentOnce

-----------------------------------------------------------------------------
(* Messages and units.                                                      *)

\* The units of a message (the data given to Send, evio_unix.go:45).
LEMMA MessageIs ==
    ASSUME NEW s \in Senders, NEW k \in 1..MaxSends[s]
    PROVE  /\ Message(s, k) \in Seq(Unit) /\ Len(Message(s, k)) = 2
           /\ Message(s, k)[1] = <<s, k, 1>> /\ Message(s, k)[2] = <<s, k, 2>>
  <1>1. <<s, k, 1>> \in {s} \X (1..MaxSends[s]) \X {1, 2}
        /\ <<s, k, 2>> \in {s} \X (1..MaxSends[s]) \X {1, 2}
    OBVIOUS
  <1>2. <<s, k, 1>> \in Unit /\ <<s, k, 2>> \in Unit
    BY <1>1, Zenon DEF Unit
  <1> QED
    BY <1>2 DEF Message

\* The parts of a unit: its sender, the call, and which half it is.
LEMMA UnitIs ==
    ASSUME NEW u \in Unit
    PROVE  /\ u = <<u[1], u[2], u[3]>> /\ u[1] \in Senders
           /\ u[2] \in 1..MaxSends[u[1]] /\ u[3] \in {1, 2}
  <1>1. PICK s \in Senders : u \in {s} \X (1..MaxSends[s]) \X {1, 2}
    BY Zenon DEF Unit
  <1> QED
    BY <1>1

\* A write takes the first n units and leaves the others (data[n:]).
LEMMA Pieces ==
    ASSUME NEW q \in Seq(Unit), NEW n \in 0..Len(q)
    PROVE  /\ SubSeq(q, 1, n) \in Seq(Unit) /\ Len(SubSeq(q, 1, n)) = n
           /\ SubSeq(q, n + 1, Len(q)) \in Seq(Unit)
           /\ \A i \in 1..n : SubSeq(q, 1, n)[i] = q[i]
  <1>1. Len(q) \in Nat /\ \A i \in 1..Len(q) : q[i] \in Unit
    BY LenProperties, ElementOfSeq
  <1>2. SubSeq(q, 1, n) \in Seq(Unit)
    <2>1. \A i \in 1..n : q[i] \in Unit
      BY <1>1
    <2> QED BY <1>1, <2>1, SubSeqProperties
  <1>3. SubSeq(q, n + 1, Len(q)) \in Seq(Unit)
    BY <1>1, SubSeqProperties
  <1>4. Len(SubSeq(q, 1, n)) = n /\ \A i \in 1..n : SubSeq(q, 1, n)[i] = q[i]
    BY <1>1
  <1> QED
    BY <1>2, <1>3, <1>4

-----------------------------------------------------------------------------
(* Types.                                                                   *)

\* The steps of Send up to its write (evio_unix.go:45-60) keep the types.
LEMMA TypeSendBegin ==
    ASSUME TypeOK, NEW s \in Senders,
           SendLock(s) \/ SendTest(s) \/ SendAppend(s) \/ SendUnlock(s)
    PROVE  TypeOK'
<1> USE DEF TypeOK, sock, loopv
<1>1. CASE SendLock(s)
  <2>1. sends[s] + 1 \in 1..MaxSends[s]
    <3> HIDE DEF TypeOK
    <3>1. sends[s] \in Nat /\ sends[s] < MaxSends[s] /\ MaxSends[s] \in Nat
      BY Zenon, <1>1, ConstAssumption DEF SendLock, TypeOK
    <3> QED BY <3>1
  <2>2. sends' \in [Senders -> Nat] /\ sends'[s] = sends[s] + 1
    BY <1>1, <2>1 DEF SendLock
  <2>3. Message(s, sends'[s]) \in Seq(Unit)
    BY <2>1, <2>2, MessageIs
  <2>4. data' \in [Senders -> Seq(Unit)]
    BY <1>1, <2>3 DEF SendLock
  <2> QED BY SMTT(30), <1>1, <2>2, <2>4 DEF SendLock
<1>2. CASE SendTest(s)
  BY ZenonT(60), <1>2 DEF SendTest
<1>3. CASE SendAppend(s)
  <2>1. out' \in Seq(Unit)
    BY <1>3, ConcatProperties DEF SendAppend
  <2>2. seen' \in [Senders -> Seq(Unit)]
    BY <1>3 DEF SendAppend
  <2> QED BY <1>3, <2>1, <2>2 DEF SendAppend
<1>4. CASE SendUnlock(s)
  BY <1>4 DEF SendUnlock
<1> QED BY Zenon, <1>1, <1>2, <1>3, <1>4

\* The write of Send (evio_unix.go:60), short or not, keeps the types.
LEMMA TypeSendWrite ==
    ASSUME TypeOK, NEW s \in Senders, SendWrite(s)
    PROVE  TypeOK'
<1> USE DEF TypeOK
<1>1. PICK n \in 1..Len(data[s]) :
        /\ IF fd = "other"
             THEN /\ stray' = stray \o SubSeq(data[s], 1, n)
                  /\ UNCHANGED <<stream, room>>
             ELSE /\ n = IF Len(data[s]) <= room THEN Len(data[s]) ELSE room
                  /\ stream' = stream \o SubSeq(data[s], 1, n)
                  /\ room' = room - n
                  /\ UNCHANGED stray
        /\ IF n = Len(data[s])
             THEN SendDone(s) /\ UNCHANGED short
             ELSE /\ data' = [data EXCEPT ![s] = SubSeq(@, n + 1, Len(@))]
                  /\ spc' = [spc EXCEPT ![s] = "lock"]
                  /\ short' = TRUE
  BY Zenon DEF SendWrite
<1>2. data[s] \in Seq(Unit) /\ Len(data[s]) \in Nat /\ n \in 0..Len(data[s])
  BY LenProperties
<1>3. SubSeq(data[s], 1, n) \in Seq(Unit) /\ SubSeq(data[s], n + 1, Len(data[s])) \in Seq(Unit)
  BY SMTT(30), <1>2, Pieces
<1>4. stream' \in Seq(Unit) /\ stray' \in Seq(Unit)
  <2>1. /\ stream' \in {stream, stream \o SubSeq(data[s], 1, n)}
        /\ stray' \in {stray, stray \o SubSeq(data[s], 1, n)}
    BY SMTT(30), <1>1
  <2>2. stream \in Seq(Unit) /\ stray \in Seq(Unit)
    OBVIOUS
  <2> HIDE DEF TypeOK
  <2>3. PICK q \in Seq(Unit) : q = SubSeq(data[s], 1, n)
    BY Zenon, <1>3
  <2>4. stream \o q \in Seq(Unit) /\ stray \o q \in Seq(Unit)
    BY <2>2, ConcatProperties
  <2> QED BY Zenon, <2>1, <2>2, <2>3, <2>4
<1>5. room' \in 0..Room
  BY SMTT(60), <1>1, <1>2, ConstAssumption
<1>6. data' \in [Senders -> Seq(Unit)]
  <2>1. \/ data' = [data EXCEPT ![s] = << >>]
        \/ data' = [data EXCEPT ![s] = SubSeq(data[s], n + 1, Len(data[s]))]
    BY SMTT(30), <1>1 DEF SendDone
  <2>2. data \in [Senders -> Seq(Unit)] /\ << >> \in Seq(Unit)
    OBVIOUS
  <2> HIDE DEF TypeOK
  <2> QED BY Zenon, <1>3, <2>1, <2>2
<1>7. short' \in BOOLEAN
      /\ spc' \in [Senders -> {"idle", "test", "append", "unlock", "write", "lock",
                               "load", "store", "mod"}]
  BY Zenon, <1>1 DEF SendDone
<1>8. UNCHANGED <<lock, out, interest, fd, reset, seen, sends, loopv>>
  BY DEF SendWrite
<1> QED BY SMTT(30), <1>4, <1>5, <1>6, <1>7, <1>8 DEF loopv

\* So do the steps after the write (evio_unix.go:61-75).
LEMMA TypeSendEnd ==
    ASSUME TypeOK, NEW s \in Senders,
           \/ SendError(s) \/ SendAgain(s)
           \/ SendRestLock(s) \/ SendRestLoad(s) \/ SendRestStore(s) \/ SendMod(s)
    PROVE  TypeOK'
<1> USE DEF TypeOK, sock, loopv
<1>1. CASE SendError(s)
  BY <1>1 DEF SendError
<1>2. CASE SendAgain(s)
  BY <1>2 DEF SendAgain, sendv
<1>3. CASE SendRestLock(s)
  BY <1>3 DEF SendRestLock
<1>4. CASE SendRestLoad(s)
  BY <1>4 DEF SendRestLoad
<1>5. CASE SendRestStore(s)
  <2>1. out' \in Seq(Unit)
    BY <1>5, ConcatProperties DEF SendRestStore
  <2>2. seen' \in [Senders -> Seq(Unit)]
    BY <1>5 DEF SendRestStore
  <2> QED BY <1>5, <2>1, <2>2 DEF SendRestStore
<1>6. CASE SendMod(s)
  BY SMTT(30), <1>6 DEF SendMod, SendDone
<1> QED BY Zenon, <1>1, <1>2, <1>3, <1>4, <1>5, <1>6

\* The loop (loopOpened, loopWrite, loopCloseConn) keeps the types.
LEMMA TypeLoop ==
    ASSUME TypeOK, Loop
    PROVE  TypeOK'
<1> USE DEF TypeOK, sock, sendv
<1>1. CASE LoopOpened \/ LoopOpenedModRead \/ LoopEvent \/ LoopWriteLock
  BY ZenonT(60), <1>1 DEF LoopOpened, LoopOpenedModRead, LoopEvent, LoopWriteLock
<1>2. CASE LoopWriteNil
  BY <1>2 DEF LoopWriteNil, CloseFd
<1>3. CASE LoopWriteAgain \/ LoopWriteError \/ LoopReadClose
  BY <1>3 DEF LoopWriteAgain, LoopWriteError, LoopReadClose, CloseFd
<1>4. CASE LoopWrite
  <2>1. PICK n : n = Min(Len(out), room)
    OBVIOUS
  <2>2. Len(out) \in Nat /\ n \in 0..Len(out) /\ n \in 0..room
    BY <2>1, LenProperties, ConstAssumption DEF Min
  <2>3. /\ lout' = SubSeq(out, 1, n) /\ stream' = stream \o SubSeq(out, 1, n)
        /\ room' = room - n
    BY <1>4, <2>1 DEF LoopWrite
  <2>4. lout' \in Seq(Unit)
    BY <2>2, <2>3, Pieces
  <2>5. stream' \in Seq(Unit)
    BY <2>3, <2>4, ConcatProperties
  <2>6. room' \in 0..Room
    BY <2>2, <2>3, ConstAssumption
  <2> QED BY Zenon, <1>4, <2>4, <2>5, <2>6 DEF LoopWrite
<1>5. CASE LoopCut
  <2>1. lout' \in Seq(Unit)
    <3>1. CASE Len(lout) > Len(out)
      BY <1>5, <3>1 DEF LoopCut
    <3>2. CASE ~(Len(lout) > Len(out))
      <4>1. Len(lout) \in 0..Len(out)
        BY <3>2, LenProperties
      <4> QED BY Zenon, <1>5, <3>2, <4>1, Pieces DEF LoopCut
    <3> QED BY <3>1, <3>2
  <2> QED BY Zenon, <1>5, <2>1 DEF LoopCut
<1>6. CASE LoopStore
  BY <1>6 DEF LoopStore
<1>7. CASE LoopMod
  BY <1>7 DEF LoopMod
<1> QED BY SMTT(30), <1>1, <1>2, <1>3, <1>4, <1>5, <1>6, <1>7 DEF Loop

\* Every step keeps the types, those of the kernel and the peer included.
LEMMA TypeNext ==
    ASSUME TypeOK, [Next]_vars
    PROVE  TypeOK'
<1>1. ASSUME NEW s \in Senders, SendLock(s) \/ SendStep(s) PROVE TypeOK'
  BY <1>1, TypeSendBegin, TypeSendWrite, TypeSendEnd DEF SendStep
<1>2. CASE PeerDrain
  BY <1>2, ConstAssumption DEF TypeOK, PeerDrain, sendv, loopv
<1>3. CASE PeerReset \/ FdReused
  <2>1. /\ reset' \in {reset, TRUE} /\ fd' \in {fd, "other"}
        /\ UNCHANGED <<lock, out, interest, room, spc, data, seen, sends,
                       lpc, lout, opened, stream, stray, short>>
    BY Zenon, <1>3 DEF PeerReset, FdReused, sendv, loopv
  <2>2. reset' \in BOOLEAN /\ fd' \in {"self", "free", "other"}
    BY Zenon, <2>1 DEF TypeOK
  <2> QED BY Zenon, <2>1, <2>2 DEF TypeOK
<1>4. CASE UNCHANGED vars
  BY <1>4 DEF TypeOK, vars
<1> QED BY <1>1, <1>2, <1>3, <1>4, TypeLoop DEF Next

\* Every variable keeps its type: every index and length computed in Send and
\* loopWrite is one of the slice it is applied to (evio_unix.go:45-75, 500-530).
THEOREM SendTyped == Spec => []TypeOK
<1>1. Init => TypeOK
  <2>1. << >> \in Seq(Unit) /\ Room \in 0..Room /\ 0 \in Nat
    BY ConstAssumption
  <2> QED BY Zenon, <2>1 DEF Init, TypeOK
<1>2. TypeOK /\ [Next]_vars => TypeOK'
  BY TypeNext
<1> QED BY <1>1, <1>2, PTL DEF Spec

-----------------------------------------------------------------------------
(* Messages stay whole until a write is short.                              *)

\* A step that writes nothing keeps what is known of the peer's stream, as
\* long as the calls it starts are new ones.
LEMMA StreamSame ==
    ASSUME TypeOK, WrittenBefore, WholeMessages, SentOnce, UNCHANGED stream,
           \A s \in Senders :
              \/ sends'[s] = sends[s] /\ (spc'[s] \in {"test", "write"} => spc[s] \in {"test", "write"})
              \/ sends'[s] = sends[s] + 1
    PROVE  WrittenBefore' /\ WholeMessages' /\ SentOnce'
<1>1. ASSUME NEW i \in DOMAIN stream
      PROVE  /\ stream[i][2] <= sends'[stream[i][1]]
             /\ spc'[stream[i][1]] \in {"test", "write"} => stream[i][2] < sends'[stream[i][1]]
  <2>1. PICK p, k : p = stream[i][1] /\ k = stream[i][2]
    OBVIOUS
  <2>2. stream[i] \in Unit
    BY Zenon, ElementOfSeq, LenProperties DEF TypeOK
  <2>3. p \in Senders /\ k \in 1..MaxSends[p]
    BY <2>1, <2>2, UnitIs
  <2>4. k <= sends[p] /\ (spc[p] \in {"test", "write"} => k < sends[p])
    BY Zenon, <2>1 DEF WrittenBefore
  <2>5. k \in Nat /\ sends[p] \in Nat
    BY <2>3 DEF TypeOK
  <2>6. \/ sends'[p] = sends[p] /\ (spc'[p] \in {"test", "write"} => spc[p] \in {"test", "write"})
        \/ sends'[p] = sends[p] + 1
    BY Zenon, <2>3
  <2>7. k <= sends'[p] /\ (spc'[p] \in {"test", "write"} => k < sends'[p])
    BY <2>4, <2>5, <2>6
  <2> QED BY Zenon, <2>1, <2>7
<1>2. WrittenBefore'
  BY Zenon, <1>1 DEF WrittenBefore
<1>3. WholeMessages' /\ SentOnce'
  BY Zenon DEF WholeMessages, SentOnce
<1> QED BY <1>2, <1>3

\* A message that no unit written so far belongs to, written in one piece,
\* leaves the stream one of whole messages, each unit once.
LEMMA StreamGrows ==
    ASSUME TypeOK, WholeMessages, SentOnce,
           NEW s \in Senders, NEW k \in 1..MaxSends[s],
           \A i \in DOMAIN stream : stream[i][1] = s => stream[i][2] # k,
           stream' = stream \o Message(s, k)
    PROVE  /\ WholeMessages' /\ SentOnce'
           /\ \A i \in DOMAIN stream' :
                 \/ i \in DOMAIN stream /\ stream'[i] = stream[i]
                 \/ stream'[i][1] = s /\ stream'[i][2] = k
<1>1. PICK L \in Nat : L = Len(stream)
  BY LenProperties DEF TypeOK
<1>2. PICK m : m = Message(s, k)
  OBVIOUS
<1>3. m \in Seq(Unit) /\ Len(m) = 2 /\ m[1] = <<s, k, 1>> /\ m[2] = <<s, k, 2>>
  BY <1>2, MessageIs
<1>4. stream \in Seq(Unit)
  BY DEF TypeOK
<1>5. DOMAIN stream = 1..L /\ DOMAIN stream' = 1..(L + 2)
      /\ (\A i \in 1..L : stream'[i] = stream[i])
      /\ stream'[L + 1] = m[1] /\ stream'[L + 2] = m[2]
  <2>1. /\ Len(stream \o m) = L + 2
        /\ \A i \in 1..(L + 2) : (stream \o m)[i] = IF i <= L THEN stream[i] ELSE m[i - L]
    <3>1. /\ Len(stream \o m) = Len(stream) + Len(m)
          /\ \A i \in 1..(Len(stream) + Len(m)) :
                (stream \o m)[i] = IF i <= Len(stream) THEN stream[i] ELSE m[i - Len(stream)]
      BY Zenon, <1>3, <1>4, ConcatProperties
    <3> QED BY <1>1, <1>3, <3>1
  <2>2. stream' = stream \o m /\ stream \o m \in Seq(Unit)
    BY <1>2, <1>3, <1>4, ConcatProperties
  <2>3. DOMAIN stream = 1..L /\ DOMAIN stream' = 1..(L + 2)
    BY <1>1, <1>4, <2>1, <2>2, LenProperties
  <2> QED BY <1>1, <2>1, <2>2, <2>3
<1>6. \A i \in 1..(L + 2) : i \in 1..L \/ i = L + 1 \/ i = L + 2
  BY <1>1
<1>7. \A i \in 1..L : stream[i] # m[1] /\ stream[i] # m[2]
  <2> TAKE i \in 1..L
  <2>1. stream[i][1] = s => stream[i][2] # k
    BY Zenon, <1>5
  <2> QED BY <1>3, <2>1
<1>8. SentOnce'
  <2> SUFFICES ASSUME NEW i \in DOMAIN stream', NEW j \in DOMAIN stream', stream'[i] = stream'[j]
               PROVE  i = j
    BY Zenon DEF SentOnce
  <2>1. m[1] # m[2]
    BY <1>3
  <2>2. CASE i \in 1..L /\ j \in 1..L
    BY ZenonT(60), <1>5, <2>2 DEF SentOnce
  <2> QED BY SMTT(60), <1>5, <1>6, <1>7, <2>1, <2>2
<1>9. WholeMessages'
  <2> SUFFICES ASSUME NEW i \in 1..(L + 2), stream'[i][3] = 2
               PROVE  i > 1 /\ stream'[i - 1] = <<stream'[i][1], stream'[i][2], 1>>
    BY Zenon, <1>5 DEF WholeMessages
  <2>1. CASE i \in 1..L
    <3>1. stream[i][3] = 2
      BY <1>5, <2>1
    <3>2. i > 1 /\ stream[i - 1] = <<stream[i][1], stream[i][2], 1>>
      BY Zenon, <1>5, <2>1, <3>1 DEF WholeMessages
    <3>3. i - 1 \in 1..L
      BY <1>1, <2>1, <3>2
    <3>4. stream'[i] = stream[i] /\ stream'[i - 1] = stream[i - 1]
      BY <1>5, <2>1, <3>3
    <3> QED BY <3>2, <3>4
  <2>2. CASE i = L + 1
    BY SMTT(30), <1>3, <1>5, <2>2
  <2>3. CASE i = L + 2
    <3>1. i > 1 /\ i - 1 = L + 1
      BY <1>1, <2>3
    <3> QED BY SMTT(60), <1>3, <1>5, <2>3, <3>1
  <2> QED BY Zenon, <1>6, <2>1, <2>2, <2>3
<1>10. ASSUME NEW i \in DOMAIN stream'
       PROVE  \/ i \in DOMAIN stream /\ stream'[i] = stream[i]
              \/ stream'[i][1] = s /\ stream'[i][2] = k
  <2>1. CASE i \in 1..L
    BY <1>5, <2>1
  <2>2. CASE i = L + 1
    BY SMTT(30), <1>3, <1>5, <2>2
  <2>3. CASE i = L + 2
    BY SMTT(30), <1>3, <1>5, <2>3
  <2> QED BY SMTT(30), <1>5, <1>6, <2>1, <2>2, <2>3
<1> QED BY Zenon, <1>8, <1>9, <1>10

\* The steps of Send that write nothing (evio_unix.go:45-58, 61-75).  As long
\* as c.out is nil, Send takes the branch that unlocks and writes.
LEMMA IntactSend ==
    ASSUME TypeOK, IntactInv, NEW s \in Senders,
           \/ SendLock(s) \/ SendTest(s) \/ SendAppend(s) \/ SendUnlock(s)
           \/ SendError(s) \/ SendAgain(s)
           \/ SendRestLock(s) \/ SendRestLoad(s) \/ SendRestStore(s) \/ SendMod(s)
    PROVE  IntactInv'
<1>1. UNCHANGED <<stream, short>>
  BY Zenon DEF SendLock, SendTest, SendAppend, SendUnlock, SendError, SendAgain,
         SendRestLock, SendRestLoad, SendRestStore, SendMod, sock
<1> SUFFICES ASSUME ~short
             PROVE  /\ NothingBuffered' /\ WholeInHand' /\ WrittenBefore'
                    /\ WholeMessages' /\ SentOnce'
  BY <1>1 DEF IntactInv
<1>2. NothingBuffered /\ WholeInHand /\ WrittenBefore /\ WholeMessages /\ SentOnce
  BY DEF IntactInv
<1>3. \/ SendLock(s) \/ SendTest(s) \/ SendError(s) \/ SendAgain(s) \/ SendMod(s)
  BY ZenonT(60), <1>2 DEF NothingBuffered, SendAppend, SendUnlock, SendRestLock, SendRestLoad, SendRestStore
<1>4. /\ out' = out /\ lpc' \in {lpc, "panic"}
      /\ \/ /\ sends' = [sends EXCEPT ![s] = @ + 1]
            /\ data' = [data EXCEPT ![s] = Message(s, sends'[s])]
            /\ spc' = [spc EXCEPT ![s] = "test"]
         \/ /\ UNCHANGED <<sends, data>>
            /\ spc[s] = "test" /\ spc' = [spc EXCEPT ![s] = "write"]
         \/ UNCHANGED sends /\ UNCHANGED data /\ spc' = [spc EXCEPT ![s] = "mod"]
         \/ UNCHANGED <<sends, data, spc>>
         \/ /\ UNCHANGED sends /\ data' = [data EXCEPT ![s] = << >>]
            /\ spc' = [spc EXCEPT ![s] = "idle"]
  BY <1>2, <1>3 DEF NothingBuffered, SendLock, SendTest, SendError, SendAgain, SendMod,
                    SendDone, loopv, sendv
<1>5. NothingBuffered'
  BY ZenonT(60), <1>2, <1>4 DEF NothingBuffered, TypeOK
<1>6. WholeInHand'
  <2>1. \A p \in Senders :
           \/ /\ sends'[p] = sends[p] /\ data'[p] = data[p]
              /\ spc'[p] \in {"test", "write"} => spc[p] \in {"test", "write"}
           \/ data'[p] = Message(p, sends'[p])
           \/ spc'[p] \in {"mod", "idle"}
    BY ZenonT(60), <1>4 DEF TypeOK
  <2> QED BY Zenon, <1>2, <2>1 DEF WholeInHand
<1>7. \A p \in Senders :
         \/ sends'[p] = sends[p] /\ (spc'[p] \in {"test", "write"} => spc[p] \in {"test", "write"})
         \/ sends'[p] = sends[p] + 1
  BY ZenonT(90), <1>4 DEF TypeOK
<1> QED BY Zenon, <1>1, <1>2, <1>5, <1>6, <1>7, StreamSame

\* The write of Send (evio_unix.go:60) puts a whole message at the end of the
\* stream, or it is short.
LEMMA IntactWrite ==
    ASSUME TypeOK, IntactInv, NEW s \in Senders, SendWrite(s)
    PROVE  IntactInv'
<1>1. PICK n \in 1..Len(data[s]) :
        /\ IF fd = "other"
             THEN UNCHANGED stream
             ELSE stream' = stream \o SubSeq(data[s], 1, n)
        /\ IF n = Len(data[s]) THEN SendDone(s) /\ UNCHANGED short ELSE short' = TRUE
  BY DEF SendWrite
<1> SUFFICES ASSUME ~short'
             PROVE  /\ NothingBuffered' /\ WholeInHand' /\ WrittenBefore'
                    /\ WholeMessages' /\ SentOnce'
  BY DEF IntactInv
<1>2. n = Len(data[s]) /\ ~short /\ SendDone(s)
  BY <1>1
<1>3. NothingBuffered /\ WholeInHand /\ WrittenBefore /\ WholeMessages /\ SentOnce
  BY <1>2 DEF IntactInv
<1>4. /\ spc[s] = "write" /\ UNCHANGED <<out, lpc, sends>>
      /\ spc' = [spc EXCEPT ![s] = "idle"] /\ data' = [data EXCEPT ![s] = << >>]
  BY <1>2 DEF SendWrite, SendDone, loopv
<1>5. NothingBuffered'
  BY <1>3, <1>4 DEF NothingBuffered, TypeOK
<1>6. WholeInHand'
  BY <1>3, <1>4 DEF WholeInHand, TypeOK
<1>7. PICK k : k = sends[s]
  OBVIOUS
<1>8. data[s] = Message(s, k)
  BY Zenon, <1>3, <1>4, <1>7 DEF WholeInHand
<1>9. SubSeq(data[s], 1, n) = data[s]
  BY <1>2 DEF TypeOK
<1>10. \A p \in Senders :
         sends'[p] = sends[p] /\ (spc'[p] \in {"test", "write"} => spc[p] \in {"test", "write"})
  BY <1>4 DEF TypeOK
<1>11. CASE stream' = stream
  BY Zenon, <1>3, <1>5, <1>6, <1>10, <1>11, StreamSame
<1>12. CASE stream' = stream \o Message(s, k)
  <2>1. \A i \in DOMAIN stream : stream[i][1] = s => stream[i][2] < k
    BY Zenon, <1>3, <1>4, <1>7 DEF WrittenBefore
  <2>2. data[s] \in Seq(Unit) /\ data[s][1] = <<s, k, 1>> /\ Len(data[s]) = 2
    <3>1. data[s] \in Seq(Unit)
      BY DEF TypeOK
    <3>2. data[s] = << <<s, k, 1>>, <<s, k, 2>> >>
      BY <1>8 DEF Message
    <3> QED BY <3>1, <3>2
  <2>3. <<s, k, 1>> \in Unit
    BY <2>2, ElementOfSeq
  <2>4. k \in 1..MaxSends[s]
    BY <2>3, UnitIs
  <2>5. MaxSends[s] \in Nat /\ k \in Nat
    BY <2>4, ConstAssumption
  <2>6. \A i \in DOMAIN stream : stream[i] \in Unit
    BY Zenon, ElementOfSeq, LenProperties DEF TypeOK
  <2>7. \A i \in DOMAIN stream : stream[i][1] = s => stream[i][2] # k
    <3> SUFFICES ASSUME NEW i \in DOMAIN stream, stream[i][1] = s
                 PROVE  stream[i][2] # k
      OBVIOUS
    <3>1. stream[i][2] \in 1..MaxSends[s]
      BY <2>6, UnitIs
    <3>2. stream[i][2] < k
      BY Zenon, <2>1
    <3> QED BY <2>5, <3>1, <3>2
  <2>8. /\ WholeMessages' /\ SentOnce'
        /\ \A i \in DOMAIN stream' :
              \/ i \in DOMAIN stream /\ stream'[i] = stream[i]
              \/ stream'[i][1] = s /\ stream'[i][2] = k
    BY SMTT(30), <1>3, <1>12, <2>4, <2>7, StreamGrows
  <2>9. ASSUME NEW i \in DOMAIN stream'
        PROVE  /\ stream'[i][2] <= sends'[stream'[i][1]]
               /\ spc'[stream'[i][1]] \in {"test", "write"} => stream'[i][2] < sends'[stream'[i][1]]
    <3>1. CASE i \in DOMAIN stream /\ stream'[i] = stream[i]
      <4>1. PICK p, j : p = stream[i][1] /\ j = stream[i][2]
        BY Zenon
      <4>2. p \in Senders
        BY <2>6, <3>1, <4>1, UnitIs
      <4>3. j <= sends[p] /\ (spc[p] \in {"test", "write"} => j < sends[p])
        BY Zenon, <1>3, <3>1, <4>1 DEF WrittenBefore
      <4>4. j <= sends'[p] /\ (spc'[p] \in {"test", "write"} => j < sends'[p])
        BY Zenon, <1>10, <4>2, <4>3
      <4> QED BY Zenon, <3>1, <4>1, <4>4
    <3>2. CASE stream'[i][1] = s /\ stream'[i][2] = k
      <4>1. spc'[s] = "idle" /\ sends'[s] = k
        BY <1>4, <1>7 DEF TypeOK
      <4> QED BY <2>5, <3>2, <4>1
    <3> QED BY Zenon, <2>8, <3>1, <3>2
  <2>10. WrittenBefore'
    BY Zenon, <2>9 DEF WrittenBefore
  <2> QED BY <1>5, <1>6, <2>8, <2>10
<1> QED BY <1>1, <1>8, <1>9, <1>11, <1>12

\* The loop finds c.out nil, and writes nothing (loopOpened, loopWrite); the
\* kernel and the peer touch neither the senders nor what was written.
LEMMA IntactLoop ==
    ASSUME TypeOK, IntactInv,
           Loop \/ PeerDrain \/ PeerReset \/ FdReused \/ UNCHANGED vars
    PROVE  IntactInv'
<1>1. UNCHANGED <<spc, data, sends, short>>
  BY DEF Loop, LoopOpened, LoopOpenedModRead, LoopEvent, LoopWriteLock, LoopWriteNil, LoopWrite,
         LoopWriteAgain, LoopWriteError, LoopCut, LoopStore, LoopMod, LoopReadClose,
         PeerDrain, PeerReset, FdReused, vars, sock, sendv
<1> SUFFICES ASSUME ~short
             PROVE  /\ NothingBuffered' /\ WholeInHand' /\ WrittenBefore'
                    /\ WholeMessages' /\ SentOnce'
  BY <1>1 DEF IntactInv
<1>2. NothingBuffered /\ WholeInHand /\ WrittenBefore /\ WholeMessages /\ SentOnce
  BY Zenon DEF IntactInv
<1>3. UNCHANGED <<out, stream>> /\ lpc' \notin {"cut", "store", "mod"}
  BY Zenon, <1>2 DEF NothingBuffered, Loop, LoopOpened, LoopOpenedModRead, LoopEvent, LoopWriteLock,
         LoopWriteNil, LoopWrite, LoopWriteAgain, LoopWriteError, LoopCut, LoopStore, LoopMod,
         LoopReadClose, CloseFd, PeerDrain, PeerReset, FdReused, vars, sock, loopv
<1>4. NothingBuffered' /\ WholeInHand'
  BY <1>1, <1>2, <1>3 DEF NothingBuffered, WholeInHand
<1>5. WrittenBefore' /\ WholeMessages' /\ SentOnce'
  BY Zenon, <1>1, <1>2, <1>3 DEF WrittenBefore, WholeMessages, SentOnce
<1> QED BY Zenon, <1>4, <1>5

\* Every step keeps the inductive invariant.
LEMMA IntactNext ==
    ASSUME TypeOK, IntactInv, [Next]_vars
    PROVE  IntactInv'
<1>1. ASSUME NEW s \in Senders, SendLock(s) \/ SendStep(s) PROVE IntactInv'
  BY Zenon, <1>1, IntactSend, IntactWrite DEF SendStep
<1> QED BY Zenon, <1>1, IntactLoop DEF Next

\* As long as the socket has taken every Send in one piece, concurrent messages
\* arrive whole and once, although Send writes outside the lock
\* (evio_unix.go:60): whatever the number of senders, of their calls, and of
\* the units the socket takes.
THEOREM IntactMessages == Spec => []IntactUntilShort
<1>1. Init => IntactInv
  <2> SUFFICES ASSUME Init PROVE IntactInv
    OBVIOUS
  <2>1. /\ out = << >> /\ lpc = "poll" /\ stream = << >>
        /\ \A s \in Senders : spc[s] = "idle"
    BY DEF Init
  <2>2. DOMAIN stream = {}
    BY <2>1
  <2> QED BY <2>1, <2>2 DEF IntactInv, NothingBuffered, WholeInHand, WrittenBefore,
                            WholeMessages, SentOnce
<1>2. TypeOK /\ IntactInv /\ [Next]_vars => IntactInv'
  BY IntactNext
<1>3. IntactInv => IntactUntilShort
  BY DEF IntactInv, IntactUntilShort
<1> QED BY <1>1, <1>2, <1>3, SendTyped, PTL DEF Spec

-----------------------------------------------------------------------------
(* Where the units go.                                                      *)

\* The loop gives the descriptor up only after the peer has gone, and only
\* then a write of Send can reach another socket.
FdInv == (fd # "self" => reset) /\ (stray # << >> => fd # "self")

\* Units given to Send go to another connection's socket only after this
\* connection's peer has gone: NoCrossTalk, which the descriptor that Send uses
\* after loopCloseConn breaks (evio_unix.go:60), holds until then.
CrossTalkAfterReset == ~reset => NoCrossTalk

\* No step but a reset, and the close that follows it, lets a unit go astray.
LEMMA FdNext ==
    ASSUME TypeOK, FdInv, [Next]_vars
    PROVE  FdInv'
<1>1. ASSUME NEW s \in Senders, SendLock(s) \/ SendStep(s) PROVE FdInv'
  <2>1. UNCHANGED <<fd, reset>> /\ (stray' # stray => fd = "other")
    BY Zenon, <1>1 DEF SendStep, SendLock, SendTest, SendAppend, SendUnlock, SendWrite, SendError,
                SendAgain, SendRestLock, SendRestLoad, SendRestStore, SendMod, sock
  <2> QED BY SMTT(30), <2>1 DEF FdInv
<1>2. CASE Loop
  <2>1. UNCHANGED <<stray, reset>> /\ (fd' # fd => fd' = "free" /\ reset)
    BY Zenon, <1>2 DEF Loop, LoopOpened, LoopOpenedModRead, LoopEvent, LoopWriteLock, LoopWriteNil,
                LoopWrite, LoopWriteAgain, LoopWriteError, LoopCut, LoopStore, LoopMod,
                LoopReadClose, CloseFd, sock
  <2> QED BY Zenon, <2>1 DEF FdInv
<1>3. CASE PeerDrain \/ PeerReset \/ FdReused \/ UNCHANGED vars
  BY <1>3 DEF FdInv, PeerDrain, PeerReset, FdReused, vars
<1> QED BY <1>1, <1>2, <1>3 DEF Next

\* Send's units reach another connection only after the peer has gone.
THEOREM NoCrossTalkBeforeReset == Spec => []CrossTalkAfterReset
<1>1. Init => FdInv
  BY DEF Init, FdInv
<1>2. TypeOK /\ FdInv /\ [Next]_vars => FdInv'
  BY FdNext
<1>3. FdInv => CrossTalkAfterReset
  BY DEF FdInv, CrossTalkAfterReset, NoCrossTalk
<1> QED BY <1>1, <1>2, <1>3, SendTyped, PTL DEF Spec
=============================================================================
