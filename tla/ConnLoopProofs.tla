--------------------------- MODULE ConnLoopProofs ---------------------------
(***************************************************************************)
(* Proofs about ConnLoop, for every set of connections, every bound on the  *)
(* input and every set of actions the handlers may return: the callbacks of *)
(* a connection come in the order Events documents, buffered output is      *)
(* watched for, what loop.count counts, and that connections end for good   *)
(* and, if they were accepted, when serve is done.                          *)
(***************************************************************************)
EXTENDS ConnLoop, FiniteSetTheorems, SequenceTheorems, TLAPS

Names == {"Opened", "Data", "Closed", "Detached"}

Over == pc \in {"stopped", "done"}

\* What the callbacks made so far say of a connection that has not ended.
Running(c) ==
    /\ opened[c] => log[c] # << >> /\ log[c][1] = "Opened"
    /\ ~opened[c] => log[c] = << >> /\ out[c] = 0
    /\ \A i \in 1..Len(log[c]) :
         /\ log[c][i] \in {"Opened", "Data"}
         /\ log[c][i] = "Opened" => i = 1

\* The order of the callbacks of one connection.
InOrder(c) ==
    \A i \in 1..Len(log[c]) :
        /\ log[c][i] = "Opened" => i = 1
        /\ log[c][i] \in {"Data", "Detached"} => log[c][1] = "Opened"
        /\ log[c][i] \in {"Closed", "Detached"} => i = Len(log[c])
        /\ log[c][i] = "Closed" /\ i = 1 => Over

\* Each connection: its callbacks, and what epoll watches while it is live.
\* A live connection that is not opened yet is watched for both directions:
\* this is why output of Opened needs no further registration.
Sound(c) ==
    /\ status[c] \notin {"closed", "detached"} => Running(c)
    /\ InOrder(c)
    /\ status[c] = "live" /\ ~opened[c] => interest[c] = "RW"
    /\ status[c] = "live" /\ out[c] > 0 => interest[c] = "RW"

ConnInv == \A c \in Conns : Sound(c)

\* loopRead works on a live, opened connection.
ReadInv == pc = "read" => cur \in Conns /\ status[cur] = "live" /\ opened[cur]

\* Accepted and dialed connections are not mixed, and the counted sets are
\* finite whatever Conns is.
CountInv ==
    /\ dialing => \A c \in Conns : status[c] # "backlog"
    /\ ~dialing => \A c \in Conns : status[c] \notin {"dialed", "noted"}
    /\ dialing => IsFiniteSet(Gone)
    /\ ~dialing => IsFiniteSet(Live)
    /\ CountIsLive

\* What a peer has sent bounds what is unread.
InputInv == \A c \in Conns : inq[c] <= sent[c]

LoopInv == TypeOK /\ InputInv /\ ConnInv /\ ReadInv /\ CountInv
-----------------------------------------------------------------------------
(* Types.                                                                   *)

USE DEF Over

\* One callback more: the log of one connection grows by a name (Callback).
LEMMA CallbackType ==
    ASSUME log \in [Conns -> Seq(Names)], NEW c \in Conns, NEW name \in Names,
           Callback(c, name)
    PROVE  /\ log' \in [Conns -> Seq(Names)]
           /\ log'[c] = Append(log[c], name)
           /\ \A d \in Conns : d # c => log'[d] = log[d]
  BY DEF Callback

\* The steps of peers and of outConnect keep the types
\* (evio_unix.go).
LEMMA OutsideType ==
    ASSUME TypeOK, InputInv, ConstAssumption, NEW c \in Conns,
           Peer(c) \/ OutConnectAdd(c) \/ OutConnectTrigger(c)
    PROVE  TypeOK' /\ InputInv'
<1>1. CASE PeerConnect(c)
  BY <1>1 DEF TypeOK, InputInv, PeerConnect, socket
<1>2. CASE PeerSend(c)
  BY SMTT(30), <1>2, ConstAssumption DEF TypeOK, InputInv, PeerSend, conn
<1>3. CASE PeerClose(c)
  BY SMTT(30), <1>3 DEF TypeOK, InputInv, PeerClose, conn
<1>4. CASE PeerReset(c)
  BY SMTT(30), <1>4 DEF TypeOK, InputInv, PeerReset, conn
<1>5. CASE PeerDrain(c)
  BY SMTT(30), <1>5, ConstAssumption DEF TypeOK, InputInv, PeerDrain, conn
<1>6. CASE OutConnectAdd(c)
  BY Zenon, <1>6 DEF TypeOK, InputInv, OutConnectAdd, socket
<1>7. CASE OutConnectTrigger(c)
  BY SMTT(30), <1>7 DEF TypeOK, InputInv, OutConnectTrigger, socket
<1> QED
  BY Zenon, <1>1, <1>2, <1>3, <1>4, <1>5, <1>6, <1>7 DEF Peer

\* What a handler leaves of the batch is a batch (Done, Fail).
LEMMA BatchType ==
    ASSUME TypeOK, NEW es, DoneOrShutdown(es) \/ Done(es) \/ Fail
    PROVE  /\ batch' \subseteq ((Conns \X SUBSET {"R", "W"}) \cup {Listener})
           /\ pc' \in {"poll", "batch", "stopped"}
  BY DEF TypeOK, DoneOrShutdown, Done, Fail

\* loopCloseConn keeps the types of what it changes.
LEMMA CloseType ==
    ASSUME TypeOK, NEW c \in Conns, CloseConn(c)
    PROVE  /\ status' = [status EXCEPT ![c] = "closed"]
           /\ status' \in [Conns -> {"unused", "backlog", "dialed", "noted", "live",
                                     "closed", "detached"}]
           /\ interest' \in [Conns -> {"none", "R", "RW"}]
           /\ UNCHANGED <<opened, action, out>>
           /\ count' \in Int
           /\ log' \in [Conns -> Seq(Names)]
  BY SMTT(30), CallbackType DEF TypeOK, CloseConn, Names


\* The dispatch of one event keeps the types (loopRun's switch, evio_unix.go).
LEMMA EventType ==
    ASSUME TypeOK, InputInv, ConstAssumption, NEW c \in Conns,
           NEW ev \in SUBSET {"R", "W"}, Event(c, ev)
    PROVE  TypeOK' /\ InputInv'
<1>1. CASE loopAcceptUnknown(c, ev)
  <2>1. UNCHANGED <<conn, socket, cur>> /\ Done({<<c, ev>>})
    BY <1>1 DEF loopAcceptUnknown
  <2> QED BY Zenon, <2>1, BatchType DEF TypeOK, InputInv, conn, socket
<1>2. CASE loopOpened(c, ev)
  <2>1. /\ UNCHANGED <<status, count, socket, cur>> /\ Done({<<c, ev>>})
        /\ Callback(c, "Opened") /\ opened' = [opened EXCEPT ![c] = TRUE]
    BY Zenon, <1>2 DEF loopOpened
  <2>2. log' \in [Conns -> Seq(Names)]
    BY SMTT(30), <2>1, CallbackType DEF TypeOK, Names
  <2>3. PICK o \in {0, 1}, a \in UserActions :
           /\ out' = IF o > 0 THEN [out EXCEPT ![c] = o] ELSE out
           /\ action' = [action EXCEPT ![c] = a]
    BY Zenon, <1>2 DEF loopOpened
  <2>4. out' \in [Conns -> Nat] /\ action' \in [Conns -> UserActions]
    BY SMTT(30), <2>3 DEF TypeOK
  <2>5. interest' \in [Conns -> {"none", "R", "RW"}]
    BY <1>2 DEF loopOpened, ModReadIfIdle, TypeOK
  <2> QED BY Zenon, <2>1, <2>2, <2>4, <2>5, BatchType DEF TypeOK, InputInv, socket, Names
<1>3. CASE loopWriteNil(c, ev)
  BY Zenon, <1>3 DEF loopWriteNil, TypeOK, InputInv, socket
<1>4. CASE loopWrite(c, ev)
  <2>1. /\ UNCHANGED <<status, opened, action, count, log, inq, peer, sent, cur, dialing>>
        /\ Done({<<c, ev>>})
    BY <1>4 DEF loopWrite
  <2>2. PICK n \in 1..out[c] :
           /\ n <= room[c]
           /\ out' = [out EXCEPT ![c] = @ - n]
           /\ room' = [room EXCEPT ![c] = @ - n]
    BY Zenon, <1>4 DEF loopWrite
  <2>3. out[c] \in Nat /\ room[c] \in 0..Space /\ n \in Nat /\ n <= out[c] /\ Space \in Nat
    BY <2>2, ConstAssumption DEF TypeOK
  <2>4. out[c] - n \in Nat /\ room[c] - n \in 0..Space
    BY <2>2, <2>3
  <2>5. out' \in [Conns -> Nat] /\ room' \in [Conns -> 0..Space]
    BY Zenon, <2>2, <2>4 DEF TypeOK
  <2>6. interest' \in [Conns -> {"none", "R", "RW"}]
    BY <1>4 DEF loopWrite, ModReadIfIdle, TypeOK
  <2> QED BY Zenon, <2>1, <2>5, <2>6, BatchType DEF TypeOK, InputInv
<1>5. CASE loopWriteError(c, ev)
  <2>1. CloseConn(c) /\ DoneOrShutdown({<<c, ev>>}) /\ UNCHANGED <<socket, cur>>
    BY <1>5 DEF loopWriteError
  <2> QED BY ZenonT(60), <2>1, CloseType, BatchType DEF TypeOK, InputInv, socket, Names
<1>6. CASE loopActionClose(c, ev)
  <2>1. CloseConn(c) /\ DoneOrShutdown({<<c, ev>>}) /\ UNCHANGED <<socket, cur>>
    BY <1>6 DEF loopActionClose
  <2> QED BY ZenonT(60), <2>1, CloseType, BatchType DEF TypeOK, InputInv, socket, Names
<1>7. CASE loopActionShutdown(c, ev)
  <2>1. Fail /\ UNCHANGED <<conn, socket, cur>>
    BY <1>7 DEF loopActionShutdown
  <2> QED BY Zenon, <2>1, BatchType DEF TypeOK, InputInv, conn, socket
<1>8. CASE loopDetachConn(c, ev)
  <2>1. /\ Callback(c, "Detached") /\ DoneOrShutdown({<<c, ev>>})
        /\ count' = count - 1
        /\ status' = [status EXCEPT ![c] = "detached"]
        /\ interest' = [interest EXCEPT ![c] = "none"]
        /\ UNCHANGED <<opened, action, out, socket, cur>>
    BY Zenon, <1>8 DEF loopDetachConn
  <2>2. log' \in [Conns -> Seq(Names)]
    BY SMTT(30), <2>1, CallbackType DEF TypeOK, Names
  <2>3. /\ status' \in [Conns -> {"unused", "backlog", "dialed", "noted", "live",
                                  "closed", "detached"}]
        /\ interest' \in [Conns -> {"none", "R", "RW"}]
        /\ count' \in Int
    BY SMTT(30), <2>1 DEF TypeOK
  <2>4. /\ batch' \subseteq ((Conns \X SUBSET {"R", "W"}) \cup {Listener})
        /\ pc' \in {"poll", "batch", "stopped"}
    BY <2>1, BatchType
  <2>5. UNCHANGED <<opened, action, out, socket, cur>>
    BY <2>1
  <2> QED BY Zenon, <2>2, <2>3, <2>4, <2>5 DEF TypeOK, InputInv, socket, Names
<1>9. CASE loopReadStart(c, ev)
  BY SMTT(30), <1>9 DEF loopReadStart, TypeOK, InputInv, conn, socket
<1> QED
  BY <1>1, <1>2, <1>3, <1>4, <1>5, <1>6, <1>7, <1>8, <1>9 DEF Event

\* The rest of the loop and serve's closing keep the types.
LEMMA LoopType ==
    ASSUME LoopInv, ConstAssumption, [Next]_vars
    PROVE  TypeOK' /\ InputInv'
<1> USE DEF LoopInv
<1>1. CASE StartPass
  <2>1. batch' \subseteq ((Conns \X SUBSET {"R", "W"}) \cup {Listener})
    BY <1>1 DEF StartPass, ReadyEvents, Ready
  <2>2. /\ status' \in [Conns -> {"unused", "backlog", "dialed", "noted", "live",
                                  "closed", "detached"}]
        /\ interest' \in [Conns -> {"none", "R", "RW"}]
        /\ pc' \in {"poll", "batch"}
    BY SMTT(30), <1>1 DEF StartPass, TypeOK
  <2> QED BY Zenon, <1>1, <2>1, <2>2 DEF StartPass, TypeOK, InputInv, socket
<1>2. CASE loopAccept
  <2>1. PICK c \in Conns : /\ status' = [status EXCEPT ![c] = "live"]
                           /\ interest' = [interest EXCEPT ![c] = "RW"]
    BY Zenon, <1>2 DEF loopAccept
  <2>2. /\ count' = count + 1 /\ Done({Listener})
        /\ UNCHANGED <<opened, action, out, log, socket, cur>>
    BY <1>2 DEF loopAccept
  <2>3. /\ status' \in [Conns -> {"unused", "backlog", "dialed", "noted", "live",
                                  "closed", "detached"}]
        /\ interest' \in [Conns -> {"none", "R", "RW"}]
        /\ count' \in Int
    BY SMTT(30), <2>1, <2>2 DEF TypeOK
  <2>4. /\ batch' \subseteq ((Conns \X SUBSET {"R", "W"}) \cup {Listener})
        /\ pc' \in {"poll", "batch", "stopped"}
    BY <2>2, BatchType
  <2>5. UNCHANGED <<opened, action, out, log, socket, cur>>
    BY <2>2
  <2> QED BY SMTT(30), <2>3, <2>4, <2>5 DEF TypeOK, InputInv, socket
<1>3. CASE loopAcceptFail
  <2>1. Fail /\ UNCHANGED <<conn, socket, cur>>
    BY <1>3 DEF loopAcceptFail
  <2> QED BY Zenon, <2>1, BatchType DEF TypeOK, InputInv, conn, socket
<1>4. CASE loopReadData
  <2>1. /\ cur \in Conns /\ inq[cur] > 0 /\ inq' = [inq EXCEPT ![cur] = @ - 1]
        /\ Callback(cur, "Data")
        /\ UNCHANGED <<status, opened, count, peer, sent, room, pc, batch, cur, dialing>>
    BY <1>4 DEF loopReadData, ReadInv
  <2>2. PICK o \in {0, 1}, a \in UserActions :
         /\ action' = [action EXCEPT ![cur] = a]
         /\ out' = [out EXCEPT ![cur] = @ + o]
         /\ interest' = IF o > 0 \/ a # "None"
                        THEN [interest EXCEPT ![cur] = "RW"] ELSE interest
    BY Zenon, <1>4 DEF loopReadData
  <2>3. log' \in [Conns -> Seq(Names)]
    BY SMTT(30), <2>1, CallbackType DEF TypeOK, Names
  <2>4. inq' \in [Conns -> 0..MaxIn] /\ InputInv'
    BY SMTT(30), <2>1, ConstAssumption DEF TypeOK, InputInv
  <2> QED BY SMTT(30), <2>1, <2>2, <2>3, <2>4 DEF TypeOK, Names
<1>5. CASE loopReadAgain
  <2>1. Done({}) /\ cur' = Nobody /\ UNCHANGED <<conn, socket>>
    BY <1>5 DEF loopReadAgain
  <2> QED BY Zenon, <2>1, BatchType DEF TypeOK, InputInv, conn, socket
<1>6. CASE loopReadClose
  <2>1. /\ cur \in Conns /\ CloseConn(cur) /\ DoneOrShutdown({})
        /\ cur' = Nobody /\ UNCHANGED socket
    BY <1>6 DEF loopReadClose, ReadInv
  <2> QED BY SMTT(30), <2>1, CloseType, BatchType DEF TypeOK, InputInv, socket, Names
<1>7. ASSUME NEW c \in Conns, serveCloseConn(c) PROVE TypeOK' /\ InputInv'
  <2>1. CloseConn(c) /\ UNCHANGED <<socket, pc, batch, cur>>
    BY <1>7 DEF serveCloseConn
  <2> QED BY SMTT(30), <2>1, CloseType DEF TypeOK, InputInv, socket, Names
<1>8. CASE serveDone
  BY <1>8 DEF serveDone, TypeOK, InputInv, conn, socket
<1>9. CASE UNCHANGED vars
  BY Zenon, <1>9 DEF vars, TypeOK, InputInv
<1> QED
  BY Zenon, <1>1, <1>2, <1>3, <1>4, <1>5, <1>6, <1>7, <1>8, <1>9, OutsideType, EventType
     DEF Next, loopRun, serveClose

-----------------------------------------------------------------------------
(* The callbacks and the interest of each connection.                       *)

\* A connection of which a step changes nothing stays as it should be.
LEMMA Untouched ==
    ASSUME NEW d \in Conns, Sound(d), Over => Over',
           status'[d] = status[d], interest'[d] = interest[d],
           opened'[d] = opened[d], out'[d] = out[d], log'[d] = log[d]
    PROVE  Sound(d)'
  BY Zenon DEF Sound, Running, InOrder

\* Opened is the first callback, made for a connection without any
\* (loopOpened).
LEMMA OpensInOrder ==
    ASSUME TypeOK, NEW c \in Conns, Sound(c), status[c] = "live", ~opened[c],
           log'[c] = Append(log[c], "Opened"), opened'[c],
           status'[c] = "live", out'[c] > 0 => interest'[c] = "RW"
    PROVE  Sound(c)'
<1>1. log[c] = << >>
  BY DEF Sound, Running
<1>2. log'[c] = <<"Opened">>
  BY <1>1
<1>3. Len(log'[c]) = 1 /\ log'[c][1] = "Opened"
  BY <1>2
<1>4. \A i \in 1..Len(log'[c]) : i = 1 /\ log'[c][i] = "Opened"
  BY SMTT(30), <1>3
<1> QED
  BY SMTT(30), <1>2, <1>3, <1>4 DEF Sound, Running, InOrder

\* Data is called for an opened connection that has not ended (loopRead).
LEMMA DataInOrder ==
    ASSUME TypeOK, NEW c \in Conns, Sound(c), status[c] = "live", opened[c],
           log'[c] = Append(log[c], "Data"), opened'[c],
           status'[c] = "live", out'[c] > 0 => interest'[c] = "RW"
    PROVE  Sound(c)'
<1>1. log[c] \in Seq(Names) /\ log[c] # << >> /\ log[c][1] = "Opened"
  BY DEF TypeOK, Sound, Running, Names
<1>2. Len(log[c]) \in Nat /\ Len(log[c]) >= 1
  BY <1>1
<1>3. /\ Len(log'[c]) = Len(log[c]) + 1
      /\ \A i \in 1..Len(log[c]) : log'[c][i] = log[c][i]
      /\ log'[c][Len(log[c]) + 1] = "Data"
  BY SMTT(30), <1>1, AppendProperties
<1>4. log'[c] # << >> /\ log'[c][1] = "Opened"
  BY SMTT(30), <1>1, <1>2, <1>3
<1>5. \A i \in 1..Len(log[c]) : /\ log[c][i] \in {"Opened", "Data"}
                                /\ log[c][i] = "Opened" => i = 1
  BY Zenon DEF Sound, Running
<1>6. \A i \in 1..Len(log'[c]) : /\ log'[c][i] \in {"Opened", "Data"}
                                 /\ log'[c][i] = "Opened" => i = 1
  BY SMTT(30), <1>2, <1>3, <1>5
<1> QED
  BY Zenon, <1>4, <1>6 DEF Sound, Running, InOrder

\* The last callback of a connection: Closed or Detached for an opened one,
\* Closed for one that is not opened when the loop has stopped
\* (loopCloseConn, loopDetachConn, serve).
LEMMA EndsInOrder ==
    ASSUME TypeOK, NEW c \in Conns, Sound(c), status[c] = "live",
           NEW name \in {"Closed", "Detached"}, log'[c] = Append(log[c], name),
           status'[c] \in {"closed", "detached"},
           opened[c] \/ (name = "Closed" /\ Over')
    PROVE  Sound(c)'
<1>1. log[c] \in Seq(Names) /\ Len(log[c]) \in Nat
  BY DEF TypeOK, Names
<1>2. /\ Len(log'[c]) = Len(log[c]) + 1
      /\ \A i \in 1..Len(log[c]) : log'[c][i] = log[c][i]
      /\ log'[c][Len(log[c]) + 1] = name
  BY SMTT(30), <1>1, AppendProperties
<1>3. \A i \in 1..Len(log[c]) : /\ log[c][i] \in {"Opened", "Data"}
                                /\ log[c][i] = "Opened" => i = 1
  BY Zenon DEF Sound, Running
<1>4. CASE opened[c]
  <2>1. Len(log[c]) >= 1 /\ log[c][1] = "Opened"
    BY SMTT(30), <1>1, <1>4 DEF Sound, Running
  <2>2. log'[c][1] = "Opened"
    BY SMTT(30), <1>1, <1>2, <2>1
  <2>3. InOrder(c)'
    BY SMTT(30), <1>1, <1>2, <1>3, <2>1, <2>2 DEF InOrder
  <2> QED BY Zenon, <2>3 DEF Sound
<1>5. CASE ~opened[c]
  <2>1. log[c] = << >>
    BY Zenon, <1>5 DEF Sound, Running
  <2>2. Len(log'[c]) = 1 /\ log'[c][1] = "Closed" /\ Over'
    BY SMTT(30), <1>2, <1>5, <2>1
  <2>3. \A i \in 1..Len(log'[c]) : i = 1
    BY <2>2
  <2>4. InOrder(c)'
    BY Zenon, <2>2, <2>3 DEF InOrder
  <2> QED BY <2>4 DEF Sound
<1> QED BY Zenon, <1>4, <1>5

\* Closing a live connection that is opened, or when the loop has stopped,
\* leaves every connection as it should be (loopCloseConn).
LEMMA CloseSound ==
    ASSUME TypeOK, ConnInv, NEW c \in Conns, CloseConn(c), status[c] = "live",
           Over => Over', opened[c] \/ Over'
    PROVE  ConnInv'
<1> SUFFICES ASSUME NEW d \in Conns PROVE Sound(d)'
  BY Zenon DEF ConnInv
<1>1. /\ status'[c] = "closed"
      /\ \A e \in Conns : e # c => status'[e] = status[e] /\ interest'[e] = interest[e]
      /\ UNCHANGED <<opened, out>>
  BY DEF CloseConn, TypeOK
<1>2. log'[c] = Append(log[c], "Closed") /\ \A e \in Conns : e # c => log'[e] = log[e]
  BY ZenonT(60), CallbackType DEF CloseConn, TypeOK, Names
<1>3. CASE d = c
  BY Zenon, <1>1, <1>2, <1>3, EndsInOrder DEF ConnInv
<1>4. CASE d # c
  BY Zenon, <1>1, <1>2, <1>4, Untouched DEF ConnInv
<1> QED BY Zenon, <1>3, <1>4

\* The dispatch of one event.
LEMMA EventSound ==
    ASSUME LoopInv, NEW c \in Conns, NEW ev \in SUBSET {"R", "W"}, Event(c, ev)
    PROVE  ConnInv' /\ ReadInv'
<1> USE DEF LoopInv
<1>0. ~Over /\ pc # "read"
  BY Zenon DEF Event, loopAcceptUnknown, loopOpened, loopWriteNil, loopWrite, loopWriteError,
         loopActionClose, loopActionShutdown, loopDetachConn, loopReadStart,
         WriteEvent, ActionEvent, Dispatch
<1>1. CASE loopAcceptUnknown(c, ev)
  <2>1. UNCHANGED <<status, interest, opened, out, log>> /\ pc' # "read"
    BY <1>1 DEF loopAcceptUnknown, Done, conn
  <2> QED BY Zenon, <1>0, <2>1, Untouched DEF ConnInv, ReadInv
<1>2. CASE loopOpened(c, ev)
  <2>1. /\ status[c] = "live" /\ ~opened[c] /\ status' = status /\ pc' # "read"
        /\ opened' = [opened EXCEPT ![c] = TRUE] /\ Callback(c, "Opened")
    BY Zenon, <1>2 DEF loopOpened, Dispatch, Done
  <2>2. log'[c] = Append(log[c], "Opened") /\ \A d \in Conns : d # c => log'[d] = log[d]
    BY Zenon, <2>1, CallbackType DEF TypeOK, Names
  <2>3. opened'[c] /\ \A d \in Conns : d # c => opened'[d] = opened[d]
    BY <2>1 DEF TypeOK
  <2>4. \A d \in Conns : d # c => out'[d] = out[d] /\ interest'[d] = interest[d]
    BY Zenon, <1>2 DEF loopOpened, ModReadIfIdle, TypeOK
  <2>5. out'[c] > 0 => interest'[c] = "RW"
    BY SMTT(30), <1>2, <2>1 DEF loopOpened, ModReadIfIdle, TypeOK, ConnInv, Sound
  <2>6. Sound(c)'
    BY SMTT(30), <2>1, <2>2, <2>3, <2>5, OpensInOrder DEF ConnInv
  <2>7. \A d \in Conns : d # c => Sound(d)'
    BY ZenonT(60), <1>0, <2>1, <2>2, <2>3, <2>4, Untouched DEF ConnInv
  <2> QED BY Zenon, <2>1, <2>6, <2>7 DEF ConnInv, ReadInv
<1>3. CASE loopWriteNil(c, ev)
  <2>1. /\ status[c] = "live" /\ opened[c] /\ out[c] = 0 /\ cur' = c
        /\ interest' = [interest EXCEPT ![c] = "R"]
        /\ UNCHANGED <<status, opened, out, log>>
    BY Zenon, <1>3 DEF loopWriteNil, WriteEvent, Dispatch
  <2>2. Sound(c)'
    BY SMTT(30), <1>0, <2>1 DEF ConnInv, Sound, Running, InOrder
  <2>3. \A d \in Conns : d # c => Sound(d)'
    BY Zenon, <1>0, <2>1, Untouched DEF ConnInv, TypeOK
  <2> QED BY Zenon, <2>1, <2>2, <2>3 DEF ConnInv, ReadInv
<1>4. CASE loopWrite(c, ev)
  <2>1. /\ status[c] = "live" /\ opened[c] /\ out[c] > 0 /\ pc' # "read"
        /\ UNCHANGED <<status, opened, log, action>> /\ ModReadIfIdle(c)
    BY Zenon, <1>4 DEF loopWrite, WriteEvent, Dispatch, Done
  <2>2. \A d \in Conns : d # c => out'[d] = out[d] /\ interest'[d] = interest[d]
    BY Zenon, <1>4 DEF loopWrite, ModReadIfIdle, TypeOK
  <2>3. out'[c] > 0 => interest'[c] = "RW"
    BY SMTT(30), <2>1 DEF ModReadIfIdle, ConnInv, Sound
  <2>4. Sound(c)'
    BY SMTT(90), <1>0, <2>1, <2>3 DEF ConnInv, Sound, Running, InOrder
  <2>5. \A d \in Conns : d # c => Sound(d)'
    BY ZenonT(60), <1>0, <2>1, <2>2, Untouched DEF ConnInv
  <2> QED BY Zenon, <2>1, <2>4, <2>5 DEF ConnInv, ReadInv
<1>5. CASE loopWriteError(c, ev) \/ loopActionClose(c, ev)
  <2>1. status[c] = "live" /\ opened[c] /\ CloseConn(c) /\ pc' # "read"
    BY Zenon, <1>5 DEF loopWriteError, loopActionClose, WriteEvent, ActionEvent, Dispatch,
                DoneOrShutdown, Done, Fail
  <2> QED BY Zenon, <1>0, <2>1, CloseSound DEF ReadInv
<1>6. CASE loopActionShutdown(c, ev)
  <2>1. UNCHANGED <<status, interest, opened, out, log>> /\ pc' # "read"
    BY Zenon, <1>6 DEF loopActionShutdown, Fail, conn
  <2> QED BY <1>0, <2>1, Untouched DEF ConnInv, ReadInv
<1>7. CASE loopDetachConn(c, ev)
  <2>1. /\ status[c] = "live" /\ opened[c] /\ Callback(c, "Detached") /\ pc' # "read"
        /\ status' = [status EXCEPT ![c] = "detached"]
        /\ interest' = [interest EXCEPT ![c] = "none"]
        /\ UNCHANGED <<opened, out>>
    BY <1>7 DEF loopDetachConn, ActionEvent, Dispatch, DoneOrShutdown, Done, Fail
  <2>2. log'[c] = Append(log[c], "Detached") /\ \A d \in Conns : d # c => log'[d] = log[d]
    BY ZenonT(60), <2>1, CallbackType DEF TypeOK, Names
  <2>3. /\ status'[c] = "detached"
        /\ \A d \in Conns : d # c => status'[d] = status[d] /\ interest'[d] = interest[d]
    BY Zenon, <2>1 DEF TypeOK
  <2>4. Sound(c)'
    BY Zenon, <2>1, <2>2, <2>3, EndsInOrder DEF ConnInv
  <2>5. \A d \in Conns : d # c => Sound(d)'
    BY Zenon, <1>0, <2>1, <2>2, <2>3, Untouched DEF ConnInv
  <2> QED BY Zenon, <2>1, <2>4, <2>5 DEF ConnInv, ReadInv
<1>8. CASE loopReadStart(c, ev)
  <2>1. /\ status[c] = "live" /\ opened[c] /\ cur' = c
        /\ UNCHANGED <<status, interest, opened, out, log>>
    BY Zenon, <1>8 DEF loopReadStart, Dispatch, conn
  <2> QED BY Zenon, <1>0, <2>1, Untouched DEF ConnInv, ReadInv
<1> QED
  BY Zenon, <1>1, <1>2, <1>3, <1>4, <1>5, <1>6, <1>7, <1>8 DEF Event

\* Every other step.
LEMMA StepSound ==
    ASSUME LoopInv, [Next]_vars
    PROVE  ConnInv' /\ ReadInv'
<1> USE DEF LoopInv
<1>1. ASSUME NEW c \in Conns, PeerConnect(c) \/ OutConnectAdd(c) \/ OutConnectTrigger(c)
      PROVE  ConnInv' /\ ReadInv'
  <2>1. /\ UNCHANGED <<opened, out, log, pc, cur>> /\ status[c] \in {"unused", "dialed"}
        /\ status'[c] \in {"backlog", "dialed", "noted"}
        /\ \A d \in Conns : d # c => status'[d] = status[d] /\ interest'[d] = interest[d]
    BY Zenon, <1>1 DEF PeerConnect, OutConnectAdd, OutConnectTrigger, TypeOK
  <2>2. Sound(c)'
    BY SMTT(30), <2>1 DEF ConnInv, Sound, Running, InOrder
  <2>3. \A d \in Conns : d # c => Sound(d)'
    BY Zenon, <2>1, Untouched DEF ConnInv
  <2>4. ReadInv'
    BY Zenon, <2>1 DEF ReadInv
  <2> QED BY Zenon, <2>2, <2>3, <2>4 DEF ConnInv
<1>2. ASSUME NEW c \in Conns, PeerSend(c) \/ PeerClose(c) \/ PeerReset(c) \/ PeerDrain(c)
      PROVE  ConnInv' /\ ReadInv'
  <2>1. UNCHANGED <<status, interest, opened, out, log, pc, cur>>
    BY Zenon, <1>2 DEF PeerSend, PeerClose, PeerReset, PeerDrain, conn
  <2> QED BY Zenon, <2>1, Untouched DEF ConnInv, ReadInv
<1>3. CASE StartPass
  <2>1. /\ UNCHANGED <<opened, out, log>> /\ ~Over /\ pc' # "read"
        /\ \A c \in Conns : c \notin Noted =>
               status'[c] = status[c] /\ interest'[c] = interest[c]
        /\ \A c \in Noted : status'[c] = "live" /\ interest'[c] = "RW"
    BY Zenon, <1>3 DEF StartPass, Noted
  <2>2. \A c \in Noted : Sound(c)'
    BY SMTT(30), <2>1 DEF Noted, ConnInv, Sound, Running, InOrder
  <2>3. \A c \in Conns : c \notin Noted => Sound(c)'
    BY Zenon, <2>1, Untouched DEF ConnInv
  <2> QED BY Zenon, <2>1, <2>2, <2>3 DEF ConnInv, ReadInv
<1>4. CASE loopAccept
  <2>1. PICK c \in Conns : /\ status[c] = "backlog"
                           /\ status' = [status EXCEPT ![c] = "live"]
                           /\ interest' = [interest EXCEPT ![c] = "RW"]
    BY ZenonT(60), <1>4 DEF loopAccept
  <2>2. UNCHANGED <<opened, out, log>> /\ ~Over /\ pc' # "read"
    BY Zenon, <1>4 DEF loopAccept, Done
  <2>3. Sound(c)'
    <3>1. status'[c] = "live" /\ interest'[c] = "RW"
      BY Zenon, <2>1 DEF TypeOK
    <3>2. Running(c)' /\ InOrder(c)'
      BY Zenon, <2>1, <2>2 DEF ConnInv, Sound, Running, InOrder
    <3> QED BY Zenon, <3>1, <3>2 DEF Sound
  <2>4. \A d \in Conns : d # c => Sound(d)'
    BY Zenon, <2>1, <2>2, Untouched DEF ConnInv, TypeOK
  <2> QED BY Zenon, <2>2, <2>3, <2>4 DEF ConnInv, ReadInv
<1>5. CASE loopAcceptFail \/ loopReadAgain
  <2>1. UNCHANGED <<status, interest, opened, out, log>> /\ ~Over /\ pc' # "read"
    BY Zenon, <1>5 DEF loopAcceptFail, loopReadAgain, Done, Fail, conn
  <2> QED BY Zenon, <2>1, Untouched DEF ConnInv, ReadInv
<1>6. CASE loopReadData
  <2>1. /\ cur \in Conns /\ status[cur] = "live" /\ opened[cur] /\ Callback(cur, "Data")
        /\ UNCHANGED <<status, opened, pc, cur>> /\ ~Over
    BY <1>6 DEF loopReadData, ReadInv
  <2>2. PICK o \in {0, 1}, a \in UserActions :
         /\ out' = [out EXCEPT ![cur] = @ + o]
         /\ interest' = IF o > 0 \/ a # "None"
                        THEN [interest EXCEPT ![cur] = "RW"] ELSE interest
    BY Zenon, <1>6 DEF loopReadData
  <2>3. log'[cur] = Append(log[cur], "Data") /\ \A d \in Conns : d # cur => log'[d] = log[d]
    BY Zenon, <2>1, CallbackType DEF TypeOK, Names
  <2>4. \A d \in Conns : d # cur => out'[d] = out[d] /\ interest'[d] = interest[d]
    BY Zenon, <2>2 DEF TypeOK
  <2>5. out'[cur] > 0 => interest'[cur] = "RW"
    BY SMTT(30), <2>1, <2>2 DEF TypeOK, ConnInv, Sound
  <2>6. \A d \in Conns : d = cur => Sound(d)'
    BY Zenon, <2>1, <2>3, <2>5, DataInOrder DEF ConnInv
  <2>7. \A d \in Conns : d # cur => Sound(d)'
    BY Zenon, <2>1, <2>3, <2>4, Untouched DEF ConnInv
  <2> QED BY Zenon, <2>1, <2>6, <2>7 DEF ConnInv, ReadInv
<1>7. CASE loopReadClose
  <2>1. /\ cur \in Conns /\ CloseConn(cur) /\ status[cur] = "live" /\ opened[cur]
        /\ ~Over /\ pc' # "read"
    BY Zenon, <1>7 DEF loopReadClose, ReadInv, DoneOrShutdown, Done, Fail
  <2> QED BY Zenon, <2>1, CloseSound DEF ReadInv
<1>8. ASSUME NEW c \in Conns, serveCloseConn(c) PROVE ConnInv' /\ ReadInv'
  <2>1. CloseConn(c) /\ status[c] = "live" /\ pc' = "stopped"
    BY Zenon, <1>8 DEF serveCloseConn
  <2> QED BY Zenon, <2>1, CloseSound DEF ReadInv
<1>9. CASE serveDone
  <2>1. UNCHANGED <<status, interest, opened, out, log>> /\ Over' /\ pc' # "read"
    BY Zenon, <1>9 DEF serveDone, conn
  <2> QED BY Zenon, <2>1, Untouched DEF ConnInv, ReadInv
<1>10. CASE UNCHANGED vars
  <2>1. UNCHANGED <<status, interest, opened, out, log, pc, cur>>
    BY Zenon, <1>10 DEF vars
  <2> QED BY Zenon, <2>1, Untouched DEF ConnInv, ReadInv
<1> QED
  BY Zenon, <1>1, <1>2, <1>3, <1>4, <1>5, <1>6, <1>7, <1>8, <1>9, <1>10, EventSound
     DEF Next, Peer, loopRun, serveClose

-----------------------------------------------------------------------------
(* loop.count.                                                              *)

\* A step that neither counts nor ends a connection.
LEMMA CountSame ==
    ASSUME CountInv, dialing' = dialing, count' = count,
           dialing => Gone' = Gone /\ \A c \in Conns : status'[c] # "backlog",
           ~dialing => Live' = Live /\ \A c \in Conns : status'[c] \notin {"dialed", "noted"}
    PROVE  CountInv'
  BY Zenon DEF CountInv, CountIsLive

\* loopCloseConn and loopDetachConn count the connection down once.
LEMMA CountEnd ==
    ASSUME TypeOK, CountInv, NEW c \in Conns, status[c] = "live",
           NEW end \in {"closed", "detached"}, status' = [status EXCEPT ![c] = end],
           count' = count - 1, dialing' = dialing
    PROVE  CountInv'
<1>1. /\ status'[c] = end /\ \A d \in Conns : d # c => status'[d] = status[d]
  BY DEF TypeOK
<1>2. Live' = Live \ {c} /\ c \in Live
  BY Zenon, <1>1 DEF Live
<1>3. Gone' = Gone \cup {c} /\ c \notin Gone
  BY Zenon, <1>1 DEF Gone
<1>4. CASE dialing
  <2>1. IsFiniteSet(Gone') /\ Cardinality(Gone') = Cardinality(Gone) + 1
    BY Zenon, <1>3, <1>4, FS_AddElement DEF CountInv
  <2>2. Cardinality(Gone) \in Nat
    BY Zenon, <1>4, FS_CardinalityType DEF CountInv
  <2>3. count' = -Cardinality(Gone')
    BY SMTT(30), <1>4, <2>1, <2>2 DEF CountInv, CountIsLive
  <2> QED BY Zenon, <1>1, <1>4, <2>1, <2>3 DEF CountInv, CountIsLive
<1>5. CASE ~dialing
  <2>1. IsFiniteSet(Live') /\ Cardinality(Live') = Cardinality(Live) - 1
    BY Zenon, <1>2, <1>5, FS_RemoveElement DEF CountInv
  <2>2. count' = Cardinality(Live')
    BY Zenon, <1>5, <2>1 DEF CountInv, CountIsLive
  <2> QED BY Zenon, <1>1, <1>5, <2>1, <2>2 DEF CountInv, CountIsLive
<1> QED BY Zenon, <1>4, <1>5 DEF TypeOK, ConstAssumption

\* loopAccept counts a connection up as it enters fdconns.
LEMMA CountAccept ==
    ASSUME TypeOK, CountInv, loopAccept
    PROVE  CountInv'
<1>1. PICK c \in Conns : /\ status[c] = "backlog"
                         /\ status' = [status EXCEPT ![c] = "live"]
  BY Zenon DEF loopAccept
<1>2. count' = count + 1 /\ dialing' = dialing
  BY Zenon DEF loopAccept, socket
<1>3. status'[c] = "live" /\ \A d \in Conns : d # c => status'[d] = status[d]
  BY Zenon, <1>1 DEF TypeOK
<1>4. ~dialing
  BY Zenon, <1>1 DEF CountInv
<1>5. Live' = Live \cup {c} /\ c \notin Live
  BY Zenon, <1>1, <1>3 DEF Live
<1>6. IsFiniteSet(Live') /\ Cardinality(Live') = Cardinality(Live) + 1
  BY Zenon, <1>4, <1>5, FS_AddElement DEF CountInv
<1>7. count' = Cardinality(Live')
  BY Zenon, <1>2, <1>4, <1>6 DEF CountInv, CountIsLive
<1> QED BY Zenon, <1>2, <1>3, <1>4, <1>6, <1>7 DEF CountInv, CountIsLive

\* Every step keeps the count right.
LEMMA StepCounts ==
    ASSUME LoopInv, [Next]_vars
    PROVE  CountInv'
<1> USE DEF LoopInv
<1>1. ASSUME NEW c \in Conns, PeerConnect(c) \/ OutConnectAdd(c) \/ OutConnectTrigger(c)
      PROVE  CountInv'
  <2>1. /\ dialing' = dialing /\ count' = count
        /\ status[c] \in {"unused", "dialed"}
        /\ status'[c] \in {"backlog", "dialed", "noted"}
        /\ status'[c] = "backlog" => ~dialing
        /\ status'[c] \in {"dialed", "noted"} => dialing
        /\ \A d \in Conns : d # c => status'[d] = status[d]
    BY Zenon, <1>1 DEF PeerConnect, OutConnectAdd, OutConnectTrigger, TypeOK, socket, CountInv
  <2>2. Live' = Live /\ Gone' = Gone
    BY <2>1 DEF Live, Gone
  <2>3. /\ dialing => \A d \in Conns : status'[d] # "backlog"
        /\ ~dialing => \A d \in Conns : status'[d] \notin {"dialed", "noted"}
    BY Zenon, <2>1 DEF CountInv
  <2> QED BY Zenon, <2>1, <2>2, <2>3, CountSame
<1>2. CASE StartPass
  <2>1. /\ dialing' = dialing /\ count' = count
        /\ \A c \in Conns : c \notin Noted => status'[c] = status[c]
        /\ \A c \in Noted : status'[c] = "live"
    BY Zenon, <1>2 DEF StartPass, Noted, socket
  <2>2. Gone' = Gone
    BY <2>1 DEF Gone, Noted
  <2>3. ~dialing => Noted = {}
    BY DEF Noted, CountInv
  <2>4. ~dialing => Live' = Live
    BY Zenon, <2>1, <2>3 DEF Live
  <2>5. /\ dialing => \A d \in Conns : status'[d] # "backlog"
        /\ ~dialing => \A d \in Conns : status'[d] \notin {"dialed", "noted"}
    BY <2>1 DEF CountInv
  <2> QED BY Zenon, <2>1, <2>2, <2>4, <2>5, CountSame
<1>3. CASE loopAccept
  BY Zenon, <1>3, CountAccept
<1>4. ASSUME NEW c \in Conns, NEW ev \in SUBSET {"R", "W"},
             loopWriteError(c, ev) \/ loopActionClose(c, ev) \/ loopDetachConn(c, ev)
      PROVE  CountInv'
  <2>1. /\ status[c] = "live" /\ count' = count - 1 /\ dialing' = dialing
        /\ status' = [status EXCEPT ![c] = "closed"] \/ status' = [status EXCEPT ![c] = "detached"]
    BY <1>4 DEF loopWriteError, loopActionClose, loopDetachConn, WriteEvent, ActionEvent,
                Dispatch, CloseConn, socket
  <2> QED BY Zenon, <2>1, CountEnd
<1>5. CASE loopReadClose
  <2>1. /\ cur \in Conns /\ status[cur] = "live" /\ count' = count - 1
        /\ dialing' = dialing /\ status' = [status EXCEPT ![cur] = "closed"]
    BY Zenon, <1>5 DEF loopReadClose, ReadInv, CloseConn, socket
  <2> QED BY ZenonT(60), <2>1, CountEnd
<1>6. ASSUME NEW c \in Conns, serveCloseConn(c) PROVE CountInv'
  <2>1. /\ status[c] = "live" /\ count' = count - 1 /\ dialing' = dialing
        /\ status' = [status EXCEPT ![c] = "closed"]
    BY Zenon, <1>6 DEF serveCloseConn, CloseConn, socket
  <2> QED BY ZenonT(60), <2>1, CountEnd
<1>7. ASSUME UNCHANGED <<status, count, dialing>> PROVE CountInv'
  BY Zenon, <1>7 DEF CountInv, CountIsLive, Live, Gone
<1>8. ASSUME NEW c \in Conns, NEW ev \in SUBSET {"R", "W"}, Event(c, ev) PROVE CountInv'
  <2>1. CASE \/ loopAcceptUnknown(c, ev) \/ loopOpened(c, ev) \/ loopWriteNil(c, ev)
             \/ loopWrite(c, ev) \/ loopActionShutdown(c, ev) \/ loopReadStart(c, ev)
    <3>1. UNCHANGED <<status, count, dialing>>
      BY Zenon, <2>1 DEF loopAcceptUnknown, loopOpened, loopWriteNil, loopWrite,
                  loopActionShutdown, loopReadStart, conn, socket
    <3> QED BY Zenon, <1>7, <3>1
  <2> QED BY Zenon, <1>4, <1>8, <2>1 DEF Event
<1>9. CASE \/ \E c \in Conns : PeerSend(c) \/ PeerClose(c) \/ PeerReset(c) \/ PeerDrain(c)
           \/ loopAcceptFail \/ loopReadData \/ loopReadAgain \/ serveDone \/ UNCHANGED vars
  <2>1. UNCHANGED <<status, count, dialing>>
    BY Zenon, <1>9 DEF PeerSend, PeerClose, PeerReset, PeerDrain, loopAcceptFail, loopReadData,
                loopReadAgain, serveDone, vars, conn, socket
  <2> QED BY Zenon, <1>7, <2>1
<1> QED
  BY Zenon, <1>1, <1>2, <1>3, <1>5, <1>6, <1>8, <1>9 DEF Next, Peer, loopRun, serveClose

-----------------------------------------------------------------------------
(* The theorems.                                                            *)

\* A loop starts with no connection, nothing watched and no callback made.
LEMMA LoopInit ==
    ASSUME ConstAssumption, Init
    PROVE  LoopInv
<1>1. TypeOK /\ InputInv
  BY SMTT(30), ConstAssumption, EmptySeq DEF Init, TypeOK, InputInv
<1>2. ConnInv
  BY DEF Init, ConnInv, Sound, Running, InOrder
<1>3. ReadInv
  BY Zenon DEF Init, ReadInv
<1>4. Live = {} /\ Gone = {}
  BY Zenon DEF Init, Live, Gone
<1>5. CountInv
  BY <1>4, FS_EmptySet DEF Init, CountInv, CountIsLive
<1> QED BY Zenon, <1>1, <1>2, <1>3, <1>5 DEF LoopInv

\* The strengthened invariant: types, the callbacks of each connection, what
\* loopRead works on and the count hold in every state of the loop.
THEOREM LoopInvariant == Spec => []LoopInv
<1>1. Init => LoopInv
  BY Zenon, LoopInit, ConstAssumption
<1>2. LoopInv /\ [Next]_vars => LoopInv'
  <2> SUFFICES ASSUME LoopInv, [Next]_vars PROVE LoopInv'
    OBVIOUS
  <2>1. TypeOK' /\ InputInv'
    BY Zenon, LoopType, ConstAssumption
  <2>2. ConnInv' /\ ReadInv'
    BY StepSound
  <2>3. CountInv'
    BY StepCounts
  <2> QED BY Zenon, <2>1, <2>2, <2>3 DEF LoopInv
<1> QED BY <1>1, <1>2, PTL DEF Spec

\* Every variable of the loop keeps its type; no connection has more unread
\* input than its peer sent, nor more room than its socket has.
THEOREM LoopTyped == Spec => []TypeOK
<1>1. LoopInv => TypeOK
  BY DEF LoopInv
<1> QED BY <1>1, LoopInvariant, PTL

\* Opened first and once, Data in between, one last Closed or Detached: the
\* order of callbacks that Events documents (evio.go:99-119), whatever peers
\* do and whatever the handlers return.
THEOREM CallbacksInOrder == Spec => []CallbackOrder
<1>1. LoopInv => CallbackOrder
  <2> SUFFICES ASSUME LoopInv, NEW c \in Conns
               PROVE  \A i \in DOMAIN log[c] :
                        /\ log[c][i] = "Opened" => i = 1
                        /\ log[c][i] \in {"Data", "Detached"} => log[c][1] = "Opened"
                        /\ log[c][i] \in {"Closed", "Detached"} => i = Len(log[c])
                        /\ log[c][i] = "Closed" /\ i = 1 => pc \in {"stopped", "done"}
    BY Zenon DEF CallbackOrder
  <2>1. DOMAIN log[c] = 1..Len(log[c])
    BY DEF LoopInv, TypeOK
  <2>2. InOrder(c)
    BY Zenon DEF LoopInv, ConnInv, Sound
  <2> QED BY Zenon, <2>1, <2>2 DEF InOrder
<1> QED BY <1>1, LoopInvariant, PTL

\* A live connection with buffered output is registered for write events,
\* after any sequence of loopOpened, loopRead and loopWrite.
THEOREM OutputIsWatched == Spec => []BufferedIsWatched
<1>1. LoopInv => BufferedIsWatched
  BY Zenon DEF LoopInv, ConnInv, Sound, BufferedIsWatched, Live
<1> QED BY <1>1, LoopInvariant, PTL

\* loop.count is the number of live connections when they are accepted, and
\* minus the number of ended ones when they are dialed (evio_unix.go:415,
\* outConnect).
THEOREM CountIsExact == Spec => []CountIsLive
<1>1. LoopInv => CountIsLive
  BY Zenon DEF LoopInv, CountInv
<1> QED BY <1>1, LoopInvariant, PTL

-----------------------------------------------------------------------------
(* The end of connections.                                                  *)

\* serve leaves its loop over the connections when none is live, and nothing
\* becomes live after that.
StopInv == pc = "done" => Live = {}

\* Whether a connection has ended, and how.
Ended(c) == status[c] \in {"closed", "detached"}

\* A connection that has ended stays as it is: neither a late event of the
\* same batch nor the shutdown makes another callback for it, counts it down
\* again or watches its descriptor.
NothingAfterEnd ==
    [][\A c \in Conns : Ended(c) =>
          UNCHANGED <<status[c], opened[c], action[c], out[c], interest[c], log[c]>>]_vars

\* A connection that is not the one a step is about is not changed by it.
LEMMA OthersStay ==
    ASSUME TypeOK, NEW c \in Conns, NEW d \in Conns, d # c, NEW name \in Names
    PROVE  /\ CloseConn(c) => UNCHANGED <<status[d], opened[d], action[d], out[d], interest[d], log[d]>>
           /\ Callback(c, name) => UNCHANGED log[d]
  BY Zenon DEF CloseConn, Callback, TypeOK

\* The handlers of loopRun work on a connection that is live.
LEMMA EventLeavesEnded ==
    ASSUME TypeOK, NEW c \in Conns, NEW ev \in SUBSET {"R", "W"}, Event(c, ev),
           NEW d \in Conns, Ended(d)
    PROVE  UNCHANGED <<status[d], opened[d], action[d], out[d], interest[d], log[d]>>
<1> USE DEF Ended
<1>1. CASE loopAcceptUnknown(c, ev)
  BY <1>1 DEF loopAcceptUnknown, conn
<1>2. CASE loopOpened(c, ev)
  <2>1. d # c /\ Callback(c, "Opened") /\ UNCHANGED status
    BY <1>2 DEF loopOpened, Dispatch
  <2>2. /\ out' = out \/ \E o \in {0, 1} : out' = [out EXCEPT ![c] = o]
        /\ \E a \in UserActions : action' = [action EXCEPT ![c] = a]
        /\ opened' = [opened EXCEPT ![c] = TRUE]
        /\ interest' = interest \/ interest' = [interest EXCEPT ![c] = "R"]
    BY Zenon, <1>2 DEF loopOpened, ModReadIfIdle
  <2> QED BY ZenonT(60), <2>1, <2>2, OthersStay DEF TypeOK, Names
<1>3. CASE loopWriteNil(c, ev)
  <2>1. d # c /\ interest' = [interest EXCEPT ![c] = "R"]
        /\ UNCHANGED <<status, opened, action, out, log>>
    BY Zenon, <1>3 DEF loopWriteNil, WriteEvent, Dispatch
  <2> QED BY Zenon, <2>1 DEF TypeOK
<1>4. CASE loopWrite(c, ev)
  <2>1. d # c /\ UNCHANGED <<status, opened, action, log>>
    BY <1>4 DEF loopWrite, WriteEvent, Dispatch
  <2>2. /\ \E n \in 1..out[c] : out' = [out EXCEPT ![c] = @ - n]
        /\ interest' = interest \/ interest' = [interest EXCEPT ![c] = "R"]
    BY Zenon, <1>4 DEF loopWrite, ModReadIfIdle
  <2> QED BY Zenon, <2>1, <2>2 DEF TypeOK
<1>5. CASE loopWriteError(c, ev) \/ loopActionClose(c, ev)
  <2>1. d # c /\ CloseConn(c)
    BY Zenon, <1>5 DEF loopWriteError, loopActionClose, WriteEvent, ActionEvent, Dispatch
  <2> QED BY ZenonT(60), <2>1, OthersStay DEF Names
<1>6. CASE loopActionShutdown(c, ev)
  BY Zenon, <1>6 DEF loopActionShutdown, conn
<1>7. CASE loopDetachConn(c, ev)
  <2>1. /\ d # c /\ Callback(c, "Detached") /\ UNCHANGED <<opened, action, out>>
        /\ status' = [status EXCEPT ![c] = "detached"]
        /\ interest' = [interest EXCEPT ![c] = "none"]
    BY Zenon, <1>7 DEF loopDetachConn, ActionEvent, Dispatch
  <2> QED BY Zenon, <2>1, OthersStay DEF TypeOK, Names
<1>8. CASE loopReadStart(c, ev)
  BY SMTT(30), <1>8 DEF loopReadStart, conn
<1> QED BY Zenon, <1>1, <1>2, <1>3, <1>4, <1>5, <1>6, <1>7, <1>8 DEF Event

\* Every other step of the loop, of serve, of peers and of outConnect.
LEMMA StepLeavesEnded ==
    ASSUME LoopInv, [Next]_vars, NEW d \in Conns, Ended(d)
    PROVE  UNCHANGED <<status[d], opened[d], action[d], out[d], interest[d], log[d]>>
<1> USE DEF Ended
<1>0. TypeOK /\ ReadInv
  BY Zenon DEF LoopInv
<1>1. ASSUME NEW c \in Conns, PeerConnect(c) \/ OutConnectAdd(c) \/ OutConnectTrigger(c)
      PROVE  UNCHANGED <<status[d], opened[d], action[d], out[d], interest[d], log[d]>>
  <2>1. /\ d # c /\ UNCHANGED <<opened, action, out, log>>
        /\ \E s \in {"backlog", "dialed", "noted"} : status' = [status EXCEPT ![c] = s]
        /\ interest' = interest \/ interest' = [interest EXCEPT ![c] = "R"]
    BY SMTT(30), <1>1 DEF PeerConnect, OutConnectAdd, OutConnectTrigger
  <2> QED BY Zenon, <1>0, <2>1 DEF TypeOK
<1>2. CASE \/ \E c \in Conns : PeerSend(c) \/ PeerClose(c) \/ PeerReset(c) \/ PeerDrain(c)
           \/ loopAcceptFail \/ loopReadAgain \/ serveDone \/ UNCHANGED vars
  <2>1. UNCHANGED <<status, interest, opened, action, out, log>>
    BY ZenonT(60), <1>2 DEF PeerSend, PeerClose, PeerReset, PeerDrain, loopAcceptFail,
                loopReadAgain, serveDone, vars, conn
  <2> QED BY Zenon, <2>1
<1>3. CASE StartPass
  BY Zenon, <1>3 DEF StartPass, Noted
<1>4. CASE loopAccept
  <2>1. PICK c \in Conns : /\ status[c] = "backlog"
                           /\ status' = [status EXCEPT ![c] = "live"]
                           /\ interest' = [interest EXCEPT ![c] = "RW"]
    BY Zenon, <1>4 DEF loopAccept
  <2>2. d # c /\ UNCHANGED <<opened, action, out, log>>
    BY Zenon, <1>4, <2>1 DEF loopAccept
  <2> QED BY Zenon, <1>0, <2>1, <2>2 DEF TypeOK
<1>5. CASE loopReadData
  <2>1. /\ cur \in Conns /\ d # cur /\ Callback(cur, "Data") /\ UNCHANGED <<status, opened>>
    BY Zenon, <1>0, <1>5 DEF loopReadData, ReadInv
  <2>2. /\ \E o \in {0, 1} : out' = [out EXCEPT ![cur] = @ + o]
        /\ \E a \in UserActions : action' = [action EXCEPT ![cur] = a]
        /\ interest' = interest \/ interest' = [interest EXCEPT ![cur] = "RW"]
    BY ZenonT(60), <1>5 DEF loopReadData
  <2> QED BY ZenonT(60), <1>0, <2>1, <2>2, OthersStay DEF TypeOK, Names
<1>6. CASE loopReadClose \/ \E c \in Conns : serveCloseConn(c)
  <2>1. \E c \in Conns : d # c /\ CloseConn(c)
    BY Zenon, <1>0, <1>6 DEF loopReadClose, serveCloseConn, ReadInv
  <2> QED BY Zenon, <1>0, <2>1, OthersStay DEF Names
<1> QED
  BY ZenonT(60), <1>0, <1>1, <1>2, <1>3, <1>4, <1>5, <1>6, EventLeavesEnded
     DEF Next, Peer, loopRun, serveClose

\* No handler of an event ends serve: that is left to its deferred part.
LEMMA EventGoesOn ==
    ASSUME NEW c \in Conns, NEW ev \in SUBSET {"R", "W"}, Event(c, ev)
    PROVE  pc' # "done"
<1>1. CASE loopAcceptUnknown(c, ev) \/ loopOpened(c, ev) \/ loopReadStart(c, ev)
  BY Zenon, <1>1 DEF loopAcceptUnknown, loopOpened, loopReadStart, Done
<1>2. CASE loopWriteNil(c, ev) \/ loopWrite(c, ev) \/ loopWriteError(c, ev)
  BY Zenon, <1>2 DEF loopWriteNil, loopWrite, loopWriteError, Done, Fail, DoneOrShutdown
<1>3. CASE loopActionClose(c, ev) \/ loopActionShutdown(c, ev) \/ loopDetachConn(c, ev)
  BY <1>3 DEF loopActionClose, loopActionShutdown, loopDetachConn, Done, Fail, DoneOrShutdown
<1> QED BY ZenonT(60), <1>1, <1>2, <1>3 DEF Event

\* No connection is live when serve has closed them all (evio_unix.go:162-168).
LEMMA StepStops == ASSUME LoopInv, StopInv, [Next]_vars PROVE StopInv'
<1> SUFFICES ASSUME pc' = "done" PROVE Live' = {}
  BY Zenon DEF StopInv
<1>1. CASE serveDone
  BY <1>1 DEF serveDone, conn, Live
<1>2. CASE loopRun
  <2>1. StartPass \/ loopAccept \/ loopAcceptFail => pc' # "done"
    BY Zenon DEF StartPass, loopAccept, loopAcceptFail, Done, Fail
  <2>2. loopReadData \/ loopReadAgain \/ loopReadClose => pc' # "done"
    BY Zenon DEF loopReadData, loopReadAgain, loopReadClose, Done, Fail, DoneOrShutdown
  <2> QED BY ZenonT(60), <1>2, <2>1, <2>2, EventGoesOn DEF loopRun
<1>3. ASSUME NEW c \in Conns, serveCloseConn(c) PROVE FALSE
  BY Zenon, <1>3 DEF serveCloseConn
<1>4. ASSUME NEW c \in Conns, Peer(c) \/ OutConnectAdd(c) \/ OutConnectTrigger(c) PROVE Live' = {}
  <2>1. pc = "done" /\ (UNCHANGED status
                         \/ \E x \in {"backlog", "dialed", "noted"} : status' = [status EXCEPT ![c] = x])
    BY Zenon, <1>4 DEF Peer, PeerConnect, PeerSend, PeerClose, PeerReset, PeerDrain,
                OutConnectAdd, OutConnectTrigger, conn
  <2>2. \A d \in Conns : status'[d] = status[d] \/ status'[d] \in {"backlog", "dialed", "noted"}
    BY Zenon, <2>1 DEF LoopInv, TypeOK
  <2> QED BY Zenon, <2>1, <2>2 DEF StopInv, Live
<1>5. CASE UNCHANGED vars
  BY <1>5 DEF vars, StopInv, Live
<1> QED BY Zenon, <1>1, <1>2, <1>3, <1>4, <1>5 DEF Next, serveClose

\* Once Closed or Detached has been called for a connection no step changes
\* it: not a further event of the batch that ended it, nor the shutdown.
THEOREM EndIsFinal == Spec => NothingAfterEnd
<1>1. LoopInv /\ [Next]_vars
        => [\A c \in Conns : Ended(c) =>
              UNCHANGED <<status[c], opened[c], action[c], out[c], interest[c], log[c]>>]_vars
  BY Zenon, StepLeavesEnded
<1> QED BY <1>1, LoopInvariant, PTL DEF Spec, NothingAfterEnd

\* "close loops and all outstanding connections" (evio_unix.go:162) is true of
\* a server that listens: when serve is done no accepted connection is open.
THEOREM ListenerClosesAll == Spec => [](~dialing => AllClosedAtStop)
<1>1. Init => StopInv
  BY DEF Init, StopInv
<1>2. LoopInv /\ StopInv /\ [Next]_vars => StopInv'
  BY Zenon, StepStops
<1>3. LoopInv /\ StopInv => (~dialing => AllClosedAtStop)
  BY DEF LoopInv, TypeOK, CountInv, StopInv, Live, AllClosedAtStop
<1> QED BY <1>1, <1>2, <1>3, LoopInvariant, PTL DEF Spec
=============================================================================
