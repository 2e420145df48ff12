------------------------------ MODULE ConnLoop ------------------------------
(***************************************************************************)
(* The connections of one event loop (evio_unix.go): how a connection       *)
(* enters the loop (loopAccept, or outConnect and its note), what the       *)
(* dispatch of loopRun does with the events of one epoll pass (loopOpened,  *)
(* loopWrite, loopRead, loopAction, loopCloseConn, loopDetachConn), and     *)
(* what serve closes when the loop has ended.                               *)
(*                                                                         *)
(* The user's handlers return any output and any action of UserActions.     *)
(* Bytes are units: a unit of input is what one read returns, a unit of     *)
(* output what one handler call writes.  Notes follow the NoteMailbox       *)
(* promise.  Conn.Send from other goroutines is in ConnSend.                *)
(***************************************************************************)
EXTENDS Integers, Sequences, FiniteSets

CONSTANTS
    Conns,              \* connection objects, each used once
    Modes,              \* the values of dialing considered
    UserActions,        \* what Opened and Data may return
    HasDetached,        \* events.Detached # nil
    MaxIn,              \* bound: units a peer sends on a connection
    Space               \* room of a socket's send buffer

ASSUME ConstAssumption ==
    /\ Modes \subseteq BOOLEAN
    /\ "None" \in UserActions
    /\ UserActions \subseteq {"None", "Close", "Detach", "Shutdown"}
    /\ HasDetached \in BOOLEAN
    /\ MaxIn \in Nat /\ Space \in Nat \ {0}

VARIABLES
    dialing,            \* TRUE: ConnServe and outConnect; FALSE: Serve and accept
    status,             \* unused, backlog, dialed, noted, live (in fdconns), closed, detached
    interest,           \* the epoll registration: none, R or RW
    opened, action, out,\* conn.opened, conn.action, units of conn.out (0 is nil)
    count,              \* loop.count
    inq, peer, sent,    \* socket: unread units; open, fin or reset; units the peer sent
    room,               \* socket: free units of the send buffer
    pc,                 \* poll, batch, read, stopped, done
    batch,              \* the events of this pass still to be dispatched
    cur,                \* the connection loopRead is working on
    log                 \* history: the callbacks made for each connection

conn   == <<status, interest, opened, action, out, count, log>>
socket == <<inq, peer, sent, room, dialing>>
vars   == <<dialing, status, interest, opened, action, out, count, log, inq, peer,
            sent, room, pc, batch, cur>>

Listener == <<"listener", {"R"}>>
Nobody == "nobody"

TypeOK ==
    /\ dialing \in Modes
    /\ status \in [Conns -> {"unused", "backlog", "dialed", "noted", "live",
                             "closed", "detached"}]
    /\ interest \in [Conns -> {"none", "R", "RW"}]
    /\ opened \in [Conns -> BOOLEAN]
    /\ action \in [Conns -> UserActions]
    /\ out \in [Conns -> Nat]
    /\ count \in Int
    /\ inq \in [Conns -> 0..MaxIn] /\ sent \in [Conns -> 0..MaxIn]
    /\ peer \in [Conns -> {"open", "fin", "reset"}]
    /\ room \in [Conns -> 0..Space]
    /\ pc \in {"poll", "batch", "read", "stopped", "done"}
    /\ batch \subseteq ((Conns \X SUBSET {"R", "W"}) \cup {Listener})
    /\ cur \in Conns \cup {Nobody}
    /\ log \in [Conns -> Seq({"Opened", "Data", "Closed", "Detached"})]

Init ==
    /\ dialing \in Modes
    /\ status = [c \in Conns |-> "unused"]
    /\ interest = [c \in Conns |-> "none"]
    /\ opened = [c \in Conns |-> FALSE]
    /\ action = [c \in Conns |-> "None"]
    /\ out = [c \in Conns |-> 0]
    /\ count = 0
    /\ inq = [c \in Conns |-> 0] /\ sent = [c \in Conns |-> 0]
    /\ peer = [c \in Conns |-> "open"]
    /\ room = [c \in Conns |-> Space]
    /\ pc = "poll" /\ batch = {} /\ cur = Nobody
    /\ log = [c \in Conns |-> << >>]

Live == {c \in Conns : status[c] = "live"}

-----------------------------------------------------------------------------
(* The world outside the loop: peers and the goroutine that dials.          *)

PeerConnect(c) ==
    /\ ~dialing /\ status[c] = "unused"
    /\ status' = [status EXCEPT ![c] = "backlog"]
    /\ UNCHANGED <<interest, opened, action, out, count, log, socket, pc, batch, cur>>

\* outConnect: the socket is connected and watched for reading ...
OutConnectAdd(c) ==
    /\ dialing /\ status[c] = "unused" /\ pc \notin {"stopped", "done"}
    /\ status' = [status EXCEPT ![c] = "dialed"]
    /\ interest' = [interest EXCEPT ![c] = "R"]
    /\ UNCHANGED <<opened, action, out, count, log, socket, pc, batch, cur>>

\* ... and only then announced to the loop.
OutConnectTrigger(c) ==
    /\ status[c] = "dialed"
    /\ status' = [status EXCEPT ![c] = "noted"]
    /\ UNCHANGED <<interest, opened, action, out, count, log, socket, pc, batch, cur>>

Connected(c) == status[c] \notin {"unused", "closed", "detached"}

PeerSend(c) ==
    /\ Connected(c) /\ peer[c] = "open" /\ sent[c] < MaxIn
    /\ inq' = [inq EXCEPT ![c] = @ + 1]
    /\ sent' = [sent EXCEPT ![c] = @ + 1]
    /\ UNCHANGED <<conn, peer, room, pc, batch, cur, dialing>>

PeerClose(c) ==
    /\ Connected(c) /\ peer[c] = "open"
    /\ peer' = [peer EXCEPT ![c] = "fin"]
    /\ UNCHANGED <<conn, inq, sent, room, pc, batch, cur, dialing>>

PeerReset(c) ==
    /\ Connected(c) /\ peer[c] # "reset"
    /\ peer' = [peer EXCEPT ![c] = "reset"]
    /\ UNCHANGED <<conn, inq, sent, room, pc, batch, cur, dialing>>

PeerDrain(c) ==
    /\ room[c] < Space
    /\ room' = [room EXCEPT ![c] = @ + 1]
    /\ UNCHANGED <<conn, inq, peer, sent, pc, batch, cur, dialing>>

-----------------------------------------------------------------------------
(* The loop.                                                                *)

\* What epoll reports for a watched descriptor.
Ready(c) ==
    {e \in {"R", "W"} :
        \/ e = "R" /\ interest[c] # "none" /\ (inq[c] > 0 \/ peer[c] # "open")
        \/ e = "W" /\ interest[c] = "RW" /\ (room[c] > 0 \/ peer[c] = "reset")}

ReadyEvents ==
    {<<c, Ready(c)>> : c \in {d \in Conns : Ready(d) # {}}}
      \cup {l \in {Listener} : \E c \in Conns : status[c] = "backlog"}

Noted == {c \in Conns : status[c] = "noted"}

\* Mutant: a noted connection is not watched for writing.
StartPassNoWrite ==
    /\ pc = "poll"
    /\ ReadyEvents # {} \/ Noted # {}
    /\ batch' = ReadyEvents
    /\ status' = [c \in Conns |-> IF c \in Noted THEN "live" ELSE status[c]]
    /\ pc' = IF batch' = {} THEN "poll" ELSE "batch"
    /\ UNCHANGED <<interest, opened, action, out, count, log, socket, cur>>

\* One return of Wait's kernel call, and the notes: a noted connection enters
\* fdconns and is watched for both directions.
StartPass ==
    /\ pc = "poll"
    /\ ReadyEvents # {} \/ Noted # {}
    /\ batch' = ReadyEvents
    /\ status' = [c \in Conns |-> IF c \in Noted THEN "live" ELSE status[c]]
    /\ interest' = [c \in Conns |-> IF c \in Noted THEN "RW" ELSE interest[c]]
    /\ pc' = IF batch' = {} THEN "poll" ELSE "batch"
    /\ UNCHANGED <<opened, action, out, count, log, socket, cur>>

\* The handler of events es returned without an error: go on with the batch.
Done(es) ==
    /\ batch' = batch \ es
    /\ pc' = IF batch \ es = {} THEN "poll" ELSE "batch"

\* A handler returned an error: Wait and loopRun end.
Fail ==
    /\ batch' = {}
    /\ pc' = "stopped"

\* A callback that may only ask for None or Shutdown ends the handler.
DoneOrShutdown(es) == Done(es) \/ ("Shutdown" \in UserActions /\ Fail)

Callback(c, name) == log' = [log EXCEPT ![c] = Append(@, name)]

\* loopCloseConn, without the result of the Closed callback.
CloseConn(c) ==
    /\ count' = count - 1
    /\ status' = [status EXCEPT ![c] = "closed"]
    /\ interest' = [interest EXCEPT ![c] = "none"]
    /\ Callback(c, "Closed")
    /\ UNCHANGED <<opened, action, out>>

loopAccept ==
    /\ pc = "batch" /\ Listener \in batch
    /\ \E c \in Conns :
         /\ status[c] = "backlog"
         /\ status' = [status EXCEPT ![c] = "live"]
         /\ interest' = [interest EXCEPT ![c] = "RW"]
    /\ count' = count + 1
    /\ Done({Listener})
    /\ UNCHANGED <<opened, action, out, log, socket, cur>>

\* An error of accept(2) other than EAGAIN ends the loop.
loopAcceptFail ==
    /\ pc = "batch" /\ Listener \in batch
    /\ Fail
    /\ UNCHANGED <<conn, socket, cur>>

\* An event of a dialed connection whose note has not been handled: the
\* descriptor is in no map and belongs to no listener.
loopAcceptUnknown(c, ev) ==
    /\ pc = "batch" /\ <<c, ev>> \in batch /\ c \notin Live
    /\ Done({<<c, ev>>})
    /\ UNCHANGED <<conn, socket, cur>>

\* The dispatch switch of loopRun for a connection of this loop.
Dispatch(c, ev) == pc = "batch" /\ <<c, ev>> \in batch /\ status[c] = "live"

\* ModRead, when nothing is left to write and no action is pending.
ModReadIfIdle(c) ==
    interest' = IF out'[c] = 0 /\ action'[c] = "None"
                THEN [interest EXCEPT ![c] = "R"] ELSE interest

\* Mutant: c.opened is not set.
loopOpenedAgain(c, ev) ==
    /\ Dispatch(c, ev) /\ ~opened[c]
    /\ \E o \in {0, 1}, a \in UserActions :
         /\ out' = IF o > 0 THEN [out EXCEPT ![c] = o] ELSE out
         /\ action' = [action EXCEPT ![c] = a]
    /\ Callback(c, "Opened")
    /\ ModReadIfIdle(c)
    /\ Done({<<c, ev>>})
    /\ UNCHANGED <<status, opened, count, socket, cur>>

loopOpened(c, ev) ==
    /\ Dispatch(c, ev) /\ ~opened[c]
    /\ opened' = [opened EXCEPT ![c] = TRUE]
    /\ \E o \in {0, 1}, a \in UserActions :
         /\ out' = IF o > 0 THEN [out EXCEPT ![c] = o] ELSE out
         /\ action' = [action EXCEPT ![c] = a]
    /\ Callback(c, "Opened")
    /\ ModReadIfIdle(c)
    /\ Done({<<c, ev>>})
    /\ UNCHANGED <<status, count, socket, cur>>

WriteEvent(c, ev) == Dispatch(c, ev) /\ opened[c] /\ "W" \in ev

\* loopWrite with an empty buffer: stop watching for writing and go on to
\* loopRead, whatever action is pending.
loopWriteNil(c, ev) ==
    /\ WriteEvent(c, ev) /\ out[c] = 0
    /\ interest' = [interest EXCEPT ![c] = "R"]
    /\ pc' = "read" /\ cur' = c /\ batch' = batch \ {<<c, ev>>}
    /\ UNCHANGED <<status, opened, action, out, count, log, socket>>

\* Mutant: one unit too many is cut from the buffer.
loopWriteOver(c, ev) ==
    /\ WriteEvent(c, ev) /\ out[c] > 0 /\ peer[c] # "reset" /\ room[c] > 0
    /\ out' = [out EXCEPT ![c] = @ - room[c] - 1]
    /\ room' = [room EXCEPT ![c] = 0]
    /\ UNCHANGED action
    /\ ModReadIfIdle(c)
    /\ Done({<<c, ev>>})
    /\ UNCHANGED <<status, opened, count, log, inq, peer, sent, cur, dialing>>

loopWrite(c, ev) ==
    /\ WriteEvent(c, ev) /\ out[c] > 0 /\ peer[c] # "reset" /\ room[c] > 0
    /\ \E n \in 1..out[c] :
         /\ n <= room[c]
         /\ out' = [out EXCEPT ![c] = @ - n]
         /\ room' = [room EXCEPT ![c] = @ - n]
    /\ UNCHANGED action
    /\ ModReadIfIdle(c)
    /\ Done({<<c, ev>>})
    /\ UNCHANGED <<status, opened, count, log, inq, peer, sent, cur, dialing>>

loopWriteError(c, ev) ==
    /\ WriteEvent(c, ev) /\ out[c] > 0 /\ peer[c] = "reset"
    /\ CloseConn(c)
    /\ DoneOrShutdown({<<c, ev>>})
    /\ UNCHANGED <<socket, cur>>

ActionEvent(c, ev) ==
    Dispatch(c, ev) /\ opened[c] /\ "W" \notin ev /\ action[c] # "None"

\* Close, or Detach without a Detached handler.
loopActionClose(c, ev) ==
    /\ ActionEvent(c, ev)
    /\ action[c] = "Close" \/ (action[c] = "Detach" /\ ~HasDetached)
    /\ CloseConn(c)
    /\ DoneOrShutdown({<<c, ev>>})
    /\ UNCHANGED <<socket, cur>>

loopActionShutdown(c, ev) ==
    /\ ActionEvent(c, ev) /\ action[c] = "Shutdown"
    /\ Fail
    /\ UNCHANGED <<conn, socket, cur>>

\* Mutant: a detached connection stays in the count.
loopDetachConnCounted(c, ev) ==
    /\ ActionEvent(c, ev) /\ action[c] = "Detach" /\ HasDetached
    /\ status' = [status EXCEPT ![c] = "detached"]
    /\ interest' = [interest EXCEPT ![c] = "none"]
    /\ Callback(c, "Detached")
    /\ DoneOrShutdown({<<c, ev>>})
    /\ UNCHANGED <<opened, action, out, count, socket, cur>>

loopDetachConn(c, ev) ==
    /\ ActionEvent(c, ev) /\ action[c] = "Detach" /\ HasDetached
    /\ count' = count - 1
    /\ status' = [status EXCEPT ![c] = "detached"]
    /\ interest' = [interest EXCEPT ![c] = "none"]
    /\ Callback(c, "Detached")
    /\ DoneOrShutdown({<<c, ev>>})
    /\ UNCHANGED <<opened, action, out, socket, cur>>

loopReadStart(c, ev) ==
    /\ Dispatch(c, ev) /\ opened[c] /\ "W" \notin ev /\ action[c] = "None"
    /\ pc' = "read" /\ cur' = c /\ batch' = batch \ {<<c, ev>>}
    /\ UNCHANGED <<conn, socket>>

\* Mutant: output is buffered without asking for write events.
loopReadDataUnwatched ==
    /\ pc = "read" /\ inq[cur] > 0 /\ peer[cur] # "reset"
    /\ inq' = [inq EXCEPT ![cur] = @ - 1]
    /\ \E o \in {0, 1}, a \in UserActions :
         /\ action' = [action EXCEPT ![cur] = a]
         /\ out' = [out EXCEPT ![cur] = @ + o]
    /\ Callback(cur, "Data")
    /\ UNCHANGED <<status, interest, opened, count, peer, sent, room, pc, batch, cur, dialing>>

\* One turn of loopRead's loop: a read returned input.  The action of this
\* call of Data replaces that of the call before.
loopReadData ==
    /\ pc = "read" /\ inq[cur] > 0 /\ peer[cur] # "reset"
    /\ inq' = [inq EXCEPT ![cur] = @ - 1]
    /\ \E o \in {0, 1}, a \in UserActions :
         /\ action' = [action EXCEPT ![cur] = a]
         /\ out' = [out EXCEPT ![cur] = @ + o]
         /\ interest' = IF o > 0 \/ a # "None"
                        THEN [interest EXCEPT ![cur] = "RW"] ELSE interest
    /\ Callback(cur, "Data")
    /\ UNCHANGED <<status, opened, count, peer, sent, room, pc, batch, cur, dialing>>

loopReadAgain ==
    /\ pc = "read" /\ inq[cur] = 0 /\ peer[cur] = "open"
    /\ Done({})
    /\ cur' = Nobody
    /\ UNCHANGED <<conn, socket>>

\* Mutant: a read of length zero is taken for "try again".
loopReadEofAgain ==
    /\ pc = "read"
    /\ peer[cur] = "reset" \/ (peer[cur] = "fin" /\ inq[cur] = 0)
    /\ Done({})
    /\ cur' = Nobody
    /\ UNCHANGED <<conn, socket>>

\* End of file or an error.
loopReadClose ==
    /\ pc = "read"
    /\ peer[cur] = "reset" \/ (peer[cur] = "fin" /\ inq[cur] = 0)
    /\ CloseConn(cur)
    /\ DoneOrShutdown({})
    /\ cur' = Nobody
    /\ UNCHANGED socket

\* serve, after the loop has ended: close the outstanding connections.
serveCloseConn(c) ==
    /\ pc = "stopped" /\ status[c] = "live"
    /\ CloseConn(c)
    /\ UNCHANGED <<socket, pc, batch, cur>>

serveDone ==
    /\ pc = "stopped" /\ Live = {}
    /\ pc' = "done"
    /\ UNCHANGED <<conn, socket, batch, cur>>

-----------------------------------------------------------------------------
Peer(c) == PeerConnect(c) \/ PeerSend(c) \/ PeerClose(c) \/ PeerReset(c) \/ PeerDrain(c)

Event(c, ev) ==
    \/ loopAcceptUnknown(c, ev)
    \/ loopOpened(c, ev)
    \/ loopWriteNil(c, ev) \/ loopWrite(c, ev) \/ loopWriteError(c, ev)
    \/ loopActionClose(c, ev) \/ loopActionShutdown(c, ev) \/ loopDetachConn(c, ev)
    \/ loopReadStart(c, ev)

loopRun ==
    \/ StartPass
    \/ loopAccept \/ loopAcceptFail
    \/ \E c \in Conns, ev \in SUBSET {"R", "W"} : Event(c, ev)
    \/ loopReadData \/ loopReadAgain \/ loopReadClose

serveClose == (\E c \in Conns : serveCloseConn(c)) \/ serveDone

Next ==
    \/ \E c \in Conns : Peer(c) \/ OutConnectAdd(c) \/ OutConnectTrigger(c)
    \/ loopRun
    \/ serveClose

\* The loop's goroutine and serve's keep running, and a dial that has begun
\* is completed.  Peers owe nothing.
Fairness ==
    /\ WF_vars(loopRun) /\ WF_vars(serveClose)
    /\ \A c \in Conns : WF_vars(OutConnectTrigger(c))

Spec == Init /\ [][Next]_vars /\ Fairness

\* The same loop with peers that read what they are sent.
DrainSpec == Spec /\ \A c \in Conns : WF_vars(PeerDrain(c))

-----------------------------------------------------------------------------
(* Properties.                                                              *)

\* The callbacks of a connection follow the contract of Events (evio.go:99-119):
\* Opened first and once, Data in between, one last Closed or Detached and
\* nothing after it.  Only the shutdown closes a connection never opened.
CallbackOrder ==
    \A c \in Conns : \A i \in DOMAIN log[c] :
        /\ log[c][i] = "Opened" => i = 1
        /\ log[c][i] \in {"Data", "Detached"} => log[c][1] = "Opened"
        /\ log[c][i] \in {"Closed", "Detached"} => i = Len(log[c])
        /\ log[c][i] = "Closed" /\ i = 1 => pc \in {"stopped", "done"}

\* Output that is buffered is watched for: epoll will report when the socket
\* can take it, whichever of loopOpened, loopRead and loopWrite came last.
BufferedIsWatched ==
    \A c \in Live : out[c] > 0 => interest[c] = "RW"

Gone == {c \in Conns : status[c] \in {"closed", "detached"}}

\* What loop.count, which the LeastConnections balance compares, says: with
\* accepted connections it is the number of connections of the loop
\* (evio_unix.go:415); with dialed ones, which outConnect does not add, it is
\* below zero by those that have ended.
CountIsLive ==
    count = IF dialing THEN -Cardinality(Gone) ELSE Cardinality(Live)

\* A connection whose peer has gone away is closed by the loop.
PeerGoneCloses ==
    \A c \in Conns : (status[c] = "live" /\ peer[c] # "open") ~> status[c] # "live"

\* A connection that was accepted by the kernel, or dialed and noted, is
\* opened, unless the server shuts down.
OpenedFires ==
    \A c \in Conns :
        status[c] \in {"backlog", "noted"} ~> (opened[c] \/ pc \in {"stopped", "done"})

\* Buffered output reaches a peer that reads, or the connection ends.
OutputFlushed ==
    \A c \in Conns : out[c] > 0 ~> (out[c] = 0 \/ status[c] # "live")

\* "Close closes the connection." (evio.go:23)
CloseTakesEffect ==
    \A c \in Conns : (status[c] = "live" /\ action[c] = "Close") ~> status[c] # "live"

\* "Action is an action that occurs after the completion of an event."
\* (evio.go:15): no further event of the connection comes before it.
ActionBeforeNextData ==
    [][\A c \in Conns :
          log'[c] = Append(log[c], "Data") => action[c] = "None"]_vars

\* "close loops and all outstanding connections" (evio_unix.go:162)
AllClosedAtStop ==
    pc = "done" =>
        \A c \in Conns : status[c] \in {"unused", "backlog", "closed", "detached"}
=============================================================================
