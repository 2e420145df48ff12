------------------------------- MODULE Accept -------------------------------
(***************************************************************************)
(* How connections come to the loops of a server (evio_unix.go).  All loops *)
(* of a listening server watch the same listener, level triggered, so that  *)
(* one client wakes them all; loopAccept then decides, by LoadBalance and   *)
(* without a lock, which of them takes it.  In a dialing server other       *)
(* goroutines call outConnect, which chooses a loop, possibly before serve  *)
(* has created them.                                                        *)
(*                                                                         *)
(* The loops, their notes and the life of the server are those of Serve.    *)
(***************************************************************************)
EXTENDS Serve, FiniteSets

CONSTANTS
    Balances,           \* subset of random, roundrobin, least
    MaxClients          \* clients, or packets, that come to the listener

ASSUME AcceptAssumption ==
    /\ Balances \subseteq {"random", "roundrobin", "least"}
    /\ MaxClients \in Nat

VARIABLES
    balance,            \* rigid: s.balance
    clients,            \* clients that have still to come
    pending,            \* clients or packets waiting at the listener
    accepted,           \* s.accepted
    count,              \* loops: count
    conns,              \* loops: number of entries of fdconns
    turns,              \* loops: turns taken (history)
    seen,               \* loops: how far the scan over s.loops has come
    dpc, didx,          \* dialers: position, chosen loop
    dscan,              \* dialers: length of s.loops, how far the scan has come, minConn
    closed              \* a connection has been closed (history)

dialvars == <<dpc, didx, dscan>>
listenvars == <<clients, pending, turns>>
avars == <<balance, clients, pending, accepted, count, conns, turns, seen, dialvars, closed>>
allvars == <<vars, avars>>

AcceptTypeOK ==
    /\ TypeOK
    /\ balance \in Balances
    /\ clients \in 0..MaxClients /\ pending \in 0..MaxClients
    /\ accepted \in Nat /\ count \in [Loops -> Int]
    /\ conns \in [Loops -> Nat] /\ turns \in [Loops -> Nat]
    /\ seen \in [Loops -> 0..NumLoops]
    /\ dpc \in [Dialers -> {"dial", "scan", "add", "trigger", "noted", "done", "panic"}]
    /\ didx \in [Dialers -> Loops]
    /\ dscan \in [Dialers -> [len : 0..NumLoops, at : 0..NumLoops, min : Int]]
    /\ closed \in BOOLEAN

NoScan == [len |-> 0, at |-> 0, min |-> 0]

AcceptInit ==
    /\ Init
    /\ balance \in Balances
    /\ clients = (IF kind = "dialing" THEN 0 ELSE MaxClients) /\ pending = 0
    /\ accepted = 0
    /\ count = [i \in Loops |-> 0] /\ conns = [i \in Loops |-> 0]
    /\ turns = [i \in Loops |-> 0]
    /\ seen = [i \in Loops |-> 0]
    /\ dpc = [d \in Dialers |-> IF kind = "dialing" THEN "dial" ELSE "done"]
    /\ didx = [d \in Dialers |-> 1]
    /\ dscan = [d \in Dialers |-> NoScan]
    /\ closed = FALSE

Goto(i, where) ==
    /\ lpc' = [lpc EXCEPT ![i] = where]
    /\ UNCHANGED <<kind, lns, spc, nxt, lerr, notes, poll, tpc, wg>>

-----------------------------------------------------------------------------
(* loopAccept                                                               *)

\* Clients connect, or packets arrive, once the listener is open.
ClientComes ==
    /\ clients > 0 /\ \E n \in Listeners : lns[n] = "listed"
    /\ clients' = clients - 1 /\ pending' = pending + 1
    /\ UNCHANGED <<vars, balance, accepted, count, conns, turns, seen, dialvars, closed>>

\* The listener is ready; by the time it is handled it may not be any more.
ListenerEvent(i) ==
    /\ lpc[i] = "run" /\ pending > 0
    /\ Goto(i, "event")
    /\ UNCHANGED avars

\* No choice is to be made.
acceptRandom(i) ==
    /\ lpc[i] = "event" /\ (NumLoops = 1 \/ balance = "random")
    /\ Goto(i, "accept")
    /\ UNCHANGED avars

\* Mutant: the turn is not looked at.
acceptTurnAny(i) ==
    /\ lpc[i] = "event" /\ NumLoops > 1 /\ balance = "roundrobin"
    /\ Goto(i, "turn")
    /\ UNCHANGED avars

\* Mutant: loops are numbered from 1.
acceptTurnOff(i) ==
    /\ lpc[i] = "event" /\ NumLoops > 1 /\ balance = "roundrobin"
    /\ Goto(i, IF accepted % NumLoops = i THEN "turn" ELSE "run")
    /\ UNCHANGED avars

\* RoundRobin: the load of the counter, and later the addition.
acceptTurn(i) ==
    /\ lpc[i] = "event" /\ NumLoops > 1 /\ balance = "roundrobin"
    /\ Goto(i, IF accepted % NumLoops = i - 1 THEN "turn" ELSE "run")
    /\ UNCHANGED avars

acceptAdd(i) ==
    /\ lpc[i] = "turn"
    /\ Goto(i, "accept")
    /\ accepted' = accepted + 1
    /\ turns' = [turns EXCEPT ![i] = @ + 1]
    /\ UNCHANGED <<balance, clients, pending, count, conns, seen, dialvars, closed>>

acceptScan(i) ==
    /\ lpc[i] = "event" /\ NumLoops > 1 /\ balance = "least"
    /\ Goto(i, "scan")
    /\ UNCHANGED avars

\* Mutant: the loop with the most connections takes it.
acceptCompareMost(i) ==
    /\ lpc[i] = "scan"
    /\ LET l == seen[i] + 1
           go == IF count[l] > count[i] THEN "run"
                 ELSE IF l = NumLoops THEN "accept" ELSE "scan"
       IN  Goto(i, go) /\ seen' = [seen EXCEPT ![i] = IF go = "scan" THEN l ELSE 0]
    /\ UNCHANGED <<balance, listenvars, accepted, count, conns, dialvars, closed>>

\* LeastConnections: one load per loop; its own count only i itself changes.
acceptCompare(i) ==
    /\ lpc[i] = "scan"
    /\ LET l == seen[i] + 1
           go == IF count[l] < count[i] THEN "run"
                 ELSE IF l = NumLoops THEN "accept" ELSE "scan"
       IN  Goto(i, go) /\ seen' = [seen EXCEPT ![i] = IF go = "scan" THEN l ELSE 0]
    /\ UNCHANGED <<balance, listenvars, accepted, count, conns, dialvars, closed>>

\* Accept, or Recvfrom: EAGAIN when another loop was faster.
acceptAgain(i) ==
    /\ lpc[i] = "accept" /\ pending = 0
    /\ Goto(i, "run")
    /\ UNCHANGED avars

\* Accept fails, SetNonblock does with the connection taken, or Data returns
\* Shutdown for a packet.
acceptError(i) ==
    /\ lpc[i] = "accept" /\ pending > 0
    /\ Goto(i, "end")
    /\ pending' = pending - 1 \/ (kind = "tcp" /\ UNCHANGED pending)
    /\ UNCHANGED <<balance, clients, accepted, count, conns, turns, seen, dialvars, closed>>

\* loopUDPRead: the packet goes to Data.
loopUDPRead(i) ==
    /\ kind = "udp" /\ lpc[i] = "accept" /\ pending > 0
    /\ Goto(i, "run")
    /\ pending' = pending - 1
    /\ UNCHANGED <<balance, clients, accepted, count, conns, turns, seen, dialvars, closed>>

acceptConn(i) ==
    /\ kind = "tcp" /\ lpc[i] = "accept" /\ pending > 0
    /\ Goto(i, "count")
    /\ pending' = pending - 1
    /\ conns' = [conns EXCEPT ![i] = @ + 1]
    /\ UNCHANGED <<balance, clients, accepted, count, turns, seen, dialvars, closed>>

acceptCount(i) ==
    /\ lpc[i] = "count"
    /\ Goto(i, "run")
    /\ count' = [count EXCEPT ![i] = @ + 1]
    /\ UNCHANGED <<balance, listenvars, accepted, conns, seen, dialvars, closed>>

loopAccept(i) ==
    \/ acceptRandom(i) \/ acceptTurn(i) \/ acceptAdd(i) \/ acceptScan(i) \/ acceptCompare(i)
    \/ acceptAgain(i) \/ acceptError(i) \/ loopUDPRead(i) \/ acceptConn(i) \/ acceptCount(i)

-----------------------------------------------------------------------------
(* outConnect                                                               *)

Dial(d, where) ==
    /\ dpc' = [dpc EXCEPT ![d] = where]
    /\ UNCHANGED <<balance, listenvars, count, conns, seen, closed>>

\* s.loops as a dialer sees it.
Created == {i \in Loops : poll[i] # "none"}

\* Nothing orders this read of s.loops and serve's appends to it: without
\* loops the index 0 is out of range, and so may be a half-written slice.
outConnectPanic(d) ==
    /\ dpc[d] = "dial" /\ (Created = {} \/ spc = "create")
    /\ Dial(d, "panic")
    /\ UNCHANGED <<vars, accepted, didx, dscan>>

outConnectPick(d) ==
    LET n == Cardinality(Created) IN
    /\ dpc[d] = "dial" /\ n > 0
    /\ IF n > 1 /\ balance = "least"
         THEN /\ Dial(d, "scan") /\ didx' = [didx EXCEPT ![d] = 1]
              /\ dscan' = [dscan EXCEPT ![d] = [len |-> n, at |-> 1, min |-> count[1]]]
         ELSE Dial(d, "add") /\ UNCHANGED dscan
    /\ \/ (n = 1 \/ balance = "least") /\ didx' = [didx EXCEPT ![d] = 1] /\ UNCHANGED accepted
       \/ /\ n > 1 /\ balance = "random"
          /\ \E i \in Created : didx' = [didx EXCEPT ![d] = i]
          /\ UNCHANGED accepted
       \/ /\ n > 1 /\ balance = "roundrobin"
          /\ accepted' = accepted + 1
          /\ didx' = [didx EXCEPT ![d] = (accepted' % n) + 1]
    /\ UNCHANGED vars

\* The count of one loop after the other, against the least one so far.
outConnectScan(d) ==
    LET at == dscan[d].at + 1 IN
    /\ dpc[d] = "scan"
    /\ IF at > dscan[d].len
         THEN Dial(d, "add") /\ dscan' = [dscan EXCEPT ![d] = NoScan] /\ UNCHANGED didx
         ELSE /\ Dial(d, "scan")
              /\ IF count[at] < dscan[d].min
                   THEN /\ dscan' = [dscan EXCEPT ![d].at = at, ![d].min = count[at]]
                        /\ didx' = [didx EXCEPT ![d] = at]
                   ELSE dscan' = [dscan EXCEPT ![d].at = at] /\ UNCHANGED didx
    /\ UNCHANGED <<vars, accepted>>

\* AddRead: the poll watches a connection that the loop does not know yet.
outConnectAdd(d) ==
    /\ dpc[d] = "add" /\ Dial(d, "trigger")
    /\ UNCHANGED <<vars, accepted, didx, dscan>>

outConnectTrigger(d) ==
    /\ dpc[d] = "trigger" /\ Dial(d, "noted")
    /\ notes' = [notes EXCEPT ![didx[d]] = Append(@, d)]
    /\ UNCHANGED <<kind, lns, spc, nxt, lpc, lerr, poll, tpc, wg, accepted, didx, dscan>>

outConnect(d) ==
    \/ outConnectPanic(d) \/ outConnectPick(d) \/ outConnectScan(d)
    \/ outConnectAdd(d) \/ outConnectTrigger(d)

-----------------------------------------------------------------------------
(* What the loops and serve do with connections                             *)

\* Mutant: every note is for loopNote, which passes over connections.
loopNoteConnDropped(i) ==
    /\ lpc[i] = "run" /\ notes[i] # << >> /\ Head(notes[i]) \in Dialers
    /\ notes' = [notes EXCEPT ![i] = Tail(@)]
    /\ UNCHANGED <<kind, lns, spc, nxt, lpc, lerr, poll, tpc, wg, avars>>

\* The note of outConnect: the loop gets to know the connection.
loopNoteConn(i) ==
    /\ lpc[i] = "run" /\ notes[i] # << >> /\ Head(notes[i]) \in Dialers
    /\ notes' = [notes EXCEPT ![i] = Tail(@)]
    /\ dpc' = [dpc EXCEPT ![Head(notes[i])] = "done"]
    /\ conns' = [conns EXCEPT ![i] = @ + 1]
    /\ UNCHANGED <<kind, lns, spc, nxt, lpc, lerr, poll, tpc, wg>>
    /\ UNCHANGED <<balance, listenvars, accepted, count, seen, didx, dscan, closed>>

\* loopCloseConn subtracts one, dialed connections included.
loopCloseConn(i) ==
    /\ lpc[i] = "run" /\ conns[i] > 0
    /\ conns' = [conns EXCEPT ![i] = @ - 1] /\ count' = [count EXCEPT ![i] = @ - 1]
    /\ closed' = TRUE
    /\ UNCHANGED <<vars, balance, listenvars, accepted, seen, dialvars>>

\* serve closes the connections of a loop with its poll.
serveStep ==
    /\ serve
    /\ conns' = [i \in Loops |-> IF poll'[i] = "closed" THEN 0 ELSE conns[i]]
    /\ count' = [i \in Loops |-> count[i] - (conns[i] - conns'[i])]
    /\ UNCHANGED <<balance, listenvars, accepted, seen, dialvars, closed>>

\* A panic ends the process.
Crashed == \E d \in Dialers : dpc[d] = "panic"

\* What a loop does when it is neither in Wait nor in a callback.
loopGoesOn(i) ==
    \/ (loopStart(i) \/ loopTch(i) \/ loopSignal(i) \/ loopDone(i)) /\ UNCHANGED avars
    \/ loopAccept(i)

\* The notes that Wait hands out.
loopTakesNote(i) == (loopNote(i) /\ UNCHANGED avars) \/ loopNoteConn(i)

AcceptNext ==
    /\ ~Crashed
    /\ \/ serveStep
       \/ ticker /\ UNCHANGED avars
       \/ ClientComes
       \/ \E i \in Loops :
            \/ loopGoesOn(i) \/ loopTakesNote(i) \/ ListenerEvent(i)
            \/ loopCloseConn(i)
            \/ loopEventEnds(i) /\ UNCHANGED avars
       \/ \E d \in Dialers : outConnect(d)

\* Goroutines run.  Wait takes all notes and then all events, again and again,
\* so that neither keeps the other out: strong fairness for both.
AcceptFairness ==
    /\ WF_allvars(~Crashed /\ serveStep) /\ WF_allvars(~Crashed /\ ticker /\ UNCHANGED avars)
    /\ \A d \in Dialers : WF_allvars(~Crashed /\ outConnect(d))
    /\ \A i \in Loops :
         /\ WF_allvars(~Crashed /\ loopGoesOn(i))
         /\ SF_allvars(~Crashed /\ loopTakesNote(i))
         /\ SF_allvars(~Crashed /\ ListenerEvent(i))

AcceptSpec == AcceptInit /\ [][AcceptNext]_allvars /\ AcceptFairness

-----------------------------------------------------------------------------
(* Properties.                                                              *)

SomeLoopEnded == \E i \in Loops : Ended(i)

\* While a server is up and no loop ends, every client and every packet is
\* taken: it does not happen that all loops leave a client to one another, whatever the counts
\* of connections and the turns have become (loopAccept, evio_unix.go:372).
ClientsTaken == pending > 0 ~> (pending = 0 \/ SomeLoopEnded \/ spc \in {"unlisten", "stopped"})

\* RoundRobin: the turns of loopAccept go round, one loop after the other,
\* although the counter is loaded and added to in two steps: loop i has taken
\* as many turns as there are numbers below s.accepted that are its own.
TurnsRotate ==
    (balance = "roundrobin" /\ NumLoops > 1 /\ kind # "dialing") =>
        \A i \in Loops :
            turns[i] = Cardinality({k \in 0..(accepted - 1) : k % NumLoops = i - 1})

\* LeastConnections: as long as no connection is closed the loops' counts
\* differ by one at most, although each loop compares them without a lock.
CountsLevel ==
    (balance = "least" /\ kind = "tcp" /\ ~closed) =>
        \A i, j \in Loops :
            poll[j] = "open" => count[i] - count[j] <= 1

\* A connection that outConnect has handed to a loop is registered by it, also
\* if the loop had not started yet; unless the loop ends or the process does.
DialedRegistered ==
    \A d \in Dialers :
        dpc[d] = "noted" ~> (dpc[d] = "done" \/ Crashed \/ SomeLoopEnded)

\* outConnect finds a loop (refuted: ConnServe, evio.go:189, starts serve in a
\* goroutine, and outConnect may come before it has created the loops).
DialFindsLoop == ~Crashed

\* "RoundRobin requests that connections are distributed to a loop in a
\* round-robin fashion" (evio.go:73; refuted: a turn is used up although
\* another loop has taken the connection).
RoundRobinSpreads ==
    (balance = "roundrobin" /\ kind = "tcp" /\ ~closed) =>
        \A i, j \in Loops : conns[i] - conns[j] <= 1

\* "LeastConnections assigns the next accepted connection to the loop with the
\* least number of active connections" (evio.go:76; refuted for dialed ones,
\* which are not counted).
LeastSpreads ==
    (balance = "least" /\ ~closed) => \A i, j \in Loops : conns[i] - conns[j] <= 1

\* Clients are served or the server stops (refuted: when a loop has ended
\* unnoticed and the turn or the lowest count is its own, nobody accepts).
ClientsTakenOrStopped == pending > 0 ~> (pending = 0 \/ spc = "stopped")
=============================================================================
