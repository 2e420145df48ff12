------------------------------ MODULE ConnSend ------------------------------
(***************************************************************************)
(* One connection shared by the goroutines that call Conn.Send and by the   *)
(* loop that owns it (evio_unix.go): the write buffer c.out, its spinlock,  *)
(* the epoll registration and the descriptor, which the kernel may give to  *)
(* another connection once the loop has closed it.                          *)
(*                                                                         *)
(* A message is two units, so a write may be cut in the middle.  A plain    *)
(* read-modify-write of c.out is two steps: where the lock does not         *)
(* exclude, the race is visible.  syscall.Write (external) returns n = -1   *)
(* with an error, as the Go runtime does.                                   *)
(***************************************************************************)
EXTENDS Integers, Sequences, FiniteSets

CONSTANTS
    Senders,            \* goroutines calling Send
    MaxSends,           \* bound: MaxSends[s] is the number of calls of sender s
    Room,               \* units the socket takes before a write would block
    CanReset            \* the peer may go away

ASSUME ConstAssumption ==
    /\ MaxSends \in [Senders -> Nat] /\ Room \in Nat
    /\ CanReset \in BOOLEAN

VARIABLES
    lock,               \* c.outLock: 0 or 1
    out,                \* c.out: << >> is nil
    interest,           \* epoll registration of c.fd: R, RW or none
    room,               \* free units of the socket buffer
    fd,                 \* whose socket c.fd names: self, free or other
    reset,              \* the peer is gone
    spc, data, seen,    \* sender: position, its unsent data, the c.out it read
    sends,              \* sender: calls started
    lpc, lout,          \* loop: position, the value it will store in c.out
    opened,             \* c.opened
    stream, stray,      \* history: units taken by the peer's socket, by another's
    short               \* history: some write of Send took only a part

sendv == <<spc, data, seen, sends>>
loopv == <<lpc, lout, opened>>
sock  == <<room, fd, reset, stream, stray, short>>
vars  == <<lock, out, interest, room, fd, reset, spc, data, seen, sends,
           lpc, lout, opened, stream, stray, short>>

Message(s, k) == << <<s, k, 1>>, <<s, k, 2>> >>
Unit == UNION {{s} \X (1..MaxSends[s]) \X {1, 2} : s \in Senders}

TypeOK ==
    /\ lock \in {0, 1}
    /\ out \in Seq(Unit)
    /\ interest \in {"R", "RW", "none"}
    /\ room \in 0..Room
    /\ fd \in {"self", "free", "other"}
    /\ reset \in BOOLEAN
    /\ spc \in [Senders -> {"idle", "test", "append", "unlock", "write", "lock",
                            "load", "store", "mod"}]
    /\ data \in [Senders -> Seq(Unit)]
    /\ seen \in [Senders -> Seq(Unit)]
    /\ sends \in [Senders -> Nat]
    /\ lpc \in {"poll", "opened", "lock", "write", "cut", "store", "mod",
                "closed", "panic"}
    /\ lout \in Seq(Unit)
    /\ opened \in BOOLEAN
    /\ stream \in Seq(Unit) /\ stray \in Seq(Unit) /\ short \in BOOLEAN

Init ==
    /\ lock = 0 /\ out = << >> /\ interest = "RW"
    /\ room = Room /\ fd = "self" /\ reset = FALSE
    /\ spc = [s \in Senders |-> "idle"]
    /\ data = [s \in Senders |-> << >>] /\ seen = [s \in Senders |-> << >>]
    /\ sends = [s \in Senders |-> 0]
    /\ lpc = "poll" /\ lout = << >> /\ opened = FALSE
    /\ stream = << >> /\ stray = << >> /\ short = FALSE

\* A panic in any goroutine ends the process.
Running == lpc # "panic"

-----------------------------------------------------------------------------
(* Conn.Send                                                                *)

SendLock(s) ==
    /\ Running /\ spc[s] = "idle" /\ sends[s] < MaxSends[s] /\ lock = 0
    /\ lock' = 1
    /\ sends' = [sends EXCEPT ![s] = @ + 1]
    /\ data' = [data EXCEPT ![s] = Message(s, sends'[s])]
    /\ spc' = [spc EXCEPT ![s] = "test"]
    /\ UNCHANGED <<out, interest, sock, seen, loopv>>

\* Nothing buffered: unlock and write.  Otherwise append first.
SendTest(s) ==
    /\ Running /\ spc[s] = "test"
    /\ IF out = << >>
         THEN lock' = 0 /\ spc' = [spc EXCEPT ![s] = "write"] /\ UNCHANGED seen
         ELSE /\ seen' = [seen EXCEPT ![s] = out]
              /\ spc' = [spc EXCEPT ![s] = "append"]
              /\ UNCHANGED lock
    /\ UNCHANGED <<out, interest, sock, data, sends, loopv>>

\* The data is buffered and the lock released; the function does not return.
SendAppend(s) ==
    /\ Running /\ spc[s] = "append"
    /\ out' = seen[s] \o data[s]
    /\ seen' = [seen EXCEPT ![s] = << >>]
    /\ lock' = 0
    /\ spc' = [spc EXCEPT ![s] = "unlock"]
    /\ UNCHANGED <<interest, sock, data, sends, loopv>>

\* The second Unlock stores 0, whoever holds the lock by now.
SendUnlock(s) ==
    /\ Running /\ spc[s] = "unlock"
    /\ lock' = 0
    /\ spc' = [spc EXCEPT ![s] = "write"]
    /\ UNCHANGED <<out, interest, sock, data, seen, sends, loopv>>

SendDone(s) ==
    /\ spc' = [spc EXCEPT ![s] = "idle"]
    /\ data' = [data EXCEPT ![s] = << >>]

\* Mutant: what is kept for later starts one unit too early.
SendWriteKeepOne(s) ==
    /\ Running /\ spc[s] = "write" /\ fd = "self" /\ room > 0 /\ ~reset
    /\ LET n == IF Len(data[s]) <= room THEN Len(data[s]) ELSE room IN
         /\ stream' = stream \o SubSeq(data[s], 1, n)
         /\ room' = room - n
         /\ data' = [data EXCEPT ![s] = SubSeq(@, n, Len(@))]
         /\ spc' = [spc EXCEPT ![s] = "lock"]
    /\ UNCHANGED <<lock, out, interest, fd, reset, stray, short, seen, sends, loopv>>

\* The kernel takes n units, on behalf of whichever socket c.fd names.
SendWrite(s) ==
    /\ Running /\ spc[s] = "write"
    /\ fd # "self" \/ (room > 0 /\ ~reset)
    /\ fd # "free"
    /\ \E n \in 1..Len(data[s]) :
         /\ IF fd = "other"
              THEN /\ stray' = stray \o SubSeq(data[s], 1, n)
                   /\ UNCHANGED <<stream, room>>
              ELSE /\ n = IF Len(data[s]) <= room THEN Len(data[s]) ELSE room
                   /\ stream' = stream \o SubSeq(data[s], 1, n)
                   /\ room' = room - n
                   /\ UNCHANGED stray
         /\ IF n = Len(data[s])
              THEN SendDone(s) /\ UNCHANGED short
              ELSE /\ data' = [data EXCEPT ![s] = SubSeq(@, n + 1, Len(@))]
                   /\ spc' = [spc EXCEPT ![s] = "lock"]
                   /\ short' = TRUE
    /\ UNCHANGED <<lock, out, interest, fd, reset, seen, sends, loopv>>

\* An error other than EAGAIN (descriptor closed, peer gone): Send asks for
\* write events and returns nil.
SendError(s) ==
    /\ Running /\ spc[s] = "write"
    /\ fd = "free" \/ (fd = "self" /\ reset)
    /\ spc' = [spc EXCEPT ![s] = "mod"]
    /\ UNCHANGED <<lock, out, interest, sock, data, seen, sends, loopv>>

\* EAGAIN: under the lock, data[n:] is evaluated with n = -1.
SendAgain(s) ==
    /\ Running /\ spc[s] = "write"
    /\ fd = "self" /\ ~reset /\ room = 0
    /\ lock = 0
    /\ lpc' = "panic"
    /\ UNCHANGED <<lock, out, interest, sock, sendv, lout, opened>>

\* The rest of a partial write is appended under the lock ...
SendRestLock(s) ==
    /\ Running /\ spc[s] = "lock" /\ lock = 0
    /\ lock' = 1
    /\ spc' = [spc EXCEPT ![s] = "load"]
    /\ UNCHANGED <<out, interest, sock, data, seen, sends, loopv>>

SendRestLoad(s) ==
    /\ Running /\ spc[s] = "load"
    /\ seen' = [seen EXCEPT ![s] = out]
    /\ spc' = [spc EXCEPT ![s] = "store"]
    /\ UNCHANGED <<lock, out, interest, sock, data, sends, loopv>>

SendRestStore(s) ==
    /\ Running /\ spc[s] = "store"
    /\ out' = seen[s] \o data[s]
    /\ seen' = [seen EXCEPT ![s] = << >>]
    /\ lock' = 0
    /\ spc' = [spc EXCEPT ![s] = "mod"]
    /\ UNCHANGED <<interest, sock, data, sends, loopv>>

\* ... and the loop is asked for write events.  On a closed descriptor the call
\* fails; on a reused one it is about another connection's registration.
SendMod(s) ==
    /\ Running /\ spc[s] = "mod"
    /\ interest' = IF fd = "self" THEN "RW" ELSE interest
    /\ SendDone(s)
    /\ UNCHANGED <<lock, out, sock, seen, sends, loopv>>

-----------------------------------------------------------------------------
(* The loop that owns the connection.                                       *)

Min(a, b) == IF a < b THEN a ELSE b

\* Epoll reports the descriptor writable or broken.
WriteReady == interest = "RW" /\ (room > 0 \/ reset)

\* loopOpened looks at c.out without the lock ...
LoopOpened ==
    /\ lpc = "poll" /\ ~opened /\ WriteReady
    /\ opened' = TRUE
    /\ lpc' = IF out = << >> THEN "opened" ELSE "poll"
    /\ UNCHANGED <<lock, out, interest, sock, sendv, lout>>

\* ... and then stops watching for writing.
LoopOpenedModRead ==
    /\ lpc = "opened"
    /\ interest' = "R"
    /\ lpc' = "poll"
    /\ UNCHANGED <<lock, out, sock, sendv, lout, opened>>

LoopEvent ==
    /\ lpc = "poll" /\ opened /\ WriteReady
    /\ lpc' = "lock"
    /\ UNCHANGED <<lock, out, interest, sock, sendv, lout, opened>>

LoopWriteLock ==
    /\ lpc = "lock" /\ lock = 0
    /\ lock' = 1
    /\ lpc' = "write"
    /\ UNCHANGED <<out, interest, sock, sendv, lout, opened>>

\* loopCloseConn: the descriptor is free for the kernel to hand out again.
CloseFd ==
    /\ fd' = "free"
    /\ interest' = "none"
    /\ lpc' = "closed"

\* Mutant: the early return of loopWrite leaves the lock taken.
LoopWriteNilLocked ==
    /\ lpc = "write" /\ out = << >>
    /\ IF reset THEN CloseFd ELSE interest' = "R" /\ lpc' = "poll" /\ UNCHANGED fd
    /\ UNCHANGED <<lock, out, room, reset, stream, stray, short, sendv, lout, opened>>

\* Nothing to write: ModRead under the lock, then loopRead, which closes the
\* connection if the peer is gone.
LoopWriteNil ==
    /\ lpc = "write" /\ out = << >>
    /\ lock' = 0
    /\ IF reset THEN CloseFd ELSE interest' = "R" /\ lpc' = "poll" /\ UNCHANGED fd
    /\ UNCHANGED <<out, room, reset, stream, stray, short, sendv, lout, opened>>

\* Mutant: the whole buffer is taken as written.
LoopWriteAll ==
    /\ lpc = "write" /\ out # << >> /\ ~reset /\ room > 0
    /\ lout' = out
    /\ stream' = stream \o out
    /\ room' = room - Len(out)
    /\ lpc' = "cut"
    /\ UNCHANGED <<lock, out, interest, fd, reset, stray, short, sendv, opened>>

\* write(2) on c.out; lout keeps what was written until c.out is cut.
LoopWrite ==
    /\ lpc = "write" /\ out # << >> /\ ~reset /\ room > 0
    /\ LET n == Min(Len(out), room) IN
         /\ lout' = SubSeq(out, 1, n)
         /\ stream' = stream \o SubSeq(out, 1, n)
         /\ room' = room - n
    /\ lpc' = "cut"
    /\ UNCHANGED <<lock, out, interest, fd, reset, stray, short, sendv, opened>>

\* EAGAIN: a sender took the room the event announced.
LoopWriteAgain ==
    /\ lpc = "write" /\ out # << >> /\ ~reset /\ room = 0
    /\ lock' = 0
    /\ lpc' = "poll"
    /\ UNCHANGED <<out, interest, sock, sendv, lout, opened>>

LoopWriteError ==
    /\ lpc = "write" /\ out # << >> /\ reset
    /\ lock' = 0
    /\ CloseFd
    /\ UNCHANGED <<out, room, reset, stream, stray, short, sendv, lout, opened>>

\* c.out[n:] is computed from the c.out of now; out of range it panics.
LoopCut ==
    /\ lpc = "cut"
    /\ IF Len(lout) > Len(out)
         THEN lpc' = "panic" /\ UNCHANGED lout
         ELSE lpc' = "store" /\ lout' = SubSeq(out, Len(lout) + 1, Len(out))
    /\ UNCHANGED <<lock, out, interest, sock, sendv, opened>>

LoopStore ==
    /\ lpc = "store"
    /\ out' = lout /\ lout' = << >>
    /\ lpc' = "mod"
    /\ UNCHANGED <<lock, interest, sock, sendv, opened>>

LoopMod ==
    /\ lpc = "mod"
    /\ interest' = IF out = << >> THEN "R" ELSE interest
    /\ lock' = 0
    /\ lpc' = "poll"
    /\ UNCHANGED <<out, sock, sendv, lout, opened>>

\* A read event only: loopRead meets the error and closes.
LoopReadClose ==
    /\ lpc = "poll" /\ opened /\ interest = "R" /\ reset
    /\ CloseFd
    /\ UNCHANGED <<lock, out, room, reset, stream, stray, short, sendv, lout, opened>>

-----------------------------------------------------------------------------
(* The kernel and the peer.                                                 *)

PeerDrain ==
    /\ Running /\ room < Room
    /\ room' = room + 1
    /\ UNCHANGED <<lock, out, interest, fd, reset, stream, stray, short, sendv, loopv>>

PeerReset ==
    /\ Running /\ CanReset /\ ~reset
    /\ reset' = TRUE
    /\ UNCHANGED <<lock, out, interest, room, fd, stream, stray, short, sendv, loopv>>

FdReused ==
    /\ Running /\ fd = "free"
    /\ fd' = "other"
    /\ UNCHANGED <<lock, out, interest, room, reset, stream, stray, short, sendv, loopv>>

-----------------------------------------------------------------------------
\* The part of Send that follows the first acquisition of the lock.
SendStep(s) ==
    \/ SendTest(s) \/ SendAppend(s) \/ SendUnlock(s)
    \/ SendWrite(s) \/ SendError(s) \/ SendAgain(s)
    \/ SendRestLock(s) \/ SendRestLoad(s) \/ SendRestStore(s) \/ SendMod(s)

Loop ==
    \/ LoopOpened \/ LoopOpenedModRead \/ LoopEvent \/ LoopWriteLock
    \/ LoopWriteNil \/ LoopWrite \/ LoopWriteAgain \/ LoopWriteError
    \/ LoopCut \/ LoopStore \/ LoopMod \/ LoopReadClose

Next ==
    \/ \E s \in Senders : SendLock(s) \/ SendStep(s)
    \/ Loop
    \/ PeerDrain \/ PeerReset \/ FdReused

\* Goroutines in the middle of a call keep running, and the peer reads.
Fairness ==
    /\ \A s \in Senders : WF_vars(SendStep(s))
    /\ WF_vars(Loop) /\ WF_vars(PeerDrain)

Spec == Init /\ [][Next]_vars /\ Fairness

-----------------------------------------------------------------------------
(* Properties.                                                              *)

\* A call of Send comes back, unless the process dies: no path of Send or of
\* loopWrite keeps the spinlock.
SendReturns ==
    \A s \in Senders : spc[s] # "idle" ~> (spc[s] = "idle" \/ ~Running)

\* The peer sees whole messages: what Send was given arrives unbroken,
\* whatever other goroutines send at the same time.
WholeMessages ==
    \A i \in DOMAIN stream :
        LET u == stream[i] IN
        u[3] = 2 => i > 1 /\ stream[i - 1] = <<u[1], u[2], 1>>

\* No unit is written twice: what Send has put in the buffer it does not also
\* write itself ("send bloacked", evio_unix.go:56).
SentOnce ==
    \A i, j \in DOMAIN stream : stream[i] = stream[j] => i = j

\* As long as the socket has taken every Send in one piece, concurrent
\* messages arrive whole and once, although Send writes outside the lock
\* (evio_unix.go:60).
IntactUntilShort == ~short => WholeMessages /\ SentOnce

\* A full socket buffer does not end the process (evio_unix.go:62-66).
NoPanic == Running

\* Bytes given to Send on this connection go to this connection's socket.
NoCrossTalk == stray = << >>

\* When nobody is in the middle of anything, buffered output is watched for.
OutputWatched ==
    lpc = "poll" /\ (\A s \in Senders : spc[s] = "idle") /\ out # << >>
        => interest = "RW"
=============================================================================
