-------------------------------- MODULE Serve --------------------------------
(***************************************************************************)
(* The life of a server (evio.go, evio_unix.go).  Serve opens listeners and *)
(* calls serve; ConnServe calls serve in a goroutine, without listeners.    *)
(* serve creates and starts the loops and then, in its deferred function,   *)
(* waits on a condition variable for a shutdown, sends every loop a closing *)
(* note, joins them and closes what is left; after that Serve closes its    *)
(* listeners.  A loop that ends signals the condition.  The first loop runs *)
(* the ticker goroutine, which hands it ticks and takes the delay back over *)
(* the unbuffered channel tch.                                              *)
(*                                                                         *)
(* Notes follow the NoteMailbox promise.  How loops share a listener and    *)
(* get dialed connections is in Accept, what a loop does with connections   *)
(* in ConnLoop.                                                             *)
(***************************************************************************)
EXTENDS Integers, Sequences

CONSTANTS
    Kinds,              \* of servers: tcp, udp (Serve) or dialing (ConnServe)
    NumListeners,       \* addresses given to Serve
    NumLoops,           \* events.NumLoops; loops are numbered from 1
    Dialers,            \* goroutines that call outConnect, once each, and can
                        \* connect; also the connections they send as notes
    HasTick,            \* events.Tick # nil
    TickShutdown        \* Tick may return Shutdown

ASSUME ConstAssumption ==
    /\ Kinds \subseteq {"tcp", "udp", "dialing"}
    /\ NumListeners \in Nat \ {0} /\ NumLoops \in Nat \ {0}
    /\ Dialers \cap {"tick", "err"} = {}
    /\ HasTick \in BOOLEAN /\ TickShutdown \in BOOLEAN

Loops == 1..NumLoops
Listeners == 1..NumListeners

VARIABLES
    kind,               \* rigid
    lns,                \* listeners: none, open (not yet in lns), listed,
                        \* leaked or closed
    spc, nxt,           \* Serve and serve: position, index of the for statement
    lpc,                \* loops: position (those in loopAccept are in Accept)
    lerr,               \* loops: loopNote will return an error
    notes,              \* loops: the poll's mailbox
    poll,               \* loops: none, open or closed
    tpc,                \* ticker: none, trigger, recv, sleep, ended
    wg                  \* s.wg

loopvars == <<lpc, lerr, notes>>
vars == <<kind, lns, spc, nxt, lpc, lerr, notes, poll, tpc, wg>>

TypeOK ==
    /\ kind \in Kinds
    /\ lns \in [Listeners -> {"none", "open", "listed", "leaked", "closed"}]
    /\ spc \in {"listen", "serving", "create", "start", "wait", "asleep",
                "trigger", "join", "close", "unlisten", "stopped"}
    /\ nxt \in 1..(NumLoops + NumListeners)
    /\ lpc \in [Loops -> {"none", "created", "run", "tch", "end", "signalled", "gone",
                          "event", "scan", "turn", "accept", "count"}]
    /\ lerr \in [Loops -> BOOLEAN]
    /\ notes \in [Loops -> Seq({"tick", "err"} \cup Dialers)]
    /\ poll \in [Loops -> {"none", "open", "closed"}]
    /\ tpc \in {"none", "trigger", "recv", "sleep", "ended"}
    /\ wg \in 0..NumLoops

Init ==
    /\ kind \in Kinds
    /\ lns = [n \in Listeners |-> "none"]
    /\ spc = (IF kind = "dialing" THEN "serving" ELSE "listen") /\ nxt = 1
    /\ lpc = [i \in Loops |-> "none"] /\ lerr = [i \in Loops |-> FALSE]
    /\ notes = [i \in Loops |-> << >>] /\ poll = [i \in Loops |-> "none"]
    /\ tpc = "none" /\ wg = 0

-----------------------------------------------------------------------------
(* Serve: the listeners                                                     *)

\* net.Listen: on an error Serve returns, and closes those it has in lns.
Listen ==
    /\ spc = "listen" /\ lns[nxt] = "none"
    /\ \/ lns' = [lns EXCEPT ![nxt] = "open"] /\ UNCHANGED <<spc, nxt>>
       \/ spc' = "unlisten" /\ nxt' = 1 /\ UNCHANGED lns
    /\ UNCHANGED <<kind, loopvars, poll, tpc, wg>>

\* system: it closes the listener when File fails, but not when SetNonblock
\* does, and then nobody else has it either.
system ==
    /\ spc = "listen" /\ lns[nxt] = "open"
    /\ \/ /\ lns' = [lns EXCEPT ![nxt] = "listed"]
          /\ IF nxt = NumListeners
               THEN nxt' = 1 /\ spc' = "serving"
               ELSE nxt' = nxt + 1 /\ UNCHANGED spc
       \/ /\ lns' = [lns EXCEPT ![nxt] = "closed"]
          /\ nxt' = 1 /\ spc' = "unlisten"
       \/ /\ lns' = [lns EXCEPT ![nxt] = "leaked"]
          /\ nxt' = 1 /\ spc' = "unlisten"
    /\ UNCHANGED <<kind, loopvars, poll, tpc, wg>>

\* The deferred function of Serve closes the listeners it has.
Unlisten ==
    /\ spc = "unlisten"
    /\ lns' = [n \in Listeners |-> IF lns[n] = "listed" THEN "closed" ELSE lns[n]]
    /\ spc' = "stopped"
    /\ UNCHANGED <<kind, nxt, loopvars, poll, tpc, wg>>

-----------------------------------------------------------------------------
(* serve                                                                    *)

\* The Serving callback may refuse; the deferred function is not yet set.
serveServing ==
    /\ spc = "serving"
    /\ spc' \in {"create", "unlisten"}
    /\ UNCHANGED <<kind, lns, nxt, loopvars, poll, tpc, wg>>

\* A loop with its poll, which watches all listeners, appended to s.loops.
serveCreate ==
    /\ spc = "create"
    /\ poll' = [poll EXCEPT ![nxt] = "open"]
    /\ IF nxt = NumLoops
         THEN nxt' = 1 /\ spc' = "start"
         ELSE nxt' = nxt + 1 /\ UNCHANGED spc
    /\ UNCHANGED <<kind, lns, loopvars, tpc, wg>>

\* Mutant: wg.Add counts one loop.
serveStartAddOne ==
    /\ spc = "start"
    /\ wg' = IF nxt = 1 THEN 1 ELSE wg
    /\ lpc' = [lpc EXCEPT ![nxt] = "created"]
    /\ IF nxt = NumLoops
         THEN nxt' = 1 /\ spc' = "wait"
         ELSE nxt' = nxt + 1 /\ UNCHANGED spc
    /\ UNCHANGED <<kind, lns, lerr, notes, poll, tpc>>

\* wg.Add, then the loops' goroutines one by one.
serveStart ==
    /\ spc = "start"
    /\ wg' = IF nxt = 1 THEN NumLoops ELSE wg
    /\ lpc' = [lpc EXCEPT ![nxt] = "created"]
    /\ IF nxt = NumLoops
         THEN nxt' = 1 /\ spc' = "wait"
         ELSE nxt' = nxt + 1 /\ UNCHANGED spc
    /\ UNCHANGED <<kind, lns, lerr, notes, poll, tpc>>

\* waitForShutdown: a signal given before this step is not seen.
serveWait ==
    /\ spc = "wait"
    /\ spc' = "asleep"
    /\ UNCHANGED <<kind, lns, nxt, loopvars, poll, tpc, wg>>

\* Mutant: the last loop is not told.
serveTriggerFewer ==
    /\ spc = "trigger"
    /\ IF nxt >= NumLoops
         THEN nxt' = 1 /\ spc' = "join" /\ UNCHANGED notes
         ELSE /\ notes' = [notes EXCEPT ![nxt] = Append(@, "err")]
              /\ nxt' = nxt + 1 /\ UNCHANGED spc
    /\ UNCHANGED <<kind, lns, lpc, lerr, poll, tpc, wg>>

\* Trigger(errClosing), loop after loop, ended ones included.
serveTrigger ==
    /\ spc = "trigger"
    /\ IF nxt > NumLoops
         THEN nxt' = 1 /\ spc' = "join" /\ UNCHANGED notes
         ELSE /\ notes' = [notes EXCEPT ![nxt] = Append(@, "err")]
              /\ nxt' = nxt + 1 /\ UNCHANGED spc
    /\ UNCHANGED <<kind, lns, lpc, lerr, poll, tpc, wg>>

\* Mutant: the loops are not waited for.
serveJoinEarly ==
    /\ spc = "join"
    /\ spc' = "close"
    /\ UNCHANGED <<kind, lns, nxt, loopvars, poll, tpc, wg>>

serveJoin ==
    /\ spc = "join" /\ wg = 0
    /\ spc' = "close"
    /\ UNCHANGED <<kind, lns, nxt, loopvars, poll, tpc, wg>>

serveClose ==
    /\ spc = "close"
    /\ IF nxt > NumLoops
         THEN nxt' = 1 /\ spc' = "unlisten" /\ UNCHANGED poll
         ELSE /\ poll' = [poll EXCEPT ![nxt] = "closed"]
              /\ nxt' = nxt + 1 /\ UNCHANGED spc
    /\ UNCHANGED <<kind, lns, loopvars, tpc, wg>>

serve ==
    \/ Listen \/ system \/ Unlisten
    \/ serveServing \/ serveCreate \/ serveStart \/ serveWait
    \/ serveTrigger \/ serveJoin \/ serveClose

-----------------------------------------------------------------------------
(* loopRun                                                                  *)

loopStart(i) ==
    /\ lpc[i] = "created"
    /\ lpc' = [lpc EXCEPT ![i] = "run"]
    /\ tpc' = IF i = 1 /\ HasTick THEN "trigger" ELSE tpc
    /\ UNCHANGED <<kind, lns, spc, nxt, lerr, notes, poll, wg>>

\* loopNote: a closing note ends Wait; after Tick the delay is to be sent.
loopNote(i) ==
    /\ lpc[i] = "run" /\ notes[i] # << >> /\ Head(notes[i]) \in {"tick", "err"}
    /\ notes' = [notes EXCEPT ![i] = Tail(@)]
    /\ IF Head(notes[i]) = "err"
         THEN lpc' = [lpc EXCEPT ![i] = "end"] /\ UNCHANGED lerr
         ELSE /\ lpc' = [lpc EXCEPT ![i] = "tch"]
              /\ \E e \in {FALSE, TickShutdown} : lerr' = [lerr EXCEPT ![i] = e]
    /\ UNCHANGED <<kind, lns, spc, nxt, poll, tpc, wg>>

\* s.tch <- delay: both sides go on.
loopTch(i) ==
    /\ lpc[i] = "tch" /\ tpc = "recv"
    /\ lpc' = [lpc EXCEPT ![i] = IF lerr[i] THEN "end" ELSE "run"]
    /\ lerr' = [lerr EXCEPT ![i] = FALSE]
    /\ tpc' = "sleep"
    /\ UNCHANGED <<kind, lns, spc, nxt, notes, poll, wg>>

\* A handler returned Shutdown, or the poll failed.
loopEventEnds(i) ==
    /\ lpc[i] = "run"
    /\ lpc' = [lpc EXCEPT ![i] = "end"]
    /\ UNCHANGED <<kind, lns, spc, nxt, lerr, notes, poll, tpc, wg>>

\* signalShutdown wakes serve only if it is asleep.
loopSignal(i) ==
    /\ lpc[i] = "end"
    /\ lpc' = [lpc EXCEPT ![i] = "signalled"]
    /\ spc' = IF spc = "asleep" THEN "trigger" ELSE spc
    /\ UNCHANGED <<kind, lns, nxt, lerr, notes, poll, tpc, wg>>

loopDone(i) ==
    /\ lpc[i] = "signalled"
    /\ lpc' = [lpc EXCEPT ![i] = "gone"]
    /\ wg' = wg - 1
    /\ UNCHANGED <<kind, lns, spc, nxt, lerr, notes, poll, tpc>>

-----------------------------------------------------------------------------
(* loopTicker                                                               *)

\* Mutant: the tick is not queued.
tickerTriggerLost ==
    /\ tpc = "trigger"
    /\ tpc' = IF poll[1] = "closed" THEN "ended" ELSE "recv"
    /\ UNCHANGED <<kind, lns, spc, nxt, loopvars, poll, wg>>

\* Trigger puts the note in the queue, then fails if the poll is closed.
tickerTrigger ==
    /\ tpc = "trigger"
    /\ notes' = [notes EXCEPT ![1] = Append(@, "tick")]
    /\ tpc' = IF poll[1] = "closed" THEN "ended" ELSE "recv"
    /\ UNCHANGED <<kind, lns, spc, nxt, lpc, lerr, poll, wg>>

tickerSleep ==
    /\ tpc = "sleep"
    /\ tpc' = "trigger"
    /\ UNCHANGED <<kind, lns, spc, nxt, loopvars, poll, wg>>

-----------------------------------------------------------------------------
\* What a loop does of itself, as opposed to what its users make it do.
loopRun(i) == loopStart(i) \/ loopNote(i) \/ loopTch(i) \/ loopSignal(i) \/ loopDone(i)

ticker == tickerTrigger \/ tickerSleep

Next ==
    \/ serve
    \/ \E i \in Loops : loopRun(i) \/ loopEventEnds(i)
    \/ ticker

\* Every goroutine runs; no handler has to return Shutdown.
Fairness ==
    /\ WF_vars(serve) /\ WF_vars(ticker)
    /\ \A i \in Loops : WF_vars(loopRun(i))

Spec == Init /\ [][Next]_vars /\ Fairness

-----------------------------------------------------------------------------
(* Properties.                                                              *)

Ended(i) == lpc[i] \in {"end", "signalled", "gone"}

\* What the loops use is closed behind their backs only when they are over.  A
\* poll: wg.Wait (evio_unix.go:160) comes between the closing notes and the
\* closing of polls.  The listeners, which Serve's deferred function
\* (evio.go:139) closes: no loop can still be in loopAccept with the number of
\* a descriptor that has been closed.
ClosedAfterJoin ==
    /\ \A i \in Loops : poll[i] = "closed" => lpc[i] = "gone"
    /\ \A n \in Listeners : lns[n] = "closed" =>
           \A i \in Loops : lpc[i] \in {"none", "gone"}

\* Serve leaves no listener open when it returns (refuted: system returns the
\* error of SetNonblock, evio_unix.go:634, with the listener in nobody's hands).
ListenersClosed ==
    spc = "stopped" => \A n \in Listeners : lns[n] \in {"none", "closed"}

\* Once the shutdown has begun it is completed, wherever the loops and the
\* ticker are: in a callback, blocked on tch, or gone already.
StopCompletes == spc = "trigger" ~> spc = "stopped"

\* "Tick fires immediately after the server starts and will fire again"
\* (evio.go:120): a running loop 0 gets another tick, unless it ends, and does
\* not stay blocked on tch: the ticker comes to take the delay.
TickFires ==
    HasTick => /\ lpc[1] = "run" ~> (lpc[1] = "tch" \/ Ended(1))
               /\ lpc[1] = "tch" ~> lpc[1] # "tch"

\* The ticker goroutine ends with the server (refuted: it waits on tch for
\* ever when the loop has ended with a tick in its queue, evio_unix.go:301).
TickerEnds == spc = "stopped" ~> tpc \in {"none", "ended"}

\* "signals a shutdown an begins server closing" (evio_unix.go:111): when a
\* loop has ended and signalled, the server stops.
SignalStopsServer == (\E i \in Loops : lpc[i] = "gone") ~> spc = "stopped"
=============================================================================
