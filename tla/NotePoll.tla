------------------------------ MODULE NotePoll ------------------------------
(***************************************************************************)
(* The poll of one event loop seen as a mailbox: the note queue             *)
(* (internal/notequeue.go), Poll.Trigger and Poll.Wait, for the epoll       *)
(* backend (internal/internal_linux.go, wake-ups through an eventfd) and    *)
(* the kqueue backend (internal/internal_bsd.go, wake-ups through a user    *)
(* event with EV_CLEAR).                                                    *)
(*                                                                         *)
(* Any goroutine may call Trigger; one goroutine, the loop, calls Wait.     *)
(* Socket events appear as the reason a wait returns and as handlers that   *)
(* may fail; what the handlers do to connections is in ConnLoop.            *)
(***************************************************************************)
EXTENDS Integers, Sequences, FiniteSets

CONSTANTS
    Producers,          \* the goroutines that call Trigger
    MaxCalls,           \* bound: calls of Trigger per producer
    WfdMax,             \* unread writes an eventfd holds before a write blocks
    Backends            \* the backends considered: "epoll", "kqueue"

ASSUME ConstAssumption ==
    /\ MaxCalls \in Nat
    /\ WfdMax \in Nat \ {0}
    /\ Backends \subseteq {"epoll", "kqueue"}

VARIABLES
    mu,                 \* the spinlock word of the note queue: 0 or 1
    n,                  \* noteQueue.n
    notes,              \* noteQueue.notes
    wake,               \* eventfd writes not yet read; kqueue: user event set
    open,               \* FALSE once Poll.Close has run
    backend,            \* the one this program was built with
    pc,                 \* where the loop goroutine is in Wait
    hasWake,            \* the wake descriptor is among the returned events
    taken,              \* ForEach's local slice: the notes still to hand out
    tpc,                \* where each producer is in Trigger
    calls,              \* number of Trigger calls each producer has started
    added, handled      \* history: notes appended; notes handed to iter

queue == <<mu, n, notes>>
loopv == <<pc, hasWake, taken, handled>>
prodv == <<tpc, calls, added>>
vars  == <<mu, n, notes, wake, open, backend, pc, hasWake, taken, tpc,
           calls, added, handled>>

Note == Producers \X (1..MaxCalls)

TypeOK ==
    /\ mu \in {0, 1}
    /\ n \in Nat
    /\ notes \in Seq(Note)
    /\ wake \in Nat
    /\ open \in BOOLEAN /\ backend \in Backends
    /\ pc \in {"wait", "load", "lock", "take", "iter", "events", "stopped"}
    /\ hasWake \in BOOLEAN
    /\ taken \in Seq(Note)
    /\ tpc \in [Producers -> {"idle", "count", "append", "wake"}]
    /\ calls \in [Producers -> 0..MaxCalls]
    /\ added \in Seq(Note)
    /\ handled \in Seq(Note)

Init ==
    /\ mu = 0 /\ n = 0 /\ notes = << >>
    /\ wake = 0 /\ open = TRUE /\ backend \in Backends
    /\ pc = "wait" /\ hasWake = FALSE /\ taken = << >>
    /\ tpc = [p \in Producers |-> "idle"]
    /\ calls = [p \in Producers |-> 0]
    /\ added = << >> /\ handled = << >>

-----------------------------------------------------------------------------
(* Trigger: Add the note under the spinlock, then signal the loop.          *)

AddLock(p) ==
    /\ tpc[p] = "idle" /\ calls[p] < MaxCalls
    /\ mu = 0
    /\ mu' = 1
    /\ tpc' = [tpc EXCEPT ![p] = "count"]
    /\ calls' = [calls EXCEPT ![p] = @ + 1]
    /\ UNCHANGED <<n, notes, wake, open, backend, loopv, added>>

\* Mutant: the counter is not moved.
AddCountNone(p) ==
    /\ tpc[p] = "count"
    /\ tpc' = [tpc EXCEPT ![p] = "append"]
    /\ UNCHANGED <<queue, wake, open, backend, loopv, calls, added>>

\* The counter moves before the slice does: ForEach reads it without the lock.
AddCount(p) ==
    /\ tpc[p] = "count"
    /\ n' = n + 1
    /\ tpc' = [tpc EXCEPT ![p] = "append"]
    /\ UNCHANGED <<mu, notes, wake, open, backend, loopv, calls, added>>

AddAppend(p) ==
    /\ tpc[p] = "append"
    /\ notes' = Append(notes, <<p, calls[p]>>)
    /\ added' = Append(added, <<p, calls[p]>>)
    /\ mu' = 0
    /\ tpc' = [tpc EXCEPT ![p] = "wake"]
    /\ UNCHANGED <<n, wake, open, backend, loopv, calls>>

\* A write to a full eventfd blocks; a user event is either set or not.  On a
\* closed descriptor the call fails and Trigger returns the error.
TriggerWake(p) ==
    /\ tpc[p] = "wake"
    /\ \/ /\ open /\ backend = "epoll" /\ wake < WfdMax
          /\ wake' = wake + 1
       \/ /\ open /\ backend = "kqueue"
          /\ wake' = 1
       \/ /\ ~open
          /\ wake' = wake
    /\ tpc' = [tpc EXCEPT ![p] = "idle"]
    /\ UNCHANGED <<queue, open, backend, loopv, calls, added>>

-----------------------------------------------------------------------------
(* Wait: one pass is the kernel wait, ForEach, then the returned events.    *)

\* The wake descriptor is ready.  Returning a user event with EV_CLEAR resets
\* it; an eventfd stays readable until it is read.
WaitWoken ==
    /\ pc = "wait" /\ wake > 0
    /\ hasWake' = TRUE
    /\ wake' = IF backend = "kqueue" THEN 0 ELSE wake
    /\ pc' = "load"
    /\ UNCHANGED <<queue, open, backend, taken, handled, prodv>>

\* Sockets are ready or the call was interrupted (EINTR); a full batch of
\* sockets may leave a ready wake descriptor for a later pass.
WaitOther ==
    /\ pc = "wait"
    /\ hasWake' = FALSE
    /\ pc' = "load"
    /\ UNCHANGED <<queue, wake, open, backend, taken, handled, prodv>>

ForEachLoad ==
    /\ pc = "load"
    /\ pc' = IF n = 0 THEN "events" ELSE "lock"
    /\ UNCHANGED <<queue, wake, open, backend, hasWake, taken, handled, prodv>>

ForEachLock ==
    /\ pc = "lock" /\ mu = 0
    /\ mu' = 1
    /\ pc' = "take"
    /\ UNCHANGED <<n, notes, wake, open, backend, hasWake, taken, handled, prodv>>

\* Mutant: the slice is handed out but stays in the queue.
ForEachTakeKeep ==
    /\ pc = "take"
    /\ pc' = IF notes = << >> THEN "events" ELSE "iter"
    /\ taken' = notes
    /\ n' = 0
    /\ mu' = 0
    /\ UNCHANGED <<notes, wake, open, backend, hasWake, handled, prodv>>

ForEachTake ==
    /\ pc = "take"
    /\ IF notes = << >>
         THEN pc' = "events" /\ UNCHANGED <<taken, n, notes>>
         ELSE /\ pc' = "iter"
              /\ taken' = notes
              /\ n' = 0
              /\ notes' = << >>
    /\ mu' = 0
    /\ UNCHANGED <<wake, open, backend, hasWake, handled, prodv>>

\* iter(note): an error ends Wait and drops the rest of the slice.
ForEachIter(err) ==
    /\ pc = "iter"
    /\ handled' = Append(handled, Head(taken))
    /\ taken' = Tail(taken)
    /\ pc' = IF err THEN "stopped"
             ELSE IF Tail(taken) = << >> THEN "events" ELSE "iter"
    /\ UNCHANGED <<queue, wake, open, backend, hasWake, prodv>>

\* Mutant: the user event is reset with the other events, after ForEach.
EventsLateClear ==
    /\ pc = "events"
    /\ wake' = IF hasWake THEN 0 ELSE wake
    /\ pc' = "wait"
    /\ UNCHANGED <<queue, open, backend, hasWake, taken, handled, prodv>>

\* The events of the batch: the eventfd is read, which clears its counter.
Events ==
    /\ pc = "events"
    /\ wake' = IF hasWake /\ backend = "epoll" THEN 0 ELSE wake
    /\ pc' = "wait"
    /\ UNCHANGED <<queue, open, backend, hasWake, taken, handled, prodv>>

\* A socket handler fails, before or after the eventfd is read.
EventsFail ==
    /\ pc = "events"
    /\ wake' \in {wake, IF hasWake /\ backend = "epoll" THEN 0 ELSE wake}
    /\ pc' = "stopped"
    /\ UNCHANGED <<queue, open, backend, hasWake, taken, handled, prodv>>

\* serve closes the poll once the loop is done.
Close ==
    /\ pc = "stopped" /\ open
    /\ open' = FALSE
    /\ UNCHANGED <<queue, wake, backend, loopv, prodv>>

-----------------------------------------------------------------------------
Trigger(p) == AddCount(p) \/ AddAppend(p) \/ TriggerWake(p)

ForEach == ForEachLoad \/ ForEachLock \/ ForEachTake
             \/ (\E err \in BOOLEAN : ForEachIter(err))

Wait == WaitWoken \/ ForEach \/ Events \/ EventsFail

Next ==
    \/ \E p \in Producers : AddLock(p) \/ Trigger(p)
    \/ Wait \/ WaitOther \/ Close

\* A call of Trigger that has begun goes on, and so does the loop; nobody has
\* to call Trigger, and no socket has to become ready.
Fairness ==
    /\ \A p \in Producers : WF_vars(Trigger(p))
    /\ WF_vars(Wait)

Spec == Init /\ [][Next]_vars /\ Fairness

-----------------------------------------------------------------------------
(* Properties.                                                              *)

\* Notes are neither lost, duplicated nor reordered between the three places
\* they pass: what Add appended is what iter was handed, then the slice
\* ForEach took out (notequeue.go:58-62), then the queue.
FifoExactlyOnce == added = handled \o taken \o notes

\* ForEach decides without the lock (notequeue.go:50).  With kqueue a note in
\* the queue is announced all the same (internal_bsd.go:60-71): the wake descriptor is set, its producer is about to
\* set it, or the loop is already on its way to take it.
NoStrandedNote ==
    backend = "kqueue" /\ notes # << >> =>
        \/ wake > 0
        \/ \E p \in Producers : tpc[p] = "wake"
        \/ pc \in {"load", "lock", "take", "stopped"}

Indices == 1..(MaxCalls * Cardinality(Producers))

\* Every note given to Trigger is handled, unless the loop ends: the promise
\* behind Tick (evio.go:120 "will fire again") and the shutdown notice
\* (evio_unix.go:154 "notify all loops to close").
EveryNoteHandled ==
    \A k \in Indices :
        Len(added) >= k ~> (Len(handled) >= k \/ pc = "stopped")

\* With kqueue every note is handled; with epoll, which may erase a wake-up,
\* provided the loop keeps being woken, for whatever reason.
HandledIfWoken ==
    (backend = "kqueue" \/ []<>(pc \in {"load", "stopped"})) => EveryNoteHandled

Mailbox == INSTANCE NoteMailbox
    WITH Notes <- Note, box <- taken \o notes, out <- handled,
         up <- (pc # "stopped")

\* The poll implements the mailbox: Trigger's append is Put, iter is Deliver,
\* and nothing else is visible to callers and handlers.
ImplementsMailbox == Mailbox!MSpec
=============================================================================
