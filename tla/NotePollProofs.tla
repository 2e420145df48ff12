--------------------------- MODULE NotePollProofs ---------------------------
(***************************************************************************)
(* Proofs about NotePoll for any set of producers, any number of calls and  *)
(* any eventfd limit.                                                       *)
(***************************************************************************)
EXTENDS NotePoll, SequenceTheorems, TLAPS

InAdd(p) == tpc[p] \in {"count", "append"}

\* The spinlock excludes: at most one producer is inside Add, never together
\* with the loop in ForEach, and the lock word is set while somebody is inside.
Mutex ==
    /\ \A p, q \in Producers : InAdd(p) /\ InAdd(q) => p = q
    /\ \A p \in Producers : InAdd(p) => mu = 1 /\ pc # "take"
    /\ pc = "take" => mu = 1

\* The counter read without the lock is the length of the queue, plus the
\* note whose producer has counted it and not yet appended it.
CountInv ==
    /\ (\A p \in Producers : tpc[p] # "append") => n = Len(notes)
    /\ (\E p \in Producers : tpc[p] = "append") => n = Len(notes) + 1

\* ForEach's slice is non-empty exactly while it is handed out; only a stopped
\* loop leaves a rest.
TakenInv ==
    /\ pc = "iter" => taken # << >>
    /\ pc \notin {"iter", "stopped"} => taken = << >>

CallsInv == \A p \in Producers : tpc[p] # "idle" => calls[p] >= 1

\* The inductive invariant.
IInv == TypeOK /\ Mutex /\ CountInv /\ TakenInv /\ CallsInv /\ FifoExactlyOnce

-----------------------------------------------------------------------------
(* Sequences.                                                               *)

\* Appending to the queue appends to the whole pipeline.
LEMMA AppendCat ==
    \A a, b \in Seq(Note) : \A e \in Note : Append(a \o b, e) = a \o Append(b, e)
  OBVIOUS

\* Moving the head of the second part to the end of the first changes nothing.
LEMMA ShiftCat ==
    ASSUME NEW S, NEW a \in Seq(S), NEW b \in Seq(S), b # << >>
    PROVE  /\ Head(b) \in S
           /\ Tail(b) \in Seq(S)
           /\ a \o b = Append(a, Head(b)) \o Tail(b)
  BY SMTT(30)

\* The head and the tail of a concatenation whose first part is not empty.
LEMMA HeadTailCat ==
    ASSUME NEW S, NEW a \in Seq(S), NEW b \in Seq(S), a # << >>
    PROVE  /\ a \o b # << >>
           /\ Head(a \o b) = Head(a)
           /\ Tail(a \o b) = Tail(a) \o b
  OBVIOUS


\* The empty sequence is neutral.
LEMMA CatEmpty ==
    ASSUME NEW S, NEW a \in Seq(S)
    PROVE  a \o << >> = a /\ << >> \o a = a /\ << >> \in Seq(S)
  OBVIOUS
-----------------------------------------------------------------------------
(* The inductive invariant.                                                 *)

\* IInv holds initially.
LEMMA InitIInv == Init => IInv
  <1> SUFFICES ASSUME Init PROVE IInv
    OBVIOUS
  <1>1. << >> \in Seq(Note) /\ << >> \o << >> \o << >> = << >>
    BY CatEmpty
  <1>2. calls \in [Producers -> 0..MaxCalls]
    BY ConstAssumption DEF Init
  <1>3. hasWake \in BOOLEAN /\ open \in BOOLEAN
    BY Zenon DEF Init
  <1>4. TypeOK
    BY <1>1, <1>2, <1>3 DEF Init, TypeOK
  <1> QED
    BY <1>1, <1>4 DEF Init, IInv, Mutex, InAdd, CountInv, TakenInv, CallsInv,
                      FifoExactlyOnce

\* Every step of Trigger and of Wait preserves IInv.
LEMMA NextIInv == IInv /\ [Next]_vars => IInv'
  <1> SUFFICES ASSUME IInv, [Next]_vars PROVE IInv'
    OBVIOUS
  <1> USE ConstAssumption
  <1>1. ASSUME NEW p \in Producers, AddLock(p) PROVE IInv'
    <2> USE <1>1 DEF AddLock, loopv
    <2>1. TypeOK' BY DEF IInv, TypeOK
    <2>2. Mutex' BY DEF IInv, TypeOK, Mutex, InAdd
    <2>3. CountInv' BY DEF IInv, TypeOK, CountInv
    <2>4. TakenInv' BY DEF IInv, TakenInv
    <2>5. CallsInv' BY DEF IInv, TypeOK, CallsInv
    <2>6. FifoExactlyOnce' BY DEF IInv, FifoExactlyOnce
    <2> QED BY <2>1, <2>2, <2>3, <2>4, <2>5, <2>6 DEF IInv
  <1>2. ASSUME NEW p \in Producers, AddCount(p) PROVE IInv'
    <2> USE <1>2 DEF AddCount, loopv
    <2>1. TypeOK' BY DEF IInv, TypeOK
    <2>2. Mutex' BY DEF IInv, TypeOK, Mutex, InAdd
    <2>3. CountInv'
      <3>1. \A q \in Producers : tpc[q] # "append"
        BY DEF IInv, Mutex, InAdd
      <3> QED BY <3>1 DEF IInv, TypeOK, CountInv
    <2>4. TakenInv' BY DEF IInv, TakenInv
    <2>5. CallsInv' BY DEF IInv, TypeOK, CallsInv
    <2>6. FifoExactlyOnce' BY DEF IInv, FifoExactlyOnce
    <2> QED BY <2>1, <2>2, <2>3, <2>4, <2>5, <2>6 DEF IInv
  <1>3. ASSUME NEW p \in Producers, AddAppend(p) PROVE IInv'
    <2> USE <1>3 DEF AddAppend, loopv
    <2> DEFINE e == <<p, calls[p]>>
    <2>0. e \in Note BY DEF IInv, TypeOK, CallsInv, Note
    <2>1. TypeOK' BY <2>0 DEF IInv, TypeOK
    <2>2. Mutex' BY DEF IInv, TypeOK, Mutex, InAdd
    <2>3. CountInv'
      <3>1. n = Len(notes) + 1 BY DEF IInv, CountInv
      <3>2. \A q \in Producers : tpc'[q] # "append"
        BY DEF IInv, TypeOK, Mutex, InAdd
      <3>3. Len(notes') = Len(notes) + 1 BY <2>0 DEF IInv, TypeOK
      <3> QED BY <3>1, <3>2, <3>3 DEF CountInv
    <2>4. TakenInv' BY DEF IInv, TakenInv
    <2>5. CallsInv' BY DEF IInv, TypeOK, CallsInv
    <2>6. FifoExactlyOnce'
      <3>1. handled \in Seq(Note) /\ taken \in Seq(Note) /\ notes \in Seq(Note)
        BY DEF IInv, TypeOK
      <3>2. handled \o taken \in Seq(Note) BY <3>1
      <3>3. Append(handled \o taken \o notes, e) = handled \o taken \o Append(notes, e)
        BY <2>0, <3>1, <3>2, AppendCat, Zenon
      <3> QED BY Zenon, <3>3 DEF IInv, FifoExactlyOnce
    <2> QED BY <2>1, <2>2, <2>3, <2>4, <2>5, <2>6 DEF IInv
  <1>4. ASSUME NEW p \in Producers, TriggerWake(p) PROVE IInv'
    <2> USE <1>4 DEF TriggerWake, queue, loopv
    <2>1. TypeOK' BY DEF IInv, TypeOK
    <2>2. Mutex' BY DEF IInv, TypeOK, Mutex, InAdd
    <2>3. CountInv' BY DEF IInv, TypeOK, CountInv
    <2>4. TakenInv' BY DEF IInv, TakenInv
    <2>5. CallsInv' BY DEF IInv, TypeOK, CallsInv
    <2>6. FifoExactlyOnce' BY DEF IInv, FifoExactlyOnce
    <2> QED BY <2>1, <2>2, <2>3, <2>4, <2>5, <2>6 DEF IInv
  <1>5. ASSUME WaitWoken \/ WaitOther \/ ForEachLoad \/ Events \/ EventsFail \/ Close
        PROVE  IInv'
    <2> USE <1>5 DEF WaitWoken, WaitOther, ForEachLoad, Events, EventsFail, Close,
                     queue, loopv, prodv
    <2>0. hasWake' \in BOOLEAN /\ open' \in BOOLEAN BY Zenon DEF IInv, TypeOK
    <2>1. TypeOK' BY SMTT(30), <2>0 DEF IInv, TypeOK
    <2>2. Mutex' BY DEF IInv, Mutex, InAdd
    <2>3. CountInv' BY DEF IInv, CountInv
    <2>4. TakenInv' BY DEF IInv, TakenInv
    <2>5. CallsInv' BY DEF IInv, CallsInv
    <2>6. FifoExactlyOnce' BY Zenon DEF IInv, FifoExactlyOnce
    <2> QED BY <2>1, <2>2, <2>3, <2>4, <2>5, <2>6 DEF IInv
  <1>6. ASSUME ForEachLock PROVE IInv'
    <2> USE <1>6 DEF ForEachLock, prodv
    <2>1. TypeOK' BY DEF IInv, TypeOK
    <2>2. Mutex' BY DEF IInv, Mutex, InAdd
    <2>3. CountInv' BY DEF IInv, CountInv
    <2>4. TakenInv' BY DEF IInv, TakenInv
    <2>5. CallsInv' BY DEF IInv, CallsInv
    <2>6. FifoExactlyOnce' BY DEF IInv, FifoExactlyOnce
    <2> QED BY <2>1, <2>2, <2>3, <2>4, <2>5, <2>6 DEF IInv
  <1>7. ASSUME ForEachTake PROVE IInv'
    <2> USE <1>7 DEF ForEachTake, prodv
    <2>0. taken = << >> /\ notes \in Seq(Note) /\ handled \in Seq(Note)
          /\ << >> \in Seq(Note)
      BY CatEmpty DEF IInv, TypeOK, TakenInv
    <2>1. TypeOK'
      <3>1. CASE notes = << >> BY <2>0, <3>1 DEF IInv, TypeOK
      <3>2. CASE notes # << >> BY <2>0, <3>2 DEF IInv, TypeOK
      <3> QED BY <3>1, <3>2
    <2>2. Mutex' BY DEF IInv, Mutex, InAdd
    <2>3. CountInv'
      <3>1. \A q \in Producers : tpc[q] # "append" BY DEF IInv, Mutex, InAdd
      <3> QED BY <3>1 DEF IInv, CountInv
    <2>4. TakenInv' BY <2>0 DEF TakenInv
    <2>5. CallsInv' BY DEF IInv, CallsInv
    <2>6. FifoExactlyOnce'
      <3>1. handled \o << >> \o notes = handled \o notes
        BY <2>0, CatEmpty
      <3>2. handled \o notes \o << >> = handled \o notes
        <4>1. handled \o notes \in Seq(Note) BY <2>0
        <4> QED BY <4>1, CatEmpty
      <3> QED BY Zenon, <2>0, <3>1, <3>2 DEF IInv, FifoExactlyOnce
    <2> QED BY <2>1, <2>2, <2>3, <2>4, <2>5, <2>6 DEF IInv
  <1>8. ASSUME NEW err \in BOOLEAN, ForEachIter(err) PROVE IInv'
    <2> USE <1>8 DEF ForEachIter, queue, prodv
    <2>0. /\ taken # << >> /\ taken \in Seq(Note) /\ handled \in Seq(Note)
          /\ Head(taken) \in Note /\ Tail(taken) \in Seq(Note)
          /\ handled \o taken = Append(handled, Head(taken)) \o Tail(taken)
      BY SMTT(30), ShiftCat DEF IInv, TypeOK, TakenInv
    <2>1. TypeOK' BY <2>0 DEF IInv, TypeOK
    <2>2. Mutex' BY DEF IInv, Mutex, InAdd
    <2>3. CountInv' BY DEF IInv, CountInv
    <2>4. TakenInv' BY DEF TakenInv
    <2>5. CallsInv' BY DEF IInv, CallsInv
    <2>6. FifoExactlyOnce' BY <2>0 DEF IInv, FifoExactlyOnce
    <2> QED BY <2>1, <2>2, <2>3, <2>4, <2>5, <2>6 DEF IInv
  <1>9. CASE UNCHANGED vars
    BY <1>9 DEF vars, IInv, TypeOK, Mutex, InAdd, CountInv, TakenInv, CallsInv,
                FifoExactlyOnce
  <1> QED
    BY <1>1, <1>2, <1>3, <1>4, <1>5, <1>6, <1>7, <1>8, <1>9
       DEF Next, Trigger, Wait, ForEach

\* IInv holds in every reachable state.
THEOREM Invariance == Spec => []IInv
  BY InitIInv, NextIInv, PTL DEF Spec

\* Every variable of the poll keeps its type; in particular the counter n of
\* the note queue never goes below zero.
THEOREM TypeCorrect == Spec => []TypeOK
  BY Invariance, PTL DEF IInv

\* Notes given to Trigger are handed to the loop's handler once and in order,
\* whatever the interleaving of producers and loop (notequeue.go:41-68).
THEOREM FifoHolds == Spec => []FifoExactlyOnce
  BY Invariance, PTL DEF IInv
-----------------------------------------------------------------------------
(* The kqueue backend never strands a note.                                 *)

\* Only the poll of a stopped loop is closed.
OpenInv == ~open => pc = "stopped"

KInv == IInv /\ OpenInv /\ NoStrandedNote

\* Every step preserves KInv when returning the user event resets it before
\* ForEach runs.
LEMMA NextKInv ==
    ASSUME KInv, [Next]_vars
    PROVE  KInv'
  <1>1. IInv' BY NextIInv DEF KInv
  <1> USE DEF KInv, OpenInv, NoStrandedNote
  <1>2. ASSUME NEW p \in Producers, AddLock(p) \/ AddCount(p)
        PROVE  OpenInv' /\ NoStrandedNote'
    BY SMTT(30), <1>2 DEF AddLock, AddCount, loopv, IInv, TypeOK
  <1>3. ASSUME NEW p \in Producers, AddAppend(p)
        PROVE  OpenInv' /\ NoStrandedNote'
    BY <1>3 DEF AddAppend, loopv, IInv, TypeOK
  <1>4. ASSUME NEW p \in Producers, TriggerWake(p)
        PROVE  OpenInv' /\ NoStrandedNote'
    <2>1. OpenInv' BY <1>4 DEF TriggerWake, loopv
    <2>2. CASE open
      <3>1. backend' = "kqueue" => wake' = 1 BY <1>4, <2>2 DEF TriggerWake
      <3> QED BY <2>1, <3>1
    <2>3. CASE ~open BY <1>4, <2>1, <2>3 DEF TriggerWake, loopv
    <2> QED BY <2>2, <2>3
  <1>5. ASSUME WaitWoken \/ WaitOther PROVE OpenInv' /\ NoStrandedNote'
    BY <1>5 DEF WaitWoken, WaitOther, queue, prodv
  <1>6. ASSUME ForEachLoad PROVE OpenInv' /\ NoStrandedNote'
    <2>1. n = 0 => notes = << >>
      BY DEF IInv, TypeOK, CountInv
    <2> QED BY <1>6, <2>1 DEF ForEachLoad, queue, prodv
  <1>7. ASSUME ForEachLock PROVE OpenInv' /\ NoStrandedNote'
    BY <1>7 DEF ForEachLock, prodv
  <1>8. ASSUME ForEachTake PROVE OpenInv' /\ NoStrandedNote'
    BY <1>8 DEF ForEachTake, prodv
  <1>9. ASSUME NEW err \in BOOLEAN, ForEachIter(err)
        PROVE  OpenInv' /\ NoStrandedNote'
    BY <1>9 DEF ForEachIter, queue, prodv
  <1>10. ASSUME Events PROVE OpenInv' /\ NoStrandedNote'
    BY <1>10 DEF Events, queue, prodv
  <1>11. ASSUME EventsFail \/ Close PROVE OpenInv' /\ NoStrandedNote'
    BY <1>11 DEF EventsFail, Close, queue, loopv, prodv
  <1>12. CASE UNCHANGED vars
    BY <1>1, <1>12 DEF vars
  <1> QED
    BY <1>1, <1>2, <1>3, <1>4, <1>5, <1>6, <1>7, <1>8, <1>9, <1>10, <1>11, <1>12
       DEF Next, Trigger, Wait, ForEach

\* With the kqueue backend a queued note is always announced, so the loop
\* cannot go to sleep on it (internal_bsd.go:60-71).
THEOREM KqueueNoStrandedNote ==
    Spec => []NoStrandedNote
  <1>1. Init => KInv
    BY InitIInv DEF Init, KInv, OpenInv, NoStrandedNote
  <1>2. KInv /\ [Next]_vars => KInv'
    BY NextKInv
  <1>3. KInv => NoStrandedNote
    BY DEF KInv
  <1> QED
    BY <1>1, <1>2, <1>3, PTL DEF Spec

-----------------------------------------------------------------------------
(* The poll implements the mailbox.                                         *)

\* Every step of the poll is a step of the mailbox or changes nothing there.
LEMMA StepMailbox ==
    ASSUME IInv, [Next]_vars
    PROVE  [Mailbox!MNext]_(Mailbox!mvars)
  <1> USE DEF Mailbox!MNext, Mailbox!mvars
  <1>0. taken \in Seq(Note) /\ notes \in Seq(Note) /\ handled \in Seq(Note)
    BY DEF IInv, TypeOK
  <1>1. ASSUME NEW p \in Producers, AddLock(p) \/ AddCount(p) \/ TriggerWake(p)
        PROVE  UNCHANGED Mailbox!mvars
    BY SMTT(30), <1>1 DEF AddLock, AddCount, TriggerWake, queue, loopv
  <1>2. ASSUME NEW p \in Producers, AddAppend(p) PROVE Mailbox!MNext
    <2> DEFINE e == <<p, calls[p]>>
    <2>1. e \in Note BY <1>2, ConstAssumption DEF AddAppend, IInv, TypeOK, CallsInv, Note
    <2>2. taken' \o notes' = Append(taken \o notes, e)
      BY <1>0, <1>2, <2>1, AppendCat, Zenon DEF AddAppend, loopv
    <2>3. handled' = handled /\ pc' = pc BY <1>2 DEF AddAppend, loopv
    <2>4. Mailbox!Put(e) BY SMTT(30), <2>2, <2>3 DEF Mailbox!Put
    <2> QED BY <2>1, <2>4
  <1>3. ASSUME WaitWoken \/ WaitOther \/ ForEachLoad \/ ForEachLock \/ Events \/ Close
        PROVE  UNCHANGED Mailbox!mvars
    BY SMTT(30), <1>3 DEF WaitWoken, WaitOther, ForEachLoad, ForEachLock, Events, Close,
                queue, loopv
  <1>4. ASSUME ForEachTake PROVE UNCHANGED Mailbox!mvars
    <2>1. taken = << >> BY <1>4 DEF ForEachTake, IInv, TakenInv
    <2>2. taken' \o notes' = taken \o notes
      BY <1>0, <1>4, <2>1, CatEmpty DEF ForEachTake
    <2> QED BY <1>4, <2>2 DEF ForEachTake
  <1>5. ASSUME NEW err \in BOOLEAN, ForEachIter(err) PROVE Mailbox!MNext
    <2>1. taken # << >> BY <1>5 DEF ForEachIter, IInv, TakenInv
    <2>2. /\ taken \o notes # << >>
          /\ Head(taken \o notes) = Head(taken)
          /\ Tail(taken \o notes) = Tail(taken) \o notes
      BY SMTT(30), <1>0, <2>1, HeadTailCat
    <2>3. Mailbox!Deliver
      BY SMTT(30), <1>5, <2>2 DEF ForEachIter, queue, Mailbox!Deliver
    <2> QED BY <2>3
  <1>6. ASSUME EventsFail PROVE Mailbox!MNext
    <2>1. Mailbox!Stop BY <1>6 DEF EventsFail, queue, Mailbox!Stop
    <2> QED BY <2>1
  <1>7. CASE UNCHANGED vars
    BY <1>7 DEF vars
  <1> QED
    BY SMTT(30), <1>1, <1>2, <1>3, <1>4, <1>5, <1>6, <1>7
       DEF Next, Trigger, Wait, ForEach

\* Both backends implement the safety part of the mailbox: Trigger's append is
\* Put, iter is Deliver, and nothing else is visible to callers or handlers.
THEOREM PollImplementsMailbox == Spec => ImplementsMailbox
  <1>1. Init => Mailbox!MInit
    BY CatEmpty DEF Init, Mailbox!MInit
  <1>2. IInv /\ [Next]_vars => [Mailbox!MNext]_(Mailbox!mvars)
    BY StepMailbox
  <1> QED
    BY <1>1, <1>2, Invariance, PTL DEF Spec, ImplementsMailbox, Mailbox!MSpec
=============================================================================
