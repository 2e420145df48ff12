---------------------------- MODULE AcceptProofs ----------------------------
(***************************************************************************)
(* Proofs about Serve and Accept for any number of loops, listeners,        *)
(* clients and dialers: the order in which a server ends, what the unlocked *)
(* choices of loopAccept guarantee, and that indices stay in range.         *)
(***************************************************************************)
EXTENDS Accept, FiniteSetTheorems, TLAPS

Positions == {"none", "created", "run", "tch", "end", "signalled", "gone",
              "event", "scan", "turn", "accept", "count"}

-----------------------------------------------------------------------------
(* The end of a server.                                                     *)

Live == {i \in Loops : lpc[i] # "gone"}
AllGone == \A i \in Loops : lpc[i] = "gone"
NoneYet == \A i \in Loops : lpc[i] = "none"

\* wg.Add has been called, and the loops have not been joined yet.
Counted ==
    \/ spc \in {"wait", "asleep", "trigger", "join"}
    \/ spc = "start" /\ nxt > 1

\* The wait group counts the loops that have not gone, so that nothing is
\* closed before all of them have.
LifeInv ==
    /\ lpc \in [Loops -> Positions] /\ nxt \in Nat \ {0}
    /\ poll \in [Loops -> {"none", "open", "closed"}]
    /\ lns \in [Listeners -> {"none", "open", "listed", "leaked", "closed"}]
    /\ spc \in {"listen", "serving", "create"} => NoneYet
    /\ spc = "serving" => nxt = 1
    /\ spc \in {"create", "start"} => nxt \in Loops
    /\ spc = "start" => \A i \in Loops : i >= nxt => lpc[i] = "none"
    /\ Counted => wg = Cardinality(Live)
    /\ spc = "close" => AllGone
    /\ spc \in {"unlisten", "stopped"} => NoneYet \/ AllGone
    /\ (\E i \in Loops : poll[i] = "closed") => AllGone
    /\ \A n \in Listeners : lns[n] = "closed" => spc \in {"unlisten", "stopped"}

\* A loop that runs moves on, which may wake serve up.
Moves(i) ==
    /\ lpc[i] \notin {"none", "gone"}
    /\ \E where \in Positions \ {"none", "gone"} : lpc' = [lpc EXCEPT ![i] = where]
    /\ spc' = spc \/ (spc = "asleep" /\ spc' = "trigger")
    /\ UNCHANGED <<lns, nxt, poll, wg>>

Stands == UNCHANGED <<lns, spc, nxt, lpc, poll, wg>>

\* What serve, loopRun, loopAccept, loopTicker and outConnect do to the state
\* LifeInv is about.
LEMMA LifeSteps ==
    ASSUME [AcceptNext]_allvars
    PROVE  serve \/ (\E i \in Loops : Moves(i) \/ loopDone(i)) \/ Stands
<1>1. CASE serveStep
  BY <1>1 DEF serveStep
<1>2. CASE ticker
  BY <1>2 DEF ticker, tickerTrigger, tickerSleep, Stands, loopvars
<1>3. CASE ClientComes
  BY <1>3 DEF ClientComes, Stands, vars
<1>4. ASSUME NEW i \in Loops, loopGoesOn(i)
      PROVE  Moves(i) \/ loopDone(i)
  <2>1. CASE loopStart(i) \/ loopSignal(i) \/ loopDone(i)
    BY <2>1 DEF loopStart, loopSignal, Moves, Positions
  <2>2. CASE loopTch(i)
    BY Zenon, <2>2 DEF loopTch, Moves, Positions
  <2>3. CASE acceptRandom(i) \/ acceptTurn(i) \/ acceptAdd(i) \/ acceptScan(i)
    BY <2>3 DEF acceptRandom, acceptTurn, acceptAdd, acceptScan, Goto, Moves, Positions
  <2>4. CASE acceptCompare(i)
    BY Zenon, <2>4 DEF acceptCompare, Goto, Moves, Positions
  <2>5. CASE acceptAgain(i) \/ acceptError(i) \/ loopUDPRead(i) \/ acceptConn(i) \/ acceptCount(i)
    BY <2>5 DEF acceptAgain, acceptError, loopUDPRead, acceptConn, acceptCount, Goto, Moves, Positions
  <2> QED BY Zenon, <1>4, <2>1, <2>2, <2>3, <2>4, <2>5 DEF loopGoesOn, loopAccept
<1>5. ASSUME NEW i \in Loops, loopTakesNote(i)
      PROVE  Moves(i) \/ Stands
  BY <1>5 DEF loopTakesNote, loopNote, loopNoteConn, Moves, Stands, Positions
<1>6. ASSUME NEW i \in Loops, ListenerEvent(i) \/ loopEventEnds(i)
      PROVE  Moves(i)
  BY <1>6 DEF ListenerEvent, loopEventEnds, Goto, Moves, Positions
<1>7. ASSUME NEW i \in Loops, loopCloseConn(i)
      PROVE  Stands
  BY Zenon, <1>7 DEF loopCloseConn, Stands, vars
<1>8. ASSUME NEW d \in Dialers, outConnect(d)
      PROVE  Stands
  BY <1>8 DEF outConnect, outConnectPanic, outConnectPick, outConnectScan,
              outConnectAdd, outConnectTrigger, Stands, vars
<1>9. CASE UNCHANGED allvars
  BY <1>9 DEF allvars, vars, Stands
<1> QED
  BY Zenon, <1>1, <1>2, <1>3, <1>4, <1>5, <1>6, <1>7, <1>8, <1>9 DEF AcceptNext

\* The loops are finitely many, and so are those that live.
LEMMA LiveFinite ==
    ASSUME NEW S \in SUBSET Loops
    PROVE  IsFiniteSet(S) /\ Cardinality(S) \in Nat /\ (Cardinality(S) = 0 => S = {})
<1>1. IsFiniteSet(Loops)
  BY FS_Interval, ConstAssumption DEF Loops
<1>2. IsFiniteSet(S)
  BY <1>1, FS_Subset
<1> QED BY <1>2, FS_CardinalityType, FS_EmptySet

\* Nothing has been started or closed.
LEMMA LifeInit == AcceptInit => LifeInv
  BY SMTT(30), ConstAssumption DEF AcceptInit, Init, LifeInv, NoneYet, Counted, Positions, Loops
\* The wait group, the positions of the loops and what is closed go together
\* through every step of serve and of the loops.
LEMMA LifeNext ==
    ASSUME LifeInv, [AcceptNext]_allvars
    PROVE  LifeInv'
<1> USE ConstAssumption DEF LifeInv, NoneYet, AllGone
<1>1. CASE Listen
  BY <1>1 DEF Listen, loopvars, Counted, Live
<1>2. CASE system
  BY <1>2 DEF system, loopvars, Counted, Live, Listeners
<1>3. CASE Unlisten
  BY <1>3 DEF Unlisten, loopvars, Counted, Live
<1>4. CASE serveServing
  BY <1>4 DEF serveServing, loopvars, Counted, Live, Loops
<1>5. CASE serveCreate
  BY <1>5 DEF serveCreate, loopvars, Counted, Live, Loops
<1>6. CASE serveStart
  <2>1. /\ lpc' = [lpc EXCEPT ![nxt] = "created"] /\ nxt \in Loops /\ lpc[nxt] = "none"
        /\ UNCHANGED <<lns, poll>> /\ spc = "start"
    BY <1>6 DEF serveStart, Loops
  <2>2. wg' = Cardinality(Live')
    <3>1. Live' = Live
      BY <2>1 DEF Live
    <3>2. CASE nxt = 1
      <4>1. Live = Loops
        BY <2>1, <3>2 DEF Live, Loops
      <4>2. Cardinality(Loops) = NumLoops
        BY FS_Interval DEF Loops
      <4> QED BY Zenon, <1>6, <3>1, <3>2, <4>1, <4>2 DEF serveStart
    <3>3. CASE nxt # 1
      BY <1>6, <2>1, <3>1, <3>3 DEF serveStart, Counted
    <3> QED BY <3>2, <3>3
  <2>3. (nxt' \in Loops /\ spc' = "start" /\ nxt' = nxt + 1) \/ (nxt' = 1 /\ spc' = "wait")
    BY <1>6, <2>1 DEF serveStart, Loops
  <2>4. ~AllGone
    BY <2>1
  <2> QED BY <2>1, <2>2, <2>3, <2>4 DEF Positions, Loops
<1>7. CASE serveWait
  BY Zenon, <1>7 DEF serveWait, loopvars, Counted, Live
<1>8. CASE serveTrigger
  BY <1>8 DEF serveTrigger, Counted, Live
<1>9. CASE serveJoin
  <2>1. Live = {}
    BY Zenon, <1>9, LiveFinite DEF serveJoin, Counted, Live
  <2> QED BY <1>9, <2>1 DEF serveJoin, loopvars, Counted, Live
<1>10. CASE serveClose
  BY <1>10 DEF serveClose, loopvars, Counted, Live
<1>11. ASSUME NEW i \in Loops, Moves(i) PROVE LifeInv'
  <2>1. PICK where \in Positions \ {"none", "gone"} : lpc' = [lpc EXCEPT ![i] = where]
    BY Zenon, <1>11 DEF Moves
  <2>2. lpc[i] # "none" /\ lpc[i] # "gone" /\ UNCHANGED <<lns, nxt, poll, wg>>
        /\ (spc' = spc \/ (spc = "asleep" /\ spc' = "trigger"))
    BY <1>11 DEF Moves
  <2>3. Live' = Live
    BY Zenon, <2>1, <2>2 DEF Live
  <2> QED BY <2>1, <2>2, <2>3 DEF Counted
<1>12. ASSUME NEW i \in Loops, loopDone(i) PROVE LifeInv'
  <2>1. lpc[i] = "signalled" /\ lpc' = [lpc EXCEPT ![i] = "gone"] /\ wg' = wg - 1
        /\ UNCHANGED <<lns, spc, nxt, poll>>
    BY <1>12 DEF loopDone
  <2>2. Counted => wg' = Cardinality(Live')
    <3>1. Live' = Live \ {i} /\ i \in Live
      BY <2>1 DEF Live
    <3>2. Cardinality(Live \ {i}) = Cardinality(Live) - 1
      BY Zenon, <3>1, LiveFinite, FS_RemoveElement DEF Live
    <3> QED BY Zenon, <2>1, <3>1, <3>2
  <2> QED BY Zenon, <2>1, <2>2 DEF Counted, Positions
<1>13. CASE Stands
  BY <1>13 DEF Stands, Counted, Live
<1> QED
  BY Zenon, LifeSteps, <1>1, <1>2, <1>3, <1>4, <1>5, <1>6, <1>7, <1>8, <1>9, <1>10, <1>11,
     <1>12, <1>13 DEF serve

\* Serve and ConnServe close a poll only when its loop has gone, and the
\* listeners only when there are no loops, however shutdown, ticks, clients
\* and dialers interleave.
THEOREM EndsInOrder == AcceptSpec => []ClosedAfterJoin
<1>1. LifeInv => ClosedAfterJoin
  BY DEF LifeInv, ClosedAfterJoin, AllGone, NoneYet
<1>2. LifeInv /\ [AcceptNext]_allvars => LifeInv'
  BY LifeNext
<1> QED BY LifeInit, <1>1, <1>2, PTL DEF AcceptSpec
-----------------------------------------------------------------------------
(* RoundRobin.                                                              *)

\* The numbers below n that are turns of loop i.
Own(i, n) == {k \in 0..(n - 1) : k % NumLoops = i - 1}

\* One more number is a turn of one more loop, the one it is the turn of.
LEMMA OwnStep ==
    ASSUME NEW i \in Loops, NEW n \in Nat
    PROVE  Cardinality(Own(i, n + 1))
             = IF n % NumLoops = i - 1 THEN Cardinality(Own(i, n)) + 1
               ELSE Cardinality(Own(i, n))
<1>1. IsFiniteSet(Own(i, n))
  <2>1. IsFiniteSet(0..(n - 1))
    BY FS_Interval
  <2> QED BY <2>1, FS_Subset DEF Own
<1>2. n \notin Own(i, n)
  BY DEF Own
<1>3. 0..((n + 1) - 1) = 0..(n - 1) \cup {n}
  OBVIOUS
<1>4. CASE n % NumLoops = i - 1
  <2>1. Own(i, n + 1) = Own(i, n) \cup {n}
    BY <1>3, <1>4 DEF Own
  <2> QED BY Zenon, <1>1, <1>2, <1>4, <2>1, FS_AddElement
<1>5. CASE n % NumLoops # i - 1
  <2>1. Own(i, n + 1) = Own(i, n)
    BY Zenon, <1>3, <1>5 DEF Own
  <2> QED BY <1>5, <2>1
<1> QED BY <1>4, <1>5

\* A loop that has found that it is its turn still has it when it adds to the
\* counter: nobody else has the turn, and nobody else adds.
TurnInv == kind # "dialing" =>
    /\ accepted \in Nat /\ turns \in [Loops -> Nat]
    /\ \A d \in Dialers : dpc[d] = "done"
    /\ \A i \in Loops :
         /\ turns[i] = Cardinality(Own(i, accepted))
         /\ lpc[i] = "turn" => balance = "roundrobin" /\ accepted % NumLoops = i - 1

\* The kind of a server and its LoadBalance do not change.
LEMMA Rigid == [AcceptNext]_allvars => UNCHANGED <<kind, balance>>
<1> SUFFICES ASSUME [AcceptNext]_allvars PROVE UNCHANGED <<kind, balance>>
  OBVIOUS
<1>1. CASE serveStep
  <2>1. UNCHANGED balance
    BY Zenon, <1>1 DEF serveStep
  <2>2. UNCHANGED kind
    BY Zenon, <1>1 DEF serveStep, serve, Listen, system, Unlisten, serveServing, serveCreate, serveStart,
                serveWait, serveTrigger, serveJoin, serveClose
  <2> QED BY <2>1, <2>2
<1>2. CASE (ticker /\ UNCHANGED avars) \/ ClientComes \/ UNCHANGED allvars
  BY Zenon, <1>2 DEF ticker, tickerTrigger, tickerSleep, ClientComes, allvars, vars, avars
<1>3. ASSUME NEW i \in Loops,
             (loopStart(i) \/ loopTch(i) \/ loopSignal(i) \/ loopDone(i) \/ loopNote(i)
                \/ loopEventEnds(i)) /\ UNCHANGED avars
      PROVE  UNCHANGED <<kind, balance>>
  BY Zenon, <1>3 DEF loopStart, loopTch, loopSignal, loopDone, loopNote, loopEventEnds, avars
<1>4. ASSUME NEW i \in Loops, loopAccept(i)
      PROVE  UNCHANGED <<kind, balance>>
  BY Zenon, <1>4 DEF loopAccept, acceptRandom, acceptTurn, acceptAdd, acceptScan, acceptCompare,
              acceptAgain, acceptError, loopUDPRead, acceptConn, acceptCount, Goto, avars
<1>5. ASSUME NEW i \in Loops, loopNoteConn(i) \/ ListenerEvent(i) \/ loopCloseConn(i)
      PROVE  UNCHANGED <<kind, balance>>
  BY Zenon, <1>5 DEF loopNoteConn, ListenerEvent, loopCloseConn, Goto, vars, avars
<1>6. ASSUME NEW d \in Dialers, outConnect(d)
      PROVE  UNCHANGED <<kind, balance>>
  BY Zenon, <1>6 DEF outConnect, outConnectPanic, outConnectPick, outConnectScan, outConnectAdd,
              outConnectTrigger, Dial, vars
<1> QED
  BY Zenon, <1>1, <1>2, <1>3, <1>4, <1>5, <1>6 DEF AcceptNext, loopGoesOn, loopTakesNote

\* No step but the load and the addition of loopAccept, and those of
\* outConnect in a dialing server, has to do with turns.
NoTurn ==
    /\ UNCHANGED <<kind, balance, accepted, turns>>
    /\ \A i \in Loops : lpc'[i] = "turn" => lpc[i] = "turn"
    /\ (kind # "dialing" /\ (\A d \in Dialers : dpc[d] = "done")) =>
           \A d \in Dialers : dpc'[d] = "done"

\* A step that is not a turn at a listener (loopAccept's test of
\* s.accepted) preserves the rotation.
LEMMA TurnSteps ==
    ASSUME LifeInv, TurnInv, [AcceptNext]_allvars
    PROVE  NoTurn \/ (\E i \in Loops : acceptTurn(i) \/ acceptAdd(i)) \/ kind = "dialing"
<1> USE DEF NoTurn, avars, listenvars, dialvars
<1>1. CASE serveStep
  <2>1. \A i \in Loops : lpc'[i] = "turn" => lpc[i] = "turn"
    BY Zenon, <1>1 DEF serveStep, serve, Listen, system, Unlisten, serveServing, serveCreate,
                serveStart, serveWait, serveTrigger, serveJoin, serveClose, loopvars, LifeInv
  <2>2. UNCHANGED kind
    BY Zenon, <1>1 DEF serveStep, serve, Listen, system, Unlisten, serveServing, serveCreate,
                serveStart, serveWait, serveTrigger, serveJoin, serveClose
  <2> QED BY ZenonT(60), <1>1, <2>1, <2>2 DEF serveStep
<1>2. CASE ticker /\ UNCHANGED avars
  BY Zenon, <1>2 DEF ticker, tickerTrigger, tickerSleep, loopvars
<1>3. CASE ClientComes
  BY SMTT(30), <1>3 DEF ClientComes, vars
<1>4. ASSUME NEW i \in Loops, loopGoesOn(i)
      PROVE  NoTurn \/ acceptTurn(i) \/ acceptAdd(i)
  <2>1. CASE (loopStart(i) \/ loopTch(i) \/ loopSignal(i) \/ loopDone(i)) /\ UNCHANGED avars
    BY SMTT(30), <2>1 DEF loopStart, loopTch, loopSignal, loopDone, LifeInv
  <2>2. CASE acceptRandom(i) \/ acceptScan(i)
    BY Zenon, <2>2 DEF acceptRandom, acceptScan, Goto, LifeInv
  <2>3. CASE acceptCompare(i)
    BY Zenon, <2>3 DEF acceptCompare, Goto, LifeInv
  <2>4. CASE acceptAgain(i) \/ acceptError(i) \/ loopUDPRead(i) \/ acceptConn(i) \/ acceptCount(i)
    BY SMTT(90), <2>4 DEF acceptAgain, acceptError, loopUDPRead, acceptConn, acceptCount, Goto, LifeInv
  <2> QED BY Zenon, <1>4, <2>1, <2>2, <2>3, <2>4 DEF loopGoesOn, loopAccept
<1>5. ASSUME NEW i \in Loops, loopTakesNote(i) PROVE NoTurn
  <2>1. CASE loopNote(i) /\ UNCHANGED avars
    BY Zenon, <2>1 DEF loopNote, LifeInv
  <2>2. CASE loopNoteConn(i)
    <3>1. (\A d \in Dialers : dpc[d] = "done") => \A d \in Dialers : dpc'[d] = "done"
      BY SMTT(30), <2>2 DEF loopNoteConn
    <3> QED BY Zenon, <2>2, <3>1 DEF loopNoteConn
  <2> QED BY Zenon, <1>5, <2>1, <2>2 DEF loopTakesNote
<1>6. ASSUME NEW i \in Loops, ListenerEvent(i) \/ (loopEventEnds(i) /\ UNCHANGED avars)
      PROVE  NoTurn
  BY Zenon, <1>6 DEF ListenerEvent, loopEventEnds, Goto, LifeInv
<1>7. ASSUME NEW i \in Loops, loopCloseConn(i) PROVE NoTurn
  BY Zenon, <1>7 DEF loopCloseConn, vars
<1>8. ASSUME NEW d \in Dialers, outConnect(d) PROVE kind = "dialing"
  BY Zenon, <1>8 DEF TurnInv, outConnect, outConnectPanic, outConnectPick, outConnectScan,
              outConnectAdd, outConnectTrigger
<1>9. CASE UNCHANGED allvars
  BY <1>9 DEF allvars, vars
<1> QED
  BY Zenon, <1>1, <1>2, <1>3, <1>4, <1>5, <1>6, <1>7, <1>8, <1>9 DEF AcceptNext
\* Nobody has had a turn yet.
LEMMA TurnInit == AcceptInit => TurnInv
<1> SUFFICES ASSUME AcceptInit, kind # "dialing" PROVE TurnInv
  BY DEF TurnInv
<1>1. \A i \in Loops : Own(i, 0) = {}
  BY DEF Own
<1> QED BY Zenon, <1>1, FS_EmptySet DEF AcceptInit, Init, TurnInv

\* The load and the addition of loopAccept keep the turns going round.
LEMMA TurnNext ==
    ASSUME LifeInv, TurnInv, [AcceptNext]_allvars
    PROVE  TurnInv'
<1> SUFFICES ASSUME kind # "dialing" PROVE TurnInv'
  BY Zenon, Rigid DEF TurnInv
<1>1. CASE NoTurn
  BY Zenon, <1>1 DEF NoTurn, TurnInv
<1>2. ASSUME NEW i \in Loops, acceptTurn(i) PROVE TurnInv'
  BY Zenon, <1>2 DEF acceptTurn, Goto, TurnInv, LifeInv, avars, listenvars, dialvars
<1>3. ASSUME NEW i \in Loops, acceptAdd(i) PROVE TurnInv'
  <2>1. /\ lpc[i] = "turn" /\ lpc' = [lpc EXCEPT ![i] = "accept"]
        /\ accepted' = accepted + 1 /\ turns' = [turns EXCEPT ![i] = @ + 1]
        /\ UNCHANGED <<balance, dpc>>
    BY Zenon, <1>3 DEF acceptAdd, Goto, dialvars
  <2>2. /\ accepted \in Nat /\ turns \in [Loops -> Nat] /\ accepted % NumLoops = i - 1
        /\ lpc \in [Loops -> Positions]
    BY Zenon, <2>1 DEF TurnInv, LifeInv
  <2>3. ASSUME NEW j \in Loops
        PROVE  turns'[j] = Cardinality(Own(j, accepted')) /\ lpc'[j] # "turn"
    <3>1. turns[j] = Cardinality(Own(j, accepted))
      BY DEF TurnInv
    <3>2. i = j <=> accepted % NumLoops = j - 1
      BY <2>2 DEF Loops
    <3>3. turns'[j] = Cardinality(Own(j, accepted'))
      BY Zenon, <2>1, <2>2, <3>1, <3>2, OwnStep
    <3>4. lpc[j] = "turn" => j = i
      BY Zenon, <3>2 DEF TurnInv
    <3> QED BY Zenon, <2>1, <2>2, <3>3, <3>4
  <2> QED BY <2>1, <2>2, <2>3 DEF TurnInv
<1> QED BY Zenon, TurnSteps, <1>1, <1>2, <1>3
-----------------------------------------------------------------------------
(* LeastConnections.                                                        *)

Leveled == balance = "least" /\ kind = "tcp" /\ ~closed

\* As long as no connection is closed counts only grow, and a loop's own count
\* stands still while it compares: what it has found not to be below its own
\* count still is not when it counts the connection it has accepted.
LevelInv ==
    /\ count \in [Loops -> Int] /\ conns \in [Loops -> Nat] /\ seen \in [Loops -> Nat]
    /\ \A i \in Loops : seen[i] < NumLoops /\ (lpc[i] # "scan" => seen[i] = 0)
    /\ Leveled =>
         \A i \in Loops :
            /\ lpc[i] = "scan" => \A l \in Loops : l <= seen[i] => count[i] <= count[l]
            /\ lpc[i] \in {"accept", "count"} => \A l \in Loops : count[i] <= count[l]
            /\ \A l \in Loops : poll[l] # "closed" => count[i] <= count[l] + 1

\* A step that goes on with neither a scan nor an accept.
Steady ==
    /\ UNCHANGED <<count, seen, poll>> /\ conns' \in [Loops -> Nat]
    /\ Leveled' => Leveled
    /\ \A i \in Loops : lpc[i] = "scan" <=> lpc'[i] = "scan"
    /\ \A i \in Loops : lpc'[i] \in {"accept", "count"} => lpc[i] \in {"accept", "count"}

\* A step that leaves every loop.count alone, and every loop that has read
\* them, keeps the counts level.
LEMMA SteadyLevel == LevelInv /\ Steady => LevelInv'
  BY Zenon DEF LevelInv, Steady

\* All counts are zero.
LEMMA LevelInit == AcceptInit => LevelInv
  BY ConstAssumption DEF AcceptInit, Init, LevelInv, Loops

\* serve only lowers counts when all loops have gone.
LEMMA LevelServe ==
    ASSUME LifeInv, LifeInv', LevelInv, serveStep
    PROVE  LevelInv'
<1>1. /\ UNCHANGED <<seen, balance, closed, kind>>
      /\ \A i \in Loops : lpc'[i] # lpc[i] => lpc[i] = "none" /\ lpc'[i] = "created"
      /\ \A i \in Loops : poll[i] = "closed" => poll'[i] = "closed"
  <2>1. UNCHANGED <<seen, balance, closed>>
    BY DEF serveStep
  <2>2. CASE serveCreate
    <3>1. \A i \in Loops : poll[i] # "closed"
      BY Zenon, <2>2, ConstAssumption DEF serveCreate, LifeInv, NoneYet, AllGone, Loops
    <3> QED BY Zenon, <2>1, <2>2, <3>1 DEF serveCreate, loopvars
  <2>3. CASE serveStart
    <3>1. lpc' = [lpc EXCEPT ![nxt] = "created"] /\ spc = "start" /\ UNCHANGED <<kind, poll>>
      BY Zenon, <2>3 DEF serveStart
    <3>2. lpc[nxt] = "none"
      BY SMTT(30), <3>1, ConstAssumption DEF LifeInv, Loops
    <3> QED BY Zenon, <2>1, <3>1, <3>2 DEF LifeInv
  <2>4. CASE serveClose
    BY SMTT(30), <2>1, <2>4 DEF serveClose, loopvars, LifeInv
  <2>5. CASE Listen \/ system \/ Unlisten \/ serveServing \/ serveWait \/ serveTrigger \/ serveJoin
    BY Zenon, <2>1, <2>5 DEF Listen, system, Unlisten, serveServing, serveWait, serveTrigger, serveJoin,
                      loopvars
  <2> QED BY Zenon, <2>2, <2>3, <2>4, <2>5 DEF serveStep, serve
<1>2. /\ conns' = [i \in Loops |-> IF poll'[i] = "closed" THEN 0 ELSE conns[i]]
      /\ count' = [i \in Loops |-> count[i] - (conns[i] - conns'[i])]
  BY Zenon DEF serveStep
<1>3. /\ conns' \in [Loops -> Nat] /\ count' \in [Loops -> Int]
      /\ \A i \in Loops : count'[i] <= count[i]
      /\ \A i \in Loops : poll'[i] # "closed" => count'[i] = count[i]
  BY SMTT(30), <1>2 DEF LevelInv
<1>4. CASE \E i \in Loops : poll'[i] = "closed"
  <2>1. \A i \in Loops : lpc'[i] = "gone"
    BY Zenon, <1>4 DEF LifeInv, AllGone
  <2>2. \A i \in Loops : seen'[i] = 0
    BY Zenon, <1>1, <2>1 DEF LevelInv
  <2> QED BY SMTT(30), <1>1, <1>3, <2>1, <2>2, ConstAssumption DEF LevelInv, Leveled
<1>5. CASE ~ \E i \in Loops : poll'[i] = "closed"
  BY SMTT(30), <1>1, <1>3, <1>5 DEF LevelInv, Leveled
<1> QED BY Zenon, <1>4, <1>5
\* The steps of serve, loopAccept, loopCloseConn and the rest keep the counts
\* level.
LEMMA LevelNext ==
    ASSUME LifeInv, TurnInv, LevelInv, [AcceptNext]_allvars
    PROVE  LevelInv'
<1> USE DEF avars, listenvars, dialvars
<1>0. Steady => LevelInv'
  BY SteadyLevel
<1>1. CASE serveStep
  BY Zenon, <1>1, LifeNext, LevelServe
<1>2. CASE (ticker /\ UNCHANGED avars) \/ ClientComes \/ UNCHANGED allvars
  BY Zenon, <1>0, <1>2 DEF ticker, tickerTrigger, tickerSleep, loopvars, ClientComes, allvars, vars,
                    Steady, Leveled, LevelInv
<1>3. ASSUME NEW i \in Loops, UNCHANGED avars, loopStart(i) \/ loopTch(i) \/ loopSignal(i)
                 \/ loopDone(i) \/ loopNote(i) \/ loopEventEnds(i)
      PROVE  Steady
  BY ZenonT(90), <1>3 DEF loopStart, loopTch, loopSignal, loopDone, loopNote, loopEventEnds, Steady,
              Leveled, LevelInv, LifeInv
<1>4. ASSUME NEW i \in Loops, loopNoteConn(i) PROVE Steady
  BY <1>4 DEF loopNoteConn, Steady, Leveled, LevelInv
<1>5. ASSUME NEW i \in Loops, ListenerEvent(i) \/ acceptTurn(i) \/ acceptAgain(i)
                 \/ acceptError(i) \/ loopUDPRead(i)
      PROVE  Steady
  <2>1. CASE ListenerEvent(i) \/ acceptTurn(i) \/ acceptAgain(i)
    BY SMTT(30), <2>1 DEF ListenerEvent, acceptTurn, acceptAgain, Goto, Steady, Leveled, LevelInv, LifeInv
  <2>2. CASE acceptError(i) \/ loopUDPRead(i)
    BY SMTT(30), <2>2 DEF acceptError, loopUDPRead, Goto, Steady, Leveled, LevelInv, LifeInv
  <2> QED BY SMTT(30), <1>5, <2>1, <2>2
<1>6. ASSUME NEW i \in Loops, acceptConn(i) PROVE Steady
  BY SMTT(30), <1>6 DEF acceptConn, Goto, Steady, Leveled, LevelInv, LifeInv
<1>7. ASSUME NEW i \in Loops, acceptRandom(i) PROVE LevelInv'
  <2>1. Leveled' => \A l \in Loops : l = i
    BY SMTT(30), <1>7 DEF acceptRandom, Goto, Leveled, Loops
  <2> QED BY SMTT(30), <1>7, <2>1 DEF acceptRandom, Goto, Leveled, LevelInv, LifeInv
<1>8. ASSUME NEW i \in Loops, acceptAdd(i) PROVE LevelInv'
  <2>1. ~Leveled'
    BY Zenon, <1>8 DEF acceptAdd, Goto, TurnInv, Leveled
  <2> QED BY Zenon, <1>8, <2>1 DEF acceptAdd, Goto, LevelInv, LifeInv
<1>9. ASSUME NEW i \in Loops, acceptScan(i) PROVE LevelInv'
  BY SMTT(30), <1>9 DEF acceptScan, Goto, Leveled, LevelInv, LifeInv, Loops
<1>10. ASSUME NEW i \in Loops, acceptCompare(i) PROVE LevelInv'
  <2> DEFINE l == seen[i] + 1
             go == IF count[l] < count[i] THEN "run"
                   ELSE IF l = NumLoops THEN "accept" ELSE "scan"
  <2>1. /\ lpc[i] = "scan" /\ lpc' = [lpc EXCEPT ![i] = go]
        /\ seen' = [seen EXCEPT ![i] = IF go = "scan" THEN l ELSE 0]
        /\ UNCHANGED <<count, conns, poll, balance, kind, closed>>
    BY Zenon, <1>10 DEF acceptCompare, Goto
  <2>2. l \in Loops /\ l \in Nat /\ NumLoops \in Nat
    BY SMTT(30), ConstAssumption DEF LevelInv, Loops
  <2>3. \A k \in Loops : k <= l => k = l \/ k <= seen[i]
    BY DEF LevelInv, Loops
  <2>4. ASSUME Leveled, go # "run"
        PROVE  \A k \in Loops : k <= l => count[i] <= count[k]
    BY <2>1, <2>2, <2>3, <2>4 DEF LevelInv
  <2>5. go = "accept" => \A k \in Loops : k <= l
    BY SMTT(30), <2>2 DEF Loops
  <2>6. go = "scan" => l < NumLoops
    BY <2>2 DEF Loops
  <2>7. go \in {"run", "accept", "scan"}
    BY Zenon
  <2> HIDE DEF go, l
  <2> QED
    BY SMTT(30), <2>1, <2>2, <2>4, <2>5, <2>6, <2>7 DEF Leveled, LevelInv, LifeInv
<1>11. ASSUME NEW i \in Loops, acceptCount(i) PROVE LevelInv'
  BY SMTT(30), <1>11 DEF acceptCount, Goto, Leveled, LevelInv, LifeInv
<1>12. ASSUME NEW i \in Loops, loopCloseConn(i) PROVE LevelInv'
  <2>1. ~Leveled'
    BY Zenon, <1>12 DEF loopCloseConn, Leveled
  <2> QED BY SMTT(30), <1>12, <2>1 DEF loopCloseConn, vars, LevelInv
<1>13. ASSUME NEW d \in Dialers, outConnect(d) PROVE Steady
  BY SMTT(30), <1>13 DEF outConnect, outConnectPanic, outConnectPick, outConnectScan, outConnectAdd,
               outConnectTrigger, Dial, vars, Steady, Leveled, LevelInv
<1> QED
  BY Zenon, <1>0, <1>1, <1>2, <1>3, <1>4, <1>5, <1>6, <1>7, <1>8, <1>9, <1>10, <1>11, <1>12, <1>13
     DEF AcceptNext, loopGoesOn, loopAccept, loopTakesNote

\* Of a listening server with RoundRobin: the turns of loopAccept go round, for
\* any number of loops and clients, although the counter is loaded and added to
\* in two steps and no lock is taken.
THEOREM TurnsGoRound == AcceptSpec => []TurnsRotate
<1> DEFINE IInv == LifeInv /\ TurnInv
<1>1. AcceptInit => IInv
  BY LifeInit, TurnInit
<1>2. IInv /\ [AcceptNext]_allvars => IInv'
  BY Zenon, LifeNext, TurnNext
<1>3. IInv => TurnsRotate
  BY DEF TurnInv, TurnsRotate, Own
<1> QED BY <1>1, <1>2, <1>3, PTL DEF AcceptSpec

\* Of a listening server with LeastConnections: the counts of the loops differ
\* by one at most while no connection is closed, for any number of loops and
\* clients, although each loop of loopAccept compares them without a lock.
THEOREM CountsStayLevel == AcceptSpec => []CountsLevel
<1> DEFINE IInv == LifeInv /\ TurnInv /\ LevelInv
<1>1. AcceptInit => IInv
  BY Zenon, LifeInit, TurnInit, LevelInit
<1>2. IInv /\ [AcceptNext]_allvars => IInv'
  BY Zenon, LifeNext, TurnNext, LevelNext
<1>3. IInv => CountsLevel
  BY SMTT(30) DEF LevelInv, Leveled, CountsLevel
<1> QED BY <1>1, <1>2, <1>3, PTL DEF AcceptSpec
-----------------------------------------------------------------------------
(* The indices of serve, loopAccept and outConnect stay in range.           *)

\* Where Serve and serve are, the index of their for statements, and a wait
\* group that counts nothing before wg.Add and after wg.Wait.
PlaceInv ==
    /\ spc \in {"listen", "serving", "create", "start", "wait", "asleep",
                "trigger", "join", "close", "unlisten", "stopped"}
    /\ spc = "listen" => nxt \in Listeners
    /\ spc # "listen" => nxt \in 1..(NumLoops + 1)
    /\ ~Counted => wg = 0

\* The mailboxes, the ticker and what loopNote will return.
NoteInv ==
    /\ kind \in Kinds
    /\ lerr \in [Loops -> BOOLEAN]
    /\ notes \in [Loops -> Seq({"tick", "err"} \cup Dialers)]
    /\ tpc \in {"none", "trigger", "recv", "sleep", "ended"}

\* The scan of loopAccept has not come to the end of s.loops, and no more
\* clients are waiting than there are.
ShareInv ==
    /\ balance \in Balances
    /\ clients \in Nat /\ pending \in Nat /\ clients + pending <= MaxClients
    /\ accepted \in Nat /\ count \in [Loops -> Int]
    /\ conns \in [Loops -> Nat] /\ turns \in [Loops -> Nat]
    /\ seen \in [Loops -> 0..(NumLoops - 1)]
    /\ dpc \in [Dialers -> {"dial", "scan", "add", "trigger", "noted", "done", "panic"}]
    /\ didx \in [Dialers -> Loops]
    /\ dscan \in [Dialers -> [len : 0..NumLoops, at : 0..NumLoops, min : Int]]
    /\ closed \in BOOLEAN

\* The index of a for statement of Serve or serve is reset before the next
\* one begins, and wg.Done is called only by loops that wg.Add has counted.
LEMMA PlaceNext ==
    ASSUME LifeInv, PlaceInv, [AcceptNext]_allvars
    PROVE  PlaceInv'
<1> USE ConstAssumption
<1>1. CASE Listen
  BY SMTT(30), <1>1 DEF Listen, PlaceInv, Counted
<1>2. CASE system
  BY SMTT(30), <1>2 DEF system, PlaceInv, Counted, Listeners
<1>3. CASE Unlisten
  BY Zenon, <1>3 DEF Unlisten, PlaceInv, Counted
<1>4. CASE serveServing
  BY Zenon, <1>4 DEF serveServing, PlaceInv, Counted
<1>5. CASE serveCreate
  BY SMTT(30), <1>5 DEF serveCreate, PlaceInv, LifeInv, Counted, Loops
<1>6. CASE serveStart
  BY <1>6 DEF serveStart, PlaceInv, LifeInv, Counted, Loops
<1>7. CASE serveWait
  BY Zenon, <1>7 DEF serveWait, PlaceInv, Counted
<1>8. CASE serveTrigger
  BY SMTT(30), <1>8 DEF serveTrigger, PlaceInv, Counted
<1>9. CASE serveJoin
  BY Zenon, <1>9 DEF serveJoin, PlaceInv, Counted
<1>10. CASE serveClose
  BY SMTT(30), <1>10 DEF serveClose, PlaceInv, Counted
<1>11. ASSUME NEW i \in Loops, Moves(i) PROVE PlaceInv'
  BY Zenon, <1>11 DEF Moves, PlaceInv, Counted
<1>12. ASSUME NEW i \in Loops, loopDone(i) PROVE PlaceInv'
  <2>1. lpc[i] = "signalled" /\ UNCHANGED <<spc, nxt>>
    BY Zenon, <1>12 DEF loopDone
  <2>2. Counted
    BY SMTT(30), <2>1 DEF LifeInv, PlaceInv, Counted, NoneYet, AllGone, Loops
  <2> QED BY Zenon, <2>1, <2>2 DEF PlaceInv, Counted
<1>13. CASE Stands
  BY Zenon, <1>13 DEF Stands, PlaceInv, Counted
<1> QED
  BY Zenon, LifeSteps, <1>1, <1>2, <1>3, <1>4, <1>5, <1>6, <1>7, <1>8, <1>9, <1>10, <1>11,
     <1>12, <1>13 DEF serve

\* Trigger, Wait and the ticker put into the mailboxes, and take from them,
\* ticks, closing notes and dialed connections and nothing else.
LEMMA NoteNext ==
    ASSUME LifeInv, PlaceInv, NoteInv, ShareInv, [AcceptNext]_allvars
    PROVE  NoteInv'
<1> USE ConstAssumption
<1> DEFINE Note == {"tick", "err"} \cup Dialers
<1> DEFINE Quiet == UNCHANGED <<kind, lerr, notes, tpc>>
<1>1. Quiet => NoteInv'
  BY Zenon DEF NoteInv
<1>2. ASSUME NEW i \in Loops, NEW n \in Note, notes' = [notes EXCEPT ![i] = Append(@, n)]
      PROVE  notes' \in [Loops -> Seq(Note)]
  <2>1. Append(notes[i], n) \in Seq(Note)
    BY SMTT(30), <1>2 DEF NoteInv
  <2> QED BY Zenon, <1>2, <2>1 DEF NoteInv
<1>3. ASSUME NEW i \in Loops, notes[i] # << >>, notes' = [notes EXCEPT ![i] = Tail(@)]
      PROVE  notes' \in [Loops -> Seq(Note)]
  <2>1. Tail(notes[i]) \in Seq(Note)
    BY SMTT(30), <1>3 DEF NoteInv
  <2> QED BY Zenon, <1>3, <2>1 DEF NoteInv
<1>4. CASE serveStep
  <2>1. CASE serveTrigger
    <3>1. CASE nxt > NumLoops
      BY Zenon, <1>1, <2>1, <3>1 DEF serveTrigger
    <3>2. CASE ~(nxt > NumLoops)
      <4>1. nxt \in Loops
        BY SMTT(30), <2>1, <3>2 DEF serveTrigger, PlaceInv, Loops
      <4>2. /\ notes' = [notes EXCEPT ![nxt] = Append(@, "err")]
            /\ UNCHANGED <<kind, lerr, tpc>>
        BY Zenon, <2>1, <3>2 DEF serveTrigger
      <4> QED BY Zenon, <1>2, <4>1, <4>2 DEF NoteInv
    <3> QED BY Zenon, <3>1, <3>2
  <2>2. CASE serve /\ ~serveTrigger
    BY Zenon, <1>1, <2>2 DEF serve, Listen, system, Unlisten, serveServing, serveCreate, serveStart,
                      serveWait, serveJoin, serveClose, loopvars
  <2> QED BY Zenon, <1>4, <2>1, <2>2 DEF serveStep
<1>5. CASE ticker
  <2>1. CASE tickerTrigger
    <3>1. 1 \in Loops
      BY SMTT(30) DEF Loops
    <3>2. notes' = [notes EXCEPT ![1] = Append(@, "tick")] /\ UNCHANGED <<kind, lerr>>
          /\ tpc' \in {"ended", "recv"}
      BY Zenon, <2>1 DEF tickerTrigger
    <3> QED BY Zenon, <1>2, <3>1, <3>2 DEF NoteInv
  <2>2. CASE tickerSleep
    BY Zenon, <2>2 DEF tickerSleep, loopvars, NoteInv
  <2> QED BY Zenon, <1>5, <2>1, <2>2 DEF ticker
<1>6. CASE ClientComes \/ UNCHANGED allvars
  BY Zenon, <1>1, <1>6 DEF ClientComes, allvars, vars
<1>7. ASSUME NEW i \in Loops, loopGoesOn(i) PROVE NoteInv'
  <2>1. CASE loopStart(i)
    BY Zenon, <2>1 DEF loopStart, NoteInv
  <2>2. CASE loopTch(i)
    BY Zenon, <2>2 DEF loopTch, NoteInv
  <2>3. CASE loopSignal(i) \/ loopDone(i)
    BY Zenon, <1>1, <2>3 DEF loopSignal, loopDone
  <2>4. CASE loopAccept(i)
    BY Zenon, <1>1, <2>4 DEF loopAccept, acceptRandom, acceptTurn, acceptAdd, acceptScan, acceptCompare,
                      acceptAgain, acceptError, loopUDPRead, acceptConn, acceptCount, Goto
  <2> QED BY Zenon, <1>7, <2>1, <2>2, <2>3, <2>4 DEF loopGoesOn
<1>8. ASSUME NEW i \in Loops, loopTakesNote(i) PROVE NoteInv'
  <2>1. CASE loopNote(i)
    <3>1. /\ notes[i] # << >> /\ notes' = [notes EXCEPT ![i] = Tail(@)]
          /\ UNCHANGED <<kind, tpc>>
      BY <2>1 DEF loopNote
    <3>2. lerr' = lerr \/ \E e \in BOOLEAN : lerr' = [lerr EXCEPT ![i] = e]
      BY Zenon, <2>1 DEF loopNote
    <3>3. lerr' \in [Loops -> BOOLEAN]
      BY Zenon, <3>2 DEF NoteInv
    <3> QED BY Zenon, <1>3, <3>1, <3>3 DEF NoteInv
  <2>2. CASE loopNoteConn(i)
    BY Zenon, <1>3, <2>2 DEF loopNoteConn, NoteInv
  <2> QED BY Zenon, <1>8, <2>1, <2>2 DEF loopTakesNote
<1>9. ASSUME NEW i \in Loops, ListenerEvent(i) \/ loopCloseConn(i) \/ loopEventEnds(i)
      PROVE  NoteInv'
  BY Zenon, <1>1, <1>9 DEF ListenerEvent, loopCloseConn, loopEventEnds, Goto, vars
<1>10. ASSUME NEW d \in Dialers, outConnect(d) PROVE NoteInv'
  <2>1. CASE outConnectTrigger(d)
    <3>1. didx[d] \in Loops
      BY Zenon DEF ShareInv
    <3>2. notes' = [notes EXCEPT ![didx[d]] = Append(@, d)] /\ UNCHANGED <<kind, lerr, tpc>>
      BY Zenon, <2>1 DEF outConnectTrigger
    <3> QED BY Zenon, <1>2, <3>1, <3>2 DEF NoteInv
  <2>2. CASE outConnect(d) /\ ~outConnectTrigger(d)
    BY Zenon, <1>1, <2>2 DEF outConnect, outConnectPanic, outConnectPick, outConnectScan,
                      outConnectAdd, vars
  <2> QED BY Zenon, <1>10, <2>1, <2>2
<1> QED
  BY Zenon, <1>4, <1>5, <1>6, <1>7, <1>8, <1>9, <1>10 DEF AcceptNext

\* What serve does with the counts when it closes polls.
LEMMA ShareServe ==
    ASSUME ShareInv, serveStep
    PROVE  ShareInv'
<1>1. UNCHANGED <<balance, clients, pending, turns, accepted, seen, dpc, didx, dscan, closed>>
  BY Zenon DEF serveStep, listenvars, dialvars
<1>2. conns' \in [Loops -> Nat]
  BY Zenon DEF serveStep, ShareInv
<1>3. count' \in [Loops -> Int]
  <2>1. count' = [i \in Loops |-> count[i] - (conns[i] - conns'[i])]
    BY Zenon DEF serveStep
  <2>2. \A i \in Loops : count[i] - (conns[i] - conns'[i]) \in Int
    BY SMTT(30), <1>2 DEF ShareInv
  <2> QED BY Zenon, <2>1, <2>2
<1> QED BY Zenon, <1>1, <1>2, <1>3 DEF ShareInv

\* loopAccept looks only at loops of s.loops, and a client is taken once.
LEMMA ShareAccept ==
    ASSUME ShareInv, NEW i \in Loops, loopAccept(i)
    PROVE  ShareInv'
<1> USE ConstAssumption, AcceptAssumption DEF avars, listenvars, dialvars
<1>1. CASE acceptRandom(i) \/ acceptTurn(i) \/ acceptScan(i) \/ acceptAgain(i)
  BY Zenon, <1>1 DEF acceptRandom, acceptTurn, acceptScan, acceptAgain, ShareInv
<1>2. CASE acceptAdd(i)
  BY SMTT(30), <1>2 DEF acceptAdd, ShareInv
<1>3. CASE acceptCompare(i)
  <2>1. \E n \in 0..(NumLoops - 1) : seen' = [seen EXCEPT ![i] = n]
    <3>1. seen[i] \in 0..(NumLoops - 1)
      BY DEF ShareInv
    <3>2. \/ seen[i] + 1 # NumLoops /\ seen' = [seen EXCEPT ![i] = seen[i] + 1]
          \/ seen' = [seen EXCEPT ![i] = 0]
      BY Zenon, <1>3 DEF acceptCompare
    <3>3. CASE seen[i] + 1 # NumLoops /\ seen' = [seen EXCEPT ![i] = seen[i] + 1]
      <4>1. seen[i] + 1 \in 0..(NumLoops - 1)
        BY SMTT(30), <3>1, <3>3
      <4> QED BY Zenon, <3>3, <4>1
    <3>4. CASE seen' = [seen EXCEPT ![i] = 0]
      <4>1. 0 \in 0..(NumLoops - 1)
        OBVIOUS
      <4> QED BY Zenon, <3>4, <4>1
    <3> QED BY Zenon, <3>2, <3>3, <3>4
  <2>2. seen' \in [Loops -> 0..(NumLoops - 1)]
    BY SMTT(30), <2>1 DEF ShareInv
  <2>3. UNCHANGED <<balance, clients, pending, turns, accepted, count, conns, dpc, didx, dscan, closed>>
    BY Zenon, <1>3 DEF acceptCompare
  <2> QED BY Zenon, <2>2, <2>3 DEF ShareInv
<1>4. CASE acceptError(i) \/ loopUDPRead(i)
  BY SMTT(30), <1>4 DEF acceptError, loopUDPRead, ShareInv
<1>5. CASE acceptConn(i)
  BY SMTT(30), <1>5 DEF acceptConn, ShareInv
<1>6. CASE acceptCount(i)
  BY SMTT(30), <1>6 DEF acceptCount, ShareInv
<1> QED BY Zenon, <1>1, <1>2, <1>3, <1>4, <1>5, <1>6 DEF loopAccept

\* The index that outConnect takes modulo the number of loops.
LEMMA ModRange ==
    ASSUME NEW a \in Nat, NEW n \in Nat \ {0}
    PROVE  a % n \in 0..(n - 1)
  OBVIOUS

\* outConnect chooses one of the loops it has seen, and its scan does not go
\* beyond them.
LEMMA ShareConnect ==
    ASSUME LifeInv, ShareInv, NEW d \in Dialers, outConnect(d)
    PROVE  ShareInv'
<1> USE ConstAssumption, AcceptAssumption DEF listenvars
<1> DEFINE Scans == [len : 0..NumLoops, at : 0..NumLoops, min : Int]
<1>1. ASSUME NEW where \in {"scan", "add", "trigger", "noted", "panic"}, Dial(d, where),
             didx' \in [Dialers -> Loops], accepted' \in Nat, dscan' \in [Dialers -> Scans]
      PROVE  ShareInv'
  BY Zenon, <1>1 DEF Dial, ShareInv
<1>2. CASE outConnectPanic(d)
  BY Zenon, <1>1, <1>2 DEF outConnectPanic, ShareInv
<1>3. CASE outConnectPick(d)
  <2>1. PICK n : n = Cardinality(Created)
    BY Zenon
  <2>2. n \in 0..NumLoops
    <3>1. Created \in SUBSET Loops
      BY Zenon DEF Created
    <3>2. IsFiniteSet(Loops) /\ Cardinality(Loops) = NumLoops
      BY SMTT(30), FS_Interval DEF Loops
    <3> QED BY SMTT(30), <2>1, <3>1, <3>2, FS_Subset, FS_CardinalityType
  <2>3. n > 0 /\ 1 \in Loops
    BY SMTT(30), <1>3, <2>1 DEF outConnectPick, Loops
  <2>4. accepted' \in Nat
    BY SMTT(30), <1>3 DEF outConnectPick, ShareInv
  <2>5. \E i \in Loops : didx' = [didx EXCEPT ![d] = i]
    <3>1. CASE didx' = [didx EXCEPT ![d] = 1]
      BY Zenon, <2>3, <3>1
    <3>2. CASE \E i \in Created : didx' = [didx EXCEPT ![d] = i]
      BY Zenon, <3>2 DEF Created
    <3>3. CASE didx' = [didx EXCEPT ![d] = (accepted' % n) + 1]
      <4>1. (accepted' % n) + 1 \in Loops
        <5>1. PICK a \in Nat : a = accepted'
          BY Zenon, <2>4
        <5>2. n \in Nat \ {0} /\ n <= NumLoops
          BY SMTT(30), <2>2, <2>3
        <5>3. a % n \in 0..(n - 1)
          BY Zenon, <5>1, <5>2, ModRange
        <5>4. PICK m \in 0..(n - 1) : m = accepted' % n
          BY <5>1, <5>3, Zenon
        <5>5. m + 1 \in Loops
          BY SMTT(30), <5>2, <5>4 DEF Loops
        <5> QED BY <5>4, <5>5, Zenon
      <4> QED BY Zenon, <3>3, <4>1
    <3> QED BY Zenon, <1>3, <2>1, <3>1, <3>2, <3>3 DEF outConnectPick
  <2>6. didx' \in [Dialers -> Loops]
    BY Zenon, <2>5 DEF ShareInv
  <2>7. dscan' \in [Dialers -> Scans]
    <3>1. dscan' = dscan \/ dscan' = [dscan EXCEPT ![d] = [len |-> n, at |-> 1, min |-> count[1]]]
      BY Zenon, <1>3, <2>1 DEF outConnectPick
    <3>2. [len |-> n, at |-> 1, min |-> count[1]] \in Scans
      BY SMTT(30), <2>2, <2>3 DEF ShareInv, Loops
    <3> QED BY SMTT(30), <3>1, <3>2 DEF ShareInv
  <2>8. Dial(d, "scan") \/ Dial(d, "add")
    BY Zenon, <1>3 DEF outConnectPick
  <2> QED BY Zenon, <1>1, <2>4, <2>6, <2>7, <2>8
<1>4. CASE outConnectScan(d)
  <2>1. PICK s \in Scans : s = dscan[d]
    BY Zenon DEF ShareInv
  <2>2. s.len \in 0..NumLoops /\ s.at \in 0..NumLoops /\ s.min \in Int
    BY <2>1
  <2>3. UNCHANGED accepted
    BY Zenon, <1>4 DEF outConnectScan
  <2>4. CASE s.at + 1 > s.len
    <3>1. Dial(d, "add") /\ dscan' = [dscan EXCEPT ![d] = NoScan] /\ UNCHANGED didx
      BY Zenon, <1>4, <2>1, <2>4 DEF outConnectScan
    <3>2. NoScan \in Scans
      BY SMTT(30) DEF NoScan
    <3>3. dscan' \in [Dialers -> Scans]
      BY Zenon, <3>1, <3>2 DEF ShareInv
    <3> QED BY Zenon, <1>1, <2>3, <3>1, <3>3 DEF ShareInv
  <2>5. CASE ~(s.at + 1 > s.len)
    <3>1. PICK at \in Loops : at = s.at + 1
      BY SMTT(30), <2>2, <2>5 DEF Loops
    <3>2. count[at] \in Int
      BY Zenon, <3>1 DEF ShareInv
    <3>3. Dial(d, "scan")
      BY Zenon, <1>4, <2>1, <2>5 DEF outConnectScan
    <3>4. \/ dscan' = [dscan EXCEPT ![d].at = at, ![d].min = count[at]]
             /\ didx' = [didx EXCEPT ![d] = at]
          \/ dscan' = [dscan EXCEPT ![d].at = at] /\ UNCHANGED didx
      BY Zenon, <1>4, <2>1, <2>5, <3>1 DEF outConnectScan
    <3>5. CASE dscan' = [dscan EXCEPT ![d].at = at] /\ UNCHANGED didx
      <4>1. dscan' = [dscan EXCEPT ![d] = [s EXCEPT !.at = at]]
        BY Zenon, <2>1, <3>5
      <4>2. [s EXCEPT !.at = at] \in Scans
        BY <2>1, <3>1 DEF Loops
      <4>3. dscan' \in [Dialers -> Scans]
        BY Zenon, <4>1, <4>2 DEF ShareInv
      <4> QED BY Zenon, <1>1, <2>3, <3>3, <3>5, <4>3 DEF ShareInv
    <3>6. CASE dscan' = [dscan EXCEPT ![d].at = at, ![d].min = count[at]]
               /\ didx' = [didx EXCEPT ![d] = at]
      <4>0. [s EXCEPT !.at = at] \in Scans
        BY <2>1, <3>1 DEF Loops
      <4>1. PICK t \in Scans : t = [s EXCEPT !.at = at]
        BY <4>0
      <4>2. [t EXCEPT !.min = count[at]] \in Scans
        BY Zenon, <3>2, <4>1
      <4>3. dscan' = [dscan EXCEPT ![d] = [t EXCEPT !.min = count[at]]]
        BY Zenon, <2>1, <3>6, <4>1 DEF ShareInv
      <4>4. dscan' \in [Dialers -> Scans]
        BY Zenon, <4>2, <4>3 DEF ShareInv
      <4>5. didx' \in [Dialers -> Loops]
        BY Zenon, <3>1, <3>6 DEF ShareInv
      <4> QED BY Zenon, <1>1, <2>3, <3>3, <4>4, <4>5 DEF ShareInv
    <3> QED BY Zenon, <3>4, <3>5, <3>6
  <2> QED BY Zenon, <2>4, <2>5
<1>5. CASE outConnectAdd(d) \/ outConnectTrigger(d)
  BY Zenon, <1>1, <1>5 DEF outConnectAdd, outConnectTrigger, ShareInv
<1> QED BY Zenon, <1>2, <1>3, <1>4, <1>5 DEF outConnect

\* The counts, turns, scans and choices of the loops and dialers stay in range
\* through every step.
LEMMA ShareNext ==
    ASSUME LifeInv, ShareInv, [AcceptNext]_allvars
    PROVE  ShareInv'
<1> USE ConstAssumption, AcceptAssumption
<1>1. UNCHANGED avars => ShareInv'
  BY Zenon DEF avars, dialvars, ShareInv
<1>2. ClientComes => ShareInv'
  BY SMTT(30) DEF ClientComes, dialvars, ShareInv
<1>3. ASSUME NEW i \in Loops, loopNoteConn(i) PROVE ShareInv'
  <2>1. PICK d \in Dialers : dpc' = [dpc EXCEPT ![d] = "done"]
    BY Zenon, <1>3 DEF loopNoteConn
  <2>2. dpc' \in [Dialers -> {"dial", "scan", "add", "trigger", "noted", "done", "panic"}]
    BY Zenon, <2>1 DEF ShareInv
  <2>3. conns' \in [Loops -> Nat]
    <3>1. conns' = [conns EXCEPT ![i] = conns[i] + 1]
      BY Zenon, <1>3 DEF loopNoteConn
    <3>2. conns[i] + 1 \in Nat
      BY SMTT(30) DEF ShareInv
    <3> QED BY Zenon, <3>1, <3>2 DEF ShareInv
  <2>4. UNCHANGED <<balance, clients, pending, turns, accepted, count, seen, didx, dscan, closed>>
    BY Zenon, <1>3 DEF loopNoteConn, listenvars
  <2> QED BY Zenon, <2>2, <2>3, <2>4 DEF ShareInv
<1>4. ASSUME NEW i \in Loops, loopCloseConn(i) PROVE ShareInv'
  BY <1>4 DEF loopCloseConn, listenvars, dialvars, ShareInv
<1> QED
  BY Zenon, <1>1, <1>2, <1>3, <1>4, ShareServe, ShareAccept, ShareConnect
     DEF AcceptNext, loopGoesOn, loopTakesNote, ListenerEvent, allvars

\* Indices stay in range however many loops, listeners, clients and dialers
\* there are: those of serve's for statements, of the scans that loopAccept and
\* outConnect make over s.loops, and of the loop that outConnect chooses; and
\* s.wg is never negative and never more than the number of loops.
THEOREM AcceptTyped == AcceptSpec => []AcceptTypeOK
<1> DEFINE IInv == LifeInv /\ PlaceInv /\ NoteInv /\ ShareInv
<1>1. AcceptInit => IInv
  <2>1. AcceptInit => PlaceInv /\ NoteInv
    BY SMTT(30), ConstAssumption DEF AcceptInit, Init, PlaceInv, NoteInv, Counted, Listeners, Loops
  <2>2. AcceptInit => ShareInv
    <3> SUFFICES ASSUME AcceptInit PROVE ShareInv
      OBVIOUS
    <3>1. 1 \in Loops /\ 0 \in 0..(NumLoops - 1)
      BY SMTT(30), ConstAssumption DEF Loops
    <3>2. NoScan \in [len : 0..NumLoops, at : 0..NumLoops, min : Int]
      BY SMTT(30), ConstAssumption DEF NoScan
    <3>3. didx \in [Dialers -> Loops] /\ seen \in [Loops -> 0..(NumLoops - 1)]
      BY Zenon, <3>1 DEF AcceptInit
    <3>4. dscan \in [Dialers -> [len : 0..NumLoops, at : 0..NumLoops, min : Int]]
      BY Zenon, <3>2 DEF AcceptInit
    <3>5. dpc \in [Dialers -> {"dial", "scan", "add", "trigger", "noted", "done", "panic"}]
      BY Zenon DEF AcceptInit
    <3>6. clients \in Nat /\ pending \in Nat /\ clients + pending <= MaxClients
      BY AcceptAssumption DEF AcceptInit
    <3>7. count \in [Loops -> Int] /\ conns \in [Loops -> Nat] /\ turns \in [Loops -> Nat]
      BY DEF AcceptInit
    <3>8. balance \in Balances /\ accepted \in Nat /\ closed \in BOOLEAN
      BY Zenon DEF AcceptInit
    <3> QED BY Zenon, <3>3, <3>4, <3>5, <3>6, <3>7, <3>8 DEF ShareInv
  <2> QED BY Zenon, <2>1, <2>2, LifeInit
<1>2. IInv /\ [AcceptNext]_allvars => IInv'
  BY Zenon, LifeNext, PlaceNext, NoteNext, ShareNext
<1>3. IInv => AcceptTypeOK
  <2> SUFFICES ASSUME IInv PROVE AcceptTypeOK
    BY Zenon
  <2> USE ConstAssumption, AcceptAssumption
  <2>1. wg \in 0..NumLoops
    <3>1. Live \in SUBSET Loops /\ IsFiniteSet(Loops) /\ Cardinality(Loops) = NumLoops
      BY SMTT(30), FS_Interval DEF Live, Loops
    <3>2. Cardinality(Live) \in 0..NumLoops
      BY SMTT(30), <3>1, FS_Subset, FS_CardinalityType
    <3> QED BY <3>2 DEF LifeInv, PlaceInv
  <2>2. nxt \in 1..(NumLoops + NumListeners)
    BY SMTT(30) DEF PlaceInv, Listeners
  <2>3. TypeOK
    BY Zenon, <2>1, <2>2 DEF TypeOK, LifeInv, PlaceInv, NoteInv, Positions
  <2>4. seen \in [Loops -> 0..NumLoops]
    BY SMTT(30) DEF ShareInv
  <2>5. clients \in 0..MaxClients /\ pending \in 0..MaxClients
    BY DEF ShareInv
  <2> QED BY <2>3, <2>4, <2>5 DEF AcceptTypeOK, ShareInv
<1> QED BY <1>1, <1>2, <1>3, PTL DEF AcceptSpec
=============================================================================
