---------------------------- MODULE ServerProofs ----------------------------
(***************************************************************************)
(* What Server guarantees for any number of connections, devices and       *)
(* channels and any session cap: the type invariant, the accounting of the *)
(* session semaphore, the gauge and sessionWG, the finality of a drain,    *)
(* and the refinement of SessionSlots.                                     *)
(***************************************************************************)
EXTENDS Server, FiniteSetTheorems, TLAPS

\* The connections whose phase under f is one of S.
In(f, S) == {x \in Conns : f[x] \in S}

\* When only connection c moves, the number of connections in a set of phases
\* changes by what c enters or leaves. The three counters of handleConn (sem,
\* active_sessions, sessionWG) all rest on it.
LEMMA CountMove ==
    ASSUME NEW f, NEW g, NEW S, NEW c \in Conns, IsFiniteSet(Conns),
           f \in [Conns -> Phases], g \in [Conns -> Phases],
           \A x \in Conns \ {c} : g[x] = f[x]
    PROVE  /\ Cardinality(In(f, S)) \in Nat
           /\ Cardinality(In(g, S)) =
                 Cardinality(In(f, S)) + (IF g[c] \in S THEN 1 ELSE 0)
                                       - (IF f[c] \in S THEN 1 ELSE 0)
<1>1. IsFiniteSet(In(f, S)) /\ Cardinality(In(f, S)) \in Nat
  BY FS_Subset, FS_CardinalityType DEF In
<1>2. ASSUME (f[c] \in S /\ g[c] \in S) \/ (f[c] \notin S /\ g[c] \notin S)
      PROVE  In(g, S) = In(f, S)
  BY <1>2 DEF In
<1>3. ASSUME f[c] \notin S, g[c] \in S
      PROVE  Cardinality(In(g, S)) = Cardinality(In(f, S)) + 1
  <2>1. In(g, S) = In(f, S) \union {c} /\ c \notin In(f, S)
    BY <1>3 DEF In
  <2>2. QED
    BY <1>1, <2>1, FS_AddElement
<1>4. ASSUME f[c] \in S, g[c] \notin S
      PROVE  Cardinality(In(g, S)) = Cardinality(In(f, S)) - 1
  <2>1. In(f, S) = In(g, S) \union {c} /\ c \notin In(g, S)
    BY <1>4 DEF In
  <2>2. IsFiniteSet(In(g, S)) /\ Cardinality(In(g, S)) \in Nat
    BY FS_Subset, FS_CardinalityType DEF In
  <2>3. Cardinality(In(f, S)) = Cardinality(In(g, S)) + 1
    BY <2>1, <2>2, FS_AddElement
  <2>4. QED
    BY <1>1, <2>2, <2>3
<1>5. QED
  BY <1>1, <1>2, <1>3, <1>4

-----------------------------------------------------------------------------
(* The steps of the process, of a connection and of a shell, long timers   *)
(* included.                                                               *)

ProcessStep == Startup \/ AcceptLoop \/ Shutdown \/ DrainTimeout
ConnectionStep(c) == Client(c) \/ Connection(c) \/ HardTimer(c)
ChannelStep(c, k) == Channel(c, k) \/ HangOver(c, k)

\* There are no other steps.
LEMMA StepKinds ==
    Next => \/ ProcessStep
            \/ \E c \in Conns : ConnectionStep(c)
            \/ \E c \in Conns, k \in Chans : ChannelStep(c, k)
  BY DEF Next, Promptly, LongTimers, ProcessStep, ConnectionStep, ChannelStep

-----------------------------------------------------------------------------
(* Type correctness.                                                       *)

\* Every variable keeps its type through the whole life of the process: Start,
\* the accept loops, handleConn, the shells and Shutdown.
LEMMA TypeInit == Init => TypeOK
<1>1. 0 \in 0..MaxAuthTries
  BY ServerAssumption DEF ServerAssumption
<1> SUFFICES ASSUME Init PROVE TypeOK
  OBVIOUS
<1>2. tries \in [Conns -> 0..MaxAuthTries]
  BY <1>1 DEF Init
<1>3. /\ shell \in [Conns -> [Chans -> ShellStates]]
      /\ hung \subseteq Conns \X Chans
  BY DEF Init, ShellStates
<1>4. QED
  BY <1>2, <1>3 DEF Init, TypeOK, Phases, Outcomes

LEMMA TypeProcess ==
    TypeOK /\ ProcessStep => TypeOK'
<1> SUFFICES ASSUME TypeOK, ProcessStep
             PROVE  TypeOK'
  OBVIOUS
<1> USE DEF TypeOK, procVars, connVars, shellVars, Phases, closeListeners, Dropped
<1>1. CASE StartFails
  BY <1>1 DEF StartFails
<1>2. CASE Ready
  BY <1>2 DEF Ready
<1>3. ASSUME NEW d \in Devices, Listen(d)
      PROVE  TypeOK'
  BY <1>3 DEF Listen
<1>4. ASSUME NEW d \in Devices, AcceptFails(d)
      PROVE  TypeOK'
  BY <1>4 DEF AcceptFails
<1>5. ASSUME NEW c \in Conns, AcceptReturns(c)
      PROVE  TypeOK'
  BY <1>5 DEF AcceptReturns
<1>6. ASSUME NEW c \in Conns, Launch(c)
      PROVE  TypeOK'
  BY <1>6 DEF Launch
<1>7. CASE BeginShutdown
  BY <1>7 DEF BeginShutdown
<1>8. CASE AcceptLoopsGone
  BY <1>8 DEF AcceptLoopsGone
<1>9. CASE Drained
  BY <1>9 DEF Drained
<1>10. CASE DrainTimeout
  BY <1>10 DEF DrainTimeout
<1>11. CASE UnloadAll
  BY <1>11 DEF UnloadAll
<1>12. QED
  BY <1>1, <1>2, <1>3, <1>4, <1>5, <1>6, <1>7, <1>8, <1>9, <1>10, <1>11 DEF ProcessStep,
       Startup, AcceptLoop, Shutdown

LEMMA TypeConnection ==
    ASSUME TypeOK, NEW c \in Conns, ConnectionStep(c)
    PROVE  TypeOK'
<1> USE DEF TypeOK, procVars, connVars, shellVars, Phases
<1>1. CASE Dial(c)
  BY <1>1 DEF Dial
<1>2. CASE ClientCloses(c)
  BY <1>2 DEF ClientCloses
<1>3. CASE Refuse(c)
  BY <1>3 DEF Refuse, SetOutcome, Outcomes
<1>4. CASE TakeSlot(c)
  BY <1>4 DEF TakeSlot
<1>5. CASE CapHit(c)
  BY <1>5 DEF CapHit, SetOutcome, Outcomes
<1>6. ASSUME NEW matches \in BOOLEAN, NEW roll \in Rolls, TryPassword(c, matches, roll)
      PROVE  TypeOK'
  <2>1. tries[c] < MaxAuthTries => tries[c] + 1 \in 0..MaxAuthTries
    BY ServerAssumption DEF ServerAssumption
  <2>2. \/ authed' = authed \union {c} /\ tries' = tries
        \/ tries' = [tries EXCEPT ![c] = tries[c] + 1] /\ authed' = authed
    BY <1>6 DEF TryPassword
  <2>3. tries' \in [Conns -> 0..MaxAuthTries] /\ authed' \subseteq Conns
    BY <1>6, <2>1, <2>2 DEF TryPassword
  <2>4. QED
    BY <1>6, <2>3 DEF TryPassword
<1>7. CASE HandshakeOK(c)
  BY <1>7 DEF HandshakeOK
<1>8. ASSUME NEW r \in {"auth_fail", "error"}, HandshakeFails(c, r)
      PROVE  TypeOK'
  BY <1>8 DEF HandshakeFails, SetOutcome, Outcomes
<1>9. CASE HardTimer(c)
  BY <1>9 DEF HardTimer
<1>10. CASE ChannelsEnd(c)
  BY <1>10 DEF ChannelsEnd
<1>11. CASE ReleaseSlot(c)
  BY <1>11 DEF ReleaseSlot
<1>12. CASE Record(c)
  BY <1>12 DEF Record, Outcomes
<1>13. CASE Finish(c)
  BY <1>13 DEF Finish
<1>14. QED
  BY <1>1, <1>2, <1>3, <1>4, <1>5, <1>6, <1>7, <1>8, <1>9, <1>10, <1>11, <1>12, <1>13
     DEF ConnectionStep, Client, Connection, Admit, Handshake, Unwind

LEMMA TypeChannel ==
    ASSUME TypeOK, NEW c \in Conns, NEW k \in Chans, ChannelStep(c, k)
    PROVE  TypeOK'
<1> USE DEF TypeOK, procVars, connVars, setShell, ShellStates
<1>1. CASE OpenChannel(c, k)
  BY <1>1 DEF OpenChannel
<1>2. CASE AcceptChannelFails(c, k)
  BY <1>2 DEF AcceptChannelFails, SetOutcome, Outcomes
<1>3. CASE StartShell(c, k)
  BY <1>3 DEF StartShell
<1>4. CASE RequestsEnd(c, k)
  BY <1>4 DEF RequestsEnd
<1>5. CASE Greet(c, k)
  BY <1>5 DEF Greet
<1>6. CASE ReadCommand(c, k)
  <2>1. hung' \subseteq Conns \X Chans
    BY <1>6 DEF ReadCommand
  <2>2. shell' \in [Conns -> [Chans -> ShellStates]]
    <3>1. setShell(c, k, "hanging") \/ setShell(c, k, "delaying")
      BY <1>6 DEF ReadCommand
    <3>2. CASE setShell(c, k, "hanging")
      BY <3>2
    <3>3. CASE setShell(c, k, "delaying")
      BY <3>3
    <3>4. QED
      BY <3>1, <3>2, <3>3
  <2>3. QED
    BY <1>6, <2>1, <2>2 DEF ReadCommand
<1>7. CASE ReadFails(c, k)
  BY <1>7 DEF ReadFails, SetOutcome, Outcomes
<1>8. CASE HangOver(c, k) \/ HangAbandoned(c, k)
  BY <1>8 DEF HangOver, HangAbandoned
<1>9. CASE HangCancelled(c, k)
  BY <1>9 DEF HangCancelled
<1>10. CASE DelayEnds(c, k)
  BY <1>10 DEF DelayEnds
<1>11. CASE EmitOK(c, k)
  BY <1>11 DEF EmitOK
<1>12. CASE EmitExit(c, k)
  BY <1>12 DEF EmitExit
<1>13. CASE EmitCut(c, k)
  BY <1>13 DEF EmitCut, SetOutcome, Outcomes
<1>14. CASE WriteFails(c, k)
  BY <1>14 DEF WriteFails
<1>15. QED
  BY <1>1, <1>2, <1>3, <1>4, <1>5, <1>6, <1>7, <1>8, <1>9, <1>10, <1>11, <1>12, <1>13, <1>14
     DEF ChannelStep, Channel, Emit

THEOREM TypeCorrect == Spec => []TypeOK
<1>1. TypeOK /\ [Next]_vars => TypeOK'
  <2>1. TypeOK /\ UNCHANGED vars => TypeOK'
    BY DEF TypeOK, vars, procVars, connVars, shellVars
  <2>2. TypeOK /\ Next => TypeOK'
    BY TypeProcess, TypeConnection, TypeChannel, StepKinds
  <2>3. QED
    BY <2>1, <2>2
<1>2. QED
  BY TypeInit, <1>1, PTL DEF Spec

-----------------------------------------------------------------------------
(* The accounting of places, sessions and goroutines.                      *)

Accounted == SlotsAccounted /\ CountersBalanced

LEMMA AccountedByIn ==
    Accounted <=> /\ sem = Cardinality(In(phase, HoldingPhases)) /\ sem <= Cap
                  /\ active = Cardinality(In(phase, {"open"}))
                  /\ sessionWG = Cardinality(In(phase, InFlightPhases))
  BY DEF Accounted, SlotsAccounted, CountersBalanced, Holders, Open, InFlight, In

LEMMA AccountedInit == Init => Accounted
<1> SUFFICES ASSUME Init PROVE Accounted
  OBVIOUS
<1>1. In(phase, HoldingPhases) = {} /\ In(phase, {"open"}) = {} /\ In(phase, InFlightPhases) = {}
  BY DEF Init, In, HoldingPhases, InFlightPhases
<1>2. Cardinality({}) = 0
  BY FS_EmptySet
<1>3. 0 <= Cap
  BY ServerAssumption DEF ServerAssumption
<1>4. QED
  BY <1>1, <1>2, <1>3, AccountedByIn DEF Init

\* A step that moves no connection and touches no counter.
LEMMA AccountedQuiet ==
    Accounted /\ UNCHANGED <<phase, sem, active, sessionWG>> => Accounted'
  BY DEF Accounted, SlotsAccounted, CountersBalanced, Holders, Open, InFlight

\* Closing the listeners moves connections nobody has taken yet.
LEMMA AccountedDropped ==
    ASSUME TypeOK, Accounted, phase' = Dropped, UNCHANGED <<sem, active, sessionWG>>
    PROVE  Accounted'
<1>1. /\ In(phase', HoldingPhases) = In(phase, HoldingPhases)
      /\ In(phase', {"open"}) = In(phase, {"open"})
      /\ In(phase', InFlightPhases) = In(phase, InFlightPhases)
  BY DEF In, Dropped, HoldingPhases, InFlightPhases, TypeOK
<1>2. QED
  BY <1>1 DEF Accounted, SlotsAccounted, CountersBalanced, Holders, Open, InFlight, In

\* What the move of connection c alone does to the three cardinalities.
OnlyMoves(c) == \A x \in Conns \ {c} : phase'[x] = phase[x]

LEMMA CountersMove ==
    ASSUME TypeOK, TypeOK', NEW c \in Conns, OnlyMoves(c)
    PROVE  /\ Cardinality(Holders') = Cardinality(Holders)
                 + (IF phase'[c] \in HoldingPhases THEN 1 ELSE 0)
                 - (IF phase[c] \in HoldingPhases THEN 1 ELSE 0)
           /\ Cardinality(Open') = Cardinality(Open)
                 + (IF phase'[c] = "open" THEN 1 ELSE 0)
                 - (IF phase[c] = "open" THEN 1 ELSE 0)
           /\ Cardinality(InFlight') = Cardinality(InFlight)
                 + (IF phase'[c] \in InFlightPhases THEN 1 ELSE 0)
                 - (IF phase[c] \in InFlightPhases THEN 1 ELSE 0)
           /\ Cardinality(Holders) \in Nat /\ Cardinality(Open) \in Nat
           /\ Cardinality(InFlight) \in Nat
<1>1. /\ phase \in [Conns -> Phases] /\ phase' \in [Conns -> Phases]
      /\ IsFiniteSet(Conns)
  BY ServerAssumption DEF TypeOK, ServerAssumption
<1>2. /\ Holders = In(phase, HoldingPhases) /\ Holders' = In(phase', HoldingPhases)
      /\ Open = In(phase, {"open"}) /\ Open' = In(phase', {"open"})
      /\ InFlight = In(phase, InFlightPhases) /\ InFlight' = In(phase', InFlightPhases)
  BY DEF Holders, Open, InFlight, In
<1>3. \A S : /\ Cardinality(In(phase, S)) \in Nat
             /\ Cardinality(In(phase', S)) =
                   Cardinality(In(phase, S)) + (IF phase'[c] \in S THEN 1 ELSE 0)
                                             - (IF phase[c] \in S THEN 1 ELSE 0)
  BY <1>1, CountMove DEF OnlyMoves
<1>4. QED
  BY <1>2, <1>3

LEMMA AccountedProcess ==
    ASSUME TypeOK, TypeOK', Accounted, ProcessStep
    PROVE  Accounted'
<1> USE DEF connVars
<1>1. CASE StartFails \/ BeginShutdown
  BY <1>1, AccountedDropped DEF StartFails, BeginShutdown, closeListeners
<1>2. CASE Ready \/ AcceptLoopsGone \/ Drained \/ DrainTimeout \/ UnloadAll
  BY <1>2, AccountedQuiet DEF Ready, AcceptLoopsGone, Drained, DrainTimeout, UnloadAll
<1>3. ASSUME NEW d \in Devices, Listen(d) \/ AcceptFails(d)
      PROVE  Accounted'
  BY <1>3, AccountedQuiet DEF Listen, AcceptFails
<1>4. ASSUME NEW c \in Conns, AcceptReturns(c) \/ Launch(c)
      PROVE  Accounted'
  <2>1. OnlyMoves(c)
    BY <1>4 DEF OnlyMoves, AcceptReturns, Launch, TypeOK
  <2>2. CASE AcceptReturns(c)
    <3>1. phase[c] = "dialed" /\ phase'[c] = "accepted"
      BY <2>2 DEF AcceptReturns, TypeOK
    <3>2. /\ Cardinality(Holders') = Cardinality(Holders)
          /\ Cardinality(Open') = Cardinality(Open)
          /\ Cardinality(InFlight') = Cardinality(InFlight)
      BY <2>1, <3>1, CountersMove DEF HoldingPhases, InFlightPhases
    <3>3. QED
      BY <2>2, <3>2 DEF AcceptReturns, Accounted, SlotsAccounted, CountersBalanced
  <2>3. CASE Launch(c)
    <3>1. phase[c] = "accepted" /\ phase'[c] = "admitting"
      BY <2>3 DEF Launch, TypeOK
    <3>2. /\ Cardinality(Holders') = Cardinality(Holders)
          /\ Cardinality(Open') = Cardinality(Open)
          /\ Cardinality(InFlight') = Cardinality(InFlight) + 1
      BY <2>1, <3>1, CountersMove DEF HoldingPhases, InFlightPhases
    <3>3. QED
      BY <2>3, <3>2 DEF Launch, Accounted, SlotsAccounted, CountersBalanced
  <2>4. QED
    BY <1>4, <2>2, <2>3
<1>5. QED
  BY <1>1, <1>2, <1>3, <1>4 DEF ProcessStep, Startup, AcceptLoop, Shutdown

LEMMA AccountedConnection ==
    ASSUME TypeOK, TypeOK', Accounted, NEW c \in Conns, ConnectionStep(c)
    PROVE  Accounted'
<1>1. CASE ClientCloses(c) \/ HardTimer(c)
  BY <1>1, AccountedQuiet DEF ClientCloses, HardTimer
<1>2. ASSUME NEW matches \in BOOLEAN, NEW roll \in Rolls, TryPassword(c, matches, roll)
      PROVE  Accounted'
  BY <1>2, AccountedQuiet DEF TryPassword
<1> DEFINE Moves(p, q) == phase[c] = p /\ phase'[c] = q /\ OnlyMoves(c)
<1> USE DEF Accounted, SlotsAccounted, CountersBalanced, HoldingPhases, InFlightPhases
<1>3. CASE Dial(c)
  <2>1. Moves("new", "dialed")
    BY <1>3 DEF Dial, TypeOK, OnlyMoves
  <2>2. /\ Cardinality(Holders') = Cardinality(Holders)
        /\ Cardinality(Open') = Cardinality(Open)
        /\ Cardinality(InFlight') = Cardinality(InFlight)
    BY <2>1, CountersMove
  <2>3. QED
    BY <1>3, <2>2 DEF Dial
<1>4. CASE Refuse(c)
  <2>1. Moves("admitting", "released")
    BY <1>4 DEF Refuse, TypeOK, OnlyMoves
  <2>2. /\ Cardinality(Holders') = Cardinality(Holders)
        /\ Cardinality(Open') = Cardinality(Open)
        /\ Cardinality(InFlight') = Cardinality(InFlight)
    BY <2>1, CountersMove
  <2>3. QED
    BY <1>4, <2>2 DEF Refuse
<1>5. CASE TakeSlot(c)
  <2>1. Moves("admitting", "handshake")
    BY <1>5 DEF TakeSlot, TypeOK, OnlyMoves
  <2>2. /\ Cardinality(Holders') = Cardinality(Holders) + 1
        /\ Cardinality(Open') = Cardinality(Open)
        /\ Cardinality(InFlight') = Cardinality(InFlight)
    BY <2>1, CountersMove
  <2>3. QED
    BY <1>5, <2>2, CountersMove, <2>1, ServerAssumption DEF TakeSlot, ServerAssumption
<1>6. CASE CapHit(c)
  <2>1. Moves("admitting", "released")
    BY <1>6 DEF CapHit, TypeOK, OnlyMoves
  <2>2. /\ Cardinality(Holders') = Cardinality(Holders)
        /\ Cardinality(Open') = Cardinality(Open)
        /\ Cardinality(InFlight') = Cardinality(InFlight)
    BY <2>1, CountersMove
  <2>3. QED
    BY <1>6, <2>2 DEF CapHit
<1>7. CASE HandshakeOK(c)
  <2>1. Moves("handshake", "open")
    BY <1>7 DEF HandshakeOK, TypeOK, OnlyMoves
  <2>2. /\ Cardinality(Holders') = Cardinality(Holders)
        /\ Cardinality(Open') = Cardinality(Open) + 1
        /\ Cardinality(InFlight') = Cardinality(InFlight)
    BY <2>1, CountersMove
  <2>3. QED
    BY <1>7, <2>2 DEF HandshakeOK
<1>8. CASE ChannelsEnd(c)
  <2>1. Moves("open", "unwinding")
    BY <1>8 DEF ChannelsEnd, TypeOK, OnlyMoves
  <2>2. /\ Cardinality(Holders') = Cardinality(Holders)
        /\ Cardinality(Open') = Cardinality(Open) - 1
        /\ Cardinality(InFlight') = Cardinality(InFlight)
    BY <2>1, CountersMove
  <2>3. QED
    BY <1>8, <2>2 DEF ChannelsEnd
<1>9. CASE ReleaseSlot(c)
  <2>1. Moves("unwinding", "released")
    BY <1>9 DEF ReleaseSlot, TypeOK, OnlyMoves
  <2>2. /\ Cardinality(Holders') = Cardinality(Holders) - 1
        /\ Cardinality(Open') = Cardinality(Open)
        /\ Cardinality(InFlight') = Cardinality(InFlight)
    BY <2>1, CountersMove
  <2>3. QED
    BY <1>9, <2>2, CountersMove, <2>1, ServerAssumption DEF ReleaseSlot, ServerAssumption
<1>10. CASE Record(c)
  <2>1. Moves("released", "recorded")
    BY <1>10 DEF Record, TypeOK, OnlyMoves
  <2>2. /\ Cardinality(Holders') = Cardinality(Holders)
        /\ Cardinality(Open') = Cardinality(Open)
        /\ Cardinality(InFlight') = Cardinality(InFlight)
    BY <2>1, CountersMove
  <2>3. QED
    BY <1>10, <2>2 DEF Record
<1>11. CASE Finish(c)
  <2>1. Moves("recorded", "ended")
    BY <1>11 DEF Finish, TypeOK, OnlyMoves
  <2>2. /\ Cardinality(Holders') = Cardinality(Holders)
        /\ Cardinality(Open') = Cardinality(Open)
        /\ Cardinality(InFlight') = Cardinality(InFlight) - 1
    BY <2>1, CountersMove
  <2>3. QED
    BY <1>11, <2>2 DEF Finish
<1>12. ASSUME NEW r \in {"auth_fail", "error"}, HandshakeFails(c, r)
      PROVE  Accounted'
  <2>1. Moves("handshake", "unwinding")
    BY <1>12 DEF HandshakeFails, TypeOK, OnlyMoves
  <2>2. /\ Cardinality(Holders') = Cardinality(Holders)
        /\ Cardinality(Open') = Cardinality(Open)
        /\ Cardinality(InFlight') = Cardinality(InFlight)
    BY <2>1, CountersMove
  <2>3. QED
    BY <1>12, <2>2 DEF HandshakeFails
<1>13. QED
  BY <1>1, <1>2, <1>3, <1>4, <1>5, <1>6, <1>7, <1>8, <1>9, <1>10, <1>11, <1>12
     DEF ConnectionStep, Client, Connection, Admit, Handshake, Unwind

LEMMA AccountedChannel ==
    ASSUME Accounted, NEW c \in Conns, NEW k \in Chans, ChannelStep(c, k)
    PROVE  Accounted'
<1>1. UNCHANGED <<phase, sem, active, sessionWG>>
  BY DEF ChannelStep, Channel, Emit, connVars, OpenChannel, AcceptChannelFails, StartShell,
         RequestsEnd, Greet, ReadCommand, ReadFails, HangOver, HangAbandoned, HangCancelled,
         DelayEnds, EmitOK, EmitExit, EmitCut, WriteFails
<1>2. QED
  BY <1>1, AccountedQuiet

\* For any number of connections and any cap: the semaphore holds exactly the
\* connections that took a place and have not given it back, never more than
\* Cap; the gauge and sessionWG are exact (handleConn, accept).
THEOREM AccountingCorrect == Spec => [](SlotsAccounted /\ CountersBalanced)
<1>1. TypeOK /\ TypeOK' /\ Accounted /\ [Next]_vars => Accounted'
  <2>1. Accounted /\ UNCHANGED vars => Accounted'
    BY AccountedQuiet DEF vars, connVars
  <2>2. TypeOK /\ TypeOK' /\ Accounted /\ Next => Accounted'
    BY AccountedProcess, AccountedConnection, AccountedChannel, StepKinds
  <2>3. QED
    BY <2>1, <2>2
<1>2. Accounted => SlotsAccounted /\ CountersBalanced
  BY DEF Accounted
<1>3. QED
  BY AccountedInit, TypeCorrect, <1>1, <1>2, PTL DEF Spec

\* For any number of connections: sessions_active counts those that have a place and
\* sessionWG those that handleConn still runs for, and no counter falls below zero
\* (accept, handleConn).
THEOREM CountersCorrect == Spec => []CountersBalanced
BY AccountingCorrect, PTL

-----------------------------------------------------------------------------
(* A drain is final.                                                       *)

\* DrainIsFinal is not inductive: an Add after the Wait is impossible only
\* because what an accept loop holds keeps that loop alive, and because no
\* listener survives the cancellation.
DrainInv ==
    /\ \A c \in Conns : phase[c] = "accepted" => DeviceOf[c] \in looping
    /\ Cancelled \/ server = "failed" =>
          listening = {} /\ \A c \in Conns : phase[c] # "dialed"
    /\ server \in {"draining", "drained", "timed_out", "stopped"} => looping = {}
    /\ server = "drained" => \A c \in Conns : phase[c] \notin InFlightPhases

LEMMA DrainInvImplies == DrainInv => DrainIsFinal
  BY DEF DrainInv, DrainIsFinal, InFlight, Cancelled

LEMMA DrainInit == Init => DrainInv
  BY DEF Init, DrainInv, Cancelled

\* A move of handleConn's, from one phase in flight to a later one.
LEMMA DrainMove ==
    ASSUME DrainInv, UNCHANGED <<server, listening, looping>>, NEW c \in Conns,
           OnlyMoves(c), phase[c] \in InFlightPhases,
           phase'[c] \notin {"dialed", "accepted"}
    PROVE  DrainInv'
  BY DEF DrainInv, OnlyMoves, Cancelled

LEMMA DrainQuiet ==
    DrainInv /\ UNCHANGED <<server, listening, looping, phase>> => DrainInv'
  BY DEF DrainInv, Cancelled

LEMMA DrainConnection ==
    ASSUME TypeOK, DrainInv, NEW c \in Conns, ConnectionStep(c)
    PROVE  DrainInv'
<1>1. CASE ClientCloses(c) \/ HardTimer(c)
  BY <1>1, DrainQuiet DEF ClientCloses, HardTimer, procVars
<1>2. ASSUME NEW matches \in BOOLEAN, NEW roll \in Rolls, TryPassword(c, matches, roll)
      PROVE  DrainInv'
  BY <1>2, DrainQuiet DEF TryPassword, procVars
<1>3. CASE Dial(c)
  BY <1>3 DEF Dial, procVars, DrainInv, Cancelled, TypeOK, InFlightPhases
<1> DEFINE Moves(p, q) == phase[c] = p /\ phase'[c] = q /\ OnlyMoves(c)
<1> USE DrainMove DEF InFlightPhases
<1>4. CASE Refuse(c)
  <2>1. Moves("admitting", "released") /\ UNCHANGED <<server, listening, looping>>
    BY <1>4 DEF Refuse, TypeOK, OnlyMoves, procVars
  <2>2. QED
    BY <2>1
<1>5. CASE TakeSlot(c)
  <2>1. Moves("admitting", "handshake") /\ UNCHANGED <<server, listening, looping>>
    BY <1>5 DEF TakeSlot, TypeOK, OnlyMoves, procVars
  <2>2. QED
    BY <2>1
<1>6. CASE CapHit(c)
  <2>1. Moves("admitting", "released") /\ UNCHANGED <<server, listening, looping>>
    BY <1>6 DEF CapHit, TypeOK, OnlyMoves, procVars
  <2>2. QED
    BY <2>1
<1>7. CASE HandshakeOK(c)
  <2>1. Moves("handshake", "open") /\ UNCHANGED <<server, listening, looping>>
    BY <1>7 DEF HandshakeOK, TypeOK, OnlyMoves, procVars
  <2>2. QED
    BY <2>1
<1>8. CASE ChannelsEnd(c)
  <2>1. Moves("open", "unwinding") /\ UNCHANGED <<server, listening, looping>>
    BY <1>8 DEF ChannelsEnd, TypeOK, OnlyMoves, procVars
  <2>2. QED
    BY <2>1
<1>9. CASE ReleaseSlot(c)
  <2>1. Moves("unwinding", "released") /\ UNCHANGED <<server, listening, looping>>
    BY <1>9 DEF ReleaseSlot, TypeOK, OnlyMoves, procVars
  <2>2. QED
    BY <2>1
<1>10. CASE Record(c)
  <2>1. Moves("released", "recorded") /\ UNCHANGED <<server, listening, looping>>
    BY <1>10 DEF Record, TypeOK, OnlyMoves, procVars
  <2>2. QED
    BY <2>1
<1>11. CASE Finish(c)
  <2>1. Moves("recorded", "ended") /\ UNCHANGED <<server, listening, looping>>
    BY <1>11 DEF Finish, TypeOK, OnlyMoves, procVars
  <2>2. QED
    BY <2>1
<1>12. ASSUME NEW r \in {"auth_fail", "error"}, HandshakeFails(c, r)
      PROVE  DrainInv'
  <2>1. Moves("handshake", "unwinding") /\ UNCHANGED <<server, listening, looping>>
    BY <1>12 DEF HandshakeFails, TypeOK, OnlyMoves, procVars
  <2>2. QED
    BY <2>1
<1>13. QED
  BY <1>1, <1>2, <1>3, <1>4, <1>5, <1>6, <1>7, <1>8, <1>9, <1>10, <1>11, <1>12
     DEF ConnectionStep, Client, Connection, Admit, Handshake, Unwind

LEMMA DrainProcess ==
    ASSUME TypeOK, Accounted, DrainInv, ProcessStep
    PROVE  DrainInv'
<1> USE DEF DrainInv, Cancelled, connVars
<1>1. CASE StartFails \/ BeginShutdown
  BY <1>1 DEF StartFails, BeginShutdown, closeListeners, Dropped, TypeOK
<1>2. CASE Ready \/ AcceptLoopsGone \/ DrainTimeout \/ UnloadAll
  BY <1>2 DEF Ready, AcceptLoopsGone, DrainTimeout, UnloadAll
<1>3. CASE Drained
  <2>1. IsFiniteSet(InFlight)
    BY FS_Subset, ServerAssumption DEF InFlight, ServerAssumption
  <2>2. InFlight = {}
    BY <1>3, <2>1, FS_EmptySet DEF Drained, Accounted, CountersBalanced
  <2>3. \A c \in Conns : phase[c] \notin InFlightPhases
    BY <2>2 DEF InFlight
  <2>4. QED
    BY <1>3, <2>3 DEF Drained
<1>4. ASSUME NEW d \in Devices, Listen(d)
      PROVE  DrainInv'
  BY <1>4 DEF Listen
<1>5. ASSUME NEW d \in Devices, AcceptFails(d)
      PROVE  DrainInv'
  BY <1>5 DEF AcceptFails, Busy
<1>6. ASSUME NEW c \in Conns, AcceptReturns(c)
      PROVE  DrainInv'
  BY <1>6 DEF AcceptReturns, procVars, TypeOK, InFlightPhases
<1>7. ASSUME NEW c \in Conns, Launch(c)
      PROVE  DrainInv'
  BY <1>7 DEF Launch, procVars, TypeOK, InFlightPhases
<1>8. QED
  BY <1>1, <1>2, <1>3, <1>4, <1>5, <1>6, <1>7 DEF ProcessStep, Startup, AcceptLoop, Shutdown

LEMMA DrainChannel ==
    ASSUME DrainInv, NEW c \in Conns, NEW k \in Chans, ChannelStep(c, k)
    PROVE  DrainInv'
<1>1. UNCHANGED <<server, listening, looping, phase>>
  BY DEF ChannelStep, Channel, Emit, procVars, connVars, OpenChannel, AcceptChannelFails,
         StartShell, RequestsEnd, Greet, ReadCommand, ReadFails, HangOver, HangAbandoned,
         HangCancelled, DelayEnds, EmitOK, EmitExit, EmitCut, WriteFails
<1>2. QED
  BY <1>1, DrainQuiet

\* However many clients keep dialing while Shutdown runs, none is added to
\* sessionWG once it is waited for, and a clean drain leaves no handleConn
\* behind (Shutdown, accept).
THEOREM DrainCorrect == Spec => []DrainIsFinal
<1>1. TypeOK /\ Accounted /\ DrainInv /\ [Next]_vars => DrainInv'
  <2>1. DrainInv /\ UNCHANGED vars => DrainInv'
    BY DrainQuiet DEF vars, procVars, connVars
  <2>2. TypeOK /\ Accounted /\ DrainInv /\ Next => DrainInv'
    BY DrainProcess, DrainConnection, DrainChannel, StepKinds
  <2>3. QED
    BY <2>1, <2>2
<1>2. Accounted <=> SlotsAccounted /\ CountersBalanced
  BY DEF Accounted
<1>3. QED
  BY DrainInit, DrainInvImplies, TypeCorrect, AccountingCorrect, <1>1, <1>2, PTL DEF Spec

-----------------------------------------------------------------------------
(* The refinement of SessionSlots.                                         *)

stageBar   == [c \in Conns |-> StageOf(phase[c])]
blamedBar  == {c \in Conns : outcome[c] # "ok"}
countedBar == [c \in Conns |-> CASE recorded[c] = "none" -> "no"
                                 [] recorded[c] = "ok"   -> "ok"
                                 [] OTHER                -> "failed"]

\* Why a Count is the first of its connection, and a shell's blame comes after
\* the handshake: a label is there exactly when handleConn's deferred closure
\* has run, and channels are only opened on an open connection.
LabelsAndShells ==
    /\ \A c \in Conns : recorded[c] # "none" <=> phase[c] \in {"recorded", "ended"}
    /\ \A c \in Conns, k \in Chans :
          shell[c][k] # "none" => phase[c] \in {"open", "unwinding", "released", "recorded", "ended"}

LEMMA LabelsInit == Init => LabelsAndShells
  BY DEF Init, LabelsAndShells

LEMMA LabelsProcess ==
    ASSUME TypeOK, LabelsAndShells, ProcessStep
    PROVE  LabelsAndShells'
<1> USE DEF LabelsAndShells, TypeOK, connVars, shellVars
<1>1. CASE StartFails \/ BeginShutdown
  BY <1>1 DEF StartFails, BeginShutdown, closeListeners, Dropped
<1>2. CASE Ready \/ AcceptLoopsGone \/ Drained \/ DrainTimeout \/ UnloadAll
  BY <1>2 DEF Ready, AcceptLoopsGone, Drained, DrainTimeout, UnloadAll
<1>3. ASSUME NEW d \in Devices, Listen(d) \/ AcceptFails(d)
      PROVE  LabelsAndShells'
  BY <1>3 DEF Listen, AcceptFails
<1>4. ASSUME NEW c \in Conns, AcceptReturns(c)
      PROVE  LabelsAndShells'
  BY <1>4 DEF AcceptReturns
<1>5. ASSUME NEW c \in Conns, Launch(c)
      PROVE  LabelsAndShells'
  BY <1>5 DEF Launch
<1>6. QED
  BY <1>1, <1>2, <1>3, <1>4, <1>5 DEF ProcessStep, Startup, AcceptLoop, Shutdown

LEMMA LabelsConnection ==
    ASSUME TypeOK, LabelsAndShells, NEW c \in Conns, ConnectionStep(c)
    PROVE  LabelsAndShells'
<1> USE DEF LabelsAndShells, TypeOK, connVars, shellVars
<1>1. CASE Dial(c)
  BY <1>1 DEF Dial
<1>2. CASE ClientCloses(c)
  BY <1>2 DEF ClientCloses
<1>3. CASE HardTimer(c)
  BY <1>3 DEF HardTimer
<1>4. CASE Refuse(c)
  BY <1>4 DEF Refuse
<1>5. CASE TakeSlot(c)
  BY <1>5 DEF TakeSlot
<1>6. CASE CapHit(c)
  BY <1>6 DEF CapHit
<1>7. CASE HandshakeOK(c)
  BY <1>7 DEF HandshakeOK
<1>8. CASE ChannelsEnd(c)
  BY <1>8 DEF ChannelsEnd
<1>9. CASE ReleaseSlot(c)
  BY <1>9 DEF ReleaseSlot
<1>10. CASE Record(c)
  BY <1>10 DEF Record, Outcomes
<1>11. CASE Finish(c)
  BY <1>11 DEF Finish
<1>12. ASSUME NEW r \in {"auth_fail", "error"}, HandshakeFails(c, r)
      PROVE  LabelsAndShells'
  BY <1>12 DEF HandshakeFails
<1>13. ASSUME NEW matches \in BOOLEAN, NEW roll \in Rolls, TryPassword(c, matches, roll)
      PROVE  LabelsAndShells'
  BY <1>13 DEF TryPassword
<1>14. QED
  BY <1>1, <1>2, <1>3, <1>4, <1>5, <1>6, <1>7, <1>8, <1>9, <1>10, <1>11, <1>12, <1>13
     DEF ConnectionStep, Client, Connection, Admit, Handshake, Unwind

LEMMA LabelsChannel ==
    ASSUME TypeOK, LabelsAndShells, NEW c \in Conns, NEW k \in Chans, ChannelStep(c, k)
    PROVE  LabelsAndShells'
<1>1. UNCHANGED <<phase, recorded>>
  BY DEF ChannelStep, Channel, Emit, connVars, OpenChannel, AcceptChannelFails, StartShell,
         RequestsEnd, Greet, ReadCommand, ReadFails, HangOver, HangAbandoned, HangCancelled,
         DelayEnds, EmitOK, EmitExit, EmitCut, WriteFails
<1>2. shell[c][k] # "none" \/ phase[c] = "open"
  BY DEF ChannelStep, Channel, Emit, OpenChannel, AcceptChannelFails, StartShell,
         RequestsEnd, Greet, ReadCommand, ReadFails, HangOver, HangAbandoned, HangCancelled,
         DelayEnds, EmitOK, EmitExit, EmitCut, WriteFails
<1>3. \E t \in ShellStates : shell' = [shell EXCEPT ![c][k] = t]
  BY DEF ChannelStep, Channel, Emit, OpenChannel, AcceptChannelFails, StartShell,
         RequestsEnd, Greet, ReadCommand, ReadFails, HangOver, HangAbandoned, HangCancelled,
         DelayEnds, EmitOK, EmitExit, EmitCut, WriteFails, setShell, ShellStates
<1>4. QED
  BY <1>1, <1>2, <1>3 DEF LabelsAndShells, TypeOK

LEMMA LabelsCorrect == Spec => []LabelsAndShells
<1>1. TypeOK /\ LabelsAndShells /\ [Next]_vars => LabelsAndShells'
  <2>1. LabelsAndShells /\ UNCHANGED vars => LabelsAndShells'
    BY DEF LabelsAndShells, vars, connVars, shellVars
  <2>2. TypeOK /\ LabelsAndShells /\ Next => LabelsAndShells'
    BY LabelsProcess, LabelsConnection, LabelsChannel, StepKinds
  <2>3. QED
    BY <2>1, <2>2
<1>2. QED
  BY LabelsInit, TypeCorrect, <1>1, PTL DEF Spec

LEMMA RefinementInit == Init => Slots!SlotInit
  BY DEF Init, Slots!SlotInit, StageOf

\* A step that leaves the three mapped values alone is a stutter of SessionSlots.
LEMMA RefinementStutter ==
    ASSUME stageBar' = stageBar, UNCHANGED <<outcome, recorded>>
    PROVE  UNCHANGED Slots!slotVars
  BY DEF stageBar, Slots!slotVars

\* The mapped stage of a connection that moves.
LEMMA StageMove ==
    ASSUME TypeOK, NEW c \in Conns, NEW p \in Phases, phase' = [phase EXCEPT ![c] = p]
    PROVE  stageBar' = [stageBar EXCEPT ![c] = StageOf(p)]
  BY DEF stageBar, TypeOK

LEMMA StageStays ==
    ASSUME TypeOK, \A x \in Conns : StageOf(phase'[x]) = StageOf(phase[x])
    PROVE  stageBar' = stageBar
  BY DEF stageBar

LEMMA BlamedMove ==
    ASSUME TypeOK, NEW c \in Conns, NEW r \in Outcomes \ {"ok"}, SetOutcome(c, r)
    PROVE  blamedBar' = blamedBar \union {c}
  BY DEF blamedBar, SetOutcome, TypeOK, Outcomes

LEMMA RefinementConnection ==
    ASSUME TypeOK, TypeOK', Accounted, LabelsAndShells, NEW c \in Conns,
           ConnectionStep(c)
    PROVE  Slots!SlotNext \/ UNCHANGED Slots!slotVars
<1> USE DEF Phases, Outcomes
<1>1. CASE ClientCloses(c) \/ HardTimer(c)
  BY <1>1, RefinementStutter DEF ClientCloses, HardTimer, stageBar
<1>2. ASSUME NEW matches \in BOOLEAN, NEW roll \in Rolls, TryPassword(c, matches, roll)
      PROVE  UNCHANGED Slots!slotVars
  BY <1>2, RefinementStutter DEF TryPassword, stageBar
<1>3. CASE Dial(c)
  <2>1. \A x \in Conns : StageOf(phase'[x]) = StageOf(phase[x])
    BY <1>3 DEF Dial, TypeOK, StageOf
  <2>2. QED
    BY <1>3, <2>1, StageStays, RefinementStutter DEF Dial
<1>4. CASE Refuse(c) \/ CapHit(c)
  <2>1. stageBar[c] = "outside" /\ stageBar' = [stageBar EXCEPT ![c] = "gone"]
    BY <1>4, StageMove DEF Refuse, CapHit, StageOf, stageBar
  <2>2. blamedBar' = blamedBar \union {c} /\ UNCHANGED recorded
    BY <1>4, BlamedMove DEF Refuse, CapHit
  <2>3. Slots!TurnAway(c)
    BY <2>1, <2>2 DEF Slots!TurnAway, stageBar, blamedBar
  <2>4. QED
    BY <2>3 DEF Slots!SlotNext
<1>5. CASE TakeSlot(c)
  <2>1. stageBar[c] = "outside" /\ stageBar' = [stageBar EXCEPT ![c] = "challenged"]
    BY <1>5, StageMove DEF TakeSlot, StageOf, stageBar
  <2>2. Slots!Inside = Holders
    BY DEF Slots!Inside, Holders, HoldingPhases, StageOf, TypeOK
  <2>3. Slots!Cardinality(Slots!Inside) < Cap
    <3>1. Cardinality(Slots!Inside) < Cap
      BY <1>5, <2>2 DEF TakeSlot, Accounted, SlotsAccounted
    <3>2. Slots!Cardinality(Slots!Inside) = Cardinality(Slots!Inside)
      BY Zenon DEF Cardinality, Slots!Cardinality
    <3>3. QED
      BY <3>1, <3>2
  <2>4. UNCHANGED <<blamedBar, countedBar>>
    BY <1>5 DEF TakeSlot, blamedBar, countedBar
  <2>5. Slots!LetIn(c)
    BY <2>1, <2>3, <2>4 DEF Slots!LetIn, stageBar, blamedBar, countedBar
  <2>6. QED
    BY <2>5 DEF Slots!SlotNext
<1>6. CASE HandshakeOK(c)
  <2>1. stageBar[c] = "challenged" /\ stageBar' = [stageBar EXCEPT ![c] = "served"]
    BY <1>6, StageMove DEF HandshakeOK, StageOf, stageBar
  <2>2. Slots!Serve(c)
    BY <1>6, <2>1 DEF Slots!Serve, stageBar, HandshakeOK
  <2>3. QED
    BY <2>2 DEF Slots!SlotNext
<1>7. ASSUME NEW r \in {"auth_fail", "error"}, HandshakeFails(c, r)
      PROVE  Slots!SlotNext
  <2>1. stageBar[c] = "challenged" /\ stageBar' = [stageBar EXCEPT ![c] = "leaving"]
    BY <1>7, StageMove DEF HandshakeFails, StageOf, stageBar
  <2>2. blamedBar' = blamedBar \union {c} /\ UNCHANGED recorded
    BY <1>7, BlamedMove DEF HandshakeFails
  <2>3. Slots!Reject(c)
    BY <2>1, <2>2 DEF Slots!Reject, stageBar, blamedBar
  <2>4. QED
    BY <2>3 DEF Slots!SlotNext
<1>8. CASE ChannelsEnd(c)
  <2>1. stageBar[c] = "served" /\ stageBar' = [stageBar EXCEPT ![c] = "leaving"]
    BY <1>8, StageMove DEF ChannelsEnd, StageOf, stageBar
  <2>2. Slots!EndSession(c)
    BY <1>8, <2>1 DEF Slots!EndSession, stageBar, ChannelsEnd
  <2>3. QED
    BY <2>2 DEF Slots!SlotNext
<1>9. CASE ReleaseSlot(c)
  <2>1. stageBar[c] = "leaving" /\ stageBar' = [stageBar EXCEPT ![c] = "gone"]
    BY <1>9, StageMove DEF ReleaseSlot, StageOf, stageBar
  <2>2. Slots!FreeSlot(c)
    BY <1>9, <2>1 DEF Slots!FreeSlot, stageBar, ReleaseSlot
  <2>3. QED
    BY <2>2 DEF Slots!SlotNext
<1>10. CASE Record(c)
  <2>1. stageBar[c] = "gone" /\ stageBar' = stageBar
    BY <1>10, StageStays DEF Record, StageOf, stageBar, TypeOK
  <2>2. countedBar[c] = "no"
    BY <1>10 DEF Record, LabelsAndShells, countedBar
  <2>3. countedBar' = [countedBar EXCEPT ![c] = IF c \in blamedBar THEN "failed" ELSE "ok"]
    BY <1>10 DEF Record, countedBar, blamedBar, TypeOK
  <2>4. Slots!Count(c)
    BY <1>10, <2>1, <2>2, <2>3 DEF Slots!Count, stageBar, blamedBar, countedBar, Record
  <2>5. QED
    BY <2>4 DEF Slots!SlotNext
<1>11. CASE Finish(c)
  <2>1. \A x \in Conns : StageOf(phase'[x]) = StageOf(phase[x])
    BY <1>11 DEF Finish, TypeOK, StageOf
  <2>2. QED
    BY <1>11, <2>1, StageStays, RefinementStutter DEF Finish
<1>12. QED
  BY <1>1, <1>2, <1>3, <1>4, <1>5, <1>6, <1>7, <1>8, <1>9, <1>10, <1>11
     DEF ConnectionStep, Client, Connection, Admit, Handshake, Unwind

LEMMA RefinementProcess ==
    ASSUME TypeOK, TypeOK', ProcessStep
    PROVE  UNCHANGED Slots!slotVars
<1> USE DEF connVars
<1>1. \A x \in Conns : StageOf(phase'[x]) = StageOf(phase[x])
  <2> USE DEF StageOf, TypeOK
  <2>1. CASE Startup
    BY <2>1 DEF Startup, StartFails, closeListeners, Dropped, Ready, Listen
  <2>2. CASE AcceptLoop
    BY <2>2 DEF AcceptLoop, AcceptFails, AcceptReturns, Launch
  <2>3. CASE Shutdown \/ DrainTimeout
    BY <2>3 DEF Shutdown, BeginShutdown, closeListeners, Dropped, AcceptLoopsGone,
                Drained, DrainTimeout, UnloadAll
  <2>4. QED
    BY <2>1, <2>2, <2>3 DEF ProcessStep
<1>2. UNCHANGED <<outcome, recorded>>
  BY DEF ProcessStep, Startup, StartFails, Ready, Listen, AcceptLoop, AcceptFails, AcceptReturns, Launch,
         Shutdown, BeginShutdown, AcceptLoopsGone, Drained, DrainTimeout, UnloadAll
<1>3. QED
  BY <1>1, <1>2, StageStays, RefinementStutter

LEMMA RefinementChannel ==
    ASSUME TypeOK, TypeOK', LabelsAndShells, NEW c \in Conns, NEW k \in Chans, ChannelStep(c, k)
    PROVE  Slots!SlotNext \/ UNCHANGED Slots!slotVars
<1>1. stageBar' = stageBar /\ UNCHANGED recorded
  BY DEF ChannelStep, Channel, Emit, connVars, OpenChannel, AcceptChannelFails, StartShell,
         RequestsEnd, Greet, ReadCommand, ReadFails, HangOver, HangAbandoned, HangCancelled,
         DelayEnds, EmitOK, EmitExit, EmitCut, WriteFails, stageBar
<1>2. UNCHANGED outcome \/ \E r \in Outcomes \ {"ok"} : SetOutcome(c, r)
  BY DEF ChannelStep, Channel, Emit, connVars, OpenChannel, AcceptChannelFails, StartShell,
         RequestsEnd, Greet, ReadCommand, ReadFails, HangOver, HangAbandoned, HangCancelled,
         DelayEnds, EmitOK, EmitExit, EmitCut, WriteFails, Outcomes
<1>3. CASE UNCHANGED outcome
  BY <1>1, <1>3, RefinementStutter
<1>4. ASSUME NEW r \in Outcomes \ {"ok"}, SetOutcome(c, r)
      PROVE  Slots!SlotNext
  <2>1. shell[c][k] # "none" \/ phase[c] = "open"
    BY DEF ChannelStep, Channel, Emit, OpenChannel, AcceptChannelFails, StartShell,
           RequestsEnd, Greet, ReadCommand, ReadFails, HangOver, HangAbandoned,
           HangCancelled, DelayEnds, EmitOK, EmitExit, EmitCut, WriteFails
  <2>2. stageBar[c] \in {"served", "leaving", "gone"}
    BY <2>1 DEF stageBar, StageOf, LabelsAndShells
  <2>3. Slots!Blame(c)
    BY <1>1, <1>4, <2>2, BlamedMove DEF Slots!Blame, stageBar, blamedBar
  <2>4. QED
    BY <2>3 DEF Slots!SlotNext
<1>5. QED
  BY <1>2, <1>3, <1>4

\* The server is a pool of Cap places that counts every connection once: each
\* step of accept, handleConn, Serve and Shutdown is a step of SessionSlots or
\* leaves its state alone.
THEOREM ServerImplementsSlots == Spec => ImplementsSlots
<1>1. /\ TypeOK /\ TypeOK' /\ SlotsAccounted /\ CountersBalanced /\ LabelsAndShells
      /\ [Next]_vars
      => [Slots!SlotNext]_(Slots!slotVars)
  <2>1. UNCHANGED vars => UNCHANGED Slots!slotVars
    BY RefinementStutter DEF vars, connVars, stageBar
  <2>2. TypeOK /\ TypeOK' /\ Accounted /\ LabelsAndShells /\ Next
          => Slots!SlotNext \/ UNCHANGED Slots!slotVars
    BY RefinementProcess, RefinementConnection, RefinementChannel, StepKinds
  <2>3. QED
    BY <2>1, <2>2 DEF Accounted
<1>2. QED
  BY RefinementInit, TypeCorrect, AccountingCorrect, LabelsCorrect, <1>1, PTL
     DEF Spec, ImplementsSlots, Slots!SlotSpec

=============================================================================
