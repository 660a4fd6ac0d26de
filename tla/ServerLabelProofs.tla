------------------------- MODULE ServerLabelProofs -------------------------
(***************************************************************************)
(* What Server guarantees of the labels of sessions_total, for any number  *)
(* of connections, devices and channels: ResetIsNeverOk and                *)
(* LabelsMeanWhatTheySay.                                                  *)
(*                                                                         *)
(* Neither is inductive. A label is read from the outcome when the         *)
(* deferred closure of handleConn runs, so each of them rests on what the  *)
(* outcome may be before; and a shell that outlives handleConn could still *)
(* reset a connection that was counted, were it not closed by then.        *)
(***************************************************************************)
EXTENDS ServerProofs

\* Who is labelled with auth_fail was rejected, and is past the password callback.
Challenged ==
    \A c \in Conns :
        outcome[c] = "auth_fail" \/ recorded[c] = "auth_fail" =>
            requireSSHAuth(DeviceOf[c]) /\ c \notin authed /\ phase[c] \in ClosedPhases

\* A reset connection is blamed first; a shell whose handleConn has left its
\* loop has a connection that is down already, which it does not reset again.
ResetsBlamed ==
    \A c \in Conns :
        /\ wire[c] = "reset" => outcome[c] # "ok" /\ recorded[c] # "ok"
        /\ \A k \in Chans : shell[c][k] # "none" => phase[c] = "open" \/ wire[c] # "up"

\* A shell that blames its client for the end of the session has returned.
ShellsBlamed ==
    \A c \in Conns :
        outcome[c] = "disconnect" \/ recorded[c] = "disconnect" =>
            \E k \in Chans : shell[c][k] = "returned"

LabelInv == Challenged /\ ResetsBlamed /\ ShellsBlamed

LEMMA LabelInvInit == Init => LabelInv
<1> SUFFICES ASSUME Init PROVE LabelInv
  OBVIOUS
<1>1. Challenged
  BY DEF Init, Challenged
<1>2. ResetsBlamed
  BY DEF Init, ResetsBlamed
<1>3. ShellsBlamed
  BY DEF Init, ShellsBlamed
<1>4. QED
  BY <1>1, <1>2, <1>3 DEF LabelInv

LEMMA LabelInvImplies ==
    LabelInv => ResetIsNeverOk /\ LabelsMeanWhatTheySay
<1>1. ResetsBlamed => ResetIsNeverOk
  BY DEF ResetsBlamed, ResetIsNeverOk
<1>2. Challenged /\ ShellsBlamed => LabelsMeanWhatTheySay
  BY DEF Challenged, ShellsBlamed, LabelsMeanWhatTheySay
<1>3. QED
  BY <1>1, <1>2 DEF LabelInv

-----------------------------------------------------------------------------
(* Start, the accept loops and Shutdown move connections between phases    *)
(* that come before handleConn, and touch nothing else of the invariant.   *)

LEMMA ProcessKeepsLabels ==
    ASSUME TypeOK, ProcessStep
    PROVE  /\ UNCHANGED <<wire, tries, authed, outcome, recorded, shell>>
           /\ \A c \in Conns :
                 \/ phase'[c] = phase[c]
                 \/ phase[c] \in {"dialed", "accepted"} /\ phase'[c] # "open"
<1> USE DEF TypeOK, connVars, shellVars
<1>1. CASE StartFails \/ BeginShutdown
  BY <1>1 DEF StartFails, BeginShutdown, closeListeners, Dropped
<1>2. CASE Ready \/ AcceptLoopsGone \/ Drained \/ DrainTimeout \/ UnloadAll
  BY <1>2 DEF Ready, AcceptLoopsGone, Drained, DrainTimeout, UnloadAll
<1>3. ASSUME NEW d \in Devices, Listen(d) \/ AcceptFails(d)
      PROVE  UNCHANGED <<phase, wire, tries, authed, outcome, recorded, shell>>
  BY <1>3 DEF Listen, AcceptFails
<1>4. ASSUME NEW x \in Conns, AcceptReturns(x) \/ Launch(x)
      PROVE  /\ UNCHANGED <<wire, tries, authed, outcome, recorded, shell>>
             /\ phase[x] \in {"dialed", "accepted"}
             /\ \E p \in {"accepted", "admitting"} : phase' = [phase EXCEPT ![x] = p]
  BY <1>4 DEF AcceptReturns, Launch
<1>5. QED
  BY <1>1, <1>2, <1>3, <1>4 DEF ProcessStep, Startup, AcceptLoop, Shutdown

LEMMA LabelInvProcess ==
    ASSUME TypeOK, LabelInv, ProcessStep
    PROVE  LabelInv'
<1>1. Challenged'
  BY ProcessKeepsLabels DEF LabelInv, Challenged, ClosedPhases, requireSSHAuth
<1>2. ResetsBlamed'
  BY ProcessKeepsLabels DEF LabelInv, ResetsBlamed
<1>3. ShellsBlamed'
  BY ProcessKeepsLabels DEF LabelInv, ShellsBlamed
<1>4. QED
  BY <1>1, <1>2, <1>3 DEF LabelInv

-----------------------------------------------------------------------------
(* The actions of handleConn.                                              *)

LEMMA ChallengedConnection ==
    ASSUME TypeOK, LabelsAndShells, Challenged, NEW c \in Conns, ConnectionStep(c)
    PROVE  Challenged'
<1> USE DEF Challenged, LabelsAndShells, TypeOK, ClosedPhases
<1>1. CASE Dial(c)
  BY <1>1 DEF Dial
<1>2. CASE ClientCloses(c) \/ HardTimer(c)
  BY <1>2 DEF ClientCloses, HardTimer
<1>3. CASE Refuse(c)
  BY <1>3 DEF Refuse, SetOutcome
<1>4. CASE TakeSlot(c)
  BY <1>4 DEF TakeSlot
<1>5. CASE CapHit(c)
  BY <1>5 DEF CapHit, SetOutcome
<1>6. CASE HandshakeOK(c)
  BY <1>6 DEF HandshakeOK
<1>7. CASE ChannelsEnd(c)
  BY <1>7 DEF ChannelsEnd
<1>8. CASE ReleaseSlot(c)
  BY <1>8 DEF ReleaseSlot
<1>9. CASE Record(c)
  BY <1>9 DEF Record
<1>10. CASE Finish(c)
  BY <1>10 DEF Finish
<1>11. ASSUME NEW r \in {"auth_fail", "error"}, HandshakeFails(c, r)
       PROVE  Challenged'
  BY <1>11 DEF HandshakeFails, SetOutcome, RejectedAuth
<1>12. ASSUME NEW matches \in BOOLEAN, NEW roll \in Rolls, TryPassword(c, matches, roll)
       PROVE  Challenged'
  <2>1. CASE authed' = authed \union {c} /\ UNCHANGED tries
    BY <1>12, <2>1 DEF TryPassword
  <2>2. CASE tries' = [tries EXCEPT ![c] = @ + 1] /\ UNCHANGED authed
    BY <1>12, <2>2 DEF TryPassword
  <2>3. QED
    BY <1>12, <2>1, <2>2 DEF TryPassword
<1>13. QED
  BY <1>1, <1>2, <1>3, <1>4, <1>5, <1>6, <1>7, <1>8, <1>9, <1>10, <1>11, <1>12
     DEF ConnectionStep, Client, Connection, Admit, Handshake, Unwind

LEMMA ResetsConnection ==
    ASSUME TypeOK, LabelsAndShells, ResetsBlamed, NEW c \in Conns, ConnectionStep(c)
    PROVE  ResetsBlamed'
<1> USE DEF ResetsBlamed, LabelsAndShells, TypeOK, shellVars
<1>1. CASE Dial(c)
  BY <1>1 DEF Dial
<1>2. CASE ClientCloses(c) \/ HardTimer(c)
  BY <1>2 DEF ClientCloses, HardTimer
<1>3. CASE Refuse(c)
  BY <1>3 DEF Refuse, SetOutcome
<1>4. CASE TakeSlot(c)
  BY <1>4 DEF TakeSlot
<1>5. CASE CapHit(c)
  BY <1>5 DEF CapHit, SetOutcome
<1>6. CASE HandshakeOK(c)
  BY <1>6 DEF HandshakeOK
<1>7. CASE ChannelsEnd(c)
  BY <1>7 DEF ChannelsEnd
<1>8. CASE ReleaseSlot(c)
  BY <1>8 DEF ReleaseSlot
<1>9. CASE Record(c)
  BY <1>9 DEF Record
<1>10. CASE Finish(c)
  BY <1>10 DEF Finish
<1>11. ASSUME NEW r \in {"auth_fail", "error"}, HandshakeFails(c, r)
       PROVE  ResetsBlamed'
  BY <1>11 DEF HandshakeFails, SetOutcome
<1>12. ASSUME NEW matches \in BOOLEAN, NEW roll \in Rolls, TryPassword(c, matches, roll)
       PROVE  ResetsBlamed'
  BY <1>12 DEF TryPassword
<1>13. QED
  BY <1>1, <1>2, <1>3, <1>4, <1>5, <1>6, <1>7, <1>8, <1>9, <1>10, <1>11, <1>12
     DEF ConnectionStep, Client, Connection, Admit, Handshake, Unwind

\* handleConn itself never blames a client for going away; it counts what it finds.
LEMMA ConnectionNeverSetsDisconnect ==
    ASSUME TypeOK, NEW c \in Conns, ConnectionStep(c)
    PROVE  /\ UNCHANGED shell
           /\ \A x \in Conns : outcome'[x] = outcome[x] \/ outcome'[x] \in {"auth_fail", "error"}
           /\ \A x \in Conns : recorded'[x] \in {recorded[x], outcome[x]}
<1> USE DEF TypeOK, shellVars
<1>1. CASE Client(c) \/ HardTimer(c)
  BY <1>1 DEF Client, Dial, ClientCloses, HardTimer
<1>2. CASE Admit(c)
  BY <1>2 DEF Admit, Refuse, TakeSlot, CapHit, SetOutcome
<1>3. CASE Handshake(c)
  BY <1>3 DEF Handshake, TryPassword, HandshakeOK, HandshakeFails, SetOutcome
<1>4. CASE Unwind(c)
  BY <1>4 DEF Unwind, ChannelsEnd, ReleaseSlot, Record, Finish
<1>5. QED
  BY <1>1, <1>2, <1>3, <1>4 DEF ConnectionStep, Connection

LEMMA LabelInvConnection ==
    ASSUME TypeOK, LabelsAndShells, LabelInv, NEW c \in Conns, ConnectionStep(c)
    PROVE  LabelInv'
<1>1. Challenged' /\ ResetsBlamed'
  BY ChallengedConnection, ResetsConnection DEF LabelInv
<1>2. ShellsBlamed'
  BY ConnectionNeverSetsDisconnect DEF LabelInv, ShellsBlamed
<1>3. QED
  BY <1>1, <1>2 DEF LabelInv

-----------------------------------------------------------------------------
(* The shells.                                                             *)

LEMMA ChallengedChannel ==
    ASSUME TypeOK, LabelsAndShells, Challenged, NEW c \in Conns, NEW k \in Chans, ChannelStep(c, k)
    PROVE  Challenged'
<1>1. UNCHANGED <<phase, tries, authed, recorded>>
  BY DEF ChannelStep, Channel, Emit, connVars, OpenChannel, AcceptChannelFails, StartShell,
         RequestsEnd, Greet, ReadCommand, ReadFails, HangOver, HangAbandoned, HangCancelled,
         DelayEnds, EmitOK, EmitExit, EmitCut, WriteFails
<1>2. UNCHANGED outcome \/ \E r \in {"disconnect", "error"} : SetOutcome(c, r)
  BY DEF ChannelStep, Channel, Emit, connVars, OpenChannel, AcceptChannelFails, StartShell,
         RequestsEnd, Greet, ReadCommand, ReadFails, HangOver, HangAbandoned, HangCancelled,
         DelayEnds, EmitOK, EmitExit, EmitCut, WriteFails
<1>3. QED
  BY <1>1, <1>2 DEF Challenged, SetOutcome, TypeOK

LEMMA ResetsChannel ==
    ASSUME TypeOK, LabelsAndShells, ResetsBlamed, NEW c \in Conns, NEW k \in Chans, ChannelStep(c, k)
    PROVE  ResetsBlamed'
<1> USE DEF ResetsBlamed, LabelsAndShells, TypeOK, connVars, setShell
<1>1. ASSUME NEW s \in ShellStates, setShell(c, k, s), shell[c][k] # "none", UNCHANGED connVars
      PROVE  ResetsBlamed'
  <2>1. \A x \in Conns, l \in Chans : shell'[x][l] # "none" => shell[x][l] # "none"
    BY <1>1
  <2>2. QED
    BY <1>1, <2>1
<1>2. CASE OpenChannel(c, k)
  BY <1>2 DEF OpenChannel
<1>3. CASE AcceptChannelFails(c, k)
  BY <1>3 DEF AcceptChannelFails, SetOutcome
<1>4. CASE StartShell(c, k) \/ RequestsEnd(c, k) \/ Greet(c, k)
  BY <1>1, <1>4 DEF StartShell, RequestsEnd, Greet, ShellStates
<1>5. CASE ReadCommand(c, k)
  BY <1>1, <1>5 DEF ReadCommand, ShellStates
<1>6. CASE ReadFails(c, k)
  BY <1>6 DEF ReadFails, SetOutcome
<1>7. CASE HangOver(c, k) \/ HangAbandoned(c, k) \/ DelayEnds(c, k)
  BY <1>1, <1>7 DEF HangOver, HangAbandoned, DelayEnds, ShellStates
<1>8. CASE HangCancelled(c, k)
  BY <1>8 DEF HangCancelled
<1>9. CASE EmitOK(c, k) \/ EmitExit(c, k) \/ WriteFails(c, k)
  BY <1>1, <1>9 DEF EmitOK, EmitExit, WriteFails, ShellStates
<1>10. CASE EmitCut(c, k)
  BY <1>10 DEF EmitCut, SetOutcome
<1>11. QED
  BY <1>2, <1>3, <1>4, <1>5, <1>6, <1>7, <1>8, <1>9, <1>10 DEF ChannelStep, Channel, Emit

\* A shell that has returned stays so, and only one that returns blames anybody.
LEMMA ShellsChannel ==
    ASSUME TypeOK, ShellsBlamed, NEW c \in Conns, NEW k \in Chans, ChannelStep(c, k)
    PROVE  ShellsBlamed'
<1>1. shell[c][k] # "returned" /\ UNCHANGED recorded
  BY DEF ChannelStep, Channel, Emit, connVars, OpenChannel, AcceptChannelFails, StartShell,
         RequestsEnd, Greet, ReadCommand, ReadFails, HangOver, HangAbandoned, HangCancelled,
         DelayEnds, EmitOK, EmitExit, EmitCut, WriteFails
<1>2. \E s \in ShellStates :
         /\ setShell(c, k, s)
         /\ \/ UNCHANGED outcome \/ SetOutcome(c, "error")
            \/ s = "returned" /\ SetOutcome(c, "disconnect")
  BY DEF ChannelStep, Channel, Emit, connVars, OpenChannel, AcceptChannelFails, StartShell,
         RequestsEnd, Greet, ReadCommand, ReadFails, HangOver, HangAbandoned, HangCancelled,
         DelayEnds, EmitOK, EmitExit, EmitCut, WriteFails, setShell, ShellStates
<1>3. PICK s \in ShellStates :
         /\ setShell(c, k, s)
         /\ \/ UNCHANGED outcome \/ SetOutcome(c, "error")
            \/ s = "returned" /\ SetOutcome(c, "disconnect")
  BY <1>2
<1>4. \A x \in Conns : x # c => outcome'[x] = outcome[x]
  BY <1>3 DEF SetOutcome, TypeOK
<1>5. \A x \in Conns, l \in Chans :
         shell'[x][l] = IF x = c /\ l = k THEN s ELSE shell[x][l]
  BY <1>3 DEF setShell, TypeOK
<1>6. s = "returned" => \E l \in Chans : shell'[c][l] = "returned"
  BY <1>5
<1>7. s # "returned" /\ outcome'[c] = "disconnect" => outcome[c] = "disconnect"
  BY <1>3 DEF SetOutcome, TypeOK
<1>8. \A x \in Conns :
         (\E l \in Chans : shell[x][l] = "returned") => \E l \in Chans : shell'[x][l] = "returned"
  BY <1>1, <1>5
<1>9. QED
  BY <1>1, <1>4, <1>6, <1>7, <1>8 DEF ShellsBlamed

-----------------------------------------------------------------------------
LEMMA LabelInvCorrect == Spec => []LabelInv
<1>1. TypeOK /\ LabelsAndShells /\ LabelInv /\ [Next]_vars => LabelInv'
  <2>1. LabelInv /\ UNCHANGED vars => LabelInv'
    BY DEF LabelInv, Challenged, ResetsBlamed, ShellsBlamed, requireSSHAuth, vars, connVars,
           shellVars
  <2>2. ASSUME TypeOK, LabelsAndShells, LabelInv, Next
        PROVE  LabelInv'
    <3>1. ASSUME NEW c \in Conns, NEW k \in Chans, ChannelStep(c, k)
          PROVE  LabelInv'
      BY <2>2, <3>1, ChallengedChannel, ResetsChannel, ShellsChannel DEF LabelInv
    <3>2. QED
      BY <2>2, <3>1, LabelInvProcess, LabelInvConnection, StepKinds
  <2>3. QED
    BY <2>1, <2>2
<1>2. QED
  BY LabelInvInit, TypeCorrect, LabelsCorrect, <1>1, PTL DEF Spec

\* A connection the server resets itself is never counted as ok, although its label
\* is read by handleConn and the reset may come from any of its shells (emit).
THEOREM ResetsCorrect == Spec => []ResetIsNeverOk
  BY LabelInvImplies, LabelInvCorrect, PTL

\* auth_fail is only counted for a rejected client, disconnect only if Serve ran and
\* has returned, on whichever way handleConn is left (handleConn, Serve).
THEOREM LabelsMeaningful == Spec => []LabelsMeanWhatTheySay
  BY LabelInvImplies, LabelInvCorrect, PTL

=============================================================================
