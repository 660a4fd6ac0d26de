---------------------------- MODULE ShellProofs ----------------------------
(***************************************************************************)
(* What Shell guarantees of a session for clients that type anything, of   *)
(* any length, on any device: the metrics of its commands, the echo, the   *)
(* hang, and what a cut and an end of the session mean.                    *)
(***************************************************************************)
EXTENDS Shell, TLAPS

\* What the client does to its connection.
ClientSteps == Disconnect \/ ClientEOF \/ ClientClosesChannel

\* Each variable has its type: TypeOK, by the actions that change it.
LineTyped == editor \in Editors /\ line \in Seq(Printable)
CountTyped == prompts \in Nat /\ observed \in Nat /\ hangs \in Nat
            /\ injected \in [FaultTypes -> Nat]
StateTyped ==
    /\ device \in Devices /\ wire \in {"up", "closed", "reset"} /\ step \in Steps
    /\ channel \in {"open", "eof", "closed"}
    /\ enableMode \in BOOLEAN /\ hung \in BOOLEAN /\ outcome \in {"ok", "disconnect"}
    /\ keys \in 0..MaxKeys

LEMMA TypeOKParts == TypeOK <=> LineTyped /\ CountTyped /\ StateTyped
  BY DEF TypeOK, LineTyped, CountTyped, StateTyped

\* Taking the last element off a sequence leaves one of the same elements.
LEMMA DropLastType ==
    ASSUME NEW S, NEW s \in Seq(S)
    PROVE  DropLast(s) \in Seq(S)
<1>1. CASE s = <<>>
  BY <1>1 DEF DropLast
<1>2. CASE s # <<>>
  <2>1. Len(s) \in Nat /\ Len(s) >= 1
    BY <1>2
  <2>2. SubSeq(s, 1, Len(s) - 1) \in Seq(S)
    BY <2>1
  <2>3. QED
    BY <1>2, <2>2 DEF DropLast
<1>3. QED
  BY <1>1, <1>2

\* A round of readLine leaves a buffer of printable bytes, the screen one, too; and
\* they are the same after it if they were before and bytes are echoed.
LEMMA PressKeeps ==
    ASSUME NEW e \in Editors, NEW key \in Keys, NEW echo \in BOOLEAN
    PROVE  LET r == Press(e, key, echo)
           IN  /\ r \in Editors
               /\ echo /\ e.screen = e.buf => r.screen = r.buf
               /\ ~echo /\ e.screen = <<>> => r.screen = <<>>
               /\ r.result = "line" => r.buf = e.buf \/ e.result = "line"
<1> DEFINE r == Press(e, key, echo)
<1>0. key \in Printable => key \notin LineEnd /\ key \notin {"BS", "ETX", "EOT"}
  BY ShellAssumption DEF ShellAssumption, Control, LineEnd
<1>1. /\ e.buf \in Seq(Printable) /\ e.screen \in Seq(Printable)
      /\ e = [buf |-> e.buf, screen |-> e.screen, result |-> e.result]
      /\ e.result \in {"reading", "line", "error"}
  BY DEF Editors
<1>2. CASE key \in Printable /\ echo
  <2>1. r = [buf |-> Append(e.buf, key), screen |-> Append(e.screen, key), result |-> e.result]
    BY <1>1, <1>2, <1>0 DEF Press, LineEnd
  <2>2. Append(e.buf, key) \in Seq(Printable) /\ Append(e.screen, key) \in Seq(Printable)
    BY <1>1, <1>2
  <2>3. r \in Editors
    BY <1>1, <2>1, <2>2 DEF Editors
  <2>4. e.screen = e.buf => r.screen = r.buf
    BY <2>1
  <2>5. r.result = e.result
    BY <2>1
  <2>6. QED
    BY <1>2, <2>3, <2>4, <2>5
<1>3. CASE key \in Printable /\ ~echo
  <2>1. r = [buf |-> Append(e.buf, key), screen |-> e.screen, result |-> e.result]
    BY <1>1, <1>3, <1>0 DEF Press, LineEnd
  <2>2. QED
    BY <1>1, <1>3, <2>1 DEF Editors
<1>4. CASE key = "BS" /\ e.buf # <<>>
  <2>1. r = [buf |-> DropLast(e.buf),
             screen |-> IF echo THEN DropLast(e.screen) ELSE e.screen, result |-> e.result]
    BY <1>1, <1>4, <1>0 DEF Press, LineEnd
  <2>2. DropLast(e.buf) \in Seq(Printable) /\ DropLast(e.screen) \in Seq(Printable)
    BY <1>1, DropLastType
  <2>3. QED
    BY <1>1, <1>4, <2>1, <2>2 DEF Editors
<1>5. CASE key \in LineEnd
  <2>1. r = [buf |-> e.buf, screen |-> e.screen, result |-> "line"]
    BY <1>1, <1>5, <1>0 DEF Press, LineEnd
  <2>2. QED
    BY <1>1, <2>1 DEF Editors
<1>6. CASE key = "ETX" \/ (key = "EOT" /\ e.buf = <<>>)
  <2>1. r = [buf |-> e.buf, screen |-> e.screen, result |-> "error"]
    BY <1>1, <1>6, <1>0 DEF Press, LineEnd
  <2>2. QED
    BY <1>1, <2>1 DEF Editors
<1>7. CASE /\ key \notin Printable /\ key \notin LineEnd /\ key # "ETX"
           /\ (key = "BS" => e.buf = <<>>) /\ (key = "EOT" => e.buf # <<>>)
  <2>1. r = e
    BY <1>7 DEF Press
  <2>2. QED
    BY <1>1, <2>1
<1>8. QED
  BY <1>2, <1>3, <1>4, <1>5, <1>6, <1>7

-----------------------------------------------------------------------------
(* Types.                                                                  *)

LEMMA NewLineTyped == NewLine \in Editors
  BY DEF NewLine, Editors

LEMMA TypeInit == Init => TypeOK
<1> SUFFICES ASSUME Init PROVE TypeOK
  OBVIOUS
<1>1. LineTyped
  BY NewLineTyped DEF Init, LineTyped
<1>2. CountTyped
  BY DEF Init, CountTyped
<1>3. StateTyped
  <2>1. 0 \in 0..MaxKeys
    BY ShellAssumption DEF ShellAssumption
  <2>2. QED
    BY <2>1 DEF Init, StateTyped, Steps
<1>4. QED
  BY <1>1, <1>2, <1>3, TypeOKParts

\* A key that is typed is a byte readLine knows.
LEMMA TypeKeeps ==
    ASSUME TypeOK, NEW key \in Keys, Type(key)
    PROVE  /\ step \in {"line", "password"} /\ editor' \in Editors
           /\ keys' \in 0..MaxKeys
           /\ editor' = Press(editor, key, step = "line")
<1>1. editor \in Editors /\ keys \in Nat /\ MaxKeys \in Nat
  BY ShellAssumption DEF TypeOK, ShellAssumption
<1>2. (step = "line") \in BOOLEAN
  OBVIOUS
<1>3. keys' \in 0..MaxKeys
  BY <1>1 DEF Type
<1>4. editor' = Press(editor, key, step = "line") /\ step \in {"line", "password"}
  BY DEF Type
<1>5. Press(editor, key, step = "line") \in Editors
  BY <1>1, <1>2, PressKeeps
<1>6. QED
  BY <1>3, <1>4, <1>5

LEMMA LineTypedStep ==
    ASSUME TypeOK, [Next]_vars
    PROVE  LineTyped'
<1> USE DEF LineTyped
<1>1. LineTyped
  BY TypeOKParts
<1>2. CASE UNCHANGED vars
  BY <1>1, <1>2 DEF vars, modeVars
<1>3. CASE WritePrompt
  BY <1>1, <1>3, NewLineTyped DEF WritePrompt, modeVars
<1>4. ASSUME NEW key \in Keys, TypeOn(key) \/ Interrupt(key) \/ EnterPassword(key)
      PROVE  LineTyped'
  <2>1. Type(key) /\ line' = line
    BY <1>4 DEF TypeOn, Interrupt, EnterPassword, modeVars
  <2>2. QED
    BY <1>1, <2>1, TypeKeeps
<1>5. ASSUME NEW key \in Keys, EnterCommand(key)
      PROVE  LineTyped'
  <2>1. Type(key) /\ line' = editor.buf
    BY <1>5 DEF EnterCommand
  <2>2. editor.buf \in Seq(Printable)
    BY <1>1 DEF Editors
  <2>3. QED
    BY <2>1, <2>2, TypeKeeps
<1>6. CASE AskPassword
  BY <1>1, <1>6, NewLineTyped DEF AskPassword, modeVars
<1>7. CASE \/ ReadFails \/ HangEnds \/ HangCancelled \/ Delay
           \/ Emit \/ EmitCut \/ RespondFails \/ ClientSteps
  BY <1>1, <1>7 DEF ReadFails, HangEnds, HangCancelled, Delay, Emit, EmitCut, RespondFails,
                    ClientSteps, Disconnect, ClientEOF, ClientClosesChannel, modeVars
<1>8. QED
  BY <1>2, <1>3, <1>4, <1>5, <1>6, <1>7 DEF Next, ClientSteps

LEMMA CountTypedStep ==
    ASSUME TypeOK, [Next]_vars
    PROVE  CountTyped'
<1>1. CountTyped
  BY TypeOKParts
<1>2. ASSUME NEW t \in FaultTypes, Inject(t)
      PROVE  injected' \in [FaultTypes -> Nat]
  BY <1>1, <1>2 DEF Inject, CountTyped
<1>3. injected' \in [FaultTypes -> Nat]
  <2>1. \/ UNCHANGED injected
        \/ \E t \in FaultTypes : Inject(t)
    BY DEF Next, WritePrompt, TypeOn, Interrupt, EnterCommand, EnterPassword, ReadFails,
           HangEnds, HangCancelled, Delay, AskPassword, Emit, EmitCut, RespondFails, Disconnect,
           ClientEOF, ClientClosesChannel, vars, metricVars, FaultTypes
  <2>2. QED
    BY <1>1, <1>2, <2>1 DEF CountTyped
<1>4. prompts' \in Nat /\ observed' \in Nat
  BY <1>1 DEF CountTyped, Next, WritePrompt, TypeOn, Interrupt, EnterCommand, EnterPassword,
              ReadFails, HangEnds, HangCancelled, Delay, AskPassword, Emit, EmitCut,
              RespondFails, Disconnect,
           ClientEOF, ClientClosesChannel, vars, metricVars
<1>5. hangs' \in Nat
  BY <1>1 DEF CountTyped, Next, WritePrompt, TypeOn, Interrupt, EnterCommand, EnterPassword,
              ReadFails, HangEnds, HangCancelled, Delay, AskPassword, Emit, EmitCut,
              RespondFails, Disconnect,
           ClientEOF, ClientClosesChannel, vars, modeVars
<1>6. QED
  BY <1>3, <1>4, <1>5 DEF CountTyped

LEMMA StateTypedStep ==
    ASSUME TypeOK, [Next]_vars
    PROVE  StateTyped'
<1>1. StateTyped
  BY TypeOKParts
<1> USE DEF StateTyped, Steps, linkVars
<1>2. CASE UNCHANGED vars
  BY <1>1, <1>2 DEF vars, modeVars
<1>3. ASSUME NEW key \in Keys,
             TypeOn(key) \/ Interrupt(key) \/ EnterCommand(key) \/ EnterPassword(key)
      PROVE  StateTyped'
  <2>1. keys' \in 0..MaxKeys
    BY <1>3, TypeKeeps DEF TypeOn, Interrupt, EnterCommand, EnterPassword
  <2>2. QED
    BY <1>1, <1>3, <2>1 DEF TypeOn, Interrupt, EnterCommand, EnterPassword, Set, modeVars
<1>4. CASE WritePrompt
  BY <1>1, <1>4 DEF WritePrompt, modeVars
<1>5. CASE ReadFails
  BY <1>1, <1>5 DEF ReadFails, Set, modeVars
<1>6. CASE HangEnds \/ HangCancelled
  BY <1>1, <1>6 DEF HangEnds, HangCancelled, modeVars
<1>7. CASE Delay
  BY <1>1, <1>7 DEF Delay, modeVars
<1>8. CASE AskPassword
  BY <1>1, <1>8 DEF AskPassword, modeVars
<1>9. CASE Emit
  BY <1>1, <1>9 DEF Emit, AfterEmit
<1>10. CASE EmitCut
  BY <1>1, <1>10 DEF EmitCut, Set, modeVars
<1>11. CASE RespondFails
  BY <1>1, <1>11 DEF RespondFails, modeVars
<1>12. CASE ClientSteps
  BY <1>1, <1>12 DEF ClientSteps, Disconnect, ClientEOF, ClientClosesChannel, modeVars
<1>13. QED
  BY <1>2, <1>3, <1>4, <1>5, <1>6, <1>7, <1>8, <1>9, <1>10, <1>11, <1>12 DEF Next, ClientSteps

\* Every reachable state of a session is well typed, whatever the client types.
THEOREM SessionTypesCorrect == Spec => []TypeOK
<1>1. TypeOK /\ [Next]_vars => TypeOK'
  <2> SUFFICES ASSUME TypeOK, [Next]_vars PROVE TypeOK'
    OBVIOUS
  <2>1. LineTyped' /\ CountTyped' /\ StateTyped'
    BY LineTypedStep, CountTypedStep, StateTypedStep
  <2>2. QED
    BY <2>1 DEF TypeOK, LineTyped, CountTyped, StateTyped
<1>2. QED
  BY TypeInit, <1>1, PTL DEF Spec

-----------------------------------------------------------------------------
(* The metrics, the echo and the hang.                                     *)

\* Every command that is followed by a prompt is observed exactly once, on each of
\* the paths through Serve (emit, serveCommandFile, enable).
THEOREM ObservationsCorrect == Spec => []EveryCommandIsObserved
<1>1. Init => EveryCommandIsObserved
  BY DEF Init, EveryCommandIsObserved
<1>2. TypeOK /\ EveryCommandIsObserved /\ [Next]_vars => EveryCommandIsObserved'
  <2> SUFFICES ASSUME TypeOK, EveryCommandIsObserved, [Next]_vars
               PROVE  EveryCommandIsObserved'
    OBVIOUS
  <2> USE DEF EveryCommandIsObserved, Steps
  <2>1. prompts \in Nat /\ observed \in Nat /\ step \in Steps
    BY DEF TypeOK
  <2>2. CASE UNCHANGED vars
    BY <2>2 DEF vars, metricVars
  <2>3. CASE WritePrompt
    BY <2>1, <2>3 DEF WritePrompt
  <2>4. ASSUME NEW key \in Keys,
               TypeOn(key) \/ Interrupt(key) \/ EnterCommand(key) \/ EnterPassword(key)
        PROVE  EveryCommandIsObserved'
    BY <2>1, <2>4 DEF TypeOn, Interrupt, EnterCommand, EnterPassword, Type, metricVars
  <2>5. CASE ReadFails \/ HangEnds \/ HangCancelled \/ Delay \/ AskPassword \/ ClientSteps
    BY <2>1, <2>5 DEF ReadFails, HangEnds, HangCancelled, Delay, AskPassword, ClientSteps,
                      Disconnect, ClientEOF, ClientClosesChannel, metricVars
  <2>6. CASE Emit
    BY <2>1, <2>6 DEF Emit, AfterEmit
  <2>7. CASE EmitCut \/ RespondFails
    BY <2>7 DEF EmitCut, RespondFails
  <2>8. QED
    BY <2>2, <2>3, <2>4, <2>5, <2>6, <2>7 DEF Next, ClientSteps
<1>3. QED
  BY SessionTypesCorrect, <1>1, <1>2, PTL DEF Spec

\* However a line is edited, the client sees what the shell will run, and nothing
\* of a password (readLine).
THEOREM EchoCorrect == Spec => []EchoIsTheLine
<1>1. Init => EchoIsTheLine
  BY DEF Init, EchoIsTheLine
<1>2. TypeOK /\ EchoIsTheLine /\ [Next]_vars => EchoIsTheLine'
  <2> SUFFICES ASSUME TypeOK, EchoIsTheLine, [Next]_vars
               PROVE  EchoIsTheLine'
    OBVIOUS
  <2> USE DEF EchoIsTheLine
  <2>1. CASE UNCHANGED vars \/ ClientSteps
    BY <2>1 DEF vars, ClientSteps, Disconnect, ClientEOF, ClientClosesChannel
  <2>2. CASE WritePrompt
    BY <2>2 DEF WritePrompt, NewLine
  <2>3. ASSUME NEW key \in Keys, TypeOn(key)
        PROVE  EchoIsTheLine'
    <3>1. Type(key) /\ step' = step
      BY <2>3 DEF TypeOn
    <3>2. editor' = Press(editor, key, step = "line") /\ editor \in Editors
      BY <3>1, TypeKeeps DEF TypeOK
    <3>3. (step = "line") \in BOOLEAN
      OBVIOUS
    <3>4. CASE step = "line"
      BY <3>1, <3>2, <3>3, <3>4, PressKeeps
    <3>5. CASE step = "password"
      BY <3>1, <3>2, <3>3, <3>5, PressKeeps
    <3>6. QED
      BY <3>1, <3>4, <3>5 DEF Type
  <2>4. ASSUME NEW key \in Keys, Interrupt(key) \/ EnterCommand(key) \/ EnterPassword(key)
        PROVE  EchoIsTheLine'
    BY <2>4 DEF Interrupt, EnterCommand, EnterPassword
  <2>5. CASE ReadFails \/ HangEnds \/ HangCancelled \/ Delay
    BY <2>5 DEF ReadFails, HangEnds, HangCancelled, Delay
  <2>6. CASE AskPassword
    BY <2>6 DEF AskPassword, NewLine
  <2>7. CASE Emit \/ EmitCut \/ RespondFails
    BY <2>7 DEF Emit, AfterEmit, EmitCut, RespondFails
  <2>8. QED
    BY <2>1, <2>2, <2>3, <2>4, <2>5, <2>6, <2>7 DEF Next, ClientSteps
<1>3. QED
  BY SessionTypesCorrect, <1>1, <1>2, PTL DEF Spec

\* The flag is set by the one hang there is, which may still go on.
HungOnce == (hung => hangs = 1) /\ (~hung => hangs = 0) /\ (step = "hang" => hung)

\* A hang profile stalls the first command of a session, whatever it is, and no
\* other (applyResponseDelay).
THEOREM HangCorrect == Spec => []HangsOnTheFirstCommand
<1> DEFINE HInv == HungOnce /\ HangsOnTheFirstCommand
<1>1. Init => HInv
  BY DEF Init, HungOnce, HangsOnTheFirstCommand
<1>2. TypeOK /\ HInv /\ [Next]_vars => HInv'
  <2> SUFFICES ASSUME TypeOK, HInv, [Next]_vars
               PROVE  HInv'
    OBVIOUS
  <2> USE DEF HungOnce, HangsOnTheFirstCommand
  <2>1. hangs \in Nat /\ observed \in Nat /\ hung \in BOOLEAN
    BY DEF TypeOK
  <2>2. CASE UNCHANGED vars
    BY <2>2 DEF vars, modeVars, metricVars
  <2>3. ASSUME NEW key \in Keys, EnterCommand(key)
        PROVE  HInv'
    <3>1. UNCHANGED <<device, observed>>
      BY <2>3 DEF EnterCommand, metricVars
    <3>2. CASE device.profile = "hang" /\ ~hung
      BY <2>1, <2>3, <3>1, <3>2 DEF EnterCommand
    <3>3. CASE ~(device.profile = "hang" /\ ~hung)
      BY <2>1, <2>3, <3>1, <3>3 DEF EnterCommand
    <3>4. QED
      BY <3>2, <3>3
  <2>4. ASSUME NEW key \in Keys, TypeOn(key) \/ Interrupt(key) \/ EnterPassword(key)
        PROVE  HInv'
    BY <2>1, <2>4 DEF TypeOn, Interrupt, EnterPassword, modeVars, metricVars
  <2>5. CASE \/ WritePrompt \/ ReadFails \/ AskPassword \/ ClientSteps
             \/ EmitCut \/ RespondFails
    BY <2>1, <2>5 DEF WritePrompt, ReadFails, AskPassword, ClientSteps, Disconnect, ClientEOF,
                      ClientClosesChannel, EmitCut, RespondFails, modeVars, metricVars
  <2>6. CASE HangEnds \/ HangCancelled \/ Delay
    BY <2>1, <2>6 DEF HangEnds, HangCancelled, Delay, modeVars, metricVars
  <2>7. CASE Emit
    BY <2>1, <2>7 DEF Emit, AfterEmit
  <2>8. QED
    BY <2>2, <2>3, <2>4, <2>5, <2>6, <2>7 DEF Next, ClientSteps
<1>3. QED
  BY SessionTypesCorrect, <1>1, <1>2, PTL DEF Spec

-----------------------------------------------------------------------------
(* Cuts, and ends.                                                         *)

\* The disconnect_mid fault strikes once at most, ends the session as a disconnect,
\* and is the only thing that resets the connection (emit).
THEOREM CutCorrect == Spec => []CutIsFinal
<1>1. Init => CutIsFinal
  BY DEF Init, CutIsFinal, FaultTypes
<1>2. TypeOK /\ CutIsFinal /\ [Next]_vars => CutIsFinal'
  <2> SUFFICES ASSUME TypeOK, CutIsFinal, [Next]_vars
               PROVE  CutIsFinal'
    OBVIOUS
  <2>1. /\ injected \in [FaultTypes -> Nat] /\ injected["disconnect_mid"] \in Nat
        /\ outcome \in {"ok", "disconnect"} /\ "disconnect_mid" \in FaultTypes
        /\ DOMAIN injected = FaultTypes
    BY DEF TypeOK, FaultTypes
  <2> DEFINE n == injected["disconnect_mid"]
  <2>2. ASSUME NEW t \in FaultTypes \ {"disconnect_mid"}, Inject(t)
        PROVE  n' = n
    BY <2>1, <2>2 DEF Inject
  <2>3. CASE UNCHANGED vars
    BY <2>3 DEF CutIsFinal, vars, linkVars, metricVars
  <2>4. ASSUME NEW key \in Keys,
               TypeOn(key) \/ Interrupt(key) \/ EnterCommand(key) \/ EnterPassword(key)
        PROVE  CutIsFinal'
    BY <2>1, <2>4 DEF CutIsFinal, TypeOn, Interrupt, EnterCommand, EnterPassword, Type,
                      linkVars, metricVars
  <2>5. CASE \/ WritePrompt \/ ReadFails \/ HangEnds \/ HangCancelled \/ AskPassword
             \/ ClientSteps
    BY <2>1, <2>5 DEF CutIsFinal, WritePrompt, ReadFails, HangEnds, HangCancelled, AskPassword,
                      ClientSteps, Disconnect, ClientEOF, ClientClosesChannel, linkVars,
                      metricVars
  <2>6. CASE Delay \/ Emit \/ RespondFails
    <3>1. n' = n
      BY <2>2, <2>6 DEF Delay, Emit, RespondFails, FaultTypes
    <3>2. wire' = wire /\ step # "returned"
      BY <2>6 DEF Delay, Emit, RespondFails, linkVars
    <3>3. QED
      BY <2>1, <3>1, <3>2 DEF CutIsFinal
  <2>7. CASE EmitCut
    <3>1. step = "respond" /\ step' = "returned" /\ outcome' = "disconnect"
      BY <2>1, <2>7 DEF EmitCut, Set
    <3>2. n = 0
      BY <2>1, <3>1 DEF CutIsFinal
    <3>3. n' = n + 1
      BY <2>1, <2>7 DEF EmitCut, Inject
    <3>4. QED
      BY <3>1, <3>2, <3>3 DEF CutIsFinal
  <2>8. QED
    BY <2>3, <2>4, <2>5, <2>6, <2>7 DEF Next, ClientSteps
<1>3. QED
  BY SessionTypesCorrect, <1>1, <1>2, PTL DEF Spec

Exits == {"exit", "quit", "logout", "end"}

\* Each row of the table has one to three words, and those that say exit are one of
\* the words for it.
LEMMA TableRows ==
    \A r \in cmdTable :
        /\ Len(r.tokens) \in 1..3
        /\ r.cmd = "CmdExit" => \E w \in Exits : r.tokens = <<w>>
<1> SUFFICES ASSUME NEW r \in cmdTable
             PROVE  /\ Len(r.tokens) \in 1..3
                    /\ r.cmd = "CmdExit" => \E w \in Exits : r.tokens = <<w>>
  OBVIOUS
<1>1. CASE r \in [tokens : {<<"exit">>, <<"quit">>, <<"logout">>, <<"end">>}, cmd : {"CmdExit"}]
  <2>1. PICK w \in {"exit", "quit", "logout", "end"} : r.tokens = <<w>>
    BY <1>1
  <2>2. w \in Exits /\ Len(<<w>>) = 1
    BY DEF Exits
  <2>3. QED
    BY <2>1, <2>2
<1>2. CASE r \notin [tokens : {<<"exit">>, <<"quit">>, <<"logout">>, <<"end">>}, cmd : {"CmdExit"}]
  <2>1. r.cmd # "CmdExit"
    BY <1>2 DEF cmdTable
  <2>2. Len(r.tokens) \in 1..3
    <3>1. r.tokens \in {<<"terminal", "length", "0">>, <<"terminal", "pager", "0">>,
                         <<"enable">>, <<"show", "version">>, <<"show", "running-config">>,
                         <<"show", "startup-config">>, <<"show", "inventory">>}
      BY <1>2 DEF cmdTable
    <3>2. /\ Len(<<"terminal", "length", "0">>) = 3 /\ Len(<<"terminal", "pager", "0">>) = 3
          /\ Len(<<"enable">>) = 1 /\ Len(<<"show", "version">>) = 2
          /\ Len(<<"show", "running-config">>) = 2 /\ Len(<<"show", "startup-config">>) = 2
          /\ Len(<<"show", "inventory">>) = 2
      OBVIOUS
    <3>3. QED
      BY <3>1, <3>2
  <2>3. QED
    BY <2>1, <2>2
<1>3. QED
  BY <1>1, <1>2

\* A line that ResolveCommand takes for exit is a word for it, or a prefix of such
\* a word and of no other first word of a command.
LEMMA ResolvesToExit ==
    ASSUME NEW l \in Seq(DOMAIN Fits), ResolveCommand(l) = "CmdExit"
    PROVE  /\ Len(l) = 1
           /\ LET fits == Fits[l[1]] \intersect {r.tokens[1] : r \in cmdTable}
              IN  l[1] \in Exits \/ (fits # {} /\ fits \subseteq Exits)
<1> DEFINE exact == {r \in cmdTable : r.tokens = l}
           rows  == IF exact # {} THEN exact ELSE Matches(l)
           cmds  == {r.cmd : r \in rows}
<1>1. l # <<>> /\ rows # {}
  BY DEF ResolveCommand
<1>2. ~(\E c, d \in cmds : c # d) /\ "CmdExit" = CHOOSE c \in cmds : TRUE
  BY <1>1 DEF ResolveCommand
<1>3. cmds # {}
  BY <1>1
<1>4. \A r \in rows : r.cmd = "CmdExit"
  BY <1>2, <1>3
<1>5. rows \subseteq cmdTable
  BY DEF Matches
<1>6. CASE exact # {}
  <2>1. PICK r \in exact : r.cmd = "CmdExit"
    BY <1>4, <1>6
  <2>2. PICK w \in Exits : l = <<w>>
    BY <2>1, TableRows
  <2>3. QED
    BY <2>2
<1>7. CASE exact = {}
  <2>1. rows = Matches(l)
    BY <1>7
  <2>2. PICK r \in Matches(l) : r.cmd = "CmdExit"
    BY <1>1, <1>4, <2>1
  <2>3. PICK w \in Exits : r.tokens = <<w>>
    BY <2>2, TableRows DEF Matches
  <2>4. Len(l) = 1
    <3>1. Len(l) \in Nat /\ Len(l) # 0
      BY <1>1
    <3>2. Len(r.tokens) = 1
      BY <2>3
    <3>3. Len(l) <= 1
      BY <2>2, <3>2 DEF Matches
    <3>4. \A n \in Nat : n # 0 /\ n <= 1 => n = 1
      OBVIOUS
    <3>5. QED
      BY <3>1, <3>3, <3>4
  <2>5. w \in Fits[l[1]] \intersect {q.tokens[1] : q \in cmdTable}
    BY <2>2, <2>3, <2>4 DEF Matches
  <2>6. ASSUME NEW q \in cmdTable, q.tokens[1] \in Fits[l[1]]
        PROVE  q.tokens[1] \in Exits
    <3>1. q \in Matches(l)
      BY <2>4, <2>6, TableRows DEF Matches
    <3>2. q.cmd = "CmdExit"
      BY <1>4, <2>1, <3>1
    <3>3. QED
      BY <3>2, TableRows
  <2>7. QED
    BY <2>4, <2>5, <2>6
<1>8. QED
  BY <1>6, <1>7

\* A line that Serve takes for exit says so.
LEMMA ExitIsSaid ==
    ASSUME TypeOK, Command = "CmdExit"
    PROVE  SaysExit(line)
<1>1. device.driver \in {"cisco_ios", "junos"} /\ line \in Seq(DOMAIN Fits)
  BY ShellAssumption DEF TypeOK, ShellAssumption
<1>2. line \notin Files
  BY DEF Command
<1>3. CASE device.driver = "junos"
  <2>1. dispatchJunos(line) = "CmdExit"
    BY <1>2, <1>3 DEF Command
  <2>2. line \in {<<"exit">>, <<"quit">>}
    BY <2>1 DEF dispatchJunos
  <2>3. QED
    BY <1>3, <2>2 DEF SaysExit
<1>4. CASE device.driver = "cisco_ios"
  <2>1. ResolveCommand(line) = "CmdExit"
    BY <1>2, <1>4 DEF Command
  <2>2. QED
    BY <1>1, <1>4, <2>1, ResolvesToExit DEF SaysExit, Exits
<1>5. QED
  BY <1>1, <1>3, <1>4

\* A session that still runs has no label of its own yet: each step that sets one is
\* the last of Serve.
EndLabels == step # "returned" => outcome = "ok"

\* While the client takes answers a session ends because the client ended it, and its
\* label says how: a disconnect is an interrupt or an end of the input, an ok is an
\* exit outside the privileged mode (Serve, ResolveCommand, readLine).
THEOREM EndCorrect == Spec => []EndsForAReason
<1> DEFINE EInv == EndLabels /\ EndsForAReason
<1>1. Init => EInv
  BY DEF Init, EndLabels, EndsForAReason
<1>2. TypeOK /\ EInv /\ [Next]_vars => EInv'
  <2> SUFFICES ASSUME TypeOK, EndLabels, EndsForAReason, [Next]_vars
               PROVE  EndLabels' /\ EndsForAReason'
    OBVIOUS
  <2> DEFINE Left == wire = "up" /\ channel # "closed"
  <2>1. CASE UNCHANGED vars
    BY <2>1 DEF vars, modeVars, linkVars, EndLabels, EndsForAReason, SaysExit
  <2>2. ASSUME NEW key \in Keys, Interrupt(key)
        PROVE  EndLabels' /\ EndsForAReason'
    <3>1. step # "returned" /\ step' = "returned" /\ editor'.result = "error" /\ Set("disconnect")
      BY <2>2 DEF Interrupt, Type
    <3>2. outcome' = "disconnect"
      BY <3>1 DEF Set, EndLabels
    <3>3. QED
      BY <3>1, <3>2 DEF EndLabels, EndsForAReason
  <2>3. ASSUME NEW key \in Keys, TypeOn(key) \/ EnterCommand(key) \/ EnterPassword(key)
        PROVE  EndLabels' /\ EndsForAReason'
    <3>1. step' # "returned" /\ step # "returned" /\ outcome' = outcome
      BY <2>3 DEF TypeOn, EnterCommand, EnterPassword, Type
    <3>2. QED
      BY <3>1 DEF EndLabels, EndsForAReason
  <2>4. CASE ReadFails
    <3>1. /\ step # "returned" /\ step' = "returned" /\ Set("disconnect")
          /\ UNCHANGED <<wire, channel>> /\ InputEnds
      BY <2>4 DEF ReadFails, linkVars
    <3>2. outcome' = "disconnect"
      BY <3>1 DEF Set, EndLabels
    <3>3. Left' => channel' = "eof"
      BY <3>1 DEF InputEnds, Broken, TypeOK
    <3>4. QED
      BY <3>1, <3>2, <3>3 DEF EndLabels, EndsForAReason
  <2>5. CASE Emit
    <3>1. outcome = "ok" /\ outcome' = "ok"
      BY <2>5 DEF Emit, EndLabels
    <3>2. CASE Closes
      <4>1. Command = "CmdExit" /\ ~enableMode /\ ~enableMode' /\ UNCHANGED <<line, device>>
        BY <2>5, <3>2 DEF Emit, AfterEmit, Closes
      <4>2. SaysExit(line)
        BY <4>1, ExitIsSaid
      <4>3. QED
        BY <3>1, <4>1, <4>2 DEF EndLabels, EndsForAReason, SaysExit
    <3>3. CASE ~Closes
      BY <2>5, <3>1, <3>3 DEF Emit, AfterEmit, EndLabels, EndsForAReason
    <3>4. QED
      BY <3>2, <3>3
  <2>6. CASE EmitCut
    <3>1. step' = "returned" /\ wire' # "up"
      BY <2>6 DEF EmitCut, Broken
    <3>2. QED
      BY <3>1 DEF EndLabels, EndsForAReason
  <2>7. CASE RespondFails \/ WritePrompt
    <3>1. step # "returned" /\ outcome' = outcome /\ UNCHANGED <<wire, channel>>
      BY <2>7 DEF RespondFails, WritePrompt, linkVars
    <3>2. step' = "returned" => ~Left
      BY <2>7 DEF RespondFails, WritePrompt, OutputFails, Broken
    <3>3. QED
      BY <3>1, <3>2 DEF EndLabels, EndsForAReason
  <2>8. CASE HangEnds \/ HangCancelled \/ Delay \/ AskPassword \/ ClientSteps
    <3>1. step # "returned" /\ step' # "returned" /\ outcome' = outcome
      BY <2>8 DEF HangEnds, HangCancelled, Delay, AskPassword, ClientSteps, Disconnect, ClientEOF,
                  ClientClosesChannel
    <3>2. QED
      BY <3>1 DEF EndLabels, EndsForAReason
  <2>9. QED
    BY <2>1, <2>2, <2>3, <2>4, <2>5, <2>6, <2>7, <2>8 DEF Next, ClientSteps
<1>3. QED
  BY SessionTypesCorrect, <1>1, <1>2, PTL DEF Spec
-----------------------------------------------------------------------------
(* Abbreviations.                                                          *)

\* The rows of one command are one row, or words of one token.
LEMMA OneRowEach ==
    \A r, q \in cmdTable :
        /\ r.tokens = q.tokens => r.cmd = q.cmd
        /\ r.cmd = q.cmd => r = q \/ (Len(r.tokens) = 1 /\ Len(q.tokens) = 1)
<1> DEFINE Exit == [tokens : {<<"exit">>, <<"quit">>, <<"logout">>, <<"end">>}, cmd : {"CmdExit"}]
           Rest == cmdTable \ Exit
<1> SUFFICES ASSUME NEW r \in cmdTable, NEW q \in cmdTable
             PROVE  /\ r.tokens = q.tokens => r.cmd = q.cmd
                    /\ r.cmd = q.cmd => r = q \/ (Len(r.tokens) = 1 /\ Len(q.tokens) = 1)
  OBVIOUS
<1>1. \A s \in Exit : s.cmd = "CmdExit" /\ \E w \in Exits : s.tokens = <<w>>
  BY DEF Exits
<1>2. \A s \in Rest : s.cmd # "CmdExit" /\ ~(\E w \in Exits : s.tokens = <<w>>)
  <2> SUFFICES ASSUME NEW s \in Rest
               PROVE  s.cmd # "CmdExit" /\ ~(\E w \in Exits : s.tokens = <<w>>)
    OBVIOUS
  <2>1. s.cmd # "CmdExit"
    BY DEF cmdTable
  <2>2. s.tokens \in {<<"terminal", "length", "0">>, <<"terminal", "pager", "0">>, <<"enable">>,
                      <<"show", "version">>, <<"show", "running-config">>,
                      <<"show", "startup-config">>, <<"show", "inventory">>}
    BY DEF cmdTable
  <2>3. \A w \in Exits : s.tokens # <<w>>
    BY <2>2 DEF Exits
  <2>4. QED
    BY <2>1, <2>3
<1>3. CASE r \in Exit /\ q \in Exit
  BY <1>1, <1>3
<1>4. CASE r \in Rest /\ q \in Rest
  <2>1. r.tokens = q.tokens => r.cmd = q.cmd
    BY <1>4 DEF cmdTable
  <2>2. r.cmd = q.cmd => r = q
    BY <1>4 DEF cmdTable
  <2>3. QED
    BY <2>1, <2>2
<1>5. CASE r \in Exit /\ q \in Rest
  BY <1>1, <1>2, <1>5
<1>6. CASE r \in Rest /\ q \in Exit
  BY <1>1, <1>2, <1>6
<1>7. QED
  BY <1>3, <1>4, <1>5, <1>6

\* Whatever the words are prefixes of, a command spelled out is that command ("Exact-
\* canonical matches always win outright"); any other line is taken for a command only
\* if it abbreviates each word of it, and no row of another ("rather than guessing";
\* ResolveCommand).
THEOREM AbbreviationsAreUnique ==
    ASSUME NEW l \in Seq(DOMAIN Fits), l # <<>>
    PROVE  /\ \A r \in cmdTable : r.tokens = l => ResolveCommand(l) = r.cmd
           /\ \/ ResolveCommand(l) \in {"CmdUnknown", "CmdAmbiguous"}
              \/ \E r \in cmdTable : r.tokens = l
              \/ /\ \A r \in Matches(l) : r.cmd = ResolveCommand(l)
                 /\ \E r \in Matches(l) : Len(r.tokens) = Len(l)
<1> DEFINE exact == {r \in cmdTable : r.tokens = l}
           rows  == IF exact # {} THEN exact ELSE Matches(l)
           cmds  == {r.cmd : r \in rows}
<1>1. ASSUME NEW r \in cmdTable, r.tokens = l
      PROVE  ResolveCommand(l) = r.cmd
  <2>1. rows = exact /\ r \in rows
    BY <1>1
  <2>2. \A q \in rows : q.cmd = r.cmd /\ Len(q.tokens) = Len(l)
    BY <1>1, <2>1, OneRowEach
  <2>3. cmds = {r.cmd}
    BY <2>1, <2>2
  <2>4. rows # {} /\ ~(\E c, d \in cmds : c # d)
    BY <2>1, <2>3
  <2>5. ~(\E q \in rows : rows = {q} /\ Len(l) < Len(q.tokens))
    <3>1. \A n \in Nat : ~(n < n)
      OBVIOUS
    <3>2. Len(l) \in Nat
      OBVIOUS
    <3>3. QED
      BY <2>2, <3>1, <3>2
  <2>6. ResolveCommand(l) = CHOOSE c \in cmds : TRUE
    BY <2>4, <2>5 DEF ResolveCommand
  <2>7. QED
    BY <2>3, <2>6
<1>2. ASSUME ResolveCommand(l) \notin {"CmdUnknown", "CmdAmbiguous"}, exact = {}
      PROVE  /\ \A r \in Matches(l) : r.cmd = ResolveCommand(l)
             /\ \E r \in Matches(l) : Len(r.tokens) = Len(l)
  <2>1. rows = Matches(l)
    BY <1>2
  <2>2. /\ rows # {} /\ ~(\E c, d \in cmds : c # d)
        /\ ~(\E r \in rows : rows = {r} /\ Len(l) < Len(r.tokens))
        /\ ResolveCommand(l) = CHOOSE c \in cmds : TRUE
    BY <1>2 DEF ResolveCommand
  <2>3. \A r \in rows : r.cmd = ResolveCommand(l)
    BY <2>2
  <2>4. PICK r \in Matches(l) : r.cmd = ResolveCommand(l)
    BY <2>1, <2>2, <2>3
  <2>5. r \in cmdTable /\ Len(l) <= Len(r.tokens) /\ Len(l) \in Nat /\ Len(l) # 0
    BY <2>4 DEF Matches
  <2>6. CASE rows = {r}
    <3>1. ~(Len(l) < Len(r.tokens))
      BY <2>2, <2>6
    <3>2. Len(r.tokens) \in Nat
      BY <2>5, TableRows
    <3>3. Len(r.tokens) = Len(l)
      BY <2>5, <3>1, <3>2
    <3>4. QED
      BY <2>1, <2>3, <2>4, <3>3
  <2>7. CASE rows # {r}
    <3>1. PICK q \in Matches(l) : q # r
      BY <2>1, <2>4, <2>7
    <3>2. q \in cmdTable /\ q.cmd = r.cmd
      BY <2>1, <2>3, <2>4, <3>1 DEF Matches
    <3>3. Len(r.tokens) = 1
      BY <2>5, <3>1, <3>2, OneRowEach
    <3>4. Len(l) = 1
      <4>1. \A n \in Nat : n # 0 /\ n <= 1 => n = 1
        OBVIOUS
      <4>2. Len(l) <= 1
        BY <2>5, <3>3
      <4>3. QED
        BY <2>5, <4>1, <4>2
    <3>5. Len(r.tokens) = Len(l)
      BY <3>3, <3>4
    <3>6. QED
      BY <2>1, <2>3, <2>4, <3>5
  <2>8. QED
    BY <2>6, <2>7
<1>3. QED
  BY <1>1, <1>2
=============================================================================
