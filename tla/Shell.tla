------------------------------- MODULE Shell -------------------------------
(***************************************************************************)
(* One interactive CLI session: the Serve loops of the cisco_ios and junos *)
(* drivers (internal/sshsrv/driver_cisco.go, driver_junos.go), with the    *)
(* response delay, the hang, the command files and the fault injection all *)
(* drivers share (driver.go, cmdfiles.go). The client types one byte at a  *)
(* time; bytes it types while the shell is busy wait in the channel, so it *)
(* does not matter when they were typed, only in which order.              *)
(*                                                                         *)
(* What a client types are words rather than letters: each stands for its  *)
(* bytes and the space before the next word. The config is not empty.      *)
(***************************************************************************)
EXTENDS LineEditor, Commands

CONSTANTS
    Devices,   \* the devices a session may be opened on: [driver, profile]
    Words,     \* Words[driver], what clients type on a device of that driver
    Secret,    \* the enable password
    Files,     \* the lines there is a command file for
    Faults,    \* the fault types a roll may inject
    MaxKeys    \* bound on the bytes a client types

FaultTypes == {"slow_response", "disconnect_mid", "malformed"}

ASSUME ShellAssumption ==
    /\ Printable = DOMAIN Fits /\ Printable \intersect Control = {}
    /\ Devices \subseteq [driver : {"cisco_ios", "junos"},
                          profile : {"normal", "hang", "latency", "disconnect"}]
    /\ Words \in [{"cisco_ios", "junos"} -> SUBSET Printable]
    /\ Secret \in Seq(Printable) /\ Files \subseteq Seq(Printable)
    /\ Faults \subseteq FaultTypes
    /\ MaxKeys \in Nat

VARIABLES
    device,      \* the device, with its driver and its behaviour profile
    wire,        \* the connection: up, closed in order, or reset by us
    channel,     \* what the client did with its channel: open, eof or closed
    step,        \* where Serve is
    editor,      \* the line being read
    line,        \* the command line last read
    enableMode,  \* State.EnableMode
    hung,        \* sessionCtx.hung
    outcome,     \* sessionOutcome.result
    prompts,     \* the command prompts written
    observed,    \* the observations of command_duration_seconds
    injected,    \* faults_injected_total by type
    hangs,       \* how often the session hung
    keys         \* the bytes typed

modeVars == <<device, line, enableMode, hung, hangs>>
metricVars == <<prompts, observed, injected>>
linkVars == <<wire, channel>>
vars == <<modeVars, keys, metricVars, linkVars, step, editor, outcome>>

Steps == {"prompt", "line", "hang", "delay", "respond", "password", "returned"}

Init ==
    /\ device \in Devices
    /\ wire = "up"
    /\ channel = "open"
    /\ step = "prompt"
    /\ editor = NewLine
    /\ line = <<>>
    /\ enableMode = FALSE
    /\ hung = FALSE
    /\ outcome = "ok"
    /\ prompts = 0
    /\ observed = 0
    /\ injected = [t \in FaultTypes |-> 0]
    /\ hangs = 0
    /\ keys = 0

Broken == wire # "up"

\* What the client typed before it ended its channel or connection may still be
\* read; then readLine returns an error. An EOF leaves the other direction open:
\* only on a channel that is closed, or a broken connection, do writes fail.
InputEnds == channel # "open" \/ Broken
OutputFails == channel = "closed" \/ Broken

Set(r) == outcome' = IF outcome = "ok" THEN r ELSE outcome

-----------------------------------------------------------------------------
(* What a line asks for: a command file comes before the driver's own      *)
(* commands; exit leaves the privileged mode of IOS first.                 *)

Command ==
    CASE line \in Files -> "file"
      [] line \notin Files /\ device.driver = "cisco_ios" -> ResolveCommand(line)
      [] line \notin Files /\ device.driver = "junos" -> dispatchJunos(line)

RequestsPassword == Command = "CmdEnable" /\ ~enableMode
LeavesEnable == Command = "CmdExit" /\ enableMode
Closes == Command = "CmdExit" /\ ~enableMode

\* The commands whose response is the device's config.
SendsConfig ==
    Command \in {"CmdShowRunningConfig", "CmdShowStartupConfig", "CmdJunosShowConfiguration"}

\* The commands whose response has nothing to write.
Silent ==
    \/ Command \in {"CmdEmpty", "CmdExit", "CmdTerminalLength", "CmdTerminalPager",
                    "CmdJunosSetCli"}
    \/ Command = "CmdEnable" /\ enableMode

Fires(t) == t \in Faults

Inject(t) == injected' = [injected EXCEPT ![t] = @ + 1]

-----------------------------------------------------------------------------
(* Reading.                                                                *)

\* The prompt is written; a session that can no longer write may end here.
WritePrompt ==
    /\ step = "prompt"
    /\ \/ step' = "line" /\ prompts' = prompts + 1 /\ editor' = NewLine
       \/ OutputFails /\ step' = "returned" /\ UNCHANGED <<prompts, editor>>
    /\ UNCHANGED <<modeVars, keys, observed, injected, linkVars, outcome>>

\* readLine takes one more byte, without returning yet.
Type(key) ==
    /\ step \in {"line", "password"}
    /\ keys < MaxKeys
    /\ key \in Words[device.driver] \union Control
    /\ keys' = keys + 1
    /\ editor' = Press(editor, key, step = "line")

TypeOn(key) ==
    /\ Type(key)
    /\ editor'.result = "reading"
    /\ UNCHANGED <<modeVars, metricVars, linkVars, step, outcome>>

\* Ctrl-C or Ctrl-D ends the session.
Interrupt(key) ==
    /\ Type(key)
    /\ editor'.result = "error"
    /\ step' = "returned"
    /\ Set("disconnect")
    /\ UNCHANGED <<modeVars, metricVars, linkVars>>

\* The input ended while a line or a password was read.
ReadFails ==
    /\ step \in {"line", "password"}
    /\ InputEnds
    /\ step' = "returned"
    /\ Set("disconnect")
    /\ UNCHANGED <<modeVars, keys, metricVars, linkVars, editor>>

\* Mutant of EnterCommand: a hang profile hangs on every command.
EnterCommand_HangsAgain(key) ==
    /\ step = "line"
    /\ Type(key)
    /\ editor'.result = "line"
    /\ line' = editor.buf
    /\ \/ device.profile = "hang" /\ step' = "hang" /\ hung' = TRUE /\ hangs' = hangs + 1
       \/ device.profile # "hang" /\ step' = "delay" /\ UNCHANGED <<hung, hangs>>
    /\ UNCHANGED <<device, enableMode, metricVars, linkVars, outcome>>

\* A command line is read: the first one under a hang profile hangs.
EnterCommand(key) ==
    /\ step = "line"
    /\ Type(key)
    /\ editor'.result = "line"
    /\ line' = editor.buf
    /\ LET hangsNow == device.profile = "hang" /\ ~hung
       IN  \/ hangsNow /\ step' = "hang" /\ hung' = TRUE /\ hangs' = hangs + 1
           \/ ~hangsNow /\ step' = "delay" /\ UNCHANGED <<hung, hangs>>
    /\ UNCHANGED <<device, enableMode, metricVars, linkVars, outcome>>

\* The password that enable asked for is read; the command is observed, wrong
\* or right. The write of "% Access denied" is not checked.
EnterPassword(key) ==
    /\ step = "password"
    /\ Type(key)
    /\ editor'.result = "line"
    /\ enableMode' = (editor.buf = Secret)
    /\ observed' = observed + 1
    /\ step' = "prompt"
    /\ UNCHANGED <<device, line, hung, hangs, prompts, injected, linkVars, outcome>>

-----------------------------------------------------------------------------
(* Answering.                                                              *)

\* The hang is over, or connDone ended it.
HangEnds ==
    /\ step = "hang"
    /\ step' = "delay"
    /\ UNCHANGED <<modeVars, keys, metricVars, linkVars, editor, outcome>>

\* serverDone ended it: the connection is closed, so the answer goes nowhere.
HangCancelled ==
    /\ step = "hang"
    /\ wire' = IF Broken THEN wire ELSE "closed"
    /\ step' = "delay"
    /\ UNCHANGED <<channel, modeVars, keys, metricVars, editor, outcome>>

\* applyResponseDelay: the jitter, and the slow_response fault on top of it.
Delay ==
    /\ step = "delay"
    /\ step' = "respond"
    /\ \/ UNCHANGED injected
       \/ Fires("slow_response") /\ Inject("slow_response")
    /\ UNCHANGED <<modeVars, keys, prompts, observed, linkVars, editor, outcome>>

AskPassword ==
    /\ step = "respond"
    /\ RequestsPassword
    /\ step' = "password"
    /\ editor' = NewLine
    /\ UNCHANGED <<modeVars, keys, metricVars, linkVars, outcome>>

\* Mutant of AfterEmit: exit closes the session in the privileged mode, too.
AfterEmit_AlwaysCloses ==
    /\ step' = IF Command = "CmdExit" THEN "returned" ELSE "prompt"
    /\ UNCHANGED enableMode

\* What Serve does once emit has written the response.
AfterEmit ==
    /\ step' = IF Closes THEN "returned" ELSE "prompt"
    /\ enableMode' = (enableMode /\ ~LeavesEnable)

\* Mutant of Emit: the command is not observed when its output is empty.
Emit_SkipsSilent ==
    /\ step = "respond"
    /\ ~RequestsPassword
    /\ SendsConfig => device.profile # "disconnect"
    /\ observed' = IF Command = "CmdExit" THEN observed ELSE observed + 1
    /\ \/ UNCHANGED injected
       \/ SendsConfig /\ Fires("malformed") /\ Inject("malformed")
    /\ AfterEmit
    /\ UNCHANGED <<device, line, hung, hangs, keys, prompts, linkVars, editor, outcome>>

\* emit writes all of the response, a config as it is or malformed.
Emit ==
    /\ step = "respond"
    /\ ~RequestsPassword
    /\ SendsConfig => device.profile # "disconnect"
    /\ observed' = observed + 1
    /\ \/ UNCHANGED injected
       \/ SendsConfig /\ Fires("malformed") /\ Inject("malformed")
    /\ AfterEmit
    /\ UNCHANGED <<device, line, hung, hangs, keys, prompts, linkVars, editor, outcome>>

\* Mutants of EmitCut: the wrong label; Serve goes on after the reset.
EmitCut_AsError ==
    /\ step = "respond"
    /\ SendsConfig
    /\ device.profile = "disconnect" \/ Fires("disconnect_mid")
    /\ Inject("disconnect_mid")
    /\ observed' = observed + 1
    /\ Set("error")
    /\ wire' = IF Broken THEN wire ELSE "reset"
    /\ step' = "returned"
    /\ UNCHANGED <<channel, modeVars, keys, prompts, editor>>

EmitCut_GoesOn ==
    /\ step = "respond"
    /\ SendsConfig
    /\ device.profile = "disconnect" \/ Fires("disconnect_mid")
    /\ Inject("disconnect_mid")
    /\ observed' = observed + 1
    /\ Set("disconnect")
    /\ wire' = IF Broken THEN wire ELSE "reset"
    /\ step' = "prompt"
    /\ UNCHANGED <<channel, modeVars, keys, prompts, editor>>

\* The disconnect profile or the fault: part of the config, then a reset.
EmitCut ==
    /\ step = "respond"
    /\ SendsConfig
    /\ device.profile = "disconnect" \/ Fires("disconnect_mid")
    /\ Inject("disconnect_mid")
    /\ observed' = observed + 1
    /\ Set("disconnect")
    /\ wire' = IF Broken THEN wire ELSE "reset"
    /\ step' = "returned"
    /\ UNCHANGED <<channel, modeVars, keys, prompts, editor>>

\* A write of the response or of "Password: " fails: Serve returns and leaves the
\* outcome as it is. A malformed config may have been counted by then.
RespondFails ==
    /\ step = "respond"
    /\ OutputFails
    /\ ~Silent
    /\ SendsConfig => device.profile # "disconnect"
    /\ \/ UNCHANGED injected
       \/ SendsConfig /\ Fires("malformed") /\ Inject("malformed")
    /\ step' = "returned"
    /\ UNCHANGED <<modeVars, keys, prompts, observed, linkVars, editor, outcome>>

\* The client or the session cap closes the connection, which is all the same once
\* Serve has returned.
Disconnect ==
    /\ wire = "up" /\ step # "returned"
    /\ wire' = "closed"
    /\ UNCHANGED <<channel, modeVars, keys, metricVars, step, editor, outcome>>

\* The client ends its input, or closes its channel, and keeps the connection.
ClientEOF ==
    /\ wire = "up" /\ channel = "open" /\ step # "returned"
    /\ channel' = "eof"
    /\ UNCHANGED <<wire, modeVars, keys, metricVars, step, editor, outcome>>

ClientClosesChannel ==
    /\ wire = "up" /\ channel # "closed" /\ step # "returned"
    /\ channel' = "closed"
    /\ UNCHANGED <<wire, modeVars, keys, metricVars, step, editor, outcome>>

Next ==
    \/ WritePrompt
    \/ \E key \in Keys :
          TypeOn(key) \/ Interrupt(key) \/ EnterCommand(key) \/ EnterPassword(key)
    \/ ReadFails
    \/ HangEnds \/ HangCancelled \/ Delay
    \/ AskPassword \/ Emit \/ EmitCut \/ RespondFails
    \/ Disconnect \/ ClientEOF \/ ClientClosesChannel

Spec == Init /\ [][Next]_vars

-----------------------------------------------------------------------------
(* Properties.                                                             *)

TypeOK ==
    /\ device \in Devices
    /\ wire \in {"up", "closed", "reset"}
    /\ channel \in {"open", "eof", "closed"}
    /\ step \in Steps
    /\ editor \in Editors
    /\ line \in Seq(Printable)
    /\ enableMode \in BOOLEAN
    /\ hung \in BOOLEAN
    /\ outcome \in {"ok", "disconnect"}
    /\ prompts \in Nat
    /\ observed \in Nat
    /\ injected \in [FaultTypes -> Nat]
    /\ hangs \in Nat
    /\ keys \in 0..MaxKeys

\* What the client sees of the line it types is what the shell will run, after
\* any editing, and nothing is seen of a password (readLine).
EchoIsTheLine ==
    /\ step = "line" => editor.screen = editor.buf
    /\ step = "password" => editor.screen = <<>>

\* Every command that is followed by a prompt was observed once, on each of the
\* paths through Serve: command files, enable with a right or a wrong password,
\* emit, silent commands (Serve, serveCommandFile, emit).
EveryCommandIsObserved ==
    /\ step = "prompt" => observed = prompts
    /\ step \in Steps \ {"prompt", "returned"} => prompts = observed + 1

\* The disconnect_mid fault strikes once at most and ends the session, which then
\* counts as a disconnect; nothing else resets the connection (emit).
CutIsFinal ==
    /\ injected["disconnect_mid"] <= 1
    /\ wire = "reset" => injected["disconnect_mid"] = 1
    /\ injected["disconnect_mid"] = 1 => step = "returned" /\ outcome = "disconnect"

\* A hang profile stalls the first command of the session and no other, and no
\* other profile stalls one (applyResponseDelay).
HangsOnTheFirstCommand ==
    /\ hangs <= 1
    /\ hangs = 1 => device.profile = "hang"
    /\ device.profile = "hang" /\ (observed > 0 \/ step \in {"delay", "respond", "password"}) =>
          hangs = 1

\* The one word of a line says exit: it is one of the words for it, or on IOS an
\* abbreviation that no other command begins with ("l" is: no command begins with
\* "length").
SaysExit(l) ==
    /\ Len(l) = 1
    /\ CASE device.driver = "junos"     -> l[1] \in {"exit", "quit"}
         [] device.driver = "cisco_ios" ->
               LET exits == {"exit", "quit", "logout", "end"}
                   fits  == Fits[l[1]] \intersect {r.tokens[1] : r \in cmdTable}
               IN  l[1] \in exits \/ (fits # {} /\ fits \subseteq exits)

\* While the client takes answers, a session ends because the client ended it, and
\* its label says how: as a disconnect it interrupted the session or ended its input
\* without the last exit ("the session will close via EOF and be classified as
\* disconnect rather than ok", README), and as ok it said exit outside the
\* privileged mode, in full or in an abbreviation that cannot mean anything else
\* (Serve, ResolveCommand: "en" is short for enable and for end, and is neither).
EndsForAReason ==
    step = "returned" /\ wire = "up" /\ channel # "closed" =>
        IF outcome = "disconnect"
        THEN editor.result = "error" \/ channel = "eof"
        ELSE SaysExit(line) /\ ~enableMode

=============================================================================
