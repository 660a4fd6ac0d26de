------------------------------- MODULE Server -------------------------------
(***************************************************************************)
(* The life of an rcfg-sim process and of every connection it serves       *)
(* (internal/sshsrv/server.go): binding one listener per device, the       *)
(* accept loops, one handleConn goroutine per connection with its place in *)
(* the session semaphore, the SSH handshake, the session cap, one shell    *)
(* goroutine per channel, and Shutdown's drain.                            *)
(*                                                                         *)
(* The commands a shell answers are abstracted to what ends or delays a    *)
(* shell; they have a module of their own (Shell).  Time is abstracted: a  *)
(* timer that is armed may fire at any moment.                             *)
(***************************************************************************)
EXTENDS Integers, FiniteSets

CONSTANTS
    Conns,            \* the connections clients may open
    Devices,          \* the simulated devices, one TCP port each
    Chans,            \* the session channels a client may open on a connection
    Cap,              \* Config.MaxConcurrentSessions
    DeviceOf,         \* [Conns -> Devices], the port each connection dials
    Profile,          \* [Devices -> Profiles], Server.profiles by port
    DriverAuth,       \* [Devices -> BOOLEAN], Driver.RequiresSSHAuth
    SSHAuthMode,      \* Config.SSHAuthMode ("unset" is the empty string)
    AnyPassword,      \* Config.Password = ""
    Rolls,            \* outcomes of Faults.Roll: {FALSE} when no fault is enabled
    MaxAuthTries,     \* ssh.ServerConfig.MaxAuthTries (0 means 6)
    TransientErrors,  \* may Accept fail while the server is running?
    BindErrors        \* may binding a port fail?

Profiles == {"normal", "refuse", "hang", "disconnect"}

Outcomes == {"ok", "auth_fail", "disconnect", "error"}

ASSUME ServerAssumption ==
    /\ IsFiniteSet(Conns)
    /\ Cap \in Nat \ {0}
    /\ DeviceOf \in [Conns -> Devices]
    /\ Profile \in [Devices -> Profiles]
    /\ DriverAuth \in [Devices -> BOOLEAN]
    /\ SSHAuthMode \in {"unset", "password", "driver", "none"}
    /\ AnyPassword \in BOOLEAN
    /\ Rolls \subseteq BOOLEAN
    /\ MaxAuthTries \in Nat \ {0}

VARIABLES
    server,     \* how far Start or Shutdown has come
    listening,  \* the devices whose listener is open
    looping,    \* the devices whose accept goroutine is alive (acceptWG)
    mapped,     \* are the device configs mapped?
    phase,      \* where each connection's handleConn goroutine is
    wire,       \* each TCP connection: up, closed in order, or reset by us
    tries,      \* password attempts that failed on each connection
    authed,     \* the connections whose PasswordCallback returned nil
    sem,        \* how many places of Server.sem are taken
    active,     \* the rcfgsim_active_sessions gauge
    sessionWG,  \* the counter of Server.sessionWG
    outcome,    \* sessionOutcome.result of each connection
    recorded,   \* the label sessions_total was incremented with, or "none"
    shell,      \* the shell goroutine of each channel
    hung        \* the channels whose hang profile has struck already

procVars == <<server, listening, looping, mapped>>
connVars == <<phase, wire, tries, authed, sem, active, sessionWG, outcome, recorded>>
shellVars == <<shell, hung>>
vars == <<procVars, connVars, shellVars>>

-----------------------------------------------------------------------------
(* The phases of a connection. "new" .. "accepted" come before handleConn  *)
(* runs and "ended" after its goroutine has called sessionWG.Done.         *)

Phases == {"new", "dialed", "dropped", "accepted", "admitting", "handshake",
           "open", "unwinding", "released", "recorded", "ended"}

InFlightPhases == {"admitting", "handshake", "open", "unwinding", "released", "recorded"}
HoldingPhases  == {"handshake", "open", "unwinding"}
ClosedPhases   == {"unwinding", "released", "recorded", "ended"}

InFlight == {c \in Conns : phase[c] \in InFlightPhases}
Holders  == {c \in Conns : phase[c] \in HoldingPhases}
Open     == {c \in Conns : phase[c] = "open"}

ShellStates == {"none", "idle", "greeting", "reading", "hanging", "delaying",
                "emitting", "returned", "unserved"}
Serving == {"greeting", "reading", "hanging", "delaying", "emitting"}

Cancelled == server \in {"cancelled", "draining", "drained", "timed_out", "stopped"}

requireSSHAuth(d) ==
    CASE SSHAuthMode = "none"   -> FALSE
      [] SSHAuthMode = "driver" -> DriverAuth[d]
      [] OTHER                  -> TRUE

\* sessionOutcome.Set: the first result that is not "ok" sticks.
SetOutcome(c, r) ==
    outcome' = [outcome EXCEPT ![c] = IF @ = "ok" THEN r ELSE @]

Init ==
    /\ server = "starting"
    /\ listening = {}
    /\ looping = {}
    /\ mapped = TRUE
    /\ phase = [c \in Conns |-> "new"]
    /\ wire = [c \in Conns |-> "up"]
    /\ tries = [c \in Conns |-> 0]
    /\ authed = {}
    /\ sem = 0
    /\ active = 0
    /\ sessionWG = 0
    /\ outcome = [c \in Conns |-> "ok"]
    /\ recorded = [c \in Conns |-> "none"]
    /\ shell = [c \in Conns |-> [k \in Chans |-> "none"]]
    /\ hung = {}

-----------------------------------------------------------------------------
(* Start.                                                                  *)

\* One round of Start's loop: net.Listen succeeds, the accept goroutine starts.
Listen(d) ==
    /\ server = "starting"
    /\ d \notin listening
    /\ listening' = listening \union {d}
    /\ looping' = looping \union {d}
    /\ UNCHANGED <<server, mapped, connVars, shellVars>>

\* Closing a listener makes the kernel drop what waits in its backlog.
Dropped == [c \in Conns |-> IF phase[c] = "dialed" THEN "dropped" ELSE phase[c]]

closeListeners ==
    /\ listening' = {}
    /\ phase' = Dropped

\* Mutant of StartFails: the listeners bound so far are left open.
StartFails_LeavesListeners ==
    /\ BindErrors
    /\ server = "starting"
    /\ server' = "failed"
    /\ UNCHANGED <<listening, phase, looping, mapped, wire, tries, authed, sem, active,
                   sessionWG, outcome, recorded, shellVars>>

\* net.Listen, or the metrics listener after it, fails: Start gives up.
StartFails ==
    /\ BindErrors
    /\ server = "starting"
    /\ server' = "failed"
    /\ closeListeners
    /\ UNCHANGED <<looping, mapped, wire, tries, authed, sem, active, sessionWG,
                   outcome, recorded, shellVars>>

Ready ==
    /\ server = "starting"
    /\ listening = Devices
    /\ server' = "running"
    /\ UNCHANGED <<listening, looping, mapped, connVars, shellVars>>

-----------------------------------------------------------------------------
(* The accept loop of device d.                                            *)

\* The client's SYN is answered by the kernel while the listener is open.
Dial(c) ==
    /\ phase[c] = "new"
    /\ DeviceOf[c] \in listening
    /\ phase' = [phase EXCEPT ![c] = "dialed"]
    /\ UNCHANGED <<procVars, wire, tries, authed, sem, active, sessionWG, outcome,
                   recorded, shellVars>>

\* Is the loop of d between Accept's return and the start of handleConn?
Busy(d) == \E c \in Conns : phase[c] = "accepted" /\ DeviceOf[c] = d

AcceptReturns(c) ==
    /\ phase[c] = "dialed"
    /\ DeviceOf[c] \in looping
    /\ ~Busy(DeviceOf[c])
    /\ phase' = [phase EXCEPT ![c] = "accepted"]
    /\ UNCHANGED <<procVars, wire, tries, authed, sem, active, sessionWG, outcome,
                   recorded, shellVars>>

\* sessionWG.Add(1), then the handleConn goroutine starts.
Launch(c) ==
    /\ phase[c] = "accepted"
    /\ phase' = [phase EXCEPT ![c] = "admitting"]
    /\ sessionWG' = sessionWG + 1
    /\ UNCHANGED <<procVars, wire, tries, authed, sem, active, outcome, recorded,
                   shellVars>>

\* Accept returns an error: the loop ends, whatever the error was.
AcceptFails(d) ==
    /\ d \in looping
    /\ ~Busy(d)
    /\ d \notin listening \/ TransientErrors
    /\ looping' = looping \ {d}
    /\ UNCHANGED <<server, listening, mapped, connVars, shellVars>>

-----------------------------------------------------------------------------
(* handleConn up to the end of the handshake.                              *)

\* A refuse profile resets the connection before the semaphore is consulted.
Refuse(c) ==
    /\ phase[c] = "admitting"
    /\ Profile[DeviceOf[c]] = "refuse"
    /\ SetOutcome(c, "error")
    /\ wire' = [wire EXCEPT ![c] = "reset"]
    /\ phase' = [phase EXCEPT ![c] = "released"]
    /\ UNCHANGED <<procVars, tries, authed, sem, active, sessionWG, recorded, shellVars>>

\* Mutant of TakeSlot: one place too many.
TakeSlot_OffByOne(c) ==
    /\ phase[c] = "admitting"
    /\ Profile[DeviceOf[c]] # "refuse"
    /\ sem <= Cap
    /\ sem' = sem + 1
    /\ phase' = [phase EXCEPT ![c] = "handshake"]
    /\ UNCHANGED <<procVars, wire, tries, authed, active, sessionWG, outcome, recorded,
                   shellVars>>

\* The non-blocking send on Server.sem succeeds; the 30s deadline is armed.
TakeSlot(c) ==
    /\ phase[c] = "admitting"
    /\ Profile[DeviceOf[c]] # "refuse"
    /\ sem < Cap
    /\ sem' = sem + 1
    /\ phase' = [phase EXCEPT ![c] = "handshake"]
    /\ UNCHANGED <<procVars, wire, tries, authed, active, sessionWG, outcome, recorded,
                   shellVars>>

\* The semaphore is full: the connection is turned away.
CapHit(c) ==
    /\ phase[c] = "admitting"
    /\ Profile[DeviceOf[c]] # "refuse"
    /\ sem = Cap
    /\ SetOutcome(c, "error")
    /\ phase' = [phase EXCEPT ![c] = "released"]
    /\ UNCHANGED <<procVars, wire, tries, authed, sem, active, sessionWG, recorded,
                   shellVars>>

\* Mutant of TryPassword: the limit on the attempts is off by one.
TryPassword_OneMore(c, matches, roll) ==
    /\ phase[c] = "handshake"
    /\ requireSSHAuth(DeviceOf[c])
    /\ c \notin authed
    /\ tries[c] <= MaxAuthTries
    /\ roll \/ (~AnyPassword /\ ~matches)
    /\ tries' = [tries EXCEPT ![c] = @ + 1]
    /\ UNCHANGED <<procVars, phase, wire, authed, sem, active, sessionWG, outcome,
                   recorded, shellVars>>

\* One call of PasswordCallback: the auth_fail fault is rolled first.
TryPassword(c, matches, roll) ==
    /\ phase[c] = "handshake"
    /\ requireSSHAuth(DeviceOf[c])
    /\ c \notin authed
    /\ tries[c] < MaxAuthTries
    /\ \/ /\ ~roll /\ (AnyPassword \/ matches)
          /\ authed' = authed \union {c}
          /\ UNCHANGED tries
       \/ /\ roll \/ (~AnyPassword /\ ~matches)
          /\ tries' = [tries EXCEPT ![c] = @ + 1]
          /\ UNCHANGED authed
    /\ UNCHANGED <<procVars, phase, wire, sem, active, sessionWG, outcome, recorded,
                   shellVars>>

\* NewServerConn succeeds: the gauge goes up, the session cap is armed.
HandshakeOK(c) ==
    /\ phase[c] = "handshake"
    /\ requireSSHAuth(DeviceOf[c]) => c \in authed
    /\ phase' = [phase EXCEPT ![c] = "open"]
    /\ active' = active + 1
    /\ UNCHANGED <<procVars, wire, tries, authed, sem, sessionWG, outcome, recorded,
                   shellVars>>

\* The errors isAuthFailure recognises: the client was challenged, and ran out
\* of tries or left before one of them was accepted.
RejectedAuth(c) == requireSSHAuth(DeviceOf[c]) /\ c \notin authed

\* Mutants of HandshakeFails: the outcome is left at "ok"; every failure counts
\* as a rejected password.
HandshakeFails_Unlabelled(c, r) ==
    /\ phase[c] = "handshake"
    /\ wire' = [wire EXCEPT ![c] = IF @ = "up" THEN "closed" ELSE @]
    /\ phase' = [phase EXCEPT ![c] = "unwinding"]
    /\ UNCHANGED <<procVars, tries, authed, sem, active, sessionWG, outcome, recorded,
                   shellVars>>

HandshakeFails_AllAuth(c, r) ==
    /\ phase[c] = "handshake"
    /\ r = "auth_fail"
    /\ SetOutcome(c, r)
    /\ wire' = [wire EXCEPT ![c] = IF @ = "up" THEN "closed" ELSE @]
    /\ phase' = [phase EXCEPT ![c] = "unwinding"]
    /\ UNCHANGED <<procVars, tries, authed, sem, active, sessionWG, recorded, shellVars>>

\* NewServerConn fails: rejected, timed out at the deadline, or cut off. The text
\* of the error decides on the label: a client that is turned away for its last
\* password may also be counted as an error, if it never asked for the method none.
HandshakeFails(c, r) ==
    /\ phase[c] = "handshake"
    /\ \/ r = "auth_fail" /\ RejectedAuth(c) /\ (tries[c] = MaxAuthTries \/ wire[c] # "up")
       \/ r = "error"
    /\ SetOutcome(c, r)
    /\ wire' = [wire EXCEPT ![c] = IF @ = "up" THEN "closed" ELSE @]
    /\ phase' = [phase EXCEPT ![c] = "unwinding"]
    /\ UNCHANGED <<procVars, tries, authed, sem, active, sessionWG, recorded, shellVars>>

-----------------------------------------------------------------------------
(* The end of a connection: the client, the session cap, and handleConn's  *)
(* deferred calls in their order.                                          *)

\* The client drops the connection, or the network does.
ClientCloses(c) ==
    /\ phase[c] \in {"dialed", "accepted", "admitting", "handshake", "open"}
    /\ wire[c] = "up"
    /\ wire' = [wire EXCEPT ![c] = "closed"]
    /\ UNCHANGED <<procVars, phase, tries, authed, sem, active, sessionWG, outcome,
                   recorded, shellVars>>

\* Mutant of HardTimer: the cap is only armed once the client opens a channel.
HardTimer_NeedsChannel(c) ==
    /\ phase[c] = "open"
    /\ wire[c] = "up"
    /\ \E k \in Chans : shell[c][k] # "none"
    /\ wire' = [wire EXCEPT ![c] = "closed"]
    /\ UNCHANGED <<procVars, phase, tries, authed, sem, active, sessionWG, outcome,
                   recorded, shellVars>>

\* hardTimer: the session cap, plus the hang of a hang profile, is over.
HardTimer(c) ==
    /\ phase[c] = "open"
    /\ wire[c] = "up"
    /\ wire' = [wire EXCEPT ![c] = "closed"]
    /\ UNCHANGED <<procVars, phase, tries, authed, sem, active, sessionWG, outcome,
                   recorded, shellVars>>

\* Mutant of ChannelsEnd: the gauge is not lowered.
ChannelsEnd_NoDec(c) ==
    /\ phase[c] = "open"
    /\ wire[c] # "up"
    /\ phase' = [phase EXCEPT ![c] = "unwinding"]
    /\ UNCHANGED <<procVars, wire, tries, authed, sem, active, sessionWG, outcome,
                   recorded, shellVars>>

\* The loop over chans ends: connDone is closed, the timer stopped, the gauge
\* lowered and the SSH connection closed.
ChannelsEnd(c) ==
    /\ phase[c] = "open"
    /\ wire[c] # "up"
    /\ phase' = [phase EXCEPT ![c] = "unwinding"]
    /\ active' = active - 1
    /\ UNCHANGED <<procVars, wire, tries, authed, sem, sessionWG, outcome, recorded,
                   shellVars>>

ReleaseSlot(c) ==
    /\ phase[c] = "unwinding"
    /\ sem' = sem - 1
    /\ phase' = [phase EXCEPT ![c] = "released"]
    /\ UNCHANGED <<procVars, wire, tries, authed, active, sessionWG, outcome, recorded,
                   shellVars>>

\* The deferred closure: sessions_total is incremented with the outcome's label.
Record(c) ==
    /\ phase[c] = "released"
    /\ recorded' = [recorded EXCEPT ![c] = outcome[c]]
    /\ phase' = [phase EXCEPT ![c] = "recorded"]
    /\ UNCHANGED <<procVars, wire, tries, authed, sem, active, sessionWG, outcome,
                   shellVars>>

\* conn.Close, then sessionWG.Done in the goroutine that ran handleConn.
Finish(c) ==
    /\ phase[c] = "recorded"
    /\ wire' = [wire EXCEPT ![c] = IF @ = "up" THEN "closed" ELSE @]
    /\ phase' = [phase EXCEPT ![c] = "ended"]
    /\ sessionWG' = sessionWG - 1
    /\ UNCHANGED <<procVars, tries, authed, sem, active, outcome, recorded, shellVars>>

-----------------------------------------------------------------------------
(* Channels and their shells. handleSession and the goroutine that runs    *)
(* Serve are not counted in sessionWG, so they may outlive handleConn.     *)

setShell(c, k, s) == shell' = [shell EXCEPT ![c][k] = s]

OpenChannel(c, k) ==
    /\ phase[c] = "open"
    /\ wire[c] = "up"
    /\ shell[c][k] = "none"
    /\ setShell(c, k, "idle")
    /\ UNCHANGED <<procVars, connVars, hung>>

\* newCh.Accept fails because the connection broke meanwhile. Serve never runs.
AcceptChannelFails(c, k) ==
    /\ phase[c] = "open"
    /\ wire[c] # "up"
    /\ shell[c][k] = "none"
    /\ setShell(c, k, "unserved")
    /\ SetOutcome(c, "error")
    /\ UNCHANGED <<procVars, phase, wire, tries, authed, sem, active, sessionWG,
                   recorded, hung>>

\* A "shell" request, possibly one that was queued before the connection went.
StartShell(c, k) ==
    /\ shell[c][k] = "idle"
    /\ setShell(c, k, "greeting")
    /\ UNCHANGED <<procVars, connVars, hung>>

\* The channel closes, by itself or with the connection, and no shell was asked for.
RequestsEnd(c, k) ==
    /\ shell[c][k] = "idle"
    /\ setShell(c, k, "unserved")
    /\ UNCHANGED <<procVars, connVars, hung>>

\* Once the mux is closed no write succeeds; before that a write may go either way,
\* as the client may have closed just the channel or the whole connection.
MayWrite(c) == wire[c] = "up" \/ phase[c] = "open"

\* Serve greets, a TL1 driver indexes the config, and the prompt is written.
Greet(c, k) ==
    /\ shell[c][k] = "greeting"
    /\ MayWrite(c)
    /\ setShell(c, k, "reading")
    /\ UNCHANGED <<procVars, connVars, hung>>

\* readLine returns a command. The first one under a hang profile hangs.
ReadCommand(c, k) ==
    /\ shell[c][k] = "reading"
    /\ \/ /\ Profile[DeviceOf[c]] = "hang" /\ <<c, k>> \notin hung
          /\ setShell(c, k, "hanging")
          /\ hung' = hung \union {<<c, k>>}
       \/ /\ Profile[DeviceOf[c]] # "hang" \/ <<c, k>> \in hung
          /\ setShell(c, k, "delaying")
          /\ UNCHANGED hung
    /\ UNCHANGED <<procVars, connVars>>

\* readLine returns an error: end of input, Ctrl-C or Ctrl-D, a broken connection.
ReadFails(c, k) ==
    /\ shell[c][k] = "reading"
    /\ setShell(c, k, "returned")
    /\ SetOutcome(c, "disconnect")
    /\ UNCHANGED <<procVars, phase, wire, tries, authed, sem, active, sessionWG,
                   recorded, hung>>

\* The timer of the hang expires.
HangOver(c, k) ==
    /\ shell[c][k] = "hanging"
    /\ setShell(c, k, "delaying")
    /\ UNCHANGED <<procVars, connVars, hung>>

\* Mutant of HangAbandoned: a hang that does not listen to connDone.
HangAbandoned_NotTold(c, k) ==
    /\ shell[c][k] = "hanging"
    /\ phase[c] \in ClosedPhases
    /\ Cancelled
    /\ setShell(c, k, "delaying")
    /\ UNCHANGED <<procVars, connVars, hung>>

\* connDone ends the hang: the client is gone.
HangAbandoned(c, k) ==
    /\ shell[c][k] = "hanging"
    /\ phase[c] \in ClosedPhases
    /\ setShell(c, k, "delaying")
    /\ UNCHANGED <<procVars, connVars, hung>>

\* Mutant of HangCancelled: the hang ends, and the connection is kept.
HangCancelled_KeepsConnection(c, k) ==
    /\ shell[c][k] = "hanging"
    /\ Cancelled
    /\ setShell(c, k, "delaying")
    /\ UNCHANGED <<procVars, connVars, hung>>

\* serverDone ends the hang, which closes the connection.
HangCancelled(c, k) ==
    /\ shell[c][k] = "hanging"
    /\ Cancelled
    /\ wire' = [wire EXCEPT ![c] = IF @ = "up" THEN "closed" ELSE @]
    /\ setShell(c, k, "delaying")
    /\ UNCHANGED <<procVars, phase, tries, authed, sem, active, sessionWG, outcome,
                   recorded, hung>>

\* The response delay is slept to its end; nothing interrupts it.
DelayEnds(c, k) ==
    /\ shell[c][k] = "delaying"
    /\ setShell(c, k, "emitting")
    /\ UNCHANGED <<procVars, connVars, hung>>

\* The response and the next prompt are written.
EmitOK(c, k) ==
    /\ shell[c][k] = "emitting"
    /\ MayWrite(c)
    /\ setShell(c, k, "reading")
    /\ UNCHANGED <<procVars, connVars, hung>>

\* The command was exit: Serve returns and the channel is closed.
EmitExit(c, k) ==
    /\ shell[c][k] = "emitting"
    /\ setShell(c, k, "returned")
    /\ UNCHANGED <<procVars, connVars, hung>>

\* Mutant of EmitCut: the outcome is not set before the reset.
EmitCut_Unlabelled(c, k) ==
    /\ shell[c][k] = "emitting"
    /\ Profile[DeviceOf[c]] = "disconnect" \/ TRUE \in Rolls
    /\ wire' = [wire EXCEPT ![c] = IF @ = "up" THEN "reset" ELSE @]
    /\ setShell(c, k, "returned")
    /\ UNCHANGED <<procVars, phase, tries, authed, sem, active, sessionWG, outcome,
                   recorded, hung>>

\* disconnect_mid, or a disconnect profile: part of a config, then a reset. The
\* outcome is set before the connection is closed.
EmitCut(c, k) ==
    /\ shell[c][k] = "emitting"
    /\ Profile[DeviceOf[c]] = "disconnect" \/ TRUE \in Rolls
    /\ SetOutcome(c, "disconnect")
    /\ wire' = [wire EXCEPT ![c] = IF @ = "up" THEN "reset" ELSE @]
    /\ setShell(c, k, "returned")
    /\ UNCHANGED <<procVars, phase, tries, authed, sem, active, sessionWG, recorded,
                   hung>>

\* A write of the greeting, a response or a prompt fails: Serve just returns.
WriteFails(c, k) ==
    /\ shell[c][k] \in {"greeting", "emitting"}
    /\ setShell(c, k, "returned")
    /\ UNCHANGED <<procVars, connVars, hung>>

-----------------------------------------------------------------------------
(* Shutdown.                                                               *)

\* Mutant of BeginShutdown: the context is cancelled, the listeners stay open.
BeginShutdown_LeavesListeners ==
    /\ server = "running"
    /\ server' = "cancelled"
    /\ UNCHANGED <<listening, phase, looping, mapped, wire, tries, authed, sem, active,
                   sessionWG, outcome, recorded, shellVars>>

\* The context is cancelled and the listeners are closed.
BeginShutdown ==
    /\ server = "running"
    /\ server' = "cancelled"
    /\ closeListeners
    /\ UNCHANGED <<looping, mapped, wire, tries, authed, sem, active, sessionWG,
                   outcome, recorded, shellVars>>

\* Mutant of AcceptLoopsGone: the accept loops are not waited for.
AcceptLoopsGone_NoWait ==
    /\ server = "cancelled"
    /\ server' = "draining"
    /\ UNCHANGED <<listening, looping, mapped, connVars, shellVars>>

\* acceptWG.Wait returns; sessionWG.Wait starts, and with it the timeout.
AcceptLoopsGone ==
    /\ server = "cancelled"
    /\ looping = {}
    /\ server' = "draining"
    /\ UNCHANGED <<listening, looping, mapped, connVars, shellVars>>

Drained ==
    /\ server = "draining"
    /\ sessionWG = 0
    /\ server' = "drained"
    /\ UNCHANGED <<listening, looping, mapped, connVars, shellVars>>

DrainTimeout ==
    /\ server = "draining"
    /\ server' = "timed_out"
    /\ UNCHANGED <<listening, looping, mapped, connVars, shellVars>>

\* The metrics server is stopped and the configs are unmapped, drained or not.
UnloadAll ==
    /\ server \in {"drained", "timed_out"}
    /\ mapped' = FALSE
    /\ server' = "stopped"
    /\ UNCHANGED <<listening, looping, connVars, shellVars>>

-----------------------------------------------------------------------------
(* The specification. Clients may do anything at any time; the program's   *)
(* own goroutines keep running, and all of its timers but a hang's expire. *)

Startup == StartFails \/ Ready \/ \E d \in Devices : Listen(d)

AcceptLoop == (\E d \in Devices : AcceptFails(d)) \/ \E c \in Conns : AcceptReturns(c) \/ Launch(c)

Admit(c) == Refuse(c) \/ TakeSlot(c) \/ CapHit(c)

Handshake(c) ==
    \/ \E matches \in BOOLEAN, roll \in Rolls : TryPassword(c, matches, roll)
    \/ HandshakeOK(c)
    \/ \E r \in {"auth_fail", "error"} : HandshakeFails(c, r)

Unwind(c) == ChannelsEnd(c) \/ ReleaseSlot(c) \/ Record(c) \/ Finish(c)

Connection(c) == Admit(c) \/ Handshake(c) \/ Unwind(c)

Client(c) == Dial(c) \/ ClientCloses(c)

Emit(c, k) == EmitOK(c, k) \/ EmitExit(c, k) \/ EmitCut(c, k) \/ WriteFails(c, k)

Channel(c, k) ==
    \/ OpenChannel(c, k) \/ AcceptChannelFails(c, k)
    \/ StartShell(c, k) \/ RequestsEnd(c, k)
    \/ Greet(c, k) \/ ReadCommand(c, k) \/ ReadFails(c, k)
    \/ HangAbandoned(c, k) \/ HangCancelled(c, k) \/ DelayEnds(c, k) \/ Emit(c, k)

Shutdown == BeginShutdown \/ AcceptLoopsGone \/ Drained \/ UnloadAll

\* The long timers: the session cap, the drain's timeout and the hang.
LongTimers ==
    \/ DrainTimeout
    \/ \E c \in Conns : HardTimer(c) \/ \E k \in Chans : HangOver(c, k)

\* What happens before any long timer is over.
Promptly ==
    \/ Startup
    \/ AcceptLoop
    \/ \E c \in Conns : Client(c) \/ Connection(c)
    \/ \E c \in Conns, k \in Chans : Channel(c, k)
    \/ Shutdown

Next == Promptly \/ LongTimers

Spec == Init /\ [][Next]_vars

\* The scheduler runs every goroutine that can go on; the listeners that were
\* closed fail their Accept; the handshake deadline expires and a sleep ends. A
\* client that is there need neither send nor read nor close a channel, so reads
\* and writes are only sure to come back once the connection is broken.
Running ==
    /\ \A d \in Devices : WF_vars(d \notin listening /\ AcceptFails(d))
    /\ \A c \in Conns :
        /\ WF_vars(AcceptReturns(c))
        /\ WF_vars(Launch(c))
        /\ WF_vars(Admit(c))
        /\ WF_vars(\E r \in {"auth_fail", "error"} : HandshakeFails(c, r))
        /\ WF_vars(Unwind(c))
        /\ \A k \in Chans :
            /\ WF_vars(wire[c] # "up" /\ RequestsEnd(c, k))
            /\ WF_vars(wire[c] # "up" /\ (Greet(c, k) \/ WriteFails(c, k)))
            /\ WF_vars(wire[c] # "up" /\ ReadFails(c, k))
            /\ WF_vars(HangAbandoned(c, k))
            /\ WF_vars(HangCancelled(c, k))
            /\ WF_vars(DelayEnds(c, k))
            /\ WF_vars(wire[c] # "up" /\ Emit(c, k))
    /\ WF_vars(AcceptLoopsGone)
    /\ WF_vars(Drained)
    /\ WF_vars(UnloadAll)

\* The session cap and the drain's timeout are over in the end. That of a hang,
\* which the operator may set to hours, is not relied on.
TimersExpire ==
    /\ \A c \in Conns : WF_vars(HardTimer(c))
    /\ WF_vars(Drained \/ DrainTimeout)

FairSpec == Spec /\ Running /\ TimersExpire

\* The same program, in the time before any long timer is over.
PromptSpec == Init /\ [][Promptly]_vars /\ Running

-----------------------------------------------------------------------------
(* Properties.                                                             *)

TypeOK ==
    /\ server \in {"starting", "failed", "running", "cancelled", "draining", "drained",
                   "timed_out", "stopped"}
    /\ listening \subseteq Devices
    /\ looping \subseteq Devices
    /\ mapped \in BOOLEAN
    /\ phase \in [Conns -> Phases]
    /\ wire \in [Conns -> {"up", "closed", "reset"}]
    /\ tries \in [Conns -> 0..MaxAuthTries]
    /\ authed \subseteq Conns
    /\ sem \in Int
    /\ active \in Int
    /\ sessionWG \in Int
    /\ outcome \in [Conns -> Outcomes]
    /\ recorded \in [Conns -> Outcomes \union {"none"}]
    /\ shell \in [Conns -> [Chans -> ShellStates]]
    /\ hung \subseteq Conns \X Chans

\* The semaphore counts exactly the connections between its send and the
\* deferred receive, so no early return leaks a place or gives back one that
\* was not taken, and never more than Cap of them are inside (handleConn).
SlotsAccounted ==
    /\ sem = Cardinality(Holders)
    /\ sem <= Cap

\* The active_sessions gauge counts the authenticated connections, and
\* sessionWG every handleConn goroutine there is: each Inc has its Dec and each
\* Add its Done, whichever way the goroutine leaves (handleConn, accept).
CountersBalanced ==
    /\ active = Cardinality(Open)
    /\ sessionWG = Cardinality(InFlight)

\* sessionWG.Wait is never overtaken by an Add: from the moment Shutdown waits
\* for the sessions no accept loop is left that could start one, and once it
\* says that all of them drained no handleConn is running (Shutdown, accept).
DrainIsFinal ==
    /\ server \in {"draining", "drained", "timed_out", "stopped"} =>
          /\ looping = {}
          /\ \A c \in Conns : phase[c] \notin {"dialed", "accepted"}
    /\ server = "drained" => InFlight = {}

\* A connection the server itself resets, under a refuse profile or in the
\* middle of a config, is never counted as a success (handleConn, emit).
ResetIsNeverOk ==
    \A c \in Conns : wire[c] = "reset" => recorded[c] # "ok"

\* A label of auth_fail means that the client was challenged and rejected; one
\* of disconnect that Serve ran and has returned (handleConn, Serve, emit).
LabelsMeanWhatTheySay ==
    \A c \in Conns :
        /\ recorded[c] = "auth_fail" => requireSSHAuth(DeviceOf[c]) /\ c \notin authed
        /\ recorded[c] = "disconnect" => \E k \in Chans : shell[c][k] = "returned"

\* The connections implement the abstract pool of session slots.
StageOf(p) ==
    CASE p = "handshake" -> "challenged"
      [] p = "open"      -> "served"
      [] p = "unwinding" -> "leaving"
      [] p \in {"released", "recorded", "ended"} -> "gone"
      [] OTHER           -> "outside"

Slots == INSTANCE SessionSlots WITH
    stage <- [c \in Conns |-> StageOf(phase[c])],
    blamed <- {c \in Conns : outcome[c] # "ok"},
    counted <- [c \in Conns |-> CASE recorded[c] = "none" -> "no"
                                  [] recorded[c] = "ok"   -> "ok"
                                  [] OTHER                -> "failed"]

ImplementsSlots == Slots!SlotSpec

\* Every connection that was accepted is over in the end and has left its place:
\* the handshake deadline and hardTimer see to it that no client can keep a
\* place for good, whatever it does or does not do (handleConn).
EveryConnectionEnds ==
    \A c \in Conns : phase[c] = "accepted" ~> phase[c] = "ended"

\* "Every port responds to SSH handshake" and "the server must service all" clients
\* (README, FEATURE-TESTS): one that got through to a listener's backlog is accepted,
\* or dropped when Shutdown or a failing Start closes the listener (accept, Start).
BacklogIsServed ==
    \A c \in Conns : phase[c] = "dialed" ~> phase[c] # "dialed"

\* Shutdown returns, with sessions open, hung or asleep (Shutdown, hang).
ShutdownReturns == server = "cancelled" ~> server = "stopped"

\* No shell goroutine is leaked: it returns once its connection is over, from a delay,
\* a read, a write or a hang, however long ("so an abandoned session does not hold a
\* goroutine for the full hang"; Serve, hang, applyResponseDelay).
ShellsReturn ==
    \A c \in Conns, k \in Chans :
        phase[c] = "ended" ~> shell[c][k] \in {"none", "unserved", "returned"}

\* Once Shutdown has begun a session that hangs is over, its slot free and its label
\* counted, before the timer of the hang, the session cap or the drain's timeout
\* ("on server shutdown, which closes the connection so Shutdown is not held up";
\* hang).
HangsDoNotHoldShutdown ==
    \A c \in Conns, k \in Chans :
        Cancelled /\ shell[c][k] = "hanging" ~> phase[c] = "ended"

\* Once Start has failed its accept loops end, as the listeners are closed (Start).
FailedStartStops == server = "failed" ~> looping = {}

\* What CONTRIBUTING.md asks of every goroutine: Shutdown accounts for it, so
\* none of them is running when "all sessions drained cleanly" is logged.
DrainedMeansNoShell ==
    server = "drained" => \A c \in Conns, k \in Chans : shell[c][k] \notin Serving

\* What the Serve loops say of a read error without an exit command: it is
\* classified as a disconnect, so sessions_total must not count it as ok.
LostSessionsAreCounted ==
    \A c \in Conns : outcome[c] = "disconnect" => recorded[c] # "ok"

=============================================================================
