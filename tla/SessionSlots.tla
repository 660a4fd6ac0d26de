---------------------------- MODULE SessionSlots ----------------------------
(***************************************************************************)
(* What the server promises its clients and its operator, with none of its *)
(* mechanism: at most Cap connections are let in at a time, each of them   *)
(* gives its place back once, and each is counted once, as a success only  *)
(* if it got through the handshake and nothing was blamed on it by then.   *)
(***************************************************************************)
EXTENDS Integers, FiniteSets

CONSTANTS Conns, Cap

VARIABLES
    stage,    \* how far each connection has come
    blamed,   \* the connections something went wrong with
    counted   \* how each connection was counted

slotVars == <<stage, blamed, counted>>

Stages == {"outside", "challenged", "served", "leaving", "gone"}

Inside == {c \in Conns : stage[c] \in {"challenged", "served", "leaving"}}

SlotInit ==
    /\ stage = [c \in Conns |-> "outside"]
    /\ blamed = {}
    /\ counted = [c \in Conns |-> "no"]

LetIn(c) ==
    /\ stage[c] = "outside"
    /\ Cardinality(Inside) < Cap
    /\ stage' = [stage EXCEPT ![c] = "challenged"]
    /\ UNCHANGED <<blamed, counted>>

\* Turned away at the door, or refused by the device's profile.
TurnAway(c) ==
    /\ stage[c] = "outside"
    /\ stage' = [stage EXCEPT ![c] = "gone"]
    /\ blamed' = blamed \union {c}
    /\ UNCHANGED counted

Serve(c) ==
    /\ stage[c] = "challenged"
    /\ stage' = [stage EXCEPT ![c] = "served"]
    /\ UNCHANGED <<blamed, counted>>

\* A connection that fails its handshake is blamed for it, always.
Reject(c) ==
    /\ stage[c] = "challenged"
    /\ stage' = [stage EXCEPT ![c] = "leaving"]
    /\ blamed' = blamed \union {c}
    /\ UNCHANGED counted

EndSession(c) ==
    /\ stage[c] = "served"
    /\ stage' = [stage EXCEPT ![c] = "leaving"]
    /\ UNCHANGED <<blamed, counted>>

FreeSlot(c) ==
    /\ stage[c] = "leaving"
    /\ stage' = [stage EXCEPT ![c] = "gone"]
    /\ UNCHANGED <<blamed, counted>>

\* A shell may report a failure at any time once the connection was served.
Blame(c) ==
    /\ stage[c] \in {"served", "leaving", "gone"}
    /\ blamed' = blamed \union {c}
    /\ UNCHANGED <<stage, counted>>

Count(c) ==
    /\ stage[c] = "gone"
    /\ counted[c] = "no"
    /\ counted' = [counted EXCEPT ![c] = IF c \in blamed THEN "failed" ELSE "ok"]
    /\ UNCHANGED <<stage, blamed>>

SlotNext ==
    \E c \in Conns :
        \/ LetIn(c) \/ TurnAway(c) \/ Serve(c) \/ Reject(c)
        \/ EndSession(c) \/ FreeSlot(c) \/ Blame(c) \/ Count(c)

SlotSpec == SlotInit /\ [][SlotNext]_slotVars

=============================================================================
