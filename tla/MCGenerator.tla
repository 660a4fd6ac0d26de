---------------------------- MODULE MCGenerator ----------------------------
(***************************************************************************)
(* A small instance of Generator: the fleets it can build, two of them     *)
(* with dual homing, one that does not fit its addresses, and one whose    *)
(* weights do not add up.                                                  *)
(***************************************************************************)
EXTENDS Generator, TLC

ThreeModels == <<"sm", "lg", "gne">>

Weigh(a, b, c) == ("sm" :> a) @@ ("lg" :> b) @@ ("gne" :> c)

Fleet(n, ips, perIP, w) ==
    [count |-> n, ipCount |-> ips, devicesPerIP |-> perIP, weights |-> w, dualHome |-> FALSE]

DualHomed(n, w) == [Fleet(n, 1, n, w) EXCEPT !.dualHome = TRUE]

SomeConfigs ==
    {Fleet(4, 2, 2, Weigh(30, 45, 25)), Fleet(3, 1, 3, Weigh(50, 50, 0)),
     Fleet(3, 4, 1, Weigh(34, 33, 33)), Fleet(5, 2, 2, Weigh(60, 40, 0)),
     Fleet(2, 1, 2, Weigh(50, 49, 0)),
     DualHomed(3, Weigh(0, 0, 100)), DualHomed(3, Weigh(33, 0, 67))}
=============================================================================
