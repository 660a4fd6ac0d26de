------------------------------- MODULE MCTL1 --------------------------------
(***************************************************************************)
(* A small instance of TL1: a gateway with three remote nodes, one listed  *)
(* twice, one without an inventory and a section without a TID; one with   *)
(* three nodes and none of its own inventory; and a device with an empty   *)
(* config. The password holds a colon and a semicolon.                     *)
(***************************************************************************)
EXTENDS TL1, TLC

SomeWords == {"ACT-USER", "RTRV-EQPT", "RTRV-SYS", "RTRV-NODES", "RTRV-TIDMAP",
              "RTRV-MAP-NETWORK", "ED-EQPT", "GNE", "ALL", "rne1", "RNE1", "RNE2", "RNE3",
              "user", "p", "c1", "c2", "g1", "a1", "a2", "b1", "x1"}

UpperCase == [w \in SomeWords |-> IF w = "rne1" THEN "RNE1" ELSE w]

Mark(tid) == [marker |-> TRUE, text |-> tid]
Line(w)   == [marker |-> FALSE, text |-> <<w>>]

MixedSections ==
    <<Line("g1"), Mark(<<"RNE1">>), Line("a1"), Mark(<<>>), Line("x1"),
      Mark(<<"RNE2">>), Line("b1"), Mark(<<"rne1">>), Line("a2"), Mark(<<"RNE3">>)>>

OneSectionEmpty == <<Mark(<<"RNE1">>), Line("a1"), Mark(<<"RNE2">>), Line("b1"), Mark(<<"RNE3">>)>>

SomeInventories == {MixedSections, OneSectionEmpty, <<>>}

User == <<"user">>
Secret == <<"p", ":", "p", ";">>

A(form, verb, tid, aid, ctag, pass, quoted) ==
    [form |-> form, verb |-> verb, tid |-> tid, aid |-> aid, ctag |-> ctag, pass |-> pass,
     quoted |-> quoted]

Login(pass, quoted) == A("login", "ACT-USER", <<>>, User, <<"c1">>, pass, quoted)
Rtrv(verb, tid)      == A("strict", verb, tid, <<"ALL">>, <<"c2">>, <<>>, {})
RtrvShort(verb, tid) == A("short", verb, tid, <<>>, <<"c2">>, <<>>, {})

SomeRequests ==
    {Login(Secret, {"pass"}), Login(<<"p">>, {"aid"}), A("empty", "GNE", <<>>, <<>>, <<>>, <<>>, {}),
     Rtrv("RTRV-EQPT", <<>>), Rtrv("RTRV-EQPT", <<"rne1">>), RtrvShort("RTRV-EQPT", <<"RNE2">>),
     RtrvShort("RTRV-EQPT", <<"RNE3">>), Rtrv("RTRV-SYS", <<"RNE2">>), Rtrv("ED-EQPT", <<"RNE1">>),
     RtrvShort("RTRV-NODES", <<"ALL">>), RtrvShort("RTRV-TIDMAP", <<"ALL">>),
     RtrvShort("RTRV-MAP-NETWORK", <<"ALL">>)}

SomeSlips == {"p", ";", Quote}
=============================================================================
