----------------------------- MODULE MCStartup -----------------------------
(***************************************************************************)
(* Small instances of Startup: two instances on one host, over fleets that *)
(* load and fleets that do not.                                            *)
(***************************************************************************)
EXTENDS Startup, TLC

CONSTANTS i1, i2, h1, h2, h3, f1, f2, f3, ip1, ip2, key1, key2

\* The points lie on the edges of the rules below: 30 starts the second share.
Points == 42 :> ((h1 :> 30) @@ (h2 :> 99) @@ (h3 :> 29))

R(host, ip, port, driver, f, profile) ==
    [host |-> host, ip |-> ip, port |-> port, driver |-> driver, file |-> f,
     profile |-> profile]

M(columns, rows) == [columns |-> columns, rows |-> rows]

\* What the generator writes over the first manifest.
Regenerated ==
    M(10, <<R(h3, ip1, 1, "cisco_ios", f1, ""), R(h1, ip1, 2, "ciena_tl1", f2, "")>>)

Fleet(columns, rows, contents) ==
    [runs  |-> (1 :> M(columns, rows)) @@ (2 :> Regenerated),
     files |-> (f1 :> contents[1]) @@ (f2 :> contents[2]) @@ (f3 :> contents[3])]

Plain   == R(h1, ip1, 1, "cisco_ios", f1, "")
Pinned  == R(h2, ip1, 2, "ciena_tl1", f2, "hang")
Shadow  == R(h3, ip1, 2, "", f3, "")
Distant == R(h3, ip2, None, "cisco_ios", f3, "")

\* Two devices, and a row of another IP whose port is not a number.
Good == Fleet(11, <<Plain, Pinned, Distant>>, <<1, 1, 1>>)

\* Two rows with one port and an empty config; the same, the last config missing.
Shadowed == Fleet(11, <<Plain, Pinned, Shadow>>, <<Empty, 1, 1>>)
Missing  == Fleet(11, <<Plain, Pinned, Shadow>>, <<1, Empty, None>>)

\* A driver, a profile, two ports and a header that are refused.
Refused ==
    {Fleet(10, <<R(h1, ip1, 3, "cisco_ios", f1, "")>>, <<1, 1, 1>>),
     Fleet(10, <<R(h1, ip1, 1, "cisco_asa", f1, "")>>, <<1, 1, 1>>),
     Fleet(11, <<R(h1, ip1, 1, "cisco_ios", f1, "slow")>>, <<1, 1, 1>>),
     Fleet(10, <<R(h1, ip1, None, "cisco_ios", f1, "")>>, <<1, 1, 1>>),
     Fleet(9, <<Plain>>, <<1, 1, 1>>)}

C(first, count, key, metrics, rules) ==
    [ip |-> ip1, first |-> first, count |-> count, key |-> key, metrics |-> metrics,
     rules |-> rules, cap |-> 1, seed |-> 42, auth |-> "password", faultsOK |-> TRUE]

Thirds == <<[profile |-> "latency", percent |-> 30], [profile |-> "refuse", percent |-> 69]>>
Over   == <<[profile |-> "latency", percent |-> 60], [profile |-> "refuse", percent |-> 41]>>

\* The ports of one IP split over two instances.
Split == (i1 :> C(1, 1, key1, "a", Thirds)) @@ (i2 :> C(2, 1, key2, "b", Thirds))

\* Both want the second port, or the same metrics address, and share a key.
Contending == (i1 :> C(1, 3, key1, "a", <<>>)) @@ (i2 :> C(2, 1, key1, "a", <<>>))

\* One does not start, the other may.
OneStarts == (i1 :> C(1, 3, key2, "", Thirds)) @@ (i2 :> C(1, 9, key1, "", Over))

SomeHosts ==
    {[flags |-> Split, fleet |-> Good],
     [flags |-> Contending, fleet |-> Good]}
    \union [flags : {OneStarts}, fleet : {Shadowed, Missing} \union Refused]

SomeStarts == (i1 :> 2) @@ (i2 :> 1)
=============================================================================
