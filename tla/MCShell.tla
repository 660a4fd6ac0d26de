------------------------------ MODULE MCShell ------------------------------
(***************************************************************************)
(* Small instances of Shell: an IOS and a Junos device, with each profile. *)
(***************************************************************************)
EXTENDS Shell, TLC

\* On IOS "e" is short for three commands, "ena" for one, and "l" only for logout,
\* although it is a prefix of a word, too, that no command begins with.
IOSWords   == {"e", "ena", "l", "sh", "run"}
JunosWords == {"show", "configuration", "exit", "e"}

SomeFits ==
    ("e" :> {"enable", "exit", "end"}) @@ ("l" :> {"logout", "length"}) @@ ("ena" :> {"enable"})
    @@ ("sh" :> {"show"}) @@ ("run" :> {"running-config"})
    @@ ("show" :> {"show"}) @@ ("configuration" :> {}) @@ ("exit" :> {"exit"})

Vocabulary == ("cisco_ios" :> IOSWords) @@ ("junos" :> JunosWords)

SomeFiles == {<<"run">>, <<"show">>}
Password  == <<"run">>

SomeDevices ==
    {[driver |-> "cisco_ios", profile |-> "normal"], [driver |-> "cisco_ios", profile |-> "hang"],
     [driver |-> "junos", profile |-> "latency"], [driver |-> "junos", profile |-> "disconnect"]}
=============================================================================
