------------------------------ MODULE Commands ------------------------------
(***************************************************************************)
(* Which command a CLI line asks for: ResolveCommand of the IOS driver     *)
(* (internal/sshsrv/dispatch.go), with its abbreviations, and              *)
(* dispatchJunos (driver_junos.go), which knows none. A line is a sequence *)
(* of words, in lower case.                                                *)
(***************************************************************************)
EXTENDS Naturals, Sequences

CONSTANT Fits  \* Fits[w], the words of cmdTable that the word w is a prefix of

\* The names of commands are those of Command.String.
cmdTable ==
    {[tokens |-> <<"terminal", "length", "0">>, cmd |-> "CmdTerminalLength"],
     [tokens |-> <<"terminal", "pager", "0">>,  cmd |-> "CmdTerminalPager"],
     [tokens |-> <<"enable">>,                  cmd |-> "CmdEnable"],
     [tokens |-> <<"show", "version">>,         cmd |-> "CmdShowVersion"],
     [tokens |-> <<"show", "running-config">>,  cmd |-> "CmdShowRunningConfig"],
     [tokens |-> <<"show", "startup-config">>,  cmd |-> "CmdShowStartupConfig"],
     [tokens |-> <<"show", "inventory">>,       cmd |-> "CmdShowInventory"]}
    \union [tokens : {<<"exit">>, <<"quit">>, <<"logout">>, <<"end">>}, cmd : {"CmdExit"}]

Tokens == UNION {{r.tokens[n] : n \in DOMAIN r.tokens} : r \in cmdTable}

ASSUME CommandsAssumption ==
    \A w \in DOMAIN Fits : Fits[w] \subseteq Tokens /\ (w \in Tokens => w \in Fits[w])

\* The rows a line abbreviates, word by word, or the beginning of which it does.
Matches(l) ==
    {r \in cmdTable :
        Len(l) <= Len(r.tokens) /\ \A n \in DOMAIN l : r.tokens[n] \in Fits[l[n]]}

\* Mutant of ResolveCommand: of several commands the last one in the table is taken.
ResolveCommand_LastMatch(l) ==
    LET exact == {r \in cmdTable : r.tokens = l}
        rows  == IF exact # {} THEN exact ELSE Matches(l)
        cmds  == {r.cmd : r \in rows}
    IN  IF l = <<>> THEN "CmdEmpty"
        ELSE CASE rows = {} -> "CmdUnknown"
               [] "CmdExit" \in cmds -> "CmdExit"
               [] OTHER -> CHOOSE c \in cmds : TRUE

\* A row spelled out wins. Otherwise a line that fits a single row must fit all of it,
\* and one that fits several is only good if they are the same command.
ResolveCommand(l) ==
    LET exact == {r \in cmdTable : r.tokens = l}
        rows  == IF exact # {} THEN exact ELSE Matches(l)
        cmds  == {r.cmd : r \in rows}
    IN  IF l = <<>> THEN "CmdEmpty"
        ELSE CASE rows = {} -> "CmdUnknown"
               [] \E c, d \in cmds : c # d -> "CmdAmbiguous"
               [] \E r \in rows : rows = {r} /\ Len(l) < Len(r.tokens) -> "CmdUnknown"
               [] OTHER -> CHOOSE c \in cmds : TRUE

\* "show configuration" may be followed by pipes that change nothing. A pipe is a
\* word of its own, with or without spaces around it.
isJunosShowConfiguration(l) ==
    /\ Len(l) >= 2 /\ SubSeq(l, 1, 2) = <<"show", "configuration">>
    /\ \A n \in 2..(Len(l) - 1) :
          <<l[n], l[n + 1]>> \in {<<"configuration", "|">>, <<"set", "|">>, <<"no-more", "|">>,
                                <<"|", "no-more">>, <<"|", "display">>, <<"display", "set">>}
    /\ l[Len(l)] \in {"configuration", "set", "no-more"}

dispatchJunos(l) ==
    CASE l = <<>> -> "CmdEmpty"
      [] Len(l) = 4 /\ SubSeq(l, 1, 2) = <<"set", "cli">>
            /\ l[3] \in {"screen-length", "screen-width"} -> "CmdJunosSetCli"
      [] isJunosShowConfiguration(l) -> "CmdJunosShowConfiguration"
      [] l \in {<<"exit">>, <<"quit">>} -> "CmdExit"
      [] OTHER -> "CmdUnknown"

=============================================================================
