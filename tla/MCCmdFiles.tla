----------------------------- MODULE MCCmdFiles -----------------------------
(***************************************************************************)
(* A small instance of CmdFiles: two devices have a file of the same name  *)
(* with different contents, one command has no file, one slug is unsafe.   *)
(***************************************************************************)
EXTENDS CmdFiles, TLC

CONSTANTS h1, h2, lldp, cdp, dotted

TwoFolders ==
    [f \in Files |-> CASE f = <<h1, lldp>>   -> 1
                       [] f = <<h2, lldp>>   -> 2
                       [] f = <<h1, dotted>> -> 1
                       [] OTHER              -> 0]

Interchangeable == Permutations(Sessions)
=============================================================================
