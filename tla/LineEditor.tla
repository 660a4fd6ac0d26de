----------------------------- MODULE LineEditor -----------------------------
(***************************************************************************)
(* The line editing of readLine (internal/sshsrv/session.go), one byte at  *)
(* a time, and the terminal of the client that sees the echo. A printable  *)
(* byte is a member of Printable: its value matters to no more than which  *)
(* line it makes up.                                                       *)
(***************************************************************************)
EXTENDS Integers, Sequences

CONSTANT Printable   \* the printable bytes a client types

\* Backspace, the line ends, Ctrl-C, Ctrl-D, and a byte that is not printable.
Control == {"BS", "CR", "LF", "ETX", "EOT", "NUL"}

Keys == Printable \union Control

LineEnd == {"CR", "LF"}

\* What readLine has so far: the buffer, the cursor line the echo has left on
\* the client's screen, and whether it returned, with a line or an error.
Editors == [buf : Seq(Printable), screen : Seq(Printable),
            result : {"reading", "line", "error"}]

NewLine == [buf |-> <<>>, screen |-> <<>>, result |-> "reading"]

DropLast(s) == IF s = <<>> THEN s ELSE SubSeq(s, 1, Len(s) - 1)

\* Mutant of Press: backspace erases on the screen only.
Press_ScreenOnly(e, key, echo) ==
    CASE key \in Printable /\ echo -> [e EXCEPT !.buf = Append(@, key), !.screen = Append(@, key)]
      [] key \in Printable /\ ~echo -> [e EXCEPT !.buf = Append(@, key)]
      [] key = "BS" -> [e EXCEPT !.screen = IF echo THEN DropLast(@) ELSE @]
      [] key \in LineEnd -> [e EXCEPT !.result = "line"]
      [] key = "ETX" \/ (key = "EOT" /\ e.buf = <<>>) -> [e EXCEPT !.result = "error"]
      [] OTHER -> e

\* One round of readLine's loop. "\b \b" takes the last byte off the screen.
Press(e, key, echo) ==
    CASE key \in Printable /\ echo -> [e EXCEPT !.buf = Append(@, key), !.screen = Append(@, key)]
      [] key \in Printable /\ ~echo -> [e EXCEPT !.buf = Append(@, key)]
      [] key = "BS" /\ e.buf # <<>> ->
            [e EXCEPT !.buf = DropLast(@), !.screen = IF echo THEN DropLast(@) ELSE @]
      [] key \in LineEnd -> [e EXCEPT !.result = "line"]
      [] key = "ETX" \/ (key = "EOT" /\ e.buf = <<>>) -> [e EXCEPT !.result = "error"]
      [] OTHER -> e
=============================================================================
