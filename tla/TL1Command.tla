----------------------------- MODULE TL1Command -----------------------------
(***************************************************************************)
(* How a TL1 command is read and taken apart (internal/sshsrv/tl1.go): the *)
(* quote-aware reader, one byte at a time, and the fields of the command   *)
(* it returns. A word (a verb, a TID, a tag, a piece of a password) is one *)
(* byte long, and no white space surrounds the fields.                     *)
(***************************************************************************)
EXTENDS Integers, Sequences, FiniteSets

CONSTANTS
    Words,    \* the words a command is made of
    Upper     \* [Words -> Words], strings.ToUpper

Quote == "\""

Printable == Words \union {Quote, ":", ";"}

LineBreaks == {"CR", "LF"}

NoBytes == [buf |-> <<>>, inQuote |-> FALSE, result |-> "reading"]

\* A byte enters or leaves the buffer, and a quote opens or closes a string.
Take(e, b) == [e EXCEPT !.buf = Append(@, b), !.inQuote = (@ # (b = Quote))]

\* Mutant of Erase: a quote that is erased does not count.
Erase_ForgetsQuote(e) == [e EXCEPT !.buf = SubSeq(@, 1, Len(@) - 1)]

Erase(e) ==
    [e EXCEPT !.buf = SubSeq(@, 1, Len(@) - 1),
              !.inQuote = (@ # (e.buf[Len(e.buf)] = Quote))]

\* One round of readTL1's loop: only a ";" outside a quoted string ends a command.
readTL1(e, b) ==
    CASE b = "BS" /\ e.buf # <<>>             -> Erase(e)
      [] b = ";" /\ ~e.inQuote                -> [e EXCEPT !.result = "command"]
      [] b \in Printable /\ (b = ";" => e.inQuote) -> Take(e, b)
      [] b = "ETX" \/ (b = "EOT" /\ e.buf = <<>>)  -> [e EXCEPT !.result = "error"]
      [] OTHER                                -> e

-----------------------------------------------------------------------------
(* Fields are separated by colons, quoted or not, and counted from 0.      *)

Colons(raw) == {i \in DOMAIN raw : raw[i] = ":"}

\* Where the n-th colon is; the ends of the command count as colons.
ColonAt(raw, n) ==
    IF n = 0 THEN 0
    ELSE IF n > Cardinality(Colons(raw)) THEN Len(raw) + 1
    ELSE CHOOSE i \in Colons(raw) : Cardinality({j \in Colons(raw) : j <= i}) = n

Field(raw, n) == SubSeq(raw, ColonAt(raw, n) + 1, ColonAt(raw, n + 1) - 1)

\* The fields from the n-th on, joined again.
Fields(raw, n) == SubSeq(raw, ColonAt(raw, n) + 1, Len(raw))

ToUpper(field) == [i \in DOMAIN field |-> IF field[i] \in Words THEN Upper[field[i]] ELSE field[i]]

unquoteTL1(s) ==
    IF Len(s) >= 2 /\ s[1] = Quote /\ s[Len(s)] = Quote THEN SubSeq(s, 2, Len(s) - 1) ELSE s

Verb(raw) == ToUpper(Field(raw, 0))

Tid(raw) == Field(raw, 1)

\* Mutant of Ctag: the tag is taken to be the last field.
Ctag_Last(raw) == Field(raw, Cardinality(Colons(raw)))

\* Field 3, or the last one when the AID is left out.
Ctag(raw) == Field(raw, IF Cardinality(Colons(raw)) >= 3 THEN 3 ELSE Cardinality(Colons(raw)))

ActUserName(raw) == unquoteTL1(Field(raw, 2))

\* The password is the rest of the command, so it may hold colons.
ActUserPassword(raw) == unquoteTL1(Fields(raw, 5))
=============================================================================
