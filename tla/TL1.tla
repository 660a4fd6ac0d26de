-------------------------------- MODULE TL1 --------------------------------
(***************************************************************************)
(* One TL1 session on an optical gateway: the loop and login the vendors   *)
(* share (internal/sshsrv/tl1.go) and the three dispatchers on top of it   *)
(* (driver_ciena.go, driver_infinera.go, driver_cisco_tl1.go).             *)
(*                                                                         *)
(* The client means to send one of Requests after another. It types their  *)
(* text byte by byte, makes mistakes and erases them again, and breaks     *)
(* lines anywhere.                                                         *)
(* The delay, the faults and the write errors are those of Shell.          *)
(***************************************************************************)
EXTENDS TL1Command

CONSTANTS
    Vendors,     \* the drivers a session may run
    Inventories, \* the config files: sequences of [marker, text] lines
    Sid,         \* Device.Hostname
    Username, Password,  \* Config.Username and Config.Password, <<>> if empty
    PageSize,    \* infineraTidmapPageSize
    Requests,    \* what clients ask for
    Slips        \* the bytes a client types by mistake

-----------------------------------------------------------------------------
(* A request is a login, a command in the strict form or in the short one  *)
(* without an AID, or empty. Its AID (of a login: the name) and password   *)
(* may be put in quotes.                                                   *)

Then(field, rest) == field \o <<":">> \o rest

Wrapped(r, part) == IF part \in r.quoted THEN <<Quote>> \o r[part] \o <<Quote>> ELSE r[part]

Body(r) ==
    CASE r.form = "login"  -> Then(<<r.verb>>, Then(r.tid, Then(Wrapped(r, "aid"),
                                   Then(r.ctag, Then(<<>>, Wrapped(r, "pass"))))))
      [] r.form = "strict" -> Then(<<r.verb>>, Then(r.tid, Then(Wrapped(r, "aid"), r.ctag)))
      [] r.form = "short"  -> Then(<<r.verb>>, Then(r.tid, r.ctag))
      [] r.form = "empty"  -> <<>>

Text(r) == Append(Body(r), ";")

\* Are the first n bytes of s the beginning of a quoted string?
InString(s, n) == Cardinality({i \in 1..n : s[i] = Quote}) % 2 = 1

Request ==
    [form : {"login", "strict", "short", "empty"}, verb : Words,
     tid : Seq(Words), aid : Seq(Words), ctag : Seq(Words), pass : Seq(Printable),
     quoted : SUBSET {"aid", "pass"}]

ASSUME TL1Assumption ==
    /\ Upper \in [Words -> Words]
    /\ Words \intersect ({Quote, ":", ";", "BS", "ETX", "EOT"} \union LineBreaks) = {}
    /\ Vendors \subseteq {"ciena_tl1", "infinera_tl1", "cisco_ons_tl1"}
    /\ \A d \in Inventories :
          /\ d \in Seq([marker : BOOLEAN, text : Seq(Words)])
          /\ \A i \in DOMAIN d : Len(d[i].text) <= 1
    /\ Sid \in Words
    /\ PageSize \in Nat \ {0}
    /\ \A r \in Requests :
          /\ r \in Request
          /\ (Upper[r.verb] = "ACT-USER") <=> (r.form = "login")
          \* what stands without quotes does not begin with one
          /\ "pass" \in r.quoted \/ r.pass = <<>> \/ r.pass[1] # Quote
          \* a ";" inside of the request is in a quoted string
          /\ \A n \in DOMAIN Text(r) :
                (Text(r)[n] = ";" /\ ~InString(Text(r), n - 1)) <=> (n = Len(Text(r)))

NoRequest == [form |-> "none"]

VARIABLES
    vendor,    \* the session's driver
    data,      \* Device.Data, the mapped config
    reader,    \* readTL1: the buffer, inQuote, and whether it returned
    loggedIn,  \* the session's loggedIn
    open,      \* is the session still served?
    reply,     \* the last response
    request,   \* what the client is sending
    sent,      \* how many bytes of its text are in the buffer
    slip,      \* has the client mistyped a byte it must erase?
    meant,     \* the last request it finished sending
    handled,   \* the command that was read for it
    proven     \* has it sent the right name and password?

deviceVars == <<vendor, data>>
sessionVars == <<loggedIn, reply, meant, handled, proven>>
vars == <<deviceVars, sessionVars, reader, open, request, sent, slip>>

-----------------------------------------------------------------------------
(* indexSections. Section(0) is what comes before the first marker.        *)

MarkerLines == {i \in DOMAIN data : data[i].marker}

\* Mutant of NextMarker: the section runs past the marker that ends it.
NextMarker_PastIt(i) ==
    LET after == {j \in MarkerLines : j > i}
    IN  IF after = {} THEN Len(data) + 1
        ELSE 1 + CHOOSE j \in after : \A j2 \in after : j <= j2

NextMarker(i) ==
    LET after == {j \in MarkerLines : j > i}
    IN  IF after = {} THEN Len(data) + 1 ELSE CHOOSE j \in after : \A j2 \in after : j <= j2

Section(i) == SubSeq(data, i + 1, NextMarker(i) - 1)

NodeAt(i) == ToUpper(data[i].text)

MarkersOf(node) == {i \in MarkerLines : NodeAt(i) = node}

\* A section without a TID is left out; of two with the same TID the last counts.
Known(node) == node # <<>> /\ MarkersOf(node) # {}

InventoryOf(node) == Section(CHOOSE i \in MarkersOf(node) : \A j \in MarkersOf(node) : j <= i)

\* The TIDs in the order of the file, a repeated one twice.
OrderOf(d) ==
    LET upTo[i \in 0..Len(d)] ==
            IF i = 0 THEN <<>>
            ELSE IF d[i].marker /\ d[i].text # <<>> THEN Append(upTo[i - 1], ToUpper(d[i].text))
            ELSE upTo[i - 1]
    IN  upTo[Len(d)]

Order == OrderOf(data)

-----------------------------------------------------------------------------
(* The vendors' vocabularies. Several reports that differ only in the text *)
(* they synthesize are each a verb of their own.                           *)

NeighbourVerbs ==
    [ciena_tl1     |-> {"RTRV-NE-LIST", "RTRV-NODES"},
     infinera_tl1  |-> {"RTRV-TIDMAP"},
     cisco_ons_tl1 |-> {"RTRV-MAP-NETWORK"}]

NeighbourLabel ==
    [ciena_tl1     |-> "RTRV-NE-LIST",
     infinera_tl1  |-> "RTRV-TIDMAP",
     cisco_ons_tl1 |-> "RTRV-MAP-NETWORK"]

SharedReports == {"RTRV-EQPT", "RTRV-ALM-ALL", "RTRV-COND-ALL", "RTRV-SW-VER"}

\* Mutant of Reports: a verb is added to a driver and not to its Commands.
Reports_Unregistered ==
    [ciena_tl1     |-> SharedReports \union {"RTRV-ACTIVE-USER", "RTRV-SYS"},
     infinera_tl1  |-> SharedReports \union {"RTRV-SYS"},
     cisco_ons_tl1 |-> SharedReports \union {"RTRV-SYS"}]

Reports ==
    [ciena_tl1     |-> SharedReports \union {"RTRV-ACTIVE-USER", "RTRV-SYS"},
     infinera_tl1  |-> SharedReports \union {"RTRV-SYS"},
     cisco_ons_tl1 |-> SharedReports]

\* Driver.Commands: the labels of command_duration_seconds.
Commands ==
    [ciena_tl1     |-> {"CmdTL1Unknown", "CmdTL1Deny", "ACT-USER", "RTRV-EQPT", "RTRV-ALM-ALL",
                        "RTRV-COND-ALL", "RTRV-ACTIVE-USER", "RTRV-SW-VER", "RTRV-SYS",
                        "RTRV-NE-LIST"},
     infinera_tl1  |-> {"CmdTL1Unknown", "CmdTL1Deny", "ACT-USER", "RTRV-EQPT", "RTRV-ALM-ALL",
                        "RTRV-COND-ALL", "RTRV-SW-VER", "RTRV-SYS", "RTRV-TIDMAP"},
     cisco_ons_tl1 |-> {"CmdTL1Unknown", "CmdTL1Deny", "ACT-USER", "RTRV-EQPT", "RTRV-ALM-ALL",
                        "RTRV-COND-ALL", "RTRV-SW-VER", "RTRV-MAP-NETWORK"}]

-----------------------------------------------------------------------------
(* Responses: a label, the blocks with their completion codes and the TIDs *)
(* they list, the header's SID and tag, the inventory lines streamed, and  *)
(* whether the text holds the serial number of the gateway's own shelf.    *)

Silence ==
    [cmd |-> "CmdTL1Unknown", sid |-> <<>>, ctag |-> <<>>, blocks |-> <<>>, body |-> <<>>,
     serial |-> FALSE]

Answer(raw, cmd, sid, blocks, body) ==
    [cmd |-> cmd, sid |-> sid, ctag |-> Ctag(raw), blocks |-> blocks, body |-> body,
     serial |-> FALSE]

Compld == <<[code |-> "COMPLD", tids |-> <<>>]>>

Deny(raw, label, sid) == Answer(raw, label, sid, <<[code |-> "DENY", tids |-> <<>>]>>, <<>>)

OwnSid == <<Sid>>

tidIsLocal(tid) == ToUpper(tid) \in {<<>>, <<"ALL">>, ToUpper(OwnSid)}

validTL1Login(user, pass) ==
    /\ Password # <<>> => pass = Password
    /\ Username # <<>> => user = Username

\* Mutant of tidmapPages: the last page is dropped unless it is full.
tidmapPages_FullOnly ==
    LET pages == Len(Order) \div PageSize
    IN  IF pages = 0 THEN Compld
        ELSE [p \in 1..pages |->
                 [code |-> IF p = pages THEN "COMPLD" ELSE "RTRV",
                  tids |-> SubSeq(Order, (p - 1) * PageSize + 1, p * PageSize)]]

\* RTRV-TIDMAP is answered in pages: all but the last one are coded RTRV and
\* followed by a prompt.
tidmapPages ==
    LET pages == (Len(Order) + PageSize - 1) \div PageSize
        endOf(p) == IF p = pages THEN Len(Order) ELSE p * PageSize
    IN  IF pages = 0 THEN Compld
        ELSE [p \in 1..pages |->
                 [code |-> IF endOf(p) = Len(Order) THEN "COMPLD" ELSE "RTRV",
                  tids |-> SubSeq(Order, (p - 1) * PageSize + 1, endOf(p))]]

NeighbourBlocks ==
    CASE vendor = "infinera_tl1"  -> tidmapPages
      [] vendor = "cisco_ons_tl1" -> <<[code |-> "COMPLD", tids |-> <<OwnSid>> \o Order]>>
      [] OTHER                    -> <<[code |-> "COMPLD", tids |-> Order]>>

\* A DTN-X answers under its own name even when it relays for another node.
AnswersAs(tid) == IF vendor = "infinera_tl1" THEN OwnSid ELSE ToUpper(tid)

-----------------------------------------------------------------------------
(* The session.                                                            *)

Init ==
    /\ vendor \in Vendors
    /\ data \in Inventories
    /\ reader = NoBytes
    /\ loggedIn = FALSE
    /\ open = TRUE
    /\ reply = Silence
    /\ request \in Requests
    /\ sent = 0
    /\ slip = FALSE
    /\ meant = NoRequest
    /\ handled = <<>>
    /\ proven = FALSE

\* The dispatchers, one disjunct for each of their returns.
EmptyCommand(raw) ==
    /\ Verb(raw) = <<>>
    /\ reply' = Silence
    /\ UNCHANGED loggedIn

ActUser(raw) ==
    /\ Verb(raw) = <<"ACT-USER">>
    /\ \/ /\ validTL1Login(ActUserName(raw), ActUserPassword(raw))
          /\ loggedIn' = TRUE
          /\ reply' = Answer(raw, "ACT-USER", OwnSid, Compld, <<>>)
       \/ /\ ~validTL1Login(ActUserName(raw), ActUserPassword(raw))
          /\ reply' = Deny(raw, "CmdTL1Deny", OwnSid)
          /\ UNCHANGED loggedIn

NotLoggedIn(raw) ==
    /\ Verb(raw) \notin {<<>>, <<"ACT-USER">>}
    /\ ~loggedIn
    /\ reply' = Deny(raw, "CmdTL1Deny", OwnSid)
    /\ UNCHANGED loggedIn

\* A command that is let in by the login gate.
Asks(raw, verbs) == loggedIn /\ \E v \in verbs : Verb(raw) = <<v>>

AsksOtherThan(raw, verbs) ==
    loggedIn /\ Verb(raw) \notin {<<>>, <<"ACT-USER">>} /\ ~Asks(raw, verbs)

Neighbours(raw) ==
    /\ Asks(raw, NeighbourVerbs[vendor])
    /\ reply' = Answer(raw, NeighbourLabel[vendor], OwnSid, NeighbourBlocks, <<>>)
    /\ UNCHANGED loggedIn

UnknownNode(raw) ==
    /\ AsksOtherThan(raw, NeighbourVerbs[vendor])
    /\ ~tidIsLocal(Tid(raw)) /\ ~Known(ToUpper(Tid(raw)))
    /\ reply' = Deny(raw, "CmdTL1Deny", OwnSid)
    /\ UNCHANGED loggedIn

\* RTRV-EQPT streams an inventory; if that is empty, and for any other report, the
\* response is synthesized. RTRV-SYS and the synthesized RTRV-EQPT are made from
\* the gateway's serial number, whichever node they are about.
Report(raw, sid, inventory) ==
    LET eqpt == Verb(raw) = <<"RTRV-EQPT">>
    IN  [cmd |-> Verb(raw)[1], sid |-> sid, ctag |-> Ctag(raw), blocks |-> Compld,
         body |-> IF eqpt THEN inventory ELSE <<>>,
         serial |-> (eqpt /\ inventory = <<>>) \/ Verb(raw) = <<"RTRV-SYS">>]

\* Mutant of LocalReport: the login gate does not cover reports on the gateway.
LocalReport_NoGate(raw) ==
    /\ \E v \in Reports[vendor] : Verb(raw) = <<v>>
    /\ tidIsLocal(Tid(raw))
    /\ reply' = Report(raw, OwnSid, Section(0))
    /\ UNCHANGED loggedIn

LocalReport(raw) ==
    /\ Asks(raw, Reports[vendor])
    /\ tidIsLocal(Tid(raw))
    /\ reply' = Report(raw, OwnSid, Section(0))
    /\ UNCHANGED loggedIn

RemoteReport(raw) ==
    LET node == ToUpper(Tid(raw))
    IN  /\ Asks(raw, Reports[vendor])
        /\ ~tidIsLocal(Tid(raw)) /\ Known(node)
        /\ reply' = Report(raw, AnswersAs(Tid(raw)), InventoryOf(node))
        /\ UNCHANGED loggedIn

\* Ciena observes an unknown verb as unknown and answers as the node it was
\* addressed to; the others observe it as denied and answer as themselves.
UnknownVerb(raw) ==
    /\ AsksOtherThan(raw, Reports[vendor] \union NeighbourVerbs[vendor])
    /\ tidIsLocal(Tid(raw)) \/ Known(ToUpper(Tid(raw)))
    /\ reply' = IF vendor # "ciena_tl1" THEN Deny(raw, "CmdTL1Deny", OwnSid)
                ELSE Deny(raw, "CmdTL1Unknown",
                          IF tidIsLocal(Tid(raw)) THEN OwnSid ELSE ToUpper(Tid(raw)))
    /\ UNCHANGED loggedIn

Dispatch(raw) ==
    \/ EmptyCommand(raw) \/ ActUser(raw) \/ NotLoggedIn(raw) \/ Neighbours(raw)
    \/ UnknownNode(raw) \/ LocalReport(raw) \/ RemoteReport(raw) \/ UnknownVerb(raw)

-----------------------------------------------------------------------------
(* The client's bytes, each of them one round of readTL1's loop.           *)

Byte(b) == open /\ reader' = readTL1(reader, b)

\* A login with the name and the password that are configured, if they are.
IsGoodLogin(r) ==
    r.form = "login" /\ Username \in {<<>>, r.aid} /\ Password \in {<<>>, r.pass}

\* The next byte of the request does not end it.
TypeOn ==
    /\ ~slip
    /\ sent < Len(Text(request))
    /\ Byte(Text(request)[sent + 1])
    /\ reader'.result = "reading"
    /\ sent' = sent + 1
    /\ UNCHANGED <<deviceVars, sessionVars, open, request, slip>>

\* The next byte ends the command: it is dispatched, and the client turns to
\* another request. Further commands are read into a new buffer.
Submit ==
    /\ ~slip
    /\ sent < Len(Text(request))
    /\ open
    /\ readTL1(reader, Text(request)[sent + 1]).result = "command"
    /\ Dispatch(reader.buf)
    /\ handled' = reader.buf
    /\ meant' = request
    /\ proven' = (proven \/ IsGoodLogin(request))
    /\ reader' = NoBytes
    /\ sent' = 0
    /\ request' \in Requests
    /\ UNCHANGED <<deviceVars, open, slip>>

\* A slip that only adds a byte, which the client sees and erases.
Slip(b) ==
    /\ ~slip
    /\ Byte(b)
    /\ reader'.buf = Append(reader.buf, b)
    /\ slip' = TRUE
    /\ UNCHANGED <<deviceVars, sessionVars, open, request, sent>>

Correct ==
    /\ slip
    /\ Byte("BS")
    /\ slip' = FALSE
    /\ UNCHANGED <<deviceVars, sessionVars, open, request, sent>>

\* A line break, or a Ctrl-D inside a command, leaves the buffer alone.
Ignored(b) ==
    /\ Byte(b)
    /\ reader'.result = "reading"
    /\ UNCHANGED <<deviceVars, sessionVars, open, request, sent, slip>>

\* Ctrl-C, Ctrl-D on an empty line, or a lost connection.
ReadFails(b) ==
    /\ Byte(b)
    /\ reader'.result = "error"
    /\ open' = FALSE
    /\ UNCHANGED <<deviceVars, sessionVars, request, sent, slip>>

Next ==
    \/ TypeOn
    \/ Submit
    \/ \E b \in Slips : Slip(b)
    \/ Correct
    \/ \E b \in LineBreaks \union {"EOT"} : Ignored(b)
    \/ \E b \in {"ETX", "EOT"} : ReadFails(b)

Spec == Init /\ [][Next]_vars

-----------------------------------------------------------------------------
(* Properties.                                                             *)

TypeOK ==
    /\ vendor \in Vendors
    /\ data \in Inventories
    /\ reader \in [buf : Seq(Printable), inQuote : BOOLEAN,
                   result : {"reading", "command", "error"}]
    /\ {loggedIn, open, slip, proven} \subseteq BOOLEAN
    /\ reply.cmd \in Commands[vendor]
    /\ reply.serial \in BOOLEAN
    /\ request \in Requests
    /\ sent \in 0..Len(Text(request))
    /\ meant \in Requests \union {NoRequest}
    /\ handled \in Seq(Printable)

\* The program acts on the commands the client sent, whole, whatever it mistyped
\* and erased, however it broke its lines, and whether a ";" is inside a quoted
\* string: none ends early, and none is still waited for after its end (readTL1).
CommandsArriveWhole ==
    /\ open /\ ~slip =>
          reader.buf = SubSeq(Text(request), 1, sent) /\ sent < Len(Text(request))
    /\ meant # NoRequest => Append(handled, ";") = Text(meant)

\* Nothing is answered but with a denial before the client has sent the right name
\* and password, quoted or not, with colons or semicolons in it; once it has, it
\* stays logged in, and wrong ones never log it in (ACT-USER, validTL1Login).
LoginGate ==
    /\ loggedIn <=> proven
    /\ (\E i \in DOMAIN reply.blocks : reply.blocks[i].code # "DENY") => proven

\* The lines that stand under a marker of node, and under no other marker.
LinesUnder(node) ==
    {data[i] : i \in {j \in DOMAIN data \ MarkerLines :
                        \E m \in MarkersOf(node) :
                            m < j /\ \A k \in MarkerLines : k <= m \/ k > j}}

LinesOnTop == {data[i] : i \in {j \in DOMAIN data : \A k \in MarkerLines : j < k}}

\* The lines a gateway streams stand in the file under the TID the client asked
\* for, or on top of the file for itself, and are no markers (indexSections, the
\* dispatchers). Of what it synthesizes without streaming this says nothing.
NoStrangersInventory ==
    \A i \in DOMAIN reply.body :
        reply.body[i] \in IF tidIsLocal(meant.tid) THEN LinesOnTop
                          ELSE LinesUnder(ToUpper(meant.tid))

\* A response carries the tag of the request it answers, in the strict form of a
\* command and in the short one, also when a password follows the tag (parseTL1).
RepliesAreCorrelated == reply.blocks # <<>> => reply.ctag = meant.ctag

\* All that is listed in the blocks of a response.
Listed(blocks) ==
    LET from[p \in 0..Len(blocks)] == IF p = 0 THEN <<>> ELSE from[p - 1] \o blocks[p].tids
    IN  from[Len(blocks)]

\* A client that reads blocks until one that is not coded RTRV reads all of the
\* response and nothing of the next, and the neighbours listed in the blocks are
\* those of the file, in order, and none twice for the paging (tidmapPages).
PagesAreWhole ==
    /\ \A p \in DOMAIN reply.blocks :
          (reply.blocks[p].code = "RTRV") <=> p < Len(reply.blocks)
    /\ vendor = "infinera_tl1" => \A p \in DOMAIN reply.blocks : Len(reply.blocks[p].tids) <= PageSize
    /\ reply.cmd = NeighbourLabel[vendor] =>
          Listed(reply.blocks) = IF vendor = "cisco_ons_tl1" THEN <<OwnSid>> \o Order ELSE Order

=============================================================================
