------------------------------ MODULE DnsNames ------------------------------
(***************************************************************************)
(* The captive portal's DNS responder at work on a packet                  *)
(* (components/capt_dns/capt_dns.c): label_to_str reads the name of a      *)
(* question octet by octet, str_to_label writes it back in front of the    *)
(* answer, and capt_dns_recv goes from question to question.  Its start    *)
(* and stop are WebProv's.                                                 *)
(*                                                                         *)
(* A packet is the sequence of its octets; the offset o of the code is the *)
(* place o + 1.  Of the header, what the packet is stands for its flags.   *)
(* Packets are well-formed and short: the limits of the buffers are left   *)
(* out.                                                                    *)
(***************************************************************************)
EXTENDS Naturals, Sequences

CONSTANTS
    Labels,        \* labels of the names that are asked for: sequences of octets
    MaxLabels,     \* bound on the labels that a question writes
    MaxQuestions,  \* bound on the questions of a packet
    Forms          \* how a name is written (see ASSUME)

\* "pointer": it ends in a pointer to one that is in the packet; "chained": the
\* pointer leads to another pointer; "root": the name has no label.
ASSUME Packets ==
    /\ Labels \subseteq Seq(1 .. 255) /\ \A l \in Labels : Len(l) \in 1 .. 63
    /\ MaxLabels \in Nat \ {0} /\ MaxQuestions \in Nat \ {0}
    /\ Forms \subseteq {"pointer", "chained", "root"}

VARIABLES
    octets,   \* the packet
    asked,    \* its questions, as the client means them
    targets,  \* the names in it that a pointer can lead to
    task,     \* "idle", "answering", "answered" or "dropped"
    i, p,     \* the loop's counter, and the offset it has come to
    answers   \* the records of the reply

vars == <<octets, asked, targets, task, i, p, answers>>

HeaderLen == 12
FooterLen == 4
Empty     == [o \in 1 .. HeaderLen |-> 0]

\* DnsQuestionFooter: type and class; 28 (AAAA) stands for all other types.
Types  == {"A", "NS", "URI", "other"}
Footer == [A   |-> <<0, 1, 0, 1>>, NS    |-> <<0, 2, 0, 1>>,
           URI |-> <<1, 0, 0, 1>>, other |-> <<0, 28, 0, 1>>]

Init ==
    /\ octets = Empty /\ asked = <<>> /\ targets = {}
    /\ task = "idle"
    /\ i = 0 /\ p = 0 /\ answers = <<>>

-----------------------------------------------------------------------------
\* The client (external).

\* The first n labels of a name as a packet holds them, and all of them.
Wire(name) ==
    LET wire[n \in 0 .. Len(name)] ==
            IF n = 0 THEN <<>> ELSE wire[n - 1] \o <<Len(name[n])>> \o name[n]
    IN  wire

Written(name) == Wire(name)[Len(name)]

\* The name begins with the labels and ends, in full or by a pointer, in rest.
Ask(labels, tail, rest, type) ==
    /\ task \in {"idle", "answered", "dropped"}
    /\ LET fresh == task # "idle"
           sofar == IF fresh THEN Empty ELSE octets
           at(n) == Len(sofar) + Len(Wire(labels)[n - 1])
       IN  /\ octets' = sofar \o Written(labels) \o tail \o Footer[type]
           /\ asked' = (IF fresh THEN <<>> ELSE asked)
                           \o <<[name |-> labels \o rest, type |-> type]>>
           /\ targets' = (IF fresh THEN {} ELSE targets) \cup
                {[o |-> at(n), chain |-> tail # <<0>>,
                  name |-> SubSeq(labels, n, Len(labels)) \o rest] :
                    n \in DOMAIN labels}
    /\ Len(asked') <= MaxQuestions
    /\ task' = "idle"
    /\ i' = 0 /\ p' = 0 /\ answers' = <<>>

AskInFull ==
    \E type \in Types, n \in 0 .. MaxLabels : \E labels \in [1 .. n -> Labels] :
        /\ n = 0 => "root" \in Forms
        /\ Ask(labels, <<0>>, <<>>, type)

\* A pointer has 14 bits for the offset.
Pointer(o) == <<192 + (o \div 256), o % 256>>

AskByPointer ==
    /\ "pointer" \in Forms /\ task = "idle"
    /\ \E type \in Types, n \in 0 .. MaxLabels - 1, to \in targets :
        \E labels \in [1 .. n -> Labels] :
            /\ to.chain => "chained" \in Forms
            /\ to.o < 64 * 256
            /\ Ask(labels, Pointer(to.o), to.name, type)

-----------------------------------------------------------------------------
\* label_to_str, one turn of its loop at a time: it reads at q, has seen the
\* string, and ends at end if a pointer has been followed.

At(o) == IF o < Len(octets) THEN octets[o + 1] ELSE 0

Dot == 46

CopyLabel(s) ==
    LET len == At(s.q)
    IN  [s EXCEPT !.string = (IF @ = <<>> THEN <<>> ELSE @ \o <<Dot>>)
                                \o [n \in 1 .. len |-> At(s.q + n)],
                  !.q = @ + 1 + len]

\* A mutant: the reader stays where the pointer has led it.
FollowPointerAway(s) ==
    [s EXCEPT !.q = (At(s.q) % 64) * 256 + At(s.q + 1)]

FollowPointer(s) ==
    [s EXCEPT !.end = s.q + 2, !.q = (At(s.q) % 64) * 256 + At(s.q + 1)]

\* The zero that ends a name is looked for behind a label, never before one.
Turn(s) ==
    LET t == IF At(s.q) < 64 THEN CopyLabel(s) ELSE FollowPointer(s)
    IN  [t EXCEPT !.more = At(t.q) # 0]

Read(s) == IF s.more THEN Turn(s) ELSE s

Start(from) == [q |-> from, string |-> <<>>, end |-> 0, more |-> TRUE]

\* The turns: there are fewer than octets.
Reading(from) ==
    LET read[n \in 0 .. Len(octets)] ==
            IF n = 0 THEN Start(from) ELSE Read(read[n - 1])
    IN  read

label_to_str(from) ==
    LET last == Reading(from)[Len(octets)]
    IN  [string |-> last.string, next |-> IF last.end = 0 THEN last.q + 1 ELSE last.end]

\* str_to_label, a label at a time: written is closed, current is not.
CloseLabel(s) == s.written \o <<Len(s.current)>> \o s.current

WriteOctet(s, c) ==
    IF c = Dot THEN [written |-> CloseLabel(s), current |-> <<>>]
    ELSE [s EXCEPT !.current = Append(@, c)]

Writing(string) ==
    LET write[n \in 0 .. Len(string)] ==
            IF n = 0 THEN [written |-> <<>>, current |-> <<>>]
            ELSE WriteOctet(write[n - 1], string[n])
    IN  write

str_to_label(string) == CloseLabel(Writing(string)[Len(string)]) \o <<0>>

-----------------------------------------------------------------------------
\* capt_dns_task and capt_dns_recv.

\* A packet from the station's side, one that is too short, a reply and a
\* truncated one are not answered.
Receive ==
    /\ task = "idle" /\ asked # <<>>
    /\ \/ task' = "answering" /\ i' = 1 /\ p' = HeaderLen
       \/ task' = "dropped" /\ UNCHANGED <<i, p>>
    /\ UNCHANGED <<octets, asked, targets, answers>>

\* The class and the length of a record, and whether all of its time to live is
\* written: for NS and URI the lower half keeps what the stack held.
Class == [A |-> "IN", NS |-> "IN", URI |-> "URI"]
Rest  == [A |-> 4, NS |-> 4, URI |-> 4 + 16]
Ttl   == [A |-> {0}, NS |-> {0, 1}, URI |-> {0, 1}]

TypeAt(o) == 256 * At(o) + At(o + 1)

Record(string, type, ttl) ==
    [name |-> str_to_label(string), type |-> type, class |-> Class[type],
     rdlength |-> Rest[type], ttl |-> ttl]

Number == [A |-> 1, NS |-> 2, URI |-> 256]

\* The type is read where the name has ended.
AnswerQuestion ==
    /\ task = "answering" /\ i <= Len(asked)
    /\ LET name == label_to_str(p)
       IN  /\ p' = name.next + FooterLen
           /\ \/ /\ \A type \in DOMAIN Number : TypeAt(name.next) # Number[type]
                 /\ answers' = answers
              \/ \E type \in DOMAIN Number : \E ttl \in Ttl[type] :
                    /\ TypeAt(name.next) = Number[type]
                    /\ answers' = Append(answers, Record(name.string, type, ttl))
    /\ i' = i + 1
    /\ UNCHANGED <<octets, asked, targets, task>>

SendReply ==
    /\ task = "answering" /\ i > Len(asked)
    /\ task' = "answered"
    /\ UNCHANGED <<octets, asked, targets, i, p, answers>>

Next == AskInFull \/ AskByPointer \/ Receive \/ AnswerQuestion \/ SendReply

Spec == Init /\ [][Next]_vars

-----------------------------------------------------------------------------
\* The questions of a type the portal knows, among the first n.
Known(questions) ==
    LET known[n \in 0 .. Len(questions)] ==
            IF n = 0 THEN <<>>
            ELSE IF questions[n].type \in DOMAIN Number
                 THEN Append(known[n - 1], questions[n]) ELSE known[n - 1]
    IN  known

\* The reply has an answer for each question of a type the portal knows, in
\* their order, under the name that was asked for, however it was written
\* (capt_dns.c:25-27, 304-401).
WellAnswered ==
    task = "answered" =>
        LET known == Known(asked)[Len(asked)]
        IN  /\ Len(answers) = Len(known)
            /\ \A n \in DOMAIN known :
                /\ answers[n].name = Written(known[n].name) \o <<0>>
                /\ answers[n].type = known[n].type
=============================================================================
