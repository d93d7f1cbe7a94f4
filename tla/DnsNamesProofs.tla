--------------------------- MODULE DnsNamesProofs ---------------------------
(***************************************************************************)
(* The names of DnsNames, of any number of labels and in packets of any    *)
(* number of questions: label_to_str reads what is asked for, in full or   *)
(* over a pointer, str_to_label writes it back as it was, and the reply    *)
(* answers every question it should.                                       *)
(***************************************************************************)
EXTENDS DnsNames, NatLemmas, SequenceTheorems

Octet == 0 .. 255

Names == Seq(Labels)

-----------------------------------------------------------------------------
\* The recursive functions of the model, as their equations.

\* Induction up to N, over a set of numbers and over the values of a function.
LEMMA Upward ==
    ASSUME NEW N \in Nat, NEW T, 0 \in T,
           \A n \in Nat : n < N /\ n \in T => n + 1 \in T
    PROVE  \A n \in 0 .. N : n \in T
<1> DEFINE U == {n \in Nat : n <= N => n \in T}
<1>1. 0 \in U
  OBVIOUS
<1>2. ASSUME NEW n \in Nat, n \in U
      PROVE  n + 1 \in U
  BY <1>2
<1>3. Nat \subseteq U
  <2> HIDE DEF U
  <2> QED
    BY <1>1, <1>2, Induction
<1> QED
  BY <1>3

LEMMA Stays ==
    ASSUME NEW N \in Nat, NEW S, NEW f, f[0] \in S,
           \A n \in 1 .. N : f[n - 1] \in S => f[n] \in S
    PROVE  \A n \in 0 .. N : f[n] \in S
<1> DEFINE T == {n \in 0 .. N : f[n] \in S}
<1>1. 0 \in T
  OBVIOUS
<1>2. ASSUME NEW n \in Nat, n < N, n \in T
      PROVE  n + 1 \in T
  <2>1. n + 1 \in 1 .. N /\ n + 1 - 1 = n
    BY <1>2
  <2>2. f[n + 1] \in S
    BY <1>2, <2>1
  <2> QED
    BY <2>1, <2>2
<1>3. \A n \in 0 .. N : n \in T
  <2> HIDE DEF T
  <2> QED
    BY <1>1, <1>2, Upward
<1> QED
  BY <1>3

LEMMA OctetNat == Octet \subseteq Nat
  BY DEF Octet

LEMMA LabelTyped ==
    ASSUME NEW l \in Labels
    PROVE  /\ l \in Seq(Octet) /\ Len(l) \in 1 .. 63
           /\ \A j \in 1 .. Len(l) : l[j] \in 1 .. 255
<1>1. l \in Seq(1 .. 255) /\ Len(l) \in 1 .. 63
  BY Packets
<1>2. 1 .. 255 \subseteq Octet
  BY DEF Octet
<1>3. l \in Seq(Octet)
  BY <1>1, <1>2, SeqMonotonic
<1>4. ASSUME NEW j \in 1 .. Len(l)
      PROVE  l[j] \in 1 .. 255
  BY <1>1, ElementOfSeq
<1> QED
  BY <1>1, <1>3, <1>4

LEMMA LabelOf ==
    ASSUME NEW name \in Names, NEW n \in 1 .. Len(name)
    PROVE  /\ name[n] \in Labels
           /\ name[n] \in Seq(Octet) /\ Len(name[n]) \in 1 .. 63
           /\ \A j \in 1 .. Len(name[n]) : name[n][j] \in 1 .. 255
<1>1. name[n] \in Labels
  BY DEF Names
<1> QED
  BY <1>1, LabelTyped

\* One more label on the wire.
AddLabel(w, l) == w \o <<Len(l)>> \o l

LEMMA AddLabelTyped ==
    ASSUME NEW w \in Seq(Octet), NEW l \in Labels
    PROVE  /\ AddLabel(w, l) \in Seq(Octet)
           /\ Len(AddLabel(w, l)) = Len(w) + 1 + Len(l)
           /\ \A j \in 1 .. Len(w) : AddLabel(w, l)[j] = w[j]
           /\ AddLabel(w, l)[Len(w) + 1] = Len(l)
           /\ \A j \in 1 .. Len(l) : AddLabel(w, l)[Len(w) + 1 + j] = l[j]
<1> DEFINE v == w \o <<Len(l)>>
<1>1. Len(l) \in Octet /\ l \in Seq(Octet)
  BY LabelTyped DEF Octet
<1>2. <<Len(l)>> \in Seq(Octet) /\ Len(<<Len(l)>>) = 1 /\ <<Len(l)>>[1] = Len(l)
  BY <1>1
<1>3. /\ v \in Seq(Octet) /\ Len(v) = Len(w) + 1
      /\ \A j \in 1 .. Len(w) : v[j] = w[j]
      /\ v[Len(w) + 1] = Len(l)
  BY <1>2
<1>4. AddLabel(w, l) = v \o l
  BY DEF AddLabel
<1> HIDE DEF v
<1>5. Len(v \o l) = Len(v) + Len(l) /\ v \o l \in Seq(Octet)
  BY <1>1, <1>3
<1>6. \A j \in 1 .. Len(v) : (v \o l)[j] = v[j]
  BY <1>1, <1>3
<1>7. ASSUME NEW j \in 1 .. Len(l)
      PROVE  (v \o l)[Len(v) + j] = l[j]
  BY <1>1, <1>3
<1> QED
  BY <1>1, <1>3, <1>4, <1>5, <1>6, <1>7

LEMMA WireTurns ==
    ASSUME NEW name \in Names
    PROVE  /\ Wire(name) \in [0 .. Len(name) -> Seq(Octet)]
           /\ Wire(name)[0] = <<>>
           /\ \A n \in 1 .. Len(name) :
                Wire(name)[n] = AddLabel(Wire(name)[n - 1], name[n])
<1> DEFINE N == Len(name)
           S == Seq(Octet)
           g == [n \in 1 .. N |-> [w \in S |-> AddLabel(w, name[n])]]
           Equation(f) == f = [n \in 0 .. Len(name) |->
                                  IF n = 0 THEN <<>>
                                  ELSE f[n - 1] \o <<Len(name[n])>> \o name[n]]
<1>1. N \in Nat /\ <<>> \in S
  BY DEF Names
<1>2. ASSUME NEW n \in 1 .. N, NEW w \in S
      PROVE  AddLabel(w, name[n]) \in S
  BY LabelOf, AddLabelTyped
<1>3. g \in [1 .. N -> [S -> S]]
  BY <1>2
<1>4. PICK f \in Runs(N, S, <<>>, g) : TRUE
  <2> HIDE DEF S, g, N
  <2> QED
    BY <1>1, <1>3, Iteration
<1>5. f \in [0 .. N -> S] /\ f[0] = <<>>
  BY <1>4 DEF Runs
<1>6. ASSUME NEW n \in 0 .. N, n # 0
      PROVE  f[n] = f[n - 1] \o <<Len(name[n])>> \o name[n]
  <2>1. n \in 1 .. N /\ n - 1 \in 0 .. N
    BY <1>1, <1>6
  <2>2. f[n] = g[n][f[n - 1]] /\ f[n - 1] \in S
    BY <1>4, <1>5, <2>1 DEF Runs
  <2>3. f[n] = AddLabel(f[n - 1], name[n])
    BY <2>1, <2>2
  <2> QED
    BY <2>3 DEF AddLabel
<1>7. Equation(f)
  <2> HIDE DEF S
  <2> QED
    BY <1>5, <1>6
<1>8. Wire(name) = CHOOSE wire : Equation(wire)
  BY Zenon DEF Wire
<1>9. Equation(Wire(name))
  <2> HIDE DEF Equation
  <2> QED
    BY <1>7, <1>8, Zenon
<1> DEFINE w == Wire(name)
<1>10. ASSUME NEW n \in 1 .. N
       PROVE  w[n] = AddLabel(w[n - 1], name[n])
  <2>1. n \in 0 .. Len(name) /\ n # 0
    BY <1>1
  <2> QED
    BY <1>9, <2>1 DEF AddLabel
<1>11. w[0] = <<>> /\ w = [n \in 0 .. N |-> w[n]]
  BY <1>1, <1>9
<1>12. \A n \in 0 .. N : w[n] \in S
  <2> HIDE DEF w, S, N
  <2>1. w[0] \in S
    BY <1>1, <1>11
  <2>2. ASSUME NEW n \in 1 .. N, w[n - 1] \in S
        PROVE  w[n] \in S
    BY <1>2, <1>10, <2>2
  <2> QED
    BY <1>1, <2>1, <2>2, Stays
<1> QED
  <2> HIDE DEF w, S
  <2>1. w \in [0 .. N -> S]
    BY <1>11, <1>12
  <2> QED
    BY <1>10, <1>11, <2>1 DEF w, S

\* What label_to_str has come to after a turn.
Reads == [q : Nat, string : Seq(Octet), end : Nat, more : BOOLEAN]

LEMMA AtTyped ==
    ASSUME octets \in Seq(Octet), NEW o \in Nat
    PROVE  At(o) \in Octet
<1>1. CASE o < Len(octets)
  <2>1. o + 1 \in 1 .. Len(octets)
    BY <1>1
  <2> QED
    BY <1>1, <2>1 DEF At
<1>2. CASE ~(o < Len(octets))
  BY <1>2 DEF At, Octet
<1> QED
  BY <1>1, <1>2

LEMMA TurnTyped ==
    ASSUME octets \in Seq(Octet), NEW s \in Reads
    PROVE  Turn(s) \in Reads
<1> DEFINE len == At(s.q)
           label == [n \in 1 .. len |-> At(s.q + n)]
           before == IF s.string = <<>> THEN <<>> ELSE s.string \o <<Dot>>
<1>1. s.q \in Nat /\ s.string \in Seq(Octet) /\ s.end \in Nat /\ len \in Nat
  <2>1. s.q \in Nat /\ s.string \in Seq(Octet) /\ s.end \in Nat
    BY DEF Reads
  <2>2. At(s.q) \in Octet
    BY <2>1, AtTyped
  <2> QED
    BY <2>1, <2>2, OctetNat
<1>2. label \in Seq(Octet)
  <2>1. \A n \in 1 .. len : At(s.q + n) \in Octet
    BY <1>1, AtTyped
  <2> HIDE DEF len
  <2> QED
    BY <1>1, <2>1, IsASeq
<1>3. before \in Seq(Octet)
  <2>1. Dot \in Octet
    BY DEF Dot, Octet
  <2>2. <<>> \in Seq(Octet) /\ s.string \o <<Dot>> \in Seq(Octet)
    BY <1>1, <2>1
  <2> QED
    BY <2>2
<1>4. before \o label \in Seq(Octet)
  <2> HIDE DEF before, label
  <2> QED
    BY <1>2, <1>3
<1>5. CopyLabel(s) \in Reads
  <2>1. s.q + 1 + len \in Nat
    BY <1>1
  <2>2. CopyLabel(s) = [s EXCEPT !.string = before \o label, !.q = s.q + 1 + len]
    BY DEF CopyLabel
  <2> HIDE DEF before, label, len
  <2> QED
    BY <1>4, <2>1, <2>2 DEF Reads
<1>6. FollowPointer(s) \in Reads
  <2>1. At(s.q + 1) \in Nat
    <3>1. s.q + 1 \in Nat
      BY <1>1
    <3>2. At(s.q + 1) \in Octet
      BY <3>1, AtTyped
    <3> QED
      BY <3>2, OctetNat
  <2> DEFINE high == len % 64
             low == At(s.q + 1)
             to == high * 256 + low
  <2>2. high \in Nat
    <3> HIDE DEF len
    <3> QED
      BY <1>1
  <2>3. FollowPointer(s) = [s EXCEPT !.end = s.q + 2, !.q = to]
    BY DEF FollowPointer
  <2>4. s.q + 2 \in Nat
    BY <1>1
  <2>5. to \in Nat
    <3> HIDE DEF high, low
    <3>1. low \in Nat
      BY <2>1 DEF low
    <3> QED
      BY <2>2, <3>1
  <2> HIDE DEF to
  <2> QED
    BY <2>3, <2>4, <2>5 DEF Reads
<1> DEFINE t == IF At(s.q) < 64 THEN CopyLabel(s) ELSE FollowPointer(s)
<1>7. t \in Reads
  BY <1>5, <1>6
<1>8. Turn(s) = [t EXCEPT !.more = (At(t.q) # 0)]
  BY DEF Turn
<1> HIDE DEF t
<1> QED
  BY <1>7, <1>8 DEF Reads

LEMMA ReadingTurns ==
    ASSUME octets \in Seq(Octet), NEW from \in Nat
    PROVE  /\ Reading(from)[0] = Start(from)
           /\ \A n \in 1 .. Len(octets) : Reading(from)[n] = Read(Reading(from)[n - 1])
<1> DEFINE N == Len(octets)
           g == [n \in 1 .. N |-> [s \in Reads |-> Read(s)]]
           Equation(f) == f = [n \in 0 .. Len(octets) |->
                                  IF n = 0 THEN Start(from) ELSE Read(f[n - 1])]
<1>1. N \in Nat /\ Start(from) \in Reads
  <2>1. <<>> \in Seq(Octet)
    OBVIOUS
  <2> QED
    BY <2>1 DEF Start, Reads
<1>2. ASSUME NEW s \in Reads
      PROVE  Read(s) \in Reads
  BY TurnTyped DEF Read
<1>3. g \in [1 .. N -> [Reads -> Reads]]
  BY <1>2
<1>4. PICK f \in Runs(N, Reads, Start(from), g) : TRUE
  <2> HIDE DEF g, N
  <2> QED
    BY <1>1, <1>3, Iteration
<1>5. f \in [0 .. N -> Reads] /\ f[0] = Start(from)
  BY <1>4 DEF Runs
<1>6. ASSUME NEW n \in 0 .. N, n # 0
      PROVE  f[n] = Read(f[n - 1])
  <2>1. n \in 1 .. N /\ n - 1 \in 0 .. N
    BY <1>1, <1>6
  <2>2. f[n] = g[n][f[n - 1]] /\ f[n - 1] \in Reads
    BY <1>4, <1>5, <2>1 DEF Runs
  <2> QED
    BY <2>1, <2>2
<1>7. Equation(f)
  BY <1>5, <1>6
<1>8. Reading(from) = CHOOSE read : Equation(read)
  BY Zenon DEF Reading
<1>9. Equation(Reading(from))
  <2> HIDE DEF Equation
  <2> QED
    BY <1>7, <1>8, Zenon
<1>10. ASSUME NEW n \in 1 .. N
       PROVE  Reading(from)[n] = Read(Reading(from)[n - 1])
  <2>1. n \in 0 .. Len(octets) /\ n # 0
    BY <1>1
  <2> QED
    BY <1>9, <2>1
<1>11. Reading(from)[0] = Start(from)
  <2>1. 0 \in 0 .. N
    BY <1>1
  <2> QED
    BY <1>9, <2>1
<1> QED
  <2> HIDE DEF Equation
  <2> QED
    BY <1>10, <1>11, Zenon

\* What str_to_label has written.
Writes == [written : Seq(Nat), current : Seq(Nat)]

LEMMA WriteOctetTyped ==
    ASSUME NEW s \in Writes, NEW c \in Nat
    PROVE  WriteOctet(s, c) \in Writes
<1>1. s.written \in Seq(Nat) /\ s.current \in Seq(Nat) /\ <<>> \in Seq(Nat)
  BY DEF Writes
<1>2. s.written \o <<Len(s.current)>> \in Seq(Nat)
  BY <1>1
<1>3. CloseLabel(s) \in Seq(Nat) /\ Append(s.current, c) \in Seq(Nat)
  BY <1>1, <1>2 DEF CloseLabel
<1> QED
  BY <1>1, <1>3 DEF WriteOctet, Writes

LEMMA WritingTurns ==
    ASSUME NEW string \in Seq(Octet)
    PROVE  /\ Writing(string)[0] = [written |-> <<>>, current |-> <<>>]
           /\ \A n \in 1 .. Len(string) :
                Writing(string)[n] = WriteOctet(Writing(string)[n - 1], string[n])
<1> DEFINE N == Len(string)
           x == [written |-> <<>>, current |-> <<>>]
           g == [n \in 1 .. N |-> [s \in Writes |-> WriteOctet(s, string[n])]]
           Equation(f) == f = [n \in 0 .. Len(string) |->
                                  IF n = 0 THEN [written |-> <<>>, current |-> <<>>]
                                  ELSE WriteOctet(f[n - 1], string[n])]
<1>1. N \in Nat /\ x \in Writes
  <2>1. <<>> \in Seq(Nat)
    OBVIOUS
  <2> QED
    BY <2>1 DEF Writes
<1>2. ASSUME NEW n \in 1 .. N, NEW s \in Writes
      PROVE  WriteOctet(s, string[n]) \in Writes
  <2>1. string[n] \in Nat
    <3>1. string[n] \in Octet
      OBVIOUS
    <3> QED
      BY <3>1, OctetNat
  <2> QED
    BY <2>1, WriteOctetTyped
<1>3. g \in [1 .. N -> [Writes -> Writes]]
  BY <1>2
<1>4. PICK f \in Runs(N, Writes, x, g) : TRUE
  <2> HIDE DEF g, N, x
  <2> QED
    BY <1>1, <1>3, Iteration
<1>5. f \in [0 .. N -> Writes] /\ f[0] = x
  BY <1>4 DEF Runs
<1>6. ASSUME NEW n \in 0 .. N, n # 0
      PROVE  f[n] = WriteOctet(f[n - 1], string[n])
  <2>1. n \in 1 .. N /\ n - 1 \in 0 .. N
    BY <1>1, <1>6
  <2>2. f[n] = g[n][f[n - 1]] /\ f[n - 1] \in Writes
    BY <1>4, <1>5, <2>1 DEF Runs
  <2> QED
    BY <2>1, <2>2
<1>7. Equation(f)
  BY <1>5, <1>6
<1>8. Writing(string) = CHOOSE write : Equation(write)
  BY Zenon DEF Writing
<1>9. Equation(Writing(string))
  <2> HIDE DEF Equation
  <2> QED
    BY <1>7, <1>8, Zenon
<1>10. ASSUME NEW n \in 1 .. N
       PROVE  Writing(string)[n] = WriteOctet(Writing(string)[n - 1], string[n])
  <2>1. n \in 0 .. Len(string) /\ n # 0
    BY <1>1
  <2> QED
    BY <1>9, <2>1
<1>11. Writing(string)[0] = [written |-> <<>>, current |-> <<>>]
  <2>1. 0 \in 0 .. N
    BY <1>1
  <2> QED
    BY <1>9, <2>1
<1> QED
  <2> HIDE DEF Equation
  <2> QED
    BY <1>10, <1>11, Zenon

Questions == [name : Names, type : Types]

\* One question more.
KnownNext(known, q) == IF q.type \in DOMAIN Number THEN Append(known, q) ELSE known

LEMMA KnownTurns ==
    ASSUME NEW questions \in Seq(Questions)
    PROVE  /\ Known(questions)[0] = <<>>
           /\ \A n \in 1 .. Len(questions) :
                Known(questions)[n] = KnownNext(Known(questions)[n - 1], questions[n])
<1> DEFINE N == Len(questions)
           S == Seq(Questions)
           g == [n \in 1 .. N |-> [s \in S |-> KnownNext(s, questions[n])]]
           Equation(f) == f = [n \in 0 .. Len(questions) |->
                                  IF n = 0 THEN <<>>
                                  ELSE IF questions[n].type \in DOMAIN Number
                                       THEN Append(f[n - 1], questions[n]) ELSE f[n - 1]]
<1>1. N \in Nat /\ <<>> \in S
  OBVIOUS
<1>2. ASSUME NEW n \in 1 .. N, NEW s \in S
      PROVE  KnownNext(s, questions[n]) \in S
  <2>1. questions[n] \in Questions
    OBVIOUS
  <2> QED
    BY <2>1 DEF KnownNext
<1>3. g \in [1 .. N -> [S -> S]]
  <2> HIDE DEF S, N
  <2> QED
    BY <1>2
<1>4. PICK f \in Runs(N, S, <<>>, g) : TRUE
  <2> HIDE DEF g, N, S
  <2> QED
    BY <1>1, <1>3, Iteration
<1>5. f \in [0 .. N -> S] /\ f[0] = <<>>
  BY <1>4 DEF Runs
<1>6. ASSUME NEW n \in 0 .. N, n # 0
      PROVE  f[n] = KnownNext(f[n - 1], questions[n])
  <2>1. n \in 1 .. N /\ n - 1 \in 0 .. N
    BY <1>1, <1>6
  <2>2. f[n] = g[n][f[n - 1]] /\ f[n - 1] \in S
    BY <1>4, <1>5, <2>1 DEF Runs
  <2> QED
    BY <2>1, <2>2
<1>7. Equation(f)
  <2> HIDE DEF S
  <2> QED
    BY <1>5, <1>6 DEF KnownNext
<1>8. Known(questions) = CHOOSE known : Equation(known)
  BY Zenon DEF Known
<1>9. Equation(Known(questions))
  <2> HIDE DEF Equation
  <2> QED
    BY <1>7, <1>8, Zenon
<1>10. ASSUME NEW n \in 1 .. N
       PROVE  Known(questions)[n] = KnownNext(Known(questions)[n - 1], questions[n])
  <2>1. n \in 0 .. Len(questions) /\ n # 0
    BY <1>1
  <2> QED
    BY <1>9, <2>1 DEF KnownNext
<1>11. Known(questions)[0] = <<>>
  <2>1. 0 \in 0 .. N
    BY <1>1
  <2> QED
    BY <1>9, <2>1
<1> QED
  <2> HIDE DEF Equation
  <2> QED
    BY <1>10, <1>11, Zenon

-----------------------------------------------------------------------------
\* Where a packet has the labels of a name.

\* w is in s behind o.
Embedded(s, o, w) ==
    /\ o + Len(w) <= Len(s)
    /\ \A x \in 1 .. Len(w) : s[o + x] = w[x]

\* The labels a + 1 to b of a name, label m between at[m - 1] and at[m].
Spells(s, at, name, a, b) ==
    /\ at \in [a .. b -> 0 .. Len(s)]
    /\ \A m \in a + 1 .. b :
        /\ at[m] = at[m - 1] + 1 + Len(name[m])
        /\ s[at[m - 1] + 1] = Len(name[m])
        /\ \A j \in 1 .. Len(name[m]) : s[at[m - 1] + 1 + j] = name[m][j]

LEMMA EmbeddedFurther ==
    ASSUME NEW s \in Seq(Octet), NEW t \in Seq(Octet), NEW w \in Seq(Octet), NEW o \in Nat,
           Embedded(s, o, w), Embedded(t, 0, s)
    PROVE  Embedded(t, o, w)
<1>1. Len(s) <= Len(t) /\ o + Len(w) <= Len(s)
  BY DEF Embedded
<1>2. ASSUME NEW x \in 1 .. Len(w)
      PROVE  t[o + x] = w[x]
  <2>1. o + x \in 1 .. Len(s) /\ 0 + (o + x) = o + x
    BY <1>1
  <2>2. t[0 + (o + x)] = s[o + x] /\ s[o + x] = w[x]
    BY <2>1 DEF Embedded
  <2> QED
    BY <2>1, <2>2
<1> QED
  BY <1>1, <1>2 DEF Embedded

LEMMA SpellsFurther ==
    ASSUME NEW s \in Seq(Octet), NEW t \in Seq(Octet), Embedded(t, 0, s),
           NEW name \in Names, NEW a \in Nat, NEW b \in 0 .. Len(name), a <= b,
           NEW at, Spells(s, at, name, a, b)
    PROVE  Spells(t, at, name, a, b)
<1>1. Len(s) <= Len(t)
  BY DEF Embedded
<1>2. \A x \in 1 .. Len(s) : t[x] = s[x]
  BY DEF Embedded
<1>3. at \in [a .. b -> 0 .. Len(s)] /\ 0 .. Len(s) \subseteq 0 .. Len(t)
  BY <1>1 DEF Spells
<1>4. ASSUME NEW m \in a + 1 .. b
      PROVE  /\ at[m] = at[m - 1] + 1 + Len(name[m])
             /\ t[at[m - 1] + 1] = Len(name[m])
             /\ \A j \in 1 .. Len(name[m]) : t[at[m - 1] + 1 + j] = name[m][j]
  <2>1. m \in 1 .. Len(name) /\ m \in a .. b /\ m - 1 \in a .. b
    BY DEF Names
  <2>2. Len(name[m]) \in Nat
    BY <2>1, LabelOf
  <2>3. at[m] \in 0 .. Len(s) /\ at[m - 1] \in 0 .. Len(s)
    BY <1>3, <2>1
  <2>4. /\ at[m] = at[m - 1] + 1 + Len(name[m])
        /\ s[at[m - 1] + 1] = Len(name[m])
        /\ \A j \in 1 .. Len(name[m]) : s[at[m - 1] + 1 + j] = name[m][j]
    BY DEF Spells
  <2>5. at[m - 1] + 1 \in 1 .. Len(s)
    <3> DEFINE x == at[m - 1]
               y == Len(name[m])
    <3>1. x \in Nat /\ y \in Nat /\ at[m] = x + 1 + y /\ at[m] <= Len(s) /\ Len(s) \in Nat
      BY <2>2, <2>3, <2>4
    <3> HIDE DEF x, y
    <3>2. x + 1 \in 1 .. Len(s)
      BY <3>1
    <3> QED
      BY <3>2 DEF x
  <2>6. ASSUME NEW j \in 1 .. Len(name[m])
        PROVE  t[at[m - 1] + 1 + j] = name[m][j]
    <3>1. at[m - 1] + 1 + j \in 1 .. Len(s)
      <4> DEFINE x == at[m - 1]
                 y == Len(name[m])
      <4>1. x \in Nat /\ y \in Nat /\ j \in 1 .. y /\ x + 1 + y <= Len(s) /\ Len(s) \in Nat
        BY <2>2, <2>3, <2>4
      <4> HIDE DEF x, y
      <4>2. x + 1 + j \in 1 .. Len(s)
        BY <4>1
      <4> QED
        BY <4>2 DEF x
    <3> QED
      BY <1>2, <2>4, <3>1
  <2> QED
    BY <1>2, <2>4, <2>5, <2>6
<1>5. at \in [a .. b -> 0 .. Len(t)]
  BY <1>3
<1> QED
  BY <1>4, <1>5 DEF Spells

\* A label takes two octets or more.
LEMMA Spread ==
    ASSUME NEW s \in Seq(Octet), NEW name \in Names,
           NEW a \in Nat, NEW b \in 0 .. Len(name), a <= b,
           NEW at, Spells(s, at, name, a, b)
    PROVE  \A m \in a .. b : at[m] >= at[a] + 2 * (m - a)
<1> DEFINE T == {d \in Nat : d <= b - a => at[a + d] >= at[a] + 2 * d}
<1>1. at \in [a .. b -> 0 .. Len(s)]
  BY DEF Spells
<1>2. 0 \in T
  <2>1. at[a] \in Nat /\ a + 0 = a
    BY <1>1
  <2> QED
    BY <2>1
<1>3. ASSUME NEW d \in Nat, d < b - a, d \in T
      PROVE  d + 1 \in T
  <2>1. a + d + 1 \in a + 1 .. b /\ a + d \in a .. b /\ a + d + 1 \in 1 .. Len(name)
    BY <1>3 DEF Names
  <2>2. Len(name[a + d + 1]) \in 1 .. 63
    BY <2>1, LabelOf
  <2>3. at[a + d + 1] = at[a + d + 1 - 1] + 1 + Len(name[a + d + 1])
    BY <2>1 DEF Spells
  <2>4. a + d + 1 - 1 = a + d /\ a + (d + 1) = a + d + 1
    BY <2>1
  <2>5. at[a + d] \in Nat /\ at[a] \in Nat
    BY <1>1, <2>1
  <2>6. at[a + d] >= at[a] + 2 * d
    BY <1>3
  <2>7. at[a + d + 1] >= at[a] + 2 * (d + 1)
    <3> DEFINE x == Len(name[a + d + 1])
               y == at[a + d]
    <3>1. x \in 1 .. 63 /\ at[a + d + 1] = y + 1 + x /\ y \in Nat /\ y >= at[a] + 2 * d
      BY <2>2, <2>3, <2>4, <2>5, <2>6
    <3> HIDE DEF x, y
    <3> QED
      BY <2>5, <3>1
  <2> QED
    BY <2>4, <2>7
<1>4. \A d \in 0 .. b - a : d \in T
  <2>1. b - a \in Nat
    BY DEF Names
  <2> HIDE DEF T
  <2> QED
    BY <1>2, <1>3, <2>1, Upward
<1>5. ASSUME NEW m \in a .. b
      PROVE  at[m] >= at[a] + 2 * (m - a)
  <2>1. m - a \in 0 .. b - a /\ a + (m - a) = m
    BY DEF Names
  <2> QED
    BY <1>4, <2>1
<1> QED
  BY <1>5

\* Labels are the same in another name, and are found at the same place.
Alike(other, c, name, a, n) == \A m \in 1 .. n : other[c + m] = name[a + m]

Moved(to, c, d, at, a) == to = [m \in c .. d |-> at[m - c + a]]

LEMMA Shifted ==
    ASSUME NEW s \in Seq(Octet), NEW name, NEW other,
           NEW at, NEW a0 \in Nat, NEW b0 \in Nat, Spells(s, at, name, a0, b0),
           NEW a \in Nat, NEW b \in Nat, a0 <= a, a <= b, b <= b0,
           NEW c \in Nat, NEW d \in Nat,
           NEW n \in Nat, n = d - c, n = b - a, Alike(other, c, name, a, n),
           NEW to, Moved(to, c, d, at, a)
    PROVE  Spells(s, to, other, c, d)
<1>1. ASSUME NEW m \in c .. d
      PROVE  m - c + a \in a0 .. b0 /\ to[m] = at[m - c + a]
  BY DEF Moved
<1>2. at \in [a0 .. b0 -> 0 .. Len(s)]
  BY DEF Spells
<1>3. to \in [c .. d -> 0 .. Len(s)]
  BY <1>1, <1>2 DEF Moved
<1>4. ASSUME NEW m \in c + 1 .. d
      PROVE  /\ to[m] = to[m - 1] + 1 + Len(other[m])
             /\ s[to[m - 1] + 1] = Len(other[m])
             /\ \A j \in 1 .. Len(other[m]) : s[to[m - 1] + 1 + j] = other[m][j]
  <2> DEFINE l == m - c + a
  <2>1. m \in c .. d /\ m - 1 \in c .. d /\ l \in a0 + 1 .. b0 /\ m - 1 - c + a = l - 1
    OBVIOUS
  <2>2. to[m] = at[l] /\ to[m - 1] = at[l - 1]
    BY <2>1 DEF Moved
  <2>3. other[m] = name[l]
    <3>1. m - c \in 1 .. d - c /\ c + (m - c) = m /\ a + (m - c) = l
      OBVIOUS
    <3>2. other[c + (m - c)] = name[a + (m - c)]
      BY <3>1 DEF Alike
    <3> QED
      BY <3>1, <3>2
  <2> HIDE DEF l
  <2>4. /\ at[l] = at[l - 1] + 1 + Len(name[l])
        /\ s[at[l - 1] + 1] = Len(name[l])
        /\ \A j \in 1 .. Len(name[l]) : s[at[l - 1] + 1 + j] = name[l][j]
    BY <2>1 DEF Spells
  <2> QED
    BY <2>2, <2>3, <2>4
<1> QED
  BY <1>3, <1>4 DEF Spells

-----------------------------------------------------------------------------
\* What is written is spelled.

LEMMA WirePrefix ==
    ASSUME NEW name \in Names, NEW m \in 0 .. Len(name)
    PROVE  Embedded(Written(name), 0, Wire(name)[m])
<1> DEFINE W == Wire(name)
           N == Len(name)
           T == {d \in Nat : Embedded(W[m + d], 0, W[m])}
<1>1. N \in Nat /\ \A n \in 0 .. N : W[n] \in Seq(Octet)
  BY WireTurns DEF Names
<1>2. 0 \in T
  <2>1. m + 0 = m /\ W[m] \in Seq(Octet)
    BY <1>1
  <2>2. Embedded(W[m], 0, W[m])
    <3> HIDE DEF W
    <3> QED
      BY <2>1 DEF Embedded
  <2> QED
    BY <2>1, <2>2
<1>3. ASSUME NEW d \in Nat, d < N - m, d \in T
      PROVE  d + 1 \in T
  <2>1. m + d + 1 \in 1 .. N /\ m + d + 1 - 1 = m + d /\ m + d \in 0 .. N /\ m + (d + 1) = m + d + 1
    BY <1>1, <1>3
  <2>2. W[m + d + 1] = AddLabel(W[m + d], name[m + d + 1])
    BY <2>1, WireTurns
  <2>3. name[m + d + 1] \in Labels /\ W[m + d] \in Seq(Octet) /\ W[m + d + 1] \in Seq(Octet)
        /\ W[m] \in Seq(Octet)
    BY <1>1, <2>1, LabelOf
  <2>4. Embedded(W[m + d + 1], 0, W[m + d])
    <3> DEFINE v == W[m + d]
               l == name[m + d + 1]
    <3>1. v \in Seq(Octet) /\ l \in Labels
      BY <2>3
    <3> HIDE DEF v, l
    <3>2. Len(AddLabel(v, l)) = Len(v) + 1 + Len(l) /\ Len(l) \in Nat /\ Len(v) \in Nat
      <4>1. Len(l) \in Nat
        BY <3>1, LabelTyped
      <4>2. Len(v) \in Nat
        BY <3>1
      <4> QED
        BY <3>1, <4>1, <4>2, AddLabelTyped
    <3>3. \A j \in 1 .. Len(v) : AddLabel(v, l)[j] = v[j]
      BY <3>1, AddLabelTyped
    <3>4. Embedded(AddLabel(v, l), 0, v)
      BY <3>2, <3>3 DEF Embedded
    <3> QED
      BY <2>2, <3>4 DEF v, l
  <2>5. Embedded(W[m + d], 0, W[m])
    BY <1>3
  <2>6. Embedded(W[m + d + 1], 0, W[m])
    <3> HIDE DEF W
    <3> QED
      BY <2>3, <2>4, <2>5, EmbeddedFurther
  <2> QED
    BY <2>1, <2>6
<1>4. \A d \in 0 .. N - m : d \in T
  <2>1. N - m \in Nat
    BY <1>1
  <2> HIDE DEF T, N
  <2> QED
    BY <1>2, <1>3, <2>1, Upward
<1>5. N - m \in 0 .. N - m /\ m + (N - m) = N
  BY <1>1
<1> QED
  BY <1>4, <1>5 DEF Written

LEMMA WireSpells ==
    ASSUME NEW s \in Seq(Octet), NEW o \in Nat, NEW name \in Names,
           Embedded(s, o, Written(name))
    PROVE  Spells(s, [m \in 0 .. Len(name) |-> o + Len(Wire(name)[m])], name, 0, Len(name))
<1> DEFINE W == Wire(name)
           N == Len(name)
           at == [m \in 0 .. N |-> o + Len(W[m])]
           w == Written(name)
<1>1. N \in Nat /\ (\A n \in 0 .. N : W[n] \in Seq(Octet)) /\ w \in Seq(Octet)
  <2>1. N \in Nat /\ W \in [0 .. N -> Seq(Octet)]
    BY WireTurns DEF Names
  <2>2. w = W[N]
    BY DEF Written
  <2> HIDE DEF W, N, w
  <2> QED
    BY <2>1, <2>2
<1>2. ASSUME NEW m \in 0 .. N
      PROVE  /\ Embedded(s, o, W[m])
             /\ Len(W[m]) \in Nat /\ o + Len(W[m]) <= Len(s)
  <2> DEFINE v == W[m]
  <2>1. Embedded(w, 0, v) /\ v \in Seq(Octet)
    BY <1>1, WirePrefix
  <2> HIDE DEF v, w
  <2>2. Len(v) <= Len(w) /\ \A x \in 1 .. Len(v) : w[x] = v[x]
    BY <2>1 DEF Embedded
  <2>3. o + Len(w) <= Len(s) /\ \A x \in 1 .. Len(w) : s[o + x] = w[x]
    BY DEF Embedded, w
  <2>4. Len(v) \in Nat /\ Len(w) \in Nat
    BY <1>1, <2>1
  <2>5. Embedded(s, o, v)
    BY <2>2, <2>3, <2>4 DEF Embedded
  <2>6. o + Len(v) <= Len(s)
    BY <2>2, <2>3, <2>4
  <2> QED
    BY <2>4, <2>5, <2>6 DEF v
<1>3. at \in [0 .. N -> 0 .. Len(s)]
  <2>1. ASSUME NEW m \in 0 .. N
        PROVE  o + Len(W[m]) \in 0 .. Len(s)
    BY <1>2
  <2> HIDE DEF N
  <2> QED
    BY <2>1
<1>4. ASSUME NEW m \in 1 .. N
      PROVE  /\ at[m] = at[m - 1] + 1 + Len(name[m])
             /\ s[at[m - 1] + 1] = Len(name[m])
             /\ \A j \in 1 .. Len(name[m]) : s[at[m - 1] + 1 + j] = name[m][j]
  <2> DEFINE v == W[m - 1]
             l == name[m]
             u == AddLabel(v, l)
  <2>1. m \in 0 .. N /\ m - 1 \in 0 .. N
    BY <1>1
  <2>2. at[m] = o + Len(u) /\ at[m - 1] = o + Len(v) /\ Embedded(s, o, u)
    <3>1. W[m] = u
      BY WireTurns
    <3>2. at[m] = o + Len(W[m]) /\ at[m - 1] = o + Len(v)
      BY <2>1
    <3>3. Embedded(s, o, W[m])
      BY <1>2, <2>1
    <3> QED
      BY <3>1, <3>2, <3>3
  <2>3. v \in Seq(Octet) /\ l \in Labels
    BY <1>1, <2>1, LabelOf
  <2> HIDE DEF v, l
  <2>4. /\ Len(u) = Len(v) + 1 + Len(l)
        /\ u[Len(v) + 1] = Len(l)
        /\ \A j \in 1 .. Len(l) : u[Len(v) + 1 + j] = l[j]
    BY <2>3, AddLabelTyped
  <2>5. Len(v) \in Nat /\ Len(l) \in Nat
    BY <2>3, LabelTyped
  <2> HIDE DEF u, at
  <2>6. \A x \in 1 .. Len(u) : s[o + x] = u[x]
    BY <2>2 DEF Embedded
  <2>7. s[at[m - 1] + 1] = Len(l)
    <3>1. Len(v) + 1 \in 1 .. Len(u) /\ o + (Len(v) + 1) = o + Len(v) + 1
      BY <2>4, <2>5
    <3>2. s[o + (Len(v) + 1)] = u[Len(v) + 1]
      BY <2>6, <3>1
    <3> QED
      BY <2>2, <2>4, <3>1, <3>2
  <2>8. ASSUME NEW j \in 1 .. Len(l)
        PROVE  s[at[m - 1] + 1 + j] = l[j]
    <3>1. Len(v) + 1 + j \in 1 .. Len(u) /\ o + (Len(v) + 1 + j) = o + Len(v) + 1 + j
      BY <2>4, <2>5
    <3>2. s[o + (Len(v) + 1 + j)] = u[Len(v) + 1 + j]
      BY <2>6, <3>1
    <3> QED
      BY <2>2, <2>4, <3>1, <3>2
  <2>9. at[m] = at[m - 1] + 1 + Len(l)
    BY <2>2, <2>4, <2>5
  <2> QED
    BY <2>7, <2>8, <2>9 DEF l
<1>5. 0 + 1 = 1
  OBVIOUS
<1> HIDE DEF at
<1>6. Spells(s, at, name, 0, N)
  BY <1>3, <1>4, <1>5 DEF Spells
<1> QED
  BY <1>6 DEF at

-----------------------------------------------------------------------------
\* A name as the portal's other functions have it: its labels with dots between.

AddDotted(w, l) == (IF w = <<>> THEN <<>> ELSE w \o <<Dot>>) \o l

Dotted(name) ==
    LET dotted[n \in 0 .. Len(name)] ==
            IF n = 0 THEN <<>> ELSE AddDotted(dotted[n - 1], name[n])
    IN  dotted

LEMMA AddDottedTyped ==
    ASSUME NEW w \in Seq(Octet), NEW l \in Labels
    PROVE  /\ AddDotted(w, l) \in Seq(Octet)
           /\ w = <<>> => AddDotted(w, l) = l
           /\ w # <<>> =>
                /\ Len(AddDotted(w, l)) = Len(w) + 1 + Len(l)
                /\ \A j \in 1 .. Len(w) : AddDotted(w, l)[j] = w[j]
                /\ AddDotted(w, l)[Len(w) + 1] = Dot
                /\ \A j \in 1 .. Len(l) : AddDotted(w, l)[Len(w) + 1 + j] = l[j]
<1>1. Dot \in Octet /\ l \in Seq(Octet)
  BY LabelTyped DEF Dot, Octet
<1>2. CASE w = <<>>
  <2>1. <<>> \o l = l
    BY <1>1
  <2> QED
    BY <1>1, <1>2, <2>1 DEF AddDotted
<1>3. CASE w # <<>>
  <2> DEFINE v == w \o <<Dot>>
  <2>1. <<Dot>> \in Seq(Octet) /\ Len(<<Dot>>) = 1 /\ <<Dot>>[1] = Dot
    BY <1>1
  <2> HIDE DEF Dot
  <2>2. /\ v \in Seq(Octet) /\ Len(v) = Len(w) + 1
        /\ \A j \in 1 .. Len(w) : v[j] = w[j]
        /\ v[Len(w) + 1] = Dot
    BY <2>1
  <2>3. AddDotted(w, l) = v \o l
    BY <1>3 DEF AddDotted
  <2> HIDE DEF v
  <2>4. Len(v \o l) = Len(v) + Len(l) /\ v \o l \in Seq(Octet)
    BY <1>1, <2>2
  <2>5. \A j \in 1 .. Len(v) : (v \o l)[j] = v[j]
    BY <1>1, <2>2
  <2>6. ASSUME NEW j \in 1 .. Len(l)
        PROVE  (v \o l)[Len(v) + j] = l[j]
    BY <1>1, <2>2
  <2> QED
    BY <1>1, <1>3, <2>2, <2>3, <2>4, <2>5, <2>6
<1> QED
  BY <1>2, <1>3

LEMMA DottedTurns ==
    ASSUME NEW name \in Names
    PROVE  /\ \A n \in 0 .. Len(name) : Dotted(name)[n] \in Seq(Octet)
           /\ Dotted(name)[0] = <<>>
           /\ \A n \in 1 .. Len(name) :
                Dotted(name)[n] = AddDotted(Dotted(name)[n - 1], name[n])
<1> DEFINE N == Len(name)
           S == Seq(Octet)
           g == [n \in 1 .. N |-> [w \in S |-> AddDotted(w, name[n])]]
           Equation(f) == f = [n \in 0 .. Len(name) |->
                                  IF n = 0 THEN <<>> ELSE AddDotted(f[n - 1], name[n])]
<1>1. N \in Nat /\ <<>> \in S
  BY DEF Names
<1>2. ASSUME NEW n \in 1 .. N, NEW w \in S
      PROVE  AddDotted(w, name[n]) \in S
  BY LabelOf, AddDottedTyped
<1>3. g \in [1 .. N -> [S -> S]]
  BY <1>2
<1>4. PICK f \in Runs(N, S, <<>>, g) : TRUE
  <2> HIDE DEF S, g, N
  <2> QED
    BY <1>1, <1>3, Iteration
<1>5. f \in [0 .. N -> S] /\ f[0] = <<>>
  BY <1>4 DEF Runs
<1>6. ASSUME NEW n \in 0 .. N, n # 0
      PROVE  f[n] = AddDotted(f[n - 1], name[n])
  <2>1. n \in 1 .. N /\ n - 1 \in 0 .. N
    BY <1>1, <1>6
  <2>2. f[n] = g[n][f[n - 1]] /\ f[n - 1] \in S
    BY <1>4, <1>5, <2>1 DEF Runs
  <2> QED
    BY <2>1, <2>2
<1>7. Equation(f)
  <2> HIDE DEF S
  <2> QED
    BY <1>5, <1>6
<1>8. Dotted(name) = CHOOSE dotted : Equation(dotted)
  BY Zenon DEF Dotted
<1>9. Equation(Dotted(name))
  <2> HIDE DEF Equation
  <2> QED
    BY <1>7, <1>8, Zenon
<1> DEFINE w == Dotted(name)
<1>10. ASSUME NEW n \in 1 .. N
       PROVE  w[n] = AddDotted(w[n - 1], name[n])
  <2>1. n \in 0 .. Len(name) /\ n # 0
    BY <1>1
  <2> QED
    BY <1>9, <2>1
<1>11. w[0] = <<>>
  <2>1. 0 \in 0 .. N
    BY <1>1
  <2> QED
    BY <1>9, <2>1
<1>12. \A n \in 0 .. N : w[n] \in S
  <2> HIDE DEF w, S, N
  <2>1. w[0] \in S
    BY <1>1, <1>11
  <2>2. ASSUME NEW n \in 1 .. N, w[n - 1] \in S
        PROVE  w[n] \in S
    BY <1>2, <1>10, <2>2
  <2> QED
    BY <1>1, <2>1, <2>2, Stays
<1> QED
  BY <1>10, <1>11, <1>12, Zenon

LEMMA DottedLong ==
    ASSUME NEW name \in Names, NEW n \in 1 .. Len(name)
    PROVE  Dotted(name)[n] # <<>> /\ Dotted(name)[n] \in Seq(Octet)
<1> DEFINE w == Dotted(name)[n - 1]
           l == name[n]
<1>1. n \in 0 .. Len(name) /\ n - 1 \in 0 .. Len(name)
  BY DEF Names
<1>2. w \in Seq(Octet) /\ l \in Labels /\ Dotted(name)[n] = AddDotted(w, l)
  BY <1>1, DottedTurns, LabelOf
<1> HIDE DEF w, l
<1>3. Len(l) \in 1 .. 63 /\ Len(w) \in Nat
  BY <1>2, LabelTyped
<1>4. AddDotted(w, l) = l \/ Len(AddDotted(w, l)) = Len(w) + 1 + Len(l)
  BY <1>2, AddDottedTyped
<1>5. Len(AddDotted(w, l)) # 0
  <2>1. CASE AddDotted(w, l) = l
    <3> DEFINE y == Len(l)
    <3>1. y \in 1 .. 63 /\ Len(AddDotted(w, l)) = y
      BY <1>3, <2>1
    <3> HIDE DEF y
    <3> QED
      BY <3>1
  <2>2. CASE Len(AddDotted(w, l)) = Len(w) + 1 + Len(l)
    <3> DEFINE x == Len(w)
               y == Len(l)
    <3>1. x \in Nat /\ y \in Nat /\ Len(AddDotted(w, l)) = x + 1 + y
      BY <1>3, <2>2
    <3> HIDE DEF x, y
    <3> QED
      BY <3>1
  <2> QED
    BY <1>4, <2>1, <2>2
<1>6. AddDotted(w, l) # <<>>
  BY <1>5
<1> QED
  BY <1>1, <1>2, <1>6, AddDottedTyped

-----------------------------------------------------------------------------
\* label_to_str reads what is spelled.

\* What it has come to: it goes on, or it does unless there is a zero.
Going(q, w, e) == [q |-> q, string |-> w, end |-> e, more |-> TRUE]

Come(q, w, e) == [q |-> q, string |-> w, end |-> e, more |-> At(q) # 0]

\* It has copied b labels of the name in u turns, and goes on, or has come to the end.
GoingOn(f, u, at, name, b, e) == f[u] = Going(at[b], Dotted(name)[b], e)

HasCome(f, u, at, name, b, e) == f[u] = Come(at[b], Dotted(name)[b], e)

LEMMA ComeParts ==
    ASSUME NEW q, NEW w, NEW e
    PROVE  Come(q, w, e).q = q /\ Come(q, w, e).string = w /\ Come(q, w, e).end = e
  BY DEF Come

LEMMA ComeEnds ==
    ASSUME NEW q, NEW w, NEW e, At(q) = 0
    PROVE  Read(Come(q, w, e)) = Come(q, w, e)
  BY DEF Come, Read

LEMMA ComeGoes ==
    ASSUME NEW q, NEW w, NEW e, At(q) # 0
    PROVE  Come(q, w, e) = Going(q, w, e)
  BY DEF Come, Going

LEMMA GoingReads ==
    ASSUME NEW q, NEW w, NEW e
    PROVE  Read(Going(q, w, e)) = Turn(Going(q, w, e))
  BY DEF Going, Read

\* f is the turns of label_to_str.
Loop(f) == \A n \in 1 .. Len(octets) : f[n] = Read(f[n - 1])

\* There is a label at q.
LabelIn(q, l) ==
    /\ q + 1 + Len(l) <= Len(octets)
    /\ octets[q + 1] = Len(l)
    /\ \A j \in 1 .. Len(l) : octets[q + 1 + j] = l[j]

\* The turn that copies a label.
LEMMA Copies ==
    ASSUME octets \in Seq(Octet), NEW l \in Labels, NEW q \in Nat, LabelIn(q, l),
           NEW w, NEW e, NEW u, u = q + 1 + Len(l)
    PROVE  Turn(Going(q, w, e)) = Come(u, AddDotted(w, l), e)
<1> DEFINE s == Going(q, w, e)
           len == At(q)
           label == [n \in 1 .. len |-> At(q + n)]
           t == Going(q + 1 + Len(l), AddDotted(w, l), e)
<1>1. Len(l) \in 1 .. 63 /\ l \in Seq(Octet)
  BY LabelTyped
<1>2. len = Len(l)
  <2>1. q < Len(octets)
    BY <1>1 DEF LabelIn
  <2> QED
    BY <2>1 DEF At, LabelIn
<1>3. ASSUME NEW n \in 1 .. Len(l)
      PROVE  At(q + n) = l[n]
  <2>1. q + n < Len(octets) /\ q + n + 1 = q + 1 + n
    BY <1>1 DEF LabelIn
  <2>2. octets[q + 1 + n] = l[n]
    BY DEF LabelIn
  <2> QED
    BY <2>1, <2>2 DEF At
<1>4. label = l
  <2>1. l = [n \in 1 .. Len(l) |-> l[n]]
    BY <1>1
  <2> HIDE DEF len
  <2> QED
    BY <1>2, <1>3, <2>1
<1>5. CopyLabel(s) = t
  <2>1. CopyLabel(s) = [s EXCEPT !.string = AddDotted(w, label), !.q = q + 1 + len]
    BY DEF CopyLabel, AddDotted, Going
  <2>2. CopyLabel(s) = [s EXCEPT !.string = AddDotted(w, l), !.q = q + 1 + Len(l)]
    <3> HIDE DEF label, len
    <3> QED
      BY <1>2, <1>4, <2>1
  <2> QED
    BY <2>2 DEF Going
<1>6. Turn(s) = [t EXCEPT !.more = (At(t.q) # 0)]
  <2>1. s.q = q
    BY DEF Going
  <2>2. At(q) < 64
    <3> DEFINE y == Len(l)
    <3>1. y \in 1 .. 63 /\ len = y
      BY <1>1, <1>2
    <3> HIDE DEF s, t, label, y
    <3> QED
      BY <3>1
  <2> HIDE DEF s, t
  <2> QED
    BY <1>5, <2>1, <2>2 DEF Turn
<1> QED
  BY <1>6 DEF Going, Come

\* Label m is where at has it.
LabelAt(at, name, m) ==
    /\ name[m] \in Labels /\ Len(name[m]) \in 1 .. 63
    /\ at[m - 1] \in Nat /\ at[m] = at[m - 1] + 1 + Len(name[m])
    /\ at[m] <= Len(octets)
    /\ octets[at[m - 1] + 1] = Len(name[m])
    /\ \A j \in 1 .. Len(name[m]) : octets[at[m - 1] + 1 + j] = name[m][j]
    /\ At(at[m - 1]) = Len(name[m])

LEMMA SpelledLabel ==
    ASSUME octets \in Seq(Octet), NEW name \in Names,
           NEW a \in Nat, NEW b \in 0 .. Len(name),
           NEW at, Spells(octets, at, name, a, b), NEW m \in a + 1 .. b
    PROVE  LabelAt(at, name, m)
<1>1. m \in a .. b /\ m - 1 \in a .. b /\ m \in 1 .. Len(name)
  BY DEF Names
<1>2. at \in [a .. b -> 0 .. Len(octets)]
  BY DEF Spells
<1>3. name[m] \in Labels /\ Len(name[m]) \in 1 .. 63
  BY <1>1, LabelOf
<1>4. at[m - 1] \in Nat /\ at[m] \in Nat /\ at[m] <= Len(octets)
  BY <1>1, <1>2
<1>5. /\ at[m] = at[m - 1] + 1 + Len(name[m])
      /\ octets[at[m - 1] + 1] = Len(name[m])
      /\ \A j \in 1 .. Len(name[m]) : octets[at[m - 1] + 1 + j] = name[m][j]
  BY DEF Spells
<1>6. at[m - 1] < Len(octets)
  BY <1>3, <1>4, <1>5
<1>7. At(at[m - 1]) = Len(name[m])
  BY <1>5, <1>6 DEF At
<1> QED
  BY <1>3, <1>4, <1>5, <1>7 DEF LabelAt

\* Turns over the labels a + 1 to b, the first of which is turn t + 1.
LEMMA CopiesAll ==
    ASSUME octets \in Seq(Octet), NEW name \in Names,
           NEW a \in Nat, NEW b \in 0 .. Len(name), a < b,
           NEW at, Spells(octets, at, name, a, b),
           NEW f, Loop(f),
           NEW t \in Nat, NEW u \in Nat, u = t + (b - a), u <= Len(octets), NEW e,
           GoingOn(f, t, at, name, a, e)
    PROVE  HasCome(f, u, at, name, b, e)
<1> DEFINE St(m) == Going(at[m], Dotted(name)[m], e)
           To(m) == Come(at[m], Dotted(name)[m], e)
           T == {d \in Nat : f[t + d] = St(a + d)}
<1>1. at \in [a .. b -> 0 .. Len(octets)]
  BY DEF Spells
<1>2. ASSUME NEW d \in Nat, d < b - a, d \in T
      PROVE  f[t + d + 1] = To(a + d + 1)
  <2> DEFINE m == a + d + 1
             l == name[m]
             q == at[a + d]
  <2>1. /\ m \in a + 1 .. b /\ m \in 1 .. Len(name) /\ m - 1 = a + d
        /\ t + d + 1 \in 1 .. Len(octets) /\ t + d + 1 - 1 = t + d
    BY <1>2 DEF Names
  <2> HIDE DEF m
  <2>2. /\ at[m] = q + 1 + Len(l)
        /\ octets[q + 1] = Len(l)
        /\ \A j \in 1 .. Len(l) : octets[q + 1 + j] = l[j]
        /\ l \in Labels /\ q \in Nat /\ at[m] <= Len(octets)
    <3>1. /\ at[m] = at[m - 1] + 1 + Len(l)
          /\ octets[at[m - 1] + 1] = Len(l)
          /\ \A j \in 1 .. Len(l) : octets[at[m - 1] + 1 + j] = l[j]
          /\ l \in Labels /\ at[m - 1] \in Nat /\ at[m] <= Len(octets)
      <4>1. LabelAt(at, name, m)
        BY <2>1, SpelledLabel
      <4> QED
        BY <4>1 DEF LabelAt
    <3> QED
      BY <2>1, <3>1
  <2>3. q + 1 + Len(l) <= Len(octets)
    BY <2>2
  <2>4. Dotted(name)[m] = AddDotted(Dotted(name)[a + d], l)
    <3>1. Dotted(name)[m] = AddDotted(Dotted(name)[m - 1], name[m])
      BY <2>1, DottedTurns
    <3> QED
      BY <2>1, <3>1
  <2>5. f[t + d + 1] = Read(f[t + d]) /\ f[t + d] = St(a + d)
    BY <1>2, <2>1 DEF Loop
  <2>6. f[t + d + 1] = Turn(St(a + d))
    BY <2>5, GoingReads
  <2> DEFINE w == Dotted(name)[a + d]
  <2>7. f[t + d + 1] = Turn(Going(q, w, e))
    BY <2>6
  <2> DEFINE x == at[m]
  <2>8. f[t + d + 1] = Come(x, AddDotted(w, l), e)
    <3> HIDE DEF w, l
    <3> SUFFICES ASSUME NEW q1 \in Nat, q1 = q, NEW x1 \in Nat, x1 = x
                 PROVE  Turn(Going(q1, w, e)) = Come(x1, AddDotted(w, l), e)
      <4>1. x \in Nat
        BY <1>1, <2>1
      <4> HIDE DEF q, x
      <4> QED
        BY <2>2, <2>7, <4>1
    <3>1. x = q + 1 + Len(l)
      BY <2>2
    <3> HIDE DEF q, x
    <3>2. LabelIn(q1, l)
      BY <2>2, <2>3 DEF LabelIn
    <3>3. x1 = q1 + 1 + Len(l) /\ l \in Labels
      BY <2>2, <3>1
    <3> QED
      BY <3>2, <3>3, Copies
  <2>9. f[t + d + 1] = To(m)
    <3> HIDE DEF q, l
    <3> QED
      BY <2>4, <2>8
  <2> QED
    BY <2>9 DEF m
<1>3. 0 \in T
  <2>1. t + 0 = t /\ a + 0 = a
    OBVIOUS
  <2> QED
    BY <2>1 DEF GoingOn
<1> DEFINE D == b - a - 1
<1>4. D \in Nat /\ D < b - a /\ t + D + 1 = u /\ a + D + 1 = b
  BY DEF Names
<1>5. ASSUME NEW d \in Nat, d < D, d \in T
      PROVE  d + 1 \in T
  <2>1. d < b - a /\ t + (d + 1) = t + d + 1 /\ a + (d + 1) = a + d + 1
    BY <1>4, <1>5
  <2>2. f[t + d + 1] = To(a + d + 1)
    BY <1>2, <1>5, <2>1
  <2>3. At(at[a + d + 1]) # 0
    <3> DEFINE m == a + d + 2
    <3>1. m \in a + 1 .. b /\ m - 1 = a + d + 1
      BY <1>5 DEF Names
    <3> HIDE DEF m
    <3> DEFINE y == Len(name[m])
               x == At(at[m - 1])
    <3>2. x = y /\ y \in 1 .. 63
      <4>1. LabelAt(at, name, m)
        BY <3>1, SpelledLabel
      <4> QED
        BY <4>1 DEF LabelAt
    <3>3. x = At(at[a + d + 1])
      BY <3>1
    <3> HIDE DEF x, y
    <3>4. x # 0
      BY <3>2
    <3> QED
      BY <3>3, <3>4
  <2>4. f[t + d + 1] = St(a + d + 1)
    BY <2>2, <2>3, ComeGoes
  <2>5. f[t + (d + 1)] = St(a + (d + 1))
    <3> HIDE DEF St
    <3> QED
      BY <2>1, <2>4
  <2> QED
    BY <2>5
<1>6. D \in T
  <2>1. D \in 0 .. D
    BY <1>4
  <2> HIDE DEF T, D
  <2> QED
    BY <1>3, <1>4, <1>5, <2>1, Upward
<1>7. f[t + D + 1] = To(a + D + 1)
  <2> HIDE DEF T, D, To
  <2> QED
    BY <1>2, <1>4, <1>6
<1> QED
  <2> HIDE DEF D
  <2> QED
    BY <1>4, <1>7 DEF HasCome

\* The loop has ended, and what it has read stays.
LEMMA Stopped ==
    ASSUME NEW N \in Nat, NEW f, \A n \in 1 .. N : f[n] = Read(f[n - 1]),
           NEW t \in 0 .. N, Read(f[t]) = f[t]
    PROVE  f[N] = f[t]
<1> DEFINE T == {d \in Nat : f[t + d] = f[t]}
<1>1. 0 \in T
  <2>1. t + 0 = t
    OBVIOUS
  <2> QED
    BY <2>1
<1>2. ASSUME NEW d \in Nat, d < N - t, d \in T
      PROVE  d + 1 \in T
  <2>1. t + d + 1 \in 1 .. N /\ t + d + 1 - 1 = t + d /\ t + (d + 1) = t + d + 1
    BY <1>2
  <2>2. f[t + d + 1] = Read(f[t + d]) /\ f[t + d] = f[t]
    BY <1>2, <2>1
  <2>3. f[t + d + 1] = f[t]
    BY <2>2
  <2> QED
    BY <2>1, <2>3
<1>3. N - t \in Nat /\ N - t \in 0 .. N - t /\ t + (N - t) = N
  OBVIOUS
<1>4. N - t \in T
  <2> HIDE DEF T
  <2> QED
    BY <1>1, <1>2, <1>3, Upward
<1> QED
  BY <1>3, <1>4

LEMMA PointerTyped ==
    ASSUME NEW to \in Nat, to < 64 * 256
    PROVE  /\ to \div 256 \in 0 .. 63 /\ to % 256 \in 0 .. 255
           /\ ((192 + (to \div 256)) % 64) * 256 + (to % 256) = to
<1> DEFINE d == to \div 256
           r == to % 256
<1>1. to < 16384
  OBVIOUS
<1>2. to = 256 * d + r /\ d \in Nat /\ r \in 0 .. 255
  BY <1>1, Division
<1> HIDE DEF d, r
<1>3. d \in 0 .. 63
  BY <1>1, <1>2
<1>4. 192 + d \in Nat /\ 192 + d = 64 * 3 + d /\ d \in 0 .. 64 - 1
  BY <1>3
<1>5. (192 + d) % 64 = d
  BY <1>4, RemainderUnique
<1>6. ((192 + d) % 64) * 256 + r = to
  BY <1>2, <1>3, <1>5
<1> QED
  BY <1>2, <1>3, <1>6 DEF d, r

\* There is a pointer at o.
PointsTo(s, o, to) == s[o + 1] = 192 + (to \div 256) /\ s[o + 2] = to % 256

\* The turn that follows a pointer.
LEMMA Follows ==
    ASSUME octets \in Seq(Octet), NEW to \in Nat, to < 64 * 256,
           NEW q \in Nat, q + 2 <= Len(octets),
           PointsTo(octets, q, to), NEW w, NEW e, NEW u, u = q + 2
    PROVE  Turn(Going(q, w, e)) = Come(to, w, u)
<1> DEFINE s == Going(q, w, e)
           t == Going(to, w, q + 2)
           d == to \div 256
           r == to % 256
<1>1. /\ d \in 0 .. 63 /\ r \in 0 .. 255
      /\ ((192 + d) % 64) * 256 + r = to
  BY PointerTyped
<1> HIDE DEF d, r
<1>2. At(q) = 192 + d
  <2>1. q < Len(octets)
    OBVIOUS
  <2> QED
    BY <2>1 DEF At, PointsTo, d
<1>3. At(q + 1) = r
  <2>1. q + 1 < Len(octets) /\ q + 1 + 1 = q + 2
    OBVIOUS
  <2> QED
    BY <2>1 DEF At, PointsTo, r
<1>4. FollowPointer(s) = t
  <2>1. FollowPointer(s) = [s EXCEPT !.end = q + 2, !.q = (At(q) % 64) * 256 + At(q + 1)]
    BY DEF FollowPointer, Going
  <2>2. (At(q) % 64) * 256 + At(q + 1) = to
    BY <1>1, <1>2, <1>3
  <2> DEFINE x == (At(q) % 64) * 256 + At(q + 1)
  <2>3. FollowPointer(s) = [s EXCEPT !.end = q + 2, !.q = x] /\ x = to
    BY <2>1, <2>2
  <2> HIDE DEF x
  <2> QED
    BY <2>3 DEF Going
<1>5. Turn(s) = [t EXCEPT !.more = (At(t.q) # 0)]
  <2>1. s.q = q
    BY DEF Going
  <2>2. ~(At(q) < 64)
    BY <1>1, <1>2
  <2> HIDE DEF s, t
  <2> QED
    BY <1>4, <2>1, <2>2 DEF Turn
<1> QED
  BY <1>5 DEF Going, Come

\* A zero.
Closed(s, o) == o < Len(s) /\ s[o + 1] = 0

\* A name in full from o up to u.
ByItself(s, o, u, name) ==
    \E at \in [0 .. Len(name) -> 0 .. Len(s)] :
        /\ Spells(s, at, name, 0, Len(name)) /\ at[0] = o
        /\ Closed(s, at[Len(name)]) /\ u = at[Len(name)] + 1

\* A name from o up to u, the labels from k + 1 on are elsewhere.
ByPointer(s, o, u, name) ==
    \E k \in 0 .. Len(name) - 1, to \in Nat :
    \E at \in [0 .. k -> 0 .. Len(s)], on \in [k .. Len(name) -> 0 .. Len(s)] :
        /\ Spells(s, at, name, 0, k) /\ at[0] = o
        /\ to < 64 * 256 /\ PointsTo(s, at[k], to) /\ u = at[k] + 2
        /\ Spells(s, on, name, k, Len(name)) /\ on[k] = to
        /\ Closed(s, on[Len(name)])

LEMMA ReadsByItself ==
    ASSUME octets \in Seq(Octet), NEW name \in Names, name # <<>>,
           NEW o \in Nat, NEW u, ByItself(octets, o, u, name)
    PROVE  label_to_str(o) = [string |-> Dotted(name)[Len(name)], next |-> u]
<1> DEFINE N == Len(name)
           f == Reading(o)
           w == Dotted(name)[N]
<1>1. PICK at \in [0 .. N -> 0 .. Len(octets)] :
        /\ Spells(octets, at, name, 0, N) /\ at[0] = o
        /\ Closed(octets, at[N]) /\ u = at[N] + 1
  BY DEF ByItself
<1>2. /\ N \in Nat /\ 0 < N /\ 0 <= N /\ N \in 0 .. Len(name) /\ N \in 0 .. N
      /\ 0 \in Nat /\ N = 0 + (N - 0)
  BY DEF Names
<1>3. at[N] \in Nat /\ at[N] < Len(octets) /\ at[N] >= o + 2 * N
  <2> HIDE DEF N
  <2>1. \A m \in 0 .. N : at[m] >= at[0] + 2 * (m - 0)
    BY <1>1, <1>2, Spread
  <2>2. at[N] >= at[0] + 2 * (N - 0)
    BY <1>2, <2>1
  <2>3. at[N] \in Nat
    BY <1>1, <1>2
  <2> QED
    BY <1>1, <1>2, <2>2, <2>3 DEF Closed
<1>4. N <= Len(octets)
  BY <1>2, <1>3
<1>5. f[0] = Start(o) /\ Loop(f)
  BY ReadingTurns DEF Loop
<1>6. f[0] = Going(at[0], Dotted(name)[0], 0)
  <2>1. Dotted(name)[0] = <<>>
    BY DottedTurns
  <2> HIDE DEF f
  <2> QED
    BY <1>1, <1>5, <2>1 DEF Start, Going
<1>7. f[N] = Come(at[N], w, 0)
  <2> HIDE DEF f, N
  <2>1. GoingOn(f, 0, at, name, 0, 0)
    BY <1>6 DEF GoingOn
  <2>2. HasCome(f, N, at, name, N, 0)
    BY <1>1, <1>2, <1>4, <1>5, <2>1, CopiesAll
  <2> QED
    BY <2>2 DEF HasCome
<1>8. At(at[N]) = 0
  BY <1>1 DEF At, Closed
<1>9. f[Len(octets)] = f[N]
  <2>1. Read(f[N]) = f[N]
    BY <1>7, <1>8, ComeEnds
  <2>2. N \in 0 .. Len(octets) /\ Len(octets) \in Nat
    BY <1>2, <1>4
  <2> HIDE DEF f, N
  <2> QED
    BY <1>5, <2>1, <2>2, Stopped DEF Loop
<1>10. f[Len(octets)].string = w /\ f[Len(octets)].end = 0 /\ f[Len(octets)].q = at[N]
  <2> HIDE DEF f, w
  <2> QED
    BY <1>7, <1>9, ComeParts
<1> HIDE DEF w, N
<1> QED
  BY <1>1, <1>10 DEF label_to_str, w, N

LEMMA ReadsByPointer ==
    ASSUME octets \in Seq(Octet), NEW name \in Names,
           NEW o \in Nat, NEW u \in Nat, u + 4 <= Len(octets), ByPointer(octets, o, u, name)
    PROVE  label_to_str(o) = [string |-> Dotted(name)[Len(name)], next |-> u]
<1> DEFINE N == Len(name)
           L == Len(octets)
           f == Reading(o)
           w == Dotted(name)[N]
<1>1. PICK k \in 0 .. N - 1, to \in Nat :
      \E at \in [0 .. k -> 0 .. L], on \in [k .. N -> 0 .. L] :
        /\ Spells(octets, at, name, 0, k) /\ at[0] = o
        /\ to < 64 * 256 /\ PointsTo(octets, at[k], to) /\ u = at[k] + 2
        /\ Spells(octets, on, name, k, N) /\ on[k] = to
        /\ Closed(octets, on[N])
  BY DEF ByPointer
<1>2. PICK at \in [0 .. k -> 0 .. L], on \in [k .. N -> 0 .. L] :
        /\ Spells(octets, at, name, 0, k) /\ at[0] = o
        /\ to < 64 * 256 /\ PointsTo(octets, at[k], to) /\ u = at[k] + 2
        /\ Spells(octets, on, name, k, N) /\ on[k] = to
        /\ Closed(octets, on[N])
  BY <1>1
<1>3. /\ N \in Nat /\ N \in 0 .. Len(name) /\ 0 \in Nat /\ L \in Nat
      /\ k \in Nat /\ k < N /\ k <= N /\ k \in 0 .. Len(name) /\ 0 <= k
      /\ k \in 0 .. k /\ N \in k .. N
  BY DEF Names
<1>4. /\ at[k] \in Nat /\ at[k] + 2 <= L /\ at[k] >= o + 2 * k
      /\ on[N] \in Nat /\ on[N] < L /\ on[N] >= to + 2 * (N - k)
  <2> HIDE DEF N, L
  <2>1. at[k] \in Nat /\ on[N] \in Nat
    <3>1. at[k] \in 0 .. L /\ on[N] \in 0 .. L
      BY <1>2, <1>3
    <3> QED
      BY <3>1
  <2>2. at[k] >= at[0] + 2 * (k - 0)
    <3>1. \A m \in 0 .. k : at[m] >= at[0] + 2 * (m - 0)
      BY <1>2, <1>3, Spread
    <3> QED
      BY <1>3, <3>1
  <2>3. on[N] >= on[k] + 2 * (N - k)
    <3>1. \A m \in k .. N : on[m] >= on[k] + 2 * (m - k)
      BY <1>2, <1>3, Spread
    <3> QED
      BY <1>3, <3>1
  <2>4. on[N] < L
    BY <1>2 DEF Closed, L
  <2>5. at[k] + 2 <= L
    BY <1>2, <1>3, <2>1 DEF L
  <2> QED
    BY <1>2, <1>3, <2>1, <2>2, <2>3, <2>4, <2>5
<1>5. k + 1 + (N - k) <= L /\ k + 1 + (N - k) = N + 1 /\ k = 0 + (k - 0) /\ k + 1 - 1 = k
  <2> DEFINE x == at[k]
             y == on[N]
  <2>1. /\ x \in Nat /\ x + 2 <= L /\ x >= o + 2 * k
        /\ y \in Nat /\ y < L /\ y >= to + 2 * (N - k) /\ o \in Nat /\ to \in Nat
    BY <1>4
  <2> HIDE DEF x, y, N, L
  <2> QED
    BY <1>3, <2>1
<1>6. f[0] = Start(o) /\ Loop(f)
  BY ReadingTurns DEF Loop
<1>7. f[0] = Going(at[0], Dotted(name)[0], 0)
  <2>1. Dotted(name)[0] = <<>>
    BY DottedTurns
  <2> HIDE DEF f
  <2> QED
    BY <1>2, <1>6, <2>1 DEF Start, Going
<1> HIDE DEF f, N, L
<1>8. f[k] = Going(at[k], Dotted(name)[k], 0)
  <2>1. CASE k = 0
    BY <1>7, <2>1
  <2>2. CASE k > 0
    <3>1. k <= Len(octets) /\ 0 < k
      BY <1>3, <1>5, <2>2 DEF L
    <3>2. Spells(octets, at, name, 0, k) /\ Loop(f)
      BY <1>2, <1>6
    <3>3. f[k] = Come(at[k], Dotted(name)[k], 0)
      <4>1. GoingOn(f, 0, at, name, 0, 0)
        BY <1>7 DEF GoingOn
      <4>2. HasCome(f, k, at, name, k, 0)
        BY <1>3, <1>5, <3>1, <3>2, <4>1, CopiesAll
      <4> QED
        BY <4>2 DEF HasCome
    <3>4. At(at[k]) # 0
      <4> DEFINE d == to \div 256
      <4>1. d \in 0 .. 63
        BY <1>2, PointerTyped
      <4>2. at[k] < Len(octets)
        BY <1>3, <1>4 DEF L
      <4>3. At(at[k]) = 192 + d
        BY <1>2, <4>2 DEF At, PointsTo
      <4> HIDE DEF d
      <4> QED
        BY <4>1, <4>3
    <3> QED
      BY <3>3, <3>4, ComeGoes
  <2> QED
    BY <1>3, <2>1, <2>2
<1>9. f[k + 1] = Going(on[k], Dotted(name)[k], u)
  <2> DEFINE v == Dotted(name)[k]
             x == at[k]
  <2>1. k + 1 \in 1 .. L
    BY <1>3, <1>5
  <2>2. f[k + 1] = Turn(Going(x, v, 0))
    <3>1. f[k + 1] = Read(f[k])
      BY <1>5, <1>6, <2>1 DEF Loop, L
    <3> HIDE DEF v, x
    <3> QED
      BY <1>8, <3>1, GoingReads DEF v, x
  <2>3. /\ x \in Nat /\ x + 2 <= Len(octets) /\ u = x + 2
        /\ PointsTo(octets, x, to)
    BY <1>2, <1>4 DEF L
  <2> HIDE DEF v, x
  <2>4. f[k + 1] = Come(to, v, u)
    <3>1. Turn(Going(x, v, 0)) = Come(to, v, u)
      <4> SUFFICES ASSUME NEW x1 \in Nat, x1 = x
                   PROVE  Turn(Going(x1, v, 0)) = Come(to, v, u)
        BY <2>3
      <4> QED
        BY <1>2, <2>3, Follows
    <3> QED
      BY <2>2, <3>1, Zenon
  <2>5. At(to) # 0
    <3> DEFINE m == k + 1
               y == Len(name[m])
    <3>1. m \in k + 1 .. N /\ m - 1 = k
      BY <1>3
    <3> HIDE DEF m
    <3>2. At(on[m - 1]) = y /\ y \in 1 .. 63
      <4>1. Spells(octets, on, name, k, N)
        BY <1>2
      <4>2. LabelAt(on, name, m)
        BY <1>3, <3>1, <4>1, SpelledLabel
      <4> QED
        BY <4>2 DEF LabelAt
    <3>3. At(on[m - 1]) = At(to)
      BY <1>2, <3>1
    <3> HIDE DEF y
    <3>4. y # 0
      BY <3>2
    <3> QED
      BY <3>2, <3>3, <3>4
  <2> QED
    BY <1>2, <2>3, <2>4, <2>5, ComeGoes DEF v
<1> DEFINE z == N + 1
<1> HIDE DEF z
<1>10. f[z] = Come(on[N], w, u)
  <2> DEFINE t == k + 1
  <2>1. t \in Nat /\ z \in Nat /\ z = t + (N - k) /\ z <= Len(octets)
    BY <1>3, <1>5 DEF L, z
  <2>2. Spells(octets, on, name, k, N) /\ Loop(f)
    BY <1>2, <1>6
  <2> HIDE DEF t
  <2>3. GoingOn(f, t, on, name, k, u)
    BY <1>9 DEF t, GoingOn
  <2>4. HasCome(f, z, on, name, N, u)
    BY <1>3, <2>1, <2>2, <2>3, CopiesAll
  <2> QED
    BY <2>4 DEF HasCome
<1>11. At(on[N]) = 0
  BY <1>2 DEF At, Closed
<1>12. f[L] = f[z]
  <2>1. Read(f[z]) = f[z]
    <3> HIDE DEF w
    <3> QED
      BY <1>10, <1>11, ComeEnds
  <2>2. z \in 0 .. L
    BY <1>3, <1>5 DEF z
  <2> QED
    BY <1>3, <1>6, <2>1, <2>2, Stopped DEF Loop, L
<1>13. f[L].string = w /\ f[L].end = u
  <2> HIDE DEF w
  <2> QED
    BY <1>10, <1>12, ComeParts
<1>14. u # 0
  BY <1>2, <1>4
<1> HIDE DEF w
<1> QED
  BY <1>13, <1>14 DEF label_to_str, w, N, L, f

-----------------------------------------------------------------------------
\* str_to_label writes what has been read.

Wrote(written, current) == [written |-> written, current |-> current]

\* f is the turns of str_to_label.
WriteLoop(f, string) ==
    \A n \in 1 .. Len(string) : f[n] = WriteOctet(f[n - 1], string[n])

LEMMA WroteDot ==
    ASSUME NEW w, NEW l
    PROVE  WriteOctet(Wrote(w, l), Dot) = Wrote(AddLabel(w, l), <<>>)
  BY DEF WriteOctet, Wrote, AddLabel, CloseLabel

LEMMA WroteOctet ==
    ASSUME NEW w, NEW l, NEW c, c # Dot
    PROVE  WriteOctet(Wrote(w, l), c) = Wrote(w, Append(l, c))
  BY DEF WriteOctet, Wrote

LEMMA WroteLabel ==
    ASSUME NEW w, NEW l
    PROVE  CloseLabel(Wrote(w, l)) = AddLabel(w, l)
  BY DEF Wrote, AddLabel, CloseLabel

LEMMA AddDottedPrefix ==
    ASSUME NEW v \in Seq(Octet), NEW l \in Labels
    PROVE  Embedded(AddDotted(v, l), 0, v)
<1>1. Len(l) \in Nat /\ Len(v) \in Nat
  BY LabelTyped
<1>2. CASE v = <<>>
  <2>1. Len(v) = 0
    BY <1>2
  <2>2. Len(AddDotted(v, l)) \in Nat
    <3>1. AddDotted(v, l) \in Seq(Octet)
      BY AddDottedTyped
    <3> QED
      BY <3>1
  <2> QED
    BY <2>1, <2>2 DEF Embedded
<1>3. CASE v # <<>>
  <2> DEFINE u == AddDotted(v, l)
  <2>1. Len(u) = Len(v) + 1 + Len(l) /\ \A j \in 1 .. Len(v) : u[j] = v[j]
    BY <1>3, AddDottedTyped
  <2> HIDE DEF u
  <2>2. Len(v) <= Len(u)
    BY <1>1, <2>1
  <2>3. Embedded(u, 0, v)
    BY <1>1, <2>1, <2>2 DEF Embedded
  <2> QED
    BY <2>3 DEF u
<1> QED
  BY <1>2, <1>3

LEMMA DottedPrefix ==
    ASSUME NEW name \in Names, NEW m \in 0 .. Len(name)
    PROVE  Embedded(Dotted(name)[Len(name)], 0, Dotted(name)[m])
<1> DEFINE D == Dotted(name)
           N == Len(name)
           T == {d \in Nat : Embedded(D[m + d], 0, D[m])}
<1>1. N \in Nat /\ \A n \in 0 .. N : D[n] \in Seq(Octet)
  BY DottedTurns DEF Names
<1>2. 0 \in T
  <2>1. m + 0 = m /\ D[m] \in Seq(Octet)
    BY <1>1
  <2>2. Embedded(D[m], 0, D[m])
    <3> HIDE DEF D
    <3> QED
      BY <2>1 DEF Embedded
  <2> QED
    BY <2>1, <2>2
<1>3. ASSUME NEW d \in Nat, d < N - m, d \in T
      PROVE  d + 1 \in T
  <2>1. m + d + 1 \in 1 .. N /\ m + d + 1 - 1 = m + d /\ m + d \in 0 .. N /\ m + (d + 1) = m + d + 1
    BY <1>1, <1>3
  <2>2. D[m + d + 1] = AddDotted(D[m + d], name[m + d + 1])
    <3> DEFINE n == m + d + 1
    <3>1. n \in 1 .. Len(name) /\ n - 1 = m + d
      BY <2>1
    <3> HIDE DEF n
    <3>2. Dotted(name)[n] = AddDotted(Dotted(name)[n - 1], name[n])
      BY <3>1, DottedTurns
    <3> QED
      BY <3>1, <3>2 DEF n
  <2>3. name[m + d + 1] \in Labels /\ D[m + d] \in Seq(Octet) /\ D[m + d + 1] \in Seq(Octet)
        /\ D[m] \in Seq(Octet)
    BY <1>1, <2>1, LabelOf
  <2>4. Embedded(D[m + d + 1], 0, D[m + d])
    <3> DEFINE v == D[m + d]
               l == name[m + d + 1]
    <3>1. v \in Seq(Octet) /\ l \in Labels
      BY <2>3
    <3> HIDE DEF v, l
    <3>2. Embedded(AddDotted(v, l), 0, v)
      BY <3>1, AddDottedPrefix
    <3> QED
      BY <2>2, <3>2 DEF v, l
  <2>5. Embedded(D[m + d], 0, D[m])
    BY <1>3
  <2>6. Embedded(D[m + d + 1], 0, D[m])
    <3> HIDE DEF D
    <3> QED
      BY <2>3, <2>4, <2>5, EmbeddedFurther
  <2> QED
    BY <2>1, <2>6
<1>4. \A d \in 0 .. N - m : d \in T
  <2>1. N - m \in Nat
    BY <1>1
  <2> HIDE DEF T, N
  <2> QED
    BY <1>2, <1>3, <2>1, Upward
<1>5. N - m \in 0 .. N - m /\ m + (N - m) = N
  BY <1>1
<1> QED
  BY <1>4, <1>5

\* The octets of a label of a string, the first behind b.
InString(string, b, l) ==
    /\ b + Len(l) <= Len(string)
    /\ \A j \in 1 .. Len(l) : string[b + j] = l[j]

DotFree(l) == \A j \in 1 .. Len(l) : l[j] # Dot

LEMMA WritesLabel ==
    ASSUME NEW string \in Seq(Octet), NEW f, WriteLoop(f, string),
           NEW l \in Labels, DotFree(l), NEW b \in Nat, InString(string, b, l),
           NEW w, f[b] = Wrote(w, <<>>), NEW u, u = b + Len(l)
    PROVE  f[u] = Wrote(w, l)
<1> DEFINE N == Len(l)
           T == {j \in Nat : f[b + j] = Wrote(w, SubSeq(l, 1, j))}
<1>1. l \in Seq(Octet) /\ N \in Nat
  BY LabelTyped
<1>2. 0 \in T
  <2>1. SubSeq(l, 1, 0) = <<>> /\ b + 0 = b
    BY <1>1
  <2> QED
    BY <2>1
<1>3. ASSUME NEW j \in Nat, j < N, j \in T
      PROVE  j + 1 \in T
  <2>1. j + 1 \in 1 .. N /\ b + j + 1 - 1 = b + j /\ b + (j + 1) = b + j + 1
    BY <1>1, <1>3
  <2>2. b + j + 1 \in 1 .. Len(string)
    <3>1. b + N <= Len(string)
      BY DEF InString
    <3> QED
      BY <1>1, <2>1, <3>1
  <2>3. string[b + j + 1] = l[j + 1] /\ l[j + 1] # Dot
    <3>1. string[b + (j + 1)] = l[j + 1]
      BY <2>1 DEF InString
    <3>2. l[j + 1] # Dot
      BY <2>1 DEF DotFree
    <3> QED
      BY <2>1, <3>1, <3>2
  <2>4. f[b + j + 1] = WriteOctet(f[b + j], string[b + j + 1])
    BY <2>1, <2>2 DEF WriteLoop
  <2>5. f[b + j] = Wrote(w, SubSeq(l, 1, j))
    BY <1>3
  <2> DEFINE x == SubSeq(l, 1, j)
             c == l[j + 1]
  <2>6. f[b + j + 1] = WriteOctet(Wrote(w, x), c)
    BY <2>3, <2>4, <2>5
  <2>7. f[b + j + 1] = Wrote(w, Append(x, c))
    <3>1. c # Dot
      BY <2>3
    <3> HIDE DEF x, c
    <3> QED
      BY <2>6, <3>1, WroteOctet
  <2>8. Append(x, c) = SubSeq(l, 1, j + 1)
    BY <1>1, <2>1
  <2>9. f[b + (j + 1)] = Wrote(w, SubSeq(l, 1, j + 1))
    <3> HIDE DEF x, c
    <3> QED
      BY <2>1, <2>7, <2>8
  <2> QED
    BY <2>9
<1>4. N \in T
  <2>1. N \in 0 .. N
    BY <1>1
  <2> HIDE DEF T, N
  <2> QED
    BY <1>1, <1>2, <1>3, <2>1, Upward
<1>5. SubSeq(l, 1, N) = l
  BY <1>1
<1> QED
  BY <1>4, <1>5

LEMMA WritesBack ==
    ASSUME NEW name \in Names, name # <<>>, \A l \in Labels : DotFree(l)
    PROVE  str_to_label(Dotted(name)[Len(name)]) = Written(name) \o <<0>>
<1> DEFINE D == Dotted(name)
           W == Wire(name)
           N == Len(name)
           string == D[N]
           f == Writing(string)
           T == {d \in Nat : f[Len(D[d + 1])] = Wrote(W[d], name[d + 1])}
<1>1. N \in Nat /\ 1 <= N /\ 1 \in 1 .. N /\ N \in 0 .. N /\ N \in 1 .. N
  BY DEF Names
<1>2. \A n \in 0 .. N : D[n] \in Seq(Octet) /\ W[n] \in Seq(Octet)
  BY DottedTurns, WireTurns
<1>3. D[0] = <<>> /\ W[0] = <<>>
  BY DottedTurns, WireTurns
<1>4. f[0] = Wrote(<<>>, <<>>) /\ WriteLoop(f, string)
  <2>1. string \in Seq(Octet)
    BY <1>1, <1>2
  <2> HIDE DEF string
  <2> QED
    BY <2>1, WritingTurns DEF Wrote, WriteLoop
<1>5. ASSUME NEW m \in 1 .. N
      PROVE  /\ D[m] = AddDotted(D[m - 1], name[m]) /\ W[m] = AddLabel(W[m - 1], name[m])
             /\ D[m - 1] \in Seq(Octet) /\ D[m] \in Seq(Octet)
             /\ name[m] \in Labels /\ Embedded(string, 0, D[m]) /\ string \in Seq(Octet)
  <2>1. m \in 0 .. N /\ m - 1 \in 0 .. N /\ N \in 0 .. N
    BY <1>1
  <2>2. D[m] = AddDotted(D[m - 1], name[m]) /\ W[m] = AddLabel(W[m - 1], name[m])
    BY DottedTurns, WireTurns
  <2>3. D[m - 1] \in Seq(Octet) /\ D[m] \in Seq(Octet) /\ string \in Seq(Octet)
    BY <1>2, <2>1
  <2>4. name[m] \in Labels
    BY LabelOf
  <2>5. Embedded(string, 0, D[m])
    BY <2>1, DottedPrefix
  <2> QED
    BY <2>2, <2>3, <2>4, <2>5
<1> HIDE DEF string, f, W, D
<1>6. 0 \in T
  <2> DEFINE l == name[1]
  <2>1. D[1] = AddDotted(<<>>, l) /\ l \in Labels /\ Embedded(string, 0, D[1]) /\ string \in Seq(Octet)
    <3>1. 1 - 1 = 0
      OBVIOUS
    <3> QED
      BY <1>1, <1>3, <1>5, <3>1
  <2> HIDE DEF l
  <2>2. D[1] = l
    <3>1. <<>> \in Seq(Octet)
      OBVIOUS
    <3> QED
      BY <2>1, <3>1, AddDottedTyped
  <2>3. InString(string, 0, l)
    BY <2>1, <2>2 DEF Embedded, InString
  <2>4. Len(l) = 0 + Len(l) /\ DotFree(l)
    <3>1. Len(l) \in Nat
      BY <2>1, LabelTyped
    <3> QED
      BY <2>1, <3>1
  <2> DEFINE u == Len(l)
  <2>5. f[u] = Wrote(<<>>, l)
    BY <1>4, <2>1, <2>3, <2>4, WritesLabel
  <2>6. f[Len(D[0 + 1])] = Wrote(W[0], name[0 + 1])
    <3>1. 0 + 1 = 1
      OBVIOUS
    <3> QED
      BY <1>3, <2>2, <2>5, <3>1 DEF l
  <2> QED
    BY <2>6
<1>7. ASSUME NEW d \in Nat, d < N - 1, d \in T
      PROVE  d + 1 \in T
  <2> DEFINE m == d + 1
             l == name[m + 1]
             v == D[m]
             u == D[m + 1]
  <2>1. m \in 1 .. N /\ m + 1 \in 1 .. N /\ m - 1 = d /\ m + 1 - 1 = m
    BY <1>1, <1>7
  <2>2. f[Len(v)] = Wrote(W[d], name[m])
    BY <1>7
  <2> HIDE DEF m
  <2>3. v # <<>> /\ v \in Seq(Octet)
    BY <2>1, DottedLong DEF D
  <2>4. /\ u = AddDotted(v, l) /\ l \in Labels /\ u \in Seq(Octet)
        /\ Embedded(string, 0, u) /\ string \in Seq(Octet)
    <3>1. /\ D[m + 1] = AddDotted(D[m + 1 - 1], name[m + 1])
          /\ name[m + 1] \in Labels /\ D[m + 1] \in Seq(Octet)
          /\ Embedded(string, 0, D[m + 1]) /\ string \in Seq(Octet)
      BY <1>5, <2>1
    <3> QED
      BY <2>1, <3>1
  <2>5. W[m] = AddLabel(W[d], name[m])
    <3>1. W[m] = AddLabel(W[m - 1], name[m])
      BY <1>5, <2>1
    <3> QED
      BY <2>1, <3>1
  <2> HIDE DEF l, v, u
  <2>6. /\ Len(u) = Len(v) + 1 + Len(l) /\ u[Len(v) + 1] = Dot
        /\ \A j \in 1 .. Len(l) : u[Len(v) + 1 + j] = l[j]
    BY <2>3, <2>4, AddDottedTyped
  <2>7. Len(l) \in Nat /\ Len(v) \in Nat /\ Len(u) \in Nat /\ Len(string) \in Nat
    BY <2>3, <2>4, LabelTyped
  <2>8. Len(u) <= Len(string) /\ \A x \in 1 .. Len(u) : string[x] = u[x]
    BY <2>7, <2>4 DEF Embedded
  <2> DEFINE b == Len(v) + 1
  <2>9. f[b] = Wrote(W[m], <<>>)
    <3>1. b \in 1 .. Len(string) /\ b \in 1 .. Len(u) /\ b - 1 = Len(v)
      BY <2>6, <2>7, <2>8
    <3>2. string[b] = Dot
      BY <2>6, <2>8, <3>1
    <3>3. f[b] = WriteOctet(f[b - 1], string[b])
      BY <1>4, <3>1 DEF WriteLoop
    <3>4. f[b] = WriteOctet(Wrote(W[d], name[m]), Dot)
      BY <2>2, <3>1, <3>2, <3>3
    <3> HIDE DEF b
    <3> QED
      BY <2>5, <3>4, WroteDot
  <2>10. InString(string, b, l)
    <3>1. ASSUME NEW j \in 1 .. Len(l)
          PROVE  string[b + j] = l[j]
      <4>1. b + j \in 1 .. Len(u)
        BY <2>6, <2>7
      <4>2. u[b + j] = l[j]
        BY <2>6
      <4> QED
        BY <2>8, <4>1, <4>2
    <3>2. b + Len(l) <= Len(string)
      BY <2>6, <2>7, <2>8
    <3> HIDE DEF b
    <3> QED
      BY <3>1, <3>2 DEF InString
  <2>11. f[Len(u)] = Wrote(W[m], l)
    <3> SUFFICES ASSUME NEW c \in Nat, c = b, NEW z \in Nat, z = Len(u)
                 PROVE  f[z] = Wrote(W[m], l)
      BY <2>7
    <3>1. z = c + Len(l) /\ DotFree(l)
      BY <2>4, <2>6, <2>7
    <3> HIDE DEF b
    <3>2. f[c] = Wrote(W[m], <<>>) /\ InString(string, c, l)
      BY <2>9, <2>10
    <3> QED
      BY <1>4, <2>4, <3>1, <3>2, WritesLabel
  <2> QED
    BY <2>1, <2>11 DEF m, l, u
<1>8. N - 1 \in T
  <2>1. N - 1 \in Nat /\ N - 1 \in 0 .. N - 1
    BY <1>1
  <2> HIDE DEF T, N
  <2> QED
    BY <1>6, <1>7, <2>1, Upward
<1>9. f[Len(string)] = Wrote(W[N - 1], name[N])
  <2>1. N - 1 + 1 = N
    BY <1>1
  <2> QED
    BY <1>8, <2>1 DEF string
<1>10. CloseLabel(f[Len(string)]) = W[N]
  <2>1. W[N] = AddLabel(W[N - 1], name[N])
    BY <1>1, <1>5
  <2> QED
    BY <1>9, <2>1, WroteLabel
<1> QED
  BY <1>10 DEF str_to_label, Written, f, W, string, D

-----------------------------------------------------------------------------
\* What a packet is made of.

Joined(c, a, b) == c = a \o b

LEMMA ConcatParts ==
    ASSUME NEW a \in Seq(Octet), NEW b \in Seq(Octet), NEW c, Joined(c, a, b),
           NEW n, n = Len(a)
    PROVE  /\ c \in Seq(Octet) /\ Len(c) = n + Len(b)
           /\ Embedded(c, 0, a) /\ Embedded(c, n, b)
<1>1. c \in Seq(Octet) /\ Len(c) = Len(a) + Len(b) /\ Len(a) \in Nat /\ Len(b) \in Nat
  BY DEF Joined
<1>2. \A x \in 1 .. Len(a) : c[x] = a[x]
  BY DEF Joined
<1>3. ASSUME NEW x \in 1 .. Len(b)
      PROVE  c[Len(a) + x] = b[x]
  BY DEF Joined
<1>4. Embedded(c, 0, a)
  BY <1>1, <1>2 DEF Embedded
<1>5. Embedded(c, n, b)
  BY <1>1, <1>3 DEF Embedded
<1> QED
  BY <1>1, <1>4, <1>5

\* Four sequences behind one another; the inner ones end at n, m and k.
Packed(all, s, w, t, f, n, m, k) ==
    /\ all = s \o w \o t \o f
    /\ n = Len(s) /\ m = n + Len(w) /\ k = m + Len(t)

LEMMA Parts ==
    ASSUME NEW s \in Seq(Octet), NEW w \in Seq(Octet), NEW t \in Seq(Octet), NEW f \in Seq(Octet),
           NEW all, NEW n, NEW m, NEW k, Packed(all, s, w, t, f, n, m, k)
    PROVE  /\ all \in Seq(Octet) /\ Len(all) = k + Len(f)
           /\ Embedded(all, 0, s) /\ Embedded(all, n, w)
           /\ Embedded(all, m, t) /\ Embedded(all, k, f)
<1> DEFINE a == s \o w
           b == a \o t
<1>0. /\ n = Len(s) /\ m = n + Len(w) /\ k = m + Len(t)
      /\ n \in Nat /\ m \in Nat /\ k \in Nat
  BY DEF Packed
<1>1. Joined(a, s, w) /\ Joined(b, a, t) /\ Joined(all, b, f)
  BY DEF Joined, Packed
<1> HIDE DEF a, b
<1>2. a \in Seq(Octet) /\ Len(a) = m /\ Embedded(a, 0, s) /\ Embedded(a, n, w)
  BY <1>0, <1>1, ConcatParts
<1>3. b \in Seq(Octet) /\ Len(b) = k /\ Embedded(b, 0, a) /\ Embedded(b, m, t)
  BY <1>0, <1>1, <1>2, ConcatParts
<1>4. /\ all \in Seq(Octet) /\ Len(all) = k + Len(f) /\ Embedded(all, 0, b) /\ Embedded(all, k, f)
  <2> HIDE <1>2
  <2>1. SUFFICES ASSUME NEW c, c = all
                 PROVE  /\ c \in Seq(Octet) /\ Len(c) = k + Len(f)
                        /\ Embedded(c, 0, b) /\ Embedded(c, k, f)
    OBVIOUS
  <2> QED
    BY <1>0, <1>1, <1>3, <2>1, ConcatParts
<1>5. Embedded(all, 0, a)
  BY <1>2, <1>3, <1>4, <1>0, EmbeddedFurther
<1>6. Embedded(all, 0, s) /\ Embedded(all, n, w)
  BY <1>2, <1>4, <1>5, <1>0, EmbeddedFurther
<1>7. Embedded(all, m, t)
  BY <1>3, <1>4, <1>0, EmbeddedFurther
<1> QED
  BY <1>4, <1>6, <1>7

\* A name in full grows with its packet, and in full begins at each of its labels.
LEMMA ByItselfFurther ==
    ASSUME NEW s \in Seq(Octet), NEW t \in Seq(Octet), Embedded(t, 0, s),
           NEW name \in Names, NEW o, NEW u, ByItself(s, o, u, name)
    PROVE  ByItself(t, o, u, name)
<1> DEFINE N == Len(name)
<1>1. PICK at \in [0 .. N -> 0 .. Len(s)] :
        Spells(s, at, name, 0, N) /\ at[0] = o /\ Closed(s, at[N]) /\ u = at[N] + 1
  BY DEF ByItself
<1>2. N \in Nat /\ N \in 0 .. Len(name) /\ 0 <= N /\ N \in 0 .. N
  BY DEF Names
<1>3. Spells(t, at, name, 0, N)
  <2> HIDE DEF N
  <2> QED
    BY <1>1, <1>2, SpellsFurther
<1>4. Closed(t, at[N])
  <2>1. at[N] \in 0 .. Len(s)
    BY <1>1, <1>2
  <2> DEFINE x == at[N]
  <2>2. x \in Nat /\ x < Len(s) /\ s[x + 1] = 0
    BY <1>1, <2>1 DEF Closed
  <2> HIDE DEF x
  <2>3. x + 1 \in 1 .. Len(s) /\ 0 + (x + 1) = x + 1 /\ Len(s) <= Len(t)
    BY <2>2 DEF Embedded
  <2>4. t[x + 1] = s[x + 1]
    <3>1. t[0 + (x + 1)] = s[x + 1]
      BY <2>3 DEF Embedded
    <3> QED
      BY <2>3, <3>1
  <2>5. Closed(t, x)
    BY <2>2, <2>3, <2>4 DEF Closed
  <2> QED
    BY <2>5 DEF x
<1>5. at \in [0 .. N -> 0 .. Len(t)]
  BY <1>3 DEF Spells
<1> HIDE DEF N
<1> QED
  BY <1>1, <1>3, <1>4, <1>5 DEF ByItself, N

LEMMA ByItselfSuffix ==
    ASSUME NEW s \in Seq(Octet), NEW name \in Names, NEW at, NEW u,
           Spells(s, at, name, 0, Len(name)),
           Closed(s, at[Len(name)]), u = at[Len(name)] + 1,
           NEW n \in 1 .. Len(name)
    PROVE  ByItself(s, at[n - 1], u, SubSeq(name, n, Len(name)))
<1> DEFINE N == Len(name)
           rest == SubSeq(name, n, N)
           d == N - n + 1
           on == [m \in 0 .. d |-> at[m - 0 + (n - 1)]]
<1>1. N \in Nat /\ n \in Nat /\ n - 1 \in Nat /\ n - 1 <= N /\ d \in Nat /\ d - 0 = N - (n - 1) /\ 0 <= n - 1
  BY DEF Names
<1>2. rest \in Seq(Labels) /\ Len(rest) = d /\ \A m \in 1 .. d : rest[m] = name[m + n - 1]
  BY <1>1 DEF Names
<1>3. ASSUME NEW m \in 1 .. d - 0
      PROVE  rest[0 + m] = name[n - 1 + m]
  <2>1. m \in 1 .. d /\ 0 + m = m /\ m + n - 1 = n - 1 + m
    BY <1>1
  <2> HIDE DEF rest, d
  <2> QED
    BY <1>2, <2>1
<1>4. on[0] = at[n - 1] /\ on[d] = at[N]
  <2>1. 0 - 0 + (n - 1) = n - 1 /\ d - 0 + (n - 1) = N /\ 0 \in 0 .. d /\ d \in 0 .. d
    BY <1>1
  <2> HIDE DEF d, N
  <2> QED
    BY <2>1
<1>5. Spells(s, on, rest, 0, d)
  <2> DEFINE a == n - 1
  <2>1. a \in Nat /\ 0 <= a /\ a <= N /\ d = N - a /\ d = d - 0
    BY <1>1
  <2>2. Alike(rest, 0, name, a, d)
    BY <1>1, <1>3 DEF Alike
  <2>3. Moved(on, 0, d, at, a)
    BY DEF Moved
  <2>4. Spells(s, at, name, 0, N) /\ N \in Nat /\ d \in Nat
    BY <1>1
  <2> HIDE DEF on, a, N, d, rest
  <2>5. SUFFICES ASSUME NEW c \in Nat, c = 0
                 PROVE  Spells(s, on, rest, c, d)
    OBVIOUS
  <2>6. /\ Spells(s, at, name, c, N) /\ c <= a /\ d = d - c
        /\ Alike(rest, c, name, a, d) /\ Moved(on, c, d, at, a)
    BY <2>1, <2>2, <2>3, <2>4, <2>5
  <2>7. a \in Nat /\ N \in Nat /\ d \in Nat /\ a <= N /\ N <= N /\ d = N - a
    BY <2>1, <2>4
  <2> HIDE <2>5
  <2> QED
    BY <2>6, <2>7, Shifted
<1>6. on \in [0 .. d -> 0 .. Len(s)]
  <2> HIDE DEF on, d
  <2> QED
    BY <1>5 DEF Spells
<1>7. Closed(s, on[d]) /\ u = on[d] + 1
  <2> HIDE DEF on, d
  <2> QED
    BY <1>4
<1> HIDE DEF on
<1>8. ByItself(s, at[n - 1], u, rest)
  <2> HIDE DEF d, rest
  <2> QED
    BY <1>2, <1>4, <1>5, <1>6, <1>7 DEF ByItself
<1> QED
  BY <1>8

LEMMA ClosedFurther ==
    ASSUME NEW s \in Seq(Octet), NEW t \in Seq(Octet), Embedded(t, 0, s),
           NEW o \in Nat, Closed(s, o)
    PROVE  Closed(t, o)
<1>1. o < Len(s) /\ s[o + 1] = 0 /\ Len(s) <= Len(t)
  BY DEF Closed, Embedded
<1>2. o + 1 \in 1 .. Len(s) /\ 0 + (o + 1) = o + 1
  BY <1>1
<1>3. t[0 + (o + 1)] = s[o + 1]
  BY <1>2 DEF Embedded
<1> QED
  BY <1>1, <1>2, <1>3 DEF Closed

LEMMA PointsToFurther ==
    ASSUME NEW s \in Seq(Octet), NEW t \in Seq(Octet), Embedded(t, 0, s),
           NEW o \in Nat, o + 2 <= Len(s), NEW to, PointsTo(s, o, to)
    PROVE  PointsTo(t, o, to)
<1>1. \A x \in 1 .. Len(s) : t[x] = s[x]
  BY DEF Embedded
<1>2. o + 1 \in 1 .. Len(s) /\ o + 2 \in 1 .. Len(s)
  OBVIOUS
<1>3. t[o + 1] = s[o + 1] /\ t[o + 2] = s[o + 2]
  BY <1>1, <1>2
<1> QED
  BY <1>3 DEF PointsTo

LEMMA ByPointerFurther ==
    ASSUME NEW s \in Seq(Octet), NEW t \in Seq(Octet), Embedded(t, 0, s),
           NEW name \in Names, NEW o, NEW u \in Nat, u <= Len(s), ByPointer(s, o, u, name)
    PROVE  ByPointer(t, o, u, name)
<1> DEFINE N == Len(name)
<1>1. PICK k \in 0 .. N - 1, to \in Nat :
      \E at \in [0 .. k -> 0 .. Len(s)], on \in [k .. N -> 0 .. Len(s)] :
        /\ Spells(s, at, name, 0, k) /\ at[0] = o
        /\ to < 64 * 256 /\ PointsTo(s, at[k], to) /\ u = at[k] + 2
        /\ Spells(s, on, name, k, N) /\ on[k] = to
        /\ Closed(s, on[N])
  BY DEF ByPointer
<1>2. PICK at \in [0 .. k -> 0 .. Len(s)], on \in [k .. N -> 0 .. Len(s)] :
        /\ Spells(s, at, name, 0, k) /\ at[0] = o
        /\ to < 64 * 256 /\ PointsTo(s, at[k], to) /\ u = at[k] + 2
        /\ Spells(s, on, name, k, N) /\ on[k] = to
        /\ Closed(s, on[N])
  BY <1>1
<1>3. N \in Nat /\ k \in 0 .. N /\ N \in 0 .. N /\ 0 <= k /\ k <= N /\ k \in Nat /\ N \in k .. N
  BY DEF Names
<1>4. at[k] \in Nat /\ on[N] \in Nat
  <2>1. k \in 0 .. k /\ N \in k .. N
    BY <1>3
  <2> HIDE DEF N
  <2>2. at[k] \in 0 .. Len(s) /\ on[N] \in 0 .. Len(s)
    BY <2>1
  <2> QED
    BY <2>2
<1>5. Spells(t, at, name, 0, k) /\ Spells(t, on, name, k, N)
  BY <1>2, <1>3, SpellsFurther
<1>6. PointsTo(t, at[k], to) /\ Closed(t, on[N])
  BY <1>2, <1>4, ClosedFurther, PointsToFurther
<1>7. at \in [0 .. k -> 0 .. Len(t)] /\ on \in [k .. N -> 0 .. Len(t)]
  BY <1>5 DEF Spells
<1>8. \E at2 \in [0 .. k -> 0 .. Len(t)], on2 \in [k .. N -> 0 .. Len(t)] :
        /\ Spells(t, at2, name, 0, k) /\ at2[0] = o
        /\ to < 64 * 256 /\ PointsTo(t, at2[k], to) /\ u = at2[k] + 2
        /\ Spells(t, on2, name, k, N) /\ on2[k] = to
        /\ Closed(t, on2[N])
  BY <1>2, <1>5, <1>6, <1>7
<1> QED
  BY <1>8 DEF ByPointer

\* A question from o up to e.
Question(s, o, e, name, type) ==
    \E u \in Nat :
        /\ ByItself(s, o, u, name) \/ ByPointer(s, o, u, name)
        /\ e = u + 4 /\ Embedded(s, u, Footer[type])

LEMMA FooterTyped ==
    ASSUME NEW type \in Types
    PROVE  Footer[type] \in Seq(Octet) /\ Len(Footer[type]) = 4
<1>1. ASSUME NEW x \in Octet, NEW y \in Octet
      PROVE  <<x, y, 0, 1>> \in Seq(Octet) /\ Len(<<x, y, 0, 1>>) = 4
  BY DEF Octet
<1>2. 0 \in Octet /\ 1 \in Octet /\ 2 \in Octet /\ 28 \in Octet
  BY DEF Octet
<1>3. CASE type = "A"
  BY <1>1, <1>2, <1>3 DEF Footer
<1>4. CASE type = "NS"
  BY <1>1, <1>2, <1>4 DEF Footer
<1>5. CASE type = "URI"
  BY <1>1, <1>2, <1>5 DEF Footer
<1>6. CASE type = "other"
  BY <1>1, <1>2, <1>6 DEF Footer
<1> QED
  BY <1>3, <1>4, <1>5, <1>6 DEF Types

LEMMA QuestionFurther ==
    ASSUME NEW s \in Seq(Octet), NEW t \in Seq(Octet), Embedded(t, 0, s),
           NEW o, NEW e, NEW name \in Names, NEW type \in Types,
           Question(s, o, e, name, type)
    PROVE  Question(t, o, e, name, type)
<1>1. PICK u \in Nat :
        /\ ByItself(s, o, u, name) \/ ByPointer(s, o, u, name)
        /\ e = u + 4 /\ Embedded(s, u, Footer[type])
  BY DEF Question
<1>2. Footer[type] \in Seq(Octet)
  BY FooterTyped
<1>3. u <= Len(s)
  <2>1. u + Len(Footer[type]) <= Len(s) /\ Len(Footer[type]) \in Nat
    BY <1>1, <1>2 DEF Embedded
  <2> QED
    BY <2>1
<1>4. Embedded(t, u, Footer[type])
  BY <1>1, <1>2, EmbeddedFurther
<1>5. ByItself(t, o, u, name) \/ ByPointer(t, o, u, name)
  BY <1>1, <1>2, <1>3, ByItselfFurther, ByPointerFurther
<1> QED
  BY <1>1, <1>4, <1>5 DEF Question

\* The labels that a packet has been given, each behind the last.
LEMMA WrittenPlaces ==
    ASSUME NEW s \in Seq(Octet), NEW o \in Nat, NEW name \in Names,
           Embedded(s, o, Written(name))
    PROVE  \E at : /\ Spells(s, at, name, 0, Len(name))
                   /\ at[0] = o /\ at[Len(name)] = o + Len(Written(name))
                   /\ \A n \in 1 .. Len(name) : at[n - 1] = o + Len(Wire(name)[n - 1])
<1> DEFINE N == Len(name)
           W == Wire(name)
           at == [m \in 0 .. N |-> o + Len(W[m])]
<1>1. Spells(s, at, name, 0, N)
  BY WireSpells
<1>2. N \in Nat /\ W[0] = <<>> /\ W[N] = Written(name)
  BY WireTurns DEF Names, Written
<1> HIDE DEF N, W
<1>3. at[0] = o
  BY <1>2
<1>4. at[N] = o + Len(Written(name))
  BY <1>2
<1>5. \A n \in 1 .. N : at[n - 1] = o + Len(W[n - 1])
  BY <1>2
<1> HIDE DEF at
<1>6. \E at2 : /\ Spells(s, at2, name, 0, N)
               /\ at2[0] = o /\ at2[N] = o + Len(Written(name))
               /\ \A n \in 1 .. N : at2[n - 1] = o + Len(W[n - 1])
  BY <1>1, <1>3, <1>4, <1>5
<1> QED
  BY <1>6 DEF N, W

LEMMA WrittenTyped ==
    ASSUME NEW name \in Names
    PROVE  Written(name) \in Seq(Octet) /\ Len(Written(name)) \in Nat
<1>1. Len(name) \in Nat /\ Wire(name)[Len(name)] \in Seq(Octet)
  BY WireTurns DEF Names
<1> QED
  BY <1>1 DEF Written

\* all is s with a question behind it, which is written in full or ends in a pointer.
GrownInFull(all, s, labels, type, o, m, k) ==
    Packed(all, s, Written(labels), <<0>>, Footer[type], o, m, k)

GrownByPointer(all, s, labels, to, type, o, m, k) ==
    Packed(all, s, Written(labels), Pointer(to), Footer[type], o, m, k)

\* A question whose name is written in full.
LEMMA GrowsInFull ==
    ASSUME NEW s \in Seq(Octet), NEW labels \in Names, labels # <<>>, NEW type \in Types,
           NEW all, NEW o, NEW m, NEW k, GrownInFull(all, s, labels, type, o, m, k)
    PROVE  /\ all \in Seq(Octet) /\ Embedded(all, 0, s)
           /\ Question(all, o, Len(all), labels, type)
           /\ \A n \in 1 .. Len(labels) : \E u \in Nat :
                ByItself(all, o + Len(Wire(labels)[n - 1]), u, SubSeq(labels, n, Len(labels)))
<1> DEFINE N == Len(labels)
           w == Written(labels)
           zero == <<0>>
           f == Footer[type]
<1>0. Packed(all, s, w, zero, f, o, m, k)
  BY DEF GrownInFull
<1>1. w \in Seq(Octet) /\ Len(w) \in Nat /\ f \in Seq(Octet) /\ Len(f) = 4
  BY WrittenTyped, FooterTyped
<1>2. zero \in Seq(Octet) /\ Len(zero) = 1 /\ zero[1] = 0
  <2>1. 0 \in Octet
    BY DEF Octet
  <2> QED
    BY <2>1
<1> HIDE DEF w, zero, f
<1>3. /\ o \in Nat /\ m \in Nat /\ k \in Nat /\ N \in Nat
      /\ m = o + Len(w) /\ k = m + 1
  BY <1>0, <1>1, <1>2 DEF Names, Packed
<1>4. /\ all \in Seq(Octet) /\ Len(all) = k + Len(f)
      /\ Embedded(all, 0, s) /\ Embedded(all, o, w)
      /\ Embedded(all, m, zero) /\ Embedded(all, k, f)
  BY <1>0, <1>1, <1>2, Parts
<1>5. Closed(all, m)
  <2>1. 1 \in 1 .. Len(zero) /\ Len(all) \in Nat
    BY <1>2, <1>4
  <2>2. all[m + 1] = zero[1] /\ m + Len(zero) <= Len(all)
    BY <1>4, <2>1 DEF Embedded
  <2> QED
    BY <1>2, <1>3, <2>1, <2>2 DEF Closed
<1>6. PICK at : /\ Spells(all, at, labels, 0, N)
                /\ at[0] = o /\ at[N] = m
                /\ \A n \in 1 .. N : at[n - 1] = o + Len(Wire(labels)[n - 1])
  BY <1>3, <1>4, WrittenPlaces DEF w
<1>7. ByItself(all, o, k, labels)
  <2>1. at \in [0 .. N -> 0 .. Len(all)]
    BY <1>6 DEF Spells
  <2>2. Closed(all, at[N]) /\ k = at[N] + 1
    BY <1>3, <1>5, <1>6
  <2> QED
    BY <1>6, <2>1, <2>2 DEF ByItself
<1>8. Question(all, o, Len(all), labels, type)
  <2>1. Len(all) = k + 4 /\ Embedded(all, k, Footer[type]) /\ ByItself(all, o, k, labels)
    BY <1>1, <1>4, <1>7 DEF f
  <2> QED
    BY <1>3, <2>1 DEF Question
<1>9. ASSUME NEW n \in 1 .. N
      PROVE  ByItself(all, o + Len(Wire(labels)[n - 1]), k, SubSeq(labels, n, N))
  <2>1. Closed(all, at[N]) /\ k = at[N] + 1 /\ at[n - 1] = o + Len(Wire(labels)[n - 1])
    BY <1>3, <1>5, <1>6
  <2> QED
    BY <1>4, <1>6, <2>1, ByItselfSuffix
<1> HIDE DEF N
<1>10. \A n \in 1 .. N : \E u \in Nat :
          ByItself(all, o + Len(Wire(labels)[n - 1]), u, SubSeq(labels, n, N))
  BY <1>3, <1>9
<1> QED
  BY <1>4, <1>8, <1>10 DEF N

\* A question whose name ends in a pointer to a name in full.
LEMMA GrowsByPointer ==
    ASSUME NEW s \in Seq(Octet), NEW labels \in Names, NEW rest \in Names, rest # <<>>,
           NEW type \in Types, NEW to \in Nat, to < 64 * 256,
           NEW v, ByItself(s, to, v, rest),
           NEW all, NEW o, NEW m, NEW k, GrownByPointer(all, s, labels, to, type, o, m, k),
           NEW name \in Names, Joined(name, labels, rest)
    PROVE  /\ all \in Seq(Octet) /\ Embedded(all, 0, s)
           /\ Question(all, o, Len(all), name, type)
<1> DEFINE K == Len(labels)
           R == Len(rest)
           N == K + R
           w == Written(labels)
           t == Pointer(to)
           f == Footer[type]
<1>0. Packed(all, s, w, t, f, o, m, k)
  BY DEF GrownByPointer
<1>1. w \in Seq(Octet) /\ Len(w) \in Nat /\ f \in Seq(Octet) /\ Len(f) = 4
  BY WrittenTyped, FooterTyped
<1>2. t \in Seq(Octet) /\ Len(t) = 2 /\ t[1] = 192 + (to \div 256) /\ t[2] = to % 256
  <2>1. to \div 256 \in 0 .. 63 /\ to % 256 \in 0 .. 255
    BY PointerTyped
  <2> DEFINE d == to \div 256
             r == to % 256
  <2>2. 192 + d \in Octet /\ r \in Octet
    <3> HIDE DEF d, r
    <3> QED
      BY <2>1 DEF Octet, d, r
  <2> HIDE DEF d, r
  <2>3. <<192 + d, r>> \in Seq(Octet) /\ Len(<<192 + d, r>>) = 2
    BY <2>2
  <2> QED
    BY <2>3 DEF Pointer, d, r
<1> HIDE DEF w, t, f
<1>3. /\ o \in Nat /\ m \in Nat /\ k \in Nat /\ K \in Nat /\ R \in Nat /\ N \in Nat /\ 0 < R
      /\ m = o + Len(w) /\ k = m + 2
  <2>1. K \in Nat /\ R \in Nat /\ N \in Nat /\ 0 < R
    BY DEF Names
  <2>2. o = Len(s) /\ m = o + Len(w) /\ k = m + Len(t)
    BY <1>0 DEF Packed
  <2>3. Len(s) \in Nat /\ Len(t) = 2
    BY <1>2
  <2> HIDE DEF K, R, N
  <2>4. o \in Nat /\ m \in Nat /\ k \in Nat /\ k = m + 2
    BY <1>1, <2>2, <2>3
  <2> QED
    BY <2>1, <2>2, <2>4
<1>4. /\ Len(name) = N
      /\ \A j \in 1 .. K : name[j] = labels[j]
      /\ \A j \in 1 .. R : name[K + j] = rest[j]
  BY DEF Names, Joined
<1>5. /\ all \in Seq(Octet) /\ Len(all) = k + Len(f)
      /\ Embedded(all, 0, s) /\ Embedded(all, o, w)
      /\ Embedded(all, m, t) /\ Embedded(all, k, f)
  BY <1>0, <1>1, <1>2, Parts
<1>6. PointsTo(all, m, to)
  <2>0. 1 \in 1 .. Len(t) /\ 2 \in 1 .. Len(t)
    BY <1>2
  <2>1. all[m + 1] = t[1] /\ all[m + 2] = t[2]
    BY <1>5, <2>0 DEF Embedded
  <2> QED
    BY <1>2, <2>1 DEF PointsTo
<1> HIDE DEF N
<1>7. PICK at : Spells(all, at, labels, 0, K) /\ at[0] = o /\ at[K] = m
  <2>1. \E at : /\ Spells(all, at, labels, 0, K) /\ at[0] = o /\ at[K] = m
                /\ \A n \in 1 .. K : at[n - 1] = o + Len(Wire(labels)[n - 1])
    BY <1>3, <1>5, WrittenPlaces DEF w
  <2> QED
    BY <2>1
<1>8. PICK on \in [0 .. R -> 0 .. Len(s)] :
        /\ Spells(s, on, rest, 0, R) /\ on[0] = to
        /\ Closed(s, on[R])
  BY DEF ByItself
<1>9. at \in [0 .. K -> 0 .. Len(all)] /\ Spells(all, at, name, 0, K)
  <2>1. at \in [0 .. K -> 0 .. Len(all)]
    BY <1>7 DEF Spells
  <2>2. \A j \in 0 + 1 .. K : name[j] = labels[j]
    BY <1>3, <1>4
  <2>3. \A j \in 0 + 1 .. K :
          /\ at[j] = at[j - 1] + 1 + Len(labels[j])
          /\ all[at[j - 1] + 1] = Len(labels[j])
          /\ \A x \in 1 .. Len(labels[j]) : all[at[j - 1] + 1 + x] = labels[j][x]
    BY <1>7 DEF Spells
  <2>4. ASSUME NEW j \in 0 + 1 .. K
        PROVE  /\ at[j] = at[j - 1] + 1 + Len(name[j])
               /\ all[at[j - 1] + 1] = Len(name[j])
               /\ \A x \in 1 .. Len(name[j]) : all[at[j - 1] + 1 + x] = name[j][x]
    <3>1. name[j] = labels[j]
      BY <2>2
    <3> QED
      BY <2>3, <3>1
  <2> QED
    BY <2>1, <2>4 DEF Spells
<1>10. Spells(all, on, rest, 0, R)
  <2>1. R \in 0 .. Len(rest) /\ 0 <= R
    BY <1>3
  <2> HIDE DEF R
  <2> QED
    BY <1>5, <1>8, <2>1, SpellsFurther
<1> DEFINE there == [j \in K .. N |-> on[j - K + 0]]
<1>11. Spells(all, there, name, K, N)
  <2>1. SUFFICES ASSUME NEW z \in Nat, z = 0
                 PROVE  Spells(all, there, name, K, N)
    OBVIOUS
  <2>2. Moved(there, K, N, on, z)
    BY <2>1 DEF Moved
  <2>3. Alike(name, K, rest, z, R)
    BY <1>3, <1>4, <2>1 DEF Alike
  <2>4. Spells(all, on, rest, z, R)
    BY <1>10, <2>1
  <2>5. z <= z /\ z <= R /\ R <= R /\ R = N - K /\ R = R - z
    BY <1>3, <2>1 DEF N
  <2>6. K <= N
    BY <1>3 DEF N
  <2> HIDE <2>1
  <2> HIDE DEF there, K, R
  <2> QED
    BY <1>3, <1>5, <2>2, <2>3, <2>4, <2>5, <2>6, Shifted
<1>12. there[K] = to /\ there[N] = on[R]
  <2>1. K \in K .. N /\ N \in K .. N /\ K - K + 0 = 0 /\ N - K + 0 = R
    BY <1>3 DEF N
  <2> HIDE DEF K, R
  <2> QED
    BY <1>8, <2>1
<1>13. Closed(all, on[R])
  <2>1. on[R] \in Nat
    BY <1>3, <1>8
  <2> QED
    BY <1>5, <1>8, <2>1, ClosedFurther
<1>14. ByPointer(all, o, k, name)
  <2>1. there \in [K .. N -> 0 .. Len(all)]
    BY <1>11 DEF Spells
  <2>2. K \in 0 .. N - 1
    BY <1>3 DEF N
  <2>3. /\ PointsTo(all, at[K], to) /\ k = at[K] + 2
        /\ Closed(all, there[N])
    BY <1>3, <1>6, <1>7, <1>12, <1>13
  <2> HIDE DEF K, there
  <2>4. \E at2 \in [0 .. K -> 0 .. Len(all)], on2 \in [K .. N -> 0 .. Len(all)] :
          /\ Spells(all, at2, name, 0, K) /\ at2[0] = o
          /\ to < 64 * 256 /\ PointsTo(all, at2[K], to) /\ k = at2[K] + 2
          /\ Spells(all, on2, name, K, N) /\ on2[K] = to
          /\ Closed(all, on2[N])
    BY <1>7, <1>9, <1>11, <1>12, <2>1, <2>3
  <2> QED
    BY <1>4, <2>2, <2>4 DEF ByPointer
<1>15. Question(all, o, Len(all), name, type)
  <2>1. Len(all) = k + 4 /\ Embedded(all, k, Footer[type]) /\ ByPointer(all, o, k, name)
    BY <1>1, <1>5, <1>14 DEF f
  <2> QED
    BY <1>3, <2>1 DEF Question
<1> QED
  BY <1>5, <1>15

-----------------------------------------------------------------------------
\* A packet's questions lie behind one another, and a target that is not
\* chained has its name in full.

LaidOut(s, at, questions) ==
    /\ at \in [1 .. Len(questions) + 1 -> Nat]
    /\ at[1] = HeaderLen /\ at[Len(questions) + 1] = Len(s)
    /\ \A n \in 1 .. Len(questions) :
        Question(s, at[n], at[n + 1], questions[n].name, questions[n].type)

Target(s, t) ==
    /\ t.o \in Nat /\ t.name \in Names /\ t.name # <<>>
    /\ ~ t.chain => \E u \in Nat : ByItself(s, t.o, u, t.name)

Packet(s, questions, names) ==
    /\ s \in Seq(Octet) /\ questions \in Seq(Questions)
    /\ \A n \in 1 .. Len(questions) : questions[n].name # <<>>
    /\ \A t \in names : Target(s, t)
    /\ \E at : LaidOut(s, at, questions)

LEMMA EmptyPacket ==
    Packet(Empty, <<>>, {})
<1> DEFINE at == [n \in 1 .. 1 |-> HeaderLen]
<1>1. Empty \in Seq(Octet) /\ Len(Empty) = HeaderLen
  <2>1. Empty \in [1 .. 12 -> Octet]
    BY DEF Empty, HeaderLen, Octet
  <2> QED
    BY <2>1 DEF Empty, HeaderLen
<1>2. LaidOut(Empty, at, <<>>)
  <2>1. Len(<<>>) = 0 /\ 0 + 1 = 1 /\ at \in [1 .. 1 -> Nat] /\ at[1] = HeaderLen
    BY DEF HeaderLen
  <2> HIDE DEF at
  <2> QED
    BY <1>1, <2>1 DEF LaidOut
<1> HIDE DEF at
<1> QED
  BY <1>1, <1>2 DEF Packet

LEMMA TargetFurther ==
    ASSUME NEW s \in Seq(Octet), NEW t \in Seq(Octet), Embedded(t, 0, s), NEW x, Target(s, x)
    PROVE  Target(t, x)
<1>1. /\ x.o \in Nat /\ x.name \in Names /\ x.name # <<>>
      /\ ~ x.chain => \E u \in Nat : ByItself(s, x.o, u, x.name)
  BY Zenon DEF Target
<1>2. (\E u \in Nat : ByItself(s, x.o, u, x.name)) => \E u \in Nat : ByItself(t, x.o, u, x.name)
  <2>1. SUFFICES ASSUME NEW u \in Nat, ByItself(s, x.o, u, x.name)
                 PROVE  ByItself(t, x.o, u, x.name)
    OBVIOUS
  <2>2. SUFFICES ASSUME NEW o, o = x.o, NEW name \in Names, name = x.name
                 PROVE  ByItself(t, o, u, name)
    BY <1>1
  <2>3. ByItself(s, o, u, name)
    BY <2>1, <2>2
  <2> HIDE <2>1, <2>2, <1>1
  <2> QED
    BY <2>3, ByItselfFurther
<1> QED
  BY <1>1, <1>2, Zenon DEF Target

LEMMA AppendParts ==
    ASSUME NEW questions \in Seq(Questions), NEW q \in Questions,
           NEW more, more = questions \o <<q>>
    PROVE  /\ more \in Seq(Questions) /\ Len(more) = Len(questions) + 1
           /\ \A n \in 1 .. Len(questions) : more[n] = questions[n]
           /\ more[Len(questions) + 1] = q
  OBVIOUS

LEMMA LaidOutFurther ==
    ASSUME NEW s \in Seq(Octet), NEW t \in Seq(Octet), Embedded(t, 0, s),
           NEW questions \in Seq(Questions), NEW at, LaidOut(s, at, questions),
           NEW q \in Questions, Question(t, Len(s), Len(t), q.name, q.type),
           NEW more, Joined(more, questions, <<q>>)
    PROVE  \E on : LaidOut(t, on, more)
<1> DEFINE N == Len(questions)
           e == Len(t)
           on == [n \in 1 .. N + 2 |-> IF n = N + 2 THEN e ELSE at[n]]
<1>1. /\ more \in Seq(Questions) /\ Len(more) = N + 1 /\ N \in Nat
      /\ \A n \in 1 .. N : more[n] = questions[n]
      /\ more[N + 1] = q
  BY AppendParts DEF Joined
<1>2. /\ at \in [1 .. N + 1 -> Nat] /\ at[1] = HeaderLen /\ at[N + 1] = Len(s) /\ e \in Nat
      /\ \A n \in 1 .. N : Question(s, at[n], at[n + 1], questions[n].name, questions[n].type)
  BY DEF LaidOut
<1> HIDE DEF N, e
<1>3. /\ on \in [1 .. N + 1 + 1 -> Nat] /\ on[1] = HeaderLen /\ on[N + 1 + 1] = e
      /\ on[N + 1] = Len(s)
      /\ \A n \in 1 .. N : on[n] = at[n] /\ on[n + 1] = at[n + 1]
  <2>1. N + 1 + 1 = N + 2 /\ 1 \in 1 .. N + 1 /\ N + 1 \in 1 .. N + 1 /\ 1 \in 1 .. N + 2
        /\ N + 1 \in 1 .. N + 2 /\ N + 2 \in 1 .. N + 2 /\ N + 1 # N + 2 /\ 1 # N + 2
    BY <1>1
  <2>2. \A n \in 1 .. N + 1 : on[n] = at[n]
    BY <1>1
  <2>3. \A n \in 1 .. N + 2 : n # N + 2 => n \in 1 .. N + 1
    BY <1>1
  <2>4. on \in [1 .. N + 2 -> Nat]
    BY <1>2, <2>3
  <2>5. \A n \in 1 .. N : n \in 1 .. N + 1 /\ n + 1 \in 1 .. N + 1
    BY <1>1
  <2>6. on[N + 2] = e
    BY <2>1
  <2> HIDE DEF on
  <2> QED
    BY <1>2, <2>1, <2>2, <2>4, <2>5, <2>6
<1> HIDE DEF on
<1>4. ASSUME NEW n \in 1 .. N + 1
      PROVE  Question(t, on[n], on[n + 1], more[n].name, more[n].type)
  <2>1. CASE n = N + 1
    BY <1>1, <1>3, <2>1 DEF e
  <2>2. CASE n \in 1 .. N
    <3>1. /\ on[n] = at[n] /\ on[n + 1] = at[n + 1] /\ more[n] = questions[n]
          /\ Question(s, at[n], at[n + 1], questions[n].name, questions[n].type)
      BY <1>1, <1>2, <1>3, <2>2
    <3>2. questions[n] \in Questions
      BY <2>2 DEF N
    <3>3. SUFFICES ASSUME NEW o, o = on[n], NEW u, u = on[n + 1],
                          NEW name \in Names, name = more[n].name,
                          NEW type \in Types, type = more[n].type
                   PROVE  Question(t, o, u, name, type)
      BY <3>1, <3>2 DEF Questions
    <3>4. Question(s, o, u, name, type)
      BY <3>1, <3>3
    <3> HIDE <2>2, <3>3
    <3> QED
      BY <3>4, QuestionFurther
  <2> QED
    BY <1>1, <2>1, <2>2
<1>5. LaidOut(t, on, more)
  BY <1>1, <1>3, <1>4 DEF LaidOut, e
<1> QED
  BY <1>5

\* A packet stays one when a question is put behind it.

LEMMA PacketGrows ==
    ASSUME NEW s, NEW questions, NEW names, Packet(s, questions, names),
           NEW t \in Seq(Octet), Embedded(t, 0, s),
           NEW q \in Questions, q.name # <<>>, Question(t, Len(s), Len(t), q.name, q.type),
           NEW more, Joined(more, questions, <<q>>),
           NEW others, \A x \in others : x \in names \/ Target(t, x)
    PROVE  Packet(t, more, others)
<1>1. /\ s \in Seq(Octet) /\ questions \in Seq(Questions)
      /\ \A n \in 1 .. Len(questions) : questions[n].name # <<>>
      /\ \A x \in names : Target(s, x)
      /\ \E at : LaidOut(s, at, questions)
  BY Zenon DEF Packet
<1>2. \E on : LaidOut(t, on, more)
  <2>1. PICK at : LaidOut(s, at, questions)
    BY <1>1
  <2> QED
    BY <1>1, <2>1, LaidOutFurther
<1>3. /\ more \in Seq(Questions)
      /\ \A n \in 1 .. Len(more) : more[n].name # <<>>
  <2>1. /\ more \in Seq(Questions) /\ Len(more) = Len(questions) + 1
        /\ \A n \in 1 .. Len(questions) : more[n] = questions[n]
        /\ more[Len(questions) + 1] = q
    BY <1>1, AppendParts DEF Joined
  <2>2. ASSUME NEW n \in 1 .. Len(more)
        PROVE  more[n].name # <<>>
    <3>1. n \in 1 .. Len(questions) \/ n = Len(questions) + 1
      BY <1>1, <2>1
    <3> QED
      BY <1>1, <2>1, <3>1
  <2> QED
    BY <2>1, <2>2
<1>4. ASSUME NEW x \in others
      PROVE  Target(t, x)
  <2>1. CASE x \in names
    BY <1>1, <2>1, TargetFurther
  <2>2. CASE Target(t, x)
    BY <2>2
  <2> QED
    BY <2>1, <2>2
<1> QED
  BY <1>2, <1>3, <1>4, Zenon DEF Packet

\* The targets that a question in full brings.
LEMMA NewTargets ==
    ASSUME NEW t \in Seq(Octet), NEW o \in Nat, NEW labels \in Names, NEW n \in 1 .. Len(labels),
           \E u \in Nat : ByItself(t, o + Len(Wire(labels)[n - 1]), u,
                                   SubSeq(labels, n, Len(labels))),
           NEW x, x.o = o + Len(Wire(labels)[n - 1]),
           x.name = SubSeq(labels, n, Len(labels)) \o <<>>
    PROVE  Target(t, x)
<1> DEFINE N == Len(labels)
           rest == SubSeq(labels, n, N)
           y == o + Len(Wire(labels)[n - 1])
<1>1. N \in Nat /\ n - 1 \in 0 .. N
  BY DEF Names
<1>2. rest \in Names /\ Len(rest) = N - n + 1 /\ rest \o <<>> = rest
  BY DEF Names
<1>3. rest # <<>>
  <2> HIDE DEF rest
  <2> QED
    BY <1>1, <1>2
<1>4. y \in Nat
  <2>1. Wire(labels)[n - 1] \in Seq(Octet)
    BY <1>1, WireTurns
  <2> QED
    BY <2>1
<1>5. \E u \in Nat : ByItself(t, y, u, rest)
  OBVIOUS
<1>6. x.o = y /\ x.name = rest
  BY <1>2
<1> HIDE DEF rest, y
<1>7. x.o \in Nat /\ x.name \in Names /\ x.name # <<>>
  BY <1>2, <1>3, <1>4, <1>6
<1>8. \E u \in Nat : ByItself(t, x.o, u, x.name)
  BY <1>5, <1>6
<1> QED
  BY <1>7, <1>8, Zenon DEF Target

\* What ends a name.
Zero == <<0>>

\* It is the target that a label of the name has brought.
Brought(x, s, labels) ==
    \E n \in 1 .. Len(labels) :
        /\ x.o = Len(s) + Len(Wire(labels)[n - 1])
        /\ x.name = SubSeq(labels, n, Len(labels)) \o <<>>

LEMMA AsksInFull ==
    ASSUME NEW s, NEW questions, NEW names, Packet(s, questions, names),
           NEW labels \in Names, labels # <<>>, NEW type \in Types,
           NEW t, Joined(t, s \o Written(labels) \o Zero, Footer[type]),
           NEW q, q = [name |-> labels, type |-> type],
           NEW more, Joined(more, questions, <<q>>),
           NEW others, \A x \in others : x \in names \/ Brought(x, s, labels)
    PROVE  Packet(t, more, others)
<1> DEFINE o == Len(s)
           m == o + Len(Written(labels))
           k == m + 1
<1>1. s \in Seq(Octet) /\ o \in Nat
  BY DEF Packet
<1>2. GrownInFull(t, s, labels, type, o, m, k)
  <2>1. Len(<<0>>) = 1 /\ o = Len(s) /\ m = o + Len(Written(labels)) /\ k = m + 1
    OBVIOUS
  <2> HIDE DEF o, m, k
  <2> QED
    BY <2>1 DEF GrownInFull, Packed, Joined, Zero
<1> HIDE DEF m, k
<1>3. /\ t \in Seq(Octet) /\ Embedded(t, 0, s)
      /\ Question(t, o, Len(t), labels, type)
      /\ \A n \in 1 .. Len(labels) : \E u \in Nat :
            ByItself(t, o + Len(Wire(labels)[n - 1]), u, SubSeq(labels, n, Len(labels)))
  <2> HIDE DEF o
  <2> QED
    BY <1>1, <1>2, GrowsInFull
<1>4. ASSUME NEW x \in others
      PROVE  x \in names \/ Target(t, x)
  <2>1. CASE x \notin names
    <3>1. PICK n \in 1 .. Len(labels) :
            /\ x.o = o + Len(Wire(labels)[n - 1])
            /\ x.name = SubSeq(labels, n, Len(labels)) \o <<>>
      BY <2>1 DEF Brought
    <3>2. \E u \in Nat : ByItself(t, o + Len(Wire(labels)[n - 1]), u,
                                  SubSeq(labels, n, Len(labels)))
      BY <1>3
    <3> HIDE DEF o
    <3> QED
      BY <1>1, <1>3, <3>1, <3>2, NewTargets
  <2> QED
    BY <2>1
<1>5. q \in Questions /\ q.name = labels /\ q.type = type
  BY DEF Questions
<1> QED
  BY <1>3, <1>4, <1>5, PacketGrows

LEMMA AsksByPointer ==
    ASSUME NEW s, NEW questions, NEW names, Packet(s, questions, names),
           NEW labels \in Names, NEW type \in Types,
           NEW to \in names, ~ to.chain, to.o < 64 * 256,
           NEW t, Joined(t, s \o Written(labels) \o Pointer(to.o), Footer[type]),
           NEW q, q = [name |-> labels \o to.name, type |-> type],
           NEW more, Joined(more, questions, <<q>>),
           NEW others, \A x \in others : x \in names \/
              /\ x.o \in Nat /\ x.name \in Names /\ x.name # <<>> /\ x.chain
    PROVE  Packet(t, more, others)
<1>1. s \in Seq(Octet) /\ Target(s, to)
  BY DEF Packet
<1>2. to.o \in Nat /\ to.name \in Names /\ to.name # <<>> /\ \E u \in Nat : ByItself(s, to.o, u, to.name)
  BY <1>1, Zenon DEF Target
<1>3. PICK v \in Nat : ByItself(s, to.o, v, to.name)
  BY <1>2
<1> DEFINE a == to.o
           rest == to.name
           name == labels \o rest
           o == Len(s)
           m == o + Len(Written(labels))
           k == m + 2
<1>4. GrownByPointer(t, s, labels, a, type, o, m, k)
  <2>1. Len(Pointer(a)) = 2 /\ o = Len(s) /\ m = o + Len(Written(labels)) /\ k = m + 2
    BY DEF Pointer
  <2>2. Joined(t, s \o Written(labels) \o Pointer(a), Footer[type])
    OBVIOUS
  <2> HIDE DEF o, m, k, a
  <2> QED
    BY <2>1, <2>2 DEF GrownByPointer, Packed, Joined
<1>5. name \in Names /\ name # <<>> /\ Joined(name, labels, rest)
  <2>1. rest \in Names /\ rest # <<>>
    BY <1>2
  <2> HIDE DEF rest
  <2>2. Len(name) = Len(labels) + Len(rest) /\ Len(labels) \in Nat /\ Len(rest) \in Nat \ {0}
    BY <2>1 DEF Names
  <2>3. name \in Names /\ Joined(name, labels, rest)
    BY <2>1 DEF Names, Joined
  <2> HIDE DEF name
  <2> QED
    BY <2>2, <2>3
<1>6. a \in Nat /\ a < 64 * 256 /\ rest \in Names /\ rest # <<>> /\ ByItself(s, a, v, rest)
  BY <1>2, <1>3
<1>7. q \in Questions /\ q.name = name /\ q.type = type
  BY <1>5 DEF Questions
<1> HIDE DEF a, rest, name, o, m, k
<1>8. /\ t \in Seq(Octet) /\ Embedded(t, 0, s)
      /\ Question(t, o, Len(t), name, type)
  BY <1>1, <1>4, <1>5, <1>6, GrowsByPointer
<1>9. \A x \in others : x \in names \/ Target(t, x)
  BY Zenon DEF Target
<1> QED
  BY <1>5, <1>7, <1>8, <1>9, PacketGrows DEF o

-----------------------------------------------------------------------------
\* What is read of a question, and what is answered.

LEMMA TypeRead ==
    ASSUME octets \in Seq(Octet), NEW u \in Nat, NEW type \in Types,
           Embedded(octets, u, Footer[type])
    PROVE  \A other \in DOMAIN Number : TypeAt(u) = Number[other] <=> type = other
<1> DEFINE f == Footer[type]
<1>1. Len(f) = 4 /\ 1 \in 1 .. Len(f) /\ 2 \in 1 .. Len(f) /\ u + Len(f) <= Len(octets)
  <2>1. Len(f) = 4
    BY FooterTyped
  <2>2. u + Len(f) <= Len(octets)
    BY DEF Embedded
  <2> HIDE DEF f
  <2> QED
    BY <2>1, <2>2
<1>2. At(u) = f[1] /\ At(u + 1) = f[2]
  <2> HIDE DEF f
  <2>1. octets[u + 1] = f[1] /\ octets[u + 2] = f[2]
    BY <1>1 DEF Embedded, f
  <2>2. u < Len(octets) /\ u + 1 < Len(octets) /\ u + 1 + 1 = u + 2
    BY <1>1
  <2> QED
    BY <2>1, <2>2 DEF At
<1>3. TypeAt(u) = 256 * f[1] + f[2]
  BY <1>2 DEF TypeAt
<1>4. CASE type = "A"
  BY <1>3, <1>4 DEF Footer, Number
<1>5. CASE type = "NS"
  BY <1>3, <1>5 DEF Footer, Number
<1>6. CASE type = "URI"
  BY <1>3, <1>6 DEF Footer, Number
<1>7. CASE type = "other"
  BY <1>3, <1>7 DEF Footer, Number
<1> QED
  BY <1>4, <1>5, <1>6, <1>7 DEF Types

LEMMA QuestionReads ==
    ASSUME octets \in Seq(Octet), NEW name \in Names, name # <<>>, NEW type \in Types,
           NEW o \in Nat, NEW e, Question(octets, o, e, name, type)
    PROVE  \E u \in Nat :
              /\ e = u + 4 /\ Embedded(octets, u, Footer[type])
              /\ label_to_str(o) = [string |-> Dotted(name)[Len(name)], next |-> u]
<1>1. PICK u \in Nat :
        /\ ByItself(octets, o, u, name) \/ ByPointer(octets, o, u, name)
        /\ e = u + 4 /\ Embedded(octets, u, Footer[type])
  BY DEF Question
<1>2. u + 4 <= Len(octets)
  BY <1>1, FooterTyped DEF Embedded
<1>3. label_to_str(o) = [string |-> Dotted(name)[Len(name)], next |-> u]
  <2>1. CASE ByItself(octets, o, u, name)
    BY <2>1, ReadsByItself
  <2>2. CASE ByPointer(octets, o, u, name)
    BY <1>2, <2>2, ReadsByPointer
  <2> QED
    BY <1>1, <2>1, <2>2
<1> QED
  BY <1>1, <1>3

\* Whatever the name, at whatever place of whatever packet: what label_to_str has
\* read, str_to_label turns into the labels that were asked for, and the place
\* that label_to_str returns is the one behind the name, not behind what a pointer
\* in it leads to.
THEOREM NameComesBack ==
    ASSUME octets \in Seq(Octet), \A l \in Labels : DotFree(l),
           NEW name \in Names, name # <<>>, NEW type \in Types,
           NEW o \in Nat, NEW e, Question(octets, o, e, name, type)
    PROVE  /\ str_to_label(label_to_str(o).string) = Written(name) \o Zero
           /\ label_to_str(o).next + FooterLen = e
<1>1. PICK u \in Nat :
        /\ e = u + 4 /\ Embedded(octets, u, Footer[type])
        /\ label_to_str(o) = [string |-> Dotted(name)[Len(name)], next |-> u]
  BY QuestionReads
<1> DEFINE w == Dotted(name)[Len(name)]
<1>2. str_to_label(w) = Written(name) \o Zero
  BY WritesBack DEF Zero
<1> HIDE DEF w
<1>3. label_to_str(o).string = w /\ label_to_str(o).next = u
  BY <1>1 DEF w
<1> QED
  BY <1>1, <1>2, <1>3 DEF FooterLen

Records == [name : Seq(Octet), type : DOMAIN Number, class : {"IN", "URI"},
            rdlength : Nat, ttl : Nat]

\* A record answers a question.
Answer(r, q) == r.name = Written(q.name) \o <<0>> /\ r.type = q.type

Answered(replies, known) ==
    /\ replies \in Seq(Records) /\ known \in Seq(Questions) /\ Len(replies) = Len(known)
    /\ \A n \in 1 .. Len(known) : Answer(replies[n], known[n])

LEMMA RecordAnswers ==
    ASSUME NEW q \in Questions, q.name # <<>>, q.type \in DOMAIN Number,
           \A l \in Labels : DotFree(l), NEW ttl \in Ttl[q.type],
           NEW string, string = Dotted(q.name)[Len(q.name)]
    PROVE  /\ Record(string, q.type, ttl) \in Records
           /\ Answer(Record(string, q.type, ttl), q)
<1> DEFINE w == Written(q.name) \o <<0>>
<1>1. str_to_label(string) = w
  <2>1. q.name \in Names
    BY DEF Questions
  <2> QED
    BY <2>1, WritesBack
<1>2. w \in Seq(Octet)
  <2>1. Written(q.name) \in Seq(Octet)
    BY WrittenTyped DEF Questions
  <2>2. <<0>> \in Seq(Octet)
    BY DEF Octet
  <2> QED
    BY <2>1, <2>2
<1> HIDE DEF w
<1>3. Class[q.type] \in {"IN", "URI"} /\ Rest[q.type] \in Nat /\ ttl \in Nat
  <2>1. q.type \in {"A", "NS", "URI"}
    BY DEF Number
  <2> QED
    BY <2>1 DEF Class, Rest, Ttl
<1> DEFINE r == Record(string, q.type, ttl)
<1>4. r = [name |-> w, type |-> q.type, class |-> Class[q.type],
           rdlength |-> Rest[q.type], ttl |-> ttl]
  BY <1>1 DEF Record
<1>5. r \in Records
  BY <1>2, <1>3, <1>4 DEF Records
<1>6. r.name = w /\ r.type = q.type
  BY <1>4
<1> QED
  BY <1>5, <1>6 DEF Answer, w

LEMMA AnsweredFurther ==
    ASSUME NEW replies, NEW known, Answered(replies, known),
           NEW q \in Questions, NEW r \in Records, Answer(r, q)
    PROVE  Answered(Append(replies, r), Append(known, q))
<1> DEFINE K == Len(known)
           a == Append(replies, r)
           b == Append(known, q)
<1>1. /\ replies \in Seq(Records) /\ known \in Seq(Questions) /\ Len(replies) = K
      /\ \A n \in 1 .. K : Answer(replies[n], known[n])
  BY DEF Answered
<1>2. /\ a \in Seq(Records) /\ Len(a) = K + 1 /\ a[K + 1] = r
      /\ \A n \in 1 .. K : a[n] = replies[n]
  BY <1>1
<1>3. /\ b \in Seq(Questions) /\ Len(b) = K + 1 /\ b[K + 1] = q /\ K \in Nat
      /\ \A n \in 1 .. K : b[n] = known[n]
  BY <1>1
<1> HIDE DEF a, b, K
<1>4. ASSUME NEW n \in 1 .. K + 1
      PROVE  Answer(a[n], b[n])
  <2>1. CASE n = K + 1
    BY <1>2, <1>3, <2>1
  <2>2. CASE n \in 1 .. K
    BY <1>1, <1>2, <1>3, <2>2
  <2> QED
    BY <1>3, <2>1, <2>2
<1>5. Answered(a, b)
  BY <1>2, <1>3, <1>4 DEF Answered
<1> QED
  BY <1>5 DEF a, b

-----------------------------------------------------------------------------
\* The invariant: the packet is made of its questions, and the loop of
\* capt_dns_recv stands between two of them with the ones before it answered.

Between(at) ==
    /\ LaidOut(octets, at, asked)
    /\ i \in 1 .. Len(asked) + 1 /\ p = at[i]
    /\ Answered(answers, Known(asked)[i - 1])

Replying ==
    /\ task \in {"answering", "answered"} => \E at : Between(at)
    /\ task = "answered" => i = Len(asked) + 1
    /\ task = "idle" => answers = <<>>

Inv == Packet(octets, asked, targets) /\ Replying

\* A name has a label, no label a dot, and no pointer leads to a pointer.
Plain == Forms \subseteq {"pointer"} /\ \A l \in Labels : DotFree(l)

LEMMA InitInv ==
    Init => Inv
<1> SUFFICES ASSUME Init PROVE Inv
  OBVIOUS
<1>1. Packet(octets, asked, targets)
  BY EmptyPacket DEF Init
<1>2. Replying
  BY DEF Init, Replying
<1> QED
  BY <1>1, <1>2 DEF Inv

NewNames(s, labels, tail, rest) ==
    {[o |-> Len(s) + Len(Wire(labels)[n - 1]), chain |-> tail # <<0>>,
      name |-> SubSeq(labels, n, Len(labels)) \o rest] : n \in DOMAIN labels}

\* What a question is put behind: the packet, or an empty one.
Opens(s, questions, names, labels, tail, rest, type) ==
    /\ Packet(s, questions, names)
    /\ task = "idle" => names = targets
    /\ octets' = s \o Written(labels) \o tail \o Footer[type]
    /\ asked' = questions \o <<[name |-> labels \o rest, type |-> type]>>
    /\ targets' = names \cup NewNames(s, labels, tail, rest)

LEMMA AskOpens ==
    ASSUME Inv, NEW labels, NEW tail, NEW rest, NEW type, Ask(labels, tail, rest, type)
    PROVE  \E s, questions, names : Opens(s, questions, names, labels, tail, rest, type)
<1>1. CASE task = "idle"
  <2>1. Packet(octets, asked, targets)
    BY DEF Inv
  <2>2. Opens(octets, asked, targets, labels, tail, rest, type)
    <3>1. octets' = octets \o Written(labels) \o tail \o Footer[type]
      BY <1>1, Zenon DEF Ask
    <3>2. asked' = asked \o <<[name |-> labels \o rest, type |-> type]>>
      BY <1>1, Zenon DEF Ask
    <3>3. targets' = targets \cup NewNames(octets, labels, tail, rest)
      BY <1>1, Zenon DEF Ask, NewNames
    <3> QED
      BY <2>1, <3>1, <3>2, <3>3, Zenon DEF Opens
  <2> QED
    BY <2>2, Zenon
<1>2. CASE task # "idle"
  <2>1. Packet(Empty, <<>>, {})
    BY EmptyPacket
  <2>2. Opens(Empty, <<>>, {}, labels, tail, rest, type)
    <3>1. octets' = Empty \o Written(labels) \o tail \o Footer[type]
      BY <1>2, Zenon DEF Ask
    <3>2. asked' = <<>> \o <<[name |-> labels \o rest, type |-> type]>>
      BY <1>2, Zenon DEF Ask
    <3>3. targets' = {} \cup NewNames(Empty, labels, tail, rest)
      BY <1>2, Zenon DEF Ask, NewNames
    <3> QED
      BY <1>2, <2>1, <3>1, <3>2, <3>3, Zenon DEF Opens
  <2> QED
    BY <2>2, Zenon
<1> QED
  BY <1>1, <1>2

LEMMA AskReplying ==
    ASSUME NEW labels, NEW tail, NEW rest, NEW type, Ask(labels, tail, rest, type)
    PROVE  Replying'
  BY DEF Ask, Replying

LEMMA AskInFullInv ==
    ASSUME Inv, Plain, AskInFull
    PROVE  Inv'
<1>1. PICK type \in Types, n \in 0 .. MaxLabels : \E labels \in [1 .. n -> Labels] :
        /\ n = 0 => "root" \in Forms
        /\ Ask(labels, <<0>>, <<>>, type)
  BY DEF AskInFull
<1>2. PICK labels \in [1 .. n -> Labels] :
        /\ n = 0 => "root" \in Forms
        /\ Ask(labels, <<0>>, <<>>, type)
  BY <1>1
<1>3. n # 0
  BY <1>2 DEF Plain
<1>4. labels \in Names /\ Len(labels) = n /\ labels # <<>> /\ DOMAIN labels = 1 .. Len(labels)
  BY <1>3, Packets DEF Names
<1>5. PICK s, questions, names : Opens(s, questions, names, labels, <<0>>, <<>>, type)
  BY <1>2, AskOpens, Zenon
<1> DEFINE q == [name |-> labels, type |-> type]
<1>7. labels \o <<>> = labels
  BY <1>4 DEF Names
<1>10. /\ Packet(s, questions, names)
       /\ Joined(octets', s \o Written(labels) \o Zero, Footer[type])
       /\ Joined(asked', questions, <<q>>)
       /\ targets' = names \cup NewNames(s, labels, Zero, <<>>)
  BY <1>5, <1>7, Zenon DEF Opens, Joined, Zero
<1>6. \A x \in targets' : x \in names \/ Brought(x, s, labels)
  <2>1. SUFFICES ASSUME NEW x \in NewNames(s, labels, Zero, <<>>)
                 PROVE  Brought(x, s, labels)
    BY <1>10, Zenon
  <2>2. PICK m \in 1 .. Len(labels) :
          x = [o |-> Len(s) + Len(Wire(labels)[m - 1]), chain |-> Zero # <<0>>,
               name |-> SubSeq(labels, m, Len(labels)) \o <<>>]
    BY <1>4, <2>1, Zenon DEF NewNames
  <2> DEFINE y == Len(s) + Len(Wire(labels)[m - 1])
             c == Zero # <<0>>
             z == SubSeq(labels, m, Len(labels)) \o <<>>
  <2>3. x = [o |-> y, chain |-> c, name |-> z]
    BY <2>2
  <2> HIDE DEF y, c, z
  <2>4. x.o = y /\ x.name = z
    BY <2>3
  <2> QED
    BY <2>4, Zenon DEF Brought, y, z
<1>8. Packet(octets', asked', targets')
  <2>1. labels \in Names /\ labels # <<>>
    BY <1>4
  <2> QED
    BY <1>6, <1>10, <2>1, AsksInFull, Zenon
<1>9. Replying'
  BY <1>2, AskReplying
<1> QED
  BY <1>8, <1>9 DEF Inv

LEMMA AskByPointerInv ==
    ASSUME Inv, Plain, AskByPointer
    PROVE  Inv'
<1>1. PICK type \in Types, n \in 0 .. MaxLabels - 1, to \in targets :
      \E labels \in [1 .. n -> Labels] :
        /\ to.chain => "chained" \in Forms
        /\ to.o < 64 * 256
        /\ Ask(labels, Pointer(to.o), to.name, type)
  BY DEF AskByPointer
<1>2. PICK labels \in [1 .. n -> Labels] :
        /\ to.chain => "chained" \in Forms
        /\ to.o < 64 * 256
        /\ Ask(labels, Pointer(to.o), to.name, type)
  BY <1>1
<1>3. ~ to.chain /\ task = "idle"
  BY <1>2 DEF Plain, AskByPointer
<1>4. labels \in Names /\ DOMAIN labels = 1 .. Len(labels)
  BY Packets DEF Names
<1>5. PICK s, questions, names :
        Opens(s, questions, names, labels, Pointer(to.o), to.name, type)
  BY <1>2, AskOpens, Zenon
<1> DEFINE q == [name |-> labels \o to.name, type |-> type]
<1>10. /\ Packet(s, questions, names) /\ names = targets
       /\ Joined(octets', s \o Written(labels) \o Pointer(to.o), Footer[type])
       /\ Joined(asked', questions, <<q>>)
       /\ targets' = names \cup NewNames(s, labels, Pointer(to.o), to.name)
  BY <1>3, <1>5, Zenon DEF Opens, Joined
<1>6. ASSUME NEW x \in targets', x \notin names
      PROVE  x.o \in Nat /\ x.name \in Names /\ x.name # <<>> /\ x.chain
  <2>1. PICK m \in 1 .. Len(labels) :
           x = [o |-> Len(s) + Len(Wire(labels)[m - 1]), chain |-> Pointer(to.o) # <<0>>,
                name |-> SubSeq(labels, m, Len(labels)) \o to.name]
    <3>1. x \in NewNames(s, labels, Pointer(to.o), to.name)
      BY <1>6, <1>10, Zenon
    <3> QED
      BY <1>4, <3>1 DEF NewNames
  <2>2. Len(s) \in Nat /\ to.name \in Names /\ to.name # <<>>
    <3>1. s \in Seq(Octet) /\ Target(s, to)
      BY <1>10, Zenon DEF Packet
    <3>2. s \in Seq(Octet) /\ to.name \in Names /\ to.name # <<>>
      BY <3>1, Zenon DEF Target
    <3> QED
      BY <3>2
  <2>3. Wire(labels)[m - 1] \in Seq(Octet)
    <3>1. m - 1 \in 0 .. Len(labels)
      BY <1>4 DEF Names
    <3> QED
      BY <1>4, <3>1, WireTurns
  <2>4. SubSeq(labels, m, Len(labels)) \in Names
    BY <1>4 DEF Names
  <2>5. Pointer(to.o) # <<0>>
    <3> DEFINE a == Pointer(to.o)
               b == <<0>>
    <3>1. Len(a) = 2 /\ Len(b) = 1
      BY DEF Pointer
    <3> HIDE DEF a, b
    <3>2. a # b
      BY <3>1
    <3> QED
      BY <3>2 DEF a, b
  <2> DEFINE y == Len(s) + Len(Wire(labels)[m - 1])
             c == Pointer(to.o) # <<0>>
             a == SubSeq(labels, m, Len(labels))
             b == to.name
             z == a \o b
  <2>6. y \in Nat
    BY <2>2, <2>3
  <2>7. z \in Names /\ z # <<>>
    <3> HIDE DEF a, b
    <3>1. a \in Names /\ b \in Names /\ b # <<>>
      BY <2>2, <2>4 DEF a, b
    <3>2. Len(z) = Len(a) + Len(b) /\ Len(a) \in Nat /\ Len(b) \in Nat \ {0}
      BY <3>1 DEF Names
    <3>3. z \in Names
      BY <3>1 DEF Names
    <3> HIDE DEF z
    <3> QED
      BY <3>2, <3>3
  <2>8. c
    BY <2>5
  <2>9. x = [o |-> y, chain |-> c, name |-> z]
    BY <2>1
  <2> HIDE DEF y, c, z
  <2>10. x.o = y /\ x.name = z /\ x.chain = c
    BY <2>9
  <2> QED
    BY <2>6, <2>7, <2>8, <2>10, Zenon
<1>7. \A x \in targets' : x \in names \/
         (x.o \in Nat /\ x.name \in Names /\ x.name # <<>> /\ x.chain)
  BY <1>6
<1>8. Packet(octets', asked', targets')
  BY <1>2, <1>3, <1>4, <1>7, <1>10, AsksByPointer, Zenon
<1>9. Replying'
  BY <1>2, AskReplying
<1> QED
  BY <1>8, <1>9 DEF Inv

LEMMA ReceiveInv ==
    ASSUME Inv, Receive
    PROVE  Inv'
<1>1. UNCHANGED <<octets, asked, targets, answers>>
  BY DEF Receive
<1>2. Packet(octets, asked, targets)
  BY DEF Inv
<1>3. Packet(octets, asked, targets)'
  BY <1>1, <1>2 DEF Packet, LaidOut
<1>4. CASE task' = "answering" /\ i' = 1 /\ p' = HeaderLen
  <2>1. asked \in Seq(Questions) /\ Len(asked) \in Nat
    BY <1>2 DEF Packet
  <2>2. PICK at : LaidOut(octets, at, asked)
    BY <1>2 DEF Packet
  <2>3. at[1] = HeaderLen /\ 1 \in 1 .. Len(asked) + 1
    BY <2>1, <2>2 DEF LaidOut
  <2>4. answers = <<>>
    BY DEF Inv, Replying, Receive
  <2>5. Known(asked)[0] = <<>>
    BY <2>1, KnownTurns
  <2>6. Answered(<<>>, <<>>)
    <3>1. <<>> \in Seq(Records) /\ <<>> \in Seq(Questions) /\ Len(<<>>) = 0
      OBVIOUS
    <3> QED
      BY <3>1 DEF Answered
  <2>7. Answered(answers, Known(asked)[i' - 1])
    BY <1>4, <2>4, <2>5, <2>6
  <2>8. LaidOut(octets, at, asked)'
    BY <1>1, <2>2 DEF LaidOut
  <2>9. (i \in 1 .. Len(asked) + 1 /\ p = at[i])'
    BY <1>1, <1>4, <2>3
  <2>10. Answered(answers, Known(asked)[i - 1])'
    BY <1>1, <2>7
  <2>11. Between(at)'
    BY <2>8, <2>9, <2>10 DEF Between
  <2>12. Replying'
    BY <1>4, <2>11 DEF Replying
  <2> QED
    BY <1>3, <2>12 DEF Inv
<1>5. CASE task' = "dropped"
  <2>1. Replying'
    BY <1>5 DEF Replying
  <2> QED
    BY <1>3, <2>1 DEF Inv
<1> QED
  BY <1>4, <1>5 DEF Receive

LEMMA AnswerQuestionInv ==
    ASSUME Inv, Plain, AnswerQuestion
    PROVE  Inv'
<1>1. UNCHANGED <<octets, asked, targets, task>> /\ task = "answering" /\ i <= Len(asked) /\ i' = i + 1
  BY DEF AnswerQuestion
<1>2. Packet(octets, asked, targets)
  BY DEF Inv
<1>3. Packet(octets, asked, targets)'
  BY <1>1, <1>2 DEF Packet, LaidOut
<1>4. octets \in Seq(Octet) /\ asked \in Seq(Questions) /\ Len(asked) \in Nat
  BY <1>2 DEF Packet
<1>5. PICK at : Between(at)
  BY <1>1 DEF Inv, Replying
<1>6. /\ i \in 1 .. Len(asked) /\ i \in 1 .. Len(asked) + 1 /\ i + 1 \in 1 .. Len(asked) + 1
      /\ i + 1 - 1 = i /\ i - 1 \in 0 .. Len(asked) /\ i \in Nat
  BY <1>1, <1>4, <1>5 DEF Between
<1> DEFINE q == asked[i]
           name == q.name
           type == q.type
           string == Dotted(name)[Len(name)]
<1>7. q \in Questions /\ name \in Names /\ type \in Types /\ name # <<>>
  <2>1. q \in Questions /\ q.name # <<>>
    BY <1>2, <1>4, <1>6 DEF Packet
  <2> HIDE DEF q
  <2> QED
    BY <2>1 DEF Questions
<1>8. LaidOut(octets, at, asked) /\ p = at[i] /\ Answered(answers, Known(asked)[i - 1])
  BY <1>5 DEF Between
<1>9. at[i] \in Nat /\ Question(octets, at[i], at[i + 1], name, type)
  BY <1>6, <1>8 DEF LaidOut
<1>10. Known(asked)[i] = KnownNext(Known(asked)[i - 1], q)
  BY <1>4, <1>6, KnownTurns
<1> HIDE DEF q, name, type
<1>11. PICK u \in Nat :
         /\ at[i + 1] = u + 4 /\ Embedded(octets, u, Footer[type])
         /\ label_to_str(p) = [string |-> string, next |-> u]
  BY <1>4, <1>7, <1>8, <1>9, QuestionReads
<1>12. label_to_str(p).string = string /\ label_to_str(p).next = u
  <2> HIDE DEF string
  <2> QED
    BY <1>11
<1>13. \A other \in DOMAIN Number : TypeAt(u) = Number[other] <=> type = other
  BY <1>4, <1>7, <1>11, TypeRead
<1>14. p' = at[i + 1]
  BY <1>11, <1>12 DEF AnswerQuestion, FooterLen
<1>15. Answered(answers', Known(asked)[i])
  <2>1. CASE type \notin DOMAIN Number
    <3>1. Known(asked)[i] = Known(asked)[i - 1]
      BY <1>10, <2>1 DEF KnownNext, type
    <3>2. ~ \E other \in DOMAIN Number : TypeAt(u) = Number[other]
      BY <1>13, <2>1
    <3>3. answers' = answers
      BY <1>12, <3>2 DEF AnswerQuestion
    <3> QED
      BY <1>8, <3>1, <3>3
  <2>2. CASE type \in DOMAIN Number
    <3>1. TypeAt(u) = Number[type]
      BY <1>13, <2>2
    <3>9. PICK other \in DOMAIN Number : \E ttl \in Ttl[other] :
            /\ TypeAt(u) = Number[other]
            /\ answers' = Append(answers, Record(label_to_str(p).string, other, ttl))
      BY <1>12, <2>2, <3>1 DEF AnswerQuestion
    <3>2. PICK ttl \in Ttl[other] :
            /\ TypeAt(u) = Number[other]
            /\ answers' = Append(answers, Record(label_to_str(p).string, other, ttl))
      BY <3>9
    <3>3. other = type
      BY <1>13, <3>2
    <3> DEFINE r == Record(string, type, ttl)
    <3>4. answers' = Append(answers, r)
      BY <1>12, <3>2, <3>3
    <3>5. ttl \in Ttl[type]
      BY <3>3
    <3>6. r \in Records /\ Answer(r, q)
      BY <1>7, <2>2, <3>5, RecordAnswers DEF name, type, Plain
    <3>7. Known(asked)[i] = Append(Known(asked)[i - 1], q)
      BY <1>10, <2>2 DEF KnownNext, type
    <3> HIDE DEF r
    <3>8. Answered(Append(answers, r), Append(Known(asked)[i - 1], q))
      BY <1>7, <1>8, <3>6, AnsweredFurther
    <3> QED
      BY <3>4, <3>7, <3>8
  <2> QED
    BY <2>1, <2>2
<1>16. Between(at)'
  <2>1. LaidOut(octets, at, asked)'
    BY <1>1, <1>8 DEF LaidOut
  <2>2. (i \in 1 .. Len(asked) + 1 /\ p = at[i])'
    BY <1>1, <1>6, <1>14
  <2>3. Answered(answers, Known(asked)[i - 1])'
    BY <1>1, <1>6, <1>15
  <2> QED
    BY <2>1, <2>2, <2>3 DEF Between
<1>17. Replying'
  BY <1>1, <1>16 DEF Replying
<1> QED
  BY <1>3, <1>17 DEF Inv

LEMMA StillInv ==
    ASSUME Inv, UNCHANGED <<octets, asked, targets, i, p, answers>>
    PROVE  /\ Packet(octets, asked, targets)'
           /\ \A at : Between(at) => Between(at)'
<1>1. Packet(octets, asked, targets)'
  BY DEF Inv, Packet, LaidOut
<1>2. ASSUME NEW at, Between(at)
      PROVE  Between(at)'
  BY <1>2 DEF Between, LaidOut
<1> QED
  BY <1>1, <1>2

LEMMA SendReplyInv ==
    ASSUME Inv, SendReply
    PROVE  Inv'
<1>1. /\ UNCHANGED <<octets, asked, targets, i, p, answers>>
      /\ task = "answering" /\ task' = "answered" /\ i > Len(asked)
  BY DEF SendReply
<1>2. Packet(octets, asked, targets)' /\ \A at : Between(at) => Between(at)'
  BY <1>1, StillInv
<1>3. PICK at : Between(at)
  BY <1>1 DEF Inv, Replying
<1>4. i = Len(asked) + 1
  <2>1. Len(asked) \in Nat /\ i \in 1 .. Len(asked) + 1
    BY <1>3 DEF Inv, Packet, Between
  <2> QED
    BY <1>1, <2>1
<1>5. Replying'
  BY <1>1, <1>2, <1>3, <1>4 DEF Replying
<1> QED
  BY <1>2, <1>5 DEF Inv

LEMMA NextInv ==
    ASSUME Inv, Plain, [Next]_vars
    PROVE  Inv'
<1>1. CASE AskInFull
  BY <1>1, AskInFullInv
<1>2. CASE AskByPointer
  BY <1>2, AskByPointerInv
<1>3. CASE Receive
  BY <1>3, ReceiveInv
<1>4. CASE AnswerQuestion
  BY <1>4, AnswerQuestionInv
<1>5. CASE SendReply
  BY <1>5, SendReplyInv
<1>6. CASE UNCHANGED vars
  <2>1. UNCHANGED <<octets, asked, targets, i, p, answers>> /\ UNCHANGED task
    BY <1>6 DEF vars
  <2>2. Packet(octets, asked, targets)' /\ \A at : Between(at) => Between(at)'
    BY <2>1, StillInv
  <2>3. Replying'
    BY <2>1, <2>2 DEF Replying, Inv
  <2> QED
    BY <2>2, <2>3 DEF Inv
<1> QED
  BY <1>1, <1>2, <1>3, <1>4, <1>5, <1>6 DEF Next

LEMMA InvAnswered ==
    Inv => WellAnswered
<1> SUFFICES ASSUME Inv, task = "answered" PROVE WellAnswered
  BY DEF WellAnswered
<1>1. PICK at : Between(at)
  BY DEF Inv, Replying
<1>2. i - 1 = Len(asked)
  <2>1. Len(asked) \in Nat /\ i = Len(asked) + 1
    BY DEF Inv, Packet, Replying
  <2> QED
    BY <2>1
<1> DEFINE known == Known(asked)[Len(asked)]
<1>3. Answered(answers, known)
  BY <1>1, <1>2 DEF Between
<1> HIDE DEF known
<1>4. /\ Len(answers) = Len(known) /\ DOMAIN known = 1 .. Len(known)
      /\ \A n \in 1 .. Len(known) : Answer(answers[n], known[n])
  BY <1>3 DEF Answered
<1>5. /\ Len(answers) = Len(known)
      /\ \A n \in DOMAIN known :
          /\ answers[n].name = Written(known[n].name) \o <<0>>
          /\ answers[n].type = known[n].type
  BY <1>4, Zenon DEF Answer
<1> QED
  BY <1>5, Zenon DEF WellAnswered, known

\* capt_dns_recv answers each question of a type that the portal knows, in their
\* order and under the name that was asked for, in every packet of whatever
\* length: wherever a question's name lies and whether it ends in a pointer, the
\* loop comes to the place where the next one begins.
THEOREM PacketsWellAnswered ==
    Plain => (Spec => []WellAnswered)
<1> SUFFICES ASSUME Plain PROVE Spec => []WellAnswered
  OBVIOUS
<1>1. Init => Inv
  BY InitInv
<1>2. Inv /\ [Next]_vars => Inv'
  BY NextInv
<1>3. Inv => WellAnswered
  BY InvAnswered
<1> QED
  BY <1>1, <1>2, <1>3, PTL DEF Spec
=============================================================================
