------------------------- MODULE ProvWindowProofs -------------------------
(***************************************************************************)
(* What a window of ProvPage gets of the list of networks, however many    *)
(* windows there are and however long the list is: no request runs past    *)
(* the list's end, and what is shown is the list.  And which session the   *)
(* windows end: whatever is lost between them and the device, none whose   *)
(* credentials were not accepted.                                          *)
(***************************************************************************)
EXTENDS ProvPageProofs

-----------------------------------------------------------------------------
\* The strong entries of a list are those of its parts.

LEMMA KeptFirst ==
    ASSUME NEW s \in Seq(Network)
    PROVE  Kept(s)[0] = <<>>
  BY KeptTurns

LEMMA KeptNext ==
    ASSUME NEW s \in Seq(Network), NEW k \in 1 .. Len(s)
    PROVE  Kept(s)[k] = Keep(Kept(s)[k - 1], s[k])
  BY KeptTurns

LEMMA StrongEmpty == Strong(<<>>) = <<>>
<1>1. <<>> \in Seq(Network) /\ Len(<<>>) = 0
  OBVIOUS
<1>2. Kept(<<>>)[0] = <<>>
  BY <1>1, KeptFirst, Zenon
<1> QED
  BY <1>1, <1>2, Zenon DEF Strong

LEMMA AppendConcat ==
    ASSUME NEW a \in Seq(Network), NEW b \in Seq(Network), NEW e \in Network
    PROVE  Append(a \o b, e) = a \o Append(b, e)
<1>1. a \o b \in Seq(Network) /\ <<e>> \in Seq(Network)
  BY ConcatProperties, One
<1>2. Append(a \o b, e) = (a \o b) \o <<e>>
  BY <1>1, AppendIsConcat
<1>3. Append(b, e) = b \o <<e>>
  BY AppendIsConcat
<1>4. (a \o b) \o <<e>> = a \o (b \o <<e>>)
  BY <1>1, ConcatAssociative
<1> QED
  BY <1>2, <1>3, <1>4, Zenon

LEMMA StrongConcat ==
    ASSUME NEW s \in Seq(Network), NEW t \in Seq(Network)
    PROVE  Strong(s \o t) = Strong(s) \o Strong(t)
<1> DEFINE u == s \o t
           A == {k \in Nat : k <= Len(s) => Kept(u)[k] = Kept(s)[k]}
           Joined(k) == /\ Kept(u)[Len(s) + k] = Strong(s) \o Kept(t)[k]
                        /\ Kept(t)[k] \in Seq(Network)
           B == {k \in Nat : k <= Len(t) => Joined(k)}
<1>1. /\ u \in Seq(Network) /\ Len(u) = Len(s) + Len(t)
      /\ \A i \in 1 .. Len(s) : u[i] = s[i]
      /\ \A i \in 1 .. Len(t) : u[Len(s) + i] = t[i]
  <2>1. /\ u \in Seq(Network) /\ Len(u) = Len(s) + Len(t)
        /\ \A i \in 1 .. Len(s) + Len(t) : u[i] = IF i <= Len(s) THEN s[i] ELSE t[i - Len(s)]
    BY ConcatProperties
  <2> HIDE DEF u
  <2>2. Len(s) \in Nat /\ Len(t) \in Nat
    OBVIOUS
  <2>3. ASSUME NEW i \in 1 .. Len(s)
        PROVE  u[i] = s[i]
    BY <2>1, <2>2
  <2>4. ASSUME NEW i \in 1 .. Len(t)
        PROVE  u[Len(s) + i] = t[i]
    <3>1. /\ Len(s) + i \in 1 .. Len(s) + Len(t) /\ ~(Len(s) + i <= Len(s))
          /\ (Len(s) + i) - Len(s) = i
      BY <2>2
    <3> QED
      BY <2>1, <3>1
  <2> QED
    BY <2>1, <2>3, <2>4
<1> HIDE DEF u
<1>2. Len(s) \in Nat /\ Len(t) \in Nat /\ Strong(s) \in Seq(Network)
  BY StrongTyped
<1>3. /\ Kept(s)[0] = <<>> /\ Kept(t)[0] = <<>> /\ Kept(u)[0] = <<>>
      /\ \A k \in 1 .. Len(s) : Kept(s)[k] = Keep(Kept(s)[k - 1], s[k])
      /\ \A k \in 1 .. Len(t) : Kept(t)[k] = Keep(Kept(t)[k - 1], t[k])
      /\ \A k \in 1 .. Len(u) : Kept(u)[k] = Keep(Kept(u)[k - 1], u[k])
  BY <1>1, KeptFirst, KeptNext
<1>4. Nat \subseteq A
  <2>1. 0 \in A
    BY <1>3
  <2>2. ASSUME NEW k \in Nat, k \in A
        PROVE  k + 1 \in A
    <3> SUFFICES ASSUME k + 1 <= Len(s)
                 PROVE  Kept(u)[k + 1] = Kept(s)[k + 1]
      OBVIOUS
    <3>1. Kept(u)[k] = Kept(s)[k] /\ k + 1 \in 1 .. Len(s) /\ k + 1 \in 1 .. Len(u)
          /\ (k + 1) - 1 = k
      BY <1>1, <1>2, <2>2
    <3>2. /\ Kept(u)[k + 1] = Keep(Kept(u)[k], u[k + 1])
          /\ Kept(s)[k + 1] = Keep(Kept(s)[k], s[k + 1])
          /\ u[k + 1] = s[k + 1]
      BY <1>1, <1>3, <3>1
    <3> QED
      BY <3>1, <3>2, Zenon
  <2> HIDE DEF A
  <2> QED
    BY <2>1, <2>2, Induction
<1>5. Kept(u)[Len(s)] = Strong(s)
  <2>1. Len(s) \in A
    <3> HIDE DEF A
    <3> QED
      BY <1>2, <1>4
  <2>2. Kept(u)[Len(s)] = Kept(s)[Len(s)]
    BY <1>2, <2>1
  <2> QED
    BY <2>2 DEF Strong
<1>6. Nat \subseteq B
  <2>1. 0 \in B
    <3>1. Strong(s) \o <<>> = Strong(s) /\ <<>> \in Seq(Network)
      BY <1>2, ConcatEmptySeq
    <3>2. Len(s) + 0 = Len(s)
      BY <1>2
    <3>3. Joined(0)
      BY <1>3, <1>5, <3>1, <3>2, Zenon
    <3> QED
      BY <3>3
  <2>2. ASSUME NEW k \in Nat, k \in B
        PROVE  k + 1 \in B
    <3> SUFFICES ASSUME k + 1 <= Len(t)
                 PROVE  Joined(k + 1)
      OBVIOUS
    <3>1. Joined(k)
      BY <1>2, <2>2
    <3> DEFINE a == Strong(s)
               b == Kept(t)[k]
               e == t[k + 1]
               i == Len(s) + (k + 1)
    <3>2. k + 1 \in 1 .. Len(t) /\ (k + 1) - 1 = k
          /\ i \in 1 .. Len(u) /\ i - 1 = Len(s) + k
      BY <1>1, <1>2
    <3>3. /\ Kept(u)[i] = Keep(Kept(u)[i - 1], u[i]) /\ u[i] = e
          /\ Kept(t)[k + 1] = Keep(b, e)
      BY <1>1, <1>3, <3>2
    <3>4. a \in Seq(Network) /\ b \in Seq(Network) /\ e \in Network
      BY <1>2, <3>1, <3>2
    <3>5. Kept(u)[i] = Keep(a \o b, e)
      BY <3>1, <3>2, <3>3, Zenon
    <3> HIDE DEF a, b, e, i
    <3>6. Keep(a \o b, e) = a \o Keep(b, e) /\ Keep(b, e) \in Seq(Network)
      <4>1. CASE e.strong
        <5>1. Append(b, e) \in Seq(Network)
          BY <3>4
        <5>2. Append(a \o b, e) = a \o Append(b, e)
          BY <3>4, AppendConcat
        <5> QED
          BY <4>1, <5>1, <5>2, Zenon DEF Keep
      <4>2. CASE ~e.strong
        BY <3>4, <4>2 DEF Keep
      <4> QED
        BY <4>1, <4>2
    <3>7. Kept(u)[i] = a \o Kept(t)[k + 1] /\ Kept(t)[k + 1] \in Seq(Network)
      BY <3>3, <3>5, <3>6, Zenon
    <3> QED
      BY <3>7, Zenon DEF a, i
  <2> HIDE DEF B
  <2> QED
    BY <2>1, <2>2, Induction
<1>7. Joined(Len(t))
  <2>1. Len(t) \in B
    <3> HIDE DEF B
    <3> QED
      BY <1>2, <1>6
  <2> QED
    BY <1>2, <2>1
<1>8. Kept(u)[Len(u)] = Strong(s) \o Kept(t)[Len(t)]
  BY <1>1, <1>7, Zenon
<1>9. Strong(u) = Strong(s) \o Strong(t)
  BY <1>8, Zenon DEF Strong
<1> QED
  BY <1>9 DEF u

\* What is kept of the first `from' entries and of the next n.
LEMMA StrongGrows ==
    ASSUME NEW found \in Seq(Network), NEW from \in Nat, NEW n \in Nat,
           from + n <= Len(found)
    PROVE  Strong(SubSeq(found, 1, from + n)) =
             Strong(SubSeq(found, 1, from)) \o Strong(SubSeq(found, from + 1, from + n))
<1> DEFINE a == SubSeq(found, 1, from)
           b == SubSeq(found, from + 1, from + n)
<1>1. Len(found) \in Nat
  OBVIOUS
<1>2. a \in Seq(Network) /\ b \in Seq(Network)
  <2>1. \A i \in 1 .. Len(found) : found[i] \in Network
    OBVIOUS
  <2> QED
    BY <1>1, <2>1, SubSeqProperties
<1>3. a \o b = SubSeq(found, 1, from + n)
  <2>1. 1 \in 1 .. Len(found) + 1 /\ from \in 1 - 1 .. Len(found)
        /\ from + n \in from .. Len(found)
    BY <1>1
  <2> QED
    BY <2>1, ConcatAdjacentSubSeq
<1> HIDE DEF a, b
<1>4. Strong(a \o b) = Strong(a) \o Strong(b)
  BY <1>2, StrongConcat
<1> QED
  BY <1>3, <1>4, Zenon DEF a, b

-----------------------------------------------------------------------------
\* What windows know of the list that the device has found.

\* A window waits for request r: it has the list up to there.
Fetching(w, r, found) ==
    /\ w.scanIndex = r.from + r.n
    /\ w.numScanResults = Len(found)
    /\ w.scanResults = Strong(SubSeq(found, 1, r.from))
    /\ w.forDisplay = w.numScanResults - r.from + Len(w.scanResults)

\* What a request asks for is there, and what its answer says is still so, unless
\* its window has gone on to scan.
Faithful(w, r, found) ==
    /\ r.op = "scan_result" /\ (r.reply = Pending \/ w.callback # "scan_start")
            => r.from + r.n <= Len(found)
    /\ r.op = "scan_status" /\ r.reply # Pending /\ r.reply.ok
            => r.reply.count = Len(found)
    /\ r.op = "scan_result" /\ r.live /\ w.callback = "scan_result" =>
            /\ Fetching(w, r, found)
            /\ r.reply # Pending /\ r.reply.ok
                    => r.reply.entries = SubSeq(found, r.from + 1, r.from + r.n)

Current(w, s, found) == \A i \in DOMAIN s : Faithful(w, s[i], found)

\* Who is about to scan, or to ask what a scan has found, says so.
Scanner(w) ==
    /\ w.callback \in Early => w.shown = "scanning"
    /\ w.callback = "session" => w.provState # "SCANNING"

\* The list is asked for in a queue that is empty; only who is loaded again has
\* requests that nobody listens to.
Orderly(w, s) ==
    /\ Scanner(w)
    /\ \A i \in DOMAIN s :
        /\ s[i].reply # Pending => s[i].reply.http = 200
        /\ ~s[i].live => w.callback = "session"
        /\ s[i].op = "scan_result" => i = 1 /\ s[i].n >= 1

AsksScan(s) == \E i \in DOMAIN s : s[i].op = "scan_start" /\ s[i].reply = Pending
AsksList(s) == \E i \in DOMAIN s : s[i].op = "scan_result"

\* One window at a time is about to scan, and no other then fetches the list.
Undisturbed ==
    /\ \A p \in Pages : /\ Orderly(page[p], sent[p])
                        /\ Current(page[p], sent[p], device.found)
    /\ \A p, q \in Pages :
            page[p].shown = "scanning" /\ page[q].shown = "scanning" => p = q
    /\ \A p, q \in Pages : AsksScan(sent[p]) /\ AsksList(sent[q]) => p = q

LEMMA SentFields ==
    ASSUME NEW op, NEW from, NEW n, NEW x
    PROVE  /\ Send(op, from, n) = <<x>> => x.op = op /\ x.from = from /\ x.n = n
           /\ Ask(op) = <<x>> => x.op = op
  BY DEF Send, Ask

\* Entries arrive: the window has the list up to where it will ask next.
LEMMA TakeFetching ==
    ASSUME NEW w \in Called, NEW found \in Seq(Network), NEW r \in Requests,
           Fetching(w, r, found), w.scanIndex <= w.numScanResults,
           NEW entries, entries = SubSeq(found, r.from + 1, r.from + r.n)
    PROVE  LET v == TakeResults(w, entries)
           IN  /\ v.scanIndex = w.scanIndex /\ v.provState = w.provState
               /\ v.numScanResults = Len(found)
               /\ v.scanResults = Strong(SubSeq(found, 1, v.scanIndex))
               /\ v.forDisplay = v.numScanResults - v.scanIndex + Len(v.scanResults)
<1> DEFINE from == r.from
           n == r.n
           t == Strong(entries)
           d == Len(entries) - Len(t)
           u == w.scanResults \o t
           v == [w EXCEPT !.scanResults = @ \o t, !.forDisplay = @ - d]
<1>1. /\ from \in Nat /\ n \in Nat /\ Len(found) \in Nat
      /\ w.scanIndex = from + n /\ from + n <= Len(found)
      /\ w.numScanResults = Len(found)
      /\ w.scanResults = Strong(SubSeq(found, 1, from))
      /\ w.forDisplay = w.numScanResults - from + Len(w.scanResults)
  BY DEF Requests, RequestFields, Fetching
<1>2. entries \in Seq(Network) /\ Len(entries) = n
  <2>1. \A i \in from + 1 .. from + n : found[i] \in Network
    BY <1>1
  <2>2. /\ SubSeq(found, from + 1, from + n) \in Seq(Network)
        /\ Len(SubSeq(found, from + 1, from + n)) =
              IF from + 1 <= from + n THEN from + n - (from + 1) + 1 ELSE 0
    <3> HIDE DEF from, n
    <3> QED
      BY <1>1, <2>1, SubSeqProperties
  <2> HIDE DEF from, n
  <2>3. (IF from + 1 <= from + n THEN from + n - (from + 1) + 1 ELSE 0) = n
    BY <1>1
  <2> QED
    BY <2>2, <2>3 DEF from, n
<1>3. t \in Seq(Network) /\ Len(t) \in Nat /\ d = n - Len(t)
  <2>1. t \in Seq(Network)
    BY <1>2, StrongTyped
  <2> HIDE DEF t
  <2> QED
    BY <1>2, <2>1
<1>4. u = Strong(SubSeq(found, 1, from + n))
  <2>1. w.scanResults = Strong(SubSeq(found, 1, from))
    BY <1>1
  <2>2. t = Strong(SubSeq(found, from + 1, from + n))
    OBVIOUS
  <2> HIDE DEF from, n, t
  <2>3. Strong(SubSeq(found, 1, from + n)) =
          Strong(SubSeq(found, 1, from)) \o Strong(SubSeq(found, from + 1, from + n))
    BY <1>1, StrongGrows
  <2> QED
    BY <2>1, <2>2, <2>3, Zenon
<1>5. w.scanResults \in Seq(Network) /\ Len(w.scanResults) \in Nat
      /\ w.forDisplay \in Int /\ w.numScanResults \in Nat
  BY DEF Called, Windows
<1>6. v = TakeResults(w, entries)
  BY DEF TakeResults
<1> HIDE DEF t, d, from, n
<1>7. Len(u) = Len(w.scanResults) + Len(t)
  BY <1>3, <1>5, ConcatProperties
<1> HIDE DEF u
<1>8. /\ v.scanIndex = w.scanIndex /\ v.numScanResults = w.numScanResults
      /\ v.forDisplay = w.forDisplay - d /\ v.scanResults = u
      /\ v.provState = w.provState
  BY DEF Called, Windows, u
<1> HIDE DEF v
<1>9. w.forDisplay - d = w.numScanResults - w.scanIndex + Len(u)
  BY <1>1, <1>3, <1>5, <1>7
<1> QED
  BY <1>1, <1>4, <1>6, <1>8, <1>9

\* A row for each network and no more: the table is what the window has.
LEMMA ShowsAll ==
    ASSUME NEW v \in Called, v.forDisplay = Len(v.scanResults)
    PROVE  showSelectedResults(v) = v.scanResults
<1>1. /\ v.scanResults \in [1 .. Len(v.scanResults) -> Network]
      /\ DOMAIN v.scanResults = 1 .. Len(v.scanResults)
  BY LenProperties DEF Called, Windows
<1> QED
  BY <1>1 DEF showSelectedResults

\* What a window does with the response to its own request r, of the list that the
\* device has.
Onward(w, res, found) ==
    /\ Scanner(res.w)
    /\ res.w.shown = "scanning" => w.shown = "scanning"
    /\ \A x : res.requests = <<x>> /\ x.op = "scan_result" =>
            /\ w.callback \in {"scan_status", "scan_result"}
            /\ x.n >= 1 /\ x.from + x.n <= Len(found) /\ Fetching(res.w, x, found)
    /\ \A x : res.requests = <<x>> /\ x.op = "scan_start" =>
            w.callback = "scan_status" /\ Len(found) = 0
    /\ w.provState = "SCANNING" /\ res.w.provState = "READY"
            => res.w.table = Strong(found)

LEMMA BeginOnward ==
    ASSUME NEW w \in Called, NEW a \in Answers, NEW found \in Seq(Network), Listed(w),
           a.ok => a.count = Len(found), NEW res, BeginList(w, a, res)
    PROVE  Onward(w, res, found)
<1>1. PICK k \in 1 .. Batch :
            /\ k <= a.count
            /\ res.w.scanIndex = k /\ res.requests = Send("scan_result", 0, k)
  BY DEF BeginList
<1>2. /\ a.count = Len(found) /\ res.w.numScanResults = Len(found)
      /\ res.w.forDisplay = Len(found)
      /\ res.w.scanResults = <<>> /\ res.w.shown = "form"
      /\ res.w.callback = "scan_result" /\ w.callback = "scan_status"
      /\ res.w.provState = w.provState
  BY DEF BeginList, Listed, Early
<1>3. k \in Nat /\ k >= 1 /\ k <= Len(found) /\ Len(found) \in Nat /\ Len(<<>>) = 0
  BY <1>1, <1>2, PageSizes
<1>4. Strong(SubSeq(found, 1, 0)) = <<>>
  <2>1. SubSeq(found, 1, 0) = <<>>
    BY SubSeqEmpty
  <2> QED
    BY <2>1, StrongEmpty, Zenon
<1>5. ASSUME NEW x, res.requests = <<x>>
      PROVE  x.op = "scan_result" /\ x.from = 0 /\ x.n = k
  <2>1. Send("scan_result", 0, k) = <<x>>
    BY <1>1, <1>5
  <2> QED
    BY <2>1, SentFields
<1>6. ASSUME NEW x, res.requests = <<x>>
      PROVE  /\ x.n >= 1 /\ x.from + x.n <= Len(found) /\ Fetching(res.w, x, found)
  <2>1. x.from = 0 /\ x.n = k
    BY <1>5, <1>6
  <2> QED
    BY <1>1, <1>2, <1>3, <1>4, <2>1 DEF Fetching
<1>7. Scanner(res.w)
  BY <1>2 DEF Scanner, Early
<1> QED
  BY <1>2, <1>5, <1>6, <1>7 DEF Onward

LEMMA GoOnOnward ==
    ASSUME NEW w \in Called, NEW a \in Answers, NEW found \in Seq(Network),
           NEW r \in Requests, w.scanIndex <= w.numScanResults, Fetching(w, r, found),
           a.ok => a.entries = SubSeq(found, r.from + 1, r.from + r.n),
           NEW res, GoOnList(w, a, res)
    PROVE  Onward(w, res, found)
<1> DEFINE v == TakeResults(w, a.entries)
<1>1. /\ v.scanIndex = w.scanIndex /\ v.provState = w.provState
      /\ v.numScanResults = Len(found)
      /\ v.scanResults = Strong(SubSeq(found, 1, v.scanIndex))
      /\ v.forDisplay = v.numScanResults - v.scanIndex + Len(v.scanResults)
  BY TakeFetching DEF GoOnList
<1>2. /\ v \in Called
      /\ res.w.scanResults = v.scanResults
      /\ res.w.numScanResults = v.numScanResults
      /\ res.w.forDisplay = v.forDisplay
      /\ res.w.shown = w.shown
      /\ res.w.callback = "scan_result" /\ w.callback = "scan_result"
      /\ Fetched(v, res)
  BY DEF GoOnList
<1> HIDE DEF v
<1>3. /\ v.scanIndex \in Nat /\ v.numScanResults \in Nat /\ v.scanIndex <= v.numScanResults
      /\ Len(v.scanResults) \in Nat
  BY <1>1, <1>2 DEF Called, Windows, Fetching
<1>4. Scanner(res.w)
  BY <1>2 DEF Scanner, Early
<1>5. CASE /\ v.scanIndex >= v.numScanResults /\ res.requests = <<>>
           /\ res.w.table = showSelectedResults(v)
  <2>1. v.scanIndex = Len(found) /\ v.forDisplay = Len(v.scanResults)
    BY <1>1, <1>3, <1>5
  <2>2. res.w.table = Strong(SubSeq(found, 1, Len(found)))
    BY <1>1, <1>2, <1>5, <2>1, ShowsAll
  <2>3. res.w.table = Strong(found)
    BY <2>2, SubSeqFull
  <2>4. \A x : res.requests # <<x>>
    BY <1>5
  <2> QED
    BY <1>2, <1>4, <2>3, <2>4 DEF Onward
<1>6. CASE \E n \in 1 .. Batch :
              /\ n <= v.numScanResults - v.scanIndex
              /\ res.w.scanIndex = v.scanIndex + n
              /\ res.requests = Send("scan_result", v.scanIndex, n)
              /\ res.w.provState = v.provState
  <2>1. PICK n \in 1 .. Batch :
              /\ n <= v.numScanResults - v.scanIndex
              /\ res.w.scanIndex = v.scanIndex + n
              /\ res.requests = Send("scan_result", v.scanIndex, n)
              /\ res.w.provState = v.provState
    BY <1>6
  <2>2. n \in Nat /\ n >= 1
    BY PageSizes
  <2>3. ASSUME NEW x, res.requests = <<x>>
        PROVE  x.op = "scan_result" /\ x.from = v.scanIndex /\ x.n = n
    <3>1. Send("scan_result", v.scanIndex, n) = <<x>>
      BY <2>1, <2>3
    <3> QED
      BY <3>1, SentFields
  <2>4. ASSUME NEW x, res.requests = <<x>>
        PROVE  x.n >= 1 /\ x.from + x.n <= Len(found) /\ Fetching(res.w, x, found)
    <3>1. x.from = v.scanIndex /\ x.n = n
      BY <2>3, <2>4
    <3>2. x.from + x.n <= Len(found)
      BY <1>1, <1>3, <2>1, <2>2, <3>1
    <3>3. Fetching(res.w, x, found)
      BY <1>1, <1>2, <1>3, <2>1, <3>1 DEF Fetching
    <3> QED
      BY <2>2, <3>1, <3>2, <3>3
  <2> QED
    BY <1>1, <1>2, <1>4, <2>1, <2>3, <2>4 DEF Onward
<1> QED
  BY <1>2, <1>5, <1>6 DEF Fetched

LEMMA HandledOnward ==
    ASSUME NEW w \in Called, NEW found \in Seq(Network), Listed(w), Scanner(w),
           NEW r \in Requests, r.reply # Pending, r.live, r.op = w.callback,
           Faithful(w, r, found),
           NEW res, Handled(w, r.reply, res)
    PROVE  Onward(w, res, found)
<1> DEFINE a == r.reply
<1>1. a \in Answers /\ w \in Windows
  BY DEF Requests, RequestFields, Called
<1>2. /\ w.callback = "scan_status" /\ a.ok => a.count = Len(found)
      /\ w.callback = "scan_result" =>
            /\ Fetching(w, r, found)
            /\ a.ok => a.entries = SubSeq(found, r.from + 1, r.from + r.n)
  BY DEF Faithful
<1>3. CASE res.w = w /\ res.requests = <<>>
  <2>1. \A x : res.requests # <<x>>
    BY <1>3
  <2> QED
    BY <1>3, <2>1 DEF Onward
<1>4. CASE AskStatus(w, res)
  <2>1. ASSUME NEW x, res.requests = <<x>>
        PROVE  x.op = "scan_status"
    <3>1. Ask("scan_status") = <<x>>
      BY <1>4, <2>1 DEF AskStatus
    <3> QED
      BY <3>1, SentFields
  <2>2. /\ res.w.callback = "scan_status" /\ res.w.shown = w.shown /\ w.shown = "scanning"
        /\ w.provState = "SCANNING" => res.w.provState = w.provState
    BY <1>4 DEF AskStatus, Scanner, Early
  <2> QED
    BY <2>1, <2>2 DEF Onward, Scanner, Early
<1>5. CASE BeginList(w, a, res)
  <2>1. a.ok => a.count = Len(found)
    BY <1>2, <1>5 DEF BeginList
  <2> QED
    BY <1>1, <1>5, <2>1, BeginOnward
<1>6. CASE ScanAgain(w, a, res)
  <2>1. /\ w.callback = "scan_status" /\ w.shown = "scanning" /\ Len(found) = 0
        /\ res = startScan(w)
    BY <1>2, <1>6 DEF ScanAgain, Scanner, Early
  <2>2. CASE res.w = w /\ res.requests = <<>>
    BY <1>3, <2>2
  <2>3. CASE /\ res.requests = Ask("scan_start")
             /\ res.w.callback = "scan_start" /\ res.w.shown = "scanning"
             /\ res.w.provState = "SCANNING"
    <3>1. ASSUME NEW x, res.requests = <<x>>
          PROVE  x.op = "scan_start"
      <4>1. Ask("scan_start") = <<x>>
        BY <2>3, <3>1
      <4> QED
        BY <4>1, SentFields
    <3> QED
      BY <2>1, <2>3, <3>1 DEF Onward, Scanner, Early
  <2> QED
    BY <1>1, <2>1, <2>2, <2>3, startScanFields
<1>7. CASE GoOnList(w, a, res)
  <2>1. /\ Fetching(w, r, found)
        /\ a.ok => a.entries = SubSeq(found, r.from + 1, r.from + r.n)
    BY <1>2, <1>7 DEF GoOnList
  <2>2. w.scanIndex <= w.numScanResults
    BY DEF Listed
  <2> HIDE DEF a
  <2> QED
    BY <1>1, <1>7, <2>1, <2>2, GoOnOnward
<1>8. CASE GoOnElse(w, a, res)
  <2>1. /\ res.w.provState = w.provState
        /\ res.w.callback \notin Early
        /\ res.w.shown = w.shown \/ res.w.shown \in {"redirect", "success", "failed"}
        /\ \/ res.requests = <<>>
           \/ /\ res.requests = Ask(res.w.callback)
              /\ res.w.callback \in {"apply_config", "shutdown", "reset"}
    BY <1>8 DEF GoOnElse, Early
  <2>2. ASSUME NEW x, res.requests = <<x>>
        PROVE  x.op \in {"apply_config", "shutdown", "reset"}
    <3>1. /\ Ask(res.w.callback) = <<x>>
          /\ res.w.callback \in {"apply_config", "shutdown", "reset"}
      BY <2>1, <2>2
    <3> QED
      BY <3>1, SentFields
  <2> QED
    BY <2>1, <2>2 DEF Onward, Scanner, Early
<1> QED
  BY <1>3, <1>4, <1>5, <1>6, <1>7, <1>8 DEF Handled

-----------------------------------------------------------------------------
\* What a step of one window, or of the server, leaves as it was.

\* Who has asked for a scan shows that it waits for it.
LEMMA AskerScans ==
    ASSUME NEW w, NEW s \in Queues, Dialogue(w, s), Orderly(w, s), AsksScan(s)
    PROVE  w.callback \in {"session", "scan_start"} /\ w.shown = "scanning"
<1>1. PICK i \in DOMAIN s : s[i].op = "scan_start" /\ s[i].reply = Pending
  BY DEF AsksScan
<1>2. w.callback \in {"session", "scan_start"}
  <2>1. CASE s[i].live
    BY <1>1, <2>1 DEF Dialogue, Crossed
  <2>2. CASE ~s[i].live
    BY <2>2 DEF Orderly
  <2> QED
    BY <2>1, <2>2
<1> QED
  BY <1>2 DEF Orderly, Scanner, Early

\* Nobody but p takes a step.
LEMMA OneWindow ==
    ASSUME Undisturbed, NEW p \in Pages,
           \A q \in Pages \ {p} : page'[q] = page[q] /\ sent'[q] = sent[q],
           device'.found = device.found,
           Orderly(page'[p], sent'[p]), Current(page'[p], sent'[p], device.found),
           page'[p].shown = "scanning"
             => page[p].shown = "scanning"
                  \/ \A q \in Pages \ {p} : page[q].shown # "scanning",
           AsksScan(sent'[p])
             => AsksScan(sent[p]) \/ \A q \in Pages \ {p} : ~AsksList(sent[q]),
           AsksList(sent'[p])
             => AsksList(sent[p]) \/ \A q \in Pages \ {p} : ~AsksScan(sent[q])
    PROVE  Undisturbed'
<1>1. ASSUME NEW q \in Pages
      PROVE  /\ Orderly(page'[q], sent'[q])
             /\ Current(page'[q], sent'[q], device'.found)
  BY DEF Undisturbed
<1>2. ASSUME NEW q \in Pages, NEW o \in Pages,
             page'[q].shown = "scanning", page'[o].shown = "scanning"
      PROVE  q = o
  BY <1>2 DEF Undisturbed
<1>3. ASSUME NEW q \in Pages, NEW o \in Pages, AsksScan(sent'[q]), AsksList(sent'[o])
      PROVE  q = o
  BY <1>3 DEF Undisturbed
<1>4. /\ \A q \in Pages : /\ Orderly(page'[q], sent'[q])
                          /\ Current(page'[q], sent'[q], device'.found)
      /\ \A q, o \in Pages :
            page'[q].shown = "scanning" /\ page'[o].shown = "scanning" => q = o
      /\ \A q, o \in Pages : AsksScan(sent'[q]) /\ AsksList(sent'[o]) => q = o
  BY <1>1, <1>2, <1>3
<1> QED
  BY <1>4 DEF Undisturbed

\* A window that waits for nothing else.
LEMMA AloneFetches ==
    ASSUME NEW res, Outcome(res), NEW found, Scanner(res.w),
           \A x : res.requests = <<x>> /\ x.op = "scan_result" =>
                    x.n >= 1 /\ x.from + x.n <= Len(found) /\ Fetching(res.w, x, found)
    PROVE  LET t == <<>> \o res.requests
           IN  /\ Orderly(res.w, t) /\ Current(res.w, t, found)
               /\ AsksScan(t) => \E x : res.requests = <<x>> /\ x.op = "scan_start"
               /\ AsksList(t) => \E x : res.requests = <<x>> /\ x.op = "scan_result"
<1> DEFINE t == <<>> \o res.requests
<1>1. CASE res.requests = <<>>
  <2>1. DOMAIN t = {}
    BY <1>1
  <2> HIDE DEF t
  <2>2. Orderly(res.w, t) /\ Current(res.w, t, found) /\ ~AsksScan(t) /\ ~AsksList(t)
    BY <2>1 DEF Orderly, Current, AsksScan, AsksList
  <2> QED
    BY <2>2 DEF t
<1>2. CASE res.requests # <<>>
  <2>1. PICK r \in Fresh : res.requests = <<r>> /\ r.op = res.w.callback
    BY <1>2 DEF Outcome
  <2>2. t[1] = r /\ DOMAIN t = {1}
    BY <2>1
  <2>3. r.live /\ r.reply = Pending
    BY DEF Fresh
  <2>4. r.op = "scan_result" => r.n >= 1 /\ r.from + r.n <= Len(found)
                                  /\ Fetching(res.w, r, found)
    BY <2>1
  <2> HIDE DEF t
  <2>5. Orderly(res.w, t)
    BY <2>2, <2>3, <2>4 DEF Orderly
  <2>6. Current(res.w, t, found)
    BY <2>2, <2>3, <2>4 DEF Current, Faithful
  <2>7. /\ AsksScan(t) => r.op = "scan_start"
        /\ AsksList(t) => r.op = "scan_result"
    BY <2>2 DEF AsksScan, AsksList
  <2> QED
    BY <2>1, <2>5, <2>6, <2>7 DEF t
<1> QED
  BY <1>1, <1>2

\* A response is let pass.
LEMMA PopFetches ==
    ASSUME NEW w, NEW s \in Queues, s # <<>>, NEW found, Orderly(w, s), Current(w, s, found)
    PROVE  LET t == Tail(s)
           IN  /\ Orderly(w, t) /\ Current(w, t, found)
               /\ AsksScan(t) => AsksScan(s)
               /\ AsksList(t) => AsksList(s)
<1> DEFINE t == Tail(s)
<1>1. t \in Queues /\ \A i \in DOMAIN t : i + 1 \in DOMAIN s /\ t[i] = s[i + 1]
  BY PopQueue
<1>2. \A i \in DOMAIN t : i \in Nat \ {0}
  BY <1>1 DEF Queues
<1> HIDE DEF t
<1>3. Orderly(w, t)
  <2>1. ASSUME NEW i \in DOMAIN t
        PROVE  /\ t[i].reply # Pending => t[i].reply.http = 200
               /\ ~t[i].live => w.callback = "session"
               /\ t[i].op # "scan_result"
    <3>1. i + 1 \in DOMAIN s /\ t[i] = s[i + 1] /\ i + 1 # 1
      BY <1>1, <1>2
    <3> QED
      BY <3>1 DEF Orderly
  <2> QED
    BY <2>1 DEF Orderly
<1> QED
  BY <1>1, <1>3 DEF Current, AsksScan, AsksList, t

-----------------------------------------------------------------------------
\* The windows' steps.

\* The list that is shown when it has been fetched is that of the device.
ShowsFound(p) ==
    page[p].provState = "SCANNING" /\ page'[p].provState = "READY"
        => page'[p].table = Strong(device.found)

LEMMA FoundTyped ==
    ASSUME TypeInv
    PROVE  device.found \in Seq(Network)
  BY DEF TypeInv, Devices

LEMMA DeviceStays ==
    ASSUME DeviceUnchanged
    PROVE  device'.found = device.found
  BY DEF DeviceUnchanged

LEMMA HandleFetches ==
    ASSUME BooksInv, Undisturbed, "memory" \notin MayFail, NEW p \in Pages,
           HandleResponse(p)
    PROVE  Undisturbed' /\ ShowsFound(p)
<1> DEFINE s == sent[p]
           w == page[p]
           a == Head(s).reply
           found == device.found
<1>1. HandlerInv /\ TypeInv /\ Listed(w) /\ AllBooks
  BY DEF BooksInv, HandlerInv, AllBooks, Books
<1>2. PICK res : /\ s # <<>> /\ a # Pending /\ GoOn(p, res, Tail(s))
                 /\ Outcome(res) /\ HandledAs(w, s, a, res)
  BY <1>1, HandleCases
<1>3. /\ s \in Queues /\ w \in Called /\ 1 \in DOMAIN s /\ Head(s) = s[1]
      /\ s[1] \in Requests /\ s[1].live /\ a.op = s[1].op /\ a = s[1].reply
  BY <1>1, <1>2, HeadAnswered
<1>4. found \in Seq(Network)
  BY <1>1, FoundTyped
<1>5. Orderly(w, s) /\ Current(w, s, found)
  BY DEF Undisturbed
<1>6. a.http = 200 /\ Scanner(w) /\ Faithful(w, s[1], found)
  BY <1>2, <1>3, <1>5 DEF Orderly, Current
<1>7. /\ page'[p] = res.w /\ sent'[p] = Tail(s) \o res.requests
      /\ \A q \in Pages \ {p} : page'[q] = page[q] /\ sent'[q] = sent[q]
  BY <1>1, <1>2, GoOnWindows
<1>8. device'.found = found
  BY DeviceStays DEF HandleResponse
<1>9. CASE a.op = w.callback /\ Tail(s) = <<>> /\ Handled(w, a, res)
  <2> DEFINE t == <<>> \o res.requests
  <2>1. Onward(w, res, found)
    <3> HIDE DEF w, s, a, found
    <3> QED
      BY <1>1, <1>2, <1>3, <1>4, <1>6, <1>9, HandledOnward
  <2>2. /\ Orderly(res.w, t) /\ Current(res.w, t, found)
        /\ AsksScan(t) => \E x : res.requests = <<x>> /\ x.op = "scan_start"
        /\ AsksList(t) => \E x : res.requests = <<x>> /\ x.op = "scan_result"
    <3> HIDE DEF w, found
    <3> QED
      BY <1>2, <2>1, AloneFetches DEF Onward
  <2>3. sent'[p] = t
    BY <1>7, <1>9
  <2> HIDE DEF t
  <2>4. res.w.shown = "scanning" => w.shown = "scanning"
    BY <2>1 DEF Onward
  <2>5. ASSUME w.callback = "scan_status", NEW q \in Pages \ {p}
        PROVE  page[q].shown # "scanning" /\ ~AsksScan(sent[q])
    <3>1. w.shown = "scanning"
      BY <1>6, <2>5 DEF Scanner, Early
    <3>2. page[q].shown # "scanning"
      BY <2>5, <3>1 DEF Undisturbed
    <3>3. sent[q] \in Queues /\ Dialogue(page[q], sent[q]) /\ Orderly(page[q], sent[q])
      BY <1>1 DEF TypeInv, HandlerInv, Dialogues, Undisturbed
    <3> QED
      BY <3>2, <3>3, AskerScans
  <2>6. ASSUME AsksScan(t), NEW q \in Pages \ {p}
        PROVE  ~AsksList(sent[q])
    <3>1. w.callback = "scan_status" /\ Len(found) = 0
      BY <2>1, <2>2, <2>6 DEF Onward
    <3>2. page[q].shown # "scanning"
      BY <2>5, <3>1
    <3>3. Orderly(page[q], sent[q]) /\ Current(page[q], sent[q], found)
      BY DEF Undisturbed
    <3>4. ASSUME NEW i \in DOMAIN sent[q], sent[q][i].op = "scan_result"
          PROVE  FALSE
      <4> DEFINE r == sent[q][i]
      <4>1. r.n >= 1 /\ page[q].callback # "scan_start" /\ Faithful(page[q], r, found)
        BY <3>2, <3>3, <3>4 DEF Orderly, Current, Scanner, Early
      <4>2. r.from \in Nat /\ r.n \in Nat
        <5>1. r \in Requests
          BY <1>1 DEF TypeInv, Queues
        <5> QED
          BY <5>1 DEF Requests, RequestFields
      <4> HIDE DEF found
      <4>3. r.from + r.n <= 0
        BY <3>1, <3>4, <4>1 DEF Faithful
      <4> QED
        BY <4>1, <4>2, <4>3
    <3> QED
      BY <3>4 DEF AsksList
  <2>7. ASSUME AsksList(t)
        PROVE  AsksList(s) \/ \A q \in Pages \ {p} : ~AsksScan(sent[q])
    <3>1. w.callback \in {"scan_status", "scan_result"}
      BY <2>1, <2>2, <2>7 DEF Onward
    <3>2. CASE w.callback = "scan_result"
      BY <1>3, <1>9, <3>2 DEF AsksList
    <3>3. CASE w.callback = "scan_status"
      BY <2>5, <3>3
    <3> QED
      BY <3>1, <3>2, <3>3
  <2>8. Undisturbed'
    <3>1. Orderly(page'[p], sent'[p]) /\ Current(page'[p], sent'[p], found)
      BY <1>7, <2>2, <2>3
    <3>2. /\ page'[p].shown = "scanning" => page[p].shown = "scanning"
          /\ AsksScan(sent'[p]) => \A q \in Pages \ {p} : ~AsksList(sent[q])
          /\ AsksList(sent'[p])
               => AsksList(sent[p]) \/ \A q \in Pages \ {p} : ~AsksScan(sent[q])
      BY <1>7, <2>3, <2>4, <2>6, <2>7
    <3> QED
      BY <1>7, <1>8, <3>1, <3>2, OneWindow
  <2>9. ShowsFound(p)
    BY <1>7, <2>1 DEF Onward, ShowsFound
  <2> QED
    BY <2>8, <2>9
<1>10. CASE res.w = w /\ res.requests = <<>>
  <2>1. Tail(s) \in Queues /\ sent'[p] = Tail(s)
    BY <1>2, <1>3, <1>7, <1>10, PopQueue, NothingSent
  <2>2. /\ Orderly(w, Tail(s)) /\ Current(w, Tail(s), found)
        /\ AsksScan(Tail(s)) => AsksScan(s)
        /\ AsksList(Tail(s)) => AsksList(s)
    <3> HIDE DEF w, s, found
    <3> QED
      BY <1>2, <1>3, <1>5, PopFetches
  <2>3. Undisturbed'
    <3>1. page'[p] = page[p]
      BY <1>7, <1>10
    <3> QED
      BY <1>7, <1>8, <2>1, <2>2, <3>1, OneWindow
  <2>4. ShowsFound(p)
    BY <1>7, <1>10 DEF ShowsFound
  <2> QED
    BY <2>3, <2>4
<1> QED
  BY <1>2, <1>6, <1>9, <1>10 DEF HandledAs

\* What was asked before a window is loaded again is still served, and no answer to
\* it is handled.
LEMMA LoadFetches ==
    ASSUME BooksInv, Undisturbed, "together" \notin Races, NEW p \in Pages, Load(p)
    PROVE  Undisturbed' /\ ShowsFound(p)
<1> DEFINE s == sent[p]
           s0 == Forget(Unanswered(p))
           found == device.found
<1>1. TypeInv
  BY DEF BooksInv, HandlerInv
<1>2. PICK res : GoOn(p, res, s0) /\ Outcome(res) /\ Loaded(res)
  BY <1>1, LoadCases
<1>3. PICK r \in Fresh : res.requests = <<r>> /\ r.op = "session"
  BY <1>2, AskSends DEF Outcome, Loaded
<1>4. /\ s0 \in Queues
      /\ \A i \in DOMAIN s0 : s0[i].reply = Pending
      /\ \E d \in 0 .. Len(s) : \A i \in DOMAIN s0 :
            d + i \in DOMAIN s /\ s0[i] = [s[d + i] EXCEPT !.live = FALSE]
              /\ s[d + i].reply = Pending
  BY <1>1, ForgetQueue DEF TypeInv
<1> DEFINE t == s0 \o <<r>>
<1>5. /\ Len(t) = Len(s0) + 1 /\ t[Len(s0) + 1] = r /\ t \in Queues
      /\ \A i \in DOMAIN s0 : t[i] = s0[i]
  <2> HIDE DEF s0
  <2> QED
    BY <1>4, PushQueue
<1>6. s \in Queues /\ Orderly(page[p], s) /\ Current(page[p], s, found)
  BY <1>1 DEF TypeInv, Undisturbed
<1> HIDE DEF s0, s, t
<1>7. ASSUME NEW i \in DOMAIN s0
      PROVE  \E j \in DOMAIN s :
                /\ i <= j /\ s[j].reply = Pending
                /\ s0[i].op = s[j].op /\ s0[i].n = s[j].n /\ s0[i].from = s[j].from
  <2>1. PICK d \in 0 .. Len(s) :
            d + i \in DOMAIN s /\ s0[i] = [s[d + i] EXCEPT !.live = FALSE]
              /\ s[d + i].reply = Pending
    BY <1>4
  <2> DEFINE j == d + i
  <2>2. i \in Nat /\ d \in Nat /\ i <= j
    BY <1>4, <1>6 DEF Queues
  <2>3. j \in DOMAIN s /\ s[j] \in RequestFields
    BY <1>6, <2>1 DEF Queues, Requests
  <2>4. s0[i] = [s[j] EXCEPT !.live = FALSE] /\ s[j].reply = Pending
    BY <2>1
  <2> HIDE DEF j
  <2>5. s0[i].op = s[j].op /\ s0[i].n = s[j].n /\ s0[i].from = s[j].from
    BY <2>3, <2>4 DEF RequestFields
  <2> QED
    BY <2>2, <2>3, <2>4, <2>5
<1>8. ASSUME NEW i \in DOMAIN t
      PROVE  /\ t[i].reply = Pending /\ i \in Nat /\ i >= 1
             /\ \/ t[i].op = "session"
                \/ \E j \in DOMAIN s :
                      /\ i <= j /\ s[j].reply = Pending
                      /\ t[i].op = s[j].op /\ t[i].n = s[j].n /\ t[i].from = s[j].from
  <2>1. i \in 1 .. Len(s0) + 1 /\ Len(s0) \in Nat /\ DOMAIN s0 = 1 .. Len(s0)
    BY <1>4, <1>5 DEF Queues
  <2>2. CASE i \in DOMAIN s0
    BY <1>4, <1>5, <1>7, <2>1, <2>2
  <2>3. CASE i = Len(s0) + 1
    BY <1>3, <1>5, <2>1, <2>3 DEF Fresh
  <2> QED
    BY <2>1, <2>2, <2>3
<1>9. /\ res.w.callback = "session" /\ res.w.shown = "scanning"
      /\ res.w.provState = "INITIALIZING"
  BY <1>2 DEF Loaded
<1>10. Orderly(res.w, t)
  <2>1. Scanner(res.w)
    BY <1>9 DEF Scanner
  <2>2. ASSUME NEW i \in DOMAIN t, t[i].op = "scan_result"
        PROVE  i = 1 /\ t[i].n >= 1
    <3>1. PICK j \in DOMAIN s : i <= j /\ s[j].op = "scan_result" /\ t[i].n = s[j].n
      BY <1>8, <2>2
    <3>2. j = 1 /\ s[j].n >= 1
      BY <1>6, <3>1 DEF Orderly
    <3> QED
      BY <1>8, <3>1, <3>2
  <2> QED
    BY <1>8, <1>9, <2>1, <2>2 DEF Orderly
<1>11. Current(res.w, t, found)
  <2>1. ASSUME NEW i \in DOMAIN t, t[i].op = "scan_result"
        PROVE  t[i].from + t[i].n <= Len(found)
    <3>1. PICK j \in DOMAIN s : /\ s[j].op = "scan_result" /\ s[j].reply = Pending
                                /\ t[i].n = s[j].n /\ t[i].from = s[j].from
      BY <1>8, <2>1
    <3> QED
      BY <1>6, <3>1 DEF Current, Faithful
  <2> QED
    BY <1>8, <1>9, <2>1 DEF Current, Faithful
<1>12. (AsksScan(t) => AsksScan(s)) /\ (AsksList(t) => AsksList(s))
  BY <1>8 DEF AsksScan, AsksList
<1>13. /\ page'[p] = res.w /\ sent'[p] = t
       /\ \A q \in Pages \ {p} : page'[q] = page[q] /\ sent'[q] = sent[q]
  BY <1>1, <1>2, <1>3, GoOnWindows DEF t
<1>14. device'.found = device.found /\ \A q \in Pages \ {p} : page[q].shown # "scanning"
  BY DeviceStays DEF Load
<1>15. Undisturbed'
  BY <1>10, <1>11, <1>12, <1>13, <1>14, OneWindow DEF s
<1>16. ShowsFound(p)
  BY <1>9, <1>13 DEF ShowsFound
<1> QED
  BY <1>15, <1>16

\* A button: the last request goes on, but its answer is not handled.
LEMMA PushFetches ==
    ASSUME NEW w, NEW s \in Queues, NEW found, Orderly(w, s), Current(w, s, found),
           w.callback \in {"scan_result", "reset"},
           NEW v, v.callback \in {"scan_start", "set_config"}, Scanner(v),
           NEW r \in Fresh, r.op = v.callback
    PROVE  LET t == s \o <<r>>
           IN  /\ Orderly(v, t) /\ Current(v, t, found)
               /\ AsksScan(t) => AsksScan(s) \/ v.callback = "scan_start"
               /\ AsksList(t) => AsksList(s)
<1> DEFINE t == s \o <<r>>
<1>1. /\ Len(t) = Len(s) + 1 /\ t[Len(s) + 1] = r /\ t \in Queues
      /\ \A i \in DOMAIN s : t[i] = s[i]
  BY PushQueue
<1> HIDE DEF t
<1>2. Len(s) \in Nat /\ DOMAIN s = 1 .. Len(s) /\ DOMAIN t = 1 .. Len(t)
  BY <1>1 DEF Queues
<1>3. r.live /\ r.reply = Pending
  BY DEF Fresh
<1>4. ASSUME NEW i \in DOMAIN t
      PROVE  (i \in DOMAIN s /\ t[i] = s[i]) \/ t[i] = r
  BY <1>1, <1>2
<1>5. Orderly(v, t)
  BY <1>3, <1>4 DEF Orderly
<1>6. Current(v, t, found)
  BY <1>3, <1>4 DEF Current, Faithful
<1>7. /\ AsksScan(t) => AsksScan(s) \/ v.callback = "scan_start"
      /\ AsksList(t) => AsksList(s)
  BY <1>4 DEF AsksScan, AsksList
<1> QED
  BY <1>5, <1>6, <1>7 DEF t

LEMMA ButtonFetches ==
    ASSUME BooksInv, Undisturbed, "over_others" \notin Races, NEW p \in Pages,
           Rescan(p) \/ GoBack(p) \/ \E fits \in BOOLEAN : ApplyButton(p, fits)
    PROVE  Undisturbed' /\ ShowsFound(p)
<1> DEFINE s == sent[p]
           w == page[p]
           found == device.found
<1>1. TypeInv /\ Dialogue(w, s)
  BY DEF BooksInv, HandlerInv, Dialogues
<1>2. PICK res : /\ GoOn(p, res, s) /\ Outcome(res) /\ Pressed(w, res)
                 /\ Scans(w, res) => Quiet(p)
  BY <1>1, ButtonCases
<1>3. w \in Called /\ w.callback \in {"scan_result", "reset"}
  BY <1>1, ButtonCases DEF Dialogue, Settled
<1>4. s \in Queues /\ Orderly(w, s) /\ Current(w, s, found)
  BY <1>1 DEF TypeInv, Undisturbed
<1>5. /\ page'[p] = res.w /\ sent'[p] = s \o res.requests
      /\ \A q \in Pages \ {p} : page'[q] = page[q] /\ sent'[q] = sent[q]
  BY <1>1, <1>2, GoOnWindows
<1>6. device'.found = found
  BY DeviceStays DEF Rescan, GoBack, ApplyButton
<1>7. CASE res.w = w /\ res.requests = <<>>
  <2>1. page'[p] = w /\ sent'[p] = s
    BY <1>4, <1>5, <1>7, NothingSent
  <2> QED
    BY <1>4, <1>5, <1>6, <2>1, OneWindow DEF ShowsFound
<1>8. CASE Scans(w, res) \/ Applies(w, res)
  <2>1. PICK r \in Fresh : res.requests = <<r>> /\ r.op = res.w.callback
    BY <1>2, <1>8, AskSends DEF Outcome, Scans, Applies
  <2>2. /\ Scans(w, res) => res.w.callback = "scan_start" /\ res.w.shown = "scanning"
        /\ Applies(w, res) => res.w.callback = "set_config" /\ res.w.shown = "connecting"
        /\ res.w.provState # "READY"
    BY <1>8 DEF Scans, Applies
  <2>3. res.w.callback \in {"scan_start", "set_config"} /\ Scanner(res.w)
    BY <1>8, <2>2 DEF Scanner, Early
  <2> DEFINE t == s \o <<r>>
  <2>4. /\ Orderly(res.w, t) /\ Current(res.w, t, found)
        /\ AsksScan(t) => AsksScan(s) \/ res.w.callback = "scan_start"
        /\ AsksList(t) => AsksList(s)
    <3> HIDE DEF w, s, found
    <3> QED
      BY <1>3, <1>4, <2>1, <2>3, PushFetches
  <2>5. sent'[p] = t
    BY <1>5, <2>1
  <2> HIDE DEF t
  <2>6. res.w.callback = "scan_start" \/ res.w.shown = "scanning"
          => \A q \in Pages \ {p} : page[q].shown # "scanning" /\ ~AsksList(sent[q])
    <3>1. CASE Scans(w, res)
      <4>1. ASSUME NEW q \in Pages \ {p}
            PROVE  page[q].shown # "scanning" /\ sent[q] = <<>>
        BY <1>2, <3>1 DEF Quiet, Busy
      <4>2. ~AsksList(<<>>)
        BY DEF AsksList
      <4> QED
        BY <4>1, <4>2
    <3>2. CASE Applies(w, res)
      BY <2>2, <3>2
    <3> QED
      BY <1>8, <3>1, <3>2
  <2>7. Undisturbed'
    BY <1>5, <1>6, <2>4, <2>5, <2>6, OneWindow
  <2> QED
    BY <1>5, <2>2, <2>7 DEF ShowsFound
<1> QED
  BY <1>2, <1>7, <1>8 DEF Pressed

LEMMA TimerFetches ==
    ASSUME BooksInv, Undisturbed, NEW p \in Pages, NEW timer \in Timers,
           TimerFires(p, timer)
    PROVE  Undisturbed' /\ ShowsFound(p)
<1> DEFINE w == page[p]
           found == device.found
<1>1. HandlerInv /\ TypeInv /\ Listed(w) /\ Orderly(w, sent[p])
  BY DEF BooksInv, HandlerInv, AllBooks, Books, Undisturbed
<1>2. PICK res : GoOn(p, res, sent[p]) /\ Outcome(res) /\ Ticked(w, timer, res)
  BY <1>1, TimerCases
<1>3. sent[p] = <<>>
  BY <1>1, TimerCases
<1>4. /\ timer \in {"get_status", "homepage"} /\ res.w.callback = timer
      /\ res.w.shown = w.shown /\ res.w.provState = w.provState
      /\ res.requests = Ask(timer)
  BY <1>1, <1>2 DEF Ticked, Listed, Timers
<1>5. ASSUME NEW x, res.requests = <<x>>
      PROVE  x.op \notin {"scan_start", "scan_result"}
  <2>1. Ask(timer) = <<x>>
    BY <1>4, <1>5
  <2> QED
    BY <1>4, <2>1, SentFields
<1>6. Scanner(res.w)
  BY <1>4 DEF Scanner, Early
<1> DEFINE t == <<>> \o res.requests
<1>7. Orderly(res.w, t) /\ Current(res.w, t, found) /\ ~AsksScan(t) /\ ~AsksList(t)
  <2> HIDE DEF w, found
  <2> QED
    BY <1>2, <1>5, <1>6, AloneFetches
<1>8. /\ page'[p] = res.w /\ sent'[p] = t
      /\ \A q \in Pages \ {p} : page'[q] = page[q] /\ sent'[q] = sent[q]
  BY <1>1, <1>2, <1>3, GoOnWindows
<1> HIDE DEF t
<1>9. device'.found = found
  BY DeviceStays DEF TimerFires
<1>10. Undisturbed'
  BY <1>4, <1>7, <1>8, <1>9, OneWindow
<1> QED
  BY <1>4, <1>8, <1>10 DEF ShowsFound

-----------------------------------------------------------------------------
\* The server and the device.

\* An answer is put in its place, and what it says is so.
LEMMA ToldFetches ==
    ASSUME TypeInv, NEW p \in Pages, NEW w, NEW found, found = device.found,
           Orderly(w, sent[p]), Current(w, sent[p], found),
           NEW t \in Queues, NEW m \in Nat, NEW a \in Answers, a.http = 200,
           First(sent[p], m), True(p, m, a),
           Told(sent[p], t, m, a) \/ Removed(sent[p], t, m)
    PROVE  /\ Orderly(w, t) /\ Current(w, t, found)
           /\ AsksScan(t) => AsksScan(sent[p])
           /\ AsksList(t) => AsksList(sent[p])
<1> DEFINE s == sent[p]
<1>1. s \in Queues
  BY DEF TypeInv
<1>2. /\ m \in DOMAIN s /\ s[m] \in RequestFields /\ s[m].reply = Pending /\ a # Pending
  BY <1>1, AnswerNotPending DEF First, Queues, Requests
<1>3. ASSUME NEW i \in DOMAIN t
      PROVE  \E j \in DOMAIN s :
                /\ t[i] = s[j] \/ (j = m /\ t[i] = [s[m] EXCEPT !.reply = a])
                /\ t[i].op = s[j].op /\ t[i].live = s[j].live /\ t[i].n = s[j].n
                /\ t[i].from = s[j].from
                /\ i <= j /\ i \in Nat /\ i >= 1
  <2>1. First(s, m) /\ (Told(s, t, m, a) \/ Removed(s, t, m))
    OBVIOUS
  <2> HIDE DEF s
  <2>2. \A k \in DOMAIN t : \E j \in DOMAIN s :
                /\ t[k] = s[j] \/ (j = m /\ t[k] = [s[m] EXCEPT !.reply = a])
                /\ t[k].op = s[j].op /\ t[k].live = s[j].live /\ t[k].n = s[j].n
                /\ t[k].from = s[j].from
                /\ k <= j /\ (j = Len(s) => k = Len(t))
    BY <1>1, <2>1, LeftBehind
  <2>3. i \in Nat /\ i >= 1
    BY DEF Queues
  <2> QED
    BY <2>2, <2>3
<1>4. [s[m] EXCEPT !.reply = a].reply = a
  BY <1>2 DEF RequestFields
<1> HIDE DEF s
<1>5. Orderly(w, t)
  <2>1. Orderly(w, s)
    BY DEF s
  <2>2. ASSUME NEW i \in DOMAIN t
        PROVE  /\ t[i].reply # Pending => t[i].reply.http = 200
               /\ ~t[i].live => w.callback = "session"
               /\ t[i].op = "scan_result" => i = 1 /\ t[i].n >= 1
    <3>1. PICK j \in DOMAIN s :
                /\ t[i] = s[j] \/ t[i].reply = a
                /\ t[i].op = s[j].op /\ t[i].live = s[j].live /\ t[i].n = s[j].n
                /\ i <= j /\ i \in Nat /\ i >= 1
      <4>1. PICK j \in DOMAIN s :
                /\ t[i] = s[j] \/ (j = m /\ t[i] = [s[m] EXCEPT !.reply = a])
                /\ t[i].op = s[j].op /\ t[i].live = s[j].live /\ t[i].n = s[j].n
                /\ i <= j /\ i \in Nat /\ i >= 1
        BY <1>3
      <4>2. t[i] = s[j] \/ t[i].reply = a
        BY <1>4, <4>1, Zenon
      <4> QED
        BY <4>1, <4>2
    <3>2. t[i].reply # Pending => t[i].reply.http = 200
      BY <2>1, <3>1 DEF Orderly
    <3>3. ~t[i].live => w.callback = "session"
      BY <2>1, <3>1 DEF Orderly
    <3>4. t[i].op = "scan_result" => i = 1 /\ t[i].n >= 1
      <4>1. ASSUME t[i].op = "scan_result"
            PROVE  j = 1 /\ s[j].n >= 1
        <5>1. s[j].op = "scan_result"
          BY <3>1, <4>1
        <5> QED
          BY <2>1, <5>1 DEF Orderly
      <4> QED
        BY <3>1, <4>1
    <3> QED
      BY <3>2, <3>3, <3>4
  <2> QED
    BY <2>1, <2>2 DEF Orderly
<1>6. ASSUME NEW i \in DOMAIN t
      PROVE  Faithful(w, t[i], found)
  <2>1. PICK j \in DOMAIN s :
                /\ t[i] = s[j] \/ (j = m /\ t[i].reply = a)
                /\ t[i].op = s[j].op /\ t[i].live = s[j].live /\ t[i].n = s[j].n
                /\ t[i].from = s[j].from
    <3>1. PICK j \in DOMAIN s :
                /\ t[i] = s[j] \/ (j = m /\ t[i] = [s[m] EXCEPT !.reply = a])
                /\ t[i].op = s[j].op /\ t[i].live = s[j].live /\ t[i].n = s[j].n
                /\ t[i].from = s[j].from
      BY <1>3
    <3>2. t[i] = s[j] \/ (j = m /\ t[i].reply = a)
      BY <1>4, <3>1, Zenon
    <3> QED
      BY <3>1, <3>2
  <2>2. Faithful(w, s[j], found)
    BY DEF Current, s
  <2>3. CASE t[i] = s[j]
    BY <2>2, <2>3
  <2>4. CASE j = m /\ t[i].reply = a
    <3>1. /\ a.op = s[m].op
          /\ a.ok /\ a.op = "scan_status" => a.count = Len(found)
          /\ a.ok /\ a.op = "scan_result" =>
                a.entries = SubSeq(found, s[m].from + 1, s[m].from + s[m].n)
      BY DEF True, s
    <3>2. s[j].op = "scan_result" => s[j].from + s[j].n <= Len(found)
      BY <1>2, <2>2, <2>4 DEF Faithful
    <3>3. s[j].op = "scan_result" /\ s[j].live /\ w.callback = "scan_result"
            => Fetching(w, t[i], found)
      BY <2>1, <2>2 DEF Faithful, Fetching
    <3> QED
      BY <2>1, <2>4, <3>1, <3>2, <3>3 DEF Faithful
  <2> QED
    BY <2>1, <2>3, <2>4
<1>7. /\ AsksScan(t) => AsksScan(s)
      /\ AsksList(t) => AsksList(s)
  <2>1. ASSUME NEW i \in DOMAIN t
        PROVE  \E j \in DOMAIN s :
                  t[i].op = s[j].op /\ (t[i].reply = Pending => s[j].reply = Pending)
    <3>1. PICK j \in DOMAIN s :
                /\ t[i] = s[j] \/ (j = m /\ t[i] = [s[m] EXCEPT !.reply = a])
                /\ t[i].op = s[j].op
      BY <1>3
    <3>2. t[i] = s[j] \/ t[i].reply = a
      BY <1>4, <3>1, Zenon
    <3> QED
      BY <1>2, <3>1, <3>2
  <2> QED
    BY <2>1 DEF AsksScan, AsksList
<1> QED
  BY <1>5, <1>6, <1>7 DEF Current, s

LEMMA AnswerFetches ==
    ASSUME BooksInv, Undisturbed, device.prov # "GONE", "memory" \notin MayFail,
           NEW p \in Pages, Answering(p)
    PROVE  Undisturbed'
<1>1. TypeInv
  BY DEF BooksInv, HandlerInv
<1> DEFINE t == sent'[p]
<1>2. /\ page' = page /\ t \in Queues
      /\ \A q \in Pages \ {p} : sent'[q] = sent[q]
  BY <1>1, AnswerCases
<1>3. PICK m \in Nat, a \in Answers :
        /\ First(sent[p], m) /\ True(p, m, a)
        /\ Told(sent[p], t, m, a) \/ Removed(sent[p], t, m)
  BY <1>1, AnswerCases
<1>4. a.http = 200
  BY <1>3 DEF Answers, AnswerFields, True
<1>5. Orderly(page[p], sent[p]) /\ Current(page[p], sent[p], device.found)
  BY DEF Undisturbed
<1>6. /\ Orderly(page[p], t) /\ Current(page[p], t, device.found)
      /\ AsksScan(t) => AsksScan(sent[p])
      /\ AsksList(t) => AsksList(sent[p])
  <2> HIDE DEF t
  <2> QED
    BY <1>1, <1>2, <1>3, <1>4, <1>5, ToldFetches
<1>7. device'.found = device.found
  BY DEF Answering
<1> QED
  BY <1>2, <1>6, <1>7, OneWindow

\* When a request to scan is served, no window goes by what it was told of the list.
LEMMA Renewed ==
    ASSUME BooksInv, Undisturbed, NEW p \in Pages, NEW m \in Nat, First(sent[p], m),
           sent[p][m].op = "scan_start", NEW q \in Pages, NEW found
    PROVE  Current(page[q], sent[q], found)
<1>1. /\ TypeInv /\ sent[p] \in Queues /\ Dialogue(page[p], sent[p])
      /\ sent[q] \in Queues /\ Dialogue(page[q], sent[q])
      /\ Orderly(page[p], sent[p]) /\ Orderly(page[q], sent[q])
  BY DEF BooksInv, HandlerInv, Dialogues, TypeInv, Undisturbed
<1>2. AsksScan(sent[p])
  BY DEF AsksScan, First
<1>3. page[p].callback \in {"session", "scan_start"} /\ page[p].shown = "scanning"
  BY <1>1, <1>2, AskerScans
<1> SUFFICES ASSUME NEW i \in DOMAIN sent[q]
             PROVE  Faithful(page[q], sent[q][i], found)
  BY DEF Current
<1> DEFINE r == sent[q][i]
<1>4. /\ r.reply # Pending => r.live
      /\ r.live => r.op = page[q].callback \/ <<r.op, page[q].callback>> \in Crossed
  <2>1. r \in Requests
    BY <1>1 DEF Queues
  <2>2. r.reply # Pending => r.live
    <3> HIDE DEF r
    <3> QED
      BY <2>1 DEF Requests
  <2>3. r.live => r.op = page[q].callback \/ <<r.op, page[q].callback>> \in Crossed
    BY <1>1 DEF Dialogue
  <2> QED
    BY <2>2, <2>3
<1>5. CASE r.op = "scan_result"
  <2>1. q = p /\ i = 1
    BY <1>1, <1>2, <1>5 DEF AsksList, Undisturbed, Orderly
  <2>2. r.reply # Pending
    <3>1. m # 1
      BY <1>5, <2>1
    <3>2. m \in 1 .. Len(sent[p])
      BY <1>1 DEF First, Queues
    <3>3. 1 \in 1 .. m - 1
      BY <3>1, <3>2
    <3> QED
      BY <2>1, <3>3 DEF First
  <2>3. page[q].callback = "scan_start"
    BY <1>3, <1>4, <1>5, <2>1, <2>2 DEF Crossed
  <2> QED
    BY <1>5, <2>2, <2>3 DEF Faithful
<1>6. CASE r.op = "scan_status"
  <2>1. ASSUME r.reply # Pending
        PROVE  FALSE
    <3>1. page[q].callback = "scan_status"
      BY <1>4, <1>6, <2>1 DEF Crossed
    <3>2. page[q].shown = "scanning"
      BY <1>1, <3>1 DEF Orderly, Scanner, Early
    <3>3. q = p
      BY <1>3, <3>2 DEF Undisturbed
    <3> QED
      BY <1>3, <3>1, <3>3
  <2> QED
    BY <1>6, <2>1 DEF Faithful
<1> QED
  BY <1>5, <1>6 DEF Faithful

\* A scan begins or ends.
LEMMA ListChanges ==
    ASSUME BooksInv, Undisturbed, UNCHANGED <<page, sent>>, NEW p \in Pages,
           \E m \in Nat : First(sent[p], m) /\ sent[p][m].op = "scan_start"
    PROVE  Undisturbed'
<1>1. \A q \in Pages : Current(page[q], sent[q], device'.found)
  BY Renewed
<1> QED
  BY <1>1 DEF Undisturbed

\* A fault would be a request that runs past the list's end.
LEMMA NoFaulting ==
    ASSUME TypeInv, Undisturbed, NEW p \in Pages
    PROVE  ~Faulting(p)
<1> SUFFICES ASSUME Faulting(p) PROVE FALSE
  OBVIOUS
<1>1. PICK m \in Nat : /\ First(sent[p], m) /\ sent[p][m].op = "scan_result"
                       /\ sent[p][m].from + sent[p][m].n > Len(device.found)
  BY DEF Faulting
<1>2. Faithful(page[p], sent[p][m], device.found) /\ sent[p][m].reply = Pending
  BY <1>1 DEF Undisturbed, Current, First
<1>3. sent[p][m].from + sent[p][m].n <= Len(device.found)
  BY <1>1, <1>2 DEF Faithful
<1>4. /\ sent[p][m].from \in Nat /\ sent[p][m].n \in Nat /\ Len(device.found) \in Nat
  <2>1. sent[p][m] \in Requests
    BY <1>1 DEF TypeInv, Queues, First
  <2>2. Len(device.found) \in Nat
    BY FoundTyped
  <2> QED
    BY <2>1, <2>2 DEF Requests, RequestFields
<1> QED
  BY <1>1, <1>3, <1>4

\* Nothing that has been said of the list changes when the list does not.
LEMMA ListStays ==
    ASSUME Undisturbed, UNCHANGED <<page, sent>>, device'.found = device.found
    PROVE  Undisturbed'
  BY DEF Undisturbed

LEMMA ServeFetches ==
    ASSUME BooksInv, Undisturbed, device.prov # "GONE", "memory" \notin MayFail,
           NEW p \in Pages, Serve(p)
    PROVE  Undisturbed' /\ page' = page
<1>1. TypeInv
  BY DEF BooksInv, HandlerInv
<1>2. CASE Answering(p)
  BY <1>1, <1>2, AnswerFetches, AnswerCases DEF Answering
<1>3. CASE Scanning(p)
  BY <1>3, ListChanges DEF Scanning
<1> QED
  BY <1>1, <1>2, <1>3, ServeCases, NoFaulting

\* The list that a scan has found replaces the old one while its window waits.
LEMMA ScanDoneFetches ==
    ASSUME BooksInv, Undisturbed, ScanDone
    PROVE  Undisturbed'
<1>1. TypeInv /\ UNCHANGED <<page, sent>>
  BY DEF BooksInv, HandlerInv, ScanDone, WindowsUnchanged
<1>2. CASE device.scanning
  <2>1. server \in Pages
    BY <1>1, <1>2 DEF TypeInv, Occupied
  <2>2. \E m \in Nat : First(sent[server], m) /\ sent[server][m].op = "scan_start"
    BY <1>1, <1>2 DEF TypeInv, Occupied
  <2> QED
    BY <1>1, <2>1, <2>2, ListChanges
<1>3. CASE ~device.scanning
  <2>1. device' = [device EXCEPT !.radio = FALSE]
    BY <1>3 DEF ScanDone
  <2>2. device'.found = device.found
    BY <1>1, <2>1 DEF TypeInv, Devices
  <2> QED
    BY <1>1, <2>2, ListStays
<1> QED
  BY <1>2, <1>3

LEMMA DeviceFetches ==
    ASSUME BooksInv, Undisturbed, ScanDone \/ GotIp \/ Rejected \/ Retried \/ TimerExpires
    PROVE  device'.prov = "GONE" \/ Undisturbed'
<1>1. device \in Devices
  BY DEF BooksInv, HandlerInv, TypeInv
<1>2. UNCHANGED <<page, sent>>
  BY DEF ScanDone, GotIp, Rejected, Retried, Verdict, TimerExpires, WindowsUnchanged
<1>3. CASE GotIp \/ Rejected \/ Retried
  <2>1. device'.found = device.found
    BY <1>1, <1>3 DEF GotIp, Rejected, Retried, Verdict, Devices
  <2> QED
    BY <1>2, <2>1, ListStays
<1>4. CASE TimerExpires
  <2>1. CASE ResetExpires \/ Stage1Expires
    <3>1. device'.found = device.found
      BY <1>1, <2>1 DEF ResetExpires, Stage1Expires, Expired, Devices
    <3> QED
      BY <1>2, <3>1, ListStays
  <2>2. CASE Stage2Expires
    BY <1>1, <2>2 DEF Stage2Expires, Devices
  <2> QED
    BY <1>4, <2>1, <2>2 DEF TimerExpires
<1> QED
  BY <1>3, <1>4, ScanDoneFetches

-----------------------------------------------------------------------------
\* Nothing fails, no window is loaded while another one is about to scan, and nobody
\* scans again while another window waits.
Calm == MayFail = {} /\ Races = {}

FetchInv ==
    /\ BooksInv
    /\ device.prov = "GONE" \/ Undisturbed

LEMMA FetchInit == Init => FetchInv
<1> SUFFICES ASSUME Init PROVE FetchInv
  OBVIOUS
<1>1. BooksInv
  BY BooksInit
<1>2. ASSUME NEW p \in Pages
      PROVE  page[p] = Unloaded /\ sent[p] = <<>>
  BY DEF Init
<1>3. DOMAIN <<>> = {} /\ Unloaded.callback = "none" /\ Unloaded.shown = "none"
  BY DEF Unloaded
<1>4. Undisturbed
  BY <1>2, <1>3 DEF Undisturbed, Orderly, Scanner, Early, Current, AsksScan, AsksList
<1> QED
  BY <1>1, <1>4 DEF FetchInv

\* A step of one window, of the server or of the device.
LEMMA FetchStep ==
    ASSUME Calm, BooksInv, Undisturbed, device.prov # "GONE", [Next]_vars
    PROVE  /\ device'.prov = "GONE" \/ Undisturbed'
           /\ page' = page \/ \E p \in Pages : /\ ShowsFound(p)
                                               /\ \A q \in Pages \ {p} : page'[q] = page[q]
<1>1. TypeInv /\ "memory" \notin MayFail /\ "network" \notin MayFail
      /\ "together" \notin Races /\ "over_others" \notin Races
  BY DEF BooksInv, HandlerInv, Calm
<1>2. ASSUME NEW p \in Pages, Load(p) \/ Rescan(p) \/ GoBack(p)
             \/ (\E fits \in BOOLEAN : ApplyButton(p, fits))
             \/ HandleResponse(p) \/ RequestTimeout(p)
             \/ (\E timer \in Timers : TimerFires(p, timer))
      PROVE  /\ Undisturbed' /\ ShowsFound(p)
             /\ \A q \in Pages \ {p} : page'[q] = page[q]
  <2>1. Undisturbed' /\ ShowsFound(p)
    BY <1>1, <1>2, LoadFetches, ButtonFetches, HandleFetches, TimerFetches
       DEF RequestTimeout
  <2>2. ASSUME NEW q \in Pages \ {p}
        PROVE  page'[q] = page[q]
    BY <1>1, <1>2 DEF Load, Rescan, GoBack, ApplyButton, HandleResponse, RequestTimeout,
                      TimerFires, GoOn, TypeInv
  <2> QED
    BY <2>1, <2>2
<1>3. ASSUME NEW p \in Pages, Serve(p)
      PROVE  Undisturbed' /\ page' = page
  BY <1>1, <1>3, ServeFetches
<1>4. CASE ScanDone \/ GotIp \/ Rejected \/ Retried \/ TimerExpires
  <2>1. page' = page
    BY <1>4 DEF ScanDone, GotIp, Rejected, Retried, Verdict, TimerExpires, WindowsUnchanged
  <2> QED
    BY <1>4, <2>1, DeviceFetches
<1>5. CASE UNCHANGED vars
  BY <1>5, ListStays DEF vars
<1> QED
  BY <1>2, <1>3, <1>4, <1>5 DEF Next

LEMMA FetchNext ==
    ASSUME Calm
    PROVE  FetchInv /\ [Next]_vars => FetchInv'
<1> SUFFICES ASSUME FetchInv, [Next]_vars
             PROVE  FetchInv'
  OBVIOUS
<1>1. BooksInv /\ TypeInv
  BY DEF FetchInv, BooksInv, HandlerInv
<1>2. BooksInv'
  BY <1>1, BooksNext DEF Calm
<1>3. CASE device.prov = "GONE"
  BY <1>1, <1>2, <1>3, GoneStays DEF FetchInv
<1>4. CASE device.prov # "GONE"
  BY <1>1, <1>2, <1>4, FetchStep DEF FetchInv
<1> QED
  BY <1>3, <1>4

\* Whatever window has fetched the list shows all of it as the device has it, in the
\* order of the device and but for the networks that are too weak, however many
\* requests it took, if memory and network do not fail and no window scans or is loaded
\* while another waits.
THEOREM AllIsShown ==
    ASSUME Calm
    PROVE  Spec => ShownAll
<1>1. ASSUME FetchInv, [Next]_vars, NEW p \in Pages,
             page[p].provState = "SCANNING", page'[p].provState = "READY",
             device.prov # "GONE"
      PROVE  page'[p].table = Strong(device.found)
  <2>1. page' = page \/ \E o \in Pages : /\ ShowsFound(o)
                                         /\ \A q \in Pages \ {o} : page'[q] = page[q]
    BY <1>1, FetchStep DEF FetchInv
  <2>2. page'[p] # page[p]
    BY <1>1
  <2>3. ShowsFound(p)
    BY <2>1, <2>2
  <2> QED
    BY <1>1, <2>3 DEF ShowsFound
<1>2. FetchInv /\ [Next]_vars =>
        [\A p \in Pages :
            /\ page[p].provState = "SCANNING" /\ page'[p].provState = "READY"
            /\ device.prov # "GONE"
            => page'[p].table = Strong(device.found)]_vars
  BY <1>1
<1> QED
  BY <1>2, FetchInit, FetchNext, PTL DEF Spec, ShownAll

-----------------------------------------------------------------------------
\* Who has a say in how the session goes on.

\* What asks for its end, or for another attempt, is about to start a timer.
Claims(s) == {i \in DOMAIN s : s[i].reply = Pending /\ s[i].op \in {"reset", "shutdown"}}

Granted(r) == r.reply # Pending /\ r.reply.ok

\* A window that waits for what becomes of its credentials.
Awaits(w, s) ==
    \/ "get_status" \in w.timer
    \/ \E i \in DOMAIN s : /\ s[i].live
                           /\ \/ s[i].op = "get_status"
                              \/ s[i].op = "apply_config" /\ Granted(s[i])

Verdicts(d) == d.prov = "CRED_RECV" => d.wifi = "CONNECTING"

\* After a verdict, the first or a later one.
Over(d) == d.prov \in {"SUCCESS", "FAIL"}

\* The timers run where they may.
Ending(d) ==
    /\ d.timers # {} => Over(d)
    /\ \A t \in {"stage1", "stage2"} : t \in d.timers => "reset" \notin d.timers

Claimed(s, d) ==
    Claims(s) # {} => d.timers = {} /\ Over(d)

\* Whichever verdict a window is told, there still is one.
Heard(s, d) ==
    \A i \in DOMAIN s :
        /\ s[i].op = "get_status" /\ Granted(s[i])
        /\ s[i].reply.wifi \in {"CONNECTED", "DISCONNECTED"}
        => Over(d)

\* There is a timer, or one claim, or one window that waits, but only one of these.
Earned ==
    /\ Verdicts(device) /\ Ending(device)
    /\ \A p \in Pages : Claimed(sent[p], device) /\ Heard(sent[p], device)
    /\ \A p, q \in Pages : \A i \in Claims(sent[p]), j \in Claims(sent[q]) :
          p = q /\ i = j
    /\ \A p \in Pages : Awaits(page[p], sent[p]) =>
          /\ device.prov \in {"CRED_RECV", "SUCCESS", "FAIL"} /\ device.timers = {}
          /\ \A q \in Pages : Claims(sent[q]) = {}
    /\ \A p, q \in Pages :
          Awaits(page[p], sent[p]) /\ Awaits(page[q], sent[q]) => p = q

EndInv == HandlerInv /\ (device.prov = "GONE" \/ Earned)

\* The claims of t are among those of s, but for the m-th.
Remain(t, s, m) ==
    \A i, j \in Claims(t) : \E k, l \in Claims(s) \ {m} :
        t[i].op = s[k].op /\ t[j].op = s[l].op /\ (i # j => k # l)

\* What has been told in t was told in s.
Repeats(t, s) ==
    \A i \in DOMAIN t : t[i].reply # Pending => \E k \in DOMAIN s : t[i] = s[k]

\* A step of window p after which it claims no more than before, but perhaps what
\* it has been given, and does not wait if it has not.
LEMMA WindowMoves ==
    ASSUME Earned, NEW p \in Pages, NEW m,
           \A q \in Pages \ {p} : page'[q] = page[q] /\ sent'[q] = sent[q],
           UNCHANGED <<device.prov, device.wifi, device.timers>>,
           Remain(sent'[p], sent[p], m), Heard(sent'[p], device),
           Awaits(page'[p], sent'[p]) => Awaits(page[p], sent[p])
    PROVE  Earned'
<1>1. ASSUME NEW q \in Pages, NEW i \in Claims(sent'[q])
      PROVE  \E k \in Claims(sent[q]) : sent'[q][i].op = sent[q][k].op
  BY <1>1 DEF Remain
<1>2. Verdicts(device') /\ Ending(device')
  BY DEF Earned, Verdicts, Ending, Over
<1>3. ASSUME NEW q \in Pages
      PROVE  Claimed(sent'[q], device')
  <2>1. Claimed(sent[q], device)
    BY DEF Earned
  <2> QED
    BY <1>1, <2>1 DEF Claimed, Over
<1>4. ASSUME NEW q \in Pages
      PROVE  Heard(sent'[q], device')
  <2>1. Heard(sent'[q], device)
    BY DEF Earned
  <2> QED
    BY <2>1 DEF Heard, Over
<1>5. ASSUME NEW q \in Pages, NEW o \in Pages, NEW i \in Claims(sent'[q]),
             NEW j \in Claims(sent'[o])
      PROVE  q = o /\ i = j
  <2>1. q = o
    BY <1>1, <1>5 DEF Earned
  <2>2. CASE q = p
    BY <1>5, <2>1, <2>2 DEF Earned, Remain
  <2>3. CASE q # p
    BY <1>5, <2>1, <2>3 DEF Earned
  <2> QED
    BY <2>1, <2>2, <2>3
<1>6. ASSUME NEW q \in Pages, Awaits(page'[q], sent'[q])
      PROVE  Awaits(page[q], sent[q])
  BY <1>6
<1>7. ASSUME NEW q \in Pages, Awaits(page'[q], sent'[q])
      PROVE  /\ device'.prov \in {"CRED_RECV", "SUCCESS", "FAIL"} /\ device'.timers = {}
             /\ \A o \in Pages : Claims(sent'[o]) = {}
  BY <1>1, <1>6, <1>7 DEF Earned
<1>8. ASSUME NEW q \in Pages, NEW o \in Pages,
             Awaits(page'[q], sent'[q]), Awaits(page'[o], sent'[o])
      PROVE  q = o
  BY <1>6, <1>8 DEF Earned
<1> QED
  BY <1>2, <1>3, <1>4, <1>5, <1>7, <1>8 DEF Earned

LEMMA WindowKeeps ==
    ASSUME Earned, NEW p \in Pages,
           \A q \in Pages \ {p} : page'[q] = page[q] /\ sent'[q] = sent[q],
           UNCHANGED <<device.prov, device.wifi, device.timers>>,
           Remain(sent'[p], sent[p], 0), Repeats(sent'[p], sent[p]),
           Awaits(page'[p], sent'[p]) => Awaits(page[p], sent[p])
    PROVE  Earned'
<1>1. Heard(sent'[p], device)
  <2>1. Heard(sent[p], device)
    BY DEF Earned
  <2> QED
    BY <2>1 DEF Heard, Repeats, Granted
<1> QED
  BY <1>1, WindowMoves

-----------------------------------------------------------------------------
\* What the windows' steps make of a queue.

LEMMA SamePlaces ==
    ASSUME NEW s, NEW t,
           \A i \in DOMAIN t : i \in DOMAIN s /\ i # 0 /\ t[i].op = s[i].op
                                 /\ (t[i].reply = Pending => s[i].reply = Pending)
    PROVE  Remain(t, s, 0)
  BY DEF Remain, Claims

LEMMA RemainOn ==
    ASSUME NEW s, NEW t, NEW u, Remain(u, t, 0), Remain(t, s, 0)
    PROVE  Remain(u, s, 0)
<1> SUFFICES ASSUME NEW i \in Claims(u), NEW j \in Claims(u)
             PROVE  \E k, l \in Claims(s) \ {0} :
                        u[i].op = s[k].op /\ u[j].op = s[l].op /\ (i # j => k # l)
  BY DEF Remain
<1>1. PICK k \in Claims(t), l \in Claims(t) :
            u[i].op = t[k].op /\ u[j].op = t[l].op /\ (i # j => k # l)
  BY DEF Remain
<1>2. \E m, n \in Claims(s) \ {0} :
            t[k].op = s[m].op /\ t[l].op = s[n].op /\ (k # l => m # n)
  BY DEF Remain
<1>3. CASE i = j
  BY <1>1, <1>2, <1>3
<1>4. CASE i # j
  BY <1>1, <1>2, <1>4
<1> QED
  BY <1>3, <1>4

LEMMA PushEnds ==
    ASSUME NEW s \in Queues, NEW r \in Fresh, r.op \notin {"reset", "shutdown"}
    PROVE  LET t == s \o <<r>>
           IN  /\ Remain(t, s, 0) /\ Repeats(t, s)
               /\ \A i \in DOMAIN t : t[i] = r \/ (i \in DOMAIN s /\ t[i] = s[i])
<1> DEFINE t == s \o <<r>>
<1>1. /\ Len(t) = Len(s) + 1 /\ t[Len(s) + 1] = r /\ t \in Queues
      /\ \A i \in DOMAIN s : t[i] = s[i]
  BY PushQueue
<1> HIDE DEF t
<1>2. Len(s) \in Nat /\ DOMAIN s = 1 .. Len(s) /\ DOMAIN t = 1 .. Len(t)
  BY <1>1 DEF Queues
<1>3. ASSUME NEW i \in DOMAIN t
      PROVE  i # 0 /\ (t[i] = r \/ (i \in DOMAIN s /\ t[i] = s[i]))
  BY <1>1, <1>2
<1>4. r.reply = Pending
  BY DEF Fresh
<1>5. Remain(t, s, 0)
  BY <1>3 DEF Remain, Claims
<1>6. Repeats(t, s)
  BY <1>3, <1>4 DEF Repeats
<1> QED
  BY <1>3, <1>5, <1>6 DEF t

LEMMA PopEnds ==
    ASSUME NEW s \in Queues, s # <<>>
    PROVE  LET t == Tail(s)
           IN  /\ Remain(t, s, 0) /\ Repeats(t, s)
               /\ \A i \in DOMAIN t : \E k \in DOMAIN s : t[i] = s[k]
<1> DEFINE t == Tail(s)
<1>1. t \in Queues /\ \A i \in DOMAIN t : i + 1 \in DOMAIN s /\ t[i] = s[i + 1]
  BY PopQueue
<1> HIDE DEF t
<1>2. ASSUME NEW i \in DOMAIN t
      PROVE  i \in Nat
  BY <1>1 DEF Queues
<1>3. Remain(t, s, 0)
  <2>1. ASSUME NEW i \in Claims(t)
        PROVE  i \in Nat /\ i + 1 \in Claims(s) \ {0} /\ t[i].op = s[i + 1].op
    <3>1. i \in DOMAIN t /\ i \in Nat
      BY <1>2 DEF Claims
    <3> QED
      BY <1>1, <3>1 DEF Claims
  <2>2. ASSUME NEW i \in Claims(t), NEW j \in Claims(t)
        PROVE  \E k, l \in Claims(s) \ {0} :
                  t[i].op = s[k].op /\ t[j].op = s[l].op /\ (i # j => k # l)
    <3>1. i # j => i + 1 # j + 1
      BY <2>1
    <3> QED
      BY <2>1, <3>1
  <2> QED
    BY <2>2 DEF Remain
<1> QED
  BY <1>1, <1>3 DEF Repeats, t

\* What a window that asks for nothing else has under way.
LEMMA NoneEnds ==
    ASSUME NEW s
    PROVE  Remain(<<>>, s, 0) /\ Repeats(<<>>, s) /\ Claims(<<>>) = {}
<1>1. DOMAIN <<>> = {}
  OBVIOUS
<1> QED
  BY <1>1 DEF Remain, Repeats, Claims

LEMMA OneEnds ==
    ASSUME NEW s, NEW r \in Fresh
    PROVE  LET t == <<r>>
           IN  /\ DOMAIN t = {1} /\ t[1] = r /\ Repeats(t, s)
               /\ r.op \notin {"reset", "shutdown"} => Claims(t) = {} /\ Remain(t, s, 0)
<1> DEFINE t == <<r>>
<1>1. DOMAIN t = {1} /\ t[1] = r
  OBVIOUS
<1> HIDE DEF t
<1>2. r.reply = Pending
  BY DEF Fresh
<1>3. Repeats(t, s)
  BY <1>1, <1>2 DEF Repeats
<1>4. r.op \notin {"reset", "shutdown"} => Claims(t) = {}
  BY <1>1 DEF Claims
<1>5. Claims(t) = {} => Remain(t, s, 0)
  BY DEF Remain
<1> QED
  BY <1>1, <1>3, <1>4, <1>5 DEF t

\* The requests that a loaded window has forgotten.
LEMMA ForgetEnds ==
    ASSUME NEW p \in Pages, sent[p] \in Queues
    PROVE  LET t == Forget(Unanswered(p))
           IN  /\ t \in Queues /\ Remain(t, sent[p], 0)
               /\ \A i \in DOMAIN t : ~t[i].live /\ t[i].reply = Pending
<1> DEFINE t == Forget(Unanswered(p))
           s == sent[p]
<1>1. /\ t \in Queues
      /\ \A i \in DOMAIN t : ~t[i].live /\ t[i].reply = Pending
      /\ \E d \in 0 .. Len(s) : \A i \in DOMAIN t :
            /\ d + i \in DOMAIN s
            /\ t[i] = [s[d + i] EXCEPT !.live = FALSE]
            /\ s[d + i].reply = Pending
  BY ForgetQueue, Zenon
<1> HIDE DEF t, s
<1>2. PICK d \in 0 .. Len(s) : \A i \in DOMAIN t :
            /\ d + i \in DOMAIN s
            /\ t[i] = [s[d + i] EXCEPT !.live = FALSE]
            /\ s[d + i].reply = Pending
  BY <1>1
<1>3. s \in Seq(Requests) /\ t \in Seq(Requests)
  BY <1>1 DEF Queues, s
<1>4. ASSUME NEW i \in Claims(t)
      PROVE  i \in Nat /\ d + i \in Claims(s) \ {0} /\ t[i].op = s[d + i].op
  <2>1. i \in DOMAIN t /\ t[i].op \in {"reset", "shutdown"}
    BY DEF Claims
  <2>2. i \in 1 .. Len(t) /\ d + i \in 1 .. Len(s) /\ s[d + i] \in Requests
    BY <1>2, <1>3, <2>1
  <2>3. t[i].op = s[d + i].op
    BY <1>2, <2>1, <2>2 DEF Requests, RequestFields
  <2> QED
    BY <1>2, <2>1, <2>2, <2>3 DEF Claims
<1>5. Remain(t, s, 0)
  <2>1. ASSUME NEW i \in Claims(t), NEW j \in Claims(t)
        PROVE  \E k, l \in Claims(s) \ {0} :
                  t[i].op = s[k].op /\ t[j].op = s[l].op /\ (i # j => k # l)
    <3>1. d \in Int /\ i \in Nat /\ j \in Nat
      BY <1>4
    <3>2. i # j => d + i # d + j
      BY <3>1
    <3> QED
      BY <1>4, <3>2
  <2> QED
    BY <2>1 DEF Remain
<1> QED
  BY <1>1, <1>5 DEF t, s

-----------------------------------------------------------------------------
\* The windows' steps.

LEMMA LoadEnds ==
    ASSUME EndInv, Earned, NEW p \in Pages, Load(p)
    PROVE  Earned'
<1> DEFINE s0 == Forget(Unanswered(p))
<1>1. TypeInv /\ sent[p] \in Queues
  BY DEF EndInv, HandlerInv, TypeInv
<1>2. PICK res : GoOn(p, res, s0) /\ Outcome(res) /\ Loaded(res)
  BY <1>1, LoadCases
<1>3. /\ page'[p] = res.w /\ sent'[p] = s0 \o res.requests
      /\ \A q \in Pages \ {p} : page'[q] = page[q] /\ sent'[q] = sent[q]
  BY <1>1, <1>2, GoOnWindows
<1>4. PICK r \in Fresh : res.requests = <<r>> /\ r.op = "session"
  <2>1. "session" \in Operations
    BY DEF Operations
  <2> QED
    BY <1>2, <2>1, SendIsFresh DEF Loaded, Ask
<1>5. /\ s0 \in Queues /\ Remain(s0, sent[p], 0)
      /\ \A i \in DOMAIN s0 : ~s0[i].live /\ s0[i].reply = Pending
  BY <1>1, ForgetEnds
<1> HIDE DEF s0
<1> DEFINE t == s0 \o <<r>>
<1>6. /\ Remain(t, s0, 0)
      /\ \A i \in DOMAIN t : t[i] = r \/ (i \in DOMAIN s0 /\ t[i] = s0[i])
  BY <1>4, <1>5, PushEnds
<1>7. sent'[p] = t /\ page'[p].timer = {}
  BY <1>2, <1>3, <1>4 DEF Loaded
<1> HIDE DEF t
<1>8. Remain(t, sent[p], 0)
  BY <1>5, <1>6, RemainOn
<1>9. r.reply = Pending
  BY DEF Fresh
<1>10. Repeats(t, sent[p])
  BY <1>5, <1>6, <1>9 DEF Repeats
<1>11. ~Awaits(page'[p], t)
  BY <1>4, <1>5, <1>6, <1>7 DEF Awaits
<1>12. UNCHANGED device
  BY DEF Load, DeviceUnchanged
<1> QED
  BY <1>3, <1>7, <1>8, <1>10, <1>11, <1>12, WindowKeeps

LEMMA ButtonEnds ==
    ASSUME EndInv, Earned, NEW p \in Pages,
           Rescan(p) \/ GoBack(p) \/ \E fits \in BOOLEAN : ApplyButton(p, fits)
    PROVE  Earned'
<1>1. TypeInv /\ sent[p] \in Queues
  BY DEF EndInv, HandlerInv, TypeInv
<1>2. PICK res : GoOn(p, res, sent[p]) /\ Outcome(res) /\ Pressed(page[p], res)
  BY <1>1, ButtonCases
<1>3. /\ page'[p] = res.w /\ sent'[p] = sent[p] \o res.requests
      /\ \A q \in Pages \ {p} : page'[q] = page[q] /\ sent'[q] = sent[q]
  BY <1>1, <1>2, GoOnWindows
<1>4. UNCHANGED device
  BY DEF Rescan, GoBack, ApplyButton, DeviceUnchanged
<1>5. CASE res.w = page[p] /\ res.requests = <<>>
  <2>1. sent'[p] = sent[p] /\ page'[p] = page[p]
    BY <1>1, <1>3, <1>5, NothingSent
  <2>2. Remain(sent[p], sent[p], 0) /\ Repeats(sent[p], sent[p])
    <3>1. ASSUME NEW i \in DOMAIN sent[p]
          PROVE  i # 0
      BY <1>1 DEF Queues
    <3> QED
      BY <3>1, SamePlaces DEF Repeats
  <2> QED
    BY <1>3, <1>4, <2>1, <2>2, WindowKeeps
<1>6. CASE Scans(page[p], res) \/ Applies(page[p], res)
  <2>1. PICK r \in Fresh : res.requests = <<r>> /\ r.op = res.w.callback
    <3>1. res.requests # <<>>
      BY <1>6, AskSends DEF Scans, Applies
    <3> QED
      BY <1>2, <3>1 DEF Outcome
  <2>2. r.op \in {"scan_start", "set_config"} /\ res.w.timer = page[p].timer
    BY <1>6, <2>1 DEF Scans, Applies
  <2> DEFINE t == sent[p] \o <<r>>
  <2>3. /\ Remain(t, sent[p], 0) /\ Repeats(t, sent[p])
        /\ \A i \in DOMAIN t : t[i] = r \/ (i \in DOMAIN sent[p] /\ t[i] = sent[p][i])
    BY <1>1, <2>2, PushEnds
  <2>4. sent'[p] = t
    BY <1>3, <2>1
  <2> HIDE DEF t
  <2>5. Awaits(page'[p], t) => Awaits(page[p], sent[p])
    BY <1>3, <2>2, <2>3 DEF Awaits
  <2> QED
    BY <1>3, <1>4, <2>3, <2>4, <2>5, WindowKeeps
<1> QED
  BY <1>2, <1>5, <1>6 DEF Pressed

LEMMA TimerEnds ==
    ASSUME EndInv, Earned, NEW p \in Pages, NEW timer \in Timers, TimerFires(p, timer)
    PROVE  Earned'
<1>1. HandlerInv /\ TypeInv
  BY DEF EndInv, HandlerInv
<1>2. sent[p] = <<>>
  BY <1>1, TimerCases
<1>3. PICK res : GoOn(p, res, sent[p]) /\ Outcome(res) /\ Ticked(page[p], timer, res)
  BY <1>1, TimerCases
<1>4. /\ page'[p] = res.w /\ sent'[p] = sent[p] \o res.requests
      /\ \A q \in Pages \ {p} : page'[q] = page[q] /\ sent'[q] = sent[q]
  BY <1>1, <1>3, GoOnWindows
<1>5. PICK r \in Fresh : res.requests = <<r>> /\ r.op = timer
  <2>1. res.requests # <<>>
    BY <1>3, AskSends DEF Ticked
  <2> QED
    BY <1>3, <2>1 DEF Outcome, Ticked
<1>6. timer \in page[p].timer /\ timer \notin {"reset", "shutdown", "apply_config"}
  BY <1>3 DEF Ticked, Timers
<1>7. sent'[p] = <<r>>
  <2>1. <<>> \o <<r>> = <<r>>
    OBVIOUS
  <2> QED
    BY <1>2, <1>4, <1>5, <2>1
<1> DEFINE t == <<r>>
<1>8. /\ DOMAIN t = {1} /\ t[1] = r /\ Repeats(t, sent[p]) /\ Remain(t, sent[p], 0)
  BY <1>5, <1>6, OneEnds
<1> HIDE DEF t
<1>9. page'[p].timer = {}
  BY <1>3, <1>4 DEF Ticked
<1>10. Awaits(page'[p], t) => Awaits(page[p], sent[p])
  BY <1>5, <1>6, <1>8, <1>9 DEF Awaits
<1>11. UNCHANGED device
  BY DEF TimerFires, DeviceUnchanged
<1> QED
  BY <1>4, <1>7, <1>8, <1>10, <1>11, WindowKeeps DEF t

LEMMA TimeoutEnds ==
    ASSUME EndInv, Earned, NEW p \in Pages, RequestTimeout(p)
    PROVE  Earned'
<1>1. TypeInv /\ sent[p] \in Queues
  BY DEF EndInv, HandlerInv, TypeInv
<1>2. /\ page[p] \in Called
      /\ page'[p] = updateUIServiceUnavailable(page[p])
      /\ \A q \in Pages \ {p} : page'[q] = page[q] /\ sent'[q] = sent[q]
  BY <1>1, TimeoutCases
<1>3. PICK i \in Nat : Muted(sent[p], sent'[p], i)
  BY <1>1, TimeoutCases
<1> DEFINE s == sent[p]
           t == sent'[p]
<1>4. s \in Seq(Requests) /\ Muted(s, t, i)
  BY <1>1, <1>3 DEF Queues
<1> HIDE DEF s, t
<1>5. s[i] \in Requests
  BY <1>4 DEF Muted
<1>6. t[i].op = s[i].op /\ t[i].reply = Pending /\ ~t[i].live
  BY <1>4, <1>5 DEF Muted, Requests, RequestFields
<1>7. ASSUME NEW j \in DOMAIN t
      PROVE  /\ j \in DOMAIN s /\ j # 0 /\ t[j].op = s[j].op
             /\ t[j].reply = Pending => s[j].reply = Pending
             /\ t[j] = s[j] \/ (t[j].reply = Pending /\ ~t[j].live)
  <2>1. j \in DOMAIN s /\ j # 0
    BY <1>4 DEF Muted
  <2>2. CASE j = i
    BY <1>4, <1>6, <2>1, <2>2 DEF Muted
  <2>3. CASE j # i
    BY <1>4, <2>1, <2>3 DEF Muted
  <2> QED
    BY <2>1, <2>2, <2>3
<1>8. Remain(t, s, 0)
  BY <1>7, SamePlaces
<1>9. Repeats(t, s)
  BY <1>7 DEF Repeats
<1>10. page'[p].timer = page[p].timer
  BY <1>2 DEF updateUIServiceUnavailable, Called, Windows
<1>11. Awaits(page'[p], t) => Awaits(page[p], s)
  BY <1>7, <1>10 DEF Awaits
<1>12. UNCHANGED device
  BY DEF RequestTimeout, DeviceUnchanged
<1> QED
  BY <1>2, <1>8, <1>9, <1>11, <1>12, WindowKeeps DEF s, t

\* The window that has waited is the one to ask for the end, or to start again.
LEMMA ClaimEnds ==
    ASSUME EndInv, Earned, NEW p \in Pages, Awaits(page[p], sent[p]),
           \A q \in Pages \ {p} : page'[q] = page[q] /\ sent'[q] = sent[q],
           UNCHANGED device, NEW r \in Fresh, sent'[p] = <<r>>, page'[p].timer = {},
           r.op \in {"reset", "shutdown"}, Over(device)
    PROVE  Earned'
<1>1. DOMAIN sent'[p] = {1} /\ sent'[p][1] = r /\ r.reply = Pending
  BY OneEnds DEF Fresh
<1>2. /\ device.timers = {} /\ \A q \in Pages : Claims(sent[q]) = {}
      /\ \A q \in Pages \ {p} : ~Awaits(page[q], sent[q])
  BY DEF Earned
<1>3. Claims(sent'[p]) \subseteq {1} /\ \A q \in Pages \ {p} : Claims(sent'[q]) = {}
  BY <1>1, <1>2 DEF Claims
<1>4. ~Awaits(page'[p], sent'[p])
  BY <1>1 DEF Awaits
<1>5. \A q \in Pages : ~Awaits(page'[q], sent'[q])
  BY <1>2, <1>4
<1>6. Verdicts(device') /\ Ending(device')
  BY DEF Earned
<1>7. ASSUME NEW q \in Pages
      PROVE  Claimed(sent'[q], device')
  <2>1. CASE q = p
    BY <1>2 DEF Claimed, Over
  <2>2. CASE q # p
    BY <1>3, <2>2 DEF Claimed
  <2> QED
    BY <2>1, <2>2
<1>8. ASSUME NEW q \in Pages
      PROVE  Heard(sent'[q], device')
  <2>1. CASE q = p
    BY <1>1, <2>1 DEF Heard, Granted
  <2>2. CASE q # p
    BY <2>2 DEF Earned
  <2> QED
    BY <2>1, <2>2
<1>9. ASSUME NEW q \in Pages, NEW o \in Pages, NEW i \in Claims(sent'[q]),
             NEW j \in Claims(sent'[o])
      PROVE  q = o /\ i = j
  BY <1>3
<1> QED
  BY <1>5, <1>6, <1>7, <1>8, <1>9 DEF Earned

\* What a window does with a response to what it asked last: it waits, asks for
\* something harmless, or has heard the verdict.
Rests(w, a, res) ==
    /\ res.requests = <<>>
    /\ "get_status" \in res.w.timer =>
          w.callback = "get_status" \/ (w.callback = "apply_config" /\ a.ok)

Asks(res) ==
    \E r \in Fresh : /\ res.requests = <<r>>
                     /\ r.op \notin {"reset", "shutdown", "get_status"}

Concludes(w, a, res) ==
    /\ w.callback = "get_status" /\ a.ok
    /\ \E r \in Fresh :
          /\ res.requests = <<r>>
          /\ \/ a.wifi = "CONNECTED" /\ r.op = "shutdown"
             \/ a.wifi = "DISCONNECTED" /\ r.op = "reset"

LEMMA HandledEnds ==
    ASSUME NEW w \in Called, NEW a, NEW res, Handled(w, a, res), Outcome(res), w.timer = {}
    PROVE  Rests(w, a, res) \/ Asks(res) \/ Concludes(w, a, res)
<1>1. ASSUME res.requests # <<>>
      PROVE  \E r \in Fresh : res.requests = <<r>> /\ r.op = res.w.callback
  BY <1>1 DEF Outcome
<1>2. CASE res.w = w /\ res.requests = <<>>
  BY <1>2 DEF Rests
<1>3. CASE AskStatus(w, res) \/ BeginList(w, a, res)
  <2>1. res.requests # <<>> /\ res.w.callback \in {"scan_status", "scan_result"}
    BY <1>3, AskSends DEF AskStatus, BeginList
  <2> QED
    BY <1>1, <2>1 DEF Asks
<1>4. CASE ScanAgain(w, a, res)
  <2>1. \/ res.w = w /\ res.requests = <<>>
        \/ res.requests = Ask("scan_start") /\ res.w.callback = "scan_start"
    BY <1>4, startScanFields DEF ScanAgain, Called
  <2>2. CASE res.w = w /\ res.requests = <<>>
    BY <2>2, <1>2
  <2>3. CASE res.requests = Ask("scan_start") /\ res.w.callback = "scan_start"
    BY <1>1, <2>3, AskSends DEF Asks
  <2> QED
    BY <2>1, <2>2, <2>3
<1>5. CASE GoOnList(w, a, res)
  <2>1. res.w.callback = "scan_result" /\ res.w.timer = {}
    BY <1>5 DEF GoOnList
  <2> QED
    BY <1>1, <2>1 DEF Rests, Asks
<1>6. CASE GoOnElse(w, a, res)
  <2>1. CASE res.requests = <<>>
    <3>1. res.requests # Ask(res.w.callback)
      BY <2>1, AskSends
    <3> QED
      BY <1>6, <2>1, <3>1 DEF GoOnElse, Rests
  <2>2. CASE res.requests # <<>>
    <3>1. PICK r \in Fresh : res.requests = <<r>> /\ r.op = res.w.callback
      BY <1>1, <2>2
    <3>2. \/ res.w.callback = "apply_config"
          \/ /\ w.callback = "get_status" /\ a.ok /\ a.wifi = "CONNECTED"
             /\ res.w.callback = "shutdown"
          \/ /\ w.callback = "get_status" /\ a.ok /\ a.wifi = "DISCONNECTED"
             /\ res.w.callback = "reset"
      BY <1>6, <2>2 DEF GoOnElse
    <3> QED
      BY <3>1, <3>2 DEF Asks, Concludes
  <2> QED
    BY <2>1, <2>2
<1> QED
  BY <1>2, <1>3, <1>4, <1>5, <1>6 DEF Handled

LEMMA HandleEnds ==
    ASSUME EndInv, Earned, "memory" \notin MayFail, NEW p \in Pages, HandleResponse(p)
    PROVE  Earned'
<1> DEFINE w == page[p]
           s == sent[p]
           a == Head(s).reply
           res == handleProtocommResponse(w, a)
<1>1. HandlerInv /\ TypeInv
  BY DEF EndInv, HandlerInv
<1>2. /\ s # <<>> /\ a # Pending /\ GoOn(p, res, Tail(s))
      /\ w.timer = {} /\ Outcome(res) /\ HandledAs(w, s, a, res)
  BY <1>1, HandleCases
<1>3. /\ page'[p] = res.w /\ sent'[p] = Tail(s) \o res.requests
      /\ \A q \in Pages \ {p} : page'[q] = page[q] /\ sent'[q] = sent[q]
  BY <1>1, <1>2, GoOnWindows
<1>4. /\ s \in Queues /\ w \in Called /\ 1 \in DOMAIN s /\ Head(s) = s[1] /\ s[1].live
      /\ a \in Answers /\ a.op = s[1].op /\ s[1].reply = a
  BY <1>1, <1>2, HeadAnswered
<1>5. UNCHANGED device
  BY DEF HandleResponse, DeviceUnchanged
<1> HIDE DEF w, s, a, res
<1>6. ASSUME res.requests = <<>>, res.w.timer = {}
      PROVE  Earned'
  <2> DEFINE t == Tail(s)
  <2>1. t \in Queues /\ Remain(t, s, 0) /\ Repeats(t, s)
        /\ \A i \in DOMAIN t : \E k \in DOMAIN s : t[i] = s[k]
    BY <1>2, <1>4, PopEnds, PopQueue
  <2> HIDE DEF t
  <2>2. sent'[p] = t /\ page'[p].timer = {}
    BY <1>3, <1>6, <2>1, NothingSent DEF t
  <2>3. Awaits(page'[p], t) => Awaits(w, s)
    BY <2>1, <2>2 DEF Awaits
  <2> QED
    BY <1>3, <1>5, <2>1, <2>2, <2>3, WindowKeeps DEF w, s
<1>7. CASE a.http = 200 /\ a.op = w.callback /\ Tail(s) = <<>>
           /\ Handled(w, a, res) /\ (res.requests # <<>> => res.w.timer = {})
  <2>1. sent'[p] = res.requests
    <3>1. sent'[p] = <<>> \o res.requests
      BY <1>3, <1>7
    <3>2. CASE res.requests = <<>>
      <4>1. <<>> \o <<>> = <<>>
        OBVIOUS
      <4> QED
        BY <3>1, <3>2, <4>1
    <3>3. CASE res.requests # <<>>
      <4>1. PICK r \in Fresh : res.requests = <<r>>
        BY <1>2, <3>3 DEF Outcome
      <4>2. <<>> \o <<r>> = <<r>>
        OBVIOUS
      <4> QED
        BY <3>1, <4>1, <4>2
    <3> QED
      BY <3>2, <3>3
  <2> DEFINE h == s[1]
  <2>2. h.live /\ h.op = w.callback /\ h.reply = a /\ h \in {s[i] : i \in DOMAIN s}
    BY <1>4, <1>7
  <2>3. h.reply = a /\ a # Pending /\ (a.ok => Granted(h))
    BY <1>2, <2>2 DEF Granted
  <2> HIDE DEF h
  <2>4. CASE Rests(w, a, res)
    <3>1. sent'[p] = <<>>
      BY <2>1, <2>4 DEF Rests
    <3>2. Awaits(page'[p], <<>>) => Awaits(w, s)
      <4>1. DOMAIN <<>> = {}
        OBVIOUS
      <4>2. Awaits(page'[p], <<>>) => "get_status" \in res.w.timer
        BY <1>3, <4>1 DEF Awaits
      <4>3. "get_status" \in res.w.timer => Awaits(w, s)
        <5>1. ASSUME "get_status" \in res.w.timer
              PROVE  h.op = "get_status" \/ (h.op = "apply_config" /\ Granted(h))
          BY <2>4, <2>2, <2>3, <5>1 DEF Rests
        <5> QED
          BY <2>2, <5>1 DEF Awaits
      <4> QED
        BY <4>2, <4>3
    <3> QED
      BY <1>3, <1>5, <3>1, <3>2, NoneEnds, WindowKeeps DEF w, s
  <2>5. CASE Asks(res)
    <3>1. PICK r \in Fresh : res.requests = <<r>>
                             /\ r.op \notin {"reset", "shutdown", "get_status"}
      BY <2>5 DEF Asks
    <3> DEFINE t == <<r>>
    <3>2. DOMAIN t = {1} /\ t[1] = r /\ Repeats(t, s) /\ Remain(t, s, 0)
      BY <3>1, OneEnds
    <3>3. t # <<>>
      OBVIOUS
    <3>4. r.reply = Pending
      BY DEF Fresh
    <3>5. sent'[p] = t /\ page'[p].timer = {}
      BY <1>3, <1>7, <2>1, <3>1, <3>3
    <3> HIDE DEF t
    <3>6. ~Awaits(page'[p], t)
      BY <3>1, <3>2, <3>4, <3>5 DEF Awaits, Granted
    <3> QED
      BY <1>3, <1>5, <3>2, <3>5, <3>6, WindowKeeps DEF w, s
  <2>6. CASE Concludes(w, a, res)
    <3>1. PICK r \in Fresh :
            /\ res.requests = <<r>>
            /\ \/ a.wifi = "CONNECTED" /\ r.op = "shutdown"
               \/ a.wifi = "DISCONNECTED" /\ r.op = "reset"
      BY <2>6 DEF Concludes
    <3>2. <<r>> # <<>>
      OBVIOUS
    <3>3. sent'[p] = <<r>> /\ page'[p].timer = {}
      BY <1>3, <1>7, <2>1, <3>1, <3>2
    <3>4. Awaits(w, s)
      BY <1>4, <1>7, <2>6 DEF Concludes, Awaits
    <3>5. Heard(s, device)
      BY DEF Earned, s
    <3>6. Over(device)
      <4>1. h.op = "get_status" /\ Granted(h)
        BY <2>6, <2>2, <2>3 DEF Concludes
      <4> QED
        BY <2>2, <3>1, <3>5, <4>1 DEF Heard
    <3> QED
      BY <1>3, <1>5, <3>1, <3>3, <3>4, <3>6, ClaimEnds DEF w, s
  <2> QED
    BY <1>2, <1>4, <1>7, <2>4, <2>5, <2>6, HandledEnds
<1>8. CASE a.http = 200 /\ a.op # w.callback /\ res.w = w /\ res.requests = <<>>
  BY <1>2, <1>6, <1>8
<1>9. CASE a.http = 405 /\ res.w = updateUIServiceUnavailable(w) /\ res.requests = <<>>
  <2>1. res.w.timer = {}
    BY <1>2, <1>4, <1>9 DEF updateUIServiceUnavailable, Called, Windows
  <2> QED
    BY <1>6, <1>9, <2>1
<1> QED
  BY <1>2, <1>7, <1>8, <1>9 DEF HandledAs

-----------------------------------------------------------------------------
\* The server's steps.

\* What is left of a queue of which the m-th request is answered with a.
LEMMA AnswerEnds ==
    ASSUME NEW s \in Queues, NEW t \in Queues, NEW m \in Nat, First(s, m), NEW a \in Answers,
           Told(s, t, m, a) \/ Removed(s, t, m)
    PROVE  /\ Remain(t, s, m)
           /\ \A i \in DOMAIN t :
                 \/ \E k \in DOMAIN s : t[i] = s[k]
                 \/ s[m].live /\ t[i].live /\ t[i].op = s[m].op /\ t[i].reply = a
<1>1. /\ s \in Seq(Requests) /\ t \in Seq(Requests) /\ m \in DOMAIN s
      /\ a # Pending /\ s[m] \in Requests
  BY AnswerNotPending DEF Queues, First
<1>2. Len(s) \in Nat /\ DOMAIN s = 1 .. Len(s) /\ Len(t) \in Nat /\ DOMAIN t = 1 .. Len(t)
  BY <1>1
<1>3. CASE Told(s, t, m, a)
  <2>1. t[m].reply = a /\ t[m].op = s[m].op /\ t[m].live /\ s[m].live
    BY <1>1, <1>3 DEF Told, Requests, RequestFields
  <2>2. ASSUME NEW i \in DOMAIN t, i # m
        PROVE  i \in DOMAIN s /\ t[i] = s[i]
    BY <1>2, <1>3, <2>2 DEF Told
  <2>3. ASSUME NEW i \in Claims(t)
        PROVE  i \in Claims(s) \ {m} /\ t[i].op = s[i].op
    BY <1>1, <2>1, <2>2 DEF Claims
  <2>4. Remain(t, s, m)
    BY <2>3 DEF Remain
  <2> QED
    BY <2>1, <2>2, <2>4
<1>4. CASE Removed(s, t, m)
  <2> DEFINE f(i) == IF i < m THEN i ELSE i + 1
  <2>1. ASSUME NEW i \in DOMAIN t
        PROVE  f(i) \in DOMAIN s \ {m} /\ t[i] = s[f(i)]
    <3>1. i \in 1 .. Len(s) - 1 /\ m \in 1 .. Len(s)
      BY <1>1, <1>2, <1>4 DEF Removed
    <3>2. CASE i < m
      BY <1>2, <1>4, <3>1, <3>2 DEF Removed
    <3>3. CASE ~(i < m)
      <4>1. i \in m .. Len(s) - 1
        BY <3>1, <3>3
      <4> QED
        BY <1>2, <1>4, <3>1, <3>3, <4>1 DEF Removed
    <3> QED
      BY <3>2, <3>3
  <2>2. ASSUME NEW i \in DOMAIN t, NEW j \in DOMAIN t, i # j
        PROVE  f(i) # f(j)
    BY <1>2, <2>2
  <2> HIDE DEF f
  <2>3. ASSUME NEW i \in Claims(t)
        PROVE  f(i) \in Claims(s) \ {m} /\ t[i].op = s[f(i)].op /\ i \in DOMAIN t
    BY <2>1 DEF Claims
  <2>4. Remain(t, s, m)
    BY <2>2, <2>3 DEF Remain
  <2> QED
    BY <2>1, <2>4
<1> QED
  BY <1>3, <1>4

LEMMA NothingEnds ==
    ASSUME Earned, UNCHANGED <<page, sent, device.prov, device.wifi, device.timers>>
    PROVE  Earned'
<1>1. Verdicts(device') /\ Ending(device')
  BY DEF Earned, Verdicts, Ending, Over
<1>2. ASSUME NEW q \in Pages
      PROVE  Claimed(sent'[q], device') /\ Heard(sent'[q], device')
  <2>1. Claimed(sent[q], device) /\ Heard(sent[q], device)
    BY DEF Earned
  <2> QED
    BY <2>1 DEF Claimed, Heard, Over
<1> QED
  BY <1>1, <1>2 DEF Earned

\* Who is told the verdict has waited for it.
LEMMA SilentHeard ==
    ASSUME NEW w, NEW s \in Queues, ~Awaits(w, s), NEW d
    PROVE  Heard(s, d)
<1> SUFFICES ASSUME NEW i \in DOMAIN s, s[i].op = "get_status", Granted(s[i])
             PROVE  FALSE
  BY DEF Heard
<1>1. s[i] \in Requests
  BY DEF Queues
<1>2. s[i].live
  BY <1>1 DEF Requests, Granted
<1> QED
  BY <1>2 DEF Awaits

LEMMA AnsweringEnds ==
    ASSUME EndInv, Earned, NEW p \in Pages, Answering(p)
    PROVE  Earned'
<1>1. TypeInv /\ sent[p] \in Queues /\ device.timers \subseteq {"reset", "stage1", "stage2"}
  BY DEF EndInv, HandlerInv, TypeInv, Devices
<1>2. /\ page' = page /\ sent'[p] \in Queues
      /\ \A q \in Pages \ {p} : sent'[q] = sent[q]
  BY <1>1, AnswerCases
<1>3. PICK m \in Nat, a \in Answers :
            /\ First(sent[p], m) /\ True(p, m, a) /\ Moves(sent[p][m].op, a)
            /\ Told(sent[p], sent'[p], m, a) \/ Removed(sent[p], sent'[p], m)
  BY <1>1, AnswerCases
<1> DEFINE s == sent[p]
           t == sent'[p]
           r == s[m]
<1>4. /\ Remain(t, s, m)
      /\ \A i \in DOMAIN t :
            \/ \E k \in DOMAIN s : t[i] = s[k]
            \/ r.live /\ t[i].live /\ t[i].op = r.op /\ t[i].reply = a
  BY <1>1, <1>2, <1>3, AnswerEnds
<1>5. a.ok /\ r.op = "get_status" => a.wifi = device.wifi
  BY <1>3 DEF True
<1>6. m \in DOMAIN s /\ r.reply = Pending /\ Moves(r.op, a)
  BY <1>3 DEF First
<1>7. Heard(s, device) /\ Claimed(s, device) /\ Verdicts(device) /\ Ending(device)
  BY DEF Earned
<1>8. \A q \in Pages : sent[q] \in Queues
  BY <1>1 DEF TypeInv
<1> HIDE DEF s, t, r
<1>9. CASE /\ device'.prov = device.prov /\ device'.wifi = device.wifi
           /\ device'.timers = device.timers
           /\ r.op = "apply_config" => ~a.ok
  <2>1. r.live /\ r.op = "get_status" => Awaits(page[p], s)
    BY <1>6 DEF Awaits, r
  <2>2. Awaits(page[p], t) => Awaits(page[p], s)
    <3>1. ASSUME NEW i \in DOMAIN t, t[i].live,
                 t[i].op = "get_status" \/ (t[i].op = "apply_config" /\ Granted(t[i]))
          PROVE  Awaits(page[p], s)
      <4>1. CASE \E k \in DOMAIN s : t[i] = s[k]
        BY <3>1, <4>1 DEF Awaits
      <4>2. CASE r.live /\ t[i].op = r.op /\ t[i].reply = a
        BY <1>9, <2>1, <3>1, <4>2 DEF Granted
      <4> QED
        BY <1>4, <4>1, <4>2
    <3>2. "get_status" \in page[p].timer => Awaits(page[p], s)
      BY DEF Awaits
    <3> QED
      BY <3>1, <3>2 DEF Awaits
  <2>3. Heard(t, device)
    <3> SUFFICES ASSUME NEW i \in DOMAIN t, t[i].op = "get_status", Granted(t[i])
                 PROVE  t[i].reply.wifi \in {"CONNECTED", "DISCONNECTED"} => Over(device)
      BY DEF Heard
    <3>1. CASE \E k \in DOMAIN s : t[i] = s[k]
      BY <1>7, <3>1 DEF Heard
    <3>2. CASE r.live /\ t[i].op = r.op /\ t[i].reply = a
      <4>1. Awaits(page[p], s) /\ a.wifi = device.wifi
        BY <1>5, <2>1, <3>2 DEF Granted
      <4>2. device.prov \in {"CRED_RECV", "SUCCESS", "FAIL"}
        BY <4>1 DEF Earned, s
      <4> QED
        BY <1>7, <3>2, <4>1, <4>2 DEF Verdicts, Over
    <3> QED
      BY <1>4, <3>1, <3>2
  <2> QED
    BY <1>2, <1>4, <1>9, <2>2, <2>3, WindowMoves DEF s, t
<1>10. CASE /\ r.op = "apply_config" /\ device.prov = "STARTED"
            /\ device'.prov = "CRED_RECV" /\ device'.wifi = "CONNECTING"
            /\ device'.timers = device.timers
  <2>1. \A q \in Pages : Claims(sent[q]) = {} /\ ~Awaits(page[q], sent[q])
    BY <1>10 DEF Earned, Claimed, Over
  <2>2. device.timers = {}
    BY <1>1, <1>7, <1>10 DEF Ending, Over
  <2>3. \A q \in Pages : Claims(sent'[q]) = {}
    BY <1>2, <1>4, <2>1 DEF Remain, s, t
  <2>4. \A q \in Pages \ {p} : ~Awaits(page'[q], sent'[q])
    BY <1>2, <2>1
  <2>5. ASSUME NEW q \in Pages
        PROVE  Heard(sent'[q], device')
    <3>1. CASE q # p
      BY <1>2, <1>8, <2>1, <3>1, SilentHeard
    <3>2. CASE q = p
      <4>1. Heard(s, device')
        BY <1>8, <2>1, SilentHeard DEF s
      <4> QED
        BY <1>4, <1>10, <3>2, <4>1 DEF Heard, t
    <3> QED
      BY <3>1, <3>2
  <2>6. Verdicts(device') /\ Ending(device')
    BY <1>10, <2>2 DEF Verdicts, Ending
  <2>7. \A q \in Pages : Claimed(sent'[q], device')
    BY <2>3 DEF Claimed
  <2> QED
    BY <1>10, <2>2, <2>3, <2>4, <2>5, <2>6, <2>7 DEF Earned
<1>11. CASE /\ r.op \in DOMAIN TimerOf
            /\ device'.prov = device.prov /\ device'.wifi = device.wifi
            /\ device'.timers = device.timers \cup {TimerOf[r.op]}
  <2>1. /\ r.op \in {"reset", "shutdown"} /\ m \in Claims(s)
        /\ r.op = "reset" => TimerOf[r.op] = "reset"
        /\ r.op = "shutdown" => TimerOf[r.op] = "stage1"
    BY <1>6, <1>11 DEF TimerOf, Claims, r
  <2>2. device.timers = {} /\ Over(device)
    BY <1>7, <2>1 DEF Claimed
  <2>3. \A q \in Pages : ~Awaits(page[q], sent[q])
    BY <2>1 DEF Earned, s
  <2>4. ASSUME NEW q \in Pages, NEW i \in Claims(sent[q])
        PROVE  q = p /\ i = m
    BY <2>1, <2>4 DEF Earned, s
  <2>5. \A q \in Pages : Claims(sent'[q]) = {}
    <3>1. Claims(t) = {}
      BY <1>4, <2>4 DEF Remain, s
    <3>2. \A q \in Pages \ {p} : Claims(sent'[q]) = {}
      BY <1>2, <2>4
    <3> QED
      BY <3>1, <3>2 DEF t
  <2>6. ASSUME NEW q \in Pages
        PROVE  ~Awaits(page'[q], sent'[q])
    <3>1. CASE q # p
      BY <1>2, <2>3, <3>1
    <3>2. CASE q = p
      <4>1. ~Awaits(page[p], s)
        BY <2>3 DEF s
      <4>2. ~Awaits(page[p], t)
        BY <1>4, <2>1, <4>1 DEF Awaits
      <4> QED
        BY <1>2, <3>2, <4>2 DEF t
    <3> QED
      BY <3>1, <3>2
  <2>7. ASSUME NEW q \in Pages
        PROVE  Heard(sent'[q], device')
    <3>1. sent'[q] \in Queues
      BY <1>2, <1>8
    <3> QED
      BY <2>6, <3>1, SilentHeard
  <2>8. Verdicts(device') /\ Ending(device')
    <3>1. device'.timers = {TimerOf[r.op]}
      BY <1>11, <2>2
    <3> QED
      BY <1>7, <1>11, <2>1, <2>2, <3>1 DEF Verdicts, Ending, Over
  <2>9. \A q \in Pages : Claimed(sent'[q], device')
    BY <2>5 DEF Claimed
  <2> QED
    BY <2>5, <2>6, <2>7, <2>8, <2>9 DEF Earned
<1> QED
  BY <1>6, <1>9, <1>10, <1>11 DEF Moves

LEMMA ServeEnds ==
    ASSUME EndInv, Earned, NEW p \in Pages, Serve(p)
    PROVE  Earned'
<1>1. TypeInv
  BY DEF EndInv, HandlerInv
<1>2. CASE Answering(p)
  BY <1>2, AnsweringEnds
<1>3. CASE Faulting(p)
  BY <1>3, NothingEnds DEF Faulting
<1>4. CASE Scanning(p)
  <2>1. /\ BeginScan.prov = device.prov /\ BeginScan.wifi = device.wifi
        /\ BeginScan.timers = device.timers
    BY <1>1 DEF TypeInv, Devices, BeginScan
  <2>2. UNCHANGED <<page, sent, device.prov, device.wifi, device.timers>>
    BY <1>4, <2>1 DEF Scanning
  <2> QED
    BY <2>2, NothingEnds
<1> QED
  BY <1>1, <1>2, <1>3, <1>4, ServeCases

-----------------------------------------------------------------------------
\* What the device does by itself.

\* A verdict is there, or changes, or the attempt goes on.
LEMMA VerdictEnds ==
    ASSUME EndInv, Earned, GotIp \/ Rejected \/ Retried
    PROVE  Earned'
<1>1. device \in Devices /\ UNCHANGED <<page, sent>>
  BY DEF EndInv, HandlerInv, TypeInv, GotIp, Rejected, Retried, Verdict, WindowsUnchanged
<1>2. /\ device'.timers = device.timers
      /\ device.prov \in {"CRED_RECV", "SUCCESS", "FAIL"}
      /\ \/ Over(device')
         \/ device'.prov = device.prov /\ device'.wifi = "CONNECTING"
  BY <1>1 DEF GotIp, Rejected, Retried, Verdict, Attempting, Devices, Over
<1>3. /\ Over(device) => Over(device')
      /\ device'.prov \in {"CRED_RECV", "SUCCESS", "FAIL"}
  BY <1>2 DEF Over
<1>4. Verdicts(device') /\ Ending(device')
  <2>1. Ending(device)
    BY DEF Earned
  <2> QED
    BY <1>2, <1>3, <2>1 DEF Verdicts, Ending, Over
<1>5. ASSUME NEW q \in Pages
      PROVE  Claimed(sent'[q], device') /\ Heard(sent'[q], device')
  <2>1. Claimed(sent[q], device) /\ Heard(sent[q], device)
    BY DEF Earned
  <2> QED
    BY <1>1, <1>2, <1>3, <2>1 DEF Claimed, Heard
<1> QED
  BY <1>1, <1>2, <1>3, <1>4, <1>5 DEF Earned

\* A timer that runs is the only one who has a say.
LEMMA RunsAlone ==
    ASSUME Earned, device.timers # {}
    PROVE  \A q \in Pages : Claims(sent[q]) = {} /\ ~Awaits(page[q], sent[q])
  BY DEF Earned, Claimed

LEMMA ResetEnds ==
    ASSUME EndInv, Earned, ResetExpires, WindowsUnchanged
    PROVE  Earned'
<1>1. /\ device \in Devices /\ UNCHANGED <<page, sent>>
      /\ \A q \in Pages : sent[q] \in Queues
  BY DEF EndInv, HandlerInv, TypeInv, WindowsUnchanged
<1>2. "reset" \in device.timers /\ Over(device)
      /\ "stage1" \notin device.timers /\ "stage2" \notin device.timers
  BY DEF ResetExpires, Earned, Ending
<1>3. \A q \in Pages : Claims(sent'[q]) = {} /\ ~Awaits(page'[q], sent'[q])
  BY <1>1, <1>2, RunsAlone
<1>4. device'.prov = "STARTED" /\ device'.timers = {}
  BY <1>1, <1>2 DEF ResetExpires, Expired, Devices, Over
<1>5. Verdicts(device') /\ Ending(device')
  BY <1>4 DEF Verdicts, Ending
<1>6. \A q \in Pages : Claimed(sent'[q], device') /\ Heard(sent'[q], device')
  BY <1>1, <1>3, SilentHeard DEF Claimed
<1> QED
  BY <1>3, <1>5, <1>6 DEF Earned

LEMMA Stage1Ends ==
    ASSUME EndInv, Earned, Stage1Expires, WindowsUnchanged
    PROVE  Earned'
<1>1. device \in Devices /\ UNCHANGED <<page, sent>>
  BY DEF EndInv, HandlerInv, TypeInv, WindowsUnchanged
<1>2. "stage1" \in device.timers /\ Over(device)
      /\ "reset" \notin device.timers
  BY DEF Stage1Expires, Earned, Ending
<1>3. \A q \in Pages : Claims(sent'[q]) = {} /\ ~Awaits(page'[q], sent'[q])
  BY <1>1, <1>2, RunsAlone
<1>4. /\ device'.prov = device.prov /\ device'.wifi = device.wifi
      /\ "reset" \notin device'.timers
  BY <1>1, <1>2 DEF Stage1Expires, Expired, Devices
<1>5. Verdicts(device') /\ Ending(device')
  BY <1>2, <1>4 DEF Earned, Verdicts, Ending, Over
<1>6. ASSUME NEW q \in Pages
      PROVE  Claimed(sent'[q], device') /\ Heard(sent'[q], device')
  <2>1. Heard(sent[q], device)
    BY DEF Earned
  <2> QED
    BY <1>1, <1>3, <1>4, <2>1 DEF Claimed, Heard, Over
<1> QED
  BY <1>3, <1>5, <1>6 DEF Earned

LEMMA DeviceEnds ==
    ASSUME EndInv, Earned, ScanDone \/ GotIp \/ Rejected \/ Retried \/ TimerExpires
    PROVE  device'.prov = "GONE" \/ Earned'
<1>1. device \in Devices
  BY DEF EndInv, HandlerInv, TypeInv
<1>2. CASE ScanDone
  <2>1. /\ device'.prov = device.prov /\ device'.wifi = device.wifi
        /\ device'.timers = device.timers
    BY <1>1, <1>2 DEF ScanDone, Devices
  <2> QED
    BY <1>2, <2>1, NothingEnds DEF ScanDone, WindowsUnchanged
<1>3. CASE TimerExpires
  <2>1. CASE Stage2Expires
    BY <1>1, <2>1 DEF Stage2Expires, Devices
  <2> QED
    BY <1>3, <2>1, ResetEnds, Stage1Ends DEF TimerExpires
<1> QED
  BY <1>2, <1>3, VerdictEnds

-----------------------------------------------------------------------------
LEMMA EndInit == Init => EndInv
<1> SUFFICES ASSUME Init
             PROVE  EndInv
  OBVIOUS
<1>1. HandlerInv
  BY HandlerInit
<1>2. /\ device.prov = "STARTED" /\ device.timers = {}
      /\ \A p \in Pages : sent[p] = <<>> /\ page[p] = Unloaded
  BY DEF Init
<1>3. DOMAIN <<>> = {}
  OBVIOUS
<1>4. ASSUME NEW p \in Pages
      PROVE  Claims(sent[p]) = {} /\ ~Awaits(page[p], sent[p])
             /\ Claimed(sent[p], device) /\ Heard(sent[p], device)
  BY <1>2, <1>3 DEF Claims, Awaits, Claimed, Heard, Unloaded
<1>5. Verdicts(device) /\ Ending(device)
  BY <1>2 DEF Verdicts, Ending
<1> QED
  BY <1>1, <1>4, <1>5 DEF EndInv, Earned

LEMMA EndNext ==
    ASSUME "memory" \notin MayFail
    PROVE  EndInv /\ [Next]_vars => EndInv'
<1> SUFFICES ASSUME EndInv, [Next]_vars
             PROVE  EndInv'
  OBVIOUS
<1>1. HandlerInv' /\ TypeInv
  BY HandlerNext DEF EndInv, HandlerInv
<1>2. CASE device.prov = "GONE"
  BY <1>1, <1>2, GoneStays DEF EndInv
<1>3. CASE device.prov # "GONE"
  <2>1. Earned
    BY <1>3 DEF EndInv
  <2>2. CASE UNCHANGED vars
    BY <2>1, <2>2, NothingEnds, <1>1 DEF vars, EndInv
  <2>3. CASE Next
    <3>1. CASE ScanDone \/ GotIp \/ Rejected \/ Retried \/ TimerExpires
      BY <1>1, <2>1, <3>1, DeviceEnds DEF EndInv
    <3>2. ASSUME NEW p \in Pages,
                 \/ Load(p) \/ Rescan(p) \/ GoBack(p)
                 \/ \E fits \in BOOLEAN : ApplyButton(p, fits)
                 \/ HandleResponse(p) \/ RequestTimeout(p)
                 \/ \E timer \in Timers : TimerFires(p, timer)
                 \/ Serve(p)
          PROVE  Earned'
      BY <2>1, <3>2, LoadEnds, ButtonEnds, HandleEnds, TimeoutEnds, TimerEnds, ServeEnds
    <3> QED
      BY <1>1, <2>3, <3>1, <3>2 DEF Next, EndInv
  <2> QED
    BY <2>2, <2>3
<1> QED
  BY <1>2, <1>3

\* Only the second stage of a shutdown ends the session.
LEMMA OnlyStage2 ==
    ASSUME TypeInv, [Next]_vars, device.prov # "GONE", device'.prov = "GONE"
    PROVE  Stage2Expires
<1>1. device \in Devices
  BY DEF TypeInv
<1>2. ASSUME NEW p \in Pages, Serve(p)
      PROVE  FALSE
  <2>1. CASE Answering(p)
    <3>1. PICK op, a : Moves(op, a)
      BY <2>1 DEF Answering
    <3> QED
      BY <3>1 DEF Moves
  <2>2. CASE Faulting(p)
    BY <2>2 DEF Faulting
  <2>3. CASE Scanning(p)
    BY <2>3, BeginScanTyped DEF Scanning
  <2> QED
    BY <1>2, <2>1, <2>2, <2>3, ServeCases
<1>3. ASSUME NEW p \in Pages,
             \/ Load(p) \/ Rescan(p) \/ GoBack(p)
             \/ \E fits \in BOOLEAN : ApplyButton(p, fits)
             \/ HandleResponse(p) \/ RequestTimeout(p)
             \/ \E timer \in Timers : TimerFires(p, timer)
      PROVE  FALSE
  <2>1. UNCHANGED device
    BY <1>3 DEF Load, Rescan, GoBack, ApplyButton, HandleResponse, RequestTimeout,
                TimerFires, DeviceUnchanged
  <2> QED
    BY <2>1
<1>4. CASE ScanDone
  BY <1>1, <1>4 DEF ScanDone, Devices
<1>5. CASE GotIp \/ Rejected \/ Retried
  BY <1>1, <1>5 DEF GotIp, Rejected, Retried, Verdict, Attempting, Devices
<1>6. CASE TimerExpires
  <2>1. CASE ResetExpires
    BY <1>1, <2>1 DEF ResetExpires, Expired, Devices
  <2>2. CASE Stage1Expires
    BY <1>1, <2>2 DEF Stage1Expires, Expired, Devices
  <2> QED
    BY <1>6, <2>1, <2>2 DEF TimerExpires
<1>7. CASE UNCHANGED vars
  BY <1>7 DEF vars
<1> QED
  BY <1>2, <1>3, <1>4, <1>5, <1>6, <1>7 DEF Next

\* The session that the page ends is one whose attempt to connect has come to its
\* end, for any number of windows and whatever is lost on the way: no window ends a
\* session that waits for credentials or tries those of another window
\* (prov.js:413-438, prov_webpage_mgr.c:122-199).
THEOREM EndsEarned ==
    ASSUME "memory" \notin MayFail
    PROVE  Spec => EndEarned
<1>1. EndInv /\ [Next]_vars
        => (device.prov # "GONE" /\ device'.prov = "GONE"
                => device.prov \in {"SUCCESS", "FAIL"})
  <2> SUFFICES ASSUME EndInv, [Next]_vars, device.prov # "GONE", device'.prov = "GONE"
               PROVE  device.prov \in {"SUCCESS", "FAIL"}
    OBVIOUS
  <2>1. Earned /\ TypeInv /\ device \in Devices
    BY DEF EndInv, HandlerInv, TypeInv
  <2>2. Ending(device)
    BY <2>1 DEF Earned
  <2>3. CASE Stage2Expires
    BY <2>2, <2>3 DEF Stage2Expires, Ending, Over
  <2> QED
    BY <2>1, <2>3, OnlyStage2
<1> QED
  BY <1>1, EndInit, EndNext, PTL DEF Spec, EndEarned
=============================================================================
