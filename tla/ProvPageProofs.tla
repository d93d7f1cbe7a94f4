--------------------------- MODULE ProvPageProofs ---------------------------
(***************************************************************************)
(* What ProvPage keeps, for any number of windows, networks and requests.  *)
(***************************************************************************)
EXTENDS ProvPage, NatLemmas, SequenceTheorems, TLAPS

-----------------------------------------------------------------------------
\* Memory: what an operation allocates, and what is left when it is answered.

Parts == {"entry", "entry_ssid", "entry_bssid"}

Names == Parts \cup {"payload", "request", "connected", "ip4_addr", "bssid", "ssid",
                     "entries"}

Memory == Names \X Nat

LEMMA EntriesTyped ==
    ASSUME NEW n \in Nat
    PROVE  Entries(n) \in Seq(Parts \X (0 .. n - 1))
<1> SUFFICES ASSUME NEW k \in 1 .. 3 * n
             PROVE  << <<"entry", "entry_ssid", "entry_bssid">>[((k - 1) % 3) + 1],
                       (k - 1) \div 3 >> \in Parts \X (0 .. n - 1)
  <2>1. 3 * n \in Nat
    OBVIOUS
  <2> QED
    BY <2>1, IsASeq DEF Entries
<1> DEFINE q == (k - 1) \div 3
           r == (k - 1) % 3
<1>1. k - 1 = 3 * q + r /\ q \in Nat /\ r \in 0 .. 2
  BY Division, 3 \in Nat \ {0}
<1> HIDE DEF q, r
<1>2. q \in 0 .. n - 1
  BY <1>1
<1>3. <<"entry", "entry_ssid", "entry_bssid">>[r + 1] \in Parts
  BY <1>1 DEF Parts
<1> QED
  BY <1>2, <1>3 DEF q, r

LEMMA One ==
    ASSUME NEW S, NEW x \in S
    PROVE  <<x>> \in Seq(S) /\ Len(<<x>>) = 1
  OBVIOUS

\* What a handler allocates, in order, after the response itself.
Further(op, n, connected) ==
    CASE op = "get_status" /\ connected -> ConnectedState
      [] op = "scan_result" -> << <<"entries", 0>> >> \o Entries(n)
      [] OTHER -> <<>>

LEMMA PayloadFirst ==
    ASSUME NEW op, NEW n, NEW connected
    PROVE  Allocations(op, n, connected) = <<Payload>> \o Further(op, n, connected)
  BY DEF Allocations, Further

\* What every operation allocates has a place in Memory.
LEMMA AllocationsTyped ==
    ASSUME NEW op, NEW n \in Nat, NEW connected \in BOOLEAN
    PROVE  /\ Further(op, n, connected) \in Seq(Memory)
           /\ Allocations(op, n, connected) \in Seq(Memory)
           /\ Len(Allocations(op, n, connected)) >= 1
<1>1. <<Payload>> \in Seq(Memory) /\ Len(<<Payload>>) = 1
  <2>1. Payload \in Memory
    BY DEF Memory, Payload, Names
  <2> QED
    BY <2>1, One
<1>2. ConnectedState \in Seq(Memory)
  <2>1. <<"connected", 0>> \in Memory
    BY DEF Memory, Names
  <2>2. <<"ip4_addr", 0>> \in Memory
    BY DEF Memory, Names
  <2>3. <<"bssid", 0>> \in Memory
    BY DEF Memory, Names
  <2>4. <<"ssid", 0>> \in Memory
    BY DEF Memory, Names
  <2> HIDE DEF Memory
  <2>5. ASSUME NEW x \in Memory, NEW y \in Memory, NEW z \in Memory, NEW u \in Memory
        PROVE  <<x, y, z, u>> \in Seq(Memory)
    OBVIOUS
  <2> QED
    BY <2>1, <2>2, <2>3, <2>4, <2>5, Zenon DEF ConnectedState
<1>3. << <<"entries", 0>> >> \o Entries(n) \in Seq(Memory)
  <2>1. Entries(n) \in Seq(Memory)
    <3>1. Parts \X (0 .. n - 1) \subseteq Memory
      BY DEF Parts, Memory, Names
    <3> QED
      BY EntriesTyped, <3>1, SeqMonotonic
  <2>2. << <<"entries", 0>> >> \in Seq(Memory)
    <3>1. <<"entries", 0>> \in Memory
      BY DEF Memory, Names
    <3> QED
      BY <3>1, One
  <2> QED
    BY <2>1, <2>2
<1>4. Further(op, n, connected) \in Seq(Memory)
  BY <1>2, <1>3 DEF Further
<1> QED
  <2>1. ASSUME NEW a \in Seq(Memory), NEW b \in Seq(Memory), Len(a) = 1
        PROVE  a \o b \in Seq(Memory) /\ Len(a \o b) >= 1
    <3>1. Len(a \o b) = 1 + Len(b) /\ a \o b \in Seq(Memory)
      BY <2>1, ConcatProperties
    <3> QED
      BY <3>1
  <2> QED
    BY <1>1, <1>4, <2>1, PayloadFirst, Zenon

\* What the cleanup function gives back is what the handler has allocated.
LEMMA CleanupComplete ==
    ASSUME NEW op \in ConfigOps \cup ScanOps, NEW n \in Nat, NEW connected \in BOOLEAN
    PROVE  Left(op, n, connected, 0) = {}
<1> DEFINE s == Allocations(op, n, connected)
           t == Further(op, n, connected)
<1>1. s = <<Payload>> \o t /\ t \in Seq(Memory) /\ s \in Seq(Memory)
  BY PayloadFirst, AllocationsTyped
<1>2. ASSUME NEW i \in 1 .. Len(t)
      PROVE  t[i] \in CleanupFrees(op, n, connected)
  <2>1. CASE op = "get_status" /\ connected
    <3>1. t = ConnectedState
      BY <2>1 DEF Further
    <3>2. t[i] \in StateFreed(connected)
      <4>1. t[1] = <<"connected", 0>> /\ t[2] = <<"ip4_addr", 0>>
            /\ t[3] = <<"bssid", 0>> /\ t[4] = <<"ssid", 0>> /\ Len(t) = 4
        BY <3>1 DEF ConnectedState
      <4> HIDE DEF t
      <4>2. i = 1 \/ i = 2 \/ i = 3 \/ i = 4
        BY <4>1
      <4> QED
        BY <2>1, <4>1, <4>2 DEF StateFreed
    <3> QED
      BY <2>1, <3>2 DEF CleanupFrees
  <2>2. CASE op = "scan_result"
    <3>1. t = << <<"entries", 0>> >> \o Entries(n)
      BY <2>2 DEF Further
    <3> DEFINE e == Entries(n)
    <3>2. e \in Seq(Parts \X (0 .. n - 1))
      BY EntriesTyped
    <3>3. t[i] \in {<<"entries", 0>>} \cup (Parts \X (0 .. n - 1))
      <4> HIDE DEF e
      <4>1. t = << <<"entries", 0>> >> \o e
        BY <3>1 DEF e
      <4>2. CASE i = 1
        BY <3>2, <4>1, <4>2
      <4>3. CASE i # 1
        <5>1. i - 1 \in 1 .. Len(e) /\ t[i] = e[i - 1]
          BY <1>1, <3>2, <4>1, <4>3
        <5> QED
          BY <3>2, <5>1
      <4> QED
        BY <4>2, <4>3
    <3>4. t[i] \in EntriesFreed(n)
      BY <3>3 DEF EntriesFreed, Parts
    <3> QED
      BY <2>2, <3>4 DEF CleanupFrees
  <2>3. CASE ~(op = "get_status" /\ connected) /\ op # "scan_result"
    <3>1. t = <<>>
      BY <2>3 DEF Further
    <3> QED
      BY <3>1
  <2> QED
    BY <2>1, <2>2, <2>3
<1>3. Payload \in CleanupFrees(op, n, connected)
  BY DEF CleanupFrees
<1>4. Before(s, Len(s) + 1) \subseteq CleanupFrees(op, n, connected)
  <2> SUFFICES ASSUME NEW j \in 1 .. Len(s)
               PROVE  s[j] \in CleanupFrees(op, n, connected)
    BY <1>1 DEF Before
  <2> HIDE DEF s, t
  <2>1. CASE j = 1
    BY <1>1, <1>3, <2>1
  <2>2. CASE j # 1
    <3>1. j - 1 \in 1 .. Len(t) /\ s[j] = t[j - 1]
      BY <1>1, <2>2
    <3> QED
      BY <1>2, <3>1
  <2> QED
    BY <2>1, <2>2
<1> QED
  BY <1>4 DEF Left

\* Whichever allocation fails, what is left is memory.
LEMMA LeftTyped ==
    ASSUME NEW op \in ConfigOps \cup ScanOps, NEW n \in Nat, NEW connected \in BOOLEAN,
           NEW k \in 0 .. Len(Allocations(op, n, connected)) + 1
    PROVE  Left(op, n, connected, k) \in SUBSET Memory
<1> DEFINE s == Allocations(op, n, connected)
<1>1. s \in Seq(Memory) /\ Len(s) >= 1
  BY AllocationsTyped
<1>2. ASSUME NEW j \in 1 .. Len(s) + 1
      PROVE  Before(s, j) \in SUBSET Memory
  <2> HIDE DEF s
  <2> QED
    BY <1>1, <1>2 DEF Before
<1>3. Request \in Memory
  BY DEF Request, Memory, Names
<1>4. CASE k = 0
  BY <1>1, <1>2, <1>4 DEF Left
<1>5. CASE k \in 1 .. Len(s)
  <2>1. HandlerLeaves(op, s, k) \in SUBSET Memory
    <3> HIDE DEF s
    <3> QED
      BY <1>1, <1>2, <1>5 DEF HandlerLeaves
  <2> QED
    BY <1>3, <1>5, <2>1 DEF Left
<1>6. CASE k = Len(s) + 1
  BY <1>1, <1>2, <1>6 DEF Left
<1> QED
  BY <1>1, <1>4, <1>5, <1>6
-----------------------------------------------------------------------------
\* Types.

Operations == ConfigOps \cup ScanOps \cup Json \cup {"session"}

Network == [scan : Int, i : Nat, strong : BOOLEAN]

WifiStates == {"CONNECTING", "CONNECTED", "DISCONNECTED"}

AnswerFields ==
    [http : {200, 405, 500, Unheard}, op : Operations, ok : BOOLEAN,
     left : SUBSET Memory, finished : BOOLEAN, count : Nat,
     entries : Seq(Network), wifi : WifiStates]

\* An answer that grants leaves nothing; only a lack of memory makes the server
\* fail; no status is asked for while a scan is going on.
Answers ==
    {a \in AnswerFields :
        /\ a.ok => a.left = {} /\ a.http = 200
        /\ a.http \in {500, Unheard} => "memory" \in MayFail
        /\ a.op = "scan_status" /\ a.ok => a.finished
        /\ a.count <= MaxFound}

RequestFields ==
    [op : Operations, from : Nat, n : Nat, reply : {Pending} \cup Answers,
     live : BOOLEAN]

\* Only who still listens is answered, and to what was asked.
Requests ==
    {r \in RequestFields :
        r.reply # Pending =>
            r.live /\ r.reply.op = r.op /\ Len(r.reply.entries) <= r.n}

Fresh == {r \in Requests : r.live /\ r.reply = Pending}

Windows ==
    [provState : States, shown : Shown, callback : Operations \cup {"none"},
     numScanResults : Nat, scanIndex : Nat, scanResults : Seq(Network),
     forDisplay : Int, table : Seq(Network), timer : SUBSET Timers]

Called == {w \in Windows : w.callback \in Operations}

Devices ==
    [prov : {"STARTED", "CRED_RECV", "SUCCESS", "FAIL", "GONE"}, wifi : WifiStates,
     scanning : BOOLEAN, radio : BOOLEAN, found : Seq(Network), scan : {0, 1},
     staged : BOOLEAN, timers : SUBSET {"reset", "stage1", "stage2"},
     listens : BOOLEAN]

\* The m-th request of s is the first without an answer.
First(s, m) ==
    /\ m \in DOMAIN s
    /\ s[m].reply = Pending
    /\ \A j \in 1 .. m - 1 : s[j].reply # Pending

\* What is answered has been sent before what is not.
Queues ==
    {s \in Seq(Requests) :
        \A i, j \in DOMAIN s : i < j /\ s[i].reply = Pending => s[j].reply = Pending}

\* While a scan goes on, its window occupies the server.
Occupied ==
    /\ device.scanning => server # Nobody
    /\ server # Nobody =>
            \E m \in Nat : First(sent[server], m) /\ sent[server][m].op = "scan_start"

TypeInv ==
    /\ page \in [Pages -> Called \cup {Unloaded}]
    /\ \A p \in Pages : page[p] = Unloaded => sent[p] = <<>>
    /\ sent \in [Pages -> Queues]
    /\ server \in Pages \cup {Nobody}
    /\ device \in Devices /\ Len(device.found) <= MaxFound
    /\ halted \in {"no", "fault", "lock"}
    /\ refused \in SUBSET Pages
    /\ Occupied

LEMMA AnswerNotPending ==
    ASSUME NEW a \in Answers
    PROVE  a # Pending
  BY DEF Answers, AnswerFields, Pending

LEMMA SendIsFresh ==
    ASSUME NEW op \in Operations, NEW from \in Nat, NEW n \in Nat
    PROVE  \E r \in Fresh : Send(op, from, n) = <<r>> /\ r.op = op /\ r.from = from
                              /\ r.n = n
<1> DEFINE r == [op |-> op, from |-> from, n |-> n, reply |-> Pending, live |-> TRUE]
<1>1. r \in RequestFields
  BY DEF RequestFields
<1>2. r \in Fresh
  BY <1>1 DEF Requests, Fresh
<1> QED
  BY <1>2 DEF Send

-----------------------------------------------------------------------------
\* The script.  What a function of it sends is the request that it has named its
\* callback after.

Outcome(res) ==
    /\ res.w \in Called
    /\ \/ res.requests = <<>>
       \/ \E r \in Fresh : res.requests = <<r>> /\ r.op = res.w.callback

LEMMA CallsOutcome ==
    ASSUME NEW w \in Windows, NEW op \in Operations, NEW from \in Nat, NEW n \in Nat
    PROVE  Outcome(Calls(w, op, Send(op, from, n)))
<1>1. [w EXCEPT !.callback = op] \in Called /\ [w EXCEPT !.callback = op].callback = op
  BY DEF Windows, Called
<1>2. PICK r \in Fresh : Send(op, from, n) = <<r>> /\ r.op = op
  BY SendIsFresh
<1> QED
  BY <1>1, <1>2 DEF Outcome, Calls, Then

LEMMA AskOutcome ==
    ASSUME NEW w \in Windows, NEW op \in Operations
    PROVE  Outcome(Calls(w, op, Ask(op)))
  BY CallsOutcome DEF Ask

LEMMA ThenOutcome ==
    ASSUME NEW w \in Called
    PROVE  Outcome(Then(w, <<>>))
  BY DEF Outcome, Then

LEMMA startScanOutcome ==
    ASSUME NEW w \in Called
    PROVE  Outcome(startScan(w))
<1>1. [w EXCEPT !.provState = "SCANNING", !.shown = "scanning", !.table = <<>>,
                !.scanResults = <<>>] \in Windows
  <2>1. "SCANNING" \in States /\ "scanning" \in Shown /\ <<>> \in Seq(Network)
    BY DEF States, Shown
  <2> QED
    BY <2>1 DEF Called, Windows
<1>2. "scan_start" \in Operations
  BY DEF Operations, ScanOps
<1> QED
  BY <1>1, <1>2, AskOutcome, ThenOutcome DEF startScan

LEMMA setConfigOutcome ==
    ASSUME NEW w \in Called, NEW fits
    PROVE  Outcome(setConfig(w, fits))
<1>1. [w EXCEPT !.provState = "CONFIGURING", !.shown = "connecting"] \in Windows
  BY DEF Called, Windows, States, Shown
<1>2. "set_config" \in Operations
  BY DEF Operations, ConfigOps
<1> QED
  BY <1>1, <1>2, CallsOutcome, ThenOutcome DEF setConfig

LEMMA AfterOutcome ==
    ASSUME NEW w \in Called, NEW timer \in Timers
    PROVE  Outcome(After(w, timer))
<1>1. [w EXCEPT !.timer = @ \cup {timer}] \in Called
  BY DEF Called, Windows
<1> QED
  BY <1>1, ThenOutcome DEF After

LEMMA showSelectedTyped ==
    ASSUME NEW w \in Windows
    PROVE  showSelectedResults(w) \in Seq(Network)
<1>1. Undefined \in Network
  BY DEF Undefined, Network
<1>2. w.scanResults \in Seq(Network) /\ w.forDisplay \in Int
  BY DEF Windows
<1> DEFINE N == IF w.forDisplay >= 0 THEN w.forDisplay ELSE 0
<1>3. N \in Nat /\ 1 .. w.forDisplay = 1 .. N
  BY <1>2
<1>4. ASSUME NEW i \in 1 .. N
      PROVE  (IF i \in DOMAIN w.scanResults THEN w.scanResults[i] ELSE Undefined)
                \in Network
  BY <1>1, <1>2
<1> HIDE DEF N
<1>5. [i \in 1 .. N |-> IF i \in DOMAIN w.scanResults THEN w.scanResults[i]
                        ELSE Undefined] \in Seq(Network)
  BY <1>3, <1>4, IsASeq
<1> QED
  BY <1>3, <1>5 DEF showSelectedResults

LEMMA getScanResultsOutcome ==
    ASSUME NEW w \in Called
    PROVE  Outcome(getScanResults(w))
<1>1. CASE w.scanIndex < w.numScanResults
  <2> DEFINE n == Least(w.numScanResults - w.scanIndex, Batch)
  <2>1. w.scanIndex \in Nat /\ n \in Nat
    <3>1. w.scanIndex \in Nat /\ w.numScanResults \in Nat
      BY DEF Called, Windows
    <3>2. w.numScanResults - w.scanIndex \in Nat /\ Batch \in Nat
      BY <1>1, <3>1, PageSizes
    <3>3. n \in {w.numScanResults - w.scanIndex, Batch}
      BY DEF Least
    <3> HIDE DEF n
    <3> QED
      BY <3>1, <3>2, <3>3
  <2> HIDE DEF n
  <2>2. [w EXCEPT !.scanIndex = @ + n] \in Windows
    BY <2>1 DEF Called, Windows
  <2>3. "scan_result" \in Operations
    BY DEF Operations, ScanOps
  <2> QED
    BY <1>1, <2>1, <2>2, <2>3, CallsOutcome DEF getScanResults, n
<1>2. CASE ~(w.scanIndex < w.numScanResults)
  <2>1. [w EXCEPT !.provState = "READY", !.table = showSelectedResults(w)] \in Called
    BY showSelectedTyped DEF Called, Windows, States
  <2> QED
    BY <1>2, <2>1, ThenOutcome DEF getScanResults
<1> QED
  BY <1>1, <1>2

LEMMA FetchOutcome ==
    ASSUME NEW w \in Called, NEW count \in Nat
    PROVE  Outcome(Fetch(w, count))
<1>1. [w EXCEPT !.numScanResults = count, !.forDisplay = count, !.scanIndex = 0,
                !.shown = "form"] \in Called
  <2>1. "form" \in Shown /\ 0 \in Nat /\ count \in Int
    BY DEF Shown
  <2> QED
    BY <2>1 DEF Called, Windows
<1> QED
  BY <1>1, getScanResultsOutcome DEF Fetch

LEMMA handleScanStatusOutcome ==
    ASSUME NEW w \in Called, NEW finished, NEW count \in Nat
    PROVE  Outcome(handleScanStatus(w, finished, count))
  BY FetchOutcome, startScanOutcome, AfterOutcome DEF handleScanStatus, Timers

LEMMA StatusOutcome ==
    ASSUME NEW w \in Called, NEW reply \in Answers
    PROVE  Outcome(handleGetConfigStatus(w, reply))
<1>1. [w EXCEPT !.shown = "success"] \in Windows /\ [w EXCEPT !.shown = "failed"] \in Windows
  BY DEF Called, Windows, Shown
<1>2. "shutdown" \in Operations /\ "reset" \in Operations /\ "get_status" \in Timers
  BY DEF Operations, Json, Timers
<1> QED
  BY <1>1, <1>2, AskOutcome, AfterOutcome DEF handleGetConfigStatus
-----------------------------------------------------------------------------
\* The loop that keeps the strong entries.

\* The body of the loop.
Keep(kept, e) == IF e.strong THEN Append(kept, e) ELSE kept

LEMMA KeptTurns ==
    ASSUME NEW s \in Seq(Network)
    PROVE  Kept(s) = [k \in 0 .. Len(s) |->
                        IF k = 0 THEN <<>> ELSE Keep(Kept(s)[k - 1], s[k])]
<1> DEFINE N == Len(s)
           S == Seq(Network)
           g == [n \in 1 .. N |-> [kept \in S |-> Keep(kept, s[n])]]
           Equation(f) == f = [k \in 0 .. Len(s) |->
                                  IF k = 0 THEN <<>>
                                  ELSE IF s[k].strong THEN Append(f[k - 1], s[k])
                                  ELSE f[k - 1]]
<1>1. N \in Nat /\ <<>> \in S
  OBVIOUS
<1>2. g \in [1 .. N -> [S -> S]]
  BY DEF Keep
<1>3. PICK f \in Runs(N, S, <<>>, g) : TRUE
  <2> HIDE DEF S, g, N
  <2> QED
    BY <1>1, <1>2, Iteration
<1>4. Equation(f)
  <2>1. ASSUME NEW n \in 0 .. N, n # 0
        PROVE  f[n] = IF s[n].strong THEN Append(f[n - 1], s[n]) ELSE f[n - 1]
    <3>1. n \in 1 .. N /\ n - 1 \in 0 .. N
      BY <2>1
    <3>2. f[n] = g[n][f[n - 1]] /\ f[n - 1] \in S
      BY <3>1 DEF Runs
    <3> QED
      BY <3>1, <3>2 DEF Keep
  <2>2. f \in [0 .. N -> S] /\ f[0] = <<>>
    BY DEF Runs
  <2> HIDE DEF S
  <2> QED
    BY <2>1, <2>2
<1>5. Kept(s) = CHOOSE kept : Equation(kept)
  BY Zenon DEF Kept
<1>6. Equation(Kept(s))
  <2> HIDE DEF Equation
  <2> QED
    BY <1>4, <1>5, Zenon
<1> QED
  BY <1>6 DEF Keep

\* What is kept is no more than what there is.
LEMMA StrongTyped ==
    ASSUME NEW s \in Seq(Network)
    PROVE  Strong(s) \in Seq(Network) /\ Len(Strong(s)) \in 0 .. Len(s)
<1> DEFINE Good(k) == Kept(s)[k] \in Seq(Network) /\ Len(Kept(s)[k]) \in 0 .. k
           T == {k \in Nat : k <= Len(s) => Good(k)}
<1>1. Kept(s)[0] = <<>>
  BY KeptTurns
<1>2. 0 \in T
  <2>1. <<>> \in Seq(Network) /\ Len(<<>>) \in 0 .. 0
    OBVIOUS
  <2>2. Good(0)
    BY <1>1, <2>1, Zenon
  <2> QED
    BY <2>2
<1>3. ASSUME NEW k \in Nat, k \in T
      PROVE  k + 1 \in T
  <2> SUFFICES ASSUME k + 1 <= Len(s)
               PROVE  Good(k + 1)
    OBVIOUS
  <2>1. Good(k)
    BY <1>3
  <2>2. Kept(s)[k + 1] = Keep(Kept(s)[k], s[k + 1]) /\ s[k + 1] \in Network
    BY KeptTurns
  <2> QED
    BY <2>1, <2>2 DEF Keep
<1>4. Len(s) \in T
  <2> HIDE DEF T
  <2>1. Nat \subseteq T
    BY <1>2, <1>3, Induction
  <2> QED
    BY <2>1
<1> QED
  BY <1>4 DEF Strong

LEMMA TakeResultsTyped ==
    ASSUME NEW w \in Called, NEW s \in Seq(Network)
    PROVE  TakeResults(w, s) \in Called
<1>1. Strong(s) \in Seq(Network) /\ Len(s) - Len(Strong(s)) \in Int
  BY StrongTyped
<1> DEFINE t == Strong(s)
           d == Len(s) - Len(Strong(s))
<1>2. w.scanResults \o t \in Seq(Network) /\ w.forDisplay - d \in Int
  <2> HIDE DEF t, d
  <2>1. t \in Seq(Network) /\ d \in Int
    BY <1>1 DEF t, d
  <2> QED
    BY <2>1 DEF Called, Windows
<1> HIDE DEF t, d
<1>3. [w EXCEPT !.scanResults = @ \o t, !.forDisplay = @ - d] \in Called
  BY <1>2 DEF Called, Windows
<1> QED
  BY <1>3 DEF TakeResults, t, d

\* Whatever is answered, the script goes on as Outcome says.
LEMMA AcceptOutcome ==
    ASSUME NEW w \in Called, NEW reply \in Answers, IsResponse(w.callback, reply)
    PROVE  Outcome(Accept(w, reply))
<1>1. /\ reply.count \in Nat /\ reply.entries \in Seq(Network)
      /\ w.callback \in Operations
  BY DEF Answers, AnswerFields, Called
<1>2. /\ "scan_status" \in Operations /\ "apply_config" \in Operations
      /\ "get_status" \in Timers /\ "homepage" \in Timers /\ w \in Windows
  BY DEF Operations, ConfigOps, ScanOps, Timers, Called
<1>3. CASE w.callback = "get_status"
  <2>1. Accept(w, reply) = handleGetConfigStatus(w, reply)
    BY <1>3 DEF Accept
  <2> QED
    BY <2>1, StatusOutcome
<1>4. CASE w.callback # "get_status" /\ (~Success(w, reply) \/ w.callback = "reset")
  BY <1>4, ThenOutcome DEF Accept
<1>5. CASE ~(w.callback = "get_status" \/ ~Success(w, reply) \/ w.callback = "reset")
  <2>1. CASE w.callback = "session"
    <3>1. [w EXCEPT !.provState = "READY"] \in Windows
      BY DEF Called, Windows, States
    <3>2. Accept(w, reply) = getScanStatus([w EXCEPT !.provState = "READY"])
      BY <1>5, <2>1 DEF Accept
    <3> QED
      BY <1>2, <3>1, <3>2, AskOutcome DEF getScanStatus
  <2>2. CASE w.callback = "scan_start"
    <3>1. Accept(w, reply) = getScanStatus(w)
      BY <1>5, <2>2 DEF Accept
    <3> QED
      BY <1>2, <3>1, AskOutcome DEF getScanStatus
  <2>3. CASE w.callback = "scan_status"
    <3>1. Accept(w, reply) = handleScanStatus(w, reply.finished, reply.count)
      BY <1>5, <2>3 DEF Accept
    <3> QED
      BY <1>1, <3>1, handleScanStatusOutcome
  <2>4. CASE w.callback = "scan_result"
    <3>1. Accept(w, reply) = getScanResults(TakeResults(w, reply.entries))
      BY <1>5, <2>4 DEF Accept
    <3> QED
      BY <1>1, <3>1, TakeResultsTyped, getScanResultsOutcome
  <2>5. CASE w.callback = "set_config"
    <3>1. Accept(w, reply) = applyConfig(w)
      BY <1>5, <2>5 DEF Accept
    <3> QED
      BY <1>2, <3>1, AskOutcome DEF applyConfig
  <2>6. CASE w.callback = "apply_config"
    <3>1. Accept(w, reply) = After(w, "get_status")
      BY <1>5, <2>6 DEF Accept
    <3> QED
      BY <1>2, <3>1, AfterOutcome
  <2>7. CASE w.callback = "shutdown"
    <3>1. Accept(w, reply) = After(w, "homepage")
      BY <1>5, <2>7 DEF Accept
    <3> QED
      BY <1>2, <3>1, AfterOutcome
  <2>8. CASE w.callback = "homepage"
    <3>1. Accept(w, reply) = Then([w EXCEPT !.shown = "redirect"], <<>>)
      BY <1>5, <2>8 DEF Accept
    <3>2. [w EXCEPT !.shown = "redirect"] \in Called
      BY DEF Called, Windows, Shown
    <3> QED
      BY <3>1, <3>2, ThenOutcome
  <2> QED
    BY <1>1, <1>5, <2>1, <2>2, <2>3, <2>4, <2>5, <2>6, <2>7, <2>8
       DEF Operations, ConfigOps, ScanOps, Json
<1> QED
  BY <1>3, <1>4, <1>5

LEMMA ResponseOutcome ==
    ASSUME NEW w \in Called, NEW reply \in Answers
    PROVE  Outcome(handleProtocommResponse(w, reply))
<1>1. /\ updateUIServiceUnavailable(w) \in Called
      /\ updateUIForScanningOver(w) \in Called
  BY DEF updateUIServiceUnavailable, updateUIForScanningOver, Called, Windows, Shown,
         States
<1>2. CASE reply.http = 200 /\ IsResponse(w.callback, reply)
  BY <1>2, AcceptOutcome DEF handleProtocommResponse
<1>3. CASE ~(reply.http = 200 /\ IsResponse(w.callback, reply))
  BY <1>1, <1>3, ThenOutcome DEF handleProtocommResponse
<1> QED
  BY <1>2, <1>3

-----------------------------------------------------------------------------
\* The queue of a window.

\* A request is sent.
LEMMA PushQueue ==
    ASSUME NEW s \in Queues, NEW r \in Fresh
    PROVE  LET t == s \o <<r>>
           IN  /\ t \in Queues
               /\ Len(t) = Len(s) + 1
               /\ t[Len(s) + 1] = r
               /\ \A i \in DOMAIN s : t[i] = s[i]
               /\ \A m \in Nat : First(s, m) => First(t, m)
<1> DEFINE t == s \o <<r>>
<1>1. s \in Seq(Requests) /\ r \in Requests /\ r.reply = Pending
  BY DEF Queues, Fresh
<1>2. /\ t \in Seq(Requests)
      /\ Len(t) = Len(s) + 1
      /\ t[Len(s) + 1] = r
      /\ \A i \in DOMAIN s : t[i] = s[i]
  <2> HIDE DEF Requests
  <2> QED
    BY <1>1
<1> HIDE DEF t
<1>3. t \in Queues
  <2> SUFFICES ASSUME NEW i \in 1 .. Len(t), NEW j \in 1 .. Len(t), i < j,
                      t[i].reply = Pending
               PROVE  t[j].reply = Pending
    BY <1>2 DEF Queues
  <2>1. CASE j = Len(s) + 1
    BY <1>1, <1>2, <2>1
  <2>2. CASE j # Len(s) + 1
    BY <1>1, <1>2, <2>2 DEF Queues
  <2> QED
    BY <2>1, <2>2
<1>4. ASSUME NEW m \in Nat, First(s, m)
      PROVE  First(t, m)
  BY <1>1, <1>2, <1>4 DEF First
<1> QED
  BY <1>2, <1>3, <1>4 DEF t

\* The oldest request's answer has been handled.
LEMMA PopQueue ==
    ASSUME NEW s \in Queues, s # <<>>
    PROVE  LET t == Tail(s)
           IN  /\ t \in Queues
               /\ Len(t) = Len(s) - 1
               /\ \A i \in DOMAIN t : i + 1 \in DOMAIN s /\ t[i] = s[i + 1]
               /\ \A m \in Nat :
                    First(s, m) /\ Head(s).reply # Pending
                        => m >= 2 /\ First(t, m - 1)
<1> DEFINE t == Tail(s)
<1>1. s \in Seq(Requests) /\ Len(s) >= 1 /\ Head(s) = s[1]
  BY DEF Queues
<1>2. /\ t \in Seq(Requests)
      /\ Len(t) = Len(s) - 1
      /\ \A i \in DOMAIN t : i + 1 \in DOMAIN s /\ t[i] = s[i + 1]
  BY <1>1
<1> HIDE DEF t
<1>3. t \in Queues
  BY <1>1, <1>2 DEF Queues
<1>4. ASSUME NEW m \in Nat, First(s, m), Head(s).reply # Pending
      PROVE  m >= 2 /\ First(t, m - 1)
  <2>1. m # 1 /\ m \in 1 .. Len(s)
    BY <1>1, <1>4 DEF First
  <2>2. m - 1 \in DOMAIN t /\ t[m - 1] = s[m]
    BY <1>1, <1>2, <2>1
  <2>3. ASSUME NEW j \in 1 .. m - 2
        PROVE  t[j].reply # Pending
    <3>1. t[j] = s[j + 1] /\ j + 1 \in 1 .. m - 1
      BY <1>2, <2>1
    <3> QED
      BY <1>4, <3>1 DEF First
  <2> QED
    BY <1>4, <2>1, <2>2, <2>3 DEF First
<1> QED
  BY <1>2, <1>3, <1>4 DEF t

\* Nobody waits for the i-th request any more.
LEMMA MuteQueue ==
    ASSUME NEW s \in Queues, NEW i \in DOMAIN s, s[i].reply = Pending
    PROVE  LET t == [s EXCEPT ![i].live = FALSE]
           IN  /\ t \in Queues
               /\ Len(t) = Len(s)
               /\ t[i] = [s[i] EXCEPT !.live = FALSE]
               /\ \A j \in DOMAIN s \ {i} : t[j] = s[j]
               /\ \A m \in Nat : First(s, m) => First(t, m)
<1> DEFINE q == [s[i] EXCEPT !.live = FALSE]
           t == [s EXCEPT ![i] = q]
<1>1. s \in Seq(Requests) /\ s[i] \in Requests
  BY DEF Queues
<1>2. q \in Requests /\ q.reply = Pending
  BY <1>1 DEF Requests, RequestFields
<1>3. [s EXCEPT ![i].live = FALSE] = t
  BY Zenon
<1> HIDE DEF q
<1>4. /\ t \in Seq(Requests)
      /\ Len(t) = Len(s)
      /\ t[i] = q
      /\ \A j \in DOMAIN s \ {i} : t[j] = s[j]
  BY <1>1, <1>2
<1> HIDE DEF t
<1>5. \A j \in DOMAIN s : t[j].reply = s[j].reply
  BY <1>2, <1>4
<1>6. t \in Queues
  BY <1>4, <1>5 DEF Queues
<1>7. \A m \in Nat : First(s, m) => First(t, m)
  BY <1>1, <1>4, <1>5 DEF First
<1> QED
  BY <1>3, <1>4, <1>6, <1>7 DEF q

\* The first request without an answer is the one that Min picks.
LEMMA FirstWaiting ==
    ASSUME NEW p \in Pages, sent[p] \in Queues
    PROVE  /\ Waiting(p) # {} => First(sent[p], Min(Waiting(p)))
           /\ \A m \in Nat : First(sent[p], m) => Waiting(p) # {} /\ m = Min(Waiting(p))
<1> DEFINE s == sent[p]
           W == Waiting(p)
<1>1. s \in Seq(Requests) /\ W = {i \in 1 .. Len(s) : s[i].reply = Pending}
  BY DEF Queues, Waiting
<1>2. ASSUME NEW m \in W, \A y \in W : m =< y
      PROVE  m = Min(W) /\ First(s, m)
  <2>1. First(s, m)
    BY <1>1, <1>2 DEF First
  <2>2. \A x \in W : (\A y \in W : x =< y) => x = m
    BY <1>1, <1>2
  <2>3. Min(W) \in W /\ \A y \in W : Min(W) =< y
    <3> HIDE DEF W
    <3> QED
      BY <1>2 DEF Min
  <2> QED
    BY <2>1, <2>2, <2>3
<1>3. ASSUME W # {}
      PROVE  \E m \in W : \A y \in W : m =< y
  <2>1. W \in SUBSET Nat
    BY <1>1
  <2> QED
    BY <1>3, <2>1, LeastNatural
<1>4. ASSUME NEW m \in Nat, First(s, m)
      PROVE  m \in W /\ \A y \in W : m =< y
  <2>1. m \in W
    BY <1>1, <1>4 DEF First
  <2>2. ASSUME NEW y \in W, y < m
        PROVE  FALSE
    BY <1>1, <1>4, <2>2 DEF First
  <2> QED
    BY <1>1, <2>1, <2>2
<1> QED
  BY <1>2, <1>3, <1>4

\* A window is loaded again: who asked is gone, and what was not answered is still
\* served.
LEMMA ForgetQueue ==
    ASSUME NEW p \in Pages, sent[p] \in Queues
    PROVE  LET t == Forget(Unanswered(p))
           IN  /\ t \in Queues
               /\ Len(t) <= Len(sent[p])
               /\ \A i \in DOMAIN t : ~t[i].live /\ t[i].reply = Pending
               /\ \E d \in 0 .. Len(sent[p]) : \A i \in DOMAIN t :
                    /\ d + i \in DOMAIN sent[p]
                    /\ t[i] = [sent[p][d + i] EXCEPT !.live = FALSE]
                    /\ sent[p][d + i].reply = Pending
               /\ \A m \in Nat :
                    First(sent[p], m) => First(t, 1) /\ t[1].op = sent[p][m].op
<1> DEFINE s == sent[p]
           t == Forget(Unanswered(p))
<1>1. s \in Seq(Requests)
  BY DEF Queues
<1>2. CASE Waiting(p) = {}
  <2>1. t = <<>>
    BY <1>2 DEF Forget, Unanswered
  <2>2. t \in Queues /\ Len(t) = 0 /\ DOMAIN t = {}
    BY <2>1 DEF Queues
  <2>3. \A m \in Nat : ~First(s, m)
    BY <1>2, FirstWaiting
  <2>4. 0 \in 0 .. Len(s)
    BY <1>1
  <2> QED
    BY <2>2, <2>3, <2>4
<1>3. CASE Waiting(p) # {}
  <2> DEFINE m == Min(Waiting(p))
             u == SubSeq(s, m, Len(s))
  <2>1. First(s, m) /\ m \in 1 .. Len(s)
    BY <1>1, <1>3, FirstWaiting DEF First
  <2>2. Unanswered(p) = u
    BY <1>3 DEF Unanswered
  <2> HIDE DEF m
  <2>3. /\ u \in Seq(Requests)
        /\ Len(u) = Len(s) - m + 1
        /\ \A i \in 1 .. Len(u) : u[i] = s[m - 1 + i] /\ m - 1 + i \in m .. Len(s)
    BY <1>1, <2>1, SubSeqProperties
  <2>4. \A i \in m .. Len(s) : s[i].reply = Pending
    BY <1>1, <2>1 DEF First, Queues
  <2> HIDE DEF u
  <2>5. t = [i \in 1 .. Len(u) |-> [u[i] EXCEPT !.live = FALSE]]
    BY <2>2, <2>3 DEF Forget
  <2>6. ASSUME NEW i \in 1 .. Len(u)
        PROVE  /\ [u[i] EXCEPT !.live = FALSE] \in Requests
               /\ [u[i] EXCEPT !.live = FALSE].reply = Pending
               /\ [u[i] EXCEPT !.live = FALSE].op = u[i].op
               /\ ~[u[i] EXCEPT !.live = FALSE].live
    <3>1. u[i] \in Requests /\ u[i].reply = Pending
      BY <2>3, <2>4
    <3> QED
      BY <3>1 DEF Requests, RequestFields
  <2> HIDE DEF t
  <2>7. t \in Seq(Requests) /\ Len(t) = Len(u) /\ DOMAIN t = 1 .. Len(u)
    <3>1. Len(u) \in Nat
      BY <2>3
    <3>2. t \in [1 .. Len(u) -> Requests]
      BY <2>5, <2>6
    <3> QED
      BY <3>1, <3>2
  <2>8. \A i \in DOMAIN t : t[i] = [u[i] EXCEPT !.live = FALSE]
    BY <2>5, <2>7
  <2>9. \A i \in DOMAIN t : ~t[i].live /\ t[i].reply = Pending /\ t[i].op = u[i].op
    BY <2>6, <2>7, <2>8
  <2>10. t \in Queues
    BY <2>7, <2>9 DEF Queues
  <2>11. ASSUME NEW i \in DOMAIN t
         PROVE  /\ (m - 1) + i \in DOMAIN s
                /\ t[i] = [s[(m - 1) + i] EXCEPT !.live = FALSE]
                /\ s[(m - 1) + i].reply = Pending
    <3>1. i \in 1 .. Len(u)
      BY <2>7
    <3>2. u[i] = s[(m - 1) + i] /\ (m - 1) + i \in m .. Len(s)
      BY <2>3, <3>1
    <3>3. m .. Len(s) \subseteq DOMAIN s
      BY <1>1, <2>1
    <3> QED
      BY <2>4, <2>8, <3>2, <3>3
  <2>12. m - 1 \in 0 .. Len(s) /\ Len(t) <= Len(s)
    BY <1>1, <2>1, <2>3, <2>7
  <2>13. ASSUME NEW k \in Nat, First(s, k)
         PROVE  First(t, 1) /\ t[1].op = s[k].op
    <3>1. k = m
      BY <2>13, FirstWaiting DEF m
    <3>2. 1 \in DOMAIN t
      BY <1>1, <2>1, <2>3, <2>7
    <3>3. u[1] = s[m]
      <4>1. u[1] = s[(m - 1) + 1] /\ (m - 1) + 1 = m
        BY <2>1, <2>3, <2>7, <3>2
      <4> QED
        BY <4>1
    <3> QED
      BY <2>9, <3>1, <3>2, <3>3 DEF First
  <2> QED
    BY <2>9, <2>10, <2>11, <2>12, <2>13 DEF t
<1> QED
  BY <1>2, <1>3

\* The m-th request of s is answered, or, when nobody waits for it, is gone.
Told(s, t, m, reply) ==
    /\ s[m].live
    /\ Len(t) = Len(s)
    /\ t[m] = [s[m] EXCEPT !.reply = reply]
    /\ \A j \in DOMAIN s \ {m} : t[j] = s[j]

Removed(s, t, m) ==
    /\ ~s[m].live
    /\ Len(t) = Len(s) - 1
    /\ \A i \in 1 .. m - 1 : t[i] = s[i]
    /\ \A i \in m .. Len(s) - 1 : t[i] = s[i + 1]

LEMMA AnswerQueue ==
    ASSUME NEW p \in Pages, sent \in [Pages -> Queues], NEW m \in Nat, First(sent[p], m),
           NEW reply \in Answers, reply.op = sent[p][m].op,
           Len(reply.entries) <= sent[p][m].n, Answer(p, reply)
    PROVE  /\ sent' = [sent EXCEPT ![p] = sent'[p]]
           /\ sent'[p] \in Queues
           /\ Told(sent[p], sent'[p], m, reply) \/ Removed(sent[p], sent'[p], m)
<1> DEFINE s == sent[p]
<1>1. s \in Queues /\ s \in Seq(Requests) /\ m \in DOMAIN s /\ s[m] \in Requests
      /\ s[m].reply = Pending
  BY DEF Queues, First
<1>2. m = Min(Waiting(p)) /\ Served(p) = s[m]
  BY <1>1, FirstWaiting DEF Served
<1>3. \A j \in 1 .. m - 1 : s[j].reply # Pending
  BY DEF First
<1>4. CASE s[m].live
  <2> DEFINE r == [s[m] EXCEPT !.reply = reply]
             t == [s EXCEPT ![m] = r]
  <2>1. r \in Requests /\ r.reply # Pending
    <3>1. r \in RequestFields /\ r.reply = reply /\ r.live /\ r.op = s[m].op /\ r.n = s[m].n
      BY <1>1, <1>4 DEF Requests, RequestFields
    <3> QED
      BY <3>1, AnswerNotPending DEF Requests
  <2>2. [s EXCEPT ![m].reply = reply] = t
    BY Zenon
  <2>3. sent' = [sent EXCEPT ![p] = t]
    BY <1>2, <1>4, <2>2, Zenon DEF Answer
  <2> HIDE DEF r
  <2>4. /\ t \in Seq(Requests) /\ Len(t) = Len(s) /\ t[m] = r
        /\ \A j \in DOMAIN s \ {m} : t[j] = s[j]
    BY <1>1, <2>1
  <2> HIDE DEF t
  <2>5. t \in Queues
    <3> SUFFICES ASSUME NEW i \in 1 .. Len(t), NEW j \in 1 .. Len(t), i < j,
                        t[i].reply = Pending
                 PROVE  t[j].reply = Pending
      BY <2>4 DEF Queues
    <3>1. i # m /\ i \in DOMAIN s /\ j \in DOMAIN s /\ s[i].reply = Pending
      BY <1>1, <2>1, <2>4
    <3>2. ~(i < m)
      BY <1>1, <1>3, <3>1
    <3>3. j # m /\ t[j] = s[j]
      BY <1>1, <2>4, <3>1, <3>2
    <3> QED
      BY <1>1, <3>1, <3>3 DEF Queues
  <2>6. Told(s, t, m, reply)
    BY <1>4, <2>4 DEF Told, r
  <2>7. sent'[p] = t
    BY <2>3
  <2> QED
    BY <2>3, <2>5, <2>6, <2>7
<1>5. CASE ~s[m].live
  <2> DEFINE a == SubSeq(s, 1, m - 1)
             b == SubSeq(s, m + 1, Len(s))
             t == a \o b
  <2>1. sent' = [sent EXCEPT ![p] = t]
    BY <1>2, <1>5, Zenon DEF Answer, RemoveAt
  <2>2. m \in 1 .. Len(s) /\ Len(s) \in Nat
    BY <1>1
  <2>3. a \in Seq(Requests) /\ Len(a) = m - 1 /\ \A i \in 1 .. m - 1 : a[i] = s[i]
    BY <1>1, <2>2, SubSeqProperties
  <2>4. b \in Seq(Requests) /\ Len(b) = Len(s) - m
        /\ \A i \in 1 .. Len(s) - m : b[i] = s[m + i]
    BY <1>1, <2>2, SubSeqProperties
  <2> HIDE DEF a, b
  <2>5. /\ t \in Seq(Requests) /\ Len(t) = Len(s) - 1
        /\ \A i \in 1 .. Len(s) - 1 : t[i] = IF i <= m - 1 THEN a[i] ELSE b[i - (m - 1)]
    <3>1. /\ t \in Seq(Requests) /\ Len(t) = Len(a) + Len(b)
          /\ \A i \in 1 .. Len(a) + Len(b) :
                t[i] = IF i <= Len(a) THEN a[i] ELSE b[i - Len(a)]
      BY <2>3, <2>4, ConcatProperties
    <3>2. Len(a) + Len(b) = Len(s) - 1
      BY <2>2, <2>3, <2>4
    <3> HIDE DEF t
    <3> QED
      BY <2>3, <3>1, <3>2
  <2> HIDE DEF t
  <2>6. \A i \in 1 .. m - 1 : t[i] = s[i]
    BY <2>2, <2>3, <2>5
  <2>7. ASSUME NEW i \in m .. Len(s) - 1
        PROVE  t[i] = s[i + 1]
    <3>1. i - (m - 1) \in 1 .. Len(s) - m /\ m + (i - (m - 1)) = i + 1
      BY <2>2
    <3>2. t[i] = b[i - (m - 1)]
      BY <2>2, <2>5
    <3> QED
      BY <2>4, <3>1, <3>2
  <2>8. t \in Queues
    <3> SUFFICES ASSUME NEW i \in 1 .. Len(t), NEW j \in 1 .. Len(t), i < j,
                        t[i].reply = Pending
                 PROVE  t[j].reply = Pending
      BY <2>5 DEF Queues
    <3>1. i \in m .. Len(s) - 1 /\ j \in m .. Len(s) - 1
      BY <1>3, <2>2, <2>5, <2>6
    <3>2. s[i + 1].reply = Pending /\ i + 1 \in DOMAIN s /\ j + 1 \in DOMAIN s /\ i + 1 < j + 1
      BY <1>1, <2>2, <2>7, <3>1
    <3>3. s[j + 1].reply = Pending
      BY <1>1, <3>2 DEF Queues
    <3> QED
      BY <2>7, <3>1, <3>3
  <2>9. Removed(s, t, m)
    BY <1>5, <2>5, <2>6, <2>7 DEF Removed
  <2>10. sent'[p] = t
    BY <2>1
  <2> QED
    BY <2>1, <2>8, <2>9, <2>10
<1> QED
  BY <1>4, <1>5

-----------------------------------------------------------------------------
\* Types are kept.

LEMMA UnloadedTyped == Unloaded \in Windows /\ Unloaded \notin Called
<1>1. "UNINITIALIZED" \in States /\ "none" \in Shown /\ <<>> \in Seq(Network)
  BY DEF States, Shown
<1>2. Unloaded \in Windows
  BY <1>1 DEF Unloaded, Windows
<1>3. "none" \notin Operations
  BY DEF Operations, ConfigOps, ScanOps, Json
<1> QED
  BY <1>2, <1>3 DEF Called, Unloaded

THEOREM TypeInit == Init => TypeInv
<1> SUFFICES ASSUME Init PROVE TypeInv
  OBVIOUS
<1>1. <<>> \in Queues
  BY DEF Queues
<1>2. page \in [Pages -> Called \cup {Unloaded}] /\ sent \in [Pages -> Queues]
      /\ \A p \in Pages : page[p] = Unloaded => sent[p] = <<>>
  BY <1>1 DEF Init
<1>3. device \in Devices /\ Len(device.found) <= MaxFound /\ ~device.scanning
  <2>1. <<>> \in Seq(Network) /\ Len(<<>>) = 0
    OBVIOUS
  <2> QED
    BY <2>1, PageSizes DEF Init, Devices, WifiStates
<1> QED
  BY <1>2, <1>3 DEF Init, TypeInv, Occupied

\* A window's step keeps what is next to be served.
Follows(s, s0) ==
    /\ s0 \in Queues
    /\ \A m \in Nat : First(s, m) =>
            \E k \in Nat : First(s0, k) /\ s0[k].op = s[m].op

LEMMA GoOnTyped ==
    ASSUME TypeInv, NEW p \in Pages, NEW res, Outcome(res), NEW s0, Follows(sent[p], s0),
           GoOn(p, res, s0), UNCHANGED <<server, device, halted>>,
           refused' \in SUBSET Pages
    PROVE  TypeInv'
<1>1. res.w \in Called /\ s0 \in Queues
  BY DEF Outcome, Follows
<1>2. page' = [page EXCEPT ![p] = res.w] /\ sent' = [sent EXCEPT ![p] = s0 \o res.requests]
  BY DEF GoOn
<1>3. /\ s0 \o res.requests \in Queues
      /\ \A m \in Nat : First(s0, m) =>
            First(s0 \o res.requests, m) /\ (s0 \o res.requests)[m].op = s0[m].op
  <2>1. CASE res.requests = <<>>
    <3>1. s0 \o res.requests = s0
      BY <1>1, <2>1 DEF Queues
    <3> QED
      BY <1>1, <3>1
  <2>2. CASE res.requests # <<>>
    <3>1. PICK r \in Fresh : res.requests = <<r>>
      BY <2>2 DEF Outcome
    <3> DEFINE u == s0 \o <<r>>
    <3>2. /\ u \in Queues
          /\ \A i \in DOMAIN s0 : u[i] = s0[i]
          /\ \A m \in Nat : First(s0, m) => First(u, m)
      BY <1>1, PushQueue
    <3>3. s0 \o res.requests = u
      BY <3>1
    <3> HIDE DEF u
    <3>4. ASSUME NEW m \in Nat, First(s0, m)
          PROVE  First(u, m) /\ u[m].op = s0[m].op
      BY <3>2, <3>4 DEF First
    <3> QED
      BY <3>2, <3>3, <3>4
  <2> QED
    BY <2>1, <2>2
<1> DEFINE t == s0 \o res.requests
<1> HIDE DEF t
<1>4. /\ page' \in [Pages -> Called \cup {Unloaded}]
      /\ sent' \in [Pages -> Queues]
      /\ \A q \in Pages \ {p} : page'[q] = page[q] /\ sent'[q] = sent[q]
      /\ page'[p] = res.w /\ sent'[p] = t
  BY <1>1, <1>2, <1>3 DEF TypeInv, t
<1>5. \A q \in Pages : page'[q] = Unloaded => sent'[q] = <<>>
  BY <1>1, <1>4, UnloadedTyped DEF TypeInv
<1>6. Occupied'
  <2> SUFFICES ASSUME server # Nobody
               PROVE  \E m \in Nat : First(sent'[server], m)
                                     /\ sent'[server][m].op = "scan_start"
    BY DEF TypeInv, Occupied
  <2>1. PICK m \in Nat : First(sent[server], m) /\ sent[server][m].op = "scan_start"
    BY DEF TypeInv, Occupied
  <2>2. server \in Pages
    BY DEF TypeInv
  <2>3. CASE server # p
    BY <1>4, <2>1, <2>2, <2>3
  <2>4. CASE server = p
    <3>1. PICK k \in Nat : First(s0, k) /\ s0[k].op = "scan_start"
      BY <2>1, <2>4 DEF Follows
    <3> QED
      BY <1>3, <1>4, <2>4, <3>1 DEF t
  <2> QED
    BY <2>3, <2>4
<1> QED
  BY <1>4, <1>5, <1>6 DEF TypeInv

LEMMA QueueStays ==
    ASSUME NEW s \in Queues
    PROVE  Follows(s, s)
  BY DEF Follows

\* A window whose script has run once has a callback.
LEMMA ShownIsCalled ==
    ASSUME TypeInv, NEW p \in Pages,
           sent[p] # <<>> \/ page[p].shown # "none" \/ page[p].timer # {}
    PROVE  page[p] \in Called
<1>1. Unloaded.shown = "none" /\ Unloaded.timer = {}
  BY DEF Unloaded
<1> QED
  BY <1>1 DEF TypeInv

LEMMA LoadTyped ==
    ASSUME TypeInv, NEW p \in Pages, Load(p)
    PROVE  TypeInv'
<1> DEFINE w == [Unloaded EXCEPT !.shown = "scanning"]
<1>1. [w EXCEPT !.provState = "INITIALIZING"] \in Windows
  <2>1. "INITIALIZING" \in States /\ "scanning" \in Shown
    BY DEF States, Shown
  <2> QED
    BY <2>1, UnloadedTyped DEF Windows
<1>2. "session" \in Operations
  BY DEF Operations
<1>3. Outcome(requestSec0Session(w))
  BY <1>1, <1>2, AskOutcome DEF requestSec0Session
<1>4. Follows(sent[p], Forget(Unanswered(p)))
  <2>1. sent[p] \in Queues
    BY DEF TypeInv
  <2> QED
    BY <2>1, ForgetQueue DEF Follows
<1> QED
  BY <1>3, <1>4, GoOnTyped DEF Load, DeviceUnchanged, TypeInv

LEMMA ButtonsTyped ==
    ASSUME TypeInv, NEW p \in Pages,
           Rescan(p) \/ GoBack(p) \/ \E fits \in BOOLEAN : ApplyButton(p, fits)
    PROVE  TypeInv'
<1>1. page[p] \in Called
  BY ShownIsCalled DEF Rescan, GoBack, ApplyButton
<1>2. Follows(sent[p], sent[p])
  BY QueueStays DEF TypeInv
<1>3. refused \ {p} \in SUBSET Pages
  BY DEF TypeInv
<1>4. CASE Rescan(p) \/ GoBack(p)
  BY <1>1, <1>2, <1>3, <1>4, startScanOutcome, GoOnTyped
     DEF Rescan, GoBack, DeviceUnchanged
<1>5. CASE \E fits \in BOOLEAN : ApplyButton(p, fits)
  BY <1>1, <1>2, <1>3, <1>5, setConfigOutcome, GoOnTyped
     DEF ApplyButton, DeviceUnchanged
<1> QED
  BY <1>4, <1>5

LEMMA HandleResponseTyped ==
    ASSUME TypeInv, NEW p \in Pages, HandleResponse(p)
    PROVE  TypeInv'
<1> DEFINE s == sent[p]
           reply == Head(s).reply
<1>1. s \in Queues /\ s # <<>> /\ reply # Pending
  BY DEF TypeInv, HandleResponse
<1>2. page[p] \in Called
  BY <1>1, ShownIsCalled
<1>3. reply \in Answers
  <2>1. Head(s) \in Requests
    BY <1>1 DEF Queues
  <2> QED
    BY <1>1, <2>1 DEF Requests, RequestFields
<1>4. Outcome(handleProtocommResponse(page[p], reply))
  BY <1>2, <1>3, ResponseOutcome
<1>5. Follows(s, Tail(s))
  <2>1. /\ Tail(s) \in Queues
        /\ \A i \in DOMAIN Tail(s) : Tail(s)[i] = s[i + 1]
        /\ \A m \in Nat : First(s, m) => m >= 2 /\ First(Tail(s), m - 1)
    BY <1>1, PopQueue
  <2>2. ASSUME NEW m \in Nat, First(s, m)
        PROVE  m - 1 \in Nat /\ First(Tail(s), m - 1) /\ Tail(s)[m - 1].op = s[m].op
    <3>1. First(Tail(s), m - 1) /\ m >= 2
      BY <2>1, <2>2
    <3>2. m - 1 \in DOMAIN Tail(s) /\ (m - 1) + 1 = m
      BY <3>1 DEF First
    <3> QED
      BY <2>1, <3>1, <3>2
  <2> QED
    BY <2>1, <2>2 DEF Follows
<1>6. refused' \in SUBSET Pages
  BY DEF HandleResponse, TypeInv
<1> QED
  BY <1>4, <1>5, <1>6, GoOnTyped DEF HandleResponse, DeviceUnchanged

LEMMA TimerFiresTyped ==
    ASSUME TypeInv, NEW p \in Pages, NEW timer \in Timers, TimerFires(p, timer)
    PROVE  TypeInv'
<1> DEFINE w == [page[p] EXCEPT !.timer = @ \ {timer}]
<1>1. page[p] \in Called
  BY ShownIsCalled DEF TimerFires
<1>2. w \in Windows
  BY <1>1 DEF Called, Windows
<1>3. {"scan_status", "get_status", "homepage"} \subseteq Operations
  BY DEF Operations, ConfigOps, ScanOps, Json
<1>4. /\ Outcome(getScanStatus(w)) /\ Outcome(getConfigStatus(w))
      /\ Outcome(getHomepageUrl(w))
  BY <1>2, <1>3, AskOutcome DEF getScanStatus, getConfigStatus, getHomepageUrl
<1>5. Follows(sent[p], sent[p])
  BY QueueStays DEF TypeInv
<1> HIDE DEF w
<1>6. PICK res : Outcome(res) /\ GoOn(p, res, sent[p])
  BY <1>4 DEF TimerFires, Timers, w
<1> QED
  BY <1>5, <1>6, GoOnTyped DEF TimerFires, DeviceUnchanged, TypeInv

LEMMA RequestTimeoutTyped ==
    ASSUME TypeInv, NEW p \in Pages, RequestTimeout(p)
    PROVE  TypeInv'
<1>1. PICK i \in DOMAIN sent[p] :
        /\ sent[p][i].reply = Pending
        /\ GoOn(p, Then(updateUIServiceUnavailable(page[p]), <<>>),
                [sent[p] EXCEPT ![i].live = FALSE])
  BY DEF RequestTimeout
<1>2. sent[p] \in Queues /\ sent[p] # <<>>
  BY <1>1 DEF TypeInv
<1>3. page[p] \in Called
  BY <1>2, ShownIsCalled
<1>4. Outcome(Then(updateUIServiceUnavailable(page[p]), <<>>))
  <2>1. updateUIServiceUnavailable(page[p]) \in Called
    BY <1>3 DEF updateUIServiceUnavailable, Called, Windows, Shown, States
  <2> QED
    BY <2>1, ThenOutcome
<1>5. Follows(sent[p], [sent[p] EXCEPT ![i].live = FALSE])
  <2> DEFINE s == sent[p]
             t == [s EXCEPT ![i].live = FALSE]
  <2>1. /\ t \in Queues
        /\ t[i] = [s[i] EXCEPT !.live = FALSE]
        /\ \A j \in DOMAIN s \ {i} : t[j] = s[j]
        /\ \A m \in Nat : First(s, m) => First(t, m)
    BY <1>1, <1>2, MuteQueue
  <2>2. s[i] \in RequestFields
    BY <1>1, <1>2 DEF Queues, Requests
  <2> HIDE DEF t
  <2>3. \A m \in DOMAIN s : t[m].op = s[m].op
    BY <2>1, <2>2 DEF RequestFields
  <2> QED
    BY <2>1, <2>3 DEF Follows, First, t
<1> QED
  BY <1>1, <1>4, <1>5, GoOnTyped DEF RequestTimeout, DeviceUnchanged, TypeInv

-----------------------------------------------------------------------------
\* The server's answers.

LEMMA ReplyTyped ==
    ASSUME NEW http \in {200, 405, 500, Unheard}, NEW op \in Operations, NEW ok \in BOOLEAN
    PROVE  Reply(http, op, ok) \in AnswerFields
<1>1. "CONNECTING" \in WifiStates /\ <<>> \in Seq(Network) /\ {} \in SUBSET Memory
      /\ 0 \in Nat
  BY DEF WifiStates
<1> QED
  BY <1>1 DEF Reply, AnswerFields

\* The reply that a command has made, and what an answer keeps of it.
Fitting(op, reply) ==
    /\ reply \in AnswerFields /\ reply.http = 200 /\ reply.op = op
    /\ op = "scan_status" => reply.finished
    /\ reply.count <= MaxFound

Says(a, op, k, reply) ==
    /\ a.op = op
    /\ k = 0 => a = [reply EXCEPT !.left = {}]
    /\ k # 0 => ~a.ok /\ a.http \in {500, Unheard} /\ a.entries = <<>>

\* What serving a request of a command of the device comes to: if no allocation
\* fails, the reply, and nothing is left; else an error.
LEMMA RespondAnswers ==
    ASSUME TypeInv, NEW p \in Pages, NEW op \in ConfigOps \cup ScanOps, NEW n \in Nat,
           NEW k \in Failing(op, n), NEW reply, k = 0 => Fitting(op, reply),
           Respond(p, op, n, k, reply)
    PROVE  \E a \in Answers : Answer(p, a) /\ Says(a, op, k, reply)
<1> DEFINE left == Left(op, n, StationConnected, k)
<1>1. StationConnected \in BOOLEAN
  BY DEF StationConnected
<1>2. CASE k = 0
  <2>1. left = {}
    BY <1>1, <1>2, CleanupComplete
  <2> DEFINE a == [reply EXCEPT !.left = {}]
  <2>2. Answer(p, a)
    BY <1>2, <2>1 DEF Respond
  <2>3. a \in AnswerFields /\ a.op = op /\ a.http = 200 /\ a.left = {}
        /\ a.finished = reply.finished /\ a.count = reply.count
    BY <1>2 DEF AnswerFields, Fitting
  <2> HIDE DEF a
  <2>4. a \in Answers
    BY <1>2, <2>3 DEF Answers, Unheard, Fitting
  <2>5. Says(a, op, k, reply)
    BY <1>2, <2>3 DEF a, Says
  <2> QED
    BY <2>2, <2>4, <2>5
<1>3. CASE k # 0
  <2>1. PICK http \in {500, Unheard} :
            Answer(p, [Reply(http, op, FALSE) EXCEPT !.left = left])
    BY <1>3 DEF Respond
  <2>2. "memory" \in MayFail /\ left \in SUBSET Memory
    BY <1>1, <1>3, LeftTyped DEF Failing
  <2> DEFINE r == Reply(http, op, FALSE)
             a == [r EXCEPT !.left = left]
  <2>3. r \in AnswerFields /\ r.http = http /\ r.op = op /\ ~r.ok /\ r.entries = <<>>
        /\ r.count = 0
    <3>1. op \in Operations /\ http \in {200, 405, 500, Unheard} /\ FALSE \in BOOLEAN
      BY DEF Operations
    <3>2. r \in AnswerFields
      <4>1. ASSUME NEW ok \in BOOLEAN
            PROVE  Reply(http, op, ok) \in AnswerFields
        BY <3>1, ReplyTyped
      <4> QED
        BY <4>1
    <3> QED
      BY <3>2 DEF Reply
  <2> HIDE DEF r, left
  <2>4. a \in AnswerFields /\ a.http = http /\ a.op = op /\ ~a.ok /\ a.entries = <<>>
        /\ a.count = 0
    BY <2>2, <2>3 DEF AnswerFields
  <2>5. Answer(p, a)
    BY <2>1 DEF r, left
  <2> HIDE DEF a
  <2>6. a \in Answers
    BY <2>2, <2>4, PageSizes DEF Answers
  <2>7. Says(a, op, k, reply)
    BY <1>3, <2>4 DEF Says
  <2> QED
    BY <2>5, <2>6, <2>7
<1> QED
  BY <1>2, <1>3

\* A request that nothing of the device is needed for.
LEMMA PlainAnswer ==
    ASSUME NEW op \in Operations \ {"scan_status"}, NEW ok \in BOOLEAN
    PROVE  Reply(200, op, ok) \in Answers
<1> DEFINE r == Reply(200, op, ok)
<1>1. r \in AnswerFields
  BY ReplyTyped
<1>2. r.http = 200 /\ r.left = {} /\ r.count = 0 /\ r.op = op
  BY DEF Reply
<1> HIDE DEF r
<1>3. r \in Answers
  BY <1>1, <1>2, PageSizes DEF Answers, Unheard
<1> QED
  BY <1>3 DEF r

\* What an answer a to the m-th request of window p says is so.
True(p, m, a) ==
    LET r == sent[p][m]
    IN  /\ a.op = r.op
        /\ Len(a.entries) <= r.n
        /\ a.ok /\ a.op = "scan_status" => a.count = Len(device.found)
        /\ a.ok /\ a.op = "scan_result" =>
                /\ r.from + r.n <= Len(device.found) \/ r.n = 0
                /\ a.entries = SubSeq(device.found, r.from + 1, r.from + r.n)
        /\ a.ok /\ a.op = "get_status" => a.wifi = device.wifi
        /\ a.http = 405 => device.prov = "GONE"

\* What an operation that is answered with a does to the session.
Moves(op, a) ==
    \/ /\ device'.prov = device.prov /\ device'.wifi = device.wifi
       /\ device'.timers = device.timers
       /\ op = "apply_config" => ~a.ok
    \/ /\ op = "apply_config" /\ device.prov = "STARTED"
       /\ device'.prov = "CRED_RECV" /\ device'.wifi = "CONNECTING"
       /\ device'.timers = device.timers
    \/ /\ op \in DOMAIN TimerOf
       /\ device'.prov = device.prov /\ device'.wifi = device.wifi
       /\ device'.timers = device.timers \cup {TimerOf[op]}

\* The server has answered window p.
Answering(p) ==
    /\ server' = Nobody
    /\ ~device.scanning /\ ~device'.scanning /\ device'.found = device.found
    /\ device.prov = "GONE" => device'.prov = "GONE"
    /\ device' \in Devices
    /\ halted' = halted
    /\ \E m \in Nat, a \in Answers :
            First(sent[p], m) /\ True(p, m, a) /\ Moves(sent[p][m].op, a) /\ Answer(p, a)

LEMMA AnsweringTyped ==
    ASSUME TypeInv, NEW p \in Pages, Answering(p)
    PROVE  TypeInv'
<1>1. PICK m \in Nat, a \in Answers : First(sent[p], m) /\ True(p, m, a) /\ Answer(p, a)
  BY DEF Answering
<1>2. sent' = [sent EXCEPT ![p] = sent'[p]] /\ sent'[p] \in Queues
  BY <1>1, AnswerQueue DEF TypeInv, True
<1>3. UNCHANGED <<page, refused>>
  BY <1>1 DEF Answer
<1>4. page[p] # Unloaded
  BY <1>1 DEF TypeInv, First
<1>5. sent' \in [Pages -> Queues] /\ \A q \in Pages : page'[q] = Unloaded => sent'[q] = <<>>
  BY <1>2, <1>3, <1>4 DEF TypeInv
<1> QED
  BY <1>3, <1>5 DEF TypeInv, Answering, Occupied

\* The request that is served is the first without an answer.
LEMMA ServedFirst ==
    ASSUME TypeInv, NEW p \in Pages, Waiting(p) # {}
    PROVE  \E m \in Nat :
              /\ First(sent[p], m) /\ Served(p) = sent[p][m] /\ sent[p][m] \in Requests
              /\ sent[p][m].op \in Operations /\ sent[p][m].from \in Nat
              /\ sent[p][m].n \in Nat
<1> DEFINE m == Min(Waiting(p))
<1>1. sent[p] \in Queues
  BY DEF TypeInv
<1>2. First(sent[p], m)
  BY <1>1, FirstWaiting
<1>3. m \in Nat /\ sent[p][m] \in Requests
  BY <1>1, <1>2 DEF First, Queues
<1>4. sent[p][m].op \in Operations /\ sent[p][m].from \in Nat /\ sent[p][m].n \in Nat
  BY <1>3 DEF Requests, RequestFields
<1> HIDE DEF m
<1>5. Served(p) = sent[p][m]
  BY DEF Served, m
<1> QED
  BY <1>2, <1>3, <1>4, <1>5

\* While the server is free there is no scan.
LEMMA FreeNoScan ==
    ASSUME TypeInv, server = Nobody
    PROVE  ~device.scanning
  BY DEF TypeInv, Occupied

\* Most operations do nothing to it.
LEMMA NothingMoves ==
    ASSUME device' = device, NEW op, op # "apply_config"
    PROVE  \A a : Moves(op, a)
  BY DEF Moves

LEMMA ServeNothingAnswers ==
    ASSUME TypeInv, NEW p \in Pages, ServeNothing(p)
    PROVE  Answering(p)
<1>1. Waiting(p) # {} /\ server = Nobody
  BY DEF ServeNothing, Serving
<1>2. PICK m \in Nat : /\ First(sent[p], m) /\ Served(p) = sent[p][m]
                       /\ sent[p][m].op \in Operations /\ sent[p][m].n \in Nat
  BY <1>1, ServedFirst
<1> DEFINE op == sent[p][m].op
           a == Reply(405, op, FALSE)
<1>3. a \in Answers /\ a.op = op /\ a.entries = <<>> /\ ~a.ok
  <2>1. ASSUME NEW ok \in BOOLEAN
        PROVE  Reply(405, op, ok) \in AnswerFields
    BY <1>2, ReplyTyped
  <2>2. a \in AnswerFields
    BY <2>1
  <2>3. a.http = 405 /\ a.op = op /\ a.entries = <<>> /\ ~a.ok /\ a.count = 0
    BY DEF Reply
  <2> HIDE DEF a
  <2> QED
    BY <2>2, <2>3, PageSizes DEF Answers, Unheard
<1>4. Answer(p, a)
  BY <1>2 DEF ServeNothing
<1> HIDE DEF a
<1>5. True(p, m, a)
  <2>1. Len(a.entries) = 0
    BY <1>3
  <2> QED
    BY <1>2, <1>3, <2>1 DEF True, ServeNothing
<1>6. Moves(op, a)
  BY <1>3 DEF Moves, ServeNothing
<1> QED
  BY <1>1, <1>2, <1>3, <1>4, <1>5, <1>6, FreeNoScan DEF Answering, ServeNothing, TypeInv

LEMMA ServeSessionAnswers ==
    ASSUME TypeInv, NEW p \in Pages, ServeSession(p)
    PROVE  Answering(p)
<1>1. Waiting(p) # {} /\ server = Nobody /\ Served(p).op = "session"
  BY DEF ServeSession, Requested, Serving
<1>2. PICK m \in Nat : First(sent[p], m) /\ sent[p][m].op = "session" /\ sent[p][m].n \in Nat
  BY <1>1, ServedFirst
<1> DEFINE a == Grant("session")
<1>3. a \in Answers
  <2>1. "session" \in Operations \ {"scan_status"}
    BY DEF Operations
  <2>2. ASSUME NEW ok \in BOOLEAN
        PROVE  Reply(200, "session", ok) \in Answers
    BY <2>1, PlainAnswer
  <2> QED
    BY <2>2 DEF Grant
<1>4. a.op = "session" /\ Len(a.entries) = 0 /\ a.http = 200
  BY DEF Grant, Reply
<1> HIDE DEF a
<1>5. True(p, m, a)
  BY <1>2, <1>4 DEF True
<1>6. Answer(p, a)
  BY DEF ServeSession, a
<1>7. Moves("session", a)
  BY NothingMoves DEF ServeSession
<1> QED
  BY <1>1, <1>2, <1>3, <1>5, <1>6, <1>7, FreeNoScan DEF Answering, ServeSession, TypeInv

LEMMA ServeCustomAnswers ==
    ASSUME TypeInv, NEW p \in Pages, ServeCustom(p)
    PROVE  Answering(p)
<1>1. Waiting(p) # {} /\ server = Nobody /\ Served(p).op \in Json
  BY DEF ServeCustom, Requested, Serving
<1>2. PICK m \in Nat : First(sent[p], m) /\ sent[p][m].op \in Json /\ sent[p][m].n \in Nat
                       /\ Served(p) = sent[p][m]
  BY <1>1, ServedFirst
<1> DEFINE op == sent[p][m].op
           ok == op \in DOMAIN TimerOf => TimerOf[op] \notin device.timers
           a == Reply(200, op, ok)
<1>3. a \in Answers
  <2>1. op \in Operations \ {"scan_status"}
    BY <1>2 DEF Operations, Json
  <2>2. ASSUME NEW b \in BOOLEAN
        PROVE  Reply(200, op, b) \in Answers
    BY <2>1, PlainAnswer
  <2>3. ok \in BOOLEAN
    OBVIOUS
  <2> HIDE DEF ok
  <2> QED
    BY <2>2, <2>3
<1>4. a.op = op /\ Len(a.entries) = 0 /\ a.http = 200
  BY DEF Reply
<1>5. Answer(p, a)
  BY <1>2 DEF ServeCustom
<1> HIDE DEF a
<1>6. True(p, m, a)
  BY <1>2, <1>4 DEF True, Json
<1>7. /\ device' \in Devices /\ device'.found = device.found
      /\ device'.scanning = device.scanning /\ device'.prov = device.prov
      /\ Moves(op, a)
  <2>1. device \in Devices
    BY DEF TypeInv
  <2>2. CASE op \in DOMAIN TimerOf
    <3>1. device' = [device EXCEPT !.timers = @ \cup {TimerOf[op]}]
      BY <1>2, <2>2 DEF ServeCustom
    <3>2. TimerOf[op] \in {"reset", "stage1"}
      BY <2>2 DEF TimerOf
    <3> QED
      BY <2>1, <2>2, <3>1, <3>2 DEF Devices, Moves
  <2>3. CASE op \notin DOMAIN TimerOf
    <3>1. device' = device
      BY <1>2, <2>3 DEF ServeCustom
    <3> QED
      BY <1>2, <2>1, <3>1, NothingMoves DEF Json
  <2> QED
    BY <2>2, <2>3
<1> QED
  BY <1>1, <1>2, <1>3, <1>5, <1>6, <1>7, FreeNoScan DEF Answering, ServeCustom

\* An error says nothing.
LEMMA ErrorTrue ==
    ASSUME NEW p, NEW m, NEW a, sent[p][m].n \in Nat, a.op = sent[p][m].op, ~a.ok,
           a.http \in {500, Unheard}, a.entries = <<>>
    PROVE  True(p, m, a)
<1>1. a.http # 405 /\ Len(a.entries) = 0
  BY DEF Unheard
<1> QED
  BY <1>1 DEF True

\* The reply to the m-th request of p, with what was allocated still to be given
\* back.
Sound(p, m, reply) ==
    /\ reply \in AnswerFields /\ reply.http = 200 /\ reply.op = sent[p][m].op
    /\ reply.op = "scan_status" => reply.finished
    /\ reply.count <= MaxFound
    /\ True(p, m, reply)

\* A request to a command is served: if no allocation fails, its answer is sound.
LEMMA CommandAnswers ==
    ASSUME TypeInv, NEW p \in Pages, NEW m \in Nat, First(sent[p], m),
           NEW op \in ConfigOps \cup ScanOps, op = sent[p][m].op, sent[p][m].n \in Nat,
           NEW n \in Nat, NEW k \in Failing(op, n), NEW reply,
           Respond(p, op, n, k, reply), k = 0 => Sound(p, m, reply)
    PROVE  \E a \in Answers : /\ True(p, m, a) /\ Answer(p, a)
                              /\ a.ok => k = 0 /\ reply.ok
<1>1. PICK a \in Answers : Answer(p, a) /\ Says(a, op, k, reply)
  <2>1. k = 0 => Fitting(op, reply)
    BY DEF Sound, Fitting
  <2> QED
    BY <2>1, RespondAnswers
<1>2. CASE k = 0
  <2>1. /\ a.ok = reply.ok /\ a.entries = reply.entries /\ a.op = reply.op
        /\ a.count = reply.count /\ a.http = reply.http /\ a.wifi = reply.wifi
    BY <1>1, <1>2 DEF AnswerFields, Sound, Says
  <2>2. True(p, m, a)
    BY <1>2, <2>1 DEF True, Sound
  <2> QED
    BY <1>1, <1>2, <2>1, <2>2
<1>3. CASE k # 0
  BY <1>1, <1>3, ErrorTrue DEF Says
<1> QED
  BY <1>2, <1>3

\* The reply that a command starts from.
LEMMA GrantTyped ==
    ASSUME NEW op \in Operations
    PROVE  /\ Grant(op) \in AnswerFields
           /\ Grant(op).http = 200 /\ Grant(op).op = op /\ Grant(op).count = 0
           /\ Grant(op).entries = <<>> /\ Len(Grant(op).entries) = 0
<1>1. ASSUME NEW ok \in BOOLEAN
      PROVE  Reply(200, op, ok) \in AnswerFields
  BY ReplyTyped
<1>2. Grant(op) \in AnswerFields
  BY <1>1 DEF Grant
<1> QED
  BY <1>2 DEF Grant, Reply

LEMMA CommandsAreOperations == ConfigOps \cup ScanOps \subseteq Operations
  BY DEF Operations

LEMMA ScanReturnsAnswers ==
    ASSUME TypeInv, NEW p \in Pages, ScanReturns(p)
    PROVE  Answering(p)
<1>1. server = p /\ p # Nobody
  BY PageSizes DEF ScanReturns
<1>2. PICK m \in Nat : First(sent[p], m) /\ sent[p][m].op = "scan_start"
  BY <1>1 DEF TypeInv, Occupied
<1>3. sent[p][m].n \in Nat
  <2>1. sent[p][m] \in Requests
    BY <1>2 DEF TypeInv, Queues, First
  <2> QED
    BY <2>1 DEF Requests, RequestFields
<1>4. "scan_start" \in ConfigOps \cup ScanOps /\ "scan_start" \in Operations
  BY DEF ScanOps, Operations
<1>5. PICK k \in Failing("scan_start", 0) :
            Respond(p, "scan_start", 0, k, Grant("scan_start"))
  BY DEF ScanReturns
<1> DEFINE reply == Grant("scan_start")
<1>6. reply \in AnswerFields /\ reply.http = 200 /\ reply.op = "scan_start"
      /\ reply.count <= MaxFound /\ Len(reply.entries) = 0
  BY <1>4, GrantTyped, PageSizes
<1> HIDE DEF reply
<1>7. Sound(p, m, reply)
  BY <1>2, <1>3, <1>6 DEF True, Sound
<1>8. \E a \in Answers : True(p, m, a) /\ Answer(p, a)
  BY <1>2, <1>3, <1>4, <1>5, <1>7, CommandAnswers DEF reply
<1>9. \A a : Moves("scan_start", a)
  BY NothingMoves DEF ScanReturns
<1> QED
  BY <1>2, <1>8, <1>9 DEF Answering, ScanReturns, TypeInv

LEMMA ServeScanStatusAnswers ==
    ASSUME TypeInv, NEW p \in Pages, ServeScanStatus(p)
    PROVE  Answering(p)
<1>1. Waiting(p) # {} /\ server = Nobody /\ Served(p).op = "scan_status"
  BY DEF ServeScanStatus, Requested, Serving
<1>2. PICK m \in Nat : First(sent[p], m) /\ sent[p][m].op = "scan_status"
                       /\ sent[p][m].n \in Nat
  BY <1>1, ServedFirst
<1>3. "scan_status" \in ConfigOps \cup ScanOps /\ "scan_status" \in Operations
  BY DEF ScanOps, Operations
<1> DEFINE grant == Grant("scan_status")
           done == ~device.scanning
           reply == [grant EXCEPT !.finished = done, !.count = Len(device.found)]
<1>4. PICK k \in Failing("scan_status", 0) : Respond(p, "scan_status", 0, k, reply)
  BY DEF ServeScanStatus
<1>5. grant \in AnswerFields /\ grant.http = 200 /\ grant.op = "scan_status"
      /\ Len(grant.entries) = 0
  BY <1>3, GrantTyped
<1>6. done /\ done \in BOOLEAN /\ Len(device.found) \in Nat
      /\ Len(device.found) <= MaxFound
  BY <1>1, FreeNoScan DEF TypeInv, Devices
<1> HIDE DEF grant, done
<1>7. /\ reply \in AnswerFields /\ reply.http = 200 /\ reply.op = "scan_status"
      /\ reply.finished /\ reply.count = Len(device.found) /\ Len(reply.entries) = 0
  <2>1. reply \in AnswerFields
    <3>1. ASSUME NEW g \in AnswerFields, NEW b \in BOOLEAN, NEW n \in Nat
          PROVE  [g EXCEPT !.finished = b, !.count = n] \in AnswerFields
      BY DEF AnswerFields
    <3> QED
      BY <1>5, <1>6, <3>1
  <2>2. reply.http = 200 /\ reply.op = "scan_status" /\ reply.count = Len(device.found)
        /\ reply.entries = grant.entries
    BY <1>5, <1>6 DEF AnswerFields
  <2>3. reply.finished = done
    BY <1>5 DEF AnswerFields
  <2> QED
    BY <1>5, <1>6, <2>1, <2>2, <2>3
<1> HIDE DEF reply
<1>8. Sound(p, m, reply)
  BY <1>2, <1>6, <1>7 DEF True, Sound
<1>9. \E a \in Answers : True(p, m, a) /\ Answer(p, a)
  BY <1>2, <1>3, <1>4, <1>8, CommandAnswers
<1>10. \A a : Moves("scan_status", a)
  BY NothingMoves DEF ServeScanStatus
<1> QED
  BY <1>1, <1>2, <1>9, <1>10, FreeNoScan DEF Answering, ServeScanStatus, TypeInv

LEMMA ServeGetStatusAnswers ==
    ASSUME TypeInv, NEW p \in Pages, ServeGetStatus(p)
    PROVE  Answering(p)
<1>1. Waiting(p) # {} /\ server = Nobody /\ Served(p).op = "get_status"
  BY DEF ServeGetStatus, Requested, Serving
<1>2. PICK m \in Nat : First(sent[p], m) /\ sent[p][m].op = "get_status"
                       /\ sent[p][m].n \in Nat
  BY <1>1, ServedFirst
<1>3. "get_status" \in ConfigOps \cup ScanOps /\ "get_status" \in Operations
  BY DEF ConfigOps, Operations
<1> DEFINE grant == Grant("get_status")
           reply == [grant EXCEPT !.wifi = device.wifi]
<1>4. PICK k \in Failing("get_status", 0) : Respond(p, "get_status", 0, k, reply)
  BY DEF ServeGetStatus
<1>5. grant \in AnswerFields /\ grant.http = 200 /\ grant.op = "get_status"
      /\ Len(grant.entries) = 0 /\ grant.count = 0
  BY <1>3, GrantTyped
<1>6. ~device.scanning /\ device.wifi \in WifiStates
  BY <1>1, FreeNoScan DEF TypeInv, Devices
<1> HIDE DEF grant
<1>7. /\ reply \in AnswerFields /\ reply.http = 200 /\ reply.op = "get_status"
      /\ Len(reply.entries) = 0 /\ reply.count <= MaxFound /\ reply.wifi = device.wifi
  BY <1>5, <1>6, PageSizes DEF AnswerFields
<1> HIDE DEF reply
<1>8. Sound(p, m, reply)
  BY <1>2, <1>7 DEF True, Sound
<1>9. \E a \in Answers : True(p, m, a) /\ Answer(p, a)
  BY <1>2, <1>3, <1>4, <1>8, CommandAnswers
<1>10. \A a : Moves("get_status", a)
  BY NothingMoves DEF ServeGetStatus
<1> QED
  BY <1>1, <1>2, <1>6, <1>9, <1>10 DEF Answering, ServeGetStatus, TypeInv

\* The server takes a scan, or has no memory for it.
LEMMA ServeScanStartTyped ==
    ASSUME TypeInv, NEW p \in Pages, ServeScanStart(p)
    PROVE  \/ Answering(p)
           \/ /\ server = Nobody /\ server' = p
              /\ \E m \in Nat : First(sent[p], m) /\ sent[p][m].op = "scan_start"
              /\ UNCHANGED <<page, sent, refused>>
              /\ halted' \in {halted, "lock"}
              /\ device' = device \/ device' = BeginScan
              /\ device.prov # "GONE"
<1>1. Waiting(p) # {} /\ server = Nobody /\ Served(p).op = "scan_start"
      /\ device.prov # "GONE"
  BY DEF ServeScanStart, Requested, Serving
<1>2. PICK m \in Nat : First(sent[p], m) /\ sent[p][m].op = "scan_start"
                       /\ sent[p][m].n \in Nat
  BY <1>1, ServedFirst
<1>3. "scan_start" \in ConfigOps \cup ScanOps
  BY DEF ScanOps
<1>4. CASE /\ 1 \in Failing("scan_start", 0)
           /\ Respond(p, "scan_start", 0, 1, Grant("scan_start"))
           /\ UNCHANGED <<server, device, halted>>
  <2>1. \E a \in Answers : True(p, m, a) /\ Answer(p, a)
    <3>1. ASSUME NEW k \in Failing("scan_start", 0), k # 0, NEW reply,
                 Respond(p, "scan_start", 0, k, reply)
          PROVE  \E a \in Answers : True(p, m, a) /\ Answer(p, a)
      BY <1>2, <1>3, <3>1, CommandAnswers
    <3> QED
      BY <1>4, <3>1
  <2>2. \A a : Moves("scan_start", a)
    BY <1>4, NothingMoves
  <2> QED
    BY <1>1, <1>2, <1>4, <2>1, <2>2, FreeNoScan DEF Answering, TypeInv
<1>5. CASE /\ \E refuses \in {b \in BOOLEAN : b => device.prov = "CRED_RECV" \/ device.listens} :
                /\ halted' = IF refuses THEN "lock" ELSE halted
                /\ device' = IF refuses THEN device ELSE BeginScan
           /\ server' = p
           /\ UNCHANGED <<page, sent, refused>>
  BY <1>1, <1>2, <1>5
<1> QED
  BY <1>4, <1>5 DEF ServeScanStart

LEMMA BeginScanTyped ==
    ASSUME TypeInv
    PROVE  /\ BeginScan \in Devices /\ BeginScan.found = <<>> /\ BeginScan.scanning
           /\ BeginScan.prov = device.prov /\ Len(BeginScan.found) <= MaxFound
<1>1. device \in Devices /\ <<>> \in Seq(Network) /\ Len(<<>>) = 0
  BY DEF TypeInv
<1>2. 1 - device.scan \in {0, 1} /\ 0 <= MaxFound
  BY <1>1, PageSizes DEF Devices
<1>3. BeginScan \in Devices
  BY <1>1, <1>2 DEF Devices, BeginScan
<1>4. BeginScan.found = <<>> /\ BeginScan.scanning /\ BeginScan.prov = device.prov
  BY <1>1 DEF Devices, BeginScan
<1> QED
  BY <1>1, <1>2, <1>3, <1>4

\* How many entries there are from the one with the number from on.
LEMMA EntriesFrom ==
    ASSUME NEW L \in Nat, NEW from \in Nat
    PROVE  Cardinality({i \in 1 .. L : i > from}) = IF from < L THEN L - from ELSE 0
<1>1. {i \in 1 .. L : i > from} = (from + 1) .. L
  OBVIOUS
<1>2. Cardinality((from + 1) .. L) = IF from + 1 > L THEN 0 ELSE L - (from + 1) + 1
  BY FS_Interval
<1>3. Cardinality({i \in 1 .. L : i > from}) = Cardinality((from + 1) .. L)
  BY <1>1, Zenon
<1> QED
  BY <1>2, <1>3

LEMMA ThereLeast ==
    ASSUME NEW n \in Nat, NEW from \in Nat, NEW L \in Nat, NEW c,
           c = IF from < L THEN L - from ELSE 0
    PROVE  /\ Least(n, c) \in Nat /\ Least(n, c) <= n
           /\ Least(n, c) < n <=> n > 0 /\ from + n > L
  BY DEF Least

\* A part of a list that is there has the length that was asked for.
LEMMA PartOf ==
    ASSUME NEW s \in Seq(Network), NEW from \in Nat, NEW n \in Nat,
           n = 0 \/ from + n <= Len(s)
    PROVE  LET part == SubSeq(s, from + 1, from + n)
           IN  part \in Seq(Network) /\ Len(part) <= n
<1> DEFINE part == SubSeq(s, from + 1, from + n)
<1>1. CASE n = 0
  <2>1. from + n < from + 1
    BY <1>1
  <2>2. part = <<>>
    BY <1>1, <2>1, SubSeqEmpty
  <2> HIDE DEF part
  <2>3. part \in Seq(Network) /\ Len(part) = 0
    BY <2>2
  <2> QED
    BY <1>1, <2>3 DEF part
<1>2. CASE n # 0
  <2>1. ASSUME NEW i \in from + 1 .. from + n
        PROVE  s[i] \in Network
    <3>1. i \in 1 .. Len(s)
      BY <1>2
    <3> QED
      BY <3>1
  <2>2. from + 1 \in Int /\ from + n \in Int /\ from + 1 <= from + n
        /\ (from + n) - (from + 1) + 1 = n
    BY <1>2
  <2>3. part \in Seq(Network) /\ Len(part) = n
    BY <2>1, <2>2, SubSeqProperties
  <2> HIDE DEF part
  <2>4. part \in Seq(Network) /\ Len(part) <= n
    BY <2>3
  <2> QED
    BY <2>4 DEF part
<1> QED
  BY <1>1, <1>2

LEMMA ServeScanResultTyped ==
    ASSUME TypeInv, NEW p \in Pages, ServeScanResult(p)
    PROVE  \/ Answering(p)
           \/ /\ halted' = "fault"
              /\ UNCHANGED <<page, sent, refused, server, device>>
              /\ device.prov # "GONE"
              /\ \E m \in Nat : /\ First(sent[p], m)
                                /\ sent[p][m].op = "scan_result"
                                /\ sent[p][m].from + sent[p][m].n > Len(device.found)
                                /\ sent[p][m].n > 0
<1>1. Waiting(p) # {} /\ server = Nobody /\ Served(p).op = "scan_result"
      /\ device.prov # "GONE"
  BY DEF ServeScanResult, Requested, Serving
<1>2. PICK m \in Nat :
        /\ First(sent[p], m) /\ Served(p) = sent[p][m] /\ sent[p][m].op = "scan_result"
        /\ sent[p][m].from \in Nat /\ sent[p][m].n \in Nat
  BY <1>1, ServedFirst
<1> DEFINE r     == sent[p][m]
           L     == Len(device.found)
           c     == Cardinality({i \in 1 .. L : i > r.from})
           there == Least(r.n, c)
           full  == Len(Allocations("scan_result", there, StationConnected))
           grant == Grant("scan_result")
           part  == SubSeq(device.found, r.from + 1, r.from + r.n)
           reply == [grant EXCEPT !.entries = part]
<1>3. device.found \in Seq(Network) /\ L \in Nat
  BY DEF TypeInv, Devices
<1>4. c = IF r.from < L THEN L - r.from ELSE 0
  BY <1>2, <1>3, EntriesFrom
<1>5. there \in Nat /\ there <= r.n /\ (there < r.n <=> r.n > 0 /\ r.from + r.n > L)
  <2>1. r.n \in Nat /\ r.from \in Nat
    BY <1>2
  <2> HIDE DEF c, L, r
  <2> QED
    BY <2>1, <1>3, <1>4, ThereLeast
<1>6. PICK k \in Failing("scan_result", there) :
        IF there < r.n /\ k \notin 1 .. full
        THEN halted' = "fault" /\ UNCHANGED <<page, sent, refused>>
        ELSE Respond(p, "scan_result", there, k, reply) /\ halted' = halted
  BY <1>2 DEF ServeScanResult
<1>7. CASE there < r.n /\ k \notin 1 .. full
  BY <1>1, <1>2, <1>5, <1>6, <1>7 DEF ServeScanResult
<1>8. CASE ~(there < r.n /\ k \notin 1 .. full)
  <2>1. Respond(p, "scan_result", there, k, reply) /\ halted' = halted
    BY <1>6, <1>8
  <2>2. "scan_result" \in ConfigOps \cup ScanOps /\ "scan_result" \in Operations
    BY DEF ScanOps, Operations
  <2>3. ASSUME k = 0
        PROVE  Sound(p, m, reply)
    <3>1. StationConnected \in BOOLEAN
      BY DEF StationConnected
    <3>2. ~(there < r.n)
      <4>1. full \in Nat
        <5> HIDE DEF there
        <5> QED
          BY <1>5, <3>1, AllocationsTyped
      <4> QED
        BY <1>8, <2>3, <4>1
    <3>3. r.n = 0 \/ r.from + r.n <= L
      BY <1>2, <1>3, <1>5, <3>2
    <3>4. part \in Seq(Network) /\ Len(part) <= r.n
      <4> DEFINE s == device.found
                 from == r.from
                 n == r.n
      <4>1. s \in Seq(Network) /\ from \in Nat /\ n \in Nat /\ (n = 0 \/ from + n <= Len(s))
        BY <1>2, <1>3, <3>3
      <4>2. part = SubSeq(s, from + 1, from + n) /\ r.n = n
        OBVIOUS
      <4> HIDE DEF s, from, n, part, r
      <4>3. part \in Seq(Network) /\ Len(part) <= n
        BY <4>1, <4>2, PartOf
      <4> QED
        BY <4>2, <4>3
    <3>5. grant \in AnswerFields /\ grant.http = 200 /\ grant.op = "scan_result"
          /\ grant.count = 0
      BY <2>2, GrantTyped
    <3> HIDE DEF grant, part
    <3>6. reply \in AnswerFields /\ reply.http = 200 /\ reply.op = "scan_result"
          /\ reply.count = 0 /\ reply.entries = part
      BY <3>4, <3>5 DEF AnswerFields
    <3> HIDE DEF reply
    <3>7. True(p, m, reply)
      BY <1>2, <3>3, <3>4, <3>6 DEF True, part
    <3> QED
      BY <1>2, <3>6, <3>7, PageSizes DEF Sound
  <2> HIDE DEF reply, there
  <2>4. \E a \in Answers : True(p, m, a) /\ Answer(p, a)
    BY <1>2, <1>5, <2>1, <2>2, <2>3, CommandAnswers
  <2>5. \A a : Moves("scan_result", a)
    BY NothingMoves DEF ServeScanResult
  <2> QED
    BY <1>1, <1>2, <2>1, <2>4, <2>5, FreeNoScan DEF Answering, ServeScanResult, TypeInv
<1> QED
  BY <1>7, <1>8

LEMMA ServeSetConfigAnswers ==
    ASSUME TypeInv, NEW p \in Pages, ServeSetConfig(p)
    PROVE  Answering(p)
<1>1. Waiting(p) # {} /\ server = Nobody /\ Served(p).op = "set_config"
  BY DEF ServeSetConfig, Requested, Serving
<1>2. PICK m \in Nat : First(sent[p], m) /\ Served(p) = sent[p][m]
                       /\ sent[p][m].op = "set_config" /\ sent[p][m].n \in Nat
  BY <1>1, ServedFirst
<1>3. "set_config" \in ConfigOps \cup ScanOps /\ "set_config" \in Operations
  BY DEF ConfigOps, Operations
<1>4. PICK k \in Failing("set_config", 0), staged \in BOOLEAN :
            /\ Respond(p, "set_config", 0, k,
                       Reply(200, "set_config", Served(p).n = 0 /\ staged))
            /\ device' = IF Reached(k) /\ Served(p).n = 0
                         THEN [device EXCEPT !.staged = staged] ELSE device
  BY DEF ServeSetConfig
<1> DEFINE ok == Served(p).n = 0 /\ staged
           reply == Reply(200, "set_config", ok)
<1>5. ok \in BOOLEAN
  OBVIOUS
<1> HIDE DEF ok
<1>6. Sound(p, m, reply)
  <2>1. ASSUME NEW b \in BOOLEAN
        PROVE  Reply(200, "set_config", b) \in AnswerFields
    BY <1>3, ReplyTyped
  <2>2. reply \in AnswerFields
    BY <1>5, <2>1
  <2>3. reply.http = 200 /\ reply.op = "set_config" /\ reply.count = 0
        /\ Len(reply.entries) = 0
    BY DEF Reply
  <2> HIDE DEF reply
  <2> QED
    BY <1>2, <2>2, <2>3, PageSizes DEF Sound, True
<1> HIDE DEF reply
<1>7. \E a \in Answers : True(p, m, a) /\ Answer(p, a)
  <2>1. Respond(p, "set_config", 0, k, reply)
    BY <1>4 DEF reply, ok
  <2> QED
    BY <1>2, <1>3, <1>6, <2>1, CommandAnswers
<1>8. device' \in Devices /\ device'.found = device.found
      /\ device'.scanning = device.scanning /\ device'.prov = device.prov
      /\ device'.wifi = device.wifi /\ device'.timers = device.timers
  BY <1>4 DEF TypeInv, Devices
<1>9. \A a : Moves("set_config", a)
  BY <1>8 DEF Moves
<1> QED
  BY <1>1, <1>2, <1>7, <1>8, <1>9, FreeNoScan DEF Answering, ServeSetConfig

LEMMA ServeApplyConfigAnswers ==
    ASSUME TypeInv, NEW p \in Pages, ServeApplyConfig(p)
    PROVE  Answering(p)
<1>1. Waiting(p) # {} /\ server = Nobody /\ Served(p).op = "apply_config"
      /\ device.prov # "GONE"
  BY DEF ServeApplyConfig, Requested, Serving
<1>2. PICK m \in Nat : First(sent[p], m) /\ sent[p][m].op = "apply_config"
                       /\ sent[p][m].n \in Nat
  BY <1>1, ServedFirst
<1>3. "apply_config" \in ConfigOps \cup ScanOps /\ "apply_config" \in Operations
  BY DEF ConfigOps, Operations
<1> DEFINE ok == MayApply
           reply == Reply(200, "apply_config", ok)
<1>4. PICK k \in Failing("apply_config", 0) :
            /\ Respond(p, "apply_config", 0, k, reply)
            /\ device' = IF Reached(k) THEN Applied ELSE device
  BY DEF ServeApplyConfig
<1>5. ok \in BOOLEAN
  BY DEF MayApply, TypeInv, Devices
<1> HIDE DEF ok
<1>6. Sound(p, m, reply)
  <2>1. ASSUME NEW b \in BOOLEAN
        PROVE  Reply(200, "apply_config", b) \in AnswerFields
    BY <1>3, ReplyTyped
  <2>2. reply \in AnswerFields
    BY <1>5, <2>1
  <2>3. reply.http = 200 /\ reply.op = "apply_config" /\ reply.count = 0
        /\ Len(reply.entries) = 0
    BY DEF Reply
  <2> HIDE DEF reply
  <2> QED
    BY <1>2, <2>2, <2>3, PageSizes DEF Sound, True
<1>7. reply.ok = ok
  BY DEF Reply
<1> HIDE DEF reply
<1>8. PICK a \in Answers : /\ True(p, m, a) /\ Answer(p, a)
                           /\ a.ok => k = 0 /\ reply.ok
  BY <1>2, <1>3, <1>4, <1>6, CommandAnswers
<1>9. device' \in Devices /\ device'.found = device.found
      /\ device'.scanning = device.scanning
  BY <1>4 DEF TypeInv, Devices, Applied, WifiStates
<1>10. Moves("apply_config", a)
  <2>1. device \in Devices
    BY DEF TypeInv
  <2>2. CASE Reached(k) /\ MayApply
    <3>1. /\ device.prov = "STARTED"
          /\ device' = [device EXCEPT !.staged = FALSE, !.prov = "CRED_RECV",
                                      !.wifi = "CONNECTING"]
      BY <1>4, <2>2 DEF MayApply, Applied
    <3> QED
      BY <2>1, <3>1 DEF Moves, Devices
  <2>3. CASE ~(Reached(k) /\ MayApply)
    <3>1. ~a.ok
      BY <1>7, <1>8, <2>3 DEF Reached, ok
    <3>2. device' = device \/ device' = [device EXCEPT !.staged = FALSE]
      BY <1>4, <2>3 DEF Applied
    <3> QED
      BY <2>1, <3>1, <3>2 DEF Moves, Devices
  <2> QED
    BY <2>2, <2>3
<1> QED
  BY <1>1, <1>2, <1>4, <1>8, <1>9, <1>10, FreeNoScan DEF Answering, ServeApplyConfig

\* What serving a request does, whichever it is.
Faulting(p) ==
    /\ halted' = "fault"
    /\ UNCHANGED <<page, sent, refused, server, device>>
    /\ device.prov # "GONE"
    /\ \E m \in Nat :
          /\ First(sent[p], m)
          /\ sent[p][m].op = "scan_result"
          /\ sent[p][m].from + sent[p][m].n > Len(device.found)
          /\ sent[p][m].n > 0

Scanning(p) ==
    /\ server = Nobody /\ server' = p
    /\ \E m \in Nat : First(sent[p], m) /\ sent[p][m].op = "scan_start"
    /\ UNCHANGED <<page, sent, refused>>
    /\ halted' \in {halted, "lock"}
    /\ device' = device \/ device' = BeginScan
    /\ device.prov # "GONE"

LEMMA ServeCases ==
    ASSUME TypeInv, NEW p \in Pages, Serve(p)
    PROVE  Answering(p) \/ Faulting(p) \/ Scanning(p)
<1>1. CASE ServeScanResult(p)
  BY <1>1, ServeScanResultTyped DEF Faulting
<1>2. CASE ServeScanStart(p)
  BY <1>2, ServeScanStartTyped DEF Scanning
<1> QED
  BY <1>1, <1>2, ServeNothingAnswers, ServeSessionAnswers, ServeCustomAnswers,
     ScanReturnsAnswers, ServeScanStatusAnswers, ServeSetConfigAnswers,
     ServeApplyConfigAnswers, ServeGetStatusAnswers DEF Serve

LEMMA ServeTyped ==
    ASSUME TypeInv, NEW p \in Pages, Serve(p)
    PROVE  TypeInv'
<1>1. CASE Answering(p)
  BY <1>1, AnsweringTyped
<1>2. CASE Faulting(p)
  BY <1>2 DEF Faulting, TypeInv, Occupied
<1>3. CASE Scanning(p)
  <2>1. device' \in Devices /\ Len(device'.found) <= MaxFound
    BY <1>3, BeginScanTyped DEF Scanning, TypeInv
  <2>2. p # Nobody
    BY PageSizes
  <2> QED
    BY <1>3, <2>1, <2>2 DEF Scanning, TypeInv, Occupied
<1> QED
  BY <1>1, <1>2, <1>3, ServeCases

\* What the device does by itself.
LEMMA NetworksTyped ==
    ASSUME TypeInv, NEW n \in MinFound .. MaxFound, NEW k \in Nat
    PROVE  Networks(n, k) \in Seq(Network) /\ Len(Networks(n, k)) = n
<1>1. n \in Nat
  BY PageSizes
<1>2. device.scan \in Int
  BY DEF TypeInv, Devices
<1>3. \A i \in 1 .. n : [scan |-> device.scan, i |-> i, strong |-> i <= k] \in Network
  BY <1>1, <1>2 DEF Network
<1>4. Networks(n, k) \in [1 .. n -> Network]
  BY <1>3 DEF Networks
<1> QED
  BY <1>1, <1>4

LEMMA DeviceTyped ==
    ASSUME TypeInv, ScanDone \/ GotIp \/ Rejected \/ Retried \/ TimerExpires
    PROVE  TypeInv'
<1>1. device' \in Devices /\ Len(device'.found) <= MaxFound
      /\ (device'.scanning => device.scanning)
  <2>1. device \in Devices /\ Len(device.found) <= MaxFound
    BY DEF TypeInv
  <2>2. CASE ScanDone
    <3>1. PICK n \in MinFound .. MaxFound, k \in 0 .. MaxFound :
             device' = IF device.prov = "STARTED" /\ device.scanning
                       THEN [device EXCEPT !.radio = FALSE, !.scanning = FALSE,
                                           !.found = Networks(n, k)]
                       ELSE [device EXCEPT !.radio = FALSE]
      BY <2>2 DEF ScanDone
    <3>2. Networks(n, k) \in Seq(Network) /\ Len(Networks(n, k)) <= MaxFound
      BY NetworksTyped, PageSizes
    <3> QED
      BY <2>1, <3>1, <3>2 DEF Devices
  <2>3. CASE GotIp \/ Rejected \/ Retried
    BY <2>1, <2>3 DEF GotIp, Rejected, Retried, Verdict, Attempting, Devices, WifiStates
  <2>4. CASE TimerExpires
    <3>1. CASE ResetExpires
      BY <2>1, <3>1 DEF ResetExpires, Expired, Devices
    <3>2. CASE Stage1Expires
      BY <2>1, <3>2 DEF Stage1Expires, Expired, Devices
    <3>3. CASE Stage2Expires
      <4>1. <<>> \in Seq(Network) /\ Len(<<>>) = 0
        OBVIOUS
      <4>2. device' = [device EXCEPT !.prov = "GONE", !.timers = {}, !.scanning = FALSE,
                                     !.found = <<>>, !.staged = FALSE]
        BY <3>3 DEF Stage2Expires
      <4>3. device' \in Devices
        BY <2>1, <4>1, <4>2 DEF Devices
      <4>4. device'.found = <<>> /\ ~device'.scanning
        BY <2>1, <4>2 DEF Devices
      <4> QED
        BY <4>1, <4>3, <4>4, PageSizes
    <3> QED
      BY <2>4, <3>1, <3>2, <3>3 DEF TimerExpires
  <2> QED
    BY <2>2, <2>3, <2>4
<1>2. WindowsUnchanged
  BY DEF ScanDone, GotIp, Rejected, Retried, Verdict, TimerExpires
<1> QED
  BY <1>1, <1>2 DEF TypeInv, Occupied, WindowsUnchanged

LEMMA TypeNext == TypeInv /\ [Next]_vars => TypeInv'
<1> SUFFICES ASSUME TypeInv, [Next]_vars
             PROVE  TypeInv'
  OBVIOUS
<1>1. ASSUME NEW p \in Pages, Load(p) \/ Rescan(p) \/ GoBack(p)
             \/ (\E fits \in BOOLEAN : ApplyButton(p, fits))
      PROVE  TypeInv'
  BY <1>1, LoadTyped, ButtonsTyped
<1>2. ASSUME NEW p \in Pages, HandleResponse(p) \/ RequestTimeout(p)
             \/ (\E timer \in Timers : TimerFires(p, timer))
      PROVE  TypeInv'
  BY <1>2, HandleResponseTyped, RequestTimeoutTyped, TimerFiresTyped
<1>3. ASSUME NEW p \in Pages, Serve(p)
      PROVE  TypeInv'
  BY <1>3, ServeTyped
<1>4. CASE ScanDone \/ GotIp \/ Rejected \/ Retried \/ TimerExpires
  BY <1>4, DeviceTyped
<1>5. CASE UNCHANGED vars
  BY <1>5 DEF vars, TypeInv, Occupied, First
<1> QED
  BY <1>1, <1>2, <1>3, <1>4, <1>5 DEF Next

THEOREM Types == Spec => []TypeInv
  BY TypeInit, TypeNext, PTL DEF Spec

\* A session that is over stays so.
LEMMA GoneStays ==
    ASSUME TypeInv, device.prov = "GONE", [Next]_vars
    PROVE  device'.prov = "GONE"
<1>1. device \in Devices
  BY DEF TypeInv
<1>2. ASSUME NEW p \in Pages, Load(p) \/ Rescan(p) \/ GoBack(p)
             \/ (\E fits \in BOOLEAN : ApplyButton(p, fits))
             \/ HandleResponse(p) \/ RequestTimeout(p)
             \/ (\E timer \in Timers : TimerFires(p, timer))
      PROVE  device' = device
  BY <1>2 DEF Load, Rescan, GoBack, ApplyButton, HandleResponse, RequestTimeout,
              TimerFires, DeviceUnchanged
<1>3. ASSUME NEW p \in Pages, Serve(p)
      PROVE  device'.prov = "GONE"
  BY <1>3, ServeCases DEF Answering, Faulting, Scanning
<1>4. CASE ScanDone
  BY <1>1, <1>4 DEF ScanDone, Devices
<1>5. CASE GotIp \/ Rejected \/ Retried
  BY <1>5 DEF GotIp, Rejected, Retried, Verdict, Attempting
<1>6. CASE TimerExpires
  <2>1. CASE ResetExpires
    BY <1>1, <2>1 DEF ResetExpires, Expired, Devices
  <2>2. CASE Stage1Expires
    BY <1>1, <2>2 DEF Stage1Expires, Expired, Devices
  <2>3. CASE Stage2Expires
    BY <1>1, <2>3 DEF Stage2Expires, Devices
  <2> QED
    BY <1>6, <2>1, <2>2, <2>3 DEF TimerExpires
<1>7. CASE UNCHANGED vars
  BY <1>7 DEF vars
<1> QED
  BY <1>2, <1>3, <1>4, <1>5, <1>6, <1>7 DEF Next

-----------------------------------------------------------------------------
\* A request that is granted leaves no memory behind, for any number of entries,
\* whatever fails.
THEOREM GrantsFree == Spec => []AnswerFrees
<1>1. TypeInv => AnswerFrees
  <2> SUFFICES ASSUME TypeInv, NEW p \in Pages, NEW i \in DOMAIN sent[p],
                      sent[p][i].reply # Pending, sent[p][i].reply.ok
               PROVE  sent[p][i].reply.left = {}
    BY DEF AnswerFrees
  <2>1. sent[p][i] \in Requests
    BY DEF TypeInv, Queues
  <2>2. sent[p][i].reply \in Answers
    BY <2>1 DEF Requests, RequestFields
  <2> QED
    BY <2>2 DEF Answers
<1> QED
  BY <1>1, Types, PTL

-----------------------------------------------------------------------------
\* Who handles what.  A window with callback c still listens to a request that is
\* not c's only if the two are crossed, and no crossed response passes for the
\* other's.

Crossed == {<<"reset", "scan_start">>, <<"scan_result", "scan_start">>,
            <<"scan_result", "set_config">>}

\* What a window shows goes with its callback; a timer is alone.
Settled(w) ==
    /\ w.shown = "form" => w.callback = "scan_result" /\ w.timer = {}
    /\ w.shown = "failed" => w.callback = "reset" /\ w.timer = {}
    /\ \A t, u \in w.timer : t = u

Dialogue(w, s) ==
    /\ Settled(w)
    /\ w.timer # {} => s = <<>>
    /\ \A i \in DOMAIN s : s[i].live =>
          /\ s[i].op = w.callback \/ <<s[i].op, w.callback>> \in Crossed
          /\ s[i].op = w.callback => i = Len(s)

Dialogues == \A p \in Pages : Dialogue(page[p], sent[p])

HandlerInv == TypeInv /\ Dialogues

LEMMA CrossedApart ==
    ASSUME NEW op \in Operations, NEW callback, <<op, callback>> \in Crossed
    PROVE  /\ op # callback
           /\ \A reply : reply.op = op => ~IsResponse(callback, reply)
           /\ callback \notin Json
<1>1. \/ op = "reset" /\ callback = "scan_start"
      \/ op = "scan_result" /\ callback = "scan_start"
      \/ op = "scan_result" /\ callback = "set_config"
  BY DEF Crossed
<1>2. Number("scan_result") # Number("scan_start")
      /\ Number("scan_result") # Number("set_config")
  BY DEF Number, ConfigOps, ScanOps, ResponseTo, Command
<1>3. Decodes("scan_start", "reset") = FALSE
  BY DEF Decodes, Json
<1> QED
  BY <1>1, <1>2, <1>3 DEF IsResponse, Json

\* A window that has nothing else to listen to.
LEMMA AloneDialogue ==
    ASSUME NEW res, Outcome(res), Settled(res.w), res.requests # <<>> => res.w.timer = {}
    PROVE  Dialogue(res.w, <<>> \o res.requests)
<1>1. CASE res.requests = <<>>
  <2>1. <<>> \o res.requests = <<>>
    BY <1>1
  <2> QED
    BY <2>1 DEF Dialogue
<1>2. CASE res.requests # <<>>
  <2>1. PICK r \in Fresh : res.requests = <<r>> /\ r.op = res.w.callback
    BY <1>2 DEF Outcome
  <2> DEFINE t == <<>> \o res.requests
  <2>2. Len(t) = 1 /\ t[1] = r /\ DOMAIN t = {1}
    BY <2>1
  <2> HIDE DEF t
  <2> QED
    BY <1>2, <2>1, <2>2 DEF Dialogue
<1> QED
  BY <1>1, <1>2

\* A request is sent after others that it crosses.
LEMMA CrossingDialogue ==
    ASSUME NEW s \in Queues, NEW w, NEW r \in Fresh, r.op = w.callback, Settled(w),
           w.timer = {},
           \A i \in DOMAIN s : s[i].live => <<s[i].op, w.callback>> \in Crossed
    PROVE  Dialogue(w, s \o <<r>>)
<1> DEFINE t == s \o <<r>>
<1>1. Len(t) = Len(s) + 1 /\ t[Len(s) + 1] = r /\ \A i \in DOMAIN s : t[i] = s[i]
  BY PushQueue
<1>2. s \in Seq(Requests) /\ t \in Queues
  BY PushQueue DEF Queues
<1> HIDE DEF t
<1>3. ASSUME NEW i \in DOMAIN t, t[i].live
      PROVE  /\ t[i].op = w.callback \/ <<t[i].op, w.callback>> \in Crossed
             /\ t[i].op = w.callback => i = Len(t)
  <2>1. CASE i = Len(s) + 1
    BY <1>1, <2>1
  <2>2. CASE i # Len(s) + 1
    <3>1. i \in DOMAIN s /\ t[i] = s[i]
      BY <1>1, <1>2, <2>2 DEF Queues
    <3>2. s[i].op \in Operations
      BY <1>2, <3>1 DEF Requests, RequestFields
    <3> QED
      BY <1>3, <3>1, <3>2, CrossedApart
  <2> QED
    BY <2>1, <2>2
<1> QED
  BY <1>3 DEF Dialogue, t

LEMMA ThenFields ==
    ASSUME NEW w, NEW requests
    PROVE  Then(w, requests).w = w /\ Then(w, requests).requests = requests
  BY DEF Then

LEMMA AskSends ==
    ASSUME NEW op, NEW from, NEW n
    PROVE  Send(op, from, n) # <<>> /\ Ask(op) # <<>>
<1>1. ASSUME NEW r
      PROVE  <<r>> # <<>>
  OBVIOUS
<1> QED
  BY <1>1 DEF Send, Ask

\* The fields of a window that calls.
LEMMA CallsFields ==
    ASSUME NEW w \in Windows, NEW op, NEW requests
    PROVE  LET res == Calls(w, op, requests)
           IN  /\ res.requests = requests
               /\ res.w.callback = op
               /\ res.w.provState = w.provState /\ res.w.shown = w.shown
               /\ res.w.timer = w.timer /\ res.w.scanResults = w.scanResults
               /\ res.w.numScanResults = w.numScanResults
               /\ res.w.scanIndex = w.scanIndex /\ res.w.forDisplay = w.forDisplay
  BY DEF Calls, Then, Windows

LEMMA startScanFields ==
    ASSUME NEW w \in Windows
    PROVE  LET res == startScan(w)
           IN  \/ res.w = w /\ res.requests = <<>>
               \/ /\ w.provState \notin NotReady
                  /\ res.requests = Ask("scan_start")
                  /\ res.w.callback = "scan_start" /\ res.w.shown = "scanning"
                  /\ res.w.provState = "SCANNING"
                  /\ res.w.timer = w.timer /\ res.w.scanResults = <<>>
                  /\ res.w.numScanResults = w.numScanResults
                  /\ res.w.scanIndex = w.scanIndex /\ res.w.forDisplay = w.forDisplay
<1>1. CASE w.provState \in NotReady
  BY <1>1 DEF startScan, Then
<1>2. CASE w.provState \notin NotReady
  <2> DEFINE v == [w EXCEPT !.provState = "SCANNING", !.shown = "scanning",
                            !.table = <<>>, !.scanResults = <<>>]
  <2>1. /\ v.shown = "scanning" /\ v.timer = w.timer /\ v.scanResults = <<>>
        /\ v.provState = "SCANNING" /\ v.numScanResults = w.numScanResults
        /\ v.scanIndex = w.scanIndex /\ v.forDisplay = w.forDisplay
    BY DEF Windows
  <2>2. startScan(w) = Calls(v, "scan_start", Ask("scan_start"))
    BY <1>2 DEF startScan
  <2>3. v \in Windows
    <3>1. "SCANNING" \in States /\ "scanning" \in Shown /\ <<>> \in Seq(Network)
      BY DEF States, Shown
    <3> QED
      BY <3>1 DEF Windows
  <2> HIDE DEF v
  <2> QED
    BY <1>2, <2>1, <2>2, <2>3, CallsFields
<1> QED
  BY <1>1, <1>2

\* What a window that fetches the list sends next, if it does.
Fetched(w, res) ==
    \/ /\ w.scanIndex >= w.numScanResults
       /\ res.w.callback = w.callback /\ res.w.scanIndex = w.scanIndex
       /\ res.requests = <<>>
       /\ res.w.provState = "READY" /\ res.w.table = showSelectedResults(w)
    \/ \E n \in 1 .. Batch :
          /\ n <= w.numScanResults - w.scanIndex
          /\ res.w.callback = "scan_result"
          /\ res.w.scanIndex = w.scanIndex + n
          /\ res.requests = Send("scan_result", w.scanIndex, n)
          /\ res.w.provState = w.provState

LEMMA getScanResultsFields ==
    ASSUME NEW w \in Windows
    PROVE  LET res == getScanResults(w)
           IN  /\ res.w.shown = w.shown /\ res.w.timer = w.timer
               /\ res.w.scanResults = w.scanResults
               /\ res.w.numScanResults = w.numScanResults
               /\ res.w.forDisplay = w.forDisplay
               /\ Fetched(w, res)
<1>1. CASE w.scanIndex < w.numScanResults
  <2> DEFINE n == Least(w.numScanResults - w.scanIndex, Batch)
             v == [w EXCEPT !.scanIndex = @ + n]
             res == getScanResults(w)
  <2>1. n \in 1 .. Batch /\ n <= w.numScanResults - w.scanIndex
    BY <1>1, PageSizes DEF Windows, Least
  <2>2. res = Calls(v, "scan_result", Send("scan_result", w.scanIndex, n))
    BY <1>1 DEF getScanResults
  <2> HIDE DEF n
  <2>3. v \in Windows
    BY <2>1 DEF Windows
  <2>4. /\ v.scanIndex = w.scanIndex + n /\ v.shown = w.shown /\ v.timer = w.timer
        /\ v.scanResults = w.scanResults /\ v.numScanResults = w.numScanResults
        /\ v.forDisplay = w.forDisplay /\ v.provState = w.provState
    BY DEF Windows
  <2> HIDE DEF v, res
  <2>5. /\ res.w.shown = w.shown /\ res.w.timer = w.timer
        /\ res.w.scanResults = w.scanResults
        /\ res.w.numScanResults = w.numScanResults
        /\ res.w.forDisplay = w.forDisplay
        /\ res.w.callback = "scan_result"
        /\ res.w.scanIndex = w.scanIndex + n
        /\ res.requests = Send("scan_result", w.scanIndex, n)
        /\ res.w.provState = w.provState
    BY <2>2, <2>3, <2>4, CallsFields
  <2>6. Fetched(w, res)
    BY <2>1, <2>5 DEF Fetched
  <2> QED
    BY <2>5, <2>6 DEF res
<1>2. CASE ~(w.scanIndex < w.numScanResults)
  <2> DEFINE table == showSelectedResults(w)
             v == [w EXCEPT !.provState = "READY", !.table = table]
  <2>1. w.scanIndex >= w.numScanResults
    BY <1>2 DEF Windows
  <2>2. getScanResults(w) = Then(v, <<>>)
    BY <1>2 DEF getScanResults
  <2> HIDE DEF table
  <2>3. /\ v.shown = w.shown /\ v.timer = w.timer /\ v.callback = w.callback
        /\ v.scanResults = w.scanResults /\ v.numScanResults = w.numScanResults
        /\ v.forDisplay = w.forDisplay /\ v.scanIndex = w.scanIndex
        /\ v.provState = "READY" /\ v.table = table
    BY DEF Windows
  <2> HIDE DEF v
  <2> QED
    BY <2>1, <2>2, <2>3, ThenFields DEF Fetched, table
<1> QED
  BY <1>1, <1>2

-----------------------------------------------------------------------------
\* What a window does with a response to its own request.

SameList(v, w) ==
    /\ v.scanResults = w.scanResults /\ v.numScanResults = w.numScanResults
    /\ v.scanIndex = w.scanIndex /\ v.forDisplay = w.forDisplay

\* It asks what a scan has found.
AskStatus(w, res) ==
    /\ w.callback \in {"session", "scan_start"}
    /\ SameList(res.w, w) /\ res.w.timer = w.timer /\ res.w.shown = w.shown
    /\ w.callback = "session" \/ res.w.provState = w.provState
    /\ res.w.callback = "scan_status" /\ res.requests = Ask("scan_status")

\* It begins to fetch the list.
BeginList(w, a, res) ==
    /\ w.callback = "scan_status" /\ a.ok /\ a.count > 0
    /\ res.w.numScanResults = a.count /\ res.w.forDisplay = a.count
    /\ res.w.scanResults = w.scanResults
    /\ res.w.shown = "form" /\ res.w.timer = w.timer /\ res.w.provState = w.provState
    /\ res.w.callback = "scan_result"
    /\ \E n \in 1 .. Batch :
          /\ n <= a.count
          /\ res.w.scanIndex = n /\ res.requests = Send("scan_result", 0, n)

\* Nothing has been found, and it scans.
ScanAgain(w, a, res) ==
    /\ w.callback = "scan_status" /\ a.ok /\ a.count = 0
    /\ res = startScan(w)

\* It takes the entries and goes on.
GoOnList(w, a, res) ==
    /\ w.callback = "scan_result" /\ a.ok
    /\ LET v == TakeResults(w, a.entries)
       IN  /\ v \in Called
           /\ res.w.scanResults = v.scanResults
           /\ res.w.numScanResults = v.numScanResults
           /\ res.w.forDisplay = v.forDisplay
           /\ res.w.shown = w.shown /\ res.w.timer = w.timer
           /\ res.w.callback = "scan_result"
           /\ Fetched(v, res)

\* It asks something else, or waits for a while.
GoOnElse(w, a, res) ==
    /\ w.callback \in {"get_status", "set_config", "apply_config", "shutdown", "homepage"}
    /\ SameList(res.w, w) /\ res.w.provState = w.provState
    /\ \/ /\ res.requests = <<>> /\ res.w.callback = w.callback
          /\ \/ /\ w.callback = "get_status" \/ (w.callback = "apply_config" /\ a.ok)
                /\ res.w.timer = w.timer \cup {"get_status"} /\ res.w.shown = w.shown
             \/ res.w.timer = w.timer \cup {"homepage"} /\ res.w.shown = w.shown
             \/ res.w.timer = w.timer /\ res.w.shown = "redirect"
       \/ /\ res.requests = Ask(res.w.callback)
          /\ res.w.timer = w.timer
          /\ \/ /\ w.callback = "set_config"
                /\ res.w.shown = w.shown /\ res.w.callback = "apply_config"
             \/ /\ w.callback = "get_status" /\ a.ok /\ a.wifi = "CONNECTED"
                /\ res.w.shown = "success" /\ res.w.callback = "shutdown"
             \/ /\ w.callback = "get_status" /\ a.ok /\ a.wifi = "DISCONNECTED"
                /\ res.w.shown = "failed" /\ res.w.callback = "reset"

Handled(w, a, res) ==
    \/ res.w = w /\ res.requests = <<>>
    \/ AskStatus(w, res)
    \/ BeginList(w, a, res)
    \/ ScanAgain(w, a, res)
    \/ GoOnList(w, a, res)
    \/ GoOnElse(w, a, res)

LEMMA AfterFields ==
    ASSUME NEW w \in Windows, NEW timer
    PROVE  LET res == After(w, timer)
           IN  /\ SameList(res.w, w) /\ res.w.provState = w.provState
               /\ res.requests = <<>> /\ res.w.callback = w.callback
               /\ res.w.timer = w.timer \cup {timer} /\ res.w.shown = w.shown
  BY DEF After, Then, SameList, Windows

LEMMA FetchFields ==
    ASSUME NEW w \in Windows, NEW count \in Nat, count > 0
    PROVE  LET res == Fetch(w, count)
           IN  /\ res.w.numScanResults = count /\ res.w.forDisplay = count
               /\ res.w.scanResults = w.scanResults
               /\ res.w.shown = "form" /\ res.w.timer = w.timer
               /\ res.w.provState = w.provState
               /\ res.w.callback = "scan_result"
               /\ \E n \in 1 .. Batch :
                     /\ n <= count
                     /\ res.w.scanIndex = n /\ res.requests = Send("scan_result", 0, n)
<1> DEFINE v == [w EXCEPT !.numScanResults = count, !.forDisplay = count,
                          !.scanIndex = 0, !.shown = "form"]
<1>1. /\ v.numScanResults = count /\ v.scanIndex = 0 /\ v.shown = "form"
      /\ v.timer = w.timer /\ v.scanResults = w.scanResults /\ v.forDisplay = count
      /\ v.provState = w.provState
  BY DEF Windows
<1>2. v \in Windows
  <2>1. "form" \in Shown /\ 0 \in Nat /\ count \in Int
    BY DEF Shown
  <2> QED
    BY <2>1 DEF Windows
<1>3. Fetch(w, count) = getScanResults(v)
  BY DEF Fetch
<1> HIDE DEF v
<1> QED
  BY <1>1, <1>2, <1>3, getScanResultsFields DEF Fetched

LEMMA StatusHandled ==
    ASSUME NEW w \in Windows, w.callback = "get_status", NEW a \in Answers
    PROVE  GoOnElse(w, a, handleGetConfigStatus(w, a))
<1> DEFINE u == [w EXCEPT !.shown = "success"]
           v == [w EXCEPT !.shown = "failed"]
           res == handleGetConfigStatus(w, a)
<1>1. /\ u \in Windows /\ u.shown = "success" /\ SameList(u, w) /\ u.timer = w.timer
      /\ u.provState = w.provState
  BY DEF Windows, Shown, SameList
<1>2. /\ v \in Windows /\ v.shown = "failed" /\ SameList(v, w) /\ v.timer = w.timer
      /\ v.provState = w.provState
  BY DEF Windows, Shown, SameList
<1> HIDE DEF u, v
<1>3. \/ res = After(w, "get_status")
      \/ a.ok /\ a.wifi = "CONNECTED" /\ res = Calls(u, "shutdown", Ask("shutdown"))
      \/ a.ok /\ a.wifi = "DISCONNECTED" /\ res = Calls(v, "reset", Ask("reset"))
  <2>1. a.wifi \in WifiStates
    BY DEF Answers, AnswerFields
  <2> QED
    BY <2>1 DEF handleGetConfigStatus, WifiStates, u, v
<1> HIDE DEF res
<1>4. res = After(w, "get_status") => GoOnElse(w, a, res)
  BY AfterFields DEF GoOnElse
<1>5. a.ok /\ a.wifi = "CONNECTED" /\ res = Calls(u, "shutdown", Ask("shutdown"))
        => GoOnElse(w, a, res)
  BY <1>1, CallsFields DEF GoOnElse, SameList
<1>6. a.ok /\ a.wifi = "DISCONNECTED" /\ res = Calls(v, "reset", Ask("reset"))
        => GoOnElse(w, a, res)
  BY <1>2, CallsFields DEF GoOnElse, SameList
<1> QED
  BY <1>3, <1>4, <1>5, <1>6 DEF res

LEMMA AcceptHandled ==
    ASSUME NEW w \in Called, NEW reply \in Answers, reply.op = w.callback
    PROVE  Handled(w, reply, Accept(w, reply))
<1> DEFINE res == Accept(w, reply)
<1>1. w \in Windows /\ w.callback \in Operations
      /\ reply.count \in Nat /\ reply.entries \in Seq(Network)
  BY DEF Called, Answers, AnswerFields
<1>2. CASE w.callback = "get_status"
  <2>1. res = handleGetConfigStatus(w, reply)
    BY <1>2 DEF Accept
  <2> QED
    BY <1>1, <1>2, <2>1, StatusHandled DEF Handled
<1>3. CASE w.callback # "get_status" /\ (~Success(w, reply) \/ w.callback = "reset")
  <2>1. res = Then(w, <<>>)
    BY <1>3 DEF Accept
  <2> HIDE DEF res
  <2> QED
    BY <2>1, ThenFields DEF Handled, res
<1>4. CASE ~(w.callback = "get_status" \/ ~Success(w, reply) \/ w.callback = "reset")
  <2>1. reply.ok
    <3>1. ~(w.callback = "set_config" /\ reply.op = "scan_status")
      OBVIOUS
    <3> QED
      BY <1>4, <3>1 DEF Success
  <2>2. CASE w.callback = "session"
    <3> DEFINE v == [w EXCEPT !.provState = "READY"]
    <3>1. v \in Windows /\ v.shown = w.shown /\ v.timer = w.timer /\ SameList(v, w)
      BY <1>1 DEF Windows, States, SameList
    <3>2. res = Calls(v, "scan_status", Ask("scan_status"))
      BY <1>4, <2>2 DEF Accept, getScanStatus
    <3> HIDE DEF v, res
    <3>3. AskStatus(w, res)
      BY <2>2, <3>1, <3>2, CallsFields DEF AskStatus, SameList
    <3> QED
      BY <3>3 DEF Handled, res
  <2>3. CASE w.callback = "scan_start"
    <3>1. res = Calls(w, "scan_status", Ask("scan_status"))
      BY <1>4, <2>3 DEF Accept, getScanStatus
    <3> HIDE DEF res
    <3>2. AskStatus(w, res)
      BY <1>1, <2>3, <3>1, CallsFields DEF AskStatus, SameList
    <3> QED
      BY <3>2 DEF Handled, res
  <2>4. CASE w.callback = "scan_status"
    <3>1. res = handleScanStatus(w, reply.finished, reply.count)
      BY <1>4, <2>4 DEF Accept
    <3>2. reply.finished
      BY <2>1, <2>4 DEF Answers
    <3>3. CASE reply.count > 0
      <4>1. res = Fetch(w, reply.count)
        BY <3>1, <3>2, <3>3 DEF handleScanStatus
      <4> HIDE DEF res
      <4>2. BeginList(w, reply, res)
        BY <1>1, <2>1, <2>4, <3>3, <4>1, FetchFields DEF BeginList
      <4> QED
        BY <4>2 DEF Handled, res
    <3>4. CASE ~(reply.count > 0)
      <4>1. res = startScan(w) /\ reply.count = 0
        BY <1>1, <3>1, <3>2, <3>4 DEF handleScanStatus
      <4> QED
        BY <2>1, <2>4, <4>1 DEF ScanAgain, Handled
    <3> QED
      BY <3>3, <3>4
  <2>5. CASE w.callback = "scan_result"
    <3> DEFINE v == TakeResults(w, reply.entries)
    <3>1. res = getScanResults(v)
      BY <1>4, <2>5 DEF Accept
    <3>2. v \in Called
      BY <1>1, TakeResultsTyped
    <3>3. v.shown = w.shown /\ v.timer = w.timer /\ v.callback = "scan_result"
      BY <1>1, <2>5 DEF TakeResults, Windows
    <3> HIDE DEF v, res
    <3>4. v \in Windows
      BY <3>2 DEF Called
    <3>5. /\ res.w.shown = v.shown /\ res.w.timer = v.timer
          /\ res.w.scanResults = v.scanResults
          /\ res.w.numScanResults = v.numScanResults
          /\ res.w.forDisplay = v.forDisplay
          /\ Fetched(v, res)
      BY <3>1, <3>4, getScanResultsFields
    <3>6. res.w.callback = "scan_result"
      BY <3>3, <3>5 DEF Fetched
    <3>7. GoOnList(w, reply, res)
      BY <2>1, <2>5, <3>2, <3>3, <3>5, <3>6 DEF GoOnList, v
    <3> QED
      BY <3>7 DEF Handled, res
  <2>6. CASE w.callback = "set_config"
    <3>1. res = Calls(w, "apply_config", Ask("apply_config"))
      BY <1>4, <2>6 DEF Accept, applyConfig
    <3> HIDE DEF res
    <3>2. GoOnElse(w, reply, res)
      BY <1>1, <2>6, <3>1, CallsFields DEF GoOnElse, SameList
    <3> QED
      BY <3>2 DEF Handled, res
  <2>7. CASE w.callback \in {"apply_config", "shutdown"}
    <3>1. \/ w.callback = "apply_config" /\ res = After(w, "get_status")
          \/ w.callback = "shutdown" /\ res = After(w, "homepage")
      BY <1>4, <2>7 DEF Accept
    <3> HIDE DEF res
    <3>2. GoOnElse(w, reply, res)
      BY <1>1, <2>1, <2>7, <3>1, AfterFields DEF GoOnElse
    <3> QED
      BY <3>2 DEF Handled, res
  <2>8. CASE w.callback = "homepage"
    <3> DEFINE v == [w EXCEPT !.shown = "redirect"]
    <3>1. res = Then(v, <<>>)
      BY <1>4, <2>8 DEF Accept
    <3>2. /\ v.shown = "redirect" /\ v.timer = w.timer /\ SameList(v, w)
          /\ v.provState = w.provState /\ v.callback = w.callback
      BY <1>1 DEF Windows, SameList
    <3> HIDE DEF v, res
    <3>3. GoOnElse(w, reply, res)
      BY <2>8, <3>1, <3>2, ThenFields DEF GoOnElse
    <3> QED
      BY <3>3 DEF Handled, res
  <2> QED
    BY <1>1, <1>4, <2>2, <2>3, <2>4, <2>5, <2>6, <2>7, <2>8
       DEF Operations, ConfigOps, ScanOps, Json
<1> QED
  BY <1>2, <1>3, <1>4

\* A window that asks for something shows neither the form nor a failure, unless
\* that is what goes with what it asks for.
LEMMA AskSettled ==
    ASSUME NEW w \in Windows, w.timer = {}, NEW op \in Operations, NEW requests,
           w.shown = "form" => op = "scan_result", w.shown = "failed" => op = "reset"
    PROVE  LET res == Calls(w, op, requests)
           IN  Settled(res.w) /\ res.w.timer = {}
  BY CallsFields DEF Settled

LEMMA AcceptSettled ==
    ASSUME NEW w \in Called, NEW reply \in Answers, reply.op = w.callback,
           Settled(w), w.timer = {}
    PROVE  LET res == Accept(w, reply)
           IN  Settled(res.w) /\ (res.requests # <<>> => res.w.timer = {})
<1> SUFFICES ASSUME NEW res, Handled(w, reply, res)
             PROVE  Settled(res.w) /\ (res.requests # <<>> => res.w.timer = {})
  BY AcceptHandled
<1>2. w \in Windows
  BY DEF Called
<1>3. CASE AskStatus(w, res)
  BY <1>3 DEF AskStatus, Settled
<1>4. CASE BeginList(w, reply, res) \/ GoOnList(w, reply, res)
  BY <1>4 DEF BeginList, GoOnList, Settled
<1>5. CASE ScanAgain(w, reply, res)
  BY <1>2, <1>5, startScanFields DEF ScanAgain, Settled
<1>6. CASE GoOnElse(w, reply, res)
  BY <1>6 DEF GoOnElse, Settled
<1> QED
  BY <1>3, <1>4, <1>5, <1>6 DEF Handled

LEMMA PopDialogue ==
    ASSUME NEW w, NEW s \in Queues, s # <<>>, Dialogue(w, s)
    PROVE  Dialogue(w, Tail(s))
<1> DEFINE t == Tail(s)
<1>1. t \in Queues /\ Len(t) = Len(s) - 1
      /\ \A i \in DOMAIN t : i + 1 \in DOMAIN s /\ t[i] = s[i + 1]
  BY PopQueue
<1>2. Len(s) \in Nat
  BY DEF Queues
<1> HIDE DEF t
<1>3. ASSUME NEW i \in DOMAIN t, t[i].live
      PROVE  /\ t[i].op = w.callback \/ <<t[i].op, w.callback>> \in Crossed
             /\ t[i].op = w.callback => i = Len(t)
  <2>1. i \in Nat
    BY <1>1 DEF Queues
  <2> QED
    BY <1>1, <1>2, <1>3, <2>1 DEF Dialogue
<1>4. w.timer = {}
  BY DEF Dialogue
<1> QED
  BY <1>3, <1>4 DEF Dialogue, t

LEMMA UnavailableDialogue ==
    ASSUME NEW w \in Windows, NEW s, Dialogue(w, s)
    PROVE  Dialogue(updateUIServiceUnavailable(w), s)
<1>1. LET v == updateUIServiceUnavailable(w)
      IN  v.shown = "unavailable" /\ v.timer = w.timer /\ v.callback = w.callback
  BY DEF updateUIServiceUnavailable, Windows
<1> QED
  BY <1>1 DEF Dialogue, Settled

\* Nothing is added to a queue.
LEMMA NothingSent ==
    ASSUME NEW s \in Queues
    PROVE  s \o <<>> = s
  BY DEF Queues

LEMMA LastTail ==
    ASSUME NEW S, NEW s \in Seq(S), Len(s) = 1
    PROVE  Tail(s) = <<>>
<1>1. Tail(s) \in Seq(S) /\ Len(Tail(s)) = 0
  OBVIOUS
<1> DEFINE t == Tail(s)
<1> HIDE DEF t
<1>2. t = <<>>
  BY <1>1, EmptySeq DEF t
<1> QED
  BY <1>2 DEF t

\* A window's step, and the rest of them.
LEMMA GoOnWindows ==
    ASSUME TypeInv, NEW p \in Pages, NEW res, NEW s0, GoOn(p, res, s0)
    PROVE  /\ page'[p] = res.w /\ sent'[p] = s0 \o res.requests
           /\ \A q \in Pages \ {p} : page'[q] = page[q] /\ sent'[q] = sent[q]
  BY DEF GoOn, TypeInv

\* The oldest request of a window, when it has an answer.
LEMMA HeadAnswered ==
    ASSUME TypeInv, NEW p \in Pages, sent[p] # <<>>, Head(sent[p]).reply # Pending
    PROVE  /\ sent[p] \in Queues /\ page[p] \in Called
           /\ 1 \in DOMAIN sent[p] /\ Head(sent[p]) = sent[p][1]
           /\ Head(sent[p]) \in Requests /\ Head(sent[p]).live
           /\ Head(sent[p]).reply \in Answers
           /\ Head(sent[p]).reply.op = Head(sent[p]).op
           /\ Head(sent[p]).op \in Operations
           /\ Head(sent[p]).n \in Nat
           /\ Len(Head(sent[p]).reply.entries) <= Head(sent[p]).n
<1> DEFINE s == sent[p]
<1>1. s \in Queues /\ s \in Seq(Requests) /\ page[p] \in Called
  BY ShownIsCalled DEF TypeInv, Queues
<1>2. 1 \in DOMAIN s /\ Head(s) = s[1] /\ Head(s) \in Requests
  <2> HIDE DEF s
  <2> QED
    BY <1>1 DEF s
<1>3. Head(s).live /\ Head(s).reply \in Answers /\ Head(s).reply.op = Head(s).op
      /\ Head(s).op \in Operations /\ Head(s).n \in Nat
      /\ Len(Head(s).reply.entries) <= Head(s).n
  BY <1>2 DEF Requests, RequestFields
<1> QED
  BY <1>1, <1>2, <1>3

\* A response is its window's own and the last that it waits for, is let pass, or
\* says that the session is gone.
HandledAs(w, s, a, res) ==
    \/ /\ a.http = 200 /\ a.op = w.callback /\ Tail(s) = <<>>
       /\ Handled(w, a, res)
       /\ Settled(res.w) /\ (res.requests # <<>> => res.w.timer = {})
    \/ a.http = 200 /\ a.op # w.callback /\ res.w = w /\ res.requests = <<>>
    \/ a.http = 405 /\ res.w = updateUIServiceUnavailable(w) /\ res.requests = <<>>

LEMMA HandleCases ==
    ASSUME HandlerInv, "memory" \notin MayFail, NEW p \in Pages, HandleResponse(p)
    PROVE  LET w == page[p]
               s == sent[p]
               a == Head(s).reply
               res == handleProtocommResponse(w, a)
           IN  /\ s # <<>> /\ a # Pending /\ GoOn(p, res, Tail(s))
               /\ w.timer = {} /\ Outcome(res)
               /\ HandledAs(w, s, a, res)
<1> DEFINE s == sent[p]
           w == page[p]
           a == Head(s).reply
           res == handleProtocommResponse(w, a)
<1>1. TypeInv /\ Dialogue(w, s)
  BY DEF HandlerInv, Dialogues
<1>2. s # <<>> /\ a # Pending /\ GoOn(p, res, Tail(s))
  BY DEF HandleResponse
<1>3. /\ s \in Queues /\ w \in Called /\ 1 \in DOMAIN s /\ Head(s) = s[1]
      /\ s[1].live /\ a \in Answers /\ a.op = s[1].op /\ a.op \in Operations
  BY <1>1, <1>2, HeadAnswered
<1>4. w.timer = {} /\ Settled(w)
  BY <1>1, <1>2 DEF Dialogue
<1>5. a.http \in {200, 405}
  BY <1>3 DEF Answers, AnswerFields
<1>6. Outcome(res)
  BY <1>3, ResponseOutcome
<1>7. HandledAs(w, s, a, res)
  <2>1. CASE a.http = 405
    <3>1. res = Then(updateUIServiceUnavailable(w), <<>>)
      BY <2>1 DEF handleProtocommResponse
    <3>2. res.w = updateUIServiceUnavailable(w) /\ res.requests = <<>>
      BY <3>1, ThenFields
    <3> QED
      BY <2>1, <3>2 DEF HandledAs
  <2>2. CASE a.http = 200 /\ a.op = w.callback
    <3>1. Tail(s) = <<>>
      <4>1. Len(s) = 1
        BY <1>1, <1>3, <2>2 DEF Dialogue
      <4>2. s \in Seq(Requests)
        BY <1>3 DEF Queues
      <4> QED
        BY <4>1, <4>2, LastTail
    <3>2. IsResponse(w.callback, a)
      BY <2>2 DEF IsResponse, Decodes
    <3>3. res = Accept(w, a)
      BY <2>2, <3>2 DEF handleProtocommResponse
    <3>4. Handled(w, a, res)
          /\ Settled(res.w) /\ (res.requests # <<>> => res.w.timer = {})
      BY <1>3, <1>4, <2>2, <3>3, AcceptHandled, AcceptSettled
    <3> QED
      BY <2>2, <3>1, <3>4 DEF HandledAs
  <2>3. CASE a.http = 200 /\ a.op # w.callback
    <3>1. <<a.op, w.callback>> \in Crossed
      BY <1>1, <1>3, <2>3 DEF Dialogue
    <3>2. ~IsResponse(w.callback, a) /\ w.callback \notin Json
      BY <1>3, <3>1, CrossedApart
    <3>3. res = Then(w, <<>>)
      BY <2>3, <3>2 DEF handleProtocommResponse
    <3>4. res.w = w /\ res.requests = <<>>
      BY <3>3, ThenFields
    <3> QED
      BY <2>3, <3>4 DEF HandledAs
  <2> QED
    BY <1>5, <2>1, <2>2, <2>3
<1> QED
  BY <1>2, <1>4, <1>6, <1>7

LEMMA HandleDialogue ==
    ASSUME HandlerInv, "memory" \notin MayFail, NEW p \in Pages, HandleResponse(p)
    PROVE  Dialogues'
<1> DEFINE s == sent[p]
           w == page[p]
           a == Head(s).reply
<1>1. TypeInv /\ Dialogue(w, s)
  BY DEF HandlerInv, Dialogues
<1>2. PICK res : /\ s # <<>> /\ a # Pending /\ GoOn(p, res, Tail(s))
                 /\ Outcome(res) /\ HandledAs(w, s, a, res)
  BY HandleCases
<1>3. /\ Dialogue(updateUIServiceUnavailable(w), Tail(s)) /\ Dialogue(w, Tail(s))
      /\ Tail(s) \o <<>> = Tail(s)
  <2>1. w \in Windows /\ s \in Queues
    BY <1>1, <1>2, HeadAnswered DEF Called
  <2>2. Tail(s) \in Queues
    BY <1>2, <2>1, PopQueue
  <2> QED
    BY <1>1, <1>2, <2>1, <2>2, PopDialogue, UnavailableDialogue, NothingSent
<1>4. Dialogue(res.w, Tail(s) \o res.requests)
  <2>1. CASE /\ Tail(s) = <<>> /\ Settled(res.w)
             /\ res.requests # <<>> => res.w.timer = {}
    <3>1. Dialogue(res.w, <<>> \o res.requests)
      BY <1>2, <2>1, AloneDialogue
    <3> QED
      BY <2>1, <3>1
  <2>2. CASE res.w \in {w, updateUIServiceUnavailable(w)} /\ res.requests = <<>>
    BY <1>3, <2>2
  <2> QED
    BY <1>2, <2>1, <2>2 DEF HandledAs
<1>5. /\ page'[p] = res.w /\ sent'[p] = Tail(s) \o res.requests
      /\ \A q \in Pages \ {p} : page'[q] = page[q] /\ sent'[q] = sent[q]
  BY <1>1, <1>2, GoOnWindows
<1> QED
  BY <1>4, <1>5 DEF HandlerInv, Dialogues

\* A window that is loaded starts from nothing.
Loaded(res) ==
    /\ res.requests = Ask("session")
    /\ res.w.callback = "session" /\ res.w.shown = "scanning"
    /\ res.w.provState = "INITIALIZING" /\ res.w.timer = {}
    /\ SameList(res.w, Unloaded)

LEMMA LoadCases ==
    ASSUME TypeInv, NEW p \in Pages, Load(p)
    PROVE  \E res : /\ GoOn(p, res, Forget(Unanswered(p))) /\ Outcome(res)
                    /\ Loaded(res)
<1> DEFINE u == [Unloaded EXCEPT !.shown = "scanning"]
           v == [u EXCEPT !.provState = "INITIALIZING"]
           res == requestSec0Session(u)
<1>1. GoOn(p, res, Forget(Unanswered(p)))
  BY DEF Load
<1>2. /\ v \in Windows /\ v.shown = "scanning" /\ v.timer = {}
      /\ v.provState = "INITIALIZING" /\ SameList(v, Unloaded)
  <2>1. "INITIALIZING" \in States /\ "scanning" \in Shown
    BY DEF States, Shown
  <2>2. u \in Windows /\ u.shown = "scanning" /\ u.timer = {} /\ SameList(u, Unloaded)
    BY <2>1, UnloadedTyped DEF Windows, Unloaded, SameList
  <2> HIDE DEF u
  <2> QED
    BY <2>1, <2>2 DEF Windows, SameList
<1>3. "session" \in Operations
  BY DEF Operations
<1>4. res = Calls(v, "session", Ask("session"))
  BY DEF requestSec0Session
<1> HIDE DEF v, res
<1>5. Loaded(res) /\ Outcome(res)
  BY <1>2, <1>3, <1>4, CallsFields, AskOutcome DEF Loaded, SameList
<1> QED
  BY <1>1, <1>5

\* A window that is loaded listens to its request alone.
LEMMA LoadDialogue ==
    ASSUME HandlerInv, NEW p \in Pages, Load(p)
    PROVE  Dialogues'
<1> DEFINE s0 == Forget(Unanswered(p))
<1>1. TypeInv
  BY DEF HandlerInv
<1>2. PICK res : GoOn(p, res, s0) /\ Outcome(res) /\ Loaded(res)
  BY <1>1, LoadCases
<1>3. s0 \in Queues /\ \A i \in DOMAIN s0 : ~s0[i].live
  BY <1>1, ForgetQueue DEF TypeInv
<1> HIDE DEF s0
<1>4. PICK r \in Fresh : res.requests = <<r>> /\ r.op = res.w.callback
  BY <1>2, AskSends DEF Outcome, Loaded
<1>5. Dialogue(res.w, s0 \o res.requests)
  BY <1>2, <1>3, <1>4, CrossingDialogue DEF Loaded, Settled
<1>6. /\ page'[p] = res.w /\ sent'[p] = s0 \o res.requests
      /\ \A q \in Pages \ {p} : page'[q] = page[q] /\ sent'[q] = sent[q]
  BY <1>1, <1>2, GoOnWindows
<1> QED
  BY <1>5, <1>6 DEF HandlerInv, Dialogues

\* What a button does, unless the session was not granted: it scans, or it sends
\* credentials.
Scans(w, res) ==
    /\ w.provState \notin NotReady
    /\ res.requests = Ask("scan_start")
    /\ res.w.callback = "scan_start" /\ res.w.shown = "scanning"
    /\ res.w.provState = "SCANNING"
    /\ res.w.timer = w.timer /\ res.w.scanResults = <<>>
    /\ res.w.numScanResults = w.numScanResults
    /\ res.w.scanIndex = w.scanIndex /\ res.w.forDisplay = w.forDisplay

Applies(w, res) ==
    /\ w.provState \notin NotReady
    /\ \E n \in {0, 1} : res.requests = Send("set_config", 0, n)
    /\ res.w.callback = "set_config" /\ res.w.shown = "connecting"
    /\ res.w.provState = "CONFIGURING"
    /\ res.w.timer = w.timer /\ SameList(res.w, w)

Pressed(w, res) ==
    \/ res.w = w /\ res.requests = <<>>
    \/ w.shown \in {"form", "failed"} /\ Scans(w, res)
    \/ w.shown = "form" /\ Applies(w, res)

LEMMA ButtonCases ==
    ASSUME TypeInv, NEW p \in Pages,
           Rescan(p) \/ GoBack(p) \/ \E fits \in BOOLEAN : ApplyButton(p, fits)
    PROVE  /\ page[p] \in Called /\ page[p].shown \in {"form", "failed"}
           /\ \E res : /\ GoOn(p, res, sent[p]) /\ Outcome(res) /\ Pressed(page[p], res)
                       /\ Scans(page[p], res) => Quiet(p)
<1> DEFINE w == page[p]
<1>1. w \in Called /\ w \in Windows /\ w.shown \in {"form", "failed"}
  BY ShownIsCalled DEF Rescan, GoBack, ApplyButton, Called
<1>2. CASE Rescan(p) \/ GoBack(p)
  <2> DEFINE res == startScan(w)
  <2>1. GoOn(p, res, sent[p])
    BY <1>2 DEF Rescan, GoBack
  <2>2. Outcome(res)
    BY <1>1, startScanOutcome
  <2>3. Pressed(w, res)
    BY <1>1, startScanFields DEF Pressed, Scans
  <2>4. Quiet(p)
    BY <1>2 DEF Rescan, GoBack
  <2> QED
    BY <1>1, <2>1, <2>2, <2>3, <2>4
<1>3. CASE \E fits \in BOOLEAN : ApplyButton(p, fits)
  <2>1. PICK fits \in BOOLEAN : ApplyButton(p, fits)
    BY <1>3
  <2> DEFINE res == setConfig(w, fits)
             v == [w EXCEPT !.provState = "CONFIGURING", !.shown = "connecting"]
             request == Send("set_config", 0, IF fits THEN 0 ELSE 1)
  <2>2. GoOn(p, res, sent[p]) /\ w.shown = "form"
    BY <2>1 DEF ApplyButton
  <2>3. Outcome(res)
    BY <1>1, setConfigOutcome
  <2>4. Pressed(w, res) /\ ~Scans(w, res)
    <3>1. CASE w.provState \in NotReady
      <4>1. res = Then(w, <<>>)
        BY <3>1 DEF setConfig
      <4> QED
        BY <3>1, <4>1, ThenFields DEF Pressed, Scans
    <3>2. CASE w.provState \notin NotReady
      <4>1. res = Calls(v, "set_config", request)
        BY <3>2 DEF setConfig
      <4>2. /\ v \in Windows /\ v.timer = w.timer /\ v.shown = "connecting"
            /\ SameList(v, w) /\ v.provState = "CONFIGURING"
        BY <1>1 DEF Windows, States, Shown, SameList
      <4>3. \E n \in {0, 1} : request = Send("set_config", 0, n)
        OBVIOUS
      <4> HIDE DEF v, request, res
      <4>4. Applies(w, res)
        BY <3>2, <4>1, <4>2, <4>3, CallsFields DEF Applies, SameList
      <4>5. ~Scans(w, res)
        BY <4>4 DEF Applies, Scans
      <4> QED
        BY <2>2, <4>4, <4>5 DEF Pressed
    <3> QED
      BY <3>1, <3>2
  <2> QED
    BY <1>1, <2>2, <2>3, <2>4
<1> QED
  BY <1>2, <1>3

\* Buttons: the list is still being fetched, or the session is being reset.
LEMMA ButtonDialogue ==
    ASSUME HandlerInv, NEW p \in Pages,
           Rescan(p) \/ GoBack(p) \/ \E fits \in BOOLEAN : ApplyButton(p, fits)
    PROVE  Dialogues'
<1> DEFINE s == sent[p]
           w == page[p]
<1>1. TypeInv /\ Dialogue(w, s) /\ s \in Queues
  BY DEF HandlerInv, Dialogues, TypeInv
<1>2. w \in Called /\ w.shown \in {"form", "failed"}
  BY <1>1, ButtonCases
<1>3. PICK res : GoOn(p, res, s) /\ Outcome(res) /\ Pressed(w, res)
  BY <1>1, ButtonCases
<1>4. w.timer = {} /\ Settled(w)
  BY <1>1, <1>2 DEF Dialogue, Settled
<1>5. \A i \in DOMAIN s : s[i].live => s[i].op = w.callback
  <2>1. w.callback \in {"scan_result", "reset"}
    BY <1>2, <1>4 DEF Settled
  <2>2. \A op \in Operations :
            <<op, "scan_result">> \notin Crossed /\ <<op, "reset">> \notin Crossed
    BY DEF Crossed
  <2>3. \A i \in DOMAIN s : s[i].op \in Operations
    BY <1>1 DEF Queues, Requests, RequestFields
  <2> QED
    BY <1>1, <2>1, <2>2, <2>3 DEF Dialogue
<1>6. Dialogue(res.w, s \o res.requests)
  <2>1. CASE res.w = w /\ res.requests = <<>>
    BY <1>1, <2>1, NothingSent
  <2>2. CASE /\ res.requests # <<>> /\ res.w.timer = {} /\ Settled(res.w)
             /\ <<w.callback, res.w.callback>> \in Crossed
    <3>1. PICK r \in Fresh : res.requests = <<r>> /\ r.op = res.w.callback
      BY <1>3, <2>2 DEF Outcome
    <3>2. \A i \in DOMAIN s : s[i].live => <<s[i].op, res.w.callback>> \in Crossed
      BY <1>5, <2>2
    <3> HIDE DEF s
    <3> QED
      BY <1>1, <2>2, <3>1, <3>2, CrossingDialogue
  <2>3. CASE Scans(w, res)
    <3>1. res.requests # <<>> /\ res.w.timer = {} /\ Settled(res.w)
      BY <1>4, <2>3, AskSends DEF Scans, Settled, Operations, ScanOps
    <3>2. <<w.callback, res.w.callback>> \in Crossed
      BY <1>2, <1>4, <2>3 DEF Scans, Settled, Crossed
    <3> QED
      BY <2>2, <3>1, <3>2
  <2>4. CASE w.shown = "form" /\ Applies(w, res)
    <3>1. res.requests # <<>> /\ res.w.timer = {} /\ Settled(res.w)
      BY <1>4, <2>4, AskSends DEF Applies, Settled
    <3>2. <<w.callback, res.w.callback>> \in Crossed
      BY <1>4, <2>4 DEF Applies, Settled, Crossed
    <3> QED
      BY <2>2, <3>1, <3>2
  <2> QED
    BY <1>3, <2>1, <2>3, <2>4 DEF Pressed
<1>7. /\ page'[p] = res.w /\ sent'[p] = s \o res.requests
      /\ \A q \in Pages \ {p} : page'[q] = page[q] /\ sent'[q] = sent[q]
  BY <1>1, <1>3, GoOnWindows
<1> QED
  BY <1>6, <1>7 DEF HandlerInv, Dialogues

\* A window's timer expires, which then is its only one.
Ticked(w, op, res) ==
    /\ op \in w.timer /\ op \in Timers
    /\ res.requests = Ask(op) /\ res.w.callback = op
    /\ res.w.shown = w.shown /\ res.w.provState = w.provState /\ res.w.timer = {}
    /\ SameList(res.w, w)

LEMMA TimerCases ==
    ASSUME HandlerInv, NEW p \in Pages, NEW timer \in Timers, TimerFires(p, timer)
    PROVE  /\ sent[p] = <<>> /\ page[p].shown \notin {"form", "failed"}
           /\ page[p] \in Called
           /\ \E res : /\ GoOn(p, res, sent[p]) /\ Outcome(res)
                       /\ Ticked(page[p], timer, res)
<1> DEFINE s == sent[p]
           v == [page[p] EXCEPT !.timer = @ \ {timer}]
<1>1. TypeInv /\ Dialogue(page[p], s) /\ timer \in page[p].timer
  BY DEF HandlerInv, Dialogues, TimerFires
<1>2. page[p] \in Windows /\ page[p] \in Called
  BY <1>1, ShownIsCalled DEF Called
<1>3. /\ v \in Windows /\ v.timer = {} /\ v.shown = page[p].shown
      /\ v.provState = page[p].provState /\ SameList(v, page[p])
  <2>1. page[p].timer \ {timer} = {}
    BY <1>1 DEF Dialogue, Settled
  <2> QED
    BY <1>2, <2>1 DEF Windows, SameList
<1>4. s = <<>> /\ page[p].shown # "form" /\ page[p].shown # "failed"
  BY <1>1 DEF Dialogue, Settled
<1> HIDE DEF v
<1>5. GoOn(p, Calls(v, timer, Ask(timer)), s)
  BY DEF TimerFires, Timers, getScanStatus, getConfigStatus, getHomepageUrl, v
<1>6. timer \in Operations
  BY DEF Timers, Operations, ConfigOps, ScanOps, Json
<1> DEFINE res == Calls(v, timer, Ask(timer))
<1>7. Outcome(res) /\ Ticked(page[p], timer, res)
  BY <1>1, <1>3, <1>6, AskOutcome, CallsFields DEF Ticked, SameList
<1> QED
  BY <1>2, <1>4, <1>5, <1>7

LEMMA TimerDialogue ==
    ASSUME HandlerInv, NEW p \in Pages, NEW timer \in Timers, TimerFires(p, timer)
    PROVE  Dialogues'
<1>1. TypeInv
  BY DEF HandlerInv
<1>2. PICK res : /\ GoOn(p, res, sent[p]) /\ Outcome(res)
                 /\ Ticked(page[p], timer, res)
  BY TimerCases
<1>3. sent[p] = <<>> /\ page[p].shown \notin {"form", "failed"}
  BY TimerCases
<1>4. Dialogue(res.w, <<>> \o res.requests)
  BY <1>2, <1>3, AloneDialogue DEF Ticked, Settled
<1>5. /\ page'[p] = res.w /\ sent'[p] = <<>> \o res.requests
      /\ \A q \in Pages \ {p} : page'[q] = page[q] /\ sent'[q] = sent[q]
  BY <1>1, <1>2, <1>3, GoOnWindows
<1> QED
  BY <1>4, <1>5 DEF HandlerInv, Dialogues

\* Who asks for too long is told so, and no longer listens.
Muted(s, t, i) ==
    /\ i \in DOMAIN s /\ s[i].reply = Pending
    /\ t \in Queues /\ Len(t) = Len(s) /\ DOMAIN t = DOMAIN s
    /\ t[i] = [s[i] EXCEPT !.live = FALSE] /\ ~t[i].live
    /\ \A j \in DOMAIN s \ {i} : t[j] = s[j]

LEMMA TimeoutCases ==
    ASSUME TypeInv, NEW p \in Pages, RequestTimeout(p)
    PROVE  /\ page[p] \in Called
           /\ page'[p] = updateUIServiceUnavailable(page[p])
           /\ \E i \in Nat : Muted(sent[p], sent'[p], i)
           /\ \A q \in Pages \ {p} : page'[q] = page[q] /\ sent'[q] = sent[q]
<1> DEFINE s == sent[p]
           v == updateUIServiceUnavailable(page[p])
<1>1. PICK i \in DOMAIN s :
        s[i].reply = Pending /\ GoOn(p, Then(v, <<>>), [s EXCEPT ![i].live = FALSE])
  BY DEF RequestTimeout
<1> DEFINE t == [s EXCEPT ![i].live = FALSE]
<1>2. s \in Queues /\ s # <<>> /\ i \in Nat
  BY <1>1 DEF TypeInv, Queues
<1>3. page[p] \in Called
  BY <1>2, ShownIsCalled
<1>4. /\ t \in Queues /\ Len(t) = Len(s)
      /\ t[i] = [s[i] EXCEPT !.live = FALSE]
      /\ \A j \in DOMAIN s \ {i} : t[j] = s[j]
  BY <1>1, <1>2, MuteQueue
<1>5. ~t[i].live /\ DOMAIN t = DOMAIN s
  <2>1. s[i] \in RequestFields /\ DOMAIN s = 1 .. Len(s)
    BY <1>1, <1>2 DEF Queues, Requests
  <2> HIDE DEF t
  <2>2. DOMAIN t = 1 .. Len(t)
    BY <1>4 DEF Queues
  <2> QED
    BY <1>4, <2>1, <2>2 DEF RequestFields
<1>6. GoOn(p, Then(v, <<>>), t)
  BY <1>1
<1> HIDE DEF t
<1>7. /\ page'[p] = Then(v, <<>>).w /\ sent'[p] = t \o Then(v, <<>>).requests
      /\ \A q \in Pages \ {p} : page'[q] = page[q] /\ sent'[q] = sent[q]
  BY <1>6, GoOnWindows
<1>8. Then(v, <<>>).w = v /\ Then(v, <<>>).requests = <<>> /\ t \o <<>> = t
  BY <1>4, ThenFields, NothingSent
<1>9. Muted(s, t, i)
  BY <1>1, <1>4, <1>5 DEF Muted
<1> QED
  BY <1>2, <1>3, <1>7, <1>8, <1>9

LEMMA TimeoutDialogue ==
    ASSUME HandlerInv, NEW p \in Pages, RequestTimeout(p)
    PROVE  Dialogues'
<1> DEFINE s == sent[p]
           w == page[p]
           t == sent'[p]
<1>1. TypeInv /\ Dialogue(w, s)
  BY DEF HandlerInv, Dialogues
<1>2. /\ w \in Windows
      /\ page'[p] = updateUIServiceUnavailable(w)
      /\ \A q \in Pages \ {p} : page'[q] = page[q] /\ sent'[q] = sent[q]
  BY <1>1, TimeoutCases DEF Called
<1>3. PICK i \in Nat : Muted(s, t, i)
  BY <1>1, TimeoutCases
<1>4. Dialogue(w, t)
  <2> HIDE DEF s, t, w
  <2>1. s # <<>> /\ i \in DOMAIN s /\ DOMAIN t = DOMAIN s /\ Len(t) = Len(s)
        /\ ~t[i].live /\ \A j \in DOMAIN s \ {i} : t[j] = s[j]
    BY <1>3 DEF Muted
  <2>2. \A j \in DOMAIN s : t[j].live => t[j] = s[j]
    BY <2>1
  <2> QED
    BY <1>1, <2>1, <2>2 DEF Dialogue
<1> QED
  BY <1>1, <1>2, <1>4, UnavailableDialogue DEF HandlerInv, Dialogues

\* A request that is answered, or given up, and the rest of the queue.
LEMMA AnswerCases ==
    ASSUME TypeInv, NEW p \in Pages, Answering(p)
    PROVE  /\ page' = page /\ sent'[p] \in Queues
           /\ \A q \in Pages \ {p} : sent'[q] = sent[q]
           /\ \E m \in Nat, a \in Answers :
                 /\ First(sent[p], m) /\ True(p, m, a) /\ Moves(sent[p][m].op, a)
                 /\ Told(sent[p], sent'[p], m, a) \/ Removed(sent[p], sent'[p], m)
<1>1. PICK m \in Nat, a \in Answers :
        /\ First(sent[p], m) /\ True(p, m, a) /\ Moves(sent[p][m].op, a)
        /\ Answer(p, a)
  BY DEF Answering
<1>2. /\ sent' = [sent EXCEPT ![p] = sent'[p]] /\ sent'[p] \in Queues
      /\ Told(sent[p], sent'[p], m, a) \/ Removed(sent[p], sent'[p], m)
  BY <1>1, AnswerQueue DEF TypeInv, True
<1>3. page' = page
  BY <1>1 DEF Answer
<1>4. \A q \in Pages \ {p} : sent'[q] = sent[q]
  BY <1>2 DEF TypeInv
<1> QED
  BY <1>1, <1>2, <1>3, <1>4

\* What is left in a queue was there before, at its place or behind it, and the last
\* is the last.
LEMMA LeftBehind ==
    ASSUME NEW s \in Queues, NEW t \in Queues, NEW m \in Nat, First(s, m), NEW a,
           Told(s, t, m, a) \/ Removed(s, t, m)
    PROVE  /\ Len(t) <= Len(s)
           /\ \A i \in DOMAIN t : \E j \in DOMAIN s :
                 /\ t[i] = s[j] \/ (j = m /\ t[i] = [s[m] EXCEPT !.reply = a])
                 /\ t[i].op = s[j].op /\ t[i].live = s[j].live /\ t[i].n = s[j].n
                 /\ t[i].from = s[j].from
                 /\ i <= j /\ (j = Len(s) => i = Len(t))
<1>1. /\ s \in Seq(Requests) /\ t \in Seq(Requests) /\ m \in DOMAIN s
      /\ s[m] \in RequestFields
  BY DEF First, Queues, Requests
<1>2. CASE Told(s, t, m, a)
  <2>1. t[m].op = s[m].op /\ t[m].live = s[m].live /\ t[m].n = s[m].n
        /\ t[m].from = s[m].from
    BY <1>1, <1>2 DEF Told, RequestFields
  <2>2. DOMAIN t = DOMAIN s /\ Len(t) = Len(s)
    BY <1>1, <1>2 DEF Told
  <2>3. t[m] = [s[m] EXCEPT !.reply = a] /\ \A i \in DOMAIN s \ {m} : t[i] = s[i]
    BY <1>2 DEF Told
  <2>4. ASSUME NEW i \in DOMAIN t
        PROVE  /\ t[i] = s[i] \/ (i = m /\ t[i] = [s[m] EXCEPT !.reply = a])
               /\ t[i].op = s[i].op /\ t[i].live = s[i].live /\ t[i].n = s[i].n
               /\ t[i].from = s[i].from
               /\ i = Len(s) => i = Len(t)
    BY <2>1, <2>2, <2>3
  <2>5. Len(t) <= Len(s) /\ \A i \in DOMAIN t : i <= i
    BY <1>1, <2>2
  <2> QED
    BY <2>2, <2>4, <2>5
<1>3. CASE Removed(s, t, m)
  <2>1. ASSUME NEW i \in DOMAIN t
        PROVE  \E j \in DOMAIN s : t[i] = s[j] /\ i <= j /\ (j = Len(s) => i = Len(t))
    <3>1. i \in 1 .. Len(s) - 1 /\ Len(t) = Len(s) - 1 /\ m \in 1 .. Len(s)
      BY <1>1, <1>3 DEF Removed
    <3>2. CASE i < m
      <4>1. i \in DOMAIN s /\ t[i] = s[i] /\ i # Len(s) /\ i <= i
        BY <1>1, <1>3, <3>1, <3>2 DEF Removed
      <4> QED
        BY <4>1
    <3>3. CASE i >= m
      <4>1. i + 1 \in DOMAIN s /\ t[i] = s[i + 1]
        BY <1>1, <1>3, <3>1, <3>3 DEF Removed
      <4> QED
        BY <1>1, <3>1, <4>1
    <3> QED
      BY <1>1, <3>1, <3>2, <3>3
  <2>2. Len(t) <= Len(s)
    BY <1>1, <1>3 DEF Removed
  <2> QED
    BY <2>1, <2>2
<1> QED
  BY <1>2, <1>3

LEMMA ServeDialogue ==
    ASSUME HandlerInv, NEW p \in Pages, Serve(p)
    PROVE  Dialogues'
<1>1. TypeInv /\ Dialogues
  BY DEF HandlerInv
<1>2. CASE Answering(p)
  <2> DEFINE s == sent[p]
             t == sent'[p]
             w == page[p]
  <2>1. /\ page' = page /\ t \in Queues /\ s \in Queues /\ Dialogue(w, s)
        /\ \A q \in Pages \ {p} : sent'[q] = sent[q]
    BY <1>1, <1>2, AnswerCases DEF TypeInv, Dialogues
  <2>2. PICK m \in Nat, a \in Answers :
            First(s, m) /\ (Told(s, t, m, a) \/ Removed(s, t, m))
    BY <1>1, <1>2, AnswerCases
  <2>3. Dialogue(w, t)
    <3>1. s # <<>>
      BY <2>2 DEF First
    <3> HIDE DEF s, t, w
    <3> QED
      BY <2>1, <2>2, <3>1, LeftBehind DEF Dialogue
  <2> QED
    BY <1>1, <2>1, <2>3 DEF Dialogues
<1>3. CASE Faulting(p) \/ Scanning(p)
  BY <1>1, <1>3 DEF Faulting, Scanning, Dialogues
<1> QED
  BY <1>1, <1>2, <1>3, ServeCases

LEMMA HandlerInit == Init => HandlerInv
<1> SUFFICES ASSUME Init PROVE Dialogues
  BY TypeInit DEF HandlerInv
<1>1. ASSUME NEW p \in Pages
      PROVE  page[p].timer = {} /\ page[p].shown = "none" /\ sent[p] = <<>>
  BY DEF Init, Unloaded
<1> QED
  BY <1>1 DEF Dialogues, Dialogue, Settled

LEMMA HandlerNext ==
    ASSUME "memory" \notin MayFail
    PROVE  HandlerInv /\ [Next]_vars => HandlerInv'
<1> SUFFICES ASSUME HandlerInv, [Next]_vars
             PROVE  Dialogues'
  BY TypeNext DEF HandlerInv
<1>1. ASSUME NEW p \in Pages, Load(p) \/ Rescan(p) \/ GoBack(p)
             \/ (\E fits \in BOOLEAN : ApplyButton(p, fits))
      PROVE  Dialogues'
  BY <1>1, LoadDialogue, ButtonDialogue
<1>2. ASSUME NEW p \in Pages, HandleResponse(p) \/ RequestTimeout(p)
             \/ (\E timer \in Timers : TimerFires(p, timer))
      PROVE  Dialogues'
  BY <1>2, HandleDialogue, TimeoutDialogue, TimerDialogue
<1>3. ASSUME NEW p \in Pages, Serve(p)
      PROVE  Dialogues'
  BY <1>3, ServeDialogue
<1>4. CASE ScanDone \/ GotIp \/ Rejected \/ Retried \/ TimerExpires \/ UNCHANGED vars
  BY <1>4 DEF ScanDone, GotIp, Rejected, Retried, Verdict, TimerExpires, WindowsUnchanged, vars,
              HandlerInv, Dialogues
<1> QED
  BY <1>1, <1>2, <1>3, <1>4 DEF Next

LEMMA HandlerMeansRight == HandlerInv => RightHandler
<1> SUFFICES ASSUME HandlerInv, NEW p \in Pages, sent[p] # <<>>,
                    Head(sent[p]).reply # Pending,
                    IsResponse(page[p].callback, Head(sent[p]).reply)
             PROVE  page[p].callback = Head(sent[p]).op
  BY DEF RightHandler
<1>1. TypeInv /\ Dialogue(page[p], sent[p])
  BY DEF HandlerInv, Dialogues
<1>2. /\ 1 \in DOMAIN sent[p] /\ Head(sent[p]) = sent[p][1] /\ Head(sent[p]).live
      /\ Head(sent[p]).reply.op = Head(sent[p]).op /\ Head(sent[p]).op \in Operations
  BY <1>1, HeadAnswered
<1> QED
  BY <1>1, <1>2, CrossedApart DEF Dialogue

\* While the device's memory suffices, a response is handled by the function of its
\* own request, for any number of windows and of requests under way, however often
\* the page is loaded and whatever the network does.  A lack of memory brings the
\* form back while a request is under way, and then the exception that the property
\* names, and others with more requests under way, become possible.
THEOREM HandledByOwn ==
    ASSUME "memory" \notin MayFail
    PROVE  Spec => []RightHandler
<1>1. Init => HandlerInv
  BY HandlerInit
<1>2. HandlerInv /\ [Next]_vars => HandlerInv'
  BY HandlerNext
<1>3. HandlerInv => RightHandler
  BY HandlerMeansRight
<1> QED
  BY <1>1, <1>2, <1>3, PTL DEF Spec

-----------------------------------------------------------------------------
\* What a window counts.  Of a list of numScanResults networks the first scanIndex
\* have been asked for; what is still owed to it has a row kept for each.

Early == {"session", "scan_start", "scan_status"}

Listed(w) ==
    /\ w.numScanResults <= MaxFound /\ w.scanIndex <= w.numScanResults
    /\ w.forDisplay \in 0 .. w.numScanResults
    /\ Len(w.scanResults) <= w.numScanResults
    /\ w.callback \in Early => w.scanResults = <<>>
    /\ "scan_status" \notin w.timer

\* The window waits for n entries, and will ask for the rest.
Owed(w, n) ==
    LET rest == w.numScanResults - w.scanIndex
    IN  /\ rest + n <= w.forDisplay
        /\ Len(w.scanResults) + rest + n <= w.numScanResults

Books(w, s) ==
    /\ Listed(w)
    /\ Len(s) <= MaxSent
    /\ w.callback = "scan_result" =>
            \A i \in DOMAIN s : s[i].live /\ s[i].op = "scan_result" => Owed(w, s[i].n)

AllBooks == \A p \in Pages : Books(page[p], sent[p])

BooksInv == HandlerInv /\ AllBooks

\* A part of the list arrives.
LEMMA TakeOwed ==
    ASSUME NEW w \in Called, NEW s \in Seq(Network), NEW n \in Nat, Len(s) <= n,
           Listed(w), Owed(w, n)
    PROVE  LET v == TakeResults(w, s)
           IN  /\ v \in Called /\ v.scanIndex = w.scanIndex
               /\ v.numScanResults = w.numScanResults
               /\ v.forDisplay \in 0 .. v.numScanResults
               /\ v.numScanResults - v.scanIndex <= v.forDisplay
               /\ Len(v.scanResults) + (v.numScanResults - v.scanIndex) <= v.numScanResults
<1> DEFINE t == Strong(s)
           d == Len(s) - Len(t)
           u == w.scanResults \o t
           v == [w EXCEPT !.scanResults = @ \o t, !.forDisplay = @ - d]
<1>1. t \in Seq(Network) /\ Len(t) \in 0 .. Len(s) /\ Len(s) \in Nat /\ d \in 0 .. Len(s)
  BY StrongTyped
<1>2. v = TakeResults(w, s)
  BY DEF TakeResults
<1> HIDE DEF t, d
<1>3. /\ w.scanResults \in Seq(Network) /\ w.forDisplay \in Int /\ w.numScanResults \in Nat
      /\ w.scanIndex \in Nat
  BY DEF Called, Windows
<1>4. Len(u) = Len(w.scanResults) + Len(t)
  BY <1>1, <1>3, ConcatProperties
<1> HIDE DEF u
<1>5. /\ v.scanIndex = w.scanIndex /\ v.numScanResults = w.numScanResults
      /\ v.forDisplay = w.forDisplay - d /\ v.scanResults = u
  BY DEF Called, Windows, u
<1>6. v \in Called
  BY <1>2, TakeResultsTyped
<1> HIDE DEF v
<1>7. /\ w.numScanResults - w.scanIndex + n <= w.forDisplay
      /\ Len(w.scanResults) + (w.numScanResults - w.scanIndex) + n <= w.numScanResults
      /\ w.forDisplay <= w.numScanResults /\ w.scanIndex <= w.numScanResults
  BY <1>3 DEF Owed, Listed
<1>8. Len(w.scanResults) \in Nat
  BY <1>3
<1>9. d \in Nat /\ d <= n /\ Len(t) \in Nat /\ Len(t) <= n
  BY <1>1
<1>10. w.forDisplay - d \in 0 .. w.numScanResults
       /\ w.numScanResults - w.scanIndex <= w.forDisplay - d
  BY <1>3, <1>7, <1>9
<1>11. Len(u) + (w.numScanResults - w.scanIndex) <= w.numScanResults
  BY <1>3, <1>4, <1>7, <1>8, <1>9
<1> QED
  BY <1>2, <1>5, <1>6, <1>10, <1>11

LEMMA HandledBooks ==
    ASSUME NEW w \in Called, NEW a \in Answers, NEW n \in Nat, Len(a.entries) <= n,
           Listed(w), w.callback = "scan_result" => Owed(w, n),
           NEW res, Handled(w, a, res)
    PROVE  /\ Listed(res.w)
           /\ \A r : res.requests = <<r>> /\ res.w.callback = "scan_result"
                        => Owed(res.w, r.n)
<1>1. w \in Windows /\ a.entries \in Seq(Network) /\ a.count \in Nat /\ a.count <= MaxFound
  BY DEF Called, Answers, AnswerFields
<1>2. ASSUME NEW from, NEW k, NEW r, Send("scan_result", from, k) = <<r>>
      PROVE  r.n = k
  BY <1>2 DEF Send
<1>3. CASE res.w = w /\ res.requests = <<>>
  BY <1>3
<1>4. CASE AskStatus(w, res)
  BY <1>4 DEF AskStatus, SameList, Listed, Early
<1>5. CASE BeginList(w, a, res)
  <2>1. PICK k \in 1 .. Batch :
            /\ k <= a.count
            /\ res.w.scanIndex = k /\ res.requests = Send("scan_result", 0, k)
    BY <1>5 DEF BeginList
  <2>2. /\ res.w.numScanResults = a.count /\ res.w.forDisplay = a.count
        /\ res.w.scanResults = <<>> /\ res.w.timer = w.timer
        /\ res.w.callback = "scan_result"
    BY <1>5 DEF BeginList, Listed, Early
  <2>3. Len(<<>>) = 0 /\ k \in Nat
    BY <2>1, PageSizes
  <2>4. Listed(res.w)
    BY <1>1, <2>1, <2>2, <2>3 DEF Listed, Early
  <2>5. Owed(res.w, k)
    BY <1>1, <2>1, <2>2, <2>3 DEF Owed
  <2> QED
    BY <1>2, <2>1, <2>4, <2>5
<1>6. CASE ScanAgain(w, a, res)
  <2>1. Len(<<>>) = 0 /\ w.numScanResults \in Nat
    BY <1>1 DEF Windows
  <2> QED
    BY <1>1, <1>6, <2>1, startScanFields DEF ScanAgain, Listed, Early
<1>7. CASE GoOnList(w, a, res)
  <2> DEFINE v == TakeResults(w, a.entries)
  <2>1. /\ v.scanIndex = w.scanIndex /\ v \in Called
        /\ v.numScanResults = w.numScanResults
        /\ v.forDisplay \in 0 .. v.numScanResults
        /\ v.numScanResults - v.scanIndex <= v.forDisplay
        /\ Len(v.scanResults) + (v.numScanResults - v.scanIndex) <= v.numScanResults
    BY <1>1, <1>7, TakeOwed DEF GoOnList
  <2>2. /\ res.w.scanResults = v.scanResults /\ res.w.numScanResults = v.numScanResults
        /\ res.w.forDisplay = v.forDisplay /\ res.w.timer = w.timer
        /\ res.w.callback = "scan_result" /\ Fetched(v, res)
    BY <1>7 DEF GoOnList
  <2> HIDE DEF v
  <2>3. /\ w.numScanResults \in Nat /\ w.scanIndex \in Nat /\ w.scanIndex <= w.numScanResults
        /\ v.forDisplay \in Nat /\ Len(v.scanResults) \in Nat
    BY <1>1, <2>1 DEF Windows, Listed, Called
  <2>4. CASE res.requests = <<>> /\ res.w.scanIndex = v.scanIndex
    BY <2>1, <2>2, <2>3, <2>4 DEF Listed, Early
  <2>5. CASE \E k \in 1 .. Batch :
                /\ k <= v.numScanResults - v.scanIndex
                /\ res.w.scanIndex = v.scanIndex + k
                /\ res.requests = Send("scan_result", v.scanIndex, k)
    <3>1. PICK k \in 1 .. Batch :
                /\ k <= v.numScanResults - v.scanIndex
                /\ res.w.scanIndex = v.scanIndex + k
                /\ res.requests = Send("scan_result", v.scanIndex, k)
      BY <2>5
    <3>2. k \in Nat
      BY PageSizes
    <3>3. Owed(res.w, k)
      BY <2>1, <2>2, <2>3, <3>1, <3>2 DEF Owed
    <3>4. Listed(res.w)
      BY <2>1, <2>2, <2>3, <3>1, <3>2 DEF Listed, Early
    <3> QED
      BY <1>2, <3>1, <3>3, <3>4
  <2> QED
    BY <2>2, <2>4, <2>5 DEF Fetched
<1>8. CASE GoOnElse(w, a, res)
  <2>1. SameList(res.w, w) /\ "scan_status" \notin res.w.timer
        /\ res.w.callback \notin Early \cup {"scan_result"}
    BY <1>8 DEF GoOnElse, Listed, Early
  <2> QED
    BY <2>1 DEF SameList, Listed
<1> QED
  BY <1>3, <1>4, <1>5, <1>6, <1>7, <1>8 DEF Handled

\* A window that has nothing else to wait for.
LEMMA AloneBooks ==
    ASSUME NEW res, Outcome(res), Listed(res.w),
           \A r : res.requests = <<r>> /\ res.w.callback = "scan_result"
                        => Owed(res.w, r.n)
    PROVE  Books(res.w, <<>> \o res.requests)
<1>1. CASE res.requests = <<>>
  <2>1. <<>> \o res.requests = <<>> /\ Len(<<>>) = 0
    BY <1>1
  <2> QED
    BY <2>1, PageSizes DEF Books
<1>2. CASE res.requests # <<>>
  <2>1. PICK r \in Fresh : res.requests = <<r>> /\ r.op = res.w.callback
    BY <1>2 DEF Outcome
  <2> DEFINE t == <<>> \o res.requests
  <2>2. Len(t) = 1 /\ t[1] = r /\ DOMAIN t = {1}
    BY <2>1
  <2> HIDE DEF t
  <2> QED
    BY <2>1, <2>2, PageSizes DEF Books
<1> QED
  BY <1>1, <1>2

\* A window that has stopped fetching the list.
LEMMA OtherBooks ==
    ASSUME NEW s \in Queues, Len(s) < MaxSent, NEW res, Outcome(res), Listed(res.w),
           res.w.callback # "scan_result"
    PROVE  Books(res.w, s \o res.requests)
<1>1. Len(s) \in Nat
  BY DEF Queues
<1>2. CASE res.requests = <<>>
  BY <1>1, <1>2, NothingSent, PageSizes DEF Books
<1>3. CASE res.requests # <<>>
  <2>1. PICK r \in Fresh : res.requests = <<r>>
    BY <1>3 DEF Outcome
  <2>2. Len(s \o <<r>>) = Len(s) + 1
    BY PushQueue
  <2> QED
    BY <1>1, <2>1, <2>2, PageSizes DEF Books
<1> QED
  BY <1>2, <1>3

LEMMA PopBooks ==
    ASSUME NEW w, NEW s \in Queues, s # <<>>, Books(w, s)
    PROVE  Books(w, Tail(s))
<1> DEFINE t == Tail(s)
<1>1. t \in Queues /\ Len(t) = Len(s) - 1
      /\ \A i \in DOMAIN t : i + 1 \in DOMAIN s /\ t[i] = s[i + 1]
  BY PopQueue
<1>2. Len(s) \in Nat
  BY DEF Queues
<1> HIDE DEF t
<1>3. Books(w, t)
  BY <1>1, <1>2, PageSizes DEF Books
<1> QED
  BY <1>3 DEF t

LEMMA UnavailableBooks ==
    ASSUME NEW w \in Windows, NEW s, Books(w, s)
    PROVE  Books(updateUIServiceUnavailable(w), s)
<1>1. LET v == updateUIServiceUnavailable(w)
      IN  v.timer = w.timer /\ v.callback = w.callback /\ SameList(v, w)
  BY DEF updateUIServiceUnavailable, Windows, SameList
<1> QED
  BY <1>1 DEF Books, Listed, Owed, SameList

LEMMA HandleBooks ==
    ASSUME BooksInv, "memory" \notin MayFail, NEW p \in Pages, HandleResponse(p)
    PROVE  AllBooks'
<1> DEFINE s == sent[p]
           w == page[p]
           a == Head(s).reply
<1>1. HandlerInv /\ TypeInv /\ Books(w, s)
  BY DEF BooksInv, HandlerInv, AllBooks
<1>2. PICK res : /\ s # <<>> /\ a # Pending /\ GoOn(p, res, Tail(s))
                 /\ Outcome(res) /\ HandledAs(w, s, a, res)
  BY <1>1, HandleCases
<1>3. /\ s \in Queues /\ w \in Called /\ 1 \in DOMAIN s /\ Head(s) = s[1]
      /\ s[1].live /\ a \in Answers /\ a.op = s[1].op
      /\ s[1].n \in Nat /\ Len(a.entries) <= s[1].n
  BY <1>1, <1>2, HeadAnswered
<1>4. Books(res.w, Tail(s) \o res.requests)
  <2>1. CASE a.op = w.callback /\ Tail(s) = <<>> /\ Handled(w, a, res)
    <3>1. Listed(w) /\ (w.callback = "scan_result" => Owed(w, s[1].n))
      BY <1>1, <1>3, <2>1 DEF Books
    <3>2. /\ Listed(res.w)
          /\ \A r : res.requests = <<r>> /\ res.w.callback = "scan_result"
                        => Owed(res.w, r.n)
      BY <1>3, <2>1, <3>1, HandledBooks
    <3>3. Books(res.w, <<>> \o res.requests)
      BY <1>2, <3>2, AloneBooks
    <3> QED
      BY <2>1, <3>3
  <2>2. CASE res.w \in {w, updateUIServiceUnavailable(w)} /\ res.requests = <<>>
    <3>1. w \in Windows /\ Tail(s) \in Queues
      BY <1>2, <1>3, PopQueue DEF Called
    <3> QED
      BY <1>1, <1>2, <1>3, <2>2, <3>1, PopBooks, UnavailableBooks, NothingSent
  <2> QED
    BY <1>2, <2>1, <2>2 DEF HandledAs
<1>5. /\ page'[p] = res.w /\ sent'[p] = Tail(s) \o res.requests
      /\ \A q \in Pages \ {p} : page'[q] = page[q] /\ sent'[q] = sent[q]
  BY <1>1, <1>2, GoOnWindows
<1> QED
  BY <1>4, <1>5 DEF BooksInv, AllBooks

LEMMA UnloadedListed == Listed(Unloaded)
<1>1. Len(<<>>) = 0
  OBVIOUS
<1> QED
  BY <1>1, PageSizes DEF Listed, Unloaded

LEMMA LoadBooks ==
    ASSUME BooksInv, NEW p \in Pages, Load(p)
    PROVE  AllBooks'
<1> DEFINE s0 == Forget(Unanswered(p))
<1>1. TypeInv
  BY DEF BooksInv, HandlerInv
<1>2. PICK res : GoOn(p, res, s0) /\ Outcome(res) /\ Loaded(res)
  BY <1>1, LoadCases
<1>3. s0 \in Queues /\ Len(s0) < MaxSent
  <2>1. s0 \in Queues /\ Len(s0) <= Len(sent[p]) /\ Len(sent[p]) < MaxSent
    BY <1>1, ForgetQueue DEF TypeInv, Load, MaySend
  <2> HIDE DEF s0
  <2>2. Len(s0) \in Nat /\ Len(sent[p]) \in Nat
    BY <1>1, <2>1 DEF TypeInv, Queues
  <2> QED
    BY <2>1, <2>2, PageSizes
<1> HIDE DEF s0
<1>4. Listed(res.w) /\ res.w.callback = "session"
  <2>1. Unloaded.scanResults = <<>>
    BY DEF Unloaded
  <2> QED
    BY <1>2, <2>1, UnloadedListed DEF Loaded, SameList, Listed
<1>5. Books(res.w, s0 \o res.requests)
  BY <1>2, <1>3, <1>4, OtherBooks
<1>6. /\ page'[p] = res.w /\ sent'[p] = s0 \o res.requests
      /\ \A q \in Pages \ {p} : page'[q] = page[q] /\ sent'[q] = sent[q]
  BY <1>1, <1>2, GoOnWindows
<1> QED
  BY <1>5, <1>6 DEF BooksInv, AllBooks

LEMMA ButtonBooks ==
    ASSUME BooksInv, NEW p \in Pages,
           Rescan(p) \/ GoBack(p) \/ \E fits \in BOOLEAN : ApplyButton(p, fits)
    PROVE  AllBooks'
<1> DEFINE s == sent[p]
           w == page[p]
<1>1. TypeInv /\ Books(w, s) /\ s \in Queues /\ Len(s) < MaxSent
  BY DEF BooksInv, HandlerInv, AllBooks, TypeInv, Rescan, GoBack, ApplyButton, MaySend
<1>2. PICK res : GoOn(p, res, s) /\ Outcome(res) /\ Pressed(w, res)
  BY <1>1, ButtonCases
<1>3. w \in Windows
  BY <1>1, ButtonCases DEF Called
<1>4. Books(res.w, s \o res.requests)
  <2>1. CASE res.w = w /\ res.requests = <<>>
    BY <1>1, <2>1, NothingSent
  <2>2. CASE Scans(w, res)
    <3>1. Len(<<>>) = 0 /\ w.numScanResults \in Nat
      BY <1>3 DEF Windows
    <3>2. Listed(res.w) /\ res.w.callback = "scan_start"
      BY <1>1, <2>2, <3>1 DEF Books, Listed, Scans
    <3> HIDE DEF s
    <3> QED
      BY <1>1, <1>2, <3>2, OtherBooks
  <2>3. CASE Applies(w, res)
    <3>1. Listed(res.w) /\ res.w.callback = "set_config"
      BY <1>1, <2>3 DEF Books, Listed, Applies, SameList, Early
    <3> HIDE DEF s
    <3> QED
      BY <1>1, <1>2, <3>1, OtherBooks
  <2> QED
    BY <1>2, <2>1, <2>2, <2>3 DEF Pressed
<1>5. /\ page'[p] = res.w /\ sent'[p] = s \o res.requests
      /\ \A q \in Pages \ {p} : page'[q] = page[q] /\ sent'[q] = sent[q]
  BY <1>1, <1>2, GoOnWindows
<1> QED
  BY <1>4, <1>5 DEF BooksInv, AllBooks

LEMMA TimerBooks ==
    ASSUME BooksInv, NEW p \in Pages, NEW timer \in Timers, TimerFires(p, timer)
    PROVE  AllBooks'
<1>1. HandlerInv /\ TypeInv /\ Books(page[p], sent[p])
  BY DEF BooksInv, HandlerInv, AllBooks
<1>2. PICK res : /\ GoOn(p, res, sent[p]) /\ Outcome(res)
                 /\ Ticked(page[p], timer, res)
  BY <1>1, TimerCases
<1>3. sent[p] = <<>>
  BY <1>1, TimerCases
<1>4. Listed(res.w) /\ res.w.callback # "scan_result"
  BY <1>1, <1>2 DEF Books, Listed, Ticked, Timers, SameList, Early
<1>5. Books(res.w, <<>> \o res.requests)
  BY <1>2, <1>4, AloneBooks
<1>6. /\ page'[p] = res.w /\ sent'[p] = <<>> \o res.requests
      /\ \A q \in Pages \ {p} : page'[q] = page[q] /\ sent'[q] = sent[q]
  BY <1>1, <1>2, <1>3, GoOnWindows
<1> QED
  BY <1>5, <1>6 DEF BooksInv, AllBooks

LEMMA TimeoutBooks ==
    ASSUME BooksInv, NEW p \in Pages, RequestTimeout(p)
    PROVE  AllBooks'
<1> DEFINE s == sent[p]
           w == page[p]
           t == sent'[p]
<1>1. TypeInv /\ Books(w, s)
  BY DEF BooksInv, HandlerInv, AllBooks
<1>2. /\ w \in Windows
      /\ page'[p] = updateUIServiceUnavailable(w)
      /\ \A q \in Pages \ {p} : page'[q] = page[q] /\ sent'[q] = sent[q]
  BY <1>1, TimeoutCases DEF Called
<1>3. PICK i \in Nat : Muted(s, t, i)
  BY <1>1, TimeoutCases
<1>4. Books(w, t)
  BY <1>1, <1>3 DEF Books, Muted
<1> QED
  BY <1>1, <1>2, <1>4, UnavailableBooks DEF BooksInv, AllBooks

LEMMA ServeBooks ==
    ASSUME BooksInv, NEW p \in Pages, Serve(p)
    PROVE  AllBooks'
<1>1. TypeInv /\ AllBooks
  BY DEF BooksInv, HandlerInv
<1>2. CASE Answering(p)
  <2> DEFINE s == sent[p]
             t == sent'[p]
             w == page[p]
  <2>1. /\ page' = page /\ t \in Queues /\ s \in Queues /\ Books(w, s)
        /\ \A q \in Pages \ {p} : sent'[q] = sent[q]
    BY <1>1, <1>2, AnswerCases DEF TypeInv, AllBooks
  <2>2. PICK m \in Nat, a \in Answers :
            First(s, m) /\ (Told(s, t, m, a) \/ Removed(s, t, m))
    BY <1>1, <1>2, AnswerCases
  <2>3. Books(w, t)
    <3> HIDE DEF s, t, w
    <3>1. Len(t) <= Len(s) /\ Len(s) \in Nat /\ Len(t) \in Nat
      BY <2>1, <2>2, LeftBehind DEF Queues
    <3>2. Len(t) <= MaxSent
      BY <2>1, <3>1, PageSizes DEF Books
    <3> QED
      BY <2>1, <2>2, <3>2, LeftBehind DEF Books
  <2> QED
    BY <1>1, <2>1, <2>3 DEF AllBooks
<1>3. CASE Faulting(p) \/ Scanning(p)
  BY <1>1, <1>3 DEF Faulting, Scanning, AllBooks
<1> QED
  BY <1>1, <1>2, <1>3, ServeCases

LEMMA BooksInit == Init => BooksInv
<1> SUFFICES ASSUME Init PROVE AllBooks
  BY HandlerInit DEF BooksInv
<1>1. Len(<<>>) = 0 /\ Unloaded.callback # "scan_result"
  BY DEF Unloaded
<1>2. ASSUME NEW p \in Pages
      PROVE  page[p] = Unloaded /\ sent[p] = <<>>
  BY DEF Init
<1> QED
  BY <1>1, <1>2, UnloadedListed, PageSizes DEF AllBooks, Books

LEMMA BooksNext ==
    ASSUME "memory" \notin MayFail
    PROVE  BooksInv /\ [Next]_vars => BooksInv'
<1> SUFFICES ASSUME BooksInv, [Next]_vars
             PROVE  AllBooks'
  BY HandlerNext DEF BooksInv
<1>1. ASSUME NEW p \in Pages, Load(p) \/ Rescan(p) \/ GoBack(p)
             \/ (\E fits \in BOOLEAN : ApplyButton(p, fits))
      PROVE  AllBooks'
  BY <1>1, LoadBooks, ButtonBooks
<1>2. ASSUME NEW p \in Pages, HandleResponse(p) \/ RequestTimeout(p)
             \/ (\E timer \in Timers : TimerFires(p, timer))
      PROVE  AllBooks'
  BY <1>2, HandleBooks, TimeoutBooks, TimerBooks
<1>3. ASSUME NEW p \in Pages, Serve(p)
      PROVE  AllBooks'
  BY <1>3, ServeBooks
<1>4. CASE ScanDone \/ GotIp \/ Rejected \/ Retried \/ TimerExpires \/ UNCHANGED vars
  BY <1>4 DEF ScanDone, GotIp, Rejected, Retried, Verdict, TimerExpires, WindowsUnchanged, vars,
              BooksInv, AllBooks
<1> QED
  BY <1>1, <1>2, <1>3, <1>4 DEF Next

LEMMA BooksMeanTypes == BooksInv => TypeOK
<1> SUFFICES ASSUME BooksInv PROVE TypeOK
  OBVIOUS
<1>1. TypeInv /\ AllBooks
  BY DEF BooksInv, HandlerInv
<1>2. ASSUME NEW p \in Pages
      PROVE  /\ page[p].provState \in States
             /\ page[p].shown \in Shown
             /\ page[p].timer \subseteq Timers
             /\ page[p].forDisplay \in 0 .. MaxFound
             /\ page[p].scanIndex \in 0 .. page[p].numScanResults
             /\ Len(page[p].scanResults) <= MaxFound
             /\ Len(sent[p]) <= MaxSent + 1
  <2>1. page[p] \in Windows
    BY <1>1, UnloadedTyped DEF TypeInv, Called
  <2>2. Books(page[p], sent[p]) /\ Len(sent[p]) \in Nat
    BY <1>1 DEF AllBooks, TypeInv, Queues
  <2>3. Len(page[p].scanResults) \in Nat
    BY <2>1 DEF Windows
  <2> QED
    BY <2>1, <2>2, <2>3, PageSizes DEF Windows, Books, Listed
<1> QED
  BY <1>1, <1>2 DEF TypeOK, TypeInv, Devices

\* While the device's memory suffices, no window counts past the list that it
\* fetches: every index is in its list, a row is left for each network that is still
\* to come, and a window has no more requests under way than its user may send.
THEOREM Counts ==
    ASSUME "memory" \notin MayFail
    PROVE  Spec => []TypeOK
<1>1. Init => BooksInv
  BY BooksInit
<1>2. BooksInv /\ [Next]_vars => BooksInv'
  BY BooksNext
<1>3. BooksInv => TypeOK
  BY BooksMeanTypes
<1> QED
  BY <1>1, <1>2, <1>3, PTL DEF Spec
=============================================================================
