--------------------------- MODULE ProvScanProofs ---------------------------
(***************************************************************************)
(* What ProvScan keeps for every number of channels, size of the list and  *)
(* bound on the access points of a channel, whatever fails.  First the     *)
(* loop that inserts the records of a channel into the sorted list, then   *)
(* the invariant of the scan around it.                                    *)
(***************************************************************************)
EXTENDS ProvScan, NatLemmas

Records ==
    [ch : 0 .. Channels - 1, i : 1 .. MaxFound, of : {"a", "b"}, rssi : Rssi]

Lists == [Slots -> Records \cup {Null}]

\* No gap, strongest first, no record twice.
Sorted(arr) ==
    /\ \A s, t \in Slots : s < t /\ arr[t] # Null => arr[s] # Null
    /\ \A s \in Slots : s > 0 /\ arr[s] # Null => arr[s - 1].rssi >= arr[s].rssi
    /\ \A s, t \in Slots : s # t /\ arr[s] # Null => arr[s] # arr[t]

\* The records of a channel, strongest first, none of which the list has.
Fresh(arr, new) ==
    /\ \A i \in 1 .. Len(new) - 1 : new[i].rssi >= new[i + 1].rssi
    /\ \A i, j \in 1 .. Len(new) : i # j => new[i] # new[j]
    /\ \A i \in 1 .. Len(new), s \in Slots : new[i] # arr[s]

-----------------------------------------------------------------------------
\* The loop of update_wifi_scan_results: the places up to is + rc are as they
\* were, those after it are filled with what has left the two lists.

LoopStates(new) ==
    [arr : Lists, rc : 0 .. Taken(new), is : -1 .. LastKept(Taken(new))]

Filled(s) == {t \in Slots : t > s.is + s.rc}

Untouched(old, s) == \A t \in Slots \ Filled(s) : s.arr[t] = old[t]

\* The records in place are sorted, and none is stronger than what is left.
InOrder(old, new, s) ==
    \A t \in Filled(s) : s.arr[t] # Null =>
        /\ s.is >= 0 => old[s.is] # Null
        /\ \A u \in Filled(s) : u < t => s.arr[u] # Null
        /\ IF t - 1 \in Filled(s)
           THEN s.arr[t - 1].rssi >= s.arr[t].rssi
           ELSE /\ s.rc > 0 => new[s.rc].rssi >= s.arr[t].rssi
                /\ s.is >= 0 => old[s.is].rssi >= s.arr[t].rssi
        /\ \A u \in Filled(s) \ {t} : s.arr[u] # s.arr[t]

Gone(old, new, s) ==
    {old[j] : j \in s.is + 1 .. LastKept(Taken(new))}
        \cup {new[j] : j \in s.rc + 1 .. Taken(new)}

\* Nothing but the records that are to be kept is in place, and nothing is lost.
Complete(old, new, s) ==
    {s.arr[t] : t \in Filled(s)} \ {Null} = Gone(old, new, s) \ {Null}

LoopInv(old, new, s) ==
    /\ Untouched(old, s)
    /\ InOrder(old, new, s)
    /\ Complete(old, new, s)

\* The loop has ended, or n turns are left at most.
TurnsLeft(s, n) == s.rc = 0 \/ s.is < 0 \/ s.is + s.rc < n

LEMMA NullIsNoRecord == Null \notin Records
  BY DEF Null, Records

LEMMA TakenRange ==
    ASSUME NEW new \in Seq(Records)
    PROVE  /\ Taken(new) \in 0 .. MaxResults
           /\ Taken(new) <= Len(new)
           /\ LastKept(Taken(new)) = MaxResults - Taken(new) - 1
           /\ LastKept(Taken(new)) \in -1 .. MaxResults - 1
           /\ \A i \in 1 .. Taken(new) : new[i] \in Records
  BY ScanSizes DEF ScanSizes, Taken, LastKept

LEMMA RecordRssi ==
    ASSUME NEW r \in Records
    PROVE  r.rssi \in Int /\ r # Null
<1>1. r.rssi \in Rssi
  BY DEF Records
<1> QED
  BY <1>1, ScanSizes, NullIsNoRecord DEF ScanSizes

\* At the start nothing is in place.
LEMMA LoopStarts ==
    ASSUME NEW old \in Lists, NEW new \in Seq(Records)
    PROVE  LET s == [arr |-> old, rc |-> Taken(new), is |-> LastKept(Taken(new))]
           IN  s \in LoopStates(new) /\ LoopInv(old, new, s) /\ TurnsLeft(s, MaxResults)
<1> DEFINE s == [arr |-> old, rc |-> Taken(new), is |-> LastKept(Taken(new))]
<1>1. s \in LoopStates(new)
  BY TakenRange DEF LoopStates
<1>2. s.is + s.rc = MaxResults - 1
  BY TakenRange, ScanSizes DEF ScanSizes
<1>3. Filled(s) = {}
  BY <1>2, ScanSizes DEF Filled, Slots, ScanSizes
<1>4. Gone(old, new, s) = {}
  BY TakenRange DEF Gone
<1> HIDE DEF s
<1>5. Untouched(old, s)
  BY DEF Untouched, s
<1>6. TurnsLeft(s, MaxResults)
  BY <1>2, ScanSizes DEF TurnsLeft, ScanSizes
<1> QED
  BY <1>1, <1>3, <1>4, <1>5, <1>6 DEF LoopInv, InOrder, Complete, s

\* A turn that puts v where the filled places begin keeps the invariant, if v is
\* no weaker than what is in place, no stronger than what is left, and new there.
LEMMA Fill ==
    ASSUME NEW old \in Lists, NEW new \in Seq(Records),
           NEW s \in LoopStates(new), LoopInv(old, new, s),
           NEW r \in LoopStates(new), NEW p \in Slots, NEW v \in Records \cup {Null},
           s.is + s.rc = p, r.is + r.rc = p - 1,
           r.arr[p] = v, \A t \in Slots \ {p} : r.arr[t] = s.arr[t],
           Gone(old, new, r) = Gone(old, new, s) \cup {v},
           \A u \in Filled(s) : s.arr[u] # Null =>
               /\ v # Null /\ v # s.arr[u]
               /\ u = p + 1 => v.rssi >= s.arr[u].rssi
               /\ r.is >= 0 => old[r.is] # Null,
           v # Null =>
               /\ r.is >= 0 => old[r.is] # Null /\ old[r.is].rssi >= v.rssi
               /\ r.rc > 0 => new[r.rc].rssi >= v.rssi
    PROVE  LoopInv(old, new, r)
<1>1. p \in Int /\ s.arr \in Lists /\ r.arr \in Lists /\ r.rc \in Int /\ r.is \in Int
  <2>1. p \in Int /\ s.arr \in Lists /\ r.arr \in Lists
    BY DEF LoopStates, Slots
  <2>2. r.rc \in 0 .. Taken(new) /\ r.is \in -1 .. LastKept(Taken(new))
    BY DEF LoopStates
  <2> QED
    BY <2>1, <2>2
<1>2. Filled(r) = Filled(s) \cup {p} /\ p \notin Filled(s)
  BY <1>1, ScanSizes DEF Filled, Slots, ScanSizes
<1>3. r.arr[p] = v /\ \A t \in Slots \ {p} : r.arr[t] = s.arr[t]
  OBVIOUS
<1>4. \A t \in Filled(s) : t \in Slots /\ t > p
  BY DEF Filled
<1>5. Untouched(old, r)
  BY <1>2, <1>3 DEF LoopInv, Untouched
<1>6. Complete(old, new, r)
  <2>1. {r.arr[t] : t \in Filled(r)} = {s.arr[t] : t \in Filled(s)} \cup {v}
    BY <1>2, <1>3, <1>4
  <2> QED
    BY <2>1 DEF LoopInv, Complete
<1>7. InOrder(old, new, r)
  <2> SUFFICES ASSUME NEW t \in Filled(r), r.arr[t] # Null
               PROVE  /\ r.is >= 0 => old[r.is] # Null
                      /\ \A u \in Filled(r) : u < t => r.arr[u] # Null
                      /\ IF t - 1 \in Filled(r)
                         THEN r.arr[t - 1].rssi >= r.arr[t].rssi
                         ELSE /\ r.rc > 0 => new[r.rc].rssi >= r.arr[t].rssi
                              /\ r.is >= 0 => old[r.is].rssi >= r.arr[t].rssi
                      /\ \A u \in Filled(r) \ {t} : r.arr[u] # r.arr[t]
    BY DEF InOrder
  <2>1. CASE t = p
    <3>1. t - 1 \notin Filled(r) /\ \A u \in Filled(r) : ~(u < t)
      BY <1>1, <1>2, <1>4, <2>1 DEF Filled, Slots
    <3>2. \A u \in Filled(r) \ {t} : r.arr[u] # r.arr[t]
      BY <1>2, <1>3, <1>4, <2>1
    <3>3. /\ r.is >= 0 => old[r.is] # Null /\ old[r.is].rssi >= r.arr[t].rssi
          /\ r.rc > 0 => new[r.rc].rssi >= r.arr[t].rssi
      BY <1>3, <2>1
    <3> QED
      BY <3>1, <3>2, <3>3
  <2>2. CASE t \in Filled(s)
    <3>1. r.arr[t] = s.arr[t] /\ s.arr[t] # Null /\ t \in Int
      BY <1>1, <1>2, <1>3, <1>4, <2>2 DEF Slots
    <3>2. v # Null /\ v # s.arr[t] /\ (r.is >= 0 => old[r.is] # Null)
      BY <2>2, <3>1
    <3>3. \A u \in Filled(r) : u < t => r.arr[u] # Null
      BY <1>2, <1>3, <1>4, <2>2, <3>1, <3>2 DEF LoopInv, InOrder
    <3>4. \A u \in Filled(r) \ {t} : r.arr[u] # r.arr[t]
      BY <1>2, <1>3, <1>4, <2>2, <3>1, <3>2 DEF LoopInv, InOrder
    <3>5. t - 1 \in Filled(r)
      <4>1. t \in 0 .. MaxResults - 1 /\ t > p /\ p \in 0 .. MaxResults - 1
        BY <1>4, <2>2 DEF Slots
      <4>2. t - 1 \in 0 .. MaxResults - 1 /\ t - 1 > p - 1
        BY <4>1, ScanSizes DEF ScanSizes
      <4> QED
        BY <4>2 DEF Filled, Slots
    <3>6. r.arr[t - 1].rssi >= r.arr[t].rssi
      <4>1. CASE t = p + 1
        BY <1>1, <1>3, <2>2, <3>1, <4>1
      <4>2. CASE t # p + 1
        <5>1. t - 1 \in Filled(s)
          BY <1>1, <1>2, <3>1, <3>5, <4>2
        <5> QED
          BY <1>2, <1>3, <1>4, <2>2, <3>1, <5>1 DEF LoopInv, InOrder
      <4> QED
        BY <4>1, <4>2
    <3> QED
      BY <3>2, <3>3, <3>4, <3>5, <3>6
  <2> QED
    BY <1>2, <2>1, <2>2
<1> QED
  BY <1>5, <1>6, <1>7 DEF LoopInv

\* A turn keeps the invariant, and one turn fewer is left.
LEMMA LoopTurn ==
    ASSUME NEW old \in Lists, Sorted(old), NEW new \in Seq(Records), Fresh(old, new),
           NEW s \in LoopStates(new), LoopInv(old, new, s)
    PROVE  /\ InsertStep(new, s) \in LoopStates(new)
           /\ LoopInv(old, new, InsertStep(new, s))
           /\ \A n \in Nat : TurnsLeft(s, n + 1) => TurnsLeft(InsertStep(new, s), n)
<1> DEFINE T == Taken(new)
           K == LastKept(T)
           p == s.is + s.rc
           r == InsertStep(new, s)
<1>1. CASE s.rc = 0 \/ s.is < 0
  <2>1. r = s
    BY <1>1 DEF InsertStep
  <2> QED
    BY <1>1, <2>1 DEF TurnsLeft
<1>2. CASE s.rc > 0 /\ s.is >= 0
  <2>1. /\ T \in 0 .. MaxResults /\ T <= Len(new) /\ K = MaxResults - T - 1
        /\ K \in -1 .. MaxResults - 1 /\ \A i \in 1 .. T : new[i] \in Records
    BY TakenRange
  <2>2. s = [arr |-> s.arr, rc |-> s.rc, is |-> s.is]
    BY DEF LoopStates
  <2>3. /\ s.arr \in Lists /\ s.rc \in 1 .. T /\ s.is \in 0 .. K
        /\ p \in Slots /\ p > s.is /\ p \notin Filled(s) /\ MaxResults \in Nat \ {0}
    BY <1>2, <2>1, ScanSizes DEF LoopStates, Slots, Filled, ScanSizes
  <2>4. new[s.rc] \in Records /\ old[s.is] \in Records \cup {Null} /\ s.is \in Slots
    BY <2>1, <2>3 DEF Lists, Slots
  <2>5. s.arr[s.is] = old[s.is] /\ s.arr[p] = old[p]
    BY <2>3, <2>4 DEF LoopInv, Untouched, Filled
  <2> HIDE DEF T, K, p
  <2>6. /\ \A j \in s.is + 1 .. K : j \in Slots /\ j # s.is
        /\ \A j \in s.rc + 1 .. T : j \in 1 .. Len(new) /\ j # s.rc
        /\ s.rc \in 1 .. Len(new) /\ Len(new) \in Nat /\ s.is + s.rc = p
    <3>1. Len(new) \in Nat
      OBVIOUS
    <3>2. \A j \in s.is + 1 .. K : j \in Slots /\ j # s.is
      BY <2>1, <2>3 DEF Slots
    <3> QED
      BY <2>1, <2>3, <3>1, <3>2 DEF p
  <2>7. ASSUME NEW u \in Filled(s), s.arr[u] # Null
        PROVE  /\ \/ \E j \in s.is + 1 .. K : s.arr[u] = old[j]
                  \/ \E j \in s.rc + 1 .. T : s.arr[u] = new[j]
               /\ old[s.is] # Null
               /\ u = p + 1 => /\ new[s.rc].rssi >= s.arr[u].rssi
                               /\ old[s.is].rssi >= s.arr[u].rssi
    <3>1. \/ \E j \in s.is + 1 .. K : s.arr[u] = old[j]
          \/ \E j \in s.rc + 1 .. T : s.arr[u] = new[j]
      BY <2>7 DEF LoopInv, Complete, Gone, T, K
    <3>2. old[s.is] # Null
      BY <1>2, <2>7 DEF LoopInv, InOrder
    <3>3. ASSUME u = p + 1
          PROVE  new[s.rc].rssi >= s.arr[u].rssi /\ old[s.is].rssi >= s.arr[u].rssi
      <4>1. u - 1 \notin Filled(s)
        BY <2>3, <3>3 DEF Slots
      <4> QED
        BY <1>2, <2>7, <4>1 DEF LoopInv, InOrder
    <3> QED
      BY <3>1, <3>2, <3>3
  <2>8. CASE old[s.is] # Null /\ old[s.is].rssi > new[s.rc].rssi
    <3>1. r = [s EXCEPT !.arr[p] = new[s.rc], !.rc = @ - 1]
      BY <1>2, <2>3, <2>5, <2>8 DEF InsertStep, p
    <3> HIDE DEF r
    <3>2. /\ r = [arr |-> r.arr, rc |-> r.rc, is |-> r.is]
          /\ r.arr = [s.arr EXCEPT ![p] = new[s.rc]]
      BY <2>2, <3>1
    <3>3. r.rc = s.rc - 1 /\ r.is = s.is
      BY <2>2, <3>1
    <3>4. r \in LoopStates(new) /\ r.is + r.rc = p - 1
      <4>1. r.arr \in Lists
        BY <2>3, <2>4, <3>2 DEF Lists
      <4>2. r.rc \in 0 .. T /\ r.is \in -1 .. K /\ r.is + r.rc = p - 1
        BY <2>1, <2>3, <2>6, <3>3
      <4> QED
        BY <3>2, <4>1, <4>2 DEF LoopStates, T, K
    <3>5. Gone(old, new, r) = Gone(old, new, s) \cup {new[s.rc]}
      <4>1. r.rc + 1 .. T = (s.rc + 1 .. T) \cup {s.rc}
        BY <2>1, <2>3, <3>3
      <4> QED
        BY <3>3, <4>1 DEF Gone, T, K
    <3>6. new[s.rc] # Null /\ old[s.is].rssi >= new[s.rc].rssi
      BY <2>4, <2>8, RecordRssi
    <3>7. \A u \in Filled(s) : s.arr[u] # Null =>
              /\ new[s.rc] # Null /\ new[s.rc] # s.arr[u]
              /\ u = p + 1 => new[s.rc].rssi >= s.arr[u].rssi
              /\ r.is >= 0 => old[r.is] # Null
      BY <2>6, <2>7, <3>3, <3>6 DEF Fresh
    <3>8. /\ r.is >= 0 => old[r.is] # Null /\ old[r.is].rssi >= new[s.rc].rssi
          /\ r.rc > 0 => new[r.rc].rssi >= new[s.rc].rssi
      <4>1. r.rc > 0 => r.rc \in 1 .. Len(new) - 1 /\ r.rc + 1 = s.rc
        BY <2>1, <2>3, <2>6, <3>3
      <4> QED
        BY <2>8, <3>3, <3>6, <4>1 DEF Fresh
    <3>9. r.arr[p] = new[s.rc] /\ \A t \in Slots \ {p} : r.arr[t] = s.arr[t]
      BY <2>3, <3>2 DEF Lists
    <3>10. LoopInv(old, new, r)
      BY <2>3, <2>4, <2>6, <3>4, <3>5, <3>7, <3>8, <3>9, Fill
    <3> QED
      BY <2>3, <2>6, <3>4, <3>10 DEF TurnsLeft, Slots, r
  <2>9. CASE old[s.is] # Null /\ ~(old[s.is].rssi > new[s.rc].rssi)
    <3>1. r = [s EXCEPT !.arr[p] = old[s.is], !.is = @ - 1]
      BY <1>2, <2>3, <2>5, <2>9 DEF InsertStep, p
    <3> HIDE DEF r
    <3>2. /\ r = [arr |-> r.arr, rc |-> r.rc, is |-> r.is]
          /\ r.arr = [s.arr EXCEPT ![p] = old[s.is]]
      BY <2>2, <3>1
    <3>3. r.rc = s.rc /\ r.is = s.is - 1
      BY <2>2, <3>1
    <3>4. r \in LoopStates(new) /\ r.is + r.rc = p - 1
      <4>1. r.arr \in Lists
        BY <2>3, <2>4, <3>2 DEF Lists
      <4>2. r.rc \in 0 .. T /\ r.is \in -1 .. K /\ r.is + r.rc = p - 1
        BY <2>1, <2>3, <2>6, <3>3
      <4> QED
        BY <3>2, <4>1, <4>2 DEF LoopStates, T, K
    <3>5. Gone(old, new, r) = Gone(old, new, s) \cup {old[s.is]}
      <4>1. r.is + 1 .. K = (s.is + 1 .. K) \cup {s.is}
        BY <2>1, <2>3, <3>3
      <4> QED
        BY <3>3, <4>1 DEF Gone, T, K
    <3>6. r.is >= 0 => r.is \in Slots /\ r.is < s.is /\ r.is = s.is - 1 /\ s.is > 0
      BY <2>1, <2>3, <3>3 DEF Slots
    <3>7. \A u \in Filled(s) : s.arr[u] # Null =>
              /\ old[s.is] # Null /\ old[s.is] # s.arr[u]
              /\ u = p + 1 => old[s.is].rssi >= s.arr[u].rssi
              /\ r.is >= 0 => old[r.is] # Null
      <4>1. \A j \in 1 .. Len(new) : new[j] # old[s.is]
        BY <2>4 DEF Fresh
      <4>2. \A j \in Slots : j # s.is => old[j] # old[s.is]
        BY <2>4, <2>9 DEF Sorted
      <4>3. r.is >= 0 => old[r.is] # Null
        BY <2>4, <2>9, <3>6 DEF Sorted
      <4> QED
        BY <2>6, <2>7, <4>1, <4>2, <4>3
    <3>8. /\ r.is >= 0 => old[r.is] # Null /\ old[r.is].rssi >= old[s.is].rssi
          /\ r.rc > 0 => new[r.rc].rssi >= old[s.is].rssi
      <4>1. new[s.rc].rssi >= old[s.is].rssi
        BY <2>4, <2>9, RecordRssi
      <4>2. r.is >= 0 => old[r.is] # Null /\ old[r.is].rssi >= old[s.is].rssi
        BY <2>4, <2>9, <3>6 DEF Sorted
      <4> QED
        BY <3>3, <4>1, <4>2
    <3>9. r.arr[p] = old[s.is] /\ \A t \in Slots \ {p} : r.arr[t] = s.arr[t]
      BY <2>3, <3>2 DEF Lists
    <3>10. LoopInv(old, new, r)
      BY <2>3, <2>4, <2>6, <3>4, <3>5, <3>7, <3>8, <3>9, Fill
    <3> QED
      BY <2>3, <2>6, <3>4, <3>10 DEF TurnsLeft, Slots, r
  <2>10. CASE old[s.is] = Null
    <3>1. old[p] = Null
      BY <2>3, <2>4, <2>10 DEF Sorted
    <3>2. r = [s EXCEPT !.arr[p] = @, !.is = @ - 1]
      BY <1>2, <2>3, <2>5, <2>10 DEF InsertStep, p
    <3> HIDE DEF r
    <3>3. /\ r = [arr |-> r.arr, rc |-> r.rc, is |-> r.is]
          /\ r.arr = [s.arr EXCEPT ![p] = Null]
      BY <2>2, <2>5, <3>1, <3>2
    <3>4. r.rc = s.rc /\ r.is = s.is - 1
      BY <2>2, <2>5, <3>1, <3>2
    <3>5. r \in LoopStates(new) /\ r.is + r.rc = p - 1
      <4>1. r.arr \in Lists
        BY <2>3, <3>3 DEF Lists
      <4>2. r.rc \in 0 .. T /\ r.is \in -1 .. K /\ r.is + r.rc = p - 1
        BY <2>1, <2>3, <2>6, <3>4
      <4> QED
        BY <3>3, <4>1, <4>2 DEF LoopStates, T, K
    <3>6. Gone(old, new, r) = Gone(old, new, s) \cup {Null}
      <4>1. r.is + 1 .. K = (s.is + 1 .. K) \cup {s.is}
        BY <2>1, <2>3, <3>4
      <4> QED
        BY <2>10, <3>4, <4>1 DEF Gone, T, K
    <3>7. \A u \in Filled(s) : s.arr[u] = Null
      BY <2>7, <2>10
    <3>8. r.arr[p] = Null /\ \A t \in Slots \ {p} : r.arr[t] = s.arr[t]
      BY <2>3, <3>3 DEF Lists
    <3>9. LoopInv(old, new, r)
      BY <2>3, <2>6, <3>5, <3>6, <3>7, <3>8, Fill
    <3> QED
      BY <2>3, <2>6, <3>5, <3>9 DEF TurnsLeft, Slots, r
  <2> QED
    BY <2>8, <2>9, <2>10
<1>3. s.rc \in Int /\ s.is \in Int /\ s.rc >= 0
  BY TakenRange DEF LoopStates
<1> QED
  BY <1>1, <1>2, <1>3

\* The turns that the recursive function Turns stands for exist, and it is them.
LEMMA TurnsExist ==
    ASSUME NEW old \in Lists, Sorted(old), NEW new \in Seq(Records), Fresh(old, new)
    PROVE  Turns(old, new) =
              [n \in 0 .. MaxResults |->
                  IF n = 0
                  THEN [arr |-> old, rc |-> Taken(new), is |-> LastKept(Taken(new))]
                  ELSE InsertStep(new, Turns(old, new)[n - 1])]
<1> DEFINE start == [arr |-> old, rc |-> Taken(new), is |-> LastKept(Taken(new))]
           S == {s \in LoopStates(new) : LoopInv(old, new, s)}
           g == [n \in 1 .. MaxResults |-> [s \in S |-> InsertStep(new, s)]]
           Equation(f) == f = [n \in 0 .. MaxResults |->
                                  IF n = 0 THEN start ELSE InsertStep(new, f[n - 1])]
<1>1. start \in S
  BY LoopStarts
<1>2. g \in [1 .. MaxResults -> [S -> S]]
  BY LoopTurn
<1>3. PICK f \in Runs(MaxResults, S, start, g) : TRUE
  <2>1. MaxResults \in Nat
    BY ScanSizes DEF ScanSizes
  <2> HIDE DEF S, g, start
  <2> QED
    BY <1>1, <1>2, <2>1, Iteration
<1>4. Equation(f)
  <2>1. ASSUME NEW n \in 0 .. MaxResults, n # 0
        PROVE  f[n] = InsertStep(new, f[n - 1])
    <3>1. n \in 1 .. MaxResults /\ n - 1 \in 0 .. MaxResults
      BY <2>1, ScanSizes DEF ScanSizes
    <3>2. f[n] = g[n][f[n - 1]] /\ f[n - 1] \in S
      BY <3>1 DEF Runs
    <3> QED
      BY <3>1, <3>2
  <2>2. f \in [0 .. MaxResults -> S] /\ f[0] = start
    BY DEF Runs
  <2> HIDE DEF S, start
  <2> QED
    BY <2>1, <2>2
<1>5. Turns(old, new) = CHOOSE turn : Equation(turn)
  BY Zenon DEF Turns
<1>6. Equation(Turns(old, new))
  <2> HIDE DEF Equation
  <2> QED
    BY <1>4, <1>5, Zenon
<1> QED
  BY <1>6

\* The invariant holds after every turn, and after MaxResults of them the loop
\* has ended.
LEMMA LoopEnds ==
    ASSUME NEW old \in Lists, Sorted(old), NEW new \in Seq(Records), Fresh(old, new)
    PROVE  LET end == Turns(old, new)[MaxResults]
           IN  /\ end \in LoopStates(new)
               /\ LoopInv(old, new, end)
               /\ end.rc = 0 \/ end.is < 0
<1> DEFINE turn == Turns(old, new)
           Good(n) == /\ turn[n] \in LoopStates(new)
                      /\ LoopInv(old, new, turn[n])
                      /\ TurnsLeft(turn[n], MaxResults - n)
           T == {n \in Nat : n <= MaxResults => Good(n)}
<1>1. MaxResults \in Nat
  BY ScanSizes DEF ScanSizes
<1>2. turn[0] = [arr |-> old, rc |-> Taken(new), is |-> LastKept(Taken(new))]
  BY <1>1, TurnsExist
<1>3. \A n \in 1 .. MaxResults : turn[n] = InsertStep(new, turn[n - 1])
  <2>1. \A n \in 1 .. MaxResults : n \in 0 .. MaxResults /\ n # 0
    BY <1>1
  <2> QED
    BY <2>1, TurnsExist
<1> HIDE DEF turn
<1>4. 0 \in T
  <2>1. Good(0)
    BY <1>1, <1>2, LoopStarts
  <2> QED
    BY <2>1
<1>5. ASSUME NEW n \in Nat, n \in T
      PROVE  n + 1 \in T
  <2> SUFFICES ASSUME n + 1 <= MaxResults PROVE Good(n + 1)
    OBVIOUS
  <2>1. Good(n)
    BY <1>1, <1>5
  <2>2. turn[n + 1] = InsertStep(new, turn[n])
    BY <1>1, <1>3
  <2>3. MaxResults - n = (MaxResults - (n + 1)) + 1 /\ MaxResults - (n + 1) \in Nat
    BY <1>1
  <2>4. TurnsLeft(turn[n], (MaxResults - (n + 1)) + 1)
    BY <2>1, <2>3
  <2> QED
    BY <2>1, <2>2, <2>3, <2>4, LoopTurn
<1>6. Good(MaxResults)
  <2>1. Nat \subseteq T
    <3> HIDE DEF T
    <3> QED
      BY <1>4, <1>5, Induction
  <2> QED
    BY <1>1, <2>1
<1>7. turn[MaxResults].rc = 0 \/ turn[MaxResults].is < 0
  <2>1. turn[MaxResults].rc \in 0 .. Taken(new) /\ turn[MaxResults].is \in -1 .. LastKept(Taken(new))
    BY <1>6 DEF LoopStates
  <2> QED
    BY <1>1, <1>6, <2>1, TakenRange DEF TurnsLeft
<1> QED
  BY <1>6, <1>7 DEF turn

\* What the whole insertion returns: a sorted list, of the new records that fit
\* and the old ones in the places that are left.
LEMMA InsertSorts ==
    ASSUME NEW old \in Lists, Sorted(old), NEW new \in Seq(Records), Fresh(old, new)
    PROVE  /\ Insert(old, new) \in Lists
           /\ Sorted(Insert(old, new))
           /\ {Insert(old, new)[t] : t \in Slots} \ {Null}
                  = ({old[j] : j \in 0 .. MaxResults - Taken(new) - 1}
                        \cup {new[j] : j \in 1 .. Taken(new)}) \ {Null}
<1> DEFINE T == Taken(new)
           K == LastKept(T)
           end == Turns(old, new)[MaxResults]
           m == [t \in Slots |-> IF t < end.rc THEN new[t + 1] ELSE end.arr[t]]
<1>1. end \in LoopStates(new) /\ LoopInv(old, new, end) /\ (end.rc = 0 \/ end.is < 0)
  BY LoopEnds
<1>2. Insert(old, new) = m
  BY DEF Insert
<1> HIDE DEF end
<1>3. /\ T \in 0 .. MaxResults /\ T <= Len(new) /\ K = MaxResults - T - 1
      /\ K \in -1 .. MaxResults - 1 /\ \A i \in 1 .. T : new[i] \in Records
  BY TakenRange
<1>4. end.arr \in Lists /\ end.rc \in 0 .. T /\ end.is \in -1 .. K
  BY <1>1 DEF LoopStates
<1>5. MaxResults \in Nat /\ Len(new) \in Nat
  BY ScanSizes DEF ScanSizes
<1> HIDE DEF T, K
<1>6. m \in Lists
  BY <1>3, <1>4, <1>5 DEF Lists, Slots
<1>7. \A u \in Filled(end) : m[u] = end.arr[u] /\ u \in Slots /\ u > end.is + end.rc
  BY <1>1, <1>3, <1>4 DEF Filled, Slots
<1>8. {m[u] : u \in Filled(end)} \ {Null}
          = ({old[j] : j \in end.is + 1 .. K} \cup {new[j] : j \in end.rc + 1 .. T}) \ {Null}
  <2> HIDE DEF m
  <2>1. {m[u] : u \in Filled(end)} = {end.arr[u] : u \in Filled(end)}
    BY <1>7
  <2> QED
    BY <1>1, <2>1 DEF LoopInv, Complete, Gone, T, K
<1>9. \A t \in Filled(end) : m[t] # Null =>
           /\ end.is >= 0 => old[end.is] # Null
           /\ \A u \in Filled(end) : u < t => m[u] # Null
           /\ IF t - 1 \in Filled(end)
              THEN m[t - 1].rssi >= m[t].rssi
              ELSE /\ end.rc > 0 => new[end.rc].rssi >= m[t].rssi
                   /\ end.is >= 0 => old[end.is].rssi >= m[t].rssi
           /\ \A u \in Filled(end) \ {t} : m[u] # m[t]
  <2> HIDE DEF m
  <2> QED
    BY <1>1, <1>7 DEF LoopInv, InOrder
<1>10. \A t \in Slots : m[t] = IF t < end.rc THEN new[t + 1] ELSE end.arr[t]
  OBVIOUS
<1> HIDE DEF m
<1>11. ASSUME NEW u \in Filled(end), m[u] # Null
       PROVE  \/ \E j \in end.is + 1 .. K : m[u] = old[j]
              \/ \E j \in end.rc + 1 .. T : m[u] = new[j]
  BY <1>8, <1>11
<1>12. ASSUME end.rc = 0
       PROVE  /\ Sorted(m)
              /\ {m[t] : t \in Slots} \ {Null}
                     = ({old[j] : j \in 0 .. K} \cup {new[j] : j \in 1 .. T}) \ {Null}
  <2>1. \A t \in Slots : t \notin Filled(end) => t <= end.is /\ m[t] = old[t]
    <3>1. \A t \in Slots : ~(t < end.rc)
      BY <1>12 DEF Slots
    <3>2. \A t \in Slots : m[t] = end.arr[t]
      BY <1>10, <3>1
    <3> QED
      BY <1>1, <1>4, <1>12, <3>2 DEF LoopInv, Untouched, Filled, Slots
  <2>2. Sorted(m)
    <3>1. \A t \in Slots : (t \in Filled(end) <=> t > end.is) /\ t \in Int
      BY <1>4, <1>12 DEF Filled, Slots
    <3>2. ASSUME NEW u \in Slots, NEW t \in Slots, u < t, m[t] # Null
          PROVE  m[u] # Null
      <4>1. CASE t \in Filled(end) /\ u \in Filled(end)
        BY <1>9, <3>2, <4>1
      <4>2. CASE t \in Filled(end) /\ u \notin Filled(end)
        <5>1. end.is \in Slots /\ end.is >= 0 /\ u <= end.is
          BY <1>3, <1>4, <1>5, <3>1, <4>2 DEF Slots
        <5>2. old[end.is] # Null
          BY <1>9, <3>2, <4>2, <5>1 DEF Slots
        <5> QED
          BY <1>4, <2>1, <3>1, <4>2, <5>1, <5>2 DEF Sorted
      <4>3. CASE t \notin Filled(end)
        <5>1. u \notin Filled(end)
          BY <1>4, <3>1, <3>2, <4>3
        <5> QED
          BY <2>1, <3>2, <4>3, <5>1 DEF Sorted
      <4> QED
        BY <4>1, <4>2, <4>3
    <3>3. ASSUME NEW t \in Slots, t > 0, m[t] # Null
          PROVE  m[t - 1].rssi >= m[t].rssi
      <4>1. t - 1 \in Slots
        BY <1>5, <3>1, <3>3 DEF Slots
      <4>2. CASE t \in Filled(end) /\ t - 1 \in Filled(end)
        BY <1>9, <3>3, <4>2
      <4>3. CASE t \in Filled(end) /\ t - 1 \notin Filled(end)
        <5>1. end.is = t - 1 /\ end.is >= 0
          BY <1>4, <3>1, <3>3, <4>1, <4>3
        <5> QED
          BY <1>9, <2>1, <3>3, <4>1, <4>3, <5>1
      <4>4. CASE t \notin Filled(end)
        <5>1. t - 1 \notin Filled(end)
          BY <1>4, <3>1, <4>1, <4>4
        <5> QED
          BY <2>1, <3>3, <4>1, <4>4, <5>1 DEF Sorted
      <4> QED
        BY <4>2, <4>3, <4>4
    <3>4. ASSUME NEW u \in Filled(end), NEW t \in Slots \ Filled(end), m[u] # Null
          PROVE  m[u] # m[t]
      <4>1. CASE \E j \in end.is + 1 .. K : m[u] = old[j]
        <5>1. PICK j \in end.is + 1 .. K : m[u] = old[j]
          BY <4>1
        <5>2. j \in Slots /\ j # t
          BY <1>3, <1>4, <1>5, <3>1 DEF Slots
        <5> QED
          BY <2>1, <3>4, <5>1, <5>2 DEF Sorted
      <4>2. CASE \E j \in end.rc + 1 .. T : m[u] = new[j]
        <5>1. PICK j \in end.rc + 1 .. T : m[u] = new[j]
          BY <4>2
        <5>2. j \in 1 .. Len(new)
          BY <1>3, <1>4, <1>5
        <5> QED
          BY <2>1, <5>1, <5>2 DEF Fresh
      <4> QED
        BY <1>11, <3>4, <4>1, <4>2
    <3>5. ASSUME NEW u \in Slots, NEW t \in Slots, u # t, m[u] # Null
          PROVE  m[u] # m[t]
      <4>1. CASE u \in Filled(end) /\ t \in Filled(end)
        BY <1>9, <3>5, <4>1
      <4>2. CASE u \notin Filled(end) /\ t \notin Filled(end)
        BY <2>1, <3>5, <4>2 DEF Sorted
      <4> QED
        BY <3>4, <3>5, <4>1, <4>2
    <3> QED
      BY <3>2, <3>3, <3>5 DEF Sorted
  <2>3. {m[t] : t \in Slots} = {m[t] : t \in Filled(end)} \cup {old[j] : j \in 0 .. end.is}
    <3>1. \A j \in 0 .. end.is : j \in Slots /\ j \notin Filled(end) /\ m[j] = old[j]
      BY <1>3, <1>4, <1>5, <1>12, <2>1 DEF Filled, Slots
    <3>2. \A t \in Slots : t \in Filled(end) \/ t \in 0 .. end.is
      BY <1>4, <2>1 DEF Slots
    <3> QED
      BY <1>7, <2>1, <3>1, <3>2
  <2>4. {old[j] : j \in 0 .. K}
            = {old[j] : j \in 0 .. end.is} \cup {old[j] : j \in end.is + 1 .. K}
    <3>1. 0 .. K = (0 .. end.is) \cup (end.is + 1 .. K)
      BY <1>3, <1>4
    <3> QED
      BY <3>1
  <2>5. end.rc + 1 = 1
    BY <1>12
  <2> QED
    BY <1>8, <2>2, <2>3, <2>4, <2>5
<1>13. ASSUME end.rc > 0, end.is = -1
       PROVE  /\ Sorted(m)
              /\ {m[t] : t \in Slots} \ {Null}
                     = ({old[j] : j \in 0 .. K} \cup {new[j] : j \in 1 .. T}) \ {Null}
  <2>1. \A t \in Slots : t \notin Filled(end) => t < end.rc /\ m[t] = new[t + 1]
    BY <1>4, <1>10, <1>13 DEF Filled, Slots
  <2>2. Sorted(m)
    <3>1. \A t \in Slots : (t \in Filled(end) <=> t > end.rc - 1) /\ t \in Int
      BY <1>4, <1>13 DEF Filled, Slots
    <3>2. \A t \in Slots \ Filled(end) : t + 1 \in 1 .. end.rc /\ t + 1 \in 1 .. Len(new)
      BY <1>3, <1>4, <1>5, <2>1 DEF Slots
    <3>3. \A t \in Slots \ Filled(end) : m[t] # Null
      BY <1>3, <1>4, <2>1, <3>2, NullIsNoRecord
    <3>4. ASSUME NEW u \in Slots, NEW t \in Slots, u < t, m[t] # Null
          PROVE  m[u] # Null
      <4>1. CASE u \in Filled(end)
        <5>1. t \in Filled(end)
          BY <1>4, <3>1, <3>4, <4>1
        <5> QED
          BY <1>9, <3>4, <4>1, <5>1
      <4> QED
        BY <3>3, <4>1
    <3>5. ASSUME NEW t \in Slots, t > 0, m[t] # Null
          PROVE  m[t - 1].rssi >= m[t].rssi
      <4>1. t - 1 \in Slots
        BY <1>5, <3>1, <3>5 DEF Slots
      <4>2. CASE t \in Filled(end) /\ t - 1 \in Filled(end)
        BY <1>9, <3>5, <4>2
      <4>3. CASE t \in Filled(end) /\ t - 1 \notin Filled(end)
        <5>1. (t - 1) + 1 = end.rc
          BY <1>4, <3>1, <4>1, <4>3
        <5> QED
          BY <1>9, <1>13, <2>1, <3>5, <4>1, <4>3, <5>1
      <4>4. CASE t \notin Filled(end)
        <5>1. t - 1 \notin Filled(end) /\ (t - 1) + 1 = t
          BY <1>4, <3>1, <4>1, <4>4
        <5>2. m[t - 1] = new[t] /\ m[t] = new[t + 1]
          BY <2>1, <4>1, <4>4, <5>1
        <5>3. t \in 1 .. Len(new) - 1
          BY <1>5, <3>1, <3>2, <3>5, <4>4
        <5> QED
          BY <5>2, <5>3 DEF Fresh
      <4> QED
        BY <4>2, <4>3, <4>4
    <3>6. ASSUME NEW u \in Filled(end), NEW t \in Slots \ Filled(end), m[u] # Null
          PROVE  m[u] # m[t]
      <4>1. CASE \E j \in end.is + 1 .. K : m[u] = old[j]
        <5>1. PICK j \in end.is + 1 .. K : m[u] = old[j]
          BY <4>1
        <5>2. j \in Slots
          BY <1>3, <1>4, <1>5 DEF Slots
        <5> QED
          BY <2>1, <3>2, <5>1, <5>2 DEF Fresh
      <4>2. CASE \E j \in end.rc + 1 .. T : m[u] = new[j]
        <5>1. PICK j \in end.rc + 1 .. T : m[u] = new[j]
          BY <4>2
        <5>2. j \in 1 .. Len(new) /\ j # t + 1
          BY <1>3, <1>4, <1>5, <3>2
        <5> QED
          BY <2>1, <3>2, <5>1, <5>2 DEF Fresh
      <4> QED
        BY <1>11, <3>6, <4>1, <4>2
    <3>7. ASSUME NEW u \in Slots, NEW t \in Slots, u # t, m[u] # Null
          PROVE  m[u] # m[t]
      <4>1. CASE u \in Filled(end) /\ t \in Filled(end)
        BY <1>9, <3>7, <4>1
      <4>2. CASE u \notin Filled(end) /\ t \notin Filled(end)
        <5>1. u + 1 # t + 1
          BY <3>1, <3>7
        <5> QED
          BY <2>1, <3>2, <4>2, <5>1 DEF Fresh
      <4> QED
        BY <3>6, <3>7, <4>1, <4>2
    <3> QED
      BY <3>4, <3>5, <3>7 DEF Sorted
  <2>3. {m[t] : t \in Slots} = {m[t] : t \in Filled(end)} \cup {new[j] : j \in 1 .. end.rc}
    <3>1. \A j \in 1 .. end.rc : j - 1 \in Slots /\ j - 1 < end.rc /\ m[j - 1] = new[j]
      <4>1. \A j \in 1 .. end.rc : j - 1 \in Slots /\ j - 1 < end.rc /\ (j - 1) + 1 = j
        BY <1>3, <1>4, <1>5 DEF Slots
      <4> QED
        BY <1>10, <4>1
    <3>2. \A t \in Slots : t \in Filled(end) \/ t + 1 \in 1 .. end.rc
      BY <1>4, <2>1 DEF Slots
    <3> QED
      BY <1>7, <2>1, <3>1, <3>2
  <2>4. {new[j] : j \in 1 .. T}
            = {new[j] : j \in 1 .. end.rc} \cup {new[j] : j \in end.rc + 1 .. T}
    <3>1. 1 .. T = (1 .. end.rc) \cup (end.rc + 1 .. T)
      BY <1>3, <1>4
    <3> QED
      BY <3>1
  <2>5. end.is + 1 = 0
    BY <1>13
  <2> QED
    BY <1>8, <2>2, <2>3, <2>4, <2>5
<1>14. end.rc = 0 \/ (end.rc > 0 /\ end.is = -1)
  BY <1>1, <1>3, <1>4
<1>15. 0 .. MaxResults - T - 1 = 0 .. K
  BY <1>3
<1> QED
  BY <1>2, <1>6, <1>12, <1>13, <1>14, <1>15 DEF T

-----------------------------------------------------------------------------
\* The inductive invariant.

Requests ==
    {Idle, [op |-> "wait"]}
        \cup [op : {"count"}, page : Pages, finished : BOOLEAN, before : 0 .. MaxResults]
        \cup [op : {"copy"}, record : Records]

Typed ==
    /\ state \in {"STARTED", "CRED_RECV", "STOPPING"}
    /\ scanning \in BOOLEAN /\ radio \in BOOLEAN
    /\ group \in Nat
    /\ curr \in 0 .. Channels - 1
    /\ apList \in [0 .. Channels - 1 -> {"null", "a", "b"}]
    /\ sorted \in Lists
    /\ http \in Requests
    /\ told \in [Pages -> 0 .. MaxResults \cup {Nothing}]
    /\ burst \in Nat
    /\ visited \subseteq 0 .. Channels - 1

\* The records in the list exist, and were found on channels this scan has left.
Kept ==
    /\ Sorted(sorted)
    /\ \A s \in Slots : sorted[s] # Null => Alive(sorted[s]) /\ sorted[s].ch \in visited

\* How far the scan is: all channels at once are channel 0.
Progress ==
    /\ scanning =>
          /\ state # "STOPPING"
          /\ IF group = 0 THEN curr = 0 /\ visited = {}
             ELSE curr # 0 /\ visited = 1 .. curr - 1
    /\ ~scanning /\ group # 0 /\ curr = 0 /\ state # "STOPPING" =>
          visited = 1 .. Channels - 1

\* The channels since the last pause are at most those since the last multiple
\* of the group's size.
Paused ==
    group # 0 =>
        /\ burst <= group
        /\ scanning => burst <= (curr % group) + 1

\* What the pages were told, and what is on its way to them.
Answered ==
    /\ ToldTrue
    /\ http.op = "count" => (http.finished => ~scanning)

IInv == Typed /\ Kept /\ Progress /\ Paused /\ Answered

\* The record a request copies is one of a channel that is not scanned again.
Copied ==
    http.op = "copy" => Alive(http.record) /\ http.record.ch \in visited

-----------------------------------------------------------------------------
\* The count of the list: the first records up to the first gap, and, as the
\* list has no gap, all of them.
LEMMA CountRight ==
    ASSUME NEW arr \in Lists, Sorted(arr)
    PROVE  /\ Count(arr) \in 0 .. MaxResults
           /\ \A s \in Slots : arr[s] # Null <=> s < Count(arr)
<1> DEFINE Counts(n) == /\ \A s \in Slots : s < n => arr[s] # Null
                        /\ n < MaxResults => arr[n] = Null
           T == {n \in 0 .. MaxResults : n < MaxResults => arr[n] = Null}
<1>1. MaxResults \in Nat
  BY ScanSizes DEF ScanSizes
<1>2. \E n \in 0 .. MaxResults : Counts(n)
  <2>1. MaxResults \in T /\ T \in SUBSET Nat
    BY <1>1
  <2>2. PICK m \in T : \A n \in T : m <= n
    <3> HIDE DEF T
    <3> QED
      BY <2>1, LeastNatural
  <2>3. ASSUME NEW s \in Slots, s < m, arr[s] = Null
        PROVE  FALSE
    <3>1. s \in T
      BY <1>1, <2>3 DEF Slots
    <3> QED
      BY <2>1, <2>2, <2>3, <3>1
  <2> QED
    BY <2>2, <2>3
<1>3. Count(arr) \in 0 .. MaxResults /\ Counts(Count(arr))
  <2>1. Count(arr) = CHOOSE n \in 0 .. MaxResults : Counts(n)
    BY DEF Count
  <2> HIDE DEF Counts
  <2> QED
    BY <1>2, <2>1
<1>4. ASSUME NEW s \in Slots, arr[s] # Null
      PROVE  s < Count(arr)
  <2> SUFFICES ASSUME ~(s < Count(arr)) PROVE FALSE
    OBVIOUS
  <2>1. Count(arr) \in Slots /\ Count(arr) <= s
    BY <1>1, <1>3 DEF Slots
  <2>2. arr[Count(arr)] = Null
    BY <1>1, <1>3, <2>1 DEF Slots
  <2>3. Count(arr) < s
    BY <1>4, <2>1, <2>2 DEF Slots
  <2> QED
    BY <1>4, <2>1, <2>2, <2>3 DEF Sorted
<1> QED
  BY <1>3, <1>4

\* A report of the driver is a sequence, and so is the list made from it.
LEMMA FoundRecords ==
    ASSUME Typed, NEW rssi \in Reports
    PROVE  /\ Found(rssi) \in Seq(Records)
           /\ Len(Found(rssi)) = Len(rssi) /\ Len(rssi) \in 0 .. MaxFound
           /\ Taken(Found(rssi)) = Taken(rssi)
           /\ \A i \in 1 .. Len(rssi) :
                 /\ Found(rssi)[i] \in Records
                 /\ Found(rssi)[i].ch = curr /\ Found(rssi)[i].of = Allocated
                 /\ Found(rssi)[i].i = i /\ Found(rssi)[i].rssi = rssi[i]
           /\ \A i \in 1 .. Len(rssi) - 1 : rssi[i] >= rssi[i + 1]
<1>1. PICK n \in 0 .. MaxFound : rssi \in [1 .. n -> Rssi] /\ Descending(rssi)
  BY DEF Reports
<1>2. n \in Nat /\ n <= MaxFound
  BY <1>1, ScanSizes DEF ScanSizes
<1>3. Len(rssi) = n
  BY <1>1, <1>2
<1>4. Allocated \in {"a", "b"}
  BY DEF Allocated
<1>5. \A i \in 1 .. n : [ch |-> curr, i |-> i, of |-> Allocated, rssi |-> rssi[i]] \in Records
  <2>1. \A i \in 1 .. n : i \in 1 .. MaxFound /\ rssi[i] \in Rssi
    BY <1>1, <1>2, ScanSizes DEF ScanSizes
  <2>2. curr \in 0 .. Channels - 1
    BY DEF Typed
  <2> QED
    BY <1>4, <2>1, <2>2 DEF Records
<1>6. Found(rssi) \in [1 .. n -> Records]
  BY <1>3, <1>5 DEF Found
<1>7. Found(rssi) \in Seq(Records) /\ Len(Found(rssi)) = n
  <2> HIDE DEF Found
  <2> QED
    BY <1>2, <1>6
<1>8. Taken(Found(rssi)) = Taken(rssi)
  BY <1>3, <1>7 DEF Taken
<1>9. \A i \in 1 .. n : Found(rssi)[i] = [ch |-> curr, i |-> i, of |-> Allocated, rssi |-> rssi[i]]
  BY <1>3 DEF Found
<1> QED
  BY <1>1, <1>2, <1>3, <1>5, <1>7, <1>8, <1>9 DEF Descending

\* They are none that the list has: those are of channels the scan has left.
LEMMA FoundFresh ==
    ASSUME Typed, NEW rssi \in Reports,
           \A s \in Slots : sorted[s] # Null => sorted[s].ch # curr
    PROVE  Fresh(sorted, Found(rssi))
<1>1. \A i \in 1 .. Len(rssi) - 1 : i \in 1 .. Len(rssi) /\ i + 1 \in 1 .. Len(rssi)
  BY FoundRecords, ScanSizes DEF ScanSizes
<1>2. \A i \in 1 .. Len(rssi) - 1 : Found(rssi)[i].rssi >= Found(rssi)[i + 1].rssi
  BY <1>1, FoundRecords
<1>3. \A i, j \in 1 .. Len(rssi) : i # j => Found(rssi)[i] # Found(rssi)[j]
  BY FoundRecords
<1>4. \A i \in 1 .. Len(rssi), s \in Slots : Found(rssi)[i] # sorted[s]
  BY FoundRecords, NullIsNoRecord
<1> QED
  BY <1>2, <1>3, <1>4, FoundRecords DEF Fresh

\* A scan is on a channel that it has not seen.
LEMMA NewChannel ==
    ASSUME Typed, Kept, Progress, scanning
    PROVE  /\ curr \notin visited
           /\ \A s \in Slots : sorted[s] # Null => sorted[s].ch # curr
<1>1. curr \notin visited
  BY ScanSizes DEF ScanSizes, Typed, Progress
<1> QED
  BY <1>1 DEF Kept

-----------------------------------------------------------------------------
\* The end of update_wifi_scan_results: the next channel, or none.
LEMMA Advances ==
    ASSUME Typed, Progress, Paused, scanning, state # "STOPPING",
           NEW ok \in BOOLEAN, AdvanceOrEnd(ok),
           visited' = visited \cup {curr}, group' = group, state' = state
    PROVE  /\ curr' \in 0 .. Channels - 1 /\ burst' \in Nat
           /\ scanning' \in BOOLEAN /\ radio' \in BOOLEAN
           /\ Progress' /\ Paused'
<1>1. /\ Channels \in Nat /\ Channels > 1 /\ curr \in 0 .. Channels - 1
      /\ group \in Nat /\ burst \in Nat
  BY ScanSizes DEF ScanSizes, Typed
<1>2. NextChannel = IF curr + 1 = Channels THEN 0 ELSE curr + 1
  BY <1>1, NextModulo DEF NextChannel
<1>3. scanning' \in BOOLEAN /\ radio' \in BOOLEAN
  BY Zenon DEF AdvanceOrEnd, EndScan
<1>4. curr' \in 0 .. Channels - 1 /\ burst' \in Nat
  BY <1>1, <1>2 DEF AdvanceOrEnd, EndScan
<1>5. CASE group = 0
  <2>1. ~scanning'
    BY <1>5 DEF AdvanceOrEnd, EndScan, LastChannel
  <2> QED
    BY <1>3, <1>4, <1>5, <2>1 DEF Progress, Paused
<1>6. CASE group # 0
  <2>1. curr' = NextChannel /\ curr # 0 /\ visited = 1 .. curr - 1
    BY <1>6 DEF AdvanceOrEnd, Progress
  <2>2. visited' = 1 .. curr
    BY <1>1, <2>1
  <2>3. Progress'
    <3>1. scanning' => curr' # 0
      BY <1>6, <2>1 DEF AdvanceOrEnd, EndScan, LastChannel
    <3>2. curr' # 0 => visited' = 1 .. curr' - 1
      BY <1>1, <1>2, <2>1, <2>2
    <3>3. curr' = 0 => visited' = 1 .. Channels - 1
      BY <1>1, <1>2, <2>1, <2>2
    <3> QED
      BY <1>6, <3>1, <3>2, <3>3 DEF Progress
  <2>4. Paused'
    <3>1. burst <= group /\ burst <= (curr % group) + 1
      BY <1>6 DEF Paused
    <3>2. CASE ~scanning'
      <4>1. burst' = burst
        BY <3>2 DEF AdvanceOrEnd, EndScan
      <4> QED
        BY <3>1, <3>2, <4>1 DEF Paused
    <3>3. CASE scanning' /\ Pause
      <4>1. curr' % group = 0
        BY <2>1, <3>3 DEF Pause
      <4>2. burst' = 1
        BY <3>3 DEF AdvanceOrEnd, EndScan
      <4> QED
        BY <1>1, <1>6, <4>1, <4>2 DEF Paused
    <3>4. CASE scanning' /\ ~Pause
      <4>1. burst' = burst + 1 /\ curr' = curr + 1
        BY <1>2, <1>6, <2>1, <3>4 DEF AdvanceOrEnd, EndScan, LastChannel
      <4>2. (curr + 1) % group = (curr % group) + 1
        <5>1. NextChannel = curr + 1
          BY <2>1, <4>1
        <5>2. (curr + 1) % group # 0
          BY <3>4, <5>1 DEF Pause
        <5>3. group \in Nat \ {0} /\ curr \in Nat
          BY <1>1, <1>6
        <5> QED
          BY <5>2, <5>3, NextRemainder
      <4>3. (curr + 1) % group \in 0 .. group - 1
        BY <1>1, <1>6
      <4>4. burst' <= ((curr + 1) % group) + 1 /\ burst' <= group
        BY <1>1, <3>1, <4>1, <4>2, <4>3
      <4> QED
        BY <4>1, <4>4 DEF Paused
    <3> QED
      BY <3>2, <3>3, <3>4
  <2> QED
    BY <1>3, <1>4, <2>3, <2>4
<1> QED
  BY <1>5, <1>6

\* The records of a channel come into the list.
LEMMA ChannelMerges ==
    ASSUME Typed, Kept, Progress, scanning, NEW rssi \in Reports,
           sorted' = Insert(sorted, Found(rssi))
    PROVE  /\ Taken(rssi) \in 0 .. MaxResults /\ Taken(rssi) <= Len(rssi)
           /\ sorted' \in Lists
           /\ Sorted(sorted')
           /\ {sorted'[s] : s \in Slots} \ {Null}
                  = ({sorted[s] : s \in 0 .. MaxResults - Taken(rssi) - 1}
                        \cup {Found(rssi)[i] : i \in 1 .. Taken(rssi)}) \ {Null}
<1>1. \A s \in Slots : sorted[s] # Null => sorted[s].ch # curr
  BY NewChannel
<1>2. sorted \in Lists /\ Sorted(sorted)
  BY DEF Typed, Kept
<1>3. Found(rssi) \in Seq(Records) /\ Fresh(sorted, Found(rssi))
  BY <1>1, FoundRecords, FoundFresh
<1>4. Taken(Found(rssi)) = Taken(rssi) /\ Len(Found(rssi)) = Len(rssi)
  BY FoundRecords
<1>5. Taken(rssi) \in 0 .. MaxResults /\ Taken(rssi) <= Len(rssi)
  BY <1>3, <1>4, TakenRange
<1> QED
  BY <1>2, <1>3, <1>4, <1>5, InsertSorts

LEMMA ChannelDoneKeeps ==
    ASSUME Typed, Kept, Progress, scanning, NEW rssi \in Reports,
           Allocate(Len(rssi)), sorted' = Insert(sorted, Found(rssi)),
           visited' = visited \cup {curr}
    PROVE  /\ sorted' \in Lists
           /\ apList' \in [0 .. Channels - 1 -> {"null", "a", "b"}]
           /\ Kept'
<1> DEFINE old == {sorted[s] : s \in 0 .. MaxResults - Taken(rssi) - 1}
           new == {Found(rssi)[i] : i \in 1 .. Taken(rssi)}
<1>1. curr \notin visited /\ \A s \in Slots : sorted[s] # Null => sorted[s].ch # curr
  BY NewChannel
<1>2. Taken(rssi) \in 0 .. MaxResults /\ Taken(rssi) <= Len(rssi)
  BY ChannelMerges
<1>3. /\ sorted' \in Lists /\ Sorted(sorted')
      /\ {sorted'[s] : s \in Slots} \ {Null} = (old \cup new) \ {Null}
  BY ChannelMerges
<1>4. /\ apList' \in [0 .. Channels - 1 -> {"null", "a", "b"}]
      /\ \A c \in 0 .. Channels - 1 : c # curr => apList'[c] = apList[c]
      /\ Len(rssi) # 0 => apList'[curr] = Allocated
  BY DEF Allocate, Typed, Allocated
<1>5. ASSUME NEW s \in Slots, sorted'[s] # Null
      PROVE  sorted'[s].of = apList'[sorted'[s].ch] /\ sorted'[s].ch \in visited'
  <2>1. sorted'[s] \in old \cup new
    BY <1>3, <1>5
  <2>2. CASE sorted'[s] \in old
    <3>1. PICK t \in Slots : sorted'[s] = sorted[t]
      <4>1. PICK t \in 0 .. MaxResults - Taken(rssi) - 1 : sorted'[s] = sorted[t]
        BY <2>2
      <4>2. t \in Slots
        BY <1>2, ScanSizes DEF Slots, ScanSizes
      <4> QED
        BY <4>1, <4>2
    <3>2. /\ sorted[t].of = apList[sorted[t].ch] /\ sorted[t].ch \in visited
          /\ sorted[t].ch # curr
      BY <1>1, <1>5, <3>1 DEF Kept, Alive
    <3>3. sorted[t].ch \in 0 .. Channels - 1
      BY <3>2 DEF Typed
    <3> QED
      BY <1>4, <3>1, <3>2, <3>3
  <2>3. CASE sorted'[s] \in new
    <3>1. PICK i \in 1 .. Taken(rssi) : sorted'[s] = Found(rssi)[i]
      BY <2>3
    <3>2. i \in 1 .. Len(rssi) /\ Len(rssi) # 0
      BY <1>2, FoundRecords
    <3>3. sorted'[s].of = Allocated /\ sorted'[s].ch = curr
      BY <3>1, <3>2, FoundRecords
    <3> QED
      BY <1>4, <3>2, <3>3
  <2> QED
    BY <2>1, <2>2, <2>3
<1>6. Kept'
  BY <1>3, <1>5 DEF Kept, Alive
<1> QED
  BY <1>3, <1>4, <1>6

-----------------------------------------------------------------------------
LEMMA InvInit == Init => IInv
<1> SUFFICES ASSUME Init PROVE IInv
  OBVIOUS
<1>1. Typed
  <2>1. sorted \in Lists
    BY DEF Init, Empty, Lists
  <2>2. 0 \in 0 .. Channels - 1
    BY ScanSizes DEF ScanSizes
  <2> QED
    BY <2>1, <2>2 DEF Init, Typed, NoLists, Requests
<1>2. \A s \in Slots : sorted[s] = Null
  BY DEF Init, Empty
<1>3. Kept
  BY <1>2 DEF Kept, Sorted, Slots
<1>4. Progress /\ Paused
  BY DEF Init, Progress, Paused
<1>5. Answered
  BY DEF Init, Answered, ToldTrue, Nothing, Idle
<1> QED
  BY <1>1, <1>3, <1>4, <1>5 DEF IInv

\* An empty list, which a scan begins with and a stop leaves behind.
LEMMA ClearKeeps ==
    ASSUME Clear
    PROVE  sorted' \in Lists /\ Kept'
<1>1. sorted' \in Lists /\ \A s \in Slots : sorted'[s] = Null
  BY DEF Clear, Empty, Lists
<1> QED
  BY <1>1 DEF Kept, Sorted, Slots

\* The list, its records and what was scanned are as they were.
LEMMA KeptUnchanged ==
    ASSUME Kept, UNCHANGED <<apList, sorted, visited>>
    PROVE  Kept'
  BY DEF Kept, Alive

LEMMA InvNext == IInv /\ [Next]_vars => IInv'
<1> SUFFICES ASSUME IInv, [Next]_vars PROVE IInv'
  OBVIOUS
<1> USE DEF IInv
<1>1. ASSUME NEW blocking \in BOOLEAN, NEW g \in Groups, ScanStart(blocking, g)
      PROVE  IInv'
  <2>1. sorted' \in Lists /\ Kept'
    BY <1>1, ClearKeeps DEF ScanStart
  <2>2. g \in Nat /\ Channels \in Nat \ {0, 1}
    BY ScanSizes DEF ScanSizes
  <2>3. Typed'
    BY <1>1, <2>1, <2>2 DEF ScanStart, Typed, Requests, Idle, Nothing
  <2>4. Progress'
    BY <1>1, <2>2 DEF ScanStart, Progress
  <2>5. Paused'
    <3>1. g # 0 => 1 % g \in Nat
      BY <2>2
    <3> QED
      BY <1>1, <2>2, <3>1 DEF ScanStart, Paused
  <2>6. Answered'
    BY <1>1 DEF ScanStart, Answered, ToldTrue, Nothing, Idle
  <2> QED
    BY <2>1, <2>3, <2>4, <2>5, <2>6
<1>2. CASE ScanWait
  BY <1>2, KeptUnchanged
     DEF ScanWait, Typed, Requests, Progress, Paused, Answered, ToldTrue, Idle
<1>3. ASSUME ScanDone
      PROVE  IInv'
  <2>1. /\ scanning /\ state = "STARTED" /\ visited' = visited \cup {curr}
        /\ UNCHANGED <<state, group, http, told>>
    BY <1>3 DEF ScanDone
  <2>2. told' = told /\ \A p \in Pages : told[p] = Nothing
    BY <2>1 DEF Answered, ToldTrue
  <2>3. Answered'
    BY <2>1, <2>2 DEF Answered, ToldTrue
  <2>4. visited' \subseteq 0 .. Channels - 1
    BY <2>1 DEF Typed
  <2>5. ASSUME NEW rssi \in Reports, ChannelDone(rssi)
        PROVE  IInv'
    <3>1. sorted' \in Lists /\ apList' \in [0 .. Channels - 1 -> {"null", "a", "b"}] /\ Kept'
      BY <2>1, <2>5, ChannelDoneKeeps DEF ChannelDone
    <3>2. /\ curr' \in 0 .. Channels - 1 /\ burst' \in Nat
          /\ scanning' \in BOOLEAN /\ radio' \in BOOLEAN
          /\ Progress' /\ Paused'
      BY <2>1, <2>5, Advances DEF ChannelDone
    <3> QED
      BY <2>1, <2>3, <2>4, <3>1, <3>2 DEF Typed
  <2>6. ASSUME ChannelFails
        PROVE  IInv'
    <3>1. \A s \in Slots : sorted[s] # Null => sorted[s].ch # curr
      BY <2>1, NewChannel
    <3>2. /\ apList' = [apList EXCEPT ![curr] = "null"] /\ sorted' = sorted
      BY <2>6 DEF ChannelFails
    <3>3. ASSUME NEW s \in Slots, sorted[s] # Null
          PROVE  apList'[sorted[s].ch] = apList[sorted[s].ch]
      BY <3>1, <3>2, <3>3 DEF Typed, Kept
    <3>4. Kept'
      BY <2>1, <3>2, <3>3 DEF Kept, Alive
    <3>5. /\ curr' \in 0 .. Channels - 1 /\ burst' \in Nat
          /\ scanning' \in BOOLEAN /\ radio' \in BOOLEAN
          /\ Progress' /\ Paused'
      BY <2>1, <2>6, Advances DEF ChannelFails
    <3> QED
      BY <2>1, <2>3, <2>4, <3>2, <3>4, <3>5 DEF Typed
  <2> QED
    BY <1>3, <2>5, <2>6 DEF ScanDone
<1>4. CASE ScanDoneIgnored
  BY <1>4, KeptUnchanged
     DEF ScanDoneIgnored, Typed, Progress, Paused, Answered, ToldTrue
<1>5. ASSUME NEW p \in Pages, StatusFinished(p)
      PROVE  IInv'
  <2>1. Count(sorted) \in 0 .. MaxResults
    BY CountRight DEF Typed, Kept
  <2>2. Typed'
    BY <1>5, <2>1 DEF StatusFinished, Typed, Requests
  <2> QED
    BY <1>5, <2>2, KeptUnchanged
       DEF StatusFinished, Progress, Paused, Answered, ToldTrue
<1>6. CASE StatusCount
  <2>1. Count(sorted) \in 0 .. MaxResults
    BY CountRight DEF Typed, Kept
  <2>2. Typed'
    BY <1>6, <2>1 DEF StatusCount, Typed, Requests, Answer
  <2>3. Answered'
    BY <1>6, <2>1 DEF StatusCount, Answered, ToldTrue, Typed, Requests, Answer, Idle
  <2> QED
    BY <1>6, <2>2, <2>3, KeptUnchanged DEF StatusCount, Progress, Paused
<1>7. ASSUME NEW s \in Slots, ResultPointer(s)
      PROVE  IInv'
  <2>1. sorted[s] \in Records
    BY <1>7 DEF ResultPointer, Typed, Lists
  <2>2. Typed'
    BY <1>7, <2>1 DEF ResultPointer, Typed, Requests
  <2> QED
    BY <1>7, <2>2, KeptUnchanged
       DEF ResultPointer, Progress, Paused, Answered, ToldTrue
<1>8. CASE ResultCopy
  BY <1>8, KeptUnchanged
     DEF ResultCopy, Typed, Requests, Progress, Paused, Answered, ToldTrue, Idle
<1>9. CASE Credentials
  BY <1>9, KeptUnchanged
     DEF Credentials, Typed, Progress, Paused, Answered, ToldTrue
<1>10. CASE Reset
  BY <1>10, KeptUnchanged
     DEF Reset, Typed, Progress, Paused, Answered, ToldTrue
<1>11. CASE Stop
  <2>1. sorted' \in Lists /\ Kept'
    BY <1>11, ClearKeeps DEF Stop, Clear
  <2>2. Typed'
    BY <1>11, <2>1 DEF Stop, Typed, NoLists, Nothing
  <2> QED
    BY <1>11, <2>1, <2>2 DEF Stop, Progress, Paused, Answered, ToldTrue, Typed
<1>12. CASE UNCHANGED vars
  BY <1>12, KeptUnchanged DEF vars, Typed, Progress, Paused, Answered, ToldTrue
<1> QED
  BY <1>1, <1>2, <1>3, <1>4, <1>5, <1>6, <1>7, <1>8, <1>9, <1>10, <1>11, <1>12 DEF Next

-----------------------------------------------------------------------------
\* The invariant of the scan: what the theorems below follow from.
THEOREM Invariant == Spec => []IInv
<1>1. Init => IInv
  BY InvInit
<1>2. IInv /\ [Next]_vars => IInv'
  BY InvNext
<1> QED
  BY <1>1, <1>2, PTL DEF Spec

\* The list the pages are shown is sorted, without gap or duplicate, and points
\* at records that exist, whatever was found, failed or stopped.
THEOREM ListSorted == Spec => []SortedList
<1>1. IInv => SortedList
  <2> SUFFICES ASSUME IInv, NEW s \in Slots, sorted[s] # Null
               PROVE  /\ Alive(sorted[s])
                      /\ s > 0 => /\ sorted[s - 1] # Null
                                  /\ sorted[s - 1].rssi >= sorted[s].rssi
                      /\ \A t \in Slots : t # s => sorted[t] # sorted[s]
    BY DEF SortedList
  <2>1. Sorted(sorted) /\ Alive(sorted[s])
    BY DEF IInv, Kept
  <2>2. s > 0 => s - 1 \in Slots /\ s - 1 < s
    BY ScanSizes DEF ScanSizes, Slots
  <2> QED
    BY <2>1, <2>2 DEF Sorted
<1> QED
  BY <1>1, Invariant, PTL

\* What a channel adds to the list and what it displaces, for lists of any size.
THEOREM ResultsMerge == Spec => Merged
<1>1. IInv => \A rssi \in Reports : radio /\ scanning /\ ChannelDone(rssi) =>
          LET kept == {sorted[s] : s \in 0 .. MaxResults - Taken(rssi) - 1}
              new  == {Found(rssi)[i] : i \in 1 .. Taken(rssi)}
          IN  {sorted'[s] : s \in Slots} \ {Null} = (kept \cup new) \ {Null}
  BY ChannelMerges DEF IInv, ChannelDone
<1> QED
  BY <1>1, Invariant, PTL DEF Merged

\* A scan in groups has been on every channel before its own, and on all but the
\* last one when it has gone through (manager.c:773-778): the last channel is never
\* scanned, whatever their number.
THEOREM ChannelsInOrder == Spec => []ChannelOrder
<1>1. IInv => ChannelOrder
  BY DEF IInv, Progress, ChannelOrder
<1> QED
  BY <1>1, Invariant, PTL

\* No group is exceeded: the remainder of the channel bounds the burst.
THEOREM BeaconsAreSent == Spec => []BeaconsSent
<1>1. IInv => BeaconsSent
  BY DEF IInv, Paused, BeaconsSent
<1> QED
  BY <1>1, Invariant, PTL

\* What a page was told of a finished scan stays true until the next one.
THEOREM AnswerStaysTrue == Spec => []ToldTrue
<1>1. IInv => ToldTrue
  BY DEF IInv, Answered
<1> QED
  BY <1>1, Invariant, PTL

\* A page that asks for the results below the count gets them all, and no others.
THEOREM CountExact ==
    Spec => [](\A s \in Slots : sorted[s] # Null <=> s < Count(sorted))
<1>1. IInv => \A s \in Slots : sorted[s] # Null <=> s < Count(sorted)
  BY CountRight DEF IInv, Typed, Kept
<1> QED
  BY <1>1, Invariant, PTL

\* Unless the session is stopped meanwhile, a record outlives its copy: the
\* channel it was found on is not scanned again.
THEOREM CopyStaysAlive == "stop_during_copy" \notin Races => (Spec => []CopyAlive)
<1> SUFFICES ASSUME "stop_during_copy" \notin Races PROVE Spec => []CopyAlive
  OBVIOUS
<1>1. Init => Copied
  BY DEF Init, Copied, Idle
<1>2. IInv /\ Copied /\ [Next]_vars => Copied'
  <2> SUFFICES ASSUME IInv, Copied, [Next]_vars PROVE Copied'
    OBVIOUS
  <2> USE DEF IInv
  <2>1. CASE \E blocking \in BOOLEAN, g \in Groups : ScanStart(blocking, g)
    BY <2>1 DEF ScanStart, Copied, Idle
  <2>2. CASE ScanDone
    <3>1. scanning /\ curr \notin visited /\ visited' = visited \cup {curr} /\ http' = http
      BY <2>2, NewChannel DEF ScanDone
    <3>2. \A c \in visited : apList'[c] = apList[c]
      BY <2>2, <3>1 DEF ScanDone, ChannelDone, ChannelFails, Allocate, Typed
    <3> QED
      BY <3>1, <3>2 DEF Copied, Alive
  <2>3. ASSUME NEW s \in Slots, ResultPointer(s)
        PROVE  Copied'
    BY <2>3 DEF ResultPointer, Copied, Kept, Alive
  <2>4. CASE Stop
    BY <2>4 DEF Stop, Copied
  <2>5. CASE ScanWait \/ StatusCount \/ ResultCopy \/ \E p \in Pages : StatusFinished(p)
    BY <2>5 DEF ScanWait, StatusCount, ResultCopy, StatusFinished, Copied, Idle
  <2>6. CASE ScanDoneIgnored \/ Credentials \/ Reset \/ UNCHANGED vars
    BY <2>6 DEF ScanDoneIgnored, Credentials, Reset, vars, Copied, Alive
  <2> QED
    BY <2>1, <2>2, <2>3, <2>4, <2>5, <2>6 DEF Next
<1>3. Copied => CopyAlive
  BY DEF Copied, CopyAlive
<1> QED
  BY <1>1, <1>2, <1>3, Invariant, PTL DEF Spec
=============================================================================
