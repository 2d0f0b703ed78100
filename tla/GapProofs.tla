----------------------------- MODULE GapProofs ------------------------------
(***************************************************************************)
(* find_address_space_gap() for address spaces of any size and shape, any  *)
(* request and any way the reader and the allocator take turns.            *)
(***************************************************************************)
EXTENDS AddressGap, SequenceTheorems, TLAPS

Entry == [start : 1..UserTop, end : 1..UserTop]

Typed ==
  /\ os \in {"FreeBSD", "Linux"} /\ AddressSpace(vm) /\ want \in Requests
  /\ list \in Seq(Entry) /\ pos \in Nat /\ i \in Nat \ {0}
  /\ stale \in BOOLEAN /\ (os = "FreeBSD" => ~stale)
  /\ at \in {"read", "scan", "found", "failed"}

(* The request, before and after it is made representable. *)
Normalised ==
  IF at = "read" THEN len = want[1] /\ align = want[2] /\ i = 1
  ELSE /\ len \in Nat /\ len >= want[1]
       /\ align \in Nat \ {0} /\ UserTop + align <= Span

(***************************************************************************)
(* What has been read: on FreeBSD the map as it is; on Linux, unless       *)
(* something was mapped behind the reader, the map up to the place         *)
(* reached, the highest entry first.                                       *)
(***************************************************************************)
Reversed == /\ Len(list) <= Len(vm)
            /\ \A k \in 1..Len(list) : list[k] = vm[Len(list) - k + 1]
UpTo     == \A j \in 1..Len(vm) : j <= Len(list) <=> vm[j].start < pos
ReadSoFar ==
  /\ (os = "FreeBSD" /\ at # "read") => list = vm
  /\ (os = "Linux" /\ ~stale) => /\ Reversed
                                 /\ IF at = "read" THEN UpTo ELSE Len(list) = Len(vm)

(* Round k of the loop looks at entry Lower(k) and the one above it. *)
Lower(k)  == IF os = "FreeBSD" THEN k ELSE Len(vm) - k
FitsAt(b) == LET aligned == AlignUp(vm[b].end, align) IN
             aligned <= vm[b + 1].start /\ vm[b + 1].start - aligned >= len

(* The rounds before this one found nothing. *)
Scanned ==
  (at # "read" /\ ~stale) =>
    \A k \in 1..(i - 1) : k < Len(vm) => ~FitsAt(Lower(k))

Answer ==
  /\ at = "found" => i < Len(list) /\ Fits /\ addr = AlignUp(Below.end, align)
  /\ at = "failed" => i >= Len(list)

GapInv == Typed /\ Normalised /\ ReadSoFar /\ Scanned /\ Answer

----------------------------------------------------------------------------
(* Division. *)

LEMMA Divides ==
  ASSUME NEW x \in Int, NEW a \in Int, a > 0
  PROVE  /\ x = a * (x \div a) + (x % a) /\ x \div a \in Int
         /\ x % a \in Int /\ 0 <= x % a /\ x % a < a
  OBVIOUS

LEMMA Multiples ==
  ASSUME NEW q \in Int, NEW a \in Int, a > 0
  PROVE  (a * q) % a = 0
  OBVIOUS

LEMMA Remainder ==
  ASSUME NEW r \in Int, NEW a \in Int, 0 <= r, r < a
  PROVE  r % a = r
  OBVIOUS

LEMMA NextMultiple ==
  ASSUME NEW a \in Int, a > 0, NEW p \in Int, NEW q \in Int, a * p > a * q
  PROVE  a * p >= a * (q + 1)
  OBVIOUS

(* __builtin_align_up() gives the next multiple, if there is room for it. *)
LEMMA AlignedUp ==
  ASSUME NEW x \in Nat, NEW a \in Nat \ {0}, x + a <= Span
  PROVE  /\ AlignUp(x, a) \in Nat
         /\ x <= AlignUp(x, a)
         /\ AlignUp(x, a) % a = 0
         /\ \A z \in Nat : (x <= z /\ z % a = 0) => AlignUp(x, a) <= z
<1> DEFINE r == x % a
           q == x \div a
           y == IF r = 0 THEN x ELSE x + (a - r)
<1>1. /\ x = a * q + r /\ q \in Int /\ r \in Int /\ 0 <= r /\ r < a
  BY Divides
<1>2. (a - r) % a = IF r = 0 THEN 0 ELSE a - r
  <2> HIDE DEF r, q
  <2>1. CASE r = 0
    <3>1. a - r = a * 1
      BY <2>1
    <3> QED BY <2>1, <3>1, Multiples
  <2>2. CASE r # 0
    BY <1>1, <2>2, Remainder
  <2> QED BY <2>1, <2>2
<1>s. Span \in Nat
  BY GapAssumption
<1>3. AlignUp(x, a) = y % Span
  <2> HIDE DEF y
  <2>1. AlignUp(x, a) = (x + ((a - r) % a)) % Span
    BY DEF AlignUp
  <2>2. x + ((a - r) % a) = y
    <3> HIDE DEF r, q
    <3> QED BY <1>1, <1>2 DEF y
  <2> QED BY <2>1, <2>2
<1>4. y \in Int /\ x <= y /\ y < x + a
  <2> HIDE DEF r, q
  <2> QED BY <1>1
<1>5. AlignUp(x, a) = y
  <2> HIDE DEF y, Span
  <2> QED BY <1>3, <1>4, <1>s, Remainder
<1>6. y = a * q \/ y = a * (q + 1)
  <2> HIDE DEF r, q
  <2> QED BY <1>1
<1>7. y % a = 0
  <2> HIDE DEF r, q, y
  <2> QED BY <1>1, <1>6, Multiples
<1>8. ASSUME NEW z \in Nat, x <= z, z % a = 0 PROVE y <= z
  <2> DEFINE p == z \div a
  <2>1. z = a * p /\ p \in Int
    BY <1>8, Divides
  <2> HIDE DEF r, q, p
  <2>2. CASE r = 0
    BY <1>8, <2>2
  <2>3. CASE r # 0
    <3>1. a * p > a * q
      BY <1>1, <1>8, <2>1, <2>3
    <3>2. a * p >= a * (q + 1)
      BY <3>1, <2>1, <1>1, NextMultiple
    <3>3. y = a * (q + 1)
      BY <1>1, <2>3
    <3> QED BY <3>2, <3>3, <2>1
  <2> QED BY <2>2, <2>3
<1> HIDE DEF y
<1> QED BY <1>4, <1>5, <1>7, <1>8

----------------------------------------------------------------------------
(* Address spaces. *)

LEMMA MapFacts ==
  ASSUME NEW m, AddressSpace(m)
  PROVE  /\ m \in Seq(Entry) /\ Len(m) \in Nat /\ Len(m) >= 1 /\ UserTop \in Nat
         /\ \A j \in 1..Len(m) : /\ m[j] \in Entry
                                 /\ m[j].start \in Nat /\ m[j].end \in Nat
                                 /\ m[j].start > 0 /\ m[j].end <= UserTop
                                 /\ m[j].start < m[j].end
         /\ \A j, k \in 1..Len(m) : j < k => m[j].end <= m[k].start
<1>1. /\ m \in Seq(Entry) /\ Len(m) \in Nat /\ Len(m) >= 1 /\ UserTop \in Nat
  BY GapAssumption DEF AddressSpace, Entry
<1>2. ASSUME NEW j \in 1..Len(m)
      PROVE  /\ m[j] \in Entry
             /\ m[j].start \in Nat /\ m[j].end \in Nat
             /\ m[j].start > 0 /\ m[j].end <= UserTop
  <2>1. m[j] \in Entry
    BY <1>1
  <2>2. m[j].start \in 1..UserTop /\ m[j].end \in 1..UserTop
    BY <2>1 DEF Entry
  <2> QED BY <1>1, <2>1, <2>2
<1> QED BY <1>1, <1>2 DEF AddressSpace

(* Concatenation, by position. *)
LEMMA Joined ==
  ASSUME NEW s \in Seq(Entry), NEW t \in Seq(Entry)
  PROVE  /\ s \o t \in Seq(Entry) /\ Len(s) \in Nat /\ Len(t) \in Nat
         /\ Len(s \o t) = Len(s) + Len(t)
         /\ \A j \in 1..Len(s) : (s \o t)[j] = s[j]
         /\ \A j \in (Len(s) + 1)..(Len(s) + Len(t)) : (s \o t)[j] = t[j - Len(s)]
<1>1. Len(s) \in Nat /\ Len(t) \in Nat
  OBVIOUS
<1>2. /\ s \o t \in Seq(Entry) /\ Len(s \o t) = Len(s) + Len(t)
      /\ \A j \in 1..(Len(s) + Len(t)) :
           (s \o t)[j] = IF j <= Len(s) THEN s[j] ELSE t[j - Len(s)]
  BY ConcatProperties
<1>3. /\ \A j \in 1..Len(s) : j \in 1..(Len(s) + Len(t)) /\ j <= Len(s)
      /\ \A j \in (Len(s) + 1)..(Len(s) + Len(t)) :
           j \in 1..(Len(s) + Len(t)) /\ ~(j <= Len(s))
  BY <1>1
<1> QED BY <1>1, <1>2, <1>3

LEMMA InsertedFacts ==
  ASSUME vm \in Seq(Entry), NEW k \in 0..Len(vm), NEW r \in Entry
  PROVE  /\ Len(Inserted(k, r)) = Len(vm) + 1
         /\ \A j \in 1..k : Inserted(k, r)[j] = vm[j]
         /\ Inserted(k, r)[k + 1] = r
         /\ \A j \in (k + 2)..(Len(vm) + 1) : Inserted(k, r)[j] = vm[j - 1]
<1> DEFINE a == SubSeq(vm, 1, k)
           b == SubSeq(vm, k + 1, Len(vm))
<1>0. Len(vm) \in Nat /\ k \in Nat /\ k <= Len(vm)
  OBVIOUS
<1>1. a \in Seq(Entry) /\ Len(a) = k /\ \A j \in 1..k : a[j] = vm[j]
  BY <1>0
<1>2. /\ b \in Seq(Entry) /\ Len(b) = Len(vm) - k
      /\ \A j \in 1..(Len(vm) - k) : b[j] = vm[k + j]
  BY <1>0
<1>3. Inserted(k, r) = (a \o <<r>>) \o b
  BY DEF Inserted
<1> DEFINE c == a \o <<r>>
<1> HIDE DEF a, b
<1>4. /\ c \in Seq(Entry) /\ Len(c) = k + 1 /\ c[k + 1] = r
      /\ \A j \in 1..k : c[j] = vm[j]
  BY <1>0, <1>1
<1> HIDE DEF c
<1>5. /\ Len(c \o b) = Len(vm) + 1
      /\ \A j \in 1..(k + 1) : (c \o b)[j] = c[j]
      /\ \A j \in (k + 2)..(Len(vm) + 1) : (c \o b)[j] = b[j - (k + 1)]
  <2>1. Len(c) \in Nat /\ Len(b) \in Nat /\ Len(c) + Len(b) = Len(vm) + 1
    BY <1>0, <1>2, <1>4
  <2>2. /\ Len(c \o b) = Len(c) + Len(b)
        /\ \A j \in 1..Len(c) : (c \o b)[j] = c[j]
        /\ \A j \in (Len(c) + 1)..(Len(c) + Len(b)) : (c \o b)[j] = b[j - Len(c)]
    BY <1>2, <1>4, Joined
  <2>3. Len(c) = k + 1 /\ Len(c) + 1 = k + 2
    BY <1>0, <1>4
  <2> QED BY <2>1, <2>2, <2>3
<1>6. ASSUME NEW j \in (k + 2)..(Len(vm) + 1) PROVE b[j - (k + 1)] = vm[j - 1]
  <2>1. j - (k + 1) \in 1..(Len(vm) - k) /\ k + (j - (k + 1)) = j - 1
    BY <1>0
  <2> QED BY <1>2, <2>1
<1>7. /\ \A j \in 1..k : j \in 1..(k + 1)
      /\ k + 1 \in 1..(k + 1)
  BY <1>0
<1> HIDE DEF Inserted
<1>8. Inserted(k, r) = c \o b
  BY <1>3 DEF c
<1> QED BY <1>4, <1>5, <1>6, <1>7, <1>8

----------------------------------------------------------------------------
LEMMA GapInit == Init => GapInv
<1> SUFFICES ASSUME Init PROVE GapInv
  OBVIOUS
<1>1. /\ os \in {"FreeBSD", "Linux"} /\ AddressSpace(vm) /\ want \in Requests
      /\ list = <<>> /\ pos = 0 /\ stale = FALSE /\ i = 1 /\ at = "read"
      /\ len = want[1] /\ align = want[2]
  BY GapAssumption DEF Init
<1>2. list \in Seq(Entry) /\ Len(list) = 0
  BY <1>1
<1>3. Reversed /\ UpTo
  BY <1>1, <1>2, MapFacts DEF Reversed, UpTo
<1>4. Typed
  <2>1. pos \in Nat /\ i \in Nat \ {0}
    BY <1>1
  <2> QED BY <1>1, <1>2, <2>1, Zenon DEF Typed
<1>5. Normalised
  BY <1>1 DEF Normalised
<1>6. ReadSoFar /\ Scanned /\ Answer
  BY <1>1, <1>3 DEF ReadSoFar, Scanned, Answer
<1> QED BY <1>4, <1>5, <1>6 DEF GapInv

(* The request is normalised when the reading is over. *)
LEMMA ScanStarts ==
  ASSUME Typed, Normalised, at = "read", NEW l, StartScan(l)
  PROVE  at' = "scan" /\ list' = l /\ (UNCHANGED <<want, i>> => Normalised')
BY GapAssumption DEF Typed, Normalised, StartScan

(* Reading, FreeBSD's way and up to the end of Linux's file. *)
LEMMA ReadSteps ==
  ASSUME GapInv, Snapshot \/ EndOfFile
  PROVE  GapInv'
<1>0. Typed /\ Normalised /\ ReadSoFar
  BY DEF GapInv
<1>1. /\ at = "read" /\ at' = "scan" /\ Normalised'
      /\ UNCHANGED <<os, vm, pos, stale, want, i>>
      /\ \/ os = "FreeBSD" /\ list' = vm
         \/ os = "Linux" /\ list' = list /\ Ahead = {}
  BY <1>0, ScanStarts DEF Snapshot, EndOfFile
<1>2. i = 1
  BY <1>0, <1>1 DEF Normalised
<1>3. AddressSpace(vm)' /\ vm \in Seq(Entry) /\ list \in Seq(Entry)
  BY <1>0, <1>1, MapFacts DEF Typed, AddressSpace
<1>4. Typed'
  BY <1>0, <1>1, <1>3 DEF Typed
<1>5. ReadSoFar'
  <2>1. CASE os = "FreeBSD"
    BY <1>1, <2>1 DEF ReadSoFar
  <2>2. CASE os = "Linux"
    <3>1. /\ list' = list /\ Ahead = {} /\ Len(list) \in Nat /\ Len(vm) \in Nat
          /\ Len(vm) >= 1 /\ pos \in Nat
          /\ \A j \in 1..Len(vm) : vm[j].start \in Nat
      BY <1>0, <1>1, <2>2, <1>3, MapFacts DEF Typed
    <3>2. ASSUME ~stale PROVE Reversed /\ Len(list) = Len(vm)
      <4>1. Reversed /\ UpTo
        BY <1>0, <1>1, <2>2, <3>2 DEF ReadSoFar
      <4>2. Len(vm) \in 1..Len(vm) /\ ~(vm[Len(vm)].start >= pos)
        BY <3>1 DEF Ahead
      <4>3. vm[Len(vm)].start < pos
        BY <3>1, <4>2
      <4>4. Len(vm) <= Len(list)
        BY <4>1, <4>2, <4>3 DEF UpTo
      <4> QED BY <3>1, <4>1, <4>4 DEF Reversed
    <3> QED BY <1>1, <2>2, <3>1, <3>2 DEF ReadSoFar, Reversed
  <2> QED BY <1>0, <2>1, <2>2 DEF Typed
<1>6. Scanned' /\ Answer'
  <2>1. \A k \in 1..(1 - 1) : FALSE
    OBVIOUS
  <2> QED BY <1>1, <1>2, <2>1 DEF Scanned, Answer
<1> QED BY <1>1, <1>4, <1>5, <1>6 DEF GapInv

(* One read of /proc/self/maps. *)
LEMMA ReadLinesStep ==
  ASSUME GapInv, ReadLines
  PROVE  GapInv'
<1>0. Typed /\ Normalised /\ ReadSoFar
  BY DEF GapInv
<1>1. PICK first, last \in Ahead :
        /\ \A k \in Ahead : first <= k
        /\ list' = [k \in 1..(last - first + 1) |-> vm[last - k + 1]] \o list
        /\ pos' = vm[last].end
  BY DEF ReadLines
<1>2. /\ os = "Linux" /\ at = "read"
      /\ UNCHANGED <<os, vm, stale, want, len, align, i, addr, at>>
  BY DEF ReadLines
<1>3. /\ vm \in Seq(Entry) /\ list \in Seq(Entry) /\ pos \in Nat
      /\ Len(vm) \in Nat /\ Len(list) \in Nat
      /\ \A j \in 1..Len(vm) : /\ vm[j] \in Entry
                               /\ vm[j].start \in Nat /\ vm[j].end \in Nat
                               /\ vm[j].start < vm[j].end
      /\ \A j, k \in 1..Len(vm) : j < k => vm[j].end <= vm[k].start
  BY <1>0, MapFacts DEF Typed
<1>4. first \in 1..Len(vm) /\ last \in 1..Len(vm) /\ first <= last
  BY <1>1 DEF Ahead
<1> DEFINE s == [k \in 1..(last - first + 1) |-> vm[last - k + 1]]
<1>5. s \in Seq(Entry) /\ Len(s) = last - first + 1
  <2>1. last - first + 1 \in Nat
    BY <1>3, <1>4
  <2>2. \A k \in 1..(last - first + 1) : last - k + 1 \in 1..Len(vm)
    BY <1>3, <1>4
  <2>3. \A k \in 1..(last - first + 1) : vm[last - k + 1] \in Entry
    BY <1>3, <2>2
  <2>4. s \in [1..(last - first + 1) -> Entry]
    BY <2>3
  <2> QED BY <2>1, <2>4
<1>6. /\ list' \in Seq(Entry) /\ Len(list') = Len(s) + Len(list)
      /\ \A j \in 1..Len(s) : list'[j] = s[j]
      /\ \A j \in (Len(s) + 1)..(Len(s) + Len(list)) : list'[j] = list[j - Len(s)]
  <2>1. list' = s \o list
    BY <1>1
  <2> HIDE DEF s
  <2> QED BY <1>3, <1>5, <2>1, Joined
<1>7. Typed'
  <2>1. AddressSpace(vm)'
    BY <1>0, <1>2 DEF Typed, AddressSpace
  <2>2. pos' \in Nat
    BY <1>1, <1>3, <1>4
  <2> QED BY <1>0, <1>2, <1>6, <2>1, <2>2 DEF Typed
<1>8. Normalised' /\ Scanned' /\ Answer'
  BY <1>0, <1>2 DEF Normalised, Scanned, Answer
<1>9. ReadSoFar'
  <2> SUFFICES ASSUME ~stale PROVE Reversed' /\ UpTo'
    BY <1>2 DEF ReadSoFar
  <2>1. Reversed /\ UpTo
    BY <1>0, <1>2 DEF ReadSoFar
  <2>2. first = Len(list) + 1
    <3>1. vm[first].start >= pos /\ ~(vm[first].start < pos)
      BY <1>1, <1>3, <1>4 DEF Ahead
    <3>2. first > Len(list)
      BY <1>3, <1>4, <2>1, <3>1 DEF UpTo
    <3>3. Len(list) + 1 \in 1..Len(vm)
      BY <1>3, <1>4, <3>2
    <3>4. ~(vm[Len(list) + 1].start < pos)
      BY <1>3, <2>1, <3>3 DEF UpTo
    <3>5. Len(list) + 1 \in Ahead
      BY <1>3, <3>3, <3>4 DEF Ahead
    <3> QED BY <1>1, <1>3, <1>4, <3>2, <3>5
  <2>3. Len(s) = last - Len(list) /\ Len(list') = last
    BY <1>3, <1>4, <1>5, <1>6, <2>2
  <2>4. ASSUME NEW j \in 1..last PROVE list'[j] = vm[last - j + 1]
    <3>1. CASE j <= Len(s)
      <4>1. j \in 1..Len(s) /\ j \in 1..(last - first + 1)
        BY <1>3, <1>4, <1>5, <3>1
      <4> QED BY <1>6, <4>1
    <3>2. CASE ~(j <= Len(s))
      <4> HIDE DEF s
      <4>1. /\ j \in (Len(s) + 1)..(Len(s) + Len(list)) /\ j - Len(s) \in 1..Len(list)
            /\ Len(list) - (j - Len(s)) + 1 = last - j + 1
        BY <1>3, <1>4, <2>3, <3>2
      <4>2. list'[j] = list[j - Len(s)]
        BY <1>6, <4>1
      <4>3. list[j - Len(s)] = vm[Len(list) - (j - Len(s)) + 1]
        BY <2>1, <4>1 DEF Reversed
      <4> QED BY <4>1, <4>2, <4>3
    <3> QED BY <3>1, <3>2
  <2>5. Reversed'
    BY <1>2, <1>3, <1>4, <2>3, <2>4 DEF Reversed
  <2>6. ASSUME NEW j \in 1..Len(vm) PROVE j <= last <=> vm[j].start < vm[last].end
    <3>1. CASE j < last
      BY <1>3, <1>4, <3>1
    <3>2. CASE j = last
      BY <1>3, <1>4, <3>2
    <3>3. CASE j > last
      BY <1>3, <1>4, <3>3
    <3> QED BY <1>3, <1>4, <3>1, <3>2, <3>3
  <2>7. UpTo'
    BY <1>1, <1>2, <2>3, <2>6 DEF UpTo
  <2> QED BY <2>5, <2>7
<1> QED BY <1>7, <1>8, <1>9 DEF GapInv

(* A mapping behind the reader is recorded; one ahead of it will be read. *)
LEMMA GrowStep ==
  ASSUME GapInv, NEW r \in Entry, Grow(r)
  PROVE  GapInv'
<1>0. Typed /\ Normalised /\ ReadSoFar
  BY DEF GapInv
<1>1. PICK k \in 0..Len(vm) : AddressSpace(Inserted(k, r)) /\ vm' = Inserted(k, r)
  BY DEF Grow
<1>2. /\ os = "Linux" /\ at = "read"
      /\ UNCHANGED <<os, list, pos, want, len, align, i, addr, at>>
      /\ stale' = (stale \/ r.start < pos)
  BY DEF Grow
<1>3. /\ vm \in Seq(Entry) /\ list \in Seq(Entry) /\ pos \in Nat
      /\ Len(vm) \in Nat /\ Len(list) \in Nat /\ k \in Nat /\ k <= Len(vm)
      /\ r.start \in Nat /\ r.end \in Nat
  <2>1. UserTop \in Nat /\ r.start \in 1..UserTop /\ r.end \in 1..UserTop
    BY GapAssumption DEF Entry
  <2>2. vm \in Seq(Entry) /\ list \in Seq(Entry) /\ pos \in Nat
    BY <1>0, MapFacts DEF Typed
  <2> QED BY <2>1, <2>2
<1>4. /\ Len(vm') = Len(vm) + 1 /\ vm'[k + 1] = r
      /\ \A j \in 1..k : vm'[j] = vm[j]
      /\ \A j \in (k + 2)..(Len(vm) + 1) : vm'[j] = vm[j - 1]
  BY <1>1, <1>3, InsertedFacts
<1>5. /\ \A j \in 1..Len(vm') : /\ vm'[j].start \in Nat /\ vm'[j].end \in Nat
                                /\ vm'[j].start < vm'[j].end
      /\ \A j, l \in 1..Len(vm') : j < l => vm'[j].end <= vm'[l].start
  <2> DEFINE m == Inserted(k, r)
  <2>1. AddressSpace(m) /\ vm' = m
    BY <1>1
  <2> HIDE DEF m
  <2> QED BY <2>1, MapFacts
<1>6. Typed'
  <2>1. AddressSpace(vm)'
    BY <1>1 DEF AddressSpace
  <2>2. stale' \in BOOLEAN /\ (os' = "FreeBSD" => ~stale')
    BY <1>2
  <2> QED BY <1>0, <1>2, <2>1, <2>2 DEF Typed
<1>7. Normalised' /\ Scanned' /\ Answer'
  BY <1>0, <1>2 DEF Normalised, Scanned, Answer
<1>8. ReadSoFar'
  <2> SUFFICES ASSUME ~stale, ~(r.start < pos) PROVE Reversed' /\ UpTo'
    BY <1>2 DEF ReadSoFar
  <2>1. Reversed /\ UpTo
    BY <1>0, <1>2 DEF ReadSoFar
  <2>2. Len(list) <= k
    <3> SUFFICES ASSUME k < Len(list) PROVE FALSE
      BY <1>3
    <3>1. /\ k + 1 \in 1..Len(vm) /\ k + 1 <= Len(list)
          /\ k + 2 \in (k + 2)..(Len(vm) + 1) /\ (k + 2) - 1 = k + 1
          /\ k + 1 \in 1..Len(vm') /\ k + 2 \in 1..Len(vm') /\ k + 1 < k + 2
      BY <1>3, <1>4, <2>1 DEF Reversed
    <3>2. vm[k + 1].start < pos
      BY <2>1, <3>1 DEF UpTo
    <3>3. vm'[k + 2] = vm[k + 1]
      BY <1>4, <3>1
    <3>4. vm'[k + 1].end <= vm'[k + 2].start /\ vm'[k + 1].start < vm'[k + 1].end
      BY <1>5, <3>1
    <3>5. r.end <= vm[k + 1].start /\ r.start < r.end /\ vm[k + 1].start \in Nat
      BY <1>4, <1>5, <3>1, <3>3, <3>4
    <3> QED BY <1>3, <3>2, <3>5
  <2>3. Reversed'
    <3>1. \A j \in 1..Len(list) : Len(list) - j + 1 \in 1..k
      BY <1>3, <2>2
    <3>2. \A j \in 1..Len(list) : list[j] = vm'[Len(list) - j + 1]
      BY <1>4, <2>1, <3>1 DEF Reversed
    <3>3. Len(list) <= Len(vm')
      BY <1>3, <1>4, <2>2
    <3> QED BY <1>2, <3>2, <3>3 DEF Reversed
  <2>4. ASSUME NEW j \in 1..Len(vm')
        PROVE  j <= Len(list) <=> vm'[j].start < pos
    <3>1. CASE j <= k
      <4>1. j \in 1..k /\ j \in 1..Len(vm)
        BY <1>3, <1>4, <3>1
      <4> QED BY <1>4, <2>1, <4>1 DEF UpTo
    <3>2. CASE j = k + 1
      BY <1>3, <1>4, <2>2, <3>2
    <3>3. CASE j > k + 1
      <4>1. /\ j \in (k + 2)..(Len(vm) + 1) /\ j - 1 \in 1..Len(vm) /\ j - 1 > Len(list)
            /\ ~(j <= Len(list)) /\ ~(j - 1 <= Len(list))
        BY <1>3, <1>4, <2>2, <3>3
      <4>2. vm'[j] = vm[j - 1]
        BY <1>4, <4>1
      <4>3. ~(vm[j - 1].start < pos)
        BY <2>1, <4>1 DEF UpTo
      <4> QED BY <4>1, <4>2, <4>3
    <3> QED BY <1>3, <1>4, <3>1, <3>2, <3>3
  <2>5. UpTo'
    BY <1>2, <2>4 DEF UpTo
  <2> QED BY <2>3, <2>5
<1> QED BY <1>6, <1>7, <1>8 DEF GapInv

----------------------------------------------------------------------------
(* The scan. *)

(* What a round compares, in the map. *)
LEMMA Neighbours ==
  ASSUME Typed, ReadSoFar, at # "read", ~stale, i < Len(list)
  PROVE  /\ Len(list) = Len(vm) /\ i \in 1..(Len(vm) - 1)
         /\ Lower(i) \in 1..(Len(vm) - 1)
         /\ Below = vm[Lower(i)] /\ Above = vm[Lower(i) + 1]
<1>1. /\ Len(vm) \in Nat /\ i \in Nat /\ i > 0
  BY MapFacts DEF Typed
<1>2. CASE os = "FreeBSD"
  BY <1>1, <1>2 DEF ReadSoFar, Lower, Below, Above
<1>3. CASE os = "Linux"
  <2>1. /\ Len(list) = Len(vm)
        /\ \A k \in 1..Len(list) : list[k] = vm[Len(list) - k + 1]
    BY <1>3 DEF ReadSoFar, Reversed
  <2>2. /\ i \in 1..(Len(vm) - 1) /\ i \in 1..Len(list) /\ i + 1 \in 1..Len(list)
        /\ Len(list) - i + 1 = (Len(vm) - i) + 1
        /\ Len(list) - (i + 1) + 1 = Len(vm) - i
        /\ Len(vm) - i \in 1..(Len(vm) - 1)
    BY <1>1, <2>1
  <2>3. list[i] = vm[(Len(vm) - i) + 1] /\ list[i + 1] = vm[Len(vm) - i]
    BY <2>1, <2>2
  <2> QED BY <1>3, <2>1, <2>2, <2>3 DEF Lower, Below, Above
<1> QED BY <1>2, <1>3 DEF Typed

(* The entries compared, also when something was mapped behind the reader. *)
LEMMA Looked ==
  ASSUME Typed, Normalised, at # "read", i < Len(list)
  PROVE  /\ Below.end \in Nat /\ Below.end > 0 /\ Above.start \in Nat
         /\ Below.end + align <= Span
<1>1. /\ i \in 1..Len(list) /\ i + 1 \in 1..Len(list) /\ list \in Seq(Entry)
  BY DEF Typed
<1>2. list[i] \in Entry /\ list[i + 1] \in Entry
  BY <1>1
<1>3. UserTop \in Nat /\ align \in Nat /\ UserTop + align <= Span /\ Span \in Nat
  BY GapAssumption DEF Normalised
<1>4. \A e \in Entry : e.start \in 1..UserTop /\ e.end \in 1..UserTop
  BY DEF Entry
<1>5. Below.end \in 1..UserTop /\ Above.start \in 1..UserTop
  BY <1>2, <1>4 DEF Below, Above
<1> HIDE DEF Span, Below, Above
<1> QED BY <1>3, <1>5

LEMMA ScanStep ==
  ASSUME GapInv, Scan
  PROVE  GapInv'
<1>0. Typed /\ Normalised /\ ReadSoFar /\ Scanned
  BY DEF GapInv
<1>1. /\ at = "scan" /\ i < Len(list) /\ i \in Nat \ {0}
      /\ UNCHANGED <<os, vm, list, pos, stale, want, len, align>>
  BY <1>0 DEF Scan, Typed
<1>2. Typed => (i' \in Nat \ {0} /\ at' \in {"scan", "found", "failed"} =>
                  Typed' /\ Normalised' /\ ReadSoFar')
  BY <1>0, <1>1 DEF Typed, AddressSpace, Normalised, ReadSoFar, Reversed
<1>3. CASE /\ Fits /\ i' = i /\ addr' = AlignUp(Below.end, align)
           /\ at' = IF addr' = 0 THEN "failed" ELSE "found"
  <2>1. addr' # 0
    <3>1. /\ Below.end \in Nat /\ Below.end > 0 /\ align \in Nat \ {0}
          /\ Below.end + align <= Span
      BY <1>0, <1>1, Looked DEF Normalised
    <3>2. AlignUp(Below.end, align) >= Below.end /\ AlignUp(Below.end, align) \in Nat
      BY <3>1, AlignedUp
    <3> DEFINE a == AlignUp(Below.end, align)
               b == Below.end
    <3>3. a >= b /\ b > 0 /\ a \in Nat /\ b \in Nat /\ addr' = a
      BY <1>3, <3>1, <3>2
    <3> HIDE DEF a, b
    <3> QED BY <3>3
  <2>2. at' = "found"
    BY <1>3, <2>1
  <2>3. Typed' /\ Normalised' /\ ReadSoFar'
    BY <1>0, <1>1, <1>2, <1>3, <2>2
  <2>4. Scanned'
    BY <1>0, <1>1, <1>3, <2>2 DEF Scanned, FitsAt, Lower, AlignUp
  <2>5. Answer'
    BY <1>1, <1>3, <2>2 DEF Answer, Fits, Below, Above, AlignUp
  <2> QED BY <2>3, <2>4, <2>5 DEF GapInv
<1>4. CASE ~Fits /\ i' = i + 1 /\ UNCHANGED <<addr, at>>
  <2>1. i' \in Nat \ {0} /\ at' = "scan"
    BY <1>1, <1>4
  <2>2. Typed' /\ Normalised' /\ ReadSoFar'
    BY <1>0, <1>2, <2>1
  <2>3. Answer'
    BY <2>1 DEF Answer
  <2>4. Scanned'
    <3> SUFFICES ASSUME ~stale, NEW k \in 1..i, k < Len(vm) PROVE ~FitsAt(Lower(k))
      <4>1. i' - 1 = i
        BY <1>1, <1>4
      <4> QED BY <1>1, <4>1 DEF Scanned, FitsAt, Lower, AlignUp
    <3>1. CASE k = i
      <4>1. Below = vm[Lower(i)] /\ Above = vm[Lower(i) + 1]
        BY <1>0, <1>1, Neighbours
      <4> QED BY <1>4, <3>1, <4>1 DEF Fits, FitsAt
    <3>2. CASE k # i
      <4>1. k \in 1..(i - 1)
        BY <1>1, <3>2
      <4> QED BY <1>0, <1>1, <4>1 DEF Scanned
    <3> QED BY <3>1, <3>2
  <2> QED BY <2>2, <2>3, <2>4 DEF GapInv
<1> QED BY <1>3, <1>4 DEF Scan

LEMMA GapInvariant == Spec => []GapInv
<1>1. GapInv /\ [Next]_gapVars => GapInv'
  <2> SUFFICES ASSUME GapInv, [Next]_gapVars PROVE GapInv'
    OBVIOUS
  <2>1. CASE Snapshot \/ EndOfFile
    BY <2>1, ReadSteps
  <2>2. CASE ReadLines
    BY <2>2, ReadLinesStep
  <2>3. CASE \E s, e \in 1..UserTop : s < e /\ Grow([start |-> s, end |-> e])
    <3>1. PICK s \in 1..UserTop, e \in 1..UserTop : Grow([start |-> s, end |-> e])
      BY <2>3
    <3>2. [start |-> s, end |-> e] \in Entry
      BY DEF Entry
    <3> QED BY <3>1, <3>2, GrowStep
  <2>4. CASE Scan
    BY <2>4, ScanStep
  <2>s. ASSUME UNCHANGED <<os, vm, list, pos, stale, want, len, align, i>>
        PROVE  /\ (Reversed' <=> Reversed) /\ (UpTo' <=> UpTo)
               /\ (\A k \in 1..(i - 1) : k < Len(vm) => ~FitsAt(Lower(k)))' <=>
                    (\A k \in 1..(i - 1) : k < Len(vm) => ~FitsAt(Lower(k)))
               /\ (AddressSpace(vm)' <=> AddressSpace(vm))
               /\ Fits' <=> Fits
               /\ AlignUp(Below.end, align)' = AlignUp(Below.end, align)
    BY <2>s DEF FitsAt, Lower, AlignUp, Reversed, UpTo, AddressSpace, Fits, Below, Above
  <2>5. CASE NoRegion
    <3>1. /\ at = "scan" /\ at' = "failed" /\ i >= Len(list)
          /\ UNCHANGED <<os, vm, list, pos, stale, want, len, align, i>>
      BY <2>5 DEF NoRegion
    <3> QED BY <2>s, <3>1 DEF GapInv, Typed, Normalised, ReadSoFar, Scanned, Answer
  <2>6. CASE UNCHANGED gapVars
    <3>1. UNCHANGED <<os, vm, list, pos, stale, want, len, align, i, addr, at>>
      BY <2>6 DEF gapVars
    <3> QED BY <2>s, <3>1 DEF GapInv, Typed, Normalised, ReadSoFar, Scanned, Answer
  <2> QED BY <2>1, <2>2, <2>3, <2>4, <2>5, <2>6 DEF Next, Returned
<1> QED BY <1>1, GapInit, PTL DEF Spec

----------------------------------------------------------------------------
(* The mappings below and above a place in the map. *)
LEMMA Sides ==
  ASSUME AddressSpace(vm), NEW b \in 1..(Len(vm) - 1), NEW j \in 1..Len(vm)
  PROVE  /\ j <= b => vm[j].end <= vm[b].end
         /\ j > b => vm[b + 1].start <= vm[j].start
<1>1. /\ Len(vm) \in Nat
      /\ \A k \in 1..Len(vm) : /\ vm[k].start \in Nat /\ vm[k].end \in Nat
                               /\ vm[k].start < vm[k].end
      /\ \A k, l \in 1..Len(vm) : k < l => vm[k].end <= vm[l].start
  BY MapFacts
<1>2. b \in 1..Len(vm) /\ b + 1 \in 1..Len(vm) /\ j \in Nat /\ b \in Nat
  BY <1>1
<1>3. ASSUME j <= b PROVE vm[j].end <= vm[b].end
  <2>1. CASE j = b
    BY <1>1, <1>2, <2>1
  <2>2. CASE j < b
    BY <1>1, <1>2, <2>2
  <2> QED BY <1>2, <1>3, <2>1, <2>2
<1>4. ASSUME j > b PROVE vm[b + 1].start <= vm[j].start
  <2>1. CASE j = b + 1
    BY <1>1, <1>2, <2>1
  <2>2. CASE b + 1 < j
    BY <1>1, <1>2, <2>2
  <2> QED BY <1>2, <1>4, <2>1, <2>2
<1> QED BY <1>3, <1>4

(* What is returned lies between two neighbours in the map. *)
LEMMA FoundBetween ==
  ASSUME GapInv, at = "found", ~stale
  PROVE  /\ Lower(i) \in 1..(Len(vm) - 1) /\ i \in 1..(Len(vm) - 1)
         /\ addr \in Nat /\ len \in Nat
         /\ vm[Lower(i)].end <= addr /\ addr + len <= vm[Lower(i) + 1].start
<1>1. /\ Typed /\ Normalised /\ ReadSoFar /\ i < Len(list) /\ Fits
      /\ addr = AlignUp(Below.end, align)
  BY DEF GapInv, Answer
<1>2. /\ Lower(i) \in 1..(Len(vm) - 1) /\ i \in 1..(Len(vm) - 1)
      /\ Below = vm[Lower(i)] /\ Above = vm[Lower(i) + 1]
  BY <1>1, Neighbours
<1>3. /\ Below.end \in Nat /\ Above.start \in Nat /\ align \in Nat \ {0} /\ len \in Nat
      /\ Below.end + align <= Span
  BY <1>1, Looked DEF Normalised
<1>4. addr \in Nat /\ Below.end <= addr
  BY <1>1, <1>3, AlignedUp
<1>5. addr <= Above.start /\ Above.start - addr >= len
  BY <1>1 DEF Fits
<1> DEFINE t == Above.start
<1>6. addr + len <= t
  <2>1. t \in Nat /\ t - addr >= len
    BY <1>3, <1>5
  <2> HIDE DEF t
  <2> QED BY <1>3, <1>4, <2>1
<1> QED BY <1>2, <1>3, <1>4, <1>6

(* A hole with room at an aligned place fits. *)
LEMMA RoomFits ==
  ASSUME GapInv, at # "read", NEW j \in 1..(Len(vm) - 1),
         NEW a \in vm[j].end..vm[j + 1].start, a % align = 0,
         vm[j + 1].start - a >= len
  PROVE  FitsAt(j)
<1>1. Typed /\ Normalised
  BY DEF GapInv
<1>2. j \in 1..Len(vm) /\ j + 1 \in 1..Len(vm) /\ AddressSpace(vm)
  BY <1>1, MapFacts DEF Typed
<1>3. /\ vm[j].end \in Nat /\ vm[j + 1].start \in Nat /\ vm[j].end <= UserTop
      /\ UserTop \in Nat
  BY <1>2, MapFacts
<1>4. /\ align \in Nat \ {0} /\ len \in Nat /\ UserTop + align <= Span /\ Span \in Nat
  BY <1>1, GapAssumption DEF Normalised
<1> DEFINE x == vm[j].end
           t == vm[j + 1].start
           y == AlignUp(x, align)
<1>5. /\ x \in Nat /\ t \in Nat /\ x + align <= Span /\ a \in Nat /\ x <= a /\ a <= t
      /\ t - a >= len
  <2>1. a \in x..t /\ x <= UserTop /\ x \in Nat /\ t \in Nat /\ t - a >= len
    BY <1>3
  <2> HIDE DEF x, t, Span
  <2> QED BY <1>3, <1>4, <2>1
<1>6. y \in Nat /\ y <= a
  <2> HIDE DEF x, t
  <2> QED BY <1>4, <1>5, AlignedUp
<1>7. y <= t /\ t - y >= len
  <2> HIDE DEF x, t, y
  <2> QED BY <1>4, <1>5, <1>6
<1> QED BY <1>7 DEF FitsAt

(***************************************************************************)
(* What the search returns is aligned, as long as asked for and free, for  *)
(* every memory map and request, unless its own allocations were mapped    *)
(* behind the reader.  Code: cheriostest_util_vm.c 98-107 and 163-173.     *)
(***************************************************************************)
THEOREM GapIsFree == Spec => []FoundIsFree
<1>1. GapInv => FoundIsFree
  <2> SUFFICES ASSUME GapInv, at = "found" PROVE FoundIsFree
    BY DEF FoundIsFree
  <2>1. /\ Typed /\ Normalised /\ i < Len(list) /\ addr = AlignUp(Below.end, align)
        /\ len >= want[1]
    BY DEF GapInv, Answer, Normalised
  <2>2. addr % align = 0
    BY <2>1, Looked, AlignedUp DEF Normalised
  <2>3. ASSUME ~stale, NEW j \in 1..Len(vm)
        PROVE  vm[j].end <= addr \/ addr + len <= vm[j].start
    <3> DEFINE b == Lower(i)
    <3>1. /\ b \in 1..(Len(vm) - 1) /\ addr \in Nat /\ len \in Nat
          /\ vm[b].end <= addr /\ addr + len <= vm[b + 1].start
      BY <2>3, FoundBetween
    <3>2. /\ AddressSpace(vm) /\ Len(vm) \in Nat
          /\ \A k \in 1..Len(vm) : vm[k].start \in Nat /\ vm[k].end \in Nat
      BY <2>1, MapFacts DEF Typed
    <3> HIDE DEF b
    <3>3. /\ j <= b => vm[j].end <= vm[b].end
          /\ j > b => vm[b + 1].start <= vm[j].start
      BY <3>1, <3>2, Sides
    <3>4. b \in 1..Len(vm) /\ b + 1 \in 1..Len(vm)
      BY <3>1, <3>2
    <3>5. CASE j <= b
      BY <3>1, <3>2, <3>3, <3>4, <3>5
    <3>6. CASE j > b
      BY <3>1, <3>2, <3>3, <3>4, <3>6
    <3> QED BY <3>1, <3>2, <3>5, <3>6
  <2> QED BY <2>1, <2>2, <2>3 DEF FoundIsFree, FreeIn
<1> QED BY <1>1, GapInvariant, PTL

(***************************************************************************)
(* The search gives up only when no two neighbouring mappings leave room   *)
(* at an aligned place: both loops visit every pair, and an address 0 is   *)
(* never taken for a hole.  Code: the loop bounds, 98-107 and 163-173.     *)
(***************************************************************************)
THEOREM GapIsFound == Spec => []FailsOnlyIfFull
<1>1. GapInv => FailsOnlyIfFull
  <2> SUFFICES ASSUME GapInv, at = "failed", ~stale,
                      NEW j \in 1..(Len(vm) - 1), NEW a \in vm[j].end..vm[j + 1].start,
                      a % align = 0
               PROVE  vm[j + 1].start - a < len
    BY DEF FailsOnlyIfFull
  <2>1. Typed /\ Normalised /\ ReadSoFar /\ Scanned /\ i >= Len(list)
    BY DEF GapInv, Answer
  <2>2. Len(vm) \in Nat /\ i \in Nat /\ Len(list) = Len(vm)
    BY <2>1, MapFacts DEF Typed, ReadSoFar
  <2> DEFINE k == IF os = "FreeBSD" THEN j ELSE Len(vm) - j
  <2>3. k \in 1..(i - 1) /\ k < Len(vm) /\ Lower(k) = j
    <3>1. /\ j \in 1..(i - 1) /\ j < Len(vm)
          /\ Len(vm) - j \in 1..(i - 1) /\ Len(vm) - j < Len(vm)
          /\ Len(vm) - (Len(vm) - j) = j
      BY <2>1, <2>2
    <3> QED BY <3>1 DEF Lower
  <2> HIDE DEF k
  <2>4. ~FitsAt(j)
    BY <2>1, <2>3 DEF Scanned
  <2>5. ~(vm[j + 1].start - a >= len)
    BY <2>4, RoomFits
  <2>6. vm[j].end \in Nat /\ vm[j + 1].start \in Nat /\ len \in Nat
    <3>1. j \in 1..Len(vm) /\ j + 1 \in 1..Len(vm) /\ AddressSpace(vm)
      BY <2>1, <2>2 DEF Typed
    <3> QED BY <2>1, <3>1, MapFacts DEF Normalised
  <2> DEFINE x == vm[j].end
             t == vm[j + 1].start
  <2>7. a \in x..t /\ x \in Nat /\ t \in Nat /\ ~(t - a >= len)
    BY <2>5, <2>6
  <2>8. t - a < len
    <3> HIDE DEF x, t
    <3> QED BY <2>6, <2>7
  <2> QED BY <2>8
<1> QED BY <1>1, GapInvariant, PTL

(***************************************************************************)
(* FreeBSD returns the lowest hole that fits, Linux the highest.           *)
(* Code: cheriostest_util_vm.c 98-107 against 150 and 163-173.             *)
(***************************************************************************)
THEOREM GapIsExtreme == Spec => []FoundIsExtreme
<1>1. GapInv => FoundIsExtreme
  <2> SUFFICES ASSUME GapInv, at = "found", ~stale,
                      NEW j \in 1..(Len(vm) - 1), NEW a \in vm[j].end..vm[j + 1].start,
                      a % align = 0, vm[j + 1].start - a >= len
               PROVE  IF os = "FreeBSD" THEN addr <= vm[j + 1].start ELSE addr >= vm[j].end
    BY DEF FoundIsExtreme
  <2>1. Typed /\ Scanned /\ AddressSpace(vm)
    BY DEF GapInv, Typed
  <2>2. FitsAt(j)
    BY RoomFits
  <2>3. /\ Lower(i) \in 1..(Len(vm) - 1) /\ i \in 1..(Len(vm) - 1)
        /\ addr \in Nat /\ len \in Nat
        /\ vm[Lower(i)].end <= addr /\ addr + len <= vm[Lower(i) + 1].start
    BY FoundBetween
  <2>4. /\ Len(vm) \in Nat
        /\ \A k \in 1..Len(vm) : vm[k].start \in Nat /\ vm[k].end \in Nat
    BY <2>1, MapFacts
  <2>5. CASE os = "FreeBSD"
    <3>1. i <= j
      <4> SUFFICES ASSUME j < i PROVE FALSE
        BY <2>3, <2>4
      <4>1. j \in 1..(i - 1) /\ j < Len(vm)
        BY <2>3, <2>4
      <4> QED BY <2>1, <2>2, <2>5, <4>1 DEF Scanned, Lower
    <3>2. j + 1 \in 1..Len(vm) /\ i + 1 \in 1..Len(vm) /\ j + 1 > i
      BY <2>3, <2>4, <3>1
    <3>3. vm[i + 1].start <= vm[j + 1].start
      BY <2>1, <2>3, <3>2, Sides
    <3>4. addr + len <= vm[i + 1].start
      BY <2>3, <2>5 DEF Lower
    <3>5. vm[i + 1].start \in Nat /\ vm[j + 1].start \in Nat
      BY <2>4, <3>2
    <3>6. addr <= vm[j + 1].start
      BY <2>3, <3>3, <3>4, <3>5
    <3> QED BY <2>5, <3>6
  <2>6. CASE os # "FreeBSD"
    <3> DEFINE b == Len(vm) - i
    <3>0. Lower(i) = b /\ b \in 1..(Len(vm) - 1) /\ vm[b].end <= addr
      BY <2>3, <2>6 DEF Lower
    <3>1. j <= b
      <4> SUFFICES ASSUME b < j PROVE FALSE
        BY <2>3, <2>4
      <4> DEFINE k == Len(vm) - j
      <4>1. k \in 1..(i - 1) /\ k < Len(vm) /\ Len(vm) - k = j
        BY <2>3, <2>4
      <4>2. Lower(k) = j
        BY <2>6, <4>1 DEF Lower
      <4> HIDE DEF k
      <4> QED BY <2>1, <2>2, <4>1, <4>2 DEF Scanned
    <3>2. j \in 1..Len(vm) /\ b \in 1..Len(vm)
      BY <2>3, <2>4
    <3> HIDE DEF b
    <3>3. vm[j].end <= vm[b].end
      BY <2>1, <3>0, <3>1, <3>2, Sides
    <3>4. vm[j].end \in Nat /\ vm[b].end \in Nat
      BY <2>4, <3>2
    <3>5. addr >= vm[j].end
      BY <2>3, <3>0, <3>3, <3>4
    <3> QED BY <2>6, <3>5
  <2> QED BY <2>5, <2>6
<1> QED BY <1>1, GapInvariant, PTL

=============================================================================
