---------------------------- MODULE ScriptProofs ----------------------------
(***************************************************************************)
(* Lemmas about the order of steps: what holds of the parts of a test      *)
(* holds of the test, and of what is left of it after its first step.      *)
(***************************************************************************)
EXTENDS ScriptOrder, SequenceTheorems, TLAPS

(* The parts of a test put together. *)
LEMMA Joined ==
  ASSUME NEW p, NEW q, IsScript(p), IsScript(q)
  PROVE  /\ IsScript(p \o q)
         /\ Len(p) \in Nat /\ Len(q) \in Nat
         /\ DOMAIN p = 1 .. Len(p) /\ DOMAIN q = 1 .. Len(q)
         /\ Len(p \o q) = Len(p) + Len(q)
         /\ DOMAIN (p \o q) = 1 .. (Len(p) + Len(q))
         /\ \A i \in 1 .. Len(p) : (p \o q)[i] = p[i]
         /\ \A i \in 1 .. Len(q) : (p \o q)[Len(p) + i] = q[i]
  <1> DEFINE S == {p[i] : i \in DOMAIN p} \cup {q[i] : i \in DOMAIN q}
  <1>1. p \in Seq(S) /\ q \in Seq(S)
    <2>1. \A A, B, s : A \subseteq B /\ s \in Seq(A) => s \in Seq(B)
      OBVIOUS
    <2> QED BY <2>1 DEF IsScript
  <1> HIDE DEF S
  <1>2. /\ p \o q \in Seq(S)
        /\ Len(p \o q) = Len(p) + Len(q)
        /\ \A i \in 1 .. Len(p) : (p \o q)[i] = p[i]
        /\ \A i \in 1 .. Len(q) : (p \o q)[Len(p) + i] = q[i]
    BY <1>1
  <1>3. \A s \in Seq(S) : s \in Seq({s[i] : i \in DOMAIN s})
    OBVIOUS
  <1>4. /\ Len(p) \in Nat /\ Len(q) \in Nat
        /\ DOMAIN p = 1 .. Len(p) /\ DOMAIN q = 1 .. Len(q)
        /\ DOMAIN (p \o q) = 1 .. (Len(p) + Len(q))
    BY <1>1, <1>2
  <1> QED BY <1>2, <1>3, <1>4 DEF IsScript

LEMMA JoinedLacks ==
  ASSUME NEW p, NEW q, NEW names, IsScript(p), IsScript(q), Lacks(p, names), Lacks(q, names)
  PROVE  Lacks(p \o q, names)
  <1> DEFINE r == p \o q
  <1>1. /\ Len(p) \in Nat /\ Len(q) \in Nat
        /\ DOMAIN p = 1 .. Len(p) /\ DOMAIN q = 1 .. Len(q)
        /\ DOMAIN r = 1 .. (Len(p) + Len(q))
        /\ \A i \in 1 .. Len(p) : r[i] = p[i]
        /\ \A i \in 1 .. Len(q) : r[Len(p) + i] = q[i]
    BY Joined
  <1> HIDE DEF r
  <1>2. ASSUME NEW i \in DOMAIN r PROVE ~Named(r, i, names)
    <2>1. CASE i \in 1 .. Len(p)
      BY <1>1, <2>1 DEF Lacks, Named
    <2>2. CASE i \notin 1 .. Len(p)
      <3>1. i - Len(p) \in 1 .. Len(q) /\ i = Len(p) + (i - Len(p))
        BY <1>1, <2>2
      <3>2. r[i] = q[i - Len(p)]
        BY <1>1, <3>1
      <3> QED BY <1>1, <3>1, <3>2 DEF Lacks, Named
    <2> QED BY <2>1, <2>2
  <1> QED BY <1>2 DEF Lacks, r

LEMMA JoinedPaired ==
  ASSUME NEW p, NEW q, NEW first, NEW second, IsScript(p), IsScript(q),
         Paired(p, first, second), Paired(q, first, second)
  PROVE  Paired(p \o q, first, second)
  <1> DEFINE r == p \o q
  <1>1. /\ Len(p) \in Nat /\ Len(q) \in Nat
        /\ DOMAIN p = 1 .. Len(p) /\ DOMAIN q = 1 .. Len(q)
        /\ DOMAIN r = 1 .. (Len(p) + Len(q))
        /\ \A i \in 1 .. Len(p) : r[i] = p[i]
        /\ \A i \in 1 .. Len(q) : r[Len(p) + i] = q[i]
    BY Joined
  <1> HIDE DEF r
  <1>2. ASSUME NEW i \in DOMAIN r, Named(r, i, first)
        PROVE  i + 1 \in DOMAIN r /\ Named(r, i + 1, second)
    <2>1. CASE i \in 1 .. Len(p)
      BY <1>1, <1>2, <2>1 DEF Paired, Named
    <2>2. CASE i \notin 1 .. Len(p)
      <3> DEFINE m == i - Len(p)
      <3>1. m \in 1 .. Len(q) /\ i = Len(p) + m
        BY <1>1, <2>2
      <3>2. r[i] = q[m]
        BY <1>1, <3>1
      <3>3. m + 1 \in 1 .. Len(q) /\ Named(q, m + 1, second)
        BY <1>1, <1>2, <3>1, <3>2 DEF Paired, Named
      <3>4. i + 1 = Len(p) + (m + 1)
        BY <1>1, <3>1
      <3> HIDE DEF m
      <3>5. r[i + 1] = q[m + 1]
        BY <1>1, <3>3, <3>4
      <3> QED BY <1>1, <3>1, <3>3, <3>4, <3>5 DEF Named
    <2> QED BY <2>1, <2>2
  <1> QED BY <1>2 DEF Paired, r

LEMMA JoinedClosed ==
  ASSUME NEW p, NEW q, NEW open, NEW close, NEW need, IsScript(p), IsScript(q),
         \/ Closed(p, open, close, need)
         \/ Lacks(p, need) /\ Awaits(q, close, need),
         Closed(q, open, close, need)
  PROVE  Closed(p \o q, open, close, need)
  <1> DEFINE r == p \o q
  <1>1. /\ Len(p) \in Nat /\ Len(q) \in Nat
        /\ DOMAIN p = 1 .. Len(p) /\ DOMAIN q = 1 .. Len(q)
        /\ DOMAIN r = 1 .. (Len(p) + Len(q))
        /\ \A i \in 1 .. Len(p) : r[i] = p[i]
        /\ \A i \in 1 .. Len(q) : r[Len(p) + i] = q[i]
    BY Joined
  <1>q. \A j \in Int : j > Len(p) /\ j <= Len(p) + Len(q) => r[j] = q[j - Len(p)]
    <2>1. ASSUME NEW j \in Int, j > Len(p), j <= Len(p) + Len(q) PROVE r[j] = q[j - Len(p)]
      <3>1. j - Len(p) \in 1 .. Len(q) /\ j = Len(p) + (j - Len(p))
        BY <1>1, <2>1
      <3> QED BY <1>1, <3>1
    <2> QED BY <2>1
  <1> HIDE DEF r
  <1>2. ASSUME NEW i \in DOMAIN r, Named(r, i, open)
        PROVE  \E k \in DOMAIN r : /\ k > i /\ Named(r, k, close)
                                   /\ \A j \in i + 1 .. k : ~Named(r, j, need)
    <2>1. CASE i \in 1 .. Len(p) /\ Closed(p, open, close, need)
      <3>1. PICK k \in DOMAIN p : /\ k > i /\ Named(p, k, close)
                                  /\ \A j \in i + 1 .. k : ~Named(p, j, need)
        BY <1>1, <1>2, <2>1 DEF Closed, Named
      <3> QED BY <1>1, <3>1 DEF Named
    <2>2. CASE i \in 1 .. Len(p) /\ Lacks(p, need) /\ Awaits(q, close, need)
      <3>1. PICK k \in 1 .. Len(q) : /\ Named(q, k, close)
                                     /\ \A j \in 1 .. k : ~Named(q, j, need)
        BY <1>1, <2>2 DEF Awaits
      <3> DEFINE m == Len(p) + k
      <3>2. m \in DOMAIN r /\ m > i /\ r[m] = q[k]
        BY <1>1, <2>2
      <3>3. ASSUME NEW j \in i + 1 .. m PROVE ~Named(r, j, need)
        <4>1. CASE j <= Len(p)
          BY <1>1, <2>2, <4>1 DEF Lacks, Named
        <4>2. CASE ~(j <= Len(p))
          <5>1. j - Len(p) \in 1 .. k /\ j \in Int /\ j > Len(p) /\ j <= Len(p) + Len(q)
            BY <1>1, <2>2, <4>2
          <5> QED BY <1>q, <3>1, <5>1 DEF Named
        <4> QED BY <4>1, <4>2
      <3> HIDE DEF m
      <3> QED BY <3>1, <3>2, <3>3 DEF Named
    <2>3. CASE i \notin 1 .. Len(p)
      <3>1. i - Len(p) \in 1 .. Len(q) /\ i \in Int /\ i > Len(p) /\ i <= Len(p) + Len(q)
        BY <1>1, <2>3
      <3>2. PICK k \in 1 .. Len(q) :
                    /\ k > i - Len(p) /\ Named(q, k, close)
                    /\ \A j \in (i - Len(p)) + 1 .. k : ~Named(q, j, need)
        BY <1>1, <1>2, <1>q, <3>1 DEF Closed, Named
      <3> DEFINE m == Len(p) + k
      <3>3. m \in DOMAIN r /\ m > i /\ r[m] = q[k]
        BY <1>1, <3>1, <3>2
      <3>4. ASSUME NEW j \in i + 1 .. m PROVE ~Named(r, j, need)
        <4>1. /\ j - Len(p) \in (i - Len(p)) + 1 .. k
              /\ j \in Int /\ j > Len(p) /\ j <= Len(p) + Len(q)
          BY <1>1, <3>1
        <4> QED BY <1>q, <3>2, <4>1 DEF Named
      <3> HIDE DEF m
      <3> QED BY <3>2, <3>3, <3>4 DEF Named
    <2> QED BY <1>1, <2>1, <2>2, <2>3
  <1> QED BY <1>2 DEF Closed, r

LEMMA JoinedAwaits ==
  ASSUME NEW p, NEW q, NEW close, NEW need, IsScript(p), IsScript(q),
         Lacks(p, need), Awaits(q, close, need)
  PROVE  Awaits(p \o q, close, need)
  <1> DEFINE r == p \o q
  <1>1. /\ Len(p) \in Nat /\ Len(q) \in Nat
        /\ DOMAIN p = 1 .. Len(p) /\ DOMAIN q = 1 .. Len(q)
        /\ DOMAIN r = 1 .. (Len(p) + Len(q))
        /\ \A i \in 1 .. Len(p) : r[i] = p[i]
        /\ \A i \in 1 .. Len(q) : r[Len(p) + i] = q[i]
    BY Joined
  <1> HIDE DEF r
  <1>2. PICK k \in 1 .. Len(q) : Named(q, k, close) /\ \A j \in 1 .. k : ~Named(q, j, need)
    BY <1>1 DEF Awaits
  <1>3. Len(p) + k \in DOMAIN r /\ Named(r, Len(p) + k, close)
    BY <1>1, <1>2 DEF Named
  <1>4. ASSUME NEW j \in 1 .. Len(p) + k PROVE ~Named(r, j, need)
    <2>1. CASE j <= Len(p)
      BY <1>1, <2>1 DEF Lacks, Named
    <2>2. CASE ~(j <= Len(p))
      <3>1. j - Len(p) \in 1 .. k /\ j - Len(p) \in 1 .. Len(q) /\ j = Len(p) + (j - Len(p))
        BY <1>1, <2>2
      <3>2. r[j] = q[j - Len(p)]
        BY <1>1, <3>1
      <3> QED BY <1>2, <3>1, <3>2 DEF Named
    <2> QED BY <2>1, <2>2
  <1> QED BY <1>3, <1>4 DEF Awaits, r

(* A test without its first step. *)
LEMMA Shorter ==
  ASSUME NEW s, IsScript(s), s # <<>>
  PROVE  /\ IsScript(Tail(s)) /\ Head(s) = s[1]
         /\ Len(s) \in Nat \ {0} /\ DOMAIN s = 1 .. Len(s)
         /\ DOMAIN Tail(s) = 1 .. Len(s) - 1
         /\ \A i \in 1 .. Len(s) - 1 : Tail(s)[i] = s[i + 1]
  <1> DEFINE S == {s[i] : i \in DOMAIN s}
  <1>1. s \in Seq(S)
    BY DEF IsScript
  <1> HIDE DEF S
  <1>2. /\ Head(s) = s[1] /\ Tail(s) \in Seq(S)
        /\ Len(s) \in Nat \ {0} /\ DOMAIN s = 1 .. Len(s)
        /\ DOMAIN Tail(s) = 1 .. Len(s) - 1
        /\ \A i \in 1 .. Len(s) - 1 : Tail(s)[i] = s[i + 1]
    BY <1>1
  <1>3. \A t \in Seq(S) : t \in Seq({t[i] : i \in DOMAIN t})
    OBVIOUS
  <1> QED BY <1>2, <1>3 DEF IsScript

LEMMA ShorterLacks ==
  ASSUME NEW s, NEW names, IsScript(s), s # <<>>, Lacks(s, names)
  PROVE  Lacks(Tail(s), names)
  BY Shorter DEF Lacks, Named

LEMMA ShorterPaired ==
  ASSUME NEW s, NEW first, NEW second, IsScript(s), s # <<>>, Paired(s, first, second)
  PROVE  /\ Paired(Tail(s), first, second)
         /\ Head(s)[1] \in first => Tail(s) # <<>> /\ Head(Tail(s))[1] \in second
  <1> DEFINE t == Tail(s)
  <1>1. /\ IsScript(t) /\ Head(s) = s[1]
        /\ Len(s) \in Nat \ {0} /\ DOMAIN s = 1 .. Len(s) /\ DOMAIN t = 1 .. Len(s) - 1
        /\ \A i \in 1 .. Len(s) - 1 : t[i] = s[i + 1]
    BY Shorter
  <1> HIDE DEF t
  <1>2. ASSUME NEW i \in DOMAIN t, Named(t, i, first)
        PROVE  i + 1 \in DOMAIN t /\ Named(t, i + 1, second)
    <2>1. i + 1 \in DOMAIN s /\ Named(s, i + 1, first)
      BY <1>1, <1>2 DEF Named
    <2>2. (i + 1) + 1 \in DOMAIN s /\ Named(s, (i + 1) + 1, second)
      BY <2>1 DEF Paired
    <2> QED BY <1>1, <2>2 DEF Named
  <1>3. ASSUME Head(s)[1] \in first PROVE t # <<>> /\ Head(t)[1] \in second
    <2>1. 1 \in DOMAIN s /\ Named(s, 1, first)
      BY <1>1, <1>3 DEF Named
    <2>2. 1 + 1 \in DOMAIN s /\ Named(s, 1 + 1, second)
      BY <2>1 DEF Paired
    <2>3. 1 \in DOMAIN t /\ t[1] = s[1 + 1]
      BY <1>1, <2>2
    <2>4. t # <<>>
      BY <2>3
    <2>5. Head(t) = t[1]
      BY <1>1, <2>4, Shorter
    <2> QED BY <2>2, <2>3, <2>4, <2>5 DEF Named
  <1> QED BY <1>2, <1>3 DEF Paired, t

LEMMA ShorterClosed ==
  ASSUME NEW s, NEW open, NEW close, NEW need, IsScript(s), s # <<>>,
         Closed(s, open, close, need)
  PROVE  /\ Closed(Tail(s), open, close, need)
         /\ Head(s)[1] \in open => Awaits(Tail(s), close, need)
  <1> DEFINE t == Tail(s)
  <1>1. /\ Head(s) = s[1]
        /\ Len(s) \in Nat \ {0} /\ DOMAIN s = 1 .. Len(s) /\ DOMAIN t = 1 .. Len(s) - 1
        /\ \A i \in 1 .. Len(s) - 1 : t[i] = s[i + 1]
    BY Shorter
  <1> HIDE DEF t
  <1>2. ASSUME NEW i \in 0 .. Len(s) - 1, Named(s, i + 1, open)
        PROVE  \E k \in DOMAIN t : /\ k > i /\ Named(t, k, close)
                                   /\ \A j \in i + 1 .. k : ~Named(t, j, need)
    <2>1. i + 1 \in DOMAIN s
      BY <1>1
    <2>2. PICK k \in DOMAIN s : /\ k > i + 1 /\ Named(s, k, close)
                                /\ \A j \in (i + 1) + 1 .. k : ~Named(s, j, need)
      BY <1>2, <2>1 DEF Closed
    <2>3. k - 1 \in DOMAIN t /\ k - 1 > i /\ t[k - 1] = s[k]
      BY <1>1, <2>2
    <2>4. ASSUME NEW j \in i + 1 .. k - 1 PROVE ~Named(t, j, need)
      <3>1. j + 1 \in (i + 1) + 1 .. k /\ j \in 1 .. Len(s) - 1
        BY <1>1, <2>2
      <3> QED BY <1>1, <2>2, <3>1 DEF Named
    <2> QED BY <2>2, <2>3, <2>4 DEF Named
  <1>3. Closed(t, open, close, need)
    <2> SUFFICES ASSUME NEW i \in DOMAIN t, Named(t, i, open)
                 PROVE  \E k \in DOMAIN t : /\ k > i /\ Named(t, k, close)
                                            /\ \A j \in i + 1 .. k : ~Named(t, j, need)
      BY DEF Closed
    <2>1. i \in 0 .. Len(s) - 1 /\ Named(s, i + 1, open)
      BY <1>1 DEF Named
    <2> QED BY <1>2, <2>1
  <1>4. ASSUME Head(s)[1] \in open PROVE Awaits(t, close, need)
    <2>1. 0 \in 0 .. Len(s) - 1 /\ Named(s, 0 + 1, open)
      BY <1>1, <1>4 DEF Named
    <2>2. PICK k \in DOMAIN t : /\ k > 0 /\ Named(t, k, close)
                                /\ \A j \in 0 + 1 .. k : ~Named(t, j, need)
      BY <1>2, <2>1
    <2> QED BY <2>2 DEF Awaits
  <1> QED BY <1>3, <1>4 DEF t

LEMMA ShorterAwaits ==
  ASSUME NEW s, NEW close, NEW need, IsScript(s), Awaits(s, close, need)
  PROVE  /\ s # <<>> /\ Head(s)[1] \notin need
         /\ Head(s)[1] \notin close => Awaits(Tail(s), close, need)
  <1>1. PICK k \in DOMAIN s : Named(s, k, close) /\ \A j \in 1 .. k : ~Named(s, j, need)
    BY DEF Awaits
  <1>2. s # <<>>
    BY <1>1
  <1> DEFINE t == Tail(s)
  <1>3. /\ Head(s) = s[1]
        /\ Len(s) \in Nat \ {0} /\ DOMAIN s = 1 .. Len(s) /\ DOMAIN t = 1 .. Len(s) - 1
        /\ \A i \in 1 .. Len(s) - 1 : t[i] = s[i + 1]
    BY <1>2, Shorter
  <1> HIDE DEF t
  <1>4. Head(s)[1] \notin need
    BY <1>1, <1>3 DEF Named
  <1>5. ASSUME Head(s)[1] \notin close PROVE Awaits(t, close, need)
    <2>1. k # 1
      BY <1>1, <1>3, <1>5 DEF Named
    <2>2. k - 1 \in DOMAIN t /\ t[k - 1] = s[k]
      BY <1>3, <2>1
    <2>3. ASSUME NEW j \in 1 .. k - 1 PROVE ~Named(t, j, need)
      <3>1. j + 1 \in 1 .. k /\ j \in 1 .. Len(s) - 1
        BY <1>3, <2>1
      <3> QED BY <1>1, <1>3, <3>1 DEF Named
    <2> QED BY <1>1, <2>2, <2>3 DEF Awaits, Named
  <1> QED BY <1>2, <1>4, <1>5 DEF t

(* What is left of a test from some step on. *)
LEMMA Suffix ==
  ASSUME NEW s, NEW n \in Nat, IsScript(s)
  PROVE  /\ IsScript(SubSeq(s, n + 1, Len(s))) /\ Len(s) \in Nat /\ DOMAIN s = 1 .. Len(s)
         /\ DOMAIN SubSeq(s, n + 1, Len(s)) = 1 .. Len(s) - n
         /\ \A i \in 1 .. Len(s) - n : SubSeq(s, n + 1, Len(s))[i] = s[n + i]
  <1> DEFINE S == {s[i] : i \in DOMAIN s}
             r == SubSeq(s, n + 1, Len(s))
  <1>1. s \in Seq(S)
    BY DEF IsScript
  <1> HIDE DEF S
  <1>2. Len(s) \in Nat /\ DOMAIN s = 1 .. Len(s)
    BY <1>1
  <1>3. r = [i \in 1 .. Len(s) - n |-> s[n + i]]
    BY <1>1, <1>2
  <1>4. DOMAIN r = 1 .. Len(s) - n /\ \A i \in 1 .. Len(s) - n : r[i] = s[n + i]
    BY <1>2, <1>3
  <1>5. r \in Seq({r[i] : i \in DOMAIN r})
    <2>1. r \in Seq(S)
      BY <1>1, <1>2, SubSeqProperties
    <2>2. \A t \in Seq(S) : t \in Seq({t[i] : i \in DOMAIN t})
      OBVIOUS
    <2> HIDE DEF r
    <2> QED BY <2>1, <2>2
  <1> QED BY <1>2, <1>4, <1>5 DEF IsScript

LEMMA SuffixLacks ==
  ASSUME NEW s, NEW n \in Nat, NEW names, IsScript(s), Lacks(s, names)
  PROVE  Lacks(SubSeq(s, n + 1, Len(s)), names)
  <1> DEFINE r == SubSeq(s, n + 1, Len(s))
  <1>1. /\ Len(s) \in Nat /\ DOMAIN s = 1 .. Len(s) /\ DOMAIN r = 1 .. Len(s) - n
        /\ \A i \in 1 .. Len(s) - n : r[i] = s[n + i]
    BY Suffix
  <1> HIDE DEF r
  <1>2. ASSUME NEW i \in DOMAIN r PROVE ~Named(r, i, names)
    BY <1>1 DEF Lacks, Named
  <1> QED BY <1>2 DEF Lacks, r

LEMMA SuffixClosed ==
  ASSUME NEW s, NEW n \in Nat, NEW open, NEW close, NEW need, IsScript(s),
         Closed(s, open, close, need)
  PROVE  Closed(SubSeq(s, n + 1, Len(s)), open, close, need)
  <1> DEFINE r == SubSeq(s, n + 1, Len(s))
  <1>1. /\ Len(s) \in Nat /\ DOMAIN s = 1 .. Len(s) /\ DOMAIN r = 1 .. Len(s) - n
        /\ \A i \in 1 .. Len(s) - n : r[i] = s[n + i]
    BY Suffix
  <1> HIDE DEF r
  <1>2. ASSUME NEW i \in DOMAIN r, Named(r, i, open)
        PROVE  \E k \in DOMAIN r : /\ k > i /\ Named(r, k, close)
                                   /\ \A j \in i + 1 .. k : ~Named(r, j, need)
    <2>1. n + i \in DOMAIN s /\ Named(s, n + i, open)
      BY <1>1, <1>2 DEF Named
    <2>2. PICK k \in DOMAIN s : /\ k > n + i /\ Named(s, k, close)
                                /\ \A j \in (n + i) + 1 .. k : ~Named(s, j, need)
      BY <2>1 DEF Closed
    <2>3. k - n \in DOMAIN r /\ k - n > i /\ r[k - n] = s[k]
      <3>1. k - n \in 1 .. Len(s) - n /\ n + (k - n) = k
        BY <1>1, <2>2
      <3> QED BY <1>1, <2>2, <3>1
    <2>4. ASSUME NEW j \in i + 1 .. k - n PROVE ~Named(r, j, need)
      <3>1. n + j \in (n + i) + 1 .. k /\ j \in 1 .. Len(s) - n
        BY <1>1, <2>2
      <3> QED BY <1>1, <2>2, <3>1 DEF Named
    <2> QED BY <2>2, <2>3, <2>4 DEF Named
  <1> QED BY <1>2 DEF Closed, r

=============================================================================
