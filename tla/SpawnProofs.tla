---------------------------- MODULE SpawnProofs -----------------------------
(***************************************************************************)
(* Spawning the program again, for any set of tests, command line,         *)
(* argument vector and way of spawning.                                    *)
(***************************************************************************)
EXTENDS Spawn, SequenceTheorems, TLAPS

(* The words a child image still has to parse when it has seen options f. *)
Target(j)  == <<<<"arg", j.test>>>> \o j.extra
Left(j, f) ==
  Opt("E", "E" \notin f)
    \o (Opt("K", j.extra # <<>> /\ "K" \notin f)
    \o (Opt("c", "c" \in j.flags \ f)
    \o (Opt("v", "v" \in j.flags \ f)
    \o Target(j))))

(* All the options it is given. *)
Needed(j) == {"E"} \cup (IF j.extra # <<>> THEN {"K"} ELSE {}) \cup (j.flags \cap {"c", "v"})

(* Who there is, and what was asked for. *)
Asked ==
  /\ kid \in {None, "copy", "stray", "image", "ended"}
  /\ test \in {None, "args", "spawn", "wait", "fault", "done"}
  /\ test # None => job.test \in Spawners /\ job.extra \in Extras
  /\ test \notin {None, "args"} => words = ExecArgs(job)
  /\ kid # None => test \notin {None, "args"}

(* An image of the program parses what mk_exec_args() made, to the end. *)
Parsing ==
  kid = "image" =>
    \/ at = "options" /\ flags \subseteq Needed(job) /\ argv = Left(job, flags)
    \/ /\ at \in {"checks", "dispatch", "child", "error"}
       /\ flags = Needed(job) /\ argv = Target(job)

(* Only main() itself looks for a child function. *)
Named == at # "fault" /\ (at = "dispatch" => ~Refused)

(* A success is the child's. *)
Earned == /\ page = "success" => kid = "ended" /\ status = 0 /\ test = "done"
          /\ (kid = "ended" /\ status = 0) => ran

SpawnInv == Asked /\ Parsing /\ Named /\ Earned

----------------------------------------------------------------------------
(* Sequences of words. *)

(* Everything that can be on the command line of a child. *)
Word(j) == ({"opt", "arg"} \X STRING)
           \cup {<<"opt", "E">>, <<"opt", "K">>, <<"opt", "c">>, <<"opt", "v">>,
                 <<"arg", j.test>>}

(* A word put in front is the first one. *)
LEMMA OneWord ==
  ASSUME NEW S, NEW w \in S, NEW s \in Seq(S)
  PROVE  /\ <<w>> \o s \in Seq(S) /\ <<w>> \o s # <<>>
         /\ Head(<<w>> \o s) = w /\ Tail(<<w>> \o s) = s
  OBVIOUS

(* Nothing put in front changes nothing. *)
LEMMA NoWord ==
  ASSUME NEW S, NEW s \in Seq(S)
  PROVE  <<>> \o s = s
  BY ConcatEmptySeq

(* The two together with associativity, for use as one fact. *)
LEMMA Joined ==
  ASSUME NEW S
  PROVE  /\ \A p, q \in Seq(S) : p \o q \in Seq(S)
         /\ \A p, q, r \in Seq(S) : (p \o q) \o r = p \o (q \o r)
         /\ \A p \in Seq(S) : <<>> \o p = p
<1>1. \A p, q \in Seq(S) : p \o q \in Seq(S)
  OBVIOUS
<1>2. \A p, q, r \in Seq(S) : (p \o q) \o r = p \o (q \o r)
  BY ConcatAssociative
<1>3. \A p \in Seq(S) : <<>> \o p = p
  BY NoWord
<1> QED
  BY <1>1, <1>2, <1>3

(* The pieces of a command line are sequences of words. *)
LEMMA WordTypes ==
  ASSUME NEW j, j.extra \in Seq({"opt", "arg"} \X STRING)
  PROVE  /\ Target(j) \in Seq(Word(j)) /\ Target(j) # <<>>
         /\ Head(Target(j)) = <<"arg", j.test>>
         /\ j.extra = <<>> => Len(Target(j)) = 1
         /\ \A l \in {"E", "K", "c", "v"}, b \in BOOLEAN : Opt(l, b) \in Seq(Word(j))
<1>1. j.extra \in Seq(Word(j))
  BY DEF Word
<1>2. <<"arg", j.test>> \in Word(j)
  BY DEF Word
<1>3. \A l \in {"E", "K", "c", "v"}, b \in BOOLEAN : Opt(l, b) \in Seq(Word(j))
  BY DEF Word, Opt
<1>4. /\ Target(j) \in Seq(Word(j)) /\ Target(j) # <<>>
      /\ Head(Target(j)) = <<"arg", j.test>>
  BY <1>1, <1>2, OneWord DEF Target
<1>5. j.extra = <<>> => Len(Target(j)) = 1
  BY <1>1, <1>2 DEF Target
<1> QED
  BY <1>3, <1>4, <1>5

(* What mk_exec_args() writes is what is left before anything is parsed. *)
LEMMA AllLeft ==
  ASSUME NEW j, j.extra \in Seq({"opt", "arg"} \X STRING)
  PROVE  ExecArgs(j) = Left(j, {})
<1> DEFINE S == Word(j)
           a == <<<<"opt", "E">>>>
           b == Opt("K", j.extra # <<>>)
           c == Opt("c", "c" \in j.flags)
           d == Opt("v", "v" \in j.flags)
           w == <<<<"arg", j.test>>>>
           x == j.extra
<1>1. a \in Seq(S) /\ b \in Seq(S) /\ c \in Seq(S) /\ d \in Seq(S)
      /\ w \in Seq(S) /\ x \in Seq(S)
  BY DEF Word, Opt
<1>2. ExecArgs(j) = ((((a \o b) \o c) \o d) \o w) \o x
  BY DEF ExecArgs
<1>3. Left(j, {}) = a \o (b \o (c \o (d \o (w \o x))))
  <2>1. /\ Opt("E", "E" \notin {}) = a
        /\ Opt("K", j.extra # <<>> /\ "K" \notin {}) = b
        /\ Opt("c", "c" \in j.flags \ {}) = c
        /\ Opt("v", "v" \in j.flags \ {}) = d
    BY DEF Opt
  <2> QED
    BY <2>1 DEF Left, Target
<1> DEFINE Q == Seq(S)
           Cat(p, q) == p \o q
<1>4. /\ \A p, q \in Q : Cat(p, q) \in Q
      /\ \A p, q, r \in Q : Cat(Cat(p, q), r) = Cat(p, Cat(q, r))
  BY Joined
<1>5. a \in Q /\ b \in Q /\ c \in Q /\ d \in Q /\ w \in Q /\ x \in Q
  BY <1>1
<1> HIDE DEF S, a, b, c, d, w, x
<1>6. /\ ExecArgs(j) = Cat(Cat(Cat(Cat(Cat(a, b), c), d), w), x)
      /\ Left(j, {}) = Cat(a, Cat(b, Cat(c, Cat(d, Cat(w, x)))))
  BY <1>2, <1>3
<1> HIDE DEF Q, Cat
<1> DEFINE abc == Cat(Cat(a, b), c)
<1>7. abc \in Q /\ Cat(w, x) \in Q /\ Cat(abc, d) \in Q
  BY <1>4, <1>5
<1>8. Cat(Cat(Cat(abc, d), w), x) = Cat(abc, Cat(d, Cat(w, x)))
  <2> HIDE DEF abc
  <2>1. Cat(Cat(Cat(abc, d), w), x) = Cat(Cat(abc, d), Cat(w, x))
    BY <1>4, <1>5, <1>7
  <2>2. Cat(Cat(abc, d), Cat(w, x)) = Cat(abc, Cat(d, Cat(w, x)))
    BY <1>4, <1>5, <1>7
  <2> QED
    BY <2>1, <2>2
<1>9. Cat(abc, Cat(d, Cat(w, x))) = Cat(a, Cat(b, Cat(c, Cat(d, Cat(w, x)))))
  <2> DEFINE y == Cat(d, Cat(w, x))
  <2>1. y \in Q /\ Cat(a, b) \in Q
    BY <1>4, <1>5, <1>7
  <2> HIDE DEF y
  <2>2. Cat(Cat(Cat(a, b), c), y) = Cat(Cat(a, b), Cat(c, y)) /\ Cat(c, y) \in Q
    BY <1>4, <1>5, <2>1
  <2>3. Cat(Cat(a, b), Cat(c, y)) = Cat(a, Cat(b, Cat(c, y)))
    BY <1>4, <1>5, <2>2
  <2> QED
    BY <2>2, <2>3 DEF y
<1> QED
  BY <1>6, <1>8, <1>9

(* The next word is an option not seen yet, or parsing is over. *)
LEMMA NextWord ==
  ASSUME NEW j, j.extra \in Seq({"opt", "arg"} \X STRING),
         NEW f, f \subseteq Needed(j)
  PROVE  /\ Left(j, f) \in Seq(Word(j))
         /\ f = Needed(j) => Left(j, f) = Target(j)
         /\ f # Needed(j) =>
              \E l \in Needed(j) \ f :
                /\ Left(j, f) # <<>>
                /\ Head(Left(j, f)) = <<"opt", l>>
                /\ Tail(Left(j, f)) = Left(j, f \cup {l})
<1> DEFINE S == Word(j)
           e(g) == Opt("E", "E" \notin g)
           k(g) == Opt("K", j.extra # <<>> /\ "K" \notin g)
           c(g) == Opt("c", "c" \in j.flags \ g)
           v(g) == Opt("v", "v" \in j.flags \ g)
           t == Target(j)
           T3(g) == v(g) \o t
           T2(g) == c(g) \o T3(g)
           T1(g) == k(g) \o T2(g)
<1>1. \A g : e(g) \in Seq(S) /\ k(g) \in Seq(S) /\ c(g) \in Seq(S) /\ v(g) \in Seq(S)
  BY DEF Opt, Word
<1>2. t \in Seq(S)
  BY WordTypes
<1>3. \A g : Left(j, g) = e(g) \o T1(g)
  BY DEF Left
<1>4. /\ \A g : "E" \in g => e(g) = <<>>
      /\ \A g : ("K" \in g \/ j.extra = <<>>) => k(g) = <<>>
      /\ \A g : ("c" \in g \/ "c" \notin j.flags) => c(g) = <<>>
      /\ \A g : ("v" \in g \/ "v" \notin j.flags) => v(g) = <<>>
  BY DEF Opt
<1>5. /\ "E" \notin f => e(f) = <<<<"opt", "E">>>>
      /\ ("K" \notin f /\ j.extra # <<>>) => k(f) = <<<<"opt", "K">>>>
      /\ ("c" \notin f /\ "c" \in j.flags) => c(f) = <<<<"opt", "c">>>>
      /\ ("v" \notin f /\ "v" \in j.flags) => v(f) = <<<<"opt", "v">>>>
  BY DEF Opt
<1>6. /\ k(f \cup {"E"}) = k(f) /\ c(f \cup {"E"}) = c(f) /\ v(f \cup {"E"}) = v(f)
      /\ c(f \cup {"K"}) = c(f) /\ v(f \cup {"K"}) = v(f)
      /\ v(f \cup {"c"}) = v(f)
  BY DEF Opt
<1>7. \A l \in {"E", "K", "c", "v"} : <<"opt", l>> \in S
  BY DEF Word
<1> HIDE DEF S, e, k, c, v, t
<1>8. /\ \A p, q \in Seq(S) : p \o q \in Seq(S)
      /\ \A p \in Seq(S) : <<>> \o p = p
  BY Joined
<1>9. /\ T1(f \cup {"E"}) = T1(f) /\ T2(f \cup {"K"}) = T2(f) /\ T3(f \cup {"c"}) = T3(f)
  BY <1>6, Zenon
<1>10. \A g : T3(g) \in Seq(S)
  BY <1>1, <1>2, <1>8, Zenon
<1>11. \A g : ("v" \in g \/ "v" \notin j.flags) => T3(g) = t
  BY <1>2, <1>4, <1>8, Zenon
<1>12. ("v" \notin f /\ "v" \in j.flags) => T3(f) = <<<<"opt", "v">>>> \o t
  BY <1>5, Zenon
<1> HIDE DEF T3
<1>13. \A g : T2(g) \in Seq(S)
  BY <1>1, <1>8, <1>10, Zenon
<1>14. \A g : ("c" \in g \/ "c" \notin j.flags) => T2(g) = T3(g)
  BY <1>4, <1>8, <1>10, Zenon
<1>15. ("c" \notin f /\ "c" \in j.flags) => T2(f) = <<<<"opt", "c">>>> \o T3(f)
  BY <1>5, Zenon
<1> HIDE DEF T2
<1>16. \A g : T1(g) \in Seq(S)
  BY <1>1, <1>8, <1>13, Zenon
<1>17. \A g : ("K" \in g \/ j.extra = <<>>) => T1(g) = T2(g)
  BY <1>4, <1>8, <1>13, Zenon
<1>18. ("K" \notin f /\ j.extra # <<>>) => T1(f) = <<<<"opt", "K">>>> \o T2(f)
  BY <1>5, Zenon
<1> HIDE DEF T1
<1>19. \A g : Left(j, g) \in Seq(S)
  <2> TAKE g
  <2>1. e(g) \o T1(g) \in Seq(S)
    BY <1>1, <1>8, <1>16, Zenon
  <2> QED
    BY <1>3, <2>1
<1>20. \A g : "E" \in g => Left(j, g) = T1(g)
  BY <1>3, <1>4, <1>8, <1>16, Zenon
<1>21. "E" \notin f => Left(j, f) = <<<<"opt", "E">>>> \o T1(f)
  BY <1>3, <1>5, Zenon
(* A first word that is option l leaves what is left once l is seen. *)
<1>22. ASSUME NEW l \in {"E", "K", "c", "v"}, l \in Needed(j) \ f,
              Left(j, f) = <<<<"opt", l>>>> \o Left(j, f \cup {l})
       PROVE  \E l2 \in Needed(j) \ f :
                /\ Left(j, f) # <<>>
                /\ Head(Left(j, f)) = <<"opt", l2>>
                /\ Tail(Left(j, f)) = Left(j, f \cup {l2})
  <2> DEFINE w == <<"opt", l>>
             r == Left(j, f \cup {l})
  <2>1. w \in S /\ r \in Seq(S)
    BY <1>7, <1>19
  <2>2. Left(j, f) = <<w>> \o r
    BY <1>22
  <2> HIDE DEF w, r
  <2>3. Left(j, f) # <<>> /\ Head(Left(j, f)) = w /\ Tail(Left(j, f)) = r
    BY <2>1, <2>2, OneWord
  <2> QED
    BY <1>22, <2>3, Zenon DEF w, r
<1>23. CASE "E" \notin f
  <2>1. Left(j, f) = <<<<"opt", "E">>>> \o Left(j, f \cup {"E"})
    BY <1>9, <1>20, <1>21, <1>23
  <2>2. "E" \in Needed(j) \ f
    BY <1>23 DEF Needed
  <2> QED
    BY <1>19, <1>22, <2>1, <2>2 DEF S
<1>24. CASE "E" \in f /\ "K" \notin f /\ j.extra # <<>>
  <2>1. Left(j, f) = <<<<"opt", "K">>>> \o Left(j, f \cup {"K"})
    BY <1>9, <1>17, <1>18, <1>20, <1>24
  <2>2. "K" \in Needed(j) \ f
    BY <1>24 DEF Needed
  <2> QED
    BY <1>19, <1>22, <2>1, <2>2 DEF S
<1>25. CASE /\ "E" \in f /\ ("K" \in f \/ j.extra = <<>>)
            /\ "c" \notin f /\ "c" \in j.flags
  <2>1. Left(j, f) = <<<<"opt", "c">>>> \o Left(j, f \cup {"c"})
    BY <1>9, <1>14, <1>15, <1>17, <1>20, <1>25
  <2>2. "c" \in Needed(j) \ f
    BY <1>25 DEF Needed
  <2> QED
    BY <1>19, <1>22, <2>1, <2>2 DEF S
<1>26. CASE /\ "E" \in f /\ ("K" \in f \/ j.extra = <<>>)
            /\ ("c" \in f \/ "c" \notin j.flags)
            /\ "v" \notin f /\ "v" \in j.flags
  <2>1. Left(j, f) = <<<<"opt", "v">>>> \o Left(j, f \cup {"v"})
    <3>1. Left(j, f) = T3(f) /\ T3(f) = <<<<"opt", "v">>>> \o t
      BY <1>12, <1>14, <1>17, <1>20, <1>26
    <3>2. Left(j, f \cup {"v"}) = t
      BY <1>11, <1>14, <1>17, <1>20, <1>26
    <3> QED
      BY <3>1, <3>2
  <2>2. "v" \in Needed(j) \ f
    BY <1>26 DEF Needed
  <2> QED
    BY <1>19, <1>22, <2>1, <2>2 DEF S
<1>27. CASE /\ "E" \in f /\ ("K" \in f \/ j.extra = <<>>)
            /\ ("c" \in f \/ "c" \notin j.flags)
            /\ ("v" \in f \/ "v" \notin j.flags)
  <2>1. Left(j, f) = t
    BY <1>11, <1>14, <1>17, <1>20, <1>27
  <2>2. Needed(j) \subseteq f
    BY <1>27 DEF Needed
  <2> QED
    BY <1>19, <2>1, <2>2 DEF S, t
<1> QED
  BY <1>23, <1>24, <1>25, <1>26, <1>27

----------------------------------------------------------------------------
(* The four parts of the invariant. *)

(* A job's vector is a sequence of words. *)
LEMMA JobWords ==
  ASSUME Asked, test # None
  PROVE  job.extra \in Seq({"opt", "arg"} \X STRING) /\ job.test \in HasChild
  BY SpawnAssumption DEF Asked

(* A controller stays out of the fault, by the tests of main(). *)
LEMMA DriverNamed ==
  ASSUME Named, DriverNext
  PROVE  Named'
<1>1. CASE GetOpt
  BY <1>1 DEF Named, GetOpt
<1>2. CASE EndOfOptions
  BY <1>2 DEF Named, EndOfOptions
<1>3. CASE Check
  BY <1>3 DEF Named, Check, ListTests, Refused, Has
<1>4. CASE SetupFails
  BY <1>4 DEF Named, SetupFails
<1>5. CASE RunChild
  <2>1. Has("E") /\ ~Refused
    BY <1>5 DEF Named, RunChild
  <2>2. argv # <<>>
    BY <2>1 DEF Refused, Has
  <2> QED
    BY <1>5, <2>2 DEF Named, RunChild
<1>6. CASE RunTests
  BY <1>6 DEF Named, RunTests
<1> QED
  BY <1>1, <1>2, <1>3, <1>4, <1>5, <1>6 DEF DriverNext

(* The checks of main() let the child's command line through. *)
LEMMA Accepted ==
  ASSUME Asked, test # None, flags = Needed(job), argv = Target(job)
  PROVE  /\ ~Refused /\ ~Has("l") /\ Has("E")
         /\ argv # <<>> /\ Head(argv)[1] # "opt"
         /\ Head(argv)[2] = job.test /\ job.test \in HasChild
<1>1. job.extra \in Seq({"opt", "arg"} \X STRING) /\ job.test \in HasChild
  BY JobWords
<1>2. /\ argv # <<>> /\ Head(argv) = <<"arg", job.test>>
      /\ job.extra = <<>> => Len(argv) = 1
  BY <1>1, WordTypes
<1>3. /\ Has("E") /\ ~Has("a") /\ ~Has("g") /\ ~Has("l")
      /\ Has("K") <=> job.extra # <<>>
  BY DEF Has, Needed
<1> QED
  BY <1>1, <1>2, <1>3 DEF Refused

(* One step of main() in an image. *)
LEMMA ImageParses ==
  ASSUME Asked, Parsing, kid = "image", DriverNext,
         UNCHANGED <<job, kid>>
  PROVE  Parsing'
<1>1. test # None
  BY DEF Asked, None
<1>2. test # None /\ job.extra \in Seq({"opt", "arg"} \X STRING)
  BY <1>1, JobWords
<1>3. CASE at = "options"
  <2>1. flags \subseteq Needed(job) /\ argv = Left(job, flags)
    BY <1>3 DEF Parsing
  <2>2. CASE flags = Needed(job)
    <3>1. argv = Target(job)
      BY <1>2, <2>1, <2>2, NextWord
    <3>2. ~AtOption
      BY <1>2, <2>2, <3>1, Accepted DEF AtOption
    <3>3. EndOfOptions
      BY <1>3, <3>2 DEF DriverNext, GetOpt, Check, SetupFails, RunChild, RunTests
    <3> QED
      BY <2>2, <3>1, <3>3 DEF EndOfOptions, Parsing, Target, Needed
  <2>3. CASE flags # Needed(job)
    <3>1. PICK l \in Needed(job) \ flags :
            /\ argv # <<>>
            /\ Head(argv) = <<"opt", l>>
            /\ Tail(argv) = Left(job, flags \cup {l})
      <4> DEFINE Next1(a, l) == /\ a # <<>>
                                /\ Head(a) = <<"opt", l>>
                                /\ Tail(a) = Left(job, flags \cup {l})
      <4>1. \E l \in Needed(job) \ flags : Next1(Left(job, flags), l)
        BY <1>2, <2>1, <2>3, NextWord, Zenon
      <4> QED
        BY <2>1, <4>1, Zenon
    <3>2. l \in {"E", "K", "c", "v"}
      BY <3>1 DEF Needed
    <3>3. AtOption /\ Head(argv)[2] = l
      BY <3>1 DEF AtOption
    <3>4. GetOpt
      BY <1>3, <3>3 DEF DriverNext, EndOfOptions, Check, SetupFails, RunChild, RunTests
    <3>5. /\ argv' = Left(job, flags \cup {l}) /\ at' = "options"
          /\ flags' = flags \cup {l}
      BY <1>3, <3>1, <3>2, <3>3, <3>4 DEF GetOpt, Options
    <3>6. flags' \subseteq Needed(job) /\ argv' = Left(job, flags')
      BY <2>1, <3>1, <3>5
    <3> QED
      BY <3>5, <3>6 DEF Parsing, Left, Needed, Target, Opt
  <2> QED
    BY <2>2, <2>3
<1>4. CASE at # "options"
  <2>1. /\ at \in {"checks", "dispatch", "child", "error"}
        /\ flags = Needed(job) /\ argv = Target(job)
    BY <1>4 DEF Parsing
  <2>2. /\ ~Refused /\ ~Has("l") /\ Has("E") /\ argv # <<>>
        /\ Head(argv)[2] \in HasChild
    BY <1>2, <2>1, Accepted
  <2>3. Head(argv)[2] \in Names
    BY <2>2, DriverAssumption
  <2>4. /\ at' \in {"dispatch", "child", "error"}
        /\ UNCHANGED <<argv, flags>>
    BY <1>4, <2>1, <2>2, <2>3
    DEF DriverNext, GetOpt, EndOfOptions, Check, SetupFails, RunChild, RunTests
  <2> QED
    BY <2>1, <2>4 DEF Parsing, Target, Needed
<1> QED
  BY <1>3, <1>4

(* Every step of the test process, its copies and the image keeps the invariant. *)
LEMMA SpawnPreserved ==
  ASSUME SpawnInv, [Next]_<<driverVars, spawnVars>>
  PROVE  SpawnInv'
<1> USE DEF SpawnInv
<1>1. CASE UNCHANGED <<driverVars, spawnVars>>
  BY <1>1 DEF driverVars, spawnVars, Asked, Parsing, Named, Earned, Refused, Has,
              ExecArgs, Opt, Left, Needed, Target
<1>2. CASE Controller
  <2>1. Named'
    BY <1>2, DriverNamed DEF Controller
  <2>2. kid = None
    BY <1>2 DEF Controller, Asked
  <2>3. Asked' /\ Earned' /\ kid' = None
    BY <1>2, <2>2 DEF Controller, spawnVars, Asked, Earned, ExecArgs, Opt
  <2> QED
    BY <2>1, <2>3 DEF Parsing, None
<1>3. CASE PickTest
  <2>1. kid = None
    BY <1>3 DEF PickTest, Asked
  <2>2. Asked' /\ Earned' /\ kid' = None
    BY <1>3, <2>1 DEF PickTest, Asked, Earned, None
  <2>3. Named'
    BY <1>3 DEF PickTest, Named, driverVars, Refused, Has
  <2> QED
    BY <2>2, <2>3 DEF Parsing, None
<1>4. CASE MakeArgs
  <2>1. kid = None
    BY <1>4 DEF MakeArgs, Asked
  <2>2. Asked' /\ Earned' /\ kid' = None
    BY <1>4, <2>1 DEF MakeArgs, Asked, Earned, None, ExecArgs, Opt
  <2>3. Named'
    BY <1>4 DEF MakeArgs, Named, driverVars, Refused, Has
  <2> QED
    BY <2>2, <2>3 DEF Parsing, None
(* A new image is at the start of the words mk_exec_args() made. *)
<1>5. ASSUME NewImage, test \notin {None, "args"}, UNCHANGED job
      PROVE  Parsing' /\ Named'
  <2>1. words = ExecArgs(job) /\ job.extra \in Seq({"opt", "arg"} \X STRING)
    BY <1>5, JobWords DEF Asked
  <2>2. argv' = Left(job, {})
    BY <1>5, <2>1, AllLeft DEF NewImage
  <2>3. /\ flags' = {} /\ at' = "options" /\ argv' = Left(job, flags')
    BY <1>5, <2>2 DEF NewImage
  <2> QED
    BY <1>5, <2>3 DEF Parsing, Named, Left, Opt, Target, Needed
<1>6. CASE PosixSpawn
  <2>1. /\ (kid' = "ended" /\ status' = 0) => (kid = "ended" /\ status = 0)
        /\ page # "success"
    BY <1>6 DEF PosixSpawn, NewImage, Earned
  <2>2. Asked'
    BY <1>6 DEF PosixSpawn, NewImage, Asked, None, ExecArgs, Opt
  <2>3. Asked' /\ Earned'
    BY <1>6, <2>1, <2>2, Zenon DEF PosixSpawn, Earned
  <2>4. CASE NewImage
    BY <1>5, <1>6, <2>3, <2>4 DEF PosixSpawn, None
  <2>5. CASE ~NewImage
    <3>1. UNCHANGED driverVars /\ UNCHANGED job /\ (kid' = "ended" \/ kid' = kid)
      BY <1>6, <2>5 DEF PosixSpawn
    <3> QED
      BY <2>3, <3>1 DEF Parsing, Named, driverVars, Refused, Has, Left, Opt, Target, Needed
  <2> QED
    BY <2>4, <2>5
<1>7. CASE ForkCopy
  <2>1. Asked' /\ Earned'
    BY <1>7 DEF ForkCopy, Asked, Earned, None, ExecArgs, Opt
  <2> QED
    BY <1>7, <2>1
    DEF ForkCopy, Parsing, Named, driverVars, Refused, Has, None
<1>8. CASE Exec
  <2>1. Asked' /\ Earned'
    BY <1>8 DEF Exec, NewImage, Asked, Earned, None, ExecArgs, Opt
  <2>2. CASE NewImage
    BY <1>5, <1>8, <2>1, <2>2 DEF Exec, Asked, None
  <2>3. CASE ~NewImage
    BY <1>8, <2>1, <2>3 DEF Exec, Parsing, Named, driverVars, Refused, Has
  <2> QED
    BY <2>2, <2>3
<1>9. CASE Stray
  <2>1. status' # 0 /\ page' # "success"
    BY <1>9 DEF Stray
  <2>2. Asked'
    BY <1>9 DEF Stray, Asked, None, ExecArgs, Opt
  <2>3. Asked' /\ Earned'
    BY <2>1, <2>2, Zenon DEF Earned
  <2> QED
    BY <1>9, <2>3 DEF Stray, Parsing, Named, driverVars, Refused, Has
<1>10. CASE ChildImage
  <2>1. Named'
    BY <1>10, DriverNamed DEF ChildImage
  <2>2. Parsing'
    BY <1>10, ImageParses DEF ChildImage, spawnVars
  <2> QED
    BY <1>10, <2>1, <2>2 DEF ChildImage, spawnVars, Asked, Earned, ExecArgs, Opt
<1>11. CASE ChildEnds
  <2>1. at \in {"child", "error"}
    BY <1>11 DEF ChildEnds, Parsing
  <2>2. status' = 0 => ran'
    <3>1. at # "child" => status' # 0
      BY <1>11, <2>1 DEF ChildEnds, ExitStatus
    <3> QED
      BY <1>11, <3>1, Zenon DEF ChildEnds
  <2>3. Asked'
    BY <1>11 DEF ChildEnds, Asked, None, ExecArgs, Opt
  <2>4. Earned'
    BY <1>11, <2>2 DEF ChildEnds, Earned
  <2> QED
    BY <1>11, <2>3, <2>4 DEF ChildEnds, Parsing, Named, driverVars, Refused, Has
<1>12. CASE WaitChild
  <2>1. Asked' /\ Earned'
    BY <1>12 DEF WaitChild, Asked, Earned, None, ExecArgs, Opt
  <2> QED
    BY <1>12, <2>1 DEF WaitChild, Parsing, Named, driverVars, Refused, Has
<1>13. CASE Rest
  BY <1>1, <1>13 DEF Rest
<1> QED
  BY <1>1, <1>2, <1>3, <1>4, <1>6, <1>7, <1>8, <1>9, <1>10, <1>11, <1>12, <1>13 DEF Next

(* All reachable states. *)
LEMMA SpawnInvariant == Spec => []SpawnInv
<1>1. SpawnInit => SpawnInv
  BY DEF SpawnInit, Init, SpawnInv, Asked, Parsing, Named, Earned, None
<1> QED
  BY <1>1, SpawnPreserved, PTL DEF Spec

----------------------------------------------------------------------------
(***************************************************************************)
(* For every command line, the program the user started and every image    *)
(* of it that a test spawns looks up its child function under a name only. *)
(* Code: cheriostest.c 1016-1048.                                          *)
(***************************************************************************)
THEOREM ChildIsNamed == Spec => []ChildHasName
<1>1. SpawnInv => ChildHasName
  BY DEF SpawnInv, Named, ChildHasName
<1> QED
  BY <1>1, SpawnInvariant, PTL

(***************************************************************************)
(* For every argument vector and set of options in force, main() reads     *)
(* what mk_exec_args() wrote: the image goes to the function of the test   *)
(* that asked, with its arguments and the options, or stops for want of a  *)
(* resource.  Code: cheriostest.c 757-795 against 950-1048.                *)
(***************************************************************************)
THEOREM ArgumentsComeThrough == Spec => []ChildRoundTrip
<1>1. SpawnInv => ChildRoundTrip
  <2> SUFFICES ASSUME SpawnInv, kid = "image"
               PROVE  ChildRoundTrip
    BY DEF ChildRoundTrip
  <2>1. at \in {"options", "checks", "dispatch", "child", "error"}
    BY DEF SpawnInv, Parsing
  <2>2. at = "child" => flags = Needed(job) /\ argv = Target(job)
    BY DEF SpawnInv, Parsing
  <2>3. Needed(job) \cap {"c", "v"} = job.flags \cap {"c", "v"}
    BY DEF Needed
  <2> QED
    BY <2>1, <2>2, <2>3 DEF ChildRoundTrip, Target
<1> QED
  BY <1>1, SpawnInvariant, PTL

(***************************************************************************)
(* However the test spawns and whatever fails, a test that passed had a    *)
(* child function that ran to a good end.  Code: cheriostest.c 797-846 and *)
(* cheriostest_internal.c 57-64.                                           *)
(***************************************************************************)
THEOREM PassHadAChild == Spec => []PassMeansChildRan
<1>1. SpawnInv => PassMeansChildRan
  BY DEF SpawnInv, Earned, PassMeansChildRan
<1> QED
  BY <1>1, SpawnInvariant, PTL

=============================================================================
