---------------------------- MODULE ScriptOrder ----------------------------
(***************************************************************************)
(* What the order of the steps in a test says about the processes it has   *)
(* started: the vocabulary of the proofs about the tests of the kernel.    *)
(***************************************************************************)
EXTENDS Integers, Sequences

(* A sequence of steps, of whatever shape they are. *)
IsScript(s) == s \in Seq({s[i] : i \in DOMAIN s})

(* Step i of s has one of these names. *)
Named(s, i, names) == s[i][1] \in names

Lacks(s, names) == \A i \in DOMAIN s : ~Named(s, i, names)

(* One of the closing steps is still to come, before any of those that need it. *)
Awaits(s, close, need) ==
  \E k \in DOMAIN s : /\ Named(s, k, close)
                      /\ \A j \in 1 .. k : ~Named(s, j, need)

(* Whatever a step of s opens, a later one closes before it is needed. *)
Closed(s, open, close, need) ==
  \A i \in DOMAIN s :
    Named(s, i, open) =>
      \E k \in DOMAIN s : /\ k > i /\ Named(s, k, close)
                          /\ \A j \in i + 1 .. k : ~Named(s, j, need)

(* Each step of the first kind is followed at once by one of the second. *)
Paired(s, first, second) ==
  \A i \in DOMAIN s : Named(s, i, first) => i + 1 \in DOMAIN s /\ Named(s, i + 1, second)

=============================================================================
