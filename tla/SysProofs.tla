----------------------------- MODULE SysProofs -----------------------------
(***************************************************************************)
(* Theorems about SysSuite, for any systems, errors and bounds: what a     *)
(* test does about its child first, then set-feature-ctl-note.             *)
(***************************************************************************)
EXTENDS SysSuite, ScriptProofs, WellFoundedInduction

(* Steps after which there may be a child, steps that wait until it is gone, *)
(* and steps before which it must be.                                        *)
Opening == {"fork", "forkunchecked", "ptkill"}
Closing == {"wait", "waitexit", "waitkilled", "reap", "isrevoking"}
Needing == {"success", "forkunchecked"}

(* Steps that only children and the two exempt tests take. *)
Foreign == {"exit", "leave", "execute", "early", "create", "while"}

(***************************************************************************)
(* The discipline: whatever starts a child is followed by a wait for it    *)
(* before success is declared or the next child is started.                *)
(***************************************************************************)
Tidy(s) ==
  /\ IsScript(s) /\ Lacks(s, Foreign)
  /\ Closed(s, Opening, Closing, Needing)
  /\ \A i \in DOMAIN s : Named(s, i, {"forkunchecked"}) => s[i][2] \in Nat

(* A step that starts nobody and needs nobody to be gone. *)
Mild(x) == x[1] \notin Foreign /\ x[1] \notin Opening /\ x[1] \notin Needing

Quiet(s) == IsScript(s) /\ \A i \in DOMAIN s : Mild(s[i])

(* A part that may have started a child and has not waited for it yet. *)
Pending(s) == IsScript(s) /\ Lacks(s, Foreign) /\ Lacks(s, Needing)

LEMMA QuietKinds == \A s : Quiet(s) => Tidy(s) /\ Pending(s) /\ Lacks(s, Opening)
  BY DEF Quiet, Tidy, Pending, Mild, Lacks, Named, Closed, Opening, Needing

LEMMA TidyJoined == \A p, q : Tidy(p) /\ Tidy(q) => Tidy(p \o q)
  <1> SUFFICES ASSUME NEW p, NEW q, Tidy(p), Tidy(q) PROVE Tidy(p \o q)
    OBVIOUS
  <1>1. IsScript(p \o q) /\ Lacks(p \o q, Foreign) /\ Closed(p \o q, Opening, Closing, Needing)
    BY Joined, JoinedLacks, JoinedClosed DEF Tidy
  <1> DEFINE r == p \o q
  <1>2. /\ Len(p) \in Nat /\ Len(q) \in Nat
        /\ DOMAIN p = 1 .. Len(p) /\ DOMAIN q = 1 .. Len(q)
        /\ DOMAIN r = 1 .. (Len(p) + Len(q))
        /\ \A i \in 1 .. Len(p) : r[i] = p[i]
        /\ \A i \in 1 .. Len(q) : r[Len(p) + i] = q[i]
    BY Joined DEF Tidy
  <1> HIDE DEF r
  <1>3. ASSUME NEW i \in DOMAIN r, Named(r, i, {"forkunchecked"}) PROVE r[i][2] \in Nat
    <2>1. CASE i \in 1 .. Len(p)
      BY <1>2, <1>3, <2>1 DEF Tidy, Named
    <2>2. CASE i \notin 1 .. Len(p)
      <3>1. i - Len(p) \in 1 .. Len(q) /\ i = Len(p) + (i - Len(p))
        BY <1>2, <2>2
      <3>2. r[i] = q[i - Len(p)]
        BY <1>2, <3>1
      <3> QED BY <1>2, <1>3, <3>1, <3>2 DEF Tidy, Named
    <2> QED BY <2>1, <2>2
  <1> QED BY <1>1, <1>3 DEF Tidy, r

LEMMA QuietJoined == \A p, q : Quiet(p) /\ Quiet(q) => Quiet(p \o q)
  <1> SUFFICES ASSUME NEW p, NEW q, Quiet(p), Quiet(q) PROVE Quiet(p \o q)
    OBVIOUS
  <1>1. /\ IsScript(p) /\ IsScript(q)
        /\ \A n \in {Foreign, Opening, Needing} : Lacks(p, n) /\ Lacks(q, n)
    BY DEF Quiet, Mild, Lacks, Named
  <1>2. IsScript(p \o q) /\ \A n \in {Foreign, Opening, Needing} : Lacks(p \o q, n)
    BY <1>1, Joined, JoinedLacks
  <1> QED BY <1>2 DEF Quiet, Mild, Lacks, Named

LEMMA PendingJoined == \A p, q : Pending(p) /\ Pending(q) => Pending(p \o q)
  BY Joined, JoinedLacks DEF Pending

(* A child is started in the first part and waited for in the second. *)
LEMMA PendingClosed ==
  \A p, q : Pending(p) /\ Tidy(q) /\ Awaits(q, Closing, Needing) => Tidy(p \o q)
  <1> SUFFICES ASSUME NEW p, NEW q, Pending(p), Tidy(q), Awaits(q, Closing, Needing)
               PROVE  Tidy(p \o q)
    OBVIOUS
  <1>1. IsScript(p \o q) /\ Lacks(p \o q, Foreign) /\ Closed(p \o q, Opening, Closing, Needing)
    BY Joined, JoinedLacks, JoinedClosed DEF Tidy, Pending
  <1> DEFINE r == p \o q
  <1>2. /\ Len(p) \in Nat /\ Len(q) \in Nat
        /\ DOMAIN p = 1 .. Len(p) /\ DOMAIN q = 1 .. Len(q)
        /\ DOMAIN r = 1 .. (Len(p) + Len(q))
        /\ \A i \in 1 .. Len(p) : r[i] = p[i]
        /\ \A i \in 1 .. Len(q) : r[Len(p) + i] = q[i]
    BY Joined DEF Tidy, Pending
  <1> HIDE DEF r
  <1>3. ASSUME NEW i \in DOMAIN r, Named(r, i, {"forkunchecked"}) PROVE r[i][2] \in Nat
    <2>1. CASE i \in 1 .. Len(p)
      BY <1>2, <1>3, <2>1 DEF Pending, Lacks, Named, Needing
    <2>2. CASE i \notin 1 .. Len(p)
      <3>1. i - Len(p) \in 1 .. Len(q) /\ i = Len(p) + (i - Len(p))
        BY <1>2, <2>2
      <3>2. r[i] = q[i - Len(p)]
        BY <1>2, <3>1
      <3> QED BY <1>2, <1>3, <3>1, <3>2 DEF Tidy, Named
    <2> QED BY <2>1, <2>2
  <1> QED BY <1>1, <1>3 DEF Tidy, r

(* Parts of a few steps. *)
LEMMA QuietOne == \A a : Mild(a) => Quiet(<<a>>)
  BY DEF Quiet, IsScript
LEMMA QuietTwo == \A a, b : Mild(a) /\ Mild(b) => Quiet(<<a, b>>)
  BY DEF Quiet, IsScript
LEMMA QuietThree == \A a, b, c : Mild(a) /\ Mild(b) /\ Mild(c) => Quiet(<<a, b, c>>)
  BY DEF Quiet, IsScript
LEMMA QuietFour ==
  \A a, b, c, d : Mild(a) /\ Mild(b) /\ Mild(c) /\ Mild(d) => Quiet(<<a, b, c, d>>)
  BY DEF Quiet, IsScript
LEMMA QuietFive ==
  \A a, b, c, d, e : Mild(a) /\ Mild(b) /\ Mild(c) /\ Mild(d) /\ Mild(e) =>
    Quiet(<<a, b, c, d, e>>)
  BY DEF Quiet, IsScript
LEMMA QuietTwelve ==
  ASSUME NEW a, NEW b, NEW c, NEW d, NEW e, NEW f,
         NEW g, NEW h, NEW i, NEW j, NEW k, NEW l,
         Mild(a), Mild(b), Mild(c), Mild(d), Mild(e), Mild(f),
         Mild(g), Mild(h), Mild(i), Mild(j), Mild(k), Mild(l)
  PROVE  Quiet(<<a, b, c, d, e, f, g, h, i, j, k, l>>)
  <1> DEFINE S == {a, b, c, d, e, f, g, h, i, j, k, l}
             s == <<a, b, c, d, e, f, g, h, i, j, k, l>>
  <1>1. s \in Seq(S)
    <2>1. /\ a \in S /\ b \in S /\ c \in S /\ d \in S /\ e \in S /\ f \in S
          /\ g \in S /\ h \in S /\ i \in S /\ j \in S /\ k \in S /\ l \in S
      OBVIOUS
    <2> HIDE DEF S
    <2> QED BY <2>1
  <1>2. \A x \in S : Mild(x)
    OBVIOUS
  <1> HIDE DEF S, s
  <1>3. s \in Seq({s[n] : n \in DOMAIN s}) /\ \A n \in DOMAIN s : s[n] \in S
    BY <1>1
  <1> QED BY <1>2, <1>3 DEF Quiet, IsScript, s

LEMMA TidyEnds == Tidy(Success) /\ Quiet(Failure) /\ Quiet(<<>>)
  <1>1. Quiet(Failure)
    BY QuietOne DEF Failure, Mild, Foreign, Opening, Needing
  <1>2. Quiet(<<>>)
    BY DEF Quiet, IsScript
  <1>3. \A a : a[1] = "success" => Tidy(<<a>>)
    BY DEF Tidy, IsScript, Lacks, Named, Closed, Foreign, Opening
  <1> QED BY <1>1, <1>2, <1>3 DEF Success

(* The two tests ChildSeenOff does not speak of. *)
Exempt == {"ptrace_setcapregs_riscv", "tls_threads"}

(* What is shown of every test the modules define. *)
Sound(t) == t.name \notin Exempt => Tidy(t.steps) /\ (t.signal => Quiet(t.steps))

LEMMA SoundKinds ==
  /\ \A name, steps : Tidy(steps) => Sound(Plain(name, steps))
  /\ \A name, xfail, steps : Tidy(steps) => Sound(TestOf(name, FALSE, xfail, steps))
  /\ \A name, signal, xfail, steps : Quiet(steps) => Sound(TestOf(name, signal, xfail, steps))
  BY QuietKinds DEF Sound, Plain, TestOf

(* The steps of cheriostest_ptrace.c around those that look and write. *)
LEMMA TraceParts ==
  /\ Pending(fork_child)
  /\ Quiet(finish_child) /\ Awaits(finish_child, Closing, Needing)
  /\ \A slots, want : Quiet(See(slots, want))
  /\ \A slots, tags, where : Quiet(Set(slots, tags, where))
  <1>1. \A a, b : a[1] = "fork" /\ Mild(b) => Pending(<<a, b>>)
    BY DEF Pending, IsScript, Lacks, Named, Mild, Foreign, Needing
  <1>2. Pending(fork_child)
    BY <1>1 DEF fork_child, Mild, Foreign, Opening, Needing
  <1>3. \A a, b : Mild(a) /\ Mild(b) /\ b[1] \in Closing => Awaits(<<a, b>>, Closing, Needing)
    BY DEF Awaits, Named, Mild
  <1>4. Quiet(finish_child) /\ Awaits(finish_child, Closing, Needing)
    BY <1>3, QuietTwo DEF finish_child, Mild, Foreign, Opening, Needing, Closing
  <1>5. \A slots, want : Quiet(See(slots, want))
    BY QuietOne DEF See, Mild, Foreign, Opening, Needing
  <1>6. \A slots, tags, where : Quiet(Set(slots, tags, where))
    BY QuietTwo DEF Set, Mild, Foreign, Opening, Needing
  <1> QED BY <1>2, <1>4, <1>5, <1>6

(* A child is forked and stopped, looked at, and let go. *)
LEMMA Traced ==
  \A p : Pending(p) => Tidy(p \o finish_child \o Success)
  BY TraceParts, TidyEnds, QuietKinds, PendingClosed, TidyJoined

(* The steps of ptrace_basic. *)
LEMMA KilledAndReaped ==
  ASSUME NEW a, NEW b, NEW c, NEW d, NEW e, NEW f, NEW g, NEW h,
         Mild(a), b[1] = "fork", Mild(c), Mild(d), Mild(e), Mild(f),
         g[1] = "ptkill", Mild(h), h[1] = "waitkilled"
  PROVE  Tidy(<<a, b, c, d, e, f, g, h>>)
  <1> DEFINE s == <<a, b, c, d, e, f, g, h>>
  <1>1. IsScript(s)
    BY DEF IsScript
  <1>2. Lacks(s, Foreign) /\ Lacks(s, Needing)
    BY DEF Lacks, Named, Mild, Foreign, Needing
  <1>3. 8 \in DOMAIN s /\ Named(s, 8, Closing) /\ ~Named(s, 8, Opening) /\ DOMAIN s = 1 .. 8
    BY DEF Named, Closing, Opening
  <1> HIDE DEF s
  <1>4. Closed(s, Opening, Closing, Needing)
    BY <1>2, <1>3 DEF Closed, Lacks
  <1> QED BY <1>1, <1>2, <1>4 DEF Tidy, Lacks, Named, Needing, s

LEMMA PtraceScripts == \A t \in PtraceTestSet : Sound(t)
  <1> USE TraceParts, QuietKinds, PendingJoined, Traced, SoundKinds
  <1>1. \A x : Quiet(<<<<"putcap", x>>>>)
    BY QuietOne DEF Mild, Foreign, Opening, Needing
  <1>2. Quiet(<<<<"call">>>>) /\ Quiet(<<<<"shared", {0, 1}, {0}>>>>) /\ Quiet(<<<<"want", {"done"}>>>>)
    BY QuietOne DEF Mild, Foreign, Opening, Needing
  <1>3. Quiet(<<<<"call">>, <<"call">>, <<"call">>>>)
    BY QuietThree DEF Mild, Foreign, Opening, Needing
  <1>4. Quiet(<<<<"call">>, <<"poke", {Reg}, {Reg}, "own">>>>)
    BY QuietTwo DEF Mild, Foreign, Opening, Needing
  <1>5. Sound(ptrace_readcap)
    BY <1>1 DEF ptrace_readcap
  <1>6. Sound(ptrace_readtags)
    BY <1>1 DEF ptrace_readtags
  <1>7. Sound(ptrace_readcap_pageend)
    BY <1>1 DEF ptrace_readcap_pageend
  <1>8. Sound(ptrace_writecap)
    BY <1>2, <1>3 DEF ptrace_writecap
  <1>9. Sound(ptrace_getcapregs)
    BY DEF ptrace_getcapregs
  <1>10. Sound(ptrace_setcapregs(FALSE))
    <2>1. Pending(<<>> \o fork_child \o <<<<"call">>, <<"poke", {Reg}, {Reg}, "own">>>> \o <<>>
                  \o <<<<"want", {"done"}>>>> \o See({Reg}, {Reg}) \o Set({Reg}, {}, "own"))
      BY <1>2, <1>4, TidyEnds
    <2> QED BY <2>1 DEF ptrace_setcapregs
  <1>11. Sound(ptrace_setcapregs(TRUE))
    BY DEF ptrace_setcapregs, Sound, Plain, TestOf, Exempt
  <1>12. Sound(ptrace_peekcap)
    BY <1>1 DEF ptrace_peekcap
  <1>13. Sound(ptrace_pokecap)
    BY <1>2 DEF ptrace_pokecap
  <1>14. Sound(ptrace_basic)
    <2>1. Tidy(<<<<"call">>, <<"fork", <<<<"sendc">>, <<"readx">>>>>>, <<"readc">>, <<"stillthere">>,
                 <<"attach">>, <<"waitstop">>, <<"ptkill">>, <<"waitkilled">>>>)
      BY KilledAndReaped DEF Mild, Foreign, Opening, Needing
    <2> QED BY <2>1, TidyEnds, TidyJoined DEF ptrace_basic
  <1> QED BY <1>5, <1>6, <1>7, <1>8, <1>9, <1>10, <1>11, <1>12, <1>13, <1>14 DEF PtraceTestSet

(* The steps of sig_dfl_ign: two children, each waited for. *)
LEMMA ForkedTwice ==
  ASSUME NEW a, NEW b, NEW c, NEW d, NEW e, NEW f, NEW g, NEW h, NEW i, NEW j, NEW k, NEW l, NEW m,
         Mild(a), Mild(b), Mild(c), d[1] = "forkunchecked", d[2] \in Nat, Mild(e), Mild(f),
         Mild(g), g[1] = "reap", Mild(h), Mild(i), j[1] = "forkunchecked", j[2] \in Nat,
         Mild(k), Mild(l), l[1] = "reap", Mild(m)
  PROVE  Tidy(<<a, b, c, d, e, f, g, h, i, j, k, l, m>>)
  <1> DEFINE s == <<a, b, c, d, e, f, g, h, i, j, k, l, m>>
             S == {a, b, c, d, e, f, g, h, i, j, k, l, m}
  <1>1. s \in Seq(S)
    <2>1. /\ a \in S /\ b \in S /\ c \in S /\ d \in S /\ e \in S /\ f \in S /\ g \in S
          /\ h \in S /\ i \in S /\ j \in S /\ k \in S /\ l \in S /\ m \in S
      OBVIOUS
    <2> HIDE DEF S
    <2> QED BY <2>1
  <1>2. /\ DOMAIN s = 1 .. 13
        /\ s[4] = d /\ s[5] = e /\ s[6] = f /\ s[7] = g
        /\ s[10] = j /\ s[11] = k /\ s[12] = l
    OBVIOUS
  <1>3. \A n \in 1 .. 13 : n \notin {4, 10} => Mild(s[n])
    OBVIOUS
  <1> HIDE DEF S, s
  <1>4. IsScript(s)
    BY <1>1 DEF IsScript
  <1>5. Lacks(s, Foreign)
    BY <1>2, <1>3 DEF Lacks, Named, Mild, Foreign
  <1>6. ASSUME NEW n \in DOMAIN s, Named(s, n, Opening)
        PROVE  \E x \in DOMAIN s : /\ x > n /\ Named(s, x, Closing)
                                   /\ \A y \in n + 1 .. x : ~Named(s, y, Needing)
    <2>1. n \in {4, 10}
      BY <1>2, <1>3, <1>6 DEF Named, Mild
    <2>2. CASE n = 4
      <3>1. 7 \in DOMAIN s /\ Named(s, 7, Closing)
        BY <1>2 DEF Named, Closing
      <3>2. \A y \in 5 .. 7 : ~Named(s, y, Needing)
        BY <1>3 DEF Named, Mild
      <3> QED BY <2>2, <3>1, <3>2
    <2>3. CASE n = 10
      <3>1. 12 \in DOMAIN s /\ Named(s, 12, Closing)
        BY <1>2 DEF Named, Closing
      <3>2. \A y \in 11 .. 12 : ~Named(s, y, Needing)
        BY <1>3 DEF Named, Mild
      <3> QED BY <2>3, <3>1, <3>2
    <2> QED BY <2>1, <2>2, <2>3
  <1>7. \A n \in DOMAIN s : Named(s, n, {"forkunchecked"}) => s[n][2] \in Nat
    BY <1>2, <1>3 DEF Named, Mild, Opening
  <1> QED BY <1>4, <1>5, <1>6, <1>7 DEF Tidy, Closed, s

LEMMA SignalScripts == \A t \in SignalTestSet : Sound(t)
  <1> USE QuietKinds, SoundKinds, TidyEnds, TidyJoined
  <1>1. \A handler, want : Tidy(SigHandled(handler, want))
    BY QuietFour DEF SigHandled, Mild, Foreign, Opening, Needing
  <1>2. Sound(signal_handler_usr1) /\ Sound(signal_sigaction_usr1) /\ Sound(signal_returncap)
    BY <1>1 DEF signal_handler_usr1, signal_sigaction_usr1, signal_returncap
  <1>3. Sound(signal_sigaltstack(FALSE)) /\ Sound(signal_sigaltstack(TRUE))
    <2>1. Quiet(<<<<"call">>, <<"altstack", "alt">>>>)
      BY QuietTwo DEF Mild, Foreign, Opening, Needing
    <2> QED BY <1>1, <2>1 DEF signal_sigaltstack
  <1>4. Sound(signal_sigaltstack_disable)
    <2>1. Quiet(<<<<"call">>, <<"altstack", "alt">>, <<"call">>, <<"altstack", "own">>>>)
      BY QuietFour DEF Mild, Foreign, Opening, Needing
    <2> QED BY <1>1, <2>1 DEF signal_sigaltstack_disable
  <1>5. Sound(pointer_sigsegv)
    <2>1. Quiet(<<<<"touch">>>>)
      BY QuietOne DEF Mild, Foreign, Opening, Needing
    <2> QED BY <2>1, QuietJoined DEF pointer_sigsegv
  <1>6. Sound(ipc_pipe_sleep_signal)
    <2>1. Quiet(<<<<"call">>, <<"alarm">>, <<"pipefill">>>>)
      BY QuietThree DEF Mild, Foreign, Opening, Needing
    <2> QED BY <2>1, QuietJoined DEF ipc_pipe_sleep_signal
  <1>7. Sound(ipc_pipe_nocaps)
    <2>1. Quiet(<<<<"call">>, <<"pipecopy">>, <<"want", {"bits"}>>, <<"call">>>>)
      BY QuietFour DEF Mild, Foreign, Opening, Needing
    <2> QED BY <2>1 DEF ipc_pipe_nocaps
  <1>8. Sound(sig_dfl_ign)
    <2>1. Tidy(<<<<"block", {"USR1", "URG"}>>, <<"sigaction", "USR1", "ignore">>,
                 <<"sigaction", "URG", "test_sig_dfl_ign_handler">>, <<"forkunchecked", 4>>,
                 <<"kill", "USR1">>, <<"kill", "URG">>, <<"reap">>, <<"demand", {"42"}>>,
                 <<"sigaction", "USR1", "default">>, <<"forkunchecked", 3>>,
                 <<"kill", "USR1">>, <<"reap">>, <<"demand", {"killed"}>>>>)
      BY ForkedTwice DEF Mild, Foreign, Opening, Needing
    <2> QED BY <2>1 DEF sig_dfl_ign
  <1>9. Sound(aio_sival)
    <2>1. Quiet(<<<<"call">>, <<"sigaction", "USR1", "test_aio_sival_handler">>,
                  <<"call">>, <<"sigaction", "ALRM", "test_aio_sival_handler">>, <<"call">>,
                  <<"call">>, <<"aioread">>, <<"block", {"USR1", "ALRM"}>>, <<"closepeer">>,
                  <<"alarm">>, <<"suspend">>, <<"want", {"USR1"}>>>>)
      BY QuietTwelve DEF Mild, Foreign, Opening, Needing
    <2> QED BY <2>1 DEF aio_sival
  <1> QED BY <1>2, <1>3, <1>4, <1>5, <1>6, <1>7, <1>8, <1>9 DEF SignalTestSet

(* A part given as a function. *)
LEMMA QuietList ==
  ASSUME NEW n \in Nat, NEW s, NEW S, s \in [1 .. n -> S], \A x \in S : Mild(x)
  PROVE  Quiet(s)
  <1>1. s \in Seq(S)
    BY SeqDef
  <1>2. s \in Seq({s[i] : i \in DOMAIN s}) /\ \A i \in DOMAIN s : s[i] \in S
    BY <1>1
  <1> QED BY <1>2 DEF Quiet, IsScript

(* A child that is waited for at once. *)
LEMMA ForkedOnce == \A a, b : a[1] = "fork" /\ b[1] = "wait" => Tidy(<<a, b>>)
  BY DEF Tidy, IsScript, Lacks, Named, Closed, Foreign, Opening, Closing, Needing

LEMMA MallocScripts == \A t \in MallocTestSet : Sound(t)
  <1> USE QuietKinds, SoundKinds, TidyEnds, TidyJoined
  <1>1. \A i : Quiet(RevokedPtr(i)) /\ Quiet(KeptPtr(i))
    BY QuietOne DEF RevokedPtr, KeptPtr, Mild, Foreign, Opening, Needing
  <1>2. \A name, signal, steps :
          Quiet(steps) \/ (Tidy(steps) /\ signal = FALSE) => Sound(OnCheriBSD(name, signal, steps))
    BY DEF OnCheriBSD
  <1>3. Sound(malloc_double_free)
    <2>1. Quiet(<<<<"malloc", 1, "live">>, <<"free", 1>>, <<"free", 1>>>>)
      BY QuietThree DEF Mild, Foreign, Opening, Needing
    <2> QED BY <1>2, <2>1, QuietJoined DEF malloc_double_free
  <1>4. Sound(malloc_revoke_basic)
    <2>1. Quiet(<<<<"malloc", 1, "live">>, <<"free", 1>>, <<"flush">>>>)
      BY QuietThree DEF Mild, Foreign, Opening, Needing
    <2> QED BY <1>1, <1>2, <2>1 DEF malloc_revoke_basic
  <1>5. /\ Sound(malloc_revoke_quarantine_force_flush_basic)
        /\ Sound(malloc_no_quarantine_not_revoked)
    <2>1. \A how : Quiet(<<<<"malloc", 1, how>>, <<"free", 1>>, <<"call">>, <<"flush">>>>)
      BY QuietFour DEF Mild, Foreign, Opening, Needing
    <2> QED BY <1>1, <2>1
            DEF malloc_revoke_quarantine_force_flush_basic, malloc_no_quarantine_not_revoked
  <1>6. Sound(malloc_revoke_quarantine_force_flush_twice)
    <2>1. Quiet(<<<<"malloc", 1, "live">>, <<"malloc", 2, "live">>,
                  <<"free", 1>>, <<"call">>, <<"flush">>>>)
      BY QuietFive DEF Mild, Foreign, Opening, Needing
    <2>2. Quiet(<<<<"free", 2>>, <<"call">>, <<"flush">>>>)
      BY QuietThree DEF Mild, Foreign, Opening, Needing
    <2> QED BY <1>1, <2>1, <2>2 DEF malloc_revoke_quarantine_force_flush_twice
  <1>7. ASSUME NEW n \in Nat, NEW answers PROVE Quiet(Allocations(n, answers))
    <2> DEFINE S == {<<"allocate">>, <<"want", answers>>}
    <2>1. \A x \in S : Mild(x)
      BY DEF Mild, Foreign, Opening, Needing
    <2>2. 2 * n \in Nat /\ Allocations(n, answers) \in [1 .. 2 * n -> S]
      BY DEF Allocations
    <2> HIDE DEF S
    <2> QED BY <2>1, <2>2, QuietList
  <1>8. Sound(malloc_zero_size) /\ Sound(mallocx_alignment) /\ Sound(rallocx_alignment)
    BY <1>7 DEF malloc_zero_size, mallocx_alignment, rallocx_alignment, check_mallocx
  <1>9. Sound(malloc_early_constructor)
    <2>1. Tidy(<<<<"fork", <<<<"early">>>>>>, <<"wait", "check">>>>)
      BY ForkedOnce
    <2> QED BY <2>1 DEF malloc_early_constructor
  <1>10. \A t \in malloc_revocation_ctl : Sound(t)
    <2>1. \A a, b, c : Mild(a) /\ b[1] = "fork" /\ c[1] = "isrevoking" => Tidy(<<a, b, c>>)
      BY DEF Tidy, IsScript, Lacks, Named, Closed, Mild, Foreign, Opening, Closing, Needing
    <2>2. \A note, kid, revoking :
            Tidy(<<<<"install", note>>, <<"fork", kid>>, <<"isrevoking", revoking>>>>)
      BY <2>1 DEF Mild, Foreign, Opening, Needing
    <2>3. \A name, note, suid, revoking, ctl :
            Sound(malloc_revocation_ctl_common(name, note, suid, revoking, ctl))
      BY <2>2 DEF malloc_revocation_ctl_common
    <2> QED BY <2>3 DEF malloc_revocation_ctl
  <1> QED BY <1>3, <1>4, <1>5, <1>6, <1>8, <1>9, <1>10 DEF MallocTestSet

LEMMA StringScripts == \A t \in StringTestSet : Sound(t)
  <1> USE QuietKinds, SoundKinds, TidyEnds, TidyJoined
  <1>1. \A d, n, start, to : Quiet(Case(d, n, start, to))
    BY QuietThree DEF Case, Mild, Foreign, Opening, Needing
  <1>2. Quiet(Shifted) /\ Quiet(<<<<"invalidate">>>>)
    BY QuietOne, QuietTwo DEF Shifted, Mild, Foreign, Opening, Needing
  <1>3. Tidy(FourCases) /\ Tidy(OffsetCases)
    BY <1>1 DEF FourCases, OffsetCases
  <1>4. Tidy(AllCases)
    <2>1. \A d, n, start, to : \A j \in 1 .. 3 : Mild(Case(d, n, start, to)[j])
      BY DEF Case, Mild, Foreign, Opening, Needing
    <2> DEFINE N == 3 * Pad * Pad
               S == {AllCases[k] : k \in 1 .. N}
    <2>2. N \in Nat
      BY StringAssumption
    <2>3. \A k \in 1 .. N : ((k - 1) % 3) + 1 \in 1 .. 3
      BY <2>2
    <2>4. \A k \in 1 .. N : Mild(AllCases[k])
      BY <2>1, <2>3 DEF AllCases
    <2>5. AllCases \in [1 .. N -> S]
      BY DEF AllCases
    <2>6. \A x \in S : Mild(x)
      BY <2>4
    <2> HIDE DEF N, S
    <2> QED BY <2>2, <2>5, <2>6, QuietList
  <1>5. Tidy(UnalignedCopies)
    BY QuietThree DEF UnalignedCopies, Mild, Foreign, Opening, Needing
  <1> QED BY <1>2, <1>3, <1>4, <1>5
          DEF StringTestSet, string_memcpy, string_memmove, string_memcpy_c, string_memmove_c,
              string_kern_memcpy_c, string_kern_memmove_c, unaligned_capability_copy_memcpy,
              unaligned_capability_copy_memmove

----------------------------------------------------------------------------
Alive == end["kid"] \in {"run", "stopped"}

(***************************************************************************)
(* The invariant: as long as there is a child, its test still has a wait   *)
(* for it to do, and before that neither succeeds nor forks again.  Tests  *)
(* that wait for a signal have no child.                                   *)
(***************************************************************************)
SysInv ==
  test.name \notin Exempt =>
    /\ DOMAIN todo = Proc /\ DOMAIN end = Proc
    /\ Tidy(todo["main"])
    /\ end["main"] = "run" /\ Alive => Awaits(todo["main"], Closing, Needing)
    /\ end["main"] = "ok" => ~Alive
    /\ test.signal => ~Alive /\ Lacks(todo["main"], Opening)

(* The steps of most operations: on to the next, wait, or end the process. *)
Advance(p) ==
  /\ end[p] = "run" /\ todo[p] # <<>>
  /\ \/ /\ todo' = [todo EXCEPT ![p] = Tail(@)] /\ end' = end
        /\ Head(todo[p])[1] \notin Closing \/ ~Alive
     \/ todo' = todo /\ end' = end
     \/ \E how : /\ todo' = todo /\ end' = [end EXCEPT ![p] = how]
                 /\ \/ how \in {"software", "signal", "killed"}
                    \/ Head(todo[p])[1] \in Foreign \cup {"success"}
     \/ /\ Head(todo[p])[1] \in Foreign /\ end' = end
        /\ \E steps : todo' = [todo EXCEPT ![p] = steps]

LEMMA CommonAdvance ==
  ASSUME NEW p \in Proc, CommonStep(p) \/ Leave(p)
  PROVE  Advance(p)
  <1> USE DEF Advance, At, Go, Die, Verify, Alive, Closing, Foreign
  <1>1. CASE WantStep(p)
    BY <1>1 DEF WantStep
  <1>2. CASE Succeed(p)
    BY <1>2 DEF Succeed
  <1>3. CASE FailStep(p)
    BY <1>3 DEF FailStep
  <1>4. CASE ExitStep(p)
    BY <1>4 DEF ExitStep
  <1>5. CASE Demand(p)
    BY <1>5 DEF Demand
  <1>6. CASE CallStep(p)
    BY <1>6 DEF CallStep
  <1>7. CASE NeedCap(p)
    BY <1>7 DEF NeedCap
  <1>8. CASE p = "main" /\ WaitStep
    BY <1>8 DEF WaitStep
  <1>9. CASE Leave(p)
    BY <1>9 DEF Leave
  <1> QED BY <1>1, <1>2, <1>3, <1>4, <1>5, <1>6, <1>7, <1>8, <1>9 DEF CommonStep

LEMMA TraceAdvance ==
  ASSUME NEW p \in Proc, TraceStep(p),
         ~(p = "main" /\ (Continue \/ Attach \/ PtKill)), ~(p = "kid" /\ RaiseStop)
  PROVE  Advance(p)
  <1> USE DEF Advance, At, Go, Die, Verify, Alive, Closing, Gone
  <1>1. CASE p = "main" /\ WaitStopped
    BY <1>1 DEF WaitStopped
  <1>2. CASE p = "main" /\ PutCap
    BY <1>2 DEF PutCap
  <1>3. CASE p = "main" /\ Peek
    BY <1>3 DEF Peek
  <1>4. CASE p = "main" /\ Poke
    BY <1>4 DEF Poke
  <1>5. CASE p = "main" /\ LookShared
    BY <1>5 DEF LookShared
  <1>6. CASE p = "main" /\ QemuCheck
    BY <1>6 DEF QemuCheck
  <1>7. CASE p = "main" /\ WaitExited
    BY <1>7 DEF WaitExited
  <1>8. CASE p = "main" /\ ReadC
    BY <1>8 DEF ReadC
  <1>9. CASE p = "main" /\ StillThere
    BY <1>9 DEF StillThere
  <1>10. CASE p = "main" /\ WaitKilled
    BY <1>10 DEF WaitKilled
  <1>11. CASE p = "kid" /\ TraceMe
    BY <1>11 DEF TraceMe
  <1>12. CASE p = "kid" /\ SendC
    BY <1>12 DEF SendC
  <1>13. CASE p = "kid" /\ ReadX
    BY <1>13 DEF ReadX
  <1> QED BY <1>1, <1>2, <1>3, <1>4, <1>5, <1>6, <1>7, <1>8, <1>9, <1>10, <1>11, <1>12, <1>13
          DEF TraceStep

LEMMA SigAdvance ==
  ASSUME NEW p \in Proc, SigStep(p), ~(p = "main" /\ ForkUnchecked)
  PROVE  Advance(p)
  <1> USE DEF Advance, At, Go, Trap, Alive, Closing
  <1>1. CASE Sigaction(p)
    BY <1>1 DEF Sigaction
  <1>2. CASE Block(p)
    BY <1>2 DEF Block
  <1>3. CASE Sigaltstack(p)
    BY <1>3 DEF Sigaltstack
  <1>4. CASE KillSelf(p)
    BY <1>4 DEF KillSelf
  <1>5. CASE Touch(p)
    BY <1>5 DEF Touch
  <1>6. CASE Alarm(p)
    BY <1>6 DEF Alarm
  <1>7. CASE PipeFill(p)
    BY <1>7 DEF PipeFill
  <1>8. CASE PipeCopy(p)
    BY <1>8 DEF PipeCopy
  <1>9. CASE Suspend(p)
    BY <1>9 DEF Suspend
  <1>10. CASE AioRead(p)
    BY <1>10 DEF AioRead
  <1>11. CASE ClosePeer(p)
    BY <1>11 DEF ClosePeer
  <1>12. CASE p = "main" /\ KillKid
    BY <1>12 DEF KillKid
  <1>13. CASE p = "main" /\ Reap
    BY <1>13 DEF Reap
  <1> QED BY <1>1, <1>2, <1>3, <1>4, <1>5, <1>6, <1>7, <1>8, <1>9, <1>10, <1>11, <1>12, <1>13
          DEF SigStep

LEMMA MallocAdvance ==
  ASSUME NEW p \in Proc, MallocStep(p)
  PROVE  Advance(p)
  <1> USE DEF Advance, At, Go, Die, Trap, Verify, Alive, Closing, Foreign
  <1>1. CASE Malloc(p)
    BY <1>1 DEF Malloc
  <1>2. CASE Free(p)
    BY <1>2 DEF Free
  <1>3. CASE FlushQuarantine(p)
    BY <1>3 DEF FlushQuarantine
  <1>4. CASE LookPtr(p)
    BY <1>4 DEF LookPtr
  <1>5. CASE Allocate(p)
    BY <1>5 DEF Allocate
  <1>6. CASE Install(p)
    BY <1>6 DEF Install
  <1>7. CASE Procctl(p)
    BY <1>7 DEF Procctl
  <1>8. CASE Execute(p)
    BY <1>8 DEF Execute
  <1>9. CASE ExecuteEarly(p)
    BY <1>9 DEF ExecuteEarly
  <1>10. CASE p = "main" /\ ChildIsRevoking
    BY <1>10 DEF ChildIsRevoking
  <1> QED BY <1>1, <1>2, <1>3, <1>4, <1>5, <1>6, <1>7, <1>8, <1>9, <1>10 DEF MallocStep

LEMMA TlsAdvance ==
  ASSUME NEW p \in Proc, TlsStep(p), ~PthreadFails(p),
         ~(p = "main" /\ ThreadCreate), ~(p = "kid" /\ ThreadReturns)
  PROVE  Advance(p)
  <1> USE DEF Advance, TlsAt, At, Go, Die, Verify, Alive, Closing, Foreign
  <1>1. CASE Lock(p)
    BY <1>1 DEF Lock
  <1>2. CASE Unlock(p)
    BY <1>2 DEF Unlock
  <1>3. CASE Announce(p)
    BY <1>3 DEF Announce
  <1>4. CASE CondWait(p)
    BY <1>4 DEF CondWait
  <1>5. CASE CondReturn(p)
    BY <1>5 DEF CondReturn
  <1>6. CASE WhileDone(p)
    BY <1>6 DEF WhileDone
  <1>7. CASE p = "main" /\ ReadThread
    BY <1>7 DEF ReadThread
  <1>8. CASE p = "main" /\ CheckTls
    BY <1>8 DEF CheckTls
  <1>9. CASE p = "kid" /\ Increment
    BY <1>9 DEF Increment
  <1> QED BY <1>1, <1>2, <1>3, <1>4, <1>5, <1>6, <1>7, <1>8, <1>9 DEF TlsStep

LEMMA StringAdvance ==
  ASSUME StringStep
  PROVE  Advance("main")
  <1> USE DEF Advance, At, Go, Die, Trap, Verify, Alive, Closing
  <1>1. CASE Invalidate
    BY <1>1 DEF Invalidate
  <1>2. CASE Copy
    BY <1>2 DEF Copy
  <1>3. CASE Check
    BY <1>3 DEF Check
  <1>4. CASE CheckShifted
    BY <1>4 DEF CheckShifted
  <1>5. CASE CopyUnaligned
    BY <1>5 DEF CopyUnaligned
  <1> QED BY <1>1, <1>2, <1>3, <1>4, <1>5 DEF StringStep

(* A tidy rest stays tidy from any later step on. *)
LEMMA TidyShorter ==
  ASSUME NEW s, Tidy(s), s # <<>>
  PROVE  /\ Tidy(Tail(s)) /\ Head(s) = s[1] /\ Head(s)[1] \notin Foreign
         /\ Head(s)[1] \in Opening => Awaits(Tail(s), Closing, Needing)
         /\ Head(s)[1] = "forkunchecked" => Head(s)[2] \in Nat
  <1>1. /\ IsScript(Tail(s)) /\ Head(s) = s[1]
        /\ Len(s) \in Nat \ {0} /\ DOMAIN s = 1 .. Len(s)
        /\ DOMAIN Tail(s) = 1 .. Len(s) - 1
        /\ \A i \in 1 .. Len(s) - 1 : Tail(s)[i] = s[i + 1]
    BY Shorter DEF Tidy
  <1>2. Lacks(Tail(s), Foreign) /\ Head(s)[1] \notin Foreign
    BY <1>1, ShorterLacks DEF Tidy, Lacks, Named
  <1>3. /\ Closed(Tail(s), Opening, Closing, Needing)
        /\ Head(s)[1] \in Opening => Awaits(Tail(s), Closing, Needing)
    BY ShorterClosed DEF Tidy
  <1>4. /\ \A i \in DOMAIN Tail(s) : Named(Tail(s), i, {"forkunchecked"}) => Tail(s)[i][2] \in Nat
        /\ Head(s)[1] = "forkunchecked" => Head(s)[2] \in Nat
    BY <1>1 DEF Tidy, Named
  <1> QED BY <1>1, <1>2, <1>3, <1>4 DEF Tidy

LEMMA TidySuffix ==
  ASSUME NEW s, NEW n \in Nat, Tidy(s)
  PROVE  Tidy(SubSeq(s, n + 1, Len(s)))
  <1> DEFINE r == SubSeq(s, n + 1, Len(s))
  <1>1. IsScript(r) /\ Lacks(r, Foreign) /\ Closed(r, Opening, Closing, Needing)
    BY Suffix, SuffixLacks, SuffixClosed DEF Tidy
  <1>2. /\ Len(s) \in Nat /\ DOMAIN s = 1 .. Len(s) /\ DOMAIN r = 1 .. Len(s) - n
        /\ \A i \in 1 .. Len(s) - n : r[i] = s[n + i]
    BY Suffix DEF Tidy
  <1> HIDE DEF r
  <1>3. ASSUME NEW i \in DOMAIN r, Named(r, i, {"forkunchecked"}) PROVE r[i][2] \in Nat
    <2>1. n + i \in DOMAIN s /\ r[i] = s[n + i]
      BY <1>2
    <2> QED BY <1>3, <2>1 DEF Tidy, Named
  <1> QED BY <1>1, <1>3 DEF Tidy, r

(* What a step of the test itself may do to it and to its child ... *)
MainMoves ==
  LET t == todo["main"]
      first == Head(t)[1]
  IN /\ end["main"] = "run" /\ t # <<>>
     /\ \/ /\ todo'["main"] = Tail(t) /\ end'["main"] = "run"
           /\ Alive' => first \in Opening \/ (Alive /\ first \notin Closing)
        \/ todo'["main"] = t /\ end'["main"] = "run" /\ (Alive' => Alive)
        \/ /\ todo'["main"] = t /\ end'["main"] # "run" /\ (Alive' => Alive)
           /\ end'["main"] = "ok" => first \in Foreign \cup {"success"}
        \/ /\ first = "forkunchecked" /\ end' = end
           /\ todo'["main"] = SubSeq(t, Head(t)[2] + 2, Len(t))
        \/ first \in Foreign

(* ... and what anybody else may. *)
OthersMove ==
  /\ todo'["main"] = todo["main"]
  /\ end'["main"] \in {end["main"], "software", "signal"}
  /\ Alive' => Alive

LEMMA MovesKeep ==
  ASSUME SysInv, test' = test, DOMAIN todo' = Proc, DOMAIN end' = Proc, MainMoves \/ OthersMove
  PROVE  SysInv'
  <1> SUFFICES ASSUME test.name \notin Exempt PROVE SysInv'
    BY DEF SysInv
  <1> DEFINE t == todo["main"]
             u == todo'["main"]
  <1>1. /\ Tidy(t) /\ IsScript(t)
        /\ end["main"] = "run" /\ Alive => Awaits(t, Closing, Needing)
        /\ end["main"] = "ok" => ~Alive
        /\ test.signal => ~Alive /\ Lacks(t, Opening)
    BY DEF SysInv, Tidy
  <1>2. SUFFICES /\ Tidy(u)
                 /\ end'["main"] = "run" /\ Alive' => Awaits(u, Closing, Needing)
                 /\ end'["main"] = "ok" => ~Alive'
                 /\ test.signal => ~Alive' /\ Lacks(u, Opening)
    BY DEF SysInv
  <1>3. CASE OthersMove
    <2>1. u = t /\ end'["main"] \in {end["main"], "software", "signal"} /\ (Alive' => Alive)
      BY <1>3 DEF OthersMove
    <2> HIDE DEF t, u
    <2> QED BY <1>1, <2>1
  <1>4. CASE MainMoves
    <2> DEFINE first == Head(t)[1]
    <2>1. end["main"] = "run" /\ t # <<>>
      BY <1>4 DEF MainMoves
    <2>2. /\ Tidy(Tail(t)) /\ first \notin Foreign
          /\ first \in Opening => Awaits(Tail(t), Closing, Needing)
          /\ first = "forkunchecked" => Head(t)[2] \in Nat
      BY <1>1, <2>1, TidyShorter
    <2>3. Alive => /\ Awaits(t, Closing, Needing) /\ first \notin Needing
                   /\ first \notin Closing => Awaits(Tail(t), Closing, Needing)
      BY <1>1, <2>1, ShorterAwaits
    <2>4. test.signal => ~Alive /\ Lacks(Tail(t), Opening) /\ first \notin Opening
      BY <1>1, <2>1, Shorter, ShorterLacks DEF Lacks, Named
    <2>5. CASE /\ u = Tail(t) /\ end'["main"] = "run"
               /\ Alive' => first \in Opening \/ (Alive /\ first \notin Closing)
      <3> HIDE DEF t, u, first
      <3> QED BY <2>2, <2>3, <2>4, <2>5
    <2>6. CASE u = t /\ end'["main"] = "run" /\ (Alive' => Alive)
      <3> HIDE DEF t, u
      <3> QED BY <1>1, <2>1, <2>6
    <2>7. CASE /\ u = t /\ end'["main"] # "run" /\ (Alive' => Alive)
               /\ end'["main"] = "ok" => first \in Foreign \cup {"success"}
      <3>1. first \in Foreign \cup {"success"} => ~Alive
        BY <2>2, <2>3 DEF Needing
      <3> HIDE DEF t, u, first
      <3> QED BY <1>1, <2>1, <2>7, <3>1
    <2>8. CASE /\ first = "forkunchecked" /\ end' = end
               /\ u = SubSeq(t, Head(t)[2] + 2, Len(t))
      <3>1. ~Alive /\ ~Alive' /\ ~test.signal /\ end'["main"] # "ok"
        BY <2>1, <2>3, <2>4, <2>8 DEF Needing, Opening, Alive
      <3> DEFINE n == Head(t)[2] + 1
      <3>2. n \in Nat /\ Head(t)[2] + 2 = n + 1
        BY <2>2, <2>8
      <3>3. Tidy(SubSeq(t, n + 1, Len(t)))
        <4> HIDE DEF n, t
        <4> QED BY <1>1, <3>2, TidySuffix
      <3>4. Tidy(u)
        BY <2>8, <3>2, <3>3
      <3> QED BY <3>1, <3>4
    <2> QED BY <1>4, <2>2, <2>5, <2>6, <2>7, <2>8 DEF MainMoves
  <1> QED BY <1>3, <1>4

(* Which of the two an ordinary step is depends on who takes it. *)
LEMMA AdvanceMoves ==
  ASSUME NEW p \in Proc, DOMAIN todo = Proc, DOMAIN end = Proc, Advance(p)
  PROVE  DOMAIN todo' = Proc /\ DOMAIN end' = Proc /\ (MainMoves \/ OthersMove)
  <1>1. DOMAIN todo' = Proc /\ DOMAIN end' = Proc
    BY DEF Advance
  <1>2. CASE p = "main"
    <2>1. MainMoves
      BY <1>2 DEF MainMoves, Advance, Alive, Proc
    <2> QED BY <1>1, <2>1
  <1>3. CASE p = "kid"
    <2>1. OthersMove
      BY <1>3 DEF OthersMove, Advance, Alive, Proc
    <2> QED BY <1>1, <2>1
  <1> QED BY <1>2, <1>3 DEF Proc

(* The steps that start a child, stop it or let it go. *)
LEMMA ChildMoves ==
  ASSUME DOMAIN todo = Proc, DOMAIN end = Proc, test.name \notin Exempt,
         \/ ForkStep \/ ForkUnchecked \/ Continue \/ Attach \/ PtKill \/ RaiseStop
         \/ ThreadCreate \/ ThreadReturns \/ \E p \in Proc : PthreadFails(p)
  PROVE  DOMAIN todo' = Proc /\ DOMAIN end' = Proc /\ (MainMoves \/ OthersMove)
  <1> USE DEF At, Go, Die, Proc, Alive
  <1>1. CASE ForkStep
    BY <1>1 DEF ForkStep, MainMoves, Opening
  <1>2. CASE ForkUnchecked
    BY <1>2 DEF ForkUnchecked, MainMoves, Opening, Arg
  <1>3. CASE Continue
    BY <1>3 DEF Continue, MainMoves, Closing
  <1>4. CASE Attach
    BY <1>4 DEF Attach, MainMoves, Closing, Gone
  <1>5. CASE PtKill
    BY <1>5 DEF PtKill, MainMoves, Opening
  <1>6. CASE RaiseStop
    BY <1>6 DEF RaiseStop, OthersMove
  <1>7. CASE ThreadCreate
    BY <1>7 DEF ThreadCreate, TlsAt, MainMoves, Foreign
  <1>8. CASE ThreadReturns
    BY <1>8 DEF ThreadReturns, Exempt
  <1>9. CASE \E p \in Proc : PthreadFails(p)
    BY <1>9 DEF PthreadFails, OthersMove
  <1> QED BY <1>1, <1>2, <1>3, <1>4, <1>5, <1>6, <1>7, <1>8, <1>9

LEMMA SysInit == Init => SysInv
  <1> SUFFICES ASSUME Init, test.name \notin Exempt PROVE SysInv
    BY DEF SysInv
  <1>1. PICK tests \in {PtraceTestSet, SignalTestSet, {tls_threads}, MallocTestSet, StringTestSet} :
               \E flaws : ScriptInit(tests, flaws)
    BY DEF Init
  <1>2. tls_threads.name \in Exempt
    BY DEF tls_threads, Plain, TestOf, Exempt
  <1>3. Sound(test)
    BY <1>1, <1>2, PtraceScripts, SignalScripts, MallocScripts, StringScripts DEF ScriptInit
  <1>4. Tidy(test.steps) /\ (test.signal => Lacks(test.steps, Opening))
    BY <1>3, QuietKinds DEF Sound
  <1>5. /\ DOMAIN todo = Proc /\ DOMAIN end = Proc /\ todo["main"] = test.steps
        /\ end["main"] = "run" /\ end["kid"] = "none"
    BY <1>1 DEF ScriptInit, Proc
  <1> QED BY <1>4, <1>5 DEF SysInv, Alive

LEMMA SysNext == SysInv /\ [Next]_vars => SysInv'
  <1> SUFFICES ASSUME SysInv, [Next]_vars PROVE SysInv'
    OBVIOUS
  <1>1. CASE UNCHANGED vars
    <2>1. todo' = todo /\ end' = end /\ test' = test
      BY <1>1 DEF vars, scriptVars
    <2> QED BY <2>1 DEF SysInv, Alive
  <1>2. CASE (Kernel \/ Chance \/ \E p \in Proc : SysStep(p)) /\ UNCHANGED setting
    <2>1. test' = test
      BY <1>2 DEF setting
    <2>2. CASE test.name \in Exempt
      BY <2>1, <2>2 DEF SysInv
    <2>3. CASE test.name \notin Exempt
      <3>1. DOMAIN todo = Proc /\ DOMAIN end = Proc
        BY <2>3 DEF SysInv
      <3>2. ASSUME NEW p \in Proc, SysStep(p)
            PROVE  DOMAIN todo' = Proc /\ DOMAIN end' = Proc /\ (MainMoves \/ OthersMove)
        <4>1. CASE p = "main" /\ ForkStep
          BY <2>3, <3>1, <4>1, ChildMoves
        <4>2. CASE CommonStep(p) \/ Leave(p)
          BY <3>1, <4>2, CommonAdvance, AdvanceMoves
        <4>3. CASE TraceStep(p)
          <5>1. CASE Continue \/ Attach \/ PtKill \/ RaiseStop
            BY <2>3, <3>1, <5>1, ChildMoves
          <5>2. CASE ~(Continue \/ Attach \/ PtKill \/ RaiseStop)
            BY <3>1, <4>3, <5>2, TraceAdvance, AdvanceMoves
          <5> QED BY <5>1, <5>2
        <4>4. CASE SigStep(p)
          <5>1. CASE p = "main" /\ ForkUnchecked
            BY <2>3, <3>1, <5>1, ChildMoves
          <5>2. CASE ~(p = "main" /\ ForkUnchecked)
            BY <3>1, <4>4, <5>2, SigAdvance, AdvanceMoves
          <5> QED BY <5>1, <5>2
        <4>5. CASE MallocStep(p)
          BY <3>1, <4>5, MallocAdvance, AdvanceMoves
        <4>6. CASE TlsStep(p)
          <5>1. CASE PthreadFails(p) \/ ThreadCreate \/ ThreadReturns
            BY <2>3, <3>1, <5>1, ChildMoves
          <5>2. CASE ~(PthreadFails(p) \/ ThreadCreate \/ ThreadReturns)
            BY <3>1, <4>6, <5>2, TlsAdvance, AdvanceMoves
          <5> QED BY <5>1, <5>2
        <4>7. CASE p = "main" /\ StringStep
          BY <3>1, <4>7, StringAdvance, AdvanceMoves
        <4> QED BY <3>2, <4>1, <4>2, <4>3, <4>4, <4>5, <4>6, <4>7 DEF SysStep
      <3>3. ASSUME Kernel PROVE DOMAIN todo' = Proc /\ DOMAIN end' = Proc /\ OthersMove
        <4>1. CASE TracerGone
          BY <3>1, <4>1 DEF TracerGone, OthersMove, Alive, Proc
        <4>2. CASE TimerFires \/ AioDone
          BY <3>1, <4>2 DEF TimerFires, AioDone, OthersMove, Alive
        <4>3. CASE \E p \in Proc : Deliver(p)
          BY <3>1, <4>3 DEF Deliver, Trap, OthersMove, Alive, Proc
        <4> QED BY <3>3, <4>1, <4>2, <4>3 DEF Kernel
      <3>4. ASSUME Chance PROVE DOMAIN todo' = Proc /\ DOMAIN end' = Proc /\ OthersMove
        BY <3>1, <3>4 DEF Chance, SpuriousWakeup, OthersMove, Alive
      <3> QED BY <1>2, <2>1, <3>2, <3>3, <3>4, MovesKeep
    <2> QED BY <2>2, <2>3
  <1> QED BY <1>1, <1>2 DEF Next, Over

LEMMA SysInvariant == Spec => []SysInv
  BY SysInit, SysNext, PTL DEF Spec

(***************************************************************************)
(* ChildSeenOff, for every system, set of errors and length of a copy: a   *)
(* test that passes has seen its child end, whatever it did to it with     *)
(* ptrace(2) or signals, but for the two that say otherwise.               *)
(***************************************************************************)
THEOREM ChildrenAreSeenOff == Spec => []ChildSeenOff
  <1>1. SysInv => ChildSeenOff
    <2> SUFFICES ASSUME SysInv, SysPassed, test.name \notin Exempt
                 PROVE  end["kid"] \notin {"run", "stopped"}
      BY DEF ChildSeenOff, Exempt
    <2>1. FailVerdict(test.xfail, FALSE) \notin {"PASS", "XPASS"}
      BY DEF FailVerdict
    <2>2. end["main"] = "ok" \/ test.signal
      BY <2>1 DEF SysPassed, Outcome
    <2> QED BY <2>2 DEF SysInv, Alive
  <1> QED BY <1>1, SysInvariant, PTL

----------------------------------------------------------------------------
(* set-feature-ctl-note.  Its two searches are recursive functions, so that *)
(* they are defined at all has to be shown: both go forward only.           *)

(* Induction, in the form of a least counterexample. *)
LEMMA Least == ASSUME NEW T, T \subseteq Nat, T # {}
  PROVE \E x \in T : \A y \in T : x <= y
  <1>1. \E x \in T : \A y \in T : ~ (<<y, x>> \in OpToRel(<,Nat))
    BY NatLessThanWellFounded, WFMin, Zenon
  <1>2. OpToRel(<,Nat) = {ss \in Nat \X Nat : ss[1] < ss[2]}
    BY Zenon DEF OpToRel
  <1>3. PICK x \in T : \A y \in T : ~ (<<y, x>> \in {ss \in Nat \X Nat : ss[1] < ss[2]})
    BY <1>1, <1>2, Zenon
  <1>4. \A y \in T : ~(y < x)
    <2> TAKE y \in T
    <2>1. x \in Nat /\ y \in Nat
      OBVIOUS
    <2> QED BY <1>3, <2>1
  <1> QED BY <1>4

(***************************************************************************)
(* A search over lo .. hi that answers at some positions and at those of   *)
(* on goes on to a later one, and what it computes.                        *)
(***************************************************************************)
Searching(lo, hi, on, next, answer) ==
  /\ lo \in Nat /\ hi \in Nat /\ lo <= hi
  /\ answer \in [lo .. hi -> Int] /\ hi \notin on
  /\ \A n \in lo .. hi : n \in on => next[n] \in n + 1 .. hi

Computes(g, lo, hi, on, next, answer) ==
  /\ g \in [lo .. hi -> Int]
  /\ \A n \in lo .. hi : g[n] = IF n \in on THEN g[next[n]] ELSE answer[n]

(* Such a search computes something. *)
LEMMA SearchExists ==
  ASSUME NEW lo, NEW hi, NEW on, NEW next, NEW answer, Searching(lo, hi, on, next, answer)
  PROVE  \E g : Computes(g, lo, hi, on, next, answer)
  <1> USE DEF Searching
  <1> DEFINE Right(g, n) == g[n] = IF n \in on THEN g[next[n]] ELSE answer[n]
             Reached(k) == \E g \in [lo .. hi -> Int] : \A n \in hi - k .. hi : Right(g, n)
             T == {k \in 0 .. hi - lo : ~Reached(k)}
  <1>1. Reached(0)
    <2>1. \A n \in hi - 0 .. hi : n = hi
      OBVIOUS
    <2>2. Right(answer, hi)
      OBVIOUS
    <2> QED BY <2>1, <2>2
  <1>2. ASSUME NEW k \in 0 .. hi - lo, k # 0, Reached(k - 1) PROVE Reached(k)
    <2>1. PICK g \in [lo .. hi -> Int] : \A n \in hi - (k - 1) .. hi : Right(g, n)
      BY <1>2
    <2> DEFINE m == hi - k
               v == IF m \in on THEN g[next[m]] ELSE answer[m]
               h == [g EXCEPT ![m] = v]
    <2>2. m \in lo .. hi /\ v \in Int
      <3>1. m \in lo .. hi
        OBVIOUS
      <3>2. m \in on => next[m] \in lo .. hi
        BY <3>1
      <3> QED BY <3>1, <3>2
    <2>3. h \in [lo .. hi -> Int] /\ h[m] = v /\ \A n \in lo .. hi : n # m => h[n] = g[n]
      BY <2>2
    <2>4. ASSUME NEW n \in hi - k .. hi PROVE Right(h, n)
      <3>1. n \in lo .. hi /\ (n \in on => next[n] \in lo .. hi /\ next[n] > n /\ next[n] > m)
        OBVIOUS
      <3>2. n \in on => h[next[n]] = g[next[n]]
        <4> HIDE DEF h
        <4> QED BY <2>2, <2>3, <3>1
      <3>3. CASE n = m
        <4> HIDE DEF h
        <4> QED BY <2>3, <3>2, <3>3
      <3>4. CASE n # m
        <4>1. n \in hi - (k - 1) .. hi
          BY <3>4
        <4>2. g[n] = IF n \in on THEN g[next[n]] ELSE answer[n]
          BY <2>1, <4>1
        <4> HIDE DEF h, m
        <4> QED BY <2>3, <3>1, <3>2, <3>4, <4>2
      <3> QED BY <3>3, <3>4
    <2> HIDE DEF h, Right
    <2> QED BY <2>3, <2>4
  <1> HIDE DEF Reached
  <1>3. T = {}
    <2> SUFFICES ASSUME T # {} PROVE FALSE
      OBVIOUS
    <2>1. PICK k \in T : \A j \in T : k <= j
      <3>1. T \subseteq Nat
        OBVIOUS
      <3> HIDE DEF T
      <3> QED BY <3>1, Least
    <2>2. k # 0 /\ k \in 0 .. hi - lo
      BY <1>1
    <2>3. k - 1 \in 0 .. hi - lo /\ k - 1 \notin T
      BY <2>1, <2>2
    <2> QED BY <1>2, <2>1, <2>2, <2>3
  <1>4. Reached(hi - lo)
    BY <1>3
  <1>5. hi - (hi - lo) = lo
    OBVIOUS
  <1> QED BY <1>4, <1>5 DEF Reached, Computes

(* The words of a file. *)
Wordy(f) == f.word \in Seq(0 .. Modulus - 1)

LEMMA Words ==
  ASSUME NEW f, Wordy(f)
  PROVE  /\ Size(f) \in Nat
         /\ \A pos \in Nat : pos + 4 <= Size(f) => WordAt(f, pos) \in 0 .. Modulus - 1
  <1> DEFINE w == f.word
  <1>1. Len(w) \in Nat /\ \A i \in 1 .. Len(w) : w[i] \in 0 .. Modulus - 1
    <2>1. \A S, s : s \in Seq(S) => Len(s) \in Nat /\ \A i \in 1 .. Len(s) : s[i] \in S
      OBVIOUS
    <2> QED BY <2>1, Zenon DEF Wordy
  <1>2. ASSUME NEW pos \in Nat, pos + 4 <= 4 * Len(w) PROVE (pos \div 4) + 1 \in 1 .. Len(w)
    BY <1>1, <1>2
  <1> HIDE DEF w
  <1> QED BY <1>1, <1>2 DEF Size, WordAt, w

(* Sizes, rounded: what roundup4() gives is never negative and never too large. *)
LEMMA Rounded ==
  /\ Modulus \in Nat /\ Modulus > 1000 /\ Modulus % 4 = 0
  /\ \A x \in Nat : roundup4(x) \in 0 .. Modulus - 1
  /\ roundup4(8) = 8
  <1>1. Modulus \in Nat /\ Modulus > 1000 /\ Modulus % 4 = 0
    BY ModulusAssumption
  <1>2. ASSUME NEW x \in Nat PROVE roundup4(x) \in 0 .. Modulus - 1
    <2> DEFINE r == (x + 3) % Modulus
    <2>1. r \in 0 .. Modulus - 1
      BY <1>1
    <2> HIDE DEF r
    <2>2. (r \div 4) * 4 \in 0 .. Modulus - 1
      BY <1>1, <2>1
    <2> QED BY <2>2 DEF roundup4, r
  <1>3. roundup4(8) = 8
    <2>1. (8 + 3) % Modulus = 11
      BY <1>1
    <2> QED BY <2>1 DEF roundup4
  <1> QED BY <1>1, <1>2, <1>3

(* Where NotesFrom() goes on, where to, and what it answers elsewhere. *)
GoesOn(f, lim, pos) ==
  /\ pos + NHDR <= lim /\ pos + NHDR <= Size(f)
  /\ \/ WordAt(f, pos) # 8 \/ WordAt(f, pos + 8) # NT_FREEBSD_FEATURE_CTL
     \/ /\ pos + NHDR + 8 <= Size(f)
        /\ <<WordAt(f, pos + NHDR), WordAt(f, pos + NHDR + 4)>> # FreeBSDName
Onwards(f, pos) ==
  pos + NHDR + ((roundup4(WordAt(f, pos)) + roundup4(WordAt(f, pos + 4))) % Modulus)
Answer(f, lim, pos) ==
  IF pos + NHDR > lim THEN None
  ELSE IF pos + NHDR > Size(f) \/ pos + NHDR + 8 > Size(f) \/ WordAt(f, pos + 4) < 4 THEN Error
  ELSE pos + NHDR + 8

(* Nothing before the end of a file leads beyond the table of NotesFrom(). *)
LEMMA Beyond ==
  ASSUME NEW S \in Nat, NEW M \in Nat, NEW e \in Nat, e <= S, M > 1000
  PROVE  /\ S + 2 * M \in Nat /\ e \in 0 .. S + 2 * M /\ ~(S + 2 * M + 12 <= e)
         /\ \A p \in Nat : \A b \in 0 .. M - 1 : p + 12 <= S => p + 12 + b \in p + 1 .. S + 2 * M
  OBVIOUS

(* So NotesFrom() does what its definition says. *)
LEMMA NotesFromIs ==
  ASSUME NEW f, NEW lim \in Nat, Wordy(f), lim <= Size(f)
  PROVE  \A pos \in 0 .. lim :
           NotesFrom(f, lim)[pos] = IF GoesOn(f, lim, pos) THEN NotesFrom(f, lim)[Onwards(f, pos)]
                                    ELSE Answer(f, lim, pos)
  <1> DEFINE hi == Size(f) + 2 * Modulus
             Value(g, pos) == IF GoesOn(f, lim, pos) THEN g[Onwards(f, pos)] ELSE Answer(f, lim, pos)
             Is(g) == g = [pos \in 0 .. hi |-> Value(g, pos)]
  <1>0. /\ Size(f) \in Nat /\ Modulus \in Nat /\ Modulus > 1000
        /\ \A pos \in Nat : pos + 4 <= Size(f) => WordAt(f, pos) \in 0 .. Modulus - 1
        /\ \A x \in Nat : roundup4(x) \in 0 .. Modulus - 1
    BY Words, Rounded, Zenon
  <1>1. hi \in Nat /\ lim \in 0 .. hi /\ ~GoesOn(f, lim, hi)
    <2>1. hi \in Nat /\ lim \in 0 .. hi /\ ~(hi + 12 <= lim)
      BY <1>0, Beyond, Zenon
    <2> HIDE DEF hi
    <2> QED BY <2>1 DEF GoesOn, NHDR
  <1>2. \A pos \in 0 .. hi : GoesOn(f, lim, pos) => Onwards(f, pos) \in pos + 1 .. hi
    <2> SUFFICES ASSUME NEW pos \in 0 .. hi, GoesOn(f, lim, pos) PROVE Onwards(f, pos) \in pos + 1 .. hi
      OBVIOUS
    <2>1. pos \in Nat /\ pos + 12 <= Size(f)
      <3> HIDE DEF hi
      <3> QED BY <1>1 DEF GoesOn, NHDR
    <2>2. WordAt(f, pos) \in Nat /\ WordAt(f, pos + 4) \in Nat
      <3>1. /\ pos + 4 <= Size(f) /\ pos + 4 \in Nat /\ (pos + 4) + 4 <= Size(f)
        <4> HIDE DEF hi
        <4> QED BY <1>0, <2>1
      <3> QED BY <1>0, <2>1, <3>1
    <2> DEFINE b == (roundup4(WordAt(f, pos)) + roundup4(WordAt(f, pos + 4))) % Modulus
    <2>3. b \in 0 .. Modulus - 1
      <3>0. \A x, y, m \in Nat : m > 1000 => (x + y) % m \in 0 .. m - 1
        OBVIOUS
      <3>1. /\ roundup4(WordAt(f, pos)) \in 0 .. Modulus - 1
            /\ roundup4(WordAt(f, pos + 4)) \in 0 .. Modulus - 1
        BY <1>0, <2>2
      <3> HIDE DEF hi
      <3> QED BY <1>0, <3>0, <3>1
    <2> HIDE DEF b
    <2>4. pos + 12 + b \in pos + 1 .. hi
      BY <1>0, <2>1, <2>3, Beyond, Zenon
    <2> QED BY <2>4 DEF Onwards, NHDR, b
  <1>3. \A pos \in 0 .. hi : Answer(f, lim, pos) \in Int
    <2> HIDE DEF hi
    <2> QED BY <1>1 DEF Answer, None, Error, NHDR
  <1>4. \E g : Is(g)
    <2> DEFINE on == {pos \in 0 .. hi : GoesOn(f, lim, pos)}
               next == [pos \in 0 .. hi |-> Onwards(f, pos)]
               answer == [pos \in 0 .. hi |-> Answer(f, lim, pos)]
    <2> HIDE DEF hi
    <2>1. Searching(0, hi, on, next, answer)
      BY <1>1, <1>2, <1>3 DEF Searching
    <2>3. \A n \in 0 .. hi : /\ n \in on <=> GoesOn(f, lim, n)
                             /\ next[n] = Onwards(f, n) /\ answer[n] = Answer(f, lim, n)
      OBVIOUS
    <2> HIDE DEF on, next, answer
    <2>4. PICK g : Computes(g, 0, hi, on, next, answer)
      BY <2>1, SearchExists, Zenon
    <2>5. \A n \in 0 .. hi : g[n] = Value(g, n)
      BY <2>3, <2>4 DEF Computes
    <2>6. g = [n \in 0 .. hi |-> g[n]]
      BY <2>4 DEF Computes
    <2> HIDE DEF Value
    <2>7. g = [n \in 0 .. hi |-> Value(g, n)]
      BY <2>5, <2>6
    <2> QED BY <2>7
  <1>5. NotesFrom(f, lim) = CHOOSE g : Is(g)
    <2> DEFINE Old(g, pos) ==
            IF pos + NHDR > lim THEN None
            ELSE IF pos + NHDR > Size(f) THEN Error
            ELSE LET namesz == WordAt(f, pos)
                     descsz == WordAt(f, pos + 4)
                     name == pos + NHDR
                     nxt == name + ((roundup4(namesz) + roundup4(descsz)) % Modulus)
                 IN IF namesz # 8 \/ WordAt(f, pos + 8) # NT_FREEBSD_FEATURE_CTL THEN g[nxt]
                    ELSE IF name + 8 > Size(f) THEN Error
                    ELSE IF <<WordAt(f, name), WordAt(f, name + 4)>> # FreeBSDName THEN g[nxt]
                    ELSE IF descsz < 4 THEN Error
                    ELSE name + roundup4(namesz)
    <2>1. NotesFrom(f, lim) = CHOOSE g : g = [pos \in 0 .. hi |-> Old(g, pos)]
      BY Zenon DEF NotesFrom
    <2>2. ASSUME NEW g, NEW pos \in 0 .. hi PROVE Old(g, pos) = Value(g, pos)
      <3>1. pos \in Nat /\ Size(f) \in Nat /\ roundup4(8) = 8
        BY <1>1, Words, Rounded
      <3> QED BY <3>1 DEF GoesOn, Onwards, Answer, NHDR
    <2> HIDE DEF Old, Value
    <2>3. ASSUME NEW g PROVE [pos \in 0 .. hi |-> Old(g, pos)] = [pos \in 0 .. hi |-> Value(g, pos)]
      BY <2>2
    <2> QED BY <2>1, <2>3, Zenon
  <1> DEFINE note == NotesFrom(f, lim)
  <1>6. Is(note)
    <2> HIDE DEF Is
    <2> QED BY <1>4, <1>5, Zenon
  <1>7. \A pos \in 0 .. hi : note[pos] = Value(note, pos)
    <2> HIDE DEF Value, note
    <2> QED BY <1>6
  <1> QED BY <1>1, <1>7

(* A size that does not reach 2^32 when it is rounded is rounded as it should be. *)
LEMMA Unwrapped ==
  ASSUME NEW x \in Nat, 4 * Padded(x) < Modulus
  PROVE  roundup4(x) = 4 * Padded(x)
  <1>1. \A m, y \in Nat : m % 4 = 0 /\ 4 * (y \div 4) < m => y < m
    <2> SUFFICES ASSUME NEW m \in Nat, NEW y \in Nat, m % 4 = 0, 4 * (y \div 4) < m PROVE y < m
      OBVIOUS
    <2>1. m = 4 * (m \div 4) /\ y = 4 * (y \div 4) + (y % 4) /\ (y % 4) \in 0 .. 3
      OBVIOUS
    <2>2. (y \div 4) \in Int /\ (m \div 4) \in Int
      OBVIOUS
    <2>3. (y \div 4) < (m \div 4)
      BY <2>1, <2>2
    <2> QED BY <2>1, <2>2, <2>3
  <1>2. x + 3 \in Nat /\ x + 3 < Modulus
    BY <1>1, Rounded DEF Padded
  <1>3. (x + 3) % Modulus = x + 3
    BY <1>2, Rounded
  <1>4. ((x + 3) \div 4) * 4 = 4 * ((x + 3) \div 4)
    OBVIOUS
  <1> QED BY <1>3, <1>4 DEF roundup4, Padded

(* So the next note is where it should be. *)
LEMMA NextNote ==
  ASSUME NEW f, NEW s \in Nat, Wordy(f), s + NHDR <= Size(f), Body(f, s) < Modulus
  PROVE  /\ Body(f, s) \in Nat /\ Onwards(f, s) = s + NHDR + Body(f, s)
         /\ WordAt(f, s) = 8 => Body(f, s) >= 8
         /\ WordAt(f, s + 4) \in Nat
  <1> DEFINE a == WordAt(f, s)
             b == WordAt(f, s + 4)
  <1>1. a \in Nat /\ b \in Nat
    <2>1. s + 12 <= Size(f) /\ Size(f) \in Nat
      BY Words DEF NHDR
    <2>2. s + 4 <= Size(f) /\ s + 4 \in Nat /\ (s + 4) + 4 <= Size(f)
      BY <2>1
    <2>3. \A pos \in Nat : pos + 4 <= Size(f) => WordAt(f, pos) \in 0 .. Modulus - 1
      BY Words, Zenon
    <2>4. \A v \in 0 .. Modulus - 1 : v \in Nat
      BY Rounded
    <2> QED BY <2>2, <2>3, <2>4
  <1> HIDE DEF a, b
  <1>2. Padded(a) \in Nat /\ Padded(b) \in Nat
    BY <1>1 DEF Padded
  <1>3. Body(f, s) = 4 * (Padded(a) + Padded(b))
    BY DEF Body, a, b
  <1>4. 4 * Padded(a) < Modulus /\ 4 * Padded(b) < Modulus
    BY <1>2, <1>3, Rounded
  <1>5. roundup4(a) = 4 * Padded(a) /\ roundup4(b) = 4 * Padded(b)
    BY <1>1, <1>4, Unwrapped
  <1>6. roundup4(a) + roundup4(b) = Body(f, s) /\ Body(f, s) \in Nat
    BY <1>2, <1>3, <1>5
  <1>7. (roundup4(a) + roundup4(b)) % Modulus = Body(f, s)
    BY <1>6, Rounded
  <1>8. a = 8 => Padded(a) = 2
    BY DEF Padded
  <1>9. a = 8 => Body(f, s) >= 8
    BY <1>2, <1>3, <1>8
  <1> QED BY <1>1, <1>6, <1>7, <1>9 DEF Onwards, a, b

(* Notes that fill the bytes up to lim. *)
Chain(f, notes, lim) ==
  /\ lim \in Nat /\ notes \in SUBSET Nat /\ lim <= Size(f)
  /\ \A s \in notes : /\ s + NHDR <= lim /\ Body(f, s) < Modulus
                      /\ s + NHDR + Body(f, s) \in notes \cup {lim}
                      /\ \A r \in notes : r <= s \/ s + NHDR + Body(f, s) <= r
                      /\ Sought(f, s) => WordAt(f, s + 4) >= 4

(* What the search answers at a note, or where it goes on. *)
LEMMA AtNote ==
  ASSUME NEW f, NEW notes, NEW lim, Wordy(f), Chain(f, notes, lim), NEW s \in notes
  PROVE  /\ s \in 0 .. lim /\ Body(f, s) \in Nat
         /\ s + NHDR + Body(f, s) \in s + 1 .. lim
         /\ NotesFrom(f, lim)[s] = IF Sought(f, s) THEN s + NHDR + 8
                                  ELSE NotesFrom(f, lim)[s + NHDR + Body(f, s)]
  <1>1. /\ s \in Nat /\ lim \in Nat /\ lim <= Size(f) /\ s + 12 <= lim
        /\ Body(f, s) < Modulus /\ (Sought(f, s) => WordAt(f, s + 4) >= 4)
        /\ s + NHDR + Body(f, s) \in notes \cup {lim}
    BY DEF Chain, NHDR
  <1>2. Size(f) \in Nat
    BY Words
  <1>3. s \in 0 .. lim /\ s + NHDR <= Size(f)
    BY <1>1, <1>2 DEF NHDR
  <1>4. /\ Body(f, s) \in Nat /\ Onwards(f, s) = s + NHDR + Body(f, s)
        /\ WordAt(f, s) = 8 => Body(f, s) >= 8
        /\ WordAt(f, s + 4) \in Nat
    BY <1>1, <1>3, NextNote
  <1>5. \A r \in notes : r \in Nat /\ r + 12 <= lim
    BY DEF Chain, NHDR
  <1>6. s + NHDR + Body(f, s) <= lim
    BY <1>1, <1>4, <1>5 DEF NHDR
  <1>7. WordAt(f, s) = 8 => s + NHDR + 8 <= Size(f)
    BY <1>1, <1>2, <1>4, <1>6 DEF NHDR
  <1>8. GoesOn(f, lim, s) <=> ~Sought(f, s)
    BY <1>1, <1>2, <1>3, <1>7 DEF GoesOn, Sought, NHDR
  <1>9. Sought(f, s) => Answer(f, lim, s) = s + NHDR + 8
    <2>1. Sought(f, s) => s + NHDR + 8 <= Size(f) /\ WordAt(f, s + 4) >= 4
      BY <1>1, <1>7 DEF Sought
    <2> QED BY <1>1, <1>2, <1>3, <1>4, <2>1 DEF Answer, NHDR
  <1>10. NotesFrom(f, lim)[s] = IF GoesOn(f, lim, s) THEN NotesFrom(f, lim)[Onwards(f, s)]
                               ELSE Answer(f, lim, s)
    BY <1>1, <1>3, NotesFromIs, Zenon
  <1>11. s + NHDR + Body(f, s) \in s + 1 .. lim
    BY <1>1, <1>4, <1>6 DEF NHDR
  <1> QED BY <1>3, <1>4, <1>8, <1>9, <1>10, <1>11, Zenon

LEMMA AtEnd ==
  ASSUME NEW f, NEW notes, NEW lim, Wordy(f), Chain(f, notes, lim)
  PROVE  NotesFrom(f, lim)[lim] = None
  <1>1. lim \in Nat /\ lim <= Size(f) /\ lim \in 0 .. lim
    BY DEF Chain
  <1>2. ~GoesOn(f, lim, lim) /\ Answer(f, lim, lim) = None
    BY <1>1 DEF GoesOn, Answer, NHDR
  <1> QED BY <1>1, <1>2, NotesFromIs, Zenon

(***************************************************************************)
(* From one of the notes on, the search finds the first that is sought, or *)
(* nothing if there is none: by induction on what is left, a least         *)
(* counterexample.                                                         *)
(***************************************************************************)
SoughtFrom(f, notes, pos) == {s \in notes : pos <= s /\ Sought(f, s)}

Finds(f, notes, lim, pos) ==
  \/ SoughtFrom(f, notes, pos) = {} /\ NotesFrom(f, lim)[pos] = None
  \/ \E s \in SoughtFrom(f, notes, pos) :
       /\ NotesFrom(f, lim)[pos] = s + NHDR + 8
       /\ \A r \in SoughtFrom(f, notes, pos) : s <= r

LEMMA FirstSought ==
  ASSUME NEW f, NEW notes, NEW lim, Wordy(f), Chain(f, notes, lim)
  PROVE  \A pos \in notes \cup {lim} : Finds(f, notes, lim, pos)
  <1>1. lim \in Nat /\ notes \subseteq Nat
    BY DEF Chain
  <1>2. Finds(f, notes, lim, lim)
    <2>1. \A s \in notes : s \in Nat /\ s + 12 <= lim
      BY DEF Chain, NHDR
    <2>2. \A s \in notes : ~(lim <= s)
      BY <1>1, <2>1
    <2>3. SoughtFrom(f, notes, lim) = {}
      BY <2>2, Zenon DEF SoughtFrom
    <2> QED BY <2>3, AtEnd, Zenon DEF Finds
  <1>3. ASSUME NEW pos \in notes, Finds(f, notes, lim, pos + NHDR + Body(f, pos))
        PROVE  Finds(f, notes, lim, pos)
    <2> DEFINE nxt == pos + NHDR + Body(f, pos)
    <2>1. /\ pos \in Nat /\ nxt \in Nat /\ pos < nxt
          /\ NotesFrom(f, lim)[pos] = IF Sought(f, pos) THEN pos + NHDR + 8
                                     ELSE NotesFrom(f, lim)[nxt]
      <3>1. pos \in 0 .. lim /\ nxt \in pos + 1 .. lim
        BY AtNote
      <3>2. NotesFrom(f, lim)[pos] = IF Sought(f, pos) THEN pos + NHDR + 8
                                   ELSE NotesFrom(f, lim)[nxt]
        BY AtNote
      <3> HIDE DEF nxt
      <3> QED BY <1>1, <3>1, <3>2
    <2>2. \A r \in notes : r \in Nat /\ (r <= pos \/ nxt <= r)
      BY DEF Chain
    <2> HIDE DEF nxt
    <2>3. CASE Sought(f, pos)
      BY <2>1, <2>2, <2>3 DEF Finds, SoughtFrom
    <2>4. CASE ~Sought(f, pos)
      <3>1. SoughtFrom(f, notes, pos) = SoughtFrom(f, notes, nxt)
        <4>1. \A r \in notes : Sought(f, r) => (pos <= r <=> nxt <= r)
          BY <2>1, <2>2, <2>4
        <4> QED BY <4>1, Zenon DEF SoughtFrom
      <3>2. Finds(f, notes, lim, nxt)
        BY <1>3 DEF nxt
      <3>3. NotesFrom(f, lim)[pos] = NotesFrom(f, lim)[nxt]
        BY <2>1, <2>4
      <3> QED BY <3>1, <3>2, <3>3, Zenon DEF Finds
    <2> QED BY <2>3, <2>4
  <1> DEFINE T == {k \in 0 .. lim : \E pos \in notes \cup {lim} :
                                    pos = lim - k /\ ~Finds(f, notes, lim, pos)}
  <1>4. T = {}
    <2> SUFFICES ASSUME T # {} PROVE FALSE
      OBVIOUS
    <2>1. PICK k \in T : \A j \in T : k <= j
      <3>1. T \subseteq Nat
        OBVIOUS
      <3> HIDE DEF T
      <3> QED BY <3>1, Least
    <2>2. PICK pos \in notes \cup {lim} : pos = lim - k /\ ~Finds(f, notes, lim, pos)
      OBVIOUS
    <2>3. pos \in notes
      BY <1>2, <2>2
    <2> DEFINE nxt == pos + NHDR + Body(f, pos)
    <2>4. nxt \in pos + 1 .. lim /\ nxt \in notes \cup {lim} /\ pos \in Nat
      <3>1. nxt \in pos + 1 .. lim
        BY <2>3, AtNote, Zenon
      <3>2. nxt \in notes \cup {lim}
        BY <2>3, Zenon DEF Chain
      <3>3. pos \in Nat
        BY <1>1, <2>3
      <3> QED BY <3>1, <3>2, <3>3, Zenon
    <2>5. ~Finds(f, notes, lim, nxt)
      BY <1>3, <2>2, <2>3
    <2> HIDE DEF nxt
    <2>6. lim - nxt \in 0 .. lim /\ nxt = lim - (lim - nxt) /\ lim - nxt < k
      BY <1>1, <2>2, <2>4
    <2>7. lim - nxt \in T
      BY <2>4, <2>5, <2>6
    <2>8. k \in Nat /\ lim - nxt \in Nat
      BY <1>1, <2>6
    <2>9. k <= lim - nxt
      <3> HIDE DEF T
      <3> QED BY <2>1, <2>7
    <2> HIDE DEF T
    <2> QED BY <2>6, <2>8, <2>9
  <1>5. \A pos \in notes \cup {lim} : lim - pos \in 0 .. lim /\ pos = lim - (lim - pos)
    <2>1. \A s \in notes : s \in Nat /\ s + 12 <= lim
      BY DEF Chain, NHDR
    <2> QED BY <1>1, <2>1
  <1> QED BY <1>4, <1>5

(* A search that goes on from each of lo .. m - 1 to the next answers what it does at m. *)
LEMMA SearchSkips ==
  ASSUME NEW g, NEW lo \in Nat, NEW m \in Nat, lo <= m,
         \A n \in lo .. m - 1 : g[n] = g[n + 1]
  PROVE  g[lo] = g[m]
  <1> DEFINE T == {k \in 0 .. m - lo : g[m - k] # g[m]}
  <1>1. T = {}
    <2> SUFFICES ASSUME T # {} PROVE FALSE
      OBVIOUS
    <2>1. PICK k \in T : \A j \in T : k <= j
      <3>1. T \subseteq Nat
        OBVIOUS
      <3> HIDE DEF T
      <3> QED BY <3>1, Least
    <2>2. k \in 0 .. m - lo /\ g[m - k] # g[m] /\ k # 0
      <3>1. k = 0 => m - k = m
        OBVIOUS
      <3> QED BY <3>1
    <2>3. k - 1 \in 0 .. m - lo /\ k - 1 \notin T
      BY <2>1, <2>2
    <2>4. g[m - (k - 1)] = g[m]
      BY <2>3
    <2>5. m - k \in lo .. m - 1 /\ (m - k) + 1 = m - (k - 1)
      BY <2>2
    <2>6. g[m - k] = g[(m - k) + 1]
      BY <2>5
    <2> QED BY <2>2, <2>4, <2>5, <2>6
  <1>2. m - lo \in 0 .. m - lo /\ m - (m - lo) = lo
    OBVIOUS
  <1> QED BY <1>1, <1>2

(* What the search of segment i answers, and how many there are. *)
Found(f, i) == NotesFrom(f, f.phdrs[i].off + f.phdrs[i].filesz)[f.phdrs[i].off]

Segments(f) == Len(f.phdrs)

(* A proper file, in terms of its segments. *)
LEMMA ProperParts ==
  ASSUME NEW f, Proper(f)
  PROVE  /\ Wordy(f) /\ Segments(f) \in Nat
         /\ \A i \in 1 .. Segments(f) : f.phdrs[i].type = PT_NOTE =>
              LET ph == f.phdrs[i]
              IN /\ Chain(f, ph.notes, ph.off + ph.filesz)
                 /\ ph.off \in ph.notes \cup {ph.off + ph.filesz}
                 /\ \A s \in ph.notes : ph.off <= s
  <1> DEFINE P == f.phdrs
             R == [type : Nat, off : Nat, filesz : Nat, notes : SUBSET Nat]
  <1>1. \A S, s : s \in Seq(S) => /\ Len(s) \in Nat /\ DOMAIN s = 1 .. Len(s)
                                  /\ \A i \in 1 .. Len(s) : s[i] \in S
    OBVIOUS
  <1>2. P \in Seq(R) /\ \A i \in DOMAIN P : P[i].type = PT_NOTE => NoteSegment(f, P[i])
    BY Zenon DEF Proper
  <1>3. /\ Len(P) \in Nat /\ DOMAIN P = 1 .. Len(P)
        /\ \A i \in 1 .. Len(P) : P[i] \in R
    BY <1>1, <1>2, Zenon
  <1>4. ASSUME NEW ph \in R, NoteSegment(f, ph)
        PROVE  /\ Chain(f, ph.notes, ph.off + ph.filesz)
               /\ ph.off \in ph.notes \cup {ph.off + ph.filesz}
               /\ \A s \in ph.notes : ph.off <= s
    <2>1. ph.off + ph.filesz \in Nat /\ ph.notes \in SUBSET Nat
      OBVIOUS
    <2> QED BY <1>4, <2>1, Zenon DEF NoteSegment, Chain
  <1>5. Wordy(f)
    BY Zenon DEF Proper, Wordy
  <1> HIDE DEF P, R
  <1>6. ASSUME NEW i \in 1 .. Len(P), P[i].type = PT_NOTE
        PROVE  /\ Chain(f, P[i].notes, P[i].off + P[i].filesz)
               /\ P[i].off \in P[i].notes \cup {P[i].off + P[i].filesz}
               /\ \A s \in P[i].notes : P[i].off <= s
    BY <1>2, <1>3, <1>4, <1>6, Zenon
  <1> QED BY <1>3, <1>5, <1>6, Zenon DEF P, Segments

(* The notes of one segment. *)
LEMMA SegmentFinds ==
  ASSUME NEW f, Proper(f), NEW i \in 1 .. Segments(f), f.phdrs[i].type = PT_NOTE
  PROVE  \/ SoughtIn(f, i) = {} /\ Found(f, i) = None
         \/ \E s \in SoughtIn(f, i) : /\ Found(f, i) = s + NHDR + 8
                                      /\ \A r \in SoughtIn(f, i) : s <= r
  <1> DEFINE ph == f.phdrs[i]
             lim == ph.off + ph.filesz
  <1>1. /\ Wordy(f) /\ Chain(f, ph.notes, lim) /\ ph.off \in ph.notes \cup {lim}
        /\ \A s \in ph.notes : ph.off <= s
    BY ProperParts, Zenon
  <1>2. Finds(f, ph.notes, lim, ph.off)
    <2> HIDE DEF ph, lim
    <2> QED BY <1>1, FirstSought, Zenon
  <1>3. SoughtFrom(f, ph.notes, ph.off) = SoughtIn(f, i)
    BY <1>1, Zenon DEF SoughtFrom, SoughtIn
  <1>4. Found(f, i) = NotesFrom(f, lim)[ph.off]
    BY DEF Found
  <1> HIDE DEF ph, lim
  <1> QED BY <1>2, <1>3, <1>4, Zenon DEF Finds

(* What a note that is sought looks like: its descriptor lies within the file. *)
LEMMA SoughtWithin ==
  ASSUME NEW f, Proper(f), NEW i \in 1 .. Segments(f), NEW s \in SoughtIn(f, i)
  PROVE  /\ s \in Nat /\ f.phdrs[i].type = PT_NOTE
         /\ s + NHDR + 8 + 4 <= Size(f)
  <1> DEFINE ph == f.phdrs[i]
             lim == ph.off + ph.filesz
  <1>1. s \in ph.notes /\ ph.type = PT_NOTE /\ Sought(f, s)
    BY DEF SoughtIn
  <1>2. Wordy(f) /\ Chain(f, ph.notes, lim)
    BY <1>1, ProperParts, Zenon
  <1> HIDE DEF ph, lim
  <1>3. /\ s \in Nat /\ lim \in Nat /\ lim <= Size(f) /\ s + NHDR <= lim /\ Body(f, s) < Modulus
        /\ WordAt(f, s + 4) >= 4
    BY <1>1, <1>2 DEF Chain
  <1>4. s + NHDR + Body(f, s) \in s + 1 .. lim
    BY <1>1, <1>2, AtNote, Zenon
  <1>5. Size(f) \in Nat
    BY <1>2, Words
  <1>6. s + NHDR <= Size(f)
    BY <1>3, <1>5 DEF NHDR
  <1>7. WordAt(f, s + 4) \in Nat /\ WordAt(f, s) = 8
    BY <1>1, <1>2, <1>3, <1>6, NextNote DEF Sought
  <1>8. Body(f, s) >= 12 /\ Body(f, s) \in Nat
    <2>1. Padded(8) = 2
      BY DEF Padded
    <2>2. \A w \in Nat : w >= 4 => Padded(w) \in Nat /\ Padded(w) >= 1
      BY DEF Padded
    <2>3. Padded(WordAt(f, s + 4)) \in Nat /\ Padded(WordAt(f, s + 4)) >= 1
      BY <1>3, <1>7, <2>2
    <2>4. Body(f, s) = 4 * (2 + Padded(WordAt(f, s + 4)))
      BY <1>7, <2>1 DEF Body
    <2> QED BY <2>3, <2>4
  <1>9. s + 12 + 8 + 4 <= Size(f)
    BY <1>3, <1>4, <1>5, <1>8 DEF NHDR
  <1> QED BY <1>1, <1>3, <1>9 DEF NHDR, ph

(***************************************************************************)
(* find_feature_ctl_desc() finds the descriptor of the first feature       *)
(* control note, and nothing where there is none, whatever other notes and *)
(* segments there are and however they are padded.                         *)
(***************************************************************************)
THEOREM SearchIsRight ==
  ASSUME NEW f, Proper(f)
  PROVE  find_feature_ctl_desc(f) = f.desc
  <1> DEFINE n == Segments(f)
             hi == n + 1
             Passed(i) == i <= n /\ (f.phdrs[i].type # PT_NOTE \/ Found(f, i) = None)
             Gives(i) == IF i > n THEN None ELSE Found(f, i)
             Value(g, i) == IF Passed(i) THEN g[i + 1] ELSE Gives(i)
             Is(g) == g = [i \in 1 .. hi |-> Value(g, i)]
  <1>1. n \in Nat /\ hi \in Nat /\ 1 <= hi /\ hi \in 1 .. hi
    BY ProperParts
  <1>2. \A i \in 1 .. hi : ~Passed(i) => Gives(i) \in Int
    <2> SUFFICES ASSUME NEW i \in 1 .. hi, ~Passed(i), i <= n PROVE Found(f, i) \in Int
      BY <1>1 DEF None
    <2>1. i \in 1 .. Segments(f) /\ f.phdrs[i].type = PT_NOTE /\ Found(f, i) # None
      BY <1>1
    <2>2. PICK s \in SoughtIn(f, i) : Found(f, i) = s + NHDR + 8
      BY <2>1, SegmentFinds
    <2>3. s \in Nat
      BY <2>1, SoughtWithin
    <2> QED BY <2>2, <2>3 DEF NHDR
  <1>3. \E g : Is(g)
    <2> DEFINE on == {i \in 1 .. hi : Passed(i)}
               next == [i \in 1 .. hi |-> i + 1]
               answer == [i \in 1 .. hi |-> IF Passed(i) THEN 0 ELSE Gives(i)]
    <2>0. hi \notin on /\ \A i \in 1 .. hi : Passed(i) => i + 1 \in i + 1 .. hi
      BY <1>1
    <2> HIDE DEF hi, Passed, Gives
    <2>1. Searching(1, hi, on, next, answer)
      BY <1>1, <1>2, <2>0 DEF Searching
    <2>2. \A i \in 1 .. hi : /\ i \in on <=> Passed(i)
                             /\ next[i] = i + 1 /\ (~Passed(i) => answer[i] = Gives(i))
      OBVIOUS
    <2> HIDE DEF on, next, answer
    <2>3. PICK g : Computes(g, 1, hi, on, next, answer)
      BY <2>1, SearchExists, Zenon
    <2>4. \A i \in 1 .. hi : g[i] = Value(g, i)
      BY <2>2, <2>3 DEF Computes
    <2>5. g = [i \in 1 .. hi |-> g[i]]
      BY <2>3 DEF Computes
    <2> HIDE DEF Value
    <2>6. g = [i \in 1 .. hi |-> Value(g, i)]
      BY <2>4, <2>5
    <2> QED BY <2>6
  <1> DEFINE seg == CHOOSE g : Is(g)
  <1>4. find_feature_ctl_desc(f) = seg[1]
    <2> DEFINE Old(g, i) ==
            IF i > Len(f.phdrs) THEN None
            ELSE LET ph == f.phdrs[i]
                     found == NotesFrom(f, ph.off + ph.filesz)[ph.off]
                 IN IF ph.type # PT_NOTE \/ found = None THEN g[i + 1] ELSE found
               old == CHOOSE g : g = [i \in 1 .. Len(f.phdrs) + 1 |-> Old(g, i)]
    <2>1. find_feature_ctl_desc(f) = old[1]
      BY Zenon DEF find_feature_ctl_desc
    <2>2. Len(f.phdrs) = n
      BY DEF Segments
    <2>3. ASSUME NEW g, NEW i \in 1 .. hi PROVE Old(g, i) = Value(g, i)
      BY <1>1, <2>2 DEF Found
    <2> HIDE DEF Old, Value
    <2>4. ASSUME NEW g PROVE [i \in 1 .. hi |-> Old(g, i)] = [i \in 1 .. hi |-> Value(g, i)]
      BY <2>3
    <2>5. old = seg
      BY <2>2, <2>4, Zenon
    <2> QED BY <2>1, <2>5, Zenon
  <1>5. Is(seg)
    <2> HIDE DEF Is
    <2> QED BY <1>3, Zenon
  <1>6. \A i \in 1 .. hi : seg[i] = Value(seg, i)
    <2> HIDE DEF Value, seg
    <2> QED BY <1>5
  <1> HIDE DEF seg
  <1>7. ASSUME NEW i \in 1 .. n, SoughtIn(f, i) = {} PROVE Passed(i) /\ i \in 1 .. hi
    BY <1>1, <1>7, SegmentFinds
  <1>8. ASSUME NEW m \in 1 .. hi, \A i \in 1 .. m - 1 : SoughtIn(f, i) = {} PROVE seg[1] = Gives(m) \/ Passed(m)
    <2>1. \A i \in 1 .. m - 1 : seg[i] = seg[i + 1]
      BY <1>1, <1>6, <1>7, <1>8
    <2>2. seg[1] = seg[m]
      BY <1>1, <2>1, SearchSkips
    <2> QED BY <1>6, <2>2
  <1>9. CASE f.desc = None /\ \A i \in 1 .. n : SoughtIn(f, i) = {}
    <2>1. seg[1] = Gives(hi) \/ Passed(hi)
      BY <1>1, <1>8, <1>9
    <2>2. Gives(hi) = None /\ ~Passed(hi)
      BY <1>1
    <2> QED BY <1>4, <1>9, <2>1, <2>2
  <1>10. ASSUME NEW i \in 1 .. n, \A j \in 1 .. i - 1 : SoughtIn(f, j) = {},
                NEW s \in SoughtIn(f, i), f.desc = s + NHDR + 8,
                \A r \in SoughtIn(f, i) : s <= r
         PROVE  seg[1] = f.desc
    <2>1. f.phdrs[i].type = PT_NOTE /\ \A r \in SoughtIn(f, i) : r \in Nat
      BY SoughtWithin
    <2>2. PICK r \in SoughtIn(f, i) : /\ Found(f, i) = r + NHDR + 8
                                      /\ \A q \in SoughtIn(f, i) : r <= q
      BY <2>1, SegmentFinds
    <2>3. r = s
      BY <1>10, <2>1, <2>2
    <2>4. Found(f, i) = f.desc /\ Found(f, i) # None
      BY <1>10, <2>1, <2>2, <2>3 DEF NHDR, None
    <2>5. ~Passed(i) /\ Gives(i) = f.desc /\ i \in 1 .. hi
      BY <1>1, <2>1, <2>4
    <2>6. seg[1] = Gives(i) \/ Passed(i)
      BY <1>8, <1>10, <2>5
    <2> QED BY <2>5, <2>6
  <1>11. DOMAIN f.phdrs = 1 .. n
    <2>1. \A S, t : t \in Seq(S) => DOMAIN t = 1 .. Len(t)
      OBVIOUS
    <2> QED BY <2>1, Zenon DEF Proper, Segments
  <1>12. \/ f.desc = None /\ \A i \in 1 .. n : SoughtIn(f, i) = {}
         \/ \E i \in 1 .. n :
              /\ \A j \in 1 .. i - 1 : SoughtIn(f, j) = {}
              /\ \E s \in SoughtIn(f, i) : /\ f.desc = s + NHDR + 8
                                          /\ \A r \in SoughtIn(f, i) : s <= r
    BY <1>11, Zenon DEF Proper
  <1> HIDE DEF n
  <1> QED BY <1>4, <1>9, <1>10, <1>12, Zenon

(* One of the two bits is set, and the other bits of new are those of old. *)
OneBit(old, new) ==
  LET Disable(v) == HasBit(v, NT_FREEBSD_FCTL_CHERI_REVOKE_DISABLE)
      Enable(v) == HasBit(v, NT_FREEBSD_FCTL_CHERI_REVOKE_ENABLE)
      Others(v) == v - (IF Disable(v) THEN NT_FREEBSD_FCTL_CHERI_REVOKE_DISABLE ELSE 0)
                     - (IF Enable(v) THEN NT_FREEBSD_FCTL_CHERI_REVOKE_ENABLE ELSE 0)
  IN Others(new) = Others(old) /\ Enable(new) # Disable(new)

(* Words without the highest bit and bit 5, E being the highest. *)
Neither(k) == {64 * a + c : a \in 0 .. k - 1, c \in 0 .. 31}

LEMMA Bits ==
  ASSUME NEW E \in Nat, NEW k \in Nat, E = 64 * k, k > 0
  PROVE  /\ \A x \in Neither(k) :
              /\ x \in Nat
              /\ ~HasBit(x, 32) /\ HasBit(x + 32, 32) /\ ~HasBit(E + x, 32) /\ HasBit(E + x + 32, 32)
              /\ ~HasBit(x, E) /\ ~HasBit(x + 32, E) /\ HasBit(E + x, E) /\ HasBit(E + x + 32, E)
         /\ \A v \in 0 .. 2 * E - 1 : \E x \in Neither(k) :
              v = x \/ v = x + 32 \/ v = E + x \/ v = E + x + 32
  <1>1. ASSUME NEW x \in Neither(k)
        PROVE  /\ x \in Nat
               /\ ~HasBit(x, 32) /\ HasBit(x + 32, 32) /\ ~HasBit(E + x, 32) /\ HasBit(E + x + 32, 32)
               /\ ~HasBit(x, E) /\ ~HasBit(x + 32, E) /\ HasBit(E + x, E) /\ HasBit(E + x + 32, E)
    <2>1. PICK a \in 0 .. k - 1, c \in 0 .. 31 : x = 64 * a + c
      BY DEF Neither
    <2>2. x \in 0 .. E - 1 /\ x + 32 \in 0 .. E - 1
      BY <2>1
    <2>3. x \div 32 = 2 * a /\ (x + 32) \div 32 = 2 * a + 1
      BY <2>1
    <2>4. (E + x) \div 32 = 2 * (k + a) /\ (E + x + 32) \div 32 = 2 * (k + a) + 1
      BY <2>1
    <2>5. \A i \in Nat : (2 * i) % 2 = 0 /\ (2 * i + 1) % 2 = 1
      OBVIOUS
    <2>6. a \in Nat /\ k + a \in Nat
      OBVIOUS
    <2>7. ~HasBit(x, 32) /\ HasBit(x + 32, 32) /\ ~HasBit(E + x, 32) /\ HasBit(E + x + 32, 32)
      BY <2>3, <2>4, <2>5, <2>6 DEF HasBit
    <2>8. \A y \in 0 .. E - 1 : ~HasBit(y, E) /\ HasBit(E + y, E)
      <3> TAKE y \in 0 .. E - 1
      <3>1. y \div E = 0 /\ (E + y) \div E = 1
        OBVIOUS
      <3> QED BY <3>1 DEF HasBit
    <2>9. E + (x + 32) = E + x + 32 /\ x \in Nat
      BY <2>2
    <2> QED BY <2>2, <2>7, <2>8, <2>9
  <1>2. ASSUME NEW v \in 0 .. E - 1 PROVE \E x \in Neither(k) : v = x \/ v = x + 32
    <2>1. v \div 64 \in 0 .. k - 1 /\ v % 64 \in 0 .. 63 /\ v = 64 * (v \div 64) + (v % 64)
      OBVIOUS
    <2>2. CASE v % 64 < 32
      <3>1. v % 64 \in 0 .. 31
        BY <2>1, <2>2
      <3> QED BY <2>1, <3>1 DEF Neither
    <2>3. CASE v % 64 >= 32
      <3>1. (v % 64) - 32 \in 0 .. 31 /\ v = (64 * (v \div 64) + ((v % 64) - 32)) + 32
        BY <2>1, <2>3
      <3>2. 64 * (v \div 64) + ((v % 64) - 32) \in Neither(k)
        BY <2>1, <3>1 DEF Neither
      <3> QED BY <3>1, <3>2
    <2> QED BY <2>1, <2>2, <2>3
  <1>3. ASSUME NEW v \in 0 .. 2 * E - 1
        PROVE  \E x \in Neither(k) : v = x \/ v = x + 32 \/ v = E + x \/ v = E + x + 32
    <2>1. CASE v < E
      <3>1. v \in 0 .. E - 1
        BY <2>1
      <3> QED BY <1>2, <3>1, Zenon
    <2>2. CASE v >= E
      <3>1. v - E \in 0 .. E - 1
        BY <2>2
      <3>2. PICK x \in Neither(k) : v - E = x \/ v - E = x + 32
        BY <1>2, <3>1, Zenon
      <3>3. x \in Nat
        BY <1>1
      <3>4. v = E + x \/ v = E + x + 32
        BY <3>2, <3>3
      <3> QED BY <3>4, Zenon
    <2> QED BY <2>1, <2>2
  <1> QED BY <1>1, <1>3

(* What main() stores: one bit is set, the other cleared, and nothing else changes. *)
LEMMA FeaturesIs ==
  ASSUME NEW v \in 0 .. Modulus - 1
  PROVE  /\ OneBit(v, Features(v, NT_FREEBSD_FCTL_CHERI_REVOKE_ENABLE,
                               NT_FREEBSD_FCTL_CHERI_REVOKE_DISABLE))
         /\ OneBit(v, Features(v, NT_FREEBSD_FCTL_CHERI_REVOKE_DISABLE,
                               NT_FREEBSD_FCTL_CHERI_REVOKE_ENABLE))
  <1> DEFINE E == Modulus \div 2
             k == Modulus \div 128
  <1>1. E \in Nat /\ k \in Nat /\ k > 0 /\ E = 64 * k /\ Modulus = 2 * E
    BY ModulusAssumption
  <1>2. NT_FREEBSD_FCTL_CHERI_REVOKE_DISABLE = 32 /\ NT_FREEBSD_FCTL_CHERI_REVOKE_ENABLE = E
    BY DEF NT_FREEBSD_FCTL_CHERI_REVOKE_DISABLE, NT_FREEBSD_FCTL_CHERI_REVOKE_ENABLE
  <1> HIDE DEF E, k
  <1>3. v \in 0 .. 2 * E - 1
    BY <1>1
  <1>4. PICK x \in Neither(k) : v = x \/ v = x + 32 \/ v = E + x \/ v = E + x + 32
    <2>1. \A w \in 0 .. 2 * E - 1 : \E x \in Neither(k) :
            w = x \/ w = x + 32 \/ w = E + x \/ w = E + x + 32
      BY <1>1, Bits, Zenon
    <2> QED BY <1>3, <2>1, Zenon
  <1>5. /\ x \in Nat
        /\ ~HasBit(x, 32) /\ HasBit(x + 32, 32) /\ ~HasBit(E + x, 32) /\ HasBit(E + x + 32, 32)
        /\ ~HasBit(x, E) /\ ~HasBit(x + 32, E) /\ HasBit(E + x, E) /\ HasBit(E + x + 32, E)
    BY <1>1, Bits, Zenon
  <1>6. /\ (x + 32) - 32 = x /\ (E + x + 32) - 32 = E + x /\ x + E = E + x /\ x + 32 + E = E + x + 32
        /\ (E + x) - E = x /\ (E + x + 32) - E = x + 32
        /\ x - 0 - 0 = x /\ (x + 32) - 32 - 0 = x /\ (E + x) - 0 - E = x /\ (E + x + 32) - 32 - E = x
    BY <1>1, <1>5
  <1>7. Features(v, E, 32) = E + x /\ Features(v, 32, E) = x + 32
    <2>1. ASSUME NEW y, NEW set, NEW clear, HasBit(y, clear)
          PROVE  Features(y, set, clear) = IF HasBit(y - clear, set) THEN y - clear
                                           ELSE (y - clear) + set
      BY <2>1, Zenon DEF Features
    <2>2. ASSUME NEW y, NEW set, NEW clear, ~HasBit(y, clear)
          PROVE  Features(y, set, clear) = IF HasBit(y, set) THEN y ELSE y + set
      BY <2>2, Zenon DEF Features
    <2>3. Features(x, E, 32) = E + x /\ Features(x, 32, E) = x + 32
      BY <1>5, <1>6, <2>2
    <2>4. Features(x + 32, E, 32) = E + x /\ Features(x + 32, 32, E) = x + 32
      BY <1>5, <1>6, <2>1, <2>2
    <2>5. Features(E + x, E, 32) = E + x /\ Features(E + x, 32, E) = x + 32
      <3> DEFINE y == E + x
      <3>1. HasBit(y, E) /\ ~HasBit(y, 32) /\ y - E = x /\ ~HasBit(x, 32)
        BY <1>5, <1>6, Zenon
      <3> HIDE DEF y
      <3>2. Features(y, E, 32) = y /\ Features(y, 32, E) = x + 32
        BY <2>1, <2>2, <3>1
      <3> QED BY <3>2 DEF y
    <2>6. Features(E + x + 32, E, 32) = E + x /\ Features(E + x + 32, 32, E) = x + 32
      <3> DEFINE y == E + x + 32
                 z == E + x
                 w == x + 32
      <3>1. HasBit(y, E) /\ HasBit(y, 32) /\ y - E = w /\ y - 32 = z /\ HasBit(z, E) /\ HasBit(w, 32)
        BY <1>5, <1>6, Zenon
      <3> HIDE DEF y, z, w
      <3>2. Features(y, E, 32) = z /\ Features(y, 32, E) = w
        BY <2>1, <3>1
      <3> QED BY <3>2 DEF y, z, w
    <2> QED BY <1>4, <2>3, <2>4, <2>5, <2>6, Zenon
  <1> DEFINE Others(y) == y - (IF HasBit(y, 32) THEN 32 ELSE 0) - (IF HasBit(y, E) THEN E ELSE 0)
  <1>8. Others(x) = x /\ Others(x + 32) = x /\ Others(E + x) = x /\ Others(E + x + 32) = x
    <2>1. ASSUME NEW y
          PROVE  /\ ~HasBit(y, 32) /\ ~HasBit(y, E) => Others(y) = y - 0 - 0
                 /\ HasBit(y, 32) /\ ~HasBit(y, E) => Others(y) = y - 32 - 0
                 /\ ~HasBit(y, 32) /\ HasBit(y, E) => Others(y) = y - 0 - E
                 /\ HasBit(y, 32) /\ HasBit(y, E) => Others(y) = y - 32 - E
      BY Zenon
    <2> HIDE DEF Others
    <2>2. Others(x) = x - 0 - 0 /\ Others(x + 32) = (x + 32) - 32 - 0
      BY <1>5, <2>1
    <2>3. Others(E + x) = (E + x) - 0 - E
      BY <1>5, <2>1, Zenon
    <2>4. Others(E + x + 32) = (E + x + 32) - 32 - E
      <3> DEFINE y == E + x + 32
      <3>1. HasBit(y, E) /\ HasBit(y, 32)
        BY <1>5
      <3> HIDE DEF y
      <3>2. Others(y) = y - 32 - E
        BY <2>1, <3>1
      <3> QED BY <3>2, Zenon DEF y
    <2> QED BY <1>6, <2>2, <2>3, <2>4, Zenon
  <1>9. Others(v) = x
    <2> HIDE DEF Others
    <2> QED BY <1>4, <1>8, Zenon
  <1>10. OneBit(v, E + x) /\ OneBit(v, x + 32)
    BY <1>2, <1>5, <1>8, <1>9, Zenon DEF OneBit
  <1> QED BY <1>2, <1>7, <1>10, Zenon

(* The descriptor lies within the file. *)
LEMMA DescWithin ==
  ASSUME NEW f, Proper(f), f.desc # None
  PROVE  f.desc \in Nat /\ f.desc + 4 <= Size(f)
  <1>1. PICK i \in DOMAIN f.phdrs : \E s \in SoughtIn(f, i) : f.desc = s + NHDR + 8
    BY Zenon DEF Proper
  <1>2. PICK s \in SoughtIn(f, i) : f.desc = s + NHDR + 8
    BY <1>1
  <1>3. DOMAIN f.phdrs = 1 .. Segments(f)
    <2>1. \A S, t : t \in Seq(S) => DOMAIN t = 1 .. Len(t)
      OBVIOUS
    <2> QED BY <2>1, Zenon DEF Proper, Segments
  <1>4. s \in Nat /\ s + NHDR + 8 + 4 <= Size(f)
    BY <1>1, <1>3, SoughtWithin, Zenon
  <1> QED BY <1>2, <1>4 DEF NHDR

(* What a variant h of the file f may be. *)
NoteRight(f, h) ==
  LET at == (f.desc \div 4) + 1
  IN h.ok => /\ \A i \in 1 .. Len(f.word) : h.word[i] # f.word[i] => i = at
             /\ h.word # f.word => OneBit(f.word[at], h.word[at])

LEMMA NoteSet ==
  ASSUME NEW f, Proper(f), NEW op
  PROVE  /\ NoteRight(f, SetFeatureCtlNote(op, f))
         /\ ~SetFeatureCtlNote(op, f).ok => f.desc = None
  <1> DEFINE w == f.word
             at == (f.desc \div 4) + 1
             enable == op = "+cherirevoke"
             set == IF enable THEN NT_FREEBSD_FCTL_CHERI_REVOKE_ENABLE
                    ELSE NT_FREEBSD_FCTL_CHERI_REVOKE_DISABLE
             clear == IF enable THEN NT_FREEBSD_FCTL_CHERI_REVOKE_DISABLE
                      ELSE NT_FREEBSD_FCTL_CHERI_REVOKE_ENABLE
             new == [w EXCEPT ![at] = Features(@, set, clear)]
  <1>1. find_feature_ctl_desc(f) = f.desc
    BY SearchIsRight
  <1>2. SetFeatureCtlNote(op, f) = IF f.desc < 0 \/ f.desc + 4 > Size(f) THEN [ok |-> FALSE, word |-> w]
                                   ELSE [ok |-> TRUE, word |-> new]
    BY <1>1, Zenon DEF SetFeatureCtlNote
  <1>3. CASE f.desc = None
    <2>1. SetFeatureCtlNote(op, f) = [ok |-> FALSE, word |-> w]
      <3>1. f.desc < 0
        BY <1>3 DEF None
      <3> QED BY <1>2, <3>1, Zenon
    <2> HIDE DEF w
    <2>2. SetFeatureCtlNote(op, f).ok = FALSE
      BY <2>1
    <2> QED BY <1>3, <2>2, Zenon DEF NoteRight
  <1>4. CASE f.desc # None
    <2>1. f.desc \in Nat /\ f.desc + 4 <= Size(f) /\ Size(f) \in Nat /\ Wordy(f)
      BY <1>4, DescWithin, ProperParts, Words, Zenon
    <2>2. SetFeatureCtlNote(op, f) = [ok |-> TRUE, word |-> new]
      <3>1. ~(f.desc < 0) /\ ~(f.desc + 4 > Size(f))
        <4>1. \A d, n \in Nat : d + 4 <= n => ~(d < 0) /\ ~(d + 4 > n)
          OBVIOUS
        <4> QED BY <2>1, <4>1, Zenon
      <3> QED BY <1>2, <3>1, Zenon
    <2>3. /\ Len(w) \in Nat /\ DOMAIN w = 1 .. Len(w) /\ at \in 1 .. Len(w)
          /\ w[at] \in 0 .. Modulus - 1
      <3>1. \A S, s : s \in Seq(S) => Len(s) \in Nat /\ DOMAIN s = 1 .. Len(s) /\ \A i \in 1 .. Len(s) : s[i] \in S
        OBVIOUS
      <3>2. Len(w) \in Nat /\ DOMAIN w = 1 .. Len(w) /\ \A i \in 1 .. Len(w) : w[i] \in 0 .. Modulus - 1
        BY <2>1, <3>1, Zenon DEF Wordy
      <3>3. \A d, n \in Nat : d + 4 <= 4 * n => (d \div 4) + 1 \in 1 .. n
        OBVIOUS
      <3>4. at \in 1 .. Len(w)
        BY <2>1, <3>2, <3>3, Zenon DEF Size
      <3> QED BY <3>2, <3>4, Zenon
    <2>4. OneBit(w[at], Features(w[at], set, clear))
      BY <2>3, FeaturesIs, Zenon
    <2> HIDE DEF w, at, set, clear
    <2>5. new[at] = Features(w[at], set, clear) /\ \A i \in 1 .. Len(w) : new[i] # w[i] => i = at
      BY <2>3
    <2>6. OneBit(w[at], new[at])
      BY <2>4, <2>5, Zenon
    <2> HIDE DEF new
    <2>7. SetFeatureCtlNote(op, f).ok = TRUE /\ SetFeatureCtlNote(op, f).word = new
      BY <2>2
    <2> QED BY <2>5, <2>6, <2>7, Zenon DEF NoteRight, w, at
  <1> QED BY <1>3, <1>4

----------------------------------------------------------------------------
(* Nothing but set-feature-ctl-note itself says that there is no note. *)
Blameless == "nonote" \in bad' => "nonote" \in bad

LEMMA AnswersBlameless ==
  ASSUME NEW v, NEW right, NEW wrong, "nonote" \notin DOMAIN wrong, Does(v, right, wrong)
  PROVE  Blameless
  BY DEF Does, Blameless

LEMMA CommonBlameless ==
  ASSUME NEW p, CommonStep(p) \/ Leave(p) \/ ForkStep
  PROVE  Blameless
  <1>1. CASE ForkStep
    BY <1>1 DEF ForkStep, Blameless
  <1>2. CASE CallStep(p) \/ NeedCap(p)
    BY <1>2 DEF CallStep, NeedCap, Blameless
  <1>3. CASE WantStep(p) \/ Succeed(p) \/ FailStep(p) \/ ExitStep(p) \/ Demand(p) \/ WaitStep \/ Leave(p)
    BY <1>3 DEF WantStep, Succeed, FailStep, ExitStep, Demand, WaitStep, Leave, Blameless
  <1> QED BY <1>1, <1>2, <1>3 DEF CommonStep

LEMMA TraceBlameless ==
  ASSUME NEW p, TraceStep(p) \/ TracerGone
  PROVE  Blameless
  <1>1. CASE \/ TracerGone \/ WaitStopped \/ PutCap \/ LookShared \/ ReadC \/ StillThere
             \/ Attach \/ WaitKilled \/ RaiseStop \/ SendC \/ ReadX
    BY <1>1 DEF TracerGone, WaitStopped, PutCap, LookShared, ReadC, StillThere, Attach,
                WaitKilled, RaiseStop, SendC, ReadX, Blameless
  <1>2. CASE TraceMe \/ QemuCheck \/ Continue \/ WaitExited
    BY <1>2 DEF TraceMe, QemuCheck, Continue, WaitExited, Blameless
  <1>3. CASE Peek
    BY <1>3, AnswersBlameless DEF Peek
  <1>4. CASE Poke
    <2>1. CASE bad' = bad \cup (flaw \cap {"call", "forge"})
      BY <2>1 DEF Blameless
    <2>2. CASE \E v, right, slots : Does(v, right, [notag |-> {}, alltags |-> slots])
      BY <2>2, AnswersBlameless
    <2> QED BY <1>4, <2>1, <2>2 DEF Poke
  <1>5. CASE PtKill
    BY <1>5, AnswersBlameless DEF PtKill
  <1> QED BY <1>1, <1>2, <1>3, <1>4, <1>5 DEF TraceStep

LEMMA SigBlameless ==
  ASSUME NEW p, SigStep(p) \/ TimerFires \/ AioDone \/ Deliver(p)
  PROVE  Blameless
  <1>1. CASE \/ Sigaction(p) \/ Block(p) \/ Sigaltstack(p) \/ Alarm(p) \/ AioRead(p) \/ ClosePeer(p)
             \/ Reap \/ TimerFires \/ Deliver(p)
    BY <1>1 DEF Sigaction, Block, Sigaltstack, Alarm, AioRead, ClosePeer, Reap, TimerFires, Deliver,
                Blameless
  <1>2. CASE Touch(p) \/ PipeFill(p) \/ ForkUnchecked \/ AioDone
    BY <1>2 DEF Touch, PipeFill, ForkUnchecked, AioDone, Blameless
  <1>3. CASE KillSelf(p)
    BY <1>3, AnswersBlameless DEF KillSelf
  <1>4. CASE PipeCopy(p)
    BY <1>4, AnswersBlameless DEF PipeCopy
  <1>5. CASE Suspend(p)
    <2>1. CASE bad' = bad
      BY <2>1 DEF Blameless
    <2>2. CASE \E v, right, a, b : Does(v, right, [sicode |-> a, sival |-> b])
      BY <2>2, AnswersBlameless
    <2> QED BY <1>5, <2>1, <2>2 DEF Suspend
  <1>6. CASE KillKid
    BY <1>6, AnswersBlameless DEF KillKid
  <1> QED BY <1>1, <1>2, <1>3, <1>4, <1>5, <1>6 DEF SigStep

LEMMA MallocBlameless ==
  ASSUME NEW p, MallocStep(p)
  PROVE  elf' = elf /\ (Install(p) \/ (helper' = helper /\ Blameless))
  <1> USE DEF mallocVars
  <1>1. CASE Malloc(p) \/ LookPtr(p) \/ ChildIsRevoking
    BY <1>1 DEF Malloc, LookPtr, ChildIsRevoking, Blameless
  <1>2. CASE Free(p) \/ Procctl(p)
    BY <1>2 DEF Free, Procctl, Blameless
  <1>3. CASE FlushQuarantine(p)
    <2>1. Blameless
      BY <1>3, AnswersBlameless DEF FlushQuarantine
    <2> QED BY <1>3, <2>1 DEF FlushQuarantine
  <1>4. CASE Allocate(p)
    <2>1. Blameless
      BY <1>4, AnswersBlameless DEF Allocate
    <2> QED BY <1>4, <2>1 DEF Allocate
  <1>5. CASE Execute(p)
    <2>1. Blameless
      BY <1>5, AnswersBlameless DEF Execute
    <2> QED BY <1>5, <2>1 DEF Execute
  <1>6. CASE ExecuteEarly(p)
    <2>1. Blameless
      BY <1>6, AnswersBlameless DEF ExecuteEarly
    <2> QED BY <1>6, <2>1 DEF ExecuteEarly
  <1>7. CASE Install(p)
    BY <1>7 DEF Install
  <1> QED BY <1>1, <1>2, <1>3, <1>4, <1>5, <1>6, <1>7 DEF MallocStep

LEMMA TlsBlameless ==
  ASSUME NEW p, TlsStep(p) \/ SpuriousWakeup(p)
  PROVE  Blameless
  <1>1. CASE \/ SpuriousWakeup(p) \/ Lock(p) \/ Unlock(p) \/ Announce(p) \/ CondWait(p) \/ CondReturn(p)
             \/ WhileDone(p) \/ ThreadCreate \/ ReadThread \/ ThreadReturns
    BY <1>1 DEF SpuriousWakeup, Lock, Unlock, Announce, CondWait, CondReturn, WhileDone, ThreadCreate,
                ReadThread, ThreadReturns, Blameless
  <1>2. CASE PthreadFails(p)
    BY <1>2 DEF PthreadFails, Blameless
  <1>3. CASE CheckTls
    BY <1>3, AnswersBlameless DEF CheckTls
  <1>4. CASE Increment
    BY <1>4, AnswersBlameless DEF Increment
  <1> QED BY <1>1, <1>2, <1>3, <1>4 DEF TlsStep

LEMMA StringBlameless ==
  ASSUME StringStep
  PROVE  Blameless
  <1>1. CASE Invalidate \/ Check \/ CheckShifted
    BY <1>1 DEF Invalidate, Check, CheckShifted, Blameless
  <1>2. CASE CopyUnaligned
    <2>1. CASE bad' = bad \cup {"faults"}
      BY <2>1 DEF Blameless
    <2>2. CASE \E v, a : Does(v, "notags", [keeptag |-> a])
      BY <2>2, AnswersBlameless
    <2> QED BY <1>2, <2>1, <2>2 DEF CopyUnaligned
  <1>3. CASE Copy
    <2>1. CASE bad' = bad \cup {"ret"}
      BY <2>1 DEF Blameless
    <2>2. CASE \E v, right, a, b, c, d :
                 Does(v, right, [lostodd |-> a, losttail |-> b, lostall |-> c, keeptag |-> d])
      BY <2>2, AnswersBlameless
    <2>3. CASE \E f \in {"nothing", "skiphead", "skiptail"} : bad' = bad \cup {f}
      BY <2>3 DEF Blameless
    <2> QED BY <1>3, <2>1, <2>2, <2>3 DEF Copy
  <1> QED BY <1>1, <1>2, <1>3 DEF StringStep

(* What changes the file, its variant and what is said of it: only Install. *)
LEMMA NoteMoves ==
  ASSUME [Next]_vars
  PROVE  elf' = elf /\ ((\E p \in Proc : Install(p)) \/ (helper' = helper /\ Blameless))
  <1>1. CASE UNCHANGED vars
    BY <1>1 DEF vars, scriptVars, mallocVars, Blameless
  <1>2. CASE Kernel \/ Chance
    <2>1. elf' = elf /\ helper' = helper
      BY <1>2 DEF Kernel, Chance, mallocVars
    <2>2. Blameless
      BY <1>2, TraceBlameless, SigBlameless, TlsBlameless DEF Kernel, Chance
    <2> QED BY <2>1, <2>2
  <1>3. ASSUME NEW p \in Proc, SysStep(p)
        PROVE  elf' = elf /\ (Install(p) \/ (helper' = helper /\ Blameless))
    <2>1. CASE MallocStep(p)
      BY <2>1, MallocBlameless
    <2>2. CASE ~MallocStep(p)
      <3>1. elf' = elf /\ helper' = helper
        BY <1>3, <2>2 DEF SysStep, mallocVars
      <3>2. Blameless
        BY <1>3, <2>2, CommonBlameless, TraceBlameless, SigBlameless, TlsBlameless, StringBlameless
           DEF SysStep
      <3> QED BY <3>1, <3>2
    <2> QED BY <2>1, <2>2
  <1> QED BY <1>1, <1>2, <1>3 DEF Next, Over

(* The property, in terms of the file and its variant. *)
NoteInv ==
  /\ elf \in Binaries /\ NoteRight(elf, helper)
  /\ "nonote" \in bad => elf.desc = None

LEMMA NoteInit == Init => NoteInv
  <1> SUFFICES ASSUME Init PROVE NoteInv
    OBVIOUS
  <1>1. elf \in Binaries /\ helper = [ok |-> FALSE, word |-> <<>>]
    BY DEF Init, MallocInit
  <1>2. bad = {}
    BY DEF Init, ScriptInit
  <1>3. ~helper.ok
    BY <1>1
  <1> QED BY <1>1, <1>2, <1>3, Zenon DEF NoteInv, NoteRight

LEMMA NoteNext == NoteInv /\ [Next]_vars => NoteInv'
  <1> SUFFICES ASSUME NoteInv, [Next]_vars PROVE NoteInv'
    OBVIOUS
  <1>1. elf' = elf
    BY NoteMoves
  <1>2. CASE helper' = helper /\ Blameless
    BY <1>1, <1>2 DEF NoteInv, Blameless
  <1>3. ASSUME NEW p \in Proc, Install(p) PROVE NoteInv'
    <2>1. Proper(elf) /\ elf \in Binaries /\ ("nonote" \in bad => elf.desc = None)
      BY BinariesAssumption, Zenon DEF NoteInv
    <2>2. \/ helper' = [ok |-> TRUE, word |-> elf.word]
          \/ helper' = SetFeatureCtlNote(Arg(p, 1), elf)
      BY <1>3, Zenon DEF Install
    <2>3. "nonote" \in bad' => "nonote" \in bad \/ ~helper'.ok
      BY <1>3 DEF Install
    <2>4. NoteRight(elf, helper') /\ (~helper'.ok => elf.desc = None)
      <3>1. CASE helper' = [ok |-> TRUE, word |-> elf.word]
        <4>1. helper'.ok = TRUE /\ helper'.word = elf.word
          BY <3>1
        <4> QED BY <4>1, Zenon DEF NoteRight
      <3>2. CASE helper' = SetFeatureCtlNote(Arg(p, 1), elf)
        BY <2>1, <3>2, NoteSet, Zenon
      <3> QED BY <2>2, <3>1, <3>2
    <2> QED BY <1>1, <2>1, <2>3, <2>4, Zenon DEF NoteInv
  <1> QED BY <1>2, <1>3, NoteMoves

(***************************************************************************)
(* OneBitOfTheNote, for every set of binaries with the layout the ELF      *)
(* format asks for and every modulus: set-feature-ctl-note changes nothing *)
(* but the descriptor of the note, and there one of the two bits is then   *)
(* set; and it fails only if there is no note.                             *)
(***************************************************************************)
THEOREM ToolSetsOneBit == Spec => []OneBitOfTheNote
  <1>1. NoteInv => OneBitOfTheNote
    BY Zenon DEF NoteInv, NoteRight, OneBit, OneBitOfTheNote
  <1>2. Spec => []NoteInv
    BY NoteInit, NoteNext, PTL DEF Spec
  <1> QED BY <1>1, <1>2, PTL

=============================================================================
