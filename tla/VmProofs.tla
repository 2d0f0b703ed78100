------------------------------ MODULE VmProofs ------------------------------
(***************************************************************************)
(* Theorems about VmSuite, for any kernel, errors and bounds: no test of   *)
(* cheriostest_vm.c that passes leaves a child, a thread or a name behind. *)
(***************************************************************************)
EXTENDS VmSuite, ScriptProofs

(* The discipline all tests of cheriostest_vm.c keep. *)
Tidy(s) ==
  /\ IsScript(s) /\ Lacks(s, {"exit"})
  /\ Paired(s, {"shm_create", "shm_open"}, {"shm_unlink"})
  /\ Closed(s, {"fork"}, {"wait"}, {"success"})
  /\ Closed(s, {"thread"}, {"join"}, {"success"})

Quiet(s) == IsScript(s) /\ Lacks(s, {"exit", "success", "shm_create", "shm_open", "fork", "thread"})

LEMMA QuietIsTidy == \A s : Quiet(s) => Tidy(s)
  BY DEF Quiet, Tidy, Lacks, Named, Paired, Closed

LEMMA TidyJoined == \A p, q : Tidy(p) /\ Tidy(q) => Tidy(p \o q)
  BY Joined, JoinedLacks, JoinedPaired, JoinedClosed DEF Tidy

LEMMA QuietJoined == \A p, q : Quiet(p) /\ Quiet(q) => Quiet(p \o q)
  BY Joined, JoinedLacks DEF Quiet

(* A step that neither starts nor leaves anything behind. *)
Mild(x) == x[1] \notin {"exit", "success", "shm_create", "shm_open", "fork", "thread"}

(***************************************************************************)
(* A part that has started a child, or a thread, and has not waited for it *)
(* yet; other is the step that starts the other one.                       *)
(***************************************************************************)
Pending(s, other) ==
  /\ IsScript(s) /\ Lacks(s, {"exit", "success", other})
  /\ Paired(s, {"shm_create", "shm_open"}, {"shm_unlink"})

LEMMA PendingJoined ==
  \A p, q, other : Pending(p, other) /\ Pending(q, other) => Pending(p \o q, other)
  BY Joined, JoinedLacks, JoinedPaired DEF Pending

LEMMA QuietIsPending == \A s : Quiet(s) => Pending(s, "fork") /\ Pending(s, "thread")
  BY DEF Quiet, Pending, Lacks, Named, Paired

LEMMA PendingFork ==
  ASSUME NEW p, NEW q, Pending(p, "thread"), Tidy(q), Awaits(q, {"wait"}, {"success"})
  PROVE  Tidy(p \o q)
  <1>1. Lacks(p, {"exit"}) /\ Lacks(p, {"success"}) /\ Closed(p, {"thread"}, {"join"}, {"success"})
    BY DEF Pending, Lacks, Named, Closed
  <1> QED BY <1>1, Joined, JoinedLacks, JoinedPaired, JoinedClosed DEF Pending, Tidy

LEMMA PendingThread ==
  ASSUME NEW p, NEW q, Pending(p, "fork"), Tidy(q), Awaits(q, {"join"}, {"success"})
  PROVE  Tidy(p \o q)
  <1>1. Lacks(p, {"exit"}) /\ Lacks(p, {"success"}) /\ Closed(p, {"fork"}, {"wait"}, {"success"})
    BY DEF Pending, Lacks, Named, Closed
  <1> QED BY <1>1, Joined, JoinedLacks, JoinedPaired, JoinedClosed DEF Pending, Tidy

LEMMA QuietOne ==
  \A a : Mild(a) => Quiet(<<a>>)
  <1>1. \A a : <<a>> \in Seq({<<a>>[i] : i \in DOMAIN <<a>>})
    OBVIOUS
  <1>2. \A a : Mild(a)
                => Lacks(<<a>>, {"exit", "success", "shm_create", "shm_open", "fork", "thread"})
    BY DEF Lacks, Named, Mild
  <1> QED BY <1>1, <1>2 DEF Quiet, IsScript

LEMMA QuietTwo ==
  \A a, b : Mild(a) /\ Mild(b) => Quiet(<<a, b>>)
  <1>1. \A a, b : <<a, b>> \in Seq({<<a, b>>[i] : i \in DOMAIN <<a, b>>})
    OBVIOUS
  <1>2. \A a, b : Mild(a) /\ Mild(b)
                => Lacks(<<a, b>>, {"exit", "success", "shm_create", "shm_open", "fork", "thread"})
    BY DEF Lacks, Named, Mild
  <1> QED BY <1>1, <1>2 DEF Quiet, IsScript

LEMMA QuietThree ==
  \A a, b, c : Mild(a) /\ Mild(b) /\ Mild(c) => Quiet(<<a, b, c>>)
  <1>1. \A a, b, c : <<a, b, c>> \in Seq({<<a, b, c>>[i] : i \in DOMAIN <<a, b, c>>})
    OBVIOUS
  <1>2. \A a, b, c : Mild(a) /\ Mild(b) /\ Mild(c)
                => Lacks(<<a, b, c>>, {"exit", "success", "shm_create", "shm_open", "fork", "thread"})
    BY DEF Lacks, Named, Mild
  <1> QED BY <1>1, <1>2 DEF Quiet, IsScript

LEMMA QuietFour ==
  \A a, b, c, d : Mild(a) /\ Mild(b) /\ Mild(c) /\ Mild(d) => Quiet(<<a, b, c, d>>)
  <1>1. \A a, b, c, d : <<a, b, c, d>> \in Seq({<<a, b, c, d>>[i] : i \in DOMAIN <<a, b, c, d>>})
    OBVIOUS
  <1>2. \A a, b, c, d : Mild(a) /\ Mild(b) /\ Mild(c) /\ Mild(d)
                => Lacks(<<a, b, c, d>>, {"exit", "success", "shm_create", "shm_open", "fork", "thread"})
    BY DEF Lacks, Named, Mild
  <1> QED BY <1>1, <1>2 DEF Quiet, IsScript

LEMMA QuietFive ==
  \A a, b, c, d, e : Mild(a) /\ Mild(b) /\ Mild(c) /\ Mild(d) /\ Mild(e) => Quiet(<<a, b, c, d, e>>)
  <1>1. \A a, b, c, d, e : <<a, b, c, d, e>> \in Seq({<<a, b, c, d, e>>[i] : i \in DOMAIN <<a, b, c, d, e>>})
    OBVIOUS
  <1>2. \A a, b, c, d, e : Mild(a) /\ Mild(b) /\ Mild(c) /\ Mild(d) /\ Mild(e)
                => Lacks(<<a, b, c, d, e>>, {"exit", "success", "shm_create", "shm_open", "fork", "thread"})
    BY DEF Lacks, Named, Mild
  <1> QED BY <1>1, <1>2 DEF Quiet, IsScript

LEMMA QuietSix ==
  \A a, b, c, d, e, f : Mild(a) /\ Mild(b) /\ Mild(c) /\ Mild(d) /\ Mild(e) /\ Mild(f) => Quiet(<<a, b, c, d, e, f>>)
  <1>1. \A a, b, c, d, e, f : <<a, b, c, d, e, f>> \in Seq({<<a, b, c, d, e, f>>[i] : i \in DOMAIN <<a, b, c, d, e, f>>})
    OBVIOUS
  <1>2. \A a, b, c, d, e, f : Mild(a) /\ Mild(b) /\ Mild(c) /\ Mild(d) /\ Mild(e) /\ Mild(f)
                => Lacks(<<a, b, c, d, e, f>>, {"exit", "success", "shm_create", "shm_open", "fork", "thread"})
    BY DEF Lacks, Named, Mild
  <1> QED BY <1>1, <1>2 DEF Quiet, IsScript

LEMMA QuietSeven ==
  \A a, b, c, d, e, f, g : Mild(a) /\ Mild(b) /\ Mild(c) /\ Mild(d) /\ Mild(e) /\ Mild(f) /\ Mild(g) => Quiet(<<a, b, c, d, e, f, g>>)
  <1>1. \A a, b, c, d, e, f, g : <<a, b, c, d, e, f, g>> \in Seq({<<a, b, c, d, e, f, g>>[i] : i \in DOMAIN <<a, b, c, d, e, f, g>>})
    OBVIOUS
  <1>2. \A a, b, c, d, e, f, g : Mild(a) /\ Mild(b) /\ Mild(c) /\ Mild(d) /\ Mild(e) /\ Mild(f) /\ Mild(g)
                => Lacks(<<a, b, c, d, e, f, g>>, {"exit", "success", "shm_create", "shm_open", "fork", "thread"})
    BY DEF Lacks, Named, Mild
  <1> QED BY <1>1, <1>2 DEF Quiet, IsScript

LEMMA TidyEnds == Tidy(Success) /\ Quiet(Failure) /\ Quiet(<<>>)
  <1>1. Quiet(<<>>)
    BY DEF Quiet, IsScript, Lacks
  <1>2. Tidy(Success)
    BY DEF Tidy, IsScript, Lacks, Named, Paired, Closed, Success
  <1> QED BY <1>1, <1>2, QuietOne DEF Mild, Failure

(* What the tests about tags are made of. *)
LEMMA QuietTagParts ==
  /\ \A m, w, vals : Quiet(Check(m, w, vals))
  /\ \A prot, shared, kind, loss : Quiet(MmapCheck(prot, shared, kind, loss))
  /\ Quiet(ShmAnon) /\ Quiet(Memfd) /\ Quiet(DevZero) /\ Quiet(Tempfile)
  /\ \A m : Quiet(SharedCap(m))
  /\ Tidy(vm_tag_shm_open_shared2x)
  /\ Tidy(shm_open_read_nocaps) /\ Tidy(shm_open_write_nocaps)
  /\ Quiet(vm_cow_read) /\ Quiet(vm_cow_write) /\ Tidy(CowEnd)
  /\ Quiet(LargePage) /\ Quiet(Stash) /\ Quiet(Flushed) /\ Quiet(Recover)
  <1>1. \A m, w, vals : Quiet(Check(m, w, vals))
    BY QuietTwo DEF Mild, Check
  <1>2. ASSUME NEW prot, NEW shared, NEW kind, NEW loss
        PROVE  Quiet(MmapCheck(prot, shared, kind, loss))
    <2>1. Quiet(<<<<"mmap", "m", shared, prot, kind>>, <<"store", "m", 0>>>>)
      BY QuietTwo DEF Mild
    <2>2. Quiet(<<<<"munmap", "m">>, <<"call">>>>)
      BY QuietTwo DEF Mild
    <2> QED BY <1>1, <2>1, <2>2, QuietJoined DEF MmapCheck
  <1>3. Quiet(ShmAnon) /\ Quiet(Memfd) /\ Quiet(DevZero) /\ Quiet(Tempfile)
    BY QuietOne DEF Mild, ShmAnon, Memfd, DevZero, Tempfile
  <1>4. \A m : Quiet(SharedCap(m))
    BY QuietThree DEF Mild, SharedCap
  <1>5. Tidy(vm_tag_shm_open_shared2x)
    <2>1. Quiet(<<<<"PROT_CAP">>, <<"mmap", "m2", TRUE, "cap", "shm">>>>)
      BY QuietTwo DEF Mild
    <2> QED BY <1>1, <1>2, <2>1, TidyEnds, QuietIsTidy, TidyJoined DEF vm_tag_shm_open_shared2x
  <1>6. /\ Quiet(<<<<"store", "m", 0>>>>) /\ Quiet(<<<<"store", "m", 1>>>>)
        /\ Quiet(<<<<"store", "m", 2>>>>) /\ Quiet(<<<<"write">>>>) /\ Quiet(<<<<"call">>>>)
        /\ Quiet(<<<<"munmap", "m">>>>) /\ Quiet(<<<<"store", "copy", 1>>>>)
    BY QuietOne DEF Mild
  <1>7. Tidy(shm_open_read_nocaps)
    <2>1. Quiet(<<<<"read">>, <<"want", {"clear"}>>, <<"call">>>>)
      BY QuietThree DEF Mild
    <2> QED BY <1>1, <1>4, <1>6, <2>1, TidyEnds, QuietIsTidy, TidyJoined DEF shm_open_read_nocaps
  <1>8. Tidy(shm_open_write_nocaps)
    BY <1>1, <1>4, <1>6, TidyEnds, QuietIsTidy, TidyJoined DEF shm_open_write_nocaps
  <1>9. Quiet(vm_cow_read)
    <2>1. Quiet(<<<<"mmap", "copy", FALSE, "", "shm">>, <<"store", "real", 0>>>>)
      BY QuietTwo DEF Mild
    <2> QED BY <1>1, <1>4, <2>1, QuietJoined DEF vm_cow_read
  <1>10. Quiet(vm_cow_write)
    BY <1>1, <1>6, <1>9, QuietJoined DEF vm_cow_write
  <1>11. Tidy(CowEnd)
    <2>1. Quiet(<<<<"munmap", "real">>, <<"munmap", "copy">>, <<"call">>>>)
      BY QuietThree DEF Mild
    <2> QED BY <2>1, TidyEnds, QuietIsTidy, TidyJoined DEF CowEnd
  <1>12. Quiet(LargePage)
    <2>1. Quiet(<<<<"PROT_CAP">>, <<"call">>, <<"mmap", "m", TRUE, "cap", "shm">>, <<"returned">>>>)
      BY QuietFour DEF Mild
    <2>2. Quiet(<<<<"munmap", "m">>, <<"call">>>>)
      BY QuietTwo DEF Mild
    <2> QED BY <1>1, <1>6, <2>1, <2>2, QuietJoined DEF LargePage
  <1>13. Quiet(Stash)
    <2>1. Quiet(<<<<"call">>, <<"call">>, <<"mmap", "m", TRUE, "cap", "shm">>, <<"store", "m", 0>>>>)
      BY QuietFour DEF Mild
    <2> QED BY <1>1, <1>6, <2>1, QuietJoined DEF Stash
  <1>14. Quiet(Recover)
    <2>1. Quiet(<<<<"mmap", "m", TRUE, "", "shm">>>>)
      BY QuietOne DEF Mild
    <2> QED BY <1>1, <2>1, QuietJoined DEF Recover
  <1>15. Quiet(Flushed)
    BY QuietTwo DEF Mild, Flushed
  <1> QED BY <1>1, <1>2, <1>3, <1>4, <1>5, <1>7, <1>8, <1>9, <1>10, <1>11, <1>12, <1>13, <1>14, <1>15

(* The steps around a fork. *)
LEMMA ForkParts ==
  /\ \A a, f : Mild(a) /\ f[1] = "fork" => Pending(<<a, f>>, "thread")
  /\ \A a, f, b, c : Mild(a) /\ f[1] = "fork" /\ Mild(b) /\ Mild(c) =>
        Pending(<<a, f, b, c>>, "thread")
  /\ \A a, b, c, f, w : Mild(a) /\ Mild(b) /\ Mild(c) /\ f[1] = "fork" /\ w[1] = "wait" =>
        Pending(<<a, b, c, f, w>>, "thread")
  /\ \A a, b : a[1] = "shm_open" /\ b[1] = "shm_unlink" => Pending(<<a, b>>, "thread")
  <1>1. /\ \A a, b : IsScript(<<a, b>>)
        /\ \A a, f, b, c : IsScript(<<a, f, b, c>>)
        /\ \A a, b, c, f, w : IsScript(<<a, b, c, f, w>>)
    BY DEF IsScript
  <1>2. ASSUME NEW a, NEW f, Mild(a), f[1] = "fork" PROVE Pending(<<a, f>>, "thread")
    BY <1>1, <1>2 DEF Pending, Lacks, Named, Paired, Mild
  <1>3. ASSUME NEW a, NEW f, NEW b, NEW c, Mild(a), f[1] = "fork", Mild(b), Mild(c)
        PROVE  Pending(<<a, f, b, c>>, "thread")
    BY <1>1, <1>3 DEF Pending, Lacks, Named, Paired, Mild
  <1>4. ASSUME NEW a, NEW b, NEW c, NEW f, NEW w,
               Mild(a), Mild(b), Mild(c), f[1] = "fork", w[1] = "wait"
        PROVE  Pending(<<a, b, c, f, w>>, "thread")
    BY <1>1, <1>4 DEF Pending, Lacks, Named, Paired, Mild
  <1>5. ASSUME NEW a, NEW b, a[1] = "shm_open", b[1] = "shm_unlink"
        PROVE  Pending(<<a, b>>, "thread")
    BY <1>1, <1>5 DEF Pending, Lacks, Named, Paired
  <1> QED BY <1>2, <1>3, <1>4, <1>5

(* And those up to the wait for the child. *)
LEMMA WaitParts ==
  /\ \A c : c[1] = "wait" => Quiet(<<c>>) /\ Awaits(<<c>>, {"wait"}, {"success"})
  /\ \A a, b, c : Mild(a) /\ Mild(b) /\ c[1] = "wait" =>
        Quiet(<<a, b, c>>) /\ Awaits(<<a, b, c>>, {"wait"}, {"success"})
  /\ \A a, c, b : Mild(a) /\ c[1] = "wait" /\ Mild(b) =>
        Quiet(<<a, c, b>>) /\ Awaits(<<a, c, b>>, {"wait"}, {"success"})
  <1>1. \A c : c[1] = "wait" => Mild(c)
    BY DEF Mild
  <1>2. \A c : c[1] = "wait" => Awaits(<<c>>, {"wait"}, {"success"})
    BY DEF Awaits, Named
  <1>3. \A a, b, c : Mild(a) /\ Mild(b) /\ c[1] = "wait" =>
                     Awaits(<<a, b, c>>, {"wait"}, {"success"})
    BY DEF Awaits, Named, Mild
  <1>4. \A a, c, b : Mild(a) /\ c[1] = "wait" =>
                     Awaits(<<a, c, b>>, {"wait"}, {"success"})
    BY DEF Awaits, Named, Mild
  <1> QED BY <1>1, <1>2, <1>3, <1>4, QuietOne, QuietThree

LEMMA ForkAndWait ==
  /\ \A a, f, b, c, d, e :
        Mild(a) /\ f[1] = "fork" /\ Mild(b) /\ Mild(c) /\ Mild(d) /\ e[1] = "wait" =>
          Tidy(<<a, f, b, c, d, e>>)
  /\ \A f, e, b, c : f[1] = "fork" /\ e[1] = "wait" /\ Mild(b) /\ Mild(c) =>
        Tidy(<<f, e, b, c>>)
  <1>1. /\ \A a, f, b, c, d, e : IsScript(<<a, f, b, c, d, e>>)
        /\ \A f, e, b, c : IsScript(<<f, e, b, c>>)
    BY DEF IsScript
  <1>2. ASSUME NEW a, NEW f, NEW b, NEW c, NEW d, NEW e,
               Mild(a), f[1] = "fork", Mild(b), Mild(c), Mild(d), e[1] = "wait"
        PROVE  Tidy(<<a, f, b, c, d, e>>)
    BY <1>1, <1>2 DEF Tidy, Lacks, Named, Paired, Closed, Mild
  <1>3. ASSUME NEW f, NEW e, NEW b, NEW c,
               f[1] = "fork", e[1] = "wait", Mild(b), Mild(c)
        PROVE  Tidy(<<f, e, b, c>>)
    BY <1>1, <1>3 DEF Tidy, Lacks, Named, Paired, Closed, Mild
  <1> QED BY <1>2, <1>3

LEMMA TagScripts == \A t \in TagTests : Tidy(t.steps)
  <1>1. Tidy(ShmNamed)
    BY DEF Tidy, IsScript, Lacks, Named, Paired, Closed, ShmNamed
  <1>2. Tidy(<<<<"PROT_CAP">>>>) /\ Tidy(<<<<"refuse">>>>)
    BY QuietOne, QuietIsTidy DEF Mild
  <1>3. /\ Tidy(vm_tag_mmap_anon.steps)
        /\ Tidy(vm_tag_mmap_anon_cap.steps)
        /\ Tidy(vm_tag_shm_open_anon_shared.steps)
        /\ Tidy(vm_tag_shm_open_anon_private.steps)
        /\ Tidy(vm_tag_shm_open_named_private.steps)
        /\ Tidy(vm_tag_dev_zero_shared.steps)
        /\ Tidy(vm_tag_dev_zero_private.steps)
        /\ Tidy(vm_tag_tmpfile_private.steps)
        /\ Tidy(vm_tag_shm_open_anon_shared2x.steps)
        /\ Tidy(vm_tag_shm_open_named_shared2x.steps)
        /\ Tidy(shm_open_anon_read_nocaps.steps)
        /\ Tidy(shm_open_named_read_nocaps.steps)
        /\ Tidy(shm_open_anon_write_nocaps.steps)
        /\ Tidy(shm_open_anon_shm.steps)
        /\ Tidy(memfd_create_anon_write_nocaps.steps)
        /\ Tidy(vm_cow_anon_read.steps)
        /\ Tidy(vm_cow_named_read.steps)
        /\ Tidy(vm_cow_anon_write.steps)
        /\ Tidy(vm_cow_named_write.steps)
    BY <1>1, <1>2, TidyEnds, QuietTagParts, QuietIsTidy, TidyJoined
    DEF Plain, TestOf,
        vm_tag_mmap_anon, vm_tag_mmap_anon_cap, vm_tag_shm_open_anon_shared,
        vm_tag_shm_open_anon_private, vm_tag_shm_open_named_private,
        vm_tag_dev_zero_shared, vm_tag_dev_zero_private, vm_tag_tmpfile_private,
        vm_tag_shm_open_anon_shared2x, vm_tag_shm_open_named_shared2x,
        shm_open_anon_read_nocaps, shm_open_named_read_nocaps,
        shm_open_anon_write_nocaps, shm_open_anon_shm, memfd_create_anon_write_nocaps,
        vm_cow_anon_read, vm_cow_named_read, vm_cow_anon_write, vm_cow_named_write
  <1>4. Tidy(vm_tag_tmpfile_private_prefault.steps)
    BY <1>3 DEF vm_tag_tmpfile_private_prefault, vm_tag_tmpfile_private, Plain, TestOf
  <1>5. Tidy(vm_notag_mmap_no_cap.steps)
    BY QuietFour, QuietIsTidy DEF Mild, vm_notag_mmap_no_cap, TestOf
  <1>6. Tidy(vm_notag_mprotect_no_cap.steps)
    BY QuietFive, QuietIsTidy DEF Mild, vm_notag_mprotect_no_cap, TestOf
  <1>7. Tidy(vm_mmap_disallowed_prot.steps)
    <2>1. Quiet(<<<<"refuse">>, <<"refuse">>, <<"refuse">>, <<"call">>, <<"refuse">>>>)
      BY QuietFive DEF Mild
    <2> QED BY <1>2, <2>1, TidyEnds, QuietIsTidy, TidyJoined
            DEF vm_mmap_disallowed_prot, Plain, TestOf
  <1>8. ASSUME NEW name, NEW open, NEW kind, Tidy(open)
        PROVE  Tidy(NoImpliedCap(name, open, kind).steps)
    BY <1>8, TidyEnds, QuietTagParts, QuietIsTidy, TidyJoined DEF NoImpliedCap, TestOf
  <1>9. /\ Tidy(vm_tag_shm_open_named_shared_no_implied_cap.steps)
        /\ Tidy(vm_tag_shm_open_anon_shared_no_implied_cap.steps)
        /\ Tidy(vm_tag_anon_shared_no_implied_cap.steps)
        /\ Tidy(vm_tag_memfd_create_shared.steps)
    BY <1>1, <1>8, TidyEnds, QuietTagParts, QuietIsTidy
    DEF vm_tag_shm_open_named_shared_no_implied_cap, vm_tag_shm_open_anon_shared_no_implied_cap,
        vm_tag_anon_shared_no_implied_cap, vm_tag_memfd_create_shared
  <1>10. Tidy(vm_notag_tmpfile_shared.steps)
    <2>1. Quiet(<<<<"mmap", "m", TRUE, "", "file">>, <<"store", "m", 0>>>>)
      BY QuietTwo DEF Mild
    <2> QED BY <2>1, TidyEnds, QuietTagParts, QuietIsTidy, TidyJoined
            DEF vm_notag_tmpfile_shared, TestOf
  <1>11. ASSUME NEW open, Pending(open, "thread")
         PROVE  Tidy(vm_shm_open_unix_surprise(open))
    <2> DEFINE Begin(k) == <<<<"socketpair">>, <<"fork", k>>>>
               Finish == <<<<"munmap", "m">>, <<"pass", "fd">>, <<"wait", "check">>>>
               Middle == <<<<"store", "m", 0>>>>
    <2>1. \A k : Pending(Begin(k), "thread")
      BY ForkParts DEF Mild
    <2>2. Tidy(Finish) /\ Awaits(Finish, {"wait"}, {"success"})
      BY WaitParts, QuietIsTidy DEF Mild
    <2>3. Pending(Middle, "thread")
      BY QuietOne, QuietIsPending DEF Mild
    <2> HIDE DEF Begin, Finish, Middle
    <2>4. \A k : Pending(Begin(k) \o open \o SharedCap("m") \o Middle \o Check("m", 0, {"tag"}),
                        "thread")
      BY <1>11, <2>1, <2>3, QuietTagParts, QuietIsPending, PendingJoined
    <2>5. \A k : Tidy(Begin(k) \o open \o SharedCap("m") \o Middle \o Check("m", 0, {"tag"})
                     \o Finish \o Success)
      BY <2>2, <2>4, TidyEnds, PendingFork, TidyJoined
    <2> QED BY <2>5 DEF vm_shm_open_unix_surprise, Begin, Finish, Middle
  <1>12. Tidy(vm_shm_open_anon_unix_surprise.steps)
    <2>1. Pending(<<<<"call">>>>, "thread")
      BY QuietOne, QuietIsPending DEF Mild
    <2> QED BY <1>11, <2>1 DEF vm_shm_open_anon_unix_surprise, TestOf
  <1>13. Tidy(vm_shm_open_named_unix_surprise.steps)
    <2>1. Pending(<<<<"shm_open">>, <<"shm_unlink">>>>, "thread")
      BY ForkParts
    <2> QED BY <1>11, <2>1 DEF vm_shm_open_named_unix_surprise, TestOf
  <1>14. Tidy(vm_cap_share_fd_kqueue.steps)
    <2>1. \A k : Tidy(<<<<"call">>, <<"fork", k>>, <<"call">>, <<"call">>, <<"pass", "tag">>,
                       <<"wait", "check">>>>)
      BY ForkAndWait DEF Mild
    <2> QED BY <2>1, TidyEnds, TidyJoined DEF vm_cap_share_fd_kqueue, TestOf
  <1>15. Tidy(vm_cap_share_sigaction.steps)
    <2>1. \A k : Tidy(<<<<"fork", k>>, <<"wait", "ignore">>, <<"lookup">>, <<"want", Untagged>>>>)
      BY ForkAndWait DEF Mild
    <2> QED BY <2>1, TidyEnds, TidyJoined DEF vm_cap_share_sigaction, TestOf
  <1>16. Tidy(cheri_revoke_shm_anon_hoard_unmapped.steps)
    BY TidyEnds, QuietTagParts, QuietIsTidy, TidyJoined
    DEF cheri_revoke_shm_anon_hoard_unmapped, Hoard, TestOf
  <1>17. Tidy(cheri_revoke_shm_anon_hoard_closed.steps)
    <2> DEFINE Begin(k) == <<<<"socketpair">>, <<"fork", k>>>>
               Send == <<<<"pass", "fd">>>>
               Back == <<<<"receive">>, <<"want", {"fd"}>>>>
               Finish == <<<<"wait", "check">>>>
    <2>1. \A k : Pending(Begin(k), "thread")
      BY ForkParts DEF Mild
    <2>2. Tidy(Finish) /\ Awaits(Finish, {"wait"}, {"success"})
      BY WaitParts, QuietIsTidy
    <2>3. Pending(Send, "thread") /\ Pending(Back, "thread")
      BY QuietOne, QuietTwo, QuietIsPending DEF Mild
    <2> HIDE DEF Begin, Finish, Send, Back
    <2>4. \A k : Pending(Begin(k) \o Stash \o Send \o Flushed \o Back \o Recover, "thread")
      BY <2>1, <2>3, QuietTagParts, QuietIsPending, PendingJoined
    <2>5. \A k : Tidy(Begin(k) \o Stash \o Send \o Flushed \o Back \o Recover \o Finish \o Success)
      BY <2>2, <2>4, TidyEnds, PendingFork, TidyJoined
    <2>6. Tidy(Failure)
      BY TidyEnds, QuietIsTidy
    <2> QED BY <2>5, <2>6
            DEF cheri_revoke_shm_anon_hoard_closed, Hoard, TestOf, Begin, Finish, Send, Back
  <1>18. \A sizes : Tidy(vm_large_pages_basic(sizes).steps)
    <2>1. Tidy(<<<<"call">>>>) /\ Tidy(LargePage) /\ Tidy(<<>>) /\ Tidy(Success)
      BY QuietOne, TidyEnds, QuietTagParts, QuietIsTidy DEF Mild
    <2> QED BY <2>1, TidyJoined DEF vm_large_pages_basic, Plain, TestOf
  <1> QED BY <1>3, <1>4, <1>5, <1>6, <1>7, <1>9, <1>10, <1>12, <1>13, <1>14, <1>15, <1>16, <1>17,
             <1>18
          DEF TagTests, FreeBSDTagTests

(* What the tests about reservations are made of. *)
Fields == {"tag", "vmem", "len", "aligned"}

LEMMA QuietResParts ==
  /\ \A vals : Quiet(Want(vals))
  /\ \A field : Quiet(Is(field))
  /\ \A n, st, fields : fields \in Seq(Fields) => Quiet(Fresh(n, st, fields))
  /\ \A hint, off, n, fixed : Quiet(Hinted(hint, off, n, fixed))
  /\ \A hint, off, n, fixed, errno : Quiet(Denied(hint, off, n, fixed, errno))
  /\ Quiet(Procstat)
  /\ \A a, b, c : Quiet(<<<<"unmap", a, b, c>>>>)
  /\ Quiet(<<<<"call">>>>)
  <1>1. /\ \A vals : Quiet(Want(vals))
        /\ \A field : Quiet(Is(field))
        /\ \A hint, off, n, fixed : Quiet(Hinted(hint, off, n, fixed))
        /\ \A a, b, c : Quiet(<<<<"unmap", a, b, c>>>>)
        /\ Quiet(<<<<"call">>>>)
    BY QuietOne DEF Mild, Want, Is, Hinted
  <1>2. ASSUME NEW n, NEW st, NEW fields \in Seq(Fields)
        PROVE  Quiet(Fresh(n, st, fields))
    <2> DEFINE looks == [i \in DOMAIN fields |-> <<"verify", fields[i]>>]
    <2>1. DOMAIN fields = 1 .. Len(fields) /\ Len(fields) \in Nat
      OBVIOUS
    <2>2. \A i \in DOMAIN looks : looks[i][1] = "verify"
      OBVIOUS
    <2>3. looks \in Seq({looks[i] : i \in DOMAIN looks})
      <3> DEFINE S == {looks[i] : i \in DOMAIN looks}
      <3>1. looks \in [1 .. Len(fields) -> S]
        BY <2>1
      <3> HIDE DEF looks, S
      <3>2. looks \in Seq(S)
        BY <2>1, <3>1
      <3> QED BY <3>2 DEF S
    <2> HIDE DEF looks
    <2>4. Quiet(looks)
      BY <2>2, <2>3 DEF Quiet, IsScript, Lacks, Named
    <2>5. \A r : Quiet(<<<<"reserve", r>>>>)
      BY QuietOne DEF Mild
    <2> QED BY <1>1, <2>4, <2>5, QuietJoined DEF Fresh, looks
  <1>3. \A hint, off, n, fixed, errno : Quiet(Denied(hint, off, n, fixed, errno))
    BY <1>1, QuietJoined DEF Denied
  <1>4. Quiet(Procstat)
    BY QuietThree DEF Mild, Procstat
  <1> QED BY <1>1, <1>2, <1>3, <1>4

LEMMA ResScripts == \A t \in ReservationTestSet : Tidy(t.steps)
  <1>1. /\ <<>> \in Seq(Fields) /\ <<"tag">> \in Seq(Fields) /\ <<"aligned">> \in Seq(Fields)
        /\ <<"tag", "len">> \in Seq(Fields) /\ <<"aligned", "len">> \in Seq(Fields)
        /\ <<"tag", "vmem">> \in Seq(Fields)
    BY DEF Fields
  <1>2. /\ Tidy(<<<<"global">>>>) /\ Tidy(<<<<"padding">>>>)
        /\ \A n : Tidy(<<<<"address", n>>>>)
        /\ \A r : Tidy(<<<<"reserve", r>>>>)
        /\ Tidy(<<<<"call">>, <<"call">>>>)
        /\ \A n, r : Tidy(<<<<"gap", n>>, <<"reserve", r>>>>)
        /\ \A n : Tidy(<<<<"call">>, <<"gap", n>>>>)
    BY QuietOne, QuietTwo, QuietIsTidy DEF Mild
  <1>3. /\ \A vals : Tidy(Want(vals))
        /\ \A field : Tidy(Is(field))
        /\ \A n, st, fields : fields \in Seq(Fields) => Tidy(Fresh(n, st, fields))
        /\ \A hint, off, n, fixed : Tidy(Hinted(hint, off, n, fixed))
        /\ \A hint, off, n, fixed, errno : Tidy(Denied(hint, off, n, fixed, errno))
        /\ Tidy(Procstat)
        /\ \A a, b, c : Tidy(<<<<"unmap", a, b, c>>>>)
        /\ Tidy(<<<<"call">>>>)
        /\ Tidy(Success) /\ Tidy(Failure) /\ Tidy(<<>>)
    BY QuietResParts, TidyEnds, QuietIsTidy
  <1>4. /\ Tidy(vm_sw_perm_on_capreloc.steps)
        /\ Tidy(vm_reservation_access_fault.steps)
        /\ Tidy(vm_reservation_reuse.steps)
        /\ Tidy(vm_reservation_align.steps)
        /\ Tidy(vm_reservation_mmap_after_free_fixed.steps)
        /\ Tidy(vm_reservation_mmap_after_free.steps)
    BY <1>1, <1>2, <1>3, TidyJoined
    DEF Plain, TestOf, vm_sw_perm_on_capreloc, vm_reservation_access_fault,
        vm_reservation_reuse, vm_reservation_align,
        vm_reservation_mmap_after_free_fixed, vm_reservation_mmap_after_free
  <1>5. /\ Tidy(vm_reservation_mmap_shared_shm_open.steps)
        /\ Tidy(vm_reservation_mmap_shared_memfd_open.steps)
        /\ Tidy(vm_mmap_invalid_cap.steps)
        /\ Tidy(vm_mmap_invalid_cap_fixed.steps)
        /\ Tidy(vm_reservation_mmap_invalid_cap.steps)
    BY <1>1, <1>2, <1>3, TidyJoined
    DEF Plain, TestOf, vm_reservation_mmap_shared, vm_reservation_mmap_shared_shm_open,
        vm_reservation_mmap_shared_memfd_open, vm_mmap_invalid_cap,
        vm_mmap_invalid_cap_fixed, vm_reservation_mmap_invalid_cap
  <1>6. /\ Tidy(vm_reservation_mmap.steps)
        /\ Tidy(vm_reservation_mmap_fixed_unreserved.steps)
        /\ Tidy(vm_reservation_mmap_insert_null_derived.steps)
        /\ Tidy(vm_reservation_mmap_fixed_insert.steps)
        /\ Tidy(vm_reservation_mmap_fixed_insert_noperm.steps)
        /\ Tidy(mmap_insert_stack.steps)
    BY <1>1, <1>2, <1>3, TidyJoined
    DEF Plain, TestOf, vm_reservation_mmap, vm_reservation_mmap_fixed_unreserved,
        vm_reservation_mmap_insert_null_derived, vm_reservation_mmap_fixed_insert,
        vm_reservation_mmap_fixed_insert_noperm, mmap_insert_stack
  <1>7. Tidy(revoke_largest_quarantined_reservation.steps)
    <2>1. Tidy(<<<<"vmmap", "contains", 0, Big>>, <<"sweep">>, <<"call">>,
                 <<"vmmap", "gone", 0, Big>>>>)
      BY QuietFour, QuietIsTidy DEF Mild
    <2> QED BY <1>1, <1>3, <2>1, TidyJoined
            DEF revoke_largest_quarantined_reservation, Supported, Unsupported, Failure, Plain, TestOf
  <1>8. Tidy(revoke_merge_quarantined.steps)
    <2>1. Tidy(<<<<"vmmap", "begins", 1>>, <<"vmmap", "begins", Big>>,
                 <<"vmmap", "begins", 3 * Big>>, <<"sweep">>, <<"call">>,
                 <<"vmmap", "no_overlap", 4 * Big>>>>)
      BY QuietSix, QuietIsTidy DEF Mild
    <2>2. \A off, n : Tidy(Hinted("addr", off, n, FALSE) \o Want({"ok"})
                          \o <<<<"unmap", off, n, "all">>>>)
      BY <1>3, TidyJoined
    <2> QED BY <1>2, <1>3, <2>1, <2>2, TidyJoined
            DEF revoke_merge_quarantined, Supported, Unsupported, Failure, Plain, TestOf
  <1> QED BY <1>4, <1>5, <1>6, <1>7, <1>8 DEF ReservationTestSet

(* And those about revocation. *)
LEMMA QuietRevParts ==
  /\ \A x : Quiet(Revoked(x)) /\ Quiet(Intact(x))
  /\ \A s0, s1 : Quiet(Pages01(s0, s1))
  /\ \A info : Quiet(Last(info))
  /\ Quiet(Clock) /\ Quiet(AsyncSteps)
  <1>1. /\ \A x : Quiet(Revoked(x)) /\ Quiet(Intact(x))
        /\ \A s0, s1 : Quiet(Pages01(s0, s1))
    BY QuietTwo, QuietThree DEF Mild, Revoked, Intact, Pages01
  <1>2. (\A info : Quiet(Last(info))) /\ Quiet(Clock)
    BY QuietOne DEF Mild, Last, Clock
  <1>3. Quiet(AsyncSteps)
    <2>1. Quiet(<<<<"call">>, <<"put", "p0">>, <<"mark", TRUE>>, <<"async">>, <<"opened">>,
                  <<"poll">>, <<"closed">>>>)
      BY QuietSeven DEF Mild
    <2> QED BY <1>1, <2>1, QuietJoined DEF AsyncSteps
  <1> QED BY <1>1, <1>2, <1>3

LEMMA RevScripts == \A t \in RevokeTestSet : Tidy(t.steps)
  <1>1. /\ \A x : Tidy(Revoked(x)) /\ Tidy(Intact(x))
        /\ \A s0, s1 : Tidy(Pages01(s0, s1))
        /\ \A info : Tidy(Last(info))
        /\ Tidy(Clock) /\ Tidy(AsyncSteps) /\ Tidy(Success) /\ Tidy(Failure)
    BY QuietRevParts, TidyEnds, QuietIsTidy
  <1>2. ASSUME NEW name, NEW steps, Tidy(steps)
        PROVE  Tidy(RevokeTest(name, steps).steps)
    BY <1>1, <1>2, TidyJoined DEF RevokeTest, Plain, TestOf
  <1>3. Tidy(vm_capdirty.steps)
    <2>1. Tidy(<<<<"call">>, <<"call">>>>)
      BY QuietTwo, QuietIsTidy DEF Mild
    <2>2. Tidy(<<<<"data", 0>>, <<"mincore", 0, {}>>, <<"put", "p1">>, <<"call">>,
                 <<"mincore", 1, CapStore>>, <<"call">>>>)
      BY QuietSix, QuietIsTidy DEF Mild
    <2> QED BY <1>1, <2>1, <2>2, TidyJoined DEF vm_capdirty, Plain, TestOf
  <1>4. Tidy(cheri_revoke_lightly.steps)
    <2>1. Tidy(<<<<"call">>, <<"call">>, <<"put", "p0">>, <<"put", "kq">>, <<"mark", TRUE>>>>)
      BY QuietFive, QuietIsTidy DEF Mild
    <2>2. Tidy(<<<<"mark", FALSE>>, <<"put", "p0">>, <<"put", "kq">>,
                 <<"revoke", "open", "crsi">>, <<"clock", "open">>>>)
      BY QuietFive, QuietIsTidy DEF Mild
    <2> QED BY <1>1, <1>2, <2>1, <2>2, TidyJoined DEF cheri_revoke_lightly
  <1>5. Tidy(cheri_revoke_loadside.steps)
    <2>1. Tidy(<<<<"call">>, <<"put", "p0">>, <<"mark", TRUE>>, <<"put", "p1">>,
                 <<"erase", "p1", "null">>>>)
      BY QuietFive, QuietIsTidy DEF Mild
    <2>2. /\ Tidy(<<<<"mincore", 2, NoCapStore>>, <<"revoke", "open", "crsi">>>>)
          /\ Tidy(<<<<"erase", "p0b", "revoked">>>>) /\ Tidy(<<<<"put", "p0">>>>)
      BY QuietOne, QuietTwo, QuietIsTidy DEF Mild
    <2> QED BY <1>1, <1>2, <2>1, <2>2, TidyJoined DEF cheri_revoke_loadside
  <1>6. Tidy(cheri_revoke_async.steps)
    BY <1>1, <1>2 DEF cheri_revoke_async
  <1>7. Tidy(cheri_revoke_async_fork.steps)
    <2> DEFINE Begin == <<<<"thread">>>>
               Finish == <<<<"stop">>, <<"join">>>>
    <2>1. Pending(Begin, "fork")
      BY DEF Pending, IsScript, Lacks, Named, Paired
    <2>2. Tidy(Finish) /\ Awaits(Finish, {"join"}, {"success"})
      <3>1. Awaits(Finish, {"join"}, {"success"})
        BY DEF Awaits, Named
      <3> QED BY <3>1, QuietTwo, QuietIsTidy DEF Mild
    <2> HIDE DEF Begin, Finish
    <2>3. Pending(Begin \o AsyncSteps, "fork")
      BY <2>1, QuietRevParts, QuietIsPending, PendingJoined
    <2>4. Tidy(Begin \o AsyncSteps \o Finish)
      BY <2>2, <2>3, PendingThread
    <2> QED BY <1>2, <2>4 DEF cheri_revoke_async_fork, Begin, Finish
  <1>8. Tidy(cheri_revoke_cow_mapping.steps)
    <2> DEFINE First == <<<<"call">>, <<"put", "p0">>, <<"put", "p1">>, <<"fork", KidRevokes>>,
                          <<"wait", "check">>>>
               Second == <<<<"call">>, <<"fork", KidWaits>>, <<"mark", TRUE>>, <<"pageout">>>>
               Finish == <<<<"pipewrite">>, <<"wait", "check">>, <<"call">>>>
    <2>1. Pending(First, "thread") /\ Pending(Second, "thread")
      BY ForkParts DEF Mild
    <2>2. Tidy(Finish) /\ Awaits(Finish, {"wait"}, {"success"})
      BY WaitParts, QuietIsTidy DEF Mild
    <2> HIDE DEF First, Second, Finish
    <2>3. Pending(First \o Intact("p0") \o Intact("p1") \o Second \o Last("NULL")
                  \o Revoked("p0") \o Revoked("p1"), "thread")
      BY <2>1, QuietRevParts, QuietIsPending, PendingJoined
    <2>4. Tidy(First \o Intact("p0") \o Intact("p1") \o Second \o Last("NULL")
               \o Revoked("p0") \o Revoked("p1") \o Finish)
      BY <2>2, <2>3, PendingFork
    <2> QED BY <1>2, <2>4 DEF cheri_revoke_cow_mapping, First, Second, Finish
  <1> QED BY <1>3, <1>4, <1>5, <1>6, <1>7, <1>8 DEF RevokeTestSet

----------------------------------------------------------------------------
(***************************************************************************)
(* The inductive invariant.  What main has still to do is tidy; while its  *)
(* child or its thread runs, it has still to wait for it before it can     *)
(* declare success; and it gives a name back in the step after the one     *)
(* that took it.                                                           *)
(***************************************************************************)
VmTypes ==
  /\ DOMAIN todo = Proc /\ DOMAIN end = Proc
  /\ shm \in [name : {"free", "ours", "other"}, tries : Nat, rival : BOOLEAN]
  /\ DOMAIN forker = {"at", "stop"}

NobodyLost ==
  /\ end["main"] = "run" =>
       /\ end["kid"] = "run" => Awaits(todo["main"], {"wait"}, {"success"})
       /\ forker.at # "none" => Awaits(todo["main"], {"join"}, {"success"})
  /\ end["main"] = "ok" => end["kid"] # "run" /\ forker.at = "none"

NameHeld ==
  shm.name = "ours" =>
    IF end["main"] = "run" THEN At("main", "shm_unlink") ELSE shm.tries = Attempts

VmInv == VmTypes /\ Tidy(todo["main"]) /\ NobodyLost /\ NameHeld

(* Steps that start, stop or wait for something, or take or give back the name. *)
Special == {"fork", "wait", "thread", "stop", "join", "shm_create", "shm_open", "shm_unlink"}

Ends == {"ok", "software", "signal"}

(* What any other step does: go on, ask again, or end the process. *)
Advance(p) ==
  /\ end[p] = "run" /\ todo[p] # <<>> /\ Head(todo[p])[1] \notin Special
  /\ \/ todo' = [todo EXCEPT ![p] = Tail(@)] /\ end' = end
     \/ todo' = [todo EXCEPT ![p] = <<<<"again">>>> \o @] /\ end' = end
     \/ \E how \in Ends : /\ todo' = todo /\ end' = [end EXCEPT ![p] = how]
                          /\ how = "ok" => Head(todo[p])[1] \in {"success", "exit"}
  /\ forker' = forker /\ shm' = shm

LEMMA CommonAdvance ==
  ASSUME NEW p \in Proc, CommonStep(p), ~(p = "main" /\ WaitStep),
         UNCHANGED <<tagVars, resVars, revVars>>
  PROVE  Advance(p)
  <1> USE DEF Advance, Special, Ends, At, Go, Die, Verify, tagVars, revVars
  <1>1. CASE WantStep(p)
    BY <1>1 DEF WantStep
  <1>2. CASE Succeed(p)
    BY <1>2 DEF Succeed
  <1>3. CASE FailStep(p)
    BY <1>3 DEF FailStep
  <1>4. CASE ExitStep(p)
    BY <1>4 DEF ExitStep
  <1>5. CASE Demand(p)
    BY <1>5 DEF Demand
  <1>6. CASE CallStep(p)
    BY <1>6 DEF CallStep
  <1>7. CASE NeedCap(p)
    BY <1>7 DEF NeedCap
  <1> QED BY <1>1, <1>2, <1>3, <1>4, <1>5, <1>6, <1>7 DEF CommonStep

LEMMA TagAdvance ==
  ASSUME NEW p \in Proc, TagStep(p), ~(p = "main" /\ (ShmCreate \/ ShmOpen \/ ShmUnlink)),
         UNCHANGED <<resVars, revVars>>
  PROVE  Advance(p)
  <1> USE DEF Advance, Special, Ends, At, Go, Die, Verify, Trap, tagVars, revVars
  <1>1. CASE Mmap(p)
    BY <1>1 DEF Mmap
  <1>2. CASE Munmap(p)
    BY <1>2 DEF Munmap
  <1>3. CASE Mprotect(p)
    BY <1>3 DEF Mprotect
  <1>4. CASE Refuse(p)
    BY <1>4 DEF Refuse
  <1>5. CASE Store(p)
    BY <1>5 DEF Store, StoreDenied, StoreCap
  <1>6. CASE Load(p)
    BY <1>6 DEF Load
  <1>7. CASE ReadFd(p)
    BY <1>7 DEF ReadFd
  <1>8. CASE WriteFd(p)
    BY <1>8 DEF WriteFd
  <1>9. CASE Pass(p)
    BY <1>9 DEF Pass
  <1>10. CASE Receive(p)
    BY <1>10 DEF Receive, Arrive
  <1>11. CASE Lookup(p)
    BY <1>11 DEF Lookup, Arrive
  <1>12. CASE Flush(p)
    BY <1>12 DEF Flush
  <1>13. CASE ReadBack(p)
    BY <1>13 DEF ReadBack
  <1>14. CASE p = "main" /\ Socketpair
    BY <1>14 DEF Socketpair
  <1>15. CASE Returned(p)
    BY <1>15 DEF Returned
  <1> QED BY <1>1, <1>2, <1>3, <1>4, <1>5, <1>6, <1>7, <1>8, <1>9, <1>10, <1>11, <1>12, <1>13,
             <1>14, <1>15 DEF TagStep

LEMMA ResAdvance ==
  ASSUME NEW p \in Proc, ResStep(p), UNCHANGED <<tagVars, revVars>>
  PROVE  Advance(p)
  <1> USE DEF Advance, Special, Ends, At, Go, Die, Verify, Trap, tagVars, revVars
  <1>1. CASE Reserve(p)
    BY <1>1 DEF Reserve
  <1>2. CASE FindGap(p)
    BY <1>2 DEF FindGap
  <1>3. CASE Unmap(p)
    BY <1>3 DEF Unmap
  <1>4. CASE Inspect(p)
    BY <1>4 DEF Inspect
  <1>5. CASE TouchPadding(p)
    BY <1>5 DEF TouchPadding
  <1>6. CASE Global(p)
    BY <1>6 DEF Global
  <1>7. CASE LookUp(p)
    BY <1>7 DEF LookUp
  <1>8. CASE RevokeSpace(p)
    BY <1>8 DEF RevokeSpace
  <1>9. CASE FixedAddress(p)
    BY <1>9 DEF FixedAddress
  <1> QED BY <1>1, <1>2, <1>3, <1>4, <1>5, <1>6, <1>7, <1>8, <1>9 DEF ResStep

LEMMA RevAdvance ==
  ASSUME NEW p \in Proc, RevStep(p), ~(p = "main" /\ (ThreadStart \/ StopForker \/ Join)),
         UNCHANGED <<tagVars, resVars>>
  PROVE  Advance(p)
  <1> USE DEF Advance, Special, Ends, At, Go, Die, Verify, Trap, tagVars, revVars
  <1>1. CASE Put(p)
    BY <1>1 DEF Put
  <1>2. CASE Overwrite(p)
    BY <1>2 DEF Overwrite
  <1>3. CASE WriteData(p)
    BY <1>3 DEF WriteData
  <1>4. CASE Mincore(p)
    BY <1>4 DEF Mincore
  <1>5. CASE Mark(p)
    BY <1>5 DEF Mark
  <1>6. CASE Revoke(p)
    BY <1>6 DEF Revoke, Quit
  <1>7. CASE CheckClock(p)
    BY <1>7 DEF CheckClock
  <1>8. CASE Look(p)
    BY <1>8 DEF Look
  <1>9. CASE Async(p)
    BY <1>9 DEF Async
  <1>10. CASE AsyncOpened(p)
    BY <1>10 DEF AsyncOpened
  <1>11. CASE AsyncPoll(p)
    BY <1>11 DEF AsyncPoll
  <1>12. CASE AsyncAgain(p)
    BY <1>12 DEF AsyncAgain
  <1>13. CASE AsyncClosed(p)
    BY <1>13 DEF AsyncClosed
  <1>14. CASE PipeWrite(p)
    BY <1>14 DEF PipeWrite
  <1>15. CASE PipeRead(p)
    BY <1>15 DEF PipeRead
  <1>16. CASE PageOut(p)
    BY <1>16 DEF PageOut, Quit
  <1> QED BY <1>1, <1>2, <1>3, <1>4, <1>5, <1>6, <1>7, <1>8, <1>9, <1>10, <1>11, <1>12, <1>13, <1>14, <1>15, <1>16 DEF RevStep

(* A tidy rest stays tidy when its first step is taken, or another put before it. *)
LEMMA TidyShorter ==
  ASSUME NEW s, Tidy(s), s # <<>>
  PROVE  /\ Tidy(Tail(s)) /\ Head(s)[1] # "exit"
         /\ Head(s)[1] \in {"shm_create", "shm_open"} =>
              Tail(s) # <<>> /\ Head(Tail(s))[1] = "shm_unlink"
         /\ Head(s)[1] = "fork" => Awaits(Tail(s), {"wait"}, {"success"})
         /\ Head(s)[1] = "thread" => Awaits(Tail(s), {"join"}, {"success"})
  <1>1. IsScript(Tail(s)) /\ Head(s) = s[1] /\ 1 \in DOMAIN s
    BY Shorter DEF Tidy
  <1>2. Lacks(Tail(s), {"exit"}) /\ Head(s)[1] # "exit"
    BY <1>1, ShorterLacks DEF Tidy, Lacks, Named
  <1>3. /\ Paired(Tail(s), {"shm_create", "shm_open"}, {"shm_unlink"})
        /\ Head(s)[1] \in {"shm_create", "shm_open"} =>
             Tail(s) # <<>> /\ Head(Tail(s))[1] = "shm_unlink"
    <2>1. Paired(s, {"shm_create", "shm_open"}, {"shm_unlink"}) /\ IsScript(s)
      BY DEF Tidy
    <2>2. /\ Paired(Tail(s), {"shm_create", "shm_open"}, {"shm_unlink"})
          /\ Head(s)[1] \in {"shm_create", "shm_open"} =>
               Tail(s) # <<>> /\ Head(Tail(s))[1] \in {"shm_unlink"}
      BY <2>1, ShorterPaired
    <2> QED BY <2>2
  <1>4. /\ Closed(Tail(s), {"fork"}, {"wait"}, {"success"})
        /\ Head(s)[1] = "fork" => Awaits(Tail(s), {"wait"}, {"success"})
    BY ShorterClosed DEF Tidy
  <1>5. /\ Closed(Tail(s), {"thread"}, {"join"}, {"success"})
        /\ Head(s)[1] = "thread" => Awaits(Tail(s), {"join"}, {"success"})
    BY ShorterClosed DEF Tidy
  <1> QED BY <1>1, <1>2, <1>3, <1>4, <1>5 DEF Tidy

LEMMA AgainBefore ==
  ASSUME NEW s, Tidy(s)
  PROVE  /\ Tidy(<<<<"again">>>> \o s)
         /\ \A close : Awaits(s, close, {"success"}) =>
                         Awaits(<<<<"again">>>> \o s, close, {"success"})
  <1> DEFINE one == <<<<"again">>>>
  <1>1. Quiet(one)
    BY QuietOne DEF Mild
  <1>2. Tidy(one) /\ IsScript(one) /\ Lacks(one, {"success"})
    BY <1>1, QuietIsTidy DEF Quiet, Lacks, Named
  <1> HIDE DEF one
  <1>3. Tidy(one \o s)
    BY <1>2, TidyJoined
  <1>4. ASSUME NEW close, Awaits(s, close, {"success"}) PROVE Awaits(one \o s, close, {"success"})
    BY <1>2, <1>4, JoinedAwaits DEF Tidy
  <1> QED BY <1>3, <1>4 DEF one

(* The same steps, by their effect on what the invariant speaks of. *)
LEMMA AdvanceKeeps ==
  ASSUME NEW p \in Proc, VmInv, Advance(p)
  PROVE  VmInv'
  <1> DEFINE t == todo["main"]
  <1>1. /\ DOMAIN todo = Proc /\ DOMAIN end = Proc /\ Tidy(t) /\ IsScript(t)
        /\ NobodyLost /\ NameHeld
        /\ forker' = forker /\ shm' = shm
    BY DEF VmInv, VmTypes, Advance, Tidy
  <1>2. VmTypes'
    <2>1. DOMAIN todo' = Proc /\ DOMAIN end' = Proc
      BY <1>1 DEF Advance
    <2> QED BY <1>1, <2>1 DEF VmInv, VmTypes
  <1>3. CASE p = "kid"
    <2>1. /\ todo'["main"] = t /\ end'["main"] = end["main"]
          /\ end'["kid"] = "run" => end["kid"] = "run"
      BY <1>1, <1>3 DEF Advance, Ends, Proc
    <2> HIDE DEF t
    <2>2. Tidy(todo["main"])'
      BY <1>1, <2>1
    <2>3. NobodyLost'
      BY <1>1, <1>3, <2>1 DEF NobodyLost, Advance, t
    <2>4. NameHeld'
      BY <1>1, <2>1 DEF NameHeld, At, t
    <2> QED BY <1>2, <2>2, <2>3, <2>4 DEF VmInv
  <1>4. CASE p = "main"
    <2>1. /\ end["main"] = "run" /\ t # <<>> /\ Head(t)[1] \notin Special
          /\ end'["kid"] = end["kid"]
      BY <1>1, <1>4 DEF Advance, Proc
    <2>2. /\ Tidy(Tail(t)) /\ Head(t)[1] # "exit"
          /\ Tidy(<<<<"again">>>> \o t)
      BY <1>1, <2>1, TidyShorter, AgainBefore
    <2>3. shm.name # "ours"
      BY <1>1, <2>1 DEF NameHeld, At, Special
    <2>4. /\ end["kid"] = "run" => /\ Head(t)[1] # "success"
                                  /\ Awaits(Tail(t), {"wait"}, {"success"})
                                  /\ Awaits(<<<<"again">>>> \o t, {"wait"}, {"success"})
          /\ forker.at # "none" => /\ Head(t)[1] # "success"
                                   /\ Awaits(Tail(t), {"join"}, {"success"})
                                   /\ Awaits(<<<<"again">>>> \o t, {"join"}, {"success"})
      BY <1>1, <2>1, ShorterAwaits, AgainBefore DEF NobodyLost, Special
    <2>5. CASE todo' = [todo EXCEPT !["main"] = Tail(@)] /\ end' = end
      <3>1. todo'["main"] = Tail(t)
        BY <1>1, <2>5 DEF Proc
      <3> HIDE DEF t
      <3> QED BY <1>1, <1>2, <2>1, <2>2, <2>3, <2>4, <2>5, <3>1 DEF VmInv, NobodyLost, NameHeld
    <2>6. CASE todo' = [todo EXCEPT !["main"] = <<<<"again">>>> \o @] /\ end' = end
      <3>1. todo'["main"] = <<<<"again">>>> \o t
        BY <1>1, <2>6 DEF Proc
      <3> HIDE DEF t
      <3> QED BY <1>1, <1>2, <2>1, <2>2, <2>3, <2>4, <2>6, <3>1 DEF VmInv, NobodyLost, NameHeld
    <2>7. ASSUME NEW how \in Ends, todo' = todo, end' = [end EXCEPT !["main"] = how],
                 how = "ok" => Head(t)[1] \in {"success", "exit"}
          PROVE  VmInv'
      <3>1. todo'["main"] = t /\ end'["main"] = how /\ how # "run"
        BY <1>1, <2>7 DEF Proc, Ends
      <3> HIDE DEF t
      <3> QED BY <1>1, <1>2, <2>1, <2>2, <2>3, <2>4, <2>7, <3>1 DEF VmInv, NobodyLost, NameHeld
    <2> QED BY <1>4, <2>5, <2>6, <2>7 DEF Advance
  <1> QED BY <1>3, <1>4 DEF Proc

(* Main starts its child or its thread, or waits for one of them. *)
LEMMA StartsAndWaits ==
  ASSUME VmInv, shm' = shm,
         \/ (ForkStep \/ WaitStep) /\ forker' = forker
         \/ ThreadStart \/ StopForker \/ Join
  PROVE  VmInv'
  <1> DEFINE t == todo["main"]
  <1>1. /\ DOMAIN todo = Proc /\ DOMAIN end = Proc /\ Tidy(t) /\ IsScript(t)
        /\ NobodyLost /\ NameHeld /\ DOMAIN forker = {"at", "stop"}
    BY DEF VmInv, VmTypes, Tidy
  <1>2. /\ end["main"] = "run" /\ t # <<>>
        /\ Head(t)[1] \in {"fork", "wait", "thread", "stop", "join"}
    BY DEF ForkStep, WaitStep, ThreadStart, StopForker, Join, At
  <1>3. Tidy(Tail(t))
    BY <1>1, <1>2, TidyShorter
  <1>4. shm.name # "ours"
    BY <1>1, <1>2 DEF NameHeld, At
  <1>5. /\ end["kid"] = "run" /\ Head(t)[1] # "wait" => Awaits(Tail(t), {"wait"}, {"success"})
        /\ forker.at # "none" /\ Head(t)[1] # "join" => Awaits(Tail(t), {"join"}, {"success"})
    BY <1>1, <1>2, ShorterAwaits DEF NobodyLost
  <1>6. /\ Head(t)[1] = "fork" => Awaits(Tail(t), {"wait"}, {"success"})
        /\ Head(t)[1] = "thread" => Awaits(Tail(t), {"join"}, {"success"})
    BY <1>1, <1>2, TidyShorter
  <1>7. /\ DOMAIN todo' = Proc /\ DOMAIN end' = Proc /\ DOMAIN forker' = {"at", "stop"}
        /\ \/ /\ todo'["main"] = Tail(t) /\ end'["main"] = "run"
              /\ end'["kid"] = "run" => Awaits(Tail(t), {"wait"}, {"success"})
              /\ forker'.at # "none" => Awaits(Tail(t), {"join"}, {"success"})
           \/ todo'["main"] = t /\ end'["main"] = "software"
    <2>1. CASE ForkStep /\ forker' = forker
      <3>1. Head(t)[1] = "fork"
        BY <2>1 DEF ForkStep, At
      <3> QED BY <1>1, <1>2, <1>5, <1>6, <2>1, <3>1 DEF ForkStep, Die, Proc
    <2>2. CASE WaitStep /\ forker' = forker
      <3>1. Head(t)[1] = "wait" /\ end["kid"] # "run"
        BY <2>2 DEF WaitStep, At
      <3> QED BY <1>1, <1>2, <1>5, <2>2, <3>1 DEF WaitStep, Verify, Go, Die, Proc
    <2>3. CASE ThreadStart
      <3>1. Head(t)[1] = "thread"
        BY <2>3 DEF ThreadStart, At
      <3> QED BY <1>1, <1>2, <1>5, <1>6, <2>3, <3>1 DEF ThreadStart, Go, Proc
    <2>4. CASE StopForker
      <3>1. Head(t)[1] = "stop" /\ forker'.at = forker.at
        BY <1>1, <2>4 DEF StopForker, At
      <3> QED BY <1>1, <1>2, <1>5, <2>4, <3>1 DEF StopForker, Go, Proc
    <2>5. CASE Join
      <3>1. Head(t)[1] = "join" /\ forker.at = "none" /\ forker' = forker
        BY <2>5 DEF Join, At, revVars
      <3> QED BY <1>1, <1>2, <1>5, <2>5, <3>1 DEF Join, Go, Proc
    <2> QED BY <2>1, <2>2, <2>3, <2>4, <2>5
  <1> HIDE DEF t
  <1>8. VmTypes'
    BY <1>7 DEF VmInv, VmTypes
  <1> QED BY <1>1, <1>3, <1>4, <1>7, <1>8 DEF VmInv, NobodyLost, NameHeld

(* create_named_shm_obj(), shm_open() and shm_unlink(). *)
LEMMA NameSteps ==
  ASSUME VmInv, ShmCreate \/ ShmOpen \/ ShmUnlink, forker' = forker
  PROVE  VmInv'
  <1> DEFINE t == todo["main"]
  <1>1. /\ DOMAIN todo = Proc /\ DOMAIN end = Proc /\ Tidy(t) /\ IsScript(t)
        /\ NobodyLost /\ NameHeld
        /\ shm \in [name : {"free", "ours", "other"}, tries : Nat, rival : BOOLEAN]
    BY DEF VmInv, VmTypes, Tidy
  <1>2. /\ end["main"] = "run" /\ t # <<>>
        /\ Head(t)[1] \in {"shm_create", "shm_open", "shm_unlink"}
    BY DEF ShmCreate, ShmOpen, ShmUnlink, At
  <1>3. Tidy(Tail(t))
    BY <1>1, <1>2, TidyShorter
  <1>4. /\ end["kid"] = "run" => Awaits(Tail(t), {"wait"}, {"success"})
        /\ forker.at # "none" => Awaits(Tail(t), {"join"}, {"success"})
        /\ end["kid"] = "run" => Awaits(t, {"wait"}, {"success"})
        /\ forker.at # "none" => Awaits(t, {"join"}, {"success"})
    BY <1>1, <1>2, ShorterAwaits DEF NobodyLost
  <1>5. Head(t)[1] # "shm_unlink" =>
          shm.name # "ours" /\ Tail(t) # <<>> /\ Head(Tail(t))[1] = "shm_unlink"
    BY <1>1, <1>2, TidyShorter DEF NameHeld, At
  <1>6. /\ DOMAIN todo' = Proc /\ DOMAIN end' = Proc /\ end'["kid"] = end["kid"]
        /\ shm' \in [name : {"free", "ours", "other"}, tries : Nat, rival : BOOLEAN]
        /\ \/ /\ todo'["main"] = Tail(t) /\ end'["main"] = "run"
              /\ shm'.name = "ours" => Tail(t) # <<>> /\ Head(Tail(t))[1] = "shm_unlink"
           \/ todo'["main"] = t /\ end'["main"] = "run" /\ shm'.name # "ours"
           \/ /\ todo'["main"] = t /\ end'["main"] = "software"
              /\ shm'.name = "ours" => shm'.tries = Attempts
    <2>1. CASE ShmCreate
      <3>1. Head(t)[1] # "shm_unlink"
        BY <2>1 DEF ShmCreate, At
      <3>2. /\ shm' \in [name : {"free", "ours", "other"}, tries : Nat, rival : BOOLEAN]
            /\ shm'.tries = shm.tries + 1
            /\ shm.name # "free" => shm'.name = shm.name
        <4>1. shm' = [shm EXCEPT !.tries = @ + 1, !.name = IF shm.name = "free" THEN "ours" ELSE @]
          BY <2>1 DEF ShmCreate
        <4>2. shm.tries + 1 \in Nat /\ shm.name \in {"free", "ours", "other"}
          BY <1>1
        <4>3. CASE shm.name = "free"
          <5>1. shm' = [shm EXCEPT !.tries = shm.tries + 1, !.name = "ours"]
            BY <4>1, <4>3
          <5> QED BY <1>1, <4>2, <4>3, <5>1
        <4>4. CASE shm.name # "free"
          <5>1. shm' = [shm EXCEPT !.tries = shm.tries + 1, !.name = shm.name]
            BY <4>1, <4>4
          <5> QED BY <1>1, <4>2, <4>4, <5>1
        <4> QED BY <4>3, <4>4
      <3>3. CASE shm.tries + 1 = Attempts /\ Die("main")
        BY <1>1, <1>2, <3>2, <3>3 DEF Die, Proc
      <3>4. CASE Go("main", reg["main"])
        BY <1>1, <1>2, <1>5, <3>1, <3>2, <3>4 DEF Go, Proc
      <3>5. CASE shm.name # "free" /\ UNCHANGED <<todo, reg, page, end>>
        BY <1>1, <1>2, <1>5, <3>1, <3>2, <3>5
      <3> QED BY <2>1, <3>3, <3>4, <3>5 DEF ShmCreate
    <2>2. CASE ShmOpen
      <3>1. Head(t)[1] # "shm_unlink"
        BY <2>2 DEF ShmOpen, At
      <3>2. CASE shm.name = "free"
        <4>1. shm' = [shm EXCEPT !.name = "ours"] /\ Go("main", reg["main"])
          BY <2>2, <3>2 DEF ShmOpen, Verify
        <4>2. shm' \in [name : {"free", "ours", "other"}, tries : Nat, rival : BOOLEAN]
          BY <1>1, <4>1
        <4> QED BY <1>1, <1>2, <1>5, <3>1, <4>1, <4>2 DEF Go, Proc
      <3>3. CASE shm.name # "free"
        <4>1. shm' = shm /\ Die("main")
          BY <2>2, <3>3 DEF ShmOpen, Verify
        <4> QED BY <1>1, <1>2, <1>5, <3>1, <4>1 DEF Die, Proc
      <3> QED BY <3>2, <3>3
    <2>3. CASE ShmUnlink
      <3>1. /\ shm' \in [name : {"free", "ours", "other"}, tries : Nat, rival : BOOLEAN]
            /\ shm'.name = "free" /\ Go("main", reg["main"])
        BY <1>1, <2>3 DEF ShmUnlink
      <3> QED BY <1>1, <1>2, <3>1 DEF Go, Proc
    <2> QED BY <2>1, <2>2, <2>3
  <1> HIDE DEF t
  <1>7. VmTypes'
    BY <1>6 DEF VmInv, VmTypes
  <1>8. Tidy(todo'["main"])
    BY <1>1, <1>3, <1>6
  <1>9. NobodyLost'
    BY <1>4, <1>6 DEF NobodyLost
  <1>10. NameHeld'
    BY <1>6 DEF NameHeld, At
  <1> QED BY <1>7, <1>8, <1>9, <1>10 DEF VmInv

(* What other runs, the kernel and the second thread do. *)
LEMMA OthersKeep ==
  ASSUME VmInv, todo' = todo, end' = end,
         \/ forker' = forker /\ (RivalTakes \/ RivalDrops \/ shm' = shm)
         \/ shm' = shm /\ (ForkerForks \/ ForkerChild \/ ForkerReaps \/ ForkerEnds)
  PROVE  VmInv'
  <1>1. /\ DOMAIN todo = Proc /\ DOMAIN end = Proc /\ DOMAIN forker = {"at", "stop"}
        /\ shm \in [name : {"free", "ours", "other"}, tries : Nat, rival : BOOLEAN]
        /\ Tidy(todo["main"]) /\ NobodyLost /\ NameHeld
    BY DEF VmInv, VmTypes
  <1>2. /\ DOMAIN forker' = {"at", "stop"}
        /\ forker'.at # "none" => forker.at # "none"
    BY <1>1 DEF ForkerForks, ForkerChild, ForkerReaps, ForkerEnds, ForkerMoves
  <1>3. /\ shm' \in [name : {"free", "ours", "other"}, tries : Nat, rival : BOOLEAN]
        /\ shm'.name = "ours" => shm' = shm
    BY <1>1 DEF RivalTakes, RivalDrops
  <1>4. VmTypes' /\ Tidy(todo["main"])'
    BY <1>1, <1>2, <1>3 DEF VmTypes
  <1>5. NobodyLost'
    BY <1>1, <1>2 DEF NobodyLost
  <1>6. NameHeld'
    BY <1>1, <1>3 DEF NameHeld, At
  <1> QED BY <1>4, <1>5, <1>6 DEF VmInv

LEMMA VmInit == Init => VmInv
  <1> SUFFICES ASSUME Init PROVE VmInv
    OBVIOUS
  <1>1. PICK tests \in {TagTests, ReservationTestSet, RevokeTestSet} :
               \E flaws : ScriptInit(tests, flaws)
    BY DEF Init
  <1>2. Tidy(test.steps)
    BY <1>1, TagScripts, ResScripts, RevScripts DEF ScriptInit
  <1>3. /\ DOMAIN todo = Proc /\ DOMAIN end = Proc /\ todo["main"] = test.steps
        /\ end["main"] = "run" /\ end["kid"] = "none"
    BY <1>1 DEF ScriptInit, Proc
  <1>4. /\ shm = [name |-> "free", tries |-> 0, rival |-> FALSE]
        /\ forker = [at |-> "none", stop |-> FALSE]
    BY DEF Init, TagInit, RevInit
  <1>5. VmTypes
    BY <1>3, <1>4 DEF VmTypes
  <1> QED BY <1>2, <1>3, <1>4, <1>5 DEF VmInv, NobodyLost, NameHeld

LEMMA VmNext == VmInv /\ [Next]_vars => VmInv'
  <1> SUFFICES ASSUME VmInv, [Next]_vars PROVE VmInv'
    OBVIOUS
  <1>1. CASE UNCHANGED vars
    <2>1. todo' = todo /\ end' = end /\ shm' = shm /\ forker' = forker
      BY <1>1 DEF vars, scriptVars, tagVars, revVars
    <2> QED BY <2>1 DEF VmInv, VmTypes, NobodyLost, NameHeld, At
  <1>2. ASSUME NEW p \in Proc, VmStep(p) PROVE VmInv'
    <2>1. CASE p = "main" /\ ForkStep /\ Inherit /\ UNCHANGED <<tagVars, resVars>>
      BY <2>1, StartsAndWaits DEF Inherit, tagVars
    <2>2. CASE CommonStep(p) /\ UNCHANGED <<tagVars, resVars, revVars>>
      <3>1. CASE p = "main" /\ WaitStep
        BY <2>2, <3>1, StartsAndWaits DEF tagVars, revVars
      <3>2. CASE ~(p = "main" /\ WaitStep)
        BY <2>2, <3>2, CommonAdvance, AdvanceKeeps
      <3> QED BY <3>1, <3>2
    <2>3. CASE TagStep(p) /\ UNCHANGED <<resVars, revVars>>
      <3>1. CASE p = "main" /\ (ShmCreate \/ ShmOpen \/ ShmUnlink)
        BY <2>3, <3>1, NameSteps DEF revVars
      <3>2. CASE ~(p = "main" /\ (ShmCreate \/ ShmOpen \/ ShmUnlink))
        BY <2>3, <3>2, TagAdvance, AdvanceKeeps
      <3> QED BY <3>1, <3>2
    <2>4. CASE ResStep(p) /\ UNCHANGED <<tagVars, revVars>>
      BY <2>4, ResAdvance, AdvanceKeeps
    <2>5. CASE RevStep(p) /\ UNCHANGED <<tagVars, resVars>>
      <3>1. CASE p = "main" /\ (ThreadStart \/ StopForker \/ Join)
        BY <2>5, <3>1, StartsAndWaits DEF tagVars
      <3>2. CASE ~(p = "main" /\ (ThreadStart \/ StopForker \/ Join))
        BY <2>5, <3>2, RevAdvance, AdvanceKeeps
      <3> QED BY <3>1, <3>2
    <2> QED BY <1>2, <2>1, <2>2, <2>3, <2>4, <2>5 DEF VmStep
  <1>3. CASE Kernel
    <2>1. todo' = todo /\ end' = end /\ shm' = shm /\ forker' = forker
      BY <1>3 DEF Kernel, WorkerSweeps, tagVars
    <2> QED BY <2>1, OthersKeep
  <1>4. CASE Thread
    <2>1. todo' = todo /\ end' = end /\ shm' = shm
      BY <1>4 DEF Thread, ForkerChild, ForkerReaps, ForkerEnds, ForkerMoves, tagVars
    <2> QED BY <1>4, <2>1, OthersKeep DEF Thread
  <1>5. CASE Chance
    <2>1. CASE (RivalTakes \/ RivalDrops) /\ UNCHANGED <<resVars, revVars>>
      <3>1. todo' = todo /\ end' = end /\ forker' = forker
        BY <2>1 DEF RivalTakes, RivalDrops, revVars
      <3> QED BY <2>1, <3>1, OthersKeep
    <2>2. ASSUME NEW p \in Proc, ReceiveFails(p), UNCHANGED <<resVars, revVars>> PROVE VmInv'
      <3>1. Advance(p)
        BY <2>2 DEF ReceiveFails, Advance, Special, Ends, At, Die, revVars
      <3> QED BY <3>1, AdvanceKeeps
    <2>3. CASE WorkerCloses /\ UNCHANGED <<tagVars, resVars>>
      <3>1. todo' = todo /\ end' = end /\ shm' = shm /\ forker' = forker
        BY <2>3 DEF WorkerCloses, tagVars
      <3> QED BY <3>1, OthersKeep
    <2>4. CASE ForkerForks /\ UNCHANGED <<tagVars, resVars>>
      <3>1. todo' = todo /\ end' = end /\ shm' = shm
        BY <2>4 DEF ForkerForks, ForkerMoves, tagVars
      <3> QED BY <2>4, <3>1, OthersKeep
    <2> QED BY <1>5, <2>1, <2>2, <2>3, <2>4 DEF Chance, TagEnvStep
  <1> QED BY <1>1, <1>2, <1>3, <1>4, <1>5 DEF Next, Over

LEMMA VmInvariant == Spec => []VmInv
  BY VmInit, VmNext, PTL DEF Spec

(***************************************************************************)
(* PassLeavesNobody, for every table of tests the three modules give on    *)
(* every system: when a test that does not wait for a signal passes, its   *)
(* child has ended and its thread was joined.                              *)
(***************************************************************************)
THEOREM NobodyLeftRunning == Spec => []PassLeavesNobody
  <1>1. VmInv => PassLeavesNobody
    <2> SUFFICES ASSUME VmInv, Passed, ~test.signal
                 PROVE  end["kid"] # "run" /\ forker.at = "none"
      BY DEF PassLeavesNobody
    <2>1. FailVerdict(test.xfail, FALSE) \notin {"PASS", "XPASS"}
      BY DEF FailVerdict
    <2>2. end["main"] = "ok"
      BY <2>1 DEF Passed, Outcome
    <2> QED BY <2>2 DEF VmInv, NobodyLost
  <1> QED BY <1>1, VmInvariant, PTL

(***************************************************************************)
(* NameGivenBack, for any number of attempts: a test that has ended holds  *)
(* the shared name only if create_named_shm_obj() got it in its last       *)
(* attempt, whatever the other runs of the suite do with it meanwhile.     *)
(***************************************************************************)
THEOREM NamesAreGivenBack == Spec => []NameGivenBack
  <1>1. VmInv => NameGivenBack
    BY DEF VmInv, NameHeld, NameGivenBack, Ended
  <1> QED BY <1>1, VmInvariant, PTL

=============================================================================
