---------------------------- MODULE RevokeSteps ----------------------------
(***************************************************************************)
(* The revocation tests of cheriostest_vm.c that do not use the library:   *)
(* full, split, load-side and asynchronous revocation, what it does to the *)
(* pages' capability-store state, to capabilities the kernel holds and to  *)
(* pages two processes share copy-on-write.                                *)
(*                                                                         *)
(* All capabilities of a test point to one granule, so one shadow bit is   *)
(* enough.  A place holds "null", a capability "cap" or a revoked one.     *)
(***************************************************************************)
EXTENDS Script, FiniteSetsExt

CONSTANT MaxEpoch   \* bound on the epoch counter: asynchronous polling stops there

VARIABLES
  caps,    \* process -> place -> "null", "cap", "revoked"
  marked,  \* process -> the shadow bit
  clock,   \* [enq, deq]: the kernel's epochs, and the shared page's
  crsi,    \* [enq, deq]: what the last cheri_revoke() told
  worker,  \* the asynchronous worker: "idle", "sweeping", "swept"
  dirt,    \* page -> "untouched", "clean", "store", "dirty"
  forker,  \* the second thread of cheri_revoke_async_fork and its child
  pipe     \* the bytes in cheri_revoke_cow_mapping's pipe

revVars == <<caps, marked, clock, crsi, worker, dirt, forker, pipe>>

(* Two words of page 0, one of page 1, a knote in the kernel. *)
Place == {"p0", "p0b", "p1", "kq"}
PageOf == [p0 |-> 0, p0b |-> 0, p1 |-> 1]
HeapPlace == DOMAIN PageOf

RevInit ==
  /\ caps = [p \in Proc |-> [x \in Place |-> "null"]]
  /\ marked = [p \in Proc |-> FALSE]
  /\ clock = [enq |-> 0, deq |-> 0] /\ crsi = clock
  /\ worker = "idle"
  /\ dirt = [g \in 0..2 |-> "untouched"]
  /\ forker = [at |-> "none", stop |-> FALSE] /\ pipe = 0

(* fork(): the address space is copied, marks included. *)
Inherit ==
  /\ caps' = [caps EXCEPT !["kid"] = caps["main"]]
  /\ marked' = [marked EXCEPT !["kid"] = marked["main"]]
  /\ UNCHANGED <<clock, crsi, worker, dirt, forker, pipe>>

----------------------------------------------------------------------------
Open == clock.enq # clock.deq

(* Storing a capability makes its page dirty. *)
Put(p) ==
  /\ At(p, "put")
  /\ LET x == Arg(p, 1) IN
     /\ caps' = [caps EXCEPT ![p][x] = "cap"]
     /\ IF x = "kq" THEN dirt' = dirt /\ bad' = bad
        ELSE Does(dirt', [dirt EXCEPT ![PageOf[x]] = "dirty"],
                  [undirtied |-> [dirt EXCEPT ![PageOf[x]] = "clean"]])
  /\ Go(p, reg[p])
  /\ UNCHANGED <<marked, clock, crsi, worker, forker, pipe>>

(* Zeroes, or what is left of a revoked capability: the page keeps its state. *)
Overwrite(p) ==
  /\ At(p, "erase")
  /\ caps' = [caps EXCEPT ![p][Arg(p, 1)] = Arg(p, 2)]
  /\ Go(p, reg[p])
  /\ UNCHANGED <<marked, clock, crsi, worker, dirt, forker, pipe, bad>>

(* The first write to a page; vm.capstore_on_alloc decides what it is then. *)
WriteData(p) ==
  /\ At(p, "data")
  /\ LET now(s) == [dirt EXCEPT ![Arg(p, 1)] = s] IN
     \E s \in {"clean", "store"} :
       /\ Does(dirt', now(s), [undirtied |-> now(IF s = "store" THEN "clean" ELSE "store")])
       /\ Go(p, s)       \* the sysctl, read before
  /\ UNCHANGED <<caps, marked, clock, crsi, worker, forker, pipe>>

(* mincore(): one of the states asked for, or as the sysctl said. *)
Mincore(p) ==
  /\ At(p, "mincore")
  /\ Verify(p, dirt[Arg(p, 1)] \in IF Arg(p, 2) = {} THEN {reg[p]} ELSE Arg(p, 2))
  /\ UNCHANGED <<revVars, bad>>

Mark(p) ==
  /\ At(p, "mark")
  /\ marked' = [marked EXCEPT ![p] = Arg(p, 1)]
  /\ Go(p, reg[p])
  /\ UNCHANGED <<caps, clock, crsi, worker, dirt, forker, pipe, bad>>

----------------------------------------------------------------------------
(* What a sweep of p's memory leaves in the places it visits. *)
Swept(p, visited) ==
  [x \in Place |-> IF caps[p][x] = "cap" /\ marked[p] /\ x \in visited THEN "revoked"
                   ELSE caps[p][x]]

(* A page goes from dirty to store to clean, a move per sweep. *)
Wash(words) ==
  [g \in DOMAIN dirt |->
     CASE dirt[g] = "dirty" -> "store"
       [] dirt[g] = "store" /\ (\A x \in HeapPlace : PageOf[x] = g => words[x] # "cap") -> "clean"
       [] OTHER -> dirt[g]]

(* What a sweep leaves, and what a wrong one does. *)
GoodSweep(p) ==
  LET left == Swept(p, Place) IN <<[caps EXCEPT ![p] = left], Wash(left)>>
BadSweep(p) ==
  LET good == GoodSweep(p)
      left(ws) == <<[caps EXCEPT ![p] = ws], good[2]>>
  IN [missed   |-> left(Swept(p, Place \ {"p0"})),
      missedpg |-> left(Swept(p, Place \ {"p1"})),
      missedkq |-> left(Swept(p, Place \ {"kq"})),
      over     |-> left([x \in Place |-> IF caps[p][x] = "cap" THEN "revoked" ELSE caps[p][x]]),
      unwashed |-> <<good[1], dirt>>,
      \* clean at once
      washed   |-> <<good[1], [g \in DOMAIN dirt |->
                               IF dirt[g] = "dirty" THEN "clean" ELSE dirt[g]]>>,
      \* the page is not copied first
      through  |-> <<[q \in Proc |-> IF q = p \/ end[q] = "run" THEN good[1][p] ELSE caps[q]],
                     good[2]>>]

Sweep(p) ==
  \E out \in {GoodSweep(p)} \cup {BadSweep(p)[f] : f \in flaw \cap DOMAIN BadSweep(p)} :
    /\ Does(out, GoodSweep(p), BadSweep(p))
    /\ caps' = out[1] /\ dirt' = out[2]

(* A check that fails: the test's own process says so on the page, one that *)
(* it forked leaves with _exit().                                           *)
Quit(p) ==
  IF p = "main" THEN Die(p)
  ELSE end' = [end EXCEPT ![p] = "software"] /\ UNCHANGED <<todo, reg, page>>

(* cheri_revoke(): without LAST_PASS it opens an epoch, if none is open;    *)
(* with it it sweeps and closes one.  It tells the epochs to a caller that  *)
(* asks: a wrong kernel tells those of before, or such an enqueue epoch.    *)
Revoke(p) ==
  /\ At(p, "revoke")
  /\ LET last == Arg(p, 1) = "last"
         now == IF last THEN [enq |-> clock.deq + 2, deq |-> clock.deq + 2]
                ELSE [enq |-> clock.deq + 1, deq |-> clock.deq]
         stale == [clock |-> clock, enqueue |-> [now EXCEPT !.enq = clock.enq]]
         left == IF last THEN GoodSweep(p) ELSE <<caps, dirt>>
     IN \/ /\ clock' = now /\ crsi' = IF Arg(p, 2) = "crsi" THEN now ELSE crsi
           /\ IF last THEN Sweep(p) ELSE UNCHANGED <<caps, dirt, bad>>
           /\ Go(p, "ok")
        \/ /\ Arg(p, 2) = "crsi"
           /\ \E f \in flaw \cap DOMAIN stale :
                stale[f] # now /\ crsi' = stale[f] /\ bad' = bad \cup {f}
           /\ clock' = now /\ caps' = left[1] /\ dirt' = left[2]
           /\ Go(p, "ok")
        \/ /\ "call" \in flaw /\ bad' = bad \cup {"call"} /\ Quit(p)
           /\ UNCHANGED <<clock, caps, dirt, crsi>>
  /\ UNCHANGED <<marked, worker, forker, pipe>>

(* The shared page must say what the system call said; open: that an epoch *)
(* is open.                                                                *)
CheckClock(p) ==
  /\ At(p, "clock")
  /\ Verify(p, clock.deq = crsi.deq /\ (Arg(p, 1) = "open" => crsi.enq >= crsi.deq + 1))
  /\ UNCHANGED <<revVars, bad>>

(* Loading a capability: an open epoch revokes it there and then. *)
Look(p) ==
  /\ At(p, "look")
  /\ LET x == Arg(p, 1)
         due == Open /\ marked[p] /\ caps[p][x] = "cap" /\ x \in HeapPlace
     IN \E r \in {"null", "cap", "revoked"} :
          /\ Does(r, IF due THEN "revoked" ELSE caps[p][x], [unfaulted |-> caps[p][x]])
          /\ caps' = [caps EXCEPT ![p][x] = r]
          /\ Go(p, r)
  /\ UNCHANGED <<marked, clock, crsi, worker, dirt, forker, pipe>>

----------------------------------------------------------------------------
(* CHERI_REVOKE_ASYNC: opens an epoch for the worker; closes it when the   *)
(* worker is through.                                                      *)
AsyncCall ==
  \/ /\ worker = "idle" /\ clock.enq < MaxEpoch
     /\ clock' = [clock EXCEPT !.enq = @ + 1] /\ worker' = "sweeping"
  \/ worker = "sweeping" /\ UNCHANGED <<clock, worker>>
  \/ /\ worker = "swept" /\ worker' = "idle"
     /\ clock' = [enq |-> clock.deq + 2, deq |-> clock.deq + 2]

Async(p) ==
  /\ At(p, "async")
  /\ AsyncCall
  /\ Does(crsi', clock', [clock |-> clock])
  /\ Go(p, reg[p])
  /\ UNCHANGED <<caps, marked, dirt, forker, pipe>>

WorkerSweeps ==
  /\ worker = "sweeping" /\ worker' = "swept"
  /\ Sweep("main")
  /\ UNCHANGED <<marked, clock, crsi, forker, pipe, todo, reg, page, end>>

(* A kernel that also closes the epoch when nobody asks. *)
WorkerCloses ==
  /\ worker = "swept" /\ "behind" \in flaw
  /\ worker' = "idle" /\ clock' = [enq |-> clock.deq + 2, deq |-> clock.deq + 2]
  /\ bad' = bad \cup {"behind"}
  /\ UNCHANGED <<caps, marked, crsi, dirt, forker, pipe, todo, reg, page, end>>

(* "Bad shared clock": three VERIFYs after the first call. *)
AsyncOpened(p) ==
  /\ At(p, "opened")
  /\ Verify(p, clock = crsi /\ clock.enq = clock.deq + 1)
  /\ UNCHANGED <<revVars, bad>>

(* The loop asks again until the epoch it has read has passed; it does not *)
(* keep what it is told.                                                   *)
AsyncPoll(p) ==
  /\ At(p, "poll")
  /\ \/ /\ clock.deq > 1 /\ Go(p, reg[p])    \* cheri_revoke_epoch_clears()
        /\ UNCHANGED <<clock, worker>>
     \/ /\ clock.deq <= 1 /\ todo' = [todo EXCEPT ![p] = <<<<"again">>>> \o @]
        /\ UNCHANGED <<clock, worker, reg, page, end>>
  /\ UNCHANGED <<caps, marked, crsi, dirt, forker, pipe, bad>>

(* Mutant: the loop's calls also fill in crsi. *)
AsyncAgainKeeping(p) ==
  /\ At(p, "again")
  /\ AsyncCall
  /\ crsi' = clock'
  /\ Go(p, reg[p])
  /\ UNCHANGED <<caps, marked, dirt, forker, pipe, bad>>

(* Mutant: the loop only looks at the clock. *)
AsyncAgainIdle(p) ==
  /\ At(p, "again") /\ Go(p, reg[p])
  /\ UNCHANGED <<revVars, bad>>

AsyncAgain(p) ==
  /\ At(p, "again")
  /\ AsyncCall
  /\ Go(p, reg[p])
  /\ UNCHANGED <<caps, marked, crsi, dirt, forker, pipe, bad>>

AsyncClosed(p) ==
  /\ At(p, "closed")
  /\ Verify(p, clock.enq = clock.deq /\ clock.deq = crsi.deq + 2)
  /\ UNCHANGED <<revVars, bad>>

----------------------------------------------------------------------------
(***************************************************************************)
(* The forker thread.  The process it forks is caught by the check meant   *)
(* for a failed fork(), and declares the test failed.                      *)
(***************************************************************************)
ForkerMoves(from, to) ==
  /\ forker.at = from /\ forker' = [forker EXCEPT !.at = to]
  /\ UNCHANGED <<caps, marked, clock, crsi, worker, dirt, pipe, todo, reg, end, bad>>

ThreadStart ==
  /\ At("main", "thread") /\ forker' = [forker EXCEPT !.at = "loop"] /\ Go("main", reg["main"])
  /\ UNCHANGED <<caps, marked, clock, crsi, worker, dirt, pipe, bad>>

ForkerForks ==
  ~forker.stop /\ end["main"] = "run" /\ ForkerMoves("loop", "child") /\ UNCHANGED page
ForkerChild == ForkerMoves("child", "dead") /\ page' = "failure"
ForkerReaps == end["main"] = "run" /\ ForkerMoves("dead", "loop") /\ UNCHANGED page
ForkerEnds == forker.stop /\ ForkerMoves("loop", "none") /\ UNCHANGED page

(* forker_res = 1. *)
StopForker ==
  /\ At("main", "stop") /\ forker' = [forker EXCEPT !.stop = TRUE] /\ Go("main", reg["main"])
  /\ UNCHANGED <<caps, marked, clock, crsi, worker, dirt, pipe, bad>>

(* Mutant: the thread is not waited for. *)
JoinNone ==
  /\ At("main", "join") /\ Go("main", reg["main"])
  /\ UNCHANGED <<revVars, bad>>

(* pthread_join(). *)
Join ==
  /\ At("main", "join") /\ forker.at = "none" /\ Go("main", reg["main"])
  /\ UNCHANGED <<revVars, bad>>

PipeWrite(p) ==
  /\ At(p, "pipewrite") /\ pipe' = pipe + 1 /\ Go(p, reg[p])
  /\ UNCHANGED <<caps, marked, clock, crsi, worker, dirt, forker, bad>>

(* read() from the pipe blocks: the reader holds a write end as well, so   *)
(* that not even its parent's death ends it.                               *)
PipeRead(p) ==
  /\ At(p, "piperead") /\ pipe > 0 /\ pipe' = pipe - 1 /\ Go(p, reg[p])
  /\ UNCHANGED <<caps, marked, clock, crsi, worker, dirt, forker, bad>>

(* msync(MS_INVALIDATE) of page 0, and mincore() to see that it is out; the *)
(* parent also sees that page 1 is not.                                     *)
PageOut(p) ==
  /\ At(p, "pageout")
  /\ \/ \E st \in {"out", "in"} \X {"out", "in"} :
          /\ Does(st, <<"out", "in">>,
                  [resident |-> <<"in", "in">>, evicted |-> <<"out", "out">>])
          /\ IF st[1] = "out" /\ (p = "main" => st[2] = "in") THEN Go(p, reg[p]) ELSE Quit(p)
     \/ "call" \in flaw /\ bad' = bad \cup {"call"} /\ Quit(p)
  /\ UNCHANGED revVars

RevStep(p) ==
  \/ Put(p) \/ Overwrite(p) \/ WriteData(p) \/ Mincore(p) \/ Mark(p) \/ Revoke(p)
  \/ CheckClock(p) \/ Look(p) \/ Async(p) \/ AsyncOpened(p) \/ AsyncPoll(p)
  \/ AsyncAgain(p) \/ AsyncClosed(p) \/ PipeWrite(p) \/ PipeRead(p) \/ PageOut(p)
  \/ p = "main" /\ (ThreadStart \/ StopForker \/ Join)

=============================================================================
