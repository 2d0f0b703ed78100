----------------------------- MODULE TlsThreads -----------------------------
(***************************************************************************)
(* tls_threads: two threads hand each other the turn with a mutex and a    *)
(* condition variable; the first looks at the other's thread-local         *)
(* variables while it is held there.  The second thread takes the place of *)
(* the test's child; it ends with the process.                             *)
(***************************************************************************)
EXTENDS Script, Integers, Sequences

VARIABLES
  owner,         \* the thread that holds lock, or "nobody"
  cond,          \* for each thread: "out", "waiting", or "woken"
  thread_done,
  tls            \* for each thread, how often its variables were incremented

tlsVars == <<owner, cond, thread_done, tls>>

TlsInit ==
  /\ owner = "nobody" /\ cond = [p \in Proc |-> "out"]
  /\ thread_done = 0 /\ tls = [p \in Proc |-> 0]

TlsAt(p, name) == ~Ended /\ At(p, name)

(* A function of libpthread fails: the whole process ends. *)
PthreadFails(p) ==
  /\ \E name \in {"create", "lock", "announce", "condwait", "unlock"} : TlsAt(p, name)
  /\ "call" \in flaw /\ bad' = bad \cup {"call"} /\ page' = "failure"
  /\ end' = [q \in Proc |-> "software"]
  /\ UNCHANGED <<todo, reg, tlsVars>>

(* pthread_create(). *)
ThreadCreate ==
  /\ TlsAt("main", "create")
  /\ todo' = [main |-> Tail(todo["main"]), kid |-> Arg("main", 1)]
  /\ end' = [end EXCEPT !["kid"] = "run"]
  /\ UNCHANGED <<reg, page, bad, tlsVars>>

(* ++tls_gd and the others; a wrong linker gives both threads the same ones, *)
(* or does not start them at their values.                                   *)
Increment ==
  /\ TlsAt("kid", "increment")
  /\ \E v \in {<<0, 1>>, <<1, 1>>, <<0, 2>>} :
       /\ Does(v, <<0, 1>>, [sametls |-> <<1, 1>>, noinit |-> <<0, 2>>])
       /\ tls' = [main |-> v[1], kid |-> v[2]]
  /\ Go("kid", reg["kid"])
  /\ UNCHANGED <<owner, cond, thread_done>>

Lock(p) ==
  /\ TlsAt(p, "lock") /\ owner = "nobody" /\ owner' = p /\ Go(p, reg[p])
  /\ UNCHANGED <<cond, thread_done, tls, bad>>

Unlock(p) ==
  /\ TlsAt(p, "unlock") /\ owner = p /\ owner' = "nobody" /\ Go(p, reg[p])
  /\ UNCHANGED <<cond, thread_done, tls, bad>>

(* thread_done = n and pthread_cond_broadcast(). *)
Announce(p) ==
  /\ TlsAt(p, "announce")
  /\ thread_done' = Arg(p, 1)
  /\ cond' = [q \in Proc |-> IF cond[q] = "waiting" THEN "woken" ELSE cond[q]]
  /\ Go(p, reg[p])
  /\ UNCHANGED <<owner, tls, bad>>

(* pthread_cond_wait(): the lock is given up. *)
CondWait(p) ==
  /\ TlsAt(p, "condwait") /\ cond[p] = "out" /\ owner = p
  /\ owner' = "nobody" /\ cond' = [cond EXCEPT ![p] = "waiting"]
  /\ UNCHANGED <<thread_done, tls, bad, todo, reg, page, end>>

(* It returns with the lock. *)
CondReturn(p) ==
  /\ TlsAt(p, "condwait") /\ cond[p] = "woken" /\ owner = "nobody"
  /\ owner' = p /\ cond' = [cond EXCEPT ![p] = "out"] /\ Go(p, reg[p])
  /\ UNCHANGED <<thread_done, tls, bad>>

(* Nobody need have called pthread_cond_broadcast(). *)
SpuriousWakeup(p) ==
  /\ ~Ended /\ cond[p] = "waiting" /\ cond' = [cond EXCEPT ![p] = "woken"]
  /\ UNCHANGED <<owner, thread_done, tls, bad, todo, reg, page, end>>

(* Mutant: if (thread_done == n) pthread_cond_wait(). *)
WhileDoneOnce(p) ==
  /\ TlsAt(p, "while") /\ owner = p
  /\ todo' = [todo EXCEPT ![p] = (IF thread_done = Arg(p, 1) THEN <<<<"condwait">>>> ELSE <<>>)
                                 \o Tail(@)]
  /\ UNCHANGED <<tlsVars, reg, page, end, bad>>

(* Mutant: while (thread_done == n) continue; *)
WhileDoneSpin(p) ==
  /\ TlsAt(p, "while") /\ owner = p
  /\ todo' = [todo EXCEPT ![p] = IF thread_done = Arg(p, 1) THEN @ ELSE Tail(@)]
  /\ UNCHANGED <<tlsVars, reg, page, end, bad>>

(* while (thread_done == n) pthread_cond_wait(). *)
WhileDone(p) ==
  /\ TlsAt(p, "while") /\ owner = p
  /\ todo' = [todo EXCEPT ![p] = IF thread_done = Arg(p, 1) THEN <<<<"condwait">>>> \o @ ELSE Tail(@)]
  /\ UNCHANGED <<tlsVars, reg, page, end, bad>>

(* *thr_tls_ie and the others, through pointers the thread has left. *)
ReadThread ==
  /\ TlsAt("main", "readthread")
  /\ Go("main", IF tls["kid"] = 1 THEN "incremented" ELSE "other")
  /\ UNCHANGED <<tlsVars, bad>>

(* *my_tls_ie and the others.  CHECK_DISJOINT() and CHECK_BOUNDS() look at *)
(* the pointers only.                                                      *)
CheckTls ==
  /\ TlsAt("main", "checktls")
  /\ \E sound \in BOOLEAN :
       /\ Does(sound, TRUE, [overlap |-> FALSE])
       /\ Verify("main", tls["main"] = 0 /\ reg["main"] = "incremented" /\ sound)
  /\ UNCHANGED tlsVars

(* The thread's function returns. *)
ThreadReturns ==
  /\ ~Ended /\ end["kid"] = "run" /\ test.name = "tls_threads" /\ todo["kid"] = <<>>
  /\ end' = [end EXCEPT !["kid"] = "ok"]
  /\ UNCHANGED <<tlsVars, todo, reg, page, bad>>

TlsStep(p) ==
  \/ PthreadFails(p) \/ Lock(p) \/ Unlock(p) \/ Announce(p) \/ CondWait(p) \/ CondReturn(p) \/ WhileDone(p)
  \/ p = "main" /\ (ThreadCreate \/ ReadThread \/ CheckTls)
  \/ p = "kid" /\ (Increment \/ ThreadReturns)

----------------------------------------------------------------------------
test_tls_threads_get_vars ==
  <<<<"increment">>, <<"lock">>, <<"announce", 1>>, <<"condwait">>, <<"while", 1>>, <<"unlock">>>>
tls_threads ==
  Plain("tls_threads",
        <<<<"create", test_tls_threads_get_vars>>, <<"lock">>, <<"while", 0>>, <<"readthread">>,
          <<"announce", 2>>, <<"unlock">>, <<"checktls">>>> \o Success)

=============================================================================
