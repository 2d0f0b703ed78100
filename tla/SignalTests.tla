---------------------------- MODULE SignalTests ----------------------------
(***************************************************************************)
(* The tests of cheriostest_signal.c and cheriostest_ipc.c, and of         *)
(* cheriostest_syscall.c those about signals: sig_dfl_ign and aio_sival.   *)
(* Signals are sent by the test to itself or its child, by a timer and by  *)
(* a completed asynchronous read; they wait while they are blocked.        *)
(***************************************************************************)
EXTENDS Script, Sequences

VARIABLES
  disp,    \* what is done with a signal
  mask,    \* the signals each process blocks
  pend,    \* the signals that wait for each process
  alt,     \* "alt" if an alternate signal stack is enabled, otherwise "own"
  timer,   \* alarm(2) is running
  aio      \* the asynchronous read: "none", "armed", "eof" (its peer is closed), "done"

sigVars == <<disp, mask, pend, alt, timer, aio>>

(* "controller" is signal_handler(), which cheriostest_run_test() installs. *)
SigInit ==
  /\ disp = [USR1 |-> "default", URG |-> "default", ALRM |-> "controller"]
  /\ mask = [p \in Proc |-> {}] /\ pend = [p \in Proc |-> {}]
  /\ alt = "own" /\ timer = FALSE /\ aio = "none"

(* What the children of sig_dfl_ign do. *)
SuspendedKid == <<<<"suspend">>, <<"leave", "42">>>>

InheritMask ==
  /\ mask' = [mask EXCEPT !["kid"] = mask["main"]] /\ pend' = [pend EXCEPT !["kid"] = {}]
  /\ UNCHANGED <<disp, alt, timer, aio>>

Sigaction(p) ==
  /\ At(p, "sigaction") /\ disp' = [disp EXCEPT ![Arg(p, 1)] = Arg(p, 2)] /\ Go(p, reg[p])
  /\ UNCHANGED <<mask, pend, alt, timer, aio, bad>>

(* sigprocmask(SIG_BLOCK). *)
Block(p) ==
  /\ At(p, "block") /\ mask' = [mask EXCEPT ![p] = @ \cup Arg(p, 1)] /\ Go(p, reg[p])
  /\ UNCHANGED <<disp, pend, alt, timer, aio, bad>>

Sigaltstack(p) ==
  /\ At(p, "altstack") /\ alt' = Arg(p, 1) /\ Go(p, reg[p])
  /\ UNCHANGED <<disp, mask, pend, timer, aio, bad>>

(* What the handlers of cheriostest_signal.c leave in their variables. *)
HandlerSees ==
  CASE disp["USR1"] = "handler_func"    -> "USR1"
    [] disp["USR1"] = "sigaction_func"  -> "USR1"
    [] disp["USR1"] = "sigaltstack_func" -> alt
    [] disp["USR1"] = "returncap_func"  -> "sentry"

(* kill(getpid(), SIGUSR1): not blocked, so the handler has run when it returns. *)
KillSelf(p) ==
  /\ At(p, "killself")
  /\ \E v \in {"USR1", "alt", "own", "sentry", "nothing", "other", "badinfo", "plain"} :
       /\ Does(v, HandlerSees,
               [lostsig |-> "nothing",
                wrongsig |-> IF HandlerSees = "USR1" THEN "other" ELSE HandlerSees,
                badinfo |-> IF disp["USR1"] = "sigaction_func" THEN "badinfo" ELSE HandlerSees,
                wrongstack |-> IF HandlerSees = "alt" THEN "own"
                               ELSE IF HandlerSees = "own" THEN "alt" ELSE HandlerSees,
                unsealed |-> IF HandlerSees = "sentry" THEN "plain" ELSE HandlerSees])
       /\ Go(p, v)
  /\ UNCHANGED sigVars

(* A load, store or branch that must raise SIGSEGV. *)
Touch(p) ==
  /\ At(p, "touch")
  /\ \/ Trap(p) /\ UNCHANGED bad
     \/ "mapped" \in flaw /\ bad' = bad \cup {"mapped"} /\ Go(p, reg[p])
  /\ UNCHANGED sigVars

Alarm(p) ==
  /\ At(p, "alarm") /\ timer' = TRUE /\ Go(p, reg[p])
  /\ UNCHANGED <<disp, mask, pend, alt, aio, bad>>

(* A write() larger than the pipe: it does not return. *)
PipeFill(p) ==
  /\ At(p, "pipefill") /\ "noblock" \in flaw /\ bad' = bad \cup {"noblock"} /\ Go(p, reg[p])
  /\ UNCHANGED sigVars

(* A page written to a pipe and read again: the bits, but not the tag. *)
PipeCopy(p) ==
  /\ At(p, "pipecopy")
  /\ \E v \in {"bits", "tag", "other", "short", "robbed"} :
       /\ Does(v, "bits", [pipetag |-> "tag", garbled |-> "other", call |-> "short",
                           robbed |-> "robbed"])
       /\ Go(p, v)
  /\ UNCHANGED sigVars

(* fork() of sig_dfl_ign, which does not look whether it failed: then the   *)
(* signals go to -1, waitpid() returns the same, and the asserts read a      *)
(* status nobody has set.                                                    *)
ForkUnchecked ==
  /\ At("main", "forkunchecked")
  /\ \/ /\ todo' = [main |-> Tail(todo["main"]), kid |-> SuspendedKid]
        /\ end' = [end EXCEPT !["kid"] = "run"]
        /\ InheritMask /\ UNCHANGED <<reg, page, bad>>
     \/ /\ "call" \in flaw /\ bad' = bad \cup {"call"}
        /\ \/ end' = [end EXCEPT !["main"] = "software"] /\ UNCHANGED todo
           \/ /\ todo' = [todo EXCEPT !["main"] = SubSeq(@, Arg("main", 1) + 2, Len(@))]
              /\ UNCHANGED end
        /\ UNCHANGED <<sigVars, reg, page>>

(* kill(cpid, sig).  An ignored signal is thrown away. *)
KillKid ==
  /\ At("main", "kill")
  /\ LET sig == Arg("main", 1)
     IN \E how \in {disp[sig], "default", "ignore"} :
          /\ Does(how, disp[sig],
                  [ignfatal |-> IF disp[sig] = "ignore" THEN "default" ELSE disp[sig],
                   dflign |-> IF disp[sig] = "default" THEN "ignore" ELSE disp[sig]])
          /\ pend' = [pend EXCEPT !["kid"] = @ \cup (IF how = "ignore" THEN {} ELSE {sig})]
          /\ disp' = [disp EXCEPT ![sig] = how]
  /\ Go("main", reg["main"])
  /\ UNCHANGED <<mask, alt, timer, aio>>

(* sigsuspend() with nothing blocked: the pending signals are taken, in an   *)
(* order that is not defined, and it returns if handlers ran; the last one   *)
(* decides what is left in test_aio_sival_signal.                            *)
Suspend(p) ==
  /\ At(p, "suspend") /\ pend[p] # {}
  /\ IF \E s \in pend[p] : disp[s] = "default"
     THEN /\ end' = [end EXCEPT ![p] = "killed"]
          /\ UNCHANGED <<todo, reg, page, bad, pend>>
     ELSE /\ \E last \in pend[p] : \E v \in {last, "badcode", "badvalue"} :
               /\ Does(v, last, [sicode |-> IF last = "USR1" THEN "badcode" ELSE last,
                                 sival |-> IF last = "USR1" THEN "badvalue" ELSE last])
               /\ Go(p, v)
          /\ pend' = [pend EXCEPT ![p] = {}]
  /\ UNCHANGED <<disp, mask, alt, timer, aio>>

(* aio_read(), and close() of the other end of the socket. *)
AioRead(p) ==
  /\ At(p, "aioread") /\ aio' = "armed" /\ Go(p, reg[p])
  /\ UNCHANGED <<disp, mask, pend, alt, timer, bad>>
ClosePeer(p) ==
  /\ At(p, "closepeer") /\ aio' = "eof" /\ Go(p, reg[p])
  /\ UNCHANGED <<disp, mask, pend, alt, timer, bad>>

(* waitpid(): the register gets how the child ended. *)
Reap ==
  /\ At("main", "reap") /\ end["kid"] \notin {"run", "stopped"}
  /\ Go("main", end["kid"])
  /\ UNCHANGED <<sigVars, bad>>

SigStep(p) ==
  \/ Sigaction(p) \/ Block(p) \/ Sigaltstack(p) \/ KillSelf(p) \/ Touch(p) \/ Alarm(p)
  \/ PipeFill(p) \/ PipeCopy(p) \/ Suspend(p) \/ AioRead(p) \/ ClosePeer(p)
  \/ p = "main" /\ (ForkUnchecked \/ KillKid \/ Reap)

----------------------------------------------------------------------------
(* The kernel's part. *)

TimerFires ==
  /\ timer /\ ~Ended /\ timer' = FALSE /\ pend' = [pend EXCEPT !["main"] = @ \cup {"ALRM"}]
  /\ UNCHANGED <<disp, mask, alt, aio, todo, reg, page, end, bad>>

AioDone ==
  /\ aio = "eof" /\ aio' = "done"
  /\ \/ pend' = [pend EXCEPT !["main"] = @ \cup {"USR1"}] /\ UNCHANGED bad
     \/ "lostaio" \in flaw /\ bad' = bad \cup {"lostaio"} /\ UNCHANGED pend
  /\ UNCHANGED <<disp, mask, alt, timer, todo, reg, page, end>>

(* A signal that is not blocked interrupts whatever the process is doing. *)
Deliver(p) ==
  /\ end[p] = "run"
  /\ \E s \in pend[p] \ mask[p] :
       /\ pend' = [pend EXCEPT ![p] = @ \ {s}]
       /\ IF disp[s] \in {"controller", "default"} THEN Trap(p)
          ELSE UNCHANGED <<todo, reg, page, end>>
  /\ UNCHANGED <<disp, mask, alt, timer, aio, bad>>

----------------------------------------------------------------------------
SigHandled(handler, want) ==
  <<<<"call">>, <<"sigaction", "USR1", handler>>, <<"killself">>, <<"want", {want}>>>> \o Success

signal_handler_usr1 == Plain("signal_handler_usr1", SigHandled("handler_func", "USR1"))
signal_sigaction_usr1 == Plain("signal_sigaction_usr1", SigHandled("sigaction_func", "USR1"))
(* c18n: CHERIOSTEST_C18N_TESTS, the build in which it is known to fail. *)
signal_sigaltstack(c18n) ==
  TestOf("signal_sigaltstack", FALSE, c18n,
        <<<<"call">>, <<"altstack", "alt">>>> \o SigHandled("sigaltstack_func", "alt"))
signal_sigaltstack_disable ==
  Plain("signal_sigaltstack_disable",
        <<<<"call">>, <<"altstack", "alt">>, <<"call">>, <<"altstack", "own">>>>
        \o SigHandled("sigaltstack_func", "own"))
signal_returncap == Plain("signal_returncap", SigHandled("returncap_func", "sentry"))

(* Six tests that load from, store to and branch to two addresses. *)
pointer_sigsegv == TestOf("pointer_sigsegv", TRUE, FALSE, <<<<"touch">>>> \o Failure)

ipc_pipe_sleep_signal ==
  TestOf("ipc_pipe_sleep_signal", TRUE, FALSE,
         <<<<"call">>, <<"alarm">>, <<"pipefill">>>> \o Failure)
ipc_pipe_nocaps ==
  Plain("ipc_pipe_nocaps", <<<<"call">>, <<"pipecopy">>, <<"want", {"bits"}>>, <<"call">>>> \o Success)

(* Its checks are assert()s. *)
sig_dfl_ign ==
  Plain("sig_dfl_ign",
        <<<<"block", {"USR1", "URG"}>>, <<"sigaction", "USR1", "ignore">>,
          <<"sigaction", "URG", "test_sig_dfl_ign_handler">>, <<"forkunchecked", 4>>,
          <<"kill", "USR1">>, <<"kill", "URG">>, <<"reap">>, <<"demand", {"42"}>>,
          <<"sigaction", "USR1", "default">>, <<"forkunchecked", 3>>,
          <<"kill", "USR1">>, <<"reap">>, <<"demand", {"killed"}>>>> \o Success)

aio_sival ==
  Plain("aio_sival",
        <<<<"call">>, <<"sigaction", "USR1", "test_aio_sival_handler">>,
          <<"call">>, <<"sigaction", "ALRM", "test_aio_sival_handler">>, <<"call">>,
          <<"call">>, <<"aioread">>, <<"block", {"USR1", "ALRM"}>>, <<"closepeer">>,
          <<"alarm">>, <<"suspend">>, <<"want", {"USR1"}>>>> \o Success)

SignalTestSet ==
  {signal_handler_usr1, signal_sigaction_usr1, signal_sigaltstack(FALSE), signal_sigaltstack(TRUE),
   signal_sigaltstack_disable, signal_returncap, pointer_sigsegv,
   ipc_pipe_sleep_signal, ipc_pipe_nocaps, sig_dfl_ign, aio_sival}

=============================================================================
