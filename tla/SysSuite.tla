------------------------------ MODULE SysSuite ------------------------------
(***************************************************************************)
(* The tests about other services of the system together: tracing, signals *)
(* and pipes, the allocator, threads, and copying of memory; one of them,  *)
(* on one system.                                                          *)
(***************************************************************************)
EXTENDS PtraceTests, SignalTests, MallocTests, TlsThreads, StringCopy

CONSTANT Flaws   \* the errors, by family, as sets of sets

Family == {"ptrace", "signal", "malloc", "tls", "string"}

ASSUME SysSuiteAssumption == DOMAIN Flaws = Family /\ \A f \in Family : {} \in Flaws[f]

vars == <<scriptVars, traceVars, sigVars, mallocVars, tlsVars, stringVars>>

(* No step changes reg alone. *)
moves == <<todo, page, end, bad, traceVars, sigVars, mallocVars, tlsVars, stringVars>>

Untouched == [mem |-> Rubbish, tag |-> FALSE]

Init ==
  /\ sys \in Systems
  /\ TraceInit /\ SigInit /\ TlsInit /\ MallocInit /\ StringInit
  /\ \/ ScriptInit(PtraceTestSet, Flaws["ptrace"])
     \/ ScriptInit(SignalTestSet, Flaws["signal"])
     \/ ScriptInit({tls_threads}, Flaws["tls"])
     \/ ScriptInit(MallocTestSet, Flaws["malloc"])
     \/ ScriptInit(StringTestSet, Flaws["string"])
  /\ test \notin StringTestSet => t2 = Untouched
  /\ test \notin malloc_revocation_ctl => elf = CHOOSE f \in Binaries : TRUE

SysStep(p) ==
  \/ /\ p = "main" /\ ForkStep /\ InheritTags /\ InheritMask
     /\ UNCHANGED <<mallocVars, tlsVars, stringVars>>
  \/ /\ CommonStep(p) \/ Leave(p)
     /\ UNCHANGED <<traceVars, sigVars, mallocVars, tlsVars, stringVars>>
  \/ TraceStep(p) /\ UNCHANGED <<sigVars, mallocVars, tlsVars, stringVars>>
  \/ SigStep(p) /\ UNCHANGED <<traceVars, mallocVars, tlsVars, stringVars>>
  \/ MallocStep(p) /\ UNCHANGED <<traceVars, sigVars, tlsVars, stringVars>>
  \/ TlsStep(p) /\ UNCHANGED <<traceVars, sigVars, mallocVars, stringVars>>
  \/ p = "main" /\ StringStep /\ UNCHANGED <<traceVars, sigVars, mallocVars, tlsVars>>

Kernel ==
  \/ TracerGone /\ UNCHANGED <<sigVars, mallocVars, tlsVars, stringVars>>
  \/ /\ TimerFires \/ AioDone \/ \E p \in Proc : Deliver(p)
     /\ UNCHANGED <<traceVars, mallocVars, tlsVars, stringVars>>

(* What may happen but need not. *)
Chance ==
  /\ \E p \in Proc : SpuriousWakeup(p)
  /\ UNCHANGED <<traceVars, sigVars, mallocVars, stringVars>>

(* The controller goes on when its child has ended.  The second child of  *)
(* sig_dfl_ign waits for ever if SIGUSR1 does not kill it, and with it the *)
(* test and the controller.                                                *)
Over == (Ended \/ "dflign" \in bad) /\ UNCHANGED vars

Next ==
  \/ (Kernel \/ Chance \/ \E p \in Proc : SysStep(p)) /\ UNCHANGED setting
  \/ Over

(* Every process and thread that can run is run, one that asks for a mutex  *)
(* that is free again and again gets it, timers go off and signals arrive.  *)
Fairness ==
  /\ \A p \in Proc : SF_moves(SysStep(p) /\ UNCHANGED setting)
  /\ WF_moves(Kernel /\ UNCHANGED setting)

Spec == Init /\ [][Next]_vars /\ Fairness

----------------------------------------------------------------------------
SysPassed == Ended /\ Outcome \in {"PASS", "XPASS"}

(* Errors systems are known to have: the tests they fail say so. *)
SysKnown == IF FreeBSD THEN {"ptkill"} ELSE {}

(* Tests that can fail although nothing is wrong.  The child of ptrace_basic *)
(* does not wait on Linux, where the end of the pipe it reads is for writing *)
(* (syscall.c 217); the signal aio_sival waits for may come after its alarm. *)
Racing == \/ ~FreeBSD /\ test.name = "ptrace_basic"
          \/ test.name = "aio_sival" /\ reg["main"] = "ALRM"

(* What a test does not look at, though it makes the system do it. *)
Unseen ==
  CASE test.name = "ptrace_setcapregs_riscv" -> {"notag", "alltags", "forge", "call"}
    [] test.name = "ptrace_setcapregs" -> {"alltags"}   \* when the register is put back
    [] test.name = "sig_dfl_ign" -> {"call"}   \* fork()
    [] test.name = "ipc_pipe_sleep_signal" -> {"noblock"}
    [] test.name \in {"elfnote_enable_protctl_disable", "suid_elfnote_disable_protctl_enable"} ->
         {"procctl", "nonote"}
    [] test.name \in {"baseline", "suid_baseline"} -> {"preset", "note"}
    [] test.name \in {"mallocx_alignment", "rallocx_alignment"} -> {"nomem"}
    [] test.name = "malloc_revoke_quarantine_force_flush_twice" -> {"tooearly"}
    [] test.name = "malloc_zero_size" -> {"misaligned"}
    [] test \in StringTestSet -> {"nothing", "skiphead", "skiptail"}
    [] OTHER -> {}

(***************************************************************************)
(* No test fails on a system that does what it asks for, in whatever order *)
(* its processes, its threads and their signals come, but for two that     *)
(* race with something they do not wait for.                               *)
(***************************************************************************)
RightSystemNotFailed ==
  Ended /\ Outcome = "FAIL" => bad \ SysKnown # {} \/ Racing

(***************************************************************************)
(* A test passes on a system that went wrong only where Unseen says so:    *)
(* everything else is looked at before cheriostest_success(), and a child  *)
(* that found something does not get lost.                                 *)
(***************************************************************************)
WrongSystemFound == SysPassed => bad \subseteq Unseen

(***************************************************************************)
(* A test that passes has seen its child end: finish_child() lets a        *)
(* stopped one go first.  ptrace_setcapregs on RISC-V declares success     *)
(* while its child is stopped; a thread ends with its process.             *)
(***************************************************************************)
ChildSeenOff ==
  SysPassed /\ test.name \notin {"ptrace_setcapregs_riscv", "tls_threads"} =>
    end["kid"] \notin {"run", "stopped"}

(***************************************************************************)
(* A test ends: no signal is lost between a check and the wait for it, no  *)
(* wake-up of a thread either, and no tracer waits for a child that waits  *)
(* for it.  Only where a signal that should kill is ignored does           *)
(* sig_dfl_ign wait for ever.                                              *)
(***************************************************************************)
EveryTestEnds == <>(Ended \/ "dflign" \in bad)

(***************************************************************************)
(* Where set-feature-ctl-note succeeds, the file differs from what it was  *)
(* in one word at most, which is the descriptor of the feature control     *)
(* note, and there exactly one of the two bits is set and all others are   *)
(* as before; and it fails only if there is no such note.                  *)
(***************************************************************************)
OneBitOfTheNote ==
  LET at == (elf.desc \div 4) + 1
      Disable(v) == HasBit(v, NT_FREEBSD_FCTL_CHERI_REVOKE_DISABLE)
      Enable(v) == HasBit(v, NT_FREEBSD_FCTL_CHERI_REVOKE_ENABLE)
      Others(v) == v - (IF Disable(v) THEN NT_FREEBSD_FCTL_CHERI_REVOKE_DISABLE ELSE 0)
                     - (IF Enable(v) THEN NT_FREEBSD_FCTL_CHERI_REVOKE_ENABLE ELSE 0)
  IN /\ helper.ok =>
          /\ \A i \in 1 .. Len(elf.word) : helper.word[i] # elf.word[i] => i = at
          /\ helper.word # elf.word =>
               /\ Others(helper.word[at]) = Others(elf.word[at])
               /\ Enable(helper.word[at]) # Disable(helper.word[at])
     /\ "nonote" \in bad => elf.desc = None

(***************************************************************************)
(* invalidate() writes "an obviously invalid byte pattern over the output  *)
(* structure", so that what check() accepts was written by the copy it     *)
(* follows, and a copy that leaves bytes out is found.                     *)
(***************************************************************************)
PartialCopyFound == SysPassed => bad \cap {"nothing", "skiphead", "skiptail"} = {}

=============================================================================
