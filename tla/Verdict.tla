------------------------------ MODULE Verdict ------------------------------
(***************************************************************************)
(* The decision procedure of cheriostest_run_test(): what the controller   *)
(* concludes from the wait status of a test process, the page it shares    *)
(* with it (struct cheriostest_child_state) and its standard output.       *)
(* Pure operators; Harness evaluates them one after another, the way the   *)
(* function does, while other processes may still be running.              *)
(***************************************************************************)
EXTENDS Integers, Sequences

EX_OK       == 0
EX_USAGE    == 64
EX_SOFTWARE == 70
EX_OSERR    == 71
EX_FAILED   == 255          \* exit(-1), as its parent sees it

TESTRESULT_UNKNOWN == 0
TESTRESULT_SUCCESS == 1
TESTRESULT_FAILURE == 2

(* CT_FLAG_*.  SLOW is a flag like the others. *)
Flag == {"SIGNAL", "SI_TRAPNO", "STDOUT_STRING", "STDIN_STRING",
         "STDOUT_IGNORE", "SLOW", "SI_CODE", "SIGEXIT", "SI_ADDR"}

(***************************************************************************)
(* The shared page after bzero().  si_addr stands for the pair of an       *)
(* untagged address and its tag; a message (testresult_str) is the number  *)
(* of the run whose process wrote it, 0 for the empty string.  sig_by and  *)
(* res_by are history fields: the run whose process last filled in the     *)
(* signal fields, and the result.                                          *)
(***************************************************************************)
ZeroState == [signum |-> 0, si_code |-> 0, si_trapno |-> 0, si_addr |-> 0,
              testresult |-> TESTRESULT_UNKNOWN, str |-> 0,
              si_addr_expected |-> 0, warn |-> FALSE,
              sig_by |-> 0, res_by |-> 0]

(* What waitpid() can store: the process exited or was killed by a signal. *)
Status == [kind : {"exited", "signaled"}, val : Nat]

(* The test reported a failure itself; looked at before everything else. *)
DeclaredFailure(ccs) == ccs.testresult = TESTRESULT_FAILURE

(* CT_FLAG_SIGEXIT: the process must die of ct_signum, nothing else counts. *)
SigexitOK(ctp, status) == /\ status.kind = "signaled"
                          /\ status.val = ctp.signum

StatusOK(status) == /\ status.kind = "exited"
                    /\ status.val \in {EX_OK, EX_SOFTWARE}

(* What the signal handler stored is what the descriptor asks for. *)
SignalOK(ctp, ccs) ==
  /\ ccs.signum >= 0
  /\ "SIGNAL"    \in ctp.flags => ccs.signum = ctp.signum
  /\ "SI_CODE"   \in ctp.flags => ccs.si_code = ctp.si_code
  /\ "SI_TRAPNO" \in ctp.flags => ccs.si_trapno = ctp.si_trapno
  /\ "SI_ADDR"   \in ctp.flags => ccs.si_addr = ccs.si_addr_expected

(* A test that is not about a signal must have had none and say success. *)
UnexpectedSignal(ctp, ccs) == "SIGNAL" \notin ctp.flags /\ ccs.signum # 0

HarnessError(ctp, ccs) == /\ "SIGNAL" \notin ctp.flags
                          /\ ccs.signum = 0
                          /\ ccs.testresult # TESTRESULT_SUCCESS

(* readOK: read() did not fail; data: what it returned. *)
OutputOK(ctp, readOK, data) ==
  IF "STDOUT_STRING" \in ctp.flags
  THEN readOK /\ data = ctp.stdout
  ELSE "STDOUT_IGNORE" \in ctp.flags \/ ~readOK \/ data = <<>>

(* FAIL unless the test has a reason to fail; and PASS unless it has one. *)
FailVerdict(xfail, flaky) == IF xfail \/ flaky THEN "XFAIL" ELSE "FAIL"
PassVerdict(xfail)        == IF xfail THEN "XPASS" ELSE "PASS"

=============================================================================
