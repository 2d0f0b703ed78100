---------------------------- MODULE HarnessProps ----------------------------
(* What the harness has to keep true; MCHarness checks it, HarnessProofs *)
(* proves part of it.                                                    *)
EXTENDS Harness

ProcPc == {"none", "body", "unwarn", "setwarn", "warned", "failing",
           "failed", "flush", "zombie", "reaped"}
Pc == {"main", "select", "stdin", "fork", "wait", "result", "status",
       "signal", "report", "output", "pass", "fail", "return", "done"}
Verdicts == {"", "PASS", "XPASS", "FAIL", "XFAIL", "SKIP"}
Reason == {"", "prefix", "stdin", "declared", "status", "signal",
           "unexpected", "harness", "output"}
State == [signum : Nat, si_code : Nat, si_trapno : Nat, si_addr : Nat,
          testresult : {0, 1, 2}, str : 0..MaxRun, si_addr_expected : Nat,
          warn : BOOLEAN, sig_by : 0..MaxRun, res_by : 0..MaxRun]

Counters == [run : Nat, skipped : Nat, failed : Nat, passed : Nat,
             xfailed : Nat, xpassed : Nat, expected : Nat]

ProcTypeOK ==
  /\ plan \in Plans
  /\ ccs \in State
  /\ ppc \in [Proc -> ProcPc]
  /\ pbuf \in [Proc -> Seq(0..MaxRun)]
  /\ pstatus \in [Proc -> Status]
  /\ pipe \in [Run -> Seq(0..MaxRun)]
  /\ piperd \in SUBSET Run
  /\ sent \in SUBSET Run
  /\ failers \in SUBSET Proc

CtlTypeOK ==
  /\ pc \in Pc
  /\ cur \in 0..Len(plan)
  /\ pc \notin {"main", "done"} => cur \in 1..Len(plan) /\ plan[cur] # Unknown
  /\ xfail \in BOOLEAN /\ flaky \in BOOLEAN /\ piped \in BOOLEAN
  /\ why \in Reason
  /\ status \in Status
  /\ cnt \in Counters
  /\ verdict \in [Run -> Verdicts] /\ reasons \in [Run -> Reason]
  /\ warned \in SUBSET Run
  /\ xo \in [Run -> {"no", "open", "closed"}]
  /\ cout \in BOOLEAN
  /\ nfd \in Nat
  /\ exitcode \in {-1, EX_OK, EX_USAGE, EX_OSERR, EX_FAILED}

(* Every variable keeps its type, and a test is current when one is run. *)
TypeOK == ProcTypeOK /\ CtlTypeOK

(***************************************************************************)
(* do_return has two descriptors to close once the pipes have been made,   *)
(* and the fork two more: the count never goes below zero.                 *)
(***************************************************************************)
FdInv ==
  /\ pc \in {"stdin", "fork"} => piped /\ nfd >= 4
  /\ (piped /\ pc \notin {"main", "done"}) => nfd >= 2

(* The types, strengthened so that every step keeps them. *)
TypeInv == TypeOK /\ FdInv

----------------------------------------------------------------------------
(* The controller is waiting for, or judging, the current run. *)
Judging == pc \in {"wait", "result", "status", "signal", "report", "output",
                   "pass"}

(* The runs that ended with verdict v. *)
With(v)    == {r \in Run : verdict[r] = v}
Because(w) == {r \in Run : reasons[r] = w}

(***************************************************************************)
(* What the controller finds in the shared page while it waits for and     *)
(* judges a test was written by a process of that test: bzero() removed    *)
(* what earlier tests left, and none of their processes writes any more.   *)
(* Code: the page is one for all tests, cheriostest.c 1083-1087 and 288.   *)
(***************************************************************************)
EvidenceIsOwn ==
  Judging => /\ ccs.sig_by \in {0, cur}
             /\ ccs.res_by \in {0, cur}
             /\ ccs.str \in {0, cur}

(***************************************************************************)
(* A test is only ever passed on evidence of its own process: it was       *)
(* killed by the signal asked for; or its handler ran, and ended it; or it *)
(* ran cheriostest_success() to the end and exited, undisturbed by a       *)
(* signal.  Code: the chain of checks, cheriostest.c 453-619.              *)
(***************************************************************************)
PassIsEarned ==
  pc = "pass" =>
    CASE "SIGEXIT" \in CurTest.flags -> status = Killed(CurTest.signum)
      [] "SIGNAL" \in CurTest.flags /\ "SIGEXIT" \notin CurTest.flags ->
           ccs.sig_by = cur /\ status = Exited(EX_SOFTWARE)
      [] OTHER -> /\ ccs.res_by = cur /\ ccs.sig_by = 0
                  /\ status = Exited(EX_OK)

(***************************************************************************)
(* A run in which some process declared a failure is not passed, whatever  *)
(* happened before or after.  Code: cheriostest_failure_err*() and the     *)
(* check of ccs_testresult first, cheriostest.c 453-464.                   *)
(***************************************************************************)
FailureIsReported ==
  \A p \in failers : verdict[p[1]] \notin {"PASS", "XPASS"}

(***************************************************************************)
(* A test's output pipe only ever holds what processes of that test wrote, *)
(* not text the controller had not flushed.  Code: the fflush() calls      *)
(* before fork(), cheriostest.c 362-368.                                   *)
(***************************************************************************)
OutputIsOwn ==
  \A r \in Run : \A i \in 1..Len(pipe[r]) : pipe[r][i] = r

(* man/cheriostest.3 153-154 has every failure of a test with a flaky       *)
(* reason reported as an expected one; the code makes this one a FAIL.      *)
FlakyHarnessError(r) == DescOf(r).flaky /\ reasons[r] = "harness"

(***************************************************************************)
(* A failure is reported as expected exactly if the test gives a reason,   *)
(* but for a harness error of a test with an xfail reason only, which      *)
(* never is.  Not covered: a name with a disallowed prefix, and a harness  *)
(* error of a flaky test.  Code: cheriostest.c 330-337, 555-569, 645-677.  *)
(***************************************************************************)
ExcuseRespected ==
  \A r \in Run : reasons[r] \notin {"", "prefix"} /\ ~FlakyHarnessError(r) =>
    (verdict[r] = "XFAIL" <=> /\ DescOf(r).xfail \/ DescOf(r).flaky
                              /\ reasons[r] # "harness")

(***************************************************************************)
(* Between tests the counters add up: every test that was forked has one   *)
(* verdict; a failure without a fork is a rejected name or a failed write  *)
(* to its standard input; and expected_failures is the expected failures,  *)
(* the unexpected passes and the harness errors of tests with a reason.    *)
(* Code: the tests_* counters of cheriostest_run_test().                   *)
(***************************************************************************)
Accounting ==
  pc = "main" =>
    /\ cnt.passed + cnt.xpassed + cnt.failed + cnt.xfailed
         = cnt.run + Cardinality(Because("prefix") \cup Because("stdin"))
    /\ cnt.failed = Cardinality(With("FAIL"))
    /\ cnt.expected = cnt.xfailed + cnt.xpassed
         + Cardinality({r \in Because("harness") : DescOf(r).xfail})

(***************************************************************************)
(* Between tests the controller has its three descriptors open, and two    *)
(* more for every test whose standard input could not be filled (they are  *)
(* leaked); only a rejected name, which closes garbage, may change that.   *)
(* Code: cheriostest.c 339-360, 429-430, 679-686.                          *)
(***************************************************************************)
FdBalance ==
  (pc = "main" /\ Because("prefix") = {}) =>
    nfd = 3 + 2 * Cardinality(Because("stdin"))

(***************************************************************************)
(* Between tests every libxo instance that was opened has been closed,     *)
(* except those of slow tests passed over with -f.                         *)
(* Code: cheriostest.c 287, 306-307, 324, 680.                             *)
(***************************************************************************)
InstancesClosed ==
  pc = "main" => \A r \in 1..cur :
    xo[r] = "closed" \/ (Fast /\ "SLOW" \in DescOf(r).flags)

(* The controller has no timeout of its own; an alarm of the test is one. *)
Unguarded == pc = "wait" /\ "alarm" \notin CurTest.body
(* The child is writing to a full pipe that is read only after it has ended. *)
PipeFull == /\ Unguarded /\ ppc[Child(cur)] = "flush"
            /\ Len(pipe[cur]) = PipeCap
(* The child is blocked in the test itself, or waits for a process that is, *)
(* or that is writing to the full pipe.                                     *)
BodyBlocked ==
  /\ Unguarded /\ ppc[Child(cur)] = "body"
  /\ \/ MayBlock(Child(cur))
     \/ /\ MayBlock(Forked(cur)) \/ ~Received(Forked(cur))
           \/ (ppc[Forked(cur)] = "flush" /\ Len(pipe[cur]) = PipeCap)
        /\ Alive(Forked(cur)) /\ CurTest.join # "none"
(* The controller is writing to the full standard input of a test that has *)
(* not been started yet.                                                   *)
StdinFull == pc = "stdin" /\ CurTest.stdin > PipeCap

(***************************************************************************)
(* The suite ends, whatever earlier tests leave running or blocked behind  *)
(* them, unless the current test hangs in one of three ways: its output    *)
(* fills the pipe, its input does, or it never comes to an end by itself;  *)
(* and a test that armed an alarm never hangs after its start.             *)
(* Code: waitpid() before read(), cheriostest.c 446 and 575; 344-360.      *)
(***************************************************************************)
SuiteEnds ==
  <>(pc = "done") \/ <>[]PipeFull \/ <>[]BodyBlocked \/ <>[]StdinFull

(***************************************************************************)
(* The harness implements TestSuite: tests are started in order, each gets *)
(* one verdict its descriptor allows, and the exit status tells whether a  *)
(* test failed.  Code: main(), cheriostest.c 1108-1126 and 1183-1185.      *)
(***************************************************************************)
Suite == INSTANCE TestSuite
           WITH plan <- plan, cur <- cur, verdict <- verdict, exitcode <- exitcode
ImplementsTestSuite == Suite!SuiteSpec

----------------------------------------------------------------------------
(* What a comment says, and the code does not do. *)

(* cheriostest.c 657-661: a failure is excused because xfail_reason or,    *)
(* if that is NULL, flaky_reason is there.                                 *)
XfailHasReason ==
  \A r \in With("XFAIL") : DescOf(r).xfail \/ DescOf(r).flaky

=============================================================================
