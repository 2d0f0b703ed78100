------------------------------ MODULE Harness ------------------------------
(***************************************************************************)
(* The controller of cheriostest: main()'s loop over the selected tests    *)
(* and cheriostest_run_test(), composed with the test processes.  One run  *)
(* is one activation of cheriostest_run_test(); its locals xfail_reason,   *)
(* flaky_reason and reason are the variables xfail, flaky and why.         *)
(***************************************************************************)
EXTENDS TestProcess

CONSTANTS
  Fast,      \* fast_tests_only, option -f
  MaxFd,     \* how many descriptors the controller may have open
  ReadMax    \* TEST_BUFFER_LEN - 1, in chunks

ASSUME HarnessAssumption ==
  Fast \in BOOLEAN /\ MaxFd \in Nat /\ ReadMax \in Nat \ {0}

VARIABLES
  pc,       \* where the controller is
  cur,      \* the number of the current run, 0 before the first
  xfail,    \* xfail_reason # NULL
  flaky,    \* flaky_reason # NULL
  why,      \* reason, "" when empty
  piped,    \* pipefd_stdin and pipefd_stdout have been initialised
  status,   \* what waitpid() stored
  cnt,      \* the tests_* counters and expected_failures
  verdict,  \* the line printed for each run ("" if none)
  reasons,  \* the reason printed with it
  warned,   \* the runs with a WARN line
  xo,       \* the libxo "testcase" instance of each run
  cout,     \* stdout holds text that has not been flushed
  nfd,      \* descriptors the controller has open
  exitcode  \* what main() exits with, -1 while it runs

ctlVars == <<pc, cur, xfail, flaky, why, piped, status, cnt, verdict,
             reasons, warned, xo, cout, nfd, exitcode>>
vars == <<procVars, ctlVars>>

(* Everything of the processes but the pipes. *)
shared == <<plan, ccs, ppc, pbuf, pstatus, sent, failers>>
(* The locals of cheriostest_run_test() and the results of the suite. *)
locals  == <<xfail, flaky, why, piped, status>>
results == <<cnt, verdict, reasons, warned>>

CurTest == Desc[plan[cur]]

Init ==
  /\ ProcInit
  /\ pc = "main" /\ cur = 0
  /\ xfail = FALSE /\ flaky = FALSE /\ why = "" /\ piped = FALSE
  /\ status = Exited(EX_OK)
  /\ cnt = [run |-> 0, skipped |-> 0, failed |-> 0, passed |-> 0,
            xfailed |-> 0, xpassed |-> 0, expected |-> 0]
  /\ verdict = [r \in Run |-> ""] /\ reasons = [r \in Run |-> ""]
  /\ warned = {}
  /\ xo = [r \in Run |-> "no"]
  /\ cout = FALSE /\ nfd = 3 /\ exitcode = -1

----------------------------------------------------------------------------
(* main() ends: the program exits with code. *)
ExitWith(code) == pc' = "done" /\ exitcode' = code

(* Mutant: a name is run without being looked up. *)
BeginTestUnknown ==
  /\ pc = "main" /\ cur < Len(plan)
  /\ cur' = cur + 1
  /\ xo' = [xo EXCEPT ![cur + 1] = "open"]
  /\ ccs' = ZeroState
  /\ cout' = TRUE
  /\ xfail' = FALSE /\ why' = "" /\ piped' = FALSE /\ pc' = "select"
  /\ UNCHANGED <<plan, ppc, pbuf, pstatus, pipe, piperd, sent, failers,
                 flaky, status, results, nfd, exitcode>>

(* Mutant: the page is not cleared between tests. *)
BeginTestStale ==
  /\ pc = "main" /\ cur < Len(plan) /\ plan[cur + 1] # Unknown
  /\ cur' = cur + 1
  /\ xo' = [xo EXCEPT ![cur + 1] = "open"]
  /\ cout' = TRUE
  /\ xfail' = FALSE /\ why' = "" /\ piped' = FALSE /\ pc' = "select"
  /\ UNCHANGED <<procVars, flaky, status, results, nfd, exitcode>>

(* cheriostest_run_test() begins: open the instance, clear the page. *)
BeginTest ==
  /\ pc = "main" /\ cur < Len(plan) /\ plan[cur + 1] # Unknown
  /\ cur' = cur + 1
  /\ xo' = [xo EXCEPT ![cur + 1] = "open"]
  /\ ccs' = ZeroState
  /\ cout' = TRUE
  /\ xfail' = FALSE /\ why' = "" /\ piped' = FALSE
  /\ pc' = "select"
  /\ UNCHANGED <<plan, ppc, pbuf, pstatus, pipe, piperd, sent, failers,
                 flaky, status, results, nfd, exitcode>>

(* errx(EX_USAGE, "unknown test"): no summary, the results are dropped. *)
UnknownTest ==
  /\ pc = "main" /\ cur < Len(plan) /\ plan[cur + 1] = Unknown
  /\ ExitWith(EX_USAGE)
  /\ UNCHANGED <<procVars, cur, locals, results, xo, cout, nfd>>

(***************************************************************************)
(* A name with a disallowed prefix: goto fail.  flaky_reason has not been  *)
(* assigned yet and fail reads it: any value.                              *)
(***************************************************************************)
RejectName ==
  /\ pc = "select" /\ CurTest.prefix
  /\ why' = "prefix" /\ pc' = "fail"
  /\ flaky' \in BOOLEAN
  /\ UNCHANGED <<procVars, cur, xfail, piped, status, results, xo, cout,
                 nfd, exitcode>>

(* -f and a slow test: return, without closing the instance. *)
PassOver ==
  /\ pc = "select" /\ ~CurTest.prefix /\ Fast /\ "SLOW" \in CurTest.flags
  /\ pc' = "main"
  /\ UNCHANGED <<procVars, cur, locals, results, xo, cout, nfd, exitcode>>

Selected == /\ pc = "select" /\ ~CurTest.prefix
            /\ ~(Fast /\ "SLOW" \in CurTest.flags)

(* Mutant: the early return of a skipped test leaves its instance open. *)
SkipTestOpen ==
  /\ Selected /\ CurTest.skip
  /\ cnt' = [cnt EXCEPT !.skipped = @ + 1]
  /\ verdict' = [verdict EXCEPT ![cur] = "SKIP"]
  /\ cout' = FALSE /\ pc' = "main"
  /\ UNCHANGED <<procVars, cur, locals, reasons, warned, xo, nfd, exitcode>>

(* ct_check_skip() gives a reason. *)
SkipTest ==
  /\ Selected /\ CurTest.skip
  /\ cnt' = [cnt EXCEPT !.skipped = @ + 1]
  /\ verdict' = [verdict EXCEPT ![cur] = "SKIP"]
  /\ xo' = [xo EXCEPT ![cur] = "closed"]
  /\ cout' = FALSE /\ pc' = "main"
  /\ UNCHANGED <<procVars, cur, locals, reasons, warned, nfd, exitcode>>

(* Load the reasons, then make the two pipes. *)
Prepare ==
  /\ Selected /\ ~CurTest.skip /\ nfd + 4 <= MaxFd
  /\ xfail' = CurTest.xfail /\ flaky' = CurTest.flaky
  /\ cnt' = [cnt EXCEPT !.expected = IF CurTest.xfail THEN @ + 1 ELSE @]
  /\ nfd' = nfd + 4 /\ piped' = TRUE /\ piperd' = piperd \cup {cur}
  /\ pc' = IF "STDIN_STRING" \in CurTest.flags THEN "stdin" ELSE "fork"
  /\ UNCHANGED <<shared, pipe, cur, why, status, verdict, reasons, warned,
                 xo, cout, exitcode>>

(* err(EX_OSERR, "pipe"): no descriptors left. *)
PipeFails ==
  /\ Selected /\ ~CurTest.skip /\ nfd + 4 > MaxFd
  /\ ExitWith(EX_OSERR)
  /\ UNCHANGED <<procVars, cur, locals, results, xo, cout, nfd>>

(* write() to the pipe nobody reads yet; it never returns if that is full. *)
FillStdin ==
  /\ pc = "stdin" /\ CurTest.stdin <= PipeCap
  /\ pc' = "fork"
  /\ UNCHANGED <<procVars, cur, locals, results, xo, cout, nfd, exitcode>>

(* The write failed or was short: goto fail before anything was forked. *)
StdinFails ==
  /\ pc = "stdin"
  /\ why' = "stdin" /\ pc' = "fail"
  /\ UNCHANGED <<procVars, cur, xfail, flaky, piped, status, results, xo,
                 cout, nfd, exitcode>>

(* Mutant: no fflush() before fork(); the child inherits the pending text. *)
ForkUnflushed ==
  /\ pc = "fork"
  /\ ppc' = [ppc EXCEPT ![Child(cur)] = "body"]
  /\ pbuf' = [pbuf EXCEPT ![Child(cur)] = IF cout THEN <<0>> ELSE <<>>]
  /\ nfd' = nfd - 2
  /\ cnt' = [cnt EXCEPT !.run = @ + 1]
  /\ pc' = "wait"
  /\ UNCHANGED <<plan, ccs, pstatus, pipe, piperd, sent, failers, cur,
                 locals, verdict, reasons, warned, xo, cout, exitcode>>

(* Flush, fork the test process, close two ends of the pipes. *)
Fork ==
  /\ pc = "fork"
  /\ ppc' = [ppc EXCEPT ![Child(cur)] = "body"]
  /\ pbuf' = [pbuf EXCEPT ![Child(cur)] = <<>>]
  /\ cout' = FALSE
  /\ nfd' = nfd - 2
  /\ cnt' = [cnt EXCEPT !.run = @ + 1]
  /\ pc' = "wait"
  /\ UNCHANGED <<plan, ccs, pstatus, pipe, piperd, sent, failers, cur,
                 locals, verdict, reasons, warned, xo, exitcode>>

ForkFails ==
  /\ pc = "fork"
  /\ ExitWith(EX_OSERR) /\ cout' = FALSE
  /\ UNCHANGED <<procVars, cur, locals, results, xo, nfd>>

(* Mutant: wait until nobody has the pipe open any more. *)
WaitForEOF ==
  /\ pc = "wait" /\ ppc[Child(cur)] = "zombie" /\ ~Alive(Forked(cur))
  /\ ppc' = [ppc EXCEPT ![Child(cur)] = "reaped"]
  /\ status' = pstatus[Child(cur)]
  /\ pc' = "result"
  /\ UNCHANGED <<plan, ccs, pbuf, pstatus, pipe, piperd, sent, failers, cur,
                 xfail, flaky, why, piped, results, xo, cout, nfd, exitcode>>

(* waitpid(childpid): only the child counts, not what it forked. *)
Wait ==
  /\ pc = "wait" /\ ppc[Child(cur)] = "zombie"
  /\ ppc' = [ppc EXCEPT ![Child(cur)] = "reaped"]
  /\ status' = pstatus[Child(cur)]
  /\ pc' = "result"
  /\ UNCHANGED <<plan, ccs, pbuf, pstatus, pipe, piperd, sent, failers, cur,
                 xfail, flaky, why, piped, results, xo, cout, nfd, exitcode>>

----------------------------------------------------------------------------
(* goto fail with reason w; otherwise go on at l. *)
FailOr(failed, w, l) ==
  IF failed THEN pc' = "fail" /\ why' = w ELSE pc' = l /\ why' = why

(* What the checks leave alone, unless they say otherwise. *)
judged == <<cur, piped, status, results, xo, cout, nfd, exitcode>>

(* Mutant: a failure the test declared is not looked at first. *)
CheckResultNone ==
  /\ pc = "result" /\ pc' = "status"
  /\ UNCHANGED <<procVars, judged, xfail, flaky, why>>

CheckResult ==
  /\ pc = "result"
  /\ FailOr(DeclaredFailure(ccs), "declared", "status")
  /\ UNCHANGED <<procVars, judged, xfail, flaky>>

CheckStatus ==
  /\ pc = "status"
  /\ IF "SIGEXIT" \in CurTest.flags
     THEN FailOr(~SigexitOK(CurTest, status), "status", "pass")
     ELSE FailOr(~StatusOK(status), "status", "signal")
  /\ UNCHANGED <<procVars, judged, xfail, flaky>>

CheckSignal ==
  /\ pc = "signal"
  /\ FailOr(~SignalOK(CurTest, ccs), "signal", "report")
  /\ UNCHANGED <<procVars, judged, xfail, flaky>>

(* Mutant: a signal the test did not ask for is overlooked. *)
CheckReportNoSignal ==
  /\ pc = "report"
  /\ FailOr(HarnessError(CurTest, ccs), "harness", "output")
  /\ xfail' = (xfail /\ ~HarnessError(CurTest, ccs))
  /\ flaky' = (flaky /\ ~HarnessError(CurTest, ccs))
  /\ UNCHANGED <<procVars, judged>>

(* Mutant: a harness error keeps the reasons that excuse a failure. *)
CheckReportExcused ==
  /\ pc = "report"
  /\ FailOr(UnexpectedSignal(CurTest, ccs) \/ HarnessError(CurTest, ccs),
            IF HarnessError(CurTest, ccs) THEN "harness" ELSE "unexpected",
            "output")
  /\ UNCHANGED <<procVars, judged, xfail, flaky>>

(* A test that set no result is a harness error: no reason excuses it. *)
CheckReport ==
  /\ pc = "report"
  /\ FailOr(UnexpectedSignal(CurTest, ccs) \/ HarnessError(CurTest, ccs),
            IF HarnessError(CurTest, ccs) THEN "harness" ELSE "unexpected",
            "output")
  /\ xfail' = (xfail /\ ~HarnessError(CurTest, ccs))
  /\ flaky' = (flaky /\ ~HarnessError(CurTest, ccs))
  /\ UNCHANGED <<procVars, judged>>

(***************************************************************************)
(* One read of the non-blocking pipe.  It fails (EAGAIN) when the pipe is  *)
(* empty but a process the test left behind still has it open.             *)
(***************************************************************************)
ReadLen == IF Len(pipe[cur]) <= ReadMax THEN Len(pipe[cur]) ELSE ReadMax

CheckOutput ==
  LET data   == SubSeq(pipe[cur], 1, ReadLen)
      readOK == data # <<>> \/ ~Alive(Forked(cur))
  IN
  /\ pc = "output"
  /\ FailOr(~OutputOK(CurTest, readOK, data), "output", "pass")
  /\ pipe' = [pipe EXCEPT ![cur] = SubSeq(@, ReadLen + 1, Len(@))]
  /\ UNCHANGED <<shared, piperd, judged, xfail, flaky>>

(* pass: PASS or XPASS, and the warning the test left. *)
Pass ==
  /\ pc = "pass"
  /\ verdict' = [verdict EXCEPT ![cur] = PassVerdict(xfail)]
  /\ cnt' = IF xfail THEN [cnt EXCEPT !.xpassed = @ + 1]
                     ELSE [cnt EXCEPT !.passed = @ + 1]
  /\ warned' = IF ccs.warn THEN warned \cup {cur} ELSE warned
  /\ cout' = TRUE /\ pc' = "return"
  /\ UNCHANGED <<procVars, cur, locals, reasons, xo, nfd, exitcode>>

(* Mutant: an expected failure is counted a second time. *)
FailCountsTwice ==
  /\ pc = "fail"
  /\ verdict' = [verdict EXCEPT ![cur] = FailVerdict(xfail, flaky)]
  /\ reasons' = [reasons EXCEPT ![cur] = why]
  /\ cnt' = IF ~xfail /\ ~flaky
            THEN [cnt EXCEPT !.failed = @ + 1]
            ELSE [cnt EXCEPT !.xfailed = @ + 1, !.expected = @ + 1]
  /\ xfail' = (xfail \/ flaky)
  /\ cout' = TRUE /\ pc' = "return"
  /\ UNCHANGED <<procVars, cur, flaky, why, piped, status, warned, xo, nfd,
                 exitcode>>

(* fail: FAIL, or XFAIL if there is a reason. *)
Fail ==
  /\ pc = "fail"
  /\ verdict' = [verdict EXCEPT ![cur] = FailVerdict(xfail, flaky)]
  /\ reasons' = [reasons EXCEPT ![cur] = why]
  /\ cnt' = IF ~xfail /\ ~flaky
            THEN [cnt EXCEPT !.failed = @ + 1]
            ELSE [cnt EXCEPT !.xfailed = @ + 1,
                             !.expected = IF xfail THEN @ ELSE @ + 1]
  /\ xfail' = (xfail \/ flaky)
  /\ cout' = TRUE /\ pc' = "return"
  /\ UNCHANGED <<procVars, cur, flaky, why, piped, status, warned, xo, nfd,
                 exitcode>>

(* Mutant: the controller's end of the output pipe stays open. *)
ReturnLeaks ==
  /\ pc = "return"
  /\ xo' = [xo EXCEPT ![cur] = "closed"]
  /\ cout' = FALSE
  /\ nfd' \in IF piped THEN {nfd - 1} ELSE {nfd - 2, nfd - 1, nfd} \cap Nat
  /\ pc' = "main"
  /\ UNCHANGED <<shared, piperd, pipe, cur, locals, results, exitcode>>

(***************************************************************************)
(* do_return: close the instance and the two descriptors.  If they were    *)
(* never initialised, close() gets whatever was on the stack: nothing that *)
(* is open, or one or two of the controller's descriptors.                 *)
(***************************************************************************)
Return ==
  /\ pc = "return"
  /\ xo' = [xo EXCEPT ![cur] = "closed"]
  /\ cout' = FALSE
  /\ nfd' \in IF piped THEN {nfd - 2} ELSE {nfd - 2, nfd - 1, nfd} \cap Nat
  /\ piperd' = piperd \ {cur}
  /\ pc' = "main"
  /\ UNCHANGED <<shared, pipe, cur, locals, results, exitcode>>

(* Mutant: the exit status follows the number of failures only loosely. *)
FinishLax ==
  /\ pc = "main" /\ cur = Len(plan)
  /\ ExitWith(IF cnt.failed > cnt.expected THEN EX_FAILED ELSE EX_OK)
  /\ UNCHANGED <<procVars, cur, locals, results, xo, cout, nfd>>

(* The lists, the summary, and exit(-1) if a test failed unexpectedly. *)
Finish ==
  /\ pc = "main" /\ cur = Len(plan)
  /\ ExitWith(IF cnt.failed > 0 THEN EX_FAILED ELSE EX_OK)
  /\ UNCHANGED <<procVars, cur, locals, results, xo, cout, nfd>>

Done == pc = "done" /\ UNCHANGED vars

----------------------------------------------------------------------------
Controller ==
  \/ BeginTest \/ UnknownTest \/ RejectName \/ PassOver \/ SkipTest
  \/ Prepare \/ PipeFails \/ FillStdin \/ StdinFails \/ Fork \/ ForkFails
  \/ Wait \/ CheckResult \/ CheckStatus \/ CheckSignal \/ CheckReport
  \/ CheckOutput \/ Pass \/ Fail \/ Return \/ Finish

(* A process runs on until it ends, also after the controller has gone. *)
Processes == \E p \in Proc : ProcStep(p) /\ UNCHANGED ctlVars

Next == Controller \/ Processes \/ Done

Spec == Init /\ [][Next]_vars

(***************************************************************************)
(* The controller is never starved, and neither is a process that can      *)
(* move.  Nothing makes a blocked one go on but an alarm the test armed,   *)
(* which does go off; nothing makes a write() to a full pipe return.       *)
(***************************************************************************)
AlarmGoesOff(p) == Signalled(p) /\ ccs'.signum = SIGALRM

Fairness ==
  /\ WF_vars(Controller /\ ~StdinFails)
  /\ \A p \in Proc :
       /\ WF_vars(~MayBlock(p) /\ ProcStep(p) /\ UNCHANGED ctlVars)
       /\ WF_vars(AlarmGoesOff(p) /\ UNCHANGED ctlVars)

FairSpec == Spec /\ Fairness

=============================================================================
