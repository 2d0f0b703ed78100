----------------------------- MODULE HarnessInv -----------------------------
(***************************************************************************)
(* The inductive invariants behind the properties of HarnessProps: what    *)
(* has to hold at every step for those to hold where they are looked at.   *)
(***************************************************************************)
EXTENDS HarnessProps

(***************************************************************************)
(* EvidenceIsOwn for every suite in which what a test forks keeps its      *)
(* hands off the page: it neither reports nor raises a caught signal.      *)
(***************************************************************************)
QuietOps == {"print", "kill", "return", "err", "_exit", "recv"}
QuietForks == \A t \in Test : Desc[t].gbody \subseteq QuietOps

(***************************************************************************)
(* Its inductive form.  A child is alive only while the controller waits   *)
(* for that very child; whatever else is alive was forked by a test and is *)
(* never inside a function that writes the page.                           *)
(***************************************************************************)
StartedKnown == /\ \A r \in 1..cur : plan[r] # Unknown
                /\ \A p \in Proc : ppc[p] # "none" => p[1] \in 1..cur
OneChild     == \A r \in Run : Alive(Child(r)) => pc = "wait" /\ r = cur
ForkedQuiet  == \A r \in Run :
                  ppc[Forked(r)] \in {"none", "body", "flush", "zombie", "reaped"}
PageOwn      == pc \notin {"main", "done"} => /\ ccs.sig_by \in {0, cur}
                                              /\ ccs.res_by \in {0, cur}
                                              /\ ccs.str \in {0, cur}
EvidenceInv  == StartedKnown /\ OneChild /\ ForkedQuiet /\ PageOwn

----------------------------------------------------------------------------
(***************************************************************************)
(* The inductive form of what the controller's records have to satisfy.    *)
(* Runs that have not been judged have no verdict; between tests the last  *)
(* one needs none any more; from Prepare on the reasons are those of the   *)
(* descriptor, until a harness error takes them away; and the program has  *)
(* no exit status before it ends.                                          *)
(***************************************************************************)
Wanted(t) == ~t.prefix /\ ~t.skip /\ ~(Fast /\ "SLOW" \in t.flags)

Unjudged == \A r \in Run :
  (r > cur \/ (r = cur /\ pc \notin {"main", "return", "done"})) =>
    verdict[r] = "" /\ reasons[r] = ""

CurSettled ==
  /\ (pc = "main" /\ cur # 0) =>
       \/ verdict[cur] # ""
       \/ Fast /\ "SLOW" \in CurTest.flags /\ ~CurTest.prefix
  /\ pc = "return" => verdict[cur] # ""

OwnReasons == Wanted(CurTest) /\ xfail = CurTest.xfail /\ flaky = CurTest.flaky

ReasonsLoaded ==
  /\ pc = "select" => ~xfail
  /\ (pc = "stdin" \/ pc = "fork" \/ Judging) => OwnReasons
  /\ pc = "fail" => CASE why = "prefix"  -> CurTest.prefix /\ ~xfail
                      [] why = "harness" -> Wanted(CurTest) /\ ~xfail /\ ~flaky
                      [] OTHER           -> OwnReasons /\ why # ""

StillRunning == pc # "done" => exitcode = -1

LedgerInv == Unjudged /\ CurSettled /\ ReasonsLoaded /\ StillRunning

(***************************************************************************)
(* InstancesClosed, FdBalance and Accounting while a test is being run:    *)
(* what is open, and what is still to be counted for it.                   *)
(***************************************************************************)
ClosedBefore ==
  pc # "done" =>
    \A r \in 1..cur : (r # cur \/ pc = "main") =>
      xo[r] = "closed" \/ (Fast /\ "SLOW" \in DescOf(r).flags)

NoStdin == pc = "fail" /\ why = "stdin"
Lost    == pc = "fail" /\ why \notin {"prefix", "stdin"}
BeforeFork == pc = "stdin" \/ pc = "fork"

PipesMade ==
  /\ (BeforeFork \/ Judging \/ NoStdin \/ Lost) => piped
  /\ (pc = "return" /\ reasons[cur] # "prefix") => piped

(* The descriptors that are open for the current run. *)
OwnFds == IF BeforeFork \/ NoStdin THEN 4
          ELSE IF Judging \/ Lost \/ pc = "return" THEN 2 ELSE 0

FdsOpen ==
  (Because("prefix") = {} /\ pc # "done") =>
    nfd = 3 + 2 * Cardinality(Because("stdin")) + OwnFds

FdsInv == PipesMade /\ FdsOpen

(* The current run has been forked and has no verdict yet. *)
InHand == IF Judging \/ Lost THEN 1 ELSE 0

RunsCounted ==
  cnt.passed + cnt.xpassed + cnt.failed + cnt.xfailed + InHand
    = cnt.run + Cardinality(Because("prefix") \cup Because("stdin"))

FailuresCounted == cnt.failed = Cardinality(With("FAIL"))

HarnessErrors == {r \in Because("harness") : DescOf(r).xfail}

(* The current run has been counted as an expected failure in advance. *)
Pending ==
  IF (BeforeFork \/ Judging \/ NoStdin \/ Lost) /\ CurTest.xfail THEN 1 ELSE 0

ExpectedCounted ==
  pc # "done" =>
    cnt.expected = cnt.xfailed + cnt.xpassed + Cardinality(HarnessErrors) + Pending

CountInv == RunsCounted /\ FailuresCounted /\ ExpectedCounted

----------------------------------------------------------------------------
(* OutputIsOwn, for what has not reached a pipe yet too. *)
OwnText == /\ \A p \in Proc : pbuf[p] \in Seq({p[1]})
           /\ \A r \in Run : pipe[r] \in Seq({r})

(***************************************************************************)
(* PassIsEarned for every suite with QuietForks whose signals are real     *)
(* ones: no signal has the number 0, nor does a test ask for that one.     *)
(* While a test is judged, what is in the page tells how its child ended,  *)
(* and the checks passed so far still hold.                                *)
(***************************************************************************)
RealSignals == /\ \A i \in SigInfo : i.signum # 0
               /\ \A t \in Test : "SIGNAL" \in Desc[t].flags => Desc[t].signum # 0

Unforked == pc \in {"select", "stdin", "fork"}
Succeeds == ccs.testresult = TESTRESULT_SUCCESS

PageMarked == /\ ccs.signum # 0 <=> ccs.sig_by # 0
              /\ Succeeds => ccs.res_by # 0

PageFresh == Unforked => ccs.sig_by = 0 /\ ~Succeeds

PageTells ==
  LET c == Child(cur) IN
  Judging =>
    /\ ccs.sig_by # 0 => /\ ppc[c] \in {"zombie", "reaped"}
                         /\ pstatus[c] = Exited(EX_SOFTWARE)
    /\ ppc[c] \in {"unwarn", "setwarn", "warned"} => pstatus[c] = Exited(EX_OK)
    /\ (Succeeds /\ ccs.sig_by = 0) =>
         /\ ppc[c] \in {"unwarn", "flush", "zombie", "reaped"}
         /\ pstatus[c] \in {Exited(EX_OK), Killed(SIGPIPE)}

Waited == (Judging /\ pc # "wait") => /\ status = pstatus[Child(cur)]
                                      /\ ppc[Child(cur)] = "reaped"

AllChecked == /\ StatusOK(status) /\ SignalOK(CurTest, ccs)
              /\ ~UnexpectedSignal(CurTest, ccs) /\ ~HarnessError(CurTest, ccs)

Stages ==
  LET sigexit == "SIGEXIT" \in CurTest.flags IN
  /\ pc \in {"signal", "report", "output"} => ~sigexit /\ StatusOK(status)
  /\ pc \in {"report", "output"} => SignalOK(CurTest, ccs)
  /\ pc = "output" => AllChecked
  /\ pc = "pass" => IF sigexit THEN SigexitOK(CurTest, status) ELSE AllChecked

EarnedInv == PageMarked /\ PageFresh /\ PageTells /\ Waited /\ Stages

(***************************************************************************)
(* FailureIsReported for every suite in which forked processes never       *)
(* report success, and may declare a failure only if the test looks at     *)
(* their status and cannot pass by a signal, before it has done so.        *)
(* GDone: what a test forked has not failed, and will not; Clean: a run    *)
(* that has ended without a failure.                                       *)
(***************************************************************************)
FailuresJoined == \A t \in Test :
  /\ "success" \notin Desc[t].gbody /\ "warn" \notin Desc[t].gbody
  /\ "fail" \in Desc[t].gbody => /\ Desc[t].join = "check"
                                 /\ "SIGNAL" \notin Desc[t].flags
                                 /\ "SIGEXIT" \notin Desc[t].flags

GDone(r) == "fail" \in DescOf(r).gbody =>
              \/ ppc[Forked(r)] = "none"
              \/ ppc[Forked(r)] = "reaped" /\ pstatus[Forked(r)] = Exited(EX_OK)
Clean(r) == /\ ppc[Child(r)] = "reaped"
            /\ Child(r) \notin failers /\ Forked(r) \notin failers
            /\ GDone(r)

FailersFailed == \A p \in Proc :
  /\ p \in failers => /\ ppc[p] \in {"failed", "flush", "zombie", "reaped"}
                      /\ pstatus[p] # Exited(EX_OK)
  /\ ppc[p] = "failing" => pstatus[p] = Exited(EX_SOFTWARE)

ForkedLimits == \A r \in Run :
  /\ ppc[Forked(r)] \notin {"unwarn", "setwarn", "warned"}
  /\ (ppc[Forked(r)] = "failing" \/ Forked(r) \in failers) => "fail" \in DescOf(r).gbody

JoinedWell == \A r \in Run :
  /\ ppc[Child(r)] \in {"setwarn", "warned"} => GDone(r)
  /\ (/\ ppc[Child(r)] = "body" /\ ppc[Forked(r)] = "reaped"
      /\ DescOf(r).join = "check") => pstatus[Forked(r)] = Exited(EX_OK)

Declared ==
  pc \notin {"main", "done"} =>
    /\ Unforked => ppc[Child(cur)] = "none" /\ ppc[Forked(cur)] = "none"
    /\ Succeeds => /\ ppc[Child(cur)] \in {"unwarn", "flush", "zombie", "reaped"}
                   /\ Child(cur) \notin failers /\ GDone(cur)
    /\ Child(cur) \in failers => ccs.testresult = TESTRESULT_FAILURE

PassedClean ==
  /\ \A r \in Run : verdict[r] \in {"PASS", "XPASS"} => Clean(r)
  /\ (Judging /\ pc # "wait") => ppc[Child(cur)] = "reaped"
  /\ pc \in {"status", "signal", "report", "output", "pass"} =>
       Child(cur) \notin failers
  /\ pc \in {"output", "pass"} => Clean(cur)

ReportInv == /\ StartedKnown /\ OneChild /\ FailersFailed /\ ForkedLimits
             /\ JoinedWell /\ Declared /\ PassedClean

=============================================================================
