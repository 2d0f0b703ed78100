----------------------------- MODULE TestSuite -----------------------------
(***************************************************************************)
(* What cheriostest promises, with no process, pipe or shared page in      *)
(* sight: the tests of the plan are started in order, each gets one        *)
(* verdict its descriptor allows before the next is started, and the exit  *)
(* status says whether a test failed.                                      *)
(***************************************************************************)
EXTENDS Integers, Sequences

CONSTANTS Desc, Unknown, Plans, MaxRun, Fast

VARIABLES plan, cur, verdict, exitcode

suiteVars == <<plan, cur, verdict, exitcode>>

(* The verdicts a test may get. *)
Outcomes(t) ==
  CASE t.prefix -> {"FAIL", "XFAIL"}
    [] t.skip /\ ~t.prefix -> {"SKIP"}
    [] OTHER -> {"FAIL", IF t.xfail THEN "XPASS" ELSE "PASS"}
                \cup (IF t.xfail \/ t.flaky THEN {"XFAIL"} ELSE {})

PassedOver(t) == Fast /\ "SLOW" \in t.flags /\ ~t.prefix

(* The current test, if any, needs no further verdict. *)
Settled == cur # 0 => verdict[cur] # "" \/ PassedOver(Desc[plan[cur]])

SuiteInit ==
  /\ plan \in Plans
  /\ cur = 0
  /\ verdict = [r \in 1..MaxRun |-> ""]
  /\ exitcode = -1

Start ==
  /\ exitcode = -1 /\ Settled /\ cur < Len(plan) /\ plan[cur + 1] # Unknown
  /\ cur' = cur + 1
  /\ UNCHANGED <<plan, verdict, exitcode>>

Judge ==
  /\ exitcode = -1 /\ cur # 0 /\ verdict[cur] = ""
  /\ ~PassedOver(Desc[plan[cur]])
  /\ \E v \in Outcomes(Desc[plan[cur]]) : verdict' = [verdict EXCEPT ![cur] = v]
  /\ UNCHANGED <<plan, cur, exitcode>>

(* Status 255 if a test failed, else 0. *)
Complete ==
  /\ exitcode = -1 /\ Settled /\ cur = Len(plan)
  /\ exitcode' = IF \E r \in 1..MaxRun : verdict[r] = "FAIL" THEN 255 ELSE 0
  /\ UNCHANGED <<plan, cur, verdict>>

(* An unknown name (64), or no process or descriptor for a test (71). *)
Abort ==
  /\ exitcode = -1
  /\ \/ /\ Settled /\ cur < Len(plan) /\ plan[cur + 1] = Unknown
        /\ exitcode' = 64
     \/ ~Settled /\ exitcode' = 71
  /\ UNCHANGED <<plan, cur, verdict>>

SuiteNext == Start \/ Judge \/ Complete \/ Abort

SuiteSpec == SuiteInit /\ [][SuiteNext]_suiteVars

=============================================================================
