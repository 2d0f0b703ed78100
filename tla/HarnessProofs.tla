--------------------------- MODULE HarnessProofs ---------------------------
(***************************************************************************)
(* Theorems about Harness, for any tests, plans and bounds: types and the  *)
(* evidence of a test first, then what the controller records and prints.  *)
(***************************************************************************)
EXTENDS HarnessInv, SequenceTheorems, FiniteSetTheorems, TLAPS

(* The parts of a process, and the processes of a run. *)
LEMMA ProcParts ==
  ASSUME NEW p \in Proc
  PROVE  /\ p[1] \in Run /\ p[2] \in {"c", "g"}
         /\ Forked(p[1]) \in Proc /\ Child(p[1]) \in Proc
BY DEF Proc, Forked, Child

LEMMA RunProcs ==
  ASSUME NEW r \in Run
  PROVE  /\ Forked(r) \in Proc /\ Child(r) \in Proc /\ Forked(r) # Child(r)
         /\ r \in 0..MaxRun
BY ConstantsAssumption DEF Proc, Forked, Child, Run

(* The statuses the processes end with. *)
LEMMA StatusTypes ==
  /\ \A c \in Nat : Exited(c) \in Status /\ Killed(c) \in Status
  /\ EX_OK \in Nat /\ EX_SOFTWARE \in Nat /\ EX_OSERR \in Nat
  /\ SIGKILL \in Nat /\ SIGPIPE \in Nat
BY DEF Exited, Killed, Status, EX_OK, EX_SOFTWARE, EX_OSERR, SIGKILL, SIGPIPE

(* A step of a process keeps the types of what the processes share. *)
LEMMA ProcStepTypes ==
  ASSUME ProcTypeOK, NEW p \in Proc, ProcStep(p)
  PROVE  ProcTypeOK'
<1> USE DEF ProcTypeOK, Goto, EndsWith, ProcPc
<1>0. /\ p[1] \in Run /\ p[1] \in 0..MaxRun
      /\ Forked(p[1]) \in Proc
  BY ProcParts, RunProcs
<1>s. \A c \in {EX_OK, EX_SOFTWARE, EX_OSERR, 0, 1} : Exited(c) \in Status
  BY StatusTypes DEF EX_OK, EX_SOFTWARE, EX_OSERR
<1>k. Killed(SIGKILL) \in Status /\ Killed(SIGPIPE) \in Status
  BY StatusTypes
<1>t. TESTRESULT_SUCCESS \in {0, 1, 2} /\ TESTRESULT_FAILURE \in {0, 1, 2}
  BY DEF TESTRESULT_SUCCESS, TESTRESULT_FAILURE
<1>1. CASE PrintOut(p)
  <2>1. Append(pbuf[p], p[1]) \in Seq(0..MaxRun)
    BY <1>0
  <2> QED BY <1>1, <2>1 DEF PrintOut
<1>2. CASE Expect(p)
  <2>1. ccs' \in State
    BY <1>2, ConstantsAssumption DEF Expect, State
  <2> QED BY <1>2, <2>1 DEF Expect
<1>3. CASE Signalled(p)
  <2>1. ccs' \in State
    BY <1>3, <1>0, ConstantsAssumption DEF Signalled, HandlerStore, State
  <2> QED BY <1>3, <1>s, <2>1 DEF Signalled
<1>4. CASE KilledBySignal(p)
  BY <1>4, <1>k DEF KilledBySignal
<1>5. CASE Success(p)
  <2>1. ccs' \in State
    BY <1>5, <1>0, <1>t DEF Success, State
  <2> QED BY <1>5, <1>s, <2>1 DEF Success
<1>6. CASE SuccessUnwarn(p)
  <2>1. ccs' \in State
    BY <1>6 DEF SuccessUnwarn, State
  <2> QED BY <1>6, <2>1 DEF SuccessUnwarn
<1>7. CASE SuccessWithWarn(p)
  <2>1. ccs' \in State
    BY <1>7, <1>0 DEF SuccessWithWarn, State
  <2> QED BY <1>7, <1>s, <2>1 DEF SuccessWithWarn
<1>8. CASE WarnFlag(p)
  <2>1. ccs' \in State
    BY <1>8 DEF WarnFlag, State
  <2> QED BY <1>8, <2>1 DEF WarnFlag
<1>9. CASE WarnResult(p)
  <2>1. ccs' \in State
    BY <1>9, <1>0, <1>t DEF WarnResult, State
  <2> QED BY <1>9, <2>1 DEF WarnResult
<1>10. CASE Failure(p)
  <2>1. ccs' \in State
    BY <1>10 DEF Failure, State
  <2> QED BY <1>10, <1>s, <2>1 DEF Failure
<1>11. CASE FailureResult(p)
  <2>1. ccs' \in State
    BY <1>11, <1>0, <1>t DEF FailureResult, State
  <2> QED BY <1>11, <2>1 DEF FailureResult
<1>12. CASE FailureStr(p)
  <2>1. ccs' \in State
    BY <1>12, <1>0 DEF FailureStr, State
  <2> QED BY <1>12, <2>1 DEF FailureStr
<1>13. CASE Leave(p)
  BY <1>13, <1>s DEF Leave
<1>14. CASE QuickExit(p)
  BY <1>14, <1>s DEF QuickExit
<1>15. CASE Flush(p)
  <2>0. pbuf[p] \in Seq(0..MaxRun) /\ pbuf[p] # <<>> /\ pipe[p[1]] \in Seq(0..MaxRun)
    BY <1>15, <1>0 DEF Flush
  <2>2. Head(pbuf[p]) \in 0..MaxRun /\ Tail(pbuf[p]) \in Seq(0..MaxRun)
    BY <2>0, HeadTailProperties
  <2>1. /\ Tail(pbuf[p]) \in Seq(0..MaxRun)
        /\ Append(pipe[p[1]], Head(pbuf[p])) \in Seq(0..MaxRun)
    BY <2>0, <2>2
  <2> QED BY <1>15, <1>0, <1>k, <2>1 DEF Flush
<1>16. CASE Exit(p)
  BY <1>16 DEF Exit
<1>17. CASE ForkOwn(p)
  BY <1>17, <1>0 DEF ForkOwn
<1>18. CASE Send(p)
  BY <1>18, <1>0 DEF Send
<1>19. CASE Reap(p)
  <2>1. ccs' \in State
    BY <1>19 DEF Reap, State
  <2>2. ppc' \in [Proc -> ProcPc]
    BY <1>19, <1>0 DEF Reap
  <2>3. pstatus' \in [Proc -> Status]
    BY <1>19, <1>s DEF Reap
  <2> QED BY <1>19, <2>1, <2>2, <2>3 DEF Reap
<1> QED
  BY <1>1, <1>2, <1>3, <1>4, <1>5, <1>6, <1>7, <1>8, <1>9, <1>10, <1>11,
     <1>12, <1>13, <1>14, <1>15, <1>16, <1>17, <1>18, <1>19 DEF ProcStep

(* The current test is a registered one, with a proper descriptor. *)
LEMMA CurTestType ==
  ASSUME TypeOK
  PROVE  /\ plan \in Seq(Test \cup {Unknown}) /\ Len(plan) \in Nat
         /\ Len(plan) <= MaxRun /\ cur \in 0..MaxRun /\ MaxRun \in Nat
         /\ pc \notin {"main", "done"} =>
              /\ cur \in Run /\ plan[cur] \in Test /\ CurTest \in Descriptor
<1>1. plan \in Seq(Test \cup {Unknown}) /\ Len(plan) <= MaxRun /\ MaxRun \in Nat
  BY ConstantsAssumption DEF TypeOK, ProcTypeOK
<1>2. Len(plan) \in Nat
  BY <1>1
<1>3. cur \in 0..MaxRun
  BY <1>1, <1>2 DEF TypeOK, CtlTypeOK
<1>4. ASSUME pc \notin {"main", "done"}
      PROVE  cur \in Run /\ plan[cur] \in Test /\ CurTest \in Descriptor
  <2>1. cur \in 1..Len(plan) /\ plan[cur] # Unknown
    BY <1>4 DEF TypeOK, CtlTypeOK
  <2>2. cur \in Run /\ plan[cur] \in Test
    BY <2>1, <1>1, <1>2 DEF Run
  <2> QED BY <2>2, ConstantsAssumption DEF CurTest
<1> QED BY <1>1, <1>2, <1>3, <1>4

(* The counters stay natural numbers when one is incremented. *)
LEMMA CounterTypes ==
  ASSUME NEW c \in Counters
  PROVE  /\ [c EXCEPT !.skipped = @ + 1] \in Counters
         /\ [c EXCEPT !.run = @ + 1] \in Counters
         /\ [c EXCEPT !.passed = @ + 1] \in Counters
         /\ [c EXCEPT !.xpassed = @ + 1] \in Counters
         /\ [c EXCEPT !.failed = @ + 1] \in Counters
         /\ \A b \in BOOLEAN :
              /\ [c EXCEPT !.expected = IF b THEN @ + 1 ELSE @] \in Counters
              /\ [c EXCEPT !.xfailed = @ + 1,
                           !.expected = IF b THEN @ ELSE @ + 1] \in Counters
<1> USE DEF Counters
<1>1. [c EXCEPT !.skipped = @ + 1] \in Counters
  OBVIOUS
<1>2. [c EXCEPT !.run = @ + 1] \in Counters
  OBVIOUS
<1>3. [c EXCEPT !.passed = @ + 1] \in Counters
  OBVIOUS
<1>4. [c EXCEPT !.xpassed = @ + 1] \in Counters
  OBVIOUS
<1>5. [c EXCEPT !.failed = @ + 1] \in Counters
  OBVIOUS
<1>6. ASSUME NEW b \in BOOLEAN
      PROVE  [c EXCEPT !.expected = IF b THEN @ + 1 ELSE @] \in Counters
  OBVIOUS
<1>7. ASSUME NEW b \in BOOLEAN
      PROVE  [c EXCEPT !.xfailed = @ + 1,
                       !.expected = IF b THEN @ ELSE @ + 1] \in Counters
  <2> DEFINE d == [c EXCEPT !.xfailed = @ + 1]
  <2>1. d \in Counters
    OBVIOUS
  <2>2. [d EXCEPT !.expected = IF b THEN @ ELSE @ + 1] \in Counters
    <3> HIDE DEF d
    <3> QED BY <2>1
  <2>3. [c EXCEPT !.xfailed = @ + 1, !.expected = IF b THEN @ ELSE @ + 1]
          = [d EXCEPT !.expected = IF b THEN @ ELSE @ + 1]
    OBVIOUS
  <2> HIDE DEF Counters, d
  <2> QED BY <2>2, <2>3
<1> HIDE DEF Counters
<1> QED BY <1>1, <1>2, <1>3, <1>4, <1>5, <1>6, <1>7

(* The descriptors the controller closes are there to be closed. *)
LEMMA FdTypes ==
  ASSUME TypeInv
  PROVE  /\ nfd \in Nat /\ nfd + 4 \in Nat /\ nfd + 4 >= 4 /\ nfd + 4 >= 2
         /\ pc = "fork" => nfd - 2 \in Nat /\ nfd - 2 >= 2
         /\ (pc = "return" /\ piped) => nfd - 2 \in Nat
BY DEF TypeInv, TypeOK, CtlTypeOK, FdInv

LEMMA Cleared == ZeroState \in State
BY ConstantsAssumption DEF ZeroState, State, TESTRESULT_UNKNOWN

LEMMA NoText == <<>> \in Seq(0..MaxRun)
OBVIOUS

(* What is left in the pipe after the controller has read from it. *)
LEMMA UnreadType ==
  ASSUME NEW S, NEW q \in Seq(S), NEW n \in Nat
  PROVE  SubSeq(q, n + 1, Len(q)) \in Seq(S)
<1>1. Len(q) \in Nat
  OBVIOUS
<1>2. \A i \in (n + 1)..Len(q) : q[i] \in S
  BY <1>1
<1> QED BY <1>1, <1>2, SubSeqProperties

LEMMA ReadLenType == ASSUME TypeOK, cur \in Run PROVE ReadLen \in Nat
BY HarnessAssumption DEF TypeOK, ProcTypeOK, ReadLen

(* A step of the controller keeps the types. *)
LEMMA ControllerTypes ==
  ASSUME TypeInv, Controller
  PROVE  TypeInv'
<1>f. /\ nfd \in Nat /\ nfd + 4 \in Nat /\ nfd + 4 >= 4 /\ nfd + 4 >= 2
      /\ pc = "fork" => nfd - 2 \in Nat /\ nfd - 2 >= 2
      /\ (pc = "return" /\ piped) => nfd - 2 \in Nat
  BY FdTypes
<1>b. pc = "main" /\ cur < Len(plan) =>
        /\ cur + 1 \in Run /\ cur + 1 \in 1..Len(plan)
        /\ cur + 1 \in 0..Len(plan)
  BY CurTestType DEF TypeInv, Run
<1>r. pc = "output" => ReadLen \in Nat
  BY CurTestType, ReadLenType DEF TypeInv
<1> USE DEF TypeInv, TypeOK, ProcTypeOK, CtlTypeOK, FdInv, Pc, Reason,
            Verdicts, ProcPc, locals, results, shared, judged, ExitWith,
            procVars, FailOr
<1>c. /\ Len(plan) \in Nat /\ Len(plan) <= MaxRun /\ cur \in 0..MaxRun
      /\ MaxRun \in Nat
      /\ pc \notin {"main", "done"} =>
           cur \in Run /\ CurTest \in Descriptor /\ Child(cur) \in Proc
  BY CurTestType, RunProcs
<1>1. CASE BeginTest
  <2>1. ccs' \in State
    BY <1>1, Cleared DEF BeginTest
  <2>2. /\ cur' \in Run /\ cur' \in 1..Len(plan) /\ plan[cur'] # Unknown
        /\ cur' \in 0..Len(plan)
    BY <1>1, <1>b DEF BeginTest
  <2>3. ProcTypeOK'
    BY <1>1, <2>1 DEF BeginTest
  <2>5. xo' \in [Run -> {"no", "open", "closed"}] /\ Len(plan') = Len(plan)
    BY <1>1 DEF BeginTest
  <2>4. CtlTypeOK'
    <3>1. cur' \in 0..Len(plan')
      BY <2>2, <2>5
    <3> QED BY <1>1, <2>2, <2>5, <3>1 DEF BeginTest
  <2> QED BY <1>1, <2>3, <2>4 DEF BeginTest
<1>2. CASE UnknownTest
  BY <1>2, <1>c DEF UnknownTest
<1>3. CASE RejectName
  BY <1>3, <1>c DEF RejectName
<1>4. CASE PassOver
  BY <1>4, <1>c DEF PassOver
<1>5. CASE SkipTest
  <2>1. cnt' \in Counters
    BY <1>5, CounterTypes DEF SkipTest
  <2>2. CtlTypeOK'
    BY <1>5, <1>c, <2>1 DEF SkipTest, Selected
  <2> QED BY <1>5, <2>2 DEF SkipTest, Selected
<1>6. CASE Prepare
  <2>1. cnt' \in Counters
    BY <1>6, <1>c, CounterTypes DEF Prepare, Selected, Descriptor
  <2>2. xfail' \in BOOLEAN /\ flaky' \in BOOLEAN
    BY <1>6, <1>c DEF Prepare, Selected, Descriptor
  <2>3. ProcTypeOK'
    BY <1>6, <1>c DEF Prepare, Selected
  <2>4. CtlTypeOK'
    BY <1>6, <1>c, <1>f, <2>1, <2>2 DEF Prepare, Selected
  <2>5. FdInv'
    <3>1. nfd' = nfd + 4 /\ piped' = TRUE
      BY <1>6 DEF Prepare
    <3>2. nfd' >= 4 /\ nfd' >= 2
      BY <3>1, <1>f
    <3> QED BY <3>1, <3>2
  <2> QED BY <2>3, <2>4, <2>5
<1>7. CASE PipeFails
  BY <1>7, <1>c DEF PipeFails
<1>8. CASE FillStdin
  BY <1>8, <1>c DEF FillStdin
<1>9. CASE StdinFails
  BY <1>9, <1>c DEF StdinFails
<1>10. CASE Fork
  <2>1. cnt' \in Counters
    BY <1>10, CounterTypes DEF Fork
  <2>3. ProcTypeOK'
    BY <1>10, <1>c, NoText DEF Fork
  <2>4. CtlTypeOK'
    BY <1>10, <1>f, <2>1 DEF Fork
  <2> QED BY <1>10, <1>f, <2>3, <2>4 DEF Fork
<1>11. CASE ForkFails
  BY <1>11, <1>c DEF ForkFails
<1>12. CASE Wait
  BY <1>12, <1>c DEF Wait
<1>13. CASE CheckResult
  BY <1>13, <1>c DEF CheckResult
<1>14. CASE CheckStatus
  BY <1>14, <1>c DEF CheckStatus
<1>15. CASE CheckSignal
  BY <1>15, <1>c DEF CheckSignal
<1>16. CASE CheckReport
  BY <1>16, <1>c DEF CheckReport
<1>17. CASE CheckOutput
  <2>1. SubSeq(pipe[cur], ReadLen + 1, Len(pipe[cur])) \in Seq(0..MaxRun)
    BY <1>17, <1>c, <1>r, UnreadType DEF CheckOutput
  <2>2. ProcTypeOK'
    BY <1>17, <1>c, <2>1 DEF CheckOutput
  <2>3. CtlTypeOK'
    BY <1>17 DEF CheckOutput
  <2> QED BY <1>17, <2>2, <2>3 DEF CheckOutput
<1>18. CASE Pass
  <2>1. cnt' \in Counters
    BY <1>18, CounterTypes DEF Pass
  <2>2. PassVerdict(xfail) \in Verdicts
    BY DEF PassVerdict
  <2>3. CtlTypeOK'
    BY <1>18, <1>c, <2>1, <2>2 DEF Pass
  <2> QED BY <1>18, <2>3 DEF Pass
<1>19. CASE Fail
  <2>1. cnt' \in Counters
    BY <1>19, CounterTypes DEF Fail
  <2>2. FailVerdict(xfail, flaky) \in Verdicts
    BY DEF FailVerdict
  <2>3. CtlTypeOK'
    BY <1>19, <1>c, <2>1, <2>2 DEF Fail
  <2> QED BY <1>19, <2>3 DEF Fail
<1>20. CASE Return
  <2>1. nfd' \in Nat
    BY <1>20, <1>f DEF Return
  <2>2. ProcTypeOK'
    BY <1>20 DEF Return
  <2>3. CtlTypeOK'
    BY <1>20, <1>c, <2>1 DEF Return
  <2> QED BY <1>20, <2>2, <2>3 DEF Return
<1>21. CASE Finish
  BY <1>21, <1>c DEF Finish
<1> QED
  BY <1>1, <1>2, <1>3, <1>4, <1>5, <1>6, <1>7, <1>8, <1>9, <1>10, <1>11, <1>12, <1>13, <1>14, <1>15, <1>16, <1>17, <1>18, <1>19, <1>20, <1>21 DEF Controller

(* The initial states have the declared types. *)
LEMMA TypeInit == Init => TypeInv
<1> SUFFICES ASSUME Init PROVE TypeInv
  OBVIOUS
<1>0. plan \in Plans /\ plan \in Seq(Test \cup {Unknown})
  BY ConstantsAssumption DEF Init, ProcInit
<1>1. plan \in Plans /\ Len(plan) \in Nat /\ 0 \in 0..Len(plan)
  BY <1>0
<1>2. Exited(EX_OK) \in Status
  BY StatusTypes
<1>3. ProcTypeOK
  BY <1>1, <1>2, Cleared, NoText DEF Init, ProcInit, ProcTypeOK, ProcPc
<1>4. cnt \in Counters
  BY DEF Init, Counters
<1>5. CtlTypeOK
  BY <1>1, <1>2, <1>4 DEF Init, CtlTypeOK, Pc, Reason, Verdicts
<1> QED BY <1>3, <1>5 DEF Init, TypeInv, TypeOK, FdInv

(* Every step keeps them. *)
LEMMA TypeNext == TypeInv /\ [Next]_vars => TypeInv'
<1> SUFFICES ASSUME TypeInv, [Next]_vars PROVE TypeInv'
  OBVIOUS
<1>1. CASE Controller
  BY <1>1, ControllerTypes
<1>2. CASE Processes
  <2>1. PICK p \in Proc : ProcStep(p) /\ UNCHANGED ctlVars
    BY <1>2 DEF Processes
  <2>2. ProcTypeOK'
    BY <2>1, ProcStepTypes DEF TypeInv, TypeOK
  <2>3. plan' = plan
    BY <2>1 DEF ProcStep, PrintOut, Expect, Signalled, KilledBySignal,
      Success, SuccessUnwarn, SuccessWithWarn, WarnFlag, WarnResult, Failure,
      FailureResult, FailureStr, Leave, QuickExit, Flush, Exit, ForkOwn,
      Send, Reap
  <2>4. CtlTypeOK' /\ FdInv'
    BY <2>1, <2>3 DEF TypeInv, TypeOK, CtlTypeOK, FdInv, ctlVars
  <2> QED BY <2>2, <2>4 DEF TypeInv, TypeOK
<1>3. CASE UNCHANGED vars
  BY <1>3 DEF vars, procVars, ctlVars, TypeInv, TypeOK, ProcTypeOK,
    CtlTypeOK, FdInv
<1> QED BY <1>1, <1>2, <1>3 DEF Next, Done

(***************************************************************************)
(* Every reachable state has the declared types; in particular the number  *)
(* of open descriptors never drops below zero on any path through          *)
(* cheriostest_run_test(), its error paths included.                       *)
(***************************************************************************)
THEOREM TypeCorrect == Spec => []TypeOK
BY TypeInit, TypeNext, PTL DEF Spec, TypeInv

----------------------------------------------------------------------------
(* TypeInv is an invariant: used as a hypothesis below. *)
LEMMA TypeInvariant == Spec => []TypeInv
BY TypeInit, TypeNext, PTL DEF Spec

(* A child that is alive is the one being waited for; other processes are  *)
(* forked ones, and their operations are quiet.                            *)
LEMMA WhoIsAlive ==
  ASSUME QuietForks, TypeInv, EvidenceInv, NEW p \in Proc, Alive(p)
  PROVE  /\ p[1] \in Run /\ ppc[p] # "none"
         /\ p[2] = "c" => pc = "wait" /\ p[1] = cur
         /\ p[2] # "c" => /\ p[2] = "g" /\ p = Forked(p[1])
                          /\ Ops(p) \subseteq QuietOps
                          /\ ppc[p] \in {"body", "flush"}
         /\ DescOf(p[1]) \in Descriptor
<1>1. p[1] \in Run /\ p[2] \in {"c", "g"} /\ p = <<p[1], p[2]>>
  BY DEF Proc
<1>2. ppc[p] # "none"
  BY DEF Alive, NotAlive
<1>3. p[1] \in 1..cur /\ plan[p[1]] # Unknown
  BY <1>2 DEF EvidenceInv, StartedKnown
<1>4. plan[p[1]] \in Test
  <2>1. plan \in Seq(Test \cup {Unknown}) /\ Len(plan) \in Nat /\ cur \in 0..Len(plan)
    BY CurTestType DEF TypeInv, TypeOK, CtlTypeOK
  <2>2. p[1] \in 1..Len(plan)
    BY <1>3, <2>1
  <2> QED BY <1>3, <2>1, <2>2
<1>5. p[2] = "c" => pc = "wait" /\ p[1] = cur
  BY <1>1 DEF EvidenceInv, OneChild, Child
<1>6. p[2] = "g" => p = Forked(p[1]) /\ ppc[p] \in {"body", "flush"}
  BY <1>1 DEF EvidenceInv, ForkedQuiet, Forked, Alive, NotAlive
<1>7. p[2] = "g" => Ops(p) \subseteq QuietOps
  BY <1>4 DEF Ops, DescOf, QuietForks
<1>8. DescOf(p[1]) \in Descriptor
  BY <1>4, ConstantsAssumption DEF DescOf
<1> QED BY <1>1, <1>2, <1>5, <1>6, <1>7, <1>8

(* The processes after p, and maybe the process it forked, has moved on. *)
LEMMA MoveKeeps ==
  ASSUME QuietForks, TypeInv, EvidenceInv, NEW p \in Proc, Alive(p),
         NEW l \in ProcPc \ {"none"},
         p[2] = "c" \/ l \in {"body", "flush", "zombie"},
         NEW g \in Proc, g = Forked(p[1]), NEW k \in {"body", "reaped", ppc[g]},
         ppc' = [ppc EXCEPT ![g] = k, ![p] = l],
         g = p => k = ppc[g],
         UNCHANGED <<plan, cur, pc>>
  PROVE  StartedKnown' /\ OneChild' /\ ForkedQuiet'
<1>1. /\ p[1] \in Run /\ ppc[p] # "none" /\ ppc \in [Proc -> ProcPc]
      /\ p[2] = "c" => pc = "wait" /\ p[1] = cur
      /\ p[2] # "c" => p = Forked(p[1])
  BY WhoIsAlive DEF TypeInv, TypeOK, ProcTypeOK
<1>2. g[1] = p[1] /\ p[1] \in 1..cur
  BY <1>1 DEF Forked, EvidenceInv, StartedKnown
<1>3. StartedKnown'
  BY <1>1, <1>2 DEF EvidenceInv, StartedKnown
<1>4. \A r \in Run : Child(r) # g /\ Child(r) \in Proc /\ Forked(r) \in Proc
  BY RunProcs DEF Child, Forked
<1>5. OneChild'
  <2> SUFFICES ASSUME NEW r \in Run, Alive(Child(r))'
               PROVE  pc = "wait" /\ r = cur
    BY DEF OneChild
  <2>1. CASE Child(r) = p
    BY <2>1, <1>1 DEF Child
  <2>2. CASE Child(r) # p
    BY <2>2, <1>1, <1>4 DEF Alive, NotAlive, Child, EvidenceInv, OneChild
  <2> QED BY <2>1, <2>2
<1>6. ForkedQuiet'
  <2> SUFFICES ASSUME NEW r \in Run
               PROVE  ppc'[Forked(r)] \in {"none", "body", "flush", "zombie", "reaped"}
    BY DEF ForkedQuiet, Forked
  <2>0. ppc[Forked(r)] \in {"none", "body", "flush", "zombie", "reaped"}
    BY DEF EvidenceInv, ForkedQuiet
  <2>1. CASE Forked(r) = p
    <3>1. p[2] # "c"
      BY <2>1 DEF Forked
    <3>2. ppc'[p] = l
      BY <1>1
    <3> QED BY <2>1, <3>1, <3>2
  <2>2. CASE Forked(r) # p /\ Forked(r) = g
    BY <2>0, <2>2, <1>1, <1>4
  <2>3. CASE Forked(r) # p /\ Forked(r) # g
    BY <2>0, <2>3, <1>1, <1>4
  <2> QED BY <2>1, <2>2, <2>3
<1> QED BY <1>3, <1>5, <1>6

(* Moving p alone. *)
LEMMA StepKeeps ==
  ASSUME QuietForks, TypeInv, EvidenceInv, NEW p \in Proc, Alive(p),
         NEW l \in ProcPc \ {"none"},
         p[2] = "c" \/ l \in {"body", "flush", "zombie"},
         ppc' = [ppc EXCEPT ![p] = l],
         UNCHANGED <<plan, cur, pc>>
  PROVE  StartedKnown' /\ OneChild' /\ ForkedQuiet'
<1> DEFINE g == Forked(p[1])
<1>1. g \in Proc /\ ppc \in [Proc -> ProcPc]
  BY ProcParts DEF TypeInv, TypeOK, ProcTypeOK
<1>2. ppc' = [ppc EXCEPT ![g] = ppc[g], ![p] = l]
  BY <1>1
<1> QED BY <1>1, <1>2, MoveKeeps

(* A step of a process keeps EvidenceInv: only the child writes the page. *)
LEMMA ProcStepEvidence ==
  ASSUME QuietForks, TypeInv, EvidenceInv, NEW p \in Proc, ProcStep(p),
         UNCHANGED ctlVars
  PROVE  EvidenceInv'
<1> USE DEF Goto, EndsWith
<1>u. UNCHANGED <<plan, cur, pc>>
  BY DEF ctlVars, ProcStep, PrintOut, Expect, Signalled, KilledBySignal,
    Success, SuccessUnwarn, SuccessWithWarn, WarnFlag, WarnResult, Failure,
    FailureResult, FailureStr, Leave, QuickExit, Flush, Exit, ForkOwn, Send,
    Reap
<1>a. Alive(p)
  BY DEF ProcStep, PrintOut, Expect, Signalled, KilledBySignal,
    Success, SuccessUnwarn, SuccessWithWarn, WarnFlag, WarnResult, Failure,
    FailureResult, FailureStr, Leave, QuickExit, Flush, Exit, ForkOwn, Send,
    Reap, May, Alive, NotAlive
<1>w. /\ p[1] \in Run /\ ppc[p] # "none"
      /\ p[2] = "c" => pc = "wait" /\ p[1] = cur
      /\ p[2] # "c" => /\ p[2] = "g" /\ p = Forked(p[1])
                       /\ Ops(p) \subseteq QuietOps
                       /\ ppc[p] \in {"body", "flush"}
      /\ DescOf(p[1]) \in Descriptor
  BY <1>a, WhoIsAlive
<1>c. p[2] # "c" => \A op : May(p, op) => op \in QuietOps
  BY <1>w DEF May
<1>q. \A op \in {"expect", "fault", "alarm", "success", "warn", "fail", "fork", "send"} :
        op \notin QuietOps
  BY DEF QuietOps
<1>o. ASSUME ccs'.sig_by \in {ccs.sig_by, p[1]}, ccs'.res_by \in {ccs.res_by, p[1]},
             ccs'.str \in {ccs.str, p[1]}, p[2] = "c"
      PROVE  PageOwn'
  BY <1>o, <1>u, <1>w DEF EvidenceInv, PageOwn
<1>n. ASSUME UNCHANGED ccs PROVE PageOwn'
  BY <1>n, <1>u DEF EvidenceInv, PageOwn
<1>p. ASSUME UNCHANGED ppc PROVE StartedKnown' /\ OneChild' /\ ForkedQuiet'
  BY <1>p, <1>u DEF EvidenceInv, StartedKnown, OneChild, ForkedQuiet, Alive
<1>m. ASSUME NEW l \in ProcPc \ {"none"}, ppc' = [ppc EXCEPT ![p] = l],
             p[2] = "c" \/ l \in {"body", "flush", "zombie"}
      PROVE  StartedKnown' /\ OneChild' /\ ForkedQuiet'
  BY <1>m, <1>a, <1>u, StepKeeps
<1>t. ccs \in State
  BY DEF TypeInv, TypeOK, ProcTypeOK
<1>l. {"unwarn", "setwarn", "warned", "failing", "failed", "flush", "zombie"}
        \subseteq ProcPc \ {"none"}
  BY DEF ProcPc
<1> HIDE DEF EvidenceInv
<1>1. CASE PrintOut(p)
  <2>2. PageOwn'
    BY <1>1, <1>n DEF PrintOut
  <2>3. StartedKnown' /\ OneChild' /\ ForkedQuiet'
    BY <1>1, <1>p DEF PrintOut
  <2> QED BY <2>2, <2>3 DEF EvidenceInv
<1>2. CASE Expect(p)
  <2>1. p[2] = "c"
    BY <1>2, <1>c, <1>q, <1>w DEF Expect
  <2>2. PageOwn'
    <3>1. /\ ccs'.sig_by \in {ccs.sig_by, p[1]} /\ ccs'.res_by \in {ccs.res_by, p[1]}
          /\ ccs'.str \in {ccs.str, p[1]}
      BY <1>2, <1>t DEF Expect, State
    <3> QED BY <2>1, <3>1, <1>o
  <2>3. StartedKnown' /\ OneChild' /\ ForkedQuiet'
    BY <1>2, <1>p DEF Expect
  <2> QED BY <2>2, <2>3 DEF EvidenceInv
<1>3. CASE Signalled(p)
  <2>1. p[2] = "c"
    BY <1>3, <1>c, <1>q, <1>w DEF Signalled
  <2>2. PageOwn'
    <3>1. /\ ccs'.sig_by \in {ccs.sig_by, p[1]} /\ ccs'.res_by \in {ccs.res_by, p[1]}
          /\ ccs'.str \in {ccs.str, p[1]}
      BY <1>3, <1>t DEF Signalled, State, HandlerStore
    <3> QED BY <2>1, <3>1, <1>o
  <2>3. StartedKnown' /\ OneChild' /\ ForkedQuiet'
    BY <1>3, <2>1, <1>m, <1>l DEF Signalled
  <2> QED BY <2>2, <2>3 DEF EvidenceInv
<1>4. CASE KilledBySignal(p)
  <2>2. PageOwn'
    BY <1>4, <1>n DEF KilledBySignal
  <2>3. StartedKnown' /\ OneChild' /\ ForkedQuiet'
    BY <1>4, <1>m, <1>l DEF KilledBySignal
  <2> QED BY <2>2, <2>3 DEF EvidenceInv
<1>5. CASE Success(p)
  <2>1. p[2] = "c"
    BY <1>5, <1>c, <1>q, <1>w DEF Success
  <2>2. PageOwn'
    <3>1. /\ ccs'.sig_by \in {ccs.sig_by, p[1]} /\ ccs'.res_by \in {ccs.res_by, p[1]}
          /\ ccs'.str \in {ccs.str, p[1]}
      BY <1>5, <1>t DEF Success, State
    <3> QED BY <2>1, <3>1, <1>o
  <2>3. StartedKnown' /\ OneChild' /\ ForkedQuiet'
    BY <1>5, <2>1, <1>m, <1>l DEF Success
  <2> QED BY <2>2, <2>3 DEF EvidenceInv
<1>6. CASE SuccessUnwarn(p)
  <2>1. p[2] = "c"
    BY <1>6, <1>c, <1>q, <1>w DEF SuccessUnwarn
  <2>2. PageOwn'
    <3>1. /\ ccs'.sig_by \in {ccs.sig_by, p[1]} /\ ccs'.res_by \in {ccs.res_by, p[1]}
          /\ ccs'.str \in {ccs.str, p[1]}
      BY <1>6, <1>t DEF SuccessUnwarn, State
    <3> QED BY <2>1, <3>1, <1>o
  <2>3. StartedKnown' /\ OneChild' /\ ForkedQuiet'
    BY <1>6, <2>1, <1>m, <1>l DEF SuccessUnwarn
  <2> QED BY <2>2, <2>3 DEF EvidenceInv
<1>7. CASE SuccessWithWarn(p)
  <2>1. p[2] = "c"
    BY <1>7, <1>c, <1>q, <1>w DEF SuccessWithWarn
  <2>2. PageOwn'
    <3>1. /\ ccs'.sig_by \in {ccs.sig_by, p[1]} /\ ccs'.res_by \in {ccs.res_by, p[1]}
          /\ ccs'.str \in {ccs.str, p[1]}
      BY <1>7, <1>t DEF SuccessWithWarn, State
    <3> QED BY <2>1, <3>1, <1>o
  <2>3. StartedKnown' /\ OneChild' /\ ForkedQuiet'
    BY <1>7, <2>1, <1>m, <1>l DEF SuccessWithWarn
  <2> QED BY <2>2, <2>3 DEF EvidenceInv
<1>8. CASE WarnFlag(p)
  <2>1. p[2] = "c"
    BY <1>8, <1>c, <1>q, <1>w DEF WarnFlag
  <2>2. PageOwn'
    <3>1. /\ ccs'.sig_by \in {ccs.sig_by, p[1]} /\ ccs'.res_by \in {ccs.res_by, p[1]}
          /\ ccs'.str \in {ccs.str, p[1]}
      BY <1>8, <1>t DEF WarnFlag, State
    <3> QED BY <2>1, <3>1, <1>o
  <2>3. StartedKnown' /\ OneChild' /\ ForkedQuiet'
    BY <1>8, <2>1, <1>m, <1>l DEF WarnFlag
  <2> QED BY <2>2, <2>3 DEF EvidenceInv
<1>9. CASE WarnResult(p)
  <2>1. p[2] = "c"
    BY <1>9, <1>c, <1>q, <1>w DEF WarnResult
  <2>2. PageOwn'
    <3>1. /\ ccs'.sig_by \in {ccs.sig_by, p[1]} /\ ccs'.res_by \in {ccs.res_by, p[1]}
          /\ ccs'.str \in {ccs.str, p[1]}
      BY <1>9, <1>t DEF WarnResult, State
    <3> QED BY <2>1, <3>1, <1>o
  <2>3. StartedKnown' /\ OneChild' /\ ForkedQuiet'
    BY <1>9, <2>1, <1>m, <1>l DEF WarnResult
  <2> QED BY <2>2, <2>3 DEF EvidenceInv
<1>10. CASE Failure(p)
  <2>1. p[2] = "c"
    BY <1>10, <1>c, <1>q, <1>w DEF Failure
  <2>2. PageOwn'
    <3>1. /\ ccs'.sig_by \in {ccs.sig_by, p[1]} /\ ccs'.res_by \in {ccs.res_by, p[1]}
          /\ ccs'.str \in {ccs.str, p[1]}
      BY <1>10, <1>t DEF Failure, State
    <3> QED BY <2>1, <3>1, <1>o
  <2>3. StartedKnown' /\ OneChild' /\ ForkedQuiet'
    BY <1>10, <2>1, <1>m, <1>l DEF Failure
  <2> QED BY <2>2, <2>3 DEF EvidenceInv
<1>11. CASE FailureResult(p)
  <2>1. p[2] = "c"
    BY <1>11, <1>c, <1>q, <1>w DEF FailureResult
  <2>2. PageOwn'
    <3>1. /\ ccs'.sig_by \in {ccs.sig_by, p[1]} /\ ccs'.res_by \in {ccs.res_by, p[1]}
          /\ ccs'.str \in {ccs.str, p[1]}
      BY <1>11, <1>t DEF FailureResult, State
    <3> QED BY <2>1, <3>1, <1>o
  <2>3. StartedKnown' /\ OneChild' /\ ForkedQuiet'
    BY <1>11, <2>1, <1>m, <1>l DEF FailureResult
  <2> QED BY <2>2, <2>3 DEF EvidenceInv
<1>12. CASE FailureStr(p)
  <2>1. p[2] = "c"
    BY <1>12, <1>c, <1>q, <1>w DEF FailureStr
  <2>2. PageOwn'
    <3>1. /\ ccs'.sig_by \in {ccs.sig_by, p[1]} /\ ccs'.res_by \in {ccs.res_by, p[1]}
          /\ ccs'.str \in {ccs.str, p[1]}
      BY <1>12, <1>t DEF FailureStr, State
    <3> QED BY <2>1, <3>1, <1>o
  <2>3. StartedKnown' /\ OneChild' /\ ForkedQuiet'
    BY <1>12, <2>1, <1>m, <1>l DEF FailureStr
  <2> QED BY <2>2, <2>3 DEF EvidenceInv
<1>13. CASE Leave(p)
  <2>2. PageOwn'
    BY <1>13, <1>n DEF Leave
  <2>3. StartedKnown' /\ OneChild' /\ ForkedQuiet'
    BY <1>13, <1>m, <1>l DEF Leave
  <2> QED BY <2>2, <2>3 DEF EvidenceInv
<1>14. CASE QuickExit(p)
  <2>2. PageOwn'
    BY <1>14, <1>n DEF QuickExit
  <2>3. StartedKnown' /\ OneChild' /\ ForkedQuiet'
    BY <1>14, <1>m, <1>l DEF QuickExit
  <2> QED BY <2>2, <2>3 DEF EvidenceInv
<1>15. CASE Flush(p)
  <2>2. PageOwn'
    BY <1>15, <1>n DEF Flush
  <2>3. StartedKnown' /\ OneChild' /\ ForkedQuiet'
    BY <1>15, <1>m, <1>p, <1>l DEF Flush
  <2> QED BY <2>2, <2>3 DEF EvidenceInv
<1>16. CASE Exit(p)
  <2>2. PageOwn'
    BY <1>16, <1>n DEF Exit
  <2>3. StartedKnown' /\ OneChild' /\ ForkedQuiet'
    BY <1>16, <1>m, <1>l DEF Exit
  <2> QED BY <2>2, <2>3 DEF EvidenceInv
<1>17. CASE ForkOwn(p)
  <2>1. p[2] = "c" /\ Forked(p[1]) \in Proc /\ Forked(p[1]) # p
    BY <1>17, <1>c, <1>q, <1>w, RunProcs DEF ForkOwn, Forked
  <2>2. PageOwn'
    BY <1>17, <1>n DEF ForkOwn
  <2>3. ppc' = [ppc EXCEPT ![Forked(p[1])] = "body", ![p] = "body"]
    BY <1>17, <2>1 DEF ForkOwn, May, TypeInv, TypeOK, ProcTypeOK
  <2>4. StartedKnown' /\ OneChild' /\ ForkedQuiet'
    BY <2>1, <2>3, <1>a, <1>u, MoveKeeps DEF ProcPc
  <2> QED BY <2>2, <2>4 DEF EvidenceInv
<1>18. CASE Send(p)
  <2>2. PageOwn'
    BY <1>18, <1>n DEF Send
  <2>3. StartedKnown' /\ OneChild' /\ ForkedQuiet'
    BY <1>18, <1>p DEF Send
  <2> QED BY <2>2, <2>3 DEF EvidenceInv
<1>19. CASE Reap(p)
  <2>1. p[2] = "c" /\ Forked(p[1]) \in Proc /\ Forked(p[1]) # p
    BY <1>19, <1>w, RunProcs DEF Reap, Forked
  <2>2. PageOwn'
    <3>1. /\ ccs'.sig_by \in {ccs.sig_by, p[1]} /\ ccs'.res_by \in {ccs.res_by, p[1]}
          /\ ccs'.str \in {ccs.str, p[1]}
      BY <1>19, <1>t DEF Reap, State
    <3> QED BY <2>1, <3>1, <1>o
  <2>3. \E l \in {"body", "failing"} :
          ppc' = [ppc EXCEPT ![Forked(p[1])] = "reaped", ![p] = l]
    BY <1>19, <2>1 DEF Reap, TypeInv, TypeOK, ProcTypeOK
  <2>4. StartedKnown' /\ OneChild' /\ ForkedQuiet'
    BY <2>1, <2>3, <1>a, <1>u, MoveKeeps DEF ProcPc
  <2> QED BY <2>2, <2>4 DEF EvidenceInv
<1> QED
  BY <1>1, <1>2, <1>3, <1>4, <1>5, <1>6, <1>7, <1>8, <1>9, <1>10,
     <1>11, <1>12, <1>13, <1>14, <1>15, <1>16, <1>17, <1>18, <1>19 DEF ProcStep

(* A step of the controller keeps EvidenceInv. *)
LEMMA ControllerEvidence ==
  ASSUME TypeInv, EvidenceInv, Controller
  PROVE  EvidenceInv'
<1>i. /\ \A r \in 1..(cur + 1) : r \in 1..cur \/ r = cur + 1
      /\ \A r \in 1..cur : r \in 1..(cur + 1)
  <2>1. cur \in Nat
    BY CurTestType DEF TypeInv
  <2> QED BY <2>1
<1> USE DEF EvidenceInv, StartedKnown, OneChild, ForkedQuiet, PageOwn,
            locals, results, shared, judged, ExitWith, procVars, FailOr
<1>c. /\ pc \notin {"main", "done"} => /\ cur \in Run /\ Child(cur) \in Proc
                                       /\ Child(cur)[1] = cur /\ cur \in 1..cur
      /\ ppc \in [Proc -> ProcPc] /\ ccs \in State
      /\ cur \in Int
  BY CurTestType, RunProcs DEF TypeInv, TypeOK, ProcTypeOK, Child, Run
<1>d. \A r \in Run : /\ Child(r) \in Proc /\ Forked(r) \in Proc
                     /\ Child(r) # Forked(cur) /\ Forked(r) # Child(cur)
                     /\ r # cur => Child(r) # Child(cur)
  BY RunProcs DEF Child, Forked
<1>1. CASE BeginTest
  <2>1. \A r \in 1..cur' : r \in 1..cur \/ r = cur + 1
    BY <1>1, <1>i DEF BeginTest
  <2>2. \A r \in 1..cur : r \in 1..cur'
    BY <1>1, <1>i DEF BeginTest
  <2>3. StartedKnown' /\ ForkedQuiet'
    BY <1>1, <2>1, <2>2 DEF BeginTest
  <2>4. OneChild' /\ PageOwn'
    BY <1>1 DEF BeginTest, ZeroState, Alive
  <2> QED BY <2>3, <2>4
<1>2. CASE Prepare
  BY <1>2 DEF Prepare, Selected, Alive
<1>3. CASE Fork
  <2>1. StartedKnown' /\ PageOwn'
    BY <1>3, <1>c DEF Fork
  <2>2. OneChild'
    BY <1>3, <1>c, <1>d DEF Fork, Alive
  <2>3. ForkedQuiet'
    BY <1>3, <1>c, <1>d DEF Fork
  <2> QED BY <2>1, <2>2, <2>3
<1>4. CASE ForkFails
  BY <1>4 DEF ForkFails, Alive
<1>5. CASE Wait
  <2>1. StartedKnown' /\ PageOwn'
    BY <1>5, <1>c DEF Wait
  <2>2. OneChild'
    BY <1>5, <1>c, <1>d DEF Wait, Alive, NotAlive
  <2>3. ForkedQuiet'
    BY <1>5, <1>c, <1>d DEF Wait
  <2> QED BY <2>1, <2>2, <2>3
<1>6. CASE RejectName
  BY <1>6 DEF RejectName, Alive
<1>7. CASE FillStdin
  BY <1>7 DEF FillStdin, Alive
<1>8. CASE StdinFails
  BY <1>8 DEF StdinFails, Alive
<1>9. CASE CheckResult
  BY <1>9 DEF CheckResult, Alive
<1>10. CASE CheckStatus
  BY <1>10 DEF CheckStatus, Alive
<1>11. CASE CheckSignal
  BY <1>11 DEF CheckSignal, Alive
<1>12. CASE CheckReport
  BY <1>12 DEF CheckReport, Alive
<1>13. CASE CheckOutput
  BY <1>13 DEF CheckOutput, Alive
<1>14. CASE Pass
  BY <1>14 DEF Pass, Alive
<1>15. CASE Fail
  BY <1>15 DEF Fail, Alive
<1>16. CASE UnknownTest
  BY <1>16 DEF UnknownTest, Alive
<1>17. CASE PassOver
  BY <1>17 DEF PassOver, Alive
<1>18. CASE SkipTest
  BY <1>18 DEF SkipTest, Alive, Selected
<1>19. CASE PipeFails
  BY <1>19 DEF PipeFails, Alive, Selected
<1>20. CASE Return
  BY <1>20 DEF Return, Alive
<1>21. CASE Finish
  BY <1>21 DEF Finish, Alive
<1> QED
  BY <1>1, <1>2, <1>3, <1>4, <1>5, <1>6, <1>7, <1>8, <1>9, <1>10,
     <1>11, <1>12, <1>13, <1>14, <1>15, <1>16, <1>17, <1>18, <1>19, <1>20, <1>21 DEF Controller

(* Its inductive form holds in every suite that forks only quiet processes. *)
LEMMA EvidenceInvariant ==
  ASSUME QuietForks
  PROVE  Spec => []EvidenceInv
<1>1. Init => EvidenceInv
  <2> SUFFICES ASSUME Init PROVE EvidenceInv
    OBVIOUS
  <2>0. cur = 0
    BY DEF Init
  <2>1. \A r : r \notin 1..cur
    BY <2>0
  <2>2. \A p \in Proc : ppc[p] = "none"
    BY DEF Init, ProcInit
  <2>3. StartedKnown /\ OneChild /\ ForkedQuiet
    BY <2>1, <2>2, RunProcs DEF StartedKnown, OneChild, ForkedQuiet, Alive,
      NotAlive
  <2> QED BY <2>3 DEF Init, EvidenceInv, PageOwn
<1>2. TypeInv /\ EvidenceInv /\ [Next]_vars => EvidenceInv'
  <2> SUFFICES ASSUME TypeInv, EvidenceInv, [Next]_vars PROVE EvidenceInv'
    OBVIOUS
  <2>1. CASE Controller
    BY <2>1, ControllerEvidence
  <2>2. CASE Processes
    BY <2>2, ProcStepEvidence DEF Processes
  <2>3. CASE UNCHANGED vars
    BY <2>3 DEF vars, procVars, ctlVars, EvidenceInv, StartedKnown, OneChild,
      ForkedQuiet, PageOwn, Alive
  <2> QED BY <2>1, <2>2, <2>3 DEF Next, Done
<1> QED BY <1>1, <1>2, TypeInvariant, PTL DEF Spec

(***************************************************************************)
(* In every suite whose tests fork only quiet processes, whatever is left  *)
(* running behind them: the verdict on a test rests on what processes of   *)
(* that test wrote to the shared page, never on an earlier test.           *)
(***************************************************************************)
THEOREM OwnEvidence ==
  ASSUME QuietForks
  PROVE  Spec => []EvidenceIsOwn
<1>1. EvidenceInv => EvidenceIsOwn
  BY DEF EvidenceInv, PageOwn, EvidenceIsOwn, Judging
<1> QED BY <1>1, EvidenceInvariant, PTL

----------------------------------------------------------------------------
(***************************************************************************)
(* What the controller records and prints, whatever the test processes do: *)
(* they cannot touch it.                                                   *)
(***************************************************************************)

(* A step that is not the controller's leaves its variables alone. *)
LEMMA OtherSteps ==
  ASSUME [Next]_vars, ~Controller
  PROVE  UNCHANGED <<plan, ctlVars>>
<1>1. CASE Processes
  BY <1>1 DEF Processes, ctlVars, ProcStep, PrintOut, Expect, Signalled,
    KilledBySignal, Success, SuccessUnwarn, SuccessWithWarn, WarnFlag,
    WarnResult, Failure, FailureResult, FailureStr, Leave, QuickExit, Flush,
    Exit, ForkOwn, Send, Reap
<1>2. CASE UNCHANGED vars
  BY <1>2 DEF vars, procVars, ctlVars
<1> QED BY <1>1, <1>2 DEF Next, Done

(* What the types say about the run in hand and the one to be started. *)
LEMMA CurFacts ==
  ASSUME TypeInv
  PROVE  /\ cur \in Nat /\ Len(plan) \in Nat
         /\ verdict \in [Run -> Verdicts] /\ reasons \in [Run -> Reason]
         /\ xfail \in BOOLEAN /\ flaky \in BOOLEAN
         /\ pc \notin {"main", "done"} =>
              /\ cur \in Run
              /\ CurTest.xfail \in BOOLEAN /\ CurTest.flaky \in BOOLEAN
              /\ CurTest.skip \in BOOLEAN /\ CurTest.prefix \in BOOLEAN
         /\ cur < Len(plan) => cur + 1 \in Run
         /\ \A r \in Run : r > cur => r # cur
         /\ \A r \in Run : (r > cur + 1 \/ r = cur + 1) => r > cur
<1>1. /\ cur \in Nat /\ Len(plan) \in Nat
      /\ pc \notin {"main", "done"} => cur \in Run /\ CurTest \in Descriptor
      /\ Len(plan) <= MaxRun /\ MaxRun \in Nat
  BY CurTestType DEF TypeInv
<1>2. cur < Len(plan) => cur + 1 \in Run
  BY <1>1 DEF Run
<1>3. /\ \A r \in Run : r > cur => r # cur
      /\ \A r \in Run : (r > cur + 1 \/ r = cur + 1) => r > cur
  BY <1>1 DEF Run
<1>4. pc \notin {"main", "done"} =>
        /\ CurTest.xfail \in BOOLEAN /\ CurTest.flaky \in BOOLEAN
        /\ CurTest.skip \in BOOLEAN /\ CurTest.prefix \in BOOLEAN
  BY <1>1 DEF Descriptor
<1> QED BY <1>1, <1>2, <1>3, <1>4 DEF TypeInv, TypeOK, CtlTypeOK

----------------------------------------------------------------------------
(* A step of the controller keeps its records in order. *)
LEMMA ControllerLedger ==
  ASSUME TypeInv, LedgerInv, Controller
  PROVE  LedgerInv'
<1>c. /\ cur \in Nat /\ Len(plan) \in Nat
      /\ verdict \in [Run -> Verdicts] /\ reasons \in [Run -> Reason]
      /\ xfail \in BOOLEAN /\ flaky \in BOOLEAN
      /\ pc \notin {"main", "done"} =>
           /\ cur \in Run
           /\ CurTest.xfail \in BOOLEAN /\ CurTest.flaky \in BOOLEAN
           /\ CurTest.skip \in BOOLEAN /\ CurTest.prefix \in BOOLEAN
      /\ cur < Len(plan) => cur + 1 \in Run
      /\ \A r \in Run : r > cur => r # cur
      /\ \A r \in Run : (r > cur + 1 \/ r = cur + 1) => r > cur
  BY CurFacts
<1> USE DEF LedgerInv, Unjudged, CurSettled, ReasonsLoaded, OwnReasons, Wanted,
            StillRunning, Judging, CurTest,
            locals, results, shared, judged, ExitWith, procVars, FailOr
<1>1. CASE BeginTest
  <2>1. cur' = cur + 1 /\ cur \in Nat /\ pc' = "select" /\ UNCHANGED <<verdict, reasons, exitcode>>
    BY <1>1, <1>c DEF BeginTest
  <2>3. Unjudged'
    <3> HIDE DEF LedgerInv
    <3>1. Unjudged
      BY DEF LedgerInv
    <3> QED BY <1>c, <2>1, <3>1
  <2> QED BY <1>1, <2>3 DEF BeginTest
<1>2. CASE UnknownTest
  BY <1>2, <1>c DEF UnknownTest
<1>3. CASE RejectName
  BY <1>3, <1>c DEF RejectName
<1>4. CASE PassOver
  BY <1>4, <1>c DEF PassOver
<1>5. CASE SkipTest
  <2>2. Unjudged'
    <3> SUFFICES ASSUME NEW r \in Run, r > cur
                 PROVE  verdict'[r] = "" /\ reasons'[r] = ""
      BY <1>5 DEF SkipTest
    <3>1. verdict[r] = "" /\ reasons[r] = "" /\ r # cur
      BY <1>c
    <3> QED BY <1>5, <1>c, <3>1 DEF SkipTest
  <2>3. verdict'[cur] # ""
    BY <1>5, <1>c DEF SkipTest, Selected
  <2> QED BY <1>5, <1>c, <2>2, <2>3 DEF SkipTest, Selected
<1>6. CASE Prepare
  BY <1>6, <1>c DEF Prepare, Selected
<1>7. CASE PipeFails
  BY <1>7, <1>c DEF PipeFails, Selected
<1>8. CASE FillStdin
  BY <1>8, <1>c DEF FillStdin
<1>9. CASE StdinFails
  BY <1>9, <1>c DEF StdinFails
<1>10. CASE Fork
  BY <1>10, <1>c DEF Fork
<1>11. CASE ForkFails
  BY <1>11, <1>c DEF ForkFails
<1>12. CASE Wait
  BY <1>12, <1>c DEF Wait
<1>13. CASE CheckResult
  BY <1>13, <1>c DEF CheckResult
<1>14. CASE CheckStatus
  BY <1>14, <1>c DEF CheckStatus
<1>15. CASE CheckSignal
  BY <1>15, <1>c DEF CheckSignal
<1>16. CASE CheckReport
  BY <1>16, <1>c DEF CheckReport
<1>17. CASE CheckOutput
  BY <1>17, <1>c DEF CheckOutput
<1>18. CASE Pass
  <2>2. Unjudged'
    <3> SUFFICES ASSUME NEW r \in Run, r > cur
                 PROVE  verdict'[r] = "" /\ reasons'[r] = ""
      BY <1>18 DEF Pass
    <3>1. verdict[r] = "" /\ reasons[r] = "" /\ r # cur
      BY <1>c
    <3> QED BY <1>18, <1>c, <3>1 DEF Pass
  <2>3. verdict'[cur] # ""
    BY <1>18, <1>c DEF Pass, PassVerdict
  <2> QED BY <1>18, <1>c, <2>2, <2>3 DEF Pass, PassVerdict
<1>19. CASE Fail
  <2>2. Unjudged'
    <3> SUFFICES ASSUME NEW r \in Run, r > cur
                 PROVE  verdict'[r] = "" /\ reasons'[r] = ""
      BY <1>19 DEF Fail
    <3>1. verdict[r] = "" /\ reasons[r] = "" /\ r # cur
      BY <1>c
    <3> QED BY <1>19, <1>c, <3>1 DEF Fail
  <2>3. verdict'[cur] # ""
    BY <1>19, <1>c DEF Fail, FailVerdict
  <2> QED BY <1>19, <1>c, <2>2, <2>3 DEF Fail, FailVerdict
<1>20. CASE Return
  BY <1>20, <1>c DEF Return
<1>21. CASE Finish
  BY <1>21, <1>c DEF Finish
<1> QED
  BY <1>1, <1>2, <1>3, <1>4, <1>5, <1>6, <1>7, <1>8, <1>9, <1>10, <1>11,
     <1>12, <1>13, <1>14, <1>15, <1>16, <1>17, <1>18, <1>19, <1>20, <1>21
  DEF Controller

(* The records of a suite that has not begun. *)
LEMMA LedgerInit == Init => LedgerInv
<1> SUFFICES ASSUME Init PROVE LedgerInv
  OBVIOUS
<1>1. cur = 0 /\ pc = "main" /\ exitcode = -1
      /\ verdict = [r \in Run |-> ""] /\ reasons = [r \in Run |-> ""]
  BY DEF Init
<1> QED BY <1>1 DEF LedgerInv, Unjudged, CurSettled, ReasonsLoaded, Judging, StillRunning

(* Its records do not change when nothing of the controller does. *)
LEMMA LedgerKept ==
  ASSUME LedgerInv, UNCHANGED <<plan, ctlVars>>
  PROVE  LedgerInv'
<1>1. UNCHANGED <<plan, pc, cur, xfail, flaky, why, verdict, reasons, exitcode>>
  BY DEF ctlVars
<1> QED BY <1>1 DEF LedgerInv, Unjudged, CurSettled, ReasonsLoaded, Judging,
          StillRunning, OwnReasons, CurTest, Wanted

LEMMA LedgerNext == TypeInv /\ LedgerInv /\ [Next]_vars => LedgerInv'
BY ControllerLedger, OtherSteps, LedgerKept

LEMMA LedgerInvariant == Spec => []LedgerInv
BY LedgerInit, LedgerNext, TypeInvariant, PTL DEF Spec

----------------------------------------------------------------------------
(* Nothing but a skipped test, pass: and fail: writes a verdict down, and  *)
(* then that of the run in hand.                                           *)
LEMMA OneRecord ==
  ASSUME Controller
  PROVE  /\ UNCHANGED plan
         /\ \/ UNCHANGED <<verdict, reasons>>
            \/ SkipTest \/ Pass \/ Fail
BY DEF Controller, BeginTest, UnknownTest, RejectName, PassOver, SkipTest,
  Prepare, PipeFails, FillStdin, StdinFails, Fork, ForkFails, Wait,
  CheckResult, CheckStatus, CheckSignal, CheckReport, CheckOutput, Pass, Fail,
  Return, Finish, procVars, shared, results, judged

(***************************************************************************)
(* A failure is excused only by a reason the test's own descriptor gives,  *)
(* and a harness error of a test that is not flaky never is, for every     *)
(* suite and whatever its processes do: the reasons loaded for one test    *)
(* are not those of the previous one, and none survives the check that     *)
(* takes them away.                                                        *)
(* Code: cheriostest.c 330-337, 555-569, 645-677.                          *)
(***************************************************************************)
THEOREM ExcusesRespected == Spec => []ExcuseRespected
<1>1. Init => ExcuseRespected
  BY DEF Init, ExcuseRespected, FlakyHarnessError
<1>2. TypeInv /\ LedgerInv /\ ExcuseRespected /\ [Next]_vars => ExcuseRespected'
  <2> SUFFICES ASSUME TypeInv, LedgerInv, ExcuseRespected, [Next]_vars
               PROVE  ExcuseRespected'
    OBVIOUS
  <2>c. /\ verdict \in [Run -> Verdicts] /\ reasons \in [Run -> Reason]
        /\ xfail \in BOOLEAN /\ flaky \in BOOLEAN
        /\ pc \notin {"main", "done"} =>
             /\ cur \in Run
             /\ CurTest.xfail \in BOOLEAN /\ CurTest.flaky \in BOOLEAN
    BY CurFacts
  <2>p. UNCHANGED plan
    BY OneRecord, OtherSteps
  <2>1. CASE UNCHANGED <<plan, verdict, reasons>>
    BY <2>1 DEF ExcuseRespected, FlakyHarnessError, DescOf
  <2>2. CASE SkipTest \/ Pass
    <3>1. cur \in Run /\ reasons' = reasons /\ reasons[cur] = ""
      BY <2>2, <2>c DEF SkipTest, Selected, Pass, LedgerInv, Unjudged
    <3>2. \A r \in Run : r # cur => verdict'[r] = verdict[r]
      BY <2>2, <2>c DEF SkipTest, Pass
    <3> QED BY <2>p, <3>1, <3>2 DEF ExcuseRespected, FlakyHarnessError, DescOf
  <2>3. CASE Fail
    <3>1. /\ cur \in Run
          /\ verdict'[cur] = FailVerdict(xfail, flaky) /\ reasons'[cur] = why
          /\ \A r \in Run : r # cur => verdict'[r] = verdict[r] /\ reasons'[r] = reasons[r]
      BY <2>3, <2>c DEF Fail
    <3>2. /\ why = "harness" => ~xfail /\ ~flaky
          /\ why \notin {"prefix", "harness"} =>
               xfail = DescOf(cur).xfail /\ flaky = DescOf(cur).flaky
      BY <2>3 DEF Fail, LedgerInv, ReasonsLoaded, OwnReasons, CurTest, DescOf
    <3>3. DescOf(cur)' = DescOf(cur) /\ cur' = cur
      BY <2>p, <2>3 DEF DescOf, Fail
    <3>4. (why \notin {"", "prefix"}) =>
            (FailVerdict(xfail, flaky) = "XFAIL" <=>
               (DescOf(cur).xfail \/ DescOf(cur).flaky) /\ why # "harness")
      BY <3>2 DEF FailVerdict
    <3> QED BY <2>p, <3>1, <3>4 DEF ExcuseRespected, FlakyHarnessError, DescOf
  <2> QED BY <2>1, <2>2, <2>3, OneRecord, OtherSteps DEF ctlVars
<1> QED BY <1>1, <1>2, TypeInvariant, LedgerInvariant, PTL DEF Spec

----------------------------------------------------------------------------
(***************************************************************************)
(* Every libxo instance is closed again before the next test is started,   *)
(* on every way out of cheriostest_run_test() but the return for a slow    *)
(* test with -f.  Code: cheriostest.c 287, 306-307, 324, 680.              *)
(***************************************************************************)
THEOREM InstancesAreClosed == Spec => []InstancesClosed
<1>1. Init => ClosedBefore
  <2> SUFFICES ASSUME Init PROVE ClosedBefore
    OBVIOUS
  <2>1. cur = 0
    BY DEF Init
  <2>2. \A r : r \notin 1..cur
    BY <2>1
  <2> QED BY <2>2 DEF ClosedBefore
<1>2. TypeInv /\ ClosedBefore /\ [Next]_vars => ClosedBefore'
  <2> SUFFICES ASSUME TypeInv, ClosedBefore, [Next]_vars
               PROVE  ClosedBefore'
    OBVIOUS
  <2>c. /\ xo \in [Run -> {"no", "open", "closed"}]
        /\ \A r \in 1..cur : r \in Run
        /\ \A r \in 1..(cur + 1) : r # cur + 1 => r \in 1..cur
        /\ cur < Len(plan) => cur + 1 \in Run
    <3>1. cur \in 0..MaxRun /\ MaxRun \in Nat /\ (cur < Len(plan) => cur + 1 \in Run)
      BY CurFacts, CurTestType DEF TypeInv
    <3>2. /\ \A r \in 1..cur : r \in Run
          /\ \A r \in 1..(cur + 1) : r # cur + 1 => r \in 1..cur
      BY <3>1 DEF Run
    <3> QED BY <3>1, <3>2 DEF TypeInv, TypeOK, CtlTypeOK
  <2>p. UNCHANGED plan
    BY OneRecord, OtherSteps
  <2>1. CASE BeginTest
    <3>1. \A r \in 1..cur : xo'[r] = xo[r]
      <4>1. \A r \in 1..cur : r # cur + 1
        BY CurFacts
      <4> QED BY <2>1, <2>c, <4>1 DEF BeginTest
    <3> QED BY <2>1, <2>c, <2>p, <3>1 DEF BeginTest, ClosedBefore, DescOf
  <2>2. CASE PassOver
    BY <2>2, <2>p DEF PassOver, ClosedBefore, CurTest, DescOf
  <2>3. CASE SkipTest \/ Return
    <3>1. cur \in Run /\ cur' = cur /\ xo' = [xo EXCEPT ![cur] = "closed"] /\ pc # "done"
      BY <2>3, CurFacts DEF SkipTest, Selected, Return
    <3> QED BY <2>p, <2>c, <3>1 DEF ClosedBefore, DescOf
  <2>4. CASE /\ cur' = cur /\ xo' = xo
             /\ pc' = pc \/ (pc' # "main" /\ (pc = "done" => pc' = "done"))
    BY <2>4, <2>p DEF ClosedBefore, DescOf
  <2>5. CASE UNCHANGED ctlVars
    BY <2>4, <2>5 DEF ctlVars
  <2>6. CASE Controller
    <3>1. \/ BeginTest \/ PassOver \/ SkipTest \/ Return
          \/ /\ cur' = cur /\ xo' = xo
             /\ pc' = pc \/ (pc' # "main" /\ (pc = "done" => pc' = "done"))
      BY <2>6 DEF Controller, UnknownTest, RejectName, Prepare, PipeFails,
        Selected, FillStdin, StdinFails, Fork, ForkFails, Wait, CheckResult,
        CheckStatus, CheckSignal, CheckReport, CheckOutput, Pass, Fail, Finish,
        FailOr, judged, ExitWith
    <3> QED BY <3>1, <2>1, <2>2, <2>3, <2>4
  <2> QED BY <2>5, <2>6, OtherSteps
<1>3. ClosedBefore => InstancesClosed
  BY DEF ClosedBefore, InstancesClosed
<1> QED BY <1>1, <1>2, <1>3, TypeInvariant, PTL DEF Spec

----------------------------------------------------------------------------
(* Sets of runs are finite: one more run is one more. *)
LEMMA OneMore ==
  ASSUME NEW A \in SUBSET Run
  PROVE  /\ IsFiniteSet(A) /\ Cardinality(A) \in Nat
         /\ \A r \in Run : r \notin A => Cardinality(A \cup {r}) = Cardinality(A) + 1
<1>1. IsFiniteSet(Run)
  BY FS_Interval, ConstantsAssumption DEF Run
<1>2. IsFiniteSet(A)
  BY <1>1, FS_Subset
<1> QED BY <1>2, FS_CardinalityType, FS_AddElement

(* The steps that neither count, open or close anything nor write a record. *)
LEMMA QuietSteps ==
  ASSUME Controller, ~(Prepare \/ Fork \/ SkipTest \/ Pass \/ Fail \/ Return)
  PROVE  /\ UNCHANGED <<plan, cnt, verdict, reasons, nfd>>
         /\ InHand' = InHand
         /\ pc' = "done" \/ (OwnFds' = OwnFds /\ Pending' = Pending)
         /\ pc # "done"
<1>1. UNCHANGED <<plan, cnt, verdict, reasons, nfd>>
  BY DEF Controller, BeginTest, UnknownTest, RejectName, PassOver,
    PipeFails, FillStdin, StdinFails, ForkFails, Wait, CheckResult, CheckStatus,
    CheckSignal, CheckReport, CheckOutput, Finish, results, judged, procVars, shared
<1> USE DEF InHand, OwnFds, Pending, Judging, Lost, NoStdin, BeforeFork, CurTest,
            FailOr, judged, ExitWith, Selected, locals
<1>2. CASE BeginTest \/ UnknownTest \/ RejectName \/ PassOver \/ PipeFails
           \/ Finish
  BY <1>1, <1>2 DEF BeginTest, UnknownTest, RejectName, PassOver, PipeFails, Finish
<1>3. CASE FillStdin \/ StdinFails
  BY <1>1, <1>3 DEF FillStdin, StdinFails
<1>4. CASE ForkFails \/ Wait
  BY <1>1, <1>4 DEF ForkFails, Wait
<1>5. CASE CheckResult \/ CheckStatus
  BY <1>1, <1>5 DEF CheckResult, CheckStatus
<1>6. CASE CheckSignal
  BY <1>1, <1>6 DEF CheckSignal
<1>7. CASE CheckReport
  <2>1. /\ pc = "report" /\ UNCHANGED <<cur, procVars>>
        /\ \/ pc' = "output"
           \/ pc' = "fail" /\ why' \in {"harness", "unexpected"}
    BY <1>7 DEF CheckReport
  <2> QED BY <1>1, <2>1 DEF procVars
<1>8. CASE CheckOutput
  BY <1>1, <1>8 DEF CheckOutput
<1> QED BY <1>2, <1>3, <1>4, <1>5, <1>6, <1>7, <1>8 DEF Controller

(***************************************************************************)
(* What a skipped test, pass: and fail: do to the sets of runs with some   *)
(* verdict or reason: the run in hand had neither, and gets one.           *)
(***************************************************************************)
LEMMA RecordSets ==
  ASSUME TypeInv, LedgerInv, SkipTest \/ Pass \/ Fail
  PROVE  /\ cur \in Run /\ UNCHANGED <<plan, cur>>
         /\ \A w \in Reason \ {""} :
              /\ cur \notin Because(w)
              /\ Because(w)' = IF Fail /\ why = w THEN Because(w) \cup {cur}
                                                ELSE Because(w)
         /\ \A v \in Verdicts \ {""} : cur \notin With(v)
         /\ With("FAIL")' = IF Fail /\ ~xfail /\ ~flaky THEN With("FAIL") \cup {cur}
                                                      ELSE With("FAIL")
<1>1. /\ cur \in Run /\ verdict \in [Run -> Verdicts] /\ reasons \in [Run -> Reason]
  BY CurFacts DEF SkipTest, Selected, Pass, Fail
<1>2. UNCHANGED <<plan, cur>>
  BY DEF SkipTest, Pass, Fail, procVars
<1>3. verdict[cur] = "" /\ reasons[cur] = ""
  BY <1>1 DEF LedgerInv, Unjudged, SkipTest, Selected, Pass, Fail
<1>4. CASE SkipTest \/ Pass
  <2>1. PICK v \in {"SKIP", "PASS", "XPASS"} :
          reasons' = reasons /\ verdict' = [verdict EXCEPT ![cur] = v]
    BY <1>4 DEF SkipTest, Pass, PassVerdict
  <2>2. ~Fail
    BY <1>4 DEF SkipTest, Selected, Pass, Fail
  <2> QED BY <1>1, <1>2, <1>3, <2>1, <2>2 DEF Because, With
<1>5. CASE Fail
  <2>1. /\ verdict' = [verdict EXCEPT ![cur] = FailVerdict(xfail, flaky)]
        /\ reasons' = [reasons EXCEPT ![cur] = why]
    BY <1>5 DEF Fail
  <2>2. FailVerdict(xfail, flaky) = "FAIL" <=> ~xfail /\ ~flaky
    BY DEF FailVerdict
  <2>3. ASSUME NEW w \in Reason \ {""}
        PROVE  Because(w)' = IF why = w THEN Because(w) \cup {cur} ELSE Because(w)
    BY <1>1, <1>3, <2>1, <2>3 DEF Because
  <2>4. With("FAIL")' = IF ~xfail /\ ~flaky THEN With("FAIL") \cup {cur}
                                           ELSE With("FAIL")
    BY <1>1, <1>3, <2>1, <2>2 DEF With
  <2> QED BY <1>1, <1>2, <1>3, <1>5, <2>3, <2>4 DEF Because, With
<1> QED BY <1>4, <1>5

(* The reasons that are counted are among those a run can have. *)
LEMMA ReasonNames ==
  /\ {"prefix", "stdin", "harness"} \subseteq Reason \ {""}
  /\ \A w : Because(w) \in SUBSET Run /\ With(w) \in SUBSET Run
BY DEF Reason, Because, With

----------------------------------------------------------------------------
(* From Prepare to do_return the pipes have been made, except for a name   *)
(* that is rejected.                                                       *)
LEMMA PipesStayMade ==
  ASSUME TypeInv, LedgerInv, PipesMade, Controller
  PROVE  PipesMade'
<1>c. /\ pc \notin {"main", "done"} => cur \in Run
      /\ reasons \in [Run -> Reason]
  BY CurFacts
<1> USE DEF PipesMade, BeforeFork, Judging, NoStdin, Lost
<1>1. CASE Fail
  BY <1>1, <1>c DEF Fail
<1>2. CASE BeginTest \/ UnknownTest \/ RejectName \/ PassOver \/ SkipTest
           \/ Prepare \/ PipeFails \/ Return \/ Finish
  BY <1>2 DEF BeginTest, UnknownTest, RejectName, PassOver, SkipTest, Selected,
    Prepare, PipeFails, ExitWith, Return, Finish
<1>3. CASE FillStdin \/ StdinFails \/ Fork \/ ForkFails \/ Wait
  BY <1>3 DEF FillStdin, StdinFails, Fork, ForkFails, Wait, locals, ExitWith
<1>4. CASE CheckResult \/ CheckStatus \/ CheckSignal
  BY <1>4 DEF CheckResult, CheckStatus, CheckSignal, FailOr, judged
<1>5. CASE CheckReport \/ CheckOutput
  BY <1>5 DEF CheckReport, CheckOutput, FailOr, judged
<1>6. CASE Pass
  BY <1>6 DEF Pass, locals
<1> QED BY <1>1, <1>2, <1>3, <1>4, <1>5, <1>6 DEF Controller

(***************************************************************************)
(* Between tests the controller has exactly its three descriptors open and *)
(* two for every test whose standard input could not be filled, as long as *)
(* no name was rejected: neither pass: nor fail: nor any check leaks one,  *)
(* and the error path before the fork() leaks exactly two.                 *)
(* Code: cheriostest.c 339-360, 429-430, 679-686.                          *)
(***************************************************************************)
THEOREM DescriptorsBalance == Spec => []FdBalance
<1>1. Init => FdsInv
  <2> SUFFICES ASSUME Init PROVE FdsInv
    OBVIOUS
  <2>1. pc = "main" /\ nfd = 3 /\ reasons = [r \in Run |-> ""]
    BY DEF Init
  <2>2. OwnFds = 0 /\ PipesMade
    BY <2>1 DEF OwnFds, PipesMade, BeforeFork, Judging, NoStdin, Lost
  <2>3. Cardinality(Because("stdin")) = 0
    BY <2>1, FS_EmptySet DEF Because
  <2>4. nfd = 3 + 2 * Cardinality(Because("stdin")) + OwnFds
    <3>1. \A n, k : n = 0 /\ k = 0 => 3 + 2 * n + k = 3
      OBVIOUS
    <3> QED BY <2>1, <2>2, <2>3, <3>1, Zenon
  <2> QED BY <2>2, <2>4 DEF FdsInv, FdsOpen
<1>2. TypeInv /\ LedgerInv /\ FdsInv /\ [Next]_vars => FdsInv'
  <2> SUFFICES ASSUME TypeInv, LedgerInv, FdsInv, [Next]_vars PROVE FdsInv'
    OBVIOUS
  <2> DEFINE S == Because("stdin")
  <2>c. Cardinality(S) \in Nat /\ nfd \in Nat
    BY OneMore, ReasonNames, FdTypes
  <2>1. CASE ~Controller
    <3>1. UNCHANGED <<pc, cur, why, piped, reasons, nfd>>
      BY <2>1, OtherSteps DEF ctlVars
    <3>2. S' = S /\ Because("prefix")' = Because("prefix") /\ OwnFds' = OwnFds
      BY <3>1 DEF Because, OwnFds, BeforeFork, Judging, NoStdin, Lost
    <3> QED BY <3>1, <3>2 DEF FdsInv, FdsOpen, PipesMade, BeforeFork, Judging, NoStdin, Lost
  <2>2. CASE Controller
    <3>1. PipesMade'
      BY <2>2, PipesStayMade DEF FdsInv
    <3> SUFFICES ASSUME Because("prefix")' = {}, pc' # "done"
                 PROVE  nfd' = 3 + 2 * Cardinality(S)' + OwnFds'
      BY <3>1 DEF FdsInv, FdsOpen
    <3>2. CASE ~(Prepare \/ Fork \/ SkipTest \/ Pass \/ Fail \/ Return)
      <4>1. UNCHANGED <<reasons, nfd>> /\ OwnFds' = OwnFds /\ pc # "done"
        BY <2>2, <3>2, QuietSteps
      <4>2. S' = S /\ Because("prefix") = {}
        BY <4>1 DEF Because
      <4> QED BY <4>1, <4>2 DEF FdsInv, FdsOpen
    <3>3. CASE Prepare \/ Fork \/ Return
      <4>1. reasons' = reasons /\ pc # "done"
        BY <3>3 DEF Prepare, Selected, Fork, Return, results
      <4>2. S' = S /\ Because("prefix") = {}
        BY <4>1 DEF Because
      <4>3. nfd = 3 + 2 * Cardinality(S) + OwnFds
        BY <4>1, <4>2 DEF FdsInv, FdsOpen
      <4>4. \/ nfd' = nfd + 4 /\ OwnFds = 0 /\ OwnFds' = 4
            \/ nfd' = nfd - 2 /\ OwnFds = 4 /\ OwnFds' = 2
            \/ nfd' = nfd - 2 /\ OwnFds = 2 /\ OwnFds' = 0
        <5>1. CASE Prepare
          BY <5>1 DEF Prepare, Selected, OwnFds, BeforeFork, Judging, NoStdin, Lost
        <5>2. CASE Fork
          BY <5>2 DEF Fork, OwnFds, BeforeFork, Judging, NoStdin, Lost
        <5>3. CASE Return
          <6>1. pc = "return" /\ cur \in Run
            BY <5>3, CurFacts DEF Return
          <6>2. piped
            BY <4>2, <6>1 DEF FdsInv, PipesMade, Because
          <6> QED BY <5>3, <6>2 DEF Return, OwnFds, BeforeFork, Judging, NoStdin, Lost
        <5> QED BY <3>3, <5>1, <5>2, <5>3
      <4> HIDE DEF S
      <4> QED BY <4>2, <4>3, <4>4, <2>c
    <3>4. CASE SkipTest \/ Pass \/ Fail
      <4>1. /\ cur \in Run /\ cur \notin S /\ nfd' = nfd /\ pc # "done"
            /\ Because("prefix") = {} /\ ~(Fail /\ why = "prefix")
            /\ S' = IF Fail /\ why = "stdin" THEN S \cup {cur} ELSE S
        BY <3>4, RecordSets, ReasonNames DEF SkipTest, Selected, Pass, Fail
      <4>2. IF Fail /\ why = "stdin" THEN OwnFds = 4 /\ OwnFds' = 2 ELSE OwnFds' = OwnFds
        BY <3>4, <4>1 DEF SkipTest, Selected, Pass, Fail, OwnFds, BeforeFork,
          Judging, NoStdin, Lost
      <4>3. IF Fail /\ why = "stdin" THEN Cardinality(S)' = Cardinality(S) + 1
                                    ELSE Cardinality(S)' = Cardinality(S)
        BY <4>1, OneMore, ReasonNames
      <4>4. nfd = 3 + 2 * Cardinality(S) + OwnFds
        BY <4>1 DEF FdsInv, FdsOpen
      <4> HIDE DEF S
      <4> QED BY <4>1, <4>2, <4>3, <4>4, <2>c
    <3> QED BY <3>2, <3>3, <3>4
  <2> QED BY <2>1, <2>2
<1>3. FdsInv => FdBalance
  <2> SUFFICES ASSUME FdsInv, pc = "main", Because("prefix") = {}
               PROVE  nfd = 3 + 2 * Cardinality(Because("stdin"))
    BY DEF FdBalance
  <2>1. OwnFds = 0
    BY DEF OwnFds, BeforeFork, Judging, NoStdin, Lost
  <2>2. Cardinality(Because("stdin")) \in Nat
    BY OneMore, ReasonNames
  <2> QED BY <2>1, <2>2 DEF FdsInv, FdsOpen
<1> QED BY <1>1, <1>2, <1>3, TypeInvariant, LedgerInvariant, PTL DEF Spec

----------------------------------------------------------------------------
(* The sets of runs the counters are compared with. *)
LEMMA CountedSets ==
  /\ Because("prefix") \cup Because("stdin") \in SUBSET Run
  /\ With("FAIL") \in SUBSET Run /\ HarnessErrors \in SUBSET Run
BY DEF Because, With, HarnessErrors

LEMMA CountTypes ==
  ASSUME TypeInv
  PROVE  /\ cnt \in Counters
         /\ cnt.run \in Nat /\ cnt.failed \in Nat /\ cnt.passed \in Nat
         /\ cnt.xfailed \in Nat /\ cnt.xpassed \in Nat /\ cnt.expected \in Nat
         /\ InHand \in {0, 1} /\ Pending \in {0, 1}
         /\ Cardinality(Because("prefix") \cup Because("stdin")) \in Nat
         /\ Cardinality(With("FAIL")) \in Nat
         /\ Cardinality(HarnessErrors) \in Nat
<1>1. cnt \in Counters
  BY DEF TypeInv, TypeOK, CtlTypeOK
<1>2. InHand \in {0, 1} /\ Pending \in {0, 1}
  BY DEF InHand, Pending
<1>3. /\ Cardinality(Because("prefix") \cup Because("stdin")) \in Nat
      /\ Cardinality(With("FAIL")) \in Nat
      /\ Cardinality(HarnessErrors) \in Nat
  BY CountedSets, OneMore
<1> QED BY <1>1, <1>2, <1>3 DEF Counters

(* What a skipped test, pass: and fail: do to those sets. *)
LEMMA CountedRecords ==
  ASSUME TypeInv, LedgerInv, SkipTest \/ Pass \/ Fail
  PROVE  /\ Cardinality(Because("prefix") \cup Because("stdin"))'
              = Cardinality(Because("prefix") \cup Because("stdin"))
                  + IF Fail /\ why \in {"prefix", "stdin"} THEN 1 ELSE 0
         /\ Cardinality(With("FAIL"))'
              = Cardinality(With("FAIL")) + IF Fail /\ ~xfail /\ ~flaky THEN 1 ELSE 0
         /\ Cardinality(HarnessErrors)'
              = Cardinality(HarnessErrors)
                  + IF Fail /\ why = "harness" /\ CurTest.xfail THEN 1 ELSE 0
<1> DEFINE P == Because("prefix") \cup Because("stdin")
<1>1. /\ cur \in Run /\ UNCHANGED <<plan, cur>>
      /\ cur \notin Because("prefix") /\ cur \notin Because("stdin")
      /\ cur \notin Because("harness")
      /\ Because("prefix")' = IF Fail /\ why = "prefix" THEN Because("prefix") \cup {cur}
                                                       ELSE Because("prefix")
      /\ Because("stdin")' = IF Fail /\ why = "stdin" THEN Because("stdin") \cup {cur}
                                                     ELSE Because("stdin")
      /\ Because("harness")' = IF Fail /\ why = "harness" THEN Because("harness") \cup {cur}
                                                         ELSE Because("harness")
  BY RecordSets, ReasonNames
<1>2. /\ cur \notin With("FAIL")
      /\ With("FAIL")' = IF Fail /\ ~xfail /\ ~flaky THEN With("FAIL") \cup {cur}
                                                   ELSE With("FAIL")
  BY RecordSets DEF Verdicts
<1>3. P' = IF Fail /\ why \in {"prefix", "stdin"} THEN P \cup {cur} ELSE P
  BY <1>1
<1>4. HarnessErrors' = IF Fail /\ why = "harness" /\ CurTest.xfail
                       THEN HarnessErrors \cup {cur} ELSE HarnessErrors
  BY <1>1 DEF HarnessErrors, DescOf, CurTest
<1>5. cur \notin P /\ cur \notin HarnessErrors
  BY <1>1 DEF HarnessErrors
<1>6. \A A \in SUBSET Run : Cardinality(A) + 0 = Cardinality(A)
  BY OneMore
<1>7. Cardinality(P)' = Cardinality(P) + IF Fail /\ why \in {"prefix", "stdin"} THEN 1 ELSE 0
  BY <1>1, <1>3, <1>5, <1>6, OneMore, CountedSets
<1>8. Cardinality(With("FAIL"))'
        = Cardinality(With("FAIL")) + IF Fail /\ ~xfail /\ ~flaky THEN 1 ELSE 0
  BY <1>1, <1>2, <1>6, OneMore, CountedSets
<1>9. Cardinality(HarnessErrors)'
        = Cardinality(HarnessErrors) + IF Fail /\ why = "harness" /\ CurTest.xfail THEN 1 ELSE 0
  BY <1>1, <1>4, <1>5, <1>6, OneMore, CountedSets
<1> QED BY <1>7, <1>8, <1>9

(* What the controller has counted for the run in hand, and what pass: and *)
(* fail: add.                                                              *)
LEMMA PassCounts ==
  ASSUME TypeInv, LedgerInv, Pass
  PROVE  /\ InHand = 1 /\ InHand' = 0 /\ Pending' = 0
         /\ Pending = IF xfail THEN 1 ELSE 0
         /\ cnt'.run = cnt.run /\ cnt'.failed = cnt.failed
         /\ cnt'.xfailed = cnt.xfailed /\ cnt'.expected = cnt.expected
         /\ cnt'.passed = IF xfail THEN cnt.passed ELSE cnt.passed + 1
         /\ cnt'.xpassed = IF xfail THEN cnt.xpassed + 1 ELSE cnt.xpassed
<1>1. /\ InHand = 1 /\ InHand' = 0 /\ Pending' = 0
      /\ Pending = IF CurTest.xfail THEN 1 ELSE 0
      /\ xfail = CurTest.xfail
  BY DEF Pass, InHand, Pending, Judging, BeforeFork, NoStdin, Lost, LedgerInv,
    ReasonsLoaded, OwnReasons
<1>2. cnt \in Counters
  BY CountTypes
<1> QED BY <1>1, <1>2 DEF Pass, Counters

LEMMA FailCounts ==
  ASSUME TypeInv, LedgerInv, Fail
  PROVE  /\ InHand = (IF why \in {"prefix", "stdin"} THEN 0 ELSE 1)
         /\ InHand' = 0 /\ Pending' = 0
         /\ cnt'.run = cnt.run /\ cnt'.passed = cnt.passed
         /\ cnt'.xpassed = cnt.xpassed
         /\ cnt'.failed = cnt.failed + (IF ~xfail /\ ~flaky THEN 1 ELSE 0)
         /\ cnt'.xfailed = cnt.xfailed + (IF ~xfail /\ ~flaky THEN 0 ELSE 1)
         /\ cnt'.expected = cnt.expected + (IF ~xfail /\ flaky THEN 1 ELSE 0)
         /\ Pending = (IF xfail THEN 1 ELSE 0)
                        + (IF why = "harness" /\ CurTest.xfail THEN 1 ELSE 0)
         /\ why = "harness" => ~xfail /\ ~flaky
<1>1. pc = "fail" /\ pc' = "return" /\ xfail \in BOOLEAN /\ flaky \in BOOLEAN
  BY CurFacts DEF Fail
<1>2. /\ InHand = (IF why \in {"prefix", "stdin"} THEN 0 ELSE 1)
      /\ InHand' = 0 /\ Pending' = 0
  BY <1>1 DEF InHand, Pending, Judging, BeforeFork, NoStdin, Lost
<1>3. /\ why = "prefix" => ~xfail
      /\ why = "harness" => ~xfail /\ ~flaky
      /\ why \notin {"prefix", "harness"} => xfail = CurTest.xfail
  BY <1>1 DEF LedgerInv, ReasonsLoaded, OwnReasons
<1>4. Pending = IF why # "prefix" /\ CurTest.xfail THEN 1 ELSE 0
  BY <1>1 DEF Pending, Judging, BeforeFork, NoStdin, Lost
<1>5. Pending = (IF xfail THEN 1 ELSE 0)
                  + (IF why = "harness" /\ CurTest.xfail THEN 1 ELSE 0)
  BY <1>3, <1>4
<1>6. cnt \in Counters
  BY CountTypes
<1>7. /\ cnt'.run = cnt.run /\ cnt'.passed = cnt.passed
      /\ cnt'.xpassed = cnt.xpassed
      /\ cnt'.failed = cnt.failed + (IF ~xfail /\ ~flaky THEN 1 ELSE 0)
      /\ cnt'.xfailed = cnt.xfailed + (IF ~xfail /\ ~flaky THEN 0 ELSE 1)
      /\ cnt'.expected = cnt.expected + (IF ~xfail /\ flaky THEN 1 ELSE 0)
  <2>1. CASE ~xfail /\ ~flaky
    BY <1>6, <2>1 DEF Fail, Counters
  <2>2. CASE xfail \/ flaky
    BY <1>1, <1>6, <2>2 DEF Fail, Counters
  <2> QED BY <2>1, <2>2
<1> QED BY <1>2, <1>3, <1>5, <1>7

(* A step keeps the counters in agreement with the records. *)
LEMMA CountNext == TypeInv /\ LedgerInv /\ CountInv /\ [Next]_vars => CountInv'
<1> SUFFICES ASSUME TypeInv, LedgerInv, CountInv, [Next]_vars PROVE CountInv'
  OBVIOUS
<1> DEFINE p == Cardinality(Because("prefix") \cup Because("stdin"))
           f == Cardinality(With("FAIL"))
           h == Cardinality(HarnessErrors)
<1>t. /\ cnt \in Counters
      /\ cnt.run \in Nat /\ cnt.failed \in Nat /\ cnt.passed \in Nat
      /\ cnt.xfailed \in Nat /\ cnt.xpassed \in Nat /\ cnt.expected \in Nat
      /\ InHand \in {0, 1} /\ Pending \in {0, 1}
      /\ p \in Nat /\ f \in Nat /\ h \in Nat
  BY CountTypes
<1>i. /\ cnt.passed + cnt.xpassed + cnt.failed + cnt.xfailed + InHand = cnt.run + p
      /\ cnt.failed = f
      /\ pc # "done" => cnt.expected = cnt.xfailed + cnt.xpassed + h + Pending
  BY DEF CountInv, RunsCounted, FailuresCounted, ExpectedCounted
<1>q. SUFFICES
        /\ cnt'.passed + cnt'.xpassed + cnt'.failed + cnt'.xfailed + InHand' = cnt'.run + p'
        /\ cnt'.failed = f'
        /\ pc' # "done" => cnt'.expected = cnt'.xfailed + cnt'.xpassed + h' + Pending'
  BY DEF CountInv, RunsCounted, FailuresCounted, ExpectedCounted
<1>s. ASSUME UNCHANGED <<plan, verdict, reasons>>
      PROVE  p' = p /\ f' = f /\ h' = h
  <2>1. /\ (Because("prefix") \cup Because("stdin"))' = Because("prefix") \cup Because("stdin")
        /\ With("FAIL")' = With("FAIL") /\ HarnessErrors' = HarnessErrors
    BY <1>s DEF Because, With, HarnessErrors, DescOf
  <2> QED BY <2>1
<1>1. CASE ~Controller
  <2>1. UNCHANGED <<plan, pc, cur, why, cnt, verdict, reasons>>
    BY <1>1, OtherSteps DEF ctlVars
  <2>2. InHand' = InHand /\ Pending' = Pending
    BY <2>1 DEF InHand, Pending, Judging, BeforeFork, NoStdin, Lost, CurTest
  <2> HIDE DEF p, f, h
  <2> QED BY <2>1, <2>2, <1>s, <1>i
<1>2. CASE Controller /\ ~(Prepare \/ Fork \/ SkipTest \/ Pass \/ Fail \/ Return)
  <2>1. /\ UNCHANGED <<plan, cnt, verdict, reasons>> /\ InHand' = InHand
        /\ pc' = "done" \/ Pending' = Pending
        /\ pc # "done"
    BY <1>2, QuietSteps
  <2> HIDE DEF p, f, h
  <2> QED BY <2>1, <1>s, <1>i
<1>3. CASE Prepare
  <2>1. /\ UNCHANGED <<plan, verdict, reasons>> /\ pc # "done"
        /\ InHand = 0 /\ InHand' = 0 /\ Pending = 0
        /\ Pending' = IF CurTest.xfail THEN 1 ELSE 0
    BY <1>3 DEF Prepare, Selected, shared, InHand, Pending, Judging, BeforeFork,
      NoStdin, Lost, CurTest
  <2>2. /\ cnt'.run = cnt.run /\ cnt'.failed = cnt.failed /\ cnt'.passed = cnt.passed
        /\ cnt'.xfailed = cnt.xfailed /\ cnt'.xpassed = cnt.xpassed
        /\ cnt'.expected = IF CurTest.xfail THEN cnt.expected + 1 ELSE cnt.expected
    BY <1>3, <1>t DEF Prepare, Counters
  <2> HIDE DEF p, f, h
  <2> QED BY <2>1, <2>2, <1>s, <1>i, <1>t
<1>4. CASE Fork
  <2>1. /\ UNCHANGED <<plan, verdict, reasons>> /\ pc # "done"
        /\ InHand = 0 /\ InHand' = 1 /\ Pending' = Pending
    BY <1>4 DEF Fork, InHand, Pending, Judging, BeforeFork, NoStdin, Lost, CurTest
  <2>2. /\ cnt'.run = cnt.run + 1 /\ cnt'.failed = cnt.failed /\ cnt'.passed = cnt.passed
        /\ cnt'.xfailed = cnt.xfailed /\ cnt'.xpassed = cnt.xpassed
        /\ cnt'.expected = cnt.expected
    BY <1>4, <1>t DEF Fork, Counters
  <2> HIDE DEF p, f, h
  <2> QED BY <2>1, <2>2, <1>s, <1>i, <1>t
<1>5. CASE Return
  <2>1. /\ UNCHANGED <<plan, cnt, verdict, reasons>> /\ pc # "done"
        /\ InHand = 0 /\ InHand' = 0 /\ Pending = 0 /\ Pending' = 0
    BY <1>5 DEF Return, shared, results, InHand, Pending, Judging, BeforeFork, NoStdin, Lost
  <2> HIDE DEF p, f, h
  <2> QED BY <2>1, <1>s, <1>i
<1>6. CASE SkipTest
  <2>1. /\ pc # "done" /\ InHand = 0 /\ InHand' = 0 /\ Pending = 0 /\ Pending' = 0
    BY <1>6 DEF SkipTest, Selected, InHand, Pending, Judging, BeforeFork, NoStdin, Lost
  <2>2. /\ cnt'.run = cnt.run /\ cnt'.failed = cnt.failed /\ cnt'.passed = cnt.passed
        /\ cnt'.xfailed = cnt.xfailed /\ cnt'.xpassed = cnt.xpassed
        /\ cnt'.expected = cnt.expected
    BY <1>6, <1>t DEF SkipTest, Counters
  <2>3. ~Fail
    BY <1>6 DEF SkipTest, Selected, Fail
  <2>4. p' = p + 0 /\ f' = f + 0 /\ h' = h + 0
    BY <1>6, <2>3, CountedRecords
  <2> HIDE DEF p, f, h
  <2> QED BY <2>1, <2>2, <2>4, <1>i, <1>t
<1>7. CASE Pass
  <2>3. ~Fail /\ pc # "done"
    BY <1>7 DEF Pass, Fail
  <2>4. p' = p + 0 /\ f' = f + 0 /\ h' = h + 0
    BY <1>7, <2>3, CountedRecords
  <2> HIDE DEF p, f, h
  <2> QED BY <1>7, <2>3, <2>4, PassCounts, <1>i, <1>t
<1>8. CASE Fail
  <2>1. pc # "done"
    BY <1>8 DEF Fail
  <2>2. /\ p' = p + IF why \in {"prefix", "stdin"} THEN 1 ELSE 0
        /\ f' = f + IF ~xfail /\ ~flaky THEN 1 ELSE 0
        /\ h' = h + IF why = "harness" /\ CurTest.xfail THEN 1 ELSE 0
    BY <1>8, CountedRecords
  <2> HIDE DEF p, f, h
  <2> QED BY <1>8, <2>1, <2>2, FailCounts, <1>i, <1>t
<1> QED BY <1>1, <1>2, <1>3, <1>4, <1>5, <1>6, <1>7, <1>8

LEMMA CountInit == Init => CountInv
<1> SUFFICES ASSUME Init PROVE CountInv
  OBVIOUS
<1>1. pc = "main" /\ verdict = [r \in Run |-> ""] /\ reasons = [r \in Run |-> ""]
  BY DEF Init
<1>2. /\ cnt.run = 0 /\ cnt.failed = 0 /\ cnt.passed = 0
      /\ cnt.xfailed = 0 /\ cnt.xpassed = 0 /\ cnt.expected = 0
  BY DEF Init
<1>3. InHand = 0 /\ Pending = 0
  BY <1>1 DEF InHand, Pending, Judging, BeforeFork, NoStdin, Lost
<1>4. /\ Because("prefix") \cup Because("stdin") = {}
      /\ With("FAIL") = {} /\ HarnessErrors = {}
  BY <1>1 DEF Because, With, HarnessErrors
<1>5. /\ Cardinality(Because("prefix") \cup Because("stdin")) = 0
      /\ Cardinality(With("FAIL")) = 0 /\ Cardinality(HarnessErrors) = 0
  BY <1>4, FS_EmptySet
<1> QED BY <1>2, <1>3, <1>5 DEF CountInv, RunsCounted, FailuresCounted, ExpectedCounted

LEMMA CountInvariant == Spec => []CountInv
BY CountInit, CountNext, TypeInvariant, LedgerInvariant, PTL DEF Spec

(***************************************************************************)
(* Between tests the counters add up, for every suite: each test that was  *)
(* forked has exactly one verdict, tests_failed is the number of FAIL      *)
(* lines, and expected_failures, raised in advance when a reason is loaded *)
(* and again at fail: for a flaky test, is what the summary says it is.    *)
(* Code: the tests_* counters of cheriostest_run_test().                   *)
(***************************************************************************)
THEOREM AccountsAddUp == Spec => []Accounting
<1>1. TypeInv /\ CountInv => Accounting
  <2> SUFFICES ASSUME TypeInv, CountInv, pc = "main" PROVE Accounting
    BY DEF Accounting
  <2>1. InHand = 0 /\ Pending = 0
    BY DEF InHand, Pending, Judging, BeforeFork, NoStdin, Lost
  <2>2. /\ cnt.passed + cnt.xpassed + cnt.failed + cnt.xfailed
             = cnt.run + Cardinality(Because("prefix") \cup Because("stdin"))
        /\ cnt.expected = cnt.xfailed + cnt.xpassed + Cardinality(HarnessErrors)
    BY <2>1, CountTypes DEF CountInv, RunsCounted, ExpectedCounted
  <2> QED BY <2>2 DEF Accounting, CountInv, FailuresCounted, HarnessErrors
<1> QED BY <1>1, CountInvariant, TypeInvariant, PTL

----------------------------------------------------------------------------
(* main() ends with EX_FAILED exactly when a FAIL line was printed. *)
LEMMA FailedMeansFail ==
  ASSUME TypeInv, CountInv
  PROVE  cnt.failed > 0 <=> \E r \in Run : verdict[r] = "FAIL"
<1>1. /\ IsFiniteSet(With("FAIL")) /\ Cardinality(With("FAIL")) \in Nat
      /\ cnt.failed = Cardinality(With("FAIL"))
  BY OneMore, CountedSets DEF CountInv, FailuresCounted
<1>2. Cardinality(With("FAIL")) = 0 <=> With("FAIL") = {}
  BY <1>1, FS_EmptySet
<1>3. With("FAIL") = {} <=> ~\E r \in Run : verdict[r] = "FAIL"
  BY DEF With
<1> HIDE DEF With
<1> QED BY <1>1, <1>2, <1>3

(* Between tests, and only then, the suite owes nobody a verdict. *)
LEMMA WhenSettled ==
  ASSUME TypeInv, LedgerInv
  PROVE  /\ pc = "main" => Suite!Settled
         /\ pc \notin {"main", "return", "done"} => cur # 0 /\ verdict[cur] = ""
<1>1. cur \in Nat /\ (pc \notin {"main", "done"} => cur \in Run)
  BY CurFacts
<1>2. pc \notin {"main", "done"} => cur # 0
  BY <1>1 DEF Run
<1>3. pc \notin {"main", "return", "done"} => verdict[cur] = ""
  BY <1>1 DEF LedgerInv, Unjudged
<1>4. pc = "main" => Suite!Settled
  BY DEF LedgerInv, CurSettled, Suite!Settled, Suite!PassedOver, CurTest
<1> QED BY <1>2, <1>3, <1>4

(***************************************************************************)
(* The harness implements the suite: every step of the controller starts   *)
(* the next test, gives the current one a verdict its descriptor allows,   *)
(* ends the suite with the status that says whether a test failed, gives   *)
(* up, or changes nothing a reader of the output can see; and no step of a *)
(* test process does anything to it.                                       *)
(* Code: main(), cheriostest.c 1108-1126 and 1183-1185.                    *)
(***************************************************************************)
THEOREM HarnessImplementsSuite == Spec => ImplementsTestSuite
<1>1. Init => Suite!SuiteInit
  BY DEF Init, ProcInit, Suite!SuiteInit, Run
<1>2. TypeInv /\ LedgerInv /\ CountInv /\ [Next]_vars
        => [Suite!SuiteNext]_(Suite!suiteVars)
  <2> SUFFICES ASSUME TypeInv, LedgerInv, CountInv, [Next]_vars
               PROVE  [Suite!SuiteNext]_(Suite!suiteVars)
    OBVIOUS
  <2>c. /\ cur \in Nat
        /\ pc \notin {"main", "done"} => cur \in Run
        /\ xfail \in BOOLEAN /\ flaky \in BOOLEAN
    BY CurFacts
  <2>w. /\ pc = "main" => Suite!Settled
        /\ pc \notin {"main", "return", "done"} => cur # 0 /\ verdict[cur] = ""
        /\ pc # "done" => exitcode = -1
    BY WhenSettled DEF LedgerInv, StillRunning
  <2>s. CASE UNCHANGED <<plan, cur, verdict, exitcode>>
    BY <2>s DEF Suite!suiteVars
  <2>1. CASE ~Controller
    BY <2>1, <2>s, OtherSteps DEF ctlVars
  <2>2. CASE BeginTest
    <3>1. Suite!Start
      BY <2>2, <2>w DEF BeginTest, Suite!Start, results
    <3> QED BY <3>1 DEF Suite!SuiteNext
  <2>3. CASE UnknownTest
    <3>1. Suite!Abort
      BY <2>3, <2>w DEF UnknownTest, ExitWith, Suite!Abort, results, procVars, EX_USAGE
    <3> QED BY <3>1 DEF Suite!SuiteNext
  <2>4. CASE PipeFails \/ ForkFails
    <3>1. /\ pc \notin {"main", "return", "done"}
          /\ exitcode' = 71 /\ UNCHANGED <<plan, cur, verdict>>
      BY <2>4 DEF PipeFails, Selected, ForkFails, ExitWith, EX_OSERR, procVars, results
    <3>2. ~(Fast /\ "SLOW" \in CurTest.flags /\ ~CurTest.prefix)
      BY <2>4 DEF PipeFails, Selected, ForkFails, LedgerInv, ReasonsLoaded,
        OwnReasons, Wanted
    <3>3. ~Suite!Settled
      BY <3>1, <3>2, <2>w DEF Suite!Settled, Suite!PassedOver, CurTest
    <3>4. Suite!Abort
      BY <3>1, <3>3, <2>w DEF Suite!Abort
    <3> QED BY <3>4 DEF Suite!SuiteNext
  <2>5. CASE Finish
    <3>1. cnt.failed > 0 <=> \E r \in 1..MaxRun : verdict[r] = "FAIL"
      BY FailedMeansFail DEF Run
    <3>2. exitcode' = IF \E r \in 1..MaxRun : verdict[r] = "FAIL" THEN 255 ELSE 0
      BY <2>5, <3>1 DEF Finish, ExitWith, EX_FAILED, EX_OK
    <3>3. Suite!Complete
      BY <2>5, <2>w, <3>2 DEF Finish, Suite!Complete, procVars, results
    <3> QED BY <3>3 DEF Suite!SuiteNext
  <2>6. CASE SkipTest \/ Pass \/ Fail
    <3>1. pc \notin {"main", "return", "done"} /\ UNCHANGED <<plan, cur, exitcode>>
      BY <2>6 DEF SkipTest, Selected, Pass, Fail, procVars
    <3>2. PICK v : verdict' = [verdict EXCEPT ![cur] = v] /\ v \in Suite!Outcomes(CurTest)
      <4>1. CASE SkipTest
        BY <4>1 DEF SkipTest, Selected, Suite!Outcomes
      <4>2. CASE Pass
        BY <4>2 DEF Pass, PassVerdict, Suite!Outcomes, LedgerInv, ReasonsLoaded,
          Judging, OwnReasons, Wanted
      <4>3. CASE Fail
        <5>1. FailVerdict(xfail, flaky) \in Suite!Outcomes(CurTest)
          BY <4>3 DEF Fail, FailVerdict, Suite!Outcomes, LedgerInv, ReasonsLoaded,
            OwnReasons, Wanted
        <5> QED BY <4>3, <5>1 DEF Fail
      <4> QED BY <2>6, <4>1, <4>2, <4>3
    <3>3. ~(Fast /\ "SLOW" \in CurTest.flags /\ ~CurTest.prefix)
      BY <2>6 DEF SkipTest, Selected, Pass, Fail, LedgerInv, ReasonsLoaded, Judging,
        OwnReasons, Wanted
    <3>4. Suite!Judge
      BY <3>1, <3>2, <3>3, <2>w DEF Suite!Judge, Suite!PassedOver, CurTest
    <3> QED BY <3>4 DEF Suite!SuiteNext
  <2>7. CASE /\ Controller
             /\ ~(BeginTest \/ UnknownTest \/ PipeFails \/ ForkFails \/ Finish)
             /\ ~(SkipTest \/ Pass \/ Fail)
    <3>1. UNCHANGED <<plan, verdict>>
      BY <2>7, OneRecord
    <3>2. UNCHANGED <<cur, exitcode>>
      BY <2>7 DEF Controller, RejectName, PassOver, Prepare, FillStdin,
        StdinFails, Fork, Wait, CheckResult, CheckStatus, CheckSignal,
        CheckReport, CheckOutput, Return, judged
    <3> QED BY <3>1, <3>2, <2>s
  <2> QED BY <2>1, <2>2, <2>3, <2>4, <2>5, <2>6, <2>7
<1> QED
  BY <1>1, <1>2, TypeInvariant, LedgerInvariant, CountInvariant, PTL
  DEF Spec, ImplementsTestSuite, Suite!SuiteSpec

=============================================================================
