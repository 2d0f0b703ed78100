---------------------------- MODULE ReportProofs ----------------------------
(***************************************************************************)
(* Theorems about what test processes report, and what the controller      *)
(* makes of it: the output pipe, the shared page and the wait status.      *)
(***************************************************************************)
EXTENDS HarnessProofs

(* A process step is one of an alive process; it leaves the plan alone. *)
LEMMA AliveSteps ==
  ASSUME NEW p \in Proc, ProcStep(p)
  PROVE  Alive(p) /\ UNCHANGED plan
BY DEF ProcStep, PrintOut, Expect, Signalled, KilledBySignal, Success,
  SuccessUnwarn, SuccessWithWarn, WarnFlag, WarnResult, Failure, FailureResult,
  FailureStr, Leave, QuickExit, Flush, Exit, ForkOwn, Send, Reap, May, Alive,
  NotAlive

(***************************************************************************)
(* A test's output pipe holds only what processes of that test printed,    *)
(* whatever a test forks and leaves behind: what it is compared with is    *)
(* neither text of the controller nor of another test.                     *)
(* Code: the fflush() calls before fork(), cheriostest.c 362-368.          *)
(***************************************************************************)
THEOREM OutputStaysOwn == Spec => []OutputIsOwn
<1>1. Init => OwnText
  <2>1. \A S : <<>> \in Seq(S)
    BY EmptySeq
  <2>2. ASSUME Init
        PROVE  /\ \A p \in Proc : pbuf[p] = <<>>
               /\ \A r \in Run : pipe[r] = <<>>
    BY <2>2 DEF Init, ProcInit
  <2> QED BY <2>1, <2>2 DEF OwnText
<1>2. TypeInv /\ OwnText /\ [Next]_vars => OwnText'
  <2> SUFFICES ASSUME TypeInv, OwnText, [Next]_vars PROVE OwnText'
    OBVIOUS
  <2>t. pbuf \in [Proc -> Seq(0..MaxRun)] /\ pipe \in [Run -> Seq(0..MaxRun)]
    BY DEF TypeInv, TypeOK, ProcTypeOK
  <2>u. CASE UNCHANGED <<pbuf, pipe>>
    BY <2>u DEF OwnText
  <2>1. CASE Controller
    <3>1. CASE Fork
      <4>1. pc = "fork" /\ cur \in Run /\ Child(cur) \in Proc
        BY <3>1, CurFacts, RunProcs DEF Fork
      <4>2. pbuf' = [pbuf EXCEPT ![Child(cur)] = <<>>] /\ pipe' = pipe
        BY <3>1 DEF Fork
      <4> QED BY <4>1, <4>2, <2>t, EmptySeq DEF OwnText
    <3>2. CASE CheckOutput
      <4>1. /\ cur \in Run /\ pbuf' = pbuf /\ ReadLen \in Nat
            /\ pipe' = [pipe EXCEPT ![cur] = SubSeq(@, ReadLen + 1, Len(@))]
        BY <3>2, CurFacts, ReadLenType DEF CheckOutput, shared, TypeInv
      <4>2. SubSeq(pipe[cur], ReadLen + 1, Len(pipe[cur])) \in Seq({cur})
        BY <4>1, UnreadType DEF OwnText
      <4> QED BY <4>1, <4>2, <2>t DEF OwnText
    <3>3. CASE ~Fork /\ ~CheckOutput
      BY <2>1, <2>u, <3>3 DEF Controller, BeginTest, UnknownTest, RejectName,
        PassOver, SkipTest, Prepare, PipeFails, FillStdin, StdinFails, ForkFails,
        Wait, CheckResult, CheckStatus, CheckSignal, CheckReport, Pass, Fail,
        Return, Finish, procVars, shared
    <3> QED BY <3>1, <3>2, <3>3
  <2>2. CASE Processes
    <3>1. PICK p \in Proc : ProcStep(p)
      BY <2>2 DEF Processes
    <3>2. p[1] \in Run /\ Forked(p[1]) \in Proc /\ Forked(p[1])[1] = p[1]
      BY ProcParts DEF Forked
    <3>3. CASE PrintOut(p)
      <4>1. Append(pbuf[p], p[1]) \in Seq({p[1]})
        BY AppendProperties DEF OwnText
      <4> QED BY <3>3, <4>1, <2>t DEF PrintOut, OwnText
    <3>4. CASE Flush(p)
      <4>1. CASE UNCHANGED <<pbuf, pipe>>
        BY <4>1, <2>u
      <4>2. CASE /\ pbuf[p] # <<>>
                 /\ pipe' = [pipe EXCEPT ![p[1]] = Append(@, Head(pbuf[p]))]
                 /\ pbuf' = [pbuf EXCEPT ![p] = Tail(@)]
        <5>1. pbuf[p] \in Seq({p[1]}) /\ pipe[p[1]] \in Seq({p[1]})
          BY <3>2 DEF OwnText
        <5>2. Head(pbuf[p]) = p[1] /\ Tail(pbuf[p]) \in Seq({p[1]})
          BY <4>2, <5>1, HeadTailProperties
        <5>3. Append(pipe[p[1]], Head(pbuf[p])) \in Seq({p[1]})
          BY <5>1, <5>2, AppendProperties
        <5> QED BY <3>2, <4>2, <5>2, <5>3, <2>t DEF OwnText
      <4> QED BY <3>4, <4>1, <4>2 DEF Flush
    <3>5. CASE ForkOwn(p)
      BY <3>2, <3>5, <2>t DEF ForkOwn, OwnText
    <3>6. CASE ~PrintOut(p) /\ ~Flush(p) /\ ~ForkOwn(p)
      BY <3>1, <3>6, <2>u DEF ProcStep, Expect, Signalled, KilledBySignal,
        Success, SuccessUnwarn, SuccessWithWarn, WarnFlag, WarnResult, Failure,
        FailureResult, FailureStr, Leave, QuickExit, Exit, Send, Reap
    <3> QED BY <3>3, <3>4, <3>5, <3>6
  <2>3. CASE UNCHANGED vars
    BY <2>3, <2>u DEF vars, procVars
  <2> QED BY <2>1, <2>2, <2>3 DEF Next, Done
<1>3. OwnText => OutputIsOwn
  <2> SUFFICES ASSUME OwnText, NEW r \in Run, NEW i \in 1..Len(pipe[r])
               PROVE  pipe[r][i] = r
    BY DEF OutputIsOwn
  <2>1. pipe[r] \in Seq({r})
    BY DEF OwnText
  <2> QED BY <2>1, ElementOfSeq
<1> QED BY <1>1, <1>2, <1>3, TypeInvariant, PTL DEF Spec

----------------------------------------------------------------------------
(* What a step of p does to the other processes: it may fork one, or reap  *)
(* it; and a process that declares a failure declares its own.             *)
LEMMA StepFrame ==
  ASSUME TypeInv, NEW p \in Proc, ProcStep(p)
  PROVE  /\ \A q \in Proc : q # p => /\ pstatus'[q] = pstatus[q]
                                     /\ q # Forked(p[1]) => ppc'[q] = ppc[q]
         /\ p # Forked(p[1]) =>
              \/ ppc'[Forked(p[1])] = ppc[Forked(p[1])]
              \/ /\ p[2] = "c" /\ ppc[p] = "body" /\ ppc'[p] = "body"
                 /\ ppc[Forked(p[1])] = "none" /\ ppc'[Forked(p[1])] = "body"
              \/ /\ p[2] = "c" /\ ppc[p] = "body" /\ ppc'[p] \in {"body", "failing"}
                 /\ ppc[Forked(p[1])] = "zombie" /\ ppc'[Forked(p[1])] = "reaped"
                 /\ (DescOf(p[1]).join = "check" /\ ppc'[p] = "body") =>
                      pstatus[Forked(p[1])] = Exited(EX_OK)
         /\ \/ failers' = failers
            \/ /\ ppc[p] = "failing" /\ ppc'[p] = "failed"
               /\ failers' = failers \cup {p}
<1>t. ppc \in [Proc -> ProcPc] /\ pstatus \in [Proc -> Status]
  BY DEF TypeInv, TypeOK, ProcTypeOK
<1>p. p[1] \in Run /\ p[2] \in {"c", "g"} /\ Forked(p[1]) \in Proc /\ p = <<p[1], p[2]>>
  BY ProcParts DEF Proc
<1> DEFINE g == Forked(p[1])
<1>g. p[2] = "g" => p = g
  BY <1>p DEF Forked
<1> HIDE DEF g
<1> USE DEF Goto, EndsWith, May
<1>1. CASE PrintOut(p) \/ Expect(p) \/ Send(p)
  BY <1>1 DEF PrintOut, Expect, Send
<1>2. CASE Signalled(p)
  BY <1>2, <1>t, <1>p DEF Signalled
<1>3. CASE KilledBySignal(p) \/ Success(p) \/ SuccessUnwarn(p)
  BY <1>3, <1>t, <1>p DEF KilledBySignal, Success, SuccessUnwarn
<1>4. CASE SuccessWithWarn(p) \/ WarnFlag(p) \/ WarnResult(p)
  BY <1>4, <1>t, <1>p DEF SuccessWithWarn, WarnFlag, WarnResult
<1>5. CASE Failure(p) \/ FailureResult(p) \/ FailureStr(p)
  BY <1>5, <1>t, <1>p DEF Failure, FailureResult, FailureStr
<1>6. CASE Leave(p) \/ QuickExit(p)
  BY <1>6, <1>t, <1>p DEF Leave, QuickExit
<1>7. CASE Flush(p) \/ Exit(p)
  BY <1>7, <1>t, <1>p DEF Flush, Exit
<1>8. CASE ForkOwn(p)
  BY <1>8, <1>t, <1>p, <1>g DEF ForkOwn, g
<1>9. CASE Reap(p)
  BY <1>9, <1>t, <1>p, <1>g DEF Reap, g
<1> QED BY <1>1, <1>2, <1>3, <1>4, <1>5, <1>6, <1>7, <1>8, <1>9 DEF ProcStep

(* p gets to l with status s; the page says what it said before. *)
Move(p, l, s) == ppc'[p] = l /\ pstatus'[p] = s
SameSignal == ccs'.signum = ccs.signum /\ ccs'.sig_by = ccs.sig_by
SameResult == ccs'.testresult = ccs.testresult /\ ccs'.res_by = ccs.res_by
NewResult(p, v) == ccs'.testresult = v /\ ccs'.res_by = p[1]

(***************************************************************************)
(* The ways a process moves, and what it then tells the controller.        *)
(***************************************************************************)
Reports(p) ==
  \/ /\ ppc[p] = "body" /\ "success" \in Ops(p) /\ Joined(p)
     /\ Move(p, "unwarn", Exited(EX_OK)) /\ NewResult(p, TESTRESULT_SUCCESS)
  \/ /\ ppc[p] = "warned" /\ Move(p, "flush", pstatus[p])
     /\ NewResult(p, TESTRESULT_SUCCESS)
  \/ /\ ppc[p] = "failing" /\ Move(p, "failed", pstatus[p])
     /\ NewResult(p, TESTRESULT_FAILURE)

Quietly(p) ==
  \/ Move(p, ppc[p], pstatus[p]) /\ ppc[p] # "failing"
  \/ /\ ppc[p] = "body" /\ ppc'[p] \in {"flush", "zombie"}
  \/ ppc[p] = "unwarn" /\ Move(p, "flush", pstatus[p])
  \/ /\ ppc[p] = "body" /\ "warn" \in Ops(p) /\ Joined(p)
     /\ Move(p, "setwarn", Exited(EX_OK))
  \/ ppc[p] = "setwarn" /\ Move(p, "warned", pstatus[p])
  \/ /\ ppc[p] = "body" /\ (p[2] = "c" \/ "fail" \in Ops(p))
     /\ Move(p, "failing", Exited(EX_SOFTWARE))
  \/ ppc[p] = "failed" /\ Move(p, "flush", pstatus[p])
  \/ ppc[p] = "flush" /\ Move(p, "zombie", pstatus[p])
  \/ ppc[p] = "flush" /\ Move(p, "zombie", Killed(SIGPIPE))

LEMMA StepKinds ==
  ASSUME TypeInv, NEW p \in Proc, ProcStep(p)
  PROVE  \/ Reports(p) /\ SameSignal
         \/ Quietly(p) /\ SameSignal /\ SameResult
         \/ /\ Signalled(p) /\ Move(p, "zombie", Exited(EX_SOFTWARE)) /\ SameResult
            /\ \E i \in SigInfo : ccs'.signum = i.signum
            /\ ccs'.sig_by = p[1]
<1>t. ppc \in [Proc -> ProcPc] /\ pstatus \in [Proc -> Status] /\ ccs \in State
  BY DEF TypeInv, TypeOK, ProcTypeOK
<1>p. p[1] \in Run /\ p[2] \in {"c", "g"} /\ Forked(p[1]) \in Proc
  BY ProcParts
<1>g. p[2] = "c" => p # Forked(p[1])
  BY DEF Forked
<1>e. /\ \A v : [ccs EXCEPT !.warn = v].signum = ccs.signum
      /\ \A v : [ccs EXCEPT !.warn = v].sig_by = ccs.sig_by
      /\ \A v : [ccs EXCEPT !.warn = v].testresult = ccs.testresult
      /\ \A v : [ccs EXCEPT !.warn = v].res_by = ccs.res_by
  BY <1>t DEF State
<1> USE DEF Goto, EndsWith, May, Move, Reports, Quietly, SameSignal, SameResult, NewResult
<1>1. CASE PrintOut(p) \/ Send(p)
  BY <1>1 DEF PrintOut, Send
<1>2. CASE Expect(p)
  BY <1>2, <1>t DEF Expect, State
<1>3. CASE Signalled(p)
  BY <1>3, <1>t DEF Signalled, HandlerStore, State
<1>4. CASE KilledBySignal(p)
  BY <1>4, <1>t DEF KilledBySignal
<1>5. CASE Success(p)
  BY <1>5, <1>t DEF Success, State
<1>6. CASE SuccessUnwarn(p)
  BY <1>6, <1>t, <1>e DEF SuccessUnwarn
<1>7. CASE SuccessWithWarn(p)
  BY <1>7, <1>t DEF SuccessWithWarn, State
<1>8. CASE WarnFlag(p)
  BY <1>8, <1>t, <1>e DEF WarnFlag
<1>9. CASE WarnResult(p)
  BY <1>9, <1>t DEF WarnResult, State
<1>10. CASE Failure(p)
  BY <1>10, <1>t, <1>e DEF Failure
<1>11. CASE FailureResult(p)
  BY <1>11, <1>t DEF FailureResult, State
<1>12. CASE FailureStr(p)
  BY <1>12, <1>t DEF FailureStr, State
<1>13. CASE Leave(p)
  BY <1>13, <1>t DEF Leave
<1>14. CASE QuickExit(p)
  BY <1>14, <1>t DEF QuickExit
<1>15. CASE Flush(p)
  BY <1>15, <1>t DEF Flush
<1>16. CASE Exit(p)
  BY <1>16, <1>t DEF Exit
<1>17. CASE ForkOwn(p)
  BY <1>17, <1>t, <1>p DEF ForkOwn
<1>18. CASE Reap(p)
  <2>1. /\ p[2] = "c" /\ ppc[p] = "body" /\ p # Forked(p[1])
        /\ \/ /\ ppc' = [ppc EXCEPT ![Forked(p[1])] = "reaped", ![p] = "failing"]
              /\ ccs' = [ccs EXCEPT !.warn = FALSE]
              /\ pstatus' = [pstatus EXCEPT ![p] = Exited(EX_SOFTWARE)]
           \/ /\ ppc' = [ppc EXCEPT ![Forked(p[1])] = "reaped"]
              /\ ccs' = ccs /\ pstatus' = pstatus
    BY <1>18, <1>g DEF Reap
  <2>2. \/ /\ ppc'[p] = "failing" /\ pstatus'[p] = Exited(EX_SOFTWARE)
           /\ ccs' = [ccs EXCEPT !.warn = FALSE]
        \/ ppc'[p] = ppc[p] /\ pstatus'[p] = pstatus[p] /\ ccs' = ccs
    BY <2>1, <1>t, <1>p
  <2>3. SameSignal /\ SameResult
    BY <2>2, <1>e
  <2> QED BY <2>1, <2>2, <2>3
<1> QED BY <1>1, <1>2, <1>3, <1>4, <1>5, <1>6, <1>7, <1>8, <1>9, <1>10, <1>11,
           <1>12, <1>13, <1>14, <1>15, <1>16, <1>17, <1>18 DEF ProcStep

----------------------------------------------------------------------------
(* A step of a quiet forked process does nothing to the page, nor to any   *)
(* child of the controller.                                                *)
LEMMA QuietStep ==
  ASSUME QuietForks, TypeInv, EvidenceInv, NEW p \in Proc, ProcStep(p), p[2] # "c"
  PROVE  /\ ccs' = ccs
         /\ \A r \in Run : /\ ppc'[Child(r)] = ppc[Child(r)]
                           /\ pstatus'[Child(r)] = pstatus[Child(r)]
<1>1. /\ p = Forked(p[1]) /\ Ops(p) \subseteq QuietOps
      /\ ppc[p] \in {"body", "flush"}
  BY AliveSteps, WhoIsAlive
<1>2. \A op : May(p, op) => op \in QuietOps
  BY <1>1 DEF May
<1>3. "alarm" \notin Ops(p)
  BY <1>1 DEF QuietOps
<1>4. ccs' = ccs
  BY <1>1, <1>2, <1>3 DEF ProcStep, PrintOut, Expect, Signalled, KilledBySignal,
    Success, SuccessUnwarn, SuccessWithWarn, WarnFlag, WarnResult, Failure,
    FailureResult, FailureStr, Leave, QuickExit, Flush, Exit, ForkOwn, Send, Reap,
    QuietOps
<1>5. ASSUME NEW r \in Run
      PROVE  /\ ppc'[Child(r)] = ppc[Child(r)]
             /\ pstatus'[Child(r)] = pstatus[Child(r)]
  <2>1. Child(r) \in Proc
    BY RunProcs
  <2>2. Child(r)[2] = "c"
    BY DEF Child
  <2>3. Child(r) # p /\ Child(r) # Forked(p[1])
    BY <1>1, <2>2
  <2>4. \A q \in Proc : q # p => /\ pstatus'[q] = pstatus[q]
                                 /\ q # Forked(p[1]) => ppc'[q] = ppc[q]
    BY StepFrame
  <2> QED BY <2>1, <2>3, <2>4
<1> QED BY <1>4, <1>5

(* A step of a process leaves the page a faithful account of its child. *)
LEMMA ProcStepEarned ==
  ASSUME QuietForks, RealSignals, TypeInv, EvidenceInv, EarnedInv,
         NEW p \in Proc, ProcStep(p), UNCHANGED ctlVars
  PROVE  EarnedInv'
<1>u. UNCHANGED <<plan, pc, cur, status>>
  BY AliveSteps DEF ctlVars
<1>c. pc \notin {"main", "done"} => cur \in Run
  BY CurFacts
<1>1. CASE p[2] # "c"
  <2>1. /\ ccs' = ccs
        /\ \A r \in Run : /\ ppc'[Child(r)] = ppc[Child(r)]
                          /\ pstatus'[Child(r)] = pstatus[Child(r)]
    BY <1>1, QuietStep
  <2>2. PageMarked' /\ PageFresh'
    BY <1>u, <2>1 DEF EarnedInv, PageMarked, PageFresh, Unforked, Succeeds
  <2>3. PageTells' /\ Waited'
    BY <1>u, <1>c, <2>1 DEF EarnedInv, PageTells, Waited, Succeeds, Judging, Child
  <2>4. Stages'
    BY <1>u, <2>1 DEF EarnedInv, Stages, AllChecked, CurTest
  <2> QED BY <2>2, <2>3, <2>4 DEF EarnedInv
<1>2. CASE p[2] = "c"
  <2>1. /\ pc = "wait" /\ p[1] = cur /\ cur \in Run /\ p = Child(cur)
    BY <1>2, AliveSteps, WhoIsAlive DEF Child, Proc
  <2>2. cur # 0
    BY <2>1 DEF Run
  <2>3. PageFresh' /\ Waited' /\ Stages'
    BY <1>u, <2>1 DEF PageFresh, Unforked, Waited, Stages
  <2>k. \/ Reports(p) /\ SameSignal
        \/ Quietly(p) /\ SameSignal /\ SameResult
        \/ /\ Move(p, "zombie", Exited(EX_SOFTWARE)) /\ SameResult
           /\ \E i \in SigInfo : ccs'.signum = i.signum
           /\ ccs'.sig_by = p[1]
    BY StepKinds
  <2>4. PageMarked'
    BY <2>k, <2>1, <2>2 DEF EarnedInv, PageMarked, Succeeds, Reports, SameSignal,
      SameResult, NewResult, RealSignals, TESTRESULT_SUCCESS, TESTRESULT_FAILURE
  <2>5. PageTells'
    <3>a. ppc[p] \notin {"none", "zombie", "reaped"}
      BY AliveSteps DEF Alive, NotAlive
    <3>b. /\ ccs.sig_by = 0
          /\ ppc[p] \in {"unwarn", "setwarn", "warned"} => pstatus[p] = Exited(EX_OK)
          /\ Succeeds => /\ ppc[p] \in {"unwarn", "flush", "zombie", "reaped"}
                         /\ pstatus[p] \in {Exited(EX_OK), Killed(SIGPIPE)}
      BY <2>1, <3>a DEF EarnedInv, PageTells, Judging
    <3>c. Child(cur)' = p
      BY <1>u, <2>1 DEF Child
    <3>1. CASE Reports(p) /\ SameSignal
      BY <3>a, <3>b, <3>c, <3>1 DEF PageTells, Reports, SameSignal, NewResult, Move,
        Succeeds, TESTRESULT_SUCCESS, TESTRESULT_FAILURE
    <3>2. CASE Quietly(p) /\ SameSignal /\ SameResult
      BY <3>a, <3>b, <3>c, <3>2 DEF PageTells, Quietly, SameSignal, SameResult, Move,
        Succeeds
    <3>3. CASE /\ Move(p, "zombie", Exited(EX_SOFTWARE)) /\ SameResult
               /\ ccs'.sig_by = p[1]
      BY <2>1, <2>2, <3>c, <3>3 DEF PageTells, Move
    <3> QED BY <2>k, <3>1, <3>2, <3>3
  <2> QED BY <2>3, <2>4, <2>5 DEF EarnedInv
<1> QED BY <1>1, <1>2

(* The controller's own steps: the page is cleared before the child is     *)
(* forked, its status read when it has ended, and nothing is written while *)
(* the checks are made one after the other.                                *)
LEMMA ControllerEarned ==
  ASSUME TypeInv, EarnedInv, Controller
  PROVE  EarnedInv'
<1>t. /\ ppc \in [Proc -> ProcPc]
      /\ pc \notin {"main", "done"} => cur \in Run
  BY CurFacts DEF TypeInv, TypeOK, ProcTypeOK
<1>c. pc \notin {"main", "done"} => Child(cur) \in Proc
  BY <1>t, RunProcs
<1> USE DEF EarnedInv, PageMarked, PageFresh, PageTells, Waited, Stages, Judging,
            Unforked, Succeeds, AllChecked, CurTest
<1>1. CASE BeginTest
  <2>1. ccs' = ZeroState /\ pc' = "select"
    BY <1>1 DEF BeginTest
  <2>2. ccs'.signum = 0 /\ ccs'.sig_by = 0 /\ ccs'.testresult # TESTRESULT_SUCCESS
    BY <2>1 DEF ZeroState, TESTRESULT_UNKNOWN, TESTRESULT_SUCCESS
  <2> QED BY <2>1, <2>2
<1>r. ASSUME ccs' = ccs, pc' \in {"main", "fail", "return", "done"}
      PROVE  EarnedInv'
  <2>1. PageMarked'
    BY <1>r
  <2>2. PageFresh' /\ PageTells' /\ Waited' /\ Stages'
    BY <1>r
  <2> HIDE DEF PageMarked, PageFresh, PageTells, Waited, Stages
  <2> QED BY <2>1, <2>2
<1>2. CASE UnknownTest \/ PipeFails \/ ForkFails \/ Finish
  <2> HIDE DEF EarnedInv
  <2> QED BY <1>2, <1>r DEF UnknownTest, PipeFails, ForkFails, Finish, ExitWith, procVars
<1>3. CASE RejectName \/ PassOver \/ SkipTest \/ StdinFails \/ Return \/ Fail \/ Pass
  <2> HIDE DEF EarnedInv
  <2> QED BY <1>3, <1>r DEF RejectName, PassOver, SkipTest, StdinFails, Return, Fail,
    Pass, procVars, shared
<1>4. CASE Prepare
  BY <1>4 DEF Prepare, Selected, shared
<1>5. CASE FillStdin
  BY <1>5 DEF FillStdin, procVars
<1>6. CASE Fork
  <2>1. /\ pc = "fork" /\ ccs' = ccs /\ pc' = "wait" /\ cur' = cur
        /\ ppc' = [ppc EXCEPT ![Child(cur)] = "body"]
    BY <1>6 DEF Fork
  <2>2. ccs.sig_by = 0 /\ ~Succeeds
    BY <2>1
  <2>3. ppc'[Child(cur)'] = "body"
    <3> HIDE DEF EarnedInv
    <3>1. cur \in Run /\ Child(cur) \in Proc /\ Child(cur)' = Child(cur)
      BY <2>1, <1>t, <1>c DEF Child
    <3> QED BY <2>1, <1>t, <3>1
  <2> QED BY <2>1, <2>2, <2>3
<1>7. CASE Wait
  <2>1. /\ pc = "wait" /\ pc' = "result" /\ ppc[Child(cur)] = "zombie"
        /\ ppc' = [ppc EXCEPT ![Child(cur)] = "reaped"]
        /\ status' = pstatus[Child(cur)] /\ UNCHANGED <<ccs, pstatus, cur>>
    BY <1>7 DEF Wait
  <2>2. Child(cur)' = Child(cur) /\ ppc'[Child(cur)] = "reaped"
    <3> HIDE DEF EarnedInv
    <3>1. cur \in Run /\ Child(cur) \in Proc /\ Child(cur)' = Child(cur)
      BY <2>1, <1>t, <1>c DEF Child
    <3> QED BY <2>1, <1>t, <3>1
  <2> QED BY <2>1, <2>2
<1>8. ASSUME pc \in {"result", "status", "signal", "report", "output"},
             pc' \in {"status", "signal", "report", "output", "pass", "fail"},
             UNCHANGED <<ccs, ppc, pstatus, cur, status>>
      PROVE  PageMarked' /\ PageFresh' /\ PageTells' /\ Waited'
  BY <1>8 DEF Child
<1>9. CASE CheckResult
  <2>1. PageMarked' /\ PageFresh' /\ PageTells' /\ Waited'
    BY <1>9, <1>8 DEF CheckResult, FailOr, procVars, judged
  <2>2. Stages'
    BY <1>9 DEF CheckResult, FailOr
  <2> QED BY <2>1, <2>2
<1>10. CASE CheckStatus
  <2>1. PageMarked' /\ PageFresh' /\ PageTells' /\ Waited'
    BY <1>10, <1>8 DEF CheckStatus, FailOr, procVars, judged
  <2>2. Stages'
    BY <1>10 DEF CheckStatus, FailOr, procVars, judged
  <2> QED BY <2>1, <2>2
<1>11. CASE CheckSignal
  <2>1. PageMarked' /\ PageFresh' /\ PageTells' /\ Waited'
    BY <1>11, <1>8 DEF CheckSignal, FailOr, procVars, judged
  <2>2. Stages'
    BY <1>11 DEF CheckSignal, FailOr, procVars, judged
  <2> QED BY <2>1, <2>2
<1>12. CASE CheckReport
  <2>1. PageMarked' /\ PageFresh' /\ PageTells' /\ Waited'
    BY <1>12, <1>8 DEF CheckReport, FailOr, procVars, judged
  <2>2. Stages'
    BY <1>12 DEF CheckReport, FailOr, procVars, judged
  <2> QED BY <2>1, <2>2
<1>13. CASE CheckOutput
  <2>1. PageMarked' /\ PageFresh' /\ PageTells' /\ Waited'
    BY <1>13, <1>8 DEF CheckOutput, FailOr, shared, judged
  <2>2. Stages'
    BY <1>13 DEF CheckOutput, FailOr, shared, judged
  <2> QED BY <2>1, <2>2
<1> QED BY <1>1, <1>2, <1>3, <1>4, <1>5, <1>6, <1>7, <1>9, <1>10, <1>11, <1>12,
           <1>13 DEF Controller

(***************************************************************************)
(* A test is only passed on evidence of its own process, in every suite    *)
(* that forks only quiet processes: it was killed by the signal asked for; *)
(* or its handler stored that signal and ended it; or it reported success  *)
(* and exited, and no signal came in between.  A signal that arrives after *)
(* cheriostest_success() has stored its result cannot leave a pass behind. *)
(* Code: the chain of checks, cheriostest.c 453-619.                       *)
(***************************************************************************)
THEOREM PassesAreEarned ==
  ASSUME QuietForks, RealSignals
  PROVE  Spec => []PassIsEarned
<1>1. Init => EarnedInv
  <2> SUFFICES ASSUME Init PROVE EarnedInv
    OBVIOUS
  <2>1. pc = "main" /\ ccs = ZeroState
    BY DEF Init, ProcInit
  <2>2. PageMarked
    BY <2>1 DEF PageMarked, ZeroState, Succeeds, TESTRESULT_UNKNOWN, TESTRESULT_SUCCESS
  <2> QED BY <2>1, <2>2 DEF EarnedInv, PageFresh, PageTells, Waited, Stages, Judging, Unforked
<1>2. TypeInv /\ EvidenceInv /\ EarnedInv /\ [Next]_vars => EarnedInv'
  <2> SUFFICES ASSUME TypeInv, EvidenceInv, EarnedInv, [Next]_vars PROVE EarnedInv'
    OBVIOUS
  <2>1. CASE Controller
    BY <2>1, ControllerEarned
  <2>2. CASE Processes
    BY <2>2, ProcStepEarned DEF Processes
  <2>3. CASE UNCHANGED vars
    BY <2>3 DEF vars, procVars, ctlVars, EarnedInv, PageMarked, PageFresh, PageTells,
      Waited, Stages, AllChecked, Judging, Unforked, Succeeds, CurTest
  <2> QED BY <2>1, <2>2, <2>3 DEF Next, Done
<1>3. TypeInv /\ EvidenceInv /\ EarnedInv => PassIsEarned
  <2> SUFFICES ASSUME TypeInv, EvidenceInv, EarnedInv, pc = "pass" PROVE PassIsEarned
    BY DEF PassIsEarned
  <2>1. /\ plan[cur] \in Test /\ CurTest.signum \in Nat
        /\ "SIGNAL" \in CurTest.flags => CurTest.signum # 0
    BY CurTestType DEF TypeInv, CurTest, Descriptor, RealSignals
  <2>2. /\ status = pstatus[Child(cur)] /\ ppc[Child(cur)] = "reaped"
        /\ status \in Status
    BY DEF EarnedInv, Waited, Judging, TypeInv, TypeOK, CtlTypeOK
  <2>3. ccs.sig_by \in {0, cur} /\ ccs.res_by \in {0, cur}
    BY DEF EvidenceInv, PageOwn
  <2>4. /\ ccs.sig_by # 0 => status = Exited(EX_SOFTWARE)
        /\ (Succeeds /\ ccs.sig_by = 0) => status \in {Exited(EX_OK), Killed(SIGPIPE)}
    BY <2>2 DEF EarnedInv, PageTells, Judging
  <2>5. CASE "SIGEXIT" \in CurTest.flags
    <3>1. status = Killed(CurTest.signum)
      BY <2>2, <2>5 DEF EarnedInv, Stages, SigexitOK, Killed, Status
    <3> QED BY <2>5, <3>1 DEF PassIsEarned
  <2>6. CASE "SIGEXIT" \notin CurTest.flags
    <3>1. AllChecked
      BY <2>6 DEF EarnedInv, Stages
    <3>2. CASE "SIGNAL" \in CurTest.flags
      <4>1. ccs.sig_by = cur /\ status = Exited(EX_SOFTWARE)
        BY <2>1, <2>3, <2>4, <3>1, <3>2 DEF AllChecked, SignalOK, EarnedInv, PageMarked
      <4> QED BY <2>6, <3>2, <4>1 DEF PassIsEarned
    <3>3. CASE "SIGNAL" \notin CurTest.flags
      <4>1. ccs.sig_by = 0 /\ Succeeds
        BY <3>1, <3>3 DEF AllChecked, UnexpectedSignal, HarnessError, EarnedInv,
          PageMarked, Succeeds
      <4>2. ccs.res_by = cur
        BY <2>3, <4>1 DEF EarnedInv, PageMarked
      <4>3. status = Exited(EX_OK)
        BY <2>4, <3>1, <4>1 DEF AllChecked, StatusOK, Killed
      <4> QED BY <2>6, <3>3, <4>1, <4>2, <4>3 DEF PassIsEarned
    <3> QED BY <3>2, <3>3
  <2> QED BY <2>5, <2>6
<1> QED BY <1>1, <1>2, <1>3, TypeInvariant, EvidenceInvariant, PTL DEF Spec

----------------------------------------------------------------------------
(* Every process is the child of its run or what that child forked. *)
LEMMA TwoProcs ==
  /\ \A q \in Proc : q = Child(q[1]) \/ q = Forked(q[1])
  /\ \A k, r \in Run : /\ Child(k) # Forked(r)
                       /\ k # r => Child(k) # Child(r) /\ Forked(k) # Forked(r)
  /\ \A r \in Run : Child(r)[1] = r /\ Forked(r)[1] = r
BY DEF Proc, Child, Forked

(* Who may move: the child the controller waits for, or what a test forked. *)
LEMMA WhoMoves ==
  ASSUME TypeInv, StartedKnown, OneChild, NEW p \in Proc, ProcStep(p)
  PROVE  /\ p[1] \in Run /\ p[1] \in 1..cur /\ plan[p[1]] \in Test
         /\ ppc[p] \notin {"none", "zombie", "reaped"}
         /\ \/ p = Child(p[1]) /\ p[2] = "c" /\ pc = "wait" /\ p[1] = cur
            \/ p = Forked(p[1]) /\ p[2] = "g"
<1>1. Alive(p) /\ ppc[p] \notin {"none", "zombie", "reaped"}
  BY AliveSteps DEF Alive, NotAlive
<1>2. p[1] \in Run /\ p[2] \in {"c", "g"} /\ p = <<p[1], p[2]>>
  BY DEF Proc
<1>3. p[1] \in 1..cur /\ plan[p[1]] # Unknown
  BY <1>1 DEF StartedKnown
<1>4. plan \in Seq(Test \cup {Unknown}) /\ cur \in 0..Len(plan) /\ Len(plan) \in Nat
  BY CurTestType DEF TypeInv, TypeOK, CtlTypeOK
<1>5. plan[p[1]] \in Test \cup {Unknown}
  <2>1. p[1] \in 1..Len(plan)
    BY <1>3, <1>4
  <2> QED BY <2>1, <1>4, ElementOfSeq
<1>6. p[2] = "c" => p = Child(p[1]) /\ pc = "wait" /\ p[1] = cur
  BY <1>1, <1>2 DEF OneChild, Child
<1>7. p[2] = "g" => p = Forked(p[1])
  BY <1>2 DEF Forked
<1> QED BY <1>1, <1>2, <1>3, <1>5, <1>6, <1>7

(* A step of p concerns the processes of its own run only. *)
LEMMA OthersAlone ==
  ASSUME TypeInv, NEW p \in Proc, ProcStep(p), NEW k \in Run, k # p[1]
  PROVE  /\ ppc'[Child(k)] = ppc[Child(k)] /\ ppc'[Forked(k)] = ppc[Forked(k)]
         /\ pstatus'[Child(k)] = pstatus[Child(k)]
         /\ pstatus'[Forked(k)] = pstatus[Forked(k)]
         /\ Child(k) \in failers' <=> Child(k) \in failers
         /\ Forked(k) \in failers' <=> Forked(k) \in failers
<1>1. /\ Child(k) \in Proc /\ Forked(k) \in Proc
      /\ Child(k) # p /\ Child(k) # Forked(p[1])
      /\ Forked(k) # p /\ Forked(k) # Forked(p[1])
  BY RunProcs, TwoProcs, ProcParts
<1>2. /\ \A q \in Proc : q # p => /\ pstatus'[q] = pstatus[q]
                                  /\ q # Forked(p[1]) => ppc'[q] = ppc[q]
      /\ failers' = failers \/ failers' = failers \cup {p}
  BY StepFrame
<1> QED BY <1>1, <1>2

(* A step of the child of run r, for r and what it forked. *)
LEMMA ChildSteps ==
  ASSUME TypeInv, NEW r \in Run, ProcStep(Child(r))
  PROVE  /\ pstatus'[Forked(r)] = pstatus[Forked(r)]
         /\ Forked(r) \in failers' <=> Forked(r) \in failers
         /\ \/ ppc'[Forked(r)] = ppc[Forked(r)]
            \/ /\ ppc[Child(r)] = "body" /\ ppc'[Child(r)] = "body"
               /\ ppc[Forked(r)] = "none" /\ ppc'[Forked(r)] = "body"
            \/ /\ ppc[Child(r)] = "body" /\ ppc'[Child(r)] \in {"body", "failing"}
               /\ ppc[Forked(r)] = "zombie" /\ ppc'[Forked(r)] = "reaped"
               /\ (DescOf(r).join = "check" /\ ppc'[Child(r)] = "body") =>
                    pstatus[Forked(r)] = Exited(EX_OK)
         /\ \/ failers' = failers
            \/ /\ ppc[Child(r)] = "failing" /\ ppc'[Child(r)] = "failed"
               /\ failers' = failers \cup {Child(r)}
<1>1. /\ Child(r) \in Proc /\ Child(r)[1] = r /\ Forked(r) \in Proc
      /\ Child(r) # Forked(r)
  BY RunProcs, TwoProcs
<1> DEFINE c == Child(r)
<1>2. /\ \A q \in Proc : q # c => /\ pstatus'[q] = pstatus[q]
                                  /\ q # Forked(c[1]) => ppc'[q] = ppc[q]
      /\ c # Forked(c[1]) =>
           \/ ppc'[Forked(c[1])] = ppc[Forked(c[1])]
           \/ /\ c[2] = "c" /\ ppc[c] = "body" /\ ppc'[c] = "body"
              /\ ppc[Forked(c[1])] = "none" /\ ppc'[Forked(c[1])] = "body"
           \/ /\ c[2] = "c" /\ ppc[c] = "body" /\ ppc'[c] \in {"body", "failing"}
              /\ ppc[Forked(c[1])] = "zombie" /\ ppc'[Forked(c[1])] = "reaped"
              /\ (DescOf(c[1]).join = "check" /\ ppc'[c] = "body") =>
                   pstatus[Forked(c[1])] = Exited(EX_OK)
      /\ \/ failers' = failers
         \/ /\ ppc[c] = "failing" /\ ppc'[c] = "failed"
            /\ failers' = failers \cup {c}
  <2> HIDE DEF c
  <2>1. c \in Proc /\ ProcStep(c)
    BY <1>1 DEF c
  <2> QED BY <2>1, StepFrame
<1> QED BY <1>1, <1>2

(* A step of what run r forked: its child is not touched. *)
LEMMA ForkedSteps ==
  ASSUME TypeInv, NEW r \in Run, ProcStep(Forked(r))
  PROVE  /\ pstatus'[Child(r)] = pstatus[Child(r)]
         /\ ppc'[Child(r)] = ppc[Child(r)]
         /\ Child(r) \in failers' <=> Child(r) \in failers
         /\ \/ failers' = failers
            \/ /\ ppc[Forked(r)] = "failing" /\ ppc'[Forked(r)] = "failed"
               /\ failers' = failers \cup {Forked(r)}
<1>1. /\ Child(r) \in Proc /\ Forked(r)[1] = r /\ Forked(r) \in Proc
      /\ Child(r) # Forked(r)
  BY RunProcs, TwoProcs
<1> DEFINE g == Forked(r)
<1>2. /\ \A q \in Proc : q # g => /\ pstatus'[q] = pstatus[q]
                                  /\ q # Forked(g[1]) => ppc'[q] = ppc[q]
      /\ \/ failers' = failers
         \/ /\ ppc[g] = "failing" /\ ppc'[g] = "failed"
            /\ failers' = failers \cup {g}
  <2> HIDE DEF g
  <2>1. g \in Proc /\ ProcStep(g)
    BY <1>1 DEF g
  <2> QED BY <2>1, StepFrame
<1> QED BY <1>1, <1>2

(* Once the forked process can do no harm it stays so, as nobody forks or  *)
(* reaps but a child in the middle of its test.                            *)
LEMMA GDoneKept ==
  ASSUME TypeInv, StartedKnown, OneChild, NEW p \in Proc, ProcStep(p),
         NEW r \in Run, GDone(r), p = Child(r) => ppc[p] # "body"
  PROVE  GDone(r)'
<1>1. /\ ppc[p] \notin {"none", "zombie", "reaped"}
      /\ p = Child(p[1]) \/ p = Forked(p[1])
  BY WhoMoves
<1>2. DescOf(r)' = DescOf(r) /\ Forked(r)' = Forked(r)
  BY AliveSteps DEF DescOf, Forked
<1>3. CASE p[1] # r
  BY <1>2, <1>3, OthersAlone DEF GDone
<1>4. CASE p = Child(r)
  BY <1>2, <1>4, ChildSteps DEF GDone
<1>5. CASE p = Forked(r)
  BY <1>1, <1>2, <1>5 DEF GDone
<1> QED BY <1>1, <1>3, <1>4, <1>5

(* A run that has ended without a failure stays without one. *)
LEMMA CleanKept ==
  ASSUME TypeInv, StartedKnown, OneChild, ForkedLimits, NEW p \in Proc, ProcStep(p),
         NEW r \in Run, Clean(r)
  PROVE  Clean(r)'
<1>1. /\ ppc[p] \notin {"none", "zombie", "reaped"}
      /\ p = Child(p[1]) \/ p = Forked(p[1])
  BY WhoMoves
<1>2. Child(r)' = Child(r) /\ Forked(r)' = Forked(r)
  BY DEF Child, Forked
<1>3. GDone(r)' /\ p # Child(r)
  BY <1>1, GDoneKept DEF Clean
<1>4. CASE p[1] # r
  BY <1>2, <1>3, <1>4, OthersAlone DEF Clean
<1>5. CASE p = Forked(r)
  <2>1. ppc[Forked(r)] # "failing"
    BY <1>1, <1>5 DEF Clean, GDone, ForkedLimits
  <2>2. /\ ppc'[Child(r)] = ppc[Child(r)] /\ failers' = failers
    BY <1>5, <2>1, ForkedSteps
  <2> QED BY <1>2, <1>3, <2>2 DEF Clean
<1> QED BY <1>1, <1>3, <1>4, <1>5

(* What the kinds of steps say about a run of a suite with FailuresJoined: *)
(* only the child reports success, and only when what it forked is done.   *)
LEMMA ReportKinds ==
  ASSUME FailuresJoined, TypeInv, ReportInv, NEW p \in Proc, ProcStep(p)
  PROVE  /\ ccs'.testresult \in {ccs.testresult, TESTRESULT_SUCCESS, TESTRESULT_FAILURE}
         /\ (ccs'.testresult # ccs.testresult /\ ccs'.testresult # TESTRESULT_FAILURE) =>
              /\ p = Child(cur) /\ pc = "wait"
              /\ \/ ppc[p] = "body" /\ Joined(p) /\ ppc'[p] = "unwarn"
                 \/ ppc[p] = "warned" /\ ppc'[p] = "flush"
         /\ ppc'[p] \notin {"none", "reaped"}
         /\ p[2] = "g" => ppc'[p] \notin {"unwarn", "setwarn", "warned"}
         /\ ppc'[p] = "body" => ppc[p] = "body"
         /\ (ppc'[p] = "setwarn" /\ ppc[p] # "setwarn") => ppc[p] = "body" /\ Joined(p)
         /\ ppc'[p] = "warned" => ppc[p] \in {"setwarn", "warned"}
         /\ ppc'[p] = "failing" => /\ pstatus'[p] = Exited(EX_SOFTWARE)
                                   /\ p[2] = "c" \/ "fail" \in Ops(p)
         /\ ppc[p] = "failing" =>
              \/ ccs'.testresult = TESTRESULT_FAILURE /\ pstatus'[p] = pstatus[p] /\ ppc'[p] = "failed"
              \/ ppc'[p] = "zombie" /\ pstatus'[p] = Exited(EX_SOFTWARE)
         /\ ppc[p] \in {"unwarn", "failed", "flush"} =>
              /\ ccs'.testresult = ccs.testresult
              /\ ppc'[p] \in {ppc[p], "flush", "zombie"}
              /\ pstatus'[p] \in {pstatus[p], Exited(EX_SOFTWARE), Killed(SIGPIPE)}
<1>1. /\ ppc[p] \notin {"none", "zombie", "reaped"} /\ plan[p[1]] \in Test
      /\ \/ p = Child(p[1]) /\ p[2] = "c" /\ pc = "wait" /\ p[1] = cur
         \/ p = Forked(p[1]) /\ p[2] = "g"
  BY WhoMoves DEF ReportInv
<1>2. p[2] = "g" => /\ "success" \notin Ops(p) /\ "warn" \notin Ops(p)
                    /\ ppc[p] \notin {"unwarn", "setwarn", "warned"}
  <2>1. p[2] = "g" => Ops(p) = Desc[plan[p[1]]].gbody
    BY DEF Ops, DescOf
  <2>2. p[2] = "g" => ppc[p] \notin {"unwarn", "setwarn", "warned"}
    BY <1>1, ProcParts DEF ReportInv, ForkedLimits
  <2> QED BY <1>1, <2>1, <2>2 DEF FailuresJoined
<1>3. CASE Reports(p)
  BY <1>1, <1>2, <1>3 DEF Reports, Move, NewResult, TESTRESULT_SUCCESS, TESTRESULT_FAILURE
<1>4. CASE Quietly(p) /\ SameResult
  BY <1>1, <1>2, <1>4 DEF Quietly, Move, SameResult
<1>5. CASE Move(p, "zombie", Exited(EX_SOFTWARE)) /\ SameResult
  BY <1>5 DEF Move, SameResult
<1> QED BY <1>3, <1>4, <1>5, StepKinds

(* A step of a process keeps the account of who failed. *)
LEMMA ProcStepReport ==
  ASSUME FailuresJoined, TypeInv, ReportInv, NEW p \in Proc, ProcStep(p),
         UNCHANGED ctlVars
  PROVE  ReportInv'
<1> DEFINE c == Child(p[1])
           g == Forked(p[1])
<1>u. UNCHANGED <<plan, pc, cur, verdict>>
  BY AliveSteps DEF ctlVars
<1>d. /\ \A r : DescOf(r)' = DescOf(r) /\ Child(r)' = Child(r) /\ Forked(r)' = Forked(r)
      /\ Child(cur)' = Child(cur) /\ Forked(cur)' = Forked(cur)
      /\ pc \notin {"main", "done"} => cur \in Run
  BY <1>u, CurFacts DEF DescOf, Child, Forked
<1>i. /\ StartedKnown /\ OneChild /\ FailersFailed /\ ForkedLimits
      /\ JoinedWell /\ Declared /\ PassedClean
  BY DEF ReportInv
<1>w. /\ p[1] \in Run /\ p[1] \in 1..cur /\ plan[p[1]] \in Test
      /\ ppc[p] \notin {"none", "zombie", "reaped"}
      /\ \/ p = c /\ p[2] = "c" /\ pc = "wait" /\ p[1] = cur
         \/ p = g /\ p[2] = "g"
  BY <1>i, WhoMoves
<1>p. c \in Proc /\ g \in Proc /\ c # g
  BY <1>w, RunProcs
<1>o. \A k \in Run : k # p[1] =>
         /\ ppc'[Child(k)] = ppc[Child(k)] /\ ppc'[Forked(k)] = ppc[Forked(k)]
         /\ pstatus'[Child(k)] = pstatus[Child(k)]
         /\ pstatus'[Forked(k)] = pstatus[Forked(k)]
         /\ Child(k) \in failers' <=> Child(k) \in failers
         /\ Forked(k) \in failers' <=> Forked(k) \in failers
  BY OthersAlone
<1>c. p = c =>
         /\ pstatus'[g] = pstatus[g]
         /\ g \in failers' <=> g \in failers
         /\ \/ ppc'[g] = ppc[g]
            \/ /\ ppc[c] = "body" /\ ppc'[c] = "body"
               /\ ppc[g] = "none" /\ ppc'[g] = "body"
            \/ /\ ppc[c] = "body" /\ ppc'[c] \in {"body", "failing"}
               /\ ppc[g] = "zombie" /\ ppc'[g] = "reaped"
               /\ (DescOf(p[1]).join = "check" /\ ppc'[c] = "body") =>
                    pstatus[g] = Exited(EX_OK)
         /\ \/ failers' = failers
            \/ /\ ppc[c] = "failing" /\ ppc'[c] = "failed"
               /\ failers' = failers \cup {c}
  BY <1>w, ChildSteps
<1>g. p = g =>
         /\ pstatus'[c] = pstatus[c] /\ ppc'[c] = ppc[c]
         /\ c \in failers' <=> c \in failers
         /\ \/ failers' = failers
            \/ /\ ppc[g] = "failing" /\ ppc'[g] = "failed"
               /\ failers' = failers \cup {g}
  BY <1>w, ForkedSteps
<1>k. /\ ccs'.testresult \in {ccs.testresult, TESTRESULT_SUCCESS, TESTRESULT_FAILURE}
      /\ (ccs'.testresult # ccs.testresult /\ ccs'.testresult # TESTRESULT_FAILURE) =>
           /\ p = Child(cur) /\ pc = "wait"
           /\ \/ ppc[p] = "body" /\ Joined(p) /\ ppc'[p] = "unwarn"
              \/ ppc[p] = "warned" /\ ppc'[p] = "flush"
      /\ ppc'[p] \notin {"none", "reaped"}
      /\ p[2] = "g" => ppc'[p] \notin {"unwarn", "setwarn", "warned"}
      /\ ppc'[p] = "body" => ppc[p] = "body"
      /\ (ppc'[p] = "setwarn" /\ ppc[p] # "setwarn") => ppc[p] = "body" /\ Joined(p)
      /\ ppc'[p] = "warned" => ppc[p] \in {"setwarn", "warned"}
      /\ ppc'[p] = "failing" => /\ pstatus'[p] = Exited(EX_SOFTWARE)
                                /\ p[2] = "c" \/ "fail" \in Ops(p)
      /\ ppc[p] = "failing" =>
           \/ /\ ccs'.testresult = TESTRESULT_FAILURE
              /\ pstatus'[p] = pstatus[p] /\ ppc'[p] = "failed"
           \/ ppc'[p] = "zombie" /\ pstatus'[p] = Exited(EX_SOFTWARE)
      /\ ppc[p] \in {"unwarn", "failed", "flush"} =>
           /\ ccs'.testresult = ccs.testresult
           /\ ppc'[p] \in {ppc[p], "flush", "zombie"}
           /\ pstatus'[p] \in {pstatus[p], Exited(EX_SOFTWARE), Killed(SIGPIPE)}
  BY ReportKinds
<1>q. \A q \in Proc : /\ q = Child(q[1]) \/ q = Forked(q[1])
                      /\ q[1] \in Run
  BY TwoProcs, ProcParts
<1>j. (p = c /\ ppc[p] = "body" /\ Joined(p)) => GDone(p[1])
  <2>1. p = c => p[2] = "c"
    BY <1>w, <1>p
  <2> SUFFICES ASSUME p = c, ppc[p] = "body", Joined(p), "fail" \in DescOf(p[1]).gbody
               PROVE  ppc[g] = "none" \/ (ppc[g] = "reaped" /\ pstatus[g] = Exited(EX_OK))
    BY DEF GDone
  <2>2. DescOf(p[1]).join = "check"
    BY <1>w DEF FailuresJoined, DescOf
  <2>3. ppc[g] \in {"none", "reaped"}
    BY <2>1, <2>2 DEF Joined
  <2> QED BY <1>w, <1>i, <2>2, <2>3 DEF JoinedWell
<1>n. \A r \in Run : (GDone(r) /\ (p = Child(r) => ppc[p] # "body")) => GDone(r)'
  BY <1>i, GDoneKept
<1>x. \A r : r = cur => (GDone(r)' <=> GDone(cur)')
  BY <1>u DEF GDone, Forked, DescOf
<1> HIDE DEF c, g
<1>1. StartedKnown'
  <2> SUFFICES ASSUME NEW q \in Proc, ppc'[q] # "none" PROVE q[1] \in 1..cur
    BY <1>i, <1>u DEF StartedKnown
  <2>1. CASE q[1] = p[1]
    BY <2>1, <1>w
  <2>2. CASE q[1] # p[1]
    <3>1. ppc[q] # "none"
      BY <2>2, <1>o, <1>q
    <3> QED BY <3>1, <1>i DEF StartedKnown
  <2> QED BY <2>1, <2>2
<1>2. OneChild'
  <2> SUFFICES ASSUME NEW r \in Run, ppc'[Child(r)] \notin NotAlive
               PROVE  pc = "wait" /\ r = cur
    BY <1>u, <1>d DEF OneChild, Alive
  <2>1. CASE p = Child(r)
    BY <2>1, <1>w, <1>p, <1>q, TwoProcs DEF c, g
  <2>2. CASE p # Child(r)
    <3>1. ppc'[Child(r)] = ppc[Child(r)]
      BY <2>2, <1>o, <1>w, <1>g DEF c
    <3> QED BY <3>1, <1>i DEF OneChild, Alive
  <2> QED BY <2>1, <2>2
<1>3. FailersFailed'
  <2>f. Exited(EX_SOFTWARE) # Exited(EX_OK) /\ Killed(SIGPIPE) # Exited(EX_OK)
    BY DEF Exited, Killed, EX_SOFTWARE, EX_OK
  <2> SUFFICES ASSUME NEW q \in Proc
               PROVE  /\ q \in failers' =>
                           /\ ppc'[q] \in {"failed", "flush", "zombie", "reaped"}
                           /\ pstatus'[q] # Exited(EX_OK)
                      /\ ppc'[q] = "failing" => pstatus'[q] = Exited(EX_SOFTWARE)
    BY DEF FailersFailed
  <2>0. /\ q \in failers => /\ ppc[q] \in {"failed", "flush", "zombie", "reaped"}
                            /\ pstatus[q] # Exited(EX_OK)
        /\ ppc[q] = "failing" => pstatus[q] = Exited(EX_SOFTWARE)
    BY <1>i DEF FailersFailed
  <2>1. CASE q[1] # p[1]
    <3>1. ppc'[q] = ppc[q] /\ pstatus'[q] = pstatus[q] /\ (q \in failers' <=> q \in failers)
      BY <2>1, <1>o, <1>q
    <3> QED BY <2>0, <3>1
  <2>2. CASE q = p
    <3>1. failers' = failers \/ (/\ ppc[p] = "failing" /\ ppc'[p] = "failed"
                                 /\ failers' = failers \cup {p})
      BY <1>w, <1>c, <1>g
    <3> QED BY <2>0, <2>2, <2>f, <3>1, <1>w, <1>k
  <2>3. CASE q # p /\ q = c
    BY <2>0, <2>3, <1>w, <1>g
  <2>4. CASE q # p /\ q = g
    BY <2>0, <2>4, <1>w, <1>c
  <2> QED BY <2>1, <2>2, <2>3, <2>4, <1>q DEF c, g
<1>4. ForkedLimits'
  <2> SUFFICES ASSUME NEW r \in Run
               PROVE  /\ ppc'[Forked(r)] \notin {"unwarn", "setwarn", "warned"}
                      /\ (ppc'[Forked(r)] = "failing" \/ Forked(r) \in failers') =>
                           "fail" \in DescOf(r).gbody
    BY <1>d DEF ForkedLimits
  <2>0. /\ ppc[Forked(r)] \notin {"unwarn", "setwarn", "warned"}
        /\ (ppc[Forked(r)] = "failing" \/ Forked(r) \in failers) =>
             "fail" \in DescOf(r).gbody
    BY <1>i DEF ForkedLimits
  <2>1. CASE r # p[1]
    BY <2>0, <2>1, <1>o
  <2>2. CASE r = p[1] /\ p = c
    BY <2>0, <2>2, <1>c DEF g
  <2>3. CASE r = p[1] /\ p = g
    <3>1. p[2] = "g" /\ Ops(p) = DescOf(r).gbody
      BY <2>3, <1>w, <1>p DEF Ops
    <3> QED BY <2>0, <2>3, <3>1, <1>g, <1>k DEF g
  <2> QED BY <2>1, <2>2, <2>3, <1>w
<1>5. JoinedWell'
  <2> SUFFICES ASSUME NEW r \in Run
               PROVE  /\ ppc'[Child(r)] \in {"setwarn", "warned"} => GDone(r)'
                      /\ (/\ ppc'[Child(r)] = "body" /\ ppc'[Forked(r)] = "reaped"
                          /\ DescOf(r).join = "check") => pstatus'[Forked(r)] = Exited(EX_OK)
    BY <1>d DEF JoinedWell
  <2>0. /\ ppc[Child(r)] \in {"setwarn", "warned"} => GDone(r)
        /\ (/\ ppc[Child(r)] = "body" /\ ppc[Forked(r)] = "reaped"
            /\ DescOf(r).join = "check") => pstatus[Forked(r)] = Exited(EX_OK)
    BY <1>i DEF JoinedWell
  <2>1. CASE r # p[1]
    <3>1. p # Child(r)
      BY <2>1, TwoProcs
    <3> QED BY <2>0, <2>1, <3>1, <1>o, <1>n
  <2>2. CASE r = p[1] /\ p = g
    <3>1. p # Child(r)
      BY <2>2, <1>p DEF c
    <3>2. ppc'[Child(r)] = ppc[Child(r)] /\ ppc'[Forked(r)] # "reaped"
      BY <2>2, <1>g, <1>k DEF c, g
    <3> QED BY <2>0, <3>1, <3>2, <1>n
  <2>3. CASE r = p[1] /\ p = c
    <3>1. ASSUME ppc'[Child(r)] \in {"setwarn", "warned"} PROVE GDone(r)'
      <4>1. ppc'[c] \in {"setwarn", "warned"}
        BY <2>3, <3>1 DEF c
      <4>2. CASE ppc[c] \in {"setwarn", "warned"}
        BY <2>0, <2>3, <4>2, <1>n DEF c
      <4>3. CASE ppc[c] = "body" /\ Joined(p) /\ ppc'[c] = "setwarn"
        <5>1. GDone(r)
          BY <2>3, <4>3, <1>j
        <5>2. ppc'[g] = ppc[g] /\ pstatus'[g] = pstatus[g]
          BY <2>3, <4>3, <1>c
        <5> QED BY <2>3, <5>1, <5>2, <1>d DEF GDone, g
      <4> QED BY <2>3, <4>1, <4>2, <4>3, <1>k
    <3>2. ASSUME ppc'[c] = "body", ppc'[g] = "reaped", DescOf(r).join = "check"
          PROVE  pstatus'[g] = Exited(EX_OK)
      <4>1. ppc[c] = "body"
        BY <2>3, <3>2, <1>k
      <4> QED BY <2>0, <2>3, <3>2, <4>1, <1>c DEF c, g
    <3> QED BY <2>3, <3>1, <3>2 DEF c, g
  <2> QED BY <2>1, <2>2, <2>3, <1>w
<1>6. Declared'
  <2> SUFFICES ASSUME pc \notin {"main", "done"}
               PROVE  /\ Unforked => /\ ppc'[Child(cur)] = "none"
                                     /\ ppc'[Forked(cur)] = "none"
                      /\ Succeeds' =>
                           /\ ppc'[Child(cur)] \in {"unwarn", "flush", "zombie", "reaped"}
                           /\ Child(cur) \notin failers' /\ GDone(cur)'
                      /\ Child(cur) \in failers' => ccs'.testresult = TESTRESULT_FAILURE
    BY <1>u, <1>d DEF Declared, Unforked, GDone
  <2>0. /\ cur \in Run
        /\ Unforked => ppc[Child(cur)] = "none" /\ ppc[Forked(cur)] = "none"
        /\ Succeeds =>
             /\ ppc[Child(cur)] \in {"unwarn", "flush", "zombie", "reaped"}
             /\ Child(cur) \notin failers /\ GDone(cur)
        /\ Child(cur) \in failers => ccs.testresult = TESTRESULT_FAILURE
    BY <1>i, <1>d DEF Declared
  <2>r. ccs'.testresult = TESTRESULT_FAILURE => ~Succeeds'
    BY DEF Succeeds, TESTRESULT_SUCCESS, TESTRESULT_FAILURE
  <2>1. CASE p # Child(cur)
    <3>1. /\ ppc'[Child(cur)] = ppc[Child(cur)]
          /\ Child(cur) \in failers' <=> Child(cur) \in failers
          /\ ppc[Forked(cur)] = "none" => ppc'[Forked(cur)] = "none"
      <4>1. CASE p[1] # cur
        BY <2>0, <4>1, <1>o
      <4>2. CASE p[1] = cur
        <5>1. p = g /\ c = Child(cur) /\ g = Forked(cur)
          BY <2>1, <4>2, <1>w DEF c, g
        <5> QED BY <5>1, <1>g, <1>w
      <4> QED BY <4>1, <4>2
    <3>2. \/ ccs'.testresult = ccs.testresult
          \/ ccs'.testresult = TESTRESULT_FAILURE
      BY <2>1, <1>k
    <3>3. Succeeds' => Succeeds
      BY <3>2, <2>r DEF Succeeds
    <3>4. GDone(cur) => GDone(cur)'
      BY <2>0, <2>1, <1>n, <1>x
    <3> QED BY <2>0, <3>1, <3>2, <3>3, <3>4
  <2>2. CASE p = Child(cur)
    <3>1. /\ p = c /\ pc = "wait" /\ p[1] = cur /\ ~Unforked
      <4>1. p[1] = cur
        BY <2>0, <2>2, TwoProcs
      <4>2. p = c
        BY <2>2, <4>1 DEF c
      <4> QED BY <4>1, <4>2, <1>w, <1>p DEF Unforked
    <3>2. p \in failers => ppc[p] \in {"failed", "flush"}
      BY <1>i, <1>w DEF FailersFailed
    <3>3. CASE ccs'.testresult # ccs.testresult /\ ccs'.testresult # TESTRESULT_FAILURE
      <4>1. \/ ppc[p] = "body" /\ Joined(p) /\ ppc'[p] = "unwarn"
            \/ ppc[p] = "warned" /\ ppc'[p] = "flush"
        BY <3>3, <1>k
      <4>2. p \notin failers' /\ ppc'[g] = ppc[g] /\ pstatus'[g] = pstatus[g]
        <5>1. /\ failers' = failers /\ ppc[p] \in {"body", "warned"}
              /\ ppc'[p] \in {"unwarn", "flush"}
          BY <3>1, <4>1, <1>c
        <5>2. p \notin failers
          BY <3>2, <5>1
        <5> QED BY <3>1, <5>1, <5>2, <1>c
      <4>3. GDone(cur)
        BY <3>1, <4>1, <2>2, <1>j, <1>i, <2>0 DEF JoinedWell
      <4>4. GDone(cur)'
        <5>1. \A r : r = cur => GDone(r)'
          BY <3>1, <4>2, <4>3, <1>d DEF GDone, g
        <5> QED BY <5>1, <1>x
      <4> QED BY <2>2, <3>1, <4>1, <4>2, <4>4
    <3>4. CASE ccs'.testresult = TESTRESULT_FAILURE
      BY <3>1, <3>4, <2>r
    <3>5. CASE ccs'.testresult = ccs.testresult
      <4>1. CASE Succeeds
        <5>1. /\ ppc[p] \in {"unwarn", "flush"} /\ p \notin failers /\ GDone(cur)
          BY <2>0, <2>2, <4>1, <1>w
        <5>2. failers' = failers /\ ppc'[p] \in {"unwarn", "flush", "zombie"}
          BY <3>1, <5>1, <1>c, <1>k
        <5>3. GDone(cur)'
          BY <2>0, <2>2, <5>1, <1>n, <1>x
        <5> QED BY <2>2, <3>1, <5>1, <5>2, <5>3
      <4>2. CASE ~Succeeds
        <5>1. ~Succeeds'
          BY <3>5, <4>2 DEF Succeeds
        <5>2. p \in failers' => ccs'.testresult = TESTRESULT_FAILURE
          <6>1. CASE failers' = failers
            BY <2>0, <2>2, <3>5, <6>1
          <6>2. CASE ppc[c] = "failing" /\ ppc'[c] = "failed"
            BY <3>1, <6>2, <1>k
          <6> QED BY <3>1, <6>1, <6>2, <1>c
        <5> QED BY <2>2, <3>1, <5>1, <5>2
      <4> QED BY <4>1, <4>2
    <3> QED BY <3>3, <3>4, <3>5
  <2> QED BY <2>1, <2>2
<1>7. PassedClean'
  <2>1. \A r \in Run : Clean(r) => Clean(r)'
    BY <1>i, CleanKept
  <2>2. ASSUME pc # "wait", cur \in Run
        PROVE  /\ ppc'[Child(cur)] = ppc[Child(cur)]
               /\ Child(cur) \in failers' <=> Child(cur) \in failers
    <3>1. p = g
      BY <2>2, <1>w
    <3> QED BY <2>2, <3>1, <1>o, <1>g DEF c
  <2>3. \A r \in Run : verdict'[r] \in {"PASS", "XPASS"} => Clean(r)'
    BY <2>1, <1>i, <1>u DEF PassedClean
  <2>4. (Judging /\ pc # "wait") => ppc'[Child(cur)] = "reaped"
    BY <2>2, <1>i, <1>d DEF PassedClean, Judging
  <2>5. pc \in {"status", "signal", "report", "output", "pass"} => Child(cur) \notin failers'
    BY <2>2, <1>i, <1>d DEF PassedClean
  <2>6. pc \in {"output", "pass"} => Clean(cur)'
    <3>1. pc \in {"output", "pass"} => cur \in Run /\ Clean(cur)
      BY <1>i, <1>d DEF PassedClean
    <3>2. cur' = cur
      BY <1>u
    <3> QED BY <2>1, <3>1, <3>2 DEF Clean, GDone, Child, Forked, DescOf
  <2> QED BY <2>3, <2>4, <2>5, <2>6, <1>u, <1>d DEF PassedClean, Judging
<1> QED BY <1>1, <1>2, <1>3, <1>4, <1>5, <1>6, <1>7 DEF ReportInv

(* A run that is not going to be failed by what it forked has ended clean. *)
LEMMA CleanAtLast ==
  ASSUME FailuresJoined, TypeInv, ReportInv, pc \in {"status", "report"},
         \/ "SIGEXIT" \in CurTest.flags
         \/ "SIGNAL" \in CurTest.flags
         \/ Succeeds
  PROVE  Clean(cur)
<1>1. /\ cur \in Run /\ plan[cur] \in Test /\ CurTest = DescOf(cur)
      /\ Forked(cur) \in Proc
  BY CurTestType, RunProcs DEF TypeInv, CurTest, DescOf
<1>2. /\ ppc[Child(cur)] = "reaped" /\ Child(cur) \notin failers
      /\ Succeeds => GDone(cur)
  BY DEF ReportInv, PassedClean, Declared, Judging
<1>3. CASE "fail" \notin DescOf(cur).gbody
  BY <1>1, <1>2, <1>3 DEF Clean, GDone, ReportInv, ForkedLimits
<1>4. CASE "fail" \in DescOf(cur).gbody
  <2>1. GDone(cur)
    BY <1>1, <1>2, <1>4 DEF FailuresJoined, CurTest
  <2>2. Forked(cur) \notin failers
    BY <1>1, <1>4, <2>1 DEF GDone, ReportInv, FailersFailed
  <2> QED BY <1>2, <2>1, <2>2 DEF Clean
<1> QED BY <1>3, <1>4

(* The controller's own steps: it forks one child at a time, and passes a  *)
(* run only after it has seen that nobody declared a failure in it.        *)
LEMMA ControllerReport ==
  ASSUME FailuresJoined, TypeInv, ReportInv, Controller
  PROVE  ReportInv'
<1>t. /\ ppc \in [Proc -> ProcPc] /\ cur \in Nat
      /\ pc \notin {"main", "done"} => cur \in Run
      /\ cur < Len(plan) => cur + 1 \in Run
      /\ verdict \in [Run -> Verdicts]
  BY CurFacts DEF TypeInv, TypeOK, ProcTypeOK
<1>i. /\ StartedKnown /\ OneChild /\ FailersFailed /\ ForkedLimits
      /\ JoinedWell /\ Declared /\ PassedClean
  BY DEF ReportInv
<1>p. \A r \in Run : /\ Child(r) \in Proc /\ Forked(r) \in Proc
                     /\ Child(r)[1] = r
  BY RunProcs, TwoProcs
(* A step that moves no process keeps what is said about processes only. *)
<1>a. ASSUME UNCHANGED <<plan, ppc, pstatus, failers>>
      PROVE  /\ FailersFailed' /\ ForkedLimits' /\ JoinedWell'
             /\ \A r : (Clean(r)' <=> Clean(r)) /\ (GDone(r)' <=> GDone(r))
             /\ \A r : Child(r)' = Child(r)
  <2>1. \A r : /\ Child(r)' = Child(r) /\ Forked(r)' = Forked(r)
               /\ DescOf(r)' = DescOf(r)
    BY <1>a DEF Child, Forked, DescOf
  <2>2. \A r : (Clean(r)' <=> Clean(r)) /\ (GDone(r)' <=> GDone(r))
    BY <1>a, <2>1 DEF Clean, GDone
  <2>3. FailersFailed'
    BY <1>a, <1>i DEF FailersFailed
  <2>4. ForkedLimits'
    BY <1>a, <1>i, <2>1 DEF ForkedLimits
  <2>5. JoinedWell'
    BY <1>a, <1>i, <2>1, <2>2 DEF JoinedWell
  <2> QED BY <2>1, <2>2, <2>3, <2>4, <2>5
(* Nor does it start a run, if the current one stays the same. *)
<1>b. ASSUME UNCHANGED <<plan, ppc, pstatus, failers, cur>>, pc # "wait"
      PROVE  StartedKnown' /\ OneChild'
  <2>1. StartedKnown'
    BY <1>b, <1>i DEF StartedKnown
  <2>2. \A r \in Run : ~Alive(Child(r))
    BY <1>b, <1>i DEF OneChild
  <2>3. \A r \in Run : ~Alive(Child(r))'
    BY <1>b, <2>2 DEF Alive, Child
  <2>4. OneChild'
    BY <2>3 DEF OneChild
  <2> QED BY <2>1, <2>4
<1>c. ASSUME UNCHANGED <<plan, ppc, pstatus, failers, cur, ccs>>,
             pc # "wait", pc' # "wait",
             pc' \notin {"main", "done"} => pc \notin {"main", "done"},
             pc' \in {"select", "stdin", "fork"} => Unforked
      PROVE  Declared'
  <2>1. /\ Child(cur)' = Child(cur) /\ (GDone(cur)' <=> GDone(cur))
        /\ Succeeds' <=> Succeeds
    BY <1>c DEF Child, GDone, Forked, DescOf, Succeeds
  <2> QED BY <1>c, <1>i, <2>1 DEF Declared, Unforked
(* The steps between tests, before the fork, and after the verdict. *)
<1>d. ASSUME UNCHANGED <<plan, ppc, pstatus, failers, cur, ccs>>,
             pc # "wait", ~Judging', pc' # "wait",
             pc' \notin {"main", "done"} => pc \notin {"main", "done"},
             pc' \in {"select", "stdin", "fork"} => Unforked,
             \A r \in Run : verdict'[r] \in {"PASS", "XPASS"} => Clean(r)
      PROVE  ReportInv'
  <2>1. PassedClean'
    BY <1>a, <1>d DEF PassedClean, Judging
  <2>2. UNCHANGED <<plan, ppc, pstatus, failers>>
    BY <1>d
  <2>3. StartedKnown' /\ OneChild'
    BY <1>d, <1>b
  <2>4. Declared'
    BY <1>d, <1>c
  <2> QED BY <2>1, <2>2, <2>3, <2>4, <1>a DEF ReportInv
<1>v. \A r \in Run : verdict[r] \in {"PASS", "XPASS"} => Clean(r)
  BY <1>i DEF PassedClean
<1>1. CASE BeginTest
  <2>1. /\ pc' = "select" /\ cur' = cur + 1 /\ ccs' = ZeroState /\ cur + 1 \in Run
        /\ UNCHANGED <<plan, ppc, pstatus, failers, verdict>>
        /\ pc = "main" /\ plan[cur + 1] # Unknown
    BY <1>1, <1>t DEF BeginTest, results
  <2>2. ppc[Child(cur + 1)] = "none" /\ ppc[Forked(cur + 1)] = "none"
    <3>1. cur + 1 \notin 1..cur
      BY <1>t
    <3> QED BY <2>1, <3>1, <1>i, <1>p, TwoProcs DEF StartedKnown
  <2>3. Child(cur + 1) \notin failers
    BY <2>1, <2>2, <1>i, <1>p DEF FailersFailed
  <2>4. ~Succeeds'
    BY <2>1 DEF Succeeds, ZeroState, TESTRESULT_UNKNOWN, TESTRESULT_SUCCESS
  <2>5. Child(cur)' = Child(cur + 1) /\ Forked(cur)' = Forked(cur + 1)
    BY <2>1 DEF Child, Forked
  <2>6. Declared'
    BY <2>1, <2>2, <2>3, <2>4, <2>5 DEF Declared
  <2>7. StartedKnown'
    <3>1. \A r \in 1..cur' : r \in 1..cur \/ r = cur + 1
      BY <2>1, <1>t
    <3>2. \A r \in 1..cur : r \in 1..cur'
      BY <2>1, <1>t
    <3> QED BY <2>1, <3>1, <3>2, <1>i DEF StartedKnown
  <2>8. OneChild'
    <3>1. \A r \in Run : ~Alive(Child(r))
      BY <2>1, <1>i DEF OneChild
    <3> QED BY <2>1, <3>1 DEF OneChild, Alive, Child
  <2>9. PassedClean'
    BY <2>1, <1>a, <1>v DEF PassedClean, Judging
  <2> QED BY <2>1, <2>6, <2>7, <2>8, <2>9, <1>a DEF ReportInv
<1>2. CASE UnknownTest \/ PipeFails \/ ForkFails \/ Finish
  BY <1>2, <1>d, <1>v DEF UnknownTest, PipeFails, ForkFails, Finish, ExitWith,
    procVars, results, Selected, Judging
<1>3. CASE RejectName \/ PassOver \/ StdinFails
  BY <1>3, <1>d, <1>v DEF RejectName, PassOver, StdinFails, procVars, results,
    Judging
<1>4. CASE Return
  BY <1>4, <1>d, <1>v DEF Return, shared, results, Judging
<1>5. CASE Prepare
  BY <1>5, <1>d, <1>v DEF Prepare, Selected, shared, Judging, Unforked
<1>6. CASE FillStdin
  BY <1>6, <1>d, <1>v DEF FillStdin, procVars, results, Judging, Unforked
<1>7. CASE SkipTest
  <2>1. /\ verdict' = [verdict EXCEPT ![cur] = "SKIP"] /\ cur \in Run
        /\ pc = "select" /\ pc' = "main" /\ UNCHANGED <<procVars, cur>>
    BY <1>7, <1>t DEF SkipTest, Selected
  <2>2. \A r \in Run : verdict'[r] \in {"PASS", "XPASS"} => Clean(r)
    BY <2>1, <1>t, <1>v
  <2> QED BY <2>1, <2>2, <1>d DEF procVars, Judging
<1>8. CASE Fail
  <2>1. /\ verdict' = [verdict EXCEPT ![cur] = FailVerdict(xfail, flaky)]
        /\ cur \in Run
        /\ pc = "fail" /\ pc' = "return" /\ UNCHANGED <<procVars, cur>>
    BY <1>8, <1>t DEF Fail
  <2>2. \A r \in Run : verdict'[r] \in {"PASS", "XPASS"} => Clean(r)
    BY <2>1, <1>t, <1>v DEF FailVerdict
  <2> QED BY <2>1, <2>2, <1>d DEF procVars, Judging
<1>9. CASE Pass
  <2>1. /\ verdict' = [verdict EXCEPT ![cur] = PassVerdict(xfail)]
        /\ cur \in Run
        /\ pc = "pass" /\ pc' = "return" /\ UNCHANGED <<procVars, cur>>
    BY <1>9, <1>t DEF Pass
  <2>2. Clean(cur)
    BY <2>1, <1>i DEF PassedClean
  <2>3. \A r \in Run : verdict'[r] \in {"PASS", "XPASS"} => Clean(r)
    BY <2>1, <2>2, <1>t, <1>v
  <2> QED BY <2>1, <2>3, <1>d DEF procVars, Judging
<1>10. CASE Fork
  <2>1. /\ pc = "fork" /\ pc' = "wait" /\ cur \in Run
        /\ ppc' = [ppc EXCEPT ![Child(cur)] = "body"]
        /\ UNCHANGED <<plan, ccs, pstatus, failers, cur, verdict>>
    BY <1>10, <1>t DEF Fork
  <2>2. /\ ppc[Child(cur)] = "none" /\ Child(cur) \notin failers
        /\ ppc[Forked(cur)] = "none" /\ cur \in 1..cur
    <3>1. cur \in 1..cur
      BY <2>1 DEF Run
    <3> QED BY <2>1, <3>1, <1>i, <1>p DEF Declared, Unforked, FailersFailed
  <2>3. /\ Child(cur)' = Child(cur)
        /\ \A r : Child(r)' = Child(r) /\ Forked(r)' = Forked(r) /\ DescOf(r)' = DescOf(r)
    BY <2>1 DEF Child, Forked, DescOf
  <2>4. /\ ppc'[Child(cur)] = "body"
        /\ \A q \in Proc : q # Child(cur) => ppc'[q] = ppc[q]
        /\ \A r \in Run : ppc'[Forked(r)] = ppc[Forked(r)]
        /\ \A r \in Run : r # cur => ppc'[Child(r)] = ppc[Child(r)]
    BY <2>1, <1>t, <1>p, TwoProcs
  <2>5. StartedKnown'
    BY <2>1, <2>2, <2>4, <1>p, <1>i DEF StartedKnown
  <2>6. OneChild'
    BY <2>1, <2>3, <2>4, <1>i DEF OneChild, Alive
  <2>7. FailersFailed'
    BY <2>1, <2>2, <2>4, <1>i DEF FailersFailed
  <2>8. ForkedLimits'
    BY <2>1, <2>3, <2>4, <1>i DEF ForkedLimits
  <2>9. \A r \in Run : (GDone(r) => GDone(r)') /\ (Clean(r) => Clean(r)')
    BY <2>1, <2>2, <2>3, <2>4 DEF GDone, Clean
  <2>10. JoinedWell'
    BY <2>1, <2>2, <2>3, <2>4, <2>9, <1>i DEF JoinedWell
  <2>11. Declared'
    BY <2>1, <2>2, <2>3, <1>i DEF Declared, Unforked, Succeeds
  <2>12. PassedClean'
    BY <2>1, <2>9, <1>v DEF PassedClean, Judging
  <2> QED BY <2>5, <2>6, <2>7, <2>8, <2>10, <2>11, <2>12 DEF ReportInv
<1>11. CASE Wait
  <2>1. /\ pc = "wait" /\ pc' = "result" /\ cur \in Run
        /\ ppc[Child(cur)] = "zombie"
        /\ ppc' = [ppc EXCEPT ![Child(cur)] = "reaped"]
        /\ UNCHANGED <<plan, ccs, pstatus, failers, cur, verdict>>
    BY <1>11, <1>t DEF Wait, results
  <2>3. /\ Child(cur)' = Child(cur)
        /\ \A r : Child(r)' = Child(r) /\ Forked(r)' = Forked(r) /\ DescOf(r)' = DescOf(r)
    BY <2>1 DEF Child, Forked, DescOf
  <2>4. /\ ppc'[Child(cur)] = "reaped"
        /\ \A q \in Proc : q # Child(cur) => ppc'[q] = ppc[q]
        /\ \A r \in Run : ppc'[Forked(r)] = ppc[Forked(r)]
        /\ \A r \in Run : r # cur => ppc'[Child(r)] = ppc[Child(r)]
    BY <2>1, <1>t, <1>p, TwoProcs
  <2>5. StartedKnown'
    BY <2>1, <2>4, <1>t, <1>p, <1>i DEF StartedKnown
  <2>6. OneChild'
    BY <2>1, <2>3, <2>4, <1>i DEF OneChild, Alive, NotAlive
  <2>7. FailersFailed'
    BY <2>1, <2>4, <1>i DEF FailersFailed
  <2>8. ForkedLimits'
    BY <2>1, <2>3, <2>4, <1>i DEF ForkedLimits
  <2>9. /\ \A r \in Run : (GDone(r) => GDone(r)') /\ (Clean(r) => Clean(r)')
        /\ GDone(cur) => GDone(cur)'
    BY <2>1, <2>3, <2>4 DEF GDone, Clean, Forked, DescOf
  <2>10. JoinedWell'
    BY <2>1, <2>3, <2>4, <2>9, <1>i DEF JoinedWell
  <2>11. Declared'
    BY <2>1, <2>3, <2>4, <2>9, <1>i DEF Declared, Unforked, Succeeds
  <2>12. PassedClean'
    BY <2>1, <2>3, <2>4, <2>9, <1>v DEF PassedClean, Judging
  <2> QED BY <2>5, <2>6, <2>7, <2>8, <2>10, <2>11, <2>12 DEF ReportInv
(* A check that does not let a declared failure through. *)
<1>12. ASSUME pc \in {"result", "status", "signal", "report", "output"},
              pc' \in {"status", "signal", "report", "output", "pass", "fail"},
              UNCHANGED <<plan, ppc, pstatus, failers, cur, ccs, verdict>>,
              Child(cur) \notin failers \/ pc' = "fail",
              pc' \in {"output", "pass"} => Clean(cur)
       PROVE  ReportInv'
  <2>1. StartedKnown' /\ OneChild' /\ Declared'
    BY <1>12, <1>b, <1>c
  <2>2. FailersFailed' /\ ForkedLimits' /\ JoinedWell'
    BY <1>12, <1>a
  <2>3. /\ Child(cur)' = Child(cur) /\ (Clean(cur)' <=> Clean(cur))
        /\ \A r : Clean(r)' <=> Clean(r)
    BY <1>12 DEF Child, Clean, GDone, Forked, DescOf
  <2>4. ppc[Child(cur)] = "reaped"
    BY <1>12, <1>i DEF PassedClean, Judging
  <2>5. PassedClean'
    BY <1>12, <1>v, <2>3, <2>4 DEF PassedClean
  <2> QED BY <2>1, <2>2, <2>5 DEF ReportInv
<1>13. CASE CheckResult
  <2>1. ~DeclaredFailure(ccs) => Child(cur) \notin failers
    BY <1>13, <1>i DEF CheckResult, Declared, DeclaredFailure
  <2> QED BY <1>13, <1>12, <2>1 DEF CheckResult, FailOr, procVars, judged, results
<1>e. pc \in {"status", "signal", "report", "output"} => Child(cur) \notin failers
  BY <1>i DEF PassedClean
<1>14. CASE CheckStatus
  <2>1. "SIGEXIT" \in CurTest.flags => Clean(cur)
    BY <1>14, CleanAtLast DEF CheckStatus
  <2> QED BY <1>14, <1>12, <1>e, <2>1 DEF CheckStatus, FailOr, procVars, judged, results
<1>15. CASE CheckSignal
  BY <1>15, <1>12, <1>e DEF CheckSignal, FailOr, procVars, judged, results
<1>16. CASE CheckReport
  <2>1. (/\ ~UnexpectedSignal(CurTest, ccs)
         /\ ~HarnessError(CurTest, ccs)) => Clean(cur)
    BY <1>16, CleanAtLast DEF CheckReport, UnexpectedSignal, HarnessError, Succeeds
  <2> QED BY <1>16, <1>12, <1>e, <2>1 DEF CheckReport, FailOr, procVars, judged, results
<1>17. CASE CheckOutput
  <2>1. Clean(cur)
    BY <1>17, <1>i DEF CheckOutput, PassedClean
  <2> QED BY <1>17, <1>12, <1>e, <2>1 DEF CheckOutput, FailOr, shared, judged, results
<1> QED
  BY <1>1, <1>2, <1>3, <1>4, <1>5, <1>6, <1>7, <1>8, <1>9, <1>10, <1>11, <1>13,
     <1>14, <1>15, <1>16, <1>17 DEF Controller

(***************************************************************************)
(* A run in which a process declared a failure is never passed, in every   *)
(* suite whose tests look at the status of what they fork before they can  *)
(* pass, if that can fail.  (Where a test does not wait for it, a failure  *)
(* may come after the verdict: this hypothesis is what the code relies on.)*)
(* Code: cheriostest_failure_err*() and the check of ccs_testresult first, *)
(* cheriostest.c 453-464.                                                  *)
(***************************************************************************)
THEOREM FailuresAreReported ==
  ASSUME FailuresJoined
  PROVE  Spec => []FailureIsReported
<1>1. Init => ReportInv
  <2> SUFFICES ASSUME Init PROVE ReportInv
    OBVIOUS
  <2>1. /\ pc = "main" /\ cur = 0 /\ failers = {}
        /\ \A q \in Proc : ppc[q] = "none"
        /\ \A r \in Run : verdict[r] = ""
    BY DEF Init, ProcInit
  <2>2. \A r \in Run : ppc[Child(r)] = "none" /\ ppc[Forked(r)] = "none"
    BY <2>1, RunProcs
  <2>3. StartedKnown
    <3>1. \A r \in 1..0 : FALSE
      OBVIOUS
    <3> QED BY <2>1, <3>1 DEF StartedKnown
  <2>4. OneChild
    BY <2>2 DEF OneChild, Alive, NotAlive
  <2> QED BY <2>1, <2>2, <2>3, <2>4 DEF ReportInv, FailersFailed, ForkedLimits,
    JoinedWell, Declared, PassedClean, Judging
<1>2. TypeInv /\ ReportInv /\ [Next]_vars => ReportInv'
  <2> SUFFICES ASSUME TypeInv, ReportInv, [Next]_vars PROVE ReportInv'
    OBVIOUS
  <2>1. CASE Controller
    BY <2>1, ControllerReport
  <2>2. CASE Processes
    BY <2>2, ProcStepReport DEF Processes
  <2>3. CASE UNCHANGED vars
    <3>1. UNCHANGED <<plan, ppc, pstatus, failers, pc, cur, ccs, verdict>>
      BY <2>3 DEF vars, procVars, ctlVars
    <3> QED BY <3>1 DEF ReportInv, StartedKnown, OneChild, FailersFailed, ForkedLimits,
      JoinedWell, Declared, PassedClean, Judging, Clean, GDone, Succeeds, Unforked,
      Child, Forked, DescOf, Alive
  <2> QED BY <2>1, <2>2, <2>3 DEF Next, Done
<1>3. TypeInv /\ ReportInv => FailureIsReported
  <2> SUFFICES ASSUME TypeInv, ReportInv, NEW p \in failers,
                      verdict[p[1]] \in {"PASS", "XPASS"}
               PROVE  FALSE
    BY DEF FailureIsReported
  <2>1. p \in Proc
    BY DEF TypeInv, TypeOK, ProcTypeOK
  <2>2. p[1] \in Run /\ (p = Child(p[1]) \/ p = Forked(p[1]))
    BY <2>1, TwoProcs, ProcParts
  <2>3. Clean(p[1])
    BY <2>2 DEF ReportInv, PassedClean
  <2> QED BY <2>2, <2>3 DEF Clean
<1> QED BY <1>1, <1>2, <1>3, TypeInvariant, PTL DEF Spec

=============================================================================
