---------------------------- MODULE TestProcess ----------------------------
(***************************************************************************)
(* The processes a run of cheriostest creates, and what they do to the     *)
(* state they share with the controller: the child forked for each test    *)
(* ("c"), the process that some tests fork themselves ("g"), the page      *)
(* ccsp points at, the standard-output pipe, and stdio buffers.            *)
(*                                                                         *)
(* Run r is the r-th test the controller starts.  All processes of all     *)
(* runs share ONE page: it is mapped MAP_SHARED once, in main().           *)
(***************************************************************************)
EXTENDS Verdict, FiniteSets

CONSTANTS
  Test,      \* names of registered tests (cheri_tests_set)
  Unknown,   \* a name on the command line that is not registered
  Desc,      \* the descriptor of each test, see Descriptor
  Plans,     \* the sequences of names the controller may be asked to run
  MaxRun,    \* bound: the length of a plan
  MaxOut,    \* bound: chunks a process prints
  PipeCap,   \* capacity of a pipe, in chunks
  SigInfo    \* what a caught signal can deliver: signum, code, trapno, addr

Run  == 1..MaxRun
Proc == Run \X {"c", "g"}

(* What the code of a test, or of the process it forks, may do next. *)
Op == {"print", "expect", "fault", "alarm", "kill", "success", "warn",
       "fail", "return", "err", "_exit", "fork", "send", "recv", "block"}

(***************************************************************************)
(* struct cheri_test, with the behaviour of its functions: the operations  *)
(* the test (body) and the process it forks (gbody) may perform, and       *)
(* whether the test waits for that process before it reports success:      *)
(* "check" looks at its status, "ignore" does not, "none" never waits.     *)
(* prefix: the name begins with a disallowed prefix; skip: ct_check_skip   *)
(* gives a reason; xfail, flaky: there is a reason of that kind.           *)
(***************************************************************************)
Descriptor ==
  [flags : SUBSET Flag, signum : Nat, si_code : Nat, si_trapno : Nat,
   stdin : Nat, stdout : Seq(Nat), xfail : BOOLEAN, flaky : BOOLEAN,
   skip : BOOLEAN, prefix : BOOLEAN,
   body : SUBSET Op, gbody : SUBSET (Op \ {"fork", "send"}),
   join : {"check", "ignore", "none"}]

ASSUME ConstantsAssumption ==
  /\ MaxRun \in Nat /\ MaxOut \in Nat /\ PipeCap \in Nat \ {0}
  /\ Unknown \notin Test
  /\ \A t \in Test : Desc[t] \in Descriptor
  /\ \A s \in Plans : s \in Seq(Test \cup {Unknown}) /\ Len(s) <= MaxRun
  /\ \A i \in SigInfo :
       i \in [signum : Nat, si_code : Nat, si_trapno : Nat, si_addr : Nat]

VARIABLES
  plan,     \* the names to run
  ccs,      \* the shared page *ccsp
  ppc,      \* where each process is
  pbuf,     \* its unflushed stdio output, a sequence of run numbers
  pstatus,  \* the status it will end (or has ended) with
  pipe,     \* what is in the standard-output pipe of each run
  piperd,   \* the runs whose pipe has a reader: the controller's end is open
  sent,     \* the runs whose child has sent the message "g" waits for
  failers   \* history: the processes that declared a failure

procVars == <<plan, ccs, ppc, pbuf, pstatus, pipe, piperd, sent, failers>>

Exited(code) == [kind |-> "exited", val |-> code]
Killed(sig)  == [kind |-> "signaled", val |-> sig]

SIGKILL == 9
SIGPIPE == 13
SIGALRM == 14

Child(r)    == <<r, "c">>
Forked(r)   == <<r, "g">>
DescOf(r)   == Desc[plan[r]]
Ops(p)      == IF p[2] = "c" THEN DescOf(p[1]).body ELSE DescOf(p[1]).gbody
NotAlive    == {"none", "zombie", "reaped"}
Alive(p)    == ppc[p] \notin NotAlive

(***************************************************************************)
(* A forked process that receives a message waits for it before anything   *)
(* else: its other operations are behind the recvmsg() or read().  If the  *)
(* message never comes it waits for ever, as it may hold the other end of  *)
(* the pipe open itself.                                                   *)
(***************************************************************************)
Received(p) == (p[2] = "g" /\ "recv" \in Ops(p)) => p[1] \in sent

(***************************************************************************)
(* p may be in a call of its own that never returns: recvmsg() from a      *)
(* process that has gone, sigsuspend() for a signal that does not come.    *)
(***************************************************************************)
MayBlock(p) == ppc[p] = "body" /\ "block" \in Ops(p)

(* p is executing test code and its next operation may be op. *)
May(p, op) == ppc[p] = "body" /\ op \in Ops(p) /\ Received(p)

Goto(p, l)     == ppc' = [ppc EXCEPT ![p] = l]
EndsWith(p, s) == pstatus' = [pstatus EXCEPT ![p] = s]

ProcInit ==
  /\ plan \in Plans
  /\ ccs = ZeroState
  /\ ppc = [p \in Proc |-> "none"]
  /\ pbuf = [p \in Proc |-> <<>>]
  /\ pstatus = [p \in Proc |-> Exited(EX_OK)]
  /\ pipe = [r \in Run |-> <<>>]
  /\ piperd = {}
  /\ sent = {}
  /\ failers = {}

----------------------------------------------------------------------------
(* printf(): into the stdio buffer, standard output being a pipe. *)
PrintOut(p) ==
  /\ May(p, "print") /\ Len(pbuf[p]) < MaxOut
  /\ pbuf' = [pbuf EXCEPT ![p] = Append(@, p[1])]
  /\ UNCHANGED <<plan, ccs, ppc, pstatus, pipe, piperd, sent, failers>>

(* cheriostest_set_expected_si_addr(), with any address a signal may bring. *)
Expect(p) ==
  /\ May(p, "expect")
  /\ \E i \in SigInfo : ccs' = [ccs EXCEPT !.si_addr_expected = i.si_addr]
  /\ UNCHANGED <<plan, ppc, pbuf, pstatus, pipe, piperd, sent, failers>>

(* The page after signal_handler() ran in p for a signal with info i. *)
HandlerStore(p, i) ==
  [ccs EXCEPT !.signum = i.signum, !.si_code = i.si_code,
              !.si_trapno = i.si_trapno, !.si_addr = i.si_addr,
              !.sig_by = p[1]]

(***************************************************************************)
(* A caught signal: a fault of the test code, or SIGALRM from an alarm the *)
(* test armed, which can interrupt it anywhere, in cheriostest_success()   *)
(* and in exit() too.  signal_handler() ends in _exit(): what is still in  *)
(* the stdio buffer is lost.                                               *)
(***************************************************************************)
Signalled(p) ==
  /\ \E i \in SigInfo :
       /\ \/ i.signum # SIGALRM /\ May(p, "fault")
          \/ i.signum = SIGALRM /\ Alive(p) /\ "alarm" \in Ops(p)
       /\ ccs' = HandlerStore(p, i)
  /\ Goto(p, "zombie") /\ EndsWith(p, Exited(EX_SOFTWARE))
  /\ UNCHANGED <<plan, pbuf, pipe, piperd, sent, failers>>

(* A signal without a handler (abort(), kill()) ends the process. *)
KilledBySignal(p) ==
  /\ May(p, "kill")
  /\ Goto(p, "zombie") /\ EndsWith(p, Killed(SIGKILL))
  /\ UNCHANGED <<plan, ccs, pbuf, pipe, piperd, sent, failers>>

(***************************************************************************)
(* A test that forks reports success only after it has waited for the      *)
(* forked process, unless it never waits; the status must be good if it    *)
(* looks at it.                                                            *)
(***************************************************************************)
Joined(p) ==
  LET g == Forked(p[1]) IN
  p[2] = "c" => \/ ppc[g] = "none"
                \/ ppc[g] = "reaped"
                \/ DescOf(p[1]).join = "none"

(* cheriostest_success(): the result, then the warning flag, then exit(0). *)
Success(p) ==
  /\ May(p, "success") /\ Joined(p)
  /\ ccs' = [ccs EXCEPT !.testresult = TESTRESULT_SUCCESS, !.res_by = p[1]]
  /\ Goto(p, "unwarn") /\ EndsWith(p, Exited(EX_OK))
  /\ UNCHANGED <<plan, pbuf, pipe, piperd, sent, failers>>

SuccessUnwarn(p) ==
  /\ ppc[p] = "unwarn"
  /\ ccs' = [ccs EXCEPT !.warn = FALSE]
  /\ Goto(p, "flush")
  /\ UNCHANGED <<plan, pbuf, pstatus, pipe, piperd, sent, failers>>

(* cheriostest_success_with_warn(): message, flag, result, exit(0). *)
SuccessWithWarn(p) ==
  /\ May(p, "warn") /\ Joined(p)
  /\ ccs' = [ccs EXCEPT !.str = p[1]]
  /\ Goto(p, "setwarn") /\ EndsWith(p, Exited(EX_OK))
  /\ UNCHANGED <<plan, pbuf, pipe, piperd, sent, failers>>

WarnFlag(p) ==
  /\ ppc[p] = "setwarn"
  /\ ccs' = [ccs EXCEPT !.warn = TRUE]
  /\ Goto(p, "warned")
  /\ UNCHANGED <<plan, pbuf, pstatus, pipe, piperd, sent, failers>>

WarnResult(p) ==
  /\ ppc[p] = "warned"
  /\ ccs' = [ccs EXCEPT !.testresult = TESTRESULT_SUCCESS, !.res_by = p[1]]
  /\ Goto(p, "flush")
  /\ UNCHANGED <<plan, pbuf, pstatus, pipe, piperd, sent, failers>>

(* cheriostest_failure_err*(): flag, result, message, exit(EX_SOFTWARE). *)
Failure(p) ==
  /\ May(p, "fail")
  /\ ccs' = [ccs EXCEPT !.warn = FALSE]
  /\ Goto(p, "failing") /\ EndsWith(p, Exited(EX_SOFTWARE))
  /\ UNCHANGED <<plan, pbuf, pipe, piperd, sent, failers>>

FailureResult(p) ==
  /\ ppc[p] = "failing"
  /\ ccs' = [ccs EXCEPT !.testresult = TESTRESULT_FAILURE, !.res_by = p[1]]
  /\ failers' = failers \cup {p}
  /\ Goto(p, "failed")
  /\ UNCHANGED <<plan, pbuf, pstatus, pipe, piperd, sent>>

FailureStr(p) ==
  /\ ppc[p] = "failed"
  /\ ccs' = [ccs EXCEPT !.str = p[1]]
  /\ Goto(p, "flush")
  /\ UNCHANGED <<plan, pbuf, pstatus, pipe, piperd, sent, failers>>

(* ct_func() returns, and the harness calls exit(0); or err(EX_OSERR, ...). *)
Leave(p) ==
  /\ \/ May(p, "return") /\ EndsWith(p, Exited(EX_OK))
     \/ May(p, "err") /\ EndsWith(p, Exited(EX_OSERR))
  /\ Goto(p, "flush")
  /\ UNCHANGED <<plan, ccs, pbuf, pipe, piperd, sent, failers>>

(* _exit(0) and _exit(1): stdio is not flushed. *)
QuickExit(p) ==
  /\ May(p, "_exit")
  /\ \E code \in {0, 1} : EndsWith(p, Exited(code))
  /\ Goto(p, "zombie")
  /\ UNCHANGED <<plan, ccs, pbuf, pipe, piperd, sent, failers>>

(***************************************************************************)
(* exit() writes the stdio buffer to the pipe: it blocks while the pipe is *)
(* full, and dies of SIGPIPE when nobody can read it any more.             *)
(***************************************************************************)
Flush(p) ==
  LET r == p[1] IN
  /\ ppc[p] = "flush" /\ pbuf[p] # <<>>
  /\ \/ /\ r \in piperd /\ Len(pipe[r]) < PipeCap
        /\ pipe' = [pipe EXCEPT ![r] = Append(@, Head(pbuf[p]))]
        /\ pbuf' = [pbuf EXCEPT ![p] = Tail(@)]
        /\ UNCHANGED <<ppc, pstatus>>
     \/ /\ r \notin piperd
        /\ Goto(p, "zombie") /\ EndsWith(p, Killed(SIGPIPE))
        /\ UNCHANGED <<pipe, pbuf>>
  /\ UNCHANGED <<plan, ccs, piperd, sent, failers>>

Exit(p) ==
  /\ ppc[p] = "flush" /\ pbuf[p] = <<>>
  /\ Goto(p, "zombie")
  /\ UNCHANGED <<plan, ccs, pbuf, pstatus, pipe, piperd, sent, failers>>

----------------------------------------------------------------------------
(* fork() in a test: handlers, pipe, page and stdio buffer are inherited. *)
ForkOwn(p) ==
  LET g == Forked(p[1]) IN
  /\ May(p, "fork") /\ ppc[g] = "none"
  /\ ppc' = [ppc EXCEPT ![g] = "body"]
  /\ pbuf' = [pbuf EXCEPT ![g] = pbuf[p]]
  /\ UNCHANGED <<plan, ccs, pstatus, pipe, piperd, sent, failers>>

(* sendmsg() or write() to the forked process, which waits for it. *)
Send(p) ==
  /\ May(p, "send") /\ ppc[Forked(p[1])] # "none" /\ p[1] \notin sent
  /\ sent' = sent \cup {p[1]}
  /\ UNCHANGED <<plan, ccs, ppc, pbuf, pstatus, pipe, piperd, failers>>

(* waitpid() in the test for the process it forked; a bad status fails it. *)
Reap(p) ==
  LET g == Forked(p[1])
      t == DescOf(p[1])
  IN
  /\ p[2] = "c" /\ ppc[p] = "body" /\ ppc[g] = "zombie" /\ t.join # "none"
  /\ IF t.join = "check" /\ pstatus[g] # Exited(EX_OK)
     THEN /\ ppc' = [ppc EXCEPT ![g] = "reaped", ![p] = "failing"]
          /\ ccs' = [ccs EXCEPT !.warn = FALSE]
          /\ EndsWith(p, Exited(EX_SOFTWARE))
     ELSE /\ ppc' = [ppc EXCEPT ![g] = "reaped"]
          /\ UNCHANGED <<ccs, pstatus>>
  /\ UNCHANGED <<plan, pbuf, pipe, piperd, sent, failers>>

(* One step of p. *)
ProcStep(p) ==
  \/ PrintOut(p) \/ Expect(p) \/ Signalled(p) \/ KilledBySignal(p)
  \/ Success(p) \/ SuccessUnwarn(p)
  \/ SuccessWithWarn(p) \/ WarnFlag(p) \/ WarnResult(p)
  \/ Failure(p) \/ FailureResult(p) \/ FailureStr(p)
  \/ Leave(p) \/ QuickExit(p) \/ Flush(p) \/ Exit(p)
  \/ ForkOwn(p) \/ Send(p) \/ Reap(p)

=============================================================================
