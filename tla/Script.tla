------------------------------- MODULE Script -------------------------------
(***************************************************************************)
(* The frame all tests of the kernel share.  A test is a sequence of steps *)
(* for the process the controller forked and, where it forks, for that     *)
(* process's child; a step is a tuple, its name first.  The modules that   *)
(* extend this one give the steps their meaning.                           *)
(*                                                                         *)
(* The kernel is external to the program.  In every operation it does the  *)
(* right thing or commits an error that flaw names, if that applies; then  *)
(* bad records it.  So both questions about a test can be asked: does a    *)
(* right kernel never fail it, and does a wrong one never pass it.         *)
(***************************************************************************)
EXTENDS Verdict

CONSTANT
  Systems   \* what the suite is built for

ASSUME ScriptAssumption ==
  Systems \subseteq [os : {"CheriBSD", "FreeBSD", "Linux"}, rvy : BOOLEAN]

Proc == {"main", "kid"}
Other(p) == IF p = "main" THEN "kid" ELSE "main"

VARIABLES
  sys,   \* [os, rvy]: what the program was compiled for
  flaw,  \* the errors of this kernel
  test,  \* the test: its steps and the part of its descriptor that matters
  todo,  \* the steps each process has still to take
  reg,   \* what each process got from its last operation
  page,  \* ccs_testresult
  end,   \* "none", "run", "stopped" by a tracer, or how the process ended
  bad    \* history: where the system did not do what the tests ask for

scriptVars == <<sys, flaw, test, todo, reg, page, end, bad>>
setting == <<sys, flaw, test>>

FreeBSD == sys.os \in {"CheriBSD", "FreeBSD"}   \* #ifdef __FreeBSD__
CheriBSD == sys.os = "CheriBSD"                \* #ifdef HAVE_CheriBSD

(* A descriptor.  signal: CT_FLAG_SIGNAL or CT_FLAG_SIGEXIT; xfail: there *)
(* is a ct_xfail_reason.                                                   *)
TestOf(name, signal, xfail, steps) ==
  [name |-> name, signal |-> signal, xfail |-> xfail, steps |-> steps]

Plain(name, steps) == TestOf(name, FALSE, FALSE, steps)
Success == <<<<"success">>>>
Failure == <<<<"failure">>>>

(* One of the tests, on a kernel with one of the sets of errors. *)
ScriptInit(tests, flaws) ==
  /\ sys \in Systems /\ flaw \in flaws
  /\ test \in tests
  /\ todo = [p \in Proc |-> IF p = "main" THEN test.steps ELSE <<>>]
  /\ reg = [p \in Proc |-> "null"]
  /\ page = "unknown"
  /\ end = [p \in Proc |-> IF p = "main" THEN "run" ELSE "none"]
  /\ bad = {}

----------------------------------------------------------------------------
At(p, name) == end[p] = "run" /\ todo[p] # <<>> /\ Head(todo[p])[1] = name
Arg(p, k) == Head(todo[p])[k + 1]

(* On to the next step, with r as the result of this one. *)
Go(p, r) ==
  /\ todo' = [todo EXCEPT ![p] = Tail(@)]
  /\ reg' = [reg EXCEPT ![p] = r]
  /\ UNCHANGED <<page, end>>

(* cheriostest_failure_*(): the page, then exit(EX_SOFTWARE). *)
Die(p) ==
  /\ page' = "failure" /\ end' = [end EXCEPT ![p] = "software"]
  /\ UNCHANGED <<todo, reg>>

(* CHERIOSTEST_VERIFY() and CHERIOSTEST_CHECK_*(). *)
Verify(p, ok) == IF ok THEN Go(p, reg[p]) ELSE Die(p)

(* The process gets a signal that cheriostest's handler catches. *)
Trap(p) ==
  /\ end' = [end EXCEPT ![p] = "signal"]
  /\ UNCHANGED <<todo, reg, page>>

(* The kernel answers with v: the right value, or the one its flaw gives. *)
Does(v, right, wrong) ==
  \/ v = right /\ bad' = bad
  \/ \E f \in flaw \cap DOMAIN wrong :
       v = wrong[f] /\ v # right /\ bad' = bad \cup {f}

----------------------------------------------------------------------------
(* Steps every family has. *)

WantStep(p) ==
  /\ At(p, "want")
  /\ Verify(p, reg[p] \in Arg(p, 1))
  /\ UNCHANGED bad

Succeed(p) ==
  /\ At(p, "success")
  /\ page' = "success" /\ end' = [end EXCEPT ![p] = "ok"]
  /\ UNCHANGED <<todo, reg, bad>>

FailStep(p) == At(p, "failure") /\ Die(p) /\ UNCHANGED bad

(* exit(n) and _exit(n): n = 0 if the register holds what is asked for. *)
ExitStep(p) ==
  /\ At(p, "exit")
  /\ end' = [end EXCEPT ![p] = IF reg[p] \in Arg(p, 1) THEN "ok" ELSE "software"]
  /\ UNCHANGED <<todo, reg, page, bad>>

(* exit(n) with a status that does not depend on what went before. *)
Leave(p) ==
  /\ At(p, "leave")
  /\ end' = [end EXCEPT ![p] = Arg(p, 1)]
  /\ UNCHANGED <<todo, reg, page, bad>>

(* A process that leaves with _exit() or abort() says nothing on the page. *)
Demand(p) ==
  /\ At(p, "demand")
  /\ IF reg[p] \in Arg(p, 1) THEN Go(p, reg[p])
     ELSE end' = [end EXCEPT ![p] = "software"] /\ UNCHANGED <<todo, reg, page>>
  /\ UNCHANGED bad

(* fork(); the step carries what the new process is to do. *)
ForkStep ==
  /\ At("main", "fork")
  /\ \/ /\ todo' = [main |-> Tail(todo["main"]), kid |-> Arg("main", 1)]
        /\ reg' = [reg EXCEPT !["kid"] = reg["main"]]
        /\ end' = [end EXCEPT !["kid"] = "run"]
        /\ UNCHANGED <<page, bad>>
     \/ "call" \in flaw /\ bad' = bad \cup {"call"} /\ Die("main")

(* Mutant: the status waitpid() stored is not looked at. *)
WaitStepLax ==
  /\ At("main", "wait") /\ end["kid"] \in {"ok", "software", "signal"}
  /\ Go("main", reg["main"])
  /\ UNCHANGED bad

(* waitpid(); unless the step says to ignore it, the status must be zero. *)
WaitStep ==
  /\ At("main", "wait") /\ end["kid"] \in {"ok", "software", "signal"}
  /\ Verify("main", end["kid"] = "ok" \/ Arg("main", 1) = "ignore")
  /\ UNCHANGED bad

(* A system call whose only effect is that it may fail, as the test checks. *)
CallStep(p) ==
  /\ At(p, "call")
  /\ \/ Go(p, reg[p]) /\ UNCHANGED bad
     \/ "call" \in flaw /\ bad' = bad \cup {"call"} /\ Die(p)

(* #ifndef PROT_CAP: the test cannot be done here and says so. *)
NeedCap(p) ==
  /\ At(p, "PROT_CAP")
  /\ \/ sys.os # "Linux" /\ Go(p, reg[p]) /\ bad' = bad
     \/ sys.os = "Linux" /\ Die(p) /\ bad' = bad \cup {"PROT_CAP"}

CommonStep(p) ==
  \/ WantStep(p) \/ Succeed(p) \/ FailStep(p) \/ ExitStep(p) \/ Demand(p)
  \/ CallStep(p) \/ NeedCap(p)
  \/ p = "main" /\ WaitStep

----------------------------------------------------------------------------
Ended == end["main"] # "run"

(* What the controller makes of it: see Verdict. *)
Outcome ==
  LET ok == /\ page # "failure"
            /\ IF test.signal THEN end["main"] = "signal"
               ELSE end["main"] = "ok" /\ page = "success"
  IN IF ok THEN PassVerdict(test.xfail) ELSE FailVerdict(test.xfail, FALSE)

Done == Ended /\ end["kid"] # "run"

=============================================================================
