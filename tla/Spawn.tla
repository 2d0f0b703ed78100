------------------------------- MODULE Spawn --------------------------------
(***************************************************************************)
(* A test spawns this program again and runs its child function there:     *)
(* mk_exec_args(), cheriostest_spawn_child_args() and the tests that use   *)
(* them.  The variables of Driver belong first to the program the user     *)
(* started and, once a child image runs, to that image.                    *)
(***************************************************************************)
EXTENDS Driver, Integers

CONSTANTS
  Spawners, \* the tests that spawn a child
  Modes,    \* enum spawn_child_mode
  Extras    \* the argument vectors tests pass on; <<>> is NULL

None == "none"

ASSUME SpawnAssumption ==
  /\ Spawners \subseteq HasChild
  /\ \A x \in Extras : x \in Seq({"opt", "arg"} \X STRING)
  /\ Modes \subseteq {"posix_spawn", "fork", "vfork", "rfork"}
  /\ Os = "Linux" => "rfork" \notin Modes

VARIABLES
  job,    \* what the test asked for, and the options in force: see PickTest
  words,  \* exec_args, without its first element and the final NULL
  test,   \* the test process: None, "args", "spawn", "wait", "fault", "done"
  kid,    \* its child: None, "copy", "stray", "image", "ended"
  status, \* the child's exit status
  page,   \* ccs_testresult, shared by the test and its copies
  ran     \* history: the child function ran and was content

spawnVars == <<job, words, test, kid, status, page, ran>>

SpawnInit ==
  /\ Init
  /\ job = None /\ words = <<>> /\ test = None /\ kid = None
  /\ status = 0 /\ page = "unknown" /\ ran = FALSE

----------------------------------------------------------------------------
(* Before anything is spawned the variables of Driver are the controller's. *)
Controller == test = None /\ DriverNext /\ UNCHANGED spawnVars

(* The controller runs one of the planned tests that spawn. *)
PickTest ==
  /\ at = "run" /\ test = None
  /\ \E t \in Spawners, m \in Modes, x \in Extras :
       /\ t \in {plan[k] : k \in 1..Len(plan)}
       /\ job' = [test |-> t, mode |-> m, extra |-> x, flags |-> flags]
  /\ test' = "args"
  /\ UNCHANGED <<driverVars, words, kid, status, page, ran>>

Opt(letter, cond) == IF cond THEN <<<<"opt", letter>>>> ELSE <<>>

(* Mutant: -K is forgotten. *)
ExecArgsNoK(j) ==
  <<<<"opt", "E">>>>
    \o Opt("c", "c" \in j.flags) \o Opt("v", "v" \in j.flags)
    \o <<<<"arg", j.test>>>> \o j.extra

ExecArgs(j) ==
  <<<<"opt", "E">>>> \o Opt("K", j.extra # <<>>)
    \o Opt("c", "c" \in j.flags) \o Opt("v", "v" \in j.flags)
    \o <<<<"arg", j.test>>>> \o j.extra

(* calloc(6 + extra_argc) against the path, the words and the final NULL. *)
Overflow(j) == Len(ExecArgs(j)) + 2 > 6 + Len(j.extra)

(***************************************************************************)
(* mk_exec_args().  A store beyond the array faults in a capability build; *)
(* in others it goes unnoticed here.  malloc() may fail: err().            *)
(***************************************************************************)
MakeArgs ==
  /\ test = "args"
  /\ words' = ExecArgs(job)
  /\ \/ test' = "spawn"
     \/ Overflow(job) /\ test' = "fault"
     \/ test' = "done"
  /\ UNCHANGED <<driverVars, job, kid, status, page, ran>>

----------------------------------------------------------------------------
(* The child becomes a new image of this program. *)
NewImage ==
  /\ kid' = "image"
  /\ argv' = words /\ flags' = {} /\ at' = "options" /\ plan' = <<>>

(* posix_spawn(): an error is returned, or the child exits with 127. *)
PosixSpawn ==
  /\ test = "spawn" /\ job.mode = "posix_spawn"
  /\ \/ NewImage /\ test' = "wait" /\ status' = status
     \/ /\ kid' = "ended" /\ status' = 127 /\ test' = "wait"
        /\ UNCHANGED driverVars
     \/ test' = "done" /\ UNCHANGED <<driverVars, kid, status>>
  /\ UNCHANGED <<job, words, page, ran>>

(* fork(), rfork() or vfork(), the last of which holds the parent back. *)
ForkCopy ==
  /\ test = "spawn" /\ job.mode # "posix_spawn" /\ kid = None
  /\ \/ kid' = "copy" /\ test' = (IF job.mode = "vfork" THEN test ELSE "wait")
     \/ test' = "done" /\ kid' = kid
  /\ UNCHANGED <<driverVars, job, words, status, page, ran>>

(* execve() in the copy; if it fails the copy returns 0 into the test. *)
Exec ==
  /\ kid = "copy"
  /\ \/ NewImage
     \/ kid' = "stray" /\ UNCHANGED driverVars
  /\ test' = IF job.mode = "vfork" /\ kid' = "image" THEN "wait" ELSE test
  /\ UNCHANGED <<job, words, status, page, ran>>

(* Mutant: VERIFY2(pid >= 0): the copy goes on as if it had a child. *)
StrayPasses ==
  /\ kid = "stray"
  /\ kid' = "ended" /\ page' = "success" /\ status' = 0
  /\ test' = IF test = "spawn" THEN "wait" ELSE test
  /\ UNCHANGED <<driverVars, job, words, ran>>

(***************************************************************************)
(* VERIFY2(pid > 0) fails in the copy.  Having returned from the function  *)
(* that called vfork() is undefined: the parent goes on or faults.         *)
(***************************************************************************)
Stray ==
  /\ kid = "stray"
  /\ kid' = "ended" /\ page' = "failure" /\ status' = 70
  /\ \/ test' = IF test = "spawn" THEN "wait" ELSE test
     \/ test = "spawn" /\ test' = "fault"
  /\ UNCHANGED <<driverVars, job, words, ran>>

----------------------------------------------------------------------------
(* main() in the image. *)
ChildImage == kid = "image" /\ DriverNext /\ UNCHANGED spawnVars

(* A child function leaves with exit(0), or with a failure, a signal or a *)
(* return; a suite run by mistake would report its own result.            *)
ExitStatus == CASE at \in {"child", "run"} -> {0, 70}
                [] at = "list"             -> {0}
                [] OTHER                   -> {70}

ChildEnds ==
  /\ kid = "image" /\ at \notin {"options", "checks", "dispatch"}
  /\ status' \in ExitStatus
  /\ ran' = (at = "child" /\ status' = 0)
  /\ kid' = "ended"
  /\ UNCHANGED <<driverVars, job, words, test, page>>

(* waitpid() and the test on the status. *)
WaitChild ==
  /\ test = "wait" /\ kid = "ended"
  /\ page' = IF status # 0 THEN "failure" ELSE "success"
  /\ test' = "done"
  /\ UNCHANGED <<driverVars, job, words, kid, status, ran>>

Rest ==
  /\ \/ test \in {"done", "fault"} /\ kid \in {None, "ended"}
     \/ test = None /\ at \notin {"options", "checks", "dispatch"}
  /\ UNCHANGED <<driverVars, spawnVars>>

Next == \/ Controller \/ PickTest \/ MakeArgs \/ PosixSpawn \/ ForkCopy \/ Exec
        \/ Stray \/ ChildImage \/ ChildEnds \/ WaitChild \/ Rest

Spec == SpawnInit /\ [][Next]_<<driverVars, spawnVars>>

----------------------------------------------------------------------------
(***************************************************************************)
(* No process looks up its child function under a missing name.  -K lifts  *)
(* the count of one; the later test for an empty list, meant for the       *)
(* controller, is what stops "-E -K".  Code: cheriostest.c 1016-1048.      *)
(***************************************************************************)
ChildHasName == at # "fault"

(***************************************************************************)
(* What mk_exec_args() builds, main() takes as a child's command line: the *)
(* image never ends in usage() or runs tests, and comes to the function of *)
(* the test that asked, with its arguments and the options in force.       *)
(* Code: cheriostest.c 757-795 against 950-1048.                           *)
(***************************************************************************)
ChildRoundTrip ==
  kid = "image" =>
    /\ at \in {"options", "checks", "dispatch", "child", "error"}
    /\ at = "child" =>
         /\ argv = <<<<"arg", job.test>>>> \o job.extra
         /\ flags \cap {"c", "v"} = job.flags \cap {"c", "v"}

(***************************************************************************)
(* A test that spawns passes only if its child function ran to a good end, *)
(* whatever fails on the way; a copy whose execve() failed is in the test  *)
(* too and must not be taken for it.  Code: cheriostest.c 797-846 and      *)
(* cheriostest_internal.c 57-64.                                           *)
(***************************************************************************)
PassMeansChildRan == (test = "done" /\ page = "success") => ran

(***************************************************************************)
(* Spawning gets as far as the child, without a stray store.  Code:        *)
(* cheriostest.c 774-792: room for six words, seven with -K, -c and -v.    *)
(***************************************************************************)
SpawnReachesChild == test = "fault" => kid # None

=============================================================================
