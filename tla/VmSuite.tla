------------------------------ MODULE VmSuite ------------------------------
(***************************************************************************)
(* The tests of cheriostest_vm.c together: one of them, of any family, on  *)
(* one kernel.                                                             *)
(***************************************************************************)
EXTENDS VmTagTests, ReservationTests, RevokeTests

CONSTANTS
  TagFlaws, ResFlaws, RevFlaws   \* the errors, by family, as sets of sets

ASSUME VmSuiteAssumption == {} \in TagFlaws \cap ResFlaws \cap RevFlaws

vars == <<scriptVars, tagVars, resVars, revVars>>

Init ==
  /\ sys \in Systems
  /\ TagInit /\ RevInit
  /\ \/ ResInit /\ ScriptInit(ReservationTestSet, ResFlaws)
     \/ /\ ScriptInit(TagTests, TagFlaws) \/ ScriptInit(RevokeTestSet, RevFlaws)
        /\ space = [g \in PageNo |-> "free"] /\ quar = FALSE /\ held = NoCap

VmStep(p) ==
  \/ p = "main" /\ ForkStep /\ Inherit /\ UNCHANGED <<tagVars, resVars>>
  \/ CommonStep(p) /\ UNCHANGED <<tagVars, resVars, revVars>>
  \/ TagStep(p) /\ UNCHANGED <<resVars, revVars>>
  \/ ResStep(p) /\ UNCHANGED <<tagVars, revVars>>
  \/ RevStep(p) /\ UNCHANGED <<tagVars, resVars>>

Kernel == WorkerSweeps /\ UNCHANGED <<tagVars, resVars>>
Thread == (ForkerChild \/ ForkerReaps \/ ForkerEnds) /\ UNCHANGED <<tagVars, resVars>>

(* What may happen but need not. *)
Chance ==
  \/ TagEnvStep /\ UNCHANGED <<resVars, revVars>>
  \/ (WorkerCloses \/ ForkerForks) /\ UNCHANGED <<tagVars, resVars>>

(* The controller goes on when its child has ended. *)
Over == Ended /\ UNCHANGED vars

Next ==
  \/ (Kernel \/ Thread \/ Chance \/ \E p \in Proc : VmStep(p)) /\ UNCHANGED setting
  \/ Over

(* Every process and thread that can run is run, and a sweep comes to its end. *)
Fairness ==
  /\ \A p \in Proc : WF_vars(VmStep(p) /\ UNCHANGED setting)
  /\ WF_vars(Kernel /\ UNCHANGED setting) /\ WF_vars(Thread /\ UNCHANGED setting)

Spec == Init /\ [][Next]_vars /\ Fairness

----------------------------------------------------------------------------
(* Errors CheriBSD is known to have; the tests they fail say so.  Its       *)
(* shared mappings hold capabilities unasked, tags cross to other processes *)
(* and objects nobody maps are not revoked.                                 *)
Known == IF FreeBSD THEN {"implied", "survive", "hoard"} ELSE {}

Passed == Ended /\ Outcome \in {"PASS", "XPASS"}

(* These wait for a signal that RVY does not raise: see mmap_and_check_tag_stored(). *)
TrapTests == {"vm_notag_mmap_no_cap", "vm_notag_mprotect_no_cap"}

(* These fail on a system that is right: the first two wait on RVY for a    *)
(* trap, and MAP_STACK without MAP_ANON is an EBADF on Linux (vm.c 3624).   *)
Mistaken ==
  \/ sys.rvy /\ test.name \in TrapTests
  \/ sys.os = "Linux" /\ test.name = "mmap_insert_stack"

(* What a test does not look at, though it makes the kernel do it. *)
CapDirtyBlind == {"undirtied", "unwashed", "washed"}
Blind ==
  CASE test.name = "cheri_revoke_lightly" -> CapDirtyBlind \cup {"enqueue"}
    [] test.name = "cheri_revoke_loadside" -> {"clock", "enqueue"}
    [] test.name = "cheri_revoke_cow_mapping" -> CapDirtyBlind \cup {"evicted"}
    [] test.name \in {"cheri_revoke_async", "cheri_revoke_async_fork"} ->
         CapDirtyBlind \cup {"behind"}
    [] test.name \in {"vm_cow_anon_write", "vm_cow_named_write"} -> {"lost", "through"}
    [] test.name \in {"cheri_revoke_shm_anon_hoard_unmapped",
                      "cheri_revoke_shm_anon_hoard_closed"} -> {"hoard"}
    [] test.name = "vm_cap_share_sigaction" -> {"call", "mangle"}
    [] test.name = "vm_mmap_invalid_cap" -> IF sys.os = "Linux" THEN {"invalid"} ELSE {}
    [] test.name = "vm_reservation_mmap_fixed_insert" -> {"untagged"}
    [] test.name = "vm_reservation_reuse" -> {"reuse"}
    [] test.name = "revoke_largest_quarantined_reservation" -> {"alone"}
    [] test.name = "revoke_merge_quarantined" -> {"merged"}
    [] OTHER -> {"through"}   \* private mappings, whose object is not read again

(***************************************************************************)
(* No test of cheriostest_vm.c fails on a kernel that does what the test   *)
(* asks for, whatever the order in which its processes, its threads and    *)
(* the asynchronous worker move, unless another run holds the name its shm *)
(* object must have (gen_shm_obj_name(), 118-128), something is mapped at  *)
(* the address it insists on, or it is Mistaken; and an error CheriBSD is  *)
(* known to have fails only tests that say so.                             *)
(***************************************************************************)
RightKernelNotFailed ==
  Ended /\ Outcome = "FAIL" =>
    bad \ Known # {} \/ shm.rival \/ Mistaken

(***************************************************************************)
(* A test passes on a kernel that went wrong only where Blind says so:     *)
(* everything else a test makes the kernel do is looked at before          *)
(* cheriostest_success(), by the process that sees it or by the one that   *)
(* waits for it.  An error is one when the kernel commits it, not when a   *)
(* test finds it: the epochs cheri_revoke() tells, say, count whether or   *)
(* not the test reads them, and cheri_revoke_loadside does not.            *)
(***************************************************************************)
ErrorsReported == Passed => bad \subseteq Blind

(***************************************************************************)
(* A test that passes leaves no process or thread behind that could still  *)
(* declare a failure: waitpid() and pthread_join() come first.             *)
(***************************************************************************)
PassLeavesNobody ==
  Passed /\ ~test.signal => end["kid"] # "run" /\ forker.at = "none"

(***************************************************************************)
(* The name all runs share is given back by the time a test ends, unless   *)
(* create_named_shm_obj() made the object in its last attempt, which it    *)
(* takes for a failure (vm.c 143): then nobody unlinks it, and every later *)
(* test that needs the name fails.                                         *)
(***************************************************************************)
NameGivenBack == Ended /\ shm.name = "ours" => shm.tries = Attempts

(***************************************************************************)
(* Every test ends: no wait for the other process, the pipe, the thread or *)
(* the epoch clock is for ever, except for a descriptor that a process now *)
(* gone should have sent back.                                             *)
(***************************************************************************)
TestEnds == <>(Ended \/ (At("main", "receive") /\ end["kid"] # "run"))

=============================================================================
