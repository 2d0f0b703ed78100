----------------------------- MODULE Revocation -----------------------------
(***************************************************************************)
(* The cheri_revoke_lib tests: cheriostest_cheri_revoke_lib_run() takes a  *)
(* block of memory chunk by chunk, marks the chunk in the shadow bitmap,   *)
(* revokes, looks at every capability in the block, and puts the chunk     *)
(* back.  Slot s of the block holds a capability to granule s.  Only one   *)
(* process runs at a time: whoever forks or spawns waits.                  *)
(*                                                                         *)
(* The kernel is external.  A sweep takes away every capability to a       *)
(* marked granule; while an epoch is open, loading one does.  It may also  *)
(* get things wrong, in the ways Faults names, and then bad records it:    *)
(*   missed  a capability to a marked granule survived a sweep or a load   *)
(*   over    a capability to an unmarked granule was taken away; recorded  *)
(*           as late when a separate closing sweep did it                  *)
(*   clock   the shared page and the system call disagree on the epoch, or *)
(*           a new address space does not start at epoch 0                 *)
(*   call    a system call failed                                          *)
(***************************************************************************)
EXTENDS Naturals, Sequences, FiniteSets

CONSTANTS
  N,        \* bigblock_caps
  MaxChunk, \* the largest chunk rand() gives
  Scripts,  \* the tests, as sequences of Mode, "fork" and "exec"
  Faults    \* what the kernel may get wrong

Mode == {"LOAD_ONCE", "LOAD_SPLIT", "LOAD_SPLIT_INIT", "LOAD_SPLIT_FINI"}

(***************************************************************************)
(* Whoever runs LOAD_SPLIT_INIT leaves the block marked and the epoch open *)
(* for a LOAD_SPLIT_FINI, which a forked process may run, or for nobody,   *)
(* when a new image takes over: cheriostest_vm.c 2719-2930.                *)
(***************************************************************************)
Follows(s, k) == s[k] \in {"fork", "exec", "LOAD_SPLIT_FINI"}
Paired(s) ==
  \A j, k \in 1..Len(s) :
    (/\ s[j] = "LOAD_SPLIT_INIT" /\ j < k
     /\ \A i \in (j + 1)..(k - 1) : s[i] = "fork") => Follows(s, k)

ASSUME RevocationAssumption ==
  /\ N \in Nat \ {0} /\ MaxChunk \in Nat \ {0}
  /\ \A s \in Scripts : s \in Seq(Mode \cup {"fork", "exec"}) /\ Paired(s)
  /\ Faults \subseteq {"missed", "over", "clock", "call"}

Slot == 1..N

VARIABLES
  prog,    \* what the test has still to do
  tags,    \* the slots whose capability is valid
  shadow,  \* the granules marked in the shadow bitmap
  open,    \* an epoch is open: enqueue is one ahead of dequeue
  epoch,   \* cri->epochs.dequeue
  off,     \* chunk_offset
  csz,     \* size of the chunk
  at,      \* the place in the test
  bad      \* history: what the kernel did wrong

vars == <<prog, tags, shadow, open, epoch, off, csz, at, bad>>
kernel == <<tags, shadow, open, epoch>>

mode == Head(prog)
Chunk == (off + 1)..(off + csz)

(* cheriostest_cheri_revoke_lib_init(). *)
Init ==
  /\ prog \in Scripts
  /\ tags = Slot /\ shadow = {} /\ open = FALSE /\ epoch = 0
  /\ off = 0 /\ csz = 0 /\ at = "phase" /\ bad = {}

----------------------------------------------------------------------------
(* The child of fork() goes on with a copy of everything. *)
Fork ==
  /\ at = "phase" /\ prog # <<>> /\ mode = "fork"
  /\ \/ bad' = bad /\ at' = at
     \/ "call" \in Faults /\ bad' = bad \cup {"call"} /\ at' = "failed"
  /\ prog' = Tail(prog)
  /\ UNCHANGED <<kernel, off, csz>>

(* The child function starts afresh and checks that its epochs are zero. *)
Spawned ==
  /\ at = "phase" /\ prog # <<>> /\ mode = "exec"
  /\ tags' = Slot /\ shadow' = {} /\ open' = FALSE
  /\ \/ bad' = bad /\ epoch' = 0 /\ at' = at
     \/ "clock" \in Faults /\ bad' = bad \cup {"clock"} /\ epoch' = 2 /\ at' = "failed"
     \/ "call" \in Faults /\ bad' = bad \cup {"call"} /\ epoch' = 0 /\ at' = "failed"
  /\ prog' = Tail(prog)
  /\ UNCHANGED <<off, csz>>

RunLib ==
  /\ at = "phase" /\ prog # <<>> /\ mode \in Mode
  /\ off' = 0 /\ at' = "chunk"
  /\ UNCHANGED <<kernel, prog, csz, bad>>

(* cheriostest_success() or exit(0) here, and in each process that waits. *)
TestPasses ==
  /\ at = "phase" /\ prog = <<>> /\ at' = "passed"
  /\ UNCHANGED <<kernel, prog, off, csz, bad>>

----------------------------------------------------------------------------
(* The head of the loop: choose a chunk, or leave. *)
PickChunk ==
  /\ at = "chunk" /\ off < N
  /\ csz' \in IF mode \in {"LOAD_SPLIT_INIT", "LOAD_SPLIT_FINI"} THEN {N - off}
              ELSE {k \in 1..MaxChunk : k <= N - off}
  /\ at' = IF mode = "LOAD_SPLIT_FINI" THEN "finish" ELSE "mark"
  /\ UNCHANGED <<kernel, prog, off, bad>>

LibDone ==
  /\ at = "chunk" /\ off = N
  /\ prog' = Tail(prog) /\ at' = "phase"
  /\ UNCHANGED <<kernel, off, csz, bad>>

(* caprev_shadow_nomap_set() reports bits that were set already. *)
Mark ==
  /\ at = "mark"
  /\ shadow' = shadow \cup Chunk
  /\ at' = IF shadow \cap Chunk = {} THEN "revoke" ELSE "failed"
  /\ UNCHANGED <<prog, tags, open, epoch, off, csz, bad>>

----------------------------------------------------------------------------
(* What the kernel leaves valid, given the slots it visits and what it      *)
(* should take away there; the faults it commits on the way.                *)
Visit(slots, due, left) ==
  /\ left \subseteq tags /\ tags \ slots \subseteq left
  /\ left \cap due # {} => "missed" \in Faults
  /\ tags \ (left \cup due) # {} => "over" \in Faults
Missed(due, left) == IF left \cap due # {} THEN {"missed"} ELSE {}

(* cheri_revoke(): opens an epoch if none is; the last pass sweeps memory   *)
(* and closes it.  The test compares the clocks, then goes on to next.      *)
CheriRevoke(last, next) ==
  /\ \/ ~last /\ open' = TRUE /\ UNCHANGED <<tags, epoch>>
     \/ /\ last /\ open' = FALSE /\ epoch' = epoch + 2
        /\ \E left \in SUBSET tags : Visit(Slot, shadow \cap tags, left) /\ tags' = left
  /\ LET over == IF tags \ (tags' \cup shadow) = {} THEN {}
                 ELSE IF at = "finish" THEN {"late"} ELSE {"over"}
         seen == bad \cup Missed(IF last THEN shadow ELSE {}, tags') \cup over
     IN \/ bad' = seen /\ at' = next
        \/ "clock" \in Faults /\ bad' = seen \cup {"clock"} /\ at' = "failed"
        \/ "call" \in Faults /\ bad' = seen \cup {"call"} /\ at' = "failed"
  /\ UNCHANGED <<prog, shadow, off, csz>>

Revoke == at = "revoke" /\ CheriRevoke(mode = "LOAD_ONCE", "around")

(* Loading the slots in turn; an open epoch revokes what is marked. *)
LoadSlots(slots) ==
  LET due == IF open THEN slots \cap shadow \cap tags ELSE {}
      (* while an epoch is open each slot loaded is a visit *)
      visited == IF open THEN slots ELSE {}
  IN \E left \in SUBSET tags :
       /\ Visit(visited, due, left)
       /\ tags' = left
       /\ bad' = bad \cup Missed(due, left)
                 \cup IF tags \ (left \cup due) # {} THEN {"over"} ELSE {}

(* Mutant: only the slots below the chunk are looked at. *)
CheckAroundBelow ==
  /\ at = "around"
  /\ LoadSlots(1..off)
  /\ at' = IF 1..off \subseteq tags' THEN "check" ELSE "failed"
  /\ UNCHANGED <<prog, shadow, open, epoch, off, csz>>

(* "Check the surroundings": nothing outside the chunk was revoked. *)
CheckAround ==
  /\ at = "around"
  /\ LoadSlots(Slot \ Chunk)
  /\ at' = IF Slot \ Chunk \subseteq tags' THEN "check" ELSE "failed"
  /\ UNCHANGED <<prog, shadow, open, epoch, off, csz>>

(* Everything in the chunk was; then on by mode.  INIT returns here. *)
CheckChunk ==
  /\ at = "check"
  /\ LoadSlots(Chunk)
  /\ at' = IF Chunk \cap tags' # {} THEN "failed"
           ELSE CASE mode = "LOAD_SPLIT_INIT" -> "phase"
                  [] mode = "LOAD_SPLIT"      -> "finish"
                  [] OTHER                    -> "clear"
  /\ prog' = IF at' = "phase" THEN Tail(prog) ELSE prog
  /\ UNCHANGED <<shadow, open, epoch, off, csz>>

Finish == at = "finish" /\ CheriRevoke(TRUE, "clear")

----------------------------------------------------------------------------
(* Mutant: the bits of the chunk stay set. *)
RestoreUncleared ==
  /\ at = "clear"
  /\ shadow' = shadow /\ tags' = tags \cup Chunk
  /\ off' = off + csz /\ at' = "chunk"
  /\ UNCHANGED <<prog, open, epoch, csz, bad>>

(* Clear the bits, then put fresh capabilities back. *)
Restore ==
  /\ at = "clear"
  /\ shadow' = shadow \ Chunk /\ tags' = tags \cup Chunk
  /\ off' = off + csz /\ at' = "chunk"
  /\ UNCHANGED <<prog, open, epoch, csz, bad>>

Over == at \in {"passed", "failed"} /\ UNCHANGED vars

Next == \/ Fork \/ Spawned \/ RunLib \/ TestPasses \/ PickChunk \/ LibDone
        \/ Mark \/ Revoke \/ CheckAround \/ CheckChunk \/ Finish \/ Restore
        \/ Over

Spec == Init /\ [][Next]_vars

----------------------------------------------------------------------------
(***************************************************************************)
(* A kernel that does nothing wrong is never reported: marks, epochs and   *)
(* capabilities put back for one chunk, phase or process never disturb the *)
(* checks of the next.  Code: cheriostest_vm.c 2546-2696.                  *)
(***************************************************************************)
NoFalseAlarm == at = "failed" => bad # {}

(***************************************************************************)
(* The test passes only if the kernel did nothing wrong, or took away too  *)
(* much in a closing sweep: what that does to the next chunk or after the  *)
(* last one is not looked at.  Code: the checks, cheriostest_vm.c          *)
(* 2610-2682.                                                              *)
(***************************************************************************)
FaultsAreSeen == at = "passed" => bad \subseteq {"late"}

=============================================================================
