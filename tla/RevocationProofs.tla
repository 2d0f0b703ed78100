-------------------------- MODULE RevocationProofs --------------------------
(***************************************************************************)
(* The revocation tests tell a right kernel from a wrong one, whatever the *)
(* size of the block, the chunks rand() chooses and the order of the       *)
(* phases, as long as every LOAD_SPLIT_INIT is followed up.                *)
(***************************************************************************)
EXTENDS Revocation, TLAPS

Step == Mode \cup {"fork", "exec"}

(* Nobody but a LOAD_SPLIT_FINI touches the block before a new image does. *)
FollowedUp(q) ==
  \A k \in 1..Len(q) : (\A i \in 1..(k - 1) : q[i] = "fork") => Follows(q, k)

Clean    == shadow = {}
HalfDone == shadow = Slot /\ tags = {}   \* between INIT and FINI

InLib   == at \in {"chunk", "mark", "revoke", "around", "check", "finish", "clear"}
InChunk == InLib /\ at # "chunk"

Places ==
  /\ prog \in Seq(Step) /\ Paired(prog)
  /\ tags \subseteq Slot /\ shadow \subseteq Slot
  /\ off \in 0..N /\ csz \in Nat
  /\ at \in {"phase", "chunk", "mark", "revoke", "around", "check", "finish", "clear",
            "passed", "failed"}
  /\ InLib => prog # <<>> /\ mode \in Mode
  /\ InChunk => csz > 0 /\ off + csz <= N
  /\ (InLib /\ mode = "LOAD_SPLIT_INIT") => off = 0
  /\ (InChunk /\ mode = "LOAD_SPLIT_INIT") => csz = N

(***************************************************************************)
(* The marks: what is marked when the block is looked at is the chunk, and *)
(* between chunks, phases and processes nothing is, but for the block that *)
(* LOAD_SPLIT_INIT leaves to LOAD_SPLIT_FINI.                              *)
(***************************************************************************)
Marks ==
  /\ at = "phase" => Clean \/ (HalfDone /\ FollowedUp(prog))
  /\ at = "chunk" => Clean \/ (HalfDone /\ mode = "LOAD_SPLIT_FINI" /\ off = 0)
  /\ at = "mark" => Clean
  /\ at \in {"mark", "revoke", "around", "check"} => mode # "LOAD_SPLIT_FINI"
  /\ at \in {"revoke", "around", "check"} => shadow = Chunk
  /\ at \in {"around", "check"} => open = (mode # "LOAD_ONCE")
  /\ at \in {"finish", "clear"} => /\ mode # "LOAD_SPLIT_INIT"
                                   /\ shadow \subseteq Chunk /\ shadow \cap tags = {}

(* What a kernel without a fault leaves valid. *)
RightTags ==
  bad = {} =>
    /\ at # "failed"
    /\ (at \in {"phase", "chunk"} /\ Clean) => tags = Slot
    /\ at \in {"mark", "revoke"} => tags = Slot
    /\ at \in {"around", "check", "finish", "clear"} => Slot \ Chunk \subseteq tags
    /\ (at \in {"around", "check"} /\ mode = "LOAD_ONCE") => tags \cap Chunk = {}

(***************************************************************************)
(* Faults that have not been noticed yet: a sweep's, until the block has   *)
(* been looked at, which does not change it as the epoch is closed.        *)
(***************************************************************************)
Unnoticed ==
  /\ at \notin {"failed", "around", "check"} => bad \subseteq {"late"}
  /\ at = "around" => bad \subseteq {"late", "missed", "over"}
  /\ at = "check" => bad \subseteq {"late", "missed"}
  /\ (at = "around" /\ "over" \in bad) => mode = "LOAD_ONCE" /\ ~(Slot \ Chunk \subseteq tags)
  /\ (at \in {"around", "check"} /\ "missed" \in bad) =>
       mode = "LOAD_ONCE" /\ Chunk \cap tags # {}

RevInv == Places /\ Marks /\ RightTags /\ Unnoticed

----------------------------------------------------------------------------
(* The scripts. *)

(* What is left of a script is a script. *)
LEMMA TailSteps ==
  ASSUME NEW q \in Seq(Step), q # <<>>
  PROVE  /\ Tail(q) \in Seq(Step) /\ Len(q) \in Nat /\ Len(q) >= 1
         /\ Len(Tail(q)) = Len(q) - 1
         /\ \A k \in 1..Len(Tail(q)) : k + 1 \in 1..Len(q) /\ Tail(q)[k] = q[k + 1]
         /\ Head(q) = q[1] /\ Head(q) \in Step
  OBVIOUS

LEMMA TailPaired ==
  ASSUME NEW q \in Seq(Step), q # <<>>, Paired(q)
  PROVE  Paired(Tail(q))
<1> DEFINE r == Tail(q)
<1>1. /\ Len(q) \in Nat /\ Len(r) \in Nat
      /\ \A k \in 1..Len(r) : k + 1 \in 1..Len(q) /\ r[k] = q[k + 1]
  BY TailSteps
<1> SUFFICES ASSUME NEW j \in 1..Len(r), NEW k \in 1..Len(r),
                    r[j] = "LOAD_SPLIT_INIT", j < k,
                    \A i \in (j + 1)..(k - 1) : r[i] = "fork"
             PROVE  Follows(r, k)
  BY DEF Paired
<1> HIDE DEF r
<1>2. /\ j + 1 \in 1..Len(q) /\ k + 1 \in 1..Len(q) /\ j + 1 < k + 1
      /\ q[j + 1] = "LOAD_SPLIT_INIT" /\ r[k] = q[k + 1]
  BY <1>1
<1>3. ASSUME NEW i \in ((j + 1) + 1)..((k + 1) - 1) PROVE q[i] = "fork"
  <2>1. /\ i - 1 \in (j + 1)..(k - 1) /\ i - 1 \in 1..Len(r) /\ (i - 1) + 1 = i
    BY <1>1
  <2> QED BY <1>1, <2>1
<1>4. Follows(q, k + 1)
  BY <1>2, <1>3 DEF Paired
<1> QED BY <1>2, <1>4 DEF Follows

LEMMA InitFollowed ==
  ASSUME NEW q \in Seq(Step), q # <<>>, Paired(q), Head(q) = "LOAD_SPLIT_INIT"
  PROVE  FollowedUp(Tail(q))
<1> DEFINE r == Tail(q)
<1>1. /\ Len(q) \in Nat /\ Len(q) >= 1 /\ Len(r) \in Nat /\ Head(q) = q[1]
      /\ \A k \in 1..Len(r) : k + 1 \in 1..Len(q) /\ r[k] = q[k + 1]
  BY TailSteps
<1> SUFFICES ASSUME NEW k \in 1..Len(r), \A i \in 1..(k - 1) : r[i] = "fork"
             PROVE  Follows(r, k)
  BY DEF FollowedUp
<1> HIDE DEF r
<1>2. /\ 1 \in 1..Len(q) /\ k + 1 \in 1..Len(q) /\ 1 < k + 1
      /\ q[1] = "LOAD_SPLIT_INIT" /\ r[k] = q[k + 1]
  BY <1>1
<1>3. ASSUME NEW i \in (1 + 1)..((k + 1) - 1) PROVE q[i] = "fork"
  <2>1. /\ i - 1 \in 1..(k - 1) /\ i - 1 \in 1..Len(r) /\ (i - 1) + 1 = i
    BY <1>1
  <2> QED BY <1>1, <2>1
<1>4. Follows(q, k + 1)
  BY <1>2, <1>3 DEF Paired
<1> QED BY <1>2, <1>4 DEF Follows

LEMMA ForkFollowed ==
  ASSUME NEW q \in Seq(Step), q # <<>>, FollowedUp(q)
  PROVE  /\ Head(q) \in {"fork", "exec", "LOAD_SPLIT_FINI"}
         /\ Head(q) = "fork" => FollowedUp(Tail(q))
<1> DEFINE r == Tail(q)
<1>1. /\ Len(q) \in Nat /\ Len(q) >= 1 /\ Len(r) \in Nat /\ Head(q) = q[1]
      /\ \A k \in 1..Len(r) : k + 1 \in 1..Len(q) /\ r[k] = q[k + 1]
  BY TailSteps
<1>2. Follows(q, 1)
  BY <1>1 DEF FollowedUp
<1>3. ASSUME Head(q) = "fork", NEW k \in 1..Len(r),
             \A i \in 1..(k - 1) : r[i] = "fork"
      PROVE  Follows(r, k)
  <2> HIDE DEF r
  <2>1. ASSUME NEW i \in 1..((k + 1) - 1) PROVE q[i] = "fork"
    <3>1. CASE i = 1
      BY <1>1, <1>3, <3>1
    <3>2. CASE i # 1
      <4>1. /\ i - 1 \in 1..(k - 1) /\ i - 1 \in 1..Len(r) /\ (i - 1) + 1 = i
        BY <1>1, <3>2
      <4> QED BY <1>1, <1>3, <4>1
    <3> QED BY <3>1, <3>2
  <2>2. k + 1 \in 1..Len(q) /\ r[k] = q[k + 1]
    BY <1>1
  <2>3. Follows(q, k + 1)
    BY <2>1, <2>2 DEF FollowedUp
  <2> QED BY <2>2, <2>3 DEF Follows
<1> QED BY <1>1, <1>2, <1>3 DEF FollowedUp, Follows

----------------------------------------------------------------------------
LEMMA ChunkFacts ==
  ASSUME Places, InChunk
  PROVE  /\ Chunk \subseteq Slot
         /\ (mode = "LOAD_SPLIT_INIT" \/ (off = 0 /\ csz = N)) => Chunk = Slot
BY RevocationAssumption DEF Places, InChunk, InLib, Chunk, Slot

LEMMA RevInit == Init => RevInv
<1> SUFFICES ASSUME Init PROVE RevInv
  OBVIOUS
<1>1. /\ prog \in Seq(Step) /\ Paired(prog) /\ N \in Nat
      /\ tags = Slot /\ shadow = {} /\ off = 0 /\ csz = 0 /\ at = "phase" /\ bad = {}
  BY RevocationAssumption DEF Init, Step
<1> QED BY <1>1 DEF RevInv, Places, InLib, InChunk, Marks, Clean, RightTags, Unnoticed

(* Starting a phase, a process or a chunk, and ending them. *)
LEMMA StartSteps ==
  ASSUME RevInv, Fork \/ Spawned \/ RunLib \/ TestPasses \/ PickChunk \/ LibDone
  PROVE  RevInv'
<1>0. Places /\ Marks /\ RightTags /\ Unnoticed /\ N \in Nat \ {0}
  BY RevocationAssumption DEF RevInv
<1>t. prog # <<>> => /\ Tail(prog) \in Seq(Step) /\ Paired(Tail(prog))
                     /\ mode \in Step
  BY <1>0, TailSteps, TailPaired DEF Places, mode
<1>f. (prog # <<>> /\ FollowedUp(prog)) =>
        /\ mode \in {"fork", "exec", "LOAD_SPLIT_FINI"}
        /\ mode = "fork" => FollowedUp(Tail(prog))
  BY <1>0, ForkFollowed DEF Places, mode
<1>1. CASE Fork
  <2>1. /\ at = "phase" /\ prog # <<>> /\ mode = "fork" /\ prog' = Tail(prog)
        /\ UNCHANGED <<tags, shadow, open, off, csz>>
        /\ (at' = "phase" /\ bad' = bad) \/ (at' = "failed" /\ bad' # {})
    BY <1>1 DEF Fork, kernel
  <2>2. Places'
    BY <1>0, <1>t, <2>1 DEF Places, InLib, InChunk
  <2>3. Marks' /\ RightTags' /\ Unnoticed'
    BY <1>0, <1>f, <2>1 DEF Marks, Clean, HalfDone, RightTags, Unnoticed
  <2> QED BY <2>2, <2>3 DEF RevInv
<1>2. CASE Spawned
  <2>1. /\ at = "phase" /\ prog # <<>> /\ prog' = Tail(prog)
        /\ tags' = Slot /\ shadow' = {} /\ UNCHANGED <<off, csz>>
        /\ (at' = "phase" /\ bad' = bad) \/ (at' = "failed" /\ bad' # {})
    BY <1>2 DEF Spawned
  <2>2. Places'
    BY <1>0, <1>t, <2>1 DEF Places, InLib, InChunk
  <2>3. Marks' /\ RightTags' /\ Unnoticed'
    BY <1>0, <2>1 DEF Marks, Clean, RightTags, Unnoticed
  <2> QED BY <2>2, <2>3 DEF RevInv
<1>3. CASE RunLib
  <2>1. /\ at = "phase" /\ prog # <<>> /\ mode \in Mode /\ mode' = mode
        /\ off' = 0 /\ at' = "chunk"
        /\ UNCHANGED <<tags, shadow, open, prog, csz, bad>>
    BY <1>3 DEF RunLib, kernel, mode
  <2>2. Places'
    BY <1>0, <2>1 DEF Places, InLib, InChunk
  <2>3. Marks'
    BY <1>0, <1>f, <2>1 DEF Marks, Clean, HalfDone, Mode
  <2>4. RightTags' /\ Unnoticed'
    BY <1>0, <2>1 DEF RightTags, Unnoticed, Clean
  <2> QED BY <2>2, <2>3, <2>4 DEF RevInv
<1>4. CASE TestPasses
  <2>1. /\ at = "phase" /\ at' = "passed"
        /\ UNCHANGED <<tags, shadow, open, prog, off, csz, bad>>
    BY <1>4 DEF TestPasses, kernel
  <2> QED BY <1>0, <2>1 DEF RevInv, Places, InLib, InChunk, Marks, RightTags, Unnoticed
<1>5. CASE PickChunk
  <2>1. /\ at = "chunk" /\ off < N /\ mode' = mode
        /\ UNCHANGED <<tags, shadow, open, prog, off, bad>>
        /\ at' = IF mode = "LOAD_SPLIT_FINI" THEN "finish" ELSE "mark"
    BY <1>5 DEF PickChunk, kernel, mode
  <2>z. /\ off \in Nat /\ off < N
        /\ csz' \in Nat /\ csz' > 0 /\ off + csz' <= N
        /\ mode \in {"LOAD_SPLIT_INIT", "LOAD_SPLIT_FINI"} => csz' = N - off
    <3>1. off \in Nat /\ off < N /\ MaxChunk \in Nat
      BY <1>0, <2>1, RevocationAssumption DEF Places
    <3>2. \/ csz' = N - off
          \/ /\ mode \notin {"LOAD_SPLIT_INIT", "LOAD_SPLIT_FINI"}
             /\ csz' \in 1..MaxChunk /\ csz' <= N - off
      BY <1>5 DEF PickChunk
    <3> HIDE DEF mode
    <3> QED BY <1>0, <3>1, <3>2
  <2>2. Places'
    <3>1. prog # <<>> /\ mode \in Mode /\ (mode = "LOAD_SPLIT_INIT" => off = 0)
      BY <1>0, <2>1 DEF Places, InLib
    <3>2. mode = "LOAD_SPLIT_INIT" => csz' = N
      <4> HIDE DEF mode
      <4> QED BY <3>1, <2>z, <1>0
    <3>3. at' \in {"finish", "mark"}
      BY <2>1
    <3> QED BY <1>0, <2>1, <2>z, <3>1, <3>2, <3>3 DEF Places
  <2>3. /\ InChunk' /\ Chunk' \subseteq Slot
        /\ (mode = "LOAD_SPLIT_FINI" /\ off = 0) => Chunk' = Slot
    <3>1. InChunk'
      BY <2>1 DEF InChunk, InLib
    <3>2. Chunk' = (off + 1)..(off + csz')
      BY <2>1 DEF Chunk
    <3>3. ASSUME NEW k \in (off + 1)..(off + csz') PROVE k \in 1..N
      <4> DEFINE c == csz'
      <4>1. off \in Nat /\ c \in Nat /\ off + c <= N /\ N \in Nat /\ k \in (off + 1)..(off + c)
        BY <2>z, <1>0, <3>3
      <4> HIDE DEF c
      <4> QED BY <4>1
    <3>4. ASSUME mode = "LOAD_SPLIT_FINI", off = 0 PROVE Chunk' = Slot
      <4>1. csz' = N /\ off + 1 = 1 /\ off + csz' = N
        BY <2>z, <3>4, <1>0
      <4> QED BY <3>2, <4>1 DEF Slot
    <3> QED BY <3>1, <3>2, <3>3, <3>4 DEF Slot
  <2>4. Marks'
    BY <1>0, <2>1, <2>3 DEF Marks, Clean, HalfDone
  <2>5. RightTags'
    BY <1>0, <2>1, <2>3 DEF RightTags, Marks, Clean, HalfDone
  <2>6. Unnoticed'
    BY <1>0, <2>1 DEF Unnoticed
  <2> QED BY <2>2, <2>4, <2>5, <2>6 DEF RevInv
<1>6. CASE LibDone
  <2>1. /\ at = "chunk" /\ off = N /\ prog' = Tail(prog) /\ at' = "phase"
        /\ UNCHANGED <<tags, shadow, open, off, csz, bad>> /\ prog # <<>>
    BY <1>0, <1>6 DEF LibDone, kernel, Places, InLib
  <2>2. Places'
    BY <1>0, <1>t, <2>1 DEF Places, InLib, InChunk
  <2>3. Clean
    BY <1>0, <2>1 DEF Marks
  <2>4. Marks' /\ RightTags' /\ Unnoticed'
    BY <1>0, <2>1, <2>3 DEF Marks, RightTags, Unnoticed, Clean
  <2> QED BY <2>2, <2>4 DEF RevInv
<1> QED BY <1>1, <1>2, <1>3, <1>4, <1>5, <1>6

(* Marking a chunk, and putting it back. *)
LEMMA MarkSteps ==
  ASSUME RevInv, Mark \/ Restore
  PROVE  RevInv'
<1>0. Places /\ Marks /\ RightTags /\ Unnoticed /\ N \in Nat \ {0}
  BY RevocationAssumption DEF RevInv
<1>c. /\ Chunk \subseteq Slot
      /\ InChunk /\ off \in Nat /\ csz \in Nat /\ csz > 0 /\ off + csz <= N
      /\ mode \in Mode
  BY <1>0, ChunkFacts DEF Mark, Restore, Places, InChunk, InLib
<1>1. CASE Mark
  <2>1. /\ at = "mark" /\ shadow' = shadow \cup Chunk /\ shadow = {}
        /\ at' = "revoke" /\ mode' = mode /\ Chunk' = Chunk
        /\ UNCHANGED <<prog, tags, open, off, csz, bad>>
    BY <1>0, <1>1 DEF Mark, Marks, Clean, mode, Chunk
  <2>2. Places'
    BY <1>0, <1>c, <2>1 DEF Places, InLib, InChunk
  <2>3. Marks' /\ RightTags' /\ Unnoticed'
    BY <1>0, <2>1 DEF Marks, RightTags, Unnoticed
  <2> QED BY <2>2, <2>3 DEF RevInv
<1>2. CASE Restore
  <2>1. /\ at = "clear" /\ shadow' = shadow \ Chunk /\ tags' = tags \cup Chunk
        /\ off' = off + csz /\ at' = "chunk" /\ mode' = mode
        /\ UNCHANGED <<prog, open, csz, bad>>
    BY <1>2 DEF Restore, mode
  <2>2. mode # "LOAD_SPLIT_INIT"
    BY <1>0, <2>1 DEF Marks
  <2>3. Places'
    <3>1. off' \in 0..N
      BY <1>0, <1>c, <2>1
    <3> QED BY <1>0, <1>c, <2>1, <2>2, <3>1 DEF Places, InLib, InChunk
  <2>4. shadow' = {}
    BY <1>0, <2>1 DEF Marks
  <2>5. Marks' /\ Unnoticed'
    BY <1>0, <2>1, <2>4 DEF Marks, Unnoticed, Clean
  <2>6. RightTags'
    BY <1>0, <1>c, <2>1, <2>4 DEF RightTags, Places
  <2> QED BY <2>3, <2>5, <2>6 DEF RevInv
<1> QED BY <1>1, <1>2

(* cheri_revoke(): what it leaves and what is recorded. *)
LEMMA CheriRevokes ==
  ASSUME NEW last \in BOOLEAN, NEW next, CheriRevoke(last, next)
  PROVE  /\ UNCHANGED <<prog, shadow, off, csz>> /\ tags' \subseteq tags
         /\ mode' = mode /\ Chunk' = Chunk
         /\ ~last => open' = TRUE /\ tags' = tags
         /\ last => open' = FALSE
         /\ \/ at' = "failed" /\ bad' # {}
            \/ /\ at' = next
               /\ bad' = bad \cup Missed(IF last THEN shadow ELSE {}, tags')
                         \cup IF tags \ (tags' \cup shadow) = {} THEN {}
                              ELSE IF at = "finish" THEN {"late"} ELSE {"over"}
BY DEF CheriRevoke, Visit, mode, Chunk

(* Loading slots: only an open epoch changes anything, and only there. *)
LEMMA SlotsLoaded ==
  ASSUME NEW slots \in SUBSET Slot, LoadSlots(slots)
  PROVE  /\ tags' \subseteq tags /\ tags \ slots \subseteq tags'
         /\ ~open => tags' = tags /\ bad' = bad
         /\ open => bad' = bad \cup Missed(slots \cap shadow \cap tags, tags')
                           \cup IF tags \ (tags' \cup (slots \cap shadow \cap tags)) # {}
                                THEN {"over"} ELSE {}
BY DEF LoadSlots, Visit, Missed

(* Sweeps, and looking at the block afterwards. *)
LEMMA KernelSteps ==
  ASSUME RevInv, Revoke \/ CheckAround \/ CheckChunk \/ Finish
  PROVE  RevInv'
<1>0. Places /\ Marks /\ RightTags /\ Unnoticed
  BY DEF RevInv
<1>c. /\ Chunk \subseteq Slot /\ tags \subseteq Slot
      /\ mode = "LOAD_SPLIT_INIT" => Chunk = Slot
      /\ InChunk /\ prog # <<>> /\ mode \in Mode
  BY <1>0, ChunkFacts DEF Revoke, CheckAround, CheckChunk, Finish, Places, InChunk, InLib
<1>t. Tail(prog) \in Seq(Step) /\ Paired(Tail(prog))
  BY <1>0, <1>c, TailSteps, TailPaired DEF Places
<1>p. ASSUME UNCHANGED <<prog, shadow, off, csz>>, mode' = mode, tags' \subseteq tags,
             at' \in {"around", "check", "finish", "clear", "failed"}
      PROVE  Places'
  BY <1>0, <1>c, <1>p DEF Places, InLib, InChunk
<1>1. CASE Revoke
  <2>1. at = "revoke" /\ CheriRevoke(mode = "LOAD_ONCE", "around")
    BY <1>1 DEF Revoke
  <2>2. /\ UNCHANGED <<prog, shadow, off, csz>> /\ tags' \subseteq tags
        /\ mode' = mode /\ Chunk' = Chunk /\ shadow = Chunk
        /\ mode # "LOAD_ONCE" => open' = TRUE /\ tags' = tags
        /\ mode = "LOAD_ONCE" => open' = FALSE
        /\ \/ at' = "failed" /\ bad' # {}
           \/ /\ at' = "around"
              /\ bad' = bad \cup Missed(IF mode = "LOAD_ONCE" THEN shadow ELSE {}, tags')
                        \cup IF tags \ (tags' \cup shadow) = {} THEN {} ELSE {"over"}
    BY <1>0, <2>1, CheriRevokes DEF Marks
  <2>3. Places'
    BY <2>2, <1>p
  <2>4. CASE at' = "failed" /\ bad' # {}
    BY <2>3, <2>4 DEF RevInv, Marks, RightTags, Unnoticed
  <2>5. CASE at' = "around" /\ bad' = bad
                \cup Missed(IF mode = "LOAD_ONCE" THEN shadow ELSE {}, tags')
                \cup IF tags \ (tags' \cup shadow) = {} THEN {} ELSE {"over"}
    <3>1. Marks'
      BY <1>0, <2>1, <2>2, <2>5 DEF Marks
    <3>2. RightTags'
      <4>1. bad' = {} => /\ bad = {} /\ tags \ Chunk \subseteq tags'
                         /\ mode = "LOAD_ONCE" => Chunk \cap tags' = {}
        BY <2>2, <2>5 DEF Missed
      <4> QED BY <1>0, <2>1, <2>2, <2>5, <4>1 DEF RightTags
    <3>3. Unnoticed'
      <4>1. bad \subseteq {"late"} /\ "missed" \notin bad /\ "over" \notin bad
        BY <1>0, <2>1 DEF Unnoticed
      <4>2. /\ bad' \subseteq {"late", "missed", "over"}
            /\ "missed" \in bad' => mode = "LOAD_ONCE" /\ Chunk \cap tags' # {}
        BY <2>2, <2>5, <4>1 DEF Missed
      <4>3. "over" \in bad' => tags \ (tags' \cup Chunk) # {}
        BY <2>2, <2>5, <4>1 DEF Missed
      <4>4. "over" \in bad' => mode = "LOAD_ONCE" /\ ~(Slot \ Chunk \subseteq tags')
        BY <1>c, <2>2, <4>3
      <4> QED BY <2>2, <2>5, <4>2, <4>4 DEF Unnoticed
    <3> QED BY <2>3, <3>1, <3>2, <3>3 DEF RevInv
  <2> QED BY <2>2, <2>4, <2>5
<1>2. CASE CheckAround
  <2>1. /\ at = "around" /\ LoadSlots(Slot \ Chunk)
        /\ at' = IF Slot \ Chunk \subseteq tags' THEN "check" ELSE "failed"
        /\ UNCHANGED <<prog, shadow, open, off, csz>> /\ mode' = mode /\ Chunk' = Chunk
        /\ shadow = Chunk /\ open = (mode # "LOAD_ONCE")
    BY <1>0, <1>2 DEF CheckAround, mode, Chunk, Marks
  <2>2. /\ tags' \subseteq tags /\ tags \cap Chunk \subseteq tags'
        /\ mode = "LOAD_ONCE" => tags' = tags /\ bad' = bad
        /\ mode # "LOAD_ONCE" =>
             bad' = bad \cup IF tags \ tags' # {} THEN {"over"} ELSE {}
    <3>1. Slot \ Chunk \in SUBSET Slot
      OBVIOUS
    <3>2. /\ tags' \subseteq tags /\ tags \ (Slot \ Chunk) \subseteq tags'
          /\ ~open => tags' = tags /\ bad' = bad
          /\ open => bad' = bad \cup Missed((Slot \ Chunk) \cap shadow \cap tags, tags')
                    \cup IF tags \ (tags' \cup ((Slot \ Chunk) \cap shadow \cap tags)) # {}
                         THEN {"over"} ELSE {}
      BY <2>1, <3>1, SlotsLoaded
    <3>3. (Slot \ Chunk) \cap shadow \cap tags = {}
      BY <2>1
    <3> QED BY <2>1, <3>2, <3>3 DEF Missed
  <2>3. Places'
    BY <2>1, <2>2, <1>p
  <2>4. Marks'
    BY <1>0, <2>1 DEF Marks
  <2>5. RightTags'
    <3>1. bad' = {} => bad = {} /\ tags' = tags
      BY <2>2
    <3> QED BY <1>0, <2>1, <3>1 DEF RightTags
  <2>6. Unnoticed'
    <3>1. CASE mode = "LOAD_ONCE"
      BY <1>0, <2>1, <2>2, <3>1 DEF Unnoticed
    <3>2. CASE mode # "LOAD_ONCE"
      <4>1. bad \subseteq {"late"} /\ "missed" \notin bad
        BY <1>0, <2>1, <3>2 DEF Unnoticed
      <4>2. tags' # tags => ~(Slot \ Chunk \subseteq tags')
        BY <1>c, <2>2
      <4>3. at' = "check" => bad' = bad
        BY <2>1, <2>2, <3>2, <4>2
      <4> QED BY <2>1, <4>1, <4>3 DEF Unnoticed
    <3> QED BY <3>1, <3>2
  <2> QED BY <2>3, <2>4, <2>5, <2>6 DEF RevInv
<1>3. CASE CheckChunk
  <2>1. /\ at = "check" /\ LoadSlots(Chunk)
        /\ at' = IF Chunk \cap tags' # {} THEN "failed"
                 ELSE CASE mode = "LOAD_SPLIT_INIT" -> "phase"
                        [] mode = "LOAD_SPLIT"      -> "finish"
                        [] OTHER                    -> "clear"
        /\ prog' = IF at' = "phase" THEN Tail(prog) ELSE prog
        /\ UNCHANGED <<shadow, open, off, csz>> /\ Chunk' = Chunk
        /\ shadow = Chunk /\ open = (mode # "LOAD_ONCE") /\ mode # "LOAD_SPLIT_FINI"
    BY <1>0, <1>3 DEF CheckChunk, Chunk, Marks
  <2>2. /\ tags' \subseteq tags /\ tags \ Chunk \subseteq tags'
        /\ mode = "LOAD_ONCE" => tags' = tags /\ bad' = bad
        /\ mode # "LOAD_ONCE" => bad' = bad \cup Missed(Chunk \cap tags, tags')
    <3>1. /\ tags' \subseteq tags /\ tags \ Chunk \subseteq tags'
          /\ ~open => tags' = tags /\ bad' = bad
          /\ open => bad' = bad \cup Missed(Chunk \cap shadow \cap tags, tags')
                    \cup IF tags \ (tags' \cup (Chunk \cap shadow \cap tags)) # {}
                         THEN {"over"} ELSE {}
      BY <1>c, <2>1, SlotsLoaded
    <3>2. Chunk \cap shadow \cap tags = Chunk \cap tags
      BY <2>1
    <3>3. tags \ (tags' \cup (Chunk \cap tags)) = {}
      BY <3>1
    <3> QED BY <2>1, <3>1, <3>2, <3>3
  <2>3. CASE Chunk \cap tags' # {}
    <3>1. at' = "failed" /\ prog' = prog /\ mode' = mode
      BY <2>1, <2>3 DEF mode
    <3>2. bad' # {}
      <4>1. CASE mode = "LOAD_ONCE"
        BY <1>0, <2>1, <2>2, <2>3, <4>1 DEF RightTags
      <4>2. CASE mode # "LOAD_ONCE"
        BY <2>2, <2>3, <4>2 DEF Missed
      <4> QED BY <4>1, <4>2
    <3>3. Places'
      BY <1>p, <2>1, <2>2, <3>1
    <3> QED BY <3>1, <3>2, <3>3 DEF RevInv, Marks, RightTags, Unnoticed
  <2>4. CASE Chunk \cap tags' = {}
    <3>1. bad' = bad /\ bad \subseteq {"late"}
      <4>1. bad' = bad
        BY <2>2, <2>4 DEF Missed
      <4>2. "missed" \in bad => mode = "LOAD_ONCE" /\ Chunk \cap tags # {}
        BY <1>0, <2>1 DEF Unnoticed
      <4>3. "missed" \notin bad
        BY <2>2, <2>4, <4>2
      <4> QED BY <1>0, <2>1, <4>1, <4>3 DEF Unnoticed
    <3>2. bad = {} => Slot \ Chunk \subseteq tags'
      BY <1>0, <2>1, <2>2 DEF RightTags
    <3>3. CASE mode = "LOAD_SPLIT_INIT"
      <4>1. at' = "phase" /\ prog' = Tail(prog)
        BY <2>1, <2>4, <3>3
      <4>2. shadow' = Slot /\ tags' = {} /\ Slot # {}
        <5>1. 1 \in Slot
          BY RevocationAssumption DEF Slot
        <5> QED BY <1>c, <2>1, <2>2, <2>4, <3>3, <5>1
      <4>3. FollowedUp(Tail(prog))
        BY <1>0, <1>c, <3>3, InitFollowed DEF Places, mode
      <4>4. Places'
        BY <1>0, <1>t, <2>1, <2>2, <4>1 DEF Places, InLib, InChunk
      <4>5. Marks' /\ RightTags' /\ Unnoticed'
        BY <3>1, <4>1, <4>2, <4>3 DEF Marks, HalfDone, Clean, RightTags, Unnoticed
      <4> QED BY <4>4, <4>5 DEF RevInv
    <3>4. CASE mode # "LOAD_SPLIT_INIT"
      <4>1. at' \in {"finish", "clear"} /\ prog' = prog /\ mode' = mode
        BY <2>1, <2>4, <3>4 DEF mode
      <4>2. Places'
        BY <1>p, <2>1, <2>2, <4>1
      <4>3. Marks'
        BY <2>1, <2>4, <3>4, <4>1 DEF Marks
      <4>4. RightTags' /\ Unnoticed'
        BY <2>1, <3>1, <3>2, <4>1 DEF RightTags, Unnoticed
      <4> QED BY <4>2, <4>3, <4>4 DEF RevInv
    <3> QED BY <3>3, <3>4
  <2> QED BY <2>3, <2>4
<1>4. CASE Finish
  <2>1. at = "finish" /\ CheriRevoke(TRUE, "clear")
    BY <1>4 DEF Finish
  <2>2. /\ UNCHANGED <<prog, shadow, off, csz>> /\ tags' \subseteq tags
        /\ mode' = mode /\ Chunk' = Chunk
        /\ \/ at' = "failed" /\ bad' # {}
           \/ /\ at' = "clear"
              /\ bad' = bad \cup Missed(shadow, tags')
                        \cup IF tags \ (tags' \cup shadow) = {} THEN {} ELSE {"late"}
    BY <2>1, CheriRevokes
  <2>3. Places'
    BY <2>2, <1>p
  <2>4. CASE at' = "failed" /\ bad' # {}
    BY <2>3, <2>4 DEF RevInv, Marks, RightTags, Unnoticed
  <2>5. CASE at' = "clear"
    <3>1. /\ mode # "LOAD_SPLIT_INIT"
          /\ shadow \subseteq Chunk /\ shadow \cap tags = {}
      BY <1>0, <2>1 DEF Marks
    <3>2. /\ shadow \cap tags' = {}
          /\ bad' = bad \cup IF tags \ (tags' \cup shadow) = {} THEN {} ELSE {"late"}
      BY <2>2, <2>5, <3>1 DEF Missed
    <3>3. Marks'
      BY <2>2, <2>5, <3>1, <3>2 DEF Marks
    <3>4. RightTags'
      <4>1. bad' = {} => bad = {} /\ tags \ shadow \subseteq tags'
        BY <3>2
      <4> QED BY <1>0, <2>1, <2>2, <2>5, <3>1, <4>1 DEF RightTags
    <3>5. Unnoticed'
      BY <1>0, <2>1, <2>5, <3>2 DEF Unnoticed
    <3> QED BY <2>3, <3>3, <3>4, <3>5 DEF RevInv
  <2> QED BY <2>2, <2>4, <2>5
<1> QED BY <1>1, <1>2, <1>3, <1>4

LEMMA RevInvariant == Spec => []RevInv
<1>1. RevInv /\ [Next]_vars => RevInv'
  <2> SUFFICES ASSUME RevInv, [Next]_vars PROVE RevInv'
    OBVIOUS
  <2>1. CASE Fork \/ Spawned \/ RunLib \/ TestPasses \/ PickChunk \/ LibDone
    BY <2>1, StartSteps
  <2>2. CASE Mark \/ Restore
    BY <2>2, MarkSteps
  <2>3. CASE Revoke \/ CheckAround \/ CheckChunk \/ Finish
    BY <2>3, KernelSteps
  <2>4. CASE UNCHANGED vars
    BY <2>4 DEF vars, RevInv, Places, InLib, InChunk, mode, Marks, Clean, HalfDone,
      Chunk, RightTags, Unnoticed
  <2> QED BY <2>1, <2>2, <2>3, <2>4 DEF Next, Over
<1> QED BY <1>1, RevInit, PTL DEF Spec

(***************************************************************************)
(* A right kernel is never reported, for a block of any size cut into any  *)
(* chunks: no mark, open epoch or restored capability of one chunk, phase  *)
(* or process disturbs the checks of the next.                             *)
(* Code: cheriostest_cheri_revoke_lib_run(), cheriostest_vm.c 2546-2696.   *)
(***************************************************************************)
THEOREM RightKernelPasses == Spec => []NoFalseAlarm
<1>1. RevInv => NoFalseAlarm
  BY DEF RevInv, RightTags, NoFalseAlarm
<1> QED BY <1>1, RevInvariant, PTL

(***************************************************************************)
(* A kernel that misses a capability, takes one away too many or gets an   *)
(* epoch wrong does not pass, wherever in the block and in the test it     *)
(* happens; only what a closing sweep takes too much goes unnoticed.       *)
(* Code: the checks, cheriostest_vm.c 2610-2682.                           *)
(***************************************************************************)
THEOREM WrongKernelFails == Spec => []FaultsAreSeen
<1>1. RevInv => FaultsAreSeen
  BY DEF RevInv, Unnoticed, FaultsAreSeen
<1> QED BY <1>1, RevInvariant, PTL

=============================================================================
