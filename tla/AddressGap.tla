----------------------------- MODULE AddressGap -----------------------------
(***************************************************************************)
(* find_address_space_gap(): read the process's memory map, then look for  *)
(* a hole between two neighbouring mappings.  FreeBSD takes a snapshot and *)
(* scans upwards; Linux reads /proc/self/maps line by line, allocating a   *)
(* list node for each, and scans the list downwards as every line was put  *)
(* at its head.  Allocating may itself create a mapping.                   *)
(***************************************************************************)
EXTENDS Integers, Sequences

CONSTANTS
  Systems,   \* a subset of {"FreeBSD", "Linux"}
  Width,     \* addresses are Width bits wide
  UserTop,   \* mappings end at or below this address
  Maps,      \* the address spaces to start from, see AddressSpace
  Requests,  \* the <<length, alignment>> pairs asked for; alignment 0: natural
  RepLen(_), \* cheri_representable_length()
  RepAlign(_) \* CHERITEST_CHERI_REPRESENTABLE_ALIGNMENT()

Span == 2^Width

(* A memory map: non-empty ranges in ascending order, never at address 0. *)
AddressSpace(m) ==
  /\ m \in Seq([start : 1..UserTop, end : 1..UserTop]) /\ Len(m) >= 1
  /\ \A j \in 1..Len(m) : m[j].start < m[j].end
  /\ \A j, k \in 1..Len(m) : j < k => m[j].end <= m[k].start

(* User addresses leave room to round up without wrapping to zero. *)
ASSUME GapAssumption ==
  /\ Systems \subseteq {"FreeBSD", "Linux"}
  /\ Width \in Nat /\ Span \in Nat /\ UserTop \in Nat
  /\ \A m \in Maps : AddressSpace(m)
  /\ \A q \in Requests : q \in Nat \X Nat
  /\ \A q \in Requests : q[2] # 0 => UserTop + q[2] <= Span
  /\ \A q \in Requests : q[2] = 0 =>
       /\ RepLen(q[1]) \in Nat /\ q[1] <= RepLen(q[1])
       /\ RepAlign(RepLen(q[1])) \in Nat \ {0}
       /\ UserTop + RepAlign(RepLen(q[1])) <= Span

VARIABLES
  os,      \* the system compiled for
  vm,      \* the kernel's view: the map as it is now
  list,    \* the entries read so far, in the order they will be scanned
  pos,     \* Linux: the address reading goes on from
  stale,   \* history: something was mapped where reading had already been
  want,    \* the request
  len,     \* len and align, once normalised
  align,
  i,       \* loop counter
  addr,    \* the result, 0 for none
  at       \* "read", "scan", "found" or "failed"

gapVars == <<os, vm, list, pos, stale, want, len, align, i, addr, at>>

Init ==
  /\ os \in Systems /\ vm \in Maps /\ want \in Requests
  /\ list = <<>> /\ pos = 0 /\ stale = FALSE
  /\ len = want[1] /\ align = want[2]
  /\ i = 1 /\ addr = 0 /\ at = "read"

----------------------------------------------------------------------------
(* The list is complete: normalise the request and start to scan. *)
StartScan(l) ==
  /\ list' = l
  /\ len' = IF align = 0 THEN RepLen(len) ELSE len
  /\ align' = IF align = 0 THEN RepAlign(RepLen(len)) ELSE align
  /\ at' = "scan"

(* procstat_getvmmap(). *)
Snapshot ==
  /\ os = "FreeBSD" /\ at = "read"
  /\ StartScan(vm)
  /\ UNCHANGED <<os, vm, pos, stale, want, i, addr>>

Ahead == {j \in 1..Len(vm) : vm[j].start >= pos}

(***************************************************************************)
(* getline(), through stdio's buffer: the next few mappings from the place *)
(* reached on come in one read of the file; each goes to the list's head.  *)
(***************************************************************************)
ReadLines ==
  /\ os = "Linux" /\ at = "read" /\ Ahead # {}
  /\ \E first, last \in Ahead :
       /\ \A k \in Ahead : first <= k
       /\ list' = [k \in 1..(last - first + 1) |-> vm[last - k + 1]] \o list
       /\ pos' = vm[last].end
  /\ UNCHANGED <<os, vm, stale, want, len, align, i, addr, at>>

EndOfFile ==
  /\ os = "Linux" /\ at = "read" /\ Ahead = {}
  /\ StartScan(list)
  /\ UNCHANGED <<os, vm, pos, stale, want, i, addr>>

(***************************************************************************)
(* malloc() maps a range r that was free, between entries k and k + 1; a   *)
(* heap that grows is a new range next to the old one.                     *)
(***************************************************************************)
Inserted(k, r) == SubSeq(vm, 1, k) \o <<r>> \o SubSeq(vm, k + 1, Len(vm))

Grow(r) ==
  /\ os = "Linux" /\ at = "read" /\ list # <<>>
  /\ \E k \in 0..Len(vm) : AddressSpace(Inserted(k, r)) /\ vm' = Inserted(k, r)
  /\ stale' = (stale \/ r.start < pos)
  /\ UNCHANGED <<os, list, pos, want, len, align, i, addr, at>>

----------------------------------------------------------------------------
(* __builtin_align_up(), in Width-bit arithmetic. *)
AlignUp(x, a) == (x + ((a - (x % a)) % a)) % Span

(* The neighbours looked at in round i. *)
Below == IF os = "FreeBSD" THEN list[i] ELSE list[i + 1]
Above == IF os = "FreeBSD" THEN list[i + 1] ELSE list[i]

(* Mutant: no test for an aligned start beyond the hole; it wraps. *)
FitsWrapping ==
  (Above.start - AlignUp(Below.end, align)) % Span >= len

(* The hole above Below is large enough. *)
Fits ==
  LET aligned == AlignUp(Below.end, align) IN
  /\ aligned <= Above.start
  /\ Above.start - aligned >= len

(* Mutant: the last pair is not looked at. *)
ScanShort ==
  /\ at = "scan" /\ i < Len(list)
  /\ \/ /\ Fits /\ i < Len(list) - 1
        /\ addr' = AlignUp(Below.end, align)
        /\ at' = IF addr' = 0 THEN "failed" ELSE "found"
        /\ i' = i
     \/ ~(Fits /\ i < Len(list) - 1) /\ i' = i + 1 /\ UNCHANGED <<addr, at>>
  /\ UNCHANGED <<os, vm, list, pos, stale, want, len, align>>

(* Mutant: no break; the last fit wins. *)
ScanOn ==
  /\ at = "scan" /\ i < Len(list)
  /\ addr' = IF Fits THEN AlignUp(Below.end, align) ELSE addr
  /\ at' = IF i = Len(list) - 1 /\ addr' # 0 THEN "found" ELSE at
  /\ i' = i + 1
  /\ UNCHANGED <<os, vm, list, pos, stale, want, len, align>>

(* One round of the loop; a fit breaks out of it. *)
Scan ==
  /\ at = "scan" /\ i < Len(list)
  /\ \/ /\ Fits
        /\ addr' = AlignUp(Below.end, align)
        /\ at' = IF addr' = 0 THEN "failed" ELSE "found"
        /\ i' = i
     \/ ~Fits /\ i' = i + 1 /\ UNCHANGED <<addr, at>>
  /\ UNCHANGED <<os, vm, list, pos, stale, want, len, align>>

(* addr is still 0: cheriostest_failure_errx("no free region"). *)
NoRegion ==
  /\ at = "scan" /\ i >= Len(list)
  /\ at' = "failed"
  /\ UNCHANGED <<os, vm, list, pos, stale, want, len, align, i, addr>>

Returned == at \in {"found", "failed"} /\ UNCHANGED gapVars

Next == \/ Snapshot \/ ReadLines \/ EndOfFile \/ Scan \/ NoRegion \/ Returned
        \/ \E s, e \in 1..UserTop : s < e /\ Grow([start |-> s, end |-> e])

Spec == Init /\ [][Next]_gapVars

----------------------------------------------------------------------------
(* No mapping of m meets [a, a + n). *)
FreeIn(m, a, n) ==
  \A j \in 1..Len(m) : m[j].end <= a \/ a + n <= m[j].start

(***************************************************************************)
(* What is found is aligned, at least as long as asked for, and free at    *)
(* that moment, unless an allocation of the search itself was mapped       *)
(* behind the reader; what it maps ahead of the reader does no harm.       *)
(* Code: the loops, cheriostest_util_vm.c 98-107 and 163-173.              *)
(***************************************************************************)
FoundIsFree ==
  at = "found" =>
    /\ addr % align = 0 /\ len >= want[1]
    /\ ~stale => FreeIn(vm, addr, len)

(***************************************************************************)
(* The search fails only if no pair of neighbouring mappings leaves room.  *)
(* Code: both loop bounds; addr = 0 doubles as "nothing found".            *)
(***************************************************************************)
FailsOnlyIfFull ==
  (at = "failed" /\ ~stale) =>
    \A j \in 1..(Len(vm) - 1) :
      \A a \in vm[j].end..vm[j + 1].start :
        a % align = 0 => vm[j + 1].start - a < len

(***************************************************************************)
(* Of the holes that fit, FreeBSD returns the lowest and Linux, whose list *)
(* was built at the head, the highest.  Code: cheriostest_util_vm.c 98-107 *)
(* against 150 and 163-173.                                                *)
(***************************************************************************)
FoundIsExtreme ==
  (at = "found" /\ ~stale) =>
    \A j \in 1..(Len(vm) - 1) :
      (\E a \in vm[j].end..vm[j + 1].start :
         a % align = 0 /\ vm[j + 1].start - a >= len) =>
      IF os = "FreeBSD" THEN addr <= vm[j + 1].start ELSE addr >= vm[j].end

=============================================================================
