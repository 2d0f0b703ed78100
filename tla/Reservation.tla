---------------------------- MODULE Reservation ----------------------------
(***************************************************************************)
(* The tests of cheriostest_vm.c about reservations: mmap() with hints of  *)
(* every kind, over free, mapped, half-unmapped, freed and quarantined     *)
(* address space, and what is left of quarantined space after a            *)
(* revocation.  Addresses are counted in pages.                            *)
(***************************************************************************)
EXTENDS Script, FiniteSetsExt, TLC

CONSTANT
  Top,      \* the address space is pages 0..Top
  Spaces    \* its states when a test starts

PageNo == 0..Top

ASSUME ReservationAssumption ==
  /\ Top \in Nat
  /\ \A s \in Spaces : s \in [PageNo -> {"free", "other", "quarantined"}]

VARIABLES
  space,  \* page -> "free", "other", "mapped", "guard", "hole", "quarantined"
  held,   \* the capability of the last mmap() that the test kept
  quar    \* vm.cheri_revoke.quarantine_unmapped_reservations

resVars == <<space, held, quar>>

NoCap == [at |-> 0, tag |-> TRUE, vmem |-> TRUE, len |-> TRUE, aligned |-> TRUE]

ResInit ==
  /\ space \in Spaces /\ held = NoCap
  /\ quar \in IF CheriBSD THEN BOOLEAN ELSE {FALSE}

----------------------------------------------------------------------------
Pages(at, n) == at..(at + n - 1)
IsIn(pages, states) == pages \subseteq PageNo /\ \A g \in pages : space[g] \in states

(* Where n pages are free, at the lower or the upper end. *)
Gap(n) ==
  LET all == {g \in PageNo : IsIn(Pages(g, n), {"free"})}
  IN IF all = {} THEN {} ELSE {Min(all), Max(all)}

(* Space that the kernel takes for free. *)
Vacant(pages) ==
  \/ IsIn(pages, {"free"})
  \/ "reuse" \in flaw /\ IsIn(pages, {"free", "hole"})
  \/ "excl" \in flaw /\ IsIn(pages, {"free", "guard", "mapped"})

(* What mmap() is to answer, by the kind of its hint.  MAP_STACK without   *)
(* MAP_ANON needs a descriptor on Linux.                                   *)
Answer(a, pages) ==
  CASE a.hint = "null"    -> IF Gap(a.n) = {} THEN "ENOMEM" ELSE "ok"
    [] a.hint = "invalid" -> "EINVAL"
    [] a.hint = "noperm"  -> "EACCES"
    [] a.hint = "stack"   -> IF FreeBSD THEN "ENOMEM" ELSE "EBADF"
    [] a.hint = "freed"   -> IF a.fixed /\ quar THEN "ENOMEM" ELSE "EPROT"
    [] a.hint = "cap"     -> "ok"
    [] a.hint = "addr"    -> IF a.fixed /\ ~IsIn(pages, {"free"}) THEN "ENOMEM" ELSE "ok"

(* A kernel without the check for such a hint.  On Linux, flags without    *)
(* MAP_PRIVATE or MAP_SHARED are an EINVAL of their own.                   *)
Unchecked(a, pages) ==
  CASE a.hint = "invalid" /\ "invalid" \in flaw ->
         IF sys.os = "Linux" /\ ~a.private THEN "EINVAL" ELSE "ok"
    [] a.hint = "noperm" /\ "noperm" \in flaw -> "ok"
    [] a.hint = "stack" /\ FreeBSD /\ "stack" \in flaw -> "ok"
    [] a.hint = "freed" /\ "uaf" \in flaw -> "ok"
    [] a.hint = "addr" /\ a.fixed /\ "excl" \in flaw ->
         IF Vacant(pages) THEN "ok" ELSE "ENOMEM"
    [] a.hint = "addr" /\ a.fixed /\ "reuse" \in flaw ->
         IF Vacant(pages) THEN "ok" ELSE "ENOMEM"
    [] OTHER -> Answer(a, pages)

Blame(a, pages) ==
  flaw \cap (CASE a.hint = "invalid" -> {"invalid"}
               [] a.hint = "noperm" -> {"noperm"}
               [] a.hint = "stack" /\ FreeBSD -> {"stack"}
               [] a.hint = "freed" -> {"uaf"}
               [] a.hint = "addr" /\ a.fixed ->
                    {f \in {"excl"} : \E g \in pages \cap PageNo : space[g] \in {"mapped", "guard"}}
                    \cup {f \in {"reuse"} : \E g \in pages \cap PageNo : space[g] = "hole"}
               [] OTHER -> {})

(* The capability that comes with success, and what may be wrong with it. *)
Fault == [tag |-> "untagged", vmem |-> "novmem", len |-> "short", aligned |-> "misaligned"]
Result(at, wrong) ==
  [x \in DOMAIN Fault |-> Fault[x] \notin wrong] @@ [at |-> at]

(* <<"reserve", [hint, off, n, fixed, private, st, asks, keep]>>: asks are *)
(* the fields of the result the test says it is about.  A hint is relative *)
(* to the page the last capability points to; without MAP_FIXED the kernel *)
(* goes where there is room.  Only a capability that is kept can be looked *)
(* at.                                                                     *)
Reserve(p) ==
  /\ At(p, "reserve")
  /\ LET a == Arg(p, 1)
         there == held.at + a.off
         pages == Pages(there, a.n)
         place == IF a.hint = "null" THEN Gap(a.n)
                  ELSE IF a.fixed \/ IsIn(pages, {"free"}) THEN {there} ELSE Gap(a.n)
         ans == Unchecked(a, pages)
     IN \/ /\ ans = "ok"
           /\ \E at \in place, wrong \in SUBSET (flaw \cap {Fault[x] : x \in a.asks}) :
                /\ space' = [g \in PageNo |-> IF g \in Pages(at, a.n) THEN a.st ELSE space[g]]
                /\ held' = IF a.keep THEN Result(at, wrong) ELSE held
                /\ bad' = bad \cup Blame(a, pages) \cup wrong
           /\ Go(p, "ok")
        \/ /\ ans # "ok" /\ Go(p, ans)
           /\ bad' = bad \cup Blame(a, pages) /\ UNCHANGED <<space, held>>
        \/ /\ "call" \in flaw /\ bad' = bad \cup {"call"} /\ Go(p, "EAGAIN")
           /\ UNCHANGED <<space, held>>
  /\ UNCHANGED quar

(* The test keeps an address that is free instead of a capability.  What   *)
(* find_address_space_gap() does is in AddressGap.                         *)
FindGap(p) ==
  /\ At(p, "gap")
  /\ \/ /\ \E g \in Gap(Arg(p, 1)) : held' = [held EXCEPT !.at = g]
        /\ Go(p, reg[p]) /\ UNCHANGED bad
     \/ Gap(Arg(p, 1)) = {} /\ Die(p) /\ bad' = bad \cup {"full"} /\ UNCHANGED held
  /\ UNCHANGED <<space, quar>>

(* The test has an address of its own, whatever lies there. *)
FixedAddress(p) ==
  /\ At(p, "address")
  /\ \E g \in PageNo :
       /\ Pages(g, Arg(p, 1)) \subseteq PageNo /\ held' = [held EXCEPT !.at = g]
       /\ bad' = IF IsIn(Pages(g, Arg(p, 1)), {"free"}) THEN bad ELSE bad \cup {"taken"}
  /\ Go(p, reg[p])
  /\ UNCHANGED <<space, quar>>

(* munmap() of some pages: what is left of a reservation keeps the hole;   *)
(* of a whole one nothing is left, unless it goes into quarantine.         *)
Unmap(p) ==
  /\ At(p, "unmap")
  /\ LET pages == Pages(held.at + Arg(p, 1), Arg(p, 2))
         st == IF Arg(p, 3) = "part" THEN "hole"
               ELSE IF quar THEN "quarantined" ELSE "free"
     IN \/ /\ space' = [g \in PageNo |-> IF g \in pages THEN st ELSE space[g]]
           /\ Go(p, "ok") /\ bad' = bad
        \/ /\ "call" \in flaw /\ bad' = bad \cup {"call"}
           /\ Die(p) /\ UNCHANGED space
  /\ UNCHANGED <<held, quar>>

(* VERIFY that a field of the capability is as it should be. *)
Inspect(p) ==
  /\ At(p, "verify")
  /\ Verify(p, held[Arg(p, 1)])
  /\ UNCHANGED <<resVars, bad>>

(* An access to the padding. *)
TouchPadding(p) ==
  /\ At(p, "padding")
  /\ \/ Trap(p) /\ bad' = bad
     \/ "padok" \in flaw /\ Go(p, reg[p]) /\ bad' = bad \cup {"padok"}
  /\ UNCHANGED resVars

(* A global, as the run-time linker relocates it. *)
Global(p) ==
  /\ At(p, "global")
  /\ \E r \in {"plain", "vmem"} :
       Does(r, "plain", [capreloc |-> "vmem"]) /\ Verify(p, r = "plain")
  /\ UNCHANGED resVars

----------------------------------------------------------------------------
(* procstat_getvmmap(): the maximal runs of pages in one state, as <<first, *)
(* last>>; quarantined neighbours are one entry.                           *)
Entries ==
  {e \in PageNo \X PageNo :
     /\ e[1] <= e[2] /\ space[e[1]] # "free"
     /\ \A g \in e[1]..e[2] : space[g] = space[e[1]]
     /\ e[1] = 0 \/ space[e[1] - 1] # space[e[1]]
     /\ e[2] = Top \/ space[e[2] + 1] # space[e[1]]}

Size(e) == e[2] - e[1] + 1
Quarantined(e) == space[e[1]] = "quarantined"

(* A reservation of n pages at off lies in an entry, a quarantined one. *)
InEntry(off, n) ==
  LET at == {e \in Entries : e[1] <= held.at + off /\ held.at + off + n - 1 <= e[2]}
  IN at # {} /\ \A e \in at : Quarantined(e)

(* One that begins there. *)
BeginsEntry(off) ==
  LET at == {e \in Entries : e[1] = held.at + off}
  IN at # {} /\ \A e \in at : Quarantined(e)

(* The test for overlap with n pages of working space: an entry begins or  *)
(* ends in it.                                                             *)
Overlaps(n) ==
  \E e \in Entries : \/ e[1] >= held.at /\ e[1] < held.at + n
                     \/ e[2] >= held.at /\ e[2] < held.at + n

LookUp(p) ==
  /\ At(p, "vmmap")
  /\ Verify(p, CASE Arg(p, 1) = "contains" -> InEntry(Arg(p, 2), Arg(p, 3))
                 [] Arg(p, 1) = "begins" -> BeginsEntry(Arg(p, 2))
                 [] Arg(p, 1) = "gone" -> ~InEntry(Arg(p, 2), Arg(p, 3))
                 [] Arg(p, 1) = "no_overlap" -> ~Overlaps(Arg(p, 2)))
  /\ UNCHANGED <<resVars, bad>>

(* Revocation: the largest quarantined entry, and those in reach of it that *)
(* nothing but free space separates from it, are given back.                *)
Reach(e) ==
  {d \in Entries :
     Quarantined(d)
     /\ \A g \in (Min({d[1], e[1]}))..(Max({d[2], e[2]})) :
          space[g] \in {"free", "quarantined"}}

RevokeSpace(p) ==
  /\ At(p, "sweep")
  /\ LET quarantine == {e \in Entries : Quarantined(e)}
         largest == {e \in quarantine : \A d \in quarantine : Size(d) <= Size(e)}
         freed(es) == [g \in PageNo |-> IF \E e \in es : g \in e[1]..e[2] THEN "free" ELSE space[g]]
         lo(es) == Min({e[1] : e \in es})
         hi(es) == Max({e[2] : e \in es})
     IN \E e \in largest :
          Does(space', freed(Reach(e)),
               [unswept |-> space, alone |-> freed({e}),
                \* merged into one entry that stays
                merged |-> [g \in PageNo |->
                   IF g \in lo(Reach(e))..hi(Reach(e)) THEN "quarantined" ELSE space[g]]])
  /\ Go(p, "ok")
  /\ UNCHANGED <<held, quar>>

ResStep(p) ==
  \/ Reserve(p) \/ FindGap(p) \/ FixedAddress(p) \/ Unmap(p) \/ Inspect(p) \/ TouchPadding(p)
  \/ Global(p) \/ LookUp(p) \/ RevokeSpace(p)

=============================================================================
