-------------------------- MODULE ReservationTests --------------------------
(* The tests themselves, as sequences of the steps of Reservation. *)
EXTENDS Reservation

CONSTANT Big   \* pages in big_res_size

Want(vals) == <<<<"want", vals>>>>
Is(field) == <<<<"verify", field>>>>

(* An mmap() without a hint, whose result is checked and kept. *)
Fresh(n, st, fields) ==
  <<<<"reserve", [hint |-> "null", off |-> 0, n |-> n, fixed |-> FALSE, private |-> TRUE,
                  st |-> st, asks |-> {fields[i] : i \in DOMAIN fields}, keep |-> TRUE]>>>>
  \o Want({"ok"}) \o [i \in DOMAIN fields |-> <<"verify", fields[i]>>]

(* One with a hint. *)
Hinted(hint, off, n, fixed) ==
  <<<<"reserve", [hint |-> hint, off |-> off, n |-> n, fixed |-> fixed,
                  private |-> TRUE, st |-> "mapped", asks |-> {}, keep |-> FALSE]>>>>

(* One that must fail with that errno. *)
Denied(hint, off, n, fixed, errno) == Hinted(hint, off, n, fixed) \o Want({errno})

vm_sw_perm_on_capreloc ==
  Plain("vm_sw_perm_on_capreloc", <<<<"global">>>> \o Success)

vm_reservation_access_fault ==
  TestOf("vm_reservation_access_fault", TRUE, FALSE,
         Fresh(2, "mapped", <<"tag", "len">>)
         \o <<<<"padding">>>> \o Failure)

(* The second mmap() asks for one page more than the hole has. *)
vm_reservation_reuse ==
  Plain("vm_reservation_reuse",
        Fresh(2, "mapped", <<"tag">>) \o <<<<"unmap", 1, 1, "part">>>>
        \o Denied("addr", 1, 2, TRUE, "ENOMEM") \o Success)

(* Twice more on FreeBSD, with MAP_ALIGNED. *)
vm_reservation_align ==
  Plain("vm_reservation_align",
        LET once == Fresh(2, "mapped", <<"aligned">>)
        IN once \o (IF FreeBSD THEN once \o once ELSE <<>>) \o Success)

vm_reservation_mmap_after_free_fixed ==
  Plain("vm_reservation_mmap_after_free_fixed",
        <<<<"call">>>> \o Fresh(1, "mapped", <<>>) \o <<<<"unmap", 0, 1, "all">>>>
        \o Hinted("freed", 0, 1, TRUE) \o <<<<"call">>>>
        \o Want(IF quar THEN {"ENOMEM"} ELSE {"EPROT"}) \o Success)
vm_reservation_mmap_after_free ==
  Plain("vm_reservation_mmap_after_free",
        Fresh(1, "mapped", <<>>) \o <<<<"unmap", 0, 1, "all">>>>
        \o Denied("freed", 0, 1, FALSE, "EPROT") \o Success)

vm_reservation_mmap_shared ==
  <<<<"call">>, <<"call">>>> \o Fresh(2, "mapped", <<"aligned", "len">>) \o Success
vm_reservation_mmap_shared_shm_open ==
  Plain("vm_reservation_mmap_shared_shm_open", vm_reservation_mmap_shared)
vm_reservation_mmap_shared_memfd_open ==
  Plain("vm_reservation_mmap_shared_memfd_open", vm_reservation_mmap_shared)

(* Linux is given neither MAP_PRIVATE nor MAP_SHARED here. *)
vm_mmap_invalid_cap ==
  Plain("vm_mmap_invalid_cap",
        <<<<"reserve", [hint |-> "invalid", off |-> 0, n |-> 1, fixed |-> FALSE,
                        private |-> FALSE, st |-> "mapped", asks |-> {}, keep |-> FALSE]>>>>
        \o Want({"EINVAL"}) \o Success)
vm_mmap_invalid_cap_fixed ==
  Plain("vm_mmap_invalid_cap_fixed",
        Denied("invalid", 0, 1, TRUE, "EINVAL") \o Success)
vm_reservation_mmap_invalid_cap ==
  Plain("vm_reservation_mmap_invalid_cap",
        Fresh(1, "mapped", <<>>) \o Denied("invalid", 0, 1, FALSE, "EINVAL") \o Success)

vm_reservation_mmap ==
  Plain("vm_reservation_mmap",
        <<<<"gap", 1>>,
          <<"reserve", [hint |-> "addr", off |-> 0, n |-> 1, fixed |-> FALSE,
                        private |-> TRUE, st |-> "mapped", asks |-> {"tag"}, keep |-> TRUE]>>>>
        \o Want({"ok"}) \o Is("tag") \o Success)

vm_reservation_mmap_fixed_unreserved ==
  Plain("vm_reservation_mmap_fixed_unreserved",
        <<<<"gap", 2>>,
          <<"reserve", [hint |-> "addr", off |-> 1, n |-> 1, fixed |-> TRUE,
                        private |-> TRUE, st |-> "mapped", asks |-> {"tag"}, keep |-> TRUE]>>>>
        \o Want({"ok"}) \o Is("tag")
        \o Denied("addr", -1, 2, TRUE, "ENOMEM") \o Success)

vm_reservation_mmap_insert_null_derived ==
  Plain("vm_reservation_mmap_insert_null_derived",
        Fresh(3, "guard", <<"tag">>)
        \o Denied("addr", 0, 1, TRUE, "ENOMEM") \o Success)

(* The tag that is looked at last is that of the reservation, not of the   *)
(* capability mmap() returned.                                             *)
vm_reservation_mmap_fixed_insert ==
  Plain("vm_reservation_mmap_fixed_insert",
        Fresh(3, "guard", <<"tag", "vmem">>)
        \o <<<<"reserve", [hint |-> "cap", off |-> 1, n |-> 1, fixed |-> TRUE, private |-> TRUE,
                           st |-> "mapped", asks |-> {"tag"}, keep |-> FALSE]>>>>
        \o Want({"ok"}) \o Is("tag") \o Success)

vm_reservation_mmap_fixed_insert_noperm ==
  Plain("vm_reservation_mmap_fixed_insert_noperm",
        Fresh(3, "guard", <<"tag", "vmem">>)
        \o Denied("noperm", 1, 1, TRUE, "EACCES") \o Success)

(* The first mmap() is at 0x20000000. *)
mmap_insert_stack ==
  Plain("mmap_insert_stack",
        <<<<"address", 3>>>> \o Hinted("addr", 0, 3, TRUE) \o Want({"ok"})
        \o Denied("stack", 1, 1, TRUE, "ENOMEM")
        \o <<<<"unmap", 1, 2, "part">>>> \o Success)

----------------------------------------------------------------------------
Unsupported == <<<<"failure">>>>   \* REVOCATION_IS_NOT_SUPPORTED_MSG
Supported(name, steps) ==
  IF CheriBSD THEN Plain(name, steps) ELSE TestOf(name, FALSE, TRUE, Unsupported)

Procstat == <<<<"call">>, <<"call">>, <<"call">>>>

revoke_largest_quarantined_reservation ==
  Supported("revoke_largest_quarantined_reservation",
    <<<<"call">>>> \o Fresh(Big, "mapped", <<>>) \o <<<<"unmap", 0, Big, "all">>>>
    \o Procstat \o <<<<"vmmap", "contains", 0, Big>>, <<"sweep">>, <<"call">>,
                     <<"vmmap", "gone", 0, Big>>>>
    \o Success)

(* Three reservations in 4 * Big pages of free space, apart from each other. *)
revoke_merge_quarantined ==
  Supported("revoke_merge_quarantined",
    LET one(off, n) == Hinted("addr", off, n, FALSE) \o Want({"ok"})
                       \o <<<<"unmap", off, n, "all">>>>
    IN <<<<"call">>, <<"gap", 4 * Big>>>>
       \o one(1, 1) \o one(Big, Big) \o one(3 * Big, 1) \o Procstat
       \o <<<<"vmmap", "begins", 1>>, <<"vmmap", "begins", Big>>,
            <<"vmmap", "begins", 3 * Big>>, <<"sweep">>, <<"call">>,
            <<"vmmap", "no_overlap", 4 * Big>>>>
       \o Success)

NeedQuarantine == {"revoke_largest_quarantined_reservation", "revoke_merge_quarantined"}

ReservationTestSet ==
  {vm_sw_perm_on_capreloc, vm_reservation_access_fault, vm_reservation_reuse,
   vm_reservation_align, vm_reservation_mmap_shared_memfd_open,
   vm_mmap_invalid_cap, vm_mmap_invalid_cap_fixed,
   vm_reservation_mmap_invalid_cap, vm_reservation_mmap,
   vm_reservation_mmap_fixed_unreserved, vm_reservation_mmap_insert_null_derived,
   vm_reservation_mmap_fixed_insert, vm_reservation_mmap_fixed_insert_noperm,
   mmap_insert_stack}
  \cup {t \in {revoke_largest_quarantined_reservation, revoke_merge_quarantined} :
          CheriBSD => quar}
  \cup (IF FreeBSD THEN {vm_reservation_mmap_shared_shm_open} ELSE {})
  \cup (IF CheriBSD THEN {vm_reservation_mmap_after_free_fixed,
                          vm_reservation_mmap_after_free} ELSE {})

=============================================================================
