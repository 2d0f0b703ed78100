----------------------------- MODULE VmTagTests -----------------------------
(* The tests themselves, as sequences of the steps of VmTags. *)
EXTENDS VmTags

Untagged == {"null", "clear"}
Check(m, w, vals) == <<<<"load", m, w>>, <<"want", vals>>>>

(* mmap_and_check_tag_stored(): the last two steps are munmap() and close(). *)
MmapCheck(prot, shared, kind, loss) ==
  <<<<"mmap", "m", shared, prot, kind>>, <<"store", "m", 0>>>>
  \o Check("m", 0, IF loss THEN Untagged ELSE {"tag"})
  \o <<<<"munmap", "m">>, <<"call">>>>

(* Ways to get an object. *)
ShmAnon == <<<<"call">>>>
ShmNamed == <<<<"shm_create">>, <<"shm_unlink">>, <<"call">>>>
Memfd == <<<<"call">>>>
DevZero == <<<<"call">>>>
Tempfile == <<<<"call">>>>

----------------------------------------------------------------------------
vm_tag_mmap_anon ==
  Plain("vm_tag_mmap_anon", MmapCheck("", FALSE, "anon", FALSE) \o Success)
vm_tag_mmap_anon_cap ==
  Plain("vm_tag_mmap_anon_cap",
        <<<<"PROT_CAP">>>> \o MmapCheck("cap", FALSE, "anon", FALSE) \o Success)

(* These two expect the signal on every architecture. *)
vm_notag_mmap_no_cap ==
  TestOf("vm_notag_mmap_no_cap", TRUE, FALSE,
         <<<<"PROT_CAP">>, <<"mmap", "m", FALSE, "no_cap", "anon">>,
           <<"store", "m", 0>>, <<"failure">>>>)
vm_notag_mprotect_no_cap ==
  TestOf("vm_notag_mprotect_no_cap", TRUE, FALSE,
         <<<<"PROT_CAP">>, <<"mmap", "m", FALSE, "", "anon">>,
           <<"mprotect", "m">>, <<"store", "m", 0>>, <<"failure">>>>)

vm_mmap_disallowed_prot ==
  Plain("vm_mmap_disallowed_prot",
        <<<<"refuse">>>>
        \o (IF FreeBSD THEN <<<<"refuse">>, <<"refuse">>, <<"refuse">>, <<"call">>, <<"refuse">>>>
            ELSE <<>>)
        \o Success)

(* Shared mappings for which PROT_CAP is not asked. *)
NoImpliedCap(name, open, kind) ==
  TestOf(name, ~sys.rvy, FreeBSD,
         open \o MmapCheck("", TRUE, kind, sys.rvy)
         \o IF sys.rvy THEN Success ELSE Failure)
vm_tag_shm_open_named_shared_no_implied_cap ==
  NoImpliedCap("vm_tag_shm_open_named_shared_no_implied_cap", ShmNamed, "shm")
vm_tag_shm_open_anon_shared_no_implied_cap ==
  NoImpliedCap("vm_tag_shm_open_anon_shared_no_implied_cap", ShmAnon, "shm")
vm_tag_anon_shared_no_implied_cap ==
  NoImpliedCap("vm_tag_anon_shared_no_implied_cap", <<>>, "anon")
vm_tag_memfd_create_shared ==
  NoImpliedCap("vm_tag_memfd_create_shared", Memfd, "shm")

vm_tag_shm_open_anon_shared ==
  Plain("vm_tag_shm_open_anon_shared",
        ShmAnon \o MmapCheck("cap", TRUE, "shm", FALSE) \o Success)
vm_tag_shm_open_anon_private ==
  Plain("vm_tag_shm_open_anon_private",
        ShmAnon \o MmapCheck("", FALSE, "shm", FALSE) \o Success)
vm_tag_shm_open_named_private ==
  Plain("vm_tag_shm_open_named_private",
        ShmNamed \o MmapCheck("", FALSE, "shm", FALSE) \o Success)
vm_tag_dev_zero_shared ==
  Plain("vm_tag_dev_zero_shared",
        <<<<"PROT_CAP">>>> \o DevZero \o MmapCheck("cap", TRUE, "zero", FALSE)
        \o Success)
vm_tag_dev_zero_private ==
  Plain("vm_tag_dev_zero_private",
        DevZero \o MmapCheck("", FALSE, "zero", FALSE) \o Success)

(* A file's pages hold tags only if they are private. *)
vm_notag_tmpfile_shared ==
  TestOf("vm_notag_tmpfile_shared", ~sys.rvy, FALSE,
         Tempfile \o <<<<"mmap", "m", TRUE, "", "file">>, <<"store", "m", 0>>>>
         \o IF sys.rvy THEN Check("m", 0, Untagged) \o Success ELSE Failure)
vm_tag_tmpfile_private ==
  Plain("vm_tag_tmpfile_private",
        Tempfile \o MmapCheck("", FALSE, "file", FALSE) \o Success)
vm_tag_tmpfile_private_prefault ==
  [vm_tag_tmpfile_private EXCEPT !.name = "vm_tag_tmpfile_private_prefault"]

----------------------------------------------------------------------------
(* Two mappings of one object. *)
vm_tag_shm_open_shared2x ==
  <<<<"PROT_CAP">>, <<"mmap", "m2", TRUE, "cap", "shm">>>>
  \o Check("m2", 0, {"null"})
  \o MmapCheck("cap", TRUE, "shm", FALSE)
  \o Check("m2", 0, {"tag"}) \o Success
vm_tag_shm_open_anon_shared2x ==
  Plain("vm_tag_shm_open_anon_shared2x", ShmAnon \o vm_tag_shm_open_shared2x)
vm_tag_shm_open_named_shared2x ==
  Plain("vm_tag_shm_open_named_shared2x", ShmNamed \o vm_tag_shm_open_shared2x)

(* read(2) and write(2) of an object that holds, or gets, a capability. *)
SharedCap(m) == <<<<"call">>, <<"PROT_CAP">>, <<"mmap", m, TRUE, "cap", "shm">>>>
shm_open_read_nocaps ==
  SharedCap("m") \o <<<<"store", "m", 0>>>> \o Check("m", 0, {"tag"})
  \o <<<<"read">>, <<"want", {"clear"}>>, <<"call">>>> \o Success
shm_open_write_nocaps ==
  SharedCap("m") \o <<<<"write">>>> \o Check("m", 0, {"clear"})
  \o <<<<"call">>>> \o Success
shm_open_anon_read_nocaps ==
  Plain("shm_open_anon_read_nocaps", ShmAnon \o shm_open_read_nocaps)
shm_open_named_read_nocaps ==
  Plain("shm_open_named_read_nocaps", ShmNamed \o shm_open_read_nocaps)
shm_open_anon_write_nocaps ==
  Plain("shm_open_anon_write_nocaps", ShmAnon \o shm_open_write_nocaps)
shm_open_anon_shm ==
  Plain("shm_open_anon_shm", ShmNamed \o shm_open_write_nocaps)
memfd_create_anon_write_nocaps ==
  Plain("memfd_create_anon_write_nocaps", Memfd \o shm_open_write_nocaps)

(* A private mapping of an object that holds a capability; _write then     *)
(* forces the copy.                                                        *)
vm_cow_read ==
  SharedCap("real") \o <<<<"mmap", "copy", FALSE, "", "shm">>, <<"store", "real", 0>>>>
  \o Check("real", 0, {"tag"}) \o Check("copy", 0, {"tag"})
vm_cow_write ==
  vm_cow_read \o <<<<"store", "copy", 1>>>>
  \o Check("real", 0, {"tag"}) \o Check("copy", 0, {"tag"})
CowEnd == <<<<"munmap", "real">>, <<"munmap", "copy">>, <<"call">>>> \o Success
vm_cow_anon_read == Plain("vm_cow_anon_read", ShmAnon \o vm_cow_read \o CowEnd)
vm_cow_named_read == Plain("vm_cow_named_read", ShmNamed \o vm_cow_read \o CowEnd)
vm_cow_anon_write == Plain("vm_cow_anon_write", ShmAnon \o vm_cow_write \o CowEnd)
vm_cow_named_write == Plain("vm_cow_named_write", ShmNamed \o vm_cow_write \o CowEnd)

----------------------------------------------------------------------------
(* A capability stored in an object whose descriptor is then passed on. *)
vm_shm_open_unix_surprise(open) ==
  <<<<"socketpair">>,
    <<"fork", <<<<"receive">>, <<"want", {"fd"}>>, <<"PROT_CAP">>,
                <<"mmap", "k", TRUE, "cap", "shm">>>>
              \o Check("k", 0, Untagged)
              \o <<<<"munmap", "k">>, <<"exit", Untagged>>>>>>>>
  \o open \o SharedCap("m") \o <<<<"store", "m", 0>>>> \o Check("m", 0, {"tag"})
  \o <<<<"munmap", "m">>, <<"pass", "fd">>, <<"wait", "check">>>> \o Success
vm_shm_open_anon_unix_surprise ==
  TestOf("vm_shm_open_anon_unix_surprise", FALSE, TRUE,
         vm_shm_open_unix_surprise(<<<<"call">>>>))
vm_shm_open_named_unix_surprise ==
  TestOf("vm_shm_open_named_unix_surprise", ~FreeBSD, FreeBSD,
         vm_shm_open_unix_surprise(<<<<"shm_open">>, <<"shm_unlink">>>>))

vm_cap_share_fd_kqueue ==
  TestOf("vm_cap_share_fd_kqueue", FALSE, TRUE,
         <<<<"call">>, <<"fork", <<<<"receive">>, <<"exit", Untagged>>>>>>,
           <<"call">>, <<"call">>, <<"pass", "tag">>, <<"wait", "check">>>>
         \o Success)

vm_cap_share_sigaction ==
  TestOf("vm_cap_share_sigaction", FALSE, TRUE,
         <<<<"fork", <<<<"call">>, <<"pass", "tag">>, <<"readback">>,
                       <<"exit", {"null"}>>>>>>,
           <<"wait", "ignore">>, <<"lookup">>, <<"want", Untagged>>>>
         \o Success)

(* A mapping with pages of one larger size: capabilities at its beginning, *)
(* in its middle and on its last small page.                               *)
LargePage ==
  <<<<"PROT_CAP">>, <<"call">>, <<"mmap", "m", TRUE, "cap", "shm">>, <<"returned">>>>
  \o <<<<"store", "m", 0>>>> \o Check("m", 0, {"tag"})
  \o <<<<"store", "m", 1>>>> \o Check("m", 1, {"tag"})
  \o <<<<"store", "m", 2>>>> \o Check("m", 2, {"tag"})
  \o <<<<"munmap", "m">>, <<"call">>>>
(* The sizes below 1 GB that the system has besides the smallest: none to  *)
(* two.  With none, what the test is about is not done.                    *)
LargeSizes == 0..2
vm_large_pages_basic(sizes) ==
  Plain("vm_large_pages_basic",
        <<<<"call">>>> \o (IF sizes > 0 THEN LargePage ELSE <<>>)
        \o (IF sizes > 1 THEN LargePage ELSE <<>>) \o Success)

(* A capability in an object that nobody maps while it is revoked.  The    *)
(* second mapping does not ask for PROT_CAP.                               *)
Hoard(name, steps) ==
  TestOf(name, FALSE, TRUE, IF CheriBSD THEN steps \o Success ELSE Failure)
Stash == <<<<"call">>, <<"call">>, <<"mmap", "m", TRUE, "cap", "shm">>, <<"store", "m", 0>>>>
         \o Check("m", 0, {"tag"}) \o <<<<"munmap", "m">>>>
Flushed == <<<<"flush">>, <<"want", {"clear"}>>>>
Recover == <<<<"mmap", "m", TRUE, "", "shm">>>> \o Check("m", 0, {"clear"})
cheri_revoke_shm_anon_hoard_unmapped ==
  Hoard("cheri_revoke_shm_anon_hoard_unmapped", Stash \o Flushed \o Recover)
cheri_revoke_shm_anon_hoard_closed ==
  Hoard("cheri_revoke_shm_anon_hoard_closed",
        <<<<"socketpair">>,
          <<"fork", <<<<"receive">>, <<"want", {"fd"}>>, <<"pass", "fd">>, <<"exit", {"fd"}>>>>>>>>
        \o Stash \o <<<<"pass", "fd">>>> \o Flushed \o <<<<"receive">>, <<"want", {"fd"}>>>>
        \o Recover \o <<<<"wait", "check">>>>)

----------------------------------------------------------------------------
FreeBSDTagTests ==
  {vm_tag_shm_open_anon_shared_no_implied_cap, vm_tag_shm_open_anon_shared,
   vm_tag_shm_open_anon_private, vm_tag_shm_open_anon_shared2x,
   shm_open_anon_read_nocaps, shm_open_anon_write_nocaps,
   vm_cow_anon_read, vm_cow_anon_write, vm_shm_open_anon_unix_surprise,
   vm_cap_share_fd_kqueue, vm_cap_share_sigaction}

TagTests ==
  {vm_tag_mmap_anon, vm_tag_mmap_anon_cap, vm_notag_mmap_no_cap,
   vm_notag_mprotect_no_cap, vm_mmap_disallowed_prot,
   vm_tag_shm_open_named_shared_no_implied_cap,
   vm_tag_anon_shared_no_implied_cap, vm_tag_memfd_create_shared,
   vm_tag_shm_open_named_private, vm_tag_dev_zero_shared,
   vm_tag_dev_zero_private, vm_notag_tmpfile_shared, vm_tag_tmpfile_private,
   vm_tag_tmpfile_private_prefault, vm_tag_shm_open_named_shared2x,
   shm_open_named_read_nocaps, shm_open_anon_shm,
   memfd_create_anon_write_nocaps, vm_cow_named_read, vm_cow_named_write,
   vm_shm_open_named_unix_surprise,
   cheri_revoke_shm_anon_hoard_unmapped, cheri_revoke_shm_anon_hoard_closed}
  \cup {vm_large_pages_basic(sizes) : sizes \in LargeSizes}
  \cup IF FreeBSD THEN FreeBSDTagTests ELSE {}

=============================================================================
