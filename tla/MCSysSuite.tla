----------------------------- MODULE MCSysSuite -----------------------------
EXTENDS SysSuite

MCSystems == [os : {"CheriBSD", "FreeBSD", "Linux"}, rvy : {FALSE}]
             \cup [os : {"Linux"}, rvy : {TRUE}]
One(names) == {{}} \cup {{f} : f \in names}
MCFlaws ==
  [ptrace |-> One({"call", "notag", "alltags", "pageend", "garbled", "forge", "qemu", "ptkill"}),
   signal |-> One({"call", "lostsig", "wrongsig", "badinfo", "wrongstack", "unsealed", "mapped",
                   "noblock", "pipetag", "garbled", "robbed", "ignfatal", "dflign", "sicode",
                   "sival", "lostaio"}),
   malloc |-> One({"call", "doublefree", "memkept", "regkept", "tooearly", "onlyonce", "nomem",
                   "misaligned", "procctl", "suid", "force", "note", "early"}),
   tls    |-> One({"call", "sametls", "noinit", "overlap"}),
   string |-> One({"ret", "nothing", "skiphead", "skiptail", "lostodd", "losttail", "lostall",
                   "keeptag", "faults"})]

Feature(bits) ==
  [freebsd |-> TRUE, namesz |-> 8, descsz |-> 4, type |-> NT_FREEBSD_FEATURE_CTL, features |-> bits]
AbiTag == [freebsd |-> TRUE, namesz |-> 8, descsz |-> 4, type |-> 1, features |-> 519]
(* Another vendor's note of the same type, with sizes that need padding. *)
Vendor(namesz, descsz) ==
  [freebsd |-> FALSE, namesz |-> namesz, descsz |-> descsz, type |-> NT_FREEBSD_FEATURE_CTL,
   features |-> 544]
Segment(type, notes) == [type |-> type, notes |-> notes]
Load == Segment(1, <<Feature(8)>>)   \* not a note segment, whatever its contents look like

MCBinaries ==
  {Linked(<<Load, Segment(PT_NOTE, <<AbiTag, Feature(bits)>>)>>) : bits \in {0, 32, 512, 4, 516, 544}}
  \cup {Linked(<<Segment(PT_NOTE, <<Vendor(5, 6)>>),
                 Segment(PT_NOTE, <<Vendor(8, 3), Feature(4)>>)>>),
        Linked(<<Segment(PT_NOTE, <<Vendor(3, 0), Vendor(8, 9)>>), Load>>),
        Linked(<<>>)}
=============================================================================
