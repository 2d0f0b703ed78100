----------------------------- MODULE MCVmSuite -----------------------------
EXTENDS VmSuite

MCSystems == [os : {"CheriBSD", "FreeBSD", "Linux"}, rvy : BOOLEAN]
One(names) == {{}} \cup {{f} : f \in names}
MCTagFlaws ==
  One({"call", "implied", "lost", "kept", "cowlost", "through", "alias", "survive", "rdtag",
       "wrtag", "garbled", "lax", "sticky", "socket", "mangle", "hoard", "spared", "handle"})
  \cup {{"implied", "hoard"}}
MCResFlaws ==
  One({"call", "reuse", "excl", "invalid", "noperm", "stack", "uaf", "untagged", "novmem",
       "short", "misaligned", "padok", "capreloc", "unswept", "alone", "merged"})
MCRevFlaws ==
  One({"call", "undirtied", "missed", "missedpg", "missedkq", "over", "unwashed", "washed",
       "through", "clock", "enqueue", "unfaulted", "behind", "resident", "evicted"})

(* All free, a neighbour in the way, quarantined space at both ends. *)
MCSpaces ==
  {[g \in PageNo |-> "free"],
   [g \in PageNo |-> IF g = 0 \/ g = Top THEN "quarantined" ELSE "free"],
   [g \in PageNo |-> IF g \in {2, Top} THEN "other" ELSE "free"]}
=============================================================================
