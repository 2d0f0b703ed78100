---------------------------- MODULE MCAddressGap ----------------------------
(* Every address space of two or three mappings in a tiny range. *)
EXTENDS AddressGap

(* A mapping per pair of page numbers, 1 up to UserTop. *)
R == {r \in [start : 1..UserTop, end : 1..UserTop] : r.start < r.end}
MCMaps == {m \in [1..2 -> R] : AddressSpace(m)}
          \cup {m \in [1..3 -> {r \in R : r.end - r.start <= 2}] : AddressSpace(m)}

MCRequests == {<<1, 1>>, <<2, 2>>, <<3, 0>>, <<1, 4>>, <<2, 4>>}

(* Lengths above two are only representable in steps of two. *)
MCRepLen(n)   == IF n <= 2 THEN n ELSE n + (n % 2)
MCRepAlign(n) == IF n <= 2 THEN 1 ELSE 2

=============================================================================
