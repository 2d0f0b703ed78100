----------------------------- MODULE StringCopy -----------------------------
(***************************************************************************)
(* The tests of cheriostest_string.c.  A structure, some bytes, a          *)
(* capability and more bytes, is copied to another from several offsets    *)
(* and over several lengths, and the copy is compared.                     *)
(***************************************************************************)
EXTENDS Script, Integers, Sequences

CONSTANTS
  Pad,       \* bytes in pad0 and in pad1: 32
  CapSize    \* bytes in a capability: 16

ASSUME StringAssumption ==
  /\ Pad \in Nat /\ CapSize \in Nat /\ CapSize > 1 /\ Pad > 3
  /\ Pad % CapSize = 0 /\ 3 % CapSize # 0

SizeofTest == Pad + CapSize + Pad
Byte == 0 .. SizeofTest - 1
CapBytes == Pad .. Pad + CapSize - 1

VARIABLE t2   \* the structure copied to: its bytes, and the tag of its capability

stringVars == <<t2>>

(* The structure copied from: pad0[i] = i, pad1[i] = i, and y. *)
T1 == [b \in Byte |-> IF b < Pad THEN b
                      ELSE IF b \in CapBytes THEN 100 + b ELSE b - Pad - CapSize]
Rubbish == [b \in Byte |-> 200]

(* t2 is not initialised: it may even look as after an earlier copy. *)
StringInit == t2 \in {[mem |-> Rubbish, tag |-> FALSE], [mem |-> T1, tag |-> TRUE]}

(* The loop writes the first byte over and over. *)
Invalidate ==
  /\ At("main", "invalidate")
  /\ t2' = [t2 EXCEPT !.mem[0] = 165]
  /\ Go("main", reg["main"])
  /\ UNCHANGED bad

(* n bytes of t1 from s on, copied to t2 at d.  The capability goes along if *)
(* all of it is copied to where it may lie; any other write to it takes its  *)
(* tag.  Skipped are the bytes a wrong implementation forgets.               *)
Copied(d, s, n, skipped) ==
  LET into == (d .. d + n - 1) \ skipped
  IN [mem |-> [b \in Byte |-> IF b \in into THEN T1[b - d + s] ELSE t2.mem[b]],
      tag |-> IF into \cap CapBytes = {} THEN t2.tag
              ELSE CapBytes \subseteq into /\ d = s]

(* memcpy(), memmove(), memcpy_c(), memmove_c() and the kernel's. *)
Copy ==
  /\ At("main", "copy")
  /\ LET d == Arg("main", 1)
         s == Arg("main", 2)
         n == Arg("main", 3)
         right == Copied(d, s, n, {})
         Untag(cond) == IF cond THEN [right EXCEPT !.tag = FALSE] ELSE right
         oddStart == d % CapSize # 0
         oddEnd == (d + n) % CapSize # 0
         bytes == d .. d + n - 1
         skipped == [nothing |-> IF oddStart THEN bytes ELSE {},
                     skiphead |-> {b \in bytes : b < ((d + CapSize - 1) \div CapSize) * CapSize},
                     skiptail |-> {b \in bytes : b >= ((d + n) \div CapSize) * CapSize}]
         wrong == [lostodd |-> Untag(oddStart), losttail |-> Untag(oddEnd),
                   lostall |-> Untag(TRUE),
                   keeptag |-> IF d # s THEN [right EXCEPT !.tag = TRUE] ELSE right]
     IN \/ /\ \E v \in {right} \cup {wrong[f] : f \in DOMAIN wrong} :
                Does(v, right, wrong) /\ t2' = v
           /\ Go("main", "dst")
        \/ /\ \E f \in flaw \cap DOMAIN skipped :   \* whatever was there before
                skipped[f] # {} /\ t2' = Copied(d, s, n, skipped[f]) /\ bad' = bad \cup {f}
           /\ Go("main", "dst")
        \/ /\ "ret" \in flaw /\ bad' = bad \cup {"ret"}
           /\ t2' = right /\ Go("main", "other")

(* Each copy's result, and check(): the bytes from start on in pad0, y and *)
(* its tag, and pad1 up to end.                                            *)
Accepted(start, to) ==
  /\ \A b \in CapBytes \cup (start .. Pad - 1) \cup (Pad + CapSize .. Pad + CapSize + to - 1) :
       t2.mem[b] = T1[b]
  /\ t2.tag

Check ==
  /\ At("main", "check")
  /\ Verify("main", reg["main"] = "dst" /\ Accepted(Arg("main", 1), Arg("main", 2)))
  /\ UNCHANGED <<t2, bad>>

(* After a copy whose source and destination are aligned differently. *)
CheckShifted ==
  /\ At("main", "shifted")
  /\ Verify("main",
            /\ reg["main"] = "dst" /\ ~t2.tag
            /\ \A i \in 0 .. Pad - 2 : /\ t2.mem[i] = i + 1
                                       /\ t2.mem[Pad + CapSize + i] = i + 1)
  /\ UNCHANGED <<t2, bad>>

(* memcpy() of two capabilities to an odd address; only the tags are looked at. *)
CopyUnaligned ==
  /\ At("main", "unaligned")
  /\ \/ \E v \in {"tags", "notags"} :
          /\ Does(v, "notags", [keeptag |-> IF Arg("main", 1) THEN "tags" ELSE "notags"])
          /\ Go("main", v)
     \/ "faults" \in flaw /\ Arg("main", 1) /\ bad' = bad \cup {"faults"} /\ Trap("main")
  /\ UNCHANGED t2

StringStep == Invalidate \/ Copy \/ Check \/ CheckShifted \/ CopyUnaligned

----------------------------------------------------------------------------
Case(d, n, start, to) == <<<<"invalidate">>, <<"copy", d, d, n>>, <<"check", start, to>>>>
Shifted == <<<<"copy", 0, 1, SizeofTest - 1>>, <<"shifted">>>>

(* Aligned, then with an odd start, an odd end, and both. *)
FourCases ==
  Case(0, SizeofTest, 0, Pad) \o Case(3, SizeofTest - 3, 3, Pad)
  \o Case(0, SizeofTest - 3, 0, Pad - 3) \o Case(3, SizeofTest - 6, 3, Pad - 3)

(* Capabilities whose offset is not zero. *)
OffsetCases ==
  Case(3, SizeofTest - 6, 3, Pad - 3) \o Case(0, SizeofTest, 0, Pad)
  \o Case(Pad - 1, SizeofTest - (Pad - 1), Pad - 1, Pad)

(* All starts in pad0 with all ends in pad1. *)
AllCases ==
  [k \in 1 .. 3 * Pad * Pad |->
    LET nth == (k - 1) \div 3
        head == nth \div Pad
        tail == nth % Pad
    IN Case(head, SizeofTest - head - (Pad - tail), head, tail)[((k - 1) % 3) + 1]]

string_memcpy == Plain("string_memcpy", FourCases \o Shifted \o Success)
string_memmove == Plain("string_memmove", FourCases \o Shifted \o Success)
string_memcpy_c ==
  Plain("string_memcpy_c", FourCases \o <<<<"invalidate">>>> \o Shifted \o OffsetCases \o Success)
string_memmove_c ==
  Plain("string_memmove_c", FourCases \o <<<<"invalidate">>>> \o Shifted \o OffsetCases \o Success)
string_kern_memcpy_c ==
  Plain("string_kern_memcpy_c",
        AllCases \o <<<<"invalidate">>>> \o Shifted \o OffsetCases \o Success)
string_kern_memmove_c ==
  Plain("string_kern_memmove_c",
        AllCases \o <<<<"invalidate">>>> \o Shifted \o OffsetCases \o Success)

(* First without a capability among what is copied, then with one. *)
UnalignedCopies ==
  <<<<"unaligned", FALSE>>, <<"unaligned", TRUE>>, <<"want", {"notags"}>>>> \o Success
unaligned_capability_copy_memcpy ==
  Plain("unaligned_capability_copy_memcpy", UnalignedCopies)
unaligned_capability_copy_memmove ==
  Plain("unaligned_capability_copy_memmove", UnalignedCopies)

StringTestSet ==
  {string_memcpy, string_memmove, string_memcpy_c, string_memmove_c, string_kern_memcpy_c,
   string_kern_memmove_c, unaligned_capability_copy_memcpy, unaligned_capability_copy_memmove}

=============================================================================
