----------------------------- MODULE FeatureNote -----------------------------
(***************************************************************************)
(* set-feature-ctl-note: it finds the FreeBSD feature control note of an   *)
(* ELF file and sets one of two bits in it.                                *)
(*                                                                         *)
(* A file is its program headers and a sequence of 32-bit words; offsets   *)
(* are in bytes and 0 is the first byte after the headers.  Words are      *)
(* numbers below Modulus, so that sizes wrap as uint32_t does.  The fields *)
(* notes, where the notes of a segment really are, and desc, where the     *)
(* descriptor is, or -1, are not seen by the tool.                         *)
(***************************************************************************)
EXTENDS Integers, Sequences, SequencesExt

CONSTANT Modulus   \* 2^32

ASSUME ModulusAssumption == Modulus \in Nat /\ Modulus % 128 = 0 /\ Modulus > 1000

PT_NOTE == 4
NT_FREEBSD_FEATURE_CTL == 4
NHDR == 12                             \* sizeof(Elf64_Nhdr)
FreeBSDName == <<901, 902>>            \* the eight bytes "FreeBSD"
NT_FREEBSD_FCTL_CHERI_REVOKE_DISABLE == 32
NT_FREEBSD_FCTL_CHERI_REVOKE_ENABLE == Modulus \div 2   \* 0x80000000, the highest bit
None == -1
Error == -2                            \* err() and errx()

Size(f) == 4 * Len(f.word)
WordAt(f, off) == f.word[(off \div 4) + 1]

(* Mutant: sizes are not rounded. *)
roundup4None(x) == x

roundup4(x) == (((x + 3) % Modulus) \div 4) * 4

(* The notes of one segment that ends at end, from pos on. *)
NotesFrom(f, end) ==
  LET note[pos \in 0 .. Size(f) + 2 * Modulus] ==
        IF pos + NHDR > end THEN None
        ELSE IF pos + NHDR > Size(f) THEN Error    \* xpread()
        ELSE LET namesz == WordAt(f, pos)
                 descsz == WordAt(f, pos + 4)
                 name == pos + NHDR
                 next == name + ((roundup4(namesz) + roundup4(descsz)) % Modulus)
             IN IF namesz # 8 \/ WordAt(f, pos + 8) # NT_FREEBSD_FEATURE_CTL THEN note[next]
                ELSE IF name + 8 > Size(f) THEN Error
                ELSE IF <<WordAt(f, name), WordAt(f, name + 4)>> # FreeBSDName THEN note[next]
                ELSE IF descsz < 4 THEN Error
                ELSE name + roundup4(namesz)
  IN note

(* The first segment with an answer gives it. *)
find_feature_ctl_desc(f) ==
  LET seg[i \in 1 .. Len(f.phdrs) + 1] ==
        IF i > Len(f.phdrs) THEN None
        ELSE LET ph == f.phdrs[i]
                 found == NotesFrom(f, ph.off + ph.filesz)[ph.off]
             IN IF ph.type # PT_NOTE \/ found = None THEN seg[i + 1] ELSE found
  IN seg[1]

HasBit(v, bit) == (v \div bit) % 2 = 1

(* (features & ~bit_to_clear) | bit_to_set *)
Features(v, bit_to_set, bit_to_clear) ==
  LET cleared == IF HasBit(v, bit_to_clear) THEN v - bit_to_clear ELSE v
  IN IF HasBit(cleared, bit_to_set) THEN cleared ELSE cleared + bit_to_set

(* main(): the exit status is zero, and what the file's words are then.    *)
(* The file is the one the linker has just written; open() or a header     *)
(* that is not ELF64's ends main() before it, with the file as it was.     *)
SetFeatureCtlNote(op, f) ==
  LET off == find_feature_ctl_desc(f)
      enable == op = "+cherirevoke"
      set == IF enable THEN NT_FREEBSD_FCTL_CHERI_REVOKE_ENABLE
             ELSE NT_FREEBSD_FCTL_CHERI_REVOKE_DISABLE
      clear == IF enable THEN NT_FREEBSD_FCTL_CHERI_REVOKE_DISABLE
               ELSE NT_FREEBSD_FCTL_CHERI_REVOKE_ENABLE
  IN IF off < 0 \/ off + 4 > Size(f) THEN [ok |-> FALSE, word |-> f.word]
     ELSE [ok |-> TRUE,
           word |-> [f.word EXCEPT ![(off \div 4) + 1] = Features(@, set, clear)]]

----------------------------------------------------------------------------
(* What the linker writes: segments, each a sequence of notes.             *)

Padded(bytes) == (bytes + 3) \div 4
NoteWords(n) ==
  <<n.namesz, n.descsz, n.type>>
  \o (IF n.freebsd THEN FreeBSDName ELSE [i \in 1 .. Padded(n.namesz) |-> 900])
  \o [i \in 1 .. Padded(n.descsz) |-> IF i = 1 THEN n.features ELSE 0]

IsFeature(n) == n.freebsd /\ n.type = NT_FREEBSD_FEATURE_CTL

(* One note appended to a file whose last segment it belongs to. *)
AddNote(f, n, type) ==
  [phdrs |-> [f.phdrs EXCEPT ![Len(f.phdrs)].filesz = @ + 4 * Len(NoteWords(n)),
                             ![Len(f.phdrs)].notes = @ \cup {Size(f)}],
   word |-> f.word \o NoteWords(n),
   desc |-> IF f.desc = None /\ type = PT_NOTE /\ IsFeature(n)
            THEN Size(f) + NHDR + 8 ELSE f.desc]

AddSegment(f, seg) ==
  FoldLeft(LAMBDA g, n : AddNote(g, n, seg.type),
           [f EXCEPT !.phdrs = Append(@, [type |-> seg.type, off |-> Size(f), filesz |-> 0,
                                          notes |-> {}])],
           seg.notes)

Linked(segs) ==
  FoldLeft(AddSegment, [phdrs |-> <<>>, word |-> <<>>, desc |-> None], segs)

----------------------------------------------------------------------------
(* What the tool may rely on: the layout the ELF format asks for. *)

(* The note at s is the one sought. *)
Sought(f, s) ==
  /\ WordAt(f, s) = 8 /\ WordAt(f, s + 8) = NT_FREEBSD_FEATURE_CTL
  /\ <<WordAt(f, s + NHDR), WordAt(f, s + NHDR + 4)>> = FreeBSDName

(* The bytes of the name and the descriptor of the note at s. *)
Body(f, s) == 4 * (Padded(WordAt(f, s)) + Padded(WordAt(f, s + 4)))

(* Notes fill a segment one after the other, each shorter than 2^32 bytes. *)
NoteSegment(f, ph) ==
  LET end == ph.off + ph.filesz
  IN /\ end <= Size(f)
     /\ ph.off \in ph.notes \cup {end}
     /\ \A s \in ph.notes :
          /\ ph.off <= s /\ s + NHDR <= end /\ Body(f, s) < Modulus
          /\ s + NHDR + Body(f, s) \in ph.notes \cup {end}
          /\ \A r \in ph.notes : r <= s \/ s + NHDR + Body(f, s) <= r
          /\ Sought(f, s) => WordAt(f, s + 4) >= 4

(* The notes sought in segment i; none in one of another type. *)
SoughtIn(f, i) ==
  {s \in f.phdrs[i].notes : f.phdrs[i].type = PT_NOTE /\ Sought(f, s)}

Proper(f) ==
  /\ f.word \in Seq(0 .. Modulus - 1)
  /\ f.phdrs \in Seq([type : Nat, off : Nat, filesz : Nat, notes : SUBSET Nat])
  /\ \A i \in DOMAIN f.phdrs : f.phdrs[i].type = PT_NOTE => NoteSegment(f, f.phdrs[i])
  /\ \/ f.desc = None /\ \A i \in DOMAIN f.phdrs : SoughtIn(f, i) = {}
     \/ \E i \in DOMAIN f.phdrs :
          /\ \A j \in 1 .. i - 1 : SoughtIn(f, j) = {}
          /\ \E s \in SoughtIn(f, i) : /\ f.desc = s + NHDR + 8
                                      /\ \A r \in SoughtIn(f, i) : s <= r

=============================================================================
