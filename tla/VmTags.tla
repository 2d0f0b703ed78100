------------------------------- MODULE VmTags -------------------------------
(***************************************************************************)
(* The tests of cheriostest_vm.c about tags in mapped memory: which        *)
(* mappings keep them, whether they survive aliasing, copy on write, fd    *)
(* passing, read(2) and write(2), and other ways between processes.        *)
(*                                                                         *)
(* One object is enough: no test has two.  It and a private copy of it are *)
(* three words each; a word, like a register, is "null", a capability        *)
(* ("tag") or its untagged bits ("clear").                                 *)
(***************************************************************************)
EXTENDS Script

CONSTANT Attempts   \* 10 in create_named_shm_obj()

VARIABLES
  mem,   \* [obj, by, copy]: the object, who stored in it, private copies
  maps,  \* the mappings, by name: [shared, caps]
  chan,  \* what waits for each process in the socket, kqueue or sigaction table
  shm    \* [name, tries, rival]: the shm object's name: "free", "ours", "other"

tagVars == <<mem, maps, chan, shm>>

Blank == [w \in 0..2 |-> "null"]

TagInit ==
  /\ mem = [obj |-> Blank, by |-> "main", copy |-> <<>>]
  /\ maps = <<>> /\ chan = [p \in Proc |-> "empty"]
  /\ shm = [name |-> "free", tries |-> 0, rival |-> FALSE]

(* f with f[x] = v, whether or not x was in its domain. *)
With(f, x, v) == [y \in DOMAIN f \cup {x} |-> IF y = x THEN v ELSE f[y]]

----------------------------------------------------------------------------
(***************************************************************************)
(* gen_shm_obj_name() puts its random letters behind the terminating zero  *)
(* of what strcpy() wrote, so every process of every run uses one name.    *)
(* Another run of the suite, or one that was killed, may hold it.  That    *)
(* matters only while this one asks for it.                                *)
(***************************************************************************)
RivalTakes ==
  /\ ~shm.rival /\ shm.name = "free"
  /\ At("main", "shm_create") \/ At("main", "shm_open")
  /\ shm' = [shm EXCEPT !.name = "other", !.rival = TRUE]
  /\ UNCHANGED <<mem, maps, chan, todo, reg, page, end, bad>>

RivalDrops ==
  /\ shm.name = "other"
  /\ shm' = [shm EXCEPT !.name = "free"]
  /\ UNCHANGED <<mem, maps, chan, todo, reg, page, end, bad>>

(* A round of create_named_shm_obj(): the last one fails even if it did    *)
(* create the object.                                                      *)
ShmCreate ==
  /\ At("main", "shm_create")
  /\ LET got == shm.name = "free" IN
     /\ shm' = [shm EXCEPT !.tries = @ + 1, !.name = IF got THEN "ours" ELSE @]
     /\ \/ shm.tries + 1 = Attempts /\ Die("main")
        \/ shm.tries + 1 # Attempts /\ got /\ Go("main", reg["main"])
        \/ /\ shm.tries + 1 # Attempts /\ ~got
           /\ UNCHANGED <<todo, reg, page, end>>
  /\ UNCHANGED <<mem, maps, chan, bad>>

(* A single shm_open(O_CREAT | O_EXCL). *)
ShmOpen ==
  /\ At("main", "shm_open")
  /\ shm' = IF shm.name = "free" THEN [shm EXCEPT !.name = "ours"] ELSE shm
  /\ Verify("main", shm.name = "free")
  /\ UNCHANGED <<mem, maps, chan, bad>>

(* Mutant: shm_unlink() is left out. *)
ShmUnlinkNone ==
  /\ At("main", "shm_unlink")
  /\ Go("main", reg["main"])
  /\ UNCHANGED <<mem, maps, shm, chan, bad>>

ShmUnlink ==
  /\ At("main", "shm_unlink")
  /\ shm' = [shm EXCEPT !.name = "free"]
  /\ Go("main", reg["main"])
  /\ UNCHANGED <<mem, maps, chan, bad>>

----------------------------------------------------------------------------
(* <<"mmap", name, shared, prot, kind>>.  Private mappings may hold        *)
(* capabilities unless asked not to; shared ones if asked to, and on       *)
(* CheriBSD, unasked, those that are no file.                              *)
Mmap(p) ==
  /\ At(p, "mmap")
  /\ LET shared  == Arg(p, 2)
         prot    == Arg(p, 3)
         unasked == shared /\ prot = "" /\ Arg(p, 4) # "file"
         caps    == IF prot = "cap" \/ (prot = "" /\ ~shared) THEN "yes"
                    ELSE IF unasked /\ "implied" \in flaw THEN "implied" ELSE "no"
     IN \/ /\ maps' = With(maps, Arg(p, 1), [shared |-> shared, caps |-> caps])
           /\ Go(p, reg[p]) /\ bad' = bad
        \/ "call" \in flaw /\ bad' = bad \cup {"call"} /\ Die(p) /\ UNCHANGED maps
  /\ UNCHANGED <<mem, chan, shm>>

Munmap(p) ==
  /\ At(p, "munmap")
  /\ maps' = [x \in DOMAIN maps \ {Arg(p, 1)} |-> maps[x]]
  /\ Go(p, reg[p])
  /\ UNCHANGED <<mem, chan, shm, bad>>

(* Take the right to store capabilities away. *)
Mprotect(p) ==
  /\ At(p, "mprotect")
  /\ \E caps \in {"yes", "no"} :
       /\ Does(caps, "no", [sticky |-> "yes"])
       /\ maps' = [maps EXCEPT ![Arg(p, 1)].caps = caps]
  /\ Go(p, reg[p])
  /\ UNCHANGED <<mem, chan, shm>>

(* A combination of protections that mmap() must refuse. *)
Refuse(p) ==
  /\ At(p, "refuse")
  /\ \E r \in {"refused", "mapped"} :
       Does(r, "refused", [lax |-> "mapped"]) /\ Verify(p, r = "refused")
  /\ UNCHANGED tagVars

----------------------------------------------------------------------------
(* What is seen through mapping m. *)
Words(m) == IF ~maps[m].shared /\ m \in DOMAIN mem.copy THEN mem.copy[m]
            ELSE mem.obj

Untag(v) == IF v = "tag" THEN "clear" ELSE v
Strip(ws) == [w \in DOMAIN ws |-> Untag(ws[w])]

InObject(p, w, v) == [mem EXCEPT !.obj[w] = v, !.by = p]
InCopy(m, ws, w, v) == [mem EXCEPT !.copy = With(@, m, [ws EXCEPT ![w] = v])]

(* Storing a capability through a mapping that may hold one. *)
StoreCap(p, m, w) ==
  IF maps[m].shared
  THEN /\ Does(mem', InObject(p, w, "tag"), [lost |-> InObject(p, w, "clear")])
  ELSE /\ Does(mem', InCopy(m, Words(m), w, "tag"),
               [lost    |-> InCopy(m, Words(m), w, "clear"),
                cowlost |-> InCopy(m, Strip(Words(m)), w, "tag"),
                through |-> InObject(p, w, "tag")])

(* And through one that may not: RVY drops the tag, others trap.  A kernel *)
(* that lost the protection lets the tag out again as well.                *)
StoreDenied(p, m, w) ==
  LET put(v) == IF maps[m].shared THEN InObject(p, w, v)
                ELSE InCopy(m, Words(m), w, v)
  IN \/ /\ sys.rvy /\ mem' = put("clear") /\ Go(p, reg[p])
        /\ UNCHANGED <<bad, maps>>
     \/ ~sys.rvy /\ Trap(p) /\ UNCHANGED <<bad, maps, mem>>
     \/ /\ "kept" \in flaw /\ mem' = put("tag") /\ Go(p, reg[p])
        /\ bad' = bad \cup {"kept"}
        /\ maps' = [maps EXCEPT ![m].caps = "yes"]

Store(p) ==
  /\ At(p, "store")
  /\ LET m == Arg(p, 1)
         w == Arg(p, 2)
     IN \/ /\ maps[m].caps = "yes" /\ StoreCap(p, m, w)
           /\ Go(p, reg[p]) /\ UNCHANGED maps
        \/ /\ maps[m].caps = "implied"
           /\ mem' = InObject(p, w, "tag")
           /\ bad' = bad \cup {"implied"} /\ Go(p, reg[p]) /\ UNCHANGED maps
        \/ maps[m].caps = "no" /\ StoreDenied(p, m, w)
  /\ UNCHANGED <<chan, shm>>

(* A tag another process put into the object should not arrive here. *)
Load(p) ==
  /\ At(p, "load")
  /\ LET m == Arg(p, 1)
         v == Words(m)[Arg(p, 2)]
         foreign == maps[m].shared /\ mem.by # p
         right == IF maps[m].caps = "no" \/ foreign THEN Untag(v) ELSE v
     IN \E r \in {"null", "clear", "tag"} :
          /\ Does(r, right, [alias   |-> IF maps[m].shared /\ right = "tag" THEN "null" ELSE right,
                             survive |-> IF foreign THEN v ELSE right])
          /\ Go(p, r)
  /\ UNCHANGED <<mem, maps, chan, shm>>

(* Bytes go through read() and write() without their tags. *)
ReadFd(p) ==
  /\ At(p, "read")
  /\ LET v == mem.obj[0] IN
     \E r \in {"null", "clear", "tag"} :
       Does(r, Untag(v), [rdtag |-> v, garbled |-> "null"]) /\ Go(p, r)
  /\ UNCHANGED tagVars

WriteFd(p) ==
  /\ At(p, "write")
  /\ Does(mem', InObject(p, 0, "clear"),
          [wrtag |-> InObject(p, 0, "tag"), garbled |-> InObject(p, 0, "null")])
  /\ Go(p, reg[p])
  /\ UNCHANGED <<maps, chan, shm>>

----------------------------------------------------------------------------
(* socketpair(); its failure is compared away and goes unnoticed here. *)
Socketpair ==
  /\ At("main", "socketpair")
  /\ \E c \in {"empty", "broken"} :
       Does(c, "empty", [socket |-> "broken"]) /\ chan' = [p \in Proc |-> c]
  /\ Go("main", reg["main"])
  /\ UNCHANGED <<mem, maps, shm>>

(* sendmsg(), EV_SET and sigaction() put something where the other process *)
(* finds it.                                                               *)
Pass(p) ==
  /\ At(p, "pass")
  /\ \/ chan[p] = "broken" /\ Die(p) /\ UNCHANGED chan
     \/ /\ chan[p] # "broken"
        /\ chan' = [chan EXCEPT ![Other(p)] = Arg(p, 1)] /\ Go(p, reg[p])
  /\ UNCHANGED <<mem, maps, shm, bad>>

(* A capability should have lost its tag on the way. *)
Arrive(p) ==
  \E r \in {"fd", "clear", "tag"} :
    /\ Does(r, IF chan[p] = "fd" THEN "fd" ELSE "clear", [survive |-> chan[p]])
    /\ Go(p, r)

(* recvmsg() and kevent() block until there is something. *)
Receive(p) ==
  /\ At(p, "receive") /\ chan[p] \notin {"empty", "broken"}
  /\ chan' = [chan EXCEPT ![p] = "empty"] /\ Arrive(p)
  /\ UNCHANGED <<mem, maps, shm>>

(* When the other side has gone the call fails or, on some systems, blocks *)
(* for ever; without a socket it fails.                                    *)
ReceiveFails(p) ==
  /\ At(p, "receive")
  /\ chan[p] = "broken" \/ (chan[p] = "empty" /\ end[Other(p)] # "run")
  /\ Die(p)
  /\ UNCHANGED <<mem, maps, chan, shm, bad>>

(* sigaction(SIGUSR1, NULL, &sa): nothing there is a null handler. *)
Lookup(p) ==
  /\ At(p, "lookup")
  /\ \/ chan[p] = "empty" /\ Go(p, "null") /\ bad' = bad
     \/ chan[p] # "empty" /\ Arrive(p)
  /\ UNCHANGED tagVars

(* free() and malloc_revoke_quarantine_force_flush(): every copy of the    *)
(* capability is to be revoked, the test's own, which comes back in the    *)
(* register, and one in an unmapped object too.                            *)
Flush(p) ==
  /\ At(p, "flush")
  /\ LET swept == [mem EXCEPT !.obj = Strip(@)] IN
     \/ \E left \in {mem, swept}, own \in {"clear", "tag"} :
          /\ Does(<<left, own>>, <<swept, "clear">>,
                  [hoard |-> <<mem, "clear">>, spared |-> <<swept, "tag">>])
          /\ mem' = left /\ Go(p, own)
     \/ "call" \in flaw /\ bad' = bad \cup {"call"} /\ Die(p) /\ UNCHANGED mem
  /\ UNCHANGED <<maps, chan, shm>>

(* The sigaction table read back by the process that filled it. *)
ReadBack(p) ==
  /\ At(p, "readback")
  /\ \E r \in {"same", "other"} :
       Does(r, "same", [mangle |-> "other"]) /\ Verify(p, r = "same")
  /\ UNCHANGED tagVars

(* The tag, the length and the permissions of what mmap() returned. *)
Returned(p) ==
  /\ At(p, "returned")
  /\ \E r \in {"good", "bad"} :
       Does(r, "good", [handle |-> "bad"]) /\ Verify(p, r = "good")
  /\ UNCHANGED tagVars

TagStep(p) ==
  \/ Mmap(p) \/ Munmap(p) \/ Mprotect(p) \/ Refuse(p) \/ Store(p) \/ Load(p)
  \/ ReadFd(p) \/ WriteFd(p) \/ Pass(p) \/ Receive(p) \/ Lookup(p) \/ Flush(p) \/ ReadBack(p)
  \/ Returned(p)
  \/ p = "main" /\ (ShmCreate \/ ShmOpen \/ ShmUnlink \/ Socketpair)

TagEnvStep == RivalTakes \/ RivalDrops \/ \E p \in Proc : ReceiveFails(p)

=============================================================================
