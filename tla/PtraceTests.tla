---------------------------- MODULE PtraceTests ----------------------------
(***************************************************************************)
(* The tests of cheriostest_ptrace.c, and ptrace_basic: a process forks a  *)
(* child, stops it, reads and writes its memory and registers, lets it go  *)
(* and waits for it.                                                       *)
(*                                                                         *)
(* Of memory and registers only the tags are kept, by slot; Wrong data     *)
(* stands for bits other than the tag that do not match.                   *)
(***************************************************************************)
EXTENDS Script, Sequences, Integers

VARIABLES
  tagged,   \* for each process, the slots of its memory and registers that have a tag
  wire      \* ptrace_basic's pipe: what waits for the test and for its child

traceVars == <<tagged, wire>>

PageEnd == 7                     \* the last slot of a page
Pcc == 10                        \* the slots of registers
Csp == 11
Reg == 12
Wrong == {-1}                    \* other bits differ, or the length does
Refused == {-2}                  \* ptrace() returned -1

TraceInit ==
  /\ tagged = [p \in Proc |-> {Pcc, Csp}]
  /\ wire = [up |-> FALSE, down |-> FALSE]

InheritTags == tagged' = [tagged EXCEPT !["kid"] = tagged["main"]] /\ UNCHANGED wire

Gone == end["kid"] \notin {"run", "stopped"}

----------------------------------------------------------------------------
(* The child of fork_child(). *)
TraceMe ==
  /\ At("kid", "traceme")
  /\ \/ Go("kid", reg["kid"]) /\ UNCHANGED bad
     \/ "call" \in flaw /\ bad' = bad \cup {"call"} /\ Die("kid")
  /\ UNCHANGED traceVars

RaiseStop ==
  /\ At("kid", "raise")
  /\ end' = [end EXCEPT !["kid"] = "stopped"] /\ todo' = [todo EXCEPT !["kid"] = Tail(@)]
  /\ UNCHANGED <<reg, page, bad, traceVars>>

WaitStopped ==
  /\ At("main", "waitstop") /\ end["kid"] # "run"
  /\ Verify("main", end["kid"] = "stopped")
  /\ UNCHANGED <<traceVars, bad>>

(* pp[i] = a capability, in the test's own memory before it forks. *)
PutCap ==
  /\ At("main", "putcap")
  /\ tagged' = [tagged EXCEPT !["main"] = @ \cup Arg("main", 1)] /\ Go("main", reg["main"])
  /\ UNCHANGED <<wire, bad>>

(* PIOD_READ_CHERI_CAP, PIOD_READ_CHERI_TAGS, PTRACE_PEEKCAP, PTRACE_GETREGSET, *)
(* and the comparison with the tags there should be.                            *)
Peek ==
  /\ At("main", "peek") /\ end["kid"] = "stopped"
  /\ LET slots == Arg("main", 1)
         there == slots \cap tagged["kid"]
     IN \E v \in {there, {}, slots, there \ {PageEnd}, Wrong, Refused} :
          /\ Does(v, there, [notag |-> {}, alltags |-> slots, pageend |-> there \ {PageEnd},
                             garbled |-> Wrong, call |-> Refused])
          /\ Verify("main", v = Arg("main", 2))
  /\ UNCHANGED traceVars

(* PIOD_WRITE_CHERI_CAP, PTRACE_POKECAP, PTRACE_SETREGSET: of the slots, some *)
(* with a tag.  In ptrace_writecap the memory is shared with the test.        *)
Poke ==
  /\ At("main", "poke") /\ end["kid"] = "stopped"
  /\ LET slots == Arg("main", 1)
         owners == IF Arg("main", 3) = "shared" THEN Proc ELSE {"kid"}
         Stored(tags) ==
           tagged' = [p \in Proc |-> IF p \in owners THEN (tagged[p] \ slots) \cup tags
                                     ELSE tagged[p]]
     IN \/ \E v \in {Arg("main", 2), {}, slots} :
             /\ Does(v, Arg("main", 2), [notag |-> {}, alltags |-> slots])
             /\ Stored(v) /\ Go("main", "done")
        \/ /\ flaw \cap {"call", "forge"} # {} /\ bad' = bad \cup (flaw \cap {"call", "forge"})
           /\ Go("main", "refused") /\ UNCHANGED tagged
  /\ UNCHANGED wire

(* map[0] and map[1], read by the test itself. *)
LookShared ==
  /\ At("main", "shared") /\ Verify("main", Arg("main", 1) \cap tagged["main"] = Arg("main", 2))
  /\ UNCHANGED <<traceVars, bad>>

(* is_running_on_qemu(). *)
QemuCheck ==
  /\ At("main", "qemu")
  /\ \/ Go("main", reg["main"]) /\ UNCHANGED bad
     \/ "qemu" \in flaw /\ sys.rvy /\ bad' = bad \cup {"qemu"} /\ Die("main")
  /\ UNCHANGED traceVars

Continue ==
  /\ At("main", "continue") /\ end["kid"] = "stopped"
  /\ \/ /\ end' = [end EXCEPT !["kid"] = "run"] /\ todo' = [todo EXCEPT !["main"] = Tail(@)]
        /\ UNCHANGED <<reg, page, bad>>
     \/ "call" \in flaw /\ bad' = bad \cup {"call"} /\ Die("main")
  /\ UNCHANGED traceVars

(* Mutant: waitpid(WNOHANG). *)
WaitExitedNow ==
  /\ At("main", "waitexit")
  /\ Verify("main", TRUE)
  /\ UNCHANGED <<traceVars, bad>>

WaitExited ==
  /\ At("main", "waitexit") /\ Gone
  /\ Verify("main", end["kid"] \in {"ok", "software"})
  /\ UNCHANGED <<traceVars, bad>>

(* The tracer is gone: FreeBSD kills the process it left stopped, Linux lets it go. *)
TracerGone ==
  /\ Ended /\ end["kid"] = "stopped"
  /\ end' = [end EXCEPT !["kid"] = IF FreeBSD THEN "killed" ELSE "run"]
  /\ UNCHANGED <<todo, reg, page, bad, traceVars>>

----------------------------------------------------------------------------
(* ptrace_basic.  Its pipe goes both ways on FreeBSD only. *)

SendC ==
  /\ At("kid", "sendc") /\ wire' = [wire EXCEPT !.up = TRUE] /\ Go("kid", reg["kid"])
  /\ UNCHANGED <<tagged, bad>>

ReadC ==
  /\ At("main", "readc") /\ wire.up /\ Go("main", reg["main"])
  /\ UNCHANGED <<traceVars, bad>>

(* read(pfd[1]): on Linux that end cannot be read; c is then uninitialised, *)
(* and the assert on it may hold or not.                                    *)
ReadX ==
  /\ At("kid", "readx")
  /\ \/ wire.down /\ end' = [end EXCEPT !["kid"] = "software"]
     \/ ~FreeBSD /\ \E how \in {"signal", "software"} : end' = [end EXCEPT !["kid"] = how]
  /\ UNCHANGED <<todo, reg, page, bad, traceVars>>

(* waitpid(WNOHANG | WNOWAIT): the status must still be zero.  It is too if *)
(* Linux does not take the option.                                          *)
StillThere ==
  /\ At("main", "stillthere")
  /\ \/ Verify("main", ~Gone)
     \/ ~FreeBSD /\ Verify("main", TRUE)
  /\ UNCHANGED <<traceVars, bad>>

Attach ==
  /\ At("main", "attach")
  /\ IF Gone THEN Die("main")
     ELSE /\ end' = [end EXCEPT !["kid"] = "stopped"]
          /\ todo' = [todo EXCEPT !["main"] = Tail(@)] /\ UNCHANGED <<reg, page>>
  /\ UNCHANGED <<traceVars, bad>>

(* PT_KILL, and the message in case it does not do it. *)
PtKill ==
  /\ At("main", "ptkill")
  /\ \E how \in {"killed", "run"} :
       /\ Does(how, "killed", [ptkill |-> "run"])
       /\ end' = [end EXCEPT !["kid"] = how]
  /\ todo' = [todo EXCEPT !["main"] = Tail(@)]
  /\ wire' = [wire EXCEPT !.down = FreeBSD]
  /\ UNCHANGED <<reg, page, tagged>>

WaitKilled ==
  /\ At("main", "waitkilled") /\ Gone
  /\ Verify("main", end["kid"] = "killed")
  /\ UNCHANGED <<traceVars, bad>>

TraceStep(p) ==
  \/ p = "main" /\ \/ WaitStopped \/ PutCap \/ Peek \/ Poke \/ LookShared \/ QemuCheck
                   \/ Continue \/ WaitExited \/ ReadC \/ StillThere \/ Attach \/ PtKill
                   \/ WaitKilled
  \/ p = "kid" /\ (TraceMe \/ RaiseStop \/ SendC \/ ReadX)

----------------------------------------------------------------------------
fork_child ==
  <<<<"fork", <<<<"traceme">>, <<"raise">>, <<"leave", "ok">>>>>>, <<"waitstop">>>>
finish_child == <<<<"continue">>, <<"waitexit">>>>

See(slots, want) == <<<<"peek", slots, want>>>>
Set(slots, tags, where) == <<<<"poke", slots, tags, where>>, <<"want", {"done"}>>>>

ptrace_readcap ==
  Plain("ptrace_readcap",
        <<<<"putcap", {0}>>>> \o fork_child \o See({0, 1}, {0}) \o finish_child \o Success)
ptrace_readtags ==
  Plain("ptrace_readtags",
        <<<<"putcap", {0, 2}>>>> \o fork_child \o See(0 .. 7, {0, 2}) \o finish_child \o Success)
ptrace_readcap_pageend ==
  Plain("ptrace_readcap_pageend",
        <<<<"putcap", {PageEnd}>>>> \o fork_child \o See({PageEnd}, {PageEnd})
        \o finish_child \o Success)
ptrace_writecap ==
  Plain("ptrace_writecap",
        <<<<"call">>, <<"call">>, <<"call">>>> \o fork_child \o <<<<"call">>>>
        \o Set({0, 1}, {0}, "shared") \o <<<<"shared", {0, 1}, {0}>>>>
        \o finish_child \o Success)

ptrace_getcapregs ==
  Plain("ptrace_getcapregs",
        fork_child \o See({Pcc, Csp}, {Pcc, Csp}) \o finish_child \o Success)

(* On RISC-V success is declared before the registers are read again. *)
ptrace_setcapregs(riscv) ==
  Plain(IF riscv THEN "ptrace_setcapregs_riscv" ELSE "ptrace_setcapregs",
        (IF riscv THEN <<<<"qemu">>>> ELSE <<>>)
        \o fork_child \o <<<<"call">>, <<"poke", {Reg}, {Reg}, "own">>>>
        \o (IF riscv THEN Success ELSE <<>>)
        \o <<<<"want", {"done"}>>>> \o See({Reg}, {Reg}) \o Set({Reg}, {}, "own")
        \o finish_child \o Success)

ptrace_peekcap ==
  Plain("ptrace_peekcap",
        <<<<"putcap", {1}>>>> \o fork_child \o See({0}, {}) \o See({1}, {1})
        \o finish_child \o Success)

(* The first call is ptrace_forge_cap_sysctl_exists(). *)
ptrace_pokecap ==
  Plain("ptrace_pokecap",
        <<<<"call">>>> \o fork_child \o Set({0}, {0}, "own") \o See({0}, {0})
        \o finish_child \o Success)

ptrace_basic ==
  TestOf("ptrace_basic", FALSE, FreeBSD,
         <<<<"call">>, <<"fork", <<<<"sendc">>, <<"readx">>>>>>, <<"readc">>, <<"stillthere">>,
           <<"attach">>, <<"waitstop">>, <<"ptkill">>, <<"waitkilled">>>> \o Success)

PtraceTestSet ==
  {ptrace_basic}
  \cup IF FreeBSD
       THEN {ptrace_readcap, ptrace_readtags, ptrace_readcap_pageend, ptrace_writecap}
       ELSE {ptrace_getcapregs, ptrace_setcapregs(FALSE), ptrace_setcapregs(TRUE),
             ptrace_peekcap, ptrace_pokecap}

=============================================================================
