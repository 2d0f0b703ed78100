# cheriostest in TLA+

`cheriostest` is a conformance test suite for CHERI operating systems
(CheriBSD, Morello Linux). One binary holds all tests. A *controller* process
runs each selected test in a process of its own, learns what happened from a
page of shared memory, a pipe and the wait status, and prints a verdict. The
tests themselves exercise the kernel's treatment of capabilities: tags across
mappings and copies, reservations, revocation, signals, ptrace, spawning.

This directory models the suite's own logic, checks it with TLC on small
instances and proves the most important facts for all instances with TLAPS.

## Inventory

| Component | State it keeps | Operations | Interacts with |
|---|---|---|---|
| Controller (`cheriostest.c` 270-701, 930-1186) | counters `tests_*`, `expected_failures`, five string lists, the current test's `xfail_reason`, `flaky_reason`, `reason`, two pipes, libxo instances | start a test, reject/skip/pass over it, make pipes, fill stdin, fork, wait, judge in five stages, print, clean up, finish | forks test processes; reads the shared page and the pipe |
| Test process and reporting API (`cheriostest_util.c`, `signal_handler`) | the page `*ccsp`, stdio buffer, exit status | `cheriostest_success*`, `cheriostest_failure_*`, `set_expected_si_addr`, caught signal, exit | controller; processes the test forks itself share the same page, pipe and handlers |
| Driver (`main` options, `list_tests`) | option flags | parse, validate, select tests by name, glob or all | feeds the controller its plan |
| Spawn (`mk_exec_args`, `spawn_child_args`, `cheriostest_run_child`) | argument vector, pid | spawn this binary again in four ways and run a child function; there `ccsp` is NULL | tests in `cheriostest_internal.c`, `cheriostest_vm.c` |
| Address-space gap search (`cheriostest_util_vm.c`) | list of mapped ranges | find a gap of a given length and alignment | VM tests |
| VM tests (`cheriostest_vm.c`) | mappings, tags, shared objects, reservations, revocation epochs and shadow bits | mmap/fork/revoke sequences | kernel |
| ptrace, signal, IPC, syscall tests | tracee state, handlers, pipes | attach/continue/wait handshakes | kernel, forked processes |
| Allocator tests (`cheriostest_malloc.c`) | allocations, quarantine, helper programs | free and flush; run a helper with its ELF note and `procctl()` | allocator, kernel, `set-feature-ctl-note` |
| `tls_threads` | mutex, condition variable, `thread_done` | two threads hand each other the turn | threads library |
| String and memory-copy tests | the structure copied to | overwrite, copy, check | libc, kernel |
| Capability, bounds, formatting, CheriABI tests | none beyond local memory | single probes | CPU, compiler, libc |
| `set-feature-ctl-note` | an ELF file | find the note, set or clear bits | malloc revocation-control tests |

What is hard in this code: one page is shared by *all* tests and by everything
they fork, with no generation number and no lock; the controller waits only
for the process it forked, so others may outlive a test; SIGALRM can interrupt
the reporting functions and `exit()`; the pipe is read only after the child has
ended; error paths jump past initialisation and clean-up. The tests themselves
fork, trace, signal and revoke beside an asynchronous kernel worker, and can be
wrong in two ways: they fail on a right system, or pass on a wrong one. `PROJECT.json`
(`hazards`) lists these at their lines with the properties aimed at them.

## Modules

`Verdict` - the decision procedure as pure operators: declared failure,
SIGEXIT, wait status, signal fields, reported result, output. One operator per
block of `cheriostest_run_test()`.

`TestProcess` - the processes. `Proc` has, for every run `r`, the child
`<<r,"c">>` the controller forks and one process `<<r,"g">>` the test may fork
itself. A descriptor (`struct cheri_test`) carries, besides the C fields, the
set of operations its functions may perform, so that one action per operation
covers every order of calls. The reporting functions are split at each store
to the shared page, because a signal or another process can come in between;
`signal_handler()` is one step. `exit()` moves the stdio buffer into the pipe
chunk by chunk and blocks when it is full; `_exit()` (also in the handler)
drops the buffer. A *chunk* of output and a *message* are the number of the
run that produced them, which is all the properties need to tell apart. A
forked process inherits buffer, handlers, page and pipe. `sig_by`, `res_by`
and `failers` are history: they record who wrote what and decide nothing.

`Harness` - the controller, composed with `TestProcess`. `pc` names the
place in `cheriostest_run_test()`; each action is one block of it with all its
effects. Undefined behaviour is a choice: on the path of a rejected test name
`flaky_reason` is any value and the two `close()` calls hit nothing or up to
two open descriptors. `cnt` are the counters, `verdict`/`reasons`/`warned` the
printed lines and string lists, `xo` the libxo instances, `nfd` the open
descriptors. `pipe()` fails at the descriptor limit, `fork()` may fail at any
time; both end the program with EX_OSERR.

`TestSuite` - what the harness promises, without processes: tests start in
order, each gets one verdict its descriptor allows, the exit status tells
whether a test failed. `HarnessProps` instantiates it WITH the controller's
`plan`, `cur`, `verdict` and `exitcode`; everything else is internal to the
implementation. `harness_core` checks `ImplementsTestSuite`.

`HarnessProps` - types, invariants, the temporal property, the refinement;
`MCHarness` - small suites; `HarnessInv` - the inductive invariants of the
proofs; `HarnessProofs` (types, evidence, records, counters, descriptors,
refinement) and `ReportProofs` (output, passes, failures) - the theorems.

`Driver` - `main()` up to the first test. `argv` holds the words not yet
consumed, `flags` the option letters seen; `GetOpt` is one round of the option
loop, `Check` the tests on combinations of options together with
`list_tests()`, `RunChild` is `cheriostest_run_child_name()`, `RunTests` sets
`plan`, the names the controller gets. External: `getopt()` (stops at the first
argument) and `fnmatch()` (the constant `Matches`).

`Spawn` - extends `Driver` with a test that starts this program again:
`mk_exec_args()`, the four ways of `cheriostest_spawn_child_args()` and the
check of the child's status. Once the child image runs, the variables of
`Driver` are its own, so the child parses the very words the parent wrote. A
copy whose `execve()` failed goes on *inside the test* and is modelled as such.
Undefined behaviour is a choice: a store past the end of the argument vector
faults or goes unnoticed; after a failed `execve()` under `vfork()` the parent
continues or faults.

`AddressGap` - `find_address_space_gap()` for FreeBSD (a snapshot, scanned
upwards) and Linux (lines read one after the other while `malloc()` may map
more, scanned downwards), in `Width`-bit arithmetic. External: the kernel's map
`vm`, and the representable length and alignment as constant operators.

`Revocation` - the `cheri_revoke_lib` family. A test is a script of phases
(`LOAD_ONCE`, `LOAD_SPLIT`, its two halves, fork, exec); the loop of
`cheriostest_cheri_revoke_lib_run()` has one action per stage. External: the
revoker, which may err in the ways `Faults` names and then records it in the
history variable `bad`, so that both directions can be asked: does a right
kernel always pass, and is a wrong one always found.

`Script` - the frame of all other tests of the system. A test is a sequence of
steps for the process the controller forked and, where it forks, for that
process's child; each step is one call or one check of the test, and the
modules below give the steps their meaning. `Script` has the steps every family
shares: the checks (`CHERIOSTEST_VERIFY` and its relatives), success, failure,
fork, wait, exit, and what `Verdict` makes of the end. The system under test is
external: at each operation it does the right thing or, if the constant set
`flaw` allows, one of the named wrong ones, which the history variable `bad`
records. `sys` is what the suite was compiled for, so `#ifdef` is a condition.

`VmTags` / `VmTagTests` - tags in memory: mappings with and without `PROT_CAP`,
aliases, copy on write, files, descriptors passed to another process, read and
write, kqueue and sigaction; steps and the tests made of them. The name of the
shm object, which other runs of the suite want too, is part of the state.

`Reservation` / `ReservationTests` - `mmap()` with hints of every kind over
free, mapped, half-unmapped, freed and quarantined pages, and what a revocation
gives back.

`RevokeSteps` / `RevokeTests` - the revocation tests outside the library: full,
split, load-side and asynchronous, capability-dirty pages, capabilities the
kernel holds, copy on write. The asynchronous worker and the thread that forks
beside it are actors of their own.

`VmSuite` - these three families together; one test of any family runs.

`PtraceTests` - tracer and tracee: stop, read and write tags in memory and
registers, continue, wait. `SignalTests` - handlers, masks, pending signals,
alternate stacks, timers, an asynchronous read, a blocked pipe write.
`FeatureNote` - `set-feature-ctl-note` as operators on an ELF file of words
that wrap. `MallocTests` - quarantine and flush, and helper programs whose note
`FeatureNote` edits. `TlsThreads` - two threads, a mutex and a condition
variable with spurious wake-ups. `StringCopy` - copies of a structure with a
capability over offsets and lengths. `SysSuite` - these together.

`MCSpawn`, `MCAddressGap`, `MCRevocation`, `MCVmSuite` and `MCSysSuite` give
these their small instances; `SpawnProofs`, `GapProofs`, `RevocationProofs`,
`VmProofs` and `SysProofs` hold their invariants and theorems. `ScriptOrder` has
the notions about the order of steps that the last two share, `ScriptProofs` the
lemmas about them.

Operators commented "Mutant" are deliberately broken variants of the definition
that follows them; no specification uses them. Each shows that a property can
fail: with the variant in place of the definition TLC finds it violated.

## Runs

| Run | Question | Result |
|---|---|---|
| `harness_core` | All kinds of tests on all paths, two in a row, with `-f`, some leaving quiet processes behind: `TypeOK`, `PassIsEarned`, `ExcuseRespected`, `Accounting`, `FdBalance`, `InstancesClosed`, `EvidenceIsOwn`, `OutputIsOwn`, `ImplementsTestSuite` | holds |
| `harness_live` | Forked processes may declare failure or fault, processes block for ever with and without an alarm, output and input exceed the pipe: `FailureIsReported`, and `SuiteEnds` under fairness | holds |
| `orphan_evidence` | `EvidenceIsOwn` when forked processes report (`cheri_revoke_async_fork`) | violated: finding |
| `ignored_failure` | `FailureIsReported` when the status is ignored (`vm_cap_share_sigaction`) | violated: finding |
| `prefix_excused` | `XfailHasReason` | violated: uninitialised `flaky_reason` |
| `gap` | The gap found is free, aligned and the extreme one; failure means there is none: `FoundIsFree`, `FailsOnlyIfFull`, `FoundIsExtreme` | holds |
| `spawn` | A child image always has the name it looks up (`ChildHasName`), parses what the parent meant (`ChildRoundTrip`), and a pass means its function ran (`PassMeansChildRan`) | holds |
| `spawn_args` | Spawning gets to the child: `SpawnReachesChild` | violated: the vector is one word short with `-K -c -v` |
| `revoke_lib` | A right kernel is never blamed (`NoFalseAlarm`), a wrong one never passes (`FaultsAreSeen`) | holds |
| `vm_tests` | The tests of `VmSuite`: a right kernel does not fail them (`RightKernelNotFailed`), an error is reported (`ErrorsReported`), a pass leaves no process or thread (`PassLeavesNobody`) and the shm name is free again (`NameGivenBack`); each test ends (`TestEnds`) | holds, but for named exceptions |
| `sys_tests` | The tests of `SysSuite`: `RightSystemNotFailed`, `WrongSystemFound`, a pass has seen its child end (`ChildSeenOff`), the tool changes one bit of one note (`OneBitOfTheNote`), each test ends (`EveryTestEnds`) | holds, but for named exceptions |
| `partial_copy` | A copy that leaves bytes out is found: `PartialCopyFound` | violated: `invalidate()` overwrites one byte only |

The exceptions of `vm_tests` and `sys_tests` are part of the result: they record
what the tests miss, and only what is outside them is shown to be caught. An
error enters `bad` in the step in which the system commits it, whether or not
the test ever looks. `Blind` and `Unseen` list, test by test, the errors a test
makes the system commit and does not look at (so `cheri_revoke_loadside` fills
`crsi` and never reads it, and `cow_mapping` never asks whether the page it
wrote was paged out); no entry of `Blind` is idle: for each, TLC reaches a pass
that it excuses. `Racing` and `Mistaken` are the tests that can fail on a right
system;
`Known` and `SysKnown` the errors a system is known to have, which the tests'
own `ct_xfail_reason` announces. Each entry is one of the divergences below or
a limit of what the test observes. With an `invalidate()` that advances its
pointer `PartialCopyFound` holds.

Bounds of the harness. Two runs are enough for every property: each relates one
run to the one before it, or counts. One or two output chunks against a pipe of
one or two reach "empty", "fits", "cut off" and "full". `MaxFd` 8 lets the
first leak make `pipe()` fail. One forked process per test is what every test
in the repository has alive at a time. Two signals: one caught fault and
SIGALRM.

Bounds of `gap`: every map of two ranges and every map of three short ones below
`UserTop` 7, so the first, a middle and the last hole can each be the one that
fits; the alignments of 1, 2 and 4 make rounding pass the end of a hole, and
`Width` 4 makes the difference wrap if the code did not test for that. Of
`spawn`: up to three options and two arguments, so every pair of options that
conflict and the one triple that overflows are there; the words passed on
include one that looks like an option. Of `revoke_lib`: four granules in chunks
of one to three give one to four chunks, so there is always a run with
something below, inside and above the chunk; the scripts are those of all nine
tests of the family.

Bounds of `vm_tests`: `Attempts` 3 in place of 10 reaches the first, a middle and
the last attempt. `Top` 13 pages hold four of the largest reservation a test
makes (`Big` 3), with a neighbour. `LargeSizes` 0 to 2 larger page sizes: none,
one, and one more round of the loop. `MaxEpoch` 4 lets an asynchronous request
find the epoch before, at and after the one it waits for. The kernel has one
error at a time, and one pair that only shows together; errors are independent
otherwise, since a test stops at the first it sees. Of `sys_tests`: binaries
with no note, one and several, of this and of another vendor, with sizes that
need padding, each bit set, both, or neither. `Modulus` 1024 in place of 2^32:
sizes that wrap are expressible but no linker writes them, and the binaries
have none. `Pad` 4 and `CapSize` 2 in place of 32 and 16 keep the order of all
offsets the tests use, aligned and not.

Fairness of the harness (`FairSpec`): weak fairness of the controller and of each
process that can move - the kernel schedules runnable processes. A process in a
test that `MayBlock` may stay there for ever, and a `write()` to a full pipe
need not return: `StdinFails` may happen and is never forced. The one thing that
frees a blocked process is an alarm its test armed, which does go off
(`AlarmGoesOff`); most tests arm none. `SuiteEnds` allows three ways to hang,
all real and all reached in the run: a child stuck on a full output pipe that
is read only after its end (`PipeFull`), a child blocked in the test itself or
waiting for a process that is (`BodyBlocked`), the controller stuck filling the
stdin of a test it has not started (`StdinFull`). The first two are no longer
possible once an alarm is armed, and a process of an earlier test that stays
blocked holds up nothing.

Fairness of `VmSuite`: weak fairness of each process, of the forking thread and
of the kernel's sweep. That the worker closes an epoch of its own accord, that
the thread forks once more and that another run takes the shm name are chances,
without fairness. `TestEnds` excepts a parent that waits for a descriptor from
a process already gone. Of `SysSuite`: strong fairness of each process or
thread, because one that asks for a mutex that is free again and again gets it
at last (weak fairness would let the other overtake it for ever); weak fairness
of timers and of the delivery of signals. Spurious wake-ups are chances.
`EveryTestEnds` excepts a system where SIGUSR1 does not kill: the test waits
for ever by its own design.

## Proofs

Each theorem is `Spec => []P` for a property `P` that a run checks (or, for the
refinement, `Spec => ImplementsTestSuite`; `SearchIsRight` is about an operator), for every value of the constants
that satisfies the named assumptions of its module. The pattern is always the
same: an inductive invariant, checked by TLC on the run's instance first, one
lemma per kind of step that keeps it, and a last step that reads `P` off it.

### The harness (`HarnessProofs`, `ReportProofs`)

| Theorem | States | Hypotheses | Inductive invariant |
|---|---|---|---|
| `TypeCorrect` | `TypeOK` | none | `TypeInv`: with `FdInv`, how many descriptors there are to be closed at each place |
| `OwnEvidence` | `EvidenceIsOwn` | `QuietForks` | `EvidenceInv` |
| `ExcusesRespected` | `ExcuseRespected` | none | `LedgerInv` |
| `InstancesAreClosed` | `InstancesClosed` | none | `ClosedBefore` |
| `DescriptorsBalance` | `FdBalance` | none | `FdsInv` |
| `AccountsAddUp` | `Accounting` | none | `CountInv` with `LedgerInv` |
| `HarnessImplementsSuite` | `ImplementsTestSuite` | none | `LedgerInv`, `CountInv` |
| `OutputStaysOwn` | `OutputIsOwn` | none | `OwnText` |
| `PassesAreEarned` | `PassIsEarned` | `QuietForks`, `RealSignals` | `EarnedInv` with `EvidenceInv` |
| `FailuresAreReported` | `FailureIsReported` | `FailuresJoined` | `ReportInv` |

`EvidenceInv`: a child is alive only while the controller waits for that very
child (`OneChild`); everything else alive is a forked process outside the
reporting functions (`ForkedQuiet`); only registered tests were started
(`StartedKnown`); the page holds only the current run's marks from `bzero()` on
(`PageOwn`).

`LedgerInv`: runs not yet judged have no verdict (`Unjudged`), the last run
needs none any more when the next begins (`CurSettled`), the reasons in force
are those of the current descriptor from the moment they are loaded
(`ReasonsLoaded`). The counters disagree with the verdicts *during* a test, on
purpose: `expected_failures` is raised when a reason is loaded, `tests_run` at
the fork. `CountInv` says by how much at each place (`InHand`, `Pending`), and
`FdsInv` does the same for descriptors (`OwnFds`). That the counters then agree
between tests is arithmetic on cardinalities: each verdict adds one run to one
set. Refinement: a step of a process is a stutter of `TestSuite`; of the
controller, the ones at `main`, `pass` and `fail` are its actions.
`FailuresCounted` is what the last step needs, as the exit status comes from
the counter and `TestSuite` speaks of the verdicts.

`EarnedInv` says what the page tells of the child's end while it is judged: a
stored signal means the handler has ended it, a stored success that it is in
`exit()` or gone; and each check passed stays true to the end (`Stages`).

`ExcuseRespected` excepts a flaky test's harness error, where the code and the
manual disagree (see *Divergences*).

`ReportInv` follows a declared failure: who failed ends with a bad status
(`FailersFailed`), a test that goes on after it joined its forked process has
seen a good one (`JoinedWell`), a success in the page means neither has failed
nor will (`Declared`), so a passed run is a clean one (`PassedClean`).

The hypotheses are about the tests, not the harness. `QuietForks`: forked
processes do not touch the page; `orphan_evidence` shows that without it the
conclusion is false. `RealSignals`: no signal has number 0, and no test asks
for signal 0, as in every descriptor of the suite. `FailuresJoined`: forked
processes never report success, and one that may declare a failure belongs to a
test that checks its status and does not pass by a signal; `ignored_failure` is
the test for which that is not so. The suites of `MCHarness` that the passing
runs use contain tests of all these kinds.

### Spawning (`SpawnProofs`)

`ChildIsNamed` (`ChildHasName`), `ArgumentsComeThrough` (`ChildRoundTrip`),
`PassHadAChild` (`PassMeansChildRan`): for every registry of tests, command
line, argument vector and way of spawning. The invariant `SpawnInv` relates the
writer to the reader of the vector: an image at its options still has
`Left(job, flags)` before it, the part of what `mk_exec_args()` wrote that the
options seen so far do not account for; at the end that is the name and the
extra arguments, whatever they look like (`Parsing`). `AllLeft` shows that the
whole vector is `Left(job, {})`, `NextWord` that one round of the option loop
takes one needed option off. `SpawnAssumption` asks that extra arguments are
words, and that tests that spawn have a child function. What happens when the
vector is too short is `spawn_args`.

### The gap search (`GapProofs`)

`GapIsFree` (`FoundIsFree`), `GapIsFound` (`FailsOnlyIfFull`), `GapIsExtreme`
(`FoundIsExtreme`): for every memory map, request and width. `GapInv` says what
has been read (`ReadSoFar`: on Linux a reversed prefix of the map, unless
something was mapped behind the reader), that the rounds so far found nothing
(`Scanned`) and what the answer is (`Answer`). The arithmetic is in lemmas on
division and rounding: `AlignUp` gives the least multiple at or above its
argument. `GapAssumption` leaves room above the user address space to round up,
as both systems do.

### The revocation family (`RevocationProofs`)

`RightKernelPasses` (`NoFalseAlarm`), `WrongKernelFails` (`FaultsAreSeen`): for
a block of any size, cut into any chunks, and any script of phases. `RevInv`
says what is marked where (`Marks`), what a right kernel leaves valid
(`RightTags`) and which errors have not been looked at yet (`Unnoticed`). It
needs `Paired`, an assumption on scripts: after `LOAD_SPLIT_INIT` the block is
left to a `LOAD_SPLIT_FINI` or to a new image, since any other phase would find
it marked. All scripts of the family are so.

### The tests of the kernel (`ScriptProofs`, `VmProofs`, `SysProofs`)

`NobodyLeftRunning` (`PassLeavesNobody`), `NamesAreGivenBack` (`NameGivenBack`)
and `ChildrenAreSeenOff` (`ChildSeenOff`): for every kernel and set of errors,
every interleaving, and every value of the constants that scale loops and
sizes. The argument is about the order of the steps in a test. `ScriptOrder`
says it in three notions: a script is `Closed` if whatever a step opens (a
fork, a thread, an attached tracee) a later one closes before a step that needs
it closed; what is left of a script `Awaits` a closing step; two kinds of steps
are `Paired`. `ScriptProofs` shows that they carry over to scripts put together
with `\o` and to what is left of a script after its first steps. Two things are
then shown for each suite:

- every test of the table keeps the discipline (`Tidy`), part by part as its
  definition puts it together;
- every step of every process keeps the invariant. `VmInv` and `SysInv` say
  that the rest of a test is tidy, and that as long as its child (or thread, or
  the name of its shm object) is there the step that sees to it is still to
  come. The property alone is not inductive: it is silent until the test ends.
  `Advance` sums up what most steps do to the script and the processes; those
  that start, stop or wait for something are taken one by one.

`SysInv` leaves out the two tests `ChildSeenOff` excepts.

### set-feature-ctl-note (`SysProofs`)

`SearchIsRight`: for every file that is `Proper`, `find_feature_ctl_desc()`
returns the descriptor of the first feature control note, and nothing where
there is none. `ToolSetsOneBit` (`OneBitOfTheNote`): so the tool changes nothing
but that descriptor, where exactly one of the two bits is then set and all
others are as before, and it fails only if there is no note.

`Proper` is the layout the ELF format asks for: notes fill a segment one after
the other, name and descriptor padded to four bytes, a segment ends within the
file, no note reaches 2^32 bytes, the descriptor of a feature control note has
at least four. `BinariesAssumption` asks it of the binaries, and TLC evaluates
it on those of `sys_tests`, which `Linked` puts together note by note. Without
the bound on the size of a note the sum of the rounded sizes wraps
(`set-feature-ctl-note.cpp` 93) and the search goes on inside the note.

The searches are recursive functions, and the provers take nothing from a
recursive definition until the function is known to exist. `SearchExists` shows
that for any search that only goes forward; `NotesFromIs` applies it. What the
searches return is then by induction on the distance to the end, in the form of
a least counterexample: `Least`, from the well-foundedness of `<`, is an
ordinary lemma about sets of numbers and takes no operator as a parameter. The
bits are arithmetic: `Bits` splits a word into its highest bit, bit 5 and the
rest. The invariant, `NoteInv`, is the property for a proper file; only
`Install` changes the variant that is run, and no other step says that there is
no note (`Blameless`).

### Only model-checked

- Liveness: `SuiteEnds`, `TestEnds`, `EveryTestEnds`. Fairness is outside the
  prover's reach.
- `RightKernelNotFailed` and `ErrorsReported` of `VmSuite`,
  `RightSystemNotFailed` and `WrongSystemFound` of `SysSuite`: what each check
  of each test says of each error. An invariant for them is the state of memory
  between any two steps of every test, which is what TLC computes; the tables
  of scripts are fixed, so a proof would add the scaling constants only. For
  the `cheri_revoke_lib` family, whose scripts are a parameter, both directions
  are proved (`RevocationProofs`).
- What the five runs that end in a violation show: TLC's counterexamples.

## Plan

1. Done: `Verdict`, `TestProcess`, `Harness`, `TestSuite`, their runs, their
   first theorems.
2. Done: `Driver`, `Spawn`, `AddressGap`.
3. Done: `Revocation`; the light, load-side and asynchronous tests
   (`RevokeSteps`), quarantined reservations, copy on write, the hoard.
4. Done: `VmTags`, `Reservation`, composed in `VmSuite`.
5. Done: `FeatureNote`, `PtraceTests`, `SignalTests`, `MallocTests`,
   `TlsThreads`, `StringCopy`, composed in `SysSuite`.
6. Done: the proofs of every invariant and of the refinement of the harness,
   of `Spawn`, `AddressGap` and `Revocation`.
7. Done: `PassLeavesNobody` and `NameGivenBack` of `VmSuite`, `ChildSeenOff` and
   `OneBitOfTheNote` of `SysSuite`.
8. Left: the four invariants about verdicts under *Only model-checked*, family
   by family.

## Divergences met while modelling

The findings of `PROJECT.json` each have a run. These do not, as reading the
lines side by side settles them:

- a flaky test that ends without a result is reported as FAIL
  (`cheriostest.c` 559 clears its reason), where `man/cheriostest.3` 153-154
  makes any failure of such a test an expected one; `ExcuseRespected` says
  nothing of this case;
- `-f` still announces slow tests (`cheriostest.c` 306), where
  `man/cheriostest.1` 80 says only fast ones are included;
- the output compared is that of one `read()` (`cheriostest.c` 575), where
  `man/cheriostest.3` 168 speaks of the whole output;
- `-l -g` is accepted (`cheriostest.c` 1038), where `man/cheriostest.1` 65-70
  allows only one of `-l`, `-a`, `-g` and names;
- `get_execpath()` asks for `PATH_MAX + 1` bytes (`cheriostest.c` 726-727),
  `mk_exec_args()` allocates `PATH_MAX` (771).

Met in the tests; the exceptions of `vm_tests` and `sys_tests` show them:

- the name of a named shm object is not random: `strcpy()` ends it before the
  random letters (`cheriostest_vm.c` 124-126); and an object made in the tenth
  attempt is taken for a failure and not unlinked (142);
- `vm_reservation_mmap_fixed_insert` looks at the enclosing mapping's capability
  (`cheriostest_vm.c` 1722), not at the one `mmap()` returned;
- the hoard tests map the object without `PROT_CAP` before they look for a
  revoked capability (`cheriostest_vm.c` 3457, 3582), so they cannot fail;
- `mmap_insert_stack` maps at the fixed address 0x20000000 whether or not
  something is there, and asks for a stack with neither `MAP_ANON` nor
  `MAP_PRIVATE` (`cheriostest_vm.c` 3624): right on CheriBSD, EBADF on Linux;
- `cheri_revoke_loadside` never looks at the clocks the kernel reports
  (`cheriostest_vm.c` 2236-2309);
- `vm_large_pages_basic` passes without doing anything where the system has no
  larger page size;
- `vm_mmap_invalid_cap` omits `MAP_PRIVATE` (`cheriostest_vm.c` 1543), which
  Linux refuses by itself;
- the check of the working space misses an entry that encloses it
  (`cheriostest_vm.c` 3240);
- `ptrace_setcapregs` on RISC-V declares success before it reads the registers
  back (`cheriostest_ptrace.c` 449), with the child still stopped;
- the child of `ptrace_basic` reads the writing end of its pipe on Linux
  (`cheriostest_syscall.c` 214); `fork()` in `sig_dfl_ign` is not checked (113);
- the `suid_elfnote` tests run helpers without the set-user-ID bit
  (`cheriostest_malloc.c` 408, 416);
- a helper whose `procctl()` failed looks like one that does not revoke
  (`cheriostest_malloc.c` 324, 279); NULL counts as aligned (475).

## Not modelled

Listed in `PROJECT.json` with the reason: compile-time bounds, text formatting,
third-party libraries and the build system have no state of the suite's own;
the tests of CPU instructions (sealing, permissions, faults, registers) and of
the arguments of single system calls (CheriABI) consist of one operation and
one comparison each, so a model of them would be one of the CPU or the kernel;
in the families that are modelled, the skip predicates, the contents of files,
the search for an unrepresentable length, the names of page sizes and
`sig_dfl_neq_ign` are inputs or left out;
debugger attachment, tracing and sleeping change nothing a verdict rests on.
libxo is assumed to hand its text to stdio at once.
