------------------------------- MODULE Driver -------------------------------
(***************************************************************************)
(* main() up to the first test: options one by one, the checks on their    *)
(* combination, then what the process is to do.  A word of the command     *)
(* line is <<"opt", letter>> or <<"arg", text>>; getopt() stops at the     *)
(* first argument, as POSIX asks.                                          *)
(***************************************************************************)
EXTENDS Sequences, FiniteSets, SequencesExt

CONSTANTS
  Os,             \* "FreeBSD" or "Linux"
  Tests,          \* cheri_tests_set, in linker-set order
  Slow,           \* the tests with CT_FLAG_SLOW
  HasChild,       \* the tests with a ct_child_func
  Matches(_, _),  \* fnmatch(pattern, name)
  CommandLines    \* the command lines to try

Names == {Tests[k] : k \in 1..Len(Tests)}

ASSUME DriverAssumption ==
  /\ Os \in {"FreeBSD", "Linux"}
  /\ Slow \subseteq Names /\ HasChild \subseteq Names

(* Letters main() has a case for; 'u' is in getopt()'s string only. *)
Options == {"a", "c", "d", "E", "f", "g", "K", "l", "Q", "q", "s", "v", "x"}

VARIABLES
  argv,   \* the words not yet consumed
  flags,  \* the letters seen; a letter stands for the variable it sets
  at,     \* "options", "checks", "dispatch" or how main() went on
  plan    \* the names to run (or, with -l, the names listed)

driverVars == <<argv, flags, at, plan>>

Init == argv \in CommandLines /\ flags = {} /\ at = "options" /\ plan = <<>>

----------------------------------------------------------------------------
AtOption == argv # <<>> /\ Head(argv)[1] = "opt"

(* One round of the getopt() loop.  -q and -Q need a sysctl on FreeBSD, *)
(* which may be missing or zero, and end the program on Linux.           *)
GetOpt ==
  /\ at = "options" /\ AtOption
  /\ LET letter == Head(argv)[2] IN
       \/ /\ letter \in Options /\ (Os = "Linux" => letter \notin {"q", "Q"})
          /\ argv' = Tail(argv) /\ at' = at
          /\ flags' = flags \cup {letter} \cup (IF letter = "Q" THEN {"q"} ELSE {})
       \/ letter \in {"q", "Q"} /\ at' = "error" /\ UNCHANGED <<argv, flags>>
       \/ letter \notin Options /\ at' = "usage" /\ UNCHANGED <<argv, flags>>
  /\ UNCHANGED plan

EndOfOptions ==
  /\ at = "options" /\ ~AtOption
  /\ at' = "checks"
  /\ UNCHANGED <<argv, flags, plan>>

----------------------------------------------------------------------------
Has(letter) == letter \in flags

(* Mutant: the last-but-one test is missing; -E -K needs no test name. *)
RefusedLax ==
  \/ Has("K") /\ ~Has("E")
  \/ Has("E") /\ (Has("a") \/ Has("g") \/ Has("l"))
  \/ Has("E") /\ Len(argv) # 1 /\ ~Has("K")
  \/ Has("a") /\ (Has("l") \/ Has("g"))
  \/ Has("l") /\ argv # <<>>
  \/ argv # <<>> /\ Has("a")

(* The combinations answered with usage(). *)
Refused ==
  \/ Has("K") /\ ~Has("E")
  \/ Has("E") /\ (Has("a") \/ Has("g") \/ Has("l"))
  \/ Has("E") /\ Len(argv) # 1 /\ ~Has("K")
  \/ Has("a") /\ (Has("l") \/ Has("g"))
  \/ Has("l") /\ argv # <<>>
  \/ argv = <<>> /\ ~Has("a") /\ ~Has("l")
  \/ argv # <<>> /\ Has("a")

(* list_tests() prints and exits. *)
ListTests ==
  /\ at' = "list"
  /\ plan' = SelectSeq(Tests, LAMBDA t : ~(Has("f") /\ t \in Slow))

Check ==
  /\ at = "checks"
  /\ \/ Refused /\ at' = "usage" /\ UNCHANGED plan
     \/ ~Refused /\ Has("l") /\ ListTests
     \/ ~Refused /\ ~Has("l") /\ at' = "dispatch" /\ UNCHANGED plan
  /\ UNCHANGED <<argv, flags>>

----------------------------------------------------------------------------
(* The alternative stack and the shared page; mmap() and others may fail. *)
SetupFails ==
  /\ at = "dispatch" /\ at' = "error"
  /\ UNCHANGED <<argv, flags, plan>>

(* cheriostest_run_child_name(argv[0]); argv[0] is NULL if there is none. *)
RunChild ==
  /\ at = "dispatch" /\ Has("E")
  /\ at' = IF argv = <<>> THEN "fault"
           ELSE IF Head(argv)[2] \notin Names THEN "unknown"
           ELSE IF Head(argv)[2] \notin HasChild THEN "software"
           ELSE "child"
  /\ UNCHANGED <<argv, flags, plan>>

Matching(pattern) == SelectSeq(Tests, LAMBDA t : Matches(pattern, t))

(* The names main() hands to the controller, in order. *)
Selection ==
  CASE Has("a") -> Tests
    [] Has("g") -> FlattenSeq([k \in 1..Len(argv) |-> Matching(argv[k][2])])
    [] OTHER    -> [k \in 1..Len(argv) |-> argv[k][2]]

RunTests ==
  /\ at = "dispatch" /\ ~Has("E")
  /\ at' = "run" /\ plan' = Selection
  /\ UNCHANGED <<argv, flags>>

DriverNext == \/ GetOpt \/ EndOfOptions \/ Check
              \/ SetupFails \/ RunChild \/ RunTests

=============================================================================
