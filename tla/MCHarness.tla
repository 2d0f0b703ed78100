----------------------------- MODULE MCHarness -----------------------------
(* Small suites for Harness: what the tests are and which ones are run. *)
EXTENDS HarnessInv

SIGSEGV == 11

MCSigInfo == {[signum |-> SIGSEGV, si_code |-> 1, si_trapno |-> 1, si_addr |-> 1],
              [signum |-> SIGALRM, si_code |-> 0, si_trapno |-> 0, si_addr |-> 0]}

Plain == [flags |-> {}, signum |-> 0, si_code |-> 0, si_trapno |-> 0,
          stdin |-> 0, stdout |-> <<>>, xfail |-> FALSE, flaky |-> FALSE,
          skip |-> FALSE, prefix |-> FALSE,
          body |-> {"success", "warn", "fail", "return", "err", "kill",
                    "fault", "alarm", "print"},
          gbody |-> {}, join |-> "none"]

Faulting == [Plain EXCEPT
  !.flags = {"SIGNAL", "SI_CODE", "SI_TRAPNO", "SI_ADDR"},
  !.signum = SIGSEGV, !.si_code = 1, !.si_trapno = 1,
  !.body = {"expect", "fault", "alarm", "fail", "success", "print"}]

(* A test that forks, sends a message and waits; the other process uses     *)
(* neither the page nor a signal (cheri_revoke_cow_mapping).                *)
Forking == [Plain EXCEPT
  !.body = {"fork", "send", "success", "fail", "alarm", "kill"},
  !.gbody = {"recv", "print", "_exit", "return"}, !.join = "check"]

(* The forked process may declare a failure or fault; its status counts     *)
(* (vm_shm_open_unix_surprise).                                             *)
Checking == [Forking EXCEPT
  !.body = {"fork", "success", "fail", "alarm", "print"},
  !.gbody = {"fail", "fault", "print", "return"}]

(* Tests that arm no alarm: too much output, a call that never returns, a  *)
(* wait for a process that never ends.                                     *)
Chatty == [Plain EXCEPT !.body = {"print", "success", "return"}]
Blocking == [Plain EXCEPT !.body = {"block", "success", "fail"}]
Joining == [Forking EXCEPT !.body = {"fork", "send", "success"},
                           !.gbody = {"recv", "block", "print", "return"}]

MCDesc ==
  [plain   |-> Plain,
   xfail   |-> [Plain EXCEPT !.xfail = TRUE],
   flaky   |-> [Plain EXCEPT !.flaky = TRUE, !.flags = {"STDOUT_IGNORE"}],
   fault   |-> Faulting,
   alarm   |-> [Plain EXCEPT !.flags = {"SIGNAL"}, !.signum = SIGALRM,
                             !.body = {"alarm", "fail", "success"}],
   sigexit |-> [Plain EXCEPT !.flags = {"SIGEXIT"}, !.signum = SIGKILL],
   echo    |-> [Plain EXCEPT !.flags = {"STDIN_STRING", "STDOUT_STRING"},
                             !.stdin = 1, !.stdout = <<2>>, !.xfail = TRUE,
                             !.body = {"print", "success", "fail"}],
   bigin   |-> [Chatty EXCEPT !.flags = {"STDIN_STRING"}, !.stdin = 3],
   chatty  |-> Chatty,
   block   |-> Blocking,
   join    |-> Joining,
   \* ipc_pipe_sleep_signal: blocks until its alarm goes off
   timeout |-> [Blocking EXCEPT !.flags = {"SIGNAL"}, !.signum = SIGALRM,
                                !.body = {"alarm", "block", "fail"}],
   slow    |-> [Plain EXCEPT !.flags = {"SLOW"}],
   skip    |-> [Plain EXCEPT !.skip = TRUE],
   prefix  |-> [Plain EXCEPT !.prefix = TRUE],
   fork    |-> Forking,
   check   |-> Checking,
   ignore  |-> [Checking EXCEPT !.join = "ignore"]]

MCTest == DOMAIN MCDesc

(* Every kind of test before and after another one, and tests that leave    *)
(* quiet processes behind before one that is judged.                         *)
PlansCore == {<<"plain", "echo">>, <<"xfail", "fault">>, <<"fault", "flaky">>,
              <<"skip", "sigexit">>, <<"alarm", "xfail">>, <<"slow", "plain">>,
              <<"prefix", "alarm">>, <<"plain", "unknown">>, <<"echo", "echo">>,
              <<"skip", "slow">>, <<"fork", "plain">>, <<"fork", "fault">>,
              <<"fork", "fork">>}
(* Processes blocked for ever, more input or output than the pipe holds,    *)
(* alarms that end a block, failures in forked processes whose status is    *)
(* checked.                                                                 *)
PlansLive == {<<"fork", "bigin">>, <<"fork", "plain">>, <<"check", "plain">>,
              <<"alarm", "check">>, <<"fork", "chatty">>, <<"block", "chatty">>,
              <<"join", "timeout">>, <<"timeout", "block">>}
(* As in cheri_revoke_async_fork and vm_cap_share_sigaction. *)
PlansIgnore == {<<"ignore", "plain">>}
PlansPrefix == {<<"prefix", "plain">>}

=============================================================================
