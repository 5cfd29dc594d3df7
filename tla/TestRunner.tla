----------------------------- MODULE TestRunner -----------------------------
(***************************************************************************)
(* The runner of unit tests, test/unit/runner.cpp, with fork_io: each test *)
(* of a group is a child process whose standard error is a pipe.  The      *)
(* runner goes round the list of children, looks without blocking whether  *)
(* one has ended, reads its pipe, and kills one that takes too long.       *)
(* What the programs do to their descriptors, foundation/executable, is    *)
(* given by operators on a table from descriptors to what they lead to.    *)
(***************************************************************************)
EXTENDS Naturals, Sequences, SequencesExt, FiniteSets, TLC

Set == INSTANCE FiniteSetsExt

CONSTANT Tests          \* tests: numbers from 1, in the order of the group

VARIABLES child,        \* "none", "running", "success", "failure", "killed"
          hangs,        \* the tests that never end of their own
          pipe,         \* whether there is something in a child's pipe
          late,         \* timer.elapsed() has passed the time out
          list,         \* run_group's list of children
          at,           \* where collect_tests is in it
          reading,      \* "no"; "timer" or "kill": what it does with a child that
                        \* waited; "more" or "last": it is inside read()
          verdict       \* run_group's vector: "none", "passed", "failed"

vars == <<child, hangs, pipe, late, list, at, reading, verdict>>
children == <<child, pipe, late, hangs>>

TestsInit == /\ child = [t \in Tests |-> "none"]
             /\ hangs \in SUBSET Tests
             /\ pipe = [t \in Tests |-> FALSE]
             /\ late = [t \in Tests |-> FALSE]
             /\ list = <<>> /\ at = 0 /\ reading = "no"
             /\ verdict = [t \in Tests |-> "none"]

Ended(t) == child[t] \in {"success", "failure", "killed"}
Forking == \E t \in Tests : child[t] = "none"

-----------------------------------------------------------------------------
(* run_group: all tests are forked before the first is collected. *)
Fork(t) == /\ child[t] = "none"
           /\ \A u \in Tests : u < t => child[u] # "none"
           /\ child' = [child EXCEPT ![t] = "running"]
           /\ list' = Append(list, t)
           /\ UNCHANGED <<hangs, pipe, late, at, reading, verdict>>

Round == /\ ~ Forking /\ list # <<>> /\ at = 0
         /\ at' = 1
         /\ UNCHANGED <<children, list, reading, verdict>>

Visited == at > 0 /\ reading = "no"

(* wait( false ): the child has not ended.  It may until it is killed. *)
Look == /\ Visited /\ child[list[at]] = "running"
        /\ reading' = "timer"
        /\ UNCHANGED <<children, list, at, verdict>>

(* Its pipe is read, unless its time has passed. *)
Visit == /\ reading = "timer"
         /\ reading' = IF late[list[at]] THEN "kill" ELSE "more"
         /\ UNCHANGED <<children, list, at, verdict>>

(* A signal does nothing to a child that has ended since, but the verdict  *)
(* is the one that was meant.                                              *)
Kill == /\ reading = "kill"
        /\ child' = [child EXCEPT ![list[at]] = IF @ = "running" THEN "killed" ELSE @]
        /\ verdict' = [verdict EXCEPT ![list[at]] = "failed"]
        /\ reading' = "last"
        /\ UNCHANGED <<hangs, pipe, late, list, at>>

(* Mutant: any child that has ended has passed. *)
ReapAll == /\ Visited /\ Ended(list[at])
           /\ verdict' = [verdict EXCEPT ![list[at]] = "passed"]
           /\ reading' = "last"
           /\ UNCHANGED <<children, list, at>>

Reap == /\ Visited /\ Ended(list[at])
        /\ verdict' = [verdict EXCEPT ![list[at]] =
               IF child[list[at]] = "success" THEN "passed" ELSE "failed"]
        /\ reading' = "last"
        /\ UNCHANGED <<children, list, at>>

After(n, len) == IF n > len THEN 0 ELSE n

(* read() blocks while the pipe is empty and the child has it open.  After *)
(* it the iterator moves on, and i = --list.erase( i ) takes a child away. *)
Read == LET t == list[at] IN
        /\ reading \in {"more", "last"}
        /\ pipe[t] \/ Ended(t)
        /\ pipe' = [pipe EXCEPT ![t] = FALSE]
        /\ IF reading = "last"
           THEN /\ list' = RemoveAt(list, at)
                /\ at' = After(at, Len(list) - 1)
           ELSE /\ at' = After(at + 1, Len(list))
                /\ UNCHANGED list
        /\ reading' = "no"
        /\ UNCHANGED <<child, hangs, late, verdict>>

-----------------------------------------------------------------------------
(* The children, and time.  A test that hangs may write before it does. *)
Write(t) == /\ child[t] = "running" /\ ~ pipe[t]
            /\ pipe' = [pipe EXCEPT ![t] = TRUE]
            /\ UNCHANGED <<child, hangs, late, list, at, reading, verdict>>

Exit(t) == /\ child[t] = "running" /\ t \notin hangs
           /\ \E status \in {"success", "failure"} : child' = [child EXCEPT ![t] = status]
           /\ UNCHANGED <<hangs, pipe, late, list, at, reading, verdict>>

(* The timer of a test runs on when the test has ended. *)
Elapse(t) == /\ child[t] # "none" /\ ~ late[t]
             /\ late' = [late EXCEPT ![t] = TRUE]
             /\ UNCHANGED <<child, hangs, pipe, list, at, reading, verdict>>

Collect == Round \/ Look \/ Visit \/ Kill \/ Reap \/ Read
Runner == Collect \/ \E t \in Tests : Fork(t)
Test(t) == Write(t) \/ Exit(t) \/ Elapse(t)

Next == Runner \/ \E t \in Tests : Test(t)

(* The runner runs, time passes, and tests that do not hang end. *)
Fairness == WF_vars(Runner) /\ \A t \in Tests : WF_vars(Exit(t)) /\ WF_vars(Elapse(t))

TestsSpec == TestsInit /\ [][Next]_vars /\ Fairness

-----------------------------------------------------------------------------
(* Descriptors: each new one is the least that is free. *)
Lowest(fds) == Set!Min((0 .. Cardinality(DOMAIN fds)) \ DOMAIN fds)
OpenFd(fds, what) == (Lowest(fds) :> what) @@ fds
CloseFd(fds, fd) == [d \in DOMAIN fds \ {fd} |-> fds[d]]
CopyFd(fds, fd) == OpenFd(fds, fds[fd])
MoveFd(fds, source, target) == CloseFd((target :> fds[source]) @@ fds, source)
NullFd(fds) == OpenFd(fds, <<"null">>)
MakePipe(fds, n) == OpenFd(OpenFd(fds, <<"read", n>>), <<"write", n>>)

Standard == (0 :> <<"stdin">>) @@ (1 :> <<"stdout">>) @@ (2 :> <<"stderr">>)
(* The start of run_test. *)
Silenced(fds, quiet) == IF quiet THEN MoveFd(NullFd(fds), Lowest(fds), 1) ELSE fds

(* fork_id in the child, with the write end of its pipe for its stderr, and *)
(* what the parent keeps.                                                   *)
Inherited(fds, n, quiet) ==
    LET pipes == MakePipe(fds, n) IN
    Silenced(MoveFd(pipes, CHOOSE d \in DOMAIN pipes : pipes[d] = <<"write", n>>, 2), quiet)
Kept(fds, n) ==
    LET pipes == MakePipe(fds, n) IN
    CloseFd(pipes, CHOOSE d \in DOMAIN pipes : pipes[d] = <<"write", n>>)
Before(n) == LET Parent[i \in 1 .. n] ==
                     IF i = 1 THEN Standard ELSE Kept(Parent[i - 1], i - 1)
             IN  Parent[n]

(* run_group_nofork: stderr leads to a pipe for all tests, and back again; *)
(* stdout leads to the terminal in the end.                                *)
Unforked(n, quiet) ==
    LET pipes == MakePipe(Standard, 1)
        saved == CopyFd(pipes, 2)
        begun == MoveFd(CopyFd(saved, 4), Lowest(saved), 2)
        Run[i \in 0 .. n] == IF i = 0 THEN begun ELSE Silenced(Run[i - 1], quiet)
        terminal == OpenFd(Run[n], <<"tty">>)
        copied == CloseFd(CopyFd(terminal, Lowest(Run[n])), Lowest(Run[n]))
        back == MoveFd(copied, Lowest(terminal), 1)
    IN  CloseFd(CloseFd(MoveFd(back, Lowest(pipes), 2), 3), 4)

(* safe_run, with is_successful, of a group that is <<set up, results>>,   *)
(* and runner::run: by name every one, otherwise up to the first failure.  *)
SafeRun(group) == group[1] /\ \A i \in DOMAIN group[2] : group[2][i]
Reached(groups, named) ==
    {i \in DOMAIN groups : named \/ \A j \in 1 .. i - 1 : SafeRun(groups[j])}
RunAll(groups, named) == \A i \in Reached(groups, named) : SafeRun(groups[i])

(* launch, with the handler of signals: the status of a program. *)
Handle(signal) == IF signal \in {"fault", "abort", "fpe"} THEN "exits" ELSE "notes"
Launch(logs, page, signal, result) ==
    IF logs /\ page /\ Handle(signal) = "notes" /\ result THEN 0 ELSE 1

-----------------------------------------------------------------------------
(* A test that passed has ended well.  One that failed has not, or its time *)
(* had passed before the verdict: a test that ends well between wait and   *)
(* that test of the timer, or the signal, is called failed all the same.   *)
(* None is killed within its time.  Only tests without a verdict are in    *)
(* the list, and each of them once.                                        *)
VerdictsRight ==
    /\ \A t \in Tests :
        /\ verdict[t] = "passed" => child[t] = "success"
        /\ verdict[t] = "failed" =>
               child[t] \in {"failure", "killed"} \/ (child[t] = "success" /\ late[t])
        /\ child[t] = "killed" => late[t]
    /\ \A n \in DOMAIN list :
        /\ \A m \in DOMAIN list : list[m] = list[n] => m = n
        /\ verdict[list[n]] = "none" \/ (reading = "last" /\ at = n)

(* What a pipe has ends when its test does: no other process has its write *)
(* end.  Without forks the descriptors are as before, but for stdout.  And *)
(* a program succeeds only if all that it was to run does.                 *)
DescriptorsKept(n, quiet) ==
    /\ \A i, j \in 1 .. n : LET fds == Inherited(Before(i), i, quiet) IN
           {d \in DOMAIN fds : fds[d] = <<"write", j>>} = IF i = j THEN {2} ELSE {}
    /\ \A i \in 1 .. n : \E d \in DOMAIN Kept(Before(n), n) :
           Kept(Before(n), n)[d] = <<"read", i>>
    /\ Unforked(n, quiet) = (1 :> <<"tty">>) @@ Standard
StatusRight(groups, named, logs, signal) ==
    Launch(logs, TRUE, signal, RunAll(groups, named)) = 0 =>
        \A i \in DOMAIN groups : groups[i][1] /\ FALSE \notin {groups[i][2][k] : k \in DOMAIN groups[i][2]}

(* If no test hangs, every test gets its verdict. *)
TestsCollected == hangs = {} ~> \A t \in Tests : verdict[t] # "none"

(* program.cpp:54 promises a time out for each test: every test that runs  *)
(* gets a verdict.  The runner is inside read() of one that is silent.     *)
TimedOut == \A t \in Tests : child[t] = "running" ~> verdict[t] # "none"
=============================================================================
