---------------------------- MODULE CommandLine ----------------------------
(***************************************************************************)
(* The maintenance command line (daemon/cli.py): shells that check their   *)
(* flags, show the store they are about to replace, ask for confirmation,  *)
(* create a durable operation, spawn a detached executor and watch the     *)
(* record until it ends.                                                   *)
(*                                                                         *)
(* The record's own protocol is OperationEngine and what the steps do to   *)
(* the files is StoreOperations; here an operation is its state, what it   *)
(* expects to find and what the user agreed to.  The content of the store  *)
(* is a number, which stands for its epoch and for its fingerprint; zero   *)
(* is no store.                                                            *)
(***************************************************************************)
EXTENDS Naturals, FiniteSets

CONSTANTS
    Shells,      \* terminals; each runs one command and names its operation
    Typed,       \* per shell: the commands typed in it
    MaxContent,  \* bound: contents of the store
    MaxDeaths    \* bound: executors killed

CommandNames == {"clear", "restore", "restore_unreadable", "restore_no_store", "backup", "migrate",
                 "rebuild", "rebuild_wait", "retry", "retry_wait", "wait", "cancel", "run"}

ASSUME CommandShape ==
    /\ IsFiniteSet(Shells) /\ Typed \in [Shells -> SUBSET CommandNames]
    /\ MaxContent \in Nat /\ MaxDeaths \in Nat

VARIABLES
    content, readable,  \* the fact store
    jobs,        \* per shell: the operation it created
    shells,      \* per shell: where its command is
    execs,       \* <<shell, 1 or 2>>: the executors it spawned
    deaths

commandVars == <<content, readable, jobs, shells, execs, deaths>>

NoJobYet == [state |-> "none", cmd |-> "none", expect |-> 0, agreed |-> 0, cancel |-> FALSE]
NoExec == [st |-> "none", job |-> "none", retry |-> FALSE, ended |-> FALSE]
AtPrompt == [pc |-> "idle", cmd |-> "none", job |-> "none", expect |-> 0, agreed |-> 0,
             grace |-> FALSE, exit |-> "none"]

CommandInit ==
    /\ content \in 0..1 /\ readable \in BOOLEAN /\ (content = 0 => readable)
    /\ jobs = [s \in Shells |-> NoJobYet]
    /\ shells = [s \in Shells |-> AtPrompt]
    /\ execs = [e \in Shells \X {1, 2} |-> NoExec]
    /\ deaths = 0

Ended(state) == state \in {"succeeded", "failed", "cancelled", "blocked"}
ExitCode(state) == IF state \in {"succeeded", "cancelled"} THEN "0" ELSE "1"
Rebuilding == {"rebuild", "rebuild_wait"}
Destructive == {"clear", "restore", "restore_unreadable", "restore_no_store"}

----------------------------------------------------------------------------
(* Flags, plan, confirmation                                               *)

NotGiven == MaxContent + 1
Answers == 0..NotGiven

\* --yes, --expect-store-epoch, --expect-current-fingerprint with
\* --accept-unreadable-current, --backup-current.
Flags == {f \in [yes : BOOLEAN, epoch : Answers, print : Answers, keep : BOOLEAN] :
            f.epoch = NotGiven \/ f.print = NotGiven}

\* The flag pairs each command insists on.
FlagsRefused(cmd, f) ==
    CASE cmd \in {"clear", "restore"} -> f.yes # (f.epoch # NotGiven) \/ f.print # NotGiven
      [] cmd = "restore_unreadable" -> f.print = NotGiven \/ f.keep \/ f.epoch # NotGiven
      [] cmd = "restore_no_store"   -> f.print # NotGiven \/ f.keep \/ f.epoch # NotGiven

\* _read_clear_identity, _read_restore_plan: fail closed.
PlanRefused(cmd) ==
    CASE cmd = "clear"   -> ~readable
      [] cmd = "restore" -> content = 0 \/ ~readable
      [] cmd = "restore_unreadable" -> content = 0 \/ readable
      [] cmd = "restore_no_store"   -> content # 0

\* Mutant: --yes is enough, whatever epoch it names.
AnyEpoch(cmd, f) == TRUE

\* With --yes, the epoch named must be the one found.
EpochAsNamed(cmd, f) == cmd \in {"clear", "restore"} /\ f.yes => f.epoch = content

Exits(s, code) == shells' = [shells EXCEPT ![s] = [AtPrompt EXCEPT !.pc = "done", !.exit = code]]

\* Exit code 2 before anything is created.
RefuseUsage(s) ==
    /\ shells[s].pc = "idle"
    /\ \E cmd \in Typed[s] \cap Destructive, f \in Flags :
           FlagsRefused(cmd, f) \/ PlanRefused(cmd) \/ ~EpochAsNamed(cmd, f)
    /\ Exits(s, "2")
    /\ UNCHANGED <<content, readable, jobs, execs, deaths>>

\* The plan is read and shown.  --yes agrees beforehand to the epoch it
\* names; the fingerprint of an unreadable store is given by the user and
\* not compared here.
Invoke(s, cmd) ==
    /\ shells[s].pc = "idle" /\ cmd \in Typed[s] \cap Destructive /\ ~PlanRefused(cmd)
    /\ \E f \in {g \in Flags : ~FlagsRefused(cmd, g) /\ EpochAsNamed(cmd, g)} :
           shells' = [shells EXCEPT ![s] =
              [AtPrompt EXCEPT !.pc = "shown", !.cmd = cmd,
                 !.expect = IF cmd = "restore_unreadable" THEN f.print ELSE content,
                 !.agreed = CASE cmd = "restore_unreadable" -> f.print
                              [] f.yes /\ cmd \in {"clear", "restore"} -> f.epoch
                              [] OTHER -> content]]
    /\ UNCHANGED <<content, readable, jobs, execs, deaths>>

\* backup create, migrate, rebuild: nothing to agree to but the destination;
\* a rebuild's preview may find nothing to do or refuse.
InvokePlain(s, cmd) ==
    /\ shells[s].pc = "idle" /\ cmd \in Typed[s] \cap (Rebuilding \cup {"backup", "migrate"})
    /\ \/ shells' = [shells EXCEPT ![s] = [AtPrompt EXCEPT !.pc = "shown", !.cmd = cmd]]
       \/ cmd \in Rebuilding /\ \E code \in {"0", "1"} : Exits(s, code)
    /\ UNCHANGED <<content, readable, jobs, execs, deaths>>

\* The string typed is not the one shown.
ConfirmationFails(s) ==
    /\ shells[s].pc = "shown" /\ shells[s].cmd \in Destructive \cup {"backup"}
    /\ Exits(s, "1")
    /\ UNCHANGED <<content, readable, jobs, execs, deaths>>

Spawned(j, again) == [st |-> "starting", job |-> j, retry |-> again, ended |-> FALSE]
Watching(s, j) == [shells EXCEPT ![s] = [AtPrompt EXCEPT !.pc = "watch", !.cmd = shells[s].cmd, !.job = j]]

\* create_operation, then the executors: `rebuild' spawns one itself and,
\* with --wait, a second one in _watch_detached_operation.
CreateJob(s) ==
    /\ shells[s].pc = "shown"
    /\ jobs' = [jobs EXCEPT ![s] = [state |-> "queued", cmd |-> shells[s].cmd, expect |-> shells[s].expect,
                                    agreed |-> shells[s].agreed, cancel |-> FALSE]]
    /\ execs' = [e \in DOMAIN execs |->
                    IF e[1] = s /\ (e[2] = 1 \/ shells[s].cmd = "rebuild_wait") THEN Spawned(s, FALSE) ELSE execs[e]]
    /\ IF shells[s].cmd = "rebuild" THEN Exits(s, "0") ELSE shells' = Watching(s, s)
    /\ UNCHANGED <<content, readable, deaths>>

\* rebuild --retry <build>: the operation of that build, unless it is over.
RetryJob(s, j, cmd) ==
    /\ shells[s].pc = "idle" /\ cmd \in Typed[s] \cap {"retry", "retry_wait"}
    /\ jobs[j].state = "none" \/ jobs[j].cmd \in Rebuilding
    /\ IF jobs[j].state \in {"none", "succeeded", "failed", "cancelled"}
       THEN Exits(s, "1") /\ UNCHANGED execs
       ELSE /\ execs' = [execs EXCEPT ![<<s, 1>>] = Spawned(j, TRUE)]
            /\ IF cmd = "retry" THEN Exits(s, "0")
               ELSE shells' = [shells EXCEPT ![s] = [AtPrompt EXCEPT !.pc = "watch", !.cmd = cmd, !.job = j]]
    /\ UNCHANGED <<content, readable, jobs, deaths>>

\* operation run: an executor in the foreground.
RunJob(s, j) ==
    /\ shells[s].pc = "idle" /\ "run" \in Typed[s] /\ jobs[j].state # "none"
    /\ execs' = [execs EXCEPT ![<<s, 1>>] = Spawned(j, FALSE)]
    /\ Exits(s, "0")
    /\ UNCHANGED <<content, readable, jobs, deaths>>

\* operation cancel: a blocked operation ends at once, a live one at its
\* executor's next checkpoint.
CancelJob(s, j) ==
    /\ shells[s].pc = "idle" /\ "cancel" \in Typed[s] /\ jobs[j].state # "none"
    /\ jobs' = CASE jobs[j].state = "blocked" -> [jobs EXCEPT ![j].state = "cancelled"]
                 [] Ended(jobs[j].state) -> jobs
                 [] OTHER -> [jobs EXCEPT ![j].cancel = TRUE]
    /\ Exits(s, IF jobs[j].state \in {"succeeded", "failed"} THEN "1" ELSE "0")
    /\ UNCHANGED <<content, readable, execs, deaths>>

----------------------------------------------------------------------------
(* Watching                                                                *)

Watched(s) == IF shells[s].cmd = "rebuild_wait" THEN <<s, 2>> ELSE <<s, 1>>

WaitJob(s, j) ==
    /\ shells[s].pc = "idle" /\ "wait" \in Typed[s] /\ jobs[j].state # "none"
    /\ shells' = [shells EXCEPT ![s] = [AtPrompt EXCEPT !.pc = "watch", !.cmd = "wait", !.job = j]]
    /\ UNCHANGED <<content, readable, jobs, execs, deaths>>

\* store.load: an ended record ends the command.
LoadRecord(s) ==
    /\ shells[s].pc = "watch"
    /\ LET state == jobs[shells[s].job].state
       IN  IF Ended(state) THEN Exits(s, ExitCode(state))
           ELSE /\ shells[s].cmd # "wait"
                /\ shells' = [shells EXCEPT ![s].pc = "loaded"]
    /\ UNCHANGED <<content, readable, jobs, execs, deaths>>

\* Mutant: the executor's exit is reported on the record loaded before it.
NoGrace(s) == TRUE

\* Mutant: the executor is not looked at.
NeverOver(s) == FALSE

\* Three seconds have passed since the executor was first found gone.
GraceOver(s) == shells[s].grace

\* executor.poll(): gone for longer than the grace, or the grace begins.
CheckExecutor(s) ==
    /\ shells[s].pc = "loaded"
    /\ IF execs[Watched(s)].st = "exited" /\ GraceOver(s) THEN Exits(s, "executor_exited")
       ELSE shells' = [shells EXCEPT ![s].pc = "watch", ![s].grace = execs[Watched(s)].st = "exited"]
    /\ UNCHANGED <<content, readable, jobs, execs, deaths>>

\* Ctrl-C: the shell detaches, the operation goes on.
Interrupt(s) ==
    /\ shells[s].pc \in {"watch", "loaded"}
    /\ Exits(s, "130")
    /\ UNCHANGED <<content, readable, jobs, execs, deaths>>

----------------------------------------------------------------------------
(* Executors: operation run                                                *)

Exited(ended) == [NoExec EXCEPT !.st = "exited", !.ended = ended]

Locked(j) == \E e \in DOMAIN execs : execs[e].st = "running" /\ execs[e].job = j

\* try_run_pending_steps: the run lock, then the claim.
BeginRun(e) ==
    /\ execs[e].st = "starting"
    /\ LET j == execs[e].job
           idle == \/ Locked(j) \/ jobs[j].state \in {"succeeded", "failed", "cancelled"}
                   \/ jobs[j].state = "blocked" /\ ~execs[e].retry
       IN  IF idle THEN execs' = [execs EXCEPT ![e] = Exited(FALSE)] /\ UNCHANGED jobs
           ELSE /\ execs' = [execs EXCEPT ![e].st = "running"]
                /\ jobs' = [jobs EXCEPT ![j].state = "running"]
    /\ UNCHANGED <<content, readable, shells, deaths>>

Conclude(e, state) ==
    /\ jobs' = [jobs EXCEPT ![execs[e].job] = [NoJobYet EXCEPT !.state = state, !.cmd = IF jobs[execs[e].job].cmd \in Rebuilding THEN "rebuild" ELSE "other"]]
    /\ execs' = [execs EXCEPT ![e] = Exited(state \notin {"running", "blocked"})]

\* The replacing step compares what it finds with what the record expects.
AsExpected(j) ==
    /\ content = jobs[j].expect
    /\ jobs[j].cmd = "restore_unreadable" => ~readable
    /\ jobs[j].cmd \in {"clear", "restore"} => readable

RunSteps(e) ==
    /\ execs[e].st = "running"
    /\ LET j == execs[e].job
       IN  \/ /\ jobs[j].cancel
              /\ Conclude(e, "cancelled") /\ UNCHANGED <<content, readable>>
           \/ /\ ~jobs[j].cancel /\ jobs[j].cmd \in Destructive /\ AsExpected(j) /\ content < MaxContent
              /\ content' = content + 1 /\ readable' = TRUE
              /\ Conclude(e, "succeeded")
           \/ /\ ~jobs[j].cancel /\ jobs[j].cmd \in Destructive /\ (~AsExpected(j) \/ content = MaxContent)
              /\ Conclude(e, "blocked") /\ UNCHANGED <<content, readable>>
           \/ /\ ~jobs[j].cancel /\ jobs[j].cmd \notin Destructive
              /\ \E state \in {"succeeded", "failed", "blocked"} : Conclude(e, state)
              /\ UNCHANGED <<content, readable>>
    /\ UNCHANGED <<shells, deaths>>

KillExec(e) ==
    /\ execs[e].st \in {"starting", "running"} /\ deaths < MaxDeaths
    /\ execs' = [execs EXCEPT ![e] = Exited(FALSE)] /\ deaths' = deaths + 1
    /\ UNCHANGED <<content, readable, jobs, shells>>

\* The store breaks on disk: other bytes, which nothing reads.
BreakStore ==
    /\ content > 0 /\ readable /\ content < MaxContent
    /\ content' = content + 1 /\ readable' = FALSE
    /\ UNCHANGED <<jobs, shells, execs, deaths>>

----------------------------------------------------------------------------

CommandNext ==
    \/ \E s \in Shells :
          \/ RefuseUsage(s) \/ \E cmd \in Typed[s] : Invoke(s, cmd) \/ InvokePlain(s, cmd)
          \/ ConfirmationFails(s) \/ CreateJob(s)
          \/ \E j \in Shells : \/ \E cmd \in Typed[s] : RetryJob(s, j, cmd)
                               \/ RunJob(s, j) \/ CancelJob(s, j) \/ WaitJob(s, j)
          \/ LoadRecord(s) \/ CheckExecutor(s) \/ Interrupt(s)
    \/ \E e \in DOMAIN execs : BeginRun(e) \/ RunSteps(e) \/ KillExec(e)
    \/ BreakStore

\* The polling loop sleeps a quarter of a second; executors are processes of
\* their own.  Nothing is assumed of what users type or of kills.
CommandFairness ==
    /\ \A s \in Shells : WF_commandVars(LoadRecord(s) \/ CheckExecutor(s))
    /\ \A e \in Shells \X {1, 2} : WF_commandVars(BeginRun(e) \/ RunSteps(e))

CommandSpec == CommandInit /\ [][CommandNext]_commandVars /\ CommandFairness

----------------------------------------------------------------------------
(* Properties                                                              *)

\* What a clear or a restore replaces is the content its user agreed to lose,
\* by the string typed, the epoch or the fingerprint named, however the store
\* was replaced between the display and the executor's step.
ReplacesWhatWasAgreed ==
    [][\A e \in DOMAIN execs :
          LET j == execs[e].job
          IN  execs[e].st = "running" /\ jobs[j].cmd \in Destructive /\ jobs'[j].state = "succeeded"
              => content = jobs[j].agreed]_commandVars

\* A shell never reports that its executor left without a terminal record
\* when that executor had brought the operation to its end: the record is
\* loaded before the process is polled, hence the grace.
OutcomeNotMissed ==
    [][\A s \in Shells :
          shells[s].pc = "loaded" /\ shells'[s].exit = "executor_exited"
          => ~execs[Watched(s)].ended]_commandVars

\* A command that spawned the executor it watches comes back, whoever is
\* killed (_watch_detached_operation).
WatchEnds ==
    \A s \in Shells : (shells[s].pc = "watch" /\ shells[s].cmd # "wait") ~> shells[s].pc = "done"

\* A shell that reports failure has watched its run to the end: no executor
\* it spawned is still to run or running.
ReportsItsRun ==
    [][\A s \in Shells :
          shells[s].pc \in {"watch", "loaded"} /\ shells'[s].exit \in {"1", "executor_exited"}
          => \A i \in {1, 2} : execs[<<s, i>>].st \notin {"starting", "running"}]_commandVars
============================================================================
