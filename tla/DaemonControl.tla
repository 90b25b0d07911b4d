--------------------------- MODULE DaemonControl ---------------------------
(***************************************************************************)
(* Starting and stopping the scoring daemon (daemon/deploy.py) and what a  *)
(* starting or dying daemon does to its runtime directory (run_server in   *)
(* daemon/server.py, validate_control_path in daemon/control.py).          *)
(*                                                                         *)
(* A tool is one process of deploy.py.  start, stop and health work on the *)
(* shared runtime directory; verify starts, asks and stops a daemon of its *)
(* own in a fresh directory.                                               *)
(***************************************************************************)
EXTENDS Naturals, FiniteSets

CONSTANTS
    Tools,      \* processes of deploy.py
    Pids,       \* process ids of daemons
    ToolCommands

Shared == "shared"

\* A verification works in a directory made for it by mkdtemp; an explicit
\* --work-dir that is already somebody's runtime directory is left out.
ASSUME DaemonShape ==
    /\ IsFiniteSet(Tools) /\ IsFiniteSet(Pids)
    /\ ToolCommands \subseteq {"start", "stop", "health", "verify"}
    /\ Shared \notin Tools

NoPid == "no pid"
Dirs == Tools \cup {Shared}

VARIABLES
    pidFile,    \* per directory: daemon.pid
    sockOf,     \* per directory: the daemon whose socket is at the path
    readyLogged,\* per directory: the log, which is only appended to, has READY
    daemons,    \* per pid: [st, dir, parent]
    tools       \* per tool: [pc, cmd, pid, said]

daemonVars == <<pidFile, sockOf, readyLogged, daemons, tools>>

NoDaemon == [st |-> "none", dir |-> Shared, parent |-> NoPid]
NoTool == [pc |-> "idle", cmd |-> "none", pid |-> NoPid, said |-> "none"]

DaemonInit ==
    /\ pidFile = [d \in Dirs |-> NoPid] /\ sockOf = [d \in Dirs |-> NoPid]
    /\ readyLogged = [d \in Dirs |-> FALSE]
    /\ daemons = [p \in Pids |-> NoDaemon]
    /\ tools = [t \in Tools |-> NoTool]

Up(p) == p \in Pids /\ daemons[p].st \in {"starting", "serving"}
DirOf(t) == IF tools[t].cmd = "verify" THEN t ELSE Shared

\* pid_alive: waitpid answers only the parent; for any other process the
\* ChildProcessError counts as reaped.
PidAlive(t, p) == Up(p) /\ daemons[p].parent = t

Say(t, word) == tools' = [tools EXCEPT ![t].pc = "done", ![t].pid = NoPid, ![t].said = word]
Kill(p) == daemons' = [daemons EXCEPT ![p].st = "dead"]

----------------------------------------------------------------------------
(* The tool                                                                *)

\* cmd_start up to write_pid.
SpawnDaemon(t, cmd, p) ==
    LET dir == IF cmd = "verify" THEN t ELSE Shared
    IN  /\ tools[t].pc = "idle" /\ cmd \in ToolCommands \cap {"start", "verify"}
        /\ IF PidAlive(t, pidFile[dir])
           THEN /\ tools' = [tools EXCEPT ![t] = [NoTool EXCEPT !.pc = "done", !.cmd = cmd, !.said = "running"]]
                /\ UNCHANGED <<daemons, pidFile>>
           ELSE /\ daemons[p].st = "none"
                /\ daemons' = [daemons EXCEPT ![p] = [st |-> "starting", dir |-> dir, parent |-> t]]
                /\ pidFile' = [pidFile EXCEPT ![dir] = p]
                /\ tools' = [tools EXCEPT ![t] = [NoTool EXCEPT !.pc = "waiting", !.cmd = cmd, !.pid = p]]
        /\ UNCHANGED <<sockOf, readyLogged>>

\* The wait for READY: the word anywhere in the log is enough.
AwaitReady(t) ==
    LET p == tools[t].pid
    IN  /\ tools[t].pc = "waiting"
        /\ \/ ~PidAlive(t, p) /\ Say(t, "exited")
           \/ /\ PidAlive(t, p) /\ readyLogged[DirOf(t)]
              /\ IF tools[t].cmd = "start" THEN Say(t, "started")
                 ELSE tools' = [tools EXCEPT ![t].pc = "asking"]
        /\ UNCHANGED <<pidFile, sockOf, readyLogged, daemons>>

\* Mutant: the deadline is reported and the daemon left alone.
LeaveRunning(t, p) == UNCHANGED daemons

\* _stop_pid: TERM, then KILL, then gone; only a child is alive to it.
StopPid(t, p) == IF PidAlive(t, p) THEN Kill(p) ELSE UNCHANGED daemons

StartTimesOut(t) ==
    /\ tools[t].pc = "waiting" /\ PidAlive(t, tools[t].pid) /\ ~readyLogged[DirOf(t)]
    /\ StopPid(t, tools[t].pid)
    /\ Say(t, "timeout")
    /\ UNCHANGED <<pidFile, sockOf, readyLogged>>

\* send_health and the rest of the verification: whatever it finds, the
\* finally clause stops the daemon.
VerifyHealth(t) ==
    /\ tools[t].pc = "asking"
    /\ \E word \in {"healthy", "unhealthy"} :
          /\ word = "healthy" => Up(sockOf[t])
          /\ tools' = [tools EXCEPT ![t].pc = "stopping", ![t].said = word]
    /\ UNCHANGED <<pidFile, sockOf, readyLogged, daemons>>

AskHealth(t) ==
    /\ tools[t].pc = "idle" /\ "health" \in ToolCommands
    /\ tools' = [tools EXCEPT ![t] = [NoTool EXCEPT !.pc = "done", !.cmd = "health",
                    !.said = IF Up(sockOf[Shared]) THEN "healthy" ELSE "unhealthy"]]
    /\ UNCHANGED <<pidFile, sockOf, readyLogged, daemons>>

\* cmd_stop: the pid of the file, the socket, the file, "stopped".
StopDaemon(t, dir) ==
    /\ StopPid(t, pidFile[dir])
    /\ sockOf' = [sockOf EXCEPT ![dir] = NoPid]
    /\ pidFile' = [pidFile EXCEPT ![dir] = NoPid]
    /\ UNCHANGED readyLogged

Stop(t) ==
    /\ tools[t].pc = "idle" /\ "stop" \in ToolCommands
    /\ StopDaemon(t, Shared)
    /\ tools' = [tools EXCEPT ![t] = [pc |-> "done", cmd |-> "stop", pid |-> pidFile[Shared], said |-> "stopped"]]

StopVerified(t) ==
    /\ tools[t].pc = "stopping"
    /\ StopDaemon(t, t)
    /\ tools' = [tools EXCEPT ![t].pc = "done"]

----------------------------------------------------------------------------
(* The daemon                                                              *)

\* run_server: whatever socket is at the path is unlinked, then its own is
\* bound and READY printed.
BindSocket(p) ==
    /\ daemons[p].st = "starting"
    /\ sockOf' = [sockOf EXCEPT ![daemons[p].dir] = p]
    /\ readyLogged' = [readyLogged EXCEPT ![daemons[p].dir] = TRUE]
    /\ daemons' = [daemons EXCEPT ![p].st = "serving"]
    /\ UNCHANGED <<pidFile, tools>>

\* It dies before or after binding: the path keeps the dead socket.
DaemonDies(p) ==
    /\ Up(p) /\ Kill(p)
    /\ UNCHANGED <<pidFile, sockOf, readyLogged, tools>>

DaemonNext ==
    \/ \E t \in Tools :
          \/ \E cmd \in ToolCommands, p \in Pids : SpawnDaemon(t, cmd, p)
          \/ AwaitReady(t) \/ StartTimesOut(t) \/ VerifyHealth(t) \/ AskHealth(t)
          \/ Stop(t) \/ StopVerified(t)
    \/ \E p \in Pids : BindSocket(p) \/ DaemonDies(p)

DaemonSpec == DaemonInit /\ [][DaemonNext]_daemonVars

----------------------------------------------------------------------------
(* Properties                                                              *)

\* A verification leaves no daemon behind, however it ends: READY never came,
\* the daemon died, it answered wrongly (the finally clause of isolated_verify
\* and the deadline of cmd_start).
VerifyLeavesNothing ==
    \A t \in Tools, p \in Pids :
        tools[t].cmd = "verify" /\ tools[t].pc = "done" /\ daemons[p].parent = t => ~Up(p)

\* `stop' says "stopped" only of a daemon that is gone.
StoppedMeansGone ==
    \A t \in Tools : tools[t].cmd = "stop" /\ tools[t].said = "stopped" => ~Up(tools[t].pid)
============================================================================
