---------------------------- MODULE ServeProcess ----------------------------
(***************************************************************************)
(* The server processes behind the runtimes of the backends vllm_serve,    *)
(* llama_server, sglang_serve and trtllm_serve: how a runtime is built,    *)
(* waited for and closed (_build_runtime, _start_process,                  *)
(* _wait_until_ready and close of app/engine/<backend>.py), while the      *)
(* operating system lets processes start, listen, fork and die.            *)
(*                                                                         *)
(* A runtime is one object of one load.  Two of them may be given the same *)
(* port: both are configured with it, or one bound a free port, read its   *)
(* number and closed it again before the server of the other was there.    *)
(*                                                                         *)
(* Time is left out: a timeout may be over whenever what it waits for has  *)
(* not happened.                                                           *)
(***************************************************************************)
EXTENDS Naturals

CONSTANTS
    Runtimes,      \* the runtimes that are built
    Ports          \* the ports their servers may be told to listen on

VARIABLES
    backend,       \* the backend of each runtime
    port,          \* the port of its server, NoPort before it is chosen
    phase,         \* where the thread that builds or closes it stands
    leader,        \* the child process: none, up or dead
    workers,       \* the processes the child started: none, up or dead
    listening,     \* does the child accept connections on its port?
    sent,          \* the signals sent: to the child, and to its workers
    wasRunning,    \* leader_running, the local of close
    log,           \* output_log: none, open or closed
    config         \* what has become of the generated YAML file

procVars == <<port, phase, leader, workers, listening, sent, wasRunning, log, config>>

NoPort == 0

\* The backends that start their child in a session of its own, keep its output
\* in a temporary file, and signal the process group that the child leads.
Grouped(b) == b \in {"sglang_serve", "trtllm_serve"}

ServeBackends == {"vllm_serve", "llama_server", "sglang_serve", "trtllm_serve"}

Phases == {"absent", "prepared", "polling", "probing", "ready", "closing", "signalling",
           "stopping", "draining", "killing", "closed"}

\* config: "none", "written" (there, and the runtime knows its name), "orphan"
\* (there, and nobody knows its name), "removed" or "kept" (its removal failed).
ProcTypeOK ==
    /\ port \in [Runtimes -> Ports \cup {NoPort}]
    /\ phase \in [Runtimes -> Phases]
    /\ leader \in [Runtimes -> {"none", "up", "dead"}]
    /\ workers \in [Runtimes -> {"none", "up", "dead"}]
    /\ listening \in [Runtimes -> BOOLEAN]
    /\ sent \in [Runtimes -> [leader : SUBSET {"TERM", "KILL"}, workers : SUBSET {"TERM", "KILL"}]]
    /\ wasRunning \in [Runtimes -> BOOLEAN]
    /\ log \in [Runtimes -> {"none", "open", "closed"}]
    /\ config \in [Runtimes -> {"none", "written", "orphan", "removed", "kept"}]

ProcInit ==
    /\ port = [r \in Runtimes |-> NoPort]
    /\ phase = [r \in Runtimes |-> "absent"]
    /\ leader = [r \in Runtimes |-> "none"]
    /\ workers = [r \in Runtimes |-> "none"]
    /\ listening = [r \in Runtimes |-> FALSE]
    /\ sent = [r \in Runtimes |-> [leader |-> {}, workers |-> {}]]
    /\ wasRunning = [r \in Runtimes |-> FALSE]
    /\ log = [r \in Runtimes |-> "none"]
    /\ config = [r \in Runtimes |-> "none"]

Goto(r, p) == phase' = [phase EXCEPT ![r] = p]

-----------------------------------------------------------------------------
(* Building: _build_runtime up to the child.  Settings that are refused,   *)
(* and a file that cannot be created, raise before anything exists and are *)
(* left out.                                                               *)

Begin(r, b, next) ==
    /\ backend[r] = b
    /\ phase[r] = "absent"
    /\ \E p \in Ports : port' = [port EXCEPT ![r] = p]
    /\ Goto(r, next)
    /\ UNCHANGED <<leader, workers, listening, sent, wasRunning, log>>

StartVllmServe(r) == Begin(r, "vllm_serve", "prepared") /\ UNCHANGED config

StartLlamaServer(r) == Begin(r, "llama_server", "prepared") /\ UNCHANGED config

StartSglangServe(r) == Begin(r, "sglang_serve", "prepared") /\ UNCHANGED config

\* _prepare_runtime_config always has a batch size to write.
StartTrtllmServe(r) ==
    /\ Begin(r, "trtllm_serve", "prepared")
    /\ config' = [config EXCEPT ![r] = "written"]

\* The file is there, created with delete=False, but safe_dump or the flush at the
\* end of the with statement raises: the start is over, and the name is lost.
ConfigWriteFails(r) ==
    /\ Begin(r, "trtllm_serve", "closed")
    /\ config' = [config EXCEPT ![r] = "orphan"]

\* unlink of the file whose name is known, if there is one.  An OSError is logged;
\* the name is forgotten first, and nobody tries again.
RemoveConfig(r) ==
    \E fate \in {"removed", "kept"} :
        config' = [config EXCEPT ![r] = IF @ = "written" THEN fate ELSE @]

Spawn(r) ==
    /\ phase[r] = "prepared"
    /\ leader' = [leader EXCEPT ![r] = "up"]
    /\ log' = [log EXCEPT ![r] = IF Grouped(backend[r]) THEN "open" ELSE @]
    /\ Goto(r, "polling")
    /\ UNCHANGED <<port, workers, listening, sent, wasRunning, config>>

\* Variant: nobody removes the generated file when the child cannot be started.
SpawnFails_KeepsConfig(r) ==
    /\ phase[r] = "prepared"
    /\ log' = [log EXCEPT ![r] = IF Grouped(backend[r]) THEN "closed" ELSE @]
    /\ Goto(r, "closed")
    /\ UNCHANGED <<port, leader, workers, listening, sent, wasRunning, config>>

\* _command refuses an extra argument, or Popen raises: the output file, opened
\* before Popen, is closed, and the removal of the generated file is tried.
SpawnFails(r) ==
    /\ phase[r] = "prepared"
    /\ log' = [log EXCEPT ![r] = IF Grouped(backend[r]) THEN "closed" ELSE @]
    /\ RemoveConfig(r)
    /\ Goto(r, "closed")
    /\ UNCHANGED <<port, leader, workers, listening, sent, wasRunning>>

(* The loop of _wait_until_ready. *)

\* The child is gone: raise, which closes the runtime.
PollDead(r) ==
    /\ phase[r] = "polling"
    /\ leader[r] = "dead"
    /\ Goto(r, "closing")
    /\ UNCHANGED <<port, leader, workers, listening, sent, wasRunning, log, config>>

PollRunning(r) ==
    /\ phase[r] = "polling"
    /\ leader[r] = "up"
    /\ Goto(r, "probing")
    /\ UNCHANGED <<port, leader, workers, listening, sent, wasRunning, log, config>>

\* _get_health asks whoever listens on the port.
SomeoneListens(p) == \E s \in Runtimes : listening[s] /\ port[s] = p

ProbeAnswered(r) ==
    /\ phase[r] = "probing"
    /\ SomeoneListens(port[r])
    /\ Goto(r, "ready")
    /\ UNCHANGED <<port, leader, workers, listening, sent, wasRunning, log, config>>

\* No answer, or an error: a server that listens need not be healthy yet.
ProbeFails(r) ==
    /\ phase[r] = "probing"
    /\ Goto(r, "polling")
    /\ UNCHANGED <<port, leader, workers, listening, sent, wasRunning, log, config>>

StartTimesOut(r) ==
    /\ phase[r] = "polling"
    /\ Goto(r, "closing")
    /\ UNCHANGED <<port, leader, workers, listening, sent, wasRunning, log, config>>

\* The router cleans the runtime up: an unload, or the end of the service.
Unload(r) ==
    /\ backend[r] \in ServeBackends
    /\ phase[r] = "ready"
    /\ Goto(r, "closing")
    /\ UNCHANGED <<port, leader, workers, listening, sent, wasRunning, log, config>>

-----------------------------------------------------------------------------
(* close *)

\* The end of close; for a process group, its finally.
Finish(r) ==
    /\ Goto(r, "closed")
    /\ log' = [log EXCEPT ![r] = IF Grouped(backend[r]) THEN "closed" ELSE @]
    /\ RemoveConfig(r)
    /\ UNCHANGED <<port, leader, workers, listening, wasRunning>>

\* vllm_serve and llama_server know only their child.
CloseChild(r, b) ==
    /\ backend[r] = b
    /\ phase[r] = "closing"
    /\ IF leader[r] = "up"
       THEN /\ sent' = [sent EXCEPT ![r].leader = @ \cup {"TERM"}]
            /\ Goto(r, "stopping")
            /\ UNCHANGED <<port, leader, workers, listening, wasRunning, log, config>>
       ELSE Finish(r) /\ UNCHANGED sent

CloseVllmServe(r) == CloseChild(r, "vllm_serve")

CloseLlamaServer(r) == CloseChild(r, "llama_server")

\* poll, whose answer may be out of date when the group is signalled.
PollLeader(r, b) ==
    /\ backend[r] = b
    /\ phase[r] = "closing"
    /\ wasRunning' = [wasRunning EXCEPT ![r] = leader[r] = "up"]
    /\ Goto(r, "signalling")
    /\ UNCHANGED <<port, leader, workers, listening, sent, log, config>>

CloseSglangServe(r) == PollLeader(r, "sglang_serve")

CloseTrtllmServe(r) == PollLeader(r, "trtllm_serve")

\* killpg reaches the child, though it may be a zombie by now, and the workers
\* there are; when poll has reaped the child and no worker is left it raises.
\* PermissionError, taken the same way, means that the number of the group has
\* passed to somebody else.
SignalGroup(r) ==
    /\ phase[r] = "signalling"
    /\ IF wasRunning[r] \/ workers[r] = "up"
       THEN /\ sent' = [sent EXCEPT ![r] =
                           [leader  |-> IF wasRunning[r] THEN @.leader \cup {"TERM"} ELSE @.leader,
                            workers |-> IF workers[r] = "up" THEN @.workers \cup {"TERM"}
                                                             ELSE @.workers]]
            /\ Goto(r, IF wasRunning[r] THEN "stopping" ELSE "draining")
            /\ UNCHANGED <<port, leader, workers, listening, wasRunning, log, config>>
       ELSE Finish(r) /\ UNCHANGED sent

\* The child exits within stop_timeout_s, or within the 5 seconds after SIGKILL.
ChildStopped(r) ==
    /\ phase[r] \in {"stopping", "killing"}
    /\ leader[r] = "dead"
    /\ Finish(r)
    /\ UNCHANGED sent

\* Variant: kills the child and not its group.
SendKill_ChildOnly(r) ==
    sent' = [sent EXCEPT ![r].leader = IF leader[r] = "up" THEN @ \cup {"KILL"} ELSE @]

SendKill(r) ==
    sent' = [sent EXCEPT ![r] =
                [leader  |-> IF leader[r] = "up" THEN @.leader \cup {"KILL"} ELSE @.leader,
                 workers |-> IF Grouped(backend[r]) /\ workers[r] = "up"
                             THEN @.workers \cup {"KILL"} ELSE @.workers]]

\* stop_timeout_s is over.  A child that exits in between is a zombie: killpg
\* still reaches its group.
StopTimesOut(r) ==
    /\ phase[r] = "stopping"
    /\ SendKill(r)
    /\ Goto(r, "killing")
    /\ UNCHANGED <<port, leader, workers, listening, wasRunning, log, config>>

\* Variant: waits for the killed child without a timeout.
KillTimesOut_Never(r) == ChildStopped(r)

\* Not even SIGKILL ends the child in time: a warning, or TimeoutExpired, which
\* the caller logs, or raises in place of what went wrong with the start.
KillTimesOut(r) ==
    /\ phase[r] = "killing"
    /\ Finish(r)
    /\ UNCHANGED sent

\* The child had left its workers behind, and they are gone in time.
GroupGone(r) ==
    /\ phase[r] = "draining"
    /\ workers[r] # "up"
    /\ Finish(r)
    /\ UNCHANGED sent

DrainTimesOut(r) ==
    /\ phase[r] = "draining"
    /\ SendKill(r)
    /\ Finish(r)

-----------------------------------------------------------------------------
(* The processes. *)

Listen(r) ==
    /\ leader[r] = "up"
    /\ ~listening[r]
    /\ ~SomeoneListens(port[r])
    /\ listening' = [listening EXCEPT ![r] = TRUE]
    /\ UNCHANGED <<port, phase, leader, workers, sent, wasRunning, log, config>>

Fork(r) ==
    /\ leader[r] = "up"
    /\ workers[r] = "none"
    /\ "KILL" \notin sent[r].leader
    /\ workers' = [workers EXCEPT ![r] = "up"]
    /\ UNCHANGED <<port, phase, leader, listening, sent, wasRunning, log, config>>

\* The child exits: asked to, or crashed, or because its port is taken.
LeaderExits(r) ==
    /\ leader[r] = "up"
    /\ leader' = [leader EXCEPT ![r] = "dead"]
    /\ listening' = [listening EXCEPT ![r] = FALSE]
    /\ UNCHANGED <<port, phase, workers, sent, wasRunning, log, config>>

WorkersExit(r) ==
    /\ workers[r] = "up"
    /\ workers' = [workers EXCEPT ![r] = "dead"]
    /\ UNCHANGED <<port, phase, leader, listening, sent, wasRunning, log, config>>

Begins(r) ==
    \/ StartVllmServe(r) \/ StartLlamaServer(r) \/ StartSglangServe(r)
    \/ StartTrtllmServe(r) \/ ConfigWriteFails(r)

\* The steps of a thread that is building or closing a runtime.
Thread(r) ==
    \/ Spawn(r) \/ SpawnFails(r)
    \/ PollDead(r) \/ PollRunning(r) \/ ProbeAnswered(r) \/ ProbeFails(r) \/ StartTimesOut(r)
    \/ CloseVllmServe(r) \/ CloseLlamaServer(r) \/ CloseSglangServe(r) \/ CloseTrtllmServe(r)
    \/ SignalGroup(r) \/ ChildStopped(r) \/ StopTimesOut(r) \/ KillTimesOut(r)
    \/ GroupGone(r) \/ DrainTimesOut(r)

Processes(r) == Listen(r) \/ Fork(r) \/ LeaderExits(r) \/ WorkersExit(r)

ProcNext ==
    \E r \in Runtimes : Begins(r) \/ Thread(r) \/ Unload(r) \/ Processes(r)

-----------------------------------------------------------------------------
(* No process escapes: when close has returned, in whatever way, the child *)
(* is dead or was sent SIGKILL; and of a process group a worker still runs *)
(* without having been sent SIGKILL only if the child itself left within   *)
(* its grace period after SIGTERM, the one case in which close does not    *)
(* look after the rest.                                                    *)
NoProcessEscapes ==
    \A r \in Runtimes : phase[r] = "closed" =>
        /\ leader[r] = "up" => "KILL" \in sent[r].leader
        /\ Grouped(backend[r]) /\ workers[r] = "up" =>
              \/ "KILL" \in sent[r].workers
              \/ leader[r] = "dead" /\ "TERM" \in sent[r].leader /\ "KILL" \notin sent[r].leader

(* Nothing is left behind: whether a start failed or a runtime was         *)
(* unloaded, in whichever step and order of exits and timeouts, the output *)
(* file is closed, and the removal of the generated configuration was      *)
(* tried (it may have failed, which the code logs) if its name is known;   *)
(* and not before: as long as the child may run, the configuration it      *)
(* reads is there, and the output a failed start quotes can be read.       *)
(* A configuration whose writing failed is the exception, and only a       *)
(* start that got no further has one; see ConfigIsCleanedUp.               *)
NothingLeftBehind ==
    \A r \in Runtimes :
        /\ phase[r] = "closed" => log[r] # "open" /\ config[r] # "written"
        /\ phase[r] \notin {"absent", "prepared", "closed"} /\ Grouped(backend[r]) =>
              log[r] = "open"
        /\ phase[r] \notin {"absent", "closed"} /\ backend[r] = "trtllm_serve" =>
              config[r] = "written"
        /\ config[r] = "orphan" => phase[r] = "closed" /\ leader[r] = "none"

(* "Only a failure inside yaml.safe_dump itself [...] would leak, which is *)
(* not reachable with the values written there" (docs/reviews, see the     *)
(* README): no generated file is left without an attempt to remove it. The *)
(* values are not all that can fail: the disk may be full.                 *)
ConfigIsCleanedUp ==
    \A r \in Runtimes :
        phase[r] = "closed" => config[r] \in {"none", "removed", "kept"}

(* "terminates the complete process group on unload or failed startup"     *)
(* (docs/trtllm-serve-backend.md:29): no process of the group is left that *)
(* was not even sent SIGKILL.  The code does not: see the README.          *)
GroupIsTerminated ==
    \A r \in Runtimes :
        phase[r] = "closed" /\ backend[r] = "trtllm_serve" /\ workers[r] = "up" =>
            "KILL" \in sent[r].workers
=============================================================================
