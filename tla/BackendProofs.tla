---------------------------- MODULE BackendProofs ---------------------------
(***************************************************************************)
(* Proofs about Backend: for any number of runtimes, ports, calls and      *)
(* files, and every assignment of backends to runtimes.                    *)
(***************************************************************************)
EXTENDS Backend, TLAPS, FiniteSetTheorems

\* What a runtime knows of its processes at each step of its life. A child that
\* was not sent SIGKILL may fork until close has seen it dead.
Watched(r) ==
  /\ phase[r] \in {"absent", "prepared"} => leader[r] = "none"
  /\ leader[r] = "none" => workers[r] = "none"
  /\ phase[r] \notin {"killing", "closed"} => "KILL" \notin sent[r].leader
  /\ phase[r] \in {"signalling", "draining"} => Grouped(backend[r])
  /\ phase[r] = "signalling" /\ ~wasRunning[r] => leader[r] # "up"
  /\ phase[r] = "draining" => leader[r] # "up"
  /\ phase[r] = "stopping" => "TERM" \in sent[r].leader
  /\ phase[r] = "killing" =>
       /\ leader[r] = "up" => "KILL" \in sent[r].leader
       /\ Grouped(backend[r]) /\ workers[r] = "up" => "KILL" \in sent[r].workers
  /\ phase[r] = "closed" =>
       /\ leader[r] = "up" => "KILL" \in sent[r].leader
       /\ Grouped(backend[r]) /\ workers[r] = "up" =>
             \/ "KILL" \in sent[r].workers
             \/ leader[r] = "dead" /\ "TERM" \in sent[r].leader /\ "KILL" \notin sent[r].leader

\* Its output file and its generated configuration.
Tidy(r) ==
  /\ ~Grouped(backend[r]) => log[r] = "none"
  /\ phase[r] \in {"absent", "prepared"} => log[r] = "none"
  /\ phase[r] \notin {"absent", "prepared", "closed"} /\ Grouped(backend[r]) => log[r] = "open"
  /\ phase[r] = "closed" => log[r] # "open" /\ config[r] # "written"
  /\ phase[r] = "absent" => config[r] = "none"
  /\ phase[r] \notin {"absent", "closed"} =>
       config[r] = IF backend[r] = "trtllm_serve" THEN "written" ELSE "none"
  /\ config[r] = "orphan" => phase[r] = "closed" /\ leader[r] = "none"

\* Only a backend that the service knows gets beyond being absent.
Known(r) == phase[r] # "absent" => backend[r] \in ServeBackends \cup {"openai_remote"}

ProcInv ==
  /\ ProcTypeOK
  /\ \A r \in Runtimes : Watched(r) /\ Tidy(r) /\ Known(r)

\* A step of runtime r leaves every other runtime as it is.
OnlyAt(r) ==
  \A s \in Runtimes \ {r} :
    /\ phase'[s] = phase[s] /\ leader'[s] = leader[s] /\ workers'[s] = workers[s]
    /\ sent'[s] = sent[s] /\ wasRunning'[s] = wasRunning[s]
    /\ log'[s] = log[s] /\ config'[s] = config[s]

Signals == [leader : SUBSET {"TERM", "KILL"}, workers : SUBSET {"TERM", "KILL"}]

Sent == [Runtimes -> Signals]

\* A step of one runtime keeps the invariant when it keeps it for that runtime.
LEMMA OneRuntimeSteps ==
  ASSUME ProcInv, NEW r \in Runtimes, ProcTypeOK', OnlyAt(r), UNCHANGED backend,
         Watched(r)', Tidy(r)', Known(r)'
  PROVE  ProcInv'
<1>1. ASSUME NEW s \in Runtimes \ {r} PROVE (Watched(s) /\ Tidy(s) /\ Known(s))'
  BY <1>1 DEF ProcInv, Watched, Tidy, Known, OnlyAt
<1> QED
  BY <1>1 DEF ProcInv

\* The generated file of r, if its name was known, is removed or was at least tried.
Settled(r) ==
  /\ config' \in [Runtimes -> {"none", "written", "orphan", "removed", "kept"}]
  /\ \A s \in Runtimes \ {r} : config'[s] = config[s]
  /\ config'[r] # "written"
  /\ config[r] # "orphan" => config'[r] # "orphan"

\* What the removal of the generated file does, however it ends.
LEMMA RemovalEnds ==
  ASSUME ProcInv, NEW r \in Runtimes, RemoveConfig(r)
  PROVE  Settled(r)
<1>1. PICK fate \in {"removed", "kept"} :
        config' = [config EXCEPT ![r] = IF @ = "written" THEN fate ELSE @]
  BY DEF RemoveConfig
<1> QED
  BY <1>1 DEF ProcInv, ProcTypeOK, Settled

----------------------------------------------------------------------------
\* Building

\* Preparing a server: port and configuration, before any process exists.
LEMMA BeginsKeep ==
  ASSUME ProcInv, UNCHANGED backend, NEW r \in Runtimes, Begins(r)
  PROVE  ProcInv'
<1>1. PICK b \in ServeBackends, next \in {"prepared", "closed"} :
        Begin(r, b, next) /\ backend[r] = b
  BY DEF Begins, StartVllmServe, StartLlamaServer, StartSglangServe, StartTrtllmServe,
     ConfigWriteFails, Begin, ServeBackends
<1>2. \E file \in {"none", "written", "orphan"} :
        /\ config' = IF file = "none" THEN config ELSE [config EXCEPT ![r] = file]
        /\ file # "none" <=> backend[r] = "trtllm_serve"
        /\ file = "orphan" <=> phase'[r] = "closed"
  BY DEF ProcInv, ProcTypeOK, Begins, StartVllmServe, StartLlamaServer, StartSglangServe,
     StartTrtllmServe, ConfigWriteFails, Begin, Goto
<1>3. ProcTypeOK'
  BY <1>1, <1>2 DEF ProcInv, ProcTypeOK, Begin, Goto, Phases
<1>4. OnlyAt(r)
  BY <1>1, <1>2 DEF ProcInv, ProcTypeOK, Begin, Goto, OnlyAt
<1>5. Watched(r)' /\ Tidy(r)' /\ Known(r)'
  BY <1>1, <1>2 DEF ProcInv, ProcTypeOK, Begin, Goto, Watched, Tidy, Known
<1> QED
  BY <1>3, <1>4, <1>5, OneRuntimeSteps

\* Popen, or its failure, which leaves nothing behind.
LEMMA SpawnKeeps ==
  ASSUME ProcInv, UNCHANGED backend, NEW r \in Runtimes, Spawn(r) \/ SpawnFails(r)
  PROVE  ProcInv'
<1>1. CASE Spawn(r)
  <2>1. ProcTypeOK' /\ OnlyAt(r)
    BY <1>1 DEF ProcInv, ProcTypeOK, Spawn, Goto, OnlyAt, Phases
  <2>2. Watched(r)' /\ Tidy(r)' /\ Known(r)'
    BY <1>1 DEF ProcInv, ProcTypeOK, Spawn, Goto, Watched, Tidy, Known
  <2> QED
    BY <2>1, <2>2, OneRuntimeSteps
<1>2. CASE SpawnFails(r)
  <2>0. Settled(r)
    BY <1>2, RemovalEnds DEF SpawnFails
  <2>1. ProcTypeOK' /\ OnlyAt(r)
    BY <1>2, <2>0 DEF ProcInv, ProcTypeOK, SpawnFails, Goto, OnlyAt, Phases, Settled
  <2>2. Watched(r)' /\ Tidy(r)' /\ Known(r)'
    BY <1>2, <2>0 DEF ProcInv, ProcTypeOK, SpawnFails, Goto, Watched, Tidy, Known, Settled
  <2> QED
    BY <2>1, <2>2, OneRuntimeSteps
<1> QED
  BY <1>1, <1>2

\* The rounds of _wait_until_ready, and the decision to close.
LEMMA WaitingKeeps ==
  ASSUME ProcInv, UNCHANGED backend, NEW r \in Runtimes,
         \/ PollDead(r) \/ PollRunning(r) \/ ProbeAnswered(r) \/ ProbeFails(r)
         \/ StartTimesOut(r) \/ Unload(r)
  PROVE  ProcInv'
<1>1. /\ phase[r] \in {"polling", "probing", "ready"}
      /\ \E p \in {"polling", "probing", "ready", "closing"} : Goto(r, p)
      /\ UNCHANGED <<port, leader, workers, listening, sent, wasRunning, log, config>>
  BY DEF PollDead, PollRunning, ProbeAnswered, ProbeFails, StartTimesOut, Unload
<1>2. ProcTypeOK' /\ OnlyAt(r)
  BY <1>1 DEF ProcInv, ProcTypeOK, Goto, OnlyAt, Phases
<1>3. Watched(r)' /\ Tidy(r)' /\ Known(r)'
  BY <1>1 DEF ProcInv, ProcTypeOK, Goto, Watched, Tidy, Known
<1> QED
  BY <1>2, <1>3, OneRuntimeSteps

----------------------------------------------------------------------------
\* Closing

\* The end of close: what is left to show is that no process escapes.
LEMMA FinishKeeps ==
  ASSUME ProcInv, UNCHANGED backend, NEW r \in Runtimes, Finish(r), phase[r] # "absent",
         sent' \in Sent, \A s \in Runtimes \ {r} : sent'[s] = sent[s], Watched(r)'
  PROVE  ProcInv'
<1>1. Settled(r)
  BY RemovalEnds DEF Finish
<1>2. ProcTypeOK' /\ OnlyAt(r)
  <2>1. /\ phase' \in [Runtimes -> Phases] /\ log' \in [Runtimes -> {"none", "open", "closed"}]
        /\ \A s \in Runtimes \ {r} : phase'[s] = phase[s] /\ log'[s] = log[s]
    BY DEF ProcInv, ProcTypeOK, Finish, Goto, Phases
  <2>2. UNCHANGED <<port, leader, workers, listening, wasRunning>>
    BY DEF Finish
  <2> QED
    BY <1>1, <2>1, <2>2 DEF ProcInv, ProcTypeOK, Settled, OnlyAt, Sent, Signals
<1>3. Tidy(r)' /\ Known(r)'
  BY <1>1 DEF ProcInv, ProcTypeOK, Finish, Settled, Goto, Tidy, Known
<1> QED
  BY <1>2, <1>3, OneRuntimeSteps

\* close without a process group: only the child is asked to stop.
LEMMA CloseChildKeeps ==
  ASSUME ProcInv, UNCHANGED backend, NEW r \in Runtimes,
         CloseVllmServe(r) \/ CloseLlamaServer(r)
  PROVE  ProcInv'
<1>1. PICK b \in {"vllm_serve", "llama_server"} : CloseChild(r, b)
  BY DEF CloseVllmServe, CloseLlamaServer
<1>2. ~Grouped(backend[r])
  BY <1>1 DEF CloseChild, Grouped
<1>3. CASE leader[r] = "up"
  <2> DEFINE now == [sent[r] EXCEPT !.leader = @ \cup {"TERM"}]
  <2>1. now \in Signals /\ "TERM" \in now.leader /\ ("KILL" \in now.leader <=> "KILL" \in sent[r].leader)
    BY DEF ProcInv, ProcTypeOK, Signals
  <2>2. sent' = [sent EXCEPT ![r] = now]
    BY <1>1, <1>3 DEF CloseChild, ProcInv, ProcTypeOK
  <2> HIDE DEF now
  <2>3. Goto(r, "stopping") /\ UNCHANGED <<port, leader, workers, listening, wasRunning, log, config>>
    BY <1>1, <1>3 DEF CloseChild
  <2>4. ProcTypeOK' /\ OnlyAt(r)
    BY <2>1, <2>2, <2>3 DEF ProcInv, ProcTypeOK, Goto, Phases, Signals, OnlyAt
  <2>5. Watched(r)' /\ Tidy(r)' /\ Known(r)'
    BY <1>1, <1>2, <2>1, <2>2, <2>3 DEF ProcInv, ProcTypeOK, CloseChild, Goto, Watched, Tidy, Known
  <2> QED
    BY <2>4, <2>5, OneRuntimeSteps
<1>4. CASE leader[r] # "up"
  <2>1. Finish(r) /\ UNCHANGED sent /\ phase[r] = "closing"
    BY <1>1, <1>4 DEF CloseChild
  <2>2. Watched(r)'
    BY <1>2, <1>4, <2>1 DEF ProcInv, ProcTypeOK, Finish, Goto, Watched
  <2> QED
    BY <2>1, <2>2, FinishKeeps DEF ProcInv, ProcTypeOK, Sent, Signals
<1> QED
  BY <1>3, <1>4

\* close with a process group looks first whether the child still runs.
LEMMA PollLeaderKeeps ==
  ASSUME ProcInv, UNCHANGED backend, NEW r \in Runtimes,
         CloseSglangServe(r) \/ CloseTrtllmServe(r)
  PROVE  ProcInv'
<1>1. PICK b \in {"sglang_serve", "trtllm_serve"} : PollLeader(r, b)
  BY DEF CloseSglangServe, CloseTrtllmServe
<1>2. Grouped(backend[r])
  BY <1>1 DEF PollLeader, Grouped
<1>3. ProcTypeOK' /\ OnlyAt(r)
  BY <1>1 DEF ProcInv, ProcTypeOK, PollLeader, Goto, OnlyAt, Phases
<1>4. Watched(r)' /\ Tidy(r)' /\ Known(r)'
  BY <1>1, <1>2 DEF ProcInv, ProcTypeOK, PollLeader, Goto, Watched, Tidy, Known
<1> QED
  BY <1>3, <1>4, OneRuntimeSteps

\* SIGTERM to the group, and which wait follows it.
LEMMA SignalGroupKeeps ==
  ASSUME ProcInv, UNCHANGED backend, NEW r \in Runtimes, SignalGroup(r)
  PROVE  ProcInv'
<1>1. CASE wasRunning[r] \/ workers[r] = "up"
  <2> DEFINE now == [leader  |-> IF wasRunning[r] THEN sent[r].leader \cup {"TERM"}
                                 ELSE sent[r].leader,
                     workers |-> IF workers[r] = "up" THEN sent[r].workers \cup {"TERM"}
                                 ELSE sent[r].workers]
  <2>1. /\ now \in Signals
        /\ wasRunning[r] => "TERM" \in now.leader
        /\ "KILL" \in now.leader <=> "KILL" \in sent[r].leader
    BY DEF ProcInv, ProcTypeOK, Signals
  <2>2. sent' = [sent EXCEPT ![r] = now]
    BY <1>1 DEF SignalGroup
  <2> HIDE DEF now
  <2>3. /\ Goto(r, IF wasRunning[r] THEN "stopping" ELSE "draining")
        /\ UNCHANGED <<port, leader, workers, listening, wasRunning, log, config>>
    BY <1>1 DEF SignalGroup
  <2>4. ProcTypeOK' /\ OnlyAt(r)
    BY <2>1, <2>2, <2>3 DEF ProcInv, ProcTypeOK, Goto, Phases, Signals, OnlyAt
  <2>5. Watched(r)' /\ Tidy(r)' /\ Known(r)'
    BY <2>1, <2>2, <2>3 DEF ProcInv, ProcTypeOK, SignalGroup, Goto, Watched, Tidy, Known
  <2> QED
    BY <2>4, <2>5, OneRuntimeSteps
<1>2. CASE ~(wasRunning[r] \/ workers[r] = "up")
  <2>1. Finish(r) /\ UNCHANGED sent /\ phase[r] = "signalling"
    BY <1>2 DEF SignalGroup
  <2>2. Watched(r)'
    BY <1>2, <2>1 DEF ProcInv, ProcTypeOK, Finish, Goto, Watched
  <2> QED
    BY <2>1, <2>2, FinishKeeps DEF ProcInv, ProcTypeOK, Sent, Signals
<1> QED
  BY <1>1, <1>2

\* The waits of close that end with nothing left to kill, or give up after SIGKILL.
LEMMA StoppedKeeps ==
  ASSUME ProcInv, UNCHANGED backend, NEW r \in Runtimes,
         ChildStopped(r) \/ KillTimesOut(r) \/ GroupGone(r)
  PROVE  ProcInv'
<1>1. Finish(r) /\ UNCHANGED sent /\ phase[r] \in {"stopping", "killing", "draining"}
  BY DEF ChildStopped, KillTimesOut, GroupGone
<1>2. Watched(r)'
  BY <1>1 DEF ProcInv, ProcTypeOK, ChildStopped, KillTimesOut, GroupGone, Finish, Goto, Watched
<1> QED
  BY <1>1, <1>2, FinishKeeps DEF ProcInv, ProcTypeOK, Sent, Signals

\* The waits of close that time out and send SIGKILL.
LEMMA KillKeeps ==
  ASSUME ProcInv, UNCHANGED backend, NEW r \in Runtimes, StopTimesOut(r) \/ DrainTimesOut(r)
  PROVE  ProcInv'
<1> DEFINE now == [leader  |-> IF leader[r] = "up" THEN sent[r].leader \cup {"KILL"}
                               ELSE sent[r].leader,
                   workers |-> IF Grouped(backend[r]) /\ workers[r] = "up"
                               THEN sent[r].workers \cup {"KILL"} ELSE sent[r].workers]
<1>1. /\ now \in Signals
      /\ leader[r] = "up" => "KILL" \in now.leader
      /\ leader[r] # "up" => now.leader = sent[r].leader
      /\ Grouped(backend[r]) /\ workers[r] = "up" => "KILL" \in now.workers
  BY DEF ProcInv, ProcTypeOK, Signals
<1>2. sent' = [sent EXCEPT ![r] = now]
  BY DEF StopTimesOut, DrainTimesOut, SendKill
<1> HIDE DEF now
<1>3. sent' \in Sent /\ \A s \in Runtimes \ {r} : sent'[s] = sent[s]
  BY <1>1, <1>2 DEF ProcInv, ProcTypeOK, Sent, Signals
<1>4. CASE StopTimesOut(r)
  <2>1. /\ phase[r] = "stopping" /\ Goto(r, "killing")
        /\ UNCHANGED <<port, leader, workers, listening, wasRunning, log, config>>
    BY <1>4 DEF StopTimesOut
  <2>2. ProcTypeOK' /\ OnlyAt(r)
    BY <1>3, <2>1 DEF ProcInv, ProcTypeOK, Goto, Phases, Sent, Signals, OnlyAt
  <2>3. sent'[r] = now /\ phase'[r] = "killing" /\ UNCHANGED <<leader, workers, wasRunning, log, config>>
    BY <1>2, <2>1 DEF ProcInv, ProcTypeOK, Goto
  <2>4. Watched(r)'
    BY <1>1, <2>1, <2>3 DEF ProcInv, Watched
  <2>5. Tidy(r)' /\ Known(r)'
    BY <2>1, <2>3 DEF ProcInv, Tidy, Known
  <2> QED
    BY <2>2, <2>4, <2>5, OneRuntimeSteps
<1>5. CASE DrainTimesOut(r)
  <2>1. Finish(r) /\ phase[r] = "draining"
    BY <1>5 DEF DrainTimesOut
  <2>2. Watched(r)'
    BY <1>1, <1>2, <2>1 DEF ProcInv, ProcTypeOK, Finish, Goto, Watched
  <2> QED
    BY <1>3, <2>1, <2>2, FinishKeeps
<1> QED
  BY <1>4, <1>5

\* What processes do by themselves: fork, exit, listen.
LEMMA ProcessesKeep ==
  ASSUME ProcInv, UNCHANGED backend, NEW r \in Runtimes, Processes(r)
  PROVE  ProcInv'
<1>1. ProcTypeOK' /\ OnlyAt(r)
  BY DEF ProcInv, ProcTypeOK, Processes, Listen, Fork, LeaderExits, WorkersExit, OnlyAt
<1>2. Watched(r)' /\ Tidy(r)' /\ Known(r)'
  BY DEF ProcInv, ProcTypeOK, Processes, Listen, Fork, LeaderExits, WorkersExit, Watched, Tidy, Known
<1> QED
  BY <1>1, <1>2, OneRuntimeSteps

\* The remote backend's activation, which starts no process.
LEMMA ActivateKeeps ==
  ASSUME ProcInv, UNCHANGED backend, NEW r \in Runtimes, Activate(r)
  PROVE  ProcInv'
<1>1. ProcTypeOK' /\ OnlyAt(r)
  BY DEF ProcInv, ProcTypeOK, Activate, Goto, OnlyAt, Phases
<1>2. Watched(r)' /\ Tidy(r)' /\ Known(r)'
  BY DEF ProcInv, ProcTypeOK, Activate, Grouped, Goto, Watched, Tidy, Known
<1> QED
  BY <1>1, <1>2, OneRuntimeSteps

\* The invariant only depends on the variables of ServeProcess.
LEMMA ProcUnchanged ==
  ASSUME ProcInv, UNCHANGED <<backend, procVars>>
  PROVE  ProcInv'
BY DEF ProcInv, ProcTypeOK, procVars, Watched, Tidy, Known

----------------------------------------------------------------------------
\* Processes and files of every runtime, in every execution

\* What each runtime knows of its processes is true, from the Popen of _build_runtime
\* to the end of close.
THEOREM ProcInvariance == Spec => []ProcInv
<1>1. Init => ProcInv
  <2> SUFFICES ASSUME Init PROVE ProcInv
    OBVIOUS
  <2>1. ProcTypeOK
    <3>1. sent \in [Runtimes -> [leader : SUBSET {"TERM", "KILL"}, workers : SUBSET {"TERM", "KILL"}]]
      BY DEF Init, ProcInit
    <3> QED
      BY <3>1 DEF Init, ProcInit, ProcTypeOK, Phases
  <2>2. ASSUME NEW r \in Runtimes PROVE Watched(r) /\ Tidy(r) /\ Known(r)
    BY DEF Init, ProcInit, Watched, Tidy, Known
  <2> QED
    BY <2>1, <2>2 DEF ProcInv
<1>2. ProcInv /\ [Next]_vars => ProcInv'
  <2> SUFFICES ASSUME ProcInv, [Next]_vars PROVE ProcInv'
    OBVIOUS
  <2>1. CASE ProcNext /\ UNCHANGED <<backend, callVars>>
    <3> PICK r \in Runtimes : Begins(r) \/ Thread(r) \/ Unload(r) \/ Processes(r)
      BY <2>1 DEF ProcNext
    <3>1. CASE Begins(r)
      BY <2>1, <3>1, BeginsKeep
    <3>2. CASE Unload(r)
      BY <2>1, <3>2, WaitingKeeps
    <3>3. CASE Processes(r)
      BY <2>1, <3>3, ProcessesKeep
    <3>4. CASE Thread(r)
      BY <2>1, <3>4, SpawnKeeps, WaitingKeeps, CloseChildKeeps, PollLeaderKeeps, SignalGroupKeeps,
         StoppedKeeps, KillKeeps
         DEF Thread
    <3> QED
      BY <3>1, <3>2, <3>3, <3>4
  <2>2. CASE UNCHANGED backend /\ \E r \in Runtimes : Activate(r)
    BY <2>2, ActivateKeeps
  <2>3. CASE UNCHANGED <<backend, procVars>>
    BY <2>3, ProcUnchanged
  <2> QED
    BY <2>1, <2>2, <2>3 DEF Next, vars
<1> QED
  BY <1>1, <1>2, PTL DEF Spec

\* When close has returned, the child is dead or was sent SIGKILL, and so was
\* every worker of a process group that still runs, but for the case in which the
\* child left within its grace period.
THEOREM NoProcessIsForgotten == Spec => []NoProcessEscapes
<1>1. ProcInv => NoProcessEscapes
  BY DEF ProcInv, Watched, NoProcessEscapes
<1> QED
  BY <1>1, ProcInvariance, PTL

\* A closed runtime has closed its output file and tried to remove the configuration
\* whose name it knows; one that is not closed still has both; and a configuration
\* that nobody knows is that of a start whose writing failed, and which had no child.
THEOREM ClosedRuntimesAreTidy == Spec => []NothingLeftBehind
<1>1. ProcInv => NothingLeftBehind
  BY DEF ProcInv, Tidy, NothingLeftBehind
<1> QED
  BY <1>1, ProcInvariance, PTL

----------------------------------------------------------------------------
\* What failures are put down to

\* The verdict of FaultsAreUpstreams on one outcome of a call to backend b.
RightlyBlamed(o, cause, b) ==
  CASE o.status = 200 -> o.text \in {"text", ""}
    [] o.status = 400 -> cause = "client"
    [] o.status = 429 -> b = "openai_remote"
    [] o.status = 500 -> o.code = "unmapped" /\ cause = "dropped"
    [] OTHER          -> o.status \in {502, 504}

\* HTTP error statuses of the server, for all backends that map them.
LEMMA StatusIsBlamedRightly ==
  ASSUME NEW s \in Statuses, NEW cause
  PROVE  /\ \A b : RightlyBlamed(VllmServeStatus(s), cause, b) /\ RightlyBlamed(TrtllmServeStatus(s), cause, b)
         /\ RightlyBlamed(RemoteStatus(s), cause, "openai_remote")
BY DEF Statuses, RightlyBlamed, VllmServeStatus, TrtllmServeStatus, RemoteStatus, Failure

\* Bodies that parse, as each backend reads the text out of them.
LEMMA TextIsBlamedRightly ==
  ASSUME NEW t \in Bodies, NEW cause, NEW b, NEW thinking
  PROVE  /\ RightlyBlamed(ContentOnly(t), cause, b)
         /\ RightlyBlamed(VllmServeText(t, thinking), cause, b)
         /\ RightlyBlamed(SglangServeText(t), cause, b)
<1>1. /\ RightlyBlamed(Text("text"), cause, b)
      /\ RightlyBlamed(Text(""), cause, b)
  BY DEF RightlyBlamed, Text
<1>2. \A code : RightlyBlamed(Failure(502, code), cause, b)
  BY DEF RightlyBlamed, Failure
<1>3. t.content \in {"text", "blank", "none"}
  BY DEF Bodies
<1>4. RightlyBlamed(ContentOnly(t), cause, b)
  BY <1>1, <1>2, <1>3 DEF ContentOnly, Stripped, ParseFailure
<1> QED
  BY <1>1, <1>2, <1>4 DEF VllmServeText, SglangServeText

\* Exchanges that end before a status: timeouts, refused and dropped connections.
LEMMA BreakIsBlamedRightly ==
  ASSUME NEW cause, NEW b
  PROVE  /\ RightlyBlamed(Failure(504, "timeout"), cause, b)
         /\ RightlyBlamed(Failure(502, "connection_error"), cause, b)
         /\ RightlyBlamed(Unmapped, "dropped", b)
         /\ RightlyBlamed(ParseFailure, cause, b)
         /\ RightlyBlamed(Failure(400, "invalid_file_input"), "client", b)
BY DEF RightlyBlamed, Unmapped, ParseFailure, Failure

\* The three kinds of replies.
LEMMA ReplyKinds ==
  ASSUME NEW reply \in Replies
  PROVE  \/ reply.how = "broken" /\ reply.why \in Breaks
         \/ reply.how = "status" /\ reply.status \in Statuses
         \/ reply.how = "body" /\ reply.body \in Bodies
BY DEF Replies

\* What the exchange itself can come to, for every mapping of statuses and bodies.
LEMMA RequestIsBlamedRightly ==
  ASSUME NEW reply \in Replies
  PROVE  RightlyBlamed(RequestFailure(reply), Cause(reply), "openai_remote")
<1>1. CASE reply.how = "broken" /\ reply.why \in Breaks
  BY <1>1, BreakIsBlamedRightly DEF RequestFailure, Posted, Cause, Breaks
<1>2. CASE reply.how = "status" /\ reply.status \in Statuses
  BY <1>2, StatusIsBlamedRightly DEF RequestFailure, Posted
<1>3. CASE reply.how = "body" /\ reply.body \in Bodies
  BY <1>3, BreakIsBlamedRightly DEF RequestFailure, Posted
<1> QED
  BY <1>1, <1>2, <1>3, ReplyKinds

\* The whole mapping of complete, of every backend.
LEMMA OutcomeIsBlamedRightly ==
  ASSUME NEW b \in ServeBackends \cup {"openai_remote"}, NEW reply \in Replies, NEW thinking
  PROVE  RightlyBlamed(Outcome(b, reply, thinking), Cause(reply), b)
<1> DEFINE fair(o) == RightlyBlamed(o, Cause(reply), b)
<1>1. /\ fair(VllmServeOutcome(reply, thinking))
      /\ fair(LlamaServerOutcome(reply))
      /\ fair(SglangServeOutcome(reply))
      /\ fair(TrtllmServeOutcome(reply))
      /\ b = "openai_remote" => fair(RemoteOutcome(reply))
  <2>1. CASE reply.how = "broken" /\ reply.why \in Breaks
    BY <2>1, BreakIsBlamedRightly
       DEF VllmServeOutcome, LlamaServerOutcome, SglangServeOutcome, TrtllmServeOutcome,
           RemoteOutcome, Posted, Cause, Breaks
  <2>2. CASE reply.how = "status" /\ reply.status \in Statuses
    BY <2>2, StatusIsBlamedRightly
       DEF VllmServeOutcome, LlamaServerOutcome, SglangServeOutcome, TrtllmServeOutcome,
           RemoteOutcome, LlamaServerStatus, SglangServeStatus, Posted
  <2>3. CASE reply.how = "body" /\ reply.body \in Bodies
    BY <2>3, TextIsBlamedRightly, BreakIsBlamedRightly
       DEF VllmServeOutcome, LlamaServerOutcome, SglangServeOutcome, TrtllmServeOutcome,
           RemoteOutcome, LlamaServerText, RemoteText, TrtllmServeText, Posted
  <2> QED
    BY <2>1, <2>2, <2>3, ReplyKinds
<1> QED
  BY <1>1 DEF Outcome, ServeBackends

----------------------------------------------------------------------------
\* The calls

\* The call has all its fields; the file it holds upstream, if any, is the one it
\* is about to read back or delete; it runs on a backend that the service knows,
\* files only on openai_remote; and what it ends with, or keeps until the file is
\* deleted, is put down to the right party.
CallOK(c) ==
  /\ DOMAIN call[c] = DOMAIN NoCall
  /\ \A f \in Files : stored[c][f] = "held" =>
        f = call[c].file /\ call[c].phase \in {"fetch", "delete"}
  /\ call[c].phase # "idle" =>
        /\ call[c].on \in Runtimes
        /\ backend[call[c].on] \in ServeBackends \cup {"openai_remote"}
  /\ call[c].phase \in {"upload", "fetch", "delete"} => backend[call[c].on] = "openai_remote"
  /\ call[c].failure # NoCall.failure => RightlyBlamed(call[c].failure, call[c].cause, "openai_remote")
  /\ call[c].phase = "done" => RightlyBlamed(call[c].outcome, call[c].cause, backend[call[c].on])

CallInv ==
  /\ DOMAIN call = Calls
  /\ DOMAIN stored = Calls
  /\ \A c \in Calls : DOMAIN stored[c] = Files
  /\ \A c \in Calls : CallOK(c)

\* A step of one call that leaves the others alone.
LEMMA OneCallSteps ==
  ASSUME CallInv, NEW c \in Calls, UNCHANGED backend,
         DOMAIN call' = Calls, DOMAIN stored' = Calls, DOMAIN stored'[c] = Files,
         \A d \in Calls \ {c} : call'[d] = call[d] /\ stored'[d] = stored[d],
         CallOK(c)'
  PROVE  CallInv'
<1>1. ASSUME NEW d \in Calls \ {c} PROVE CallOK(d)' /\ DOMAIN stored'[d] = Files
  BY <1>1 DEF CallInv, CallOK, Files
<1> QED
  BY <1>1 DEF CallInv, Files

\* The fields a step of a call changes, and that it changes no other call.
LEMMA UpdateSets ==
  ASSUME CallInv, NEW c \in Calls, NEW fields, Update(c, fields)
  PROVE  /\ DOMAIN call' = Calls
         /\ \A d \in Calls \ {c} : call'[d] = call[d]
         /\ DOMAIN call'[c] = DOMAIN NoCall
         /\ \A x \in DOMAIN NoCall :
               call'[c][x] = IF x \in DOMAIN fields THEN fields[x] ELSE call[c][x]
<1> DEFINE now == [x \in DOMAIN call[c] |->
                      IF x \in DOMAIN fields THEN fields[x] ELSE call[c][x]]
<1>1. call' = [call EXCEPT ![c] = now]
  BY DEF Update
<1>2. DOMAIN call[c] = DOMAIN NoCall
  BY DEF CallInv, CallOK
<1>3. /\ DOMAIN now = DOMAIN NoCall
      /\ \A x \in DOMAIN NoCall : now[x] = IF x \in DOMAIN fields THEN fields[x] ELSE call[c][x]
  BY <1>2
<1> HIDE DEF now
<1> QED
  BY <1>1, <1>3 DEF CallInv

\* A call that ends keeps its runtime, and has its outcome and cause.
LEMMA EndCallSets ==
  ASSUME CallInv, NEW c \in Calls, NEW outcome, NEW cause, EndCall(c, outcome, cause)
  PROVE  /\ DOMAIN call' = Calls
         /\ \A d \in Calls \ {c} : call'[d] = call[d]
         /\ DOMAIN call'[c] = DOMAIN NoCall
         /\ call'[c].phase = "done" /\ call'[c].on = call[c].on
         /\ call'[c].outcome = outcome /\ call'[c].cause = cause
         /\ call'[c].failure = NoCall.failure
<1> DEFINE now == [NoCall EXCEPT !.phase = "done", !.on = call[c].on,
                                 !.outcome = outcome, !.cause = cause]
<1>1. call' = [call EXCEPT ![c] = now]
  BY DEF EndCall
<1>2. /\ DOMAIN now = DOMAIN NoCall
      /\ now.phase = "done" /\ now.on = call[c].on /\ now.outcome = outcome /\ now.cause = cause
      /\ now.failure = NoCall.failure
  BY DEF NoCall
<1> HIDE DEF now
<1> QED
  BY <1>1, <1>2 DEF CallInv

\* The fate of one file of one call.
LEMMA SetFileSets ==
  ASSUME CallInv, NEW c \in Calls, NEW fate, SetFile(c, fate)
  PROVE  /\ DOMAIN stored' = Calls
         /\ \A d \in Calls \ {c} : stored'[d] = stored[d]
         /\ DOMAIN stored'[c] = Files
         /\ \A f \in Files : stored'[c][f] = IF f = call[c].file THEN fate ELSE stored[c][f]
BY DEF CallInv, SetFile

\* The fields of a call.
LEMMA FieldNames ==
  DOMAIN NoCall = {"phase", "on", "files", "file", "thinking", "server", "failure", "outcome",
                   "cause"}
BY DEF NoCall

\* complete begins on a runtime that is ready.
LEMMA CallKeeps ==
  ASSUME ProcInv, CallInv, NEW c \in Calls, NEW r \in Runtimes, UNCHANGED backend, Call(c, r)
  PROVE  CallInv'
<1>1. PICK n \in 0..MaxFiles \cup {0}, t \in BOOLEAN :
        /\ Update(c, [phase |-> IF n = 0 THEN "post" ELSE "upload", on |-> r, files |-> n,
                      thinking |-> t])
        /\ n # 0 => backend[r] = "openai_remote"
  BY DEF Call
<1> DEFINE fields == [phase |-> IF n = 0 THEN "post" ELSE "upload", on |-> r, files |-> n,
                      thinking |-> t]
<1>2. /\ DOMAIN fields = {"phase", "on", "files", "thinking"}
      /\ fields["phase"] = (IF n = 0 THEN "post" ELSE "upload") /\ fields["on"] = r
  OBVIOUS
<1>3. Update(c, fields)
  BY <1>1
<1> HIDE DEF fields
<1>4. /\ DOMAIN call' = Calls /\ DOMAIN call'[c] = DOMAIN NoCall
      /\ \A d \in Calls \ {c} : call'[d] = call[d]
      /\ call'[c].phase = (IF n = 0 THEN "post" ELSE "upload") /\ call'[c].on = r
      /\ call'[c].failure = call[c].failure /\ call'[c].cause = call[c].cause
  BY <1>2, <1>3, UpdateSets, FieldNames
<1>5. \A f \in Files : stored[c][f] # "held"
  BY DEF CallInv, CallOK, Call
<1>6. backend[r] \in ServeBackends \cup {"openai_remote"}
  BY DEF Call, ProcInv, Known
<1>7. CallOK(c)'
  BY <1>1, <1>4, <1>5, <1>6 DEF CallInv, CallOK, Call
<1> QED
  BY <1>4, <1>7, OneCallSteps DEF Call, CallInv

\* A call that ends, when it holds no file any more.
LEMMA EndingKeeps ==
  ASSUME CallInv, NEW c \in Calls, UNCHANGED backend, call[c].phase # "idle",
         NEW outcome, NEW cause, EndCall(c, outcome, cause),
         RightlyBlamed(outcome, cause, backend[call[c].on]),
         DOMAIN stored' = Calls, DOMAIN stored'[c] = Files,
         \A d \in Calls \ {c} : stored'[d] = stored[d],
         \A f \in Files : stored'[c][f] # "held"
  PROVE  CallInv'
<1>1. CallOK(c)'
  BY EndCallSets DEF CallInv, CallOK
<1> QED
  BY <1>1, EndCallSets, OneCallSteps

\* A call that goes on, with a file or without.
LEMMA GoingOnKeeps ==
  ASSUME CallInv, NEW c \in Calls, UNCHANGED backend, call[c].phase # "idle",
         NEW fields, Update(c, fields),
         DOMAIN fields \subseteq {"phase", "file", "server", "failure", "cause"},
         "phase" \in DOMAIN fields, fields["phase"] \in {"upload", "fetch", "delete", "post", "waiting"},
         fields["phase"] \in {"upload", "fetch", "delete"} => backend[call[c].on] = "openai_remote",
         "failure" \in DOMAIN fields \/ "cause" \in DOMAIN fields =>
            /\ {"failure", "cause"} \subseteq DOMAIN fields
            /\ RightlyBlamed(fields["failure"], fields["cause"], "openai_remote"),
         DOMAIN stored' = Calls, DOMAIN stored'[c] = Files,
         \A d \in Calls \ {c} : stored'[d] = stored[d],
         \A f \in Files : stored'[c][f] = "held" =>
            /\ f = call[c].file /\ "file" \notin DOMAIN fields
            /\ fields["phase"] \in {"fetch", "delete"}
  PROVE  CallInv'
<1>1. /\ call'[c].phase = fields["phase"] /\ call'[c].on = call[c].on
      /\ "file" \notin DOMAIN fields => call'[c].file = call[c].file
      /\ \/ call'[c].failure = call[c].failure /\ call'[c].cause = call[c].cause
         \/ call'[c].failure = fields["failure"] /\ call'[c].cause = fields["cause"]
            /\ {"failure", "cause"} \subseteq DOMAIN fields
  BY UpdateSets, FieldNames
<1>2. DOMAIN call' = Calls /\ DOMAIN call'[c] = DOMAIN NoCall
      /\ \A d \in Calls \ {c} : call'[d] = call[d]
  BY UpdateSets
<1>3. CallOK(c)'
  BY <1>1, <1>2 DEF CallInv, CallOK
<1> QED
  BY <1>2, <1>3, OneCallSteps

\* The upload of a file, and its ways to fail.
LEMMA UploadKeeps ==
  ASSUME CallInv, NEW c \in Calls, UNCHANGED backend,
         FileRefused(c) \/ Uploaded(c) \/ UploadFails(c)
  PROVE  CallInv'
<1>1. /\ call[c].phase = "upload" /\ backend[call[c].on] = "openai_remote"
      /\ \A f \in Files : stored[c][f] # "held"
  BY DEF FileRefused, Uploaded, UploadFails, CallInv, CallOK
<1>2. CASE FileRefused(c)
  <2>1. EndCall(c, Failure(400, "invalid_file_input"), "client") /\ UNCHANGED stored
    BY <1>2 DEF FileRefused
  <2> QED
    BY <1>1, <2>1, BreakIsBlamedRightly, EndingKeeps DEF CallInv
<1>3. CASE Uploaded(c)
  <2> DEFINE fields == [phase |-> "fetch"]
  <2>1. Update(c, fields) /\ SetFile(c, "held")
    BY <1>3 DEF Uploaded
  <2>2. DOMAIN fields = {"phase"} /\ fields["phase"] = "fetch"
    OBVIOUS
  <2> HIDE DEF fields
  <2>3. \A f \in Files : stored'[c][f] = "held" => f = call[c].file
    BY <1>1, <2>1, SetFileSets
  <2> QED
    BY <1>1, <2>1, <2>2, <2>3, SetFileSets, GoingOnKeeps
<1>4. CASE UploadFails(c)
  <2>1. PICK reply \in Replies : EndCall(c, RequestFailure(reply), Cause(reply))
    BY <1>4 DEF UploadFails
  <2>2. UNCHANGED stored \/ SetFile(c, "lost")
    BY <1>4 DEF UploadFails
  <2>3. /\ DOMAIN stored' = Calls /\ DOMAIN stored'[c] = Files
        /\ \A d \in Calls \ {c} : stored'[d] = stored[d]
        /\ \A f \in Files : stored'[c][f] # "held"
    BY <1>1, <2>2, SetFileSets DEF CallInv
  <2> QED
    BY <1>1, <2>1, <2>3, RequestIsBlamedRightly, EndingKeeps
<1> QED
  BY <1>2, <1>3, <1>4

\* The reading of an uploaded file, and its ways to fail.
LEMMA FetchKeeps ==
  ASSUME CallInv, NEW c \in Calls, UNCHANGED backend, Fetched(c) \/ FetchFails(c)
  PROVE  CallInv'
<1>1. /\ call[c].phase = "fetch" /\ backend[call[c].on] = "openai_remote"
      /\ UNCHANGED stored
      /\ \A f \in Files : stored[c][f] = "held" => f = call[c].file
  BY DEF Fetched, FetchFails, CallInv, CallOK
<1>2. CASE Fetched(c)
  <2> DEFINE fields == [phase |-> "delete"]
  <2>1. Update(c, fields)
    BY <1>2 DEF Fetched
  <2>2. DOMAIN fields = {"phase"} /\ fields["phase"] = "delete"
    OBVIOUS
  <2> HIDE DEF fields
  <2> QED
    BY <1>1, <2>1, <2>2, GoingOnKeeps DEF CallInv
<1>3. CASE FetchFails(c)
  <2>0. PICK reply \in Replies :
          Update(c, [phase |-> "delete", failure |-> RequestFailure(reply), cause |-> Cause(reply)])
    BY <1>3 DEF FetchFails
  <2> DEFINE fields == [phase |-> "delete", failure |-> RequestFailure(reply),
                        cause |-> Cause(reply)]
  <2>1. Update(c, fields)
    BY <2>0
  <2>2. /\ DOMAIN fields = {"phase", "failure", "cause"} /\ fields["phase"] = "delete"
        /\ fields["failure"] = RequestFailure(reply) /\ fields["cause"] = Cause(reply)
    OBVIOUS
  <2> HIDE DEF fields
  <2> QED
    BY <1>1, <2>1, <2>2, RequestIsBlamedRightly, GoingOnKeeps DEF CallInv
<1> QED
  BY <1>2, <1>3

\* The file is deleted, or its deletion was tried: the call holds none.
LEMMA AfterFileKeeps ==
  ASSUME CallInv, NEW c \in Calls, UNCHANGED backend, call[c].phase = "delete",
         AfterFile(c), NEW fate, SetFile(c, fate), fate # "held"
  PROVE  CallInv'
<1>1. /\ backend[call[c].on] = "openai_remote"
      /\ \A f \in Files : stored[c][f] = "held" => f = call[c].file
  BY DEF CallInv, CallOK
<1>2. \A f \in Files : stored'[c][f] # "held"
  BY <1>1, SetFileSets
<1>3. CASE call[c].failure # NoCall.failure
  <2>1. EndCall(c, call[c].failure, call[c].cause)
    BY <1>3 DEF AfterFile
  <2>2. RightlyBlamed(call[c].failure, call[c].cause, backend[call[c].on])
    BY <1>1, <1>3 DEF CallInv, CallOK
  <2> QED
    BY <1>2, <2>1, <2>2, SetFileSets, EndingKeeps
<1>4. CASE ~(call[c].failure # NoCall.failure)
  <2> DEFINE fields == [phase |-> IF call[c].file < call[c].files THEN "upload" ELSE "post",
                        file |-> call[c].file + 1]
  <2>1. Update(c, fields)
    BY <1>4 DEF AfterFile
  <2>2. DOMAIN fields = {"phase", "file"} /\ fields["phase"] \in {"upload", "post"}
    OBVIOUS
  <2> HIDE DEF fields
  <2> QED
    BY <1>1, <1>2, <2>1, <2>2, SetFileSets, GoingOnKeeps
<1> QED
  BY <1>3, <1>4

\* The finally that deletes the uploaded file, whether or not it succeeds.
LEMMA DeleteKeeps ==
  ASSUME CallInv, NEW c \in Calls, UNCHANGED backend, Deleted(c) \/ DeleteFails(c)
  PROVE  CallInv'
<1>1. /\ call[c].phase = "delete" /\ backend[call[c].on] = "openai_remote"
      /\ \A f \in Files : stored[c][f] = "held" => f = call[c].file
  BY DEF Deleted, DeleteFails, CallInv, CallOK
<1>2. CASE Deleted(c)
  BY <1>1, <1>2, AfterFileKeeps DEF Deleted
<1>3. CASE DeleteFails(c)
  <2>1. PICK fate \in {"kept", "gone"} : SetFile(c, fate)
    BY <1>3 DEF DeleteFails
  <2>2. PICK reply \in Replies :
          IF RequestFailure(reply) = Unmapped
          THEN EndCall(c, Unmapped, Cause(reply)) ELSE AfterFile(c)
    BY <1>3 DEF DeleteFails
  <2>3. \A f \in Files : stored'[c][f] # "held"
    BY <1>1, <2>1, SetFileSets
  <2>4. CASE RequestFailure(reply) = Unmapped
    <3>1. EndCall(c, RequestFailure(reply), Cause(reply))
      BY <2>2, <2>4
    <3> QED
      BY <1>1, <2>1, <2>3, <3>1, SetFileSets, RequestIsBlamedRightly, EndingKeeps
  <2>5. CASE RequestFailure(reply) # Unmapped
    BY <1>1, <2>1, <2>2, <2>5, AfterFileKeeps
  <2> QED
    BY <2>4, <2>5
<1> QED
  BY <1>2, <1>3

\* The completion request itself, its connection, and the answer.
LEMMA CompletionKeeps ==
  ASSUME CallInv, NEW c \in Calls, UNCHANGED backend,
         Connect(c) \/ ConnectFails(c) \/ Reply(c)
  PROVE  CallInv'
<1>1. /\ call[c].phase \in {"post", "waiting"} /\ UNCHANGED stored
      /\ backend[call[c].on] \in ServeBackends \cup {"openai_remote"}
      /\ \A f \in Files : stored[c][f] # "held"
  BY DEF Connect, ConnectFails, Reply, CallInv, CallOK
<1>2. CASE Connect(c)
  <2>1. PICK fields \in {[phase |-> "waiting"]} \cup {[phase |-> "waiting", server |-> s] : s \in Runtimes} :
          Update(c, fields)
    BY <1>2 DEF Connect, ServerOf
  <2>2. /\ DOMAIN fields \subseteq {"phase", "server"} /\ "phase" \in DOMAIN fields
        /\ fields["phase"] = "waiting"
    OBVIOUS
  <2> QED
    BY <1>1, <2>1, <2>2, GoingOnKeeps DEF CallInv
<1>3. CASE ConnectFails(c) \/ Reply(c)
  <2>1. PICK reply \in Replies : Complete(c, reply)
    BY <1>3 DEF ConnectFails, Reply
  <2>2. EndCall(c, Outcome(backend[call[c].on], reply, call[c].thinking), Cause(reply))
    BY <2>1 DEF Complete
  <2> QED
    BY <1>1, <2>2, OutcomeIsBlamedRightly, EndingKeeps DEF CallInv
<1> QED
  BY <1>2, <1>3

\* A call knows which file it holds, and a call that is over is put down to the right
\* party, through every failure of complete.
THEOREM CallInvariance == Spec => []CallInv
<1>1. Init => CallInv
  <2> SUFFICES ASSUME Init PROVE CallInv
    OBVIOUS
  <2>1. ASSUME NEW c \in Calls PROVE CallOK(c) /\ DOMAIN stored[c] = Files
    <3>1. call[c] = NoCall /\ stored[c] = [f \in Files |-> "absent"]
      BY DEF Init
    <3>2. NoCall.phase = "idle" /\ NoCall.failure = NoCall.failure
      BY DEF NoCall
    <3> QED
      BY <3>1, <3>2 DEF CallOK
  <2> QED
    BY <2>1 DEF Init, CallInv
<1>2. ProcInv /\ CallInv /\ [Next]_vars => CallInv'
  <2> SUFFICES ASSUME ProcInv, CallInv, [Next]_vars PROVE CallInv'
    OBVIOUS
  <2>1. CASE UNCHANGED <<backend, callVars>>
    BY <2>1 DEF callVars, CallInv, CallOK, Files
  <2>2. CASE CallNext /\ UNCHANGED backend
    <3>1. PICK c \in Calls : CallStep(c) \/ \E r \in Runtimes : Call(c, r)
      BY <2>2 DEF CallNext
    <3> QED
      BY <2>2, <3>1, CallKeeps, UploadKeeps, FetchKeeps, DeleteKeeps, CompletionKeeps DEF CallStep
  <2> QED
    BY <2>1, <2>2 DEF Next, Activate, vars
<1> QED
  BY <1>1, <1>2, ProcInvariance, PTL DEF Spec

\* A call that is over has left no file upstream whose name it knows without having
\* tried to delete it, and a running one keeps one file at a time.
THEOREM NoFilePilesUp == Spec => []FilesSettled
<1>1. CallInv => FilesSettled
  <2> SUFFICES ASSUME CallInv, NEW c \in Calls
               PROVE  LET held == {f \in Files : stored[c][f] = "held"}
                      IN  /\ Cardinality(held) <= 1
                          /\ call[c].phase = "done" => held = {}
    BY DEF FilesSettled
  <2> DEFINE held == {f \in Files : stored[c][f] = "held"}
  <2>1. /\ \A f \in held : f = call[c].file
        /\ call[c].phase = "done" => held = {}
    BY DEF CallInv, CallOK
  <2> HIDE DEF held
  <2>2. held = {} \/ held = {call[c].file}
    BY <2>1
  <2>3. Cardinality(held) \in {0, 1}
    BY <2>2, FS_EmptySet, FS_Singleton
  <2> QED
    BY <2>1, <2>3 DEF held
<1> QED
  BY <1>1, CallInvariance, PTL

\* Whatever a call ends with is put down to the right party, for all five backends
\* and every kind of answer.
THEOREM FaultsArePutDownRightly == Spec => []FaultsAreUpstreams
<1>1. CallInv => FaultsAreUpstreams
  <2> SUFFICES ASSUME CallInv
               PROVE  \A c \in Calls : call[c].phase = "done" =>
                         RightlyBlamed(call[c].outcome, call[c].cause, backend[call[c].on])
    BY Zenon DEF RightlyBlamed, FaultsAreUpstreams
  <2> QED
    BY DEF CallInv, CallOK
<1> QED
  BY <1>1, CallInvariance, PTL

=============================================================================
