---------------------------- MODULE AgentProcess ----------------------------
(***************************************************************************)
(* ProcessAgentRuntime (orchestration/process-runtime.ts): the gateway's   *)
(* supervision of its agent-cli child process.  start(), stop(), restart() *)
(* and the recovery timer run as asynchronous calls that interleave at     *)
(* their awaits; the child may exit, hang or write garbage at any time.    *)
(* The scheduler on top is reduced to one slot and a set of jobs, enough   *)
(* to see what readiness changes and rejected requests do to it.           *)
(*                                                                         *)
(* A promise reaction runs before the next event is taken from the event   *)
(* loop, so every event (a call, an exit, a line, a timer) waits until the *)
(* reactions to the last one are done: the guard Quiet.                    *)
(***************************************************************************)
EXTENDS Integers

CONSTANTS Callers,      \* invocations of start(), stop() and restart()
          Operations,    \* what a caller may invoke
          Internals,    \* slots for recovery launches and failConnection()
          Jobs,         \* run_turn requests
          MaxFaults,    \* bound: exits, garbage lines and failed initializations
          MaxChildren,  \* bound: processes spawned
          MaxRestarts   \* length of restartDelaysMs

ASSUME NumbersAssumption == {MaxFaults, MaxChildren, MaxRestarts} \subseteq Nat
ASSUME OperationsAssumption == Operations \subseteq {"start", "stop", "restart"}
ASSUME CallsAssumption == Callers \cap Internals = {} /\ Jobs \cap (Callers \cup Internals) = {}

VARIABLES
  child,            \* this.child: the current connection, 0 if undefined
  proc,             \* child -> state of the operating system's process
  state,            \* ProcessState
  stopping, manuallyStopped, incompatible,
  restartAttempt,
  restartTimer,     \* TRUE: the recovery timer is armed
  generation,
  requests,         \* the pending map: calls and jobs awaiting a response
  sentTo,           \* call or job -> the child its request was written to
  call,             \* the asynchronous calls in progress
  schedulerReady,   \* runtimeReady of the scheduler
  job,              \* job -> its state in the scheduler
  faults,           \* number of faults so far
  overlapped        \* history: a call began before another had returned

connVars  == <<child, proc, generation>>
flagVars  == <<stopping, manuallyStopped, incompatible>>
timerVars == <<restartAttempt, restartTimer>>
reqVars   == <<requests, sentTo, job>>
vars == <<connVars, state, flagVars, timerVars, reqVars, call, schedulerReady, faults, overlapped>>

Calls == Callers \cup Internals
(* A launch by each caller and after each fault, and a retry for a launch   *)
(* that another call took the child from: 2 * |Callers| + MaxFaults suffice *)
(* for MaxChildren never to hold a launch back.                             *)
Children == 1..MaxChildren
ProcessState == {"stopped", "starting", "ready", "error"}
(* A process is starting until it has answered initialize; closing after   *)
(* SIGTERM or a shutdown request.                                          *)
ProcState == {"none", "starting", "up", "closing", "gone"}
(* Where a call waits, by what it awaits: the response to initialize or to *)
(* shutdown, or the exit of its target in terminateChild() called from     *)
(* launch(), from launch()'s catch, from stop() or from failConnection().  *)
AwaitsResponse == {"initializing", "shutdown"}
AwaitsExit == {"replacing", "abandoning", "terminating", "failing"}

Idle == [pc |-> "idle", op |-> "none", own |-> 0, gen |-> 0, target |-> 0]

Init ==
  /\ child = 0 /\ generation = 0
  /\ proc = [c \in Children |-> "none"]
  /\ state = "stopped"
  /\ stopping = FALSE /\ manuallyStopped = TRUE /\ incompatible = FALSE
  /\ restartAttempt = 0 /\ restartTimer = FALSE
  /\ requests = {}
  /\ sentTo = [x \in Calls \cup Jobs |-> 0]
  /\ call = [x \in Calls |-> Idle]
  /\ schedulerReady = FALSE
  /\ job = [j \in Jobs |-> "none"]
  /\ faults = 0 /\ overlapped = FALSE

Live == {c \in Children : proc[c] \notin {"none", "gone"}}
Spawned == {c \in Children : proc[c] # "none"}
InProgress(x) == call[x].pc \notin {"idle", "done"}

-----------------------------------------------------------------------------
(* Promise reactions that are due: a request left the pending map, a turn's *)
(* request was rejected, or the exit a call awaits has happened.            *)
CallDue(x) ==
  \/ call[x].pc = "draining" /\ \A j \in Jobs : job[j] # "running"
  \/ call[x].pc = "stopped"
  \/ call[x].pc \in AwaitsResponse /\ x \notin requests
  \/ call[x].pc \in AwaitsExit /\ proc[call[x].target] = "gone"
RunDue(j) == job[j] = "running" /\ j \notin requests
Quiet == (\A x \in Calls : ~CallDue(x)) /\ (\A j \in Jobs : ~RunDue(j))

(* The scheduler's drain(): start a queued job in the free slot.  Without a *)
(* child request() rejects at once and the job is never in the pending map. *)
Drain(ready, ch, req, jobs) ==
  LET waiting == {j \in Jobs : jobs[j] = "queued"}
      free    == \A j \in Jobs : jobs[j] # "running"
  IN IF ready /\ free /\ waiting # {}
     THEN \E j \in waiting :
            /\ job' = [jobs EXCEPT ![j] = "running"]
            /\ requests' = IF ch = 0 THEN req ELSE req \cup {j}
            /\ sentTo' = [sentTo EXCEPT ![j] = ch]
     ELSE job' = jobs /\ requests' = req /\ UNCHANGED sentTo

OnlyReadyIsTold(st, ch, req, jobs) ==                              \* mutant
  /\ state' = st
  /\ schedulerReady' = (schedulerReady \/ (st = "ready" /\ ch # 0))
  /\ Drain(st = "ready" /\ ch # 0, ch, req, jobs)
(* setStatus(): onStatus tells the scheduler whether the Runtime is ready. *)
SetStatus(st, ch, req, jobs) ==
  /\ state' = st
  /\ schedulerReady' = (st = "ready" /\ ch # 0)
  /\ Drain(st = "ready" /\ ch # 0, ch, req, jobs)

(* scheduleRecovery(): one timer, and one attempt per configured delay. *)
scheduleRecovery(manual, incompat) ==
  IF manual \/ incompat \/ restartTimer \/ restartAttempt >= MaxRestarts
  THEN UNCHANGED timerVars
  ELSE restartTimer' = TRUE /\ restartAttempt' = restartAttempt + 1

LeavesProcess(x, op, pc) ==                                        \* mutant
  /\ child' = 0
  /\ generation' = generation + 1
  /\ requests' = {}
  /\ call' = [call EXCEPT ![x] = [@ EXCEPT !.pc = pc, !.op = op, !.target = child]]
  /\ UNCHANGED <<proc, sentTo, job>>
(* terminateChild() up to its await: the connection is dropped, everything  *)
(* pending is rejected and the process gets SIGTERM.                        *)
Terminate(x, op, pc) ==
  /\ child' = 0
  /\ generation' = generation + 1
  /\ proc' = [proc EXCEPT ![child] = "closing"]
  /\ requests' = {}
  /\ call' = [call EXCEPT ![x] = [@ EXCEPT !.pc = pc, !.op = op, !.target = child]]
  /\ UNCHANGED <<sentTo, job>>

(* launch() from the spawn to the await of initialize. *)
Spawn(x, op) ==
  \E c \in Children :
     /\ Spawned = 1..(c - 1)
     /\ stopping' = FALSE
     /\ state' = "starting" /\ schedulerReady' = FALSE
     /\ child' = c
     /\ proc' = [proc EXCEPT ![c] = "starting"]
     /\ generation' = generation + 1
     /\ requests' = requests \cup {x}
     /\ sentTo' = [sentTo EXCEPT ![x] = c]
     /\ call' = [call EXCEPT ![x] = [pc |-> "initializing", op |-> op, own |-> c,
                                     gen |-> generation + 1, target |-> 0]]
     /\ UNCHANGED job

(* A call returns; an internal slot is free again. *)
Return(x) == call' = [call EXCEPT ![x] = IF x \in Callers THEN [Idle EXCEPT !.pc = "done"]
                                                          ELSE Idle]

(* launch(): nothing for a ready child; another one is terminated first. *)
launch(x, op) ==
  \/ /\ state = "ready" /\ child # 0
     /\ Return(x)
     /\ UNCHANGED <<connVars, state, stopping, reqVars, schedulerReady>>
  \/ /\ state # "ready" /\ child # 0
     /\ Terminate(x, op, "replacing")
     /\ UNCHANGED <<state, stopping, schedulerReady>>
  \/ child = 0 /\ Spawn(x, op)

GivesUpAtOnce(x) ==                                                \* mutant
  /\ IF child = 0 /\ generation <= call[x].gen + 1
     THEN SetStatus("error", 0, requests, job)
     ELSE UNCHANGED <<state, schedulerReady, reqVars>>
  /\ Return(x)
  /\ UNCHANGED <<connVars, timerVars>>
(* The end of launch()'s catch: a failed recovery is retried. *)
LaunchFailed(x) ==
  /\ IF child = 0 /\ generation <= call[x].gen + 1
     THEN /\ SetStatus("error", 0, requests, job)
          /\ IF call[x].op = "recovery"
             THEN scheduleRecovery(manuallyStopped, incompatible)
             ELSE UNCHANGED timerVars
     ELSE UNCHANGED <<state, schedulerReady, reqVars, timerVars>>
  /\ Return(x)
  /\ UNCHANGED connVars

-----------------------------------------------------------------------------
(* Calls.  restartAgent() is refused before the gateway's first start. *)

MayCall(x, op) ==
  /\ Quiet /\ call[x].pc = "idle" /\ op \in Operations
  /\ op = "start" <=> Spawned = {}
  /\ overlapped' = (overlapped \/ \E y \in Callers : InProgress(y))

Start(x, op) ==
  /\ manuallyStopped' = FALSE /\ incompatible' = FALSE
  /\ launch(x, op)
  /\ UNCHANGED <<timerVars, faults>>

start(x) == x \in Callers /\ MayCall(x, "start") /\ Start(x, "start")

StopKeepsTimer(x, op) ==                                           \* mutant
  /\ manuallyStopped' = TRUE
  /\ restartAttempt' = 0 /\ UNCHANGED restartTimer
  /\ IF child = 0
     THEN /\ call' = [call EXCEPT ![x] = [Idle EXCEPT !.pc = "stopped", !.op = op]]
          /\ SetStatus("stopped", 0, requests, job)
          /\ UNCHANGED stopping
     ELSE /\ stopping' = TRUE
          /\ requests' = requests \cup {x}
          /\ sentTo' = [sentTo EXCEPT ![x] = child]
          /\ call' = [call EXCEPT ![x] = [Idle EXCEPT !.pc = "shutdown", !.op = op]]
          /\ UNCHANGED <<state, schedulerReady, job>>
  /\ UNCHANGED <<connVars, incompatible, faults>>
(* stop() to its first await: the shutdown request, when there is a child.  *)
BeginStop(x, op) ==
  /\ manuallyStopped' = TRUE
  /\ restartTimer' = FALSE /\ restartAttempt' = 0
  /\ IF child = 0
     THEN /\ call' = [call EXCEPT ![x] = [Idle EXCEPT !.pc = "stopped", !.op = op]]
          /\ SetStatus("stopped", 0, requests, job)
          /\ UNCHANGED stopping
     ELSE /\ stopping' = TRUE
          /\ requests' = requests \cup {x}
          /\ sentTo' = [sentTo EXCEPT ![x] = child]
          /\ call' = [call EXCEPT ![x] = [Idle EXCEPT !.pc = "shutdown", !.op = op]]
          /\ UNCHANGED <<state, schedulerReady, job>>
  /\ UNCHANGED <<connVars, incompatible, faults>>

(* restart(), called by restartAgent() while the scheduler dispatches. *)
restart(x) == x \in Callers /\ MayCall(x, "restart") /\ BeginStop(x, "restart")

(* The composition stops the Runtime: no dispatch any more, then a wait for *)
(* the runs in progress, then stop().                                       *)
stop(x) ==
  /\ x \in Callers /\ MayCall(x, "stop")
  /\ schedulerReady' = FALSE
  /\ call' = [call EXCEPT ![x] = [Idle EXCEPT !.pc = "draining", !.op = "stop"]]
  /\ UNCHANGED <<connVars, state, flagVars, timerVars, reqVars, faults>>

enqueue(j) ==
  /\ Quiet /\ job[j] = "none"
  /\ Drain(schedulerReady, child, requests, [job EXCEPT ![j] = "queued"])
  /\ UNCHANGED <<connVars, state, flagVars, timerVars, call, schedulerReady, faults, overlapped>>

-----------------------------------------------------------------------------
(* Promise reactions. *)

RunsSettled(x) ==
  /\ call[x].pc = "draining" /\ \A j \in Jobs : job[j] # "running"
  /\ BeginStop(x, "stop")

(* The shutdown request was answered, timed out or was rejected. *)
ShutdownSettled(x) ==
  /\ call[x].pc = "shutdown" /\ x \notin requests
  /\ IF child = 0
     THEN /\ call' = [call EXCEPT ![x].pc = "stopped"]
          /\ stopping' = FALSE
          /\ SetStatus("stopped", 0, requests, job)
          /\ UNCHANGED connVars
     ELSE /\ Terminate(x, call[x].op, "terminating")
          /\ UNCHANGED <<state, stopping, schedulerReady>>
  /\ UNCHANGED <<manuallyStopped, incompatible, timerVars, faults>>

StopTerminated(x) ==
  /\ call[x].pc = "terminating" /\ proc[call[x].target] = "gone"
  /\ call' = [call EXCEPT ![x].pc = "stopped"]
  /\ stopping' = FALSE
  /\ SetStatus("stopped", child, requests, job)
  /\ UNCHANGED <<connVars, manuallyStopped, incompatible, timerVars, faults>>

(* stop() has returned: restart() starts again. *)
StopReturned(x) ==
  /\ call[x].pc = "stopped"
  /\ IF call[x].op = "restart"
     THEN Start(x, "restart")
     ELSE /\ Return(x)
          /\ UNCHANGED <<connVars, state, flagVars, timerVars, reqVars, schedulerReady, faults>>

(* launch() resumes after terminateChild(): it spawns without looking again. *)
ReplacedExited(x) ==
  /\ call[x].pc = "replacing" /\ proc[call[x].target] = "gone"
  /\ Spawn(x, call[x].op)
  /\ UNCHANGED <<manuallyStopped, incompatible, timerVars, faults>>

(* launch()'s catch: drop the child if it is still this launch's own. *)
InitializeRejected(x) ==
  /\ call[x].pc = "initializing" /\ x \notin requests
  /\ IF child = call[x].own
     THEN /\ Terminate(x, call[x].op, "abandoning")
          /\ UNCHANGED <<state, schedulerReady, timerVars>>
     ELSE LaunchFailed(x)
  /\ UNCHANGED <<flagVars, faults>>

AbandonedExited(x) ==
  /\ call[x].pc = "abandoning" /\ proc[call[x].target] = "gone"
  /\ LaunchFailed(x)
  /\ UNCHANGED <<flagVars, faults>>

FailedExited(x) ==
  /\ call[x].pc = "failing" /\ proc[call[x].target] = "gone"
  /\ IF generation = call[x].gen /\ child = 0 /\ ~stopping
     THEN scheduleRecovery(manuallyStopped, incompatible)
     ELSE UNCHANGED timerVars
  /\ Return(x)
  /\ UNCHANGED <<connVars, state, flagVars, reqVars, schedulerReady, faults>>

(* run_turn was rejected: the composition reports an error completion. *)
RunRejected(j) ==
  /\ RunDue(j)
  /\ Drain(schedulerReady, child, requests, [job EXCEPT ![j] = "failed"])
  /\ UNCHANGED <<connVars, state, flagVars, timerVars, call, schedulerReady, faults>>

Reaction ==
  /\ UNCHANGED overlapped
  /\ \/ \E x \in Calls :
          \/ RunsSettled(x) \/ ShutdownSettled(x) \/ StopTerminated(x) \/ StopReturned(x)
          \/ ReplacedExited(x) \/ InitializeRejected(x) \/ AbandonedExited(x) \/ FailedExited(x)
     \/ \E j \in Jobs : RunRejected(j)

-----------------------------------------------------------------------------
(* Events: lines, exits and timers. *)

(* initialize is answered; a line of an old child is not looked at. *)
Initialized(x) ==
  /\ Quiet
  /\ call[x].pc = "initializing" /\ sentTo[x] = child /\ proc[child] = "starting"
  /\ proc' = [proc EXCEPT ![child] = "up"]
  /\ restartAttempt' = 0
  /\ Return(x)
  /\ SetStatus("ready", child, requests \ {x}, job)
  /\ UNCHANGED <<child, generation, flagVars, restartTimer, faults, overlapped>>

(* initialize fails or times out; a version mismatch bars recovery. *)
InitializeFails(x, mismatch) ==
  /\ Quiet /\ faults < MaxFaults
  /\ call[x].pc = "initializing"
  /\ mismatch => sentTo[x] = child
  /\ incompatible' = (incompatible \/ mismatch)
  /\ requests' = requests \ {x}
  /\ faults' = faults + 1
  /\ UNCHANGED <<connVars, state, stopping, manuallyStopped, timerVars, sentTo, job,
                 call, schedulerReady, overlapped>>

(* agent-cli takes a shutdown request from its input. *)
ShutdownReceived(x) ==
  /\ Quiet
  /\ call[x].pc = "shutdown" /\ proc[sentTo[x]] \in {"starting", "up"}
  /\ proc' = [proc EXCEPT ![sentTo[x]] = "closing"]
  /\ UNCHANGED <<child, generation, state, flagVars, timerVars, reqVars, call,
                 schedulerReady, faults, overlapped>>

(* It answers, or the request times out after 5 s. *)
ShutdownEnds(x) ==
  /\ Quiet
  /\ call[x].pc = "shutdown"
  /\ requests' = requests \ {x}
  /\ UNCHANGED <<connVars, state, flagVars, timerVars, sentTo, job, call,
                 schedulerReady, faults, overlapped>>

(* run_turn is answered.  A closing agent-cli aborts its turns and refuses  *)
(* new ones.                                                                *)
RunAnswered(j, result) ==
  /\ Quiet
  /\ job[j] = "running" /\ sentTo[j] = child
  /\ proc[child] \in {"up", "closing"}
  /\ proc[child] = "closing" => result = "failed"
  /\ Drain(schedulerReady, child, requests \ {j}, [job EXCEPT ![j] = result])
  /\ UNCHANGED <<connVars, state, flagVars, timerVars, call, schedulerReady, faults, overlapped>>

(* The process of child c exits, on its own or because it was told to, and  *)
(* handleExit() runs if c is the current child.                             *)
Exit(c) ==
  /\ Quiet
  /\ c \in Live
  /\ IF proc[c] = "closing" THEN UNCHANGED faults
     ELSE faults < MaxFaults /\ faults' = faults + 1
  /\ proc' = [proc EXCEPT ![c] = "gone"]
  /\ IF c # child
     THEN UNCHANGED <<child, generation, state, timerVars, reqVars, schedulerReady>>
     ELSE LET planned == stopping \/ manuallyStopped
          IN /\ child' = 0
             /\ generation' = generation + 1
             /\ SetStatus(IF planned THEN "stopped" ELSE "error", 0, {}, job)
             /\ IF planned THEN UNCHANGED timerVars
                ELSE scheduleRecovery(manuallyStopped, incompatible)
  /\ UNCHANGED <<flagVars, call, overlapped>>

(* terminateChild() gives up waiting after 2 s: SIGKILL. *)
KillTimeout(x) ==
  /\ Quiet
  /\ call[x].pc \in AwaitsExit
  /\ proc' = [proc EXCEPT ![call[x].target] = "gone"]
  /\ UNCHANGED <<child, generation, state, flagVars, timerVars, reqVars, call,
                 schedulerReady, faults, overlapped>>

(* failConnection(): a line of the current child is not a valid message. *)
InvalidLine(x) ==
  /\ Quiet /\ faults < MaxFaults
  /\ x \in Internals /\ call[x].pc = "idle"
  /\ child # 0
  /\ state' = "error" /\ schedulerReady' = FALSE
  /\ child' = 0
  /\ generation' = generation + 1
  /\ proc' = [proc EXCEPT ![child] = "closing"]
  /\ requests' = {}
  /\ call' = [call EXCEPT ![x] = [pc |-> "failing", op |-> "failure", own |-> 0,
                                  gen |-> generation + 1, target |-> child]]
  /\ faults' = faults + 1
  /\ UNCHANGED <<flagVars, timerVars, sentTo, job, overlapped>>

RecoveryTimer(x) ==
  /\ Quiet
  /\ x \in Internals /\ call[x].pc = "idle"
  /\ restartTimer
  /\ restartTimer' = FALSE
  /\ IF manuallyStopped \/ incompatible
     THEN UNCHANGED <<connVars, state, stopping, reqVars, call, schedulerReady>>
     ELSE launch(x, "recovery")
  /\ UNCHANGED <<manuallyStopped, incompatible, restartAttempt, faults, overlapped>>

Event ==
  \/ \E x \in Callers : start(x) \/ restart(x) \/ stop(x)
  \/ \E x \in Calls :
       \/ Initialized(x)
       \/ \E mismatch \in BOOLEAN : InitializeFails(x, mismatch)
       \/ ShutdownReceived(x) \/ ShutdownEnds(x) \/ KillTimeout(x)
       \/ InvalidLine(x) \/ RecoveryTimer(x)
  \/ \E j \in Jobs : enqueue(j) \/ \E result \in {"ended", "failed"} : RunAnswered(j, result)
  \/ \E c \in Children : Exit(c)

Next == Reaction \/ Event

Spec == Init /\ [][Next]_vars

(* Reactions run; timers expire; agent-cli answers initialize or the        *)
(* request times out.                                                       *)
FairSpec ==
  /\ Spec
  /\ WF_vars(Reaction)
  /\ WF_vars(\E x \in Calls : RecoveryTimer(x))
  /\ \A x \in Calls :
       WF_vars(Initialized(x)) /\ WF_vars(ShutdownEnds(x)) /\ WF_vars(KillTimeout(x))

-----------------------------------------------------------------------------
TypeOK ==
  /\ child \in Children \cup {0}
  /\ proc \in [Children -> ProcState]
  /\ state \in ProcessState
  /\ stopping \in BOOLEAN /\ manuallyStopped \in BOOLEAN /\ incompatible \in BOOLEAN
  /\ restartAttempt \in 0..MaxRestarts /\ restartTimer \in BOOLEAN
  /\ generation \in Nat
  /\ requests \subseteq Calls \cup Jobs
  /\ sentTo \in [Calls \cup Jobs -> Children \cup {0}]
  /\ \A x \in Calls :
       /\ call[x].pc \in {"idle", "draining", "stopped", "done"} \cup AwaitsResponse \cup AwaitsExit
       /\ call[x].op \in {"none", "start", "stop", "restart", "recovery", "failure"}
       /\ {call[x].own, call[x].target} \subseteq Children \cup {0}
  /\ schedulerReady \in BOOLEAN
  /\ job \in [Jobs -> {"none", "queued", "running", "ended", "failed"}]
  /\ faults \in 0..MaxFaults

(* Nothing is left behind, as long as the calls come one after the other: a *)
(* process that is not the current child has been told to go, and no request *)
(* waits on a connection that is no longer read, neither a turn, whose       *)
(* request has no timeout, nor a call.                                       *)
NothingLeftBehind ==
  ~overlapped =>
    /\ \A c \in Live : c = child \/ proc[c] = "closing"
    /\ \A x \in requests : child # 0 /\ sentTo[x] = child

(* The scheduler believes in a ready Runtime only while there is an         *)
(* initialized child, or while a stop is taking it down.                    *)
ReadyIsTruthful ==
  Quiet /\ schedulerReady =>
    \/ child # 0 /\ state = "ready" /\ proc[child] # "starting"
    \/ \E x \in Callers : call[x].pc = "terminating"

(* When every call has returned and the last one was stop(), nothing runs,  *)
(* no timer is armed and the status says so.                                *)
StopIsFinal ==
  ~overlapped /\ manuallyStopped /\ Quiet /\ (\A x \in Calls : ~InProgress(x)) =>
    Live = {} /\ ~restartTimer /\ ~schedulerReady /\ state \in {"stopped", "error"}

(* The scheduler hands out a job only while the Runtime takes turns. *)
DispatchOnlyWhenHealthy ==
  [][\A j \in Jobs : job[j] # "running" /\ job'[j] = "running" =>
       child' # 0 /\ proc'[child'] = "up" /\ ~stopping']_vars

(* An unplanned loss of the child leads back to ready, unless the retries   *)
(* are used up, the version does not match or someone stops the Runtime.    *)
RecoversOrGivesUp ==
  (state = "error" /\ restartAttempt > 0) ~>
    (state = "ready" \/ manuallyStopped \/ incompatible \/ restartAttempt = MaxRestarts)
=============================================================================
