-------------------------- MODULE AgentProcessProofs --------------------------
(***************************************************************************)
(* What the supervision of agent-cli never does, however many calls, faults *)
(* and launches there are: leave a process or a request behind, report a    *)
(* readiness that no child has, or go on after a stop.                      *)
(***************************************************************************)
EXTENDS AgentProcess, TLAPS

JobState == {"none", "queued", "running", "ended", "failed"}
CallPc == {"idle", "draining", "stopped", "done"} \cup AwaitsResponse \cup AwaitsExit
CallOp == {"none", "start", "stop", "restart", "recovery", "failure"}
CallState == [pc : CallPc, op : CallOp, own : Children \cup {0}, gen : Nat, target : Children \cup {0}]

Types == TypeOK /\ call \in [Calls -> CallState] /\ overlapped \in BOOLEAN

(* What a call waits for is there to be waited for: a launch for the child  *)
(* it spawned itself, a stop for the child it asked to shut down, and the   *)
(* wait for an exit for a process that is no longer the current child.      *)
CallsHaveTheirProcess ==
  /\ child # 0 => child \in Live
  /\ \A x \in Calls :
       /\ call[x].pc \in {"draining", "shutdown", "terminating", "stopped"} => x \in Callers
       /\ call[x].pc = "initializing" => call[x].own \in Spawned /\ sentTo[x] = call[x].own
       /\ call[x].pc = "shutdown" => sentTo[x] \in Spawned
       /\ call[x].pc \in AwaitsExit => call[x].target \in Spawned \ {child}
  /\ \A x, y \in Calls :
       call[x].pc = "initializing" /\ call[y].pc = "initializing" /\ call[x].own = call[y].own => x = y

(* The scheduler is ready for the child that answered initialize, and until *)
(* the stop that takes this child down is over.                             *)
ReadinessFollows ==
  /\ schedulerReady => state = "ready"
  /\ schedulerReady /\ child = 0 => \E x \in Callers : call[x].pc = "terminating"
  /\ schedulerReady /\ child # 0 => proc[child] # "starting"
  /\ \A x \in Calls : call[x].pc = "initializing" /\ call[x].own = child => ~schedulerReady

(* A stop disarms the timer, and nobody arms it again before a start. *)
StopDisarms ==
  /\ manuallyStopped => ~restartTimer
  /\ Spawned = {} => manuallyStopped

OneCaller == \A x, y \in Callers : InProgress(x) /\ InProgress(y) => x = y

(* No launch finds another's child, and a stop that has let its child go    *)
(* meets no new one.                                                        *)
NobodyInTheWay ==
  /\ \A x \in Calls :
       /\ call[x].pc # "replacing"
       /\ call[x].pc \in {"shutdown", "terminating", "stopped"} => manuallyStopped
       /\ call[x].pc \in {"terminating", "stopped"} => child = 0
  /\ restartTimer => child = 0

(* A process without a connection is closing, and some call sees to its exit. *)
ClosingIsAwaited ==
  \A c \in Live : c = child \/ (proc[c] = "closing" /\ \E x \in Calls : call[x].pc \in AwaitsExit /\ call[x].target = c)

RequestsAreToTheChild == \A x \in requests : child # 0 /\ sentTo[x] = child

(* Once the stop is through with its child, there is none. *)
StoppedHasNoChild ==
  manuallyStopped /\ (\A x \in Callers : call[x].pc \notin {"shutdown", "terminating"}) =>
    child = 0 /\ state \in {"stopped", "error"} /\ ~schedulerReady

OneAtATime ==
  ~overlapped => OneCaller /\ NobodyInTheWay /\ ClosingIsAwaited /\ RequestsAreToTheChild /\ StoppedHasNoChild

ProcessInv == Types /\ CallsHaveTheirProcess /\ ReadinessFollows /\ StopDisarms /\ OneAtATime

-----------------------------------------------------------------------------
(* The helpers of the model. *)

(* What drain() does to requests, whichever job it hands out. *)
Handed(ch, req) ==
  /\ job' \in [Jobs -> JobState]
  /\ requests' \subseteq Calls \cup Jobs
  /\ sentTo' \in [Calls \cup Jobs -> Children \cup {0}]
  /\ \A x \in Calls : sentTo'[x] = sentTo[x]
  /\ ch = 0 => requests' = req
  /\ \A x \in requests' : (x \in req /\ sentTo'[x] = sentTo[x]) \/ sentTo'[x] = ch

(* drain() sends a job to the child it is told of, and nothing without one. *)
LEMMA DrainHands ==
  ASSUME Types, NEW ready, NEW ch \in Children \cup {0}, NEW req \in SUBSET (Calls \cup Jobs),
         NEW jobs \in [Jobs -> JobState], Drain(ready, ch, req, jobs)
  PROVE  Handed(ch, req)
<1>1. /\ sentTo \in [Calls \cup Jobs -> Children \cup {0}]
      /\ Jobs \cap Calls = {}
  BY CallsAssumption DEF Types, TypeOK, Calls
<1>2. CASE job' = jobs /\ requests' = req /\ UNCHANGED sentTo
  BY <1>1, <1>2 DEF Handed
<1>3. CASE \E j \in Jobs :
             /\ job' = [jobs EXCEPT ![j] = "running"]
             /\ requests' = IF ch = 0 THEN req ELSE req \cup {j}
             /\ sentTo' = [sentTo EXCEPT ![j] = ch]
  BY <1>1, <1>3 DEF Handed, JobState
<1> QED BY <1>2, <1>3 DEF Drain

(* setStatus() reports what it was given, and readiness of a child only. *)
LEMMA StatusSet ==
  ASSUME Types, NEW st \in ProcessState, NEW ch \in Children \cup {0}, NEW req \in SUBSET (Calls \cup Jobs),
         SetStatus(st, ch, req, job)
  PROVE  /\ state' = st /\ schedulerReady' = (st = "ready" /\ ch # 0)
         /\ Handed(ch, req)
<1>1. job \in [Jobs -> JobState]
  BY DEF Types, TypeOK, JobState
<1>2. Drain(st = "ready" /\ ch # 0, ch, req, job)
  BY DEF SetStatus
<1>3. Handed(ch, req)
  BY <1>1, <1>2, DrainHands
<1> QED BY <1>3 DEF SetStatus

(* Requests that nobody touched are handed on as they are. *)
LEMMA NothingHanded ==
  ASSUME Types, UNCHANGED reqVars
  PROVE  Handed(child, requests) /\ Handed(0, requests)
BY DEF Types, TypeOK, reqVars, Handed, JobState

(* A call that returns waits for nothing and leaves the others alone. *)
LEMMA Returned ==
  ASSUME Types, NEW x \in Calls, Return(x)
  PROVE  /\ call' \in [Calls -> CallState]
         /\ \A y \in Calls \ {x} : call'[y] = call[y]
         /\ call'[x].pc \in {"idle", "done"}
BY DEF Types, Return, Idle, CallState, CallPc, CallOp

(* The recovery timer is not armed for a Runtime that was stopped. *)
LEMMA Rearmed ==
  ASSUME Types, NEW manual \in BOOLEAN, NEW incompat \in BOOLEAN, scheduleRecovery(manual, incompat)
  PROVE  /\ restartTimer' \in BOOLEAN /\ restartAttempt' \in 0..MaxRestarts
         /\ restartTimer' => restartTimer \/ ~manual
<1>1. /\ restartTimer \in BOOLEAN /\ restartAttempt \in 0..MaxRestarts
      /\ MaxRestarts \in Nat
  BY NumbersAssumption DEF Types, TypeOK
<1>2. CASE manual \/ incompat \/ restartTimer \/ restartAttempt >= MaxRestarts
  BY <1>1, <1>2 DEF scheduleRecovery, timerVars
<1>3. CASE ~(manual \/ incompat \/ restartTimer \/ restartAttempt >= MaxRestarts)
  <2>1. restartTimer' = TRUE /\ restartAttempt' = restartAttempt + 1
    BY <1>3 DEF scheduleRecovery
  <2> QED BY <1>1, <1>3, <2>1
<1> QED BY <1>2, <1>3

(* What launch() changes, with its types. *)
LaunchTypes ==
  /\ child' \in Children \cup {0} /\ proc' \in [Children -> ProcState] /\ generation' \in Nat
  /\ state' \in ProcessState /\ stopping' \in BOOLEAN /\ schedulerReady' \in BOOLEAN
  /\ requests' \subseteq Calls \cup Jobs
  /\ sentTo' \in [Calls \cup Jobs -> Children \cup {0}]
  /\ job' \in [Jobs -> JobState]
  /\ call' \in [Calls -> CallState]

LEMMA TypesOfCalls ==
  ASSUME call' \in [Calls -> CallState]
  PROVE  \A x \in Calls :
           /\ call'[x].pc \in {"idle", "draining", "stopped", "done"} \cup AwaitsResponse \cup AwaitsExit
           /\ call'[x].op \in {"none", "start", "stop", "restart", "recovery", "failure"}
           /\ {call'[x].own, call'[x].target} \subseteq Children \cup {0}
BY DEF CallState, CallPc, CallOp

LEMMA TypesKept ==
  ASSUME LaunchTypes, manuallyStopped' \in BOOLEAN, incompatible' \in BOOLEAN,
         restartAttempt' \in 0..MaxRestarts, restartTimer' \in BOOLEAN, faults' \in 0..MaxFaults,
         overlapped' \in BOOLEAN
  PROVE  Types'
BY TypesOfCalls DEF Types, TypeOK, LaunchTypes, JobState

(* A spawned child is a new one, and only its launch waits for it. *)
LEMMA SpawnStarts ==
  ASSUME ProcessInv, NEW x \in Calls, NEW op \in CallOp, Spawn(x, op)
  PROVE  /\ LaunchTypes /\ CallsHaveTheirProcess' /\ ReadinessFollows' /\ Spawned' # {}
         /\ child' # 0 /\ call'[x].pc = "initializing"
         /\ \A y \in Calls \ {x} : call'[y] = call[y]
         /\ \A d \in Live' : d = child' \/ (d \in Live /\ proc'[d] = proc[d])
         /\ requests = {} => RequestsAreToTheChild'
<1>1. PICK c \in Children :
        /\ Spawned = 1..(c - 1)
        /\ stopping' = FALSE
        /\ state' = "starting" /\ schedulerReady' = FALSE
        /\ child' = c
        /\ proc' = [proc EXCEPT ![c] = "starting"]
        /\ generation' = generation + 1
        /\ requests' = requests \cup {x}
        /\ sentTo' = [sentTo EXCEPT ![x] = c]
        /\ call' = [call EXCEPT ![x] = [pc |-> "initializing", op |-> op, own |-> c,
                                        gen |-> generation + 1, target |-> 0]]
        /\ UNCHANGED job
  BY DEF Spawn
<1>2. c \notin Spawned /\ c # 0
  BY <1>1, NumbersAssumption DEF Children
<1>3. LaunchTypes
  <2>1. /\ call \in [Calls -> CallState] /\ proc \in [Children -> ProcState] /\ generation \in Nat
        /\ requests \subseteq Calls \cup Jobs /\ job \in [Jobs -> JobState]
        /\ sentTo \in [Calls \cup Jobs -> Children \cup {0}]
    BY DEF ProcessInv, Types, TypeOK, JobState
  <2>2. [pc |-> "initializing", op |-> op, own |-> c, gen |-> generation + 1, target |-> 0] \in CallState
    BY <2>1 DEF CallState, CallPc, AwaitsResponse
  <2>3. call' \in [Calls -> CallState] /\ proc' \in [Children -> ProcState]
    BY <1>1, <2>1, <2>2 DEF ProcState
  <2>4. requests' \subseteq Calls \cup Jobs /\ sentTo' \in [Calls \cup Jobs -> Children \cup {0}]
    BY <1>1, <2>1
  <2>5. job' \in [Jobs -> JobState] /\ generation' \in Nat
    BY <1>1, <2>1
  <2> QED BY <1>1, <2>3, <2>4, <2>5 DEF LaunchTypes, ProcessState
<1>4. /\ call \in [Calls -> CallState] /\ proc \in [Children -> ProcState]
      /\ sentTo \in [Calls \cup Jobs -> Children \cup {0}]
  BY DEF ProcessInv, Types, TypeOK
<1>5. Spawned' = Spawned \cup {c} /\ c \in Live'
  BY <1>1, <1>2, <1>4 DEF Spawned, Live
<1>6. CallsHaveTheirProcess'
  BY <1>1, <1>2, <1>4, <1>5 DEF ProcessInv, CallsHaveTheirProcess, AwaitsExit
<1>7. ReadinessFollows'
  BY <1>1 DEF ReadinessFollows
<1>8. \A d \in Live' : d = child' \/ (d \in Live /\ proc'[d] = proc[d])
  BY <1>1, <1>4 DEF Live
<1>9. requests = {} => RequestsAreToTheChild'
  BY <1>1, <1>2, <1>4 DEF RequestsAreToTheChild
<1> QED BY <1>1, <1>2, <1>3, <1>4, <1>5, <1>6, <1>7, <1>8, <1>9

(* A call that drops the child waits for its exit, and nobody waits for a   *)
(* response any more.  Only a stop drops a child that was ready.            *)
LEMMA TerminateLeaves ==
  ASSUME ProcessInv, NEW x \in Calls, NEW op \in CallOp, NEW pc \in AwaitsExit, child # 0,
         call[x].pc \notin AwaitsExit, Terminate(x, op, pc),
         pc = "terminating" => x \in Callers,
         schedulerReady => pc = "terminating",
         UNCHANGED <<state, schedulerReady>>
  PROVE  /\ proc' \in [Children -> ProcState] /\ child' = 0 /\ generation' \in Nat
         /\ UNCHANGED <<sentTo, job>> /\ requests' = {}
         /\ call' \in [Calls -> CallState]
         /\ CallsHaveTheirProcess' /\ ReadinessFollows' /\ Spawned' = Spawned
         /\ call'[x].pc = pc
         /\ \A y \in Calls \ {x} : call'[y] = call[y]
         /\ ClosingIsAwaited => ClosingIsAwaited'
         /\ RequestsAreToTheChild'
<1>1. /\ child' = 0
      /\ generation' = generation + 1
      /\ proc' = [proc EXCEPT ![child] = "closing"]
      /\ requests' = {}
      /\ call' = [call EXCEPT ![x] = [call[x] EXCEPT !.pc = pc, !.op = op, !.target = child]]
      /\ UNCHANGED <<sentTo, job>>
  BY DEF Terminate
<1>2. /\ call \in [Calls -> CallState] /\ proc \in [Children -> ProcState] /\ child \in Children
      /\ generation \in Nat /\ pc \in CallPc
  BY DEF ProcessInv, Types, TypeOK, CallPc
<1>3. /\ call' \in [Calls -> CallState]
      /\ call'[x].pc = pc /\ call'[x].target = child
      /\ \A y \in Calls \ {x} : call'[y] = call[y]
  BY <1>1, <1>2 DEF CallState
<1>4. proc' \in [Children -> ProcState] /\ generation' \in Nat
  BY <1>1, <1>2 DEF ProcState
<1>5. 0 \notin Children
  BY NumbersAssumption DEF Children
<1>6. Spawned' = Spawned /\ child \in Spawned
  BY <1>1, <1>2 DEF ProcessInv, CallsHaveTheirProcess, Spawned, Live
<1>7. CallsHaveTheirProcess'
  BY <1>1, <1>2, <1>3, <1>5, <1>6 DEF ProcessInv, CallsHaveTheirProcess, AwaitsExit, Spawned
<1>8. ReadinessFollows'
  <2>1. schedulerReady' => state' = "ready"
    BY DEF ProcessInv, ReadinessFollows
  <2>2. schedulerReady' => \E y \in Callers : call'[y].pc = "terminating"
    BY <1>3
  <2>3. \A y \in Calls : call'[y].pc = "initializing" => call'[y].own # 0
    BY <1>1, <1>3, <1>5, <1>7, <1>4 DEF CallsHaveTheirProcess, Spawned
  <2> QED BY <2>1, <2>2, <2>3, <1>1 DEF ReadinessFollows
<1>9. ClosingIsAwaited => ClosingIsAwaited'
  BY <1>1, <1>2, <1>3 DEF ClosingIsAwaited, Live
<1> QED BY <1>1, <1>3, <1>4, <1>6, <1>7, <1>8, <1>9 DEF RequestsAreToTheChild

(* A step in which the child and its process stay and calls only return     *)
(* leaves every call its process.                                           *)
LEMMA ChildStays ==
  ASSUME ProcessInv, UNCHANGED <<child, proc>>, NEW req, Handed(child, req),
         \A y \in Calls : call'[y] = call[y] \/ call'[y].pc \in {"idle", "done"}
  PROVE  CallsHaveTheirProcess' /\ Spawned' = Spawned /\ Live' = Live
<1>1. Spawned' = Spawned /\ Live' = Live
  BY DEF Spawned, Live
<1>2. child # 0 => child \in Live'
  BY <1>1 DEF ProcessInv, CallsHaveTheirProcess
<1>3. \A y \in Calls : sentTo'[y] = sentTo[y]
  BY DEF Handed
<1> QED BY <1>1, <1>2, <1>3 DEF ProcessInv, CallsHaveTheirProcess, AwaitsExit

(* The scheduler stays as ready as it was, or is told that it is not. *)
LEMMA ReadinessStays ==
  ASSUME ProcessInv, UNCHANGED <<child, proc>>,
         \A y \in Calls : call'[y] = call[y] \/ (call[y].pc # "terminating" /\ call'[y].pc # "initializing"),
         UNCHANGED <<state, schedulerReady>> \/ ~schedulerReady'
  PROVE  ReadinessFollows'
<1>1. CASE ~schedulerReady'
  BY <1>1 DEF ReadinessFollows
<1>2. CASE UNCHANGED <<state, schedulerReady>>
  <2>1. Callers \subseteq Calls
    BY DEF Calls
  <2> QED BY <1>2, <2>1 DEF ProcessInv, ReadinessFollows
<1> QED BY <1>1, <1>2

(* What holds while calls come one after the other survives a step in which *)
(* the child stays and one call, at most, returns.                          *)
LEMMA OneAtATimeStays ==
  ASSUME ProcessInv, UNCHANGED <<child, proc, manuallyStopped, overlapped>>,
         Handed(child, requests) \/ (UNCHANGED <<sentTo, job>> /\ requests' \subseteq requests),
         \A y \in Calls :
           \/ call'[y] = call[y]
           \/ /\ call[y].pc \in AwaitsExit => proc[call[y].target] = "gone"
              /\ call'[y].pc \in {"idle", "done"},
         UNCHANGED <<state, schedulerReady>> \/ (child = 0 /\ state' \in {"stopped", "error"} /\ ~schedulerReady')
           \/ ~manuallyStopped,
         \A y \in Calls : call[y].pc \in {"shutdown", "terminating"} => call'[y] = call[y],
         restartTimer' => restartTimer \/ child = 0
  PROVE  OneAtATime'
<1> SUFFICES ASSUME ~overlapped
             PROVE  OneCaller' /\ NobodyInTheWay' /\ ClosingIsAwaited' /\ RequestsAreToTheChild' /\ StoppedHasNoChild'
  BY DEF OneAtATime
<1>1. OneCaller /\ NobodyInTheWay /\ ClosingIsAwaited /\ RequestsAreToTheChild /\ StoppedHasNoChild
  BY DEF ProcessInv, OneAtATime
<1>2. Callers \subseteq Calls
  BY DEF Calls
<1>3. OneCaller'
  BY <1>1, <1>2 DEF OneCaller, InProgress
<1>4. NobodyInTheWay'
  BY <1>1 DEF NobodyInTheWay
<1>5. ClosingIsAwaited'
  BY <1>1 DEF ClosingIsAwaited, Live, ProcState
<1>6. RequestsAreToTheChild'
  BY <1>1 DEF RequestsAreToTheChild, Handed
<1>7. StoppedHasNoChild'
  BY <1>1, <1>2 DEF StoppedHasNoChild
<1> QED BY <1>3, <1>4, <1>5, <1>6, <1>7

-----------------------------------------------------------------------------
(* Calls. *)

(* launch() finds a ready child, drops another one or spawns its own. *)
LEMMA LaunchStarts ==
  ASSUME ProcessInv, NEW x \in Calls, NEW op \in CallOp, call[x].pc \in {"idle", "stopped"}, launch(x, op)
  PROVE  /\ LaunchTypes /\ CallsHaveTheirProcess' /\ ReadinessFollows' /\ Spawned' # {}
         /\ \A y \in Calls \ {x} : call'[y] = call[y]
         /\ \/ /\ UNCHANGED <<child, proc, state, schedulerReady, requests, sentTo>> /\ child # 0
               /\ call'[x].pc \in {"idle", "done"}
            \/ state # "ready" /\ child # 0
            \/ /\ child = 0 /\ call'[x].pc = "initializing"
               /\ \A d \in Live' : d = child' \/ (d \in Live /\ proc'[d] = proc[d])
               /\ requests = {} => RequestsAreToTheChild'
<1>1. /\ child \in Children \cup {0} /\ proc \in [Children -> ProcState] /\ generation \in Nat
      /\ state \in ProcessState /\ stopping \in BOOLEAN /\ schedulerReady \in BOOLEAN
      /\ requests \subseteq Calls \cup Jobs
      /\ sentTo \in [Calls \cup Jobs -> Children \cup {0}]
      /\ job \in [Jobs -> JobState]
      /\ call \in [Calls -> CallState]
  BY DEF ProcessInv, Types, TypeOK, JobState
<1>2. child # 0 => Spawned # {}
  BY DEF ProcessInv, CallsHaveTheirProcess, Live, Spawned
<1>3. CASE /\ state = "ready" /\ child # 0
           /\ Return(x)
           /\ UNCHANGED <<connVars, state, stopping, reqVars, schedulerReady>>
  <2>1. /\ call' \in [Calls -> CallState]
        /\ \A y \in Calls \ {x} : call'[y] = call[y]
        /\ call'[x].pc \in {"idle", "done"}
    BY <1>3, Returned DEF ProcessInv
  <2>2. Handed(child, requests)
    BY <1>3, NothingHanded DEF ProcessInv
  <2>3. CallsHaveTheirProcess' /\ Spawned' = Spawned
    BY <1>3, <2>1, <2>2, ChildStays DEF connVars
  <2>4. ReadinessFollows'
    <3>1. CASE schedulerReady
      BY <1>3, <2>1, <1>1, <3>1 DEF ProcessInv, ReadinessFollows, connVars
    <3>2. CASE ~schedulerReady
      BY <1>3, <3>2 DEF ReadinessFollows
    <3> QED BY <3>1, <3>2
  <2>5. LaunchTypes
    BY <1>1, <1>3, <2>1 DEF LaunchTypes, connVars, reqVars
  <2> QED BY <1>2, <1>3, <2>1, <2>3, <2>4, <2>5 DEF connVars, reqVars
<1>4. CASE /\ state # "ready" /\ child # 0
           /\ Terminate(x, op, "replacing")
           /\ UNCHANGED <<state, stopping, schedulerReady>>
  <2>1. ~schedulerReady /\ call[x].pc \notin AwaitsExit /\ "replacing" \in AwaitsExit
    BY <1>4 DEF ProcessInv, ReadinessFollows, AwaitsExit
  <2>2. /\ proc' \in [Children -> ProcState] /\ child' = 0 /\ generation' \in Nat
        /\ UNCHANGED <<sentTo, job>> /\ requests' = {}
        /\ call' \in [Calls -> CallState]
        /\ CallsHaveTheirProcess' /\ ReadinessFollows' /\ Spawned' = Spawned
        /\ \A y \in Calls \ {x} : call'[y] = call[y]
    BY <1>4, <2>1, TerminateLeaves
  <2>3. LaunchTypes
    BY <1>1, <1>4, <2>2 DEF LaunchTypes
  <2> QED BY <1>2, <1>4, <2>2, <2>3
<1>5. CASE child = 0 /\ Spawn(x, op)
  BY <1>5, SpawnStarts
<1> QED BY <1>3, <1>4, <1>5 DEF launch

(* Whoever sees to the exit of a closing process still does after a launch. *)
LEMMA ClosingStays ==
  ASSUME child = 0, ClosingIsAwaited, NEW x \in Calls, call[x].pc \in {"idle", "stopped"},
         \A y \in Calls \ {x} : call'[y] = call[y],
         \A d \in Live' : d = child' \/ (d \in Live /\ proc'[d] = proc[d])
  PROVE  ClosingIsAwaited'
<1>1. SUFFICES ASSUME NEW d \in Live', d # child'
               PROVE  proc'[d] = "closing" /\ \E y \in Calls : call'[y].pc \in AwaitsExit /\ call'[y].target = d
  BY DEF ClosingIsAwaited
<1>2. d \in Live /\ proc'[d] = proc[d]
  BY <1>1
<1>3. d # child
  BY <1>2, NumbersAssumption DEF Live, Children
<1>4. PICK y \in Calls : proc[d] = "closing" /\ call[y].pc \in AwaitsExit /\ call[y].target = d
  BY <1>2, <1>3 DEF ClosingIsAwaited
<1>5. y # x
  BY <1>4 DEF AwaitsExit
<1> QED BY <1>2, <1>4, <1>5

(* A start, when there is no child to be in its way. *)
LEMMA StartKeeps ==
  ASSUME ProcessInv, NEW x \in Callers, NEW op \in {"start", "restart"}, call[x].pc \in {"idle", "stopped"},
         Start(x, op), overlapped' \in BOOLEAN,
         ~overlapped' =>
           /\ ~overlapped /\ child = 0 /\ ~restartTimer
           /\ \A y \in Callers \ {x} : ~InProgress(y)
  PROVE  ProcessInv'
<1>1. /\ manuallyStopped' = FALSE /\ incompatible' = FALSE
      /\ launch(x, op) /\ UNCHANGED <<timerVars, faults>>
  BY DEF Start
<1>2. x \in Calls /\ Callers \subseteq Calls /\ op \in CallOp
  BY DEF Calls, CallOp
<1>3. /\ LaunchTypes /\ CallsHaveTheirProcess' /\ ReadinessFollows' /\ Spawned' # {}
      /\ \A y \in Calls \ {x} : call'[y] = call[y]
  BY <1>1, <1>2, LaunchStarts
<1>4. Types'
  BY <1>1, <1>3, TypesOfCalls DEF ProcessInv, Types, TypeOK, LaunchTypes, JobState, timerVars
<1>5. StopDisarms'
  BY <1>1, <1>3 DEF StopDisarms
<1>6. ASSUME ~overlapped'
      PROVE  OneCaller' /\ NobodyInTheWay' /\ ClosingIsAwaited' /\ RequestsAreToTheChild' /\ StoppedHasNoChild'
  <2>1. /\ child = 0 /\ ~restartTimer
        /\ \A y \in Callers \ {x} : ~InProgress(y)
        /\ NobodyInTheWay /\ ClosingIsAwaited /\ RequestsAreToTheChild
    BY <1>6 DEF ProcessInv, OneAtATime
  <2>2. /\ call'[x].pc = "initializing"
        /\ \A d \in Live' : d = child' \/ (d \in Live /\ proc'[d] = proc[d])
        /\ requests = {} => RequestsAreToTheChild'
    BY <1>1, <1>2, <2>1, LaunchStarts
  <2>3. RequestsAreToTheChild'
    BY <2>1, <2>2 DEF RequestsAreToTheChild
  <2>4. OneCaller'
    BY <1>2, <1>3, <2>1 DEF OneCaller, InProgress
  <2>5. NobodyInTheWay'
    <3>1. \A y \in Calls : call'[y].pc \notin {"replacing", "shutdown", "terminating", "stopped"}
      BY <1>3, <1>2, <2>1, <2>2 DEF NobodyInTheWay, InProgress, ProcessInv, CallsHaveTheirProcess
    <3>2. ~restartTimer'
      BY <1>1, <2>1 DEF timerVars
    <3> QED BY <3>1, <3>2 DEF NobodyInTheWay
  <2>6. ClosingIsAwaited'
    BY <1>2, <1>3, <2>1, <2>2, ClosingStays
  <2>7. StoppedHasNoChild'
    BY <1>1 DEF StoppedHasNoChild
  <2> QED BY <2>3, <2>4, <2>5, <2>6, <2>7
<1> QED BY <1>3, <1>4, <1>5, <1>6 DEF ProcessInv, OneAtATime

LEMMA startKeeps ==
  ASSUME ProcessInv, NEW x \in Calls, start(x)
  PROVE  ProcessInv'
<1>1. /\ x \in Callers /\ call[x].pc = "idle" /\ Spawned = {}
      /\ overlapped' = (overlapped \/ \E y \in Callers : InProgress(y))
      /\ Start(x, "start")
  BY DEF start, MayCall
<1>2. ~restartTimer /\ child = 0
  BY <1>1 DEF ProcessInv, StopDisarms, CallsHaveTheirProcess, Live, Spawned
<1>3. overlapped' \in BOOLEAN
  BY <1>1 DEF ProcessInv, Types
<1> QED BY <1>1, <1>2, <1>3, StartKeeps

(* restart() starts again when its stop has returned. *)
LEMMA StopReturnedKeeps ==
  ASSUME ProcessInv, NEW x \in Calls, StopReturned(x), UNCHANGED overlapped
  PROVE  ProcessInv'
<1>1. call[x].pc = "stopped" /\ x \in Callers /\ Callers \subseteq Calls
  BY DEF StopReturned, ProcessInv, CallsHaveTheirProcess, Calls
<1>2. CASE call[x].op = "restart"
  <2>1. Start(x, "restart")
    BY <1>2 DEF StopReturned
  <2>2. ASSUME ~overlapped
        PROVE  /\ child = 0 /\ ~restartTimer
               /\ \A y \in Callers \ {x} : ~InProgress(y)
    BY <1>1, <2>2 DEF ProcessInv, OneAtATime, NobodyInTheWay, StopDisarms, OneCaller, InProgress
  <2>3. overlapped' \in BOOLEAN
    BY DEF ProcessInv, Types
  <2> QED BY <1>1, <2>1, <2>2, <2>3, StartKeeps
<1>3. CASE call[x].op # "restart"
  <2>1. /\ Return(x)
        /\ UNCHANGED <<child, proc, generation, state, stopping, manuallyStopped, incompatible,
                       restartAttempt, restartTimer, requests, sentTo, job, schedulerReady, faults>>
    BY <1>3 DEF StopReturned, connVars, flagVars, timerVars, reqVars
  <2>2. /\ call' \in [Calls -> CallState]
        /\ \A y \in Calls \ {x} : call'[y] = call[y]
        /\ call'[x].pc \in {"idle", "done"}
    BY <2>1, Returned DEF ProcessInv
  <2>3. Handed(child, requests)
    BY <2>1, NothingHanded DEF ProcessInv, reqVars
  <2>4. Types'
    BY <2>1, <2>2 DEF ProcessInv, Types, TypeOK, CallState, CallPc, CallOp
  <2>5. CallsHaveTheirProcess' /\ Spawned' = Spawned
    BY <2>1, <2>2, <2>3, ChildStays
  <2>6. ReadinessFollows'
    BY <1>1, <2>1, <2>2, ReadinessStays
  <2>7. StopDisarms'
    BY <2>1, <2>5 DEF ProcessInv, StopDisarms
  <2>8. OneAtATime'
    BY <1>1, <2>1, <2>2, <2>3, OneAtATimeStays DEF AwaitsExit
  <2> QED BY <2>4, <2>5, <2>6, <2>7, <2>8 DEF ProcessInv
<1> QED BY <1>2, <1>3

(* The recovery timer launches only when there is no child. *)
LEMMA RecoveryTimerKeeps ==
  ASSUME ProcessInv, NEW x \in Calls, RecoveryTimer(x)
  PROVE  ProcessInv'
<1>1. /\ x \in Internals /\ x \notin Callers /\ call[x].pc = "idle" /\ restartTimer /\ restartTimer' = FALSE
      /\ UNCHANGED <<manuallyStopped, incompatible, restartAttempt, faults, overlapped>>
  BY CallsAssumption DEF RecoveryTimer
<1>2. CASE manuallyStopped \/ incompatible
  <2>1. UNCHANGED <<child, proc, generation, state, stopping, requests, sentTo, job, call, schedulerReady>>
    BY <1>2 DEF RecoveryTimer, connVars, reqVars
  <2>2. Types'
    BY <1>1, <2>1 DEF ProcessInv, Types, TypeOK, CallState, CallPc, CallOp
  <2>3. Handed(child, requests)
    BY <2>1, NothingHanded DEF ProcessInv, reqVars
  <2>4. CallsHaveTheirProcess' /\ Spawned' = Spawned
    BY <2>1, <2>3, ChildStays
  <2>5. ReadinessFollows'
    BY <2>1, ReadinessStays
  <2>6. StopDisarms'
    BY <1>1, <2>4 DEF ProcessInv, StopDisarms
  <2>7. OneAtATime'
    BY <1>1, <2>1, <2>3, OneAtATimeStays
  <2> QED BY <2>2, <2>4, <2>5, <2>6, <2>7 DEF ProcessInv
<1>3. CASE ~(manuallyStopped \/ incompatible)
  <2>1. launch(x, "recovery") /\ "recovery" \in CallOp
    BY <1>3 DEF RecoveryTimer, CallOp
  <2>2. /\ LaunchTypes /\ CallsHaveTheirProcess' /\ ReadinessFollows' /\ Spawned' # {}
        /\ \A y \in Calls \ {x} : call'[y] = call[y]
    BY <1>1, <2>1, LaunchStarts
  <2>3. Types'
    BY <1>1, <2>2, TypesOfCalls DEF ProcessInv, Types, TypeOK, LaunchTypes, JobState
  <2>4. StopDisarms'
    BY <1>1, <2>2 DEF StopDisarms
  <2>5. ASSUME ~overlapped'
        PROVE  OneCaller' /\ NobodyInTheWay' /\ ClosingIsAwaited' /\ RequestsAreToTheChild' /\ StoppedHasNoChild'
    <3>1. /\ OneCaller /\ NobodyInTheWay /\ ClosingIsAwaited /\ RequestsAreToTheChild
          /\ child = 0 /\ Callers \subseteq Calls
      BY <1>1, <2>5 DEF ProcessInv, OneAtATime, NobodyInTheWay, Calls
    <3>2. /\ call'[x].pc = "initializing"
          /\ \A d \in Live' : d = child' \/ (d \in Live /\ proc'[d] = proc[d])
          /\ requests = {} => RequestsAreToTheChild'
      BY <1>1, <2>1, <3>1, LaunchStarts
    <3>3. RequestsAreToTheChild'
      BY <3>1, <3>2 DEF RequestsAreToTheChild
    <3>4. OneCaller'
      BY <1>1, <2>2, <3>1 DEF OneCaller, InProgress
    <3>5. NobodyInTheWay'
      BY <1>1, <1>3, <2>2, <3>1, <3>2 DEF NobodyInTheWay
    <3>6. ClosingIsAwaited'
      BY <1>1, <2>2, <3>1, <3>2, ClosingStays
    <3>7. StoppedHasNoChild'
      BY <1>1, <1>3 DEF StoppedHasNoChild
    <3> QED BY <3>3, <3>4, <3>5, <3>6, <3>7
  <2> QED BY <2>2, <2>3, <2>4, <2>5 DEF ProcessInv, OneAtATime
<1> QED BY <1>2, <1>3

(* A stop disarms the timer and asks the child, if there is one, to go. *)
LEMMA BeginStopKeeps ==
  ASSUME ProcessInv, NEW x \in Callers, NEW op \in {"stop", "restart"}, call[x].pc \in {"idle", "draining"},
         BeginStop(x, op), overlapped' \in BOOLEAN,
         ~overlapped' => ~overlapped /\ \A y \in Callers \ {x} : ~InProgress(y)
  PROVE  ProcessInv'
<1>1. /\ x \in Calls /\ Callers \subseteq Calls
      /\ manuallyStopped' = TRUE /\ restartTimer' = FALSE /\ restartAttempt' = 0
      /\ UNCHANGED <<child, proc, generation, incompatible, faults>>
  BY DEF Calls, BeginStop, connVars
<1>2. /\ child \in Children \cup {0} /\ requests \in SUBSET (Calls \cup Jobs)
      /\ call \in [Calls -> CallState] /\ sentTo \in [Calls \cup Jobs -> Children \cup {0}]
      /\ Spawned' = Spawned /\ Live' = Live
  BY <1>1 DEF ProcessInv, Types, TypeOK, Spawned, Live
<1>3. /\ manuallyStopped' \in BOOLEAN /\ incompatible' \in BOOLEAN
      /\ restartAttempt' \in 0..MaxRestarts /\ restartTimer' \in BOOLEAN /\ faults' \in 0..MaxFaults
  <2>1. restartAttempt' \in 0..MaxRestarts
    BY <1>1, NumbersAssumption
  <2>2. incompatible' \in BOOLEAN /\ faults' \in 0..MaxFaults
    BY <1>1 DEF ProcessInv, Types, TypeOK
  <2> QED BY <1>1, <2>1, <2>2
<1>4. StopDisarms'
  BY <1>1 DEF StopDisarms
<1>5. CASE child = 0
  <2>1. /\ call' = [call EXCEPT ![x] = [Idle EXCEPT !.pc = "stopped", !.op = op]]
        /\ SetStatus("stopped", 0, requests, job)
        /\ UNCHANGED stopping
    BY <1>5 DEF BeginStop
  <2>2. [Idle EXCEPT !.pc = "stopped", !.op = op] \in CallState
    BY DEF Idle, CallState, CallPc, CallOp
  <2>3. /\ call' \in [Calls -> CallState]
        /\ \A y \in Calls \ {x} : call'[y] = call[y]
        /\ call'[x].pc = "stopped"
    BY <1>1, <1>2, <2>1, <2>2 DEF Idle
  <2>4. state' = "stopped" /\ ~schedulerReady' /\ schedulerReady' \in BOOLEAN /\ Handed(0, requests)
    BY <1>2, <2>1, StatusSet DEF ProcessInv, ProcessState
  <2>5. Types'
    <3>1. LaunchTypes
      BY <1>1, <2>1, <2>3, <2>4 DEF ProcessInv, Types, TypeOK, LaunchTypes, Handed, ProcessState
    <3> QED BY <1>3, <3>1, TypesKept
  <2>6. CallsHaveTheirProcess'
    BY <1>1, <1>2, <1>5, <2>3, <2>4 DEF ProcessInv, CallsHaveTheirProcess, Handed, AwaitsExit
  <2>7. ReadinessFollows'
    BY <2>4 DEF ReadinessFollows
  <2>8. ASSUME ~overlapped'
        PROVE  OneCaller' /\ NobodyInTheWay' /\ ClosingIsAwaited' /\ RequestsAreToTheChild' /\ StoppedHasNoChild'
    <3>1. /\ NobodyInTheWay /\ ClosingIsAwaited /\ RequestsAreToTheChild
          /\ \A y \in Callers \ {x} : ~InProgress(y)
      BY <2>8 DEF ProcessInv, OneAtATime
    <3>2. OneCaller'
      BY <1>1, <2>3, <3>1 DEF OneCaller, InProgress
    <3>3. NobodyInTheWay'
      BY <1>1, <1>5, <2>3, <3>1 DEF NobodyInTheWay
    <3>4. ClosingIsAwaited'
      BY <1>1, <1>2, <2>3, <3>1 DEF ClosingIsAwaited, AwaitsExit
    <3>5. RequestsAreToTheChild'
      BY <1>1, <1>5, <2>4, <3>1 DEF RequestsAreToTheChild, Handed
    <3>6. StoppedHasNoChild'
      BY <1>1, <1>5, <2>4 DEF StoppedHasNoChild
    <3> QED BY <3>2, <3>3, <3>4, <3>5, <3>6
  <2> QED BY <1>4, <2>5, <2>6, <2>7, <2>8 DEF ProcessInv, OneAtATime
<1>6. CASE child # 0
  <2>1. /\ stopping' = TRUE
        /\ requests' = requests \cup {x}
        /\ sentTo' = [sentTo EXCEPT ![x] = child]
        /\ call' = [call EXCEPT ![x] = [Idle EXCEPT !.pc = "shutdown", !.op = op]]
        /\ UNCHANGED <<state, schedulerReady, job>>
    BY <1>6 DEF BeginStop
  <2>2. [Idle EXCEPT !.pc = "shutdown", !.op = op] \in CallState
    BY DEF Idle, CallState, CallPc, CallOp, AwaitsResponse
  <2>3. /\ call' \in [Calls -> CallState]
        /\ \A y \in Calls \ {x} : call'[y] = call[y]
        /\ call'[x].pc = "shutdown"
    BY <1>1, <1>2, <2>1, <2>2 DEF Idle
  <2>4. Types'
    <3>1. requests' \subseteq Calls \cup Jobs /\ sentTo' \in [Calls \cup Jobs -> Children \cup {0}]
      BY <1>1, <1>2, <2>1
    <3>2. LaunchTypes
      BY <1>1, <2>1, <2>3, <3>1 DEF ProcessInv, Types, TypeOK, LaunchTypes, JobState
    <3> QED BY <1>3, <3>2, TypesKept
  <2>5. child \in Spawned
    BY <1>6 DEF ProcessInv, CallsHaveTheirProcess, Live, Spawned
  <2>6. CallsHaveTheirProcess'
    BY <1>1, <1>2, <2>1, <2>3, <2>5 DEF ProcessInv, CallsHaveTheirProcess, AwaitsExit
  <2>7. ReadinessFollows'
    BY <1>1, <1>6, <2>1, <2>3 DEF ProcessInv, ReadinessFollows
  <2>8. ASSUME ~overlapped'
        PROVE  OneCaller' /\ NobodyInTheWay' /\ ClosingIsAwaited' /\ RequestsAreToTheChild' /\ StoppedHasNoChild'
    <3>1. /\ NobodyInTheWay /\ ClosingIsAwaited /\ RequestsAreToTheChild
          /\ \A y \in Callers \ {x} : ~InProgress(y)
      BY <2>8 DEF ProcessInv, OneAtATime
    <3>2. OneCaller'
      BY <1>1, <2>3, <3>1 DEF OneCaller, InProgress
    <3>3. NobodyInTheWay'
      BY <1>1, <2>3, <3>1 DEF NobodyInTheWay
    <3>4. ClosingIsAwaited'
      BY <1>1, <1>2, <2>3, <3>1 DEF ClosingIsAwaited, AwaitsExit
    <3>5. RequestsAreToTheChild'
      BY <1>1, <1>2, <1>6, <2>1, <3>1 DEF RequestsAreToTheChild
    <3>6. StoppedHasNoChild'
      BY <2>3 DEF StoppedHasNoChild
    <3> QED BY <3>2, <3>3, <3>4, <3>5, <3>6
  <2> QED BY <1>4, <2>4, <2>6, <2>7, <2>8 DEF ProcessInv, OneAtATime
<1> QED BY <1>5, <1>6

LEMMA restartKeeps ==
  ASSUME ProcessInv, NEW x \in Calls, restart(x)
  PROVE  ProcessInv'
<1>1. /\ x \in Callers /\ call[x].pc = "idle"
      /\ overlapped' = (overlapped \/ \E y \in Callers : InProgress(y))
      /\ BeginStop(x, "restart")
  BY DEF restart, MayCall
<1>2. overlapped' \in BOOLEAN
  BY <1>1 DEF ProcessInv, Types
<1> QED BY <1>1, <1>2, BeginStopKeeps

LEMMA RunsSettledKeeps ==
  ASSUME ProcessInv, NEW x \in Calls, RunsSettled(x), UNCHANGED overlapped
  PROVE  ProcessInv'
<1>1. call[x].pc = "draining" /\ x \in Callers /\ BeginStop(x, "stop")
  BY DEF RunsSettled, ProcessInv, CallsHaveTheirProcess
<1>2. overlapped' \in BOOLEAN
  BY DEF ProcessInv, Types
<1>3. ~overlapped' => ~overlapped /\ \A y \in Callers \ {x} : ~InProgress(y)
  BY <1>1 DEF ProcessInv, OneAtATime, OneCaller, InProgress
<1> QED BY <1>1, <1>2, <1>3, BeginStopKeeps

(* The composition ends the dispatch and waits. *)
LEMMA stopKeeps ==
  ASSUME ProcessInv, NEW x \in Calls, stop(x)
  PROVE  ProcessInv'
<1>1. /\ x \in Callers /\ Callers \subseteq Calls /\ call[x].pc = "idle"
      /\ overlapped' = (overlapped \/ \E y \in Callers : InProgress(y))
      /\ schedulerReady' = FALSE
      /\ call' = [call EXCEPT ![x] = [Idle EXCEPT !.pc = "draining", !.op = "stop"]]
      /\ UNCHANGED <<child, proc, generation, state, stopping, manuallyStopped, incompatible,
                     restartAttempt, restartTimer, requests, sentTo, job, faults>>
  BY DEF stop, MayCall, Calls, connVars, flagVars, timerVars, reqVars
<1>2. [Idle EXCEPT !.pc = "draining", !.op = "stop"] \in CallState
  BY DEF Idle, CallState, CallPc, CallOp
<1>3. /\ call' \in [Calls -> CallState]
      /\ \A y \in Calls \ {x} : call'[y] = call[y]
      /\ call'[x].pc = "draining"
      /\ Spawned' = Spawned /\ Live' = Live
  BY <1>1, <1>2 DEF Idle, ProcessInv, Types, Spawned, Live
<1>4. Types'
  BY <1>1, <1>3, TypesOfCalls DEF ProcessInv, Types, TypeOK
<1>5. CallsHaveTheirProcess'
  BY <1>1, <1>3 DEF ProcessInv, CallsHaveTheirProcess, AwaitsExit
<1>6. ReadinessFollows' /\ StopDisarms'
  BY <1>1, <1>3 DEF ProcessInv, ReadinessFollows, StopDisarms
<1>7. ASSUME ~overlapped'
      PROVE  OneCaller' /\ NobodyInTheWay' /\ ClosingIsAwaited' /\ RequestsAreToTheChild' /\ StoppedHasNoChild'
  <2>1. /\ NobodyInTheWay /\ ClosingIsAwaited /\ RequestsAreToTheChild /\ StoppedHasNoChild
        /\ \A y \in Callers \ {x} : ~InProgress(y)
    BY <1>1, <1>7 DEF ProcessInv, OneAtATime
  <2>2. OneCaller'
    BY <1>1, <1>3, <2>1 DEF OneCaller, InProgress
  <2>3. NobodyInTheWay'
    BY <1>1, <1>3, <2>1 DEF NobodyInTheWay
  <2>4. ClosingIsAwaited' /\ RequestsAreToTheChild'
    BY <1>1, <1>3, <2>1 DEF ClosingIsAwaited, RequestsAreToTheChild, AwaitsExit
  <2>5. StoppedHasNoChild'
    BY <1>1, <1>3, <2>1 DEF StoppedHasNoChild
  <2> QED BY <2>2, <2>3, <2>4, <2>5
<1> QED BY <1>4, <1>5, <1>6, <1>7 DEF ProcessInv, OneAtATime

(* A message for the scheduler, or a turn that is over, leaves the          *)
(* supervision as it is: at most a job is sent to the child.                *)
LEMMA JobsMove ==
  ASSUME ProcessInv, NEW req \in SUBSET requests, Handed(child, req),
         UNCHANGED <<connVars, state, flagVars, timerVars, call, schedulerReady, faults, overlapped>>
  PROVE  ProcessInv'
<1>1. UNCHANGED <<child, proc, generation, state, stopping, manuallyStopped, incompatible,
                  restartAttempt, restartTimer, call, schedulerReady, faults, overlapped>>
  BY DEF connVars, flagVars, timerVars
<1>2. Types'
  BY <1>1 DEF ProcessInv, Types, TypeOK, Handed, JobState
<1>3. CallsHaveTheirProcess' /\ Spawned' = Spawned /\ Live' = Live
  BY <1>1, ChildStays
<1>4. ReadinessFollows' /\ StopDisarms'
  BY <1>1, <1>3 DEF ProcessInv, ReadinessFollows, StopDisarms
<1>5. ASSUME ~overlapped
      PROVE  OneCaller' /\ NobodyInTheWay' /\ ClosingIsAwaited' /\ RequestsAreToTheChild' /\ StoppedHasNoChild'
  <2>1. OneCaller /\ NobodyInTheWay /\ ClosingIsAwaited /\ RequestsAreToTheChild /\ StoppedHasNoChild
    BY <1>5 DEF ProcessInv, OneAtATime
  <2>2. OneCaller' /\ NobodyInTheWay' /\ ClosingIsAwaited' /\ StoppedHasNoChild'
    BY <1>1, <1>3, <2>1 DEF OneCaller, InProgress, NobodyInTheWay, ClosingIsAwaited, StoppedHasNoChild
  <2>3. RequestsAreToTheChild'
    BY <1>1, <2>1 DEF RequestsAreToTheChild, Handed
  <2> QED BY <2>2, <2>3
<1> QED BY <1>1, <1>2, <1>3, <1>4, <1>5 DEF ProcessInv, OneAtATime

LEMMA enqueueKeeps ==
  ASSUME ProcessInv, NEW j \in Jobs, enqueue(j)
  PROVE  ProcessInv'
<1>1. /\ Drain(schedulerReady, child, requests, [job EXCEPT ![j] = "queued"])
      /\ UNCHANGED <<connVars, state, flagVars, timerVars, call, schedulerReady, faults, overlapped>>
  BY DEF enqueue
<1>2. /\ child \in Children \cup {0} /\ requests \in SUBSET (Calls \cup Jobs)
      /\ [job EXCEPT ![j] = "queued"] \in [Jobs -> JobState]
  BY DEF ProcessInv, Types, TypeOK, JobState
<1>3. Handed(child, requests)
  BY <1>1, <1>2, DrainHands DEF ProcessInv
<1> QED BY <1>1, <1>3, JobsMove

LEMMA RunRejectedKeeps ==
  ASSUME ProcessInv, NEW j \in Jobs, RunRejected(j), UNCHANGED overlapped
  PROVE  ProcessInv'
<1>1. /\ Drain(schedulerReady, child, requests, [job EXCEPT ![j] = "failed"])
      /\ UNCHANGED <<connVars, state, flagVars, timerVars, call, schedulerReady, faults>>
  BY DEF RunRejected
<1>2. /\ child \in Children \cup {0} /\ requests \in SUBSET (Calls \cup Jobs)
      /\ [job EXCEPT ![j] = "failed"] \in [Jobs -> JobState]
  BY DEF ProcessInv, Types, TypeOK, JobState
<1>3. Handed(child, requests)
  BY <1>1, <1>2, DrainHands DEF ProcessInv
<1> QED BY <1>1, <1>3, JobsMove

LEMMA RunAnsweredKeeps ==
  ASSUME ProcessInv, NEW j \in Jobs, NEW result \in {"ended", "failed"}, RunAnswered(j, result)
  PROVE  ProcessInv'
<1>1. /\ Drain(schedulerReady, child, requests \ {j}, [job EXCEPT ![j] = result])
      /\ UNCHANGED <<connVars, state, flagVars, timerVars, call, schedulerReady, faults, overlapped>>
  BY DEF RunAnswered
<1>2. /\ child \in Children \cup {0} /\ requests \ {j} \in SUBSET (Calls \cup Jobs)
      /\ requests \ {j} \in SUBSET requests
      /\ [job EXCEPT ![j] = result] \in [Jobs -> JobState]
  BY DEF ProcessInv, Types, TypeOK, JobState
<1>3. Handed(child, requests \ {j})
  BY <1>1, <1>2, DrainHands DEF ProcessInv
<1> QED BY <1>1, <1>2, <1>3, JobsMove

-----------------------------------------------------------------------------
(* The rest of a stop. *)

(* A stop that drops the child itself, after the shutdown request. *)
LEMMA ShutdownSettledKeeps ==
  ASSUME ProcessInv, NEW x \in Calls, ShutdownSettled(x), UNCHANGED overlapped
  PROVE  ProcessInv'
<1>1. /\ call[x].pc = "shutdown" /\ x \in Callers /\ Callers \subseteq Calls
      /\ UNCHANGED <<manuallyStopped, incompatible, restartAttempt, restartTimer, faults, overlapped>>
  BY DEF ShutdownSettled, ProcessInv, CallsHaveTheirProcess, timerVars, Calls
<1>2. /\ child \in Children \cup {0} /\ requests \in SUBSET (Calls \cup Jobs)
      /\ call \in [Calls -> CallState]
      /\ manuallyStopped' \in BOOLEAN /\ incompatible' \in BOOLEAN
      /\ restartAttempt' \in 0..MaxRestarts /\ restartTimer' \in BOOLEAN /\ faults' \in 0..MaxFaults
      /\ overlapped' \in BOOLEAN
  BY <1>1 DEF ProcessInv, Types, TypeOK
<1>3. CASE child = 0
  <2>1. /\ call' = [call EXCEPT ![x].pc = "stopped"]
        /\ stopping' = FALSE
        /\ SetStatus("stopped", 0, requests, job)
        /\ UNCHANGED <<child, proc, generation>>
    BY <1>3 DEF ShutdownSettled, connVars
  <2>2. /\ call' \in [Calls -> CallState]
        /\ \A y \in Calls \ {x} : call'[y] = call[y]
        /\ call'[x].pc = "stopped"
    BY <1>2, <2>1 DEF CallState, CallPc
  <2>3. state' = "stopped" /\ ~schedulerReady' /\ schedulerReady' \in BOOLEAN /\ Handed(0, requests)
    BY <1>2, <2>1, StatusSet DEF ProcessInv, ProcessState
  <2>4. Types'
    <3>1. LaunchTypes
      BY <2>1, <2>2, <2>3 DEF ProcessInv, Types, TypeOK, LaunchTypes, Handed, ProcessState
    <3> QED BY <1>2, <3>1, TypesKept
  <2>5. Spawned' = Spawned /\ Live' = Live
    BY <2>1 DEF Spawned, Live
  <2>6. CallsHaveTheirProcess'
    BY <1>1, <1>3, <2>1, <2>2, <2>3, <2>5 DEF ProcessInv, CallsHaveTheirProcess, Handed, AwaitsExit
  <2>7. ReadinessFollows' /\ StopDisarms'
    BY <1>1, <2>3, <2>5 DEF ProcessInv, ReadinessFollows, StopDisarms
  <2>8. ASSUME ~overlapped
        PROVE  OneCaller' /\ NobodyInTheWay' /\ ClosingIsAwaited' /\ RequestsAreToTheChild' /\ StoppedHasNoChild'
    <3>1. OneCaller /\ NobodyInTheWay /\ ClosingIsAwaited /\ RequestsAreToTheChild
      BY <2>8 DEF ProcessInv, OneAtATime
    <3>2. OneCaller' /\ NobodyInTheWay'
      BY <1>1, <1>3, <2>1, <2>2, <3>1 DEF OneCaller, InProgress, NobodyInTheWay
    <3>3. ClosingIsAwaited'
      BY <1>1, <2>1, <2>2, <2>5, <3>1 DEF ClosingIsAwaited, AwaitsExit
    <3>4. RequestsAreToTheChild' /\ StoppedHasNoChild'
      BY <1>3, <2>1, <2>3, <3>1 DEF RequestsAreToTheChild, Handed, StoppedHasNoChild
    <3> QED BY <3>2, <3>3, <3>4
  <2> QED BY <1>1, <2>4, <2>6, <2>7, <2>8 DEF ProcessInv, OneAtATime
<1>4. CASE child # 0
  <2>1. /\ Terminate(x, call[x].op, "terminating")
        /\ UNCHANGED <<state, stopping, schedulerReady>>
    BY <1>4 DEF ShutdownSettled
  <2>2. /\ call[x].op \in CallOp /\ "terminating" \in AwaitsExit /\ call[x].pc \notin AwaitsExit
    BY <1>1, <1>2 DEF CallState, AwaitsExit
  <2>3. /\ proc' \in [Children -> ProcState] /\ child' = 0 /\ generation' \in Nat
        /\ UNCHANGED <<sentTo, job>> /\ requests' = {}
        /\ call' \in [Calls -> CallState]
        /\ CallsHaveTheirProcess' /\ ReadinessFollows' /\ Spawned' = Spawned
        /\ call'[x].pc = "terminating"
        /\ \A y \in Calls \ {x} : call'[y] = call[y]
        /\ ClosingIsAwaited => ClosingIsAwaited'
        /\ RequestsAreToTheChild'
    BY <1>1, <1>4, <2>1, <2>2, TerminateLeaves
  <2>4. Types'
    <3>1. LaunchTypes
      BY <2>1, <2>3 DEF ProcessInv, Types, TypeOK, LaunchTypes, JobState
    <3> QED BY <1>2, <3>1, TypesKept
  <2>5. StopDisarms'
    BY <1>1, <2>3 DEF ProcessInv, StopDisarms
  <2>6. ASSUME ~overlapped
        PROVE  OneCaller' /\ NobodyInTheWay' /\ ClosingIsAwaited' /\ StoppedHasNoChild'
    <3>1. OneCaller /\ NobodyInTheWay /\ ClosingIsAwaited
      BY <2>6 DEF ProcessInv, OneAtATime
    <3>2. OneCaller' /\ NobodyInTheWay'
      BY <1>1, <2>3, <3>1 DEF OneCaller, InProgress, NobodyInTheWay
    <3>3. StoppedHasNoChild'
      BY <1>1, <2>3 DEF StoppedHasNoChild
    <3> QED BY <2>3, <3>1, <3>2, <3>3
  <2> QED BY <1>1, <2>3, <2>4, <2>5, <2>6 DEF ProcessInv, OneAtATime
<1> QED BY <1>3, <1>4

LEMMA StopTerminatedKeeps ==
  ASSUME ProcessInv, NEW x \in Calls, StopTerminated(x), UNCHANGED overlapped
  PROVE  ProcessInv'
<1>1. /\ call[x].pc = "terminating" /\ x \in Callers /\ Callers \subseteq Calls
      /\ proc[call[x].target] = "gone"
      /\ call' = [call EXCEPT ![x].pc = "stopped"]
      /\ stopping' = FALSE
      /\ SetStatus("stopped", child, requests, job)
      /\ UNCHANGED <<child, proc, generation, manuallyStopped, incompatible, restartAttempt, restartTimer,
                     faults, overlapped>>
  BY DEF StopTerminated, ProcessInv, CallsHaveTheirProcess, connVars, timerVars, Calls
<1>2. /\ child \in Children \cup {0} /\ requests \in SUBSET (Calls \cup Jobs)
      /\ call \in [Calls -> CallState]
      /\ manuallyStopped' \in BOOLEAN /\ incompatible' \in BOOLEAN
      /\ restartAttempt' \in 0..MaxRestarts /\ restartTimer' \in BOOLEAN /\ faults' \in 0..MaxFaults
      /\ overlapped' \in BOOLEAN
  BY <1>1 DEF ProcessInv, Types, TypeOK
<1>3. /\ call' \in [Calls -> CallState]
      /\ \A y \in Calls \ {x} : call'[y] = call[y]
      /\ call'[x].pc = "stopped"
  BY <1>1, <1>2 DEF CallState, CallPc
<1>4. state' = "stopped" /\ ~schedulerReady' /\ schedulerReady' \in BOOLEAN /\ Handed(child, requests)
  BY <1>1, <1>2, StatusSet DEF ProcessInv, ProcessState
<1>5. Types'
  <2>1. LaunchTypes
    BY <1>1, <1>3, <1>4 DEF ProcessInv, Types, TypeOK, LaunchTypes, Handed, ProcessState
  <2> QED BY <1>2, <2>1, TypesKept
<1>6. Spawned' = Spawned /\ Live' = Live
  BY <1>1 DEF Spawned, Live
<1>7. CallsHaveTheirProcess'
  BY <1>1, <1>3, <1>4, <1>6 DEF ProcessInv, CallsHaveTheirProcess, Handed, AwaitsExit
<1>8. ReadinessFollows' /\ StopDisarms'
  BY <1>1, <1>4, <1>6 DEF ProcessInv, ReadinessFollows, StopDisarms
<1>9. ASSUME ~overlapped
      PROVE  OneCaller' /\ NobodyInTheWay' /\ ClosingIsAwaited' /\ RequestsAreToTheChild' /\ StoppedHasNoChild'
  <2>1. OneCaller /\ NobodyInTheWay /\ ClosingIsAwaited /\ RequestsAreToTheChild
    BY <1>9 DEF ProcessInv, OneAtATime
  <2>2. OneCaller' /\ NobodyInTheWay'
    BY <1>1, <1>3, <2>1 DEF OneCaller, InProgress, NobodyInTheWay
  <2>3. ClosingIsAwaited'
    BY <1>1, <1>3, <1>6, <2>1 DEF ClosingIsAwaited, Live
  <2>4. RequestsAreToTheChild' /\ StoppedHasNoChild'
    BY <1>1, <1>4, <2>1 DEF RequestsAreToTheChild, Handed, StoppedHasNoChild, NobodyInTheWay
  <2> QED BY <2>2, <2>3, <2>4
<1> QED BY <1>1, <1>5, <1>7, <1>8, <1>9 DEF ProcessInv, OneAtATime

-----------------------------------------------------------------------------
(* The rest of a launch. *)

(* A launch that waited for another's child spawns without looking again;   *)
(* it does so only when calls overlapped.                                   *)
LEMMA ReplacedExitedKeeps ==
  ASSUME ProcessInv, NEW x \in Calls, ReplacedExited(x), UNCHANGED overlapped
  PROVE  ProcessInv'
<1>1. /\ call[x].pc = "replacing" /\ Spawn(x, call[x].op)
      /\ UNCHANGED <<manuallyStopped, incompatible, restartAttempt, restartTimer, faults, overlapped>>
  BY DEF ReplacedExited, timerVars
<1>2. /\ call[x].op \in CallOp
      /\ manuallyStopped' \in BOOLEAN /\ incompatible' \in BOOLEAN
      /\ restartAttempt' \in 0..MaxRestarts /\ restartTimer' \in BOOLEAN /\ faults' \in 0..MaxFaults
      /\ overlapped' \in BOOLEAN
  BY <1>1 DEF ProcessInv, Types, TypeOK, CallState
<1>3. LaunchTypes /\ CallsHaveTheirProcess' /\ ReadinessFollows' /\ Spawned' # {}
  BY <1>1, <1>2, SpawnStarts
<1>4. Types'
  BY <1>2, <1>3, TypesKept
<1>5. StopDisarms'
  BY <1>1, <1>3 DEF ProcessInv, StopDisarms
<1>6. OneAtATime'
  BY <1>1 DEF ProcessInv, OneAtATime, NobodyInTheWay
<1> QED BY <1>3, <1>4, <1>5, <1>6 DEF ProcessInv

(* A failed launch returns; only a recovery is tried again, and never after *)
(* a stop.                                                                  *)
LEMMA LaunchFailedKeeps ==
  ASSUME ProcessInv, NEW x \in Calls, LaunchFailed(x),
         call[x].pc \in {"initializing", "abandoning"},
         call[x].pc \in AwaitsExit => proc[call[x].target] = "gone",
         UNCHANGED <<flagVars, faults, overlapped>>
  PROVE  ProcessInv'
<1>1. /\ Return(x)
      /\ UNCHANGED <<child, proc, generation, stopping, manuallyStopped, incompatible, faults, overlapped>>
  BY DEF LaunchFailed, connVars, flagVars
<1>2. /\ child \in Children \cup {0} /\ requests \in SUBSET (Calls \cup Jobs)
      /\ manuallyStopped' \in BOOLEAN /\ incompatible' \in BOOLEAN /\ faults' \in 0..MaxFaults
      /\ overlapped' \in BOOLEAN /\ state \in ProcessState /\ schedulerReady \in BOOLEAN
      /\ restartTimer \in BOOLEAN /\ restartAttempt \in 0..MaxRestarts
      /\ manuallyStopped \in BOOLEAN /\ incompatible \in BOOLEAN
  BY <1>1 DEF ProcessInv, Types, TypeOK
<1>3. /\ call' \in [Calls -> CallState]
      /\ \A y \in Calls \ {x} : call'[y] = call[y]
      /\ call'[x].pc \in {"idle", "done"}
  BY <1>1, Returned DEF ProcessInv
<1>4. /\ Handed(child, requests)
      /\ \/ UNCHANGED <<state, schedulerReady>>
         \/ child = 0 /\ state' = "error" /\ ~schedulerReady' /\ schedulerReady' \in BOOLEAN
  <2>1. CASE child = 0 /\ generation <= call[x].gen + 1
    <3>1. SetStatus("error", 0, requests, job)
      BY <2>1 DEF LaunchFailed
    <3>2. state' = "error" /\ ~schedulerReady' /\ schedulerReady' \in BOOLEAN /\ Handed(0, requests)
      BY <1>2, <3>1, StatusSet DEF ProcessInv, ProcessState
    <3> QED BY <2>1, <3>2
  <2>2. CASE ~(child = 0 /\ generation <= call[x].gen + 1)
    <3>1. UNCHANGED <<state, schedulerReady>> /\ UNCHANGED reqVars
      BY <2>2 DEF LaunchFailed
    <3> QED BY <3>1, NothingHanded DEF ProcessInv
  <2> QED BY <2>1, <2>2
<1>5. /\ restartTimer' \in BOOLEAN /\ restartAttempt' \in 0..MaxRestarts
      /\ restartTimer' => restartTimer \/ (child = 0 /\ ~manuallyStopped)
  <2>1. CASE UNCHANGED timerVars
    BY <1>2, <2>1 DEF timerVars
  <2>2. CASE child = 0 /\ scheduleRecovery(manuallyStopped, incompatible)
    BY <1>2, <2>2, Rearmed DEF ProcessInv
  <2> QED BY <2>1, <2>2 DEF LaunchFailed
<1>6. Types'
  <2>1. LaunchTypes
    BY <1>1, <1>2, <1>3, <1>4 DEF ProcessInv, Types, TypeOK, LaunchTypes, Handed, ProcessState
  <2> QED BY <1>2, <1>5, <2>1, TypesKept
<1>7. CallsHaveTheirProcess' /\ Spawned' = Spawned
  BY <1>1, <1>3, <1>4, ChildStays
<1>8. ReadinessFollows'
  <2>1. \A y \in Calls : call'[y] = call[y] \/ (call[y].pc # "terminating" /\ call'[y].pc # "initializing")
    BY <1>3
  <2> QED BY <1>1, <1>4, <2>1, ReadinessStays
<1>9. StopDisarms'
  BY <1>1, <1>5, <1>7 DEF ProcessInv, StopDisarms
<1>10. OneAtATime'
  <2>1. \A y \in Calls : call[y].pc \in {"shutdown", "terminating"} => call'[y] = call[y]
    BY <1>3
  <2>2. \A y \in Calls :
          \/ call'[y] = call[y]
          \/ /\ call[y].pc \in AwaitsExit => proc[call[y].target] = "gone"
             /\ call'[y].pc \in {"idle", "done"}
    BY <1>3
  <2> QED BY <1>1, <1>4, <1>5, <2>1, <2>2, OneAtATimeStays
<1> QED BY <1>6, <1>7, <1>8, <1>9, <1>10 DEF ProcessInv

LEMMA AbandonedExitedKeeps ==
  ASSUME ProcessInv, NEW x \in Calls, AbandonedExited(x), UNCHANGED overlapped
  PROVE  ProcessInv'
BY LaunchFailedKeeps DEF AbandonedExited

(* initialize was refused: the launch drops its own child, and no other. *)
LEMMA InitializeRejectedKeeps ==
  ASSUME ProcessInv, NEW x \in Calls, InitializeRejected(x), UNCHANGED overlapped
  PROVE  ProcessInv'
<1>1. call[x].pc = "initializing" /\ UNCHANGED <<flagVars, faults, overlapped>>
  BY DEF InitializeRejected
<1>2. CASE child # call[x].own
  BY <1>1, <1>2, LaunchFailedKeeps DEF InitializeRejected, AwaitsExit
<1>3. CASE child = call[x].own
  <2>1. /\ Terminate(x, call[x].op, "abandoning")
        /\ UNCHANGED <<state, schedulerReady, timerVars>>
    BY <1>3 DEF InitializeRejected
  <2>2. /\ call \in [Calls -> CallState] /\ call[x].op \in CallOp
        /\ "abandoning" \in AwaitsExit /\ call[x].pc \notin AwaitsExit
        /\ 0 \notin Children
    BY <1>1, NumbersAssumption DEF ProcessInv, Types, CallState, AwaitsExit, Children
  <2>3. child # 0 /\ ~schedulerReady
    BY <1>1, <1>3, <2>2 DEF ProcessInv, CallsHaveTheirProcess, ReadinessFollows, Spawned
  <2>4. /\ proc' \in [Children -> ProcState] /\ child' = 0 /\ generation' \in Nat
        /\ UNCHANGED <<sentTo, job>> /\ requests' = {}
        /\ call' \in [Calls -> CallState]
        /\ CallsHaveTheirProcess' /\ ReadinessFollows' /\ Spawned' = Spawned
        /\ call'[x].pc = "abandoning"
        /\ \A y \in Calls \ {x} : call'[y] = call[y]
        /\ ClosingIsAwaited => ClosingIsAwaited'
        /\ RequestsAreToTheChild'
    BY <2>1, <2>2, <2>3, TerminateLeaves
  <2>5. UNCHANGED <<state, schedulerReady, stopping, manuallyStopped, incompatible, restartAttempt, restartTimer,
                    faults, overlapped>>
    BY <1>1, <2>1 DEF flagVars, timerVars
  <2>6. Types'
    <3>1. LaunchTypes
      BY <2>4, <2>5 DEF ProcessInv, Types, TypeOK, LaunchTypes, JobState
    <3>2. /\ manuallyStopped' \in BOOLEAN /\ incompatible' \in BOOLEAN
          /\ restartAttempt' \in 0..MaxRestarts /\ restartTimer' \in BOOLEAN /\ faults' \in 0..MaxFaults
          /\ overlapped' \in BOOLEAN
      BY <2>5 DEF ProcessInv, Types, TypeOK
    <3> QED BY <3>1, <3>2, TypesKept
  <2>7. StopDisarms'
    BY <2>4, <2>5 DEF ProcessInv, StopDisarms
  <2>8. ASSUME ~overlapped
        PROVE  OneCaller' /\ NobodyInTheWay' /\ ClosingIsAwaited' /\ StoppedHasNoChild'
    <3>1. /\ OneCaller /\ NobodyInTheWay /\ ClosingIsAwaited /\ StoppedHasNoChild
          /\ Callers \subseteq Calls
      BY <2>8 DEF ProcessInv, OneAtATime, Calls
    <3>2. OneCaller' /\ NobodyInTheWay'
      BY <1>1, <2>4, <2>5, <3>1 DEF OneCaller, InProgress, NobodyInTheWay
    <3>3. StoppedHasNoChild'
      BY <1>1, <2>3, <2>4, <2>5, <3>1 DEF StoppedHasNoChild
    <3> QED BY <2>4, <3>1, <3>2, <3>3
  <2> QED BY <2>4, <2>5, <2>6, <2>7, <2>8 DEF ProcessInv, OneAtATime
<1> QED BY <1>2, <1>3

(* The connection failed and its process is gone. *)
LEMMA FailedExitedKeeps ==
  ASSUME ProcessInv, NEW x \in Calls, FailedExited(x), UNCHANGED overlapped
  PROVE  ProcessInv'
<1>1. /\ call[x].pc = "failing" /\ proc[call[x].target] = "gone" /\ Return(x)
      /\ UNCHANGED <<child, proc, generation, state, stopping, manuallyStopped, incompatible,
                     requests, sentTo, job, schedulerReady, faults, overlapped>>
  BY DEF FailedExited, connVars, flagVars, reqVars
<1>2. /\ call' \in [Calls -> CallState]
      /\ \A y \in Calls \ {x} : call'[y] = call[y]
      /\ call'[x].pc \in {"idle", "done"}
  BY <1>1, Returned DEF ProcessInv
<1>3. /\ restartTimer' \in BOOLEAN /\ restartAttempt' \in 0..MaxRestarts
      /\ restartTimer' => restartTimer \/ (child = 0 /\ ~manuallyStopped)
  <2>1. /\ restartTimer \in BOOLEAN /\ restartAttempt \in 0..MaxRestarts
        /\ manuallyStopped \in BOOLEAN /\ incompatible \in BOOLEAN
    BY DEF ProcessInv, Types, TypeOK
  <2>2. CASE UNCHANGED timerVars
    BY <2>1, <2>2 DEF timerVars
  <2>3. CASE child = 0 /\ scheduleRecovery(manuallyStopped, incompatible)
    BY <2>1, <2>3, Rearmed DEF ProcessInv
  <2> QED BY <2>2, <2>3 DEF FailedExited
<1>4. Handed(child, requests)
  BY <1>1, NothingHanded DEF ProcessInv, reqVars
<1>5. Types'
  <2>1. LaunchTypes
    BY <1>1, <1>2 DEF ProcessInv, Types, TypeOK, LaunchTypes, JobState
  <2>2. manuallyStopped' \in BOOLEAN /\ incompatible' \in BOOLEAN /\ faults' \in 0..MaxFaults /\ overlapped' \in BOOLEAN
    BY <1>1 DEF ProcessInv, Types, TypeOK
  <2> QED BY <1>3, <2>1, <2>2, TypesKept
<1>6. CallsHaveTheirProcess' /\ Spawned' = Spawned
  BY <1>1, <1>2, <1>4, ChildStays
<1>7. ReadinessFollows'
  <2>1. \A y \in Calls : call'[y] = call[y] \/ (call[y].pc # "terminating" /\ call'[y].pc # "initializing")
    BY <1>1, <1>2
  <2> QED BY <1>1, <2>1, ReadinessStays
<1>8. StopDisarms'
  BY <1>1, <1>3, <1>6 DEF ProcessInv, StopDisarms
<1>9. OneAtATime'
  <2>1. \A y \in Calls : call[y].pc \in {"shutdown", "terminating"} => call'[y] = call[y]
    BY <1>1, <1>2
  <2>2. \A y \in Calls :
          \/ call'[y] = call[y]
          \/ /\ call[y].pc \in AwaitsExit => proc[call[y].target] = "gone"
             /\ call'[y].pc \in {"idle", "done"}
    BY <1>1, <1>2
  <2> QED BY <1>1, <1>3, <1>4, <2>1, <2>2, OneAtATimeStays
<1> QED BY <1>5, <1>6, <1>7, <1>8, <1>9 DEF ProcessInv

-----------------------------------------------------------------------------
(* Lines, exits and time-outs. *)

(* The child that answers initialize is the one this launch spawned. *)
LEMMA InitializedKeeps ==
  ASSUME ProcessInv, NEW x \in Calls, Initialized(x)
  PROVE  ProcessInv'
<1>1. /\ call[x].pc = "initializing" /\ sentTo[x] = child /\ proc[child] = "starting"
      /\ proc' = [proc EXCEPT ![child] = "up"]
      /\ restartAttempt' = 0
      /\ Return(x)
      /\ SetStatus("ready", child, requests \ {x}, job)
      /\ UNCHANGED <<child, generation, stopping, manuallyStopped, incompatible, restartTimer, faults, overlapped>>
  BY DEF Initialized, flagVars
<1>2. /\ child \in Children /\ child # 0 /\ call[x].own = child
      /\ requests \ {x} \in SUBSET (Calls \cup Jobs)
      /\ proc \in [Children -> ProcState] /\ Callers \subseteq Calls
  BY <1>1, NumbersAssumption
  DEF ProcessInv, CallsHaveTheirProcess, Spawned, Types, TypeOK, Children, Calls
<1>3. /\ call' \in [Calls -> CallState]
      /\ \A y \in Calls \ {x} : call'[y] = call[y]
      /\ call'[x].pc \in {"idle", "done"}
  BY <1>1, Returned DEF ProcessInv
<1>4. state' = "ready" /\ schedulerReady' \in BOOLEAN /\ Handed(child, requests \ {x})
  BY <1>1, <1>2, StatusSet DEF ProcessInv, ProcessState
<1>5. proc' \in [Children -> ProcState] /\ Spawned' = Spawned /\ Live' = Live
  BY <1>1, <1>2 DEF ProcState, Spawned, Live
<1>6. Types'
  <2>1. LaunchTypes
    BY <1>1, <1>2, <1>3, <1>4, <1>5 DEF ProcessInv, Types, TypeOK, LaunchTypes, Handed, ProcessState
  <2>2. restartAttempt' \in 0..MaxRestarts
    BY <1>1, NumbersAssumption
  <2>3. /\ manuallyStopped' \in BOOLEAN /\ incompatible' \in BOOLEAN /\ restartTimer' \in BOOLEAN
        /\ faults' \in 0..MaxFaults /\ overlapped' \in BOOLEAN
    BY <1>1 DEF ProcessInv, Types, TypeOK
  <2> QED BY <2>1, <2>2, <2>3, TypesKept
<1>7. CallsHaveTheirProcess'
  BY <1>1, <1>3, <1>4, <1>5 DEF ProcessInv, CallsHaveTheirProcess, AwaitsExit, Handed
<1>8. ReadinessFollows'
  <2>1. proc'[child'] = "up" /\ child' # 0
    BY <1>1, <1>2
  <2>2. \A y \in Calls : call'[y].pc = "initializing" => call'[y].own # child'
    BY <1>1, <1>2, <1>3 DEF ProcessInv, CallsHaveTheirProcess
  <2> QED BY <1>4, <2>1, <2>2 DEF ReadinessFollows
<1>9. StopDisarms'
  BY <1>1, <1>5 DEF ProcessInv, StopDisarms
<1>10. ASSUME ~overlapped
       PROVE  OneCaller' /\ NobodyInTheWay' /\ ClosingIsAwaited' /\ RequestsAreToTheChild' /\ StoppedHasNoChild'
  <2>1. OneCaller /\ NobodyInTheWay /\ ClosingIsAwaited /\ RequestsAreToTheChild /\ StoppedHasNoChild
    BY <1>10 DEF ProcessInv, OneAtATime
  <2>2. OneCaller' /\ NobodyInTheWay'
    BY <1>1, <1>2, <1>3, <2>1 DEF OneCaller, InProgress, NobodyInTheWay
  <2>3. ClosingIsAwaited'
    BY <1>1, <1>2, <1>3, <1>5, <2>1 DEF ClosingIsAwaited, AwaitsExit
  <2>4. RequestsAreToTheChild'
    BY <1>1, <1>4, <2>1 DEF RequestsAreToTheChild, Handed
  <2>5. StoppedHasNoChild'
    BY <1>1, <1>2, <1>3, <2>1 DEF StoppedHasNoChild
  <2> QED BY <2>2, <2>3, <2>4, <2>5
<1> QED BY <1>1, <1>6, <1>7, <1>8, <1>9, <1>10 DEF ProcessInv, OneAtATime

(* A request leaves the pending map: the reaction to it is still due. *)
LEMMA RequestEnds ==
  ASSUME ProcessInv, NEW x, requests' = requests \ {x},
         incompatible' \in BOOLEAN, faults' \in 0..MaxFaults,
         UNCHANGED <<connVars, state, stopping, manuallyStopped, timerVars, sentTo, job, call, schedulerReady, overlapped>>
  PROVE  ProcessInv'
<1>1. UNCHANGED <<child, proc, generation, state, stopping, manuallyStopped, restartAttempt, restartTimer,
                  sentTo, job, call, schedulerReady, overlapped>>
  BY DEF connVars, timerVars
<1>2. Types'
  <2>1. requests' \subseteq Calls \cup Jobs
    BY DEF ProcessInv, Types, TypeOK
  <2> QED BY <1>1, <2>1 DEF ProcessInv, Types, TypeOK
<1>3. Spawned' = Spawned /\ Live' = Live
  BY <1>1 DEF Spawned, Live
<1>4. CallsHaveTheirProcess' /\ ReadinessFollows' /\ StopDisarms'
  BY <1>1, <1>3 DEF ProcessInv, CallsHaveTheirProcess, ReadinessFollows, StopDisarms
<1>5. ASSUME ~overlapped
      PROVE  OneCaller' /\ NobodyInTheWay' /\ ClosingIsAwaited' /\ RequestsAreToTheChild' /\ StoppedHasNoChild'
  <2>1. OneCaller /\ NobodyInTheWay /\ ClosingIsAwaited /\ RequestsAreToTheChild /\ StoppedHasNoChild
    BY <1>5 DEF ProcessInv, OneAtATime
  <2> QED BY <1>1, <1>3, <2>1
          DEF OneCaller, InProgress, NobodyInTheWay, ClosingIsAwaited, RequestsAreToTheChild, StoppedHasNoChild
<1> QED BY <1>1, <1>2, <1>4, <1>5 DEF ProcessInv, OneAtATime

LEMMA InitializeFailsKeeps ==
  ASSUME ProcessInv, NEW x \in Calls, NEW mismatch \in BOOLEAN, InitializeFails(x, mismatch)
  PROVE  ProcessInv'
<1>1. /\ requests' = requests \ {x}
      /\ incompatible' = (incompatible \/ mismatch)
      /\ faults < MaxFaults /\ faults' = faults + 1
      /\ UNCHANGED <<connVars, state, stopping, manuallyStopped, timerVars, sentTo, job, call, schedulerReady, overlapped>>
  BY DEF InitializeFails
<1>2. incompatible' \in BOOLEAN /\ faults' \in 0..MaxFaults
  BY <1>1, NumbersAssumption DEF ProcessInv, Types, TypeOK
<1> QED BY <1>1, <1>2, RequestEnds

LEMMA ShutdownEndsKeeps ==
  ASSUME ProcessInv, NEW x \in Calls, ShutdownEnds(x)
  PROVE  ProcessInv'
<1>1. /\ requests' = requests \ {x}
      /\ UNCHANGED <<connVars, state, stopping, manuallyStopped, timerVars, sentTo, job, call, schedulerReady, overlapped>>
      /\ UNCHANGED <<incompatible, faults>>
  BY DEF ShutdownEnds, flagVars
<1>2. incompatible' \in BOOLEAN /\ faults' \in 0..MaxFaults
  BY <1>1 DEF ProcessInv, Types, TypeOK
<1> QED BY <1>1, <1>2, RequestEnds

(* agent-cli begins to close: it is not starting any more. *)
LEMMA ShutdownReceivedKeeps ==
  ASSUME ProcessInv, NEW x \in Calls, ShutdownReceived(x)
  PROVE  ProcessInv'
<1>1. /\ call[x].pc = "shutdown" /\ proc[sentTo[x]] \in {"starting", "up"}
      /\ proc' = [proc EXCEPT ![sentTo[x]] = "closing"]
      /\ UNCHANGED <<child, generation, state, stopping, manuallyStopped, incompatible, restartAttempt, restartTimer,
                     requests, sentTo, job, call, schedulerReady, faults, overlapped>>
  BY DEF ShutdownReceived, flagVars, timerVars, reqVars
<1>2. sentTo[x] \in Children /\ proc \in [Children -> ProcState]
  BY <1>1 DEF ProcessInv, CallsHaveTheirProcess, Spawned, Types, TypeOK
<1>3. proc' \in [Children -> ProcState] /\ Spawned' = Spawned /\ Live' = Live
  BY <1>1, <1>2 DEF ProcState, Spawned, Live
<1>4. Types'
  BY <1>1, <1>3 DEF ProcessInv, Types, TypeOK
<1>5. CallsHaveTheirProcess' /\ StopDisarms'
  BY <1>1, <1>3 DEF ProcessInv, CallsHaveTheirProcess, StopDisarms
<1>6. ReadinessFollows'
  BY <1>1, <1>2, <1>3 DEF ProcessInv, ReadinessFollows
<1>7. ASSUME ~overlapped
      PROVE  OneCaller' /\ NobodyInTheWay' /\ ClosingIsAwaited' /\ RequestsAreToTheChild' /\ StoppedHasNoChild'
  <2>1. OneCaller /\ NobodyInTheWay /\ ClosingIsAwaited /\ RequestsAreToTheChild /\ StoppedHasNoChild
    BY <1>7 DEF ProcessInv, OneAtATime
  <2>2. ClosingIsAwaited'
    BY <1>1, <1>2, <1>3, <2>1 DEF ClosingIsAwaited
  <2> QED BY <1>1, <2>1, <2>2
          DEF OneCaller, InProgress, NobodyInTheWay, RequestsAreToTheChild, StoppedHasNoChild
<1> QED BY <1>1, <1>4, <1>5, <1>6, <1>7 DEF ProcessInv, OneAtATime

(* A process without a connection is gone. *)
LEMMA OldProcessGoes ==
  ASSUME ProcessInv, NEW c \in Spawned \ {child}, proc' = [proc EXCEPT ![c] = "gone"], faults' \in 0..MaxFaults,
         UNCHANGED <<child, generation, state, flagVars, timerVars, reqVars, call, schedulerReady, overlapped>>
  PROVE  ProcessInv'
<1>1. UNCHANGED <<child, generation, state, stopping, manuallyStopped, incompatible, restartAttempt, restartTimer,
                  requests, sentTo, job, call, schedulerReady, overlapped>>
  BY DEF flagVars, timerVars, reqVars
<1>2. c \in Children /\ proc \in [Children -> ProcState] /\ child \in Children \cup {0}
  BY DEF ProcessInv, Spawned, Types, TypeOK
<1>3. proc' \in [Children -> ProcState] /\ Spawned' = Spawned /\ Live' = Live \ {c}
  BY <1>2 DEF ProcState, Spawned, Live
<1>4. Types'
  BY <1>1, <1>3 DEF ProcessInv, Types, TypeOK
<1>5. CallsHaveTheirProcess' /\ StopDisarms'
  BY <1>1, <1>3 DEF ProcessInv, CallsHaveTheirProcess, StopDisarms
<1>6. ReadinessFollows'
  BY <1>1, <1>2, <1>3 DEF ProcessInv, ReadinessFollows
<1>7. ASSUME ~overlapped
      PROVE  OneCaller' /\ NobodyInTheWay' /\ ClosingIsAwaited' /\ RequestsAreToTheChild' /\ StoppedHasNoChild'
  <2>1. OneCaller /\ NobodyInTheWay /\ ClosingIsAwaited /\ RequestsAreToTheChild /\ StoppedHasNoChild
    BY <1>7 DEF ProcessInv, OneAtATime
  <2>2. ClosingIsAwaited'
    BY <1>1, <1>2, <1>3, <2>1 DEF ClosingIsAwaited, Live
  <2> QED BY <1>1, <2>1, <2>2
          DEF OneCaller, InProgress, NobodyInTheWay, RequestsAreToTheChild, StoppedHasNoChild
<1> QED BY <1>1, <1>4, <1>5, <1>6, <1>7 DEF ProcessInv, OneAtATime

LEMMA KillTimeoutKeeps ==
  ASSUME ProcessInv, NEW x \in Calls, KillTimeout(x)
  PROVE  ProcessInv'
<1>1. /\ call[x].pc \in AwaitsExit
      /\ proc' = [proc EXCEPT ![call[x].target] = "gone"]
      /\ UNCHANGED <<child, generation, state, flagVars, timerVars, reqVars, call, schedulerReady, faults, overlapped>>
  BY DEF KillTimeout
<1>2. call[x].target \in Spawned \ {child} /\ faults' \in 0..MaxFaults
  BY <1>1 DEF ProcessInv, CallsHaveTheirProcess, Types, TypeOK
<1> QED BY <1>1, <1>2, OldProcessGoes

(* The exit of the current child ends what it was asked for; recovery is    *)
(* only prepared when nobody stops the Runtime.                             *)
LEMMA ExitKeeps ==
  ASSUME ProcessInv, NEW c \in Children, Exit(c)
  PROVE  ProcessInv'
<1>1. /\ c \in Live
      /\ proc' = [proc EXCEPT ![c] = "gone"]
      /\ UNCHANGED <<stopping, manuallyStopped, incompatible, call, overlapped>>
  BY DEF Exit, flagVars
<1>2. c \in Spawned /\ faults' \in 0..MaxFaults
  <2>1. faults \in 0..MaxFaults /\ MaxFaults \in Nat
    BY NumbersAssumption DEF ProcessInv, Types, TypeOK
  <2>2. faults' = faults \/ (faults < MaxFaults /\ faults' = faults + 1)
    BY DEF Exit
  <2> QED BY <1>1, <2>1, <2>2 DEF Live, Spawned
<1>3. CASE c # child
  <2>1. UNCHANGED <<child, generation, state, timerVars, reqVars, schedulerReady>>
    BY <1>3 DEF Exit
  <2>2. UNCHANGED flagVars
    BY <1>1 DEF flagVars
  <2> QED BY <1>1, <1>2, <1>3, <2>1, <2>2, OldProcessGoes
<1>4. CASE c = child
  <2> DEFINE planned == stopping \/ manuallyStopped
             status == IF planned THEN "stopped" ELSE "error"
  <2>1. /\ child' = 0
        /\ generation' = generation + 1
        /\ SetStatus(status, 0, {}, job)
        /\ IF planned THEN UNCHANGED timerVars ELSE scheduleRecovery(manuallyStopped, incompatible)
    BY <1>4 DEF Exit
  <2>2. /\ proc \in [Children -> ProcState] /\ restartTimer \in BOOLEAN /\ restartAttempt \in 0..MaxRestarts
        /\ generation \in Nat
        /\ manuallyStopped \in BOOLEAN /\ incompatible \in BOOLEAN /\ 0 \notin Children
    BY NumbersAssumption DEF ProcessInv, Types, TypeOK, Children
  <2>3. /\ restartTimer' \in BOOLEAN /\ restartAttempt' \in 0..MaxRestarts
        /\ restartTimer' => restartTimer \/ ~manuallyStopped
    <3>1. CASE UNCHANGED timerVars
      BY <2>2, <3>1 DEF timerVars
    <3>2. CASE scheduleRecovery(manuallyStopped, incompatible)
      BY <2>2, <3>2, Rearmed DEF ProcessInv
    <3> QED BY <2>1, <3>1, <3>2
  <2>4. status \in {"stopped", "error"}
    OBVIOUS
  <2> HIDE DEF status
  <2>5. state' = status /\ ~schedulerReady' /\ schedulerReady' \in BOOLEAN /\ Handed(0, {})
    BY <2>1, <2>4, StatusSet DEF ProcessInv, ProcessState
  <2>6. /\ proc' \in [Children -> ProcState] /\ generation' \in Nat
        /\ Spawned' = Spawned /\ Live' = Live \ {c}
    BY <1>1, <2>1, <2>2 DEF ProcState, Spawned, Live
  <2>7. Types'
    <3>1. LaunchTypes
      BY <1>1, <2>1, <2>4, <2>5, <2>6 DEF ProcessInv, Types, TypeOK, LaunchTypes, Handed, ProcessState
    <3>2. manuallyStopped' \in BOOLEAN /\ incompatible' \in BOOLEAN /\ overlapped' \in BOOLEAN
      BY <1>1 DEF ProcessInv, Types, TypeOK
    <3> QED BY <1>2, <2>3, <3>1, <3>2, TypesKept
  <2>8. CallsHaveTheirProcess'
    <3>1. 0 \notin Spawned
      BY <2>2 DEF Spawned
    <3> QED BY <1>1, <2>1, <2>5, <2>6, <3>1 DEF ProcessInv, CallsHaveTheirProcess, Handed
  <2>9. ReadinessFollows' /\ StopDisarms'
    BY <1>1, <2>3, <2>5, <2>6 DEF ProcessInv, ReadinessFollows, StopDisarms
  <2>10. ASSUME ~overlapped
         PROVE  OneCaller' /\ NobodyInTheWay' /\ ClosingIsAwaited' /\ RequestsAreToTheChild' /\ StoppedHasNoChild'
    <3>1. OneCaller /\ NobodyInTheWay /\ ClosingIsAwaited
      BY <2>10 DEF ProcessInv, OneAtATime
    <3>2. OneCaller' /\ NobodyInTheWay'
      BY <1>1, <2>1, <3>1 DEF OneCaller, InProgress, NobodyInTheWay
    <3>3. ClosingIsAwaited'
      BY <1>1, <1>4, <2>2, <2>6, <3>1 DEF ClosingIsAwaited, Live
    <3>4. RequestsAreToTheChild' /\ StoppedHasNoChild'
      BY <2>1, <2>4, <2>5 DEF RequestsAreToTheChild, StoppedHasNoChild, Handed
    <3> QED BY <3>2, <3>3, <3>4
  <2> QED BY <1>1, <2>7, <2>8, <2>9, <2>10 DEF ProcessInv, OneAtATime
<1> QED BY <1>3, <1>4

(* A garbled line drops the child; this internal call waits for its exit. *)
LEMMA InvalidLineKeeps ==
  ASSUME ProcessInv, NEW x \in Calls, InvalidLine(x)
  PROVE  ProcessInv'
<1>1. /\ faults < MaxFaults
      /\ x \in Internals /\ x \notin Callers /\ call[x].pc = "idle" /\ child # 0
      /\ state' = "error" /\ schedulerReady' = FALSE
      /\ child' = 0
      /\ generation' = generation + 1
      /\ proc' = [proc EXCEPT ![child] = "closing"]
      /\ requests' = {}
      /\ call' = [call EXCEPT ![x] = [pc |-> "failing", op |-> "failure", own |-> 0,
                                      gen |-> generation + 1, target |-> child]]
      /\ faults' = faults + 1
      /\ UNCHANGED <<stopping, manuallyStopped, incompatible, restartAttempt, restartTimer, sentTo, job, overlapped>>
  BY CallsAssumption DEF InvalidLine, flagVars, timerVars
<1>2. /\ call \in [Calls -> CallState] /\ proc \in [Children -> ProcState] /\ child \in Children
      /\ generation \in Nat /\ faults \in 0..MaxFaults /\ 0 \notin Children /\ Callers \subseteq Calls
  BY <1>1, NumbersAssumption DEF ProcessInv, Types, TypeOK, Children, Calls
<1>3. [pc |-> "failing", op |-> "failure", own |-> 0, gen |-> generation + 1, target |-> child] \in CallState
  BY <1>2 DEF CallState, CallPc, CallOp, AwaitsExit
<1>4. /\ call' \in [Calls -> CallState]
      /\ \A y \in Calls \ {x} : call'[y] = call[y]
      /\ call'[x].pc = "failing" /\ call'[x].target = child
  BY <1>1, <1>2, <1>3
<1>5. proc' \in [Children -> ProcState] /\ faults' \in 0..MaxFaults
  BY <1>1, <1>2, NumbersAssumption DEF ProcState
<1>6. Spawned' = Spawned /\ child \in Spawned /\ 0 \notin Spawned
  BY <1>1, <1>2 DEF ProcessInv, CallsHaveTheirProcess, Spawned, Live
<1>7. Types'
  <2>1. LaunchTypes
    <3>1. /\ state' \in ProcessState /\ schedulerReady' \in BOOLEAN
          /\ requests' \subseteq Calls \cup Jobs
      BY <1>1 DEF ProcessState
    <3>2. child' \in Children \cup {0} /\ generation' \in Nat
      BY <1>1, <1>2
    <3>3. /\ stopping' \in BOOLEAN /\ job' \in [Jobs -> JobState]
          /\ sentTo' \in [Calls \cup Jobs -> Children \cup {0}]
      BY <1>1 DEF ProcessInv, Types, TypeOK, JobState
    <3> QED BY <1>4, <1>5, <3>1, <3>2, <3>3 DEF LaunchTypes
  <2>2. /\ manuallyStopped' \in BOOLEAN /\ incompatible' \in BOOLEAN /\ overlapped' \in BOOLEAN
        /\ restartAttempt' \in 0..MaxRestarts /\ restartTimer' \in BOOLEAN
    BY <1>1 DEF ProcessInv, Types, TypeOK
  <2> QED BY <1>5, <2>1, <2>2, TypesKept
<1>8. CallsHaveTheirProcess'
  BY <1>1, <1>2, <1>4, <1>6 DEF ProcessInv, CallsHaveTheirProcess, AwaitsExit
<1>9. ReadinessFollows' /\ StopDisarms'
  BY <1>1, <1>6 DEF ProcessInv, ReadinessFollows, StopDisarms
<1>10. ASSUME ~overlapped
       PROVE  OneCaller' /\ NobodyInTheWay' /\ ClosingIsAwaited' /\ RequestsAreToTheChild' /\ StoppedHasNoChild'
  <2>1. OneCaller /\ NobodyInTheWay /\ ClosingIsAwaited
    BY <1>10 DEF ProcessInv, OneAtATime
  <2>2. OneCaller' /\ NobodyInTheWay'
    BY <1>1, <1>2, <1>4, <2>1 DEF OneCaller, InProgress, NobodyInTheWay
  <2>3. ClosingIsAwaited'
    <3>1. SUFFICES ASSUME NEW d \in Live'
                   PROVE  proc'[d] = "closing" /\ \E y \in Calls : call'[y].pc \in AwaitsExit /\ call'[y].target = d
      BY DEF ClosingIsAwaited
    <3>2. CASE d = child
      BY <1>1, <1>2, <1>4, <3>2 DEF AwaitsExit
    <3>3. CASE d # child
      <4>1. d \in Live /\ proc'[d] = proc[d]
        BY <1>1, <1>2, <3>3 DEF Live
      <4>2. PICK y \in Calls : proc[d] = "closing" /\ call[y].pc \in AwaitsExit /\ call[y].target = d
        BY <2>1, <3>3, <4>1 DEF ClosingIsAwaited
      <4>3. y # x
        BY <1>1, <4>2 DEF AwaitsExit
      <4> QED BY <1>4, <4>1, <4>2, <4>3
    <3> QED BY <3>2, <3>3
  <2>4. RequestsAreToTheChild' /\ StoppedHasNoChild'
    BY <1>1 DEF RequestsAreToTheChild, StoppedHasNoChild
  <2> QED BY <2>2, <2>3, <2>4
<1> QED BY <1>1, <1>7, <1>8, <1>9, <1>10 DEF ProcessInv, OneAtATime

-----------------------------------------------------------------------------
LEMMA InitIsSupervised == Init => ProcessInv
<1> SUFFICES ASSUME Init
             PROVE  ProcessInv
  OBVIOUS
<1>1. call \in [Calls -> CallState] /\ \A x \in Calls : call[x].pc = "idle"
  BY DEF Init, Idle, CallState, CallPc, CallOp
<1>2. Spawned = {} /\ Live = {}
  BY DEF Init, Spawned, Live
<1>3. Types
  <2>1. proc \in [Children -> ProcState] /\ state \in ProcessState
    BY DEF Init, ProcState, ProcessState
  <2>2. 0 \in 0..MaxRestarts /\ 0 \in 0..MaxFaults
    BY NumbersAssumption
  <2>3. sentTo \in [Calls \cup Jobs -> Children \cup {0}] /\ job \in [Jobs -> {"none", "queued", "running", "ended", "failed"}]
    BY DEF Init
  <2>4. \A x \in Calls :
          /\ call[x].pc \in {"idle", "draining", "stopped", "done"} \cup AwaitsResponse \cup AwaitsExit
          /\ call[x].op \in {"none", "start", "stop", "restart", "recovery", "failure"}
          /\ {call[x].own, call[x].target} \subseteq Children \cup {0}
    BY <1>1 DEF CallState, CallPc, CallOp
  <2> QED BY <1>1, <2>1, <2>2, <2>3, <2>4 DEF Types, TypeOK, Init
<1>4. CallsHaveTheirProcess /\ ReadinessFollows /\ StopDisarms
  BY <1>1, <1>2 DEF Init, CallsHaveTheirProcess, ReadinessFollows, StopDisarms, AwaitsExit
<1>5. OneAtATime
  <2>1. Callers \subseteq Calls
    BY DEF Calls
  <2> QED BY <1>1, <1>2, <2>1
          DEF Init, OneAtATime, OneCaller, InProgress, NobodyInTheWay, ClosingIsAwaited, RequestsAreToTheChild,
              StoppedHasNoChild
<1> QED BY <1>3, <1>4, <1>5 DEF ProcessInv

LEMMA StepKeepsSupervision == ProcessInv /\ [Next]_vars => ProcessInv'
<1> SUFFICES ASSUME ProcessInv, [Next]_vars
             PROVE  ProcessInv'
  OBVIOUS
<1>1. Callers \subseteq Calls
  BY DEF Calls
<1>2. CASE Reaction
  <2>1. UNCHANGED overlapped
    BY <1>2 DEF Reaction
  <2>2. CASE \E x \in Calls :
               \/ RunsSettled(x) \/ ShutdownSettled(x) \/ StopTerminated(x) \/ StopReturned(x)
               \/ ReplacedExited(x) \/ InitializeRejected(x) \/ AbandonedExited(x) \/ FailedExited(x)
    BY <2>1, <2>2, RunsSettledKeeps, ShutdownSettledKeeps, StopTerminatedKeeps, StopReturnedKeeps,
       ReplacedExitedKeeps, InitializeRejectedKeeps, AbandonedExitedKeeps, FailedExitedKeeps
  <2>3. CASE \E j \in Jobs : RunRejected(j)
    BY <2>1, <2>3, RunRejectedKeeps
  <2> QED BY <1>2, <2>2, <2>3 DEF Reaction
<1>3. CASE Event
  <2>1. CASE \E x \in Callers : start(x) \/ restart(x) \/ stop(x)
    BY <1>1, <2>1, startKeeps, restartKeeps, stopKeeps
  <2>2. CASE \E x \in Calls :
               \/ Initialized(x)
               \/ \E mismatch \in BOOLEAN : InitializeFails(x, mismatch)
               \/ ShutdownReceived(x) \/ ShutdownEnds(x) \/ KillTimeout(x)
               \/ InvalidLine(x) \/ RecoveryTimer(x)
    BY <2>2, InitializedKeeps, InitializeFailsKeeps, ShutdownReceivedKeeps, ShutdownEndsKeeps, KillTimeoutKeeps,
       InvalidLineKeeps, RecoveryTimerKeeps
  <2>3. CASE \E j \in Jobs : enqueue(j) \/ \E result \in {"ended", "failed"} : RunAnswered(j, result)
    BY <2>3, enqueueKeeps, RunAnsweredKeeps
  <2>4. CASE \E c \in Children : Exit(c)
    BY <2>4, ExitKeeps
  <2> QED BY <1>3, <2>1, <2>2, <2>3, <2>4 DEF Event
<1>4. CASE UNCHANGED vars
  <2>1. UNCHANGED <<child, proc, generation, state, stopping, manuallyStopped, incompatible, restartAttempt,
                    restartTimer, requests, sentTo, job, call, schedulerReady, faults, overlapped>>
    BY <1>4 DEF vars, connVars, flagVars, timerVars, reqVars
  <2>2. Spawned' = Spawned /\ Live' = Live
    BY <2>1 DEF Spawned, Live
  <2>3. Types' /\ CallsHaveTheirProcess' /\ ReadinessFollows' /\ StopDisarms'
    BY <2>1, <2>2 DEF ProcessInv, Types, TypeOK, CallsHaveTheirProcess, ReadinessFollows, StopDisarms
  <2>4. OneAtATime'
    BY <2>1, <2>2
    DEF ProcessInv, OneAtATime, OneCaller, InProgress, NobodyInTheWay, ClosingIsAwaited, RequestsAreToTheChild,
        StoppedHasNoChild
  <2> QED BY <2>3, <2>4 DEF ProcessInv
<1> QED BY <1>2, <1>3, <1>4 DEF Next

(* The inductive invariant of the supervision, for every number of calls,   *)
(* faults, launches and turns: calls have the process they wait for,        *)
(* readiness follows the child, a stop disarms recovery, and, while calls   *)
(* come one after the other, nothing is in anybody's way.                   *)
THEOREM ProcessInvariant == Spec => []ProcessInv
BY InitIsSupervised, StepKeepsSupervision, PTL DEF Spec

(* Every variable keeps its type: a call never waits for a process that was *)
(* not spawned, and the counters keep to their bounds.                      *)
THEOREM ProcessTypeCorrect == Spec => []TypeOK
<1>1. ProcessInv => TypeOK
  BY DEF ProcessInv, Types
<1> QED BY ProcessInvariant, <1>1, PTL

(* As long as calls of start(), stop() and restart() come one after the     *)
(* other, no process but the current child is left without SIGTERM, and no  *)
(* request waits on a connection that is not read any more, whatever fails, *)
(* exits or times out meanwhile.                                            *)
THEOREM NothingIsLeftBehind == Spec => []NothingLeftBehind
<1>1. ProcessInv => NothingLeftBehind
  BY DEF ProcessInv, OneAtATime, ClosingIsAwaited, RequestsAreToTheChild, NothingLeftBehind
<1> QED BY ProcessInvariant, <1>1, PTL

(* The scheduler believes in a ready Runtime only for a child that answered *)
(* initialize, or while a stop waits for its exit; also when calls overlap. *)
THEOREM ReadinessIsTruthful == Spec => []ReadyIsTruthful
<1>1. ProcessInv => ReadyIsTruthful
  BY DEF ProcessInv, ReadinessFollows, ReadyIsTruthful
<1> QED BY ProcessInvariant, <1>1, PTL

(* After a stop with which no other call overlapped, nothing runs, nothing  *)
(* will start and the status says so.                                       *)
THEOREM AStopIsFinal == Spec => []StopIsFinal
<1>1. ASSUME ProcessInv
      PROVE  StopIsFinal
  <2>1. SUFFICES ASSUME ~overlapped, manuallyStopped, Quiet, \A x \in Calls : ~InProgress(x)
                 PROVE  Live = {} /\ ~restartTimer /\ ~schedulerReady /\ state \in {"stopped", "error"}
    BY DEF StopIsFinal
  <2>2. ClosingIsAwaited /\ StoppedHasNoChild /\ ~restartTimer /\ Callers \subseteq Calls
    BY <2>1, <1>1 DEF ProcessInv, OneAtATime, StopDisarms, Calls
  <2>3. child = 0 /\ state \in {"stopped", "error"} /\ ~schedulerReady
    BY <2>1, <2>2 DEF StoppedHasNoChild, InProgress
  <2>4. \A x \in Calls : call[x].pc \notin AwaitsExit
    BY <2>1 DEF InProgress, AwaitsExit
  <2>5. Live = {}
    BY <2>2, <2>3, <2>4, NumbersAssumption DEF ClosingIsAwaited, Live, Children
  <2> QED BY <2>2, <2>3, <2>5
<1> QED BY ProcessInvariant, <1>1, PTL
===============================================================================
