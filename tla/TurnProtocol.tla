---------------------------- MODULE TurnProtocol ----------------------------
(***************************************************************************)
(* One session's messages on their way through the gateway (router,        *)
(* scheduler, ProcessAgentRuntime) and agent-cli (AgentProtocolServer,     *)
(* AgentRunHandle).  A message is steered into the active run or queued as *)
(* a job of its own; /stop clears the queue and cancels the active run;    *)
(* steering a run did not consume comes back with its outcome.  The two    *)
(* processes exchange lines over two pipes.  The gateway reads a chunk of  *)
(* lines at a time and then runs the promise reactions they resolved, in   *)
(* an order that depends on the lengths of the promise chains; the next    *)
(* event waits for them (Quiet).                                           *)
(***************************************************************************)
EXTENDS Integers, Sequences, FiniteSets

CONSTANTS Messages,   \* messages of the user
          MaxStops,   \* bound: /stop commands
          Faults      \* what may go wrong, once: "throw", "crash", "timeout"

ASSUME StopsAssumption == MaxStops \in Nat
ASSUME FaultsAssumption == Faults \subseteq {"throw", "crash", "timeout"}
ASSUME MessagesAssumption == IsFiniteSet(Messages)

(* A message is the origin of at most one run: the job of its own, or the    *)
(* one its steering is requeued in.  One run more shows if that were false.  *)
Runs == 1..(Cardinality(Messages) + 1)

VARIABLES
  queue,            \* scheduler: pending jobs, each with its messages and
                    \* the run whose left-over steering it is made of (or 0)
  active,           \* scheduler: the active run, 0 if none
  origin,           \* run -> the job it was started with
  lastRun,          \* number of runs started
  cancelRequest,    \* cancelTurn() calls pending: [run, stop that asked]
  cancelRequested,  \* runs whose cancellation was accepted
  route,            \* message -> how far routeMessage() is
  stops,            \* number of /stop commands so far
  up,               \* agent-cli is connected and ready
  toAgent, toGateway, \* the pipes
  due,              \* lines read whose promise reactions have not run yet
  agentRun,         \* agent-cli: run -> its handle and how far its turn is
  aborting,         \* agent-cli: cancel_turn calls waiting in handle.abort()
  consumed,         \* message -> number of turns that took it in
  faults            \* the faults that happened

schedulerVars == <<queue, active, origin, lastRun>>
cancelVars == <<cancelRequest, cancelRequested>>
gatewayVars == <<schedulerVars, cancelVars, route, stops>>
agentVars == <<agentRun, aborting>>
vars == <<gatewayVars, up, toAgent, toGateway, due, agentVars, consumed, faults>>

NoJob == [messages |-> {}, from |-> 0]
Status == {"completed", "error", "cancelled"}
(* phase of a turn in agent-cli: in the engine, publishing its outcome, over *)
Absent == [phase |-> "none", aborted |-> FALSE, steering |-> {}, status |-> "none"]

Init ==
  /\ queue = <<>> /\ active = 0 /\ lastRun = 0
  /\ origin = [r \in Runs |-> NoJob]
  /\ cancelRequest = {} /\ cancelRequested = {}
  /\ route = [m \in Messages |-> "new"]
  /\ stops = 0
  /\ up = TRUE
  /\ toAgent = <<>> /\ toGateway = <<>> /\ due = {}
  /\ agentRun = [r \in Runs |-> Absent] /\ aborting = {}
  /\ consumed = [m \in Messages |-> 0]
  /\ faults = {}

Quiet == due = {}

-----------------------------------------------------------------------------
(* The scheduler, for this session. *)

(* drain(): start the first job when nothing runs and the Runtime is up. *)
Drain(jobs, act, out, ready) ==
  IF act = 0 /\ jobs # <<>> /\ ready
  THEN /\ queue' = Tail(jobs)
       /\ lastRun' = lastRun + 1
       /\ active' = lastRun + 1
       /\ origin' = [origin EXCEPT ![lastRun + 1] = Head(jobs)]
       /\ toAgent' = Append(out, [kind |-> "run_turn", run |-> lastRun + 1])
  ELSE queue' = jobs /\ active' = act /\ toAgent' = out /\ UNCHANGED <<origin, lastRun>>

enqueue(m) == Drain(Append(queue, [messages |-> {m}, from |-> 0]), active, toAgent, up)

(* requeueRemainingSteering(), in one job at the head of the queue. *)
Requeued(r, steering) ==
  IF steering = {} THEN queue ELSE <<[messages |-> steering, from |-> r]>> \o queue

(* handleRuntimeEvent() for the completion of the active run: a cancelled   *)
(* run drops its steering.                                                  *)
Cancelled(r, status) == status = "cancelled" \/ r \in cancelRequested
Complete(r, status, steering) ==
  IF Cancelled(r, status)
  THEN /\ route' = [m \in Messages |-> IF m \in steering THEN "dropped" ELSE route[m]]
       /\ Drain(queue, 0, toAgent, up)
  ELSE /\ UNCHANGED route
       /\ Drain(Requeued(r, steering), 0, toAgent, up)

-----------------------------------------------------------------------------
(* Events at the gateway. *)

(* routeMessage(): steer the active run unless a cancellation of it is under *)
(* way; otherwise, or when the session does not steer, queue a job.          *)
Cancelling == {c.run : c \in cancelRequest}
Steerable(r) == r # 0 /\ r \notin cancelRequested \cup Cancelling
routeMessage(m, steering) ==
  /\ Quiet /\ route[m] = "new"
  /\ IF steering /\ Steerable(active)
     THEN /\ route' = [route EXCEPT ![m] = "steering"]
          /\ toAgent' = Append(toAgent, [kind |-> "steer_turn", run |-> active, message |-> m])
          /\ UNCHANGED schedulerVars
     ELSE /\ route' = [route EXCEPT ![m] = "queued"]
          /\ enqueue(m)
  /\ UNCHANGED <<cancelVars, stops, up, toGateway, due, agentVars, consumed, faults>>

(* handleStop(): clear the queue, then cancel the active run. *)
handleStop ==
  LET cleared == UNION {queue[i].messages : i \in 1..Len(queue)}
  IN /\ Quiet /\ stops < MaxStops
     /\ stops' = stops + 1
     /\ queue' = <<>>
     /\ route' = [m \in Messages |-> IF m \in cleared THEN "dropped" ELSE route[m]]
     /\ IF Steerable(active)
        THEN /\ cancelRequest' = cancelRequest \cup {[run |-> active, stop |-> stops + 1]}
             /\ toAgent' = Append(toAgent,
                  [kind |-> "cancel_turn", run |-> active, stop |-> stops + 1])
        ELSE UNCHANGED <<cancelRequest, toAgent>>
     /\ UNCHANGED <<active, origin, lastRun, cancelRequested, up, toGateway, due,
                    agentVars, consumed, faults>>

(* A chunk of n lines arrives. *)
readLines(n) ==
  /\ Quiet /\ n \in 1..Len(toGateway)
  /\ due' = {toGateway[i] : i \in 1..n}
  /\ toGateway' = SubSeq(toGateway, n + 1, Len(toGateway))
  /\ UNCHANGED <<gatewayVars, up, toAgent, agentVars, consumed, faults>>

CancelAnswer(c, ok) == [kind |-> "cancel_turn", run |-> c.run, stop |-> c.stop, ok |-> ok]

(* A request is given up: cancel_turn after 5 s, steer_turn after 30 s.  A  *)
(* response that arrives later finds no pending request.                    *)
requestTimesOut ==
  /\ Quiet /\ "timeout" \in Faults \ faults
  /\ \/ \E c \in cancelRequest : due' = {CancelAnswer(c, "error")}
     \/ \E m \in Messages : /\ route[m] = "steering"
                            /\ due' = {[kind |-> "steer_turn", message |-> m, ok |-> "error"]}
  /\ faults' = faults \cup {"timeout"}
  /\ UNCHANGED <<gatewayVars, up, toAgent, toGateway, agentVars, consumed>>

-----------------------------------------------------------------------------
(* Promise reactions at the gateway. *)

runTurnSettles(line) ==
  /\ line \in due /\ line.kind = "run_turn"
  /\ due' = due \ {line}
  /\ IF line.run = active
     THEN Complete(line.run, line.status, line.steering)
     ELSE UNCHANGED <<schedulerVars, toAgent, route>>
  /\ UNCHANGED <<cancelVars, stops, up, toGateway, agentVars, consumed, faults>>

(* cancelTurn() settles: the stop is accepted, refused (no such run) or     *)
(* failed.                                                                  *)
cancelSettles(line) ==
  /\ line \in due /\ line.kind = "cancel_turn"
  /\ due' = due \ {line}
  /\ LET request == [run |-> line.run, stop |-> line.stop]
     IN /\ cancelRequest' = cancelRequest \ {request}
        /\ cancelRequested' = IF line.ok = "yes" /\ request \in cancelRequest
                              THEN cancelRequested \cup {line.run} ELSE cancelRequested
  /\ UNCHANGED <<schedulerVars, route, stops, up, toAgent, toGateway, agentVars,
                 consumed, faults>>

RefusedOrFailed(line) == line.ok # "yes"                            \* mutant
Refused(line) == line.ok = "no"

(* steerTurn() settles: accepted, or queued as an ordinary message because  *)
(* the run is gone, or failed.                                              *)
steerSettles(line) ==
  /\ line \in due /\ line.kind = "steer_turn"
  /\ due' = due \ {line}
  /\ LET m == line.message
     IN \/ /\ route[m] = "steering" /\ Refused(line)
           /\ route' = [route EXCEPT ![m] = "queued"]
           /\ enqueue(m)
        \/ /\ route[m] = "steering" /\ ~Refused(line)
           /\ route' = [route EXCEPT ![m] = IF line.ok = "yes" THEN "accepted" ELSE "failed"]
           /\ UNCHANGED <<schedulerVars, toAgent>>
        \/ /\ route[m] # "steering"
           /\ UNCHANGED <<schedulerVars, route, toAgent>>
  /\ UNCHANGED <<cancelVars, stops, up, toGateway, agentVars, consumed, faults>>

Reaction == \E line \in due : runTurnSettles(line) \/ cancelSettles(line) \/ steerSettles(line)

-----------------------------------------------------------------------------
(* agent-cli.  It dispatches the lines in order; a handler's answer is       *)
(* written when it is done, so the answer of run_turn comes much later.      *)

InEngine(r) == agentRun[r].phase = "engine"
activeRuns == {r \in Runs : agentRun[r].phase \in {"engine", "publishing"}}

Consume(messages) ==
  consumed' = [m \in Messages |-> IF m \in messages THEN consumed[m] + 1 ELSE consumed[m]]

acceptRunTurn(line) ==
  /\ line.kind = "run_turn"
  /\ agentRun' = [agentRun EXCEPT ![line.run] = [Absent EXCEPT !.phase = "engine"]]
  /\ Consume(origin[line.run].messages)
  /\ UNCHANGED <<toGateway, aborting>>

SteersAnyRun(r) == TRUE                                            \* mutant
TakesSteering(r) == r \in activeRuns /\ ~agentRun[r].aborted
acceptSteerTurn(line) ==
  /\ line.kind = "steer_turn"
  /\ IF TakesSteering(line.run)
     THEN agentRun' = [agentRun EXCEPT ![line.run].steering = @ \cup {line.message}]
     ELSE UNCHANGED agentRun
  /\ toGateway' = Append(toGateway, [kind |-> "steer_turn", message |-> line.message,
                       ok |-> IF TakesSteering(line.run) THEN "yes" ELSE "no"])
  /\ UNCHANGED <<consumed, aborting>>

(* The signal is raised at once; the answer waits for the run's processes.  *)
acceptCancelTurn(line) ==
  /\ line.kind = "cancel_turn"
  /\ IF line.run \in activeRuns
     THEN /\ agentRun' = [agentRun EXCEPT ![line.run].aborted = TRUE]
          /\ aborting' = aborting \cup {[run |-> line.run, stop |-> line.stop]}
          /\ UNCHANGED toGateway
     ELSE /\ toGateway' = Append(toGateway, CancelAnswer(line, "no"))
          /\ UNCHANGED agentVars
  /\ UNCHANGED consumed

abortEnds(c) ==
  /\ c \in aborting
  /\ aborting' = aborting \ {c}
  /\ toGateway' = Append(toGateway, CancelAnswer(c, "yes"))
  /\ UNCHANGED <<gatewayVars, up, toAgent, due, agentRun, consumed, faults>>

accept ==
  /\ up /\ toAgent # <<>>
  /\ LET line == Head(toAgent)
     IN acceptRunTurn(line) \/ acceptSteerTurn(line) \/ acceptCancelTurn(line)
  /\ toAgent' = Tail(toAgent)
  /\ UNCHANGED <<gatewayVars, up, due, faults>>

(* The engine takes steering in before a model call or a tool call. *)
LeftAfterDrain(r) == {}
takeSteering(r) ==
  /\ InEngine(r) /\ agentRun[r].steering # {}
  /\ Consume(agentRun[r].steering)
  /\ agentRun' = [agentRun EXCEPT ![r].steering = LeftAfterDrain(r)]
  /\ UNCHANGED <<gatewayVars, up, toAgent, toGateway, due, aborting, faults>>

(* The engine returns.  An abort that came after its last look leaves the   *)
(* status as it is.                                                         *)
turnEnds(r, status) ==
  /\ InEngine(r)
  /\ status = "cancelled" => agentRun[r].aborted
  /\ agentRun' = [agentRun EXCEPT ![r].phase = "publishing", ![r].status = status]
  /\ UNCHANGED <<gatewayVars, up, toAgent, toGateway, due, aborting, consumed, faults>>

(* The engine throws, as it does when the session or its workspace is not   *)
(* available: the answer is an error without the steering.                  *)
turnThrows(r) ==
  /\ "throw" \in Faults \ faults
  /\ InEngine(r)
  /\ agentRun' = [agentRun EXCEPT ![r].phase = "publishing", ![r].status = "thrown"]
  /\ faults' = faults \cup {"throw"}
  /\ UNCHANGED <<gatewayVars, up, toAgent, toGateway, due, aborting, consumed>>

(* The outcome is published: the run leaves activeRuns and is answered with *)
(* what is left in its handle, an error with nothing.                       *)
ForgetsSteering(r) == {}                                           \* mutant
remainingSteering(r) == IF agentRun[r].status = "thrown" THEN {} ELSE agentRun[r].steering
Outcome(r) == IF agentRun[r].status = "thrown" THEN "error" ELSE agentRun[r].status
StaysActive(r) == agentRun[r]                                      \* mutant
Left(r) == [Absent EXCEPT !.phase = "over"]
answerRunTurn(r) ==
  /\ agentRun[r].phase = "publishing"
  /\ toGateway' = Append(toGateway, [kind |-> "run_turn", run |-> r, status |-> Outcome(r),
                                     steering |-> remainingSteering(r)])
  /\ agentRun' = [agentRun EXCEPT ![r] = Left(r)]
  /\ UNCHANGED <<gatewayVars, up, toAgent, due, aborting, consumed, faults>>

(* agent-cli dies: everything under way is gone and every pending request   *)
(* is rejected.                                                             *)
crash ==
  /\ Quiet /\ up /\ "crash" \in Faults \ faults
  /\ faults' = faults \cup {"crash"}
  /\ up' = FALSE
  /\ toAgent' = <<>> /\ toGateway' = <<>> /\ aborting' = {}
  /\ agentRun' = [r \in Runs |-> IF r \in activeRuns THEN [Absent EXCEPT !.phase = "over"]
                                                     ELSE agentRun[r]]
  /\ due' = {[kind |-> "run_turn", run |-> r, status |-> "error", steering |-> {}] :
                r \in {active} \ {0}}
        \cup {CancelAnswer(c, "error") : c \in cancelRequest}
        \cup {[kind |-> "steer_turn", message |-> m, ok |-> "error"] :
                m \in {n \in Messages : route[n] = "steering"}}
  /\ UNCHANGED <<gatewayVars, consumed>>

(* The supervision has started it again: the scheduler drains. *)
recover ==
  /\ Quiet /\ ~up
  /\ up' = TRUE
  /\ Drain(queue, active, toAgent, TRUE)
  /\ UNCHANGED <<cancelVars, route, stops, toGateway, due, agentVars, consumed, faults>>

Agent == \/ accept
         \/ \E c \in aborting : abortEnds(c)
         \/ \E r \in Runs : \/ takeSteering(r) \/ turnThrows(r) \/ answerRunTurn(r)
                            \/ \E status \in Status : turnEnds(r, status)
Gateway == \/ \E m \in Messages, steering \in BOOLEAN : routeMessage(m, steering)
           \/ handleStop
           \/ \E n \in 1..Len(toGateway) : readLines(n)
           \/ requestTimesOut \/ crash \/ recover

Next == Agent \/ Gateway \/ Reaction

Spec == Init /\ [][Next]_vars

(* Lines are read, reactions run, turns end and agent-cli is started again. *)
FairSpec ==
  /\ Spec
  /\ WF_vars(Reaction) /\ WF_vars(\E n \in 1..Len(toGateway) : readLines(n))
  /\ WF_vars(accept) /\ WF_vars(recover)
  /\ \A r \in Runs : /\ WF_vars(\E status \in Status : turnEnds(r, status))
                     /\ WF_vars(answerRunTurn(r))

-----------------------------------------------------------------------------
Job == [messages : SUBSET Messages, from : Runs \cup {0}]
Answer == [kind : {"run_turn"}, run : Runs, status : Status, steering : SUBSET Messages]
     \cup [kind : {"cancel_turn"}, run : Runs, stop : 1..MaxStops, ok : {"yes", "no", "error"}]
     \cup [kind : {"steer_turn"}, message : Messages, ok : {"yes", "no", "error"}]
Cancel == [run : Runs, stop : 1..MaxStops]

(* Every variable has its type; what agent-cli answers is one of the        *)
(* outcomes the gateway knows.                                              *)
TypeOK ==
  /\ queue \in Seq(Job) /\ active \in Runs \cup {0} /\ lastRun \in Runs \cup {0}
  /\ origin \in [Runs -> Job]
  /\ cancelRequest \subseteq Cancel /\ cancelRequested \subseteq Runs
  /\ route \in [Messages -> {"new", "steering", "queued", "accepted", "failed", "dropped"}]
  /\ stops \in 0..MaxStops /\ up \in BOOLEAN
  /\ \A i \in 1..Len(toGateway) : toGateway[i] \in Answer
  /\ due \subseteq Answer
  /\ agentRun \in [Runs -> [phase : {"none", "engine", "publishing", "over"},
                            aborted : BOOLEAN, steering : SUBSET Messages,
                            status : Status \cup {"none", "thrown"}]]
  /\ aborting \subseteq Cancel
  /\ consumed \in [Messages -> Nat]
  /\ faults \subseteq Faults

(* The places a message can wait in between the user and the engine. *)
OnItsWay(m) ==
  Cardinality({i \in 1..Len(queue) : m \in queue[i].messages})
  + Cardinality({i \in 1..Len(toAgent) :
      \/ toAgent[i].kind = "run_turn" /\ m \in origin[toAgent[i].run].messages
      \/ toAgent[i].kind = "steer_turn" /\ toAgent[i].message = m})
  + Cardinality({r \in activeRuns : m \in agentRun[r].steering})
  + Cardinality({i \in 1..Len(toGateway) :
      toGateway[i].kind = "run_turn" /\ m \in toGateway[i].steering})
  + Cardinality({line \in due : line.kind = "run_turn" /\ m \in line.steering})

(* A message the user was told is queued or inserted is taken in by one      *)
(* turn or still waits in exactly one place, across the two processes: it    *)
(* is neither lost nor answered twice, unless a stop dropped it.  Turns that *)
(* throw and processes that die lose what they hold.                         *)
EachMessageOnce ==
  faults \subseteq {"timeout"} => \A m \in Messages : route[m] \in {"queued", "accepted"} => consumed[m] + OnItsWay(m) = 1

(* No message is taken in by two turns, whatever fails: a steer_turn that    *)
(* timed out, was refused or was requeued is not processed again.            *)
NeverTwice == \A m \in Messages : consumed[m] <= 1

(* A session has at most one turn under way in agent-cli, also while its     *)
(* outcome is being published, cancelled or lost in a crash: the scheduler's *)
(* slot covers the whole turn of the other process.                          *)
OneTurnInAgent == Cardinality(activeRuns) <= 1

(* Every message the user sends ends in a turn, is dropped by a stop or is   *)
(* reported as failed, or is lost with a turn that throws or a process that  *)
(* dies: none waits for ever in a handle or in the queue.                    *)
MessagesSettle ==
  \A m \in Messages : route[m] # "new" ~>
    \/ consumed[m] = 1 \/ route[m] \in {"dropped", "failed"}
    \/ /\ faults \cap {"throw", "crash"} # {}
       /\ route[m] \in {"queued", "accepted"} /\ OnItsWay(m) = 0

(* What the documentation says of a stop: "a cancelled run drops its         *)
(* remaining steering, so that nothing continues by itself after the user    *)
(* stopped it".                                                              *)
StoppedRunsLeaveNothing ==
  /\ \A i \in 1..Len(queue) : queue[i].from \notin cancelRequested
  /\ active # 0 => origin[active].from \notin cancelRequested

(* What the documentation says of steering: "steering must not be lost".     *)
SteeringNeverLost ==
  \A m \in Messages : route[m] = "accepted" => consumed[m] + OnItsWay(m) >= 1
=============================================================================
