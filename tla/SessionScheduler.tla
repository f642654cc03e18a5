-------------------------- MODULE SessionScheduler --------------------------
(***************************************************************************)
(* The gateway's SessionScheduler (orchestration/scheduler.ts): one FIFO   *)
(* queue of jobs per session, a queue of sessions that are ready to run,   *)
(* at most one active run per session and at most MaxConcurrency runs in   *)
(* all.  JavaScript runs each method to its end without interleaving, so   *)
(* one action is one method call, the trailing markReady() and drain()     *)
(* included.  The Runtime behind the RuntimePort is the environment: it    *)
(* executes the turns it was started with and reports completions, which   *)
(* may be stale or carry the wrong session or job.                         *)
(***************************************************************************)
EXTENDS Integers, Sequences, FiniteSets

CONSTANTS Sessions,       \* session ids
          SessionKeys,    \* session keys (platform addresses) a fence may cover
          Jobs,           \* job ids; a run has the id of its job
          Leases,         \* calls of beginSessionDeletion that may succeed
          MaxConcurrency, \* the maxConcurrency option
          FrontOptions,   \* values of enqueue's `front' callers pass
          NoJob, NoSession

ASSUME ConcurrencyAssumption == MaxConcurrency \in Nat \ {0}
ASSUME SessionsAssumption == IsFiniteSet(Sessions)
ASSUME FrontAssumption == FrontOptions \subseteq BOOLEAN
ASSUME NullAssumption == NoJob \notin Jobs /\ NoSession \notin Sessions

VARIABLES
  pending,          \* pending: session -> its queue of jobs
  ready,            \* ready: queue of sessions waiting for a slot
  readySet,         \* readySet: the sessions markReady() has put into ready
  activeBySession,  \* activeBySession: session -> the run that holds it
  activeByRun,      \* activeByRun: the runs completions are matched with
  cancelRequest,    \* runs whose handle.cancelRequest promise is pending
  cancelRequested,  \* runs whose handle.cancelRequested is true
  sessionFences,    \* sessionDeletionFences
  keyFences,        \* sessionKeyDeletionFences
  lease,            \* the closures beginSessionDeletion has returned
  runtimeReady,     \* runtimeReady
  jobSession,       \* job -> job.session_id, NoSession before the job exists
  published,        \* job -> last state told to onJobState, "none" at first
  executing         \* the Runtime's side: runs it is executing

queueVars  == <<pending, ready, readySet>>
activeVars == <<activeBySession, activeByRun>>
cancelVars == <<cancelRequest, cancelRequested>>
fenceVars  == <<sessionFences, keyFences, lease>>
vars == <<queueVars, activeVars, cancelVars, fenceVars, runtimeReady,
          jobSession, published, executing>>

JobState == {"none", "queued", "running", "completed", "cancelled", "error", "cleared"}
CompletionStatus == {"completed", "cancelled", "failed"}
Lease == [state : {"unused", "held", "released"},
          session : Sessions \cup {NoSession}, keys : SUBSET SessionKeys]

(* Completion events as the RuntimePort may deliver them: a payload may    *)
(* omit the job, or name a session or a job that is not the run's own.     *)
Completion == [run : Jobs, session : Sessions, job : Jobs \cup {NoJob},
               status : CompletionStatus, remainingSteering : BOOLEAN]

UnusedLease == [state |-> "unused", session |-> NoSession, keys |-> {}]

Members(q) == {q[i] : i \in 1..Len(q)}

Init ==
  /\ pending = [s \in Sessions |-> <<>>]
  /\ ready = <<>>
  /\ readySet = {}
  /\ activeBySession = [s \in Sessions |-> NoJob]
  /\ activeByRun = {}
  /\ cancelRequest = {}
  /\ cancelRequested = {}
  /\ sessionFences = {}
  /\ keyFences = {}
  /\ lease = [l \in Leases |-> UnusedLease]
  /\ runtimeReady = TRUE
  /\ jobSession = [j \in Jobs |-> NoSession]
  /\ published = [j \in Jobs |-> "none"]
  /\ executing = {}

-----------------------------------------------------------------------------
(* Queries and helpers.  The helpers take the value a map has at the point *)
(* of the handler where the code calls them.                               *)

Busy(active) == {s \in Sessions : active[s] # NoJob}

hasInflightWork(s) == activeBySession[s] # NoJob \/ pending[s] # <<>>

Fresh(j) == jobSession[j] = NoSession

(* Where enqueue() puts a job. *)
PlacedFirst(q, j, front) == <<j>> \o q                             \* mutant
Placed(q, j, front) == IF front THEN <<j>> \o q ELSE Append(q, j)

(* markReady(): a session enters ready once, when it has work and no run. *)
MarkReadyTwice(s, rdy, rset, pend, active) ==                      \* mutant
  IF active[s] # NoJob \/ pend[s] = <<>>
  THEN [ready |-> rdy, set |-> rset]
  ELSE [ready |-> Append(rdy, s), set |-> rset \cup {s}]
markReady(s, rdy, rset, pend, active) ==
  IF active[s] # NoJob \/ s \in rset \/ pend[s] = <<>>
  THEN [ready |-> rdy, set |-> rset]
  ELSE [ready |-> Append(rdy, s), set |-> rset \cup {s}]

(* The sessions among the first k of rdy that drain() starts a run for:    *)
(* one that is active or has no job is shifted out and skipped.            *)
Dispatched(k, rdy, pend, active) ==
  {s \in Sessions : /\ \E i \in 1..k : rdy[i] = s
                    /\ active[s] = NoJob
                    /\ pend[s] # <<>>}

(* The loop condition of drain() fails after k shifts. *)
LoopEndsLate(k, rdy, pend, active) ==                              \* mutant
  \/ Cardinality(Busy(active) \cup Dispatched(k, rdy, pend, active)) > MaxConcurrency
  \/ k = Len(rdy)
LoopEnds(k, rdy, pend, active) ==
  \/ Cardinality(Busy(active) \cup Dispatched(k, rdy, pend, active)) >= MaxConcurrency
  \/ k = Len(rdy)

(* drain(): nothing while the Runtime is not ready; otherwise shift ready  *)
(* and start runs until the slots or the sessions are used up.  `runs',    *)
(* `pub' and `exec' are activeByRun, the published states and the          *)
(* Runtime's runs before the call.                                         *)
drain(isReady, rdy, rset, pend, active, runs, pub, exec) ==
  \E k \in 0..Len(rdy) :
    LET started == Dispatched(k, rdy, pend, active)
        firsts  == {Head(pend[s]) : s \in started}
    IN /\ IF isReady
          THEN /\ LoopEnds(k, rdy, pend, active)
               /\ \A i \in 0..(k - 1) : ~LoopEnds(i, rdy, pend, active)
          ELSE k = 0
       /\ ready' = SubSeq(rdy, k + 1, Len(rdy))
       /\ readySet' = rset \ {rdy[i] : i \in 1..k}
       /\ pending' = [s \in Sessions |->
                        IF s \in started THEN Tail(pend[s]) ELSE pend[s]]
       /\ activeBySession' = [s \in Sessions |->
                        IF s \in started THEN Head(pend[s]) ELSE active[s]]
       /\ activeByRun' = runs \cup firsts
       /\ published' = [j \in Jobs |-> IF j \in firsts THEN "running" ELSE pub[j]]
       /\ executing' = exec \cup firsts

-----------------------------------------------------------------------------
(* Operations. *)

setRuntimeReady(value) ==
  /\ value # runtimeReady
  /\ runtimeReady' = value
  /\ drain(value, ready, readySet, pending, activeBySession, activeByRun,
           published, executing)
  /\ UNCHANGED <<cancelVars, fenceVars, jobSession>>

(* enqueue(job, {front}): refused while the session is being deleted. *)
enqueue(s, j, front) ==
  /\ Fresh(j)
  /\ s \notin sessionFences
  /\ LET pend == [pending EXCEPT ![s] = Placed(@, j, front)]
         mark == markReady(s, ready, readySet, pend, activeBySession)
     IN drain(runtimeReady, mark.ready, mark.set, pend, activeBySession,
              activeByRun, [published EXCEPT ![j] = "queued"], executing)
  /\ jobSession' = [jobSession EXCEPT ![j] = s]
  /\ UNCHANGED <<cancelVars, fenceVars, runtimeReady>>

(* handleRuntimeEvent() accepts a completion of an active run whose session *)
(* is the run's and whose job, when there is one, is the run's.             *)
Accepts(ev) ==
  /\ ev.run \in activeByRun
  /\ ev.session = jobSession[ev.run]
  /\ ev.job \in {NoJob, ev.run}

(* The Runtime is done with a run when it reports the run's own completion. *)
Finished(ev) ==
  IF ev.session = jobSession[ev.run] /\ ev.job \in {NoJob, ev.run}
  THEN {ev.run} ELSE {}

CancelledByStatus(ev) == ev.status = "cancelled"                   \* mutant
Cancelled(ev) == ev.status = "cancelled" \/ ev.run \in cancelRequested

(* The state published for the run; an unknown status counts as an error. *)
FinalState(ev) ==
  IF Cancelled(ev) THEN "cancelled"
  ELSE IF ev.status = "completed" THEN "completed" ELSE "error"

(* requeueRemainingSteering(): what the run did not consume becomes one new *)
(* job at the head of the queue; no "queued" state is published for it and  *)
(* the fences are not consulted.                                            *)
requeueRemainingSteering(ev, s, j) ==
  IF ev.remainingSteering /\ ~Cancelled(ev)
  THEN /\ j \in Jobs /\ Fresh(j)
       /\ jobSession' = [jobSession EXCEPT ![j] = s]
  ELSE j = NoJob /\ UNCHANGED jobSession

(* handleRuntimeEvent(): release the slot, requeue, mark ready, drain. *)
handleRuntimeEvent(ev) ==
  /\ Accepts(ev)
  /\ \E j \in Jobs \cup {NoJob} :
       LET s      == jobSession[ev.run]
           active == [activeBySession EXCEPT ![s] = NoJob]
           pend   == IF j = NoJob THEN pending
                     ELSE [pending EXCEPT ![s] = <<j>> \o @]
           mark   == markReady(s, ready, readySet, pend, active)
       IN /\ requeueRemainingSteering(ev, s, j)
          /\ drain(runtimeReady, mark.ready, mark.set, pend, active,
                   activeByRun \ {ev.run}, [published EXCEPT ![ev.run] = FinalState(ev)],
                   executing \ Finished(ev))
  /\ UNCHANGED <<cancelVars, fenceVars, runtimeReady>>

(* The promise of startTurn() rejects: handleStartFailed() only logs, the   *)
(* slot stays taken until a completion names the run.                       *)
handleStartFailed(r) ==
  /\ r \in executing
  /\ executing' = executing \ {r}
  /\ UNCHANGED <<queueVars, activeVars, cancelVars, fenceVars, runtimeReady,
                 jobSession, published>>

(* Filtering a queue: the positions of the elements that stay, in order     *)
(* (there is exactly one such list), and the queue they make.               *)
KeptPositions(q, gone) ==
  LET kept == {i \in 1..Len(q) : q[i] \notin gone}
  IN {at \in [1..Cardinality(kept) -> kept] :
        /\ \A i, k \in DOMAIN at : i < k => at[i] < at[k]
        /\ kept = {at[i] : i \in DOMAIN at}}

Filtered(q, at) == [i \in DOMAIN at |-> q[at[i]]]

(* An emptied queue takes its session out of ready and readySet. *)
UnreadyInQueueOnly(s) ==                                           \* mutant
  /\ \E at \in KeptPositions(ready, {s}) : ready' = Filtered(ready, at)
  /\ UNCHANGED readySet
Unready(s) ==
  /\ \E at \in KeptPositions(ready, {s}) : ready' = Filtered(ready, at)
  /\ readySet' = readySet \ {s}

(* clearPendingMatching(): drop the queued jobs in `matches'. *)
clearPendingMatching(s, matches) ==
  /\ matches # {}
  /\ matches \subseteq Members(pending[s])
  /\ \E at \in KeptPositions(pending[s], matches) :
       LET retained == Filtered(pending[s], at)
       IN /\ pending' = [pending EXCEPT ![s] = retained]
          /\ IF retained # <<>>
             THEN UNCHANGED <<ready, readySet>>
             ELSE Unready(s)
  /\ published' = [j \in Jobs |-> IF j \in matches THEN "cleared" ELSE published[j]]
  /\ UNCHANGED <<activeVars, cancelVars, fenceVars, runtimeReady,
                 jobSession, executing>>

(* requestStop(): the first call for a run issues cancelTurn(); a later one *)
(* joins it or finds the run already marked.                                *)
requestStop(s) ==
  LET r == activeBySession[s]
  IN /\ r # NoJob
     /\ r \notin cancelRequested \cup cancelRequest
     /\ cancelRequest' = cancelRequest \cup {r}
     /\ UNCHANGED <<queueVars, activeVars, cancelRequested, fenceVars,
                    runtimeReady, jobSession, published, executing>>

(* cancelTurn() resolves (accepted), or rejects: the mark is taken back. *)
cancelSettles(r, accepted) ==
  /\ r \in cancelRequest
  /\ cancelRequest' = cancelRequest \ {r}
  /\ cancelRequested' = IF accepted THEN cancelRequested \cup {r}
                                    ELSE cancelRequested \ {r}
  /\ UNCHANGED <<queueVars, activeVars, fenceVars, runtimeReady, jobSession,
                 published, executing>>

(* None of the addresses of the session is under the fence of another. *)
KeysUnchecked(keys) == TRUE                                        \* mutant
KeysFree(keys) == keys \cap keyFences = {}

(* beginSessionDeletion(): only for an idle session, and only if neither it *)
(* nor one of the keys is fenced already.                                   *)
beginSessionDeletion(l, s, keys) ==
  /\ lease[l].state = "unused"
  /\ s \notin sessionFences
  /\ ~hasInflightWork(s)
  /\ KeysFree(keys)
  /\ sessionFences' = sessionFences \cup {s}
  /\ keyFences' = keyFences \cup keys
  /\ lease' = [lease EXCEPT ![l] = [state |-> "held", session |-> s, keys |-> keys]]
  /\ UNCHANGED <<queueVars, activeVars, cancelVars, runtimeReady, jobSession,
                 published, executing>>

(* The closure beginSessionDeletion() returned; it acts on its first call. *)
BegunLease(l) == lease[l].state # "unused"                         \* mutant
Unreleased(l) == lease[l].state = "held"
release(l) ==
  /\ Unreleased(l)
  /\ lease' = [lease EXCEPT ![l].state = "released"]
  /\ sessionFences' = sessionFences \ {lease[l].session}
  /\ keyFences' = keyFences \ lease[l].keys
  /\ UNCHANGED <<queueVars, activeVars, cancelVars, runtimeReady, jobSession,
                 published, executing>>

Next ==
  \/ \E value \in BOOLEAN : setRuntimeReady(value)
  \/ \E s \in Sessions, j \in Jobs, front \in FrontOptions : enqueue(s, j, front)
  \/ \E ev \in Completion : handleRuntimeEvent(ev)
  \/ \E r \in Jobs : handleStartFailed(r)
  \/ \E s \in Sessions : \E matches \in SUBSET Members(pending[s]) :
       clearPendingMatching(s, matches)
  \/ \E s \in Sessions : requestStop(s)
  \/ \E r \in Jobs, accepted \in BOOLEAN : cancelSettles(r, accepted)
  \/ \E l \in Leases, s \in Sessions, keys \in SUBSET SessionKeys :
       beginSessionDeletion(l, s, keys)
  \/ \E l \in Leases : release(l)

Spec == Init /\ [][Next]_vars

(* The Runtime terminalizes every run it was given. *)
FairSpec == Spec /\ \A r \in Jobs : WF_vars(\E ev \in Completion :
                                      ev.run = r /\ handleRuntimeEvent(ev))

-----------------------------------------------------------------------------
TypeOK ==
  /\ pending \in [Sessions -> Seq(Jobs)]
  /\ ready \in Seq(Sessions)
  /\ readySet \subseteq Sessions
  /\ activeBySession \in [Sessions -> Jobs \cup {NoJob}]
  /\ activeByRun \subseteq Jobs
  /\ cancelRequest \subseteq Jobs
  /\ cancelRequested \subseteq Jobs
  /\ sessionFences \subseteq Sessions
  /\ keyFences \subseteq SessionKeys
  /\ lease \in [Leases -> Lease]
  /\ runtimeReady \in BOOLEAN
  /\ jobSession \in [Jobs -> Sessions \cup {NoSession}]
  /\ published \in [Jobs -> JobState]
  /\ executing \subseteq Jobs

(* The Runtime never executes two turns of one session at the same time,   *)
(* whatever completions, stale or mismatched, it reports.                  *)
SerialSessions ==
  \A r1, r2 \in executing : jobSession[r1] = jobSession[r2] => r1 = r2

(* The runs in flight, counted as drain() counts them, stay within the     *)
(* limit, and everything the Runtime executes is counted.                  *)
BoundedConcurrency ==
  /\ Cardinality(Busy(activeBySession)) <= MaxConcurrency
  /\ executing \subseteq {activeBySession[s] : s \in Sessions}

(* No session is forgotten: a session is in ready exactly when it has a    *)
(* queued job and no run, whether the Runtime is ready or not; ready holds *)
(* it once and readySet mirrors it.                                        *)
ReadyIsExact ==
  /\ readySet = Members(ready)
  /\ \A i, k \in 1..Len(ready) : ready[i] = ready[k] => i = k
  /\ readySet = {s \in Sessions : pending[s] # <<>> /\ activeBySession[s] = NoJob}

(* What docs/harness/gateway/session_scheduler_cancellation.md:24 says      *)
(* besides: a session enters ready only while the Runtime is ready.  The    *)
(* code does not do so, nor does ReadyIsExact ask for it: markReady() does  *)
(* not look at runtimeReady, only drain() does.                             *)
ReadyNeedsRuntime ==
  [][\A s \in readySet' \ readySet : runtimeReady']_vars

(* drain() leaves no slot free while a session waits and the Runtime is up. *)
WorkConserving ==
  runtimeReady /\ ready # <<>> =>
    Cardinality(Busy(activeBySession)) >= MaxConcurrency

(* The two maps of active runs describe the same handles. *)
ActiveMapsAgree ==
  /\ activeByRun = {activeBySession[s] : s \in Sessions} \ {NoJob}
  /\ \A s \in Sessions : activeBySession[s] # NoJob =>
       jobSession[activeBySession[s]] = s

(* A fence is up exactly while the lease that raised it is held, and a      *)
(* session under a fence has nothing queued and nothing running, so its     *)
(* rows may be removed.                                                     *)
FencesMatchLeases ==
  LET held == {l \in Leases : lease[l].state = "held"}
  IN /\ sessionFences = {lease[l].session : l \in held}
     /\ keyFences = UNION {lease[l].keys : l \in held}
FencedSessionsIdle ==
  \A s \in sessionFences : pending[s] = <<>> /\ activeBySession[s] = NoJob
DeletionsAreFenced == FencesMatchLeases /\ FencedSessionsIdle

Precedes(q, a, b) == \E i, k \in 1..Len(q) : i < k /\ q[i] = a /\ q[k] = b

(* Jobs of a session are started in the order in which they were enqueued: *)
(* b is behind a when both are queued, or when b arrives while a is queued *)
(* (a job made of left-over steering arrives in a step that ends a run);   *)
(* then b does not start while a waits, nor does it get ahead of a.        *)
Behind(s, a, b) ==
  \/ Precedes(pending[s], a, b)
  \/ Fresh(b) /\ jobSession'[b] = s /\ activeByRun \subseteq activeByRun'

FifoPerSession ==
  [][\A s \in Sessions : \A a \in Members(pending[s]), b \in Jobs :
       Behind(s, a, b) =>
         /\ (b \in activeByRun' => a \notin Members(pending'[s]))
         /\ ({a, b} \subseteq Members(pending'[s]) => Precedes(pending'[s], a, b))]_vars

(* Once a stop was accepted, the run ends as cancelled, whatever status its *)
(* completion carries, and its end creates no job: steering that was left   *)
(* over does not carry the session on.                                      *)
AcceptedStopEndsTheTurn ==
  [][\A r \in activeByRun \cap cancelRequested :
       r \notin activeByRun' =>
         jobSession' = jobSession /\ published'[r] = "cancelled"]_vars

(* The stage of a job, read off the queues and the maps of active runs. *)
StageOf(j) ==
  IF Fresh(j) THEN "new"
  ELSE IF j \in activeByRun THEN "running"
  ELSE IF j \in Members(pending[jobSession[j]]) THEN "waiting" ELSE "done"

Dispatch == INSTANCE TurnDispatch
              WITH Limit <- MaxConcurrency, owner <- jobSession,
                   stage <- [j \in Jobs |-> StageOf(j)]

(* The scheduler implements TurnDispatch: every job keeps its session, is   *)
(* started at most once and never comes back after it ended or was cleared, *)
(* through enqueue, completion, requeue, clear and readiness changes alike. *)
ImplementsTurnDispatch == Dispatch!Spec

(* A queued job is started or cleared in the end, if the Runtime is ready  *)
(* again and again and ends the runs it is given.                          *)
NoStarvation ==
  ([]<>runtimeReady) =>
    \A j \in Jobs : (\E s \in Sessions : j \in Members(pending[s]))
                      ~> (\A s \in Sessions : j \notin Members(pending[s]))
=============================================================================
