----------------------- MODULE SessionSchedulerProofs -----------------------
(***************************************************************************)
(* Proofs about SessionScheduler for every set of sessions and jobs and    *)
(* every concurrency limit.  The queues are handled by one lemma about     *)
(* drain(), the tail call of three operations, stated over the values      *)
(* drain() is called with.                                                 *)
(***************************************************************************)
EXTENDS SessionScheduler, FiniteSetTheorems, TLAPS

(* The strengthening, over the values of the maps at some point of a       *)
(* handler; `own' is the session of each job.                              *)
ReadyExact(rdy, rset, pend, active) ==
  /\ rset = Members(rdy)
  /\ \A i, k \in 1..Len(rdy) : rdy[i] = rdy[k] => i = k
  /\ rset = {s \in Sessions : pend[s] # <<>> /\ active[s] = NoJob}

MapsAgree(active, runs, own) ==
  /\ runs = {active[s] : s \in Sessions} \ {NoJob}
  /\ \A s \in Sessions : active[s] # NoJob => own[active[s]] = s

QueuedInOwnSession(pend, own) ==
  \A s \in Sessions : \A i \in 1..Len(pend[s]) : own[pend[s][i]] = s

QueueInv(rdy, rset, pend, active, runs, exec, own) ==
  /\ ReadyExact(rdy, rset, pend, active)
  /\ MapsAgree(active, runs, own)
  /\ QueuedInOwnSession(pend, own)
  /\ Cardinality(Busy(active)) <= MaxConcurrency
  /\ exec \subseteq runs

(* The inductive invariant. *)
SchedulerInv ==
  /\ TypeOK
  /\ QueueInv(ready, readySet, pending, activeBySession, activeByRun,
              executing, jobSession)
  /\ FencedSessionsIdle
  /\ WorkConserving

-----------------------------------------------------------------------------
(* What drain() leaves behind when it starts from values that satisfy the  *)
(* invariant except that a job may just have been marked ready.            *)
LEMMA DrainTypes ==
  ASSUME NEW isReady \in BOOLEAN, NEW rdy \in Seq(Sessions),
         NEW rset \in SUBSET Sessions, NEW pend \in [Sessions -> Seq(Jobs)],
         NEW active \in [Sessions -> Jobs \cup {NoJob}],
         NEW runs \in SUBSET Jobs, NEW pub \in [Jobs -> JobState],
         NEW exec \in SUBSET Jobs,
         drain(isReady, rdy, rset, pend, active, runs, pub, exec)
  PROVE  /\ ready' \in Seq(Sessions)
         /\ readySet' \subseteq Sessions
         /\ pending' \in [Sessions -> Seq(Jobs)]
         /\ activeBySession' \in [Sessions -> Jobs \cup {NoJob}]
         /\ activeByRun' \subseteq Jobs
         /\ published' \in [Jobs -> JobState]
         /\ executing' \subseteq Jobs
<1>1. PICK k \in 0..Len(rdy) :
        LET started == Dispatched(k, rdy, pend, active)
            firsts  == {Head(pend[s]) : s \in started}
        IN /\ ready' = SubSeq(rdy, k + 1, Len(rdy))
           /\ readySet' = rset \ {rdy[i] : i \in 1..k}
           /\ pending' = [s \in Sessions |->
                            IF s \in started THEN Tail(pend[s]) ELSE pend[s]]
           /\ activeBySession' = [s \in Sessions |->
                            IF s \in started THEN Head(pend[s]) ELSE active[s]]
           /\ activeByRun' = runs \cup firsts
           /\ published' = [j \in Jobs |-> IF j \in firsts THEN "running" ELSE pub[j]]
           /\ executing' = exec \cup firsts
  BY DEF drain
<1> DEFINE started == Dispatched(k, rdy, pend, active)
           firsts  == {Head(pend[s]) : s \in started}
<1>2. \A s \in started : s \in Sessions /\ pend[s] # <<>>
  BY DEF Dispatched
<1>3. \A s \in started : Head(pend[s]) \in Jobs /\ Tail(pend[s]) \in Seq(Jobs)
  BY <1>2
<1>4. firsts \subseteq Jobs
  BY <1>3
<1>5. ready' \in Seq(Sessions)
  BY <1>1
<1>6. pending' \in [Sessions -> Seq(Jobs)] /\ activeBySession' \in [Sessions -> Jobs \cup {NoJob}]
  BY <1>1, <1>3
<1>7. published' \in [Jobs -> JobState]
  BY <1>1 DEF JobState
<1> QED
  BY <1>1, <1>4, <1>5, <1>6, <1>7

(* drain() keeps the queue invariant: it takes a prefix of ready, starts    *)
(* the first job of every session of the prefix, and stops at the limit.    *)
LEMMA DrainKeepsQueueInv ==
  ASSUME NEW isReady \in BOOLEAN, NEW rdy \in Seq(Sessions),
         NEW rset \in SUBSET Sessions, NEW pend \in [Sessions -> Seq(Jobs)],
         NEW active \in [Sessions -> Jobs \cup {NoJob}],
         NEW runs \in SUBSET Jobs, NEW pub, NEW exec \in SUBSET Jobs,
         NEW own \in [Jobs -> Sessions \cup {NoSession}],
         QueueInv(rdy, rset, pend, active, runs, exec, own),
         drain(isReady, rdy, rset, pend, active, runs, pub, exec)
  PROVE  QueueInv(ready', readySet', pending', activeBySession', activeByRun',
                  executing', own)
<1>1. PICK k \in 0..Len(rdy) :
        LET started == Dispatched(k, rdy, pend, active)
            firsts  == {Head(pend[s]) : s \in started}
        IN /\ IF isReady
              THEN /\ LoopEnds(k, rdy, pend, active)
                   /\ \A i \in 0..(k - 1) : ~LoopEnds(i, rdy, pend, active)
              ELSE k = 0
           /\ ready' = SubSeq(rdy, k + 1, Len(rdy))
           /\ readySet' = rset \ {rdy[i] : i \in 1..k}
           /\ pending' = [s \in Sessions |->
                            IF s \in started THEN Tail(pend[s]) ELSE pend[s]]
           /\ activeBySession' = [s \in Sessions |->
                            IF s \in started THEN Head(pend[s]) ELSE active[s]]
           /\ activeByRun' = runs \cup firsts
           /\ executing' = exec \cup firsts
  BY DEF drain
<1> DEFINE started == Dispatched(k, rdy, pend, active)
           firsts  == {Head(pend[s]) : s \in started}
           prefix  == {rdy[i] : i \in 1..k}
<1>2. started = prefix
  <2>1. prefix \subseteq Sessions
    OBVIOUS
  <2>2. \A s \in prefix : pend[s] # <<>> /\ active[s] = NoJob
    BY DEF QueueInv, ReadyExact, Members
  <2> QED
    BY <2>1, <2>2 DEF Dispatched
<1>3. \A s \in started :
        /\ s \in Sessions
        /\ active[s] = NoJob
        /\ Head(pend[s]) \in Jobs
        /\ Head(pend[s]) # NoJob
        /\ Head(pend[s]) = pend[s][1]
        /\ 1 \in 1..Len(pend[s])
  BY NullAssumption DEF Dispatched
<1> HIDE DEF started
<1>4. \A s \in Sessions : activeBySession'[s] = IF s \in started THEN Head(pend[s])
                                                                  ELSE active[s]
  BY <1>1 DEF started
<1>5. Busy(activeBySession') = Busy(active) \cup started
  BY <1>3, <1>4 DEF Busy
<1>6. Cardinality(Busy(activeBySession')) <= MaxConcurrency
  <2> DEFINE before == Busy(active) \cup Dispatched(k - 1, rdy, pend, active)
  <2>1. IsFiniteSet(Busy(active)) /\ Cardinality(Busy(active)) \in Nat
    BY SessionsAssumption, FS_Subset, FS_CardinalityType DEF Busy
  <2>2. CASE k = 0
    <3>1. started = {}
      BY <1>2, <2>2 DEF prefix
    <3> QED
      BY <1>5, <3>1 DEF QueueInv
  <2>3. CASE k # 0
    <3>1. k - 1 \in 0..(k - 1) /\ k \in 1..Len(rdy)
      BY <2>3
    <3>2. ~LoopEnds(k - 1, rdy, pend, active)
      BY <1>1, <2>3, <3>1
    <3>3. ~(Cardinality(before) >= MaxConcurrency)
      BY <3>2 DEF LoopEnds
    <3>4. before \subseteq Sessions
      BY DEF Busy, Dispatched
    <3>5. IsFiniteSet(before) /\ Cardinality(before) \in Nat
      BY <3>4, SessionsAssumption, FS_Subset, FS_CardinalityType
    <3>6. Busy(activeBySession') \subseteq before \cup {rdy[k]}
      BY <1>5, <3>1 DEF started, Dispatched
    <3>7. /\ IsFiniteSet(before \cup {rdy[k]})
          /\ Cardinality(before \cup {rdy[k]}) \in Nat
          /\ Cardinality(before \cup {rdy[k]}) <= Cardinality(before) + 1
      <4> HIDE DEF before
      <4>1. /\ IsFiniteSet(before \cup {rdy[k]})
            /\ Cardinality(before \cup {rdy[k]}) =
                 IF rdy[k] \in before THEN Cardinality(before) ELSE Cardinality(before) + 1
        BY <3>5, FS_AddElement
      <4> QED
        BY <3>5, <4>1
    <3>8. Cardinality(Busy(activeBySession')) <= Cardinality(before \cup {rdy[k]})
      BY <3>6, <3>7, FS_Subset
    <3>9. Cardinality(Busy(activeBySession')) \in Nat
      BY <3>6, <3>7, FS_Subset, FS_CardinalityType
    <3> QED
      BY <3>3, <3>5, <3>7, <3>8, <3>9, ConcurrencyAssumption
  <2> QED
    BY <2>2, <2>3
<1>7. MapsAgree(activeBySession', activeByRun', own)
  <2>1. activeByRun' = {activeBySession'[s] : s \in Sessions} \ {NoJob}
    BY <1>1, <1>3, <1>4 DEF started, QueueInv, MapsAgree
  <2>2. \A s \in Sessions : activeBySession'[s] # NoJob => own[activeBySession'[s]] = s
    <3>1. \A s \in started : own[Head(pend[s])] = s
      BY <1>3 DEF QueueInv, QueuedInOwnSession
    <3>2. \A s \in Sessions : active[s] # NoJob => own[active[s]] = s
      BY DEF QueueInv, MapsAgree
    <3> QED
      BY <1>4, <3>1, <3>2
  <2> QED
    BY <2>1, <2>2 DEF MapsAgree
<1>8. QueuedInOwnSession(pending', own)
  <2> SUFFICES ASSUME NEW s \in Sessions, NEW i \in 1..Len(pending'[s])
               PROVE  own[pending'[s][i]] = s
    BY DEF QueuedInOwnSession
  <2>1. CASE s \in started
    <3>1. pending'[s] = Tail(pend[s]) /\ pend[s] \in Seq(Jobs) /\ pend[s] # <<>>
      BY <1>1, <2>1 DEF started, Dispatched
    <3>2. i + 1 \in 1..Len(pend[s]) /\ pending'[s][i] = pend[s][i + 1]
      BY <3>1
    <3> QED
      BY <3>2 DEF QueueInv, QueuedInOwnSession
  <2>2. CASE s \notin started
    BY <1>1, <2>2 DEF started, QueueInv, QueuedInOwnSession
  <2> QED
    BY <2>1, <2>2
<1>9. ReadyExact(ready', readySet', pending', activeBySession')
  <2>1. Len(ready') = Len(rdy) - k /\ \A i \in 1..(Len(rdy) - k) : ready'[i] = rdy[i + k]
    BY <1>1
  <2>2. \A i, m \in 1..Len(rdy) : rdy[i] = rdy[m] => i = m
    BY DEF QueueInv, ReadyExact
  <2> k \in 0..Len(rdy) /\ Len(rdy) \in Nat
    BY <1>1 DEF QueueInv
  <2>3. ASSUME NEW i \in 1..Len(ready'), NEW m \in 1..Len(ready'), ready'[i] = ready'[m]
        PROVE  i = m
    <3>1. /\ i + k \in 1..Len(rdy) /\ m + k \in 1..Len(rdy)
          /\ rdy[i + k] = rdy[m + k]
      BY <2>1, <2>3
    <3>2. i + k = m + k
      BY <2>2, <3>1
    <3> QED
      BY <3>2
  <2>4. rset = Members(rdy)
    BY DEF QueueInv, ReadyExact
  <2>5. readySet' = Members(ready')
    <3>1. \A i \in 1..Len(ready') : ready'[i] \in readySet'
      <4> SUFFICES ASSUME NEW i \in 1..Len(ready') PROVE ready'[i] \in readySet'
        OBVIOUS
      <4>1. i + k \in 1..Len(rdy) /\ ready'[i] = rdy[i + k] /\ i + k \notin 1..k
        BY <2>1
      <4>2. rdy[i + k] \in rset
        BY <4>1, <2>4 DEF Members
      <4>3. rdy[i + k] \notin prefix
        BY <4>1, <2>2
      <4> QED
        BY <1>1, <4>1, <4>2, <4>3
    <3>2. \A s \in readySet' : \E i \in 1..Len(ready') : s = ready'[i]
      <4> SUFFICES ASSUME NEW s \in readySet'
                   PROVE  \E i \in 1..Len(ready') : s = ready'[i]
        OBVIOUS
      <4>1. PICK m \in 1..Len(rdy) : s = rdy[m]
        BY <1>1, <2>4 DEF Members
      <4>2. m \notin 1..k
        BY <1>1, <4>1
      <4>3. m - k \in 1..(Len(rdy) - k) /\ (m - k) + k = m
        BY <4>2
      <4>4. m - k \in 1..Len(ready') /\ ready'[m - k] = rdy[m]
        BY <2>1, <4>3
      <4> QED
        BY <4>1, <4>4
    <3> QED
      BY <3>1, <3>2 DEF Members
  <2>6. readySet' = rset \ started
    BY <1>1, <1>2
  <2>7. readySet' = {s \in Sessions : pending'[s] # <<>> /\ activeBySession'[s] = NoJob}
    <3>1. rset = {s \in Sessions : pend[s] # <<>> /\ active[s] = NoJob}
      BY DEF QueueInv, ReadyExact
    <3>2. \A s \in Sessions : s \notin started =>
            pending'[s] = pend[s] /\ activeBySession'[s] = active[s]
      BY <1>1, <1>4 DEF started
    <3>3. \A s \in started : activeBySession'[s] # NoJob
      <4> SUFFICES ASSUME NEW s \in started PROVE activeBySession'[s] # NoJob
        OBVIOUS
      <4>1. s \in Sessions /\ Head(pend[s]) # NoJob
        BY <1>3
      <4>2. activeBySession'[s] = Head(pend[s])
        BY <1>4, <4>1
      <4> QED
        BY <4>1, <4>2
    <3>4. started \subseteq Sessions
      BY <1>3
    <3> QED
      BY <2>6, <3>1, <3>2, <3>3, <3>4
  <2> QED
    BY <2>3, <2>5, <2>7 DEF ReadyExact
<1>10. executing' \subseteq activeByRun'
  BY <1>1 DEF QueueInv
<1> QED
  BY <1>6, <1>7, <1>8, <1>9, <1>10 DEF QueueInv

(* drain() does not touch a session that is idle. *)
LEMMA DrainSparesIdle ==
  ASSUME NEW isReady, NEW rdy, NEW rset, NEW pend, NEW active, NEW runs,
         NEW pub, NEW exec,
         drain(isReady, rdy, rset, pend, active, runs, pub, exec),
         NEW s \in Sessions, pend[s] = <<>>, active[s] = NoJob
  PROVE  pending'[s] = <<>> /\ activeBySession'[s] = NoJob
<1>1. PICK k \in 0..Len(rdy) :
        LET started == Dispatched(k, rdy, pend, active)
        IN /\ pending' = [t \in Sessions |->
                            IF t \in started THEN Tail(pend[t]) ELSE pend[t]]
           /\ activeBySession' = [t \in Sessions |->
                            IF t \in started THEN Head(pend[t]) ELSE active[t]]
  BY DEF drain
<1>2. s \notin Dispatched(k, rdy, pend, active)
  BY DEF Dispatched
<1> QED
  BY <1>1, <1>2

(* When the Runtime is ready, drain() stops only at the limit or when no    *)
(* session waits any more.                                                  *)
LEMMA DrainFillsSlots ==
  ASSUME NEW isReady, isReady = TRUE, NEW rdy \in Seq(Sessions), NEW rset,
         NEW pend \in [Sessions -> Seq(Jobs)],
         NEW active \in [Sessions -> Jobs \cup {NoJob}], NEW runs, NEW pub, NEW exec,
         drain(isReady, rdy, rset, pend, active, runs, pub, exec),
         ready' # <<>>
  PROVE  Cardinality(Busy(activeBySession')) >= MaxConcurrency
<1>1. PICK k \in 0..Len(rdy) :
        LET started == Dispatched(k, rdy, pend, active)
        IN /\ LoopEnds(k, rdy, pend, active)
           /\ ready' = SubSeq(rdy, k + 1, Len(rdy))
           /\ activeBySession' = [s \in Sessions |->
                            IF s \in started THEN Head(pend[s]) ELSE active[s]]
  BY DEF drain
<1> DEFINE started == Dispatched(k, rdy, pend, active)
<1>2. k # Len(rdy)
  BY <1>1
<1>3. \A s \in started : s \in Sessions /\ Head(pend[s]) # NoJob
  BY NullAssumption DEF Dispatched
<1>4. \A s \in Sessions : activeBySession'[s] = IF s \in started THEN Head(pend[s])
                                                                  ELSE active[s]
  BY <1>1
<1> HIDE DEF started
<1>5. Busy(activeBySession') = Busy(active) \cup started
  BY <1>3, <1>4 DEF Busy
<1> QED
  BY <1>1, <1>2, <1>5 DEF LoopEnds, started

-----------------------------------------------------------------------------
(* markReady() restores the exactness of ready after the queue or the run   *)
(* of one session changed.                                                  *)
LEMMA MarkReadyRestores ==
  ASSUME NEW s \in Sessions, NEW rdy \in Seq(Sessions), NEW rset \in SUBSET Sessions,
         NEW pend \in [Sessions -> Seq(Jobs)],
         NEW active \in [Sessions -> Jobs \cup {NoJob}],
         rset = Members(rdy),
         \A i, k \in 1..Len(rdy) : rdy[i] = rdy[k] => i = k,
         \A t \in Sessions \ {s} :
           t \in rset <=> pend[t] # <<>> /\ active[t] = NoJob,
         s \in rset => pend[s] # <<>> /\ active[s] = NoJob
  PROVE  LET mark == markReady(s, rdy, rset, pend, active)
         IN /\ mark.ready \in Seq(Sessions)
            /\ mark.set \subseteq Sessions
            /\ ReadyExact(mark.ready, mark.set, pend, active)
<1> DEFINE mark == markReady(s, rdy, rset, pend, active)
<1>1. CASE active[s] # NoJob \/ s \in rset \/ pend[s] = <<>>
  <2>1. mark.ready = rdy /\ mark.set = rset
    BY <1>1 DEF markReady
  <2>2. rset = {t \in Sessions : pend[t] # <<>> /\ active[t] = NoJob}
    BY <1>1
  <2> QED
    BY <2>1, <2>2 DEF ReadyExact
<1>2. CASE ~(active[s] # NoJob \/ s \in rset \/ pend[s] = <<>>)
  <2>1. mark.ready = Append(rdy, s) /\ mark.set = rset \cup {s}
    BY <1>2 DEF markReady
  <2>2. /\ Len(Append(rdy, s)) = Len(rdy) + 1
        /\ \A i \in 1..Len(rdy) : Append(rdy, s)[i] = rdy[i]
        /\ Append(rdy, s)[Len(rdy) + 1] = s
    OBVIOUS
  <2>3. \A i \in 1..Len(rdy) : rdy[i] # s
    BY <1>2 DEF Members
  <2>4. rset \cup {s} = Members(Append(rdy, s))
    <3> DEFINE q == Append(rdy, s)
    <3>1. \A i \in 1..Len(q) : q[i] \in rset \cup {s}
      BY <2>2 DEF Members
    <3>2. \A t \in rset : \E i \in 1..Len(q) : q[i] = t
      BY <2>2 DEF Members
    <3>3. Len(q) \in 1..Len(q) /\ q[Len(q)] = s
      BY <2>2
    <3> HIDE DEF q
    <3>4. \A t : t \in Members(q) <=> \E i \in 1..Len(q) : t = q[i]
      BY DEF Members
    <3>5. Members(q) = rset \cup {s}
      <4>1. Members(q) \subseteq rset \cup {s}
        BY <3>1, <3>4
      <4>2. rset \cup {s} \subseteq Members(q)
        BY <3>2, <3>3, <3>4
      <4> QED
        BY <4>1, <4>2
    <3> QED
      BY <3>5 DEF q
  <2>5. \A i, k \in 1..Len(Append(rdy, s)) :
          Append(rdy, s)[i] = Append(rdy, s)[k] => i = k
    BY <2>2, <2>3
  <2>6. rset \cup {s} = {t \in Sessions : pend[t] # <<>> /\ active[t] = NoJob}
    BY <1>2
  <2> QED
    BY <2>1, <2>4, <2>5, <2>6 DEF ReadyExact
<1> QED
  BY <1>1, <1>2

-----------------------------------------------------------------------------
LEMMA InitEstablishes == Init => SchedulerInv
<1> SUFFICES ASSUME Init PROVE SchedulerInv
  OBVIOUS
<1>1. TypeOK
  BY DEF Init, TypeOK, Lease, UnusedLease, JobState
<1>2. Busy(activeBySession) = {}
  BY DEF Init, Busy
<1>3. Cardinality(Busy(activeBySession)) <= MaxConcurrency
  BY <1>2, FS_EmptySet, ConcurrencyAssumption
<1>4. ReadyExact(ready, readySet, pending, activeBySession)
  BY DEF Init, ReadyExact, Members
<1>5. MapsAgree(activeBySession, activeByRun, jobSession)
  BY DEF Init, MapsAgree
<1>6. QueuedInOwnSession(pending, jobSession)
  BY DEF Init, QueuedInOwnSession
<1>7. executing \subseteq activeByRun /\ FencedSessionsIdle /\ WorkConserving
  BY DEF Init, FencedSessionsIdle, WorkConserving
<1> QED
  BY <1>1, <1>3, <1>4, <1>5, <1>6, <1>7 DEF SchedulerInv, QueueInv

LEMMA ReadinessKeepsInv ==
  ASSUME SchedulerInv, NEW value \in BOOLEAN, setRuntimeReady(value)
  PROVE  SchedulerInv'
<1> USE DEF SchedulerInv
<1>1. drain(value, ready, readySet, pending, activeBySession, activeByRun,
            published, executing)
  BY DEF setRuntimeReady
<1>2. TypeOK'
  BY <1>1, DrainTypes DEF setRuntimeReady, TypeOK, cancelVars, fenceVars
<1>3. QueueInv(ready, readySet, pending, activeBySession, activeByRun,
               executing, jobSession)'
  BY <1>1, DrainKeepsQueueInv DEF setRuntimeReady, TypeOK
<1>4. FencedSessionsIdle'
  BY <1>1, DrainSparesIdle DEF setRuntimeReady, fenceVars, FencedSessionsIdle, TypeOK
<1>5. WorkConserving'
  BY <1>1, DrainFillsSlots DEF setRuntimeReady, TypeOK, WorkConserving
<1> QED
  BY <1>2, <1>3, <1>4, <1>5

LEMMA EnqueueKeepsInv ==
  ASSUME SchedulerInv, NEW s \in Sessions, NEW j \in Jobs,
         NEW front \in FrontOptions, enqueue(s, j, front)
  PROVE  SchedulerInv'
<1> USE DEF SchedulerInv
<1> DEFINE pend == [pending EXCEPT ![s] = Placed(@, j, front)]
           pub  == [published EXCEPT ![j] = "queued"]
           mark == markReady(s, ready, readySet, pend, activeBySession)
<1>1. /\ Fresh(j) /\ s \notin sessionFences
      /\ drain(runtimeReady, mark.ready, mark.set, pend, activeBySession,
               activeByRun, pub, executing)
      /\ jobSession' = [jobSession EXCEPT ![j] = s]
  BY DEF enqueue
<1>2. /\ Placed(pending[s], j, front) \in Seq(Jobs)
      /\ Placed(pending[s], j, front) # <<>>
      /\ \A i \in 1..Len(Placed(pending[s], j, front)) :
           \/ Placed(pending[s], j, front)[i] = j
           \/ \E m \in 1..Len(pending[s]) : Placed(pending[s], j, front)[i] = pending[s][m]
  <2>1. pending[s] \in Seq(Jobs)
    BY DEF TypeOK
  <2>2. CASE front
    <3> DEFINE q == <<j>> \o pending[s]
    <3>1. q \in Seq(Jobs) /\ Len(q) = Len(pending[s]) + 1 /\ q[1] = j
      BY <2>1
    <3>2. \A i \in 2..Len(q) : i - 1 \in 1..Len(pending[s]) /\ q[i] = pending[s][i - 1]
      BY <2>1
    <3>3. Placed(pending[s], j, front) = q
      BY <2>2 DEF Placed
    <3> HIDE DEF q
    <3> QED
      BY <3>1, <3>2, <3>3, <2>1
  <2>3. CASE ~front
    <3> DEFINE q == Append(pending[s], j)
    <3>1. q \in Seq(Jobs) /\ Len(q) = Len(pending[s]) + 1 /\ q[Len(q)] = j
      BY <2>1
    <3>2. \A i \in 1..Len(pending[s]) : q[i] = pending[s][i]
      BY <2>1
    <3>3. Placed(pending[s], j, front) = q
      BY <2>3 DEF Placed
    <3> HIDE DEF q
    <3>4. \A i \in 1..Len(q) : i = Len(q) \/ i \in 1..Len(pending[s])
      BY <2>1, <3>1
    <3>5. q # <<>>
      BY <2>1, <3>1
    <3> QED
      BY <3>1, <3>2, <3>3, <3>4, <3>5
  <2> QED
    BY <2>2, <2>3
<1>3. pend \in [Sessions -> Seq(Jobs)] /\ pend[s] # <<>>
  BY <1>2 DEF TypeOK
<1>4. pub \in [Jobs -> JobState]
  BY DEF TypeOK, JobState
<1>5. jobSession' \in [Jobs -> Sessions \cup {NoSession}]
  BY <1>1 DEF TypeOK
<1>6. \A k \in Jobs : jobSession[k] \in Sessions => jobSession'[k] = jobSession[k]
  BY <1>1, NullAssumption DEF Fresh, TypeOK
<1>7. /\ mark.ready \in Seq(Sessions)
      /\ mark.set \subseteq Sessions
      /\ ReadyExact(mark.ready, mark.set, pend, activeBySession)
  <2>1. \A t \in Sessions \ {s} : pend[t] = pending[t]
    BY DEF TypeOK
  <2>2. \A t \in Sessions \ {s} :
          t \in readySet <=> pend[t] # <<>> /\ activeBySession[t] = NoJob
    BY <2>1 DEF QueueInv, ReadyExact
  <2>3. s \in readySet => pend[s] # <<>> /\ activeBySession[s] = NoJob
    BY <1>3 DEF QueueInv, ReadyExact
  <2>4. readySet = Members(ready) /\ \A i, k \in 1..Len(ready) : ready[i] = ready[k] => i = k
    BY DEF QueueInv, ReadyExact
  <2> HIDE DEF pend
  <2> QED
    BY <1>3, <2>2, <2>3, <2>4, MarkReadyRestores DEF TypeOK
<1>8. QueuedInOwnSession(pend, jobSession')
  <2> SUFFICES ASSUME NEW t \in Sessions, NEW i \in 1..Len(pend[t])
               PROVE  jobSession'[pend[t][i]] = t
    BY DEF QueuedInOwnSession
  <2>1. \A m \in 1..Len(pending[t]) :
          pending[t][m] \in Jobs /\ jobSession[pending[t][m]] = t
    BY DEF QueueInv, QueuedInOwnSession, TypeOK
  <2>2. CASE t = s
    <3>1. pend[t] = Placed(pending[s], j, front)
      BY <2>2 DEF TypeOK
    <3>2. pend[t][i] = j \/ \E m \in 1..Len(pending[t]) : pend[t][i] = pending[t][m]
      BY <1>2, <2>2, <3>1
    <3>3. jobSession'[j] = t
      BY <1>1, <2>2 DEF TypeOK
    <3>4. \A m \in 1..Len(pending[t]) : jobSession'[pending[t][m]] = t
      BY <1>6, <2>1
    <3> HIDE DEF pend
    <3> QED
      BY <3>2, <3>3, <3>4
  <2>3. CASE t # s
    BY <1>6, <2>1, <2>3 DEF TypeOK
  <2> QED
    BY <2>2, <2>3
<1>9. MapsAgree(activeBySession, activeByRun, jobSession')
  BY <1>6 DEF QueueInv, MapsAgree, TypeOK
<1>10. QueueInv(mark.ready, mark.set, pend, activeBySession, activeByRun,
                executing, jobSession')
  BY <1>7, <1>8, <1>9 DEF QueueInv
<1> HIDE DEF pend, pub, mark
<1>11. TypeOK'
  BY <1>1, <1>3, <1>4, <1>5, <1>7, DrainTypes
     DEF enqueue, TypeOK, cancelVars, fenceVars
<1>12. QueueInv(ready, readySet, pending, activeBySession, activeByRun,
                executing, jobSession)'
  BY <1>1, <1>3, <1>5, <1>7, <1>10, DrainKeepsQueueInv DEF TypeOK
<1>13. FencedSessionsIdle'
  <2> SUFFICES ASSUME NEW t \in sessionFences
               PROVE  pending'[t] = <<>> /\ activeBySession'[t] = NoJob
    BY DEF FencedSessionsIdle, enqueue, fenceVars
  <2>1. t \in Sessions /\ t # s /\ pending[t] = <<>> /\ activeBySession[t] = NoJob
    BY <1>1 DEF FencedSessionsIdle, TypeOK
  <2>2. pend[t] = <<>>
    BY <2>1 DEF pend, TypeOK
  <2> QED
    BY <1>1, <2>1, <2>2, DrainSparesIdle
<1>14. WorkConserving'
  BY <1>1, <1>3, <1>7, DrainFillsSlots DEF enqueue, TypeOK, WorkConserving
<1> QED
  BY <1>11, <1>12, <1>13, <1>14

(* The completion of run ev.run frees the slot of its session s; left-over  *)
(* steering may have put a new job j at the head of the queue.              *)
LEMMA CompletionKeepsInv ==
  ASSUME SchedulerInv, NEW ev \in Completion, handleRuntimeEvent(ev)
  PROVE  SchedulerInv'
<1> USE DEF SchedulerInv
<1> DEFINE r == ev.run
           s == jobSession[r]
           active == [activeBySession EXCEPT ![s] = NoJob]
           runs == activeByRun \ {r}
           pub  == [published EXCEPT ![r] = FinalState(ev)]
           exec == executing \ Finished(ev)
           Pend(j) == IF j = NoJob THEN pending ELSE [pending EXCEPT ![s] = <<j>> \o @]
           Mark(j) == markReady(s, ready, readySet, Pend(j), active)
<1>1. PICK j \in Jobs \cup {NoJob} :
        /\ requeueRemainingSteering(ev, s, j)
        /\ drain(runtimeReady, Mark(j).ready, Mark(j).set, Pend(j), active, runs, pub, exec)
  BY DEF handleRuntimeEvent
<1>2. r \in activeByRun /\ ev.session = s /\ ev.job \in {NoJob, r}
  BY DEF handleRuntimeEvent, Accepts
<1>3. r \in Jobs /\ r # NoJob /\ s \in Sessions /\ activeBySession[s] = r
  <2>1. PICK t \in Sessions : activeBySession[t] = r /\ r # NoJob
    BY <1>2 DEF QueueInv, MapsAgree
  <2>2. jobSession[r] = t
    BY <2>1 DEF QueueInv, MapsAgree
  <2> QED
    BY <2>1, <2>2 DEF Completion
<1> DEFINE pend == Pend(j)
           mark == Mark(j)
<1> HIDE DEF r, s
<1>4. pend \in [Sessions -> Seq(Jobs)] /\ \A t \in Sessions \ {s} : pend[t] = pending[t]
  <2>1. CASE j = NoJob
    BY <2>1 DEF TypeOK
  <2>2. CASE j # NoJob
    <3>1. <<j>> \o pending[s] \in Seq(Jobs)
      BY <1>3, <2>2 DEF TypeOK
    <3> QED
      BY <1>3, <2>2, <3>1 DEF TypeOK
  <2> QED
    BY <2>1, <2>2
<1>5. /\ active \in [Sessions -> Jobs \cup {NoJob}]
      /\ active[s] = NoJob
      /\ \A t \in Sessions \ {s} : active[t] = activeBySession[t]
  BY <1>3 DEF TypeOK
<1>6. pub \in [Jobs -> JobState]
  BY DEF TypeOK, JobState, FinalState, Cancelled, Completion
<1>7. /\ jobSession' \in [Jobs -> Sessions \cup {NoSession}]
      /\ j # NoJob => jobSession'[j] = s /\ Fresh(j)
      /\ \A k \in Jobs : jobSession[k] \in Sessions => jobSession'[k] = jobSession[k]
  BY <1>1, <1>3, NullAssumption DEF requeueRemainingSteering, TypeOK, Fresh
<1>8. runs \subseteq Jobs /\ exec \subseteq Jobs /\ exec \subseteq runs
  <2>1. Finished(ev) = {r}
    BY <1>2 DEF Finished, r, s
  <2> QED
    BY <2>1 DEF TypeOK, QueueInv
<1>9. /\ mark.ready \in Seq(Sessions)
      /\ mark.set \subseteq Sessions
      /\ ReadyExact(mark.ready, mark.set, pend, active)
  <2>1. \A t \in Sessions \ {s} : t \in readySet <=> pend[t] # <<>> /\ active[t] = NoJob
    BY <1>4, <1>5 DEF QueueInv, ReadyExact
  <2>2. s \notin readySet
    BY <1>3 DEF QueueInv, ReadyExact
  <2>3. readySet = Members(ready) /\ \A i, k \in 1..Len(ready) : ready[i] = ready[k] => i = k
    BY DEF QueueInv, ReadyExact
  <2>4. ready \in Seq(Sessions) /\ readySet \subseteq Sessions
    BY DEF TypeOK
  <2> HIDE DEF pend, active, Pend
  <2>5. LET m == markReady(s, ready, readySet, pend, active)
        IN /\ m.ready \in Seq(Sessions)
           /\ m.set \subseteq Sessions
           /\ ReadyExact(m.ready, m.set, pend, active)
    BY <1>3, <1>4, <1>5, <2>1, <2>2, <2>3, <2>4, MarkReadyRestores
  <2> QED
    BY <2>5 DEF pend
<1>10. MapsAgree(active, runs, jobSession')
  <2>1. \A t \in Sessions : activeBySession[t] = r => t = s
    BY <1>3 DEF QueueInv, MapsAgree, s
  <2>2. runs = {active[t] : t \in Sessions} \ {NoJob}
    <3>1. activeByRun = {activeBySession[t] : t \in Sessions} \ {NoJob}
      BY DEF QueueInv, MapsAgree
    <3> HIDE DEF active
    <3>2. \A q \in runs : \E t \in Sessions : active[t] = q /\ q # NoJob
      BY <1>3, <1>5, <3>1
    <3>3. \A t \in Sessions : active[t] # NoJob => active[t] \in runs
      BY <1>3, <1>5, <2>1, <3>1
    <3> HIDE DEF runs
    <3> QED
      BY <3>2, <3>3
  <2>3. \A t \in Sessions : active[t] # NoJob => jobSession'[active[t]] = t
    <3> SUFFICES ASSUME NEW t \in Sessions, active[t] # NoJob
                 PROVE  jobSession'[active[t]] = t
      OBVIOUS
    <3>1. t # s /\ active[t] = activeBySession[t]
      BY <1>5
    <3>2. activeBySession[t] \in Jobs /\ jobSession[activeBySession[t]] = t
      BY <3>1 DEF QueueInv, MapsAgree, TypeOK
    <3> QED
      BY <1>7, <3>1, <3>2
  <2> QED
    BY <2>2, <2>3 DEF MapsAgree
<1>11. QueuedInOwnSession(pend, jobSession')
  <2> SUFFICES ASSUME NEW t \in Sessions, NEW i \in 1..Len(pend[t])
               PROVE  jobSession'[pend[t][i]] = t
    BY DEF QueuedInOwnSession
  <2>1. \A m \in 1..Len(pending[t]) : jobSession'[pending[t][m]] = t
    BY <1>7 DEF QueueInv, QueuedInOwnSession, TypeOK
  <2>2. CASE t # s \/ j = NoJob
    BY <1>4, <2>1, <2>2
  <2>3. CASE t = s /\ j # NoJob
    <3> DEFINE q == <<j>> \o pending[s]
    <3>1. pend[t] = q
      BY <1>3, <2>3 DEF TypeOK
    <3>2. pending[s] \in Seq(Jobs) /\ j \in Jobs
      BY <1>3, <2>3 DEF TypeOK
    <3>3. q[1] = j /\ Len(q) = Len(pending[s]) + 1
          /\ \A n \in 2..Len(q) : n - 1 \in 1..Len(pending[s]) /\ q[n] = pending[s][n - 1]
      BY <3>2
    <3> HIDE DEF q, pend
    <3>4. i = 1 \/ i \in 2..Len(q)
      BY <3>1, <3>2, <3>3
    <3> QED
      BY <1>7, <2>1, <2>3, <3>1, <3>3, <3>4
  <2> QED
    BY <2>2, <2>3
<1>12. Cardinality(Busy(active)) <= MaxConcurrency
  <2>1. Busy(active) \subseteq Busy(activeBySession) /\ Busy(activeBySession) \subseteq Sessions
    BY <1>5 DEF Busy
  <2>2. IsFiniteSet(Busy(activeBySession))
    BY <2>1, SessionsAssumption, FS_Subset
  <2>3. IsFiniteSet(Busy(active)) /\ Cardinality(Busy(active)) <= Cardinality(Busy(activeBySession))
    BY <2>1, <2>2, FS_Subset
  <2>4. Cardinality(Busy(active)) \in Nat /\ Cardinality(Busy(activeBySession)) \in Nat
    BY <2>2, <2>3, FS_CardinalityType
  <2> HIDE DEF active
  <2> QED
    BY <2>3, <2>4, ConcurrencyAssumption DEF QueueInv
<1> HIDE DEF active, runs, pub, exec
<1>13. QueueInv(mark.ready, mark.set, pend, active, runs, exec, jobSession')
  BY <1>8, <1>9, <1>10, <1>11, <1>12 DEF QueueInv
<1>14. drain(runtimeReady, mark.ready, mark.set, pend, active, runs, pub, exec)
  BY <1>1
<1> HIDE DEF pend, mark
<1>15. TypeOK'
  BY <1>4, <1>5, <1>6, <1>7, <1>8, <1>9, <1>14, DrainTypes
     DEF handleRuntimeEvent, TypeOK, cancelVars, fenceVars
<1>16. QueueInv(ready, readySet, pending, activeBySession, activeByRun,
                executing, jobSession)'
  BY <1>4, <1>5, <1>7, <1>8, <1>9, <1>13, <1>14, DrainKeepsQueueInv DEF TypeOK
<1>17. FencedSessionsIdle'
  <2> SUFFICES ASSUME NEW t \in sessionFences
               PROVE  pending'[t] = <<>> /\ activeBySession'[t] = NoJob
    BY DEF FencedSessionsIdle, handleRuntimeEvent, fenceVars
  <2>1. t \in Sessions /\ t # s /\ pending[t] = <<>> /\ activeBySession[t] = NoJob
    BY <1>3 DEF FencedSessionsIdle, TypeOK
  <2>2. pend[t] = <<>> /\ active[t] = NoJob
    BY <1>4, <1>5, <2>1
  <2> QED
    BY <1>14, <2>1, <2>2, DrainSparesIdle
<1>18. WorkConserving'
  BY <1>4, <1>5, <1>9, <1>14, DrainFillsSlots DEF handleRuntimeEvent, TypeOK, WorkConserving
<1> QED
  BY <1>15, <1>16, <1>17, <1>18

(* A filtered queue holds the elements that are not gone, and no others.    *)
LEMMA FilteredMembers ==
  ASSUME NEW S, NEW q \in Seq(S), NEW gone, NEW at \in KeptPositions(q, gone)
  PROVE  /\ Filtered(q, at) \in Seq(S)
         /\ Members(Filtered(q, at)) = Members(q) \ gone
         /\ \A i \in 1..Len(Filtered(q, at)) :
              at[i] \in 1..Len(q) /\ Filtered(q, at)[i] = q[at[i]]
         /\ \A i, k \in 1..Len(Filtered(q, at)) : at[i] = at[k] => i = k
<1> DEFINE kept == {i \in 1..Len(q) : q[i] \notin gone}
           n == Cardinality(kept)
           f == Filtered(q, at)
<1>1. n \in Nat
  <2>1. IsFiniteSet(1..Len(q))
    BY FS_Interval
  <2>2. IsFiniteSet(kept)
    BY <2>1, FS_Subset
  <2> HIDE DEF kept
  <2> QED
    BY <2>2, FS_CardinalityType
<1>2. /\ at \in [1..n -> kept]
      /\ \A i, k \in 1..n : i < k => at[i] < at[k]
      /\ kept = {at[i] : i \in 1..n}
  BY DEF KeptPositions
<1> HIDE DEF n
<1>3. f = [i \in 1..n |-> q[at[i]]] /\ f \in Seq(S) /\ Len(f) = n
  BY <1>1, <1>2 DEF Filtered
<1>4. \A i \in 1..n : at[i] \in 1..Len(q) /\ f[i] = q[at[i]] /\ q[at[i]] \notin gone
  BY <1>2, <1>3
<1>5. \A i, k \in 1..n : at[i] = at[k] => i = k
  <2> SUFFICES ASSUME NEW i \in 1..n, NEW k \in 1..n, at[i] = at[k] PROVE i = k
    OBVIOUS
  <2>1. at[i] \in Int /\ at[k] \in Int
    BY <1>4
  <2>2. ~(i < k) /\ ~(k < i)
    BY <1>2, <2>1
  <2> QED
    BY <1>1, <2>2
<1>6. Members(f) = Members(q) \ gone
  <2>1. \A x \in Members(f) : x \in Members(q) \ gone
    <3> HIDE DEF f
    <3>1. \A i \in 1..Len(f) : q[at[i]] \in Members(q) /\ f[i] = q[at[i]] /\ f[i] \notin gone
      BY <1>3, <1>4 DEF Members
    <3> QED
      BY <3>1 DEF Members
  <2>2. \A x \in Members(q) \ gone : x \in Members(f)
    <3> SUFFICES ASSUME NEW m \in 1..Len(q), q[m] \notin gone PROVE q[m] \in Members(f)
      BY DEF Members
    <3>1. PICK i \in 1..n : at[i] = m
      BY <1>2
    <3>2. f[i] = q[m]
      BY <1>3, <3>1
    <3> HIDE DEF f
    <3> QED
      BY <1>3, <3>2 DEF Members
  <2> HIDE DEF f
  <2> QED
    BY <2>1, <2>2
<1> QED
  BY <1>3, <1>4, <1>5, <1>6

(* clearPendingMatching(): the queue of one session loses some jobs; when   *)
(* it is empty the session leaves ready.                                    *)
LEMMA ClearKeepsInv ==
  ASSUME SchedulerInv, NEW s \in Sessions, NEW matches, clearPendingMatching(s, matches)
  PROVE  SchedulerInv'
<1> USE DEF SchedulerInv
<1>1. /\ matches # {} /\ matches \subseteq Members(pending[s])
      /\ published' = [j \in Jobs |-> IF j \in matches THEN "cleared" ELSE published[j]]
      /\ UNCHANGED <<activeBySession, activeByRun, cancelRequest, cancelRequested,
                     sessionFences, keyFences, lease, runtimeReady, jobSession, executing>>
  BY DEF clearPendingMatching, activeVars, cancelVars, fenceVars
<1>2. PICK at \in KeptPositions(pending[s], matches) :
        LET retained == Filtered(pending[s], at)
        IN /\ pending' = [pending EXCEPT ![s] = retained]
           /\ IF retained # <<>> THEN UNCHANGED <<ready, readySet>> ELSE Unready(s)
  BY DEF clearPendingMatching
<1> DEFINE retained == Filtered(pending[s], at)
<1>3. /\ retained \in Seq(Jobs)
      /\ \A i \in 1..Len(retained) :
           at[i] \in 1..Len(pending[s]) /\ retained[i] = pending[s][at[i]]
  BY FilteredMembers DEF TypeOK
<1> HIDE DEF retained
<1>4. /\ pending' = [pending EXCEPT ![s] = retained]
      /\ IF retained # <<>> THEN UNCHANGED <<ready, readySet>> ELSE Unready(s)
  BY <1>2 DEF retained
<1>5. /\ pending' \in [Sessions -> Seq(Jobs)]
      /\ pending'[s] = retained
      /\ \A t \in Sessions \ {s} : pending'[t] = pending[t]
  BY <1>3, <1>4 DEF TypeOK
<1>6. pending[s] # <<>>
  <2>1. PICK i \in 1..Len(pending[s]) : TRUE
    BY <1>1 DEF Members
  <2> QED
    BY <2>1 DEF TypeOK
<1>7. /\ ready' \in Seq(Sessions) /\ readySet' \subseteq Sessions
      /\ readySet' = Members(ready')
      /\ \A i, k \in 1..Len(ready') : ready'[i] = ready'[k] => i = k
      /\ readySet' = IF retained # <<>> THEN readySet ELSE readySet \ {s}
      /\ ready' # <<>> => ready # <<>>
  <2>1. /\ ready \in Seq(Sessions) /\ readySet \subseteq Sessions
        /\ readySet = Members(ready)
        /\ \A i, k \in 1..Len(ready) : ready[i] = ready[k] => i = k
    BY DEF TypeOK, QueueInv, ReadyExact
  <2>2. CASE retained # <<>>
    BY <1>4, <2>1, <2>2
  <2>3. CASE retained = <<>>
    <3>1. PICK pos \in KeptPositions(ready, {s}) : ready' = Filtered(ready, pos)
      BY <1>4, <2>3 DEF Unready
    <3>2. readySet' = readySet \ {s}
      BY <1>4, <2>3 DEF Unready
    <3>3. /\ ready' \in Seq(Sessions)
          /\ Members(ready') = Members(ready) \ {s}
          /\ \A i \in 1..Len(ready') : pos[i] \in 1..Len(ready) /\ ready'[i] = ready[pos[i]]
          /\ \A i, k \in 1..Len(ready') : pos[i] = pos[k] => i = k
      BY <2>1, <3>1, FilteredMembers
    <3>4. ASSUME NEW i \in 1..Len(ready'), NEW k \in 1..Len(ready'), ready'[i] = ready'[k]
          PROVE  i = k
      <4>1. /\ pos[i] \in 1..Len(ready) /\ pos[k] \in 1..Len(ready)
            /\ ready[pos[i]] = ready[pos[k]]
        BY <3>3, <3>4
      <4>2. pos[i] = pos[k]
        BY <2>1, <4>1
      <4> QED
        BY <3>3, <4>2
    <3>5. ready' # <<>> => ready # <<>>
      BY <2>1, <3>3
    <3> QED
      BY <2>1, <2>3, <3>2, <3>3, <3>4, <3>5
  <2> QED
    BY <2>2, <2>3
<1>8. TypeOK'
  BY <1>1, <1>5, <1>7 DEF TypeOK, JobState
<1>9. ReadyExact(ready, readySet, pending, activeBySession)'
  <2>1. readySet = {t \in Sessions : pending[t] # <<>> /\ activeBySession[t] = NoJob}
    BY DEF QueueInv, ReadyExact
  <2>2. readySet' = {t \in Sessions : pending'[t] # <<>> /\ activeBySession[t] = NoJob}
    BY <1>5, <1>6, <1>7, <2>1
  <2> QED
    BY <1>1, <1>7, <2>2 DEF ReadyExact
<1>10. QueuedInOwnSession(pending', jobSession)
  <2> SUFFICES ASSUME NEW t \in Sessions, NEW i \in 1..Len(pending'[t])
               PROVE  jobSession[pending'[t][i]] = t
    BY DEF QueuedInOwnSession
  <2> QED
    BY <1>3, <1>5 DEF QueueInv, QueuedInOwnSession
<1>11. QueueInv(ready, readySet, pending, activeBySession, activeByRun,
                executing, jobSession)'
  BY <1>1, <1>9, <1>10 DEF QueueInv
<1>12. FencedSessionsIdle'
  <2>1. s \notin sessionFences
    BY <1>6 DEF FencedSessionsIdle
  <2> QED
    BY <1>1, <1>5, <2>1 DEF FencedSessionsIdle, TypeOK
<1>13. WorkConserving'
  BY <1>1, <1>7 DEF WorkConserving
<1> QED
  BY <1>8, <1>11, <1>12, <1>13

(* The operations that move no job between the queues and the active maps.  *)
LEMMA RequestsKeepInv ==
  ASSUME SchedulerInv,
         \/ \E r \in Jobs : handleStartFailed(r)
         \/ \E s \in Sessions : requestStop(s)
         \/ \E r \in Jobs, accepted \in BOOLEAN : cancelSettles(r, accepted)
         \/ UNCHANGED vars
  PROVE  SchedulerInv'
<1> USE DEF SchedulerInv
<1>1. /\ UNCHANGED <<pending, ready, readySet, activeBySession, activeByRun,
                     sessionFences, keyFences, lease, runtimeReady, jobSession, published>>
      /\ executing' \subseteq executing
      /\ cancelRequest' \subseteq Jobs /\ cancelRequested' \subseteq Jobs
  <2>1. ASSUME NEW r \in Jobs, handleStartFailed(r) PROVE <1>1!:
    BY <2>1 DEF handleStartFailed, queueVars, activeVars, cancelVars, fenceVars, TypeOK
  <2>2. ASSUME NEW s \in Sessions, requestStop(s) PROVE <1>1!:
    <3>1. activeBySession[s] \in Jobs
      BY <2>2 DEF requestStop, TypeOK
    <3> QED
      BY <2>2, <3>1 DEF requestStop, queueVars, activeVars, fenceVars, TypeOK
  <2>3. ASSUME NEW r \in Jobs, NEW accepted \in BOOLEAN, cancelSettles(r, accepted)
        PROVE  <1>1!:
    BY <2>3 DEF cancelSettles, queueVars, activeVars, fenceVars, TypeOK
  <2>4. ASSUME UNCHANGED vars PROVE <1>1!:
    BY <2>4 DEF vars, queueVars, activeVars, cancelVars, fenceVars, TypeOK
  <2> QED
    BY <2>1, <2>2, <2>3, <2>4
<1>2. TypeOK'
  BY <1>1 DEF TypeOK
<1>3. QueueInv(ready, readySet, pending, activeBySession, activeByRun,
               executing, jobSession)'
  BY <1>1 DEF QueueInv
<1>4. FencedSessionsIdle' /\ WorkConserving'
  BY <1>1 DEF FencedSessionsIdle, WorkConserving
<1> QED
  BY <1>2, <1>3, <1>4

(* The fences: one is raised for an idle session only. *)
LEMMA FencesKeepInv ==
  ASSUME SchedulerInv,
         \/ \E l \in Leases, s \in Sessions, keys \in SUBSET SessionKeys :
              beginSessionDeletion(l, s, keys)
         \/ \E l \in Leases : release(l)
  PROVE  SchedulerInv'
<1> USE DEF SchedulerInv
<1>1. UNCHANGED <<pending, ready, readySet, activeBySession, activeByRun, cancelRequest,
                  cancelRequested, runtimeReady, jobSession, published, executing>>
  BY DEF beginSessionDeletion, release, queueVars, activeVars, cancelVars
<1>2. /\ sessionFences' \subseteq Sessions /\ keyFences' \subseteq SessionKeys
      /\ lease' \in [Leases -> Lease]
      /\ \A s \in sessionFences' : pending[s] = <<>> /\ activeBySession[s] = NoJob
  <2>1. ASSUME NEW l \in Leases, NEW s \in Sessions, NEW keys \in SUBSET SessionKeys,
               beginSessionDeletion(l, s, keys)
        PROVE  <1>2!:
    <3>1. pending[s] = <<>> /\ activeBySession[s] = NoJob
      BY <2>1 DEF beginSessionDeletion, hasInflightWork
    <3>2. lease' \in [Leases -> Lease]
      BY <2>1 DEF beginSessionDeletion, TypeOK, Lease
    <3> QED
      BY <2>1, <3>1, <3>2 DEF beginSessionDeletion, TypeOK, FencedSessionsIdle
  <2>2. ASSUME NEW l \in Leases, release(l) PROVE <1>2!:
    <3>1. lease' \in [Leases -> Lease]
      <4>1. [lease[l] EXCEPT !.state = "released"] \in Lease
        <5>1. lease[l] \in Lease
          BY DEF TypeOK
        <5> QED
          BY <5>1 DEF Lease
      <4>2. lease' = [lease EXCEPT ![l] = [lease[l] EXCEPT !.state = "released"]]
        BY <2>2 DEF release
      <4> QED
        BY <4>1, <4>2 DEF TypeOK
    <3> QED
      BY <2>2, <3>1 DEF release, TypeOK, FencedSessionsIdle
  <2> QED
    BY <2>1, <2>2
<1>3. TypeOK'
  BY <1>1, <1>2 DEF TypeOK
<1>4. QueueInv(ready, readySet, pending, activeBySession, activeByRun,
               executing, jobSession)'
  BY <1>1 DEF QueueInv
<1>5. FencedSessionsIdle' /\ WorkConserving'
  BY <1>1, <1>2 DEF FencedSessionsIdle, WorkConserving
<1> QED
  BY <1>3, <1>4, <1>5

LEMMA StepKeepsInv == SchedulerInv /\ [Next]_vars => SchedulerInv'
<1> SUFFICES ASSUME SchedulerInv, [Next]_vars PROVE SchedulerInv'
  OBVIOUS
<1>1. CASE \E value \in BOOLEAN : setRuntimeReady(value)
  BY <1>1, ReadinessKeepsInv
<1>2. CASE \E s \in Sessions, j \in Jobs, front \in FrontOptions : enqueue(s, j, front)
  BY <1>2, EnqueueKeepsInv
<1>3. CASE \E ev \in Completion : handleRuntimeEvent(ev)
  BY <1>3, CompletionKeepsInv
<1>4. CASE \E s \in Sessions : \E matches \in SUBSET Members(pending[s]) :
             clearPendingMatching(s, matches)
  BY <1>4, ClearKeepsInv
<1>5. CASE \/ \E r \in Jobs : handleStartFailed(r)
           \/ \E s \in Sessions : requestStop(s)
           \/ \E r \in Jobs, accepted \in BOOLEAN : cancelSettles(r, accepted)
           \/ UNCHANGED vars
  BY <1>5, RequestsKeepInv
<1>6. CASE \/ \E l \in Leases, s \in Sessions, keys \in SUBSET SessionKeys :
                beginSessionDeletion(l, s, keys)
           \/ \E l \in Leases : release(l)
  BY <1>6, FencesKeepInv
<1> QED
  BY <1>1, <1>2, <1>3, <1>4, <1>5, <1>6 DEF Next

(* The inductive invariant holds in every reachable state. *)
THEOREM SchedulerCorrect == Spec => []SchedulerInv
<1>1. Init => SchedulerInv
  BY InitEstablishes
<1>2. SchedulerInv /\ [Next]_vars => SchedulerInv'
  BY StepKeepsInv
<1> QED
  BY <1>1, <1>2, PTL DEF Spec

-----------------------------------------------------------------------------
(* Every variable of the scheduler keeps its type. *)
THEOREM SchedulerTypes == Spec => []TypeOK
<1>1. SchedulerInv => TypeOK
  BY DEF SchedulerInv
<1> QED
  BY <1>1, SchedulerCorrect, PTL

(* However completions, stops and fences interleave, the Runtime never has  *)
(* two turns of one session.                                                *)
THEOREM SessionsAreSerial == Spec => []SerialSessions
<1>1. SchedulerInv => SerialSessions
  <2> SUFFICES ASSUME SchedulerInv, NEW r1 \in executing, NEW r2 \in executing,
                      jobSession[r1] = jobSession[r2]
               PROVE  r1 = r2
    BY DEF SerialSessions
  <2>1. \A r \in executing : \E s \in Sessions : activeBySession[s] = r /\ jobSession[r] = s
    BY DEF SchedulerInv, QueueInv, MapsAgree
  <2> QED
    BY <2>1
<1> QED
  BY <1>1, SchedulerCorrect, PTL

(* drain() respects maxConcurrency for every number of sessions, and the    *)
(* runs it counts are all the Runtime has.                                  *)
THEOREM ConcurrencyIsBounded == Spec => []BoundedConcurrency
<1>1. SchedulerInv => BoundedConcurrency
  BY DEF SchedulerInv, QueueInv, MapsAgree, BoundedConcurrency
<1> QED
  BY <1>1, SchedulerCorrect, PTL

(* markReady(), drain() and clearPendingMatching() keep ready exact: no     *)
(* waiting session is forgotten and none is listed twice.                   *)
THEOREM NoSessionForgotten == Spec => []ReadyIsExact
<1>1. SchedulerInv => ReadyIsExact
  BY DEF SchedulerInv, QueueInv, ReadyExact, ReadyIsExact
<1> QED
  BY <1>1, SchedulerCorrect, PTL

(* No slot stays free while a session waits and the Runtime is up. *)
THEOREM SlotsAreUsed == Spec => []WorkConserving
<1>1. SchedulerInv => WorkConserving
  BY DEF SchedulerInv
<1> QED
  BY <1>1, SchedulerCorrect, PTL

(* Leases that are held have raised different fences, so the release of one *)
(* takes down its own only.                                                 *)
LeasesDisjoint ==
  \A a, b \in Leases :
    a # b /\ lease[a].state = "held" /\ lease[b].state = "held" =>
      /\ lease[a].session # lease[b].session
      /\ lease[a].keys \cap lease[b].keys = {}

LEMMA FencesFollowLeases ==
  ASSUME TypeOK, FencesMatchLeases, LeasesDisjoint, [Next]_vars
  PROVE  FencesMatchLeases' /\ LeasesDisjoint'
<1> DEFINE held == {l \in Leases : lease[l].state = "held"}
<1>1. /\ lease \in [Leases -> Lease]
      /\ sessionFences = {lease[l].session : l \in held}
      /\ keyFences = UNION {lease[l].keys : l \in held}
  BY DEF TypeOK, FencesMatchLeases
<1>2. ASSUME NEW l \in Leases, NEW s \in Sessions, NEW keys \in SUBSET SessionKeys,
             beginSessionDeletion(l, s, keys)
      PROVE  FencesMatchLeases' /\ LeasesDisjoint'
  <2>1. lease' = [lease EXCEPT ![l] = [state |-> "held", session |-> s, keys |-> keys]]
    BY <1>2 DEF beginSessionDeletion
  <2>2. held' = held \cup {l} /\ l \notin held
    BY <1>1, <1>2, <2>1 DEF beginSessionDeletion
  <2>3. \A a \in held : lease'[a] = lease[a] /\ a # l
    BY <1>1, <2>1, <2>2
  <2>4. lease'[l].session = s /\ lease'[l].keys = keys
    BY <1>1, <2>1
  <2>5. sessionFences' = {lease'[a].session : a \in held'}
    BY <1>1, <1>2, <2>2, <2>3, <2>4 DEF beginSessionDeletion
  <2>6. keyFences' = UNION {lease'[a].keys : a \in held'}
    BY <1>1, <1>2, <2>2, <2>3, <2>4 DEF beginSessionDeletion
  <2>7. \A a \in held : lease[a].session # s /\ lease[a].keys \cap keys = {}
    BY <1>1, <1>2 DEF beginSessionDeletion, KeysFree
  <2>8. LeasesDisjoint'
    BY <2>2, <2>3, <2>4, <2>7 DEF LeasesDisjoint
  <2> QED
    BY <2>5, <2>6, <2>8 DEF FencesMatchLeases
<1>3. ASSUME NEW l \in Leases, release(l)
      PROVE  FencesMatchLeases' /\ LeasesDisjoint'
  <2>1. lease' = [lease EXCEPT ![l].state = "released"] /\ l \in held
    BY <1>3 DEF release, Unreleased
  <2>2. held' = held \ {l}
    BY <1>1, <2>1
  <2>3. \A a \in held' : lease'[a] = lease[a]
    BY <1>1, <2>1, <2>2
  <2>4. \A a \in held' : lease[a].session # lease[l].session
                         /\ lease[a].keys \cap lease[l].keys = {}
    BY <2>1, <2>2 DEF LeasesDisjoint
  <2>5. sessionFences' = {lease'[a].session : a \in held'}
    BY <1>1, <1>3, <2>1, <2>2, <2>3, <2>4 DEF release
  <2>6. keyFences' = UNION {lease'[a].keys : a \in held'}
    BY <1>1, <1>3, <2>1, <2>2, <2>3, <2>4 DEF release
  <2>7. LeasesDisjoint'
    BY <2>2, <2>3 DEF LeasesDisjoint
  <2> QED
    BY <2>5, <2>6, <2>7 DEF FencesMatchLeases
<1>4. CASE UNCHANGED fenceVars
  BY <1>4 DEF FencesMatchLeases, LeasesDisjoint, fenceVars
<1>5. CASE \/ \E value \in BOOLEAN : setRuntimeReady(value)
           \/ \E s \in Sessions, j \in Jobs, front \in FrontOptions : enqueue(s, j, front)
           \/ \E ev \in Completion : handleRuntimeEvent(ev)
           \/ \E s \in Sessions : \E matches \in SUBSET Members(pending[s]) :
                clearPendingMatching(s, matches)
           \/ \E r \in Jobs : handleStartFailed(r)
           \/ \E s \in Sessions : requestStop(s)
           \/ \E r \in Jobs, accepted \in BOOLEAN : cancelSettles(r, accepted)
           \/ UNCHANGED vars
  BY <1>4, <1>5 DEF setRuntimeReady, enqueue, handleRuntimeEvent, clearPendingMatching,
     handleStartFailed, requestStop, cancelSettles, vars, fenceVars
<1> QED
  BY <1>2, <1>3, <1>5 DEF Next

(* A session that is being deleted is fenced until its lease is released,   *)
(* and neither runs nor waits.                                              *)
THEOREM FencesHold == Spec => []DeletionsAreFenced
<1>1. Init => FencesMatchLeases /\ LeasesDisjoint
  BY DEF Init, UnusedLease, FencesMatchLeases, LeasesDisjoint
<1>2. FencesMatchLeases /\ LeasesDisjoint /\ SchedulerInv /\ [Next]_vars
      => (FencesMatchLeases /\ LeasesDisjoint)'
  BY FencesFollowLeases DEF SchedulerInv
<1>3. SchedulerInv => FencedSessionsIdle
  BY DEF SchedulerInv
<1> QED
  BY <1>1, <1>2, <1>3, SchedulerCorrect, PTL DEF Spec, DeletionsAreFenced

(* activeBySession and activeByRun never drift apart. *)
THEOREM ActiveMapsStayInStep == Spec => []ActiveMapsAgree
<1>1. SchedulerInv => ActiveMapsAgree
  BY DEF SchedulerInv, QueueInv, MapsAgree, ActiveMapsAgree
<1> QED
  BY <1>1, SchedulerCorrect, PTL

-----------------------------------------------------------------------------
(* Only the completion of a run takes it out of activeByRun: drain() adds.  *)
LEMMA DrainKeepsRuns ==
  ASSUME NEW isReady, NEW rdy, NEW rset, NEW pend, NEW active, NEW runs,
         NEW pub, NEW exec,
         drain(isReady, rdy, rset, pend, active, runs, pub, exec)
  PROVE  runs \subseteq activeByRun'
  BY DEF drain

(* What drain() publishes: a job it does not start keeps the state that     *)
(* was published before, and what it starts is in activeByRun.              *)
LEMMA DrainPublishesStarts ==
  ASSUME NEW isReady, NEW rdy, NEW rset, NEW pend, NEW active, NEW runs,
         NEW pub, NEW exec, NEW r \in Jobs,
         drain(isReady, rdy, rset, pend, active, runs, pub, exec),
         r \notin activeByRun'
  PROVE  published'[r] = pub[r]
  BY DEF drain

(* The end of a run whose stop was accepted is published as a cancellation  *)
(* and makes no job out of the steering that was left over.                 *)
THEOREM AcceptedStopsEndTurns == Spec => AcceptedStopEndsTheTurn
<1>1. ASSUME TypeOK, [Next]_vars, NEW r \in activeByRun \cap cancelRequested,
             r \notin activeByRun'
      PROVE  jobSession' = jobSession /\ published'[r] = "cancelled"
  <2>0. r \in Jobs /\ published \in [Jobs -> JobState]
    BY <1>1 DEF TypeOK
  <2>1. CASE \E ev \in Completion : handleRuntimeEvent(ev)
    <3>1. PICK ev \in Completion : handleRuntimeEvent(ev)
      BY <2>1
    <3>2. activeByRun \ {ev.run} \subseteq activeByRun'
      BY <3>1, DrainKeepsRuns DEF handleRuntimeEvent
    <3>3. Cancelled(ev) /\ ev.run = r
      BY <1>1, <3>2 DEF Cancelled
    <3>4. jobSession' = jobSession
      BY <3>1, <3>3 DEF handleRuntimeEvent, requeueRemainingSteering
    <3>5. published'[r] = [published EXCEPT ![ev.run] = FinalState(ev)][r]
      <4>1. \E rdy, rset, pend, active, runs, exec :
              drain(runtimeReady, rdy, rset, pend, active, runs,
                    [published EXCEPT ![ev.run] = FinalState(ev)], exec)
        BY <3>1, Zenon DEF handleRuntimeEvent
      <4>2. PICK rdy, rset, pend, active, runs, exec :
              drain(runtimeReady, rdy, rset, pend, active, runs,
                    [published EXCEPT ![ev.run] = FinalState(ev)], exec)
        BY <4>1
      <4> DEFINE before == [published EXCEPT ![ev.run] = FinalState(ev)]
      <4>3. drain(runtimeReady, rdy, rset, pend, active, runs, before, exec)
        BY <4>2
      <4> HIDE DEF before
      <4>4. published'[r] = before[r]
        BY <1>1, <2>0, <4>3, DrainPublishesStarts
      <4> QED
        BY <4>4 DEF before
    <3>6. published'[r] = "cancelled"
      BY <2>0, <3>3, <3>5 DEF FinalState
    <3> QED
      BY <3>4, <3>6
  <2>2. CASE \E value \in BOOLEAN : setRuntimeReady(value)
    BY <1>1, <2>2, DrainKeepsRuns DEF setRuntimeReady
  <2>3. CASE \E s \in Sessions, j \in Jobs, front \in FrontOptions : enqueue(s, j, front)
    BY <1>1, <2>3, DrainKeepsRuns DEF enqueue
  <2>4. CASE \/ \E s \in Sessions : \E matches \in SUBSET Members(pending[s]) :
                 clearPendingMatching(s, matches)
             \/ \E q \in Jobs : handleStartFailed(q)
             \/ \E s \in Sessions : requestStop(s)
             \/ \E q \in Jobs, accepted \in BOOLEAN : cancelSettles(q, accepted)
             \/ \E l \in Leases, s \in Sessions, keys \in SUBSET SessionKeys :
                 beginSessionDeletion(l, s, keys)
             \/ \E l \in Leases : release(l)
             \/ UNCHANGED vars
    BY <1>1, <2>4 DEF clearPendingMatching, handleStartFailed, requestStop, cancelSettles,
                beginSessionDeletion, release, vars, activeVars
  <2> QED
    BY <1>1, <2>1, <2>2, <2>3, <2>4 DEF Next
<1>2. TypeOK /\ [Next]_vars =>
        [\A r \in activeByRun \cap cancelRequested :
           r \notin activeByRun' =>
             jobSession' = jobSession /\ published'[r] = "cancelled"]_vars
  BY <1>1
<1> QED
  BY <1>2, SchedulerTypes, PTL DEF Spec, AcceptedStopEndsTheTurn

-----------------------------------------------------------------------------
(* The refinement of TurnDispatch.  A job is in one place at a time: once   *)
(* in a queue, or running, or neither.                                      *)
OncePlaced(pend, runs) ==
  /\ \A s \in Sessions : \A i, k \in 1..Len(pend[s]) : pend[s][i] = pend[s][k] => i = k
  /\ \A s \in Sessions : Members(pend[s]) \cap runs = {}

JobsInOnePlace == OncePlaced(pending, activeByRun)

(* How jobs may move between two states of the queues and the runs: into a  *)
(* queue only as new jobs, into a run from a queue or as new ones, and out  *)
(* of "new" only into one of the two.                                       *)
Arrivals(own, pend, own2, pend2) ==
  /\ \A j \in Jobs : own[j] # NoSession => own2[j] = own[j]
  /\ \A s \in Sessions : \A j \in Members(pend2[s]) :
       own[j] = NoSession \/ j \in Members(pend[s])

Starts(own, pend, runs, runs2) ==
  \A j \in runs2 : j \in runs \/ own[j] = NoSession \/ j \in Members(pend[own[j]])

NewOnesWait(own, own2, pend2, runs2) ==
  \A j \in Jobs : own[j] = NoSession /\ own2[j] # NoSession =>
                    j \in runs2 \/ j \in Members(pend2[own2[j]])

Advance(own, pend, runs, own2, pend2, runs2) ==
  /\ Arrivals(own, pend, own2, pend2)
  /\ Starts(own, pend, runs, runs2)
  /\ NewOnesWait(own, own2, pend2, runs2)

(* drain() moves jobs from the queues to the runs and loses none. *)
LEMMA DrainMovesJobs ==
  ASSUME NEW isReady, NEW rdy, NEW rset, NEW pend \in [Sessions -> Seq(Jobs)],
         NEW active, NEW runs \in SUBSET Jobs, NEW pub, NEW exec,
         NEW own \in [Jobs -> Sessions \cup {NoSession}],
         QueuedInOwnSession(pend, own), OncePlaced(pend, runs),
         drain(isReady, rdy, rset, pend, active, runs, pub, exec)
  PROVE  /\ OncePlaced(pending', activeByRun')
         /\ runs \subseteq activeByRun'
         /\ \A j \in activeByRun' \ runs : own[j] \in Sessions /\ j \in Members(pend[own[j]])
         /\ \A s \in Sessions : /\ Members(pending'[s]) \subseteq Members(pend[s])
                                /\ Members(pend[s]) \subseteq Members(pending'[s]) \cup activeByRun'
<1>1. PICK k \in 0..Len(rdy) :
        LET started == Dispatched(k, rdy, pend, active)
            firsts  == {Head(pend[s]) : s \in started}
        IN /\ pending' = [s \in Sessions |->
                            IF s \in started THEN Tail(pend[s]) ELSE pend[s]]
           /\ activeByRun' = runs \cup firsts
  BY DEF drain
<1> DEFINE started == Dispatched(k, rdy, pend, active)
           firsts  == {Head(pend[s]) : s \in started}
<1>2. \A s \in started : s \in Sessions /\ pend[s] \in Seq(Jobs) /\ pend[s] # <<>>
  BY DEF Dispatched
<1>3. /\ \A s \in Sessions : pending'[s] = IF s \in started THEN Tail(pend[s]) ELSE pend[s]
      /\ activeByRun' = runs \cup firsts
  BY <1>1
<1> HIDE DEF started
<1>4. \A s \in started : /\ Len(pend[s]) \in Nat \ {0}
                         /\ Head(pend[s]) = pend[s][1]
                         /\ Len(pending'[s]) = Len(pend[s]) - 1
                         /\ \A i \in 1..(Len(pend[s]) - 1) : pending'[s][i] = pend[s][i + 1]
  <2> SUFFICES ASSUME NEW s \in started
               PROVE  /\ Len(pend[s]) \in Nat \ {0}
                      /\ Head(pend[s]) = pend[s][1]
                      /\ Len(pending'[s]) = Len(pend[s]) - 1
                      /\ \A i \in 1..(Len(pend[s]) - 1) : pending'[s][i] = pend[s][i + 1]
    OBVIOUS
  <2>1. pend[s] \in Seq(Jobs) /\ pend[s] # <<>> /\ pending'[s] = Tail(pend[s])
    BY <1>2, <1>3
  <2> QED
    BY <2>1
<1>5. \A s \in started : /\ pend[s][1] \in firsts
                         /\ Members(pend[s]) = Members(pending'[s]) \cup {pend[s][1]}
                         /\ own[pend[s][1]] = s
                         /\ pend[s][1] \notin Members(pending'[s])
  <2> SUFFICES ASSUME NEW s \in started
               PROVE  /\ pend[s][1] \in firsts
                      /\ Members(pend[s]) = Members(pending'[s]) \cup {pend[s][1]}
                      /\ own[pend[s][1]] = s
                      /\ pend[s][1] \notin Members(pending'[s])
    OBVIOUS
  <2> DEFINE q == pend[s]
             t == pending'[s]
             n == Len(pend[s])
  <2>1. /\ n \in Nat \ {0} /\ Len(q) = n /\ Len(t) = n - 1
        /\ \A i \in 1..(n - 1) : t[i] = q[i + 1]
    BY <1>4
  <2>2. q[1] \in firsts
    BY <1>4
  <2> HIDE DEF q, t, n
  <2>3. Members(q) \subseteq Members(t) \cup {q[1]}
    <3> SUFFICES ASSUME NEW i \in 1..n, i # 1 PROVE q[i] \in Members(t)
      BY <2>1 DEF Members
    <3>1. i - 1 \in 1..(n - 1) /\ (i - 1) + 1 = i
      BY <2>1
    <3>2. t[i - 1] = q[i]
      BY <2>1, <3>1
    <3> QED
      BY <2>1, <3>1, <3>2 DEF Members
  <2>4. Members(t) \subseteq Members(q) /\ q[1] \in Members(q)
    <3>1. \A i \in 1..(n - 1) : i + 1 \in 1..n
      BY <2>1
    <3>2. 1 \in 1..n
      BY <2>1
    <3> QED
      BY <2>1, <3>1, <3>2 DEF Members
  <2>5. q[1] \notin Members(t)
    <3> SUFFICES ASSUME NEW i \in 1..(n - 1), t[i] = q[1] PROVE FALSE
      BY <2>1 DEF Members
    <3>1. i + 1 \in 1..n /\ 1 \in 1..n /\ q[i + 1] = q[1]
      BY <2>1
    <3>2. i + 1 = 1
      BY <1>2, <2>1, <3>1 DEF OncePlaced, q
    <3> QED
      BY <3>2
  <2>6. own[q[1]] = s
    <3>1. 1 \in 1..n
      BY <2>1
    <3> QED
      BY <1>2, <2>1, <3>1 DEF QueuedInOwnSession, q
  <2> QED
    BY <2>2, <2>3, <2>4, <2>5, <2>6 DEF q, t
<1>6. \A j \in firsts : \E s \in started : j = pend[s][1]
  BY <1>4
<1> HIDE DEF firsts
<1>7. \A s \in Sessions : /\ Members(pending'[s]) \subseteq Members(pend[s])
                          /\ Members(pend[s]) \subseteq Members(pending'[s]) \cup activeByRun'
  <2> SUFFICES ASSUME NEW s \in Sessions
               PROVE  /\ Members(pending'[s]) \subseteq Members(pend[s])
                      /\ Members(pend[s]) \subseteq Members(pending'[s]) \cup activeByRun'
    OBVIOUS
  <2>1. CASE s \in started
    <3>1. Members(pend[s]) = Members(pending'[s]) \cup {pend[s][1]} /\ pend[s][1] \in firsts
      BY <1>5, <2>1
    <3>2. firsts \subseteq activeByRun'
      BY <1>3
    <3> QED
      BY <3>1, <3>2
  <2>2. CASE s \notin started
    <3>1. pending'[s] = pend[s]
      BY <1>3, <2>2
    <3> QED
      BY <3>1
  <2> QED
    BY <2>1, <2>2
<1>8. \A j \in activeByRun' \ runs : own[j] \in Sessions /\ j \in Members(pend[own[j]])
  <2> SUFFICES ASSUME NEW j \in activeByRun' \ runs
               PROVE  own[j] \in Sessions /\ j \in Members(pend[own[j]])
    OBVIOUS
  <2>1. PICK s \in started : j = pend[s][1]
    BY <1>3, <1>6
  <2>2. s \in Sessions /\ own[j] = s /\ j \in Members(pend[s])
    BY <1>2, <1>5, <2>1
  <2> QED
    BY <2>2
<1>9. \A s \in Sessions : Members(pending'[s]) \cap activeByRun' = {}
  <2> SUFFICES ASSUME NEW s \in Sessions, NEW j \in Members(pending'[s]), j \in activeByRun'
               PROVE  FALSE
    OBVIOUS
  <2>1. j \in Members(pend[s])
    BY <1>7
  <2>2. own[j] = s
    BY <2>1 DEF Members, QueuedInOwnSession
  <2>3. j \notin runs
    BY <2>1 DEF OncePlaced
  <2>4. PICK t \in started : j = pend[t][1]
    BY <1>3, <1>6, <2>3
  <2>5. t = s
    BY <1>5, <2>2, <2>4
  <2> QED
    BY <1>5, <2>4, <2>5
<1>10. ASSUME NEW s \in Sessions, NEW i \in 1..Len(pending'[s]), NEW m \in 1..Len(pending'[s]),
              pending'[s][i] = pending'[s][m]
       PROVE  i = m
  <2>1. CASE s \in started
    <3>1. /\ i + 1 \in 1..Len(pend[s]) /\ m + 1 \in 1..Len(pend[s])
          /\ pend[s][i + 1] = pend[s][m + 1]
      BY <1>4, <1>10, <2>1
    <3>2. i + 1 = m + 1
      BY <3>1 DEF OncePlaced
    <3> QED
      BY <3>2
  <2>2. CASE s \notin started
    BY <1>3, <1>10, <2>2 DEF OncePlaced
  <2> QED
    BY <2>1, <2>2
<1> QED
  BY <1>3, <1>7, <1>8, <1>9, <1>10 DEF OncePlaced

(* A job put into a queue is in it once. *)
LEMMA PlacedMembers ==
  ASSUME NEW q \in Seq(Jobs), NEW j \in Jobs, NEW front \in BOOLEAN, j \notin Members(q),
         \A i, k \in 1..Len(q) : q[i] = q[k] => i = k
  PROVE  LET p == Placed(q, j, front)
         IN /\ p \in Seq(Jobs)
            /\ Members(p) = Members(q) \cup {j}
            /\ \A i, k \in 1..Len(p) : p[i] = p[k] => i = k
<1>1. CASE front
  <2> DEFINE p == <<j>> \o q
  <2>1. /\ p \in Seq(Jobs) /\ Len(p) = Len(q) + 1 /\ p[1] = j /\ Len(q) \in Nat
        /\ \A i \in 1..Len(q) : p[i + 1] = q[i]
        /\ \A i \in 2..(Len(q) + 1) : i - 1 \in 1..Len(q) /\ p[i] = q[i - 1]
    OBVIOUS
  <2> HIDE DEF p
  <2>2. \A i \in 1..Len(p) : i = 1 \/ i \in 2..(Len(q) + 1)
    BY <2>1
  <2>3. Members(p) \subseteq Members(q) \cup {j}
    BY <2>1, <2>2 DEF Members
  <2>4. Members(q) \cup {j} \subseteq Members(p)
    <3>1. 1 \in 1..Len(p) /\ \A i \in 1..Len(q) : i + 1 \in 1..Len(p)
      BY <2>1
    <3> QED
      BY <2>1, <3>1 DEF Members
  <2>5. \A i, k \in 1..Len(p) : p[i] = p[k] => i = k
    <3> SUFFICES ASSUME NEW i \in 1..Len(p), NEW k \in 1..Len(p), p[i] = p[k] PROVE i = k
      OBVIOUS
    <3>1. \A m \in 2..(Len(q) + 1) : p[m] \in Members(q)
      BY <2>1 DEF Members
    <3>2. (i = 1 <=> k = 1)
      BY <2>1, <2>2, <3>1
    <3>3. CASE i # 1
      <4>1. i \in 2..(Len(q) + 1) /\ k \in 2..(Len(q) + 1)
        BY <2>2, <3>2, <3>3
      <4>2. i - 1 \in 1..Len(q) /\ k - 1 \in 1..Len(q) /\ q[i - 1] = q[k - 1]
        BY <2>1, <4>1
      <4>3. i - 1 = k - 1
        BY <4>2
      <4> QED
        BY <4>1, <4>3
    <3> QED
      BY <3>2, <3>3
  <2> QED
    BY <1>1, <2>1, <2>3, <2>4, <2>5 DEF Placed, p
<1>2. CASE ~front
  <2> DEFINE p == Append(q, j)
  <2>1. /\ p \in Seq(Jobs) /\ Len(p) = Len(q) + 1 /\ p[Len(q) + 1] = j /\ Len(q) \in Nat
        /\ \A i \in 1..Len(q) : p[i] = q[i]
    OBVIOUS
  <2> HIDE DEF p
  <2>2. \A i \in 1..Len(p) : i = Len(q) + 1 \/ i \in 1..Len(q)
    BY <2>1
  <2>3. Members(p) = Members(q) \cup {j}
    <3>1. Len(q) + 1 \in 1..Len(p) /\ \A i \in 1..Len(q) : i \in 1..Len(p)
      BY <2>1
    <3>2. Members(p) \subseteq Members(q) \cup {j}
      BY <2>1, <2>2 DEF Members
    <3>3. Members(q) \cup {j} \subseteq Members(p)
      BY <2>1, <3>1 DEF Members
    <3> QED
      BY <3>2, <3>3
  <2>4. \A i, k \in 1..Len(p) : p[i] = p[k] => i = k
    <3>1. \A m \in 1..Len(q) : p[m] \in Members(q)
      BY <2>1 DEF Members
    <3> QED
      BY <2>1, <2>2, <3>1
  <2> QED
    BY <1>2, <2>1, <2>3, <2>4 DEF Placed, p
<1> QED
  BY <1>1, <1>2

(* A handler that ends with drain() advances the jobs, if what it did       *)
(* before only put new jobs into queues and ended runs.                     *)
LEMMA DrainAdvances ==
  ASSUME TypeOK, NEW isReady, NEW rdy, NEW rset, NEW pend \in [Sessions -> Seq(Jobs)],
         NEW active, NEW runs \in SUBSET activeByRun, NEW pub, NEW exec,
         NEW own \in [Jobs -> Sessions \cup {NoSession}],
         QueuedInOwnSession(pend, own), OncePlaced(pend, runs),
         Arrivals(jobSession, pending, own, pend),
         NewOnesWait(jobSession, own, pend, runs),
         drain(isReady, rdy, rset, pend, active, runs, pub, exec)
  PROVE  /\ JobsInOnePlace'
         /\ Advance(jobSession, pending, activeByRun, own, pending', activeByRun')
<1>1. runs \subseteq Jobs
  BY DEF TypeOK
<1>2. /\ OncePlaced(pending', activeByRun')
      /\ runs \subseteq activeByRun'
      /\ \A j \in activeByRun' \ runs : own[j] \in Sessions /\ j \in Members(pend[own[j]])
      /\ \A s \in Sessions : /\ Members(pending'[s]) \subseteq Members(pend[s])
                             /\ Members(pend[s]) \subseteq Members(pending'[s]) \cup activeByRun'
  BY <1>1, DrainMovesJobs
<1>3. \A s \in Sessions : Members(pend[s]) \subseteq Jobs
  BY DEF Members
<1>4. Arrivals(jobSession, pending, own, pending')
  BY <1>2 DEF Arrivals
<1>5. Starts(jobSession, pending, activeByRun, activeByRun')
  <2> SUFFICES ASSUME NEW j \in activeByRun', j \notin activeByRun, jobSession[j] # NoSession
               PROVE  j \in Members(pending[jobSession[j]])
    BY DEF Starts
  <2>1. own[j] \in Sessions /\ j \in Members(pend[own[j]]) /\ j \in Jobs
    BY <1>2, <1>3
  <2>2. own[j] = jobSession[j]
    BY <2>1 DEF Arrivals
  <2> QED
    BY <2>1, <2>2 DEF Arrivals
<1>6. NewOnesWait(jobSession, own, pending', activeByRun')
  BY <1>2 DEF NewOnesWait
<1> QED
  BY <1>2, <1>4, <1>5, <1>6 DEF JobsInOnePlace, Advance

LEMMA EnqueueAdvances ==
  ASSUME SchedulerInv, JobsInOnePlace, NEW s \in Sessions, NEW j \in Jobs,
         NEW front \in FrontOptions, enqueue(s, j, front)
  PROVE  /\ JobsInOnePlace'
         /\ Advance(jobSession, pending, activeByRun, jobSession', pending', activeByRun')
<1> DEFINE pend == [pending EXCEPT ![s] = Placed(@, j, front)]
           pub  == [published EXCEPT ![j] = "queued"]
           mark == markReady(s, ready, readySet, pend, activeBySession)
<1>1. /\ jobSession[j] = NoSession
      /\ drain(runtimeReady, mark.ready, mark.set, pend, activeBySession,
               activeByRun, pub, executing)
      /\ jobSession' = [jobSession EXCEPT ![j] = s]
  BY DEF enqueue, Fresh
<1>2. TypeOK /\ QueuedInOwnSession(pending, jobSession) /\ MapsAgree(activeBySession, activeByRun, jobSession)
  BY DEF SchedulerInv, QueueInv
<1>3. \A t \in Sessions : j \notin Members(pending[t])
  BY <1>1, <1>2, NullAssumption DEF QueuedInOwnSession, Members
<1>4. j \notin activeByRun
  BY <1>1, <1>2, NullAssumption DEF MapsAgree
<1>5. /\ Placed(pending[s], j, front) \in Seq(Jobs)
      /\ Members(Placed(pending[s], j, front)) = Members(pending[s]) \cup {j}
      /\ \A i, k \in 1..Len(Placed(pending[s], j, front)) :
           Placed(pending[s], j, front)[i] = Placed(pending[s], j, front)[k] => i = k
  <2>1. pending[s] \in Seq(Jobs) /\ front \in BOOLEAN
    BY <1>2, FrontAssumption DEF TypeOK
  <2>2. \A i, k \in 1..Len(pending[s]) : pending[s][i] = pending[s][k] => i = k
    BY DEF JobsInOnePlace, OncePlaced
  <2> QED
    BY <1>3, <2>1, <2>2, PlacedMembers
<1>6. pend \in [Sessions -> Seq(Jobs)] /\ jobSession' \in [Jobs -> Sessions \cup {NoSession}]
  BY <1>1, <1>2, <1>5 DEF TypeOK
<1>7. \A t \in Sessions : pend[t] = IF t = s THEN Placed(pending[s], j, front) ELSE pending[t]
  BY <1>2 DEF TypeOK
<1>8. \A q \in Jobs : jobSession'[q] = IF q = j THEN s ELSE jobSession[q]
  BY <1>1, <1>2 DEF TypeOK
<1> HIDE DEF pend, mark
<1>9. \A t \in Sessions : Members(pend[t]) = IF t = s THEN Members(pending[s]) \cup {j}
                                                      ELSE Members(pending[t])
  BY <1>5, <1>7
<1>10. OncePlaced(pend, activeByRun)
  <2>1. \A t \in Sessions : Members(pend[t]) \cap activeByRun = {}
    BY <1>4, <1>9 DEF JobsInOnePlace, OncePlaced
  <2>2. \A t \in Sessions : \A i, k \in 1..Len(pend[t]) : pend[t][i] = pend[t][k] => i = k
    BY <1>5, <1>7 DEF JobsInOnePlace, OncePlaced
  <2> QED
    BY <2>1, <2>2 DEF OncePlaced
<1>11. \A t \in Sessions : \A q \in Members(pend[t]) : q \in Jobs /\ jobSession'[q] = t
  <2>1. \A t \in Sessions : \A q \in Members(pending[t]) : q \in Jobs /\ jobSession[q] = t
    BY <1>2 DEF QueuedInOwnSession, Members, TypeOK
  <2> QED
    BY <1>3, <1>8, <1>9, <2>1
<1>12. QueuedInOwnSession(pend, jobSession')
  BY <1>11 DEF QueuedInOwnSession, Members
<1>13. Arrivals(jobSession, pending, jobSession', pend)
  BY <1>1, <1>8, <1>9 DEF Arrivals
<1>14. NewOnesWait(jobSession, jobSession', pend, activeByRun)
  BY <1>8, <1>9 DEF NewOnesWait
<1> QED
  BY <1>1, <1>2, <1>6, <1>10, <1>12, <1>13, <1>14, DrainAdvances

LEMMA CompletionAdvances ==
  ASSUME SchedulerInv, JobsInOnePlace, NEW ev \in Completion, handleRuntimeEvent(ev)
  PROVE  /\ JobsInOnePlace'
         /\ Advance(jobSession, pending, activeByRun, jobSession', pending', activeByRun')
<1> DEFINE r == ev.run
           s == jobSession[r]
           active == [activeBySession EXCEPT ![s] = NoJob]
           runs == activeByRun \ {r}
           pub  == [published EXCEPT ![r] = FinalState(ev)]
           exec == executing \ Finished(ev)
           Pend(j) == IF j = NoJob THEN pending ELSE [pending EXCEPT ![s] = <<j>> \o @]
           Mark(j) == markReady(s, ready, readySet, Pend(j), active)
<1>1. PICK j \in Jobs \cup {NoJob} :
        /\ requeueRemainingSteering(ev, s, j)
        /\ drain(runtimeReady, Mark(j).ready, Mark(j).set, Pend(j), active, runs, pub, exec)
  BY DEF handleRuntimeEvent
<1>2. TypeOK /\ QueuedInOwnSession(pending, jobSession) /\ MapsAgree(activeBySession, activeByRun, jobSession)
  BY DEF SchedulerInv, QueueInv
<1>3. s \in Sessions
  <2>1. r \in activeByRun
    BY DEF handleRuntimeEvent, Accepts
  <2> QED
    BY <1>2, <2>1 DEF MapsAgree
<1> HIDE DEF s, runs
<1>4. \A t \in Sessions : \A q \in Members(pending[t]) : q \in Jobs /\ jobSession[q] = t
  BY <1>2 DEF QueuedInOwnSession, Members, TypeOK
<1>5. runs \in SUBSET activeByRun
  BY DEF runs
<1>6. CASE j = NoJob
  <2>1. Pend(j) = pending /\ jobSession' = jobSession
    BY <1>1, <1>6, NullAssumption DEF requeueRemainingSteering
  <2>2. OncePlaced(pending, runs)
    BY <1>5 DEF JobsInOnePlace, OncePlaced
  <2>3. Arrivals(jobSession, pending, jobSession, pending) /\ NewOnesWait(jobSession, jobSession, pending, runs)
    BY DEF Arrivals, NewOnesWait
  <2>4. pending \in [Sessions -> Seq(Jobs)] /\ jobSession \in [Jobs -> Sessions \cup {NoSession}]
    BY <1>2 DEF TypeOK
  <2>5. drain(runtimeReady, Mark(j).ready, Mark(j).set, pending, active, runs, pub, exec)
    BY <1>1, <2>1
  <2> HIDE DEF Mark, Pend, active, pub, exec
  <2> QED
    BY <1>2, <1>5, <2>1, <2>2, <2>3, <2>4, <2>5, DrainAdvances
<1>7. CASE j # NoJob
  <2> DEFINE pend == Pend(j)
  <2>1. /\ j \in Jobs /\ jobSession[j] = NoSession
        /\ jobSession' = [jobSession EXCEPT ![j] = s]
        /\ pend = [pending EXCEPT ![s] = <<j>> \o @]
    BY <1>1, <1>7 DEF requeueRemainingSteering, Fresh
  <2>2. \A t \in Sessions : j \notin Members(pending[t])
    BY <1>4, <2>1, NullAssumption
  <2>3. j \notin activeByRun
    BY <1>2, <2>1, NullAssumption DEF MapsAgree
  <2>4. /\ <<j>> \o pending[s] \in Seq(Jobs)
        /\ Members(<<j>> \o pending[s]) = Members(pending[s]) \cup {j}
        /\ \A i, k \in 1..Len(<<j>> \o pending[s]) :
             (<<j>> \o pending[s])[i] = (<<j>> \o pending[s])[k] => i = k
    <3>1. pending[s] \in Seq(Jobs)
      BY <1>2, <1>3 DEF TypeOK
    <3>2. \A i, k \in 1..Len(pending[s]) : pending[s][i] = pending[s][k] => i = k
      BY <1>3 DEF JobsInOnePlace, OncePlaced
    <3>3. Placed(pending[s], j, TRUE) = <<j>> \o pending[s]
      BY DEF Placed
    <3>4. /\ Placed(pending[s], j, TRUE) \in Seq(Jobs)
          /\ Members(Placed(pending[s], j, TRUE)) = Members(pending[s]) \cup {j}
          /\ \A i, k \in 1..Len(Placed(pending[s], j, TRUE)) :
               Placed(pending[s], j, TRUE)[i] = Placed(pending[s], j, TRUE)[k] => i = k
      BY <1>3, <2>1, <2>2, <3>1, <3>2, PlacedMembers
    <3> QED
      BY <3>3, <3>4
  <2>5. pend \in [Sessions -> Seq(Jobs)] /\ jobSession' \in [Jobs -> Sessions \cup {NoSession}]
    BY <1>2, <1>3, <2>1, <2>4 DEF TypeOK
  <2>6. \A t \in Sessions : pend[t] = IF t = s THEN <<j>> \o pending[s] ELSE pending[t]
    BY <1>2, <2>1 DEF TypeOK
  <2>7. \A q \in Jobs : jobSession'[q] = IF q = j THEN s ELSE jobSession[q]
    BY <1>2, <2>1 DEF TypeOK
  <2>8. drain(runtimeReady, Mark(j).ready, Mark(j).set, pend, active, runs, pub, exec)
    BY <1>1
  <2> HIDE DEF pend, Mark, Pend, active, pub, exec
  <2>9. \A t \in Sessions : Members(pend[t]) = IF t = s THEN Members(pending[s]) \cup {j}
                                                        ELSE Members(pending[t])
    BY <2>4, <2>6
  <2>10. OncePlaced(pend, runs)
    <3>1. \A t \in Sessions : Members(pend[t]) \cap runs = {}
      BY <1>5, <2>3, <2>9 DEF JobsInOnePlace, OncePlaced
    <3>2. \A t \in Sessions : \A i, k \in 1..Len(pend[t]) : pend[t][i] = pend[t][k] => i = k
      BY <2>4, <2>6 DEF JobsInOnePlace, OncePlaced
    <3> QED
      BY <3>1, <3>2 DEF OncePlaced
  <2>11. \A t \in Sessions : \A q \in Members(pend[t]) : q \in Jobs /\ jobSession'[q] = t
    BY <1>4, <2>1, <2>2, <2>7, <2>9
  <2>12. QueuedInOwnSession(pend, jobSession')
    BY <2>11 DEF QueuedInOwnSession, Members
  <2>13. Arrivals(jobSession, pending, jobSession', pend)
    BY <2>1, <2>7, <2>9 DEF Arrivals
  <2>14. NewOnesWait(jobSession, jobSession', pend, runs)
    BY <1>3, <2>7, <2>9 DEF NewOnesWait
  <2> QED
    BY <1>2, <1>5, <2>5, <2>8, <2>10, <2>12, <2>13, <2>14, DrainAdvances
<1> QED
  BY <1>6, <1>7

LEMMA StepAdvances ==
  ASSUME SchedulerInv, JobsInOnePlace, [Next]_vars
  PROVE  /\ JobsInOnePlace'
         /\ Advance(jobSession, pending, activeByRun, jobSession', pending', activeByRun')
<1>1. TypeOK /\ QueuedInOwnSession(pending, jobSession)
  BY DEF SchedulerInv, QueueInv
<1>2. /\ pending \in [Sessions -> Seq(Jobs)] /\ jobSession \in [Jobs -> Sessions \cup {NoSession}]
      /\ activeByRun \in SUBSET activeByRun
  BY <1>1 DEF TypeOK
<1>3. /\ Arrivals(jobSession, pending, jobSession, pending)
      /\ NewOnesWait(jobSession, jobSession, pending, activeByRun)
      /\ Starts(jobSession, pending, activeByRun, activeByRun)
  BY DEF Arrivals, NewOnesWait, Starts
<1>4. CASE \E value \in BOOLEAN : setRuntimeReady(value)
  <2>1. PICK value \in BOOLEAN :
          /\ drain(value, ready, readySet, pending, activeBySession, activeByRun,
                   published, executing)
          /\ jobSession' = jobSession
    BY <1>4 DEF setRuntimeReady
  <2>2. OncePlaced(pending, activeByRun)
    BY DEF JobsInOnePlace
  <2> QED
    BY <1>1, <1>2, <1>3, <2>1, <2>2, DrainAdvances
<1>5. CASE \E s \in Sessions, j \in Jobs, front \in FrontOptions : enqueue(s, j, front)
  BY <1>5, EnqueueAdvances
<1>6. CASE \E ev \in Completion : handleRuntimeEvent(ev)
  BY <1>6, CompletionAdvances
<1>7. CASE \E s \in Sessions : \E matches \in SUBSET Members(pending[s]) :
             clearPendingMatching(s, matches)
  <2>1. PICK s \in Sessions : \E matches \in SUBSET Members(pending[s]) :
                               clearPendingMatching(s, matches)
    BY <1>7
  <2> PICK matches \in SUBSET Members(pending[s]) : clearPendingMatching(s, matches)
    BY <2>1
  <2>2. PICK at \in KeptPositions(pending[s], matches) :
          pending' = [pending EXCEPT ![s] = Filtered(pending[s], at)]
    BY DEF clearPendingMatching
  <2>3. activeByRun' = activeByRun /\ jobSession' = jobSession
    BY DEF clearPendingMatching, activeVars
  <2> DEFINE retained == Filtered(pending[s], at)
  <2>4. /\ Members(retained) \subseteq Members(pending[s])
        /\ \A i \in 1..Len(retained) :
             at[i] \in 1..Len(pending[s]) /\ retained[i] = pending[s][at[i]]
        /\ \A i, k \in 1..Len(retained) : at[i] = at[k] => i = k
    BY <1>2, FilteredMembers
  <2> HIDE DEF retained
  <2>5. \A t \in Sessions : pending'[t] = IF t = s THEN retained ELSE pending[t]
    BY <1>2, <2>2 DEF retained
  <2>6. \A t \in Sessions : Members(pending'[t]) \subseteq Members(pending[t])
    BY <2>4, <2>5
  <2>7. JobsInOnePlace'
    <3>1. \A i, k \in 1..Len(retained) : retained[i] = retained[k] => i = k
      BY <2>4 DEF JobsInOnePlace, OncePlaced
    <3>2. \A t \in Sessions : \A i, k \in 1..Len(pending'[t]) :
            pending'[t][i] = pending'[t][k] => i = k
      BY <2>5, <3>1 DEF JobsInOnePlace, OncePlaced
    <3>3. \A t \in Sessions : Members(pending'[t]) \cap activeByRun' = {}
      BY <2>3, <2>6 DEF JobsInOnePlace, OncePlaced
    <3> QED
      BY <3>2, <3>3 DEF JobsInOnePlace, OncePlaced
  <2>8. Arrivals(jobSession, pending, jobSession, pending')
    BY <2>6 DEF Arrivals
  <2>9. NewOnesWait(jobSession, jobSession, pending', activeByRun)
    BY DEF NewOnesWait
  <2> QED
    BY <1>3, <2>3, <2>7, <2>8, <2>9 DEF Advance
<1>8. CASE \/ \E r \in Jobs : handleStartFailed(r)
           \/ \E s \in Sessions : requestStop(s)
           \/ \E r \in Jobs, accepted \in BOOLEAN : cancelSettles(r, accepted)
           \/ \E l \in Leases, s \in Sessions, keys \in SUBSET SessionKeys :
                beginSessionDeletion(l, s, keys)
           \/ \E l \in Leases : release(l)
           \/ UNCHANGED vars
  <2>1. UNCHANGED <<pending, activeByRun, jobSession>>
    BY <1>8 DEF handleStartFailed, requestStop, cancelSettles, beginSessionDeletion, release,
                queueVars, activeVars, vars
  <2> QED
    BY <1>3, <2>1 DEF JobsInOnePlace, Advance
<1> QED
  BY <1>4, <1>5, <1>6, <1>7, <1>8 DEF Next

(* A job waits in one queue, once, or runs, or neither: no interleaving of  *)
(* stops, completions and clears duplicates it.                             *)
THEOREM JobsAreInOnePlace == Spec => []JobsInOnePlace
<1>1. Init => JobsInOnePlace
  BY DEF Init, JobsInOnePlace, OncePlaced, Members
<1>2. JobsInOnePlace /\ SchedulerInv /\ [Next]_vars => JobsInOnePlace'
  BY StepAdvances
<1> QED
  BY <1>1, <1>2, SchedulerCorrect, PTL DEF Spec

-----------------------------------------------------------------------------
(* Jobs of a session start in the order in which they were enqueued: of two *)
(* jobs in a queue the later one does not start before the earlier one, and *)
(* stays behind it.                                                         *)
OrderKept(s, a, b) ==
  /\ b \in activeByRun' => a \notin Members(pending'[s])
  /\ {a, b} \subseteq Members(pending'[s]) => Precedes(pending'[s], a, b)

(* drain() takes only the first job of a queue. *)
LEMMA DrainKeepsOrder ==
  ASSUME NEW isReady, NEW rdy, NEW rset, NEW pend \in [Sessions -> Seq(Jobs)],
         NEW active, NEW runs, NEW pub, NEW exec, NEW own,
         QueuedInOwnSession(pend, own), OncePlaced(pend, runs),
         drain(isReady, rdy, rset, pend, active, runs, pub, exec),
         NEW s \in Sessions, NEW a, NEW b, Precedes(pend[s], a, b)
  PROVE  OrderKept(s, a, b)
<1>1. PICK k \in 0..Len(rdy) :
        LET started == Dispatched(k, rdy, pend, active)
            firsts  == {Head(pend[t]) : t \in started}
        IN /\ pending' = [t \in Sessions |->
                            IF t \in started THEN Tail(pend[t]) ELSE pend[t]]
           /\ activeByRun' = runs \cup firsts
  BY DEF drain
<1> DEFINE started == Dispatched(k, rdy, pend, active)
           q == pend[s]
<1>2. \A t \in started : t \in Sessions /\ pend[t] \in Seq(Jobs) /\ pend[t] # <<>>
  BY DEF Dispatched
<1>3. /\ pending'[s] = IF s \in started THEN Tail(q) ELSE q
      /\ activeByRun' = runs \cup {Head(pend[t]) : t \in started}
  BY <1>1
<1> HIDE DEF started
<1>4. \A t \in started : Head(pend[t]) = pend[t][1] /\ 1 \in 1..Len(pend[t])
  BY <1>2
<1>5. PICK m \in 1..Len(q), n \in 1..Len(q) : m < n /\ q[m] = a /\ q[n] = b
  BY DEF Precedes
<1>6. /\ q \in Seq(Jobs) /\ Len(q) \in Nat
      /\ \A i, j \in 1..Len(q) : q[i] = q[j] => i = j
      /\ Members(q) \cap runs = {}
  BY DEF OncePlaced
<1>7. b \notin activeByRun'
  <2> SUFFICES ASSUME b \in activeByRun' PROVE FALSE
    OBVIOUS
  <2>1. b \notin runs
    BY <1>5, <1>6 DEF Members
  <2>2. PICK t \in started : b = pend[t][1]
    BY <1>3, <1>4, <2>1
  <2>3. t = s
    BY <1>2, <1>4, <1>5, <2>2 DEF QueuedInOwnSession
  <2>4. 1 = n
    BY <1>4, <1>5, <1>6, <2>2, <2>3
  <2> QED BY <1>5, <1>6, <2>4
<1>8. ASSUME a \in Members(pending'[s]) PROVE Precedes(pending'[s], a, b)
  <2>1. CASE s \notin started
    BY <1>3, <2>1
  <2>2. CASE s \in started
    <3> DEFINE p == Tail(q)
    <3>1. q # <<>>
      BY <1>2, <2>2
    <3>2. Len(p) = Len(q) - 1 /\ \A i \in 1..(Len(q) - 1) : p[i] = q[i + 1]
      BY <1>6, <3>1
    <3> HIDE DEF p
    <3>3. PICK i \in 1..(Len(q) - 1) : p[i] = a
      BY <1>3, <1>8, <2>2, <3>2 DEF Members, p
    <3>4. i + 1 \in 1..Len(q) /\ q[i + 1] = a
      BY <1>6, <3>2, <3>3
    <3>5. m = i + 1
      BY <1>5, <1>6, <3>4
    <3>6. m - 1 \in 1..Len(p) /\ n - 1 \in 1..Len(p) /\ m - 1 < n - 1
      BY <1>5, <1>6, <3>2, <3>3, <3>5
    <3>7. p[m - 1] = a /\ p[n - 1] = b
      BY <1>5, <1>6, <3>2, <3>6
    <3>8. Precedes(p, a, b)
      BY <3>6, <3>7 DEF Precedes
    <3> QED BY <1>3, <2>2, <3>8 DEF p
  <2> QED BY <2>1, <2>2
<1> QED BY <1>7, <1>8 DEF OrderKept

(* A job is appended behind those that wait, or put before them. *)
LEMMA PlacedKeepsOrder ==
  ASSUME NEW q \in Seq(Jobs), NEW j, NEW a, NEW b, j \in Jobs
  PROVE  /\ Precedes(q, a, b) => Precedes(Append(q, j), a, b) /\ Precedes(<<j>> \o q, a, b)
         /\ a \in Members(q) => Precedes(Append(q, j), a, j)
<1> DEFINE p == Append(q, j)
           r == <<j>> \o q
<1>1. /\ Len(q) \in Nat /\ Len(p) = Len(q) + 1 /\ p[Len(q) + 1] = j
      /\ \A i \in 1..Len(q) : p[i] = q[i]
  OBVIOUS
<1>2. Len(r) = Len(q) + 1 /\ \A i \in 1..Len(q) : r[i + 1] = q[i]
  OBVIOUS
<1> HIDE DEF p, r
<1>3. ASSUME Precedes(q, a, b) PROVE Precedes(p, a, b) /\ Precedes(r, a, b)
  <2>1. PICK m \in 1..Len(q), n \in 1..Len(q) : m < n /\ q[m] = a /\ q[n] = b
    BY <1>3 DEF Precedes
  <2>2. m \in 1..Len(p) /\ n \in 1..Len(p) /\ p[m] = a /\ p[n] = b
    BY <1>1, <2>1
  <2>3. m + 1 \in 1..Len(r) /\ n + 1 \in 1..Len(r) /\ m + 1 < n + 1
    BY <1>1, <1>2, <2>1
  <2>4. r[m + 1] = a /\ r[n + 1] = b
    BY <1>2, <2>1
  <2> QED BY <2>1, <2>2, <2>3, <2>4 DEF Precedes
<1>4. ASSUME a \in Members(q) PROVE Precedes(p, a, j)
  <2>1. PICK m \in 1..Len(q) : q[m] = a
    BY <1>4 DEF Members
  <2>2. m \in 1..Len(p) /\ Len(q) + 1 \in 1..Len(p) /\ m < Len(q) + 1 /\ p[m] = a
    BY <1>1, <2>1
  <2> QED BY <1>1, <2>2 DEF Precedes
<1> QED BY <1>3, <1>4 DEF p, r

(* Filtering a queue keeps the order of what is left. *)
LEMMA FilteredKeepsOrder ==
  ASSUME NEW q \in Seq(Jobs), NEW gone, NEW at \in KeptPositions(q, gone),
         \A i, k \in 1..Len(q) : q[i] = q[k] => i = k,
         NEW a, NEW b, Precedes(q, a, b), {a, b} \subseteq Members(Filtered(q, at))
  PROVE  Precedes(Filtered(q, at), a, b)
<1> DEFINE f == Filtered(q, at)
<1>1. /\ f \in Seq(Jobs)
      /\ \A i \in 1..Len(f) : at[i] \in 1..Len(q) /\ f[i] = q[at[i]]
  BY FilteredMembers
<1>2. \A i, k \in 1..Len(f) : i < k => at[i] < at[k]
  <2>1. DOMAIN f = 1..Len(f) /\ DOMAIN f = DOMAIN at
    BY <1>1 DEF Filtered
  <2> QED BY <2>1 DEF KeptPositions
<1> HIDE DEF f
<1>3. PICK m \in 1..Len(q), n \in 1..Len(q) : m < n /\ q[m] = a /\ q[n] = b
  BY DEF Precedes
<1>4. PICK i \in 1..Len(f), k \in 1..Len(f) : f[i] = a /\ f[k] = b
  BY DEF Members, f
<1>5. at[i] = m /\ at[k] = n
  BY <1>1, <1>3, <1>4
<1>6. Len(f) \in Nat /\ Len(q) \in Nat
  BY <1>1
<1>7. i < k
  BY <1>2, <1>3, <1>4, <1>5, <1>6
<1> QED BY <1>4, <1>7 DEF Precedes, f

LEMMA EnqueueKeepsOrder ==
  ASSUME SchedulerInv, JobsInOnePlace, NEW t \in Sessions, NEW j \in Jobs,
         enqueue(t, j, FALSE),
         NEW s \in Sessions, NEW a \in Members(pending[s]), NEW b \in Jobs, Behind(s, a, b)
  PROVE  OrderKept(s, a, b)
<1> DEFINE pend == [pending EXCEPT ![t] = Append(@, j)]
           pub  == [published EXCEPT ![j] = "queued"]
           mark == markReady(t, ready, readySet, pend, activeBySession)
<1>1. /\ jobSession[j] = NoSession
      /\ jobSession' = [jobSession EXCEPT ![j] = t]
      /\ drain(runtimeReady, mark.ready, mark.set, pend, activeBySession,
               activeByRun, pub, executing)
  BY DEF enqueue, Placed, Fresh
<1>2. TypeOK /\ QueuedInOwnSession(pending, jobSession) /\ MapsAgree(activeBySession, activeByRun, jobSession)
  BY DEF SchedulerInv, QueueInv
<1>3. \A u \in Sessions : pend[u] = IF u = t THEN Append(pending[t], j) ELSE pending[u]
  BY <1>2 DEF TypeOK
<1>4. pend \in [Sessions -> Seq(Jobs)]
  BY <1>2, <1>3 DEF TypeOK
<1>5. \A u \in Sessions : pending[u] \in Seq(Jobs) /\ Len(pending[u]) \in Nat
  BY <1>2 DEF TypeOK
<1>6. \A q \in Jobs : jobSession'[q] = IF q = j THEN t ELSE jobSession[q]
  BY <1>1, <1>2 DEF TypeOK
<1>7. \A u \in Sessions : j \notin Members(pending[u])
  BY <1>1, <1>2, NullAssumption DEF QueuedInOwnSession, Members
<1>8. j \notin activeByRun
  BY <1>1, <1>2, NullAssumption DEF MapsAgree
<1>9. /\ \A i \in 1..Len(pending[t]) : Append(pending[t], j)[i] = pending[t][i]
      /\ Len(Append(pending[t], j)) = Len(pending[t]) + 1
      /\ Append(pending[t], j)[Len(pending[t]) + 1] = j
  BY <1>5
<1> HIDE DEF pend, mark, pub
<1>10. OncePlaced(pend, activeByRun)
  <2>1. pend[t] = Placed(pending[t], j, FALSE)
    BY <1>3 DEF Placed
  <2>2. /\ Members(pend[t]) = Members(pending[t]) \cup {j}
        /\ \A i, k \in 1..Len(pend[t]) : pend[t][i] = pend[t][k] => i = k
    <3>1. \A i, k \in 1..Len(pending[t]) : pending[t][i] = pending[t][k] => i = k
      BY DEF JobsInOnePlace, OncePlaced
    <3> QED BY <1>5, <1>7, <2>1, <3>1, PlacedMembers
  <2> QED BY <1>3, <1>8, <2>2 DEF JobsInOnePlace, OncePlaced
<1>11. QueuedInOwnSession(pend, jobSession')
  <2>1. \A u \in Sessions : \A i \in 1..Len(pending[u]) :
          pending[u][i] \in Jobs /\ pending[u][i] # j /\ jobSession[pending[u][i]] = u
    BY <1>2, <1>5, <1>7 DEF QueuedInOwnSession, Members
  <2>2. \A i \in 1..(Len(pending[t]) + 1) : i \in 1..Len(pending[t]) \/ i = Len(pending[t]) + 1
    BY <1>5
  <2>3. ASSUME NEW i \in 1..Len(pend[t]) PROVE jobSession'[pend[t][i]] = t
    <3>1. i \in 1..Len(pending[t]) \/ i = Len(pending[t]) + 1
      BY <1>3, <1>9, <2>2
    <3>2. CASE i \in 1..Len(pending[t])
      <4>1. pend[t][i] = pending[t][i]
        BY <1>3, <1>9, <3>2
      <4> QED BY <1>6, <2>1, <3>2, <4>1
    <3>3. CASE i = Len(pending[t]) + 1
      BY <1>3, <1>6, <1>9, <3>3
    <3> QED BY <3>1, <3>2, <3>3
  <2> QED BY <1>3, <1>6, <2>1, <2>3 DEF QueuedInOwnSession
<1>12. Precedes(pend[s], a, b)
  <2>1. CASE Precedes(pending[s], a, b)
    BY <1>3, <1>5, <2>1, PlacedKeepsOrder
  <2>2. CASE Fresh(b) /\ jobSession'[b] = s
    <3>1. b = j /\ s = t
      BY <1>6, <2>2, NullAssumption DEF Fresh
    <3> QED BY <1>3, <1>5, <3>1, PlacedKeepsOrder
  <2> QED BY <2>1, <2>2 DEF Behind
<1> QED BY <1>1, <1>4, <1>10, <1>11, <1>12, DrainKeepsOrder

(* The completion of a run ends it; what is made of its steering goes to    *)
(* the head of the queue.                                                   *)
LEMMA CompletionKeepsOrder ==
  ASSUME SchedulerInv, JobsInOnePlace, NEW ev \in Completion, handleRuntimeEvent(ev),
         NEW s \in Sessions, NEW a \in Members(pending[s]), NEW b \in Jobs, Behind(s, a, b)
  PROVE  OrderKept(s, a, b)
<1> DEFINE r == ev.run
           u == jobSession[r]
           active == [activeBySession EXCEPT ![u] = NoJob]
           runs == activeByRun \ {r}
           pub  == [published EXCEPT ![r] = FinalState(ev)]
           exec == executing \ Finished(ev)
           Pend(j) == IF j = NoJob THEN pending ELSE [pending EXCEPT ![u] = <<j>> \o @]
           Mark(j) == markReady(u, ready, readySet, Pend(j), active)
<1>1. PICK j \in Jobs \cup {NoJob} :
        /\ requeueRemainingSteering(ev, u, j)
        /\ drain(runtimeReady, Mark(j).ready, Mark(j).set, Pend(j), active, runs, pub, exec)
  BY DEF handleRuntimeEvent
<1> DEFINE pend == Pend(j)
<1>2. TypeOK /\ QueuedInOwnSession(pending, jobSession) /\ MapsAgree(activeBySession, activeByRun, jobSession)
  BY DEF SchedulerInv, QueueInv
<1>3. r \in activeByRun /\ u \in Sessions
  BY <1>2 DEF handleRuntimeEvent, Accepts, MapsAgree
<1>4. \A t \in Sessions : pending[t] \in Seq(Jobs) /\ Len(pending[t]) \in Nat
  BY <1>2 DEF TypeOK
<1>5. \A t \in Sessions : \A i \in 1..Len(pending[t]) :
        pending[t][i] \in Jobs /\ jobSession[pending[t][i]] = t
  BY <1>2, <1>4 DEF QueuedInOwnSession
<1>6. /\ pend \in [Sessions -> Seq(Jobs)]
      /\ QueuedInOwnSession(pend, jobSession')
      /\ OncePlaced(pend, runs) /\ \A t \in Sessions : r \notin Members(pend[t])
      /\ \A t \in Sessions : Precedes(pending[t], a, b) => Precedes(pend[t], a, b)
  <2>1. \A t \in Sessions : r \notin Members(pending[t])
    BY <1>3 DEF JobsInOnePlace, OncePlaced
  <2>2. CASE j = NoJob
    <3>1. pend = pending /\ jobSession' = jobSession
      BY <1>1, <2>2, NullAssumption DEF requeueRemainingSteering
    <3>2. OncePlaced(pending, runs)
      BY DEF JobsInOnePlace, OncePlaced
    <3> HIDE DEF pend, runs
    <3> QED BY <1>2, <2>1, <3>1, <3>2 DEF TypeOK
  <2>3. CASE j # NoJob
    <3>1. /\ j \in Jobs /\ jobSession[j] = NoSession
          /\ jobSession' = [jobSession EXCEPT ![j] = u]
          /\ pend = [pending EXCEPT ![u] = <<j>> \o @]
      BY <1>1, <2>3 DEF requeueRemainingSteering, Fresh
    <3>2. j \notin activeByRun /\ \A t \in Sessions : j \notin Members(pending[t])
      BY <1>2, <1>5, <3>1, NullAssumption DEF MapsAgree, Members
    <3>3. \A t \in Sessions : pend[t] = IF t = u THEN <<j>> \o pending[u] ELSE pending[t]
      BY <1>2, <3>1 DEF TypeOK
    <3>4. \A q \in Jobs : jobSession'[q] = IF q = j THEN u ELSE jobSession[q]
      BY <1>2, <3>1 DEF TypeOK
    <3>5. pend \in [Sessions -> Seq(Jobs)]
      BY <1>2, <1>3, <1>4, <3>1 DEF TypeOK
    <3> HIDE DEF pend, u
    <3>6. /\ Members(pend[u]) = Members(pending[u]) \cup {j}
          /\ \A i, k \in 1..Len(pend[u]) : pend[u][i] = pend[u][k] => i = k
      <4>1. \A i, k \in 1..Len(pending[u]) : pending[u][i] = pending[u][k] => i = k
        BY <1>3 DEF JobsInOnePlace, OncePlaced
      <4>2. pend[u] = Placed(pending[u], j, TRUE)
        BY <1>3, <3>3 DEF Placed
      <4>3. pending[u] \in Seq(Jobs) /\ j \notin Members(pending[u])
        BY <1>3, <1>4, <3>2
      <4>4. /\ Members(Placed(pending[u], j, TRUE)) = Members(pending[u]) \cup {j}
            /\ \A i, k \in 1..Len(Placed(pending[u], j, TRUE)) :
                 Placed(pending[u], j, TRUE)[i] = Placed(pending[u], j, TRUE)[k] => i = k
        BY <3>1, <4>1, <4>3, PlacedMembers
      <4> QED BY <4>2, <4>4
    <3>7. \A t \in Sessions : t # u => pend[t] = pending[t]
      BY <3>3
    <3>8. OncePlaced(pend, runs)
      BY <3>2, <3>6, <3>7 DEF JobsInOnePlace, OncePlaced
    <3>9. \A t \in Sessions : \A q \in Members(pend[t]) : q \in Jobs /\ jobSession'[q] = t
      <4>1. \A t \in Sessions : \A q \in Members(pending[t]) : q \in Jobs /\ q # j /\ jobSession[q] = t
        BY <1>5, <3>2 DEF Members
      <4> QED BY <3>1, <3>4, <3>6, <3>7, <4>1
    <3>10. QueuedInOwnSession(pend, jobSession')
      BY <3>9 DEF QueuedInOwnSession, Members
    <3>11. \A t \in Sessions : r \notin Members(pend[t])
      BY <1>3, <2>1, <3>2, <3>6, <3>7
    <3>12. \A t \in Sessions : Precedes(pending[t], a, b) => Precedes(pend[t], a, b)
      BY <1>4, <3>1, <3>3, PlacedKeepsOrder
    <3> QED BY <3>5, <3>8, <3>10, <3>11, <3>12
  <2> QED BY <2>2, <2>3
<1>7. drain(runtimeReady, Mark(j).ready, Mark(j).set, pend, active, runs, pub, exec)
  BY <1>1
<1>8. runs \in SUBSET Jobs /\ jobSession' \in [Jobs -> Sessions \cup {NoSession}]
  <2>1. jobSession' = jobSession \/ \E q \in Jobs : jobSession' = [jobSession EXCEPT ![q] = u]
    BY <1>1 DEF requeueRemainingSteering
  <2> QED BY <1>2, <1>3, <2>1 DEF TypeOK
<1>9. r \notin runs
  OBVIOUS
<1> HIDE DEF pend, Mark, active, runs, pub, exec, r
<1>10. r \notin activeByRun'
  <2>1. \A q \in activeByRun' \ runs : jobSession'[q] \in Sessions /\ q \in Members(pend[jobSession'[q]])
    BY <1>6, <1>7, <1>8, DrainMovesJobs
  <2> QED BY <1>6, <1>9, <2>1
<1>11. Precedes(pend[s], a, b)
  BY <1>3, <1>6, <1>10 DEF Behind
<1> QED BY <1>6, <1>7, <1>11, DrainKeepsOrder

LEMMA StepKeepsOrder ==
  ASSUME SchedulerInv, JobsInOnePlace, [Next]_vars, TRUE \notin FrontOptions,
         NEW s \in Sessions, NEW a \in Members(pending[s]), NEW b \in Jobs, Behind(s, a, b)
  PROVE  OrderKept(s, a, b)
<1>1. TypeOK /\ QueuedInOwnSession(pending, jobSession)
  BY DEF SchedulerInv, QueueInv
<1>2. /\ pending \in [Sessions -> Seq(Jobs)] /\ pending[s] \in Seq(Jobs)
      /\ OncePlaced(pending, activeByRun)
      /\ \A i, k \in 1..Len(pending[s]) : pending[s][i] = pending[s][k] => i = k
      /\ Members(pending[s]) \cap activeByRun = {}
  BY <1>1 DEF TypeOK, JobsInOnePlace, OncePlaced
<1>3. ASSUME jobSession' = jobSession PROVE Precedes(pending[s], a, b) /\ b \in Members(pending[s])
  BY <1>3, NullAssumption DEF Behind, Fresh, Precedes, Members
<1>4. CASE \E value \in BOOLEAN : setRuntimeReady(value)
  <2>1. PICK value \in BOOLEAN :
          /\ drain(value, ready, readySet, pending, activeBySession, activeByRun,
                   published, executing)
          /\ jobSession' = jobSession
    BY <1>4 DEF setRuntimeReady
  <2> QED BY <1>1, <1>2, <1>3, <2>1, DrainKeepsOrder
<1>5. CASE \E t \in Sessions, j \in Jobs, front \in FrontOptions : enqueue(t, j, front)
  <2>1. \A front \in FrontOptions : front = FALSE
    BY FrontAssumption
  <2> QED BY <1>5, <2>1, EnqueueKeepsOrder
<1>6. CASE \E ev \in Completion : handleRuntimeEvent(ev)
  BY <1>6, CompletionKeepsOrder
<1>7. CASE \E t \in Sessions : \E matches \in SUBSET Members(pending[t]) :
             clearPendingMatching(t, matches)
  <2>1. PICK t \in Sessions : \E matches \in SUBSET Members(pending[t]) :
                               clearPendingMatching(t, matches)
    BY <1>7
  <2> PICK matches \in SUBSET Members(pending[t]) : clearPendingMatching(t, matches)
    BY <2>1
  <2>2. PICK at \in KeptPositions(pending[t], matches) :
          pending' = [pending EXCEPT ![t] = Filtered(pending[t], at)]
    BY DEF clearPendingMatching
  <2>3. activeByRun' = activeByRun /\ jobSession' = jobSession
    BY DEF clearPendingMatching, activeVars
  <2>4. pending'[s] = IF s = t THEN Filtered(pending[t], at) ELSE pending[s]
    BY <1>2, <2>2
  <2>5. b \notin activeByRun'
    BY <1>2, <1>3, <2>3
  <2>6. {a, b} \subseteq Members(pending'[s]) => Precedes(pending'[s], a, b)
    BY <1>2, <1>3, <2>3, <2>4, FilteredKeepsOrder
  <2> QED BY <2>5, <2>6 DEF OrderKept
<1>8. CASE \/ \E r \in Jobs : handleStartFailed(r)
           \/ \E t \in Sessions : requestStop(t)
           \/ \E r \in Jobs, accepted \in BOOLEAN : cancelSettles(r, accepted)
           \/ \E l \in Leases, t \in Sessions, keys \in SUBSET SessionKeys :
                beginSessionDeletion(l, t, keys)
           \/ \E l \in Leases : release(l)
           \/ UNCHANGED vars
  <2>1. UNCHANGED <<pending, activeByRun, jobSession>>
    BY <1>8 DEF handleStartFailed, requestStop, cancelSettles, beginSessionDeletion, release,
                queueVars, activeVars, vars
  <2> QED BY <1>2, <1>3, <2>1 DEF OrderKept
<1> QED
  BY <1>4, <1>5, <1>6, <1>7, <1>8 DEF Next

(* Jobs of a session start in the order in which they were enqueued, as     *)
(* long as no caller asks for the front of the queue: through readiness     *)
(* changes, completions with left-over steering and cleared queues.         *)
THEOREM SessionsAreFifo ==
  ASSUME TRUE \notin FrontOptions
  PROVE  Spec => FifoPerSession
<1>1. SchedulerInv /\ JobsInOnePlace /\ [Next]_vars =>
        [\A s \in Sessions : \A a \in Members(pending[s]), b \in Jobs :
           Behind(s, a, b) =>
             /\ (b \in activeByRun' => a \notin Members(pending'[s]))
             /\ ({a, b} \subseteq Members(pending'[s]) => Precedes(pending'[s], a, b))]_vars
  BY StepKeepsOrder DEF OrderKept
<1> QED
  BY <1>1, SchedulerCorrect, JobsAreInOnePlace, PTL DEF Spec, FifoPerSession

-----------------------------------------------------------------------------
(* The runs are no more than the busy sessions. *)
LEMMA RunsAreBounded ==
  ASSUME SchedulerInv
  PROVE  Cardinality(activeByRun) <= MaxConcurrency
<1> DEFINE busy == Busy(activeBySession)
           f == [s \in busy |-> activeBySession[s]]
<1>1. IsFiniteSet(busy) /\ busy \subseteq Sessions
  BY SessionsAssumption, FS_Subset DEF Busy
<1>2. Cardinality(busy) <= MaxConcurrency
  BY DEF SchedulerInv, QueueInv
<1>3. activeByRun = {activeBySession[s] : s \in busy}
  BY DEF SchedulerInv, QueueInv, MapsAgree, Busy
<1> HIDE DEF busy
<1>4. f \in Surjection(busy, activeByRun)
  BY <1>3 DEF Surjection
<1>5. IsFiniteSet(activeByRun) /\ Cardinality(activeByRun) <= Cardinality(busy)
  BY <1>1, <1>4, FS_Surjection
<1>6. Cardinality(activeByRun) \in Nat /\ Cardinality(busy) \in Nat
  BY <1>1, <1>5, FS_CardinalityType
<1> QED
  BY <1>2, <1>5, <1>6, ConcurrencyAssumption

(* Every step of the scheduler is a step of TurnDispatch or none. *)
LEMMA StepRefines ==
  ASSUME SchedulerInv, SchedulerInv', JobsInOnePlace, [Next]_vars
  PROVE  Dispatch!Next
<1>1. Advance(jobSession, pending, activeByRun, jobSession', pending', activeByRun')
  BY StepAdvances
<1>2. JobsInOnePlace'
  BY StepAdvances
<1>3. /\ jobSession \in [Jobs -> Sessions \cup {NoSession}]
      /\ jobSession' \in [Jobs -> Sessions \cup {NoSession}]
      /\ activeByRun \subseteq Jobs /\ activeByRun' \subseteq Jobs
  BY DEF SchedulerInv, TypeOK
<1>4. /\ \A r \in activeByRun : jobSession[r] \in Sessions
      /\ \A r \in activeByRun' : jobSession'[r] \in Sessions
      /\ \A r1, r2 \in activeByRun' : jobSession'[r1] = jobSession'[r2] => r1 = r2
  <2>1. MapsAgree(activeBySession, activeByRun, jobSession) /\ MapsAgree(activeBySession', activeByRun', jobSession')
    BY DEF SchedulerInv, QueueInv
  <2> QED
    BY <2>1 DEF MapsAgree
<1> DEFINE Was(j) == IF jobSession[j] = NoSession THEN "new"
                     ELSE IF j \in activeByRun THEN "running"
                     ELSE IF j \in Members(pending[jobSession[j]]) THEN "waiting" ELSE "done"
           Is(j)  == IF jobSession'[j] = NoSession THEN "new"
                     ELSE IF j \in activeByRun' THEN "running"
                     ELSE IF j \in Members(pending'[jobSession'[j]]) THEN "waiting" ELSE "done"
           was == [j \in Jobs |-> Was(j)]
           is  == [j \in Jobs |-> Is(j)]
<1>5. \A j \in Jobs : is[j] = was[j] \/ <<was[j], is[j]>> \in Dispatch!Moves
  <2> SUFFICES ASSUME NEW j \in Jobs PROVE Is(j) = Was(j) \/ <<Was(j), Is(j)>> \in Dispatch!Moves
    OBVIOUS
  <2>1. jobSession[j] \in Sessions \cup {NoSession} /\ jobSession'[j] \in Sessions \cup {NoSession}
    BY <1>3
  <2>2. CASE jobSession[j] = NoSession
    BY <1>1, <2>1, <2>2 DEF Advance, NewOnesWait, Dispatch!Moves
  <2>3. CASE jobSession[j] # NoSession
    <3>1. jobSession'[j] = jobSession[j] /\ jobSession[j] \in Sessions
      BY <1>1, <2>1, <2>3 DEF Advance, Arrivals
    <3>2. j \in activeByRun' => j \in activeByRun \/ j \in Members(pending[jobSession[j]])
      BY <1>1, <2>3 DEF Advance, Starts
    <3>3. j \in Members(pending'[jobSession[j]]) => j \in Members(pending[jobSession[j]])
      BY <1>1, <2>3, <3>1 DEF Advance, Arrivals
    <3>4. j \in activeByRun => j \notin Members(pending[jobSession[j]])
      BY <3>1 DEF JobsInOnePlace, OncePlaced
    <3> QED
      BY <2>3, <3>1, <3>2, <3>3, <3>4 DEF Dispatch!Moves
  <2> QED
    BY <2>2, <2>3
<1>6. is \in [Jobs -> Dispatch!Stage]
  BY DEF Dispatch!Stage
<1>7. \A j \in Jobs : was[j] # "new" => jobSession'[j] = jobSession[j]
  BY <1>1 DEF Advance, Arrivals
<1>8. \A j \in Jobs : is[j] = "new" <=> jobSession'[j] = NoSession
  OBVIOUS
<1>9. {j \in Jobs : is[j] = "running"} = activeByRun'
  BY <1>3, <1>4, NullAssumption
<1>10. Cardinality(activeByRun') <= MaxConcurrency
  <2>1. (SchedulerInv => Cardinality(activeByRun) <= MaxConcurrency)'
    BY RunsAreBounded, PTL
  <2> QED
    BY <2>1
<1>11. was = [j \in Jobs |-> StageOf(j)] /\ is = [j \in Jobs |-> StageOf(j)]'
  BY DEF StageOf, Fresh
<1>12. \A S : Dispatch!Cardinality(S) = Cardinality(S)
  BY DEF Dispatch!Cardinality, Cardinality, Dispatch!IsFiniteSet, IsFiniteSet
<1> HIDE DEF was, is
<1>13. /\ is \in [Jobs -> Dispatch!Stage]
       /\ \A j \in Jobs : /\ is[j] = was[j] \/ <<was[j], is[j]>> \in Dispatch!Moves
                          /\ was[j] # "new" => jobSession'[j] = jobSession[j]
                          /\ is[j] = "new" <=> jobSession'[j] = NoSession
  BY <1>5, <1>6, <1>7, <1>8
<1>14. /\ \A j, k \in {q \in Jobs : is[q] = "running"} : jobSession'[j] = jobSession'[k] => j = k
       /\ Dispatch!Cardinality({q \in Jobs : is[q] = "running"}) <= MaxConcurrency
  BY <1>4, <1>9, <1>10, <1>12
<1> DEFINE Step(old, new) ==
             /\ jobSession' \in [Jobs -> Sessions \cup {NoSession}]
             /\ new \in [Jobs -> Dispatch!Stage]
             /\ \A j \in Jobs : /\ new[j] = old[j] \/ <<old[j], new[j]>> \in Dispatch!Moves
                                /\ old[j] # "new" => jobSession'[j] = jobSession[j]
                                /\ new[j] = "new" <=> jobSession'[j] = NoSession
             /\ \A j, k \in {q \in Jobs : new[q] = "running"} :
                  jobSession'[j] = jobSession'[k] => j = k
             /\ Dispatch!Cardinality({q \in Jobs : new[q] = "running"}) <= MaxConcurrency
<1>15. Step(was, is)
  BY <1>3, <1>13, <1>14
<1> HIDE DEF Step
<1>16. Step([j \in Jobs |-> StageOf(j)], [j \in Jobs |-> StageOf(j)]')
  BY <1>11, <1>15
<1> QED
  BY <1>16 DEF Step, Dispatch!Next, Dispatch!Running

(* The scheduler implements TurnDispatch: the queues, the ready list and    *)
(* the two maps of runs give every job one life, whatever happens.          *)
THEOREM SchedulerImplementsTurnDispatch == Spec => ImplementsTurnDispatch
<1>1. Init => Dispatch!Init
  BY DEF Init, Dispatch!Init, StageOf, Fresh
<1>2. SchedulerInv /\ SchedulerInv' /\ JobsInOnePlace /\ [Next]_vars => [Dispatch!Next]_(Dispatch!vars)
  BY StepRefines
<1> QED
  BY <1>1, <1>2, SchedulerCorrect, JobsAreInOnePlace, PTL DEF Spec, Dispatch!Spec, ImplementsTurnDispatch
=============================================================================
