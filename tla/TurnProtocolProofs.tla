------------------------- MODULE TurnProtocolProofs -------------------------
(***************************************************************************)
(* Proofs about a session's messages and turns, for any finite set of      *)
(* messages, any number of stops and any set of faults.                    *)
(***************************************************************************)
EXTENDS TurnProtocol, TLAPS, SequenceTheorems, FiniteSetTheorems

Request == [kind : {"run_turn"}, run : Runs]
      \cup [kind : {"steer_turn"}, run : Runs, message : Messages]
      \cup [kind : {"cancel_turn"}, run : Runs, stop : 1..MaxStops]

Handle == [phase : {"none", "engine", "publishing", "over"}, aborted : BOOLEAN,
           steering : SUBSET Messages, status : Status \cup {"none", "thrown"}]

Routes == {"new", "steering", "queued", "accepted", "failed", "dropped"}

(***************************************************************************)
(* The inductive invariant.  Its parts speak of the queue, the pipes...    *)
(* that they are given, so that they can also be said of the state that    *)
(* drain() finds in the middle of a step.                                  *)
(***************************************************************************)
Types ==
  /\ cancelRequest \subseteq Cancel /\ cancelRequested \subseteq Runs
  /\ route \in [Messages -> Routes]
  /\ stops \in 0..MaxStops /\ up \in BOOLEAN
  /\ toGateway \in Seq(Answer) /\ due \subseteq Answer
  /\ agentRun \in [Runs -> Handle]
  /\ \A r \in Runs : agentRun[r].phase = "publishing" => agentRun[r].status # "none"
  /\ \A r \in Runs : agentRun[r].status = "thrown" => "throw" \in faults
  /\ aborting \subseteq Cancel /\ (~up => aborting = {})
  /\ consumed \in [Messages -> {0, 1}]
  /\ faults \subseteq Faults

(* Every job, waiting or started, has messages of its own. *)
Jobs(jobs, started, last) ==
  /\ jobs \in Seq(Job) /\ started \in [Runs -> Job] /\ last \in Runs \cup {0}
  /\ \A i \in 1..Len(jobs) : jobs[i].messages # {}
  /\ \A r \in Runs : started[r].messages # {} <=> r <= last
  /\ \A m \in Messages :
       /\ \A i, j \in 1..Len(jobs) : m \in jobs[i].messages /\ m \in jobs[j].messages => i = j
       /\ \A r, s \in Runs : m \in started[r].messages /\ m \in started[s].messages => r = s
       /\ \A i \in 1..Len(jobs), r \in Runs :
            ~(m \in jobs[i].messages /\ m \in started[r].messages)

RunLine(line) == line.kind = "run_turn"
Live(handles) == {r \in Runs : handles[r].phase \in {"engine", "publishing"}}

(* The scheduler's slot is taken as long as its run has a line on the way, a  *)
(* turn in agent-cli, or an answer: one of them at a time.                    *)
Slot(act, last, u, out, back, d, handles) ==
  /\ out \in Seq(Request)
  /\ act \in 0..last
  /\ \A i \in 1..Len(out) : RunLine(out[i]) =>
       /\ act # 0 /\ out[i].run = act /\ handles[act].phase = "none"
       /\ \A j \in 1..Len(out) : RunLine(out[j]) => j = i
  /\ \A i \in 1..Len(back) : RunLine(back[i]) =>
       /\ act # 0 /\ back[i].run = act /\ handles[act].phase = "over"
       /\ \A j \in 1..Len(back) : RunLine(back[j]) => j = i
  /\ \A line \in d : RunLine(line) =>
       /\ act # 0 /\ line.run = act /\ handles[act].phase \in {"none", "over"}
       /\ \A other \in d : RunLine(other) => other = line
       /\ \A i \in 1..Len(out) : ~RunLine(out[i])
       /\ \A i \in 1..Len(back) : ~RunLine(back[i])
  /\ \A r \in Live(handles) : r = act
  /\ \A r \in Runs : last < r => handles[r].phase = "none"
  /\ \A r \in Runs \ Live(handles) : handles[r].steering = {}
  /\ ~u => out = <<>> /\ back = <<>> /\ Live(handles) = {}
  /\ ~u /\ act # 0 => \E line \in d : RunLine(line)

(* What a line to the gateway brings back: the steering a run has left, or  *)
(* the message of a steering that is refused.                               *)
Brings(line, m) ==
  \/ line.kind = "run_turn" /\ m \in line.steering
  \/ line.kind = "steer_turn" /\ line.ok = "no" /\ m = line.message
Steers(line, m) == line.kind = "steer_turn" /\ line.message = m
Accepts(line, m) == line.kind = "steer_turn" /\ line.ok = "yes" /\ line.message = m

(* Where a message is. *)
InQueue(jobs, m) == \E i \in 1..Len(jobs) : m \in jobs[i].messages
InRun(started, m) == \E r \in Runs : m \in started[r].messages
InJob(jobs, started, m) == InQueue(jobs, m) \/ InRun(started, m)
InPipe(out, m) == \E i \in 1..Len(out) : Steers(out[i], m)
InHandle(handles, m) == \E r \in Runs : m \in handles[r].steering
InAnswer(back, m) == \E i \in 1..Len(back) : Brings(back[i], m)
IsDue(d, m) == \E line \in d : Brings(line, m)
Answered(back, d, m) ==
  (\E i \in 1..Len(back) : Accepts(back[i], m)) \/ \E line \in d : Accepts(line, m)
Starting(out, started, m) ==
  \E i \in 1..Len(out) : RunLine(out[i]) /\ m \in started[out[i].run].messages

(* A message is in one place at most, and in no line twice. *)
Apart(jobs, started, out, back, d, handles) ==
  \A m \in Messages :
    /\ InJob(jobs, started, m) =>
         ~InPipe(out, m) /\ ~InHandle(handles, m) /\ ~InAnswer(back, m) /\ ~IsDue(d, m)
    /\ InPipe(out, m) => ~InHandle(handles, m) /\ ~InAnswer(back, m) /\ ~IsDue(d, m)
    /\ InHandle(handles, m) => ~InAnswer(back, m) /\ ~IsDue(d, m)
    /\ InAnswer(back, m) => ~IsDue(d, m)
Once(out, back, d) ==
  \A m \in Messages :
    /\ \A i, j \in 1..Len(out) : Steers(out[i], m) /\ Steers(out[j], m) => i = j
    /\ \A i, j \in 1..Len(back) : Brings(back[i], m) /\ Brings(back[j], m) => i = j
    /\ \A x, y \in d : Brings(x, m) /\ Brings(y, m) => x = y

(* No turn has taken in a message that is on its way, and one that is not     *)
(* routed yet is nowhere.                                                     *)
Fresh(jobs, started, rt, out, back, d, handles, taken) ==
  \A m \in Messages :
    /\ \/ InQueue(jobs, m) \/ Starting(out, started, m) \/ InPipe(out, m)
       \/ InHandle(handles, m) \/ InAnswer(back, m) \/ IsDue(d, m)
       => taken[m] = 0
    /\ rt[m] = "new" =>
         /\ ~InJob(jobs, started, m) /\ ~InPipe(out, m) /\ ~InHandle(handles, m)
         /\ ~InAnswer(back, m) /\ ~IsDue(d, m) /\ ~Answered(back, d, m)
         /\ taken[m] = 0

(* Where a message that was promised an answer waits, unless a turn has taken *)
(* it in.                                                                     *)
Returns(line, m) == RunLine(line) /\ m \in line.steering
Waits(jobs, started, out, back, d, handles, m) ==
  \/ InQueue(jobs, m) \/ Starting(out, started, m) \/ InHandle(handles, m)
  \/ \E i \in 1..Len(back) : Returns(back[i], m)
  \/ \E line \in d : Returns(line, m)
Promised(rt, back, d, m) ==
  rt[m] \in {"queued", "accepted"} \/ (rt[m] = "steering" /\ Answered(back, d, m))
Kept(jobs, started, rt, out, back, d, handles, taken) ==
  \A m \in Messages :
    Promised(rt, back, d, m) => taken[m] = 1 \/ Waits(jobs, started, out, back, d, handles, m)

TurnInv ==
  /\ Types
  /\ Jobs(queue, origin, lastRun)
  /\ Slot(active, lastRun, up, toAgent, toGateway, due, agentRun)
  /\ Apart(queue, origin, toAgent, toGateway, due, agentRun)
  /\ Once(toAgent, toGateway, due)
  /\ Fresh(queue, origin, route, toAgent, toGateway, due, agentRun, consumed)
  /\ faults \subseteq {"timeout"} =>
       Kept(queue, origin, route, toAgent, toGateway, due, agentRun, consumed)

(***************************************************************************)
(* Lemmas about jobs and lines.                                            *)
(***************************************************************************)
LEMMA InjectionBound ==
  ASSUME NEW S, NEW T, IsFiniteSet(T), NEW f \in [S -> T],
         \A x, y \in S : f[x] = f[y] => x = y
  PROVE  Cardinality(S) <= Cardinality(T)
<1>1. f \in Injection(S, T)
  BY DEF Injection, IsInjective
<1>. QED  BY <1>1, FS_Injection

(* There are runs enough: every run started has a message of its own. *)
LEMMA RunsSuffice ==
  ASSUME NEW started \in [Runs -> Job], NEW last \in Runs,
         \A r \in 1..last : started[r].messages # {},
         \A m \in Messages : \A r, s \in Runs :
           m \in started[r].messages /\ m \in started[s].messages => r = s
  PROVE  last + 1 \in Runs
<1>. USE MessagesAssumption
<1>1. Cardinality(Messages) \in Nat
  BY FS_CardinalityType
<1>. DEFINE f == [r \in 1..last |-> CHOOSE m \in Messages : m \in started[r].messages]
<1>2. last \in Nat /\ 1..last \subseteq Runs
  BY <1>1 DEF Runs
<1>3. ASSUME NEW r \in 1..last PROVE f[r] \in Messages /\ f[r] \in started[r].messages
  BY <1>2 DEF Job
<1>4. f \in [1..last -> Messages]
  BY <1>3
<1>5. \A r, s \in 1..last : f[r] = f[s] => r = s
  BY <1>2, <1>3
<1>6. IsFiniteSet(1..last) /\ Cardinality(1..last) = last
  BY <1>2, FS_Interval
<1>7. last <= Cardinality(Messages)
  <2>. HIDE DEF f
  <2>. DEFINE S == 1..last
  <2>1. f \in [S -> Messages]
    BY <1>4
  <2>2. \A r, s \in S : f[r] = f[s] => r = s
    BY <1>5
  <2>. HIDE DEF S
  <2>3. IsFiniteSet(Messages)
    BY MessagesAssumption
  <2>4. Cardinality(S) <= Cardinality(Messages)
    BY <2>1, <2>2, <2>3, InjectionBound, Zenon
  <2>. QED  BY <2>4, <1>6 DEF S
<1>. QED  BY <1>1, <1>2, <1>7 DEF Runs

LEMMA AddJob ==
  ASSUME NEW jobs, NEW started, NEW last, Jobs(jobs, started, last),
         NEW job \in Job, job.messages # {},
         \A m \in job.messages : ~InJob(jobs, started, m)
  PROVE  /\ Jobs(Append(jobs, job), started, last)
         /\ \A m : InQueue(Append(jobs, job), m) <=> InQueue(jobs, m) \/ m \in job.messages
<1>. DEFINE q == Append(jobs, job)
<1>1. jobs \in Seq(Job) /\ Len(jobs) \in Nat
  BY LenProperties DEF Jobs
<1>2. /\ q \in Seq(Job) /\ Len(q) = Len(jobs) + 1
      /\ \A i \in 1..Len(jobs) : q[i] = jobs[i]
      /\ q[Len(jobs) + 1] = job
  BY <1>1, AppendProperties
<1>. HIDE DEF q
<1>3. \A i \in 1..Len(q) :
        (i \in 1..Len(jobs) /\ q[i] = jobs[i]) \/ (i = Len(jobs) + 1 /\ q[i] = job)
  <2>1. \A i \in 1..Len(q) : i \in 1..Len(jobs) \/ i = Len(jobs) + 1
    BY <1>1, <1>2
  <2>. QED  BY <2>1, <1>2
<1>4. \A m \in job.messages : /\ \A i \in 1..Len(jobs) : m \notin jobs[i].messages
                              /\ \A r \in Runs : m \notin started[r].messages
  BY DEF InJob, InQueue, InRun
<1>5. Jobs(q, started, last)
  BY <1>2, <1>3, <1>4 DEF Jobs
<1>6. \A m : InQueue(q, m) <=> InQueue(jobs, m) \/ m \in job.messages
  <2>. SUFFICES ASSUME NEW m PROVE InQueue(q, m) <=> InQueue(jobs, m) \/ m \in job.messages
    OBVIOUS
  <2>1. InQueue(q, m) => InQueue(jobs, m) \/ m \in job.messages
    BY <1>3 DEF InQueue
  <2>2. InQueue(jobs, m) => InQueue(q, m)
    BY <1>1, <1>2 DEF InQueue
  <2>3. m \in job.messages => InQueue(q, m)
    BY <1>1, <1>2 DEF InQueue
  <2>. QED  BY <2>1, <2>2, <2>3
<1>. QED  BY <1>5, <1>6 DEF q

LEMMA AddFirst ==
  ASSUME NEW jobs, NEW started, NEW last, Jobs(jobs, started, last),
         NEW job \in Job, job.messages # {},
         \A m \in job.messages : ~InJob(jobs, started, m)
  PROVE  /\ Jobs(<<job>> \o jobs, started, last)
         /\ \A m : InQueue(<<job>> \o jobs, m) <=> InQueue(jobs, m) \/ m \in job.messages
<1>. DEFINE q == <<job>> \o jobs
<1>1. jobs \in Seq(Job) /\ Len(jobs) \in Nat
  BY LenProperties DEF Jobs
<1>2. <<job>> \in Seq(Job) /\ Len(<<job>>) = 1 /\ <<job>>[1] = job
  OBVIOUS
<1>3. /\ q \in Seq(Job) /\ Len(q) = Len(jobs) + 1
      /\ \A i \in 1..Len(jobs) : q[i + 1] = jobs[i]
      /\ q[1] = job
  BY <1>1, <1>2, ConcatProperties
<1>. HIDE DEF q
<1>4. \A i \in 1..Len(q) :
        (i - 1 \in 1..Len(jobs) /\ q[i] = jobs[i - 1]) \/ (i = 1 /\ q[i] = job)
  <2>. SUFFICES ASSUME NEW i \in 1..Len(q), i # 1 PROVE i - 1 \in 1..Len(jobs) /\ q[i] = jobs[i - 1]
    BY <1>3
  <2>1. i - 1 \in 1..Len(jobs) /\ (i - 1) + 1 = i
    BY <1>1, <1>3
  <2>. QED  BY <2>1, <1>3
<1>5. \A m \in job.messages : /\ \A i \in 1..Len(jobs) : m \notin jobs[i].messages
                              /\ \A r \in Runs : m \notin started[r].messages
  BY DEF InJob, InQueue, InRun
<1>6. Jobs(q, started, last)
  <2>1. \A i \in 1..Len(q) : q[i].messages # {}
    BY <1>4 DEF Jobs
  <2>2. ASSUME NEW m \in Messages, NEW i \in 1..Len(q), NEW j \in 1..Len(q),
               m \in q[i].messages, m \in q[j].messages
        PROVE  i = j
    <3>1. CASE m \in job.messages
      BY <1>4, <1>5, <2>2, <3>1
    <3>2. CASE m \notin job.messages
      <4>1. /\ i - 1 \in 1..Len(jobs) /\ m \in jobs[i - 1].messages
            /\ j - 1 \in 1..Len(jobs) /\ m \in jobs[j - 1].messages
        BY <1>4, <2>2, <3>2
      <4>2. i - 1 = j - 1
        BY <4>1 DEF Jobs
      <4>. QED  BY <1>3, <1>1, <4>2
    <3>. QED  BY <3>1, <3>2
  <2>3. ASSUME NEW m \in Messages, NEW i \in 1..Len(q), NEW r \in Runs
        PROVE  ~(m \in q[i].messages /\ m \in started[r].messages)
    BY <1>4, <1>5 DEF Jobs
  <2>. QED  BY <1>3, <2>1, <2>2, <2>3 DEF Jobs
<1>7. \A m : InQueue(q, m) <=> InQueue(jobs, m) \/ m \in job.messages
  <2>. SUFFICES ASSUME NEW m PROVE InQueue(q, m) <=> InQueue(jobs, m) \/ m \in job.messages
    OBVIOUS
  <2>1. InQueue(q, m) => InQueue(jobs, m) \/ m \in job.messages
    BY <1>4 DEF InQueue
  <2>2. ASSUME InQueue(jobs, m) PROVE InQueue(q, m)
    <3>1. PICK i \in 1..Len(jobs) : m \in jobs[i].messages
      BY <2>2 DEF InQueue
    <3>2. i + 1 \in 1..Len(q) /\ q[i + 1] = jobs[i]
      BY <1>1, <1>3
    <3>. QED  BY <3>1, <3>2 DEF InQueue
  <2>3. m \in job.messages => InQueue(q, m)
    BY <1>1, <1>3 DEF InQueue
  <2>. QED  BY <2>1, <2>2, <2>3
<1>. QED  BY <1>6, <1>7 DEF q

WithNext(jobs, started, last) == [started EXCEPT ![last + 1] = Head(jobs)]

LEMMA StartJob ==
  ASSUME NEW jobs, NEW started, NEW last, Jobs(jobs, started, last), jobs # <<>>
  PROVE  /\ last + 1 \in Runs
         /\ Jobs(Tail(jobs), WithNext(jobs, started, last), last + 1)
         /\ \A m : InQueue(jobs, m) <=>
               InQueue(Tail(jobs), m) \/ m \in WithNext(jobs, started, last)[last + 1].messages
         /\ \A m : InRun(WithNext(jobs, started, last), m) <=>
               InRun(started, m) \/ m \in WithNext(jobs, started, last)[last + 1].messages
<1>. DEFINE q == Tail(jobs)
            now == WithNext(jobs, started, last)
            next == last + 1
<1>0. Cardinality(Messages) \in Nat
  BY MessagesAssumption, FS_CardinalityType
<1>1. /\ jobs \in Seq(Job) /\ Len(jobs) \in Nat \ {0} /\ last \in Nat
      /\ started \in [Runs -> Job]
  BY <1>0, EmptySeq, LenProperties DEF Jobs, Runs
<1>2. /\ q \in Seq(Job) /\ Len(q) = Len(jobs) - 1
      /\ \A i \in 1..Len(q) : q[i] = jobs[i + 1] /\ i + 1 \in 1..Len(jobs)
      /\ Head(jobs) = jobs[1] /\ jobs[1] \in Job
  BY <1>1, HeadTailProperties
<1>3. next \in Runs
  <2>1. CASE last = 0
    BY <2>1, <1>0 DEF Runs
  <2>2. CASE last # 0
    <3>1. last \in Runs /\ \A r \in 1..last : r \in Runs
      BY <2>2, <1>0 DEF Jobs, Runs
    <3>2. \A r \in 1..last : started[r].messages # {}
      BY <3>1, <1>1 DEF Jobs
    <3>. QED  BY <1>1, <3>1, <3>2, RunsSuffice DEF Jobs
  <2>. QED  BY <2>1, <2>2
<1>4. /\ now \in [Runs -> Job] /\ now[next] = jobs[1]
      /\ \A r \in Runs : r # next => now[r] = started[r]
  BY <1>1, <1>2, <1>3 DEF WithNext
<1>5. started[next].messages = {}
  BY <1>1, <1>3 DEF Jobs
<1>6. jobs[1].messages # {}
  BY <1>1 DEF Jobs
<1>. HIDE DEF q, now
<1>7. \A r \in Runs : r \in Nat
  BY <1>0 DEF Runs
<1>8. Jobs(q, now, next)
  <2>1. \A i \in 1..Len(q) : q[i].messages # {}
    BY <1>2 DEF Jobs
  <2>2. \A r \in Runs : now[r].messages # {} <=> r <= next
    BY <1>1, <1>3, <1>4, <1>6, <1>7 DEF Jobs
  <2>3. ASSUME NEW m \in Messages, NEW i \in 1..Len(q), NEW j \in 1..Len(q),
               m \in q[i].messages, m \in q[j].messages
        PROVE  i = j
    <3>1. i + 1 = j + 1
      BY <1>2, <2>3 DEF Jobs
    <3>. QED  BY <3>1
  <2>4. ASSUME NEW m \in Messages, NEW r \in Runs, NEW s \in Runs,
               m \in now[r].messages, m \in now[s].messages
        PROVE  r = s
    BY <1>1, <1>4, <2>4 DEF Jobs
  <2>5. ASSUME NEW m \in Messages, NEW i \in 1..Len(q), NEW r \in Runs,
               m \in q[i].messages, m \in now[r].messages
        PROVE  FALSE
    <3>1. i + 1 \in 1..Len(jobs) /\ i + 1 # 1 /\ m \in jobs[i + 1].messages
      BY <1>2, <2>5
    <3>2. 1 \in 1..Len(jobs)
      BY <1>1
    <3>. QED  BY <1>4, <2>5, <3>1, <3>2 DEF Jobs
  <2>. QED  BY <1>2, <1>3, <1>4, <2>1, <2>2, <2>3, <2>4, <2>5 DEF Jobs
<1>9. ASSUME NEW m PROVE InQueue(jobs, m) <=> InQueue(q, m) \/ m \in now[next].messages
  <2>1. ASSUME NEW i \in 1..Len(jobs), m \in jobs[i].messages, i # 1 PROVE InQueue(q, m)
    <3>1. i - 1 \in 1..Len(q) /\ (i - 1) + 1 = i
      BY <1>1, <1>2, <2>1
    <3>. QED  BY <1>2, <2>1, <3>1 DEF InQueue
  <2>2. InQueue(q, m) => InQueue(jobs, m)
    BY <1>2 DEF InQueue
  <2>3. m \in jobs[1].messages => InQueue(jobs, m)
    BY <1>1 DEF InQueue
  <2>. QED  BY <1>4, <2>1, <2>2, <2>3 DEF InQueue
<1>10. ASSUME NEW m PROVE InRun(now, m) <=> InRun(started, m) \/ m \in now[next].messages
  BY <1>3, <1>4, <1>5 DEF InRun
<1>. QED  BY <1>3, <1>8, <1>9, <1>10 DEF q, now

(* What a line more at the end of a pipe changes. *)
LEMMA AddLine ==
  ASSUME NEW S, NEW pipe \in Seq(S), NEW line \in S
  PROVE  /\ Append(pipe, line) \in Seq(S)
         /\ Append(pipe, line) # <<>>
         /\ \A i \in 1..Len(Append(pipe, line)) :
              (i \in 1..Len(pipe) /\ Append(pipe, line)[i] = pipe[i])
              \/ (i = Len(pipe) + 1 /\ Append(pipe, line)[i] = line)
         /\ \A i \in 1..Len(pipe) :
              i \in 1..Len(Append(pipe, line)) /\ Append(pipe, line)[i] = pipe[i]
         /\ \E i \in 1..Len(Append(pipe, line)) : Append(pipe, line)[i] = line
<1>. DEFINE q == Append(pipe, line)
<1>1. /\ q \in Seq(S) /\ q # <<>> /\ Len(q) = Len(pipe) + 1 /\ Len(pipe) \in Nat
      /\ \A i \in 1..Len(pipe) : q[i] = pipe[i]
      /\ q[Len(pipe) + 1] = line
  BY AppendProperties, LenProperties
<1>. HIDE DEF q
<1>2. \A i \in 1..Len(q) : i \in 1..Len(pipe) \/ i = Len(pipe) + 1
  BY <1>1
<1>3. \A i \in 1..Len(pipe) : i \in 1..Len(q)
  BY <1>1
<1>4. Len(pipe) + 1 \in 1..Len(q)
  BY <1>1
<1>. QED  BY <1>1, <1>2, <1>3, <1>4 DEF q

(***************************************************************************)
(* drain() completes a step: what holds of the jobs, the slot and the pipe *)
(* it is given holds of those it leaves.                                   *)
(***************************************************************************)
LEMMA DrainKeeps ==
  ASSUME NEW jobs, NEW act, NEW out, NEW ready, Drain(jobs, act, out, ready),
         ready => up',
         Types',
         Jobs(jobs, origin, lastRun),
         Slot(act, lastRun, up', out, toGateway', due', agentRun'),
         Apart(jobs, origin, out, toGateway', due', agentRun'),
         Once(out, toGateway', due'),
         Fresh(jobs, origin, route', out, toGateway', due', agentRun', consumed'),
         faults' \subseteq {"timeout"} =>
           Kept(jobs, origin, route', out, toGateway', due', agentRun', consumed')
  PROVE  TurnInv'
<1>1. CASE ~(act = 0 /\ jobs # <<>> /\ ready)
  <2>1. queue' = jobs /\ active' = act /\ toAgent' = out /\ origin' = origin /\ lastRun' = lastRun
    BY <1>1 DEF Drain
  <2>. QED  BY <2>1 DEF TurnInv
<1>2. CASE act = 0 /\ jobs # <<>> /\ ready
  <2>. DEFINE next == lastRun + 1
              line == [kind |-> "run_turn", run |-> next]
  <2>1. /\ queue' = Tail(jobs) /\ lastRun' = next /\ active' = next
        /\ origin' = [origin EXCEPT ![next] = Head(jobs)]
        /\ toAgent' = Append(out, line)
    BY <1>2 DEF Drain
  <2>2. /\ next \in Runs
        /\ Jobs(queue', origin', lastRun')
        /\ \A m : InQueue(jobs, m) <=> InQueue(queue', m) \/ m \in origin'[next].messages
        /\ \A m : InRun(origin', m) <=> InRun(origin, m) \/ m \in origin'[next].messages
    <3>1. origin' = WithNext(jobs, origin, lastRun)
      BY <2>1 DEF WithNext
    <3>2. jobs # <<>> /\ Jobs(jobs, origin, lastRun)
      BY <1>2
    <3>3. /\ next \in Runs
          /\ Jobs(Tail(jobs), origin', next)
          /\ \A m : InQueue(jobs, m) <=> InQueue(Tail(jobs), m) \/ m \in origin'[next].messages
          /\ \A m : InRun(origin', m) <=> InRun(origin, m) \/ m \in origin'[next].messages
      BY <3>1, <3>2, StartJob
    <3>. QED  BY <2>1, <3>3
  <2>3. lastRun \in Nat /\ \A r \in Runs : r \in Nat \ {0}
    BY MessagesAssumption, FS_CardinalityType DEF Jobs, Runs
  <2>4. out \in Seq(Request) /\ line \in Request
    BY <2>2 DEF Slot, Request
  <2>5. /\ toAgent' \in Seq(Request)
        /\ \A i \in 1..Len(toAgent') :
             (i \in 1..Len(out) /\ toAgent'[i] = out[i])
             \/ (i = Len(out) + 1 /\ toAgent'[i] = line)
        /\ \A i \in 1..Len(out) : i \in 1..Len(toAgent') /\ toAgent'[i] = out[i]
        /\ \E i \in 1..Len(toAgent') : toAgent'[i] = line
    BY <2>1, <2>4, AddLine
  <2>6. RunLine(line) /\ line.run = next /\ line.kind = "run_turn" /\ \A m : ~Steers(line, m)
    BY DEF RunLine, Steers
  <2>. HIDE DEF next, line
  <2>7. /\ \A i \in 1..Len(out) : ~RunLine(out[i])
        /\ \A i \in 1..Len(toGateway') : ~RunLine(toGateway'[i])
        /\ \A x \in due' : ~RunLine(x)
        /\ Live(agentRun') = {}
    BY <1>2, <2>3 DEF Slot, Live
  <2>8. Slot(active', lastRun', up', toAgent', toGateway', due', agentRun')
    <3>1. next = lastRun + 1 /\ next \in 0..next /\ next # 0
      BY <2>3 DEF next
    <3>2. agentRun'[next].phase = "none"
      BY <2>2, <2>3, <3>1 DEF Slot
    <3>3. \A i \in 1..Len(toAgent') : RunLine(toAgent'[i]) =>
            /\ i = Len(out) + 1 /\ toAgent'[i].run = next
      BY <2>5, <2>6, <2>7
    <3>4. up' = TRUE
      BY <1>2 DEF Types
    <3>5. \A r \in Runs : next < r => agentRun'[r].phase = "none"
      BY <2>3, <3>1 DEF Slot
    <3>6. \A r \in Runs \ Live(agentRun') : agentRun'[r].steering = {}
      BY DEF Slot
    <3>. QED  BY <2>1, <2>5, <2>7, <3>1, <3>2, <3>3, <3>4, <3>5, <3>6 DEF Slot
  <2>9. \A m : InPipe(toAgent', m) <=> InPipe(out, m)
    BY <2>5, <2>6 DEF InPipe
  <2>10. \A m : InJob(queue', origin', m) <=> InJob(jobs, origin, m)
    BY <2>2 DEF InJob
  <2>11. Apart(queue', origin', toAgent', toGateway', due', agentRun')
    BY <2>9, <2>10 DEF Apart
  <2>12. Once(toAgent', toGateway', due')
    BY <2>5, <2>6 DEF Once
  <2>13. \A m : Starting(toAgent', origin', m) <=> m \in origin'[next].messages
    BY <2>5, <2>6, <2>7 DEF Starting
  <2>14. Fresh(queue', origin', route', toAgent', toGateway', due', agentRun', consumed')
    BY <2>2, <2>9, <2>10, <2>13 DEF Fresh
  <2>15. \A m : ~Starting(out, origin, m)
    BY <2>7 DEF Starting
  <2>16. faults' \subseteq {"timeout"} =>
           Kept(queue', origin', route', toAgent', toGateway', due', agentRun', consumed')
    BY <2>2, <2>13, <2>15 DEF Kept, Waits
  <2>. QED  BY <2>2, <2>8, <2>11, <2>12, <2>14, <2>16 DEF TurnInv
<1>. QED  BY <1>1, <1>2

(* A request or an answer more, of another kind than run_turn. *)
LEMMA RequestSent ==
  ASSUME NEW act, NEW last, NEW u, NEW out, NEW back, NEW d, NEW handles,
         Slot(act, last, u, out, back, d, handles), u = TRUE,
         NEW line \in Request, ~RunLine(line)
  PROVE  /\ Slot(act, last, u, Append(out, line), back, d, handles)
         /\ \A started, m : Starting(Append(out, line), started, m) <=> Starting(out, started, m)
         /\ \A m : InPipe(Append(out, line), m) <=> InPipe(out, m) \/ Steers(line, m)
<1>. DEFINE q == Append(out, line)
<1>1. out \in Seq(Request)
  BY DEF Slot
<1>2. /\ q \in Seq(Request)
      /\ \A i \in 1..Len(q) : (i \in 1..Len(out) /\ q[i] = out[i]) \/ (i = Len(out) + 1 /\ q[i] = line)
      /\ \A i \in 1..Len(out) : i \in 1..Len(q) /\ q[i] = out[i]
      /\ \E i \in 1..Len(q) : q[i] = line
  BY <1>1, AddLine
<1>. HIDE DEF q
<1>3. Slot(act, last, u, q, back, d, handles)
  BY <1>2 DEF Slot
<1>4. \A started, m : Starting(q, started, m) <=> Starting(out, started, m)
  BY <1>2 DEF Starting
<1>5. \A m : InPipe(q, m) <=> InPipe(out, m) \/ Steers(line, m)
  BY <1>2 DEF InPipe
<1>. QED  BY <1>3, <1>4, <1>5 DEF q

LEMMA AnswerSent ==
  ASSUME NEW act, NEW last, NEW u, NEW out, NEW back \in Seq(Answer), NEW d, NEW handles,
         Slot(act, last, u, out, back, d, handles), u = TRUE,
         NEW line \in Answer, ~RunLine(line)
  PROVE  /\ Append(back, line) \in Seq(Answer)
         /\ Slot(act, last, u, out, Append(back, line), d, handles)
         /\ \A m : InAnswer(Append(back, line), m) <=> InAnswer(back, m) \/ Brings(line, m)
         /\ \A m : (\E i \in 1..Len(Append(back, line)) : Returns(Append(back, line)[i], m))
                    <=> (\E i \in 1..Len(back) : Returns(back[i], m))
         /\ \A m : Answered(Append(back, line), d, m) <=> Answered(back, d, m) \/ Accepts(line, m)
<1>. DEFINE q == Append(back, line)
<1>2. /\ q \in Seq(Answer)
      /\ \A i \in 1..Len(q) : (i \in 1..Len(back) /\ q[i] = back[i]) \/ (i = Len(back) + 1 /\ q[i] = line)
      /\ \A i \in 1..Len(back) : i \in 1..Len(q) /\ q[i] = back[i]
      /\ \E i \in 1..Len(q) : q[i] = line
  BY AddLine
<1>. HIDE DEF q
<1>3. Slot(act, last, u, out, q, d, handles)
  BY <1>2 DEF Slot
<1>4. \A m : InAnswer(q, m) <=> InAnswer(back, m) \/ Brings(line, m)
  BY <1>2 DEF InAnswer
<1>5. \A m : (\E i \in 1..Len(q) : Returns(q[i], m)) <=> (\E i \in 1..Len(back) : Returns(back[i], m))
  BY <1>2 DEF Returns
<1>6. \A m : Answered(q, d, m) <=> Answered(back, d, m) \/ Accepts(line, m)
  BY <1>2 DEF Answered
<1>. QED  BY <1>2, <1>3, <1>4, <1>5, <1>6 DEF q

(* A line that brings nothing, or a message from elsewhere, is not brought twice. *)
LEMMA OnceMore ==
  ASSUME NEW out, NEW back \in Seq(Answer), NEW d, Once(out, back, d), NEW line \in Answer,
         \A m \in Messages : Brings(line, m) => ~InAnswer(back, m)
  PROVE  Once(out, Append(back, line), d)
<1>. DEFINE q == Append(back, line)
<1>1. /\ \A i \in 1..Len(q) : (i \in 1..Len(back) /\ q[i] = back[i]) \/ (i = Len(back) + 1 /\ q[i] = line)
  BY AddLine
<1>. HIDE DEF q
<1>2. \A m \in Messages : \A i, j \in 1..Len(q) : Brings(q[i], m) /\ Brings(q[j], m) => i = j
  BY <1>1 DEF Once, InAnswer
<1>. QED  BY <1>2 DEF Once, q

LEMMA OnceSteered ==
  ASSUME NEW out \in Seq(Request), NEW back, NEW d, Once(out, back, d), NEW line \in Request,
         \A m \in Messages : Steers(line, m) => ~InPipe(out, m)
  PROVE  Once(Append(out, line), back, d)
<1>. DEFINE q == Append(out, line)
<1>1. /\ \A i \in 1..Len(q) : (i \in 1..Len(out) /\ q[i] = out[i]) \/ (i = Len(out) + 1 /\ q[i] = line)
  BY AddLine
<1>. HIDE DEF q
<1>2. \A m \in Messages : \A i, j \in 1..Len(q) : Steers(q[i], m) /\ Steers(q[j], m) => i = j
  BY <1>1 DEF Once, InPipe
<1>. QED  BY <1>2 DEF Once, q

(***************************************************************************)
(* The invariant holds at first.                                           *)
(***************************************************************************)
LEMMA InitTurn == Init => TurnInv
<1>. SUFFICES ASSUME Init PROVE TurnInv
  OBVIOUS
<1>. USE StopsAssumption
<1>0. \A r \in Runs : r \in Nat \ {0}
  BY MessagesAssumption, FS_CardinalityType DEF Runs
<1>1. Types
  BY DEF Init, Types, Absent, Handle, Routes
<1>2. NoJob \in Job /\ NoJob.messages = {}
  BY DEF NoJob, Job
<1>3. Jobs(queue, origin, lastRun)
  BY <1>0, <1>2 DEF Init, Jobs
<1>4. Live(agentRun) = {}
  BY DEF Init, Live, Absent
<1>5. Slot(active, lastRun, up, toAgent, toGateway, due, agentRun)
  <2>1. /\ toAgent = <<>> /\ toAgent \in Seq(Request) /\ Len(toAgent) = 0
        /\ toGateway = <<>> /\ Len(toGateway) = 0
        /\ due = {} /\ active = 0 /\ lastRun = 0 /\ up = TRUE
    BY DEF Init
  <2>2. \A r \in Runs : agentRun[r].phase = "none" /\ agentRun[r].steering = {}
    BY DEF Init, Absent
  <2>. QED  BY <1>4, <2>1, <2>2 DEF Slot
<1>6. \A m : /\ ~InQueue(queue, m) /\ ~InRun(origin, m) /\ ~InPipe(toAgent, m)
             /\ ~InHandle(agentRun, m) /\ ~InAnswer(toGateway, m) /\ ~IsDue(due, m)
             /\ ~Starting(toAgent, origin, m) /\ ~Answered(toGateway, due, m)
  BY <1>2 DEF Init, Answered, InQueue, InRun, InPipe, InHandle, InAnswer, IsDue, Starting, Absent
<1>7. Apart(queue, origin, toAgent, toGateway, due, agentRun)
  BY <1>6 DEF Apart, InJob
<1>8. Once(toAgent, toGateway, due)
  BY DEF Init, Once
<1>9. Fresh(queue, origin, route, toAgent, toGateway, due, agentRun, consumed)
  BY <1>6 DEF Init, Fresh, InJob
<1>10. Kept(queue, origin, route, toAgent, toGateway, due, agentRun, consumed)
  BY DEF Init, Kept, Promised
<1>. QED  BY <1>1, <1>3, <1>5, <1>7, <1>8, <1>9, <1>10 DEF TurnInv

(***************************************************************************)
(* Every step of the gateway keeps it.                                     *)
(***************************************************************************)
LEMMA StopKeeps ==
  ASSUME TurnInv, handleStop
  PROVE  TurnInv'
<1>. USE StopsAssumption
<1>. DEFINE cleared == UNION {queue[i].messages : i \in 1..Len(queue)}
            request == [run |-> active, stop |-> stops + 1]
            line == [kind |-> "cancel_turn", run |-> active, stop |-> stops + 1]
<1>1. /\ due = {} /\ stops < MaxStops /\ stops' = stops + 1 /\ queue' = <<>>
      /\ route' = [m \in Messages |-> IF m \in cleared THEN "dropped" ELSE route[m]]
      /\ UNCHANGED <<active, origin, lastRun, cancelRequested, up, toGateway, due,
                     agentRun, aborting, consumed, faults>>
      /\ IF Steerable(active)
         THEN cancelRequest' = cancelRequest \cup {request} /\ toAgent' = Append(toAgent, line)
         ELSE UNCHANGED <<cancelRequest, toAgent>>
  BY DEF handleStop, Quiet, agentVars
<1>2. \A m : InQueue(queue, m) <=> m \in cleared
  BY DEF InQueue
<1>3. \A m : ~InQueue(queue', m)
  BY <1>1 DEF InQueue
<1>. HIDE DEF cleared
<1>4. /\ stops + 1 \in 1..MaxStops /\ active \in 0..lastRun /\ lastRun \in Runs \cup {0}
  BY <1>1 DEF TurnInv, Types, Slot, Jobs
<1>5. Steerable(active) => active \in Runs /\ up = TRUE
  <2>1. active # 0 => active \in Runs
    BY <1>4, MessagesAssumption, FS_CardinalityType DEF Runs
  <2>2. ~up => active = 0
    BY <1>1 DEF TurnInv, Slot
  <2>. QED  BY <2>1, <2>2 DEF Steerable, TurnInv, Types
<1>6. Types'
  <2>1. cancelRequest' \subseteq Cancel
    BY <1>1, <1>4, <1>5 DEF TurnInv, Types, Cancel
  <2>2. route' \in [Messages -> Routes] /\ stops' \in 0..MaxStops
    BY <1>1, <1>4 DEF TurnInv, Types, Routes
  <2>. QED  BY <1>1, <2>1, <2>2 DEF TurnInv, Types
<1>7. Jobs(queue', origin', lastRun')
  BY <1>1 DEF TurnInv, Jobs
<1>8. /\ Slot(active', lastRun', up', toAgent', toGateway', due', agentRun')
      /\ \A m : InPipe(toAgent', m) <=> InPipe(toAgent, m)
      /\ \A m : Starting(toAgent', origin', m) <=> Starting(toAgent, origin, m)
      /\ Once(toAgent', toGateway', due')
  <2>1. CASE Steerable(active)
    <3>1. line \in Request /\ ~RunLine(line) /\ \A m : ~Steers(line, m)
      BY <1>4, <1>5, <2>1 DEF Request, RunLine, Steers
    <3>2. toAgent \in Seq(Request)
      BY DEF TurnInv, Slot
    <3>3. toAgent' = Append(toAgent, line)
      BY <1>1, <2>1
    <3>. HIDE DEF line
    <3>4. Once(Append(toAgent, line), toGateway, due)
      BY <3>1, <3>2, OnceSteered DEF TurnInv
    <3>5. Slot(active, lastRun, up, toAgent, toGateway, due, agentRun)
      BY DEF TurnInv
    <3>. QED  BY <1>1, <1>5, <2>1, <3>1, <3>3, <3>4, <3>5, RequestSent
  <2>2. CASE ~Steerable(active)
    BY <1>1, <2>2 DEF TurnInv
  <2>. QED  BY <2>1, <2>2
<1>9. Apart(queue', origin', toAgent', toGateway', due', agentRun')
  BY <1>1, <1>3, <1>8 DEF TurnInv, Apart, InJob
<1>10. Fresh(queue', origin', route', toAgent', toGateway', due', agentRun', consumed')
  <2>1. \A m \in Messages : route'[m] = "new" => route[m] = "new"
    BY <1>1
  <2>. QED  BY <1>1, <1>3, <1>8, <2>1 DEF TurnInv, Fresh, InJob
<1>11. faults' \subseteq {"timeout"} =>
         Kept(queue', origin', route', toAgent', toGateway', due', agentRun', consumed')
  <2>. SUFFICES ASSUME faults \subseteq {"timeout"}, NEW m \in Messages,
                       Promised(route', toGateway', due', m)
                PROVE  consumed'[m] = 1 \/ Waits(queue', origin', toAgent', toGateway', due', agentRun', m)
    BY <1>1 DEF Kept
  <2>1. route'[m] = route[m] /\ m \notin cleared /\ Promised(route, toGateway, due, m)
    BY <1>1 DEF Promised
  <2>2. consumed[m] = 1 \/ Waits(queue, origin, toAgent, toGateway, due, agentRun, m)
    BY <2>1 DEF TurnInv, Kept
  <2>. QED  BY <1>1, <1>2, <1>8, <2>1, <2>2 DEF Waits
<1>. QED  BY <1>6, <1>7, <1>8, <1>9, <1>10, <1>11 DEF TurnInv

LEMMA ReadKeeps ==
  ASSUME TurnInv, NEW n \in 1..Len(toGateway), readLines(n)
  PROVE  TurnInv'
<1>1. /\ due = {} /\ due' = {toGateway[i] : i \in 1..n}
      /\ toGateway' = SubSeq(toGateway, n + 1, Len(toGateway))
      /\ UNCHANGED <<queue, active, origin, lastRun, cancelRequest, cancelRequested, route, stops,
                     up, toAgent, agentRun, aborting, consumed, faults>>
  BY DEF readLines, Quiet, agentVars, gatewayVars, schedulerVars, cancelVars
<1>2. /\ toGateway \in Seq(Answer) /\ Len(toGateway) \in Nat /\ n \in Nat
      /\ \A i \in 1..Len(toGateway) : toGateway[i] \in Answer
  BY LenProperties, ElementOfSeq DEF TurnInv, Types
<1>3. /\ toGateway' \in Seq(Answer)
      /\ \A i \in 1..Len(toGateway') :
           n + i \in 1..Len(toGateway) /\ ~(n + i \in 1..n) /\ toGateway'[i] = toGateway[n + i]
      /\ \A i \in 1..Len(toGateway) : i \notin 1..n =>
           i - n \in 1..Len(toGateway') /\ toGateway'[i - n] = toGateway[i]
  <2>1. /\ toGateway' \in Seq(Answer)
        /\ Len(toGateway') = IF n + 1 <= Len(toGateway) THEN Len(toGateway) - (n + 1) + 1 ELSE 0
        /\ \A i \in 1..Len(toGateway) - (n + 1) + 1 : toGateway'[i] = toGateway[n + 1 + i - 1]
    <3>1. n + 1 \in Int /\ Len(toGateway) \in Int
          /\ \A i \in (n + 1)..Len(toGateway) : toGateway[i] \in Answer
      BY <1>2
    <3>. QED  BY <1>1, <3>1, SubSeqProperties
  <2>2. Len(toGateway') = Len(toGateway) - n
    BY <1>2, <2>1
  <2>3. \A i \in 1..Len(toGateway') : n + i \in 1..Len(toGateway) /\ ~(n + i \in 1..n) /\ n + 1 + i - 1 = n + i
    BY <1>2, <2>2
  <2>4. \A i \in 1..Len(toGateway') : toGateway'[i] = toGateway[n + i]
    BY <1>2, <2>1, <2>2, <2>3
  <2>5. \A i \in 1..Len(toGateway) : i \notin 1..n => i - n \in 1..Len(toGateway') /\ n + (i - n) = i
    BY <1>2, <2>2
  <2>. QED  BY <2>1, <2>3, <2>4, <2>5
<1>4. /\ \A x \in due' : \E i \in 1..Len(toGateway) : i \in 1..n /\ x = toGateway[i]
      /\ \A i \in 1..Len(toGateway) : i \in 1..n => toGateway[i] \in due'
  BY <1>1, <1>2
<1>5. Types'
  BY <1>1, <1>2, <1>3, <1>4 DEF TurnInv, Types
<1>6. Slot(active', lastRun', up', toAgent', toGateway', due', agentRun')
  <2>1. up = TRUE
    BY <1>2 DEF TurnInv, Slot, Types
  <2>2. \A i \in 1..Len(toGateway') : RunLine(toGateway'[i]) =>
           /\ active # 0 /\ toGateway'[i].run = active /\ agentRun[active].phase = "over"
           /\ \A j \in 1..Len(toGateway') : RunLine(toGateway'[j]) => j = i
    <3>. SUFFICES ASSUME NEW i \in 1..Len(toGateway'), RunLine(toGateway'[i])
                  PROVE  /\ active # 0 /\ toGateway'[i].run = active /\ agentRun[active].phase = "over"
                         /\ \A j \in 1..Len(toGateway') : RunLine(toGateway'[j]) => j = i
      OBVIOUS
    <3>1. /\ active # 0 /\ toGateway'[i].run = active /\ agentRun[active].phase = "over"
      BY <1>3 DEF TurnInv, Slot
    <3>2. ASSUME NEW j \in 1..Len(toGateway'), RunLine(toGateway'[j]) PROVE j = i
      <4>1. n + j = n + i
        BY <1>3, <3>2 DEF TurnInv, Slot
      <4>. QED  BY <1>2, <4>1
    <3>. QED  BY <3>1, <3>2
  <2>3. ASSUME NEW x \in due', RunLine(x)
        PROVE  /\ active # 0 /\ x.run = active /\ agentRun[active].phase \in {"none", "over"}
               /\ \A y \in due' : RunLine(y) => y = x
               /\ \A i \in 1..Len(toAgent) : ~RunLine(toAgent[i])
               /\ \A i \in 1..Len(toGateway') : ~RunLine(toGateway'[i])
    <3>1. PICK i \in 1..Len(toGateway) : i \in 1..n /\ x = toGateway[i]
      BY <1>4
    <3>2. active # 0 /\ x.run = active /\ agentRun[active].phase = "over"
      BY <2>3, <3>1 DEF TurnInv, Slot
    <3>3. \A y \in due' : RunLine(y) => y = x
      BY <1>4, <2>3, <3>1 DEF TurnInv, Slot
    <3>4. \A j \in 1..Len(toAgent) : ~RunLine(toAgent[j])
      BY <3>2 DEF TurnInv, Slot
    <3>5. \A j \in 1..Len(toGateway') : ~RunLine(toGateway'[j])
      BY <1>3, <2>3, <3>1 DEF TurnInv, Slot
    <3>. QED  BY <3>2, <3>3, <3>4, <3>5
  <2>4. Slot(active, lastRun, up, toAgent, toGateway, due, agentRun)
    BY DEF TurnInv
  <2>5. Slot(active, lastRun, up, toAgent, toGateway', due', agentRun)
    BY <2>1, <2>2, <2>3, <2>4 DEF Slot
  <2>. QED  BY <1>1, <2>5
<1>7. \A m : /\ InAnswer(toGateway', m) => InAnswer(toGateway, m)
             /\ IsDue(due', m) => InAnswer(toGateway, m)
  BY <1>3, <1>4 DEF InAnswer, IsDue
<1>8. \A m \in Messages : ~(InAnswer(toGateway', m) /\ IsDue(due', m))
  BY <1>3, <1>4 DEF InAnswer, IsDue, TurnInv, Once
<1>9. Once(toAgent', toGateway', due')
  <2>1. ASSUME NEW m \in Messages, NEW i \in 1..Len(toGateway'), NEW j \in 1..Len(toGateway'),
               Brings(toGateway'[i], m), Brings(toGateway'[j], m)
        PROVE  i = j
    <3>1. n + i = n + j
      BY <1>3, <2>1 DEF TurnInv, Once
    <3>. QED  BY <1>2, <3>1
  <2>2. \A m \in Messages : \A x, y \in due' : Brings(x, m) /\ Brings(y, m) => x = y
    BY <1>4 DEF TurnInv, Once
  <2>. QED  BY <1>1, <2>1, <2>2 DEF TurnInv, Once
<1>10. Apart(queue', origin', toAgent', toGateway', due', agentRun')
  BY <1>1, <1>7, <1>8 DEF TurnInv, Apart
<1>11. \A m : Answered(toGateway', due', m) => Answered(toGateway, due, m)
  BY <1>3, <1>4 DEF Answered
<1>12. Fresh(queue', origin', route', toAgent', toGateway', due', agentRun', consumed')
  BY <1>1, <1>7, <1>11 DEF TurnInv, Fresh
<1>13. faults' \subseteq {"timeout"} =>
         Kept(queue', origin', route', toAgent', toGateway', due', agentRun', consumed')
  <2>1. ASSUME NEW m PROVE /\ (\E i \in 1..Len(toGateway) : Returns(toGateway[i], m)) =>
                                  \/ \E i \in 1..Len(toGateway') : Returns(toGateway'[i], m)
                                  \/ \E x \in due' : Returns(x, m)
    BY <1>3, <1>4
  <2>3. ASSUME NEW m, Promised(route', toGateway', due', m) PROVE Promised(route, toGateway, due, m)
    BY <1>1, <1>11, <2>3 DEF Promised
  <2>4. ASSUME NEW m, Waits(queue, origin, toAgent, toGateway, due, agentRun, m)
        PROVE  Waits(queue', origin', toAgent', toGateway', due', agentRun', m)
    BY <1>1, <2>1, <2>4 DEF Waits
  <2>. QED  BY <1>1, <2>3, <2>4 DEF TurnInv, Kept
<1>. QED  BY <1>1, <1>5, <1>6, <1>9, <1>10, <1>12, <1>13 DEF TurnInv

LEMMA TimeoutKeeps ==
  ASSUME TurnInv, requestTimesOut
  PROVE  TurnInv'
<1>1. /\ due = {}
      /\ faults' = faults \cup {"timeout"} /\ "timeout" \in Faults
      /\ UNCHANGED <<queue, active, origin, lastRun, cancelRequest, cancelRequested, route, stops,
                     up, toAgent, toGateway, agentRun, aborting, consumed>>
  BY DEF requestTimesOut, Quiet, agentVars, gatewayVars, schedulerVars, cancelVars
<1>2. PICK x \in Answer : /\ due' = {x} /\ ~RunLine(x)
                          /\ \A m : ~Brings(x, m) /\ ~Accepts(x, m)
  <2>1. CASE \E c \in cancelRequest : due' = {CancelAnswer(c, "error")}
    <3>1. PICK c \in cancelRequest : due' = {CancelAnswer(c, "error")}
      BY <2>1
    <3>2. c \in Cancel
      BY DEF TurnInv, Types
    <3>3. CancelAnswer(c, "error") \in Answer
      BY <3>2 DEF CancelAnswer, Cancel, Answer
    <3>4. CancelAnswer(c, "error").kind = "cancel_turn"
      BY DEF CancelAnswer
    <3>. QED  BY <3>1, <3>3, <3>4 DEF RunLine, Brings, Accepts
  <2>2. CASE \E m \in Messages : due' = {[kind |-> "steer_turn", message |-> m, ok |-> "error"]}
    <3>1. PICK m \in Messages : due' = {[kind |-> "steer_turn", message |-> m, ok |-> "error"]}
      BY <2>2
    <3>. DEFINE x == [kind |-> "steer_turn", message |-> m, ok |-> "error"]
    <3>2. x \in Answer /\ x.kind = "steer_turn" /\ x.ok = "error"
      BY DEF Answer
    <3>. QED  BY <3>1, <3>2 DEF RunLine, Brings, Accepts
  <2>. QED  BY <2>1, <2>2 DEF requestTimesOut
<1>3. Types'
  BY <1>1, <1>2 DEF TurnInv, Types
<1>4. Slot(active', lastRun', up', toAgent', toGateway', due', agentRun')
  BY <1>1, <1>2 DEF TurnInv, Slot
<1>5. /\ \A m : ~IsDue(due', m)
      /\ \A m : Answered(toGateway', due', m) => Answered(toGateway, due, m)
  BY <1>1, <1>2 DEF IsDue, Answered
<1>6. Apart(queue', origin', toAgent', toGateway', due', agentRun')
  BY <1>1, <1>5 DEF TurnInv, Apart
<1>7. Once(toAgent', toGateway', due')
  BY <1>1, <1>2 DEF TurnInv, Once
<1>8. Fresh(queue', origin', route', toAgent', toGateway', due', agentRun', consumed')
  BY <1>1, <1>5 DEF TurnInv, Fresh
<1>9. faults' \subseteq {"timeout"} =>
        Kept(queue', origin', route', toAgent', toGateway', due', agentRun', consumed')
  <2>1. \A m : Promised(route', toGateway', due', m) => Promised(route, toGateway, due, m)
    BY <1>1, <1>5 DEF Promised
  <2>2. \A m : Waits(queue, origin, toAgent, toGateway, due, agentRun, m)
               => Waits(queue', origin', toAgent', toGateway', due', agentRun', m)
    BY <1>1 DEF Waits
  <2>. QED  BY <1>1, <2>1, <2>2 DEF TurnInv, Kept
<1>. QED  BY <1>1, <1>3, <1>4, <1>6, <1>7, <1>8, <1>9 DEF TurnInv

(* A reaction to a line of another kind than run_turn. *)
LEMMA LessDue ==
  ASSUME TurnInv, NEW x \in due, ~RunLine(x)
  PROVE  /\ Slot(active, lastRun, up, toAgent, toGateway, due \ {x}, agentRun)
         /\ Apart(queue, origin, toAgent, toGateway, due \ {x}, agentRun)
         /\ Once(toAgent, toGateway, due \ {x})
         /\ Fresh(queue, origin, route, toAgent, toGateway, due \ {x}, agentRun, consumed)
         /\ faults \subseteq {"timeout"} =>
              Kept(queue, origin, route, toAgent, toGateway, due \ {x}, agentRun, consumed)
<1>. DEFINE d == due \ {x}
<1>1. /\ d \subseteq due
      /\ \A y \in due : RunLine(y) => y \in d
  OBVIOUS
<1>. HIDE DEF d
<1>2. Slot(active, lastRun, up, toAgent, toGateway, d, agentRun)
  <2>1. Slot(active, lastRun, up, toAgent, toGateway, due, agentRun)
    BY DEF TurnInv
  <2>. QED  BY <1>1, <2>1 DEF Slot
<1>3. \A m : IsDue(d, m) => IsDue(due, m)
  BY <1>1 DEF IsDue
<1>4. \A m : Answered(toGateway, d, m) => Answered(toGateway, due, m)
  BY <1>1 DEF Answered
<1>5. Apart(queue, origin, toAgent, toGateway, d, agentRun)
  BY <1>3 DEF TurnInv, Apart
<1>6. Once(toAgent, toGateway, d)
  BY <1>1 DEF TurnInv, Once
<1>7. Fresh(queue, origin, route, toAgent, toGateway, d, agentRun, consumed)
  BY <1>3, <1>4 DEF TurnInv, Fresh
<1>8. faults \subseteq {"timeout"} =>
        Kept(queue, origin, route, toAgent, toGateway, d, agentRun, consumed)
  <2>1. \A m : Promised(route, toGateway, d, m) => Promised(route, toGateway, due, m)
    BY <1>4 DEF Promised
  <2>2. \A m : Waits(queue, origin, toAgent, toGateway, due, agentRun, m)
               => Waits(queue, origin, toAgent, toGateway, d, agentRun, m)
    BY <1>1 DEF Waits, Returns
  <2>. QED  BY <2>1, <2>2 DEF TurnInv, Kept
<1>. QED  BY <1>2, <1>5, <1>6, <1>7, <1>8 DEF d

LEMMA CancelSettlesKeeps ==
  ASSUME TurnInv, NEW x \in due, cancelSettles(x)
  PROVE  TurnInv'
<1>1. /\ x.kind = "cancel_turn" /\ due' = due \ {x}
      /\ cancelRequest' = cancelRequest \ {[run |-> x.run, stop |-> x.stop]}
      /\ cancelRequested' = IF x.ok = "yes" /\ [run |-> x.run, stop |-> x.stop] \in cancelRequest
                            THEN cancelRequested \cup {x.run} ELSE cancelRequested
      /\ UNCHANGED <<queue, active, origin, lastRun, route, stops, up, toAgent, toGateway,
                     agentRun, aborting, consumed, faults>>
  BY DEF cancelSettles, agentVars, schedulerVars
<1>2. x \in Answer /\ ~RunLine(x)
  BY <1>1 DEF TurnInv, Types, RunLine
<1>3. x.run \in Runs
  BY <1>1, <1>2 DEF Answer
<1>4. Types'
  BY <1>1, <1>3 DEF TurnInv, Types
<1>. QED  BY <1>1, <1>2, <1>4, LessDue DEF TurnInv

(* A message that is nowhere joins the queue in a job of its own. *)
LEMMA EnqueueKeeps ==
  ASSUME NEW m \in Messages, enqueue(m), route' = [route EXCEPT ![m] = "queued"],
         Types, Types', up' = up,
         Jobs(queue, origin, lastRun),
         Slot(active, lastRun, up', toAgent, toGateway', due', agentRun'),
         Apart(queue, origin, toAgent, toGateway', due', agentRun'),
         Once(toAgent, toGateway', due'),
         Fresh(queue, origin, route, toAgent, toGateway', due', agentRun', consumed'),
         faults' \subseteq {"timeout"} =>
           Kept(queue, origin, route, toAgent, toGateway', due', agentRun', consumed'),
         ~InJob(queue, origin, m), ~InPipe(toAgent, m), ~InHandle(agentRun', m),
         ~InAnswer(toGateway', m), ~IsDue(due', m), consumed'[m] = 0
  PROVE  TurnInv'
<1>. DEFINE job == [messages |-> {m}, from |-> 0]
            jobs == Append(queue, job)
<1>1. Drain(jobs, active, toAgent, up)
  BY DEF enqueue
<1>2. job \in Job /\ job.messages = {m}
  BY DEF Job
<1>3. Jobs(jobs, origin, lastRun) /\ \A n : InQueue(jobs, n) <=> InQueue(queue, n) \/ n = m
  <2>. HIDE DEF job
  <2>1. \A n \in job.messages : ~InJob(queue, origin, n)
    BY <1>2
  <2>2. /\ Jobs(Append(queue, job), origin, lastRun)
        /\ \A n : InQueue(Append(queue, job), n) <=> InQueue(queue, n) \/ n \in job.messages
    BY <1>2, <2>1, AddJob
  <2>. QED  BY <1>2, <2>2
<1>. HIDE DEF jobs
<1>4. /\ \A n \in Messages : n # m => route'[n] = route[n]
      /\ route'[m] = "queued"
  BY DEF Types
<1>5. Apart(jobs, origin, toAgent, toGateway', due', agentRun')
  BY <1>3 DEF Apart, InJob
<1>6. Fresh(jobs, origin, route', toAgent, toGateway', due', agentRun', consumed')
  BY <1>3, <1>4 DEF Fresh, InJob
<1>7. faults' \subseteq {"timeout"} =>
        Kept(jobs, origin, route', toAgent, toGateway', due', agentRun', consumed')
  BY <1>3, <1>4 DEF Kept, Promised, Waits
<1>. QED  BY <1>1, <1>3, <1>5, <1>6, <1>7, DrainKeeps DEF Types

LEMMA RouteKeeps ==
  ASSUME TurnInv, NEW m \in Messages, NEW steering \in BOOLEAN, routeMessage(m, steering)
  PROVE  TurnInv'
<1>1. /\ due = {} /\ route[m] = "new"
      /\ UNCHANGED <<cancelRequest, cancelRequested, stops, up, toGateway, due, agentRun, aborting,
                     consumed, faults>>
  BY DEF routeMessage, Quiet, agentVars, cancelVars
<1>2. /\ ~InJob(queue, origin, m) /\ ~InPipe(toAgent, m) /\ ~InHandle(agentRun, m)
      /\ ~InAnswer(toGateway, m) /\ ~IsDue(due, m) /\ ~Answered(toGateway, due, m)
      /\ consumed[m] = 0
  BY <1>1 DEF TurnInv, Fresh
<1>3. CASE steering /\ Steerable(active)
  <2>. DEFINE line == [kind |-> "steer_turn", run |-> active, message |-> m]
  <2>1. /\ route' = [route EXCEPT ![m] = "steering"]
        /\ toAgent' = Append(toAgent, line)
        /\ UNCHANGED <<queue, active, origin, lastRun>>
    BY <1>3 DEF routeMessage, schedulerVars
  <2>2. active # 0 /\ active \in Runs /\ up = TRUE
    <3>1. active # 0 /\ active \in 0..lastRun /\ lastRun \in Runs \cup {0}
      BY <1>3 DEF Steerable, TurnInv, Slot, Jobs
    <3>2. active \in Runs
      BY <3>1, MessagesAssumption, FS_CardinalityType DEF Runs
    <3>3. ~up => active = 0
      BY <1>1 DEF TurnInv, Slot
    <3>. QED  BY <3>1, <3>2, <3>3 DEF TurnInv, Types
  <2>3. line \in Request /\ ~RunLine(line) /\ \A n : Steers(line, n) <=> n = m
    BY <2>2 DEF Request, RunLine, Steers
  <2>4. toAgent \in Seq(Request)
    BY DEF TurnInv, Slot
  <2>. HIDE DEF line
  <2>5. /\ Slot(active, lastRun, up, toAgent', toGateway, due, agentRun)
        /\ \A n : Starting(toAgent', origin, n) <=> Starting(toAgent, origin, n)
        /\ \A n : InPipe(toAgent', n) <=> InPipe(toAgent, n) \/ n = m
    BY <2>1, <2>2, <2>3, RequestSent DEF TurnInv
  <2>6. Once(toAgent', toGateway, due)
    BY <1>2, <2>1, <2>3, <2>4, OnceSteered DEF TurnInv
  <2>7. /\ \A n \in Messages : n # m => route'[n] = route[n]
        /\ route'[m] = "steering"
    BY <2>1 DEF TurnInv, Types
  <2>8. Types'
    BY <1>1, <2>1 DEF TurnInv, Types, Routes
  <2>9. Apart(queue, origin, toAgent', toGateway, due, agentRun)
    BY <1>2, <2>5 DEF TurnInv, Apart
  <2>10. Fresh(queue, origin, route', toAgent', toGateway, due, agentRun, consumed)
    BY <1>2, <2>5, <2>7 DEF TurnInv, Fresh
  <2>11. faults \subseteq {"timeout"} =>
           Kept(queue, origin, route', toAgent', toGateway, due, agentRun, consumed)
    BY <1>2, <2>5, <2>7 DEF TurnInv, Kept, Promised, Waits
  <2>. QED  BY <1>1, <2>1, <2>5, <2>6, <2>8, <2>9, <2>10, <2>11 DEF TurnInv
<1>4. CASE ~(steering /\ Steerable(active))
  <2>1. route' = [route EXCEPT ![m] = "queued"] /\ enqueue(m)
    BY <1>4 DEF routeMessage
  <2>2. Types'
    BY <1>1, <2>1 DEF TurnInv, Types, Routes
  <2>. QED  BY <1>1, <1>2, <2>1, <2>2, EnqueueKeeps DEF TurnInv
<1>. QED  BY <1>3, <1>4

LEMMA SteerSettlesKeeps ==
  ASSUME TurnInv, NEW x \in due, steerSettles(x)
  PROVE  TurnInv'
<1>. DEFINE m == x.message
<1>1. /\ x.kind = "steer_turn" /\ due' = due \ {x}
      /\ UNCHANGED <<cancelRequest, cancelRequested, stops, up, toGateway, agentRun, aborting,
                     consumed, faults>>
  BY DEF steerSettles, agentVars, cancelVars
<1>2. x \in Answer /\ ~RunLine(x)
  BY <1>1 DEF TurnInv, Types, RunLine
<1>3. m \in Messages
  BY <1>1, <1>2 DEF Answer
<1>4. /\ Slot(active, lastRun, up, toAgent, toGateway, due', agentRun)
      /\ Apart(queue, origin, toAgent, toGateway, due', agentRun)
      /\ Once(toAgent, toGateway, due')
      /\ Fresh(queue, origin, route, toAgent, toGateway, due', agentRun, consumed)
      /\ faults \subseteq {"timeout"} =>
           Kept(queue, origin, route, toAgent, toGateway, due', agentRun, consumed)
  BY <1>1, <1>2, LessDue
<1>5. CASE route[m] = "steering" /\ Refused(x)
  <2>1. route' = [route EXCEPT ![m] = "queued"] /\ enqueue(m)
    BY <1>5 DEF steerSettles
  <2>2. Brings(x, m)
    BY <1>1, <1>5 DEF Brings, Refused
  <2>3. IsDue(due, m)
    BY <2>2 DEF IsDue
  <2>4. /\ ~InJob(queue, origin, m) /\ ~InPipe(toAgent, m) /\ ~InHandle(agentRun, m)
        /\ ~InAnswer(toGateway, m) /\ consumed[m] = 0
    BY <1>3, <2>3 DEF TurnInv, Apart, Fresh
  <2>5. ~IsDue(due', m)
    BY <1>1, <1>3, <2>2 DEF TurnInv, Once, IsDue
  <2>6. Types'
    BY <1>1, <2>1 DEF TurnInv, Types, Routes
  <2>. QED  BY <1>1, <1>3, <1>4, <2>1, <2>4, <2>5, <2>6, EnqueueKeeps DEF TurnInv
<1>6. CASE route[m] = "steering" /\ ~Refused(x)
  <2>1. /\ route' = [route EXCEPT ![m] = IF x.ok = "yes" THEN "accepted" ELSE "failed"]
        /\ UNCHANGED <<queue, active, origin, lastRun, toAgent>>
    BY <1>6 DEF steerSettles, schedulerVars
  <2>2. Types'
    BY <1>1, <2>1 DEF TurnInv, Types, Routes
  <2>3. /\ \A n \in Messages : n # m => route'[n] = route[n]
        /\ route'[m] \in {"accepted", "failed"}
        /\ route'[m] = "accepted" => x.ok = "yes"
    BY <1>3, <2>1 DEF TurnInv, Types
  <2>4. Fresh(queue, origin, route', toAgent, toGateway, due', agentRun, consumed)
    BY <1>4, <2>3 DEF Fresh
  <2>5. ASSUME faults \subseteq {"timeout"}
        PROVE  Kept(queue, origin, route', toAgent, toGateway, due', agentRun, consumed)
    <3>1. \A n \in Messages : n # m /\ Promised(route', toGateway, due', n)
            => Promised(route, toGateway, due', n)
      BY <2>3 DEF Promised
    <3>2. ASSUME Promised(route', toGateway, due', m)
          PROVE  consumed[m] = 1 \/ Waits(queue, origin, toAgent, toGateway, due', agentRun, m)
      <4>1. Accepts(x, m)
        BY <1>1, <2>3, <3>2 DEF Promised, Accepts
      <4>2. Promised(route, toGateway, due, m)
        BY <1>6, <4>1 DEF Promised, Answered
      <4>3. consumed[m] = 1 \/ Waits(queue, origin, toAgent, toGateway, due, agentRun, m)
        BY <1>3, <2>5, <4>2 DEF TurnInv, Kept
      <4>. QED  BY <1>1, <1>2, <4>3 DEF Waits, Returns
    <3>. QED  BY <1>4, <2>5, <3>1, <3>2 DEF Kept
  <2>. QED  BY <1>1, <1>4, <2>1, <2>2, <2>4, <2>5 DEF TurnInv
<1>7. CASE route[m] # "steering"
  <2>1. UNCHANGED <<queue, active, origin, lastRun, route, toAgent>>
    BY <1>7 DEF steerSettles, schedulerVars
  <2>2. Types'
    BY <1>1, <2>1 DEF TurnInv, Types
  <2>. QED  BY <1>1, <1>4, <2>1, <2>2 DEF TurnInv
<1>. QED  BY <1>5, <1>6, <1>7

LEMMA RunTurnSettlesKeeps ==
  ASSUME TurnInv, NEW x \in due, runTurnSettles(x)
  PROVE  TurnInv'
<1>. DEFINE job == [messages |-> x.steering, from |-> x.run]
<1>1. /\ x.kind = "run_turn" /\ due' = due \ {x}
      /\ UNCHANGED <<cancelRequest, cancelRequested, stops, up, toGateway, agentRun, aborting,
                     consumed, faults>>
  BY DEF runTurnSettles, agentVars, cancelVars
<1>2. /\ x \in Answer /\ RunLine(x)
  BY <1>1 DEF TurnInv, Types, RunLine
<1>3. x.run \in Runs /\ x.steering \subseteq Messages
  BY <1>1, <1>2 DEF Answer
<1>4. /\ active # 0 /\ x.run = active /\ agentRun[active].phase \in {"none", "over"}
      /\ \A y \in due' : ~RunLine(y)
      /\ \A i \in 1..Len(toAgent) : ~RunLine(toAgent[i])
      /\ \A i \in 1..Len(toGateway) : ~RunLine(toGateway[i])
  BY <1>1, <1>2 DEF TurnInv, Slot
<1>5. Complete(x.run, x.status, x.steering)
  BY <1>4 DEF runTurnSettles
<1>6. Slot(0, lastRun, up, toAgent, toGateway, due', agentRun)
  <2>1. Slot(active, lastRun, up, toAgent, toGateway, due, agentRun)
    BY DEF TurnInv
  <2>2. Live(agentRun) = {}
    BY <1>4, <2>1 DEF Slot, Live
  <2>3. 0 \in 0..lastRun
    BY MessagesAssumption, FS_CardinalityType DEF TurnInv, Jobs, Runs
  <2>. QED  BY <1>4, <2>1, <2>2, <2>3 DEF Slot
<1>7. /\ \A m : IsDue(due', m) => IsDue(due, m)
      /\ \A m : Answered(toGateway, due', m) => Answered(toGateway, due, m)
  BY <1>1 DEF IsDue, Answered
<1>8. ASSUME NEW m \in x.steering
      PROVE  /\ ~InJob(queue, origin, m) /\ ~InPipe(toAgent, m) /\ ~InHandle(agentRun, m)
             /\ ~InAnswer(toGateway, m) /\ consumed[m] = 0 /\ ~IsDue(due', m)
             /\ route[m] # "new"
  <2>1. m \in Messages /\ Brings(x, m)
    BY <1>1, <1>3 DEF Brings
  <2>2. IsDue(due, m)
    BY <2>1 DEF IsDue
  <2>3. ~IsDue(due', m)
    BY <1>1, <2>1 DEF TurnInv, Once, IsDue
  <2>. QED  BY <2>1, <2>2, <2>3 DEF TurnInv, Apart, Fresh
<1>9. /\ Jobs(queue, origin, lastRun)
      /\ Apart(queue, origin, toAgent, toGateway, due', agentRun)
      /\ Once(toAgent, toGateway, due')
      /\ Fresh(queue, origin, route, toAgent, toGateway, due', agentRun, consumed)
  BY <1>1, <1>7 DEF TurnInv, Apart, Once, Fresh
<1>10. ASSUME faults \subseteq {"timeout"}, NEW m \in Messages, Promised(route, toGateway, due', m)
       PROVE  \/ consumed[m] = 1 \/ Waits(queue, origin, toAgent, toGateway, due', agentRun, m)
              \/ m \in x.steering
  <2>1. Promised(route, toGateway, due, m)
    BY <1>7, <1>10 DEF Promised
  <2>2. consumed[m] = 1 \/ Waits(queue, origin, toAgent, toGateway, due, agentRun, m)
    BY <1>10, <2>1 DEF TurnInv, Kept
  <2>. QED  BY <1>1, <2>2 DEF Waits, Returns
<1>11. up' = up /\ (up => up')
  BY <1>1
<1>12. CASE Cancelled(x.run, x.status)
  <2>1. /\ route' = [m \in Messages |-> IF m \in x.steering THEN "dropped" ELSE route[m]]
        /\ Drain(queue, 0, toAgent, up)
    BY <1>5, <1>12 DEF Complete
  <2>2. Types'
    BY <1>1, <2>1 DEF TurnInv, Types, Routes
  <2>3. Fresh(queue, origin, route', toAgent, toGateway, due', agentRun, consumed)
    <3>1. \A m \in Messages : route'[m] = "new" => route[m] = "new"
      BY <2>1
    <3>. QED  BY <1>9, <3>1 DEF Fresh
  <2>4. faults \subseteq {"timeout"} =>
          Kept(queue, origin, route', toAgent, toGateway, due', agentRun, consumed)
    <3>1. \A m \in Messages : Promised(route', toGateway, due', m) =>
            m \notin x.steering /\ Promised(route, toGateway, due', m)
      BY <2>1 DEF Promised
    <3>. QED  BY <1>10, <3>1 DEF Kept
  <2>. QED  BY <1>1, <1>6, <1>9, <1>11, <2>1, <2>2, <2>3, <2>4, DrainKeeps
<1>13. CASE ~Cancelled(x.run, x.status)
  <2>1. route' = route /\ Drain(Requeued(x.run, x.steering), 0, toAgent, up)
    BY <1>5, <1>13 DEF Complete
  <2>2. Types'
    BY <1>1, <2>1 DEF TurnInv, Types
  <2>. DEFINE jobs == Requeued(x.run, x.steering)
  <2>3. /\ Jobs(jobs, origin, lastRun)
        /\ \A m : InQueue(jobs, m) <=> InQueue(queue, m) \/ m \in x.steering
    <3>1. CASE x.steering = {}
      <4>1. jobs = queue
        BY <3>1 DEF Requeued
      <4>. QED  BY <1>9, <3>1, <4>1
    <3>2. CASE x.steering # {}
      <4>1. job \in Job /\ job.messages = x.steering
        BY <1>3 DEF Job
      <4>2. jobs = <<job>> \o queue
        BY <3>2 DEF Requeued
      <4>. HIDE DEF job, jobs
      <4>3. /\ Jobs(<<job>> \o queue, origin, lastRun)
            /\ \A m : InQueue(<<job>> \o queue, m) <=> InQueue(queue, m) \/ m \in job.messages
        BY <1>8, <1>9, <3>2, <4>1, AddFirst
      <4>. QED  BY <4>1, <4>2, <4>3
    <3>. QED  BY <3>1, <3>2
  <2>. HIDE DEF jobs
  <2>4. Apart(jobs, origin, toAgent, toGateway, due', agentRun)
    BY <1>8, <1>9, <2>3 DEF Apart, InJob
  <2>5. Fresh(jobs, origin, route, toAgent, toGateway, due', agentRun, consumed)
    BY <1>8, <1>9, <2>3 DEF Fresh, InJob
  <2>6. faults \subseteq {"timeout"} =>
          Kept(jobs, origin, route, toAgent, toGateway, due', agentRun, consumed)
    BY <1>10, <2>3 DEF Kept, Waits
  <2>7. Drain(jobs, 0, toAgent, up)
    BY <2>1 DEF jobs
  <2>. QED  BY <1>1, <1>6, <1>9, <1>11, <2>1, <2>2, <2>3, <2>4, <2>5, <2>6, <2>7, DrainKeeps
<1>. QED  BY <1>12, <1>13

LEMMA RecoverKeeps ==
  ASSUME TurnInv, recover
  PROVE  TurnInv'
<1>1. /\ due = {} /\ up = FALSE /\ up' = TRUE
      /\ Drain(queue, active, toAgent, TRUE)
      /\ UNCHANGED <<cancelRequest, cancelRequested, route, stops, toGateway, due, agentRun, aborting,
                     consumed, faults>>
  BY DEF recover, Quiet, agentVars, cancelVars, TurnInv, Types
<1>2. Types'
  BY <1>1 DEF TurnInv, Types
<1>3. Slot(active, lastRun, up', toAgent, toGateway', due', agentRun')
  BY <1>1 DEF TurnInv, Slot
<1>. QED  BY <1>1, <1>2, <1>3, DrainKeeps DEF TurnInv

LEMMA CrashKeeps ==
  ASSUME TurnInv, crash
  PROVE  TurnInv'
<1>. DEFINE ended == {[kind |-> "run_turn", run |-> r, status |-> "error", steering |-> {}] :
                         r \in {active} \ {0}}
            cancels == {CancelAnswer(c, "error") : c \in cancelRequest}
            steers == {[kind |-> "steer_turn", message |-> m, ok |-> "error"] :
                         m \in {n \in Messages : route[n] = "steering"}}
<1>1. /\ due = {} /\ up' = FALSE /\ "crash" \in Faults
      /\ faults' = faults \cup {"crash"}
      /\ toAgent' = <<>> /\ toGateway' = <<>> /\ aborting' = {}
      /\ agentRun' = [r \in Runs |-> IF r \in activeRuns THEN [Absent EXCEPT !.phase = "over"]
                                                         ELSE agentRun[r]]
      /\ due' = ended \cup cancels \cup steers
      /\ UNCHANGED <<queue, active, origin, lastRun, cancelRequest, cancelRequested, route, stops, consumed>>
  BY DEF crash, Quiet, gatewayVars, schedulerVars, cancelVars
<1>2. \A x \in ended : /\ x = [kind |-> "run_turn", run |-> active, status |-> "error", steering |-> {}]
                       /\ active # 0
  OBVIOUS
<1>3. active # 0 => \E x \in ended : x.kind = "run_turn"
  <2>1. active # 0 =>
          [kind |-> "run_turn", run |-> active, status |-> "error", steering |-> {}] \in ended
    OBVIOUS
  <2>. HIDE DEF ended
  <2>. QED  BY <2>1
<1>4. \A x \in cancels : x \in Answer /\ x.kind = "cancel_turn"
  BY DEF CancelAnswer, Cancel, Answer, TurnInv, Types
<1>5. \A x \in steers : x \in Answer /\ x.kind = "steer_turn" /\ x.ok = "error"
  BY DEF Answer
<1>6. active # 0 => active \in Runs
  BY MessagesAssumption, FS_CardinalityType DEF TurnInv, Slot, Jobs, Runs
<1>7. \A x \in ended : /\ x \in Answer /\ x.kind = "run_turn" /\ x.run = active
                       /\ x.steering = {} /\ active # 0
  BY <1>2, <1>6 DEF Answer, Status
<1>8. \A x, y \in ended : x = y
  BY <1>2
<1>. HIDE DEF ended, cancels, steers
<1>9. /\ due' \subseteq Answer
      /\ \A x \in due' : RunLine(x) => x \in ended
      /\ \A x \in due' : \A m : ~Brings(x, m)
      /\ \A x \in due' : \A m : ~Accepts(x, m)
  BY <1>1, <1>4, <1>5, <1>7 DEF RunLine, Brings, Accepts
<1>10. /\ agentRun \in [Runs -> Handle] /\ activeRuns = Live(agentRun)
  BY DEF TurnInv, Types, activeRuns, Live
<1>11. \A r \in Runs :
         /\ agentRun'[r] \in Handle /\ agentRun'[r].steering = {}
         /\ agentRun'[r].phase \in {"none", "over"}
         /\ agentRun[r].phase = "none" => agentRun'[r].phase = "none"
         /\ agentRun'[r].status = "thrown" => agentRun[r].status = "thrown"
  <2>. SUFFICES ASSUME NEW r \in Runs
                PROVE  /\ agentRun'[r] \in Handle /\ agentRun'[r].steering = {}
                       /\ agentRun'[r].phase \in {"none", "over"}
                       /\ agentRun[r].phase = "none" => agentRun'[r].phase = "none"
                       /\ agentRun'[r].status = "thrown" => agentRun[r].status = "thrown"
    OBVIOUS
  <2>1. CASE r \in activeRuns
    <3>1. agentRun'[r] = [Absent EXCEPT !.phase = "over"] /\ agentRun[r].phase # "none"
      BY <1>1, <2>1 DEF activeRuns
    <3>. QED  BY <3>1 DEF Absent, Handle, Status
  <2>2. CASE r \notin activeRuns
    <3>1. agentRun'[r] = agentRun[r] /\ agentRun[r] \in Handle
      BY <1>1, <1>10, <2>2
    <3>2. agentRun[r].steering = {}
      BY <1>10, <2>2 DEF TurnInv, Slot
    <3>. QED  BY <2>2, <3>1, <3>2 DEF Handle, activeRuns
  <2>. QED  BY <2>1, <2>2
<1>12. Types'
  <2>1. agentRun' \in [Runs -> Handle]
    BY <1>1, <1>11
  <2>2. due' \subseteq Answer /\ toGateway' \in Seq(Answer)
    <3>1. <<>> \in Seq(Answer)
      BY EmptySeq
    <3>. QED  BY <1>1, <1>9, <3>1
  <2>. QED  BY <1>1, <1>11, <2>1, <2>2 DEF TurnInv, Types
<1>13. Live(agentRun') = {}
  BY <1>11 DEF Live
<1>14. Slot(active', lastRun', up', toAgent', toGateway', due', agentRun')
  <2>1. /\ toAgent' = <<>> /\ Len(toAgent') = 0 /\ toAgent' \in Seq(Request)
        /\ toGateway' = <<>> /\ Len(toGateway') = 0
    BY <1>1
  <2>2. \A x \in due' : RunLine(x) =>
          /\ active # 0 /\ x.run = active /\ agentRun'[active].phase \in {"none", "over"}
          /\ \A y \in due' : RunLine(y) => y = x
    BY <1>6, <1>7, <1>8, <1>9, <1>11
  <2>3. active # 0 => \E x \in due' : RunLine(x)
    BY <1>1, <1>3 DEF RunLine
  <2>4. \A r \in Runs : lastRun < r => agentRun'[r].phase = "none"
    BY <1>11 DEF TurnInv, Slot
  <2>5. active \in 0..lastRun
    BY DEF TurnInv, Slot
  <2>. QED  BY <1>1, <1>11, <1>13, <2>1, <2>2, <2>3, <2>4, <2>5 DEF Slot
<1>15. \A m : /\ ~InPipe(toAgent', m) /\ ~InHandle(agentRun', m) /\ ~InAnswer(toGateway', m)
              /\ ~IsDue(due', m) /\ ~Starting(toAgent', origin', m)
              /\ ~Answered(toGateway', due', m)
  BY <1>1, <1>9, <1>11 DEF InPipe, InHandle, InAnswer, IsDue, Starting, Answered
<1>16. Apart(queue', origin', toAgent', toGateway', due', agentRun')
  BY <1>15 DEF Apart
<1>17. Once(toAgent', toGateway', due')
  BY <1>1, <1>9 DEF Once
<1>18. Fresh(queue', origin', route', toAgent', toGateway', due', agentRun', consumed')
  BY <1>1, <1>15 DEF TurnInv, Fresh
<1>19. ~(faults' \subseteq {"timeout"})
  BY <1>1
<1>. QED  BY <1>1, <1>12, <1>14, <1>16, <1>17, <1>18, <1>19 DEF TurnInv

(***************************************************************************)
(* Every step of agent-cli keeps it.                                       *)
(***************************************************************************)
LEMMA SameSteering ==
  ASSUME TurnInv, NEW handles,
         \A r \in Runs :
           /\ handles[r].steering = agentRun[r].steering
           /\ \/ handles[r].phase = agentRun[r].phase
              \/ {handles[r].phase, agentRun[r].phase} \subseteq {"engine", "publishing"}
  PROVE  /\ Slot(active, lastRun, up, toAgent, toGateway, due, handles)
         /\ Apart(queue, origin, toAgent, toGateway, due, handles)
         /\ Fresh(queue, origin, route, toAgent, toGateway, due, handles, consumed)
         /\ faults \subseteq {"timeout"} =>
              Kept(queue, origin, route, toAgent, toGateway, due, handles, consumed)
<1>1. Live(handles) = Live(agentRun)
  BY DEF Live
<1>2. \A m : InHandle(handles, m) <=> InHandle(agentRun, m)
  BY DEF InHandle
<1>3. Slot(active, lastRun, up, toAgent, toGateway, due, handles)
  <2>1. Slot(active, lastRun, up, toAgent, toGateway, due, agentRun)
    BY DEF TurnInv
  <2>2. \A r \in Runs : agentRun[r].phase \in {"none", "over"} => handles[r].phase = agentRun[r].phase
    OBVIOUS
  <2>3. active # 0 => active \in Runs
    BY MessagesAssumption, FS_CardinalityType DEF TurnInv, Slot, Jobs, Runs
  <2>. QED  BY <1>1, <2>1, <2>2, <2>3 DEF Slot
<1>4. Apart(queue, origin, toAgent, toGateway, due, handles)
  BY <1>2 DEF TurnInv, Apart
<1>5. Fresh(queue, origin, route, toAgent, toGateway, due, handles, consumed)
  BY <1>2 DEF TurnInv, Fresh
<1>6. faults \subseteq {"timeout"} =>
        Kept(queue, origin, route, toAgent, toGateway, due, handles, consumed)
  BY <1>2 DEF TurnInv, Kept, Waits
<1>. QED  BY <1>3, <1>4, <1>5, <1>6

LEMMA TurnEndsKeeps ==
  ASSUME TurnInv, NEW r \in Runs,
         (\E status \in Status : turnEnds(r, status)) \/ turnThrows(r)
  PROVE  TurnInv'
<1>1. PICK status \in Status \cup {"thrown"} :
        /\ InEngine(r)
        /\ agentRun' = [agentRun EXCEPT ![r].phase = "publishing", ![r].status = status]
        /\ status = "thrown" => "throw" \in faults'
        /\ faults' = faults \/ (faults' = faults \cup {"throw"} /\ "throw" \in Faults)
        /\ UNCHANGED <<queue, active, origin, lastRun, cancelRequest, cancelRequested, route, stops,
                       up, toAgent, toGateway, due, aborting, consumed>>
  <2>1. CASE turnThrows(r)
    BY <2>1 DEF turnThrows, gatewayVars, schedulerVars, cancelVars
  <2>2. CASE \E status \in Status : turnEnds(r, status)
    <3>1. PICK st \in Status : turnEnds(r, st)
      BY <2>2
    <3>2. st # "thrown"
      BY DEF Status
    <3>3. /\ InEngine(r)
          /\ agentRun' = [agentRun EXCEPT ![r].phase = "publishing", ![r].status = st]
          /\ faults' = faults
          /\ UNCHANGED <<queue, active, origin, lastRun, cancelRequest, cancelRequested, route, stops,
                         up, toAgent, toGateway, due, aborting, consumed>>
      BY <3>1 DEF turnEnds, gatewayVars, schedulerVars, cancelVars
    <3>4. st \in Status \cup {"thrown"}
      OBVIOUS
    <3>. QED  BY <3>2, <3>3, <3>4
  <2>. QED  BY <2>1, <2>2
<1>2. agentRun \in [Runs -> Handle] /\ agentRun[r].phase = "engine"
  BY <1>1 DEF TurnInv, Types, InEngine
<1>3. \A s \in Runs :
        /\ agentRun'[s].steering = agentRun[s].steering
        /\ \/ agentRun'[s].phase = agentRun[s].phase
           \/ {agentRun'[s].phase, agentRun[s].phase} \subseteq {"engine", "publishing"}
        /\ agentRun'[s] \in Handle
        /\ agentRun'[s].phase = "publishing" => agentRun'[s].status # "none"
        /\ agentRun'[s].status = "thrown" => "throw" \in faults'
  <2>. SUFFICES ASSUME NEW s \in Runs
                PROVE  /\ agentRun'[s].steering = agentRun[s].steering
                       /\ \/ agentRun'[s].phase = agentRun[s].phase
                          \/ {agentRun'[s].phase, agentRun[s].phase} \subseteq {"engine", "publishing"}
                       /\ agentRun'[s] \in Handle
                       /\ agentRun'[s].phase = "publishing" => agentRun'[s].status # "none"
                       /\ agentRun'[s].status = "thrown" => "throw" \in faults'
    OBVIOUS
  <2>1. CASE s # r
    BY <1>1, <1>2, <2>1 DEF TurnInv, Types
  <2>2. CASE s = r
    <3>1. agentRun'[r] = [agentRun[r] EXCEPT !.phase = "publishing", !.status = status]
      BY <1>1, <1>2
    <3>2. agentRun[r] \in Handle
      BY <1>2
    <3>. QED  BY <1>1, <1>2, <2>2, <3>1, <3>2 DEF Handle, Status
  <2>. QED  BY <2>1, <2>2
<1>4. agentRun' \in [Runs -> Handle]
  BY <1>1, <1>2, <1>3
<1>5. Types'
  BY <1>1, <1>3, <1>4 DEF TurnInv, Types
<1>6. /\ Slot(active, lastRun, up, toAgent, toGateway, due, agentRun')
      /\ Apart(queue, origin, toAgent, toGateway, due, agentRun')
      /\ Fresh(queue, origin, route, toAgent, toGateway, due, agentRun', consumed)
      /\ faults \subseteq {"timeout"} =>
           Kept(queue, origin, route, toAgent, toGateway, due, agentRun', consumed)
  BY <1>3, SameSteering
<1>7. faults' \subseteq {"timeout"} => faults \subseteq {"timeout"}
  BY <1>1
<1>. QED  BY <1>1, <1>5, <1>6, <1>7 DEF TurnInv

LEMMA AbortKeeps ==
  ASSUME TurnInv, NEW c \in aborting, abortEnds(c)
  PROVE  TurnInv'
<1>. DEFINE line == CancelAnswer(c, "yes")
<1>1. /\ aborting' = aborting \ {c}
      /\ toGateway' = Append(toGateway, line)
      /\ UNCHANGED <<queue, active, origin, lastRun, cancelRequest, cancelRequested, route, stops,
                     up, toAgent, due, agentRun, consumed, faults>>
  BY DEF abortEnds, gatewayVars, schedulerVars, cancelVars
<1>2. c \in Cancel /\ up = TRUE
  BY DEF TurnInv, Types
<1>3. /\ line \in Answer /\ ~RunLine(line)
      /\ \A m : ~Brings(line, m) /\ ~Accepts(line, m)
  BY <1>2 DEF CancelAnswer, Cancel, Answer, RunLine, Brings, Accepts
<1>. HIDE DEF line
<1>4. toGateway \in Seq(Answer)
  BY DEF TurnInv, Types
<1>5. /\ toGateway' \in Seq(Answer)
      /\ Slot(active, lastRun, up, toAgent, toGateway', due, agentRun)
      /\ \A m : InAnswer(toGateway', m) <=> InAnswer(toGateway, m)
      /\ \A m : (\E i \in 1..Len(toGateway') : Returns(toGateway'[i], m))
                 <=> (\E i \in 1..Len(toGateway) : Returns(toGateway[i], m))
      /\ \A m : Answered(toGateway', due, m) <=> Answered(toGateway, due, m)
  <2>1. Slot(active, lastRun, up, toAgent, toGateway, due, agentRun)
    BY DEF TurnInv
  <2>. QED  BY <1>1, <1>2, <1>3, <1>4, <2>1, AnswerSent, ZenonT(60)
<1>6. Once(toAgent, toGateway', due)
  BY <1>1, <1>3, <1>4, OnceMore DEF TurnInv
<1>7. Types'
  BY <1>1, <1>5 DEF TurnInv, Types
<1>8. Apart(queue, origin, toAgent, toGateway', due, agentRun)
  BY <1>5 DEF TurnInv, Apart
<1>9. Fresh(queue, origin, route, toAgent, toGateway', due, agentRun, consumed)
  BY <1>5 DEF TurnInv, Fresh
<1>10. faults \subseteq {"timeout"} =>
         Kept(queue, origin, route, toAgent, toGateway', due, agentRun, consumed)
  BY <1>5 DEF TurnInv, Kept, Promised, Waits
<1>. QED  BY <1>1, <1>5, <1>6, <1>7, <1>8, <1>9, <1>10 DEF TurnInv

LEMMA TakeSteeringKeeps ==
  ASSUME TurnInv, NEW r \in Runs, takeSteering(r)
  PROVE  TurnInv'
<1>1. /\ agentRun[r].phase = "engine"
      /\ consumed' = [m \in Messages |-> IF m \in agentRun[r].steering THEN consumed[m] + 1 ELSE consumed[m]]
      /\ agentRun' = [agentRun EXCEPT ![r].steering = {}]
      /\ UNCHANGED <<queue, active, origin, lastRun, cancelRequest, cancelRequested, route, stops,
                     up, toAgent, toGateway, due, aborting, faults>>
  BY DEF takeSteering, InEngine, Consume, LeftAfterDrain, gatewayVars, schedulerVars, cancelVars
<1>2. agentRun \in [Runs -> Handle]
  BY DEF TurnInv, Types
<1>3. \A s \in Runs :
        /\ agentRun'[s] \in Handle
        /\ agentRun'[s].phase = agentRun[s].phase /\ agentRun'[s].status = agentRun[s].status
        /\ s # r => agentRun'[s] = agentRun[s]
  <2>1. agentRun'[r] = [agentRun[r] EXCEPT !.steering = {}] /\ agentRun[r] \in Handle
    BY <1>1, <1>2
  <2>2. /\ agentRun'[r] \in Handle
        /\ agentRun'[r].phase = agentRun[r].phase /\ agentRun'[r].status = agentRun[r].status
    BY <2>1 DEF Handle
  <2>. QED  BY <1>1, <1>2, <2>2
<1>4. agentRun'[r].steering = {}
  BY <1>1, <1>2 DEF Handle
<1>5. \A s \in Runs : agentRun'[s].steering = {}
  <2>1. r \in Live(agentRun)
    BY <1>1 DEF Live
  <2>2. \A s \in Runs : s # r => agentRun[s].steering = {}
    BY <2>1 DEF TurnInv, Slot
  <2>. QED  BY <1>3, <1>4, <2>2
<1>6. Live(agentRun') = Live(agentRun)
  BY <1>3 DEF Live
<1>7. \A m : ~InHandle(agentRun', m)
  BY <1>5 DEF InHandle
<1>8. \A m \in Messages : m \in agentRun[r].steering => InHandle(agentRun, m)
  BY DEF InHandle
<1>9. \A m \in Messages : InHandle(agentRun, m) => m \in agentRun[r].steering
  <2>1. r \in Live(agentRun)
    BY <1>1 DEF Live
  <2>2. \A s \in Runs : s # r => agentRun[s].steering = {}
    BY <2>1 DEF TurnInv, Slot
  <2>. QED  BY <2>2 DEF InHandle
<1>10. \A m \in Messages : /\ InHandle(agentRun, m) => consumed[m] = 0 /\ consumed'[m] = 1
                           /\ ~InHandle(agentRun, m) => consumed'[m] = consumed[m]
  BY <1>1, <1>8, <1>9 DEF TurnInv, Fresh
<1>11. Types'
  <2>1. consumed' \in [Messages -> {0, 1}]
    <3>1. \A m \in Messages : consumed'[m] \in {0, 1}
      BY <1>10 DEF TurnInv, Types
    <3>. QED  BY <1>1, <3>1
  <2>2. agentRun' \in [Runs -> Handle]
    BY <1>1, <1>2, <1>3
  <2>. QED  BY <1>1, <1>3, <2>1, <2>2 DEF TurnInv, Types
<1>12. Slot(active, lastRun, up, toAgent, toGateway, due, agentRun')
  <2>1. Slot(active, lastRun, up, toAgent, toGateway, due, agentRun)
    BY DEF TurnInv
  <2>2. active # 0 => active \in Runs
    BY MessagesAssumption, FS_CardinalityType DEF TurnInv, Slot, Jobs, Runs
  <2>. QED  BY <1>3, <1>5, <1>6, <2>1, <2>2 DEF Slot
<1>13. Apart(queue, origin, toAgent, toGateway, due, agentRun')
  BY <1>7 DEF TurnInv, Apart
<1>14. \A m \in Messages : Starting(toAgent, origin, m) => InJob(queue, origin, m)
  <2>1. \A i \in 1..Len(toAgent) : RunLine(toAgent[i]) => toAgent[i].run \in Runs
    BY ElementOfSeq DEF TurnInv, Slot, Request, RunLine
  <2>. QED  BY <2>1 DEF Starting, InJob, InRun
<1>15. Fresh(queue, origin, route, toAgent, toGateway, due, agentRun', consumed')
  <2>1. \A m \in Messages :
          /\ \/ InQueue(queue, m) \/ Starting(toAgent, origin, m) \/ InPipe(toAgent, m)
             \/ InAnswer(toGateway, m) \/ IsDue(due, m) \/ route[m] = "new"
             => ~InHandle(agentRun, m)
    BY <1>14 DEF TurnInv, Fresh, Apart, InJob
  <2>. QED  BY <1>7, <1>10, <2>1 DEF TurnInv, Fresh
<1>16. faults \subseteq {"timeout"} =>
         Kept(queue, origin, route, toAgent, toGateway, due, agentRun', consumed')
  <2>1. ASSUME faults \subseteq {"timeout"}, NEW m \in Messages, Promised(route, toGateway, due, m)
        PROVE  consumed'[m] = 1 \/ Waits(queue, origin, toAgent, toGateway, due, agentRun', m)
    <3>1. consumed[m] = 1 \/ Waits(queue, origin, toAgent, toGateway, due, agentRun, m)
      BY <2>1 DEF TurnInv, Kept
    <3>2. CASE InHandle(agentRun, m)
      BY <1>10, <3>2
    <3>3. CASE ~InHandle(agentRun, m)
      BY <1>10, <3>1, <3>3 DEF Waits
    <3>. QED  BY <3>2, <3>3
  <2>. QED  BY <2>1 DEF Kept
<1>. QED  BY <1>1, <1>11, <1>12, <1>13, <1>15, <1>16 DEF TurnInv

LEMMA AnswerRunKeeps ==
  ASSUME TurnInv, NEW r \in Runs, answerRunTurn(r)
  PROVE  TurnInv'
<1>. DEFINE line == [kind |-> "run_turn", run |-> r, status |-> Outcome(r),
                     steering |-> remainingSteering(r)]
<1>1. /\ agentRun[r].phase = "publishing"
      /\ toGateway' = Append(toGateway, line)
      /\ agentRun' = [agentRun EXCEPT ![r] = [Absent EXCEPT !.phase = "over"]]
      /\ UNCHANGED <<queue, active, origin, lastRun, cancelRequest, cancelRequested, route, stops,
                     up, toAgent, due, aborting, consumed, faults>>
  BY DEF answerRunTurn, Left, gatewayVars, schedulerVars, cancelVars
<1>2. agentRun \in [Runs -> Handle] /\ agentRun[r] \in Handle
  BY DEF TurnInv, Types
<1>3. r \in Live(agentRun)
  BY <1>1 DEF Live
<1>4. /\ r = active /\ active # 0 /\ up = TRUE
      /\ \A i \in 1..Len(toAgent) : ~RunLine(toAgent[i])
      /\ \A i \in 1..Len(toGateway) : ~RunLine(toGateway[i])
      /\ \A x \in due : ~RunLine(x)
      /\ \A s \in Runs : s # r => agentRun[s].steering = {}
  <2>1. Slot(active, lastRun, up, toAgent, toGateway, due, agentRun)
    BY DEF TurnInv
  <2>2. r = active /\ up = TRUE
    BY <1>3, <2>1 DEF Slot, TurnInv, Types
  <2>3. active # 0
    BY <2>2, MessagesAssumption, FS_CardinalityType DEF Runs
  <2>. QED  BY <1>1, <1>3, <2>1, <2>2, <2>3 DEF Slot
<1>5. /\ line \in Answer /\ RunLine(line) /\ line.run = r
      /\ line.steering \subseteq agentRun[r].steering
      /\ "throw" \notin faults => line.steering = agentRun[r].steering
      /\ \A m : Brings(line, m) => m \in agentRun[r].steering
      /\ \A m : ~Accepts(line, m)
  <2>1. Outcome(r) \in Status
    BY <1>1, <1>2 DEF Outcome, Status, Handle, TurnInv, Types
  <2>2. /\ remainingSteering(r) \subseteq agentRun[r].steering
        /\ "throw" \notin faults => remainingSteering(r) = agentRun[r].steering
    BY DEF remainingSteering, TurnInv, Types
  <2>3. agentRun[r].steering \subseteq Messages
    BY <1>2 DEF Handle
  <2>. HIDE DEF Outcome, remainingSteering
  <2>4. line \in Answer
    BY <2>1, <2>2, <2>3 DEF Answer
  <2>. QED  BY <2>2, <2>4 DEF RunLine, Brings, Accepts
<1>6. toGateway \in Seq(Answer)
  BY DEF TurnInv, Types
<1>. HIDE DEF line
<1>7. /\ toGateway' \in Seq(Answer)
      /\ \A i \in 1..Len(toGateway') :
           (i \in 1..Len(toGateway) /\ toGateway'[i] = toGateway[i])
           \/ (i = Len(toGateway) + 1 /\ toGateway'[i] = line)
      /\ \A i \in 1..Len(toGateway) : i \in 1..Len(toGateway') /\ toGateway'[i] = toGateway[i]
      /\ \E i \in 1..Len(toGateway') : toGateway'[i] = line
  BY <1>1, <1>5, <1>6, AddLine
<1>8. /\ agentRun'[r] \in Handle /\ agentRun'[r].phase = "over" /\ agentRun'[r].status = "none"
      /\ agentRun'[r].steering = {}
      /\ \A s \in Runs : s # r => agentRun'[s] = agentRun[s]
  BY <1>1, <1>2 DEF Absent, Handle, Status
<1>9. \A s \in Runs : agentRun'[s].steering = {}
  BY <1>4, <1>8
<1>10. /\ \A m : ~InHandle(agentRun', m)
       /\ \A m : m \in agentRun[r].steering => InHandle(agentRun, m)
       /\ \A m : InHandle(agentRun, m) => m \in agentRun[r].steering
  BY <1>4, <1>9 DEF InHandle
<1>11. Types'
  <2>1. agentRun' \in [Runs -> Handle]
    BY <1>1, <1>2, <1>8
  <2>. QED  BY <1>1, <1>7, <1>8, <2>1 DEF TurnInv, Types
<1>12. Slot(active, lastRun, up, toAgent, toGateway', due, agentRun')
  <2>1. Slot(active, lastRun, up, toAgent, toGateway, due, agentRun)
    BY DEF TurnInv
  <2>2. Live(agentRun') = {}
    BY <1>4, <1>8, <2>1 DEF Slot, Live
  <2>3. \A i \in 1..Len(toGateway') : RunLine(toGateway'[i]) =>
          /\ active # 0 /\ toGateway'[i].run = active /\ agentRun'[active].phase = "over"
          /\ \A j \in 1..Len(toGateway') : RunLine(toGateway'[j]) => j = i
    BY <1>4, <1>5, <1>7, <1>8
  <2>4. \A s \in Runs : lastRun < s => agentRun'[s].phase = "none"
    <3>1. ~(lastRun < r)
      BY <1>1, <2>1 DEF Slot
    <3>. QED  BY <1>8, <2>1, <3>1 DEF Slot
  <2>. QED  BY <1>4, <1>9, <2>1, <2>2, <2>3, <2>4 DEF Slot
<1>13. \A m : InAnswer(toGateway', m) => InAnswer(toGateway, m) \/ InHandle(agentRun, m)
  BY <1>5, <1>7, <1>10 DEF InAnswer
<1>14. \A m : Answered(toGateway', due, m) => Answered(toGateway, due, m)
  BY <1>5, <1>7 DEF Answered
<1>15. Apart(queue, origin, toAgent, toGateway', due, agentRun')
  BY <1>10, <1>13 DEF TurnInv, Apart
<1>16. Once(toAgent, toGateway', due)
  <2>1. \A m \in Messages : Brings(line, m) => ~InAnswer(toGateway, m)
    BY <1>5, <1>10 DEF TurnInv, Apart
  <2>. QED  BY <1>1, <1>5, <1>6, <2>1, OnceMore DEF TurnInv
<1>17. Fresh(queue, origin, route, toAgent, toGateway', due, agentRun', consumed)
  BY <1>10, <1>13, <1>14 DEF TurnInv, Fresh
<1>18. faults \subseteq {"timeout"} =>
         Kept(queue, origin, route, toAgent, toGateway', due, agentRun', consumed)
  <2>. SUFFICES ASSUME faults \subseteq {"timeout"}, NEW m \in Messages,
                       Promised(route, toGateway', due, m)
                PROVE  consumed[m] = 1 \/ Waits(queue, origin, toAgent, toGateway', due, agentRun', m)
    BY DEF Kept
  <2>1. consumed[m] = 1 \/ Waits(queue, origin, toAgent, toGateway, due, agentRun, m)
    BY <1>14 DEF TurnInv, Kept, Promised
  <2>2. "throw" \notin faults
    OBVIOUS
  <2>3. InHandle(agentRun, m) => \E i \in 1..Len(toGateway') : Returns(toGateway'[i], m)
    BY <1>5, <1>7, <1>10, <2>2 DEF Returns
  <2>4. (\E i \in 1..Len(toGateway) : Returns(toGateway[i], m))
          => \E i \in 1..Len(toGateway') : Returns(toGateway'[i], m)
    BY <1>7
  <2>. QED  BY <2>1, <2>3, <2>4 DEF Waits
<1>. QED  BY <1>1, <1>11, <1>12, <1>15, <1>16, <1>17, <1>18 DEF TurnInv

(* The first line of a pipe is taken off. *)
LEMMA LineRead ==
  ASSUME NEW S, NEW pipe \in Seq(S), pipe # <<>>
  PROVE  /\ Tail(pipe) \in Seq(S) /\ Head(pipe) \in S
         /\ \A i \in 1..Len(Tail(pipe)) :
              /\ i + 1 \in 1..Len(pipe) /\ i + 1 # 1 /\ Tail(pipe)[i] = pipe[i + 1]
              /\ \A j \in 1..Len(Tail(pipe)) : j + 1 = i + 1 => j = i
         /\ \A i \in 1..Len(pipe) : i # 1 =>
              i - 1 \in 1..Len(Tail(pipe)) /\ Tail(pipe)[i - 1] = pipe[i]
         /\ 1 \in 1..Len(pipe) /\ pipe[1] = Head(pipe)
<1>. DEFINE q == Tail(pipe)
<1>1. /\ q \in Seq(S) /\ Head(pipe) \in S /\ Len(q) = Len(pipe) - 1 /\ Len(pipe) \in Nat \ {0}
      /\ \A i \in 1..Len(q) : q[i] = pipe[i + 1]
      /\ Head(pipe) = pipe[1]
  BY HeadTailProperties, EmptySeq
<1>. HIDE DEF q
<1>2. \A i \in 1..Len(q) :
        /\ i + 1 \in 1..Len(pipe) /\ i + 1 # 1
        /\ \A j \in 1..Len(q) : j + 1 = i + 1 => j = i
  BY <1>1
<1>3. \A i \in 1..Len(pipe) : i # 1 => i - 1 \in 1..Len(q) /\ (i - 1) + 1 = i
  BY <1>1
<1>. QED  BY <1>1, <1>2, <1>3 DEF q

(* What the other lines keep when the first one is taken off. *)
LEMMA LessToRead ==
  ASSUME TurnInv, toAgent # <<>>
  PROVE  /\ up = TRUE /\ Head(toAgent) \in Request
         /\ Slot(active, lastRun, up, Tail(toAgent), toGateway, due, agentRun)
         /\ Once(Tail(toAgent), toGateway, due)
         /\ \A m : InPipe(Tail(toAgent), m) => InPipe(toAgent, m)
         /\ \A m : InPipe(toAgent, m) => InPipe(Tail(toAgent), m) \/ Steers(Head(toAgent), m)
         /\ \A m : Steers(Head(toAgent), m) => InPipe(toAgent, m)
         /\ \A m \in Messages : Steers(Head(toAgent), m) => ~InPipe(Tail(toAgent), m)
         /\ \A m : Starting(Tail(toAgent), origin, m) => Starting(toAgent, origin, m)
         /\ ~RunLine(Head(toAgent)) =>
              \A m : Starting(toAgent, origin, m) => Starting(Tail(toAgent), origin, m)
         /\ RunLine(Head(toAgent)) =>
              /\ \A i \in 1..Len(Tail(toAgent)) : ~RunLine(Tail(toAgent)[i])
              /\ active # 0 /\ Head(toAgent).run = active /\ agentRun[active].phase = "none"
<1>. DEFINE line == Head(toAgent)
            q == Tail(toAgent)
<1>1. Slot(active, lastRun, up, toAgent, toGateway, due, agentRun)
  BY DEF TurnInv
<1>2. toAgent \in Seq(Request)
  BY <1>1 DEF Slot
<1>3. /\ q \in Seq(Request) /\ line \in Request
      /\ \A i \in 1..Len(q) :
           /\ i + 1 \in 1..Len(toAgent) /\ i + 1 # 1 /\ q[i] = toAgent[i + 1]
           /\ \A j \in 1..Len(q) : j + 1 = i + 1 => j = i
      /\ \A i \in 1..Len(toAgent) : i # 1 => i - 1 \in 1..Len(q) /\ q[i - 1] = toAgent[i]
      /\ 1 \in 1..Len(toAgent) /\ toAgent[1] = line
  BY <1>2, LineRead
<1>. HIDE DEF line, q
<1>4. up = TRUE
  BY <1>1 DEF Slot, TurnInv, Types
<1>5. Slot(active, lastRun, up, q, toGateway, due, agentRun)
  <2>1. \A i \in 1..Len(q) : RunLine(q[i]) =>
          /\ active # 0 /\ q[i].run = active /\ agentRun[active].phase = "none"
          /\ \A j \in 1..Len(q) : RunLine(q[j]) => j = i
    BY <1>1, <1>3 DEF Slot
  <2>2. \A x \in due : RunLine(x) => \A i \in 1..Len(q) : ~RunLine(q[i])
    BY <1>1, <1>3 DEF Slot
  <2>. QED  BY <1>1, <1>3, <1>4, <2>1, <2>2 DEF Slot
<1>6. Once(q, toGateway, due)
  BY <1>3 DEF TurnInv, Once
<1>7. /\ \A m : InPipe(q, m) => InPipe(toAgent, m)
      /\ \A m : InPipe(toAgent, m) => InPipe(q, m) \/ Steers(line, m)
      /\ \A m : Steers(line, m) => InPipe(toAgent, m)
  BY <1>3 DEF InPipe
<1>8. \A m \in Messages : Steers(line, m) => ~InPipe(q, m)
  BY <1>3 DEF InPipe, TurnInv, Once
<1>9. /\ \A m : Starting(q, origin, m) => Starting(toAgent, origin, m)
      /\ ~RunLine(line) => \A m : Starting(toAgent, origin, m) => Starting(q, origin, m)
  <2>1. ASSUME NEW m, Starting(q, origin, m) PROVE Starting(toAgent, origin, m)
    BY <1>3, <2>1 DEF Starting
  <2>2. ASSUME NEW m, Starting(toAgent, origin, m), ~RunLine(line) PROVE Starting(q, origin, m)
    <3>1. PICK i \in 1..Len(toAgent) : RunLine(toAgent[i]) /\ m \in origin[toAgent[i].run].messages
      BY <2>2 DEF Starting
    <3>2. i # 1
      BY <1>3, <2>2, <3>1
    <3>3. i - 1 \in 1..Len(q) /\ q[i - 1] = toAgent[i]
      BY <1>3, <3>2
    <3>. QED  BY <3>1, <3>3 DEF Starting
  <2>. QED  BY <2>1, <2>2
<1>10. RunLine(line) =>
         /\ \A i \in 1..Len(q) : ~RunLine(q[i])
         /\ active # 0 /\ line.run = active /\ agentRun[active].phase = "none"
  BY <1>1, <1>3 DEF Slot
<1>. QED  BY <1>3, <1>4, <1>5, <1>6, <1>7, <1>8, <1>9, <1>10 DEF line, q

LEMMA AcceptRunKeeps ==
  ASSUME TurnInv, accept, acceptRunTurn(Head(toAgent))
  PROVE  TurnInv'
<1>. DEFINE line == Head(toAgent)
            r == line.run
<1>1. /\ toAgent # <<>> /\ toAgent' = Tail(toAgent)
      /\ line.kind = "run_turn"
      /\ agentRun' = [agentRun EXCEPT ![r] = [Absent EXCEPT !.phase = "engine"]]
      /\ consumed' = [m \in Messages |-> IF m \in origin[r].messages THEN consumed[m] + 1 ELSE consumed[m]]
      /\ UNCHANGED <<queue, active, origin, lastRun, cancelRequest, cancelRequested, route, stops,
                     up, toGateway, due, aborting, faults>>
  BY DEF accept, acceptRunTurn, Consume, gatewayVars, schedulerVars, cancelVars
<1>2. /\ line \in Request /\ RunLine(line) /\ up = TRUE
      /\ Slot(active, lastRun, up, toAgent', toGateway, due, agentRun)
      /\ Once(toAgent', toGateway, due)
      /\ \A m : InPipe(toAgent', m) => InPipe(toAgent, m)
      /\ \A m : InPipe(toAgent, m) => InPipe(toAgent', m) \/ Steers(line, m)
      /\ \A i \in 1..Len(toAgent') : ~RunLine(toAgent'[i])
      /\ active # 0 /\ r = active /\ agentRun[r].phase = "none"
  BY <1>1, LessToRead DEF RunLine
<1>3. r \in Runs /\ \A m : ~Steers(line, m)
  BY <1>1, <1>2 DEF Request, Steers
<1>4. /\ toAgent \in Seq(Request) /\ 1 \in 1..Len(toAgent) /\ toAgent[1] = line
      /\ Slot(active, lastRun, up, toAgent, toGateway, due, agentRun)
  BY <1>1, LineRead DEF TurnInv, Slot
<1>. HIDE DEF line, r
<1>5. \A m : Starting(toAgent, origin, m) <=> m \in origin[r].messages
  BY <1>2, <1>4 DEF Starting, Slot, r
<1>6. /\ \A i \in 1..Len(toGateway) : ~RunLine(toGateway[i])
      /\ \A x \in due : ~RunLine(x)
      /\ Live(agentRun) = {}
      /\ \A s \in Runs : agentRun[s].steering = {}
  BY <1>2, <1>4 DEF Slot, Live
<1>7. agentRun \in [Runs -> Handle]
  BY DEF TurnInv, Types
<1>8. /\ agentRun'[r] \in Handle /\ agentRun'[r].phase = "engine" /\ agentRun'[r].status = "none"
      /\ agentRun'[r].steering = {}
      /\ \A s \in Runs : s # r => agentRun'[s] = agentRun[s]
  BY <1>1, <1>3, <1>7 DEF Absent, Handle, Status, r
<1>9. /\ Live(agentRun') = {r}
      /\ \A s \in Runs : agentRun'[s].steering = {}
  BY <1>3, <1>6, <1>8 DEF Live
<1>10. \A m : ~InHandle(agentRun', m) /\ ~InHandle(agentRun, m)
  BY <1>6, <1>9 DEF InHandle
<1>11. \A m \in Messages :
         /\ m \in origin[r].messages => consumed[m] = 0 /\ consumed'[m] = 1 /\ InJob(queue, origin, m)
         /\ m \notin origin[r].messages => consumed'[m] = consumed[m]
         /\ InQueue(queue, m) => m \notin origin[r].messages
  <2>1. \A m \in Messages : m \in origin[r].messages => consumed[m] = 0
    BY <1>5 DEF TurnInv, Fresh
  <2>2. \A m \in Messages : m \in origin[r].messages => InJob(queue, origin, m)
    BY <1>3 DEF InJob, InRun
  <2>3. \A m \in Messages : InQueue(queue, m) => m \notin origin[r].messages
    BY <1>3 DEF TurnInv, Jobs, InQueue
  <2>4. \A m \in Messages : consumed'[m] = IF m \in origin[r].messages THEN consumed[m] + 1 ELSE consumed[m]
    BY <1>1 DEF r
  <2>. QED  BY <2>1, <2>2, <2>3, <2>4
<1>12. Types'
  <2>1. consumed' \in [Messages -> {0, 1}]
    <3>1. \A m \in Messages : consumed'[m] \in {0, 1}
      BY <1>11 DEF TurnInv, Types
    <3>. QED  BY <1>1, <3>1
  <2>2. agentRun' \in [Runs -> Handle]
    BY <1>1, <1>7, <1>8
  <2>3. \A s \in Runs : /\ agentRun'[s].phase = "publishing" => agentRun'[s].status # "none"
                        /\ agentRun'[s].status = "thrown" => "throw" \in faults
    BY <1>8 DEF TurnInv, Types
  <2>. QED  BY <1>1, <2>1, <2>2, <2>3 DEF TurnInv, Types
<1>13. Slot(active, lastRun, up, toAgent', toGateway, due, agentRun')
  <2>1. \A s \in Runs : lastRun < s => agentRun'[s].phase = "none"
    <3>1. ~(lastRun < r)
      BY <1>2, MessagesAssumption, FS_CardinalityType DEF Slot, TurnInv, Jobs, Runs
    <3>. QED  BY <1>2, <1>8, <3>1 DEF Slot
  <2>. QED  BY <1>2, <1>6, <1>9, <2>1 DEF Slot
<1>14. \A m : ~Starting(toAgent', origin, m)
  BY <1>2 DEF Starting
<1>15. Apart(queue, origin, toAgent', toGateway, due, agentRun')
  BY <1>2, <1>10 DEF TurnInv, Apart
<1>16. Fresh(queue, origin, route, toAgent', toGateway, due, agentRun', consumed')
  <2>1. ASSUME NEW m \in Messages,
               InQueue(queue, m) \/ InPipe(toAgent, m) \/ InAnswer(toGateway, m) \/ IsDue(due, m)
               \/ route[m] = "new"
        PROVE  m \notin origin[r].messages /\ consumed'[m] = consumed[m]
    <3>1. m \notin origin[r].messages
      BY <1>11, <2>1 DEF TurnInv, Fresh, Apart
    <3>. QED  BY <1>11, <3>1
  <2>. QED  BY <1>2, <1>10, <1>14, <2>1 DEF TurnInv, Fresh
<1>17. faults \subseteq {"timeout"} =>
         Kept(queue, origin, route, toAgent', toGateway, due, agentRun', consumed')
  <2>1. ASSUME faults \subseteq {"timeout"}, NEW m \in Messages, Promised(route, toGateway, due, m)
        PROVE  consumed'[m] = 1 \/ Waits(queue, origin, toAgent', toGateway, due, agentRun', m)
    <3>1. consumed[m] = 1 \/ Waits(queue, origin, toAgent, toGateway, due, agentRun, m)
      BY <2>1 DEF TurnInv, Kept
    <3>2. CASE m \in origin[r].messages
      BY <1>11, <3>2
    <3>3. CASE m \notin origin[r].messages
      <4>1. consumed'[m] = consumed[m]
        BY <1>11, <3>3
      <4>. QED  BY <1>5, <1>10, <3>1, <3>3, <4>1 DEF Waits
    <3>. QED  BY <3>2, <3>3
  <2>. QED  BY <2>1 DEF Kept
<1>. QED  BY <1>1, <1>2, <1>12, <1>13, <1>15, <1>16, <1>17 DEF TurnInv

LEMMA AcceptSteerKeeps ==
  ASSUME TurnInv, accept, acceptSteerTurn(Head(toAgent))
  PROVE  TurnInv'
<1>. DEFINE line == Head(toAgent)
            r == line.run
            m == line.message
            answer == [kind |-> "steer_turn", message |-> m,
                       ok |-> IF TakesSteering(r) THEN "yes" ELSE "no"]
<1>1. /\ toAgent # <<>> /\ toAgent' = Tail(toAgent)
      /\ line.kind = "steer_turn"
      /\ IF TakesSteering(r)
         THEN agentRun' = [agentRun EXCEPT ![r].steering = @ \cup {m}]
         ELSE UNCHANGED agentRun
      /\ toGateway' = Append(toGateway, answer)
      /\ UNCHANGED <<queue, active, origin, lastRun, cancelRequest, cancelRequested, route, stops,
                     up, due, aborting, consumed, faults>>
  BY DEF accept, acceptSteerTurn, gatewayVars, schedulerVars, cancelVars
<1>2. ~RunLine(line) /\ Steers(line, m)
  BY <1>1 DEF RunLine, Steers
<1>3. /\ line \in Request /\ up = TRUE
      /\ Slot(active, lastRun, up, toAgent', toGateway, due, agentRun)
      /\ Once(toAgent', toGateway, due)
      /\ \A n : InPipe(toAgent', n) => InPipe(toAgent, n)
      /\ \A n \in Messages : Steers(line, n) => ~InPipe(toAgent', n)
      /\ \A n : Steers(line, n) => InPipe(toAgent, n)
      /\ \A n : Starting(toAgent', origin, n) <=> Starting(toAgent, origin, n)
  BY <1>1, <1>2, LessToRead
<1>4. m \in Messages /\ r \in Runs
  BY <1>1, <1>3 DEF Request
<1>5. InPipe(toAgent, m) /\ ~InPipe(toAgent', m)
  BY <1>2, <1>3, <1>4
<1>6. /\ ~InJob(queue, origin, m) /\ ~InHandle(agentRun, m) /\ ~InAnswer(toGateway, m) /\ ~IsDue(due, m)
      /\ consumed[m] = 0 /\ route[m] # "new"
  BY <1>4, <1>5 DEF TurnInv, Apart, Fresh
<1>7. answer \in Answer /\ ~RunLine(answer)
  BY <1>4 DEF Answer, RunLine
<1>8. /\ \A n : Brings(answer, n) => n = m /\ ~TakesSteering(r)
      /\ \A n : Accepts(answer, n) => n = m /\ TakesSteering(r)
  BY DEF Brings, Accepts
<1>9. toGateway \in Seq(Answer) /\ agentRun \in [Runs -> Handle]
  BY DEF TurnInv, Types
<1>. HIDE DEF line, r, m, answer
<1>10. /\ toGateway' \in Seq(Answer)
       /\ Slot(active, lastRun, up, toAgent', toGateway', due, agentRun)
       /\ \A n : InAnswer(toGateway', n) <=> InAnswer(toGateway, n) \/ Brings(answer, n)
       /\ \A n : (\E i \in 1..Len(toGateway') : Returns(toGateway'[i], n))
                   <=> (\E i \in 1..Len(toGateway) : Returns(toGateway[i], n))
       /\ \A n : Answered(toGateway', due, n) <=> Answered(toGateway, due, n) \/ Accepts(answer, n)
  <2>1. toGateway' = Append(toGateway, answer)
    BY <1>1 DEF answer, m, r
  <2>2. /\ answer \in Answer /\ ~RunLine(answer) /\ toGateway \in Seq(Answer)
        /\ Slot(active, lastRun, up, toAgent', toGateway, due, agentRun) /\ up = TRUE
    BY <1>3, <1>7, <1>9
  <2>3. /\ Append(toGateway, answer) \in Seq(Answer)
        /\ Slot(active, lastRun, up, toAgent', Append(toGateway, answer), due, agentRun)
        /\ \A n : InAnswer(Append(toGateway, answer), n) <=> InAnswer(toGateway, n) \/ Brings(answer, n)
        /\ \A n : (\E i \in 1..Len(Append(toGateway, answer)) : Returns(Append(toGateway, answer)[i], n))
                    <=> (\E i \in 1..Len(toGateway) : Returns(toGateway[i], n))
        /\ \A n : Answered(Append(toGateway, answer), due, n)
                    <=> Answered(toGateway, due, n) \/ Accepts(answer, n)
    BY <2>2, AnswerSent
  <2>. QED  BY <2>1, <2>3
<1>11. Once(toAgent', toGateway', due)
  <2>1. toGateway' = Append(toGateway, answer)
    BY <1>1 DEF answer, m, r
  <2>. QED  BY <1>3, <1>6, <1>7, <1>8, <1>9, <2>1, OnceMore
<1>12. /\ \A s \in Runs : /\ agentRun'[s] \in Handle
                          /\ agentRun'[s].phase = agentRun[s].phase
                          /\ agentRun'[s].status = agentRun[s].status
                          /\ agentRun'[s].steering = IF TakesSteering(r) /\ s = r
                               THEN agentRun[s].steering \cup {m} ELSE agentRun[s].steering
       /\ agentRun' \in [Runs -> Handle]
  <2>1. CASE TakesSteering(r)
    <3>1. agentRun' = [agentRun EXCEPT ![r].steering = @ \cup {m}]
      BY <1>1, <2>1 DEF r, m
    <3>2. /\ agentRun'[r] = [agentRun[r] EXCEPT !.steering = agentRun[r].steering \cup {m}]
          /\ agentRun[r] \in Handle
      BY <1>4, <1>9, <3>1 DEF r, m
    <3>3. /\ agentRun'[r] \in Handle
          /\ agentRun'[r].phase = agentRun[r].phase /\ agentRun'[r].status = agentRun[r].status
          /\ agentRun'[r].steering = agentRun[r].steering \cup {m}
      BY <1>4, <3>2 DEF Handle, m
    <3>4. \A s \in Runs : s # r => agentRun'[s] = agentRun[s]
      BY <1>9, <3>1
    <3>5. agentRun' \in [Runs -> Handle]
      BY <1>9, <3>1, <3>3, <3>4
    <3>. QED  BY <1>9, <2>1, <3>3, <3>4, <3>5
  <2>2. CASE ~TakesSteering(r)
    BY <1>1, <1>9, <2>2 DEF r
  <2>. QED  BY <2>1, <2>2
<1>13. TakesSteering(r) => r \in Live(agentRun)
  BY DEF TakesSteering, activeRuns, Live
<1>14. /\ \A n : InHandle(agentRun', n) <=> InHandle(agentRun, n) \/ (TakesSteering(r) /\ n = m)
       /\ Live(agentRun') = Live(agentRun)
  <2>1. Live(agentRun') = Live(agentRun)
    BY <1>12 DEF Live
  <2>2. ASSUME NEW n, InHandle(agentRun', n) PROVE InHandle(agentRun, n) \/ (TakesSteering(r) /\ n = m)
    BY <1>12, <2>2 DEF InHandle
  <2>3. ASSUME NEW n, InHandle(agentRun, n) PROVE InHandle(agentRun', n)
    BY <1>12, <2>3 DEF InHandle
  <2>4. ASSUME TakesSteering(r) PROVE InHandle(agentRun', m)
    <3>1. r \in Runs /\ m \in agentRun'[r].steering
      BY <1>4, <1>12, <2>4 DEF r
    <3>. QED  BY <3>1 DEF InHandle
  <2>. QED  BY <2>1, <2>2, <2>3, <2>4
<1>15. Types'
  BY <1>1, <1>10, <1>12 DEF TurnInv, Types
<1>16. Slot(active, lastRun, up, toAgent', toGateway', due, agentRun')
  <2>1. active # 0 => active \in Runs
    BY MessagesAssumption, FS_CardinalityType DEF TurnInv, Slot, Jobs, Runs
  <2>2. \A s \in Runs \ Live(agentRun') : agentRun'[s].steering = {}
    BY <1>10, <1>12, <1>13, <1>14 DEF Slot
  <2>. QED  BY <1>10, <1>12, <1>14, <2>1, <2>2 DEF Slot
<1>17. Apart(queue, origin, toAgent', toGateway', due, agentRun')
  <2>1. ASSUME NEW n \in Messages, n # m
        PROVE  /\ InPipe(toAgent', n) => InPipe(toAgent, n)
               /\ InHandle(agentRun', n) => InHandle(agentRun, n)
               /\ InAnswer(toGateway', n) => InAnswer(toGateway, n)
    BY <1>3, <1>8, <1>10, <1>14, <2>1
  <2>2. ~(InHandle(agentRun', m) /\ InAnswer(toGateway', m))
    BY <1>6, <1>8, <1>10, <1>14
  <2>. QED  BY <1>5, <1>6, <2>1, <2>2 DEF TurnInv, Apart
<1>18. Fresh(queue, origin, route, toAgent', toGateway', due, agentRun', consumed)
  BY <1>3, <1>6, <1>8, <1>10, <1>14 DEF TurnInv, Fresh
<1>19. faults \subseteq {"timeout"} =>
         Kept(queue, origin, route, toAgent', toGateway', due, agentRun', consumed)
  <2>. SUFFICES ASSUME faults \subseteq {"timeout"}, NEW n \in Messages,
                       Promised(route, toGateway', due, n)
                PROVE  consumed[n] = 1 \/ Waits(queue, origin, toAgent', toGateway', due, agentRun', n)
    BY DEF Kept
  <2>1. CASE Promised(route, toGateway, due, n)
    <3>1. consumed[n] = 1 \/ Waits(queue, origin, toAgent, toGateway, due, agentRun, n)
      BY <2>1 DEF TurnInv, Kept
    <3>. QED  BY <1>3, <1>10, <1>14, <3>1 DEF Waits
  <2>2. CASE ~Promised(route, toGateway, due, n)
    <3>1. n = m /\ TakesSteering(r)
      BY <1>8, <1>10, <2>2 DEF Promised
    <3>2. InHandle(agentRun', n)
      BY <1>14, <3>1
    <3>. QED  BY <3>2 DEF Waits
  <2>. QED  BY <2>1, <2>2
<1>. QED  BY <1>1, <1>11, <1>15, <1>16, <1>17, <1>18, <1>19 DEF TurnInv

LEMMA AcceptCancelKeeps ==
  ASSUME TurnInv, accept, acceptCancelTurn(Head(toAgent))
  PROVE  TurnInv'
<1>. DEFINE line == Head(toAgent)
            r == line.run
            answer == CancelAnswer(line, "no")
<1>1. /\ toAgent # <<>> /\ toAgent' = Tail(toAgent)
      /\ line.kind = "cancel_turn"
      /\ UNCHANGED <<queue, active, origin, lastRun, cancelRequest, cancelRequested, route, stops,
                     up, due, consumed, faults>>
  BY DEF accept, acceptCancelTurn, gatewayVars, schedulerVars, cancelVars
<1>2. ~RunLine(line) /\ \A m : ~Steers(line, m)
  BY <1>1 DEF RunLine, Steers
<1>3. /\ line \in Request /\ up = TRUE
      /\ Slot(active, lastRun, up, toAgent', toGateway, due, agentRun)
      /\ Once(toAgent', toGateway, due)
      /\ \A m : InPipe(toAgent', m) <=> InPipe(toAgent, m)
      /\ \A m : Starting(toAgent', origin, m) <=> Starting(toAgent, origin, m)
  BY <1>1, <1>2, LessToRead
<1>4. r \in Runs /\ line.stop \in 1..MaxStops
  BY <1>1, <1>3 DEF Request
<1>5. toGateway \in Seq(Answer) /\ agentRun \in [Runs -> Handle]
  BY DEF TurnInv, Types
<1>6. CASE r \in activeRuns
  <2>1. /\ agentRun' = [agentRun EXCEPT ![r].aborted = TRUE]
        /\ aborting' = aborting \cup {[run |-> r, stop |-> line.stop]}
        /\ toGateway' = toGateway
    BY <1>6 DEF acceptCancelTurn
  <2>. HIDE DEF r
  <2>2. \A s \in Runs : /\ agentRun'[s] \in Handle
                        /\ agentRun'[s].phase = agentRun[s].phase
                        /\ agentRun'[s].status = agentRun[s].status
                        /\ agentRun'[s].steering = agentRun[s].steering
    <3>1. agentRun'[r] = [agentRun[r] EXCEPT !.aborted = TRUE] /\ agentRun[r] \in Handle
      BY <1>4, <1>5, <2>1
    <3>2. /\ agentRun'[r] \in Handle
          /\ agentRun'[r].phase = agentRun[r].phase /\ agentRun'[r].status = agentRun[r].status
          /\ agentRun'[r].steering = agentRun[r].steering
      BY <3>1 DEF Handle
    <3>3. \A s \in Runs : s # r => agentRun'[s] = agentRun[s]
      BY <1>5, <2>1
    <3>. QED  BY <1>5, <3>2, <3>3
  <2>3. agentRun' \in [Runs -> Handle]
    BY <1>5, <2>1, <2>2
  <2>4. aborting' \subseteq Cancel
    BY <1>4, <2>1 DEF TurnInv, Types, Cancel
  <2>5. Types'
    BY <1>1, <1>3, <2>1, <2>2, <2>3, <2>4 DEF TurnInv, Types
  <2>6. /\ Live(agentRun') = Live(agentRun)
        /\ \A m : InHandle(agentRun', m) <=> InHandle(agentRun, m)
    BY <2>2 DEF Live, InHandle
  <2>7. Slot(active, lastRun, up, toAgent', toGateway, due, agentRun')
    <3>1. active # 0 => active \in Runs
      BY MessagesAssumption, FS_CardinalityType DEF TurnInv, Slot, Jobs, Runs
    <3>. QED  BY <1>3, <2>2, <2>6, <3>1 DEF Slot
  <2>8. Apart(queue, origin, toAgent', toGateway, due, agentRun')
    BY <1>3, <2>6 DEF TurnInv, Apart
  <2>9. Fresh(queue, origin, route, toAgent', toGateway, due, agentRun', consumed)
    BY <1>3, <2>6 DEF TurnInv, Fresh
  <2>10. faults \subseteq {"timeout"} =>
           Kept(queue, origin, route, toAgent', toGateway, due, agentRun', consumed)
    BY <1>3, <2>6 DEF TurnInv, Kept, Waits
  <2>. QED  BY <1>1, <1>3, <2>1, <2>5, <2>7, <2>8, <2>9, <2>10 DEF TurnInv
<1>7. CASE r \notin activeRuns
  <2>1. /\ toGateway' = Append(toGateway, answer)
        /\ UNCHANGED <<agentRun, aborting>>
    BY <1>7 DEF acceptCancelTurn, agentVars
  <2>2. /\ answer \in Answer /\ ~RunLine(answer)
        /\ \A m : ~Brings(answer, m) /\ ~Accepts(answer, m)
    BY <1>4 DEF CancelAnswer, Answer, RunLine, Brings, Accepts
  <2>. HIDE DEF answer, r, line
  <2>3. /\ toGateway' \in Seq(Answer)
        /\ Slot(active, lastRun, up, toAgent', toGateway', due, agentRun)
        /\ \A m : InAnswer(toGateway', m) <=> InAnswer(toGateway, m)
        /\ \A m : (\E i \in 1..Len(toGateway') : Returns(toGateway'[i], m))
                   <=> (\E i \in 1..Len(toGateway) : Returns(toGateway[i], m))
        /\ \A m : Answered(toGateway', due, m) <=> Answered(toGateway, due, m)
    BY <1>3, <1>5, <2>1, <2>2, AnswerSent, ZenonT(60)
  <2>4. Once(toAgent', toGateway', due)
    BY <1>3, <1>5, <2>1, <2>2, OnceMore
  <2>5. Types'
    BY <1>1, <2>1, <2>3 DEF TurnInv, Types
  <2>6. Apart(queue, origin, toAgent', toGateway', due, agentRun)
    BY <1>3, <2>3 DEF TurnInv, Apart
  <2>7. Fresh(queue, origin, route, toAgent', toGateway', due, agentRun, consumed)
    BY <1>3, <2>3 DEF TurnInv, Fresh
  <2>8. faults \subseteq {"timeout"} =>
          Kept(queue, origin, route, toAgent', toGateway', due, agentRun, consumed)
    BY <1>3, <2>3 DEF TurnInv, Kept, Promised, Waits
  <2>. QED  BY <1>1, <2>1, <2>3, <2>4, <2>5, <2>6, <2>7, <2>8 DEF TurnInv
<1>. QED  BY <1>6, <1>7

(***************************************************************************)
(* Every step keeps the invariant.                                         *)
(***************************************************************************)
LEMMA StepKeepsTurn == TurnInv /\ [Next]_vars => TurnInv'
<1>. SUFFICES ASSUME TurnInv, [Next]_vars PROVE TurnInv'
  OBVIOUS
<1>1. CASE Agent
  <2>1. CASE accept
    <3>1. CASE acceptRunTurn(Head(toAgent))
      BY <2>1, <3>1, AcceptRunKeeps
    <3>2. CASE acceptSteerTurn(Head(toAgent))
      BY <2>1, <3>2, AcceptSteerKeeps
    <3>3. CASE acceptCancelTurn(Head(toAgent))
      BY <2>1, <3>3, AcceptCancelKeeps
    <3>. QED  BY <2>1, <3>1, <3>2, <3>3 DEF accept
  <2>2. CASE \E c \in aborting : abortEnds(c)
    BY <2>2, AbortKeeps
  <2>3. CASE \E r \in Runs : takeSteering(r)
    BY <2>3, TakeSteeringKeeps
  <2>4. CASE \E r \in Runs : turnThrows(r) \/ \E status \in Status : turnEnds(r, status)
    BY <2>4, TurnEndsKeeps
  <2>5. CASE \E r \in Runs : answerRunTurn(r)
    BY <2>5, AnswerRunKeeps
  <2>. QED  BY <1>1, <2>1, <2>2, <2>3, <2>4, <2>5 DEF Agent
<1>2. CASE Gateway
  <2>1. CASE \E m \in Messages, steering \in BOOLEAN : routeMessage(m, steering)
    BY <2>1, RouteKeeps
  <2>2. CASE handleStop
    BY <2>2, StopKeeps
  <2>3. CASE \E n \in 1..Len(toGateway) : readLines(n)
    BY <2>3, ReadKeeps
  <2>4. CASE requestTimesOut
    BY <2>4, TimeoutKeeps
  <2>5. CASE crash
    BY <2>5, CrashKeeps
  <2>6. CASE recover
    BY <2>6, RecoverKeeps
  <2>. QED  BY <1>2, <2>1, <2>2, <2>3, <2>4, <2>5, <2>6 DEF Gateway
<1>3. CASE Reaction
  <2>1. PICK x \in due : runTurnSettles(x) \/ cancelSettles(x) \/ steerSettles(x)
    BY <1>3 DEF Reaction
  <2>. QED  BY <2>1, RunTurnSettlesKeeps, CancelSettlesKeeps, SteerSettlesKeeps
<1>4. CASE UNCHANGED vars
  BY <1>4 DEF vars, gatewayVars, schedulerVars, cancelVars, agentVars, TurnInv, Types
<1>. QED  BY <1>1, <1>2, <1>3, <1>4 DEF Next

(* The jobs, the slot, the two pipes and the handles of agent-cli fit together *)
(* in every state.                                                            *)
THEOREM TurnInvariant == Spec => []TurnInv
<1>. QED  BY InitTurn, StepKeepsTurn, PTL DEF Spec

LEMMA TurnTypes == TurnInv => TypeOK
<1>. SUFFICES ASSUME TurnInv PROVE TypeOK
  OBVIOUS
<1>1. active \in Runs \cup {0}
  BY MessagesAssumption, FS_CardinalityType DEF TurnInv, Slot, Jobs, Runs
<1>2. \A i \in 1..Len(toGateway) : toGateway[i] \in Answer
  BY ElementOfSeq DEF TurnInv, Types
<1>3. consumed \in [Messages -> Nat]
  BY DEF TurnInv, Types
<1>. QED  BY <1>1, <1>2, <1>3 DEF TurnInv, Types, Jobs, TypeOK, Routes, Handle

(* Every variable has its type, and there are runs enough for the jobs of the *)
(* messages.                                                                  *)
THEOREM TurnTypeCorrect == Spec => []TypeOK
<1>. QED  BY TurnInvariant, TurnTypes, PTL

(* A session has at most one turn under way in agent-cli. *)
THEOREM OneTurn == Spec => []OneTurnInAgent
<1>1. TurnInv => OneTurnInAgent
  <2>. SUFFICES ASSUME TurnInv PROVE Cardinality(activeRuns) <= 1
    BY DEF OneTurnInAgent
  <2>1. activeRuns \subseteq {active}
    BY DEF TurnInv, Slot, Live, activeRuns
  <2>2. activeRuns = {} \/ activeRuns = {active}
    BY <2>1
  <2>3. Cardinality(activeRuns) = 0 \/ Cardinality(activeRuns) = 1
    BY <2>2, FS_EmptySet, FS_Singleton
  <2>. QED  BY <2>3
<1>. QED  BY <1>1, TurnInvariant, PTL

(* No message is taken in by two turns, whatever fails. *)
THEOREM MessageOnceAtMost == Spec => []NeverTwice
<1>1. TurnInv => NeverTwice
  BY DEF TurnInv, Types, NeverTwice
<1>. QED  BY <1>1, TurnInvariant, PTL

LEMMA OneAtMost ==
  ASSUME NEW S, \A x, y \in S : x = y
  PROVE  Cardinality(S) = IF S = {} THEN 0 ELSE 1
<1>1. CASE S = {}
  BY <1>1, FS_EmptySet
<1>2. CASE S # {}
  <2>1. PICK x \in S : TRUE
    BY <1>2
  <2>2. S = {x}
    BY <2>1
  <2>. QED  BY <1>2, <2>2, FS_Singleton
<1>. QED  BY <1>1, <1>2

(* A message that was promised an answer is taken in by one turn or waits in  *)
(* one place.                                                                 *)
LEMMA TurnKeepsMessages == TurnInv => EachMessageOnce
<1>. SUFFICES ASSUME TurnInv, faults \subseteq {"timeout"}, NEW m \in Messages,
                     route[m] \in {"queued", "accepted"}
              PROVE  consumed[m] + OnItsWay(m) = 1
  BY DEF EachMessageOnce
<1>. DEFINE waiting == {i \in 1..Len(queue) : m \in queue[i].messages}
            sent == {i \in 1..Len(toAgent) :
                       \/ toAgent[i].kind = "run_turn" /\ m \in origin[toAgent[i].run].messages
                       \/ toAgent[i].kind = "steer_turn" /\ toAgent[i].message = m}
            held == {r \in activeRuns : m \in agentRun[r].steering}
            answered == {i \in 1..Len(toGateway) :
                           toGateway[i].kind = "run_turn" /\ m \in toGateway[i].steering}
            read == {line \in due : line.kind = "run_turn" /\ m \in line.steering}
<1>1. OnItsWay(m) = Cardinality(waiting) + Cardinality(sent) + Cardinality(held)
                      + Cardinality(answered) + Cardinality(read)
  BY DEF OnItsWay
<1>2. /\ waiting # {} <=> InQueue(queue, m)
      /\ \A i, j \in waiting : i = j
  BY DEF InQueue, TurnInv, Jobs
<1>3. \A i \in 1..Len(toAgent) : RunLine(toAgent[i]) => toAgent[i].run \in Runs
  BY ElementOfSeq DEF TurnInv, Slot, Request, RunLine
<1>4. Starting(toAgent, origin, m) => InRun(origin, m)
  BY <1>3 DEF Starting, InRun
<1>5. sent # {} <=> Starting(toAgent, origin, m) \/ InPipe(toAgent, m)
  BY DEF Starting, InPipe, RunLine, Steers
<1>6. \A i, j \in sent : i = j
  <2>1. ~(Starting(toAgent, origin, m) /\ InPipe(toAgent, m))
    BY <1>4 DEF TurnInv, Apart, InJob
  <2>2. ASSUME NEW i \in 1..Len(toAgent), NEW j \in 1..Len(toAgent),
               RunLine(toAgent[i]), RunLine(toAgent[j])
        PROVE  i = j
    BY <2>2 DEF TurnInv, Slot
  <2>3. ASSUME NEW i \in 1..Len(toAgent), NEW j \in 1..Len(toAgent),
               Steers(toAgent[i], m), Steers(toAgent[j], m)
        PROVE  i = j
    BY <2>3 DEF TurnInv, Once
  <2>. QED  BY <2>1, <2>2, <2>3 DEF Starting, InPipe, RunLine, Steers
<1>7. held # {} <=> InHandle(agentRun, m)
  <2>1. \A r \in Runs : m \in agentRun[r].steering => r \in activeRuns
    BY DEF TurnInv, Slot, Live, activeRuns
  <2>2. activeRuns \subseteq Runs
    BY DEF activeRuns
  <2>. QED  BY <2>1, <2>2 DEF InHandle
<1>8. \A r, s \in held : r = s
  BY DEF TurnInv, Slot, Live, activeRuns
<1>9. /\ answered # {} <=> \E i \in 1..Len(toGateway) : Returns(toGateway[i], m)
      /\ answered # {} => InAnswer(toGateway, m)
      /\ \A i, j \in answered : i = j
  BY DEF Returns, RunLine, InAnswer, Brings, TurnInv, Once
<1>10. /\ read # {} <=> \E line \in due : Returns(line, m)
       /\ read # {} => IsDue(due, m)
       /\ \A x, y \in read : x = y
  BY DEF Returns, RunLine, IsDue, Brings, TurnInv, Once
<1>. HIDE DEF waiting, sent, held, answered, read
<1>11. /\ Cardinality(waiting) = IF waiting = {} THEN 0 ELSE 1
       /\ Cardinality(sent) = IF sent = {} THEN 0 ELSE 1
       /\ Cardinality(held) = IF held = {} THEN 0 ELSE 1
       /\ Cardinality(answered) = IF answered = {} THEN 0 ELSE 1
       /\ Cardinality(read) = IF read = {} THEN 0 ELSE 1
  BY <1>2, <1>6, <1>8, <1>9, <1>10, OneAtMost
<1>12. ~(InQueue(queue, m) /\ InRun(origin, m))
  BY DEF InQueue, InRun, TurnInv, Jobs
<1>13. /\ waiting # {} => sent = {} /\ held = {} /\ answered = {} /\ read = {}
       /\ sent # {} => held = {} /\ answered = {} /\ read = {}
       /\ held # {} => answered = {} /\ read = {}
       /\ answered # {} => read = {}
  BY <1>2, <1>4, <1>5, <1>7, <1>9, <1>10, <1>12 DEF TurnInv, Apart, InJob
<1>14. waiting # {} \/ sent # {} \/ held # {} \/ answered # {} \/ read # {} => consumed[m] = 0
  BY <1>2, <1>5, <1>7, <1>9, <1>10 DEF TurnInv, Fresh
<1>15. consumed[m] = 1 \/ waiting # {} \/ sent # {} \/ held # {} \/ answered # {} \/ read # {}
  <2>1. consumed[m] = 1 \/ Waits(queue, origin, toAgent, toGateway, due, agentRun, m)
    BY DEF TurnInv, Kept, Promised
  <2>. QED  BY <2>1, <1>2, <1>5, <1>7, <1>9, <1>10 DEF Waits
<1>16. consumed[m] \in {0, 1}
  BY DEF TurnInv, Types
<1>. QED  BY <1>1, <1>11, <1>13, <1>14, <1>15, <1>16

(* EachMessageOnce at every state: between the user and the engine no message *)
(* is lost, kept twice or answered twice, for any number of messages.         *)
THEOREM MessagesKept == Spec => []EachMessageOnce
<1>. QED  BY TurnInvariant, TurnKeepsMessages, PTL
=============================================================================
