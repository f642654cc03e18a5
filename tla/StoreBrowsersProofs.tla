------------------------- MODULE StoreBrowsersProofs -------------------------
(***************************************************************************)
(* Proofs about the commands that use the browsers of stores, for any      *)
(* number of processes, stores, ports and faults.                          *)
(***************************************************************************)
EXTENDS StoreBrowsers, TLAPS

Places == {"idle", "waiting", "catalog", "kill", "launch", "polling", "running", "reconcile", "decide",
           "start", "record", "attach", "driving", "check", "stop", "forget", "close", "clear", "done", "failed"}

Commands ==
  [kind : {"none", "page", "open", "exit", "status"}, of : Stores \cup {None}, stage : {"own", "look", "report"},
   pc : Places, ready : BOOLEAN, seen : [Stores -> Ports \cup {None}], port : Ports \cup {None},
   again : BOOLEAN, drives : Stores \cup {None}, left : Int, disturbed : BOOLEAN]

Under(c) == c.pc \notin {"idle", "done", "failed"}
Locked(c) == c.stage = "own" /\ c.pc \notin {"idle", "waiting", "done", "failed"}

(* Which command may be where. *)
Placed(c) ==
  /\ c.pc \in {"waiting", "decide", "start", "record", "attach", "driving", "check", "stop", "forget"}
       => c.stage = "own"
  /\ c.stage = "own" /\ c.pc # "idle" => c.of \in Stores
  /\ c.stage = "look" => c.kind = "exit"
  /\ c.pc = "idle" => c.kind = "none"
  /\ c.pc = "waiting" => c.kind \in {"page", "open", "exit"}
  /\ c.pc \in {"close", "clear"} => c.kind = "exit"
  /\ Locked(c) /\ c.pc \notin {"stop", "forget"} => c.kind \in {"page", "open"}
  /\ Locked(c) /\ c.pc \in {"running", "reconcile", "decide", "driving"} => c.kind = "page"
  /\ c.pc = "check" => c.kind = "open"
  /\ c.pc \in {"stop", "forget"} => c.kind \in {"open", "exit"}

(* A command that nothing has disturbed: the client that has answered it is up, and the browser
   that it has started, or is attached to, is there. *)
Well(c, cl, br) ==
  c.kind # "exit" /\ ~c.disturbed =>
    /\ c.pc \notin {"stop", "forget", "failed"}
    /\ c.pc \in {"idle", "waiting", "kill", "launch", "polling"} => ~c.ready
    /\ c.pc \in {"running", "reconcile", "decide", "start", "record", "attach", "driving", "check"} => c.ready
    /\ c.ready /\ Under(c) => cl = "up"
    /\ c.pc = "record" => br[c.of] = c.port
    /\ c.pc = "attach" /\ (c.kind = "open" \/ c.again) => br[c.of] = c.port
    /\ c.pc \in {"driving", "check"} => c.drives = c.of

Good(p, c, h, cl, br) ==
  /\ c \in Commands
  /\ Placed(c)
  /\ Locked(c) => h[c.of] = p
  /\ Well(c, cl, br)

Surroundings ==
  /\ client \in {"down", "starting", "up"}
  /\ browsers \in [Stores -> Ports \cup {None}]
  /\ sessions \in [Stores -> Ports \cup {None}]
  /\ holder \in [Stores -> Procs \cup {None}]
  /\ DOMAIN cmd = Procs

StoreInv ==
  /\ Surroundings
  /\ \A p \in Procs : Good(p, cmd[p], holder, client, browsers)

(* Commands that are past the lock of a store are one. *)
StoreIsLocked ==
  \A p, q \in Procs : Locked(cmd[p]) /\ Locked(cmd[q]) /\ cmd[p].of = cmd[q].of => p = q

(***************************************************************************)
(* Lemmas: what a step of one command leaves to the others.                *)
(***************************************************************************)
LEMMA InitGood == Init => StoreInv
<1>. USE StoresAssumption
<1>. SUFFICES ASSUME Init PROVE StoreInv
  OBVIOUS
<1>1. Surroundings
  BY DEF Init, Surroundings
<1>2. Idle \in Commands
  BY DEF Idle, Commands, Places
<1>3. ASSUME NEW p \in Procs PROVE Good(p, cmd[p], holder, client, browsers)
  BY <1>2 DEF Init, Idle, Good, Placed, Locked, Well, Under
<1>. QED  BY <1>1, <1>3 DEF StoreInv

(* A command stays good when nobody ends the client, takes its lock, or touches the browser of
   a store that it has locked. *)
LEMMA LeftAlone ==
  ASSUME NEW q \in Procs, Good(q, cmd[q], holder, client, browsers), cmd'[q] = cmd[q],
         client = "up" => client' = "up",
         \A s \in Stores : holder[s] = q => holder'[s] = q /\ browsers'[s] = browsers[s]
  PROVE  Good(q, cmd'[q], holder', client', browsers')
<1>. DEFINE c == cmd[q]
<1>1. Locked(c) => /\ c.of \in Stores
                   /\ holder'[c.of] = q /\ browsers'[c.of] = browsers[c.of]
  BY DEF Good, Placed, Locked
<1>2. Well(c, client', browsers')
  BY <1>1 DEF Good, Well, Placed, Locked, Under
<1>. QED  BY <1>1, <1>2 DEF Good

(* The end of the client disturbs every other command that is under way. *)
LEMMA AllClosed ==
  ASSUME StoreInv, NEW q \in Procs, NEW p, p # q, NEW pc, Close(p, Stores, pc),
         \A s \in Stores : holder[s] = q => holder'[s] = q
  PROVE  Good(q, cmd'[q], holder', client', browsers')
<1>. USE StoresAssumption
<1>. DEFINE c == cmd[q]
<1>1. c \in Commands /\ Good(q, c, holder, client, browsers)
  BY DEF StoreInv, Good
<1>2. cmd'[q] = [c EXCEPT !.drives = IF @ \in Stores THEN None ELSE @,
                          !.disturbed = @ \/ Under(c)]
  BY DEF Close, Active, Under
<1>3. /\ cmd'[q] \in Commands
      /\ cmd'[q].kind = c.kind /\ cmd'[q].of = c.of /\ cmd'[q].stage = c.stage /\ cmd'[q].pc = c.pc
      /\ cmd'[q].ready = c.ready /\ cmd'[q].again = c.again /\ cmd'[q].port = c.port
      /\ cmd'[q].disturbed = (c.disturbed \/ Under(c))
  BY <1>1, <1>2 DEF Commands
<1>4. Placed(cmd'[q]) /\ (Locked(cmd'[q]) => holder'[cmd'[q].of] = q)
  BY <1>1, <1>3 DEF Good, Placed, Locked
<1>5. Well(cmd'[q], client', browsers')
  BY <1>1, <1>3 DEF Good, Well, Under
<1>. QED  BY <1>3, <1>4, <1>5 DEF Good

(* A browser closes or moves: only who has locked its store, or is told of it, can mind. *)
LEMMA OneTouched ==
  ASSUME StoreInv, NEW q \in Procs, NEW s \in Stores, NEW gone \in BOOLEAN, NEW met \in BOOLEAN,
         cmd'[q] = [cmd[q] EXCEPT !.drives = IF @ = s /\ gone THEN None ELSE @, !.disturbed = @ \/ met],
         holder[s] # q \/ (Under(cmd[q]) => met),
         client = "up" => client' = "up",
         \A t \in Stores : holder[t] = q => holder'[t] = q,
         \A t \in Stores \ {s} : browsers'[t] = browsers[t]
  PROVE  Good(q, cmd'[q], holder', client', browsers')
<1>. DEFINE c == cmd[q]
<1>1. c \in Commands /\ Good(q, c, holder, client, browsers)
  BY DEF StoreInv, Good
<1>2. /\ cmd'[q] \in Commands
      /\ cmd'[q].kind = c.kind /\ cmd'[q].of = c.of /\ cmd'[q].stage = c.stage /\ cmd'[q].pc = c.pc
      /\ cmd'[q].ready = c.ready /\ cmd'[q].again = c.again /\ cmd'[q].port = c.port
      /\ cmd'[q].disturbed = (c.disturbed \/ met)
      /\ cmd'[q].drives = IF c.drives = s /\ gone THEN None ELSE c.drives
  BY <1>1 DEF Commands
<1>3. Placed(cmd'[q]) /\ (Locked(cmd'[q]) => holder'[cmd'[q].of] = q)
  BY <1>1, <1>2 DEF Good, Placed, Locked
<1>4. Well(cmd'[q], client', browsers')
  <2>1. CASE met
    BY <1>1, <1>2, <2>1 DEF Well
  <2>2. CASE ~met /\ ~Under(c)
    BY <1>1, <1>2, <2>2 DEF Good, Well, Under
  <2>3. CASE ~met /\ Under(c)
    <3>1. Locked(c) => c.of \in Stores \ {s} /\ browsers'[c.of] = browsers[c.of]
      BY <1>1, <2>3 DEF Good, Placed, Locked
    <3>. QED  BY ZenonT(60), <1>1, <1>2, <3>1 DEF Good, Well, Placed, Locked, Under
  <2>. QED  BY <2>1, <2>2, <2>3
<1>. QED  BY <1>2, <1>3, <1>4 DEF Good

(* Most steps change the command alone. *)
LEMMA OwnStep ==
  ASSUME StoreInv, NEW p \in Procs, NEW c, cmd' = [cmd EXCEPT ![p] = c], Surroundings',
         Good(p, c, holder', client', browsers'),
         client = "up" => client' = "up", UNCHANGED browsers,
         \A s \in Stores : holder'[s] = holder[s] \/ holder[s] = p \/ holder[s] = None
  PROVE  StoreInv'
<1>. USE StoresAssumption
<1>1. ASSUME NEW q \in Procs \ {p} PROVE Good(q, cmd'[q], holder', client', browsers')
  <2>1. cmd'[q] = cmd[q] /\ Good(q, cmd[q], holder, client, browsers)
    BY DEF StoreInv, Surroundings
  <2>2. \A s \in Stores : holder[s] = q => holder'[s] = q /\ browsers'[s] = browsers[s]
    OBVIOUS
  <2>. QED  BY <2>1, <2>2, LeftAlone
<1>2. cmd'[p] = c
  BY DEF StoreInv, Surroundings
<1>. QED  BY <1>1, <1>2 DEF StoreInv

(* A command that ends gives back its lock. *)
LEMMA EndGood ==
  ASSUME StoreInv, NEW p \in Procs, NEW outcome \in {"done", "failed"}, NEW met \in BOOLEAN,
         Active(p), End(p, outcome, met),
         outcome = "failed" => met \/ cmd[p].disturbed \/ cmd[p].kind = "exit",
         UNCHANGED <<client, browsers>>, sessions' \in [Stores -> Ports \cup {None}]
  PROVE  StoreInv'
<1>. USE StoresAssumption
<1>. DEFINE c == [cmd[p] EXCEPT !.pc = outcome, !.drives = None, !.disturbed = @ \/ met]
<1>1. cmd[p] \in Commands /\ Placed(cmd[p])
  BY DEF StoreInv, Good
<1>2. cmd' = [cmd EXCEPT ![p] = c]
  BY DEF End, StoreInv, Surroundings
<1>3. /\ c \in Commands /\ c.pc = outcome /\ c.kind = cmd[p].kind /\ c.stage = cmd[p].stage /\ c.of = cmd[p].of
      /\ c.disturbed = (cmd[p].disturbed \/ met)
  BY ZenonT(60), <1>1 DEF Commands, Places
<1>4. Good(p, c, holder', client', browsers')
  <2>1. Placed(c)
    BY <1>1, <1>3 DEF Placed, Locked, Active
  <2>2. ~Locked(c)
    BY <1>3 DEF Locked
  <2>3. Well(c, client', browsers')
    BY <1>3 DEF Well, Under
  <2>. QED  BY <1>3, <2>1, <2>2, <2>3 DEF Good
<1>5. holder' = [s \in Stores |-> IF holder[s] = p THEN None ELSE holder[s]]
  BY DEF End, Unlock
<1>6. Surroundings'
  BY <1>2, <1>5 DEF StoreInv, Surroundings
<1>. QED  BY <1>2, <1>4, <1>5, <1>6, OwnStep

(***************************************************************************)
(* Each step of a command.                                                 *)
(***************************************************************************)
LEMMA StartGood ==
  ASSUME StoreInv, NEW p \in Procs, Start(p)
  PROVE  StoreInv'
<1>. USE StoresAssumption
<1>1. PICK d \in Does[p] :
        cmd' = [cmd EXCEPT ![p].kind = d[1], ![p].of = d[2], ![p].left = Steps,
                           ![p].pc = IF d[1] = "status" THEN "catalog" ELSE "waiting",
                           ![p].stage = IF d[1] = "status" THEN "report" ELSE "own"]
  BY DEF Start
<1>. DEFINE c == [cmd[p] EXCEPT !.kind = d[1], !.of = d[2], !.left = Steps,
                                !.pc = IF d[1] = "status" THEN "catalog" ELSE "waiting",
                                !.stage = IF d[1] = "status" THEN "report" ELSE "own"]
<1>2. cmd' = [cmd EXCEPT ![p] = c] /\ UNCHANGED <<client, browsers, sessions, holder>>
  BY ZenonT(60), <1>1 DEF StoreInv, Surroundings, Start
<1>3. cmd[p] \in Commands /\ cmd[p].pc = "idle" /\ Good(p, cmd[p], holder, client, browsers)
  BY DEF StoreInv, Good, Start
<1>4. /\ d[1] \in {"page", "open", "exit", "status"} /\ d[2] \in Stores \cup {None}
      /\ d[1] # "status" => d[2] \in Stores
  OBVIOUS
<1>5. c.pc \in Places /\ c.stage \in {"own", "look", "report"} /\ c.left \in Int
  BY <1>3 DEF Commands, Places
<1>8. c \in Commands
  BY <1>3, <1>4, <1>5 DEF Commands
<1>9. /\ c.kind = d[1] /\ c.of = d[2] /\ c.ready = cmd[p].ready /\ c.disturbed = cmd[p].disturbed
      /\ c.pc = IF d[1] = "status" THEN "catalog" ELSE "waiting"
      /\ c.stage = IF d[1] = "status" THEN "report" ELSE "own"
  BY <1>3 DEF Commands
<1>6. Good(p, c, holder', client', browsers')
  BY <1>2, <1>3, <1>4, <1>8, <1>9 DEF Good, Placed, Locked, Well, Under
<1>7. Surroundings'
  BY <1>2 DEF StoreInv, Surroundings
<1>. QED  BY <1>2, <1>6, <1>7, OwnStep

(* Steps that move one command. *)
LEMMA MoveGood ==
  ASSUME StoreInv, NEW p \in Procs, NEW c, cmd' = [cmd EXCEPT ![p] = c],
         Good(p, c, holder, client, browsers),
         UNCHANGED <<client, browsers, holder>>, sessions' \in [Stores -> Ports \cup {None}]
  PROVE  StoreInv'
<1>1. Surroundings' /\ Good(p, c, holder', client', browsers')
  BY DEF StoreInv, Surroundings
<1>. QED  BY <1>1, OwnStep

LEMMA BrowserCatalogGood ==
  ASSUME StoreInv, NEW p \in Procs, BrowserCatalog(p)
  PROVE  StoreInv'
<1>. USE StoresAssumption
<1>0. cmd[p] \in Commands /\ Good(p, cmd[p], holder, client, browsers) /\ sessions \in [Stores -> Ports \cup {None}]
  BY DEF StoreInv, Good, Surroundings
<1>1. UNCHANGED <<client, browsers, sessions>> /\ cmd[p].pc = "catalog" /\ Active(p)
  BY DEF BrowserCatalog, Active
<1>2. CASE End(p, "failed", TRUE)
  BY <1>0, <1>1, <1>2, EndGood
<1>3. CASE cmd[p].ready /\ End(p, "failed", client = "up")
  <2>1. client = "up" \/ cmd[p].disturbed \/ cmd[p].kind = "exit"
    BY <1>0, <1>1, <1>3 DEF Good, Well, Under
  <2>. QED  BY <1>0, <1>1, <1>3, <2>1, EndGood
<1>4. CASE /\ client = "up" /\ UNCHANGED holder
           /\ cmd' = [cmd EXCEPT ![p].ready = TRUE,
                                 ![p].pc = IF @ = "catalog" /\ cmd[p].kind = "open" /\ cmd[p].stage = "own"
                                           THEN "start" ELSE "running"]
  <2>. DEFINE c == [cmd[p] EXCEPT !.ready = TRUE, !.pc = IF @ = "catalog" /\ cmd[p].kind = "open" /\ cmd[p].stage = "own" THEN "start" ELSE "running"]
  <2>1. cmd' = [cmd EXCEPT ![p] = c] /\ UNCHANGED <<client, browsers, holder>> /\ sessions' \in [Stores -> Ports \cup {None}]
    BY <1>0, <1>1, <1>4 DEF StoreInv, Surroundings
  <2>2. c \in Commands
    <3>1. c.pc \in Places
      BY <1>0 DEF Commands, Places
    <3>. QED  BY <1>0, <3>1 DEF Commands
  <2>3. Good(p, c, holder, client, browsers)
    BY <1>0, <1>1, <1>4, <2>2 DEF Good, Placed, Locked, Well, Under, Commands
  <2>. QED  BY <2>1, <2>3, MoveGood
<1>5. CASE ~cmd[p].ready /\ Go(p, "kill") /\ UNCHANGED holder
  <2>. DEFINE c == [cmd[p] EXCEPT !.pc = "kill"]
  <2>1. cmd' = [cmd EXCEPT ![p] = c] /\ UNCHANGED <<client, browsers, holder>> /\ sessions' \in [Stores -> Ports \cup {None}]
    BY <1>0, <1>1, <1>5 DEF Go, StoreInv, Surroundings
  <2>2. c \in Commands
    BY <1>0 DEF Commands, Places
  <2>3. Good(p, c, holder, client, browsers)
    BY <1>0, <1>1, <1>5, <2>2 DEF Go, Good, Placed, Locked, Well, Under, Commands
  <2>. QED  BY <2>1, <2>3, MoveGood
<1>. QED  BY <1>2, <1>3, <1>4, <1>5 DEF BrowserCatalog, AfterCatalog, Answered

LEMMA LockTimeoutGood ==
  ASSUME StoreInv, NEW p \in Procs, LockTimeout(p)
  PROVE  StoreInv'
<1>. USE StoresAssumption
<1>0. cmd[p] \in Commands /\ Good(p, cmd[p], holder, client, browsers) /\ sessions \in [Stores -> Ports \cup {None}]
  BY DEF StoreInv, Good, Surroundings
<1>1. UNCHANGED <<client, browsers, sessions>> /\ Active(p) /\ End(p, "failed", TRUE)
  BY DEF LockTimeout, Active
<1>. QED  BY <1>0, <1>1, EndGood

LEMMA ClientDeadlineGood ==
  ASSUME StoreInv, NEW p \in Procs, ClientDeadline(p)
  PROVE  StoreInv'
<1>. USE StoresAssumption
<1>0. cmd[p] \in Commands /\ Good(p, cmd[p], holder, client, browsers) /\ sessions \in [Stores -> Ports \cup {None}]
  BY DEF StoreInv, Good, Surroundings
<1>1. UNCHANGED <<client, browsers, sessions>> /\ Active(p) /\ End(p, "failed", TRUE)
  BY DEF ClientDeadline, Active
<1>. QED  BY <1>0, <1>1, EndGood

LEMMA PollClientGood ==
  ASSUME StoreInv, NEW p \in Procs, PollClient(p)
  PROVE  StoreInv'
<1>. USE StoresAssumption
<1>0. cmd[p] \in Commands /\ Good(p, cmd[p], holder, client, browsers) /\ sessions \in [Stores -> Ports \cup {None}]
  BY DEF StoreInv, Good, Surroundings
<1>1. UNCHANGED <<client, browsers, holder, sessions>> /\ cmd[p].pc = "polling" /\ client = "up"
  BY DEF PollClient
<1>2. CASE cmd' = [cmd EXCEPT ![p].ready = TRUE, ![p].pc = "catalog"]
  <2>. DEFINE c == [cmd[p] EXCEPT !.ready = TRUE, !.pc = "catalog"]
  <2>1. cmd' = [cmd EXCEPT ![p] = c] /\ UNCHANGED <<client, browsers, holder>> /\ sessions' \in [Stores -> Ports \cup {None}]
    BY <1>0, <1>1, <1>2 DEF StoreInv, Surroundings
  <2>2. c \in Commands
    BY <1>0 DEF Commands, Places
  <2>3. Good(p, c, holder, client, browsers)
    BY <1>0, <1>1, <1>2, <2>2 DEF Good, Placed, Locked, Well, Under, Commands
  <2>. QED  BY <2>1, <2>3, MoveGood
<1>. QED  BY <1>2 DEF PollClient

LEMMA RunningInfoGood ==
  ASSUME StoreInv, NEW p \in Procs, RunningInfo(p)
  PROVE  StoreInv'
<1>. USE StoresAssumption
<1>0. cmd[p] \in Commands /\ Good(p, cmd[p], holder, client, browsers) /\ sessions \in [Stores -> Ports \cup {None}]
  BY DEF StoreInv, Good, Surroundings
<1>1. UNCHANGED <<client, browsers, sessions>> /\ cmd[p].pc = "running" /\ Active(p)
  BY DEF RunningInfo, Active
<1>2. CASE UNCHANGED holder /\ cmd' = [cmd EXCEPT ![p].seen = browsers, ![p].pc = "reconcile"]
  <2>. DEFINE c == [cmd[p] EXCEPT !.seen = browsers, !.pc = "reconcile"]
  <2>1. cmd' = [cmd EXCEPT ![p] = c] /\ UNCHANGED <<client, browsers, holder>> /\ sessions' \in [Stores -> Ports \cup {None}]
    BY <1>0, <1>1, <1>2 DEF StoreInv, Surroundings
  <2>2. c \in Commands
    BY <1>0 DEF Commands, Places, StoreInv, Surroundings
  <2>3. Good(p, c, holder, client, browsers)
    BY <1>0, <1>1, <1>2, <2>2 DEF Good, Placed, Locked, Well, Under, Commands
  <2>. QED  BY <2>1, <2>3, MoveGood
<1>3. CASE End(p, "failed", client = "up")
  <2>1. client = "up" \/ cmd[p].disturbed \/ cmd[p].kind = "exit"
    BY <1>0, <1>1 DEF Good, Well, Under
  <2>. QED  BY <1>0, <1>1, <1>3, <2>1, EndGood
<1>. QED  BY <1>2, <1>3 DEF RunningInfo

LEMMA ReconcileMapGood ==
  ASSUME StoreInv, NEW p \in Procs, ReconcileMap(p)
  PROVE  StoreInv'
<1>. USE StoresAssumption
<1>0. cmd[p] \in Commands /\ Good(p, cmd[p], holder, client, browsers) /\ sessions \in [Stores -> Ports \cup {None}]
  BY DEF StoreInv, Good, Surroundings
<1>1. UNCHANGED <<client, browsers>> /\ cmd[p].pc = "reconcile" /\ Active(p) /\ sessions' \in [Stores -> Ports \cup {None}]
  BY <1>0 DEF ReconcileMap, Active
<1>2. CASE End(p, "done", FALSE)
  BY <1>0, <1>1, <1>2, EndGood
<1>3. CASE cmd[p].stage = "own" /\ Go(p, "decide") /\ UNCHANGED holder
  <2>. DEFINE c == [cmd[p] EXCEPT !.pc = "decide"]
  <2>1. cmd' = [cmd EXCEPT ![p] = c] /\ UNCHANGED <<client, browsers, holder>> /\ sessions' \in [Stores -> Ports \cup {None}]
    BY <1>0, <1>1, <1>3 DEF Go, StoreInv, Surroundings
  <2>2. c \in Commands
    BY <1>0 DEF Commands, Places
  <2>3. Good(p, c, holder, client, browsers)
    BY <1>0, <1>1, <1>3, <2>2 DEF Go, Good, Placed, Locked, Well, Under, Commands
  <2>. QED  BY <2>1, <2>3, MoveGood
<1>4. CASE cmd[p].stage = "look" /\ Go(p, "close") /\ UNCHANGED holder
  <2>. DEFINE c == [cmd[p] EXCEPT !.pc = "close"]
  <2>1. cmd' = [cmd EXCEPT ![p] = c] /\ UNCHANGED <<client, browsers, holder>> /\ sessions' \in [Stores -> Ports \cup {None}]
    BY <1>0, <1>1, <1>4 DEF Go, StoreInv, Surroundings
  <2>2. c \in Commands
    BY <1>0 DEF Commands, Places
  <2>3. Good(p, c, holder, client, browsers)
    BY <1>0, <1>1, <1>4, <2>2 DEF Go, Good, Placed, Locked, Well, Under, Commands
  <2>. QED  BY <2>1, <2>3, MoveGood
<1>5. CASE cmd[p].stage = "look" /\ UNCHANGED holder /\ cmd' = [cmd EXCEPT ![p].stage = "report", ![p].pc = "catalog"]
  <2>. DEFINE c == [cmd[p] EXCEPT !.stage = "report", !.pc = "catalog"]
  <2>1. cmd' = [cmd EXCEPT ![p] = c] /\ UNCHANGED <<client, browsers, holder>> /\ sessions' \in [Stores -> Ports \cup {None}]
    BY <1>0, <1>1, <1>5 DEF StoreInv, Surroundings
  <2>2. c \in Commands
    BY <1>0 DEF Commands, Places
  <2>3. Good(p, c, holder, client, browsers)
    BY <1>0, <1>1, <1>5, <2>2 DEF Good, Placed, Locked, Well, Under, Commands
  <2>. QED  BY <2>1, <2>3, MoveGood
<1>. QED  BY <1>2, <1>3, <1>4, <1>5 DEF ReconcileMap

LEMMA LockGood ==
  ASSUME StoreInv, NEW p \in Procs, Lock(p)
  PROVE  StoreInv'
<1>. USE StoresAssumption
<1>0. cmd[p] \in Commands /\ Good(p, cmd[p], holder, client, browsers) /\ sessions \in [Stores -> Ports \cup {None}]
  BY DEF StoreInv, Good, Surroundings
<1>1. /\ UNCHANGED <<client, browsers, sessions>> /\ cmd[p].pc = "waiting"
      /\ cmd[p].of \in Stores /\ holder' \in [Stores -> Procs \cup {None}] /\ holder'[cmd[p].of] = p
      /\ \A s \in Stores : holder'[s] = holder[s] \/ holder[s] = None
  BY <1>0 DEF Lock, Good, Placed, StoreInv, Surroundings
<1>2. CASE Go(p, IF cmd[p].kind = "exit" THEN "stop" ELSE "catalog")
  <2>. DEFINE c == [cmd[p] EXCEPT !.pc = IF cmd[p].kind = "exit" THEN "stop" ELSE "catalog"]
  <2>1. cmd' = [cmd EXCEPT ![p] = c]
    BY <1>0, <1>1, <1>2 DEF Go, StoreInv, Surroundings
  <2>2. c \in Commands
    <3>1. c.pc \in Places
      BY <1>0 DEF Commands, Places
    <3>. QED  BY <1>0, <3>1 DEF Commands
  <2>3. Good(p, c, holder', client', browsers')
    BY <1>0, <1>1, <1>2, <2>2 DEF Go, StoreInv, Surroundings, Good, Placed, Locked, Well, Under, Commands
  <2>4. Surroundings'
    BY <1>0, <1>1, <1>2, <2>1 DEF Go, StoreInv, Surroundings
  <2>. QED  BY <1>0, <1>1, <1>2, <2>1, <2>3, <2>4, OwnStep
<1>. QED  BY <1>2 DEF Lock

LEMMA LaunchClientGood ==
  ASSUME StoreInv, NEW p \in Procs, LaunchClient(p)
  PROVE  StoreInv'
<1>. USE StoresAssumption
<1>0. cmd[p] \in Commands /\ Good(p, cmd[p], holder, client, browsers) /\ sessions \in [Stores -> Ports \cup {None}]
  BY DEF StoreInv, Good, Surroundings
<1>1. /\ UNCHANGED <<browsers, holder, sessions>> /\ cmd[p].pc = "launch"
      /\ client' = IF client = "up" THEN "up" ELSE "starting"
  BY DEF LaunchClient
<1>2. CASE Go(p, "polling")
  <2>. DEFINE c == [cmd[p] EXCEPT !.pc = "polling"]
  <2>1. cmd' = [cmd EXCEPT ![p] = c]
    BY <1>0, <1>1, <1>2 DEF Go, StoreInv, Surroundings
  <2>2. c \in Commands
    BY <1>0 DEF Commands, Places
  <2>3. Good(p, c, holder', client', browsers')
    BY <1>0, <1>1, <1>2, <2>2 DEF Go, StoreInv, Surroundings, Good, Placed, Locked, Well, Under, Commands
  <2>4. Surroundings'
    BY <1>0, <1>1, <1>2, <2>1 DEF Go, StoreInv, Surroundings
  <2>. QED  BY <1>0, <1>1, <1>2, <2>1, <2>3, <2>4, OwnStep
<1>. QED  BY <1>2 DEF LaunchClient

LEMMA ReuseRecordGood ==
  ASSUME StoreInv, NEW p \in Procs, ReuseRecord(p)
  PROVE  StoreInv'
<1>. USE StoresAssumption
<1>0. cmd[p] \in Commands /\ Good(p, cmd[p], holder, client, browsers) /\ sessions \in [Stores -> Ports \cup {None}]
  BY DEF StoreInv, Good, Surroundings
<1>1. UNCHANGED <<client, browsers, holder, sessions>> /\ cmd[p].pc = "decide" /\ ~cmd[p].again /\ cmd[p].of \in Stores
  BY <1>0 DEF ReuseRecord, Reusable, Good, Placed, Locked
<1>2. CASE AttachAt(p, sessions[cmd[p].of])
  <2>. DEFINE c == [cmd[p] EXCEPT !.port = sessions[cmd[p].of], !.pc = "attach"]
  <2>1. cmd' = [cmd EXCEPT ![p] = c] /\ UNCHANGED <<client, browsers, holder>> /\ sessions' \in [Stores -> Ports \cup {None}]
    BY <1>0, <1>1, <1>2 DEF AttachAt, StoreInv, Surroundings
  <2>2. c \in Commands
    BY <1>0, <1>1 DEF Commands, Places
  <2>3. Good(p, c, holder, client, browsers)
    BY <1>0, <1>1, <1>2, <2>2 DEF AttachAt, Good, Placed, Locked, Well, Under, Commands
  <2>. QED  BY <2>1, <2>3, MoveGood
<1>. QED  BY <1>2 DEF ReuseRecord

LEMMA RecordFromRunningInfoGood ==
  ASSUME StoreInv, NEW p \in Procs, RecordFromRunningInfo(p)
  PROVE  StoreInv'
<1>. USE StoresAssumption
<1>0. cmd[p] \in Commands /\ Good(p, cmd[p], holder, client, browsers) /\ sessions \in [Stores -> Ports \cup {None}]
  BY DEF StoreInv, Good, Surroundings
<1>. DEFINE port == cmd[p].seen[cmd[p].of]
<1>1. /\ UNCHANGED <<client, browsers, holder>> /\ cmd[p].pc = "decide" /\ ~cmd[p].again /\ cmd[p].of \in Stores
      /\ port \in Ports \cup {None} /\ sessions' \in [Stores -> Ports \cup {None}]
  <2>1. cmd[p].of \in Stores /\ cmd[p].pc = "decide" /\ ~cmd[p].again
    BY <1>0 DEF RecordFromRunningInfo, Reusable, Good, Placed, Locked
  <2>2. port \in Ports \cup {None}
    BY <1>0, <2>1 DEF Commands
  <2>. QED  BY <1>0, <2>1, <2>2 DEF RecordFromRunningInfo, SaveRecord
<1>2. CASE AttachAt(p, port)
  <2>. DEFINE c == [cmd[p] EXCEPT !.port = port, !.pc = "attach"]
  <2>1. cmd' = [cmd EXCEPT ![p] = c] /\ UNCHANGED <<client, browsers, holder>> /\ sessions' \in [Stores -> Ports \cup {None}]
    BY <1>0, <1>1, <1>2 DEF AttachAt, StoreInv, Surroundings
  <2>2. c \in Commands
    BY <1>0, <1>1 DEF Commands, Places
  <2>3. Good(p, c, holder, client, browsers)
    BY <1>0, <1>1, <1>2, <2>2 DEF AttachAt, Good, Placed, Locked, Well, Under, Commands
  <2>. QED  BY <2>1, <2>3, MoveGood
<1>. QED  BY <1>2 DEF RecordFromRunningInfo

LEMMA StartNeededGood ==
  ASSUME StoreInv, NEW p \in Procs, StartNeeded(p)
  PROVE  StoreInv'
<1>. USE StoresAssumption
<1>0. cmd[p] \in Commands /\ Good(p, cmd[p], holder, client, browsers) /\ sessions \in [Stores -> Ports \cup {None}]
  BY DEF StoreInv, Good, Surroundings
<1>1. UNCHANGED <<client, browsers, holder, sessions>> /\ cmd[p].pc = "decide"
  BY DEF StartNeeded
<1>2. CASE Go(p, "start")
  <2>. DEFINE c == [cmd[p] EXCEPT !.pc = "start"]
  <2>1. cmd' = [cmd EXCEPT ![p] = c] /\ UNCHANGED <<client, browsers, holder>> /\ sessions' \in [Stores -> Ports \cup {None}]
    BY <1>0, <1>1, <1>2 DEF Go, StoreInv, Surroundings
  <2>2. c \in Commands
    BY <1>0 DEF Commands, Places
  <2>3. Good(p, c, holder, client, browsers)
    BY <1>0, <1>1, <1>2, <2>2 DEF Go, Good, Placed, Locked, Well, Under, Commands
  <2>. QED  BY <2>1, <2>3, MoveGood
<1>. QED  BY <1>2 DEF StartNeeded

LEMMA RecordFromStartGood ==
  ASSUME StoreInv, NEW p \in Procs, RecordFromStart(p)
  PROVE  StoreInv'
<1>. USE StoresAssumption
<1>0. cmd[p] \in Commands /\ Good(p, cmd[p], holder, client, browsers) /\ sessions \in [Stores -> Ports \cup {None}]
  BY DEF StoreInv, Good, Surroundings
<1>1. /\ UNCHANGED <<client, browsers>> /\ cmd[p].pc = "record" /\ Active(p) /\ cmd[p].of \in Stores
      /\ cmd[p].port \in Ports \cup {None}
  BY <1>0 DEF RecordFromStart, Active, Good, Placed, Commands
<1>2. CASE End(p, "failed", TRUE) /\ UNCHANGED sessions
  BY <1>0, <1>1, <1>2, EndGood
<1>3. CASE SaveRecord(cmd[p].of, cmd[p].port) /\ AttachAt(p, cmd[p].port) /\ UNCHANGED holder
  <2>. DEFINE c == [cmd[p] EXCEPT !.port = cmd[p].port, !.pc = "attach"]
  <2>1. cmd' = [cmd EXCEPT ![p] = c] /\ UNCHANGED <<client, browsers, holder>> /\ sessions' \in [Stores -> Ports \cup {None}]
    BY <1>0, <1>1, <1>3 DEF AttachAt, SaveRecord, StoreInv, Surroundings
  <2>2. c \in Commands
    BY <1>0 DEF Commands, Places
  <2>3. Good(p, c, holder, client, browsers)
    BY <1>0, <1>1, <1>3, <2>2 DEF AttachAt, SaveRecord, Good, Placed, Locked, Well, Under, Commands
  <2>. QED  BY <2>1, <2>3, MoveGood
<1>. QED  BY <1>2, <1>3 DEF RecordFromStart

LEMMA AttachGood ==
  ASSUME StoreInv, NEW p \in Procs, Attach(p)
  PROVE  StoreInv'
<1>. USE StoresAssumption
<1>0. cmd[p] \in Commands /\ Good(p, cmd[p], holder, client, browsers) /\ sessions \in [Stores -> Ports \cup {None}]
  BY DEF StoreInv, Good, Surroundings
<1>1. UNCHANGED <<client, browsers, holder, sessions>> /\ cmd[p].pc = "attach"
  BY DEF Attach
<1>2. PICK s \in Stores :
        cmd' = [cmd EXCEPT ![p].drives = s, ![p].disturbed = @ \/ s # cmd[p].of,
                           ![p].pc = IF cmd[p].kind = "open" THEN "check" ELSE "driving"]
  BY DEF Attach, BrowserAt
<1>3. CASE TRUE
  <2>. DEFINE c == [cmd[p] EXCEPT !.drives = s, !.disturbed = @ \/ s # cmd[p].of, !.pc = IF cmd[p].kind = "open" THEN "check" ELSE "driving"]
  <2>1. cmd' = [cmd EXCEPT ![p] = c] /\ UNCHANGED <<client, browsers, holder>> /\ sessions' \in [Stores -> Ports \cup {None}]
    BY <1>0, <1>1, <1>2, <1>3 DEF StoreInv, Surroundings
  <2>2. c \in Commands
    <3>1. c.pc \in Places /\ c.disturbed \in BOOLEAN
      BY <1>0 DEF Commands, Places
    <3>. QED  BY <1>0, <3>1 DEF Commands
  <2>3. Good(p, c, holder, client, browsers)
    BY <1>0, <1>1, <1>2, <1>3, <2>2 DEF Good, Placed, Locked, Well, Under, Commands
  <2>. QED  BY <2>1, <2>3, MoveGood
<1>. QED  BY <1>3

LEMMA AttachFailsGood ==
  ASSUME StoreInv, NEW p \in Procs, AttachFails(p)
  PROVE  StoreInv'
<1>. USE StoresAssumption
<1>0. cmd[p] \in Commands /\ Good(p, cmd[p], holder, client, browsers) /\ sessions \in [Stores -> Ports \cup {None}]
  BY DEF StoreInv, Good, Surroundings
<1>1. UNCHANGED <<client, browsers, sessions>> /\ cmd[p].pc = "attach" /\ Active(p) /\ cmd[p].of \in Stores
  BY <1>0 DEF AttachFails, Active, Good, Placed
<1>. DEFINE there == BrowserAt(cmd[p].port) # {}
<1>2. cmd[p].kind = "open" \/ cmd[p].again => there \/ cmd[p].disturbed \/ cmd[p].kind = "exit"
  BY <1>0, <1>1 DEF Good, Well, BrowserAt
<1>3. CASE cmd[p].again /\ End(p, "failed", there)
  BY <1>0, <1>1, <1>2, <1>3, EndGood
<1>4. CASE cmd[p].kind = "open" /\ GiveUp(p, there)
  <2>. DEFINE c == [cmd[p] EXCEPT !.pc = "stop", !.disturbed = @ \/ there]
  <2>1. cmd' = [cmd EXCEPT ![p] = c] /\ UNCHANGED <<client, browsers, holder>> /\ sessions' \in [Stores -> Ports \cup {None}]
    BY <1>0, <1>1, <1>2, <1>4 DEF GiveUp, StoreInv, Surroundings
  <2>2. c \in Commands
    <3>1. c.disturbed \in BOOLEAN
      BY <1>0 DEF Commands
    <3>. QED  BY ZenonT(60), <1>0, <3>1 DEF Commands, Places
  <2>3. Good(p, c, holder, client, browsers)
    BY ZenonT(60), <1>0, <1>1, <1>2, <1>4, <2>2 DEF GiveUp, Good, Placed, Locked, Well, Under, Commands
  <2>. QED  BY <2>1, <2>3, MoveGood
<1>5. CASE UNCHANGED holder /\ cmd' = [cmd EXCEPT ![p].again = TRUE, ![p].pc = "catalog"]
  <2>. DEFINE c == [cmd[p] EXCEPT !.again = TRUE, !.pc = "catalog"]
  <2>1. cmd' = [cmd EXCEPT ![p] = c] /\ UNCHANGED <<client, browsers, holder>> /\ sessions' \in [Stores -> Ports \cup {None}]
    BY <1>0, <1>1, <1>5 DEF StoreInv, Surroundings
  <2>2. c \in Commands
    BY <1>0 DEF Commands, Places
  <2>3. Good(p, c, holder, client, browsers)
    BY <1>0, <1>1, <1>5, <2>2 DEF Good, Placed, Locked, Well, Under, Commands
  <2>. QED  BY <2>1, <2>3, MoveGood
<1>. QED  BY <1>3, <1>4, <1>5 DEF AttachFails

LEMMA PageStepGood ==
  ASSUME StoreInv, NEW p \in Procs, PageStep(p)
  PROVE  StoreInv'
<1>. USE StoresAssumption
<1>0. cmd[p] \in Commands /\ Good(p, cmd[p], holder, client, browsers) /\ sessions \in [Stores -> Ports \cup {None}]
  BY DEF StoreInv, Good, Surroundings
<1>1. UNCHANGED <<client, browsers, sessions>> /\ cmd[p].pc = "driving" /\ Active(p)
  BY DEF PageStep, Active
<1>2. CASE End(p, "failed", TRUE)
  BY <1>0, <1>1, <1>2, EndGood
<1>3. CASE UNCHANGED holder /\ cmd' = [cmd EXCEPT ![p].left = @ - 1]
  <2>. DEFINE c == [cmd[p] EXCEPT !.left = @ - 1]
  <2>1. cmd' = [cmd EXCEPT ![p] = c] /\ UNCHANGED <<client, browsers, holder>> /\ sessions' \in [Stores -> Ports \cup {None}]
    BY <1>0, <1>1, <1>3 DEF StoreInv, Surroundings
  <2>2. c \in Commands
    BY <1>0 DEF Commands, Places
  <2>3. Good(p, c, holder, client, browsers)
    BY <1>0, <1>1, <1>3, <2>2 DEF Good, Placed, Locked, Well, Under, Commands
  <2>. QED  BY <2>1, <2>3, MoveGood
<1>. QED  BY <1>2, <1>3 DEF PageStep

LEMMA BrowserLostGood ==
  ASSUME StoreInv, NEW p \in Procs, BrowserLost(p)
  PROVE  StoreInv'
<1>. USE StoresAssumption
<1>0. cmd[p] \in Commands /\ Good(p, cmd[p], holder, client, browsers) /\ sessions \in [Stores -> Ports \cup {None}]
  BY DEF StoreInv, Good, Surroundings
<1>1. UNCHANGED <<client, browsers, sessions>> /\ cmd[p].pc = "driving" /\ Active(p) /\ End(p, "failed", FALSE)
  BY DEF BrowserLost, Active
<1>2. cmd[p].disturbed \/ cmd[p].kind = "exit"
  <2>1. cmd[p].of # None
    BY <1>0, <1>1 DEF Good, Placed
  <2>. QED  BY <1>0, <1>1, <2>1 DEF BrowserLost, Good, Well
<1>. QED  BY <1>0, <1>1, <1>2, EndGood

LEMMA DetachGood ==
  ASSUME StoreInv, NEW p \in Procs, Detach(p)
  PROVE  StoreInv'
<1>. USE StoresAssumption
<1>0. cmd[p] \in Commands /\ Good(p, cmd[p], holder, client, browsers) /\ sessions \in [Stores -> Ports \cup {None}]
  BY DEF StoreInv, Good, Surroundings
<1>1. UNCHANGED <<client, browsers, sessions>> /\ Active(p) /\ End(p, "done", FALSE)
  BY DEF Detach, Active
<1>. QED  BY <1>0, <1>1, EndGood

LEMMA CheckIpGood ==
  ASSUME StoreInv, NEW p \in Procs, CheckIp(p)
  PROVE  StoreInv'
<1>. USE StoresAssumption
<1>0. cmd[p] \in Commands /\ Good(p, cmd[p], holder, client, browsers) /\ sessions \in [Stores -> Ports \cup {None}]
  BY DEF StoreInv, Good, Surroundings
<1>1. UNCHANGED <<client, browsers, sessions>> /\ cmd[p].pc = "check" /\ Active(p)
  BY DEF CheckIp, Active
<1>2. cmd[p].drives = None => cmd[p].disturbed
  <2>1. cmd[p].of # None /\ cmd[p].kind = "open"
    BY <1>0, <1>1 DEF Good, Placed
  <2>. QED  BY <1>0, <1>1, <2>1 DEF Good, Well
<1>3. CASE /\ cmd' = [cmd EXCEPT ![p].drives = None, ![p].stage = "report", ![p].pc = "catalog"]
           /\ holder' = [s \in Stores |-> IF holder[s] = p THEN None ELSE holder[s]]
  <2>. DEFINE c == [cmd[p] EXCEPT !.drives = None, !.stage = "report", !.pc = "catalog"]
  <2>1. cmd' = [cmd EXCEPT ![p] = c]
    BY <1>0, <1>1, <1>3 DEF StoreInv, Surroundings
  <2>2. c \in Commands
    BY <1>0 DEF Commands, Places
  <2>3. Good(p, c, holder', client', browsers')
    BY <1>0, <1>1, <1>3, <2>2 DEF StoreInv, Surroundings, Good, Placed, Locked, Well, Under, Commands
  <2>4. Surroundings'
    BY <1>0, <1>1, <1>3, <2>1 DEF StoreInv, Surroundings
  <2>. QED  BY <1>0, <1>1, <1>3, <2>1, <2>3, <2>4, OwnStep
<1>4. CASE cmd[p].drives = None /\ GiveUp(p, FALSE)
  <2>. DEFINE c == [cmd[p] EXCEPT !.pc = "stop", !.disturbed = @ \/ FALSE]
  <2>1. cmd' = [cmd EXCEPT ![p] = c] /\ UNCHANGED <<client, browsers, holder>> /\ sessions' \in [Stores -> Ports \cup {None}]
    BY <1>0, <1>1, <1>2, <1>4 DEF GiveUp, StoreInv, Surroundings
  <2>2. c \in Commands
    <3>1. c.disturbed \in BOOLEAN
      BY <1>0 DEF Commands
    <3>. QED  BY ZenonT(60), <1>0, <3>1 DEF Commands, Places
  <2>3. Good(p, c, holder, client, browsers)
    BY <1>0, <1>1, <1>2, <1>4, <2>2 DEF GiveUp, Good, Placed, Locked, Well, Under, Commands
  <2>. QED  BY <2>1, <2>3, MoveGood
<1>5. CASE GiveUp(p, TRUE)
  <2>. DEFINE c == [cmd[p] EXCEPT !.pc = "stop", !.disturbed = @ \/ TRUE]
  <2>1. cmd' = [cmd EXCEPT ![p] = c] /\ UNCHANGED <<client, browsers, holder>> /\ sessions' \in [Stores -> Ports \cup {None}]
    BY <1>0, <1>1, <1>5 DEF GiveUp, StoreInv, Surroundings
  <2>2. c \in Commands
    <3>1. c.disturbed \in BOOLEAN
      BY <1>0 DEF Commands
    <3>. QED  BY <1>0, <3>1 DEF Commands, Places
  <2>3. Good(p, c, holder, client, browsers)
    BY <1>0, <1>1, <1>5, <2>2 DEF GiveUp, Good, Placed, Locked, Well, Under, Commands
  <2>. QED  BY <2>1, <2>3, MoveGood
<1>. QED  BY <1>3, <1>4, <1>5 DEF CheckIp, Unlock

LEMMA DeleteRecordGood ==
  ASSUME StoreInv, NEW p \in Procs, DeleteRecord(p)
  PROVE  StoreInv'
<1>. USE StoresAssumption
<1>0. cmd[p] \in Commands /\ Good(p, cmd[p], holder, client, browsers) /\ sessions \in [Stores -> Ports \cup {None}]
  BY DEF StoreInv, Good, Surroundings
<1>1. /\ UNCHANGED <<client, browsers>> /\ cmd[p].pc = "forget" /\ Active(p)
      /\ sessions' \in [Stores -> Ports \cup {None}]
      /\ cmd[p].disturbed \/ cmd[p].kind = "exit"
  BY <1>0 DEF DeleteRecord, Active, Good, Well
<1>2. CASE End(p, "failed", FALSE)
  BY <1>0, <1>1, <1>2, EndGood
<1>3. CASE /\ cmd[p].kind = "exit" /\ cmd' = [cmd EXCEPT ![p].stage = "look", ![p].pc = "catalog"]
           /\ holder' = [s \in Stores |-> IF holder[s] = p THEN None ELSE holder[s]]
  <2>. DEFINE c == [cmd[p] EXCEPT !.stage = "look", !.pc = "catalog"]
  <2>1. cmd' = [cmd EXCEPT ![p] = c]
    BY <1>0, <1>1, <1>3 DEF StoreInv, Surroundings
  <2>2. c \in Commands
    BY <1>0 DEF Commands, Places
  <2>3. Good(p, c, holder', client', browsers')
    BY <1>0, <1>1, <1>3, <2>2 DEF StoreInv, Surroundings, Good, Placed, Locked, Well, Under, Commands
  <2>4. Surroundings'
    BY <1>0, <1>1, <1>3, <2>1 DEF StoreInv, Surroundings
  <2>. QED  BY <1>0, <1>1, <1>3, <2>1, <2>3, <2>4, OwnStep
<1>4. cmd[p].kind \in {"open", "exit"}
  BY <1>0, <1>1 DEF Good, Placed
<1>. QED  BY <1>2, <1>3, <1>4 DEF DeleteRecord, Unlock

LEMMA ClearMapGood ==
  ASSUME StoreInv, NEW p \in Procs, ClearMap(p)
  PROVE  StoreInv'
<1>. USE StoresAssumption
<1>0. cmd[p] \in Commands /\ Good(p, cmd[p], holder, client, browsers) /\ sessions \in [Stores -> Ports \cup {None}]
  BY DEF StoreInv, Good, Surroundings
<1>1. UNCHANGED <<client, browsers, holder>> /\ cmd[p].pc = "clear" /\ sessions' \in [Stores -> Ports \cup {None}] /\ cmd[p].kind = "exit"
  BY <1>0 DEF ClearMap, Good, Placed
<1>2. CASE cmd' = [cmd EXCEPT ![p].stage = "report", ![p].pc = "catalog"]
  <2>. DEFINE c == [cmd[p] EXCEPT !.stage = "report", !.pc = "catalog"]
  <2>1. cmd' = [cmd EXCEPT ![p] = c] /\ UNCHANGED <<client, browsers, holder>> /\ sessions' \in [Stores -> Ports \cup {None}]
    BY <1>0, <1>1, <1>2 DEF StoreInv, Surroundings
  <2>2. c \in Commands
    BY <1>0 DEF Commands, Places
  <2>3. Good(p, c, holder, client, browsers)
    BY <1>0, <1>1, <1>2, <2>2 DEF Good, Placed, Locked, Well, Under, Commands
  <2>. QED  BY <2>1, <2>3, MoveGood
<1>. QED  BY <1>2 DEF ClearMap

(* Steps that touch browsers.  One that ends the client meets every other command. *)
LEMMA ClientEnds ==
  ASSUME StoreInv, NEW p \in Procs, NEW pc, Close(p, Stores, pc), client' \in {"down", "starting", "up"},
         UNCHANGED <<sessions, holder>>, Good(p, cmd'[p], holder', client', browsers')
  PROVE  StoreInv'
<1>1. Surroundings'
  BY DEF StoreInv, Surroundings, Close
<1>2. ASSUME NEW q \in Procs \ {p} PROVE Good(q, cmd'[q], holder', client', browsers')
  BY <1>2, AllClosed
<1>. QED  BY <1>1, <1>2 DEF StoreInv

LEMMA PrepareClientStartupGood ==
  ASSUME StoreInv, NEW p \in Procs, PrepareClientStartup(p)
  PROVE  StoreInv'
<1>. USE StoresAssumption
<1>0. cmd[p] \in Commands /\ Good(p, cmd[p], holder, client, browsers) /\ sessions \in [Stores -> Ports \cup {None}]
  BY DEF StoreInv, Good, Surroundings
<1>1. UNCHANGED sessions /\ cmd[p].pc = "kill" /\ Active(p)
  BY DEF PrepareClientStartup, Active
<1>2. CASE End(p, "failed", TRUE) /\ UNCHANGED <<client, browsers>>
  BY <1>0, <1>1, <1>2, EndGood
<1>3. CASE client' = "down" /\ Close(p, Stores, "launch") /\ UNCHANGED holder
  <2>. DEFINE c == [cmd[p] EXCEPT !.pc = "launch", !.drives = IF @ \in Stores THEN None ELSE @, !.disturbed = @ \/ FALSE]
  <2>1. cmd'[p] = c
    BY <1>0, <1>3 DEF Close
  <2>2. c \in Commands /\ c.pc = "launch" /\ c.disturbed = cmd[p].disturbed
    <3>1. c.disturbed \in BOOLEAN /\ c.drives \in Stores \cup {None}
      BY <1>0 DEF Commands
    <3>. QED  BY ZenonT(60), <1>0, <3>1 DEF Commands, Places
  <2>3. Good(p, c, holder', client', browsers')
    BY <1>0, <1>1, <1>3, <2>2 DEF Good, Placed, Locked, Well, Under, Commands
  <2>. QED  BY <1>1, <1>3, <2>1, <2>3, ClientEnds
<1>. QED  BY <1>2, <1>3 DEF PrepareClientStartup

LEMMA CloseClientGood ==
  ASSUME StoreInv, NEW p \in Procs, CloseClient(p)
  PROVE  StoreInv'
<1>. USE StoresAssumption
<1>0. cmd[p] \in Commands /\ Good(p, cmd[p], holder, client, browsers) /\ sessions \in [Stores -> Ports \cup {None}]
  BY DEF StoreInv, Good, Surroundings
<1>1. UNCHANGED <<sessions, holder>> /\ cmd[p].pc = "close" /\ cmd[p].kind = "exit"
  BY <1>0 DEF CloseClient, Good, Placed
<1>2. CASE client' = "down" /\ Close(p, Stores, "clear")
  <2>. DEFINE c == [cmd[p] EXCEPT !.pc = "clear", !.drives = IF @ \in Stores THEN None ELSE @, !.disturbed = @ \/ FALSE]
  <2>1. cmd'[p] = c
    BY <1>0, <1>2 DEF Close
  <2>2. c \in Commands /\ c.pc = "clear" /\ c.disturbed = cmd[p].disturbed
    <3>1. c.disturbed \in BOOLEAN /\ c.drives \in Stores \cup {None}
      BY <1>0 DEF Commands
    <3>. QED  BY ZenonT(60), <1>0, <3>1 DEF Commands, Places
  <2>3. Good(p, c, holder', client', browsers')
    BY <1>0, <1>1, <1>2, <2>2 DEF Good, Placed, Locked, Well, Under, Commands
  <2>. QED  BY <1>1, <1>2, <2>1, <2>3, ClientEnds
<1>3. CASE UNCHANGED <<client, browsers>> /\ cmd' = [cmd EXCEPT ![p].ready = FALSE, ![p].pc = "clear"]
  <2>. DEFINE c == [cmd[p] EXCEPT !.ready = FALSE, !.pc = "clear"]
  <2>1. cmd' = [cmd EXCEPT ![p] = c] /\ UNCHANGED <<client, browsers, holder>> /\ sessions' \in [Stores -> Ports \cup {None}]
    BY <1>0, <1>1, <1>3 DEF StoreInv, Surroundings
  <2>2. c \in Commands
    BY <1>0 DEF Commands, Places
  <2>3. Good(p, c, holder, client, browsers)
    BY <1>0, <1>1, <1>3, <2>2 DEF Good, Placed, Locked, Well, Under, Commands
  <2>. QED  BY <2>1, <2>3, MoveGood
<1>. QED  BY <1>2, <1>3 DEF CloseClient

LEMMA StopBrowserGood ==
  ASSUME StoreInv, NEW p \in Procs, StopBrowser(p)
  PROVE  StoreInv'
<1>. USE StoresAssumption
<1>0. cmd[p] \in Commands /\ Good(p, cmd[p], holder, client, browsers) /\ sessions \in [Stores -> Ports \cup {None}]
  BY DEF StoreInv, Good, Surroundings
<1>1. /\ UNCHANGED <<client, sessions, holder>> /\ cmd[p].pc = "stop" /\ cmd[p].of \in Stores
      /\ holder[cmd[p].of] = p /\ (cmd[p].disturbed \/ cmd[p].kind = "exit") /\ cmd[p].kind \in {"open", "exit"}
  BY <1>0 DEF StopBrowser, Good, Placed, Locked, Well
<1>2. CASE Close(p, {cmd[p].of}, "forget")
  <2>. DEFINE c == [cmd[p] EXCEPT !.pc = "forget", !.drives = IF @ \in {cmd[p].of} THEN None ELSE @, !.disturbed = @ \/ FALSE]
  <2>1. cmd'[p] = c
    BY <1>0, <1>2 DEF Close
  <2>2. c \in Commands /\ c.pc = "forget" /\ c.disturbed = cmd[p].disturbed
    <3>1. c.disturbed \in BOOLEAN /\ c.drives \in Stores \cup {None}
      BY <1>0 DEF Commands
    <3>. QED  BY ZenonT(60), <1>0, <3>1 DEF Commands, Places
  <2>3. Good(p, c, holder', client', browsers')
    BY <1>0, <1>1, <1>2, <2>2 DEF Good, Placed, Locked, Well, Under, Commands
  <2>4. Surroundings'
    BY <1>1, <1>2 DEF StoreInv, Surroundings, Close
  <2>5. ASSUME NEW q \in Procs \ {p} PROVE Good(q, cmd'[q], holder', client', browsers')
    <3>. DEFINE met == q # p /\ Active(q) /\ ({cmd[p].of} = Stores \/ p = None)
    <3>1. cmd'[q] = [cmd[q] EXCEPT !.drives = IF @ = cmd[p].of /\ TRUE THEN None ELSE @, !.disturbed = @ \/ met]
      BY <1>2, <2>5 DEF Close
    <3>2. \A s \in Stores \ {cmd[p].of} : browsers'[s] = browsers[s]
      BY <1>2 DEF Close
    <3>3. met \in BOOLEAN
      OBVIOUS
    <3>. HIDE DEF met
    <3>. QED  BY <1>1, <3>1, <3>2, <3>3, OneTouched
  <2>. QED  BY <2>1, <2>3, <2>4, <2>5 DEF StoreInv
<1>3. CASE UNCHANGED browsers /\ cmd' = [cmd EXCEPT ![p].ready = FALSE, ![p].drives = None, ![p].pc = "forget"]
  <2>. DEFINE c == [cmd[p] EXCEPT !.ready = FALSE, !.drives = None, !.pc = "forget"]
  <2>1. cmd' = [cmd EXCEPT ![p] = c] /\ UNCHANGED <<client, browsers, holder>> /\ sessions' \in [Stores -> Ports \cup {None}]
    BY <1>0, <1>1, <1>3 DEF StoreInv, Surroundings
  <2>2. c \in Commands
    BY <1>0 DEF Commands, Places
  <2>3. Good(p, c, holder, client, browsers)
    BY <1>0, <1>1, <1>3, <2>2 DEF Good, Placed, Locked, Well, Under, Commands
  <2>. QED  BY <2>1, <2>3, MoveGood
<1>. QED  BY <1>2, <1>3 DEF StopBrowser

LEMMA StartBrowserGood ==
  ASSUME StoreInv, NEW p \in Procs, StartBrowser(p)
  PROVE  StoreInv'
<1>. USE StoresAssumption
<1>0. cmd[p] \in Commands /\ Good(p, cmd[p], holder, client, browsers) /\ sessions \in [Stores -> Ports \cup {None}]
  BY DEF StoreInv, Good, Surroundings
<1>1. /\ UNCHANGED <<client, sessions>> /\ cmd[p].pc = "start" /\ Active(p) /\ cmd[p].of \in Stores /\ holder[cmd[p].of] = p
  BY <1>0 DEF StartBrowser, Active, Good, Placed, Locked
<1>2. CASE End(p, "failed", client = "up") /\ UNCHANGED browsers
  <2>1. client = "up" \/ cmd[p].disturbed \/ cmd[p].kind = "exit"
    BY <1>0, <1>1 DEF Good, Well, Under
  <2>. QED  BY <1>0, <1>1, <1>2, <2>1, EndGood
<1>3. ASSUME NEW port \in Ports, UNCHANGED holder,
             browsers' = [browsers EXCEPT ![cmd[p].of] = port],
             cmd' = [q \in Procs |->
                  [cmd[q] EXCEPT !.pc = IF q = p THEN "record" ELSE @,
                                 !.port = IF q = p THEN port ELSE @,
                                 !.drives = IF @ = cmd[p].of /\ port # browsers[cmd[p].of] THEN None ELSE @]]
      PROVE  StoreInv'
  <2>. DEFINE gone == port # browsers[cmd[p].of]
              c == [cmd[p] EXCEPT !.pc = "record", !.port = port,
                                  !.drives = IF @ = cmd[p].of /\ gone THEN None ELSE @]
  <2>1. cmd'[p] = c
    BY <1>3
  <2>2. c \in Commands /\ c.pc = "record" /\ c.port = port
    <3>1. c.drives \in Stores \cup {None}
      BY <1>0 DEF Commands
    <3>. QED  BY ZenonT(60), <1>0, <3>1 DEF Commands, Places
  <2>3. browsers \in [Stores -> Ports \cup {None}]
    BY DEF StoreInv, Surroundings
  <2>4. browsers'[cmd[p].of] = port
    BY <1>1, <1>3, <2>3
  <2>5. Good(p, c, holder', client', browsers')
    BY ZenonT(60), <1>0, <1>1, <1>3, <2>2, <2>4 DEF Good, Placed, Locked, Well, Under, Commands
  <2>6. Surroundings'
    BY <1>1, <1>3 DEF StoreInv, Surroundings
  <2>7. ASSUME NEW q \in Procs \ {p} PROVE Good(q, cmd'[q], holder', client', browsers')
    <3>1. cmd'[q] = [cmd[q] EXCEPT !.drives = IF @ = cmd[p].of /\ gone THEN None ELSE @, !.disturbed = @ \/ FALSE]
      <4>1. cmd[q] \in Commands
        BY DEF StoreInv, Good
      <4>. QED  BY <1>3, <2>7, <4>1 DEF Commands
    <3>2. \A s \in Stores \ {cmd[p].of} : browsers'[s] = browsers[s]
      BY <1>3, <2>3
    <3>3. gone \in BOOLEAN
      OBVIOUS
    <3>. HIDE DEF gone
    <3>. QED  BY <1>1, <1>3, <3>1, <3>2, <3>3, OneTouched
  <2>. QED  BY <2>1, <2>5, <2>6, <2>7 DEF StoreInv
<1>. QED  BY <1>2, <1>3 DEF StartBrowser

(***************************************************************************)
(* What happens around the commands, and the theorem.                      *)
(***************************************************************************)
LEMMA EnvironmentGood ==
  ASSUME StoreInv, ClientComesUp \/ ClientStops \/ BrowserCloses
  PROVE  StoreInv'
<1>. USE StoresAssumption
<1>1. CASE ClientComesUp
  <2>1. UNCHANGED <<browsers, sessions, holder, cmd>> /\ client' = "up"
    BY <1>1 DEF ClientComesUp
  <2>2. ASSUME NEW q \in Procs PROVE Good(q, cmd'[q], holder', client', browsers')
    <3>1. Good(q, cmd[q], holder, client, browsers)
      BY DEF StoreInv
    <3>. QED  BY <2>1, <3>1, LeftAlone
  <2>. QED  BY <2>1, <2>2 DEF StoreInv, Surroundings
<1>2. CASE ClientStops
  <2>1. Close(None, Stores, "idle") /\ client' = "down" /\ UNCHANGED <<sessions, holder>>
    BY <1>2 DEF ClientStops
  <2>2. ASSUME NEW q \in Procs PROVE Good(q, cmd'[q], holder', client', browsers')
    BY <2>1, AllClosed
  <2>3. Surroundings'
    BY <2>1 DEF StoreInv, Surroundings, Close
  <2>. QED  BY <2>2, <2>3 DEF StoreInv
<1>3. CASE BrowserCloses
  <2>1. PICK s \in Stores : Close(None, {s}, "idle")
    BY <1>3 DEF BrowserCloses
  <2>2. UNCHANGED <<client, sessions, holder>>
    BY <1>3 DEF BrowserCloses
  <2>3. ASSUME NEW q \in Procs PROVE Good(q, cmd'[q], holder', client', browsers')
    <3>. DEFINE met == q # None /\ Active(q) /\ ({s} = Stores \/ None = None)
    <3>1. cmd'[q] = [cmd[q] EXCEPT !.drives = IF @ = s /\ TRUE THEN None ELSE @, !.disturbed = @ \/ met]
      <4>1. cmd[q] \in Commands
        BY DEF StoreInv, Good
      <4>. QED  BY <2>1, <4>1 DEF Close, Commands
    <3>2. \A t \in Stores \ {s} : browsers'[t] = browsers[t]
      BY <2>1 DEF Close
    <3>3. met \in BOOLEAN /\ (Under(cmd[q]) => met)
      BY DEF Active, Under
    <3>. HIDE DEF met
    <3>. QED  BY <2>2, <3>1, <3>2, <3>3, OneTouched
  <2>4. Surroundings'
    BY <2>1, <2>2 DEF StoreInv, Surroundings, Close
  <2>. QED  BY <2>3, <2>4 DEF StoreInv
<1>. QED  BY <1>1, <1>2, <1>3

LEMMA CommandGood ==
  ASSUME StoreInv, NEW p \in Procs, CommandStep(p)
  PROVE  StoreInv'
BY LockGood, LockTimeoutGood, BrowserCatalogGood, PrepareClientStartupGood, LaunchClientGood, PollClientGood,
   ClientDeadlineGood, RunningInfoGood, ReconcileMapGood, ReuseRecordGood, RecordFromRunningInfoGood,
   StartNeededGood, StartBrowserGood, RecordFromStartGood, AttachGood, AttachFailsGood, PageStepGood,
   BrowserLostGood, DetachGood, CheckIpGood, StopBrowserGood, DeleteRecordGood, CloseClientGood, ClearMapGood
   DEF CommandStep

LEMMA StepGood == StoreInv /\ [Next]_vars => StoreInv'
<1>. SUFFICES ASSUME StoreInv, [Next]_vars PROVE StoreInv'
  OBVIOUS
<1>1. CASE UNCHANGED vars
  <2>1. ASSUME NEW q \in Procs PROVE Good(q, cmd'[q], holder', client', browsers')
    BY <1>1, LeftAlone DEF vars, StoreInv
  <2>. QED  BY <1>1, <2>1 DEF vars, StoreInv, Surroundings
<1>2. ASSUME NEW p \in Procs, ProcessKilled(p) PROVE StoreInv'
  <2>1. Active(p) /\ End(p, "failed", TRUE) /\ UNCHANGED <<client, browsers, sessions>>
    BY <1>2 DEF ProcessKilled
  <2>. QED  BY <2>1, EndGood DEF StoreInv, Surroundings
<1>. QED  BY <1>1, <1>2, StartGood, CommandGood, EnvironmentGood DEF Next

(* The inductive invariant: locks are held by the commands that need them, and what an undisturbed
   command has found or started is still there (store_driver_session, ensure_store_session). *)
THEOREM BrowsersCorrect == Spec => []StoreInv
BY InitGood, StepGood, PTL DEF Spec

(* A page, open or status command fails only when a fault, a wait that was too long or another
   command's end of the client met it (store_driver_session, open_client). *)
THEOREM OnlyDisturbedCommandsFail == Spec => []UndisturbedCommandsSucceed
<1>1. StoreInv => UndisturbedCommandsSucceed
  BY DEF StoreInv, Good, Well, UndisturbedCommandsSucceed
<1>. QED  BY <1>1, BrowsersCorrect, PTL

(* Two commands are never past the lock of one store (store_lock). *)
THEOREM StoresAreLocked == Spec => []StoreIsLocked
<1>1. StoreInv => StoreIsLocked
  BY DEF StoreInv, Good, StoreIsLocked
<1>. QED  BY <1>1, BrowsersCorrect, PTL

=============================================================================
