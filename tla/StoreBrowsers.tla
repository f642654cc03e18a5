---------------------------- MODULE StoreBrowsers ----------------------------
(***************************************************************************)
(* Commands that use the browsers of stores, each in a process of its own: *)
(*                                                                         *)
(*   page    attaches to a store's browser, starting it when needed, and   *)
(*           performs its steps (store_driver_session; the stages of a     *)
(*           shipment are such commands too)                               *)
(*   open    starts a store's browser anew and checks it                   *)
(*   exit    stops a store's browser, and the client with the last one     *)
(*   status  lists the running stores                                      *)
(*                                                                         *)
(* One lock per store keeps two commands off one browser, but all browsers *)
(* belong to one client, which any command may start anew when it does not *)
(* answer.  The client is modelled from how the commands use it: it may be *)
(* down, leave a request unanswered, and lose a browser; faults are        *)
(* bounded by MaxFaults.                                                   *)
(***************************************************************************)
EXTENDS Integers, FiniteSets

CONSTANTS
  Procs, Stores, Ports, None,
  Catalog,      \* the stores the client knows
  Does,         \* p -> the commands <<kind, store>> it may run
  Steps,        \* the steps of a page command
  MaxFaults     \* how many faults happen

ASSUME StoresAssumption ==
  /\ Catalog \subseteq Stores
  /\ None \notin Stores \cup Ports \cup Procs
  /\ Steps \in Nat /\ MaxFaults \in Nat
  /\ \A p \in Procs : Does[p] \subseteq ({"page", "open", "exit"} \X Stores) \cup {<<"status", None>>}

VARIABLES
  client,       \* "down", "starting" or "up"
  browsers,     \* store -> the debugging port of its browser, or None
  sessions,     \* store -> the port in its saved record, or None
  holder,       \* store -> the process that has its lock, or None
  cmd,          \* p -> its command (Command)
  faults

vars == <<client, browsers, sessions, holder, cmd, faults>>

(* seen: the running browsers it was told of; port: where it attaches; drives: the store   *)
(* whose browser it is attached to; disturbed: a fault, a lock or a start of the client    *)
(* that took too long, or another process's end of the client has met it.                  *)
Idle ==
  [kind |-> "none", of |-> None, stage |-> "own", pc |-> "idle", ready |-> FALSE,
   seen |-> [s \in Stores |-> None], port |-> None, again |-> FALSE, drives |-> None,
   left |-> 0, disturbed |-> FALSE]

TypeOK ==
  /\ client \in {"down", "starting", "up"}
  /\ browsers \in [Stores -> Ports \cup {None}]
  /\ sessions \in [Stores -> Ports \cup {None}]
  /\ holder \in [Stores -> Procs \cup {None}]
  /\ \A p \in Procs : cmd[p].drives \in Stores \cup {None} /\ cmd[p].port \in Ports \cup {None}

(* Whatever was there before: records of browsers that are gone, browsers without a record, *)
(* a record whose browser has moved to another port.                                        *)
Init ==
  /\ client \in {"down", "up"}
  /\ browsers \in [Stores -> Ports \cup {None}]
  /\ \A s, t \in Stores : browsers[s] = browsers[t] /\ browsers[s] # None => s = t
  /\ client = "down" => \A s \in Stores : browsers[s] = None
  /\ sessions \in [Stores -> Ports \cup {None}]
  /\ holder = [s \in Stores |-> None]
  /\ cmd = [p \in Procs |-> Idle]
  /\ faults = 0

Active(p) == cmd[p].pc \notin {"idle", "done", "failed"}

(***************************************************************************)
(* Where a command goes.                                                   *)
(***************************************************************************)
Go(p, pc) == cmd' = [cmd EXCEPT ![p].pc = pc]

Unlock(p) == holder' = [s \in Stores |-> IF holder[s] = p THEN None ELSE holder[s]]

(* A command ends and detaches; met: what ended it was a fault or a wait that was too long. *)
End(p, outcome, met) ==
  /\ cmd' = [cmd EXCEPT ![p].pc = outcome, ![p].drives = None, ![p].disturbed = @ \/ met]
  /\ Unlock(p)

(* The browsers of some stores close: who is attached to them has lost them.  When all      *)
(* close, with the client, every other command is disturbed.                                *)
Close(p, closed, pc) ==
  /\ browsers' = [s \in Stores |-> IF s \in closed THEN None ELSE browsers[s]]
  /\ cmd' = [q \in Procs |->
       [cmd[q] EXCEPT !.pc = IF q = p THEN pc ELSE @,
                      !.drives = IF @ \in closed THEN None ELSE @,
                      !.disturbed = @ \/ (q # p /\ Active(q) /\ (closed = Stores \/ p = None))]]

(* A request of the client: it is answered, or the client is down, or, though it is up, a
   fault loses the request. *)
Answered == client = "up" /\ UNCHANGED faults

Unanswered ==
  \/ client # "up" /\ UNCHANGED faults
  \/ client = "up" /\ faults < MaxFaults /\ faults' = faults + 1

Fault == faults < MaxFaults /\ faults' = faults + 1

(***************************************************************************)
(* The lock of a store.                                                    *)
(***************************************************************************)
Start(p) ==
  /\ cmd[p].pc = "idle"
  /\ \E d \in Does[p] :
       cmd' = [cmd EXCEPT ![p].kind = d[1], ![p].of = d[2], ![p].left = Steps,
                          ![p].pc = IF d[1] = "status" THEN "catalog" ELSE "waiting",
                          ![p].stage = IF d[1] = "status" THEN "report" ELSE "own"]
  /\ UNCHANGED <<client, browsers, sessions, holder, faults>>

Lock(p) ==
  /\ cmd[p].pc = "waiting"
  /\ holder[cmd[p].of] = None
  /\ holder' = [holder EXCEPT ![cmd[p].of] = p]
  /\ Go(p, IF cmd[p].kind = "exit" THEN "stop" ELSE "catalog")
  /\ UNCHANGED <<client, browsers, sessions, faults>>

(* The other command may hold the lock for longer than the lock is waited for. *)
LockTimeout(p) ==
  /\ cmd[p].pc = "waiting"
  /\ holder[cmd[p].of] # None
  /\ End(p, "failed", TRUE)
  /\ UNCHANGED <<client, browsers, sessions, faults>>

(***************************************************************************)
(* Asking the client, and starting it (open_client).                       *)
(***************************************************************************)

(* What comes after the catalog: open starts the store, the others ask what is running. *)
AfterCatalog(p) ==
  IF cmd[p].stage = "own" /\ cmd[p].of \notin Catalog THEN End(p, "failed", TRUE)
  ELSE /\ cmd' = [cmd EXCEPT ![p].ready = TRUE,
                             ![p].pc = IF @ = "catalog" /\ cmd[p].kind = "open" /\ cmd[p].stage = "own"
                                       THEN "start" ELSE "running"]
       /\ UNCHANGED holder

(* A client that has answered this command once is not looked for again: when it does not  *)
(* answer now, the command fails.  A client that has never answered it is started anew.    *)
BrowserCatalog(p) ==
  /\ cmd[p].pc = "catalog"
  /\ \/ Answered /\ AfterCatalog(p)
     \/ Unanswered /\ IF cmd[p].ready THEN End(p, "failed", client = "up") ELSE Go(p, "kill") /\ UNCHANGED holder
  /\ UNCHANGED <<client, browsers, sessions>>

(* Every process of the client is killed, and every browser with it, whoever uses it. *)
PrepareClientStartup(p) ==
  /\ cmd[p].pc = "kill"
  /\ \/ client' = "down" /\ Close(p, Stores, "launch") /\ UNCHANGED <<holder, faults>>
     \/ Fault /\ End(p, "failed", TRUE) /\ UNCHANGED <<client, browsers>>   \* the drivers cannot be fetched
  /\ UNCHANGED sessions

LaunchClient(p) ==
  /\ cmd[p].pc = "launch"
  /\ client' = IF client = "up" THEN "up" ELSE "starting"
  /\ Go(p, "polling")
  /\ UNCHANGED <<browsers, sessions, holder, faults>>

PollClient(p) ==
  /\ cmd[p].pc = "polling"
  /\ client = "up"
  /\ cmd' = [cmd EXCEPT ![p].ready = TRUE, ![p].pc = "catalog"]
  /\ UNCHANGED <<client, browsers, sessions, holder, faults>>

(* Mutant: the client is waited for without a deadline. *)
ClientDeadlineNever(p) == FALSE /\ UNCHANGED <<vars, p>>

(* The client does not answer within 20 seconds. *)
ClientDeadline(p) ==
  /\ cmd[p].pc = "polling"
  /\ client # "up"
  /\ End(p, "failed", TRUE)
  /\ UNCHANGED <<client, browsers, sessions, faults>>

RunningInfo(p) ==
  /\ cmd[p].pc = "running"
  /\ \/ /\ Answered
        /\ cmd' = [cmd EXCEPT ![p].seen = browsers, ![p].pc = "reconcile"]
        /\ UNCHANGED holder
     \/ Unanswered /\ End(p, "failed", client = "up")
  /\ UNCHANGED <<client, browsers, sessions>>

(* Every record, of any store, whose store was not running then is deleted now; then an     *)
(* exit closes the client when it saw no store running, and a report is made.               *)
ReconcileMap(p) ==
  /\ cmd[p].pc = "reconcile"
  /\ sessions' = [s \in Stores |-> IF cmd[p].seen[s] = None THEN None ELSE sessions[s]]
  /\ LET stage == cmd[p].stage
         nothing == \A s \in Stores : cmd[p].seen[s] = None
     IN \/ stage = "own" /\ Go(p, "decide") /\ UNCHANGED holder
        \/ stage = "report" /\ End(p, "done", FALSE)
        \/ stage = "look" /\ nothing /\ Go(p, "close") /\ UNCHANGED holder
        \/ stage = "look" /\ ~nothing /\ UNCHANGED holder
           /\ cmd' = [cmd EXCEPT ![p].stage = "report", ![p].pc = "catalog"]
  /\ UNCHANGED <<client, browsers, faults>>

(***************************************************************************)
(* The session of a store (ensure_store_session).                          *)
(***************************************************************************)
Reusable(p) == ~cmd[p].again /\ cmd[p].seen[cmd[p].of] # None

AttachAt(p, port) ==
  cmd' = [cmd EXCEPT ![p].port = port, ![p].pc = "attach"]

SaveRecord(store, port) == sessions' = [sessions EXCEPT ![store] = port]

(* A record is used as it is, without a look at the port the browser has now. *)
ReuseRecord(p) ==
  /\ cmd[p].pc = "decide" /\ Reusable(p) /\ sessions[cmd[p].of] # None
  /\ AttachAt(p, sessions[cmd[p].of])
  /\ UNCHANGED <<client, browsers, sessions, holder, faults>>

RecordFromRunningInfo(p) ==
  /\ cmd[p].pc = "decide" /\ Reusable(p) /\ sessions[cmd[p].of] = None
  /\ SaveRecord(cmd[p].of, cmd[p].seen[cmd[p].of])
  /\ AttachAt(p, cmd[p].seen[cmd[p].of])
  /\ UNCHANGED <<client, browsers, holder, faults>>

(* Nothing to use, or the running browser's particulars are not complete. *)
StartNeeded(p) ==
  /\ cmd[p].pc = "decide"
  /\ ~Reusable(p) \/ sessions[cmd[p].of] = None
  /\ Go(p, "start")
  /\ UNCHANGED <<client, browsers, sessions, holder, faults>>

(* startBrowser: the store's browser, started or started anew, on a port no other has. *)
StartBrowser(p) ==
  /\ cmd[p].pc = "start"
  /\ \/ /\ Answered
        /\ \E port \in Ports \ {browsers[s] : s \in Stores \ {cmd[p].of}} :
             /\ browsers' = [browsers EXCEPT ![cmd[p].of] = port]
             /\ cmd' = [q \in Procs |->
                  [cmd[q] EXCEPT !.pc = IF q = p THEN "record" ELSE @,
                                 !.port = IF q = p THEN port ELSE @,
                                 !.drives = IF @ = cmd[p].of /\ port # browsers[cmd[p].of] THEN None ELSE @]]
        /\ UNCHANGED holder
     \/ Unanswered /\ End(p, "failed", client = "up") /\ UNCHANGED browsers
  /\ UNCHANGED <<client, sessions>>

(* The record is saved when the answer is complete. *)
RecordFromStart(p) ==
  /\ cmd[p].pc = "record"
  /\ \/ /\ SaveRecord(cmd[p].of, cmd[p].port)
        /\ AttachAt(p, cmd[p].port)
        /\ UNCHANGED <<holder, faults>>
     \/ Fault /\ End(p, "failed", TRUE) /\ UNCHANGED sessions
  /\ UNCHANGED <<client, browsers>>

(***************************************************************************)
(* Attaching to the browser, and using it.                                 *)
(***************************************************************************)
BrowserAt(port) == {s \in Stores : browsers[s] = port}

(* Whatever browser is on the port is attached to: an old record may lead to another        *)
(* store's, which counts as a disturbance here.                                             *)
Attach(p) ==
  /\ cmd[p].pc = "attach"
  /\ \E s \in BrowserAt(cmd[p].port) :
       cmd' = [cmd EXCEPT ![p].drives = s,
                          ![p].disturbed = @ \/ s # cmd[p].of,
                          ![p].pc = IF cmd[p].kind = "open" THEN "check" ELSE "driving"]
  /\ UNCHANGED <<client, browsers, sessions, holder, faults>>

(* open stops a browser that it cannot use, and fails. *)
GiveUp(p, met) ==
  /\ cmd' = [cmd EXCEPT ![p].pc = "stop", ![p].disturbed = @ \/ met]
  /\ UNCHANGED holder

(* Mutant: a browser that cannot be attached to is the end of the command. *)
AttachFailsAtOnce(p) ==
  /\ cmd[p].pc = "attach"
  /\ BrowserAt(cmd[p].port) = {} /\ UNCHANGED faults
  /\ IF cmd[p].kind = "open" THEN GiveUp(p, FALSE)
     ELSE End(p, "failed", FALSE)
  /\ UNCHANGED <<client, browsers, sessions>>

(* A page command restarts the store once; open gives the store up. *)
AttachFails(p) ==
  /\ cmd[p].pc = "attach"
  /\ \/ BrowserAt(cmd[p].port) = {} /\ UNCHANGED faults
     \/ Fault
  /\ IF cmd[p].kind = "open" THEN GiveUp(p, BrowserAt(cmd[p].port) # {})
     ELSE IF cmd[p].again THEN End(p, "failed", BrowserAt(cmd[p].port) # {})
     ELSE /\ cmd' = [cmd EXCEPT ![p].again = TRUE, ![p].pc = "catalog"]
          /\ UNCHANGED holder
  /\ UNCHANGED <<client, browsers, sessions>>

(* A step of a page command; one that fails is the last. *)
PageStep(p) ==
  /\ cmd[p].pc = "driving" /\ cmd[p].drives # None /\ cmd[p].left > 0
  /\ \/ cmd' = [cmd EXCEPT ![p].left = @ - 1] /\ UNCHANGED <<holder, faults>>
     \/ Fault /\ End(p, "failed", TRUE)
  /\ UNCHANGED <<client, browsers, sessions>>

BrowserLost(p) ==
  /\ cmd[p].pc = "driving" /\ cmd[p].drives = None
  /\ End(p, "failed", FALSE)
  /\ UNCHANGED <<client, browsers, sessions, faults>>

Detach(p) ==
  /\ cmd[p].pc = "driving" /\ cmd[p].drives # None /\ cmd[p].left = 0
  /\ End(p, "done", FALSE)
  /\ UNCHANGED <<client, browsers, sessions, faults>>

(* open: the address is checked and the start page shown; a report follows without the lock. *)
CheckIp(p) ==
  /\ cmd[p].pc = "check"
  /\ \/ /\ cmd[p].drives # None
        /\ cmd' = [cmd EXCEPT ![p].drives = None, ![p].stage = "report", ![p].pc = "catalog"]
        /\ Unlock(p) /\ UNCHANGED faults
     \/ cmd[p].drives = None /\ UNCHANGED faults /\ GiveUp(p, FALSE)
     \/ cmd[p].drives # None /\ Fault /\ GiveUp(p, TRUE)
  /\ UNCHANGED <<client, browsers, sessions>>

(***************************************************************************)
(* Stopping a store, and the client with the last.                         *)
(***************************************************************************)

(* A client that does not answer is not started for this; the request may fail unnoticed. *)
StopBrowser(p) ==
  /\ cmd[p].pc = "stop"
  /\ \/ Answered /\ Close(p, {cmd[p].of}, "forget")
     \/ /\ Unanswered
        /\ cmd' = [cmd EXCEPT ![p].ready = FALSE, ![p].drives = None, ![p].pc = "forget"]
        /\ UNCHANGED browsers
  /\ UNCHANGED <<client, sessions, holder>>

DeleteRecord(p) ==
  /\ cmd[p].pc = "forget"
  /\ sessions' = [sessions EXCEPT ![cmd[p].of] = None]
  /\ IF cmd[p].kind = "open" THEN End(p, "failed", FALSE)
     ELSE /\ cmd' = [cmd EXCEPT ![p].stage = "look", ![p].pc = "catalog"]
          /\ Unlock(p)
  /\ UNCHANGED <<client, browsers, faults>>

(* No store was running when this command looked: the client is closed, for everybody. *)
CloseClient(p) ==
  /\ cmd[p].pc = "close"
  /\ \/ Answered /\ client' = "down" /\ Close(p, Stores, "clear")
     \/ /\ Unanswered
        /\ cmd' = [cmd EXCEPT ![p].ready = FALSE, ![p].pc = "clear"]
        /\ UNCHANGED <<client, browsers>>
  /\ UNCHANGED <<sessions, holder>>

ClearMap(p) ==
  /\ cmd[p].pc = "clear"
  /\ sessions' = [s \in Stores |-> None]
  /\ cmd' = [cmd EXCEPT ![p].stage = "report", ![p].pc = "catalog"]
  /\ UNCHANGED <<client, browsers, holder, faults>>

(***************************************************************************)
(* What happens around the commands.                                       *)
(***************************************************************************)
ClientComesUp ==
  /\ client = "starting"
  /\ client' = "up"
  /\ UNCHANGED <<browsers, sessions, holder, cmd, faults>>

ClientStops ==
  /\ client = "up"
  /\ Fault
  /\ client' = "down"
  /\ Close(None, Stores, "idle")
  /\ UNCHANGED <<sessions, holder>>

BrowserCloses ==
  /\ \E s \in Stores : browsers[s] # None /\ Close(None, {s}, "idle")
  /\ Fault
  /\ UNCHANGED <<client, sessions, holder>>

(* The process of a command is killed: the system lets its locks go. *)
ProcessKilled(p) ==
  /\ Active(p)
  /\ Fault
  /\ End(p, "failed", TRUE)
  /\ UNCHANGED <<client, browsers, sessions>>

CommandStep(p) ==
  \/ Lock(p) \/ LockTimeout(p)
  \/ BrowserCatalog(p) \/ PrepareClientStartup(p) \/ LaunchClient(p) \/ PollClient(p) \/ ClientDeadline(p)
  \/ RunningInfo(p) \/ ReconcileMap(p)
  \/ ReuseRecord(p) \/ RecordFromRunningInfo(p) \/ StartNeeded(p) \/ StartBrowser(p) \/ RecordFromStart(p)
  \/ Attach(p) \/ AttachFails(p) \/ PageStep(p) \/ BrowserLost(p) \/ Detach(p) \/ CheckIp(p)
  \/ StopBrowser(p) \/ DeleteRecord(p) \/ CloseClient(p) \/ ClearMap(p)

Finished == \A p \in Procs : cmd[p].pc \in {"done", "failed"}

Next ==
  \/ \E p \in Procs : Start(p) \/ CommandStep(p) \/ ProcessKilled(p)
  \/ ClientComesUp \/ ClientStops \/ BrowserCloses
  \/ Finished /\ UNCHANGED vars

Spec == Init /\ [][Next]_vars /\ \A p \in Procs : WF_vars(CommandStep(p))

(***************************************************************************)
(* Properties.                                                             *)
(***************************************************************************)

(* Whatever state a page, open or status command finds - no client, no browser, a record   *)
(* of a browser that is gone or has moved - it gets its store unless a fault meets it, it  *)
(* waits too long for the lock or the client, or another command ends the client in its    *)
(* time.  (An exit of the last store may fail by its own doing: its report asks the client *)
(* it has just closed.)                                                                    *)
UndisturbedCommandsSucceed ==
  \A p \in Procs :
    cmd[p].kind # "exit" /\ cmd[p].pc = "failed" => cmd[p].disturbed

(* A command comes to its end: no lock, client or browser is waited for without end, and   *)
(* a restart of the store is tried once.                                                   *)
EveryCommandEnds ==
  \A p \in Procs : (cmd[p].pc # "idle") ~> (cmd[p].pc \in {"done", "failed"})

(* "Serialize store browser mutations across processes and agent sessions": nobody closes  *)
(* the browser of a store whose lock another command holds.                                *)
LockedBrowsersAreLeftAlone ==
  [][\A s \in Stores, p \in Procs :
       holder[s] = p /\ browsers[s] # None /\ browsers'[s] = None
         => cmd'[p] # cmd[p] /\ cmd[p].pc \in {"kill", "stop", "close"}]_vars
===============================================================================
