----------------------------- MODULE BrowserAuth -----------------------------
(***************************************************************************)
(* The login to the ERP that every command shares                          *)
(* (browser_auth_service): a saved browser state in one file, read by each *)
(* command for each of its requests and renewed, under a lock between the  *)
(* processes, by a process that logs in with a browser.                    *)
(*                                                                         *)
(* phase[p] is where process p is with its login:                          *)
(*   "away"      it has no business with the login now;                    *)
(*   "read", "ensure", "refresh"  it waits for the lock to do so;          *)
(*   "login", "inventory_sku", "fba_delivery", "wms", "persist", "replace" *)
(*               it holds the lock and its browser is at that stage;       *)
(*   "given"     it has the material it asked for, "denied" it has none.   *)
(***************************************************************************)
EXTENDS AuthMaterial

CONSTANTS
  Procs,           \* the processes of the commands
  Lifetimes,       \* how long the cookies of a login may last: numbers and Session
  DomainPlace,     \* domain -> its place among the domains as texts are compared
  Horizon,         \* bound: time is 0..Horizon
  MaxLogins        \* bound: logins

VARIABLES
  now,
  file,            \* state.json: None or a saved state
  lock,            \* None or the process that holds .refresh.lock
  phase,
  jar,             \* p -> the saved state of p's browser
  material,        \* p -> what read_auth gave p last, or None
  ensured,         \* p -> whether p has already tried to ensure the login
  logins           \* the logins so far

ASSUME NoneAssumption == None \notin Procs

authVars == <<file, lock, phase, jar, material, ensured, logins>>

Waiting == {"read", "ensure", "refresh"}
Holding == {"login", "inventory_sku", "fba_delivery", "wms", "persist", "replace"}

EmptyJar == [token |-> None, cookies |-> <<>>]

Cookie(name, domain, value, expires) ==
  [domain |-> domain, value |-> value, expires |-> expires, name |-> name]

ParentDomain(host) == SubSeq(host, 1, Len(host) - 1)

ExpiresAfter(life) == IF life = Session THEN Session ELSE now + life

AuthInit ==
  /\ file = None /\ lock = None
  /\ phase = [p \in Procs |-> "away"]
  /\ jar = [p \in Procs |-> EmptyJar]
  /\ material = [p \in Procs |-> None]
  /\ ensured = [p \in Procs |-> FALSE]
  /\ logins = 0

(* Process p starts to wait for the lock: for get_auth_context's read, or for a refresh. *)
Wait(p, for) == phase' = [phase EXCEPT ![p] = for]

AskForMaterial(p) ==
  /\ Wait(p, "read")
  /\ ensured' = [ensured EXCEPT ![p] = FALSE]
  /\ material' = [material EXCEPT ![p] = None]
  /\ UNCHANGED <<file, lock, jar, logins>>

AskForRefresh(p) ==
  /\ Wait(p, "refresh")
  /\ ensured' = [ensured EXCEPT ![p] = FALSE]
  /\ material' = [material EXCEPT ![p] = None]
  /\ UNCHANGED <<file, lock, jar, logins>>

(***************************************************************************)
(* What becomes of p when its part with the lock fails.  get_auth_context  *)
(* answers a failed read with ensure, and a second one with an error; an   *)
(* ensure or a refresh that fails is an error.                             *)
(***************************************************************************)
Denied(p) == phase' = [phase EXCEPT ![p] = "denied"] /\ UNCHANGED ensured

ReadFails(p) ==
  IF ensured[p] THEN Denied(p)
  ELSE /\ Wait(p, "ensure")
       /\ ensured' = [ensured EXCEPT ![p] = TRUE]

(* interprocess_lock: the deadline passes while another process holds the lock. *)
LockTimeout(p) ==
  /\ phase[p] \in Waiting /\ lock # None
  /\ IF phase[p] = "read" THEN ReadFails(p) ELSE Denied(p)
  /\ UNCHANGED <<now, file, lock, jar, material, logins>>

(* read_auth: the file is read under the lock and must be complete; nothing else happens there. *)
ReadAuth(p) ==
  /\ phase[p] = "read" /\ lock = None
  /\ IF file # None /\ CompleteAuthMaterial(file, now)
     THEN /\ material' = [material EXCEPT ![p] = file]
          /\ phase' = [phase EXCEPT ![p] = "given"]
          /\ UNCHANGED ensured
     ELSE /\ ReadFails(p)
          /\ UNCHANGED material
  /\ UNCHANGED <<now, file, lock, jar, logins>>

(* The first step of _refresh_auth clears the saved state; then the browser is opened. *)
BeginRefresh(p) ==
  /\ lock' = p /\ file' = None
  /\ phase' = [phase EXCEPT ![p] = "login"]
  /\ jar' = [jar EXCEPT ![p] = EmptyJar]

(* Mutant: whether to log in was decided before the lock was waited for. *)
EnsureAuthUnchecked(p) ==
  /\ phase[p] = "ensure" /\ lock = None
  /\ BeginRefresh(p)
  /\ UNCHANGED <<now, material, ensured, logins>>

(* ensure_auth: who waited while another logged in uses that login and reads again. *)
EnsureAuth(p) ==
  /\ phase[p] = "ensure" /\ lock = None
  /\ IF file # None /\ CompleteAuthMaterial(file, now)
     THEN /\ Wait(p, "read")
          /\ UNCHANGED <<file, lock, jar>>
     ELSE BeginRefresh(p)
  /\ UNCHANGED <<now, material, ensured, logins>>

(* refresh_auth: logs in whatever the file holds. *)
RefreshAuth(p) ==
  /\ phase[p] = "refresh" /\ lock = None
  /\ BeginRefresh(p)
  /\ UNCHANGED <<now, material, ensured, logins>>

(* A stage is passed, with what the browser has gathered by then. *)
Passes(p, next, gathered) ==
  /\ phase' = [phase EXCEPT ![p] = next]
  /\ jar' = [jar EXCEPT ![p] = gathered]
  /\ UNCHANGED <<now, file, lock, material, ensured>>

(* _perform_login; the browser also gathers cookies of other sites. *)
PerformLogin(p, life) ==
  /\ phase[p] = "login" /\ logins < MaxLogins
  /\ logins' = logins + 1
  /\ Passes(p, "inventory_sku",
            [cookies |-> << Cookie("tracker", DingtalkDomain, logins + 1, Session),
                            Cookie(SessionName, PrivateHost, logins + 1, ExpiresAfter(life)),
                            Cookie(MemcacheName, ParentDomain(PrivateHost), logins + 1, Session) >>,
             token |-> None])

(* The inventory page renews the cookies of private-amz, which must then all be valid. *)
VisitInventorySku(p, life) ==
  /\ phase[p] = "inventory_sku"
  /\ \E gathered \in {[jar[p] EXCEPT !.cookies =
                         Append(@, Cookie(SessionName, PrivateAmzHost, @[1].value, ExpiresAfter(life)))]} :
       /\ CookieAuthErrors(gathered.cookies, now) = {}
       /\ Passes(p, "fba_delivery", gathered)
  /\ UNCHANGED logins

(* _extract_token: some frame of the FBA origin holds the token before the deadline. *)
ExtractToken(p) ==
  /\ phase[p] = "fba_delivery"
  /\ Passes(p, "wms", [jar[p] EXCEPT !.token = jar[p].cookies[1].value])
  /\ UNCHANGED logins

(* _collect_wms_cookie_header: the entry of the home page leads to the WMS in time. *)
CollectWmsCookieHeader(p) ==
  /\ phase[p] = "wms"
  /\ LET gathered == [jar[p] EXCEPT !.cookies =
                        Append(@, Cookie("wms", WmsHost, jar[p].cookies[1].value, Session))]
     IN /\ WmsCookieHeader(gathered.cookies) # {}
        /\ Passes(p, "persist", gathered)
  /\ UNCHANGED logins

(* Mutant: the state is written in place, the cookies before the token. *)
SaveStorageStateInPlace(p) ==
  /\ phase[p] = "persist"
  /\ \E state \in {RemoveDingtalk(jar[p])} : CompleteAuthMaterial(state, now)
  /\ file' = [RemoveDingtalk(jar[p]) EXCEPT !.token = None]
  /\ phase' = [phase EXCEPT ![p] = "replace"]
  /\ UNCHANGED <<now, lock, jar, material, ensured, logins>>

(* _save_storage_state: what is saved must be complete; it is written beside the file first. *)
SaveStorageState(p) ==
  /\ phase[p] = "persist"
  /\ \E state \in {RemoveDingtalk(jar[p])} : CompleteAuthMaterial(state, now)
  /\ phase' = [phase EXCEPT ![p] = "replace"]
  /\ UNCHANGED <<now, file, lock, jar, material, ensured, logins>>

(***************************************************************************)
(* The orders in which _write_storage_state_payload may write cookies: by  *)
(* domain; no two cookies of a login that is kept share one, so that name  *)
(* and path never decide.                                                  *)
(***************************************************************************)
Sortings(cookies) ==
  {[i \in DOMAIN cookies |-> cookies[place[i]]] :
     place \in {q \in [DOMAIN cookies -> DOMAIN cookies] :
                 \A i, j \in DOMAIN cookies : i < j =>
                   /\ q[i] # q[j]
                   /\ DomainPlace[cookies[q[i]].domain] <= DomainPlace[cookies[q[j]].domain]}}

(* os.replace, and the end of the refresh: an ensure is followed by the second read. *)
ReplaceState(p) ==
  /\ phase[p] = "replace"
  /\ \E kept \in {RemoveDingtalk(jar[p])} : \E sorted \in Sortings(kept.cookies) :
       file' = [kept EXCEPT !.cookies = sorted]
  /\ lock' = None
  /\ phase' = [phase EXCEPT ![p] = IF ensured[p] THEN "read" ELSE "given"]
  /\ jar' = [jar EXCEPT ![p] = EmptyJar]
  /\ UNCHANGED <<now, material, ensured, logins>>

(* A stage fails, or the process is killed at it: the state stays cleared, the lock is given *)
(* back, and the command that waits for the process has an error.  A temporary file that is  *)
(* left behind is read by nobody.                                                            *)
StageFails(p) ==
  /\ phase[p] \in Holding
  /\ lock' = None
  /\ jar' = [jar EXCEPT ![p] = EmptyJar]
  /\ Denied(p)
  /\ UNCHANGED <<now, file, material, logins>>

AuthStep(p) ==
  \/ ReadAuth(p) \/ EnsureAuth(p) \/ RefreshAuth(p)
  \/ \E life \in Lifetimes : PerformLogin(p, life) \/ VisitInventorySku(p, life)
  \/ ExtractToken(p) \/ CollectWmsCookieHeader(p) \/ SaveStorageState(p) \/ ReplaceState(p)
  \/ LockTimeout(p) \/ StageFails(p)
=============================================================================
