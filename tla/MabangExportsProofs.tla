------------------------- MODULE MabangExportsProofs -------------------------
(***************************************************************************)
(* Proofs about the login that exporting commands share and what they      *)
(* deliver, for any number of processes, commands, logins, batches and     *)
(* rows.                                                                   *)
(***************************************************************************)
EXTENDS MabangExports, SequenceTheorems, FiniteSetTheorems, TLAPS

Phases == {"away", "given", "denied"} \cup Waiting \cup Holding

(* What a command does while it has no business with the login. *)
Aside == {"idle", "fetching", "done", "failed"}

(* Who logs in holds the lock and has cleared the saved login; only a command that renews asks for that
   whatever is saved. *)
LoginInv ==
  /\ lock \in Procs \cup {None}
  /\ phase \in [Procs -> Phases]
  /\ doing \in [Procs -> Aside \cup {"asking", "renewing"}]
  /\ \A p \in Procs : phase[p] \in Holding <=> lock = p
  /\ lock # None => file = None
  /\ \A p \in Procs : phase[p] = "refresh" => doing[p] = "renewing"
  /\ \A p \in Procs : doing[p] \in Aside => phase[p] = "away"

(* Two processes never log in at once. *)
OneLoginAtATime == \A p, q \in Procs : phase[p] \in Holding /\ phase[q] \in Holding => p = q

(***************************************************************************)
(* A step of a command changes its own place only, and waits for the lock  *)
(* at most.                                                                *)
(***************************************************************************)
Moves(p) ==
  \E place \in {<<"failed", "away">>, <<"done", "away">>, <<"fetching", "away">>,
                <<"asking", "read">>, <<"renewing", "refresh">>} :
    /\ doing' = [doing EXCEPT ![p] = place[1]]
    /\ phase' = [phase EXCEPT ![p] = place[2]]
    /\ UNCHANGED <<file, lock, jar>>

LEMMA FailMoves == ASSUME NEW p \in Procs, Fail(p) PROVE Moves(p)
BY DEF Fail, Leaves, Moves

LEMMA RestartMoves == ASSUME NEW p \in Procs, Restart(p) PROVE Moves(p)
BY DEF Restart, AskForMaterial, Wait, Moves

LEMMA AuthTroubleMoves == ASSUME NEW p \in Procs, AuthTrouble(p) PROVE Moves(p)
BY FailMoves DEF AuthTrouble, Renew, AskForRefresh, Wait, Moves

LEMMA OtherTroubleMoves == ASSUME NEW p \in Procs, OtherTrouble(p) PROVE Moves(p)
BY FailMoves, RestartMoves DEF OtherTrouble

LEMMA AdvanceMoves == ASSUME NEW p \in Procs, NEW entry, NEW jump, Advance(p, entry, jump) PROVE Moves(p)
BY DEF Advance, Leaves, AskForMaterial, Wait, Moves

LEMMA RepeatMoves == ASSUME NEW p \in Procs, Repeat(p) PROVE Moves(p)
BY DEF Repeat, AskForMaterial, Wait, Moves

LEMMA OutcomeMoves == ASSUME NEW p \in Procs, NEW answer, Outcome(p, answer) PROVE Moves(p)
<1>1. CASE Given(p, answer)
  BY <1>1, AdvanceMoves, RepeatMoves DEF Given
<1>2. CASE Pending(p)
  BY <1>2, RepeatMoves, OtherTroubleMoves DEF Pending
<1>. QED  BY <1>1, <1>2, AuthTroubleMoves, OtherTroubleMoves DEF Outcome

LEMMA MoveHolds ==
  ASSUME LoginInv, NEW p \in Procs, Moves(p), phase[p] \notin Holding
  PROVE  LoginInv' /\ (file' = None => file = None)
BY DEF LoginInv, Moves, Phases, Waiting, Holding, Aside

(***************************************************************************)
(* Steps with the login.                                                   *)
(***************************************************************************)
LEMMA BeginRefreshHolds ==
  ASSUME LoginInv, NEW p \in Procs, lock = None, phase[p] \in {"ensure", "refresh"},
         BeginRefresh(p), UNCHANGED doing
  PROVE  LoginInv'
BY NoneAssumption DEF LoginInv, BeginRefresh, Phases, Waiting, Holding, Aside

(* A login goes on, or a process goes on to wait, is given its material or denied it. *)
LEMMA AuthStepHolds ==
  ASSUME LoginInv, NEW p \in Procs, AuthStep(p), UNCHANGED commandVars
  PROVE  LoginInv'
<1>. USE DEF commandVars
<1>1. CASE ReadAuth(p)
  BY <1>1 DEF ReadAuth, ReadFails, Denied, Wait, LoginInv, Phases, Waiting, Holding, Aside
<1>2. CASE EnsureAuth(p)
  <2>1. CASE BeginRefresh(p)
    BY <1>2, <2>1, BeginRefreshHolds DEF EnsureAuth
  <2>2. CASE Wait(p, "read") /\ UNCHANGED <<file, lock, jar>>
    BY <1>2, <2>2 DEF EnsureAuth, Wait, LoginInv, Phases, Waiting, Holding, Aside
  <2>. QED  BY <1>2, <2>1, <2>2 DEF EnsureAuth
<1>3. CASE RefreshAuth(p)
  BY <1>3, BeginRefreshHolds DEF RefreshAuth
<1>4. ASSUME NEW next \in Holding, NEW gathered, phase[p] \in Holding, Passes(p, next, gathered)
      PROVE  LoginInv'
  BY <1>4 DEF Passes, LoginInv, Phases, Waiting, Holding, Aside
<1>5. ASSUME NEW life \in Lifetimes, PerformLogin(p, life) \/ VisitInventorySku(p, life)
      PROVE  LoginInv'
  BY <1>4, <1>5 DEF PerformLogin, VisitInventorySku, Holding
<1>6. CASE ExtractToken(p) \/ CollectWmsCookieHeader(p)
  BY <1>4, <1>6 DEF ExtractToken, CollectWmsCookieHeader, Holding
<1>7. CASE SaveStorageState(p)
  BY <1>7 DEF SaveStorageState, LoginInv, Phases, Waiting, Holding, Aside
<1>8. CASE ReplaceState(p)
  BY <1>8, NoneAssumption DEF ReplaceState, LoginInv, Phases, Waiting, Holding, Aside
<1>9. CASE LockTimeout(p)
  BY <1>9 DEF LockTimeout, ReadFails, Denied, Wait, LoginInv, Phases, Waiting, Holding, Aside
<1>10. CASE StageFails(p)
  BY <1>10, NoneAssumption DEF StageFails, Denied, LoginInv, Phases, Waiting, Holding, Aside
<1>. QED  BY <1>1, <1>2, <1>3, <1>5, <1>6, <1>7, <1>8, <1>9, <1>10 DEF AuthStep

(* The saved login is cleared by who has found it useless, or renews it. *)
LEMMA AuthStepClears ==
  ASSUME LoginInv, NEW p \in Procs, AuthStep(p),
         file # None, CompleteAuthMaterial(file, now), file' = None
  PROVE  doing[p] = "renewing" /\ phase[p] = "refresh" /\ lock' = p
<1>1. lock = None
  BY DEF LoginInv
<1>2. phase[p] \notin Holding
  BY <1>1, NoneAssumption DEF LoginInv
<1>3. RefreshAuth(p)
  BY <1>2 DEF AuthStep, ReadAuth, EnsureAuth, LockTimeout, PerformLogin, VisitInventorySku, ExtractToken,
              CollectWmsCookieHeader, SaveStorageState, ReplaceState, StageFails, Passes, Holding
<1>. QED  BY <1>3 DEF RefreshAuth, BeginRefresh, LoginInv

(***************************************************************************)
(* The invariant.                                                          *)
(***************************************************************************)
LEMMA InitHolds == Init => LoginInv
BY NoneAssumption DEF Init, AuthInit, LoginInv, Phases, Waiting, Holding, Aside

LEMMA CommandMoves ==
  ASSUME NEW p \in Procs,
         \/ Ask(p) \/ AskDenied(p) \/ Renewed(p) \/ RenewalDenied(p) \/ FetchFile(p)
         \/ \E k \in Kinds[p] : StartCommand(p, k)
  PROVE  Moves(p)
<1>1. CASE Ask(p)
  BY <1>1, AuthTroubleMoves, OutcomeMoves DEF Ask
<1>2. CASE AskDenied(p)
  BY <1>2, AuthTroubleMoves, OtherTroubleMoves DEF AskDenied, NoMaterial
<1>3. CASE Renewed(p)
  BY <1>3, RestartMoves DEF Renewed
<1>4. CASE RenewalDenied(p)
  BY <1>4, FailMoves DEF RenewalDenied
<1>5. CASE FetchFile(p)
  BY <1>5, OutcomeMoves DEF FetchFile
<1>6. CASE \E k \in Kinds[p] : StartCommand(p, k)
  BY <1>6 DEF StartCommand, AskForMaterial, Wait, Moves
<1>. QED  BY <1>1, <1>2, <1>3, <1>4, <1>5, <1>6

LEMMA CommandHolds ==
  ASSUME LoginInv, NEW p \in Procs,
         \/ Ask(p) \/ AskDenied(p) \/ Renewed(p) \/ RenewalDenied(p) \/ FetchFile(p)
         \/ \E k \in Kinds[p] : StartCommand(p, k)
  PROVE  LoginInv' /\ (file' = None => file = None)
<1>1. Moves(p)
  BY CommandMoves
<1>2. phase[p] \notin Holding
  BY DEF Ask, AskDenied, Renewed, RenewalDenied, FetchFile, StartCommand, LoginInv, Aside, Holding
<1>. QED  BY <1>1, <1>2, MoveHolds

LEMMA StepHolds == LoginInv /\ [Next]_vars => LoginInv'
<1>. SUFFICES ASSUME LoginInv, [Next]_vars PROVE LoginInv'
  OBVIOUS
<1>1. CASE Tick \/ UNCHANGED vars
  BY <1>1 DEF Tick, vars, authVars, commandVars, LoginInv
<1>2. ASSUME NEW p \in Procs, ProcStep(p) \/ \E k \in Kinds[p] : StartCommand(p, k)
      PROVE  LoginInv'
  BY <1>2, CommandHolds, AuthStepHolds DEF ProcStep
<1>. QED  BY <1>1, <1>2 DEF Next

(* The inductive invariant of the shared login: who logs in holds the lock and has cleared the
   saved state (_refresh_auth, interprocess_lock, get_auth_context). *)
THEOREM LoginCorrect == Spec => []LoginInv
BY InitHolds, StepHolds, PTL DEF Spec

(* Two processes never log in at once (interprocess_lock). *)
THEOREM LoginsAreSerial == Spec => []OneLoginAtATime
<1>1. LoginInv => OneLoginAtATime
  BY DEF LoginInv, OneLoginAtATime
<1>. QED  BY <1>1, LoginCorrect, PTL

(* A saved login that can still be used is cleared only for a command that renews it, however
   many commands have waited for the lock with it (ensure_auth, refresh_auth). *)
THEOREM GoodLoginsAreKept == Spec => GoodLoginIsKept
<1>1. ASSUME LoginInv, [Next]_vars, file # None, CompleteAuthMaterial(file, now), file' = None
      PROVE  \E p \in Procs : doing[p] = "renewing" /\ phase[p] = "refresh" /\ lock' = p
  <2>1. PICK p \in Procs : ProcStep(p) \/ \E k \in Kinds[p] : StartCommand(p, k)
    BY <1>1 DEF Next, Tick, vars, authVars
  <2>2. AuthStep(p)
    BY <1>1, <2>1, CommandHolds DEF ProcStep
  <2>. QED  BY <1>1, <2>2, AuthStepClears
<1>2. LoginInv /\ [Next]_vars =>
        [(file # None /\ CompleteAuthMaterial(file, now) /\ file' = None)
           => \E p \in Procs : doing[p] = "renewing" /\ phase[p] = "refresh" /\ lock' = p]_vars
  BY <1>1
<1>. QED  BY <1>2, LoginCorrect, PTL DEF Spec, GoodLoginIsKept

(***************************************************************************)
(* What is saved is what one login has gathered.                           *)
(***************************************************************************)
(* A set of naturals with 0 and every successor holds them all. *)
LEMMA NaturalInduction ==
  ASSUME NEW G, 0 \in G, \A n \in Nat : n \in G => n + 1 \in G
  PROVE  Nat \subseteq G
<1>1. SUFFICES ASSUME NEW m \in Nat, m \notin G PROVE FALSE
  OBVIOUS
<1>. DEFINE Bad == {0..n : n \in {k \in 0..m : k \notin G}}
            S == 0..m
<1>2. IsFiniteSet(S)
  BY FS_Interval
<1>3. IsWellFoundedOn(StrictSubsetOrdering(S), SUBSET S)
  <2>. HIDE DEF S
  <2>1. FiniteSubsetsOf(S) = SUBSET S
    BY <1>2, FS_FiniteSubsetsOfFinite
  <2>. QED  BY <2>1, FS_StrictSubsetOrderingWellFounded
<1>4. Bad \subseteq SUBSET S /\ Bad # {}
  BY <1>1
<1>. HIDE DEF Bad, S
<1>5. PICK T \in Bad : \A U \in Bad : ~(<<U, T>> \in StrictSubsetOrdering(S))
  BY <1>3, <1>4, WFMin
<1>6. PICK n \in 0..m : n \notin G /\ T = 0..n
  BY <1>5 DEF Bad
<1>. DEFINE k == n - 1
            U == 0..k
<1>7. n # 0 /\ n = k + 1 /\ k \in 0..m /\ k \in Nat
  BY <1>6
<1>8. k \notin G
  BY <1>6, <1>7
<1>. HIDE DEF k
<1>9. U \in Bad
  BY <1>7, <1>8 DEF Bad
<1>10. U \subseteq T /\ n \in T /\ n \notin U /\ U \subseteq S /\ T \subseteq S
  BY <1>6, <1>7 DEF S
<1>11. <<U, T>> \in StrictSubsetOrdering(S)
  BY <1>10 DEF StrictSubsetOrdering
<1>. QED  BY <1>5, <1>9, <1>11

(* The cookies of other sites are taken out of a saved state. *)
Own(c) == ~DomainMatches(DingtalkDomain, c.domain)

Keeping(s, n, F) ==
  F = [i \in 0..n |-> IF i = 0 THEN <<>> ELSE IF Own(s[i]) THEN Append(F[i - 1], s[i]) ELSE F[i - 1]]

LEMMA KeepingExists == \A s : \A n \in Nat : \E F : Keeping(s, n, F)
<1>. SUFFICES ASSUME NEW s PROVE \A n \in Nat : \E F : Keeping(s, n, F)
  OBVIOUS
<1>. DEFINE G == {n \in Nat : \E F : Keeping(s, n, F)}
<1>1. 0 \in G
  <2>. DEFINE E == [i \in 0..0 |-> <<>>]
  <2>1. E = [i \in 0..0 |-> IF i = 0 THEN <<>> ELSE IF Own(s[i]) THEN Append(E[i - 1], s[i]) ELSE E[i - 1]]
    OBVIOUS
  <2>. HIDE DEF E
  <2>2. Keeping(s, 0, E)
    BY <2>1 DEF Keeping
  <2>. QED  BY <2>2
<1>2. ASSUME NEW n \in Nat, n \in G PROVE n + 1 \in G
  <2>1. PICK F : Keeping(s, n, F)
    BY <1>2
  <2>. DEFINE Next1 == IF Own(s[n + 1]) THEN Append(F[n], s[n + 1]) ELSE F[n]
              E == [i \in 0..(n + 1) |-> IF i = n + 1 THEN Next1 ELSE F[i]]
  <2>2. /\ DOMAIN F = 0..n
        /\ \A i \in 0..n : F[i] = IF i = 0 THEN <<>> ELSE IF Own(s[i]) THEN Append(F[i - 1], s[i]) ELSE F[i - 1]
    BY <2>1 DEF Keeping
  <2>3. /\ \A i \in 0..n : E[i] = F[i]
        /\ E[n + 1] = Next1
    BY <1>2
  <2>4. ASSUME NEW i \in 0..(n + 1)
        PROVE  E[i] = IF i = 0 THEN <<>> ELSE IF Own(s[i]) THEN Append(E[i - 1], s[i]) ELSE E[i - 1]
    <3>1. CASE i = n + 1
      <4>1. i # 0 /\ i - 1 = n /\ n \in 0..n
        BY <1>2, <3>1
      <4>. HIDE DEF E
      <4>2. E[i - 1] = F[n] /\ E[i] = Next1
        BY <2>3, <3>1, <4>1
      <4>. QED  BY <3>1, <4>1, <4>2
    <3>2. CASE i # n + 1
      <4>1. i \in 0..n
        BY <1>2, <3>2
      <4>2. i # 0 => i - 1 \in 0..n
        BY <1>2, <4>1
      <4>. HIDE DEF E
      <4>. QED  BY <2>2, <2>3, <4>1, <4>2
    <3>. QED  BY <3>1, <3>2
  <2>5. DOMAIN E = 0..(n + 1) /\ E = [i \in 0..(n + 1) |-> E[i]]
    OBVIOUS
  <2>. HIDE DEF E
  <2>6. Keeping(s, n + 1, E)
    BY <2>4, <2>5 DEF Keeping
  <2>. QED  BY <1>2, <2>6
<1>. HIDE DEF G
<1>3. Nat \subseteq G
  BY <1>1, <1>2, NaturalInduction
<1>. QED  BY <1>3 DEF G

LEMMA KeepsOwn ==
  ASSUME NEW S, NEW s \in Seq(S), NEW F, Keeping(s, Len(s), F)
  PROVE  /\ F[Len(s)] \in Seq(S)
         /\ \A i \in DOMAIN F[Len(s)] : F[Len(s)][i] \in {s[j] : j \in DOMAIN s} /\ Own(F[Len(s)][i])
<1>. DEFINE Kept == {c \in {s[j] : j \in DOMAIN s} : Own(c)}
            G == {n \in Nat : n <= Len(s) => F[n] \in Seq(Kept)}
<1>0. Len(s) \in Nat /\ DOMAIN s = 1..Len(s)
  OBVIOUS
<1>1. \A i \in 0..Len(s) :
        F[i] = IF i = 0 THEN <<>> ELSE IF Own(s[i]) THEN Append(F[i - 1], s[i]) ELSE F[i - 1]
  BY Zenon DEF Keeping
<1>2. 0 \in G
  <2>. HIDE DEF Kept
  <2>1. F[0] = <<>>
    BY <1>0, <1>1
  <2>2. <<>> \in Seq(Kept)
    OBVIOUS
  <2>. QED  BY <2>1, <2>2
<1>3. ASSUME NEW n \in Nat, n \in G PROVE n + 1 \in G
  <2>1. SUFFICES ASSUME n + 1 <= Len(s) PROVE F[n + 1] \in Seq(Kept)
    BY <1>3
  <2>2. n + 1 \in 0..Len(s) /\ n + 1 # 0 /\ (n + 1) - 1 = n /\ n + 1 \in DOMAIN s /\ F[n] \in Seq(Kept)
    BY <1>0, <1>3, <2>1
  <2>3. F[n + 1] = IF Own(s[n + 1]) THEN Append(F[n], s[n + 1]) ELSE F[n]
    BY <1>1, <2>2
  <2>4. Own(s[n + 1]) => s[n + 1] \in Kept
    BY <2>2
  <2>. HIDE DEF Kept
  <2>. QED  BY <2>2, <2>3, <2>4
<1>. HIDE DEF G
<1>4. Len(s) \in G
  BY <1>0, <1>2, <1>3, NaturalInduction
<1>5. F[Len(s)] \in Seq(Kept)
  BY <1>0, <1>4 DEF G
<1>6. Kept \subseteq S
  BY <1>0
<1>. HIDE DEF Kept
<1>7. F[Len(s)] \in Seq(S) /\ \A i \in DOMAIN F[Len(s)] : F[Len(s)][i] \in Kept
  BY <1>5, <1>6
<1>. QED  BY <1>7 DEF Kept

(* A browser's state: its cookies are of one login, its token is none or of the same. *)
CookiesOf(state) == {state.cookies[i] : i \in DOMAIN state.cookies}

OneLogin(state) ==
  /\ state = [cookies |-> state.cookies, token |-> state.token]
  /\ state.cookies \in Seq(CookiesOf(state)) /\ state.cookies # <<>>
  /\ \A c \in CookiesOf(state) : c.value = state.cookies[1].value

LEMMA RemoveDingtalkKeeps ==
  ASSUME NEW state, OneLogin(state)
  PROVE  /\ RemoveDingtalk(state).token = state.token
         /\ \A t : /\ [RemoveDingtalk(state) EXCEPT !.cookies = t].token = state.token
                   /\ [RemoveDingtalk(state) EXCEPT !.cookies = t].cookies = t
         /\ \A i \in DOMAIN RemoveDingtalk(state).cookies :
              RemoveDingtalk(state).cookies[i] \in CookiesOf(state) /\ Own(RemoveDingtalk(state).cookies[i])
<1>. DEFINE s == state.cookies
            F == CHOOSE f : Keeping(s, Len(s), f)
<1>1. s \in Seq(CookiesOf(state)) /\ Len(s) \in Nat
  BY DEF OneLogin
<1>2. Keeping(s, Len(s), F)
  BY <1>1, KeepingExists
<1>3. RemoveDingtalk(state) = [state EXCEPT !.cookies = F[Len(s)]]
  BY Zenon DEF RemoveDingtalk, Keeping, Own
<1>. HIDE DEF F
<1>4. RemoveDingtalk(state).cookies = F[Len(s)] /\ RemoveDingtalk(state).token = state.token
  BY <1>3 DEF OneLogin
<1>5. \A i \in DOMAIN F[Len(s)] : F[Len(s)][i] \in {s[j] : j \in DOMAIN s} /\ Own(F[Len(s)][i])
  BY <1>1, <1>2, KeepsOwn
<1>6. \A t : /\ [RemoveDingtalk(state) EXCEPT !.cookies = t].token = state.token
            /\ [RemoveDingtalk(state) EXCEPT !.cookies = t].cookies = t
  BY <1>3 DEF OneLogin
<1>. QED  BY <1>4, <1>5, <1>6 DEF CookiesOf

(* Sorting the cookies adds none. *)
LEMMA SortingKeeps ==
  ASSUME NEW s, NEW t \in Sortings(s)
  PROVE  \A i \in DOMAIN t : \E j \in DOMAIN s : t[i] = s[j]
<1>1. PICK place \in [DOMAIN s -> DOMAIN s] : t = [i \in DOMAIN s |-> s[place[i]]]
  BY DEF Sortings
<1>. QED  BY <1>1

LEMMA AppendKeeps ==
  ASSUME NEW state, OneLogin(state), NEW c, c.value = state.cookies[1].value
  PROVE  /\ OneLogin([state EXCEPT !.cookies = Append(@, c)])
         /\ [state EXCEPT !.cookies = Append(@, c)].token = state.token
         /\ [state EXCEPT !.cookies = Append(@, c)].cookies[1] = state.cookies[1]
<1>. DEFINE s == state.cookies
            t == Append(s, c)
            next == [state EXCEPT !.cookies = Append(@, c)]
<1>1. /\ s \in Seq(CookiesOf(state)) /\ Len(s) \in Nat /\ Len(s) >= 1
      /\ \A i \in 1..Len(s) : s[i].value = s[1].value
  BY DEF OneLogin, CookiesOf
<1>2. /\ Len(t) = Len(s) + 1 /\ DOMAIN t = 1..(Len(s) + 1) /\ t[Len(s) + 1] = c
      /\ \A i \in 1..Len(s) : t[i] = s[i]
  BY <1>1
<1>3. t = [i \in 1..(Len(s) + 1) |-> t[i]]
  BY <1>1
<1>. HIDE DEF t
<1>4. next.cookies = t /\ next.token = state.token /\ next = [cookies |-> t, token |-> state.token]
  <2>1. next = [state EXCEPT !.cookies = t]
    BY DEF t
  <2>. HIDE DEF next
  <2>. QED  BY <2>1 DEF OneLogin
<1>. HIDE DEF next
<1>5. CookiesOf(next) = {t[i] : i \in 1..(Len(s) + 1)}
  BY <1>2, <1>4 DEF CookiesOf
<1>6. t \in Seq(CookiesOf(next))
  BY <1>1, <1>3, <1>5
<1>7. 1 \in 1..Len(s) /\ t[1] = s[1]
  BY <1>1, <1>2
<1>8. \A i \in 1..(Len(s) + 1) : t[i].value = t[1].value
  <2>1. \A i \in 1..(Len(s) + 1) : i \in 1..Len(s) \/ i = Len(s) + 1
    BY <1>1
  <2>. QED  BY <1>1, <1>2, <1>7, <2>1
<1>9. t # <<>>
  BY <1>1, <1>2
<1>10. OneLogin(next)
  BY <1>4, <1>5, <1>6, <1>8, <1>9 DEF OneLogin
<1>. QED  BY <1>4, <1>7, <1>10 DEF next

LEMMA TokenKeeps ==
  ASSUME NEW state, OneLogin(state), NEW value
  PROVE  /\ OneLogin([state EXCEPT !.token = value])
         /\ [state EXCEPT !.token = value].token = value
         /\ [state EXCEPT !.token = value].cookies = state.cookies
<1>. DEFINE next == [state EXCEPT !.token = value]
<1>1. next.cookies = state.cookies /\ next.token = value /\ next = [cookies |-> state.cookies, token |-> value]
  BY DEF OneLogin
<1>. HIDE DEF next
<1>2. CookiesOf(next) = CookiesOf(state)
  BY <1>1 DEF CookiesOf
<1>3. OneLogin(next)
  BY <1>1, <1>2 DEF OneLogin
<1>. QED  BY <1>1, <1>3 DEF next

(* The browser of a login that goes on has gathered that login only; the token comes at the third page. *)
Gathered == Holding \ {"login"}
Tokened  == {"wms", "persist", "replace"}

LoginIsWhole ==
  /\ DOMAIN jar = Procs
  /\ \A p \in Procs : phase[p] \in Gathered => OneLogin(jar[p])
  /\ \A p \in Procs : phase[p] \in Tokened => jar[p].token = jar[p].cookies[1].value
  /\ StateIsOneLogin

LEMMA OthersStayWhole ==
  ASSUME LoginIsWhole, UNCHANGED <<file, jar>>,
         \A q \in Procs : phase'[q] = phase[q] \/ phase'[q] \notin Gathered
  PROVE  LoginIsWhole'
<1>1. StateIsOneLogin'
  BY DEF LoginIsWhole, StateIsOneLogin
<1>2. ASSUME NEW q \in Procs, phase'[q] \in Gathered
      PROVE  phase[q] = phase'[q] /\ jar'[q] = jar[q]
  BY <1>2
<1>3. Tokened \subseteq Gathered
  BY DEF Tokened, Gathered, Holding
<1>. QED  BY <1>1, <1>2, <1>3 DEF LoginIsWhole

LEMMA PassStaysWhole ==
  ASSUME LoginInv, LoginIsWhole, NEW p \in Procs, NEW next, NEW gathered, Passes(p, next, gathered),
         OneLogin(gathered), next \in Tokened => gathered.token = gathered.cookies[1].value
  PROVE  LoginIsWhole'
<1>1. /\ phase' = [phase EXCEPT ![p] = next] /\ jar' = [jar EXCEPT ![p] = gathered] /\ file' = file
      /\ DOMAIN phase = Procs /\ DOMAIN jar = Procs
  BY DEF Passes, LoginInv, LoginIsWhole
<1>2. StateIsOneLogin'
  BY <1>1 DEF LoginIsWhole, StateIsOneLogin
<1>3. \A q \in Procs : IF q = p THEN phase'[q] = next /\ jar'[q] = gathered
                       ELSE phase'[q] = phase[q] /\ jar'[q] = jar[q]
  BY <1>1
<1>4. DOMAIN jar' = Procs
  BY <1>1
<1>5. \A q \in Procs : phase'[q] \in Gathered => OneLogin(jar'[q])
  BY <1>3 DEF LoginIsWhole
<1>6. \A q \in Procs : phase'[q] \in Tokened => jar'[q].token = jar'[q].cookies[1].value
  BY <1>3 DEF LoginIsWhole
<1>. QED  BY <1>2, <1>4, <1>5, <1>6 DEF LoginIsWhole

(* A browser is begun with or given up: what it has gathered is not looked at. *)
LEMMA EndStaysWhole ==
  ASSUME LoginInv, LoginIsWhole, NEW p \in Procs, NEW next, next \notin Gathered,
         phase' = [phase EXCEPT ![p] = next], jar' = [jar EXCEPT ![p] = EmptyJar], StateIsOneLogin'
  PROVE  LoginIsWhole'
<1>1. DOMAIN phase = Procs /\ DOMAIN jar = Procs
  BY DEF LoginInv, LoginIsWhole
<1>2. \A q \in Procs : IF q = p THEN phase'[q] = next ELSE phase'[q] = phase[q] /\ jar'[q] = jar[q]
  BY <1>1
<1>3. DOMAIN jar' = Procs
  BY <1>1
<1>4. \A q \in Procs : phase'[q] \in Gathered => OneLogin(jar'[q])
  BY <1>2 DEF LoginIsWhole
<1>5. Tokened \subseteq Gathered
  BY DEF Tokened, Gathered, Holding
<1>6. \A q \in Procs : phase'[q] \in Tokened => jar'[q].token = jar'[q].cookies[1].value
  BY <1>2, <1>5 DEF LoginIsWhole
<1>. QED  BY <1>3, <1>4, <1>6 DEF LoginIsWhole

LEMMA AuthStepStaysWhole ==
  ASSUME LoginInv, LoginIsWhole, NEW p \in Procs, AuthStep(p)
  PROVE  LoginIsWhole'
<1>1. DOMAIN phase = Procs /\ Tokened \subseteq Gathered
  BY DEF LoginInv, Tokened, Gathered, Holding
<1>2. CASE ReadAuth(p) \/ LockTimeout(p)
  <2>1. /\ UNCHANGED <<file, jar>>
        /\ \E next \in {"given", "ensure", "denied"} : phase' = [phase EXCEPT ![p] = next]
    BY <1>2 DEF ReadAuth, LockTimeout, ReadFails, Denied, Wait
  <2>2. \A q \in Procs : phase'[q] = phase[q] \/ phase'[q] \notin Gathered
    BY <1>1, <2>1 DEF Gathered, Holding
  <2>. QED  BY <2>1, <2>2, OthersStayWhole
<1>3. CASE EnsureAuth(p) /\ phase' = [phase EXCEPT ![p] = "read"] /\ UNCHANGED <<file, jar>>
  <2>1. \A q \in Procs : phase'[q] = phase[q] \/ phase'[q] \notin Gathered
    BY <1>1, <1>3 DEF Gathered, Holding
  <2>. QED  BY <1>3, <2>1, OthersStayWhole
<1>4. CASE BeginRefresh(p)
  <2>1. StateIsOneLogin'
    BY <1>4 DEF BeginRefresh, StateIsOneLogin
  <2>2. "login" \notin Gathered
    BY DEF Gathered
  <2>. QED  BY <1>4, <2>1, <2>2, EndStaysWhole DEF BeginRefresh
<1>5. ASSUME NEW life \in Lifetimes, PerformLogin(p, life) PROVE LoginIsWhole'
  <2>. DEFINE t == << Cookie("tracker", DingtalkDomain, logins + 1, Session),
                      Cookie(SessionName, PrivateHost, logins + 1, ExpiresAfter(life)),
                      Cookie(MemcacheName, ParentDomain(PrivateHost), logins + 1, Session) >>
              state == [cookies |-> t, token |-> None]
  <2>1. Passes(p, "inventory_sku", state)
    BY <1>5 DEF PerformLogin
  <2>2. DOMAIN t = 1..3 /\ Len(t) = 3 /\ t[1].value = logins + 1 /\ t[2].value = logins + 1 /\ t[3].value = logins + 1
    BY DEF Cookie
  <2>3. t = [i \in 1..3 |-> t[i]]
    OBVIOUS
  <2>4. \A i \in 1..3 : i = 1 \/ i = 2 \/ i = 3
    OBVIOUS
  <2>5. state.cookies = t /\ state = [cookies |-> t, token |-> state.token]
    OBVIOUS
  <2>. HIDE DEF t, state
  <2>6. CookiesOf(state) = {t[i] : i \in 1..3}
    BY <2>2, <2>5 DEF CookiesOf
  <2>7. t \in Seq(CookiesOf(state))
    BY <2>3, <2>6
  <2>8. \A i \in 1..3 : t[i].value = t[1].value
    BY <2>2, <2>4
  <2>9. OneLogin(state)
    <3>1. \A c \in CookiesOf(state) : c.value = state.cookies[1].value
      BY <2>5, <2>6, <2>8
    <3>. QED  BY <2>2, <2>5, <2>7, <3>1 DEF OneLogin
  <2>10. "inventory_sku" \notin Tokened
    BY DEF Tokened
  <2>. QED  BY <2>1, <2>9, <2>10, PassStaysWhole
<1>6. ASSUME NEW life \in Lifetimes, VisitInventorySku(p, life) PROVE LoginIsWhole'
  <2>. DEFINE c == Cookie(SessionName, PrivateAmzHost, jar[p].cookies[1].value, ExpiresAfter(life))
              gathered == [jar[p] EXCEPT !.cookies = Append(@, c)]
  <2>1. phase[p] = "inventory_sku" /\ Passes(p, "fba_delivery", gathered)
    BY <1>6 DEF VisitInventorySku
  <2>2. OneLogin(jar[p])
    BY <2>1 DEF LoginIsWhole, Gathered, Holding
  <2>3. c.value = jar[p].cookies[1].value
    BY DEF Cookie
  <2>. HIDE DEF c
  <2>4. OneLogin(gathered)
    BY <2>2, <2>3, AppendKeeps
  <2>5. "fba_delivery" \notin Tokened
    BY DEF Tokened
  <2>. HIDE DEF gathered
  <2>. QED  BY <2>1, <2>4, <2>5, PassStaysWhole
<1>7. CASE ExtractToken(p)
  <2>. DEFINE gathered == [jar[p] EXCEPT !.token = jar[p].cookies[1].value]
  <2>1. phase[p] = "fba_delivery" /\ Passes(p, "wms", gathered)
    BY <1>7 DEF ExtractToken
  <2>2. OneLogin(jar[p])
    BY <2>1 DEF LoginIsWhole, Gathered, Holding
  <2>3. OneLogin(gathered) /\ gathered.token = gathered.cookies[1].value
    BY <2>2, TokenKeeps
  <2>. HIDE DEF gathered
  <2>. QED  BY <2>1, <2>3, PassStaysWhole
<1>8. CASE CollectWmsCookieHeader(p)
  <2>. DEFINE c == Cookie("wms", WmsHost, jar[p].cookies[1].value, Session)
              gathered == [jar[p] EXCEPT !.cookies = Append(@, c)]
  <2>1. phase[p] = "wms" /\ Passes(p, "persist", gathered)
    BY <1>8 DEF CollectWmsCookieHeader
  <2>2. OneLogin(jar[p]) /\ jar[p].token = jar[p].cookies[1].value
    BY <2>1 DEF LoginIsWhole, Gathered, Tokened, Holding
  <2>3. c.value = jar[p].cookies[1].value
    BY DEF Cookie
  <2>. HIDE DEF c
  <2>4. OneLogin(gathered) /\ gathered.token = gathered.cookies[1].value
    BY <2>2, <2>3, AppendKeeps
  <2>. HIDE DEF gathered
  <2>. QED  BY <2>1, <2>4, PassStaysWhole
<1>9. CASE SaveStorageState(p)
  <2>1. /\ phase[p] = "persist" /\ phase' = [phase EXCEPT ![p] = "replace"]
        /\ UNCHANGED <<file, jar>>
    BY <1>9 DEF SaveStorageState
  <2>2. \A q \in Procs : \/ phase'[q] = phase[q]
                         \/ q = p /\ phase[q] \in Tokened /\ phase'[q] \in Tokened
    BY <1>1, <2>1 DEF Tokened
  <2>3. StateIsOneLogin'
    BY <2>1 DEF LoginIsWhole, StateIsOneLogin
  <2>4. \A q \in Procs : phase'[q] \in Gathered => phase[q] \in Gathered
    BY <1>1, <2>2
  <2>5. \A q \in Procs : phase'[q] \in Tokened => phase[q] \in Tokened
    BY <1>1, <2>2
  <2>. QED  BY <2>1, <2>3, <2>4, <2>5 DEF LoginIsWhole
<1>10. CASE ReplaceState(p)
  <2>. DEFINE next == IF ensured[p] THEN "read" ELSE "given"
  <2>1. /\ phase[p] = "replace" /\ phase' = [phase EXCEPT ![p] = next]
        /\ jar' = [jar EXCEPT ![p] = EmptyJar]
    BY <1>10 DEF ReplaceState
  <2>2. OneLogin(jar[p]) /\ jar[p].token = jar[p].cookies[1].value
    BY <2>1 DEF LoginIsWhole, Gathered, Tokened, Holding
  <2>. DEFINE kept == RemoveDingtalk(jar[p])
  <2>6. PICK sorted \in Sortings(kept.cookies) : file' = [kept EXCEPT !.cookies = sorted]
    BY <1>10, Zenon DEF ReplaceState
  <2>7. /\ file'.token = jar[p].token /\ file'.cookies = sorted
        /\ \A i \in DOMAIN kept.cookies : kept.cookies[i] \in CookiesOf(jar[p]) /\ Own(kept.cookies[i])
    BY <2>2, <2>6, RemoveDingtalkKeeps
  <2>8. \A i \in DOMAIN sorted : \E j \in DOMAIN kept.cookies : sorted[i] = kept.cookies[j]
    BY SortingKeeps
  <2>. HIDE DEF kept
  <2>3. \A i \in DOMAIN file'.cookies : /\ file'.cookies[i].value = file'.token
                                        /\ ~DomainMatches(DingtalkDomain, file'.cookies[i].domain)
    BY <2>2, <2>7, <2>8 DEF OneLogin, Own
  <2>4. StateIsOneLogin'
    BY <2>3 DEF StateIsOneLogin
  <2>5. next \notin Gathered
    BY DEF Gathered, Holding
  <2>. HIDE DEF next
  <2>. QED  BY <2>1, <2>4, <2>5, EndStaysWhole
<1>11. CASE StageFails(p)
  <2>1. StateIsOneLogin'
    BY <1>11 DEF StageFails, LoginIsWhole, StateIsOneLogin
  <2>2. "denied" \notin Gathered
    BY DEF Gathered, Holding
  <2>. QED  BY <1>11, <2>1, <2>2, EndStaysWhole DEF StageFails, Denied
<1>. QED  BY <1>2, <1>3, <1>4, <1>5, <1>6, <1>7, <1>8, <1>9, <1>10, <1>11
          DEF AuthStep, EnsureAuth, RefreshAuth, Wait

LEMMA CommandStaysWhole ==
  ASSUME LoginInv, LoginIsWhole, NEW p \in Procs, Moves(p)
  PROVE  LoginIsWhole'
<1>1. \A q \in Procs : phase'[q] = phase[q] \/ phase'[q] \notin Gathered
  BY DEF Moves, LoginInv, Gathered, Holding
<1>. QED  BY <1>1, OthersStayWhole DEF Moves

(* The saved login is whole: its cookies and its token are of one login, and no cookie of the
   browser's other sites is in it, however many processes log in and wherever they stop
   (_refresh_auth, _save_storage_state, _remove_dingtalk_storage_state). *)
THEOREM SavedLoginIsWhole == Spec => []StateIsOneLogin
<1>1. Init => LoginIsWhole
  BY DEF Init, AuthInit, LoginIsWhole, StateIsOneLogin, Gathered, Tokened, Holding
<1>2. ASSUME LoginInv, LoginIsWhole, [Next]_vars PROVE LoginIsWhole'
  <2>1. CASE Tick \/ UNCHANGED vars
    <3>1. UNCHANGED <<file, jar, phase>>
      BY <2>1 DEF Tick, vars, authVars
    <3>. QED  BY <1>2, <3>1, OthersStayWhole
  <2>2. ASSUME NEW p \in Procs, ProcStep(p) \/ \E k \in Kinds[p] : StartCommand(p, k)
        PROVE  LoginIsWhole'
    <3>1. CASE AuthStep(p)
      BY <1>2, <3>1, AuthStepStaysWhole
    <3>2. CASE ~AuthStep(p)
      BY <1>2, <2>2, <3>2, CommandMoves, CommandStaysWhole DEF ProcStep
    <3>. QED  BY <3>1, <3>2
  <2>. QED  BY <1>2, <2>1, <2>2 DEF Next
<1>3. LoginIsWhole => StateIsOneLogin
  BY DEF LoginIsWhole
<1>. QED  BY <1>1, <1>2, <1>3, LoginCorrect, PTL DEF Spec

(***************************************************************************)
(* What a command has made.  First the sequences the models are written    *)
(* with: a sequence is a function on the first natural numbers.            *)
(***************************************************************************)
IsSequence(s) == Len(s) \in Nat /\ DOMAIN s = 1..Len(s) /\ s = [i \in 1..Len(s) |-> s[i]]

(* What is appended comes last. *)
LEMMA AppendHolds ==
  ASSUME NEW s, IsSequence(s), NEW e
  PROVE  /\ IsSequence(Append(s, e)) /\ Len(Append(s, e)) = Len(s) + 1
         /\ \A i \in 1..Len(s) : Append(s, e)[i] = s[i]
         /\ Append(s, e)[Len(s) + 1] = e
<1>. DEFINE n == Len(s)
            T == {s[i] : i \in 1..n} \cup {e}
<1>1. n \in Nat /\ s \in [1..n -> T]
  BY DEF IsSequence
<1>2. s \in Seq(T) /\ Len(s) = n
  BY <1>1, LenProperties, SeqDef
<1>. HIDE DEF T
<1>3. /\ Append(s, e) \in Seq(T \cup {e}) /\ Len(Append(s, e)) = n + 1
      /\ \A i \in 1..n : Append(s, e)[i] = s[i]
      /\ Append(s, e)[n + 1] = e
  BY <1>2, AppendProperties DEF T
<1>4. DOMAIN Append(s, e) = 1..(n + 1) /\ Append(s, e) = [i \in 1..(n + 1) |-> Append(s, e)[i]]
  <2>1. Append(s, e) \in [1..(n + 1) -> T \cup {e}]
    BY <1>3, LenProperties
  <2>. QED  BY <2>1
<1>. QED  BY <1>1, <1>3, <1>4 DEF IsSequence

LEMMA SequencesAre == \A S : \A s \in Seq(S) : IsSequence(s)
<1>. SUFFICES ASSUME NEW S, NEW s \in Seq(S) PROVE IsSequence(s)
  OBVIOUS
<1>1. Len(s) \in Nat /\ s \in [1..Len(s) -> S]
  BY LenProperties
<1>. QED  BY <1>1 DEF IsSequence

(* Among, as a table of what is kept of the first rows. *)
KeptOf(s, T, n, F) ==
  F = [i \in 0..n |-> IF i = 0 THEN <<>> ELSE IF s[i] \in T THEN Append(F[i - 1], s[i]) ELSE F[i - 1]]

LEMMA KeptExists == \A s, T : \A n \in Nat : \E F : KeptOf(s, T, n, F)
<1>. SUFFICES ASSUME NEW s, NEW T PROVE \A n \in Nat : \E F : KeptOf(s, T, n, F)
  OBVIOUS
<1>. DEFINE G == {n \in Nat : \E F : KeptOf(s, T, n, F)}
<1>1. 0 \in G
  <2>. DEFINE E == [i \in 0..0 |-> <<>>]
  <2>1. E = [i \in 0..0 |-> IF i = 0 THEN <<>> ELSE IF s[i] \in T THEN Append(E[i - 1], s[i]) ELSE E[i - 1]]
    OBVIOUS
  <2>. HIDE DEF E
  <2>2. KeptOf(s, T, 0, E)
    BY <2>1 DEF KeptOf
  <2>. QED  BY <2>2
<1>2. ASSUME NEW n \in Nat, n \in G PROVE n + 1 \in G
  <2>1. PICK F : KeptOf(s, T, n, F)
    BY <1>2
  <2>. DEFINE Next1 == IF s[n + 1] \in T THEN Append(F[n], s[n + 1]) ELSE F[n]
              E == [i \in 0..(n + 1) |-> IF i = n + 1 THEN Next1 ELSE F[i]]
  <2>2. /\ DOMAIN F = 0..n
        /\ \A i \in 0..n : F[i] = IF i = 0 THEN <<>> ELSE IF s[i] \in T THEN Append(F[i - 1], s[i]) ELSE F[i - 1]
    BY <2>1 DEF KeptOf
  <2>3. /\ \A i \in 0..n : E[i] = F[i]
        /\ E[n + 1] = Next1
    BY <1>2
  <2>4. ASSUME NEW i \in 0..(n + 1)
        PROVE  E[i] = IF i = 0 THEN <<>> ELSE IF s[i] \in T THEN Append(E[i - 1], s[i]) ELSE E[i - 1]
    <3>1. CASE i = n + 1
      <4>1. i # 0 /\ i - 1 = n /\ n \in 0..n
        BY <1>2, <3>1
      <4>. HIDE DEF E
      <4>2. E[i - 1] = F[n] /\ E[i] = Next1
        BY <2>3, <3>1, <4>1
      <4>. QED  BY <3>1, <4>1, <4>2
    <3>2. CASE i # n + 1
      <4>1. i \in 0..n
        BY <1>2, <3>2
      <4>2. i # 0 => i - 1 \in 0..n
        BY <1>2, <4>1
      <4>. HIDE DEF E
      <4>. QED  BY <2>2, <2>3, <4>1, <4>2
    <3>. QED  BY <3>1, <3>2
  <2>5. DOMAIN E = 0..(n + 1) /\ E = [i \in 0..(n + 1) |-> E[i]]
    OBVIOUS
  <2>. HIDE DEF E
  <2>6. KeptOf(s, T, n + 1, E)
    BY <2>4, <2>5 DEF KeptOf
  <2>. QED  BY <1>2, <2>6
<1>. HIDE DEF G
<1>3. Nat \subseteq G
  BY <1>1, <1>2, NaturalInduction
<1>. QED  BY <1>3 DEF G

(* a holds the rows of s up to the n-th that are in T: f leads from each of its places to a place
   of s, in the order of s, and from some place to every such row. *)
Leads(s, T, n, a, f) ==
  /\ IsSequence(a) /\ DOMAIN f = DOMAIN a
  /\ \A j \in DOMAIN a : f[j] \in 1..n /\ a[j] = s[f[j]] /\ a[j] \in T
  /\ \A j, m \in DOMAIN a : j < m => f[j] < f[m]
  /\ \A i \in 1..n : s[i] \in T => \E j \in DOMAIN a : f[j] = i

LEMMA AmongLeads ==
  ASSUME NEW s, IsSequence(s), NEW T
  PROVE  \E f : Leads(s, T, Len(s), Among(s, T), f)
<1>. DEFINE F == CHOOSE g : KeptOf(s, T, Len(s), g)
            G == {n \in Nat : n <= Len(s) => \E f : Leads(s, T, n, F[n], f)}
<1>0. Len(s) \in Nat
  BY DEF IsSequence
<1>1. KeptOf(s, T, Len(s), F)
  BY <1>0, KeptExists
<1>2. Among(s, T) = F[Len(s)]
  BY DEF Among, KeptOf
<1>. HIDE DEF F
<1>3. \A i \in 0..Len(s) : F[i] = IF i = 0 THEN <<>> ELSE IF s[i] \in T THEN Append(F[i - 1], s[i]) ELSE F[i - 1]
  BY <1>1 DEF KeptOf
<1>4. 0 \in G
  <2>. DEFINE none == [j \in {} |-> 0]
  <2>1. F[0] = <<>>
    BY <1>0, <1>3
  <2>2. IsSequence(<<>>) /\ DOMAIN <<>> = {}
    BY DEF IsSequence
  <2>3. Leads(s, T, 0, <<>>, <<>>)
    BY <2>2 DEF Leads
  <2>. QED  BY <2>1, <2>3
<1>5. ASSUME NEW n \in Nat, n \in G PROVE n + 1 \in G
  <2>. SUFFICES ASSUME n + 1 <= Len(s) PROVE \E f : Leads(s, T, n + 1, F[n + 1], f)
    BY <1>5
  <2>1. n <= Len(s)
    BY <1>0, <1>5
  <2>2. PICK f : Leads(s, T, n, F[n], f)
    BY <1>5, <2>1
  <2>3. F[n + 1] = IF s[n + 1] \in T THEN Append(F[n], s[n + 1]) ELSE F[n]
    <3>1. n + 1 \in 0..Len(s) /\ n + 1 # 0 /\ (n + 1) - 1 = n
      BY <1>0, <1>5
    <3>. QED  BY <1>3, <3>1
  <2>. DEFINE a == F[n]
              l == Len(a)
  <2>4. l \in Nat /\ DOMAIN a = 1..l /\ DOMAIN f = 1..l
    BY <2>2 DEF Leads, IsSequence
  <2>5. CASE s[n + 1] \notin T
    <3>1. Leads(s, T, n + 1, a, f)
      <4>1. \A j \in DOMAIN a : f[j] \in 1..(n + 1)
        BY <1>5, <2>2 DEF Leads
      <4>2. \A i \in 1..(n + 1) : s[i] \in T => i \in 1..n
        BY <1>5, <2>5
      <4>. HIDE DEF a
      <4>. QED  BY <2>2, <4>1, <4>2 DEF Leads, a
    <3>. QED  BY <2>3, <2>5, <3>1
  <2>6. CASE s[n + 1] \in T
    <3>. DEFINE b == Append(a, s[n + 1])
                g == [j \in 1..(l + 1) |-> IF j = l + 1 THEN n + 1 ELSE f[j]]
    <3>1. /\ IsSequence(b) /\ Len(b) = l + 1 /\ DOMAIN b = 1..(l + 1)
          /\ \A j \in 1..l : b[j] = a[j]
          /\ b[l + 1] = s[n + 1]
      <4>1. IsSequence(a)
        BY <2>2 DEF Leads
      <4>2. /\ IsSequence(b) /\ Len(b) = l + 1 /\ \A j \in 1..l : b[j] = a[j]
            /\ b[l + 1] = s[n + 1]
        BY <4>1, AppendHolds
      <4>. QED  BY <4>2 DEF IsSequence
    <3>. HIDE DEF a, l, b
    <3>2. \A j \in 1..(l + 1) : j = l + 1 \/ j \in 1..l
      BY <2>4
    <3>3. l + 1 \in 1..(l + 1) /\ \A j \in 1..l : j \in 1..(l + 1) /\ j # l + 1
      BY <2>4
    <3>4. g[l + 1] = n + 1 /\ \A j \in 1..l : g[j] = f[j]
      BY <3>3
    <3>5. DOMAIN g = 1..(l + 1)
      OBVIOUS
    <3>. HIDE DEF g
    <3>6. \A j \in 1..l : f[j] \in 1..n /\ a[j] = s[f[j]] /\ a[j] \in T
      BY <2>2, <2>4 DEF Leads, a
    <3>7. \A j \in DOMAIN b : g[j] \in 1..(n + 1) /\ b[j] = s[g[j]] /\ b[j] \in T
      <4>1. \A j \in 1..l : g[j] \in 1..(n + 1) /\ b[j] = s[g[j]] /\ b[j] \in T
        BY <1>5, <3>1, <3>4, <3>6
      <4>2. g[l + 1] \in 1..(n + 1) /\ b[l + 1] = s[g[l + 1]] /\ b[l + 1] \in T
        BY <1>5, <2>6, <3>1, <3>4
      <4>. QED  BY <3>1, <3>2, <4>1, <4>2
    <3>8. \A j, m \in DOMAIN b : j < m => g[j] < g[m]
      <4>. SUFFICES ASSUME NEW j \in DOMAIN b, NEW m \in DOMAIN b, j < m PROVE g[j] < g[m]
        OBVIOUS
      <4>1. j \in 1..l
        BY <2>4, <3>1
      <4>2. CASE m = l + 1
        BY <1>5, <3>4, <3>6, <4>1, <4>2
      <4>3. CASE m \in 1..l
        <5>1. f[j] < f[m]
          BY <2>2, <2>4, <4>1, <4>3 DEF Leads, a
        <5>. QED  BY <3>4, <4>1, <4>3, <5>1
      <4>. QED  BY <3>1, <3>2, <4>2, <4>3
    <3>9. \A i \in 1..(n + 1) : s[i] \in T => \E j \in DOMAIN b : g[j] = i
      <4>. SUFFICES ASSUME NEW i \in 1..(n + 1), s[i] \in T PROVE \E j \in DOMAIN b : g[j] = i
        OBVIOUS
      <4>1. CASE i = n + 1
        BY <3>1, <3>3, <3>4, <4>1
      <4>2. CASE i \in 1..n
        <5>1. PICK j \in 1..l : f[j] = i
          BY <2>2, <2>4, <4>2 DEF Leads, a
        <5>. QED  BY <3>1, <3>3, <3>4, <5>1
      <4>. QED  BY <1>5, <4>1, <4>2
    <3>10. Leads(s, T, n + 1, b, g)
      BY <3>1, <3>5, <3>7, <3>8, <3>9 DEF Leads
    <3>. QED  BY <2>3, <2>6, <3>10 DEF a, b
  <2>. QED  BY <2>5, <2>6
<1>. HIDE DEF G
<1>6. Nat \subseteq G
  BY <1>4, <1>5, NaturalInduction
<1>7. Len(s) \in G
  BY <1>0, <1>6
<1>8. \E f : Leads(s, T, Len(s), F[Len(s)], f)
  BY <1>0, <1>7 DEF G
<1>. QED  BY <1>2, <1>8

(* Two sequences one after the other. *)
LEMMA ConcatHolds ==
  ASSUME NEW a, NEW b, IsSequence(a), IsSequence(b)
  PROVE  /\ IsSequence(a \o b) /\ Len(a \o b) = Len(a) + Len(b)
         /\ \A i \in 1..Len(a) : (a \o b)[i] = a[i]
         /\ \A i \in 1..Len(b) : (a \o b)[Len(a) + i] = b[i]
<1>. DEFINE n == Len(a)
            m == Len(b)
            T == {a[i] : i \in 1..n} \cup {b[i] : i \in 1..m}
            c == a \o b
<1>1. n \in Nat /\ m \in Nat /\ a \in [1..n -> T] /\ b \in [1..m -> T]
  BY DEF IsSequence
<1>2. a \in Seq(T) /\ b \in Seq(T) /\ Len(a) = n /\ Len(b) = m
  BY <1>1, SeqDef
<1>. HIDE DEF T
<1>3. /\ c \in Seq(T) /\ Len(c) = n + m
      /\ \A i \in 1..(n + m) : c[i] = IF i <= n THEN a[i] ELSE b[i - n]
  BY <1>2, ConcatProperties
<1>. HIDE DEF c, n, m
<1>4. IsSequence(c)
  BY <1>3, SequencesAre
<1>5. ASSUME NEW i \in 1..n PROVE c[i] = a[i]
  BY <1>1, <1>3
<1>6. ASSUME NEW i \in 1..m PROVE c[n + i] = b[i]
  <2>1. n + i \in 1..(n + m) /\ ~(n + i <= n) /\ (n + i) - n = i
    BY <1>1
  <2>. QED  BY <1>3, <2>1
<1>. QED  BY <1>3, <1>4, <1>5, <1>6 DEF c, n, m

(* The sequences of a sequence joined into one, in the order in which they are joined. *)
Joining(s, n, F) == F = [i \in 1 .. n |-> IF i = 1 THEN s[i] ELSE F[i - 1] \o s[i]]

LEMMA JoiningExists == \A s : \A n \in Nat : \E F : Joining(s, n, F)
<1>. SUFFICES ASSUME NEW s PROVE \A n \in Nat : \E F : Joining(s, n, F)
  OBVIOUS
<1>. DEFINE G == {n \in Nat : \E F : Joining(s, n, F)}
<1>1. 0 \in G
  <2>. DEFINE E == [i \in 1 .. 0 |-> s]
  <2>1. E = [i \in 1 .. 0 |-> IF i = 1 THEN s[i] ELSE E[i - 1] \o s[i]]
    OBVIOUS
  <2>. HIDE DEF E
  <2>2. Joining(s, 0, E)
    BY <2>1 DEF Joining
  <2>. QED  BY <2>2
<1>2. ASSUME NEW n \in Nat, n \in G PROVE n + 1 \in G
  <2>1. PICK F : Joining(s, n, F)
    BY <1>2
  <2>. DEFINE last == IF n + 1 = 1 THEN s[n + 1] ELSE F[n] \o s[n + 1]
              E == [i \in 1 .. (n + 1) |-> IF i = n + 1 THEN last ELSE F[i]]
  <2>2. /\ DOMAIN F = 1 .. n
        /\ \A i \in 1 .. n : F[i] = IF i = 1 THEN s[i] ELSE F[i - 1] \o s[i]
    BY <2>1 DEF Joining
  <2>3. /\ \A i \in 1 .. n : E[i] = F[i]
        /\ E[n + 1] = last
    <3>1. n + 1 \in 1 .. (n + 1) /\ \A i \in 1 .. n : i \in 1 .. (n + 1) /\ i # n + 1
      BY <1>2
    <3>. HIDE DEF last
    <3>. QED  BY <3>1
  <2>4. ASSUME NEW i \in 1 .. (n + 1)
        PROVE  E[i] = IF i = 1 THEN s[i] ELSE E[i - 1] \o s[i]
    <3>1. CASE i = n + 1
      <4>1. i # 1 => i - 1 = n /\ n \in 1 .. n
        BY <1>2, <3>1
      <4>. HIDE DEF E
      <4>. QED  BY <2>3, <3>1, <4>1
    <3>2. CASE i # n + 1
      <4>1. i \in 1 .. n
        BY <1>2, <3>2
      <4>2. i # 1 => i - 1 \in 1 .. n
        BY <1>2, <4>1
      <4>. HIDE DEF E
      <4>. QED  BY <2>2, <2>3, <4>1, <4>2
    <3>. QED  BY <3>1, <3>2
  <2>5. DOMAIN E = 1 .. (n + 1) /\ E = [i \in 1 .. (n + 1) |-> E[i]]
    OBVIOUS
  <2>. HIDE DEF E
  <2>6. Joining(s, n + 1, E)
    BY <2>4, <2>5 DEF Joining
  <2>. QED  BY <1>2, <2>6
<1>. HIDE DEF G
<1>3. Nat \subseteq G
  BY <1>1, <1>2, NaturalInduction
<1>. QED  BY <1>3 DEF G

(* FlattenSeq, as such a table. *)
LEMMA FlattenIs ==
  ASSUME NEW s, Len(s) \in Nat
  PROVE  IF Len(s) = 0 THEN FlattenSeq(s) = s
         ELSE \E F : Joining(s, Len(s), F) /\ FlattenSeq(s) = F[Len(s)]
<1>. DEFINE F == CHOOSE f : Joining(s, Len(s), f)
<1>1. Joining(s, Len(s), F)
  BY JoiningExists
<1>2. FlattenSeq(s) = IF Len(s) = 0 THEN s ELSE F[Len(s)]
  BY DEF FlattenSeq, Joining
<1>. QED  BY <1>1, <1>2

(* The elements of the joined sequence are those of its parts. *)
JoinedFrom(s, n, r) ==
  /\ IsSequence(r)
  /\ \A i \in 1..Len(r) : \E k \in 1..n : \E j \in 1..Len(s[k]) : r[i] = s[k][j]
  /\ \A k \in 1..n : \A j \in 1..Len(s[k]) : \E i \in 1..Len(r) : r[i] = s[k][j]

LEMMA JoinOneMore ==
  ASSUME NEW s, NEW n \in Nat, NEW r, JoinedFrom(s, n, r), IsSequence(s[n + 1])
  PROVE  JoinedFrom(s, n + 1, r \o s[n + 1])
<1>. DEFINE c == r \o s[n + 1]
            l == Len(r)
            m == Len(s[n + 1])
<1>1. /\ IsSequence(c) /\ Len(c) = l + m
      /\ \A i \in 1..l : c[i] = r[i]
      /\ \A i \in 1..m : c[l + i] = s[n + 1][i]
  BY ConcatHolds DEF JoinedFrom
<1>2. l \in Nat /\ m \in Nat
  BY DEF JoinedFrom, IsSequence
<1>. HIDE DEF c, l, m
<1>3. ASSUME NEW i \in 1..Len(c) PROVE \E k \in 1..(n + 1) : \E j \in 1..Len(s[k]) : c[i] = s[k][j]
  <2>1. CASE i \in 1..l
    <3>1. PICK k \in 1..n : \E j \in 1..Len(s[k]) : r[i] = s[k][j]
      BY <2>1 DEF JoinedFrom, l
    <3>2. k \in 1..(n + 1)
      OBVIOUS
    <3>. QED  BY <1>1, <2>1, <3>1, <3>2
  <2>2. CASE i \notin 1..l
    <3>1. i - l \in 1..m /\ l + (i - l) = i
      BY <1>1, <1>2, <2>2
    <3>2. c[i] = s[n + 1][i - l]
      BY <1>1, <3>1
    <3>3. n + 1 \in 1..(n + 1) /\ i - l \in 1..Len(s[n + 1])
      BY <3>1 DEF m
    <3>. QED  BY <3>2, <3>3
  <2>. QED  BY <2>1, <2>2
<1>4. ASSUME NEW k \in 1..(n + 1), NEW j \in 1..Len(s[k]) PROVE \E i \in 1..Len(c) : c[i] = s[k][j]
  <2>1. CASE k \in 1..n
    <3>1. PICK i \in 1..l : r[i] = s[k][j]
      BY <2>1 DEF JoinedFrom, l
    <3>2. i \in 1..Len(c)
      BY <1>1, <1>2
    <3>. QED  BY <1>1, <3>1, <3>2
  <2>2. CASE k = n + 1
    <3>1. j \in 1..m /\ c[l + j] = s[k][j]
      BY <1>1, <2>2 DEF m
    <3>2. l + j \in 1..Len(c)
      BY <1>1, <1>2, <3>1
    <3>. QED  BY <3>1, <3>2
  <2>. QED  BY <2>1, <2>2
<1>. QED  BY <1>1, <1>3, <1>4 DEF JoinedFrom, c

LEMMA FlattenHolds ==
  ASSUME NEW s, Len(s) \in Nat \ {0}, \A i \in 1..Len(s) : IsSequence(s[i])
  PROVE  JoinedFrom(s, Len(s), FlattenSeq(s))
<1>1. PICK F : Joining(s, Len(s), F) /\ FlattenSeq(s) = F[Len(s)]
  BY FlattenIs
<1>2. \A i \in 1..Len(s) : F[i] = IF i = 1 THEN s[i] ELSE F[i - 1] \o s[i]
  BY <1>1 DEF Joining
<1>. DEFINE G == {n \in Nat : n \in 1..Len(s) => JoinedFrom(s, n, F[n])}
<1>3. 0 \in G
  OBVIOUS
<1>4. ASSUME NEW n \in Nat, n \in G PROVE n + 1 \in G
  <2>. SUFFICES ASSUME n + 1 \in 1..Len(s) PROVE JoinedFrom(s, n + 1, F[n + 1])
    OBVIOUS
  <2>1. CASE n = 0
    <3>1. F[1] = s[1] /\ IsSequence(s[1]) /\ \A k \in 1..1 : k = 1
      BY <1>2, <2>1
    <3>2. JoinedFrom(s, 1, s[1])
      BY <3>1 DEF JoinedFrom
    <3>. QED  BY <2>1, <3>1, <3>2
  <2>2. CASE n # 0
    <3>1. n \in 1..Len(s) /\ n + 1 # 1 /\ (n + 1) - 1 = n
      BY <2>2
    <3>2. JoinedFrom(s, n, F[n]) /\ IsSequence(s[n + 1])
      BY <1>4, <3>1
    <3>3. F[n + 1] = F[n] \o s[n + 1]
      BY <1>2, <3>1
    <3>. QED  BY <3>2, <3>3, JoinOneMore
  <2>. QED  BY <2>1, <2>2
<1>. HIDE DEF G
<1>5. Nat \subseteq G
  BY <1>3, <1>4, NaturalInduction
<1>6. Len(s) \in G /\ Len(s) \in 1..Len(s)
  BY <1>5
<1>. QED  BY <1>1, <1>6 DEF G

(* Rounds of five steps each, joined: the same five requests, for the first to the n-th. *)
RoundOf(asks, k) == << Step(asks[1], k), Step(asks[2], k), Step(asks[3], k), Step(asks[4], k), Step(asks[5], k) >>

Rounds(asks, n, r) ==
  /\ IsSequence(r) /\ Len(r) = 5 * n
  /\ \A k \in 1..n : \A j \in 1..5 : r[5 * (k - 1) + j] = Step(asks[j], k)

LEMMA RoundHolds ==
  ASSUME NEW asks, NEW k
  PROVE  /\ IsSequence(RoundOf(asks, k)) /\ Len(RoundOf(asks, k)) = 5
         /\ \A j \in 1..5 : RoundOf(asks, k)[j] = Step(asks[j], k)
<1>. DEFINE t == RoundOf(asks, k)
<1>1. Len(t) = 5 /\ DOMAIN t = 1..5 /\ t = [j \in 1..5 |-> t[j]]
  BY DEF RoundOf
<1>2. \A j \in 1..5 : j = 1 \/ j = 2 \/ j = 3 \/ j = 4 \/ j = 5
  OBVIOUS
<1>3. /\ t[1] = Step(asks[1], k) /\ t[2] = Step(asks[2], k) /\ t[3] = Step(asks[3], k)
      /\ t[4] = Step(asks[4], k) /\ t[5] = Step(asks[5], k)
  BY DEF RoundOf
<1>. HIDE DEF t
<1>4. IsSequence(t)
  BY <1>1 DEF IsSequence
<1>5. \A j \in 1..5 : t[j] = Step(asks[j], k)
  BY <1>2, <1>3
<1>. QED  BY <1>1, <1>4, <1>5 DEF t

LEMMA RoundsOneMore ==
  ASSUME NEW asks, NEW n \in Nat, NEW r, Rounds(asks, n, r)
  PROVE  Rounds(asks, n + 1, r \o RoundOf(asks, n + 1))
<1>1. PICK t : /\ t = RoundOf(asks, n + 1) /\ IsSequence(t) /\ Len(t) = 5
               /\ \A j \in 1..5 : t[j] = Step(asks[j], n + 1)
  BY RoundHolds
<1>. DEFINE c == r \o t
<1>2. IsSequence(r) /\ Len(r) = 5 * n
  BY DEF Rounds
<1>3. /\ IsSequence(c) /\ Len(c) = Len(r) + 5
      /\ \A i \in 1..Len(r) : c[i] = r[i]
      /\ \A i \in 1..5 : c[Len(r) + i] = t[i]
  <2>1. /\ IsSequence(c) /\ Len(c) = Len(r) + Len(t)
        /\ \A i \in 1..Len(r) : c[i] = r[i]
        /\ \A i \in 1..Len(t) : c[Len(r) + i] = t[i]
    <3>1. IsSequence(r) /\ IsSequence(t)
      BY <1>1, <1>2
    <3>. HIDE DEF c
    <3>2. \A u : u = r \o t =>
            /\ IsSequence(u) /\ Len(u) = Len(r) + Len(t)
            /\ \A i \in 1..Len(r) : u[i] = r[i]
            /\ \A i \in 1..Len(t) : u[Len(r) + i] = t[i]
      BY <3>1, ConcatHolds
    <3>. QED  BY <3>2 DEF c
  <2>. QED  BY <1>1, <2>1, Zenon
<1>. HIDE DEF c
<1>4. Len(c) = 5 * (n + 1)
  BY <1>2, <1>3
<1>5. ASSUME NEW k \in 1..(n + 1), NEW j \in 1..5 PROVE c[5 * (k - 1) + j] = Step(asks[j], k)
  <2>1. CASE k = n + 1
    <3>1. 5 * (k - 1) + j = Len(r) + j
      BY <1>2, <2>1
    <3>. QED  BY <1>1, <1>3, <2>1, <3>1
  <2>2. CASE k # n + 1
    <3>1. k \in 1..n /\ 5 * (k - 1) + j \in 1..Len(r)
      BY <1>2, <2>2
    <3>2. r[5 * (k - 1) + j] = Step(asks[j], k)
      BY <3>1 DEF Rounds
    <3>. QED  BY <1>3, <3>1, <3>2
  <2>. QED  BY <2>1, <2>2
<1>. QED  BY <1>1, <1>3, <1>4, <1>5 DEF Rounds, c

LEMMA FlattenRounds ==
  ASSUME NEW asks, NEW n \in Nat, NEW s, s = [k \in 1..n |-> RoundOf(asks, k)]
  PROVE  Rounds(asks, n, FlattenSeq(s))
<1>1. Len(s) = n
  OBVIOUS
<1>2. CASE n = 0
  <2>1. FlattenSeq(s) = s
    BY <1>1, <1>2, FlattenIs
  <2>2. IsSequence(s)
    BY <1>1 DEF IsSequence
  <2>. QED  BY <1>1, <1>2, <2>1, <2>2 DEF Rounds
<1>3. CASE n # 0
  <2>1. PICK F : Joining(s, n, F) /\ FlattenSeq(s) = F[n]
    BY <1>1, <1>3, FlattenIs
  <2>2. \A i \in 1..n : F[i] = IF i = 1 THEN RoundOf(asks, i) ELSE F[i - 1] \o RoundOf(asks, i)
    BY <2>1 DEF Joining
  <2>. DEFINE G == {m \in Nat : m \in 1..n => Rounds(asks, m, F[m])}
  <2>3. 0 \in G
    OBVIOUS
  <2>4. ASSUME NEW m \in Nat, m \in G PROVE m + 1 \in G
    <3>. SUFFICES ASSUME m + 1 \in 1..n PROVE Rounds(asks, m + 1, F[m + 1])
      OBVIOUS
    <3>1. CASE m = 0
      <4>1. F[1] = RoundOf(asks, 1)
        BY <2>2, <3>1
      <4>2. Rounds(asks, 1, RoundOf(asks, 1))
        <5>1. \A k \in 1..1 : k = 1
          OBVIOUS
        <5>2. \A j \in 1..5 : 5 * (1 - 1) + j = j
          OBVIOUS
        <5>. QED  BY <5>1, <5>2, RoundHolds DEF Rounds
      <4>. QED  BY <3>1, <4>1, <4>2
    <3>2. CASE m # 0
      <4>1. m \in 1..n /\ m + 1 # 1 /\ (m + 1) - 1 = m
        BY <3>2
      <4>2. Rounds(asks, m, F[m]) /\ F[m + 1] = F[m] \o RoundOf(asks, m + 1)
        BY <2>2, <2>4, <4>1
      <4>. QED  BY <4>2, RoundsOneMore
    <3>. QED  BY <3>1, <3>2
  <2>. HIDE DEF G
  <2>5. Nat \subseteq G
    BY <2>3, <2>4, NaturalInduction
  <2>6. n \in G /\ n \in 1..n
    BY <1>3, <2>5
  <2>. QED  BY <2>1, <2>6 DEF G
<1>. QED  BY <1>2, <1>3

(***************************************************************************)
(* What the plans have in common: no step is in a plan twice, and only the *)
(* plan of the unlinked shipments has steps that may be passed over.       *)
(***************************************************************************)
NameOf(step) == <<step.ask, step.of>>

PlanFits(k, plan) ==
  /\ IsSequence(plan) /\ Len(plan) >= 1
  /\ \A i \in DOMAIN plan : plan[i] = Step(plan[i].ask, plan[i].of)
  /\ \A i, j \in DOMAIN plan : NameOf(plan[i]) = NameOf(plan[j]) => i = j
  /\ \A i \in DOMAIN plan : plan[i].ask = "total" =>
       /\ k = "unlinked" /\ i + 4 \in DOMAIN plan
       /\ \A m \in 1..4 : i + m \in DOMAIN plan /\ plan[i + m].ask # "total"

LEMMA StepIs ==
  ASSUME NEW ask, NEW of
  PROVE  Step(ask, of).ask = ask /\ Step(ask, of).of = of /\ NameOf(Step(ask, of)) = <<ask, of>>
BY DEF Step, NameOf

(* A plan that is given step by step. *)
ListedAs(plan, asks) ==
  /\ IsSequence(plan) /\ Len(plan) >= 1
  /\ \A i \in 1..Len(plan) : plan[i] = Step(asks[i], 1) /\ asks[i] # "total"
  /\ \A i, j \in 1..Len(plan) : asks[i] = asks[j] => i = j

LEMMA ListedPlanFits == ASSUME NEW k, NEW plan, NEW asks, ListedAs(plan, asks) PROVE PlanFits(k, plan)
<1>1. DOMAIN plan = 1..Len(plan)
  BY DEF ListedAs, IsSequence
<1>2. \A i \in 1..Len(plan) : plan[i].ask = asks[i] /\ plan[i].of = 1 /\ NameOf(plan[i]) = <<asks[i], 1>>
  BY StepIs DEF ListedAs
<1>. QED  BY <1>1, <1>2 DEF PlanFits, ListedAs

LEMMA ShortPlansFit ==
  \A k \in {"msku", "store_msku", "stores", "warehouse", "wms"} : PlanFits(k, Plans[k])
<1>1. PlanFits("msku", MskuPlan)
  <2>. DEFINE asks == << "msku_ids", "msku_url", "file" >>
  <2>1. \A i \in 1..3 : i = 1 \/ i = 2 \/ i = 3
    OBVIOUS
  <2>2. /\ Len(MskuPlan) = 3 /\ DOMAIN MskuPlan = 1..3 /\ MskuPlan = [i \in 1..3 |-> MskuPlan[i]]
        /\ \A i \in 1..3 : MskuPlan[i] = Step(asks[i], 1)
    BY <2>1 DEF MskuPlan
  <2>3. \A i \in 1..3 : asks[i] # "total"
    BY <2>1
  <2>4. \A i, j \in 1..3 : asks[i] = asks[j] => i = j
    BY <2>1
  <2>. HIDE DEF asks
  <2>5. ListedAs(MskuPlan, asks)
    BY <2>2, <2>3, <2>4 DEF ListedAs, IsSequence
  <2>. QED  BY <2>5, ListedPlanFits
<1>2. PlanFits("store_msku", StoreMskuPlan)
  <2>. DEFINE asks == << "store_ids", "store_url", "file" >>
  <2>1. \A i \in 1..3 : i = 1 \/ i = 2 \/ i = 3
    OBVIOUS
  <2>2. /\ Len(StoreMskuPlan) = 3 /\ DOMAIN StoreMskuPlan = 1..3
        /\ StoreMskuPlan = [i \in 1..3 |-> StoreMskuPlan[i]]
        /\ \A i \in 1..3 : StoreMskuPlan[i] = Step(asks[i], 1)
    BY <2>1 DEF StoreMskuPlan
  <2>3. \A i \in 1..3 : asks[i] # "total"
    BY <2>1
  <2>4. \A i, j \in 1..3 : asks[i] = asks[j] => i = j
    BY <2>1
  <2>. HIDE DEF asks
  <2>5. ListedAs(StoreMskuPlan, asks)
    BY <2>2, <2>3, <2>4 DEF ListedAs, IsSequence
  <2>. QED  BY <2>5, ListedPlanFits
<1>3. PlanFits("stores", StoresPlan)
  <2>. DEFINE asks == << "stores" >>
  <2>1. \A i \in 1..1 : i = 1
    OBVIOUS
  <2>2. /\ Len(StoresPlan) = 1 /\ DOMAIN StoresPlan = 1..1 /\ StoresPlan = [i \in 1..1 |-> StoresPlan[i]]
        /\ \A i \in 1..1 : StoresPlan[i] = Step(asks[i], 1)
    BY <2>1 DEF StoresPlan
  <2>3. \A i \in 1..1 : asks[i] # "total"
    BY <2>1
  <2>4. \A i, j \in 1..1 : asks[i] = asks[j] => i = j
    BY <2>1
  <2>. HIDE DEF asks
  <2>5. ListedAs(StoresPlan, asks)
    BY <2>2, <2>3, <2>4 DEF ListedAs, IsSequence
  <2>. QED  BY <2>5, ListedPlanFits
<1>4. PlanFits("wms", WmsPlan)
  <2>. DEFINE asks == << "excel" >>
  <2>1. \A i \in 1..1 : i = 1
    OBVIOUS
  <2>2. /\ Len(WmsPlan) = 1 /\ DOMAIN WmsPlan = 1..1 /\ WmsPlan = [i \in 1..1 |-> WmsPlan[i]]
        /\ \A i \in 1..1 : WmsPlan[i] = Step(asks[i], 1)
    BY <2>1 DEF WmsPlan
  <2>3. \A i \in 1..1 : asks[i] # "total"
    BY <2>1
  <2>4. \A i, j \in 1..1 : asks[i] = asks[j] => i = j
    BY <2>1
  <2>. HIDE DEF asks
  <2>5. ListedAs(WmsPlan, asks)
    BY <2>2, <2>3, <2>4 DEF ListedAs, IsSequence
  <2>. QED  BY <2>5, ListedPlanFits
<1>5. PlanFits("warehouse", WarehousePlan)
  <2>. DEFINE asks == << "search", "stock" >>
  <2>1. \A i \in 1..2 : i = 1 \/ i = 2
    OBVIOUS
  <2>2. /\ Len(WarehousePlan) = 2 /\ DOMAIN WarehousePlan = 1..2
        /\ WarehousePlan = [i \in 1..2 |-> WarehousePlan[i]]
        /\ \A i \in 1..2 : WarehousePlan[i] = Step(asks[i], 1)
    BY <2>1 DEF WarehousePlan
  <2>3. \A i \in 1..2 : asks[i] # "total"
    BY <2>1
  <2>4. \A i, j \in 1..2 : asks[i] = asks[j] => i = j
    BY <2>1
  <2>. HIDE DEF asks
  <2>5. ListedAs(WarehousePlan, asks)
    BY <2>2, <2>3, <2>4 DEF ListedAs, IsSequence
  <2>. QED  BY <2>5, ListedPlanFits
<1>6. /\ Plans["msku"] = MskuPlan /\ Plans["store_msku"] = StoreMskuPlan /\ Plans["stores"] = StoresPlan
      /\ Plans["wms"] = WmsPlan /\ Plans["warehouse"] = WarehousePlan
  BY DEF Plans
<1>. QED  BY <1>1, <1>2, <1>3, <1>4, <1>5, <1>6

LEMMA DeliveryPlanFits == PlanFits("delivery", DeliveryPlan)
<1>. DEFINE asks == << "delivery", "delivery_task", "task_row", "task_info", "file" >>
<1>1. \A i \in 1..5 : i = 1 \/ i = 2 \/ i = 3 \/ i = 4 \/ i = 5
  OBVIOUS
<1>2. DeliveryPlan = RoundOf(asks, 1)
  BY DEF DeliveryPlan, RoundOf
<1>3. \A i \in 1..5 : asks[i] # "total"
  BY <1>1
<1>4. \A i, j \in 1..5 : asks[i] = asks[j] => i = j
  BY <1>1
<1>. HIDE DEF asks
<1>5. /\ IsSequence(DeliveryPlan) /\ Len(DeliveryPlan) = 5
      /\ \A j \in 1..5 : DeliveryPlan[j] = Step(asks[j], 1)
  BY <1>2, RoundHolds
<1>6. ListedAs(DeliveryPlan, asks)
  BY <1>3, <1>4, <1>5 DEF ListedAs
<1>. QED  BY <1>6, ListedPlanFits

(* The places of a plan that is made in rounds. *)
LEMMA RoundPlaces ==
  ASSUME NEW n \in Nat, NEW i \in 1..(5 * n)
  PROVE  \E k \in 1..n : \E j \in 1..5 : i = 5 * (k - 1) + j
<1>. DEFINE q == (i - 1) \div 5
            m == (i - 1) % 5
<1>1. i - 1 = 5 * q + m /\ q \in Int /\ m \in 0..4
  OBVIOUS
<1>. HIDE DEF q, m
<1>2. q + 1 \in 1..n /\ m + 1 \in 1..5 /\ i = 5 * ((q + 1) - 1) + (m + 1)
  BY <1>1
<1>. QED  BY <1>2

LEMMA RoundsFit ==
  ASSUME NEW asks, NEW n \in Nat, NEW r, Rounds(asks, n, r), \A i, j \in 1..5 : asks[i] = asks[j] => i = j
  PROVE  /\ \A i \in 1..(5 * n) : \E k \in 1..n : \E j \in 1..5 :
              i = 5 * (k - 1) + j /\ r[i] = Step(asks[j], k)
         /\ \A i, h \in 1..(5 * n) : NameOf(r[i]) = NameOf(r[h]) => i = h
<1>1. ASSUME NEW i \in 1..(5 * n)
      PROVE  \E k \in 1..n : \E j \in 1..5 : i = 5 * (k - 1) + j /\ r[i] = Step(asks[j], k)
  <2>1. PICK k \in 1..n, j \in 1..5 : i = 5 * (k - 1) + j
    BY RoundPlaces
  <2>2. r[5 * (k - 1) + j] = Step(asks[j], k)
    BY DEF Rounds
  <2>. QED  BY <2>1, <2>2
<1>2. ASSUME NEW i \in 1..(5 * n), NEW h \in 1..(5 * n), NameOf(r[i]) = NameOf(r[h]) PROVE i = h
  <2>1. PICK k \in 1..n, j \in 1..5 : i = 5 * (k - 1) + j /\ r[i] = Step(asks[j], k)
    BY <1>1
  <2>2. PICK l \in 1..n, m \in 1..5 : h = 5 * (l - 1) + m /\ r[h] = Step(asks[m], l)
    BY <1>1
  <2>3. k = l /\ asks[j] = asks[m]
    BY <1>2, <2>1, <2>2, StepIs
  <2>. QED  BY <2>1, <2>2, <2>3
<1>. QED  BY <1>1, <1>2

StockAsks == << "step1", "step2", "step3", "step4", "file" >>
StatusAsks == << "total", "status_task", "task_row", "task_info", "file" >>

LEMMA AsksDiffer ==
  /\ \A i, j \in 1..5 : StockAsks[i] = StockAsks[j] => i = j
  /\ \A i, j \in 1..5 : StatusAsks[i] = StatusAsks[j] => i = j
  /\ \A i \in 1..5 : StockAsks[i] # "total" /\ (StockAsks[i] = "file" => i = 5)
  /\ \A i \in 1..5 : StatusAsks[i] # "shop" /\ (StatusAsks[i] = "total" => i = 1)
<1>1. \A i \in 1..5 : i = 1 \/ i = 2 \/ i = 3 \/ i = 4 \/ i = 5
  OBVIOUS
<1>. QED  BY <1>1 DEF StockAsks, StatusAsks

LEMMA StockPlanIs == Len(Batches) \in Nat \ {0} /\ Rounds(StockAsks, Len(Batches), StockPlan)
<1>. DEFINE n == Len(Batches)
            s == [b \in DOMAIN Batches |->
                   << Step("step1", b), Step("step2", b), Step("step3", b), Step("step4", b), Step("file", b) >>]
<1>1. n \in Nat /\ n # 0 /\ DOMAIN Batches = 1..n
  BY ListsAssumption, LenProperties, EmptySeq
<1>2. s = [b \in 1..n |-> RoundOf(StockAsks, b)]
  <2>1. \A b : RoundOf(StockAsks, b)
               = << Step("step1", b), Step("step2", b), Step("step3", b), Step("step4", b), Step("file", b) >>
    BY DEF RoundOf, StockAsks
  <2>. QED  BY <1>1, <2>1
<1>3. StockPlan = FlattenSeq(s)
  BY DEF StockPlan
<1>. HIDE DEF n, s
<1>4. Rounds(StockAsks, n, FlattenSeq(s))
  BY <1>1, <1>2, FlattenRounds
<1>. QED  BY <1>1, <1>3, <1>4 DEF n

LEMMA StockPlanFits == PlanFits("stock", StockPlan)
<1>. DEFINE n == Len(Batches)
            r == StockPlan
<1>1. n \in Nat \ {0} /\ Rounds(StockAsks, n, r)
  BY StockPlanIs
<1>. HIDE DEF n, r
<1>2. IsSequence(r) /\ Len(r) = 5 * n /\ DOMAIN r = 1..(5 * n)
  BY <1>1 DEF Rounds, IsSequence
<1>3. /\ \A i \in 1..(5 * n) : \E k \in 1..n : \E j \in 1..5 : i = 5 * (k - 1) + j /\ r[i] = Step(StockAsks[j], k)
      /\ \A i, h \in 1..(5 * n) : NameOf(r[i]) = NameOf(r[h]) => i = h
  BY <1>1, RoundsFit, AsksDiffer
<1>4. ASSUME NEW i \in 1..(5 * n) PROVE r[i] = Step(r[i].ask, r[i].of) /\ r[i].ask # "total"
  BY <1>3, StepIs, AsksDiffer
<1>. QED  BY <1>1, <1>2, <1>3, <1>4 DEF PlanFits, r

LEMMA UnlinkedPlanIs ==
  \E r : /\ Rounds(StatusAsks, Statuses, r)
         /\ IsSequence(UnlinkedPlan) /\ Len(UnlinkedPlan) = 5 * Statuses + 1
         /\ UnlinkedPlan[1] = Step("shop", 1)
         /\ \A i \in 1..(5 * Statuses) : UnlinkedPlan[1 + i] = r[i]
<1>. DEFINE n == Statuses
            s == [b \in 1..Statuses |->
                   << Step("total", b), Step("status_task", b), Step("task_row", b), Step("task_info", b),
                      Step("file", b) >>]
            first == << Step("shop", 1) >>
            r == FlattenSeq(s)
<1>1. n \in Nat
  BY ListsAssumption
<1>2. s = [b \in 1..n |-> RoundOf(StatusAsks, b)]
  <2>1. \A b : RoundOf(StatusAsks, b)
               = << Step("total", b), Step("status_task", b), Step("task_row", b), Step("task_info", b),
                    Step("file", b) >>
    BY DEF RoundOf, StatusAsks
  <2>. QED  BY <2>1
<1>3. UnlinkedPlan = first \o r
  BY DEF UnlinkedPlan
<1>. HIDE DEF s
<1>4. Rounds(StatusAsks, n, r)
  BY <1>1, <1>2, FlattenRounds
<1>. HIDE DEF r
<1>5. IsSequence(first) /\ Len(first) = 1 /\ first[1] = Step("shop", 1)
  <2>1. Len(first) = 1 /\ DOMAIN first = 1..1 /\ first = [i \in 1..1 |-> first[i]] /\ first[1] = Step("shop", 1)
    OBVIOUS
  <2>. HIDE DEF first
  <2>. QED  BY <2>1 DEF IsSequence
<1>. HIDE DEF first, n
<1>6. \A u : u = first \o r =>
        /\ IsSequence(u) /\ Len(u) = Len(first) + Len(r)
        /\ \A i \in 1..Len(first) : u[i] = first[i]
        /\ \A i \in 1..Len(r) : u[Len(first) + i] = r[i]
  <2>1. IsSequence(first) /\ IsSequence(r)
    BY <1>4, <1>5 DEF Rounds
  <2>. QED  BY <2>1, ConcatHolds
<1>7. Len(r) = 5 * n
  BY <1>4 DEF Rounds
<1>8. /\ IsSequence(UnlinkedPlan) /\ Len(UnlinkedPlan) = 1 + 5 * n
      /\ UnlinkedPlan[1] = first[1]
      /\ \A i \in 1..(5 * n) : UnlinkedPlan[1 + i] = r[i]
  <2>1. /\ IsSequence(UnlinkedPlan) /\ Len(UnlinkedPlan) = Len(first) + Len(r)
        /\ \A i \in 1..Len(first) : UnlinkedPlan[i] = first[i]
        /\ \A i \in 1..Len(r) : UnlinkedPlan[Len(first) + i] = r[i]
    BY <1>3, <1>6
  <2>2. Len(first) = 1 /\ 1 \in 1..Len(first)
    BY <1>5
  <2>. QED  BY <1>7, <2>1, <2>2, Zenon
<1>9. 1 + 5 * n = 5 * n + 1
  BY <1>1
<1>. QED  BY <1>4, <1>5, <1>8, <1>9 DEF n

(* Where the total of a state is asked for. *)
TotalAt(s) == 5 * (s - 1) + 2

LEMMA UnlinkedPlanFits ==
  /\ PlanFits("unlinked", UnlinkedPlan)
  /\ \A s \in 1..Statuses : TotalAt(s) \in DOMAIN UnlinkedPlan /\ NameOf(UnlinkedPlan[TotalAt(s)]) = <<"total", s>>
                            /\ UnlinkedPlan[TotalAt(s)].ask = "total"
<1>. DEFINE n == Statuses
            u == UnlinkedPlan
<1>1. n \in Nat
  BY ListsAssumption
<1>2. PICK r : /\ Rounds(StatusAsks, n, r)
               /\ IsSequence(u) /\ Len(u) = 5 * n + 1
               /\ u[1] = Step("shop", 1)
               /\ \A i \in 1..(5 * n) : u[1 + i] = r[i]
  BY UnlinkedPlanIs
<1>. HIDE DEF n, u
<1>3. DOMAIN u = 1..(5 * n + 1)
  BY <1>2 DEF IsSequence
<1>4. /\ \A i \in 1..(5 * n) : \E k \in 1..n : \E j \in 1..5 : i = 5 * (k - 1) + j /\ r[i] = Step(StatusAsks[j], k)
      /\ \A i, h \in 1..(5 * n) : NameOf(r[i]) = NameOf(r[h]) => i = h
  <2>1. \A i, j \in 1..5 : StatusAsks[i] = StatusAsks[j] => i = j
    BY AsksDiffer
  <2>2. Rounds(StatusAsks, n, r)
    BY <1>2
  <2>. QED  BY <1>1, <2>1, <2>2, RoundsFit
<1>5. \A i \in 1..(5 * n + 1) : i = 1 \/ (i - 1 \in 1..(5 * n) /\ u[i] = r[i - 1])
  <2>. SUFFICES ASSUME NEW i \in 1..(5 * n + 1), i # 1 PROVE i - 1 \in 1..(5 * n) /\ u[i] = r[i - 1]
    OBVIOUS
  <2>1. i - 1 \in 1..(5 * n) /\ 1 + (i - 1) = i
    BY <1>1
  <2>2. u[1 + (i - 1)] = r[i - 1]
    BY <1>2, <2>1
  <2>. QED  BY <2>1, <2>2
<1>6. \A i \in 1..(5 * n) : r[i].ask # "shop" /\ r[i] = Step(r[i].ask, r[i].of)
  BY <1>4, StepIs, AsksDiffer
<1>7. u[1].ask = "shop" /\ NameOf(u[1])[1] = "shop"
  BY <1>2, StepIs
<1>8. ASSUME NEW i \in 1..(5 * n + 1) PROVE u[i] = Step(u[i].ask, u[i].of)
  BY <1>2, <1>5, <1>6, StepIs
<1>9. ASSUME NEW i \in 1..(5 * n + 1), NEW h \in 1..(5 * n + 1), NameOf(u[i]) = NameOf(u[h]) PROVE i = h
  <2>1. u[i].ask = u[h].ask
    BY <1>9 DEF NameOf
  <2>2. CASE i = 1 /\ h # 1
    BY <1>5, <1>6, <1>7, <2>1, <2>2
  <2>3. CASE i # 1 /\ h = 1
    BY <1>5, <1>6, <1>7, <2>1, <2>3
  <2>4. CASE i # 1 /\ h # 1
    <3>1. i - 1 \in 1..(5 * n) /\ h - 1 \in 1..(5 * n) /\ NameOf(r[i - 1]) = NameOf(r[h - 1])
      BY <1>5, <1>9, <2>4
    <3>2. i - 1 = h - 1
      BY <1>4, <3>1
    <3>. QED  BY <3>2
  <2>. QED  BY <2>2, <2>3, <2>4
<1>10. ASSUME NEW k \in 1..n, NEW j \in 1..5
       PROVE  5 * (k - 1) + j + 1 \in 1..(5 * n + 1) /\ u[5 * (k - 1) + j + 1] = Step(StatusAsks[j], k)
  <2>1. 5 * (k - 1) + j \in 1..(5 * n) /\ 1 + (5 * (k - 1) + j) = 5 * (k - 1) + j + 1
    BY <1>1
  <2>2. u[1 + (5 * (k - 1) + j)] = r[5 * (k - 1) + j] /\ r[5 * (k - 1) + j] = Step(StatusAsks[j], k)
    BY <1>2, <2>1 DEF Rounds
  <2>3. 5 * (k - 1) + j + 1 \in 1..(5 * n + 1)
    BY <1>1, <2>1
  <2>. QED  BY <2>1, <2>2, <2>3
<1>11. ASSUME NEW i \in 1..(5 * n + 1), u[i].ask = "total"
       PROVE  /\ i + 4 \in 1..(5 * n + 1)
              /\ \A m \in 1..4 : i + m \in 1..(5 * n + 1) /\ u[i + m].ask # "total"
  <2>1. i - 1 \in 1..(5 * n) /\ u[i] = r[i - 1]
    BY <1>5, <1>7, <1>11
  <2>2. PICK k \in 1..n, j \in 1..5 : i - 1 = 5 * (k - 1) + j /\ r[i - 1] = Step(StatusAsks[j], k)
    BY <1>4, <2>1
  <2>3. j = 1
    BY <1>11, <2>1, <2>2, StepIs, AsksDiffer
  <2>4. ASSUME NEW m \in 1..4 PROVE i + m \in 1..(5 * n + 1) /\ u[i + m].ask # "total"
    <3>1. m + 1 \in 1..5 /\ m + 1 # 1 /\ 5 * (k - 1) + (m + 1) + 1 = i + m
      BY <2>2, <2>3
    <3>2. i + m \in 1..(5 * n + 1) /\ u[i + m] = Step(StatusAsks[m + 1], k)
      BY <1>10, <3>1
    <3>. QED  BY <3>1, <3>2, StepIs, AsksDiffer
  <2>5. 4 \in 1..4
    OBVIOUS
  <2>. QED  BY <2>4, <2>5
<1>12. PlanFits("unlinked", u)
  <2>1. Len(u) >= 1
    BY <1>1, <1>2
  <2>. QED  BY <1>2, <1>3, <1>8, <1>9, <1>11, <2>1 DEF PlanFits
<1>13. ASSUME NEW s \in 1..n
       PROVE  TotalAt(s) \in DOMAIN u /\ NameOf(u[TotalAt(s)]) = <<"total", s>> /\ u[TotalAt(s)].ask = "total"
  <2>1. 1 \in 1..5 /\ TotalAt(s) = 5 * (s - 1) + 1 + 1 /\ StatusAsks[1] = "total"
    BY <1>1 DEF TotalAt, StatusAsks
  <2>2. TotalAt(s) \in 1..(5 * n + 1) /\ u[TotalAt(s)] = Step("total", s)
    BY <1>10, <2>1
  <2>. QED  BY <1>3, <2>2, StepIs
<1>. QED  BY <1>12, <1>13 DEF n, u

LEMMA PlansFit == \A k \in DOMAIN Plans : PlanFits(k, Plans[k])
<1>1. DOMAIN Plans = {"msku", "store_msku", "delivery", "unlinked", "stock", "stores", "warehouse", "wms"}
  BY DEF Plans
<1>2. Plans["delivery"] = DeliveryPlan /\ Plans["unlinked"] = UnlinkedPlan /\ Plans["stock"] = StockPlan
  BY DEF Plans
<1>. QED  BY <1>1, <1>2, ShortPlansFit, DeliveryPlanFits, StockPlanFits, UnlinkedPlanFits

(***************************************************************************)
(* A command that is under way: k is what it does, a the step it is at, m  *)
(* what it has made in its n-th attempt.                                   *)
(***************************************************************************)
EntryHolds(k, e) ==
  /\ k = "stock" /\ e.ask = "file" => e.content = StockFile[e.of]
  /\ k = "msku" /\ e.ask = "file" => e.content = DetailFile
  /\ e.ask = "stores" => e.content = StoreList
  /\ e.ask = "excel" => e.content = BoxRows

Underway(k, a, m, n) ==
  /\ k \in DOMAIN Plans /\ IsSequence(m) /\ a \in 1..(Len(Plans[k]) + 1)
  /\ \A i \in DOMAIN m : m[i].attempt = n /\ EntryHolds(k, m[i])
  /\ \A i \in DOMAIN m : \E j \in 1..(a - 1) : NameOf(m[i]) = NameOf(Plans[k][j])
  /\ \A i, j \in DOMAIN m : i < j => NameOf(m[i]) # NameOf(m[j])
  /\ k # "unlinked" => Len(m) = a - 1 /\ \A i \in DOMAIN m : NameOf(m[i]) = NameOf(Plans[k][i])
  /\ \A j \in 1..(a - 1) : Plans[k][j].ask = "total" => \E i \in DOMAIN m : NameOf(m[i]) = NameOf(Plans[k][j])

LEMMA BeginsUnderway == ASSUME NEW k \in DOMAIN Plans, NEW n PROVE Underway(k, 1, <<>>, n)
<1>1. Len(Plans[k]) \in Nat
  BY PlansFit DEF PlanFits, IsSequence
<1>2. IsSequence(<<>>) /\ DOMAIN <<>> = {} /\ Len(<<>>) = 0
  BY DEF IsSequence
<1>. QED  BY <1>1, <1>2 DEF Underway

LEMMA GoesOnUnderway ==
  ASSUME NEW k, NEW a, NEW m, NEW n, Underway(k, a, m, n), a <= Len(Plans[k]),
         NEW e, e.attempt = n, EntryHolds(k, e), NameOf(e) = NameOf(Plans[k][a]),
         NEW jump \in {0, 4}, jump = 4 => Plans[k][a].ask = "total"
  PROVE  Underway(k, a + 1 + jump, Append(m, e), n) /\ (a + 1 + jump > Len(Plans[k]) => a + 1 + jump = Len(Plans[k]) + 1)
<1>. DEFINE plan == Plans[k]
            b == Append(m, e)
            c == a + 1 + jump
            l == Len(m)
<1>1. /\ k \in DOMAIN Plans /\ IsSequence(m) /\ a \in 1..(Len(plan) + 1) /\ a <= Len(plan)
      /\ \A i \in DOMAIN m : m[i].attempt = n /\ EntryHolds(k, m[i])
      /\ \A i \in DOMAIN m : \E j \in 1..(a - 1) : NameOf(m[i]) = NameOf(plan[j])
      /\ \A i, j \in DOMAIN m : i < j => NameOf(m[i]) # NameOf(m[j])
      /\ k # "unlinked" => l = a - 1 /\ \A i \in DOMAIN m : NameOf(m[i]) = NameOf(plan[i])
      /\ \A j \in 1..(a - 1) : plan[j].ask = "total" => \E i \in DOMAIN m : NameOf(m[i]) = NameOf(plan[j])
  BY DEF Underway
<1>2. PlanFits(k, plan)
  BY <1>1, PlansFit
<1>3. DOMAIN m = 1..l /\ l \in Nat /\ IsSequence(b) /\ Len(b) = l + 1
      /\ (\A i \in 1..l : b[i] = m[i]) /\ b[l + 1] = e
  BY <1>1, AppendHolds DEF IsSequence
<1>4. NameOf(e) = NameOf(plan[a]) /\ (jump = 4 => plan[a].ask = "total")
  OBVIOUS
<1>. HIDE DEF plan, b, l
<1>5. Len(plan) \in Nat /\ DOMAIN plan = 1..Len(plan) /\ a \in 1..Len(plan)
  BY <1>1, <1>2 DEF PlanFits, IsSequence
<1>6. jump = 4 => /\ k = "unlinked" /\ a + 4 \in 1..Len(plan)
                  /\ \A i \in 1..4 : plan[a + i].ask # "total"
  BY <1>2, <1>4, <1>5 DEF PlanFits
<1>7. c \in 1..(Len(plan) + 1) /\ a + 1 <= c
  BY <1>5, <1>6
<1>8. DOMAIN b = 1..(l + 1) /\ \A i \in 1..(l + 1) : i \in 1..l \/ i = l + 1
  BY <1>3 DEF IsSequence
<1>9. \A i \in DOMAIN b : b[i].attempt = n /\ EntryHolds(k, b[i])
  <2>1. \A i \in 1..l : b[i].attempt = n /\ EntryHolds(k, b[i])
    BY <1>1, <1>3
  <2>2. b[l + 1].attempt = n /\ EntryHolds(k, b[l + 1])
    BY <1>3
  <2>. QED  BY <1>8, <2>1, <2>2
<1>10. \A i \in DOMAIN b : \E j \in 1..(c - 1) : NameOf(b[i]) = NameOf(plan[j])
  <2>1. \A j \in 1..a : j \in 1..(c - 1)
    BY <1>5, <1>7
  <2>2. \A j \in 1..(a - 1) : j \in 1..a
    BY <1>5
  <2>3. ASSUME NEW i \in 1..l PROVE \E j \in 1..(c - 1) : NameOf(b[i]) = NameOf(plan[j])
    <3>1. PICK j \in 1..(a - 1) : NameOf(m[i]) = NameOf(plan[j])
      BY <1>1, <1>3
    <3>2. j \in 1..(c - 1)
      BY <2>1, <2>2
    <3>3. b[i] = m[i]
      BY <1>3
    <3>. QED  BY <3>1, <3>2, <3>3
  <2>4. NameOf(b[l + 1]) = NameOf(plan[a]) /\ a \in 1..(c - 1)
    BY <1>3, <1>4, <1>5, <2>1
  <2>. QED  BY <1>8, <2>3, <2>4
<1>11. \A i \in 1..l : NameOf(m[i]) # NameOf(plan[a])
  <2>. SUFFICES ASSUME NEW i \in 1..l PROVE NameOf(m[i]) # NameOf(plan[a])
    OBVIOUS
  <2>1. PICK j \in 1..(a - 1) : NameOf(m[i]) = NameOf(plan[j])
    BY <1>1, <1>3
  <2>2. j \in DOMAIN plan /\ a \in DOMAIN plan /\ j # a
    BY <1>5
  <2>3. NameOf(plan[j]) # NameOf(plan[a])
    BY <1>2, <2>2 DEF PlanFits
  <2>. QED  BY <2>1, <2>3
<1>12. \A i, j \in DOMAIN b : i < j => NameOf(b[i]) # NameOf(b[j])
  <2>. SUFFICES ASSUME NEW i \in 1..(l + 1), NEW j \in 1..(l + 1), i < j PROVE NameOf(b[i]) # NameOf(b[j])
    BY <1>8
  <2>1. i \in 1..l
    BY <1>3
  <2>2. CASE j = l + 1
    BY <1>3, <1>4, <1>11, <2>1, <2>2
  <2>3. CASE j \in 1..l
    BY <1>1, <1>3, <2>1, <2>3
  <2>. QED  BY <1>8, <2>2, <2>3
<1>13. k # "unlinked" => Len(b) = c - 1 /\ \A i \in DOMAIN b : NameOf(b[i]) = NameOf(plan[i])
  <2>. SUFFICES ASSUME k # "unlinked"
                PROVE  Len(b) = c - 1 /\ \A i \in DOMAIN b : NameOf(b[i]) = NameOf(plan[i])
    OBVIOUS
  <2>1. jump = 0 /\ l = a - 1
    BY <1>1, <1>6
  <2>2. l + 1 = a /\ c - 1 = a
    BY <1>5, <2>1
  <2>3. \A i \in 1..l : NameOf(b[i]) = NameOf(plan[i])
    BY <1>1, <1>3
  <2>. QED  BY <1>3, <1>4, <1>8, <2>2, <2>3
<1>14. \A j \in 1..(c - 1) : plan[j].ask = "total" => \E i \in DOMAIN b : NameOf(b[i]) = NameOf(plan[j])
  <2>. SUFFICES ASSUME NEW j \in 1..(c - 1), plan[j].ask = "total"
                PROVE  \E i \in DOMAIN b : NameOf(b[i]) = NameOf(plan[j])
    OBVIOUS
  <2>1. CASE j \in 1..(a - 1)
    <3>1. PICK i \in 1..l : NameOf(m[i]) = NameOf(plan[j])
      BY <1>1, <1>3, <2>1
    <3>2. i \in DOMAIN b
      BY <1>3, <1>8
    <3>. QED  BY <1>3, <3>1, <3>2
  <2>2. CASE j = a
    <3>1. l + 1 \in DOMAIN b
      BY <1>3, <1>8
    <3>. QED  BY <1>3, <1>4, <2>2, <3>1
  <2>3. CASE j > a
    <3>1. jump = 4
      BY <1>5, <2>3
    <3>2. j - a \in 1..4 /\ a + (j - a) = j
      BY <1>5, <2>3, <3>1
    <3>. QED  BY <1>6, <3>1, <3>2
  <2>. QED  BY <1>5, <2>1, <2>2, <2>3
<1>15. c > Len(plan) => c = Len(plan) + 1
  BY <1>5, <1>7
<1>. QED  BY <1>1, <1>3, <1>7, <1>9, <1>10, <1>12, <1>13, <1>14, <1>15 DEF Underway, plan, b, c

(* The steps that go on with the command, or begin it again. *)
GoesOn(p, entry, jump) ==
  LET next == at[p] + 1 + jump
  IN /\ entry.attempt = attempt[p] /\ NameOf(entry) = NameOf(StepOf(p)) /\ EntryHolds(kind[p], entry)
     /\ jump = 4 => StepOf(p).ask = "total"
     /\ made' = [made EXCEPT ![p] = Append(@, entry)]
     /\ at' = [at EXCEPT ![p] = next]
     /\ UNCHANGED attempt
     /\ \E d \in {"done", "asking", "fetching"} :
          doing' = [doing EXCEPT ![p] = d] /\ (d = "done" <=> next > Len(Plans[kind[p]]))

StaysThere(p) ==
  /\ \E d \in {"failed", "asking", "renewing"} : doing' = [doing EXCEPT ![p] = d]
  /\ UNCHANGED <<at, attempt, made>>

Goes(p) == StaysThere(p) \/ Restart(p) \/ \E entry : \E jump \in {0, 4} : GoesOn(p, entry, jump)

LEMMA FailGoes == ASSUME NEW p, Fail(p) PROVE Goes(p)
BY DEF Fail, Goes, StaysThere

LEMMA AuthTroubleGoes == ASSUME NEW p, AuthTrouble(p) PROVE Goes(p)
BY FailGoes DEF AuthTrouble, Renew, Goes, StaysThere

LEMMA OtherTroubleGoes == ASSUME NEW p, OtherTrouble(p) PROVE Goes(p)
BY FailGoes DEF OtherTrouble, Goes

LEMMA RepeatGoes == ASSUME NEW p, Repeat(p) PROVE Goes(p)
BY DEF Repeat, Goes, StaysThere

LEMMA PendingGoes == ASSUME NEW p, Pending(p) PROVE Goes(p)
BY RepeatGoes, OtherTroubleGoes DEF Pending

(* An answer that refuses the login, or is none. *)
LEMMA RefusalsAre ==
  ASSUME NEW p, NEW answer \in Refusals(p), StepOf(p).ask \notin FbaAsks
  PROVE  answer.status = 401 \/ (StepOf(p).ask = "excel" /\ answer.form = "login page")
<1>1. answer = Answer(401, "other", "", <<>>)
      \/ (StepOf(p).ask = "excel" /\ answer = Answer(200, "login page", "", <<>>))
  BY DEF Refusals
<1>2. Answer(401, "other", "", <<>>).status = 401 /\ Answer(200, "login page", "", <<>>).form = "login page"
  BY DEF Answer
<1>. QED  BY <1>1, <1>2, Zenon

(* What is kept of an answer that is read as good is what the ERP has exported. *)
LEMMA GoodEntry ==
  ASSUME NEW p, StepOf(p) = Step(StepOf(p).ask, StepOf(p).of),
         NEW answer \in Answers(p), Reading(StepOf(p).ask, answer) = "ok"
  PROVE  EntryHolds(kind[p], Entry(p, answer))
<1>. DEFINE ask == StepOf(p).ask
            e == Entry(p, answer)
<1>1. StepOf(p).keyed = (ask # "file")
  BY DEF Step
<1>2. e.ask = ask /\ e.of = StepOf(p).of
      /\ e.content = IF ask \in {"file", "stock", "stores", "excel"} THEN answer.content ELSE <<>>
  BY DEF Entry
<1>3. \/ answer \in Refusals(p) /\ ask # "file"
      \/ answer = Answer(500, "other", "", <<>>)
      \/ \E content \in GoodContents(p) : answer = Answer(200, GoodForm(ask), "200", content)
  BY <1>1 DEF Answers
<1>. HIDE DEF e
<1>4. CASE ask = "file"
  <2>1. ReadDownload(answer) = "ok"
    BY <1>4 DEF Reading
  <2>2. answer.status # 500 /\ answer.content # <<>>
    BY <2>1 DEF ReadDownload
  <2>3. answer # Answer(500, "other", "", <<>>)
    <3>1. Answer(500, "other", "", <<>>).status = 500
      BY DEF Answer
    <3>. QED  BY <2>2, <3>1, Zenon
  <2>4. PICK content \in GoodContents(p) : answer = Answer(200, GoodForm(ask), "200", content)
    BY <1>3, <1>4, <2>3
  <2>5. content = answer.content
    BY <2>4 DEF Answer
  <2>6. GoodContents(p) = {<<>>, IF kind[p] = "stock" THEN StockFile[StepOf(p).of] ELSE DetailFile}
    BY <1>4 DEF GoodContents
  <2>7. answer.content = IF kind[p] = "stock" THEN StockFile[StepOf(p).of] ELSE DetailFile
    BY <2>2, <2>4, <2>5, <2>6
  <2>. QED  BY <1>2, <1>4, <2>7 DEF EntryHolds, e
<1>5. CASE ask = "stores"
  <2>1. FetchFbaStores(answer) = "ok"
    BY <1>5 DEF Reading
  <2>2. answer.status \notin {401, 500}
    BY <2>1 DEF FetchFbaStores, Validated, ReadStoreHtml, ByStatus, AuthFailStatus
  <2>3. answer \notin Refusals(p) /\ answer # Answer(500, "other", "", <<>>)
    <3>1. ask \notin FbaAsks /\ ask # "excel"
      BY <1>5 DEF FbaAsks
    <3>2. Answer(500, "other", "", <<>>).status = 500
      BY DEF Answer
    <3>3. answer # Answer(500, "other", "", <<>>)
      BY <2>2, <3>2, Zenon
    <3>4. ASSUME answer \in Refusals(p) PROVE FALSE
      <4>1. answer.status = 401
        BY <1>5, <3>1, <3>4, RefusalsAre
      <4>. QED  BY <2>2, <4>1
    <3>. QED  BY <3>3, <3>4
  <2>4. PICK content \in GoodContents(p) : answer = Answer(200, GoodForm(ask), "200", content)
    BY <1>3, <2>3
  <2>5. content = answer.content
    BY <2>4 DEF Answer
  <2>6. GoodContents(p) = {StoreList}
    BY <1>5 DEF GoodContents
  <2>. QED  BY <1>2, <1>5, <2>4, <2>5, <2>6 DEF EntryHolds, e
<1>6. CASE ask = "excel"
  <2>1. ReadWmsExcel(answer) = "ok"
    BY <1>6 DEF Reading, DownloadConsignmentExcel
  <2>2. answer.status \notin {401, 500} /\ answer.form # "login page"
    <3>1. answer.status = 401 => ReadWmsExcel(answer) = "auth"
      BY DEF ReadWmsExcel, ByStatus, AuthFailStatus
    <3>2. answer.status = 500 => ReadWmsExcel(answer) = "error"
      BY DEF ReadWmsExcel, ByStatus, AuthFailStatus
    <3>3. answer.form = "login page" => ReadWmsExcel(answer) \in {"auth", "error"}
      BY DEF ReadWmsExcel, ByStatus, AuthFailStatus
    <3>. QED  BY <2>1, <3>1, <3>2, <3>3
  <2>3. answer \notin Refusals(p) /\ answer # Answer(500, "other", "", <<>>)
    <3>1. ask \notin FbaAsks
      BY <1>6 DEF FbaAsks
    <3>2. Answer(500, "other", "", <<>>).status = 500
      BY DEF Answer
    <3>3. answer # Answer(500, "other", "", <<>>)
      BY <2>2, <3>2, Zenon
    <3>4. ASSUME answer \in Refusals(p) PROVE FALSE
      <4>1. answer.status = 401 \/ answer.form = "login page"
        BY <3>1, <3>4, RefusalsAre
      <4>. QED  BY <2>2, <4>1
    <3>. QED  BY <3>3, <3>4
  <2>4. PICK content \in GoodContents(p) : answer = Answer(200, GoodForm(ask), "200", content)
    BY <1>3, <2>3
  <2>5. content = answer.content /\ answer.form = "excel" /\ answer.status = 200
    BY <1>6, <2>4 DEF Answer, GoodForm
  <2>6. answer.content # <<>>
    BY <2>1, <2>5 DEF ReadWmsExcel, ByStatus, AuthFailStatus
  <2>7. GoodContents(p) = {<<>>, BoxRows}
    BY <1>6 DEF GoodContents
  <2>. QED  BY <1>2, <1>6, <2>4, <2>5, <2>6, <2>7 DEF EntryHolds, e
<1>7. CASE ask \notin {"file", "stores", "excel"}
  BY <1>2, <1>7 DEF EntryHolds, e
<1>. QED  BY <1>4, <1>5, <1>6, <1>7

LEMMA AdvanceGoes ==
  ASSUME NEW p, NEW answer, EntryHolds(kind[p], Entry(p, answer)), NEW jump \in {0, 4},
         jump = 4 => StepOf(p).ask = "total", Advance(p, Entry(p, answer), jump)
  PROVE  Goes(p)
<1>1. Entry(p, answer).attempt = attempt[p] /\ NameOf(Entry(p, answer)) = NameOf(StepOf(p))
  BY DEF Entry, NameOf
<1>2. GoesOn(p, Entry(p, answer), jump)
  BY <1>1 DEF GoesOn, Advance
<1>. QED  BY <1>2 DEF Goes

LEMMA OutcomeGoes ==
  ASSUME NEW p, StepOf(p) = Step(StepOf(p).ask, StepOf(p).of), NEW answer \in Answers(p), Outcome(p, answer)
  PROVE  Goes(p)
<1>1. CASE Reading(StepOf(p).ask, answer) = "ok" /\ Given(p, answer)
  <2>1. EntryHolds(kind[p], Entry(p, answer))
    BY <1>1, GoodEntry
  <2>2. \/ Advance(p, Entry(p, answer), 0)
        \/ Repeat(p)
        \/ StepOf(p).ask = "total" /\ Advance(p, Entry(p, answer), 4)
    BY <1>1 DEF Given
  <2>. QED  BY <2>1, <2>2, AdvanceGoes, RepeatGoes
<1>. QED  BY <1>1, PendingGoes, AuthTroubleGoes, OtherTroubleGoes DEF Outcome

(***************************************************************************)
(* The invariant of the commands.                                          *)
(***************************************************************************)
CommandHasMade(d, k, a, m, n) ==
  IF d = "idle" THEN a = 1 /\ m = <<>>
  ELSE /\ Underway(k, a, m, n)
       /\ d \in {"asking", "fetching", "renewing"} => a <= Len(Plans[k])
       /\ d = "done" => a = Len(Plans[k]) + 1

MadeInv ==
  /\ DOMAIN doing = Procs /\ DOMAIN kind = Procs /\ DOMAIN at = Procs /\ DOMAIN made = Procs /\ DOMAIN attempt = Procs
  /\ \A p \in Procs : CommandHasMade(doing[p], kind[p], at[p], made[p], attempt[p])

(* A step of one command leaves the others where they are. *)
OthersStay(p) ==
  /\ DOMAIN doing' = Procs /\ DOMAIN kind' = Procs /\ DOMAIN at' = Procs /\ DOMAIN made' = Procs
  /\ DOMAIN attempt' = Procs
  /\ \A q \in Procs \ {p} : /\ doing'[q] = doing[q] /\ kind'[q] = kind[q] /\ at'[q] = at[q]
                            /\ made'[q] = made[q] /\ attempt'[q] = attempt[q]

LEMMA OneHasMade ==
  ASSUME MadeInv, NEW p \in Procs, OthersStay(p),
         CommandHasMade(doing'[p], kind'[p], at'[p], made'[p], attempt'[p])
  PROVE  MadeInv'
<1>1. ASSUME NEW q \in Procs PROVE CommandHasMade(doing'[q], kind'[q], at'[q], made'[q], attempt'[q])
  <2>1. CASE q = p
    BY <2>1
  <2>2. CASE q # p
    <3>1. /\ doing'[q] = doing[q] /\ kind'[q] = kind[q] /\ at'[q] = at[q]
          /\ made'[q] = made[q] /\ attempt'[q] = attempt[q]
      BY <2>2 DEF OthersStay
    <3>2. CommandHasMade(doing[q], kind[q], at[q], made[q], attempt[q])
      BY DEF MadeInv
    <3>. QED  BY <3>1, <3>2
  <2>. QED  BY <2>1, <2>2
<1>. QED  BY <1>1 DEF MadeInv, OthersStay

LEMMA GoesHolds ==
  ASSUME MadeInv, NEW p \in Procs, doing[p] \in {"asking", "fetching", "renewing"}, Goes(p), kind' = kind
  PROVE  MadeInv'
<1>. DEFINE k == kind[p]
<1>1. Underway(k, at[p], made[p], attempt[p]) /\ at[p] <= Len(Plans[k])
  BY DEF MadeInv, CommandHasMade
<1>2. k \in DOMAIN Plans /\ Len(Plans[k]) >= 1
  BY <1>1, PlansFit DEF Underway, PlanFits
<1>3. CASE StaysThere(p)
  <2>1. PICK d \in {"failed", "asking", "renewing"} : doing' = [doing EXCEPT ![p] = d]
    BY <1>3 DEF StaysThere
  <2>2. OthersStay(p) /\ doing'[p] = d /\ UNCHANGED <<at, attempt, made>>
    BY <1>3, <2>1 DEF MadeInv, OthersStay, StaysThere
  <2>3. CommandHasMade(doing'[p], kind'[p], at'[p], made'[p], attempt'[p])
    BY <1>1, <2>2 DEF CommandHasMade
  <2>. QED  BY <2>2, <2>3, OneHasMade
<1>4. CASE Restart(p)
  <2>1. OthersStay(p) /\ doing'[p] = "asking" /\ at'[p] = 1 /\ made'[p] = <<>>
    BY <1>4 DEF MadeInv, OthersStay, Restart
  <2>2. Underway(k, 1, <<>>, attempt'[p])
    BY <1>2, BeginsUnderway
  <2>3. CommandHasMade(doing'[p], kind'[p], at'[p], made'[p], attempt'[p])
    BY <1>2, <2>1, <2>2 DEF CommandHasMade
  <2>. QED  BY <2>1, <2>3, OneHasMade
<1>5. ASSUME NEW entry, NEW jump \in {0, 4}, GoesOn(p, entry, jump) PROVE MadeInv'
  <2>. DEFINE next == at[p] + 1 + jump
  <2>1. PICK d \in {"done", "asking", "fetching"} :
          doing' = [doing EXCEPT ![p] = d] /\ (d = "done" <=> next > Len(Plans[k]))
    BY <1>5 DEF GoesOn
  <2>2. OthersStay(p) /\ doing'[p] = d /\ at'[p] = next /\ made'[p] = Append(made[p], entry) /\ attempt'[p] = attempt[p]
    BY <1>5, <2>1 DEF MadeInv, OthersStay, GoesOn
  <2>3. /\ entry.attempt = attempt[p] /\ NameOf(entry) = NameOf(Plans[k][at[p]]) /\ EntryHolds(k, entry)
        /\ jump = 4 => Plans[k][at[p]].ask = "total"
    BY <1>5 DEF GoesOn, StepOf
  <2>4. Underway(k, next, Append(made[p], entry), attempt[p]) /\ (next > Len(Plans[k]) => next = Len(Plans[k]) + 1)
    BY <1>1, <2>3, GoesOnUnderway
  <2>5. Len(Plans[k]) \in Nat /\ next \in Nat
    BY <1>1, <1>2, <2>4, PlansFit DEF Underway, PlanFits, IsSequence
  <2>. HIDE DEF next
  <2>6. d # "done" => next <= Len(Plans[k])
    BY <2>1, <2>5
  <2>7. CommandHasMade(doing'[p], kind'[p], at'[p], made'[p], attempt'[p])
    BY <2>1, <2>2, <2>4, <2>6 DEF CommandHasMade
  <2>. QED  BY <2>2, <2>7, OneHasMade
<1>. QED  BY <1>3, <1>4, <1>5 DEF Goes

LEMMA StartHolds ==
  ASSUME MadeInv, NEW p \in Procs, NEW k \in Kinds[p], StartCommand(p, k)
  PROVE  MadeInv'
<1>1. k \in DOMAIN Plans /\ Len(Plans[k]) >= 1
  BY KindsAssumption, PlansFit DEF PlanFits
<1>2. /\ OthersStay(p) /\ doing[p] = "idle" /\ doing'[p] = "asking" /\ kind'[p] = k
      /\ UNCHANGED <<at, made, attempt>>
  BY DEF StartCommand, MadeInv, OthersStay
<1>3. at[p] = 1 /\ made[p] = <<>>
  BY <1>2 DEF MadeInv, CommandHasMade
<1>4. Underway(k, 1, <<>>, attempt[p])
  BY <1>1, BeginsUnderway
<1>5. CommandHasMade(doing'[p], kind'[p], at'[p], made'[p], attempt'[p])
  BY <1>1, <1>2, <1>3, <1>4 DEF CommandHasMade
<1>. QED  BY <1>2, <1>5, OneHasMade

LEMMA StepsAreKeyed ==
  ASSUME MadeInv, NEW p \in Procs, doing[p] \in {"asking", "fetching", "renewing"}
  PROVE  StepOf(p) = Step(StepOf(p).ask, StepOf(p).of)
<1>1. Underway(kind[p], at[p], made[p], attempt[p]) /\ at[p] <= Len(Plans[kind[p]])
  BY DEF MadeInv, CommandHasMade
<1>2. PlanFits(kind[p], Plans[kind[p]])
  BY <1>1, PlansFit DEF Underway
<1>3. at[p] \in DOMAIN Plans[kind[p]]
  BY <1>1, <1>2 DEF Underway, PlanFits, IsSequence
<1>. QED  BY <1>2, <1>3 DEF PlanFits, StepOf

LEMMA MadeStepHolds == MadeInv /\ [Next]_vars => MadeInv'
<1>. SUFFICES ASSUME MadeInv, [Next]_vars PROVE MadeInv'
  OBVIOUS
<1>1. ASSUME UNCHANGED commandVars PROVE MadeInv'
  BY <1>1 DEF commandVars, MadeInv
<1>2. ASSUME NEW p \in Procs, ProcStep(p) PROVE MadeInv'
  <2>1. CASE AuthStep(p) /\ UNCHANGED commandVars
    BY <1>1, <2>1
  <2>2. CASE Ask(p)
    <3>1. StepOf(p) = Step(StepOf(p).ask, StepOf(p).of)
      BY <2>2, StepsAreKeyed DEF Ask
    <3>. QED  BY <2>2, <3>1, AuthTroubleGoes, OutcomeGoes, GoesHolds DEF Ask
  <2>3. CASE AskDenied(p)
    BY <2>3, AuthTroubleGoes, OtherTroubleGoes, GoesHolds DEF AskDenied, NoMaterial
  <2>4. CASE Renewed(p)
    BY <2>4, GoesHolds DEF Renewed, Goes
  <2>5. CASE RenewalDenied(p)
    BY <2>5, FailGoes, GoesHolds DEF RenewalDenied
  <2>6. CASE FetchFile(p)
    <3>1. StepOf(p) = Step(StepOf(p).ask, StepOf(p).of)
      BY <2>6, StepsAreKeyed DEF FetchFile
    <3>. QED  BY <2>6, <3>1, OutcomeGoes, GoesHolds DEF FetchFile
  <2>. QED  BY <1>2, <2>1, <2>2, <2>3, <2>4, <2>5, <2>6 DEF ProcStep
<1>. QED  BY <1>1, <1>2, StartHolds DEF Next, Tick, vars

(* What a command that is under way has made, step by step of its plan and in one attempt
   (run_export_pipeline, the exports' loops and their retries). *)
THEOREM CommandsKeepToTheirPlans == Spec => []MadeInv
<1>1. Init => MadeInv
  BY DEF Init, MadeInv, CommandHasMade
<1>. QED  BY <1>1, MadeStepHolds, PTL DEF Spec

(***************************************************************************)
(* What a finished command delivers.                                       *)
(***************************************************************************)
LEMMA FirstIs == ASSUME NEW s, IsSequence(s), Len(s) # 0 PROVE Head(s) = s[1] /\ 1 \in DOMAIN s
BY DEF IsSequence

(* The files a command has fetched, or the lists, in the order in which it has them. *)
LEMMA ContentsAre ==
  ASSUME NEW p, IsSequence(made[p]), NEW ask
  PROVE  /\ IsSequence(Contents(p, ask))
         /\ \A i \in DOMAIN Contents(p, ask) :
              \E j \in DOMAIN made[p] : made[p][j].ask = ask /\ Contents(p, ask)[i] = made[p][j].content
         /\ \A j \in DOMAIN made[p] : made[p][j].ask = ask =>
              \E i \in DOMAIN Contents(p, ask) : Contents(p, ask)[i] = made[p][j].content
<1>. DEFINE m == made[p]
            T == {e \in Range(m) : e.ask = ask}
            es == Among(m, T)
            c == [i \in DOMAIN es |-> es[i].content]
<1>1. PICK f : Leads(m, T, Len(m), es, f)
  BY AmongLeads
<1>2. Contents(p, ask) = c
  BY DEF Contents
<1>3. DOMAIN m = 1..Len(m)
  BY DEF IsSequence
<1>4. \A j \in DOMAIN m : m[j] \in T <=> m[j].ask = ask
  BY DEF Range
<1>. HIDE DEF T, es, m
<1>5. /\ IsSequence(es) /\ DOMAIN f = DOMAIN es
      /\ \A j \in DOMAIN es : f[j] \in DOMAIN m /\ es[j] = m[f[j]] /\ es[j] \in T
      /\ \A i \in DOMAIN m : m[i] \in T => \E j \in DOMAIN es : f[j] = i
  BY <1>1, <1>3 DEF Leads
<1>6. DOMAIN c = DOMAIN es /\ \A i \in DOMAIN es : c[i] = es[i].content
  OBVIOUS
<1>7. IsSequence(c)
  <2>1. DOMAIN c = 1..Len(es) /\ Len(es) \in Nat
    BY <1>5 DEF IsSequence
  <2>2. c \in Seq({c[i] : i \in 1..Len(es)})
    <3>1. c = [i \in 1..Len(es) |-> c[i]]
      BY <2>1
    <3>. HIDE DEF c
    <3>. QED  BY <2>1, <3>1, SeqDef
  <2>. HIDE DEF c
  <2>. QED  BY <2>2, SequencesAre
<1>. HIDE DEF c
<1>8. \A i \in DOMAIN c : \E j \in DOMAIN m : m[j].ask = ask /\ c[i] = m[j].content
  <2>. SUFFICES ASSUME NEW i \in DOMAIN c PROVE \E j \in DOMAIN m : m[j].ask = ask /\ c[i] = m[j].content
    OBVIOUS
  <2>1. f[i] \in DOMAIN m /\ es[i] = m[f[i]] /\ m[f[i]] \in T /\ c[i] = m[f[i]].content
    BY <1>5, <1>6
  <2>. QED  BY <1>4, <2>1
<1>9. \A j \in DOMAIN m : m[j].ask = ask => \E i \in DOMAIN c : c[i] = m[j].content
  <2>. SUFFICES ASSUME NEW j \in DOMAIN m, m[j].ask = ask PROVE \E i \in DOMAIN c : c[i] = m[j].content
    OBVIOUS
  <2>1. PICK i \in DOMAIN es : f[i] = j
    BY <1>4, <1>5
  <2>2. c[i] = m[j].content /\ i \in DOMAIN c
    BY <1>5, <1>6, <2>1
  <2>. QED  BY <2>2
<1>. QED  BY <1>2, <1>7, <1>8, <1>9 DEF m

(* When all it has of a kind is the same, and it has some, the first is that. *)
LEMMA FirstContentIs ==
  ASSUME NEW p, IsSequence(made[p]), NEW ask, NEW content,
         \A j \in DOMAIN made[p] : made[p][j].ask = ask => made[p][j].content = content,
         \E j \in DOMAIN made[p] : made[p][j].ask = ask
  PROVE  Head(Contents(p, ask)) = content
<1>. DEFINE c == Contents(p, ask)
<1>1. /\ IsSequence(c)
      /\ \A i \in DOMAIN c : \E j \in DOMAIN made[p] : made[p][j].ask = ask /\ c[i] = made[p][j].content
      /\ \A j \in DOMAIN made[p] : made[p][j].ask = ask => \E i \in DOMAIN c : c[i] = made[p][j].content
  BY ContentsAre
<1>. HIDE DEF c
<1>2. Len(c) # 0
  BY <1>1 DEF IsSequence
<1>3. Head(c) = c[1] /\ 1 \in DOMAIN c
  BY <1>1, <1>2, FirstIs
<1>. QED  BY <1>1, <1>3 DEF c

(* The plan of a command that is done has been made in one attempt. *)
LEMMA PlanIsMade ==
  ASSUME MadeInv, NEW p \in Procs, doing[p] = "done"
  PROVE  /\ MadeInOneAttempt(p)
         /\ kind[p] \in DOMAIN Plans /\ IsSequence(made[p])
         /\ \A i \in DOMAIN made[p] : EntryHolds(kind[p], made[p][i])
         /\ kind[p] # "unlinked" => /\ DOMAIN made[p] = DOMAIN Plans[kind[p]]
                                    /\ \A i \in DOMAIN made[p] : NameOf(made[p][i]) = NameOf(Plans[kind[p]][i])
<1>. DEFINE k == kind[p]
            m == made[p]
            plan == Plans[k]
<1>1. /\ Underway(k, at[p], m, attempt[p]) /\ at[p] = Len(plan) + 1
  BY DEF MadeInv, CommandHasMade
<1>2. k \in DOMAIN Plans /\ PlanFits(k, plan)
  BY <1>1, PlansFit DEF Underway
<1>3. Len(plan) \in Nat /\ DOMAIN plan = 1..Len(plan) /\ at[p] - 1 = Len(plan)
  BY <1>1, <1>2 DEF PlanFits, IsSequence
<1>4. /\ IsSequence(m) /\ DOMAIN m = 1..Len(m)
      /\ \A i \in DOMAIN m : m[i].attempt = attempt[p] /\ EntryHolds(k, m[i])
      /\ \A i, j \in DOMAIN m : i < j => NameOf(m[i]) # NameOf(m[j])
      /\ k # "unlinked" => Len(m) = Len(plan) /\ \A i \in DOMAIN m : NameOf(m[i]) = NameOf(plan[i])
      /\ \A j \in DOMAIN plan : plan[j].ask = "total" => \E i \in DOMAIN m : NameOf(m[i]) = NameOf(plan[j])
  BY <1>1, <1>3 DEF Underway, IsSequence
<1>5. /\ DOMAIN StepsOf(p) = DOMAIN m /\ DOMAIN PlannedSteps(p) = DOMAIN plan
      /\ \A i \in DOMAIN m : StepsOf(p)[i] = NameOf(m[i])
      /\ \A i \in DOMAIN plan : PlannedSteps(p)[i] = NameOf(plan[i])
  BY DEF StepsOf, PlannedSteps, NameOf
<1>6. StepsOf(p) = [i \in DOMAIN StepsOf(p) |-> StepsOf(p)[i]]
      /\ PlannedSteps(p) = [i \in DOMAIN PlannedSteps(p) |-> PlannedSteps(p)[i]]
  BY DEF StepsOf, PlannedSteps
<1>. HIDE DEF m, plan
<1>7. k # "unlinked" => DOMAIN m = DOMAIN plan
  BY <1>3, <1>4
<1>8. k # "unlinked" => StepsOf(p) = PlannedSteps(p)
  BY <1>4, <1>5, <1>6, <1>7
<1>9. ASSUME k = "unlinked", NEW s \in 1..Statuses PROVE \E i \in DOMAIN m : StepsOf(p)[i] = <<"total", s>>
  <2>1. plan = UnlinkedPlan
    BY <1>9 DEF plan, Plans
  <2>2. TotalAt(s) \in DOMAIN plan /\ NameOf(plan[TotalAt(s)]) = <<"total", s>> /\ plan[TotalAt(s)].ask = "total"
    BY <2>1, UnlinkedPlanFits
  <2>3. PICK i \in DOMAIN m : NameOf(m[i]) = NameOf(plan[TotalAt(s)])
    BY <1>4, <2>2
  <2>. QED  BY <1>5, <2>2, <2>3
<1>10. \A i \in DOMAIN m : m[i].attempt = attempt[p]
  BY <1>4
<1>11. \A i, j \in DOMAIN m : i < j => StepsOf(p)[i] # StepsOf(p)[j]
  BY <1>4, <1>5
<1>12. MadeInOneAttempt(p)
  BY <1>8, <1>9, <1>10, <1>11 DEF MadeInOneAttempt, m
<1>. QED  BY <1>2, <1>4, <1>7, <1>12 DEF m, plan

(* The names of the stock SKUs are those of all the files. *)
LEMMA StockIsWhole ==
  ASSUME MadeInv, NEW p \in Procs, doing[p] = "done", kind[p] = "stock"
  PROVE  DOMAIN StockNames(p) = UNION {{row.sku : row \in Range(StockFile[b])} : b \in DOMAIN Batches}
<1>. DEFINE n == Len(Batches)
            m == made[p]
            c == Contents(p, "file")
            rows == FlattenSeq(c)
<1>1. n \in Nat \ {0} /\ DOMAIN Batches = 1..n /\ Rounds(StockAsks, n, StockPlan)
  BY StockPlanIs, ListsAssumption, LenProperties
<1>2. /\ IsSequence(m) /\ DOMAIN m = DOMAIN StockPlan
      /\ \A i \in DOMAIN m : EntryHolds("stock", m[i]) /\ NameOf(m[i]) = NameOf(StockPlan[i])
  <2>1. Plans["stock"] = StockPlan
    BY DEF Plans
  <2>. QED  BY <2>1, PlanIsMade
<1>3. /\ IsSequence(c)
      /\ \A i \in DOMAIN c : \E j \in DOMAIN m : m[j].ask = "file" /\ c[i] = m[j].content
      /\ \A j \in DOMAIN m : m[j].ask = "file" => \E i \in DOMAIN c : c[i] = m[j].content
  BY <1>2, ContentsAre
<1>4. DOMAIN StockNames(p) = {rows[i].sku : i \in DOMAIN rows}
  BY DEF StockNames, NamesByKey, LoadStockSkuNames
<1>. HIDE DEF n, m, c
<1>5. DOMAIN m = 1..(5 * n)
  BY <1>1, <1>2 DEF Rounds, IsSequence
<1>6. /\ \A j \in DOMAIN m : m[j].ask = "file" => m[j].of \in 1..n /\ m[j].content = StockFile[m[j].of]
      /\ \A b \in 1..n : \E j \in DOMAIN m : m[j].ask = "file" /\ m[j].content = StockFile[b]
  <2>1. ASSUME NEW j \in DOMAIN m, m[j].ask = "file"
        PROVE  m[j].of \in 1..n /\ m[j].content = StockFile[m[j].of]
    <3>1. PICK k \in 1..n, i \in 1..5 : StockPlan[j] = Step(StockAsks[i], k)
      <4>1. \A i, l \in 1..5 : StockAsks[i] = StockAsks[l] => i = l
        BY AsksDiffer
      <4>2. n \in Nat /\ Rounds(StockAsks, n, StockPlan) /\ j \in 1..(5 * n)
        BY <1>1, <1>5
      <4>. QED  BY <4>1, <4>2, RoundsFit
    <3>2. NameOf(m[j]) = <<StockAsks[i], k>>
      BY <1>2, <3>1, StepIs
    <3>3. m[j].of = k
      BY <3>2 DEF NameOf
    <3>. QED  BY <1>2, <2>1, <3>3 DEF EntryHolds
  <2>2. ASSUME NEW b \in 1..n PROVE \E j \in DOMAIN m : m[j].ask = "file" /\ m[j].content = StockFile[b]
    <3>1. 5 \in 1..5 /\ StockAsks[5] = "file" /\ 5 * (b - 1) + 5 \in 1..(5 * n)
      BY <1>1 DEF StockAsks
    <3>2. StockPlan[5 * (b - 1) + 5] = Step("file", b)
      BY <1>1, <3>1 DEF Rounds
    <3>3. NameOf(m[5 * (b - 1) + 5]) = <<"file", b>> /\ EntryHolds("stock", m[5 * (b - 1) + 5])
      BY <1>2, <1>5, <3>1, <3>2, StepIs
    <3>4. m[5 * (b - 1) + 5].ask = "file" /\ m[5 * (b - 1) + 5].of = b
      BY <3>3 DEF NameOf
    <3>. QED  BY <1>5, <3>1, <3>3, <3>4 DEF EntryHolds
  <2>. QED  BY <2>1, <2>2
<1>7. DOMAIN c = 1..Len(c) /\ Len(c) \in Nat \ {0}
  <2>1. 1 \in 1..n
    BY <1>1
  <2>2. DOMAIN c # {}
    BY <1>3, <1>6, <2>1
  <2>. QED  BY <1>3, <2>2 DEF IsSequence
<1>8. \A b \in 1..n : IsSequence(StockFile[b])
  BY <1>1, FilesAssumption, SequencesAre
<1>9. \A i \in 1..Len(c) : \E b \in 1..n : c[i] = StockFile[b]
  BY <1>3, <1>6, <1>7
<1>10. \A b \in 1..n : \E i \in 1..Len(c) : c[i] = StockFile[b]
  BY <1>3, <1>6, <1>7
<1>11. JoinedFrom(c, Len(c), rows)
  BY <1>7, <1>8, <1>9, FlattenHolds
<1>. HIDE DEF rows
<1>12. /\ DOMAIN rows = 1..Len(rows)
       /\ \A i \in 1..Len(rows) : \E k \in 1..Len(c) : \E j \in 1..Len(c[k]) : rows[i] = c[k][j]
       /\ \A k \in 1..Len(c) : \A j \in 1..Len(c[k]) : \E i \in 1..Len(rows) : rows[i] = c[k][j]
  BY <1>11 DEF JoinedFrom, IsSequence
<1>. DEFINE U == UNION {{row.sku : row \in Range(StockFile[b])} : b \in 1..n}
<1>13. \A x : x \in U <=> \E b \in 1..n : \E j \in 1..Len(StockFile[b]) : x = StockFile[b][j].sku
  <2>1. \A b \in 1..n : Range(StockFile[b]) = {StockFile[b][j] : j \in 1..Len(StockFile[b])}
    BY <1>8 DEF Range, IsSequence
  <2>2. \A x : x \in U <=> \E b \in 1..n : x \in {row.sku : row \in Range(StockFile[b])}
    OBVIOUS
  <2>. HIDE DEF U
  <2>3. ASSUME NEW b \in 1..n, NEW x
        PROVE  x \in {row.sku : row \in Range(StockFile[b])} <=> \E j \in 1..Len(StockFile[b]) : x = StockFile[b][j].sku
    <3>1. Range(StockFile[b]) = {StockFile[b][j] : j \in 1..Len(StockFile[b])}
      BY <2>1
    <3>. QED  BY <3>1
  <2>4. ASSUME NEW x, x \in U PROVE \E b \in 1..n : \E j \in 1..Len(StockFile[b]) : x = StockFile[b][j].sku
    <3>1. PICK b \in 1..n : x \in {row.sku : row \in Range(StockFile[b])}
      BY <2>2, <2>4
    <3>2. \E j \in 1..Len(StockFile[b]) : x = StockFile[b][j].sku
      BY <2>3, <3>1
    <3>. QED  BY <3>2
  <2>5. ASSUME NEW x, NEW b \in 1..n, \E j \in 1..Len(StockFile[b]) : x = StockFile[b][j].sku PROVE x \in U
    <3>1. x \in {row.sku : row \in Range(StockFile[b])}
      BY <2>3, <2>5
    <3>. QED  BY <2>2, <3>1
  <2>. QED  BY <2>4, <2>5
<1>14. ASSUME NEW i \in DOMAIN rows PROVE rows[i].sku \in U
  <2>1. PICK k \in 1..Len(c) : \E j \in 1..Len(c[k]) : rows[i] = c[k][j]
    BY <1>12, Zenon
  <2>2. PICK b \in 1..n : c[k] = StockFile[b]
    BY <1>9
  <2>3. PICK j \in 1..Len(StockFile[b]) : rows[i] = StockFile[b][j]
    BY <2>1, <2>2
  <2>. QED  BY <1>13, <2>3
<1>15. ASSUME NEW x \in U PROVE \E i \in DOMAIN rows : x = rows[i].sku
  <2>1. PICK b \in 1..n : \E j \in 1..Len(StockFile[b]) : x = StockFile[b][j].sku
    BY <1>13, Zenon
  <2>2. PICK k \in 1..Len(c) : c[k] = StockFile[b]
    BY <1>10
  <2>3. PICK j \in 1..Len(c[k]) : x = c[k][j].sku
    BY <2>1, <2>2
  <2>4. PICK i \in 1..Len(rows) : rows[i] = c[k][j]
    BY <1>12, <2>2
  <2>. QED  BY <1>12, <2>3, <2>4
<1>. HIDE DEF U
<1>16. {rows[i].sku : i \in DOMAIN rows} = U
  BY <1>14, <1>15
<1>. QED  BY <1>1, <1>4, <1>16 DEF U

(* There are as many rows kept as there are rows to keep. *)
LEMMA KeptCount ==
  ASSUME NEW s, IsSequence(s), NEW T
  PROVE  /\ Len(Among(s, T)) = Cardinality({i \in 1..Len(s) : s[i] \in T})
         /\ IsFiniteSet({i \in 1..Len(s) : s[i] \in T})
         /\ Len(Among(s, T)) \in Nat
<1>. DEFINE a == Among(s, T)
            I == {i \in 1..Len(s) : s[i] \in T}
            l == Len(a)
<1>1. PICK f : Leads(s, T, Len(s), a, f)
  BY AmongLeads
<1>. HIDE DEF a
<1>2. /\ l \in Nat /\ DOMAIN f = 1..l /\ DOMAIN a = 1..l
      /\ \A j \in 1..l : f[j] \in I
      /\ \A j, m \in 1..l : j < m => f[j] < f[m]
      /\ \A i \in I : \E j \in 1..l : f[j] = i
  BY <1>1 DEF Leads, IsSequence
<1>. HIDE DEF l
<1>3. I \subseteq Nat
  BY DEF IsSequence
<1>. HIDE DEF I
<1>. DEFINE g == [j \in 1..l |-> f[j]]
<1>4. g \in [1..l -> I] /\ \A j \in 1..l : g[j] = f[j]
  BY <1>2
<1>. HIDE DEF g
<1>5. \A j, m \in 1..l : g[j] = g[m] => j = m
  <2>. SUFFICES ASSUME NEW j \in 1..l, NEW m \in 1..l, j # m PROVE g[j] # g[m]
    OBVIOUS
  <2>1. g[j] \in Nat /\ g[m] \in Nat
    BY <1>3, <1>4
  <2>2. g[j] < g[m] \/ g[m] < g[j]
    <3>1. j < m \/ m < j
      BY <1>2
    <3>. QED  BY <1>2, <1>4, <3>1
  <2>. QED  BY <2>1, <2>2
<1>6. g \in Bijection(1..l, I)
  <2>1. \A i \in I : \E j \in 1..l : g[j] = i
    BY <1>2, <1>4
  <2>. QED  BY <1>4, <1>5, <2>1 DEF Bijection, Injection, Surjection, IsInjective
<1>7. IsFiniteSet(1..l) /\ Cardinality(1..l) = l
  <2>1. 1 \in Int /\ l \in Int
    BY <1>2
  <2>2. IsFiniteSet(1..l) /\ Cardinality(1..l) = IF 1 > l THEN 0 ELSE l - 1 + 1
    BY <2>1, FS_Interval
  <2>. QED  BY <1>2, <2>2
<1>8. ExistsBijection(1..l, I)
  BY <1>6 DEF ExistsBijection
<1>9. IsFiniteSet(I) /\ Cardinality(I) = l
  BY <1>7, <1>8, FS_Bijection
<1>. QED  BY <1>2, <1>9 DEF a, l, I

(* Rows that are split by whether they are among given ones are all there. *)
LEMMA SplitIsWhole ==
  ASSUME NEW s, IsSequence(s), NEW T
  PROVE  Len(Among(s, T)) + Len(Among(s, Range(s) \ T)) = Len(s)
<1>. DEFINE n == Len(s)
            I == {i \in 1..n : s[i] \in T}
            J == {i \in 1..n : s[i] \in Range(s) \ T}
<1>1. n \in Nat /\ DOMAIN s = 1..n
  BY DEF IsSequence
<1>2. /\ Len(Among(s, T)) = Cardinality(I) /\ IsFiniteSet(I)
      /\ Len(Among(s, Range(s) \ T)) = Cardinality(J) /\ IsFiniteSet(J)
  BY KeptCount
<1>3. I \cup J = 1..n /\ I \cap J = {}
  BY <1>1 DEF Range
<1>. HIDE DEF I, J, n
<1>4. Cardinality(I \cup J) = Cardinality(I) + Cardinality(J) - Cardinality(I \cap J)
  BY <1>2, FS_Union
<1>5. Cardinality(1..n) = n
  <2>1. 1 \in Int /\ n \in Int
    BY <1>1
  <2>2. Cardinality(1..n) = IF 1 > n THEN 0 ELSE n - 1 + 1
    BY <2>1, FS_Interval
  <2>. QED  BY <1>1, <2>2
<1>6. Cardinality(I) \in Nat /\ Cardinality(J) \in Nat /\ Cardinality({}) = 0
  BY <1>2, FS_CardinalityType, FS_EmptySet
<1>7. n = Cardinality(I) + Cardinality(J) - 0
  BY <1>3, <1>4, <1>5, <1>6, Zenon
<1>8. Cardinality(I) + Cardinality(J) = n
  BY <1>6, <1>7
<1>. QED  BY <1>2, <1>8, Zenon DEF n

LEMMA MskuIsWhole ==
  ASSUME MadeInv, NEW p \in Procs, doing[p] = "done", kind[p] = "msku"
  PROVE  Len(MskuSheets(p).matched) + Len(MskuSheets(p).mismatch) = Len(DetailFile)
<1>. DEFINE m == made[p]
<1>1. /\ IsSequence(m) /\ DOMAIN m = DOMAIN MskuPlan
      /\ \A i \in DOMAIN m : EntryHolds("msku", m[i]) /\ NameOf(m[i]) = NameOf(MskuPlan[i])
  <2>1. Plans["msku"] = MskuPlan
    BY DEF Plans
  <2>. QED  BY <2>1, PlanIsMade
<1>2. 3 \in DOMAIN MskuPlan /\ NameOf(MskuPlan[3]) = <<"file", 1>>
  BY DEF MskuPlan, Step, NameOf
<1>. HIDE DEF m
<1>3. 3 \in DOMAIN m /\ m[3].ask = "file"
  BY <1>1, <1>2 DEF NameOf
<1>4. \A j \in DOMAIN m : m[j].ask = "file" => m[j].content = DetailFile
  BY <1>1 DEF EntryHolds
<1>5. Head(Contents(p, "file")) = DetailFile
  <2>1. /\ IsSequence(made[p]) /\ \E j \in DOMAIN made[p] : made[p][j].ask = "file"
        /\ \A j \in DOMAIN made[p] : made[p][j].ask = "file" => made[p][j].content = DetailFile
    BY <1>1, <1>3, <1>4 DEF m
  <2>. QED  BY <2>1, FirstContentIs
<1>. DEFINE pairs == DeliveryMskuPairs(DeliveryLines)
            T == {r \in Range(DetailFile) : <<r.msku, r.shop>> \in pairs}
<1>6. MskuSheets(p).matched = Among(DetailFile, T) /\ MskuSheets(p).mismatch = Among(DetailFile, Range(DetailFile) \ T)
  BY <1>5 DEF MskuSheets, SplitByDeliveryShop
<1>. HIDE DEF T
<1>7. IsSequence(DetailFile)
  BY FilesAssumption, SequencesAre
<1>. QED  BY <1>6, <1>7, SplitIsWhole

(* The places of a sequence are finitely many, and so are its elements. *)
LEMMA RangesAreFinite == ASSUME NEW s, IsSequence(s) PROVE IsFiniteSet(Range(s))
<1>. DEFINE n == Len(s)
            R == Range(s)
            g == [i \in 1..n |-> s[i]]
<1>1. n \in Nat /\ DOMAIN s = 1..n
  BY DEF IsSequence
<1>2. R = {s[i] : i \in 1..n}
  BY <1>1 DEF Range
<1>3. g \in Surjection(1..n, R)
  BY <1>2 DEF Surjection
<1>. HIDE DEF g, R
<1>4. IsFiniteSet(1..n)
  BY <1>1, FS_Interval
<1>. QED  BY <1>3, <1>4, FS_Surjection DEF R

(* A store is found under another name only where none has the name that is asked for. *)
LEMMA StoreIsNamed ==
  ASSUME NEW query, NEW stores, IsFiniteSet(stores), NEW found \in MatchFbaStore(query, stores),
         NEW store \in stores, store.name = query
  PROVE  found.name = query
<1>. DEFINE exact == {x \in stores : x.name = query}
            contains == {x \in stores : HasPart(x.name, query)}
<1>1. store \in exact /\ exact \subseteq stores
  OBVIOUS
<1>2. IsFiniteSet(exact) /\ exact # {}
  BY <1>1, FS_Subset
<1>3. \A x \in exact : x.name = query
  OBVIOUS
<1>4. MatchFbaStore(query, stores)
        = CASE Cardinality(exact) = 1 -> exact
            [] exact = {} /\ Cardinality(contains) = 1 -> contains
            [] Cardinality(exact) > 1 \/ (exact = {} /\ Cardinality(contains) # 1) -> {}
  BY DEF MatchFbaStore
<1>. HIDE DEF exact, contains
<1>5. Cardinality(exact) \in Nat /\ Cardinality(exact) # 0
  BY <1>2, FS_CardinalityType, FS_EmptySet
<1>6. CASE Cardinality(exact) = 1
  <2>1. MatchFbaStore(query, stores) = exact
    BY <1>2, <1>4, <1>6
  <2>. QED  BY <1>3, <2>1
<1>7. CASE Cardinality(exact) # 1
  <2>1. Cardinality(exact) > 1
    BY <1>5, <1>7
  <2>2. MatchFbaStore(query, stores) = {}
    BY <1>2, <1>4, <1>7, <2>1
  <2>. QED  BY <2>2
<1>. QED  BY <1>6, <1>7

LEMMA ResolvedStoreIsNamed ==
  ASSUME MadeInv, NEW p \in Procs, doing[p] = "done", kind[p] = "stores",
         NEW found \in ResolvedStore(p), NEW i \in DOMAIN StoreList, StoreList[i].name = StoreQuery
  PROVE  found.name = StoreQuery
<1>. DEFINE m == made[p]
<1>1. /\ IsSequence(m) /\ DOMAIN m = DOMAIN StoresPlan
      /\ \A j \in DOMAIN m : EntryHolds("stores", m[j]) /\ NameOf(m[j]) = NameOf(StoresPlan[j])
  <2>1. Plans["stores"] = StoresPlan
    BY DEF Plans
  <2>. QED  BY <2>1, PlanIsMade
<1>2. 1 \in DOMAIN StoresPlan /\ NameOf(StoresPlan[1]) = <<"stores", 1>>
  BY DEF StoresPlan, Step, NameOf
<1>. HIDE DEF m
<1>3. 1 \in DOMAIN m /\ m[1].ask = "stores"
  BY <1>1, <1>2 DEF NameOf
<1>4. \A j \in DOMAIN m : m[j].ask = "stores" => m[j].content = StoreList
  BY <1>1 DEF EntryHolds
<1>5. Head(Contents(p, "stores")) = StoreList
  <2>1. /\ IsSequence(made[p]) /\ \E j \in DOMAIN made[p] : made[p][j].ask = "stores"
        /\ \A j \in DOMAIN made[p] : made[p][j].ask = "stores" => made[p][j].content = StoreList
    BY <1>1, <1>3, <1>4 DEF m
  <2>. QED  BY <2>1, FirstContentIs
<1>6. ResolvedStore(p) = MatchFbaStore(StoreQuery, Range(StoreList))
  BY <1>5 DEF ResolvedStore, ParseFbaStoreOptions
<1>7. IsFiniteSet(Range(StoreList)) /\ StoreList[i] \in Range(StoreList)
  <2>1. IsSequence(StoreList)
    BY FilesAssumption, SequencesAre
  <2>2. StoreList[i] \in Range(StoreList)
    BY DEF Range
  <2>. QED  BY <2>1, <2>2, RangesAreFinite
<1>. QED  BY <1>6, <1>7, StoreIsNamed

(***************************************************************************)
(* The boxes of a consignment.                                             *)
(***************************************************************************)
LEMMA DivisionIs ==
  ASSUME NEW d \in Int, d > 0, NEW n \in Int, n >= 0
  PROVE  n = (n \div d) * d + (n % d)
BY Z3

LEMMA QuotientIs ==
  ASSUME NEW d \in Nat \ {0}, NEW n \in Nat
  PROVE  n \div d \in Nat /\ n % d \in 0..(d - 1) /\ n = (n \div d) * d + (n % d)
<1>1. d \in Int /\ d > 0 /\ n \in Int /\ n >= 0
  OBVIOUS
<1>2. n = (n \div d) * d + (n % d)
  BY <1>1, DivisionIs
<1>3. n % d \in 0..(d - 1)
  BY <1>1
<1>4. n \div d \in Int /\ n \div d >= 0
  BY <1>1
<1>. QED  BY <1>2, <1>3, <1>4

LEMMA QuotientsGrow ==
  ASSUME NEW d \in Nat \ {0}, NEW m \in Nat, NEW n \in Nat, m <= n
  PROVE  m \div d <= n \div d
<1>. DEFINE q == m \div d
            r == n \div d
<1>1. /\ q \in Nat /\ m % d \in 0..(d - 1) /\ m = q * d + (m % d)
      /\ r \in Nat /\ n % d \in 0..(d - 1) /\ n = r * d + (n % d)
  BY QuotientIs
<1>2. PICK e \in 0..(d - 1), f \in 0..(d - 1) : m = q * d + e /\ n = r * d + f
  BY <1>1
<1>. HIDE DEF q, r
<1>. SUFFICES ASSUME r < q PROVE FALSE
  BY <1>1 DEF q, r
<1>3. PICK x \in Nat : q = r + 1 + x
  <2>1. q - r - 1 \in Nat /\ q = r + 1 + (q - r - 1)
    BY <1>1
  <2>. QED  BY <2>1
<1>4. q * d = r * d + d + x * d /\ x * d \in Nat /\ r * d \in Nat
  BY <1>1, <1>3
<1>. QED  BY <1>2, <1>4

BoxRow(items) == [box : Nat, item : items]

LEMMA BoxesAre ==
  ASSUME NEW items, NEW rows \in Seq(BoxRow(items))
  PROVE  /\ IsSequence(rows) /\ \A i \in DOMAIN rows : rows[i] \in BoxRow(items)
         /\ IsFiniteSet(Boxes(rows)) /\ Boxes(rows) \subseteq Nat /\ Cardinality(Boxes(rows)) \in Nat
         /\ \A i \in DOMAIN rows : rows[i].box \in Boxes(rows)
<1>. DEFINE n == Len(rows)
            B == Boxes(rows)
            g == [i \in 1..n |-> rows[i].box]
<1>1. IsSequence(rows) /\ n \in Nat /\ DOMAIN rows = 1..n
  BY SequencesAre DEF IsSequence
<1>2. \A i \in DOMAIN rows : rows[i] \in BoxRow(items)
  BY <1>1, LenProperties
<1>3. \A i \in DOMAIN rows : rows[i].box \in Nat
  BY <1>2 DEF BoxRow
<1>4. B \subseteq Nat /\ \A i \in DOMAIN rows : rows[i].box \in B
  BY <1>3 DEF Boxes
<1>5. g \in Surjection(1..n, B)
  BY <1>1 DEF Surjection, Boxes
<1>. HIDE DEF g, B
<1>6. IsFiniteSet(1..n)
  BY <1>1, FS_Interval
<1>7. IsFiniteSet(B)
  BY <1>5, <1>6, FS_Surjection
<1>8. Cardinality(B) \in Nat
  BY <1>7, FS_CardinalityType
<1>. QED  BY <1>1, <1>2, <1>4, <1>7, <1>8 DEF B

(* The boxes are numbered through in their order. *)
LEMMA BoxNumbersAre ==
  ASSUME NEW items, NEW rows \in Seq(BoxRow(items))
  PROVE  /\ \A b \in Boxes(rows) : BoxNumber(rows, b) \in 1..Cardinality(Boxes(rows))
         /\ \A b, c \in Boxes(rows) : BoxNumber(rows, b) = BoxNumber(rows, c) => b = c
<1>. DEFINE B == Boxes(rows)
            Upto(b) == {x \in B : x <= b}
<1>1. IsFiniteSet(B) /\ B \subseteq Nat /\ Cardinality(B) \in Nat
  BY BoxesAre
<1>2. \A b : BoxNumber(rows, b) = Cardinality(Upto(b))
  BY DEF BoxNumber
<1>. HIDE DEF B
<1>3. ASSUME NEW b \in B
      PROVE  IsFiniteSet(Upto(b)) /\ Cardinality(Upto(b)) \in 1..Cardinality(B)
  <2>1. Upto(b) \subseteq B /\ Upto(b) # {}
    BY <1>1, <1>3
  <2>2. IsFiniteSet(Upto(b)) /\ Cardinality(Upto(b)) <= Cardinality(B)
    BY <1>1, <2>1, FS_Subset
  <2>3. Cardinality(Upto(b)) \in Nat /\ Cardinality(Upto(b)) # 0
    BY <2>1, <2>2, FS_CardinalityType, FS_EmptySet
  <2>. QED  BY <1>1, <2>2, <2>3
<1>4. ASSUME NEW b \in B, NEW c \in B, b < c PROVE Cardinality(Upto(b)) # Cardinality(Upto(c))
  <2>1. Upto(b) \subseteq Upto(c) /\ c \in Upto(c) /\ c \notin Upto(b)
    <3>1. b \in Nat /\ c \in Nat /\ \A x \in B : x \in Nat
      BY <1>1
    <3>2. \A x \in B : x <= b => x <= c
      BY <1>4, <3>1
    <3>3. c <= c /\ ~(c <= b)
      BY <1>4, <3>1
    <3>. QED  BY <3>2, <3>3
  <2>2. IsFiniteSet(Upto(c)) /\ Upto(b) \in SUBSET Upto(c) /\ Upto(c) # Upto(b)
    BY <1>3, <2>1
  <2>. HIDE DEF Upto
  <2>. QED  BY <2>2, FS_Subset
<1>5. ASSUME NEW b \in B, NEW c \in B, b # c PROVE BoxNumber(rows, b) # BoxNumber(rows, c)
  <2>1. b < c \/ c < b
    <3>1. b \in Nat /\ c \in Nat
      BY <1>1
    <3>. QED  BY <1>5, <3>1
  <2>. QED  BY <1>2, <1>4, <2>1
<1>. QED  BY <1>2, <1>3, <1>5 DEF B

(* The part and the number in it tell a box. *)
NumberInPart(rows, box) == ((BoxNumber(rows, box) - 1) % BoxLimit) + 1

LEMMA PlacesOfBoxes ==
  ASSUME NEW items, NEW rows \in Seq(BoxRow(items))
  PROVE  /\ \A b \in Boxes(rows) : PartOfBox(rows, b) \in PartsOfBoxes(rows) /\ NumberInPart(rows, b) \in 1..BoxLimit
         /\ \A b, c \in Boxes(rows) : PartOfBox(rows, b) = PartOfBox(rows, c) /\ NumberInPart(rows, b) = NumberInPart(rows, c)
                                      => b = c
<1>. DEFINE B == Boxes(rows)
            n == Cardinality(B)
            d == BoxLimit
<1>1. d \in Nat \ {0} /\ n \in Nat
  BY BoxLimitAssumption, BoxesAre
<1>2. /\ \A b \in B : BoxNumber(rows, b) \in 1..n
      /\ \A b, c \in B : BoxNumber(rows, b) = BoxNumber(rows, c) => b = c
  BY BoxNumbersAre
<1>. HIDE DEF B, n, d
<1>3. ASSUME NEW b \in B
      PROVE  /\ PartOfBox(rows, b) \in 1..(((n - 1) \div d) + 1) /\ NumberInPart(rows, b) \in 1..d
             /\ BoxNumber(rows, b) = (PartOfBox(rows, b) - 1) * d + NumberInPart(rows, b)
  <2>. DEFINE m == BoxNumber(rows, b) - 1
  <2>1. m \in Nat /\ n - 1 \in Nat /\ m <= n - 1 /\ BoxNumber(rows, b) = m + 1
    BY <1>1, <1>2
  <2>2. PartOfBox(rows, b) = (m \div d) + 1 /\ NumberInPart(rows, b) = (m % d) + 1
    BY DEF PartOfBox, NumberInPart, d
  <2>. HIDE DEF m
  <2>3. m \div d \in Nat /\ m % d \in 0..(d - 1) /\ m = (m \div d) * d + (m % d)
    BY <1>1, <2>1, QuotientIs
  <2>4. m \div d <= (n - 1) \div d /\ (n - 1) \div d \in Nat
    BY <1>1, <2>1, QuotientsGrow, QuotientIs
  <2>5. PartOfBox(rows, b) - 1 = m \div d
    BY <2>2, <2>3
  <2>6. PartOfBox(rows, b) \in 1..(((n - 1) \div d) + 1) /\ NumberInPart(rows, b) \in 1..d
    <3>1. PICK u \in Nat, v \in Nat : u = m \div d /\ v = (n - 1) \div d
      BY <2>3, <2>4
    <3>2. u <= v /\ PartOfBox(rows, b) = u + 1
      BY <2>2, <2>4, <3>1, Zenon
    <3>3. u + 1 \in 1..(v + 1)
      BY <3>2
    <3>4. NumberInPart(rows, b) \in 1..d
      <4>1. PICK w \in 0..(d - 1) : w = m % d
        BY <2>3
      <4>2. NumberInPart(rows, b) = w + 1
        BY <2>2, <4>1, Zenon
      <4>. QED  BY <1>1, <4>2
    <3>. QED  BY <3>1, <3>2, <3>3, <3>4, Zenon
  <2>7. PICK x \in Nat, y \in Nat : x = (m \div d) * d /\ y = m % d /\ m = x + y
    BY <1>1, <2>3
  <2>8. BoxNumber(rows, b) = x + (y + 1)
    BY <2>1, <2>7
  <2>. QED  BY <2>2, <2>5, <2>6, <2>7, <2>8
<1>4. PartsOfBoxes(rows) = 1..(((n - 1) \div d) + 1)
  BY DEF PartsOfBoxes, n, B, d
<1>. QED  BY <1>2, <1>3, <1>4 DEF B, d

(* The rows of a part, with their new numbers. *)
LEMMA PartsHold ==
  ASSUME NEW items, NEW rows \in Seq(BoxRow(items)), NEW k \in PartsOfBoxes(rows)
  PROVE  /\ DOMAIN SplitByBox(rows)[k] = DOMAIN RowsOfPart(rows, k)
         /\ \A j \in DOMAIN RowsOfPart(rows, k) :
              /\ SplitByBox(rows)[k][j].item = RowsOfPart(rows, k)[j].item
              /\ SplitByBox(rows)[k][j].box = NumberInPart(rows, RowsOfPart(rows, k)[j].box)
<1>. DEFINE mine == RowsOfPart(rows, k)
            part == [i \in DOMAIN mine |->
                       [mine[i] EXCEPT !.box = ((BoxNumber(rows, mine[i].box) - 1) % BoxLimit) + 1]]
<1>1. SplitByBox(rows)[k] = part
  BY DEF SplitByBox
<1>2. PICK f : Leads(rows, {r \in Range(rows) : PartOfBox(rows, r.box) = k}, Len(rows), mine, f)
  BY BoxesAre, AmongLeads DEF RowsOfPart
<1>3. IsSequence(rows) /\ \A i \in DOMAIN rows : rows[i] \in BoxRow(items)
  BY BoxesAre
<1>. HIDE DEF mine
<1>4. \A j \in DOMAIN mine : mine[j] \in BoxRow(items)
  BY <1>2, <1>3 DEF Leads, IsSequence
<1>5. ASSUME NEW j \in DOMAIN mine
      PROVE  part[j].item = mine[j].item /\ part[j].box = NumberInPart(rows, mine[j].box)
  <2>. DEFINE v == ((BoxNumber(rows, mine[j].box) - 1) % BoxLimit) + 1
  <2>1. part[j] = [mine[j] EXCEPT !.box = v]
    OBVIOUS
  <2>2. mine[j] \in [box : Nat, item : items]
    BY <1>4 DEF BoxRow
  <2>3. NumberInPart(rows, mine[j].box) = v
    BY DEF NumberInPart
  <2>. HIDE DEF v, part
  <2>. QED  BY <2>1, <2>2, <2>3
<1>. QED  BY <1>1, <1>5 DEF mine

(* Every row is in one part, once and in its order, and the boxes stay apart. *)
LEMMA SplitHolds ==
  ASSUME NEW items, NEW rows \in Seq(BoxRow(items)),
         \A i, j \in DOMAIN rows : rows[i].item = rows[j].item => i = j
  PROVE  HoldsTheBoxes(SplitByBox(rows), rows) /\ BoxesFit(SplitByBox(rows))
<1>. DEFINE n == Len(rows)
            files == SplitByBox(rows)
            T(k) == {r \in Range(rows) : PartOfBox(rows, r.box) = k}
            lead == [k \in PartsOfBoxes(rows) |-> CHOOSE f : Leads(rows, T(k), n, RowsOfPart(rows, k), f)]
<1>1. /\ IsSequence(rows) /\ DOMAIN rows = 1..n /\ \A i \in DOMAIN rows : rows[i] \in BoxRow(items)
      /\ \A i \in DOMAIN rows : rows[i].box \in Boxes(rows)
  BY BoxesAre DEF IsSequence
<1>2. \A k \in PartsOfBoxes(rows) : Leads(rows, T(k), n, RowsOfPart(rows, k), lead[k])
  <2>. SUFFICES ASSUME NEW k \in PartsOfBoxes(rows) PROVE Leads(rows, T(k), n, RowsOfPart(rows, k), lead[k])
    OBVIOUS
  <2>1. \E f : Leads(rows, T(k), n, RowsOfPart(rows, k), f)
    BY <1>1, AmongLeads DEF RowsOfPart
  <2>2. lead[k] = CHOOSE f : Leads(rows, T(k), n, RowsOfPart(rows, k), f)
    OBVIOUS
  <2>. HIDE DEF T, lead
  <2>. QED  BY <2>1, <2>2
<1>. HIDE DEF lead
<1>3. DOMAIN files = PartsOfBoxes(rows)
  BY DEF SplitByBox
<1>4. ASSUME NEW k \in DOMAIN files
      PROVE  /\ DOMAIN lead[k] = DOMAIN files[k]
             /\ \A j \in DOMAIN files[k] :
                  /\ lead[k][j] \in DOMAIN rows
                  /\ files[k][j].item = rows[lead[k][j]].item
                  /\ files[k][j].box = NumberInPart(rows, rows[lead[k][j]].box)
                  /\ PartOfBox(rows, rows[lead[k][j]].box) = k
             /\ \A j, m \in DOMAIN files[k] : j < m => lead[k][j] < lead[k][m]
             /\ \A j, m \in DOMAIN files[k] : lead[k][j] = lead[k][m] => j = m
             /\ \A i \in DOMAIN rows : PartOfBox(rows, rows[i].box) = k => \E j \in DOMAIN files[k] : lead[k][j] = i
  <2>. DEFINE mine == RowsOfPart(rows, k)
              f == lead[k]
  <2>1. k \in PartsOfBoxes(rows) /\ Leads(rows, T(k), n, mine, f)
    BY <1>2, <1>3
  <2>2. /\ DOMAIN files[k] = DOMAIN mine
        /\ \A j \in DOMAIN mine : files[k][j].item = mine[j].item /\ files[k][j].box = NumberInPart(rows, mine[j].box)
    BY <2>1, PartsHold
  <2>3. \A i \in DOMAIN rows : rows[i] \in T(k) <=> PartOfBox(rows, rows[i].box) = k
    BY DEF Range
  <2>. HIDE DEF mine, f, files, T
  <2>4. /\ IsSequence(mine) /\ DOMAIN f = DOMAIN mine
        /\ \A j \in DOMAIN mine : f[j] \in DOMAIN rows /\ mine[j] = rows[f[j]] /\ mine[j] \in T(k)
        /\ \A j, m \in DOMAIN mine : j < m => f[j] < f[m]
        /\ \A i \in DOMAIN rows : rows[i] \in T(k) => \E j \in DOMAIN mine : f[j] = i
    BY <1>1, <2>1 DEF Leads
  <2>5. \A j \in DOMAIN mine : j \in Nat /\ f[j] \in Nat
    BY <1>1, <2>4 DEF IsSequence
  <2>6. \A j, m \in DOMAIN mine : f[j] = f[m] => j = m
    <3>. SUFFICES ASSUME NEW j \in DOMAIN mine, NEW m \in DOMAIN mine, j # m PROVE f[j] # f[m]
      OBVIOUS
    <3>1. j < m \/ m < j
      BY <2>5
    <3>2. f[j] < f[m] \/ f[m] < f[j]
      BY <2>4, <3>1
    <3>. QED  BY <2>5, <3>2
  <2>7. \A j \in DOMAIN mine : PartOfBox(rows, rows[f[j]].box) = k
    BY <2>3, <2>4
  <2>8. \A j \in DOMAIN files[k] : /\ f[j] \in DOMAIN rows
                                   /\ files[k][j].item = rows[f[j]].item
                                   /\ files[k][j].box = NumberInPart(rows, rows[f[j]].box)
                                   /\ PartOfBox(rows, rows[f[j]].box) = k
    BY <2>2, <2>4, <2>7
  <2>9. \A i \in DOMAIN rows : PartOfBox(rows, rows[i].box) = k => \E j \in DOMAIN files[k] : f[j] = i
    BY <2>2, <2>3, <2>4
  <2>. QED  BY <2>2, <2>4, <2>6, <2>8, <2>9 DEF f
<1>. HIDE DEF files, T, n
<1>5. /\ \A b \in Boxes(rows) : PartOfBox(rows, b) \in DOMAIN files /\ NumberInPart(rows, b) \in 1..BoxLimit
      /\ \A b, c \in Boxes(rows) : PartOfBox(rows, b) = PartOfBox(rows, c) /\ NumberInPart(rows, b) = NumberInPart(rows, c)
                                   => b = c
  BY <1>3, PlacesOfBoxes
<1>. DEFINE Placed(i, k, j) == k \in DOMAIN files /\ j \in DOMAIN files[k] /\ files[k][j].item = rows[i].item
<1>6. ASSUME NEW i \in DOMAIN rows, NEW k, NEW j, Placed(i, k, j)
      PROVE  k \in DOMAIN files /\ j \in DOMAIN files[k] /\ lead[k][j] = i /\ PartOfBox(rows, rows[i].box) = k
             /\ files[k][j].box = NumberInPart(rows, rows[i].box)
  <2>1. lead[k][j] \in DOMAIN rows /\ rows[lead[k][j]].item = rows[i].item
    BY <1>4, <1>6
  <2>2. lead[k][j] = i
    BY <2>1
  <2>. QED  BY <1>4, <1>6, <2>2
<1>7. ASSUME NEW k \in DOMAIN files, NEW j \in DOMAIN files[k] PROVE \E i \in DOMAIN rows : Placed(i, k, j)
  BY <1>4
<1>8. ASSUME NEW i \in DOMAIN rows PROVE \E k \in DOMAIN files : \E j \in DOMAIN files[k] : Placed(i, k, j)
  <2>. DEFINE k == PartOfBox(rows, rows[i].box)
  <2>1. k \in DOMAIN files
    BY <1>1, <1>5
  <2>. HIDE DEF k
  <2>2. PICK j \in DOMAIN files[k] : lead[k][j] = i
    BY <1>4, <2>1 DEF k
  <2>3. Placed(i, k, j)
    BY <1>4, <2>1, <2>2
  <2>. QED  BY <2>1, <2>3
<1>9. ASSUME NEW k \in DOMAIN files, NEW l \in DOMAIN files, NEW j \in DOMAIN files[k], NEW m \in DOMAIN files[l],
             NEW i \in DOMAIN rows, NEW h \in DOMAIN rows, Placed(i, k, j), Placed(h, l, m)
      PROVE  /\ i = h => k = l /\ j = m
             /\ k = l /\ j < m => i < h
             /\ rows[i].box = rows[h].box <=> k = l /\ files[k][j].box = files[l][m].box
  <2>1. /\ lead[k][j] = i /\ PartOfBox(rows, rows[i].box) = k /\ files[k][j].box = NumberInPart(rows, rows[i].box)
        /\ lead[l][m] = h /\ PartOfBox(rows, rows[h].box) = l /\ files[l][m].box = NumberInPart(rows, rows[h].box)
    BY <1>6, <1>9
  <2>2. i = h => k = l /\ j = m
    <3>. SUFFICES ASSUME i = h PROVE k = l /\ j = m
      OBVIOUS
    <3>1. k = l
      BY <2>1
    <3>2. lead[k][j] = lead[k][m] /\ m \in DOMAIN files[k]
      BY <2>1, <3>1
    <3>. QED  BY <1>4, <3>1, <3>2
  <2>3. k = l /\ j < m => i < h
    BY <1>4, <2>1
  <2>4. rows[i].box \in Boxes(rows) /\ rows[h].box \in Boxes(rows)
    BY <1>1
  <2>5. rows[i].box = rows[h].box <=> k = l /\ files[k][j].box = files[l][m].box
    BY <1>5, <2>1, <2>4
  <2>. QED  BY <2>2, <2>3, <2>5
<1>10. HoldsTheBoxes(files, rows)
  <2>. HIDE DEF Placed
  <2>1. /\ \A k \in DOMAIN files : \A j \in DOMAIN files[k] : \E i \in DOMAIN rows : Placed(i, k, j)
        /\ \A i \in DOMAIN rows : \E k \in DOMAIN files : \E j \in DOMAIN files[k] : Placed(i, k, j)
        /\ \A k, l \in DOMAIN files : \A j \in DOMAIN files[k], m \in DOMAIN files[l] :
             \A i, h \in DOMAIN rows : Placed(i, k, j) /\ Placed(h, l, m) =>
               /\ i = h => k = l /\ j = m
               /\ k = l /\ j < m => i < h
               /\ rows[i].box = rows[h].box <=> k = l /\ files[k][j].box = files[l][m].box
    BY <1>7, <1>8, <1>9
  <2>. QED  BY <2>1 DEF HoldsTheBoxes, Placed
<1>11. BoxesFit(files)
  <2>. SUFFICES ASSUME NEW k \in DOMAIN files, NEW j \in DOMAIN files[k] PROVE files[k][j].box \in 1..BoxLimit
    BY DEF BoxesFit
  <2>1. lead[k][j] \in DOMAIN rows /\ files[k][j].box = NumberInPart(rows, rows[lead[k][j]].box)
    BY <1>4
  <2>. QED  BY <1>1, <1>5, <2>1
<1>. QED  BY <1>10, <1>11 DEF files

LEMMA WholeHolds ==
  ASSUME NEW rows, \A i, j \in DOMAIN rows : rows[i].item = rows[j].item => i = j
  PROVE  HoldsTheBoxes(<< rows >>, rows)
<1>. DEFINE files == << rows >>
<1>1. DOMAIN files = {1} /\ files[1] = rows
  OBVIOUS
<1>. HIDE DEF files
<1>. DEFINE Placed(i, k, j) == k \in DOMAIN files /\ j \in DOMAIN files[k] /\ files[k][j].item = rows[i].item
<1>2. ASSUME NEW i \in DOMAIN rows, NEW k, NEW j, Placed(i, k, j) PROVE k = 1 /\ j = i
  BY <1>1, <1>2
<1>3. ASSUME NEW i \in DOMAIN rows PROVE 1 \in DOMAIN files /\ i \in DOMAIN files[1] /\ Placed(i, 1, i)
  BY <1>1
<1>4. ASSUME NEW k \in DOMAIN files, NEW j \in DOMAIN files[k] PROVE \E i \in DOMAIN rows : Placed(i, k, j)
  BY <1>1
<1>5. ASSUME NEW k \in DOMAIN files, NEW l \in DOMAIN files, NEW j \in DOMAIN files[k], NEW m \in DOMAIN files[l],
             NEW i \in DOMAIN rows, NEW h \in DOMAIN rows, Placed(i, k, j), Placed(h, l, m)
      PROVE  /\ i = h => k = l /\ j = m
             /\ k = l /\ j < m => i < h
             /\ rows[i].box = rows[h].box <=> k = l /\ files[k][j].box = files[l][m].box
  <2>1. k = 1 /\ j = i /\ l = 1 /\ m = h
    BY <1>2, <1>5
  <2>2. files[k][j] = rows[i] /\ files[l][m] = rows[h]
    BY <1>1, <2>1
  <2>. QED  BY <2>1, <2>2
<1>6. /\ \A k \in DOMAIN files : \A j \in DOMAIN files[k] : \E i \in DOMAIN rows : Placed(i, k, j)
      /\ \A i \in DOMAIN rows : \E k \in DOMAIN files : \E j \in DOMAIN files[k] : Placed(i, k, j)
      /\ \A k, l \in DOMAIN files : \A j \in DOMAIN files[k], m \in DOMAIN files[l] :
           \A i, h \in DOMAIN rows : Placed(i, k, j) /\ Placed(h, l, m) =>
             /\ i = h => k = l /\ j = m
             /\ k = l /\ j < m => i < h
             /\ rows[i].box = rows[h].box <=> k = l /\ files[k][j].box = files[l][m].box
  <2>. HIDE DEF Placed
  <2>. QED  BY <1>3, <1>4, <1>5
<1>7. HoldsTheBoxes(files, rows)
  BY <1>6 DEF HoldsTheBoxes
<1>. QED  BY <1>7 DEF files

LEMMA BoxesAreWhole ==
  ASSUME MadeInv, NEW p \in Procs, doing[p] = "done", kind[p] = "wms"
  PROVE  /\ BoxFiles(p, TRUE) = << BoxRows >>
         /\ HoldsTheBoxes(BoxFiles(p, FALSE), BoxRows)
         /\ Cardinality(Boxes(BoxRows)) > BoxLimit => BoxesFit(BoxFiles(p, FALSE))
<1>. DEFINE m == made[p]
<1>1. /\ IsSequence(m) /\ DOMAIN m = DOMAIN WmsPlan
      /\ \A j \in DOMAIN m : EntryHolds("wms", m[j]) /\ NameOf(m[j]) = NameOf(WmsPlan[j])
  <2>1. Plans["wms"] = WmsPlan
    BY DEF Plans
  <2>. QED  BY <2>1, PlanIsMade
<1>2. 1 \in DOMAIN WmsPlan /\ NameOf(WmsPlan[1]) = <<"excel", 1>>
  BY DEF WmsPlan, Step, NameOf
<1>. HIDE DEF m
<1>3. 1 \in DOMAIN m /\ m[1].ask = "excel"
  BY <1>1, <1>2 DEF NameOf
<1>4. \A j \in DOMAIN m : m[j].ask = "excel" => m[j].content = BoxRows
  BY <1>1 DEF EntryHolds
<1>5. Head(Contents(p, "excel")) = BoxRows
  <2>1. /\ IsSequence(made[p]) /\ \E j \in DOMAIN made[p] : made[p][j].ask = "excel"
        /\ \A j \in DOMAIN made[p] : made[p][j].ask = "excel" => made[p][j].content = BoxRows
    BY <1>1, <1>3, <1>4 DEF m
  <2>. QED  BY <2>1, FirstContentIs
<1>6. \A whole : BoxFiles(p, whole) = DeliverableFiles(BoxRows, whole)
  BY <1>5 DEF BoxFiles
<1>7. \A i, j \in DOMAIN BoxRows : BoxRows[i].item = BoxRows[j].item => i = j
  BY FilesAssumption
<1>. DEFINE items == {BoxRows[i].item : i \in DOMAIN BoxRows}
<1>8. BoxRows \in Seq(BoxRow(items))
  BY FilesAssumption DEF BoxRow
<1>. HIDE DEF items
<1>9. HoldsTheBoxes(<< BoxRows >>, BoxRows)
  BY <1>7, WholeHolds
<1>10. HoldsTheBoxes(SplitByBox(BoxRows), BoxRows) /\ BoxesFit(SplitByBox(BoxRows))
  BY <1>7, <1>8, SplitHolds
<1>11. Cardinality(Boxes(BoxRows)) \in Nat /\ BoxLimit \in Nat
  BY <1>8, BoxesAre, BoxLimitAssumption
<1>12. BoxFiles(p, TRUE) = << BoxRows >>
  BY <1>6 DEF DeliverableFiles
<1>13. CASE Cardinality(Boxes(BoxRows)) <= BoxLimit
  <2>1. BoxFiles(p, FALSE) = << BoxRows >> /\ ~(Cardinality(Boxes(BoxRows)) > BoxLimit)
    <3>1. ~(Cardinality(Boxes(BoxRows)) > BoxLimit)
      BY <1>11, <1>13
    <3>2. DeliverableFiles(BoxRows, FALSE) = << BoxRows >>
      BY <1>13 DEF DeliverableFiles
    <3>. QED  BY <1>6, <3>1, <3>2
  <2>. QED  BY <1>9, <1>12, <2>1
<1>14. CASE ~(Cardinality(Boxes(BoxRows)) <= BoxLimit)
  <2>1. BoxFiles(p, FALSE) = SplitByBox(BoxRows)
    BY <1>6, <1>14 DEF DeliverableFiles
  <2>. QED  BY <1>10, <1>12, <2>1
<1>. QED  BY <1>13, <1>14

(* A finished command has made its whole plan in one attempt, and what it delivers holds every
   row that was exported: nothing of an attempt that was broken off is in it (the loops of the
   exports, split_msku_detail_by_delivery_shop, load_stock_sku_names, match_fba_store,
   split_consignment_excel_by_box). *)
THEOREM ResultsAreOfOneAttempt == Spec => []ResultIsOneAttempt
<1>1. ASSUME MadeInv PROVE ResultIsOneAttempt
  <2>. SUFFICES ASSUME NEW p \in Procs, doing[p] = "done"
                PROVE  /\ MadeInOneAttempt(p)
                       /\ kind[p] = "stock" =>
                            DOMAIN StockNames(p) = UNION {{row.sku : row \in Range(StockFile[b])} : b \in DOMAIN Batches}
                       /\ kind[p] = "msku" => Len(MskuSheets(p).matched) + Len(MskuSheets(p).mismatch) = Len(DetailFile)
                       /\ kind[p] = "stores" =>
                            \A found \in ResolvedStore(p) : \A i \in DOMAIN StoreList :
                              StoreList[i].name = StoreQuery => found.name = StoreQuery
                       /\ kind[p] = "wms" =>
                            /\ BoxFiles(p, TRUE) = << BoxRows >>
                            /\ HoldsTheBoxes(BoxFiles(p, FALSE), BoxRows)
                            /\ Cardinality(Boxes(BoxRows)) > BoxLimit => BoxesFit(BoxFiles(p, FALSE))
    BY DEF ResultIsOneAttempt
  <2>1. MadeInOneAttempt(p)
    BY <1>1, PlanIsMade
  <2>2. kind[p] = "stock" =>
          DOMAIN StockNames(p) = UNION {{row.sku : row \in Range(StockFile[b])} : b \in DOMAIN Batches}
    BY <1>1, StockIsWhole
  <2>3. kind[p] = "msku" => Len(MskuSheets(p).matched) + Len(MskuSheets(p).mismatch) = Len(DetailFile)
    BY <1>1, MskuIsWhole
  <2>4. kind[p] = "stores" =>
          \A found \in ResolvedStore(p) : \A i \in DOMAIN StoreList :
            StoreList[i].name = StoreQuery => found.name = StoreQuery
    BY <1>1, ResolvedStoreIsNamed
  <2>5. kind[p] = "wms" =>
          /\ BoxFiles(p, TRUE) = << BoxRows >>
          /\ HoldsTheBoxes(BoxFiles(p, FALSE), BoxRows)
          /\ Cardinality(Boxes(BoxRows)) > BoxLimit => BoxesFit(BoxFiles(p, FALSE))
    BY <1>1, BoxesAreWhole
  <2>. QED  BY <2>1, <2>2, <2>3, <2>4, <2>5
<1>. QED  BY <1>1, CommandsKeepToTheirPlans, PTL
=============================================================================
