---------------------------- MODULE AuthMaterial ----------------------------
(***************************************************************************)
(* What a saved browser state proves about the login it was taken from     *)
(* (browser_auth_service/service.py), and the cookie headers the exports   *)
(* build of it (services/mabang/cookies.py).                               *)
(*                                                                         *)
(* A domain is the sequence of its labels from the top, so that a cookie   *)
(* of a domain is sent to every host its labels are a prefix of.  A cookie *)
(* is a record of name, domain, value (the number of the login it is of,   *)
(* or None) and expires (a time, Session for -1, or None).  A saved state  *)
(* is a record of cookies, a sequence, and token (the freeToken found in   *)
(* the local storage of the FBA origin, or None).                          *)
(***************************************************************************)
EXTENDS Naturals, Sequences, FiniteSets

CONSTANTS
  None,
  Session,         \* the expiry of a session cookie, -1
  Skew,            \* PHPSESSID_EXPIRY_SKEW_SECONDS, in units of time
  PrivateHost,     \* private.mabangerp.com
  PrivateAmzHost,  \* private-amz.mabangerp.com
  WmsHost,         \* wms.private.mabangerp.com
  DingtalkDomain,  \* dingtalk.com
  SessionName,     \* PHPSESSID
  MemcacheName,    \* MABANG_ERP_PRO_MEMBERINFO_LOGIN_COOKIE
  RequiredNames    \* PRIVATE_AMZ_REQUIRED_COOKIE_NAMES

ASSUME SkewAssumption == Skew \in Nat

DomainMatches(domain, host) ==
  domain # <<>> /\ Len(domain) <= Len(host) /\ \A i \in DOMAIN domain : domain[i] = host[i]

(* Positions of the cookies of a name that are sent to a host. *)
Candidates(cookies, host, name) ==
  {i \in DOMAIN cookies : cookies[i].name = name /\ DomainMatches(cookies[i].domain, host)}

FirstOf(positions) == CHOOSE i \in positions : \A j \in positions : i <= j

(* Of the cookies of a name the one whose domain fits the host best, the first of these. *)
BestOf(cookies, positions) ==
  CHOOSE i \in positions : \A j \in positions :
    \/ Len(cookies[j].domain) < Len(cookies[i].domain)
    \/ Len(cookies[j].domain) = Len(cookies[i].domain) /\ i <= j

SelectCookieForHost(cookies, host, name) ==
  LET candidates == Candidates(cookies, host, name)
  IN IF candidates = {} THEN None ELSE cookies[BestOf(cookies, candidates)]

(* _get_phpsessid_status: the first session cookie, which must have an expiry of its own. *)
PhpsessidStatus(cookies, now) ==
  LET candidates == Candidates(cookies, PrivateHost, SessionName)
      expires == cookies[FirstOf(candidates)].expires
  IN CASE candidates = {}                                            -> "missing"
       [] candidates # {} /\ expires \in {None, Session}             -> "expires_invalid"
       [] candidates # {} /\ expires \notin {None, Session}
            -> IF expires <= now + Skew THEN "expired" ELSE "valid"

(* _get_cookie_validity_status: any other cookie may also last as long as the browser. *)
CookieValidityStatus(cookie, now) ==
  IF cookie = None THEN "missing"
  ELSE CASE cookie.value = None -> "value_missing"
         [] cookie.value # None /\ cookie.expires = None -> "expires_missing"
         [] cookie.value # None /\ cookie.expires = Session -> "session_cookie"
         [] cookie.value # None /\ cookie.expires \notin {None, Session}
              -> IF cookie.expires <= now THEN "expired"
                 ELSE IF cookie.expires <= now + Skew THEN "expires_soon" ELSE "valid"

(* _cookie_auth_errors: the names that are not valid, empty when all are. *)
CookieAuthErrors(cookies, now) ==
  LET status(name) == CookieValidityStatus(SelectCookieForHost(cookies, PrivateAmzHost, name), now)
  IN (IF PhpsessidStatus(cookies, now) = "valid" THEN {} ELSE {<<PrivateHost, SessionName>>})
     \cup {<<PrivateAmzHost, name>> : name \in {n \in RequiredNames : status(n) \notin {"valid", "session_cookie"}}}

(* _storage_lookup_domain_cookies and _build_cookie_header: the last value of a name counts. *)
WmsCookieHeader(cookies) ==
  LET sent == {i \in DOMAIN cookies : DomainMatches(cookies[i].domain, WmsHost) /\ cookies[i].value # None}
  IN {<<cookies[i].name, cookies[i].value>> :
        i \in {j \in sent : \A k \in sent : cookies[k].name = cookies[j].name => k <= j}}

CompleteAuthMaterial(state, now) ==
  /\ CookieAuthErrors(state.cookies, now) = {}
  /\ state.token # None
  /\ WmsCookieHeader(state.cookies) # {}

(* _remove_dingtalk_storage_state: the other cookies stay, in their order. *)
RemoveDingtalk(state) ==
  LET kept[i \in 0..Len(state.cookies)] ==
        IF i = 0 THEN <<>>
        ELSE IF ~DomainMatches(DingtalkDomain, state.cookies[i].domain)
        THEN Append(kept[i - 1], state.cookies[i]) ELSE kept[i - 1]
  IN [state EXCEPT !.cookies = kept[Len(state.cookies)]]

(* build_cookie_header of the exports: per name the best fit, the first of these. *)
BuildCookieHeader(cookies, host) ==
  LET names == {n \in {cookies[i].name : i \in DOMAIN cookies} : Candidates(cookies, host, n) # {}}
  IN [n \in {m \in names : \E i \in Candidates(cookies, host, m) : cookies[i].value # None} |->
        LET valued == {i \in Candidates(cookies, host, n) : cookies[i].value # None}
        IN cookies[BestOf(cookies, valued)].value]

(* extract_named_cookies: of any domain, the first that has a value. *)
ExtractNamedCookie(cookies, name) ==
  LET named == {i \in DOMAIN cookies : cookies[i].name = name /\ cookies[i].value # None}
  IN IF named = {} THEN None ELSE cookies[FirstOf(named)].value

(* build_private_amz_headers: the headers of both hosts and the key, or None when one is missing. *)
PrivateAmzHeaders(cookies) ==
  LET amz == BuildCookieHeader(cookies, PrivateAmzHost)
      private == BuildCookieHeader(cookies, PrivateHost)
      key == ExtractNamedCookie(cookies, MemcacheName)
  IN IF RequiredNames \subseteq DOMAIN amz /\ DOMAIN private # {} /\ key # None
     THEN [amz |-> amz, private |-> private, key |-> key]
     ELSE None
=============================================================================
