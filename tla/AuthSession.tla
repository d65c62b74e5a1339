---------------------------- MODULE AuthSession ----------------------------
(***************************************************************************)
(* The session of the back office: AuthService, the sign-in form with its  *)
(* two-factor step, the endpoint override of ConfigService, Web Storage    *)
(* under both, the route guard, the headers authInterceptor puts on a      *)
(* request and the 401 handling of errorInterceptor.                       *)
(*                                                                         *)
(* A tab is a JavaScript event loop: one action is one callback run to its *)
(* end.  Requests in flight are records in `reqs`; any of them may be      *)
(* answered next, so answers arrive in any order and arbitrarily late.     *)
(***************************************************************************)
EXTENDS Naturals

CONSTANTS
  Tabs,            (* browser tabs of one profile                          *)
  Tenants,         (* Fineract tenants                                     *)
  Endpoints,       (* API base URLs isAllowedApiUrl accepts                *)
  SameOrigin,      (* those on the document's own origin                   *)
  Logins,          (* identities of accepted sign-ins; bounds their number *)
  Burst,           (* data requests a page may have in flight at once      *)
  None,            (* no sign-in, no tenant, no endpoint                   *)
  SecondFactor,    (* tenants whose users may be asked for a one-time token *)
  StorageMayFail   (* whether Storage.setItem may throw (quota)            *)

ASSUME AuthAssumption ==
  /\ SameOrigin \subseteq Endpoints
  /\ None \notin Logins \cup Tenants \cup Endpoints
  /\ Burst \in Nat \ {0}
  /\ SecondFactor \subseteq Tenants
  /\ StorageMayFail \in BOOLEAN

VARIABLES
  session,        (* AuthService.currentUser                               *)
  authed,         (* AuthService.isAuthenticated                           *)
  pending,        (* AuthService.twoFactorPending                          *)
  tenant,         (* AuthService.currentTenantId                           *)
  endpoint,       (* ConfigService.apiUrl                                  *)
  bound,          (* BASE_PATH, fixed by whoever injects it first          *)
  reload,         (* LoginComponent.pendingReload                          *)
  loading,        (* LoginComponent.isLoading                              *)
  page,           (* the routed component on screen                        *)
  nav,            (* the navigation under way                              *)
  stored,         (* sessionStorage: fineract_session, per tab             *)
  devTenant,      (* localStorage: fineract_tenant, one per profile        *)
  devEndpoint,    (* localStorage: fineract_runtime_config                 *)
  reqs,           (* requests in flight                                    *)
  home,           (* history: the tenant each sign-in was accepted by      *)
  expired         (* history: what errorInterceptor took for an expiry     *)

signals  == <<session, authed, pending>>
config   == <<endpoint, devEndpoint, bound>>
form     == <<reload, loading>>
router   == <<page, nav>>
tenants  == <<tenant, devTenant>>
history  == <<home, expired>>
vars == <<session, authed, pending, tenant, endpoint, bound, reload, loading, page, nav,
          stored, devTenant, devEndpoint, reqs, home, expired>>

Session == [login : Logins \cup {None}, second : BOOLEAN, tfa : BOOLEAN]
NoSession == [login |-> None, second |-> FALSE, tfa |-> FALSE]

Kinds == {"login", "validate", "invalidate", "data"}
Request == [tab : Tabs, kind : Kinds, n : 1..Burst, login : Logins \cup {None},
            tfa : BOOLEAN, tenant : Tenants, to : Endpoints, changed : BOOLEAN]

Pages == {"none", "login", "app"}
Navs == {"none", "toApp", "admitted", "toLogin", "reload"}

(* AuthService.isSessionComplete *)
Complete(s) == s.login # None /\ (~s.second \/ s.tfa)

(* What a guarded setItem leaves behind: the new value, or the old one if it threw. *)
Writes(old, new) == {new} \cup (IF StorageMayFail THEN {old} ELSE {})

(* isApiRequest: credentials travel to the document's origin and to the API's. *)
Trusted(to, api) == to \in SameOrigin \/ to = api

(* A request as it leaves authInterceptor of tab t. *)
Outgoing(t, kind, n, to, api, tn, changed) ==
  [tab |-> t, kind |-> kind, n |-> n, to |-> to, tenant |-> tn, changed |-> changed,
   login |-> IF Trusted(to, api) THEN session[t].login ELSE None,
   tfa   |-> Trusted(to, api) /\ session[t].tfa]

(* router.navigate: the latest navigation wins, but a document load is not called off. *)
Go_WhenIdle(t, target) == nav' = [nav EXCEPT ![t] = IF @ # "none" THEN @ ELSE target]

Go(t, target) == nav' = [nav EXCEPT ![t] = IF @ = "reload" THEN @ ELSE target]

(* Requests of tab t whose subscriber has been destroyed are unsubscribed. *)
Drop(t, kinds) == {r \in reqs : r.tab # t \/ r.kind \notin kinds}

(* AuthService.setTenantId *)
SetTenant_InMemory(t, tn) ==
  /\ tenant' = [tenant EXCEPT ![t] = tn]
  /\ UNCHANGED devTenant

SetTenant(t, tn) ==
  /\ devTenant' \in Writes(devTenant, tn)
  /\ tenant' = [tenant EXCEPT ![t] = tn]

(* AuthService.setSession and completeTwoFactorAuthentication: storage, then signals. *)
SetSession_PendingKept(t, s) ==
  /\ \E v \in Writes(stored[t], s) : stored' = [stored EXCEPT ![t] = v]
  /\ session' = [session EXCEPT ![t] = s]
  /\ authed' = [authed EXCEPT ![t] = Complete(s)]
  /\ pending' = [pending EXCEPT ![t] = @ \/ ~Complete(s)]

SetSession_PasswordIsEnough(t, s) ==
  /\ \E v \in Writes(stored[t], s) : stored' = [stored EXCEPT ![t] = v]
  /\ session' = [session EXCEPT ![t] = s]
  /\ authed' = [authed EXCEPT ![t] = TRUE]
  /\ pending' = [pending EXCEPT ![t] = ~Complete(s)]

SetSession(t, s) ==
  /\ \E v \in Writes(stored[t], s) : stored' = [stored EXCEPT ![t] = v]
  /\ session' = [session EXCEPT ![t] = s]
  /\ authed' = [authed EXCEPT ![t] = Complete(s)]
  /\ pending' = [pending EXCEPT ![t] = ~Complete(s)]

(* AuthService.logout.  The invalidation is built first, under the session being left;   *)
(* without `pending` the two-factor step is gone, and its validation with it.            *)
Invalidation_AfterClearing(t) ==
  IF session[t].tfa
    THEN {[Outgoing(t, "invalidate", 1, endpoint[t], endpoint[t], tenant[t], FALSE)
             EXCEPT !.login = None, !.tfa = FALSE]}
    ELSE {}

Invalidation(t) ==
  IF session[t].tfa
    THEN {Outgoing(t, "invalidate", 1, endpoint[t], endpoint[t], tenant[t], FALSE)}
    ELSE {}

SignOut_SignalsOnly(t, answered) ==
  /\ reqs' = (Drop(t, {"validate"}) \ answered) \cup Invalidation(t)
  /\ session' = [session EXCEPT ![t] = NoSession]
  /\ authed' = [authed EXCEPT ![t] = FALSE]
  /\ pending' = [pending EXCEPT ![t] = FALSE]
  /\ UNCHANGED stored

SignOut(t, answered) ==
  /\ reqs' = (Drop(t, {"validate"}) \ answered) \cup Invalidation(t)
  /\ stored' = [stored EXCEPT ![t] = NoSession]
  /\ session' = [session EXCEPT ![t] = NoSession]
  /\ authed' = [authed EXCEPT ![t] = FALSE]
  /\ pending' = [pending EXCEPT ![t] = FALSE]

-----------------------------------------------------------------------------
Init ==
  /\ session = [t \in Tabs |-> NoSession] /\ stored = session
  /\ authed = [t \in Tabs |-> FALSE] /\ pending = authed
  /\ loading = authed /\ reload = authed
  /\ \E tn \in Tenants : devTenant = tn /\ tenant = [t \in Tabs |-> tn]
  /\ \E e \in Endpoints : devEndpoint = e /\ endpoint = [t \in Tabs |-> e]
  /\ bound = [t \in Tabs |-> None]
  /\ page = [t \in Tabs |-> "none"]
  /\ nav = [t \in Tabs |-> "toApp"]
  /\ reqs = {}
  /\ home = [l \in Logins |-> None]
  /\ expired = {}

(* LoginComponent.onSubmit with tenant tn and server e: the endpoint moves before the    *)
(* password is tried, and stays moved whatever the answer.                               *)
SubmitLogin(t, tn, e) ==
  /\ page[t] = "login" /\ ~pending[t] /\ ~loading[t]
  /\ loading' = [loading EXCEPT ![t] = TRUE]
  /\ endpoint' = [endpoint EXCEPT ![t] = e]
  /\ devEndpoint' \in Writes(devEndpoint, e)
  /\ reqs' = reqs \cup {Outgoing(t, "login", 1, e, e, tn, e # endpoint[t])}
  /\ UNCHANGED <<signals, bound, reload, router, stored, tenants, history>>

(* enterApplication: a full reload when the endpoint changed, a navigation otherwise. *)
EnterApplication_PageName(t, changed) == Go(t, IF changed THEN "reload" ELSE "app")

EnterApplication(t, changed) == Go(t, IF changed THEN "reload" ELSE "toApp")

(* What the platform may answer to a sign-in: whether a one-time token is wanted.        *)
Asked(r) == {FALSE} \cup {second \in {TRUE} : r.tenant \in SecondFactor}

(* The password was accepted as sign-in l, `second` when a one-time token is wanted. *)
LoginAccepted(r, l, second) ==
  LET t == r.tab IN
  /\ r.kind = "login" /\ home[l] = None
  /\ home' = [home EXCEPT ![l] = r.tenant]
  /\ SetTenant(t, r.tenant)
  /\ SetSession(t, [login |-> l, second |-> second, tfa |-> FALSE])
  /\ reqs' = reqs \ {r}
  /\ reload' = [reload EXCEPT ![t] = r.changed]
  /\ \/ second /\ loading' = [loading EXCEPT ![t] = FALSE] /\ UNCHANGED nav
     \/ ~second /\ EnterApplication(t, r.changed) /\ UNCHANGED loading
  /\ UNCHANGED <<config, page, expired>>

(* TwoFactorStepComponent.onSubmit *)
SubmitToken(t) ==
  /\ page[t] = "login" /\ pending[t]
  /\ \A r \in reqs : ~(r.tab = t /\ r.kind = "validate")
  /\ reqs' = reqs \cup {Outgoing(t, "validate", 1, endpoint[t], endpoint[t], tenant[t], FALSE)}
  /\ UNCHANGED <<signals, tenants, config, form, router, stored, history>>

(* The token was accepted; completeTwoFactorAuthentication and onTwoFactorCompleted. *)
TokenAccepted(r) ==
  LET t == r.tab IN
  /\ r.kind = "validate" /\ session[t].login # None
  /\ SetSession(t, [session[t] EXCEPT !.tfa = TRUE])
  /\ reqs' = reqs \ {r}
  /\ EnterApplication(t, reload[t])
  /\ UNCHANGED <<tenants, config, form, page, history>>

(* TwoFactorStepComponent.onCancel and LoginComponent.onTwoFactorCancelled *)
CancelToken(t) ==
  /\ page[t] = "login" /\ pending[t]
  /\ SignOut(t, {})
  /\ reload' = [reload EXCEPT ![t] = FALSE]
  /\ UNCHANGED <<tenants, config, loading, router, history>>

(* A page asks the generated client for data. *)
RequestData(t, n) ==
  /\ page[t] = "app"
  /\ LET r == Outgoing(t, "data", n, bound[t], endpoint[t], tenant[t], FALSE)
     IN  r \notin reqs /\ reqs' = reqs \cup {r}
  /\ UNCHANGED <<signals, tenants, config, form, router, stored, history>>

(* HeaderComponent.logout on a page; IdleService.logoutDueToInactivity on any screen the *)
(* session has been left on, long after the last navigation ended.                       *)
UserSignsOut(t) ==
  /\ page[t] = "app" \/ (authed[t] /\ nav[t] = "none")
  /\ SignOut(t, {})
  /\ Go(t, "toLogin")
  /\ UNCHANGED <<tenants, config, form, page, history>>

-----------------------------------------------------------------------------
(* The subscriber's own error callback: only the sign-in form keeps state of it. *)
AfterFailure(r) ==
  loading' = [loading EXCEPT ![r.tab] = IF r.kind = "login" THEN FALSE ELSE @]

(* isExpiredSession on a 401, in a tab that is signed in when the answer arrives. *)
TakenForExpiry(r) == r.login # None /\ authed[r.tab]

Expire(r) ==
  /\ TakenForExpiry(r)
  /\ SignOut(r.tab, {r})
  /\ Go(r.tab, "toLogin")
  /\ expired' = expired \cup {[kind |-> r.kind, sent |-> r.login, ended |-> session[r.tab].login]}
  /\ AfterFailure(r)
  /\ UNCHANGED <<tenants, config, reload, page, home>>

(* Any other failure, and any answer that changes nothing but the page's own data. *)
Settle(r) ==
  /\ reqs' = reqs \ {r}
  /\ AfterFailure(r)
  /\ UNCHANGED <<signals, tenants, config, reload, router, stored, history>>

-----------------------------------------------------------------------------
(* The user follows a link or the browser's history. *)
Navigate(t, target) ==
  /\ page[t] # "none" /\ nav[t] \notin {"reload", target}
  /\ nav' = [nav EXCEPT ![t] = target]
  /\ UNCHANGED <<signals, tenants, config, form, page, stored, reqs, history>>

(* authGuard *)
Guard(t) ==
  /\ nav[t] = "toApp"
  /\ nav' = [nav EXCEPT ![t] = IF authed[t] THEN "admitted" ELSE "toLogin"]
  /\ UNCHANGED <<signals, tenants, config, form, page, stored, reqs, history>>

(* NavigationEnd.  The lazily loaded component is on screen; a sign-in form that was     *)
(* already on screen is kept as it is, one that was not starts afresh.                   *)
Arrive(t) ==
  /\ nav[t] \in {"admitted", "toLogin"}
  /\ nav' = [nav EXCEPT ![t] = "none"]
  /\ \/ /\ nav[t] = "admitted"
        /\ page' = [page EXCEPT ![t] = "app"]
        /\ bound' = [bound EXCEPT ![t] = IF @ = None THEN endpoint[t] ELSE @]
        /\ reqs' = Drop(t, {"login", "validate"})
        /\ loading' = [loading EXCEPT ![t] = FALSE]
        /\ reload' = [reload EXCEPT ![t] = FALSE]
     \/ /\ nav[t] = "toLogin"
        /\ page' = [page EXCEPT ![t] = "login"]
        /\ UNCHANGED <<bound, reqs, form>>
  /\ UNCHANGED <<signals, tenants, endpoint, devEndpoint, stored, history>>

(* The document is loaded again: signals start from storage, the tab's requests are gone. *)
Boot(t, target) ==
  /\ session' = [session EXCEPT ![t] = stored[t]]
  /\ authed' = [authed EXCEPT ![t] = Complete(stored[t])]
  /\ pending' = [pending EXCEPT ![t] = stored[t].login # None /\ ~Complete(stored[t])]
  /\ tenant' = [tenant EXCEPT ![t] = devTenant]
  /\ endpoint' = [endpoint EXCEPT ![t] = devEndpoint]
  /\ bound' = [bound EXCEPT ![t] = None]
  /\ loading' = [loading EXCEPT ![t] = FALSE]
  /\ reload' = [reload EXCEPT ![t] = FALSE]
  /\ page' = [page EXCEPT ![t] = "none"]
  /\ nav' = [nav EXCEPT ![t] = target]
  /\ reqs' = Drop(t, Kinds)
  /\ UNCHANGED <<stored, devTenant, devEndpoint, history>>

(* F5 on the page on screen. *)
Refresh(t) ==
  /\ page[t] # "none" /\ nav[t] # "reload"
  /\ Boot(t, IF page[t] = "app" THEN "toApp" ELSE "toLogin")

(* window.location.href = document.baseURI takes effect. *)
Reenter(t) == nav[t] = "reload" /\ Boot(t, "toApp")

-----------------------------------------------------------------------------
Next ==
  \/ \E t \in Tabs :
       \/ \E tn \in Tenants, e \in Endpoints : SubmitLogin(t, tn, e)
       \/ SubmitToken(t)
       \/ CancelToken(t)
       \/ \E n \in 1..Burst : RequestData(t, n)
       \/ UserSignsOut(t)
       \/ \E target \in {"toApp", "toLogin"} : Navigate(t, target)
       \/ Guard(t)
       \/ Arrive(t)
       \/ Refresh(t)
       \/ Reenter(t)
  \/ \E r \in reqs :
       \/ \E l \in Logins, second \in Asked(r) : LoginAccepted(r, l, second)
       \/ TokenAccepted(r)
       \/ Expire(r)
       \/ Settle(r)

Spec == Init /\ [][Next]_vars

(* The router finishes what it starts: a guard is a synchronous function, and a user     *)
(* cannot for ever interrupt every single navigation before it ends.                     *)
RouterFairness ==
  \A t \in Tabs : WF_vars(Guard(t)) /\ SF_vars(Arrive(t)) /\ WF_vars(Reenter(t))

FairSpec == Spec /\ RouterFairness

-----------------------------------------------------------------------------
(* TYPE INVARIANT *)
TypeOK ==
  /\ session \in [Tabs -> Session] /\ stored \in [Tabs -> Session]
  /\ authed \in [Tabs -> BOOLEAN] /\ pending \in [Tabs -> BOOLEAN]
  /\ tenant \in [Tabs -> Tenants] /\ devTenant \in Tenants
  /\ endpoint \in [Tabs -> Endpoints] /\ devEndpoint \in Endpoints
  /\ bound \in [Tabs -> Endpoints \cup {None}]
  /\ reload \in [Tabs -> BOOLEAN] /\ loading \in [Tabs -> BOOLEAN]
  /\ page \in [Tabs -> Pages] /\ nav \in [Tabs -> Navs]
  /\ reqs \subseteq Request
  /\ home \in [Logins -> Tenants \cup {None}]
  /\ expired \subseteq [kind : Kinds, sent : Logins, ended : Logins \cup {None}]

(* The three signals AuthService keeps by hand never disagree: the guard and the idle    *)
(* timer read one, the sign-in screen another, the interceptor the third.                *)
SignalsAgree ==
  \A t \in Tabs :
    /\ authed[t] = Complete(session[t])
    /\ pending[t] = (session[t].login # None /\ ~Complete(session[t]))

(* A credential is only ever presented to the tenant that issued it.  The tenant header  *)
(* and the Authorization header come from two signals restored from two storage scopes.  *)
CredentialKeepsTenant ==
  \A r \in reqs : r.kind # "login" /\ r.login # None => r.tenant = home[r.login]

(* A reload brings back the session that was on screen or none, never one that was left. *)
(* Stated for writes that succeed: setItem throwing leaves the older session in storage. *)
RestoredOrForgotten ==
  [][\A t \in Tabs : page[t] # "none" /\ page'[t] = "none" =>
       session'[t] \in {session[t], NoSession}]_vars

(* Leaving a session with a validated second factor sends its token to be invalidated,   *)
(* under the credential and the tenant of that session: logout() must post before it     *)
(* clears what authInterceptor reads.                                                    *)
TokenRevokedOnSignOut ==
  [][\A t \in Tabs : session[t].tfa /\ session'[t] = NoSession =>
       \E r \in reqs' : /\ r.tab = t /\ r.kind = "invalidate" /\ r.tfa
                        /\ r.login = session[t].login /\ r.tenant = home[r.login]]_vars

(* No sign-in so far was made at a tenant that asks for a second factor. *)
PasswordIsEnough == \A l \in Logins : home[l] \notin SecondFactor

(* A page of the application does not outlive its session: whoever ends the session, and *)
(* whatever the user clicks meanwhile, the tab leaves the page or is signed in again.    *)
(* Stated for tenants that ask for no second factor.  With one, a sign-in made over      *)
(* another may turn a session that authGuard has admitted into a pending one.            *)
SignedOutLeavesApp ==
  \A t \in Tabs : (page[t] = "app" /\ ~authed[t] /\ PasswordIsEnough)
                    ~> (page[t] # "app" \/ authed[t] \/ ~PasswordIsEnough)

(* The signals of a tab implement the gate: in particular a reload, a navigation, a late *)
(* answer or another tab never lets anybody in.                                          *)
Gate == INSTANCE SessionGate WITH
  gate <- [t \in Tabs |-> [phase |-> IF authed[t] THEN "in"
                                      ELSE IF pending[t] THEN "pending" ELSE "out",
                            login |-> session[t].login,
                            second |-> session[t].second]],
  used <- {l \in Logins : home[l] # None}

ImplementsGate == Gate!GateSpec

-----------------------------------------------------------------------------
(* What a comment of the code says of it, and a run refutes.                             *)

(* error.interceptor.ts: an expiry ends the session that stopped being valid, and the    *)
(* rest of a burst of 401s "finds the session already gone".                             *)
BurstEndsOneSession == \A e \in expired : e.kind # "login" => e.sent = e.ended
=============================================================================
