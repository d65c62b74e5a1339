------------------------ MODULE AuthSession_proofs -------------------------
(***************************************************************************)
(* Theorems about AuthSession, for any number of tabs, tenants, endpoints, *)
(* sign-ins and requests.                                                  *)
(***************************************************************************)
EXTENDS AuthSession, TLAPS

(* A page can only ask for data after it has bound the API's base path. *)
PagesAreBound == \A t \in Tabs : page[t] = "app" => bound[t] # None

TypeInv == TypeOK /\ PagesAreBound

-----------------------------------------------------------------------------
(* What the storage adapter leaves behind is one of the two values it was given. *)
LEMMA WritesLemma ==
  ASSUME NEW old, NEW new, NEW v \in Writes(old, new)
  PROVE  v = new \/ (StorageMayFail /\ v = old)
  BY DEF Writes

(* A request built by authInterceptor from a well-typed state is well-typed. *)
LEMMA OutgoingType ==
  ASSUME session \in [Tabs -> Session], Burst \in Nat \ {0},
         NEW t \in Tabs, NEW kind \in Kinds, NEW n \in 1..Burst, NEW to \in Endpoints,
         NEW api, NEW tn \in Tenants, NEW changed \in BOOLEAN
  PROVE  Outgoing(t, kind, n, to, api, tn, changed) \in Request
  <1>1. session[t].login \in Logins \cup {None} /\ session[t].tfa \in BOOLEAN
    BY DEF Session
  <1>2. Trusted(to, api) \in BOOLEAN
    BY DEF Trusted
  <1> QED
    BY <1>1, <1>2 DEF Outgoing, Request

(* Signing out keeps the types of everything it writes. *)
LEMMA SignOutType ==
  ASSUME AuthAssumption, TypeOK, NEW t \in Tabs, NEW answered, SignOut(t, answered)
  PROVE  /\ session' \in [Tabs -> Session] /\ stored' \in [Tabs -> Session]
         /\ authed' \in [Tabs -> BOOLEAN] /\ pending' \in [Tabs -> BOOLEAN]
         /\ reqs' \subseteq Request
  <1>1. NoSession \in Session
    BY DEF NoSession, Session
  <1>2. Invalidation(t) \subseteq Request
    <2>1. 1 \in 1..Burst
      BY DEF AuthAssumption
    <2>2. Outgoing(t, "invalidate", 1, endpoint[t], endpoint[t], tenant[t], FALSE) \in Request
      BY <2>1, OutgoingType DEF AuthAssumption, TypeOK, Kinds
    <2> QED
      BY <2>2 DEF Invalidation
  <1>3. Drop(t, {"validate"}) \subseteq reqs
    BY DEF Drop
  <1> QED
    BY <1>1, <1>2, <1>3 DEF SignOut, TypeOK

(* So does establishing one. *)
LEMMA SetSessionType ==
  ASSUME TypeOK, NEW t \in Tabs, NEW s \in Session, SetSession(t, s)
  PROVE  /\ session' \in [Tabs -> Session] /\ stored' \in [Tabs -> Session]
         /\ authed' \in [Tabs -> BOOLEAN] /\ pending' \in [Tabs -> BOOLEAN]
  <1>1. Complete(s) \in BOOLEAN
    BY DEF Complete, Session
  <1>2. PICK v \in Writes(stored[t], s) : stored' = [stored EXCEPT ![t] = v]
    BY DEF SetSession
  <1>3. v \in Session
    BY WritesLemma DEF TypeOK
  <1> QED
    BY <1>1, <1>2, <1>3 DEF SetSession, TypeOK

(* Validating the second factor of a session gives a session. *)
LEMMA ConfirmedSession ==
  ASSUME NEW s \in Session
  PROVE  /\ [s EXCEPT !.tfa = TRUE] \in Session
         /\ [s EXCEPT !.tfa = TRUE].login = s.login
         /\ [s EXCEPT !.tfa = TRUE].second = s.second
         /\ [s EXCEPT !.tfa = TRUE].tfa
  BY DEF Session

(* And a document load, from storage. *)
LEMMA BootType ==
  ASSUME TypeInv, NEW t \in Tabs, NEW target \in Navs, Boot(t, target)
  PROVE  TypeInv'
  <1>1. stored[t] \in Session /\ Complete(stored[t]) \in BOOLEAN
    BY DEF TypeInv, TypeOK, Complete, Session
  <1>2. Drop(t, Kinds) \subseteq reqs
    BY DEF Drop
  <1>3. TypeOK'
    BY <1>1, <1>2 DEF Boot, TypeOK, TypeInv, Pages, history
  <1>4. PagesAreBound'
    BY DEF Boot, TypeInv, TypeOK, PagesAreBound
  <1> QED
    BY <1>3, <1>4 DEF TypeInv

(* `Go` keeps nav well-typed. *)
LEMMA GoType ==
  ASSUME TypeOK, NEW t \in Tabs, NEW target \in Navs, Go(t, target)
  PROVE  nav' \in [Tabs -> Navs]
  BY DEF TypeOK, Go, Navs

-----------------------------------------------------------------------------
(* Every step keeps the type invariant. *)
LEMMA TypeStep ==
  ASSUME AuthAssumption, TypeInv, [Next]_vars
  PROVE  TypeInv'
  <1>0. TypeOK /\ PagesAreBound
    BY DEF TypeInv
  <1>bu. 1 \in 1..Burst /\ Burst \in Nat \ {0}
    BY DEF AuthAssumption
  <1>1. ASSUME NEW t \in Tabs, NEW tn \in Tenants, NEW e \in Endpoints, SubmitLogin(t, tn, e)
        PROVE  TypeInv'
    <2>1. Outgoing(t, "login", 1, e, e, tn, e # endpoint[t]) \in Request
      BY <1>0, <1>bu, OutgoingType DEF TypeOK, Kinds
    <2>2. devEndpoint' \in Endpoints
      BY <1>0, <1>1, WritesLemma DEF SubmitLogin, TypeOK
    <2>3. TypeOK'
      BY <1>0, <1>1, <2>1, <2>2 DEF SubmitLogin, TypeOK, signals, router, tenants, history
    <2> QED
      BY <1>0, <1>1, <2>3 DEF SubmitLogin, TypeInv, PagesAreBound, router
  <1>2. ASSUME NEW t \in Tabs, SubmitToken(t)
        PROVE  TypeInv'
    <2>1. Outgoing(t, "validate", 1, endpoint[t], endpoint[t], tenant[t], FALSE) \in Request
      BY <1>0, <1>bu, OutgoingType DEF TypeOK, Kinds
    <2> QED
      BY <1>0, <1>2, <2>1
      DEF SubmitToken, TypeInv, TypeOK, PagesAreBound, signals, router, tenants, config, form, history
  <1>3. ASSUME NEW t \in Tabs, CancelToken(t)
        PROVE  TypeInv'
    <2>1. SignOut(t, {})
      BY <1>3 DEF CancelToken
    <2> QED
      BY <1>0, <1>3, <2>1, SignOutType
      DEF CancelToken, TypeInv, TypeOK, PagesAreBound, tenants, config, router, history
  <1>4. ASSUME NEW t \in Tabs, NEW n \in 1..Burst, RequestData(t, n)
        PROVE  TypeInv'
    <2>1. bound[t] \in Endpoints
      BY <1>0, <1>4 DEF RequestData, PagesAreBound, TypeOK
    <2>2. Outgoing(t, "data", n, bound[t], endpoint[t], tenant[t], FALSE) \in Request
      BY <1>0, <1>bu, <2>1, OutgoingType DEF TypeOK, Kinds
    <2> QED
      BY <1>0, <1>4, <2>2
      DEF RequestData, TypeInv, TypeOK, PagesAreBound, signals, router, tenants, config, form, history
  <1>5. ASSUME NEW t \in Tabs, UserSignsOut(t)
        PROVE  TypeInv'
    <2>1. SignOut(t, {}) /\ Go(t, "toLogin")
      BY <1>5 DEF UserSignsOut
    <2>2. nav' \in [Tabs -> Navs]
      BY <1>0, <2>1, GoType DEF Navs
    <2> QED
      BY <1>0, <1>5, <2>1, <2>2, SignOutType
      DEF UserSignsOut, TypeInv, TypeOK, PagesAreBound, tenants, config, form, history
  <1>6. ASSUME NEW t \in Tabs, NEW target \in {"toApp", "toLogin"}, Navigate(t, target)
        PROVE  TypeInv'
    BY <1>0, <1>6
    DEF Navigate, TypeInv, TypeOK, PagesAreBound, Navs, signals, tenants, config, form, history
  <1>7. ASSUME NEW t \in Tabs, Guard(t)
        PROVE  TypeInv'
    BY <1>0, <1>7
    DEF Guard, TypeInv, TypeOK, PagesAreBound, Navs, signals, tenants, config, form, history
  <1>8. ASSUME NEW t \in Tabs, Arrive(t)
        PROVE  TypeInv'
    <2>1. Drop(t, {"login", "validate"}) \subseteq reqs
      BY DEF Drop
    <2>2. TypeOK'
      <3>1. CASE nav[t] = "admitted"
        <4>1. reqs' \subseteq Request
          BY <1>0, <1>8, <2>1, <3>1 DEF Arrive, TypeOK
        <4>2. bound' \in [Tabs -> Endpoints \cup {None}] /\ page' \in [Tabs -> Pages]
          BY <1>0, <1>8, <3>1 DEF Arrive, TypeOK, Pages
        <4> QED
          BY <1>0, <1>8, <3>1, <4>1, <4>2 DEF Arrive, TypeOK, Navs, signals, tenants, history
      <3>2. CASE nav[t] = "toLogin"
        BY <1>0, <1>8, <3>2 DEF Arrive, TypeOK, Pages, Navs, signals, tenants, form, history
      <3> QED
        BY <1>8, <3>1, <3>2 DEF Arrive
    <2>3. PagesAreBound'
      BY <1>0, <1>8 DEF Arrive, TypeOK, PagesAreBound, Pages, AuthAssumption
    <2> QED
      BY <2>2, <2>3 DEF TypeInv
  <1>9. ASSUME NEW t \in Tabs, Refresh(t)
        PROVE  TypeInv'
    BY <1>9, BootType DEF Refresh, Navs
  <1>10. ASSUME NEW t \in Tabs, Reenter(t)
         PROVE  TypeInv'
    BY <1>10, BootType DEF Reenter, Navs
  <1>11. ASSUME NEW r \in reqs, NEW l \in Logins, NEW second \in Asked(r),
                LoginAccepted(r, l, second)
         PROVE  TypeInv'
    <2>1. r.tab \in Tabs /\ r.tenant \in Tenants /\ r.changed \in BOOLEAN
      BY <1>0 DEF TypeOK, Request
    <2>2. second \in BOOLEAN
      BY DEF Asked
    <2>3. [login |-> l, second |-> second, tfa |-> FALSE] \in Session
      BY <2>2 DEF Session
    <2>4. SetSession(r.tab, [login |-> l, second |-> second, tfa |-> FALSE])
      BY <1>11 DEF LoginAccepted
    <2>5. devTenant' \in Tenants /\ tenant' \in [Tabs -> Tenants]
      BY <1>0, <1>11, <2>1, WritesLemma DEF LoginAccepted, SetTenant, TypeOK
    <2>6. nav' \in [Tabs -> Navs]
      BY <1>0, <1>11, <2>1, GoType DEF LoginAccepted, EnterApplication, TypeOK, Navs
    <2>7. loading' \in [Tabs -> BOOLEAN] /\ reload' \in [Tabs -> BOOLEAN]
      BY <1>0, <1>11, <2>1 DEF LoginAccepted, TypeOK
    <2>8. home' \in [Logins -> Tenants \cup {None}] /\ reqs' \subseteq Request
      BY <1>0, <1>11, <2>1 DEF LoginAccepted, TypeOK
    <2>9. /\ session' \in [Tabs -> Session] /\ stored' \in [Tabs -> Session]
          /\ authed' \in [Tabs -> BOOLEAN] /\ pending' \in [Tabs -> BOOLEAN]
      BY <1>0, <2>1, <2>3, <2>4, SetSessionType
    <2>10. /\ endpoint' = endpoint /\ devEndpoint' = devEndpoint /\ bound' = bound
           /\ page' = page /\ expired' = expired
      BY <1>11 DEF LoginAccepted, config
    <2>11. TypeOK'
      BY <1>0, <2>5, <2>6, <2>7, <2>8, <2>9, <2>10 DEF TypeOK
    <2>12. PagesAreBound'
      BY <1>0, <2>10 DEF PagesAreBound
    <2> QED
      BY <2>11, <2>12 DEF TypeInv
  <1>12. ASSUME NEW r \in reqs, TokenAccepted(r)
         PROVE  TypeInv'
    <2>1. r.tab \in Tabs
      BY <1>0 DEF TypeOK, Request
    <2>2. [session[r.tab] EXCEPT !.tfa = TRUE] \in Session
      BY <1>0, <2>1, ConfirmedSession DEF TypeOK
    <2>3. SetSession(r.tab, [session[r.tab] EXCEPT !.tfa = TRUE])
      BY <1>12 DEF TokenAccepted
    <2>4. /\ session' \in [Tabs -> Session] /\ stored' \in [Tabs -> Session]
          /\ authed' \in [Tabs -> BOOLEAN] /\ pending' \in [Tabs -> BOOLEAN]
      BY <1>0, <2>1, <2>2, <2>3, SetSessionType
    <2>5. nav' \in [Tabs -> Navs]
      BY <1>0, <1>12, <2>1, GoType DEF TokenAccepted, EnterApplication, TypeOK, Navs
    <2> QED
      BY <1>0, <1>12, <2>4, <2>5
      DEF TokenAccepted, TypeInv, TypeOK, PagesAreBound, tenants, config, form, history
  <1>13. ASSUME NEW r \in reqs, Expire(r)
         PROVE  TypeInv'
    <2>1. r.tab \in Tabs /\ r.kind \in Kinds /\ r.login \in Logins
      BY <1>0, <1>13 DEF TypeOK, Request, Expire, TakenForExpiry
    <2>2. SignOut(r.tab, {r}) /\ Go(r.tab, "toLogin") /\ AfterFailure(r)
      BY <1>13 DEF Expire
    <2>3. nav' \in [Tabs -> Navs]
      BY <1>0, <2>1, <2>2, GoType DEF Navs
    <2>4. loading' \in [Tabs -> BOOLEAN]
      BY <1>0, <2>1, <2>2 DEF AfterFailure, TypeOK
    <2>5. expired' \subseteq [kind : Kinds, sent : Logins, ended : Logins \cup {None}]
      <3>1. session[r.tab].login \in Logins \cup {None}
        BY <1>0, <2>1 DEF TypeOK, Session
      <3> QED
        BY <1>0, <1>13, <2>1, <3>1 DEF Expire, TypeOK
    <2>6. /\ session' \in [Tabs -> Session] /\ stored' \in [Tabs -> Session]
          /\ authed' \in [Tabs -> BOOLEAN] /\ pending' \in [Tabs -> BOOLEAN]
          /\ reqs' \subseteq Request
      BY <1>0, <2>1, <2>2, SignOutType
    <2> QED
      BY <1>0, <1>13, <2>3, <2>4, <2>5, <2>6
      DEF Expire, TypeInv, TypeOK, PagesAreBound, tenants, config
  <1>14. ASSUME NEW r \in reqs, Settle(r)
         PROVE  TypeInv'
    <2>1. loading' \in [Tabs -> BOOLEAN]
      BY <1>0, <1>14 DEF Settle, AfterFailure, TypeOK
    <2> QED
      BY <1>0, <1>14, <2>1
      DEF Settle, TypeInv, TypeOK, PagesAreBound, signals, tenants, config, router, history
  <1>15. CASE UNCHANGED vars
    BY <1>0, <1>15 DEF vars, TypeInv, TypeOK, PagesAreBound
  <1> QED
    BY <1>1, <1>2, <1>3, <1>4, <1>5, <1>6, <1>7, <1>8, <1>9, <1>10, <1>11, <1>12, <1>13,
       <1>14, <1>15 DEF Next

LEMMA TypeInit ==
  ASSUME AuthAssumption, Init
  PROVE  TypeInv
  <1>1. NoSession \in Session
    BY DEF NoSession, Session
  <1> QED
    BY <1>1 DEF Init, TypeInv, TypeOK, PagesAreBound, Pages, Navs

(* Every variable keeps its type, and no page asks for data before the API's base path   *)
(* is bound, in any deployment.                                                          *)
THEOREM TypeCorrect == Spec => []TypeOK
  <1>1. Init => TypeInv
    BY AuthAssumption, TypeInit
  <1>2. TypeInv /\ [Next]_vars => TypeInv'
    BY AuthAssumption, TypeStep
  <1>3. TypeInv => TypeOK
    BY DEF TypeInv
  <1> QED
    BY <1>1, <1>2, <1>3, PTL DEF Spec

-----------------------------------------------------------------------------
(* What the signals and the gate rest on: every session on screen was accepted, and with *)
(* a storage that does not fail it is the stored one.                                    *)
SessionsAccepted == \A t \in Tabs : session[t].login # None => home[session[t].login] # None
StorageShadows == ~StorageMayFail => stored = session

SessionInv == SignalsAgree /\ SessionsAccepted /\ StorageShadows

(* Establishing a session whose sign-in was accepted. *)
LEMMA SetSessionKeeps ==
  ASSUME TypeOK, SessionInv, NEW t \in Tabs, NEW s \in Session, s.login # None,
         SetSession(t, s)
  PROVE  /\ SignalsAgree' /\ StorageShadows'
         /\ \A u \in Tabs : session'[u] = IF u = t THEN s ELSE session[u]
  <1>1. \A u \in Tabs : session'[u] = IF u = t THEN s ELSE session[u]
    BY DEF SetSession, TypeOK
  <1>2. \A u \in Tabs : authed'[u] = IF u = t THEN Complete(s) ELSE authed[u]
    BY DEF SetSession, TypeOK
  <1>3. \A u \in Tabs : pending'[u] = IF u = t THEN ~Complete(s) ELSE pending[u]
    BY DEF SetSession, TypeOK
  <1>4. SignalsAgree'
    BY <1>1, <1>2, <1>3 DEF SessionInv, SignalsAgree, Complete
  <1>5. StorageShadows'
    <2>1. PICK v \in Writes(stored[t], s) : stored' = [stored EXCEPT ![t] = v]
      BY DEF SetSession
    <2>2. ~StorageMayFail => v = s
      BY WritesLemma
    <2> QED
      BY <2>1, <2>2 DEF SetSession, SessionInv, StorageShadows
  <1> QED
    BY <1>1, <1>4, <1>5

(* Leaving one. *)
LEMMA SignOutKeeps ==
  ASSUME TypeOK, SessionInv, NEW t \in Tabs, NEW answered, SignOut(t, answered),
         home' = home
  PROVE  SessionInv'
  <1>1. \A u \in Tabs : session'[u] = IF u = t THEN NoSession ELSE session[u]
    BY DEF SignOut, TypeOK
  <1>2. \A u \in Tabs : authed'[u] = IF u = t THEN FALSE ELSE authed[u]
    BY DEF SignOut, TypeOK
  <1>3. \A u \in Tabs : pending'[u] = IF u = t THEN FALSE ELSE pending[u]
    BY DEF SignOut, TypeOK
  <1>4. NoSession.login = None
    BY DEF NoSession
  <1>5. SignalsAgree'
    BY <1>1, <1>2, <1>3, <1>4 DEF SessionInv, SignalsAgree, Complete
  <1>6. SessionsAccepted'
    BY <1>1, <1>4 DEF SessionInv, SessionsAccepted
  <1>7. StorageShadows'
    BY DEF SignOut, SessionInv, StorageShadows
  <1> QED
    BY <1>5, <1>6, <1>7 DEF SessionInv

(* Loading the document: what storage holds was accepted too. *)
StoredAccepted == \A t \in Tabs : stored[t].login # None => home[stored[t].login] # None

LEMMA BootKeeps ==
  ASSUME TypeOK, SessionInv, StoredAccepted, NEW t \in Tabs, NEW target, Boot(t, target)
  PROVE  SessionInv'
  <1>1. \A u \in Tabs : session'[u] = IF u = t THEN stored[t] ELSE session[u]
    BY DEF Boot, TypeOK
  <1>2. \A u \in Tabs : authed'[u] = IF u = t THEN Complete(stored[t]) ELSE authed[u]
    BY DEF Boot, TypeOK
  <1>3. \A u \in Tabs : pending'[u] = IF u = t
                          THEN stored[t].login # None /\ ~Complete(stored[t]) ELSE pending[u]
    BY DEF Boot, TypeOK
  <1>4. SignalsAgree'
    BY <1>1, <1>2, <1>3 DEF SessionInv, SignalsAgree, Complete
  <1>5. SessionsAccepted'
    BY <1>1 DEF SessionInv, SessionsAccepted, StoredAccepted, Boot, history
  <1>6. StorageShadows'
    BY DEF Boot, SessionInv, StorageShadows, TypeOK
  <1> QED
    BY <1>4, <1>5, <1>6 DEF SessionInv

(* A sign-in is accepted once: `home` only ever gains a tenant. *)
LEMMA AcceptedStays ==
  ASSUME AuthAssumption, TypeOK, NEW r \in reqs, NEW l \in Logins, NEW second,
         LoginAccepted(r, l, second)
  PROVE  /\ r.tab \in Tabs /\ r.tenant \in Tenants /\ r.tenant # None
         /\ \A m \in Logins : home'[m] = IF m = l THEN r.tenant ELSE home[m]
         /\ l # None
  <1>1. r.tab \in Tabs /\ r.tenant \in Tenants
    BY DEF TypeOK, Request
  <1>2. r.tenant # None /\ l # None
    BY <1>1 DEF AuthAssumption
  <1>3. \A m \in Logins : home'[m] = IF m = l THEN r.tenant ELSE home[m]
    BY DEF LoginAccepted, TypeOK
  <1> QED
    BY <1>1, <1>2, <1>3

LEMMA SessionStep ==
  ASSUME AuthAssumption, TypeInv, SessionInv, StoredAccepted, [Next]_vars
  PROVE  SessionInv' /\ StoredAccepted'
  <1>0. TypeOK
    BY DEF TypeInv
  <1>s. ASSUME UNCHANGED <<session, authed, pending, stored, home>>
        PROVE  SessionInv' /\ StoredAccepted'
    BY <1>s DEF SessionInv, SignalsAgree, SessionsAccepted, StorageShadows, StoredAccepted
  <1>o. ASSUME NEW t \in Tabs, NEW answered, SignOut(t, answered), home' = home
        PROVE  SessionInv' /\ StoredAccepted'
    <2>1. NoSession.login = None
      BY DEF NoSession
    <2>2. StoredAccepted'
      BY <1>0, <1>o, <2>1 DEF SignOut, StoredAccepted, TypeOK
    <2> QED
      BY <1>0, <1>o, <2>2, SignOutKeeps
  <1>b. ASSUME NEW t \in Tabs, NEW target, Boot(t, target)
        PROVE  SessionInv' /\ StoredAccepted'
    <2>1. StoredAccepted'
      BY <1>b DEF Boot, StoredAccepted, history
    <2> QED
      BY <1>0, <1>b, <2>1, BootKeeps
  <1>1. ASSUME NEW t \in Tabs, NEW tn \in Tenants, NEW e \in Endpoints, SubmitLogin(t, tn, e)
        PROVE  SessionInv' /\ StoredAccepted'
    BY <1>1, <1>s DEF SubmitLogin, signals, history
  <1>2. ASSUME NEW t \in Tabs, SubmitToken(t)
        PROVE  SessionInv' /\ StoredAccepted'
    BY <1>2, <1>s DEF SubmitToken, signals, history
  <1>3. ASSUME NEW t \in Tabs, CancelToken(t)
        PROVE  SessionInv' /\ StoredAccepted'
    BY <1>3, <1>o DEF CancelToken, history
  <1>4. ASSUME NEW t \in Tabs, NEW n \in 1..Burst, RequestData(t, n)
        PROVE  SessionInv' /\ StoredAccepted'
    BY <1>4, <1>s DEF RequestData, signals, history
  <1>5. ASSUME NEW t \in Tabs, UserSignsOut(t)
        PROVE  SessionInv' /\ StoredAccepted'
    BY <1>5, <1>o DEF UserSignsOut, history
  <1>6. ASSUME NEW t \in Tabs, NEW target \in {"toApp", "toLogin"}, Navigate(t, target)
        PROVE  SessionInv' /\ StoredAccepted'
    BY <1>6, <1>s DEF Navigate, signals, history
  <1>7. ASSUME NEW t \in Tabs, Guard(t)
        PROVE  SessionInv' /\ StoredAccepted'
    BY <1>7, <1>s DEF Guard, signals, history
  <1>8. ASSUME NEW t \in Tabs, Arrive(t)
        PROVE  SessionInv' /\ StoredAccepted'
    BY <1>8, <1>s DEF Arrive, signals, history
  <1>9. ASSUME NEW t \in Tabs, Refresh(t) \/ Reenter(t)
        PROVE  SessionInv' /\ StoredAccepted'
    BY <1>9, <1>b DEF Refresh, Reenter
  <1>10. ASSUME NEW r \in reqs, NEW l \in Logins, NEW second \in Asked(r),
                LoginAccepted(r, l, second)
         PROVE  SessionInv' /\ StoredAccepted'
    <2> DEFINE s == [login |-> l, second |-> second, tfa |-> FALSE]
    <2>1. s \in Session /\ s.login # None
      BY AcceptedStays, <1>0, <1>10 DEF AuthAssumption, Session, Asked
    <2>2. /\ r.tab \in Tabs /\ r.tenant # None
          /\ \A m \in Logins : home'[m] = IF m = l THEN r.tenant ELSE home[m]
      BY AcceptedStays, <1>0, <1>10
    <2>3. SetSession(r.tab, s)
      BY <1>10 DEF LoginAccepted
    <2> HIDE DEF s
    <2>4. /\ SignalsAgree' /\ StorageShadows'
          /\ \A u \in Tabs : session'[u] = IF u = r.tab THEN s ELSE session[u]
      BY <1>0, <2>1, <2>2, <2>3, SetSessionKeeps
    <2>5. home'[s.login] # None
      BY <2>2 DEF s
    <2>6. \A u \in Tabs : session[u].login \in Logins \cup {None} /\ stored[u].login \in Logins \cup {None}
      BY <1>0 DEF TypeOK, Session
    <2>7. SessionsAccepted'
      BY <2>2, <2>4, <2>5, <2>6 DEF SessionInv, SessionsAccepted
    <2>8. PICK v \in Writes(stored[r.tab], s) : stored' = [stored EXCEPT ![r.tab] = v]
      BY <2>3 DEF SetSession
    <2>9. v = s \/ v = stored[r.tab]
      BY WritesLemma
    <2>10. \A u \in Tabs : stored'[u] = IF u = r.tab THEN v ELSE stored[u]
      BY <1>0, <2>8 DEF TypeOK
    <2>11. StoredAccepted'
      BY <2>2, <2>5, <2>6, <2>9, <2>10 DEF StoredAccepted
    <2> QED
      BY <2>4, <2>7, <2>11 DEF SessionInv
  <1>11. ASSUME NEW r \in reqs, TokenAccepted(r)
         PROVE  SessionInv' /\ StoredAccepted'
    <2> DEFINE s == [session[r.tab] EXCEPT !.tfa = TRUE]
    <2>1. r.tab \in Tabs /\ session[r.tab] \in Session
      BY <1>0 DEF TypeOK, Request
    <2>2. s \in Session /\ s.login = session[r.tab].login
      BY <2>1, ConfirmedSession
    <2>3. SetSession(r.tab, s) /\ s.login # None /\ home' = home
      BY <1>11, <2>2 DEF TokenAccepted, history
    <2> HIDE DEF s
    <2>4. /\ SignalsAgree' /\ StorageShadows'
          /\ \A u \in Tabs : session'[u] = IF u = r.tab THEN s ELSE session[u]
      BY <1>0, <2>1, <2>2, <2>3, SetSessionKeeps
    <2>5. SessionsAccepted'
      BY <2>1, <2>2, <2>3, <2>4 DEF SessionInv, SessionsAccepted
    <2>6. PICK v \in Writes(stored[r.tab], s) : stored' = [stored EXCEPT ![r.tab] = v]
      BY <2>3 DEF SetSession
    <2>7. v = s \/ v = stored[r.tab]
      BY WritesLemma
    <2>8. \A u \in Tabs : stored'[u] = IF u = r.tab THEN v ELSE stored[u]
      BY <1>0, <2>6 DEF TypeOK
    <2>9. home[s.login] # None
      BY <2>1, <2>2, <2>3 DEF SessionInv, SessionsAccepted
    <2>10. StoredAccepted'
      BY <2>1, <2>3, <2>7, <2>8, <2>9 DEF StoredAccepted
    <2> QED
      BY <2>4, <2>5, <2>10 DEF SessionInv
  <1>12. ASSUME NEW r \in reqs, Expire(r)
         PROVE  SessionInv' /\ StoredAccepted'
    <2>1. r.tab \in Tabs
      BY <1>0 DEF TypeOK, Request
    <2> QED
      BY <1>12, <1>o, <2>1 DEF Expire
  <1>13. ASSUME NEW r \in reqs, Settle(r)
         PROVE  SessionInv' /\ StoredAccepted'
    BY <1>13, <1>s DEF Settle, signals, history
  <1>14. CASE UNCHANGED vars
    BY <1>14, <1>s DEF vars
  <1> QED
    BY <1>1, <1>2, <1>3, <1>4, <1>5, <1>6, <1>7, <1>8, <1>9, <1>10, <1>11, <1>12, <1>13, <1>14
    DEF Next

LEMMA SessionInit ==
  ASSUME Init
  PROVE  SessionInv /\ StoredAccepted
  <1>1. NoSession.login = None
    BY DEF NoSession
  <1> QED
    BY <1>1 DEF Init, SessionInv, SignalsAgree, SessionsAccepted, StorageShadows,
                StoredAccepted, Complete

AuthInv == TypeInv /\ SessionInv /\ StoredAccepted

LEMMA AuthInvariant == Spec => []AuthInv
  <1>1. Init => AuthInv
    BY AuthAssumption, TypeInit, SessionInit DEF AuthInv
  <1>2. AuthInv /\ [Next]_vars => AuthInv'
    BY AuthAssumption, TypeStep, SessionStep DEF AuthInv
  <1> QED
    BY <1>1, <1>2, PTL DEF Spec

(* The three signals agree in every reachable state, of any number of tabs, whether or   *)
(* not storage fails.                                                                    *)
THEOREM SignalsNeverDisagree == Spec => []SignalsAgree
  <1>1. AuthInv => SignalsAgree
    BY DEF AuthInv, SessionInv
  <1> QED
    BY <1>1, AuthInvariant, PTL

-----------------------------------------------------------------------------
(* The gate, as the refinement mapping shows it. *)
GateOf(t) == [phase |-> IF authed[t] THEN "in" ELSE IF pending[t] THEN "pending" ELSE "out",
              login |-> session[t].login, second |-> session[t].second]

Accepted == {l \in Logins : home[l] # None}

LEMMA GateInitially == Init => Gate!GateInit
  BY DEF Init, NoSession, Gate!GateInit, Gate!Out

LEMMA GateStep ==
  ASSUME AuthAssumption, ~StorageMayFail, AuthInv, [Next]_vars
  PROVE  [Gate!GateNext]_(Gate!gateVars)
  <1>0. TypeOK /\ SignalsAgree /\ stored = session
    BY DEF AuthInv, TypeInv, SessionInv, StorageShadows
  <1>g. Gate!gateVars = <<[t \in Tabs |-> GateOf(t)], Accepted>>
    BY DEF Gate!gateVars, GateOf, Accepted
  <1>s. ASSUME UNCHANGED <<session, authed, pending, home>>
        PROVE  UNCHANGED Gate!gateVars
    BY <1>s, <1>g DEF Gate!gateVars
  <1>o. ASSUME NEW t \in Tabs, NEW answered, SignOut(t, answered), home' = home
        PROVE  Gate!GateNext
    <2>1. Gate!Leave(t)
      BY <1>0, <1>o DEF SignOut, TypeOK, NoSession, Gate!Leave, Gate!Out
    <2> QED
      BY <2>1 DEF Gate!GateNext
  <1>b. ASSUME NEW t \in Tabs, NEW target, Boot(t, target)
        PROVE  UNCHANGED Gate!gateVars
    <2>1. session' = session /\ authed' = authed /\ pending' = pending
      BY <1>0, <1>b DEF Boot, TypeOK, SignalsAgree
    <2> QED
      BY <1>b, <1>s, <2>1 DEF Boot, history
  <1>1. ASSUME NEW r \in reqs, NEW l \in Logins, NEW second \in Asked(r),
               LoginAccepted(r, l, second)
        PROVE  Gate!GateNext
    <2> DEFINE s == [login |-> l, second |-> second, tfa |-> FALSE]
    <2>1. /\ r.tab \in Tabs /\ r.tenant # None /\ l # None
          /\ \A m \in Logins : home'[m] = IF m = l THEN r.tenant ELSE home[m]
      BY AcceptedStays, <1>0, <1>1
    <2>2. second \in BOOLEAN
      BY DEF Asked
    <2>3. SetSession(r.tab, s) /\ home[l] = None
      BY <1>1 DEF LoginAccepted
    <2>4. Complete(s) = ~second
      BY <2>1, <2>2 DEF Complete
    <2>5. Accepted' = Accepted \cup {l} /\ l \notin Accepted
      BY <2>1, <2>3 DEF Accepted
    <2>6. [t \in Tabs |-> GateOf(t)]' = [[t \in Tabs |-> GateOf(t)] EXCEPT ![r.tab] =
            [phase |-> IF second THEN "pending" ELSE "in", login |-> l, second |-> second]]
      BY <1>0, <2>1, <2>2, <2>3, <2>4 DEF SetSession, TypeOK, GateOf
    <2>7. Gate!Accept(r.tab, l, second)
      BY <2>5, <2>6 DEF Gate!Accept, GateOf, Accepted
    <2> QED
      BY <2>1, <2>2, <2>7 DEF Gate!GateNext
  <1>2. ASSUME NEW r \in reqs, TokenAccepted(r)
        PROVE  Gate!GateNext \/ UNCHANGED Gate!gateVars
    <2> DEFINE t == r.tab
               s == [session[t] EXCEPT !.tfa = TRUE]
    <2>1. t \in Tabs /\ session[t] \in Session /\ session[t].login # None
      BY <1>0, <1>2 DEF TypeOK, Request, TokenAccepted
    <2>2. s \in Session /\ s.login = session[t].login /\ s.second = session[t].second /\ s.tfa
      BY <2>1, ConfirmedSession
    <2>3. SetSession(t, s) /\ home' = home
      BY <1>2 DEF TokenAccepted, history
    <2>4. Complete(s)
      BY <2>1, <2>2 DEF Complete
    <2>5. session[t].second \in BOOLEAN /\ authed[t] \in BOOLEAN /\ pending[t] = ~authed[t]
      BY <1>0, <2>1 DEF SignalsAgree, Session, TypeOK
    <2> HIDE DEF s
    <2>6. [u \in Tabs |-> GateOf(u)]' = [[u \in Tabs |-> GateOf(u)] EXCEPT ![t].phase = "in"]
      BY <1>0, <2>1, <2>2, <2>3, <2>4 DEF SetSession, TypeOK, GateOf
    <2>7. CASE pending[t]
      <3>1. Gate!Confirm(t)
        BY <2>1, <2>3, <2>5, <2>6, <2>7 DEF Gate!Confirm, GateOf
      <3> QED
        BY <2>1, <3>1 DEF Gate!GateNext
    <2>8. CASE ~pending[t]
      <3>1. GateOf(t).phase = "in"
        BY <2>5, <2>8 DEF GateOf
      <3>2. [u \in Tabs |-> GateOf(u)]' = [u \in Tabs |-> GateOf(u)]
        BY <2>1, <2>6, <3>1 DEF GateOf
      <3> QED
        BY <2>3, <3>2 DEF Gate!gateVars, GateOf
    <2> QED
      BY <2>7, <2>8
  <1>3. ASSUME NEW r \in reqs, Expire(r)
        PROVE  Gate!GateNext
    <2>1. r.tab \in Tabs
      BY <1>0 DEF TypeOK, Request
    <2> QED
      BY <1>3, <1>o, <2>1 DEF Expire
  <1>4. ASSUME NEW r \in reqs, Settle(r)
        PROVE  UNCHANGED Gate!gateVars
    BY <1>4, <1>s DEF Settle, signals, history
  <1>5. ASSUME NEW t \in Tabs, CancelToken(t) \/ UserSignsOut(t)
        PROVE  Gate!GateNext
    BY <1>5, <1>o DEF CancelToken, UserSignsOut, history
  <1>6. ASSUME NEW t \in Tabs, Refresh(t) \/ Reenter(t)
        PROVE  UNCHANGED Gate!gateVars
    BY <1>6, <1>b DEF Refresh, Reenter
  <1>7. ASSUME NEW t \in Tabs,
               \/ \E tn \in Tenants, e \in Endpoints : SubmitLogin(t, tn, e)
               \/ SubmitToken(t)
               \/ \E n \in 1..Burst : RequestData(t, n)
               \/ \E target \in {"toApp", "toLogin"} : Navigate(t, target)
               \/ Guard(t)
               \/ Arrive(t)
        PROVE  UNCHANGED Gate!gateVars
    BY <1>7, <1>s DEF SubmitLogin, SubmitToken, RequestData, Navigate, Guard, Arrive,
                      signals, history
  <1>8. CASE UNCHANGED vars
    BY <1>8, <1>s DEF vars
  <1> QED
    BY <1>1, <1>2, <1>3, <1>4, <1>5, <1>6, <1>7, <1>8 DEF Next

(* Over a storage that does not fail, the signals of every tab implement the gate: only  *)
(* an accepted password or token lets anybody in; reloads, navigations, late answers and *)
(* other tabs never do.                                                                  *)
THEOREM GateImplemented ==
  ASSUME ~StorageMayFail
  PROVE  Spec => ImplementsGate
  <1>1. AuthInv /\ [Next]_vars => [Gate!GateNext]_(Gate!gateVars)
    BY AuthAssumption, GateStep
  <1> QED
    BY <1>1, AuthInvariant, GateInitially, PTL DEF Spec, ImplementsGate, Gate!GateSpec

-----------------------------------------------------------------------------
(* One tab, reliable storage: the tenant signal, the stored tenant and the tenant of the *)
(* session on screen are the same, and so are the headers of what is in flight.          *)
TenantInv(T) ==
  /\ devTenant = tenant[T]
  /\ session[T].login # None => home[session[T].login] = tenant[T]
  /\ CredentialKeepsTenant

LEMMA InvalidationTenant ==
  ASSUME NEW T, TenantInv(T), NEW r \in Invalidation(T)
  PROVE  r.login # None => r.tenant = home[r.login]
  BY DEF TenantInv, Outgoing, Invalidation

LEMMA TenantStep ==
  ASSUME AuthAssumption, ~StorageMayFail, AuthInv, NEW T, Tabs = {T}, TenantInv(T), [Next]_vars
  PROVE  TenantInv(T)'
  <1>0. TypeOK /\ stored = session /\ T \in Tabs /\ \A r \in reqs : r.tab = T
    BY DEF AuthInv, TypeInv, TypeOK, Request, SessionInv, StorageShadows
  <1>s. ASSUME UNCHANGED <<session, tenant, devTenant, home>>, reqs' \subseteq reqs
        PROVE  TenantInv(T)'
    BY <1>s DEF TenantInv, CredentialKeepsTenant
  <1>o. ASSUME NEW answered, SignOut(T, answered), UNCHANGED <<tenant, devTenant, home>>
        PROVE  TenantInv(T)'
    <2>1. session'[T].login = None
      BY <1>0, <1>o DEF SignOut, TypeOK, NoSession
    <2>2. reqs' \subseteq reqs \cup Invalidation(T)
      BY <1>o DEF SignOut, Drop
    <2>3. CredentialKeepsTenant'
      BY <1>o, <2>2, InvalidationTenant DEF TenantInv, CredentialKeepsTenant
    <2> QED
      BY <1>o, <2>1, <2>3 DEF TenantInv
  <1>b. ASSUME NEW target, Boot(T, target)
        PROVE  TenantInv(T)'
    <2>1. session' = session /\ tenant' = tenant /\ reqs' \subseteq reqs
      BY <1>0, <1>b DEF Boot, TypeOK, TenantInv, Drop
    <2> QED
      BY <1>b, <1>s, <2>1 DEF Boot, history
  <1>1. ASSUME NEW tn \in Tenants, NEW e \in Endpoints, SubmitLogin(T, tn, e)
        PROVE  TenantInv(T)'
    <2>1. Outgoing(T, "login", 1, e, e, tn, e # endpoint[T]).kind = "login"
      BY DEF Outgoing
    <2> QED
      BY <1>1, <2>1
      DEF SubmitLogin, TenantInv, CredentialKeepsTenant, signals, tenants, history
  <1>2. ASSUME SubmitToken(T)
        PROVE  TenantInv(T)'
    <2> DEFINE q == Outgoing(T, "validate", 1, endpoint[T], endpoint[T], tenant[T], FALSE)
    <2>1. q.login # None => q.tenant = home[q.login]
      BY DEF TenantInv, Outgoing
    <2>2. reqs' = reqs \cup {q} /\ UNCHANGED <<session, tenant, devTenant, home>>
      BY <1>2 DEF SubmitToken, signals, tenants, history
    <2> HIDE DEF q
    <2> QED
      BY <2>1, <2>2 DEF TenantInv, CredentialKeepsTenant
  <1>3. ASSUME NEW n \in 1..Burst, RequestData(T, n)
        PROVE  TenantInv(T)'
    <2> DEFINE q == Outgoing(T, "data", n, bound[T], endpoint[T], tenant[T], FALSE)
    <2>1. q.login # None => q.tenant = home[q.login]
      BY DEF TenantInv, Outgoing
    <2>2. reqs' = reqs \cup {q} /\ UNCHANGED <<session, tenant, devTenant, home>>
      BY <1>3 DEF RequestData, signals, tenants, history
    <2> HIDE DEF q
    <2> QED
      BY <2>1, <2>2 DEF TenantInv, CredentialKeepsTenant
  <1>4. ASSUME NEW r \in reqs, NEW l \in Logins, NEW second \in Asked(r),
               LoginAccepted(r, l, second)
        PROVE  TenantInv(T)'
    <2>1. /\ r.tab = T /\ r.tenant \in Tenants /\ r.tenant # None
          /\ \A m \in Logins : home'[m] = IF m = l THEN r.tenant ELSE home[m]
      BY AcceptedStays, <1>0, <1>4
    <2>2. tenant'[T] = r.tenant /\ devTenant' = r.tenant
      BY <1>0, <1>4, <2>1, WritesLemma DEF LoginAccepted, SetTenant, TypeOK
    <2>3. session'[T].login = l
      BY <1>0, <1>4, <2>1 DEF LoginAccepted, SetSession, TypeOK
    <2>4. reqs' \subseteq reqs /\ home[l] = None
      BY <1>4 DEF LoginAccepted
    <2>5. ASSUME NEW q \in reqs', q.kind # "login", q.login # None
          PROVE  q.tenant = home'[q.login]
      <3>1. q \in reqs /\ q.tenant = home[q.login]
        BY <2>4, <2>5 DEF TenantInv, CredentialKeepsTenant
      <3>2. q.login \in Logins /\ q.tenant \in Tenants
        BY <1>0, <2>5, <3>1 DEF TypeOK, Request
      <3>3. q.login # l
        BY <2>4, <3>1, <3>2 DEF AuthAssumption
      <3> QED
        BY <2>1, <3>1, <3>2, <3>3
    <2> QED
      BY <2>1, <2>2, <2>3, <2>5 DEF TenantInv, CredentialKeepsTenant
  <1>5. ASSUME NEW r \in reqs, TokenAccepted(r)
        PROVE  TenantInv(T)'
    <2>1. session[T] \in Session /\ r.tab = T
      BY <1>0 DEF TypeOK
    <2>2. session'[T].login = session[T].login
      BY <1>0, <1>5, <2>1, ConfirmedSession DEF TokenAccepted, SetSession, TypeOK
    <2>3. reqs' \subseteq reqs /\ UNCHANGED <<tenant, devTenant, home>>
      BY <1>5 DEF TokenAccepted, tenants, history
    <2> QED
      BY <2>2, <2>3 DEF TenantInv, CredentialKeepsTenant
  <1>6. ASSUME NEW r \in reqs, Expire(r)
        PROVE  TenantInv(T)'
    BY <1>0, <1>6, <1>o DEF Expire, tenants
  <1>7. ASSUME NEW r \in reqs, Settle(r)
        PROVE  TenantInv(T)'
    BY <1>7, <1>s DEF Settle, signals, tenants, history
  <1>8. ASSUME CancelToken(T) \/ UserSignsOut(T)
        PROVE  TenantInv(T)'
    BY <1>8, <1>o DEF CancelToken, UserSignsOut, tenants, history
  <1>9. ASSUME Refresh(T) \/ Reenter(T)
        PROVE  TenantInv(T)'
    BY <1>9, <1>b DEF Refresh, Reenter
  <1>10. ASSUME (\E target \in {"toApp", "toLogin"} : Navigate(T, target)) \/ Guard(T)
         PROVE  TenantInv(T)'
    BY <1>10, <1>s DEF Navigate, Guard, signals, tenants, history
  <1>11. ASSUME Arrive(T)
         PROVE  TenantInv(T)'
    <2>1. reqs' \subseteq reqs
      BY <1>11 DEF Arrive, Drop
    <2> QED
      BY <1>11, <1>s, <2>1 DEF Arrive, signals, tenants, history
  <1>12. CASE UNCHANGED vars
    BY <1>12, <1>s DEF vars
  <1> QED
    BY <1>1, <1>2, <1>3, <1>4, <1>5, <1>6, <1>7, <1>8, <1>9, <1>10, <1>11, <1>12 DEF Next

LEMMA TenantInit ==
  ASSUME Init, NEW T, Tabs = {T}
  PROVE  TenantInv(T)
  BY DEF Init, NoSession, TenantInv, CredentialKeepsTenant

(* In a single tab over a storage that does not fail, a credential never travels with    *)
(* the header of another tenant, whatever signs in, signs out, expires or reloads.       *)
THEOREM OneTabKeepsTenant ==
  ASSUME NEW T, Tabs = {T}, ~StorageMayFail
  PROVE  Spec => []CredentialKeepsTenant
  <1>1. Init => TenantInv(T)
    BY TenantInit
  <1>2. AuthInv /\ TenantInv(T) /\ [Next]_vars => TenantInv(T)'
    BY AuthAssumption, TenantStep
  <1>3. TenantInv(T) => CredentialKeepsTenant
    BY DEF TenantInv
  <1> QED
    BY <1>1, <1>2, <1>3, AuthInvariant, PTL DEF Spec
-----------------------------------------------------------------------------
(* Storage that does not fail is a copy of the session on screen, so that is what a      *)
(* document load finds - in any number of tabs: the key of the session is per tab.       *)
THEOREM ReloadRestores ==
  ASSUME ~StorageMayFail
  PROVE  Spec => RestoredOrForgotten
  <1>1. ASSUME AuthInv, [Next]_vars, NEW t \in Tabs, page[t] # "none", page'[t] = "none"
        PROVE  session'[t] = session[t]
    <2>0. TypeOK /\ stored = session
      BY <1>1 DEF AuthInv, TypeInv, SessionInv, StorageShadows
    <2>1. ASSUME NEW u \in Tabs, NEW target, Boot(u, target)
          PROVE  session' = session
      BY <2>0, <2>1 DEF Boot, TypeOK
    <2>2. ASSUME NEW u \in Tabs, Arrive(u)
          PROVE  FALSE
      BY <1>1, <2>0, <2>2 DEF Arrive, TypeOK
    <2>3. page' = page \/ \E u \in Tabs : Arrive(u) \/ Refresh(u) \/ Reenter(u)
      BY <1>1
      DEF Next, vars, SubmitLogin, SubmitToken, CancelToken, RequestData, UserSignsOut, Navigate,
          Guard, LoginAccepted, TokenAccepted, Expire, Settle, router
    <2> QED
      BY <1>1, <2>1, <2>2, <2>3 DEF Refresh, Reenter
  <1>2. AuthInv /\ [Next]_vars =>
          [\A t \in Tabs : page[t] # "none" /\ page'[t] = "none" =>
             session'[t] \in {session[t], NoSession}]_vars
    BY <1>1
  <1> QED
    BY <1>2, AuthInvariant, PTL DEF Spec, RestoredOrForgotten

-----------------------------------------------------------------------------
(* A token belongs to a sign-in. *)
TokensHaveSignIns == \A t \in Tabs : session[t].tfa => session[t].login # None

(* Leaving a session posts its invalidation, under the credential still on screen.       *)
LEMMA SignOutRevokes ==
  ASSUME TypeOK, NEW T \in Tabs, TenantInv(T), NEW answered, SignOut(T, answered),
         home' = home, session[T].tfa, session[T].login # None
  PROVE  \E r \in reqs' : /\ r.tab = T /\ r.kind = "invalidate" /\ r.tfa
                          /\ r.login = session[T].login /\ r.tenant = home[r.login]
  <1> DEFINE q == Outgoing(T, "invalidate", 1, endpoint[T], endpoint[T], tenant[T], FALSE)
  <1>1. q \in reqs'
    BY DEF SignOut, Invalidation
  <1>2. /\ q.tab = T /\ q.kind = "invalidate" /\ q.tfa
        /\ q.login = session[T].login /\ q.tenant = tenant[T]
    BY DEF Outgoing, Trusted
  <1>3. tenant[T] = home[session[T].login]
    BY DEF TenantInv
  <1> HIDE DEF q
  <1> QED
    BY <1>1, <1>2, <1>3

(* What becomes of a session in one step: it is as it was, it is a sign-in that has just *)
(* been accepted or confirmed, or it is left by a sign-out.                              *)
LEMMA SessionFate ==
  ASSUME AuthAssumption, ~StorageMayFail, AuthInv, NEW t \in Tabs, [Next]_vars
  PROVE  \/ session'[t] = session[t]
         \/ session'[t].login # None
         \/ session'[t] = NoSession /\ home' = home /\ \E answered : SignOut(t, answered)
  <1>0. TypeOK /\ stored = session /\ None \notin Logins
    BY DEF AuthAssumption, AuthInv, TypeInv, SessionInv, StorageShadows
  <1>o. ASSUME NEW u \in Tabs, NEW answered, SignOut(u, answered), home' = home
        PROVE  \/ session'[t] = session[t]
               \/ session'[t] = NoSession /\ \E any : SignOut(t, any)
    <2>1. CASE u = t
      <3>1. session'[t] = NoSession
        BY <1>0, <1>o, <2>1 DEF SignOut, TypeOK
      <3> QED
        BY <1>o, <2>1, <3>1
    <2>2. CASE u # t
      BY <1>0, <1>o, <2>2 DEF SignOut, TypeOK
    <2> QED
      BY <2>1, <2>2
  <1>s. ASSUME NEW u \in Tabs, NEW s, s.login # None, SetSession(u, s)
        PROVE  session'[t] = session[t] \/ session'[t].login # None
    BY <1>0, <1>s DEF SetSession, TypeOK
  <1>1. ASSUME NEW r \in reqs, NEW l \in Logins, NEW second \in Asked(r),
               LoginAccepted(r, l, second)
        PROVE  session'[t] = session[t] \/ session'[t].login # None
    <2>1. r.tab \in Tabs
      BY <1>0 DEF TypeOK, Request
    <2>2. [login |-> l, second |-> second, tfa |-> FALSE].login # None
      BY <1>0
    <2> QED
      BY <1>1, <1>s, <2>1, <2>2 DEF LoginAccepted
  <1>2. ASSUME NEW r \in reqs, TokenAccepted(r)
        PROVE  session'[t] = session[t] \/ session'[t].login # None
    <2>1. r.tab \in Tabs /\ session[r.tab].login # None
      BY <1>0, <1>2 DEF TypeOK, Request, TokenAccepted
    <2>2. [session[r.tab] EXCEPT !.tfa = TRUE].login # None
      BY <1>0, <2>1, ConfirmedSession DEF TypeOK
    <2> QED
      BY <1>2, <1>s, <2>1, <2>2 DEF TokenAccepted
  <1>3. ASSUME NEW r \in reqs, Expire(r)
        PROVE  \/ session'[t] = session[t]
               \/ session'[t] = NoSession /\ home' = home /\ \E answered : SignOut(t, answered)
    <2>1. r.tab \in Tabs
      BY <1>0 DEF TypeOK, Request
    <2> QED
      BY <1>3, <1>o, <2>1 DEF Expire
  <1>4. ASSUME NEW u \in Tabs, CancelToken(u) \/ UserSignsOut(u)
        PROVE  \/ session'[t] = session[t]
               \/ session'[t] = NoSession /\ home' = home /\ \E answered : SignOut(t, answered)
    BY <1>4, <1>o DEF CancelToken, UserSignsOut, history
  <1>5. ASSUME NEW u \in Tabs, Refresh(u) \/ Reenter(u)
        PROVE  session'[t] = session[t]
    BY <1>0, <1>5 DEF Refresh, Reenter, Boot, TypeOK
  <1>6. \/ session' = session
        \/ \E r \in reqs : \E l \in Logins, second \in Asked(r) : LoginAccepted(r, l, second)
        \/ \E r \in reqs : TokenAccepted(r) \/ Expire(r)
        \/ \E u \in Tabs : CancelToken(u) \/ UserSignsOut(u) \/ Refresh(u) \/ Reenter(u)
    BY DEF Next, vars, SubmitLogin, SubmitToken, RequestData, Navigate, Guard, Arrive, Settle,
           signals
  <1> QED
    BY <1>1, <1>2, <1>3, <1>4, <1>5, <1>6

LEMMA TokensStep ==
  ASSUME AuthAssumption, ~StorageMayFail, AuthInv, TokensHaveSignIns, [Next]_vars
  PROVE  TokensHaveSignIns'
  <1>1. ASSUME NEW t \in Tabs
        PROVE  session'[t].tfa => session'[t].login # None
    BY SessionFate DEF TokensHaveSignIns, NoSession
  <1> QED
    BY <1>1 DEF TokensHaveSignIns

(* In a single tab over a storage that does not fail, whatever ends a session that has   *)
(* validated a second factor - the user, the idle timer, the cancelled step, an expiry - *)
(* posts the token for invalidation, with the credential and the tenant that issued it.  *)
THEOREM TokensAreRevoked ==
  ASSUME NEW T, Tabs = {T}, ~StorageMayFail
  PROVE  Spec => TokenRevokedOnSignOut
  <1>1. Init => TenantInv(T) /\ TokensHaveSignIns
    <2>1. Init => TokensHaveSignIns
      BY DEF Init, NoSession, TokensHaveSignIns
    <2> QED
      BY <2>1, TenantInit
  <1>2. AuthInv /\ TenantInv(T) /\ TokensHaveSignIns /\ [Next]_vars =>
          TenantInv(T)' /\ TokensHaveSignIns'
    BY AuthAssumption, TenantStep, TokensStep
  <1>3. ASSUME AuthInv, TenantInv(T), TokensHaveSignIns, [Next]_vars,
               NEW t \in Tabs, session[t].tfa, session'[t] = NoSession
        PROVE  \E r \in reqs' : /\ r.tab = t /\ r.kind = "invalidate" /\ r.tfa
                                /\ r.login = session[t].login /\ r.tenant = home[r.login]
    <2>1. TypeOK /\ t = T /\ session[t].login # None
      BY <1>3 DEF AuthInv, TypeInv, TokensHaveSignIns
    <2>2. session'[t] # session[t] /\ session'[t].login = None
      BY <1>3 DEF NoSession
    <2>3. PICK answered : SignOut(t, answered) /\ home' = home
      BY <1>3, <2>2, AuthAssumption, SessionFate
    <2> QED
      BY <1>3, <2>1, <2>3, SignOutRevokes
  <1>4. AuthInv /\ TenantInv(T) /\ TokensHaveSignIns /\ [Next]_vars =>
          [\A t \in Tabs : session[t].tfa /\ session'[t] = NoSession =>
             \E r \in reqs' : /\ r.tab = t /\ r.kind = "invalidate" /\ r.tfa
                              /\ r.login = session[t].login /\ r.tenant = home[r.login]]_vars
    BY <1>3
  <1> QED
    BY <1>1, <1>2, <1>4, AuthInvariant, PTL DEF Spec, TokenRevokedOnSignOut
=============================================================================
