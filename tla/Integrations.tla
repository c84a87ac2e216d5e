---------------------------- MODULE Integrations ----------------------------
(* The integrations of an organisation: integrations.py, the registration of  *)
(* plugins (plugins/lifecycle.py), the compare-and-set of credentials         *)
(* (plugins/credentials.py) and the cache of login providers                  *)
(* (auth/login_providers.py).  One plugin backs every integration.            *)
EXTENDS Requests, FiniteSetsExt, TLC

CONSTANTS
  Integrations, Projects, Types,
  Fields,            \* the names of an integration's credentials
  MaxPatchRetries,   \* _MAX_PATCH_RETRIES
  LoginTtl,          \* _CACHE_TTL_SECONDS, in ticks
  MaxClock           \* bound: ticks of the clock

ASSUME IntegrationsAssumption ==
  MaxPatchRetries \in Nat \ {0} /\ LoginTtl \in Nat \ {0} /\ MaxClock \in Nat

VARIABLES
  igr,      \* integrations, their edges to types and projects, the registration
  login,    \* the process's cache of login providers, and its clock
  igrLog    \* history the properties read and no handler does

Kinds == {"lifecycle", "identity"}
NoIntegration == [there |-> FALSE, caps |-> {}, login |-> FALSE, creds |-> {}]
Installed(caps) == [there |-> TRUE, caps |-> caps, login |-> FALSE, creds |-> {}]
Here(i) == igr.node[i].there

\* Requests that resolve the bindings of a project right now.
Resolving == {q \in Slots : req[q].at \in {"life.integrations", "life.assigned", "life.enabled"}}

\* What decides whether i is bound has changed under them.
Tear(log, S) == [log EXCEPT !.torn = @ \cup (Resolving \X S)]

\* The integrations offered for logging in, and since when i is none of them
\* if what happens to it now takes it away.
LoginApp(i) == igr.node[i].login /\ "identity" \in igr.node[i].caps
Ceases(i) == IF LoginApp(i) THEN login.now ELSE igrLog.badSince[i]

LookI(q, next) == Begin(q, next) /\ UNCHANGED <<igr, login, igrLog>>
WaitI(q, label, next) == Step(q, label, next) /\ UNCHANGED <<igr, login, igrLog>>

-----------------------------------------------------------------------------
\* integrations.py

CreateIntegration(q) == \E i \in Integrations, caps \in SUBSET Kinds : /\ ~Here(i)
  /\ Begin(q, Idle)
  /\ igr' = [igr EXCEPT !.node[i] = Installed(caps)]
  /\ igrLog' = [Tear(igrLog, {i}) EXCEPT !.caps[i] = caps, !.creds[i] = {}, !.stale = @ \ {i}]
  /\ UNCHANGED login

\* The capabilities of the body are merged over the ones read.
UpdateIntegration(q) == \E i \in Integrations : /\ Here(i)
  /\ LookI(q, [at |-> "int.save", i |-> i, read |-> igr.node[i].caps])

Toggled(caps, k, on) == IF on THEN caps \cup {k} ELSE caps \ {k}

UpdateIntegrationSave(q) == At(q, "int.save") /\ LET l == req[q] IN
  IF ~Here(l.i) THEN WaitI(q, "int.save", Idle)
  ELSE \E k \in Kinds, on \in BOOLEAN :
       /\ Step(q, "int.save", Idle)
       /\ igr' = [igr EXCEPT !.node[l.i].caps = Toggled(l.read, k, on)]
       /\ igrLog' = [Tear(igrLog, {l.i}) EXCEPT
            !.caps[l.i] = Toggled(@, k, on),
            !.stale = IF igr.node[l.i].caps = l.read THEN @ ELSE @ \cup {l.i},
            !.badSince[l.i] = Ceases(l.i)]
       /\ UNCHANGED login

\* DETACH DELETE.
DeleteIntegration(q) == \E i \in Integrations : /\ Here(i)
  /\ Begin(q, Idle)
  /\ igr' = [igr EXCEPT !.node[i] = NoIntegration,
                        !.typed = {e \in @ : e[2] # i},
                        !.owned = {e \in @ : e[2] # i},
                        !.exists = {e \in @ : e[2] # i}]
  /\ igrLog' = [Tear(igrLog, {i}) EXCEPT
       !.caps[i] = {}, !.creds[i] = {}, !.stale = @ \ {i},
       !.badSince[i] = Ceases(i)]
  /\ UNCHANGED login

\* One login provider per organisation: clear the others, then set this one.
SetLoginProvider(q) == \E i \in Integrations, on \in BOOLEAN : /\ Here(i)
  /\ LookI(q, [at |-> IF on THEN "login.clear" ELSE "login.set", i |-> i, on |-> on])

ClearLogin(q) ==
  /\ Step(q, "login.clear", To(q, "login.set"))
  /\ igr' = [igr EXCEPT !.node = [i \in Integrations |->
               [igr.node[i] EXCEPT !.login = IF i = req[q].i THEN @ ELSE FALSE]]]
  /\ igrLog' = [igrLog EXCEPT !.badSince = [i \in Integrations |->
                  IF i = req[q].i THEN igrLog.badSince[i] ELSE Ceases(i)]]
  /\ UNCHANGED login

\* The cache is dropped before a 404 for an integration that is gone.
WriteLogin(q) == LET l == req[q] IN
  /\ Step(q, "login.set", Idle)
  /\ igr' = [igr EXCEPT !.node[l.i].login = Here(l.i) /\ l.on]
  /\ login' = [login EXCEPT !.cache = {}]
  /\ igrLog' = [igrLog EXCEPT
       !.raced = @ \/ \E o \in Slots \ {q} : req[o].at \in {"login.clear", "login.set"},
       !.badSince[l.i] = Ceases(l.i)]

\* The types an integration is assigned to are replaced in one statement; a
\* type that is gone by then is left out.
ReplaceTypeAssignments(q) == \E i \in Integrations, T \in SUBSET Types : /\ Here(i)
  /\ LookI(q, [at |-> IF T = {} THEN "typed.save" ELSE "typed.check", i |-> i, types |-> T])

CheckTypes(q) ==
  WaitI(q, "typed.check", IF req[q].types \subseteq igr.type THEN To(q, "typed.save") ELSE Idle)

WriteTypeAssignments(q) == LET l == req[q] IN
  /\ Step(q, "typed.save", Idle)
  /\ igr' = IF ~Here(l.i) THEN igr
            ELSE [igr EXCEPT !.typed = {e \in @ : e[2] # l.i}
                                       \cup ((l.types \cap igr.type) \X {l.i})]
  /\ igrLog' = Tear(igrLog, {l.i})
  /\ UNCHANGED login

\* set_plugin_enabled: one MERGE.
UpdatePluginRegistration(q) == \E on \in BOOLEAN :
  /\ Begin(q, Idle)
  /\ igr' = [igr EXCEPT !.on = on]
  /\ igrLog' = Tear(igrLog, Integrations)
  /\ UNCHANGED login

-----------------------------------------------------------------------------
\* plugins/credentials.py: read, change a field, write if what was read is
\* still there, and again when it is not.

PutCredentials(q) == \E i \in Integrations, f \in Fields, on \in BOOLEAN :
  Here(i) /\ LookI(q, [at |-> "cred.save", i |-> i, f |-> f, on |-> on,
                       read |-> igr.node[i].creds, tries |-> 1])

ReadCredentials(q) == LET l == req[q] IN
  WaitI(q, "cred.read",
        IF Here(l.i) THEN [l EXCEPT !.at = "cred.save", !.read = igr.node[l.i].creds] ELSE Idle)

\* The compare-and-set, or a 409 when the retries are used up.
SaveCredentials(q) == At(q, "cred.save") /\ LET l == req[q] IN
  IF Here(l.i) /\ igr.node[l.i].creds = l.read
  THEN /\ Step(q, "cred.save", Idle)
       /\ igr' = [igr EXCEPT !.node[l.i].creds = Toggled(l.read, l.f, l.on)]
       /\ igrLog' = [igrLog EXCEPT !.creds[l.i] = Toggled(@, l.f, l.on)]
       /\ UNCHANGED login
  ELSE WaitI(q, "cred.save", IF l.tries = MaxPatchRetries THEN Idle
                             ELSE [l EXCEPT !.at = "cred.read", !.tries = @ + 1])

-----------------------------------------------------------------------------
\* auth/login_providers.py: get_login_app with its cache.

Fresh(i) == \E e \in login.cache : e.i = i /\ login.now - e.at < LoginTtl

\* Served although it has been no login provider for a lifetime of the cache.
Served(i) == igrLog' = [igrLog EXCEPT !.overdue =
  IF LoginApp(i) \/ login.now - igrLog.badSince[i] < LoginTtl THEN @ ELSE @ \cup {i}]

GetLoginApp(q) == \E i \in Integrations :
  IF Fresh(i) THEN Begin(q, Idle) /\ Served(i) /\ UNCHANGED <<igr, login>>
  ELSE LookI(q, [at |-> "app.fetch", i |-> i, now |-> login.now])

FetchLoginApp(q) ==
  WaitI(q, "app.fetch", IF LoginApp(req[q].i) THEN To(q, "app.store") ELSE Idle)

\* The answer of the statement is processed some time after it was computed:
\* an invalidation may have come in between.
StoreLoginAppNow(q) == LET l == req[q] IN
  /\ Step(q, "app.store", Idle)
  /\ login' = [login EXCEPT !.cache = {e \in @ : e.i # l.i} \cup {[i |-> l.i, at |-> login.now]}]
  /\ UNCHANGED <<igr, igrLog>>
StoreLoginApp(q) == LET l == req[q] IN
  /\ Step(q, "app.store", Idle)
  /\ login' = [login EXCEPT !.cache = {e \in @ : e.i # l.i} \cup {[i |-> l.i, at |-> l.now]}]
  /\ UNCHANGED <<igr, igrLog>>

LoginTick == /\ login.now < MaxClock
             /\ login' = [login EXCEPT !.now = @ + 1]
             /\ UNCHANGED <<pool, igr, igrLog>>

-----------------------------------------------------------------------------

\* At most one integration is the login provider.
IgrInit == LET first == CHOOSE i \in Integrations : TRUE IN
  \E f \in SUBSET Types, provider \in {{}} \cup {{i} : i \in Integrations \ {first}} :
  /\ "login" \notin mix => provider = {}
  /\ igr = [node |-> [i \in Integrations |->
               IF i = first THEN Installed({"lifecycle"})
               ELSE [Installed({"identity"}) EXCEPT !.login = i \in provider]],
            type |-> Types,
            typed |-> f \X {first}, owned |-> {}, exists |-> {}, on |-> TRUE]
  /\ login = [cache |-> {}, now |-> 0]
  /\ igrLog = [caps |-> [i \in Integrations |-> igr.node[i].caps],
               creds |-> [i \in Integrations |-> {}],
               stale |-> {}, raced |-> FALSE, torn |-> {}, missed |-> {},
               badSince |-> [i \in Integrations |-> 0], overdue |-> {}]

IntegrationCalls(q) ==
  \/ CreateIntegration(q) \/ UpdateIntegration(q) \/ DeleteIntegration(q)
  \/ ReplaceTypeAssignments(q) \/ UpdatePluginRegistration(q)

IntegrationsStep(q) ==
  \/ UpdateIntegrationSave(q) \/ ClearLogin(q) \/ WriteLogin(q)
  \/ CheckTypes(q) \/ WriteTypeAssignments(q)
  \/ ReadCredentials(q) \/ SaveCredentials(q)
  \/ FetchLoginApp(q) \/ StoreLoginApp(q)

IntegrationsNext == \E q \in Slots :
  \/ "integrations" \in mix /\ IntegrationCalls(q)
  \/ "capabilities" \in mix /\ UpdateIntegration(q)
  \/ "login" \in mix /\ (SetLoginProvider(q) \/ GetLoginApp(q))
  \/ "credentials" \in mix /\ PutCredentials(q)
  \/ IntegrationsStep(q)

-----------------------------------------------------------------------------
\* Properties

IgrTypeOK ==
  /\ igr.node \in [Integrations -> [there : BOOLEAN, caps : SUBSET Kinds,
                                    login : BOOLEAN, creds : SUBSET Fields]]
  /\ igr.typed \subseteq igr.type \X {i \in Integrations : Here(i)}
  /\ \A e \in igr.owned : Here(e[2])
  /\ igr.exists \subseteq Projects \X {i \in Integrations : Here(i)}
  /\ login.now \in 0..MaxClock

\* An integration's capabilities and credentials are what its operators last
\* put, capability by capability and field by field: for the credentials always,
\* as the write compares (credentials.py:142), for the capabilities unless one
\* patch was written over another it had not read (integrations.py:353).
IntegrationsAsPut == \A i \in Integrations :
  /\ igr.node[i].creds = igrLog.creds[i]
  /\ i \notin igrLog.stale => igr.node[i].caps = igrLog.caps[i]

\* At most one integration of the organisation is its login provider, unless two
\* calls to make one were between their two statements (integrations.py:569-595).
OneLoginProvider ==
  ~igrLog.raced => Cardinality({i \in Integrations : igr.node[i].login}) <= 1

\* An integration that is no login provider any more is served as one for less
\* than the cache's lifetime, also when the answer of a read was stored after
\* the invalidation, and after changes that invalidate nothing.
LoginServedInTime == igrLog.overdue = {}

\* The login provider is one, and one that is dropped is served no longer than
\* the cache of login_providers.py keeps its answers.
LoginAsSet == OneLoginProvider /\ LoginServedInTime
=============================================================================
