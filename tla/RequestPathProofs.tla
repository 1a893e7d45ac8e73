-------------------------- MODULE RequestPathProofs --------------------------
(***************************************************************************)
(* Proofs about RequestPath, for any number of runs, servers, commands,    *)
(* keys and restarts.  The inductive invariant has a part for each of the  *)
(* components side by side; each part is shown to survive the steps of its *)
(* own component, and the part that joins them uses the others.            *)
(***************************************************************************)
EXTENDS RequestPath, TLAPS

-----------------------------------------------------------------------------
(* The table *)

TableInv == TableTypeOK /\ ExpiryOn

TableChange ==
    \/ TableActive
    \/ \E s \in Servers :
          CreateTable(s) \/ Wait(s) \/ UpdateTimeToLive(s) \/ SetupFails(s) \/ StartAgain(s)
    \/ UNCHANGED tableVars

LEMMA TableInitInv == TableInit => TableInv
  BY DEF TableInit, TableInv, TableTypeOK, ExpiryOn, SettingUp, Start

\* A step after which a server takes itself for the maker of the table only if it did so
\* before, and no longer does so only if the time to live is set or the table orphaned.
LEMMA StoreStepInv ==
    ASSUME TableInv, NEW s \in Servers,
           NEW p \in {"create", "wait", "ttl", "open", "exited"}, StoreGo(s, p),
           p \in {"wait", "ttl"} => SettingUp(s),
           SettingUp(s) => p \in {"wait", "ttl"} \/ ttl' \/ orphaned',
           table' = table, ttl' \in BOOLEAN, orphaned' \in BOOLEAN,
           ttl => ttl', orphaned => orphaned'
    PROVE  TableInv'
<1>1. /\ store' \in [Servers -> {"create", "wait", "ttl", "open", "exited"}]
      /\ store'[s] = p
      /\ \A t \in Servers \ {s} : store'[t] = store[t]
  BY DEF TableInv, TableTypeOK, StoreGo
<1>2. \A t \in Servers : SettingUp(t)' => SettingUp(t)
  BY <1>1 DEF SettingUp
<1>3. \A t \in Servers : SettingUp(t) => SettingUp(t)' \/ ttl' \/ orphaned'
  BY <1>1 DEF SettingUp
<1>4. TableTypeOK'
  BY <1>1 DEF TableInv, TableTypeOK
<1>5. ExpiryOn'
  BY <1>2, <1>3 DEF TableInv, TableTypeOK, ExpiryOn
<1>6. QED
  BY <1>4, <1>5 DEF TableInv

LEMMA CreateTableInv ==
    ASSUME TableInv, NEW s \in Servers, CreateTable(s)
    PROVE  TableInv'
<1>1. /\ store[s] = "create" /\ ttl' = ttl /\ ~SettingUp(s)
      /\ ttl \in BOOLEAN /\ orphaned \in BOOLEAN
  BY DEF CreateTable, SettingUp, TableInv, TableTypeOK
<1>2. CASE table = "absent" /\ table' = "creating"
  <2>1. \A t \in Servers : ~SettingUp(t)
    BY <1>2 DEF TableInv, ExpiryOn
  <2>2. CASE StoreGo(s, "wait") /\ UNCHANGED orphaned
    <3>1. /\ store' \in [Servers -> {"create", "wait", "ttl", "open", "exited"}]
          /\ store'[s] = "wait"
          /\ \A t \in Servers \ {s} : store'[t] = store[t]
      BY <2>2 DEF TableInv, TableTypeOK, StoreGo
    <3>2. SettingUp(s)' /\ \A t \in Servers \ {s} : ~SettingUp(t)'
      BY <2>1, <3>1 DEF SettingUp
    <3>3. ExpiryOn'
      BY <1>2, <3>2 DEF ExpiryOn
    <3>4. QED
      BY <1>1, <1>2, <2>2, <3>1, <3>3 DEF TableInv, TableTypeOK
  <2>3. CASE orphaned' = TRUE /\ UNCHANGED store
    <3>1. \A t \in Servers : ~SettingUp(t)'
      BY <2>1, <2>3 DEF SettingUp
    <3>2. ExpiryOn'
      BY <2>3, <3>1 DEF ExpiryOn
    <3>3. QED
      BY <1>1, <1>2, <2>3, <3>2 DEF TableInv, TableTypeOK
  <2>4. QED
    BY <1>2, <2>2, <2>3 DEF CreateTable
<1>3. CASE table # "absent" /\ StoreGo(s, "open") /\ UNCHANGED <<table, orphaned>>
  BY <1>1, <1>3, StoreStepInv
<1>4. QED
  BY <1>2, <1>3 DEF CreateTable

LEMMA TableNextInv ==
    ASSUME TableInv, TableChange
    PROVE  TableInv'
<1>1. ttl \in BOOLEAN /\ orphaned \in BOOLEAN
  BY DEF TableInv, TableTypeOK
<1>2. CASE TableActive
  <2>1. /\ table = "creating" /\ table' = "active"
        /\ UNCHANGED <<ttl, store, orphaned>>
    BY <1>2 DEF TableActive
  <2>2. QED
    BY <2>1 DEF TableInv, TableTypeOK, ExpiryOn, SettingUp
<1>3. ASSUME NEW s \in Servers, Wait(s)
      PROVE  TableInv'
  BY <1>1, <1>3, StoreStepInv DEF Wait, SettingUp
<1>4. ASSUME NEW s \in Servers, UpdateTimeToLive(s)
      PROVE  TableInv'
  BY <1>1, <1>4, StoreStepInv DEF UpdateTimeToLive, SettingUp
<1>5. ASSUME NEW s \in Servers, SetupFails(s)
      PROVE  TableInv'
  BY <1>1, <1>5, StoreStepInv DEF SetupFails, SettingUp
<1>6. ASSUME NEW s \in Servers, StartAgain(s)
      PROVE  TableInv'
  <2>1. Start(s) \in {"create", "open"}
    BY DEF Start
  <2>2. QED
    BY <1>1, <1>6, <2>1, StoreStepInv DEF StartAgain, SettingUp
<1>7. CASE UNCHANGED tableVars
  BY <1>7 DEF tableVars, TableInv, TableTypeOK, ExpiryOn, SettingUp
<1>8. QED
  BY <1>2, <1>3, <1>4, <1>5, <1>6, <1>7, CreateTableInv DEF TableChange

-----------------------------------------------------------------------------
(* Tenants *)

\* Every tenant is some command's.
TenantsMade ==
    \A id \in TenantIDs : tenants[id] # NoTenant =>
        \E a \in Admins : Command[a].id = id /\ tenants[id] = NewTenant(a)

CreatedValid == \A a \in Admins : admin[a] = "created" => NewTenant(a) # NoTenant

TenancyInv == TenancyTypeOK /\ AnswersTrue /\ TenantsMade /\ CreatedValid

TenantChange ==
    \/ \E id \in TenantIDs : Index(id)
    \/ \E a \in Admins : CreateTenant(a) \/ CreateTenantFails(a)
    \/ UNCHANGED tenantVars

LEMMA NewTenantType ==
    ASSUME NEW a \in Admins
    PROVE  /\ Command[a].id \in TenantIDs
           /\ NewTenant(a).owner = Command[a].slug
           /\ Valid(NewTenant(a)) => NewTenant(a) \in TenantRecord /\ NewTenant(a) # NoTenant
<1>1. Command[a].id \in TenantIDs /\ Command[a].slug \in Owners
  BY CommandAssumption
<1>2. NewTenant(a).owner = Command[a].slug
  BY DEF NewTenant
<1>3. Valid(NewTenant(a)) => NewTenant(a) \in TenantRecord
  BY <1>1 DEF NewTenant, Valid, TenantRecord
<1>4. QED
  BY <1>1, <1>2, <1>3, NoTenantAssumption

LEMMA TenancyInitInv == TenancyInit => TenancyInv
<1> SUFFICES ASSUME TenancyInit PROVE TenancyInv
  OBVIOUS
<1>1. PICK early \in SUBSET Admins :
        /\ \A a, b \in early : a # b => Command[a].id # Command[b].id
        /\ \A a \in early : Reaches(Command[a].endpoint) /\ Valid(NewTenant(a))
        /\ admin = [a \in Admins |-> IF a \in early THEN "created" ELSE "start"]
        /\ indexed = {Command[a].id : a \in early}
        /\ tenants \in [TenantIDs -> {NewTenant(a) : a \in early} \cup {NoTenant}]
        /\ \A id \in TenantIDs \ indexed : tenants[id] = NoTenant
        /\ \A a \in early : tenants[Command[a].id] = NewTenant(a)
  BY DEF TenancyInit
<1>2. \A a \in early : /\ Command[a].id \in TenantIDs
                       /\ NewTenant(a) \in TenantRecord /\ NewTenant(a) # NoTenant
  BY <1>1, NewTenantType
<1>3. TenancyTypeOK
  BY <1>1, <1>2 DEF TenancyTypeOK
<1>4. \A a \in Admins : admin[a] # "alreadyExists" /\ (admin[a] = "created" => a \in early)
  BY <1>1
<1>5. AnswersTrue
  BY <1>1, <1>4 DEF AnswersTrue
<1>6. TenantsMade /\ CreatedValid
  BY <1>1, <1>2, <1>4 DEF TenantsMade, CreatedValid
<1>7. QED
  BY <1>3, <1>5, <1>6 DEF TenancyInv

TenantsStay ==
    /\ indexed \subseteq indexed'
    /\ \A id \in TenantIDs : tenants[id] # NoTenant => tenants'[id] = tenants[id]

LEMMA CreateTenantInv ==
    ASSUME TenancyInv, NEW a \in Admins, CreateTenant(a)
    PROVE  TenancyInv' /\ TenantsStay
<1> DEFINE new == Command[a].id
<1>1. /\ admin[a] = "start" /\ indexed' = indexed
      /\ NewTenant(a) \in TenantRecord /\ NewTenant(a) # NoTenant
      /\ new \in TenantIDs
  BY NewTenantType DEF CreateTenant
<1>2. CASE /\ tenants[new] = NoTenant
           /\ tenants' = [tenants EXCEPT ![new] = NewTenant(a)]
           /\ \E answer \in {"created", "start"} : AdminGo(a, answer)
  <2>1. /\ tenants'[new] = NewTenant(a)
        /\ \A id \in TenantIDs \ {new} : tenants'[id] = tenants[id]
        /\ admin'[a] \in {"created", "start"}
        /\ \A b \in Admins \ {a} : admin'[b] = admin[b]
    BY <1>1, <1>2 DEF TenancyInv, TenancyTypeOK, AdminGo
  <2>2. TenancyTypeOK' /\ TenantsStay
    BY <1>1, <1>2, <2>1 DEF TenancyInv, TenancyTypeOK, AdminGo, TenantsStay
  <2>3. \A b \in Admins \ {a} : admin[b] = "created" => Command[b].id # new
    BY <1>2 DEF TenancyInv, AnswersTrue, CreatedValid
  <2>4. \A b \in Admins : Command[b].id \in TenantIDs /\ NewTenant(b)' = NewTenant(b)
    BY NewTenantType DEF NewTenant
  <2>5. AnswersTrue'
    BY <1>1, <1>2, <2>1, <2>3, <2>4 DEF TenancyInv, AnswersTrue
  <2>6. TenantsMade' /\ CreatedValid'
    BY <1>1, <2>1, <2>4 DEF TenancyInv, TenantsMade, CreatedValid
  <2>7. QED
    BY <2>2, <2>5, <2>6 DEF TenancyInv
<1>3. CASE tenants[new] # NoTenant /\ AdminGo(a, "alreadyExists") /\ UNCHANGED tenants
  <2>1. \A b \in Admins : b # a => admin'[b] = admin[b]
    BY <1>3 DEF TenancyInv, TenancyTypeOK, AdminGo
  <2>2. admin'[a] = "alreadyExists" /\ TenancyTypeOK'
    BY <1>1, <1>3 DEF TenancyInv, TenancyTypeOK, AdminGo
  <2>3. QED
    BY <1>1, <1>3, <2>1, <2>2
    DEF TenancyInv, AnswersTrue, TenantsMade, CreatedValid, TenantsStay, NewTenant
<1>4. QED
  BY <1>2, <1>3 DEF CreateTenant, PutTenant

LEMMA TenancyNextInv ==
    ASSUME TenancyInv, TenantChange
    PROVE  TenancyInv' /\ TenantsStay
<1> USE DEF TenancyInv, TenantsStay
<1>1. ASSUME NEW i \in TenantIDs, Index(i)
      PROVE  TenancyInv' /\ TenantsStay
  BY <1>1 DEF Index, TenancyTypeOK, AnswersTrue, TenantsMade, CreatedValid, NewTenant
<1>2. ASSUME NEW a \in Admins, CreateTenantFails(a)
      PROVE  TenancyInv' /\ TenantsStay
  <2>1. /\ \A b \in Admins \ {a} : admin'[b] = admin[b]
        /\ admin'[a] = "failed"
        /\ UNCHANGED <<tenants, indexed>>
    BY <1>2 DEF CreateTenantFails, AdminGo, TenancyTypeOK
  <2>2. TenancyTypeOK'
    BY <1>2 DEF CreateTenantFails, AdminGo, TenancyTypeOK
  <2>3. QED
    BY <2>1, <2>2 DEF AnswersTrue, TenantsMade, CreatedValid, NewTenant
<1>3. CASE UNCHANGED tenantVars
  BY <1>3 DEF tenantVars, TenancyTypeOK, AnswersTrue, TenantsMade, CreatedValid, NewTenant
<1>4. QED
  BY <1>1, <1>2, <1>3, CreateTenantInv DEF TenantChange

-----------------------------------------------------------------------------
(* Keys and tokens *)

\* An issuer's keys are numbered as they are made: a token's key is no later than the
\* newest, so that a key that was withdrawn is never published again.
KeyBound ==
    \A r \in Runs : token[r].issuer \in Issuers =>
        \E k \in published[token[r].issuer] : token[r].key <= k

IssuerKnown ==
    \A r \in Runs : place[r] \in {"register", "ready", "verify"} => token[r].issuer \in Issuers

AuthInv == AuthTypeOK /\ KeyBound /\ IssuerKnown

LEMMA AuthInitInv == AuthInit => AuthInv
<1> SUFFICES ASSUME AuthInit PROVE AuthInv
  OBVIOUS
<1>1. NoToken \in Tokens /\ NoToken.issuer \notin Issuers
  BY DEF NoToken, Tokens, Issuers
<1>2. AuthTypeOK
  BY <1>1 DEF AuthInit, AuthTypeOK, InMiddleware, Ended
<1>3. QED
  BY <1>1, <1>2 DEF AuthInit, AuthInv, KeyBound, IssuerKnown

LEMMA ObtainFacts ==
    ASSUME AuthTypeOK, NEW r \in Runs, NEW issuer \in Issuers \cup {Stranger}, NEW key \in Nat,
           Obtain(r, issuer, key)
    PROVE  /\ token' \in [Runs -> Tokens]
           /\ token'[r].issuer = issuer /\ token'[r].key = key
           /\ \A q \in Runs \ {r} : token'[q] = token[q]
  BY DEF AuthTypeOK, Obtain, Tokens

LEMMA CallStepAuth ==
    ASSUME AuthInv, NEW r \in Runs, CallStep(r)
    PROVE  AuthInv'
<1> USE DEF AuthInv, AuthTypeOK, Go, InMiddleware, Ended
<1>1. ASSUME NEW issuer \in Issuers \cup {Stranger}, NEW key \in Nat,
             Obtain(r, issuer, key), Go(r, "send"), UNCHANGED <<keyVars, server>>,
             issuer \in Issuers => key \in published[issuer]
      PROVE  AuthInv'
  <2>1. AuthTypeOK'
    BY <1>1, ObtainFacts DEF keyVars
  <2>2. /\ token'[r].issuer = issuer /\ token'[r].key = key /\ place'[r] = "send"
        /\ \A q \in Runs \ {r} : token'[q] = token[q] /\ place'[q] = place[q]
        /\ published' = published
    BY <1>1, ObtainFacts DEF keyVars
  <2>3. KeyBound'
    <3> SUFFICES ASSUME NEW q \in Runs, token'[q].issuer \in Issuers
                 PROVE  \E k \in published[token'[q].issuer] : token'[q].key <= k
      BY <2>2 DEF KeyBound
    <3>1. CASE q = r
      BY <1>1, <2>2, <3>1
    <3>2. CASE q # r
      BY <2>2, <3>2 DEF KeyBound
    <3>3. QED
      BY <3>1, <3>2
  <2>4. IssuerKnown'
    BY <2>2 DEF IssuerKnown
  <2>5. QED
    BY <2>1, <2>3, <2>4
<1>2. CASE RequestToken(r)
  <2>1. IssuerOf(Source[r]) \in Issuers
    BY <1>2 DEF RequestToken, IssuingSources, IssuerOf, Issuers
  <2>2. PICK key \in Newest(IssuerOf(Source[r])) : Obtain(r, IssuerOf(Source[r]), key)
    BY <1>2 DEF RequestToken
  <2>3. key \in published[IssuerOf(Source[r])] /\ published[IssuerOf(Source[r])] \subseteq Nat
    BY <2>1 DEF Newest
  <2>4. QED
    BY <1>1, <1>2, <2>1, <2>2, <2>3 DEF RequestToken
<1>3. CASE BringToken(r)
  <2>1. PICK issuer \in Issuers \cup {Stranger} :
           \E key \in IF issuer \in Issuers THEN published[issuer] ELSE {1} :
              Obtain(r, issuer, key)
    BY <1>3 DEF BringToken
  <2>2. PICK key \in IF issuer \in Issuers THEN published[issuer] ELSE {1} :
              Obtain(r, issuer, key)
    BY <2>1
  <2>3. key \in Nat /\ (issuer \in Issuers => key \in published[issuer])
    OBVIOUS
  <2>4. QED
    BY <1>1, <1>3, <2>2, <2>3 DEF BringToken
<1>4. CASE RequestTokenFails(r)
  BY <1>4 DEF RequestTokenFails, keyVars, KeyBound, IssuerKnown
<1>5. CASE LocalToken(r)
  BY <1>5 DEF LocalToken, keyVars, KeyBound, IssuerKnown
<1>6. CASE Authenticate(r)
  BY <1>6 DEF Authenticate, keyVars, KeyBound, IssuerKnown
<1>7. CASE Register(r)
  <2>1. token[r].issuer \in Issuers /\ server[r] \in Servers
    BY <1>7 DEF Register, IssuerKnown
  <2>2. /\ registered' \in [Servers -> SUBSET Issuers]
        /\ \A s \in Servers : registered[s] \subseteq registered'[s]
    <3>1. CASE registered' = registered
      BY <3>1
    <3>2. CASE registered' = [registered EXCEPT ![server[r]] = @ \cup {token[r].issuer}]
      BY <2>1, <3>2
    <3>3. QED
      BY <1>7, <3>1, <3>2 DEF Register
  <2>3. place' \in [Runs -> {"token", "send", "authorized"} \cup InMiddleware \cup Ended]
        /\ \A q \in Runs \ {r} : place'[q] = place[q]
    BY <1>7 DEF Register
  <2>4. UNCHANGED <<published, keySet, token, server>>
    BY <1>7 DEF Register
  <2>5. AuthTypeOK'
    BY <2>2, <2>3, <2>4
  <2>6. KeyBound' /\ IssuerKnown'
    BY <2>1, <2>3, <2>4 DEF KeyBound, IssuerKnown
  <2>7. QED
    BY <2>5, <2>6
<1>8. CASE Ready(r)
  BY <1>8 DEF Ready, keyVars, KeyBound, IssuerKnown
<1>9. CASE Verify(r)
  BY <1>9 DEF Verify, keyVars, KeyBound, IssuerKnown
<1>10. QED
  BY <1>2, <1>3, <1>4, <1>5, <1>6, <1>7, <1>8, <1>9 DEF CallStep

\* What may happen to keys and tokens outside of a call's own steps, and to the places
\* of calls.
LEMMA FetchAuth ==
    ASSUME AuthInv, NEW s \in Servers, NEW issuer \in Issuers, Fetch(s, issuer)
    PROVE  AuthInv'
  BY DEF AuthInv, AuthTypeOK, KeyBound, IssuerKnown, Fetch, callVars

LEMMA RotateAuth ==
    ASSUME AuthInv, NEW issuer \in Issuers, Rotate(issuer)
    PROVE  /\ AuthInv'
           /\ \A r \in Runs : token[r].issuer \in Issuers =>
                 (token[r].key \in published'[token[r].issuer] =>
                    token[r].key \in published[token[r].issuer])
<1>1. PICK key \in Newest(issuer), kept \in {{}, published[issuer]} :
         published' = [published EXCEPT ![issuer] = kept \cup {key + 1}]
  BY DEF Rotate
<1>2. /\ key \in Nat /\ \A k \in published[issuer] : k <= key
      /\ published[issuer] \subseteq Nat
  BY DEF AuthInv, AuthTypeOK, Newest
<1>3. /\ published'[issuer] = kept \cup {key + 1}
      /\ \A i \in Issuers \ {issuer} : published'[i] = published[i]
      /\ published' \in [Issuers -> SUBSET Nat]
  BY <1>1, <1>2 DEF AuthInv, AuthTypeOK
<1>4. UNCHANGED <<registered, keySet, callVars>>
  BY DEF Rotate
<1>5. \A r \in Runs : token[r].issuer = issuer => token[r].key \in Nat /\ token[r].key <= key
  BY <1>2 DEF AuthInv, AuthTypeOK, KeyBound, Tokens
<1>6. AuthTypeOK' /\ IssuerKnown'
  BY <1>3, <1>4 DEF AuthInv, AuthTypeOK, IssuerKnown, callVars
<1>7. KeyBound'
  <2> SUFFICES ASSUME NEW r \in Runs, token[r].issuer \in Issuers
               PROVE  \E k \in published'[token[r].issuer] : token[r].key <= k
    BY <1>4 DEF KeyBound, callVars
  <2>1. CASE token[r].issuer = issuer
    BY <1>2, <1>3, <1>5, <2>1
  <2>2. CASE token[r].issuer # issuer
    BY <1>3, <2>2 DEF AuthInv, KeyBound
  <2>3. QED
    BY <2>1, <2>2
<1>8. ASSUME NEW r \in Runs, token[r].issuer \in Issuers,
             token[r].key \in published'[token[r].issuer]
      PROVE  token[r].key \in published[token[r].issuer]
  BY <1>1, <1>2, <1>3, <1>5, <1>8
<1>9. QED
  BY <1>6, <1>7, <1>8 DEF AuthInv

LEMMA ExpireAuth ==
    ASSUME AuthInv, NEW r \in Runs, Expire(r)
    PROVE  /\ AuthInv'
           /\ \A q \in Runs : /\ token'[q].issuer = token[q].issuer
                              /\ token'[q].key = token[q].key
                              /\ token[q].expired => token'[q].expired
<1>1. \A q \in Runs : /\ token'[q].issuer = token[q].issuer
                      /\ token'[q].key = token[q].key
                      /\ token[q].expired => token'[q].expired
  BY DEF AuthInv, AuthTypeOK, Expire, Tokens
<1>2. AuthTypeOK'
  BY DEF AuthInv, AuthTypeOK, Expire, Tokens, keyVars
<1>3. QED
  BY <1>1, <1>2 DEF AuthInv, KeyBound, IssuerKnown, Expire, keyVars

-----------------------------------------------------------------------------
(* Runs and their calls *)

Admitted(r) ==
    \E a \in Admins :
        /\ tenants[Command[a].id] = NewTenant(a) /\ NewTenant(a) # NoTenant
        /\ NewTenant(a).provider = Job[r].provider
        /\ <<Job[r].owner, Command[a].slug>> \in Begins

\* What a warm call keeps: its URL is registered until it is verified, and its key is
\* in the server's set as long as the issuer publishes it.
WarmOf(r) ==
    /\ token[r].issuer \in Issuers
    /\ ParsesClaims(OIDCProvider(token[r].issuer))
    /\ ExistsTenantByKey(Job[r].provider, Job[r].owner)
    /\ place[r] \notin {"token", "register", "ready", "denied"}
    /\ place[r] \in {"authenticate", "verify"} =>
          /\ token[r].issuer \in registered[server[r]]
          /\ \/ token[r].expired
             \/ token[r].key \notin published[token[r].issuer]
             \/ token[r].key \in keySet[server[r]][token[r].issuer]
    /\ place[r] = "unauthorized" =>
          token[r].expired \/ token[r].key \notin published[token[r].issuer]

RunInv(r) ==
    /\ made[r] <= Len(Job[r].calls)
    /\ place[r] = "done" => made[r] = Len(Job[r].calls)
    /\ place[r] \notin Ended => made[r] < Len(Job[r].calls)
    /\ made[r] > 0 => Admitted(r)
    /\ warm[r] => WarmOf(r)

PathTypeOK ==
    /\ made \in [Runs -> Nat]
    /\ restarts \in [Servers -> Nat]
    /\ \A s \in Servers : restarts[s] <= MaxRestarts[s]
    /\ warm \in [Runs -> BOOLEAN]

IInv ==
    /\ TableInv
    /\ TenancyInv
    /\ AuthInv
    /\ PathTypeOK
    /\ \A r \in Runs : RunInv(r)

LEMMA CallsType ==
    ASSUME NEW r \in Runs
    PROVE  /\ Len(Job[r].calls) \in Nat /\ Len(Job[r].calls) > 0
           /\ ChecksOwner(Job[r].calls[1])
<1>1. Job[r].calls = SaveCalls \/ Job[r].calls = RestoreCalls
  BY JobAssumption
<1>2. QED
  BY <1>1 DEF SaveCalls, RestoreCalls, ChecksOwner

LEMMA FoundStays ==
    ASSUME TenancyInv, TenantsStay, NEW provider, NEW owner,
           ExistsTenantByKey(provider, owner)
    PROVE  ExistsTenantByKey(provider, owner)'
  BY DEF TenancyInv, TenancyTypeOK, TenantsStay, ExistsTenantByKey

LEMMA AdmittedStays ==
    ASSUME TenancyInv, TenantsStay, NEW r \in Runs, Admitted(r)
    PROVE  Admitted(r)'
<1>1. PICK a \in Admins :
         /\ tenants[Command[a].id] = NewTenant(a) /\ NewTenant(a) # NoTenant
         /\ NewTenant(a).provider = Job[r].provider
         /\ <<Job[r].owner, Command[a].slug>> \in Begins
  BY DEF Admitted
<1>2. tenants'[Command[a].id] = NewTenant(a) /\ NewTenant(a)' = NewTenant(a)
  BY <1>1, NewTenantType DEF TenantsStay, NewTenant
<1>3. QED
  BY <1>1, <1>2 DEF Admitted

LEMMA FoundIsAdmitted ==
    ASSUME TenancyInv, NEW r \in Runs, ExistsTenantByKey(Job[r].provider, Job[r].owner)
    PROVE  Admitted(r)
<1>1. PICK id \in indexed : /\ tenants[id].provider = Job[r].provider
                           /\ <<Job[r].owner, tenants[id].owner>> \in Begins
  BY DEF ExistsTenantByKey
<1>2. id \in TenantIDs /\ tenants[id] # NoTenant
  BY DEF TenancyInv, TenancyTypeOK
<1>3. PICK a \in Admins : Command[a].id = id /\ tenants[id] = NewTenant(a)
  BY <1>2 DEF TenancyInv, TenantsMade
<1>4. QED
  BY <1>1, <1>2, <1>3, NewTenantType DEF Admitted

\* The steps that leave a run where it is.
LEMMA QuietRun ==
    ASSUME TenancyInv, TenantsStay, NEW r \in Runs, RunInv(r),
           made'[r] = made[r], warm'[r] = warm[r],
           place'[r] = place[r], server'[r] = server[r],
           token'[r].issuer = token[r].issuer, token'[r].key = token[r].key,
           token[r].expired => token'[r].expired,
           token[r].issuer \in Issuers =>
              (token[r].key \in published'[token[r].issuer] =>
                  token[r].key \in published[token[r].issuer]),
           token[r].issuer \in Issuers /\ place[r] \in {"authenticate", "verify"} =>
              /\ token[r].issuer \in registered[server[r]] =>
                    token[r].issuer \in registered'[server[r]]
              /\ token[r].key \in published'[token[r].issuer] =>
                    (token[r].key \in keySet[server[r]][token[r].issuer] =>
                        token[r].key \in keySet'[server[r]][token[r].issuer])
    PROVE  RunInv(r)'
<1>1. made'[r] > 0 => Admitted(r)'
  BY AdmittedStays DEF RunInv
<1>2. ASSUME warm[r]
      PROVE  WarmOf(r)'
  <2>1. WarmOf(r)
    BY <1>2 DEF RunInv
  <2>2. ExistsTenantByKey(Job[r].provider, Job[r].owner)'
    BY <2>1, FoundStays DEF WarmOf
  <2>3. QED
    BY <2>1, <2>2 DEF WarmOf
<1>3. QED
  BY <1>1, <1>2 DEF RunInv

\* A step of the middleware, or of the client before it, leaves the run's invariant.
LEMMA CallStepRun ==
    ASSUME AuthInv, TenancyInv, NEW r \in Runs, RunInv(r), CallStep(r),
           UNCHANGED <<tenantVars, pathVars>>
    PROVE  RunInv(r)'
<1>1. UNCHANGED <<tenants, indexed, made, warm>>
  BY DEF tenantVars, pathVars
<1>2. Admitted(r) => Admitted(r)'
  BY <1>1 DEF Admitted, NewTenant
<1>3. ExistsTenantByKey(Job[r].provider, Job[r].owner)
         => ExistsTenantByKey(Job[r].provider, Job[r].owner)'
  BY <1>1 DEF ExistsTenantByKey
<1>4. place[r] \notin Ended /\ place'[r] # "done"
  BY DEF CallStep, RequestToken, RequestTokenFails, LocalToken, BringToken, Authenticate,
         Register, Ready, Verify, Go, Ended, AuthInv, AuthTypeOK
<1>5. ASSUME warm[r]
      PROVE  WarmOf(r)'
  <2>1. WarmOf(r)
    BY <1>5 DEF RunInv
  <2>2. CASE Authenticate(r)
    BY <1>3, <2>1, <2>2 DEF Authenticate, WarmOf, Go, keyVars, AuthInv, AuthTypeOK
  <2>3. CASE Verify(r)
    BY <1>3, <2>1, <2>3 DEF Verify, Verifies, WarmOf, Go, keyVars, AuthInv, AuthTypeOK
  <2>4. QED
    BY <2>1, <2>2, <2>3
    DEF CallStep, RequestToken, RequestTokenFails, LocalToken, BringToken, Register, Ready,
        WarmOf
<1>6. QED
  BY <1>1, <1>2, <1>4, <1>5, CallsType DEF RunInv

LEMMA SendInv ==
    ASSUME IInv, NEW r \in Runs, Send(r)
    PROVE  AuthInv' /\ PathTypeOK' /\ \A q \in Runs : RunInv(q)'
<1>1. PICK s \in Servers :
         /\ server' = [server EXCEPT ![r] = s]
         /\ Go(r, IF store[s] = "open" THEN "authenticate" ELSE "failed")
         /\ warm' = [warm EXCEPT ![r] = WarmFor(r, s)]
  BY DEF Send
<1>2. /\ place[r] = "send"
      /\ UNCHANGED <<keyVars, token, tenantVars, made, restarts>>
  BY DEF Send
<1>3. WarmFor(r, s) \in BOOLEAN
  BY DEF WarmFor, ExistsTenantByKey, ParsesClaims
<1>4. /\ place'[r] \in {"authenticate", "failed"} /\ server'[r] = s /\ warm'[r] = WarmFor(r, s)
      /\ \A q \in Runs \ {r} :
            place'[q] = place[q] /\ server'[q] = server[q] /\ warm'[q] = warm[q]
  BY <1>1 DEF Go, IInv, AuthInv, AuthTypeOK, PathTypeOK
<1>5. AuthInv'
  <2>1. AuthTypeOK'
    BY <1>1, <1>2 DEF IInv, AuthInv, AuthTypeOK, Go, keyVars, InMiddleware, Ended
  <2>2. QED
    BY <1>2, <1>4, <2>1 DEF IInv, AuthInv, KeyBound, IssuerKnown, keyVars
<1>6. PathTypeOK'
  BY <1>1, <1>2, <1>3 DEF IInv, PathTypeOK
<1>7. TenantsStay
  BY <1>2 DEF TenantsStay, tenantVars
<1>8. ASSUME NEW q \in Runs \ {r}
      PROVE  RunInv(q)'
  BY <1>2, <1>4, <1>7, QuietRun DEF IInv, keyVars
<1>9. RunInv(r)'
  <2>1. RunInv(r) /\ made'[r] = made[r]
    BY <1>2 DEF IInv
  <2>2. WarmFor(r, s) => WarmOf(r)'
    <3> SUFFICES ASSUME WarmFor(r, s) PROVE WarmOf(r)'
      OBVIOUS
    <3>1. ExistsTenantByKey(Job[r].provider, Job[r].owner)'
      BY <1>7, FoundStays DEF WarmFor, IInv
    <3>2. token[r].issuer \in registered[s]
      BY DEF WarmFor, IInv, AuthInv, AuthTypeOK
    <3>3. QED
      BY <1>2, <1>4, <3>1, <3>2 DEF WarmFor, WarmOf, keyVars
  <2>3. Admitted(r) => Admitted(r)'
    BY <1>7, AdmittedStays DEF IInv
  <2>4. QED
    BY <1>2, <1>4, <2>1, <2>2, <2>3, CallsType DEF RunInv, Ended
<1>10. QED
  BY <1>5, <1>6, <1>8, <1>9

LEMMA HandleInv ==
    ASSUME IInv, NEW r \in Runs, Handle(r) \/ HandleFails(r)
    PROVE  AuthInv' /\ PathTypeOK' /\ \A q \in Runs : RunInv(q)'
<1>1. /\ place[r] = "authorized"
      /\ UNCHANGED <<keyVars, token, server, tenantVars, restarts>>
  BY DEF Handle, HandleFails
<1>2. TenantsStay
  BY <1>1 DEF TenantsStay, tenantVars
<1>3. \A q \in Runs : /\ made[q] \in Nat /\ Len(Job[q].calls) \in Nat /\ RunInv(q)
                      /\ warm[q] \in BOOLEAN
  BY CallsType DEF IInv, PathTypeOK
<1>4. \/ /\ Answer(r)
         /\ made[r] = 0 => ExistsTenantByKey(Job[r].provider, Job[r].owner)
      \/ /\ Go(r, "denied") /\ UNCHANGED <<made, warm>>
         /\ ~ExistsTenantByKey(Job[r].provider, Job[r].owner)
      \/ Go(r, "failed") /\ UNCHANGED <<made, warm>>
  BY CallsType DEF Handle, HandleFails, PresentCall
<1>5. /\ place'[r] \in {"send", "done", "denied", "failed"}
      /\ place' \in [Runs -> {"token", "send", "authorized"} \cup InMiddleware \cup Ended]
      /\ \A q \in Runs \ {r} :
            place'[q] = place[q] /\ made'[q] = made[q] /\ warm'[q] = warm[q]
      /\ PathTypeOK'
  <2>1. /\ place \in [Runs -> {"token", "send", "authorized"} \cup InMiddleware \cup Ended]
        /\ made \in [Runs -> Nat] /\ warm \in [Runs -> BOOLEAN]
        /\ restarts' = restarts /\ restarts \in [Servers -> Nat]
        /\ \A s \in Servers : restarts[s] <= MaxRestarts[s]
    BY <1>1 DEF IInv, AuthInv, AuthTypeOK, PathTypeOK
  <2>2. PICK p \in {"send", "done", "denied", "failed"} : Go(r, p)
    BY <1>4 DEF Answer
  <2>3. /\ place'[r] = p
        /\ place' \in [Runs -> {"token", "send", "authorized"} \cup InMiddleware \cup Ended]
        /\ \A q \in Runs \ {r} : place'[q] = place[q]
    BY <2>1, <2>2 DEF Go, Ended
  <2>4. /\ made' \in [Runs -> Nat] /\ warm' \in [Runs -> BOOLEAN]
        /\ \A q \in Runs \ {r} : made'[q] = made[q] /\ warm'[q] = warm[q]
    <3>1. CASE UNCHANGED <<made, warm>>
      BY <2>1, <3>1
    <3>2. CASE Answer(r)
      BY <2>1, <3>2 DEF Answer
    <3>3. QED
      BY <1>4, <3>1, <3>2
  <2>5. QED
    BY <2>1, <2>3, <2>4 DEF PathTypeOK
<1>6. AuthInv'
  <2>1. AuthTypeOK'
    BY <1>1, <1>5 DEF IInv, AuthInv, AuthTypeOK, keyVars
  <2>2. QED
    BY <1>1, <1>5, <2>1 DEF IInv, AuthInv, KeyBound, IssuerKnown, keyVars
<1>7. ASSUME NEW q \in Runs \ {r}
      PROVE  RunInv(q)'
  BY <1>1, <1>2, <1>5, QuietRun DEF IInv, keyVars
<1>8. RunInv(r)'
  <2>1. Admitted(r) => Admitted(r)'
    BY <1>2, AdmittedStays DEF IInv
  <2>2. CASE /\ Answer(r)
             /\ made[r] = 0 => ExistsTenantByKey(Job[r].provider, Job[r].owner)
    <3>1. Admitted(r)'
      BY <1>3, <2>1, <2>2, FoundIsAdmitted DEF RunInv, IInv
    <3>2. /\ made'[r] = made[r] + 1 /\ warm'[r] = FALSE
          /\ place'[r] = IF made[r] + 1 < Len(Job[r].calls) THEN "send" ELSE "done"
      BY <2>2 DEF Answer, Go, IInv, AuthInv, AuthTypeOK, PathTypeOK
    <3>3. made[r] < Len(Job[r].calls)
      BY <1>1, <1>3 DEF RunInv, Ended
    <3>4. QED
      BY <1>3, <3>1, <3>2, <3>3 DEF RunInv, Ended
  <2>3. CASE /\ Go(r, "denied") /\ UNCHANGED <<made, warm>>
             /\ ~ExistsTenantByKey(Job[r].provider, Job[r].owner)
    <3>1. place'[r] = "denied" /\ ~warm[r]
      BY <1>3, <2>3 DEF Go, IInv, AuthInv, AuthTypeOK, RunInv, WarmOf
    <3>2. QED
      BY <1>3, <2>1, <2>3, <3>1 DEF RunInv, Ended
  <2>4. CASE Go(r, "failed") /\ UNCHANGED <<made, warm>>
    <3>1. place'[r] = "failed"
      BY <2>4 DEF Go, IInv, AuthInv, AuthTypeOK
    <3>2. WarmOf(r) => WarmOf(r)'
      <4>1. ExistsTenantByKey(Job[r].provider, Job[r].owner)
               => ExistsTenantByKey(Job[r].provider, Job[r].owner)'
        BY <1>2, FoundStays DEF IInv
      <4>2. QED
        BY <1>1, <3>1, <4>1 DEF WarmOf, keyVars
    <3>3. QED
      BY <1>3, <2>1, <2>4, <3>1, <3>2 DEF RunInv, Ended
  <2>5. QED
    BY <1>4, <2>2, <2>3, <2>4
<1>9. QED
  BY <1>5, <1>6, <1>7, <1>8

LEMMA RestartInv ==
    ASSUME IInv, NEW s \in Servers, Restart(s)
    PROVE  AuthInv' /\ PathTypeOK' /\ \A q \in Runs : RunInv(q)'
<1>1. /\ UNCHANGED <<published, token, server, tenantVars, made, warm>>
      /\ ForgetKeys(s)
      /\ restarts[s] < MaxRestarts[s] /\ restarts' = [restarts EXCEPT ![s] = @ + 1]
      /\ place' = [r \in Runs |->
                     IF server[r] = s /\ place[r] \in InMiddleware \cup {"authorized"}
                       THEN "failed" ELSE place[r]]
  BY DEF Restart
<1>2. PathTypeOK'
  <2>1. /\ restarts \in [Servers -> Nat]
        /\ restarts' = [restarts EXCEPT ![s] = @ + 1]
        /\ restarts[s] < MaxRestarts[s]
        /\ \A t \in Servers : restarts[t] <= MaxRestarts[t]
    BY <1>1 DEF IInv, PathTypeOK
  <2>2. restarts' \in [Servers -> Nat] /\ \A t \in Servers : restarts'[t] <= MaxRestarts[t]
    <3>1. restarts[s] \in Nat /\ restarts[s] + 1 \in Nat
      BY <2>1
    <3>2. MaxRestarts[s] \in Nat
      BY MaxRestartsAssumption
    <3>3. restarts[s] + 1 <= MaxRestarts[s]
      BY <2>1, <3>1, <3>2
    <3>4. /\ restarts'[s] = restarts[s] + 1
          /\ \A t \in Servers \ {s} : restarts'[t] = restarts[t]
      BY <2>1
    <3>5. restarts' \in [Servers -> Nat]
      BY <2>1, <3>1
    <3>6. QED
      BY <2>1, <3>3, <3>4, <3>5
  <2>3. QED
    BY <1>1, <2>2 DEF IInv, PathTypeOK
<1>3. /\ registered' \in [Servers -> SUBSET Issuers]
      /\ keySet' \in [Servers -> [Issuers -> SUBSET Nat]]
      /\ registered'[s] = {} /\ keySet'[s] = [i \in Issuers |-> {}]
      /\ \A t \in Servers \ {s} : registered'[t] = registered[t] /\ keySet'[t] = keySet[t]
  BY <1>1 DEF ForgetKeys, IInv, AuthInv, AuthTypeOK
<1>4. \A t \in Servers : {i \in Issuers : keySet'[t][i] # {}} \subseteq registered'[t]
  BY <1>3 DEF IInv, AuthInv, AuthTypeOK
<1>5. /\ place' \in [Runs -> {"token", "send", "authorized"} \cup InMiddleware \cup Ended]
      /\ \A r \in Runs : place'[r] \in {"failed", place[r]}
  BY <1>1 DEF IInv, AuthInv, AuthTypeOK, Ended
<1>6. AuthInv'
  <2>1. AuthTypeOK'
    BY <1>1, <1>3, <1>4, <1>5 DEF IInv, AuthInv, AuthTypeOK
  <2>2. KeyBound'
    BY <1>1 DEF IInv, AuthInv, KeyBound
  <2>3. IssuerKnown'
    BY <1>1, <1>5 DEF IInv, AuthInv, IssuerKnown
  <2>4. QED
    BY <2>1, <2>2, <2>3 DEF AuthInv
<1>7. TenantsStay
  BY <1>1 DEF TenantsStay, tenantVars
<1>8. ASSUME NEW r \in Runs
      PROVE  RunInv(r)'
  <2>1. RunInv(r) /\ TenancyInv /\ server[r] \in Servers
    BY DEF IInv, AuthInv, AuthTypeOK
  <2>2. CASE server[r] = s /\ place[r] \in InMiddleware \cup {"authorized"}
    <3>1. place'[r] = "failed"
      BY <1>1, <2>2
    <3>2. Admitted(r) => Admitted(r)'
      BY <1>7, <2>1, AdmittedStays
    <3>3. WarmOf(r) => WarmOf(r)'
      <4>1. ExistsTenantByKey(Job[r].provider, Job[r].owner)
               => ExistsTenantByKey(Job[r].provider, Job[r].owner)'
        BY <1>7, <2>1, FoundStays
      <4>2. QED
        BY <1>1, <3>1, <4>1 DEF WarmOf
    <3>4. QED
      BY <1>1, <2>1, <3>1, <3>2, <3>3 DEF RunInv, Ended
  <2>3. CASE ~(server[r] = s /\ place[r] \in InMiddleware \cup {"authorized"})
    <3>1. place'[r] = place[r]
      BY <1>1, <2>3
    <3>2. place[r] \in {"authenticate", "verify"} => server[r] # s
      BY <2>3 DEF InMiddleware
    <3>3. QED
      BY <1>1, <1>3, <1>7, <2>1, <3>1, <3>2, QuietRun
  <2>4. QED
    BY <2>2, <2>3
<1>9. QED
  BY <1>2, <1>6, <1>8

LEMMA KeyStepInv ==
    ASSUME IInv, KeyStep
    PROVE  AuthInv' /\ PathTypeOK' /\ \A q \in Runs : RunInv(q)'
<1>1. UNCHANGED <<tenants, indexed, made, warm, restarts>>
  BY DEF KeyStep, tenantVars, pathVars
<1>2. PathTypeOK' /\ TenantsStay
  BY <1>1 DEF IInv, PathTypeOK, TenantsStay
<1>3. ASSUME NEW s \in Servers, NEW issuer \in Issuers, Fetch(s, issuer)
      PROVE  AuthInv' /\ \A q \in Runs : RunInv(q)'
  <2>1. /\ UNCHANGED <<published, registered, token, place, server>>
        /\ keySet' = [keySet EXCEPT ![s][issuer] = published[issuer]]
    BY <1>3 DEF Fetch, callVars
  <2>2. ASSUME NEW t \in Servers, NEW i \in Issuers, NEW key \in published[i],
               key \in keySet[t][i]
        PROVE  key \in keySet'[t][i]
    BY <2>1, <2>2 DEF IInv, AuthInv, AuthTypeOK
  <2>3. ASSUME NEW q \in Runs
        PROVE  RunInv(q)'
    <3>1. server[q] \in Servers
      BY DEF IInv, AuthInv, AuthTypeOK
    <3>2. QED
      BY <1>1, <1>2, <2>1, <2>2, <3>1, QuietRun DEF IInv
  <2>4. QED
    BY <1>3, <2>3, FetchAuth DEF IInv
<1>4. ASSUME NEW issuer \in Issuers, Rotate(issuer)
      PROVE  AuthInv' /\ \A q \in Runs : RunInv(q)'
  <2>1. UNCHANGED <<registered, keySet, token, place, server>>
    BY <1>4 DEF Rotate, callVars
  <2>2. QED
    BY <1>1, <1>2, <1>4, <2>1, RotateAuth, QuietRun DEF IInv
<1>5. ASSUME NEW r \in Runs, Expire(r)
      PROVE  AuthInv' /\ \A q \in Runs : RunInv(q)'
  <2>1. UNCHANGED <<published, registered, keySet, place, server>>
    BY <1>5 DEF Expire, keyVars
  <2>2. QED
    BY <1>1, <1>2, <1>5, <2>1, ExpireAuth, QuietRun DEF IInv
<1>6. QED
  BY <1>2, <1>3, <1>4, <1>5 DEF KeyStep

LEMMA OtherStepInv ==
    ASSUME IInv, UNCHANGED <<authVars, pathVars>>, TenantsStay
    PROVE  AuthInv' /\ PathTypeOK' /\ \A q \in Runs : RunInv(q)'
<1>1. UNCHANGED <<published, registered, keySet, token, place, server, made, restarts, warm>>
  BY DEF authVars, keyVars, callVars, pathVars
<1>2. AuthInv' /\ PathTypeOK'
  BY <1>1 DEF IInv, AuthInv, AuthTypeOK, KeyBound, IssuerKnown, PathTypeOK
<1>3. QED
  BY <1>1, <1>2, QuietRun DEF IInv

LEMMA RunStepInv ==
    ASSUME IInv, NEW r \in Runs, RunStep(r)
    PROVE  AuthInv' /\ PathTypeOK' /\ \A q \in Runs : RunInv(q)'
<1>1. CASE CallStep(r) /\ UNCHANGED <<tableVars, tenantVars, pathVars>>
  <2>1. UNCHANGED <<tenants, indexed, made, warm, restarts, tenantVars, pathVars>>
    BY <1>1 DEF tenantVars, pathVars
  <2>2. AuthInv' /\ PathTypeOK' /\ RunInv(r)' /\ TenantsStay
    BY <1>1, <2>1, CallStepAuth, CallStepRun DEF IInv, PathTypeOK, TenantsStay
  <2>3. ASSUME NEW q \in Runs \ {r}
        PROVE  RunInv(q)'
    <3>1. /\ UNCHANGED <<published, keySet, server>>
          /\ place'[q] = place[q] /\ token'[q] = token[q]
      BY <1>1 DEF CallStep, RequestToken, RequestTokenFails, LocalToken, BringToken,
                  Authenticate, Register, Ready, Verify, Go, Obtain, keyVars,
                  IInv, AuthInv, AuthTypeOK
    <3>2. registered[server[q]] \subseteq registered'[server[q]]
      BY <1>1 DEF CallStep, RequestToken, RequestTokenFails, LocalToken, BringToken,
                  Authenticate, Register, Ready, Verify, keyVars, IInv, AuthInv, AuthTypeOK
    <3>3. QED
      BY <2>1, <2>2, <3>1, <3>2, QuietRun DEF IInv
  <2>4. QED
    BY <2>2, <2>3
<1>2. QED
  BY <1>1, SendInv, HandleInv DEF RunStep

-----------------------------------------------------------------------------
(* The parts together *)

\* Every step is one of the table's and one of the tenants', or leaves them alone.
LEMMA NextParts ==
    ASSUME [Next]_vars
    PROVE  TableChange /\ TenantChange
<1>1. CASE TableStep
  BY <1>1 DEF TableStep, TableChange, TenantChange
<1>2. CASE TenantStep
  BY <1>2 DEF TenantStep, TableChange, TenantChange
<1>3. CASE KeyStep
  BY <1>3 DEF KeyStep, TableChange, TenantChange
<1>4. ASSUME NEW r \in Runs, RunStep(r)
      PROVE  TableChange /\ TenantChange
  BY <1>4 DEF RunStep, Send, Handle, HandleFails, TableChange, TenantChange
<1>5. ASSUME NEW s \in Servers, Restart(s)
      PROVE  TableChange /\ TenantChange
  BY <1>5 DEF Restart, TableChange, TenantChange
<1>6. CASE UNCHANGED vars
  BY <1>6 DEF vars, TableChange, TenantChange
<1>7. QED
  BY <1>1, <1>2, <1>3, <1>4, <1>5, <1>6 DEF Next, Finished

LEMMA InitIInv == Init => IInv
<1> SUFFICES ASSUME Init PROVE IInv
  OBVIOUS
<1>1. TableInv /\ TenancyInv /\ AuthInv
  BY TableInitInv, TenancyInitInv, AuthInitInv DEF Init
<1>2. PathTypeOK
  BY MaxRestartsAssumption DEF Init, PathTypeOK
<1>3. \A r \in Runs : RunInv(r)
  BY CallsType DEF Init, AuthInit, RunInv
<1>4. QED
  BY <1>1, <1>2, <1>3 DEF IInv

LEMMA NextIInv == IInv /\ [Next]_vars => IInv'
<1> SUFFICES ASSUME IInv, [Next]_vars PROVE IInv'
  OBVIOUS
<1>1. TableInv' /\ TenancyInv' /\ TenantsStay
  BY NextParts, TableNextInv, TenancyNextInv DEF IInv
<1>2. AuthInv' /\ PathTypeOK' /\ \A q \in Runs : RunInv(q)'
  <2>1. CASE TableStep \/ TenantStep
    BY <1>1, <2>1, OtherStepInv DEF TableStep, TenantStep
  <2>2. CASE KeyStep
    BY <2>2, KeyStepInv
  <2>3. ASSUME NEW r \in Runs, RunStep(r)
        PROVE  AuthInv' /\ PathTypeOK' /\ \A q \in Runs : RunInv(q)'
    BY <2>3, RunStepInv
  <2>4. ASSUME NEW s \in Servers, Restart(s)
        PROVE  AuthInv' /\ PathTypeOK' /\ \A q \in Runs : RunInv(q)'
    BY <2>4, RestartInv
  <2>5. CASE UNCHANGED vars
    BY <1>1, <2>5, OtherStepInv DEF vars
  <2>6. QED
    BY <2>1, <2>2, <2>3, <2>4, <2>5 DEF Next, Finished
<1>3. QED
  BY <1>1, <1>2 DEF IInv

LEMMA IInvAlways == Spec => []IInv
  BY InitIInv, NextIInv, PTL DEF Spec

-----------------------------------------------------------------------------
(* Theorems *)

\* The variables keep their types, and a run is done only when every one of its calls
\* has been answered (client save.go and restore.go make them one after the other).
THEOREM TypeCorrect == Spec => []TypeOK
<1>1. IInv => TypeOK
  BY DEF IInv, TableInv, TenancyInv, AuthInv, PathTypeOK, RunInv, TypeOK
<1>2. QED
  BY <1>1, IInvAlways, PTL

\* ValidateToken and validateOwner do not turn away a call for which the server has the
\* key and the index the tenant, whatever calls at the same time register and fetch.
THEOREM WarmCallsServed == Spec => []WarmCallServed
<1>1. IInv => WarmCallServed
  BY DEF IInv, RunInv, WarmOf, WarmCallServed
<1>2. QED
  BY <1>1, IInvAlways, PTL

\* validateOwner lets a run past its first call only for a tenant that create-tenant
\* made, of the run's provider and with an owner that begins with the run's.
THEOREM AdmittedTenants == Spec => []AdmittedHasTenant
<1>1. IInv => AdmittedHasTenant
  BY DEF IInv, RunInv, Admitted, AdmittedHasTenant
<1>2. QED
  BY <1>1, IInvAlways, PTL

\* What PutTenant's condition let CreateTenant answer stays true.
THEOREM AnswersStayTrue == Spec => []AnswersTrue
<1>1. IInv => AnswersTrue
  BY DEF IInv, TenancyInv
<1>2. QED
  BY <1>1, IInvAlways, PTL

\* However many servers start at once and whichever answers of CreateTable get lost: one
\* at most sets the table up, and the table has the time to live that createTable sets,
\* or will have when that server is done, unless the one that made it stopped on the way
\* or was not told.
THEOREM TableExpires == Spec => []ExpiryOn
<1>1. IInv => ExpiryOn
  BY DEF IInv, TableInv
<1>2. QED
  BY <1>1, IInvAlways, PTL

\* No step of the system takes back or rewrites a tenant, or loses it from the index.
THEOREM TenantsArePermanent == Spec => TenantsKept
<1>1. IInv /\ [Next]_vars =>
        [\A id \in TenantIDs :
            /\ tenants[id] # NoTenant => tenants'[id] = tenants[id]
            /\ id \in indexed => id \in indexed']_vars
  BY NextParts, TenancyNextInv DEF IInv, TenantsStay
<1>2. QED
  BY <1>1, IInvAlways, PTL DEF Spec, TenantsKept

=============================================================================
