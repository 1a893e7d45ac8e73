------------------------------- MODULE Tenancy -------------------------------
(***************************************************************************)
(* Tenants: the admin command that creates them, the provision service and *)
(* the tenant half of internal/index.  A tenant is written once under its  *)
(* id, with a condition; the cache service finds it by its provider and    *)
(* owner in the index idx_global_1, which follows the table with a delay.  *)
(***************************************************************************)
EXTENDS Providers, FiniteSets

CONSTANTS
    Admins,      \* runs of create-tenant
    Command,     \* their flags: endpoint, provider, id and slug
    TenantIDs,
    Owners,      \* slugs of tenants, and owners that calls name; "" for none
    Begins,      \* pairs of an owner and one whose text begins with it
    NoTenant

ASSUME CommandAssumption ==
    Command \in [Admins -> [endpoint : {"rpc", "adminLambda"},
                            provider : {"github", "gitlab", "buildkite"},
                            id : TenantIDs, slug : Owners]]
ASSUME BeginsAssumption == \A o \in Owners : <<o, o>> \in Begins

VARIABLES
    tenants,   \* the table's tenant records, by id
    indexed,   \* ids that idx_global_1 has
    admin      \* where each run of create-tenant is, and how it ended

tenantVars == <<tenants, indexed, admin>>

TenantRecord == [provider : DefaultProviderNames, owner : Owners \ {""}]
ASSUME NoTenantAssumption == NoTenant \notin TenantRecord

\* sigv4's RoundTrip signs the admin command's calls for API Gateway, in the header
\* that extractBearerToken looks for a bearer token in.
SignedAs == "AWS4-HMAC-SHA256"
extractBearerToken(scheme) == scheme = "Bearer"

\* The rpc server has the middleware in front of the provision service as well, the
\* admin lambda has not.
BehindMiddleware(endpoint) == endpoint = "rpc"
Reaches(endpoint) == BehindMiddleware(endpoint) => extractBearerToken(SignedAs)

\* The record CreateTenant makes of the request.
NewTenant(a) ==
    [provider |-> AdminProvider(Command[a].provider), owner |-> Command[a].slug]

\* TenantRecord.Validate
Valid(record) == record.provider \in DefaultProviderNames /\ record.owner # ""

\* Commands that ran in earlier times, one for an id, have made the tenants there are.
TenancyInit ==
    \E early \in SUBSET Admins :
        /\ \A a, b \in early : a # b => Command[a].id # Command[b].id
        /\ \A a \in early : Reaches(Command[a].endpoint) /\ Valid(NewTenant(a))
        /\ admin = [a \in Admins |-> IF a \in early THEN "created" ELSE "start"]
        /\ indexed = {Command[a].id : a \in early}
        /\ tenants \in [TenantIDs -> {NewTenant(a) : a \in early} \cup {NoTenant}]
        /\ \A id \in TenantIDs \ indexed : tenants[id] = NoTenant
        /\ \A a \in early : tenants[Command[a].id] = NewTenant(a)

-----------------------------------------------------------------------------
(* Store *)

\* Store.ExistsTenantByKey: TenantKey's text is the beginning of an indexed one.  It
\* takes the first match, and the callers look at whether there is one.
ExistsTenantByKey(provider, owner) ==
    \E id \in indexed :
        /\ tenants[id].provider = provider
        /\ <<owner, tenants[id].owner>> \in Begins

\* DynamoDB copies a written record to idx_global_1.
Index(id) ==
    /\ tenants[id] # NoTenant
    /\ indexed' = indexed \cup {id}
    /\ UNCHANGED <<tenants, admin>>

-----------------------------------------------------------------------------
(* create-tenant and ProvisionServiceHandler.CreateTenant *)

AdminGo(a, p) == admin' = [admin EXCEPT ![a] = p]

\* PutTenant without the condition.
PutTenant_Unconditional(a) ==
    /\ tenants' = [tenants EXCEPT ![Command[a].id] = NewTenant(a)]
    /\ \E answer \in {"created", "start"} : AdminGo(a, answer)

\* PutTenant for which a tenant that exists is as good as a created one.
PutTenant_Idempotent(a) ==
    \/ /\ tenants[Command[a].id] = NoTenant
       /\ tenants' = [tenants EXCEPT ![Command[a].id] = NewTenant(a)]
       /\ \E answer \in {"created", "start"} : AdminGo(a, answer)
    \/ /\ tenants[Command[a].id] # NoTenant
       /\ AdminGo(a, "created")
       /\ UNCHANGED tenants

\* Store.PutTenant: a create with the condition that the id is free.  When DynamoDB's
\* answer is lost the SDK makes the call again, and finds the record it has written.
PutTenant(a) ==
    \/ /\ tenants[Command[a].id] = NoTenant
       /\ tenants' = [tenants EXCEPT ![Command[a].id] = NewTenant(a)]
       /\ \E answer \in {"created", "start"} : AdminGo(a, answer)
    \/ /\ tenants[Command[a].id] # NoTenant
       /\ AdminGo(a, "alreadyExists")
       /\ UNCHANGED tenants

\* The command's call gets to the handler, whose record is valid.
CreateTenant(a) ==
    /\ admin[a] = "start"
    /\ Reaches(Command[a].endpoint)
    /\ Valid(NewTenant(a))
    /\ PutTenant(a)
    /\ UNCHANGED indexed

\* The call cannot be signed or sent, the middleware or the validation turns it away,
\* the write fails, or the answer is lost on its way to the command.
CreateTenantFails(a) ==
    /\ admin[a] = "start"
    /\ AdminGo(a, "failed")
    /\ UNCHANGED <<tenants, indexed>>

-----------------------------------------------------------------------------
(* Properties *)

\* What is indexed is in the table.
TenancyTypeOK ==
    /\ tenants \in [TenantIDs -> TenantRecord \cup {NoTenant}]
    /\ indexed \in SUBSET TenantIDs
    /\ \A id \in indexed : tenants[id] # NoTenant
    /\ admin \in [Admins -> {"start", "created", "alreadyExists", "failed"}]

\* The commands' answers are true for good: the tenant of one that was told "created"
\* is its own, and one that was told "already exists" names a tenant there is.  Two
\* commands for an id are not both told "created", but both may be told the other.
AnswersTrue ==
    \A a \in Admins :
        /\ admin[a] = "created" => tenants[Command[a].id] = NewTenant(a)
        /\ admin[a] = "alreadyExists" => tenants[Command[a].id] # NoTenant
        /\ admin[a] = "created" =>
              \A b \in Admins \ {a} :
                  Command[b].id = Command[a].id => admin[b] # "created"

=============================================================================
