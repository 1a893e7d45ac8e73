----------------------------- MODULE RequestPath -----------------------------
(***************************************************************************)
(* A call's way through a server, from the table's creation to the check   *)
(* of its owner: TableSetup, TokenValidation and Tenancy side by side, and *)
(* the handlers of the cache service that join them.  A run of save or     *)
(* restore makes its calls one after the other with one token; any server  *)
(* may take each of them.  What the handlers do after the owner is known   *)
(* is CacheService's.                                                      *)
(***************************************************************************)
EXTENDS TokenValidation, Tenancy, Sequences

CONSTANTS
    Job,          \* what each run asks for: its calls, its provider type and owner
    MaxRestarts   \* bound: times that each server starts again

SaveCalls == <<"CheckEntry", "CreateEntry", "UpdateEntry">>
RestoreCalls == <<"GetEntry">>

ASSUME JobAssumption ==
    /\ Job \in [Runs -> [calls : {SaveCalls, RestoreCalls},
                         provider : DefaultProviderNames \cup {Unspecified},
                         owner : Owners]]
    /\ \A r \in Runs :
          Source[r] # "other" => Job[r].provider = convertProviderTypeV1(Source[r])
ASSUME MaxRestartsAssumption == MaxRestarts \in [Servers -> Nat]

VARIABLES
    made,       \* calls of each run that a handler has let through
    restarts,
    warm        \* history: a run's present call came to a server that had what it needs

pathVars == <<made, restarts, warm>>
vars == <<tableVars, authVars, tenantVars, pathVars>>

Init ==
    /\ TableInit
    /\ AuthInit
    /\ TenancyInit
    /\ indexed # {} => table = "active"
    /\ made = [r \in Runs |-> 0]
    /\ restarts = [s \in Servers |-> 0]
    /\ warm = [r \in Runs |-> FALSE]

-----------------------------------------------------------------------------

ChecksOwner(call) == call # "UpdateEntry"

PresentCall(r) == Job[r].calls[made[r] + 1]

\* The server holds the key of the run's token and reads the claims of its issuer, and
\* the index has the tenant.
WarmFor(r, s) ==
    /\ token[r].issuer \in Issuers
    /\ token[r].key \in keySet[s][token[r].issuer]
    /\ ParsesClaims(OIDCProvider(token[r].issuer))
    /\ ExistsTenantByKey(Job[r].provider, Job[r].owner)

\* A call goes out with the run's token; there is no answer where nobody listens.
Send(r) ==
    /\ place[r] = "send"
    /\ \E s \in Servers :
          /\ server' = [server EXCEPT ![r] = s]
          /\ Go(r, IF store[s] = "open" THEN "authenticate" ELSE "failed")
          /\ warm' = [warm EXCEPT ![r] = WarmFor(r, s)]
    /\ UNCHANGED <<keyVars, token, tenantVars, tableVars, made, restarts>>

\* A run that takes its last call but one for the last.
Answer_Early(r) ==
    /\ made' = [made EXCEPT ![r] = @ + 1]
    /\ warm' = [warm EXCEPT ![r] = FALSE]
    /\ Go(r, IF made[r] + 2 < Len(Job[r].calls) THEN "send" ELSE "done")

\* The call has done its work; the run makes its next one.
Answer(r) ==
    /\ made' = [made EXCEPT ![r] = @ + 1]
    /\ warm' = [warm EXCEPT ![r] = FALSE]
    /\ Go(r, IF made[r] + 1 < Len(Job[r].calls) THEN "send" ELSE "done")

\* A handler that does not look at whether the tenant exists.
Handle_AnyOwner(r) ==
    /\ place[r] = "authorized"
    /\ ~ChecksOwner(PresentCall(r)) \/ table = "active"
    /\ Answer(r)
    /\ UNCHANGED <<keyVars, token, server, tenantVars, tableVars, restarts>>

\* CheckEntry, CreateEntry and GetEntry begin with validateOwner; UpdateEntry has none.
Handle(r) ==
    /\ place[r] = "authorized"
    /\ \/ /\ ChecksOwner(PresentCall(r))
          /\ table = "active"
          /\ ~ExistsTenantByKey(Job[r].provider, Job[r].owner)
          /\ Go(r, "denied")
          /\ UNCHANGED <<made, warm>>
       \/ /\ ChecksOwner(PresentCall(r))
          /\ table = "active"
          /\ ExistsTenantByKey(Job[r].provider, Job[r].owner)
          /\ Answer(r)
       \/ /\ ~ChecksOwner(PresentCall(r))
          /\ Answer(r)
    /\ UNCHANGED <<keyVars, token, server, tenantVars, tableVars, restarts>>

\* A remote call of the handler fails, as those to a table that is not there do.
HandleFails(r) ==
    /\ place[r] = "authorized"
    /\ Go(r, "failed")
    /\ UNCHANGED <<keyVars, token, server, made, tenantVars, tableVars, restarts, warm>>

\* A server is stopped or has exited, and starts again without its keys; the calls it
\* had taken fail.
Restart(s) ==
    /\ restarts[s] < MaxRestarts[s]
    /\ restarts' = [restarts EXCEPT ![s] = @ + 1]
    /\ StartAgain(s)
    /\ ForgetKeys(s)
    /\ place' = [r \in Runs |->
                   IF server[r] = s /\ place[r] \in InMiddleware \cup {"authorized"}
                     THEN "failed" ELSE place[r]]
    /\ UNCHANGED <<published, token, server, tenantVars, made, warm>>

TableStep ==
    /\ \/ TableActive
       \/ \E s \in Servers :
             CreateTable(s) \/ Wait(s) \/ UpdateTimeToLive(s) \/ SetupFails(s)
    /\ UNCHANGED <<authVars, tenantVars, pathVars>>

TenantStep ==
    /\ \/ \E id \in TenantIDs : Index(id)
       \/ \E a \in Admins :
             \/ table = "active" /\ CreateTenant(a)
             \/ CreateTenantFails(a)
    /\ UNCHANGED <<tableVars, authVars, pathVars>>

\* What happens to keys and tokens outside of calls.
KeyStep ==
    /\ \/ \E s \in Servers, issuer \in Issuers : Fetch(s, issuer)
       \/ \E issuer \in Issuers : Rotate(issuer)
       \/ \E r \in Runs : Expire(r)
    /\ UNCHANGED <<tableVars, tenantVars, pathVars>>

RunStep(r) ==
    \/ CallStep(r) /\ UNCHANGED <<tableVars, tenantVars, pathVars>>
    \/ Send(r)
    \/ Handle(r)
    \/ HandleFails(r)

Finished ==
    /\ \A r \in Runs : place[r] \in Ended
    /\ UNCHANGED vars

Next ==
    \/ TableStep
    \/ TenantStep
    \/ KeyStep
    \/ \E r \in Runs : RunStep(r)
    \/ \E s \in Servers : Restart(s)
    \/ Finished

\* The server's goroutines and the clients run, and an issuer's keys are fetched in
\* the end; nothing need be created, rotated or restarted.
Fairness ==
    /\ \A r \in Runs : WF_vars(RunStep(r))
    /\ \A s \in Servers, issuer \in Issuers :
          WF_vars(Fetch(s, issuer) /\ UNCHANGED <<tableVars, tenantVars, pathVars>>)

Spec == Init /\ [][Next]_vars /\ Fairness

-----------------------------------------------------------------------------
(* Properties *)

\* Types; a run that is done has had every call answered.
TypeOK ==
    /\ TableTypeOK
    /\ AuthTypeOK
    /\ TenancyTypeOK
    /\ made \in [Runs -> Nat]
    /\ restarts \in [Servers -> Nat]
    /\ \A s \in Servers : restarts[s] <= MaxRestarts[s]
    /\ warm \in [Runs -> BOOLEAN]
    /\ \A r \in Runs :
          /\ made[r] <= Len(Job[r].calls)
          /\ place[r] = "done" => made[r] = Len(Job[r].calls)

\* A call that came to a server with its token's key and its tenant in place, from an
\* issuer whose claims the server reads (GitLab's it does not), is not turned away,
\* whatever other calls register, fetch and create meanwhile; only its own token can
\* run out, or its key be withdrawn.
WarmCallServed ==
    \A r \in Runs : warm[r] =>
        /\ place[r] # "denied"
        /\ place[r] = "unauthorized" =>
              token[r].expired \/ token[r].key \notin published[token[r].issuer]

\* What is left of validateOwner's promise (OwnerExists is all of it): a run gets past
\* its first call only for a tenant that a create-tenant command made, of the provider
\* it names and with an owner that begins with the one it names.
AdmittedHasTenant ==
    \A r \in Runs : made[r] > 0 =>
        \E a \in Admins :
            /\ tenants[Command[a].id] = NewTenant(a)
            /\ NewTenant(a).provider = Job[r].provider
            /\ <<Job[r].owner, Command[a].slug>> \in Begins

\* "The owner needs to exist in the tenant index", says the comment of validateOwner: a
\* run gets past its first call only if its owner is a tenant of its provider.
OwnerExists ==
    \A r \in Runs : made[r] > 0 =>
        \E id \in indexed :
            tenants[id] = [provider |-> Job[r].provider, owner |-> Job[r].owner]

\* What is once written of a tenant stays, and stays found.
TenantsKept ==
    [][\A id \in TenantIDs :
          /\ tenants[id] # NoTenant => tenants'[id] = tenants[id]
          /\ id \in indexed => id \in indexed']_vars

\* Every run comes to an end: no call waits for ever for keys or for another call.
EveryRunEnds == \A r \in Runs : <>(place[r] \in Ended)

=============================================================================
