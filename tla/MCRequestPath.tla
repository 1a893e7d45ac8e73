---------------------------- MODULE MCRequestPath ----------------------------
(***************************************************************************)
(* A save, and a restore by another client with a token of its own, on one *)
(* server that creates the table, or two servers that both create it and   *)
(* no calls; two commands for one tenant, of which one asks for another    *)
(* owner under the same id.                                                *)
(***************************************************************************)
EXTENDS RequestPath, TLC

CONSTANTS r1, r2, s1, s2, a1, a2, id1

MCSource == r1 :> "github_actions" @@ r2 :> "other"

MCJob ==
    r1 :> [calls |-> SaveCalls, provider |-> GitHubActions, owner |-> "org"]
    @@ r2 :> [calls |-> RestoreCalls, provider |-> GitHubActions, owner |-> "org"]

\* The issuer of the save's token replaces its key once.
MCMaxKey == [i \in Issuers |-> IF i = "token.actions.githubusercontent.com" THEN 2 ELSE 1]

MCOwners == {"", "org", "org-team"}
MCBegins == {<<o, o>> : o \in MCOwners} \cup {<<"", o>> : o \in MCOwners} \cup {<<"org", "org-team">>}

MCCommand ==
    a1 :> [endpoint |-> "adminLambda", provider |-> "github", id |-> id1, slug |-> "org"]
    @@ a2 :> [endpoint |-> "adminLambda", provider |-> "github", id |-> id1, slug |-> "org-team"]

\* The first server starts again once; the second one only takes part in the start.
MCMaxRestarts == s1 :> 1 @@ s2 :> 0

\* A new deployment with one run, a running one with both, or a new one whose two
\* servers start at the same time.
MCInit ==
    /\ Init
    /\ server = [r \in Runs |-> s1]
    /\ store[s1] # "exited"
    /\ \/ /\ store[s2] = "exited"
          /\ \/ indexed = {} /\ place[r1] = "token" /\ place[r2] = "failed"
             \/ admin[a1] = "created" /\ place[r1] = "token" /\ place[r2] = "token"
       \/ /\ store[s2] # "exited"
          /\ indexed = {} /\ place[r1] = "failed" /\ place[r2] = "failed"

MCSpec == MCInit /\ [][Next]_vars /\ Fairness

=============================================================================
