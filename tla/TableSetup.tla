----------------------------- MODULE TableSetup -----------------------------
(***************************************************************************)
(* MustNewStore at the start of a server: one that is started with the     *)
(* flag to create the table does so before it listens, several may do so   *)
(* at once, and one that fails exits.                                      *)
(***************************************************************************)
CONSTANTS
    Servers,
    Creators   \* rpc servers started with CreateCacheIndexTable

VARIABLES
    table,        \* "absent", "creating" or "active"
    ttl,          \* whether expired records of the table are removed
    store,        \* each server's place in MustNewStore; "open" when it is done
    orphaned      \* history: the server that made the table was not told, or did not
                  \* get to the end

tableVars == <<table, ttl, store, orphaned>>

Start(s) == IF s \in Creators THEN "create" ELSE "open"

TableInit ==
    /\ table \in {"absent", "active"}
    /\ ttl = (table = "active")
    /\ store \in [Servers -> {"create", "open", "exited"}]
    /\ \A s \in Servers : store[s] \in {Start(s), "exited"}   \* some are not started
    /\ orphaned = FALSE

StoreGo(s, p) == store' = [store EXCEPT ![s] = p]

\* CreateTable: a table that is there, in whatever state, is left to its creator.  When
\* DynamoDB's answer is lost the SDK makes the call again, which finds the table that
\* the first one has made and leaves it alone as well.
CreateTable(s) ==
    /\ store[s] = "create"
    /\ \/ /\ table = "absent"
          /\ table' = "creating"
          /\ \/ StoreGo(s, "wait") /\ UNCHANGED orphaned
             \/ orphaned' = TRUE /\ UNCHANGED store
       \/ /\ table # "absent"
          /\ StoreGo(s, "open")
          /\ UNCHANGED <<table, orphaned>>
    /\ UNCHANGED ttl

\* A creator whose wait ends early goes on to serve.
Wait_IgnoresTimeout(s) ==
    /\ store[s] = "wait"
    /\ StoreGo(s, IF table = "active" THEN "ttl" ELSE "open")
    /\ UNCHANGED <<table, ttl, orphaned>>

\* The waiter sees the table become active.
Wait(s) ==
    /\ store[s] = "wait"
    /\ table = "active"
    /\ StoreGo(s, "ttl")
    /\ UNCHANGED <<table, ttl, orphaned>>

\* The answer may be lost, and the call is made again.
UpdateTimeToLive(s) ==
    /\ store[s] = "ttl"
    /\ ttl' = TRUE
    /\ \E p \in {"open", "ttl"} : StoreGo(s, p)
    /\ UNCHANGED <<table, orphaned>>

\* An error of CreateTable or UpdateTimeToLive, of which an earlier attempt may have had
\* its effect, or ten seconds of waiting: log.Fatal.
SetupFails(s) ==
    /\ store[s] \in {"create", "wait", "ttl"}
    /\ StoreGo(s, "exited")
    /\ orphaned' = (orphaned \/ store[s] \in {"wait", "ttl"})
    /\ UNCHANGED <<table, ttl>>

\* DynamoDB has made the table.
TableActive ==
    /\ table = "creating"
    /\ table' = "active"
    /\ UNCHANGED <<ttl, store, orphaned>>

\* The server starts again, whether it exited or was stopped.
StartAgain(s) ==
    /\ StoreGo(s, Start(s))
    /\ orphaned' = (orphaned \/ store[s] \in {"wait", "ttl"})
    /\ UNCHANGED <<table, ttl>>

-----------------------------------------------------------------------------
(* Properties *)

TableTypeOK ==
    /\ table \in {"absent", "creating", "active"}
    /\ ttl \in BOOLEAN
    /\ orphaned \in BOOLEAN
    /\ store \in [Servers -> {"create", "wait", "ttl", "open", "exited"}]

\* The server takes itself for the one that made the table.
SettingUp(s) == store[s] \in {"wait", "ttl"}

\* Of the servers that start at once one at most sets the table up, and none before it
\* is there.  Expired records are removed from the table, or will be when that server
\* is done, unless the one that made the table stopped on the way or was never told
\* that it had: nobody makes up for that later.
ExpiryOn ==
    /\ \A s, t \in Servers : SettingUp(s) /\ SettingUp(t) => s = t
    /\ \A s \in Servers : SettingUp(s) => table # "absent"
    /\ table # "absent" /\ ~orphaned => ttl \/ \E s \in Servers : SettingUp(s)

=============================================================================
