----------------------------- MODULE CacheIndex -----------------------------
(***************************************************************************)
(* internal/index: the cache records of the DynamoDB table, as a function  *)
(* from record ids to records or NoRecord.  A record written by            *)
(* CreateEntry and one written by UpdateEntry live side by side in the     *)
(* partition "cache": the first under the upload id, the second under the  *)
(* cache id.                                                               *)
(*                                                                         *)
(* A record keeps the fields the service's decisions depend on: the key    *)
(* (which stands for owner, provider, platform and key, the parts of the   *)
(* cache id), the branch, the checksum of the archive, the multipart       *)
(* upload id, and the time in the sort key `created'.                      *)
(***************************************************************************)
EXTENDS Integers

CONSTANT NoRecord   \* an id under which nothing is stored

\* Store.ExistsCache: a point read by id.
ExistsCache(index, id) == index[id] # NoRecord

\* Store.PutCache: a write without a create constraint.
PutCache(index, id, created, record) ==
    [index EXCEPT ![id] = [record EXCEPT !.created = created]]

\* Store.ExistsCacheByFallbackBranch: the query for the prefix of a branch, in
\* descending order of `created', limited to one.  Records written within the
\* same second have equal sort keys; the query may return any of those.
FallbackCandidates(index, branch) ==
    LET onBranch == {id \in DOMAIN index :
                        index[id] # NoRecord /\ index[id].branch = branch}
    IN  {index[id] : id \in
            {i \in onBranch : \A j \in onBranch : index[j].created <= index[i].created}}

=============================================================================
