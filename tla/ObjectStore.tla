---------------------------- MODULE ObjectStore ----------------------------
(***************************************************************************)
(* The S3 bucket, as the code under internal/server and pkg uses it: the   *)
(* bucket is a function from keys to objects, and a multipart upload is a  *)
(* record of its parts.  A PutObject and a CompleteMultipartUpload replace *)
(* the object under a key atomically; a lifecycle rule of the deployment   *)
(* removes objects some days after they were written.                      *)
(***************************************************************************)
EXTENDS Integers, Sequences

CONSTANTS
    NoObject,  \* nothing was ever stored under the key
    Reaped     \* the lifecycle rule removed what was stored

\* HeadObject and GetObject find an object under the key.
HasObject(bucket, key) == bucket[key] \notin {NoObject, Reaped}

\* S3 completes an upload that is open when the list of parts is not empty, names
\* parts it holds, and is in ascending order.  It does not ask for every part.
AcceptsComplete(upload, list) ==
    /\ upload.open
    /\ list # <<>>
    /\ \A i \in DOMAIN list : list[i] \in upload.parts
    /\ \A i, j \in DOMAIN list : i < j => list[i] < list[j]

\* The object an accepted list makes.
Assembled(archive, list) == [archive |-> archive, parts |-> {list[i] : i \in DOMAIN list}]

=============================================================================
