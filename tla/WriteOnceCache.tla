--------------------------- MODULE WriteOnceCache ---------------------------
(***************************************************************************)
(* What the cache promises its clients, with the protocol left out: under  *)
(* each key one archive is stored and then one entry published for it,     *)
(* which nobody changes; both are removed in time, in either order, and    *)
(* only then may another archive take their place.  About a key for which  *)
(* two savers have raced it promises nothing.                              *)
(***************************************************************************)
CONSTANTS
    Keys,
    Archives,
    None,   \* no entry is published, or nothing was ever stored
    Gone    \* what was stored has been removed

VARIABLES
    entry,  \* the archive that the entry published under a key describes
    blob,   \* the archive stored under a key
    raced   \* keys about which nothing is promised

vars == <<entry, blob, raced>>

Init ==
    /\ entry = [k \in Keys |-> None]
    /\ blob = [k \in Keys |-> None]
    /\ raced = {}

\* An archive takes the place of whatever was stored there, before there is an entry.
Write(k, a) ==
    /\ k \notin raced
    /\ entry[k] = None
    /\ blob' = [blob EXCEPT ![k] = a]
    /\ UNCHANGED <<entry, raced>>

\* The entry of the archive that is stored under the key, or was.
Publish(k, a) ==
    /\ k \notin raced
    /\ entry[k] = None
    /\ blob[k] \in {a, Gone}
    /\ entry' = [entry EXCEPT ![k] = a]
    /\ UNCHANGED <<blob, raced>>

Expire(k) ==
    /\ entry[k] # None
    /\ entry' = [entry EXCEPT ![k] = None]
    /\ UNCHANGED <<blob, raced>>

Reap(k) ==
    /\ blob[k] \in Archives
    /\ blob' = [blob EXCEPT ![k] = Gone]
    /\ UNCHANGED <<entry, raced>>

\* Two savers that found no entry for the key meet: the promise is void from here on.
Race(k) ==
    /\ raced' = raced \cup {k}
    /\ entry' = [entry EXCEPT ![k] = None]
    /\ blob' = [blob EXCEPT ![k] = None]

Next ==
    \E k \in Keys :
        \/ \E a \in Archives : Write(k, a) \/ Publish(k, a)
        \/ Expire(k)
        \/ Reap(k)
        \/ Race(k)

Spec == Init /\ [][Next]_vars

=============================================================================
