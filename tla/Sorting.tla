------------------------------ MODULE Sorting ------------------------------
(***************************************************************************)
(* sort.Slice, as the server uses it on etags, and slices.SortFunc, as the *)
(* client uses it on downloaded files: some order of the elements in which *)
(* their keys ascend.  Elements with equal keys may end up either way, as  *)
(* in both libraries.                                                      *)
(***************************************************************************)
EXTENDS Integers, Functions

Ascending(key, order) ==
    \A i, j \in DOMAIN key : i < j => key[order[i]] <= key[order[j]]

\* s sorted by the keys of its elements, where key[i] is that of s[i].
SortBy(s, key) ==
    LET order == CHOOSE p \in Bijection(DOMAIN s, DOMAIN s) : Ascending(key, p)
    IN  [i \in DOMAIN s |-> s[order[i]]]

=============================================================================
