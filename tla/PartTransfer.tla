---------------------------- MODULE PartTransfer ----------------------------
(***************************************************************************)
(* What Uploader.Upload and Downloader.Download promise the commands that  *)
(* call them, with the goroutines left out: parts move or break in any     *)
(* order, the call succeeds only when all of them have moved, fails only   *)
(* when one is broken, and does return.  Parts may still move after a      *)
(* failure, never after a success.                                         *)
(***************************************************************************)
CONSTANT Parts

VARIABLES
    moved,    \* parts that have been transferred
    broken,   \* parts that were given up
    result    \* of the call: "running", "ok" or "err"

vars == <<moved, broken, result>>

Init ==
    /\ moved = {}
    /\ broken = {}
    /\ result = "running"

Move(p) ==
    /\ result # "ok"
    /\ p \notin moved \cup broken
    /\ moved' = moved \cup {p}
    /\ UNCHANGED <<broken, result>>

Break(p) ==
    /\ result # "ok"
    /\ p \notin moved \cup broken
    /\ broken' = broken \cup {p}
    /\ UNCHANGED <<moved, result>>

Succeed ==
    /\ result = "running"
    /\ moved = Parts
    /\ result' = "ok"
    /\ UNCHANGED <<moved, broken>>

Fail ==
    /\ result = "running"
    /\ broken # {}
    /\ result' = "err"
    /\ UNCHANGED <<moved, broken>>

Transfer == \E p \in Parts : Move(p) \/ Break(p)
Return == Succeed \/ Fail
Next == Transfer \/ Return

Safety == Init /\ [][Next]_vars

Spec == Safety /\ WF_vars(Transfer) /\ WF_vars(Return)

=============================================================================
