------------------------ MODULE CoverageRunLifecycle ------------------------
(***************************************************************************)
(* What a coverage run promises to whoever reads its row: it is queued,    *)
(* then running, then ended once and for all; result rows are only added;  *)
(* it is `completed` only with the row of every pair.  One relabelling is  *)
(* left: a run web cancelled while its executor, cut off from the database *)
(* past its heartbeat, was still resolving its targets, may end `failed`.  *)
(***************************************************************************)
CONSTANT Pairs
VARIABLES status, rows

Ended == {"completed", "failed", "cancelled"}

Init == status = "pending" /\ rows = {}

Begin == status = "pending" /\ status' = "running" /\ UNCHANGED rows

AddRow ==
    /\ status # "deleted"
    /\ \E p \in Pairs \ rows : rows' = rows \cup {p}
    /\ UNCHANGED status

CancelQueued == status = "pending" /\ status' = "cancelled" /\ UNCHANGED rows

End ==
    /\ status = "running" /\ status' \in Ended
    /\ status' = "completed" => rows = Pairs
    /\ UNCHANGED rows

Relabel == status = "cancelled" /\ status' = "failed" /\ UNCHANGED rows

Delete ==
    /\ status \in Ended \cup {"pending"}
    /\ status' = "deleted" /\ rows' = {}

Next == Begin \/ AddRow \/ CancelQueued \/ End \/ Relabel \/ Delete

Spec == Init /\ [][Next]_<<status, rows>>
=============================================================================
