------------------------- MODULE MCExtractFollowUp -------------------------
(* Instances of RefreshProgress composed with ExtractFollowUp, for TLC. *)
EXTENDS ExtractFollowUp, TLC

CONSTANTS q1, q2, q3, p1

\* Two refreshes of the whole session.
WholeTwice == q1 :> "providers" @@ q2 :> "providers"

\* A provider alone twice, and the whole session.
SingleTwice == q1 :> p1 @@ q2 :> p1 @@ q3 :> "providers"

\* The refreshes go on (RefreshProgress.Fairness), whatever the sender thread does.
FairRefreshes == FSpec /\ Fairness
=============================================================================
