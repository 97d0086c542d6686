---- MODULE MCTableVisits ----
(* Small instances of TableVisits for TLC. *)
EXTENDS TableVisits, TLC

\* Scans are told apart by the order of their inserts alone, requests not at all.
Symmetric == Permutations(Scans) \cup Permutations(Requests)

\* Requests, the till and the sweep meet two scans; the race of three is followed
\* while its visits are new and nobody asks about them.
ThirdScanUndisturbed ==
    \/ \E s \in Scans : at[s] = "idle"
    \/ /\ \A r \in Requests : req[r] = Idle
       /\ \A v \in Scans : visit[v] # "none" => v \in fresh /\ visit[v] \in {"open", "deleted"}
       /\ \A s \in Scans : session[s] # "expired"

=============================================================================
