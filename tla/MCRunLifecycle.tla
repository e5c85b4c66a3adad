--------------------------- MODULE MCRunLifecycle ---------------------------
(* The TLC instance of RunLifecycle.                                       *)
EXTENDS RunLifecycle

Dismissers == {p \in Peers : \E r \in Runs : peer[p][r].dismissed}

(* The exceptional events come two at a time: two retries, or one of them  *)
(* with a fault or with a run dismissed on a peer.                         *)
TwoEvents == bounds.retries + bounds.troubles + Cardinality(Dismissers) <= 2
=============================================================================
