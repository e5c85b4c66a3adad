----------------------------- MODULE MCWorkflowRun -----------------------------
(* TLC instances of WorkflowRun.                                           *)
EXTENDS WorkflowRun, TLC

PeerSymmetry == Permutations(Peers)

(* A bound on the exploration: a request that outlives its sender's wait   *)
(* is followed one at a time, while the row is up to date and before the   *)
(* restart; the row misses one write at most, and none after the restart;  *)
(* the first start reads the row (MCWorkflowRun_losses has it otherwise),  *)
(* and a restart that cannot read it passes over a row that has come to    *)
(* the fourth step, which submits what the gate before it collected.       *)
FaultsBeforeRestart ==
    LET late == {p \in Peers : req[<<p, "late">>].pc # "free"}
        behind == /\ row.age = "current"
                  /\ <<row.step, row.completed>> # <<step, completed>>
    IN  /\ Cardinality(late) <= 1
        /\ crashes > 0 \/ behind => late = {}
        /\ up /\ behind => \/ row.step = step
                           \/ row.step = step - 1 /\ completed = {}
        /\ crashes > 0 /\ up => ~behind
        /\ crashes = 0 => known
        /\ row.age = "stale" => ~known /\ row.step = 4
=============================================================================
