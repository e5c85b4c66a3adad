----------------------------- MODULE RunOutcome -----------------------------
(***************************************************************************)
(* What a node promises about the workflow runs it coordinates, seen from  *)
(* outside: a run is recorded once and ends at most once per attempt, only *)
(* a run that was found failed is tried again, and a run is driven by at   *)
(* most one task, which is started for a run in progress or by a retry.    *)
(* A retry is no compare-and-set: between finding its run failed and being *)
(* done with it, it may undo what another retry or a cancel did meanwhile. *)
(***************************************************************************)
EXTENDS Naturals

CONSTANT Runs

VARIABLES
    status,   \* the recorded outcome of each run
    drivers,  \* how many tasks drive each run
    retrying  \* the runs a retry has in hand

Outcomes == {"completed", "failed", "cancelled"}

Init ==
    /\ status = [r \in Runs |-> "none"]
    /\ drivers = [r \in Runs |-> 0]
    /\ retrying = {}

Begin(r) ==
    /\ status[r] = "none"
    /\ status' = [status EXCEPT ![r] = "inprogress"]
    /\ UNCHANGED <<drivers, retrying>>

End(r, o) ==
    /\ status[r] = "inprogress"
    /\ status' = [status EXCEPT ![r] = o]
    /\ UNCHANGED <<drivers, retrying>>

(* A retry takes a failed run in hand, ...                                 *)
Ask(r) ==
    /\ status[r] = "failed"
    /\ retrying' = retrying \cup {r}
    /\ UNCHANGED <<status, drivers>>

(* ... sets it in progress, whatever it has become, ...                    *)
Retry(r) ==
    /\ r \in retrying
    /\ status' = [status EXCEPT ![r] = "inprogress"]
    /\ UNCHANGED <<drivers, retrying>>

(* ... and is done with it.                                                *)
Done(r) ==
    /\ retrying' = retrying \ {r}
    /\ UNCHANGED <<status, drivers>>

(* The task of a start or a restart is for a run in progress; that of a    *)
(* retry for a run that may have ended again since the retry looked.       *)
Drive(r) ==
    /\ status[r] = "inprogress" \/ r \in retrying
    /\ drivers[r] = 0
    /\ drivers' = [drivers EXCEPT ![r] = 1]
    /\ UNCHANGED <<status, retrying>>

(* A task ends with or after its run, or is stopped.                       *)
Leave(r) ==
    /\ drivers' = [drivers EXCEPT ![r] = 0]
    /\ UNCHANGED <<status, retrying>>

(* The process dies, and with it every task and every retry.               *)
Die ==
    /\ drivers' = [r \in Runs |-> 0]
    /\ retrying' = {}
    /\ UNCHANGED status

(* A restart drives again every run that was in progress.                  *)
Resume ==
    /\ \A r \in Runs : drivers[r] = 0
    /\ drivers' = [r \in Runs |-> IF status[r] = "inprogress" THEN 1 ELSE 0]
    /\ UNCHANGED <<status, retrying>>

Next ==
    \/ \E r \in Runs :
          \/ Begin(r) \/ Ask(r) \/ Retry(r) \/ Done(r) \/ Drive(r) \/ Leave(r)
          \/ \E o \in Outcomes : End(r, o)
    \/ Die \/ Resume

Spec == Init /\ [][Next]_<<status, drivers, retrying>>
=============================================================================
