------------------------------- MODULE Unhost -------------------------------
(***************************************************************************)
(* A node that leaves an external party: the attempts that callers start,  *)
(* concurrently and again, each with its row in external_party_unhost_     *)
(* audit; the hold that lets one of them run and keeps copies of the       *)
(* party's contracts away; the cleanup of the node's Splice contracts for  *)
(* the party; the write that removes the node, whose answer may be lost    *)
(* and which takes effect later or never; and the watcher that waits for   *)
(* it.  The process may stop anywhere; its rows and the write survive it.  *)
(***************************************************************************)
EXTENDS PartyHold, Naturals, Sequences, FiniteSets

CONSTANTS
    Contracts,      \* the Splice contracts the node may hold for the party
    MaxAttempts,    \* bound on the attempts
    MaxChanges,     \* bound on the writes to the party's mapping
    MaxCrashes      \* bound on the restarts

ASSUME AttemptBounds == {MaxAttempts, MaxChanges, MaxCrashes} \subseteq Nat

VARIABLES
    head,       \* the mapping: its serial, whether it lists this node, and
                \* whether leave_mapping would let it leave
    writes,     \* removals of this node that Canton may still enact
    rows,       \* the audit rows, in the order of their ids
    task,       \* the attempts' tasks, and their watchers after a 202
    contracts,  \* the live Splice contracts
    missed,     \* history: contracts made since the scan of the last cleanup
    cleanedAt,  \* history: the serial that cleanup read
    goneAt,     \* history: the serials that did not list this node
    exposed,    \* history: was the hold given up before its write was settled?
    crashes     \* restarts so far

history == <<missed, cleanedAt, goneAt, exposed>>
unhostVars == <<held, relaying, head, writes, rows, task, contracts, history, crashes>>

Ids == 1 .. Len(rows)
Ended == [pc |-> "ended", base |-> 0, found |-> {}, since |-> {}]

UnhostInit ==
    /\ HoldInit
    /\ head \in [serial : {1}, hosted : {TRUE}, leavable : BOOLEAN]
    /\ rows = <<>> /\ task = <<>> /\ writes = {}
    /\ contracts = Contracts
    /\ missed = Contracts /\ cleanedAt = 0 /\ goneAt = {} /\ exposed = FALSE
    /\ crashes = 0

----------------------------------------------------------------------------
(* The synchronizer, the other hosts, and the node's validator.            *)

(* A new head settles the writes its serial passes. *)
Moves(hosted, leavable) ==
    /\ head.serial < MaxChanges
    /\ head' = [serial |-> head.serial + 1, hosted |-> hosted, leavable |-> leavable]
    /\ writes' = {w \in writes : w.serial > head.serial + 1}
    /\ goneAt' = IF hosted THEN goneAt ELSE goneAt \cup {head.serial + 1}
    /\ exposed' = (exposed /\ writes' # {})
    /\ UNCHANGED <<held, relaying, rows, task, contracts, missed, cleanedAt, crashes>>

(* This node's removal takes effect. *)
TakesEffect(w) ==
    /\ w.serial = head.serial + 1
    /\ Moves(FALSE, FALSE)

(* Another host's write, the party's, or the one that hosts it here again. *)
OtherWrite == \E leavable \in BOOLEAN : Moves(TRUE, leavable)

MakeContract(c) ==
    /\ head.hosted /\ c \notin contracts
    /\ contracts' = contracts \cup {c}
    /\ missed' = missed \cup {c}
    /\ task' = [i \in Ids |-> [task[i] EXCEPT !.since = @ \cup {c}]]
    /\ UNCHANGED <<held, relaying, head, writes, rows, cleanedAt, goneAt, exposed, crashes>>

Expires(c) ==
    /\ c \in contracts
    /\ contracts' = contracts \ {c}
    /\ UNCHANGED <<held, relaying, head, writes, rows, task, history, crashes>>

Relay ==
    /\ (OpenRelay /\ head.hosted) \/ CloseRelay
    /\ UNCHANGED <<head, writes, rows, task, contracts, history, crashes>>

----------------------------------------------------------------------------
(* unhost_audit                                                            *)

NewRow(cleanup) ==
    [status |-> "in_progress", step |-> "preconditions", cleanup |-> cleanup,
     before |-> 0, after |-> 0]

(* finish, whose own failure is only logged. *)
Finish(i, status, after) ==
    rows' \in {rows, [rows EXCEPT ![i].status = status,
                                  ![i].after = IF after = 0 THEN @ ELSE after]}

(* latest_with_work *)
WithWork == {j \in Ids : rows[j].step # "preconditions"}
IsLatest(j) == j \in WithWork /\ \A k \in WithWork : k <= j

(* Mutant: any attempt that reached the topology step counts as cleaned.   *)
ResumesAnyTopologyStep ==
    \E j \in Ids :
        /\ IsLatest(j)
        /\ rows[j].status # "completed" /\ rows[j].step = "topology"
        /\ rows[j].before = head.serial

(* resumes *)
Resumes ==
    \E j \in Ids :
        /\ IsLatest(j)
        /\ rows[j].cleanup
        /\ rows[j].status # "completed" /\ rows[j].step = "topology"
        /\ rows[j].before = head.serial

(* Mutant: a head that passed the serial of a 202 row counts as its        *)
(* departure.                                                              *)
SettledBySerial(row) ==
    IF row.status # "in_progress" THEN row
    ELSE IF row.step = "topology" /\ row.after # 0 /\ row.after <= head.serial
         THEN [row EXCEPT !.status = "completed", !.step = "done"]
         ELSE [row EXCEPT !.status = "failed"]

(* close_open_attempts: a row that answered 202 completed if its write is  *)
(* at or before the head that no longer lists the node; every other open   *)
(* one was interrupted.                                                    *)
Settled(row) ==
    IF row.status # "in_progress" THEN row
    ELSE IF /\ ~head.hosted /\ row.step = "topology"
            /\ row.after # 0 /\ row.after <= head.serial
         THEN [row EXCEPT !.status = "completed", !.step = "done"]
         ELSE [row EXCEPT !.status = "failed"]

(* What the read of attempt i leaves in the rows. *)
SettledBy(i) ==
    [j \in Ids |-> IF j = i THEN [rows[i] EXCEPT !.before = head.serial] ELSE Settled(rows[j])]

(* set_step Done and finish, either of which may fail. *)
Completions(r, i) ==
    {r, [r EXCEPT ![i].step = "done"],
     [r EXCEPT ![i].status = "completed", ![i].after = head.serial],
     [r EXCEPT ![i].step = "done", ![i].status = "completed", ![i].after = head.serial]}

----------------------------------------------------------------------------
(* unhost                                                                  *)

Goto(i, pc) == task' = [task EXCEPT ![i].pc = pc]
Ends(i) == task' = [task EXCEPT ![i] = Ended]
world == <<head, writes, contracts, history, crashes>>

(* insert_attempt; the caller pinned a serial it read before.              *)
Insert(cleanup, base) ==
    /\ Len(rows) < MaxAttempts
    /\ base \in {head.serial, head.serial - 1} \ {0}
    /\ rows' = Append(rows, NewRow(cleanup))
    /\ task' = Append(task, [Ended EXCEPT !.pc = "inserted", !.base = base])
    /\ UNCHANGED <<held, relaying, world>>

(* The request names another participant, the party is held, or a copy of  *)
(* its contracts runs.                                                     *)
Refused(i) ==
    /\ task[i].pc = "inserted"
    /\ Finish(i, "failed", 0)
    /\ Ends(i)
    /\ UNCHANGED <<held, relaying, world>>

Admitted(i) ==
    /\ task[i].pc = "inserted"
    /\ TakeHold
    /\ Goto(i, "read")
    /\ UNCHANGED <<rows, world>>

(* Any refusal or failure of run: the row is closed and the hold dropped.  *)
Fails(i) ==
    /\ \/ task[i].pc \in {"read", "scan", "archive", "leave", "stop"}
       \/ task[i].pc = "unknown" /\ head.hosted /\ head.serial # task[i].base
    /\ Finish(i, "failed", 0)
    /\ Ends(i)
    /\ DropHold
    /\ UNCHANGED world

(* The read of run that still lists the node, the rows it settles, and     *)
(* where the attempt goes on; cleanup_party may refuse it, and a write of  *)
(* its row may fail.                                                       *)
ReadsHosted(i) ==
    LET cleans == rows[i].cleanup /\ ~Resumes
        goes == head.serial = task[i].base /\ head.leavable
    IN  /\ task[i].pc = "read" /\ head.hosted
        /\ \/ rows' = SettledBy(i) /\ Goto(i, "stop")
           \/ /\ goes
              /\ rows' = [SettledBy(i) EXCEPT ![i].step =
                              IF cleans THEN "splice_cleanup" ELSE "topology"]
              /\ Goto(i, IF cleans THEN "scan" ELSE "leave")
        /\ UNCHANGED <<held, relaying, world>>

(* splice_cleanup: find_splice_contracts, then one contract at a time.     *)
Scan(i) ==
    /\ task[i].pc = "scan"
    /\ task' = [task EXCEPT ![i].pc = "archive", ![i].found = contracts, ![i].since = {}]
    /\ UNCHANGED <<held, relaying, rows, world>>

(* A contract that expired since the scan counts as done. *)
Archive(i, c) ==
    /\ task[i].pc = "archive" /\ c \in task[i].found
    /\ contracts' = contracts \ {c}
    /\ task' = [task EXCEPT ![i].found = @ \ {c}]
    /\ UNCHANGED <<held, relaying, head, writes, rows, history, crashes>>

Cleaned(i) ==
    /\ task[i].pc = "archive" /\ task[i].found = {}
    /\ rows' = [rows EXCEPT ![i].step = "topology"]
    /\ missed' = task[i].since /\ cleanedAt' = rows[i].before
    /\ Goto(i, "leave")
    /\ UNCHANGED <<held, relaying, head, writes, contracts, goneAt, exposed, crashes>>

(* leave_topology: Canton takes the write, refuses it, or its answer is    *)
(* lost and it may have been taken.                                        *)
LeaveTopology(i) ==
    LET w == [serial |-> task[i].base + 1, cleanup |-> rows[i].cleanup] IN
    /\ task[i].pc = "leave"
    /\ head.hosted /\ head.serial = task[i].base /\ head.leavable
    /\ \/ writes' = writes \cup {w} /\ Goto(i, "poll")
       \/ writes' \in {writes, writes \cup {w}} /\ Goto(i, "unknown")
       \/ writes' = writes /\ Goto(i, "stop")
    /\ UNCHANGED <<held, relaying, head, rows, contracts, history, crashes>>

(* Mutant: a call that answers 202 gives its hold up.                      *)
PendingReleases(i) ==
    /\ task[i].pc \in {"poll", "unknown"}
    /\ Finish(i, "in_progress", task[i].base + 1)
    /\ Ends(i)
    /\ DropHold
    /\ UNCHANGED world

(* The call answers 202: the polls, or the read after a lost answer, still *)
(* find the node, and the hold moves to watch_departure.                   *)
Pending(i) ==
    /\ task[i].pc \in {"poll", "unknown"}
    /\ Finish(i, "in_progress", task[i].base + 1)
    /\ Goto(i, "watch")
    /\ UNCHANGED <<held, relaying, world>>

(* A read that no longer lists the node, by run, leave_topology or the     *)
(* watcher: the attempt completed.                                         *)
Completes(i) ==
    /\ ~head.hosted
    /\ task[i].pc \in {"read", "leave", "poll", "unknown", "watch"}
    /\ rows' \in Completions(IF task[i].pc = "read" THEN SettledBy(i) ELSE rows, i)
    /\ Ends(i)
    /\ DropHold
    /\ UNCHANGED world

(* Mutant: the watcher polls until the node is gone.                       *)
WatchesForEver(i) == FALSE /\ UNCHANGED unhostVars

(* WATCH_POLLS reads found the node: the row stays open.                   *)
WatchGivesUp(i) ==
    /\ task[i].pc = "watch"
    /\ exposed' = (writes # {})
    /\ Ends(i)
    /\ DropHold
    /\ UNCHANGED <<head, writes, rows, contracts, missed, cleanedAt, goneAt, crashes>>

Crash ==
    /\ crashes < MaxCrashes
    /\ crashes' = crashes + 1
    /\ ProcessEnds
    /\ task' = [i \in Ids |-> Ended]
    /\ exposed' = (writes # {})
    /\ UNCHANGED <<head, writes, rows, contracts, missed, cleanedAt, goneAt>>

TaskStep(i) ==
    \/ Refused(i) \/ Admitted(i) \/ Fails(i) \/ ReadsHosted(i) \/ Scan(i)
    \/ \E c \in Contracts : Archive(i, c)
    \/ Cleaned(i) \/ LeaveTopology(i) \/ Pending(i) \/ Completes(i) \/ WatchGivesUp(i)

UnhostNext ==
    \/ \E w \in writes : TakesEffect(w)
    \/ OtherWrite \/ Relay \/ Crash
    \/ \E c \in Contracts : MakeContract(c) \/ Expires(c)
    \/ \E cleanup \in BOOLEAN, base \in 1 .. MaxChanges : Insert(cleanup, base)
    \/ \E i \in Ids : TaskStep(i)

UnhostSpec == UnhostInit /\ [][UnhostNext]_unhostVars

(* The tasks run: every call of theirs to Canton or the database returns.  *)
FairSpec == UnhostSpec /\ \A i \in 1 .. MaxAttempts : WF_unhostVars(i \in Ids /\ TaskStep(i))

----------------------------------------------------------------------------
(* A row says completed only if the mapping dropped the node at or after   *)
(* the serial the attempt read: not because a write was accepted, and not  *)
(* for an earlier departure of a node that was hosted again (finish,       *)
(* close_open_attempts, watch_departure).                                  *)
CompletedMeansGone ==
    \A i \in Ids : rows[i].status = "completed" => \E s \in goneAt : s >= rows[i].before

(* The node asks to leave with a cleanup only after one has archived every *)
(* Splice contract it found, at the serial it leaves from: what is left    *)
(* was made after that scan, also when the attempt resumed an earlier one  *)
(* (resumes, splice_cleanup before the topology write).                    *)
CleanedBeforeLeaving ==
    \A w \in writes : w.cleanup => contracts \subseteq missed /\ cleanedAt >= w.serial - 1

(* While a removal may still take effect the party is held and no copy of  *)
(* its contracts runs, unless the watcher gave up or the process stopped   *)
(* (the hold's move to watch_departure).                                   *)
HeldUntilGone == writes # {} /\ ~exposed => held /\ ~relaying

(* No attempt keeps the party held for ever, whatever becomes of its write *)
(* (WATCH_POLLS).                                                          *)
HoldReleased == held ~> ~held

(* close_open_attempts closes no row of an attempt that runs.              *)
OnlyIdleRowsClosed ==
    \A i \in Ids : task[i].pc # "ended" => rows[i].status = "in_progress"
=============================================================================
