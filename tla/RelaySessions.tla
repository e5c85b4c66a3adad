---------------------------- MODULE RelaySessions ----------------------------
(***************************************************************************)
(* The copy of one party's contracts that a wallet relays from a node that *)
(* holds them to one that joins, as this node's registry of open copies    *)
(* sees it: the calls that bring or ask for blocks, which time out, are    *)
(* repeated and overtake each other; the import task they feed through a   *)
(* channel of one block; its teardown, which reconnects the participant;   *)
(* the streams it exports; the reaper; and the hold of a node that leaves  *)
(* the party.  A call of the tenant's key that brings no block an open     *)
(* copy waits for spends the key's budget.                                 *)
(***************************************************************************)
EXTENDS Naturals, Sequences, FiniteSets

CONSTANTS
    Imports,        \* slots for concurrent calls that bring a block
    Exports,        \* slots for concurrent calls that ask for one
    Budget,         \* the calls a key may make in a window
    MaxSeq,         \* bound on the blocks of a copy
    MaxImports,     \* bound on the imports started
    MaxStreams      \* bound on the exports opened

ASSUME BoundsAssumption == {Budget, MaxSeq, MaxImports, MaxStreams} \subseteq Nat

VARIABLES
    held,       \* is the party held?
    lock,       \* who keeps the imports lock across an await: a call, the reaper
    open,       \* the import in the map, or 0
    expected,   \* the block that import takes next
    import,     \* the imports started
    reaping,    \* the import the reaper ends, or 0
    marks,      \* the imports whose teardown runs in a task of its own
    call,       \* the calls that bring blocks
    spent,      \* the budget spent in the key's window
    export,     \* the stream in the map, or 0
    served,     \* the blocks each stream has served
    read        \* the calls that ask for blocks

importing == <<lock, open, expected, import, reaping, marks, call>>
exporting == <<export, served, read>>
vars == <<held, importing, spent, exporting>>

Free == "nobody"
Reaper == "reaper"
ASSUME CallsAssumption == Free \notin Imports /\ Reaper \notin Imports
Idle == [pc |-> "idle", seq |-> 0, end |-> FALSE, gen |-> 0, joins |-> 0, task |-> FALSE]
Asleep == [pc |-> "idle", seq |-> 0, stream |-> 0]

Gens == 1 .. Len(import)
Alive(g) == import[g].phase # "ended"

(* Nothing can feed import g any more: its entry left the map, and so did  *)
(* every call with a sender of its channel.                                *)
Closed(g) == open # g /\ \A r \in Imports : call[r].gen # g

Init ==
    /\ held = FALSE /\ lock = Free
    /\ open = 0 /\ expected = 0 /\ import = <<>> /\ reaping = 0 /\ marks = {}
    /\ call = [r \in Imports |-> Idle]
    /\ spent = 0
    /\ export = 0 /\ served = <<>>
    /\ read = [e \in Exports |-> Asleep]

----------------------------------------------------------------------------
(* tenant_acs_import                                                       *)

Goto(r, pc) == call' = [call EXCEPT ![r].pc = pc]
Answers(r) == call' = [call EXCEPT ![r] = Idle]

(* is_next_block *)
IsNextBlock(seq) == open # 0 /\ expected = seq

(* charge_tenant_key and TenantRateLimiter::check: a refused call spends   *)
(* nothing.                                                                *)
MayCharge == spent < Budget

(* Block 1 is charged, and every block that no open copy waits for; block  *)
(* 1, and a final block that was charged, run in a task of their own.      *)
Post(r, seq, end) ==
    LET charged == seq = 1 \/ ~IsNextBlock(seq) IN
    /\ call[r].pc \in {"idle", "limited"} /\ (seq > 1 => lock = Free)
    /\ charged => MayCharge
    /\ spent' = IF charged THEN spent + 1 ELSE spent
    /\ call' = [call EXCEPT ![r] = [Idle EXCEPT
                    !.pc = "lock", !.seq = seq, !.end = end,
                    !.task = charged /\ (seq = 1 \/ end)]]
    /\ UNCHANGED <<held, lock, open, expected, import, marks, reaping, exporting>>

Limited(r, seq) ==
    /\ call[r].pc = "idle" /\ (seq > 1 => lock = Free)
    /\ seq = 1 \/ ~IsNextBlock(seq)
    /\ ~MayCharge
    /\ call' = [call EXCEPT ![r] = [Idle EXCEPT !.pc = "limited", !.seq = seq]]
    /\ UNCHANGED <<held, lock, open, expected, import, marks, spent, reaping, exporting>>

NewWindow ==
    /\ spent > 0 /\ spent' = 0
    /\ UNCHANGED <<held, importing, exporting>>

----------------------------------------------------------------------------
(* accept_block                                                            *)

(* The first block of a held party is refused; any other takes the lock    *)
(* for as long as an earlier import needs to end.                          *)
FirstBlock(r) ==
    /\ call[r].pc = "lock" /\ call[r].seq = 1 /\ lock = Free
    /\ Len(import) < MaxImports
    /\ \/ held /\ Answers(r) /\ UNCHANGED lock
       \/ ~held /\ Goto(r, "await") /\ lock' = r
    /\ UNCHANGED <<held, open, expected, import, marks, spent, reaping, exporting>>

(* RETIREMENT_WAIT passed. *)
GivesUp(r) ==
    /\ call[r].pc = "await" /\ marks # {}
    /\ Answers(r) /\ lock' = Free
    /\ UNCHANGED <<held, open, expected, import, marks, spent, reaping, exporting>>

(* The import the map still holds is retired before another starts. *)
Replaces(r) ==
    /\ call[r].pc = "await" /\ marks = {} /\ open # 0
    /\ marks' = {open} /\ open' = 0
    /\ Goto(r, "restart")
    /\ UNCHANGED <<held, lock, expected, import, spent, reaping, exporting>>

(* Mutant: the import that was told to stop is not waited for.             *)
ReadyAtOnce(r) ==
    call[r].pc = "restart" \/ (call[r].pc = "await" /\ marks = {} /\ open = 0)

(* await_retirement, and the join of the teardown Replaces has started.    *)
ReadyToStart(r) ==
    /\ call[r].pc \in {"await", "restart"}
    /\ marks = {} /\ open = 0

(* spawn_import *)
Starts(r) ==
    /\ ReadyToStart(r)
    /\ import' = Append(import, [phase |-> "feeding", next |-> 1, chan |-> <<>>, ok |-> FALSE])
    /\ open' = Len(import') /\ expected' = 2
    /\ call' = [call EXCEPT ![r].pc = "send", ![r].gen = Len(import')]
    /\ lock' = Free
    /\ UNCHANGED <<held, marks, spent, reaping, exporting>>

(* Another block: the one the open import waits for, or out of sync.       *)
NextBlock(r) ==
    /\ call[r].pc = "lock" /\ call[r].seq > 1 /\ lock = Free
    /\ \/ /\ IsNextBlock(call[r].seq)
          /\ expected' = expected + 1
          /\ call' = [call EXCEPT ![r].pc = "send", ![r].gen = open]
       \/ ~IsNextBlock(call[r].seq) /\ Answers(r) /\ UNCHANGED expected
    /\ UNCHANGED <<held, lock, open, import, marks, spent, reaping, exporting>>

(* The send waits for room, and fails once the import has ended. *)
Send(r) ==
    LET g == call[r].gen
        block == [seq |-> call[r].seq, end |-> call[r].end]
    IN  /\ call[r].pc = "send"
        /\ \/ /\ Alive(g) /\ import[g].chan = <<>>
              /\ import' = [import EXCEPT ![g].chan = <<block>>]
              /\ IF call[r].end THEN Goto(r, "finish") ELSE Answers(r)
           \/ ~Alive(g) /\ Goto(r, "finish") /\ UNCHANGED import
        /\ UNCHANGED <<held, lock, open, expected, marks, spent, reaping, exporting>>

(* finish takes the import of the map, whichever it is, and joins its      *)
(* teardown.                                                               *)
Finish(r) ==
    /\ call[r].pc = "finish" /\ lock = Free
    /\ \/ open = 0 /\ Answers(r) /\ UNCHANGED <<open, marks>>
       \/ /\ open # 0
          /\ marks' = marks \cup {open} /\ open' = 0
          /\ call' = [call EXCEPT ![r].pc = "join", ![r].joins = open]
    /\ UNCHANGED <<held, lock, expected, import, spent, reaping, exporting>>

Joined(r) ==
    /\ call[r].pc = "join" /\ call[r].joins \notin marks
    /\ Answers(r)
    /\ UNCHANGED <<held, lock, open, expected, import, marks, spent, reaping, exporting>>

(* The wallet stops waiting, and the handler is dropped with its call.     *)
Dropped(r) ==
    /\ call[r].pc \in {"lock", "send", "finish", "join"} /\ ~call[r].task
    /\ Answers(r)
    /\ UNCHANGED <<held, lock, open, expected, import, marks, spent, reaping, exporting>>

----------------------------------------------------------------------------
(* The import's task and its teardown.                                     *)

Task(g, i) ==
    /\ import' = [import EXCEPT ![g] = i]
    /\ UNCHANGED <<held, lock, open, expected, marks, call, spent, reaping, exporting>>

Unwinding(g, ok) == [import[g] EXCEPT !.phase = "unwinding", !.ok = ok]

(* next_block: a block out of turn fails the import, the last one ends it. *)
TakesBlock(g) ==
    /\ import[g].phase = "feeding" /\ import[g].chan # <<>>
    /\ LET b == Head(import[g].chan) IN
       Task(g, [(IF b.seq # import[g].next THEN Unwinding(g, FALSE)
                 ELSE IF b.end THEN Unwinding(g, TRUE)
                 ELSE [import[g] EXCEPT !.next = @ + 1]) EXCEPT !.chan = <<>>])

(* The wallet stopped relaying, or Canton failed the import. *)
NoMoreBlocks(g) ==
    /\ import[g].phase = "feeding" /\ Closed(g) /\ import[g].chan = <<>>
    /\ Task(g, Unwinding(g, FALSE))

Breaks(g) ==
    /\ import[g].phase = "feeding"
    /\ Task(g, Unwinding(g, FALSE))

(* The participant is connected again; the receiver goes with the task.    *)
Ends(g) ==
    /\ import[g].phase = "unwinding"
    /\ Task(g, [import[g] EXCEPT !.phase = "ended", !.chan = <<>>])

Unmarks(g) == g \in marks /\ ~Alive(g)

(* retire returns, and the mark is dropped. *)
Retired(g) ==
    /\ Unmarks(g)
    /\ marks' = marks \ {g}
    /\ UNCHANGED <<held, lock, open, expected, import, call, spent, reaping, exporting>>

(* Mutant: a copy is never taken for idle.                                 *)
ReapsNothing == FALSE /\ UNCHANGED vars

(* reap keeps the lock until the import it took has ended. *)
Reap ==
    /\ lock = Free /\ open # 0
    /\ lock' = Reaper /\ reaping' = open /\ open' = 0
    /\ UNCHANGED <<held, expected, import, marks, call, spent, exporting>>

Reaped ==
    /\ lock = Reaper /\ ~Alive(reaping)
    /\ lock' = Free /\ reaping' = 0
    /\ UNCHANGED <<held, open, expected, import, marks, call, spent, exporting>>

----------------------------------------------------------------------------
(* serve_block                                                             *)

WithStream(s) == {e \in Exports : read[e].stream = s /\ read[e].pc = "reading"}

(* Block 1 throws an open stream away; another block needs one.            *)
Ask(e, seq) ==
    /\ read[e].pc = "idle"
    /\ \/ /\ seq = 1 /\ export' = 0
          /\ read' = [read EXCEPT ![e] = [pc |-> "admit", seq |-> 1, stream |-> 0]]
       \/ /\ seq > 1 /\ export # 0 /\ UNCHANGED export
          /\ read' = [read EXCEPT ![e] = [pc |-> "wait", seq |-> seq, stream |-> export]]
    /\ UNCHANGED <<held, importing, spent, served>>

(* The reservation, under the lock that a hold takes. *)
Admit(e) ==
    /\ read[e].pc = "admit"
    /\ read' = IF held THEN [read EXCEPT ![e] = Asleep] ELSE [read EXCEPT ![e].pc = "opening"]
    /\ UNCHANGED <<held, importing, spent, export, served>>

Registers(e) ==
    /\ read[e].pc = "opening" /\ Len(served) < MaxStreams
    /\ served' = Append(served, 0)
    /\ export' = Len(served')
    /\ read' = [read EXCEPT ![e].pc = "wait", ![e].stream = Len(served')]
    /\ UNCHANGED <<held, importing, spent>>

(* The stream's own lock; a block that is neither the last one nor the     *)
(* next is out of sync.                                                    *)
Reads(e) ==
    LET s == read[e].stream IN
    /\ read[e].pc = "wait" /\ WithStream(s) = {}
    /\ read' = IF read[e].seq \in {served[s], served[s] + 1}
               THEN [read EXCEPT ![e].pc = "reading"]
               ELSE [read EXCEPT ![e] = Asleep]
    /\ UNCHANGED <<held, importing, spent, export, served>>

(* The block is served; the last one removes the party's stream.           *)
Serves(e) ==
    /\ read[e].pc = "reading"
    /\ served' = [served EXCEPT ![read[e].stream] = read[e].seq]
    /\ read' = [read EXCEPT ![e] = Asleep]
    /\ export' \in {export, 0}
    /\ UNCHANGED <<held, importing, spent>>

(* The stream fails, or the wallet stops waiting. *)
ReadEnds(e) ==
    /\ read[e].pc # "idle"
    /\ read' = [read EXCEPT ![e] = Asleep]
    /\ UNCHANGED <<held, importing, spent, export, served>>

ReapStream ==
    /\ export # 0 /\ WithStream(export) = {}
    /\ export' = 0
    /\ UNCHANGED <<held, importing, spent, served, read>>

----------------------------------------------------------------------------
(* hold, and the drop of a PartyHold.                                      *)

(* Mutant: a copy that is torn down does not count as open.                *)
OnlyOpenCopies ==
    open # 0 \/ export # 0 \/ \E e \in Exports : read[e].pc = "opening"

AnySession ==
    \/ open # 0 \/ marks # {}
    \/ export # 0 \/ \E e \in Exports : read[e].pc = "opening"

Hold ==
    /\ lock = Free
    /\ ~AnySession /\ ~held
    /\ held' = TRUE
    /\ UNCHANGED <<importing, spent, exporting>>

Release ==
    /\ held /\ held' = FALSE
    /\ UNCHANGED <<importing, spent, exporting>>

CallStep(r) ==
    \/ FirstBlock(r) \/ GivesUp(r) \/ Replaces(r) \/ Starts(r) \/ NextBlock(r)
    \/ Send(r) \/ Finish(r) \/ Joined(r)

TaskStep(g) == TakesBlock(g) \/ NoMoreBlocks(g) \/ Ends(g) \/ Retired(g)

Next ==
    \/ \E r \in Imports :
        \/ \E seq \in 1 .. MaxSeq : Limited(r, seq) \/ \E end \in BOOLEAN : Post(r, seq, end)
        \/ CallStep(r) \/ Dropped(r)
    \/ \E g \in Gens : TaskStep(g) \/ Breaks(g)
    \/ NewWindow \/ Reap \/ Reaped \/ Hold \/ Release
    \/ \E e \in Exports :
        \/ \E seq \in 1 .. MaxSeq : Ask(e, seq)
        \/ Admit(e) \/ Registers(e) \/ Reads(e) \/ Serves(e) \/ ReadEnds(e)
    \/ ReapStream

Spec == Init /\ [][Next]_vars

(* The tasks and the calls run, the reaper looks again and again, and the  *)
(* imports lock is handed out in the order it was asked for.               *)
FairSpec ==
    /\ Spec
    /\ \A r \in Imports : SF_vars(CallStep(r))
    /\ \A g \in 1 .. MaxImports : WF_vars(g \in Gens /\ TaskStep(g))
    /\ SF_vars(Reap) /\ WF_vars(Reaped)

----------------------------------------------------------------------------
(* An import has reconnected the participant before another disconnects    *)
(* it: no two run, whatever was repeated, dropped, reaped or timed out     *)
(* (accept_block, await_retirement, retire).                               *)
OneImport == \A g, h \in Gens : Alive(g) /\ Alive(h) => g = h

(* The registry keeps what RelaySessions::hold promises: a party is not    *)
(* held while an import task of it lives or an export of it is registered  *)
(* or opens, and none starts while it is held.                             *)
Relaying ==
    \/ \E g \in Gens : Alive(g)
    \/ export # 0 \/ \E e \in Exports : read[e].pc = "opening"
Promise == INSTANCE PartyHold WITH relaying <- Relaying
HoldSpec == Promise!HoldSpec

(* A wallet that vanishes does not leave the participant off the           *)
(* synchronizer: every import ends (reap_forever, retire).                 *)
ImportsEnd == \A g \in 1 .. MaxImports : (g \in Gens /\ Alive(g)) ~> (g \in Gens /\ ~Alive(g))

(* The call that brings the final block waits for the import it fed, and   *)
(* so reports that this one completed (finish).                            *)
FinishesOwnImport ==
    \A r \in Imports :
        call[r].pc = "join" /\ import[call[r].gen].ok => call[r].joins = call[r].gen

(* No stream of the party is read while it is held (hold, serve_block).    *)
NoExportWhileHeld == held => \A e \in Exports : read[e].pc # "reading"

(* A block whose first call still waits may be sent again without being    *)
(* refused for the budget (tenant_acs_import).                             *)
RetryNotLimited ==
    [][\A r, q \in Imports :
        /\ call'[r].pc = "limited" /\ call[r].pc # "limited"
        /\ call[q].pc = "send" /\ call[q].seq > 1
        => call'[r].seq # call[q].seq]_vars
=============================================================================
