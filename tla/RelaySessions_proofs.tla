------------------------- MODULE RelaySessions_proofs -------------------------
(* Proofs, for any number of calls, blocks, imports and streams and every  *)
(* budget, that no two imports of a party run at once and that the         *)
(* registry keeps the promise of a hold.                                   *)
EXTENDS RelaySessions, TLAPS

Block == [seq : Nat, end : BOOLEAN]
Import ==
  [phase : {"feeding", "unwinding", "ended"}, next : Nat, chan : Seq(Block), ok : BOOLEAN]
CallState ==
  [pc : {"idle", "limited", "lock", "await", "restart", "send", "finish", "join"},
   seq : Nat, end : BOOLEAN, gen : Nat, joins : Nat, task : BOOLEAN]
ReadState ==
  [pc : {"idle", "admit", "opening", "wait", "reading"}, seq : Nat, stream : Nat]

ImportTypes ==
  /\ lock \in Imports \cup {Free, Reaper}
  /\ open \in Nat /\ expected \in Nat /\ reaping \in Nat
  /\ import \in Seq(Import)
  /\ marks \subseteq Nat
  /\ call \in [Imports -> CallState]

ExportTypes ==
  /\ export \in Nat /\ served \in Seq(Nat)
  /\ read \in [Exports -> ReadState]

(* An import that runs is in the map, is torn down in a task of its own,   *)
(* or is waited for by the reaper, who has the lock.                       *)
Owned ==
  \A g \in Gens : Alive(g) => g = open \/ g \in marks \/ (lock = Reaper /\ g = reaping)

(* A call that waits for an earlier import has the lock, and a party whose *)
(* lock a call has is not held.                                            *)
LockKept ==
  /\ \A r \in Imports : call[r].pc \in {"await", "restart"} => lock = r
  /\ held => lock \notin Imports

ImportInv == held \in BOOLEAN /\ ImportTypes /\ Owned /\ LockKept /\ OneImport

----------------------------------------------------------------------------
(* The calls that bring blocks, the import's task and the reaper.          *)

(* What a step does to the state of one call.                              *)
LEMMA CallSet ==
  ASSUME call \in [Imports -> CallState], NEW r \in Imports, NEW c \in CallState,
         call' = [call EXCEPT ![r] = c]
  PROVE  /\ call' \in [Imports -> CallState]
         /\ call'[r] = c
         /\ \A q \in Imports : q # r => call'[q] = call[q]
  OBVIOUS

(* A call answers, goes on to another step, takes an import to feed or to  *)
(* wait for.                                                               *)
LEMMA CallMoves ==
  ASSUME call \in [Imports -> CallState], NEW r \in Imports
  PROVE  /\ Answers(r) => \E c \in CallState : c.pc = "idle" /\ call' = [call EXCEPT ![r] = c]
         /\ \A pc \in {"lock", "await", "restart", "send", "finish", "join"} :
              /\ Goto(r, pc) => \E c \in CallState : c.pc = pc /\ call' = [call EXCEPT ![r] = c]
              /\ \A n \in Nat : call' = [call EXCEPT ![r].pc = pc, ![r].gen = n] =>
                    \E c \in CallState : c.pc = pc /\ call' = [call EXCEPT ![r] = c]
              /\ \A n \in Nat : call' = [call EXCEPT ![r].pc = pc, ![r].joins = n] =>
                    \E c \in CallState : c.pc = pc /\ call' = [call EXCEPT ![r] = c]
<1>0. call[r] \in CallState
  OBVIOUS
<1>1. Idle \in CallState /\ Idle.pc = "idle"
  BY DEF Idle, CallState
<1>2. Answers(r) => \E c \in CallState : c.pc = "idle" /\ call' = [call EXCEPT ![r] = c]
  BY <1>1 DEF Answers
<1>3. ASSUME NEW pc \in {"lock", "await", "restart", "send", "finish", "join"}, Goto(r, pc)
      PROVE  \E c \in CallState : c.pc = pc /\ call' = [call EXCEPT ![r] = c]
  <2> DEFINE c == [call[r] EXCEPT !.pc = pc]
  <2>1. c \in CallState /\ c.pc = pc
    BY <1>0 DEF CallState
  <2>2. call' = [call EXCEPT ![r] = c]
    BY <1>3 DEF Goto
  <2> QED BY <2>1, <2>2
<1>4. ASSUME NEW pc \in {"lock", "await", "restart", "send", "finish", "join"}, NEW n \in Nat,
             call' = [call EXCEPT ![r].pc = pc, ![r].gen = n]
      PROVE  \E c \in CallState : c.pc = pc /\ call' = [call EXCEPT ![r] = c]
  <2> DEFINE c == [call[r] EXCEPT !.pc = pc, !.gen = n]
  <2>1. c \in CallState /\ c.pc = pc
    BY <1>0 DEF CallState
  <2>2. call' = [call EXCEPT ![r] = c]
    BY <1>4
  <2> QED BY <2>1, <2>2
<1>5. ASSUME NEW pc \in {"lock", "await", "restart", "send", "finish", "join"}, NEW n \in Nat,
             call' = [call EXCEPT ![r].pc = pc, ![r].joins = n]
      PROVE  \E c \in CallState : c.pc = pc /\ call' = [call EXCEPT ![r] = c]
  <2> DEFINE c == [call[r] EXCEPT !.pc = pc, !.joins = n]
  <2>1. c \in CallState /\ c.pc = pc
    BY <1>0 DEF CallState
  <2>2. call' = [call EXCEPT ![r] = c]
    BY <1>5
  <2> QED BY <2>1, <2>2
<1> QED
  BY <1>2, <1>3, <1>4, <1>5

(* Steps that leave the imports, the map, the teardowns and the lock alone *)
(* keep the invariant, if no call enters the part that has the lock.       *)
LEMMA CallsOnly ==
  ASSUME ImportInv, UNCHANGED <<held, lock, open, import, marks, reaping>>,
         expected' \in Nat, call' \in [Imports -> CallState],
         \A r \in Imports : call'[r].pc \in {"await", "restart"} =>
            call[r].pc \in {"await", "restart"}
  PROVE  ImportInv'
  BY DEF ImportInv, ImportTypes, Owned, LockKept, OneImport, Gens, Alive

(* A request that comes in, or is refused for the budget.                  *)
LEMMA PostSteps ==
  ASSUME ImportInv, NEW r \in Imports, NEW seq \in 1 .. MaxSeq,
         Limited(r, seq) \/ (\E end \in BOOLEAN : Post(r, seq, end))
  PROVE  ImportInv'
<1>1. Idle \in CallState
  BY DEF Idle, CallState
<1>2. MaxSeq \in Nat /\ call \in [Imports -> CallState] /\ expected \in Nat
  BY BoundsAssumption DEF ImportInv, ImportTypes
<1>0. seq \in Nat
  BY <1>2
<1>3. CASE Limited(r, seq)
  <2>0. [Idle EXCEPT !.pc = "limited", !.seq = seq] \in CallState
    BY <1>1, <1>0 DEF CallState
  <2>1. call' \in [Imports -> CallState]
    BY <1>2, <1>3, <2>0, CallSet DEF Limited
  <2>2. \A q \in Imports : call'[q].pc \in {"await", "restart"} => call[q].pc \in {"await", "restart"}
    BY <1>2, <1>3 DEF Limited, Idle
  <2> QED BY <1>2, <1>3, <2>1, <2>2, CallsOnly DEF Limited
<1>4. ASSUME NEW end \in BOOLEAN, Post(r, seq, end) PROVE ImportInv'
  <2> DEFINE task == (seq = 1 \/ ~IsNextBlock(seq)) /\ (seq = 1 \/ end)
             c == [Idle EXCEPT !.pc = "lock", !.seq = seq, !.end = end, !.task = task]
  <2>0. c \in CallState
    <3>1. task \in BOOLEAN
      OBVIOUS
    <3> HIDE DEF task
    <3> QED BY <1>0, <1>1, <3>1 DEF CallState
  <2>1. call' \in [Imports -> CallState]
    <3>1. call' = [call EXCEPT ![r] = c]
      BY <1>4 DEF Post
    <3> HIDE DEF c
    <3> QED BY <1>2, <3>1, <2>0, CallSet
  <2>2. \A q \in Imports : call'[q].pc \in {"await", "restart"} => call[q].pc \in {"await", "restart"}
    BY <1>2, <1>4 DEF Post, Idle
  <2> QED BY <1>2, <1>4, <2>1, <2>2, CallsOnly DEF Post
<1> QED
  BY <1>3, <1>4

(* The wallet stops waiting for a call that runs in its handler.           *)
LEMMA DroppedStep ==
  ASSUME ImportInv, NEW r \in Imports, Dropped(r)
  PROVE  ImportInv'
<1>0. call \in [Imports -> CallState] /\ expected \in Nat
  BY DEF ImportInv, ImportTypes
<1>1. PICK c \in CallState : c.pc = "idle" /\ call' = [call EXCEPT ![r] = c]
  BY <1>0, CallMoves DEF Dropped
<1>2. call' \in [Imports -> CallState]
      /\ \A q \in Imports : call'[q].pc \in {"await", "restart"} => call[q].pc \in {"await", "restart"}
  BY <1>0, <1>1, CallSet
<1> QED
  BY <1>0, <1>2, CallsOnly DEF Dropped

(* A first block takes the lock of a party that is not held, and gives it  *)
(* back when it gives up.                                                  *)
LEMMA LockSteps ==
  ASSUME ImportInv, NEW r \in Imports, FirstBlock(r) \/ GivesUp(r)
  PROVE  ImportInv'
<1>0. call \in [Imports -> CallState]
  BY DEF ImportInv, ImportTypes
<1>a. PICK c \in CallState :
        /\ call' = [call EXCEPT ![r] = c]
        /\ c.pc = "idle" \/ (c.pc = "await" /\ lock' = r /\ ~held)
  BY <1>0, CallMoves DEF FirstBlock, GivesUp
<1>1. call' \in [Imports -> CallState]
  BY <1>0, <1>a, CallSet
<1>2. \A q \in Imports : q # r => call'[q] = call[q]
  BY <1>0, <1>a, CallSet
<1>3. call'[r].pc \in {"await", "restart"} => lock' = r /\ ~held
  BY <1>0, <1>a, CallSet
<1>4. lock # Reaper /\ (lock' = lock \/ lock' = r \/ lock' = Free)
  BY CallsAssumption DEF ImportInv, LockKept, FirstBlock, GivesUp, Free, Reaper
<1>5. \A q \in Imports : q # r => call[q].pc \notin {"await", "restart"}
  BY CallsAssumption DEF ImportInv, LockKept, FirstBlock, GivesUp
<1>6. LockKept'
  <2>1. held' = held
    BY DEF FirstBlock, GivesUp
  <2>2. held => lock' \notin Imports
    BY CallsAssumption DEF ImportInv, LockKept, FirstBlock, GivesUp, Free
  <2> QED BY <1>2, <1>3, <1>5, <2>1, <2>2 DEF LockKept
<1>7. Owned' /\ OneImport'
  BY <1>4 DEF ImportInv, Owned, OneImport, FirstBlock, GivesUp, Gens, Alive
<1> QED
  BY <1>1, <1>4, <1>6, <1>7 DEF ImportInv, ImportTypes, FirstBlock, GivesUp

(* The import of the map goes to its teardown, for a restart or a final    *)
(* block.                                                                  *)
LEMMA RetireSteps ==
  ASSUME ImportInv, NEW r \in Imports, Replaces(r) \/ Finish(r) \/ Joined(r)
  PROVE  ImportInv'
<1>0. call \in [Imports -> CallState] /\ open \in Nat
  BY DEF ImportInv, ImportTypes
<1>a. PICK c \in CallState :
        /\ call' = [call EXCEPT ![r] = c]
        /\ c.pc \in {"idle", "join"} \/ (c.pc = "restart" /\ call[r].pc = "await")
  <2>1. CASE Replaces(r)
    BY <1>0, <2>1, CallMoves DEF Replaces
  <2>2. CASE Finish(r)
    BY <1>0, <2>2, CallMoves DEF Finish
  <2>3. CASE Joined(r)
    BY <1>0, <2>3, CallMoves DEF Joined
  <2> QED BY <2>1, <2>2, <2>3
<1>1. call' \in [Imports -> CallState]
  BY <1>0, <1>a, CallSet
<1>2. \A q \in Imports : call'[q].pc \in {"await", "restart"} => call[q].pc \in {"await", "restart"}
  BY <1>0, <1>a, CallSet
<1>3. /\ open' \in {open, 0} /\ marks' \subseteq marks \cup {open}
      /\ \A g \in Nat : g = open \/ g \in marks => g = open' \/ g \in marks' \/ g = 0
  BY DEF Replaces, Finish, Joined
<1>4. UNCHANGED <<held, lock, import, reaping, expected>>
  BY DEF Replaces, Finish, Joined
<1>5. Owned' /\ OneImport'
  BY <1>3, <1>4 DEF ImportInv, ImportTypes, Owned, OneImport, Gens, Alive
<1>6. LockKept'
  BY <1>2, <1>4 DEF ImportInv, LockKept
<1> QED
  BY <1>1, <1>3, <1>4, <1>5, <1>6 DEF ImportInv, ImportTypes

(* An import starts only when none runs.                                   *)
LEMMA StartsStep ==
  ASSUME ImportInv, NEW r \in Imports, Starts(r)
  PROVE  ImportInv' /\ ~held /\ held' = held
<1> DEFINE new == [phase |-> "feeding", next |-> 1, chan |-> <<>>, ok |-> FALSE]
<1>1. new \in Import
  BY DEF Import
<1>2. lock = r /\ ~held /\ held' = held
  BY DEF Starts, ReadyToStart, ImportInv, LockKept
<1>3. \A g \in Gens : ~Alive(g)
  BY <1>2, CallsAssumption DEF Starts, ReadyToStart, ImportInv, ImportTypes, Owned, Gens
<1>4. import \in Seq(Import) /\ import' = Append(import, new)
  BY DEF Starts, ImportInv, ImportTypes
<1>5. import' \in Seq(Import) /\ Len(import') = Len(import) + 1 /\ Len(import) \in Nat
  BY <1>1, <1>4
<1>6. \A g \in 1 .. Len(import) : import'[g] = import[g]
  BY <1>4, <1>1
<1>7. \A g \in Gens' : g \in Gens \/ g = Len(import')
  BY <1>5 DEF Gens
<1>8. \A g \in Gens' : Alive(g)' => g = Len(import')
  BY <1>3, <1>6, <1>7 DEF Gens, Alive
<1>0. call \in [Imports -> CallState]
  BY DEF ImportInv, ImportTypes
<1>a. PICK c \in CallState : c.pc = "send" /\ call' = [call EXCEPT ![r] = c]
  <2>1. Len(import') \in Nat /\ call' = [call EXCEPT ![r].pc = "send", ![r].gen = Len(import')]
    BY <1>5 DEF Starts
  <2> DEFINE n == Len(import')
  <2> HIDE DEF n
  <2>2. n \in Nat /\ call' = [call EXCEPT ![r].pc = "send", ![r].gen = n]
    BY <2>1 DEF n
  <2> QED BY <1>0, <2>2, CallMoves
<1>9. call' \in [Imports -> CallState]
  BY <1>0, <1>a, CallSet
<1>10. \A q \in Imports : call'[q].pc \notin {"await", "restart"}
  BY <1>0, <1>2, <1>a, CallSet DEF ImportInv, LockKept
<1>11. Owned' /\ OneImport'
  BY <1>8 DEF Owned, OneImport, Starts
<1>12. LockKept'
  BY <1>10, <1>2 DEF LockKept
<1> QED
  BY <1>2, <1>5, <1>9, <1>11, <1>12 DEF Starts, ImportInv, ImportTypes

(* Another block.                                                          *)
LEMMA NextBlockStep ==
  ASSUME ImportInv, NEW r \in Imports, NextBlock(r)
  PROVE  ImportInv'
<1>0. call \in [Imports -> CallState] /\ open \in Nat
  BY DEF ImportInv, ImportTypes
<1>a. PICK c \in CallState : c.pc \in {"idle", "send"} /\ call' = [call EXCEPT ![r] = c]
  BY <1>0, CallMoves DEF NextBlock
<1>1. call' \in [Imports -> CallState] /\ expected' \in Nat
  BY <1>0, <1>a, CallSet DEF NextBlock, ImportInv, ImportTypes
<1>2. \A q \in Imports : call'[q].pc \in {"await", "restart"} => call[q].pc \in {"await", "restart"}
  BY <1>0, <1>a, CallSet
<1> QED
  BY <1>1, <1>2, CallsOnly DEF NextBlock

(* Steps of the imports that start none.                                   *)
LEMMA ImportsShrink ==
  ASSUME ImportInv, UNCHANGED <<held, lock, open, expected, marks, reaping>>,
         call' \in [Imports -> CallState],
         \A r \in Imports : call'[r].pc \in {"await", "restart"} =>
            call[r].pc \in {"await", "restart"},
         import' \in Seq(Import), Len(import') = Len(import),
         \A g \in Gens : import'[g].phase # "ended" => Alive(g)
  PROVE  ImportInv'
  BY DEF ImportInv, ImportTypes, Owned, LockKept, OneImport, Gens, Alive

(* A block goes into the channel, or finds the import ended.               *)
LEMMA SendStep ==
  ASSUME ImportInv, NEW r \in Imports, Send(r)
  PROVE  ImportInv' /\ Gens' = Gens /\ \A g \in Gens : Alive(g)' => Alive(g)
<1> DEFINE g == call[r].gen
           block == [seq |-> call[r].seq, end |-> call[r].end]
<1>0. call \in [Imports -> CallState] /\ import \in Seq(Import)
  BY DEF ImportInv, ImportTypes
<1>a. PICK c \in CallState : c.pc \in {"idle", "finish"} /\ call' = [call EXCEPT ![r] = c]
  BY <1>0, CallMoves DEF Send
<1>1. call' \in [Imports -> CallState]
  BY <1>0, <1>a, CallSet
<1>2. \A q \in Imports : call'[q].pc \in {"await", "restart"} => call[q].pc \in {"await", "restart"}
  BY <1>0, <1>a, CallSet
<1>3. block \in Block /\ <<block>> \in Seq(Block)
  BY <1>0 DEF Block, CallState
<1>4. import' \in Seq(Import) /\ Len(import') = Len(import)
        /\ \A h \in Gens : import'[h].phase = import[h].phase
  <2>1. CASE import' = [import EXCEPT ![g].chan = <<block>>]
    <3>1. CASE g \in 1 .. Len(import)
      <4>1. import[g] \in Import
        BY <1>0, <3>1
      <4>2. [import[g] EXCEPT !.chan = <<block>>] \in Import
        BY <4>1, <1>3 DEF Import
      <4>3. [import[g] EXCEPT !.chan = <<block>>].phase = import[g].phase
        BY <4>1 DEF Import
      <4> HIDE DEF g, block
      <4> QED BY <1>0, <2>1, <3>1, <4>2, <4>3 DEF Gens
    <3>2. CASE g \notin 1 .. Len(import)
      <4> HIDE DEF g, block
      <4>1. import' = import
        BY <1>0, <2>1, <3>2
      <4> QED BY <4>1, <1>0
    <3> QED BY <3>1, <3>2
  <2>2. CASE UNCHANGED import
    BY <2>2, <1>0
  <2> QED BY <2>1, <2>2 DEF Send
<1> QED
  BY <1>1, <1>2, <1>4, ImportsShrink DEF Send, Gens, Alive

(* The import's task: what it becomes is an import, alive only if it was.  *)
LEMMA TaskSteps ==
  ASSUME ImportInv, NEW g \in Gens,
         TakesBlock(g) \/ NoMoreBlocks(g) \/ Breaks(g) \/ Ends(g)
  PROVE  ImportInv' /\ Gens' = Gens /\ \A h \in Gens : Alive(h)' => Alive(h)
<1>0. import \in Seq(Import) /\ g \in 1 .. Len(import) /\ import[g] \in Import
  BY DEF ImportInv, ImportTypes, Gens
<1>1. PICK i \in Import : Task(g, i) /\ (i.phase # "ended" => Alive(g))
  <2>1. CASE TakesBlock(g)
    <3> DEFINE b == Head(import[g].chan)
               j == IF b.seq # import[g].next THEN Unwinding(g, FALSE)
                    ELSE IF b.end THEN Unwinding(g, TRUE)
                    ELSE [import[g] EXCEPT !.next = @ + 1]
    <3>1. j \in Import
      <4>1. Unwinding(g, FALSE) \in Import /\ Unwinding(g, TRUE) \in Import
        BY <1>0 DEF Unwinding, Import
      <4>2. [import[g] EXCEPT !.next = @ + 1] \in Import
        <5>1. import[g].next + 1 \in Nat
          BY <1>0 DEF Import
        <5> QED BY <1>0, <5>1 DEF Import
      <4> QED BY <4>1, <4>2
    <3>2. [j EXCEPT !.chan = <<>>] \in Import
      <4> HIDE DEF j
      <4>1. <<>> \in Seq(Block)
        OBVIOUS
      <4> QED BY <3>1, <4>1 DEF Import
    <3>3. Task(g, [j EXCEPT !.chan = <<>>]) /\ Alive(g)
      BY <2>1 DEF TakesBlock, Alive
    <3> HIDE DEF j
    <3> QED BY <3>2, <3>3
  <2>2. CASE NoMoreBlocks(g) \/ Breaks(g)
    BY <1>0, <2>2 DEF NoMoreBlocks, Breaks, Unwinding, Import, Alive
  <2>3. CASE Ends(g)
    <3>1. <<>> \in Seq(Block)
      OBVIOUS
    <3>2. [import[g] EXCEPT !.phase = "ended", !.chan = <<>>] \in Import
      BY <1>0, <3>1 DEF Import
    <3>3. [import[g] EXCEPT !.phase = "ended", !.chan = <<>>].phase = "ended"
      BY <1>0 DEF Import
    <3> QED BY <2>3, <3>2, <3>3 DEF Ends
  <2> QED BY <2>1, <2>2, <2>3
<1>2. import' = [import EXCEPT ![g] = i]
  BY <1>1 DEF Task
<1>3. import' \in Seq(Import) /\ Len(import') = Len(import)
  BY <1>0, <1>2
<1>4. \A h \in Gens : import'[h].phase # "ended" => Alive(h)
  BY <1>0, <1>1, <1>2 DEF Gens, Alive
<1> QED
  BY <1>1, <1>3, <1>4, ImportsShrink DEF Task, ImportInv, ImportTypes, Gens, Alive

(* A teardown that is over, and the reaper.                                *)
LEMMA TeardownSteps ==
  ASSUME ImportInv, (\E g \in Gens : Retired(g)) \/ Reap \/ Reaped
  PROVE  ImportInv'
<1>1. CASE \E g \in Gens : Retired(g)
  <2> PICK g \in Gens : Retired(g)
    BY <1>1
  <2>1. UNCHANGED <<held, lock, open, expected, import, call, reaping>>
    BY DEF Retired
  <2>2. Owned'
    BY <2>1 DEF Retired, Unmarks, ImportInv, Owned, Gens, Alive
  <2>3. OneImport' /\ LockKept'
    BY <2>1 DEF ImportInv, OneImport, LockKept, Gens, Alive
  <2>4. marks' \subseteq Nat
    BY DEF Retired, ImportInv, ImportTypes
  <2> QED BY <2>1, <2>2, <2>3, <2>4 DEF ImportInv, ImportTypes
<1>2. CASE Reap
  <2>1. LockKept'
    BY <1>2, CallsAssumption DEF Reap, ImportInv, LockKept, Reaper, Free
  <2>2. Owned' /\ OneImport'
    BY <1>2, CallsAssumption DEF Reap, ImportInv, Owned, OneImport, Gens, Alive, Reaper, Free
  <2> QED BY <1>2, <2>1, <2>2 DEF Reap, ImportInv, ImportTypes
<1>3. CASE Reaped
  <2>1. LockKept'
    BY <1>3, CallsAssumption DEF Reaped, ImportInv, LockKept, Reaper, Free
  <2>2. Owned' /\ OneImport'
    BY <1>3 DEF Reaped, ImportInv, Owned, OneImport, Gens, Alive
  <2> QED BY <1>3, <2>1, <2>2 DEF Reaped, ImportInv, ImportTypes
<1> QED
  BY <1>1, <1>2, <1>3

----------------------------------------------------------------------------
(* The calls that ask for blocks, and the hold.                            *)

ReadStep(e) ==
  \/ \E seq \in 1 .. MaxSeq : Ask(e, seq)
  \/ Admit(e) \/ Registers(e) \/ Reads(e) \/ Serves(e) \/ ReadEnds(e)

(* The state of the one call a step moves.                                 *)
LEMMA ReadSet ==
  ASSUME read \in [Exports -> ReadState], NEW e \in Exports, NEW c \in ReadState,
         read' = [read EXCEPT ![e] = c]
  PROVE  /\ read' \in [Exports -> ReadState]
         /\ read'[e] = c
         /\ \A x \in Exports : x # e => read'[x] = read[x]
  OBVIOUS

(* A step of a call that asks for a block moves that call, and opens a     *)
(* stream only if the party is not held or the stream was reserved.        *)
LEMMA ReadSteps ==
  ASSUME ExportTypes, NEW e \in Exports, ReadStep(e)
  PROVE  /\ ExportTypes' /\ UNCHANGED <<held, importing>>
         /\ held => \A x \in Exports : read'[x].pc = "opening" => read[x].pc = "opening"
         /\ export' # 0 => export # 0 \/ read[e].pc = "opening"
<1>0. /\ read \in [Exports -> ReadState] /\ served \in Seq(Nat) /\ export \in Nat
      /\ read[e] \in ReadState /\ read[e].seq \in Nat /\ read[e].stream \in Nat /\ MaxSeq \in Nat
  BY BoundsAssumption DEF ExportTypes, ReadState
<1>1. Asleep \in ReadState /\ Asleep.pc = "idle"
  BY DEF Asleep, ReadState
<1>2. ASSUME NEW seq \in 1 .. MaxSeq, Ask(e, seq)
      PROVE  \E c \in ReadState : c.pc # "opening" /\ read' = [read EXCEPT ![e] = c]
  <2>1. [pc |-> "admit", seq |-> 1, stream |-> 0] \in ReadState
    BY DEF ReadState
  <2>2. [pc |-> "wait", seq |-> seq, stream |-> export] \in ReadState
    BY <1>0 DEF ReadState
  <2> QED BY <1>2, <2>1, <2>2 DEF Ask
<1>3. ASSUME Admit(e)
      PROVE  \E c \in ReadState : (c.pc = "opening" => ~held) /\ read' = [read EXCEPT ![e] = c]
  <2>1. CASE held
    BY <1>1, <1>3, <2>1 DEF Admit
  <2>2. CASE ~held
    <3> DEFINE c == [read[e] EXCEPT !.pc = "opening"]
    <3>1. c \in ReadState
      BY <1>0 DEF ReadState
    <3>2. read' = [read EXCEPT ![e] = c]
      BY <1>3, <2>2 DEF Admit
    <3> QED BY <2>2, <3>1, <3>2
  <2> QED BY <2>1, <2>2
<1>4. ASSUME Registers(e)
      PROVE  /\ \E c \in ReadState : c.pc # "opening" /\ read' = [read EXCEPT ![e] = c]
             /\ served' \in Seq(Nat) /\ export' \in Nat
  <2>1. served' \in Seq(Nat) /\ Len(served') \in Nat
    BY <1>0, <1>4 DEF Registers
  <2> DEFINE n == Len(served')
             c == [read[e] EXCEPT !.pc = "wait", !.stream = n]
  <2>2. read' = [read EXCEPT ![e] = c]
    BY <1>4 DEF Registers
  <2>3. n \in Nat
    BY <2>1
  <2>4. c \in ReadState /\ c.pc = "wait"
    <3> HIDE DEF n
    <3> QED BY <1>0, <2>3 DEF ReadState
  <2>5. export' \in Nat
    BY <2>1, <1>4 DEF Registers
  <2> HIDE DEF c
  <2> QED BY <2>1, <2>2, <2>4, <2>5
<1>5. ASSUME Reads(e)
      PROVE  \E c \in ReadState : c.pc # "opening" /\ read' = [read EXCEPT ![e] = c]
  <2> DEFINE c == [read[e] EXCEPT !.pc = "reading"]
  <2>1. c \in ReadState /\ c.pc = "reading"
    BY <1>0 DEF ReadState
  <2>2. read' = [read EXCEPT ![e] = c] \/ read' = [read EXCEPT ![e] = Asleep]
    BY <1>5 DEF Reads
  <2> QED BY <1>1, <2>1, <2>2
<1>6. ASSUME Serves(e) \/ ReadEnds(e)
      PROVE  /\ \E c \in ReadState : c.pc # "opening" /\ read' = [read EXCEPT ![e] = c]
             /\ served' \in Seq(Nat) /\ export' \in {export, 0}
  <2>1. read' = [read EXCEPT ![e] = Asleep] /\ export' \in {export, 0}
    BY <1>6 DEF Serves, ReadEnds
  <2>2. served' \in Seq(Nat)
    <3> DEFINE s == read[e].stream
               q == read[e].seq
    <3>1. q \in Nat /\ (served' = served \/ served' = [served EXCEPT ![s] = q])
      BY <1>0, <1>6 DEF Serves, ReadEnds
    <3> HIDE DEF s, q
    <3>2. CASE s \in 1 .. Len(served)
      BY <1>0, <3>1, <3>2
    <3>3. CASE s \notin 1 .. Len(served)
      BY <1>0, <3>1, <3>3
    <3> QED BY <3>2, <3>3
  <2> QED BY <1>1, <2>1, <2>2
<1>7. PICK c \in ReadState : (c.pc = "opening" => ~held) /\ read' = [read EXCEPT ![e] = c]
  BY <1>2, <1>3, <1>4, <1>5, <1>6 DEF ReadStep
<1>8. read' \in [Exports -> ReadState]
      /\ (held => \A x \in Exports : read'[x].pc = "opening" => read[x].pc = "opening")
  BY <1>0, <1>7, ReadSet
<1>9. served' \in Seq(Nat) /\ export' \in Nat
  BY <1>0, <1>4, <1>6 DEF ReadStep, Ask, Admit, Reads
<1>10. UNCHANGED <<held, importing>>
  BY DEF ReadStep, Ask, Admit, Registers, Reads, Serves, ReadEnds
<1>11. export' # 0 => export # 0 \/ read[e].pc = "opening"
  BY DEF ReadStep, Ask, Admit, Registers, Reads, Serves, ReadEnds
<1> QED
  BY <1>8, <1>9, <1>10, <1>11 DEF ExportTypes

(* What a step may do to the hold and the copies.                          *)
HoldStep == [Promise!HoldNext]_<<held, Relaying>>

(* A step that opens no copy of a held party is one the promise allows.    *)
LEMMA QuietStep ==
  ASSUME held \in BOOLEAN, held' = held, held => (Relaying' => Relaying)
  PROVE  HoldStep
<1> DEFINE R == Relaying
<1>1. R \in BOOLEAN /\ R' \in BOOLEAN
  BY DEF Relaying
<1>2. CASE R' = R
  BY <1>2 DEF HoldStep
<1>3. CASE R /\ ~R'
  <2>1. Relaying' = FALSE
    BY <1>1, <1>3
  <2> QED BY <1>3, <2>1 DEF HoldStep, Promise!HoldNext, Promise!CloseRelay
<1>4. CASE ~R /\ R'
  BY <1>4 DEF HoldStep, Promise!HoldNext, Promise!OpenRelay
<1> QED
  BY <1>1, <1>2, <1>3, <1>4

(* A step that keeps the exports and lets no import live that did not.     *)
LEMMA ImportQuiet ==
  ASSUME held \in BOOLEAN, held' = held, UNCHANGED exporting,
         Gens' = Gens, \A g \in Gens : Alive(g)' => Alive(g)
  PROVE  HoldStep
<1>1. Relaying' => Relaying
  BY DEF Relaying, exporting
<1> QED
  BY <1>1, QuietStep

----------------------------------------------------------------------------
(* The inductive invariant.                                                *)

IInv == ImportInv /\ ExportTypes

(* It holds in the initial states.                                         *)
LEMMA InitIInv == Init => IInv
<1> SUFFICES ASSUME Init PROVE IInv
  OBVIOUS
<1>1. Idle \in CallState /\ Idle.pc = "idle"
  BY DEF Idle, CallState
<1>2. Asleep \in ReadState
  BY DEF Asleep, ReadState
<1>3. Gens = {} /\ import \in Seq(Import) /\ served \in Seq(Nat)
  BY DEF Init, Gens
<1>4. ImportTypes
  BY <1>1, <1>3 DEF Init, ImportTypes
<1>5. ExportTypes
  BY <1>2, <1>3 DEF Init, ExportTypes
<1>6. Owned /\ OneImport
  BY <1>3 DEF Owned, OneImport
<1>7. LockKept
  BY <1>1, CallsAssumption DEF Init, LockKept
<1> QED
  BY <1>4, <1>5, <1>6, <1>7 DEF IInv, ImportInv, Init

(* Every step keeps it, and is one the promise allows.                     *)
LEMMA NextIInv == IInv /\ [Next]_vars => IInv' /\ HoldStep
<1> SUFFICES ASSUME IInv, [Next]_vars PROVE IInv' /\ HoldStep
  OBVIOUS
<1> USE DEF IInv
<1>0. held \in BOOLEAN
  BY DEF ImportInv
<1>1. ASSUME UNCHANGED exporting PROVE ExportTypes'
  BY <1>1 DEF exporting, ExportTypes
<1>2. ASSUME held' = held, UNCHANGED <<exporting, import>> PROVE HoldStep
  BY <1>0, <1>2, ImportQuiet DEF Gens, Alive
<1>3. ASSUME NEW r \in Imports, NEW seq \in 1 .. MaxSeq,
             Limited(r, seq) \/ (\E end \in BOOLEAN : Post(r, seq, end))
      PROVE  IInv' /\ HoldStep
  <2>1. ImportInv'
    BY <1>3, PostSteps
  <2>2. held' = held /\ UNCHANGED <<exporting, import>>
    BY <1>3 DEF Limited, Post
  <2> QED BY <1>1, <1>2, <2>1, <2>2
<1>4. ASSUME NEW r \in Imports, Dropped(r) PROVE IInv' /\ HoldStep
  <2>1. ImportInv'
    BY <1>4, DroppedStep
  <2>2. held' = held /\ UNCHANGED <<exporting, import>>
    BY <1>4 DEF Dropped
  <2> QED BY <1>1, <1>2, <2>1, <2>2
<1>5. ASSUME NEW r \in Imports, CallStep(r) PROVE IInv' /\ HoldStep
  <2>1. CASE FirstBlock(r) \/ GivesUp(r) \/ Replaces(r) \/ NextBlock(r) \/ Finish(r) \/ Joined(r)
    <3>1. ImportInv'
      BY <2>1, LockSteps, RetireSteps, NextBlockStep
    <3>2. held' = held /\ UNCHANGED <<exporting, import>>
      BY <2>1 DEF FirstBlock, GivesUp, Replaces, NextBlock, Finish, Joined
    <3> QED BY <1>1, <1>2, <3>1, <3>2
  <2>2. CASE Starts(r)
    <3>1. ImportInv' /\ ~held /\ held' = held
      BY <2>2, StartsStep
    <3>2. UNCHANGED exporting
      BY <2>2 DEF Starts
    <3> QED BY <1>0, <1>1, <3>1, <3>2, QuietStep
  <2>3. CASE Send(r)
    <3>1. ImportInv' /\ Gens' = Gens /\ \A g \in Gens : Alive(g)' => Alive(g)
      BY <2>3, SendStep
    <3>2. held' = held /\ UNCHANGED exporting
      BY <2>3 DEF Send
    <3> QED BY <1>0, <1>1, <3>1, <3>2, ImportQuiet
  <2> QED BY <1>5, <2>1, <2>2, <2>3 DEF CallStep
<1>6. ASSUME NEW g \in Gens, TaskStep(g) \/ Breaks(g) PROVE IInv' /\ HoldStep
  <2>1. CASE TakesBlock(g) \/ NoMoreBlocks(g) \/ Breaks(g) \/ Ends(g)
    <3>1. ImportInv' /\ Gens' = Gens /\ \A h \in Gens : Alive(h)' => Alive(h)
      BY <2>1, TaskSteps
    <3>2. held' = held /\ UNCHANGED exporting
      BY <2>1 DEF TakesBlock, NoMoreBlocks, Breaks, Ends, Task
    <3> QED BY <1>0, <1>1, <3>1, <3>2, ImportQuiet
  <2>2. CASE Retired(g)
    <3>1. ImportInv'
      BY <2>2, TeardownSteps
    <3>2. held' = held /\ UNCHANGED <<exporting, import>>
      BY <2>2 DEF Retired
    <3> QED BY <1>1, <1>2, <3>1, <3>2
  <2> QED BY <1>6, <2>1, <2>2 DEF TaskStep
<1>7. CASE Reap \/ Reaped
  <2>1. ImportInv'
    BY <1>7, TeardownSteps
  <2>2. held' = held /\ UNCHANGED <<exporting, import>>
    BY <1>7 DEF Reap, Reaped
  <2> QED BY <1>1, <1>2, <2>1, <2>2
<1>8. ASSUME UNCHANGED <<importing>>, held' = held PROVE ImportInv'
  BY <1>8 DEF importing, ImportInv, ImportTypes, Owned, LockKept, OneImport, Gens, Alive
<1>9. CASE NewWindow \/ UNCHANGED vars
  <2>1. held' = held /\ UNCHANGED <<importing, exporting, import>>
    BY <1>9 DEF NewWindow, vars, importing
  <2> QED BY <1>1, <1>2, <1>8, <2>1
<1>10. CASE Hold
  <2>1. UNCHANGED <<importing, exporting>> /\ ~held /\ held' = TRUE /\ lock = Free
    BY <1>10 DEF Hold
  <2>2. Gens' = Gens /\ (\A g \in Gens : Alive(g)' <=> Alive(g)) /\ import' = import
    BY <2>1 DEF importing, Gens, Alive
  <2>3. ~Relaying
    <3>1. Free # Reaper
      BY DEF Free, Reaper
    <3>2. \A g \in Gens : ~Alive(g)
      BY <1>10, <2>1, <3>1 DEF Hold, AnySession, ImportInv, ImportTypes, Owned, Gens
    <3> QED BY <1>10, <3>2 DEF Hold, AnySession, Relaying
  <2>4. ~Relaying'
    BY <2>1, <2>2, <2>3 DEF Relaying, exporting
  <2>5. ImportInv'
    BY <2>1, <2>2, CallsAssumption DEF importing, ImportInv, ImportTypes, Owned, LockKept, OneImport
  <2>6. Relaying' = Relaying
    <3>1. Relaying' = FALSE /\ Relaying = FALSE
      BY <2>3, <2>4
    <3> QED BY <3>1
  <2> QED BY <1>1, <2>1, <2>3, <2>5, <2>6 DEF HoldStep, Promise!HoldNext, Promise!TakeHold
<1>11. CASE Release
  <2>1. UNCHANGED <<importing, exporting>> /\ held /\ held' = FALSE
    BY <1>11 DEF Release
  <2>2. Gens' = Gens /\ (\A g \in Gens : Alive(g)' <=> Alive(g)) /\ import' = import
    BY <2>1 DEF importing, Gens, Alive
  <2>3. Relaying' <=> Relaying
    BY <2>1, <2>2 DEF Relaying, exporting
  <2>4. ImportInv'
    BY <2>1, <2>2 DEF importing, ImportInv, ImportTypes, Owned, LockKept, OneImport
  <2>5. Relaying' = Relaying
    <3> DEFINE R == Relaying
    <3>1. R \in BOOLEAN /\ R' \in BOOLEAN
      BY DEF Relaying
    <3> HIDE DEF R
    <3>2. R' <=> R
      BY <2>3 DEF R
    <3>3. R' = R
      BY <3>1, <3>2
    <3> QED BY <3>3 DEF R
  <2> QED BY <1>1, <2>1, <2>4, <2>5 DEF HoldStep, Promise!HoldNext, Promise!DropHold
<1>12. ASSUME NEW e \in Exports, ReadStep(e) PROVE IInv' /\ HoldStep
  <2>1. /\ ExportTypes' /\ UNCHANGED <<held, importing>>
        /\ held => \A x \in Exports : read'[x].pc = "opening" => read[x].pc = "opening"
        /\ export' # 0 => export # 0 \/ read[e].pc = "opening"
    BY <1>12, ReadSteps
  <2>2. Gens' = Gens /\ \A g \in Gens : Alive(g)' <=> Alive(g)
    BY <2>1 DEF importing, Gens, Alive
  <2>3. held => (Relaying' => Relaying)
    BY <2>1, <2>2 DEF Relaying
  <2> QED BY <1>0, <1>8, <2>1, <2>3, QuietStep
<1>13. CASE ReapStream
  <2>1. ExportTypes' /\ UNCHANGED <<held, importing, read>> /\ export' = 0
    BY <1>13 DEF ReapStream, ExportTypes
  <2>2. Relaying' => Relaying
    BY <2>1 DEF Relaying, importing, Gens, Alive
  <2> QED BY <1>0, <1>8, <2>1, <2>2, QuietStep
<1> QED
  BY <1>3, <1>4, <1>5, <1>6, <1>7, <1>9, <1>10, <1>11, <1>12, <1>13 DEF Next, ReadStep

(* No two imports of a party run at once, whatever is repeated, dropped,   *)
(* reaped or timed out (accept_block, await_retirement, retire).           *)
THEOREM ImportSafety == Spec => []OneImport
<1>1. IInv /\ [Next]_vars => IInv'
  BY NextIInv
<1>2. IInv => OneImport
  BY DEF IInv, ImportInv
<1> QED
  BY InitIInv, <1>1, <1>2, PTL DEF Spec

(* The registry implements what RelaySessions::hold promises: every        *)
(* behaviour of the calls, tasks, reaper and streams is one of PartyHold.  *)
THEOREM HoldImplemented == Spec => HoldSpec
<1>1. Init => Promise!HoldInit
  BY DEF Init, Promise!HoldInit, Relaying, Gens, Asleep
<1>2. IInv /\ [Next]_vars => IInv'
  BY NextIInv
<1>3. IInv /\ [Next]_vars => [Promise!HoldNext]_<<held, Relaying>>
  BY NextIInv DEF HoldStep
<1> QED
  BY InitIInv, <1>1, <1>2, <1>3, PTL DEF Spec, HoldSpec, Promise!HoldSpec
=============================================================================
