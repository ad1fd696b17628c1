--------------------------- MODULE SpaceScheduler ---------------------------
(***************************************************************************)
(* Who may write a Space's graph, and when.                                *)
(*                                                                         *)
(* A Space owns one queue of formation conversations and two background    *)
(* writers: the Formation loop (agents/formation.rs) and the Maintenance   *)
(* cycle (agents/maintenance.rs).  They share a ProcessingGate: the atomic *)
(* slot `formation` (0 or the conversation being formed), the atomic flag  *)
(* `maintenance`, and one admission lock under which either is taken.      *)
(*                                                                         *)
(* A task of this model is one asynchronous activity: an API request, a    *)
(* recovery task, a Formation loop or a Maintenance worker.  A request     *)
(* that spawns a worker ends at the spawn, so the model lets the same task *)
(* go on as that worker.  Every step ends at an await point, an atomic     *)
(* access or a lock of the code; what a task read before is in its locals. *)
(***************************************************************************)
EXTENDS Naturals, FiniteSets

CONSTANTS
    Tasks,          \* identities of asynchronous activities
    MaxConv,        \* bound: conversations submitted to the queue
    MaxRounds,      \* MAX_FAILED_ROUNDS
    FullEvery, QuickEvery, DaydreamEvery,  \* 168, 42, 21 formed conversations
    AskedScopes,    \* scopes an API caller asks for
    Outcomes,       \* statuses with which one pass may end
    Faults          \* which faults of the environment this instance has

Statuses == {"none", "submitted", "working", "failed", "completed", "cancelled"}
FaultKinds == {"crash", "close", "abort", "restart", "jump"}
Scopes == {"full", "quick", "daydream"}

ASSUME TasksAssumption == Tasks # {}
ASSUME MaxConvAssumption == MaxConv \in Nat \ {0}
ASSUME MaxRoundsAssumption == MaxRounds \in Nat \ {0}
ASSUME CadenceAssumption ==
    /\ FullEvery \in Nat \ {0}
    /\ QuickEvery \in Nat \ {0}
    /\ DaydreamEvery \in Nat \ {0}
ASSUME OutcomesAssumption == Outcomes \subseteq (Statuses \ {"none"})
ASSUME AskedScopesAssumption == AskedScopes \subseteq Scopes
ASSUME FaultsAssumption == Faults \subseteq FaultKinds

Ids == 1..MaxConv
Ids0 == 0..MaxConv

VARIABLES
    \* durable: survive a crash and a close
    status,      \* the persisted status of each conversation
    rounds,      \* its failed rounds (extra.formation_failed_rounds)
    processed,   \* the brain_processed high-water mark
    doneAt,      \* formation watermark of the last cycle of each scope
    slept,       \* whether start_at was ever persisted
    \* volatile: the gate, the tasks and the Space's phase
    slot,        \* ProcessingGate.formation
    maint,       \* ProcessingGate.maintenance
    phase,       \* "closed", "open", "capturing", "cancelling", "closing", "draining"
    captured,    \* interrupted_conversations of the formation queue
    pc,          \* what each task does next
    cur,         \* the conversation it works on or has just added
    mark,        \* a watermark it read earlier
    attempt,     \* 1, or 2 for the retry of a round
    scope,       \* the scope of the cycle it runs
    \* history: passes that a graceful close found running
    cut

durable == <<status, rounds, processed, doneAt, slept>>
gate == <<slot, maint>>
lifecycle == <<phase, captured, cut>>
locals == <<cur, mark, attempt, scope>>
vars == <<status, rounds, processed, doneAt, slept, slot, maint, phase, captured,
          pc, cur, mark, attempt, scope, cut>>

Terminal == {"completed", "cancelled"}
Pending == {"submitted", "working", "failed"}

\* The states of a request that wants to start a Formation loop.
StartPcs == {"slot", "maint", "mark", "find", "try"}
\* A Formation loop that owns the slot, from its compare-exchange on.
OwnerPcs == {"spawn", "process", "retry", "round", "settle", "schedule", "handoff", "next", "release"}
\* A Formation loop that gave the slot back and checks the queue once more.
LeavingPcs == {"recheck", "claim"}
\* A task that holds the maintenance flag.
MaintPcs == {"metabolize", "handoff", "sleep", "wake"}
Pcs == {"idle", "resume", "request"} \cup StartPcs \cup OwnerPcs \cup LeavingPcs \cup MaintPcs

\* Tasks that RuntimeTasks owns and cancellation drops.
OwnedPcs == (OwnerPcs \ {"spawn"}) \cup LeavingPcs \cup {"sleep", "wake", "resume"}

TypeOK ==
    /\ status \in [Ids -> Statuses]
    /\ rounds \in [Ids -> 0..MaxRounds]
    /\ processed \in Ids0
    /\ doneAt \in [Scopes -> Ids0]
    /\ slept \in BOOLEAN
    /\ slot \in Ids0
    /\ maint \in BOOLEAN
    /\ phase \in {"closed", "open", "capturing", "cancelling", "closing", "draining"}
    /\ captured \subseteq Ids
    /\ pc \in [Tasks -> Pcs]
    /\ cur \in [Tasks -> Ids0]
    /\ mark \in [Tasks -> Ids0]
    /\ attempt \in [Tasks -> {1, 2}]
    /\ scope \in [Tasks -> Scopes]
    /\ cut \subseteq Ids

Init ==
    /\ status = [c \in Ids |-> "none"]
    /\ rounds = [c \in Ids |-> 0]
    /\ processed = 0
    /\ doneAt = [s \in Scopes |-> 0]
    /\ slept = FALSE
    /\ slot = 0
    /\ maint = FALSE
    /\ phase = "closed"
    /\ captured = {}
    /\ pc = [t \in Tasks |-> "idle"]
    /\ cur = [t \in Tasks |-> 0]
    /\ mark = [t \in Tasks |-> 0]
    /\ attempt = [t \in Tasks |-> 1]
    /\ scope = [t \in Tasks |-> "daydream"]
    /\ cut = {}

Goto(t, l) == pc' = [pc EXCEPT ![t] = l]

\* A finished task forgets its locals.
Finish(t) ==
    /\ pc' = [pc EXCEPT ![t] = "idle"]
    /\ cur' = [cur EXCEPT ![t] = 0]
    /\ mark' = [mark EXCEPT ![t] = 0]
    /\ attempt' = [attempt EXCEPT ![t] = 1]
    /\ scope' = [scope EXCEPT ![t] = "daydream"]

MaxOf(a, b) == IF a >= b THEN a ELSE b

\* RuntimeTasks admits work, and polls its tasks, until cancel().
Running == phase \in {"open", "capturing", "cancelling"}
\* engine.is_cancelled() is still false.
Open == phase \in {"open", "capturing", "cancelling", "closing"}
\* cancel() was called: an owned task is only polled to be dropped.
Cancelled == phase \in {"closing", "draining"}

\* The next pending conversation above `after`, or 0.
FindNextSubmitted(after) ==
    LET found == {c \in Ids : c > after /\ status[c] \in Pending}
    IN  IF found = {} THEN 0 ELSE CHOOSE c \in found : \A d \in found : c <= d

\* capture_interrupted_work: remember the conversation in the slot.
Capture == captured' = captured \cup ({slot} \ {0})

-----------------------------------------------------------------------------
(* Faulty variants of some actions below, one plausible slip each.  No      *)
(* specification uses them; a property must fail when one takes its action's *)
(* place.                                                                  *)

\* A new conversation is tried at once, without catching up on the queue.
LoadProcessedNoCatchUp(t) ==
    /\ pc[t] = "mark"
    /\ mark' = [mark EXCEPT ![t] = processed]
    /\ Goto(t, "try")
    /\ UNCHANGED <<durable, gate, lifecycle, cur, attempt, scope>>

\* The watermark moves over a conversation whatever became of it.
SettlePassAlways(t) ==
    /\ Running
    /\ pc[t] = "settle"
    /\ processed' = MaxOf(processed, cur[t])
    /\ Goto(t, "schedule")
    /\ UNCHANGED <<status, rounds, doneAt, slept, gate, lifecycle, locals>>

\* A leaving loop does not look at the queue a second time.
RecheckNothing(t) ==
    /\ Running
    /\ pc[t] = "recheck"
    /\ Finish(t)
    /\ UNCHANGED <<durable, gate, lifecycle>>

\* try_claim_processing that looks at the maintenance flag only.
ClaimMaintenanceAnyway(t) ==
    /\ pc[t] = "request"
    /\ ~maint
    /\ maint' = TRUE
    /\ mark' = [mark EXCEPT ![t] = processed]
    /\ Goto(t, "metabolize")
    /\ UNCHANGED <<durable, slot, lifecycle, cur, attempt, scope>>

\* try_process that checks the slot and forgets the maintenance flag.
TryProcessBesideMaintenance(t) ==
    /\ pc[t] = "try"
    /\ \/ /\ slot = 0
          /\ slot' = cur[t]
          /\ mark' = [mark EXCEPT ![t] = 0]
          /\ Goto(t, "spawn")
          /\ UNCHANGED <<maint, cur, attempt, scope>>
       \/ /\ slot # 0
          /\ Finish(t)
          /\ UNCHANGED gate
    /\ UNCHANGED <<durable, lifecycle>>

\* maintenance_claimed keeps the formation_id 0 of the caller's input.
ClaimMaintenanceUnmarked(t) ==
    /\ pc[t] = "request"
    /\ slot = 0
    /\ ~maint
    /\ maint' = TRUE
    /\ Goto(t, "metabolize")
    /\ UNCHANGED <<durable, slot, lifecycle, locals>>

\* A claim without a guard: an aborted request leaves the flag up.
AbortMaintenanceUnguarded(t) ==
    /\ "abort" \in Faults
    /\ pc[t] = "metabolize"
    /\ Finish(t)
    /\ UNCHANGED <<durable, gate, lifecycle>>

\* The cancel branch of RuntimeTasks::spawn without its hook.
DropTaskUncaptured(t) ==
    /\ Cancelled
    /\ pc[t] \in OwnedPcs
    /\ slot' = IF pc[t] \in OwnerPcs \cup LeavingPcs THEN 0 ELSE slot
    /\ maint' = IF pc[t] \in MaintPcs THEN FALSE ELSE maint
    /\ Finish(t)
    /\ UNCHANGED <<durable, lifecycle>>

-----------------------------------------------------------------------------
(* Requests that may start a Formation loop.                               *)

\* FormationAgent::run, first half: the conversation becomes durable.
AddConversation(t) ==
    /\ Open
    /\ pc[t] = "idle"
    /\ \E c \in Ids :
         /\ \A d \in Ids : status[d] = "none" <=> d >= c
         /\ status' = [status EXCEPT ![c] = "submitted"]
         /\ cur' = [cur EXCEPT ![t] = c]
    /\ Goto(t, "slot")
    /\ UNCHANGED <<rounds, processed, doneAt, slept, gate, lifecycle, mark, attempt, scope>>

\* Space::restart_formation by an operator, from a conversation of its choice;
\* one beyond the queue's head is a "jump".
OperatorRestart(t) ==
    /\ Faults \cap {"restart", "jump"} # {}
    /\ Open
    /\ pc[t] = "idle"
    /\ \E from \in Ids :
         /\ status[from] # "none"
         /\ from > processed + 1 => "jump" \in Faults
         /\ mark' = [mark EXCEPT ![t] = from - 1]
    /\ Goto(t, "slot")
    /\ UNCHANGED <<durable, gate, lifecycle, cur, attempt, scope>>

\* Recovery and the end of Maintenance resume from the watermark.
Resume(t) ==
    /\ Open
    /\ pc[t] = "resume"
    /\ mark' = [mark EXCEPT ![t] = processed]
    /\ Goto(t, "slot")
    /\ UNCHANGED <<durable, gate, lifecycle, cur, attempt, scope>>

\* A busy slot means that a loop is running and will find the conversation.
LoadSlot(t) ==
    /\ pc[t] = "slot"
    /\ \/ slot = 0 /\ Goto(t, "maint") /\ UNCHANGED locals
       \/ slot # 0 /\ Finish(t)
    /\ UNCHANGED <<durable, gate, lifecycle>>

\* A running cycle resumes the queue when it ends.
LoadMaintenance(t) ==
    /\ pc[t] = "maint"
    /\ \/ /\ ~maint
          /\ Goto(t, IF cur[t] = 0 THEN "find" ELSE "mark")
          /\ UNCHANGED locals
       \/ maint /\ Finish(t)
    /\ UNCHANGED <<durable, gate, lifecycle>>

\* A gap below the new conversation is caught up first.
LoadProcessed(t) ==
    /\ pc[t] = "mark"
    /\ mark' = [mark EXCEPT ![t] = processed]
    /\ Goto(t, IF processed + 1 < cur[t] THEN "find" ELSE "try")
    /\ UNCHANGED <<durable, gate, lifecycle, cur, attempt, scope>>

Find(t) ==
    /\ pc[t] = "find"
    /\ LET next == FindNextSubmitted(mark[t])
       IN  \/ /\ next # 0
              /\ cur' = [cur EXCEPT ![t] = next]
              /\ Goto(t, "try")
              /\ UNCHANGED <<mark, attempt, scope>>
           \/ (next = 0 \/ "abort" \in Faults) /\ Finish(t)
    /\ UNCHANGED <<durable, gate, lifecycle>>

\* try_process: under the admission lock, take a free slot.
TryProcess(t) ==
    /\ pc[t] = "try"
    /\ \/ /\ ~maint
          /\ slot = 0
          /\ slot' = cur[t]
          /\ mark' = [mark EXCEPT ![t] = 0]
          /\ Goto(t, "spawn")
          /\ UNCHANGED <<maint, cur, attempt, scope>>
       \/ /\ maint \/ slot # 0
          /\ Finish(t)
          /\ UNCHANGED gate
    /\ UNCHANGED <<durable, lifecycle>>

\* The loop's task; a closing Space refuses it and its guard frees the slot.
Spawn(t) ==
    /\ pc[t] = "spawn"
    /\ \/ /\ Running
          /\ Goto(t, "process")
          /\ UNCHANGED <<slot, locals>>
       \/ /\ ~Running
          /\ slot' = 0
          /\ Finish(t)
    /\ UNCHANGED <<durable, maint, lifecycle>>

-----------------------------------------------------------------------------
(* The Formation loop.                                                     *)

\* drive_runner_loop persists a pass in progress every few turns.
PersistTurn(t) ==
    /\ Running
    /\ pc[t] = "process"
    /\ status[cur[t]] # "working"
    /\ status' = [status EXCEPT ![cur[t]] = "working"]
    /\ UNCHANGED <<rounds, processed, doneAt, slept, gate, lifecycle, pc, cur, mark, attempt, scope>>

\* process_one ends: admission refused it, or the runner converged or failed.
\* A first failure is retried after a pause, a second is a failed round.
EndPass(t) ==
    /\ Running
    /\ pc[t] = "process"
    /\ \E o \in Outcomes :
         /\ status' = [status EXCEPT ![cur[t]] = o]
         /\ Goto(t, IF o # "failed" THEN "settle"
                    ELSE IF attempt[t] = 1 THEN "retry" ELSE "round")
    /\ UNCHANGED <<rounds, processed, doneAt, slept, gate, lifecycle, cur, mark, attempt, scope>>

RetryPass(t) ==
    /\ Running
    /\ pc[t] = "retry"
    /\ attempt' = [attempt EXCEPT ![t] = 2]
    /\ Goto(t, "process")
    /\ UNCHANGED <<durable, gate, lifecycle, cur, mark, scope>>

\* record_failed_round: whether the rounds span GIVE_UP_AFTER_MS is the
\* clock's choice; the counter saturates, since only `>= MaxRounds` is read.
RecordFailedRound(t) ==
    /\ Running
    /\ pc[t] = "round"
    /\ LET c == cur[t]
           n == IF rounds[c] = MaxRounds THEN MaxRounds ELSE rounds[c] + 1
       IN  /\ rounds' = [rounds EXCEPT ![c] = n]
           /\ \E giveUp \in BOOLEAN :
                /\ giveUp => n = MaxRounds
                /\ status' = [status EXCEPT ![c] = IF giveUp THEN "cancelled" ELSE "failed"]
    /\ Goto(t, "settle")
    /\ UNCHANGED <<processed, doneAt, slept, gate, lifecycle, cur, mark, attempt, scope>>

\* Only a terminal conversation moves the watermark, and never backwards.
SettlePass(t) ==
    /\ Running
    /\ pc[t] = "settle"
    /\ \/ /\ status[cur[t]] \in Terminal
          /\ processed' = MaxOf(processed, cur[t])
          /\ Goto(t, "schedule")
          /\ UNCHANGED <<slot, locals>>
       \/ /\ status[cur[t]] \notin Terminal
          /\ slot' = 0
          /\ Finish(t)
          /\ UNCHANGED processed
    /\ UNCHANGED <<status, rounds, doneAt, slept, maint, lifecycle>>

\* The deepest scope that is due after conversation c, if any.
DueScopes(c) ==
    IF c >= doneAt["full"] + FullEvery THEN {"full"}
    ELSE IF c >= MaxOf(doneAt["quick"], doneAt["full"]) + QuickEvery THEN {"quick"}
    ELSE IF c >= MaxOf(doneAt["daydream"], MaxOf(doneAt["quick"], doneAt["full"])) + DaydreamEvery
         THEN {"daydream"} ELSE {}

\* try_start_maintenance: claim the flag while still owning the slot.
Schedule(t) ==
    /\ Running
    /\ pc[t] = "schedule"
    /\ \/ \E s \in DueScopes(cur[t]) :
            /\ slot = cur[t]
            /\ ~maint
            /\ maint' = TRUE
            /\ scope' = [scope EXCEPT ![t] = s]
            /\ mark' = [mark EXCEPT ![t] = processed]
            /\ Goto(t, "handoff")
       \/ /\ DueScopes(cur[t]) = {} \/ slot # cur[t] \/ maint
          /\ Goto(t, "next")
          /\ UNCHANGED <<maint, scope, mark>>
    /\ UNCHANGED <<durable, slot, lifecycle, cur, attempt>>

\* run_claimed after the settlement: the slot is given up, the flag is kept.
HandOff(t) ==
    /\ Running
    /\ pc[t] = "handoff"
    /\ slot = cur[t]  \* compare_exchange(cur, 0); only this loop changes it
    /\ slot' = 0
    /\ slept' = TRUE
    /\ Goto(t, "sleep")
    /\ UNCHANGED <<status, rounds, processed, doneAt, maint, lifecycle, locals>>

\* ... or it failed to start, and the loop keeps its slot.
HandOffFails(t) ==
    /\ "abort" \in Faults
    /\ Running
    /\ pc[t] = "handoff"
    /\ maint' = FALSE
    /\ mark' = [mark EXCEPT ![t] = 0]
    /\ scope' = [scope EXCEPT ![t] = "daydream"]
    /\ Goto(t, "next")
    /\ UNCHANGED <<durable, slot, lifecycle, cur, attempt>>

\* The loop owns the slot, so nothing else can take the conversation it found;
\* a queue that cannot be read frees the slot.  The poll that cancel() meets runs
\* on to its next await, so this step and Claim may follow a cancel().
NextConversation(t) ==
    /\ phase # "closed"
    /\ pc[t] = "next"
    /\ LET next == FindNextSubmitted(cur[t])
       IN  \/ /\ next # 0
              /\ slot = cur[t]
              /\ slot' = next
              /\ cur' = [cur EXCEPT ![t] = next]
              /\ attempt' = [attempt EXCEPT ![t] = 1]
              /\ Goto(t, "process")
              /\ UNCHANGED <<mark, scope>>
           \/ next # 0 /\ slot # cur[t] /\ Finish(t) /\ UNCHANGED slot
           \/ next = 0 /\ Goto(t, "release") /\ UNCHANGED <<slot, locals>>
           \/ "abort" \in Faults /\ slot' = 0 /\ Finish(t)
    /\ UNCHANGED <<durable, maint, lifecycle>>

Release(t) ==
    /\ Running
    /\ pc[t] = "release"
    /\ slot' = 0
    /\ Goto(t, "recheck")
    /\ UNCHANGED <<durable, maint, lifecycle, locals>>

\* The second look: a conversation may have arrived while the slot was taken.
Recheck(t) ==
    /\ Running
    /\ pc[t] = "recheck"
    /\ LET next == FindNextSubmitted(cur[t])
       IN  \/ /\ next # 0
              /\ cur' = [cur EXCEPT ![t] = next]
              /\ Goto(t, "claim")
              /\ UNCHANGED <<mark, attempt, scope>>
           \/ (next = 0 \/ "abort" \in Faults) /\ Finish(t)
    /\ UNCHANGED <<durable, gate, lifecycle>>

Claim(t) ==
    /\ phase # "closed"
    /\ pc[t] = "claim"
    /\ \/ /\ ~maint
          /\ slot = 0
          /\ slot' = cur[t]
          /\ attempt' = [attempt EXCEPT ![t] = 1]
          /\ Goto(t, "process")
          /\ UNCHANGED <<cur, mark, scope>>
       \/ /\ maint \/ slot # 0
          /\ Finish(t)
          /\ UNCHANGED slot
    /\ UNCHANGED <<durable, maint, lifecycle>>

-----------------------------------------------------------------------------
(* Maintenance.                                                            *)

\* Space::maintenance by an API caller, with the scope it asked for.
RequestMaintenance(t) ==
    /\ Open
    /\ pc[t] = "idle"
    /\ \E s \in AskedScopes : scope' = [scope EXCEPT ![t] = s]
    /\ Goto(t, "request")
    /\ UNCHANGED <<durable, gate, lifecycle, cur, mark, attempt>>

\* kick_scheduled_maintenance: overdue by the clock, and nothing is running.
ClockMaintenance(t) ==
    /\ Open
    /\ pc[t] = "idle"
    /\ slot = 0
    /\ ~maint
    /\ slept \/ processed > 0
    /\ scope' = [scope EXCEPT ![t] = "full"]
    /\ Goto(t, "request")
    /\ UNCHANGED <<durable, gate, lifecycle, cur, mark, attempt>>

\* try_claim_processing: under the admission lock, with no Formation owner.
ClaimMaintenance(t) ==
    /\ pc[t] = "request"
    /\ \/ /\ slot = 0
          /\ ~maint
          /\ maint' = TRUE
          /\ mark' = [mark EXCEPT ![t] = processed]
          /\ Goto(t, "metabolize")
          /\ UNCHANGED <<cur, attempt, scope>>
       \/ /\ slot # 0 \/ maint
          /\ Finish(t)
          /\ UNCHANGED maint
    /\ UNCHANGED <<durable, slot, lifecycle>>

\* The settlement is done; run_claimed persists start_at and spawns the worker.
\* A closing Space refuses the task, and the claim's guard frees the flag.
StartSleep(t) ==
    /\ pc[t] = "metabolize"
    /\ slept' = TRUE
    /\ \/ Running /\ Goto(t, "sleep") /\ UNCHANGED <<maint, locals>>
       \/ ~Running /\ maint' = FALSE /\ Finish(t)
    /\ UNCHANGED <<status, rounds, processed, doneAt, slot, lifecycle>>

\* The caller went away or the cycle's conversation could not be stored.
AbortMaintenance(t) ==
    /\ "abort" \in Faults
    /\ pc[t] = "metabolize"
    /\ maint' = FALSE
    /\ Finish(t)
    /\ UNCHANGED <<durable, slot, lifecycle>>

\* A completed cycle records how far formation had come when it was claimed.
EndSleep(t) ==
    /\ Running
    /\ pc[t] = "sleep"
    /\ \/ doneAt' = [doneAt EXCEPT ![scope[t]] = mark[t]]
       \/ "failed" \in Outcomes /\ UNCHANGED doneAt
    /\ Goto(t, "wake")
    /\ UNCHANGED <<status, rounds, processed, slept, gate, lifecycle, locals>>

\* The flag is released before the queue is resumed.
Wake(t) ==
    /\ Running
    /\ pc[t] = "wake"
    /\ maint' = FALSE
    /\ pc' = [pc EXCEPT ![t] = "resume"]
    /\ cur' = [cur EXCEPT ![t] = 0]
    /\ mark' = [mark EXCEPT ![t] = 0]
    /\ attempt' = [attempt EXCEPT ![t] = 1]
    /\ scope' = [scope EXCEPT ![t] = "daydream"]
    /\ UNCHANGED <<durable, slot, lifecycle>>

-----------------------------------------------------------------------------
(* Opening, closing and crashing.                                          *)

\* A load connects the Space and starts its recovery task.
OpenSpace(t) ==
    /\ phase = "closed"
    /\ pc[t] = "idle"
    /\ phase' = "open"
    /\ cut' = {}
    /\ Goto(t, "resume")
    /\ UNCHANGED <<durable, gate, captured, locals>>

\* Space::close, first half.
BeginClose ==
    /\ "close" \in Faults
    /\ phase = "open"
    /\ phase' = "capturing"
    /\ Capture
    /\ UNCHANGED <<durable, gate, pc, locals, cut>>

\* RuntimeTasks::cancel calls the hook, which captures once more ...
CaptureAgain ==
    /\ phase = "capturing"
    /\ phase' = "cancelling"
    /\ Capture
    /\ UNCHANGED <<durable, gate, pc, locals, cut>>

\* ... and then stops every owned task; a loop may have gone on in between.
CancelTasks ==
    /\ phase = "cancelling"
    /\ phase' = "closing"
    /\ cut' = {cur[t] : t \in {u \in Tasks : pc[u] = "process"}}
    /\ UNCHANGED <<durable, gate, captured, pc, locals>>

\* engine.cancel(): no new request gets in.
CancelEngine ==
    /\ phase = "closing"
    /\ phase' = "draining"
    /\ UNCHANGED <<durable, gate, captured, pc, locals, cut>>

\* A cancelled task captures the slot before its guards release it.
DropTask(t) ==
    /\ Cancelled
    /\ pc[t] \in OwnedPcs
    /\ Capture
    /\ slot' = IF pc[t] \in OwnerPcs \cup LeavingPcs THEN 0 ELSE slot
    /\ maint' = IF pc[t] \in MaintPcs THEN FALSE ELSE maint
    /\ Finish(t)
    /\ UNCHANGED <<durable, phase, cut>>

\* The rest of close: what may have been half written is cancelled, never
\* replayed; what was only queued stays queued.
Reconcile ==
    /\ phase = "draining"
    /\ \A t \in Tasks : pc[t] = "idle"
    /\ status' = [c \in Ids |->
                    IF status[c] = "working" \/ (c \in captured /\ status[c] \in Pending)
                    THEN "cancelled" ELSE status[c]]
    /\ phase' = "closed"
    /\ captured' = {}
    /\ UNCHANGED <<rounds, processed, doneAt, slept, gate, pc, locals, cut>>

\* The process dies: only the database survives.
Crash ==
    /\ "crash" \in Faults
    /\ phase # "closed"
    /\ phase' = "closed"
    /\ slot' = 0
    /\ maint' = FALSE
    /\ captured' = {}
    /\ cut' = {}
    /\ pc' = [t \in Tasks |-> "idle"]
    /\ cur' = [t \in Tasks |-> 0]
    /\ mark' = [t \in Tasks |-> 0]
    /\ attempt' = [t \in Tasks |-> 1]
    /\ scope' = [t \in Tasks |-> "daydream"]
    /\ UNCHANGED durable

-----------------------------------------------------------------------------

\* What a task does once it has started.
Step(t) ==
    \/ Resume(t) \/ LoadSlot(t) \/ LoadMaintenance(t) \/ LoadProcessed(t)
    \/ Find(t) \/ TryProcess(t) \/ Spawn(t)
    \/ EndPass(t) \/ RetryPass(t) \/ RecordFailedRound(t) \/ SettlePass(t)
    \/ Schedule(t) \/ HandOff(t) \/ NextConversation(t) \/ Release(t)
    \/ Recheck(t) \/ Claim(t)
    \/ ClaimMaintenance(t) \/ StartSleep(t) \/ EndSleep(t) \/ Wake(t)
    \/ DropTask(t)

\* What the outside world may do to the Space.
Arrive(t) ==
    \/ AddConversation(t) \/ OperatorRestart(t) \/ RequestMaintenance(t)
    \/ ClockMaintenance(t) \/ OpenSpace(t)

Next ==
    \/ \E t \in Tasks : Step(t) \/ Arrive(t) \/ PersistTurn(t) \/ HandOffFails(t) \/ AbortMaintenance(t)
    \/ BeginClose \/ CaptureAgain \/ CancelTasks \/ CancelEngine \/ Reconcile \/ Crash

Spec == Init /\ [][Next]_vars

\* Every started task goes on: tokio polls a task that is ready, and a pass ends
\* because drive_runner_loop bounds its turns and its wall-clock time.
Fairness ==
    /\ \A t \in Tasks : WF_vars(Step(t))
    /\ \A t \in Tasks : WF_vars(OpenSpace(t))

FairSpec == Spec /\ Fairness

-----------------------------------------------------------------------------
(* Properties.                                                             *)

\* The task is forming, settling or running a maintenance pass.  An owned task is
\* not polled after cancel(), so what it was doing no longer writes.
WritesGraph(t) ==
    \/ pc[t] = "metabolize"
    \/ Running /\ pc[t] \in {"process", "handoff", "sleep"}

\* The comment on ProcessingGate: "One admission lock for both writers".  A
\* formation pass, a settlement and a maintenance pass never overlap, whatever
\* requests, loops and cycles are in flight.
SingleWriter ==
    \A t, u \in Tasks : WritesGraph(t) /\ WritesGraph(u) => t = u

\* A taken slot or flag always has a task that will give it back, so no exit
\* path of a loop, a cycle, an aborted request or a dropped task wedges the Space.
NoLeakedGate ==
    /\ slot # 0 => \E t \in Tasks : pc[t] \in OwnerPcs /\ cur[t] = slot
    /\ maint => \E t \in Tasks : pc[t] \in MaintPcs

\* "Formation processes a Space's queue sequentially" (anda_brain/README.md): a
\* pass beyond the watermark is of the first unsettled conversation beyond it.
QueueOrder ==
    \A t \in Tasks : pc[t] = "process" =>
        \A c \in Ids : processed < c /\ c < cur[t] => status[c] \in Terminal

\* The watermark only rises, and only over conversations that are settled; a
\* skipped one would never be looked for again.
WatermarkNeverSkips ==
    [][processed' # processed =>
         /\ processed' > processed
         /\ \A c \in Ids : processed < c /\ c <= processed' => status'[c] \in Terminal]_vars

\* close() says it must never "blindly replay the model workflow": a pass that was
\* running when a graceful close cancelled it is settled by the time the Space can be
\* reopened, although the loop may have moved on since close() looked at the slot.
CutIsNeverReplayed ==
    phase = "closed" => \A c \in cut : status[c] \in Terminal

\* The cadence of a scope never moves back, so a slow cycle that read the
\* watermark early cannot undo what a later one recorded.
CadenceNeverRewinds ==
    [][\A s \in Scopes : doneAt'[s] >= doneAt[s]]_vars

\* What a task holds the graph for.  A loop that was admitted but not yet spawned
\* does not write, and an owned task is not polled after cancel().
Holding(t) ==
    IF pc[t] = "metabolize" \/ (Running /\ pc[t] \in MaintPcs)
    THEN [kind |-> "maintaining", conv |-> 0]
    ELSE IF Running /\ pc[t] \in OwnerPcs \ {"spawn"}
    THEN [kind |-> "forming", conv |-> cur[t]]
    ELSE [kind |-> "free", conv |-> 0]

Lease == INSTANCE GraphLease WITH
    lease <- [t \in Tasks |-> Holding(t)], watermark <- processed

\* The gate implements the lease of the graph: one task at a time forms, in
\* ascending order, or maintains, a cycle takes over only what was settled, and the
\* watermark moves only over the conversation the holder formed, through closes,
\* crashes, aborted requests and cycles that fail to start.
GraphIsLeased == Lease!Spec

\* A caller or the clock asks for a maintenance cycle.
AsksMaintenance == \E t \in Tasks : RequestMaintenance(t) \/ ClockMaintenance(t)

\* No lost wake-up: every conversation is eventually settled, however its arrival
\* interleaves with a loop that is leaving or with a cycle that holds the flag.
\* Without an end to the maintenance requests this cannot be promised: each cycle
\* can take the flag again before the resumed queue reaches its admission.
EveryConversationSettles ==
    \/ []<><<AsksMaintenance>>_vars
    \/ \A c \in Ids : status[c] = "submitted" ~> status[c] \in Terminal

\* The queue "skips terminal" conversations (the test of find_next_submitted):
\* no pass is admitted for a conversation that is already settled.
SettledIsNeverFormedAgain ==
    [][\A t \in Tasks : pc[t] = "try" /\ pc'[t] = "spawn" => status[cur[t]] \notin Terminal]_vars

=============================================================================
