---------------------------- MODULE ActionRuntime ----------------------------
(***************************************************************************)
(* The action runtime of a Space (action/): gates that decide what a fired *)
(* wake leads to, their continuations, clarification replies, and fenced   *)
(* dispatch to an external target.                                         *)
(*                                                                         *)
(* The runtime's mutex serialises all its work, so the hard part is what a *)
(* crash leaves between the durable writes of one pass: the journal job,   *)
(* the native commit of a wake, the native dispatch intent, the effect at  *)
(* the target, and the acknowledgement.  The native control records and    *)
(* the target are external; they are modelled from how this code uses them.*)
(*                                                                         *)
(* A wake is the path of continuation keys from its fire.                  *)
(***************************************************************************)
EXTENDS Integers, Sequences, FiniteSets

CONSTANTS
    Fires,          \* wakes that Watches fired
    Operation,      \* the deduplication key of each fire's business operation
    NoOperation,    \* no deduplication key
    Idempotent,     \* ActionExecutor::supports_idempotency
    Lookup,         \* whether a lookup binding is installed
    Proposals,      \* what the policy may suggest
    MaxRetries,     \* ActionLimits.max_retries
    MaxDepth,       \* bound: continuations on a path
    MaxFence,       \* bound: fences at which a lease may still expire
    MaxOperator,    \* bound: operator retries of one wake
    Faults          \* which faults this instance has

Decisions == {"act", "ask", "defer", "silence"}

ASSUME FlagsAssumption == Idempotent \in BOOLEAN /\ Lookup \in BOOLEAN
ASSUME ProposalsAssumption == Proposals \subseteq Decisions
ASSUME BoundsAssumption == {MaxRetries, MaxDepth, MaxFence, MaxOperator} \subseteq Nat
ASSUME FaultsAssumption == Faults \subseteq 
    {"crash", "gate", "target", "ack", "lease", "operator", "switch"}

\* The continuation keys prepare() may give a gate.
Gates == {"retry", "manual", "answer"}
Asks == IF "ask" \in Proposals THEN {"answer", "clarification"} ELSE {}
Children(w) ==
    LET key == IF Len(w) = 1 THEN "retry" ELSE w[Len(w)]
    IN  CASE key \in Gates -> {"retry", "manual", "dispatch"} \cup Asks
          [] key = "clarification" -> {"manual", "dispatch"}
          [] OTHER -> {}

Keys == {"retry", "manual", "dispatch", "answer", "clarification"}
Paths(n) ==
    {w \in [1..n -> Fires \cup Keys] :
        /\ w[1] \in Fires
        /\ \A i \in 2..n : w[i] \in Children(SubSeq(w, 1, i - 1))}
Wakes == UNION {Paths(n) : n \in 1..(MaxDepth + 1)}

Key(w) == IF Len(w) = 1 THEN "gate" ELSE w[Len(w)]
Parent(w) == SubSeq(w, 1, Len(w) - 1)
IsDispatch(w) == Key(w) = "dispatch"
NoWake == <<>>
Startable == {w \in Wakes : IsDispatch(w) \/ Len(w) <= MaxDepth}

VARIABLES
    \* native control records
    wake,           \* [state, fence] of each wake
    decision,       \* the DecisionRecord each gate committed
    dispatch,       \* the dispatch record of each attempt
    \* the journal
    job, owner, reply,
    enabled,        \* the host's switch
    \* the world
    expired,        \* asks whose reply deadline has passed
    sends,          \* calls of the executor for each attempt
    effects,        \* how often the target executed each attempt
    \* volatile
    up, task

native == <<wake, decision, dispatch>>
journal == <<job, owner, reply, enabled>>
world == <<expired, sends, effects>>
vars == <<wake, decision, dispatch, job, owner, reply, enabled, expired, sends, effects, up, task>>

JobStates == {"none", "pending", "retrying", "blocked", "committed", "cancelled", "completed",
              "awaiting_reply", "awaiting_outcome", "awaiting_completion", "outcome_unknown",
              "ready"}

NewJob == [state |-> "none", rounds |-> 0, failures |-> 0, attempts |-> 0, operator |-> 0,
           prepared |-> "none", fence |-> 0, delivery |-> "none"]
NoTask == [wake |-> NoWake, at |-> "idle", job |-> NewJob, timeout |-> FALSE, permit |-> "none"]

GateAts == {"gate", "propose", "save", "commit"}
TargetAts == {"dispatch", "lookup", "begin"}
Ats == {"idle", "gate", "propose", "save", "commit", "dispatch", "lookup", "begin", "send",
        "close"}

TypeOK ==
    /\ wake \in [Wakes -> [state : {"absent", "pending", "running", "blocked", "completed",
                                    "cancelled"}, fence : Nat]]
    /\ decision \in [Wakes -> Decisions \cup {"none"}]
    /\ dispatch \in [Wakes -> {"none", "started", "ready", "outcome_unknown", "completed"}]
    /\ job \in [Wakes -> [state : JobStates, rounds : 0..MaxRetries + MaxDepth,
                          failures : 0..MaxRetries + 1,
                          attempts : 0..MaxRetries + 1, operator : 0..MaxOperator,
                          prepared : Decisions \cup {"none"}, fence : Nat,
                          delivery : {"none", "accepted", "finished", "unknown"}]]
    /\ owner \in [{Operation[f] : f \in Fires} -> Wakes \cup {NoWake}]
    /\ reply \subseteq Wakes
    /\ enabled \in BOOLEAN
    /\ expired \subseteq Wakes
    /\ sends \in [Wakes -> Nat]
    /\ effects \in [Wakes -> Nat]
    /\ up \in BOOLEAN
    /\ task.wake \in Wakes \cup {NoWake}
    /\ task.at \in Ats

Init ==
    /\ wake = [w \in Wakes |-> [state |-> IF Len(w) = 1 THEN "pending" ELSE "absent", fence |-> 0]]
    /\ decision = [w \in Wakes |-> "none"]
    /\ dispatch = [w \in Wakes |-> "none"]
    /\ job = [w \in Wakes |-> NewJob]
    /\ owner = [o \in {Operation[f] : f \in Fires} |-> NoWake]
    /\ reply = {}
    /\ enabled = TRUE
    /\ expired = {}
    /\ sends = [w \in Wakes |-> 0]
    /\ effects = [w \in Wakes |-> 0]
    /\ up = TRUE
    /\ task = NoTask

-----------------------------------------------------------------------------
(* Shared steps of a pass.  The pass works on task.job and saves it.       *)

Work == task.wake
Prior == dispatch[Work]
InFlight == Prior \in {"started", "outcome_unknown"}
Local == task.job
Save(j) == job' = [job EXCEPT ![Work] = j]
End(j) == Save(j) /\ task' = NoTask
Goto(a) == task' = [task EXCEPT !.at = a]
SetWake(w, s) == wake' = [wake EXCEPT ![w].state = s]

\* Resume::verify: a blocked wake resumes after an operator's retry, or once its
\* dispatch was reconciled.
MayResume(w) == job[w].state = "pending" \/ dispatch[w] \in {"completed", "ready"}

\* acquire: a blocked wake is resumed; a live lease of this principal is kept or
\* renewed, and any other wake is claimed under a new fence.
Acquirable(w) == wake[w].state = "blocked" => MayResume(w)
Fences(w) ==
    IF wake[w].state # "running" THEN {wake[w].fence + 1}
    ELSE {wake[w].fence} \cup
         {f \in {wake[w].fence + 1} : "lease" \in Faults /\ f <= MaxFence}
Acquire(w, s) ==
    /\ Acquirable(w)
    /\ \E f \in Fences(w) : wake' = [wake EXCEPT ![w] = [state |-> s, fence |-> f]]

\* confirm_parent: the exact replay of a committed gate repairs a job whose
\* acknowledgement was lost.
Confirmed(w) ==
    IF w \in Wakes /\ decision[w] # "none" THEN [job EXCEPT ![w].state = "committed"] ELSE job

\* Mutant: a failed pass is retried without counting it.
FailedForever(j) == [j EXCEPT !.state = "retrying"]

\* process_owned: a failed pass counts a failure; the last one blocks.
Failed(j) ==
    [j EXCEPT !.failures = IF @ > MaxRetries THEN @ ELSE @ + 1,
              !.state = IF j.failures + 1 > MaxRetries THEN "blocked" ELSE "retrying"]

Answered(w) == Parent(Parent(w)) \in reply      \* of a clarification's dispatch
IsClarification(w) == Len(w) > 2 /\ Key(Parent(w)) = "clarification"

-----------------------------------------------------------------------------
(* The gate.                                                               *)

\* A blocked dispatch that no outcome, lookup, reply or operator has moved: a pass
\* would return it as it is, and is left out.
Parked(w) ==
    /\ job[w].state = "blocked"
    /\ dispatch[w] # "completed"
    /\ dispatch[w] = "ready" => job[w].attempts > MaxRetries
    /\ ~(IsClarification(w) /\ Answered(w) /\ dispatch[w] \in {"none", "ready"})

\* process_owned and the head of drive: the journal job is loaded, a committed
\* parent whose acknowledgement was lost is repaired, and an open ask waits.
Start(w) ==
    /\ up
    /\ enabled
    /\ task.at = "idle"
    /\ wake[w].state \in {"pending", "running", "blocked"}
    /\ w \in Startable
    /\ IF IsDispatch(w) THEN ~Parked(w) ELSE job[w].state # "blocked"
    /\ LET p == Parent(w)
           rounds == IF Len(w) = 1 \/ job[w].operator > 0 THEN job[w].rounds
                     ELSE job[p].rounds + (IF Key(w) = "retry" THEN 1 ELSE 0)
           open == Key(w) = "answer" /\ p \notin reply
           timeout == open /\ p \in expired
       IN  \/ /\ open /\ ~timeout
              /\ job' = [Confirmed(p) EXCEPT ![w].state = "awaiting_reply", ![w].rounds = rounds]
              /\ UNCHANGED task
           \/ /\ ~open \/ timeout
              /\ job' = Confirmed(p)
              /\ task' = [NoTask EXCEPT
                   !.wake = w,
                   !.at = IF IsDispatch(w) THEN "dispatch" ELSE "gate",
                   !.job = [job[w] EXCEPT !.rounds = IF timeout THEN MaxRetries ELSE rounds,
                                          !.state = IF @ = "none" THEN "pending" ELSE @],
                   !.timeout = timeout]
    /\ UNCHANGED <<native, owner, reply, enabled, world, up>>

\* The gate takes its lease.  A manual continuation waits for an operator; a
\* prepared gate is committed as prepared, under the lease's fence.
AcquireGate ==
    /\ task.at = "gate"
    /\ \/ /\ Key(Work) = "manual" /\ Local.operator = 0
          /\ Acquire(Work, "blocked")
          /\ End([Local EXCEPT !.state = "blocked"])
       \/ /\ Key(Work) # "manual" \/ Local.operator > 0
          /\ Acquire(Work, "running")
          /\ task' = [task EXCEPT !.at = IF Local.prepared = "none" THEN "propose" ELSE "save",
                                  !.job.fence = wake'[Work].fence]
          /\ UNCHANGED job
    /\ UNCHANGED <<decision, dispatch, owner, reply, enabled, world, up>>

\* Mutant: the second gate of an operation takes the record over unless its owner
\* has already committed.
DeduplicateTakesOver(d) ==
    LET op == Operation[Work[1]]
    IN  IF d # "act" \/ op = NoOperation \/ Key(Work) = "clarification" THEN <<d, owner>>
        ELSE IF owner[op] # NoWake /\ decision[owner[op]] = "act" THEN <<"silence", owner>>
        ELSE <<d, [owner EXCEPT ![op] = Work]>>

\* deduplicate: the first gate of an operation registers itself; a later one is
\* silenced by a committed act and deferred by an unresolved owner.
Deduplicate(d) ==
    LET op == Operation[Work[1]]
    IN  IF d # "act" \/ op = NoOperation \/ Key(Work) = "clarification" \/ owner[op] = Work
        THEN <<d, owner>>
        ELSE IF owner[op] = NoWake THEN <<d, [owner EXCEPT ![op] = Work]>>
        ELSE IF decision[owner[op]] = "act" THEN <<"silence", owner>>
        ELSE <<"defer", owner>>

\* What a gate may propose: a timeout only defers, and a clarification only
\* delivers the question while it is open.  Any suggestion is deferred when its
\* context is insufficient, a budget is exceeded or authorization is refused.
Suggested ==
    CASE task.timeout -> {"defer"}
      [] Key(Work) = "clarification" /\ Parent(Work) \in reply -> {"silence"}
      [] Key(Work) = "clarification" /\ Parent(Work) \in expired -> {"defer"}
      [] Key(Work) = "clarification" -> {"act", "defer"}
      [] OTHER -> Proposals \cup {"defer"}

Consulted(d) ==
    LET op == Operation[Work[1]]
    IN  IF d = "act" /\ op # NoOperation /\ Key(Work) # "clarification" THEN owner[op] ELSE NoWake

Propose ==
    /\ task.at = "propose"
    /\ \E d \in Suggested :
         LET prepared == Deduplicate(d)
         IN  /\ owner' = prepared[2]
             /\ job' = Confirmed(Consulted(d))
             /\ task' = [task EXCEPT !.at = "save", !.job.prepared = prepared[1]]
    /\ UNCHANGED <<native, reply, enabled, world, up>>

\* Mutant: the preparation is not written before the native commit.
SavePreparedLate ==
    /\ task.at = "save"
    /\ Goto("commit")
    /\ UNCHANGED <<native, journal, world, up>>

\* The preparation is acknowledged by the journal before the native commit.
SavePrepared ==
    /\ task.at = "save"
    /\ Save(Local)
    /\ Goto("commit")
    /\ UNCHANGED <<native, owner, reply, enabled, world, up>>

\* The continuations a decision asks for.
Continuations(w, j) ==
    CASE j.prepared = "act" -> {"dispatch"}
      [] j.prepared = "ask" -> {"answer", "clarification"}
      [] j.prepared = "defer" ->
           {IF Key(w) = "clarification" \/ j.rounds >= MaxRetries THEN "manual" ELSE "retry"}
      [] OTHER -> {}

\* finish_wake: the decision, its continuations and the wake's completion are
\* one native transaction under the prepared fence.
Commit ==
    /\ task.at = "commit"
    /\ Local.fence = wake[Work].fence
    /\ decision' = [decision EXCEPT ![Work] = Local.prepared]
    /\ wake' = [w \in Wakes |->
         IF w = Work THEN [wake[w] EXCEPT !.state = "completed"]
         ELSE IF Len(w) > 1 /\ Parent(w) = Work /\ Key(w) \in Continuations(Work, Local)
         THEN [state |-> "pending", fence |-> 0]
         ELSE wake[w]]
    /\ task' = [task EXCEPT !.at = "close", !.job.state = "committed"]
    /\ UNCHANGED <<dispatch, journal, world, up>>

\* The pass ends by saving its job.  Losing that write is survived.
Close ==
    /\ task.at = "close"
    /\ \/ End(Local)
       \/ "ack" \in Faults /\ task' = NoTask /\ UNCHANGED job
    /\ UNCHANGED <<native, owner, reply, enabled, world, up>>

-----------------------------------------------------------------------------
(* Dispatch.                                                               *)

\* A clarification that was answered before it was sent is cancelled.
CancelAnswered ==
    /\ task.at = "dispatch"
    /\ IsClarification(Work) /\ Answered(Work)
    /\ Prior \in {"none", "ready"}
    /\ SetWake(Work, "cancelled")
    /\ End([Local EXCEPT !.state = "cancelled"])
    /\ UNCHANGED <<decision, dispatch, owner, reply, enabled, world, up>>

\* The cases of dispatch() below follow each other in its order.
Open ==
    /\ task.at = "dispatch"
    /\ ~(IsClarification(Work) /\ Answered(Work) /\ Prior \in {"none", "ready"})

\* An outcome was reconciled: the wake finishes.
FinishDispatch ==
    /\ Open
    /\ Prior = "completed"
    /\ Acquire(Work, "completed")
    /\ End([Local EXCEPT !.state = "completed"])
    /\ UNCHANGED <<decision, dispatch, owner, reply, enabled, world, up>>

MayLookup == Lookup /\ Local.attempts <= MaxRetries /\ Local.delivery # "finished"
CanReplay ==
    /\ Idempotent
    /\ Local.delivery \in {"none", "unknown"}
    /\ Local.attempts <= MaxRetries
    /\ Prior # "outcome_unknown"

\* Work that only an operator or an outcome can move: an unknown outcome and an
\* exhausted budget block the wake.
Unresolvable == InFlight /\ ~MayLookup /\ ~CanReplay
BlockDispatch ==
    /\ Open
    /\ Prior # "completed"
    /\ Unresolvable \/ (~InFlight /\ Local.attempts > MaxRetries)
    /\ \/ /\ wake[Work].state # "blocked"
          /\ Acquire(Work, "blocked")
          /\ End([Local EXCEPT !.state = "blocked"])
       \/ /\ wake[Work].state = "blocked"
          /\ End([Local EXCEPT !.state = IF Unresolvable THEN "blocked" ELSE @])
          /\ UNCHANGED wake
    /\ UNCHANGED <<decision, dispatch, owner, reply, enabled, world, up>>

\* The attempt is counted durably before the target is asked about it.
CountLookup ==
    /\ Open
    /\ InFlight /\ MayLookup
    /\ Save([Local EXCEPT !.attempts = @ + 1])
    /\ task' = [task EXCEPT !.at = "lookup", !.job.attempts = @ + 1]
    /\ UNCHANGED <<native, owner, reply, enabled, world, up>>

\* Mutant: a target that does not know the attempt is taken not to have started it.
LookupUnknownIsReady ==
    /\ task.at = "lookup"
    /\ InFlight
    /\ dispatch' = [dispatch EXCEPT ![Work] = "ready"]
    /\ task' = [task EXCEPT !.at = "close", !.job.state = "ready", !.job.delivery = "none"]
    /\ UNCHANGED <<wake, decision, journal, world, up>>

\* An authoritative answer reconciles the native record.
LookupTarget ==
    /\ task.at = "lookup"
    /\ InFlight
    /\ \/ /\ effects[Work] = 0
          /\ dispatch' = [dispatch EXCEPT ![Work] = "ready"]
          /\ task' = [task EXCEPT !.at = "close", !.job.state = "ready", !.job.delivery = "none"]
       \/ /\ effects[Work] > 0
          /\ \E d \in {"accepted", "finished"} :
               task' = [task EXCEPT !.at = "close", !.job.state = "awaiting_outcome",
                                    !.job.delivery = d]
          /\ UNCHANGED dispatch
       \/ /\ dispatch' = [dispatch EXCEPT ![Work] = "outcome_unknown"]
          /\ task' = [task EXCEPT !.at = "close", !.job.state = "outcome_unknown"]
    /\ UNCHANGED <<wake, decision, journal, world, up>>

\* The attempt is sent: first, after an authoritative NotStarted, or again.
SendDue ==
    /\ Open
    /\ Prior # "completed"
    /\ InFlight => ~MayLookup /\ CanReplay
    /\ Local.attempts <= MaxRetries

\* Mutant: the attempt is counted only by the write at the end of the pass.
CountSendLate ==
    /\ SendDue
    /\ Acquire(Work, "running")
    /\ task' = [task EXCEPT !.at = "begin", !.job.attempts = @ + 1]
    /\ UNCHANGED <<decision, dispatch, journal, world, up>>

\* The attempt is counted durably, under a lease, before it is admitted.
CountSend ==
    /\ SendDue
    /\ Acquire(Work, "running")
    /\ Save([Local EXCEPT !.attempts = @ + 1])
    /\ task' = [task EXCEPT !.at = "begin", !.job.attempts = @ + 1]
    /\ UNCHANGED <<decision, dispatch, owner, reply, enabled, world, up>>

\* begin_wake_dispatch: the native record admits a first send, one after an
\* authoritative NotStarted, or a replay to an idempotent target.
Permit ==
    CASE Prior \in {"none", "ready"} -> "dispatch"
      [] Prior = "started" /\ Idempotent -> "dispatch"
      [] Prior = "completed" -> "done"
      [] OTHER -> "outcome_unknown"

Begin ==
    /\ task.at = "begin"
    /\ dispatch' = [dispatch EXCEPT ![Work] = IF Permit = "dispatch" THEN "started" ELSE @]
    /\ task' = [task EXCEPT !.at = "send", !.permit = Permit]
    /\ UNCHANGED <<wake, decision, journal, world, up>>

\* The executor is called without another write in between.  Its answer may be
\* lost whether or not the target executed; an idempotent target executes once.
Send ==
    /\ task.at = "send"
    /\ task.permit = "dispatch"
    /\ sends' = [sends EXCEPT ![Work] = @ + 1]
    /\ \E done \in BOOLEAN, d \in {"accepted", "finished", "unknown"} :
         /\ d # "unknown" => done
         /\ effects' = [effects EXCEPT ![Work] =
                          IF ~done \/ (Idempotent /\ @ > 0) THEN @ ELSE @ + 1]
         /\ task' = [task EXCEPT !.at = "close", !.job.delivery = d,
                       !.job.state = IF d = "unknown" THEN "outcome_unknown"
                                     ELSE "awaiting_outcome"]
    /\ UNCHANGED <<native, journal, expired, up>>

\* A permit that does not admit a send.
Withhold ==
    /\ task.at = "send"
    /\ task.permit # "dispatch"
    /\ task' = [task EXCEPT !.at = "close",
                  !.job.state = IF task.permit = "done" THEN "awaiting_completion"
                                ELSE "outcome_unknown"]
    /\ UNCHANGED <<native, journal, world, up>>

\* A callback, a revalidation, a lookup that lost a race or a refused resume
\* fails the pass.  A preparation that was not saved is dropped.  (Failing at once,
\* a pass over a blocked dispatch changes nothing.)
Unsaved(j) == [j EXCEPT !.prepared = job[Work].prepared, !.fence = job[Work].fence]
FailPass ==
    /\ task.at = "dispatch" => Local.state # "blocked"
    /\ \/ "gate" \in Faults /\ task.at \in GateAts
       \/ "gate" \in Faults /\ task.at = "close" /\ ~IsDispatch(Work)
       \/ "target" \in Faults /\ task.at \in TargetAts
       \/ (task.at = "gate" \/ SendDue) /\ ~Acquirable(Work)
       \/ task.at = "lookup" /\ ~InFlight
    /\ LET j == Failed(IF task.at = "save" THEN Unsaved(Local) ELSE Local)
       IN  /\ End(j)
           /\ IF j.state = "blocked" /\ wake[Work].state = "running"
              THEN SetWake(Work, "blocked")
              ELSE UNCHANGED wake
    /\ UNCHANGED <<decision, dispatch, owner, reply, enabled, world, up>>

-----------------------------------------------------------------------------
(* The other users of the runtime.                                         *)

\* Mutant: an answer is recorded without the runtime's mutex.
RespondUnlocked(w) ==
    /\ up
    /\ decision[w] = "ask"
    /\ w \notin reply \cup expired
    /\ reply' = reply \cup {w}
    /\ job' = Confirmed(w)
    /\ UNCHANGED <<native, owner, enabled, world, up, task>>

\* respond: an answer is recorded once, before its deadline.
Respond(w) ==
    /\ up
    /\ task.at = "idle"
    /\ decision[w] = "ask"
    /\ w \notin reply \cup expired
    /\ reply' = reply \cup {w}
    /\ job' = Confirmed(w)
    /\ UNCHANGED <<native, owner, enabled, world, up, task>>

\* set_enabled: the host pauses the runtime between two passes.
SetEnabled ==
    /\ up
    /\ "switch" \in Faults
    /\ task.at = "idle"
    /\ enabled' = ~enabled
    /\ UNCHANGED <<native, job, owner, reply, world, up, task>>

\* retry: an operator opens a new retry window for retained work.
Retry(w) ==
    /\ up
    /\ task.at = "idle"
    /\ "operator" \in Faults
    /\ wake[w].state \in {"pending", "running", "blocked"}
    /\ job[w].state # "none"
    /\ job[w].operator < MaxOperator
    /\ job' = [job EXCEPT ![w].failures = 0, ![w].attempts = 0, ![w].rounds = 0,
                          ![w].operator = @ + 1, ![w].state = "pending"]
    /\ UNCHANGED <<native, owner, reply, enabled, world, up, task>>

\* The reply deadline of an ask passes.
Expire(w) ==
    /\ decision[w] = "ask"
    /\ w \notin expired
    /\ expired' = expired \cup {w}
    /\ UNCHANGED <<native, journal, sends, effects, up, task>>

\* An observer's terminal measurement, not unknown and no correction, completes the dispatch
\* record.  Nobody asks the target whether it executed anything.
Outcome(w) ==
    /\ up
    /\ dispatch[w] \in {"started", "outcome_unknown"}
    /\ dispatch' = [dispatch EXCEPT ![w] = "completed"]
    /\ UNCHANGED <<wake, decision, journal, world, up, task>>

Crash ==
    /\ up
    /\ "crash" \in Faults
    /\ up' = FALSE
    /\ task' = NoTask
    /\ UNCHANGED <<native, journal, world>>

Restart ==
    /\ ~up
    /\ up' = TRUE
    /\ UNCHANGED <<native, journal, world, task>>

Pass ==
    \/ AcquireGate \/ Propose \/ SavePrepared \/ Commit \/ Close \/ FailPass
    \/ CancelAnswered \/ FinishDispatch \/ BlockDispatch \/ CountLookup \/ LookupTarget
    \/ CountSend \/ Begin \/ Send \/ Withhold

Next ==
    \/ \E w \in Wakes : Start(w) \/ Respond(w) \/ Retry(w) \/ Expire(w) \/ Outcome(w)
    \/ Pass
    \/ SetEnabled
    \/ Crash
    \/ Restart

Spec == Init /\ [][Next]_vars

\* The attention service keeps handing open wakes to the runtime; a pass runs to
\* its end, and time passes.
Fairness ==
    /\ WF_vars(\E w \in Wakes : Start(w))
    /\ WF_vars(\E w \in Wakes : Expire(w))
    /\ WF_vars(Pass)
    /\ WF_vars(Restart)
FairSpec == Spec /\ Fairness

-----------------------------------------------------------------------------
(* Properties.                                                             *)

\* A target that cannot deduplicate executes an attempt at most once, whatever
\* crashes, lost answers, lookups and operator retries surround the executor call.
AtMostOneEffect == ~Idempotent => \A w \in Wakes : effects[w] <= 1

\* Two fires of one business operation never both commit to acting on it, however
\* their gates, retries and crashes interleave around the deduplication record.
OneActPerOperation ==
    \A v, w \in Wakes :
        /\ decision[v] = "act" /\ decision[w] = "act"
        /\ Key(v) # "clarification" /\ Key(w) # "clarification"
        /\ Operation[v[1]] = Operation[w[1]] /\ Operation[v[1]] # NoOperation
        => v = w

\* max_retries bounds the executor calls of an attempt within each operator window,
\* also when passes crash or lose their last write.
RetryBudget == \A w \in Wakes : sends[w] <= (job[w].operator + 1) * (MaxRetries + 1)

\* The journal always holds the preparation of a committed decision, so that an
\* exact replay can recover a lost acknowledgement.
JournalCoversCommits ==
    \A w \in Wakes : decision[w] # "none" => job[w].prepared = decision[w]

\* A question that was answered while nothing of it was in flight is not delivered.
AnsweredIsNotAsked ==
    [][\A w \in Wakes :
          IsClarification(w) /\ Answered(w) /\ dispatch[w] \in {"none", "ready"}
          => dispatch'[w] # "started"]_vars

\* Everything the runtime can start ends: committed, finished, cancelled, or blocked
\* for an operator or an outcome, whatever fails on the way, unless the process
\* crashes for ever (process_owned's failure count, max_retries, the ask deadline).
Unsettled(w) == wake[w].state \in {"pending", "running"} /\ job[w].state # "blocked"
EveryWakeSettles ==
    []<><<Crash>>_vars \/ []<>(\A w \in Startable : ~Unsettled(w))
=============================================================================
