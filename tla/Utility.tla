------------------------------- MODULE Utility -------------------------------
(***************************************************************************)
(* The calibration of a memory's utility from observed outcomes: the      *)
(* catalogue of targets and its slots, the complete intent that is saved  *)
(* before the native transaction, the claims on independent sampling      *)
(* units, and the background pass over the observation index.             *)
(*                                                                         *)
(* Operations hold one gate; the pass takes it once per operation, so host *)
(* calls run between its parts. Evidence changes at any moment, and a      *)
(* crash or a failed write may stop an operation after any durable step.   *)
(***************************************************************************)
EXTENDS Integers, Sequences, FiniteSets, SequencesExt

CONSTANTS
    NumOutcomes,    \* outcomes, numbered as the observation index publishes them
    TargetOf(_),    \* the memory that an outcome's decision used
    UnitOf(_),      \* the independent sampling unit of its contribution witness
    MinSamples,     \* minimum_independent_samples: the fixed size of a group
    MaxTargets,     \* MAX_TARGETS
    MaxSamples,     \* MAX_SAMPLES: outcomes that wait at one target
    Page,           \* outcomes of one page of the index (8)
    Faults,         \* among "archived", "contested", "rewritten", "conflict", "interrupt", "host"
    MaxFaults,      \* bound on interruptions, calls of the host and other writes
    MaxGen          \* bound on the generations of a target's intents

VARIABLES
    published,  \* the length of the observation index
    evidence,   \* native: each outcome is "good", "contested" by a correction or "archived"
    rewritten,  \* native: targets whose content changed since it was delivered
    version,    \* native: the version of each target
    txs,        \* native: committed idempotency keys
    charged,    \* native: how often the effect of a unit was applied to a utility
    catalog, slots, targets, units, results,    \* the journal of the runtime
    call,       \* the operation that holds the gate
    pass,       \* the background pass
    faults

native == <<published, evidence, rewritten, version, txs, charged>>
journal == <<catalog, slots, targets, units, results>>
vars == <<native, journal, call, pass, faults>>

Outcomes == 1..NumOutcomes
Targets == {TargetOf(o) : o \in Outcomes}
Units == {UnitOf(o) : o \in Outcomes}

None == [none |-> TRUE]
Idle == [at |-> "idle"]
NewTarget(t) == [id |-> t, outcomes |-> {}, pending |-> None, applied |-> None, last |-> FALSE, gen |-> 0]

Init ==
    /\ published = 0
    /\ evidence = [o \in Outcomes |-> "good"]
    /\ rewritten = {}
    /\ version = [t \in Targets |-> 0]
    /\ txs = {}
    /\ charged = [u \in Units |-> 0]
    /\ catalog = [allocated |-> 0, cursor |-> 0, source |-> 0, pending |-> None]
    /\ slots = <<>>
    /\ targets = [t \in Targets |-> None]
    /\ units = [u \in Units |-> None]
    /\ results = {}
    /\ call = Idle
    /\ pass = Idle
    /\ faults = 0

-----------------------------------------------------------------------------
(* The native graph around the runtime. *)

\* The consequence runtime publishes one more native outcome in its index.
Publish ==
    /\ published < NumOutcomes
    /\ published' = published + 1
    /\ UNCHANGED <<evidence, rewritten, version, txs, charged, journal, call, pass, faults>>

\* A correction contests an outcome (a mark beside the row), or the row is archived.
Challenge(o, how) ==
    /\ how \in Faults
    /\ o <= published
    /\ evidence[o] = "good"
    /\ evidence' = [evidence EXCEPT ![o] = how]
    /\ UNCHANGED <<published, rewritten, version, txs, charged, journal, call, pass, faults>>

\* Another writer changes the memory: its content, or its metadata alone.
Rewrite(t) ==
    /\ "rewritten" \in Faults
    /\ faults < MaxFaults
    /\ faults' = faults + 1
    /\ rewritten' = rewritten \cup {t}
    /\ version' = [version EXCEPT ![t] = @ + 1]
    /\ UNCHANGED <<published, evidence, txs, charged, journal, call, pass>>

Touch(t) ==
    /\ "conflict" \in Faults
    /\ faults < MaxFaults
    /\ faults' = faults + 1
    /\ version' = [version EXCEPT ![t] = @ + 1]
    /\ UNCHANGED <<published, evidence, rewritten, txs, charged, journal, call, pass>>

-----------------------------------------------------------------------------
(* The gate. An operation answers the host, or the part of the pass that   *)
(* started it; a failure ends the pass, whose cursors are then not saved.  *)

Start(op) == call = Idle /\ call' = op

Answered == /\ call' = Idle
            /\ pass' = IF call.by = "pass" THEN [pass EXCEPT !.waits = FALSE] ELSE pass

Refused == /\ call' = Idle
           /\ pass' = IF call.by = "pass" THEN Idle ELSE pass

HostEnqueue(o) ==
    /\ "host" \in Faults
    /\ o <= published
    /\ faults < MaxFaults
    /\ Start([at |-> "register", op |-> "enqueue", o |-> o, by |-> "host"])
    /\ faults' = faults + 1
    /\ UNCHANGED <<native, journal, pass>>

HostEvaluate(t) ==
    /\ "host" \in Faults
    /\ targets[t] # None
    /\ faults < MaxFaults
    /\ Start([at |-> "register", op |-> "evaluate", t |-> t, by |-> "host"])
    /\ faults' = faults + 1
    /\ UNCHANGED <<native, journal, pass>>

\* Mutant: an allocation that was cut short is forgotten instead of repaired.
RegisterUnrepaired ==
    /\ call.at = "register"
    /\ catalog' = [catalog EXCEPT !.pending = None]
    /\ call' = [call EXCEPT !.at = call.op]
    /\ UNCHANGED <<native, slots, targets, units, results, pass, faults>>

\* register: repair the target that the catalogue was allocating when it was interrupted.
Register ==
    /\ call.at = "register"
    /\ call' = [call EXCEPT !.at = IF catalog.pending # None THEN "repair" ELSE call.op]
    /\ UNCHANGED <<native, journal, pass, faults>>

RepairTarget ==
    /\ call.at = "repair"
    /\ targets' = [targets EXCEPT ![catalog.pending.id] = IF @ = None THEN catalog.pending ELSE @]
    /\ call' = [call EXCEPT !.at = "repair_slot"]
    /\ UNCHANGED <<native, catalog, slots, units, results, pass, faults>>

RepairSlot ==
    /\ call.at = "repair_slot"
    /\ slots' = (catalog.allocated :> catalog.pending.id) @@ slots
    /\ call' = [call EXCEPT !.at = "repaired"]
    /\ UNCHANGED <<native, catalog, targets, units, results, pass, faults>>

Repaired ==
    /\ call.at = "repaired"
    /\ catalog' = [catalog EXCEPT !.pending = None]
    /\ call' = [call EXCEPT !.at = call.op]
    /\ UNCHANGED <<native, slots, targets, units, results, pass, faults>>

-----------------------------------------------------------------------------
(* enqueue *)

Queued(t, o) == [(IF targets[t] = None THEN NewTarget(t) ELSE targets[t]) EXCEPT !.outcomes = @ \cup {o}]

EnqueueRefused ==
    /\ call.at = "enqueue"
    /\ LET t == TargetOf(call.o) IN
         \/ Cardinality(Queued(t, call.o).outcomes) > MaxSamples
         \/ targets[t] = None /\ catalog.allocated >= MaxTargets
    /\ Refused
    /\ UNCHANGED <<native, journal, faults>>

\* A known target is saved with its new outcome; a new one is first published whole in the
\* catalogue, then gets its slot, and then its own row.
Enqueue ==
    /\ call.at = "enqueue"
    /\ LET t == TargetOf(call.o) IN
         /\ Cardinality(Queued(t, call.o).outcomes) <= MaxSamples
         /\ \/ /\ targets[t] # None
               /\ targets' = [targets EXCEPT ![t] = Queued(t, call.o)]
               /\ Answered
               /\ UNCHANGED catalog
            \/ /\ targets[t] = None
               /\ catalog.allocated < MaxTargets
               /\ catalog' = [catalog EXCEPT !.allocated = @ + 1, !.pending = Queued(t, call.o)]
               /\ call' = [call EXCEPT !.at = "slot"]
               /\ UNCHANGED <<targets, pass>>
    /\ UNCHANGED <<native, slots, units, results, faults>>

PutSlot ==
    /\ call.at = "slot"
    /\ slots' = (catalog.allocated :> catalog.pending.id) @@ slots
    /\ call' = [call EXCEPT !.at = "target"]
    /\ UNCHANGED <<native, catalog, targets, units, results, pass, faults>>

PutTarget ==
    /\ call.at = "target"
    /\ targets' = [targets EXCEPT ![catalog.pending.id] = catalog.pending]
    /\ call' = [call EXCEPT !.at = "allocated"]
    /\ UNCHANGED <<native, catalog, slots, units, results, pass, faults>>

Allocated ==
    /\ call.at = "allocated"
    /\ catalog' = [catalog EXCEPT !.pending = None]
    /\ Answered
    /\ UNCHANGED <<native, slots, targets, units, results, faults>>

-----------------------------------------------------------------------------
(* evaluate *)

\* An empty set is refilled from the outcomes of the applied receipt, so that a later
\* correction of one of them is noticed.
Considered(t) ==
    IF targets[t].outcomes = {} /\ targets[t].applied # None
    THEN targets[t].applied.sel ELSE targets[t].outcomes

Consumed(u) == units[u] # None /\ units[u].receipt

\* trace: why an outcome says nothing about its target, read from the native chain of
\* outcome, attempt and decision; "" when its witness qualifies. Observers, scopes and
\* receipts that never qualify are left out: they are excluded like a contested outcome.
Reason(o) == IF evidence[o] = "good" THEN "" ELSE evidence[o]

\* Why an outcome is not a sample. Of the outcomes of one unit the first counts.
Exclusion(t, o) ==
    CASE Reason(o) # "" -> Reason(o)
      [] Reason(o) = "" /\ Consumed(UnitOf(o)) -> "consumed"
      [] Reason(o) = "" /\ ~Consumed(UnitOf(o))
           /\ (\E p \in Considered(t) : p < o /\ UnitOf(p) = UnitOf(o) /\ Reason(p) = "") -> "duplicate"
      [] OTHER -> IF t \in rewritten THEN "rewritten" ELSE ""

\* The first MinSamples samples in the stable order of their references.
Samples(t) ==
    LET all == SetToSortSeq({o \in Considered(t) : Exclusion(t, o) = ""}, LAMBDA a, b : a < b)
    IN SubSeq(all, 1, IF Len(all) < MinSamples THEN Len(all) ELSE MinSamples)

Excluded(t) == [o \in {p \in Considered(t) : Exclusion(t, p) # ""} |-> Exclusion(t, o)]

CalibrationKey(t) == [target |-> t, sel |-> Samples(t), exc |-> Excluded(t)]

\* A pending intent is resumed. An evaluation that would replay a stored one answers it.
EvaluatePending ==
    /\ call.at = "evaluate"
    /\ targets[call.t].pending # None
    /\ call' = [call EXCEPT !.at = "recover"]
    /\ UNCHANGED <<native, journal, pass, faults>>

Replayed(t) ==
    \/ Considered(t) = {} /\ targets[t].last
    \/ /\ Samples(t) = <<>>
       /\ \A o \in DOMAIN Excluded(t) : Excluded(t)[o] \in {"consumed", "duplicate"}
       /\ targets[t].applied # None
    \/ CalibrationKey(t) \in results

EvaluateReplayed ==
    /\ call.at = "evaluate"
    /\ targets[call.t].pending = None
    /\ Replayed(call.t)
    /\ Answered
    /\ UNCHANGED <<native, journal, faults>>

\* The selection reads the evidence; the transaction is prepared later, from new reads.
Select ==
    /\ call.at = "evaluate"
    /\ targets[call.t].pending = None
    /\ ~Replayed(call.t)
    /\ call' = [at |-> "prepare", op |-> "evaluate", t |-> call.t, by |-> call.by,
                key |-> CalibrationKey(call.t), version |-> version[call.t]]
    /\ UNCHANGED <<native, journal, pass, faults>>

Named(key) == ToSet(key.sel) \cup DOMAIN key.exc

\* prepare_transaction: guard every evidence row with the version it has now, and save the
\* complete intent before anything is written natively.
Intend ==
    /\ call.at = "prepare"
    /\ LET apply == Len(call.key.sel) >= MinSamples
           t == call.t
       IN targets' = [targets EXCEPT ![t].outcomes = Considered(t),
            ![t].pending = [key |-> call.key, gen |-> targets[t].gen, apply |-> apply, version |-> call.version,
                            units |-> IF apply THEN [i \in 1..MinSamples |-> UnitOf(call.key.sel[i])] ELSE <<>>,
                            archived |-> {o \in Named(call.key) : evidence[o] = "archived"}]]
    /\ call' = [at |-> "recover", op |-> "evaluate", t |-> call.t, by |-> call.by]
    /\ UNCHANGED <<native, catalog, slots, units, results, pass, faults>>

-----------------------------------------------------------------------------
(* commit *)

Pending == targets[call.t].pending
IdempotencyKey(p) == <<p.key, p.gen>>

\* Mutant: the earlier transaction is not looked up, the intent is simply tried again.
RecoverUnlooked ==
    /\ call.at = "recover"
    /\ call' = [call EXCEPT !.at = "claim"] @@ [left |-> Pending.units]
    /\ UNCHANGED <<native, journal, pass, faults>>

\* recovered: the transaction that an earlier attempt committed is looked up by its key.
Recover ==
    /\ call.at = "recover"
    /\ call' = IF IdempotencyKey(Pending) \in txs
               THEN [call EXCEPT !.at = "consume"] @@ [left |-> Pending.units]
               ELSE [call EXCEPT !.at = "claim"] @@ [left |-> Pending.units]
    /\ UNCHANGED <<native, journal, pass, faults>>

Claim(p) == [target |-> p.key.target, key |-> p.key, receipt |-> FALSE]

\* Mutant: another attribution's reservation of the unit is not looked at.
ClaimedByNobody(u) == FALSE

\* A unit is claimed for this calibration key, or already is.
ClaimedByOther(u) ==
    units[u] # None /\ (units[u].target # call.t \/ units[u].key # Pending.key)

ClaimUnit ==
    /\ call.at = "claim"
    /\ call.left # <<>>
    /\ LET u == Head(call.left) IN
         \/ /\ ClaimedByOther(u)
            /\ Refused
            /\ UNCHANGED units
         \/ /\ ~ClaimedByOther(u)
            /\ units' = IF units[u] = None THEN [units EXCEPT ![u] = Claim(Pending)] ELSE units
            /\ call' = [call EXCEPT !.left = Tail(@)]
            /\ UNCHANGED pass
    /\ UNCHANGED <<native, catalog, slots, targets, results, faults>>

\* The intent is withdrawn and the next attempt gets a generation of its own.
Withdraw ==
    /\ targets[call.t].gen < MaxGen
    /\ targets' = [targets EXCEPT ![call.t].pending = None, ![call.t].gen = @ + 1]
    /\ Refused
    /\ UNCHANGED <<native, catalog, slots, units, results, faults>>

\* What the selection named must still be there, unchanged and usable, for an application.
Stale(p) ==
    p.apply /\ \E o \in Named(p.key) : evidence[o] = "archived"

WithdrawStale ==
    /\ call.at = "claim" /\ call.left = <<>>
    /\ Stale(Pending)
    /\ Withdraw

Recheck ==
    /\ call.at = "claim" /\ call.left = <<>>
    /\ ~Stale(Pending)
    /\ call' = [call EXCEPT !.at = "native"]
    /\ UNCHANGED <<native, journal, pass, faults>>

\* The versions that the transaction's guards expect.
GuardsHold(p) ==
    /\ {o \in Named(p.key) : evidence[o] = "archived"} = p.archived
    /\ p.apply => version[call.t] = p.version

CommitNative(p) ==
    /\ txs' = txs \cup {IdempotencyKey(p)}
    /\ version' = IF p.apply THEN [version EXCEPT ![call.t] = @ + 1] ELSE version
    /\ charged' = [u \in Units |-> charged[u] + IF \E i \in DOMAIN p.units : p.units[i] = u THEN 1 ELSE 0]
    /\ UNCHANGED <<published, evidence, rewritten>>

\* One native transaction: receipt, calibration activity and the new utility.
Native ==
    /\ call.at = "native"
    /\ GuardsHold(Pending)
    /\ CommitNative(Pending)
    /\ call' = [call EXCEPT !.at = "consume", !.left = Pending.units]
    /\ UNCHANGED <<journal, pass, faults>>

\* The transaction commits and its answer is lost: the intent stays for the next attempt.
NativeUnanswered ==
    /\ call.at = "native"
    /\ "interrupt" \in Faults /\ faults < MaxFaults
    /\ GuardsHold(Pending)
    /\ CommitNative(Pending)
    /\ Refused
    /\ faults' = faults + 1
    /\ UNCHANGED journal

NativeConflict ==
    /\ call.at = "native"
    /\ ~GuardsHold(Pending)
    /\ Withdraw

\* The units are consumed by the receipt before the target forgets the intent.
Consume ==
    /\ call.at = "consume"
    /\ call.left # <<>>
    /\ units' = [units EXCEPT ![Head(call.left)] = [Claim(Pending) EXCEPT !.receipt = TRUE]]
    /\ call' = [call EXCEPT !.left = Tail(@)]
    /\ UNCHANGED <<native, catalog, slots, targets, results, pass, faults>>

\* The immutable result, and then the target without its intent.
Record ==
    /\ call.at = "consume" /\ call.left = <<>>
    /\ results' = results \cup {Pending.key}
    /\ call' = [call EXCEPT !.at = "settle"]
    /\ UNCHANGED <<native, catalog, slots, targets, units, pass, faults>>

Settled(t) ==
    LET p == t.pending IN
    [t EXCEPT !.pending = None, !.last = TRUE,
              !.applied = IF p.apply THEN [sel |-> ToSet(p.key.sel)] ELSE @,
              !.outcomes = @ \ ((IF p.apply THEN ToSet(p.key.sel) ELSE {}) \cup DOMAIN p.key.exc)]

Settle ==
    /\ call.at = "settle"
    /\ targets' = [targets EXCEPT ![call.t] = Settled(@)]
    /\ Answered
    /\ UNCHANGED <<native, catalog, slots, units, results, faults>>

-----------------------------------------------------------------------------
(* tick: one pass reads a page of the index, enqueues it, evaluates the    *)
(* next target in turn, and saves both cursors.                            *)

PassBegin ==
    /\ pass = Idle
    /\ pass' = [at |-> "page", waits |-> TRUE]
    /\ Start([at |-> "register", op |-> "read", by |-> "pass"])
    /\ UNCHANGED <<native, journal, faults>>

PassRegistered ==
    /\ call.at = "read"
    /\ Answered
    /\ UNCHANGED <<native, journal, faults>>

PassPage ==
    /\ pass.at = "page" /\ ~pass.waits
    /\ LET end == IF published < catalog.source + Page THEN published ELSE catalog.source + Page
       IN pass' = [at |-> "enqueue", waits |-> FALSE, next |-> catalog.source + 1, end |-> end]
    /\ UNCHANGED <<native, journal, call, faults>>

PassEnqueue ==
    /\ pass.at = "enqueue" /\ ~pass.waits
    /\ pass.next <= pass.end
    /\ Start([at |-> "register", op |-> "enqueue", o |-> pass.next, by |-> "pass"])
    /\ pass' = [pass EXCEPT !.waits = TRUE, !.next = @ + 1]
    /\ UNCHANGED <<native, journal, faults>>

NextSlot == (catalog.cursor % catalog.allocated) + 1

\* The slot is read outside the gate: a host call may have allocated it and not put it yet.
PassEvaluate ==
    /\ pass.at = "enqueue" /\ ~pass.waits
    /\ pass.next > pass.end
    /\ catalog.allocated > 0
    /\ \/ /\ NextSlot \notin DOMAIN slots
          /\ pass' = Idle
          /\ UNCHANGED call
       \/ /\ NextSlot \in DOMAIN slots
          /\ Start([at |-> "register", op |-> "evaluate", t |-> slots[NextSlot], by |-> "pass"])
          /\ pass' = [at |-> "save", waits |-> TRUE, cursor |-> NextSlot, source |-> pass.end]
    /\ UNCHANGED <<native, journal, faults>>

PassNothing ==
    /\ pass.at = "enqueue" /\ ~pass.waits
    /\ pass.next > pass.end
    /\ catalog.allocated = 0
    /\ pass' = [at |-> "save", waits |-> FALSE, cursor |-> catalog.cursor, source |-> pass.end]
    /\ UNCHANGED <<native, journal, call, faults>>

PassSave ==
    /\ pass.at = "save" /\ ~pass.waits
    /\ call = Idle
    /\ catalog' = [catalog EXCEPT !.cursor = pass.cursor, !.source = pass.source]
    /\ pass' = Idle
    /\ UNCHANGED <<native, slots, targets, units, results, call, faults>>

\* A crash of the host, or a write that fails.
Interrupt ==
    /\ "interrupt" \in Faults
    /\ faults < MaxFaults
    /\ call # Idle \/ pass # Idle
    /\ call' = Idle
    /\ pass' = Idle
    /\ faults' = faults + 1
    /\ UNCHANGED <<native, journal>>

-----------------------------------------------------------------------------
Gate ==
    \/ Register \/ RepairTarget \/ RepairSlot \/ Repaired
    \/ EnqueueRefused \/ Enqueue \/ PutSlot \/ PutTarget \/ Allocated
    \/ EvaluatePending \/ EvaluateReplayed \/ Select \/ Intend
    \/ Recover \/ ClaimUnit \/ WithdrawStale \/ Recheck
    \/ Native \/ NativeConflict \/ Consume \/ Record \/ Settle
    \/ PassRegistered

Pass == PassBegin \/ PassPage \/ PassEnqueue \/ PassEvaluate \/ PassNothing \/ PassSave

Next ==
    \/ Publish
    \/ \E o \in Outcomes, how \in {"contested", "archived"} : Challenge(o, how)
    \/ \E t \in Targets : Rewrite(t) \/ Touch(t) \/ HostEvaluate(t)
    \/ \E o \in Outcomes : HostEnqueue(o)
    \/ Gate
    \/ Pass
    \/ NativeUnanswered
    \/ Interrupt

Spec == Init /\ [][Next]_vars

-----------------------------------------------------------------------------
TypeOK ==
    /\ published \in 0..NumOutcomes
    /\ evidence \in [Outcomes -> {"good", "contested", "archived"}]
    /\ rewritten \subseteq Targets
    /\ version \in [Targets -> Nat]
    /\ charged \in [Units -> Nat]
    /\ catalog.allocated \in 0..MaxTargets
    /\ catalog.cursor \in 0..catalog.allocated
    /\ catalog.source \in 0..published
    /\ DOMAIN slots \subseteq 1..catalog.allocated
    /\ \A t \in Targets : targets[t] = None \/ targets[t].outcomes \subseteq Outcomes
    /\ faults \in 0..MaxFaults

\* The effect of one independent unit reaches a utility once: over retries of an intent,
\* lost answers, withdrawn intents with their next generation, two outcomes of one unit and
\* two targets that both name it ("with no repeated effect").
ChargedOnce == \A u \in Units : charged[u] <= 1

HasIntent(t) == targets[t] # None /\ targets[t].pending # None

\* A unit counts as consumed only when its effect is in the native history, and a target
\* that has settled its intent left no unit of it that a later evaluation could use again.
ConsumedIsCharged ==
    /\ \A u \in Units : Consumed(u) => charged[u] = 1
    /\ \A u \in Units : charged[u] = 1 /\ ~Consumed(u) =>
           \E t \in Targets : /\ HasIntent(t)
                              /\ \E i \in DOMAIN targets[t].pending.units : targets[t].pending.units[i] = u

\* Numeric slots survive an interrupted allocation: unless one is being repaired, every
\* allocated slot names a target of its own and every target has a slot.
SlotsAreWhole ==
    catalog.pending = None =>
        /\ \A k \in 1..catalog.allocated : k \in DOMAIN slots /\ targets[slots[k]] # None
        /\ \A j, k \in 1..catalog.allocated : slots[j] = slots[k] => j = k
        /\ \A t \in Targets : targets[t] # None => \E k \in 1..catalog.allocated : slots[k] = t

=============================================================================
