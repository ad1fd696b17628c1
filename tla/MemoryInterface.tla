--------------------------- MODULE MemoryInterface ---------------------------
(***************************************************************************)
(* The Memory Interface of a Space: staged sources, idempotent intake,     *)
(* receipts that settle once, predecessors, and forget                     *)
(* (memory_interface/sources.rs, intake.rs, forget.rs).                    *)
(*                                                                         *)
(* An intake writes its receipt, binds its key, queues a Formation         *)
(* conversation and saves what it started, each in a durable write of its  *)
(* own under the intake gate.  The Formation worker, readers of the        *)
(* receipt and forgets run beside it without that gate.  Formation is the  *)
(* sequential queue of SpaceScheduler, and a claim's deletion the fenced   *)
(* change of ProductChange; both are one step here.                        *)
(***************************************************************************)
EXTENDS Naturals, FiniteSets

CONSTANTS
    Callers,        \* concurrent API requests
    Sources,        \* staged sources
    Keys,           \* idempotency keys, each scoped to one operation
    Workloads,      \* the sets of requests callers make: [op, key, source]
    PredOf,         \* predecessor receipts in a source's order
    MaxConv,        \* bound: Formation conversations
    MaxTries,       \* bound: failed passes before Formation gives up
    Faults          \* which faults this instance has

\* "misrecorded" is a revision that names the Assertion to repair, "report" one that names
\* none.
Ops == {"observe", "misrecorded", "report", "feedback", "forget", "payload", "read"}
Hook == "hook"      \* the on_conversation_end callback of the worker
Actors == Callers \cup {Hook}
Convs == 1..MaxConv
NoKey == "none"

ASSUME WorkloadsAssumption ==
    Workloads \subseteq SUBSET [op : Ops, key : Keys, source : Sources]
ASSUME SourcesAssumption == Sources # {}
ASSUME NamesAssumption == NoKey \notin Keys /\ Hook \notin Callers
ASSUME PredAssumption == PredOf \in [Sources -> SUBSET Keys]
ASSUME BoundsAssumption == MaxConv \in Nat \ {0} /\ MaxTries \in Nat \ {0}
ASSUME FaultsAssumption == Faults \subseteq {"crash", "refuse", "hold", "hook"}

VARIABLES
    \* durable
    staged,         \* "none", "held" or "erased" for each source
    receipt,        \* receipts/{key}
    bound,          \* keys/{key}: the source each key is bound to
    conv,           \* the Formation conversations
    suppressed,     \* sources excluded from Formation
    epoch,          \* ControlState.epoch
    graph,          \* what each conversation left in memory
    repaired,       \* misrecordings whose repair the graph holds
    \* volatile
    open, gate,
    at, req,        \* what each actor does, and for which request
    out,            \* the outcome each actor will record
    started,        \* the conversation an intake queued
    todo,           \* the conversations a forget still has to erase
    worker,         \* the Formation pass that runs
    workload        \* the requests of this behaviour, which never change

durable == <<staged, receipt, bound, conv, suppressed, epoch, graph, repaired>>
process == <<open, workload>>
answer == <<req, out, started, todo>>
locals == <<at, answer>>
vars == <<staged, receipt, bound, conv, suppressed, epoch, graph, repaired,
          open, gate, at, req, out, started, todo, worker, workload>>

Pending == {"submitted", "working", "failed"}
Statuses == Pending \cup {"none", "completed", "cancelled"}
Terminals == {"none", "available", "failed", "erased"}
Live == {"evidence", "claims"}

NoReceipt == [held |-> FALSE, op |-> "observe", source |-> CHOOSE s \in Sources : TRUE,
              conv |-> 0, terminal |-> "none", plan |-> {}]
NoConv == [status |-> "none", key |-> NoKey, source |-> CHOOSE s \in Sources : TRUE, tries |-> 0]
NoRequest == [op |-> "read", key |-> NoKey, source |-> CHOOSE s \in Sources : TRUE]
NoPass == [conv |-> 0, epoch |-> 0, stage |-> "idle"]

Ats == {"idle", "resolve", "gate", "unresolved", "key", "start", "save", "settle", "repair",
        "invalidate", "record", "scan", "erase", "suppress", "surfaces", "report"}
Outs == {"none", "queued", "failed", "available", "fresh", "spent", "completed", "partial",
         "blocked"}

TypeOK ==
    /\ staged \in [Sources -> {"none", "held", "erased"}]
    /\ receipt \in [Keys -> [held : BOOLEAN, op : Ops, source : Sources, conv : 0..MaxConv,
                             terminal : Terminals, plan : SUBSET Convs]]
    /\ bound \in [Keys -> SUBSET Sources]
    /\ conv \in [Convs -> [status : Statuses, key : Keys \cup {NoKey}, source : Sources,
                           tries : 0..MaxTries]]
    /\ suppressed \subseteq Sources
    /\ epoch \in 0..Cardinality(Keys) * MaxConv
    /\ graph \in [Convs -> Live \cup {"nothing", "purged"}]
    /\ repaired \subseteq Keys
    /\ workload \in Workloads
    /\ open \in BOOLEAN
    /\ gate \subseteq Callers
    /\ at \in [Actors -> Ats]
    /\ req \in [Actors -> workload \cup {NoRequest} \cup [op : {"read"}, key : Keys, source : Sources]]
    /\ out \in [Actors -> Outs]
    /\ started \in [Actors -> 0..MaxConv]
    /\ todo \in [Actors -> SUBSET Convs]
    /\ worker \in [conv : 0..MaxConv, epoch : 0..Cardinality(Keys) * MaxConv,
                  stage : {"idle", "check", "running", "ended"}]

Init ==
    /\ staged = [s \in Sources |-> "none"]
    /\ receipt = [k \in Keys |-> NoReceipt]
    /\ bound = [k \in Keys |-> {}]
    /\ conv = [c \in Convs |-> NoConv]
    /\ suppressed = {}
    /\ epoch = 0
    /\ graph = [c \in Convs |-> "nothing"]
    /\ repaired = {}
    /\ open = TRUE
    /\ gate = {}
    /\ at = [a \in Actors |-> "idle"]
    /\ req = [a \in Actors |-> NoRequest]
    /\ out = [a \in Actors |-> "none"]
    /\ started = [a \in Actors |-> 0]
    /\ todo = [a \in Actors |-> {}]
    /\ worker = NoPass
    /\ workload \in Workloads

Goto(a, l) == at' = [at EXCEPT ![a] = l]

\* An actor that answered forgets its request.
Done(a) ==
    /\ at' = [at EXCEPT ![a] = "idle"]
    /\ req' = [req EXCEPT ![a] = NoRequest]
    /\ out' = [out EXCEPT ![a] = "none"]
    /\ started' = [started EXCEPT ![a] = 0]
    /\ todo' = [todo EXCEPT ![a] = {}]

Key(a) == req[a].key
Source(a) == req[a].source
Op(a) == req[a].op

\* settled: the phase a reader of a receipt reports, its conversation's result
\* included.  A receipt without a conversation is still recorded.
Progress(k) ==
    LET c == receipt[k].conv
    IN  CASE receipt[k].terminal # "none" -> receipt[k].terminal
          [] receipt[k].terminal = "none" /\ c # 0 /\ conv[c].status = "completed"
               -> "available"
          [] receipt[k].terminal = "none" /\ c # 0 /\ conv[c].status = "cancelled"
               -> "failed"
          [] OTHER -> "none"

\* Mutant: the last writer of a receipt wins.
TerminateLastWins(k, t) ==
    receipt' = [receipt EXCEPT ![k].terminal = t]

\* settle_record: the first terminal progress is kept.
Terminate(k, t) ==
    receipt' = [receipt EXCEPT ![k].terminal = IF @ = "none" THEN t ELSE @]

\* Mutant: a completed pass settles a misrecording without its repair.
NeedsRepairNever(k) == receipt[k].op = "none"

\* A misrecording whose pass completed, and which nobody has settled.
NeedsRepair(k) ==
    /\ receipt[k].op = "misrecorded"
    /\ receipt[k].terminal = "none"
    /\ Progress(k) = "available"

-----------------------------------------------------------------------------
(* Staging and intake.                                                     *)

\* Space::stage: the source is captured unless it is excluded; predecessors
\* must be receipts the caller holds.
Stage(s) ==
    /\ open
    /\ gate = {}
    /\ staged[s] = "none"
    /\ s \notin suppressed
    /\ \A p \in PredOf[s] : receipt[p].held
    /\ staged' = [staged EXCEPT ![s] = "held"]
    /\ UNCHANGED <<receipt, bound, conv, suppressed, epoch, graph, repaired, process, gate,
                   locals, worker>>

\* memory_request: a caller starts an intake, a forget or a read of a receipt.
Ask(a) ==
    /\ open
    /\ at[a] = "idle"
    /\ a # Hook
    /\ \E q \in workload :
         /\ req' = [req EXCEPT ![a] = q]
         /\ Goto(a, CASE q.op \in {"forget", "payload"} -> "gate"
                      [] q.op = "read" -> "settle"
                      [] OTHER -> "resolve")
    /\ UNCHANGED <<durable, process, gate, out, started, todo, worker>>

\* The source is resolved before the gate is taken.
Resolve(a) ==
    /\ at[a] = "resolve"
    /\ Goto(a, IF staged[Source(a)] = "held" THEN "gate" ELSE "unresolved")
    /\ UNCHANGED <<durable, process, gate, answer, worker>>

\* A bound key: the same meaning is replayed, another one conflicts.
Replay(a) ==
    /\ at[a] \in {"gate", "unresolved"}
    /\ Op(a) \notin {"forget", "payload"}
    /\ gate = {}
    /\ bound[Key(a)] # {}
    /\ \/ bound[Key(a)] = {Source(a)} /\ Goto(a, "settle") /\ UNCHANGED answer
       \/ bound[Key(a)] # {Source(a)} /\ Done(a)
    /\ UNCHANGED <<durable, process, gate, worker>>

\* A new key whose source, predecessors or receipt path refuse it.
Refuse(a) ==
    /\ at[a] \in {"gate", "unresolved"}
    /\ Op(a) \notin {"forget", "payload"}
    /\ gate = {}
    /\ bound[Key(a)] = {}
    /\ \/ at[a] = "unresolved"
       \/ receipt[Key(a)].held
       \/ \E p \in PredOf[Source(a)] : ~receipt[p].held
    /\ Done(a)
    /\ UNCHANGED <<durable, process, gate, worker>>

\* Mutant: the receipt is upserted without looking the key up.
CreateReceiptAnew(a) ==
    /\ at[a] = "gate"
    /\ Op(a) \notin {"forget", "payload"}
    /\ gate = {}
    /\ \A p \in PredOf[Source(a)] : receipt[p].held
    /\ receipt' = [receipt EXCEPT ![Key(a)].held = TRUE, ![Key(a)].op = Op(a),
                                  ![Key(a)].source = Source(a)]
    /\ gate' = {a}
    /\ Goto(a, "key")
    /\ UNCHANGED <<staged, bound, conv, suppressed, epoch, graph, repaired, process,
                   answer, worker>>

\* The first durable write of an intake: its receipt, at recorded.
CreateReceipt(a) ==
    /\ at[a] = "gate"
    /\ Op(a) \notin {"forget", "payload"}
    /\ gate = {}
    /\ bound[Key(a)] = {}
    /\ ~receipt[Key(a)].held
    /\ \A p \in PredOf[Source(a)] : receipt[p].held
    /\ receipt' = [receipt EXCEPT ![Key(a)] =
                     [NoReceipt EXCEPT !.held = TRUE, !.op = Op(a), !.source = Source(a)]]
    /\ gate' = {a}
    /\ Goto(a, "key")
    /\ UNCHANGED <<staged, bound, conv, suppressed, epoch, graph, repaired, process,
                   answer, worker>>

BindKey(a) ==
    /\ at[a] = "key"
    /\ bound' = [bound EXCEPT ![Key(a)] = {Source(a)}]
    /\ Goto(a, "start")
    /\ UNCHANGED <<staged, receipt, conv, suppressed, epoch, graph, repaired, process, gate,
                   answer, worker>>

NextConv == Cardinality({c \in Convs : conv[c].status # "none"}) + 1

\* start_formation queues a conversation that carries the intent.
StartFormation(a) ==
    /\ at[a] = "start"
    /\ Op(a) \in {"observe", "misrecorded"}
    /\ Source(a) \notin suppressed
    /\ NextConv \in Convs
    /\ conv' = [conv EXCEPT ![NextConv] =
                  [status |-> "submitted", key |-> Key(a), source |-> Source(a), tries |-> 0]]
    /\ started' = [started EXCEPT ![a] = NextConv]
    /\ out' = [out EXCEPT ![a] = "queued"]
    /\ Goto(a, "save")
    /\ UNCHANGED <<staged, receipt, bound, suppressed, epoch, graph, repaired, process, gate, req,
                   todo, worker>>

\* capture_evidence writes Evidence without a model, for feedback and for the report of a
\* misrecording that names no target; the receipt is available.
CaptureEvidence(a) ==
    /\ at[a] = "start"
    /\ Op(a) \in {"feedback", "report"}
    /\ out' = [out EXCEPT ![a] = "available"]
    /\ Goto(a, "save")
    /\ UNCHANGED <<durable, process, gate, req, started, todo, worker>>

\* Processing could not start: an excluded source, a missing target, a limit.
StartFails(a) ==
    /\ at[a] = "start"
    /\ "refuse" \in Faults \/ (Op(a) \notin {"feedback", "report"} /\ Source(a) \in suppressed)
    /\ out' = [out EXCEPT ![a] = "failed"]
    /\ Goto(a, "save")
    /\ UNCHANGED <<durable, process, gate, req, started, todo, worker>>

\* Saving what the intake started replaces the receipt record.
Save(a) ==
    /\ at[a] = "save"
    /\ receipt' = [receipt EXCEPT
         ![Key(a)].conv = started[a],
         ![Key(a)].terminal = IF out[a] = "queued" THEN "none" ELSE out[a]]
    /\ gate' = {}
    /\ \/ out[a] # "failed" /\ Goto(a, "settle") /\ UNCHANGED answer
       \/ out[a] = "failed" /\ Done(a)
    /\ UNCHANGED <<staged, bound, conv, suppressed, epoch, graph, repaired, process, worker>>

-----------------------------------------------------------------------------
(* Settling a receipt: its intake, any reader, and the worker's hooks.     *)

\* settled on a receipt that is settled, or whose conversation is not over.
ReadProgress(a) ==
    /\ at[a] = "settle"
    /\ Progress(Key(a)) = receipt[Key(a)].terminal
    /\ Done(a)
    /\ UNCHANGED <<durable, process, gate, worker>>

\* settled on a receipt whose conversation ended: what will be recorded.
ReadEnded(a) ==
    /\ at[a] = "settle"
    /\ Progress(Key(a)) # receipt[Key(a)].terminal
    /\ Goto(a, IF NeedsRepair(Key(a)) THEN "repair" ELSE "record")
    /\ out' = [out EXCEPT ![a] = Progress(Key(a))]
    /\ UNCHANGED <<durable, process, gate, req, started, todo, worker>>

\* repair_misrecording reads the target's version ...
ReadTarget(a) ==
    /\ at[a] = "repair"
    /\ out' = [out EXCEPT ![a] = IF Key(a) \in repaired THEN "spent" ELSE "fresh"]
    /\ Goto(a, "invalidate")
    /\ UNCHANGED <<durable, process, gate, req, started, todo, worker>>

\* ... and repair_recording commits against it.  An invalidation advances the
\* version; whether a second one on the new version is accepted is the
\* Nexus's choice.
Invalidate(a) ==
    /\ at[a] = "invalidate"
    /\ \/ /\ (out[a] = "fresh") = (Key(a) \notin repaired)
          /\ repaired' = repaired \cup {Key(a)}
          /\ out' = [out EXCEPT ![a] = "available"]
       \/ /\ Key(a) \in repaired
          /\ out' = [out EXCEPT ![a] = "failed"]
          /\ UNCHANGED repaired
    /\ Goto(a, "record")
    /\ UNCHANGED <<staged, receipt, bound, conv, suppressed, epoch, graph, process, gate, req,
                   started, todo, worker>>

SettleRecord(a) ==
    /\ at[a] = "record"
    /\ Terminate(Key(a), out[a])
    /\ Done(a)
    /\ UNCHANGED <<staged, bound, conv, suppressed, epoch, graph, repaired, process, gate, worker>>

-----------------------------------------------------------------------------
(* The Formation worker.                                                   *)

Queued == {c \in Convs : conv[c].status \in Pending}
SetStatus(c, s) == conv' = [conv EXCEPT ![c].status = s]

\* The hook settles the receipt with this key before the worker goes on.
CallHook(k) ==
    /\ at' = [at EXCEPT ![Hook] = "settle"]
    /\ req' = [req EXCEPT ![Hook] = [NoRequest EXCEPT !.key = k]]
    /\ UNCHANGED <<out, started, todo>>

\* process_one admits the source first: an excluded one is cancelled.
Admit ==
    /\ open
    /\ worker.stage = "idle"
    /\ at[Hook] = "idle"
    /\ Queued # {}
    /\ LET c == CHOOSE x \in Queued : \A y \in Queued : x <= y
       IN  \/ /\ conv[c].source \in suppressed
              /\ SetStatus(c, "cancelled")
              /\ worker' = [conv |-> c, epoch |-> epoch, stage |-> "ended"]
           \/ /\ conv[c].source \notin suppressed
              /\ worker' = [conv |-> c, epoch |-> epoch, stage |-> "check"]
              /\ UNCHANGED conv
    /\ UNCHANGED <<staged, receipt, bound, suppressed, epoch, graph, repaired, process, gate,
                   locals>>

\* memory_predecessor_failed settles a predecessor nobody settled yet.
SettlePredecessor ==
    /\ worker.stage = "check"
    /\ at[Hook] = "idle"
    /\ \E p \in PredOf[conv[worker.conv].source] :
         /\ Progress(p) # receipt[p].terminal
         /\ CallHook(p)
    /\ UNCHANGED <<durable, process, gate, worker>>

\* Mutant: only what a predecessor's receipt already stores is looked at.
BeginPassOnStored ==
    /\ worker.stage = "check"
    /\ at[Hook] = "idle"
    /\ LET c == worker.conv
           preds == PredOf[conv[c].source]
       IN  \/ /\ \E p \in preds : receipt[p].terminal = "failed"
              /\ SetStatus(c, "cancelled")
              /\ worker' = [worker EXCEPT !.stage = "ended"]
           \/ /\ \A p \in preds : receipt[p].terminal # "failed"
              /\ SetStatus(c, "working")
              /\ worker' = [worker EXCEPT !.stage = "running"]
    /\ UNCHANGED <<staged, receipt, bound, suppressed, epoch, graph, repaired, process, gate,
                   locals>>

\* A failed predecessor blocks the conversation for good.
BeginPass ==
    /\ worker.stage = "check"
    /\ at[Hook] = "idle"
    /\ LET c == worker.conv
           preds == PredOf[conv[c].source]
       IN  /\ \A p \in preds : Progress(p) = receipt[p].terminal
           /\ \/ /\ \E p \in preds : Progress(p) = "failed"
                 /\ SetStatus(c, "cancelled")
                 /\ worker' = [worker EXCEPT !.stage = "ended"]
              \/ /\ \A p \in preds : Progress(p) # "failed"
                 /\ SetStatus(c, "working")
                 /\ worker' = [worker EXCEPT !.stage = "running"]
    /\ UNCHANGED <<staged, receipt, bound, suppressed, epoch, graph, repaired, process, gate,
                   locals>>

\* The pass commits to memory: Evidence, then claims.  Control::check refuses a
\* write of a pass that a product change overtook.
WriteMemory ==
    /\ worker.stage = "running"
    /\ worker.epoch = epoch
    /\ \/ graph[worker.conv] \in {"nothing", "purged"}
          /\ graph' = [graph EXCEPT ![worker.conv] = "evidence"]
       \/ graph[worker.conv] = "evidence" /\ graph' = [graph EXCEPT ![worker.conv] = "claims"]
    /\ UNCHANGED <<staged, receipt, bound, conv, suppressed, epoch, repaired, process, gate, locals,
                   worker>>

\* Mutant: never giving up.
EndPassForever ==
    /\ worker.stage = "running"
    /\ SetStatus(worker.conv, "completed") \/ SetStatus(worker.conv, "failed")
    /\ worker' = [worker EXCEPT !.stage = "ended"]
    /\ UNCHANGED <<staged, receipt, bound, suppressed, epoch, graph, repaired, process, gate,
                   locals>>

\* The pass ends.  A failed one is retried until its rounds are used up.
EndPass ==
    /\ worker.stage = "running"
    /\ LET c == worker.conv
       IN  \/ SetStatus(c, "completed")
           \/ /\ conv[c].tries < MaxTries
              /\ conv' = [conv EXCEPT ![c].status = "failed", ![c].tries = @ + 1]
           \/ conv[c].tries = MaxTries /\ SetStatus(c, "cancelled")
    /\ worker' = [worker EXCEPT !.stage = "ended"]
    /\ UNCHANGED <<staged, receipt, bound, suppressed, epoch, graph, repaired, process, gate,
                   locals>>

\* on_conversation_end settles the receipt of an ended conversation.  That it
\* failed is only logged.
ConversationEnd ==
    /\ worker.stage = "ended"
    /\ at[Hook] = "idle"
    /\ worker' = NoPass
    /\ \/ /\ conv[worker.conv].status \in {"completed", "cancelled"}
          /\ CallHook(conv[worker.conv].key)
       \/ /\ conv[worker.conv].status = "failed" \/ "hook" \in Faults
          /\ UNCHANGED locals
    /\ UNCHANGED <<durable, process, gate>>

-----------------------------------------------------------------------------
(* Forget.                                                                 *)

\* memory_forget: the receipt is created under the gate and the erasure runs as
\* host work of its own; a key that is in use replays its receipt.
AdmitForget(a) ==
    /\ at[a] = "gate"
    /\ Op(a) \in {"forget", "payload"}
    /\ gate = {}
    /\ \/ receipt[Key(a)].held /\ Done(a) /\ UNCHANGED receipt
       \/ /\ ~receipt[Key(a)].held
          /\ receipt' = [receipt EXCEPT ![Key(a)] =
                           [NoReceipt EXCEPT !.held = TRUE, !.op = Op(a), !.source = Source(a)]]
          /\ Goto(a, "scan")
          /\ UNCHANGED answer
    /\ UNCHANGED <<staged, bound, conv, suppressed, epoch, graph, repaired, process, gate, worker>>

ConvsOf(s) ==
    {receipt[k].conv : k \in {k \in Keys :
        /\ receipt[k].op \notin {"forget", "payload"}
        /\ receipt[k].source = s
        /\ receipt[k].conv # 0}}

\* Mutant: unfinished processing does not make the coverage partial.
UnfinishedIgnored(s) == ConvsOf(s) = {0}

Unfinished(s) == \E c \in ConvsOf(s) : conv[c].status # "completed"

\* targets_of_source: the conversations that the receipts of the source name.
\* One that is not completed makes the coverage partial.
ScanSource(a) ==
    /\ at[a] = "scan"
    /\ \/ /\ staged[Source(a)] = "none"
          /\ out' = [out EXCEPT ![a] = "failed"]
          /\ Goto(a, "report")
          /\ UNCHANGED <<receipt, todo>>
       \/ /\ staged[Source(a)] # "none"
          /\ out' = [out EXCEPT ![a] =
                       IF Op(a) = "forget" /\ Unfinished(Source(a)) THEN "partial" ELSE "completed"]
          /\ todo' = [todo EXCEPT ![a] = {c \in ConvsOf(Source(a)) : graph[c] \in Live}]
          /\ receipt' = [receipt EXCEPT ![Key(a)].plan = ConvsOf(Source(a))]
          /\ Goto(a, "erase")
    /\ UNCHANGED <<staged, bound, conv, suppressed, epoch, graph, repaired, process, gate, req,
                   started, worker>>

\* One target: claims go through product deletion, which excludes their sources
\* and advances the epoch; uncited Evidence is purged alone.
EraseTarget(a) ==
    /\ at[a] = "erase"
    /\ Op(a) = "forget"
    /\ \E c \in todo[a] :
         /\ todo' = [todo EXCEPT ![a] = @ \ {c}]
         /\ graph' = [graph EXCEPT ![c] = "purged"]
         /\ \/ /\ graph[c] = "claims"
               /\ epoch' = epoch + 1
               /\ suppressed' = suppressed \cup {Source(a)}
            \/ graph[c] # "claims" /\ UNCHANGED <<epoch, suppressed>>
    /\ UNCHANGED <<staged, receipt, bound, conv, repaired, process, gate, at, req, out, started,
                   worker>>

\* payload_only purges the payloads and keeps the elements.
ErasePayload(a) ==
    /\ at[a] = "erase"
    /\ Op(a) = "payload"
    /\ todo[a] # {}
    /\ todo' = [todo EXCEPT ![a] = {}]
    /\ UNCHANGED <<durable, process, gate, at, req, out, started, worker>>

\* A legal hold on a target ends the erasure as blocked.
HoldBlocks(a) ==
    /\ at[a] = "erase"
    /\ todo[a] # {}
    /\ "hold" \in Faults
    /\ out' = [out EXCEPT ![a] = "blocked"]
    /\ Goto(a, "report")
    /\ UNCHANGED <<durable, process, gate, req, started, todo, worker>>

\* suppress_sources: the exclusion is saved without advancing the epoch.
SuppressSources(a) ==
    /\ at[a] = "erase"
    /\ todo[a] = {}
    /\ suppressed' = IF Op(a) = "forget" THEN suppressed \cup {Source(a)} ELSE suppressed
    /\ Goto(a, "surfaces")
    /\ UNCHANGED <<staged, receipt, bound, conv, epoch, graph, repaired, process, gate, answer,
                   worker>>

\* The host's own copies: the staged bytes and the transcripts.
EraseSurfaces(a) ==
    /\ at[a] = "surfaces"
    /\ staged' = [staged EXCEPT ![Source(a)] = "erased"]
    /\ Goto(a, "report")
    /\ UNCHANGED <<receipt, bound, conv, suppressed, epoch, graph, repaired, process, gate, answer,
                   worker>>

\* finish_plan and settle_forget: completed is claimed only if the Nexus accepts
\* the plan, and a partial erasure stays pending.
SettleForget(a) ==
    /\ at[a] = "report"
    /\ \E o \in IF out[a] = "completed" THEN {"completed", "partial"} ELSE {out[a]} :
         receipt' = [receipt EXCEPT ![Key(a)].terminal =
                       CASE o = "completed" -> "erased"
                         [] o \in {"blocked", "failed"} -> "failed"
                         [] OTHER -> "none"]
    /\ Done(a)
    /\ UNCHANGED <<staged, bound, conv, suppressed, epoch, graph, repaired, process, gate, worker>>

-----------------------------------------------------------------------------
(* The process.                                                            *)

Crash ==
    /\ open
    /\ "crash" \in Faults
    /\ open' = FALSE
    /\ gate' = {}
    /\ at' = [a \in Actors |-> "idle"]
    /\ req' = [a \in Actors |-> NoRequest]
    /\ out' = [a \in Actors |-> "none"]
    /\ started' = [a \in Actors |-> 0]
    /\ todo' = [a \in Actors |-> {}]
    /\ worker' = NoPass
    /\ UNCHANGED <<durable, workload>>

Reopen ==
    /\ ~open
    /\ open' = TRUE
    /\ UNCHANGED <<durable, workload, gate, locals, worker>>

Settling(a) ==
    \/ ReadProgress(a) \/ ReadEnded(a) \/ ReadTarget(a) \/ Invalidate(a) \/ SettleRecord(a)

Intake(a) ==
    \/ Resolve(a) \/ Replay(a) \/ Refuse(a) \/ CreateReceipt(a) \/ BindKey(a)
    \/ StartFormation(a) \/ CaptureEvidence(a) \/ StartFails(a) \/ Save(a)

Forget(a) ==
    \/ AdmitForget(a) \/ ScanSource(a) \/ EraseTarget(a) \/ ErasePayload(a) \/ HoldBlocks(a)
    \/ SuppressSources(a) \/ EraseSurfaces(a) \/ SettleForget(a)

Formation == Admit \/ SettlePredecessor \/ BeginPass \/ WriteMemory \/ EndPass \/ ConversationEnd

Next ==
    \/ \E s \in Sources : Stage(s)
    \/ \E a \in Callers : Ask(a) \/ Intake(a) \/ Forget(a)
    \/ \E a \in Actors : Settling(a)
    \/ Formation
    \/ Crash
    \/ Reopen

Spec == Init /\ [][Next]_vars

\* A started request runs to its answer, the Formation queue is served, and a Space
\* that went down is opened again.
Fairness ==
    /\ \A a \in Callers : WF_vars(Intake(a) \/ Forget(a) \/ Settling(a))
    /\ WF_vars(Settling(Hook))
    /\ WF_vars(Admit \/ SettlePredecessor \/ BeginPass \/ EndPass \/ ConversationEnd)
    /\ WF_vars(Reopen)

FairSpec == Spec /\ Fairness
-----------------------------------------------------------------------------
(* Properties.                                                             *)

\* An idempotency key starts at most one Formation conversation, whatever
\* retries, conflicts and crashes fall between the intake's durable writes
\* (memory_intake: "a retry must replay this, never run it again").
OneConversationPerKey ==
    \A c, d \in Convs :
        conv[c].status # "none" /\ conv[d].status # "none" /\ conv[c].key = conv[d].key => c = d

\* A settled receipt never changes its answer, although its intake, readers,
\* the worker's hooks and its successors' checks all settle it ("progress never
\* moves backwards").
TerminalIsFinal ==
    [][\A k \in Keys : receipt[k].terminal # "none" =>
          receipt'[k].terminal = receipt[k].terminal]_vars

\* A successor of a failed receipt never leaves anything in memory, even when
\* the predecessor's own settlement was lost (process_one, MI 5.1).
BlockedSuccessor ==
    \A c \in Convs : graph[c] \in Live =>
        \A p \in PredOf[conv[c].source] : Progress(p) # "failed"

\* A misrecording that names its target is reported available only with its repair in the
\* graph (finish_formation); one that names none is kept as Evidence, and nothing is
\* repaired on a guess (start_revision: "the report is preserved and the gap reported").
AvailableMeansRepaired ==
    \A k \in Keys :
        receipt[k].op \in {"misrecorded", "report"} /\ receipt[k].terminal = "available" =>
            (k \in repaired <=> receipt[k].op = "misrecorded")

\* A completed forget left nothing of the conversations its plan covers, and
\* no retry of them brings anything back (settle_forget, targets_of_source).
PlanCovers ==
    \A k \in Keys : receipt[k].terminal = "erased" /\ receipt[k].op = "forget" =>
        \A c \in receipt[k].plan : graph[c] \notin Live

\* After a completed semantic forget nothing formed from the source is live
\* (suppress_sources: "so an erased source is never re-ingested").
ForgottenStaysForgotten ==
    \A k \in Keys : receipt[k].terminal = "erased" /\ receipt[k].op = "forget" =>
        \A c \in Convs : conv[c].status # "none" /\ conv[c].source = receipt[k].source =>
            graph[c] \notin Live

\* A source whose conversation its receipt names is eventually formed or failed,
\* across crashes that do not go on for ever (record_failed_round gives up on a
\* pass that keeps failing).
EveryReceiptSettles ==
    \/ []<><<Crash>>_vars
    \/ \A k \in Keys : receipt[k].conv # 0 ~> Progress(k) # "none"

=============================================================================
