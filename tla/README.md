# Verification of Anda Brain

TLA+ models of the parts of Anda Brain whose correctness depends on the order of
things: who may write a Space's graph, how a managed change survives a crash, what
an idempotency key promises, how often an action reaches the outside world, what a
bounded scan may skip, and what counts as evidence. The models are checked with TLC on
small instances; the results that matter for every instance are proved with TLAPS. Paths
below are relative to `anda_brain/src/`
unless they start with another directory.

## The system

A *Space* is one memory: a cognitive graph (the Nexus), a document database with
conversations, and objects in a store. Requests reach it over HTTP or MCP; models
run in the background to form memory out of conversations and to maintain it.

| part | state | operations | interacts with |
|---|---|---|---|
| Formation queue and maintenance scheduler (`agents/formation.rs`, `agents/maintenance.rs`, `agents/processing.rs`, `space.rs`, `space/hooks.rs`, `runtime.rs`, `space/lifecycle.rs`) | conversations with a status, the watermark `brain_processed`, the cadence marks, the slot and the flag of `ProcessingGate`, owned tasks | add a conversation, resume, form, retry, give up, schedule, maintain, restart by an operator, close, reopen | hooks call back into the Space; passes write the graph |
| Managed changes (`product.rs`, `product/`) | `ControlState` (epoch, pending change, suppressed sources), the change journal, tombstones | prepare, discard, commit, apply, verify, clear copies, confirm, recover | fences every background pass through `Control::check`; recovered before a Space opens |
| Memory Interface (`memory_interface/`) | staged sources, receipts, key bindings, forget plans | stage, observe, revise, give feedback, read a receipt, forget | queues formation conversations; is called by the worker's hooks; deletes through managed changes |
| Action runtime (`action/`) | journal jobs, deduplication records, replies, native wakes, decisions and dispatch records | gate, ask, answer, dispatch, look up, retry, switch | woken by attention; calls the host's policy and executor; outcomes come from consequence |
| Attention (`attention/`, `space/attention.rs`, `space/attention_recall.rs`) | directory slots, native watches, dirty and reconciled generations, semantic jobs and cursors | register, arm, tick, scan, evaluate, wake, recheck | hands wakes to the action runtime |
| Runtime API, settlement (`runtime_api/`, `settlement/`) | bootstrap markers, statements, the settlement cursor and counts | connect, grant, state, page the inbox, settle | attention, consequence; settlement precedes a maintenance cycle |
| Consequence, utility, trust (`consequence/`) | the observation journal and its index, utility intents, units and slots, trust proposals | submit, index, correct, calibrate, propose, apply, restore | outcomes of dispatches; native transactions |
| Learning (`learning/`) | trial jobs, catalog, review schedule, native trials | enroll, drive, dispatch, observe, signal, settle, archive | consequence's index; the host's plan factory and executor |
| Recall (`memory_interface/recall.rs`, `agents/recall*`, `recall_budget/`, `recall_receipt.rs`) | token budgets, materials, receipts, cached misses | recall, pack, brief, expand, probe | reads the graph under the fence of managed changes |
| Wiki (`wiki/`) | documents, versions, chunk rows, digest generations, claim ledgers | import, commit, archive, restore, sweep, digest | claims of the graph |
| Space cache (`space.rs`, `space/lifecycle.rs`) | loaded Spaces | load once, create, evict, shut down | opens and closes Spaces |
| Authorization (`authz.rs`, tokens in `space.rs`) | a Space's tokens, its visibility | mint, verify, revoke, admit | every handler |
| Edge worker (`anda-brain-worker/`) | a Durable Object per Space: intakes, epoch, pending change, correction page, leases | admit, open, plan, close, forget, erase, review | mirrors the Rust host |
| Handlers, types, CLI, migration tool | none | decode, call, convert | everything |

What is hard here: asynchronous tasks that read an atomic or a document before an
await and act on it afterwards; workflows of several durable writes without a
transaction around them; two stores (graph and journal) that a crash leaves
disagreeing; callbacks that may be lost; external targets whose answer may be lost.
`PROJECT.json` lists these hazards at their lines, each with the properties that
would catch it or the reason why none does.

## Modules

| group | modules | composed by |
|---|---|---|
| who writes the graph | `SpaceScheduler`, its abstraction `GraphLease`, the proofs `SpaceSchedulerProofs` | `MCSpaceScheduler` |
| managed changes | `ProductChange`, the proofs `ProductChangeProofs` | `MCProductChange` |
| intake and forget | `MemoryInterface`, the proofs `MemoryInterfaceProofs` | `MCMemoryInterface` |
| actions | `ActionRuntime`, the proofs `ActionRuntimeProofs` | `MCActionRuntime` |
| services that watch and read memory, and the host | `Attention`, `SemanticWatch`, `RecordWatch`, `AttentionRecall`, `RuntimeInbox`, `RecallPass`, `Briefing`, `MissCache`, `SpaceHost`, `Access`, the proofs `AttentionProofs` and `ServingProofs` | `MCServing` |
| services that keep evidence and change memory from it | `Settlement`, `RuntimeApi`, `Observations`, `Utility`, `Trust`, `Learning`, `LearningScheduler`, `NativeStanding`, `Wiki`, `Chunker`, `EdgeBrain`, `EdgeMaintenance`; `MemoryServices` (constants, state and instances of the services that are proved about), the proofs `MemoryServicesProofs` and `EvidenceProofs` | `MCEvidence` |
| what must eventually happen | `SpaceScheduler`, `MemoryInterface`, `Attention`, `Wiki` | `MCLiveness` |

Where components meet, the user models the other one by the promise it relies on:
`MemoryInterface` has Formation as a sequential queue (the promise `SpaceScheduler` is
checked for) and the deletion of claims as one step (`ProductChange`);
`ProductChange`, `RecallPass` and `EdgeMaintenance` see the writers or the fence of a
managed change from outside; `ActionRuntime` has the native records and the target of a
dispatch as external parts; `LearningScheduler` has a driven job as one step
(`Learning`).

`MCServing`, `MCEvidence` and `MCLiveness` compose services that share no state in the
code but the stores, under gates of their own. `focus`, chosen once per behaviour, names
the service that moves; the others stay where they started. TLC therefore explores the
sum of the services' state spaces and not their product, and a property of such a run
is a conjunction of the services' properties (and type invariants), each under its
`focus`. `MCServing` has two instances of `Attention` and of `Briefing`, `MCEvidence` two
of `Utility`, `Trust`, `Wiki` and `LearningScheduler` and three of `NativeStanding`, with
different contents or faults.

The services that are proved about keep their parameters as CONSTANTS of the composing
module, with named assumptions and values in `Serving.cfg` and `Evidence.cfg`; the other
services have the values of their instance in the `INSTANCE`.

Operators whose comment says *Mutant* or *faulty variant* (and the few in
`SpaceScheduler` collected before its actions) belong to no specification. They are
plausible slips in the code, and each property is known to fail when one of them replaces
its definition. Where a property is a conjunction of several services' parts, the
variants of the other parts were tried in the same way.

### SpaceScheduler

A task is one asynchronous activity. A request that spawns a worker ends at the
spawn, so the same task goes on as the worker. Each step ends at an await, an atomic
access or the admission lock; `cur`, `mark`, `attempt` and `scope` are what the task
read before. `slot` and `maint` are `ProcessingGate`; `processed` is the watermark;
`doneAt` holds the cadence marks.

- `AddConversation`, `LoadSlot`, `LoadMaintenance`, `LoadProcessed`, `Find`,
  `TryProcess`, `Spawn` are `run`, `start_process` and `try_process`; `EndPass` to
  `Claim` are the turns of `process_loop`, with the second look at the queue after
  the slot is free.
- `RequestMaintenance`, `ClockMaintenance`, `ClaimMaintenance`, `StartSleep`,
  `EndSleep`, `Wake` are a cycle asked for by a caller or the clock; `Schedule` and
  `HandOff` one that a loop hands its slot over to.
- `BeginClose`, `CancelTasks`, `CancelEngine`, `DropTask`, `Reconcile` are
  `Space::close`, with `CaptureAgain` between the first two: the close looks at the slot
  once itself and once more in the hook that `RuntimeTasks::cancel` runs, and a loop may
  move on between each look and the cancellation of the tasks. `cut` is what the passes
  that run at the cancellation are forming. After `cancel()` an owned task is only dropped, except that the
  poll it interrupts runs to its next await (`NextConversation`, `Claim`). API
  requests go on while the Space closes, and `Spawn` is refused.
- The outcome of a pass is nondeterministic. `GIVE_UP` by time and by rounds are one
  nondeterministic outcome; the number of rounds saturates. Writes of snapshots are
  assumed to succeed (the code only logs that they did not).
- An operator may restart formation from any conversation up to the head of the
  queue. An id beyond it is the fault `"jump"`, which no run has: it breaks
  `QueueOrder` and `WatermarkNeverSkips` (`README.md` and `anda_brain/API.md` say the
  queue is processed in order).

### GraphLease

What the `ProcessingGate` promises without its lock, slot, flag and phases: a lease per
task (free, forming a conversation, maintaining) and the watermark. A lease begins when
nobody holds one, proceeds to later conversations only, moves the watermark only over
the conversation it forms, and becomes a cycle only once that one is settled.
`SpaceScheduler` instantiates it as `Lease` with a state function of `pc`, `cur` and
`processed`, and `GraphIsLeased` is `Lease!Spec`.

### ProductChange

One task at a time holds the exclusive gate (`task`), and each of its steps ends at
a durable write. A Proposition is part of its record. The smallest closed set of
`DeletionTargets` is what `deletion_targets` collects; records precede the Evidence
they cite, so the `authorized_cascade` of a purge finds nothing left. `committed`
holds the native idempotency keys of corrections and world changes. Background
passes are admitted without the gate and check the epoch on every write
(`MayWrite`); `HostWrite` is a settlement that takes no gate at all. Expiry of a
preview, conflicting keys and stale previews are refusals without a change and
leave no step. The branch of a verification that does not find what it applied has
no action: none of the modelled writers can undo an applied target (a mismatch would
be a deadlock of `product_safety`), and the direct purge of a forget, which could, is
not modelled. The read floor of requests and the cap of 100000 suppressed sources
are abstracted.

### MemoryInterface

Callers, the worker's hook and the worker interleave at each durable write of an
intake (`CreateReceipt`, `BindKey`, `StartFormation`, `Save`), of a settlement
(`ReadEnded`, `ReadTarget`, `Invalidate`, `SettleRecord`) and of a forget
(`AdmitForget` to `SettleForget`). `gate` is the intake gate. The requests of a
behaviour are chosen once, from `Workloads`, so that one run covers several kinds of
traffic. `repair_recording` is conditional on a version: a second repair of the same
target may be accepted or refused, and a repair on a stale version is refused. The
Nexus's verdict on a forget plan is nondeterministic. A misrecording that names no target
is the operation `"report"`: like feedback it becomes Evidence without a conversation
(`CaptureEvidence`), and its receipt is available although nothing was repaired, as
`anda_brain/API.md:220-221` says. Only the forget of a source is
modelled, with its semantic and payload-only modes; the Evidence of feedback and reports
is not in `graph`. Polling of `wait_settled` is a repeated read.

An order may name any receipt its caller holds, a forget's too (`sources.rs:239`). A
forget is no conversation of the queue, so a successor neither waits for it nor is undone
when it fails later: `BlockedSuccessor` is stated for orders without forgets
(`NoForgetPrecedes` in the proof, the workloads of the run). A predecessor whose intake
stopped before its conversation was saved stays *recorded* for ever and blocks nobody.

### ActionRuntime

A wake is the path of continuation keys from the fire it comes from, such as
`<<f, "clarification", "dispatch">>`: `Wakes` are the paths in which each key is one that
the code derives from the path before it (`Children`), up to a depth. The runtime's mutex admits one pass at a time
(`task`), and a pass works on a local copy of its job. The interesting states are
the ones a crash leaves: journal (`job`, `owner`, `reply`), native records (`wake`,
`decision`, `dispatch`) and the world (`sends`, `effects`). A host whose policy,
pins, budgets or authorization changed makes a proposal a deferral. `Outcome` is the
reconciliation that consequence does (`consequence/native.rs`): it takes a terminal
measurement of an observer, which need not be right about the effect. A lookup that
says NotStarted is authoritative. Passes that return a job as they found it are left
out (`Parked`).

### Attention, SemanticWatch, RecordWatch, AttentionRecall

`Attention` is the directory of a host (`root`, `entry`, `index`) and the runtime of its
Spaces (`config`, `watch`, `wake`). Each operation of a Space holds its gate (`task`) and
each step ends at a durable write: registration before the first native write, arming,
switching, archiving, reconfiguration, rechecks, the pages of a scan with their deadline,
late and failing native answers. A tick visits the slots in turn, a bounded number each
time. What a watch matches is nondeterministic, and times are abstracted to *due*.
`SemanticWatch` is a pass over the prose watches: its durable cursor, the job that is
stored before the model is asked and kept until its outcome is committed, ambiguous and
definite failures, retries. `RecordWatch` is a watch that an inbox recipient creates
under an idempotency key, with its one grant. `AttentionRecall` is a reader's walk over
raised items by `(seq, ref)` through bounded windows of Activities, while commits and
erasures go on; the edge worker has the same walk. Of what one Activity raised at most
`MaxTargets` elements are read (`MAX_REVIEW_TARGETS`), in no order; the walk is exact for
Activities that raised no more.

### RuntimeInbox, RuntimeApi

The inbox keeps nothing between two calls: the sealed cursor carries the rest of a page
of references, which are read again when delivered. `RuntimeApi` is the bootstrap of
grants (durable markers, adoption of what an interrupted bootstrap left) and the
statements of an agent (row, command, native commit, evidence, answer), each await a
step.

### RecallPass, Briefing, MissCache

`RecallPass` has the plain and the budgeted mode: epoch at the start, materials read under
the fence, tool calls, selection, refresh of permits, packing, receipt, and the last
check of the epoch. Tokens are one unit per item and one for the envelope; `read` numbers
every row the host was given. `Briefing` is recall through the Memory Interface: it waits
for the receipts the caller names, fixes one snapshot, lets a pass over live memory read,
reads what the pass cited again AS OF the snapshot, adds the exact and the search channels
page by page, and says whether it is complete; its pins are kept, and an expansion reads
them again. Memory is its history per sequence number, and an item is one unit of the
output budget. A read of a row may fail, which `element_row` turns into an absent row and
the cache of the briefing keeps (`ElementRow`, `CachedRow`); `lost` is what was missed
this way. A citation or a hit whose read failed is left out without a word, and an
expansion calls it no longer available: `CompleteIsEarned` and `ExpansionIsExact` except
exactly those rows. `MissCache`
has probes without a lock beside writers that clear it. Ranking is nondeterministic.

### SpaceHost, Access

`SpaceHost` follows one Space id: entries with a `OnceCell`, loaders that hold the entry
and then the Space (the `Arc` counts eviction looks at), creation, the background loop,
idle eviction, close with its durable tasks, shutdown. `Access` is the authorization
prelude of a request (clock, signed token, load, Space token) beside minting, revoking
by value and by name, expiry and visibility.

### Settlement, Observations, Utility, Trust

`Settlement` keeps the difference between metadata in memory and metadata flushed (`meta`,
`disk`); a crash falls back to the flush, the usage counts do not. A page of its backlog is
the set of the first rows in the order of transactions and ids. All of its rows go to the
usage ledger; the roots handed to the cycle for review (`handed`) are the first
`RootsLimit` of them (`RevisedRoots`). `Observations` has the lanes of actions and of
learning, whose rows that only audit (late, conflicting, progress) are answered without a
native write. It is the
submission of an outcome as the list of writes it still has to make, with readers of the
index that take no gate. `Utility` is the catalogue, the intent saved before the native
transaction, claims on sampling units and the pass over the index that takes the gate
once per operation. `Trust` goes from verifications to a proposal, its review, the native
commit under the version of the control, and abandon or restore. A verification may be
recorded again at any time, also after it was committed, and verifications may share a
root and an actor (`RootOf`, `ActorOf`): one instance has two verifications of one root, the
other replicas that compete for a root across actors. Scores and sample formulas are
abstracted to counts.

### Learning, LearningScheduler, NativeStanding

`Learning` is one trial: enrollment, authorization, checkpoint and dispatch of each
attempt, outcomes, the cutoff and the verdict, and a safety signal that publishes a
barrier before it waits for the gate. `LearningScheduler` is the automatic pass over many:
settle one listed safety signal, drive one hot job, archive it, enroll the follow-up of a
due review or the next event of the source, save the cursors; every journal write may fail
or be the last. A job that expired with an activation (`"lapsed"`) waits for the verdict of
its cutoff and cannot be archived before. Safety signals come in between at any point where
the gate is free: the verdict saves a review before the history of an archived job is
indexed, and until then the list of signals is what leads to it (`ReviewsAreFound`).

`NativeStanding` is what the trials do to a Skill in the native store: the frozen
baseline, the ledger of attempts and outcomes, and verdicts (activation, settlement,
revocation by a safety signal) that are prepared from a read of the Skill and of the
ledger, kept under a key, recovered by it, and committed only at the version that was
read. Observers correct, withdraw and repeat outcomes, an operator changes the policy,
another revision is selected, answers are lost and the runtime stops, between any two of
those steps. Each outcome of a pair counts one; rates and radii of the paired rule are
numbers of pairs. Three instances: two trials after each other without disturbance
(re-entries and reviews), one trial whose evidence, policy and revision change, and one
that a safety signal overtakes. A lineage of three trials is beyond the bounds.

### Wiki, Chunker

`Wiki` has owned write tasks under `write_lock` whose storage writes are single steps
(publication is the update of the row), the sweep, and the digest that reads and asks the
model outside the lock and publishes claims, ledger and the pending bit under it. A commit
may change the text, the label and the path of its document; `moved` marks one whose path a
commit changed since its import. A publication that is stopped between its claims and its
ledger leaves the claims it touched in `torn`, until a later publication touches them
again: those are the only ones in which graph and ledger may differ.
`Chunker` is `chunk.rs` as operators over a sequence of lines (headings, fences, splits,
merges, halving), with one step that computes the plan of a document; the reference
definition says what a plan must be: ranges that tile the bytes in order, cut at
character boundaries, within the bounds, with the headings they stand under. Which headings
those are is stated without the code's path: the ones that no later heading of their level
or above has ended. After a heading that skips a level the code says something else, and
the property excepts the lines from it to the next top heading (see below).

### EdgeBrain, EdgeMaintenance

A method of the Durable Object is atomic, so an action is a method call; passes are
several calls with a model call between. `EdgeBrain` is intake, passes, managed changes,
forget with its scrub and recovery; `EdgeMaintenance` the leased run, the durable page of
corrections and its cursor. The observation of a source is one piece of Evidence under a key
of its content; `capturedBy` is the receipt whose pass created it. A forget finds the
statements through the Evidence that available receipts name (`Named`): surely when the
capturing pass succeeded, perhaps when a later one cited it again, never through a pass that
failed.

## Runs

| run | instance | checks |
|---|---|---|
| `scheduler_interleavings` | three tasks, two conversations, failing passes, operator restarts | `SingleWriter`, `QueueOrder`, `WatermarkNeverSkips`, `CadenceNeverRewinds` |
| `scheduler_lifecycle` | two tasks, two conversations, requested maintenance, passes that complete or are cut, closes, crashes, aborted requests | `NoLeakedGate`, `CutIsNeverReplayed`, and the refinement `GraphIsLeased` |
| `scheduler_stale_request` | two tasks, no faults | `SettledIsNeverFormedAgain` is violated |
| `product_safety` | two changes (world change, delete) over two records that share Evidence, a pass, crashes, failed writes, host writes | `FenceIsHeld`, `ExcludedNeverForms`, `ConfirmedIsDone`, `CorrectedOnce`, `NoCopyOfErased`, `RemovesOnlyThePreviewed` |
| `product_liveness` | two changes (correct, suppress, delete), crashes, forgets | `PendingResolves` |
| `memory_safety` | two callers, five workloads, crashes, refusals, holds, lost hooks | `OneConversationPerKey`, `BlockedSuccessor`, `AvailableMeansRepaired`, `PlanCovers`, `TerminalIsFinal` |
| `memory_forget_race` | two callers, one source, no faults | `ForgottenStaysForgotten` is violated |
| `action_safety` | two fires of one operation that act or stay silent, a target that cannot deduplicate, crashes, expiring leases, failing target calls, operator, switch | `AtMostOneEffect`, `OneActPerOperation`, `JournalCoversCommits` |
| `action_ask` | one fire that asks, an idempotent target, crashes, failing gates, lost acknowledgements | `RetryBudget`, `AnsweredIsNotAsked`, `EveryWakeSettles` |
| `serving` | the ten reading services, one at a time | `WatchesAreScanned`, `WatchesSpendOnce`, `WalksAreExact`, `RecallIsWhole`, `BriefingIsOneSnapshot`, `ServedByItsOwner` |
| `evidence` | the twelve evidence services, one at a time | `CorrectionsAreSettled`, `PublishedOnce`, `EvidenceCountsOnce`, `LearningIsFenced`, `WikiIsExact`, `EdgeForgets` |
| `liveness` | queue, receipts, watches and digests, one at a time | `ConversationsSettle`, `ReceiptsSettle`, `BackgroundWorkCatchesUp` |

What the combined properties consist of:

| property | parts |
|---|---|
| `WatchesAreScanned` | `Attention`: `ArmedIsListed`, `ReconciledIsScanned` |
| `WatchesSpendOnce` | `SemanticWatch`: `SpendIsBounded`, `StoredIsPending`; `RecordWatch`: `GrantedAndArmedOnce` |
| `WalksAreExact` | `AttentionRecall`: `WalkIsExact`; `RuntimeInbox`: `WalkIsComplete` |
| `RecallIsWhole` | `RecallPass`: `PacketIsWhole`, `PermitsAreCurrent`, `DeliveredIsCurrent` |
| `BriefingIsOneSnapshot` | `Briefing`: `OneSnapshot`, `CompleteIsEarned`, `ExpansionIsExact`; `MissCache`: `StaleMissHeals` |
| `ServedByItsOwner` | `SpaceHost`: `OneOwner`, `ServedIsOpen`; `Access`: `NamesAreUnique`, `AdmittedByLiveCredential` |
| `CorrectionsAreSettled` | `Settlement`: `CorrectionsAreCovered`, `CountedOnce`, `HandedAreCounted`; `EdgeMaintenance`: `CorrectionsAreReviewed` |
| `PublishedOnce` | `RuntimeApi`: `GrantedByBootstrapOnce`, `StatedOnce`; `Observations`: `NothingAppearsBehind`, `AnsweredIsPublished` |
| `EvidenceCountsOnce` | `Utility`: `ChargedOnce`, `ConsumedIsCharged`, `SlotsAreWhole`; `Trust`: `RootCountsOnce`, `AppliedIsNeverAbandoned` |
| `LearningIsFenced` | `Learning`: `DispatchedOnce`, `PendingSafetyIsListed`, `DispatchRespectsSafety`, `NoVerdictAfterSignal`; `LearningScheduler`: `SchedulerKeepsObligations`; `NativeStanding`: `VerdictsFollow`, `AdoptionIsProven`, `CohortsAreClosed`, `ShownIsCurrent` |
| `WikiIsExact` | `Wiki`: `SearchIsExact`, `GraphFollowsDocument`, `OneDocPerConcept`; `Chunker`: `ChunksAreExact` |
| `EdgeForgets` | `EdgeBrain`: `CompletedIsErased`, `ExcludedNeverForms` |
| `ConversationsSettle`, `ReceiptsSettle` | `SpaceScheduler`: `EveryConversationSettles`; `MemoryInterface`: `EveryReceiptSettles` |
| `BackgroundWorkCatchesUp` | `Attention`: `EveryWatchIsScanned`; `Wiki`: `EveryGenerationIsDigested` |

The two violations are findings. In the first, `FormationAgent::run` stores its
conversation, another request's loop forms and settles it, and `run` then passes its
own copy, still submitted, to `try_process`: a completed conversation is formed
again. In the second, a forget scans the receipts of a source, an intake that was
under way saves its conversation and a pass is admitted, the forget suppresses the
source without advancing the epoch and reports completed, and the pass goes on to
write.

Deadlock is not checked in the scheduler, action, serving, evidence and liveness runs:
a Space with nothing queued, wakes that have come to rest and services whose bounds are
used up stop, as they should.

### Bounds

Two conversations are enough for a queue with a head, a successor and a watermark
between them; three tasks for a loop, a request and a maintenance cycle at once. The
cadences are 1 and 2 instead of 21 to 168 conversations, so that each comes due
(`FullEvery`, `QuickEvery`, `DaydreamEvery`); `MaxRounds` is 1, so a conversation
both fails and is given up. Two changes over a shared piece of Evidence let one's
closure reach the other's record; `MaxVersion` leaves room for an outside write per
element besides the changes themselves and `MaxEpoch` for every commit. Two keys
over two sources give a predecessor and a successor, a conflict and a forget;
`MaxTries` is 1. For actions `MaxRetries` is 1, `MaxDepth` bounds the
continuations, `MaxFence` the leases that expire and `MaxOperator` the operator's
retries. `AskedScopes` and `Faults` switch behaviours of the environment on.
Symmetry (tasks, keys, callers) is used in safety runs only.

In the composed runs a page, window or batch has one or two entries and there is always
more than one page of them, so that a cursor stops between two entries; there are one or
two watches, documents, targets, sources and keys, and two whenever the property is about
one standing in the way of the other. Generations (`MaxGen`), versions and epochs go to
2 or 3 (4 where others also write), enough for a scan or digest of an old generation to
meet a newer one; a pass is interrupted or fails once or twice (`MaxFaults`), enough for
a failure during the recovery from another. Three loaders let one open a Space while
another creates it and a third is evicted. The chunker runs over all documents of up to
four lines out of a set of lines with wide characters, two kinds and lengths of fence and
headings that repeat, nest and skip a level, with sizes of 6 to 16 characters instead of
thousands and at most three chunks, so that a line is split, chunks are merged and
the cap is met. Where two hazards of one service together are too many states, each has an
instance: the wiki's renames and imports over two documents, and its digests over one
document with two texts and two facts; trust with a fault, and with three contending
verifications; the scheduler's two cohorts, and one cohort with a safety signal. `serving`
and `evidence` reach about three million states each.

### Fairness

- Scheduler: tokio polls ready tasks, and a pass ends because its turns and its time
  are bounded. Nothing is assumed of requests, and `EveryConversationSettles`
  excepts a caller who asks for maintenance for ever. Passes fail finitely often in
  the code because rounds are counted; the liveness run has completed and given-up
  outcomes and no faults.
- Managed changes: a started step ends, a Space that went down is opened again, and
  the caller of a pending change asks again (`Recommit`); crashes may go on for ever
  only under the property's exception. Host writes are excluded: a version conflict
  that they cause is never resolved by the code.
- `liveness` states these for the service in focus only; the others do not move. For
  attention each Space's steps and clock are weakly fair, and a tick is strongly fair,
  since the host's interval fires again and again although a Space may hold it up; for the
  wiki, the holder of `write_lock`, the waiting tasks and the digest loop are weakly fair.
  A Space that cannot be opened and a document that fails in every pass stay so.
- Memory Interface: a started request runs to its answer, the queue is served, a
  crashed process comes back.
- Actions: the attention service keeps handing over open wakes, a pass ends, time
  passes, a crashed process comes back. Nothing is assumed of replies, outcomes or
  operators.

## Proofs

Every safety property of the scheduler, product, memory and action runs, but the two that
TLC refutes, and six of the twelve properties of the composed runs are theorems: they hold
for every value of the constants, subject to the named
assumptions of the modules (non-empty sets, positive bounds, requests and citations that
are well formed) and to the hypotheses below. The bounds of an instance are no part of an
argument: they are arbitrary naturals.

Each module proves one inductive invariant, a conjunction of named parts with a lemma per
part or per action, and derives the properties from it. TLC checked each invariant on the
instances of the runs.

| theorem | property | module |
|---|---|---|
| `TypeCorrect`, `OneWriterAtATime` | `TypeOK`, `SingleWriter` | `SpaceSchedulerProofs` |
| `GateImplementsLease` | `GraphIsLeased` | `SpaceSchedulerProofs` |
| `NoGateLeaks`, `CadenceIsMonotone`, `CutPassesAreSettled` | `NoLeakedGate`, `CadenceNeverRewinds`, `CutIsNeverReplayed` | `SpaceSchedulerProofs` |
| `QueueIsOrdered`, `WatermarkIsExact` (no `"jump"`) | `QueueOrder`, `WatermarkNeverSkips` | `SpaceSchedulerProofs` |
| `FenceHolds`, `ConfirmedChangesAreDone`, `CorrectionsApplyOnce`, `ErasedIsNotCopied`, `OnlyThePreviewedIsRemoved` | `FenceIsHeld`, `ConfirmedIsDone`, `CorrectedOnce`, `NoCopyOfErased`, `RemovesOnlyThePreviewed` | `ProductChangeProofs` |
| `ExcludedSourcesNeverForm` (no `"forget"`) | `ExcludedNeverForms` | `ProductChangeProofs` |
| `KeysStartOnce`, `AnswersAreFinal`, `RepairPrecedesAvailable`, `PlansAreCovered` | `OneConversationPerKey`, `TerminalIsFinal`, `AvailableMeansRepaired`, `PlanCovers` | `MemoryInterfaceProofs` |
| `SuccessorsAreBlocked` (`NoForgetPrecedes`) | `BlockedSuccessor` | `MemoryInterfaceProofs` |
| `EffectsHappenOnce`, `OneFireActs`, `CommitsAreJournaled`, `RetriesStayInBudget`, `AnswersStopTheQuestion` | `AtMostOneEffect`, `OneActPerOperation`, `JournalCoversCommits`, `RetryBudget`, `AnsweredIsNotAsked` | `ActionRuntimeProofs` |
| `DirectoryTheorem` (`Sized`) | `ArmedIsListed` and `ReconciledIsScanned` of `Attention` | `AttentionProofs` |
| `WatchesAreScannedTheorem`, `WatchesSpendOnceTheorem`, `ServedByItsOwnerTheorem` | `WatchesAreScanned`, `WatchesSpendOnce`, `ServedByItsOwner` | `ServingProofs` |
| `CorrectionsAreSettledTheorem`, `PublishedOnceTheorem`, `EdgeForgetsTheorem` | `CorrectionsAreSettled`, `PublishedOnce`, `EdgeForgets` | `EvidenceProofs`, from the lemmas of `MemoryServicesProofs` |

The three hypotheses `"jump"`, `"forget"` and `NoForgetPrecedes` exclude behaviour under which the property is false. `"jump"` is an
operator who restarts formation from beyond the head; `"forget"` is the exclusion that a
forget saves without advancing the epoch, which is the finding of `memory_forget_race`;
`NoForgetPrecedes` is the order described under MemoryInterface. `Sized` only says that the
sizes of the directory are naturals, that a Space may take two generations, and that its
names are apart; `MCServing` assumes it of both of its instances (`DirectoryAssumption`).

### The scheduler

- `TypeOK` alone is not inductive: the steps of a loop read and write the status and the
  rounds of the task's `cur`, which is 0 in an idle task. `HasConversation` (a task that
  starts, owns or leaves a loop has a conversation) closes the gap.
  `FindNextSubmittedIsLeast` shows that the scan returns 0 or the least pending
  conversation above its argument, from the existence of least elements (`LeastNatural`).
- `SingleWriter` speaks of passes that write; what keeps them apart is who owns the gate.
  `GateInv` is the conjunction of the types, `HasConversation`, `OneCycle` (at most one
  task is in a maintenance state, and the flag is up while it is), `OneOwner` (until the
  tasks are cancelled, at most one loop owns the slot, the slot names its conversation,
  and a cycle past its hand-off runs with the slot free) and `ClosedIsIdle` (nothing runs
  in a closed Space, so a reopened one starts clean).
- The refinement needs one more invariant, `SettledFirst`: a loop that looks for a due
  cycle has settled its conversation, which is what lets a hand-over map to `HandOver` of
  the lease and a refused one to `TakeBack`. A lemma for each kind of abstract step
  (`LeaseBegins`, `LeaseProceeds`, `LeaseSettles`, `LeaseHandsOver`, `LeaseIsTakenBack`,
  `LeaseEnds`, `LeaseStutters`, ...) reduces an action to what it does to the mapped
  variables, and `LeaseStep` goes through the actions.
- `QueueInv` adds who holds what is taken (`SlotHeld`, `FlagHeld`: the converse of
  `OneOwner` and `OneCycle`), that a cycle's mark is no older than any recorded cadence
  (`CadenceInv`), that ids are added without gaps (`Added`), that a task past its
  settlement is behind the watermark (`Settled`), that a conversation which is terminal
  beyond the watermark is being settled by its owner (`Stale`), and `CutInv`: what the
  close cuts short is captured, or its pass is still the only owner of the slot, where the
  reconciliation finds it. With two tasks TLC could not tell a `cut` taken at the first
  look from one taken at the cancellation; with three the former is wrong, since a request
  may have taken over the slot in between. The proof attempt showed it, and the model has
  had both looks since.
- `HeadInv` adds `MarksBehind` (a watermark that a task read is not above the current one)
  and `Order` (below the conversation of a task that may form it, everything beyond the
  watermark is settled). `FoundIsHead` is the fact the order rests on: a scan from an old
  watermark still returns the head, since everything between has been settled.

### Managed changes

`ChangeInv` ties the three places that a crash leaves disagreeing. `ControlInv`: the task
of a commit runs behind its own fence, that of a discard outside of every fence, and
`FenceIsHeld`. `OnceInv` and `VersionInv`: a correction is in `committed` exactly when it
replaced its record once, and a record that still has the previewed version is active, so
a replay cannot commit on it twice. `DoneInv`: once verified, the targets of a deletion or
suppression stay in a final state, through the confirmation and after. `CopyInv`: a copy
of an erased record exists only behind the fence of the deletion that erases it, and a
deletion that confirms has no related change left with content. `PassInv` is separate: a
pass of the current epoch has a source that was not excluded in it.

### The Memory Interface

`MemoryInv` says what each of the concurrent actors may rely on. An intake in flight holds
the gate alone, its receipt is as it created it, and until it starts Formation no
conversation has its key (`GateOf`, `IntakeOf`); this is `OneConversationPerKey`. A forget
under way owns its receipt, and what it may report completed is what its plan names, over
and either erased or still to do (`ForgetOf`); as a completed conversation is never
formed again (`WorkerInv`: whatever precedes the conversation in work is over), nothing
comes back. Who settles found the conversation over, and records an available misrecording
after its repair, which a report without a target never has (`SettleOf`). `ReceiptInv` is what a receipt says, `ConvInv` the numbering
of the queue: conversations follow those of their predecessors. For
`SuccessorsAreBlocked`, `OrderInv` adds that a predecessor of anything written is available
for good or will never settle (`Passed`): since the queue is sequential, a predecessor's
conversation is over when its successor is checked. `NextIsFree` and `FirstQueued` are the
facts about numbers, from the cardinality of an interval and from least elements.

### Actions

`ActionInv`: what a pass holds of its job is what the journal has, but for a preparation
that is about to be saved (`LocalInv`); what the target executed was admitted, and is
admitted again only if the target deduplicates or said that nothing had started
(`EffectInv`); a gate commits once, with its preparation in the journal, its wake
completed and its continuations after it (`CommitInv`); whoever is prepared to act on an
operation is its owner (`OwnerInv`); a call is counted before it is made (`BudgetInv`,
where an operator's retry opens a new window); a question that is about to be sent has not
been answered (`AskInv`). `WakeShape`, `ParentIsWake` and `HasParent` are the facts about
paths.

### Watches

`DirectoryInv` is the invariant of a directory. The part that takes the work is
`OrderIsRegistered`: an operation holds the Space's gate from its registration to the
native write, and in between the entry is dirty and no checkpoint is of its generation. A
watch is therefore armed only in a generation that no scan has begun. `EntryIsTrue` and
`CopyIsTrue` say what a checkpoint is worth, in the entry and in the copy that a scan works
on: every runnable watch up to its position has been looked at, if it is of the current
generation. `SlotsApart`, `IndexIsTrue` and `IndexIsWritten` keep a slot to one Space from
its allocation on, although allocation, entry and index are three writes and a crash may
fall between any two. `TickIsInside` keeps the tick on allocated slots.

`WatchesAreScanned` is about two instances of `Attention` inside `MCServing`.
`ServingProofs` instantiates `AttentionProofs` for each of them, shows the instances equal
(`PagesProved`, `ChangesProved`) and carries the invariant of the one in focus.

For semantic watches `SemanticInv` says that a pass works on the watch its cursor marks as
pending (`PassIsPending`), that an evaluation is stored for that watch only and until its
outcome is saved (`EvaluationIsPending`), and that a call was reserved in the job before it
was made (`CallsAreReserved`). For recorded ones `RecordInv` has the marker before the grant
(`MarkedBeforeGranted`) and no way back to the version a watch is armed from
(`ArmedFromVersionOne`, with `RowsHaveWatches`).

### The Space cache and authorization

`HostInv`: a request past its check of the map holds the entry that the map holds, and that
entry is not being evicted (`LoadersAreMapped`); one request opens a cell (`OneOpens`); what
owns the database is mapped (`OwnerIsMapped`), which is `OneOwner`; the steps of a close
have done what they stand for (`LoopIsMapped`, `ClosedIsDone`), so a closed Space that is
still mapped is the eviction's own or a shutdown's. That eviction takes the entry only when
nobody else refers to it is a fact about the cardinality of the references.

`GateInv`: a row that was checked under the lock stays good to save, as rows only go away
meanwhile (`DraftIsMintable`); a kept row is the one that was minted (`KeptAsMinted`); a
token that was dead when a request began stays dead for it (`DeadStaysDead`); and what
admitted a request was enough for its scope (`AdmittedBy`).

### Settlement and edge maintenance

`SettleInv`: no cursor, in memory or flushed, is ahead of the transactions
(`CursorsAreBehind`), and the cursor that a page leads to leaves behind only what the ledger
has or the page still owes (`PageIsOwed`). What is counted is in the ledger
(`CountsFollowLedger`), and a crash loses counts, never the ledger. The roots that a
settlement carries are on its page or in the ledger (`RootsAreCounted`), which gives
`HandedAreCounted`. `ReviewInv` is the same
argument over the durable page of the edge worker (`RootsAreNumbered`, `StandsBehind`,
`PageIsPending`). Both rest on lemmas about a page as the first rows of a total order:
what is not on it comes after its last row, and a page that is not full is everything.

### Statements, grants and observations

`ApiInv`: a grant is made under a marker begun for it (`GrantsAreMarked`); evidence is under
the one native key of its statement and says what the stored row says (`EvidenceIsBound`);
the statement at the gate does too (`CallIsBound`), so that a retry with other words is
refused before it writes (`AnswersAreStated`).

`ObserveInv` reasons about the list of writes an operation still has to make. `Todo` is what
such a list looks like: the steps of an indexing follow each other in order, a change of a
receipt is followed by an indexing, and the list ends with its answer. `Fits` ties the head
of the list to the stores: an operation that indexes holds the entry allocated last, and
what it will answer is published, or is an audit row of the learning lane, or the list still
has the look-up that leads there.
`HeadsOrdered`, `RowsKeyed` and `EntriesStored` say that the published part of the index has
no hole and names what is stored.

### The edge worker

`EdgeInv`: a change that was begun has excluded its source, and passes over it that still
run were admitted in an older epoch (`PassesFenced`), so their writes are refused, which is
the action property `ExcludedNeverForms`. A receipt is available only after its pass ended
(`IntakeFollowsPass`, `HeldIsNumbered`), and a forgotten source has no receipt that may
still become available (`ForgottenIsSettled`). A statement
is of a source whose observation some receipt of that source captured (`CapturerIsKnown`), and
the Evidence of a forgotten source is gone or is of a failed pass (`ForgottenIsTraceless`), so
a completed forget leaves statements only in that one case.

### What is model-checked only

- Liveness (`PendingResolves`, `EveryWakeSettles`, `ConversationsSettle`,
  `ReceiptsSettle`, `BackgroundWorkCatchesUp`): out of the proof system's reach.
- `WalksAreExact` and `RecallIsWhole`: what a walk delivers and what a packet holds are
  sequences that were sorted, filtered, folded and bisected; the facts about them are
  inductions over data, which the provers cannot instantiate. The same goes for
  `EvidenceCountsOnce`, whose samples are picked from sorted sequences, and for the chunker
  in `WikiIsExact`, a recursive computation.
- `BriefingIsOneSnapshot` and `LearningIsFenced`, whose services (`Briefing` and
  `MissCache`; `Learning`, `LearningScheduler` and `NativeStanding`) have no proofs. Nothing
  in their models is known to be beyond the prover. `CompleteIsEarned` would need that the
  search channels are all there, as they are in the code: without the channel `"skills"`, a
  cut procedure marks nothing.
- The findings, which are counterexamples.

## Divergences met while modelling

Besides the two findings, the models or the reading behind them met the following, which
no run states. Those with a property elsewhere are excluded by a bound or a named fault.

- Attention (`space/attention.rs:129`): an error of `schedule_recheck` leaves the visit,
  and with it the tick, by `?`, where every other failure of a Space is counted and
  passed over; `CHANGELOG.md:831` and `anda_brain/RUNTIME.md:237` speak of fair cursors
  and fair scheduling. The liveness run has a Space that cannot be opened and no reviews.
- Settlement (`settlement/mod.rs:299-303`): a raised Commitment keeps its status, so the
  earliest 50 due ones fill the page of every cycle; "the rest wait for the next" (line
  294) until one of those is closed. Of the up to 500 corrections of a page only the first 20
  are handed to the cycle as revised roots, and the cursor passes them all
  (`settlement/mod.rs:405-422`, against `anda_brain/README.md:182`).
- Learning (`learning/runtime.rs:764-772`): when a review's follow-up was reserved and the
  save of the catalog failed, the same pass may enroll the source's next event, and the next
  pass admits the reserved one without the check for an active trial (line 781): two
  trials are active. A hot slot whose job was never created makes every pass fail
  ("learning job disappeared") until a restart or a host call recovers the catalog.
- Safety signals: one that is sent again after its verdict was saved and before the history
  of its archived job was indexed is taken off the list without the index
  (`learning/runtime/settlement.rs:443-447`), and no later pass finds the review that the
  verdict scheduled.
- Observations: in the learning lane a receipt saved as an audit whose `index` write failed
  is returned by every retry before it is indexed (`consequence/learning.rs:66-67` against
  `anda_brain/API.md:917`, "remain discoverable"). Corrections: one that arrives while
  its original has no outcome reference yet marks nothing (`consequence/service.rs:744-765`
  against `anda_brain/UTILITY_RUNTIME.md:144`).
- Utility: unit claims of a withdrawn intent are never released
  (`consequence/utility/transaction.rs:253-262`).
- Wiki: a digest stopped between the claims and the ledger leaves claims the ledger does
  not own, or has retracted claims that the ledger still lists, and a later digest that
  finds those facts again does not assert them (`wiki/digest.rs:484-531` against the comments at 409
  and 662). A commit may rename a document that was imported; the next import of its path
  finds nothing there and creates a second document for the same concept (`wiki/okf.rs:171`,
  `wiki/store.rs:127-141`).
- Recall: a cited Concept is a candidate that is not required (`memory_interface/recall.rs:909`),
  and the required one of another channel with the same pins is then dropped as a
  duplicate (583-587), so the output budget may omit a commitment that the pass cited
  (comments at 11 and 62). The cut at `MAX_ITEMS` marks no channel incomplete. A failed read
  of a row counts as an absent row (221-225): the hit is skipped, the plan says complete
  (1024-1046), and an expansion calls a live element no longer available (1280-1291).
- Standing: a kept re-entry activation whose closed trial no longer passes
  `validate_prepared` fails as invalid and not as a conflict, so it is never discarded,
  and its job neither settles nor expires until the revision changes.
- Attention recall: of an Activity that raised more than 128 elements the rest is never
  delivered (`space/attention_recall.rs:31`, 172-177).
- Edge worker: a pass that failed, or was abandoned while it still ran, keeps no trace of what
  it wrote and counts as settled (`anda-brain-worker/src/memory-ledger.ts:244-253`, 406-408,
  492-505). If it was the one that captured the observation of a source, a forget of the
  source answers completed and leaves its statements, also those that an abandoned pass
  writes afterwards (against `anda-brain-worker/README.md:99-100`).
- Space cache: a creation opens its own database handle while a load opens the Space
  (`space.rs:404-433`); a shutdown closes only the Spaces of its snapshot
  (`space/lifecycle.rs:25-38`). Authorization reads the clock before it waits for the load
  (`authz.rs:390-418`).
- Chunker: after a heading that skipped a level, the next one of its level is nested under
  it (`wiki/chunk.rs:353` truncates the path by the number of headings and not by level); the cap on chunks breaks the size bound when it halves; a forced
  split may leave a blank piece.
- Formation: an operator may restart from beyond the head (`space.rs:1803`); a lost write
  of a turn's snapshot is only logged (`agents.rs:581`); `processing_report` may pair a
  status and a slot of different moments (`space/processing.rs:55`); maintenance asked
  for again and again may hold the flag whenever a request wants the slot (`space.rs:1600`).
- Managed changes: a version conflict caused by an ungated host write is never resolved
  (`product/changes.rs:511`); a suppression whose target was purged fails its verification
  for ever (`space/lifecycle.rs:707`); the cap of suppressed sources refuses a prepared
  change (`product/changes.rs:473`).
- Memory Interface: an order may name a forget, which its successor does not wait for
  (`memory_interface/sources.rs:239`, `intake.rs:835-860`, against the comment at 832: every
  predecessor "reached a disposition that lets it proceed"); a crash before the key is bound makes retries of the key fail
  (`memory_interface/intake.rs:971`); two repairs of one target may record the refused one
  first (`intake.rs:724`); a forget may stay pending (`forget.rs:266`) and scrub a
  transcript a running snapshot writes back (`forget.rs:860`).
- Actions: an owner that cannot be resolved (`action/service.rs:500`) and a gate left
  prepared (`action/gate.rs:188`) wait for the host.

## Not modelled

- Contents of prompts, messages and graph elements; retrieval and ranking; formatting;
  `types.rs`, payloads and KIP helpers.
- HTTP and MCP decoding: a handler decodes a request and calls one operation, which is
  modelled where it lives. The keyless local mode and the model budget.
- Token budgets, compaction and tool execution of the runner loop: the outcome of a pass.
- Forget targets other than a source, digests of duplicates, pagination of receipts.
- Statistics of a verdict, `procedure_status`, the HTTP executor and the plan contracts of
  learning; the score formulas of utility and trust.
- OKF files, search ranking and the HTML of the wiki; the edge worker's retrieval, agent
  session and wire formats.
- Self tests and experiments, which only read or use a scratch Space; the CLI and the
  migration tool.

`PROJECT.json` gives every component's status and reason.
