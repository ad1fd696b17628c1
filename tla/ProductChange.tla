---------------------------- MODULE ProductChange ----------------------------
(***************************************************************************)
(* Durable, conditional changes of a Space's memory, and the fence that    *)
(* keeps background writers away from them (product/changes.rs,            *)
(* product/control.rs).                                                    *)
(*                                                                         *)
(* A change is prepared (a preview bound to element versions), then        *)
(* committed: the commit raises the epoch, names itself `pending` and      *)
(* excludes the change's sources in one durable write, applies its native  *)
(* requests one by one, and takes the fence down when everything is        *)
(* verified.  Everything runs under the exclusive gate, so one task at a   *)
(* time is inside; between two of its awaits the process may crash, a      *)
(* write may fail, a host settlement may write the graph without the gate, *)
(* and a background pass may be admitted.                                  *)
(***************************************************************************)
EXTENDS Naturals, FiniteSets

CONSTANTS
    Keys,           \* operation keys of changes
    Kinds,          \* kinds of change this instance has
    Records,        \* Assertions that product changes name
    Evidence,       \* Evidence elements that they cite
    Sources,        \* source keys the Evidence was captured from
    Cites,          \* [Records -> SUBSET Evidence]
    SourceOf,       \* [Evidence -> Sources]
    Passes,         \* background passes (Formation, Maintenance)
    MaxVersion,     \* bound: versions of one element
    MaxEpoch,       \* bound: epochs
    Faults          \* which faults and outside writers this instance has

NoKey == "none"
NoSource == "no source"
AllKinds == {"correct", "world_change", "suppress", "delete"}
Elements == Records \cup Evidence

ASSUME KeysAssumption == NoKey \notin Keys
ASSUME SourcesAssumption == NoSource \notin Sources
ASSUME KindsAssumption == Kinds \subseteq AllKinds
ASSUME CitesAssumption ==
    /\ Records \cap Evidence = {}
    /\ Cites \in [Records -> SUBSET Evidence]
    /\ SourceOf \in [Evidence -> Sources]
ASSUME BoundsAssumption == MaxVersion \in Nat \ {0} /\ MaxEpoch \in Nat \ {0}
ASSUME FaultsAssumption == Faults \subseteq {"crash", "io", "host", "forget"}

VARIABLES
    \* durable: ControlState, the change journal and the graph
    epoch, pending, suppressed,
    change,         \* changes/{key}
    tombs,          \* discarded/{key}
    elem,           \* the state and the version of each element
    committed,      \* native idempotency keys of applied corrections
    \* volatile
    phase,          \* "closed", "recovering" or "open"
    task,           \* the task that holds the gate exclusively
    pass,           \* background passes with the epoch they were admitted at
    \* history
    replaced,       \* how often each correction was applied
    leaked          \* sources a pass wrote from while they were excluded

control == <<epoch, pending, suppressed>>
graph == <<elem, committed, replaced>>
vars == <<epoch, pending, suppressed, change, tombs, elem, committed, phase, task,
          pass, replaced, leaked>>

Versions == 0..MaxVersion
States == {"absent", "active", "superseded", "archived", "purged"}
ChangeStates == {"absent", "prepared", "committing", "reconciling", "confirmed", "discarded"}
Steps == {"mark", "apply", "record", "verify", "clear", "confirm", "release", "discard"}

\* A pass that is not running, a gate nobody holds, a change nobody prepared.
Off == [on |-> FALSE, epoch |-> 0, source |-> NoSource]
NoTask == [key |-> NoKey, at |-> "release"]
NoChange == [state |-> "absent", kind |-> "delete", rec |-> NoKey, targets |-> {},
             version |-> [e \in Elements |-> 0], excluded |-> {}, done |-> {},
             content |-> FALSE]

Changes ==
    [state : ChangeStates, kind : AllKinds, rec : Records \cup {NoKey},
     targets : SUBSET Elements, version : [Elements -> Versions],
     excluded : SUBSET Sources, done : SUBSET Elements, content : BOOLEAN]

TypeOK ==
    /\ epoch \in 0..MaxEpoch
    /\ pending \in Keys \cup {NoKey}
    /\ suppressed \subseteq Sources
    /\ change \in [Keys -> Changes]
    /\ tombs \subseteq Keys
    /\ elem \in [Elements -> [state : States, version : Versions]]
    /\ committed \subseteq Keys
    /\ phase \in {"closed", "recovering", "open"}
    /\ task \in [key : Keys \cup {NoKey}, at : Steps]
    /\ pass \in [Passes -> [on : BOOLEAN, epoch : 0..MaxEpoch, source : Sources \cup {NoSource}]]
    /\ replaced \in [Keys -> Nat]
    /\ leaked \subseteq Sources

Init ==
    /\ epoch = 0
    /\ pending = NoKey
    /\ suppressed = {}
    /\ change = [k \in Keys |-> NoChange]
    /\ tombs = {}
    /\ elem = [e \in Elements |-> [state |-> "absent", version |-> 0]]
    /\ committed = {}
    /\ phase = "closed"
    /\ task = NoTask
    /\ pass = [p \in Passes |-> Off]
    /\ replaced = [k \in Keys |-> 0]
    /\ leaked = {}

-----------------------------------------------------------------------------
(* What a change names.                                                    *)

Revises(kind) == kind \in {"correct", "world_change"}

\* A faulty variant of Final: an archived element counts as deleted (see below).
FinalAny(kind) == {"purged", "archived"}

\* The lifecycle state in which a target of the kind is finished.
Final(kind) == IF kind = "delete" THEN {"purged"} ELSE {"purged", "archived"}

Live(e) == elem[e].state \notin {"absent", "purged"}

\* Sets that follow live references both ways: a record (its Proposition
\* included) reaches the Evidence it cites, Evidence reaches every citing record.
Closed(S) ==
    \A r \in Records, e \in Evidence :
      Live(r) /\ Live(e) /\ e \in Cites[r] => (r \in S <=> e \in S)

\* deletion_targets: the live part of the smallest closed set around r.
DeletionTargets(r) ==
    {e \in Elements : Live(e) /\ \A S \in SUBSET Elements : r \in S /\ Closed(S) => e \in S}

Targets(kind, r) == IF Revises(kind) THEN {r} ELSE DeletionTargets(r)

SourcesOf(S) == {SourceOf[e] : e \in Evidence \cap (S \cup UNION {Cites[r] : r \in Records \cap S})}

\* product_record can be built and its sources verified.
Verifiable(r) == Live(r) /\ Cites[r] # {} /\ \A e \in Cites[r] : Live(e)

\* The current versions of a change's targets are the ones it previewed.
Unchanged(c) ==
    /\ Verifiable(c.rec)
    /\ Targets(c.kind, c.rec) = c.targets
    /\ \A e \in c.targets \cup {c.rec} : elem[e].version = c.version[e]

Bump(e, state) == [elem EXCEPT ![e] = [state |-> state, version |-> @.version + 1]]

-----------------------------------------------------------------------------
(* Faulty variants of some definitions below, one plausible slip each.  No *)
(* specification uses them; a property must fail when one takes its        *)
(* definition's place.                                                     *)

\* A commit that excludes its sources without starting a new epoch.
FenceSameEpoch(k) ==
    /\ pending' = k
    /\ suppressed' = suppressed \cup change[k].excluded
    /\ UNCHANGED epoch

\* The fence comes down with the confirmation still to be written.
ReleaseFirst(k) ==
    /\ task = [key |-> k, at |-> "confirm"]
    /\ pending = k
    /\ pending' = NoKey
    /\ UNCHANGED <<epoch, suppressed, change, tombs, graph, phase, task, pass, leaked>>

\* A correction without an idempotency key of its own.
ExecuteAgain(k, e) ==
    /\ elem' = Bump(e, "superseded")
    /\ replaced' = [replaced EXCEPT ![k] = @ + 1]
    /\ UNCHANGED committed

\* PURGE without EXPECT VERSION.
AcceptsAnyVersion(k, e) == TRUE

\* The change is confirmed after its first target, from the journal alone.
VerifyFirst(k) ==
    /\ task = [key |-> k, at |-> "apply"]
    /\ change[k].done # {}
    /\ task' = [key |-> k, at |-> "confirm"]
    /\ UNCHANGED <<control, change, tombs, graph, phase, pass, leaked>>

\* A deletion that leaves the previews of other changes alone.
RelatedNothing(k) == {}

-----------------------------------------------------------------------------
(* Preparing and discarding.                                               *)

\* prepare_change_inner: a preview bound to the current versions.  A key that
\* was used before returns its receipt, or a conflict, and changes nothing.
Prepare(k, kind, r) ==
    /\ phase = "open"
    /\ task = NoTask
    /\ k \notin tombs
    /\ change[k].state = "absent"
    /\ pending = NoKey
    /\ Verifiable(r)
    /\ Revises(kind) => elem[r].state = "active"
    /\ LET targets == Targets(kind, r)
       IN  change' = [change EXCEPT ![k] =
                        [state |-> "prepared", kind |-> kind, rec |-> r, targets |-> targets,
                         version |-> [e \in Elements |->
                                        IF e \in targets \cup {r} THEN elem[e].version ELSE 0],
                         excluded |-> SourcesOf(targets \cup {r}), done |-> {},
                         content |-> TRUE]]
    /\ UNCHANGED <<control, tombs, graph, phase, task, pass, leaked>>

\* product_discard, first write: the tombstone of the key.
Discard(k) ==
    /\ phase = "open"
    /\ task = NoTask
    /\ pending # k
    /\ change[k].state \in {"absent", "prepared", "discarded"}
    /\ tombs' = tombs \cup {k}
    /\ task' = IF change[k].state = "absent" THEN NoTask ELSE [key |-> k, at |-> "discard"]
    /\ UNCHANGED <<control, change, graph, phase, pass, leaked>>

\* product_discard, second write: the preview and its content.
FinishDiscard(k) ==
    /\ task = [key |-> k, at |-> "discard"]
    /\ change' = [change EXCEPT ![k].state = "discarded", ![k].content = FALSE]
    /\ task' = NoTask
    /\ UNCHANGED <<control, tombs, graph, phase, pass, leaked>>

-----------------------------------------------------------------------------
(* Committing.                                                             *)

\* One conditional write of ControlState raises the fence.
Fence(k) ==
    /\ epoch' = epoch + 1
    /\ pending' = k
    /\ suppressed' = suppressed \cup change[k].excluded

\* product_commit of a prepared change whose preview still holds.
Commit(k) ==
    /\ phase = "open"
    /\ task = NoTask
    /\ change[k].state = "prepared"
    /\ pending = NoKey
    /\ epoch < MaxEpoch
    /\ Unchanged(change[k])
    /\ Fence(k)
    /\ task' = [key |-> k, at |-> "mark"]
    /\ UNCHANGED <<change, tombs, graph, phase, pass, leaked>>

MarkCommitting(k) ==
    /\ task = [key |-> k, at |-> "mark"]
    /\ change' = [change EXCEPT ![k].state = "committing"]
    /\ task' = [key |-> k, at |-> "apply"]
    /\ UNCHANGED <<control, tombs, graph, phase, pass, leaked>>

\* product_commit of the pending change: its caller asks again.
Recommit(k) ==
    /\ phase = "open"
    /\ task = NoTask
    /\ pending = k
    /\ task' = [key |-> k, at |-> "apply"]
    /\ UNCHANGED <<control, change, tombs, graph, phase, pass, leaked>>

\* EXPECT VERSION of the generated request.  A world change writes a new claim
\* only, and an applied correction is answered from its idempotency key.
Accepts(k, e) ==
    \/ change[k].kind = "world_change"
    \/ k \in committed
    \/ elem[e].version = change[k].version[e] /\ Live(e)

\* The native transaction of a correction or world change, once for its idempotency key.
ExecuteCorrection(k, e) ==
    IF k \in committed
    THEN UNCHANGED graph
    ELSE /\ elem' = IF change[k].kind = "correct" THEN Bump(e, "superseded") ELSE elem
         /\ committed' = committed \cup {k}
         /\ replaced' = [replaced EXCEPT ![k] = @ + 1]

\* The targets still to apply; records precede the Evidence they cite.
NextTargets(k) ==
    LET left == change[k].targets \ change[k].done
    IN  IF left \cap Records # {} THEN left \cap Records ELSE left

\* apply_change_locked executes the request of the next target; a target that
\* is already in its final state needs none.
ExecuteTarget(k) ==
    /\ task = [key |-> k, at |-> "apply"]
    /\ \E e \in NextTargets(k) :
         \/ /\ ~Revises(change[k].kind)
            /\ elem[e].state \in Final(change[k].kind)
            /\ UNCHANGED graph
         \/ /\ ~Revises(change[k].kind)
            /\ elem[e].state \notin Final(change[k].kind)
            /\ Accepts(k, e)
            /\ elem' = Bump(e, IF change[k].kind = "delete" THEN "purged" ELSE "archived")
            /\ UNCHANGED <<committed, replaced>>
         \/ /\ Revises(change[k].kind)
            /\ Accepts(k, e)
            /\ ExecuteCorrection(k, e)
    /\ task' = [key |-> k, at |-> "record"]
    /\ UNCHANGED <<control, change, tombs, phase, pass, leaked>>

\* The journal records what the graph already holds.
RecordTarget(k) ==
    /\ task = [key |-> k, at |-> "record"]
    /\ \E e \in NextTargets(k) :
         /\ IF Revises(change[k].kind) THEN k \in committed
            ELSE elem[e].state \in Final(change[k].kind)
         /\ change' = [change EXCEPT ![k].done = @ \cup {e}]
    /\ task' = [key |-> k, at |-> "apply"]
    /\ UNCHANGED <<control, tombs, graph, phase, pass, leaked>>

\* A refused request leaves the change reconciling, and pending.
Reconcile(k) ==
    /\ task = [key |-> k, at |-> "apply"]
    /\ \E e \in NextTargets(k) :
         /\ Revises(change[k].kind) \/ elem[e].state \notin Final(change[k].kind)
         /\ ~Accepts(k, e)
    /\ change' = [change EXCEPT ![k].state = "reconciling"]
    /\ task' = NoTask
    /\ phase' = "open"
    /\ UNCHANGED <<control, tombs, graph, pass, leaked>>

\* Every request is done: the notes are reset and the outcome is read back.  With
\* the writers of this model the outcome always matches; a mismatch would leave the
\* task without a step.
Applied(k) ==
    CASE change[k].kind = "correct" -> k \in committed /\ elem[change[k].rec].state = "superseded"
      [] change[k].kind = "world_change" -> k \in committed /\ elem[change[k].rec].state = "active"
      [] change[k].kind = "suppress" -> \A e \in change[k].targets : elem[e].state = "archived"
      [] change[k].kind = "delete" -> \A e \in change[k].targets : elem[e].state = "purged"

Verify(k) ==
    /\ task = [key |-> k, at |-> "apply"]
    /\ change[k].targets = change[k].done
    /\ Applied(k)
    /\ task' = [key |-> k, at |-> IF change[k].kind = "delete" THEN "clear" ELSE "confirm"]
    /\ UNCHANGED <<control, change, tombs, graph, phase, pass, leaked>>

\* Other changes that still hold a copy of what k erased.
Related(k) ==
    {j \in Keys \ {k} :
        /\ change[j].state # "absent"
        /\ change[j].content
        /\ ({change[j].rec} \cup (IF change[j].rec \in Records THEN Cites[change[j].rec] ELSE {}))
             \cap change[k].targets # {}}

\* clear_product_preview_content, one journal record at a time.
ClearRelated(k) ==
    /\ task = [key |-> k, at |-> "clear"]
    /\ \E j \in Related(k) :
         /\ tombs' = IF change[j].state = "prepared" THEN tombs \cup {j} ELSE tombs
         /\ change' = [change EXCEPT
                         ![j].state = IF @ = "prepared" THEN "discarded" ELSE @,
                         ![j].content = FALSE]
    /\ UNCHANGED <<control, graph, phase, task, pass, leaked>>

Cleared(k) ==
    /\ task = [key |-> k, at |-> "clear"]
    /\ Related(k) = {}
    /\ task' = [key |-> k, at |-> "confirm"]
    /\ UNCHANGED <<control, change, tombs, graph, phase, pass, leaked>>

Confirm(k) ==
    /\ task = [key |-> k, at |-> "confirm"]
    /\ change' = [change EXCEPT ![k].state = "confirmed",
                                ![k].content = @ /\ change[k].kind # "delete"]
    /\ task' = [key |-> k, at |-> "release"]
    /\ UNCHANGED <<control, tombs, graph, phase, pass, leaked>>

\* The last write takes the fence down.
Release(k) ==
    /\ task = [key |-> k, at |-> "release"]
    /\ pending' = NoKey
    /\ task' = NoTask
    /\ phase' = "open"
    /\ UNCHANGED <<epoch, suppressed, change, tombs, graph, pass, leaked>>

-----------------------------------------------------------------------------
(* Background passes and the other writers.                                *)

\* A pass is admitted while no change is pending, a Formation pass by its source
\* too; both keep the epoch they start at.  Admission takes no gate.
AdmitPass(p, s) ==
    /\ phase = "open"
    /\ ~pass[p].on
    /\ pending = NoKey
    /\ s \notin suppressed
    /\ pass' = [pass EXCEPT ![p] = [on |-> TRUE, epoch |-> epoch, source |-> s]]
    /\ UNCHANGED <<control, change, tombs, graph, phase, task, leaked>>

\* A tool call holds the gate shared and checks the fence.
MayWrite(p) ==
    /\ pass[p].on
    /\ task = NoTask
    /\ pending = NoKey
    /\ pass[p].epoch = epoch

\* Bound: versions that passes and settlements use up.
Room(e) == elem[e].version + Cardinality(Keys) < MaxVersion

Leak(p) == leaked' = leaked \cup ({pass[p].source} \cap suppressed)

\* Formation writes a claim and the Evidence it captured.
Form(p, r) ==
    /\ MayWrite(p)
    /\ elem[r].state = "absent"
    /\ \A e \in Cites[r] : Live(e) \/ (elem[e].state = "absent" /\ SourceOf[e] = pass[p].source)
    /\ elem' = [e \in Elements |->
                 IF (e = r \/ e \in Cites[r]) /\ elem[e].state = "absent"
                 THEN [state |-> "active", version |-> 1] ELSE elem[e]]
    /\ Leak(p)
    /\ UNCHANGED <<control, change, tombs, committed, replaced, phase, task, pass>>

\* A pass rewrites an element in place.
Touch(p, e) ==
    /\ MayWrite(p)
    /\ elem[e].state = "active"
    /\ Room(e)
    /\ elem' = Bump(e, "active")
    /\ Leak(p)
    /\ UNCHANGED <<control, change, tombs, committed, replaced, phase, task, pass>>

EndPass(p) ==
    /\ pass[p].on
    /\ pass' = [pass EXCEPT ![p] = Off]
    /\ UNCHANGED <<control, change, tombs, graph, phase, task, leaked>>

\* run_kip_settlement and other host writes take no gate.
HostWrite(e) ==
    /\ "host" \in Faults
    /\ phase = "open"
    /\ elem[e].state = "active"
    /\ Room(e)
    /\ elem' = Bump(e, "active")
    /\ UNCHANGED <<control, change, tombs, committed, replaced, phase, task, pass, leaked>>

\* A forget excludes a source under the gate, in the current epoch.
SuppressSources(s) ==
    /\ "forget" \in Faults
    /\ phase = "open"
    /\ task = NoTask
    /\ suppressed' = suppressed \cup {s}
    /\ UNCHANGED <<epoch, pending, change, tombs, graph, phase, task, pass, leaked>>

-----------------------------------------------------------------------------
(* Failures and recovery.                                                  *)

\* A journal write or a read fails: the task ends where it is.
TaskFails ==
    /\ "io" \in Faults
    /\ task # NoTask
    /\ task' = NoTask
    /\ phase' = IF phase = "recovering" THEN "closed" ELSE phase
    /\ UNCHANGED <<control, change, tombs, graph, pass, leaked>>

Crash ==
    /\ "crash" \in Faults
    /\ phase # "closed"
    /\ phase' = "closed"
    /\ task' = NoTask
    /\ pass' = [p \in Passes |-> Off]
    /\ UNCHANGED <<control, change, tombs, graph, leaked>>

\* Opening the Space finishes a pending change before anything else runs.
OpenSpace ==
    /\ phase = "closed"
    /\ IF pending = NoKey
       THEN phase' = "open" /\ UNCHANGED task
       ELSE phase' = "recovering" /\ task' = [key |-> pending, at |-> "apply"]
    /\ UNCHANGED <<control, change, tombs, graph, pass, leaked>>

ChangeStep(k) ==
    \/ \E kind \in Kinds, r \in Records : Prepare(k, kind, r)
    \/ Discard(k)
    \/ FinishDiscard(k)
    \/ Commit(k)
    \/ MarkCommitting(k)
    \/ Recommit(k)
    \/ ExecuteTarget(k)
    \/ RecordTarget(k)
    \/ Reconcile(k)
    \/ Verify(k)
    \/ ClearRelated(k)
    \/ Cleared(k)
    \/ Confirm(k)
    \/ Release(k)

PassStep(p) ==
    \/ \E s \in Sources \cup {NoSource} : AdmitPass(p, s)
    \/ \E r \in Records : Form(p, r)
    \/ \E e \in Elements : Touch(p, e)
    \/ EndPass(p)

Next ==
    \/ \E k \in Keys : ChangeStep(k)
    \/ \E p \in Passes : PassStep(p)
    \/ \E e \in Elements : HostWrite(e)
    \/ \E s \in Sources : SuppressSources(s)
    \/ TaskFails
    \/ Crash
    \/ OpenSpace

Spec == Init /\ [][Next]_vars

\* The tasks DurableTasks owns run to their end, a caller asks again for its
\* pending change, and the Space is opened again after a crash.
Fairness ==
    /\ \A k \in Keys :
         /\ WF_vars(MarkCommitting(k)) /\ WF_vars(FinishDiscard(k))
         /\ WF_vars(ExecuteTarget(k)) /\ WF_vars(RecordTarget(k)) /\ WF_vars(Reconcile(k))
         /\ WF_vars(Verify(k))
         /\ WF_vars(ClearRelated(k)) /\ WF_vars(Cleared(k))
         /\ WF_vars(Confirm(k)) /\ WF_vars(Release(k))
         /\ WF_vars(Recommit(k))
    /\ WF_vars(OpenSpace)

FairSpec == Spec /\ Fairness

-----------------------------------------------------------------------------
(* Properties.                                                             *)

\* The fence belongs to the change that is being applied: a change that is
\* committing or reconciling is the pending one, whatever crash, failed write or
\* refused request came between, so that recovery finds it and no writer gets past
\* it (apply_change_locked; product_commit).
FenceIsHeld ==
    \A k \in Keys : change[k].state \in {"committing", "reconciling"} => pending = k

\* No pass writes memory from a source that a managed change excluded, even one
\* admitted before the exclusion (Control::check against the epoch that
\* product_commit raises).
ExcludedNeverForms == leaked = {}

\* A confirmed deletion erased its whole closure and a confirmed suppression left
\* none of it active, over every interrupted and repeated application
\* (apply_change_locked).
ConfirmedIsDone ==
    \A k \in Keys :
      change[k].state = "confirmed" /\ ~Revises(change[k].kind) =>
        \A e \in change[k].targets : elem[e].state \in Final(change[k].kind)

\* A correction is written at most once, although a crash between its native commit
\* and the journal makes apply_change_locked execute it again.
CorrectedOnce == \A k \in Keys : replaced[k] <= 1

\* A managed change removes an element only at the version its preview showed to the
\* caller (EXPECT VERSION of change_requests, against host writes without the gate).
RemovesOnlyThePreviewed ==
    [][\A e \in Elements :
        elem[e].state \notin {"purged", "archived"} /\ elem'[e].state \in {"purged", "archived"} =>
          \E k \in Keys : /\ pending = k
                          /\ e \in change[k].targets
                          /\ elem[e].version = change[k].version[e]]_vars

\* Once the fence of a deletion is down, no other change keeps a copy of an erased
\* record (clear_related_change_content runs inside the recovery boundary).
NoCopyOfErased ==
    pending = NoKey =>
      \A k \in Keys :
        change[k].state # "absent" /\ change[k].content => elem[change[k].rec].state # "purged"

\* A fence that went up comes down: a pending change is finished once its caller
\* asks again or the Space is reopened, unless the process crashes forever, when
\* nothing else writes the graph meanwhile (product_commit, recover_product_change).
PendingResolves ==
    \/ []<><<Crash>>_vars
    \/ \A k \in Keys : pending = k ~> pending # k

=============================================================================
