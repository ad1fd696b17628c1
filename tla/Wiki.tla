-------------------------------- MODULE Wiki --------------------------------
(***************************************************************************)
(* The wiki of a Space: documents with immutable versions, the chunk rows  *)
(* that search reads, and the digest that distils a document into claims   *)
(* of the graph.                                                           *)
(*                                                                         *)
(* Every write is an owned task that outlives its caller and holds         *)
(* write_lock for its whole work.  A commit is five storage writes whose   *)
(* middle one, the update of the document row, publishes it; the sweep     *)
(* reclaims what an interrupted write left.  The digest reads a document   *)
(* and asks the model for its facts outside the lock, and publishes them   *)
(* under it: claims first, then the ledger of the claims it owns, then the *)
(* pending bit of the row.                                                 *)
(***************************************************************************)
EXTENDS Naturals, Sequences, FiniteSets, SequencesExt

CONSTANTS
    MaxDocs,       \* document rows
    MaxVersions,   \* version rows
    Slugs,         \* concept paths, each a namespace and a slug
    Sums,          \* checksums of contents
    Facts,         \* triples the model may extract
    Page,          \* MAX_VERSIONS_PER_RUN
    Slots,         \* concurrent owned tasks, a range 1..n
    Broken,        \* documents whose extraction always fails
    Ops,           \* subset of {"create", "commit", "import", "rename", "archive", "restore",
                   \* "label", "sweep", "digest"}
    MaxLedger,     \* bound on ledger entries of a document
    MaxGen,        \* bound on the generations of a document
    Faults         \* subset of {"write", "crash", "cancel", "model"}

Docs == 1..MaxDocs
Versions == 1..MaxVersions

\* Paths: a slug as it was asked for, or with the suffix -n.
Plain(s) == <<s, 1>>
NoPath == <<>>

VARIABLES
    row,       \* document rows, NoRow where there is none
    version,   \* version rows: [doc, parent, sum], NoVersion where there is none
    chunk,     \* the chunk rows of a version: "none", current = 0 "idle", current = 1 "live"
    nextv,     \* the next version id
    claims,    \* claims of a document in the graph: <<fact, assertion_generation>>
    ledger,    \* newest DigestExtracted event of a document
    torn,      \* claims an interrupted publication left otherwise than the ledger says
    task,      \* the owned tasks
    lock,      \* the slot that holds write_lock, 0 for none
    pass,      \* the digest pass that holds the running flag
    cursor,    \* DIGEST_DOC_CURSOR_KEY
    dirty      \* a write was interrupted since the last sweep

store == <<row, version, chunk, nextv>>
graph == <<claims, ledger, torn>>
vars == <<row, version, chunk, nextv, claims, ledger, torn, task, lock, pass, cursor, dirty>>

\* concept is the bundle path a document was last imported from; moved, that a
\* commit has since changed its path.
NoRow == [slug |-> NoPath, concept |-> NoPath, moved |-> FALSE, cur |-> 0, gen |-> 0, pending |-> FALSE,
          active |-> FALSE, open |-> FALSE, sum |-> "", exists |-> FALSE]
NoVersion == [doc |-> 0, parent |-> 0, sum |-> ""]
NoLedger == [id |-> 0, sum |-> "", facts |-> {}, retracted |-> FALSE]
Idle == [op |-> "idle", pc |-> "", doc |-> 0, base |-> 0, sum |-> "", open |-> TRUE,
         slug |-> NoPath, ver |-> 0, gen |-> 0, head |-> 0, owned |-> {}, facts |-> {}]
NoPass == [todo |-> <<>>, on |-> FALSE, slot |-> 0]

Init ==
    /\ row = [d \in Docs |-> NoRow]
    /\ version = [v \in Versions |-> NoVersion]
    /\ chunk = [v \in Versions |-> "none"]
    /\ nextv = 1
    /\ claims = [d \in Docs |-> {}]
    /\ ledger = [d \in Docs |-> NoLedger]
    /\ torn = [d \in Docs |-> {}]
    /\ task = [s \in Slots |-> Idle]
    /\ lock = 0
    /\ pass = NoPass
    /\ cursor = 0
    /\ dirty = FALSE

\* doc_record treats an initializing sentinel as absent.
Published(d) == row[d].exists /\ row[d].cur # 0

\* What the digest may distil: an active document, neither labelled nor of the
\* evaluation namespace.
Distillable(r) == r.active /\ r.open

\* The versions that have rows of a document, whose chunks the sweep scans.
ChunksOf(d) == {v \in Versions : version[v].doc = d}

\* Published parents, never numeric ids, make a version a member of a document.
Chain(d) ==
    LET up[n \in 0..MaxVersions] ==
            IF n = 0 THEN {row[d].cur}
            ELSE up[n - 1] \cup {version[v].parent : v \in up[n - 1] \cap Versions}
    IN up[MaxVersions] \ {0}

\* The published version of a document with that id.
PublishedVersion(d, v) == v \in Chain(d)

FindBySlug(s) == {d \in Docs : row[d].exists /\ row[d].slug = s}

\* A slug another document has gets the next free suffix; two are never merged.
UniqueSlug(s, d) ==
    <<s[1], Min({n \in 1..MaxDocs + 1 : FindBySlug(<<s[1], n>>) \subseteq {d}})>>

(***************************************************************************)
(* Owned tasks and the lock.                                               *)
(***************************************************************************)
FreeSlot(s) == task[s].op = "idle" /\ \A t \in Slots : t < s => task[t].op # "idle"

Submit(s, w) ==
    /\ FreeSlot(s)
    /\ task' = [task EXCEPT ![s] = [w EXCEPT !.pc = "lock"]]

\* Mutant: an import looks its slug up before it takes the lock.
AcquireUnlocked(s) ==
    /\ task[s].pc = "lock"
    /\ lock = 0 \/ task[s].op = "import"
    /\ lock' = s
    /\ task' = [task EXCEPT ![s].pc = "check"]
    /\ UNCHANGED <<store, graph, pass, cursor, dirty>>

Acquire(s) ==
    /\ task[s].pc = "lock"
    /\ lock = 0
    /\ lock' = s
    /\ task' = [task EXCEPT ![s].pc = "check"]
    /\ UNCHANGED <<store, graph, pass, cursor, dirty>>

Holds(s, op, pc) == task[s].op \in op /\ task[s].pc = pc

Goto(s, pc) == task' = [task EXCEPT ![s].pc = pc] /\ UNCHANGED lock

Done(s) == task' = [task EXCEPT ![s] = Idle] /\ lock' = 0

(***************************************************************************)
(* Callers.  An editor sends the version it read as parent_version.        *)
(***************************************************************************)
Create(s, slug, x) ==
    /\ "create" \in Ops
    /\ Submit(s, [Idle EXCEPT !.op = "create", !.slug = Plain(slug), !.sum = x])
    /\ UNCHANGED <<store, graph, lock, pass, cursor, dirty>>

\* A commit may move its document to another path; NoPath keeps the stored one.
Commit(s, d, v, x, o, path) ==
    /\ "commit" \in Ops
    /\ row[d].exists /\ v \in 1..row[d].cur
    /\ o \in {TRUE} \cup {b \in BOOLEAN : "label" \in Ops}
    /\ path # NoPath => "rename" \in Ops
    /\ Submit(s, [Idle EXCEPT !.op = "commit", !.doc = d, !.base = v, !.sum = x, !.open = o,
                              !.slug = path])
    /\ UNCHANGED <<store, graph, lock, pass, cursor, dirty>>

Import(s, slug, x) ==
    /\ "import" \in Ops
    /\ Submit(s, [Idle EXCEPT !.op = "import", !.slug = Plain(slug), !.sum = x])
    /\ UNCHANGED <<store, graph, lock, pass, cursor, dirty>>

Shelve(s, d, op) ==
    /\ op \in Ops \cap {"archive", "restore"}
    /\ row[d].exists
    /\ Submit(s, [Idle EXCEPT !.op = op, !.doc = d])
    /\ UNCHANGED <<store, graph, lock, pass, cursor, dirty>>

OrphanSweep(s) ==
    /\ "sweep" \in Ops
    /\ \A t \in Slots : task[t].op # "sweep"
    /\ Submit(s, [Idle EXCEPT !.op = "sweep"])
    /\ UNCHANGED <<store, graph, lock, pass, cursor, dirty>>

(***************************************************************************)
(* commit_prepared.                                                        *)
(***************************************************************************)
Writes == {"create", "commit", "import"}

\* The document the slug of an import names, the document of a commit, or none.
TargetOf(w) ==
    IF w.op = "import" /\ FindBySlug(w.slug) # {} THEN CHOOSE d \in FindBySlug(w.slug) : TRUE
    ELSE w.doc

\* What is refused without a write: a sentinel, an archived document, a stale
\* parent, and the commit that would change nothing.
Refuses(w, d) ==
    \/ ~Published(d)
    \/ ~row[d].active
    \/ w.op = "commit" /\ w.base # row[d].cur
    \/ row[d].sum = w.sum /\ row[d].open = w.open /\ w.slug \in {NoPath, row[d].slug}

\* The path of a document after a commit: the stored one, or the one asked for
\* when it is another and made unique.
PathAfter(w, d) ==
    IF w.slug \in {NoPath, row[d].slug} THEN row[d].slug ELSE UniqueSlug(w.slug, d)

\* The bounds on rows end a commit here, before it writes.
CommitCheck(s) ==
    /\ Holds(s, Writes, "check")
    /\ LET d == TargetOf(task[s])
           w == [task[s] EXCEPT !.open = IF task[s].op = "import" /\ d # 0 THEN row[d].open ELSE @]
       IN IF d # 0
          THEN IF Refuses(w, d) \/ nextv \notin Versions
               THEN Done(s)
               ELSE /\ task' = [task EXCEPT ![s] = [w EXCEPT !.pc = "version", !.doc = d,
                                                       !.base = row[d].cur, !.slug = PathAfter(w, d)]]
                    /\ UNCHANGED lock
          ELSE IF nextv \notin Versions \/ \A e \in Docs : row[e].exists THEN Done(s) ELSE Goto(s, "row")
    /\ UNCHANGED <<store, graph, pass, cursor, dirty>>

\* A new document starts as a sentinel: current_version 0.
AddSentinel(s) ==
    /\ Holds(s, Writes, "row")
    /\ \E d \in Docs :
          /\ ~row[d].exists /\ \A e \in Docs : e < d => row[e].exists
          /\ row' = [row EXCEPT ![d] =
                [NoRow EXCEPT !.exists = TRUE, !.slug = UniqueSlug(task[s].slug, 0), !.gen = 1,
                              !.concept = IF task[s].op = "import" THEN task[s].slug ELSE NoPath,
                              !.active = TRUE, !.open = TRUE]]
          /\ task' = [task EXCEPT ![s].pc = "version", ![s].doc = d,
                                  ![s].slug = UniqueSlug(task[s].slug, 0)]
    /\ UNCHANGED <<version, chunk, nextv, graph, lock, pass, cursor, dirty>>

AddVersion(s) ==
    /\ Holds(s, Writes, "version")
    /\ version' = [version EXCEPT ![nextv] =
                      [doc |-> task[s].doc, parent |-> task[s].base, sum |-> task[s].sum]]
    /\ task' = [task EXCEPT ![s].pc = "chunks", ![s].ver = nextv]
    /\ nextv' = nextv + 1
    /\ UNCHANGED <<row, chunk, graph, lock, pass, cursor, dirty>>

AddChunks(s) ==
    /\ Holds(s, Writes, "chunks")
    /\ chunk' = [chunk EXCEPT ![task[s].ver] = "idle"]
    /\ Goto(s, "activate")
    /\ UNCHANGED <<row, version, nextv, graph, pass, cursor, dirty>>

\* The update that makes the commit effective, and owes it a digest.
Activate(s) ==
    /\ Holds(s, Writes, "activate")
    /\ LET w == task[s]
           imports == w.op = "import" /\ w.base # 0
       IN row' = [row EXCEPT ![w.doc].cur = w.ver, ![w.doc].pending = TRUE, ![w.doc].sum = w.sum,
                             ![w.doc].active = TRUE, ![w.doc].open = w.open, ![w.doc].slug = w.slug,
                             ![w.doc].concept = IF imports THEN w.slug ELSE @,
                             ![w.doc].moved = ~imports /\ (@ \/ w.slug # row[w.doc].slug),
                             ![w.doc].gen = IF w.base = 0 THEN 1 ELSE @ + 1]
    /\ Goto(s, "flags")
    /\ UNCHANGED <<version, chunk, nextv, graph, pass, cursor, dirty>>

ActivateChunks(s) ==
    /\ Holds(s, Writes, "flags")
    /\ chunk' = [chunk EXCEPT ![task[s].ver] = "live"]
    /\ Goto(s, "superseded")
    /\ UNCHANGED <<row, version, nextv, graph, pass, cursor, dirty>>

\* The audit event that follows is not part of the state.
RemoveSuperseded(s) ==
    /\ Holds(s, Writes, "superseded")
    /\ chunk' = [v \in Versions |-> IF v = task[s].base THEN "none" ELSE chunk[v]]
    /\ Done(s)
    /\ UNCHANGED <<row, version, nextv, graph, pass, cursor, dirty>>

(***************************************************************************)
(* archive and restore.                                                    *)
(***************************************************************************)
ShelveRow(s) ==
    /\ Holds(s, {"archive", "restore"}, "check")
    /\ LET d == task[s].doc IN
       IF Published(d) /\ row[d].active = (task[s].op = "archive")
       THEN /\ row' = [row EXCEPT ![d].active = ~@, ![d].gen = @ + 1, ![d].pending = TRUE]
            /\ Goto(s, "flags")
       ELSE UNCHANGED row /\ Done(s)
    /\ UNCHANGED <<version, chunk, nextv, graph, pass, cursor, dirty>>

ShelveChunks(s) ==
    /\ Holds(s, {"archive", "restore"}, "flags")
    /\ LET v == row[task[s].doc].cur IN
       chunk' = [chunk EXCEPT ![v] = IF @ = "none" THEN @
                                     ELSE IF row[task[s].doc].active THEN "live" ELSE "idle"]
    /\ Done(s)
    /\ UNCHANGED <<row, version, nextv, graph, pass, cursor, dirty>>

(***************************************************************************)
(* orphan_sweep, one document after the other.                             *)
(***************************************************************************)
\* Mutant: rows of versions that were once published are left where they are.
SweptChunkOfOrphans(d, v) ==
    IF v \in Chain(d) THEN IF v = row[d].cur /\ chunk[v] # "none"
                           THEN IF row[d].active THEN "live" ELSE "idle"
                           ELSE chunk[v]
    ELSE "none"

\* The chunk rows of a document after its sweep: only the current version's,
\* flagged as the status of the document says.
SweptChunk(d, v) ==
    IF v # row[d].cur \/ chunk[v] = "none" THEN "none"
    ELSE IF row[d].active THEN "live" ELSE "idle"

\* A sentinel is removed with everything under it once it is older than its TTL.
SweepSentinel(d) ==
    /\ row' = [row EXCEPT ![d] = NoRow]
    /\ version' = [v \in Versions |-> IF v \in ChunksOf(d) THEN NoVersion ELSE version[v]]
    /\ chunk' = [v \in Versions |-> IF v \in ChunksOf(d) THEN "none" ELSE chunk[v]]

SweepPublished(d) ==
    /\ version' = [v \in Versions |-> IF v \in ChunksOf(d) /\ v \notin Chain(d)
                                      THEN NoVersion ELSE version[v]]
    /\ chunk' = [v \in Versions |-> IF v \in ChunksOf(d) THEN SweptChunk(d, v) ELSE chunk[v]]
    /\ UNCHANGED row

SweepDoc(s) ==
    /\ Holds(s, {"sweep"}, "check")
    /\ task[s].doc < MaxDocs
    /\ LET d == task[s].doc + 1 IN
       /\ \/ row[d].exists /\ row[d].cur = 0 /\ SweepSentinel(d)
          \/ row[d].exists /\ row[d].cur # 0 /\ SweepPublished(d)
          \/ row[d].cur = 0 /\ UNCHANGED <<row, version, chunk>>
       /\ task' = [task EXCEPT ![s].doc = d]
    /\ UNCHANGED <<nextv, graph, lock, pass, cursor, dirty>>

SweepEnd(s) ==
    /\ Holds(s, {"sweep"}, "check")
    /\ task[s].doc = MaxDocs
    /\ dirty' = FALSE
    /\ Done(s)
    /\ UNCHANGED <<store, graph, pass, cursor>>

(***************************************************************************)
(* The digest pass.                                                        *)
(***************************************************************************)
Pending == {d \in Docs : Published(d) /\ row[d].pending}

Ascending(S) == SetToSortSeq(S, <)

\* One cyclic, ascending page behind the cursor.
PendingDocuments ==
    LET order == Ascending({d \in Pending : d > cursor}) \o Ascending({d \in Pending : d <= cursor})
    IN SubSeq(order, 1, IF Len(order) < Page THEN Len(order) ELSE Page)

Snapshot(d) == [doc |-> d, gen |-> row[d].gen, ver |-> row[d].cur,
                sum |-> row[d].sum, distil |-> Distillable(row[d])]

\* run_pending: one pass at a time.
RunPending ==
    /\ "digest" \in Ops
    /\ ~pass.on
    /\ Pending # {}
    /\ pass' = [on |-> TRUE, slot |-> 0,
                todo |-> [i \in 1..Len(PendingDocuments) |-> Snapshot(PendingDocuments[i])]]
    /\ UNCHANGED <<store, graph, task, lock, cursor, dirty>>

\* Mutant: the cursor moves only when the document was digested.
SaveDocCursorOnSuccess(d) == cursor' = IF d \in Broken THEN cursor ELSE d

\* The cursor moves on every attempt, failures and stale generations included.
SaveDocCursor(d) == cursor' = d

Taken == pass.on /\ pass.slot = 0 /\ pass.todo # <<>> /\ ledger[Head(pass.todo).doc].id < MaxLedger

\* A document that may not be distilled: withdraw what is owned.
DigestWithdraw(s) ==
    /\ Taken /\ ~Head(pass.todo).distil
    /\ LET n == Head(pass.todo) IN
       /\ SaveDocCursor(n.doc)
       /\ Submit(s, [Idle EXCEPT !.op = "withdraw", !.doc = n.doc, !.gen = n.gen, !.ver = n.ver,
                                 !.sum = n.sum])
    /\ pass' = [pass EXCEPT !.slot = s]
    /\ UNCHANGED <<store, graph, lock, dirty>>

\* The facts of a publication: previous ones not found absent, with the
\* generation they were asserted in, and new ones, asserted in this one.
Merge(previous, absent, new, generation) ==
    LET kept == {p \in previous : p[1] \notin absent \ new}
    IN kept \cup {<<f, generation>> : f \in new \ {p[1] : p \in kept}}

\* The claims the ledger lists are read, the model answers, and the publication
\* is submitted.  A text the ledger already covers is not sent to the model.
DigestExtract(s, new, absent) ==
    /\ Taken /\ Head(pass.todo).distil
    /\ LET n == Head(pass.todo)
           head == ledger[n.doc]
           unchanged == head.id # 0 /\ head.sum = n.sum /\ ~head.retracted
       IN /\ absent \subseteq {p[1] : p \in head.facts}
          /\ unchanged => new = {} /\ absent = {}
          /\ n.doc \in Broken => unchanged
          /\ PublishedVersion(n.doc, n.ver)
          /\ SaveDocCursor(n.doc)
          /\ Submit(s, [Idle EXCEPT !.op = "publish", !.doc = n.doc, !.gen = n.gen, !.ver = n.ver,
                                    !.sum = n.sum, !.head = head.id, !.owned = head.facts,
                                    !.facts = Merge(head.facts, absent, new, head.id)])
    /\ pass' = [pass EXCEPT !.slot = s]
    /\ UNCHANGED <<store, graph, lock, dirty>>

\* The model or a read failed: the document stays pending.
DigestFailed ==
    /\ Taken /\ Head(pass.todo).distil
    /\ Head(pass.todo).doc \in Broken \cup {d \in Docs : "model" \in Faults}
    /\ SaveDocCursor(Head(pass.todo).doc)
    /\ pass' = [pass EXCEPT !.todo = Tail(@)]
    /\ UNCHANGED <<store, graph, task, lock, dirty>>

DigestNext ==
    /\ pass.on /\ pass.slot # 0
    /\ task[pass.slot].op = "idle"
    /\ pass' = [pass EXCEPT !.todo = Tail(@), !.slot = 0]
    /\ UNCHANGED <<store, graph, task, lock, cursor, dirty>>

PassEnd ==
    /\ pass.on /\ pass.slot = 0 /\ pass.todo = <<>>
    /\ pass' = NoPass
    /\ UNCHANGED <<store, graph, task, lock, cursor, dirty>>

(***************************************************************************)
(* Publication under the lock.                                             *)
(***************************************************************************)
\* Mutant: the generation is not read again under the lock.
FreshOnceRead(w) == Published(w.doc)

\* The generation is unchanged and still owed.
Fresh(w) == Published(w.doc) /\ row[w.doc].gen = w.gen /\ row[w.doc].pending

PublishCheck(s) ==
    /\ Holds(s, {"publish"}, "check")
    /\ LET w == task[s] IN
       IF Fresh(w) /\ ledger[w.doc].id = w.head THEN Goto(s, "assert") ELSE Done(s)
    /\ UNCHANGED <<store, graph, pass, cursor, dirty>>

\* Facts whose symbols the vocabulary refuses are dropped; they are facts the
\* model might not have found.
AssertFacts(s) ==
    /\ Holds(s, {"publish"}, "assert")
    /\ claims' = [claims EXCEPT ![task[s].doc] = @ \cup (task[s].facts \ task[s].owned)]
    /\ Goto(s, "retract")
    /\ UNCHANGED <<store, ledger, torn, pass, cursor, dirty>>

\* A withdrawal retracts what the ledger lists now; an empty ledger is left as it is.
WithdrawCheck(s) ==
    /\ Holds(s, {"withdraw"}, "check")
    /\ LET w == task[s] IN
       IF ~Fresh(w) THEN Done(s)
       ELSE /\ UNCHANGED lock
            /\ task' = [task EXCEPT ![s].pc = IF ledger[w.doc].facts = {} THEN "finish" ELSE "retract",
                                    ![s].owned = ledger[w.doc].facts, ![s].facts = {}]
    /\ UNCHANGED <<store, graph, pass, cursor, dirty>>

\* Claims the ledger lists and the text no longer makes.
RetractFacts(s) ==
    /\ Holds(s, {"publish", "withdraw"}, "retract")
    /\ claims' = [claims EXCEPT ![task[s].doc] = @ \ (task[s].owned \ task[s].facts)]
    /\ Goto(s, "ledger")
    /\ UNCHANGED <<store, ledger, torn, pass, cursor, dirty>>

\* What the publication asserts and retracts, under the generation it read.
Touched(w) == (w.facts \ w.owned) \cup (w.owned \ w.facts)

\* A completed publication sets right what it touched.
WriteLedger(s) ==
    /\ Holds(s, {"publish", "withdraw"}, "ledger")
    /\ ledger' = [ledger EXCEPT ![task[s].doc] =
                     [id |-> @.id + 1, sum |-> task[s].sum, facts |-> task[s].facts,
                      retracted |-> task[s].op = "withdraw"]]
    /\ torn' = [torn EXCEPT ![task[s].doc] = @ \ Touched(task[s])]
    /\ Goto(s, "finish")
    /\ UNCHANGED <<store, claims, pass, cursor, dirty>>

FinishGeneration(s) ==
    /\ Holds(s, {"publish", "withdraw"}, "finish")
    /\ row' = [row EXCEPT ![task[s].doc].pending = FALSE]
    /\ Done(s)
    /\ UNCHANGED <<version, chunk, nextv, graph, pass, cursor, dirty>>

(***************************************************************************)
(* Faults.                                                                 *)
(***************************************************************************)
\* The claims change and the ledger is not written yet.
Publishing(s) == task[s].op \in {"publish", "withdraw"} /\ task[s].pc \in {"retract", "ledger"}

\* A task that is stopped between its claims and the ledger leaves claims the
\* ledger does not tell of; claims are retracted one request after the other.
Tear(s) ==
    LET w == task[s] IN
    \/ /\ Publishing(s)
       /\ torn' = [torn EXCEPT ![w.doc] = @ \cup Touched(w)]
       /\ \E gone \in SUBSET (w.owned \ w.facts) :
             claims' = [claims EXCEPT ![w.doc] = IF w.pc = "retract" THEN @ \ gone ELSE @]
    \/ /\ ~Publishing(s)
       /\ UNCHANGED <<torn, claims>>

\* A storage write fails: the task ends where it is and releases the lock.
WriteFails(s) ==
    /\ "write" \in Faults
    /\ lock = s /\ task[s].pc # "check"
    /\ Tear(s)
    /\ dirty' = TRUE
    /\ Done(s)
    /\ UNCHANGED <<store, ledger, pass, cursor>>

\* The process stops; the Space sweeps when it opens again.
Crash ==
    /\ "crash" \in Faults
    /\ lock # 0
    /\ Tear(lock)
    /\ task' = [[s \in Slots |-> Idle] EXCEPT ![1] = [Idle EXCEPT !.op = "sweep", !.pc = "lock"]]
    /\ lock' = 0
    /\ pass' = NoPass
    /\ dirty' = TRUE
    /\ UNCHANGED <<store, ledger, cursor>>

\* The caller of a pass is dropped: its guard clears the flag, its task goes on.
CancelPass ==
    /\ "cancel" \in Faults
    /\ pass.slot # 0
    /\ pass' = NoPass
    /\ UNCHANGED <<store, graph, task, lock, cursor, dirty>>

Room == \A d \in Docs : row[d].gen < MaxGen

CommitStep(s) ==
    CommitCheck(s) \/ AddSentinel(s) \/ AddVersion(s) \/ AddChunks(s)
    \/ Activate(s) \/ ActivateChunks(s) \/ RemoveSuperseded(s)

OtherStep(s) ==
    ShelveRow(s) \/ ShelveChunks(s) \/ SweepDoc(s) \/ SweepEnd(s)

PublishStep(s) ==
    PublishCheck(s) \/ AssertFacts(s) \/ WithdrawCheck(s) \/ RetractFacts(s)
    \/ WriteLedger(s) \/ FinishGeneration(s)

DigestStep ==
    \/ DigestFailed \/ DigestNext \/ PassEnd
    \/ \E s \in Slots : DigestWithdraw(s)
    \/ \E s \in Slots, new \in SUBSET Facts, absent \in SUBSET Facts : DigestExtract(s, new, absent)

Next ==
    \/ \E s \in Slots :
          \/ Acquire(s) \/ CommitStep(s) \/ OtherStep(s) \/ PublishStep(s)
          \/ WriteFails(s) \/ OrphanSweep(s)
          \/ /\ Room
             /\ \/ nextv \in Versions /\ \E slug \in Slugs, x \in Sums : Create(s, slug, x) \/ Import(s, slug, x)
                \/ nextv \in Versions
                   /\ \E d \in Docs, v \in Versions, x \in Sums, o \in BOOLEAN,
                        path \in {NoPath} \cup {Plain(slug) : slug \in Slugs} : Commit(s, d, v, x, o, path)
                \/ \E d \in Docs, op \in {"archive", "restore"} : Shelve(s, d, op)
    \/ RunPending \/ DigestStep \/ Crash \/ CancelPass

Spec == Init /\ [][Next]_vars

\* Tasks run to their end, maintenance starts the digest again and again.
Fairness ==
    /\ WF_vars(\E s \in Slots : Acquire(s))
    /\ WF_vars(\E s \in Slots : CommitStep(s) \/ OtherStep(s) \/ PublishStep(s))
    /\ WF_vars(RunPending)
    /\ WF_vars(DigestStep)

FairSpec == Spec /\ Fairness

(***************************************************************************)
(* Properties.                                                             *)
(***************************************************************************)
\* The document, version, chunk and digest state have the shapes of their rows.
TypeOK ==
    /\ \A d \in Docs : row[d].cur \in 0..MaxVersions /\ row[d].gen \in 0..MaxGen + Cardinality(Slots)
    /\ \A v \in Versions : version[v].doc \in 0..MaxDocs /\ version[v].parent \in 0..MaxVersions
    /\ chunk \in [Versions -> {"none", "idle", "live"}]
    /\ {claims, torn} \subseteq [Docs -> SUBSET (Facts \X (0..MaxLedger))]
    /\ \A d \in Docs : ledger[d].id \in 0..MaxLedger /\ ledger[d].facts \subseteq Facts \X (0..ledger[d].id)
    /\ lock \in {0} \cup Slots
    /\ pass.on \in BOOLEAN /\ pass.slot \in {0} \cup Slots
    /\ cursor \in 0..MaxDocs /\ nextv \in 1..MaxVersions + 1 /\ dirty \in BOOLEAN

\* Once no write runs and the sweep has seen every interrupted one, the chunk
\* rows search reads are exactly those of the published versions of active
\* documents: no interrupted commit leaves a document unsearchable or a
\* superseded text retrievable (commit_prepared, sweep_doc).
SearchIsExact ==
    lock = 0 /\ ~dirty =>
        \A v \in Versions : (chunk[v] = "live") <=> \E d \in Docs : row[d].cur = v /\ row[d].active

\* A document that owes no digest has a ledger made from its present text, or an
\* empty one when it is archived or labelled: an edit, an archive or a second
\* pass between extraction and publication is fenced by the generation and the
\* ledger head.  The graph has exactly the claims of that ledger, but for those a
\* publication stopped before its ledger touched and no later one set right
\* (digest_document, retract_digested).
GraphFollowsDocument ==
    \A d \in Docs : Published(d) /\ ~row[d].pending =>
        /\ (claims[d] \ ledger[d].facts) \cup (ledger[d].facts \ claims[d]) \subseteq torn[d]
        /\ IF Distillable(row[d])
           THEN ledger[d].id # 0 /\ ledger[d].sum = row[d].sum /\ ~ledger[d].retracted
           ELSE ledger[d].facts = {}

\* Imports of one bundle path converge on one document, whatever runs at the
\* same time (import_entry looks up and commits under one lock), as long as no
\* commit moves the document away: an import looks for the path, not for the
\* document that came from it.
OneDocPerConcept ==
    \A d, e \in Docs :
        /\ row[d].concept # NoPath /\ row[d].concept = row[e].concept
        /\ ~row[d].moved /\ ~row[e].moved
        => d = e

\* A document that owes a digest is digested although another one fails in every
\* pass (the cursor of pending_documents).
EveryGenerationIsDigested ==
    \A d \in Docs \ Broken : (Published(d) /\ row[d].pending) ~> ~row[d].pending
=============================================================================
