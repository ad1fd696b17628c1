----------------------------- MODULE MCEvidence -----------------------------
(***************************************************************************)
(* The services of a Space that keep evidence and change memory from it:   *)
(* settlement, the runtime API's bootstrap and statements, the store of    *)
(* observations, utility and trust attribution, the learning runtime and   *)
(* the native standing of its Skill, the Wiki and its chunker, and on the  *)
(* edge worker intake, forget and maintenance.                             *)
(*                                                                         *)
(* As in MCServing a behaviour exercises the service focus names and       *)
(* leaves the others where they started.                                   *)
(***************************************************************************)
EXTENDS MemoryServices

\* Values of the other services
CONSTANTS p1, s1, d1

VARIABLES
  focus,
  \* Utility
  published, utEvidence, rewritten, utVersion, txs, charged, utCatalog, slots,
  utTargets, units, results, utCall, utPass, utFaults,
  \* Trust
  trEvidence, trControl, counted, trCatalog, trTargets, jobs, trClaims, trCall, trFaults,
  \* Learning
  records, recorded, permit, standing, verdicts, evidence, prepared, slot, job,
  listed, enabled, call, active, sig, barriers, started, now, faults,
  \* Wiki
  row, version, chunk, nextv, claims, ledger, torn, task, lock, pass, cursor, dirty,
  \* Chunker
  doc, plan,
  \* LearningScheduler
  reserved, stage, archived, review, hot, slotOf, allocated, reviews, reviewCursor,
  driveCursor, sourceCursor, due, unresolved, cohort, signalled, revoked, dropped, safe,
  lsPass, lsFaults,
  \* NativeStanding
  nsClock, skill, evals, nsStarted, outcomes, nsEdits, nsJob, void, policy, nsRun, look, shown

\* Commitments that are edited while a settlement with nothing to scan raises them.
Promise == INSTANCE Settlement WITH
  ledger <- counts, now <- seNow,
  NumAssertions <- 0, Batch <- 1, RootsLimit <- 1, MaxSeq <- 0, NumCommitments <- 2,
  ReviewLimit <- 1, MaxTime <- 3, Faults <- {"crash", "read", "write"}

\* The first and the third outcome are about one target, all share one unit.
TargetOf(o) == IF o = 3 THEN 1 ELSE o
UnitOf(o) == 1

\* Archived outcomes and interrupted passes, then outcomes rewritten between passes.
Use == INSTANCE Utility WITH
  evidence <- utEvidence, version <- utVersion, catalog <- utCatalog,
  targets <- utTargets, call <- utCall, pass <- utPass, faults <- utFaults,
  NumOutcomes <- 3, MinSamples <- 1, MaxTargets <- 2, MaxSamples <- 1, Page <- 1,
  Faults <- {"archived", "interrupt"}, MaxFaults <- 2, MaxGen <- 1

Reuse == INSTANCE Utility WITH
  evidence <- utEvidence, version <- utVersion, catalog <- utCatalog,
  targets <- utTargets, call <- utCall, pass <- utPass, faults <- utFaults,
  NumOutcomes <- 3, MinSamples <- 1, MaxTargets <- 2, MaxSamples <- 1, Page <- 1,
  Faults <- {"conflict", "interrupt", "host", "rewritten"}, MaxFaults <- 2, MaxGen <- 1

\* Two verifications of one actor replicate one root.
OneActor(o) == 1
OneRoot(o) == 1

Believe == INSTANCE Trust WITH
  evidence <- trEvidence, control <- trControl, catalog <- trCatalog,
  targets <- trTargets, claims <- trClaims, call <- trCall, faults <- trFaults,
  ActorOf <- OneActor, RootOf <- OneRoot,
  NumSources <- 2, MinSamples <- 1, Automatic <- TRUE, MaxVersion <- 4,
  MaxEpoch <- 1, MaxJobs <- 2, MaxFaults <- 1

\* Two roots of one actor, and a replica of the first that is about another actor.
ActorOf(o) == IF o = 3 THEN 2 ELSE 1
RootOf(o) == IF o = 3 THEN 1 ELSE o

Contend == INSTANCE Trust WITH
  evidence <- trEvidence, control <- trControl, catalog <- trCatalog,
  targets <- trTargets, claims <- trClaims, call <- trCall, faults <- trFaults,
  NumSources <- 3, MinSamples <- 1, Automatic <- TRUE, MaxVersion <- 4,
  MaxEpoch <- 1, MaxJobs <- 2, MaxFaults <- 0

Learn == INSTANCE Learning WITH
  Pairs <- {p1}, Signals <- {s1}, Observations <- {d1}, MaxGen <- 2,
  Faults <- {"crash", "fail", "foreign", "disable"}, MaxFaults <- 1

\* Two imported documents that commits move to other paths.
Pages == INSTANCE Wiki WITH
  MaxDocs <- 2, MaxVersions <- 3, Slugs <- {"a", "b"}, Sums <- {"x"}, Facts <- {},
  Page <- 1, Slots <- {1, 2}, Broken <- {}, Ops <- {"import", "commit", "rename", "sweep"},
  MaxLedger <- 0, MaxGen <- 2, Faults <- {"write", "crash"}

\* One document of two facts whose text and status change while it is digested, and one of a
\* single fact whose label changes too and that is restored.
Digest == INSTANCE Wiki WITH
  MaxDocs <- 1, MaxVersions <- 2, Slugs <- {"a"}, Sums <- {"x", "y"}, Facts <- {"f", "g"},
  Page <- 1, Slots <- {1, 2}, Broken <- {}, Ops <- {"create", "archive", "commit", "digest"},
  MaxLedger <- 2, MaxGen <- 2, Faults <- {"crash"}

Relabel == INSTANCE Wiki WITH
  MaxDocs <- 1, MaxVersions <- 2, Slugs <- {"a"}, Sums <- {"x", "y"}, Facts <- {"f"},
  Page <- 1, Slots <- {1, 2}, Broken <- {},
  Ops <- {"create", "label", "archive", "commit", "restore", "digest"},
  MaxLedger <- 2, MaxGen <- 2, Faults <- {"crash"}

Line(kind, level, title, chars, width) ==
  [kind |-> kind, level |-> level, title |-> title, chars |-> chars, width |-> width]

\* Lines shorter than the bounds and one longer, of wide characters; fences of two kinds and
\* of two lengths, and headings that repeat, nest and skip a level.
DocLines ==
  {Line("blank", 0, "", 0, 1), Line("text", 0, "", 2, 1), Line("text", 0, "", 6, 3),
   Line("table", 0, "", 4, 1), Line("backtick", 3, "", 3, 1), Line("backtick", 4, "", 4, 1),
   Line("tilde", 3, "", 3, 1), Line("heading", 1, "a", 3, 1), Line("heading", 1, "b", 3, 1),
   Line("heading", 2, "a", 4, 1), Line("heading", 3, "a", 5, 1)}

Chunks == INSTANCE Chunker WITH
  Lines <- DocLines, MaxLines <- 4, TargetMin <- 6, TargetMax <- 9, HardMax <- 11,
  AtomicMax <- 16, MaxChunks <- 3

\* A source, its review and two cohorts; then one cohort and a safety signal.
Schedule == INSTANCE LearningScheduler WITH
  pass <- lsPass, faults <- lsFaults,
  NumEvents <- 1, NumCohorts <- 2, MaxHot <- 2, PageSize <- 1, MaxSignals <- 0, MaxFaults <- 1

Alarm == INSTANCE LearningScheduler WITH
  pass <- lsPass, faults <- lsFaults,
  NumEvents <- 1, NumCohorts <- 1, MaxHot <- 2, PageSize <- 1, MaxSignals <- 1, MaxFaults <- 2

FrozenCutoff == [j \in {1, 2} |-> j + 1]

\* Two trials of one Skill after each other: re-entries and reviews.
Stand == INSTANCE NativeStanding WITH
  clock <- nsClock, started <- nsStarted, edits <- nsEdits, job <- nsJob, run <- nsRun,
  Jobs <- {1, 2}, Pairs <- {p1}, Cutoff <- FrozenCutoff, MinEffect <- 1, MaxFailures <- 0,
  MaxClock <- 3, MaxRevision <- 1, MaxGen <- 1, MaxEdits <- 0,
  Values <- {"success", "failure"}, Faults <- {}

\* One trial whose evidence, policy and revision change under its verdict.
Disturbed == INSTANCE NativeStanding WITH
  clock <- nsClock, started <- nsStarted, edits <- nsEdits, job <- nsJob, run <- nsRun,
  Jobs <- {1}, Pairs <- {p1}, Cutoff <- FrozenCutoff, MinEffect <- 1, MaxFailures <- 0,
  MaxClock <- 2, MaxRevision <- 2, MaxGen <- 1, MaxEdits <- 1,
  Values <- {"success", "failure"}, Faults <- {"outcome", "policy", "reader", "lost"}

\* One trial that a safety signal overtakes.
Unsafe == INSTANCE NativeStanding WITH
  clock <- nsClock, started <- nsStarted, edits <- nsEdits, job <- nsJob, run <- nsRun,
  Jobs <- {1}, Pairs <- {p1}, Cutoff <- FrozenCutoff, MinEffect <- 1, MaxFailures <- 0,
  MaxClock <- 2, MaxRevision <- 2, MaxGen <- 1, MaxEdits <- 0,
  Values <- {"success", "failure"}, Faults <- {"safety", "lost"}

utilityVars == <<published, utEvidence, rewritten, utVersion, txs, charged, utCatalog,
                 slots, utTargets, units, results, utCall, utPass, utFaults>>
trustVars == <<trEvidence, trControl, counted, trCatalog, trTargets, jobs, trClaims, trCall,
               trFaults>>
learnVars == <<records, recorded, permit, standing, verdicts, evidence, prepared, slot, job,
               listed, enabled, call, active, sig, barriers, started, now, faults>>
wikiVars == <<row, version, chunk, nextv, claims, ledger, torn, task, lock, pass, cursor, dirty>>
chunkVars == <<doc, plan>>
scheduleVars == <<reserved, stage, archived, review, hot, slotOf, allocated, reviews,
                  reviewCursor, driveCursor, sourceCursor, due, unresolved, cohort, signalled,
                  revoked, dropped, safe, lsPass, lsFaults>>
standVars == <<nsClock, skill, evals, nsStarted, outcomes, nsEdits, nsJob, void, policy, nsRun,
               look, shown>>
vars == <<focus, settleVars, apiVars, observeVars, utilityVars, trustVars, learnVars,
          wikiVars, chunkVars, scheduleVars, standVars, edgeVars, reviewVars>>

Services == {"settlement", "promises", "api", "observations", "utility", "rewritten", "trust",
             "contend", "learning", "schedule", "alarm", "standing", "disturbed", "unsafe",
             "wiki", "digest", "relabel", "chunks", "edge", "review"}

Init ==
  /\ focus \in Services
  /\ IF focus = "promises" THEN Promise!Init ELSE Settle!Init
  /\ Api!Init /\ Observe!Init /\ Use!Init /\ Learn!Init
  /\ IF focus = "contend" THEN Contend!Init ELSE Believe!Init
  /\ IF focus \in {"disturbed", "unsafe"} THEN Disturbed!Init ELSE Stand!Init
  /\ IF focus \in {"digest", "relabel"} THEN Digest!Init ELSE Pages!Init
  /\ IF focus = "alarm" THEN Alarm!Init ELSE Schedule!Init
  /\ Edge!Init /\ Review!Init
  /\ IF focus = "chunks" THEN Chunks!Init ELSE doc = <<>> /\ plan = <<>>
  /\ focus # "api" => granted = {}
  /\ focus # "observations" => lane = "action"

MemoryVars == <<settleVars, apiVars, observeVars>>
EvidenceVars == <<utilityVars, trustVars>>
LearningVars == <<learnVars, scheduleVars, standVars>>
WikiVars == <<wikiVars, chunkVars>>
EdgeVars == <<edgeVars, reviewVars>>

Next ==
  /\ \/ /\ \/ focus = "settlement" /\ Settle!Next /\ UNCHANGED <<apiVars, observeVars>>
           \/ focus = "promises" /\ Promise!Next /\ UNCHANGED <<apiVars, observeVars>>
           \/ focus = "api" /\ Api!Next /\ UNCHANGED <<settleVars, observeVars>>
           \/ focus = "observations" /\ Observe!Next /\ UNCHANGED <<settleVars, apiVars>>
        /\ UNCHANGED <<EvidenceVars, LearningVars, WikiVars, EdgeVars>>
     \/ /\ \/ focus = "utility" /\ Use!Next /\ UNCHANGED trustVars
           \/ focus = "rewritten" /\ Reuse!Next /\ UNCHANGED trustVars
           \/ focus = "trust" /\ Believe!Next /\ UNCHANGED utilityVars
           \/ focus = "contend" /\ Contend!Next /\ UNCHANGED utilityVars
        /\ UNCHANGED <<MemoryVars, LearningVars, WikiVars, EdgeVars>>
     \/ /\ \/ focus = "learning" /\ Learn!Next /\ UNCHANGED <<scheduleVars, standVars>>
           \/ focus = "schedule" /\ Schedule!Next /\ UNCHANGED <<learnVars, standVars>>
           \/ focus = "alarm" /\ Alarm!Next /\ UNCHANGED <<learnVars, standVars>>
           \/ focus = "standing" /\ Stand!Next /\ UNCHANGED <<learnVars, scheduleVars>>
           \/ focus = "disturbed" /\ Disturbed!Next /\ UNCHANGED <<learnVars, scheduleVars>>
           \/ focus = "unsafe" /\ Unsafe!Next /\ UNCHANGED <<learnVars, scheduleVars>>
        /\ UNCHANGED <<MemoryVars, EvidenceVars, WikiVars, EdgeVars>>
     \/ /\ \/ focus = "wiki" /\ Pages!Next /\ UNCHANGED chunkVars
           \/ focus = "digest" /\ Digest!Next /\ UNCHANGED chunkVars
           \/ focus = "relabel" /\ Relabel!Next /\ UNCHANGED chunkVars
           \/ focus = "chunks" /\ Chunks!Next /\ UNCHANGED wikiVars
        /\ UNCHANGED <<MemoryVars, EvidenceVars, LearningVars, EdgeVars>>
     \/ /\ \/ focus = "edge" /\ Edge!Next /\ UNCHANGED reviewVars
           \/ focus = "review" /\ Review!Next /\ UNCHANGED edgeVars
        /\ UNCHANGED <<MemoryVars, EvidenceVars, LearningVars, WikiVars>>
  /\ UNCHANGED focus

Spec == Init /\ [][Next]_vars

-----------------------------------------------------------------------------

\* No correction is lost: the settlement's cursor never passes a superseded
\* claim that the usage ledger did not count, which it does once, and hands to a
\* review only what was counted (not all of it: the first of a page); the edge
\* maintenance's cursor never passes one that was not handed to a review;
\* through pages, erasures, crashes and failed reads.
CorrectionsAreSettled ==
  /\ focus = "settlement" => /\ Settle!TypeOK /\ Settle!CorrectionsAreCovered /\ Settle!CountedOnce
                             /\ Settle!HandedAreCounted
  /\ focus = "review" => Review!TypeOK /\ Review!CorrectionsAreReviewed

\* A retried call states its fact once and a bootstrap grants once; an
\* observation that was answered is in the published log, unless it is an audit
\* row of the learning lane, and nothing appears behind a reader that has
\* walked past.
PublishedOnce ==
  /\ focus = "api" => Api!TypeOK /\ Api!GrantedByBootstrapOnce /\ Api!StatedOnce
  /\ focus = "observations" => Observe!TypeOK /\ Observe!NothingAppearsBehind /\ Observe!AnsweredIsPublished

\* Evidence counts once: no unit is charged to two intents or twice, what a
\* pass consumed is charged or withdrawn, slots are whole; a trust root
\* counts in one applied proposal, although replicas share it and are recorded
\* again, and an applied one is never taken back; a Commitment is raised no
\* earlier than it was due.
EvidenceCountsOnce ==
  /\ focus = "promises" => Promise!TypeOK /\ Promise!RaisedWereDue
  /\ focus = "utility" => Use!TypeOK /\ Use!ChargedOnce /\ Use!ConsumedIsCharged /\ Use!SlotsAreWhole
  /\ focus = "rewritten" =>
       Reuse!TypeOK /\ Reuse!ChargedOnce /\ Reuse!ConsumedIsCharged /\ Reuse!SlotsAreWhole
  /\ focus = "trust" => Believe!TypeOK /\ Believe!RootCountsOnce /\ Believe!AppliedIsNeverAbandoned
  /\ focus = "contend" => Contend!TypeOK /\ Contend!RootCountsOnce /\ Contend!AppliedIsNeverAbandoned

\* A trial attempt is sent to its executor once, never after a safety signal
\* was taken in, no verdict follows the signal, and a pending signal is
\* listed for recovery; the automatic pass loses no review (unless a signal is
\* sent again that was cut between its verdict and the index), skips no event
\* and gives a job one slot, wherever it is interrupted.  A Skill's standing
\* moves by verdicts on the version they were prepared on, an adoption rests
\* on a complete cohort read as one snapshot, and no cohort is abandoned.
LearningIsFenced ==
  /\ [](focus = "learning" => Learn!TypeOK /\ Learn!DispatchedOnce /\ Learn!PendingSafetyIsListed)
  /\ [](focus = "schedule" => Schedule!SchedulerKeepsObligations)
  /\ [](focus = "alarm" => Alarm!SchedulerKeepsObligations)
  /\ [](focus = "standing" =>
          Stand!TypeOK /\ Stand!VerdictsFollow /\ Stand!AdoptionIsProven /\ Stand!CohortsAreClosed)
  /\ [](focus = "disturbed" =>
          /\ Disturbed!TypeOK /\ Disturbed!VerdictsFollow /\ Disturbed!AdoptionIsProven
          /\ Disturbed!ShownIsCurrent)
  /\ [](focus = "unsafe" => Unsafe!TypeOK /\ Unsafe!VerdictsFollow /\ Unsafe!AdoptionIsProven)
  /\ Learn!DispatchRespectsSafety
  /\ Learn!NoVerdictAfterSignal

\* Search shows exactly the active version of each document; a digested
\* document has the ledger of its present text, and the graph the claims of that
\* ledger but for those an interrupted publication touched; a concept has one
\* document until a commit moves it; under concurrent imports, commits, sweeps
\* and crashes.  The chunks of a text tile it, stay bounded and honest about
\* their headings.
WikiIsExact ==
  /\ focus = "chunks" => Chunks!ChunksAreExact
  /\ focus = "wiki" =>
       Pages!TypeOK /\ Pages!SearchIsExact /\ Pages!OneDocPerConcept
  /\ focus = "digest" => Digest!TypeOK /\ Digest!SearchIsExact /\ Digest!GraphFollowsDocument
  /\ focus = "relabel" => Relabel!TypeOK /\ Relabel!SearchIsExact /\ Relabel!GraphFollowsDocument

\* On the edge, a forget that answers completed leaves nothing of its source
\* but what a failed pass captured without a trace, and a pass admitted in
\* another epoch never forms memory over an excluded source.
EdgeForgets ==
  /\ [](focus = "edge" => Edge!TypeOK /\ Edge!CompletedIsErased)
  /\ Edge!ExcludedNeverForms

=============================================================================
