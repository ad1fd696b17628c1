----------------------------- MODULE MCServing -----------------------------
(***************************************************************************)
(* The services of a Space that watch and read memory, and the host that   *)
(* serves them: the watch directory and its passes, semantic and record    *)
(* watches, the attention inbox and the attention recall, the Recall pass, *)
(* its briefing and the miss cache, the cache of open Spaces and its       *)
(* authorization.                                                          *)
(*                                                                         *)
(* They share no state in the code but the stores, so nothing is gained by *)
(* interleaving them: a behaviour of this module exercises the service     *)
(* focus names and leaves the others where they started, and TLC explores  *)
(* the sum of the services' state spaces, not their product.               *)
(***************************************************************************)
EXTENDS Naturals, FiniteSets

CONSTANTS q1, p1, p2, None

\* Attention: the Spaces of the directory and the sizes of its passes, then what
\* the run over pages and the run over changes ask of it.
CONSTANTS Homes, TextWatches, PageSize, SpacesPerTick, MaxGen, MaxRechecks,
          PagedWatches, PagedSlots, PagedOps, PagedFaults,
          ChangedWatches, ChangedSlots, ChangedOps, ChangedFaults,
          RecheckKeys, Reviews, Broken

\* SemanticWatch: what one pass and one page may do, and its bounds.
CONSTANTS NumWatches, WatchesPerPass, AttemptsPerPage, MaxVersion, MaxEpoch, PassFaults

\* RecordWatch
CONSTANTS Operations, Digests, MaxRecordVersion

\* SpaceHost
CONSTANTS Loaders, Quiet, AutoCreate, TaskSlots, MaxEntries, HostFaults

\* Access
CONSTANTS Tokens, Names, Requests, MaxTokens, MaxTime

\* A watch has a version when it is created; a page may ask the model not at all.
ASSUME WatchAssumption ==
  /\ NumWatches \in Nat /\ WatchesPerPass \in Nat /\ AttemptsPerPage \in Nat
  /\ MaxVersion \in Nat \ {0} /\ MaxEpoch \in Nat
  /\ MaxRecordVersion \in Nat /\ MaxRecordVersion >= 3

\* References and tokens are counted, so there are finitely many of them.
ASSUME HostAssumption == IsFiniteSet(Loaders) /\ TaskSlots \in Nat /\ MaxEntries \in Nat

\* No token reads like the other things a caller may present.
ASSUME GateAssumption ==
  /\ IsFiniteSet(Tokens) /\ MaxTokens \in Nat /\ MaxTime \in Nat
  /\ {None, "nothing", "signed", "broken"} \cap Tokens = {}

VARIABLES
  focus,
  \* Attention
  root, entry, index, config, watch, wake, task, tick, installed, seen,
  \* SemanticWatch
  semCursor, semJob, semWatch, committed, pass, semCalls,
  \* RecordWatch
  row, recWatch, marker, grant, granted, armings, recJob,
  \* AttentionRecall
  log, erased, arCursor, page, delivered, complete,
  \* RuntimeInbox
  exists, visible, steps, cursor, call, walk,
  \* MissCache
  now, knownSince, rows, nextRow, writer, probe,
  \* RecallPass
  epoch, pending, clock, pc, mode, mine, limit, mat, turns, calls, spent,
  selected, failed, packet, receipt, out, read,
  \* Briefing
  hist, purged, brReceipt, brPc, ask, after, snap, reads, cache, summary,
  chan, plan, cand, found, hits, brief, expanded,
  \* SpaceHost
  stored, mapped, made, cell, closing, fresh, space, load, loop, down,
  \* Access
  store, minted, lock, draft, wanted, public, acNow, req

\* Watches over several pages, with crashes and late native passes.
Pages == INSTANCE Attention WITH
  Spaces <- Homes, NumWatches <- PagedWatches, MaxSlots <- PagedSlots,
  RecheckKeys <- {}, Reviews <- {}, Broken <- {}, Ops <- PagedOps, Faults <- PagedFaults

\* Rechecks and reconfigurations, Spaces that do not load, a native store that fails.
Changes == INSTANCE Attention WITH
  Spaces <- Homes, NumWatches <- ChangedWatches, MaxSlots <- ChangedSlots,
  Ops <- ChangedOps, Faults <- ChangedFaults

ASSUME DirectoryAssumption == Pages!Sized /\ Changes!Sized

Semantic == INSTANCE SemanticWatch WITH
  cursor <- semCursor, job <- semJob, watch <- semWatch, calls <- semCalls,
  Faults <- PassFaults

Record == INSTANCE RecordWatch WITH
  watch <- recWatch, job <- recJob, MaxVersion <- MaxRecordVersion

Changelog == INSTANCE AttentionRecall WITH
  cursor <- arCursor,
  Refs <- {1, 2}, Window <- 2, MaxTargets <- 1, MaxPage <- 2, MaxSeq <- 3, MaxActivities <- 3

Inbox == INSTANCE RuntimeInbox WITH
  NumWakes <- 4, NativePage <- 2, MaxLimit <- 2, MaxSteps <- 2

Misses == INSTANCE MissCache WITH
  Queries <- {q1}, Probes <- {p1, p2}, TTL <- 1, MaxRows <- 1,
  MaxTime <- 3, MaxRow <- 2

Recall == INSTANCE RecallPass WITH
  Modes <- {"plain", "budgeted"}, OutLimits <- {1, 5}, ContextLimit <- 8,
  MaxItems <- 5, MaxRows <- 1, MaxTurns <- 2, MaxCalls <- 1, Skills <- {"s"},
  SkillLimit <- 1, MaxClock <- 1, MaxEpoch <- 1

BriefAsk(seq, room, m, query, wait) ==
  [as_of |-> seq, room |-> room, mode |-> m, query |-> query, wait |-> wait]

\* Briefings of commitments, of which a page holds one, and of a claim.
Duties == INSTANCE Briefing WITH
  receipt <- brReceipt, pc <- brPc,
  Elements <- {"a", "b", "c"}, Held <- {"a", "c"},
  Kind <- [e \in {"a", "b", "c"} |-> IF e = "c" THEN "claim" ELSE "commitment"],
  Searches <- {}, Failing <- {"rows"}, ChannelLimit <- 1, SearchLimit <- 1,
  Asks <- {BriefAsk(0, 3, "action", TRUE, TRUE), BriefAsk(2, 1, "attention", FALSE, TRUE)},
  MaxItems <- 6, MaxSeq <- 3, MaxVersion <- 2, MaxReads <- 2

\* Briefings of a constraint and of a failure, which is searched for.
Search == INSTANCE Briefing WITH
  receipt <- brReceipt, pc <- brPc,
  Elements <- {"a", "b"}, Held <- {"a"},
  Kind <- [e \in {"a", "b"} |-> IF e = "a" THEN "failure" ELSE "constraint"],
  Searches <- {"failures"}, Failing <- {"failures", "constraints", "rows"},
  ChannelLimit <- 1, SearchLimit <- 1,
  Asks <- {BriefAsk(0, 3, "answer", TRUE, TRUE), BriefAsk(1, 1, "answer", FALSE, FALSE)},
  MaxItems <- 6, MaxSeq <- 3, MaxVersion <- 2, MaxReads <- 1

Host == INSTANCE SpaceHost WITH
  Slots <- TaskSlots, Auto <- AutoCreate, Faults <- HostFaults

Gate == INSTANCE Access WITH now <- acNow

attentionVars == <<root, entry, index, config, watch, wake, task, tick, installed, seen>>
semanticVars == <<semCursor, semJob, semWatch, committed, pass, semCalls>>
recordVars == <<row, recWatch, marker, grant, granted, armings, recJob>>
changelogVars == <<log, erased, arCursor, page, delivered, complete>>
inboxVars == <<exists, visible, steps, cursor, call, walk>>
missVars == <<now, knownSince, rows, nextRow, writer, probe>>
recallVars == <<epoch, pending, clock, pc, mode, mine, limit, mat, turns, calls, spent,
                selected, failed, packet, receipt, out, read>>
briefVars == <<hist, purged, brReceipt, brPc, ask, after, snap, reads, cache, summary,
               chan, plan, cand, found, hits, brief, expanded>>
hostVars == <<stored, mapped, made, cell, closing, fresh, space, load, loop, down>>
gateVars == <<store, minted, lock, draft, wanted, public, acNow, req>>
vars == <<focus, attentionVars, semanticVars, recordVars, changelogVars, inboxVars,
          missVars, recallVars, briefVars, hostVars, gateVars>>

Services == {"pages", "changes", "semantic", "record", "changelog", "inbox",
             "misses", "recall", "duties", "search", "host", "gate"}

\* Where a service may start in several ways, one that is not in focus starts
\* in a fixed one.
Init ==
  /\ focus \in Services
  /\ IF focus = "changes" THEN Changes!Init ELSE Pages!Init
  /\ IF focus = "duties" THEN Duties!Init ELSE Search!Init
  /\ Semantic!Init /\ Record!Init /\ Changelog!Init /\ Inbox!Init
  /\ Misses!Init /\ Recall!Init /\ Host!Init /\ Gate!Init
  /\ focus # "inbox" => visible = {} /\ exists = {}
  /\ focus # "recall" => mode = "plain" /\ limit = 1
  /\ focus # "host" => stored
  /\ focus # "gate" => public

Next ==
  /\ \/ /\ \/ focus = "pages" /\ Pages!Next
           \/ focus = "changes" /\ Changes!Next
        /\ UNCHANGED <<semanticVars, recordVars, changelogVars, inboxVars,
                       missVars, recallVars, briefVars, hostVars, gateVars>>
     \/ /\ \/ focus = "semantic" /\ Semantic!Next /\ UNCHANGED <<recordVars, changelogVars, inboxVars>>
           \/ focus = "record" /\ Record!Next /\ UNCHANGED <<semanticVars, changelogVars, inboxVars>>
           \/ focus = "changelog" /\ Changelog!Next /\ UNCHANGED <<semanticVars, recordVars, inboxVars>>
           \/ focus = "inbox" /\ Inbox!Next /\ UNCHANGED <<semanticVars, recordVars, changelogVars>>
        /\ UNCHANGED <<attentionVars, missVars, recallVars, briefVars, hostVars, gateVars>>
     \/ /\ \/ focus = "misses" /\ Misses!Next /\ UNCHANGED <<recallVars, briefVars, hostVars, gateVars>>
           \/ focus = "recall" /\ Recall!Next /\ UNCHANGED <<missVars, briefVars, hostVars, gateVars>>
           \/ focus = "duties" /\ Duties!Next /\ UNCHANGED <<missVars, recallVars, hostVars, gateVars>>
           \/ focus = "search" /\ Search!Next /\ UNCHANGED <<missVars, recallVars, hostVars, gateVars>>
           \/ focus = "host" /\ Host!Next /\ UNCHANGED <<missVars, recallVars, briefVars, gateVars>>
           \/ focus = "gate" /\ Gate!Next /\ UNCHANGED <<missVars, recallVars, briefVars, hostVars>>
        /\ UNCHANGED <<attentionVars, semanticVars, recordVars, changelogVars, inboxVars>>
  /\ UNCHANGED focus

Spec == Init /\ [][Next]_vars

-----------------------------------------------------------------------------

\* The directory never loses a watch: an armed one is listed by the slot that
\* the scheduler visits or by the operation that is still listing it, and a
\* reconciled generation has scanned every watch that was armed before it,
\* over pages, crashes and late native answers (directory.rs, passes.rs).
WatchesAreScanned ==
  /\ focus = "pages" => Pages!TypeOK /\ Pages!ArmedIsListed /\ Pages!ReconciledIsScanned
  /\ focus = "changes" => Changes!TypeOK /\ Changes!ArmedIsListed /\ Changes!ReconciledIsScanned

\* A page of a semantic watch asks the model at most as often as it may, and
\* an evaluation that was paid for is kept until its outcome is committed; a
\* recorded watch is granted and armed once per operation, through lost
\* answers and crashes.
WatchesSpendOnce ==
  /\ focus = "semantic" => Semantic!TypeOK /\ Semantic!SpendIsBounded /\ Semantic!StoredIsPending
  /\ focus = "record" => Record!TypeOK /\ Record!GrantedAndArmedOnce

\* A reader that follows the cursors of the attention recall or of the inbox
\* sees every entry that was there all along, once, whatever is added or
\* erased between two pages.
WalksAreExact ==
  /\ focus = "changelog" => Changelog!TypeOK /\ Changelog!WalkIsExact
  /\ focus = "inbox" => Inbox!TypeOK /\ Inbox!WalkIsComplete

\* What Recall delivers is whole and current: everything that did not fit is
\* named as an omission, a gated read and the delivery both belong to the
\* epoch the pass was admitted in, and permits hold when they are counted.
RecallIsWhole ==
  /\ [](focus = "recall" => Recall!TypeOK /\ Recall!PacketIsWhole)
  /\ Recall!PermitsAreCurrent
  /\ Recall!DeliveredIsCurrent

\* A briefing is one snapshot: what it cites was read at one sequence, it
\* calls itself complete only when nothing was left out, an expansion reads
\* the elements as delivered; and a cached miss is dropped once the graph
\* could answer.
BriefingIsOneSnapshot ==
  /\ focus = "duties" => /\ Duties!TypeOK /\ Duties!OneSnapshot
                         /\ Duties!CompleteIsEarned /\ Duties!ExpansionIsExact
  /\ focus = "search" => /\ Search!TypeOK /\ Search!OneSnapshot
                         /\ Search!CompleteIsEarned /\ Search!ExpansionIsExact
  /\ focus = "misses" => Misses!TypeOK /\ Misses!StaleMissHeals

\* One instance of a Space owns its database and no request loses the Space it
\* serves from to the eviction; and nobody is admitted to it, or shown more of
\* it, by a token that was revoked or had expired when the request began.
ServedByItsOwner ==
  /\ focus = "host" => Host!TypeOK /\ Host!OneOwner /\ Host!ServedIsOpen
  /\ focus = "gate" => Gate!TypeOK /\ Gate!NamesAreUnique /\ Gate!AdmittedByLiveCredential

=============================================================================
