----------------------------- MODULE MCLiveness -----------------------------
(***************************************************************************)
(* What must eventually happen in a Space: a submitted conversation and an *)
(* accepted receipt settle, an armed watch is looked at and a document     *)
(* that owes a digest gets it.  As in MCServing a behaviour exercises the  *)
(* service focus names; the fairness of a service is that of its module.   *)
(***************************************************************************)
EXTENDS Naturals

CONSTANTS t1, t2, a1, a2, a, b

VARIABLES
  focus,
  \* SpaceScheduler
  status, rounds, processed, doneAt, slept, slot, maint, phase, captured, pc, cur,
  mark, attempt, scope, cut,
  \* MemoryInterface
  staged, receipt, bound, conv, suppressed, epoch, graph, repaired, open, gate, at,
  req, out, started, todo, worker, workload,
  \* Attention
  root, entry, index, config, watch, wake, atTask, tick, installed, seen,
  \* Wiki
  row, version, chunk, nextv, claims, ledger, torn, task, lock, pass, cursor, dirty

Queue == INSTANCE SpaceScheduler WITH
  Tasks <- {t1, t2}, MaxConv <- 2, MaxRounds <- 1, FullEvery <- 3, QuickEvery <- 2,
  DaydreamEvery <- 1, AskedScopes <- {"quick"}, Outcomes <- {"completed", "cancelled"},
  Faults <- {}

Request(o, k) == [op |-> o, key |-> k, source |-> "s1"]
ForgetRequests == {Request("observe", "k1"), Request("forget", "k2")}
RepairRequests == {Request("misrecorded", "k1"), Request("read", "k1")}

Memory == INSTANCE MemoryInterface WITH
  Callers <- {a1, a2}, Sources <- {"s1"}, Keys <- {"k1", "k2"},
  Workloads <- {ForgetRequests, RepairRequests}, PredOf <- [s \in {"s1"} |-> {}],
  MaxConv <- 1, MaxTries <- 1, Faults <- {"crash", "hold", "hook"}

\* One of the two Spaces cannot be opened, and a tick visits one slot.
Watching == INSTANCE Attention WITH
  task <- atTask,
  Spaces <- {a, b}, NumWatches <- 1, TextWatches <- {}, PageSize <- 1,
  SpacesPerTick <- 1, MaxSlots <- 2, MaxGen <- 2, RecheckKeys <- {}, MaxRechecks <- 1,
  Reviews <- {}, Broken <- {a}, Ops <- {"arm"}, Faults <- {}

\* The first document fails in every pass, and a pass may be cancelled.
Digest == INSTANCE Wiki WITH
  MaxDocs <- 2, MaxVersions <- 2, Slugs <- {"a"}, Sums <- {"x"}, Facts <- {"f"},
  Page <- 1, Slots <- {1, 2}, Broken <- {1}, Ops <- {"create", "digest"}, MaxLedger <- 2,
  MaxGen <- 3, Faults <- {"cancel"}

queueVars == <<status, rounds, processed, doneAt, slept, slot, maint, phase, captured, pc,
               cur, mark, attempt, scope, cut>>
memoryVars == <<staged, receipt, bound, conv, suppressed, epoch, graph, repaired, open, gate,
                at, req, out, started, todo, worker, workload>>
watchVars == <<root, entry, index, config, watch, wake, atTask, tick, installed, seen>>
wikiVars == <<row, version, chunk, nextv, claims, ledger, torn, task, lock, pass, cursor, dirty>>
vars == <<focus, queueVars, memoryVars, watchVars, wikiVars>>

Init ==
  /\ focus \in {"queue", "memory", "watch", "wiki"}
  /\ Queue!Init /\ Memory!Init /\ Watching!Init /\ Digest!Init
  /\ focus # "memory" => workload = ForgetRequests

Next ==
  /\ \/ focus = "queue" /\ Queue!Next /\ UNCHANGED <<memoryVars, watchVars, wikiVars>>
     \/ focus = "memory" /\ Memory!Next /\ UNCHANGED <<queueVars, watchVars, wikiVars>>
     \/ focus = "watch" /\ Watching!Next /\ UNCHANGED <<queueVars, memoryVars, wikiVars>>
     \/ focus = "wiki" /\ Digest!Next /\ UNCHANGED <<queueVars, memoryVars, watchVars>>
  /\ UNCHANGED focus

Spec == Init /\ [][Next]_vars

\* The fairness of the modules, for the service in focus: the others do not move.
QueueFairness ==
  \A t \in {t1, t2} :
    WF_queueVars(focus = "queue" /\ Queue!Step(t)) /\ WF_queueVars(focus = "queue" /\ Queue!OpenSpace(t))

MemoryFairness ==
  /\ \A c \in {a1, a2} :
       WF_memoryVars(focus = "memory" /\ (Memory!Intake(c) \/ Memory!Forget(c) \/ Memory!Settling(c)))
  /\ WF_memoryVars(focus = "memory" /\ Memory!Settling(Memory!Hook))
  /\ WF_memoryVars(/\ focus = "memory"
                   /\ \/ Memory!Admit \/ Memory!SettlePredecessor \/ Memory!BeginPass
                      \/ Memory!EndPass \/ Memory!ConversationEnd)
  /\ WF_memoryVars(focus = "memory" /\ Memory!Reopen)

WatchFairness ==
  /\ \A s \in {a, b} :
       /\ WF_watchVars(focus = "watch" /\ Watching!SpaceStep(s))
       /\ WF_watchVars(focus = "watch" /\ Watching!TimePasses(s))
  /\ SF_watchVars(focus = "watch" /\ Watching!TickStep)

WikiFairness ==
  /\ WF_wikiVars(focus = "wiki" /\ \E s \in {1, 2} : Digest!Acquire(s))
  /\ WF_wikiVars(/\ focus = "wiki"
                 /\ \E s \in {1, 2} : Digest!CommitStep(s) \/ Digest!OtherStep(s) \/ Digest!PublishStep(s))
  /\ WF_wikiVars(focus = "wiki" /\ Digest!RunPending)
  /\ WF_wikiVars(focus = "wiki" /\ Digest!DigestStep)

FairSpec == Spec /\ QueueFairness /\ MemoryFairness /\ WatchFairness /\ WikiFairness

-----------------------------------------------------------------------------

\* Every submitted conversation is eventually settled, however its arrival
\* interleaves with a loop that is leaving or a cycle that holds the flag,
\* unless maintenance is asked for again and again (find_next_submitted).
ConversationsSettle == Queue!EveryConversationSettles

\* A receipt whose conversation was started is eventually formed or failed,
\* across crashes that do not go on for ever (settle_receipt).
ReceiptsSettle == Memory!EveryReceiptSettles

\* The background work catches up: the ticks reach every armed watch although
\* another Space of the directory cannot be opened, and the digest passes
\* reach every document that owes a digest although another one fails in
\* every pass (the fair cursors of the directory and of pending_documents).
BackgroundWorkCatchesUp ==
  /\ Watching!EveryWatchIsScanned
  /\ Digest!EveryGenerationIsDigested

=============================================================================
