------------------------ MODULE MemoryInterfaceProofs ------------------------
(***************************************************************************)
(* Proofs about MemoryInterface, for any callers, sources, keys, workloads *)
(* and orders of sources, and any combination of faults: a key starts one  *)
(* conversation, a settled receipt keeps its answer, a misrecording is     *)
(* available only with its repair, a completed forget leaves nothing of    *)
(* its plan, and, if no source is ordered after a forget, a successor of a *)
(* failed receipt leaves nothing in memory.                                *)
(***************************************************************************)
EXTENDS MemoryInterface, FiniteSetTheorems, WellFoundedInduction, TLAPS

Forgets == {"forget", "payload"}
Forming == {"observe", "misrecorded"}
Over == {"completed", "cancelled"}
InFlight == {"key", "start", "save"}            \* an intake that holds the gate
Erasing == {"scan", "erase", "surfaces", "report"}
Settles == {"repair", "invalidate", "record"}   \* a reader that found the pass over

\* The bounds of an instance are no part of the argument.
ReceiptRecords ==
    [held : BOOLEAN, op : Ops, source : Sources, conv : 0..MaxConv, terminal : Terminals,
     plan : SUBSET Convs]
ConvRecords == [status : Statuses, key : Keys \cup {NoKey}, source : Sources, tries : Nat]
Requests == [op : Ops, key : Keys \cup {NoKey}, source : Sources]

JournalTypes == receipt \in [Keys -> ReceiptRecords] /\ bound \in [Keys -> SUBSET Sources]
QueueTypes ==
    /\ conv \in [Convs -> ConvRecords]
    /\ graph \in [Convs -> Live \cup {"nothing", "purged"}]
WorkerTypes ==
    /\ worker \in [conv : 0..MaxConv, epoch : Nat, stage : {"idle", "check", "running", "ended"}]
    /\ worker.stage # "idle" => worker.conv \in Convs
    /\ epoch \in Nat
ActorTypes ==
    /\ at \in [Actors -> Ats]
    /\ req \in [Actors -> Requests]
    /\ out \in [Actors -> Outs]
    /\ started \in [Actors -> 0..MaxConv]
    /\ todo \in [Actors -> SUBSET Convs]
    /\ workload \in Workloads /\ workload \subseteq [op : Ops, key : Keys, source : Sources]
    /\ \A a \in Actors : at[a] # "idle" => Key(a) \in Keys
    /\ \A a \in Actors : Op(a) # "read" => req[a] \in workload
Types == JournalTypes /\ QueueTypes /\ WorkerTypes /\ ActorTypes

\* The intake gate has one holder.
GateOf(a) == at[a] \in InFlight => a \in Callers /\ gate = {a}

\* An intake in flight owns its receipt, which is as it was created; its predecessors
\* were there before it.  Until it starts Formation no conversation has its key.
Fresh(r, q) == r.held /\ r.op = q.op /\ r.source = q.source /\ r.conv = 0 /\ r.terminal = "none"
IntakeOf(a) ==
    /\ at[a] \in {"idle", "resolve", "gate", "unresolved", "key", "start"} => started[a] = 0
    /\ at[a] \in InFlight =>
         /\ Op(a) \notin Forgets
         /\ Fresh(receipt[Key(a)], req[a])
         /\ \A p \in PredOf[Source(a)] : p # Key(a) /\ receipt[p].held
    /\ at[a] \in {"key", "start"} =>
         \A c \in Convs : conv[c].status # "none" => conv[c].key # Key(a)
    /\ at[a] = "save" =>
         /\ out[a] \in {"queued", "failed", "available"}
         /\ out[a] = "available" => Op(a) \in {"feedback", "report"}
         /\ started[a] # 0 =>
              /\ Op(a) \in Forming /\ conv[started[a]].status # "none"
              /\ \A p \in PredOf[Source(a)] : receipt[p].conv < started[a]

\* A forget under way owns its receipt.  What it may report completed is what its
\* plan names, over and erased or still to do.
ForgetOf(a) ==
    at[a] \in Erasing =>
        /\ Op(a) \in Forgets
        /\ receipt[Key(a)].held /\ receipt[Key(a)].op = Op(a) /\ receipt[Key(a)].terminal = "none"
        /\ at[a] = "scan" \/ out[a] \in {"completed", "partial", "blocked", "failed"}
        /\ at[a] = "erase" => \A c \in todo[a] : graph[c] # "nothing"
        /\ at[a] # "scan" /\ out[a] = "completed" /\ Op(a) = "forget" =>
             \A c \in receipt[Key(a)].plan :
                 conv[c].status = "completed" /\ (graph[c] \in Live => at[a] = "erase" /\ c \in todo[a])

\* Who settles a receipt found its conversation over, and records an available
\* misrecording after its repair.
SettleOf(a) ==
    /\ at[a] \in Settles => receipt[Key(a)].conv # 0
    /\ at[a] \in {"repair", "invalidate"} => receipt[Key(a)].op = "misrecorded"
    /\ at[a] = "record" =>
         /\ out[a] \in {"available", "failed"}
         /\ out[a] = "available" /\ receipt[Key(a)].op = "misrecorded" => Key(a) \in repaired

ActorOf(a) == GateOf(a) /\ IntakeOf(a) /\ ForgetOf(a) /\ SettleOf(a)
ActorInv ==
    /\ \A a \in Actors : ActorOf(a)
    /\ \A a, b \in Actors : at[a] \in Erasing /\ at[b] \in Erasing /\ Key(a) = Key(b) => a = b

\* What a receipt says.
ReceiptOf(k) ==
    /\ ~receipt[k].held => receipt[k].conv = 0 /\ receipt[k].terminal = "none"
    /\ receipt[k].conv # 0 => receipt[k].op \in Forming /\ conv[receipt[k].conv].status # "none"
    /\ receipt[k].terminal = "erased" => receipt[k].op \in Forgets
    /\ receipt[k].op = "misrecorded" /\ receipt[k].terminal = "available" => k \in repaired
    /\ k \in repaired => receipt[k].held /\ receipt[k].op = "misrecorded"
    /\ receipt[k].op = "forget" /\ receipt[k].terminal = "erased" =>
         \A c \in receipt[k].plan : conv[c].status = "completed" /\ graph[c] \notin Live
ReceiptInv == \A k \in Keys : ReceiptOf(k)

\* Conversations are numbered without gaps, have the key of a receipt each, and
\* follow those of their predecessors, which are no longer in flight.
ConvInv ==
    /\ \E n \in 0..MaxConv : \A c \in Convs : conv[c].status # "none" <=> c <= n
    /\ OneConversationPerKey
    /\ \A c \in Convs : conv[c].status # "none" =>
         /\ conv[c].key \in Keys /\ receipt[conv[c].key].held
         /\ \A p \in PredOf[conv[c].source] :
              /\ receipt[p].held /\ receipt[p].conv < c
              /\ \A a \in Actors : at[a] \in InFlight => Key(a) # p

\* Formation is sequential: whatever precedes a conversation in work is over.
Ended(c) == \A d \in Convs : d < c => conv[d].status \in Over
WorkerInv ==
    /\ worker.stage # "idle" => conv[worker.conv].status # "none" /\ Ended(worker.conv)
    /\ worker.stage = "check" => conv[worker.conv].status \in Pending
    /\ worker.stage = "running" => conv[worker.conv].status = "working"
    /\ \A c \in Convs : graph[c] # "nothing" => conv[c].status # "none" /\ Ended(c)

MemoryInv ==
    Types /\ ActorInv /\ ReceiptInv /\ ConvInv /\ WorkerInv

\* Each predecessor of what is written is available for good, or will never settle.
Passed(p) == receipt[p].terminal = "available" \/ (receipt[p].terminal = "none" /\ receipt[p].conv = 0)
PassedInv ==
    \A c \in Convs : graph[c] # "nothing" \/ (worker.stage = "running" /\ worker.conv = c) =>
        \A p \in PredOf[conv[c].source] : Passed(p)

\* No source is ordered after a forget.
NoForgetPrecedes ==
    \A W \in Workloads : \A q \in W : q.op \in Forgets => \A s \in Sources : q.key \notin PredOf[s]
OrderInv ==
    /\ PassedInv
    /\ \A s \in Sources : \A p \in PredOf[s] : receipt[p].held => receipt[p].op \notin Forgets

-----------------------------------------------------------------------------
(* What a step does to its actor and to the journal.                       *)

\* Only the actor a moves, to l.
Still(b) ==
    /\ at'[b] = at[b] /\ req'[b] = req[b] /\ out'[b] = out[b]
    /\ started'[b] = started[b] /\ todo'[b] = todo[b]
Moves(a, l) == ActorTypes' /\ at'[a] = l /\ \A b \in Actors : b # a => Still(b)

\* A receipt keeps what it was created for, its conversation and its answer.
Grows(r, s) ==
    /\ r.held => s.held /\ s.op = r.op /\ s.source = r.source
    /\ r.conv # 0 => s.conv = r.conv
    /\ r.terminal # "none" => s.terminal = r.terminal /\ s.plan = r.plan
\* Only the receipt k is written.
Writes(k) ==
    /\ JournalTypes'
    /\ \A j \in Keys : j # k => receipt'[j] = receipt[j]

LEMMA ConvsAreNat ==
  /\ MaxConv \in Nat /\ Convs \subseteq Nat /\ 0 \notin Convs
  /\ 0..MaxConv = Convs \cup {0}
  BY BoundsAssumption DEF Convs

LEMMA NoneAreTyped ==
  /\ NoReceipt \in ReceiptRecords
  /\ NoConv \in ConvRecords
  /\ NoRequest \in Requests
<1>1. (CHOOSE s \in Sources : TRUE) \in Sources
  BY SourcesAssumption
<1>2. 0 \in 0..MaxConv
  BY BoundsAssumption
<1> QED
  BY <1>1, <1>2 DEF NoReceipt, NoConv, NoRequest, ReceiptRecords, ConvRecords, Requests, Ops, Terminals, Statuses

LEMMA GotoMoves ==
  ASSUME ActorTypes, NEW a \in Actors, NEW l \in Ats, at[a] # "idle", Goto(a, l),
         UNCHANGED <<answer, workload>>
  PROVE  Moves(a, l) /\ req' = req /\ out' = out /\ started' = started /\ todo' = todo
  BY DEF ActorTypes, Goto, answer, Moves, Still, Key, Op

LEMMA OutMoves ==
  ASSUME ActorTypes, NEW a \in Actors, NEW l \in Ats, NEW o \in Outs, at[a] # "idle", Goto(a, l),
         out' = [out EXCEPT ![a] = o], UNCHANGED <<req, started, todo, workload>>
  PROVE  Moves(a, l) /\ req' = req /\ out'[a] = o /\ started' = started /\ todo' = todo
  BY DEF ActorTypes, Goto, Moves, Still, Key, Op

LEMMA DoneMoves ==
  ASSUME ActorTypes, NEW a \in Actors, Done(a), UNCHANGED workload
  PROVE  Moves(a, "idle") /\ started'[a] = 0
<1>1. NoRequest \in Requests /\ NoRequest.op = "read"
  BY NoneAreTyped DEF NoRequest
<1>2. 0 \in 0..MaxConv
  BY ConvsAreNat
<1>3. /\ at' = [at EXCEPT ![a] = "idle"] /\ req' = [req EXCEPT ![a] = NoRequest]
      /\ out' = [out EXCEPT ![a] = "none"] /\ started' = [started EXCEPT ![a] = 0]
      /\ todo' = [todo EXCEPT ![a] = {}]
  BY DEF Done
<1>4. ActorTypes'
  BY <1>1, <1>2, <1>3 DEF ActorTypes, Ats, Outs, Key, Op
<1> QED
  BY <1>3, <1>4 DEF ActorTypes, Moves, Still

LEMMA HookMoves ==
  ASSUME ActorTypes, NEW k \in Keys, CallHook(k), UNCHANGED workload
  PROVE  Hook \in Actors /\ Moves(Hook, "settle") /\ started' = started
<1>1. Hook \in Actors
  BY DEF Actors
<1> DEFINE q == [NoRequest EXCEPT !.key = k]
<1>2. q \in Requests /\ q.op = "read" /\ q.key = k
  BY NoneAreTyped DEF NoRequest, Requests
<1>3. /\ at' = [at EXCEPT ![Hook] = "settle"] /\ req' = [req EXCEPT ![Hook] = q]
      /\ UNCHANGED <<out, started, todo>>
  BY DEF CallHook
<1> HIDE DEF q
<1>4. ActorTypes'
  BY <1>1, <1>2, <1>3 DEF ActorTypes, Ats, Key, Op
<1> QED
  BY <1>1, <1>3, <1>4 DEF ActorTypes, Moves, Still

-----------------------------------------------------------------------------
(* The frame: what other actors rely on.                                   *)

JournalGrows == JournalTypes' /\ \A k \in Keys : Grows(receipt[k], receipt'[k])
QueueGrows ==
    /\ QueueTypes'
    /\ \A c \in Convs :
         /\ conv[c].status # "none" =>
              conv'[c].status # "none" /\ conv'[c].key = conv[c].key /\ conv'[c].source = conv[c].source
         /\ conv[c].status \in Over => conv'[c].status = conv[c].status
         /\ graph'[c] \in Live => graph[c] \in Live \/ conv[c].status = "working"
         /\ graph[c] # "nothing" => graph'[c] # "nothing"

\* What a step leaves to an intake in flight, and to a forget.
Spares(b) ==
    /\ at[b] \in InFlight =>
         /\ gate' = gate
         /\ receipt'[Key(b)] = receipt[Key(b)]
         /\ \A p \in PredOf[Source(b)] : receipt'[p].conv = receipt[p].conv
         /\ \A c \in Convs : conv[c].status = "none" /\ conv'[c].status # "none" => conv'[c].key # Key(b)
    /\ at[b] \in Erasing => receipt'[Key(b)] = receipt[Key(b)]
Leaves(a) == \A b \in Actors : b # a => Spares(b)

LEMMA OthersKeep ==
  ASSUME Types, ActorInv, ReceiptInv, JournalGrows, QueueGrows, repaired \subseteq repaired',
         NEW b \in Actors, Still(b), Spares(b)
  PROVE  ActorOf(b)'
<1>1. at'[b] = at[b] /\ req'[b] = req[b] /\ out'[b] = out[b] /\ started'[b] = started[b] /\ todo'[b] = todo[b]
  BY DEF Still
<1>2. Key(b)' = Key(b) /\ Source(b)' = Source(b) /\ Op(b)' = Op(b)
  BY <1>1 DEF Key, Source, Op
<1>3. ActorOf(b) /\ (at[b] # "idle" => Key(b) \in Keys) /\ Source(b) \in Sources
  BY DEF ActorInv, Types, ActorTypes, Requests, Source
<1>4. GateOf(b)'
  BY <1>1, <1>3 DEF ActorOf, GateOf, Leaves, Spares
<1>5. IntakeOf(b)'
  <2>1. ASSUME at[b] \in InFlight
        PROVE  /\ Fresh(receipt'[Key(b)], req[b])
               /\ \A p \in PredOf[Source(b)] : p # Key(b) /\ receipt'[p].held
    <3>1. \A p \in PredOf[Source(b)] : p \in Keys
      BY <1>3, PredAssumption
    <3> QED
      BY <2>1, <3>1, <1>3 DEF ActorOf, IntakeOf, Leaves, Spares, JournalGrows, Grows
  <2>2. ASSUME at[b] \in {"key", "start"}, NEW c \in Convs, conv'[c].status # "none"
        PROVE  conv'[c].key # Key(b)
    BY <2>2, <1>3 DEF ActorOf, IntakeOf, Leaves, Spares, QueueGrows, InFlight
  <2>3. ASSUME at[b] = "save", started[b] # 0
        PROVE  /\ conv'[started[b]].status # "none"
               /\ \A p \in PredOf[Source(b)] : receipt'[p].conv < started[b]
    <3>1. started[b] \in Convs
      BY <2>3, ConvsAreNat DEF Types, ActorTypes
    <3> QED
      BY <2>3, <3>1, <1>3 DEF ActorOf, IntakeOf, Leaves, Spares, QueueGrows, InFlight
  <2> QED
    BY <1>1, <1>2, <1>3, <2>1, <2>2, <2>3 DEF ActorOf, IntakeOf
<1>6. ForgetOf(b)'
  <2>1. ASSUME at[b] \in Erasing, at[b] # "scan", out[b] = "completed", Op(b) = "forget", NEW c \in receipt[Key(b)].plan
        PROVE  conv'[c].status = "completed" /\ (graph'[c] \in Live => at[b] = "erase" /\ c \in todo[b])
    <3>1. c \in Convs
      BY <2>1, <1>3 DEF Types, JournalTypes, ReceiptRecords, Erasing
    <3>2. conv[c].status = "completed" /\ (graph[c] \in Live => at[b] = "erase" /\ c \in todo[b])
      BY <2>1, <1>3 DEF ActorOf, ForgetOf
    <3> QED
      BY <3>1, <3>2 DEF QueueGrows, Over
  <2>2. ASSUME at[b] = "erase", NEW c \in todo[b]
        PROVE  graph'[c] # "nothing"
    <3>1. c \in Convs
      BY <2>2 DEF Types, ActorTypes
    <3> QED
      BY <2>2, <3>1, <1>3 DEF ActorOf, ForgetOf, QueueGrows, Erasing
  <2> QED
    BY <1>1, <1>2, <1>3, <2>1, <2>2 DEF ActorOf, ForgetOf, Leaves, Spares
<1>7. SettleOf(b)'
  <2>1. ASSUME at[b] \in Settles
        PROVE  receipt'[Key(b)].conv # 0 /\ receipt'[Key(b)].op = receipt[Key(b)].op
    BY <2>1, <1>3 DEF ActorOf, SettleOf, Settles, JournalGrows, Grows, ReceiptInv, ReceiptOf
  <2> QED
    BY <1>1, <1>2, <1>3, <2>1 DEF ActorOf, SettleOf, Settles
<1> QED
  BY <1>4, <1>5, <1>6, <1>7 DEF ActorOf

\* A step that writes no receipt and no conversation, keeps what was repaired, and may
\* purge what it found in memory.
LEMMA QuietStep ==
  ASSUME MemoryInv, NEW a \in Actors, NEW l, Moves(a, l), ActorOf(a)',
         JournalTypes', WorkerTypes', graph' \in [Convs -> Live \cup {"nothing", "purged"}],
         UNCHANGED <<receipt, conv, gate>>, repaired \subseteq repaired',
         \A k \in repaired' \ repaired : receipt[k].held /\ receipt[k].op = "misrecorded",
         worker' = worker \/ worker' = NoPass,
         \A c \in Convs : graph'[c] = graph[c] \/ (graph'[c] = "purged" /\ graph[c] # "nothing"),
         l \in InFlight => at[a] \in InFlight /\ req'[a].key = req[a].key,
         l \in Erasing => at[a] \in Erasing /\ req'[a].key = req[a].key
  PROVE  MemoryInv'
<1>1. Types'
  BY DEF MemoryInv, Types, QueueTypes, Moves, Still
<1>2. JournalGrows /\ QueueGrows /\ Leaves(a)
  BY <1>1 DEF JournalGrows, Grows, QueueGrows, Leaves, Spares, Types, MemoryInv, JournalTypes, QueueTypes, Live
<1>3. \A b \in Actors : ActorOf(b)'
  BY <1>2, OthersKeep DEF MemoryInv, Moves, Leaves
<1>4. \A b \in Actors : \A S \in {InFlight, Erasing} : at'[b] \in S => at[b] \in S /\ req'[b].key = req[b].key
  BY DEF Moves, Still
<1>5. ActorInv'
  BY <1>3, <1>4 DEF ActorInv, MemoryInv, Key
<1>6. ReceiptInv'
  <2>1. ASSUME NEW k \in Keys, receipt[k].op = "forget", receipt[k].terminal = "erased", NEW c \in receipt[k].plan
        PROVE  conv[c].status = "completed" /\ graph'[c] \notin Live
    <3>1. c \in Convs
      BY DEF MemoryInv, Types, JournalTypes, ReceiptRecords
    <3> QED
      BY <2>1, <3>1 DEF MemoryInv, ReceiptInv, ReceiptOf, Live
  <2> QED
    BY <2>1 DEF MemoryInv, ReceiptInv, ReceiptOf
<1>7. ConvInv'
  <2>1. \A b \in Actors : at'[b] \in InFlight => at[b] \in InFlight /\ Key(b)' = Key(b)
    BY <1>4 DEF Key
  <2>2. OneConversationPerKey'
    BY DEF MemoryInv, ConvInv, OneConversationPerKey
  <2> QED
    BY <2>1, <2>2 DEF MemoryInv, ConvInv
<1>8. WorkerInv'
  BY DEF MemoryInv, WorkerInv, Ended, NoPass
<1> QED
  BY <1>1, <1>5, <1>6, <1>7, <1>8 DEF MemoryInv

LEMMA StutterKeeps ==
  ASSUME MemoryInv, UNCHANGED <<receipt, conv, graph, repaired, epoch, gate, at, req, out, started, todo, worker, workload>>,
         JournalTypes'
  PROVE  MemoryInv'
<1>1. Types'
  BY DEF MemoryInv, Types, QueueTypes, WorkerTypes, ActorTypes, Key, Op
<1>2. \A a \in Actors : ActorOf(a)' = ActorOf(a)
  BY DEF ActorOf, GateOf, IntakeOf, ForgetOf, SettleOf, Key, Source, Op
<1>3. ActorInv'
  BY <1>2 DEF MemoryInv, ActorInv, Key
<1>4. ReceiptInv' /\ ConvInv' /\ WorkerInv'
  BY DEF MemoryInv, ReceiptInv, ReceiptOf, ConvInv, OneConversationPerKey, WorkerInv, Ended, Key
<1> QED
  BY <1>1, <1>3, <1>4 DEF MemoryInv

-----------------------------------------------------------------------------
(* Requests, reads and the steps that leave the journal and the queue.     *)

\* An actor before the gate, or who only looks at a receipt, has nothing to keep.
LEMMA CalmActor ==
  ASSUME NEW a, at'[a] \in {"idle", "resolve", "gate", "unresolved", "settle"}, at'[a] # "settle" => started'[a] = 0
  PROVE  ActorOf(a)'
  BY DEF ActorOf, GateOf, IntakeOf, ForgetOf, SettleOf, InFlight, Erasing, Settles

LEMMA CalmStep ==
  ASSUME MemoryInv, NEW a \in Actors, NEW l \in {"idle", "resolve", "gate", "unresolved", "settle"}, Moves(a, l),
         l # "settle" => started'[a] = 0, UNCHANGED <<durable, gate>>, worker' = worker \/ worker' = NoPass
  PROVE  MemoryInv'
<1>1. ActorOf(a)'
  BY CalmActor DEF Moves, Still
<1>2. l \notin InFlight /\ l \notin Erasing
  BY DEF InFlight, Erasing
<1>3. JournalTypes' /\ WorkerTypes' /\ graph' \in [Convs -> Live \cup {"nothing", "purged"}]
  BY ConvsAreNat DEF MemoryInv, Types, JournalTypes, WorkerTypes, QueueTypes, durable, NoPass
<1> QED
  BY <1>1, <1>2, <1>3, QuietStep DEF durable

LEMMA AskKeeps ==
  ASSUME MemoryInv, NEW a \in Callers, Ask(a)
  PROVE  MemoryInv'
<1>1. a \in Actors
  BY DEF Actors
<1>2. PICK q \in workload :
        /\ req' = [req EXCEPT ![a] = q]
        /\ Goto(a, CASE q.op \in {"forget", "payload"} -> "gate" [] q.op = "read" -> "settle" [] OTHER -> "resolve")
  BY DEF Ask
<1> DEFINE l == CASE q.op \in {"forget", "payload"} -> "gate" [] q.op = "read" -> "settle" [] OTHER -> "resolve"
<1>3. l \in {"gate", "settle", "resolve"}
  OBVIOUS
<1>4. at' = [at EXCEPT ![a] = l]
  BY <1>2 DEF Goto
<1>5. q \in [op : Ops, key : Keys, source : Sources] /\ q \in Requests
  BY DEF MemoryInv, Types, ActorTypes, Requests
<1> HIDE DEF l
<1>6. UNCHANGED <<durable, gate, out, started, todo, worker, workload>> /\ at[a] = "idle"
  BY DEF Ask, process
<1>7. Moves(a, l)
  BY <1>1, <1>2, <1>3, <1>4, <1>5, <1>6 DEF MemoryInv, Types, ActorTypes, Moves, Still, Ats, Key, Op
<1>8. started'[a] = 0
  BY <1>1, <1>6 DEF MemoryInv, ActorInv, ActorOf, IntakeOf
<1> QED
  BY <1>1, <1>3, <1>6, <1>7, <1>8, CalmStep

LEMMA BeforeGateKeeps ==
  ASSUME MemoryInv, NEW a \in Callers, Resolve(a) \/ Replay(a) \/ Refuse(a)
  PROVE  MemoryInv'
<1>1. a \in Actors /\ UNCHANGED <<durable, gate, worker, workload>>
  BY DEF Actors, Resolve, Replay, Refuse, process
<1>2. at[a] \in {"resolve", "gate", "unresolved"} /\ started[a] = 0
  BY <1>1 DEF Resolve, Replay, Refuse, MemoryInv, ActorInv, ActorOf, IntakeOf
<1>3. CASE Done(a)
  BY <1>1, <1>3, DoneMoves, CalmStep DEF MemoryInv, Types
<1>4. CASE \E l \in {"gate", "unresolved", "settle"} : Goto(a, l) /\ UNCHANGED answer
  <2>1. PICK l \in {"gate", "unresolved", "settle"} : Goto(a, l) /\ UNCHANGED answer
    BY <1>4
  <2>2. Moves(a, l) /\ started' = started
    BY <1>1, <1>2, <2>1, GotoMoves DEF MemoryInv, Types, Ats
  <2> QED
    BY <1>1, <1>2, <2>2, CalmStep
<1> QED
  BY <1>3, <1>4 DEF Resolve, Replay, Refuse

LEMMA ReadProgressKeeps ==
  ASSUME MemoryInv, NEW a \in Actors, ReadProgress(a)
  PROVE  MemoryInv'
  BY DoneMoves, CalmStep DEF ReadProgress, MemoryInv, Types, process

LEMMA SettlePredecessorKeeps ==
  ASSUME MemoryInv, SettlePredecessor
  PROVE  MemoryInv'
<1>1. worker.conv \in Convs
  BY DEF SettlePredecessor, MemoryInv, Types, WorkerTypes
<1>2. PICK p \in PredOf[conv[worker.conv].source] : CallHook(p)
  BY DEF SettlePredecessor
<1>3. p \in Keys
  BY <1>1, <1>2, PredAssumption DEF MemoryInv, Types, QueueTypes, ConvRecords
<1>4. UNCHANGED <<durable, gate, worker, workload>>
  BY DEF SettlePredecessor, process
<1> QED
  BY <1>2, <1>3, <1>4, HookMoves, CalmStep DEF MemoryInv, Types

LEMMA ConversationEndKeeps ==
  ASSUME MemoryInv, ConversationEnd
  PROVE  MemoryInv'
<1>1. worker.conv \in Convs /\ worker.stage = "ended"
  BY DEF ConversationEnd, MemoryInv, Types, WorkerTypes
<1>2. UNCHANGED <<durable, gate, workload>> /\ worker' = NoPass
  BY DEF ConversationEnd, process
<1>3. conv[worker.conv].key \in Keys
  BY <1>1 DEF MemoryInv, WorkerInv, ConvInv
<1>4. CASE CallHook(conv[worker.conv].key)
  BY <1>2, <1>3, <1>4, HookMoves, CalmStep DEF MemoryInv, Types
<1>5. CASE UNCHANGED locals
  <2>1. Hook \in Actors /\ at[Hook] = "idle"
    BY DEF Actors, ConversationEnd
  <2>2. Moves(Hook, "idle") /\ started'[Hook] = 0
    BY <1>2, <1>5, <2>1 DEF Moves, Still, locals, answer, MemoryInv, Types, ActorTypes, ActorInv, ActorOf, IntakeOf, Key, Op
  <2> QED
    BY <1>2, <2>1, <2>2, CalmStep
<1> QED
  BY <1>4, <1>5 DEF ConversationEnd

\* The gate, the memory and the queue are left alone.
LEMMA LeftAlone ==
  ASSUME MemoryInv, UNCHANGED <<receipt, bound, conv, epoch, graph, worker>>
  PROVE  JournalTypes' /\ WorkerTypes' /\ graph' \in [Convs -> Live \cup {"nothing", "purged"}]
  BY DEF MemoryInv, Types, JournalTypes, WorkerTypes, QueueTypes

LEMMA InFlightKeeps ==
  ASSUME MemoryInv, NEW a \in Callers, BindKey(a) \/ CaptureEvidence(a) \/ StartFails(a)
  PROVE  MemoryInv'
<1>1. a \in Actors /\ UNCHANGED <<receipt, conv, epoch, graph, repaired, gate, worker, workload>>
  BY DEF Actors, BindKey, CaptureEvidence, StartFails, process, durable
<1>2. at[a] \in {"key", "start"} /\ ActorOf(a) /\ Key(a) \in Keys
  BY <1>1 DEF BindKey, CaptureEvidence, StartFails, MemoryInv, Types, ActorTypes, ActorInv
<1>3. Source(a) \in Sources
  BY <1>1 DEF MemoryInv, Types, ActorTypes, Requests, Source
<1>4. JournalTypes'
  BY <1>1, <1>2, <1>3 DEF BindKey, CaptureEvidence, StartFails, durable, MemoryInv, Types, JournalTypes
<1>5. WorkerTypes' /\ graph' \in [Convs -> Live \cup {"nothing", "purged"}]
  BY <1>1 DEF MemoryInv, Types, WorkerTypes, QueueTypes
<1>6. CASE BindKey(a)
  <2>1. Moves(a, "start") /\ req' = req /\ started' = started
    BY <1>1, <1>6, GotoMoves DEF BindKey, MemoryInv, Types, Ats, process
  <2>2. ActorOf(a)'
    BY <1>1, <1>2, <2>1 DEF ActorOf, GateOf, IntakeOf, ForgetOf, SettleOf, Moves, Still, Key, Source, Op, InFlight, Erasing, Settles
  <2> QED
    BY <1>1, <1>2, <1>4, <1>5, <2>1, <2>2, QuietStep DEF InFlight, Erasing
<1>7. CASE CaptureEvidence(a) \/ StartFails(a)
  <2>1. PICK o \in {"available", "failed"} :
          out' = [out EXCEPT ![a] = o] /\ (o = "available" => Op(a) \in {"feedback", "report"})
    BY <1>7 DEF CaptureEvidence, StartFails
  <2>2. Moves(a, "save") /\ req' = req /\ started' = started /\ out'[a] = o
    BY <1>1, <1>7, <2>1, OutMoves DEF CaptureEvidence, StartFails, MemoryInv, Types, Ats, Outs
  <2>3. ActorOf(a)'
    BY <1>1, <1>2, <2>1, <2>2 DEF ActorOf, GateOf, IntakeOf, ForgetOf, SettleOf, Moves, Still, Key, Source, Op, InFlight, Erasing, Settles
  <2> QED
    BY <1>1, <1>2, <1>4, <1>5, <2>2, <2>3, QuietStep DEF InFlight, Erasing
<1> QED
  BY <1>6, <1>7

\* The phase that a reader derives from a conversation that ended.
LEMMA EndedProgress ==
  ASSUME NEW k, Progress(k) # receipt[k].terminal
  PROVE  /\ receipt[k].terminal = "none" /\ receipt[k].conv # 0
         /\ Progress(k) \in {"available", "failed"}
         /\ receipt[k].op = "misrecorded" /\ Progress(k) = "available" => NeedsRepair(k)
  BY DEF Progress, NeedsRepair

LEMMA SettlingKeeps ==
  ASSUME MemoryInv, NEW a \in Actors, ReadEnded(a) \/ ReadTarget(a) \/ Invalidate(a)
  PROVE  MemoryInv'
<1>1. UNCHANGED <<receipt, bound, conv, epoch, graph, gate, worker, workload, req, started, todo>> /\ repaired \subseteq repaired'
  BY DEF ReadEnded, ReadTarget, Invalidate, process, durable
<1>2. at[a] \in {"settle", "repair", "invalidate"} /\ ActorOf(a) /\ Key(a) \in Keys
  BY DEF ReadEnded, ReadTarget, Invalidate, MemoryInv, Types, ActorTypes, ActorInv
<1>7. \A k \in repaired' \ repaired : receipt[k].held /\ receipt[k].op = "misrecorded"
  <2> SUFFICES ASSUME NEW k \in repaired', k \notin repaired
               PROVE receipt[k].held /\ receipt[k].op = "misrecorded" OBVIOUS
  <2>1. k = Key(a) /\ at[a] = "invalidate" BY DEF ReadEnded, ReadTarget, Invalidate, durable
  <2>2. receipt[k].conv # 0 /\ receipt[k].op = "misrecorded" BY <1>2, <2>1 DEF ActorOf, SettleOf, Settles
  <2> QED BY <1>2, <2>1, <2>2 DEF MemoryInv, ReceiptInv, ReceiptOf
<1>3. ASSUME NEW l \in Settles, NEW o \in Outs, Goto(a, l), out' = [out EXCEPT ![a] = o], receipt[Key(a)].conv # 0,
             l # "record" => receipt[Key(a)].op = "misrecorded",
             l = "record" => /\ o \in {"available", "failed"}
                             /\ o = "available" /\ receipt[Key(a)].op = "misrecorded" => Key(a) \in repaired'
      PROVE  MemoryInv'
  <2>1. Moves(a, l) /\ out'[a] = o
    <3>1. l \in Ats /\ ActorTypes
      BY DEF MemoryInv, Types, Ats, Settles
    <3> QED
      BY <1>1, <1>2, <1>3, <3>1, OutMoves
  <2>2. ActorOf(a)'
    BY <1>1, <1>2, <1>3, <2>1 DEF ActorOf, GateOf, IntakeOf, ForgetOf, SettleOf, Moves, Still, Key, InFlight, Erasing, Settles
  <2> QED
    BY <1>1, <1>3, <1>7, <2>1, <2>2, LeftAlone, QuietStep DEF InFlight, Erasing, Settles
<1>4. CASE ReadEnded(a)
  <2> DEFINE l == IF NeedsRepair(Key(a)) THEN "repair" ELSE "record"
  <2>1. Progress(Key(a)) \in {"available", "failed"} /\ receipt[Key(a)].conv # 0
    BY <1>4, EndedProgress DEF ReadEnded
  <2>2. l \in Settles /\ Goto(a, l) /\ out' = [out EXCEPT ![a] = Progress(Key(a))]
    BY <1>4 DEF ReadEnded, Settles
  <2>3. l = "record" /\ Progress(Key(a)) = "available" => receipt[Key(a)].op # "misrecorded"
    BY <1>4, EndedProgress DEF ReadEnded
  <2>4. l # "record" => receipt[Key(a)].op = "misrecorded" BY DEF NeedsRepair
  <2> HIDE DEF l
  <2> QED
    BY <1>3, <2>1, <2>2, <2>3, <2>4 DEF Outs
<1>5. CASE ReadTarget(a)
  <2> DEFINE o == IF Key(a) \in repaired THEN "spent" ELSE "fresh"
  <2>1. o \in Outs /\ out' = [out EXCEPT ![a] = o] /\ Goto(a, "invalidate")
    BY <1>5 DEF ReadTarget, Outs
  <2>2. receipt[Key(a)].conv # 0 /\ receipt[Key(a)].op = "misrecorded"
    BY <1>2, <1>5 DEF ReadTarget, ActorOf, SettleOf, Settles
  <2> HIDE DEF o
  <2> QED
    BY <1>3, <2>1, <2>2 DEF Settles
<1>6. CASE Invalidate(a)
  <2>1. PICK o \in {"available", "failed"} : out' = [out EXCEPT ![a] = o] /\ (o = "available" => Key(a) \in repaired')
    BY <1>6 DEF Invalidate
  <2>2. receipt[Key(a)].conv # 0 /\ Goto(a, "record")
    BY <1>2, <1>6 DEF Invalidate, ActorOf, SettleOf, Settles
  <2> QED
    BY <1>3, <2>1, <2>2 DEF Settles, Outs
<1> QED
  BY <1>4, <1>5, <1>6

LEMMA ErasingKeeps ==
  ASSUME MemoryInv, NEW a \in Callers,
         EraseTarget(a) \/ ErasePayload(a) \/ HoldBlocks(a) \/ SuppressSources(a) \/ EraseSurfaces(a)
  PROVE  MemoryInv'
<1>1. a \in Actors /\ UNCHANGED <<receipt, bound, conv, repaired, gate, worker, workload, req, started>>
  BY DEF Actors, EraseTarget, ErasePayload, HoldBlocks, SuppressSources, EraseSurfaces, process, durable, answer
<1>2. at[a] \in {"erase", "surfaces"} /\ ActorOf(a) /\ Key(a) \in Keys
  BY <1>1 DEF EraseTarget, ErasePayload, HoldBlocks, SuppressSources, EraseSurfaces, MemoryInv, Types, ActorTypes, ActorInv
<1>3. JournalTypes'
  BY <1>1 DEF MemoryInv, Types, JournalTypes
<1>4. receipt[Key(a)].plan \subseteq Convs
  BY <1>2 DEF MemoryInv, Types, JournalTypes, ReceiptRecords
<1>5. CASE EraseTarget(a)
  <2>1. PICK c \in todo[a] :
          /\ todo' = [todo EXCEPT ![a] = @ \ {c}]
          /\ graph' = [graph EXCEPT ![c] = "purged"]
          /\ epoch' = epoch + 1 \/ epoch' = epoch
    BY <1>5 DEF EraseTarget
  <2>2. c \in Convs /\ graph[c] # "nothing" /\ at[a] = "erase"
    BY <1>1, <1>2, <1>5 DEF EraseTarget, MemoryInv, Types, ActorTypes, ActorOf, ForgetOf, Erasing
  <2>3. at' = at /\ out' = out
    BY <1>5 DEF EraseTarget
  <2>4. Moves(a, at[a]) /\ todo'[a] = todo[a] \ {c}
    BY <1>1, <2>1, <2>3 DEF Moves, Still, MemoryInv, Types, ActorTypes, Key, Op
  <2>5. /\ graph' \in [Convs -> Live \cup {"nothing", "purged"}]
        /\ \A d \in Convs : graph'[d] = IF d = c THEN "purged" ELSE graph[d]
    BY <2>1, <2>2 DEF MemoryInv, Types, QueueTypes
  <2>6. WorkerTypes'
    BY <1>1, <2>1 DEF MemoryInv, Types, WorkerTypes
  <2>7. todo[a] \subseteq Convs
    BY <1>1 DEF MemoryInv, Types, ActorTypes
  <2>8. ActorOf(a)'
    BY <1>1, <1>2, <1>4, <2>2, <2>3, <2>4, <2>5, <2>7
       DEF ActorOf, GateOf, IntakeOf, ForgetOf, SettleOf, Key, Op, InFlight, Erasing, Settles, Live
  <2> QED
    BY <1>1, <1>2, <1>3, <2>2, <2>3, <2>4, <2>5, <2>6, <2>8, QuietStep DEF InFlight, Erasing
<1>6. CASE ErasePayload(a)
  <2>1. at' = at /\ out' = out /\ Op(a) = "payload" /\ todo' = [todo EXCEPT ![a] = {}] /\ graph' = graph /\ epoch' = epoch
    BY <1>6 DEF ErasePayload, durable
  <2>2. Moves(a, at[a])
    BY <1>1, <2>1 DEF Moves, Still, MemoryInv, Types, ActorTypes, Key, Op
  <2>3. ActorOf(a)'
    BY <1>1, <1>2, <2>1 DEF ActorOf, GateOf, IntakeOf, ForgetOf, SettleOf, Key, Op, InFlight, Erasing, Settles
  <2> QED
    BY <1>1, <1>2, <2>1, <2>2, <2>3, LeftAlone, QuietStep DEF InFlight, Erasing
<1>7. CASE HoldBlocks(a)
  <2>1. Moves(a, "report") /\ out'[a] = "blocked" /\ graph' = graph /\ epoch' = epoch
    BY <1>1, <1>2, <1>7, OutMoves DEF HoldBlocks, durable, MemoryInv, Types, Ats, Outs
  <2>2. ActorOf(a)'
    BY <1>1, <1>2, <2>1 DEF ActorOf, GateOf, IntakeOf, ForgetOf, SettleOf, Key, Op, InFlight, Erasing, Settles, Moves, Still
  <2> QED
    BY <1>1, <1>2, <2>1, <2>2, LeftAlone, QuietStep DEF InFlight, Erasing
<1>8. CASE SuppressSources(a) \/ EraseSurfaces(a)
  <2>1. PICK l \in {"surfaces", "report"} : Goto(a, l) /\ UNCHANGED <<answer, graph, epoch>>
    BY <1>8 DEF SuppressSources, EraseSurfaces
  <2>2. Moves(a, l) /\ out' = out /\ todo' = todo
    BY <1>1, <1>2, <2>1, GotoMoves DEF MemoryInv, Types, Ats
  <2>3. at[a] = "erase" => todo[a] = {}
    BY <1>8 DEF SuppressSources, EraseSurfaces
  <2>4. ActorOf(a)'
    BY <1>1, <1>2, <2>1, <2>2, <2>3 DEF ActorOf, GateOf, IntakeOf, ForgetOf, SettleOf, Key, Op, InFlight, Erasing, Settles, Moves, Still
  <2> QED
    BY <1>1, <1>2, <2>1, <2>2, <2>4, LeftAlone, QuietStep DEF InFlight, Erasing
<1> QED
  BY <1>5, <1>6, <1>7, <1>8

-----------------------------------------------------------------------------
(* The steps that write a receipt.                                         *)

LEMMA JournalStep ==
  ASSUME MemoryInv, NEW a \in Actors, NEW l, Moves(a, l), NEW k \in Keys, Writes(k), Grows(receipt[k], receipt'[k]),
         UNCHANGED <<conv, graph, repaired, worker, epoch>>, ActorOf(a)', ReceiptOf(k)', Leaves(a),
         l \in Erasing => \A b \in Actors : b # a /\ at[b] \in Erasing => Key(b) # req'[a].key,
         l \in InFlight => \A c \in Convs : conv[c].status # "none" => req'[a].key \notin PredOf[conv[c].source],
         receipt'[k].conv # receipt[k].conv =>
             \A c \in Convs : conv[c].status # "none" => k \notin PredOf[conv[c].source]
  PROVE  MemoryInv' /\ JournalGrows
<1>1. Types'
  BY DEF MemoryInv, Types, QueueTypes, WorkerTypes, Moves, Still, Writes
<1>2. JournalGrows /\ QueueGrows
  BY <1>1 DEF JournalGrows, Writes, Grows, QueueGrows, Types
<1>3. \A b \in Actors : ActorOf(b)'
  BY <1>2, OthersKeep DEF MemoryInv, Moves, Leaves
<1>4. ActorInv'
  BY <1>3 DEF ActorInv, MemoryInv, Moves, Still, Key
<1>5. ReceiptInv'
  BY DEF MemoryInv, ReceiptInv, ReceiptOf, Writes
<1>6. ConvInv'
  <2>1. OneConversationPerKey'
    BY DEF MemoryInv, ConvInv, OneConversationPerKey
  <2>2. ASSUME NEW c \in Convs, conv[c].status # "none"
        PROVE  /\ conv[c].key \in Keys /\ receipt'[conv[c].key].held
               /\ \A p \in PredOf[conv[c].source] :
                    /\ receipt'[p].held /\ receipt'[p].conv < c
                    /\ \A b \in Actors : at'[b] \in InFlight => Key(b)' # p
    <3>1. conv[c].key \in Keys /\ PredOf[conv[c].source] \subseteq Keys
      BY <2>2, PredAssumption DEF MemoryInv, ConvInv, Types, QueueTypes, ConvRecords
    <3>2. receipt'[conv[c].key].held
      BY <2>2, <3>1, <1>2 DEF MemoryInv, ConvInv, JournalGrows, Grows
    <3>3. ASSUME NEW p \in PredOf[conv[c].source]
          PROVE  receipt'[p].held /\ receipt'[p].conv < c
      BY <2>2, <3>1, <1>2 DEF MemoryInv, ConvInv, JournalGrows, Grows, Writes
    <3>4. ASSUME NEW p \in PredOf[conv[c].source], NEW b \in Actors, at'[b] \in InFlight
          PROVE  Key(b)' # p
      BY <2>2, <3>4 DEF MemoryInv, ConvInv, Moves, Still, Key
    <3> QED
      BY <3>1, <3>2, <3>3, <3>4
  <2> QED
    BY <2>1, <2>2 DEF MemoryInv, ConvInv
<1>7. WorkerInv'
  BY DEF MemoryInv, WorkerInv, Ended
<1> QED
  BY <1>1, <1>2, <1>4, <1>5, <1>6, <1>7 DEF MemoryInv

\* What an intake or a forget creates.
LEMMA CreatedReceipt ==
  ASSUME JournalTypes, NEW k \in Keys, NEW q \in Requests, UNCHANGED bound,
         receipt' = [receipt EXCEPT ![k] = [NoReceipt EXCEPT !.held = TRUE, !.op = q.op, !.source = q.source]]
  PROVE  Writes(k) /\ Fresh(receipt'[k], q)
<1> DEFINE r == [NoReceipt EXCEPT !.held = TRUE, !.op = q.op, !.source = q.source]
<1>1. r \in ReceiptRecords
  BY NoneAreTyped DEF ReceiptRecords, Requests
<1>2. r.held /\ r.op = q.op /\ r.source = q.source /\ r.conv = 0 /\ r.terminal = "none"
  BY DEF NoReceipt
<1>3. receipt' = [receipt EXCEPT ![k] = r]
  OBVIOUS
<1> HIDE DEF r
<1> QED
  BY <1>1, <1>2, <1>3 DEF JournalTypes, Writes, Fresh

\* What its writer does to one field of a receipt.
LEMMA SetTerminal ==
  ASSUME JournalTypes, NEW k \in Keys, NEW t \in Terminals, UNCHANGED bound,
         receipt' = [receipt EXCEPT ![k].terminal = t]
  PROVE  /\ Writes(k) /\ receipt'[k].held = receipt[k].held /\ receipt'[k].op = receipt[k].op
         /\ receipt'[k].source = receipt[k].source /\ receipt'[k].conv = receipt[k].conv
         /\ receipt'[k].plan = receipt[k].plan /\ receipt'[k].terminal = t
  BY DEF JournalTypes, ReceiptRecords, Writes

LEMMA CreateReceiptKeeps ==
  ASSUME MemoryInv, NEW a \in Callers, CreateReceipt(a)
  PROVE  MemoryInv' /\ JournalGrows
<1>1. a \in Actors /\ UNCHANGED <<bound, conv, graph, repaired, worker, epoch, workload>>
  BY DEF Actors, CreateReceipt, process
<1>2. PICK k \in Keys : k = Key(a)
  BY <1>1 DEF CreateReceipt, MemoryInv, Types, ActorTypes
<1>3. req[a] \in Requests /\ Source(a) \in Sources /\ ActorOf(a) /\ ReceiptOf(k)
  BY <1>1 DEF MemoryInv, Types, ActorTypes, ActorInv, ReceiptInv, Requests, Source
<1>4. Writes(k) /\ Fresh(receipt'[k], req[a])
  BY <1>1, <1>2, <1>3, CreatedReceipt DEF CreateReceipt, MemoryInv, Types, Op, Source
<1>5. Moves(a, "key") /\ req' = req /\ out' = out /\ started' = started
  BY <1>1, GotoMoves DEF CreateReceipt, MemoryInv, Types, Ats
<1>6. ~receipt[k].held /\ receipt[k].conv = 0 /\ receipt[k].terminal = "none"
  BY <1>2, <1>3 DEF CreateReceipt, ReceiptOf
<1>7. gate = {} /\ gate' = {a} /\ Op(a) \notin Forgets /\ at[a] = "gate"
      /\ \A p \in PredOf[Source(a)] : receipt[p].held
  BY DEF CreateReceipt, Forgets
<1>8. \A b \in Actors : at[b] \notin InFlight
  BY <1>7 DEF MemoryInv, ActorInv, ActorOf, GateOf
<1>9. Grows(receipt[k], receipt'[k])
  BY <1>6 DEF Grows
<1>10. ReceiptOf(k)'
  BY <1>1, <1>3, <1>4, <1>6 DEF ReceiptOf, Fresh
<1>11. Leaves(a)
  BY <1>4, <1>6, <1>8 DEF Leaves, Spares, MemoryInv, ActorInv, ActorOf, ForgetOf, Writes, Types, ActorTypes, Erasing
<1>12. ASSUME NEW c \in Convs, conv[c].status # "none"
       PROVE  conv[c].key # k /\ k \notin PredOf[conv[c].source]
  BY <1>6, <1>12 DEF MemoryInv, ConvInv
<1>13. ActorOf(a)'
  <2>1. GateOf(a)' /\ ForgetOf(a)' /\ SettleOf(a)'
    BY <1>5, <1>7 DEF Moves, Still, GateOf, ForgetOf, SettleOf, Erasing, Settles
  <2>2. ASSUME NEW p \in PredOf[Source(a)]
        PROVE  p # k /\ receipt'[p].held
    BY <1>3, <1>4, <1>6, <1>7, PredAssumption DEF Writes
  <2>3. IntakeOf(a)'
    BY <1>1, <1>2, <1>3, <1>4, <1>5, <1>7, <1>12, <2>2 DEF Moves, Still, IntakeOf, ActorOf, Key, Op, Source, InFlight
  <2> QED
    BY <2>1, <2>3 DEF ActorOf
<1>14. req'[a].key = k
  BY <1>2, <1>5 DEF Key
<1> QED
  BY <1>1, <1>4, <1>5, <1>9, <1>10, <1>11, <1>12, <1>13, <1>14, JournalStep DEF Erasing

LEMMA SaveKeeps ==
  ASSUME MemoryInv, NEW a \in Callers, Save(a)
  PROVE  MemoryInv' /\ JournalGrows
<1>1. a \in Actors /\ UNCHANGED <<bound, conv, graph, repaired, worker, epoch, workload>>
  BY DEF Actors, Save, process
<1>2. PICK k \in Keys : k = Key(a)
  BY <1>1 DEF Save, MemoryInv, Types, ActorTypes
<1>3. ActorOf(a) /\ at[a] = "save" /\ receipt[k] \in ReceiptRecords /\ started[a] \in 0..MaxConv /\ Source(a) \in Sources
  BY <1>1 DEF Save, MemoryInv, Types, ActorTypes, JournalTypes, ActorInv, Requests, Source
<1>4. Fresh(receipt[k], req[a]) /\ out[a] \in {"queued", "failed", "available"} /\ Op(a) \notin Forgets
  BY <1>2, <1>3 DEF ActorOf, IntakeOf, InFlight
<1> DEFINE t == IF out[a] = "queued" THEN "none" ELSE out[a]
<1>5. t \in Terminals /\ (t # "none" => t = out[a])
  BY <1>4 DEF Terminals
<1>6. receipt' = [receipt EXCEPT ![k].conv = started[a], ![k].terminal = t]
  BY <1>2 DEF Save
<1> HIDE DEF t
<1>7. /\ Writes(k) /\ receipt'[k].conv = started[a] /\ receipt'[k].terminal = t
      /\ receipt'[k].held = receipt[k].held /\ receipt'[k].op = receipt[k].op /\ receipt'[k].source = receipt[k].source
  BY <1>1, <1>3, <1>5, <1>6 DEF MemoryInv, Types, JournalTypes, ReceiptRecords, Writes
<1>8. Grows(receipt[k], receipt'[k])
  BY <1>4, <1>7 DEF Grows, Fresh
<1>9. ReceiptOf(k)'
  <2>1. ReceiptOf(k) BY DEF MemoryInv, ReceiptInv
  <2> QED BY <1>1, <1>2, <1>3, <1>4, <1>5, <1>7, <2>1 DEF ReceiptOf, Fresh, ActorOf, IntakeOf, Op, Forming, Forgets
<1>10. \A b \in Actors : b # a => at[b] \notin InFlight
  BY <1>1, <1>3 DEF MemoryInv, ActorInv, ActorOf, GateOf, InFlight
<1>11. Leaves(a)
  BY <1>4, <1>7, <1>10 DEF Leaves, Spares, MemoryInv, ActorInv, ActorOf, ForgetOf, Fresh, Op, Writes, Types, ActorTypes, Erasing
<1>12. \A c \in Convs : conv[c].status # "none" => k \notin PredOf[conv[c].source]
  BY <1>1, <1>2, <1>3 DEF MemoryInv, ConvInv, InFlight
<1>13. PICK l \in {"idle", "settle"} : Moves(a, l) /\ (l = "idle" => started'[a] = 0)
  <2>1. CASE Goto(a, "settle") /\ UNCHANGED answer
    BY <1>1, <1>3, <2>1, GotoMoves DEF MemoryInv, Types, Ats
  <2>2. CASE Done(a)
    BY <1>1, <2>2, DoneMoves DEF MemoryInv, Types
  <2> QED
    BY <2>1, <2>2 DEF Save
<1>14. ActorOf(a)'
  BY <1>13, CalmActor DEF Moves, Still
<1> QED
  BY <1>1, <1>7, <1>8, <1>9, <1>11, <1>12, <1>13, <1>14, JournalStep DEF Erasing, InFlight

LEMMA SettleRecordKeeps ==
  ASSUME MemoryInv, NEW a \in Actors, SettleRecord(a)
  PROVE  MemoryInv' /\ JournalGrows
<1>1. UNCHANGED <<bound, conv, graph, repaired, worker, epoch, gate, workload>> /\ at[a] = "record"
  BY DEF SettleRecord, process
<1>2. PICK k \in Keys : k = Key(a)
  BY <1>1 DEF MemoryInv, Types, ActorTypes
<1>3. ActorOf(a) /\ ReceiptOf(k) /\ receipt[k] \in ReceiptRecords
  BY DEF MemoryInv, Types, JournalTypes, ActorInv, ReceiptInv
<1>4. /\ receipt[k].conv # 0 /\ out[a] \in {"available", "failed"}
      /\ out[a] = "available" /\ receipt[k].op = "misrecorded" => k \in repaired
  BY <1>1, <1>2, <1>3 DEF ActorOf, SettleOf, Settles
<1> DEFINE t == IF receipt[k].terminal = "none" THEN out[a] ELSE receipt[k].terminal
<1>5. t \in Terminals /\ (t = receipt[k].terminal \/ (receipt[k].terminal = "none" /\ t = out[a]))
  BY <1>3, <1>4 DEF Terminals, ReceiptRecords
<1>6. receipt' = [receipt EXCEPT ![k].terminal = t]
  BY <1>2 DEF SettleRecord, Terminate, MemoryInv, Types, JournalTypes
<1> HIDE DEF t
<1>7. /\ Writes(k) /\ receipt'[k].held = receipt[k].held /\ receipt'[k].op = receipt[k].op
      /\ receipt'[k].source = receipt[k].source /\ receipt'[k].conv = receipt[k].conv
      /\ receipt'[k].plan = receipt[k].plan /\ receipt'[k].terminal = t
  BY <1>1, <1>5, <1>6, SetTerminal DEF MemoryInv, Types
<1>8. Grows(receipt[k], receipt'[k])
  BY <1>4, <1>5, <1>7 DEF Grows
<1>9. ReceiptOf(k)'
  BY <1>1, <1>3, <1>4, <1>5, <1>7 DEF ReceiptOf
<1>10. ASSUME NEW b \in Actors, b # a, at[b] \in InFlight \cup Erasing
       PROVE  Key(b) # k /\ Key(b) \in Keys
  <2>1. Key(b) \in Keys /\ ActorOf(b)
    BY <1>10 DEF MemoryInv, Types, ActorTypes, ActorInv, InFlight, Erasing
  <2> QED
    BY <1>3, <1>4, <1>10, <2>1 DEF ActorOf, IntakeOf, ForgetOf, Fresh, ReceiptOf, Forming, Forgets
<1>11. Leaves(a)
  <2>1. \A p \in Keys : receipt'[p].conv = receipt[p].conv
    BY <1>7 DEF Writes
  <2>2. \A b \in Actors : PredOf[Source(b)] \subseteq Keys
    BY PredAssumption DEF MemoryInv, Types, ActorTypes, Requests, Source
  <2> QED
    BY <1>1, <1>7, <1>10, <2>1, <2>2 DEF Leaves, Spares, Writes
<1>12. Moves(a, "idle") /\ started'[a] = 0
  BY <1>1, DoneMoves DEF SettleRecord, MemoryInv, Types
<1>13. ActorOf(a)'
  BY <1>12, CalmActor DEF Moves, Still
<1> QED
  BY <1>1, <1>7, <1>8, <1>9, <1>11, <1>12, <1>13, JournalStep DEF Erasing, InFlight

LEMMA AdmitForgetKeeps ==
  ASSUME MemoryInv, NEW a \in Callers, AdmitForget(a)
  PROVE  MemoryInv' /\ JournalGrows
<1>1. a \in Actors /\ UNCHANGED <<bound, conv, graph, repaired, worker, epoch, gate, workload>>
  BY DEF Actors, AdmitForget, process
<1>2. PICK k \in Keys : k = Key(a)
  BY <1>1 DEF AdmitForget, MemoryInv, Types, ActorTypes
<1>3. req[a] \in Requests /\ ActorOf(a) /\ ReceiptOf(k) /\ at[a] = "gate" /\ gate = {} /\ Op(a) \in Forgets
  BY <1>1 DEF AdmitForget, MemoryInv, Types, ActorTypes, ActorInv, ReceiptInv, Forgets
<1>4. CASE Done(a) /\ UNCHANGED receipt
  <2>1. JournalGrows
    BY <1>1, <1>4 DEF JournalGrows, Grows, MemoryInv, Types, JournalTypes
  <2>2. UNCHANGED <<durable, gate>>
    BY <1>1, <1>4 DEF durable, AdmitForget
  <2> QED
    BY <1>1, <1>4, <2>1, <2>2, DoneMoves, CalmStep DEF MemoryInv, Types
<1>5. CASE ~receipt[k].held /\ Goto(a, "scan") /\ UNCHANGED answer
           /\ receipt' = [receipt EXCEPT ![k] = [NoReceipt EXCEPT !.held = TRUE, !.op = Op(a), !.source = Source(a)]]
  <2>1. Writes(k) /\ Fresh(receipt'[k], req[a])
    BY <1>1, <1>2, <1>3, <1>5, CreatedReceipt DEF MemoryInv, Types, Op, Source
  <2>2. Moves(a, "scan") /\ req' = req /\ out' = out /\ started' = started
    BY <1>1, <1>3, <1>5, GotoMoves DEF MemoryInv, Types, Ats
  <2>3. \A b \in Actors : at[b] \notin InFlight
    BY <1>3 DEF MemoryInv, ActorInv, ActorOf, GateOf
  <2>4. receipt[k].conv = 0 /\ receipt[k].terminal = "none"
    BY <1>3, <1>5 DEF ReceiptOf
  <2>5. Grows(receipt[k], receipt'[k])
    BY <1>5, <2>4 DEF Grows
  <2>6. ReceiptOf(k)'
    BY <1>1, <1>3, <1>5, <2>1 DEF ReceiptOf, Fresh
  <2>7. \A b \in Actors : b # a /\ at[b] \in Erasing => Key(b) # k /\ Key(b) \in Keys
    BY <1>5 DEF MemoryInv, ActorInv, ActorOf, ForgetOf, Types, ActorTypes, Erasing
  <2>8. Leaves(a)
    BY <2>1, <2>3, <2>7 DEF Leaves, Spares, Writes
  <2>9. ActorOf(a)'
    BY <1>2, <1>3, <2>1, <2>2 DEF Moves, Still, ActorOf, GateOf, IntakeOf, ForgetOf, SettleOf, Fresh, Key, Op, InFlight, Erasing, Settles
  <2>10. req'[a].key = k
    BY <1>2, <2>2 DEF Key
  <2>11. receipt'[k].conv = receipt[k].conv
    BY <2>1, <2>4 DEF Fresh
  <2> QED
    BY <1>1, <2>1, <2>2, <2>5, <2>6, <2>7, <2>8, <2>9, <2>10, <2>11, JournalStep DEF InFlight
<1> QED
  BY <1>2, <1>4, <1>5 DEF AdmitForget

\* The receipt of a forget under way belongs to it.
LEMMA ForgetOwns ==
  ASSUME MemoryInv, NEW a \in Callers, at[a] \in Erasing, NEW k \in Keys, k = Key(a), Writes(k),
         receipt'[k].conv = receipt[k].conv, UNCHANGED <<conv, gate>>
  PROVE  Leaves(a) /\ a \in Actors
<1>1. a \in Actors
  BY DEF Actors
<1>2. ASSUME NEW b \in Actors, b # a, at[b] \in InFlight \cup Erasing
      PROVE  Key(b) # k /\ Key(b) \in Keys
  <2>1. Key(b) \in Keys /\ ActorOf(b) /\ ActorOf(a)
    BY <1>1, <1>2 DEF MemoryInv, Types, ActorTypes, ActorInv, InFlight, Erasing
  <2>2. CASE at[b] \in Erasing
    BY <1>1, <1>2, <2>1, <2>2 DEF MemoryInv, ActorInv
  <2>3. CASE at[b] \in InFlight
    BY <2>1, <2>3 DEF ActorOf, IntakeOf, ForgetOf, Fresh, Op
  <2> QED
    BY <1>2, <2>2, <2>3
<1>3. \A p \in Keys : receipt'[p].conv = receipt[p].conv
  BY DEF Writes
<1>4. \A b \in Actors : PredOf[Source(b)] \subseteq Keys
  BY PredAssumption DEF MemoryInv, Types, ActorTypes, Requests, Source
<1> QED
  BY <1>1, <1>2, <1>3, <1>4 DEF Leaves, Spares, Writes

LEMMA ScanSourceKeeps ==
  ASSUME MemoryInv, NEW a \in Callers, ScanSource(a)
  PROVE  MemoryInv' /\ JournalGrows
<1>1. a \in Actors /\ UNCHANGED <<bound, conv, graph, repaired, worker, epoch, gate, workload, req, started>> /\ at[a] = "scan"
  BY DEF Actors, ScanSource, process
<1>2. PICK k \in Keys : k = Key(a)
  BY <1>1 DEF MemoryInv, Types, ActorTypes
<1>3. ActorOf(a) /\ ReceiptOf(k) /\ receipt[k] \in ReceiptRecords
  BY <1>1 DEF MemoryInv, Types, JournalTypes, ActorInv, ReceiptInv
<1>4. receipt[k].held /\ receipt[k].op = Op(a) /\ receipt[k].terminal = "none" /\ Op(a) \in Forgets
  BY <1>1, <1>2, <1>3 DEF ActorOf, ForgetOf, Erasing
<1>5. CASE out' = [out EXCEPT ![a] = "failed"] /\ Goto(a, "report") /\ UNCHANGED <<receipt, todo>>
  <2>1. Moves(a, "report") /\ out'[a] = "failed"
    BY <1>1, <1>5, OutMoves DEF MemoryInv, Types, Ats, Outs
  <2>2. ActorOf(a)'
    BY <1>1, <1>2, <1>3, <1>4, <1>5, <2>1 DEF Moves, Still, ActorOf, GateOf, IntakeOf, ForgetOf, SettleOf, Key, Op, InFlight, Erasing, Settles
  <2>3. JournalGrows
    BY <1>1, <1>5 DEF JournalGrows, Grows, MemoryInv, Types, JournalTypes
  <2> QED
    BY <1>1, <1>5, <2>1, <2>2, <2>3, LeftAlone, QuietStep DEF InFlight, Erasing
<1> DEFINE o == IF Op(a) = "forget" /\ Unfinished(Source(a)) THEN "partial" ELSE "completed"
           S == ConvsOf(Source(a))
           T == {c \in S : graph[c] \in Live}
<1>6. CASE out' = [out EXCEPT ![a] = o] /\ todo' = [todo EXCEPT ![a] = T] /\ Goto(a, "erase")
           /\ receipt' = [receipt EXCEPT ![k].plan = S]
  <2>1. S \subseteq Convs
    BY ConvsAreNat DEF ConvsOf, MemoryInv, Types, JournalTypes, ReceiptRecords
  <2>2. o \in {"partial", "completed"} /\ (o = "completed" /\ Op(a) = "forget" => \A c \in S : conv[c].status = "completed")
    BY DEF Unfinished
  <2>3. T \subseteq S /\ \A c \in S : graph[c] \in Live => c \in T
    OBVIOUS
  <2>4. \A c \in T : graph[c] # "nothing"
    BY DEF Live
  <2> HIDE DEF o, S, T
  <2>5. /\ Writes(k) /\ receipt'[k].plan = S /\ receipt'[k].conv = receipt[k].conv /\ receipt'[k].held = receipt[k].held
        /\ receipt'[k].op = receipt[k].op /\ receipt'[k].source = receipt[k].source /\ receipt'[k].terminal = receipt[k].terminal
    BY <1>1, <1>3, <1>6, <2>1 DEF MemoryInv, Types, JournalTypes, ReceiptRecords, Writes
  <2>6. Moves(a, "erase") /\ out'[a] = o /\ todo'[a] = T
    BY <1>1, <1>6, <2>1, <2>2, <2>3 DEF Moves, Still, Goto, MemoryInv, Types, ActorTypes, Ats, Outs, Key, Op
  <2>7. ActorOf(a)'
    BY <1>1, <1>2, <1>4, <2>2, <2>3, <2>4, <2>5, <2>6
       DEF Moves, Still, ActorOf, GateOf, IntakeOf, ForgetOf, SettleOf, Key, Op, InFlight, Erasing, Settles
  <2>8. Grows(receipt[k], receipt'[k])
    BY <1>4, <2>5 DEF Grows
  <2>9. ReceiptOf(k)'
    BY <1>1, <1>3, <1>4, <2>5 DEF ReceiptOf
  <2>10. Leaves(a)
    BY <1>1, <1>2, <2>5, ForgetOwns DEF Erasing
  <2>11. \A b \in Actors : b # a /\ at[b] \in Erasing => Key(b) # req'[a].key
    BY <1>1 DEF MemoryInv, ActorInv, Erasing, Key
  <2> QED
    BY <1>1, <2>5, <2>6, <2>7, <2>8, <2>9, <2>10, <2>11, JournalStep DEF InFlight
<1> QED
  BY <1>2, <1>5, <1>6 DEF ScanSource

LEMMA SettleForgetKeeps ==
  ASSUME MemoryInv, NEW a \in Callers, SettleForget(a)
  PROVE  MemoryInv' /\ JournalGrows
<1>1. a \in Actors /\ UNCHANGED <<bound, conv, graph, repaired, worker, epoch, gate, workload>> /\ at[a] = "report"
  BY DEF Actors, SettleForget, process
<1>2. PICK k \in Keys : k = Key(a)
  BY <1>1 DEF MemoryInv, Types, ActorTypes
<1>3. ActorOf(a) /\ ReceiptOf(k)
  BY <1>1 DEF MemoryInv, ActorInv, ReceiptInv
<1>4. /\ receipt[k].held /\ receipt[k].op = Op(a) /\ receipt[k].terminal = "none" /\ Op(a) \in Forgets
      /\ out[a] \in {"completed", "partial", "blocked", "failed"}
      /\ out[a] = "completed" /\ Op(a) = "forget" =>
           \A c \in receipt[k].plan : conv[c].status = "completed" /\ graph[c] \notin Live
  BY <1>1, <1>2, <1>3 DEF ActorOf, ForgetOf, Erasing
<1>5. PICK t \in {"erased", "failed", "none"} : receipt' = [receipt EXCEPT ![k].terminal = t] /\ (t = "erased" => out[a] = "completed")
  <2>1. PICK o \in IF out[a] = "completed" THEN {"completed", "partial"} ELSE {out[a]} :
          receipt' = [receipt EXCEPT ![k].terminal =
                        CASE o = "completed" -> "erased" [] o \in {"blocked", "failed"} -> "failed" [] OTHER -> "none"]
    BY <1>2 DEF SettleForget
  <2> DEFINE t == CASE o = "completed" -> "erased" [] o \in {"blocked", "failed"} -> "failed" [] OTHER -> "none"
  <2>2. t \in {"erased", "failed", "none"} /\ (t = "erased" => out[a] = "completed")
    BY <2>1
  <2>3. receipt' = [receipt EXCEPT ![k].terminal = t]
    BY <2>1
  <2> HIDE DEF t
  <2> QED
    BY <2>2, <2>3
<1>6. /\ Writes(k) /\ receipt'[k].held = receipt[k].held /\ receipt'[k].op = receipt[k].op
      /\ receipt'[k].source = receipt[k].source /\ receipt'[k].conv = receipt[k].conv
      /\ receipt'[k].plan = receipt[k].plan /\ receipt'[k].terminal = t
  BY <1>1, <1>5, SetTerminal DEF MemoryInv, Types, Terminals
<1>7. Grows(receipt[k], receipt'[k])
  BY <1>4, <1>6 DEF Grows
<1>8. ReceiptOf(k)'
  BY <1>1, <1>3, <1>4, <1>5, <1>6 DEF ReceiptOf, Forgets
<1>9. Moves(a, "idle") /\ started'[a] = 0
  BY <1>1, DoneMoves DEF SettleForget, MemoryInv, Types
<1>10. ActorOf(a)'
  BY <1>9, CalmActor DEF Moves, Still
<1>11. Leaves(a)
  BY <1>1, <1>2, <1>6, ForgetOwns DEF Erasing
<1> QED
  BY <1>1, <1>6, <1>7, <1>8, <1>9, <1>10, <1>11, JournalStep DEF Erasing, InFlight

-----------------------------------------------------------------------------
(* The queue and the worker.                                               *)

\* The queue has no gaps, so its next number is free.
LEMMA NextIsFree ==
  ASSUME MemoryInv, NextConv \in Convs
  PROVE  \A c \in Convs : conv[c].status # "none" <=> c < NextConv
<1>1. PICK n \in 0..MaxConv : \A c \in Convs : conv[c].status # "none" <=> c <= n
  BY DEF MemoryInv, ConvInv
<1>2. {c \in Convs : conv[c].status # "none"} = 1..n
  BY <1>1, ConvsAreNat DEF Convs
<1>3. Cardinality(1..n) = n
  BY <1>1, ConvsAreNat, FS_Interval
<1>4. NextConv = n + 1
  BY <1>2, <1>3 DEF NextConv
<1> QED
  BY <1>1, <1>4, ConvsAreNat

LEMMA LeastNatural ==
  ASSUME NEW S \in SUBSET Nat, S # {}
  PROVE  \E m \in S : \A n \in S : m <= n
<1>1. PICK m \in S : \A n \in S : ~ (<<n, m>> \in OpToRel(<, Nat))
  BY WFMin, NatLessThanWellFounded
<1>2. \A n \in S : ~ (n < m)
  BY <1>1 DEF OpToRel
<1> QED
  BY <1>2

\* The worker takes the first conversation that is not over.
LEMMA FirstQueued ==
  ASSUME MemoryInv, Queued # {}, NEW c, c = CHOOSE x \in Queued : \A y \in Queued : x <= y
  PROVE  c \in Convs /\ conv[c].status \in Pending /\ Ended(c)
<1>1. Queued \in SUBSET Nat
  BY ConvsAreNat DEF Queued
<1>2. c \in Queued /\ \A y \in Queued : c <= y
  BY <1>1, LeastNatural
<1>3. c \in Convs /\ conv[c].status \in Pending
  BY <1>2 DEF Queued
<1>4. ASSUME NEW d \in Convs, d < c
      PROVE  conv[d].status \in Over
  <2>1. d \notin Queued
    BY <1>2, <1>3, <1>4, ConvsAreNat
  <2>2. conv[d].status # "none"
    <3>1. PICK n \in 0..MaxConv : \A e \in Convs : conv[e].status # "none" <=> e <= n
      BY DEF MemoryInv, ConvInv
    <3>2. c <= n
      BY <1>3, <3>1 DEF Pending
    <3> QED
      BY <1>3, <1>4, <3>1, <3>2, ConvsAreNat
  <2>3. conv[d].status \in Statuses
    BY DEF MemoryInv, Types, QueueTypes, ConvRecords
  <2> QED
    BY <2>1, <2>2, <2>3 DEF Queued, Statuses, Over
<1> QED
  BY <1>3, <1>4 DEF Ended

\* A step of the worker: no request moves, and no conversation is added.
LEMMA WorkerStep ==
  ASSUME MemoryInv, UNCHANGED <<receipt, bound, repaired, gate, at, req, out, started, todo, workload>>,
         QueueGrows, WorkerTypes', WorkerInv', \A c \in Convs : conv'[c].status # "none" => conv[c].status # "none"
  PROVE  MemoryInv'
<1>1. Types' /\ JournalGrows
  BY DEF MemoryInv, Types, JournalTypes, ActorTypes, QueueGrows, JournalGrows, Grows, Key, Op
<1>2. \A b \in Actors : Still(b) /\ Spares(b)
  BY DEF Still, Spares
<1>3. \A b \in Actors : ActorOf(b)'
  BY <1>1, <1>2, OthersKeep DEF MemoryInv
<1>4. ActorInv'
  BY <1>3 DEF ActorInv, MemoryInv, Key
<1>5. ReceiptInv'
  <2> SUFFICES ASSUME NEW k \in Keys PROVE ReceiptOf(k)'
    BY DEF ReceiptInv
  <2>1. ReceiptOf(k) /\ receipt[k].conv \in 0..MaxConv /\ receipt[k].plan \subseteq Convs
    BY DEF MemoryInv, ReceiptInv, Types, JournalTypes, ReceiptRecords
  <2>2. receipt[k].conv # 0 => conv'[receipt[k].conv].status # "none"
    BY <2>1, ConvsAreNat DEF ReceiptOf, QueueGrows
  <2>3. ASSUME NEW c \in Convs, conv[c].status = "completed", graph[c] \notin Live
        PROVE  conv'[c].status = "completed" /\ graph'[c] \notin Live
    BY <2>3 DEF QueueGrows, Over
  <2> QED
    BY <2>1, <2>2, <2>3 DEF ReceiptOf
<1>6. ConvInv'
  <2>1. \A c \in Convs : conv'[c].status # "none" <=> conv[c].status # "none"
    BY DEF QueueGrows
  <2>2. \A c \in Convs : conv[c].status # "none" => conv'[c].key = conv[c].key /\ conv'[c].source = conv[c].source
    BY DEF QueueGrows
  <2>3. OneConversationPerKey'
    BY <2>1, <2>2 DEF MemoryInv, ConvInv, OneConversationPerKey
  <2>4. \A b \in Actors : Key(b)' = Key(b)
    BY DEF Key
  <2> QED
    BY <2>1, <2>2, <2>3, <2>4 DEF MemoryInv, ConvInv
<1> QED
  BY <1>1, <1>4, <1>5, <1>6 DEF MemoryInv

\* The conversation c gets a new status; those that are over are not touched.
LEMMA StatusGrows ==
  ASSUME QueueTypes, NEW c \in Convs, NEW s \in Statuses \ {"none"}, conv[c].status \in Pending, UNCHANGED graph,
         NEW t \in Nat, conv' = [conv EXCEPT ![c].status = s, ![c].tries = t] \/ SetStatus(c, s)
  PROVE  /\ QueueGrows /\ conv'[c].status = s
         /\ \A d \in Convs : d # c => conv'[d] = conv[d]
<1>1. /\ conv' \in [Convs -> ConvRecords] /\ conv'[c].status = s
      /\ conv'[c].key = conv[c].key /\ conv'[c].source = conv[c].source
      /\ \A d \in Convs : d # c => conv'[d] = conv[d]
  BY DEF QueueTypes, ConvRecords, SetStatus
<1>2. conv[c].status # "none" /\ conv[c].status \notin Over
  BY DEF Pending, Over
<1> QED
  BY <1>1, <1>2 DEF QueueGrows, QueueTypes

LEMMA AdmitKeeps ==
  ASSUME MemoryInv, Admit
  PROVE  MemoryInv'
<1>1. UNCHANGED <<receipt, bound, epoch, graph, repaired, gate, at, req, out, started, todo, workload>>
  BY DEF Admit, process, locals, answer
<1>2. PICK c : c = CHOOSE x \in Queued : \A y \in Queued : x <= y
  OBVIOUS
<1>3. c \in Convs /\ conv[c].status \in Pending /\ Ended(c)
  BY <1>2, FirstQueued DEF Admit
<1>4. \/ SetStatus(c, "cancelled") /\ worker' = [conv |-> c, epoch |-> epoch, stage |-> "ended"]
      \/ conv' = conv /\ worker' = [conv |-> c, epoch |-> epoch, stage |-> "check"]
  BY <1>2 DEF Admit
<1>5. WorkerTypes'
  BY <1>1, <1>3, <1>4, ConvsAreNat DEF MemoryInv, Types, WorkerTypes
<1>6. CASE SetStatus(c, "cancelled") /\ worker' = [conv |-> c, epoch |-> epoch, stage |-> "ended"]
  <2>1. QueueGrows /\ conv'[c].status = "cancelled" /\ \A d \in Convs : d # c => conv'[d] = conv[d]
    BY <1>1, <1>3, <1>6, StatusGrows DEF MemoryInv, Types, Statuses
  <2>2. \A d \in Convs : conv[d].status \in Over \/ d = c => conv'[d].status \in Over
    BY <2>1 DEF Over
  <2>3. WorkerInv'
    BY <1>1, <1>3, <1>6, <2>1, <2>2 DEF MemoryInv, WorkerInv, Ended
  <2> QED
    BY <1>1, <1>3, <1>5, <2>1, <2>3, WorkerStep DEF Pending
<1>7. CASE conv' = conv /\ worker' = [conv |-> c, epoch |-> epoch, stage |-> "check"]
  <2>1. QueueGrows
    BY <1>1, <1>7 DEF QueueGrows, MemoryInv, Types, QueueTypes
  <2>2. WorkerInv'
    BY <1>1, <1>3, <1>7 DEF MemoryInv, WorkerInv, Ended, Pending
  <2> QED
    BY <1>1, <1>5, <1>7, <2>1, <2>2, WorkerStep
<1> QED
  BY <1>4, <1>6, <1>7

LEMMA PassKeeps ==
  ASSUME MemoryInv, BeginPass \/ EndPass
  PROVE  MemoryInv' /\ QueueGrows
<1>1. UNCHANGED <<receipt, bound, epoch, graph, repaired, gate, at, req, out, started, todo, workload>>
  BY DEF BeginPass, EndPass, process, locals, answer
<1>2. PICK c : c = worker.conv
  OBVIOUS
<1>3. c \in Convs /\ conv[c].status \in Pending /\ Ended(c) /\ worker.stage \in {"check", "running"} /\ conv[c] \in ConvRecords
  BY <1>2 DEF BeginPass, EndPass, MemoryInv, Types, WorkerTypes, WorkerInv, Pending, QueueTypes
<1>4. PICK s \in {"cancelled", "working", "completed", "failed"} :
        /\ \E t \in Nat : conv' = [conv EXCEPT ![c].status = s, ![c].tries = t] \/ SetStatus(c, s)
        /\ \E g \in {"running", "ended"} : worker' = [worker EXCEPT !.stage = g] /\ (g = "running" => s = "working")
  <2>1. conv[c].tries + 1 \in Nat /\ 0 \in Nat
    BY <1>3 DEF ConvRecords
  <2>2. EndPass => conv' = [conv EXCEPT ![c].status = "failed", ![c].tries = conv[c].tries + 1]
                   \/ SetStatus(c, "completed") \/ SetStatus(c, "cancelled")
    BY <1>2, <1>3 DEF EndPass, MemoryInv, Types, QueueTypes, ConvRecords
  <2>3. EndPass => worker' = [worker EXCEPT !.stage = "ended"]
    BY DEF EndPass
  <2>4. BeginPass => \/ SetStatus(c, "cancelled") /\ worker' = [worker EXCEPT !.stage = "ended"]
                     \/ SetStatus(c, "working") /\ worker' = [worker EXCEPT !.stage = "running"]
    BY <1>2 DEF BeginPass
  <2> QED
    BY <2>1, <2>2, <2>3, <2>4
<1>5. PICK g \in {"running", "ended"} : worker' = [worker EXCEPT !.stage = g] /\ (g = "running" => s = "working")
  BY <1>4
<1>6. QueueGrows /\ conv'[c].status = s /\ \A d \in Convs : d # c => conv'[d] = conv[d]
  BY <1>1, <1>3, <1>4, StatusGrows DEF MemoryInv, Types, Statuses, Pending
<1>7. worker'.conv = c /\ worker'.stage = g /\ WorkerTypes'
  BY <1>1, <1>2, <1>3, <1>5 DEF MemoryInv, Types, WorkerTypes
<1>8. \A d \in Convs : conv[d].status \in Over => conv'[d].status \in Over
  BY <1>3, <1>6 DEF Over, Pending
<1>9. \A d \in Convs : conv[d].status # "none" => conv'[d].status # "none"
  BY <1>6 DEF QueueGrows
<1>10. WorkerInv'
  BY <1>1, <1>3, <1>5, <1>6, <1>7, <1>8, <1>9 DEF MemoryInv, WorkerInv, Ended
<1> QED
  BY <1>1, <1>3, <1>6, <1>7, <1>10, WorkerStep DEF Pending

LEMMA WriteMemoryKeeps ==
  ASSUME MemoryInv, WriteMemory
  PROVE  MemoryInv'
<1>1. UNCHANGED <<receipt, bound, conv, epoch, repaired, gate, at, req, out, started, todo, worker, workload>>
  BY DEF WriteMemory, process, locals, answer
<1>2. worker.conv \in Convs /\ conv[worker.conv].status = "working" /\ Ended(worker.conv)
  BY DEF WriteMemory, MemoryInv, Types, WorkerTypes, WorkerInv
<1>3. PICK g \in Live : graph' = [graph EXCEPT ![worker.conv] = g]
  BY DEF WriteMemory, Live
<1>4. /\ graph' \in [Convs -> Live \cup {"nothing", "purged"}]
      /\ \A c \in Convs : graph'[c] = IF c = worker.conv THEN g ELSE graph[c]
  BY <1>2, <1>3 DEF MemoryInv, Types, QueueTypes
<1>5. QueueGrows
  BY <1>1, <1>2, <1>4 DEF QueueGrows, MemoryInv, Types, QueueTypes, Live
<1>6. WorkerTypes'
  BY <1>1 DEF MemoryInv, Types, WorkerTypes
<1>7. WorkerInv'
  BY <1>1, <1>2, <1>4 DEF MemoryInv, WorkerInv, Ended
<1> QED
  BY <1>1, <1>5, <1>6, <1>7, WorkerStep

LEMMA StartFormationKeeps ==
  ASSUME MemoryInv, NEW a \in Callers, StartFormation(a)
  PROVE  MemoryInv'
<1>1. a \in Actors /\ UNCHANGED <<receipt, bound, epoch, graph, repaired, gate, req, todo, worker, workload>>
  BY DEF Actors, StartFormation, process
<1>2. PICK k \in Keys : k = Key(a)
  BY <1>1 DEF StartFormation, MemoryInv, Types, ActorTypes
<1>3. PICK n \in Convs : n = NextConv
  BY DEF StartFormation
<1>4. \A c \in Convs : conv[c].status # "none" <=> c < n
  BY <1>3, NextIsFree
<1>5. ActorOf(a) /\ at[a] = "start" /\ Op(a) \in Forming /\ Source(a) \in Sources
  BY <1>1 DEF StartFormation, MemoryInv, Types, ActorTypes, ActorInv, Requests, Source, Forming
<1> DEFINE v == [status |-> "submitted", key |-> k, source |-> Source(a), tries |-> 0]
<1>6. conv' = [conv EXCEPT ![n] = v]
  BY <1>2, <1>3 DEF StartFormation
<1>7. v \in ConvRecords /\ v.status = "submitted" /\ v.key = k /\ v.source = Source(a)
  BY <1>5 DEF ConvRecords, Statuses, Pending
<1> HIDE DEF v
<1>8. conv' \in [Convs -> ConvRecords] /\ \A c \in Convs : conv'[c] = IF c = n THEN v ELSE conv[c]
  BY <1>6, <1>7 DEF MemoryInv, Types, QueueTypes
<1>9. conv[n].status = "none"
  BY <1>4, ConvsAreNat
<1>10. QueueGrows
  BY <1>1, <1>8, <1>9 DEF QueueGrows, MemoryInv, Types, QueueTypes, Over
<1>11. JournalGrows
  BY <1>1 DEF JournalGrows, Grows, MemoryInv, Types, JournalTypes
<1>12. Moves(a, "save") /\ out'[a] = "queued" /\ started'[a] = n
  <2>1. at' = [at EXCEPT ![a] = "save"] /\ out' = [out EXCEPT ![a] = "queued"] /\ started' = [started EXCEPT ![a] = n]
    BY <1>3 DEF StartFormation, Goto
  <2>2. n \in 0..MaxConv
    BY <1>3, ConvsAreNat
  <2> QED
    BY <1>1, <1>5, <2>1, <2>2 DEF Moves, Still, MemoryInv, Types, ActorTypes, Ats, Outs, Key, Op
<1>13. Types'
  BY <1>1, <1>10, <1>11, <1>12 DEF Types, MemoryInv, WorkerTypes, QueueGrows, JournalGrows, Moves
<1>14. \A b \in Actors : b # a => at[b] \notin InFlight
  BY <1>1, <1>5 DEF MemoryInv, ActorInv, ActorOf, GateOf, InFlight
<1>15. /\ \A p \in PredOf[Source(a)] : p # k /\ receipt[p].held /\ p \in Keys
       /\ \A c \in Convs : conv[c].status # "none" => conv[c].key # k
       /\ receipt[k].held /\ receipt[k].op \in Forming /\ gate = {a}
  BY <1>2, <1>5, PredAssumption DEF ActorOf, IntakeOf, GateOf, InFlight, Fresh, Op
<1>16. ASSUME NEW p \in PredOf[Source(a)]
       PROVE  receipt[p].conv < n
  <2>1. receipt[p].conv \in 0..MaxConv /\ ReceiptOf(p)
    BY <1>15 DEF MemoryInv, ReceiptInv, Types, JournalTypes, ReceiptRecords
  <2> QED
    BY <1>4, <2>1, ConvsAreNat DEF ReceiptOf
<1>17. ActorOf(a)'
  <2>1. GateOf(a)' /\ ForgetOf(a)' /\ SettleOf(a)'
    BY <1>1, <1>12, <1>15 DEF Moves, GateOf, ForgetOf, SettleOf, Erasing, Settles
  <2>2. conv'[n].status # "none"
    BY <1>7, <1>8
  <2>3. IntakeOf(a)'
    BY <1>1, <1>5, <1>12, <1>16, <2>2 DEF Moves, IntakeOf, ActorOf, Key, Op, Source, InFlight
  <2> QED
    BY <2>1, <2>3 DEF ActorOf
<1>18. ActorInv'
  <2>1. \A b \in Actors : b # a => ActorOf(b)'
    BY <1>1, <1>10, <1>11, <1>12, <1>14, OthersKeep DEF MemoryInv, Moves, Spares
  <2>2. \A b \in Actors : at'[b] \in Erasing => at[b] \in Erasing
    BY <1>12 DEF Moves, Still, Erasing
  <2> QED
    BY <1>1, <1>17, <2>1, <2>2 DEF ActorInv, MemoryInv, Key
<1>19. ReceiptInv'
  <2> SUFFICES ASSUME NEW j \in Keys PROVE ReceiptOf(j)'
    BY DEF ReceiptInv
  <2>1. ReceiptOf(j) /\ receipt[j].conv \in 0..MaxConv /\ receipt[j].plan \subseteq Convs
    BY DEF MemoryInv, ReceiptInv, Types, JournalTypes, ReceiptRecords
  <2>2. receipt[j].conv # 0 => conv'[receipt[j].conv].status # "none"
    BY <1>10, <2>1, ConvsAreNat DEF ReceiptOf, QueueGrows
  <2>3. \A c \in Convs : conv[c].status = "completed" => conv'[c].status = "completed"
    BY <1>10 DEF QueueGrows, Over
  <2> QED
    BY <1>1, <2>1, <2>2, <2>3 DEF ReceiptOf
<1>20. ConvInv'
  <2>1. \A c \in Convs : conv'[c].status # "none" <=> c <= n
    BY <1>4, <1>7, <1>8, ConvsAreNat
  <2>2. n \in 0..MaxConv
    BY ConvsAreNat
  <2>3. OneConversationPerKey'
    BY <1>4, <1>7, <1>8, <1>15 DEF MemoryInv, ConvInv, OneConversationPerKey
  <2>4. \A b \in Actors : Key(b)' = Key(b) /\ (at'[b] \in InFlight => at[b] \in InFlight)
    BY <1>1, <1>5, <1>12 DEF Moves, Still, Key, InFlight
  <2>5. ASSUME NEW c \in Convs, conv'[c].status # "none"
        PROVE  /\ conv'[c].key \in Keys /\ receipt[conv'[c].key].held
               /\ \A p \in PredOf[conv'[c].source] :
                    /\ receipt[p].held /\ receipt[p].conv < c
                    /\ \A b \in Actors : at'[b] \in InFlight => Key(b)' # p
    <3>1. CASE c = n
      BY <1>2, <1>7, <1>8, <1>14, <1>15, <1>16, <2>4, <3>1
    <3>2. CASE c # n
      BY <1>8, <2>4, <2>5, <3>2 DEF MemoryInv, ConvInv
    <3> QED
      BY <3>1, <3>2
  <2>6. \E m \in 0..MaxConv : \A c \in Convs : conv'[c].status # "none" <=> c <= m
    BY <2>1, <2>2
  <2> QED
    BY <1>1, <2>3, <2>5, <2>6 DEF ConvInv
<1>21. WorkerInv'
  <2>1. \A d \in Convs : conv[d].status \in Over => conv'[d].status \in Over
    BY <1>10 DEF QueueGrows
  <2>2. \A d \in Convs : conv[d].status # "none" => conv'[d] = conv[d]
    BY <1>8, <1>9
  <2>3. worker.stage # "idle" => worker.conv \in Convs
    BY DEF MemoryInv, Types, WorkerTypes
  <2> QED
    BY <1>1, <2>1, <2>2, <2>3 DEF MemoryInv, WorkerInv, Ended
<1> QED
  BY <1>13, <1>18, <1>19, <1>20, <1>21 DEF MemoryInv

-----------------------------------------------------------------------------
(* The process, and the theorems.                                          *)

\* Every actor is idle.
LEMMA IdleActors ==
  ASSUME at = [a \in Actors |-> "idle"], req = [a \in Actors |-> NoRequest], out = [a \in Actors |-> "none"],
         started = [a \in Actors |-> 0], todo = [a \in Actors |-> {}], workload \in Workloads
  PROVE  ActorTypes /\ ActorInv
<1>1. workload \subseteq [op : Ops, key : Keys, source : Sources]
  BY WorkloadsAssumption
<1>2. NoRequest \in Requests /\ NoRequest.op = "read" /\ 0 \in 0..MaxConv
  BY NoneAreTyped, ConvsAreNat DEF NoRequest
<1>3. ActorTypes
  BY <1>1, <1>2 DEF ActorTypes, Ats, Outs, Key, Op
<1>4. ActorInv
  BY DEF ActorInv, ActorOf, GateOf, IntakeOf, ForgetOf, SettleOf, InFlight, Erasing, Settles
<1> QED
  BY <1>3, <1>4

LEMMA InitMemoryInv ==
  ASSUME Init
  PROVE  MemoryInv
<1>1. ActorTypes /\ ActorInv
  BY IdleActors DEF Init
<1>2. JournalTypes /\ QueueTypes /\ WorkerTypes
  BY NoneAreTyped, ConvsAreNat DEF Init, JournalTypes, QueueTypes, WorkerTypes, NoPass
<1>3. ReceiptInv
  BY DEF Init, ReceiptInv, ReceiptOf, NoReceipt
<1>4. \A c \in Convs : conv[c].status = "none" /\ graph[c] = "nothing"
  BY DEF Init, NoConv
<1>5. ConvInv
  <2>1. \A c \in Convs : ~(c <= 0)
    BY ConvsAreNat
  <2>2. 0 \in 0..MaxConv
    BY ConvsAreNat
  <2> QED
    BY <1>4, <2>1, <2>2 DEF ConvInv, OneConversationPerKey
<1>6. WorkerInv
  BY <1>4 DEF Init, WorkerInv, NoPass
<1> QED
  BY <1>1, <1>2, <1>3, <1>5, <1>6 DEF MemoryInv, Types

LEMMA CrashKeeps ==
  ASSUME MemoryInv, Crash
  PROVE  MemoryInv'
<1>1. /\ UNCHANGED <<receipt, bound, conv, graph, repaired, epoch, workload>> /\ worker' = NoPass
      /\ at' = [a \in Actors |-> "idle"] /\ req' = [a \in Actors |-> NoRequest] /\ out' = [a \in Actors |-> "none"]
      /\ started' = [a \in Actors |-> 0] /\ todo' = [a \in Actors |-> {}]
  BY DEF Crash, durable
<1>2. NoRequest \in Requests /\ NoRequest.op = "read" /\ 0 \in 0..MaxConv
  BY NoneAreTyped, ConvsAreNat DEF NoRequest
<1>3. ActorTypes'
  BY <1>1, <1>2 DEF MemoryInv, Types, ActorTypes, Ats, Outs, Key, Op
<1>4. ActorInv'
  BY <1>1 DEF ActorInv, ActorOf, GateOf, IntakeOf, ForgetOf, SettleOf, InFlight, Erasing, Settles
<1>5. JournalTypes' /\ QueueTypes' /\ WorkerTypes'
  BY <1>1, ConvsAreNat DEF MemoryInv, Types, JournalTypes, QueueTypes, WorkerTypes, NoPass
<1>6. ReceiptInv' /\ WorkerInv'
  BY <1>1 DEF MemoryInv, ReceiptInv, ReceiptOf, WorkerInv, Ended, NoPass
<1>7. ConvInv'
  <2>1. \A a \in Actors : at'[a] \notin InFlight
    BY <1>1 DEF InFlight
  <2>2. OneConversationPerKey'
    BY <1>1 DEF MemoryInv, ConvInv, OneConversationPerKey
  <2> QED
    BY <1>1, <2>1, <2>2 DEF MemoryInv, ConvInv
<1> QED
  BY <1>3, <1>4, <1>5, <1>6, <1>7 DEF MemoryInv, Types

\* The steps that write no receipt.
Reads ==
    \/ \E s \in Sources : Stage(s)
    \/ \E a \in Callers :
         \/ Ask(a) \/ Resolve(a) \/ Replay(a) \/ Refuse(a) \/ BindKey(a) \/ StartFormation(a) \/ CaptureEvidence(a)
         \/ StartFails(a) \/ EraseTarget(a) \/ ErasePayload(a) \/ HoldBlocks(a) \/ SuppressSources(a) \/ EraseSurfaces(a)
    \/ \E a \in Actors : ReadProgress(a) \/ ReadEnded(a) \/ ReadTarget(a) \/ Invalidate(a)
    \/ Formation \/ Crash \/ Reopen \/ UNCHANGED vars

LEMMA ReadsWriteNothing ==
  ASSUME Reads
  PROVE  receipt' = receipt
  BY DEF Reads, Stage, Ask, Resolve, Replay, Refuse, BindKey, StartFormation, CaptureEvidence, StartFails, EraseTarget,
         ErasePayload, HoldBlocks, SuppressSources, EraseSurfaces, ReadProgress, ReadEnded, ReadTarget, Invalidate,
         Formation, Admit, SettlePredecessor, BeginPass, WriteMemory, EndPass, ConversationEnd, Crash, Reopen, vars, durable

LEMMA ReadsKeep ==
  ASSUME MemoryInv, Reads
  PROVE  MemoryInv' /\ JournalGrows
<1>1. receipt' = receipt
  BY ReadsWriteNothing
<1>2. ASSUME NEW a \in Callers,
             \/ Ask(a) \/ Resolve(a) \/ Replay(a) \/ Refuse(a) \/ BindKey(a) \/ StartFormation(a) \/ CaptureEvidence(a)
             \/ StartFails(a) \/ EraseTarget(a) \/ ErasePayload(a) \/ HoldBlocks(a) \/ SuppressSources(a) \/ EraseSurfaces(a)
      PROVE  MemoryInv'
  BY <1>2, AskKeeps, BeforeGateKeeps, InFlightKeeps, StartFormationKeeps, ErasingKeeps
<1>3. ASSUME NEW a \in Actors, ReadProgress(a) \/ ReadEnded(a) \/ ReadTarget(a) \/ Invalidate(a)
      PROVE  MemoryInv'
  BY <1>3, ReadProgressKeeps, SettlingKeeps
<1>4. Formation => MemoryInv'
  BY AdmitKeeps, SettlePredecessorKeeps, PassKeeps, WriteMemoryKeeps, ConversationEndKeeps DEF Formation
<1>5. Crash => MemoryInv'
  BY CrashKeeps
<1>6. ASSUME (\E s \in Sources : Stage(s)) \/ Reopen \/ UNCHANGED vars
      PROVE  MemoryInv'
  <2>1. UNCHANGED <<receipt, bound, conv, graph, repaired, epoch, gate, at, req, out, started, todo, worker, workload>>
    BY <1>6 DEF Stage, Reopen, vars, durable, locals, answer, process
  <2> QED
    BY <2>1, StutterKeeps DEF MemoryInv, Types, JournalTypes
<1>7. MemoryInv'
  BY <1>2, <1>3, <1>4, <1>5, <1>6 DEF Reads
<1> QED
  BY <1>1, <1>7 DEF JournalGrows, Grows, MemoryInv, Types

LEMMA NextMemoryInv ==
  ASSUME MemoryInv, [Next]_vars
  PROVE  MemoryInv' /\ JournalGrows
<1>1. ASSUME NEW a \in Callers, CreateReceipt(a) \/ Save(a) \/ AdmitForget(a) \/ ScanSource(a) \/ SettleForget(a)
      PROVE  MemoryInv' /\ JournalGrows
  BY <1>1, CreateReceiptKeeps, SaveKeeps, AdmitForgetKeeps, ScanSourceKeeps, SettleForgetKeeps
<1>2. ASSUME NEW a \in Actors, SettleRecord(a)
      PROVE  MemoryInv' /\ JournalGrows
  BY <1>2, SettleRecordKeeps
<1>3. CASE Reads
  BY <1>3, ReadsKeep
<1> QED
  BY <1>1, <1>2, <1>3 DEF Next, Reads, Intake, Forget, Settling

LEMMA MemoryInvHolds == Spec => []MemoryInv
  BY InitMemoryInv, NextMemoryInv, PTL DEF Spec

\* An idempotency key starts at most one Formation conversation, for any callers, keys
\* and requests, whatever retries, conflicts and crashes fall between the durable writes
\* of an intake (memory_intake).
THEOREM KeysStartOnce == Spec => []OneConversationPerKey
<1>1. MemoryInv => OneConversationPerKey
  BY DEF MemoryInv, ConvInv
<1> QED
  BY <1>1, MemoryInvHolds, PTL

\* A settled receipt never changes its answer, whoever settles it: every writer of a
\* terminal progress keeps the first one or owns a receipt that has none (settle_record,
\* settle_forget).
THEOREM AnswersAreFinal == Spec => TerminalIsFinal
<1>1. MemoryInv /\ [Next]_vars => [\A k \in Keys : receipt[k].terminal # "none" =>
                                      receipt'[k].terminal = receipt[k].terminal]_vars
  BY NextMemoryInv DEF JournalGrows, Grows
<1> QED
  BY <1>1, MemoryInvHolds, PTL DEF Spec, TerminalIsFinal

\* A misrecording that names its target is reported available only with its repair in the
\* graph, although any reader may settle it (finish_formation), and one that names none
\* without any (start_revision).
THEOREM RepairPrecedesAvailable == Spec => []AvailableMeansRepaired
<1>1. MemoryInv => AvailableMeansRepaired
  BY DEF MemoryInv, ReceiptInv, ReceiptOf, AvailableMeansRepaired
<1> QED
  BY <1>1, MemoryInvHolds, PTL

\* A completed forget left nothing of the conversations its plan covers, and no later
\* pass brings anything back (targets_of_source, settle_forget).
THEOREM PlansAreCovered == Spec => []PlanCovers
<1>1. MemoryInv => PlanCovers
  BY DEF MemoryInv, ReceiptInv, ReceiptOf, PlanCovers
<1> QED
  BY <1>1, MemoryInvHolds, PTL

-----------------------------------------------------------------------------
(* Predecessors.                                                           *)

\* A receipt that some source is ordered after is not a forget's.
LEMMA CreatedInOrder ==
  ASSUME NoForgetPrecedes, MemoryInv, OrderInv, [Next]_vars, NEW s \in Sources, NEW p \in PredOf[s], receipt'[p].held
  PROVE  receipt'[p].op \notin Forgets
<1>1. p \in Keys
  BY PredAssumption
<1>2. CASE receipt[p].held
  BY <1>1, <1>2, NextMemoryInv DEF OrderInv, JournalGrows, Grows
<1>3. CASE ~receipt[p].held
  <2>1. ASSUME NEW a \in Callers, CreateReceipt(a) \/ AdmitForget(a)
        PROVE  receipt'[p].op \notin Forgets
    <3>1. a \in Actors /\ Key(a) \in Keys /\ req[a] \in Requests
      BY <2>1 DEF Actors, CreateReceipt, AdmitForget, MemoryInv, Types, ActorTypes
    <3>2. receipt' = receipt \/ receipt' = [receipt EXCEPT ![Key(a)] =
                                               [NoReceipt EXCEPT !.held = TRUE, !.op = Op(a), !.source = Source(a)]]
      BY <2>1 DEF CreateReceipt, AdmitForget
    <3>3. UNCHANGED bound
      BY <2>1 DEF CreateReceipt, AdmitForget
    <3>4. p = Key(a) /\ receipt'[p].op = Op(a)
      <4>1. receipt' # receipt
        BY <1>3
      <4>2. Writes(Key(a)) /\ Fresh(receipt'[Key(a)], req[a])
        BY <3>1, <3>2, <3>3, <4>1, CreatedReceipt DEF MemoryInv, Types, Op, Source
      <4> QED
        BY <1>1, <1>3, <4>2 DEF Writes, Fresh, Op
    <3>5. ASSUME Op(a) \in Forgets
          PROVE  FALSE
      <4>1. req[a] \in workload /\ workload \in Workloads
        BY <3>1, <3>5 DEF MemoryInv, Types, ActorTypes, Forgets
      <4>2. req[a].op \in Forgets => req[a].key \notin PredOf[s]
        BY <4>1 DEF NoForgetPrecedes
      <4> QED
        BY <3>4, <3>5, <4>2 DEF Op, Key
    <3> QED
      BY <3>4, <3>5
  <2>2. ASSUME NEW a \in Callers, Save(a) \/ ScanSource(a) \/ SettleForget(a)
        PROVE  FALSE
    <3>1. a \in Actors /\ ActorOf(a) /\ Key(a) \in Keys
      BY <2>2 DEF Actors, Save, ScanSource, SettleForget, MemoryInv, Types, ActorTypes, ActorInv
    <3>2. receipt[Key(a)].held
      BY <2>2, <3>1 DEF Save, ScanSource, SettleForget, ActorOf, IntakeOf, ForgetOf, Fresh, InFlight, Erasing
    <3>3. receipt'[p] = receipt[p]
      BY <1>1, <1>3, <2>2, <3>1, <3>2 DEF Save, ScanSource, SettleForget, MemoryInv, Types, JournalTypes
    <3> QED
      BY <1>3, <3>3
  <2>3. ASSUME NEW a \in Actors, SettleRecord(a)
        PROVE  FALSE
    <3>1. ActorOf(a) /\ Key(a) \in Keys /\ ReceiptInv
      BY <2>3 DEF SettleRecord, MemoryInv, Types, ActorTypes, ActorInv
    <3>2. receipt[Key(a)].held
      BY <2>3, <3>1 DEF SettleRecord, ActorOf, SettleOf, Settles, ReceiptInv, ReceiptOf
    <3>3. receipt'[p] = receipt[p]
      BY <1>1, <1>3, <2>3, <3>1, <3>2 DEF SettleRecord, Terminate, MemoryInv, Types, JournalTypes
    <3> QED
      BY <1>3, <3>3
  <2>4. Reads => receipt' = receipt
    BY ReadsWriteNothing
  <2> QED
    BY <1>3, <2>1, <2>2, <2>3, <2>4 DEF Next, Reads, Intake, Forget, Settling
<1> QED
  BY <1>2, <1>3

\* A predecessor that let its successor pass stays as it is.
LEMMA PassedStays ==
  ASSUME MemoryInv, OrderInv, [Next]_vars, NEW c \in Convs, conv[c].status # "none",
         NEW p \in PredOf[conv[c].source], Passed(p)
  PROVE  Passed(p)'
<1>1. p \in Keys /\ conv[c].source \in Sources
  BY PredAssumption DEF MemoryInv, Types, QueueTypes, ConvRecords
<1>2. CASE receipt[p].terminal = "available"
  BY <1>1, <1>2, NextMemoryInv DEF JournalGrows, Grows, Passed
<1>3. CASE receipt[p].terminal = "none" /\ receipt[p].conv = 0
  <2>1. receipt[p].held /\ receipt[p].op \notin Forgets /\ \A a \in Actors : at[a] \in InFlight => Key(a) # p
    BY <1>1 DEF MemoryInv, ConvInv, OrderInv
  <2>2. ASSUME NEW a \in Callers, CreateReceipt(a) \/ AdmitForget(a) \/ Save(a) \/ SettleForget(a)
        PROVE  receipt'[p] = receipt[p]
    <3>1. a \in Actors /\ ActorOf(a) /\ Key(a) \in Keys
      BY <2>2 DEF Actors, CreateReceipt, AdmitForget, Save, SettleForget, MemoryInv, Types, ActorTypes, ActorInv
    <3>2. receipt' = receipt \/ Key(a) # p
      BY <2>1, <2>2, <3>1 DEF CreateReceipt, AdmitForget, Save, SettleForget, ActorOf, ForgetOf, InFlight, Erasing
    <3> QED
      BY <1>1, <2>2, <3>1, <3>2 DEF CreateReceipt, AdmitForget, Save, SettleForget, MemoryInv, Types, JournalTypes
  <2>3. ASSUME NEW a \in Callers, ScanSource(a)
        PROVE  receipt'[p].terminal = receipt[p].terminal /\ receipt'[p].conv = receipt[p].conv
    <3>1. receipt' = receipt \/ receipt' = [receipt EXCEPT ![Key(a)].plan = ConvsOf(Source(a))]
      BY <2>3 DEF ScanSource
    <3> QED
      BY <1>1, <3>1 DEF MemoryInv, Types, JournalTypes, ReceiptRecords
  <2>4. ASSUME NEW a \in Actors, SettleRecord(a)
        PROVE  receipt'[p] = receipt[p]
    <3>1. ActorOf(a) /\ Key(a) \in Keys
      BY <2>4 DEF SettleRecord, MemoryInv, Types, ActorTypes, ActorInv
    <3>2. Key(a) # p
      BY <1>3, <2>4, <3>1 DEF SettleRecord, ActorOf, SettleOf, Settles
    <3> QED
      BY <1>1, <2>4, <3>1, <3>2 DEF SettleRecord, Terminate, MemoryInv, Types, JournalTypes
  <2>5. Reads => receipt' = receipt
    BY ReadsWriteNothing
  <2>6. receipt'[p].terminal = receipt[p].terminal /\ receipt'[p].conv = receipt[p].conv
    BY <2>2, <2>3, <2>4, <2>5 DEF Next, Reads, Intake, Forget, Settling
  <2> QED
    BY <1>3, <2>6 DEF Passed
<1> QED
  BY <1>2, <1>3 DEF Passed

\* A predecessor is over when its successor begins.
LEMMA BeginsPassed ==
  ASSUME MemoryInv, OrderInv, BeginPass, worker'.stage = "running", NEW p \in PredOf[conv[worker.conv].source]
  PROVE  Passed(p)
<1>1. worker.stage = "check" /\ worker.conv \in Convs
  BY DEF BeginPass, MemoryInv, Types, WorkerTypes
<1>2. conv[worker.conv].source \in Sources /\ p \in Keys
  BY <1>1, PredAssumption DEF MemoryInv, Types, QueueTypes, ConvRecords
<1>3. worker' # [worker EXCEPT !.stage = "ended"]
  BY <1>1 DEF MemoryInv, Types, WorkerTypes
<1>4. Progress(p) = receipt[p].terminal /\ Progress(p) # "failed"
  BY <1>3 DEF BeginPass
<1>5. /\ conv[worker.conv].status # "none" /\ Ended(worker.conv)
      /\ receipt[p].held /\ receipt[p].conv < worker.conv /\ receipt[p].op \notin Forgets
      /\ receipt[p].terminal \in Terminals /\ receipt[p].conv \in 0..MaxConv
  BY <1>1, <1>2 DEF MemoryInv, WorkerInv, ConvInv, OrderInv, Types, JournalTypes, ReceiptRecords
<1>6. receipt[p].terminal # "erased"
  BY <1>2, <1>5 DEF MemoryInv, ReceiptInv, ReceiptOf
<1>7. ASSUME receipt[p].terminal = "none", receipt[p].conv # 0
      PROVE  FALSE
  <2>1. receipt[p].conv \in Convs
    BY <1>5, <1>7, ConvsAreNat
  <2>2. conv[receipt[p].conv].status \in Over
    BY <1>5, <2>1 DEF Ended
  <2> QED
    BY <1>4, <1>7, <2>2 DEF Progress, Over
<1> QED
  BY <1>4, <1>5, <1>6, <1>7 DEF Passed, Terminals

\* Only the beginning of a pass adds to what is written.
Written(c) == graph[c] # "nothing" \/ (worker.stage = "running" /\ worker.conv = c)

LEMMA WrittenBefore ==
  ASSUME MemoryInv, [Next]_vars, NEW c \in Convs, Written(c)'
  PROVE  Written(c) \/ (BeginPass /\ worker'.stage = "running" /\ worker.conv = c)
<1>1. ASSUME NEW a \in Callers, EraseTarget(a)
      PROVE  Written(c)
  <2>1. a \in Actors /\ ActorOf(a)
    BY DEF Actors, MemoryInv, ActorInv
  <2>2. PICK d \in todo[a] : graph' = [graph EXCEPT ![d] = "purged"]
    BY <1>1 DEF EraseTarget
  <2>3. graph[d] # "nothing" /\ worker' = worker
    BY <1>1, <2>1, <2>2 DEF EraseTarget, ActorOf, ForgetOf, Erasing
  <2> QED
    BY <2>2, <2>3 DEF Written, MemoryInv, Types, QueueTypes
<1>2. CASE WriteMemory
  BY <1>2 DEF WriteMemory, Written, MemoryInv, Types, QueueTypes
<1>3. CASE BeginPass
  BY <1>3 DEF BeginPass, Written, MemoryInv, Types, WorkerTypes
<1>4. CASE Admit \/ EndPass \/ ConversationEnd \/ Crash
  BY <1>4 DEF Admit, EndPass, ConversationEnd, Crash, NoPass, durable, Written, MemoryInv, Types, WorkerTypes
<1>5. ASSUME NEW a \in Callers, Ask(a) \/ Intake(a) \/ (Forget(a) /\ ~EraseTarget(a))
      PROVE  UNCHANGED <<graph, worker>>
  BY <1>5 DEF Intake, Forget, Ask, Resolve, Replay, Refuse, CreateReceipt, BindKey, StartFormation, CaptureEvidence, StartFails,
              Save, AdmitForget, ScanSource, ErasePayload, HoldBlocks, SuppressSources, EraseSurfaces, SettleForget, durable
<1>6. ASSUME NEW a \in Actors, Settling(a)
      PROVE  UNCHANGED <<graph, worker>>
  BY <1>6 DEF Settling, ReadProgress, ReadEnded, ReadTarget, Invalidate, SettleRecord, durable
<1>7. CASE (\E s \in Sources : Stage(s)) \/ SettlePredecessor \/ Reopen \/ UNCHANGED vars
  BY <1>7 DEF Stage, SettlePredecessor, Reopen, vars, durable, Written
<1> QED
  BY <1>1, <1>2, <1>3, <1>4, <1>5, <1>6, <1>7 DEF Next, Formation, Written

\* A conversation keeps the source it was queued for.
LEMMA SourceStays ==
  ASSUME MemoryInv, [Next]_vars, NEW c \in Convs, conv[c].status # "none"
  PROVE  conv'[c].source = conv[c].source
<1>1. ASSUME NEW a \in Callers, StartFormation(a)
      PROVE  conv'[c].source = conv[c].source
  <2>1. NextConv \in Convs
    BY <1>1 DEF StartFormation
  <2>2. PICK n \in Convs : n = NextConv
    BY <2>1
  <2>3. c # n
    BY <2>1, <2>2, NextIsFree, ConvsAreNat
  <2>4. conv'[c] = conv[c]
    BY <1>1, <2>2, <2>3 DEF StartFormation, MemoryInv, Types, QueueTypes
  <2> QED
    BY <2>4
<1>2. CASE BeginPass \/ EndPass
  BY <1>2, PassKeeps DEF QueueGrows
<1>3. CASE Admit
  <2>1. conv' = conv \/ \E d \in Convs : conv' = [conv EXCEPT ![d].status = "cancelled"]
    BY <1>3, FirstQueued DEF Admit, SetStatus
  <2> QED
    BY <2>1 DEF MemoryInv, Types, QueueTypes, ConvRecords
<1>4. ASSUME NEW a \in Callers, Ask(a) \/ (Intake(a) /\ ~StartFormation(a)) \/ Forget(a)
      PROVE  conv' = conv
  BY <1>4 DEF Intake, Forget, Ask, Resolve, Replay, Refuse, CreateReceipt, BindKey, CaptureEvidence, StartFails, Save,
              AdmitForget, ScanSource, EraseTarget, ErasePayload, HoldBlocks, SuppressSources, EraseSurfaces,
              SettleForget, durable
<1>5. ASSUME NEW a \in Actors, Settling(a)
      PROVE  conv' = conv
  BY <1>5 DEF Settling, ReadProgress, ReadEnded, ReadTarget, Invalidate, SettleRecord, durable
<1>6. CASE \/ \E s \in Sources : Stage(s)
           \/ SettlePredecessor \/ WriteMemory \/ ConversationEnd \/ Crash \/ Reopen \/ UNCHANGED vars
  BY <1>6 DEF Stage, SettlePredecessor, WriteMemory, ConversationEnd, Crash, Reopen, vars, durable
<1> QED
  BY <1>1, <1>2, <1>3, <1>4, <1>5, <1>6 DEF Next, Formation

LEMMA OrderInvStep ==
  ASSUME NoForgetPrecedes, MemoryInv, OrderInv, [Next]_vars
  PROVE  OrderInv'
<1>1. ASSUME NEW c \in Convs, Written(c)', NEW p \in PredOf[conv'[c].source]
      PROVE  Passed(p)'
  <2>1. Written(c) \/ (BeginPass /\ worker'.stage = "running" /\ worker.conv = c)
    BY <1>1, WrittenBefore
  <2>2. conv[c].status # "none"
    BY <2>1 DEF Written, BeginPass, MemoryInv, WorkerInv
  <2>3. conv'[c].source = conv[c].source
    BY <2>2, SourceStays
  <2>4. Passed(p)
    BY <1>1, <2>1, <2>3, BeginsPassed DEF Written, OrderInv, PassedInv
  <2> QED
    BY <1>1, <2>2, <2>3, <2>4, PassedStays
<1>2. PassedInv'
  BY <1>1 DEF PassedInv, Written
<1> QED
  BY <1>2, CreatedInOrder DEF OrderInv

LEMMA PassedHasNotFailed ==
  ASSUME NEW p, Passed(p)
  PROVE  Progress(p) # "failed"
  BY DEF Passed, Progress

\* A successor of a failed receipt never leaves anything in memory, whatever the order of
\* the sources, even when the predecessor's own settlement was lost, unless the order names
\* a forget (memory_predecessors_failed, process_one): a forget is no conversation of the
\* queue, and its successor does not wait for it.
THEOREM SuccessorsAreBlocked == ASSUME NoForgetPrecedes PROVE Spec => []BlockedSuccessor
<1>1. Init => OrderInv
  <2> SUFFICES ASSUME Init PROVE OrderInv
    OBVIOUS
  <2>1. PassedInv
    BY DEF Init, PassedInv, NoPass
  <2>2. ASSUME NEW k \in Keys
        PROVE  ~receipt[k].held
    BY DEF Init, NoReceipt
  <2> QED
    BY <2>1, <2>2, PredAssumption DEF OrderInv
<1>2. MemoryInv /\ OrderInv /\ [Next]_vars => OrderInv'
  BY OrderInvStep
<1>3. MemoryInv /\ OrderInv => BlockedSuccessor
  BY PassedHasNotFailed DEF BlockedSuccessor, OrderInv, PassedInv, Live
<1> QED
  BY <1>1, <1>2, <1>3, MemoryInvHolds, PTL DEF Spec

=============================================================================
