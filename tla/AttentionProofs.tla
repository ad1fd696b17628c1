--------------------------- MODULE AttentionProofs ---------------------------
(***************************************************************************)
(* Proofs about Attention: armed work can be found after a restart, and a  *)
(* generation is acknowledged only by a scan that looked at every runnable *)
(* watch armed in it, for any number of Spaces, watches, slots, rechecks   *)
(* and generations, any size of a page and every combination of faults.    *)
(***************************************************************************)
EXTENDS Attention, FiniteSetTheorems, SequenceTheorems, WellFoundedInduction, TLAPS


(***************************************************************************)
(* Types.                                                                  *)
(***************************************************************************)
RecheckSets ==
  {R \in SUBSET (RecheckKeys \cup {Review}) : IsFiniteSet(R) /\ Cardinality(R) <= MaxRechecks}

Entries ==
  [slot : Slots, gen : 1..MaxGen, recon : 0..MaxGen, enabled : BOOLEAN, pins : Pins,
   due : BOOLEAN, failed : BOOLEAN, rechecks : RecheckSets, cp : Checkpoints]

ScanAts == {"runnable", "all", "wakes", "finish"}
WriteAts == {"index", "config", "work"}

Orders == [op : Ops \cup {"hint"}, at : {"register"} \cup WriteAts]
Allocations == [op : Ops \cup {"hint"}, at : {"entry"}, slot : Slots]
Scans == [op : {"scan"}, at : ScanAts, e : Entries, n : Nat]

TickAts == {"idle", "visit", "visited", "hint", "scan", "scanning", "broken"}
Ticks == [at : TickAts, slots : Seq(Slots), visited : 0..MaxSlots]

Types ==
  /\ root \in [allocated : 0..MaxSlots, cursor : 0..MaxSlots]
  /\ entry \in [Spaces -> Entries \cup {NoEntry}]
  /\ index \in [Slots -> Spaces \cup {NoSpace}]
  /\ config \in [Spaces -> Pins \cup {"none"}]
  /\ watch \in [Spaces -> [Watches -> {"disarmed", "armed", "fired", "archived"}]]
  /\ wake \in [Spaces -> SUBSET Watches]
  /\ task \in [Spaces -> {NoTask} \cup Orders \cup Allocations \cup Scans]
  /\ tick \in Ticks
  /\ installed \in Pins
  /\ seen \in [Spaces -> SUBSET Watches]

(***************************************************************************)
(* A scan knows what it has looked at.                                     *)
(***************************************************************************)
Scanned(s, cp) == \A w \in Runnable(s) : w <= cp.after \/ cp.rdone => w \in seen[s]

\* What a Space's entry says of its watches.
EntryIsTrue(s) ==
  Registered(s) =>
    /\ entry[s].recon <= entry[s].gen /\ entry[s].cp.gen <= entry[s].gen
    /\ entry[s].gen = entry[s].recon => Runnable(s) \subseteq seen[s]
    /\ entry[s].cp.gen = entry[s].gen => Scanned(s, entry[s].cp)

\* The gate is held from the registration to the native write: no watch is armed
\* under a generation that a scan has looked at.
OrderIsRegistered(s) ==
  /\ task[s].at = "register" /\ Registered(s) => entry[s].gen + 2 <= MaxGen
  /\ task[s].at = "entry" => ~Registered(s)
  /\ task[s].at \in WriteAts =>
       /\ Registered(s) /\ entry[s].gen + 1 <= MaxGen
       /\ entry[s].recon < entry[s].gen /\ entry[s].cp.gen < entry[s].gen

\* The copy of the entry that a scan works on.
CopyIsTrue(s, x) ==
  /\ Registered(s) /\ x.e.gen = entry[s].gen /\ x.e.recon = entry[s].recon /\ x.e.slot = entry[s].slot
  /\ x.e.cp.gen <= entry[s].gen
  /\ x.e.cp.gen = entry[s].gen => Scanned(s, x.e.cp)
  /\ x.at # "finish" => x.e.cp.gen = entry[s].gen
  /\ ~x.e.enabled \/ x.e.failed \/ x.e.cp.gen = entry[s].gen

ScanIsTrue(s) == task[s].at \in ScanAts => CopyIsTrue(s, task[s])

(***************************************************************************)
(* A slot belongs to one Space, from its allocation on.                    *)
(***************************************************************************)
SlotOf(s) ==
  IF task[s].at = "entry" THEN task[s].slot ELSE IF Registered(s) THEN entry[s].slot ELSE 0

SlotsApart ==
  /\ \A s \in Spaces : SlotOf(s) <= root.allocated
  /\ \A s, t \in Spaces : s # t /\ SlotOf(s) = SlotOf(t) => SlotOf(s) = 0

IndexIsTrue ==
  \A n \in Slots : index[n] # NoSpace => Registered(index[n]) /\ entry[index[n]].slot = n

IndexIsWritten(s) ==
  task[s].at \in {"config", "work"} \/ Armed(s) # {} => Registered(s) /\ index[entry[s].slot] = s

(***************************************************************************)
(* The tick is on a slot that was allocated.                               *)
(***************************************************************************)
TickIsInside ==
  /\ root.cursor <= root.allocated /\ tick.visited <= root.allocated
  /\ \A i \in DOMAIN tick.slots : tick.slots[i] <= root.allocated
  /\ tick.at \in {"visited", "hint", "scan", "scanning"} => tick.slots # <<>>
  /\ tick.at \in {"hint", "scan", "scanning"} => index[Slot] # NoSpace
  /\ \A s \in Spaces : task[s].op = "hint" => tick.at = "hint" /\ index[Slot] = s

DirectoryInv ==
  /\ Types
  /\ \A s \in Spaces : EntryIsTrue(s) /\ OrderIsRegistered(s) /\ ScanIsTrue(s) /\ IndexIsWritten(s)
  /\ SlotsApart
  /\ IndexIsTrue
  /\ TickIsInside

-----------------------------------------------------------------------------
\* The states are types, whatever the directory holds.
LEMMA InvTypes ==
  ASSUME DirectoryInv
  PROVE  /\ root \in [allocated : 0..MaxSlots, cursor : 0..MaxSlots]
         /\ entry \in [Spaces -> Entries \cup {NoEntry}]
         /\ index \in [Slots -> Spaces \cup {NoSpace}]
         /\ config \in [Spaces -> Pins \cup {"none"}]
         /\ watch \in [Spaces -> [Watches -> {"disarmed", "armed", "fired", "archived"}]]
         /\ wake \in [Spaces -> SUBSET Watches]
         /\ task \in [Spaces -> {NoTask} \cup Orders \cup Allocations \cup Scans]
         /\ tick \in Ticks /\ installed \in Pins /\ seen \in [Spaces -> SUBSET Watches]
BY DEF DirectoryInv, Types

LEMMA InvSpace ==
  ASSUME DirectoryInv, NEW s \in Spaces
  PROVE  EntryIsTrue(s) /\ OrderIsRegistered(s) /\ ScanIsTrue(s) /\ IndexIsWritten(s)
BY DEF DirectoryInv

LEMMA EntryFields ==
  ASSUME NEW e \in Entries
  PROVE  /\ e.slot \in Slots /\ e.gen \in 1..MaxGen /\ e.recon \in 0..MaxGen
         /\ e.enabled \in BOOLEAN /\ e.pins \in Pins /\ e.due \in BOOLEAN /\ e.failed \in BOOLEAN
         /\ e.rechecks \in RecheckSets /\ e.cp \in Checkpoints
BY DEF Entries

LEMMA CheckpointFields ==
  ASSUME NEW c \in Checkpoints
  PROVE  /\ c.gen \in 0..MaxGen /\ c.after \in 0..NumWatches /\ c.all \in 0..NumWatches
         /\ c.pending \in SUBSET Watches
         /\ c.rdone \in BOOLEAN /\ c.adone \in BOOLEAN /\ c.wdone \in BOOLEAN
BY DEF Checkpoints

\* A Space is registered when its entry is one.
LEMMA EntryIsEntry ==
  ASSUME NEW e \in Entries PROVE e # NoEntry
<1>1. e.slot \in 1..MaxSlots BY DEF Entries, Slots
<1>2. e.slot # 0 BY <1>1
<1> QED BY <1>2 DEF NoEntry

LEMMA RegisteredEntry ==
  ASSUME DirectoryInv, NEW s \in Spaces
  PROVE  Registered(s) <=> entry[s] \in Entries
<1>1. entry[s] \in Entries \cup {NoEntry} BY InvTypes
<1> QED BY <1>1, EntryIsEntry DEF Registered

\* What a task is follows from where it is.
LEMMA TaskIs ==
  ASSUME DirectoryInv, NEW s \in Spaces
  PROVE  /\ task[s].at = "idle" => task[s] = NoTask
         /\ task[s].at \in {"register", "index", "config", "work"} => task[s] \in Orders
         /\ task[s].at = "entry" => task[s] \in Allocations
         /\ task[s].at \in ScanAts => task[s] \in Scans
         /\ task[s].at \in {"idle", "register", "entry", "index", "config", "work", "runnable", "all", "wakes", "finish"}
<1>1. task[s] \in {NoTask} \cup Orders \cup Allocations \cup Scans BY InvTypes
<1>2. CASE task[s] = NoTask BY <1>2 DEF NoTask, ScanAts
<1>3. CASE task[s] \in Orders
  <2>1. task[s].at \in {"register", "index", "config", "work"} BY <1>3 DEF Orders, WriteAts
  <2> QED BY <1>3, <2>1 DEF ScanAts
<1>4. CASE task[s] \in Allocations
  <2>1. task[s].at = "entry" BY <1>4 DEF Allocations
  <2> QED BY <1>4, <2>1 DEF ScanAts
<1>5. CASE task[s] \in Scans
  <2>1. task[s].at \in {"runnable", "all", "wakes", "finish"} BY <1>5 DEF Scans, ScanAts
  <2> QED BY <1>5, <2>1 DEF ScanAts
<1> QED BY <1>1, <1>2, <1>3, <1>4, <1>5

LEMMA OrderFields ==
  ASSUME NEW x \in Orders PROVE x.op \in Ops \cup {"hint"} /\ x.at \in {"register", "index", "config", "work"}
BY DEF Orders, WriteAts

LEMMA ScanFields ==
  ASSUME NEW x \in Scans PROVE x.op = "scan" /\ x.at \in ScanAts /\ x.e \in Entries /\ x.n \in Nat
BY DEF Scans

\* A scan at another place, or with another copy of the entry.
LEMMA ScanMade ==
  ASSUME NEW a \in ScanAts, NEW e \in Entries, NEW n \in Nat
  PROVE  [op |-> "scan", at |-> a, e |-> e, n |-> n] \in Scans
BY DEF Scans

LEMMA LeastNatural ==
  ASSUME NEW N \in SUBSET Nat, N # {} PROVE \E m \in N : \A n \in N : m <= n
<1>1. PICK m \in N : \A n \in N : ~ (<<n, m>> \in OpToRel(<, Nat))
  BY WFMin, NatLessThanWellFounded, Zenon
<1>2. \A n \in N : ~ (n < m) BY <1>1 DEF OpToRel
<1> QED BY <1>2

LEMMA GreatestWatch ==
  ASSUME Sized, NEW S \in SUBSET Watches, S # {} PROVE \E m \in S : \A n \in S : m >= n
<1>1. NumWatches \in Nat /\ \A w \in S : w \in Nat /\ w <= NumWatches BY DEF Sized, Watches
<1>2. PICK N : N = {NumWatches - w : w \in S} OBVIOUS
<1>3. N \in SUBSET Nat /\ N # {} BY <1>1, <1>2
<1>4. PICK k \in N : \A n \in N : k <= n BY <1>3, LeastNatural
<1>5. PICK m \in S : k = NumWatches - m BY <1>2, <1>4
<1>6. ASSUME NEW n \in S PROVE m >= n
  <2>1. NumWatches - n \in N BY <1>2
  <2>2. NumWatches - m <= NumWatches - n BY <1>4, <1>5, <2>1
  <2> QED BY <1>1, <2>2
<1> QED BY <1>6

LEMMA LeastWatch ==
  ASSUME Sized, NEW S \in SUBSET Watches, S # {} PROVE Least(S) \in S /\ \A v \in S : Least(S) <= v
<1>1. S \in SUBSET Nat BY DEF Sized, Watches
<1>2. \E w \in S : \A v \in S : w <= v BY <1>1, LeastNatural
<1> QED BY <1>2, Zenon DEF Least

-----------------------------------------------------------------------------
(***************************************************************************)
(* What a step leaves alone.                                               *)
(***************************************************************************)
\* A Space whose entry, task and watches a step leaves alone.
LEMMA SpaceStill ==
  ASSUME DirectoryInv, NEW t \in Spaces,
         entry'[t] = entry[t], task'[t] = task[t], watch'[t] = watch[t], seen'[t] = seen[t]
  PROVE  /\ EntryIsTrue(t)' /\ OrderIsRegistered(t)' /\ ScanIsTrue(t)'
         /\ SlotOf(t)' = SlotOf(t) /\ Armed(t)' = Armed(t) /\ Registered(t)' = Registered(t)
<1>1. Registered(t)' = Registered(t) BY DEF Registered
<1>2. Armed(t)' = Armed(t) BY DEF Armed
<1>3. Runnable(t)' = Runnable(t) BY <1>2 DEF Runnable
<1>4. EntryIsTrue(t) /\ OrderIsRegistered(t) /\ ScanIsTrue(t) BY InvSpace
<1>5. EntryIsTrue(t)' BY <1>1, <1>3, <1>4 DEF EntryIsTrue, Scanned
<1>6. OrderIsRegistered(t)' BY <1>1, <1>4 DEF OrderIsRegistered
<1>7. ScanIsTrue(t)' BY <1>1, <1>3, <1>4 DEF ScanIsTrue, CopyIsTrue, Scanned
<1>8. SlotOf(t)' = SlotOf(t) BY <1>1 DEF SlotOf
<1> QED BY <1>1, <1>2, <1>5, <1>6, <1>7, <1>8

\* A step of one Space that takes no slot.
LEMMA SpaceMoves ==
  ASSUME Sized, DirectoryInv, Types', NEW s \in Spaces,
         \A t \in Spaces : t # s => /\ entry'[t] = entry[t] /\ task'[t] = task[t]
                                    /\ watch'[t] = watch[t] /\ seen'[t] = seen[t],
         root' = root, index' = index,
         SlotOf(s)' = SlotOf(s) \/ SlotOf(s)' = 0,
         Registered(s) => Registered(s)' /\ entry'[s].slot = entry[s].slot,
         EntryIsTrue(s)', OrderIsRegistered(s)', ScanIsTrue(s)', IndexIsWritten(s)', TickIsInside'
  PROVE  DirectoryInv'
<1>1. \A t \in Spaces : t # s => /\ EntryIsTrue(t)' /\ OrderIsRegistered(t)' /\ ScanIsTrue(t)'
                                 /\ SlotOf(t)' = SlotOf(t) /\ Armed(t)' = Armed(t)
                                 /\ Registered(t)' = Registered(t)
  BY SpaceStill
<1>2. \A t \in Spaces : t # s => IndexIsWritten(t)'
  <2> SUFFICES ASSUME NEW t \in Spaces, t # s PROVE IndexIsWritten(t)' OBVIOUS
  <2>1. IndexIsWritten(t) BY InvSpace
  <2> QED BY <1>1, <2>1 DEF IndexIsWritten
<1>3. SlotsApart'
  <2>1. SlotsApart BY DEF DirectoryInv
  <2>2. root.allocated \in Nat
    <3>1. root \in [allocated : 0..MaxSlots, cursor : 0..MaxSlots] BY InvTypes
    <3> QED BY <3>1 DEF Sized
  <2>3. \A t \in Spaces : SlotOf(t)' = SlotOf(t) \/ SlotOf(t)' = 0 BY <1>1
  <2> QED BY <2>1, <2>2, <2>3 DEF SlotsApart
<1>4. IndexIsTrue'
  <2>1. IndexIsTrue /\ index \in [Slots -> Spaces \cup {NoSpace}] BY InvTypes DEF DirectoryInv
  <2> SUFFICES ASSUME NEW n \in Slots, index[n] # NoSpace
               PROVE Registered(index[n])' /\ entry'[index[n]].slot = n
    BY DEF IndexIsTrue
  <2>2. index[n] \in Spaces /\ Registered(index[n]) /\ entry[index[n]].slot = n BY <2>1 DEF IndexIsTrue
  <2>3. CASE index[n] = s BY <2>2, <2>3
  <2>4. CASE index[n] # s BY <1>1, <2>2, <2>4 DEF Registered
  <2> QED BY <2>3, <2>4
<1> QED BY <1>1, <1>2, <1>3, <1>4 DEF DirectoryInv

\* The tick rests while a Space moves.
LEMMA TickStill ==
  ASSUME DirectoryInv, tick' = tick, root' = root, index' = index,
         \A t \in Spaces : task'[t].op = "hint" => task[t].op = "hint"
  PROVE  TickIsInside'
BY DEF DirectoryInv, TickIsInside, Slot

-----------------------------------------------------------------------------
(***************************************************************************)
(* Steps of a task that write no entry and no watch.                       *)
(***************************************************************************)
LEMMA TaskMoves ==
  ASSUME Sized, DirectoryInv, NEW s \in Spaces, NEW x \in {NoTask} \cup Orders \cup Scans,
         task' = [task EXCEPT ![s] = x], UNCHANGED <<root, entry, index, watch, seen>>,
         config' \in [Spaces -> Pins \cup {"none"}], wake' \in [Spaces -> SUBSET Watches],
         installed' \in Pins, tick' \in Ticks, TickIsInside',
         x.at = "register" /\ Registered(s) => entry[s].gen + 2 <= MaxGen,
         x.at \in WriteAts => task[s].at \in WriteAts,
         x.at \in {"config", "work"} => task[s].at \in {"config", "work"},
         x.at \in ScanAts => CopyIsTrue(s, x)
  PROVE  DirectoryInv'
<1>1. /\ root \in [allocated : 0..MaxSlots, cursor : 0..MaxSlots]
      /\ entry \in [Spaces -> Entries \cup {NoEntry}] /\ index \in [Slots -> Spaces \cup {NoSpace}]
      /\ watch \in [Spaces -> [Watches -> {"disarmed", "armed", "fired", "archived"}]]
      /\ task \in [Spaces -> {NoTask} \cup Orders \cup Allocations \cup Scans]
      /\ seen \in [Spaces -> SUBSET Watches]
  BY InvTypes
<1>2. /\ task' \in [Spaces -> {NoTask} \cup Orders \cup Allocations \cup Scans] /\ task'[s] = x
      /\ \A t \in Spaces : t # s => task'[t] = task[t]
  BY <1>1
<1>3. Types' BY <1>1, <1>2 DEF Types
<1>4. Registered(s)' = Registered(s) /\ Armed(s)' = Armed(s) BY DEF Registered, Armed
<1>5. EntryIsTrue(s) /\ OrderIsRegistered(s) /\ ScanIsTrue(s) /\ IndexIsWritten(s) BY InvSpace
<1>6. EntryIsTrue(s)' BY <1>5 DEF EntryIsTrue, Registered, Scanned, Runnable, Armed
<1>7. x.at # "entry" BY DEF NoTask, Orders, Scans, ScanAts, WriteAts
<1>8. OrderIsRegistered(s)' BY <1>2, <1>4, <1>5, <1>7 DEF OrderIsRegistered
<1>9. ScanIsTrue(s)' BY <1>2 DEF ScanIsTrue, CopyIsTrue, Registered, Scanned, Runnable, Armed
<1>10. IndexIsWritten(s)' BY <1>2, <1>4, <1>5 DEF IndexIsWritten
<1>11. SlotOf(s)' = SlotOf(s) \/ SlotOf(s)' = 0 BY <1>2, <1>4, <1>5, <1>7 DEF SlotOf, OrderIsRegistered
<1>12. Registered(s) => Registered(s)' /\ entry'[s].slot = entry[s].slot BY <1>4
<1> QED BY <1>2, <1>3, <1>6, <1>8, <1>9, <1>10, <1>11, <1>12, SpaceMoves

\* A task that ends without a write.
LEMMA TaskEnds ==
  ASSUME Sized, DirectoryInv, NEW s \in Spaces, Done(s),
         UNCHANGED <<root, entry, index, watch, seen, config, wake, installed, tick>>
  PROVE  DirectoryInv'
<1>1. task' = [task EXCEPT ![s] = NoTask] BY DEF Done
<1>2. config \in [Spaces -> Pins \cup {"none"}] /\ wake \in [Spaces -> SUBSET Watches] /\ installed \in Pins
      /\ tick \in Ticks /\ task \in [Spaces -> {NoTask} \cup Orders \cup Allocations \cup Scans]
  BY InvTypes
<1>3. \A t \in Spaces : task'[t].op = "hint" => task[t].op = "hint" BY <1>1, <1>2 DEF NoTask
<1>4. TickIsInside' BY <1>3, TickStill
<1>5. NoTask.at = "idle" BY DEF NoTask
<1>6. NoTask.at # "register" /\ NoTask.at \notin WriteAts /\ NoTask.at \notin ScanAts BY <1>5 DEF WriteAts, ScanAts
<1>7. NoTask.at \notin {"config", "work"} BY <1>5
<1> QED BY <1>1, <1>2, <1>4, <1>6, <1>7, TaskMoves

LEMMA BeginKeeps ==
  ASSUME Sized, DirectoryInv, NEW s \in Spaces, NEW order \in Ops \ {"scan"}, Begin(s, order) PROVE DirectoryInv'
<1>1. PICK x : x = [op |-> order, at |-> "register"] OBVIOUS
<1>2. task' = [task EXCEPT ![s] = x] /\ UNCHANGED <<root, entry, index, watch, seen, config, wake, installed, tick>>
      /\ (Registered(s) => entry[s].gen + 2 <= MaxGen)
  BY <1>1 DEF Begin, store, native
<1>3. config \in [Spaces -> Pins \cup {"none"}] /\ wake \in [Spaces -> SUBSET Watches] /\ installed \in Pins
      /\ tick \in Ticks /\ task \in [Spaces -> {NoTask} \cup Orders \cup Allocations \cup Scans]
  BY InvTypes
<1>4. x \in Orders /\ x.at = "register" /\ x.op # "hint" BY <1>1 DEF Orders, Sized
<1>5. \A t \in Spaces : task'[t].op = "hint" => task[t].op = "hint" BY <1>2, <1>3, <1>4
<1>6. TickIsInside' BY <1>2, <1>5, TickStill
<1>7. x.at \notin WriteAts /\ x.at \notin ScanAts /\ x.at \notin {"config", "work"} BY <1>4 DEF WriteAts, ScanAts
<1> QED BY <1>2, <1>3, <1>4, <1>6, <1>7, TaskMoves

LEMMA RefuseKeeps ==
  ASSUME Sized, DirectoryInv, NEW s \in Spaces, Refuse(s) \/ NothingToDo(s) PROVE DirectoryInv'
<1>1. Done(s) /\ UNCHANGED <<root, entry, index, watch, seen, config, wake, installed, tick>>
  BY DEF Refuse, NothingToDo, Done, store, native
<1> QED BY <1>1, TaskEnds

LEMMA SetConfigKeeps ==
  ASSUME Sized, DirectoryInv, NEW s \in Spaces, SetConfig(s) PROVE DirectoryInv'
<1>1. task[s].at = "config" /\ config' = [config EXCEPT ![s] = installed]
      /\ task' = [task EXCEPT ![s].at = "work"] /\ UNCHANGED <<root, entry, index, watch, wake, tick, installed, seen>>
  BY DEF SetConfig, store
<1>2. config \in [Spaces -> Pins \cup {"none"}] /\ wake \in [Spaces -> SUBSET Watches] /\ installed \in Pins
      /\ tick \in Ticks /\ task \in [Spaces -> {NoTask} \cup Orders \cup Allocations \cup Scans]
  BY InvTypes
<1>3. task[s] \in Orders BY <1>1, TaskIs
<1>4. PICK x : x = [task[s] EXCEPT !.at = "work"] OBVIOUS
<1>5. x \in Orders /\ x.at = "work" /\ x.op = task[s].op BY <1>3, <1>4 DEF Orders, WriteAts
<1>6. task' = [task EXCEPT ![s] = x] BY <1>1, <1>2, <1>4
<1>7. \A t \in Spaces : task'[t].op = "hint" => task[t].op = "hint" BY <1>2, <1>5, <1>6
<1>8. TickIsInside' BY <1>1, <1>7, TickStill
<1>9. x.at # "register" /\ task[s].at \in WriteAts /\ x.at \notin ScanAts BY <1>1, <1>5 DEF WriteAts, ScanAts
<1>10. config' \in [Spaces -> Pins \cup {"none"}] BY <1>1, <1>2
<1> QED BY <1>1, <1>2, <1>5, <1>6, <1>8, <1>9, <1>10, TaskMoves

-----------------------------------------------------------------------------
(***************************************************************************)
(* The scan.                                                               *)
(***************************************************************************)
LEMMA ScanMoves ==
  ASSUME Sized, DirectoryInv, NEW s \in Spaces, NEW x \in Scans, CopyIsTrue(s, x),
         task' = [task EXCEPT ![s] = x],
         UNCHANGED <<root, entry, index, watch, seen, config, installed, tick>>,
         wake' \in [Spaces -> SUBSET Watches]
  PROVE  DirectoryInv'
<1>1. config \in [Spaces -> Pins \cup {"none"}] /\ installed \in Pins
      /\ tick \in Ticks /\ task \in [Spaces -> {NoTask} \cup Orders \cup Allocations \cup Scans]
  BY InvTypes
<1>2. x.op # "hint" /\ x.at \in ScanAts BY ScanFields
<1>3. \A t \in Spaces : task'[t].op = "hint" => task[t].op = "hint" BY <1>1, <1>2
<1>4. TickIsInside' BY <1>3, TickStill
<1>5. x.at # "register" /\ x.at \notin WriteAts /\ x.at \notin {"config", "work"} BY <1>2 DEF ScanAts, WriteAts
<1> QED BY <1>1, <1>4, <1>5, TaskMoves

LEMMA FreshIs ==
  ASSUME Sized, NEW g \in 0..MaxGen
  PROVE  /\ FreshCheckpoint(g) \in Checkpoints /\ FreshCheckpoint(g).gen = g
         /\ FreshCheckpoint(g).after = 0 /\ FreshCheckpoint(g).rdone = FALSE
BY DEF FreshCheckpoint, Checkpoints, Sized

\* Nothing is claimed by a checkpoint that has not begun.
LEMMA FreshClaimsNothing ==
  ASSUME Sized, NEW s \in Spaces, NEW c, c.after = 0, c.rdone = FALSE PROVE Scanned(s, c)
BY DEF Scanned, Runnable, Armed, Watches, Sized

\* What a scan starts with.
LEMMA ScanBeginIs ==
  ASSUME Sized, DirectoryInv, NEW s \in Spaces, ScanBegin(s)
  PROVE  \E x \in Scans : CopyIsTrue(s, x) /\ task' = [task EXCEPT ![s] = x]
<1>1. Registered(s) BY DEF ScanBegin
<1>2. PICK e : e = entry[s] OBVIOUS
<1>3. e \in Entries BY <1>1, <1>2, RegisteredEntry
<1>4. /\ e.recon <= e.gen /\ e.cp.gen <= e.gen
      /\ e.cp.gen = e.gen => Scanned(s, e.cp)
  BY <1>1, <1>2, InvSpace DEF EntryIsTrue
<1>5. e.gen \in 1..MaxGen /\ e.cp \in Checkpoints BY <1>3, EntryFields
<1>6. e.gen \in 0..MaxGen /\ e.gen <= e.gen BY <1>5 DEF Sized
<1>7. CASE ~e.enabled
  <2>1. PICK f : f = [e EXCEPT !.failed = FALSE] OBVIOUS
  <2>2. f \in Entries /\ f.gen = e.gen /\ f.recon = e.recon /\ f.slot = e.slot /\ f.cp = e.cp /\ ~f.enabled
    BY <1>3, <1>7, <2>1 DEF Entries
  <2>3. PICK x : x = [op |-> "scan", at |-> "finish", e |-> f, n |-> 0] OBVIOUS
  <2>4. x \in Scans /\ x.e = f /\ x.at = "finish" BY <2>2, <2>3 DEF Scans, ScanAts
  <2>5. task' = [task EXCEPT ![s] = x] BY <1>2, <1>7, <2>1, <2>3 DEF ScanBegin
  <2>6. CopyIsTrue(s, x) BY <1>1, <1>2, <1>4, <2>2, <2>4 DEF CopyIsTrue
  <2> QED BY <2>4, <2>5, <2>6
<1>8. CASE e.enabled /\ config[s] # e.pins
  <2>1. PICK f : f = [e EXCEPT !.failed = TRUE] OBVIOUS
  <2>2. f \in Entries /\ f.gen = e.gen /\ f.recon = e.recon /\ f.slot = e.slot /\ f.cp = e.cp /\ f.failed
    BY <1>3, <2>1 DEF Entries
  <2>3. PICK x : x = [op |-> "scan", at |-> "finish", e |-> f, n |-> 0] OBVIOUS
  <2>4. x \in Scans /\ x.e = f /\ x.at = "finish" BY <2>2, <2>3 DEF Scans, ScanAts
  <2>5. task' = [task EXCEPT ![s] = x] BY <1>2, <1>8, <2>1, <2>3 DEF ScanBegin
  <2>6. CopyIsTrue(s, x) BY <1>1, <1>2, <1>4, <2>2, <2>4 DEF CopyIsTrue
  <2> QED BY <2>4, <2>5, <2>6
<1>9. CASE e.enabled /\ config[s] = e.pins
  <2>1. PICK c : c = IF e.cp.gen # e.gen \/ Complete(e.cp) THEN FreshCheckpoint(e.gen) ELSE e.cp OBVIOUS
  <2>2. c \in Checkpoints /\ c.gen = e.gen /\ Scanned(s, c)
    <3>1. CASE e.cp.gen # e.gen \/ Complete(e.cp)
      <4>1. c = FreshCheckpoint(e.gen) BY <2>1, <3>1
      <4>2. c \in Checkpoints /\ c.gen = e.gen /\ c.after = 0 /\ c.rdone = FALSE BY <1>6, <4>1, FreshIs
      <4> QED BY <4>2, FreshClaimsNothing
    <3>2. CASE ~ (e.cp.gen # e.gen \/ Complete(e.cp)) BY <1>4, <1>5, <2>1, <3>2
    <3> QED BY <3>1, <3>2
  <2>3. PICK g : g = [e EXCEPT !.cp = c] OBVIOUS
  <2>4. g \in Entries /\ g.gen = e.gen /\ g.recon = e.recon /\ g.slot = e.slot /\ g.cp = c
    BY <1>3, <2>2, <2>3 DEF Entries
  <2>5. PICK f : f = [g EXCEPT !.failed = FALSE] OBVIOUS
  <2>6. f \in Entries /\ f.gen = e.gen /\ f.recon = e.recon /\ f.slot = e.slot /\ f.cp = c
    BY <2>4, <2>5 DEF Entries
  <2>7. PICK x : x = [op |-> "scan", at |-> "runnable", e |-> f, n |-> 0] OBVIOUS
  <2>8. x \in Scans /\ x.e = f /\ x.at = "runnable" BY <2>6, <2>7 DEF Scans, ScanAts
  <2>9. f = [e EXCEPT !.cp = IF e.cp.gen # e.gen \/ Complete(e.cp) THEN FreshCheckpoint(e.gen) ELSE @, !.failed = FALSE]
    BY <1>3, <2>1, <2>3, <2>5 DEF Entries
  <2>10. task' = [task EXCEPT ![s] = x] BY <1>2, <1>9, <2>7, <2>9 DEF ScanBegin
  <2>11. CopyIsTrue(s, x) BY <1>1, <1>2, <1>4, <1>6, <2>2, <2>6, <2>8 DEF CopyIsTrue
  <2> QED BY <2>8, <2>10, <2>11
<1> QED BY <1>3, <1>7, <1>8, <1>9, EntryFields

LEMMA DirectScanKeeps ==
  ASSUME Sized, DirectoryInv, NEW s \in Spaces, DirectScan(s) PROVE DirectoryInv'
<1>1. ScanBegin(s) /\ UNCHANGED <<root, entry, index, watch, seen, config, wake, installed, tick>>
  BY DEF DirectScan, ScanBegin, store, native
<1>2. PICK x \in Scans : CopyIsTrue(s, x) /\ task' = [task EXCEPT ![s] = x] BY <1>1, ScanBeginIs
<1>3. wake \in [Spaces -> SUBSET Watches] BY InvTypes
<1> QED BY <1>1, <1>2, <1>3, ScanMoves

\* A scan that is under way.
LEMMA ScanRuns ==
  ASSUME Sized, DirectoryInv, NEW s \in Spaces, task[s].at \in ScanAts
  PROVE  /\ task[s] \in Scans /\ CopyIsTrue(s, task[s]) /\ task[s].e \in Entries /\ task[s].e.cp \in Checkpoints
         /\ task \in [Spaces -> {NoTask} \cup Orders \cup Allocations \cup Scans]
         /\ wake \in [Spaces -> SUBSET Watches]
<1>1. task[s] \in Scans BY TaskIs
<1>2. task[s].e \in Entries BY <1>1, ScanFields
<1>3. task[s].e.cp \in Checkpoints BY <1>2, EntryFields
<1>4. CopyIsTrue(s, task[s]) BY InvSpace DEF ScanIsTrue
<1> QED BY <1>1, <1>2, <1>3, <1>4, InvTypes

\* A step of the scan that moves on with a checkpoint of the same generation.
LEMMA CopyFollows ==
  ASSUME Sized, DirectoryInv, NEW s \in Spaces, task[s].at \in ScanAts, NEW a \in ScanAts,
         NEW c \in Checkpoints, c.gen = task[s].e.cp.gen, Scanned(s, task[s].e.cp) => Scanned(s, c),
         task[s].at = "finish" => a = "finish"
  PROVE  LET x == [[task[s] EXCEPT !.at = a] EXCEPT !.e = [task[s].e EXCEPT !.cp = c]]
         IN  x \in Scans /\ CopyIsTrue(s, x)
<1>1. task[s] \in Scans /\ CopyIsTrue(s, task[s]) /\ task[s].e \in Entries BY ScanRuns
<1>2. PICK f : f = [task[s].e EXCEPT !.cp = c] OBVIOUS
<1>3. /\ f \in Entries /\ f.gen = task[s].e.gen /\ f.recon = task[s].e.recon /\ f.slot = task[s].e.slot
      /\ f.cp = c /\ f.enabled = task[s].e.enabled /\ f.failed = task[s].e.failed
  BY <1>1, <1>2 DEF Entries
<1>4. PICK y : y = [task[s] EXCEPT !.at = a] OBVIOUS
<1>5. y \in Scans /\ y.at = a BY <1>1, <1>4 DEF Scans
<1>6. PICK x : x = [y EXCEPT !.e = f] OBVIOUS
<1>7. x \in Scans /\ x.at = a /\ x.e = f BY <1>3, <1>5, <1>6 DEF Scans
<1>8. CopyIsTrue(s, x) BY <1>1, <1>3, <1>7 DEF CopyIsTrue
<1> QED BY <1>2, <1>4, <1>6, <1>7, <1>8

LEMMA EndRunnableKeeps ==
  ASSUME Sized, DirectoryInv, NEW s \in Spaces, EndRunnable(s) PROVE DirectoryInv'
<1>1. task[s].at = "runnable" /\ UNCHANGED <<root, entry, index, watch, seen, config, wake, installed, tick>>
  BY DEF EndRunnable, store, native
<1>2. task[s].at \in ScanAts /\ task[s].at # "finish" /\ "all" \in ScanAts BY <1>1 DEF ScanAts
<1>3. /\ task[s] \in Scans /\ task[s].e \in Entries /\ task[s].e.cp \in Checkpoints
      /\ task \in [Spaces -> {NoTask} \cup Orders \cup Allocations \cup Scans]
      /\ wake \in [Spaces -> SUBSET Watches]
  BY <1>2, ScanRuns
<1>4. ASSUME NEW c \in Checkpoints, c.gen = task[s].e.cp.gen, Scanned(s, task[s].e.cp) => Scanned(s, c),
             task' = [task EXCEPT ![s] = [[task[s] EXCEPT !.at = "all"] EXCEPT !.e = [task[s].e EXCEPT !.cp = c]]]
      PROVE DirectoryInv'
  <2>1. PICK x : x = [[task[s] EXCEPT !.at = "all"] EXCEPT !.e = [task[s].e EXCEPT !.cp = c]] OBVIOUS
  <2>2. x \in Scans /\ CopyIsTrue(s, x) BY <1>2, <1>4, <2>1, CopyFollows
  <2> QED BY <1>1, <1>3, <1>4, <2>1, <2>2, ScanMoves
<1>5. CASE task' = [task EXCEPT ![s].at = "all"]
  <2>1. task' = [task EXCEPT ![s] = [[task[s] EXCEPT !.at = "all"] EXCEPT !.e = [task[s].e EXCEPT !.cp = task[s].e.cp]]]
    BY <1>3, <1>5 DEF Scans, Entries
  <2> QED BY <1>3, <1>4, <2>1
<1>6. CASE /\ Beyond(Runnable(s), task[s].e.cp.after) = {}
           /\ task' = [task EXCEPT ![s].at = "all", ![s].e.cp.rdone = TRUE, ![s].e.cp.after = 0]
  <2>1. PICK b : b = [task[s].e.cp EXCEPT !.rdone = TRUE] OBVIOUS
  <2>2. b \in Checkpoints /\ b.gen = task[s].e.cp.gen /\ b.rdone = TRUE BY <1>3, <2>1 DEF Checkpoints
  <2>3. PICK c : c = [b EXCEPT !.after = 0] OBVIOUS
  <2>4. c \in Checkpoints /\ c.gen = task[s].e.cp.gen /\ c.rdone = TRUE BY <2>2, <2>3 DEF Checkpoints, Sized
  <2>5. task[s].e.cp.after \in Nat BY <1>3, CheckpointFields DEF Sized
  <2>6. \A w \in Runnable(s) : w \in Nat /\ w <= task[s].e.cp.after
    BY <1>6, <2>5 DEF Beyond, Runnable, Armed, Watches, Sized
  <2>7. Scanned(s, task[s].e.cp) => Scanned(s, c) BY <2>6 DEF Scanned
  <2>8. task' = [task EXCEPT ![s] = [[task[s] EXCEPT !.at = "all"] EXCEPT !.e = [task[s].e EXCEPT !.cp = c]]]
    <3>1. PICK z : z = [task EXCEPT ![s].at = "all"] OBVIOUS
    <3>2. task' = [[z EXCEPT ![s].e.cp.rdone = TRUE] EXCEPT ![s].e.cp.after = 0] BY <1>6, <3>1
    <3>3. PICK y : y = [task[s] EXCEPT !.at = "all"] OBVIOUS
    <3>4. y \in Scans /\ y.e = task[s].e BY <1>2, <1>3, <3>3 DEF Scans
    <3>5. z = [task EXCEPT ![s] = y] /\ z[s] = y /\ DOMAIN z = Spaces BY <1>3, <3>1, <3>3
    <3>6. [z EXCEPT ![s].e.cp.rdone = TRUE] = [z EXCEPT ![s] = [y EXCEPT !.e = [y.e EXCEPT !.cp = b]]]
      BY <2>1, <3>4, <3>5
    <3>7. PICK v : v = [y EXCEPT !.e = [y.e EXCEPT !.cp = b]] OBVIOUS
    <3>8. v \in Scans /\ v.e = [y.e EXCEPT !.cp = b] /\ v.e.cp = b
      BY <1>3, <2>2, <3>4, <3>7 DEF Scans, Entries
    <3>9. task' = [[z EXCEPT ![s] = v] EXCEPT ![s] = [v EXCEPT !.e = [v.e EXCEPT !.cp = c]]]
      BY <2>3, <3>2, <3>5, <3>6, <3>7, <3>8
    <3>10. [v EXCEPT !.e = [v.e EXCEPT !.cp = c]] = [y EXCEPT !.e = [y.e EXCEPT !.cp = c]]
      BY <1>3, <3>4, <3>7, <3>8 DEF Scans, Entries
    <3> QED BY <1>3, <3>3, <3>4, <3>5, <3>9, <3>10
  <2> QED BY <1>4, <2>4, <2>7, <2>8
<1> QED BY <1>5, <1>6 DEF EndRunnable

LEMMA ScanAllKeeps ==
  ASSUME Sized, DirectoryInv, NEW s \in Spaces, ScanAll(s) PROVE DirectoryInv'
<1>1. task[s].at = "all" /\ UNCHANGED <<root, entry, index, watch, seen, config, wake, installed, tick>>
  BY DEF ScanAll, store, native
<1>2. task[s].at \in ScanAts /\ task[s].at # "finish" /\ "wakes" \in ScanAts BY <1>1 DEF ScanAts
<1>3. /\ task[s] \in Scans /\ task[s].e \in Entries /\ task[s].e.cp \in Checkpoints
      /\ task \in [Spaces -> {NoTask} \cup Orders \cup Allocations \cup Scans]
      /\ wake \in [Spaces -> SUBSET Watches]
  BY <1>2, ScanRuns
<1>4. ASSUME NEW c \in Checkpoints, c.gen = task[s].e.cp.gen, Scanned(s, task[s].e.cp) => Scanned(s, c),
             task' = [task EXCEPT ![s] = [[task[s] EXCEPT !.at = "wakes"] EXCEPT !.e = [task[s].e EXCEPT !.cp = c]]]
      PROVE DirectoryInv'
  <2>1. PICK x : x = [[task[s] EXCEPT !.at = "wakes"] EXCEPT !.e = [task[s].e EXCEPT !.cp = c]] OBVIOUS
  <2>2. x \in Scans /\ CopyIsTrue(s, x) BY <1>2, <1>4, <2>1, CopyFollows
  <2> QED BY <1>1, <1>3, <1>4, <2>1, <2>2, ScanMoves
<1>5. CASE task' = [task EXCEPT ![s].at = "wakes"]
  <2>1. task' = [task EXCEPT ![s] = [[task[s] EXCEPT !.at = "wakes"] EXCEPT !.e = [task[s].e EXCEPT !.cp = task[s].e.cp]]]
    BY <1>3, <1>5 DEF Scans, Entries
  <2> QED BY <1>3, <1>4, <2>1
<1>6. ASSUME NEW d \in BOOLEAN, NEW m \in 0..NumWatches,
             task' = [task EXCEPT ![s].at = "wakes", ![s].e.cp.adone = d, ![s].e.cp.all = m]
      PROVE DirectoryInv'
  <2>1. PICK b : b = [task[s].e.cp EXCEPT !.adone = d] OBVIOUS
  <2>2. b \in Checkpoints /\ b.gen = task[s].e.cp.gen /\ b.rdone = task[s].e.cp.rdone /\ b.after = task[s].e.cp.after
    BY <1>3, <2>1 DEF Checkpoints
  <2>3. PICK c : c = [b EXCEPT !.all = m] OBVIOUS
  <2>4. c \in Checkpoints /\ c.gen = task[s].e.cp.gen /\ c.rdone = task[s].e.cp.rdone /\ c.after = task[s].e.cp.after
    BY <2>2, <2>3 DEF Checkpoints
  <2>5. Scanned(s, task[s].e.cp) => Scanned(s, c) BY <2>4 DEF Scanned
  <2>6. task' = [task EXCEPT ![s] = [[task[s] EXCEPT !.at = "wakes"] EXCEPT !.e = [task[s].e EXCEPT !.cp = c]]]
    <3>1. PICK z : z = [task EXCEPT ![s].at = "wakes"] OBVIOUS
    <3>2. task' = [[z EXCEPT ![s].e.cp.adone = d] EXCEPT ![s].e.cp.all = m] BY <1>6, <3>1
    <3>3. PICK y : y = [task[s] EXCEPT !.at = "wakes"] OBVIOUS
    <3>4. y \in Scans /\ y.e = task[s].e BY <1>2, <1>3, <3>3 DEF Scans
    <3>5. z = [task EXCEPT ![s] = y] /\ z[s] = y /\ DOMAIN z = Spaces BY <1>3, <3>1, <3>3
    <3>6. [z EXCEPT ![s].e.cp.adone = d] = [z EXCEPT ![s] = [y EXCEPT !.e = [y.e EXCEPT !.cp = b]]]
      BY <2>1, <3>4, <3>5
    <3>7. PICK v : v = [y EXCEPT !.e = [y.e EXCEPT !.cp = b]] OBVIOUS
    <3>8. v \in Scans /\ v.e = [y.e EXCEPT !.cp = b] /\ v.e.cp = b
      BY <1>3, <2>2, <3>4, <3>7 DEF Scans, Entries
    <3>9. task' = [[z EXCEPT ![s] = v] EXCEPT ![s] = [v EXCEPT !.e = [v.e EXCEPT !.cp = c]]]
      BY <2>3, <3>2, <3>5, <3>6, <3>7, <3>8
    <3>10. [v EXCEPT !.e = [v.e EXCEPT !.cp = c]] = [y EXCEPT !.e = [y.e EXCEPT !.cp = c]]
      BY <1>3, <3>4, <3>7, <3>8 DEF Scans, Entries
    <3> QED BY <1>3, <3>3, <3>4, <3>5, <3>9, <3>10
  <2> QED BY <1>4, <2>4, <2>5, <2>6
<1>7. CASE ~ task[s].e.cp.adone
  <2> DEFINE rest == Beyond(Armed(s), task[s].e.cp.all)
             page == {w \in rest : Cardinality({v \in rest : v <= w}) <= PageSize}
             last == CHOOSE w \in page : \A v \in page : w >= v
             d == Cardinality(page) < PageSize
  <2>1. task' = [task EXCEPT ![s].at = "wakes",
                             ![s].e.cp.adone = d,
                             ![s].e.cp.all = IF page = {} THEN @ ELSE last]
    BY <1>7, Zenon DEF ScanAll
  <2>2. page \in SUBSET Watches BY DEF Beyond, Armed
  <2>3. page # {} => last \in page
    <3>1. page # {} => \E w \in page : \A v \in page : w >= v BY <2>2, GreatestWatch
    <3> QED BY <3>1, Zenon
  <2>4. d \in BOOLEAN OBVIOUS
  <2> HIDE DEF d
  <2> HIDE DEF last
  <2> HIDE DEF page
  <2>5. PICK y : y = [task[s] EXCEPT !.at = "wakes"] OBVIOUS
  <2>6. y \in Scans /\ y.e = task[s].e BY <1>2, <1>3, <2>5 DEF Scans
  <2>7. PICK z : z = [[task EXCEPT ![s].at = "wakes"] EXCEPT ![s].e.cp.adone = d] OBVIOUS
  <2>8. z[s].e.cp.all = task[s].e.cp.all
    <3>1. z = [[task EXCEPT ![s] = y] EXCEPT ![s].e.cp.adone = d] BY <1>3, <2>5, <2>7
    <3>2. z[s] = [y EXCEPT !.e.cp.adone = d] BY <1>3, <3>1
    <3>3. z[s].e.cp = [y.e.cp EXCEPT !.adone = d] BY <1>3, <2>6, <3>2 DEF Scans, Entries
    <3> QED BY <1>3, <2>6, <3>3 DEF Checkpoints
  <2>9. PICK m : m = IF page = {} THEN task[s].e.cp.all ELSE last OBVIOUS
  <2>10. m \in 0..NumWatches
    <3>1. CASE page = {} BY <1>3, <2>9, <3>1, CheckpointFields
    <3>2. CASE page # {}
      <4>1. m \in Watches BY <2>2, <2>3, <2>9, <3>2
      <4> QED BY <4>1 DEF Watches, Sized
    <3> QED BY <3>1, <3>2
  <2>11. ASSUME page = {} PROVE task' = [z EXCEPT ![s].e.cp.all = m]
    <3>1. task' = [task EXCEPT ![s].at = "wakes", ![s].e.cp.adone = d, ![s].e.cp.all = @] BY <2>1, <2>11
    <3> QED BY <2>7, <2>8, <2>9, <2>11, <3>1
  <2>12. ASSUME page # {} PROVE task' = [z EXCEPT ![s].e.cp.all = m]
    <3>1. task' = [task EXCEPT ![s].at = "wakes", ![s].e.cp.adone = d, ![s].e.cp.all = last] BY <2>1, <2>12
    <3> QED BY <2>7, <2>9, <2>12, <3>1
  <2>13. task' = [task EXCEPT ![s].at = "wakes", ![s].e.cp.adone = d, ![s].e.cp.all = m] BY <2>7, <2>11, <2>12
  <2> QED BY <1>6, <2>4, <2>10, <2>13
<1>8. CASE task[s].e.cp.adone BY <1>5, <1>8 DEF ScanAll
<1> QED BY <1>7, <1>8

LEMMA WakesKeep ==
  ASSUME Sized, DirectoryInv, NEW s \in Spaces, ProcessWake(s) \/ EndWakes(s) PROVE DirectoryInv'
<1>1. task[s].at = "wakes" /\ UNCHANGED <<root, entry, index, watch, seen, config, installed, tick>>
  BY DEF ProcessWake, EndWakes, store, native
<1>2. task[s].at \in ScanAts /\ task[s].at # "finish" /\ "finish" \in ScanAts BY <1>1 DEF ScanAts
<1>3. /\ task[s] \in Scans /\ task[s].e \in Entries /\ task[s].e.cp \in Checkpoints
      /\ task \in [Spaces -> {NoTask} \cup Orders \cup Allocations \cup Scans]
      /\ wake \in [Spaces -> SUBSET Watches]
  BY <1>2, ScanRuns
<1>4. PICK y : y = [task[s] EXCEPT !.at = "finish"] OBVIOUS
<1>5. y \in Scans /\ y.e = task[s].e BY <1>2, <1>3, <1>4 DEF Scans
<1>6. PICK z : z = [task EXCEPT ![s].at = "finish"] OBVIOUS
<1>7. z = [task EXCEPT ![s] = y] /\ z[s] = y /\ DOMAIN z = Spaces BY <1>3, <1>4, <1>6
<1>8. ASSUME NEW c \in Checkpoints, c.gen = task[s].e.cp.gen, c.rdone = task[s].e.cp.rdone,
             c.after = task[s].e.cp.after, wake' \in [Spaces -> SUBSET Watches],
             task' = [task EXCEPT ![s] = [y EXCEPT !.e = [y.e EXCEPT !.cp = c]]]
      PROVE DirectoryInv'
  <2>1. PICK x : x = [[task[s] EXCEPT !.at = "finish"] EXCEPT !.e = [task[s].e EXCEPT !.cp = c]] OBVIOUS
  <2>2. Scanned(s, task[s].e.cp) => Scanned(s, c) BY <1>8 DEF Scanned
  <2>3. x \in Scans /\ CopyIsTrue(s, x) BY <1>2, <1>8, <2>1, <2>2, CopyFollows
  <2>4. task' = [task EXCEPT ![s] = x] BY <1>4, <1>5, <1>8, <2>1
  <2> QED BY <1>1, <1>8, <2>3, <2>4, ScanMoves
<1>9. CASE EndWakes(s)
  <2>1. PICK c : c = [task[s].e.cp EXCEPT !.wdone = TRUE] OBVIOUS
  <2>2. c \in Checkpoints /\ c.gen = task[s].e.cp.gen /\ c.rdone = task[s].e.cp.rdone /\ c.after = task[s].e.cp.after
    BY <1>3, <2>1 DEF Checkpoints
  <2>3. task' = [z EXCEPT ![s].e.cp.wdone = TRUE] /\ wake' = wake BY <1>6, <1>9 DEF EndWakes, native
  <2>4. task' = [task EXCEPT ![s] = [y EXCEPT !.e = [y.e EXCEPT !.cp = c]]]
    BY <1>3, <1>5, <1>7, <2>1, <2>3
  <2> QED BY <1>3, <1>8, <2>2, <2>3, <2>4
<1>10. CASE ProcessWake(s)
  <2>1. PICK page : page = IF task[s].e.cp.pending = {} THEN wake[s] ELSE task[s].e.cp.pending OBVIOUS
  <2>2. page \in SUBSET Watches BY <1>3, <2>1, CheckpointFields
  <2>3. PICK w \in page : /\ wake' \in WakeOutcomes(s, w)
                          /\ task' = [task EXCEPT ![s].at = "finish", ![s].e.cp.pending = page \ {w},
                                                  ![s].e.cp.wdone = page = {w}]
    BY <1>10, <2>1 DEF ProcessWake
  <2>4. wake' \in [Spaces -> SUBSET Watches] BY <1>3, <2>3 DEF WakeOutcomes
  <2>5. PICK q : q = page \ {w} OBVIOUS
  <2>6. PICK d : d = (page = {w}) OBVIOUS
  <2>7. PICK b : b = [task[s].e.cp EXCEPT !.pending = q] OBVIOUS
  <2>8. b \in Checkpoints /\ b.gen = task[s].e.cp.gen /\ b.rdone = task[s].e.cp.rdone /\ b.after = task[s].e.cp.after
    BY <1>3, <2>2, <2>5, <2>7 DEF Checkpoints
  <2>9. PICK c : c = [b EXCEPT !.wdone = d] OBVIOUS
  <2>10. c \in Checkpoints /\ c.gen = task[s].e.cp.gen /\ c.rdone = task[s].e.cp.rdone /\ c.after = task[s].e.cp.after
    BY <2>6, <2>8, <2>9 DEF Checkpoints
  <2>11. task' = [[z EXCEPT ![s].e.cp.pending = q] EXCEPT ![s].e.cp.wdone = d] BY <1>6, <2>3, <2>5, <2>6
  <2>12. [z EXCEPT ![s].e.cp.pending = q] = [z EXCEPT ![s] = [y EXCEPT !.e = [y.e EXCEPT !.cp = b]]]
    BY <1>5, <1>7, <2>7
  <2>13. PICK v : v = [y EXCEPT !.e = [y.e EXCEPT !.cp = b]] OBVIOUS
  <2>14. v \in Scans /\ v.e = [y.e EXCEPT !.cp = b] /\ v.e.cp = b
    BY <1>3, <1>5, <2>8, <2>13 DEF Scans, Entries
  <2>15. task' = [[z EXCEPT ![s] = v] EXCEPT ![s] = [v EXCEPT !.e = [v.e EXCEPT !.cp = c]]]
    BY <1>7, <2>9, <2>11, <2>12, <2>13, <2>14
  <2>16. [v EXCEPT !.e = [v.e EXCEPT !.cp = c]] = [y EXCEPT !.e = [y.e EXCEPT !.cp = c]]
    BY <1>3, <1>5, <2>13, <2>14 DEF Scans, Entries
  <2>17. task' = [task EXCEPT ![s] = [y EXCEPT !.e = [y.e EXCEPT !.cp = c]]] BY <1>3, <1>7, <2>15, <2>16
  <2> QED BY <1>8, <2>4, <2>10, <2>17
<1> QED BY <1>9, <1>10

\* A scan that is cut short claims no more than it looked at.
LEMMA ScanCut ==
  ASSUME Sized, DirectoryInv, NEW s \in Spaces, Late(s) \/ ScanFails(s) PROVE DirectoryInv'
<1>1. task[s].at \in {"runnable", "all", "wakes"}
      /\ UNCHANGED <<root, entry, index, watch, seen, config, wake, installed, tick>>
  BY DEF Late, ScanFails, store, native
<1>2. task[s].at \in ScanAts /\ task[s].at # "finish" /\ "finish" \in ScanAts BY <1>1 DEF ScanAts
<1>3. /\ task[s] \in Scans /\ CopyIsTrue(s, task[s]) /\ task[s].e \in Entries
      /\ task \in [Spaces -> {NoTask} \cup Orders \cup Allocations \cup Scans]
      /\ wake \in [Spaces -> SUBSET Watches]
  BY <1>2, ScanRuns
<1>4. PICK y : y = [task[s] EXCEPT !.at = "finish"] OBVIOUS
<1>5. y \in Scans /\ y.e = task[s].e /\ y.at = "finish" BY <1>2, <1>3, <1>4 DEF Scans
<1>6. PICK z : z = [task EXCEPT ![s].at = "finish"] OBVIOUS
<1>7. z = [task EXCEPT ![s] = y] /\ z[s] = y /\ DOMAIN z = Spaces BY <1>3, <1>4, <1>6
<1>8. CASE Late(s)
  <2>1. task' = [task EXCEPT ![s] = y] BY <1>6, <1>7, <1>8 DEF Late
  <2>2. CopyIsTrue(s, y) BY <1>2, <1>3, <1>5 DEF CopyIsTrue
  <2> QED BY <1>1, <1>3, <1>5, <2>1, <2>2, ScanMoves
<1>9. CASE ScanFails(s)
  <2>1. task' = [z EXCEPT ![s].e.failed = TRUE] BY <1>6, <1>9 DEF ScanFails
  <2>2. PICK f : f = [y.e EXCEPT !.failed = TRUE] OBVIOUS
  <2>3. /\ f \in Entries /\ f.gen = y.e.gen /\ f.recon = y.e.recon /\ f.slot = y.e.slot
        /\ f.cp = y.e.cp /\ f.failed = TRUE
    BY <1>3, <1>5, <2>2 DEF Entries
  <2>4. PICK x : x = [y EXCEPT !.e = f] OBVIOUS
  <2>5. x \in Scans /\ x.e = f /\ x.at = "finish" BY <1>5, <2>3, <2>4 DEF Scans
  <2>6. task' = [z EXCEPT ![s] = x] BY <1>7, <2>1, <2>2, <2>4
  <2>7. task' = [task EXCEPT ![s] = x] BY <1>3, <1>7, <2>6
  <2>8. CopyIsTrue(s, x) BY <1>3, <1>5, <2>3, <2>5 DEF CopyIsTrue
  <2> QED BY <1>1, <1>3, <2>5, <2>7, <2>8, ScanMoves
<1> QED BY <1>8, <1>9

-----------------------------------------------------------------------------
(***************************************************************************)
(* Writes of the entry.                                                    *)
(***************************************************************************)
LEMMA EntryMoves ==
  ASSUME Sized, DirectoryInv, NEW s \in Spaces, NEW e \in Entries, NEW x \in {NoTask} \cup Orders,
         entry' = [entry EXCEPT ![s] = e], task' = [task EXCEPT ![s] = x],
         UNCHANGED <<root, index, config, watch, wake, installed, seen>>,
         tick' \in Ticks, TickIsInside',
         e.slot = SlotOf(s), e.recon <= e.gen, e.cp.gen <= e.gen,
         e.gen = e.recon => Runnable(s) \subseteq seen[s],
         e.cp.gen = e.gen => Scanned(s, e.cp),
         x = NoTask \/ (x.at = "index" /\ e.gen + 1 <= MaxGen /\ e.recon < e.gen /\ e.cp.gen < e.gen)
  PROVE  DirectoryInv'
<1>1. /\ root \in [allocated : 0..MaxSlots, cursor : 0..MaxSlots]
      /\ entry \in [Spaces -> Entries \cup {NoEntry}] /\ index \in [Slots -> Spaces \cup {NoSpace}]
      /\ config \in [Spaces -> Pins \cup {"none"}]
      /\ watch \in [Spaces -> [Watches -> {"disarmed", "armed", "fired", "archived"}]]
      /\ wake \in [Spaces -> SUBSET Watches]
      /\ task \in [Spaces -> {NoTask} \cup Orders \cup Allocations \cup Scans]
      /\ installed \in Pins /\ seen \in [Spaces -> SUBSET Watches]
  BY InvTypes
<1>2. /\ task' \in [Spaces -> {NoTask} \cup Orders \cup Allocations \cup Scans] /\ task'[s] = x
      /\ \A t \in Spaces : t # s => task'[t] = task[t]
  BY <1>1
<1>3. /\ entry' \in [Spaces -> Entries \cup {NoEntry}] /\ entry'[s] = e
      /\ \A t \in Spaces : t # s => entry'[t] = entry[t]
  BY <1>1
<1>4. Types' BY <1>1, <1>2, <1>3 DEF Types
<1>5. Registered(s)' BY <1>3, EntryIsEntry DEF Registered
<1>6. OrderIsRegistered(s) /\ IndexIsWritten(s) BY InvSpace
<1>7. x.at \in {"idle", "index"} BY DEF NoTask
<1>8. Armed(s)' = Armed(s) /\ Runnable(s)' = Runnable(s) BY DEF Runnable, Armed
<1>9. EntryIsTrue(s)' BY <1>3, <1>8 DEF EntryIsTrue, Scanned
<1>10. OrderIsRegistered(s)' BY <1>2, <1>3, <1>5, <1>7 DEF OrderIsRegistered, WriteAts, NoTask
<1>11. ScanIsTrue(s)' BY <1>2, <1>7 DEF ScanIsTrue, ScanAts
<1>12. Registered(s) => e.slot = entry[s].slot BY <1>6 DEF SlotOf, OrderIsRegistered
<1>13. IndexIsWritten(s)' BY <1>2, <1>3, <1>5, <1>6, <1>7, <1>8, <1>12 DEF IndexIsWritten
<1>14. SlotOf(s)' = SlotOf(s) BY <1>2, <1>3, <1>5, <1>7 DEF SlotOf
<1>15. \A t \in Spaces : t # s => watch'[t] = watch[t] /\ seen'[t] = seen[t] OBVIOUS
<1> QED BY <1>2, <1>3, <1>4, <1>5, <1>9, <1>10, <1>11, <1>12, <1>13, <1>14, <1>15, SpaceMoves

LEMMA EditedIs ==
  ASSUME Sized, NEW e \in Entries, e.gen + 1 <= MaxGen
  PROVE  /\ Edited(e) \in Entries /\ Edited(e).gen = e.gen + 1 /\ Edited(e).recon = e.recon
         /\ Edited(e).slot = e.slot /\ Edited(e).cp = e.cp /\ Edited(e).rechecks = e.rechecks
<1>1. e.gen + 1 \in 1..MaxGen BY EntryFields DEF Sized
<1>2. PICK g : g = [e EXCEPT !.gen = e.gen + 1] OBVIOUS
<1>3. g \in Entries /\ g.gen = e.gen + 1 /\ g.recon = e.recon /\ g.slot = e.slot /\ g.cp = e.cp
      /\ g.rechecks = e.rechecks
  BY <1>1, <1>2 DEF Entries
<1>4. Edited(e) = [[g EXCEPT !.due = TRUE] EXCEPT !.failed = FALSE] BY <1>2 DEF Edited
<1> QED BY <1>3, <1>4 DEF Entries

\* An edit of an entry that nothing has looked at since: a new generation.
LEMMA EditKeeps ==
  ASSUME Sized, DirectoryInv, NEW s \in Spaces, Registered(s), entry[s].gen + 1 <= MaxGen, NEW e \in Entries,
         e.gen = entry[s].gen + 1, e.recon = entry[s].recon, e.slot = entry[s].slot, e.cp = entry[s].cp,
         entry' = [entry EXCEPT ![s] = e], task' = [task EXCEPT ![s] = NoTask],
         UNCHANGED <<root, index, config, watch, wake, installed, seen>>, tick' \in Ticks, TickIsInside'
  PROVE  DirectoryInv'
<1>1. entry[s] \in Entries BY RegisteredEntry
<1>2. entry[s].gen \in Nat /\ entry[s].recon \in Nat /\ entry[s].cp.gen \in Nat
  BY <1>1, EntryFields, CheckpointFields DEF Sized
<1>3. entry[s].recon <= entry[s].gen /\ entry[s].cp.gen <= entry[s].gen BY InvSpace DEF EntryIsTrue
<1>4. e.recon < e.gen /\ e.cp.gen < e.gen BY <1>2, <1>3
<1>5. e.recon <= e.gen /\ e.cp.gen <= e.gen /\ e.gen # e.recon /\ e.cp.gen # e.gen BY <1>2, <1>4
<1>6. e.slot = SlotOf(s) BY InvSpace DEF SlotOf, OrderIsRegistered
<1> QED BY <1>5, <1>6, EntryMoves

LEMMA RecheckAdded ==
  ASSUME Sized, NEW R \in RecheckSets, NEW k \in RecheckKeys \cup {Review},
         k \in R \/ ~ (Cardinality(R) >= MaxRechecks)
  PROVE  R \cup {k} \in RecheckSets
<1>1. R \in SUBSET (RecheckKeys \cup {Review}) /\ IsFiniteSet(R) /\ Cardinality(R) <= MaxRechecks BY DEF RecheckSets
<1>2. CASE k \in R
  <2>1. R \cup {k} = R BY <1>2
  <2> QED BY <2>1
<1>3. CASE k \notin R
  <2>1. IsFiniteSet(R \cup {k}) /\ Cardinality(R \cup {k}) = Cardinality(R) + 1 BY <1>1, <1>3, FS_AddElement
  <2>2. Cardinality(R) \in Nat BY <1>1, FS_CardinalityType
  <2>3. Cardinality(R \cup {k}) <= MaxRechecks BY <1>3, <2>1, <2>2 DEF Sized
  <2> QED BY <1>1, <2>1, <2>3 DEF RecheckSets
<1> QED BY <1>2, <1>3

LEMMA RecheckRemoved ==
  ASSUME Sized, NEW R \in RecheckSets, NEW k PROVE R \ {k} \in RecheckSets
<1>1. R \in SUBSET (RecheckKeys \cup {Review}) /\ IsFiniteSet(R) /\ Cardinality(R) <= MaxRechecks BY DEF RecheckSets
<1>2. R \ {k} \in SUBSET R OBVIOUS
<1>3. IsFiniteSet(R \ {k}) /\ Cardinality(R \ {k}) <= Cardinality(R) BY <1>1, <1>2, FS_Subset
<1>4. Cardinality(R) \in Nat /\ Cardinality(R \ {k}) \in Nat BY <1>1, <1>3, FS_CardinalityType
<1>5. Cardinality(R \ {k}) <= MaxRechecks BY <1>1, <1>3, <1>4 DEF Sized
<1> QED BY <1>1, <1>3, <1>5 DEF RecheckSets

\* The rechecks of an edited entry.
LEMMA EditedWith ==
  ASSUME Sized, NEW e \in Entries, e.gen + 1 <= MaxGen, NEW R \in RecheckSets
  PROVE  LET f == [Edited(e) EXCEPT !.rechecks = R]
         IN  f \in Entries /\ f.gen = e.gen + 1 /\ f.recon = e.recon /\ f.slot = e.slot /\ f.cp = e.cp
<1>1. PICK g : g = Edited(e) OBVIOUS
<1>2. g \in Entries /\ g.gen = e.gen + 1 /\ g.recon = e.recon /\ g.slot = e.slot /\ g.cp = e.cp BY <1>1, EditedIs
<1> QED BY <1>1, <1>2 DEF Entries

\* The tick goes on with its slot, and no review is being announced.
LEMMA TickTurns ==
  ASSUME DirectoryInv, NEW a \in TickAts, tick' = [tick EXCEPT !.at = a], root' = root, index' = index,
         \A t \in Spaces : task'[t].op # "hint", tick.slots # <<>>,
         a \in {"hint", "scan", "scanning"} => index[Slot] # NoSpace
  PROVE  tick' \in Ticks /\ TickIsInside'
<1>1. tick \in Ticks BY InvTypes
<1>2. tick' \in Ticks /\ tick'.at = a /\ tick'.slots = tick.slots /\ tick'.visited = tick.visited
  BY <1>1 DEF Ticks
<1>3. TickIsInside BY DEF DirectoryInv
<1> QED BY <1>2, <1>3 DEF TickIsInside, Slot

LEMMA OnlyOneHint ==
  ASSUME DirectoryInv, NEW s \in Spaces, task[s].op = "hint"
  PROVE  /\ tick.at = "hint" /\ tick.slots # <<>> /\ index[Slot] = s /\ index[Slot] # NoSpace
         /\ \A t \in Spaces : t # s => task[t].op # "hint"
BY DEF DirectoryInv, TickIsInside

LEMMA IdleStays ==
  ASSUME DirectoryInv, NEW s \in Spaces, Idle(s), task' = task PROVE task' = [task EXCEPT ![s] = NoTask]
<1>1. task \in [Spaces -> {NoTask} \cup Orders \cup Allocations \cup Scans] BY InvTypes
<1> QED BY <1>1 DEF Idle

LEMMA HintsGo ==
  ASSUME DirectoryInv, NEW s \in Spaces, task' = [task EXCEPT ![s] = NoTask]
  PROVE  /\ task'[s].op # "hint" /\ \A t \in Spaces : task'[t].op = "hint" => task[t].op = "hint" /\ t # s
<1>1. task \in [Spaces -> {NoTask} \cup Orders \cup Allocations \cup Scans] BY InvTypes
<1> QED BY <1>1 DEF NoTask

LEMMA PutEntryKeeps ==
  ASSUME Sized, DirectoryInv, NEW s \in Spaces, PutEntry(s) PROVE DirectoryInv'
<1>1. PICK old : old = IF Registered(s) THEN entry[s] ELSE NewEntry(task[s].slot) OBVIOUS
<1>2. PICK e : e = [old EXCEPT !.gen = @ + 1, !.pins = installed, !.due = TRUE,
                               !.failed = FALSE, !.cp = FreshCheckpoint(0)] OBVIOUS
<1>3. PICK x : x = [op |-> task[s].op, at |-> "index"] OBVIOUS
<1>4. /\ entry' = [entry EXCEPT ![s] = e] /\ task' = [task EXCEPT ![s] = x]
      /\ UNCHANGED <<root, index, config, watch, wake, installed, seen, tick>>
      /\ (task[s].at = "register" /\ Registered(s)) \/ task[s].at = "entry"
  BY <1>1, <1>2, <1>3 DEF PutEntry, native
<1>5. installed \in Pins /\ tick \in Ticks /\ task \in [Spaces -> {NoTask} \cup Orders \cup Allocations \cup Scans]
  BY InvTypes
<1>6. OrderIsRegistered(s) BY InvSpace
<1>7. task[s].op \in Ops \cup {"hint"}
  <2>1. task[s] \in Orders \/ task[s] \in Allocations BY <1>4, TaskIs
  <2> QED BY <2>1 DEF Orders, Allocations
<1>8. x \in Orders /\ x.at = "index" /\ x.op = task[s].op BY <1>3, <1>7 DEF Orders, WriteAts
<1>9. \A t \in Spaces : task'[t].op = "hint" => task[t].op = "hint" BY <1>4, <1>5, <1>8
<1>10. TickIsInside' BY <1>4, <1>9, TickStill
<1>11. FreshCheckpoint(0) \in Checkpoints /\ FreshCheckpoint(0).gen = 0
  <2>1. 0 \in 0..MaxGen BY DEF Sized
  <2> QED BY <2>1, FreshIs
<1>12. PICK c : c = FreshCheckpoint(0) OBVIOUS
<1>13. /\ e \in Entries /\ e.slot = SlotOf(s) /\ e.gen + 1 <= MaxGen /\ e.recon < e.gen /\ e.cp = c
  <2>1. ASSUME NEW slot \in Slots, NEW g \in 0..MaxGen, NEW r \in 0..MaxGen, NEW b \in BOOLEAN, NEW R \in RecheckSets,
               NEW pins, NEW due, NEW failed, NEW cp, g + 2 <= MaxGen, r <= g,
               old = [slot |-> slot, gen |-> g, recon |-> r, enabled |-> b, pins |-> pins,
                      due |-> due, failed |-> failed, rechecks |-> R, cp |-> cp]
        PROVE  e \in Entries /\ e.slot = slot /\ e.gen + 1 <= MaxGen /\ e.recon < e.gen /\ e.cp = c
    <3>1. e = [slot |-> slot, gen |-> g + 1, recon |-> r, enabled |-> b, pins |-> installed,
               due |-> TRUE, failed |-> FALSE, rechecks |-> R, cp |-> c]
      BY <1>2, <1>12, <2>1
    <3>2. g + 1 \in 1..MaxGen /\ g + 1 + 1 <= MaxGen /\ r < g + 1 BY <2>1 DEF Sized
    <3>3. c \in Checkpoints BY <1>11, <1>12
    <3> QED BY <1>5, <3>1, <3>2, <3>3 DEF Entries
  <2>2. CASE Registered(s)
    <3>1. entry[s] \in Entries BY <2>2, RegisteredEntry
    <3>2. /\ entry[s].slot \in Slots /\ entry[s].gen \in 1..MaxGen /\ entry[s].recon \in 0..MaxGen
          /\ entry[s].enabled \in BOOLEAN /\ entry[s].rechecks \in RecheckSets
      BY <3>1, EntryFields
    <3>3. entry[s] = [slot |-> entry[s].slot, gen |-> entry[s].gen, recon |-> entry[s].recon, enabled |-> entry[s].enabled,
                      pins |-> entry[s].pins, due |-> entry[s].due, failed |-> entry[s].failed,
                      rechecks |-> entry[s].rechecks, cp |-> entry[s].cp]
      BY <3>1 DEF Entries
    <3>4. old = entry[s] BY <1>1, <2>2
    <3>5. task[s].at # "entry" BY <1>6, <2>2 DEF OrderIsRegistered
    <3>6. entry[s].gen + 2 <= MaxGen BY <1>4, <1>6, <2>2, <3>5 DEF OrderIsRegistered
    <3>7. entry[s].recon <= entry[s].gen BY <2>2, InvSpace DEF EntryIsTrue
    <3>8. entry[s].gen \in 0..MaxGen BY <3>2 DEF Sized
    <3>9. SlotOf(s) = entry[s].slot BY <2>2, <3>5 DEF SlotOf
    <3>10. e \in Entries /\ e.slot = entry[s].slot /\ e.gen + 1 <= MaxGen /\ e.recon < e.gen /\ e.cp = c
      BY <2>1, <3>2, <3>3, <3>4, <3>6, <3>7, <3>8
    <3> QED BY <3>9, <3>10
  <2>3. CASE ~Registered(s)
    <3>1. task[s].at = "entry" BY <1>4, <2>3
    <3>2. task[s] \in Allocations BY <3>1, TaskIs
    <3>3. task[s].slot \in Slots BY <3>2 DEF Allocations
    <3>4. old = [slot |-> task[s].slot, gen |-> 0, recon |-> 0, enabled |-> TRUE, pins |-> installed,
                 due |-> TRUE, failed |-> FALSE, rechecks |-> {}, cp |-> FreshCheckpoint(0)]
      BY <1>1, <2>3 DEF NewEntry
    <3>5. {} \in RecheckSets BY FS_EmptySet DEF RecheckSets, Sized
    <3>6. 0 \in 0..MaxGen /\ 0 + 2 <= MaxGen /\ 0 <= 0 BY DEF Sized
    <3>7. SlotOf(s) = task[s].slot BY <3>1 DEF SlotOf
    <3>8. e \in Entries /\ e.slot = task[s].slot /\ e.gen + 1 <= MaxGen /\ e.recon < e.gen /\ e.cp = c
      BY <2>1, <3>3, <3>4, <3>5, <3>6
    <3> QED BY <3>7, <3>8
  <2> QED BY <2>2, <2>3
<1>14. e.gen \in 1..MaxGen /\ e.recon \in 0..MaxGen BY <1>13, EntryFields
<1>15. e.cp.gen < e.gen /\ e.cp.gen <= e.gen /\ e.cp.gen # e.gen /\ e.recon <= e.gen /\ e.gen # e.recon
  BY <1>11, <1>12, <1>13, <1>14 DEF Sized
<1> QED BY <1>4, <1>5, <1>8, <1>10, <1>13, <1>15, EntryMoves

LEMMA SetEnabledKeeps ==
  ASSUME Sized, DirectoryInv, NEW s \in Spaces, SetEnabled(s) PROVE DirectoryInv'
<1>1. PICK e : e = [Edited(entry[s]) EXCEPT !.enabled = ~@] OBVIOUS
<1>2. /\ task[s].at = "work" /\ entry' = [entry EXCEPT ![s] = e] /\ task' = [task EXCEPT ![s] = NoTask]
      /\ UNCHANGED <<root, index, config, watch, wake, installed, seen, tick>>
  <2>1. task[s] = [op |-> "switch", at |-> "work"] BY DEF SetEnabled
  <2>2. entry' = [entry EXCEPT ![s] = e] BY <1>1, Zenon DEF SetEnabled
  <2>3. task' = [task EXCEPT ![s] = NoTask] /\ UNCHANGED <<root, index, config, watch, wake, installed, seen, tick>>
    BY DEF SetEnabled, Done, native
  <2> QED BY <2>1, <2>2, <2>3
<1>3. Registered(s) /\ entry[s].gen + 1 <= MaxGen BY <1>2, InvSpace DEF OrderIsRegistered, WriteAts
<1>4. entry[s] \in Entries BY <1>3, RegisteredEntry
<1>5. PICK g : g = Edited(entry[s]) OBVIOUS
<1>6. g \in Entries /\ g.gen = entry[s].gen + 1 /\ g.recon = entry[s].recon /\ g.slot = entry[s].slot
      /\ g.cp = entry[s].cp
  BY <1>3, <1>4, <1>5, EditedIs
<1>7. e \in Entries /\ e.gen = g.gen /\ e.recon = g.recon /\ e.slot = g.slot /\ e.cp = g.cp
  BY <1>1, <1>5, <1>6 DEF Entries
<1>8. tick \in Ticks BY InvTypes
<1>9. TickIsInside' BY <1>2, HintsGo, TickStill
<1> QED BY <1>2, <1>3, <1>6, <1>7, <1>8, <1>9, EditKeeps

LEMMA ScheduleRecheckKeeps ==
  ASSUME Sized, DirectoryInv, NEW s \in Spaces, ScheduleRecheck(s) PROVE DirectoryInv'
<1>1. /\ task[s].op \in {"recheck", "hint"} /\ task[s].at = "work" /\ task' = [task EXCEPT ![s] = NoTask]
      /\ UNCHANGED <<root, index, config, watch, wake, installed, seen>>
  BY DEF ScheduleRecheck, Done, native
<1>2. PICK k \in RecheckKey(s) :
         IF QueueIsFull(s, k)
         THEN /\ UNCHANGED entry
              /\ tick' = IF task[s].op = "hint" THEN [tick EXCEPT !.at = "broken"] ELSE tick
         ELSE /\ entry' = [entry EXCEPT ![s] = [Edited(entry[s]) EXCEPT !.rechecks = @ \cup {k}]]
              /\ tick' = IF task[s].op = "hint" THEN [tick EXCEPT !.at = "scan"] ELSE tick
  BY DEF ScheduleRecheck
<1>3. k \in RecheckKeys \cup {Review} BY DEF RecheckKey
<1>4. tick' \in Ticks /\ TickIsInside'
  <2>1. CASE task[s].op = "hint"
    <3>1. tick.slots # <<>> /\ index[Slot] # NoSpace /\ \A t \in Spaces : t # s => task[t].op # "hint"
      BY <2>1, OnlyOneHint
    <3>2. \A t \in Spaces : task'[t].op # "hint" BY <1>1, <3>1, HintsGo
    <3>3. PICK a \in {"broken", "scan"} : tick' = [tick EXCEPT !.at = a] BY <1>2, <2>1
    <3>4. a \in TickAts BY DEF TickAts
    <3> QED BY <1>1, <3>1, <3>2, <3>3, <3>4, TickTurns
  <2>2. CASE task[s].op # "hint"
    <3>1. tick' = tick BY <1>2, <2>2
    <3>2. tick \in Ticks BY InvTypes
    <3> QED BY <1>1, <3>1, <3>2, HintsGo, TickStill
  <2> QED BY <2>1, <2>2
<1>5. CASE QueueIsFull(s, k)
  <2>1. entry' = entry BY <1>2, <1>5
  <2>2. config \in [Spaces -> Pins \cup {"none"}] /\ wake \in [Spaces -> SUBSET Watches] /\ installed \in Pins BY InvTypes
  <2>3. NoTask.at = "idle" BY DEF NoTask
  <2>4. NoTask.at # "register" /\ NoTask.at \notin WriteAts /\ NoTask.at \notin ScanAts /\ NoTask.at \notin {"config", "work"}
    BY <2>3 DEF WriteAts, ScanAts
  <2> QED BY <1>1, <1>4, <2>1, <2>2, <2>4, TaskMoves
<1>6. CASE ~QueueIsFull(s, k)
  <2>1. Registered(s) /\ entry[s].gen + 1 <= MaxGen BY <1>1, InvSpace DEF OrderIsRegistered, WriteAts
  <2>2. entry[s] \in Entries BY <2>1, RegisteredEntry
  <2>3. entry[s].rechecks \in RecheckSets BY <2>2, EntryFields
  <2>4. PICK R : R = entry[s].rechecks \cup {k} OBVIOUS
  <2>5. R \in RecheckSets BY <1>3, <1>6, <2>3, <2>4, RecheckAdded DEF QueueIsFull
  <2>6. PICK e : e = [Edited(entry[s]) EXCEPT !.rechecks = R] OBVIOUS
  <2>7. /\ e \in Entries /\ e.gen = entry[s].gen + 1 /\ e.recon = entry[s].recon /\ e.slot = entry[s].slot
        /\ e.cp = entry[s].cp
    BY <2>1, <2>2, <2>5, <2>6, EditedWith
  <2>8. Edited(entry[s]).rechecks = entry[s].rechecks BY <2>1, <2>2, EditedIs
  <2>9. entry' = [entry EXCEPT ![s] = e]
    <3>1. entry' = [entry EXCEPT ![s] = [Edited(entry[s]) EXCEPT !.rechecks = Edited(entry[s]).rechecks \cup {k}]]
      BY <1>2, <1>6
    <3> QED BY <2>4, <2>6, <2>8, <3>1
  <2> QED BY <1>1, <1>4, <2>1, <2>7, <2>9, EditKeeps
<1> QED BY <1>5, <1>6

\* Rechecks that come and go while no task runs.
LEMMA RechecksKeep ==
  ASSUME Sized, DirectoryInv, NEW s \in Spaces, AcknowledgeRecheck(s) \/ NoticeRead(s) PROVE DirectoryInv'
<1>1. /\ Idle(s) /\ Registered(s) /\ entry[s].gen < MaxGen
      /\ UNCHANGED <<root, index, config, watch, wake, installed, seen, task, tick>>
  BY DEF AcknowledgeRecheck, NoticeRead, native
<1>2. entry[s] \in Entries BY <1>1, RegisteredEntry
<1>3. entry[s].gen + 1 <= MaxGen /\ entry[s].rechecks \in RecheckSets BY <1>1, <1>2, EntryFields DEF Sized
<1>4. Edited(entry[s]).rechecks = entry[s].rechecks BY <1>2, <1>3, EditedIs
<1>5. PICK R \in RecheckSets : entry' = [entry EXCEPT ![s] = [Edited(entry[s]) EXCEPT !.rechecks = R]]
  <2>1. CASE AcknowledgeRecheck(s)
    <3>1. PICK k \in entry[s].rechecks :
            entry' = [entry EXCEPT ![s] = [Edited(entry[s]) EXCEPT !.rechecks = Edited(entry[s]).rechecks \ {k}]]
      BY <2>1 DEF AcknowledgeRecheck
    <3>2. entry[s].rechecks \ {k} \in RecheckSets BY <1>3, RecheckRemoved
    <3> QED BY <1>4, <3>1, <3>2
  <2>2. CASE NoticeRead(s)
    <3>1. PICK k \in RecheckKeys : /\ ~QueueIsFull(s, k)
            /\ entry' = [entry EXCEPT ![s] = [Edited(entry[s]) EXCEPT !.rechecks = Edited(entry[s]).rechecks \cup {k}]]
      BY <2>2 DEF NoticeRead
    <3>2. entry[s].rechecks \cup {k} \in RecheckSets BY <1>3, <3>1, RecheckAdded DEF QueueIsFull
    <3> QED BY <1>4, <3>1, <3>2
  <2> QED BY <2>1, <2>2
<1>6. PICK e : e = [Edited(entry[s]) EXCEPT !.rechecks = R] OBVIOUS
<1>7. /\ e \in Entries /\ e.gen = entry[s].gen + 1 /\ e.recon = entry[s].recon /\ e.slot = entry[s].slot
      /\ e.cp = entry[s].cp
  BY <1>2, <1>3, <1>6, EditedWith
<1>8. task' = [task EXCEPT ![s] = NoTask] BY <1>1, IdleStays
<1>9. tick' \in Ticks BY <1>1, InvTypes
<1>10. TickIsInside' BY <1>1, <1>8, HintsGo, TickStill
<1>11. entry' = [entry EXCEPT ![s] = e] BY <1>5, <1>6
<1>12. UNCHANGED <<root, index, config, watch, wake, installed, seen>> BY <1>1
<1> QED BY <1>1, <1>3, <1>7, <1>8, <1>9, <1>10, <1>11, <1>12, EditKeeps

\* An entry that changes only in when it is due.
LEMMA DelayKeeps ==
  ASSUME Sized, DirectoryInv, NEW s \in Spaces, Registered(s), NEW e \in Entries,
         entry' = [entry EXCEPT ![s] = e], e.gen = entry[s].gen, e.recon = entry[s].recon,
         e.slot = entry[s].slot, e.cp = entry[s].cp,
         UNCHANGED <<root, index, config, watch, wake, installed, seen, task>>, tick' \in Ticks, TickIsInside'
  PROVE  DirectoryInv'
<1>1. /\ root \in [allocated : 0..MaxSlots, cursor : 0..MaxSlots]
      /\ entry \in [Spaces -> Entries \cup {NoEntry}] /\ index \in [Slots -> Spaces \cup {NoSpace}]
      /\ config \in [Spaces -> Pins \cup {"none"}]
      /\ watch \in [Spaces -> [Watches -> {"disarmed", "armed", "fired", "archived"}]]
      /\ wake \in [Spaces -> SUBSET Watches]
      /\ task \in [Spaces -> {NoTask} \cup Orders \cup Allocations \cup Scans]
      /\ installed \in Pins /\ seen \in [Spaces -> SUBSET Watches]
  BY InvTypes
<1>2. /\ entry' \in [Spaces -> Entries \cup {NoEntry}] /\ entry'[s] = e
      /\ \A t \in Spaces : t # s => entry'[t] = entry[t]
  BY <1>1
<1>3. Types' BY <1>1, <1>2 DEF Types
<1>4. Registered(s)' /\ Registered(s)' = Registered(s) BY <1>2, EntryIsEntry DEF Registered
<1>5. EntryIsTrue(s) /\ OrderIsRegistered(s) /\ ScanIsTrue(s) /\ IndexIsWritten(s) BY InvSpace
<1>6. Armed(s)' = Armed(s) /\ Runnable(s)' = Runnable(s) BY DEF Runnable, Armed
<1>7. EntryIsTrue(s)' BY <1>2, <1>5, <1>6 DEF EntryIsTrue, Scanned
<1>8. OrderIsRegistered(s)' BY <1>2, <1>4, <1>5 DEF OrderIsRegistered
<1>9. ScanIsTrue(s)' BY <1>2, <1>4, <1>5, <1>6 DEF ScanIsTrue, CopyIsTrue, Scanned
<1>10. IndexIsWritten(s)' BY <1>2, <1>4, <1>5, <1>6 DEF IndexIsWritten
<1>11. SlotOf(s)' = SlotOf(s) BY <1>2, <1>4 DEF SlotOf
<1>12. \A t \in Spaces : t # s => task'[t] = task[t] /\ watch'[t] = watch[t] /\ seen'[t] = seen[t] OBVIOUS
<1> QED BY <1>2, <1>3, <1>4, <1>7, <1>8, <1>9, <1>10, <1>11, <1>12, SpaceMoves

LEMMA TimePassesKeeps ==
  ASSUME Sized, DirectoryInv, NEW s \in Spaces, TimePasses(s) PROVE DirectoryInv'
<1>1. Registered(s) /\ entry' = [entry EXCEPT ![s].due = TRUE]
      /\ UNCHANGED <<root, index, config, watch, wake, installed, seen, task, tick>>
  BY DEF TimePasses, native
<1>2. entry[s] \in Entries /\ entry \in [Spaces -> Entries \cup {NoEntry}] BY <1>1, RegisteredEntry, InvTypes
<1>3. PICK e : e = [entry[s] EXCEPT !.due = TRUE] OBVIOUS
<1>4. e \in Entries /\ e.gen = entry[s].gen /\ e.recon = entry[s].recon /\ e.slot = entry[s].slot /\ e.cp = entry[s].cp
  BY <1>2, <1>3 DEF Entries
<1>5. entry' = [entry EXCEPT ![s] = e] BY <1>1, <1>2, <1>3
<1>6. tick' \in Ticks BY <1>1, InvTypes
<1>7. TickIsInside' BY <1>1, TickStill
<1> QED BY <1>1, <1>4, <1>5, <1>6, <1>7, DelayKeeps

\* A generation is acknowledged by a scan that is complete, so by one that looked
\* at every runnable watch.
LEMMA FinishKeeps ==
  ASSUME Sized, DirectoryInv, NEW s \in Spaces, Finish(s) PROVE DirectoryInv'
<1>1. task[s].at = "finish" /\ task' = [task EXCEPT ![s] = NoTask]
      /\ UNCHANGED <<root, index, config, watch, wake, installed, seen>>
  BY DEF Finish, Done, native
<1>2. PICK f : f = task[s].e OBVIOUS
<1>3. task[s].at \in ScanAts BY <1>1 DEF ScanAts
<1>4. CopyIsTrue(s, task[s]) /\ f \in Entries /\ f.cp \in Checkpoints BY <1>2, <1>3, ScanRuns
<1>5. Registered(s) /\ f.gen = entry[s].gen /\ f.recon = entry[s].recon /\ f.slot = entry[s].slot
      /\ f.cp.gen <= f.gen /\ (f.cp.gen = f.gen => Scanned(s, f.cp)) /\ (~f.enabled \/ f.failed \/ f.cp.gen = f.gen)
  BY <1>2, <1>4 DEF CopyIsTrue
<1>6. PICK r : r = IF Complete(f.cp) /\ ~f.failed /\ f.enabled THEN entry[s].gen ELSE f.recon OBVIOUS
<1>7. PICK d : d = IF entry[s].enabled THEN FALSE ELSE f.due OBVIOUS
<1>8. entry[s] \in Entries BY <1>5, RegisteredEntry
<1>9. f.gen \in 1..MaxGen /\ f.recon \in 0..MaxGen /\ f.due \in BOOLEAN BY <1>4, EntryFields
<1>10. r \in 0..MaxGen /\ d \in BOOLEAN
  <2>1. r = f.gen \/ r = f.recon BY <1>5, <1>6
  <2>2. r \in 0..MaxGen BY <1>9, <2>1 DEF Sized
  <2>3. d \in BOOLEAN BY <1>7, <1>9, Zenon
  <2> QED BY <2>2, <2>3
<1>11. PICK g : g = [f EXCEPT !.recon = r] OBVIOUS
<1>12. g \in Entries /\ g.gen = f.gen /\ g.recon = r /\ g.slot = f.slot /\ g.cp = f.cp BY <1>4, <1>10, <1>11 DEF Entries
<1>13. PICK e : e = [g EXCEPT !.due = d] OBVIOUS
<1>14. e \in Entries /\ e.gen = f.gen /\ e.recon = r /\ e.slot = f.slot /\ e.cp = f.cp BY <1>10, <1>12, <1>13 DEF Entries
<1>15. entry' = [entry EXCEPT ![s] = e]
  <2>1. entry' = [entry EXCEPT ![s] =
                    [f EXCEPT !.recon = IF Complete(f.cp) /\ ~f.failed /\ f.enabled THEN entry[s].gen ELSE @,
                              !.due = IF entry[s].enabled THEN FALSE ELSE @]]
    BY <1>2, <1>5 DEF Finish
  <2>2. e = [f EXCEPT !.recon = IF Complete(f.cp) /\ ~f.failed /\ f.enabled THEN entry[s].gen ELSE @,
                      !.due = IF entry[s].enabled THEN FALSE ELSE @]
    BY <1>4, <1>6, <1>7, <1>11, <1>13 DEF Entries
  <2> QED BY <2>1, <2>2
<1>16. tick' \in Ticks /\ TickIsInside'
  <2>1. CASE tick.at = "scanning" /\ Head(tick.slots) = entry[s].slot
    <3>1. tick' = [tick EXCEPT !.at = "visited"] BY <2>1 DEF Finish
    <3>2. TickIsInside BY DEF DirectoryInv
    <3>3. tick.slots # <<>> /\ \A t \in Spaces : task[t].op # "hint" BY <2>1, <3>2 DEF TickIsInside
    <3>4. \A t \in Spaces : task'[t].op # "hint" BY <1>1, <3>3, HintsGo
    <3>5. "visited" \in TickAts BY DEF TickAts
    <3> QED BY <1>1, <3>1, <3>3, <3>4, <3>5, TickTurns
  <2>2. CASE ~ (tick.at = "scanning" /\ Head(tick.slots) = entry[s].slot)
    <3>1. tick' = tick BY <2>2 DEF Finish
    <3>2. tick \in Ticks BY InvTypes
    <3> QED BY <1>1, <3>1, <3>2, HintsGo, TickStill
  <2> QED BY <2>1, <2>2
<1>17. entry[s].recon <= entry[s].gen /\ (entry[s].gen = entry[s].recon => Runnable(s) \subseteq seen[s])
  BY <1>5, InvSpace DEF EntryIsTrue
<1>18. e.recon <= e.gen BY <1>5, <1>6, <1>9, <1>14, <1>17 DEF Sized
<1>19. e.gen = e.recon => Runnable(s) \subseteq seen[s]
  <2>1. CASE Complete(f.cp) /\ ~f.failed /\ f.enabled
    <3>1. f.cp.rdone /\ Scanned(s, f.cp) BY <1>5, <2>1 DEF Complete
    <3> QED BY <3>1 DEF Scanned
  <2>2. CASE ~ (Complete(f.cp) /\ ~f.failed /\ f.enabled) BY <1>5, <1>6, <1>14, <1>17, <2>2
  <2> QED BY <2>1, <2>2
<1>20. e.slot = SlotOf(s) BY <1>1, <1>5, <1>14 DEF SlotOf
<1>21. e.cp.gen <= e.gen /\ (e.cp.gen = e.gen => Scanned(s, e.cp)) BY <1>5, <1>14
<1> QED BY <1>1, <1>14, <1>15, <1>16, <1>18, <1>19, <1>20, <1>21, EntryMoves

-----------------------------------------------------------------------------
(***************************************************************************)
(* Writes of the watches.                                                  *)
(***************************************************************************)
\* The watches of a Space change, and the task of the Space with them.
LEMMA WatchMoves ==
  ASSUME Sized, DirectoryInv, NEW s \in Spaces, NEW x \in {NoTask} \cup Scans,
         task' = [task EXCEPT ![s] = x], UNCHANGED <<root, entry, index, config, installed, tick>>,
         wake' \in [Spaces -> SUBSET Watches],
         watch' \in [Spaces -> [Watches -> {"disarmed", "armed", "fired", "archived"}]],
         seen' \in [Spaces -> SUBSET Watches],
         \A t \in Spaces : t # s => watch'[t] = watch[t] /\ seen'[t] = seen[t],
         x = NoTask \/ CopyIsTrue(s, x)', EntryIsTrue(s)',
         Armed(s)' # {} => Registered(s) /\ index[entry[s].slot] = s
  PROVE  DirectoryInv'
<1>1. /\ root \in [allocated : 0..MaxSlots, cursor : 0..MaxSlots]
      /\ entry \in [Spaces -> Entries \cup {NoEntry}] /\ index \in [Slots -> Spaces \cup {NoSpace}]
      /\ config \in [Spaces -> Pins \cup {"none"}]
      /\ task \in [Spaces -> {NoTask} \cup Orders \cup Allocations \cup Scans]
      /\ installed \in Pins /\ tick \in Ticks
  BY InvTypes
<1>2. /\ task' \in [Spaces -> {NoTask} \cup Orders \cup Allocations \cup Scans] /\ task'[s] = x
      /\ \A t \in Spaces : t # s => task'[t] = task[t]
  BY <1>1
<1>3. Types' BY <1>1, <1>2 DEF Types
<1>4. Registered(s)' = Registered(s) BY DEF Registered
<1>5. x.op # "hint" /\ (x = NoTask \/ x.at \in ScanAts) /\ (x.at = "idle" \/ x.at \in ScanAts)
  BY ScanFields DEF NoTask
<1>6. TickIsInside'
  <2>1. \A t \in Spaces : task'[t].op = "hint" => task[t].op = "hint" BY <1>2, <1>5
  <2> QED BY <2>1, TickStill
<1>7. OrderIsRegistered(s)' BY <1>2, <1>5 DEF OrderIsRegistered, ScanAts, WriteAts
<1>8. ScanIsTrue(s)'
  <2>1. CASE x = NoTask BY <1>2, <2>1 DEF ScanIsTrue, ScanAts, NoTask
  <2>2. CASE x # NoTask BY <1>2, <2>2 DEF ScanIsTrue, CopyIsTrue, Scanned
  <2> QED BY <2>1, <2>2
<1>9. IndexIsWritten(s)' BY <1>2, <1>4, <1>5 DEF IndexIsWritten, ScanAts
<1>10. SlotOf(s)' = SlotOf(s) \/ SlotOf(s)' = 0
  BY <1>2, <1>4, <1>5, InvSpace DEF SlotOf, OrderIsRegistered, ScanAts
<1>11. Registered(s) => Registered(s)' /\ entry'[s].slot = entry[s].slot BY <1>4
<1>12. \A t \in Spaces : t # s => /\ entry'[t] = entry[t] /\ task'[t] = task[t]
                                  /\ watch'[t] = watch[t] /\ seen'[t] = seen[t]
  BY <1>2
<1> QED BY <1>3, <1>6, <1>7, <1>8, <1>9, <1>10, <1>11, <1>12, SpaceMoves

\* A watch is armed under a generation that nothing has acknowledged.
LEMMA ArmWatchKeeps ==
  ASSUME Sized, DirectoryInv, NEW s \in Spaces, ArmWatch(s) PROVE DirectoryInv'
<1>1. task[s].at = "work" /\ task' = [task EXCEPT ![s] = NoTask]
      /\ UNCHANGED <<root, entry, index, config, wake, installed, tick, seen>>
  BY DEF ArmWatch, Done, store
<1>2. PICK w \in Watches : watch' = [watch EXCEPT ![s][w] = "armed"] BY DEF ArmWatch
<1>3. /\ watch \in [Spaces -> [Watches -> {"disarmed", "armed", "fired", "archived"}]]
      /\ wake \in [Spaces -> SUBSET Watches] /\ seen \in [Spaces -> SUBSET Watches]
  BY InvTypes
<1>4. /\ watch' \in [Spaces -> [Watches -> {"disarmed", "armed", "fired", "archived"}]]
      /\ \A t \in Spaces : t # s => watch'[t] = watch[t]
  BY <1>2, <1>3
<1>5. Registered(s) /\ entry[s].recon < entry[s].gen /\ entry[s].cp.gen < entry[s].gen
  BY <1>1, InvSpace DEF OrderIsRegistered, WriteAts
<1>6. entry[s] \in Entries BY <1>5, RegisteredEntry
<1>7. entry[s].gen \in Nat /\ entry[s].recon \in Nat /\ entry[s].cp.gen \in Nat
  BY <1>6, EntryFields, CheckpointFields DEF Sized
<1>8. EntryIsTrue(s)' BY <1>1, <1>5, <1>7 DEF EntryIsTrue
<1>9. index[entry[s].slot] = s BY <1>1, InvSpace DEF IndexIsWritten
<1> QED BY <1>1, <1>3, <1>4, <1>5, <1>8, <1>9, WatchMoves

\* A watch that is no longer armed, or that a scan has looked at, takes nothing
\* from what the entry and the copy say.
LEMMA StillScanned ==
  ASSUME DirectoryInv, NEW s \in Spaces, UNCHANGED entry,
         Armed(s)' \subseteq Armed(s), \A v \in Armed(s)' : v \in seen[s] => v \in seen'[s]
  PROVE  EntryIsTrue(s)' /\ Runnable(s)' \subseteq Runnable(s)
         /\ \A v \in Runnable(s)' : v \in seen[s] => v \in seen'[s]
<1>1. Runnable(s)' \subseteq Runnable(s) /\ \A v \in Runnable(s)' : v \in seen[s] => v \in seen'[s] BY DEF Runnable
<1>2. EntryIsTrue(s) BY InvSpace
<1>3. EntryIsTrue(s)' BY <1>1, <1>2 DEF EntryIsTrue, Registered, Scanned
<1> QED BY <1>1, <1>3

LEMMA ArchiveWatchKeeps ==
  ASSUME Sized, DirectoryInv, NEW s \in Spaces, ArchiveWatch(s) PROVE DirectoryInv'
<1>1. task[s].at = "work" /\ task' = [task EXCEPT ![s] = NoTask]
      /\ UNCHANGED <<root, entry, index, config, wake, installed, tick>>
  BY DEF ArchiveWatch, Done, store
<1>2. PICK w \in Watches : watch' = [watch EXCEPT ![s][w] = "archived"] /\ seen' = [seen EXCEPT ![s] = @ \ {w}]
  BY DEF ArchiveWatch
<1>3. /\ watch \in [Spaces -> [Watches -> {"disarmed", "armed", "fired", "archived"}]]
      /\ wake \in [Spaces -> SUBSET Watches] /\ seen \in [Spaces -> SUBSET Watches]
  BY InvTypes
<1>4. /\ watch' \in [Spaces -> [Watches -> {"disarmed", "armed", "fired", "archived"}]]
      /\ seen' \in [Spaces -> SUBSET Watches] /\ seen'[s] = seen[s] \ {w}
      /\ \A t \in Spaces : t # s => watch'[t] = watch[t] /\ seen'[t] = seen[t]
  BY <1>2, <1>3
<1>5. Armed(s)' \subseteq Armed(s) \ {w} BY <1>2, <1>3 DEF Armed
<1>6. EntryIsTrue(s)' BY <1>1, <1>4, <1>5, StillScanned
<1>7. Registered(s) /\ index[entry[s].slot] = s BY <1>1, InvSpace DEF IndexIsWritten
<1> QED BY <1>1, <1>3, <1>4, <1>6, <1>7, WatchMoves

\* A page of the scan looks at the least watch beyond its cursor, so that every
\* runnable watch up to the cursor was looked at.
LEMMA AdvanceWatchKeeps ==
  ASSUME Sized, DirectoryInv, NEW s \in Spaces, AdvanceWatch(s) PROVE DirectoryInv'
<1>1. PICK w : w = Least(Beyond(Runnable(s), task[s].e.cp.after)) OBVIOUS
<1>2. /\ task[s].at = "runnable" /\ Beyond(Runnable(s), task[s].e.cp.after) # {}
      /\ \/ /\ watch' = [watch EXCEPT ![s][w] = "fired"] /\ wake' = [wake EXCEPT ![s] = @ \cup {w}]
            /\ seen' = [seen EXCEPT ![s] = @ \ {w}]
         \/ seen' = [seen EXCEPT ![s] = @ \cup {w}] /\ UNCHANGED <<watch, wake>>
      /\ task' = [task EXCEPT ![s].e.cp.after = w, ![s].n = @ + 1]
      /\ UNCHANGED <<root, entry, index, config, tick, installed>>
  BY <1>1 DEF AdvanceWatch, store
<1>3. task[s].at \in ScanAts /\ task[s].at # "finish" BY <1>2 DEF ScanAts
<1>4. /\ task[s] \in Scans /\ CopyIsTrue(s, task[s]) /\ task[s].e \in Entries /\ task[s].e.cp \in Checkpoints
      /\ task \in [Spaces -> {NoTask} \cup Orders \cup Allocations \cup Scans]
      /\ wake \in [Spaces -> SUBSET Watches]
  BY <1>3, ScanRuns
<1>5. Runnable(s) \subseteq Watches /\ Runnable(s) \subseteq Armed(s) BY DEF Runnable, Armed
<1>6. /\ w \in Runnable(s) /\ w > task[s].e.cp.after
      /\ \A v \in Runnable(s) : v > task[s].e.cp.after => w <= v
  BY <1>1, <1>2, <1>5, LeastWatch DEF Beyond
<1>7. /\ watch \in [Spaces -> [Watches -> {"disarmed", "armed", "fired", "archived"}]]
      /\ seen \in [Spaces -> SUBSET Watches]
  BY InvTypes
<1>8. /\ watch' \in [Spaces -> [Watches -> {"disarmed", "armed", "fired", "archived"}]]
      /\ wake' \in [Spaces -> SUBSET Watches] /\ seen' \in [Spaces -> SUBSET Watches]
      /\ \A t \in Spaces : t # s => watch'[t] = watch[t] /\ seen'[t] = seen[t]
  <2>1. w \in Watches BY <1>5, <1>6
  <2>2. CASE /\ watch' = [watch EXCEPT ![s][w] = "fired"] /\ wake' = [wake EXCEPT ![s] = @ \cup {w}]
             /\ seen' = [seen EXCEPT ![s] = @ \ {w}]
    BY <1>4, <1>7, <2>1, <2>2
  <2>3. CASE seen' = [seen EXCEPT ![s] = @ \cup {w}] /\ UNCHANGED <<watch, wake>> BY <1>4, <1>7, <2>1, <2>3
  <2> QED BY <1>2, <2>2, <2>3
<1>9. /\ Armed(s)' \subseteq Armed(s) /\ (w \in Armed(s)' => w \in seen'[s])
      /\ \A v \in Armed(s)' : v \in seen[s] => v \in seen'[s]
  <2>1. CASE watch' = [watch EXCEPT ![s][w] = "fired"] /\ seen' = [seen EXCEPT ![s] = @ \ {w}]
    <3>1. Armed(s)' = Armed(s) \ {w} BY <1>5, <1>6, <1>7, <2>1 DEF Armed
    <3>2. seen'[s] = seen[s] \ {w} BY <1>7, <2>1
    <3> QED BY <3>1, <3>2
  <2>2. CASE seen' = [seen EXCEPT ![s] = @ \cup {w}] /\ watch' = watch
    <3>1. Armed(s)' = Armed(s) BY <2>2 DEF Armed
    <3>2. seen'[s] = seen[s] \cup {w} BY <1>7, <2>2
    <3> QED BY <3>1, <3>2
  <2> QED BY <1>2, <2>1, <2>2
<1>10. EntryIsTrue(s)' /\ Runnable(s)' \subseteq Runnable(s)
       /\ \A v \in Runnable(s)' : v \in seen[s] => v \in seen'[s]
  BY <1>2, <1>9, StillScanned
<1>11. w \in Runnable(s)' => w \in seen'[s] BY <1>9 DEF Runnable
<1>12. PICK c : c = [task[s].e.cp EXCEPT !.after = w] OBVIOUS
<1>13. c \in Checkpoints /\ c.gen = task[s].e.cp.gen /\ c.after = w /\ c.rdone = task[s].e.cp.rdone
  <2>1. w \in 0..NumWatches BY <1>5, <1>6 DEF Watches, Sized
  <2> QED BY <1>4, <1>12, <2>1 DEF Checkpoints
<1>14. PICK f : f = [task[s].e EXCEPT !.cp = c] OBVIOUS
<1>15. /\ f \in Entries /\ f.gen = task[s].e.gen /\ f.recon = task[s].e.recon /\ f.slot = task[s].e.slot
       /\ f.cp = c /\ f.enabled = task[s].e.enabled /\ f.failed = task[s].e.failed
  BY <1>4, <1>13, <1>14 DEF Entries
<1>16. PICK y : y = [task[s] EXCEPT !.e = f] OBVIOUS
<1>17. y \in Scans /\ y.e = f /\ y.at = task[s].at /\ y.n = task[s].n BY <1>4, <1>15, <1>16 DEF Scans
<1>18. PICK x : x = [y EXCEPT !.n = y.n + 1] OBVIOUS
<1>19. x \in Scans /\ x.e = f /\ x.at = task[s].at
  <2>1. y.n + 1 \in Nat BY <1>17, ScanFields
  <2> QED BY <1>17, <1>18, <2>1 DEF Scans
<1>20. task' = [task EXCEPT ![s] = x]
  <2>1. PICK z : z = [task EXCEPT ![s].e.cp.after = w] OBVIOUS
  <2>2. z = [task EXCEPT ![s] = y] /\ z[s] = y /\ DOMAIN z = Spaces BY <1>4, <1>12, <1>14, <1>16, <2>1
  <2>3. task' = [z EXCEPT ![s].n = y.n + 1] BY <1>2, <1>4, <1>17, <2>1, <2>2
  <2> QED BY <1>4, <1>18, <2>2, <2>3
<1>21. CopyIsTrue(s, x)'
  <2>1. Scanned(s, task[s].e.cp) BY <1>3, <1>4 DEF CopyIsTrue
  <2>2. task[s].e.cp.after \in Nat /\ w \in Nat BY <1>4, <1>5, <1>6, CheckpointFields DEF Sized, Watches
  <2>3. ASSUME NEW v \in Runnable(s)', v <= w \/ task[s].e.cp.rdone PROVE v \in seen'[s]
    <3>1. v \in Runnable(s) /\ v \in Nat BY <1>5, <1>10 DEF Watches, Sized
    <3>2. CASE v <= task[s].e.cp.after \/ task[s].e.cp.rdone BY <1>10, <2>1, <2>3, <3>1, <3>2 DEF Scanned
    <3>3. CASE ~ (v <= task[s].e.cp.after \/ task[s].e.cp.rdone)
      <4>1. v > task[s].e.cp.after /\ v <= w BY <2>2, <2>3, <3>1, <3>3
      <4>2. v = w BY <1>6, <2>2, <3>1, <4>1
      <4> QED BY <1>11, <2>3, <4>2
    <3> QED BY <3>2, <3>3
  <2>4. Registered(s)' = Registered(s) /\ entry' = entry BY <1>2 DEF Registered
  <2>5. x.e.cp.gen = task[s].e.cp.gen /\ x.e.cp.after = w /\ x.e.cp.rdone = task[s].e.cp.rdone BY <1>13, <1>15, <1>19
  <2> QED BY <1>4, <1>15, <1>19, <2>3, <2>4, <2>5 DEF CopyIsTrue, Scanned
<1>22. Armed(s)' # {} => Registered(s) /\ index[entry[s].slot] = s BY <1>9, InvSpace DEF IndexIsWritten
<1> QED BY <1>2, <1>8, <1>10, <1>19, <1>20, <1>21, <1>22, WatchMoves

-----------------------------------------------------------------------------
(***************************************************************************)
(* Slots, the tick and the crash.                                          *)
(***************************************************************************)
\* A slot that is allocated is nobody's.
LEMMA AllocateKeeps ==
  ASSUME Sized, DirectoryInv, NEW s \in Spaces, Allocate(s) PROVE DirectoryInv'
<1>1. PICK x : x = [op |-> task[s].op, at |-> "entry", slot |-> root.allocated + 1] OBVIOUS
<1>2. /\ task[s].at = "register" /\ ~Registered(s) /\ root.allocated < MaxSlots
      /\ root' = [root EXCEPT !.allocated = @ + 1] /\ task' = [task EXCEPT ![s] = x]
      /\ UNCHANGED <<entry, index, config, watch, wake, tick, installed, seen>>
  BY <1>1 DEF Allocate, native
<1>3. /\ root \in [allocated : 0..MaxSlots, cursor : 0..MaxSlots]
      /\ entry \in [Spaces -> Entries \cup {NoEntry}] /\ index \in [Slots -> Spaces \cup {NoSpace}]
      /\ config \in [Spaces -> Pins \cup {"none"}]
      /\ watch \in [Spaces -> [Watches -> {"disarmed", "armed", "fired", "archived"}]]
      /\ wake \in [Spaces -> SUBSET Watches]
      /\ task \in [Spaces -> {NoTask} \cup Orders \cup Allocations \cup Scans]
      /\ tick \in Ticks /\ installed \in Pins /\ seen \in [Spaces -> SUBSET Watches]
  BY InvTypes
<1>4. root.allocated \in Nat /\ root.allocated + 1 \in 0..MaxSlots /\ root.allocated + 1 \in Slots /\ root.cursor \in Nat
  BY <1>2, <1>3 DEF Sized, Slots
<1>5. root' \in [allocated : 0..MaxSlots, cursor : 0..MaxSlots] /\ root'.allocated = root.allocated + 1
      /\ root'.cursor = root.cursor
  BY <1>2, <1>3, <1>4
<1>6. task[s] \in Orders BY <1>2, TaskIs
<1>7. x \in Allocations /\ x.at = "entry" /\ x.slot = root.allocated + 1 /\ x.op = task[s].op
  BY <1>1, <1>4, <1>6, OrderFields DEF Allocations
<1>8. /\ task' \in [Spaces -> {NoTask} \cup Orders \cup Allocations \cup Scans] /\ task'[s] = x
      /\ \A t \in Spaces : t # s => task'[t] = task[t]
  BY <1>2, <1>3, <1>7
<1>9. Types' BY <1>2, <1>3, <1>5, <1>8 DEF Types
<1>10. \A t \in Spaces : t # s => /\ EntryIsTrue(t)' /\ OrderIsRegistered(t)' /\ ScanIsTrue(t)'
                                  /\ SlotOf(t)' = SlotOf(t)
  BY <1>2, <1>8, SpaceStill
<1>11. EntryIsTrue(s)' BY <1>2 DEF EntryIsTrue, Registered
<1>12. OrderIsRegistered(s)' BY <1>2, <1>7, <1>8 DEF OrderIsRegistered, Registered, WriteAts
<1>13. ScanIsTrue(s)' BY <1>7, <1>8 DEF ScanIsTrue, ScanAts
<1>14. \A t \in Spaces : IndexIsWritten(t)'
  <2> TAKE t \in Spaces
  <2>1. IndexIsWritten(t) BY InvSpace
  <2> QED BY <1>2, <1>7, <1>8, <2>1 DEF IndexIsWritten, Registered, Armed
<1>15. SlotOf(s)' = root.allocated + 1 BY <1>7, <1>8 DEF SlotOf
<1>16. SlotsApart'
  <2>1. SlotsApart BY DEF DirectoryInv
  <2>2. \A t \in Spaces : SlotOf(t) \in Nat
    <3> TAKE t \in Spaces
    <3>1. task[t].at = "entry" => task[t].slot \in Slots BY TaskIs DEF Allocations
    <3>2. Registered(t) => entry[t].slot \in Slots BY RegisteredEntry, EntryFields
    <3> QED BY <3>1, <3>2 DEF SlotOf, Slots, Sized
  <2>3. \A t \in Spaces : t # s => SlotOf(t)' <= root.allocated /\ SlotOf(t)' # root.allocated + 1 /\ SlotOf(t)' <= root.allocated + 1
    BY <1>4, <1>10, <2>1, <2>2 DEF SlotsApart
  <2>4. \A t \in Spaces : SlotOf(t)' <= root'.allocated BY <1>4, <1>5, <1>15, <2>3
  <2>5. ASSUME NEW t \in Spaces, NEW u \in Spaces, t # u, SlotOf(t)' = SlotOf(u)' PROVE SlotOf(t)' = 0
    <3>1. t # s /\ u # s BY <1>15, <2>3, <2>5
    <3> QED BY <1>10, <2>1, <2>5, <3>1 DEF SlotsApart
  <2> QED BY <2>4, <2>5 DEF SlotsApart
<1>17. IndexIsTrue' BY <1>2 DEF DirectoryInv, IndexIsTrue, Registered
<1>18. TickIsInside'
  <2>1. TickIsInside BY DEF DirectoryInv
  <2>2. \A t \in Spaces : task'[t].op = "hint" => task[t].op = "hint" BY <1>7, <1>8
  <2>3. tick.visited \in Nat /\ tick.slots \in Seq(Slots) BY <1>3 DEF Ticks, Sized
  <2>4. \A i \in DOMAIN tick.slots : tick.slots[i] \in Nat BY <2>3 DEF Slots, Sized
  <2>5. root'.cursor <= root'.allocated /\ tick.visited <= root'.allocated BY <1>4, <1>5, <2>1, <2>3 DEF TickIsInside
  <2>6. \A i \in DOMAIN tick.slots : tick.slots[i] <= root'.allocated BY <1>4, <1>5, <2>1, <2>4 DEF TickIsInside
  <2> QED BY <1>2, <2>1, <2>2, <2>5, <2>6 DEF TickIsInside, Slot
<1> QED BY <1>9, <1>10, <1>11, <1>12, <1>13, <1>14, <1>16, <1>17, <1>18 DEF DirectoryInv

\* The index of a slot is written by the Space that holds it.
LEMMA PutIndexKeeps ==
  ASSUME Sized, DirectoryInv, NEW s \in Spaces, PutIndex(s) PROVE DirectoryInv'
<1>1. PICK n : n = entry[s].slot OBVIOUS
<1>2. /\ task[s].at = "index" /\ index' = [index EXCEPT ![n] = s] /\ task' = [task EXCEPT ![s].at = "config"]
      /\ UNCHANGED <<root, entry, config, watch, wake, tick, installed, seen>>
  BY <1>1 DEF PutIndex, native
<1>3. /\ root \in [allocated : 0..MaxSlots, cursor : 0..MaxSlots]
      /\ entry \in [Spaces -> Entries \cup {NoEntry}] /\ index \in [Slots -> Spaces \cup {NoSpace}]
      /\ config \in [Spaces -> Pins \cup {"none"}]
      /\ watch \in [Spaces -> [Watches -> {"disarmed", "armed", "fired", "archived"}]]
      /\ wake \in [Spaces -> SUBSET Watches]
      /\ task \in [Spaces -> {NoTask} \cup Orders \cup Allocations \cup Scans]
      /\ tick \in Ticks /\ installed \in Pins /\ seen \in [Spaces -> SUBSET Watches]
  BY InvTypes
<1>4. task[s] \in Orders BY <1>2, TaskIs
<1>5. PICK x : x = [task[s] EXCEPT !.at = "config"] OBVIOUS
<1>6. x \in Orders /\ x.at = "config" /\ x.op = task[s].op BY <1>4, <1>5 DEF Orders, WriteAts
<1>7. /\ task' \in [Spaces -> {NoTask} \cup Orders \cup Allocations \cup Scans] /\ task'[s] = x
      /\ \A t \in Spaces : t # s => task'[t] = task[t]
  BY <1>2, <1>3, <1>5, <1>6
<1>8. Registered(s) /\ OrderIsRegistered(s) /\ EntryIsTrue(s) BY <1>2, InvSpace DEF OrderIsRegistered, WriteAts
<1>9. n \in Slots BY <1>1, <1>8, RegisteredEntry, EntryFields
<1>10. n # 0 BY <1>9 DEF Slots, Sized
<1>11. index' \in [Slots -> Spaces \cup {NoSpace}] /\ index'[n] = s /\ \A m \in Slots : m # n => index'[m] = index[m]
  BY <1>2, <1>3, <1>9
<1>12. Types' BY <1>2, <1>3, <1>7, <1>11 DEF Types
<1>13. \A t \in Spaces : t # s => /\ EntryIsTrue(t)' /\ OrderIsRegistered(t)' /\ ScanIsTrue(t)'
                                  /\ SlotOf(t)' = SlotOf(t) /\ Armed(t)' = Armed(t)
                                  /\ Registered(t)' = Registered(t)
  BY <1>2, <1>7, SpaceStill
<1>14. EntryIsTrue(s)' BY <1>2, <1>8 DEF EntryIsTrue, Registered, Scanned, Runnable, Armed
<1>15. Registered(s)' /\ entry'[s].slot = n BY <1>1, <1>2, <1>8 DEF Registered
<1>16. OrderIsRegistered(s)' BY <1>2, <1>6, <1>7, <1>8, <1>15 DEF OrderIsRegistered, WriteAts, Registered
<1>17. ScanIsTrue(s)' BY <1>6, <1>7 DEF ScanIsTrue, ScanAts
<1>18. SlotOf(s) = n /\ SlotOf(s)' = n BY <1>1, <1>2, <1>6, <1>7, <1>8, <1>15 DEF SlotOf
<1>19. SlotsApart'
  <2>1. SlotsApart BY DEF DirectoryInv
  <2>2. \A t \in Spaces : SlotOf(t)' = SlotOf(t) BY <1>13, <1>18
  <2> QED BY <1>2, <2>1, <2>2 DEF SlotsApart
<1>20. \A t \in Spaces : t # s /\ Registered(t) => entry[t].slot # n
  <2> SUFFICES ASSUME NEW t \in Spaces, t # s, Registered(t), entry[t].slot = n PROVE FALSE OBVIOUS
  <2>1. SlotOf(t) = n BY InvSpace DEF SlotOf, OrderIsRegistered
  <2> QED BY <1>10, <1>18, <2>1 DEF DirectoryInv, SlotsApart
<1>21. \A t \in Spaces : IndexIsWritten(t)'
  <2> TAKE t \in Spaces
  <2>1. CASE t = s BY <1>11, <1>15, <2>1 DEF IndexIsWritten
  <2>2. CASE t # s
    <3>1. IndexIsWritten(t) BY InvSpace
    <3>2. Registered(t) => entry[t].slot \in Slots BY RegisteredEntry, EntryFields
    <3> QED BY <1>2, <1>7, <1>11, <1>13, <1>20, <2>2, <3>1, <3>2 DEF IndexIsWritten
  <2> QED BY <2>1, <2>2
<1>22. IndexIsTrue'
  <2>1. IndexIsTrue BY DEF DirectoryInv
  <2> SUFFICES ASSUME NEW m \in Slots, index'[m] # NoSpace
               PROVE entry'[index'[m]] # NoEntry /\ entry'[index'[m]].slot = m
    BY DEF IndexIsTrue, Registered
  <2>2. CASE m = n BY <1>11, <1>15, <2>2 DEF Registered
  <2>3. CASE m # n BY <1>2, <1>11, <2>1, <2>3 DEF IndexIsTrue, Registered
  <2> QED BY <2>2, <2>3
<1>23. TickIsInside'
  <2>1. TickIsInside /\ IndexIsTrue BY DEF DirectoryInv
  <2>2. \A t \in Spaces : task'[t].op = "hint" => task[t].op = "hint" BY <1>6, <1>7
  <2>3. ASSUME tick.at \in {"hint", "scan", "scanning"} PROVE index'[Slot] # NoSpace /\ index'[Slot] = index[Slot]
    <3>1. tick.slots # <<>> /\ index[Slot] # NoSpace BY <2>1, <2>3 DEF TickIsInside
    <3>2. tick.slots \in Seq(Slots) BY <1>3 DEF Ticks
    <3>3. Slot \in Slots BY <3>1, <3>2 DEF Slot
    <3>4. index[Slot] \in Spaces /\ Registered(index[Slot]) /\ entry[index[Slot]].slot = Slot
      BY <1>3, <2>1, <3>1, <3>3 DEF IndexIsTrue
    <3>5. Slot = n => index[Slot] = s BY <1>20, <3>4
    <3> QED BY <1>11, <3>1, <3>3, <3>5
  <2>4. Slot' = Slot BY <1>2 DEF Slot
  <2> QED BY <1>2, <2>1, <2>2, <2>3, <2>4 DEF TickIsInside
<1> QED BY <1>12, <1>13, <1>14, <1>16, <1>17, <1>19, <1>21, <1>22, <1>23 DEF DirectoryInv

-----------------------------------------------------------------------------
(***************************************************************************)
(* The tick.                                                               *)
(***************************************************************************)
LEMMA TickMoves ==
  ASSUME Sized, DirectoryInv, UNCHANGED <<entry, index, config, watch, wake, task, installed, seen>>,
         root' \in [allocated : 0..MaxSlots, cursor : 0..MaxSlots], root'.allocated = root.allocated,
         tick' \in Ticks, TickIsInside'
  PROVE  DirectoryInv'
<1>1. Types' BY InvTypes DEF Types
<1>2. \A t \in Spaces : /\ EntryIsTrue(t)' /\ OrderIsRegistered(t)' /\ ScanIsTrue(t)'
                        /\ SlotOf(t)' = SlotOf(t) /\ Armed(t)' = Armed(t) /\ Registered(t)' = Registered(t)
  BY SpaceStill
<1>3. \A t \in Spaces : IndexIsWritten(t)'
  <2> TAKE t \in Spaces
  <2>1. IndexIsWritten(t) BY InvSpace
  <2> QED BY <1>2, <2>1 DEF IndexIsWritten
<1>4. SlotsApart' BY <1>2 DEF DirectoryInv, SlotsApart
<1>5. IndexIsTrue' BY DEF DirectoryInv, IndexIsTrue, Registered
<1> QED BY <1>1, <1>2, <1>3, <1>4, <1>5 DEF DirectoryInv

\* A hint is under way only while the tick waits for it.
LEMMA NoHints ==
  ASSUME DirectoryInv, tick.at # "hint" \/ task[index[Slot]].op # "hint"
  PROVE  \A t \in Spaces : task[t].op # "hint"
BY DEF DirectoryInv, TickIsInside

\* The slot that the tick is on.
LEMMA SlotIsAllocated ==
  ASSUME Sized, DirectoryInv, tick.slots # <<>>
  PROVE  /\ Slot \in Slots /\ Slot <= root.allocated
         /\ index[Slot] # NoSpace => /\ index[Slot] \in Spaces /\ Registered(index[Slot])
                                     /\ entry[index[Slot]] \in Entries
<1>1. tick.slots \in Seq(Slots) /\ index \in [Slots -> Spaces \cup {NoSpace}] BY InvTypes DEF Ticks
<1>2. Slot = tick.slots[1] /\ 1 \in DOMAIN tick.slots BY <1>1 DEF Slot
<1>3. Slot \in Slots BY <1>1, <1>2
<1>4. Slot <= root.allocated BY <1>2 DEF DirectoryInv, TickIsInside
<1>5. ASSUME index[Slot] # NoSpace
      PROVE index[Slot] \in Spaces /\ Registered(index[Slot]) /\ entry[index[Slot]] \in Entries
  <2>1. index[Slot] \in Spaces BY <1>1, <1>3, <1>5
  <2>2. Registered(index[Slot]) BY <1>3, <1>5 DEF DirectoryInv, IndexIsTrue
  <2> QED BY <2>1, <2>2, RegisteredEntry
<1> QED BY <1>3, <1>4, <1>5

\* A page of the directory holds slots that were allocated.
LEMMA PageIsInside ==
  ASSUME Sized, DirectoryInv, root.allocated > 0
  PROVE  Page \in Seq(Slots) /\ \A i \in DOMAIN Page : Page[i] <= root.allocated
<1>1. root \in [allocated : 0..MaxSlots, cursor : 0..MaxSlots] BY InvTypes
<1>2. PICK N : N = root.allocated OBVIOUS
<1>3. PICK c : c = root.cursor OBVIOUS
<1>4. N \in Nat /\ c \in Nat /\ N > 0 /\ N <= MaxSlots /\ c <= N /\ MaxSlots \in Nat /\ SpacesPerTick \in Nat
  BY <1>1, <1>2, <1>3 DEF Sized, DirectoryInv, TickIsInside
<1>5. PICK b : b = IF c = N THEN 1 ELSE c + 1 OBVIOUS
<1>6. b \in Nat /\ b >= 1 /\ b <= N BY <1>4, <1>5
<1>7. PICK l : l = IF N < b + SpacesPerTick - 1 THEN N ELSE b + SpacesPerTick - 1 OBVIOUS
<1>8. l \in Int /\ l <= N /\ l + 1 - b \in Nat BY <1>4, <1>6, <1>7
<1>9. PICK n : n = l + 1 - b OBVIOUS
<1>10. Page = [i \in 1..n |-> b + i - 1] BY <1>2, <1>3, <1>5, <1>7, <1>9 DEF Page
<1>11. n \in Nat BY <1>8, <1>9
<1>12. ASSUME NEW i \in 1..n PROVE b + i - 1 \in Slots /\ b + i - 1 <= N BY <1>4, <1>6, <1>8, <1>9 DEF Slots
<1>13. Page \in Seq(Slots) BY <1>10, <1>11, <1>12
<1> QED BY <1>2, <1>10, <1>12, <1>13

LEMMA TickBeginKeeps ==
  ASSUME Sized, DirectoryInv, TickBegin PROVE DirectoryInv'
<1>1. /\ tick.at = "idle" /\ root.allocated > 0 /\ tick' = [at |-> "visit", slots |-> Page, visited |-> 0]
      /\ UNCHANGED <<root, entry, index, config, watch, wake, task, installed, seen>>
  BY DEF TickBegin, store, native
<1>2. root \in [allocated : 0..MaxSlots, cursor : 0..MaxSlots] BY InvTypes
<1>3. Page \in Seq(Slots) /\ \A i \in DOMAIN Page : Page[i] <= root.allocated BY <1>1, PageIsInside
<1>4. tick'.at = "visit" /\ tick'.slots = Page /\ tick'.visited = 0 BY <1>1
<1>5. tick' \in Ticks BY <1>1, <1>3 DEF Ticks, TickAts, Sized
<1>6. \A t \in Spaces : task[t].op # "hint" BY <1>1, NoHints
<1>7. root.allocated \in Nat BY <1>2 DEF Sized
<1>8. TickIsInside' BY <1>1, <1>3, <1>4, <1>6, <1>7 DEF DirectoryInv, TickIsInside
<1> QED BY <1>1, <1>2, <1>5, <1>8, TickMoves

LEMMA SkipSlotKeeps ==
  ASSUME Sized, DirectoryInv, SkipSlot PROVE DirectoryInv'
<1>1. /\ tick.at = "visit" /\ tick.slots # <<>> /\ tick' = [tick EXCEPT !.at = "visited"]
      /\ UNCHANGED <<root, entry, index, config, watch, wake, task, installed, seen>>
  BY DEF SkipSlot, Visiting, store, native
<1>2. \A t \in Spaces : task'[t].op # "hint" BY <1>1, NoHints
<1>3. "visited" \in TickAts /\ "visited" \notin {"hint", "scan", "scanning"} BY DEF TickAts
<1>4. tick' \in Ticks /\ TickIsInside' BY <1>1, <1>2, <1>3, TickTurns
<1>5. root' \in [allocated : 0..MaxSlots, cursor : 0..MaxSlots] BY <1>1, InvTypes
<1> QED BY <1>1, <1>4, <1>5, TickMoves

LEMMA HintRefusedKeeps ==
  ASSUME Sized, DirectoryInv, HintRefused PROVE DirectoryInv'
<1>1. /\ tick.at = "hint" /\ task[index[Slot]].op # "hint" /\ tick' = [tick EXCEPT !.at = "broken"]
      /\ UNCHANGED <<root, entry, index, config, watch, wake, task, installed, seen>>
  BY DEF HintRefused, store, native
<1>2. \A t \in Spaces : task'[t].op # "hint" BY <1>1, NoHints
<1>3. "broken" \in TickAts /\ "broken" \notin {"hint", "scan", "scanning"} BY DEF TickAts
<1>4. tick.slots # <<>> BY <1>1 DEF DirectoryInv, TickIsInside
<1>5. tick' \in Ticks /\ TickIsInside' BY <1>1, <1>2, <1>3, <1>4, TickTurns
<1>6. root' \in [allocated : 0..MaxSlots, cursor : 0..MaxSlots] BY <1>1, InvTypes
<1> QED BY <1>1, <1>5, <1>6, TickMoves

LEMMA LoadFailsKeeps ==
  ASSUME Sized, DirectoryInv, LoadFails PROVE DirectoryInv'
<1>1. PICK s : s = index[Slot] OBVIOUS
<1>2. /\ tick.at = "visit" /\ tick.slots # <<>> /\ s \in Broken /\ Idle(s)
      /\ entry' = [entry EXCEPT ![s].failed = TRUE, ![s].due = FALSE]
      /\ tick' = [tick EXCEPT !.at = "visited"]
      /\ UNCHANGED <<root, index, config, watch, wake, task, installed, seen>>
  BY <1>1 DEF LoadFails, Visiting, native
<1>3. s \in Spaces /\ s # NoSpace BY <1>2 DEF Sized
<1>4. Registered(s) /\ entry[s] \in Entries BY <1>1, <1>2, <1>3, SlotIsAllocated
<1>5. entry \in [Spaces -> Entries \cup {NoEntry}] BY InvTypes
<1>6. PICK d : d = [entry[s] EXCEPT !.failed = TRUE] OBVIOUS
<1>7. d \in Entries /\ d.gen = entry[s].gen /\ d.recon = entry[s].recon /\ d.slot = entry[s].slot /\ d.cp = entry[s].cp
  BY <1>4, <1>6 DEF Entries
<1>8. PICK e : e = [d EXCEPT !.due = FALSE] OBVIOUS
<1>9. e \in Entries /\ e.gen = entry[s].gen /\ e.recon = entry[s].recon /\ e.slot = entry[s].slot /\ e.cp = entry[s].cp
  BY <1>7, <1>8 DEF Entries
<1>10. PICK f : f = [entry EXCEPT ![s] = d] OBVIOUS
<1>11. entry' = [f EXCEPT ![s].due = FALSE] /\ f[s] = d BY <1>2, <1>3, <1>5, <1>6, <1>10
<1>12. entry' = [entry EXCEPT ![s] = e] BY <1>5, <1>8, <1>10, <1>11
<1>13. \A t \in Spaces : task'[t].op # "hint" BY <1>2, NoHints
<1>14. "visited" \in TickAts /\ "visited" \notin {"hint", "scan", "scanning"} BY DEF TickAts
<1>15. tick' \in Ticks /\ TickIsInside' BY <1>2, <1>13, <1>14, TickTurns
<1> QED BY <1>2, <1>3, <1>4, <1>9, <1>12, <1>15, DelayKeeps

\* The tick goes on to the scan of the Space, or waits for the hint that it gives.
LEMMA VisitKeeps ==
  ASSUME Sized, DirectoryInv, Visit PROVE DirectoryInv'
<1>1. PICK s : s = index[Slot] OBVIOUS
<1>2. PICK x : x = [op |-> "hint", at |-> "register"] OBVIOUS
<1>3. /\ tick.at = "visit" /\ tick.slots # <<>> /\ s # NoSpace
      /\ UNCHANGED <<root, entry, index, config, watch, wake, installed, seen>>
      /\ \/ /\ entry[s].gen + 2 <= MaxGen /\ Idle(s) /\ task' = [task EXCEPT ![s] = x]
            /\ tick' = [tick EXCEPT !.at = "hint"]
         \/ tick' = [tick EXCEPT !.at = "scan"] /\ task' = task
  BY <1>1, <1>2 DEF Visit, Visiting, Listed, store, native
<1>4. s \in Spaces BY <1>1, <1>3, SlotIsAllocated
<1>5. \A t \in Spaces : task[t].op # "hint" BY <1>3, NoHints
<1>6. CASE tick' = [tick EXCEPT !.at = "scan"] /\ task' = task
  <2>1. "scan" \in TickAts BY DEF TickAts
  <2>2. tick' \in Ticks /\ TickIsInside' BY <1>1, <1>3, <1>5, <1>6, <2>1, TickTurns
  <2>3. root' \in [allocated : 0..MaxSlots, cursor : 0..MaxSlots] BY <1>3, InvTypes
  <2> QED BY <1>3, <1>6, <2>2, <2>3, TickMoves
<1>7. CASE /\ entry[s].gen + 2 <= MaxGen /\ task' = [task EXCEPT ![s] = x]
           /\ tick' = [tick EXCEPT !.at = "hint"]
  <2>1. tick \in Ticks /\ task \in [Spaces -> {NoTask} \cup Orders \cup Allocations \cup Scans]
        /\ config \in [Spaces -> Pins \cup {"none"}] /\ wake \in [Spaces -> SUBSET Watches] /\ installed \in Pins
    BY InvTypes
  <2>2. tick' \in Ticks /\ tick'.at = "hint" /\ tick'.slots = tick.slots /\ tick'.visited = tick.visited
    BY <1>7, <2>1 DEF Ticks, TickAts
  <2>3. \A t \in Spaces : task'[t].op = "hint" => t = s BY <1>5, <1>7, <2>1
  <2>4. TickIsInside BY DEF DirectoryInv
  <2>5. Slot' = Slot BY <2>2 DEF Slot
  <2>6. TickIsInside' BY <1>1, <1>3, <2>2, <2>3, <2>4, <2>5 DEF TickIsInside
  <2>7. x \in Orders /\ x.at = "register" BY <1>2 DEF Orders
  <2>8. x.at \notin WriteAts /\ x.at \notin ScanAts /\ x.at \notin {"config", "work"} BY <2>7 DEF WriteAts, ScanAts
  <2> QED BY <1>3, <1>4, <1>7, <2>1, <2>2, <2>6, <2>7, <2>8, TaskMoves
<1> QED BY <1>3, <1>6, <1>7

LEMMA TickScanKeeps ==
  ASSUME Sized, DirectoryInv, TickScan PROVE DirectoryInv'
<1>1. PICK s : s = index[Slot] OBVIOUS
<1>2. /\ tick.at = "scan" /\ ScanBegin(s) /\ tick' = [tick EXCEPT !.at = "scanning"]
      /\ UNCHANGED <<root, entry, index, config, watch, wake, installed, seen>>
  BY <1>1 DEF TickScan, ScanBegin, store, native
<1>3. tick.slots # <<>> /\ s # NoSpace BY <1>1, <1>2 DEF DirectoryInv, TickIsInside
<1>4. s \in Spaces BY <1>1, <1>3, SlotIsAllocated
<1>5. PICK x \in Scans : CopyIsTrue(s, x) /\ task' = [task EXCEPT ![s] = x] BY <1>2, <1>4, ScanBeginIs
<1>6. /\ task \in [Spaces -> {NoTask} \cup Orders \cup Allocations \cup Scans]
      /\ config \in [Spaces -> Pins \cup {"none"}] /\ wake \in [Spaces -> SUBSET Watches] /\ installed \in Pins
  BY InvTypes
<1>7. x.op = "scan" /\ x.at \in ScanAts BY ScanFields
<1>8. \A t \in Spaces : task[t].op # "hint" BY <1>2, NoHints
<1>9. \A t \in Spaces : task'[t].op # "hint" BY <1>5, <1>6, <1>7, <1>8
<1>10. "scanning" \in TickAts BY DEF TickAts
<1>11. tick' \in Ticks /\ TickIsInside' BY <1>1, <1>2, <1>3, <1>9, <1>10, TickTurns
<1>12. x.at \notin WriteAts /\ x.at # "register" /\ x.at \notin {"config", "work"} BY <1>7 DEF WriteAts, ScanAts
<1> QED BY <1>2, <1>4, <1>5, <1>6, <1>11, <1>12, TaskMoves

LEMMA NextSlotKeeps ==
  ASSUME Sized, DirectoryInv, NextSlot PROVE DirectoryInv'
<1>1. /\ tick.at = "visited" /\ tick' = [at |-> "visit", slots |-> Tail(tick.slots), visited |-> Slot]
      /\ UNCHANGED <<root, entry, index, config, watch, wake, task, installed, seen>>
  BY DEF NextSlot, store, native
<1>2. tick.slots # <<>> BY <1>1 DEF DirectoryInv, TickIsInside
<1>3. Slot \in Slots /\ Slot <= root.allocated BY <1>2, SlotIsAllocated
<1>4. tick.slots \in Seq(Slots) /\ root \in [allocated : 0..MaxSlots, cursor : 0..MaxSlots] BY InvTypes DEF Ticks
<1>5. \A i \in DOMAIN tick.slots : tick.slots[i] <= root.allocated BY DEF DirectoryInv, TickIsInside
<1>6. PICK q : q = Tail(tick.slots) OBVIOUS
<1>7. q \in Seq(Slots) /\ \A i \in DOMAIN q : i + 1 \in DOMAIN tick.slots /\ q[i] = tick.slots[i + 1]
  BY <1>2, <1>4, <1>6
<1>8. \A i \in DOMAIN q : q[i] <= root.allocated BY <1>5, <1>7
<1>9. Slot \in 0..MaxSlots BY <1>3 DEF Slots
<1>10. tick' \in Ticks BY <1>1, <1>6, <1>7, <1>9 DEF Ticks, TickAts
<1>11. tick'.at = "visit" /\ tick'.slots = q /\ tick'.visited = Slot BY <1>1, <1>6
<1>12. \A t \in Spaces : task[t].op # "hint" BY <1>1, NoHints
<1>13. TickIsInside' BY <1>1, <1>3, <1>8, <1>11, <1>12 DEF DirectoryInv, TickIsInside
<1> QED BY <1>1, <1>4, <1>10, <1>13, TickMoves

LEMMA RestIsInside ==
  ASSUME Sized, NoTick \in Ticks /\ NoTick.at = "idle" /\ NoTick.slots = <<>> /\ NoTick.visited = 0,
         tick' = NoTick, root'.cursor <= root'.allocated, 0 <= root'.allocated,
         \A t \in Spaces : task'[t].op # "hint"
  PROVE  TickIsInside'
<1>1. tick'.at = "idle" /\ tick'.slots = <<>> /\ tick'.visited = 0 BY Zenon
<1>2. DOMAIN tick'.slots = {} BY <1>1
<1>3. tick'.visited <= root'.allocated BY <1>1
<1>4. tick'.at \notin {"visited", "hint", "scan", "scanning"} /\ tick'.at \notin {"hint", "scan", "scanning"} BY <1>1
<1> QED BY <1>2, <1>3, <1>4 DEF TickIsInside

LEMMA NoTickIs ==
  ASSUME Sized PROVE NoTick \in Ticks /\ NoTick.at = "idle" /\ NoTick.slots = <<>> /\ NoTick.visited = 0
BY DEF NoTick, Ticks, TickAts, Sized

LEMMA AdvanceCursorKeeps ==
  ASSUME Sized, DirectoryInv, AdvanceCursor PROVE DirectoryInv'
<1>1. /\ tick.at = "broken" \/ tick.at = "visit"
      /\ root' = IF tick.visited = 0 THEN root ELSE [root EXCEPT !.cursor = tick.visited]
      /\ tick' = NoTick /\ UNCHANGED <<entry, index, config, watch, wake, task, installed, seen>>
  BY DEF AdvanceCursor, native
<1>2. root \in [allocated : 0..MaxSlots, cursor : 0..MaxSlots] /\ tick.visited \in 0..MaxSlots
  BY InvTypes DEF Ticks
<1>3. root.cursor <= root.allocated /\ tick.visited <= root.allocated BY DEF DirectoryInv, TickIsInside
<1>4. /\ root' \in [allocated : 0..MaxSlots, cursor : 0..MaxSlots] /\ root'.allocated = root.allocated
      /\ root'.cursor <= root.allocated
  BY <1>1, <1>2, <1>3
<1>5. 0 <= root'.allocated BY <1>2, <1>4 DEF Sized
<1>6. \A t \in Spaces : task'[t].op # "hint" BY <1>1, NoHints
<1>7. TickIsInside' BY <1>1, <1>4, <1>5, <1>6, NoTickIs, RestIsInside
<1>8. tick' \in Ticks BY <1>1, NoTickIs
<1> QED BY <1>1, <1>4, <1>7, <1>8, TickMoves

(***************************************************************************)
(* A restart, and the whole directory.                                     *)
(***************************************************************************)
\* A restart gives up an allocation that was not entered; its slot stays empty.
LEMMA CrashKeeps ==
  ASSUME Sized, DirectoryInv, Crash PROVE DirectoryInv'
<1>1. /\ task' = [t \in Spaces |-> NoTask] /\ tick' = NoTick /\ installed' \in Pins
      /\ UNCHANGED <<root, entry, index, config, watch, wake, seen>>
  BY InvTypes DEF Crash, store, native, Pins
<1>2. /\ root \in [allocated : 0..MaxSlots, cursor : 0..MaxSlots]
      /\ entry \in [Spaces -> Entries \cup {NoEntry}] /\ index \in [Slots -> Spaces \cup {NoSpace}]
      /\ config \in [Spaces -> Pins \cup {"none"}]
      /\ watch \in [Spaces -> [Watches -> {"disarmed", "armed", "fired", "archived"}]]
      /\ wake \in [Spaces -> SUBSET Watches] /\ seen \in [Spaces -> SUBSET Watches]
  BY InvTypes
<1>3. Types' BY <1>1, <1>2, NoTickIs DEF Types
<1>4. \A t \in Spaces : task'[t].at = "idle" /\ task'[t].op = "none" BY <1>1 DEF NoTask
<1>5. ASSUME NEW t \in Spaces
      PROVE /\ EntryIsTrue(t)' /\ OrderIsRegistered(t)' /\ ScanIsTrue(t)' /\ IndexIsWritten(t)'
            /\ SlotOf(t)' = SlotOf(t) \/ SlotOf(t)' = 0
  <2>1. EntryIsTrue(t) /\ IndexIsWritten(t) /\ OrderIsRegistered(t) BY InvSpace
  <2>2. task'[t].at = "idle" BY <1>4
  <2>3. EntryIsTrue(t)' BY <1>1, <2>1 DEF EntryIsTrue, Registered, Scanned, Runnable, Armed
  <2>4. OrderIsRegistered(t)' /\ ScanIsTrue(t)' BY <2>2 DEF OrderIsRegistered, ScanIsTrue, WriteAts, ScanAts
  <2>5. IndexIsWritten(t)' BY <1>1, <2>1, <2>2 DEF IndexIsWritten, Registered, Armed
  <2>6. SlotOf(t)' = SlotOf(t) \/ SlotOf(t)' = 0 BY <1>1, <2>1, <2>2 DEF SlotOf, Registered, OrderIsRegistered
  <2> QED BY <2>3, <2>4, <2>5, <2>6
<1>6. root.allocated \in Nat /\ 0 <= root.allocated /\ root.cursor <= root.allocated
  BY <1>2 DEF Sized, DirectoryInv, TickIsInside
<1>7. SlotsApart' BY <1>1, <1>5, <1>6 DEF DirectoryInv, SlotsApart
<1>8. IndexIsTrue' BY <1>1 DEF DirectoryInv, IndexIsTrue, Registered
<1>9. \A t \in Spaces : task'[t].op # "hint" BY <1>4
<1>10. TickIsInside' BY <1>1, <1>6, <1>9, NoTickIs, RestIsInside
<1> QED BY <1>3, <1>5, <1>7, <1>8, <1>10 DEF DirectoryInv

LEMMA DirectoryStarts ==
  ASSUME Sized, Init PROVE DirectoryInv
<1>1. /\ root = [allocated |-> 0, cursor |-> 0] /\ entry = [s \in Spaces |-> NoEntry]
      /\ index = [n \in Slots |-> NoSpace] /\ config = [s \in Spaces |-> "none"]
      /\ watch = [s \in Spaces |-> [w \in Watches |-> "disarmed"]]
      /\ wake = [s \in Spaces |-> {}] /\ task = [s \in Spaces |-> NoTask] /\ tick = NoTick
      /\ installed = "old" /\ seen = [s \in Spaces |-> {}]
  BY DEF Init
<1>2. root.allocated = 0 /\ root.cursor = 0 /\ root \in [allocated : 0..MaxSlots, cursor : 0..MaxSlots]
  BY <1>1 DEF Sized
<1>3. Types BY <1>1, <1>2, NoTickIs DEF Types, Pins
<1>4. ASSUME NEW s \in Spaces
      PROVE EntryIsTrue(s) /\ OrderIsRegistered(s) /\ ScanIsTrue(s) /\ IndexIsWritten(s) /\ SlotOf(s) = 0
  <2>1. ~Registered(s) /\ Armed(s) = {} BY <1>1 DEF Registered, Armed
  <2>2. task[s].at = "idle" BY <1>1 DEF NoTask
  <2> QED BY <2>1, <2>2
      DEF EntryIsTrue, OrderIsRegistered, ScanIsTrue, IndexIsWritten, SlotOf, WriteAts, ScanAts
<1>5. SlotsApart BY <1>2, <1>4 DEF SlotsApart
<1>6. IndexIsTrue BY <1>1 DEF IndexIsTrue
<1>7. \A s \in Spaces : task[s].op # "hint" BY <1>1 DEF NoTask
<1>8. tick.at = "idle" /\ tick.slots = <<>> /\ tick.visited = 0 BY <1>1, NoTickIs
<1>9. TickIsInside BY <1>2, <1>7, <1>8 DEF TickIsInside
<1> QED BY <1>3, <1>4, <1>5, <1>6, <1>9 DEF DirectoryInv

LEMMA DirectoryStill ==
  ASSUME DirectoryInv, UNCHANGED vars PROVE DirectoryInv'
<1>1. UNCHANGED <<root, entry, index, config, watch, wake, task, tick, installed, seen>> BY DEF vars
<1> QED BY <1>1
    DEF DirectoryInv, Types, EntryIsTrue, OrderIsRegistered, ScanIsTrue, CopyIsTrue, IndexIsWritten,
        SlotsApart, SlotOf, IndexIsTrue, TickIsInside, Slot, Scanned, Runnable, Armed, Registered

\* Every step of the directory and of the runtimes of its Spaces.
LEMMA DirectoryKeeps ==
  ASSUME Sized, DirectoryInv, Next PROVE DirectoryInv'
<1>1. ASSUME NEW s \in Spaces, SpaceStep(s) PROVE DirectoryInv'
  BY <1>1, AllocateKeeps, RefuseKeeps, PutEntryKeeps, PutIndexKeeps, SetConfigKeeps, ArmWatchKeeps,
     ArchiveWatchKeeps, SetEnabledKeeps, ScheduleRecheckKeeps, AdvanceWatchKeeps, EndRunnableKeeps,
     ScanAllKeeps, WakesKeep, FinishKeeps
  DEF SpaceStep
<1>2. ASSUME NEW s \in Spaces,
             \/ \E order \in Ops \ {"scan"} : Begin(s, order)
             \/ AcknowledgeRecheck(s) \/ NoticeRead(s) \/ DirectScan(s) \/ SpaceStep(s)
             \/ Late(s) \/ ScanFails(s) \/ TimePasses(s)
      PROVE DirectoryInv'
  BY <1>1, <1>2, BeginKeeps, RechecksKeep, DirectScanKeeps, ScanCut, TimePassesKeeps
<1>3. ASSUME TickStep PROVE DirectoryInv'
  BY <1>3, TickBeginKeeps, SkipSlotKeeps, LoadFailsKeeps, VisitKeeps, HintRefusedKeeps, TickScanKeeps,
     NextSlotKeeps, AdvanceCursorKeeps
  DEF TickStep
<1> QED BY <1>2, <1>3, CrashKeeps DEF Next

LEMMA DirectoryIsSafe ==
  ASSUME Sized, DirectoryInv PROVE TypeOK /\ ArmedIsListed /\ ReconciledIsScanned
<1>1. /\ root \in [allocated : 0..MaxSlots, cursor : 0..MaxSlots]
      /\ index \in [Slots -> Spaces \cup {NoSpace}] /\ config \in [Spaces -> Pins \cup {"none"}]
      /\ watch \in [Spaces -> [Watches -> {"disarmed", "armed", "fired", "archived"}]]
  BY InvTypes
<1>2. root.cursor <= root.allocated BY DEF DirectoryInv, TickIsInside
<1>3. ASSUME NEW s \in Spaces, Registered(s)
      PROVE /\ entry[s].slot \in Slots /\ entry[s].recon <= entry[s].gen /\ entry[s].cp \in Checkpoints
            /\ Cardinality(entry[s].rechecks) <= MaxRechecks
  <2>1. entry[s] \in Entries BY <1>3, RegisteredEntry
  <2>2. entry[s].slot \in Slots /\ entry[s].cp \in Checkpoints /\ entry[s].rechecks \in RecheckSets
    BY <2>1, EntryFields
  <2>3. entry[s].recon <= entry[s].gen BY <1>3, InvSpace DEF EntryIsTrue
  <2> QED BY <2>2, <2>3 DEF RecheckSets
<1>4. TypeOK BY <1>1, <1>2, <1>3 DEF TypeOK
<1>5. ArmedIsListed BY InvSpace DEF ArmedIsListed, IndexIsWritten
<1>6. ReconciledIsScanned BY InvSpace DEF ReconciledIsScanned, EntryIsTrue
<1> QED BY <1>4, <1>5, <1>6

\* The directory invariant holds of every behaviour of the directory.
LEMMA DirectoryAlways ==
  ASSUME Sized PROVE Spec => []DirectoryInv
<1>1. Init => DirectoryInv BY DirectoryStarts
<1>2. DirectoryInv /\ [Next]_vars => DirectoryInv' BY DirectoryKeeps, DirectoryStill
<1> QED BY <1>1, <1>2, PTL DEF Spec

\* Armed work can be found after a restart, and a generation is acknowledged only by
\* a scan that looked at every runnable watch armed in it, whatever the number of
\* Spaces, watches, slots and generations (attention/catalog.rs, attention.rs).
THEOREM DirectoryTheorem ==
  ASSUME Sized PROVE Spec => [](TypeOK /\ ArmedIsListed /\ ReconciledIsScanned)
<1>1. DirectoryInv => TypeOK /\ ArmedIsListed /\ ReconciledIsScanned BY DirectoryIsSafe
<1> QED BY <1>1, DirectoryAlways, PTL

=============================================================================
