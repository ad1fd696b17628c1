------------------------------ MODULE Attention ------------------------------
(***************************************************************************)
(* The attention directory of a host and the attention runtime of its      *)
(* Spaces: registration before the first native write, dirty generations,  *)
(* the bounded scan of a Space's watches and wakes, and the tick that      *)
(* visits the slots of the directory in turn.                              *)
(*                                                                         *)
(* Every operation of a Space's runtime holds its gate (task); each step   *)
(* ends at a durable write.  A deadline may cut a scan before any watch.   *)
(* Times are abstracted to due: next_check_ms has passed.                  *)
(***************************************************************************)
EXTENDS Naturals, FiniteSets, Sequences

CONSTANTS
    Spaces,
    NumWatches,     \* watches of a Space, numbered in the order of their ids
    TextWatches,    \* the watches whose condition is prose
    PageSize,       \* watches_per_space
    SpacesPerTick,
    MaxSlots,
    MaxGen,         \* bound on dirty generations
    RecheckKeys,    \* keys of the hosts' rechecks
    MaxRechecks,    \* the cap of the recheck queue
    Reviews,        \* Spaces whose learning jobs have a review to announce
    Broken,         \* Spaces that may fail to load
    Ops,            \* operations that callers ask for
    Faults          \* subset of {"crash", "native", "late", "upgrade"}

Watches == 1..NumWatches
Slots == 1..MaxSlots
Pins == {"old", "new"}
NoEntry == [slot |-> 0]
NoSpace == "none"
Review == "skill-review"

\* The sizes that the directory is run with: a registered Space can take two
\* generations, one for its registration and one for what it was asked to do.
Sized ==
    /\ NumWatches \in Nat /\ PageSize \in Nat /\ SpacesPerTick \in Nat
    /\ MaxSlots \in Nat /\ MaxGen \in Nat /\ MaxGen >= 2 /\ MaxRechecks \in Nat
    /\ NoSpace \notin Spaces /\ Broken \subseteq Spaces /\ "hint" \notin Ops

VARIABLES
    \* the object store
    root,       \* [allocated, cursor]
    entry,      \* the directory entry of each Space
    index,      \* the Space of each slot
    \* native controls of each Space
    config,     \* the pins of attention/config
    watch,      \* the status of each watch
    wake,       \* fires whose wake is open
    \* volatile
    task,       \* the holder of each Space's gate
    tick,       \* the holder of the tick gate
    \* the host's build, and what the scans have looked at
    installed,  \* the pin of the evaluator that the host installs
    seen        \* armed watches that a scan has looked at

vars == <<root, entry, index, config, watch, wake, task, tick, installed, seen>>
store == <<root, entry, index>>
native == <<config, watch, wake>>

FreshCheckpoint(g) ==
    [gen |-> g, after |-> 0, all |-> 0, pending |-> {},
     rdone |-> FALSE, adone |-> FALSE, wdone |-> FALSE]
Complete(cp) == cp.rdone /\ cp.adone /\ cp.wdone

NoTask == [op |-> "none", at |-> "idle"]
NoTick == [at |-> "idle", slots |-> <<>>, visited |-> 0]

Registered(s) == entry[s] # NoEntry

Init ==
    /\ root = [allocated |-> 0, cursor |-> 0]
    /\ entry = [s \in Spaces |-> NoEntry]
    /\ index = [n \in Slots |-> NoSpace]
    /\ config = [s \in Spaces |-> "none"]
    /\ watch = [s \in Spaces |-> [w \in Watches |-> "disarmed"]]
    /\ wake = [s \in Spaces |-> {}]
    /\ task = [s \in Spaces |-> NoTask]
    /\ tick = NoTick
    /\ installed = "old"
    /\ seen = [s \in Spaces |-> {}]

(***************************************************************************)
(* Registration: register_inner, then Directory::register.                 *)
(***************************************************************************)
Idle(s) == task[s] = NoTask

\* A caller, or the tick, takes the gate of s for an operation.
Begin(s, order) ==
    /\ Idle(s)
    /\ Registered(s) => entry[s].gen + 2 <= MaxGen
    /\ order = "reconfigure" => config[s] # "none"
    /\ task' = [task EXCEPT ![s] = [op |-> order, at |-> "register"]]
    /\ UNCHANGED <<store, native, tick, installed, seen>>

\* Pins that are not the installed ones refuse every operation but an explicit
\* reconfiguration.
PinsAgree(s) == config[s] = "none" \/ config[s] = installed \/ task[s].op = "reconfigure"

\* A fresh entry needs a slot of the root first.
Allocate(s) ==
    /\ task[s].at = "register"
    /\ PinsAgree(s)
    /\ ~Registered(s)
    /\ root.allocated < MaxSlots
    /\ root' = [root EXCEPT !.allocated = @ + 1]
    /\ task' = [task EXCEPT ![s] = [op |-> @.op, at |-> "entry", slot |-> root.allocated + 1]]
    /\ UNCHANGED <<entry, index, native, tick, installed, seen>>

\* A refused registration changes nothing.
Refuse(s) ==
    /\ task[s].at = "register"
    /\ ~PinsAgree(s) \/ (~Registered(s) /\ root.allocated = MaxSlots)
    /\ task' = [task EXCEPT ![s] = NoTask]
    /\ UNCHANGED <<store, native, tick, installed, seen>>

NewEntry(slot) ==
    [slot |-> slot, gen |-> 0, recon |-> 0, enabled |-> TRUE, pins |-> installed,
     due |-> TRUE, failed |-> FALSE, rechecks |-> {}, cp |-> FreshCheckpoint(0)]

\* The entry is dirty again: a new generation, due at once, and no checkpoint.
PutEntry(s) ==
    /\ \/ task[s].at = "register" /\ Registered(s) /\ PinsAgree(s)
       \/ task[s].at = "entry"
    /\ LET old == IF Registered(s) THEN entry[s] ELSE NewEntry(task[s].slot)
       IN entry' = [entry EXCEPT ![s] =
                     [old EXCEPT !.gen = @ + 1, !.pins = installed, !.due = TRUE,
                                 !.failed = FALSE, !.cp = FreshCheckpoint(0)]]
    /\ task' = [task EXCEPT ![s] = [op |-> @.op, at |-> "index"]]
    /\ UNCHANGED <<root, index, native, tick, installed, seen>>

PutIndex(s) ==
    /\ task[s].at = "index"
    /\ index' = [index EXCEPT ![entry[s].slot] = s]
    /\ task' = [task EXCEPT ![s].at = "config"]
    /\ UNCHANGED <<root, entry, native, tick, installed, seen>>

\* The native configuration is written only after the directory acknowledged.
SetConfig(s) ==
    /\ task[s].at = "config"
    /\ config' = [config EXCEPT ![s] = installed]
    /\ task' = [task EXCEPT ![s].at = "work"]
    /\ UNCHANGED <<store, watch, wake, tick, installed, seen>>

(***************************************************************************)
(* The operations themselves.                                              *)
(***************************************************************************)
\* Directory::edit.
Edited(e) == [e EXCEPT !.gen = @ + 1, !.due = TRUE, !.failed = FALSE]

Done(s) == task' = [task EXCEPT ![s] = NoTask]

ArmWatch(s) ==
    /\ task[s] = [op |-> "arm", at |-> "work"]
    /\ \E w \in Watches :
         /\ watch[s][w] = "disarmed"
         /\ watch' = [watch EXCEPT ![s][w] = "armed"]
    /\ Done(s)
    /\ UNCHANGED <<store, config, wake, tick, installed, seen>>

ArchiveWatch(s) ==
    /\ task[s] = [op |-> "archive", at |-> "work"]
    /\ \E w \in Watches :
         /\ watch[s][w] = "armed"
         /\ watch' = [watch EXCEPT ![s][w] = "archived"]
         /\ seen' = [seen EXCEPT ![s] = @ \ {w}]
    /\ Done(s)
    /\ UNCHANGED <<store, config, wake, tick, installed>>

SetEnabled(s) ==
    /\ task[s] = [op |-> "switch", at |-> "work"]
    /\ entry' = [entry EXCEPT ![s] = [Edited(entry[s]) EXCEPT !.enabled = ~@]]
    /\ Done(s)
    /\ UNCHANGED <<root, index, native, tick, installed, seen>>

\* A recheck that is already queued is not registered again; a full queue refuses.
Announced(s, k) == Registered(s) /\ k \in entry[s].rechecks
QueueIsFull(s, k) == k \notin entry[s].rechecks /\ Cardinality(entry[s].rechecks) >= MaxRechecks

RecheckKey(s) == IF task[s].op = "hint" THEN {Review} ELSE RecheckKeys

ScheduleRecheck(s) ==
    /\ task[s].op \in {"recheck", "hint"} /\ task[s].at = "work"
    /\ \E k \in RecheckKey(s) :
         IF QueueIsFull(s, k)
         THEN /\ UNCHANGED entry
              /\ tick' = IF task[s].op = "hint" THEN [tick EXCEPT !.at = "broken"] ELSE tick
         ELSE /\ entry' = [entry EXCEPT ![s] = [Edited(entry[s]) EXCEPT !.rechecks = @ \cup {k}]]
              /\ tick' = IF task[s].op = "hint" THEN [tick EXCEPT !.at = "scan"] ELSE tick
    /\ Done(s)
    /\ UNCHANGED <<root, index, native, installed, seen>>

AcknowledgeRecheck(s) ==
    /\ Idle(s)
    /\ Registered(s) /\ entry[s].gen < MaxGen
    /\ \E k \in entry[s].rechecks :
         entry' = [entry EXCEPT ![s] = [Edited(entry[s]) EXCEPT !.rechecks = @ \ {k}]]
    /\ UNCHANGED <<root, index, native, task, tick, installed, seen>>

\* A read of a projection that will expire leaves a hint, without any registration.
NoticeRead(s) ==
    /\ Idle(s)
    /\ Registered(s) /\ entry[s].gen < MaxGen
    /\ \E k \in RecheckKeys :
         /\ ~Announced(s, k) /\ ~QueueIsFull(s, k)
         /\ entry' = [entry EXCEPT ![s] = [Edited(entry[s]) EXCEPT !.rechecks = @ \cup {k}]]
    /\ UNCHANGED <<root, index, native, task, tick, installed, seen>>

\* Nothing to arm or to archive, or an operation that only registers.
NothingToDo(s) ==
    /\ task[s].at = "work"
    /\ \/ task[s].op \in {"register", "reconfigure"}
       \/ task[s].op = "arm" /\ \A w \in Watches : watch[s][w] # "disarmed"
       \/ task[s].op = "archive" /\ \A w \in Watches : watch[s][w] # "armed"
    /\ Done(s)
    /\ UNCHANGED <<store, native, tick, installed, seen>>

(***************************************************************************)
(* The scan of one Space: scan, scan_inner and Directory::finish.          *)
(***************************************************************************)
\* The scan works on a copy of the entry.  A disabled Space is left as it is.
ScanBegin(s) ==
    /\ Idle(s)
    /\ Registered(s)
    /\ LET e == entry[s]
           again == e.cp.gen # e.gen \/ Complete(e.cp)
           copy == [e EXCEPT !.cp = IF again THEN FreshCheckpoint(e.gen) ELSE @, !.failed = FALSE]
       IN task' = [task EXCEPT ![s] =
                    IF ~e.enabled THEN [op |-> "scan", at |-> "finish", e |-> [e EXCEPT !.failed = FALSE], n |-> 0]
                    ELSE IF config[s] # e.pins
                    THEN [op |-> "scan", at |-> "finish", e |-> [e EXCEPT !.failed = TRUE], n |-> 0]
                    ELSE [op |-> "scan", at |-> "runnable", e |-> copy, n |-> 0]]
    /\ UNCHANGED <<store, native, installed, seen>>

Armed(s) == {w \in Watches : watch[s][w] = "armed"}
Runnable(s) == Armed(s) \ TextWatches
Beyond(S, n) == {w \in S : w > n}
Least(S) == CHOOSE w \in S : \A v \in S : w <= v

\* One watch of the page: advance fires it when a change has matched; no match, a
\* refused advance and a backoff leave it armed.  Either way the cursor moves on.
AdvanceWatch(s) ==
    LET rest == Beyond(Runnable(s), task[s].e.cp.after)
        w == Least(rest)
    IN /\ task[s].at = "runnable"
       /\ task[s].n < PageSize /\ rest # {}
       /\ \/ /\ watch' = [watch EXCEPT ![s][w] = "fired"]
             /\ wake' = [wake EXCEPT ![s] = @ \cup {w}]
             /\ seen' = [seen EXCEPT ![s] = @ \ {w}]
          \/ /\ seen' = [seen EXCEPT ![s] = @ \cup {w}]
             /\ UNCHANGED <<watch, wake>>
       /\ task' = [task EXCEPT ![s].e.cp.after = w, ![s].n = @ + 1]
       /\ UNCHANGED <<store, config, tick, installed>>

\* Mutant: a full page is taken for the end of the runnable watches.
EndRunnableOnFullPage(s) ==
    /\ task[s].at = "runnable" /\ task[s].n = PageSize
    /\ task' = [task EXCEPT ![s].at = "all", ![s].e.cp.rdone = TRUE, ![s].e.cp.after = 0]
    /\ UNCHANGED <<store, native, tick, installed, seen>>

\* A short page ends the runnable scan; a full one continues in the next pass.
EndRunnable(s) ==
    LET rest == Beyond(Runnable(s), task[s].e.cp.after)
    IN /\ task[s].at = "runnable"
       /\ \/ /\ task[s].n = PageSize
             /\ task' = [task EXCEPT ![s].at = "all"]
          \/ /\ task[s].n < PageSize /\ rest = {}
             /\ task' = [task EXCEPT ![s].at = "all", ![s].e.cp.rdone = TRUE, ![s].e.cp.after = 0]
       /\ UNCHANGED <<store, native, tick, installed, seen>>

\* The diagnostic page over all armed watches.
ScanAll(s) ==
    LET rest == Beyond(Armed(s), task[s].e.cp.all)
        page == {w \in rest : Cardinality({v \in rest : v <= w}) <= PageSize}
    IN /\ task[s].at = "all"
       /\ IF task[s].e.cp.adone
          THEN task' = [task EXCEPT ![s].at = "wakes"]
          ELSE task' = [task EXCEPT ![s].at = "wakes",
                                    ![s].e.cp.adone = Cardinality(page) < PageSize,
                                    ![s].e.cp.all = IF page = {} THEN @
                                                    ELSE CHOOSE w \in page : \A v \in page : w >= v]
       /\ UNCHANGED <<store, native, tick, installed, seen>>

\* process_wake hands a wake to the action runtime, which closes it or leaves it open.
WakeOutcomes(s, w) == {wake, [wake EXCEPT ![s] = @ \ {w}]}

\* A page of open wakes is kept in the checkpoint; each pass processes one of it.
ProcessWake(s) ==
    LET cp == task[s].e.cp
        page == IF cp.pending = {} THEN wake[s] ELSE cp.pending
    IN /\ task[s].at = "wakes" /\ ~cp.wdone
       /\ \E w \in page :
            /\ wake' \in WakeOutcomes(s, w)
            /\ task' = [task EXCEPT ![s].at = "finish", ![s].e.cp.pending = page \ {w},
                                    ![s].e.cp.wdone = page = {w}]
       /\ UNCHANGED <<store, config, watch, tick, installed, seen>>

EndWakes(s) ==
    LET cp == task[s].e.cp
    IN /\ task[s].at = "wakes"
       /\ cp.wdone \/ (cp.pending = {} /\ wake[s] = {})
       /\ task' = [task EXCEPT ![s].at = "finish", ![s].e.cp.wdone = TRUE]
       /\ UNCHANGED <<store, native, tick, installed, seen>>

\* The deadline has passed: the rest of the pass is left for a later one.
Late(s) ==
    /\ "late" \in Faults
    /\ task[s].at \in {"runnable", "all", "wakes"}
    /\ task' = [task EXCEPT ![s].at = "finish"]
    /\ UNCHANGED <<store, native, tick, installed, seen>>

\* A failed read ends the pass and delays the next one.
ScanFails(s) ==
    /\ "native" \in Faults
    /\ task[s].at \in {"runnable", "all", "wakes"}
    /\ task' = [task EXCEPT ![s].at = "finish", ![s].e.failed = TRUE]
    /\ UNCHANGED <<store, native, tick, installed, seen>>

\* Directory::finish: an entry that became dirty in the meantime is not overwritten.
Finish(s) ==
    /\ task[s].at = "finish"
    /\ entry' = IF entry[s].gen # task[s].e.gen THEN entry
                ELSE [entry EXCEPT ![s] =
                       [task[s].e EXCEPT !.recon = IF Complete(task[s].e.cp) /\ ~task[s].e.failed /\ task[s].e.enabled
                                                   THEN entry[s].gen ELSE @,
                                         !.due = IF entry[s].enabled THEN FALSE ELSE @]]
    /\ Done(s)
    /\ tick' = IF tick.at = "scanning" /\ Head(tick.slots) = entry[s].slot
               THEN [tick EXCEPT !.at = "visited"] ELSE tick
    /\ UNCHANGED <<root, index, native, installed, seen>>

(***************************************************************************)
(* The tick over the slots of the directory: attention_tick_inner and      *)
(* attention_visit.                                                        *)
(***************************************************************************)
\* Directory::page: the slots after the cursor, from the first one again at the end.
Page ==
    LET start == IF root.cursor = root.allocated THEN 1 ELSE root.cursor + 1
        last == IF root.allocated < start + SpacesPerTick - 1 THEN root.allocated
                ELSE start + SpacesPerTick - 1
    IN [i \in 1..(last + 1 - start) |-> start + i - 1]

TickBegin ==
    /\ tick.at = "idle" /\ root.allocated > 0
    /\ tick' = [at |-> "visit", slots |-> Page, visited |-> 0]
    /\ UNCHANGED <<store, native, task, installed, seen>>

Slot == Head(tick.slots)
Visiting == tick.at = "visit" /\ tick.slots # <<>>
\* Directory::read_slot: an interrupted allocation leaves an empty slot.
Listed(n) == index[n] # NoSpace
Due(e) == e.enabled /\ (e.due \/ e.gen > e.recon) /\ (e.failed => e.due)

\* An empty slot, or a Space that is not due.
SkipSlot ==
    /\ Visiting
    /\ Listed(Slot) => ~Due(entry[index[Slot]])
    /\ tick' = [tick EXCEPT !.at = "visited"]
    /\ UNCHANGED <<store, native, task, installed, seen>>

\* A Space that does not load is noted, and delayed, in its entry.
LoadFails ==
    /\ Visiting /\ index[Slot] \in Broken
    /\ LET s == index[Slot] IN
         /\ Due(entry[s]) /\ Idle(s)
         /\ entry' = [entry EXCEPT ![s].failed = TRUE, ![s].due = FALSE]
    /\ tick' = [tick EXCEPT !.at = "visited"]
    /\ UNCHANGED <<root, index, native, task, installed, seen>>

\* Learning reviews are announced before the scan, each as a recheck.
Visit ==
    /\ Visiting /\ Listed(Slot)
    /\ LET s == index[Slot] IN
         /\ Due(entry[s])
         /\ IF s \in Reviews /\ ~Announced(s, Review) /\ entry[s].gen + 2 <= MaxGen
            THEN /\ Idle(s)
                 /\ task' = [task EXCEPT ![s] = [op |-> "hint", at |-> "register"]]
                 /\ tick' = [tick EXCEPT !.at = "hint"]
            ELSE /\ tick' = [tick EXCEPT !.at = "scan"]
                 /\ UNCHANGED task
    /\ UNCHANGED <<store, native, installed, seen>>

\* The recheck was refused before it reached the queue.
HintRefused ==
    /\ tick.at = "hint"
    /\ task[index[Slot]].op # "hint"
    /\ tick' = [tick EXCEPT !.at = "broken"]
    /\ UNCHANGED <<store, native, task, installed, seen>>

TickScan ==
    /\ tick.at = "scan"
    /\ ScanBegin(index[Slot])
    /\ tick' = [tick EXCEPT !.at = "scanning"]

NextSlot ==
    /\ tick.at = "visited"
    /\ tick' = [at |-> "visit", slots |-> Tail(tick.slots), visited |-> Slot]
    /\ UNCHANGED <<store, native, task, installed, seen>>

\* Mutant: a tick that visited as many Spaces as it may starts over.
AdvanceCursorNever ==
    /\ tick.at = "broken" \/ (tick.at = "visit" /\ tick.slots = <<>>)
    /\ tick' = NoTick
    /\ UNCHANGED <<root, entry, index, native, task, installed, seen>>

\* The cursor is written once, at the last visited slot, also when a visit failed.
AdvanceCursor ==
    /\ tick.at = "broken" \/ (tick.at = "visit" /\ tick.slots = <<>>)
    /\ root' = IF tick.visited = 0 THEN root ELSE [root EXCEPT !.cursor = tick.visited]
    /\ tick' = NoTick
    /\ UNCHANGED <<entry, index, native, task, installed, seen>>

(***************************************************************************)
(* The environment.                                                        *)
(***************************************************************************)
\* next_check_ms passes.
TimePasses(s) ==
    /\ Registered(s) /\ ~entry[s].due
    /\ entry' = [entry EXCEPT ![s].due = TRUE]
    /\ UNCHANGED <<root, index, native, task, tick, installed, seen>>

\* The process ends, and comes back with the same evaluator or with a new one.
Crash ==
    /\ \/ /\ "crash" \in Faults
          /\ (\E s \in Spaces : ~Idle(s)) \/ tick # NoTick
          /\ UNCHANGED installed
       \/ /\ "upgrade" \in Faults /\ installed = "old"
          /\ installed' = "new"
    /\ task' = [s \in Spaces |-> NoTask]
    /\ tick' = NoTick
    /\ UNCHANGED <<store, native, seen>>

\* A tick that a caller asks for scans without the directory.
DirectScan(s) == "scan" \in Ops /\ ScanBegin(s) /\ UNCHANGED tick

SpaceStep(s) ==
    \/ Allocate(s) \/ Refuse(s) \/ PutEntry(s) \/ PutIndex(s) \/ SetConfig(s)
    \/ ArmWatch(s) \/ ArchiveWatch(s) \/ SetEnabled(s) \/ ScheduleRecheck(s) \/ NothingToDo(s)
    \/ AdvanceWatch(s) \/ EndRunnable(s) \/ ScanAll(s) \/ ProcessWake(s) \/ EndWakes(s)
    \/ Finish(s)

TickStep ==
    \/ TickBegin \/ SkipSlot \/ LoadFails \/ Visit \/ HintRefused \/ TickScan \/ NextSlot
    \/ AdvanceCursor

Next ==
    \/ \E s \in Spaces :
         \/ \E order \in Ops \ {"scan"} : Begin(s, order)
         \/ AcknowledgeRecheck(s) \/ NoticeRead(s) \/ DirectScan(s) \/ SpaceStep(s)
         \/ Late(s) \/ ScanFails(s) \/ TimePasses(s)
    \/ TickStep
    \/ Crash

Spec == Init /\ [][Next]_vars

\* Started work goes on, the timer ticks, and time passes.  The gates are first in,
\* first out, so a tick that waits for one gets it.
Fairness ==
    /\ \A s \in Spaces : WF_vars(SpaceStep(s)) /\ WF_vars(TimePasses(s))
    /\ SF_vars(TickStep)

FairSpec == Spec /\ Fairness

(***************************************************************************)
(* Properties.                                                             *)
(***************************************************************************)
Checkpoints == [gen : 0..MaxGen, after : 0..NumWatches, all : 0..NumWatches,
                pending : SUBSET Watches, rdone : BOOLEAN, adone : BOOLEAN, wdone : BOOLEAN]

TypeOK ==
    /\ root \in [allocated : 0..MaxSlots, cursor : 0..MaxSlots]
    /\ root.cursor <= root.allocated
    /\ \A s \in Spaces :
         Registered(s) => /\ entry[s].slot \in Slots
                          /\ entry[s].recon <= entry[s].gen
                          /\ entry[s].cp \in Checkpoints
                          /\ Cardinality(entry[s].rechecks) <= MaxRechecks
    /\ index \in [Slots -> Spaces \cup {NoSpace}]
    /\ config \in [Spaces -> Pins \cup {"none"}]
    /\ watch \in [Spaces -> [Watches -> {"disarmed", "armed", "fired", "archived"}]]

\* Work that is armed can be found after a restart: its Space has an entry, and the
\* slot of the entry leads back to it (register_inner acknowledges the directory
\* before the first native write, catalog.rs register).
ArmedIsListed ==
    \A s \in Spaces :
        Armed(s) # {} => Registered(s) /\ index[entry[s].slot] = s

\* A generation is acknowledged only by a scan that looked at every runnable watch
\* that was armed in it, however many passes, deadlines and edits it took.
ReconciledIsScanned ==
    \A s \in Spaces :
        (Registered(s) /\ entry[s].gen = entry[s].recon /\ Idle(s)) => Runnable(s) \subseteq seen[s]

\* Every runnable watch of an enabled Space is looked at, although a Space before
\* it in the directory cannot be opened ("fair cursors", CHANGELOG.md:831).  A
\* Space whose recheck cannot be scheduled is another matter: it ends the pass
\* for the Spaces behind it (space/attention.rs:129) and is not among the Broken.
EveryWatchIsScanned ==
    \A s \in Spaces \ Broken : \A w \in Watches \ TextWatches :
        (watch[s][w] = "armed")
            ~> (w \in seen[s] \/ watch[s][w] # "armed" \/ ~entry[s].enabled)
=============================================================================
