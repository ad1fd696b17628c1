------------------------------ MODULE SpaceHost ------------------------------
(***************************************************************************)
(* The host's cache of open Spaces, for one Space id: requests that load   *)
(* it, the background loop that evicts it when it is idle, the shutdown    *)
(* that closes it, and the durable tasks a close drains.                   *)
(*                                                                         *)
(* The map holds one entry per id; an entry opens its Space once (a        *)
(* OnceCell).  Who still uses an entry or a Space is read off the Arc      *)
(* reference counts, so the model counts them: a loader keeps the entry    *)
(* while it opens the Space and the Space while it serves its request.     *)
(* Entries are numbered in the order in which they were created.           *)
(***************************************************************************)
EXTENDS Naturals, FiniteSets

CONSTANTS
  Loaders,      \* concurrent requests
  Quiet,        \* the ones of the attention scheduler, that do not touch
  Auto,         \* the ones that may create a missing Space (MCP auto-create)
  Slots,        \* durable tasks a Space admits at once (16)
  MaxEntries,   \* bound on entries ever created
  Faults        \* subset of {"open", "close", "drop", "shutdown"}

VARIABLES
  stored,       \* the Space's database exists in the object store
  mapped,       \* the entry the map holds, 0 for none
  made,         \* number of entries ever created
  cell,         \* per entry: the OnceCell, "empty", "init" or "open"
  closing,      \* per entry: marked for eviction
  fresh,        \* per entry: accessed within the idle timeout
  space,        \* per entry: [admits, tasks, background, reconciled, closed]
  load,         \* per loader: [at, entry]
  loop,         \* the background loop: [at, entry]
  down          \* shutdown was requested

vars == <<stored, mapped, made, cell, closing, fresh, space, load, loop, down>>

Entries == 1..MaxEntries

NewSpace == [admits |-> TRUE, tasks |-> 0, background |-> FALSE,
             reconciled |-> FALSE, closed |-> FALSE]
Idle == [at |-> "idle", entry |-> 0]

Init ==
  /\ stored \in BOOLEAN
  /\ mapped = 0 /\ made = 0
  /\ cell = [e \in Entries |-> "empty"]
  /\ closing = [e \in Entries |-> FALSE]
  /\ fresh = [e \in Entries |-> FALSE]
  /\ space = [e \in Entries |-> NewSpace]
  /\ load = [l \in Loaders |-> Idle]
  /\ loop = Idle
  /\ down = FALSE

At(l, p) == load[l].at = p
Go(l, p) == load' = [load EXCEPT ![l].at = p]
Leave(l) == load' = [load EXCEPT ![l] = Idle]

\* Arc::strong_count of an entry: the map, the loop's snapshot, the loaders.
EntryRefs(e) ==
  (IF mapped = e THEN 1 ELSE 0) + (IF loop.entry = e THEN 1 ELSE 0)
    + Cardinality({l \in Loaders : load[l].entry = e /\ load[l].at # "hold"})

\* Arc::strong_count of a Space: the cell, background work and the requests.
SpaceRefs(e) ==
  1 + (IF space[e].background THEN 1 ELSE 0)
    + Cardinality({l \in Loaders : load[l].entry = e /\ load[l].at \in {"ready", "hold"}})

(***************************************************************************)
(* Loading.                                                                *)
(***************************************************************************)

\* The entry of the id, made when there is none; a quiet one starts out idle.
Lookup(l) ==
  /\ At(l, "idle")
  /\ IF mapped # 0
     THEN /\ load' = [load EXCEPT ![l] = [at |-> "found", entry |-> mapped]]
          /\ UNCHANGED <<mapped, made, fresh>>
     ELSE /\ made < MaxEntries
          /\ made' = made + 1 /\ mapped' = made + 1
          /\ fresh' = [fresh EXCEPT ![made + 1] = l \notin Quiet]
          /\ load' = [load EXCEPT ![l] = [at |-> "found", entry |-> made + 1]]
  /\ UNCHANGED <<stored, cell, closing, space, loop, down>>

\* An entry that is being evicted refuses the request.
CheckClosing(l) ==
  /\ At(l, "found")
  /\ IF closing[load[l].entry] THEN Leave(l) ELSE Go(l, "cell")
  /\ UNCHANGED <<stored, mapped, made, cell, closing, fresh, space, loop, down>>

\* One loader opens the Space; the others wait for the cell.
Open(l) ==
  LET e == load[l].entry IN
  /\ At(l, "cell") /\ cell[e] # "init"
  /\ IF cell[e] = "open" THEN Go(l, "ready") /\ UNCHANGED cell
     ELSE IF stored THEN Go(l, "init") /\ cell' = [cell EXCEPT ![e] = "init"]
     ELSE /\ IF l \in Auto THEN load' = [load EXCEPT ![l] = [at |-> "create", entry |-> 0]]
             ELSE Leave(l)
          /\ UNCHANGED cell
  /\ UNCHANGED <<stored, mapped, made, closing, fresh, space, loop, down>>

Opened(l) ==
  LET e == load[l].entry IN
  /\ At(l, "init")
  /\ \/ /\ cell' = [cell EXCEPT ![e] = "open"]
        /\ Go(l, "ready")
     \/ /\ "open" \in Faults
        /\ cell' = [cell EXCEPT ![e] = "empty"]
        /\ Leave(l)
  /\ UNCHANGED <<stored, mapped, made, closing, fresh, space, loop, down>>

\* Touch, discover the watches, start the background recovery once.
Serve(l) ==
  LET e == load[l].entry IN
  /\ At(l, "ready")
  /\ fresh' = [fresh EXCEPT ![e] = @ \/ l \notin Quiet]
  /\ space' = [space EXCEPT ![e].background = @ \/ (l \notin Quiet /\ space[e].admits)]
  /\ Go(l, "hold")
  /\ UNCHANGED <<stored, mapped, made, cell, closing, loop, down>>

Release(l) ==
  /\ At(l, "hold")
  /\ Leave(l)
  /\ UNCHANGED <<stored, mapped, made, cell, closing, fresh, space, loop, down>>

\* The request is dropped, by its client or by a failed discovery.
Drop(l) ==
  /\ "drop" \in Faults
  /\ load[l].at \in {"found", "cell", "init", "ready"}
  /\ cell' = IF At(l, "init") THEN [cell EXCEPT ![load[l].entry] = "empty"] ELSE cell
  /\ Leave(l)
  /\ UNCHANGED <<stored, mapped, made, closing, fresh, space, loop, down>>

\* Creating a Space that is loaded, or stored, fails.
AlreadyExists == (mapped # 0 /\ cell[mapped] = "open") \/ stored

\* A missing Space is created and closed again before it is loaded; when
\* another request was faster, the Space is loaded as well.
Create(l) ==
  /\ At(l, "create")
  /\ IF AlreadyExists
     THEN Leave(l) /\ UNCHANGED stored
     ELSE Go(l, "creating") /\ stored' = TRUE
  /\ UNCHANGED <<mapped, made, cell, closing, fresh, space, loop, down>>

Created(l) ==
  /\ At(l, "creating")
  /\ Leave(l)
  /\ UNCHANGED <<stored, mapped, made, cell, closing, fresh, space, loop, down>>

(***************************************************************************)
(* Work of a Space: durable tasks outlive the request that started them,   *)
(* background tasks are dropped when the Space is cancelled.               *)
(***************************************************************************)

\* Mutant: admission is not looked at.
StartTaskAnyway(l) ==
  LET e == load[l].entry IN
  /\ At(l, "hold") /\ space[e].tasks < Slots
  /\ space' = [space EXCEPT ![e].tasks = @ + 1]
  /\ UNCHANGED <<stored, mapped, made, cell, closing, fresh, load, loop, down>>

StartTask(l) ==
  LET e == load[l].entry IN
  /\ At(l, "hold") /\ space[e].admits /\ space[e].tasks < Slots
  /\ space' = [space EXCEPT ![e].tasks = @ + 1]
  /\ UNCHANGED <<stored, mapped, made, cell, closing, fresh, load, loop, down>>

TaskEnds(e) ==
  /\ space[e].tasks > 0
  /\ space' = [space EXCEPT ![e].tasks = @ - 1]
  /\ UNCHANGED <<stored, mapped, made, cell, closing, fresh, load, loop, down>>

BackgroundEnds(e) ==
  /\ space[e].background
  /\ space' = [space EXCEPT ![e].background = FALSE]
  /\ UNCHANGED <<stored, mapped, made, cell, closing, fresh, load, loop, down>>

TimePasses ==
  /\ \E e \in Entries : fresh[e]
  /\ fresh' = [e \in Entries |-> FALSE]
  /\ UNCHANGED <<stored, mapped, made, cell, closing, space, load, loop, down>>

(***************************************************************************)
(* The background loop.                                                    *)
(***************************************************************************)

Snapshot ==
  /\ loop.at = "idle" /\ ~down /\ mapped # 0
  /\ loop' = [at |-> "try", entry |-> mapped]
  /\ UNCHANGED <<stored, mapped, made, cell, closing, fresh, space, load, down>>

\* Mutant: only the Space's own references are counted.
UnusedSpace(e) ==
  /\ cell[e] = "open" => space[e].tasks = 0 /\ SpaceRefs(e) = 1

\* The Space does nothing and nobody else holds it or its entry.
Unused(e) ==
  /\ EntryRefs(e) <= 2
  /\ cell[e] = "open" => space[e].tasks = 0 /\ SpaceRefs(e) = 1

\* Decided under the map's lock: an entry that failed to close is retried,
\* one that never opened is just removed.
TryEvict ==
  LET e == loop.entry IN
  /\ loop.at = "try"
  /\ IF mapped # e THEN loop' = Idle /\ UNCHANGED <<mapped, closing>>
     ELSE IF closing[e] THEN loop' = [loop EXCEPT !.at = "close"] /\ UNCHANGED <<mapped, closing>>
     ELSE IF fresh[e] \/ ~Unused(e) THEN loop' = [loop EXCEPT !.at = "flush"] /\ UNCHANGED <<mapped, closing>>
     ELSE IF cell[e] # "open" THEN loop' = Idle /\ mapped' = 0 /\ UNCHANGED closing
     ELSE loop' = [loop EXCEPT !.at = "close"] /\ closing' = [closing EXCEPT ![e] = TRUE] /\ UNCHANGED mapped
  /\ UNCHANGED <<stored, made, cell, fresh, space, load, down>>

\* The periodic flush also asks whether maintenance is overdue.
Flush ==
  LET e == loop.entry IN
  /\ loop.at = "flush"
  /\ \E overdue \in BOOLEAN :
       space' = [space EXCEPT ![e].background = @ \/ (overdue /\ cell[e] = "open")]
  /\ loop' = Idle
  /\ UNCHANGED <<stored, mapped, made, cell, closing, fresh, load, down>>

\* Mutant: the entry leaves the map before its Space is closed.
StopAdmissionEarly ==
  /\ loop.at = "close"
  /\ mapped' = IF down THEN mapped ELSE 0
  /\ space' = [space EXCEPT ![loop.entry].background = FALSE, ![loop.entry].admits = FALSE]
  /\ loop' = [loop EXCEPT !.at = "drain"]
  /\ UNCHANGED <<stored, made, cell, closing, fresh, load, down>>

\* Background work is cancelled and admission ends, then what was admitted
\* is awaited.
StopAdmission ==
  /\ loop.at = "close"
  /\ space' = [space EXCEPT ![loop.entry].background = FALSE, ![loop.entry].admits = FALSE]
  /\ loop' = [loop EXCEPT !.at = IF space[loop.entry].closed THEN "closed" ELSE "drain"]
  /\ UNCHANGED <<stored, mapped, made, cell, closing, fresh, load, down>>

Drained ==
  /\ loop.at = "drain" /\ space[loop.entry].tasks = 0
  /\ loop' = [loop EXCEPT !.at = IF space[loop.entry].reconciled THEN "database" ELSE "reconcile"]
  /\ UNCHANGED <<stored, mapped, made, cell, closing, fresh, space, load, down>>

CloseFails ==
  /\ "close" \in Faults
  /\ loop.at \in {"reconcile", "database"}
  /\ loop' = IF down THEN [Idle EXCEPT !.at = "stopped"] ELSE Idle
  /\ UNCHANGED <<stored, mapped, made, cell, closing, fresh, space, load, down>>

CloseStep ==
  LET e == loop.entry IN
  /\ \/ /\ loop.at = "reconcile"
        /\ space' = [space EXCEPT ![e].reconciled = TRUE]
        /\ loop' = [loop EXCEPT !.at = "database"]
     \/ /\ loop.at = "database"
        /\ space' = [space EXCEPT ![e].closed = TRUE]
        /\ loop' = [loop EXCEPT !.at = "closed"]
  /\ UNCHANGED <<stored, mapped, made, cell, closing, fresh, load, down>>

\* A shutdown leaves the entry in the map, an eviction removes it.
Closed ==
  /\ loop.at = "closed"
  /\ mapped' = IF ~down /\ mapped = loop.entry THEN 0 ELSE mapped
  /\ loop' = IF down THEN [Idle EXCEPT !.at = "stopped"] ELSE Idle
  /\ UNCHANGED <<stored, made, cell, closing, fresh, space, load, down>>

\* Shutdown between two ticks: the Space the map holds is closed, used or not.
Shutdown ==
  /\ "shutdown" \in Faults /\ ~down /\ loop.at = "idle"
  /\ down' = TRUE
  /\ loop' = IF mapped # 0 /\ cell[mapped] = "open"
             THEN [at |-> "close", entry |-> mapped] ELSE [Idle EXCEPT !.at = "stopped"]
  /\ UNCHANGED <<stored, mapped, made, cell, closing, fresh, space, load>>

Next ==
  \/ \E l \in Loaders : Lookup(l) \/ CheckClosing(l) \/ Open(l) \/ Opened(l)
                          \/ Serve(l) \/ Release(l) \/ Drop(l) \/ Create(l)
                          \/ Created(l) \/ StartTask(l)
  \/ \E e \in Entries : TaskEnds(e) \/ BackgroundEnds(e)
  \/ TimePasses \/ Snapshot \/ TryEvict \/ Flush \/ StopAdmission \/ Drained
  \/ CloseFails \/ CloseStep \/ Closed \/ Shutdown

Spec == Init /\ [][Next]_vars

-----------------------------------------------------------------------------

TypeOK ==
  /\ stored \in BOOLEAN /\ down \in BOOLEAN
  /\ mapped \in 0..MaxEntries /\ made \in 0..MaxEntries
  /\ cell \in [Entries -> {"empty", "init", "open"}]
  /\ closing \in [Entries -> BOOLEAN] /\ fresh \in [Entries -> BOOLEAN]
  /\ space \in [Entries -> [admits : BOOLEAN, tasks : 0..Slots, background : BOOLEAN,
                            reconciled : BOOLEAN, closed : BOOLEAN]]
  /\ load \in [Loaders -> [at : {"idle", "found", "cell", "init", "ready", "hold",
                                 "create", "creating"}, entry : 0..MaxEntries]]
  /\ loop \in [at : {"idle", "try", "flush", "close", "drain", "reconcile", "database",
                     "closed", "stopped"}, entry : 0..MaxEntries]

\* An entry whose Space has its database open, or is opening it.
Owns(e) == cell[e] = "init" \/ (cell[e] = "open" /\ ~space[e].closed)

\* The in-process locks of a Space protect it only while one instance of it
\* is open: no two entries own the database, however loads, dropped loads and
\* failed closes interleave with the eviction.
OneOwner == \A d, e \in Entries : Owns(d) /\ Owns(e) => d = e

\* Eviction never takes a Space from a request that serves from it, and the
\* database closes only when no admitted work is left.
ServedIsOpen ==
  /\ \A l \in Loaders : At(l, "hold") /\ ~down => ~closing[load[l].entry]
  /\ \A e \in Entries : space[e].closed => space[e].tasks = 0 /\ ~space[e].background

=============================================================================
