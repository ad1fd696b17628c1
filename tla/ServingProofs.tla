--------------------------- MODULE ServingProofs ---------------------------
(***************************************************************************)
(* Proofs about the services of MCServing, for every value of the          *)
(* constants they are given: the cache of open Spaces (SpaceHost), the     *)
(* authorization (Access), semantic watches (SemanticWatch), recorded      *)
(* watches (RecordWatch) and, from AttentionProofs, the watch directory.   *)
(***************************************************************************)
EXTENDS MCServing, FiniteSetTheorems, TLAPS

(***************************************************************************)
(* The inductive invariant of the cache.                                   *)
(***************************************************************************)

\* Where a request and the loop may be.
Places == {"idle", "found", "cell", "init", "ready", "hold", "create", "creating"}
LoopSteps == {"idle", "try", "flush", "close", "drain", "reconcile", "database", "closed", "stopped"}
Loads == [at : Places, entry : 0..MaxEntries]
LoopStates == [at : LoopSteps, entry : 0..MaxEntries]
SpaceStates == [admits : BOOLEAN, tasks : 0..TaskSlots, background : BOOLEAN,
                reconciled : BOOLEAN, closed : BOOLEAN]

\* A request that found its entry keeps it in the map: one past the closing
\* check holds the mapped entry, which is not being evicted; one before it may
\* hold an entry that was evicted meanwhile, and that will refuse it.
LoadersAreMapped ==
  \A l \in Loaders :
    /\ load[l].at \in {"cell", "init", "ready", "hold"} =>
         /\ load[l].entry \in Host!Entries /\ load[l].entry = mapped
         /\ ~closing[load[l].entry]
    /\ load[l].at = "found" =>
         /\ load[l].entry \in Host!Entries /\ load[l].entry <= made
         /\ load[l].entry = mapped \/ closing[load[l].entry]
    /\ load[l].at \in {"ready", "hold"} => cell[load[l].entry] = "open"
    /\ load[l].at = "init" => cell[load[l].entry] = "init"

\* A cell is being opened by one request.
OneOpens ==
  /\ \A e \in Host!Entries : cell[e] = "init" =>
       \E l \in Loaders : load[l].at = "init" /\ load[l].entry = e
  /\ \A l, m \in Loaders : load[l].at = "init" /\ load[m].at = "init" => l = m

\* Entries not made yet are as they were, and an entry is evicted in two
\* steps only when it is open.
EntriesAreNumbered ==
  /\ mapped <= made
  /\ \A e \in Host!Entries :
       /\ e > made => cell[e] = "empty" /\ ~closing[e] /\ ~space[e].closed
       /\ closing[e] => cell[e] = "open"

\* What owns the database is what the map holds.
OwnerIsMapped == \A e \in Host!Entries : Host!Owns(e) => mapped = e

\* The loop works on the entry of the map, and the steps of a close have
\* done what they stand for.
LoopIsMapped ==
  /\ loop.at \in {"try", "flush", "close", "drain", "reconcile", "database", "closed"} =>
       loop.entry \in Host!Entries /\ mapped = loop.entry
  /\ loop.at \in {"try", "flush"} => ~down
  /\ loop.at \in {"close", "drain", "reconcile", "database", "closed"} =>
       cell[loop.entry] = "open" /\ (closing[loop.entry] \/ down)
  /\ loop.at \in {"drain", "reconcile", "database", "closed"} =>
       ~space[loop.entry].admits /\ ~space[loop.entry].background
  /\ loop.at \in {"reconcile", "database", "closed"} => space[loop.entry].tasks = 0
  /\ loop.at = "closed" => space[loop.entry].closed

\* A closed Space has ended its work, and only a shutdown or the eviction
\* that is just finishing leaves it in the map.
ClosedIsDone ==
  \A e \in Host!Entries : space[e].closed =>
    /\ space[e].tasks = 0 /\ ~space[e].background /\ ~space[e].admits
    /\ mapped = e => down \/ (loop.at = "closed" /\ loop.entry = e)

HostInv ==
  /\ Host!TypeOK /\ LoadersAreMapped /\ OneOpens /\ EntriesAreNumbered
  /\ OwnerIsMapped /\ LoopIsMapped /\ ClosedIsDone

(***************************************************************************)
(* The inductive invariant of the authorization.                           *)
(***************************************************************************)

\* What the host keeps of a request.
Calls == [at : {"idle", "signed", "load", "in"}, mode : Gate!Modes, scope : Gate!Scopes,
          cred : Gate!Credentials, now : 0..MaxTime, dead : BOOLEAN,
          by : {"nobody", "signed", "token", "anonymous"}]

\* The lock is held for a row that was checked and is still good to save:
\* meanwhile rows only go away.
DraftIsMintable ==
  /\ lock = None => draft = None
  /\ lock # None => /\ draft \in [token : Tokens, row : Gate!Rows]
                    /\ draft.token = lock /\ minted[lock] = None
                    /\ Gate!Mintable(draft.row)

\* A kept row is the one that was minted, and a token is minted once.
KeptAsMinted == \A t \in Tokens : store[t] \in {None, minted[t]}

\* A token that was dead when a request began stays dead for it.
DeadStaysDead ==
  \A r \in Requests : req[r].dead =>
    /\ req[r].cred \in Tokens /\ minted[req[r].cred] # None
    /\ store[req[r].cred] = None \/ minted[req[r].cred].until <= req[r].now

\* By what a request was admitted.
AdmittedBy ==
  \A r \in Requests :
    /\ req[r].by = "signed" => req[r].cred = "signed"
    /\ req[r].by = "anonymous" => req[r].mode \in {"public", "lenient"}
    /\ req[r].by = "token" =>
         /\ req[r].cred \in Tokens /\ ~req[r].dead /\ minted[req[r].cred] # None
         /\ req[r].scope = "write" => minted[req[r].cred].scope = "write"
    /\ req[r].at \in {"signed", "load"} => req[r].by \in {"nobody", "signed"}

GateInv ==
  /\ Gate!TypeOK /\ Gate!NamesAreUnique /\ DraftIsMintable /\ KeptAsMinted
  /\ DeadStaysDead /\ AdmittedBy

(***************************************************************************)
(* The inductive invariant of recorded watches.                            *)
(***************************************************************************)

WatchStatuses == {"disarmed", "armed", "fired", "archived"}
RecordWatches == [version : 1..MaxRecordVersion, status : WatchStatuses, digest : Digests]
RecordRows == [state : WatchStatuses \cup {"cancelled"}, digest : Digests]
Creations == [at : {"create", "marker", "grant", "granted", "arm", "row"},
              o : Operations, d : Digests]
Cancellations == [at : {"archive", "cancelled"}, o : Operations, version : 1..MaxRecordVersion]

RecordTypes ==
  /\ row \in [Operations -> {Record!NoRow} \cup RecordRows]
  /\ recWatch \in [Operations -> {Record!NoWatch} \cup RecordWatches]
  /\ marker \in [Operations -> {"none", "begun", "done"}]
  /\ grant \in [Operations -> BOOLEAN]
  /\ granted \in [Operations -> Nat] /\ armings \in [Operations -> Nat]
  /\ recJob \in {Record!NoJob} \cup Creations \cup Cancellations

\* Only a watch that exists has a row, is given one or is cancelled, and an
\* archived one is not archived again: the last version is the archived one.
RowsHaveWatches ==
  /\ \A o \in Operations :
       /\ recWatch[o] = Record!NoWatch => row[o] = Record!NoRow
       /\ recWatch[o].status # "archived" => recWatch[o].version < MaxRecordVersion
  /\ recJob.at \in {"row", "archive", "cancelled"} => recWatch[recJob.o] # Record!NoWatch
  /\ recJob.at \in {"archive", "cancelled"} => row[recJob.o] # Record!NoRow
  /\ recJob.at = "archive" => recWatch[recJob.o].status # "archived"

\* The marker is durable before the grant, so no marker means no grant; and
\* who is about to grant has found no marker.
MarkedBeforeGranted ==
  /\ \A o \in Operations : granted[o] <= 1 /\ (marker[o] = "none" => granted[o] = 0)
  /\ recJob.at = "grant" => marker[recJob.o] = "begun" /\ granted[recJob.o] = 0

\* Arming leaves version 1 behind, and no write returns to it.
ArmedFromVersionOne ==
  \A o \in Operations : armings[o] <= 1 /\ (recWatch[o].version <= 1 => armings[o] = 0)

RecordInv == RecordTypes /\ RowsHaveWatches /\ MarkedBeforeGranted /\ ArmedFromVersionOne

(***************************************************************************)
(* The inductive invariant of semantic watches.                            *)
(***************************************************************************)

PassSteps == {"idle", "page", "pending", "evaluate", "ask", "judged", "unknown",
              "accepted", "deferred", "processed"}
Passes == [at : PassSteps, w : 0..NumWatches, scanned : 0..(WatchesPerPass + 1)]
Keys == [epoch : 0..MaxEpoch, attempt : 0..AttemptsPerPage, judged : BOOLEAN]
Jobs == [version : 1..MaxVersion, epoch : 0..MaxEpoch, attempts : 0..AttemptsPerPage,
         ticket : BOOLEAN, evaluation : Keys, accepted : BOOLEAN, due : BOOLEAN]
Commits == [key : Keys, version : 0..MaxVersion, accepted : BOOLEAN]

SemanticTypes ==
  /\ semCursor \in [after : 0..NumWatches, pending : 0..NumWatches]
  /\ semJob \in [Semantic!Watches -> {Semantic!NoJob} \cup Jobs]
  /\ semWatch \in [Semantic!Watches -> [version : 1..MaxVersion, armed : BOOLEAN]]
  /\ committed \in [Semantic!Watches -> Commits]
  /\ pass \in Passes
  /\ semCalls \in [Semantic!Watches -> Nat]

\* A pass works on the watch it marked as pending, and a new page starts with
\* nothing pending.
PassIsPending ==
  /\ semCursor.pending # 0 => semJob[semCursor.pending] # Semantic!NoJob
  /\ pass.at \in {"page", "pending"} => semCursor.pending = 0
  /\ pass.at \notin {"idle", "page"} => pass.w # 0 /\ semJob[pass.w] # Semantic!NoJob
  /\ pass.at \notin {"idle", "page", "pending"} => semCursor.pending = pass.w
  /\ pass.at = "pending" => pass.scanned < WatchesPerPass

\* An evaluation is stored for the pending watch only, until its outcome is
\* saved: no job is accepted, asked for or left with one.
EvaluationIsPending ==
  /\ \A w \in Semantic!Watches : semJob[w] # Semantic!NoJob =>
       /\ semJob[w].evaluation # Semantic!NoKey => semCursor.pending = w
       /\ semJob[w].accepted => semJob[w].evaluation = Semantic!NoKey
  /\ pass.at \in {"ask", "judged", "unknown"} => ~semJob[pass.w].accepted
  /\ pass.at = "processed" => semJob[pass.w].evaluation = Semantic!NoKey

\* Every call was reserved before it was made.
CallsAreReserved ==
  /\ \A w \in Semantic!Watches : semJob[w] # Semantic!NoJob => semCalls[w] <= semJob[w].attempts
  /\ pass.at = "ask" => semCalls[pass.w] < semJob[pass.w].attempts

SemanticInv == SemanticTypes /\ PassIsPending /\ EvaluationIsPending /\ CallsAreReserved


LEMMA HostNats == TaskSlots \in Nat /\ MaxEntries \in Nat
BY HostAssumption

\* The types, as the steps below need them.
LEMMA HostTypes ==
  ASSUME Host!TypeOK
  PROVE  /\ load \in [Loaders -> Loads] /\ loop \in LoopStates
         /\ space \in [Host!Entries -> SpaceStates]
         /\ mapped \in 0..MaxEntries /\ made \in 0..MaxEntries
BY DEF Host!TypeOK, Loads, Places, LoopStates, LoopSteps, SpaceStates

LEMMA HostTyped ==
  ASSUME stored \in BOOLEAN, down \in BOOLEAN, mapped \in 0..MaxEntries, made \in 0..MaxEntries,
         cell \in [Host!Entries -> {"empty", "init", "open"}],
         closing \in [Host!Entries -> BOOLEAN], fresh \in [Host!Entries -> BOOLEAN],
         space \in [Host!Entries -> SpaceStates], load \in [Loaders -> Loads], loop \in LoopStates
  PROVE  Host!TypeOK
BY DEF Host!TypeOK, Loads, Places, LoopStates, LoopSteps, SpaceStates

LEMMA HostInit == Host!Init => HostInv
<1> SUFFICES ASSUME Host!Init PROVE HostInv OBVIOUS
<1> USE HostNats DEF Host!Init, Host!Entries, Host!Idle, Host!NewSpace
<1>1. Host!TypeOK
  <2>1. space \in [Host!Entries -> SpaceStates] BY DEF SpaceStates
  <2>2. load \in [Loaders -> Loads] /\ loop \in LoopStates BY DEF Loads, Places, LoopStates, LoopSteps
  <2> QED BY <2>1, <2>2 DEF Host!TypeOK, SpaceStates, Loads, Places, LoopStates, LoopSteps
<1>2. LoadersAreMapped BY DEF LoadersAreMapped
<1>3. OneOpens BY DEF OneOpens
<1>4. EntriesAreNumbered BY DEF EntriesAreNumbered
<1>5. OwnerIsMapped BY DEF OwnerIsMapped, Host!Owns
<1>6. LoopIsMapped BY DEF LoopIsMapped
<1>7. ClosedIsDone BY DEF ClosedIsDone
<1> QED BY <1>1, <1>2, <1>3, <1>4, <1>5, <1>6, <1>7 DEF HostInv

\* What a step that moves one request leaves of the others.
LEMMA RequestMoves ==
  ASSUME load \in [Loaders -> Loads], NEW l \in Loaders, NEW p \in Places, NEW n \in 0..MaxEntries,
         load' = [load EXCEPT ![l] = [at |-> p, entry |-> n]]
  PROVE  /\ load' \in [Loaders -> Loads]
         /\ load'[l].at = p /\ load'[l].entry = n
         /\ \A m \in Loaders : m # l => load'[m] = load[m]
BY DEF Loads

\* A step that only moves a request, to where its entry lets it be.
LEMMA HostMoves ==
  ASSUME HostInv, NEW l \in Loaders, NEW p \in Places, NEW n \in 0..MaxEntries,
         load' = [load EXCEPT ![l] = [at |-> p, entry |-> n]],
         UNCHANGED <<mapped, made, cell, closing, fresh, space, loop, down>>, stored' \in BOOLEAN,
         load[l].at # "init", p # "init",
         p \in {"cell", "ready", "hold"} => n = mapped /\ n # 0 /\ ~closing[n],
         p \in {"ready", "hold"} => cell[n] = "open",
         p = "found" => n = mapped /\ n # 0
  PROVE  HostInv'
<1> USE HostNats
<1>0. load \in [Loaders -> Loads] BY DEF HostInv, Host!TypeOK, Loads, Places
<1>1. /\ load' \in [Loaders -> Loads]
      /\ load'[l].at = p /\ load'[l].entry = n
      /\ \A m \in Loaders : m # l => load'[m] = load[m]
  BY <1>0, RequestMoves
<1>2. Host!TypeOK' BY <1>1 DEF HostInv, Host!TypeOK, Loads, Places
<1>3. LoadersAreMapped' BY <1>1 DEF HostInv, LoadersAreMapped, Host!Entries, EntriesAreNumbered, Host!TypeOK
<1>4. OneOpens' BY <1>1 DEF HostInv, OneOpens
<1>5. EntriesAreNumbered' BY DEF HostInv, EntriesAreNumbered
<1>6. OwnerIsMapped' BY DEF HostInv, OwnerIsMapped, Host!Owns
<1>7. LoopIsMapped' BY DEF HostInv, LoopIsMapped
<1>8. ClosedIsDone' BY DEF HostInv, ClosedIsDone
<1> QED BY <1>2, <1>3, <1>4, <1>5, <1>6, <1>7, <1>8 DEF HostInv

LEMMA GoMoves ==
  ASSUME load \in [Loaders -> Loads], NEW l \in Loaders, NEW p \in Places
  PROVE  [load EXCEPT ![l].at = p] = [load EXCEPT ![l] = [at |-> p, entry |-> load[l].entry]]
<1>1. [load[l] EXCEPT !.at = p] = [at |-> p, entry |-> load[l].entry] BY DEF Loads
<1>2. [load EXCEPT ![l].at = p] = [load EXCEPT ![l] = [load[l] EXCEPT !.at = p]] OBVIOUS
<1> QED BY <1>1, <1>2

LEMMA HostLookup ==
  ASSUME HostInv, NEW l \in Loaders, Host!Lookup(l) PROVE HostInv'
<1> USE HostNats DEF Host!Lookup, Host!At
<1>0. load \in [Loaders -> Loads] /\ mapped \in 0..MaxEntries /\ made \in 0..MaxEntries
  BY HostTypes DEF HostInv
<1>1. CASE mapped # 0
  <2>1. stored' \in BOOLEAN BY DEF HostInv, Host!TypeOK
  <2>2. "found" \in Places BY DEF Places
  <2> QED BY <1>0, <1>1, <2>1, <2>2, HostMoves
<1>2. CASE mapped = 0
  <2>1. /\ made < MaxEntries /\ made' = made + 1 /\ mapped' = made + 1
        /\ fresh' = [fresh EXCEPT ![made + 1] = l \notin Quiet]
        /\ load' = [load EXCEPT ![l] = [at |-> "found", entry |-> made + 1]]
    BY <1>2
  <2>2. made + 1 \in 0..MaxEntries /\ "found" \in Places BY <1>0, <2>1 DEF Places
  <2>3. /\ load' \in [Loaders -> Loads]
        /\ load'[l].at = "found" /\ load'[l].entry = made + 1
        /\ \A m \in Loaders : m # l => load'[m] = load[m]
    BY <1>0, <2>1, <2>2, RequestMoves
  <2>4. Host!TypeOK'
    <3>1. fresh' \in [Host!Entries -> BOOLEAN] BY <2>1 DEF HostInv, Host!TypeOK
    <3> QED BY <1>0, <2>1, <2>2, <2>3, <3>1 DEF HostInv, Host!TypeOK, Loads, Places
  <2>5. LoadersAreMapped'
    BY <1>0, <1>2, <2>1, <2>3 DEF HostInv, LoadersAreMapped, Host!Entries
  <2>6. OneOpens' BY <2>3 DEF HostInv, OneOpens
  <2>7. EntriesAreNumbered' BY <1>0, <2>1 DEF HostInv, EntriesAreNumbered, Host!Entries
  <2>8. OwnerIsMapped' BY <1>2 DEF HostInv, OwnerIsMapped, Host!Owns, Host!Entries
  <2>9. LoopIsMapped' BY <1>2 DEF HostInv, LoopIsMapped, Host!Entries
  <2>10. ClosedIsDone' BY <1>0, <2>1 DEF HostInv, ClosedIsDone, EntriesAreNumbered, Host!Entries
  <2> QED BY <2>4, <2>5, <2>6, <2>7, <2>8, <2>9, <2>10 DEF HostInv
<1> QED BY <1>1, <1>2

LEMMA HostCheckClosing ==
  ASSUME HostInv, NEW l \in Loaders, Host!CheckClosing(l) PROVE HostInv'
<1> USE HostNats DEF Host!CheckClosing, Host!At
<1>0. load \in [Loaders -> Loads] /\ mapped \in 0..MaxEntries /\ load[l].entry \in 0..MaxEntries
  BY HostTypes DEF HostInv, Loads
<1>1. stored' \in BOOLEAN /\ {"idle", "cell"} \subseteq Places BY DEF HostInv, Host!TypeOK, Places
<1>2. CASE closing[load[l].entry]
  BY <1>0, <1>1, <1>2, HostMoves DEF Host!Leave, Host!Idle
<1>3. CASE ~closing[load[l].entry]
  <2>1. load' = [load EXCEPT ![l] = [at |-> "cell", entry |-> load[l].entry]]
    BY <1>0, <1>1, <1>3, GoMoves DEF Host!Go
  <2>2. load[l].entry = mapped /\ mapped # 0 BY <1>3 DEF HostInv, LoadersAreMapped, Host!Entries
  <2> QED BY <1>0, <1>1, <1>3, <2>1, <2>2, HostMoves
<1> QED BY <1>2, <1>3

LEMMA HostOpen ==
  ASSUME HostInv, NEW l \in Loaders, Host!Open(l) PROVE HostInv'
<1> USE HostNats DEF Host!Open, Host!At
<1> DEFINE e == load[l].entry
<1>0. load \in [Loaders -> Loads] /\ mapped \in 0..MaxEntries /\ e \in 0..MaxEntries
  BY HostTypes DEF HostInv, Loads
<1>1. e \in Host!Entries /\ e = mapped /\ ~closing[e] /\ cell[e] # "init"
  BY DEF HostInv, LoadersAreMapped
<1>2. stored' \in BOOLEAN /\ Places = {"idle", "found", "cell", "init", "ready", "hold", "create", "creating"}
  BY DEF HostInv, Host!TypeOK, Places
<1>3. CASE cell[e] = "open"
  <2>1. load' = [load EXCEPT ![l] = [at |-> "ready", entry |-> e]] /\ UNCHANGED cell
    BY <1>0, <1>2, <1>3, GoMoves DEF Host!Go
  <2>2. e # 0 BY <1>1 DEF Host!Entries
  <2> HIDE DEF e
  <2> QED BY <1>0, <1>1, <1>2, <1>3, <2>1, <2>2, HostMoves DEF e
<1>4. CASE cell[e] # "open" /\ ~stored
  <2>1. PICK p \in {"idle", "create"} : load' = [load EXCEPT ![l] = [at |-> p, entry |-> 0]]
    BY <1>4 DEF Host!Leave, Host!Idle
  <2>2. UNCHANGED cell /\ p \in Places /\ 0 \in 0..MaxEntries BY <1>2, <1>4
  <2>3. p \notin {"init", "cell", "ready", "hold", "found"} /\ load[l].at # "init" OBVIOUS
  <2> QED BY <1>2, <2>1, <2>2, <2>3, HostMoves
<1>5. CASE cell[e] # "open" /\ stored
  <2>1. load' = [load EXCEPT ![l] = [at |-> "init", entry |-> e]] /\ cell' = [cell EXCEPT ![e] = "init"]
    BY <1>0, <1>2, <1>5, GoMoves DEF Host!Go
  <2>2. /\ load' \in [Loaders -> Loads]
        /\ load'[l].at = "init" /\ load'[l].entry = e
        /\ \A m \in Loaders : m # l => load'[m] = load[m]
    BY <1>0, <1>2, <2>1, RequestMoves
  <2>3. cell[e] = "empty" /\ cell' \in [Host!Entries -> {"empty", "init", "open"}]
        /\ cell'[e] = "init" /\ \A d \in Host!Entries : d # e => cell'[d] = cell[d]
    BY <1>1, <1>5, <2>1 DEF HostInv, Host!TypeOK
  <2> HIDE DEF e
  <2>4. Host!TypeOK' BY <2>2, <2>3 DEF HostInv, Host!TypeOK, Loads, Places
  <2>5. LoadersAreMapped'
    BY <1>1, <2>2, <2>3 DEF HostInv, LoadersAreMapped
  <2>6. OneOpens'
    <3>1. \A m \in Loaders : load[m].at # "init"
      BY <1>1 DEF HostInv, LoadersAreMapped
    <3> QED BY <2>2, <2>3, <3>1 DEF HostInv, OneOpens
  <2>7. EntriesAreNumbered' BY <1>0, <1>1, <2>3 DEF HostInv, EntriesAreNumbered, Host!Entries, Host!TypeOK
  <2>8. OwnerIsMapped' BY <1>1, <2>3 DEF HostInv, OwnerIsMapped, Host!Owns
  <2>9. LoopIsMapped' BY <1>1, <2>3 DEF HostInv, LoopIsMapped
  <2>10. ClosedIsDone' BY DEF HostInv, ClosedIsDone
  <2> QED BY <2>4, <2>5, <2>6, <2>7, <2>8, <2>9, <2>10 DEF HostInv
<1> QED BY <1>3, <1>4, <1>5

LEMMA HostOpened ==
  ASSUME HostInv, NEW l \in Loaders, Host!Opened(l) PROVE HostInv'
<1> USE HostNats
<1> DEFINE e == load[l].entry
<1>0. /\ load \in [Loaders -> Loads] /\ e \in 0..MaxEntries
      /\ {"idle", "ready"} \subseteq Places /\ 0 \in 0..MaxEntries
  BY HostTypes DEF HostInv, Loads, Places
<1>1. /\ e \in Host!Entries /\ e = mapped /\ ~closing[e] /\ cell[e] = "init"
      /\ load[l].at = "init"
  BY DEF HostInv, LoadersAreMapped, Host!Opened, Host!At
<1>2. UNCHANGED <<stored, mapped, made, closing, fresh, space, loop, down>> BY DEF Host!Opened
<1>3. PICK c \in {"open", "empty"}, p \in {"idle", "ready"}, n \in {0, e} :
         /\ cell' = [cell EXCEPT ![e] = c]
         /\ load' = [load EXCEPT ![l] = [at |-> p, entry |-> n]]
         /\ p = "ready" => c = "open" /\ n = e
  BY <1>0, GoMoves DEF Host!Opened, Host!Go, Host!Leave, Host!Idle
<1>4. /\ load' \in [Loaders -> Loads]
      /\ load'[l].at = p /\ load'[l].entry = n
      /\ \A m \in Loaders : m # l => load'[m] = load[m]
  BY <1>0, <1>3, RequestMoves
<1>5. /\ cell' \in [Host!Entries -> {"empty", "init", "open"}]
      /\ cell'[e] = c /\ \A d \in Host!Entries : d # e => cell'[d] = cell[d]
  BY <1>1, <1>3 DEF HostInv, Host!TypeOK
<1>6. \A m \in Loaders : m # l => load[m].at # "init" BY <1>1 DEF HostInv, OneOpens
<1> HIDE DEF e
<1>7. Host!TypeOK' BY <1>2, <1>4, <1>5 DEF HostInv, Host!TypeOK, Loads, Places
<1>8. LoadersAreMapped' BY <1>1, <1>2, <1>3, <1>4, <1>5, <1>6 DEF HostInv, LoadersAreMapped
<1>9. OneOpens'
  <2>1. \A d \in Host!Entries : cell'[d] # "init"
    BY <1>1, <1>3, <1>5 DEF HostInv, OneOpens, LoadersAreMapped
  <2> QED BY <1>3, <1>4, <1>6, <2>1 DEF OneOpens
<1>10. EntriesAreNumbered' BY <1>1, <1>2, <1>3, <1>5 DEF HostInv, EntriesAreNumbered, Host!TypeOK
<1>11. OwnerIsMapped' BY <1>1, <1>2, <1>3, <1>5 DEF HostInv, OwnerIsMapped, Host!Owns
<1>12. LoopIsMapped' BY <1>1, <1>2, <1>5 DEF HostInv, LoopIsMapped
<1>13. ClosedIsDone' BY <1>2 DEF HostInv, ClosedIsDone
<1> QED BY <1>7, <1>8, <1>9, <1>10, <1>11, <1>12, <1>13 DEF HostInv

LEMMA HostRelease ==
  ASSUME HostInv, NEW l \in Loaders, Host!Release(l) \/ Host!Created(l) PROVE HostInv'
<1>1. "idle" \in Places /\ 0 \in 0..MaxEntries /\ stored' \in BOOLEAN
  BY HostNats DEF Places, HostInv, Host!TypeOK, Host!Release, Host!Created
<1> QED BY <1>1, HostMoves DEF Host!Release, Host!Created, Host!Leave, Host!Idle, Host!At

LEMMA HostCreate ==
  ASSUME HostInv, NEW l \in Loaders, Host!Create(l) PROVE HostInv'
<1> USE HostNats
<1>0. load \in [Loaders -> Loads] /\ load[l].entry \in 0..MaxEntries
  BY HostTypes DEF HostInv, Loads
<1>1. /\ {"idle", "creating"} \subseteq Places /\ 0 \in 0..MaxEntries /\ load[l].at = "create"
  BY DEF Places, Host!Create, Host!At
<1>4. stored' \in BOOLEAN BY DEF HostInv, Host!TypeOK, Host!Create
<1>2. UNCHANGED <<mapped, made, cell, closing, fresh, space, loop, down>> BY DEF Host!Create
<1>3. PICK p \in {"idle", "creating"}, n \in {0, load[l].entry} :
        load' = [load EXCEPT ![l] = [at |-> p, entry |-> n]]
  BY <1>0, <1>1, GoMoves DEF Host!Create, Host!Leave, Host!Go, Host!Idle
<1> QED BY <1>0, <1>1, <1>2, <1>3, <1>4, HostMoves

LEMMA HostDrop ==
  ASSUME HostInv, NEW l \in Loaders, Host!Drop(l) PROVE HostInv'
<1> USE HostNats
<1>0. load \in [Loaders -> Loads] /\ "idle" \in Places /\ 0 \in 0..MaxEntries /\ stored' \in BOOLEAN
  BY HostTypes DEF HostInv, Places, Host!TypeOK, Host!Drop
<1>1. load' = [load EXCEPT ![l] = [at |-> "idle", entry |-> 0]] BY DEF Host!Drop, Host!Leave, Host!Idle
<1>2. UNCHANGED <<stored, mapped, made, closing, fresh, space, loop, down>> BY DEF Host!Drop
<1>3. CASE load[l].at # "init"
  BY <1>0, <1>1, <1>2, <1>3, HostMoves DEF Host!Drop, Host!At
<1>4. CASE load[l].at = "init"
  <2> DEFINE e == load[l].entry
  <2>1. e \in Host!Entries /\ e = mapped /\ ~closing[e] /\ cell[e] = "init"
    BY <1>4 DEF HostInv, LoadersAreMapped
  <2>2. cell' = [cell EXCEPT ![e] = "empty"] BY <1>4 DEF Host!Drop, Host!At
  <2>3. /\ cell' \in [Host!Entries -> {"empty", "init", "open"}]
        /\ cell'[e] = "empty" /\ \A d \in Host!Entries : d # e => cell'[d] = cell[d]
    BY <2>1, <2>2 DEF HostInv, Host!TypeOK
  <2>4. /\ load' \in [Loaders -> Loads]
        /\ load'[l].at = "idle" /\ load'[l].entry = 0
        /\ \A m \in Loaders : m # l => load'[m] = load[m]
    BY <1>0, <1>1, RequestMoves
  <2>5. \A m \in Loaders : m # l => load[m].at # "init" BY <1>4 DEF HostInv, OneOpens
  <2> HIDE DEF e
  <2>6. Host!TypeOK' BY <1>2, <2>3, <2>4 DEF HostInv, Host!TypeOK, Loads, Places
  <2>7. LoadersAreMapped' BY <1>2, <2>1, <2>3, <2>4, <2>5 DEF HostInv, LoadersAreMapped
  <2>8. OneOpens'
    <3>1. \A d \in Host!Entries : cell'[d] # "init"
      BY <2>1, <2>3 DEF HostInv, OneOpens, LoadersAreMapped
    <3> QED BY <2>4, <2>5, <3>1 DEF OneOpens
  <2>9. EntriesAreNumbered' BY <1>2, <2>1, <2>3 DEF HostInv, EntriesAreNumbered
  <2>10. OwnerIsMapped' BY <1>2, <2>1, <2>3 DEF HostInv, OwnerIsMapped, Host!Owns
  <2>11. LoopIsMapped' BY <1>2, <2>1, <2>3 DEF HostInv, LoopIsMapped
  <2>12. ClosedIsDone' BY <1>2 DEF HostInv, ClosedIsDone
  <2> QED BY <2>6, <2>7, <2>8, <2>9, <2>10, <2>11, <2>12 DEF HostInv
<1> QED BY <1>3, <1>4

LEMMA HostServe ==
  ASSUME HostInv, NEW l \in Loaders, Host!Serve(l) PROVE HostInv'
<1> USE HostNats
<1> DEFINE e == load[l].entry
<1>0. /\ load \in [Loaders -> Loads] /\ space \in [Host!Entries -> SpaceStates]
      /\ "hold" \in Places /\ e \in 0..MaxEntries
  BY HostTypes DEF HostInv, Loads, Places
<1>1. /\ load[l].at = "ready" /\ e \in Host!Entries /\ e = mapped /\ ~closing[e]
      /\ cell[e] = "open"
  BY DEF HostInv, LoadersAreMapped, Host!Serve, Host!At
<1>2. load' = [load EXCEPT ![l] = [at |-> "hold", entry |-> e]]
  BY <1>0, GoMoves DEF Host!Serve, Host!Go
<1>3. /\ load' \in [Loaders -> Loads]
      /\ load'[l].at = "hold" /\ load'[l].entry = e
      /\ \A m \in Loaders : m # l => load'[m] = load[m]
  BY <1>0, <1>2, RequestMoves
<1>4. PICK b \in BOOLEAN : /\ space' = [space EXCEPT ![e].background = b]
                           /\ ~space[e].admits => b = space[e].background
  BY <1>0, <1>1 DEF Host!Serve, SpaceStates
<1>5. /\ space' \in [Host!Entries -> SpaceStates]
      /\ \A d \in Host!Entries : /\ space'[d].admits = space[d].admits
                                 /\ space'[d].tasks = space[d].tasks
                                 /\ space'[d].closed = space[d].closed
                                 /\ ~space[d].admits => space'[d].background = space[d].background
  BY <1>0, <1>1, <1>4 DEF SpaceStates
<1>6. /\ UNCHANGED <<stored, mapped, made, cell, closing, loop, down>>
      /\ fresh' = [fresh EXCEPT ![e] = @ \/ l \notin Quiet] BY DEF Host!Serve
<1>7. fresh' \in [Host!Entries -> BOOLEAN] BY <1>1, <1>6 DEF HostInv, Host!TypeOK
<1> HIDE DEF e
<1>8. Host!TypeOK' BY <1>3, <1>5, <1>6, <1>7 DEF HostInv, Host!TypeOK, Loads, Places, SpaceStates
<1>9. LoadersAreMapped' BY <1>1, <1>3, <1>6 DEF HostInv, LoadersAreMapped
<1>10. OneOpens' BY <1>1, <1>3, <1>6 DEF HostInv, OneOpens
<1>11. EntriesAreNumbered' BY <1>5, <1>6 DEF HostInv, EntriesAreNumbered
<1>12. OwnerIsMapped' BY <1>5, <1>6 DEF HostInv, OwnerIsMapped, Host!Owns
<1>13. LoopIsMapped' BY <1>5, <1>6 DEF HostInv, LoopIsMapped
<1>14. ClosedIsDone' BY <1>5, <1>6 DEF HostInv, ClosedIsDone
<1> QED BY <1>8, <1>9, <1>10, <1>11, <1>12, <1>13, <1>14 DEF HostInv

\* A step that only changes one Space's work.
LEMMA HostWorks ==
  ASSUME HostInv, NEW e \in Host!Entries, NEW t \in 0..TaskSlots, NEW b \in BOOLEAN,
         space' = [space EXCEPT ![e].tasks = t, ![e].background = b],
         ~space[e].closed,
         UNCHANGED <<stored, mapped, made, cell, closing, fresh, load, down>>,
         (loop' = Host!Idle /\ loop.at = "flush") \/ (loop' = loop /\ space[e].admits)
  PROVE  HostInv'
<1> USE HostNats
<1>0. space \in [Host!Entries -> SpaceStates] /\ loop \in LoopStates BY HostTypes DEF HostInv
<1>1. /\ space' \in [Host!Entries -> SpaceStates]
      /\ space'[e].admits = space[e].admits /\ space'[e].closed = space[e].closed
      /\ \A d \in Host!Entries : d # e => space'[d] = space[d]
  BY <1>0 DEF SpaceStates
<1>2. loop' \in LoopStates BY <1>0 DEF LoopStates, LoopSteps, Host!Idle
<1>3. Host!TypeOK' BY <1>1, <1>2 DEF HostInv, Host!TypeOK, LoopStates, LoopSteps, SpaceStates
<1>4. LoadersAreMapped' BY DEF HostInv, LoadersAreMapped
<1>5. OneOpens' BY DEF HostInv, OneOpens
<1>6. EntriesAreNumbered' BY <1>1 DEF HostInv, EntriesAreNumbered
<1>7. OwnerIsMapped' BY <1>1 DEF HostInv, OwnerIsMapped, Host!Owns
<1>8. LoopIsMapped'
  <2>1. CASE loop' = Host!Idle BY <2>1 DEF LoopIsMapped, Host!Idle
  <2>2. CASE loop' = loop /\ space[e].admits BY <1>0, <1>1, <2>2 DEF HostInv, LoopIsMapped, SpaceStates
  <2> QED BY <2>1, <2>2
<1>9. ClosedIsDone' BY <1>0, <1>1 DEF HostInv, ClosedIsDone, SpaceStates
<1> QED BY <1>3, <1>4, <1>5, <1>6, <1>7, <1>8, <1>9 DEF HostInv


LEMMA HostStartTask ==
  ASSUME HostInv, NEW l \in Loaders, Host!StartTask(l) PROVE HostInv'
<1> DEFINE e == load[l].entry
<1>0. space \in [Host!Entries -> SpaceStates] BY HostTypes DEF HostInv
<1>1. e \in Host!Entries /\ space[e].admits /\ space[e].tasks < TaskSlots
  BY DEF HostInv, LoadersAreMapped, Host!StartTask, Host!At
<1>2. space[e] \in SpaceStates BY <1>0, <1>1
<1>3. space' = [space EXCEPT ![e].tasks = space[e].tasks + 1] BY DEF Host!StartTask
<1>4. PICK t \in 0..TaskSlots, b \in BOOLEAN :
        space' = [space EXCEPT ![e].tasks = t, ![e].background = b]
  <2>1. space[e].tasks + 1 \in 0..TaskSlots /\ space[e].background \in BOOLEAN
    BY HostNats, <1>1, <1>2 DEF SpaceStates
  <2>2. [space[e] EXCEPT !.tasks = space[e].tasks + 1]
          = [space[e] EXCEPT !.tasks = space[e].tasks + 1, !.background = space[e].background]
    BY <1>2 DEF SpaceStates
  <2> QED BY ZenonT(40), <1>0, <1>1, <1>3, <2>1, <2>2
<1>5. ~space[e].closed BY <1>1 DEF HostInv, ClosedIsDone
<1> QED BY <1>1, <1>4, <1>5, HostWorks DEF Host!StartTask

LEMMA HostFlush ==
  ASSUME HostInv, Host!Flush PROVE HostInv'
<1> DEFINE e == loop.entry
<1>0. space \in [Host!Entries -> SpaceStates] BY HostTypes DEF HostInv
<1>1. e \in Host!Entries /\ ~space[e].closed
  BY DEF HostInv, LoopIsMapped, ClosedIsDone, Host!Flush
<1>2. space[e] \in SpaceStates BY <1>0, <1>1
<1>3. PICK b \in BOOLEAN : space' = [space EXCEPT ![e].background = b] BY <1>2 DEF Host!Flush, SpaceStates
<1>4. space' = [space EXCEPT ![e].tasks = space[e].tasks, ![e].background = b]
  <2>1. [space[e] EXCEPT !.background = b] = [space[e] EXCEPT !.tasks = space[e].tasks, !.background = b]
    BY <1>2 DEF SpaceStates
  <2> QED BY <1>0, <1>1, <1>3, <2>1
<1>5. space[e].tasks \in 0..TaskSlots BY <1>2 DEF SpaceStates
<1> QED BY <1>1, <1>4, <1>5, HostWorks DEF Host!Flush

LEMMA HostTaskEnds ==
  ASSUME HostInv, NEW e \in Host!Entries, Host!TaskEnds(e) PROVE HostInv'
<1> USE HostNats DEF Host!TaskEnds, HostInv
<1>1. Host!TypeOK'
  BY DEF Host!TypeOK
<1>2. LoadersAreMapped'
  BY DEF LoadersAreMapped, Host!TypeOK, Host!Entries, EntriesAreNumbered, OneOpens, LoopIsMapped
<1>3. OneOpens'
  BY DEF OneOpens
<1>4. EntriesAreNumbered'
  BY DEF EntriesAreNumbered, Host!TypeOK, Host!Entries, LoadersAreMapped, LoopIsMapped
<1>5. OwnerIsMapped'
  BY DEF OwnerIsMapped, Host!TypeOK, Host!Entries, Host!Owns, EntriesAreNumbered, LoopIsMapped
<1>6. LoopIsMapped'
  BY DEF LoopIsMapped, Host!TypeOK, Host!Entries, EntriesAreNumbered, ClosedIsDone, OwnerIsMapped, Host!Owns
<1>7. ClosedIsDone'
  BY DEF ClosedIsDone, Host!TypeOK, Host!Entries, LoopIsMapped, EntriesAreNumbered
<1> QED BY <1>1, <1>2, <1>3, <1>4, <1>5, <1>6, <1>7 DEF HostInv

LEMMA HostBackgroundEnds ==
  ASSUME HostInv, NEW e \in Host!Entries, Host!BackgroundEnds(e) PROVE HostInv'
<1> USE HostNats DEF Host!BackgroundEnds, HostInv
<1>1. Host!TypeOK'
  BY ZenonT(40) DEF Host!TypeOK
<1>2. LoadersAreMapped'
  BY DEF LoadersAreMapped, Host!TypeOK, Host!Entries, EntriesAreNumbered, OneOpens, LoopIsMapped
<1>3. OneOpens'
  BY DEF OneOpens
<1>4. EntriesAreNumbered'
  BY DEF EntriesAreNumbered, Host!TypeOK, Host!Entries, LoadersAreMapped, LoopIsMapped
<1>5. OwnerIsMapped'
  BY DEF OwnerIsMapped, Host!TypeOK, Host!Entries, Host!Owns, EntriesAreNumbered, LoopIsMapped
<1>6. LoopIsMapped'
  BY DEF LoopIsMapped, Host!TypeOK, Host!Entries, EntriesAreNumbered, ClosedIsDone, OwnerIsMapped, Host!Owns
<1>7. ClosedIsDone'
  BY DEF ClosedIsDone, Host!TypeOK, Host!Entries, LoopIsMapped, EntriesAreNumbered
<1> QED BY <1>1, <1>2, <1>3, <1>4, <1>5, <1>6, <1>7 DEF HostInv

LEMMA HostTimePasses ==
  ASSUME HostInv, Host!TimePasses PROVE HostInv'
<1> USE HostNats DEF Host!TimePasses, HostInv
<1>1. Host!TypeOK'
  BY DEF Host!TypeOK
<1>2. LoadersAreMapped'
  BY DEF LoadersAreMapped, Host!TypeOK, Host!Entries, EntriesAreNumbered, OneOpens, LoopIsMapped
<1>3. OneOpens'
  BY DEF OneOpens
<1>4. EntriesAreNumbered'
  BY DEF EntriesAreNumbered, Host!TypeOK, Host!Entries, LoadersAreMapped, LoopIsMapped
<1>5. OwnerIsMapped'
  BY DEF OwnerIsMapped, Host!TypeOK, Host!Entries, Host!Owns, EntriesAreNumbered, LoopIsMapped
<1>6. LoopIsMapped'
  BY DEF LoopIsMapped, Host!TypeOK, Host!Entries, EntriesAreNumbered, ClosedIsDone, OwnerIsMapped, Host!Owns
<1>7. ClosedIsDone'
  BY DEF ClosedIsDone, Host!TypeOK, Host!Entries, LoopIsMapped, EntriesAreNumbered
<1> QED BY <1>1, <1>2, <1>3, <1>4, <1>5, <1>6, <1>7 DEF HostInv

LEMMA HostSnapshot ==
  ASSUME HostInv, Host!Snapshot PROVE HostInv'
<1> USE HostNats DEF Host!Snapshot, HostInv
<1>1. Host!TypeOK'
  BY DEF Host!TypeOK
<1>2. LoadersAreMapped'
  BY DEF LoadersAreMapped, Host!TypeOK, Host!Entries, EntriesAreNumbered, OneOpens, LoopIsMapped
<1>3. OneOpens'
  BY DEF OneOpens
<1>4. EntriesAreNumbered'
  BY DEF EntriesAreNumbered, Host!TypeOK, Host!Entries, LoadersAreMapped, LoopIsMapped
<1>5. OwnerIsMapped'
  BY DEF OwnerIsMapped, Host!TypeOK, Host!Entries, Host!Owns, EntriesAreNumbered, LoopIsMapped
<1>6. LoopIsMapped'
  BY DEF LoopIsMapped, Host!TypeOK, Host!Entries, EntriesAreNumbered, ClosedIsDone, OwnerIsMapped, Host!Owns
<1>7. ClosedIsDone'
  BY DEF ClosedIsDone, Host!TypeOK, Host!Entries, LoopIsMapped, EntriesAreNumbered
<1> QED BY <1>1, <1>2, <1>3, <1>4, <1>5, <1>6, <1>7 DEF HostInv

LEMMA HostStopAdmission ==
  ASSUME HostInv, Host!StopAdmission PROVE HostInv'
<1> USE HostNats DEF Host!StopAdmission, HostInv
<1>1. Host!TypeOK'
  BY ZenonT(40) DEF Host!TypeOK
<1>2. LoadersAreMapped'
  BY DEF LoadersAreMapped, Host!TypeOK, Host!Entries, EntriesAreNumbered, OneOpens, LoopIsMapped
<1>3. OneOpens'
  BY DEF OneOpens
<1>4. EntriesAreNumbered'
  BY DEF EntriesAreNumbered, Host!TypeOK, Host!Entries, LoadersAreMapped, LoopIsMapped
<1>5. OwnerIsMapped'
  BY DEF OwnerIsMapped, Host!TypeOK, Host!Entries, Host!Owns, EntriesAreNumbered, LoopIsMapped
<1>6. LoopIsMapped'
  BY DEF LoopIsMapped, Host!TypeOK, Host!Entries, EntriesAreNumbered, ClosedIsDone, OwnerIsMapped, Host!Owns
<1>7. ClosedIsDone'
  BY DEF ClosedIsDone, Host!TypeOK, Host!Entries, LoopIsMapped, EntriesAreNumbered
<1> QED BY <1>1, <1>2, <1>3, <1>4, <1>5, <1>6, <1>7 DEF HostInv

LEMMA HostDrained ==
  ASSUME HostInv, Host!Drained PROVE HostInv'
<1> USE HostNats DEF Host!Drained, HostInv
<1>1. Host!TypeOK'
  BY DEF Host!TypeOK
<1>2. LoadersAreMapped'
  BY DEF LoadersAreMapped, Host!TypeOK, Host!Entries, EntriesAreNumbered, OneOpens, LoopIsMapped
<1>3. OneOpens'
  BY DEF OneOpens
<1>4. EntriesAreNumbered'
  BY DEF EntriesAreNumbered, Host!TypeOK, Host!Entries, LoadersAreMapped, LoopIsMapped
<1>5. OwnerIsMapped'
  BY DEF OwnerIsMapped, Host!TypeOK, Host!Entries, Host!Owns, EntriesAreNumbered, LoopIsMapped
<1>6. LoopIsMapped'
  BY DEF LoopIsMapped, Host!TypeOK, Host!Entries, EntriesAreNumbered, ClosedIsDone, OwnerIsMapped, Host!Owns
<1>7. ClosedIsDone'
  BY DEF ClosedIsDone, Host!TypeOK, Host!Entries, LoopIsMapped, EntriesAreNumbered
<1> QED BY <1>1, <1>2, <1>3, <1>4, <1>5, <1>6, <1>7 DEF HostInv

LEMMA HostCloseFails ==
  ASSUME HostInv, Host!CloseFails PROVE HostInv'
<1> USE HostNats DEF Host!CloseFails, Host!Idle, HostInv
<1>1. Host!TypeOK'
  BY DEF Host!TypeOK
<1>2. LoadersAreMapped'
  BY DEF LoadersAreMapped, Host!TypeOK, Host!Entries, EntriesAreNumbered, OneOpens, LoopIsMapped
<1>3. OneOpens'
  BY DEF OneOpens
<1>4. EntriesAreNumbered'
  BY DEF EntriesAreNumbered, Host!TypeOK, Host!Entries, LoadersAreMapped, LoopIsMapped
<1>5. OwnerIsMapped'
  BY DEF OwnerIsMapped, Host!TypeOK, Host!Entries, Host!Owns, EntriesAreNumbered, LoopIsMapped
<1>6. LoopIsMapped'
  BY DEF LoopIsMapped, Host!TypeOK, Host!Entries, EntriesAreNumbered, ClosedIsDone, OwnerIsMapped, Host!Owns
<1>7. ClosedIsDone'
  BY DEF ClosedIsDone, Host!TypeOK, Host!Entries, LoopIsMapped, EntriesAreNumbered
<1> QED BY <1>1, <1>2, <1>3, <1>4, <1>5, <1>6, <1>7 DEF HostInv

LEMMA HostClosed ==
  ASSUME HostInv, Host!Closed PROVE HostInv'
<1> USE HostNats DEF Host!Closed, Host!Idle, HostInv
<1>1. Host!TypeOK'
  BY DEF Host!TypeOK
<1>2. LoadersAreMapped'
  BY DEF LoadersAreMapped, Host!TypeOK, Host!Entries, EntriesAreNumbered, OneOpens, LoopIsMapped
<1>3. OneOpens'
  BY DEF OneOpens
<1>4. EntriesAreNumbered'
  BY DEF EntriesAreNumbered, Host!TypeOK, Host!Entries, LoadersAreMapped, LoopIsMapped
<1>5. OwnerIsMapped'
  BY DEF OwnerIsMapped, Host!TypeOK, Host!Entries, Host!Owns, EntriesAreNumbered, LoopIsMapped
<1>6. LoopIsMapped'
  BY DEF LoopIsMapped, Host!TypeOK, Host!Entries, EntriesAreNumbered, ClosedIsDone, OwnerIsMapped, Host!Owns
<1>7. ClosedIsDone'
  BY DEF ClosedIsDone, Host!TypeOK, Host!Entries, LoopIsMapped, EntriesAreNumbered
<1> QED BY <1>1, <1>2, <1>3, <1>4, <1>5, <1>6, <1>7 DEF HostInv

LEMMA HostShutdown ==
  ASSUME HostInv, Host!Shutdown PROVE HostInv'
<1> USE HostNats DEF Host!Shutdown, Host!Idle, HostInv
<1>1. Host!TypeOK'
  BY DEF Host!TypeOK
<1>2. LoadersAreMapped'
  BY DEF LoadersAreMapped, Host!TypeOK, Host!Entries, EntriesAreNumbered, OneOpens, LoopIsMapped
<1>3. OneOpens'
  BY DEF OneOpens
<1>4. EntriesAreNumbered'
  BY DEF EntriesAreNumbered, Host!TypeOK, Host!Entries, LoadersAreMapped, LoopIsMapped
<1>5. OwnerIsMapped'
  BY DEF OwnerIsMapped, Host!TypeOK, Host!Entries, Host!Owns, EntriesAreNumbered, LoopIsMapped
<1>6. LoopIsMapped'
  BY DEF LoopIsMapped, Host!TypeOK, Host!Entries, EntriesAreNumbered, ClosedIsDone, OwnerIsMapped, Host!Owns
<1>7. ClosedIsDone'
  BY DEF ClosedIsDone, Host!TypeOK, Host!Entries, LoopIsMapped, EntriesAreNumbered
<1> QED BY <1>1, <1>2, <1>3, <1>4, <1>5, <1>6, <1>7 DEF HostInv

LEMMA HostCounts == \A S : Host!Cardinality(S) = Cardinality(S)
BY DEF Host!Cardinality, Cardinality

LEMMA NobodyCounted ==
  ASSUME NEW S, S \subseteq Loaders, Cardinality(S) = 0 PROVE S = {}
BY HostAssumption, FS_Subset, FS_EmptySet

\* An entry of the map that the loop holds and nobody else is used by no
\* request, whatever cell it has.
LEMMA UnusedIsFree ==
  ASSUME HostInv, NEW e \in Host!Entries, mapped = e, loop.entry = e, Host!Unused(e)
  PROVE  \A l \in Loaders : load[l].entry # e
<1> DEFINE E == {l \in Loaders : load[l].entry = e /\ load[l].at # "hold"}
           H == {l \in Loaders : load[l].entry = e /\ load[l].at \in {"ready", "hold"}}
<1>1. IsFiniteSet(E) /\ IsFiniteSet(H) BY HostAssumption, FS_Subset
<1>2. Cardinality(E) \in Nat /\ Cardinality(H) \in Nat BY <1>1, FS_CardinalityType
<1>3. Cardinality(E) = 0
  <2>1. Host!EntryRefs(e) = (IF mapped = e THEN 1 ELSE 0) + (IF loop.entry = e THEN 1 ELSE 0)
                              + Cardinality(E)
    BY HostCounts, Zenon DEF Host!EntryRefs
  <2>2. Host!EntryRefs(e) <= 2 BY DEF Host!Unused
  <2> HIDE DEF E
  <2> QED BY <1>2, <2>1, <2>2
<1>4. E = {} BY <1>3, NobodyCounted
<1>5. CASE cell[e] = "open"
  <2>1. Host!SpaceRefs(e) = 1 + (IF space[e].background THEN 1 ELSE 0) + Cardinality(H)
    BY HostCounts, Zenon DEF Host!SpaceRefs
  <2>2. Cardinality(H) = 0
    <3>1. Host!SpaceRefs(e) = 1 BY <1>5 DEF Host!Unused
    <3> HIDE DEF H
    <3> QED BY <1>2, <2>1, <3>1
  <2>3. H = {} BY <2>2, NobodyCounted
  <2> QED BY <1>4, <2>3
<1>6. CASE cell[e] # "open" BY <1>4, <1>6 DEF HostInv, LoadersAreMapped
<1> QED BY <1>5, <1>6

LEMMA HostTryEvict ==
  ASSUME HostInv, Host!TryEvict PROVE HostInv'
<1> USE HostNats
<1> DEFINE e == loop.entry
<1>0. loop \in LoopStates /\ mapped \in 0..MaxEntries BY HostTypes DEF HostInv
<1>1. loop.at = "try" /\ e \in Host!Entries /\ mapped = e /\ ~down
  BY DEF HostInv, LoopIsMapped, Host!TryEvict
<1>2. UNCHANGED <<stored, made, cell, fresh, space, load, down>> BY DEF Host!TryEvict
<1>3. CASE closing[e] \/ fresh[e] \/ ~Host!Unused(e)
  <2>1. /\ UNCHANGED <<mapped, closing>>
        /\ \/ loop' = [loop EXCEPT !.at = "close"] /\ closing[e]
           \/ loop' = [loop EXCEPT !.at = "flush"]
    BY <1>1, <1>3 DEF Host!TryEvict
  <2>2. loop' \in LoopStates /\ loop'.entry = e /\ loop'.at \in {"close", "flush"}
        /\ (loop'.at = "close" => closing[e])
    BY <1>0, <2>1 DEF LoopStates, LoopSteps
  <2> HIDE DEF e
  <2>3. Host!TypeOK' BY <1>2, <2>1, <2>2 DEF HostInv, Host!TypeOK, LoopStates, LoopSteps
  <2>4. LoadersAreMapped' BY <1>2, <2>1 DEF HostInv, LoadersAreMapped
  <2>5. OneOpens' BY <1>2 DEF HostInv, OneOpens
  <2>6. EntriesAreNumbered' BY <1>2, <2>1 DEF HostInv, EntriesAreNumbered
  <2>7. OwnerIsMapped' BY <1>2, <2>1 DEF HostInv, OwnerIsMapped, Host!Owns
  <2>8. LoopIsMapped' BY <1>1, <1>2, <2>1, <2>2 DEF HostInv, LoopIsMapped, EntriesAreNumbered
  <2>9. ClosedIsDone' BY <1>1, <1>2, <2>1 DEF HostInv, ClosedIsDone
  <2> QED BY <2>3, <2>4, <2>5, <2>6, <2>7, <2>8, <2>9 DEF HostInv
<1>4. CASE ~closing[e] /\ ~fresh[e] /\ Host!Unused(e)
  <2>1. \A l \in Loaders : load[l].entry # e BY <1>1, <1>4, UnusedIsFree
  <2>2. CASE cell[e] # "open"
    <3>1. loop' = Host!Idle /\ mapped' = 0 /\ UNCHANGED closing
      BY <1>1, <1>4, <2>2 DEF Host!TryEvict
    <3>2. \A d \in Host!Entries : ~Host!Owns(d)
      BY <1>1, <2>1, <2>2 DEF HostInv, OwnerIsMapped, Host!Owns, OneOpens
    <3> HIDE DEF e
    <3>3. Host!TypeOK' BY <1>2, <3>1 DEF HostInv, Host!TypeOK, Host!Idle
    <3>4. LoadersAreMapped' BY <1>1, <1>2, <2>1, <3>1 DEF HostInv, LoadersAreMapped
    <3>5. OneOpens' BY <1>2 DEF HostInv, OneOpens
    <3>6. EntriesAreNumbered' BY <1>0, <1>2, <3>1 DEF HostInv, EntriesAreNumbered, Host!TypeOK
    <3>7. OwnerIsMapped' BY <1>2, <3>2 DEF OwnerIsMapped, Host!Owns
    <3>8. LoopIsMapped' BY <3>1 DEF LoopIsMapped, Host!Idle
    <3>9. ClosedIsDone' BY <1>2, <3>1 DEF HostInv, ClosedIsDone, Host!Entries
    <3> QED BY <3>3, <3>4, <3>5, <3>6, <3>7, <3>8, <3>9 DEF HostInv
  <2>3. CASE cell[e] = "open"
    <3>1. /\ loop' = [loop EXCEPT !.at = "close"] /\ UNCHANGED mapped
          /\ closing' = [closing EXCEPT ![e] = TRUE]
      BY <1>1, <1>4, <2>3 DEF Host!TryEvict
    <3>2. loop' \in LoopStates /\ loop'.entry = e /\ loop'.at = "close"
      BY <1>0, <3>1 DEF LoopStates, LoopSteps
    <3>3. /\ closing' \in [Host!Entries -> BOOLEAN] /\ closing'[e]
          /\ \A d \in Host!Entries : d # e => closing'[d] = closing[d]
      BY <1>1, <3>1 DEF HostInv, Host!TypeOK
    <3> HIDE DEF e
    <3>4. Host!TypeOK' BY <1>2, <3>1, <3>2, <3>3 DEF HostInv, Host!TypeOK, LoopStates, LoopSteps
    <3>5. LoadersAreMapped' BY <1>2, <2>1, <3>1, <3>3 DEF HostInv, LoadersAreMapped
    <3>6. OneOpens' BY <1>2 DEF HostInv, OneOpens
    <3>7. EntriesAreNumbered' BY <1>2, <2>3, <3>1, <3>3 DEF HostInv, EntriesAreNumbered
    <3>8. OwnerIsMapped' BY <1>2, <3>1 DEF HostInv, OwnerIsMapped, Host!Owns
    <3>9. LoopIsMapped' BY <1>1, <1>2, <2>3, <3>1, <3>2, <3>3 DEF HostInv, LoopIsMapped
    <3>10. ClosedIsDone' BY <1>1, <1>2, <3>1 DEF HostInv, ClosedIsDone
    <3> QED BY <3>4, <3>5, <3>6, <3>7, <3>8, <3>9, <3>10 DEF HostInv
  <2> QED BY <2>2, <2>3
<1> QED BY <1>3, <1>4

LEMMA HostCloseStep ==
  ASSUME HostInv, Host!CloseStep PROVE HostInv'
<1> USE HostNats
<1> DEFINE e == loop.entry
<1>0. loop \in LoopStates /\ space \in [Host!Entries -> SpaceStates] BY HostTypes DEF HostInv
<1>1. /\ loop.at \in {"reconcile", "database"} /\ e \in Host!Entries /\ mapped = e
      /\ cell[e] = "open" /\ (closing[e] \/ down) /\ ~space[e].admits /\ ~space[e].background
      /\ space[e].tasks = 0
  BY DEF HostInv, LoopIsMapped, Host!CloseStep
<1>2. UNCHANGED <<stored, mapped, made, cell, closing, fresh, load, down>> BY DEF Host!CloseStep
<1>3. PICK p \in {"database", "closed"} :
        /\ loop' = [loop EXCEPT !.at = p]
        /\ space' = [space EXCEPT ![e] = IF p = "closed" THEN [@ EXCEPT !.closed = TRUE]
                                         ELSE [@ EXCEPT !.reconciled = TRUE]]
  BY DEF Host!CloseStep
<1>4. loop' \in LoopStates /\ loop'.entry = e /\ loop'.at = p
  BY <1>0, <1>3 DEF LoopStates, LoopSteps
<1>5. /\ space' \in [Host!Entries -> SpaceStates]
      /\ ~space'[e].admits /\ ~space'[e].background /\ space'[e].tasks = 0
      /\ p = "closed" => space'[e].closed
      /\ p = "database" => space'[e].closed = space[e].closed
      /\ \A d \in Host!Entries : d # e => space'[d] = space[d]
  BY ZenonT(40), <1>0, <1>1, <1>3 DEF SpaceStates
<1> HIDE DEF e
<1>6. Host!TypeOK' BY <1>2, <1>4, <1>5 DEF HostInv, Host!TypeOK, LoopStates, LoopSteps, SpaceStates
<1>7. LoadersAreMapped' BY <1>2 DEF HostInv, LoadersAreMapped
<1>8. OneOpens' BY <1>2 DEF HostInv, OneOpens
<1>9. EntriesAreNumbered' BY <1>1, <1>2, <1>5 DEF HostInv, EntriesAreNumbered, Host!TypeOK
<1>10. OwnerIsMapped' BY <1>1, <1>2, <1>5 DEF HostInv, OwnerIsMapped, Host!Owns
<1>11. LoopIsMapped' BY <1>1, <1>2, <1>4, <1>5 DEF HostInv, LoopIsMapped
<1>12. ClosedIsDone' BY <1>1, <1>2, <1>4, <1>5 DEF HostInv, ClosedIsDone, e
<1> QED BY <1>6, <1>7, <1>8, <1>9, <1>10, <1>11, <1>12 DEF HostInv

\* Every step of the cache preserves its invariant.
LEMMA HostStep ==
  ASSUME HostInv, Host!Next \/ UNCHANGED hostVars PROVE HostInv'
<1>1. CASE UNCHANGED hostVars
  BY <1>1 DEF hostVars, HostInv, Host!TypeOK, LoadersAreMapped, OneOpens, EntriesAreNumbered,
              OwnerIsMapped, Host!Owns, LoopIsMapped, ClosedIsDone
<1>2. CASE Host!Next
  BY <1>2, HostLookup, HostCheckClosing, HostOpen, HostOpened, HostServe, HostRelease, HostDrop,
     HostCreate, HostStartTask, HostTaskEnds, HostBackgroundEnds, HostTimePasses, HostSnapshot,
     HostTryEvict, HostFlush, HostStopAdmission, HostDrained, HostCloseFails, HostCloseStep,
     HostClosed, HostShutdown DEF Host!Next
<1> QED BY <1>1, <1>2


LEMMA GateNats == MaxTokens \in Nat /\ MaxTime \in Nat
BY GateAssumption

LEMMA GateCounts == \A S : Gate!Cardinality(S) = Cardinality(S)
BY DEF Gate!Cardinality, Cardinality

\* Removing rows never adds to what is counted.
LEMMA FewerTokens ==
  ASSUME NEW S \in SUBSET Tokens, NEW T \in SUBSET S
  PROVE  /\ Gate!Cardinality(S) \in Nat /\ Gate!Cardinality(T) \in Nat
         /\ Gate!Cardinality(T) <= Gate!Cardinality(S)
<1>1. IsFiniteSet(S) BY GateAssumption, FS_Subset
<1>2. IsFiniteSet(T) /\ Cardinality(T) <= Cardinality(S) BY <1>1, FS_Subset
<1>3. Cardinality(S) \in Nat /\ Cardinality(T) \in Nat BY <1>1, <1>2, FS_CardinalityType
<1> QED BY <1>2, <1>3, GateCounts

LEMMA OneMoreToken ==
  ASSUME NEW S \in SUBSET Tokens, NEW t \in Tokens, NEW T \in SUBSET (S \cup {t}),
         Gate!Cardinality(S) < MaxTokens
  PROVE  Gate!Cardinality(T) <= MaxTokens
<1>1. IsFiniteSet(S) BY GateAssumption, FS_Subset
<1>2. /\ IsFiniteSet(S \cup {t})
      /\ Cardinality(S \cup {t}) = IF t \in S THEN Cardinality(S) ELSE Cardinality(S) + 1
  BY <1>1, FS_AddElement
<1>3. Cardinality(S) \in Nat /\ Cardinality(S) < MaxTokens BY <1>1, FS_CardinalityType, GateCounts
<1>4. Cardinality(S \cup {t}) <= MaxTokens BY <1>2, <1>3, GateNats
<1>5. IsFiniteSet(T) /\ Cardinality(T) <= Cardinality(S \cup {t}) BY <1>2, FS_Subset
<1>6. Cardinality(T) \in Nat /\ Cardinality(S \cup {t}) \in Nat BY <1>2, <1>5, FS_CardinalityType
<1> QED BY <1>4, <1>5, <1>6, GateNats, GateCounts

LEMMA GateInit == Gate!Init => GateInv
<1> SUFFICES ASSUME Gate!Init PROVE GateInv OBVIOUS
<1> USE GateNats DEF Gate!Init
<1>1. Gate!TypeOK
  <2>1. Gate!NoRequest \in Calls
    BY DEF Calls, Gate!NoRequest, Gate!Modes, Gate!Scopes, Gate!Credentials
  <2>2. req \in [Requests -> Calls] BY <2>1
  <2> QED BY <2>2 DEF Gate!TypeOK, Calls
<1>2. Gate!Kept = {} BY DEF Gate!Kept
<1>3. Gate!NamesAreUnique BY <1>2, FS_EmptySet, GateCounts DEF Gate!NamesAreUnique
<1>4. DraftIsMintable /\ KeptAsMinted BY DEF DraftIsMintable, KeptAsMinted
<1>5. DeadStaysDead /\ AdmittedBy BY DEF DeadStaysDead, AdmittedBy, Gate!NoRequest
<1> QED BY <1>1, <1>3, <1>4, <1>5 DEF GateInv

\* A step that only takes rows away.
LEMMA GateRemoves ==
  ASSUME GateInv, NEW t \in Tokens, store' = [store EXCEPT ![t] = None],
         UNCHANGED <<minted, lock, draft, public, acNow, req>>, wanted' \in Tokens \cup {None}
  PROVE  GateInv'
<1>1. Gate!TypeOK' BY DEF GateInv, Gate!TypeOK
<1>2. Gate!Kept' \subseteq Gate!Kept /\ \A s \in Gate!Kept' : s \in Tokens /\ store'[s] = store[s]
  BY DEF GateInv, Gate!TypeOK, Gate!Kept
<1>3. Gate!Kept \in SUBSET Tokens BY DEF Gate!Kept
<1>4. PICK K, L : K = Gate!Kept /\ L = Gate!Kept' OBVIOUS
<1>5. /\ Gate!Cardinality(K) \in Nat /\ Gate!Cardinality(L) \in Nat
      /\ Gate!Cardinality(L) <= Gate!Cardinality(K)
  BY <1>2, <1>3, <1>4, FewerTokens
<1>6. Gate!NamesAreUnique'
  BY <1>2, <1>4, <1>5, GateNats DEF GateInv, Gate!NamesAreUnique
<1>7. DraftIsMintable'
  BY <1>2, <1>4, <1>5, GateNats DEF GateInv, DraftIsMintable, Gate!Mintable
<1>8. KeptAsMinted' BY DEF GateInv, KeptAsMinted, Gate!TypeOK
<1>9. DeadStaysDead' BY DEF GateInv, DeadStaysDead, Gate!TypeOK
<1>10. AdmittedBy' BY DEF GateInv, AdmittedBy
<1> QED BY <1>1, <1>6, <1>7, <1>8, <1>9, <1>10 DEF GateInv

LEMMA GateRevoke ==
  ASSUME GateInv, NEW t \in Tokens, Gate!Revoke(t) PROVE GateInv'
<1>1. wanted' \in Tokens \cup {None} BY DEF GateInv, Gate!TypeOK, Gate!Revoke
<1> QED BY <1>1, GateRemoves DEF Gate!Revoke

LEMMA GateRemoveNamed ==
  ASSUME GateInv, Gate!RemoveNamed PROVE GateInv'
<1>1. wanted \in Tokens BY DEF GateInv, Gate!TypeOK, Gate!RemoveNamed
<1> QED BY <1>1, GateRemoves DEF Gate!RemoveNamed

\* A step that touches neither rows nor requests.
LEMMA GateKeeps ==
  ASSUME GateInv, UNCHANGED <<store, minted, lock, draft, req>>,
         wanted' \in Tokens \cup {None}, public' \in BOOLEAN, acNow' \in 0..MaxTime
  PROVE  GateInv'
<1>1. Gate!TypeOK' BY DEF GateInv, Gate!TypeOK
<1>2. Gate!NamesAreUnique' BY DEF GateInv, Gate!NamesAreUnique, Gate!Kept
<1>3. DraftIsMintable' BY DEF GateInv, DraftIsMintable, Gate!Mintable, Gate!Kept
<1>4. KeptAsMinted' BY DEF GateInv, KeptAsMinted
<1>5. DeadStaysDead' BY DEF GateInv, DeadStaysDead
<1>6. AdmittedBy' BY DEF GateInv, AdmittedBy
<1> QED BY <1>1, <1>2, <1>3, <1>4, <1>5, <1>6 DEF GateInv

LEMMA GateOther ==
  ASSUME GateInv, (\E t \in Tokens : Gate!RevokeByName(t)) \/ Gate!SetPublic \/ Gate!Tick
                  \/ UNCHANGED gateVars
  PROVE  GateInv'
<1>1. wanted \in Tokens \cup {None} /\ public \in BOOLEAN /\ acNow \in 0..MaxTime
  BY DEF GateInv, Gate!TypeOK
<1>2. CASE \E t \in Tokens : Gate!RevokeByName(t)
  <2>1. PICK t \in Tokens : Gate!RevokeByName(t) BY <1>2
  <2>2. UNCHANGED <<store, minted, lock, draft, public, acNow, req>> /\ wanted' = t
    BY <2>1, Zenon DEF Gate!RevokeByName
  <2> QED BY <1>1, <2>2, GateKeeps
<1>3. CASE Gate!SetPublic
  <2>1. UNCHANGED <<store, minted, lock, draft, wanted, acNow, req>> /\ public' = ~public
    BY <1>3, Zenon DEF Gate!SetPublic
  <2>2. public' \in BOOLEAN BY <1>1, <2>1, Zenon
  <2> QED BY <1>1, <2>1, <2>2, GateKeeps
<1>4. CASE Gate!Tick
  <2>1. /\ UNCHANGED <<store, minted, lock, draft, wanted, public, req>>
        /\ acNow < MaxTime /\ acNow' = acNow + 1
    BY <1>4, Zenon DEF Gate!Tick
  <2>2. acNow' \in 0..MaxTime BY <1>1, <2>1, GateNats
  <2> QED BY <1>1, <2>1, <2>2, GateKeeps
<1>5. CASE UNCHANGED gateVars
  <2>1. UNCHANGED <<store, minted, lock, draft, wanted, public, acNow, req>>
    BY <1>5 DEF gateVars
  <2> QED BY <1>1, <2>1, GateKeeps
<1> QED BY <1>2, <1>3, <1>4, <1>5

LEMMA GateMint ==
  ASSUME GateInv, NEW t \in Tokens, NEW row0 \in Gate!Rows, Gate!Mint(t, row0) PROVE GateInv'
<1>1. UNCHANGED <<store, minted, wanted, public, acNow, req>> BY DEF Gate!Mint
<1>2. /\ lock' = t /\ draft' = [token |-> t, row |-> row0] /\ minted[t] = None
      /\ Gate!Mintable(row0)
  BY DEF Gate!Mint
<1>3. draft' \in [token : Tokens, row : Gate!Rows] /\ draft'.token = t /\ draft'.row = row0
  BY <1>2
<1>4. Gate!TypeOK' BY <1>1, <1>2, <1>3 DEF GateInv, Gate!TypeOK
<1>5. Gate!NamesAreUnique' BY <1>1 DEF GateInv, Gate!NamesAreUnique, Gate!Kept
<1>6. DraftIsMintable'
  <2>1. t # None BY GateAssumption
  <2>2. Gate!Mintable(row0)' BY <1>1, <1>2 DEF Gate!Mintable, Gate!Kept
  <2> QED BY <1>1, <1>2, <1>3, <2>1, <2>2 DEF DraftIsMintable, Gate!Mintable
<1>7. KeptAsMinted' BY <1>1 DEF GateInv, KeptAsMinted
<1>8. DeadStaysDead' BY <1>1 DEF GateInv, DeadStaysDead
<1>9. AdmittedBy' BY <1>1 DEF GateInv, AdmittedBy
<1> QED BY <1>4, <1>5, <1>6, <1>7, <1>8, <1>9 DEF GateInv

LEMMA GateSaved ==
  ASSUME GateInv, Gate!Saved PROVE GateInv'
<1>1. /\ lock \in Tokens /\ draft \in [token : Tokens, row : Gate!Rows]
      /\ draft.token = lock /\ minted[lock] = None /\ Gate!Mintable(draft.row)
  BY DEF GateInv, DraftIsMintable, Gate!TypeOK, Gate!Saved
<1>2. PICK d \in Gate!Rows : d = draft.row BY <1>1
<1>3. /\ store' = [store EXCEPT ![lock] = d] /\ minted' = [minted EXCEPT ![lock] = d]
      /\ lock' = None /\ draft' = None /\ UNCHANGED <<wanted, public, acNow, req>>
  BY <1>1, <1>2 DEF Gate!Saved
<1>4. store[lock] = None BY <1>1 DEF GateInv, KeptAsMinted
<1>5. /\ store \in [Tokens -> Gate!Rows \cup {None}] /\ minted \in [Tokens -> Gate!Rows \cup {None}]
      /\ store'[lock] = d /\ minted'[lock] = d
      /\ \A t \in Tokens : t # lock => store'[t] = store[t] /\ minted'[t] = minted[t]
  BY <1>1, <1>3 DEF GateInv, Gate!TypeOK
<1>6. Gate!TypeOK' BY <1>1, <1>3, <1>5 DEF GateInv, Gate!TypeOK
<1>7. PICK K, L : K = Gate!Kept /\ L = Gate!Kept' OBVIOUS
<1>8. K \in SUBSET Tokens /\ L \in SUBSET (K \cup {lock}) /\ lock \notin K
  BY <1>1, <1>4, <1>5, <1>7 DEF Gate!Kept
<1>9. Gate!Cardinality(L) <= MaxTokens
  BY <1>1, <1>7, <1>8, OneMoreToken DEF Gate!Mintable
<1>10. Gate!NamesAreUnique'
  <2>1. \A s, t \in L : store'[s].name = store'[t].name => s = t
    BY <1>1, <1>2, <1>5, <1>7, <1>8 DEF GateInv, Gate!NamesAreUnique, Gate!Mintable
  <2> QED BY <1>7, <1>9, <2>1 DEF Gate!NamesAreUnique
<1>11. DraftIsMintable' BY <1>3 DEF DraftIsMintable
<1>12. KeptAsMinted' BY <1>1, <1>5 DEF GateInv, KeptAsMinted
<1>13. DeadStaysDead' BY <1>1, <1>3, <1>5 DEF GateInv, DeadStaysDead
<1>14. AdmittedBy' BY <1>1, <1>3, <1>5 DEF GateInv, AdmittedBy
<1> QED BY <1>6, <1>10, <1>11, <1>12, <1>13, <1>14 DEF GateInv

\* A step of one request, to a state that the invariant allows it.
LEMMA GateRequest ==
  ASSUME GateInv, NEW r \in Requests, NEW q \in Calls, req' = [req EXCEPT ![r] = q],
         UNCHANGED <<store, minted, lock, draft, wanted, public, acNow>>,
         q.dead => /\ q.cred \in Tokens /\ minted[q.cred] # None
                   /\ store[q.cred] = None \/ minted[q.cred].until <= q.now,
         q.by = "signed" => q.cred = "signed",
         q.by = "anonymous" => q.mode \in {"public", "lenient"},
         q.by = "token" => /\ q.cred \in Tokens /\ ~q.dead /\ minted[q.cred] # None
                           /\ q.scope = "write" => minted[q.cred].scope = "write",
         q.at \in {"signed", "load"} => q.by \in {"nobody", "signed"}
  PROVE  GateInv'
<1>1. req \in [Requests -> Calls] BY DEF GateInv, Gate!TypeOK, Calls
<1>2. req' \in [Requests -> Calls] /\ req'[r] = q /\ \A s \in Requests : s # r => req'[s] = req[s]
  BY <1>1
<1>3. Gate!TypeOK' BY <1>2 DEF GateInv, Gate!TypeOK, Calls
<1>4. Gate!NamesAreUnique' BY DEF GateInv, Gate!NamesAreUnique, Gate!Kept
<1>5. DraftIsMintable' BY DEF GateInv, DraftIsMintable, Gate!Mintable, Gate!Kept
<1>6. KeptAsMinted' BY DEF GateInv, KeptAsMinted
<1>7. DeadStaysDead' BY <1>2 DEF GateInv, DeadStaysDead
<1>8. AdmittedBy' BY <1>2 DEF GateInv, AdmittedBy
<1> QED BY <1>3, <1>4, <1>5, <1>6, <1>7, <1>8 DEF GateInv

LEMMA GateNoRequest ==
  /\ Gate!NoRequest \in Calls /\ ~Gate!NoRequest.dead /\ Gate!NoRequest.by = "nobody"
  /\ Gate!NoRequest.at = "idle"
BY GateNats DEF Calls, Gate!NoRequest, Gate!Modes, Gate!Scopes, Gate!Credentials

LEMMA GateBegin ==
  ASSUME GateInv, NEW r \in Requests, NEW m \in Gate!Modes, NEW s \in Gate!Scopes,
         NEW c \in Gate!Credentials, Gate!Begin(r, m, s, c)
  PROVE  GateInv'
<1>1. PICK d \in BOOLEAN : d = (c \in Tokens /\ minted[c] # None
                                /\ ~(c \in Gate!Kept /\ store[c].until > acNow))
  OBVIOUS
<1>2. PICK q : q = [at |-> "signed", mode |-> m, scope |-> s, cred |-> c, now |-> acNow,
                    dead |-> d, by |-> "nobody"]
  OBVIOUS
<1>3. req' = [req EXCEPT ![r] = q] /\ UNCHANGED <<store, minted, lock, draft, wanted, public, acNow>>
  BY <1>1, <1>2, Zenon DEF Gate!Begin
<1>4. acNow \in 0..MaxTime BY DEF GateInv, Gate!TypeOK
<1>5. q \in Calls /\ q.dead = d /\ q.cred = c /\ q.now = acNow /\ q.by = "nobody"
  BY <1>2, <1>4 DEF Calls
<1>6. q.dead => /\ q.cred \in Tokens /\ minted[q.cred] # None
                /\ store[q.cred] = None \/ minted[q.cred].until <= q.now
  <2> SUFFICES ASSUME d PROVE /\ c \in Tokens /\ minted[c] # None
                              /\ store[c] = None \/ minted[c].until <= acNow
    BY <1>5
  <2>1. c \in Tokens /\ minted[c] # None /\ ~(c \in Gate!Kept /\ store[c].until > acNow) BY <1>1
  <2>2. minted[c] \in Gate!Rows /\ store[c] \in {None, minted[c]}
    BY <2>1 DEF GateInv, Gate!TypeOK, KeptAsMinted
  <2>3. minted[c].until \in Nat BY <2>2, GateNats DEF Gate!Rows
  <2> QED BY <1>4, <2>1, <2>2, <2>3, GateNats DEF Gate!Kept
<1> QED BY <1>3, <1>5, <1>6, GateRequest

LEMMA GateCheckSigned ==
  ASSUME GateInv, NEW r \in Requests, Gate!CheckSigned(r) PROVE GateInv'
<1>1. PICK q : q = req[r] OBVIOUS
<1>2. q \in Calls /\ q.at = "signed" /\ q.by \in {"nobody", "signed"}
  BY <1>1 DEF GateInv, Gate!TypeOK, Calls, AdmittedBy, Gate!CheckSigned
<1>3. UNCHANGED <<store, minted, lock, draft, wanted, public, acNow>> BY DEF Gate!CheckSigned
<1>4. q.dead => /\ q.cred \in Tokens /\ minted[q.cred] # None
                /\ store[q.cred] = None \/ minted[q.cred].until <= q.now
  BY <1>1 DEF GateInv, DeadStaysDead
<1>5. \/ req' = [req EXCEPT ![r] = Gate!NoRequest]
      \/ q.cred = "signed" /\ req' = [req EXCEPT ![r] = [q EXCEPT !.at = "load", !.by = "signed"]]
      \/ req' = [req EXCEPT ![r] = [q EXCEPT !.at = "load"]]
  BY <1>1 DEF Gate!CheckSigned
<1>6. CASE req' = [req EXCEPT ![r] = Gate!NoRequest]
  BY <1>3, <1>6, GateNoRequest, GateRequest
<1>7. CASE q.cred = "signed" /\ req' = [req EXCEPT ![r] = [q EXCEPT !.at = "load", !.by = "signed"]]
  <2>1. PICK p : p = [q EXCEPT !.at = "load", !.by = "signed"] OBVIOUS
  <2>2. /\ p \in Calls /\ p.at = "load" /\ p.by = "signed" /\ p.dead = q.dead /\ p.cred = q.cred
        /\ p.now = q.now
    BY <1>2, <2>1 DEF Calls
  <2> QED BY <1>3, <1>4, <1>7, <2>1, <2>2, GateRequest
<1>8. CASE req' = [req EXCEPT ![r] = [q EXCEPT !.at = "load"]]
  <2>1. PICK p : p = [q EXCEPT !.at = "load"] OBVIOUS
  <2>2. /\ p \in Calls /\ p.at = "load" /\ p.by = q.by /\ p.dead = q.dead /\ p.cred = q.cred
        /\ p.now = q.now
    BY <1>2, <2>1 DEF Calls
  <2>3. q.by = "signed" => q.cred = "signed" BY <1>1 DEF GateInv, AdmittedBy
  <2> QED BY <1>2, <1>3, <1>4, <1>8, <2>1, <2>2, <2>3, GateRequest
<1> QED BY <1>5, <1>6, <1>7, <1>8

LEMMA GateAuthorize ==
  ASSUME GateInv, NEW r \in Requests, Gate!Authorize(r) PROVE GateInv'
<1>1. PICK q : q = req[r] OBVIOUS
<1>2. q \in Calls /\ q.at = "load" /\ q.by \in {"nobody", "signed"}
  BY <1>1 DEF GateInv, Gate!TypeOK, Calls, AdmittedBy, Gate!Authorize
<1>3. UNCHANGED <<store, minted, lock, draft, wanted, public, acNow>> BY DEF Gate!Authorize
<1>4. q.dead => /\ q.cred \in Tokens /\ minted[q.cred] # None
                /\ store[q.cred] = None \/ minted[q.cred].until <= q.now
  BY <1>1 DEF GateInv, DeadStaysDead
<1>5. \/ req' = [req EXCEPT ![r] = Gate!NoRequest]
      \/ q.by = "signed" /\ req' = [req EXCEPT ![r] = [q EXCEPT !.at = "in"]]
      \/ q.mode \in {"public", "lenient"} /\ req' = [req EXCEPT ![r] = [q EXCEPT !.at = "in", !.by = "anonymous"]]
      \/ Gate!Usable(q) /\ req' = [req EXCEPT ![r] = [q EXCEPT !.at = "in", !.by = "token"]]
  BY <1>1 DEF Gate!Authorize, Gate!Fallback
<1>6. CASE req' = [req EXCEPT ![r] = Gate!NoRequest]
  BY <1>3, <1>6, GateNoRequest, GateRequest
<1>7. CASE q.by = "signed" /\ req' = [req EXCEPT ![r] = [q EXCEPT !.at = "in"]]
  <2>1. PICK p : p = [q EXCEPT !.at = "in"] OBVIOUS
  <2>2. /\ p \in Calls /\ p.at = "in" /\ p.by = "signed" /\ p.dead = q.dead /\ p.cred = q.cred
        /\ p.now = q.now
    BY <1>2, <1>7, <2>1 DEF Calls
  <2>3. q.cred = "signed" BY <1>1, <1>7 DEF GateInv, AdmittedBy
  <2> QED BY <1>3, <1>4, <1>7, <2>1, <2>2, <2>3, GateRequest
<1>8. CASE /\ q.mode \in {"public", "lenient"}
           /\ req' = [req EXCEPT ![r] = [q EXCEPT !.at = "in", !.by = "anonymous"]]
  <2>1. PICK p : p = [q EXCEPT !.at = "in", !.by = "anonymous"] OBVIOUS
  <2>2. /\ p \in Calls /\ p.at = "in" /\ p.by = "anonymous" /\ p.dead = q.dead /\ p.cred = q.cred
        /\ p.now = q.now /\ p.mode = q.mode
    BY <1>2, <2>1 DEF Calls
  <2> QED BY <1>3, <1>4, <1>8, <2>1, <2>2, GateRequest
<1>9. CASE Gate!Usable(q) /\ req' = [req EXCEPT ![r] = [q EXCEPT !.at = "in", !.by = "token"]]
  <2>1. PICK p : p = [q EXCEPT !.at = "in", !.by = "token"] OBVIOUS
  <2>2. /\ p \in Calls /\ p.at = "in" /\ p.by = "token" /\ p.dead = q.dead /\ p.cred = q.cred
        /\ p.now = q.now /\ p.scope = q.scope
    BY <1>2, <2>1 DEF Calls
  <2>3. PICK c \in Tokens : c = q.cred BY <1>9 DEF Gate!Usable
  <2>4. /\ store[c] # None /\ store[c].until > q.now
        /\ store[c].scope = "write" \/ q.scope = "read"
    BY <1>9, <2>3 DEF Gate!Usable, Gate!Verified, Gate!Row
  <2>5. store[c] = minted[c] /\ minted[c] \in Gate!Rows
    BY <2>4 DEF GateInv, KeptAsMinted, Gate!TypeOK
  <2>6. minted[c].until \in Nat /\ q.now \in Nat BY <1>2, <2>5, GateNats DEF Gate!Rows, Calls
  <2>7. ~q.dead BY <1>4, <2>3, <2>4, <2>5, <2>6
  <2> QED BY <1>3, <1>4, <1>9, <2>1, <2>2, <2>3, <2>4, <2>5, <2>7, GateRequest
<1> QED BY <1>5, <1>6, <1>7, <1>8, <1>9

LEMMA GateFinish ==
  ASSUME GateInv, NEW r \in Requests, Gate!Finish(r) PROVE GateInv'
BY GateNoRequest, GateRequest DEF Gate!Finish

\* Every step of the authorization preserves its invariant.
LEMMA GateStep ==
  ASSUME GateInv, Gate!Next \/ UNCHANGED gateVars PROVE GateInv'
<1>1. CASE UNCHANGED gateVars BY <1>1, GateOther
<1>2. CASE Gate!Next
  BY <1>2, GateRevoke, GateMint, GateSaved, GateRemoveNamed, GateOther, GateBegin,
     GateCheckSigned, GateAuthorize, GateFinish DEF Gate!Next
<1> QED BY <1>1, <1>2

\* What a request was admitted by bounds what it is shown.
LEMMA GateInvImplies ==
  ASSUME GateInv PROVE Gate!TypeOK /\ Gate!NamesAreUnique /\ Gate!AdmittedByLiveCredential
<1>1. Gate!AdmittedByLiveCredential
  <2> SUFFICES ASSUME NEW r \in Requests, req[r].at = "in"
      PROVE /\ req[r].by = "token" => ~req[r].dead /\ (req[r].scope = "write" => minted[req[r].cred].scope = "write")
            /\ req[r].mode \in {"cwt", "credentialed", "runtime"} => req[r].by # "anonymous"
            /\ req[r].cred \in Tokens /\ (req[r].dead \/ (minted[req[r].cred] # None /\ minted[req[r].cred].labelled))
                 => "other" \notin Gate!WikiAccess(req[r])
    BY DEF Gate!AdmittedByLiveCredential
  <2>1. "signed" \notin Tokens BY GateAssumption
  <2>2. CASE req[r].by = "signed" BY <2>1, <2>2 DEF GateInv, AdmittedBy
  <2>3. CASE req[r].by = "token" BY <2>3 DEF GateInv, AdmittedBy, Gate!WikiAccess
  <2>4. CASE req[r].by \notin {"signed", "token"} BY <2>4 DEF GateInv, AdmittedBy, Gate!WikiAccess
  <2> QED BY <2>2, <2>3, <2>4
<1> QED BY <1>1 DEF GateInv


\* What the invariant of the cache is for.
LEMMA HostInvImplies ==
  ASSUME HostInv PROVE Host!TypeOK /\ Host!OneOwner /\ Host!ServedIsOpen
<1>1. Host!OneOwner BY DEF HostInv, OwnerIsMapped, Host!OneOwner
<1>2. Host!ServedIsOpen
  BY DEF HostInv, LoadersAreMapped, ClosedIsDone, Host!ServedIsOpen, Host!At
<1> QED BY <1>1, <1>2 DEF HostInv

(***************************************************************************)
(* Recorded watches.                                                       *)
(***************************************************************************)

LEMMA RecordNats == MaxRecordVersion \in Nat /\ MaxRecordVersion >= 3
BY WatchAssumption

\* The shapes of a job are told apart by where it is.
LEMMA RecordShapes ==
  ASSUME RecordTypes
  PROVE  /\ recJob = Record!NoJob <=> recJob.at = "idle"
         /\ recJob.at \in {"create", "marker", "grant", "granted", "arm", "row"} => recJob \in Creations
         /\ recJob.at \in {"archive", "cancelled"} => recJob \in Cancellations
BY DEF RecordTypes, Record!NoJob, Creations, Cancellations

LEMMA RecordInit == Record!Init => RecordInv
<1> SUFFICES ASSUME Record!Init PROVE RecordInv OBVIOUS
<1> USE RecordNats DEF Record!Init
<1>1. RecordTypes BY DEF RecordTypes
<1>2. RowsHaveWatches BY DEF RowsHaveWatches, Record!NoWatch, Record!NoJob
<1>3. MarkedBeforeGranted BY DEF MarkedBeforeGranted, Record!NoJob
<1>4. ArmedFromVersionOne BY DEF ArmedFromVersionOne, Record!NoWatch
<1> QED BY <1>1, <1>2, <1>3, <1>4 DEF RecordInv

\* A step that moves the job only, to a place where nothing is owed.
LEMMA RecordJobMoves ==
  ASSUME RecordInv, UNCHANGED <<row, recWatch, marker, grant, granted, armings>>,
         recJob' \in {Record!NoJob} \cup Creations \cup Cancellations,
         recJob'.at # "grant",
         recJob'.at \in {"row", "archive", "cancelled"} => recWatch[recJob'.o] # Record!NoWatch,
         recJob'.at \in {"archive", "cancelled"} => row[recJob'.o] # Record!NoRow,
         recJob'.at = "archive" => recWatch[recJob'.o].status # "archived"
  PROVE  RecordInv'
<1>1. RecordTypes' BY DEF RecordInv, RecordTypes
<1>2. RowsHaveWatches' BY DEF RecordInv, RowsHaveWatches
<1>3. MarkedBeforeGranted' BY DEF RecordInv, MarkedBeforeGranted
<1>4. ArmedFromVersionOne' BY DEF RecordInv, ArmedFromVersionOne
<1> QED BY <1>1, <1>2, <1>3, <1>4 DEF RecordInv

LEMMA RecordCrash ==
  ASSUME RecordInv, recJob' = Record!NoJob, UNCHANGED <<row, recWatch, marker, grant, granted, armings>>
  PROVE  RecordInv'
BY RecordJobMoves DEF Record!NoJob

LEMMA RecordCreateBegin ==
  ASSUME RecordInv, NEW o \in Operations, NEW d \in Digests, Record!CreateBegin(o, d)
  PROVE  RecordInv'
<1>1. /\ recJob' = [at |-> "create", o |-> o, d |-> d]
      /\ UNCHANGED <<row, recWatch, marker, grant, granted, armings>>
  BY DEF Record!CreateBegin, Record!native
<1>2. recJob' \in Creations /\ recJob'.at = "create" BY <1>1 DEF Creations
<1> QED BY <1>1, <1>2, RecordJobMoves

LEMMA RecordCancelBegin ==
  ASSUME RecordInv, NEW o \in Operations, Record!CancelBegin(o)
  PROVE  RecordInv'
<1>1. UNCHANGED <<row, recWatch, marker, grant, granted, armings>> /\ row[o] # Record!NoRow
  BY DEF Record!CancelBegin, Record!native
<1>2. recWatch[o] \in RecordWatches
  BY <1>1 DEF RecordInv, RecordTypes, RowsHaveWatches
<1>3. recWatch[o].version \in 1..MaxRecordVersion /\ recWatch[o] # Record!NoWatch
  BY <1>2, RecordNats DEF RecordWatches, Record!NoWatch
<1>4. PICK p \in {"archive", "cancelled"} :
        /\ recJob' = [at |-> p, o |-> o, version |-> recWatch[o].version]
        /\ p = "archive" => recWatch[o].status # "archived"
  BY DEF Record!CancelBegin, Record!WatchState
<1>5. recJob' \in Cancellations /\ recJob'.at = p /\ recJob'.o = o
  BY <1>3, <1>4 DEF Cancellations
<1> QED BY <1>1, <1>3, <1>4, <1>5, RecordJobMoves

\* A step on one watch that keeps or raises its version from 1 on.
LEMMA RecordWatchMoves ==
  ASSUME RecordInv, NEW o \in Operations, NEW w \in RecordWatches,
         recWatch' = [recWatch EXCEPT ![o] = w], UNCHANGED <<row, marker, grant, granted>>,
         w.status # "archived" => w.version < MaxRecordVersion,
         armings' \in [Operations -> Nat], \A p \in Operations : p # o => armings'[p] = armings[p],
         armings'[o] <= 1 /\ (w.version <= 1 => armings'[o] = 0),
         recJob' \in {Record!NoJob} \cup Creations \cup Cancellations,
         recJob'.at = "grant" => recJob' = recJob,
         recJob'.at \in {"row", "archive", "cancelled"} => recJob'.o = o \/ recJob' = recJob,
         recJob'.at \in {"archive", "cancelled"} => row[recJob'.o] # Record!NoRow,
         recJob'.at = "archive" => (recJob'.o = o => w.status # "archived") /\ recJob' = recJob
  PROVE  RecordInv'
<1>1. /\ recWatch' \in [Operations -> {Record!NoWatch} \cup RecordWatches] /\ recWatch'[o] = w
      /\ \A p \in Operations : p # o => recWatch'[p] = recWatch[p]
  BY DEF RecordInv, RecordTypes
<1>2. w # Record!NoWatch BY RecordNats DEF RecordWatches, Record!NoWatch
<1>3. RecordTypes' BY <1>1 DEF RecordInv, RecordTypes
<1>4. \A p \in Operations : /\ recWatch'[p] = Record!NoWatch => row'[p] = Record!NoRow
                            /\ recWatch'[p].status # "archived" => recWatch'[p].version < MaxRecordVersion
  BY <1>1, <1>2 DEF RecordInv, RowsHaveWatches
<1>5. recJob'.at # "idle" => recJob'.o \in Operations
  BY DEF Record!NoJob, Creations, Cancellations
<1>6. RowsHaveWatches'
  BY <1>1, <1>2, <1>4, <1>5 DEF RecordInv, RowsHaveWatches
<1>7. MarkedBeforeGranted' BY DEF RecordInv, MarkedBeforeGranted
<1>8. ArmedFromVersionOne' BY <1>1 DEF RecordInv, ArmedFromVersionOne
<1> QED BY <1>3, <1>6, <1>7, <1>8 DEF RecordInv

LEMMA RecordWatchIs ==
  ASSUME NEW x \in RecordWatches, NEW v, NEW s
  PROVE  [x EXCEPT !.version = v, !.status = s] = [version |-> v, status |-> s, digest |-> x.digest]
<1>1. PICK y : y = [x EXCEPT !.version = v] OBVIOUS
<1>2. y = [version |-> v, status |-> x.status, digest |-> x.digest] BY <1>1 DEF RecordWatches
<1>3. [x EXCEPT !.version = v, !.status = s] = [y EXCEPT !.status = s] BY <1>1
<1> QED BY <1>2, <1>3

LEMMA RecordCreateConcept ==
  ASSUME RecordInv, Record!CreateConcept PROVE RecordInv'
<1>0. recJob \in Creations /\ recJob.at = "create"
  BY RecordShapes DEF RecordInv, Record!CreateConcept
<1>1. PICK o \in Operations, d \in Digests : recJob.o = o /\ recJob.d = d BY <1>0 DEF Creations
<1>2. UNCHANGED <<row, marker, grant, granted, armings>> BY DEF Record!CreateConcept
<1>3. \/ recJob' = Record!NoJob
      \/ \E p \in {"marker", "row"} : recJob' = [recJob EXCEPT !.at = p]
  BY DEF Record!CreateConcept
<1>4. /\ recJob' \in {Record!NoJob} \cup Creations
      /\ recJob' = Record!NoJob \/ (recJob'.o = o /\ recJob'.at \in {"marker", "row"})
  BY <1>0, <1>1, <1>3 DEF Creations
<1>5. recJob'.at \in {"idle", "marker", "row"} BY <1>4 DEF Record!NoJob
<1>6. CASE recWatch[o] = Record!NoWatch
  <2>1. PICK w : w = [version |-> 1, status |-> "disarmed", digest |-> d] OBVIOUS
  <2>2. recWatch' = [recWatch EXCEPT ![o] = w] BY <1>1, <1>6, <2>1 DEF Record!CreateConcept
  <2>3. w \in RecordWatches /\ w.version = 1 /\ w.status = "disarmed"
    BY <2>1, RecordNats DEF RecordWatches, WatchStatuses
  <2>4. armings[o] = 0 /\ armings \in [Operations -> Nat]
    BY <1>6 DEF RecordInv, ArmedFromVersionOne, Record!NoWatch, RecordTypes
  <2>5. /\ recJob'.at # "grant" /\ recJob'.at # "archive" /\ recJob'.at # "cancelled"
        /\ recJob'.at = "row" => recJob'.o = o
    BY <1>4, <1>5 DEF Record!NoJob
  <2>6. w.version < MaxRecordVersion BY <2>3, RecordNats
  <2>7. /\ armings' \in [Operations -> Nat] /\ \A p \in Operations : p # o => armings'[p] = armings[p]
        /\ armings'[o] <= 1 /\ armings'[o] = 0
    BY <1>2, <2>4
  <2> QED BY <1>2, <1>4, <2>2, <2>3, <2>5, <2>6, <2>7, RecordWatchMoves
<1>7. CASE recWatch[o] # Record!NoWatch
  <2>1. UNCHANGED recWatch BY <1>1, <1>7 DEF Record!CreateConcept
  <2> QED BY <1>2, <1>4, <1>5, <1>7, <2>1, RecordJobMoves DEF Record!NoJob
<1> QED BY <1>6, <1>7

LEMMA RecordEditWatch ==
  ASSUME RecordInv, NEW o \in Operations, Record!EditWatch(o) PROVE RecordInv'
<1>1. UNCHANGED <<row, marker, grant, granted, armings, recJob>> BY DEF Record!EditWatch
<1>2. /\ recWatch[o].version \in 1..(MaxRecordVersion - 2) /\ recWatch[o] \in RecordWatches
      /\ armings[o] <= 1 /\ armings \in [Operations -> Nat]
  BY RecordNats DEF Record!EditWatch, Record!NoWatch, RecordInv, RecordTypes, ArmedFromVersionOne
<1>3. PICK s \in WatchStatuses :
        /\ recWatch' = [recWatch EXCEPT ![o].version = @ + 1, ![o].status = s]
        /\ s = "archived" => recWatch[o].status = "archived"
  <2>1. recWatch[o].status \in WatchStatuses BY <1>2 DEF RecordWatches
  <2> QED BY <2>1 DEF Record!EditWatch, WatchStatuses
<1>4. PICK w : w = [version |-> recWatch[o].version + 1, status |-> s, digest |-> recWatch[o].digest]
  OBVIOUS
<1>5. recWatch' = [recWatch EXCEPT ![o] = w]
  <2>1. PICK x \in RecordWatches : x = recWatch[o] BY <1>2
  <2>2. PICK v : v = x.version + 1 OBVIOUS
  <2>3. recWatch' = [recWatch EXCEPT ![o] = [x EXCEPT !.version = v, !.status = s]]
    BY <1>3, <2>1, <2>2 DEF RecordInv, RecordTypes
  <2>4. [x EXCEPT !.version = v, !.status = s] = w BY <1>4, <2>1, <2>2, RecordWatchIs
  <2> QED BY <2>3, <2>4
<1>6. w \in RecordWatches /\ w.version = recWatch[o].version + 1 /\ w.status = s
  BY <1>2, <1>4, RecordNats DEF RecordWatches
<1>7. /\ recJob \in {Record!NoJob} \cup Creations \cup Cancellations
      /\ recJob.at \in {"archive", "cancelled"} => row[recJob.o] # Record!NoRow
      /\ recJob.at = "archive" => recWatch[recJob.o].status # "archived"
  BY DEF RecordInv, RecordTypes, RowsHaveWatches
<1>8. w.version > 1 /\ w.version < MaxRecordVersion BY <1>2, <1>6, RecordNats
<1>9. /\ armings' \in [Operations -> Nat] /\ \A p \in Operations : p # o => armings'[p] = armings[p]
      /\ armings'[o] <= 1 /\ (w.version <= 1 => armings'[o] = 0)
  <2>1. w.version \in Nat BY <1>6 DEF RecordWatches
  <2> QED BY <1>1, <1>2, <1>8, <2>1
<1>10. recJob'.at = "archive" => (recJob'.o = o => w.status # "archived") /\ recJob' = recJob
  BY <1>1, <1>3, <1>6, <1>7
<1> QED BY <1>1, <1>5, <1>6, <1>7, <1>8, <1>9, <1>10, RecordWatchMoves

LEMMA RecordArm ==
  ASSUME RecordInv, Record!Arm PROVE RecordInv'
<1>0. recJob \in Creations /\ recJob.at = "arm"
  BY RecordShapes DEF RecordInv, Record!Arm
<1>1. PICK o \in Operations : recJob.o = o BY <1>0 DEF Creations
<1>2. UNCHANGED <<row, marker, grant, granted>> BY DEF Record!Arm
<1>3. CASE recWatch[o].version = 1
  <2>1. /\ recWatch' = [recWatch EXCEPT ![o].version = 2, ![o].status = "armed"]
        /\ armings' = [armings EXCEPT ![o] = @ + 1]
        /\ recJob' = [recJob EXCEPT !.at = "row"]
    BY <1>1, <1>3 DEF Record!Arm
  <2>2. recWatch[o] \in RecordWatches BY <1>3 DEF RecordInv, RecordTypes, Record!NoWatch
  <2>3. PICK w : w = [version |-> 2, status |-> "armed", digest |-> recWatch[o].digest] OBVIOUS
  <2>4. recWatch' = [recWatch EXCEPT ![o] = w]
    <3>1. PICK x \in RecordWatches : x = recWatch[o] BY <2>2
    <3>2. PICK v, s : v = 2 /\ s = "armed" OBVIOUS
    <3>3. recWatch' = [recWatch EXCEPT ![o] = [x EXCEPT !.version = v, !.status = s]]
      BY <2>1, <3>1, <3>2 DEF RecordInv, RecordTypes
    <3>4. [x EXCEPT !.version = v, !.status = s] = w BY <2>3, <3>1, <3>2, RecordWatchIs
    <3> QED BY <3>3, <3>4
  <2>5. w \in RecordWatches /\ w.version = 2 /\ w.status = "armed"
    BY <2>2, <2>3, RecordNats DEF RecordWatches, WatchStatuses
  <2>6. /\ armings' \in [Operations -> Nat] /\ armings'[o] = 1
        /\ \A p \in Operations : p # o => armings'[p] = armings[p]
    BY <1>3, <2>1 DEF RecordInv, RecordTypes, ArmedFromVersionOne
  <2>7. recJob' \in Creations /\ recJob'.o = o /\ recJob'.at = "row"
    BY <1>0, <1>1, <2>1 DEF Creations
  <2>8. w.version < MaxRecordVersion /\ armings'[o] <= 1 /\ ~(w.version <= 1)
    BY <2>5, <2>6, RecordNats
  <2> QED BY <1>2, <2>4, <2>5, <2>6, <2>7, <2>8, RecordWatchMoves
<1>4. CASE recWatch[o].version # 1
  <2>1. recJob' = Record!NoJob /\ UNCHANGED <<recWatch, armings>> BY <1>1, <1>4 DEF Record!Arm
  <2> QED BY <1>2, <2>1, RecordCrash
<1> QED BY <1>3, <1>4

LEMMA RecordArchive ==
  ASSUME RecordInv, Record!Archive PROVE RecordInv'
<1>0. recJob \in Cancellations /\ recJob.at = "archive"
  BY RecordShapes DEF RecordInv, Record!Archive
<1>1. PICK o \in Operations : recJob.o = o BY <1>0 DEF Cancellations
<1>2. UNCHANGED <<row, marker, grant, granted, armings>> BY DEF Record!Archive
<1>3. CASE recWatch[o].version = recJob.version /\ grant[o]
  <2>1. /\ recWatch' = [recWatch EXCEPT ![o].version = @ + 1, ![o].status = "archived"]
        /\ recJob' = [recJob EXCEPT !.at = "cancelled"]
    BY <1>1, <1>3 DEF Record!Archive
  <2>2. /\ recWatch[o] \in RecordWatches /\ row[o] # Record!NoRow
        /\ recWatch[o].version < MaxRecordVersion
        /\ armings[o] <= 1 /\ armings \in [Operations -> Nat]
    BY <1>0, <1>1 DEF RecordInv, RecordTypes, RowsHaveWatches, ArmedFromVersionOne
  <2>3. PICK w : w = [version |-> recWatch[o].version + 1, status |-> "archived",
                      digest |-> recWatch[o].digest]
    OBVIOUS
  <2>4. recWatch' = [recWatch EXCEPT ![o] = w]
    <3>1. PICK x \in RecordWatches : x = recWatch[o] BY <2>2
    <3>2. PICK v, s : v = x.version + 1 /\ s = "archived" OBVIOUS
    <3>3. recWatch' = [recWatch EXCEPT ![o] = [x EXCEPT !.version = v, !.status = s]]
      BY <2>1, <3>1, <3>2 DEF RecordInv, RecordTypes
    <3>4. [x EXCEPT !.version = v, !.status = s] = w BY <2>3, <3>1, <3>2, RecordWatchIs
    <3> QED BY <3>3, <3>4
  <2>5. w \in RecordWatches /\ w.version > 1 /\ w.status = "archived"
    BY <2>2, <2>3, RecordNats DEF RecordWatches, WatchStatuses
  <2>6. recJob' \in Cancellations /\ recJob'.o = o /\ recJob'.at = "cancelled"
    BY <1>0, <1>1, <2>1 DEF Cancellations
  <2>7. /\ armings' \in [Operations -> Nat] /\ \A p \in Operations : p # o => armings'[p] = armings[p]
        /\ armings'[o] <= 1 /\ ~(w.version <= 1)
    <3>1. w.version \in Nat BY <2>5 DEF RecordWatches
    <3> QED BY <1>2, <2>2, <2>5, <3>1
  <2> QED BY <1>2, <2>2, <2>4, <2>5, <2>6, <2>7, RecordWatchMoves
<1>4. CASE ~(recWatch[o].version = recJob.version /\ grant[o])
  <2>1. recJob' = Record!NoJob /\ UNCHANGED recWatch BY <1>1, <1>4 DEF Record!Archive
  <2> QED BY <1>2, <2>1, RecordCrash
<1> QED BY <1>3, <1>4

LEMMA RecordMark ==
  ASSUME RecordInv, Record!Mark PROVE RecordInv'
<1>0. recJob \in Creations /\ recJob.at = "marker"
  BY RecordShapes DEF RecordInv, Record!Mark
<1>1. PICK o \in Operations : recJob.o = o BY <1>0 DEF Creations
<1>2. UNCHANGED <<row, recWatch, grant, granted, armings>> BY DEF Record!Mark, Record!native
<1>3. CASE recJob' = Record!NoJob /\ UNCHANGED marker BY <1>2, <1>3, RecordCrash
<1>4. CASE marker' = [marker EXCEPT ![o] = "done"] /\ recJob' = [recJob EXCEPT !.at = "arm"]
           /\ marker[o] \in {"done", "begun"}
  <2>1. recJob' \in Creations /\ recJob'.o = o /\ recJob'.at = "arm"
    BY <1>0, <1>1, <1>4 DEF Creations
  <2>2. RecordTypes' BY <1>2, <1>4, <2>1 DEF RecordInv, RecordTypes
  <2>3. RowsHaveWatches' BY <1>2, <2>1 DEF RecordInv, RowsHaveWatches
  <2>4. MarkedBeforeGranted' BY <1>2, <1>4, <2>1 DEF RecordInv, RecordTypes, MarkedBeforeGranted
  <2>5. ArmedFromVersionOne' BY <1>2 DEF RecordInv, ArmedFromVersionOne
  <2> QED BY <2>2, <2>3, <2>4, <2>5 DEF RecordInv
<1>5. CASE marker' = [marker EXCEPT ![o] = "begun"] /\ recJob' = [recJob EXCEPT !.at = "grant"]
           /\ marker[o] = "none"
  <2>1. recJob' \in Creations /\ recJob'.o = o /\ recJob'.at = "grant"
    BY <1>0, <1>1, <1>5 DEF Creations
  <2>2. RecordTypes' BY <1>2, <1>5, <2>1 DEF RecordInv, RecordTypes
  <2>3. RowsHaveWatches' BY <1>2, <2>1 DEF RecordInv, RowsHaveWatches
  <2>4. MarkedBeforeGranted' BY <1>2, <1>5, <2>1 DEF RecordInv, RecordTypes, MarkedBeforeGranted
  <2>5. ArmedFromVersionOne' BY <1>2 DEF RecordInv, ArmedFromVersionOne
  <2> QED BY <2>2, <2>3, <2>4, <2>5 DEF RecordInv
<1> QED BY <1>1, <1>3, <1>4, <1>5 DEF Record!Mark

LEMMA RecordCreateGrant ==
  ASSUME RecordInv, Record!CreateGrant PROVE RecordInv'
<1>0. recJob \in Creations /\ recJob.at = "grant"
  BY RecordShapes DEF RecordInv, Record!CreateGrant
<1>1. PICK o \in Operations : recJob.o = o BY <1>0 DEF Creations
<1>2. /\ UNCHANGED <<row, recWatch, marker, armings>>
      /\ grant' = [grant EXCEPT ![o] = TRUE] /\ granted' = [granted EXCEPT ![o] = @ + 1]
      /\ recJob' = [recJob EXCEPT !.at = "granted"]
  BY <1>1 DEF Record!CreateGrant
<1>3. recJob' \in Creations /\ recJob'.o = o /\ recJob'.at = "granted"
  BY <1>0, <1>1, <1>2 DEF Creations
<1>4. granted[o] = 0 /\ marker[o] = "begun" BY <1>0, <1>1 DEF RecordInv, MarkedBeforeGranted
<1>5. /\ granted' \in [Operations -> Nat] /\ granted'[o] = 1
      /\ \A p \in Operations : p # o => granted'[p] = granted[p]
  BY <1>2, <1>4 DEF RecordInv, RecordTypes
<1>6. RecordTypes' BY <1>2, <1>3, <1>5 DEF RecordInv, RecordTypes
<1>7. RowsHaveWatches' BY <1>2, <1>3 DEF RecordInv, RowsHaveWatches
<1>8. MarkedBeforeGranted' BY <1>2, <1>3, <1>4, <1>5 DEF RecordInv, MarkedBeforeGranted
<1>9. ArmedFromVersionOne' BY <1>2 DEF RecordInv, ArmedFromVersionOne
<1> QED BY <1>6, <1>7, <1>8, <1>9 DEF RecordInv

LEMMA RecordFinishGrant ==
  ASSUME RecordInv, Record!FinishGrant PROVE RecordInv'
<1>0. recJob \in Creations /\ recJob.at = "granted"
  BY RecordShapes DEF RecordInv, Record!FinishGrant
<1>1. PICK o \in Operations : recJob.o = o BY <1>0 DEF Creations
<1>2. /\ UNCHANGED <<row, recWatch, grant, granted, armings>>
      /\ marker' = [marker EXCEPT ![o] = "done"] /\ recJob' = [recJob EXCEPT !.at = "arm"]
  BY <1>1 DEF Record!FinishGrant, Record!native
<1>3. recJob' \in Creations /\ recJob'.o = o /\ recJob'.at = "arm"
  BY <1>0, <1>1, <1>2 DEF Creations
<1>4. RecordTypes' BY <1>2, <1>3 DEF RecordInv, RecordTypes
<1>5. RowsHaveWatches' BY <1>2, <1>3 DEF RecordInv, RowsHaveWatches
<1>6. MarkedBeforeGranted' BY <1>2, <1>3 DEF RecordInv, RecordTypes, MarkedBeforeGranted
<1>7. ArmedFromVersionOne' BY <1>2 DEF RecordInv, ArmedFromVersionOne
<1> QED BY <1>4, <1>5, <1>6, <1>7 DEF RecordInv

\* A step that ends the job with a row of its watch.
LEMMA RecordSaves ==
  ASSUME RecordInv, NEW o \in Operations, NEW r \in RecordRows, recWatch[o] # Record!NoWatch,
         row' = [row EXCEPT ![o] = r], recJob' = Record!NoJob,
         UNCHANGED <<recWatch, marker, grant, granted, armings>>
  PROVE  RecordInv'
<1>1. recJob'.at = "idle" BY DEF Record!NoJob
<1>2. RecordTypes' BY DEF RecordInv, RecordTypes
<1>3. RowsHaveWatches' BY <1>1 DEF RecordInv, RecordTypes, RowsHaveWatches
<1>4. MarkedBeforeGranted' BY <1>1 DEF RecordInv, MarkedBeforeGranted
<1>5. ArmedFromVersionOne' BY DEF RecordInv, ArmedFromVersionOne
<1> QED BY <1>2, <1>3, <1>4, <1>5 DEF RecordInv

LEMMA RecordPutRow ==
  ASSUME RecordInv, Record!PutRow PROVE RecordInv'
<1>0. recJob \in Creations /\ recJob.at = "row"
  BY RecordShapes DEF RecordInv, Record!PutRow
<1>1. PICK o \in Operations, d \in Digests : recJob.o = o /\ recJob.d = d BY <1>0 DEF Creations
<1>2. recWatch[o] # Record!NoWatch /\ recWatch[o].status \in WatchStatuses
  BY <1>0, <1>1 DEF RecordInv, RecordTypes, RowsHaveWatches, RecordWatches
<1>3. PICK r \in RecordRows : r = [state |-> recWatch[o].status, digest |-> d]
  BY <1>2 DEF RecordRows
<1>4. /\ row' = [row EXCEPT ![o] = r] /\ recJob' = Record!NoJob
      /\ UNCHANGED <<recWatch, marker, grant, granted, armings>>
  BY <1>1, <1>3 DEF Record!PutRow, Record!native
<1> QED BY <1>2, <1>4, RecordSaves

LEMMA RecordSaveCancelled ==
  ASSUME RecordInv, Record!SaveCancelled PROVE RecordInv'
<1>0. recJob \in Cancellations /\ recJob.at = "cancelled"
  BY RecordShapes DEF RecordInv, Record!SaveCancelled
<1>1. PICK o \in Operations : recJob.o = o BY <1>0 DEF Cancellations
<1>2. /\ recWatch[o] # Record!NoWatch /\ recWatch[o].status \in WatchStatuses
      /\ row[o] \in RecordRows
  BY <1>0, <1>1 DEF RecordInv, RecordTypes, RowsHaveWatches, RecordWatches
<1>3. Record!WatchState(o) \in WatchStatuses \cup {"cancelled"} BY <1>2 DEF Record!WatchState
<1>4. PICK r : r = [row[o] EXCEPT !.state = Record!WatchState(o)] OBVIOUS
<1>5. r \in RecordRows BY <1>2, <1>3, <1>4 DEF RecordRows
<1>6. /\ row' = [row EXCEPT ![o] = r] /\ recJob' = Record!NoJob
      /\ UNCHANGED <<recWatch, marker, grant, granted, armings>>
  BY <1>1, <1>4 DEF Record!SaveCancelled, Record!native, RecordInv, RecordTypes
<1> QED BY <1>2, <1>5, <1>6, RecordSaves

LEMMA RecordRevoke ==
  ASSUME RecordInv, NEW o \in Operations, Record!Revoke(o) PROVE RecordInv'
<1>1. /\ UNCHANGED <<row, recWatch, marker, granted, armings, recJob>>
      /\ grant' = [grant EXCEPT ![o] = FALSE]
  BY DEF Record!Revoke
<1>2. RecordTypes' BY <1>1 DEF RecordInv, RecordTypes
<1>3. RowsHaveWatches' BY <1>1 DEF RecordInv, RowsHaveWatches
<1>4. MarkedBeforeGranted' BY <1>1 DEF RecordInv, MarkedBeforeGranted
<1>5. ArmedFromVersionOne' BY <1>1 DEF RecordInv, ArmedFromVersionOne
<1> QED BY <1>2, <1>3, <1>4, <1>5 DEF RecordInv

\* Every step of recorded watches preserves their invariant.
LEMMA RecordStep ==
  ASSUME RecordInv, Record!Next \/ UNCHANGED recordVars PROVE RecordInv'
<1>1. CASE UNCHANGED recordVars
  BY <1>1 DEF recordVars, RecordInv, RecordTypes, RowsHaveWatches, MarkedBeforeGranted,
              ArmedFromVersionOne
<1>2. CASE Record!Crash
  BY <1>2, RecordCrash DEF Record!Crash, Record!native
<1>3. CASE Record!Next /\ ~Record!Crash
  BY <1>3, RecordCreateBegin, RecordCancelBegin, RecordEditWatch, RecordRevoke, RecordCreateConcept,
     RecordMark, RecordCreateGrant, RecordFinishGrant, RecordArm, RecordPutRow, RecordArchive,
     RecordSaveCancelled DEF Record!Next
<1> QED BY <1>1, <1>2, <1>3

\* What the invariant of recorded watches is for.
LEMMA RecordInvImplies == ASSUME RecordInv PROVE Record!TypeOK /\ Record!GrantedAndArmedOnce
<1>1. \A o \in Operations : recWatch[o].version \in 0..MaxRecordVersion
  BY RecordNats DEF RecordInv, RecordTypes, RecordWatches, Record!NoWatch
<1>2. Record!TypeOK BY <1>1 DEF RecordInv, RecordTypes, Record!TypeOK
<1>3. Record!GrantedAndArmedOnce
  BY DEF RecordInv, MarkedBeforeGranted, ArmedFromVersionOne, Record!GrantedAndArmedOnce
<1> QED BY <1>2, <1>3

(***************************************************************************)
(* Semantic watches.                                                       *)
(***************************************************************************)

LEMMA SemanticNats ==
  /\ NumWatches \in Nat /\ WatchesPerPass \in Nat /\ AttemptsPerPage \in Nat
  /\ MaxVersion \in Nat /\ MaxVersion >= 1 /\ MaxEpoch \in Nat
BY WatchAssumption

LEMMA JobIsAJob == /\ \A j \in Jobs : j # Semantic!NoJob
                   /\ Semantic!NoJob.version = 0
BY SemanticNats DEF Jobs, Semantic!NoJob

LEMMA NoKeyIsAKey == Semantic!NoKey \in Keys
BY SemanticNats DEF Keys, Semantic!NoKey

LEMMA SemanticInit == Semantic!Init => SemanticInv
<1> SUFFICES ASSUME Semantic!Init PROVE SemanticInv OBVIOUS
<1>1. Semantic!NoPass \in Passes /\ Semantic!NoPass.at = "idle"
  BY SemanticNats DEF Passes, PassSteps, Semantic!NoPass
<1>2. Semantic!NoCommit \in Commits BY SemanticNats, NoKeyIsAKey DEF Commits, Semantic!NoCommit
<1>3. SemanticTypes
  <2>1. semCursor \in [after : 0..NumWatches, pending : 0..NumWatches] /\ semCursor.pending = 0
    BY SemanticNats DEF Semantic!Init
  <2>2. semWatch \in [Semantic!Watches -> [version : 1..MaxVersion, armed : BOOLEAN]]
    BY SemanticNats DEF Semantic!Init
  <2>3. /\ semJob \in [Semantic!Watches -> {Semantic!NoJob} \cup Jobs]
        /\ committed \in [Semantic!Watches -> Commits] /\ semCalls \in [Semantic!Watches -> Nat]
        /\ pass \in Passes
    BY <1>1, <1>2 DEF Semantic!Init
  <2> QED BY <2>1, <2>2, <2>3 DEF SemanticTypes
<1>4. pass.at = "idle" /\ semCursor.pending = 0 BY <1>1 DEF Semantic!Init
<1>5. \A w \in Semantic!Watches : semJob[w] = Semantic!NoJob BY DEF Semantic!Init
<1>6. PassIsPending BY <1>4 DEF PassIsPending
<1>7. EvaluationIsPending BY <1>4, <1>5 DEF EvaluationIsPending
<1>8. CallsAreReserved BY <1>4, <1>5 DEF CallsAreReserved
<1> QED BY <1>3, <1>6, <1>7, <1>8 DEF SemanticInv

\* What the types say of one watch and of the pass.
LEMMA SemanticTyped ==
  ASSUME SemanticInv
  PROVE  /\ pass.at \in PassSteps /\ pass.w \in 0..NumWatches
         /\ pass.scanned \in 0..(WatchesPerPass + 1)
         /\ semCursor.after \in 0..NumWatches /\ semCursor.pending \in 0..NumWatches
         /\ pass.at \notin {"idle", "page"} => /\ pass.w \in Semantic!Watches
                                              /\ semJob[pass.w] \in Jobs
         /\ pass.at \notin {"idle", "page", "pending"} => semCursor.pending = pass.w
<1>1. pass \in Passes /\ semCursor \in [after : 0..NumWatches, pending : 0..NumWatches]
  BY DEF SemanticInv, SemanticTypes
<1>2. /\ pass.at \in PassSteps /\ pass.w \in 0..NumWatches
      /\ pass.scanned \in 0..(WatchesPerPass + 1)
      /\ semCursor.after \in 0..NumWatches /\ semCursor.pending \in 0..NumWatches
  BY <1>1 DEF Passes
<1>3. pass.at \notin {"idle", "page"} => pass.w \in Semantic!Watches /\ semJob[pass.w] \in Jobs
  <2> HAVE pass.at \notin {"idle", "page"}
  <2>1. pass.w # 0 /\ semJob[pass.w] # Semantic!NoJob BY DEF SemanticInv, PassIsPending
  <2>2. pass.w \in Semantic!Watches BY <1>2, <2>1, SemanticNats DEF Semantic!Watches
  <2> QED BY <2>1, <2>2 DEF SemanticInv, SemanticTypes
<1> QED BY <1>2, <1>3 DEF SemanticInv, PassIsPending

\* A step that moves the pass only.
LEMMA PassMoves ==
  ASSUME SemanticInv, UNCHANGED <<semCursor, semJob, semWatch, committed, semCalls>>,
         NEW p \in Passes, pass' = p,
         p.at \in {"page", "pending"} => semCursor.pending = 0,
         p.at \notin {"idle", "page"} => p.w # 0 /\ semJob[p.w] # Semantic!NoJob,
         p.at \notin {"idle", "page", "pending"} => semCursor.pending = p.w,
         p.at = "pending" => p.scanned < WatchesPerPass,
         p.at \in {"ask", "judged", "unknown"} => ~semJob[p.w].accepted,
         p.at = "processed" => semJob[p.w].evaluation = Semantic!NoKey,
         p.at = "ask" => semCalls[p.w] < semJob[p.w].attempts
  PROVE  SemanticInv'
<1>1. SemanticTypes' BY DEF SemanticInv, SemanticTypes
<1>2. PassIsPending' BY DEF SemanticInv, PassIsPending
<1>3. EvaluationIsPending' BY DEF SemanticInv, EvaluationIsPending
<1>4. CallsAreReserved' BY DEF SemanticInv, CallsAreReserved
<1> QED BY <1>1, <1>2, <1>3, <1>4 DEF SemanticInv

LEMMA PassEnds ==
  ASSUME SemanticInv, pass' = Semantic!NoPass,
         UNCHANGED <<semCursor, semJob, semWatch, committed, semCalls>>
  PROVE  SemanticInv'
<1>1. Semantic!NoPass \in Passes /\ Semantic!NoPass.at = "idle"
  BY SemanticNats DEF Passes, PassSteps, Semantic!NoPass
<1> QED BY <1>1, PassMoves

\* A move of the pass to another step on the same watch.
LEMMA PassGoes ==
  ASSUME SemanticInv, NEW at \in PassSteps, NEW q, q = [pass EXCEPT !.at = at]
  PROVE  q \in Passes /\ q.at = at /\ q.w = pass.w /\ q.scanned = pass.scanned
BY DEF SemanticInv, SemanticTypes, Passes

LEMMA SemanticPassBegin ==
  ASSUME SemanticInv, Semantic!PassBegin PROVE SemanticInv'
<1>1. UNCHANGED <<semCursor, semJob, semWatch, committed, semCalls>>
  BY DEF Semantic!PassBegin, Semantic!native
<1>2. CASE semCursor.pending = 0
  <2>1. PICK p : p = [Semantic!NoPass EXCEPT !.at = "page"] OBVIOUS
  <2>2. p \in Passes /\ p.at = "page" BY <2>1, SemanticNats DEF Passes, PassSteps, Semantic!NoPass
  <2>3. pass' = p BY <1>2, <2>1 DEF Semantic!PassBegin
  <2> QED BY <1>1, <1>2, <2>2, <2>3, PassMoves
<1>3. CASE semCursor.pending # 0
  <2>1. PICK p : p = [at |-> "evaluate", w |-> semCursor.pending, scanned |-> 1] OBVIOUS
  <2>2. p \in Passes /\ p.at = "evaluate" /\ p.w = semCursor.pending
    BY <2>1, SemanticTyped, SemanticNats DEF Passes, PassSteps
  <2>3. pass' = p BY <1>3, <2>1 DEF Semantic!PassBegin
  <2>4. semJob[p.w] # Semantic!NoJob BY <1>3, <2>2 DEF SemanticInv, PassIsPending
  <2> QED BY <1>1, <1>3, <2>2, <2>3, <2>4, PassMoves
<1> QED BY <1>2, <1>3

\* A set of numbers that is not empty has a least one.
LEMMA LeastNumber ==
  ASSUME NEW S \in SUBSET Nat, S # {} PROVE \E m \in S : \A n \in S : m <= n
<1>1. PICK m \in S : \A n \in S : ~ (<<n, m>> \in OpToRel(<, Nat))
  BY WFMin, NatLessThanWellFounded, Zenon
<1>2. \A n \in S : ~(n < m)
  BY <1>1 DEF OpToRel
<1> QED BY <1>2

\* The row that is taken is an armed watch after the cursor.
LEMMA NextRowIsARow ==
  ASSUME Semantic!Rest # {} PROVE Semantic!NextRow \in Semantic!Rest
<1>1. Semantic!Rest \in SUBSET Nat BY SemanticNats DEF Semantic!Rest, Semantic!Watches
<1>2. \E w \in Semantic!Rest : \A v \in Semantic!Rest : w <= v BY <1>1, LeastNumber
<1> QED BY <1>2, Zenon DEF Semantic!NextRow

\* A step that gives the watch of the pass another job, with nothing pending
\* or with this watch pending.
LEMMA JobIsSaved ==
  ASSUME SemanticInv, UNCHANGED <<semCursor, semWatch, committed>>,
         NEW w \in Semantic!Watches, NEW j \in Jobs, semJob' = [semJob EXCEPT ![w] = j],
         NEW p \in Passes, pass' = p, p.at \notin {"idle", "page"}, p.w = w,
         semCalls' \in [Semantic!Watches -> Nat],
         \A v \in Semantic!Watches : v # w => semCalls'[v] = semCalls[v],
         j.accepted => j.evaluation = Semantic!NoKey,
         semCalls'[w] <= j.attempts,
         p.at = "pending" => /\ semCursor.pending = 0 /\ p.scanned < WatchesPerPass
                             /\ j.evaluation = Semantic!NoKey,
         p.at # "pending" => semCursor.pending = w,
         p.at \in {"ask", "judged", "unknown"} => ~j.accepted,
         p.at = "processed" => j.evaluation = Semantic!NoKey,
         p.at = "ask" => semCalls'[w] < j.attempts
  PROVE  SemanticInv'
<1>1. /\ semJob' \in [Semantic!Watches -> {Semantic!NoJob} \cup Jobs]
      /\ semJob'[w] = j /\ \A v \in Semantic!Watches : v # w => semJob'[v] = semJob[v]
  BY DEF SemanticInv, SemanticTypes
<1>2. w # 0 /\ j # Semantic!NoJob BY JobIsAJob, SemanticNats DEF Semantic!Watches
<1>3. SemanticTypes' BY <1>1 DEF SemanticInv, SemanticTypes
<1>4. PassIsPending' BY <1>1, <1>2 DEF SemanticInv, PassIsPending
<1>5. EvaluationIsPending' BY <1>1, <1>2 DEF SemanticInv, EvaluationIsPending
<1>6. CallsAreReserved' BY <1>1 DEF SemanticInv, CallsAreReserved
<1> QED BY <1>3, <1>4, <1>5, <1>6 DEF SemanticInv

LEMMA SemanticTakeRow ==
  ASSUME SemanticInv, Semantic!TakeRow PROVE SemanticInv'
<1>1. PICK w : w = Semantic!NextRow OBVIOUS
<1>2. /\ w \in Semantic!Watches /\ semCursor.pending = 0 /\ pass.at = "page"
      /\ pass.scanned < WatchesPerPass /\ UNCHANGED <<semCursor, semWatch, committed>>
  <2>1. /\ Semantic!Rest # {} /\ pass.at = "page" /\ pass.scanned < WatchesPerPass
        /\ UNCHANGED <<semCursor, semWatch, committed>>
    BY DEF Semantic!TakeRow, Semantic!native
  <2> QED BY <1>1, <2>1, NextRowIsARow DEF Semantic!Rest, SemanticInv, PassIsPending
<1>3. semJob[w] # Semantic!NoJob => semJob[w].evaluation = Semantic!NoKey
  BY <1>2, SemanticNats DEF SemanticInv, EvaluationIsPending, Semantic!Watches
<1>4. CASE UNCHANGED <<semJob, semCalls>> /\ pass' = Semantic!NoPass
  BY <1>2, <1>4, PassEnds
<1>5. PICK p : p = [pass EXCEPT !.at = "pending", !.w = w] OBVIOUS
<1>6. p \in Passes /\ p.at = "pending" /\ p.w = w /\ p.scanned = pass.scanned
  <2>1. PICK q : q = [pass EXCEPT !.at = "pending"] OBVIOUS
  <2>2. q \in Passes /\ q.at = "pending" /\ q.scanned = pass.scanned
    BY <2>1, PassGoes DEF PassSteps
  <2>3. p = [q EXCEPT !.w = w] BY <1>5, <2>1
  <2> QED BY <1>2, <2>2, <2>3, SemanticNats DEF Passes, Semantic!Watches
<1>7. CASE /\ semJob[w].version # semWatch[w].version
           /\ semJob' = [semJob EXCEPT ![w] = Semantic!NewJob(semWatch[w].version)]
           /\ semCalls' = [semCalls EXCEPT ![w] = 0] /\ pass' = p
  <2>1. PICK j : j = Semantic!NewJob(semWatch[w].version) OBVIOUS
  <2>2. semWatch[w].version \in 1..MaxVersion BY <1>2 DEF SemanticInv, SemanticTypes
  <2>3. j \in Jobs /\ ~j.accepted /\ j.evaluation = Semantic!NoKey /\ j.attempts = 0
    BY <2>1, <2>2, NoKeyIsAKey, SemanticNats DEF Jobs, Semantic!NewJob
  <2>4. /\ semCalls' \in [Semantic!Watches -> Nat] /\ semCalls'[w] = 0
        /\ \A v \in Semantic!Watches : v # w => semCalls'[v] = semCalls[v]
    BY <1>2, <1>7 DEF SemanticInv, SemanticTypes
  <2>5. semJob' = [semJob EXCEPT ![w] = j] /\ semCalls'[w] <= j.attempts BY <1>7, <2>1, <2>3, <2>4
  <2> QED BY <1>2, <1>6, <1>7, <2>3, <2>4, <2>5, JobIsSaved
<1>8. CASE /\ semJob[w].version = semWatch[w].version
           /\ UNCHANGED <<semJob, semCalls>> /\ pass' = p
  <2>1. semWatch[w].version \in 1..MaxVersion BY <1>2 DEF SemanticInv, SemanticTypes
  <2>2. semJob[w] # Semantic!NoJob BY <1>8, <2>1, JobIsAJob, SemanticNats
  <2>3. w # 0 BY <1>2, SemanticNats DEF Semantic!Watches
  <2> QED BY <1>2, <1>6, <1>8, <2>2, <2>3, PassMoves
<1> QED BY <1>1, <1>4, <1>5, <1>7, <1>8 DEF Semantic!TakeRow

LEMMA SemanticSavePending ==
  ASSUME SemanticInv, Semantic!SavePending PROVE SemanticInv'
<1>1. /\ UNCHANGED <<semJob, semWatch, committed, semCalls>> /\ pass.at = "pending"
      /\ semCursor' = [semCursor EXCEPT !.pending = pass.w]
      /\ pass' = [pass EXCEPT !.at = "evaluate", !.scanned = @ + 1]
  BY DEF Semantic!SavePending, Semantic!native
<1>2. /\ pass.w \in Semantic!Watches /\ pass.w \in 0..NumWatches /\ semJob[pass.w] \in Jobs
      /\ pass.scanned \in 0..(WatchesPerPass + 1)
      /\ pass.scanned < WatchesPerPass /\ semCursor.pending = 0
  BY <1>1, SemanticTyped DEF SemanticInv, PassIsPending
<1>3. /\ semCursor' \in [after : 0..NumWatches, pending : 0..NumWatches]
      /\ semCursor'.pending = pass.w
  BY <1>1, <1>2 DEF SemanticInv, SemanticTypes
<1>4. pass' \in Passes /\ pass'.at = "evaluate" /\ pass'.w = pass.w
  <2>1. PICK q : q = [pass EXCEPT !.at = "evaluate"] OBVIOUS
  <2>2. q \in Passes /\ q.at = "evaluate" /\ q.w = pass.w /\ q.scanned = pass.scanned
    BY <2>1, PassGoes DEF PassSteps
  <2>3. PICK n \in 0..(WatchesPerPass + 1) : n = q.scanned + 1 BY <1>2, <2>2, SemanticNats
  <2>4. pass' = [q EXCEPT !.scanned = n] BY <1>1, <2>1, <2>3 DEF SemanticInv, SemanticTypes, Passes
  <2> QED BY <2>2, <2>4 DEF Passes
<1>5. \A w \in Semantic!Watches : semJob[w] # Semantic!NoJob => semJob[w].evaluation = Semantic!NoKey
  BY <1>2, SemanticNats DEF SemanticInv, EvaluationIsPending, Semantic!Watches
<1>6. SemanticTypes' BY <1>1, <1>3, <1>4 DEF SemanticInv, SemanticTypes
<1>7. PassIsPending'
  <2>1. pass.w # 0 /\ semJob[pass.w] # Semantic!NoJob
    BY <1>2, JobIsAJob, SemanticNats DEF Semantic!Watches
  <2> QED BY <1>1, <1>3, <1>4, <2>1 DEF PassIsPending
<1>8. EvaluationIsPending' BY <1>1, <1>4, <1>5 DEF SemanticInv, EvaluationIsPending
<1>9. CallsAreReserved' BY <1>1, <1>4 DEF SemanticInv, CallsAreReserved
<1> QED BY <1>6, <1>7, <1>8, <1>9 DEF SemanticInv

\* A step that clears the pending slot or turns the page, when no evaluation
\* is stored.
LEMMA CursorMoves ==
  ASSUME SemanticInv, UNCHANGED <<semJob, semWatch, committed, semCalls>>,
         NEW c \in [after : 0..NumWatches, pending : {0}], semCursor' = c,
         NEW p \in Passes, pass' = p, p.at \in {"idle", "page"},
         \A w \in Semantic!Watches : semJob[w] # Semantic!NoJob => semJob[w].evaluation = Semantic!NoKey
  PROVE  SemanticInv'
<1>1. c.pending = 0 /\ c \in [after : 0..NumWatches, pending : 0..NumWatches] BY SemanticNats
<1>2. SemanticTypes' BY <1>1 DEF SemanticInv, SemanticTypes
<1>3. PassIsPending' BY <1>1 DEF SemanticInv, PassIsPending
<1>4. EvaluationIsPending' BY DEF SemanticInv, EvaluationIsPending
<1>5. CallsAreReserved' BY DEF SemanticInv, CallsAreReserved
<1> QED BY <1>2, <1>3, <1>4, <1>5 DEF SemanticInv

LEMMA SemanticEndPass ==
  ASSUME SemanticInv, Semantic!EndPass PROVE SemanticInv'
<1>1. /\ UNCHANGED <<semJob, semWatch, committed, semCalls>> /\ pass.at = "page"
      /\ pass' = Semantic!NoPass
      /\ UNCHANGED semCursor \/ semCursor' = [semCursor EXCEPT !.after = 0]
  BY DEF Semantic!EndPass, Semantic!native
<1>2. CASE UNCHANGED semCursor BY <1>1, <1>2, PassEnds
<1>3. CASE semCursor' = [semCursor EXCEPT !.after = 0]
  <2>1. semCursor.pending = 0 BY <1>1 DEF SemanticInv, PassIsPending
  <2>2. semCursor' \in [after : 0..NumWatches, pending : {0}]
    BY <1>3, <2>1, SemanticNats DEF SemanticInv, SemanticTypes
  <2>3. Semantic!NoPass \in Passes /\ Semantic!NoPass.at = "idle"
    BY SemanticNats DEF Passes, PassSteps, Semantic!NoPass
  <2>4. \A w \in Semantic!Watches : semJob[w] # Semantic!NoJob => semJob[w].evaluation = Semantic!NoKey
    BY <2>1, SemanticNats DEF SemanticInv, EvaluationIsPending, Semantic!Watches
  <2> QED BY <1>1, <2>2, <2>3, <2>4, CursorMoves
<1> QED BY <1>1, <1>2, <1>3

LEMMA SemanticReleased ==
  ASSUME SemanticInv, Semantic!Released PROVE SemanticInv'
<1>1. /\ UNCHANGED <<semJob, semWatch, committed, semCalls>> /\ pass.at = "processed"
      /\ semCursor' = [after |-> pass.w, pending |-> 0] /\ pass' = [pass EXCEPT !.at = "page"]
  BY DEF Semantic!Released, Semantic!native
<1>2. /\ pass.w \in 0..NumWatches /\ semCursor.pending = pass.w
      /\ semJob[pass.w].evaluation = Semantic!NoKey
  BY <1>1, SemanticTyped DEF SemanticInv, EvaluationIsPending
<1>3. pass' \in Passes /\ pass'.at = "page" BY <1>1, PassGoes DEF PassSteps
<1>4. semCursor' \in [after : 0..NumWatches, pending : {0}] BY <1>1, <1>2
<1>5. \A w \in Semantic!Watches : semJob[w] # Semantic!NoJob => semJob[w].evaluation = Semantic!NoKey
  BY <1>2 DEF SemanticInv, EvaluationIsPending
<1> QED BY <1>1, <1>3, <1>4, <1>5, CursorMoves

LEMMA SemanticSkipJob ==
  ASSUME SemanticInv, Semantic!SkipJob PROVE SemanticInv'
<1>1. /\ UNCHANGED <<semCursor, semJob, semWatch, committed, semCalls>> /\ pass.at = "evaluate"
      /\ pass' = [pass EXCEPT !.at = "processed"]
      /\ semJob[pass.w].accepted \/ semJob[pass.w].evaluation = Semantic!NoKey
  BY DEF Semantic!SkipJob, Semantic!native, Semantic!Goto, Semantic!This
<1>2. /\ pass.w \in Semantic!Watches /\ pass.w # 0 /\ semJob[pass.w] # Semantic!NoJob
      /\ semCursor.pending = pass.w
  BY <1>1, SemanticTyped DEF SemanticInv, PassIsPending
<1>3. semJob[pass.w].evaluation = Semantic!NoKey
  BY <1>1, <1>2 DEF SemanticInv, EvaluationIsPending
<1>4. PICK p \in Passes : p = pass' /\ p.at = "processed" /\ p.w = pass.w
  BY <1>1, PassGoes DEF PassSteps
<1> QED BY <1>1, <1>2, <1>3, <1>4, PassMoves

\* A step of the evaluation that saves the job of its watch and goes on.
LEMMA EvaluationMoves ==
  ASSUME SemanticInv, pass.at \notin {"idle", "page", "pending"},
         UNCHANGED <<semCursor, semWatch, committed, semCalls>>,
         NEW j \in Jobs, semJob' = [semJob EXCEPT ![pass.w] = j],
         NEW at \in PassSteps \ {"idle", "page", "pending"}, pass' = [pass EXCEPT !.at = at],
         j.accepted => j.evaluation = Semantic!NoKey,
         semCalls[pass.w] <= j.attempts,
         at \in {"ask", "judged", "unknown"} => ~j.accepted,
         at = "processed" => j.evaluation = Semantic!NoKey,
         at = "ask" => semCalls[pass.w] < j.attempts
  PROVE  SemanticInv'
<1>1. PICK w \in Semantic!Watches : w = pass.w /\ semCursor.pending = w BY SemanticTyped
<1>2. PICK p \in Passes : p = pass' /\ p.at = at /\ p.w = w BY <1>1, PassGoes
<1>3. semCalls' \in [Semantic!Watches -> Nat] /\ UNCHANGED semCalls
  BY DEF SemanticInv, SemanticTypes
<1> QED BY <1>1, <1>2, <1>3, JobIsSaved

LEMMA SemanticRefused ==
  ASSUME SemanticInv, pass.at = "evaluate", UNCHANGED <<semCursor, semWatch, committed, semCalls>>,
         Semantic!Refused
  PROVE  SemanticInv'
<1>1. PICK J \in Jobs : J = semJob[pass.w] BY SemanticTyped
<1>2. PICK i : i = [J EXCEPT !.evaluation = Semantic!NoKey] OBVIOUS
<1>3. i \in Jobs /\ i.evaluation = Semantic!NoKey BY <1>2, NoKeyIsAKey DEF Jobs
<1>4. PICK j : j = [i EXCEPT !.attempts = AttemptsPerPage] OBVIOUS
<1>5. j \in Jobs /\ j.evaluation = Semantic!NoKey /\ j.attempts = AttemptsPerPage
  BY <1>3, <1>4, SemanticNats DEF Jobs
<1>6. semJob' = [semJob EXCEPT ![pass.w] = j] /\ pass' = [pass EXCEPT !.at = "processed"]
  BY <1>1, <1>2, <1>4 DEF Semantic!Refused, Semantic!SaveJob, Semantic!Goto, Semantic!This
<1>7. semCalls[pass.w] <= AttemptsPerPage
  <2>1. semCalls[pass.w] <= J.attempts /\ pass.w \in Semantic!Watches
    BY <1>1, SemanticTyped, JobIsAJob DEF SemanticInv, CallsAreReserved
  <2>2. J.attempts \in 0..AttemptsPerPage /\ semCalls[pass.w] \in Nat
    BY <2>1 DEF Jobs, SemanticInv, SemanticTypes
  <2> QED BY <2>1, <2>2, SemanticNats
<1> QED BY <1>5, <1>6, <1>7, EvaluationMoves DEF PassSteps

\* What is known of the job that is being evaluated.
LEMMA EvaluatedJob ==
  ASSUME SemanticInv, pass.at \notin {"idle", "page"}
  PROVE  \E J \in Jobs :
           /\ J = semJob[pass.w]
           /\ J.attempts \in 0..AttemptsPerPage /\ J.epoch \in 0..MaxEpoch
           /\ pass.w \in Semantic!Watches /\ semCalls[pass.w] \in Nat
           /\ semCalls[pass.w] <= J.attempts
           /\ J.accepted => J.evaluation = Semantic!NoKey
<1>1. pass.w \in Semantic!Watches /\ semJob[pass.w] \in Jobs BY SemanticTyped
<1>2. semJob[pass.w] # Semantic!NoJob BY <1>1, JobIsAJob
<1>3. /\ semCalls[pass.w] <= semJob[pass.w].attempts
      /\ semJob[pass.w].accepted => semJob[pass.w].evaluation = Semantic!NoKey
  BY <1>1, <1>2 DEF SemanticInv, CallsAreReserved, EvaluationIsPending
<1>4. semCalls[pass.w] \in Nat BY <1>1 DEF SemanticInv, SemanticTypes
<1>5. semJob[pass.w].attempts \in 0..AttemptsPerPage /\ semJob[pass.w].epoch \in 0..MaxEpoch
  BY <1>1 DEF Jobs
<1> QED BY <1>1, <1>3, <1>4, <1>5

LEMMA SemanticPrepareTicket ==
  ASSUME SemanticInv, Semantic!PrepareTicket PROVE SemanticInv'
<1>1. pass.at = "evaluate" /\ UNCHANGED <<semCursor, semWatch, committed, semCalls>>
  BY DEF Semantic!PrepareTicket, Semantic!native
<1>2. CASE Semantic!Refused BY <1>1, <1>2, SemanticRefused
<1>3. CASE Semantic!SaveJob([semJob[pass.w] EXCEPT !.ticket = TRUE]) /\ UNCHANGED pass
  <2>1. PICK J \in Jobs :
           /\ J = semJob[pass.w] /\ semCalls[pass.w] <= J.attempts
           /\ J.accepted => J.evaluation = Semantic!NoKey
    BY <1>1, EvaluatedJob
  <2>2. PICK j : j = [J EXCEPT !.ticket = TRUE] OBVIOUS
  <2>3. /\ j \in Jobs /\ j.attempts = J.attempts /\ j.accepted = J.accepted
        /\ j.evaluation = J.evaluation
    BY <2>2 DEF Jobs
  <2>4. semJob' = [semJob EXCEPT ![pass.w] = j]
    BY <1>3, <2>1, <2>2 DEF Semantic!SaveJob, Semantic!This
  <2>5. pass' = [pass EXCEPT !.at = "evaluate"]
    BY <1>1, <1>3 DEF SemanticInv, SemanticTypes, Passes
  <2> QED BY <1>1, <2>1, <2>3, <2>4, <2>5, EvaluationMoves DEF PassSteps
<1> QED BY <1>2, <1>3 DEF Semantic!PrepareTicket, Semantic!This

LEMMA SemanticReserve ==
  ASSUME SemanticInv, Semantic!Reserve PROVE SemanticInv'
<1>1. pass.at = "evaluate" /\ UNCHANGED <<semCursor, semWatch, committed, semCalls>>
  BY DEF Semantic!Reserve, Semantic!native
<1>2. PICK J \in Jobs :
         /\ J = semJob[pass.w] /\ semCalls[pass.w] <= J.attempts /\ semCalls[pass.w] \in Nat
         /\ J.accepted => J.evaluation = Semantic!NoKey
         /\ J.attempts \in 0..AttemptsPerPage
  BY <1>1, EvaluatedJob
<1>3. J.evaluation = Semantic!NoKey /\ ~J.accepted /\ ~(J.attempts >= AttemptsPerPage)
  BY <1>2 DEF Semantic!Reserve, Semantic!Active, Semantic!Exhausted, Semantic!This
<1>4. CASE Semantic!Refused BY <1>1, <1>4, SemanticRefused
<1>5. CASE /\ Semantic!SaveJob([semJob[pass.w] EXCEPT !.attempts = AttemptsPerPage])
           /\ Semantic!Goto("processed")
  <2>1. PICK j : j = [J EXCEPT !.attempts = AttemptsPerPage] OBVIOUS
  <2>2. /\ j \in Jobs /\ j.attempts = AttemptsPerPage /\ ~j.accepted
        /\ j.evaluation = Semantic!NoKey
    BY <1>3, <2>1, SemanticNats DEF Jobs
  <2>3. semJob' = [semJob EXCEPT ![pass.w] = j] /\ pass' = [pass EXCEPT !.at = "processed"]
    BY <1>2, <1>5, <2>1 DEF Semantic!SaveJob, Semantic!Goto, Semantic!This
  <2>4. semCalls[pass.w] <= AttemptsPerPage BY <1>2, SemanticNats
  <2> QED BY <1>1, <2>2, <2>3, <2>4, EvaluationMoves DEF PassSteps
<1>6. CASE UNCHANGED semJob /\ Semantic!Goto("processed")
  <2>1. pass' = [pass EXCEPT !.at = "processed"] BY <1>6 DEF Semantic!Goto
  <2>2. PICK p \in Passes : p = pass' /\ p.at = "processed" /\ p.w = pass.w
    BY <2>1, PassGoes DEF PassSteps
  <2>3. pass.w # 0 /\ semJob[pass.w] # Semantic!NoJob /\ semCursor.pending = pass.w
    BY <1>1 DEF SemanticInv, PassIsPending
  <2> QED BY <1>1, <1>2, <1>3, <1>6, <2>2, <2>3, PassMoves
<1>7. CASE /\ Semantic!SaveJob([semJob[pass.w] EXCEPT !.attempts = @ + 1])
           /\ Semantic!Goto("ask")
  <2>1. PICK n \in 0..AttemptsPerPage : n = J.attempts + 1 BY <1>2, <1>3, SemanticNats
  <2>2. PICK j : j = [J EXCEPT !.attempts = n] OBVIOUS
  <2>3. /\ j \in Jobs /\ j.attempts = n /\ ~j.accepted /\ j.evaluation = Semantic!NoKey
    BY <1>3, <2>2 DEF Jobs
  <2>4. semJob' = [semJob EXCEPT ![pass.w] = j] /\ pass' = [pass EXCEPT !.at = "ask"]
    BY <1>2, <1>7, <2>1, <2>2 DEF Semantic!SaveJob, Semantic!Goto, Semantic!This, Jobs
  <2>5. semCalls[pass.w] <= n /\ semCalls[pass.w] < n BY <1>2, <2>1
  <2> QED BY <1>1, <2>3, <2>4, <2>5, EvaluationMoves DEF PassSteps
<1> QED BY <1>4, <1>5, <1>6, <1>7 DEF Semantic!Reserve, Semantic!This

LEMMA SemanticAskModel ==
  ASSUME SemanticInv, Semantic!AskModel PROVE SemanticInv'
<1>1. /\ pass.at = "ask" /\ UNCHANGED <<semCursor, semJob, semWatch, committed>>
      /\ semCalls' = [semCalls EXCEPT ![pass.w] = @ + 1]
  BY DEF Semantic!AskModel, Semantic!native, Semantic!This
<1>2. PICK a0 \in {"judged", "unknown"} : pass' = [at |-> a0, w |-> pass.w, scanned |-> pass.scanned]
  BY DEF Semantic!AskModel, Semantic!Judgments, Semantic!This
<1>3. PICK J \in Jobs :
         /\ J = semJob[pass.w] /\ semCalls[pass.w] \in Nat /\ pass.w \in Semantic!Watches
         /\ J.attempts \in 0..AttemptsPerPage
  BY <1>1, EvaluatedJob
<1>4. semCalls[pass.w] < J.attempts /\ ~J.accepted
  BY <1>1, <1>3 DEF SemanticInv, CallsAreReserved, EvaluationIsPending
<1>5. /\ semCalls' \in [Semantic!Watches -> Nat] /\ semCalls'[pass.w] = semCalls[pass.w] + 1
      /\ \A v \in Semantic!Watches : v # pass.w => semCalls'[v] = semCalls[v]
  BY <1>1, <1>3 DEF SemanticInv, SemanticTypes
<1>6. semCalls'[pass.w] <= J.attempts BY <1>3, <1>4, <1>5
<1>7. pass' \in Passes /\ pass'.at = a0 /\ pass'.w = pass.w
  BY <1>2, SemanticTyped DEF Passes, PassSteps
<1>8. SemanticTypes' BY <1>1, <1>5, <1>7 DEF SemanticInv, SemanticTypes
<1>9. PassIsPending' BY <1>1, <1>7 DEF SemanticInv, PassIsPending
<1>10. EvaluationIsPending' BY <1>1, <1>3, <1>4, <1>7 DEF SemanticInv, EvaluationIsPending
<1>11. CallsAreReserved' BY <1>1, <1>3, <1>5, <1>6, <1>7 DEF SemanticInv, CallsAreReserved
<1> QED BY <1>8, <1>9, <1>10, <1>11 DEF SemanticInv

LEMMA SemanticSaveEvaluation ==
  ASSUME SemanticInv, Semantic!SaveEvaluation PROVE SemanticInv'
<1>1. /\ pass.at \in {"judged", "unknown"} /\ UNCHANGED <<semCursor, semWatch, committed, semCalls>>
  BY DEF Semantic!SaveEvaluation, Semantic!native
<1>2. PICK J \in Jobs :
         /\ J = semJob[pass.w] /\ semCalls[pass.w] <= J.attempts
         /\ J.attempts \in 0..AttemptsPerPage /\ J.epoch \in 0..MaxEpoch
  BY <1>1, EvaluatedJob
<1>3. ~J.accepted BY <1>1, <1>2 DEF SemanticInv, EvaluationIsPending
<1>4. PICK b \in BOOLEAN : b = (pass.at = "judged") OBVIOUS
<1>5. PICK key : key = [epoch |-> J.epoch, attempt |-> J.attempts, judged |-> b] OBVIOUS
<1>6. key \in Keys BY <1>2, <1>5 DEF Keys
<1>7. PICK j : j = [J EXCEPT !.evaluation = key] OBVIOUS
<1>8. j \in Jobs /\ j.attempts = J.attempts /\ j.accepted = J.accepted BY <1>6, <1>7 DEF Jobs
<1>9. semJob' = [semJob EXCEPT ![pass.w] = j] /\ pass' = [pass EXCEPT !.at = "evaluate"]
  BY <1>2, <1>4, <1>5, <1>7, Zenon
     DEF Semantic!SaveEvaluation, Semantic!SaveJob, Semantic!Goto, Semantic!This
<1> QED BY <1>1, <1>2, <1>3, <1>8, <1>9, EvaluationMoves DEF PassSteps

\* A step of Nexus that moves the pass and the native side only.
LEMMA NativeMoves ==
  ASSUME SemanticInv, UNCHANGED <<semCursor, semJob, semCalls>>,
         pass.at = "evaluate", NEW at \in {"accepted", "deferred"}, pass' = [pass EXCEPT !.at = at],
         semWatch' \in [Semantic!Watches -> [version : 1..MaxVersion, armed : BOOLEAN]],
         committed' \in [Semantic!Watches -> Commits]
  PROVE  SemanticInv'
<1>1. pass' \in Passes /\ pass'.at = at /\ pass'.w = pass.w BY PassGoes DEF PassSteps
<1>2. SemanticTypes' BY <1>1 DEF SemanticInv, SemanticTypes
<1>3. PassIsPending' BY <1>1 DEF SemanticInv, PassIsPending
<1>4. EvaluationIsPending' BY <1>1 DEF SemanticInv, EvaluationIsPending
<1>5. CallsAreReserved' BY <1>1 DEF SemanticInv, CallsAreReserved
<1> QED BY <1>2, <1>3, <1>4, <1>5 DEF SemanticInv

LEMMA SemanticCommit ==
  ASSUME SemanticInv, Semantic!Commit PROVE SemanticInv'
<1>1. pass.at = "evaluate" /\ UNCHANGED <<semCursor, semCalls>>
  BY DEF Semantic!Commit
<1>2. /\ semWatch \in [Semantic!Watches -> [version : 1..MaxVersion, armed : BOOLEAN]]
      /\ committed \in [Semantic!Watches -> Commits]
  BY DEF SemanticInv, SemanticTypes
<1>3. CASE Semantic!Refused /\ UNCHANGED <<semWatch, committed>>
  BY <1>1, <1>3, SemanticRefused
<1>4. CASE /\ Semantic!Goto(IF committed[pass.w].accepted THEN "accepted" ELSE "deferred")
           /\ UNCHANGED <<semJob, semWatch, committed>>
  <2>1. PICK at \in {"accepted", "deferred"} : Semantic!Goto(at) BY <1>4
  <2>2. pass' = [pass EXCEPT !.at = at] BY <2>1 DEF Semantic!Goto
  <2> QED BY <1>1, <1>2, <1>4, <2>2, NativeMoves
<1>5. CASE /\ semWatch[pass.w].version < MaxVersion /\ UNCHANGED semJob
           /\ \E accepted \in BOOLEAN, fired \in BOOLEAN :
               /\ committed' = [committed EXCEPT ![pass.w] =
                    [key |-> semJob[pass.w].evaluation, version |-> semJob[pass.w].version,
                     accepted |-> accepted]]
               /\ semWatch' = IF ~accepted THEN semWatch
                              ELSE [semWatch EXCEPT ![pass.w] = [version |-> @.version + 1, armed |-> ~fired]]
               /\ Semantic!Goto(IF accepted THEN "accepted" ELSE "deferred")
  <2>1. PICK ok \in BOOLEAN, fired \in BOOLEAN :
               /\ committed' = [committed EXCEPT ![pass.w] =
                    [key |-> semJob[pass.w].evaluation, version |-> semJob[pass.w].version,
                     accepted |-> ok]]
               /\ semWatch' = IF ~ok THEN semWatch
                              ELSE [semWatch EXCEPT ![pass.w] = [version |-> @.version + 1, armed |-> ~fired]]
               /\ Semantic!Goto(IF ok THEN "accepted" ELSE "deferred")
    BY <1>5
  <2>2. pass.w \in Semantic!Watches /\ semJob[pass.w] \in Jobs BY <1>1, SemanticTyped
  <2>3. [key |-> semJob[pass.w].evaluation, version |-> semJob[pass.w].version, accepted |-> ok] \in Commits
    BY <2>2, SemanticNats DEF Jobs, Commits
  <2>4. committed' \in [Semantic!Watches -> Commits] BY <1>2, <2>1, <2>2, <2>3
  <2>5. [version |-> semWatch[pass.w].version + 1, armed |-> ~fired] \in [version : 1..MaxVersion, armed : BOOLEAN]
    <3>1. semWatch[pass.w].version + 1 \in 1..MaxVersion BY <1>2, <1>5, <2>2, SemanticNats
    <3>2. (~fired) \in BOOLEAN OBVIOUS
    <3> QED BY <3>1, <3>2
  <2>6. semWatch' \in [Semantic!Watches -> [version : 1..MaxVersion, armed : BOOLEAN]]
    BY <1>2, <2>1, <2>2, <2>5
  <2>7. PICK at \in {"accepted", "deferred"} : Semantic!Goto(at) BY <2>1
  <2>8. pass' = [pass EXCEPT !.at = at] BY <2>7 DEF Semantic!Goto
  <2> QED BY <1>1, <1>5, <2>4, <2>6, <2>8, NativeMoves
<1> QED BY <1>3, <1>4, <1>5 DEF Semantic!Commit, Semantic!This, Semantic!native

LEMMA SemanticSaveOutcome ==
  ASSUME SemanticInv, Semantic!SaveOutcome PROVE SemanticInv'
<1>1. /\ pass.at \in {"accepted", "deferred"} /\ UNCHANGED <<semCursor, semWatch, committed, semCalls>>
  BY DEF Semantic!SaveOutcome, Semantic!native
<1>2. PICK J \in Jobs : J = semJob[pass.w] /\ semCalls[pass.w] <= J.attempts
  BY <1>1, EvaluatedJob
<1>3. PICK b \in BOOLEAN : b = (pass.at = "accepted") OBVIOUS
<1>4. PICK i : i = [J EXCEPT !.accepted = b] OBVIOUS
<1>5. i \in Jobs /\ i.attempts = J.attempts BY <1>4 DEF Jobs
<1>6. PICK h : h = [i EXCEPT !.evaluation = Semantic!NoKey] OBVIOUS
<1>7. h \in Jobs /\ h.attempts = J.attempts /\ h.evaluation = Semantic!NoKey
  BY <1>5, <1>6, NoKeyIsAKey DEF Jobs
<1>8. PICK j : j = [h EXCEPT !.due = FALSE] OBVIOUS
<1>9. j \in Jobs /\ j.attempts = J.attempts /\ j.evaluation = Semantic!NoKey BY <1>7, <1>8 DEF Jobs
<1>10. semJob' = [semJob EXCEPT ![pass.w] = j] /\ pass' = [pass EXCEPT !.at = "processed"]
  BY <1>2, <1>3, <1>4, <1>6, <1>8, Zenon
     DEF Semantic!SaveOutcome, Semantic!SaveJob, Semantic!Goto, Semantic!This
<1> QED BY <1>1, <1>2, <1>9, <1>10, EvaluationMoves DEF PassSteps

LEMMA SemanticRetry ==
  ASSUME SemanticInv, NEW w \in Semantic!Watches, Semantic!Retry(w) PROVE SemanticInv'
<1>1. /\ pass.at = "idle" /\ UNCHANGED <<semCursor, semWatch, committed, pass>>
      /\ semJob[w] # Semantic!NoJob /\ semJob[w].evaluation = Semantic!NoKey
      /\ semJob[w].epoch < MaxEpoch
      /\ semCalls' = [semCalls EXCEPT ![w] = 0]
      /\ semJob' = [semJob EXCEPT ![w].epoch = @ + 1, ![w].attempts = 0, ![w].due = TRUE]
  BY DEF Semantic!Retry, Semantic!native
<1>2. PICK J \in Jobs : J = semJob[w] BY <1>1 DEF SemanticInv, SemanticTypes
<1>3. J.epoch \in 0..MaxEpoch BY <1>2 DEF Jobs
<1>4. PICK n \in 0..MaxEpoch : n = J.epoch + 1 BY <1>1, <1>2, <1>3, SemanticNats
<1>5. PICK i : i = [J EXCEPT !.epoch = n] OBVIOUS
<1>6. i \in Jobs /\ i.accepted = J.accepted /\ i.evaluation = J.evaluation BY <1>5 DEF Jobs
<1>7. PICK h : h = [i EXCEPT !.attempts = 0] OBVIOUS
<1>8. h \in Jobs /\ h.accepted = J.accepted /\ h.evaluation = J.evaluation /\ h.attempts = 0
  BY <1>6, <1>7, SemanticNats DEF Jobs
<1>9. PICK j : j = [h EXCEPT !.due = TRUE] OBVIOUS
<1>10. j \in Jobs /\ j.accepted = J.accepted /\ j.evaluation = J.evaluation /\ j.attempts = 0
  BY <1>8, <1>9 DEF Jobs
<1>11. semJob' = [semJob EXCEPT ![w] = j]
  <2>1. semJob \in [Semantic!Watches -> {Semantic!NoJob} \cup Jobs] BY DEF SemanticInv, SemanticTypes
  <2>2. PICK f : f = [semJob EXCEPT ![w] = i] OBVIOUS
  <2>3. f = [semJob EXCEPT ![w].epoch = @ + 1] BY <1>2, <1>4, <1>5, <2>1, <2>2
  <2>4. PICK g : g = [semJob EXCEPT ![w] = h] OBVIOUS
  <2>5. g = [f EXCEPT ![w].attempts = 0] BY <1>7, <2>1, <2>2, <2>4
  <2>6. semJob' = [g EXCEPT ![w].due = TRUE] BY <1>1, <2>3, <2>5
  <2> QED BY <1>9, <2>1, <2>4, <2>6
<1>12. /\ semJob' \in [Semantic!Watches -> {Semantic!NoJob} \cup Jobs] /\ semJob'[w] = j
       /\ \A v \in Semantic!Watches : v # w => semJob'[v] = semJob[v]
  BY <1>10, <1>11 DEF SemanticInv, SemanticTypes
<1>13. /\ semCalls' \in [Semantic!Watches -> Nat] /\ semCalls'[w] = 0
       /\ \A v \in Semantic!Watches : v # w => semCalls'[v] = semCalls[v]
  BY <1>1 DEF SemanticInv, SemanticTypes
<1>14. SemanticTypes' BY <1>1, <1>12, <1>13 DEF SemanticInv, SemanticTypes
<1>15. PassIsPending'
  <2>1. j # Semantic!NoJob BY <1>10, JobIsAJob
  <2>2. semCursor.pending # 0 => semCursor.pending \in Semantic!Watches
    BY SemanticTyped, SemanticNats DEF Semantic!Watches
  <2> QED BY <1>1, <1>12, <2>1, <2>2 DEF SemanticInv, PassIsPending
<1>16. EvaluationIsPending' BY <1>1, <1>2, <1>10, <1>12 DEF SemanticInv, EvaluationIsPending
<1>17. CallsAreReserved' BY <1>1, <1>10, <1>12, <1>13 DEF SemanticInv, CallsAreReserved
<1> QED BY <1>14, <1>15, <1>16, <1>17 DEF SemanticInv

LEMMA SemanticRetryIsDue ==
  ASSUME SemanticInv, NEW w \in Semantic!Watches, Semantic!RetryIsDue(w) PROVE SemanticInv'
<1>1. /\ UNCHANGED <<semCursor, semWatch, committed, pass, semCalls>>
      /\ semJob[w] # Semantic!NoJob /\ semJob' = [semJob EXCEPT ![w].due = TRUE]
  BY DEF Semantic!RetryIsDue, Semantic!native
<1>2. PICK J \in Jobs : J = semJob[w] BY <1>1 DEF SemanticInv, SemanticTypes
<1>3. PICK j : j = [J EXCEPT !.due = TRUE] OBVIOUS
<1>4. /\ j \in Jobs /\ j.accepted = J.accepted /\ j.evaluation = J.evaluation
      /\ j.attempts = J.attempts
  BY <1>3 DEF Jobs
<1>5. semJob' = [semJob EXCEPT ![w] = j] BY <1>1, <1>2, <1>3 DEF SemanticInv, SemanticTypes
<1>6. /\ semJob' \in [Semantic!Watches -> {Semantic!NoJob} \cup Jobs] /\ semJob'[w] = j
      /\ \A v \in Semantic!Watches : v # w => semJob'[v] = semJob[v]
  BY <1>4, <1>5 DEF SemanticInv, SemanticTypes
<1>7. SemanticTypes' BY <1>1, <1>6 DEF SemanticInv, SemanticTypes
<1>8. pass.w # 0 => pass.w \in Semantic!Watches
  BY SemanticTyped, SemanticNats DEF Semantic!Watches
<1>9. semCursor.pending # 0 => semCursor.pending \in Semantic!Watches
  BY SemanticTyped, SemanticNats DEF Semantic!Watches
<1>10. j # Semantic!NoJob BY <1>4, JobIsAJob
<1>11. PassIsPending' BY <1>1, <1>6, <1>8, <1>9, <1>10 DEF SemanticInv, PassIsPending
<1>12. pass.at \notin {"idle", "page"} => pass.w # 0 BY DEF SemanticInv, PassIsPending
<1>13. EvaluationIsPending'
  BY <1>1, <1>2, <1>4, <1>6, <1>8, <1>12 DEF SemanticInv, EvaluationIsPending
<1>14. CallsAreReserved' BY <1>1, <1>2, <1>4, <1>6, <1>8, <1>12 DEF SemanticInv, CallsAreReserved
<1> QED BY <1>7, <1>11, <1>13, <1>14 DEF SemanticInv

LEMMA SemanticEditWatch ==
  ASSUME SemanticInv, NEW w \in Semantic!Watches, Semantic!EditWatch(w) PROVE SemanticInv'
<1>1. UNCHANGED <<semCursor, semJob, committed, pass, semCalls>> BY DEF Semantic!EditWatch
<1>2. PICK b \in BOOLEAN : semWatch' = [semWatch EXCEPT ![w] = [version |-> @.version + 1, armed |-> b]]
  BY DEF Semantic!EditWatch
<1>3. semWatch[w].version + 1 \in 1..MaxVersion
  BY SemanticNats DEF Semantic!EditWatch, SemanticInv, SemanticTypes
<1>4. semWatch' \in [Semantic!Watches -> [version : 1..MaxVersion, armed : BOOLEAN]]
  BY <1>2, <1>3 DEF SemanticInv, SemanticTypes
<1>5. SemanticTypes' BY <1>1, <1>4 DEF SemanticInv, SemanticTypes
<1>6. PassIsPending' BY <1>1 DEF SemanticInv, PassIsPending
<1>7. EvaluationIsPending' BY <1>1 DEF SemanticInv, EvaluationIsPending
<1>8. CallsAreReserved' BY <1>1 DEF SemanticInv, CallsAreReserved
<1> QED BY <1>5, <1>6, <1>7, <1>8 DEF SemanticInv

\* Every step of semantic watches preserves their invariant.
LEMMA SemanticStep ==
  ASSUME SemanticInv, Semantic!Next \/ UNCHANGED semanticVars PROVE SemanticInv'
<1>1. CASE UNCHANGED semanticVars
  BY <1>1 DEF semanticVars, SemanticInv, SemanticTypes, PassIsPending, EvaluationIsPending,
              CallsAreReserved
<1>2. CASE Semantic!Crash \/ Semantic!AmbiguousFailure
  BY <1>2, PassEnds DEF Semantic!Crash, Semantic!AmbiguousFailure, Semantic!native
<1>3. CASE Semantic!PassStep
  BY <1>3, SemanticPassBegin, SemanticTakeRow, SemanticSavePending, SemanticEndPass, SemanticReleased,
     SemanticSkipJob, SemanticPrepareTicket, SemanticReserve, SemanticAskModel,
     SemanticSaveEvaluation, SemanticCommit, SemanticSaveOutcome DEF Semantic!PassStep
<1>4. CASE \E w \in Semantic!Watches : Semantic!Retry(w) \/ Semantic!EditWatch(w) \/ Semantic!RetryIsDue(w)
  BY <1>4, SemanticRetry, SemanticEditWatch, SemanticRetryIsDue
<1> QED BY <1>1, <1>2, <1>3, <1>4 DEF Semantic!Next

\* What the invariant of semantic watches is for.
LEMMA SemanticInvImplies ==
  ASSUME SemanticInv
  PROVE  Semantic!TypeOK /\ Semantic!SpendIsBounded /\ Semantic!StoredIsPending
<1>1. \A w \in Semantic!Watches : semJob[w] # Semantic!NoJob =>
        /\ semJob[w].attempts \in 0..AttemptsPerPage /\ semJob[w].epoch \in 0..MaxEpoch
        /\ semCalls[w] \in Nat /\ semCalls[w] <= semJob[w].attempts
  BY DEF SemanticInv, SemanticTypes, CallsAreReserved, Jobs
<1>2. Semantic!TypeOK
  BY <1>1, SemanticTyped DEF SemanticInv, SemanticTypes, Semantic!TypeOK
<1>3. Semantic!SpendIsBounded BY <1>1, SemanticNats DEF Semantic!SpendIsBounded
<1>4. Semantic!StoredIsPending BY DEF SemanticInv, EvaluationIsPending, Semantic!StoredIsPending
<1> QED BY <1>2, <1>3, <1>4

(***************************************************************************)
(* The services together.                                                  *)
(***************************************************************************)

\* A step of the services is a step of each of them, or leaves it alone.
LEMMA ServiceStep ==
  ASSUME Next \/ UNCHANGED vars
  PROVE  /\ Semantic!Next \/ UNCHANGED semanticVars
         /\ Record!Next \/ UNCHANGED recordVars
         /\ Host!Next \/ UNCHANGED hostVars
         /\ Gate!Next \/ UNCHANGED gateVars
<1>1. CASE UNCHANGED vars BY <1>1 DEF vars
<1>2. CASE Next BY <1>2, Zenon DEF Next
<1> QED BY <1>1, <1>2

\* However passes crash, fail ambiguously or are retried, a page asks the model
\* at most as often as it may and a paid evaluation stays pending until its
\* outcome is saved; a recorded watch is granted and armed at most once: for
\* any number of watches, attempts, operations and versions (semantic/runtime.rs,
\* runtime_api/watches.rs).
THEOREM WatchesSpendOnceTheorem == Spec => []WatchesSpendOnce
<1>1. Init => SemanticInv /\ RecordInv BY SemanticInit, RecordInit DEF Init
<1>2. SemanticInv /\ RecordInv /\ [Next]_vars => (SemanticInv /\ RecordInv)'
  BY ServiceStep, SemanticStep, RecordStep
<1>3. SemanticInv /\ RecordInv => WatchesSpendOnce
  BY SemanticInvImplies, RecordInvImplies DEF WatchesSpendOnce
<1> QED BY <1>1, <1>2, <1>3, PTL DEF Spec

\* One instance of a Space owns its database, no request loses its Space to the
\* eviction, and a dead or narrower token admits nobody to more than it was
\* minted for: for any number of loaders, slots, tokens and requests (space.rs,
\* runtime.rs, tokens.rs, authz.rs).
THEOREM ServedByItsOwnerTheorem == Spec => []ServedByItsOwner
<1>1. Init => HostInv /\ GateInv BY HostInit, GateInit DEF Init
<1>2. HostInv /\ GateInv /\ [Next]_vars => (HostInv /\ GateInv)'
  BY ServiceStep, HostStep, GateStep
<1>3. HostInv /\ GateInv => ServedByItsOwner
  BY HostInvImplies, GateInvImplies DEF ServedByItsOwner
<1> QED BY <1>1, <1>2, <1>3, PTL DEF Spec

(***************************************************************************)
(* The directory of watches: what AttentionProofs shows of each of its two *)
(* instances.                                                              *)
(***************************************************************************)
PagesDirectory == INSTANCE AttentionProofs WITH
  Spaces <- Homes, NumWatches <- PagedWatches, MaxSlots <- PagedSlots,
  RecheckKeys <- {}, Reviews <- {}, Broken <- {}, Ops <- PagedOps, Faults <- PagedFaults

ChangesDirectory == INSTANCE AttentionProofs WITH
  Spaces <- Homes, NumWatches <- ChangedWatches, MaxSlots <- ChangedSlots,
  Ops <- ChangedOps, Faults <- ChangedFaults

\* The instance that is run and the one that is proved about are the same.
LEMMA PagesProved ==
  /\ Pages!Init <=> PagesDirectory!Init
  /\ Pages!Next <=> PagesDirectory!Next
  /\ Pages!TypeOK <=> PagesDirectory!TypeOK
  /\ Pages!ArmedIsListed <=> PagesDirectory!ArmedIsListed
  /\ Pages!ReconciledIsScanned <=> PagesDirectory!ReconciledIsScanned
BY Zenon DEF
    Pages!Watches, Pages!Slots, Pages!Pins, Pages!NoEntry, Pages!NoSpace, Pages!Review,
    Pages!store, Pages!native, Pages!FreshCheckpoint, Pages!Complete, Pages!NoTask,
    Pages!NoTick, Pages!Registered, Pages!Init, Pages!Idle, Pages!Begin, Pages!PinsAgree,
    Pages!Allocate, Pages!Refuse, Pages!NewEntry, Pages!PutEntry, Pages!PutIndex,
    Pages!SetConfig, Pages!Edited, Pages!Done, Pages!ArmWatch, Pages!ArchiveWatch,
    Pages!SetEnabled, Pages!Announced, Pages!QueueIsFull, Pages!RecheckKey,
    Pages!ScheduleRecheck, Pages!AcknowledgeRecheck, Pages!NoticeRead, Pages!NothingToDo,
    Pages!ScanBegin, Pages!Armed, Pages!Runnable, Pages!Beyond, Pages!Least, Pages!AdvanceWatch,
    Pages!EndRunnable, Pages!ScanAll, Pages!WakeOutcomes, Pages!ProcessWake, Pages!EndWakes,
    Pages!Late, Pages!ScanFails, Pages!Finish, Pages!Page, Pages!TickBegin, Pages!Slot,
    Pages!Visiting, Pages!Listed, Pages!Due, Pages!SkipSlot, Pages!LoadFails, Pages!Visit,
    Pages!HintRefused, Pages!TickScan, Pages!NextSlot, Pages!AdvanceCursor, Pages!TimePasses,
    Pages!Crash, Pages!DirectScan, Pages!SpaceStep, Pages!TickStep, Pages!Next,
    Pages!Checkpoints, Pages!TypeOK, Pages!ArmedIsListed, Pages!ReconciledIsScanned,
    Pages!Cardinality, Pages!IsFiniteSet, PagesDirectory!Watches, PagesDirectory!Slots,
    PagesDirectory!Pins, PagesDirectory!NoEntry, PagesDirectory!NoSpace, PagesDirectory!Review,
    PagesDirectory!store, PagesDirectory!native, PagesDirectory!FreshCheckpoint,
    PagesDirectory!Complete, PagesDirectory!NoTask, PagesDirectory!NoTick,
    PagesDirectory!Registered, PagesDirectory!Init, PagesDirectory!Idle, PagesDirectory!Begin,
    PagesDirectory!PinsAgree, PagesDirectory!Allocate, PagesDirectory!Refuse,
    PagesDirectory!NewEntry, PagesDirectory!PutEntry, PagesDirectory!PutIndex,
    PagesDirectory!SetConfig, PagesDirectory!Edited, PagesDirectory!Done,
    PagesDirectory!ArmWatch, PagesDirectory!ArchiveWatch, PagesDirectory!SetEnabled,
    PagesDirectory!Announced, PagesDirectory!QueueIsFull, PagesDirectory!RecheckKey,
    PagesDirectory!ScheduleRecheck, PagesDirectory!AcknowledgeRecheck,
    PagesDirectory!NoticeRead, PagesDirectory!NothingToDo, PagesDirectory!ScanBegin,
    PagesDirectory!Armed, PagesDirectory!Runnable, PagesDirectory!Beyond, PagesDirectory!Least,
    PagesDirectory!AdvanceWatch, PagesDirectory!EndRunnable, PagesDirectory!ScanAll,
    PagesDirectory!WakeOutcomes, PagesDirectory!ProcessWake, PagesDirectory!EndWakes,
    PagesDirectory!Late, PagesDirectory!ScanFails, PagesDirectory!Finish, PagesDirectory!Page,
    PagesDirectory!TickBegin, PagesDirectory!Slot, PagesDirectory!Visiting,
    PagesDirectory!Listed, PagesDirectory!Due, PagesDirectory!SkipSlot,
    PagesDirectory!LoadFails, PagesDirectory!Visit, PagesDirectory!HintRefused,
    PagesDirectory!TickScan, PagesDirectory!NextSlot, PagesDirectory!AdvanceCursor,
    PagesDirectory!TimePasses, PagesDirectory!Crash, PagesDirectory!DirectScan,
    PagesDirectory!SpaceStep, PagesDirectory!TickStep, PagesDirectory!Next,
    PagesDirectory!Checkpoints, PagesDirectory!TypeOK, PagesDirectory!ArmedIsListed,
    PagesDirectory!ReconciledIsScanned, PagesDirectory!Cardinality, PagesDirectory!IsFiniteSet

LEMMA ChangesProved ==
  /\ Changes!Init <=> ChangesDirectory!Init
  /\ Changes!Next <=> ChangesDirectory!Next
  /\ Changes!TypeOK <=> ChangesDirectory!TypeOK
  /\ Changes!ArmedIsListed <=> ChangesDirectory!ArmedIsListed
  /\ Changes!ReconciledIsScanned <=> ChangesDirectory!ReconciledIsScanned
BY Zenon DEF
    Changes!Watches, Changes!Slots, Changes!Pins, Changes!NoEntry, Changes!NoSpace,
    Changes!Review, Changes!store, Changes!native, Changes!FreshCheckpoint, Changes!Complete,
    Changes!NoTask, Changes!NoTick, Changes!Registered, Changes!Init, Changes!Idle,
    Changes!Begin, Changes!PinsAgree, Changes!Allocate, Changes!Refuse, Changes!NewEntry,
    Changes!PutEntry, Changes!PutIndex, Changes!SetConfig, Changes!Edited, Changes!Done,
    Changes!ArmWatch, Changes!ArchiveWatch, Changes!SetEnabled, Changes!Announced,
    Changes!QueueIsFull, Changes!RecheckKey, Changes!ScheduleRecheck,
    Changes!AcknowledgeRecheck, Changes!NoticeRead, Changes!NothingToDo, Changes!ScanBegin,
    Changes!Armed, Changes!Runnable, Changes!Beyond, Changes!Least, Changes!AdvanceWatch,
    Changes!EndRunnable, Changes!ScanAll, Changes!WakeOutcomes, Changes!ProcessWake,
    Changes!EndWakes, Changes!Late, Changes!ScanFails, Changes!Finish, Changes!Page,
    Changes!TickBegin, Changes!Slot, Changes!Visiting, Changes!Listed, Changes!Due,
    Changes!SkipSlot, Changes!LoadFails, Changes!Visit, Changes!HintRefused, Changes!TickScan,
    Changes!NextSlot, Changes!AdvanceCursor, Changes!TimePasses, Changes!Crash,
    Changes!DirectScan, Changes!SpaceStep, Changes!TickStep, Changes!Next, Changes!Checkpoints,
    Changes!TypeOK, Changes!ArmedIsListed, Changes!ReconciledIsScanned, Changes!Cardinality,
    Changes!IsFiniteSet, ChangesDirectory!Watches, ChangesDirectory!Slots,
    ChangesDirectory!Pins, ChangesDirectory!NoEntry, ChangesDirectory!NoSpace,
    ChangesDirectory!Review, ChangesDirectory!store, ChangesDirectory!native,
    ChangesDirectory!FreshCheckpoint, ChangesDirectory!Complete, ChangesDirectory!NoTask,
    ChangesDirectory!NoTick, ChangesDirectory!Registered, ChangesDirectory!Init,
    ChangesDirectory!Idle, ChangesDirectory!Begin, ChangesDirectory!PinsAgree,
    ChangesDirectory!Allocate, ChangesDirectory!Refuse, ChangesDirectory!NewEntry,
    ChangesDirectory!PutEntry, ChangesDirectory!PutIndex, ChangesDirectory!SetConfig,
    ChangesDirectory!Edited, ChangesDirectory!Done, ChangesDirectory!ArmWatch,
    ChangesDirectory!ArchiveWatch, ChangesDirectory!SetEnabled, ChangesDirectory!Announced,
    ChangesDirectory!QueueIsFull, ChangesDirectory!RecheckKey, ChangesDirectory!ScheduleRecheck,
    ChangesDirectory!AcknowledgeRecheck, ChangesDirectory!NoticeRead,
    ChangesDirectory!NothingToDo, ChangesDirectory!ScanBegin, ChangesDirectory!Armed,
    ChangesDirectory!Runnable, ChangesDirectory!Beyond, ChangesDirectory!Least,
    ChangesDirectory!AdvanceWatch, ChangesDirectory!EndRunnable, ChangesDirectory!ScanAll,
    ChangesDirectory!WakeOutcomes, ChangesDirectory!ProcessWake, ChangesDirectory!EndWakes,
    ChangesDirectory!Late, ChangesDirectory!ScanFails, ChangesDirectory!Finish,
    ChangesDirectory!Page, ChangesDirectory!TickBegin, ChangesDirectory!Slot,
    ChangesDirectory!Visiting, ChangesDirectory!Listed, ChangesDirectory!Due,
    ChangesDirectory!SkipSlot, ChangesDirectory!LoadFails, ChangesDirectory!Visit,
    ChangesDirectory!HintRefused, ChangesDirectory!TickScan, ChangesDirectory!NextSlot,
    ChangesDirectory!AdvanceCursor, ChangesDirectory!TimePasses, ChangesDirectory!Crash,
    ChangesDirectory!DirectScan, ChangesDirectory!SpaceStep, ChangesDirectory!TickStep,
    ChangesDirectory!Next, ChangesDirectory!Checkpoints, ChangesDirectory!TypeOK,
    ChangesDirectory!ArmedIsListed, ChangesDirectory!ReconciledIsScanned,
    ChangesDirectory!Cardinality, ChangesDirectory!IsFiniteSet

WatchInv ==
  /\ focus = "pages" => PagesDirectory!DirectoryInv
  /\ focus = "changes" => ChangesDirectory!DirectoryInv

LEMMA DirectoriesSized == PagesDirectory!Sized /\ ChangesDirectory!Sized
BY DirectoryAssumption, Zenon
DEF Pages!Sized, PagesDirectory!Sized, Changes!Sized, ChangesDirectory!Sized,
    Pages!NoSpace, PagesDirectory!NoSpace, Changes!NoSpace, ChangesDirectory!NoSpace

LEMMA WatchInit == Init => WatchInv
<1> SUFFICES ASSUME Init PROVE WatchInv OBVIOUS
<1>1. ASSUME focus = "pages" PROVE PagesDirectory!DirectoryInv
  <2>1. Pages!Init BY <1>1 DEF Init
  <2>2. PagesDirectory!Init BY <2>1, PagesProved
  <2> QED BY <2>2, DirectoriesSized, PagesDirectory!DirectoryStarts
<1>2. ASSUME focus = "changes" PROVE ChangesDirectory!DirectoryInv
  <2>1. Changes!Init BY <1>2 DEF Init
  <2>2. ChangesDirectory!Init BY <2>1, ChangesProved
  <2> QED BY <2>2, DirectoriesSized, ChangesDirectory!DirectoryStarts
<1> QED BY <1>1, <1>2 DEF WatchInv

LEMMA WatchStep == ASSUME WatchInv, Next \/ UNCHANGED vars PROVE WatchInv'
<1>1. /\ focus' = focus
      /\ focus = "pages" => Pages!Next \/ UNCHANGED attentionVars
      /\ focus = "changes" => Changes!Next \/ UNCHANGED attentionVars
  <2>1. CASE UNCHANGED vars BY <2>1 DEF vars
  <2>2. CASE Next
    <3>1. focus' = focus BY <2>2, Zenon DEF Next
    <3>2. ASSUME focus = "pages" PROVE Pages!Next \/ UNCHANGED attentionVars BY <2>2, <3>2 DEF Next
    <3>3. ASSUME focus = "changes" PROVE Changes!Next \/ UNCHANGED attentionVars BY <2>2, <3>3 DEF Next
    <3> QED BY <3>1, <3>2, <3>3
  <2> QED BY <2>1, <2>2
<1>2. ASSUME focus = "pages" PROVE PagesDirectory!DirectoryInv'
  <2>1. PagesDirectory!DirectoryInv BY <1>2 DEF WatchInv
  <2>2. CASE Pages!Next
    <3>1. PagesDirectory!Next BY <2>2, PagesProved
    <3> QED BY <2>1, <3>1, DirectoriesSized, PagesDirectory!DirectoryKeeps
  <2>3. CASE UNCHANGED attentionVars
    <3>1. UNCHANGED PagesDirectory!vars BY <2>3 DEF attentionVars, PagesDirectory!vars
    <3> QED BY <2>1, <3>1, PagesDirectory!DirectoryStill
  <2> QED BY <1>1, <1>2, <2>2, <2>3
<1>3. ASSUME focus = "changes" PROVE ChangesDirectory!DirectoryInv'
  <2>1. ChangesDirectory!DirectoryInv BY <1>3 DEF WatchInv
  <2>2. CASE Changes!Next
    <3>1. ChangesDirectory!Next BY <2>2, ChangesProved
    <3> QED BY <2>1, <3>1, DirectoriesSized, ChangesDirectory!DirectoryKeeps
  <2>3. CASE UNCHANGED attentionVars
    <3>1. UNCHANGED ChangesDirectory!vars BY <2>3 DEF attentionVars, ChangesDirectory!vars
    <3> QED BY <2>1, <3>1, ChangesDirectory!DirectoryStill
  <2> QED BY <1>1, <1>3, <2>2, <2>3
<1> QED BY <1>1, <1>2, <1>3 DEF WatchInv

\* Armed work can be found after a restart, and a generation is acknowledged only
\* by a scan that looked at every runnable watch armed in it: over any number of
\* Spaces, watches, slots, pages, edits and rechecks, with crashes, upgrades, late
\* and failed native passes and Spaces that do not load (attention/catalog.rs,
\* attention.rs).
THEOREM WatchesAreScannedTheorem == Spec => []WatchesAreScanned
<1>1. Init => WatchInv BY WatchInit
<1>2. WatchInv /\ [Next]_vars => WatchInv' BY WatchStep
<1>3. WatchInv => WatchesAreScanned
  <2> SUFFICES ASSUME WatchInv PROVE WatchesAreScanned OBVIOUS
  <2>1. ASSUME focus = "pages" PROVE Pages!TypeOK /\ Pages!ArmedIsListed /\ Pages!ReconciledIsScanned
    <3>1. PagesDirectory!DirectoryInv BY <2>1 DEF WatchInv
    <3> QED BY <3>1, DirectoriesSized, PagesDirectory!DirectoryIsSafe, PagesProved
  <2>2. ASSUME focus = "changes" PROVE Changes!TypeOK /\ Changes!ArmedIsListed /\ Changes!ReconciledIsScanned
    <3>1. ChangesDirectory!DirectoryInv BY <2>2 DEF WatchInv
    <3> QED BY <3>1, DirectoriesSized, ChangesDirectory!DirectoryIsSafe, ChangesProved
  <2> QED BY <2>1, <2>2 DEF WatchesAreScanned
<1> QED BY <1>1, <1>2, <1>3, PTL DEF Spec
=============================================================================
