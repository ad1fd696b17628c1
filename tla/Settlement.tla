----------------------------- MODULE Settlement -----------------------------
(***************************************************************************)
(* The settlement a Space runs before a maintenance cycle: the discovery   *)
(* of superseded Assertions behind a durable cursor, the count of          *)
(* corrections per source, and the due Commitments it raises.              *)
(*                                                                         *)
(* The cursor and the counts live in the metadata of the database: a write *)
(* changes the copy in memory, a flush makes it durable, and a crash falls *)
(* back to the last flush.  The usage ledger is a collection, durable with *)
(* each write.  settlement_lock lets one settlement run at a time.         *)
(***************************************************************************)
EXTENDS Naturals, FiniteSets

CONSTANTS
    NumAssertions,    \* Assertions numbered in the order of their ids
    Batch,            \* SETTLEMENT_BATCH_LIMIT
    RootsLimit,       \* REVISED_ROOTS_LIMIT
    MaxSeq,           \* bound on superseding transactions
    NumCommitments,
    ReviewLimit,      \* COMMITMENT_REVIEW_LIMIT
    MaxTime,          \* bound on the clock and on due times
    Faults            \* subset of {"crash", "read", "write"}

Assertions == 1..NumAssertions
Commitments == 1..NumCommitments

VARIABLES
    seq,          \* the last transaction of the Space
    at,           \* the transaction that last wrote a superseded Assertion, 0 for none
    ledger,       \* Assertions whose correction_count is 1
    meta,         \* metadata in memory: [cursor, counts]
    disk,         \* metadata as last flushed
    now,
    commitment,   \* [open, due, watched] of each Commitment
    raised,       \* commitment_review keys: <<commitment, due_at>>
    cycle,        \* the settlement that holds the lock
    handed        \* Assertions whose dependents a cycle was handed for review (revised_roots)

vars == <<seq, at, ledger, meta, disk, now, commitment, raised, cycle, handed>>

Start == [seq |-> 0, after |-> 0]
NoCycle == [at |-> "idle", rows |-> {}, next |-> Start, due |-> {}, roots |-> {}]

Init ==
    /\ seq = 0
    /\ at = [a \in Assertions |-> 0]
    /\ ledger = {}
    /\ meta = [cursor |-> Start, counts |-> [a \in Assertions |-> 0]]
    /\ disk = meta
    /\ now = 0
    /\ commitment \in [Commitments -> [open : {TRUE}, due : 1..MaxTime, watched : {FALSE}]]
    /\ raised = {}
    /\ cycle = NoCycle
    /\ handed = {}

graph == <<seq, at>>
promises == <<now, commitment, raised>>

(***************************************************************************)
(* What other writers do to the graph.                                     *)
(***************************************************************************)
\* One transaction supersedes some Assertions, or writes superseded ones again.
Supersede(S) ==
    /\ S # {} /\ seq < MaxSeq
    /\ seq' = seq + 1
    /\ at' = [a \in Assertions |-> IF a \in S THEN seq + 1 ELSE at[a]]
    /\ UNCHANGED <<ledger, meta, disk, promises, cycle, handed>>

TimePasses ==
    /\ now < MaxTime
    /\ now' = now + 1
    /\ UNCHANGED <<graph, ledger, meta, disk, commitment, raised, cycle, handed>>

\* A Commitment is closed, put under a Watch or given a later due time.
EditCommitment(c) ==
    /\ commitment[c].open
    /\ \/ commitment' = [commitment EXCEPT ![c].open = FALSE]
       \/ commitment' = [commitment EXCEPT ![c].watched = ~@]
       \/ \E d \in (commitment[c].due + 1)..MaxTime : commitment' = [commitment EXCEPT ![c].due = d]
    /\ UNCHANGED <<graph, ledger, meta, disk, now, raised, cycle, handed>>

(***************************************************************************)
(* The settlement.                                                         *)
(***************************************************************************)
Before(r, s) == r.seq < s.seq \/ (r.seq = s.seq /\ r.id < s.id)
Beyond(row, cursor) ==
    \/ row.seq > cursor.seq
    \/ row.seq = cursor.seq /\ cursor.after # 0 /\ row.id > cursor.after

Backlog(cursor) ==
    {row \in {[seq |-> at[a], id |-> a] : a \in {b \in Assertions : at[b] # 0}} : Beyond(row, cursor)}

\* The rows of a scan are read and recorded in the order of their transactions and ids.
Page(all) == {row \in all : Cardinality({r \in all : Before(r, row)}) < Batch}
LastRow(rows) == CHOOSE row \in rows : \A r \in rows : r = row \/ Before(r, row)

\* Mutant: a full page is taken to end with its last transaction.
PageEndOfWholeTransaction(rows, cursor) ==
    IF rows # {} THEN [seq |-> LastRow(rows).seq, after |-> 0] ELSE [seq |-> cursor.seq, after |-> 0]

\* Where a page of the scan leaves the cursor: inside its last transaction when the page is full.
PageEnd(rows, cursor) ==
    IF rows # {}
    THEN [seq |-> LastRow(rows).seq, after |-> IF Cardinality(rows) = Batch THEN LastRow(rows).id ELSE 0]
    ELSE [seq |-> cursor.seq, after |-> 0]

\* revised_roots: of the rows of a page only the first are walked for their dependents.
RevisedRoots(rows) ==
    {row.id : row \in {r \in rows : Cardinality({x \in rows : Before(x, r)}) < RootsLimit}}

\* The lock is taken, one page is read and the first of its rows go into the report; a page
\* that cannot be read leaves the cursor alone.
ScanCorrections ==
    /\ cycle.at = "idle"
    /\ LET rows == Page(Backlog(meta.cursor))
       IN \/ cycle' = [NoCycle EXCEPT !.at = "record", !.rows = rows,
                                      !.next = PageEnd(rows, meta.cursor), !.roots = RevisedRoots(rows)]
          \/ /\ "read" \in Faults
             /\ cycle' = [NoCycle EXCEPT !.at = "record", !.next = meta.cursor]
    /\ UNCHANGED <<graph, ledger, meta, disk, promises, handed>>

\* Mutant: every row is counted.
RecordCorrectionAgain(a) ==
    /\ ledger' = ledger \union {a}
    /\ meta' = [meta EXCEPT !.counts[a] = @ + 1]

\* record_correction answers TRUE once for an Assertion; only then is its source counted.
RecordCorrection(a) ==
    /\ ledger' = ledger \union {a}
    /\ meta' = IF a \in ledger THEN meta ELSE [meta EXCEPT !.counts[a] = @ + 1]

RecordRow ==
    /\ cycle.at = "record"
    /\ \E row \in cycle.rows :
         /\ \A r \in cycle.rows : r = row \/ Before(row, r)
         /\ RecordCorrection(row.id)
         /\ cycle' = [cycle EXCEPT !.rows = @ \ {row}]
    /\ UNCHANGED <<graph, disk, promises, handed>>

\* A ledger write that fails ends the settlement with an error, the cursor where it was.
RecordFails ==
    /\ "write" \in Faults
    /\ cycle.at = "record" /\ cycle.rows # {}
    /\ cycle' = NoCycle
    /\ UNCHANGED <<graph, ledger, meta, disk, promises, handed>>

MoveCursor ==
    /\ cycle.at = "record" /\ cycle.rows = {}
    /\ meta' = [meta EXCEPT !.cursor = cycle.next]
    /\ cycle' = [cycle EXCEPT !.at = "due"]
    /\ UNCHANGED <<graph, ledger, disk, promises, handed>>

IsDue(c) == commitment[c].open /\ ~commitment[c].watched /\ commitment[c].due <= now
Earlier(d, e) == d[2] < e[2] \/ (d[2] = e[2] /\ d[1] < e[1])

\* The due Commitments without a Watch, with their due times, as many as one cycle reviews.
ReadDue ==
    /\ cycle.at = "due"
    /\ LET all == {<<c, commitment[c].due>> : c \in {d \in Commitments : IsDue(d)}}
           page == {d \in all : Cardinality({e \in all : Earlier(e, d)}) < ReviewLimit}
       IN cycle' = [cycle EXCEPT !.at = "raise", !.due = page]
    /\ UNCHANGED <<graph, ledger, meta, disk, promises, handed>>

\* One review Activity under the client key of the Commitment and its due time; a replay has no
\* effect, and a refused one is reported and passed over.
RaiseDue ==
    /\ cycle.at = "raise"
    /\ \E d \in cycle.due :
         /\ \A e \in cycle.due : e = d \/ Earlier(d, e)
         /\ \/ raised' = raised \union {d}
            \/ "write" \in Faults /\ UNCHANGED raised
         /\ cycle' = [cycle EXCEPT !.due = @ \ {d}]
    /\ UNCHANGED <<graph, ledger, meta, disk, now, commitment, handed>>

\* The report is stored and the metadata flushed; a flush that fails is passed over.  The
\* maintenance cycle is handed the report.
Finish ==
    /\ cycle.at = "raise" /\ cycle.due = {}
    /\ disk' = meta \/ ("write" \in Faults /\ UNCHANGED disk)
    /\ handed' = handed \union cycle.roots
    /\ cycle' = NoCycle
    /\ UNCHANGED <<graph, ledger, meta, promises>>

\* Every other operation that flushes the metadata of the Space.
OtherFlush ==
    /\ disk # meta
    /\ disk' = meta
    /\ UNCHANGED <<graph, ledger, meta, promises, cycle, handed>>

Crash ==
    /\ "crash" \in Faults
    /\ meta' = disk
    /\ cycle' = NoCycle
    /\ UNCHANGED <<graph, ledger, disk, promises, handed>>

Settle == ScanCorrections \/ RecordRow \/ RecordFails \/ MoveCursor \/ ReadDue \/ RaiseDue \/ Finish

Next ==
    \/ \E S \in SUBSET Assertions : Supersede(S)
    \/ TimePasses
    \/ \E c \in Commitments : EditCommitment(c)
    \/ Settle
    \/ OtherFlush \/ Crash

Spec == Init /\ [][Next]_vars

-----------------------------------------------------------------------------
Cursors == [seq : 0..MaxSeq, after : 0..NumAssertions]
Metas == [cursor : Cursors, counts : [Assertions -> 0..MaxSeq]]

TypeOK ==
    /\ seq \in 0..MaxSeq
    /\ at \in [Assertions -> 0..MaxSeq]
    /\ ledger \subseteq Assertions
    /\ meta \in Metas /\ disk \in Metas
    /\ now \in 0..MaxTime
    /\ commitment \in [Commitments -> [open : BOOLEAN, due : 1..MaxTime, watched : BOOLEAN]]
    /\ raised \subseteq Commitments \X (1..MaxTime)
    /\ cycle.at \in {"idle", "record", "due", "raise"}
    /\ cycle.next \in Cursors
    /\ handed \subseteq Assertions

\* No correction goes uncounted: a superseded Assertion that the cursor, in memory or as it would
\* be found after a crash, has left behind is in the usage ledger, whatever pages were cut inside
\* a transaction, failed half way or were scanned twice (scan_corrections, settle_memory_metabolism).
\* It need not have been handed to a review: only the first RootsLimit of a page are.
CorrectionsAreCovered ==
    \A cursor \in {meta.cursor, disk.cursor} : \A a \in Assertions :
        at[a] # 0 /\ ~Beyond([seq |-> at[a], id |-> a], cursor) => a \in ledger

\* A page that is scanned again after an error or a crash, and an Assertion that a later
\* transaction writes again, count no second correction against their source (record_correction).
CountedOnce == \A a \in Assertions : meta.counts[a] <= 1 /\ disk.counts[a] <= meta.counts[a]

\* A cycle reviews the dependents of corrections that were counted: a settlement that stops on
\* its way hands over none of the roots it had read (settle_memory_metabolism).
HandedAreCounted == handed \subseteq ledger

\* No Commitment is raised before the due time its key names, although it is put off, closed or
\* put under a Watch between the read of the due ones and the write (raise_due_commitments).
RaisedWereDue == \A d \in raised : d[2] <= now

=============================================================================
