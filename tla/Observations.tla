---------------------------- MODULE Observations ----------------------------
(***************************************************************************)
(* The observation journal: authenticated outcomes of an attempt become    *)
(* stored receipts, native evidence and entries of an append-only index    *)
(* that consumers walk behind cursors of their own.                        *)
(*                                                                         *)
(* Submissions and the safety consumer hold the gate of the runtime, the   *)
(* pages of the index are read without it.  An operation is the list of    *)
(* durable writes it still has to make; an error or a crash between two of *)
(* them drops the rest, and only a retry of the observer takes it up.      *)
(* Every event is about one attempt.                                       *)
(***************************************************************************)
EXTENDS Naturals, Sequences, FiniteSets

CONSTANTS
    Keys,          \* event keys of the observer
    Bodies,        \* contents an event key may be sent with
    Progress,      \* the contents that are not terminal
    Original,      \* the key the corrections name
    Corrections,   \* keys whose input carries correction_of
    Safety,        \* keys whose input carries a safety signal
    Lanes,         \* the lanes looked at: "action", "learning"
    MaxIndex,      \* bound on the entries of the index
    MaxCalls       \* bound on the calls of the observer

NoKey == "none"

VARIABLES
    lane,
    late,        \* the observation window of the attempt has passed
    rows,        \* stored receipts, under <<key>> or, for a conflict, <<key, body>>
    outcome,     \* native: keys whose outcome was committed
    closed,      \* native: the outcome that closes the dispatch
    challenged,  \* outcome-corrections markers
    head,        \* [allocated, published] of the index
    pointer,     \* the entries of the index: receipts as they were
    marked,      \* observation-published markers
    op,          \* the operation that holds the gate
    calls,
    told,        \* receipts the observer was answered with
    cursor,      \* the cursor of the safety consumer
    reader       \* a page of the index: [after, end, n, seen]

vars == <<lane, late, rows, outcome, closed, challenged, head, pointer, marked, op, calls, told,
          cursor, reader>>

NoRow == [status |-> "none"]
NoOp == [todo |-> <<>>]
Paths == {<<k>> : k \in Keys} \union (Keys \X Bodies)

Init ==
    /\ lane \in Lanes
    /\ late = FALSE
    /\ rows = [p \in Paths |-> NoRow]
    /\ outcome = {} /\ closed = NoKey /\ challenged = {}
    /\ head = [allocated |-> 0, published |-> 0]
    /\ pointer = [n \in 1..MaxIndex |-> NoRow]
    /\ marked = {}
    /\ op = NoOp /\ calls = 0 /\ told = {} /\ cursor = 0
    /\ reader = [after |-> 0, end |-> 0, n |-> 0, seen |-> {}]

journal == <<rows, outcome, closed, challenged, head, pointer, marked>>
outside == <<lane, late, calls, told, cursor, reader>>

WindowPasses ==
    /\ ~late
    /\ late' = TRUE
    /\ UNCHANGED <<lane, journal, op, calls, told, cursor, reader>>

(***************************************************************************)
(* The steps of an operation.                                              *)
(***************************************************************************)
Doing(step) == op.todo # <<>> /\ Head(op.todo) = step
Done == [op EXCEPT !.todo = Tail(@)]

\* Mutant: an entry is published before it is written.
IndexAtEarly == <<"look", "allocate", "publish", "point", "mark">>

IndexAt == <<"look", "allocate", "point", "publish", "mark">>
Index == <<"challenge">> \o IndexAt

Receipt(k, b, s) ==
    [status |-> s, key |-> k, body |-> b, committed |-> FALSE, pending |-> k \in Safety]

Start(path, row, todo) == [todo |-> todo, path |-> path, row |-> row, n |-> 0]

\* A key that was used with another content: the second one is kept as a conflict for audit.
Conflict(k, b) ==
    LET old == rows[<<k, b>>]
    IN IF old # NoRow THEN Start(<<k, b>>, old, IndexAt \o <<"refuse">>)
       ELSE Start(<<k, b>>, Receipt(k, b, "conflict_audit"), <<"save">> \o IndexAt \o <<"refuse">>)

\* Mutant: a retry trusts that the first call published the receipt.
RetryUnpublished(k) ==
    LET row == rows[<<k>>]
    IN Start(<<k>>, row, (IF row.status = "accepted" THEN <<"commit">> ELSE <<>>)
                         \o <<"save", "reconcile", "answer">>)

\* A retry of a stored receipt of the action lane publishes it first and then finishes it.
Retry(k) ==
    LET row == rows[<<k>>]
    IN Start(<<k>>, row, Index \o (IF row.status = "accepted" THEN <<"commit">> ELSE <<>>)
                         \o <<"save">> \o Index \o <<"reconcile", "save", "answer">>)

\* A new observation of the action lane, late, a second terminal one of a closed dispatch, or fresh.
Fresh(k, b) ==
    LET status == CASE late -> "late_audit"
                    [] ~late /\ b \notin Progress /\ closed # NoKey /\ k \notin Corrections -> "conflict_audit"
                    [] OTHER -> "accepted"
    IN Start(<<k>>, Receipt(k, b, status), <<"save">> \o Index \o
             (IF status = "accepted" THEN <<"commit", "save">> \o Index \o <<"reconcile">> ELSE <<>>)
             \o <<"answer">>)

\* The learning lane has the learning controller make the native commit.  A correction, an outcome
\* after the first, one past the cutoff and one that is not terminal are only kept for audit.
LearningFresh(k, b) ==
    LET status == CASE k \in Corrections \/ (outcome \ {k}) # {} -> "conflict_audit"
                    [] k \notin Corrections /\ (outcome \ {k}) = {} /\ late -> "late_audit"
                    [] k \notin Corrections /\ (outcome \ {k}) = {} /\ ~late /\ b \in Progress -> "progress_audit"
                    [] OTHER -> "accepted"
    IN Start(<<k>>, Receipt(k, b, status), <<"save">> \o Index \o
             (IF status = "accepted" THEN <<"commit", "save">> \o Index ELSE <<>>) \o <<"answer">>)

Audits == {"late_audit", "conflict_audit", "progress_audit"}

\* A retry: what was kept for audit is answered as it stands.
LearningRetry(k) ==
    LET row == rows[<<k>>]
    IN Start(<<k>>, row, (IF row.status \in Audits THEN <<>>
                          ELSE <<"commit", "save">> \o Index) \o <<"answer">>)

Submit(k, b) ==
    /\ op = NoOp /\ calls < MaxCalls
    /\ calls' = calls + 1
    /\ k \in Corrections => rows[<<Original>>] # NoRow
    /\ op' = CASE rows[<<k>>] # NoRow /\ rows[<<k>>].body # b -> Conflict(k, b)
               [] rows[<<k>>] # NoRow /\ rows[<<k>>].body = b ->
                    IF lane = "action" THEN Retry(k) ELSE LearningRetry(k)
               [] OTHER -> IF lane = "action" THEN Fresh(k, b) ELSE LearningFresh(k, b)
    /\ UNCHANGED <<lane, late, journal, told, cursor, reader>>

Save ==
    /\ Doing("save")
    /\ rows' = [rows EXCEPT ![op.path] = op.row]
    /\ op' = Done
    /\ UNCHANGED <<outside, outcome, closed, challenged, head, pointer, marked>>

\* A correction marks the outcome of the receipt it names, if that receipt has one.
Challenge ==
    /\ Doing("challenge")
    /\ challenged' = IF op.row.key \in Corrections /\ rows[<<Original>>] # NoRow
                        /\ rows[<<Original>>].committed
                     THEN challenged \union {Original} ELSE challenged
    /\ op' = Done
    /\ UNCHANGED <<outside, rows, outcome, closed, head, pointer, marked>>

\* A receipt that was published as it stands is not published again.
Look ==
    /\ Doing("look")
    /\ op' = [op EXCEPT !.todo = IF op.row \in marked THEN SubSeq(@, Len(IndexAt) + 1, Len(@)) ELSE Tail(@)]
    /\ UNCHANGED <<outside, journal>>

Allocate ==
    /\ Doing("allocate")
    /\ head.allocated < MaxIndex
    /\ head' = [head EXCEPT !.allocated = @ + 1]
    /\ op' = [Done EXCEPT !.n = head.allocated + 1]
    /\ UNCHANGED <<outside, rows, outcome, closed, challenged, pointer, marked>>

Point ==
    /\ Doing("point")
    /\ pointer' = [pointer EXCEPT ![op.n] = op.row]
    /\ op' = Done
    /\ UNCHANGED <<outside, rows, outcome, closed, challenged, head, marked>>

Publish ==
    /\ Doing("publish")
    /\ head' = [head EXCEPT !.published = op.n]
    /\ op' = Done
    /\ UNCHANGED <<outside, rows, outcome, closed, challenged, pointer, marked>>

Mark ==
    /\ Doing("mark")
    /\ marked' = marked \union {op.row}
    /\ op' = Done
    /\ UNCHANGED <<outside, rows, outcome, closed, challenged, head, pointer>>

\* The native commit, replayed under the receipt's native key; its answer may be lost.  The
\* learning controller may find that the cutoff passed before it accepted the outcome.
Commit ==
    /\ Doing("commit")
    /\ \/ /\ outcome' = outcome \union {op.row.key}
          /\ op' \in {[Done EXCEPT !.row.committed = TRUE, !.row.status = "committed"], NoOp}
       \/ /\ lane = "learning" /\ late /\ op.row.key \notin outcome
          /\ op' = [op EXCEPT !.row.status = "late_audit", !.todo = <<"save">> \o Index \o <<"answer">>]
          /\ UNCHANGED outcome
    /\ UNCHANGED <<outside, rows, closed, challenged, head, pointer, marked>>

\* A terminal outcome closes the dispatch; one that finds it closed by another is an error.
Reconcile ==
    /\ Doing("reconcile")
    /\ LET mine == op.row.key
           closes == op.row.committed /\ mine \notin Corrections /\ op.row.body \notin Progress
       IN \/ ~closes /\ op' = Done /\ UNCHANGED closed
          \/ closes /\ closed \in {NoKey, mine} /\ op' = Done /\ closed' = mine
          \/ closes /\ closed \notin {NoKey, mine} /\ op' = NoOp /\ UNCHANGED closed
    /\ UNCHANGED <<outside, rows, outcome, challenged, head, pointer, marked>>

Answer ==
    /\ Doing("answer")
    /\ told' = told \union {op.row}
    /\ op' = NoOp
    /\ UNCHANGED <<lane, late, calls, cursor, reader, journal>>

Refuse ==
    /\ Doing("refuse")
    /\ op' = NoOp
    /\ UNCHANGED <<outside, journal>>

\* An error of any step, or a crash.
Fail ==
    /\ op # NoOp
    /\ op' = NoOp
    /\ UNCHANGED <<outside, journal>>

(***************************************************************************)
(* Consumers.                                                              *)
(***************************************************************************)
PathOf(row) == IF row.status = "conflict_audit" /\ rows[<<row.key>>] # NoRow
                  /\ rows[<<row.key>>].body # row.body
               THEN <<row.key, row.body>> ELSE <<row.key>>

\* The safety consumer of the learning lane looks at the next entry of the index.
Consume ==
    /\ lane = "learning" /\ op = NoOp
    /\ cursor < head.published
    /\ LET entry == pointer[cursor + 1]
           path == PathOf(entry)
           row == rows[path]
           due == entry # NoRow /\ entry.pending /\ row.pending
       IN op' = IF due THEN Start(path, row, <<"signal", "save">> \o IndexAt \o <<"advance">>)
                ELSE [todo |-> <<"advance">>]
    /\ UNCHANGED <<outside, journal>>

\* The learning runtime revokes natively, under the receipt's id.
Signal ==
    /\ Doing("signal")
    /\ op' = [Done EXCEPT !.row.pending = FALSE]
    /\ UNCHANGED <<outside, journal>>

AdvanceCursor ==
    /\ Doing("advance")
    /\ cursor' = cursor + 1
    /\ op' = NoOp
    /\ UNCHANGED <<lane, late, calls, told, reader, journal>>

\* utility_page, trust_page and receipts: the published head, then one entry after the other.
ReadHead ==
    /\ reader.n = reader.end /\ reader.end < head.published
    /\ reader' = [reader EXCEPT !.end = head.published]
    /\ UNCHANGED <<lane, late, journal, op, calls, told, cursor>>

ReadEntry ==
    /\ reader.n < reader.end
    /\ reader' = [reader EXCEPT !.n = @ + 1, !.seen = @ \union {pointer[reader.n + 1]}]
    /\ UNCHANGED <<lane, late, journal, op, calls, told, cursor>>

Next ==
    \/ WindowPasses
    \/ \E k \in Keys, b \in Bodies : Submit(k, b)
    \/ Save \/ Challenge \/ Look \/ Allocate \/ Point \/ Publish \/ Mark
    \/ Commit \/ Reconcile \/ Answer \/ Refuse \/ Fail
    \/ Consume \/ Signal \/ AdvanceCursor
    \/ ReadHead \/ ReadEntry

Spec == Init /\ [][Next]_vars

-----------------------------------------------------------------------------
Rows == [status : {"accepted", "committed"} \union Audits, key : Keys, body : Bodies,
         committed : BOOLEAN, pending : BOOLEAN]

TypeOK ==
    /\ lane \in Lanes /\ late \in BOOLEAN
    /\ rows \in [Paths -> Rows \union {NoRow}]
    /\ outcome \subseteq Keys /\ closed \in Keys \union {NoKey} /\ challenged \subseteq Keys
    /\ head \in [allocated : 0..MaxIndex, published : 0..MaxIndex]
    /\ pointer \in [1..MaxIndex -> Rows \union {NoRow}]
    /\ marked \subseteq Rows
    /\ calls \in 0..MaxCalls /\ told \subseteq Rows
    /\ cursor \in 0..MaxIndex /\ reader.n \in 0..MaxIndex

\* A consumer that walked past an entry has seen what the entry holds: the index never fills a
\* hole behind a reader, although an operation may stop between any two of its writes and the
\* pages are read without the gate (index_at, utility_page).
NothingAppearsBehind ==
    \A n \in 1..reader.n : pointer[n] # NoRow => pointer[n] \in reader.seen

Published == {pointer[n] : n \in 1..head.published}

\* The retry of the learning lane answers an audit row without looking whether it was indexed.
KeptForAudit(row) == lane = "learning" /\ row.status \in Audits

\* A receipt the observer was answered with was published as it was answered, so an outcome it
\* believes committed is found by whoever walks the index (submit_owned, submit_learning).  The one
\* exception is an audit row of the learning lane: when its index write failed, the retry answers it
\* and nobody who walks the index finds it.
AnsweredIsPublished == \A row \in told : row \in Published \/ KeptForAudit(row)

=============================================================================
