--------------------------- MODULE AttentionRecall ---------------------------
(***************************************************************************)
(* Attention recall (space/attention_recall.rs, and its twin in the edge   *)
(* worker, attention.ts): a host walks the raised items by a cursor it     *)
(* keeps itself.  Every item is raised by an Activity of some commit; the  *)
(* items are ordered by (raised_seq, ref).  A page reads a bounded window  *)
(* of Activities, leaves a commit the window may have cut to the next      *)
(* page, and may itself stop inside a commit.  Commits go on while a page  *)
(* is being read, and a raised element may be erased.                      *)
(*                                                                         *)
(* A commit raises at most Window Activities: beyond that the source says  *)
(* the commit is read only up to the window.  An Activity about more than  *)
(* MaxTargets elements is read up to that many of them.                    *)
(***************************************************************************)
EXTENDS Naturals, FiniteSets, Sequences, SequencesExt

CONSTANTS
    Refs,           \* the ordered references of Watches and Commitments: 1..n
    Window,         \* ACTIVITY_WINDOW
    MaxTargets,     \* MAX_REVIEW_TARGETS
    MaxPage,        \* MAX_PAGE: a page's limit is 1..MaxPage
    MaxSeq,         \* bound: commits
    MaxActivities   \* bound: raising Activities

VARIABLES
    log,        \* the raising Activities in space_seq order: [seq, refs]
    erased,     \* the references purged from memory
    cursor,     \* the host's attention_cursor
    page,       \* the page being read: [after, limit, rows], or idle
    delivered,  \* the items handed over so far, in order: [seq, ref]
    complete    \* what the last page said

vars == <<log, erased, cursor, page, delivered, complete>>

\* A position: seq = 0 is before every item, ref = 0 covers the whole seq.
Positions == [seq : 0..MaxSeq, ref : Refs \cup {0}]
Start     == [seq |-> 0, ref |-> 0]
Idle      == [after |-> Start, limit |-> 0, rows |-> <<>>]

Precedes(p, seq, ref) ==
    seq > p.seq \/ (seq = p.seq /\ p.ref # 0 /\ ref > p.ref)

TypeOK ==
    /\ log \in Seq([seq : 1..MaxSeq, refs : SUBSET Refs])
    /\ erased \in SUBSET Refs
    /\ cursor \in Positions
    /\ page.after \in Positions /\ page.limit \in 0..MaxPage
    /\ delivered \in Seq([seq : 1..MaxSeq, ref : Refs])
    /\ complete \in BOOLEAN

Init ==
    /\ log = <<>> /\ erased = {} /\ cursor = Start /\ page = Idle
    /\ delivered = <<>> /\ complete = FALSE

LastSeq == IF log = <<>> THEN 0 ELSE Last(log).seq

\* A commit raises items through some Activities, each about some elements.
Raise(acts) ==
    /\ LastSeq < MaxSeq /\ Len(log) + Len(acts) <= MaxActivities
    /\ UNION {acts[i] : i \in DOMAIN acts} \cap erased = {}
    /\ log' = log \o [i \in DOMAIN acts |-> [seq |-> LastSeq + 1, refs |-> acts[i]]]
    /\ UNCHANGED <<erased, cursor, page, delivered, complete>>

Erase(r) ==
    /\ r \notin erased /\ erased' = erased \cup {r}
    /\ UNCHANGED <<log, cursor, page, delivered, complete>>

(***************************************************************************)
(* A page.  The window is one read; what an Activity raised is read after  *)
(* it, Activity by Activity, from the memory of that moment.               *)
(***************************************************************************)
\* Mutant: a cursor inside a commit starts at the next commit.
FromNextCommit(after) == IF after.seq = 0 THEN 0 ELSE after.seq + 1

From(after) ==
    CASE after.seq = 0 -> 0
      [] after.ref # 0 -> after.seq
      [] OTHER         -> after.seq + 1

WindowRows(from) ==
    LET due == SelectSeq(log, LAMBDA a : a.seq >= from)
    IN  SubSeq(due, 1, IF Len(due) < Window THEN Len(due) ELSE Window)

ReadWindow(limit) ==
    /\ page = Idle
    /\ page' = [after |-> cursor, limit |-> limit, rows |-> WindowRows(From(cursor))]
    /\ UNCHANGED <<log, erased, cursor, delivered, complete>>

WindowFull == Len(page.rows) >= Window

\* Mutant: the commit a full window may have cut is read as if it were whole.
WholeCommitsUntrimmed == page.rows

\* A full window of more than one commit leaves its last commit out.
WholeCommits ==
    LET rows == page.rows
    IN  IF WindowFull /\ Head(rows).seq # Last(rows).seq
        THEN SelectSeq(rows, LAMBDA a : a.seq # Last(rows).seq)
        ELSE rows

\* The reads of what one Activity raised and memory still holds (raised_items): up to
\* the limit of the query, which orders nothing.
RaisedBy(a) ==
    LET held == a.refs \ erased
    IN  {read \in SUBSET held :
            Cardinality(read) = Min({Cardinality(held), MaxTargets})}

\* The items read from some Activities, each once, in the attention order.
InOrder(acts, read) ==
    SetToSortSeq(UNION {{[seq |-> acts[i].seq, ref |-> r] : r \in read[i]} : i \in DOMAIN acts},
                 LAMBDA a, b : a.seq < b.seq \/ (a.seq = b.seq /\ a.ref < b.ref))

\* The cursor after a page: inside a commit when the page was cut, after the
\* last commit when it was not, and where it was when nothing was read.
PageCursor(items, more) ==
    CASE more -> Last(items)
      [] ~more /\ WholeCommits # <<>> -> [seq |-> Last(WholeCommits).seq, ref |-> 0]
      [] OTHER -> page.after

Deliver ==
    /\ page # Idle
    /\ \E read \in [DOMAIN WholeCommits -> SUBSET Refs] :
       /\ \A i \in DOMAIN WholeCommits : read[i] \in RaisedBy(WholeCommits[i])
       /\ LET due == SelectSeq(InOrder(WholeCommits, read),
                               LAMBDA i : Precedes(page.after, i.seq, i.ref))
              more  == Len(due) > page.limit
              items == IF more THEN SubSeq(due, 1, page.limit) ELSE due
          IN  /\ delivered' = delivered \o items
              /\ cursor' = PageCursor(items, more)
              /\ complete' = (~more /\ ~WindowFull)
    /\ page' = Idle
    /\ UNCHANGED <<log, erased>>

\* A failed read answers an error; the host still has its cursor.
PageFailed ==
    /\ page # Idle /\ page' = Idle
    /\ UNCHANGED <<log, erased, cursor, delivered, complete>>

Next ==
    \/ \E n \in 1..Window : \E acts \in [1..n -> SUBSET Refs] : Raise(acts)
    \/ \E r \in Refs : Erase(r)
    \/ \E limit \in 1..MaxPage : ReadWindow(limit)
    \/ Deliver
    \/ PageFailed

Spec == Init /\ [][Next]_vars

(***************************************************************************)
(* Properties.                                                             *)
(***************************************************************************)
RaisedAt(seq) ==
    UNION {log[i].refs : i \in {j \in DOMAIN log :
                                   log[j].seq = seq /\ Cardinality(log[j].refs) <= MaxTargets}}

\* The cursor loses nothing and repeats nothing: every item at or before the
\* host's cursor has been delivered, unless its element was erased or its Activity
\* is about more elements than one read takes, and no item is delivered twice --
\* wherever pages were cut, whatever was raised meanwhile
\* (attention_recall.rs: the window, the retained commits and the cursor).
WalkIsExact ==
    /\ \A seq \in 1..LastSeq : \A r \in RaisedAt(seq) \ erased :
          ~Precedes(cursor, seq, r) =>
              \E i \in DOMAIN delivered : delivered[i] = [seq |-> seq, ref |-> r]
    /\ \A i, j \in DOMAIN delivered : i < j => delivered[i] # delivered[j]
==============================================================================
