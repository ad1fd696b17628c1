------------------------------- MODULE Briefing -------------------------------
(***************************************************************************)
(* Recall through the Memory Interface (memory_interface/recall.rs): the   *)
(* host waits for the receipts the caller names, fixes one snapshot, lets  *)
(* one Recall pass find what bears on the question, and then builds the    *)
(* briefing itself: what the pass read is read again AS OF the snapshot,   *)
(* and five channels add what the host must not miss.  The pass and the    *)
(* search index read live memory, which goes on changing.  The pins of the *)
(* briefing are retained, and an expansion reads them again.               *)
(*                                                                         *)
(* Memory is its history: for each sequence number, each element's version *)
(* and state.  An Assertion and its immutable Proposition are one "claim". *)
(* Every item costs one unit of the output budget.                         *)
(***************************************************************************)
EXTENDS Integers, FiniteSets, Sequences

CONSTANTS
    Elements,      \* the elements of memory
    Kind,          \* what each is: a function from Elements to Kinds
    Held,          \* the elements that memory holds from the start
    Searches,      \* the search channels: {"failures", "experiences", "skills"} or some
    Failing,       \* what may fail in this instance: the channels' queries, "rows"
    ChannelLimit,  \* CHANNEL_LIMIT
    SearchLimit,   \* SEARCH_LIMIT
    MaxItems,      \* MAX_ITEMS
    Asks,          \* the requests: as_of (0 if not fixed), room (the items that fit the
                   \* output budget), mode ("answer", "action", "attention"), and whether it
                   \* has a query and waits for the receipt
    MaxSeq,        \* bound: commits
    MaxVersion,    \* bound: versions of one element
    MaxReads       \* bound: elements that the pass reads

\* The first three are Propositions, Evidence and Activities, the others Concepts; a
\* handle is a host's own scope handle or a type that no briefing reports.
Kinds == {"claim", "source", "activity", "constraint", "commitment", "failure",
          "experience", "skill", "insight", "handle"}

\* "review": its dependencies changed; "disputed": a claim that is not accepted;
\* "closed": a commitment that is done; "out": formed in another scope; "inactive":
\* retracted or invalidated.
States == {"none", "active", "review", "disputed", "closed", "out", "inactive", "purged"}

Exacts   == {"constraints", "commitments"}
Channels == Exacts \cup Searches \cup {"evidence"}

VARIABLES
    hist,      \* hist[s]: the memory as of sequence s
    purged,    \* the elements whose content is gone from every version
    receipt,   \* the caller's receipt: 0 recorded, s available at s, -1 failed
    pc, ask,   \* the request: [as_of, room, mode, query, wait]
    after,     \* the receipt's progress when the barrier ended
    snap,      \* snapshot_seq
    reads,     \* the read trace of the pass: element -> version, 0 if it had none
    cache,     \* ReadCache.rows
    summary,   \* "pass" (the model's prose) or "items"
    chan,      \* where each channel is: "todo", "index", "check", "done"
    plan,      \* whether each channel's plan is complete
    cand,      \* what the pass' citations gave
    found,     \* what each channel gave
    hits,      \* history: what the search index answered
    brief,     \* the last briefing, as retained
    expanded   \* the last expansion: its pins and the unavailable ones

vars == <<hist, purged, receipt, pc, ask, after, snap, reads, cache, summary, chan, plan,
          cand, found, hits, brief, expanded>>
mem  == <<hist, purged, receipt>>
work == <<reads, cache, summary, chan, plan, cand, found, hits>>

Now       == Len(hist)
NoRow     == [ver |-> 0, state |-> "none"]
Unread    == [ver |-> -1, state |-> "none"]
NoReads   == [e \in {} |-> 0]
NoBrief   == [snap |-> 0, items |-> {}, summary |-> "items", complete |-> FALSE,
              eligible |-> FALSE, after |-> 0, trace |-> NoReads, hits |-> {}, lost |-> {}]
NoExp     == [found |-> {}, missing |-> {}, lost |-> {}]

\* Every plan is complete until a read says otherwise.
NoPlan    == [c \in Channels |-> TRUE]

TypeOK ==
    /\ Kind \in [Elements -> Kinds]
    /\ \A s \in DOMAIN hist : hist[s] \in [Elements -> [ver : 0..MaxVersion, state : States]]
    /\ Now \in 1..MaxSeq /\ purged \subseteq Elements /\ receipt \in -1..MaxSeq
    /\ pc \in {"idle", "barrier", "snapshot", "pass", "cite", "channels", "attention"}
    /\ after \in -1..MaxSeq /\ snap \in 0..MaxSeq /\ plan \in [Channels -> BOOLEAN]
    /\ chan \in [Exacts \cup Searches -> {"todo", "index", "check", "done"}]
    /\ DOMAIN reads \subseteq Elements /\ hits \subseteq Elements

Init ==
    /\ hist = <<[e \in Elements |-> IF e \in Held THEN [ver |-> 1, state |-> "active"] ELSE NoRow]>>
    /\ purged = {} /\ receipt = 0 /\ pc = "idle" /\ after = 0 /\ snap = 0
    /\ ask = [as_of |-> 0, room |-> 0, mode |-> "answer", query |-> FALSE, wait |-> FALSE]
    /\ reads = NoReads /\ cache = [e \in Elements |-> Unread] /\ summary = "items"
    /\ chan = [c \in Exacts \cup Searches |-> "todo"] /\ plan = NoPlan
    /\ cand = {} /\ found = [c \in Exacts \cup Searches |-> {}] /\ hits = {}
    /\ brief = NoBrief /\ expanded = NoExp

(***************************************************************************)
(* Memory, as its writers change it.                                       *)
(***************************************************************************)
StatesOf(e) == {"active", "review", "out", "inactive"}
               \cup (IF Kind[e] = "claim" THEN {"disputed"} ELSE {})
               \cup (IF Kind[e] = "commitment" THEN {"closed"} ELSE {})

\* Bound: a behaviour ends with its expansion.
Over == expanded # NoExp

\* A commit gives an element a new version.  It may be what makes the receipt available.
Commit(e, state, forms) ==
    /\ ~Over /\ Now < MaxSeq /\ e \notin purged
    /\ LET row == hist[Now][e] IN
       /\ row.ver < MaxVersion /\ (row.ver = 0 => state = "active")
       /\ hist' = Append(hist, [hist[Now] EXCEPT ![e] = [ver |-> row.ver + 1, state |-> state]])
    /\ (forms => receipt = 0)
    /\ receipt' = IF forms THEN Now + 1 ELSE receipt
    /\ UNCHANGED <<purged, pc, ask, after, snap, work, brief, expanded>>

ReceiptFails ==
    /\ ~Over /\ receipt = 0 /\ receipt' = -1
    /\ UNCHANGED <<hist, purged, pc, ask, after, snap, work, brief, expanded>>

Purge(e) ==
    /\ ~Over /\ Now < MaxSeq /\ hist[Now][e].ver > 0 /\ e \notin purged
    /\ purged' = purged \cup {e}
    /\ hist' = Append(hist, [hist[Now] EXCEPT ![e].state = "purged"])
    /\ UNCHANGED <<receipt, pc, ask, after, snap, work, brief, expanded>>

(***************************************************************************)
(* Host reads.                                                             *)
(***************************************************************************)
\* The row as of s; a purge leaves a stub at every sequence.
Stored(e, s) ==
    IF e \in purged /\ hist[s][e].ver > 0 THEN [hist[s][e] EXCEPT !.state = "purged"] ELSE hist[s][e]

\* Rows whose reads may fail, of those a step reads.
Losable(S) == IF "rows" \in Failing THEN SUBSET S ELSE {{}}

\* element_row: a row whose read fails is answered as if memory did not hold it.
ElementRow(e, s, lost) == IF e \in lost THEN NoRow ELSE Stored(e, s)

\* cached_row: a briefing reads a row once, a failed read too.
CachedRow(e, lost) == IF cache[e] # Unread THEN cache[e] ELSE ElementRow(e, snap, lost)

Cached(S, lost) == [e \in Elements |-> IF e \in S THEN CachedRow(e, lost) ELSE cache[e]]

Active(row) == row.ver > 0 /\ row.state \notin {"inactive", "purged"}
\* scope.admits
Admitted(row) == row.state # "out"

(***************************************************************************)
(* The request.                                                            *)
(***************************************************************************)
Ask(request) ==
    /\ pc = "idle" /\ brief = NoBrief /\ pc' = "barrier"
    /\ request.as_of <= Now /\ ask' = request
    /\ UNCHANGED <<mem, after, snap, work, brief, expanded>>

\* The barrier ends when the receipt is settled or the deadline passes; either
\* way its progress is what the caller is told.
Barrier ==
    /\ pc = "barrier" /\ pc' = "snapshot"
    /\ after' = IF ask.wait THEN receipt ELSE 0
    /\ UNCHANGED <<mem, ask, snap, work, brief, expanded>>

\* A fixed as_of older than the receipt is refused; otherwise the snapshot is
\* that, or memory as it is now.
Snapshot ==
    /\ pc = "snapshot"
    /\ IF ask.as_of > 0 /\ after > ask.as_of
       THEN pc' = "idle" /\ UNCHANGED snap
       ELSE /\ snap' = IF ask.as_of > 0 THEN ask.as_of ELSE Now
            /\ pc' = IF ask.mode = "attention" THEN "attention" ELSE "pass"
    /\ UNCHANGED <<mem, ask, after, work, brief, expanded>>

\* A receipt that is not available at the snapshot is pending, a failed one too.
Pending == ask.wait /\ ~(after > 0 /\ after <= snap)

\* The attention mode briefs nothing but the raised items, under the barrier; a bad
\* cursor, or a page beyond the budget, fails the request.
Attend(ok) ==
    /\ pc = "attention" /\ pc' = "idle"
    /\ brief' = IF ok THEN [NoBrief EXCEPT !.snap = snap, !.after = after, !.complete = ~Pending]
                ELSE brief
    /\ UNCHANGED <<mem, ask, after, snap, work, expanded>>

\* The Recall pass reads live memory; the trace keeps the last version it was shown, and
\* none for a projection that leaves it out.
PassRead(e, versioned) ==
    /\ pc = "pass" /\ ask.query
    /\ hist[Now][e].ver > 0 /\ e \notin purged
    /\ e \in DOMAIN reads \/ Cardinality(DOMAIN reads) < MaxReads
    /\ reads' = [f \in DOMAIN reads \cup {e} |->
                   IF f # e THEN reads[f] ELSE IF versioned THEN hist[Now][e].ver ELSE 0]
    /\ UNCHANGED <<mem, pc, ask, after, snap, cache, summary, chan, plan, cand, found, hits, brief,
                   expanded>>

\* It answers, or fails, or reaches the deadline; without a question there is none.
PassEnds(ok) ==
    /\ pc = "pass" /\ (ok => ask.query)
    /\ plan' = [plan EXCEPT !["evidence"] = ok]
    /\ reads' = IF ok THEN reads ELSE NoReads
    /\ pc' = IF ok THEN "cite" ELSE "channels"
    /\ UNCHANGED <<mem, ask, after, snap, cache, summary, chan, cand, found, hits, brief, expanded>>

(***************************************************************************)
(* Items.                                                                  *)
(***************************************************************************)
Role(e) ==
    CASE Kind[e] \in {"constraint", "commitment"} -> "constraint"
      [] Kind[e] = "failure"                      -> "warning"
      [] Kind[e] \in {"claim", "insight"}         -> "fact"
      [] Kind[e] = "skill"                        -> "procedure"
      [] Kind[e] = "experience"                   -> "experience"
      [] OTHER                                    -> "source"

\* Constraints are taken as given, a claim's belief is projected at the snapshot.
Status(e, row) ==
    CASE Kind[e] \in {"constraint", "commitment"} -> "accepted"
      [] Kind[e] = "claim" -> IF row.state = "disputed" THEN "contested" ELSE "accepted"
      [] Kind[e] \in {"failure", "insight"}       -> "uncertain"
      [] OTHER                                    -> "not_applicable"

\* concept_item and the other arms of cited_item: the candidates of e, none for what a
\* briefing does not report.  A constraint and a past failure are required everywhere.
Item(e, row, required) ==
    IF Kind[e] \in {"activity", "handle"} THEN {}
    ELSE {[e |-> e, ver |-> row.ver, role |-> Role(e), status |-> Status(e, row),
           req |-> required \/ Kind[e] \in {"constraint", "failure"},
           review |-> row.state = "review"]}

\* Mutant: a cited element is taken as it was read.
CitedAtAnyVersion(e, row) == Active(row) /\ Admitted(row)

\* A cited element is dropped unless the snapshot holds the very version that was read,
\* as an active, valid row in scope.  An Activity is checked but not scoped.
Cited(e, row) ==
    /\ reads[e] > 0 => row.ver = reads[e]
    /\ Active(row)
    /\ Kind[e] = "activity" \/ Admitted(row)

\* Every citation is read again; the model's prose survives only if none is dropped.  A
\* claim whose Proposition or belief cannot be read is no item, and counts as not dropped.
Cite(lost, bare) ==
    /\ pc = "cite" /\ pc' = "channels"
    /\ LET row(e) == CachedRow(e, lost)
           seen   == DOMAIN reads
           kept   == {e \in seen : Cited(e, row(e))} IN
       /\ bare \subseteq {e \in kept : Kind[e] = "claim"}
       /\ cand' = UNION {Item(e, row(e), FALSE) : e \in kept \ bare}
       /\ summary' = IF kept = seen THEN "pass" ELSE "items"
       /\ cache' = Cached(seen, lost)
    /\ UNCHANGED <<mem, ask, after, snap, reads, chan, plan, found, hits, brief, expanded>>

(***************************************************************************)
(* The channels, run together.                                             *)
(***************************************************************************)
Done(c) == chan' = [chan EXCEPT ![c] = "done"]

Least(m, n) == IF m < n THEN m ELSE n

KindOf(c) == CASE c = "constraints" -> "constraint"
               [] c = "commitments" -> "commitment"
               [] c = "failures"    -> "failure"
               [] c = "experiences" -> "experience"
               [] c = "skills"      -> "skill"

\* The rows that a channel's query matches as of s.
Matching(c, s) ==
    {e \in Elements : Kind[e] = KindOf(c) /\ Active(Stored(e, s)) /\ Stored(e, s).state # "closed"}

\* A page: as many of the rows as the limit allows.
Pages(rows, n) == {page \in SUBSET rows : Cardinality(page) = Least(Cardinality(rows), n)}

\* exact_channel: the matching rows of the snapshot, up to the page; one more marks the
\* channel truncated, and those in scope are required.  A failed read is incomplete.
Exact(c, ok) ==
    /\ pc = "channels" /\ chan[c] = "todo" /\ Done(c) /\ (ok \/ c \in Failing)
    /\ LET rows == Matching(c, snap) IN
       IF ok
       THEN \E page \in Pages(rows, ChannelLimit) :
               /\ found' = [found EXCEPT ![c] = UNION {Item(e, Stored(e, snap), TRUE) :
                               e \in {f \in page : Admitted(Stored(f, snap))}}]
               /\ cache' = [e \in Elements |-> IF e \in page THEN Stored(e, snap) ELSE cache[e]]
               /\ plan' = [plan EXCEPT ![c] = (page = rows)]
       ELSE plan' = [plan EXCEPT ![c] = FALSE] /\ UNCHANGED <<found, cache>>
    /\ UNCHANGED <<mem, pc, ask, after, snap, reads, summary, cand, hits, brief, expanded>>

\* search_channel: the index serves the present only, so a question is put to it only
\* while the snapshot is the present.
SearchStart(c) ==
    /\ pc = "channels" /\ chan[c] = "todo"
    /\ IF ask.query /\ Now # snap
       THEN Done(c) /\ plan' = [plan EXCEPT ![c] = FALSE]
       ELSE chan' = [chan EXCEPT ![c] = "index"] /\ UNCHANGED plan
    /\ UNCHANGED <<mem, pc, ask, after, snap, reads, cache, summary, cand, found, hits, brief, expanded>>

\* The index answers with some live rows; without a question the latest rows of the
\* snapshot are listed.  A failed query is incomplete, and so is a list with one row more
\* than the page.  What it names is read at the snapshot; a row that cannot be read there is
\* passed over, and the plan says nothing of it.
Search(c, ok) ==
    /\ pc = "channels" /\ chan[c] = "index" /\ (ok \/ c \in Failing)
    /\ LET rows == Matching(c, IF ask.query THEN Now ELSE snap) IN
       IF ok
       THEN \E page \in IF ask.query THEN UNION {Pages(rows, n) : n \in 0..SearchLimit}
                        ELSE Pages(rows, SearchLimit) :
            \E lost \in Losable(page) :
            LET row(e) == CachedRow(e, lost)
                here   == {e \in page : row(e).ver > 0 /\ Admitted(row(e))} IN
               /\ found' = [found EXCEPT ![c] = UNION {Item(e, row(e), FALSE) : e \in here}]
               /\ hits' = hits \cup page /\ cache' = Cached(page, lost)
               /\ plan' = [plan EXCEPT ![c] = ask.query \/ page = rows]
               /\ chan' = [chan EXCEPT ![c] = "check"]
       ELSE Done(c) /\ plan' = [plan EXCEPT ![c] = FALSE] /\ UNCHANGED <<found, hits, cache>>
    /\ UNCHANGED <<mem, pc, ask, after, snap, reads, summary, cand, brief, expanded>>

\* Its answer stands only if the snapshot still is the present.
SearchCheck(c) ==
    /\ pc = "channels" /\ chan[c] = "check" /\ Done(c)
    /\ plan' = [plan EXCEPT ![c] = @ /\ Now = snap]
    /\ UNCHANGED <<mem, pc, ask, after, snap, reads, cache, summary, cand, found, hits, brief, expanded>>

(***************************************************************************)
(* The briefing.                                                           *)
(***************************************************************************)
\* What the channels found joins what the pass cited, unless the same pins are there
\* already: a commitment that the pass cited stays optional.
Candidates ==
    cand \cup {c \in UNION {found[ch] : ch \in DOMAIN found} :
                 ~\E d \in cand : d.e = c.e /\ d.ver = c.ver}

\* Dependencies: a candidate whose row is under review brings a required warning.
Warnings == {[c EXCEPT !.req = TRUE, !.role = "warning", !.status = "uncertain"] :
                c \in {d \in Candidates : d.review}}

\* The preconditions that nobody verified: those rows and, for an action, every fact or
\* constraint that is not accepted.
Unverified ==
    Warnings \cup {c \in Candidates \cup Warnings :
                     /\ ask.mode = "action"
                     /\ c.status \in {"contested", "uncertain"} /\ c.role \in {"fact", "constraint"}}

\* role_rank
Rank(c) == CASE c.role = "constraint" -> 0 [] c.role = "warning" -> 1    [] c.role = "fact" -> 2
             [] c.role = "procedure" -> 3  [] c.role = "experience" -> 4 [] c.role = "source" -> 5

\* The candidates are sorted, required ones first and each group by rank; a
\* prefix of n of them is any such set that nothing left out comes before.
Prefixes(S, n) ==
    LET before(c, d) == \/ c.req /\ ~d.req
                        \/ c.req = d.req /\ Rank(c) < Rank(d)
    IN  {T \in SUBSET S : /\ Cardinality(T) = Least(Cardinality(S), n)
                          /\ \A c \in T, d \in S \ T : ~before(d, c)}

\* What the budget removes marks its channel.
ChannelOf(c) == CASE c.role = "experience" -> "experiences"
                  [] c.role = "procedure"  -> "skills"
                  [] OTHER                 -> "evidence"

Marked(gone) == [c \in Channels |-> plan[c] /\ \A x \in gone : ChannelOf(x) # c]

\* Coverage::new: no receipt is pending and no channel is incomplete.
Complete(p) == ~Pending /\ \A c \in Channels : p[c]

\* MAX_ITEMS candidates at most, and of those the longest prefix that fits, as long as it
\* holds every required one; its pins are retained before it is answered.  A resume reads
\* the attention first; that, or the journal, may fail.
Assemble(ok) ==
    /\ pc = "channels" /\ \A c \in Exacts \cup Searches : chan[c] = "done"
    /\ \E all \in Prefixes(Candidates \cup Warnings, MaxItems) :
       \E kept \in Prefixes(all, ask.room) :
       LET p == Marked(all \ kept)
       IN  IF ok /\ \A c \in all : c.req => c \in kept
           THEN brief' = [snap |-> snap, items |-> kept, summary |-> summary,
                          complete |-> Complete(p), eligible |-> Complete(p) /\ Unverified = {},
                          after |-> after, trace |-> reads, hits |-> hits,
                          lost |-> {e \in Elements : cache[e] = NoRow /\ hist[snap][e] # NoRow}]
           ELSE brief' = brief                 \* result_limit_exceeded, or the read failed
    /\ pc' = "idle"
    /\ reads' = NoReads /\ cache' = [e \in Elements |-> Unread] /\ summary' = "items"
    /\ chan' = [c \in Exacts \cup Searches |-> "todo"] /\ plan' = NoPlan
    /\ cand' = {} /\ found' = [c \in Exacts \cup Searches |-> {}] /\ hits' = {}
    /\ UNCHANGED <<mem, ask, after, snap, expanded>>

\* An expansion reads each pin at the retained snapshot, ...
Pin(c, lost) == ElementRow(c.e, brief.snap, lost)

\* ... and gives it only at the version that produced the item; one item or all of them.  A
\* pin whose read fails is "no longer available", as a purged one is.
Expand(items, lost) ==
    /\ pc = "idle" /\ brief.snap > 0 /\ ~Over
    /\ items = brief.items \/ Cardinality(items) = 1
    /\ LET held == {c \in items : /\ Pin(c, lost) # NoRow /\ Pin(c, lost).state # "purged"
                                  /\ c.ver = 0 \/ Pin(c, lost).ver = c.ver} IN
       expanded' = [found   |-> {[e |-> c.e, ver |-> Pin(c, lost).ver] : c \in held},
                    missing |-> {c.e : c \in items \ held}, lost |-> lost]
    /\ UNCHANGED <<mem, pc, ask, after, snap, work, brief>>

Next ==
    \/ \E e \in Elements, f \in BOOLEAN : \E st \in StatesOf(e) : Commit(e, st, f)
    \/ ReceiptFails
    \/ \E e \in Elements : Purge(e)
    \/ \E request \in Asks : Ask(request)
    \/ Barrier \/ Snapshot
    \/ \E ok \in BOOLEAN : Attend(ok)
    \/ \E e \in Elements, v \in BOOLEAN : PassRead(e, v)
    \/ \E ok \in BOOLEAN : PassEnds(ok)
    \/ \E lost, bare \in Losable(DOMAIN reads) : Cite(lost, bare)
    \/ \E c \in Exacts, ok \in BOOLEAN : Exact(c, ok)
    \/ \E c \in Searches : SearchStart(c) \/ SearchCheck(c)
    \/ \E c \in Searches, ok \in BOOLEAN : Search(c, ok)
    \/ \E ok \in BOOLEAN : Assemble(ok)
    \/ \E items \in SUBSET brief.items : \E lost \in Losable({c.e : c \in items}) : Expand(items, lost)

Spec == Init /\ [][Next]_vars

(***************************************************************************)
(* Properties.                                                             *)
(***************************************************************************)
\* A briefing is of one snapshot although the pass and the index read live
\* memory: every item is the version its snapshot holds, and the model's own
\* prose is delivered only if every version it read is that one (recall.rs: the
\* citations re-read, the summary replaced).
OneSnapshot ==
    /\ \A c \in brief.items : c.ver = hist[brief.snap][c.e].ver
    /\ brief.summary = "pass" =>
          \A e \in DOMAIN brief.trace :
              /\ brief.trace[e] \in {0, hist[brief.snap][e].ver}
              /\ hist[brief.snap][e].ver > 0 /\ hist[brief.snap][e].state # "inactive"

\* Complete coverage is earned: the receipt the caller waited for is in the
\* snapshot, no constraint or open commitment of it is left out, and whatever the index
\* found there is in the briefing unless its row could not be read, as long as the schema's
\* bound on the items cuts nothing; and nothing is eligible to act on while an item is under review or, for an
\* action, a fact is disputed (recall.rs: pending receipts, channel plans, unverified).
CompleteIsEarned ==
    /\ brief.complete /\ ask.wait => brief.after \in 1..brief.snap
    /\ brief.complete /\ ask.mode # "attention" /\ Cardinality(brief.items) < MaxItems =>
          \A e \in Elements \ purged :
             LET row == hist[brief.snap][e] IN
             /\ Active(row) /\ Admitted(row)
             /\ \/ Kind[e] = "constraint"
                \/ Kind[e] = "commitment" /\ row.state # "closed"
                \/ e \in brief.hits \ brief.lost
             => \E c \in brief.items : c.e = e
    /\ brief.eligible => \A c \in brief.items :
          ~c.review /\ (ask.mode = "action" /\ c.role = "fact" => c.status = "accepted")

\* An expansion shows what produced the result and never a newer version; what it calls no
\* longer available was purged, or the read of it failed just now (recall.rs expand).
ExpansionIsExact ==
    /\ \A x \in expanded.found : \E c \in brief.items : c.e = x.e /\ c.ver = x.ver
    /\ expanded.missing \subseteq purged \cup expanded.lost

==============================================================================
