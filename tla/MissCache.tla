------------------------------ MODULE MissCache ------------------------------
(***************************************************************************)
(* The negative-knowledge cache of a Space: probes look a query up, search *)
(* the graph and remember what they did not find, while formation and      *)
(* maintenance add memory and clear the cache.                             *)
(*                                                                         *)
(* A probe runs without a lock: each step below is one await of            *)
(* probe_memory.  A query stands for its normalized key.                   *)
(***************************************************************************)
EXTENDS Naturals, FiniteSets

CONSTANTS
    Queries,
    Probes,          \* concurrent callers of probe_memory
    TTL,             \* RECALL_MISS_TTL_MS
    MaxRows,         \* MISS_CACHE_MAX_ROWS
    MaxTime,         \* bound on the clock
    MaxRow           \* bound on the rows ever added

Never == MaxTime + 1

VARIABLES
    now,
    knownSince,  \* when the graph began to answer a query, Never before that
    rows,        \* the cached misses: [id, query, created]
    nextRow,
    writer,      \* a writer of memory that still has to clear the cache
    probe        \* [at, query, started, row] of each probe

vars == <<now, knownSince, rows, nextRow, writer, probe>>

Idle == [at |-> "idle", query |-> CHOOSE q \in Queries : TRUE, started |-> 0, row |-> 0]

Init ==
    /\ now = 0
    /\ knownSince = [q \in Queries |-> Never]
    /\ rows = {}
    /\ nextRow = 1
    /\ writer = "none"
    /\ probe = [p \in Probes |-> Idle]

Known(q) == knownSince[q] <= now
RowOf(q) == {r \in rows : r.query = q}
Expired(r, t) == t - r.created > TTL /\ t >= r.created

TimePasses ==
    /\ now < MaxTime
    /\ now' = now + 1
    /\ UNCHANGED <<knownSince, rows, nextRow, writer, probe>>

\* A pass commits memory.  One that completes clears the cache afterwards; one that fails or is
\* killed leaves what it committed and clears nothing.
Learn(q) ==
    /\ ~Known(q) /\ writer = "none"
    /\ knownSince' = [knownSince EXCEPT ![q] = now]
    /\ writer' \in {"clear", "none"}
    /\ UNCHANGED <<now, rows, nextRow, probe>>

\* The hook of a completed pass.  A row whose removal fails is passed over.
Clear ==
    /\ writer = "clear"
    /\ rows' \in SUBSET rows
    /\ writer' = "none"
    /\ UNCHANGED <<now, knownSince, nextRow, probe>>

\* A forget takes memory away and clears the cache.
Forget(q) ==
    /\ Known(q)
    /\ knownSince' = [knownSince EXCEPT ![q] = Never]
    /\ rows' = {}
    /\ UNCHANGED <<now, nextRow, writer, probe>>

(***************************************************************************)
(* A probe.                                                                *)
(***************************************************************************)
\* is_fresh_miss: a fresh row answers the probe, an expired one is remembered for removal.
Probe(p, q) ==
    /\ probe[p].at = "idle"
    /\ LET found == RowOf(q)
           to(at, row) == [at |-> at, query |-> q, started |-> now, row |-> row]
       IN probe' = [probe EXCEPT ![p] =
            IF found = {} THEN to("search", 0)
            ELSE LET r == CHOOSE r \in found : TRUE
                 IN IF Expired(r, now) THEN to("prune", r.id) ELSE to("absent", r.id)]
    /\ UNCHANGED <<now, knownSince, rows, nextRow, writer>>

Prune(p) ==
    /\ probe[p].at = "prune"
    /\ rows' = {r \in rows : r.id # probe[p].row}
    /\ probe' = [probe EXCEPT ![p].at = "search"]
    /\ UNCHANGED <<now, knownSince, nextRow, writer>>

\* Mutant: a page that was not exhaustive is taken for an empty graph.
SearchNeverTruncated(p) ==
    /\ probe[p].at = "search"
    /\ \/ Known(probe[p].query) /\ probe' = [probe EXCEPT ![p].at = "found"]
       \/ probe' = [probe EXCEPT ![p].at = "record"]
    /\ UNCHANGED <<now, knownSince, rows, nextRow, writer>>

\* The search finds what is known, or fills its window with other rows and is not exhaustive; only
\* an exhaustive search that finds nothing is a miss.
Search(p) ==
    /\ probe[p].at = "search"
    /\ \/ Known(probe[p].query) /\ probe' = [probe EXCEPT ![p].at = "found"]
       \/ ~Known(probe[p].query) /\ probe' = [probe EXCEPT ![p].at = "record"]
       \/ probe' = [probe EXCEPT ![p].at = "found"]
    /\ UNCHANGED <<now, knownSince, rows, nextRow, writer>>

\* Mutant: the miss is dated when it is written, not when the probe began.
MissAtWrite(p, id) == [id |-> id, query |-> probe[p].query, created |-> now]

\* The miss carries the time the probe began.
Miss(p, id) == [id |-> id, query |-> probe[p].query, created |-> probe[p].started]

\* record_miss under the write lock: refresh the row, or add one if a full cache has an expired
\* row to give up.
RecordMiss(p) ==
    /\ probe[p].at = "record"
    /\ LET q == probe[p].query
           kept == IF Cardinality(rows) < MaxRows THEN rows
                   ELSE {r \in rows : ~Expired(r, probe[p].started)}
       IN \/ \E r \in RowOf(q) : /\ rows' = (rows \ {r}) \union {Miss(p, r.id)}
                                 /\ UNCHANGED nextRow
          \/ /\ RowOf(q) = {}
             /\ Cardinality(kept) < MaxRows
             /\ nextRow <= MaxRow
             /\ rows' = kept \union {Miss(p, nextRow)}
             /\ nextRow' = nextRow + 1
          \/ /\ RowOf(q) = {}
             /\ Cardinality(kept) >= MaxRows
             /\ rows' = kept
             /\ UNCHANGED nextRow
    /\ probe' = [probe EXCEPT ![p].at = "found"]
    /\ UNCHANGED <<now, knownSince, writer>>

\* The answer is given: "found" stands for one that came from the graph.
Answer(p) ==
    /\ probe[p].at \in {"absent", "found"}
    /\ probe' = [probe EXCEPT ![p] = Idle]
    /\ UNCHANGED <<now, knownSince, rows, nextRow, writer>>

Next ==
    \/ TimePasses \/ Clear
    \/ \E q \in Queries : Learn(q) \/ Forget(q)
    \/ \E p \in Probes : \/ \E q \in Queries : Probe(p, q)
                         \/ Prune(p) \/ Search(p) \/ RecordMiss(p) \/ Answer(p)

Spec == Init /\ [][Next]_vars

-----------------------------------------------------------------------------
TypeOK ==
    /\ now \in 0..MaxTime
    /\ knownSince \in [Queries -> 0..Never]
    /\ rows \subseteq [id : 1..MaxRow, query : Queries, created : 0..MaxTime]
    /\ nextRow \in 1..(MaxRow + 1)
    /\ writer \in {"none", "clear"}
    /\ probe \in [Probes -> [at : {"idle", "prune", "search", "record", "absent", "found"},
                             query : Queries, started : 0..MaxTime, row : 0..MaxRow]]

\* "That staleness only affects the probe channel and self-heals on the next formation clear or
\* the TTL": however probes, writers and clears interleave, a probe that is told from the cache
\* that nothing is known began at most the TTL after the graph learned the answer, and the cache
\* never grows past its cap (record_miss, is_fresh_miss).
StaleMissHeals ==
    /\ \A p \in Probes : probe[p].at = "absent" =>
            probe[p].started <= knownSince[probe[p].query] + TTL
    /\ Cardinality(rows) <= MaxRows
    /\ \A q \in Queries : Cardinality(RowOf(q)) <= 1
=============================================================================
