--------------------------- MODULE EdgeMaintenance ---------------------------
(***************************************************************************)
(* Maintenance on the edge worker: a leased run per epoch, the durable     *)
(* page of superseded claims ("corrections") a cycle has to review, and    *)
(* the cursor that may pass them only once they were reviewed.             *)
(*                                                                         *)
(* The settlement scans superseded claims in (commit, id) order, a page at *)
(* a time.  A page stays pending over cycles until every claim of it was   *)
(* acknowledged by a plan that committed whole.  An erasure or a managed   *)
(* change drops the page, which is then found again from the cursor.       *)
(*                                                                         *)
(* The fence of EdgeBrain is seen here from the outside: erasures move the *)
(* epoch, and a managed change moves it and blocks every pass until it is  *)
(* applied.  One action is one call of the Durable Object.                 *)
(***************************************************************************)
EXTENDS Naturals, FiniteSets, FiniteSetsExt

CONSTANTS
  Workers,       \* concurrent maintenance requests
  Batch,         \* CORRECTION_SCAN_LIMIT: superseded claims one scan reads
  MaxEpoch,      \* bound on the epoch
  MaxRoots,      \* bound on superseded claims
  None

VARIABLES
  epoch,         \* CONTROL.epoch
  blocked,       \* CONTROL.pending or SCRUB is set
  roots,         \* superseded claims, as <<commit, id>>
  gone,          \* the ones that were purged since
  cursor,        \* CORRECTION_CURSOR_KEY: [seq, after]
  page,          \* PENDING: None or [roots, to]
  acked,         \* superseded claims some committed plan reviewed
  run,           \* RUN: None or [by, epoch, live]
  work           \* the Worker's passes: [at, epoch, seen]

vars == <<epoch, blocked, roots, gone, cursor, page, acked, run, work>>
fence == <<epoch, blocked>>

Claims == (1..MaxRoots) \X (1..MaxRoots)

TypeOK ==
  /\ epoch \in 0..MaxEpoch /\ blocked \in BOOLEAN
  /\ roots \subseteq Claims /\ gone \subseteq roots /\ acked \subseteq roots
  /\ cursor \in [seq: 0..MaxRoots, after: 0..MaxRoots]
  /\ page # None => page.roots \subseteq roots /\ page.roots # {}
  /\ run # None => run.epoch \in 0..epoch
  /\ \A w \in Workers : /\ work[w].at \in {"none", "planning", "closing"}
                        /\ work[w].seen \subseteq roots

Init ==
  /\ epoch = 0 /\ blocked = FALSE
  /\ roots = {} /\ gone = {} /\ acked = {}
  /\ cursor = [seq |-> 0, after |-> 0] /\ page = None
  /\ run = None
  /\ work = [w \in Workers |-> [at |-> "none", epoch |-> 0, seen |-> {}]]

-----------------------------------------------------------------------------
(* The fence, and where superseded claims come from.                       *)

Check(e) == ~blocked /\ e = epoch

\* A new commit's superseded claims: n of them, with ids after every other.
NewRoots(n) ==
  LET seq == 1 + Max({0} \cup {r[1] : r \in roots})
      id  == Max({0} \cup {r[2] : r \in roots})
  IN  {<<seq, id + i>> : i \in 1..n}

\* A Formation plan, or an administrative batch, supersedes claims.
Supersede(n) ==
  /\ ~blocked /\ Cardinality(roots) + n <= MaxRoots
  /\ roots' = roots \cup NewRoots(n)
  /\ UNCHANGED <<fence, gone, cursor, page, acked, run, work>>

\* invalidate: an erasure moves the epoch and drops the pending page; it may
\* purge superseded claims themselves.
Erase(dead) ==
  /\ Check(epoch) /\ epoch < MaxEpoch
  /\ epoch' = epoch + 1 /\ page' = None
  /\ gone' = gone \cup dead
  /\ UNCHANGED <<blocked, roots, cursor, acked, run, work>>

\* commit of a managed change puts the fence up.
Fence ==
  /\ ~blocked /\ epoch < MaxEpoch
  /\ epoch' = epoch + 1 /\ blocked' = TRUE
  /\ UNCHANGED <<roots, gone, cursor, page, acked, run, work>>

\* The change is confirmed: a correction supersedes one claim, and
\* clearMaintenanceContext drops the page.
Unfence(n) ==
  /\ blocked /\ Cardinality(roots) + n <= MaxRoots
  /\ blocked' = FALSE /\ page' = None
  /\ roots' = roots \cup NewRoots(n)
  /\ UNCHANGED <<epoch, gone, cursor, acked, run, work>>

-----------------------------------------------------------------------------
(* The settlement's correction scan.                                       *)

\* Whether a position comes after the cursor: a cursor with an id stopped
\* inside its commit.
After(r) == \/ r[1] > cursor.seq
            \/ r[1] = cursor.seq /\ cursor.after # 0 /\ r[2] > cursor.after

Earlier(a, b) == a[1] < b[1] \/ (a[1] = b[1] /\ a[2] < b[2])

\* Mutant: a full page forgets the id it stopped at.
ScanOfWholeCommits ==
  LET found == {r \in roots \ gone : After(r)}
      taken == {r \in found : Cardinality({q \in found : Earlier(q, r)}) < Batch}
  IN  [roots |-> taken,
       to |-> [seq |-> Max({cursor.seq} \cup {r[1] : r \in taken}), after |-> 0]]

\* scanCorrections: the next Batch superseded claims; a full page keeps the id
\* it stopped at, so that one commit may be read in two pages.
Scan ==
  LET found == {r \in roots \ gone : After(r)}
      taken == {r \in found : Cardinality({q \in found : Earlier(q, r)}) < Batch}
      last  == CHOOSE r \in taken : \A q \in taken : q = r \/ Earlier(q, r)
      full  == Cardinality(taken) = Batch
  IN  [roots |-> taken,
       to |-> IF taken = {} THEN [seq |-> cursor.seq, after |-> 0]
              ELSE [seq |-> last[1], after |-> IF full THEN last[2] ELSE 0]]

-----------------------------------------------------------------------------
(* One maintenance request.                                                *)

\* openMaintenance: admission, one leased run per epoch, the settlement that
\* keeps an unacknowledged page or scans the next one, and the snapshot.  A
\* failed scan saves nothing and offers nothing.
OpenRun(w) ==
  /\ work[w].at = "none" /\ Check(epoch)
  /\ ~(run # None /\ run.epoch = epoch /\ run.live)
  /\ LET scan == IF page # None THEN page ELSE Scan IN
     \/ /\ page' = IF scan.roots # {} THEN scan ELSE None
        /\ cursor' = IF scan.roots = {} THEN scan.to ELSE cursor
        /\ work' = [work EXCEPT ![w] = [at |-> "planning", epoch |-> epoch,
                                        seen |-> scan.roots]]
     \/ /\ page = None
        /\ work' = [work EXCEPT ![w] = [at |-> "planning", epoch |-> epoch,
                                        seen |-> {}]]
        /\ UNCHANGED <<page, cursor>>
  /\ run' = [by |-> w, epoch |-> epoch, live |-> TRUE]
  /\ UNCHANGED <<fence, roots, gone, acked>>

\* The run's deadline passes while its request still runs.
Expire ==
  /\ run # None /\ run.live
  /\ run' = [run EXCEPT !.live = FALSE]
  /\ UNCHANGED <<fence, roots, gone, cursor, page, acked, work>>

\* Mutant: acknowledging anything of a page passes the page.
AcknowledgePage(ids) ==
  IF page = None \/ ids = {} THEN UNCHANGED <<page, cursor>>
  ELSE page' = None /\ cursor' = page.to

\* acknowledge: reviewed claims leave the page, and the cursor passes the page
\* only when nothing of it remains.
Acknowledge(ids) ==
  IF page = None THEN UNCHANGED <<page, cursor>>
  ELSE IF page.roots \ ids # {}
       THEN page' = [page EXCEPT !.roots = @ \ ids] /\ UNCHANGED cursor
       ELSE page' = None /\ cursor' = page.to

\* Whether the call holds the lease it was given.
Leased(w) == run # None /\ run.by = w /\ run.epoch = work[w].epoch /\ run.live

\* executeMaintenancePlan: the fence, the lease, an acknowledgement of claims
\* still on the page, and only by a plan that committed whole.  The plan may
\* supersede claims itself before it acknowledges.
Plan(w) ==
  /\ work[w].at = "planning" /\ Check(work[w].epoch) /\ Leased(w)
  /\ \E ids \in SUBSET work[w].seen, n \in 0..2 :
       /\ ids \subseteq (IF page = None THEN {} ELSE page.roots)
       /\ Cardinality(roots) + n <= MaxRoots
       /\ roots' = roots \cup NewRoots(n)
       /\ \/ Acknowledge(ids) /\ acked' = acked \cup ids
          \/ UNCHANGED <<page, cursor, acked>>          \* a write failed
  /\ work' = [work EXCEPT ![w].at = "closing"]
  /\ UNCHANGED <<fence, gone, run>>

\* The plan is refused by the fence, the lease or the gate, or never came.
Refused(w) ==
  /\ work[w].at = "planning"
  /\ work' = [work EXCEPT ![w].at = "closing"]
  /\ UNCHANGED <<fence, roots, gone, cursor, page, acked, run>>

\* closeMaintenance releases only the run it took, before it checks the fence.
CloseRun(w) ==
  /\ work[w].at = "closing"
  /\ run' = IF run # None /\ run.by = w THEN None ELSE run
  /\ work' = [work EXCEPT ![w].at = "none"]
  /\ UNCHANGED <<fence, roots, gone, cursor, page, acked>>

\* The request dies; its lease stays until it expires.
Crash(w) ==
  /\ work[w].at # "none"
  /\ work' = [work EXCEPT ![w].at = "none"]
  /\ UNCHANGED <<fence, roots, gone, cursor, page, acked, run>>

Next ==
  \/ \E n \in 1..2 : Supersede(n)
  \/ \E dead \in SUBSET (roots \ gone) : Erase(dead)
  \/ Fence \/ Expire
  \/ \E n \in 0..1 : Unfence(n)
  \/ \E w \in Workers : OpenRun(w) \/ Plan(w) \/ Refused(w) \/ CloseRun(w) \/ Crash(w)

Spec == Init /\ [][Next]_vars

-----------------------------------------------------------------------------
\* The correction cursor never passes a superseded claim that no committed
\* plan reviewed, although commits are read in pages, runs expire and
\* overlap, plans fail and erasures drop the page (maintenance.ts acknowledge
\* and save, settle.ts scanCorrections).
CorrectionsAreReviewed ==
  \A r \in roots \ (acked \cup gone) : After(r)
=============================================================================
