------------------------- MODULE LearningScheduler -------------------------
(***************************************************************************)
(* The automatic pass of the learning runtime                              *)
(* (anda_brain/src/learning/runtime/scheduler.rs), with the parts of the   *)
(* catalog and of the review schedule it works on.                         *)
(*                                                                         *)
(* A pass resumes one safety signal, drives one job of the hot set and     *)
(* archives it when it is done, enrolls the follow-up of one due review    *)
(* or, when nothing is active, the next event of the registered source,    *)
(* and saves its cursors.  Each write of the journal is a step: a write    *)
(* may fail, which fails the operation it belongs to and not always the    *)
(* pass, and the process may stop between two of them.  Safety signals     *)
(* arrive at any time and take turns with the operations of the pass at    *)
(* the gate.  What one job goes through while it is driven is module       *)
(* Learning's; here it is active until it is settled, expired, or expired  *)
(* with an activation that a verdict must still close ("lapsed").          *)
(*                                                                         *)
(* The plan factory is the deployment's: the event after the cursor has    *)
(* the job of its number, and a due review gets any cohort made for it, a  *)
(* new one or one it was given before.                                     *)
(***************************************************************************)
EXTENDS Naturals, FiniteSets, Sequences, SequencesExt

CONSTANTS
  NumEvents,   \* events of the registered source
  NumCohorts,  \* follow-up cohorts the factory can make
  MaxHot,      \* maximum_jobs of the registration
  PageSize,    \* slots of a page of reviews
  MaxSignals,  \* bound on safety signals
  MaxFaults    \* bound on failed writes and stops

VARIABLES
  reserved,    \* enrollments/<id>
  stage,       \* jobs/<id>: "none" is no record
  archived,    \* jobs whose checkpoint carries the archive stamp
  review,      \* the review schedule of a job: its follow-up, 0 before there is one
  hot, slotOf, allocated,       \* the catalog
  reviews,     \* catalog/reviews/<slot>
  reviewCursor, driveCursor, sourceCursor,
  due,         \* reviews with a reason
  unresolved,  \* jobs with a dispatch no outcome has settled
  cohort,      \* the review a cohort was made for
  signalled,   \* catalog/safety: jobs whose signal is not finished
  revoked,     \* jobs with the verdict of their signal
  dropped,     \* jobs whose signal was taken off the list before their history was indexed
  safe,        \* the safety operation that holds the gate
  pass, faults

journalVars == <<reserved, stage, archived, review, hot, slotOf, allocated, reviews>>
cursorVars == <<reviewCursor, driveCursor, sourceCursor>>
worldVars == <<due, unresolved, cohort>>
safetyVars == <<signalled, revoked, dropped, safe>>
lsVars == <<journalVars, cursorVars, worldVars, safetyVars, pass, faults>>

Events == 1..NumEvents
Cohorts == (NumEvents + 1)..(NumEvents + NumCohorts)
Ids == Events \union Cohorts
Scheduled == DOMAIN review
Idle == [at |-> "idle"]

Init ==
  /\ reserved = {} /\ archived = {} /\ hot = {} /\ reviews = {}
  /\ stage = [i \in Ids |-> "none"]
  /\ review = <<>> /\ slotOf = <<>> /\ allocated = 0
  /\ reviewCursor = 0 /\ driveCursor = 0 /\ sourceCursor = 0
  /\ due = {} /\ unresolved = {} /\ cohort = [c \in Cohorts |-> 0]
  /\ signalled = {} /\ revoked = {} /\ dropped = {} /\ safe = Idle
  /\ pass = Idle /\ faults = 0

With(f, k, v) == [x \in DOMAIN f \union {k} |-> IF x = k THEN v ELSE f[x]]
Terminal == {"settled", "expired", "lapsed"}   \* JobStage::Settled, JobStage::Expired
Over == {"settled", "expired"}
Goto(at) == pass' = [pass EXCEPT !.at = at]

\* The archive and an enrollment hold the gate between their writes.
GateFree == safe = Idle /\ pass.at \notin {"stamp", "finish", "reserve", "slot", "create"}

-----------------------------------------------------------------------------
(***************************************************************************)
(* The environment.                                                        *)
(***************************************************************************)
\* A deadline passes, the environment or the evidence of a verdict changes.
ReviewFallsDue(i) ==
  /\ i \in Scheduled \ due
  /\ due' = due \union {i}
  /\ UNCHANGED <<journalVars, cursorVars, unresolved, cohort, safetyVars, pass, faults>>

\* The process stops; recover_catalog gives a reserved slot its job and takes an archived
\* one out of the hot set before the next pass.
Recovered(h) == h \ archived

Restart ==
  /\ faults < MaxFaults /\ faults' = faults + 1
  /\ stage' = [i \in Ids |-> IF i \in hot /\ stage[i] = "none" THEN "active" ELSE stage[i]]
  /\ hot' = Recovered(hot)
  /\ pass' = Idle /\ safe' = Idle
  /\ UNCHANGED <<reserved, archived, review, slotOf, allocated, reviews, cursorVars, worldVars,
                 signalled, revoked, dropped>>

-----------------------------------------------------------------------------
(***************************************************************************)
(* Safety signals: listed first, then a verdict that settles the job       *)
(* whatever its stage, the index of an archived one, and off the list.     *)
(***************************************************************************)
Resumed(i) == safe' = [at |-> IF i \notin revoked THEN "verdict" ELSE "index", id |-> i]

\* submit_safety_signal, of which a job takes one.
SafetySignal(i) ==
  /\ GateFree /\ stage[i] # "none"
  /\ i \notin signalled \union revoked /\ Cardinality(signalled \union revoked) < MaxSignals
  /\ signalled' = signalled \union {i}
  /\ Resumed(i)
  /\ UNCHANGED <<journalVars, cursorVars, worldVars, revoked, dropped, pass, faults>>

\* The observer sends its signal again: one that has its verdict is only taken off the list.
SignalAgain(i) ==
  /\ GateFree /\ i \in signalled
  /\ IF i \in revoked
     THEN /\ signalled' = signalled \ {i}
          /\ dropped' = IF i \in Scheduled /\ i \in archived /\ slotOf[i] \notin reviews
                        THEN dropped \union {i} ELSE dropped
          /\ UNCHANGED safe
     ELSE Resumed(i) /\ UNCHANGED <<signalled, dropped>>
  /\ UNCHANGED <<journalVars, cursorVars, worldVars, revoked, pass, faults>>

\* The review of a follow-up, or of a job that has one, is renewed with the verdict.
RevokingVerdict ==
  /\ safe.at = "verdict"
  /\ LET i == safe.id
     IN  /\ stage' = [stage EXCEPT ![i] = "settled"]
         /\ review' = IF i \in Scheduled \union Cohorts THEN With(review, i, 0) ELSE review
         /\ revoked' = revoked \union {i}
  /\ safe' = [safe EXCEPT !.at = "index"]
  /\ UNCHANGED <<reserved, archived, hot, slotOf, allocated, reviews, cursorVars, worldVars,
                 signalled, dropped, pass, faults>>

\* index_history of a job that carries the archive stamp.
IndexRevoked ==
  /\ safe.at = "index"
  /\ reviews' = IF safe.id \in archived \intersect Scheduled
                THEN reviews \union {slotOf[safe.id]} ELSE reviews
  /\ safe' = [safe EXCEPT !.at = "untrack"]
  /\ UNCHANGED <<reserved, stage, archived, review, hot, slotOf, allocated, cursorVars, worldVars,
                 signalled, revoked, dropped, pass, faults>>

Untrack ==
  /\ safe.at = "untrack"
  /\ signalled' = signalled \ {safe.id}
  /\ safe' = Idle
  /\ UNCHANGED <<journalVars, cursorVars, worldVars, revoked, dropped, pass, faults>>

SafetyFails ==
  /\ safe # Idle
  /\ faults < MaxFaults /\ faults' = faults + 1
  /\ safe' = Idle
  /\ UNCHANGED <<journalVars, cursorVars, worldVars, signalled, revoked, dropped, pass>>

-----------------------------------------------------------------------------
(***************************************************************************)
(* A pass: the job whose turn it is.                                       *)
(***************************************************************************)
Jobs == SetToSortSeq(hot, <)
Turn == (driveCursor % Len(Jobs)) + 1

\* kick and the start of automatic_pass: the readiness of its bindings.
Begin ==
  /\ pass = Idle
  /\ \E ready \in BOOLEAN :
       pass' = [at |-> "safety", row |-> 0, count |-> 0, ready |-> ready, next |-> 0,
                source |-> 0, id |-> 0]
  /\ UNCHANGED <<journalVars, cursorVars, worldVars, safetyVars, faults>>

\* The first listed signal is settled, and so is the open one of the job whose turn it is.
ResumeSafety ==
  /\ GateFree /\ signalled # {}
  /\ \/ pass.at = "safety" /\ Resumed(Min(signalled)) /\ Goto("turn")
     \/ /\ pass.at = "drive" /\ pass.ready
        /\ pass.row \in signalled \ revoked /\ Resumed(pass.row) /\ Goto("archive")
  /\ UNCHANGED <<journalVars, cursorVars, worldVars, signalled, revoked, dropped, faults>>

\* No signal is listed, or its observer has to authenticate afresh.
SkipSafety ==
  /\ pass.at = "safety"
  /\ Goto("turn")
  /\ UNCHANGED <<journalVars, cursorVars, worldVars, safetyVars, faults>>

\* One hot job without a record fails the pass.
TakeTurn ==
  /\ pass.at = "turn"
  /\ \A i \in hot : stage[i] # "none"
  /\ pass' = [pass EXCEPT !.at    = IF hot = {} THEN "page" ELSE "drive",
                          !.row   = IF hot = {} THEN 0 ELSE Jobs[Turn],
                          !.count = IF hot = {} THEN 1 ELSE Len(Jobs)]
  /\ UNCHANGED <<journalVars, cursorVars, worldVars, safetyVars, faults>>

\* What drive may make of an active job, and at the cutoff settle of one that is not settled:
\* one that expired without an activation stays as it is.
Outcomes(i) ==
  {stage[i]} \union CASE stage[i] = "active" -> Terminal
                      [] stage[i] = "lapsed" -> {"settled"}
                      [] OTHER -> {}

\* A verdict that adopts, and any on a follow-up, schedules a review.
Reviewed(i, to) ==
  IF stage[i] # "settled" /\ to = "settled"
  THEN {With(review, i, 0)} \union (IF i \in Cohorts THEN {} ELSE {review})
  ELSE {review}

\* drive, poll_observer and, at the cutoff, settle of the one job.
Driven(i) ==
  \E to \in Outcomes(i), open \in BOOLEAN :
    /\ stage' = [stage EXCEPT ![i] = to]
    /\ unresolved' = IF open /\ (i \in unresolved \/ stage[i] = "active")
                     THEN unresolved \union {i} ELSE unresolved \ {i}
    /\ review' \in Reviewed(i, to)

Drive ==
  /\ pass.at = "drive" /\ GateFree
  /\ IF pass.ready /\ pass.row \notin signalled \ revoked
     THEN Driven(pass.row) ELSE UNCHANGED <<stage, unresolved, review>>
  /\ Goto("archive")
  /\ UNCHANGED <<reserved, archived, hot, slotOf, allocated, reviews, cursorVars, due, cohort,
                 safetyVars, faults>>

\* archive: the history is indexed, the checkpoint stamped, and the slot given up.  A job
\* with a dispatch or a signal that is open stays, and one that was activated and has no
\* native verdict.
Archivable(i) ==
  stage[i] \in {"settled", "expired"} /\ i \notin unresolved \union (signalled \ revoked)

IndexUnlessFollowed(i) == i \in Scheduled /\ review[i] = 0

Indexed(i) == i \in Scheduled

Index ==
  /\ pass.at = "archive" /\ GateFree
  /\ IF pass.row \in archived THEN Goto("finish") /\ UNCHANGED reviews
     ELSE IF Archivable(pass.row)
     THEN /\ reviews' = IF Indexed(pass.row) THEN reviews \union {slotOf[pass.row]} ELSE reviews
          /\ Goto("stamp")
     ELSE Goto("page") /\ UNCHANGED reviews
  /\ UNCHANGED <<reserved, stage, archived, review, hot, slotOf, allocated, cursorVars, worldVars,
                 safetyVars, faults>>

Stamp ==
  /\ pass.at = "stamp"
  /\ archived' = archived \union {pass.row}
  /\ Goto("finish")
  /\ UNCHANGED <<reserved, stage, review, hot, slotOf, allocated, reviews, cursorVars, worldVars,
                 safetyVars, faults>>

FinishArchive ==
  /\ pass.at = "finish"
  /\ hot' = hot \ {pass.row}
  /\ Goto("page")
  /\ UNCHANGED <<reserved, stage, archived, review, slotOf, allocated, reviews, cursorVars,
                 worldVars, safetyVars, faults>>

-----------------------------------------------------------------------------
(***************************************************************************)
(* A pass: one due review.                                                 *)
(***************************************************************************)
PageEnd == IF reviewCursor + PageSize < allocated THEN reviewCursor + PageSize ELSE allocated
Paged == {i \in DOMAIN slotOf : slotOf[i] \in reviews /\ slotOf[i] \in (reviewCursor + 1)..PageEnd}

\* A follow-up that has a record, and has not expired without effect, owns the schedule.
Succeeded(i) == review[i] # 0 /\ stage[review[i]] \notin {"none", "expired"}
Due(i) == i \in Scheduled /\ ~Succeeded(i) /\ (i \in due \/ review[i] # 0)

\* Hot jobs in the order of their ids, then archived ones in the order of their slots.
DueReviews ==
  SelectSeq(Jobs \o SetToSortSeq(Paged \ hot, LAMBDA i, j : slotOf[i] < slotOf[j]), Due)

\* Is the storage there for another job?
Capacity == Cardinality(hot) < MaxHot

\* prepare_enrollment: an id that has a job is enrolled already, and one that has a
\* reservation goes on where it stopped.
EnrolledWhileHot(id) == id \in hot

Enrolled(id) == stage[id] # "none"

Admits(id) ==
  \/ Enrolled(id)
  \/ id \in reserved
  \/ Capacity /\ \A i \in hot : stage[i] \in Over

\* enroll_review_origin: a follow-up may be replaced only by a later cohort, when it has
\* no record or has expired without effect.
Replaces(i, id) ==
  review[i] \notin {0, id} =>
    \/ stage[review[i]] = "none"
    \/ stage[review[i]] = "expired" /\ review[i] < id

Enrolls(from, id) == pass' = [pass EXCEPT !.at = "reserve", !.source = from, !.id = id]
NextPage == IF PageEnd = allocated THEN 0 ELSE PageEnd

\* The page is read, and the first due review of it offered to the plan factory.
ReviewPage ==
  /\ pass.at = "page"
  /\ pass' = [pass EXCEPT !.next = NextPage,
                          !.at = IF pass.ready /\ DueReviews # <<>> THEN "review" ELSE "source",
                          !.source = IF DueReviews # <<>> THEN Head(DueReviews) ELSE 0]
  /\ UNCHANGED <<journalVars, cursorVars, worldVars, safetyVars, faults>>

\* The factory has no cohort, is unavailable, or the enrollment is refused.
ReviewBlocked ==
  /\ pass.at = "review"
  /\ Goto("source")
  /\ UNCHANGED <<journalVars, cursorVars, worldVars, safetyVars, faults>>

\* The link to the follow-up is durable before the follow-up is.
EnrollReview(id) ==
  LET i == pass.source
  IN  /\ pass.at = "review"
      /\ cohort[id] \in {0, i}
      /\ cohort' = [cohort EXCEPT ![id] = i]
      /\ stage[i] = "settled" /\ GateFree
      /\ Replaces(i, id)
      /\ hot' = Recovered(hot)
      /\ Admits(id)
      /\ review' = [review EXCEPT ![i] = id]
      /\ IF Enrolled(id) THEN Goto("advance") ELSE Enrolls(i, id)
      /\ UNCHANGED <<reserved, stage, archived, slotOf, allocated, reviews, cursorVars, due,
                     unresolved, safetyVars, faults>>

-----------------------------------------------------------------------------
(***************************************************************************)
(* A pass: one event of the source.                                        *)
(***************************************************************************)
\* Only with nothing active in the hot set, and room for one more.
Open == pass.ready /\ Capacity /\ \A i \in hot : stage[i] \in Terminal

\* jobs() fails the pass when a hot job has no record.
Disappeared ==
  /\ pass.at = "turn" \/ (pass.at = "source" /\ pass.ready /\ Capacity)
  /\ \E i \in hot : stage[i] = "none"

SourceBlocked ==
  /\ pass.at = "source" /\ ~Disappeared
  /\ Goto("advance")
  /\ UNCHANGED <<journalVars, cursorVars, worldVars, safetyVars, faults>>

EnrollSource ==
  LET id == sourceCursor + 1
  IN  /\ pass.at = "source" /\ Open /\ GateFree
      /\ id \in Events
      /\ hot' = Recovered(hot)
      /\ Admits(id)
      /\ IF Enrolled(id) THEN pass' = [pass EXCEPT !.at = "cursor", !.id = id]
         ELSE Enrolls(0, id)
      /\ UNCHANGED <<reserved, stage, archived, review, slotOf, allocated, reviews, cursorVars,
                     worldVars, safetyVars, faults>>

-----------------------------------------------------------------------------
(***************************************************************************)
(* create_job: the input of a replay, a slot of the catalog, the job.      *)
(***************************************************************************)
Reserve ==
  /\ pass.at = "reserve"
  /\ reserved' = reserved \union {pass.id}
  /\ Goto("slot")
  /\ UNCHANGED <<stage, archived, review, hot, slotOf, allocated, reviews, cursorVars, worldVars,
                 safetyVars, faults>>

TakeSlot ==
  /\ pass.at = "slot" /\ Capacity
  /\ hot' = hot \union {pass.id}
  /\ allocated' = allocated + 1
  /\ slotOf' = With(slotOf, pass.id, allocated + 1)
  /\ Goto("create")
  /\ UNCHANGED <<reserved, stage, archived, review, reviews, cursorVars, worldVars, safetyVars, faults>>

Create ==
  /\ pass.at = "create"
  /\ stage' = [stage EXCEPT ![pass.id] = "active"]
  /\ Goto(IF pass.source = 0 THEN "cursor" ELSE "advance")
  /\ UNCHANGED <<reserved, archived, review, hot, slotOf, allocated, reviews, cursorVars,
                 worldVars, safetyVars, faults>>

\* A write of the enrollment fails: it is reported as blocked and the pass goes on.  A
\* write of the archive fails the same way.
WriteFails ==
  /\ faults < MaxFaults /\ faults' = faults + 1
  /\ \/ pass.at \in {"reserve", "slot", "create"}
        /\ Goto(IF pass.source = 0 THEN "advance" ELSE "source")
     \/ pass.at \in {"stamp", "finish"} /\ Goto("page")
     \/ pass.at \in {"cursor", "advance"} /\ pass' = Idle
  /\ UNCHANGED <<journalVars, cursorVars, worldVars, safetyVars>>

JobDisappeared ==
  /\ Disappeared
  /\ pass' = Idle
  /\ UNCHANGED <<journalVars, cursorVars, worldVars, safetyVars, faults>>

-----------------------------------------------------------------------------
(***************************************************************************)
(* The end of a pass.                                                      *)
(***************************************************************************)
SaveSourceCursor ==
  /\ pass.at = "cursor"
  /\ sourceCursor' = pass.id
  /\ Goto("advance")
  /\ UNCHANGED <<journalVars, reviewCursor, driveCursor, worldVars, safetyVars, faults>>

AdvanceScheduler ==
  /\ pass.at = "advance" /\ GateFree
  /\ reviewCursor' = pass.next
  /\ driveCursor' = (driveCursor + 1) % pass.count
  /\ pass' = Idle
  /\ UNCHANGED <<journalVars, sourceCursor, worldVars, safetyVars, faults>>

Next ==
  \/ \E i \in Ids : SafetySignal(i) \/ SignalAgain(i)
  \/ RevokingVerdict \/ IndexRevoked \/ Untrack \/ SafetyFails
  \/ Begin \/ ResumeSafety \/ SkipSafety \/ TakeTurn \/ Drive \/ Index \/ Stamp \/ FinishArchive
  \/ ReviewPage \/ ReviewBlocked \/ SourceBlocked \/ EnrollSource
  \/ \E id \in Cohorts : EnrollReview(id)
  \/ Reserve \/ TakeSlot \/ Create \/ WriteFails \/ JobDisappeared
  \/ SaveSourceCursor \/ AdvanceScheduler \/ Restart
  \/ \E i \in Ids : ReviewFallsDue(i)

Spec == Init /\ [][Next]_lsVars

-----------------------------------------------------------------------------
(***************************************************************************)
(* Properties.                                                             *)
(***************************************************************************)
\* However often an enrollment is interrupted or handed in again, an id has one slot of
\* the retained storage, and every slot that was allocated is an id's.
OneSlotPerJob ==
  /\ allocated = Cardinality(DOMAIN slotOf)
  /\ IsInjective(slotOf)

\* The source cursor never passes an event that has no job.
NoEventIsSkipped == \A e \in 1..sourceCursor : stage[e] # "none"

\* A review that is owed is found by some later pass: its job is hot, its slot is indexed,
\* or its job is listed with a safety signal, which the pass settles and then indexes.  A
\* signal that is sent again after a stop between its verdict and the index is taken off
\* the list without it (settlement.rs:443-447), and such a review is not found.
ReviewsAreFound ==
  \A i \in Scheduled : i \in hot \union signalled \union dropped \/ slotOf[i] \in reviews

\* The obligations of the learning scheduler survive stops and failed writes at any step
\* of a pass (scheduler.rs:375-622, catalog.rs:313-341, applicability.rs:237-321), and of a
\* safety signal (settlement.rs:343-371).
SchedulerKeepsObligations ==
  OneSlotPerJob /\ NoEventIsSkipped /\ ReviewsAreFound
=============================================================================
