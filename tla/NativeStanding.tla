---------------------------- MODULE NativeStanding ----------------------------
(***************************************************************************)
(* The standing of a Skill in the native store (learning/native.rs and     *)
(* learning/native/settlement.rs): trials that freeze their baseline, the  *)
(* ledger of attempts and outcomes, and the verdicts that move the         *)
(* standing.  A verdict is prepared from a read of the Skill and of the    *)
(* ledger, kept, and committed later, if the Skill is still at the version *)
(* that was read.  The learning runtime prepares one verdict at a time and *)
(* may stop between any two steps; everybody else writes when they like.   *)
(*                                                                         *)
(* There is one Skill.  The Space's sequence is abstracted to what its two *)
(* readers ask of it: whether anything was committed since they began.     *)
(***************************************************************************)
EXTENDS Integers, FiniteSets, Sequences

CONSTANTS
    Jobs,         \* the learning jobs: each enrols one trial
    Pairs,        \* the pairs of a plan
    Cutoff,       \* Cutoff[j]: the frozen cutoff of j's plan
    MinEffect,    \* the effect that the paired rule asks for, its radius included, in pairs
    MaxFailures,  \* maximum_failure_rate, in pairs
    MaxClock,     \* bound: time
    MaxRevision,  \* bound: revisions of the Skill
    MaxGen,       \* bound: verdict generations of a job
    MaxEdits,     \* bound: corrections, withdrawals and second observations
    Values,       \* the outcomes that an observer reports, of "success", "failure", "unknown"
    Faults        \* what else happens: "safety", "outcome", "policy", "reader", "lost"

VARIABLES
    clock,
    skill,     \* [rev, status, ver, trial, eval]: the pointers are 0 when unset
    evals,     \* the EvaluationRecords, in the order of their commits
    started,   \* the AttemptRecords: attempt -> started_at
    outcomes,  \* the OutcomeRecords
    edits,     \* bound: how many of them were changed or repeated
    job,       \* the runtime's journal
    void,      \* the jobs whose safety evidence was corrected
    policy,    \* the jobs whose evaluation policy still is the frozen one
    run,       \* the verdict being prepared, by the runtime under its gate
    look,      \* a reader in validate_current_verdict_evidence
    shown      \* history: what it said last

vars == <<clock, skill, evals, started, outcomes, edits, job, void, policy, run, look, shown>>

NoVerdict == [kind |-> "none"]
NoRun     == [job |-> 0, fresh |-> TRUE]
NoLook    == [job |-> 0, fresh |-> TRUE]
NewJob    == [stage |-> "none", rev |-> 0, review |-> 0, activated |-> FALSE, pending |-> NoVerdict,
              gen |-> 0, safety |-> "none", eval |-> 0]

TypeOK ==
    /\ clock \in 0..MaxClock
    /\ skill.rev \in 1..MaxRevision /\ skill.trial \in Jobs \cup {0} /\ skill.eval \in 0..Len(evals)
    /\ skill.status \in {"proposed", "trialed", "adopted", "revoked"}
    /\ \A a \in DOMAIN started : a.job \in Jobs /\ a.pair \in Pairs /\ a.arm \in {"baseline", "treatment"}
    /\ \A o \in outcomes : o.attempt \in DOMAIN started /\ o.value \in Values
    /\ \A j \in Jobs : /\ job[j].stage \in {"none", "open", "expired", "settled"}
                       /\ job[j].safety \in {"none", "noted", "evidence", "done"}
                       /\ job[j].gen \in 0..MaxGen
    /\ void \subseteq Jobs /\ policy \subseteq Jobs

Init ==
    /\ clock = 0
    /\ skill = [rev |-> 1, status |-> "proposed", ver |-> 1, trial |-> 0, eval |-> 0]
    /\ evals = <<>> /\ started = [a \in {} |-> 0] /\ outcomes = {} /\ edits = 0
    /\ job = [j \in Jobs |-> NewJob] /\ void = {} /\ policy = Jobs
    /\ run = NoRun /\ look = NoLook /\ shown = [eval |-> 0, exact |-> TRUE]

Attempt(j, arm, p) == [job |-> j, arm |-> arm, pair |-> p]

\* A commit moves the Space's sequence under the readers.
Committed == run' = [run EXCEPT !.fresh = FALSE] /\ look' = [look EXCEPT !.fresh = FALSE]
Quiet     == UNCHANGED <<run, look>>

Tick ==
    /\ clock < MaxClock /\ clock' = clock + 1
    /\ UNCHANGED <<skill, evals, started, outcomes, edits, job, void, policy, shown>> /\ Quiet

(***************************************************************************)
(* The other writers.                                                      *)
(***************************************************************************)
\* Another revision is selected: it is unproven, and the pointers are cleared.
SelectRevision ==
    /\ skill.rev < MaxRevision /\ Committed
    /\ skill' = [rev |-> skill.rev + 1, status |-> "proposed", ver |-> skill.ver + 1,
                 trial |-> 0, eval |-> 0]
    /\ UNCHANGED <<clock, evals, started, outcomes, edits, job, void, policy, shown>>

\* An outcome is corrected, or its row withdrawn.
Amend(o, state) ==
    /\ "outcome" \in Faults /\ o.state = "active" /\ edits < MaxEdits /\ edits' = edits + 1 /\ Committed
    /\ outcomes' = (outcomes \ {o}) \cup {[o EXCEPT !.state = state]}
    /\ UNCHANGED <<clock, skill, evals, started, job, void, policy, shown>>

\* The observer reports an attempt again, under another key.
Repeat(o, value) ==
    /\ "outcome" \in Faults /\ o.n = 1 /\ ~\E q \in outcomes : q.attempt = o.attempt /\ q.n = 2
    /\ edits < MaxEdits /\ edits' = edits + 1 /\ Committed
    /\ outcomes' = outcomes \cup {[o EXCEPT !.n = 2, !.value = value, !.at = clock, !.state = "active"]}
    /\ UNCHANGED <<clock, skill, evals, started, job, void, policy, shown>>

\* The operator sets another evaluation policy for j.
ChangePolicy(j) ==
    /\ "policy" \in Faults /\ j \in policy /\ policy' = policy \ {j} /\ edits < MaxEdits /\ edits' = edits + 1
    /\ UNCHANGED <<clock, skill, evals, started, outcomes, job, void, shown>> /\ Quiet

\* The observer corrects its own safety evidence.
CorrectSignal(j) ==
    /\ job[j].safety = "evidence" /\ j \notin void /\ void' = void \cup {j} /\ Committed
    /\ UNCHANGED <<clock, skill, evals, started, outcomes, edits, job, policy, shown>>

(***************************************************************************)
(* Records.                                                                *)
(***************************************************************************)
\* validate_frozen: the policy in force is the one that was frozen with the plan.
Frozen(j) == j \in policy

\* An acquisition: the verdict that a monitoring plan may name (validate_records).
Acquisition(i, rev) ==
    /\ i \in DOMAIN evals /\ evals[i].rev = rev
    /\ evals[i].from = "trialed" /\ evals[i].to = "adopted" /\ evals[i].cmp = "improved"

\* A plan is installed and its baseline run; prepare_trial freezes the complete baseline
\* and the TrialRecord is committed.  A review names an acquisition of the revision.
Open(j, review, values) ==
    /\ job[j].stage = "none" /\ clock < Cutoff[j] /\ run = NoRun /\ Frozen(j) /\ Committed
    /\ review = 0 \/ Acquisition(review, skill.rev)
    /\ started' = [a \in DOMAIN started \cup {Attempt(j, "baseline", p) : p \in Pairs} |->
                     IF a.job = j THEN clock ELSE started[a]]
    /\ outcomes' = outcomes \cup {[attempt |-> Attempt(j, "baseline", p), n |-> 1, value |-> values[p],
                                   at |-> clock, state |-> "active"] : p \in Pairs}
    /\ job' = [job EXCEPT ![j] = [NewJob EXCEPT !.stage = "open", !.rev = skill.rev, !.review = review]]
    /\ UNCHANGED <<clock, skill, evals, edits, void, policy, shown>>

\* A treatment attempt is recorded once the job knows its activation.
Treat(j, p) ==
    /\ job[j].stage = "open" /\ job[j].activated /\ job[j].safety = "none" /\ run = NoRun
    /\ clock < Cutoff[j] /\ Attempt(j, "treatment", p) \notin DOMAIN started
    /\ started' = [a \in DOMAIN started \cup {Attempt(j, "treatment", p)} |->
                     IF a \in DOMAIN started THEN started[a] ELSE clock]
    /\ Committed
    /\ UNCHANGED <<clock, skill, evals, outcomes, edits, job, void, policy, shown>>

\* Its outcome, from the directly authenticated observer.
Observe(a, value) ==
    /\ a.arm = "treatment" /\ Frozen(a.job) /\ run = NoRun
    /\ ~\E o \in outcomes : o.attempt = a /\ o.n = 1
    /\ outcomes' = outcomes \cup {[attempt |-> a, n |-> 1, value |-> value, at |-> clock,
                                   state |-> "active"]}
    /\ Committed
    /\ UNCHANGED <<clock, skill, evals, started, edits, job, void, policy, shown>>

(***************************************************************************)
(* The ledger (evaluation_ledger) of a trial at a cutoff.                  *)
(***************************************************************************)
Baseline(j) == {Attempt(j, "baseline", p) : p \in Pairs}

Treated(j, cut) == {a \in DOMAIN started : a.job = j /\ a.arm = "treatment" /\ started[a] <= cut}

Eligible(o, cut) == o.state # "corrected" /\ o.at <= cut

Counted(j, cut, rows) == {o \in rows : o.attempt \in Baseline(j) \cup Treated(j, cut) /\ Eligible(o, cut)}

\* The rows give a ledger: the baseline is exactly the frozen one, no counted row was
\* withdrawn, and no attempt has two terminal outcomes.
Whole(j, cut, rows) ==
    /\ \A o \in rows : o.attempt \in Baseline(j) => (Eligible(o, cut) <=> o.n = 1)
    /\ \A o, q \in Counted(j, cut, rows) : o.state = "active" /\ (o.attempt = q.attempt => o = q)

Succeeds(a, rows) == \E o \in rows : o.attempt = a /\ o.value = "success"

\* PairedRule: a missing treatment outcome counts as a failure, an unknown baseline spoils
\* the comparison.
Compare(j, treated, rows) ==
    LET wins     == Cardinality({a \in treated : Succeeds(a, rows)})
        controls == Cardinality({a \in Baseline(j) : Succeeds(a, rows)})
    IN  IF \/ {a.pair : a \in treated} # Pairs
           \/ \E o \in rows : o.attempt.arm = "baseline" /\ o.value = "unknown"
        THEN "insufficient"
        ELSE IF wins - controls >= MinEffect /\ Cardinality(treated) - wins <= MaxFailures
             THEN "improved" ELSE "not_improved"

\* Rows are read one after the other: the baseline's first, the others at the end.
FirstRows(j) == {o \in outcomes : o.attempt \in Baseline(j)}
AllRows(j, first) == first \cup {o \in outcomes : o.attempt \notin Baseline(j)}

\* The Space's sequence is the same after the read as before it.
Unmoved(reader) == reader.fresh

(***************************************************************************)
(* Admission of a verdict.                                                 *)
(***************************************************************************)
\* validate_closed_trial_reentry: the trial that next would replace had its final verdict.
ClosedBefore(next) ==
    /\ skill.trial \notin {0, next} /\ skill.eval > 0
    /\ LET v == evals[skill.eval] IN
       /\ v.from = "trialed" /\ v.to = "trialed" /\ v.trial = skill.trial
       /\ v.cutoff = Cutoff[skill.trial] /\ v.cmp \in {"not_improved", "insufficient"}

\* validate_review_lineage: the standing rests on the acquisition that j reviews, directly
\* or through monitoring of that same acquisition.
InLineage(j) ==
    /\ Acquisition(job[j].review, job[j].rev) /\ skill.eval > 0
    /\ \/ skill.eval = job[j].review
       \/ LET v == evals[skill.eval] IN
          /\ v.from = "adopted" /\ v.to = "adopted" /\ v.cmp = "improved"
          /\ job[v.trial].review = job[j].review

\* settlement_skill and validate_frozen; a review's acquisition is in the records.
Bound(j) ==
    /\ skill.rev = job[j].rev /\ Frozen(j)
    /\ job[j].review > 0 => Acquisition(job[j].review, job[j].rev)

Reviewing(j) == job[j].review > 0 /\ skill.status = "adopted"

MayActivate(j) ==
    /\ Bound(j) /\ skill.status \in {"proposed", "trialed", "revoked"}
    /\ skill.status = "trialed" => ClosedBefore(j)

MaySettle(j) ==
    /\ Bound(j)
    /\ \/ Reviewing(j) /\ InLineage(j)
       \/ skill.status = "trialed" /\ skill.trial = j

\* target_status
TargetStatus(from, cmp) == IF cmp = "improved" THEN "adopted"
                           ELSE IF from = "trialed" THEN "trialed" ELSE "revoked"

(***************************************************************************)
(* The runtime, under its gate: prepare, keep, commit, accept.             *)
(***************************************************************************)
Idle(j) == run = NoRun /\ job[j].stage = "open" /\ job[j].pending = NoVerdict /\ job[j].safety = "none"

\* A standing that is reviewed needs no activation.
Monitor(j) ==
    /\ Idle(j) /\ ~job[j].activated /\ clock < Cutoff[j] /\ Bound(j) /\ Reviewing(j) /\ InLineage(j)
    /\ job' = [job EXCEPT ![j].activated = TRUE]
    /\ UNCHANGED <<clock, skill, evals, started, outcomes, edits, void, policy, run, look, shown>>

\* prepare_activation and prepare_settlement read the Skill and begin to read the ledger.
Begin(j, kind) ==
    /\ Idle(j)
    /\ IF kind = "activation" THEN ~job[j].activated /\ clock < Cutoff[j] /\ MayActivate(j)
       ELSE job[j].activated /\ clock >= Cutoff[j] /\ MaySettle(j)
    /\ run' = [job |-> j, kind |-> kind, skill |-> skill, rows |-> FirstRows(j), fresh |-> TRUE,
               cut |-> IF kind = "activation" THEN clock ELSE Cutoff[j]]
    /\ UNCHANGED <<clock, skill, evals, started, outcomes, edits, job, void, policy, look, shown>>

\* prepare_record; exact is history: whether the rows all are the present ones.
Verdict(j, kind, read, cut, cmp, to, T, O) ==
    [kind |-> kind, trial |-> IF kind = "safety" THEN 0 ELSE j, rev |-> job[j].rev, ver |-> read.ver,
     from |-> read.status, to |-> to, cutoff |-> cut, cmp |-> cmp, treated |-> T, rows |-> O,
     exact |-> kind = "safety" \/ O = Counted(j, cut, outcomes)]

\* The ledger is read to its end; a verdict is kept before it is executed.  An activation
\* precedes every treatment attempt and claims nothing.
Prepare ==
    /\ run # NoRun /\ run.job > 0 /\ run' = NoRun
    /\ LET j    == run.job
           rows == AllRows(j, run.rows)
           T    == Treated(j, run.cut)
           O    == Counted(j, run.cut, rows)
           cmp  == Compare(j, T, O)
           to   == IF run.kind = "activation" THEN "trialed" ELSE TargetStatus(run.skill.status, cmp)
       IN  IF /\ Unmoved(run) /\ Whole(j, run.cut, rows)
              /\ run.kind = "activation" => T = {} /\ cmp = "insufficient"
           THEN job' = [job EXCEPT ![j].pending = Verdict(j, run.kind, run.skill, run.cut, cmp, to, T, O)]
           ELSE job' = job
    /\ UNCHANGED <<clock, skill, evals, started, outcomes, edits, void, policy, look, shown>>

\* Without an activation there is nothing to settle.
Expire(j) ==
    /\ Idle(j) /\ ~job[j].activated /\ clock >= Cutoff[j]
    /\ job' = [job EXCEPT ![j].stage = "expired"]
    /\ UNCHANGED <<clock, skill, evals, started, outcomes, edits, void, policy, run, look, shown>>

\* A safety signal: the job notes it, the observer's evidence is recorded for the selected
\* revision, and the revocation is prepared from that evidence alone.
Note(j) ==
    /\ "safety" \in Faults /\ run = NoRun /\ job[j].stage # "none" /\ job[j].safety = "none"
    /\ job' = [job EXCEPT ![j].safety = "noted"]
    /\ UNCHANGED <<clock, skill, evals, started, outcomes, edits, void, policy, run, look, shown>>

RecordSignal(j) ==
    /\ run = NoRun /\ job[j].safety = "noted" /\ skill.rev = job[j].rev /\ Committed
    /\ job' = [job EXCEPT ![j].safety = "evidence"]
    /\ UNCHANGED <<clock, skill, evals, started, outcomes, edits, void, policy, shown>>

\* validated_safety_signal: the evidence is the observer's and was not corrected.
SignalStands(j) == j \notin void

PrepareSafety(j) ==
    /\ run = NoRun /\ job[j].safety = "evidence" /\ job[j].pending = NoVerdict
    /\ SignalStands(j) /\ skill.rev = job[j].rev
    /\ job' = [job EXCEPT ![j].pending =
                 Verdict(j, "safety", skill, clock, "safety_failure", "revoked", {}, {})]
    /\ UNCHANGED <<clock, skill, evals, started, outcomes, edits, void, policy, run, look, shown>>

(***************************************************************************)
(* A kept verdict is recovered by its key, executed, or given up.          *)
(***************************************************************************)
Key(j) == <<j, job[j].pending.kind, job[j].gen>>

Recorded(j) == {i \in DOMAIN evals : evals[i].key = Key(j)}

Pending(j) == run = NoRun /\ job[j].pending # NoVerdict

\* A verdict that the job's safety signal overtook.
Overtaken(j) == job[j].safety # "none" /\ job[j].pending.kind # "safety"

\* The receipt of the verdict moves the job.
Accepted(j, i) ==
    IF job[j].pending.kind = "activation"
    THEN [job[j] EXCEPT !.pending = NoVerdict, !.activated = TRUE]
    ELSE [job[j] EXCEPT !.pending = NoVerdict, !.stage = "settled", !.eval = i,
                        !.safety = IF job[j].pending.kind = "safety" THEN "done" ELSE @]

\* recover_verdict finds it committed.
Recover(j) ==
    /\ Pending(j) /\ Recorded(j) # {}
    /\ job' = [job EXCEPT ![j] = Accepted(j, CHOOSE i \in Recorded(j) : TRUE)]
    /\ UNCHANGED <<clock, skill, evals, started, outcomes, edits, void, policy, run, look, shown>>

\* validate_prepared, where it reads again: the safety evidence, the policy, and for a
\* re-entry the trial that it replaces.  A missing policy or revision is a conflict.
Reentering(j) == job[j].pending.kind = "activation" /\ job[j].pending.from = "trialed"
Stands(j) ==
    IF job[j].pending.kind = "safety" THEN TRUE
    ELSE Frozen(j) /\ (Reentering(j) => skill.rev = job[j].pending.rev)
Valid(j) ==
    IF job[j].pending.kind = "safety" THEN SignalStands(j) ELSE Reentering(j) => ClosedBefore(j)

\* EXPECT VERSION
ExpectedSkill(j) == skill.ver = job[j].pending.ver

\* Given up, with its key: overtaken by a safety signal, or in a definite conflict.
Discard(j) ==
    /\ Pending(j) /\ Recorded(j) = {} /\ job[j].gen < MaxGen
    /\ \/ Overtaken(j)
       \/ ~Stands(j)
       \/ Valid(j) /\ ~ExpectedSkill(j)
    /\ job' = [job EXCEPT ![j].pending = NoVerdict, ![j].gen = @ + 1]
    /\ UNCHANGED <<clock, skill, evals, started, outcomes, edits, void, policy, run, look, shown>>

\* execute_verdict: the EvaluationRecord and the standing with its pointers, in one
\* transaction; the answer may be lost.
Execute(j, lost) ==
    /\ Pending(j) /\ Recorded(j) = {} /\ ~Overtaken(j) /\ Stands(j) /\ Valid(j) /\ ExpectedSkill(j)
    /\ lost => "lost" \in Faults
    /\ LET p == job[j].pending IN
       /\ evals' = Append(evals, [key |-> Key(j), kind |-> p.kind, trial |-> p.trial, rev |-> p.rev,
                                  from |-> p.from, to |-> p.to, cutoff |-> p.cutoff, cmp |-> p.cmp,
                                  treated |-> p.treated, rows |-> p.rows, exact |-> p.exact,
                                  was |-> skill.status, prior |-> skill.trial])
       /\ skill' = [skill EXCEPT !.status = p.to, !.ver = @ + 1, !.trial = p.trial, !.eval = Len(evals) + 1]
       /\ job' = IF lost THEN job ELSE [job EXCEPT ![j] = Accepted(j, Len(evals) + 1)]
    /\ Committed
    /\ UNCHANGED <<clock, started, outcomes, edits, void, policy, shown>>

\* The process stops and starts again: what was not kept is lost.
Crash ==
    /\ run # NoRun /\ run' = NoRun
    /\ UNCHANGED <<clock, skill, evals, started, outcomes, edits, job, void, policy, look, shown>>

(***************************************************************************)
(* validate_current_verdict_evidence: a reader asks whether the evidence   *)
(* behind a settled verdict still is the ledger.                           *)
(***************************************************************************)
LookBegin(j) ==
    /\ "reader" \in Faults /\ look = NoLook /\ shown.eval = 0 /\ job[j].eval > 0 /\ evals[job[j].eval].kind = "settlement"
    /\ look' = [job |-> j, rows |-> FirstRows(j), fresh |-> TRUE]
    /\ UNCHANGED <<clock, skill, evals, started, outcomes, edits, job, void, policy, run, shown>>

LookEnd ==
    /\ look # NoLook /\ look.job > 0 /\ look' = NoLook
    /\ LET j    == look.job
           rows == AllRows(j, look.rows)
           v    == evals[job[j].eval] IN
       shown' = IF /\ Unmoved(look) /\ Whole(j, Cutoff[j], rows)
                   /\ v.treated = Treated(j, Cutoff[j]) /\ v.rows = Counted(j, Cutoff[j], rows)
                THEN [eval |-> job[j].eval, exact |-> v.rows = Counted(j, Cutoff[j], outcomes)]
                ELSE shown
    /\ UNCHANGED <<clock, skill, evals, started, outcomes, edits, job, void, policy, run>>

Next ==
    \/ Tick \/ SelectRevision \/ Crash \/ Prepare \/ LookEnd
    \/ \E o \in outcomes, state \in {"corrected", "withdrawn"} : Amend(o, state)
    \/ \E o \in outcomes, value \in Values : Repeat(o, value)
    \/ \E j \in Jobs :
          \/ ChangePolicy(j) \/ CorrectSignal(j)
          \/ \E review \in 0..Len(evals), values \in [Pairs -> Values] : Open(j, review, values)
          \/ \E p \in Pairs : Treat(j, p)
          \/ Monitor(j) \/ Begin(j, "activation") \/ Begin(j, "settlement") \/ Expire(j)
          \/ Note(j) \/ RecordSignal(j) \/ PrepareSafety(j)
          \/ Recover(j) \/ Discard(j) \/ (\E lost \in BOOLEAN : Execute(j, lost))
          \/ LookBegin(j)
    \/ \E a \in DOMAIN started, value \in Values : Observe(a, value)

Spec == Init /\ [][Next]_vars

(***************************************************************************)
(* Properties.                                                             *)
(***************************************************************************)
\* A verdict moves the standing that it was prepared on: nothing changed it in between,
\* whoever else wrote, and no key commits twice (settlement.rs: EXPECT VERSION, recovery by
\* key before every execution).
VerdictsFollow ==
    /\ \A i \in DOMAIN evals : evals[i].from = evals[i].was
    /\ \A i, k \in DOMAIN evals : evals[i].key = evals[k].key => i = k

\* An adoption is proved: by a complete cohort of this revision at the frozen cutoff, read
\* as one snapshot, that improved; an acquisition was activated before any of its attempts
\* (settlement.rs: prepare_activation, prepare_settlement, evaluation_ledger).
AdoptionIsProven ==
    skill.status = "adopted" =>
        LET v == evals[skill.eval] IN
        /\ v.rev = skill.rev /\ v.cmp = "improved" /\ v.exact /\ v.cutoff = Cutoff[v.trial]
        /\ {a.pair : a \in v.treated} = Pairs
        /\ v.from = "trialed" =>
              \E i \in 1..(skill.eval - 1) :
                 /\ evals[i].kind = "activation" /\ evals[i].trial = v.trial
                 /\ \A a \in v.treated : evals[i].cutoff <= started[a]

\* No cohort is dropped for a better one: a trial that another replaces had its final
\* verdict (settlement.rs: validate_closed_trial_reentry).
CohortsAreClosed ==
    \A i \in DOMAIN evals :
        evals[i].kind = "activation" /\ evals[i].was = "trialed" =>
            \E k \in 1..(i - 1) : evals[k].kind = "settlement" /\ evals[k].trial = evals[i].prior

\* Evidence that is reported current is exactly the ledger of the verdict, although rows
\* are read one by one while others change (settlement.rs: the sequence read twice).
ShownIsCurrent == shown.exact

===============================================================================
