------------------------------ MODULE Learning ------------------------------
(***************************************************************************)
(* A learning trial of one Skill revision: it is enrolled, a baseline and  *)
(* a treatment attempt of each pair is dispatched outside and observed     *)
(* independently, and at a fixed cutoff a native verdict settles it. An    *)
(* independent safety signal revokes the revision at any moment.           *)
(*                                                                         *)
(* Every operation holds the gate of the Space from its first read to its  *)
(* last write; only a safety signal does something before it waits for the *)
(* gate: it publishes a barrier and cancels the callback under way. The    *)
(* job is a journal; the native graph answers by idempotency key.          *)
(***************************************************************************)
EXTENDS Integers, FiniteSets, TLC

CONSTANTS
    Pairs,          \* the predeclared cohort
    Signals,        \* safety signals, which differ in their digest
    Observations,   \* contents an observer may submit for an attempt
    MaxGen,         \* bound on the generations of a verdict
    Faults,         \* which of "crash", "fail", "foreign" and "disable" may happen
    MaxFaults       \* bound on their number

VARIABLES
    records, recorded, permit, standing, verdicts, evidence,    \* the native graph
    prepared, slot, job, listed, enabled,                       \* the journal
    call, active, sig, barriers,                                \* this process
    started,                                                    \* callbacks that began outside
    now, faults

native == <<records, recorded, permit, standing, verdicts, evidence>>
journal == <<prepared, slot, job, listed, enabled>>
process == <<call, active, sig, barriers>>
vars == <<native, journal, process, started, now, faults>>

None == [none |-> TRUE]
Idle == [at |-> "idle"]
Keys == {"baseline", "treatment"} \X Pairs

\* Business time: attempts live for one unit; the window closes at Cutoff.
Cutoff == 2
Late == Cutoff + 1

NewJob == [stage |-> "Installing", pending |-> [op |-> "plan"], trial |-> FALSE, activated |-> FALSE,
           attempts |-> <<>>, verdict |-> None, gen |-> 0, safety |-> None, evaluated |-> FALSE,
           cursor |-> 0, archived |-> FALSE]

Init ==
    /\ records = {} /\ recorded = [k \in Keys |-> None] /\ permit = [k \in Keys |-> "none"]
    /\ standing = [status |-> "proposed", version |-> 0] /\ verdicts = {} /\ evidence = {}
    /\ prepared = FALSE /\ slot = "none" /\ job = None /\ listed = FALSE /\ enabled = TRUE
    /\ call = Idle /\ active = None /\ sig = [s \in Signals |-> "idle"] /\ barriers = {}
    /\ started = [k \in Keys |-> 0]
    /\ now = 0 /\ faults = 0

Goto(at) == call' = [call EXCEPT !.at = at]

\* The operation ends; a signal that held the gate has its answer.
Answered == IF call.by = "signal" THEN [sig EXCEPT ![call.s] = "idle"] ELSE sig
End == call' = Idle /\ sig' = Answered

Attempt(k) == job.attempts[k]
SetState(k, state) == [job EXCEPT !.attempts[k].state = state]
Unlinked == {k \in DOMAIN job.attempts : Attempt(k).state = "Observed" /\ ~(Attempt(k).linked /\ Attempt(k).done)}
Unobserved == {k \in DOMAIN job.attempts : Attempt(k).state # "Observed"}
SafetyOpen == job.safety # None /\ ~job.safety.evaluated

-----------------------------------------------------------------------------
(* Around the runtime. *)

Tick ==
    /\ now < Late
    /\ now' = now + 1
    /\ UNCHANGED <<native, journal, process, started, faults>>

Fault(f) == f \in Faults /\ faults < MaxFaults /\ faults' = faults + 1

\* The process stops; connect recovers the catalogue before anything else.
Crash ==
    /\ Fault("crash")
    /\ call' = [at |-> "recover", by |-> "connect"]
    /\ active' = None /\ barriers' = {} /\ sig' = [s \in Signals |-> "idle"]
    /\ UNCHANGED <<native, journal, started, now>>

\* A store, a native call or a bounded number of rounds fails the operation.
Fail ==
    /\ Fault("fail")
    /\ call # Idle /\ call.at \notin {"register", "barrier", "select"}
    /\ End
    /\ active' = None
    /\ UNCHANGED <<native, journal, barriers, started, now>>

\* The Skill is edited by someone else.
Foreign ==
    /\ Fault("foreign")
    /\ standing' = [standing EXCEPT !.version = @ + 1]
    /\ UNCHANGED <<records, recorded, permit, verdicts, evidence, journal, process, started, now>>

SetEnabled ==
    /\ Fault("disable")
    /\ call = Idle
    /\ enabled' = ~enabled
    /\ UNCHANGED <<native, prepared, slot, job, listed, process, started, now>>

\* recover_catalog: a reserved enrollment gets its job, an open signal its mark, and an
\* archived job leaves the hot set.
Recover ==
    /\ call.at = "recover"
    /\ job' = IF slot = "hot" /\ job = None THEN NewJob ELSE job
    /\ listed' = (listed \/ (slot = "hot" /\ job # None /\ SafetyOpen))
    /\ slot' = IF slot = "hot" /\ job # None /\ job.archived THEN "archived" ELSE slot
    /\ End
    /\ UNCHANGED <<native, prepared, enabled, active, barriers, started, now, faults>>

-----------------------------------------------------------------------------
(* enroll: the input of a replay, a hot slot, the job, the frozen plan. *)

EnrollBegin ==
    /\ call = Idle /\ enabled
    /\ \/ /\ job = None /\ now < Cutoff
          /\ prepared' = TRUE
          /\ call' = [at |-> "reserve", by |-> "enroll"]
       \/ /\ job # None /\ job.pending # None /\ job.pending.op = "plan"
          /\ call' = [at |-> "resume", by |-> "enroll"]
          /\ UNCHANGED prepared
    /\ UNCHANGED <<native, slot, job, listed, enabled, active, sig, barriers, started, now, faults>>

Reserve ==
    /\ call.at = "reserve"
    /\ slot' = "hot"
    /\ Goto("create")
    /\ UNCHANGED <<native, prepared, job, listed, enabled, active, sig, barriers, started, now, faults>>

Create ==
    /\ call.at = "create"
    /\ job' = IF job = None THEN NewJob ELSE job
    /\ Goto("resume")
    /\ UNCHANGED <<native, prepared, slot, listed, enabled, active, sig, barriers, started, now, faults>>

-----------------------------------------------------------------------------
(* Native intents: saved first, then committed under their key, then       *)
(* accepted.                                                                *)

Op(p) == IF p.op \in {"plan", "trial"} THEN <<p.op>> ELSE <<p.op, p.key>>

\* resume_native: the same key is committed once and answers as it did.
Resume ==
    /\ call.at = "resume"
    /\ IF job.pending = None THEN call' = [call EXCEPT !.at = "link"] @@ [left |-> {}] /\ UNCHANGED native
       ELSE /\ records' = records \cup {Op(job.pending)}
            /\ recorded' = IF job.pending.op = "outcome" /\ recorded[job.pending.key] = None
                           THEN [recorded EXCEPT ![job.pending.key] = job.pending.digest] ELSE recorded
            /\ Goto("accept")
            /\ UNCHANGED <<permit, standing, verdicts, evidence>>
    /\ UNCHANGED <<journal, active, sig, barriers, started, now, faults>>

Accepted ==
    LET p == job.pending
        j == [job EXCEPT !.pending = None]
    IN CASE p.op = "plan" -> [j EXCEPT !.stage = "Baseline"]
         [] p.op = "attempt" -> [j EXCEPT !.attempts[p.key].ref = TRUE]
         [] p.op = "trial" -> [j EXCEPT !.trial = TRUE, !.stage = "Treatment"]
         [] p.op = "outcome" -> [j EXCEPT !.attempts[p.key].state = "Observed", !.attempts[p.key].digest = p.digest,
                                          !.cursor = @ + 1]

Accept ==
    /\ call.at = "accept"
    /\ job' = Accepted
    /\ call' = [at |-> "link", by |-> call.by, left |-> Unlinked']
    /\ UNCHANGED <<native, prepared, slot, listed, enabled, active, sig, barriers, started, now, faults>>

\* reconcile_outboxes: the native outbox of an observed attempt is closed with its outcome;
\* its task completes unless the lease was lost.
Link ==
    /\ call.at = "link"
    /\ \E k \in call.left :
         /\ permit' = [permit EXCEPT ![k] = "closed"]
         /\ \/ call' = [call EXCEPT !.at = "linked"] @@ [key |-> k, done |-> TRUE] /\ UNCHANGED faults
            \/ call' = [call EXCEPT !.at = "linked"] @@ [key |-> k, done |-> FALSE] /\ Fault("fail")
    /\ UNCHANGED <<records, recorded, standing, verdicts, evidence, journal, active, sig, barriers, started, now>>

Linked ==
    /\ call.at = "linked"
    /\ job' = [job EXCEPT !.attempts[call.key].linked = TRUE, !.attempts[call.key].done = call.done]
    /\ call' = [at |-> "link", by |-> call.by, left |-> call.left \ {call.key}]
    /\ UNCHANGED <<native, prepared, slot, listed, enabled, active, sig, barriers, started, now, faults>>

LinkedAll ==
    /\ call.at = "link" /\ call.left = {}
    /\ CASE call.by \in {"enroll", "outcome"} -> End
         [] call.by \in {"drive", "settle", "archive"} -> call' = [at |-> call.by, by |-> call.by] /\ UNCHANGED sig
    /\ UNCHANGED <<native, journal, active, barriers, started, now, faults>>

Loop(by) == [at |-> "link", by |-> by, left |-> Unlinked]

-----------------------------------------------------------------------------
(* drive: rounds until there is something to wait for. *)

DriveBegin ==
    /\ call = Idle /\ job # None /\ enabled
    /\ call' = Loop("drive")
    /\ UNCHANGED <<native, journal, active, sig, barriers, started, now, faults>>

\* The round goes on with an attempt or a stage: nothing is pending, no signal is open,
\* no verdict is under way and the window is open.
Blocked == listed \/ SafetyOpen
Window == now < Cutoff /\ job.stage # "Expired"
Driving ==
    /\ call.at = "drive"
    /\ job.pending = None /\ job.stage # "Settled" /\ ~Blocked /\ job.verdict = None
    /\ job.stage # "ReadyForEvaluation"

DriveWait ==
    /\ call.at = "drive"
    /\ \/ job.pending # None /\ job.pending.op = "outcome"
       \/ job.pending = None /\ (job.stage = "Settled" \/ Blocked)
       \/ job.pending = None /\ job.verdict = None /\ job.stage = "ReadyForEvaluation"
       \/ Driving /\ Window /\ (job.trial => job.activated) /\ \E k \in Unobserved : Attempt(k).state = "AwaitingOutcome"
    /\ End
    /\ UNCHANGED <<native, journal, active, barriers, started, now, faults>>

DriveResume ==
    /\ call.at = "drive"
    /\ \/ /\ job.pending # None /\ job.pending.op # "outcome"
          /\ Goto("resume")
       \/ /\ job.pending = None /\ job.stage # "Settled" /\ ~Blocked /\ job.verdict # None
          /\ Goto("verdict")
    /\ UNCHANGED <<native, journal, active, sig, barriers, started, now, faults>>

\* The window closed, or the attempt's time ran out before it was dispatched.
DriveExpire ==
    /\ Driving
    /\ \/ ~Window
       \/ /\ job.trial => job.activated
          /\ \E k \in Unobserved : Attempt(k).state \in {"Prepared", "Authorizing"} /\ now >= Attempt(k).deadline
    /\ job' = [job EXCEPT !.stage = "Expired"]
    /\ End
    /\ UNCHANGED <<native, prepared, slot, listed, enabled, active, barriers, started, now, faults>>

\* activate_trial: the native standing becomes trialed by a verdict.
Verdict(purpose, to) == [purpose |-> purpose, gen |-> job.gen, version |-> standing.version, to |-> to]

Activate ==
    /\ Driving /\ Window
    /\ job.trial /\ ~job.activated
    /\ standing.status \in {"proposed", "revoked"}
    /\ job' = [job EXCEPT !.verdict = Verdict("activation", "trialed")]
    /\ Goto("verdict")
    /\ UNCHANGED <<native, prepared, slot, listed, enabled, active, sig, barriers, started, now, faults>>

Ongoing == Driving /\ Window /\ (job.trial => job.activated)

\* Mutant: an attempt whose lookup answers nothing is sent again under its permit.
ReconcileResend ==
    /\ Ongoing
    /\ \E k \in Unobserved :
         /\ Attempt(k).state \in {"Dispatched", "Reconcile"}
         /\ call' = [at |-> "revalidate", by |-> "drive", key |-> k]
    /\ UNCHANGED <<native, journal, active, sig, barriers, started, now, faults>>

\* An attempt that may have run is only looked up, and never sent again.
Reconcile ==
    /\ Ongoing
    /\ \E k \in Unobserved :
         /\ Attempt(k).state \in {"Dispatched", "Reconcile"}
         /\ \/ job' = SetState(k, "Reconcile")
            \/ started[k] > 0 /\ job' = SetState(k, "AwaitingOutcome")
    /\ End
    /\ UNCHANGED <<native, prepared, slot, listed, enabled, active, barriers, started, now, faults>>

\* A treatment needs the trial to be the active one of its Skill.
Active(k) == k[1] = "treatment" => standing.status = "trialed"

Authorizing ==
    /\ Ongoing
    /\ \E k \in Unobserved :
         /\ Attempt(k).state \in {"Prepared", "Authorizing"} /\ now < Attempt(k).deadline
         /\ Attempt(k).ref
         /\ IF Active(k)
            THEN /\ job' = SetState(k, "Authorizing")
                 /\ call' = [at |-> "authorize", by |-> "drive", key |-> k]
                 /\ UNCHANGED sig
            ELSE End /\ UNCHANGED job
    /\ UNCHANGED <<native, prepared, slot, listed, enabled, active, barriers, started, now, faults>>

\* authorize_dispatch: the native outbox begins once, and answers Lookup ever after. The
\* lease ends with the attempt's time.
AuthorizeDispatch ==
    /\ call.at = "authorize"
    /\ IF now >= Attempt(call.key).deadline THEN End /\ UNCHANGED permit
       ELSE /\ permit' = [permit EXCEPT ![call.key] = "dispatching"]
            /\ call' = [call EXCEPT !.at = "checkpoint"] @@ [first |-> permit[call.key] = "none"]
            /\ UNCHANGED sig
    /\ UNCHANGED <<records, recorded, standing, verdicts, evidence, journal, active, barriers, started, now, faults>>

Checkpoint ==
    /\ call.at = "checkpoint"
    /\ job' = SetState(call.key, IF call.first THEN "Dispatched" ELSE "Reconcile")
    /\ IF call.first THEN Goto("revalidate") /\ UNCHANGED sig ELSE End
    /\ UNCHANGED <<native, prepared, slot, listed, enabled, active, barriers, started, now, faults>>

\* revalidate_dispatch and the trial once more; a spent lease parks the attempt.
Revalidate ==
    /\ call.at = "revalidate"
    /\ \/ ~Active(call.key) /\ End /\ UNCHANGED job
       \/ Active(call.key) /\ now < Attempt(call.key).deadline /\ Goto("register") /\ UNCHANGED <<job, sig>>
       \/ Active(call.key) /\ now >= Attempt(call.key).deadline /\ job' = SetState(call.key, "Reconcile") /\ End
    /\ UNCHANGED <<native, prepared, slot, listed, enabled, active, barriers, started, now, faults>>

Register ==
    /\ call.at = "register"
    /\ active' = [cancelled |-> FALSE]
    /\ Goto("barrier")
    /\ UNCHANGED <<native, journal, sig, barriers, started, now, faults>>

\* Mutant: only a signal that reached the journal stops the callback.
BarrierOfJournal ==
    /\ call.at = "barrier"
    /\ ~listed
    /\ Goto("select")
    /\ UNCHANGED <<native, journal, active, sig, barriers, started, now, faults>>

\* The token is registered before the barriers are read, and a signal publishes its barrier
\* before it looks for a token: one of the two sees the other.
Barrier ==
    /\ call.at = "barrier"
    /\ IF barriers = {} THEN Goto("select") /\ UNCHANGED <<job, active, sig>>
       ELSE job' = SetState(call.key, "Reconcile") /\ active' = None /\ End
    /\ UNCHANGED <<native, prepared, slot, listed, enabled, barriers, started, now, faults>>

\* The callback is polled, even when the token is cancelled just now.
Select ==
    /\ call.at = "select"
    /\ Goto("callback")
    /\ \/ started' = [started EXCEPT ![call.key] = @ + 1]
       \/ active.cancelled /\ UNCHANGED started
    /\ UNCHANGED <<native, journal, active, sig, barriers, now, faults>>

Callback ==
    /\ call.at = "callback"
    /\ active' = None
    /\ \/ started[call.key] > 0 /\ job' = SetState(call.key, "AwaitingOutcome")
       \/ job' = SetState(call.key, "Reconcile")     \* cancelled, failed or out of time
    /\ End
    /\ UNCHANGED <<native, prepared, slot, listed, enabled, barriers, started, now, faults>>

\* The next stage, or the next attempt of the arm, with its native intent.
Arm == IF job.stage = "Baseline" THEN "baseline" ELSE "treatment"
Missing == {k \in Keys : k[1] = Arm /\ k \notin DOMAIN job.attempts}
NewAttempt == [state |-> "Prepared", ref |-> FALSE, digest |-> None, linked |-> FALSE, done |-> FALSE,
               deadline |-> IF now + 1 < Cutoff THEN now + 1 ELSE Cutoff]

Advance ==
    /\ Ongoing
    /\ Unobserved = {}
    /\ \/ /\ Missing # {}
          /\ \E k \in Missing :
               job' = [job EXCEPT !.pending = [op |-> "attempt", key |-> k],
                                  !.attempts = [q \in {k} |-> NewAttempt] @@ @]
          /\ call' = Loop("drive") /\ UNCHANGED sig
       \/ /\ Missing = {} /\ job.stage = "Baseline"
          /\ job' = [job EXCEPT !.pending = [op |-> "trial"], !.stage = "OpeningTrial"]
          /\ call' = Loop("drive") /\ UNCHANGED sig
       \/ /\ Missing = {} /\ job.stage = "Treatment"
          /\ job' = [job EXCEPT !.stage = "ReadyForEvaluation"]
          /\ End
    /\ UNCHANGED <<native, prepared, slot, listed, enabled, active, barriers, started, now, faults>>

-----------------------------------------------------------------------------
(* submit_outcome *)

\* What an observer submits is taken when it is the pending one, or when nothing is pending
\* and the attempt was dispatched, is still open and not late. A known one is answered.
OutcomeBegin(k, d) ==
    /\ call = Idle /\ job # None /\ k \in DOMAIN job.attempts
    /\ \/ /\ job.pending = [op |-> "outcome", key |-> k, digest |-> d]
          /\ <<"outcome", k>> \in records \/ (now <= Cutoff /\ job.stage # "Expired")
          /\ call' = [at |-> IF <<"outcome", k>> \in records THEN "accept" ELSE "resume", by |-> "outcome"]
          /\ UNCHANGED job
       \/ /\ job.pending = None /\ Attempt(k).digest = d
          /\ call' = Loop("outcome")
          /\ UNCHANGED job
       \/ /\ job.pending = None /\ Attempt(k).digest = None
          /\ Attempt(k).state \in {"Dispatched", "AwaitingOutcome", "Reconcile"} /\ Attempt(k).ref
          /\ now <= Cutoff /\ job.stage # "Expired"
          /\ job' = [job EXCEPT !.pending = [op |-> "outcome", key |-> k, digest |-> d]]
          /\ call' = [at |-> "resume", by |-> "outcome"]
    /\ UNCHANGED <<native, prepared, slot, listed, enabled, active, sig, barriers, started, now, faults>>

-----------------------------------------------------------------------------
(* Verdicts: prepared against a version of the Skill, committed natively   *)
(* under a key with the generation, accepted into the job.                 *)

KeyOf(v) == <<v.purpose, v.gen>>
Discarded == [job EXCEPT !.verdict = None, !.gen = @ + 1]
After == IF call.by = "drive" THEN Loop("drive")
         ELSE IF call.by = "settle" THEN [at |-> "settle", by |-> "settle"] ELSE [call EXCEPT !.at = "revoke"]

\* Mutant: a verdict that was prepared before the signal is still executed.
OvertakenNever(v) == FALSE

Overtaken(v) == job.safety # None /\ v.purpose # "safety"
Forbidden(v) == ~enabled /\ v.purpose # "safety"

\* resume_verdict: what was committed is accepted; what a signal overtook or a conflict
\* refused is dropped for a new generation.
ResumeVerdict ==
    /\ call.at = "verdict"
    /\ LET v == job.verdict IN
       \/ /\ KeyOf(v) \in verdicts
          /\ Goto("verdict_accept")
          /\ UNCHANGED <<job, standing, verdicts, sig>>
       \/ /\ KeyOf(v) \notin verdicts
          /\ \/ /\ Overtaken(v) \/ (~Forbidden(v) /\ standing.version # v.version)
                /\ job.gen < MaxGen
                /\ job' = Discarded
                /\ call' = After
                /\ UNCHANGED <<standing, verdicts, sig>>
             \/ /\ ~Overtaken(v) /\ Forbidden(v)
                /\ End
                /\ UNCHANGED <<job, standing, verdicts>>
             \/ /\ ~Overtaken(v) /\ ~Forbidden(v) /\ standing.version = v.version
                /\ standing' = [status |-> v.to, version |-> v.version + 1]
                /\ verdicts' = verdicts \cup {KeyOf(v)}
                /\ Goto("verdict_accept")
                /\ UNCHANGED <<job, sig>>
    /\ UNCHANGED <<records, recorded, permit, evidence, prepared, slot, listed, enabled, active, barriers, started, now, faults>>

VerdictAccept ==
    /\ call.at = "verdict_accept"
    /\ LET j == [job EXCEPT !.verdict = None] IN
         job' = CASE job.verdict.purpose = "activation" -> [j EXCEPT !.activated = TRUE]
                  [] job.verdict.purpose = "settlement" -> [j EXCEPT !.evaluated = TRUE, !.stage = "Settled"]
                  [] job.verdict.purpose = "safety" ->
                       [j EXCEPT !.evaluated = TRUE, !.stage = "Settled", !.safety.evaluated = TRUE]
    /\ Goto("verdict_clear")
    /\ UNCHANGED <<native, prepared, slot, listed, enabled, active, sig, barriers, started, now, faults>>

\* track_safety: an answered signal leaves the list of pending recoveries.
VerdictClear ==
    /\ call.at = "verdict_clear"
    /\ listed' = IF job.safety # None /\ job.safety.evaluated THEN FALSE ELSE listed
    /\ call' = After
    /\ UNCHANGED <<native, prepared, slot, job, enabled, active, sig, barriers, started, now, faults>>

-----------------------------------------------------------------------------
(* settle *)

SettleBegin ==
    /\ call = Idle /\ job # None
    /\ call' = [at |-> "settle", by |-> "settle"]
    /\ UNCHANGED <<native, journal, active, sig, barriers, started, now, faults>>

SettlePending ==
    /\ call.at = "settle"
    /\ \/ job.verdict # None /\ Goto("verdict")
       \/ /\ job.verdict = None /\ ~SafetyOpen /\ job.stage # "Settled" /\ now >= Cutoff
          /\ job.pending # None /\ job.pending.op # "outcome"
          /\ Goto("resume")
    /\ UNCHANGED <<native, journal, active, sig, barriers, started, now, faults>>

\* A signal whose evidence is recorded is answered without its observer.
SettleSafety ==
    /\ call.at = "settle" /\ job.verdict = None /\ SafetyOpen
    /\ IF job.safety.evidence
       THEN job' = [job EXCEPT !.verdict = Verdict("safety", "revoked")] /\ UNCHANGED <<call, sig>>
       ELSE End /\ UNCHANGED job
    /\ UNCHANGED <<native, prepared, slot, listed, enabled, active, barriers, started, now, faults>>

SettleDone ==
    /\ call.at = "settle" /\ job.verdict = None /\ ~SafetyOpen
    /\ \/ job.stage = "Settled" /\ listed' = (listed /\ job.safety = None)
       \/ job.stage # "Settled" /\ now < Cutoff /\ UNCHANGED listed
    /\ End
    /\ UNCHANGED <<native, prepared, slot, job, enabled, active, barriers, started, now, faults>>

Settling ==
    /\ call.at = "settle" /\ job.verdict = None /\ ~SafetyOpen
    /\ job.stage # "Settled" /\ now >= Cutoff
    /\ job.pending # None => job.pending.op = "outcome"

SettleExpire ==
    /\ Settling /\ (~job.trial \/ ~job.activated)
    /\ job' = [job EXCEPT !.stage = "Expired"]
    /\ End
    /\ UNCHANGED <<native, prepared, slot, listed, enabled, active, barriers, started, now, faults>>

\* The paired rule: a cohort without all its treatments is insufficient; a complete one may
\* improve or not.
Comparisons ==
    IF Cardinality({k \in Keys : k[1] = "treatment" /\ <<"attempt", k>> \in records}) < Cardinality(Pairs)
    THEN {"insufficient"} ELSE {"improved", "not_improved"}

TargetStatus(comparison) == IF comparison = "improved" THEN "adopted" ELSE "trialed"

Settle ==
    /\ Settling /\ job.trial /\ job.activated
    /\ \/ /\ enabled /\ standing.status = "trialed"
          /\ \E c \in Comparisons : job' = [job EXCEPT !.verdict = Verdict("settlement", TargetStatus(c))]
          /\ Goto("verdict") /\ UNCHANGED sig
       \/ /\ ~enabled \/ standing.status # "trialed"
          /\ End /\ UNCHANGED job
    /\ UNCHANGED <<native, prepared, slot, listed, enabled, active, barriers, started, now, faults>>

-----------------------------------------------------------------------------
(* submit_safety_signal *)

SignalBegin(s) ==
    /\ sig[s] = "idle" /\ job # None
    /\ job.safety # None => job.safety.signal = s
    /\ sig' = [sig EXCEPT ![s] = IF job.safety = None \/ SafetyOpen THEN "publish" ELSE "wait"]
    /\ UNCHANGED <<native, journal, call, active, barriers, started, now, faults>>

Publish(s) ==
    /\ sig[s] = "publish"
    /\ barriers' = barriers \cup {s}
    /\ sig' = [sig EXCEPT ![s] = "cancel"]
    /\ UNCHANGED <<native, journal, call, active, started, now, faults>>

Cancel(s) ==
    /\ sig[s] = "cancel"
    /\ active' = IF active = None THEN None ELSE [cancelled |-> TRUE]
    /\ sig' = [sig EXCEPT ![s] = "wait"]
    /\ UNCHANGED <<native, journal, call, barriers, started, now, faults>>

Enter(s) ==
    /\ sig[s] = "wait" /\ call = Idle
    /\ sig' = [sig EXCEPT ![s] = "in"]
    /\ call' = [at |-> "signal", by |-> "signal", s |-> s]
    /\ UNCHANGED <<native, journal, active, barriers, started, now, faults>>

\* Mutant: the signal is noted in the job before it is listed for recovery.
SignalUnlisted ==
    /\ call.at = "signal"
    /\ job.safety = None
    /\ job' = [job EXCEPT !.safety = [signal |-> call.s, evidence |-> FALSE, evaluated |-> FALSE]]
    /\ Goto("note")
    /\ UNCHANGED <<native, prepared, slot, listed, enabled, active, sig, barriers, started, now, faults>>

\* A different signal of this job is refused, an answered one answered again; a new one is
\* listed for recovery first.
Signal ==
    /\ call.at = "signal"
    /\ \/ /\ job.safety # None /\ (job.safety.signal # call.s \/ job.safety.evaluated)
          /\ barriers' = barriers \ {call.s}
          /\ listed' = IF job.safety.signal = call.s THEN FALSE ELSE listed
          /\ End
       \/ /\ job.safety # None /\ job.safety.signal = call.s /\ ~job.safety.evaluated
          /\ Goto("evidence") /\ UNCHANGED <<barriers, listed, sig>>
       \/ /\ job.safety = None
          /\ listed' = TRUE
          /\ Goto("note") /\ UNCHANGED <<barriers, sig>>
    /\ UNCHANGED <<native, prepared, slot, job, enabled, active, started, now, faults>>

Note ==
    /\ call.at = "note"
    /\ job' = [job EXCEPT !.safety = [signal |-> call.s, evidence |-> FALSE, evaluated |-> FALSE]]
    /\ Goto("evidence")
    /\ UNCHANGED <<native, prepared, slot, listed, enabled, active, sig, barriers, started, now, faults>>

RecordEvidence ==
    /\ call.at = "evidence"
    /\ evidence' = IF job.safety.evidence THEN evidence ELSE evidence \cup {call.s}
    /\ Goto("evidence_save")
    /\ UNCHANGED <<records, recorded, permit, standing, verdicts, journal, active, sig, barriers, started, now, faults>>

SaveEvidence ==
    /\ call.at = "evidence_save"
    /\ job' = [job EXCEPT !.safety.evidence = TRUE]
    /\ Goto("revoke")
    /\ UNCHANGED <<native, prepared, slot, listed, enabled, active, sig, barriers, started, now, faults>>

\* A pending adoption is accepted when it was committed and dropped when it was not; then
\* the revocation is prepared and resumed.
Revoke ==
    /\ call.at = "revoke"
    /\ \/ /\ job.safety.evaluated
          /\ barriers' = barriers \ {call.s}
          /\ End /\ UNCHANGED job
       \/ /\ ~job.safety.evaluated /\ job.verdict = None
          /\ job' = [job EXCEPT !.verdict = Verdict("safety", "revoked")]
          /\ Goto("verdict") /\ UNCHANGED <<barriers, sig>>
       \/ /\ ~job.safety.evaluated /\ job.verdict # None
          /\ IF job.verdict.purpose = "safety" \/ KeyOf(job.verdict) \in verdicts
             THEN Goto("verdict") /\ UNCHANGED job
             ELSE job.gen < MaxGen /\ job' = Discarded /\ UNCHANGED call
          /\ UNCHANGED <<barriers, sig>>
    /\ UNCHANGED <<native, prepared, slot, listed, enabled, active, started, now, faults>>

-----------------------------------------------------------------------------
(* archive: a resolved job leaves the bounded hot set. *)

ArchiveBegin ==
    /\ call = Idle /\ job # None /\ slot = "hot"
    /\ call' = Loop("archive")
    /\ UNCHANGED <<native, journal, active, sig, barriers, started, now, faults>>

Archivable ==
    /\ job.stage \in {"Settled", "Expired"}
    /\ job.pending = None /\ job.verdict = None /\ ~SafetyOpen
    /\ \A k \in DOMAIN job.attempts : Attempt(k).state = "Observed" /\ Attempt(k).linked /\ Attempt(k).done
    /\ job.evaluated \/ (job.stage = "Expired" /\ ~job.activated)

Archive ==
    /\ call.at = "archive"
    /\ IF job.archived THEN Goto("finish") /\ UNCHANGED <<job, sig>>
       ELSE IF Archivable THEN job' = [job EXCEPT !.archived = TRUE] /\ Goto("finish") /\ UNCHANGED sig
       ELSE End /\ UNCHANGED job
    /\ UNCHANGED <<native, prepared, slot, listed, enabled, active, barriers, started, now, faults>>

FinishArchive ==
    /\ call.at = "finish"
    /\ slot' = "archived"
    /\ End
    /\ UNCHANGED <<native, prepared, job, listed, enabled, active, barriers, started, now, faults>>

-----------------------------------------------------------------------------
Next ==
    \/ Tick \/ Crash \/ Fail \/ Foreign \/ SetEnabled \/ Recover
    \/ EnrollBegin \/ Reserve \/ Create \/ Resume \/ Accept \/ Link \/ Linked \/ LinkedAll
    \/ DriveBegin \/ DriveWait \/ DriveResume \/ DriveExpire \/ Activate \/ Reconcile
    \/ Authorizing \/ AuthorizeDispatch \/ Checkpoint \/ Revalidate \/ Register \/ Barrier \/ Select \/ Callback
    \/ Advance
    \/ \E k \in Keys, d \in Observations : OutcomeBegin(k, d)
    \/ ResumeVerdict \/ VerdictAccept \/ VerdictClear
    \/ SettleBegin \/ SettlePending \/ SettleSafety \/ SettleDone \/ SettleExpire \/ Settle
    \/ \E s \in Signals : SignalBegin(s) \/ Publish(s) \/ Cancel(s) \/ Enter(s)
    \/ Signal \/ Note \/ RecordEvidence \/ SaveEvidence \/ Revoke
    \/ ArchiveBegin \/ Archive \/ FinishArchive

Spec == Init /\ [][Next]_vars

-----------------------------------------------------------------------------
\* The native records, the journal and the process hold the values their types allow.
TypeOK ==
    /\ recorded \in [Keys -> Observations \cup {None}]
    /\ permit \in [Keys -> {"none", "dispatching", "closed"}]
    /\ standing.status \in {"proposed", "trialed", "adopted", "revoked"}
    /\ evidence \subseteq Signals /\ barriers \subseteq Signals
    /\ slot \in {"none", "hot", "archived"}
    /\ job # None => job.stage \in {"Installing", "Baseline", "OpeningTrial", "Treatment", "ReadyForEvaluation",
                                    "Expired", "Settled"}
    /\ sig \in [Signals -> {"idle", "publish", "cancel", "wait", "in"}]
    /\ now \in 0..Late

\* However often drive is called, fails or is cut off between the native permit, its
\* checkpoint and the callback, the executor is asked to run an attempt at most once.
DispatchedOnce == \A k \in Keys : started[k] <= 1

\* No callback starts while a signal in the journal waits for its revocation, no treatment
\* starts after one, and a callback that starts while a signal waits for the gate starts
\* with a cancelled token.
DispatchRespectsSafety ==
    [][started' # started =>
         /\ ~SafetyOpen
         /\ call.key[1] = "treatment" => job.safety = None
         /\ \A s \in barriers : sig[s] = "wait" => active.cancelled]_vars

\* From the moment a signal is in the job no verdict is committed natively but the one that
\* revokes, neither an adoption nor one that leaves the trial on trial: what was prepared
\* before it is dropped, also after a crash.
NoVerdictAfterSignal ==
    [][job # None /\ job.safety # None /\ verdicts' # verdicts =>
         standing'.status = "revoked" /\ \A v \in verdicts' \ verdicts : v[1] = "safety"]_vars

\* A signal that is noted and not yet answered is listed, so that the automatic pass
\* finds it after any crash, also when the job is archived.
PendingSafetyIsListed == job # None /\ SafetyOpen => listed
=============================================================================
