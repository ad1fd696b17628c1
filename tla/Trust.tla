-------------------------------- MODULE Trust --------------------------------
(***************************************************************************)
(* Contextual trust in the sources of facts: verifications are recorded,   *)
(* a fixed group of independent roots becomes a proposal, a governor       *)
(* reviews and applies it under the version of the native trust control,   *)
(* abandons it, or restores what it replaced.                              *)
(*                                                                         *)
(* Every operation, the background pass included, holds one gate from its  *)
(* first read to its last write. A crash or a failed write stops it after  *)
(* any durable step; other governors write the control at any moment.      *)
(***************************************************************************)
EXTENDS Integers, Sequences, FiniteSets, SequencesExt

CONSTANTS
    NumSources,     \* verifications; the number of one stands for its place in the native order
    ActorOf(_),     \* the source actor that a verification is about
    RootOf(_),      \* its independent root (and the group of its claim)
    MinSamples,     \* minimum_samples of the registered method
    Automatic,      \* automatic_apply: the pass applies what it proposes
    MaxVersion,     \* bound on the versions of the trust control
    MaxEpoch,       \* bound on the review generations of a target
    MaxJobs,        \* bound on the proposals that are published
    MaxFaults       \* bound on interruptions, corrections and foreign control writes

VARIABLES
    evidence,   \* native: each verification is "absent", "bare" (without its material), "good" or "corrected"
    control,    \* native: the history of the trust control, one entry for each version
    counted,    \* native: how often a root entered a weight
    catalog, targets, jobs, claims,     \* the journal of the runtime
    call,       \* the operation that holds the gate
    faults

native == <<evidence, control, counted>>
journal == <<catalog, targets, jobs, claims>>
vars == <<native, journal, call, faults>>

Sources == 1..NumSources
Actors == {ActorOf(s) : s \in Sources}
Roots == {RootOf(s) : s \in Sources}

None == [none |-> TRUE]
Idle == [at |-> "idle"]
NoClaim == [job |-> None, applied |-> FALSE, abandoned |-> FALSE]

\* A version of the control: the rule of each actor, as the verifications that shaped its
\* weight, and the reviewed proposal that wrote it.
First == [rules |-> [a \in Actors |-> {}], by |-> None]
Version == Len(control)
Current == control[Version]

Init ==
    /\ evidence = [s \in Sources |-> "absent"]
    /\ control = <<First>>
    /\ counted = [r \in Roots |-> 0]
    /\ catalog = [targets |-> <<>>, cursor |-> 0, pending |-> None]
    /\ targets = [a \in Actors |-> None]
    /\ jobs = <<>>
    /\ claims = [r \in Roots |-> NoClaim]
    /\ call = Idle
    /\ faults = 0

Begin(op) == call = Idle /\ call' = op
Goto(at) == call' = [call EXCEPT !.at = at]
End == call' = Idle

-----------------------------------------------------------------------------
(* Around the runtime. *)

\* A verification is corrected, which makes it ineligible.
Correct(s) ==
    /\ faults < MaxFaults /\ faults' = faults + 1
    /\ evidence[s] = "good"
    /\ evidence' = [evidence EXCEPT ![s] = "corrected"]
    /\ UNCHANGED <<control, counted, journal, call>>

\* Another governance decision writes the trust control.
ForeignControl ==
    /\ faults < MaxFaults /\ faults' = faults + 1
    /\ Version < MaxVersion
    /\ control' = Append(control, [Current EXCEPT !.by = None])
    /\ UNCHANGED <<evidence, counted, journal, call>>

Interrupt ==
    /\ faults < MaxFaults /\ faults' = faults + 1
    /\ call # Idle
    /\ End
    /\ UNCHANGED <<native, journal>>

-----------------------------------------------------------------------------
(* record_verification *)

\* A verification may be recorded again at any time, also one that is committed or was used.
RecordBegin(s) ==
    /\ Begin([at |-> "admit", s |-> s])
    /\ UNCHANGED <<native, journal, faults>>

Admitted(a, s, ref) ==
    LET t == IF targets[a] = None THEN [sources |-> {}, resolved |-> {}, latest |-> None, epoch |-> 0] ELSE targets[a]
    IN [t EXCEPT !.sources = @ \cup {s}, !.resolved = IF ref THEN @ \cup {s} ELSE @ \ {s}]

\* admit: a known target is saved; a new one is published in the catalogue first, which
\* then creates the target and lists it (catalog repairs an allocation cut short).
Admit ==
    /\ call.at \in {"admit", "admit_again"}
    /\ LET a == ActorOf(call.s)
           t == Admitted(a, call.s, call.at = "admit_again")
           on == IF call.at = "admit" THEN [call EXCEPT !.at = "write"] ELSE Idle
       IN \/ /\ targets[a] # None
             /\ targets' = [targets EXCEPT ![a] = t]
             /\ call' = on
             /\ UNCHANGED catalog
          \/ /\ targets[a] = None
             /\ catalog' = [catalog EXCEPT !.pending = [actor |-> a, target |-> t]]
             /\ call' = [at |-> "catalog", back |-> on]
             /\ UNCHANGED targets
    /\ UNCHANGED <<native, jobs, claims, faults>>

\* catalog: every reader first repairs the pending allocation.
Catalog ==
    /\ call.at = "catalog"
    /\ IF catalog.pending = None
       THEN UNCHANGED <<catalog, targets>>
       ELSE LET p == catalog.pending IN
            /\ targets' = [targets EXCEPT ![p.actor] = IF @ = None THEN p.target ELSE @]
            /\ catalog' = [catalog EXCEPT !.pending = None,
                             !.targets = IF Contains(@, p.actor) THEN @ ELSE Append(@, p.actor)]
    /\ call' = call.back
    /\ UNCHANGED <<native, jobs, claims, faults>>

\* The native evidence, then its material; the key of the event makes a retry find it.
WriteEvidence ==
    /\ call.at = "write"
    /\ evidence' = [evidence EXCEPT ![call.s] = IF @ = "absent" THEN "bare" ELSE @]
    /\ Goto("material")
    /\ UNCHANGED <<control, counted, journal, faults>>

WriteMaterial ==
    /\ call.at = "material"
    /\ evidence' = [evidence EXCEPT ![call.s] = IF @ = "bare" THEN "good" ELSE @]
    /\ Goto("admit_again")
    /\ UNCHANGED <<control, counted, journal, faults>>

-----------------------------------------------------------------------------
(* propose *)

ProposeBegin(a) ==
    /\ Begin([at |-> "catalog", back |-> [at |-> "propose", actor |-> a, explicit |-> TRUE, pass |-> FALSE]])
    /\ targets[a] # None
    /\ UNCHANGED <<native, journal, faults>>

Latest(a) == jobs[targets[a].latest]

\* A review that is under way is answered as it is; a stale one too, unless a fresh
\* proposal is asked for explicitly, which opens a new epoch.
Held(a) ==
    /\ targets[a].latest # None
    /\ \/ Latest(a).reviewed /\ Latest(a).receipt = 0 /\ ~Latest(a).stale
       \/ Latest(a).stale /\ ~call.explicit

Reserved(r) == claims[r].job # None /\ ~claims[r].abandoned

\* Why a verification is not among the samples. The first of a root counts; a root that a
\* proposal reserved or consumed does not.
Exclusion(a, s) ==
    CASE evidence[s] = "absent" -> "not_committed"
      [] evidence[s] \in {"bare", "corrected"} -> "unavailable"
      [] evidence[s] = "good" -> 
           IF \E q \in targets[a].sources : q < s /\ evidence[q] = "good" /\ RootOf(q) = RootOf(s) THEN "duplicate"
           ELSE IF Reserved(RootOf(s)) THEN "reserved" ELSE ""

Candidates(a) == SetToSortSeq({s \in targets[a].sources : Exclusion(a, s) = ""}, LAMBDA x, y : x < y)
Selected(a) == SubSeq(Candidates(a), 1, IF Len(Candidates(a)) < MinSamples THEN Len(Candidates(a)) ELSE MinSamples)
Unresolved(a) == \E s \in targets[a].sources : evidence[s] \in {"absent", "bare"}

Proposal(a, epoch) ==
    LET sel == ToSet(Selected(a))
        weight == ~Unresolved(a) /\ Len(Selected(a)) >= MinSamples
    IN [actor |-> a, version |-> Version, epoch |-> epoch, evidence |-> sel,
        excluded |-> [s \in {q \in targets[a].sources : Exclusion(a, q) # ""} |-> Exclusion(a, s)],
        roots |-> {RootOf(s) : s \in sel}, weight |-> weight, restores |-> FALSE,
        previous |-> Current.rules[a],
        rule |-> IF weight THEN Current.rules[a] \cup sel ELSE Current.rules[a]]

NewJob == [reviewed |-> FALSE, receipt |-> 0, stale |-> FALSE, notified |-> FALSE]

\* What the target keeps: what was outside the group, is not committed or not available.
Kept(a, p) ==
    {s \in targets[a].sources :
        s \notin DOMAIN p.excluded \/ p.excluded[s] \in {"not_committed", "unavailable"}}

\* The host has its proposal; the pass goes on to apply one that changes the weight.
Proposed(id) ==
    IF ~call.pass THEN Idle
    ELSE [at |-> IF Automatic /\ id.weight THEN "apply" ELSE "turn", id |-> id, pass |-> TRUE]

ProposeHeld ==
    /\ call.at = "propose"
    /\ Held(call.actor)
    /\ call' = Proposed(targets[call.actor].latest)
    /\ UNCHANGED <<native, journal, faults>>

\* The new epoch is saved first; then the proposal is published, and the target points to it.
ProposeEpoch ==
    /\ call.at = "propose"
    /\ ~Held(call.actor)
    /\ LET a == call.actor
           again == targets[a].latest # None /\ Latest(a).stale
       IN /\ again => targets[a].epoch < MaxEpoch
          /\ targets' = IF again THEN [targets EXCEPT ![a].epoch = @ + 1] ELSE targets
    /\ Goto("publish")
    /\ UNCHANGED <<native, catalog, jobs, claims, faults>>

Publish ==
    /\ call.at = "publish"
    /\ LET p == Proposal(call.actor, targets[call.actor].epoch) IN
         /\ p \in DOMAIN jobs \/ Cardinality(DOMAIN jobs) < MaxJobs
         /\ jobs' = IF p \in DOMAIN jobs THEN jobs ELSE (p :> NewJob) @@ jobs
         /\ call' = [call EXCEPT !.at = "point"] @@ [id |-> p, known |-> p \in DOMAIN jobs]
    /\ UNCHANGED <<native, catalog, targets, claims, faults>>

Point ==
    /\ call.at = "point"
    /\ targets' = [targets EXCEPT ![call.actor].latest = call.id,
                     ![call.actor].sources = IF call.known THEN @ ELSE Kept(call.actor, call.id),
                     ![call.actor].resolved = @ \cup {s \in targets[call.actor].sources : evidence[s] # "absent"}]
    /\ call' = Proposed(call.id)
    /\ UNCHANGED <<native, catalog, jobs, claims, faults>>

-----------------------------------------------------------------------------
(* apply *)

ApplyBegin(id) ==
    /\ Begin([at |-> "apply", id |-> id, pass |-> FALSE])
    /\ UNCHANGED <<native, journal, faults>>

Job == jobs[call.id]

\* Mutant: only the newest version of the control is looked at.
CommittedLast(id) ==
    /\ jobs[id].reviewed
    /\ Version = id.version + 1
    /\ Current.by = id

\* recovered: the version after the expected one names the reviewed proposal.
Committed(id) ==
    /\ jobs[id].reviewed
    /\ Version > id.version
    /\ control[id.version + 1].by = id

Resolved(id) == [at |-> "consume", id |-> id, pass |-> call.pass, left |-> id.roots]
Abandoning(id) == [at |-> "stale", id |-> id, pass |-> FALSE]

Qualifies(id) == \A s \in id.evidence : evidence[s] = "good"

\* Stale, diagnostic and disqualified proposals are refused; a conflict makes one stale.
Apply ==
    /\ call.at = "apply"
    /\ call' = IF Committed(call.id) THEN Resolved(call.id)
               ELSE IF Job.stale \/ ~(call.id.weight \/ call.id.restores) THEN Idle
               ELSE IF Version # call.id.version THEN Abandoning(call.id)
               ELSE IF ~(call.id.restores \/ Qualifies(call.id)) THEN Idle
               ELSE [call EXCEPT !.at = "review"]
    /\ UNCHANGED <<native, journal, faults>>

Review ==
    /\ call.at = "review"
    /\ jobs' = [jobs EXCEPT ![call.id].reviewed = TRUE]
    /\ call' = [call EXCEPT !.at = "claim"] @@ [left |-> call.id.roots]
    /\ UNCHANGED <<native, catalog, targets, claims, faults>>

\* A root is claimed unless another proposal holds it; an abandoned claim is taken over.
Claimable(r) == claims[r].job = None \/ claims[r].abandoned \/ claims[r].job = call.id

Claim ==
    /\ call.at = "claim"
    /\ \E r \in call.left :
         \/ /\ ~Claimable(r)
            /\ End
            /\ UNCHANGED claims
         \/ /\ Claimable(r)
            /\ claims' = [claims EXCEPT ![r] = IF @.job = None \/ @.abandoned
                                                 THEN [job |-> call.id, applied |-> FALSE, abandoned |-> FALSE] ELSE @]
            /\ call' = [call EXCEPT !.left = @ \ {r}]
    /\ UNCHANGED <<native, catalog, targets, jobs, faults>>

\* apply_trust_calibration: under the governance lock the engine checks the version and
\* the evidence again and writes the control with its audit.
Commit ==
    /\ call.at = "claim" /\ call.left = {}
    /\ Version = call.id.version /\ Version < MaxVersion
    /\ Qualifies(call.id)
    /\ control' = Append(control, [rules |-> [Current.rules EXCEPT ![call.id.actor] = call.id.rule], by |-> call.id])
    /\ counted' = [r \in Roots |-> counted[r] + IF r \in call.id.roots THEN 1 ELSE 0]
    /\ Goto("answer")
    /\ UNCHANGED <<evidence, journal, faults>>

CommitRefused ==
    /\ call.at = "claim" /\ call.left = {}
    /\ Version # call.id.version \/ ~Qualifies(call.id)
    /\ Goto("answer")
    /\ UNCHANGED <<native, journal, faults>>

\* The answer is read from the control and not from the call: it may have been lost.
Answer ==
    /\ call.at = "answer"
    /\ call' = IF Committed(call.id) THEN Resolved(call.id)
               ELSE IF Version > call.id.version THEN Abandoning(call.id)
               ELSE Idle
    /\ UNCHANGED <<native, journal, faults>>

\* stale: first the job, then each claim of it that was not applied.
StaleJob ==
    /\ call.at = "stale"
    /\ jobs' = [jobs EXCEPT ![call.id].stale = TRUE]
    /\ Goto("release")
    /\ UNCHANGED <<native, catalog, targets, claims, faults>>

Releasable(id) == {r \in id.roots : claims[r].job = id /\ ~claims[r].applied /\ ~claims[r].abandoned}

Release ==
    /\ call.at = "release"
    /\ \/ \E r \in Releasable(call.id) :
            /\ claims' = [claims EXCEPT ![r].abandoned = TRUE]
            /\ UNCHANGED call
       \/ Releasable(call.id) = {} /\ End /\ UNCHANGED claims
    /\ UNCHANGED <<native, catalog, targets, jobs, faults>>

\* finish: consume the roots, keep the receipt, forget the used verifications, notify.
Consume ==
    /\ call.at = "consume"
    /\ call.left # {}
    /\ \E r \in call.left :
         /\ claims' = [claims EXCEPT ![r] = [job |-> call.id, applied |-> TRUE, abandoned |-> FALSE]]
         /\ call' = [call EXCEPT !.left = @ \ {r}]
    /\ UNCHANGED <<native, catalog, targets, jobs, faults>>

Receipt ==
    /\ call.at = "consume" /\ call.left = {}
    /\ jobs' = [jobs EXCEPT ![call.id].receipt = call.id.version + 1]
    /\ Goto("forget")
    /\ UNCHANGED <<native, catalog, targets, claims, faults>>

Forget ==
    /\ call.at = "forget"
    /\ targets' = IF call.id.restores THEN targets
                  ELSE [targets EXCEPT ![call.id.actor].sources =
                          @ \ ((call.id.evidence \cup DOMAIN call.id.excluded) \cap targets[call.id.actor].resolved)]
    /\ Goto("notify")
    /\ UNCHANGED <<native, catalog, jobs, claims, faults>>

\* trust_changed makes the Space review what rests on the old weight; it may be told twice.
Notify ==
    /\ call.at = "notify"
    /\ jobs' = [jobs EXCEPT ![call.id].notified = TRUE]
    /\ IF call.pass THEN Goto("turn") ELSE End
    /\ UNCHANGED <<native, catalog, targets, claims, faults>>

\* abandon: only a proposal that is provably not committed.
AbandonBegin(id) ==
    /\ call = Idle
    /\ ~Committed(id)
    /\ ~jobs[id].stale \/ Releasable(id) # {}
    /\ call' = Abandoning(id)
    /\ UNCHANGED <<native, journal, faults>>

\* propose_restore: an applied proposal whose rule is still the current one is undone by a
\* proposal of its own, which counts no sample.
Restore(id) ==
    /\ call = Idle
    /\ Committed(id)
    /\ ~id.restores
    /\ Current.rules[id.actor] = id.rule
    /\ Version < MaxVersion /\ Cardinality(DOMAIN jobs) < MaxJobs
    /\ LET p == [id EXCEPT !.version = Version, !.evidence = {}, !.excluded = <<>>, !.roots = {},
                           !.restores = TRUE, !.previous = id.rule, !.rule = id.previous]
       IN jobs' = IF p \in DOMAIN jobs THEN jobs ELSE (p :> NewJob) @@ jobs
    /\ UNCHANGED <<native, catalog, targets, claims, call, faults>>

-----------------------------------------------------------------------------
(* The pass proposes for one target, applies where the policy says so, and *)
(* takes the next one. What fails leaves the cursor where it is.           *)

PassBegin ==
    /\ Begin([at |-> "catalog", back |-> [at |-> "target"]])
    /\ UNCHANGED <<native, journal, faults>>

PassTarget ==
    /\ call.at = "target"
    /\ call' = IF catalog.targets = <<>> THEN Idle
               ELSE [at |-> "propose", actor |-> catalog.targets[(catalog.cursor % Len(catalog.targets)) + 1],
                     explicit |-> FALSE, pass |-> TRUE]
    /\ UNCHANGED <<native, journal, faults>>

Turn ==
    /\ call.at = "turn"
    /\ catalog' = [catalog EXCEPT !.cursor = (@ + 1) % Len(catalog.targets)]
    /\ End
    /\ UNCHANGED <<native, targets, jobs, claims, faults>>

-----------------------------------------------------------------------------
Next ==
    \/ \E s \in Sources : Correct(s) \/ RecordBegin(s)
    \/ ForeignControl \/ Interrupt
    \/ Admit \/ Catalog \/ WriteEvidence \/ WriteMaterial
    \/ \E a \in Actors : ProposeBegin(a)
    \/ ProposeHeld \/ ProposeEpoch \/ Publish \/ Point
    \/ \E id \in DOMAIN jobs : ApplyBegin(id) \/ AbandonBegin(id) \/ Restore(id)
    \/ Apply \/ Review \/ Claim \/ Commit \/ CommitRefused \/ Answer
    \/ StaleJob \/ Release \/ Consume \/ Receipt \/ Forget \/ Notify
    \/ PassBegin \/ PassTarget \/ Turn

Spec == Init /\ [][Next]_vars

-----------------------------------------------------------------------------
TypeOK ==
    /\ evidence \in [Sources -> {"absent", "bare", "good", "corrected"}]
    /\ Version \in 1..MaxVersion
    /\ counted \in [Roots -> Nat]
    /\ ToSet(catalog.targets) \subseteq Actors
    /\ \A a \in Actors : targets[a] = None \/ (targets[a].sources \subseteq Sources /\ targets[a].epoch \in 0..MaxEpoch)
    /\ \A r \in Roots : claims[r].job = None \/ claims[r].job \in DOMAIN jobs
    /\ faults \in 0..MaxFaults

\* An independent root enters the weight of a source once, however its proposals are
\* retried, abandoned, taken over or restored.
RootCountsOnce == \A r \in Roots : counted[r] <= 1

\* What was applied is never given up: the claim on a root that entered a weight belongs
\* to a proposal of the control's history, and no such claim is marked abandoned.
AppliedIsNeverAbandoned ==
    \A r \in Roots : counted[r] > 0 =>
        /\ ~claims[r].abandoned
        /\ \E v \in 1..Version : control[v].by = claims[r].job
=============================================================================
