------------------------------ MODULE EdgeBrain ------------------------------
(***************************************************************************)
(* The edge worker: one Durable Object per Space that keeps memory, and    *)
(* the Worker requests that run model passes around it.                    *)
(*                                                                         *)
(* Every method of the object runs synchronously to its end, so one action *)
(* is one method call.  A pass is several calls with a model call between  *)
(* them, and passes interleave: what a pass read when it opened may be     *)
(* erased or corrected before it writes.  The object fences passes with    *)
(* an epoch and managed changes with a persisted pending key.  Maintenance *)
(* is modelled in EdgeMaintenance.                                         *)
(*                                                                         *)
(* Every call first runs ensureInitialized, which retries a scrub and a    *)
(* change left pending.  A call that only does so is `productStatus`; it   *)
(* is the action Recover.  A call whose recovery succeeds is Recover       *)
(* followed by the call, and a call whose recovery fails is the call in    *)
(* the state it found, so the two are kept apart.                          *)
(***************************************************************************)
EXTENDS Naturals, FiniteSets

CONSTANTS
  Receipts,      \* idempotency keys of observe and revise requests
  Sources,       \* staged sources
  Statements,    \* how many statements one Formation pass writes, in order
  MaxEpoch,      \* bound on the epoch
  Faults,        \* subset of {"crash", "abandon", "native", "scrub"}
  None

VARIABLES
  control,       \* CONTROL: [epoch, pending]
  scrub,         \* SCRUB: erased statements whose preview copies remain
  suppressed,    \* SUPPRESSED: sources excluded from Formation
  intake,        \* RECEIPT: per key, [source, state]
  held,          \* active statements in the graph, as <<key, n>>
  capturedBy,    \* per source, the receipt whose pass created its Evidence
  forgot,        \* per source, the status of its forget receipt
  change,        \* CHANGE: per operation, [state, kind, targets, done]
  pass           \* the Worker's Formation passes: [at, epoch, n]

vars == <<control, scrub, suppressed, intake, held, capturedBy, forgot, change, pass>>

object == <<control, scrub, suppressed, change>>
ledger == <<intake, forgot, capturedBy>>

Operations == Sources \X {"user", "forget"}
Fault(f)   == f \in Faults

OfSource(s) == {h \in held : intake[h[1]].source = s}

TypeOK ==
  /\ control \in [epoch: 0..MaxEpoch, pending: Operations \cup {None}]
  /\ scrub \subseteq Receipts \X (1..Statements)
  /\ suppressed \subseteq Sources
  /\ intake \in [Receipts -> [source: Sources \cup {None},
                     state: {"none", "recorded", "available", "failed"}]]
  /\ held \subseteq Receipts \X (1..Statements)
  /\ capturedBy \in [Sources -> Receipts \cup {None}]
  /\ forgot \in [Sources -> {"none", "completed", "partial", "failed"}]
  /\ \A o \in Operations :
       /\ change[o].state \in {"none", "prepared", "reconciling",
                               "confirmed", "discarded"}
       /\ change[o].kind \in {"delete", "suppress", "correct"}
       /\ change[o].done \subseteq change[o].targets
  /\ pass \in [Receipts -> [at: {"none", "opening", "planning", "reviewing",
                                 "closing", "finish", "fail", "ended"},
                            epoch: 0..MaxEpoch, n: 0..Statements]]

Init ==
  /\ control = [epoch |-> 0, pending |-> None]
  /\ scrub = {} /\ suppressed = {}
  /\ intake = [k \in Receipts |-> [source |-> None, state |-> "none"]]
  /\ held = {} /\ forgot = [s \in Sources |-> "none"]
  /\ capturedBy = [s \in Sources |-> None]
  /\ change = [o \in Operations |-> [state |-> "none", kind |-> "delete",
                                     targets |-> {}, done |-> {}]]
  /\ pass = [k \in Receipts |-> [at |-> "none", epoch |-> 0, n |-> 0]]

-----------------------------------------------------------------------------
(* The fence.                                                              *)

\* check: no change or scrub is pending and the pass's epoch still stands.
Check(epoch) == control.pending = None /\ scrub = {} /\ epoch = control.epoch

\* begin: admission of a pass, which refuses an excluded source.
Begin(s) == Check(control.epoch) /\ s \notin suppressed

\* invalidate: the fence of an administrative erasure.
Invalidate ==
  /\ Check(control.epoch) /\ control.epoch < MaxEpoch
  /\ control' = [control EXCEPT !.epoch = @ + 1]

-----------------------------------------------------------------------------
(* Managed changes.                                                        *)

\* preview: a correction revises the one record; a removal takes every
\* statement that cites the record's captured observation.
Preview(h, kind) ==
  IF kind = "correct" THEN {h} ELSE OfSource(intake[h[1]].source)

\* prepare stores a proposal; an operation id is used once.
Prepare(h, kind) ==
  LET o == <<intake[h[1]].source, "user">> IN
  /\ change[o].state = "none" /\ Check(control.epoch)
  /\ change' = [change EXCEPT ![o] =
                  [state |-> "prepared", kind |-> kind,
                   targets |-> Preview(h, kind), done |-> {}]]
  /\ UNCHANGED <<control, scrub, suppressed, ledger, held, pass>>

\* discard, and the expiry of a proposal nobody committed.
Discard(o) ==
  /\ scrub = {} /\ change[o].state = "prepared" /\ control.pending # o
  /\ change' = [change EXCEPT ![o].state = "discarded"]
  /\ UNCHANGED <<control, scrub, suppressed, ledger, held, pass>>

\* scrubChanges: proposals whose content was erased are discarded.
Scrubbed(chs, erased, except) ==
  [o \in Operations |->
     IF o # except /\ chs[o].state = "prepared" /\ chs[o].targets \cap erased # {}
     THEN [chs[o] EXCEPT !.state = "discarded"] ELSE chs[o]]

\* apply under the fence `ctl`: targets not yet completed run in order.  A
\* failure of a write or of the scrub leaves the
\* change reconciling and the fence up.
Apply(o, ctl, chs) ==
  LET c      == chs[o]
      erased == IF c.kind = "delete" THEN c.targets ELSE {}
  IN \E reached \in SUBSET c.targets :
       LET complete == reached = c.targets IN
       /\ c.done \subseteq reached
       /\ complete \/ Fault("native")
       /\ held' = held \ reached
       /\ \E confirmed \in BOOLEAN :
            /\ confirmed => complete
            /\ complete /\ ~confirmed => erased # {} /\ Fault("scrub")
            /\ change' = [Scrubbed(chs, IF confirmed THEN erased ELSE {}, o)
                 EXCEPT ![o] = [c EXCEPT !.done = reached, !.state =
                                  IF confirmed THEN "confirmed" ELSE "reconciling"]]
            /\ control' = [ctl EXCEPT !.pending = IF confirmed THEN None ELSE o]
            /\ scrub' = IF complete /\ ~confirmed THEN erased ELSE {}

\* commit: the preview must still hold; the fence and the exclusion are
\* persisted before the first native write.
CommitChange(o) ==
  /\ scrub = {} /\ control.pending = None
  /\ change[o].state = "prepared"
  /\ \E h \in change[o].targets \cap held : Preview(h, change[o].kind) = change[o].targets
  /\ control.epoch < MaxEpoch
  /\ suppressed' = suppressed \cup {o[1]}
  /\ Apply(o, [epoch |-> control.epoch + 1, pending |-> o], change)
  /\ UNCHANGED <<ledger, pass>>

\* recover: the interrupted scrub, then the pending change.
Recover ==
  /\ scrub # {} \/ control.pending # None
  /\ LET chs == Scrubbed(change, scrub, control.pending) IN
     IF control.pending # None
     THEN Apply(control.pending, control, chs)
     ELSE /\ change' = chs /\ scrub' = {}
          /\ UNCHANGED <<control, held>>
  /\ UNCHANGED <<suppressed, ledger, pass>>

\* forgetMemory and an administrative batch that erases: the fence first, then
\* each named statement, then the scrub.
Erase(victims) ==
  /\ Invalidate
  /\ held' = held \ victims
  /\ \/ change' = Scrubbed(change, victims, None) /\ scrub' = {}
     \/ /\ Fault("scrub") /\ scrub' = victims /\ UNCHANGED change
  /\ UNCHANGED <<suppressed, ledger, pass>>

-----------------------------------------------------------------------------
(* Intake and its Formation pass.                                          *)

\* admit: a key is bound once to its source; a replay answers the receipt.
Admit(k, s) ==
  /\ scrub = {} /\ intake[k].state = "none"
  /\ forgot[s] \notin {"completed", "partial"}       \* the staged bytes remain
  /\ intake' = [intake EXCEPT ![k] = [source |-> s, state |-> "recorded"]]
  /\ pass' = [pass EXCEPT ![k].at = "opening"]
  /\ UNCHANGED <<object, held, forgot, capturedBy>>

\* openProcessing: admission under the current epoch, or a failed pass.
Open(k) ==
  /\ pass[k].at = "opening"
  /\ pass' = [pass EXCEPT ![k] = IF Begin(intake[k].source)
                THEN [at |-> "planning", epoch |-> control.epoch, n |-> 0]
                ELSE [@ EXCEPT !.at = "fail"]]
  /\ UNCHANGED <<object, ledger, held>>

\* The observation of a source is Evidence under a key of its content, created
\* by the first statement that commits with it and cited by the later ones.
Capture(k, n) ==
  LET s == intake[k].source IN
  capturedBy' = IF capturedBy[s] = None /\ n > pass[k].n
                THEN [capturedBy EXCEPT ![s] = k] ELSE capturedBy

\* executeFormationPlan: statements commit one by one and stop at the first
\* failure; a long input gets a second plan after a second model call.
Plan(k) ==
  /\ pass[k].at \in {"planning", "reviewing"}
  /\ IF Check(pass[k].epoch)
     THEN \E n \in pass[k].n .. Statements, next \in {"reviewing", "closing", "fail"} :
            /\ next = "fail" => n < Statements
            /\ next = "reviewing" => pass[k].at = "planning"
            /\ held' = held \cup {<<k, i>> : i \in (pass[k].n + 1)..n}
            /\ Capture(k, n)
            /\ pass' = [pass EXCEPT ![k].n = n, ![k].at = next]
     ELSE /\ pass' = [pass EXCEPT ![k].at = "fail"] /\ UNCHANGED <<held, capturedBy>>
  /\ UNCHANGED <<object, intake, forgot>>

\* The pass's last call, made whatever happened: a pass fenced meanwhile fails.
Close(k) ==
  /\ pass[k].at = "closing"
  /\ pass' = [pass EXCEPT ![k].at = IF Check(pass[k].epoch) THEN "finish" ELSE "fail"]
  /\ UNCHANGED <<object, ledger, held>>

\* settle: the first terminal phase of a receipt stays.
Settled(k, state) ==
  intake' = [intake EXCEPT ![k].state = IF @ = "recorded" THEN state ELSE @]

\* memoryFinishFormation and memoryFailFormation.
Settle(k) ==
  /\ scrub = {} /\ pass[k].at \in {"finish", "fail"}
  /\ Settled(k, IF pass[k].at = "finish" THEN "available" ELSE "failed")
  /\ pass' = [pass EXCEPT ![k].at = "ended"]
  /\ UNCHANGED <<object, forgot, capturedBy, held>>

\* progress: a receipt silent for ABANDONED_MS is failed, its outcome unknown.
Abandon(k) ==
  /\ Fault("abandon") /\ scrub = {} /\ intake[k].state = "recorded"
  /\ Settled(k, "failed")
  /\ UNCHANGED <<object, forgot, capturedBy, held, pass>>

\* The Worker request dies between two calls.
Crash(k) ==
  /\ Fault("crash") /\ pass[k].at \notin {"none", "ended"}
  /\ pass' = [pass EXCEPT ![k].at = "ended"]
  /\ UNCHANGED <<object, ledger, held>>

-----------------------------------------------------------------------------
(* forget over a staged source.                                            *)

IntakesOf(s) == {k \in Receipts : intake[k].source = s}

\* Whether the receipts of a source name its Evidence, which leads to every
\* claim formed from it.  The receipt of the pass that created it does; that of
\* a later pass may, as the engine reports what a repeated key resolved to; one
\* whose pass failed keeps no trace.
Named(s) ==
  LET finished == {k \in IntakesOf(s) : intake[k].state = "available"} IN
  IF capturedBy[s] \in finished THEN {TRUE}
  ELSE IF \E k \in finished : pass[k].n > 0 THEN BOOLEAN
  ELSE {FALSE}

\* The Evidence is purged with the claims that cite it.
Uncaptured(s, purged) ==
  capturedBy' = IF purged THEN [capturedBy EXCEPT ![s] = None] ELSE capturedBy

\* Mutant: a pass still running is not asked about.
AnswerAtOnce(s) == "completed"

\* What the erasure answers once its writes are done.
Answer(s) ==
  IF \E k \in IntakesOf(s) : intake[k].state = "recorded" THEN "partial" ELSE "completed"

\* A claim goes through the deletion path of managed changes; the source is
\* excluded and its staged bytes are cleared.
Forget(s) ==
  LET o == <<s, "forget">> IN
  /\ scrub = {} /\ forgot[s] # "completed" /\ IntakesOf(s) # {}
  /\ \E named \in Named(s) :
     IF ~named \/ OfSource(s) = {}
     THEN /\ suppressed' = suppressed \cup {s}
          /\ forgot' = [forgot EXCEPT ![s] = Answer(s)]
          /\ Uncaptured(s, named)
          /\ UNCHANGED <<control, scrub, change, held>>
     ELSE IF control.pending # None
     THEN /\ forgot' = [forgot EXCEPT ![s] = "failed"]
          /\ UNCHANGED <<object, held, capturedBy>>
     ELSE /\ control.epoch < MaxEpoch
          /\ suppressed' = suppressed \cup {s}
          /\ Apply(o, [epoch |-> control.epoch + 1, pending |-> o],
                   [change EXCEPT ![o] = [state |-> "prepared", kind |-> "delete",
                                          targets |-> OfSource(s), done |-> {}]])
          /\ forgot' = [forgot EXCEPT ![s] =
                          IF change'[o].state = "confirmed" THEN Answer(s) ELSE "failed"]
          /\ Uncaptured(s, change'[o].state = "confirmed")
  /\ UNCHANGED <<intake, pass>>

-----------------------------------------------------------------------------
Next ==
  \/ \E s \in Sources :
       \/ Forget(s)
       \/ \E k \in Receipts : Admit(k, s)
  \/ \E h \in held, kind \in {"delete", "suppress", "correct"} : Prepare(h, kind)
  \/ \E o \in Operations : Discard(o) \/ CommitChange(o)
  \/ Recover
  \/ \E victims \in SUBSET held \ {{}} : Erase(victims)
  \/ \E k \in Receipts : \/ Open(k) \/ Plan(k) \/ Close(k) \/ Settle(k)
                         \/ Abandon(k) \/ Crash(k)

Spec == Init /\ [][Next]_vars

-----------------------------------------------------------------------------
\* A source excluded by a managed change contributes nothing more: no pass,
\* admitted before or after the change, adds a statement formed from it
\* (product.ts commit, begin and check).
ExcludedNeverForms ==
  [][\A o \in Operations :
       change[o].state \in {"reconciling", "confirmed"} =>
         \A h \in held' \ held : intake[h[1]].source # o[1]]_vars

\* A forget that answered `completed` left nothing formed from its source,
\* whichever of its passes finished, failed half-way or were abandoned and still
\* run, unless the one that captured the observation failed: a failed receipt
\* keeps no trace of the Evidence and counts as settled, so nothing leads the
\* forget to the statements (memory-ledger.ts forget, failFormation, progress).
CompletedIsErased ==
  \A s \in Sources :
    forgot[s] = "completed" =>
      \/ OfSource(s) = {}
      \/ \E k \in IntakesOf(s) : capturedBy[s] = k /\ intake[k].state = "failed"
=============================================================================
