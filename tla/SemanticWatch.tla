---------------------------- MODULE SemanticWatch ----------------------------
(***************************************************************************)
(* The evaluation of prose watches by a model: a pass over the armed text  *)
(* watches of a Space, its durable cursor and the durable job of a watch.  *)
(*                                                                         *)
(* A pass holds the gate of the semantic runtime.  Each step of it ends at *)
(* a durable write, at a native commit or at the model's answer.  Nexus    *)
(* replays a commit whose evaluation it knows; only the last one of a      *)
(* watch can be asked for again, so only that one is kept.                 *)
(***************************************************************************)
EXTENDS Naturals, FiniteSets

CONSTANTS
    NumWatches,       \* watches numbered in the order of their ids
    WatchesPerPass,
    AttemptsPerPage,
    MaxVersion,       \* bound on the versions of a watch
    MaxEpoch,         \* bound on operator retries of a job
    Faults            \* subset of {"crash", "late", "ambiguous", "definite", "oversized"}

Watches == 1..NumWatches

VARIABLES
    cursor,     \* [after, pending], 0 for none
    job,        \* the job of each watch
    watch,      \* native: [version, armed] of each watch
    committed,  \* native: the last evaluation of each watch that was committed
    pass,       \* the holder of the gate
    calls       \* model calls for each watch, version and epoch

vars == <<cursor, job, watch, committed, pass, calls>>

NoJob == [version |-> 0]
NoKey == [epoch |-> 0, attempt |-> 0, judged |-> FALSE]
NewJob(v) == [version |-> v, epoch |-> 0, attempts |-> 0, ticket |-> FALSE, evaluation |-> NoKey,
              accepted |-> FALSE, due |-> TRUE]
NoCommit == [key |-> NoKey, version |-> 0, accepted |-> FALSE]
NoPass == [at |-> "idle", w |-> 0, scanned |-> 0]

Init ==
    /\ cursor = [after |-> 0, pending |-> 0]
    /\ job = [w \in Watches |-> NoJob]
    /\ watch = [w \in Watches |-> [version |-> 1, armed |-> TRUE]]
    /\ committed = [w \in Watches |-> NoCommit]
    /\ pass = NoPass
    /\ calls = [w \in Watches |-> 0]

native == <<watch, committed>>

(***************************************************************************)
(* The pass.                                                               *)
(***************************************************************************)
\* run_once and kick take the gate; a pending watch is recovered before any other.
PassBegin ==
    /\ pass.at = "idle"
    /\ pass' = IF cursor.pending = 0 THEN [NoPass EXCEPT !.at = "page"]
               ELSE [at |-> "evaluate", w |-> cursor.pending, scanned |-> 1]
    /\ UNCHANGED <<cursor, job, native, calls>>

Rest == {w \in Watches : watch[w].armed /\ w > cursor.after}
NextRow == CHOOSE w \in Rest : \A v \in Rest : w <= v

\* The next armed watch.  A job for another version of the watch is replaced; a stored
\* evaluation stops the pass instead.
TakeRow ==
    /\ pass.at = "page"
    /\ Rest # {} /\ pass.scanned < WatchesPerPass
    /\ LET w == NextRow
           stale == job[w].version # watch[w].version
       IN IF stale /\ job[w] # NoJob /\ job[w].evaluation # NoKey
          THEN /\ pass' = NoPass
               /\ UNCHANGED <<job, calls>>
          ELSE /\ job' = IF stale THEN [job EXCEPT ![w] = NewJob(watch[w].version)] ELSE job
               /\ calls' = IF stale THEN [calls EXCEPT ![w] = 0] ELSE calls
               /\ pass' = [pass EXCEPT !.at = "pending", !.w = w]
    /\ UNCHANGED <<cursor, native>>

SavePending ==
    /\ pass.at = "pending"
    /\ cursor' = [cursor EXCEPT !.pending = pass.w]
    /\ pass' = [pass EXCEPT !.at = "evaluate", !.scanned = @ + 1]
    /\ UNCHANGED <<job, native, calls>>

\* The end of a page, or of the pass's time: a short page starts again from the first watch.
EndPass ==
    /\ pass.at = "page"
    /\ \/ /\ Rest = {} /\ pass.scanned < WatchesPerPass
          /\ cursor' = [cursor EXCEPT !.after = 0]
       \/ /\ pass.scanned >= WatchesPerPass \/ "late" \in Faults
          /\ UNCHANGED cursor
    /\ pass' = NoPass
    /\ UNCHANGED <<job, native, calls>>

\* A processed watch releases the pending slot.
Released ==
    /\ pass.at = "processed"
    /\ cursor' = [after |-> pass.w, pending |-> 0]
    /\ pass' = [pass EXCEPT !.at = "page"]
    /\ UNCHANGED <<job, native, calls>>

(***************************************************************************)
(* process and evaluate, for the pending watch.                            *)
(***************************************************************************)
This == pass.w
Goto(at) == pass' = [pass EXCEPT !.at = at]
SaveJob(j) == job' = [job EXCEPT ![This] = j]
Unchanged(w) == watch[w].armed /\ watch[w].version = job[w].version
Exhausted(j) == j.attempts >= AttemptsPerPage

\* Nothing to do: accepted, waiting for its retry, or out of attempts.
SkipJob ==
    /\ pass.at = "evaluate"
    /\ \/ job[This].accepted
       \/ job[This].evaluation = NoKey /\ (~job[This].due \/ Exhausted(job[This]))
    /\ Goto("processed")
    /\ UNCHANGED <<cursor, job, native, calls>>

Active == ~job[This].accepted /\ (job[This].evaluation # NoKey \/ (job[This].due /\ ~Exhausted(job[This])))

\* A definite refusal of Nexus gives the slot up and spends the attempts.
Refused ==
    /\ SaveJob([job[This] EXCEPT !.evaluation = NoKey, !.attempts = AttemptsPerPage])
    /\ Goto("processed")

\* prepare_watch_page, once for each version of the watch.
PrepareTicket ==
    /\ pass.at = "evaluate" /\ Active /\ ~job[This].ticket
    /\ IF Unchanged(This)
       THEN /\ SaveJob([job[This] EXCEPT !.ticket = TRUE])
            /\ UNCHANGED pass
       ELSE Refused
    /\ UNCHANGED <<cursor, native, calls>>

\* Mutant: the attempt is counted only when the model has answered.
ReserveNothing ==
    /\ pass.at = "evaluate" /\ Active
    /\ job[This].ticket /\ job[This].evaluation = NoKey
    /\ Unchanged(This)
    /\ Goto("ask")
    /\ UNCHANGED <<job, cursor, native, calls>>

\* The attempt is reserved before the model is asked; a page that is too large spends
\* them all, and one beyond the budget of this pass waits for the next.
Reserve ==
    /\ pass.at = "evaluate" /\ Active
    /\ job[This].ticket /\ job[This].evaluation = NoKey
    /\ \/ /\ ~Unchanged(This)
          /\ Refused
       \/ /\ Unchanged(This) /\ "oversized" \in Faults
          /\ SaveJob([job[This] EXCEPT !.attempts = AttemptsPerPage])
          /\ Goto("processed")
       \/ /\ Unchanged(This) /\ "late" \in Faults
          /\ Goto("processed")
          /\ UNCHANGED job
       \/ /\ Unchanged(This)
          /\ SaveJob([job[This] EXCEPT !.attempts = @ + 1])
          /\ Goto("ask")
    /\ UNCHANGED <<cursor, native, calls>>

\* The provider's reply is complete, or it is refused: an error status, another model,
\* an unfinished or oversized completion, a timeout, a panic.
ProviderReplies == {"complete", "rejected"}

\* A complete reply counts when it judges every candidate once; all else is unknown.
Judgments(reply) == IF reply = "complete" THEN {"judged", "unknown"} ELSE {"unknown"}

AskModel ==
    /\ pass.at = "ask"
    /\ calls' = [calls EXCEPT ![This] = @ + 1]
    /\ \E reply \in ProviderReplies : \E j \in Judgments(reply) :
         pass' = [at |-> j, w |-> This, scanned |-> pass.scanned]
    /\ UNCHANGED <<cursor, job, native>>

\* The evaluation is stored as an artifact before the job names it.
SaveEvaluation ==
    /\ pass.at \in {"judged", "unknown"}
    /\ SaveJob([job[This] EXCEPT !.evaluation =
                 [epoch |-> job[This].epoch, attempt |-> job[This].attempts, judged |-> pass.at = "judged"]])
    /\ Goto("evaluate")
    /\ UNCHANGED <<cursor, native, calls>>

Replayed(w) == committed[w].key = job[w].evaluation /\ committed[w].version = job[w].version

\* commit_watch_page: a known key replays its result; otherwise the watch must not have
\* changed.  An accepted page moves the watch on, and may fire it; a deferred one leaves it.
Commit ==
    /\ pass.at = "evaluate" /\ job[This].evaluation # NoKey /\ ~job[This].accepted
    /\ \/ /\ Replayed(This)
          /\ Goto(IF committed[This].accepted THEN "accepted" ELSE "deferred")
          /\ UNCHANGED <<job, native>>
       \/ /\ ~Replayed(This) /\ Unchanged(This) /\ watch[This].version < MaxVersion
          /\ \E accepted \in IF job[This].evaluation.judged THEN BOOLEAN ELSE {FALSE}, fired \in BOOLEAN :
               /\ committed' = [committed EXCEPT ![This] = [key |-> job[This].evaluation,
                                       version |-> job[This].version, accepted |-> accepted]]
               /\ watch' = IF ~accepted THEN watch
                           ELSE [watch EXCEPT ![This] = [version |-> @.version + 1, armed |-> ~fired]]
               /\ Goto(IF accepted THEN "accepted" ELSE "deferred")
          /\ UNCHANGED job
       \/ /\ ~Replayed(This) /\ (~Unchanged(This) \/ "definite" \in Faults)
          /\ Refused
          /\ UNCHANGED native
    /\ UNCHANGED <<cursor, calls>>

SaveOutcome ==
    /\ pass.at \in {"accepted", "deferred"}
    /\ SaveJob([job[This] EXCEPT !.accepted = pass.at = "accepted", !.evaluation = NoKey, !.due = FALSE])
    /\ Goto("processed")
    /\ UNCHANGED <<cursor, native, calls>>

\* A failure that may have taken effect ends the pass and keeps the pending slot.
AmbiguousFailure ==
    /\ "ambiguous" \in Faults
    /\ pass.at \in {"evaluate", "judged", "unknown", "accepted", "deferred"}
    /\ pass' = NoPass
    /\ UNCHANGED <<cursor, job, native, calls>>

(***************************************************************************)
(* The operator, the other writers of the graph, time and crashes.         *)
(***************************************************************************)
\* retry: a new epoch of attempts, unless a commit is pending or accepted.
Retry(w) ==
    /\ pass.at = "idle"
    /\ job[w] # NoJob /\ job[w].evaluation = NoKey /\ ~job[w].accepted
    /\ job[w].epoch < MaxEpoch
    /\ job' = [job EXCEPT ![w].epoch = @ + 1, ![w].attempts = 0, ![w].due = TRUE]
    /\ calls' = [calls EXCEPT ![w] = 0]
    /\ UNCHANGED <<cursor, native, pass>>

EditWatch(w) ==
    /\ watch[w].version < MaxVersion
    /\ \E armed \in BOOLEAN : watch' = [watch EXCEPT ![w] = [version |-> @.version + 1, armed |-> armed]]
    /\ UNCHANGED <<cursor, job, committed, pass, calls>>

RetryIsDue(w) ==
    /\ job[w] # NoJob /\ ~job[w].due
    /\ job' = [job EXCEPT ![w].due = TRUE]
    /\ UNCHANGED <<cursor, native, pass, calls>>

Crash ==
    /\ "crash" \in Faults
    /\ pass # NoPass
    /\ pass' = NoPass
    /\ UNCHANGED <<cursor, job, native, calls>>

PassStep ==
    \/ PassBegin \/ TakeRow \/ SavePending \/ EndPass \/ Released
    \/ SkipJob \/ PrepareTicket \/ Reserve \/ AskModel \/ SaveEvaluation \/ Commit \/ SaveOutcome

Next ==
    \/ PassStep
    \/ \E w \in Watches : Retry(w) \/ EditWatch(w) \/ RetryIsDue(w)
    \/ AmbiguousFailure
    \/ Crash

Spec == Init /\ [][Next]_vars

(***************************************************************************)
(* Properties.                                                             *)
(***************************************************************************)
TypeOK ==
    /\ cursor \in [after : 0..NumWatches, pending : 0..NumWatches]
    /\ watch \in [Watches -> [version : 1..MaxVersion, armed : BOOLEAN]]
    /\ \A w \in Watches : job[w] # NoJob => /\ job[w].attempts \in 0..AttemptsPerPage
                                            /\ job[w].epoch \in 0..MaxEpoch
    /\ pass.w \in 0..NumWatches /\ pass.scanned \in 0..(WatchesPerPass + 1)

\* Model calls for one page and one retry epoch never exceed attempts_per_page, whatever
\* crashes or ambiguous failures interrupt them (the spend is reserved before the callback).
SpendIsBounded ==
    \A w \in Watches : job[w] # NoJob => calls[w] <= AttemptsPerPage

\* A stored evaluation belongs to the pending watch of the cursor, so the next pass
\* resolves it before its input can be replaced; the refusal in pass never blocks it.
StoredIsPending ==
    \A w \in Watches : (job[w] # NoJob /\ job[w].evaluation # NoKey) => cursor.pending = w
=============================================================================
