------------------------------ MODULE RecallPass ------------------------------
(***************************************************************************)
(* One Recall pass (agents/recall.rs) in its two modes: the plain runner   *)
(* loop, and the budgeted one (agents/recall/budgeted.rs) whose output is  *)
(* a packet of whole memory items selected under hard token budgets        *)
(* (recall_budget/mod.rs).  Every delivery leaves a receipt                *)
(* (recall_receipt.rs).  A managed change of memory may begin and end at   *)
(* any moment: the pass takes the epoch when it starts, its KIP reads are  *)
(* refused while a change is pending, and its output is checked once more  *)
(* after all its work.                                                     *)
(*                                                                         *)
(* Tokens are abstracted to one unit per item and one for the envelope;    *)
(* `read` is a history variable that numbers every row the host was given. *)
(***************************************************************************)
EXTENDS Integers, FiniteSets, Sequences, SequencesExt, FiniteSetsExt

CONSTANTS
    Modes,        \* the modes exercised: a subset of {"plain", "budgeted"}
    OutLimits,    \* the max_tokens a request may resolve to
    ContextLimit, \* context_tokens
    MaxItems,     \* recall_budget::MAX_ITEMS
    MaxRows,      \* MAX_ROWS
    MaxTurns,     \* recall_max_rounds
    MaxCalls,     \* MAX_CALLS
    Skills,       \* the procedures memory holds
    SkillLimit,   \* the procedures one delivery re-checks
    MaxClock,     \* bound: time, in which permits expire
    MaxEpoch      \* bound: managed changes

Channels == {"primer", "notes", "kip", "procedures"}
\* Priority, in its order: the first two are mandatory.
Required == 1
Warning  == 2
Verified == 3
Relevant == 4
Unproven == 5

VARIABLES
    epoch, pending,  \* the control state of managed changes
    clock,
    pc, mode, mine,  \* the pass: its step, its mode, the epoch it took
    limit,           \* its resolved output budget
    mat,             \* Material: items, omitted channels, critical_missing, skills
    turns, calls, spent,
    selected,        \* the ids the planner selected
    failed,
    packet,          \* the packet: [items, omitted, ok], or the plain answer
    receipt,         \* what the conversation's delivery receipt binds
    out,             \* what the caller got
    read             \* history: every row read, by number

vars == <<epoch, pending, clock, pc, mode, mine, limit, mat, turns, calls, spent,
          selected, failed, packet, receipt, out, read>>
env  == <<epoch, pending, clock>>

EmptyMat == [items |-> <<>>, next |-> 1, omitted |-> {}, critical |-> FALSE,
             skills |-> {}, notes |-> FALSE]
NoPacket == [items |-> {}, omitted |-> {}, ok |-> FALSE]

TypeOK ==
    /\ epoch \in 0..MaxEpoch /\ pending \in BOOLEAN /\ clock \in 0..MaxClock
    /\ pc \in {"idle", "epoch", "context", "constraints", "discover", "turn", "model",
               "refresh", "pack", "recheck", "runner", "persist", "receipt", "check"}
    /\ mode \in Modes /\ mine \in 0..MaxEpoch /\ limit \in OutLimits
    /\ Len(mat.items) <= MaxItems /\ mat.omitted \subseteq Channels
    /\ turns \in 0..MaxTurns /\ calls \in 0..MaxCalls /\ spent \in 0..ContextLimit
    /\ failed \in BOOLEAN

Init ==
    /\ epoch = 0 /\ pending = FALSE /\ clock = 0
    /\ pc = "idle" /\ mode \in Modes /\ limit \in OutLimits /\ mine = 0
    /\ mat = EmptyMat /\ turns = 0 /\ calls = 0 /\ spent = 0 /\ selected = {}
    /\ failed = FALSE /\ packet = NoPacket /\ receipt = NoPacket
    /\ out = "none" /\ read = {}

(***************************************************************************)
(* The environment: managed changes and time.                              *)
(***************************************************************************)
BeginChange ==
    /\ ~pending /\ epoch < MaxEpoch
    /\ epoch' = epoch + 1 /\ pending' = TRUE
    /\ UNCHANGED <<clock, pc, mode, mine, limit, mat, turns, calls, spent, selected,
                   failed, packet, receipt, out, read>>

EndChange ==
    /\ pending /\ pending' = FALSE
    /\ UNCHANGED <<epoch, clock, pc, mode, mine, limit, mat, turns, calls, spent,
                   selected, failed, packet, receipt, out, read>>

Tick ==
    /\ clock < MaxClock /\ clock' = clock + 1
    /\ UNCHANGED <<epoch, pending, pc, mode, mine, limit, mat, turns, calls, spent,
                   selected, failed, packet, receipt, out, read>>

(***************************************************************************)
(* Material.                                                               *)
(***************************************************************************)
\* A row read now: its channel and priority, the permit it carries (the time
\* it expires, 0 for none), whether it is a procedure's status object, and the
\* epoch of the memory it was read from.
Row(chan, pri, permit) ==
    [row |-> Cardinality(read) + 1, chan |-> chan, pri |-> pri, permit |-> permit,
     status |-> FALSE, from |-> epoch]

Mandatory(items) == SelectSeq(items, LAMBDA i : i.pri <= Warning)
Optional(items)  == SelectSeq(items, LAMBDA i : i.pri > Warning)

Omit(m, chan) == [m EXCEPT !.omitted = @ \cup {chan}]

\* Mutant: an item that does not fit the inventory is dropped without a trace.
AddSilently(m, r) ==
    IF Len(m.items) >= MaxItems THEN m
    ELSE [m EXCEPT !.items = Append(@, r @@ [id |-> m.next]), !.next = @ + 1]

\* Material::add: the inventory is bounded; what it cannot hold is an omission,
\* and a mandatory row it cannot hold makes the whole delivery insufficient.
Add(m, r) ==
    IF Len(m.items) >= MaxItems
    THEN [Omit(m, r.chan) EXCEPT !.critical = @ \/ r.pri <= Warning]
    ELSE [m EXCEPT !.items = Append(@, r @@ [id |-> m.next]), !.next = @ + 1]

Fits(n) == 1 + n <= limit

\* budget_kip: a read is refused while a change is pending, and may fail anyway.
KipAnswers(ok) == ok => ~pending

(***************************************************************************)
(* The beginning of a pass.                                                *)
(***************************************************************************)
\* run: refused while a change is pending.
Start ==
    /\ pc = "idle" /\ out = "none"
    /\ IF pending THEN out' = "refused" /\ pc' = "idle"
                  ELSE pc' = "epoch" /\ UNCHANGED out
    /\ UNCHANGED <<env, mode, mine, limit, mat, turns, calls, spent, selected, failed,
                   packet, receipt, read>>

\* run: the epoch is a second read of the control state.  A plain pass then reads
\* its context, ungated, into the runner's instructions.
BeginPlain ==
    /\ pc = "epoch" /\ mode = "plain" /\ mine' = epoch /\ pc' = "runner"
    /\ UNCHANGED <<env, mode, limit, mat, turns, calls, spent, selected, failed, packet,
                   receipt, out, read>>

\* A budgeted pass begins with the host's interpretation, and ends at once when
\* not even that fits.
BeginBudgeted ==
    /\ pc = "epoch" /\ mode = "budgeted" /\ mine' = epoch
    /\ LET r == Row("primer", Required, 0) IN
       mat' = Add(mat, r) /\ read' = read \cup {r}
    /\ failed' = ~Fits(1)
    /\ pc' = IF failed' THEN "pack" ELSE "context"
    /\ UNCHANGED <<env, mode, limit, turns, calls, spent, selected, packet, receipt, out>>

\* plan_budgeted: the primer, the notes and the counterparty.  These reads pass no
\* gate.  A missing primer is critical.
ReadContext(primer, notes) ==
    /\ pc = "context"
    /\ LET r == Row("primer", Required, 0)
           m == IF primer THEN Add(mat, r)
                ELSE [Omit(mat, "primer") EXCEPT !.critical = TRUE]
       IN  /\ mat' = IF notes THEN [m EXCEPT !.notes = TRUE] ELSE Omit(m, "notes")
           /\ read' = IF primer THEN read \cup {r} ELSE read
    /\ pc' = "constraints"
    /\ UNCHANGED <<env, mode, mine, limit, turns, calls, spent, selected, failed, packet,
                   receipt, out>>

\* plan_budgeted: the unresolved commitments are mandatory; one more than the
\* page, or a read that is refused or fails, is critical.
ReadConstraints(n) ==
    /\ pc = "constraints" /\ KipAnswers(n # -1)
    /\ LET taken == IF n > MaxRows THEN MaxRows ELSE n
           rows  == [i \in 1..taken |->
                        [Row("kip", Required, 0) EXCEPT !.row = @ + i - 1]]
           m     == FoldLeft(Add, mat, rows)
           made  == IF n = -1 THEN [Omit(mat, "kip") EXCEPT !.critical = TRUE]
                    ELSE IF n > MaxRows THEN [m EXCEPT !.critical = TRUE] ELSE m
       IN  /\ mat' = made
           /\ read' = read \cup Range(rows)
           /\ failed' = (made.critical \/ ~Fits(Len(Mandatory(made.items))))
           /\ pc' = IF failed' THEN "pack" ELSE "discover"
    /\ UNCHANGED <<env, mode, mine, limit, turns, calls, spent, selected, packet, receipt,
                   out>>

\* plan_budgeted: the question's own search; a program among the hits is an
\* unproven procedure, and names a skill to check.  An unavailable search is a
\* warning of its own.  The notes join the pool after the question's candidates.
Discover(hit, skill) ==
    /\ pc = "discover" /\ KipAnswers(hit)
    /\ LET r  == IF ~hit THEN Row("kip", Warning, 0)
                 ELSE Row("kip", IF skill = {} THEN Relevant ELSE Unproven, 0)
           m  == [Add(IF hit THEN mat ELSE Omit(mat, "kip"), r)
                  EXCEPT !.skills = @ \cup (IF hit THEN skill ELSE {})]
           n  == [Row("notes", Relevant, 0) EXCEPT !.row = @ + 1]
       IN  /\ mat' = IF mat.notes THEN Add(m, n) ELSE m
           /\ read' = read \cup {r} \cup (IF mat.notes THEN {n} ELSE {})
    /\ pc' = "turn"
    /\ UNCHANGED <<env, mode, mine, limit, turns, calls, spent, selected, failed, packet,
                   receipt, out>>

(***************************************************************************)
(* The planning passes.                                                    *)
(***************************************************************************)
\* The longest prefix between required and len whose length is in fit, by bisection.
LongestFitting(required, len, fit) ==
    LET bisect[lo \in 0..len, hi \in 0..len] ==
            IF hi - lo <= 1 THEN lo
            ELSE LET middle == lo + (hi - lo) \div 2
                 IN  IF middle \in fit THEN bisect[middle, hi] ELSE bisect[lo, middle]
    IN  IF len \in fit THEN len ELSE IF required \notin fit THEN -1 ELSE bisect[required, len]

\* Optional items in the order they are kept: by priority, then by id.
Ranked(items) ==
    SetToSortSeq(Range(Optional(items)),
                 LAMBDA a, b : a.pri < b.pri \/ (a.pri = b.pri /\ a.id < b.id))

Without(m, gone) ==
    [m EXCEPT !.items = SelectSeq(@, LAMBDA i : i \notin gone),
              !.omitted = @ \cup {i.chan : i \in gone}]

\* Mutant: what the planner's context could not hold leaves no omission.
FallbackForgetful(m) ==
    Add([m EXCEPT !.items = SelectSeq(@, LAMBDA i : i.chan # "notes")],
        Row("primer", Warning, 0))

\* The planning input is exhausted: the candidates the host read are delivered
\* without a plan and without narratives, under a warning of their own.
Fallback(m) ==
    Add(Without(m, {i \in Range(m.items) : i.chan = "notes" /\ i.pri > Warning}),
        Row("primer", Warning, 0))

\* A pass is shown every mandatory item and the best optional ones its context
\* holds; the others leave the pool.
Admit ==
    /\ pc = "turn"
    /\ LET ranked == Ranked(mat.items)
           must   == Len(Mandatory(mat.items))
           kept   == LongestFitting(0, Len(ranked),
                                    {k \in 0..Len(ranked) : 1 + must + k <= ContextLimit - spent})
       IN  CASE turns = MaxTurns ->                  \* no pass left: not finished
                  /\ failed' = TRUE /\ pc' = "pack"
                  /\ UNCHANGED <<mat, turns, spent, selected, read>>
             [] turns < MaxTurns /\ kept = -1 /\ ~mat.critical ->
                  /\ mat' = Fallback(mat) /\ read' = read \cup {Row("primer", Warning, 0)}
                  /\ selected' = {i.id : i \in Range(mat'.items)}
                  /\ pc' = "refresh" /\ turns' = turns + 1
                  /\ UNCHANGED <<spent, failed>>
             [] turns < MaxTurns /\ kept = -1 /\ mat.critical ->
                  /\ failed' = TRUE /\ pc' = "pack" /\ turns' = turns + 1
                  /\ UNCHANGED <<mat, spent, selected, read>>
             [] OTHER ->
                  /\ mat' = Without(mat, {ranked[i] : i \in (kept + 1)..Len(ranked)})
                  /\ spent' = spent + 1 + must + kept
                  /\ turns' = turns + 1
                  /\ failed' = mat.critical
                  /\ pc' = IF failed' THEN "pack" ELSE "model"
                  /\ UNCHANGED <<selected, read>>
    /\ UNCHANGED <<env, mode, mine, limit, calls, packet, receipt, out>>

\* A tool call of the pass: a KIP read (refused while a change is pending), or the
\* status of a procedure, whose permit lasts until `permit`; a call that fails is
\* a warning.  `last` is the last call of this pass.
ToolCall(chan, ok, permit, skill, last) ==
    /\ pc = "model" /\ calls < MaxCalls
    /\ chan \in {"kip", "procedures"}
    /\ (chan = "kip" => KipAnswers(ok))
    /\ (permit > 0 => chan = "procedures" /\ ok) /\ (skill # {} => ok)
    /\ (chan = "procedures" => skill # {} \/ ~ok)
    /\ LET pri == CASE ~ok -> Warning
                    [] ok /\ chan = "procedures" -> IF permit > 0 THEN Verified ELSE Warning
                    [] OTHER -> IF skill = {} THEN Relevant ELSE Unproven
           r   == [Row(chan, pri, permit) EXCEPT !.status = (ok /\ chan = "procedures")]
           m   == Add(IF ok THEN mat ELSE Omit(mat, chan), r)
           new == chan = "kip" \/ m.next > mat.next
       IN  /\ mat' = [m EXCEPT !.skills = @ \cup (IF new THEN skill ELSE {})]
           /\ read' = read \cup {r}
    /\ calls' = calls + 1
    /\ pc' = IF last THEN "turn" ELSE "model"
    /\ UNCHANGED <<env, mode, mine, limit, turns, spent, selected, failed, packet, receipt,
                   out>>

\* The planner selects; ids it invents are not in the pool.
Select(ids) ==
    /\ pc = "model" /\ selected' = ids \cap {i.id : i \in Range(mat.items)}
    /\ pc' = "refresh"
    /\ UNCHANGED <<env, mode, mine, limit, mat, turns, calls, spent, failed, packet,
                   receipt, out, read>>

\* The model is unavailable or too late, answers something else, or asks for
\* more calls than it has.
PlanFailed ==
    /\ pc = "model" /\ failed' = TRUE /\ pc' = "pack"
    /\ UNCHANGED <<env, mode, mine, limit, mat, turns, calls, spent, selected, packet,
                   receipt, out, read>>

(***************************************************************************)
(* Delivery of a packet.                                                   *)
(***************************************************************************)
Expired(i) == i.permit > 0 /\ i.permit <= clock

\* refresh_budget_procedures: no status object survives; every known procedure
\* is checked again, and the check is mandatory.  `permits` is what it answered.
\* (Row numbers above 100 are those of the new status objects.)
Refresh(permits) ==
    /\ pc = "refresh"
    /\ LET kept == [mat EXCEPT !.items = SelectSeq(@, LAMBDA i : ~i.status)]
           dom  == SetToSeq(mat.skills)
           rows == [i \in DOMAIN dom |->
                       [Row("procedures",
                            IF permits[dom[i]] > clock THEN Required ELSE Warning,
                            IF permits[dom[i]] > clock THEN permits[dom[i]] ELSE 0)
                        EXCEPT !.row = 100 + i]]
       IN  IF Cardinality(mat.skills) > SkillLimit
           THEN /\ mat' = [Omit(mat, "procedures") EXCEPT !.critical = TRUE]
                /\ UNCHANGED read
           ELSE /\ mat' = FoldLeft(Add, kept, rows)
                /\ read' = {r \in read : ~r.status} \cup Range(rows)
    /\ pc' = "pack"
    /\ UNCHANGED <<env, mode, mine, limit, turns, calls, spent, selected, failed, packet,
                   receipt, out>>

\* expire_procedure_checks: an expired permit becomes a warning.
Expire(items, all) ==
    [i \in DOMAIN items |->
        IF items[i].permit > 0 /\ (all \/ Expired(items[i]))
        THEN [items[i] EXCEPT !.permit = 0, !.pri = Warning] ELSE items[i]]

\* A channel with an item that is not delivered is an omitted one, besides those
\* the host reported; a report is never taken back.
DeliveryCoverage(items, kept) == mat.omitted \cup {i.chan : i \in Range(items) \ kept}

\* pack_ranked: every mandatory item, then the selected ones by priority (the
\* host's utility orders peers, so any of them) while they fit; or nothing.
Packed(items) ==
    LET must == Range(Mandatory(items))
        pool == {i \in Range(Optional(items)) : i.id \in selected}
        room == limit - 1 - Cardinality(must)
        size == IF Cardinality(pool) < room THEN Cardinality(pool) ELSE room
    IN  IF room < 0 THEN {[items |-> {}, omitted |-> DeliveryCoverage(items, {}), ok |-> FALSE]}
        ELSE {[items |-> must \cup s, omitted |-> DeliveryCoverage(items, must \cup s),
               ok |-> TRUE] :
                 s \in {t \in kSubset(size, pool) :
                           \A i \in t, j \in pool \ t : i.pri <= j.pri}}

Insufficient == [items |-> {}, omitted |-> mat.omitted, ok |-> FALSE]

\* finish_budgeted: the first serialization.
Pack ==
    /\ pc = "pack"
    /\ mat' = [mat EXCEPT !.items = Expire(@, FALSE)]
    /\ packet' \in IF failed \/ mat.critical THEN {Insufficient} ELSE Packed(mat'.items)
    /\ pc' = "recheck"
    /\ UNCHANGED <<env, mode, mine, limit, turns, calls, spent, selected, failed, receipt,
                   out, read>>

\* Mutant: the permits are not looked at again after serialization.
RecheckNever == UNCHANGED <<mat, packet>>

\* finish_budgeted: a permit that expired during serialization takes every other
\* permit with it, and the packet is built once more.
Recheck ==
    IF ~failed /\ ~mat.critical /\ \E i \in Range(mat.items) : Expired(i)
    THEN /\ mat' = [mat EXCEPT !.items = Expire(@, TRUE)]
         /\ packet' \in Packed(mat'.items)
    ELSE UNCHANGED <<mat, packet>>

Finish ==
    /\ pc = "recheck" /\ Recheck /\ pc' = "receipt"
    /\ UNCHANGED <<env, mode, mine, limit, turns, calls, spent, selected, failed, receipt,
                   out, read>>

\* issue_packet, issue_legacy and bind_conversation: the receipt is stored before
\* the output is returned; a failed write fails the pass, except that a plain
\* pass that failed anyway only logs it.
IssueReceipt(ok) ==
    /\ pc = "receipt"
    /\ receipt' = IF ok THEN packet ELSE receipt
    /\ IF ok \/ (mode = "plain" /\ failed)
       THEN pc' = "check" /\ UNCHANGED out
       ELSE out' = "error" /\ pc' = "idle"
    /\ UNCHANGED <<env, mode, mine, limit, mat, turns, calls, spent, selected, failed,
                   packet, read>>

\* Mutant: the output is returned without the last look at the epoch.
PassesNoFence == TRUE

\* Control::check.
PassesFence == ~pending /\ mine = epoch

Return ==
    /\ pc = "check" /\ pc' = "idle"
    /\ out' = IF PassesFence THEN "delivered" ELSE "refused"
    /\ UNCHANGED <<env, mode, mine, limit, mat, turns, calls, spent, selected, failed,
                   packet, receipt, read>>

(***************************************************************************)
(* The plain runner: model turns and compactions share one budget; every   *)
(* failure that leaves an output still delivers it.                        *)
(***************************************************************************)
\* The timed read-only tool: its gate is the fence itself.
TimedRead(reads) == reads => PassesFence

RunnerTurn(reads) ==
    /\ pc = "runner" /\ turns < MaxTurns /\ turns' = turns + 1
    /\ TimedRead(reads)
    /\ IF reads
       THEN LET r == Row("kip", Relevant, 0) IN
            /\ read' = read \cup {r}
            /\ packet' = [packet EXCEPT !.items = @ \cup {r}, !.ok = TRUE]
       ELSE UNCHANGED <<read, packet>>
    /\ UNCHANGED <<env, pc, mode, mine, limit, mat, calls, spent, selected, failed,
                   receipt, out>>

\* The runner is done, its turns are spent, its time is over, or it fails.
RunnerEnds(how) ==
    /\ pc = "runner"
    /\ (how = "turns" => turns = MaxTurns) /\ (how = "done" => turns > 0)
    /\ failed' = (how # "done")
    /\ IF how = "error" THEN out' = "error" /\ pc' = "idle"
                        ELSE pc' = "receipt" /\ UNCHANGED out
    /\ UNCHANGED <<env, mode, mine, limit, mat, turns, calls, spent, selected, packet,
                   receipt, read>>

Next ==
    \/ BeginChange \/ EndChange \/ Tick
    \/ Start \/ BeginPlain \/ BeginBudgeted
    \/ \E p, n \in BOOLEAN : ReadContext(p, n)
    \/ \E n \in -1..(MaxRows + 1) : ReadConstraints(n)
    \/ \E h \in BOOLEAN, s \in {{}} \cup {{k} : k \in Skills} : Discover(h, s)
    \/ Admit
    \/ \E c \in {"kip", "procedures"}, ok, last \in BOOLEAN, p \in 0..MaxClock,
          s \in {{}} \cup {{k} : k \in Skills} : ToolCall(c, ok, p, s, last)
    \/ \E ids \in SUBSET {i.id : i \in Range(mat.items)} : Select(ids)
    \/ PlanFailed
    \/ \E permits \in [mat.skills -> 0..MaxClock] : Refresh(permits)
    \/ Pack \/ Finish
    \/ \E ok \in BOOLEAN : IssueReceipt(ok)
    \/ Return
    \/ \E r \in BOOLEAN : RunnerTurn(r)
    \/ \E how \in {"done", "turns", "timeout", "error"} : RunnerEnds(how)

Spec == Init /\ [][Next]_vars

(***************************************************************************)
(* Properties.                                                             *)
(***************************************************************************)
Done   == pc \in {"receipt", "check"} \/ out = "delivered"
RowsOf(p) == {i.row : i \in p.items}

\* A budgeted packet hides nothing it should have said: a usable one carries
\* every mandatory row the host ever read, and whatever else was read and is
\* not in it belongs to a channel the packet names as omitted -- through the
\* inventory's bound, the planner's evictions, the fallback and the packing
\* (budgeted.rs, recall_budget::pack_ranked).
PacketIsWhole ==
    mode = "budgeted" /\ Done /\ packet.ok =>
        \A r \in read : \/ r.row \in RowsOf(packet)
                        \/ r.pri > Warning /\ r.chan \in packet.omitted

\* A permit in a finished packet was still running when the packet was built
\* (expire_procedure_checks after serialization): the pass leaves "recheck" with
\* no permit that time has already ended.
PermitsAreCurrent ==
    [][pc = "recheck" /\ pc' = "receipt" =>
           \A i \in packet'.items : i.permit = 0 \/ i.permit > clock]_vars

\* What a caller gets through the gated reads comes from the memory of the epoch
\* it is delivered in, never from before a change (recall.rs: "Check every
\* returned output after all async work").
DeliveredIsCurrent ==
    [][out' = "delivered" /\ out # out' =>
           \A i \in packet'.items : i.chan = "kip" => i.from = epoch]_vars
===============================================================================
