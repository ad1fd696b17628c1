------------------------- MODULE ActionRuntimeProofs -------------------------
(***************************************************************************)
(* Proofs about ActionRuntime, for any fires, operations, retry budget and *)
(* depth, and any combination of faults: a target executes an attempt at   *)
(* most once, one fire acts on an operation, the journal holds what was    *)
(* committed, retries stay in their budget, and an answered question is    *)
(* not sent.                                                               *)
(***************************************************************************)
EXTENDS ActionRuntime, SequenceTheorems, TLAPS

WakeStates == {"absent", "pending", "running", "blocked", "completed", "cancelled"}
DispatchStates == {"none", "started", "ready", "outcome_unknown", "completed"}
Deliveries == {"none", "accepted", "finished", "unknown"}
Operations == {Operation[f] : f \in Fires}

\* The bounds of an instance are no part of the argument.
JobRecords ==
    [state : JobStates, rounds : Nat, failures : Nat, attempts : Nat, operator : Nat,
     prepared : Decisions \cup {"none"}, fence : Nat, delivery : Deliveries]

NativeTypes ==
    /\ wake \in [Wakes -> [state : WakeStates, fence : Nat]]
    /\ decision \in [Wakes -> Decisions \cup {"none"}]
    /\ dispatch \in [Wakes -> DispatchStates]
JobTypes == job \in [Wakes -> JobRecords]
OwnerTypes == owner \in [Operations -> Wakes \cup {NoWake}]
WorldTypes ==
    /\ sends \in [Wakes -> Nat]
    /\ effects \in [Wakes -> Nat]
TaskTypes ==
    /\ task \in [wake : Wakes \cup {NoWake}, at : Ats, job : JobRecords, timeout : BOOLEAN,
                 permit : {"none", "dispatch", "done", "outcome_unknown"}]
    /\ task.at # "idle" => task.wake \in Wakes
Types == NativeTypes /\ JobTypes /\ OwnerTypes /\ WorldTypes /\ TaskTypes

\* What a pass holds of its job is what the journal has, but for a preparation that
\* is about to be saved.
LocalInv ==
    task.at # "idle" =>
        /\ Local.operator = job[Work].operator
        /\ Local.attempts = job[Work].attempts
        /\ task.at # "save" => Local.prepared = job[Work].prepared

\* Whatever the target executed was admitted, and is admitted again only if the
\* target deduplicates.
EffectInv ==
    /\ \A w \in Wakes : effects[w] <= 1 /\ (dispatch[w] \in {"none", "ready"} => effects[w] = 0)
    /\ task.at = "send" /\ task.permit = "dispatch" =>
          dispatch[Work] \notin {"none", "ready"} /\ (~Idempotent => effects[Work] = 0)

\* A gate commits once: its wake is completed, its continuations follow it, and a pass
\* works on a wake that has not committed.
CommitInv ==
    /\ \A w \in Wakes : decision[w] # "none" => wake[w].state = "completed" /\ job[w].prepared = decision[w]
    /\ \A w \in Wakes : Len(w) > 1 /\ wake[w].state # "absent" => decision[Parent(w)] # "none"
    /\ task.at \notin {"idle", "close"} => decision[Work] = "none" /\ wake[Work].state # "absent"

\* Whoever is prepared to act on an operation is the operation's owner.
Owns(o, w, p) ==
    p = "act" /\ Key(w) # "clarification" /\ Operation[w[1]] # NoOperation
        => o[Operation[w[1]]] = w
OwnerInv ==
    /\ \A w \in Wakes : Owns(owner, w, job[w].prepared)
    /\ task.at # "idle" => Owns(owner, Work, Local.prepared)

\* A send was counted before it is made; an operator's retry opens a new window.
Window(j) == j.operator * (MaxRetries + 1)
BudgetInv ==
    /\ \A w \in Wakes : job[w].attempts <= MaxRetries + 1 /\ sends[w] <= Window(job[w]) + job[w].attempts
    /\ task.at \in {"begin", "send"} => sends[Work] < Window(job[Work]) + job[Work].attempts

\* A question that is about to be sent has not been answered.
AskInv ==
    task.at = "begin" =>
        ~(IsClarification(Work) /\ Answered(Work) /\ dispatch[Work] \in {"none", "ready"})

ActionInv == Types /\ LocalInv /\ EffectInv /\ CommitInv /\ OwnerInv /\ BudgetInv /\ AskInv

-----------------------------------------------------------------------------
(* Wakes.                                                                  *)

LEMMA BoundsAreNat ==
  MaxRetries \in Nat /\ MaxDepth \in Nat
  BY BoundsAssumption

LEMMA WakeShape ==
  ASSUME NEW w \in Wakes
  PROVE  /\ w \in Seq(Fires \cup Keys)
         /\ Len(w) \in 1..(MaxDepth + 1)
         /\ w \in Paths(Len(w))
         /\ w[1] \in Fires
         /\ w # NoWake
<1>1. PICK n \in 1..(MaxDepth + 1) : w \in Paths(n)
  BY DEF Wakes
<1>2. w \in [1..n -> Fires \cup Keys] /\ w[1] \in Fires
  BY <1>1 DEF Paths
<1>3. w \in Seq(Fires \cup Keys) /\ Len(w) = n
  BY <1>2, BoundsAreNat
<1> QED
  BY <1>1, <1>2, <1>3, BoundsAreNat DEF NoWake

LEMMA ParentIsWake ==
  ASSUME NEW w \in Wakes, Len(w) > 1
  PROVE  Parent(w) \in Wakes /\ Parent(w) # w
<1> DEFINE n == Len(w) - 1
           p == Parent(w)
<1>1. /\ w \in Seq(Fires \cup Keys) /\ w[1] \in Fires /\ n \in 1..MaxDepth
      /\ w \in Paths(n + 1)
  BY WakeShape, BoundsAreNat
<1>2. p \in [1..n -> Fires \cup Keys] /\ Len(p) = n /\ \A i \in 1..n : p[i] = w[i]
  <2>1. p = SubSeq(w, 1, n)
    BY DEF Parent
  <2>2. n \in Int /\ n >= 1 /\ \A i \in 1..n : w[i] \in Fires \cup Keys
    BY <1>1
  <2> HIDE DEF p, n
  <2>3. /\ p \in Seq(Fires \cup Keys) /\ Len(p) = (IF 1 <= n THEN n - 1 + 1 ELSE 0)
        /\ \A i \in 1..(n - 1 + 1) : p[i] = w[1 + i - 1]
    BY <2>1, <2>2, SubSeqProperties
  <2>4. Len(p) = n /\ \A i \in 1..n : p[i] = w[i]
    BY <2>2, <2>3
  <2> QED
    BY <2>2, <2>3, <2>4
<1>3. \A i \in 2..n : p[i] \in Children(SubSeq(p, 1, i - 1))
  <2> SUFFICES ASSUME NEW i \in 2..n
               PROVE  p[i] \in Children(SubSeq(p, 1, i - 1))
    OBVIOUS
  <2>1. w[i] \in Children(SubSeq(w, 1, i - 1))
    BY <1>1 DEF Paths
  <2>2. SubSeq(p, 1, i - 1) = SubSeq(w, 1, i - 1)
    <3> DEFINE S == Fires \cup Keys
               m == i - 1
               s == SubSeq(p, 1, m)
               t == SubSeq(w, 1, m)
    <3>1. m \in 1..n /\ m \in Int /\ \A j \in 1..m : p[j] \in S /\ w[j] \in S /\ p[j] = w[j]
      BY <1>1, <1>2
    <3> HIDE DEF S, p, m, n
    <3>2. s \in Seq(S) /\ Len(s) = m /\ \A j \in 1..m : s[j] = p[j]
      <4>1. /\ s \in Seq(S) /\ Len(s) = (IF 1 <= m THEN m - 1 + 1 ELSE 0)
            /\ \A j \in 1..(m - 1 + 1) : s[j] = p[1 + j - 1]
        BY <3>1, SubSeqProperties
      <4> QED
        BY <3>1, <4>1 DEF n
    <3>3. t \in Seq(S) /\ Len(t) = m /\ \A j \in 1..m : t[j] = w[j]
      <4>1. /\ t \in Seq(S) /\ Len(t) = (IF 1 <= m THEN m - 1 + 1 ELSE 0)
            /\ \A j \in 1..(m - 1 + 1) : t[j] = w[1 + j - 1]
        BY <3>1, SubSeqProperties
      <4> QED
        BY <3>1, <4>1 DEF n
    <3> HIDE DEF s, t
    <3>4. s = t
      BY <3>1, <3>2, <3>3, SeqEqual
    <3> QED
      BY <3>4 DEF s, t, m
  <2>3. p[i] = w[i]
    BY <1>2
  <2> HIDE DEF p
  <2> QED
    BY <2>1, <2>2, <2>3
<1>4. p \in Paths(n)
  BY <1>1, <1>2, <1>3 DEF Paths
<1>5. p \in Wakes
  BY <1>1, <1>4, BoundsAreNat, SMTT(30) DEF Wakes
<1> QED
  BY <1>2, <1>5

LEMMA HasParent ==
  ASSUME NEW w \in Wakes, Len(w) # 1
  PROVE  Len(w) > 1 /\ Parent(w) \in Wakes
<1>1. Len(w) \in 1..(MaxDepth + 1)
  BY WakeShape
<1>2. \A n \in 1..(MaxDepth + 1) : n # 1 => n > 1
  BY BoundsAreNat
<1>3. Len(w) > 1
  BY <1>1, <1>2
<1> QED
  BY <1>3, ParentIsWake

-----------------------------------------------------------------------------
(* Writing the journal.  The core of a job is what the invariants speak    *)
(* of; most steps leave it alone.                                          *)

SameCore(i, j) == i.operator = j.operator /\ i.attempts = j.attempts /\ i.prepared = j.prepared
CoreKept == JobTypes' /\ \A w \in Wakes : SameCore(job'[w], job[w])

LEMMA SetState ==
  ASSUME NEW j \in JobRecords, NEW s \in JobStates
  PROVE  [j EXCEPT !.state = s] \in JobRecords /\ SameCore([j EXCEPT !.state = s], j)
  BY DEF JobRecords, SameCore

LEMMA SetStateRounds ==
  ASSUME NEW j \in JobRecords, NEW s \in JobStates, NEW r \in Nat
  PROVE  /\ [j EXCEPT !.state = s, !.rounds = r] \in JobRecords
         /\ SameCore([j EXCEPT !.state = s, !.rounds = r], j)
  BY DEF JobRecords, SameCore

LEMMA SetRoundsState ==
  ASSUME NEW j \in JobRecords, NEW s \in JobStates, NEW r \in Nat
  PROVE  /\ [j EXCEPT !.rounds = r, !.state = s] \in JobRecords
         /\ SameCore([j EXCEPT !.rounds = r, !.state = s], j)
  BY DEF JobRecords, SameCore

LEMMA ConfirmedKeeps ==
  ASSUME JobTypes, NEW p
  PROVE  /\ Confirmed(p) \in [Wakes -> JobRecords]
         /\ \A w \in Wakes : SameCore(Confirmed(p)[w], job[w])
<1>1. CASE p \in Wakes /\ decision[p] # "none"
  <2> DEFINE c == [job[p] EXCEPT !.state = "committed"]
  <2>1. Confirmed(p) = [job EXCEPT ![p] = c]
    BY <1>1 DEF Confirmed, JobTypes
  <2>2. c \in JobRecords /\ SameCore(c, job[p])
    BY <1>1, SetState DEF JobTypes, JobStates
  <2> HIDE DEF c
  <2> QED
    BY <1>1, <2>1, <2>2 DEF JobTypes, SameCore
<1>2. CASE ~(p \in Wakes /\ decision[p] # "none")
  BY <1>2 DEF Confirmed, JobTypes, SameCore
<1> QED
  BY <1>1, <1>2

LEMMA SaveKeeps ==
  ASSUME JobTypes, Work \in Wakes, NEW j \in JobRecords, SameCore(j, job[Work]), Save(j)
  PROVE  CoreKept
  BY DEF JobTypes, Save, CoreKept, SameCore

LEMMA NoTaskTypes ==
  ASSUME task' = NoTask
  PROVE  TaskTypes' /\ task'.at = "idle"
  BY DEF NoTask, NewJob, TaskTypes, JobRecords, JobStates, Ats, Decisions, Deliveries

-----------------------------------------------------------------------------
(* Steps that only move a wake that has not committed, the job's state and *)
(* the pass.                                                               *)

Steady ==
    /\ CoreKept
    /\ NativeTypes'
    /\ UNCHANGED <<decision, dispatch, owner, sends, effects>>
    /\ \A w \in Wakes : wake'[w] = wake[w]
                        \/ /\ wake[w].state # "absent" /\ wake'[w].state # "absent"
                           /\ decision[w] = "none"

\* The pass ends, stands still, begins with the journal's job, or goes on with it.
PassEnds == task'.at = "idle"
PassStands == task' = task /\ (reply' = reply \/ task.at = "idle")
PassBegins ==
    /\ task'.at \in {"gate", "dispatch"}
    /\ SameCore(task'.job, job[task'.wake])
    /\ decision[task'.wake] = "none" /\ wake[task'.wake].state # "absent"
PassGoesOn ==
    /\ task.at \notin {"idle", "save"} /\ task'.at \in {"propose", "save", "close"}
    /\ task'.wake = task.wake
    /\ task'.at # "close" => task.at = "gate"
    /\ SameCore(task'.job, task.job)

LEMMA SteadyStep ==
  ASSUME ActionInv, Steady, TaskTypes', PassEnds \/ PassStands \/ PassBegins \/ PassGoesOn
  PROVE  ActionInv'
<1> USE DEF ActionInv, Types, Steady
<1>1. Types'
  BY DEF CoreKept, OwnerTypes, WorldTypes
<1>2. LocalInv'
  <2>1. CASE PassEnds
    BY <2>1 DEF PassEnds, LocalInv
  <2>2. CASE PassStands
    BY <2>2 DEF PassStands, LocalInv, CoreKept, SameCore, TaskTypes, Local, Work
  <2>3. CASE PassBegins
    BY <2>3 DEF PassBegins, LocalInv, CoreKept, SameCore, TaskTypes, Local, Work
  <2>4. CASE PassGoesOn
    BY <2>4 DEF PassGoesOn, LocalInv, CoreKept, SameCore, TaskTypes, Local, Work
  <2> QED
    BY <2>1, <2>2, <2>3, <2>4
<1>3. EffectInv'
  BY DEF PassEnds, PassStands, PassBegins, PassGoesOn, EffectInv, Work
<1>4. CommitInv'
  <2>1. \A w \in Wakes : decision'[w] # "none" => wake'[w].state = "completed" /\ job'[w].prepared = decision'[w]
    BY DEF CommitInv, CoreKept, SameCore
  <2>2. \A w \in Wakes : Len(w) > 1 /\ wake'[w].state # "absent" => decision'[Parent(w)] # "none"
    BY DEF CommitInv
  <2>3. task'.at \notin {"idle", "close"} => decision'[task'.wake] = "none" /\ wake'[task'.wake].state # "absent"
    BY DEF PassEnds, PassStands, PassBegins, PassGoesOn, CommitInv, TaskTypes, Work
  <2> QED
    BY <2>1, <2>2, <2>3 DEF CommitInv, Work
<1>5. OwnerInv'
  <2>1. \A w \in Wakes : Owns(owner', w, job'[w].prepared)
    BY DEF OwnerInv, Owns, CoreKept, SameCore
  <2>2. task'.at # "idle" => Owns(owner', task'.wake, task'.job.prepared)
    <3>1. CASE PassEnds
      BY <3>1 DEF PassEnds
    <3>2. CASE PassStands
      BY <3>2 DEF PassStands, OwnerInv, Owns, Local, Work
    <3>3. CASE PassBegins
      <4>1. task'.wake \in Wakes /\ task'.job.prepared = job[task'.wake].prepared
        BY <3>3 DEF PassBegins, SameCore, TaskTypes
      <4>2. Owns(owner, task'.wake, job[task'.wake].prepared)
        BY <4>1 DEF OwnerInv
      <4> QED
        BY <4>1, <4>2
    <3>4. CASE PassGoesOn
      BY <3>4 DEF PassGoesOn, OwnerInv, Owns, SameCore, Local, Work
    <3> QED
      BY <3>1, <3>2, <3>3, <3>4
  <2> QED
    BY <2>1, <2>2 DEF OwnerInv, Owns, Local, Work
<1>6. BudgetInv'
  <2>1. \A w \in Wakes : Window(job'[w]) = Window(job[w]) /\ job'[w].attempts = job[w].attempts
    BY DEF Window, CoreKept, SameCore
  <2>2. task'.at \in {"begin", "send"} => PassStands
    BY DEF PassEnds, PassBegins, PassGoesOn
  <2> QED
    BY <2>1, <2>2 DEF PassStands, BudgetInv, TaskTypes, Work
<1>7. AskInv'
  BY DEF PassEnds, PassStands, PassBegins, PassGoesOn, AskInv, Answered, Work
<1> QED
  BY <1>1, <1>2, <1>3, <1>4, <1>5, <1>6, <1>7

LEMMA AcquireEffect ==
  ASSUME NativeTypes, NEW w \in Wakes, NEW s \in WakeStates, Acquire(w, s), UNCHANGED <<decision, dispatch>>
  PROVE  NativeTypes' /\ wake'[w].state = s /\ \A v \in Wakes : v # w => wake'[v] = wake[v]
<1>1. PICK f \in Fences(w) : wake' = [wake EXCEPT ![w] = [state |-> s, fence |-> f]]
  BY DEF Acquire
<1>2. wake[w].fence \in Nat
  BY DEF NativeTypes
<1>3. f \in Nat
  BY <1>2 DEF Fences
<1> QED
  BY <1>1, <1>3 DEF NativeTypes

LEMMA SetWakeEffect ==
  ASSUME NativeTypes, NEW w \in Wakes, NEW s \in WakeStates, SetWake(w, s), UNCHANGED <<decision, dispatch>>
  PROVE  NativeTypes' /\ wake'[w].state = s /\ \A v \in Wakes : v # w => wake'[v] = wake[v]
  BY DEF NativeTypes, SetWake

\* What a pass holds.
LEMMA LocalCore ==
  ASSUME ActionInv, task.at \notin {"idle", "save"}
  PROVE  Work \in Wakes /\ Local \in JobRecords /\ SameCore(Local, job[Work])
  BY DEF ActionInv, Types, TaskTypes, LocalInv, SameCore, Local, Work

LEMMA EndKeeps ==
  ASSUME ActionInv, task.at \notin {"idle", "save"}, NEW j \in JobRecords, SameCore(j, Local), End(j)
  PROVE  CoreKept /\ TaskTypes' /\ PassEnds
<1>1. SameCore(j, job[Work])
  BY LocalCore DEF SameCore
<1>2. CoreKept
  BY <1>1, LocalCore, SaveKeeps DEF End, ActionInv, Types
<1> QED
  BY <1>2, NoTaskTypes DEF End, PassEnds

\* The wake of a pass that has not committed may move.
LEMMA WorkMoves ==
  ASSUME ActionInv, task.at \notin {"idle", "close"}, CoreKept, NativeTypes',
         UNCHANGED <<decision, dispatch, owner, sends, effects>>,
         wake'[Work].state # "absent", \A v \in Wakes : v # Work => wake'[v] = wake[v]
  PROVE  Steady
  BY DEF ActionInv, CommitInv, Steady

LEMMA StartKeeps ==
  ASSUME ActionInv, NEW w \in Wakes, Start(w)
  PROVE  ActionInv'
<1> DEFINE p == Parent(w)
           rounds == IF Len(w) = 1 \/ job[w].operator > 0 THEN job[w].rounds
                     ELSE job[p].rounds + (IF Key(w) = "retry" THEN 1 ELSE 0)
           open == Key(w) = "answer" /\ p \notin reply
           timeout == open /\ p \in expired
           r == IF timeout THEN MaxRetries ELSE rounds
           s == IF job[w].state = "none" THEN "pending" ELSE job[w].state
           local == [job[w] EXCEPT !.rounds = r, !.state = s]
<1>1. JobTypes /\ TaskTypes /\ job[w] \in JobRecords
  BY DEF ActionInv, Types, JobTypes
<1>2. rounds \in Nat
  <2>1. job[w].rounds \in Nat /\ (Len(w) # 1 => job[p].rounds \in Nat)
    <3>1. Len(w) # 1 => p \in Wakes
      BY HasParent
    <3> QED
      BY <1>1, <3>1 DEF JobTypes, JobRecords
  <2> QED
    BY <2>1
<1>3. decision[w] = "none" /\ wake[w].state # "absent"
  BY DEF Start, ActionInv, CommitInv
<1>4. /\ UNCHANGED <<wake, decision, dispatch, owner, reply, sends, effects>> /\ task.at = "idle"
  BY DEF Start, native, world
<1>5. CASE /\ job' = [Confirmed(p) EXCEPT ![w].state = "awaiting_reply", ![w].rounds = rounds]
           /\ UNCHANGED task
  <2> DEFINE f == Confirmed(p)
             j == [f[w] EXCEPT !.state = "awaiting_reply", !.rounds = rounds]
  <2>1. f \in [Wakes -> JobRecords] /\ \A v \in Wakes : SameCore(f[v], job[v])
    BY <1>1, ConfirmedKeeps
  <2> HIDE DEF f, rounds
  <2>2. job' = [f EXCEPT ![w] = j]
    BY <1>5, <2>1 DEF f
  <2>3. j \in JobRecords /\ SameCore(j, f[w])
    BY <1>2, <2>1, SetStateRounds DEF JobStates
  <2> HIDE DEF j
  <2>4. CoreKept
    BY <2>1, <2>2, <2>3 DEF CoreKept, JobTypes, SameCore
  <2>5. Steady /\ PassStands /\ TaskTypes'
    BY <1>1, <1>4, <1>5, <2>4 DEF Steady, PassStands, ActionInv, Types, NativeTypes, TaskTypes
  <2> QED
    BY <2>5, SteadyStep
<1>6. CASE /\ job' = Confirmed(p)
           /\ task' = [NoTask EXCEPT !.wake = w, !.at = IF IsDispatch(w) THEN "dispatch" ELSE "gate",
                                     !.job = local, !.timeout = timeout]
  <2>1. CoreKept
    BY <1>1, <1>6, ConfirmedKeeps DEF CoreKept, JobTypes
  <2>2. local \in JobRecords /\ SameCore(local, job[w])
    <3>1. r \in Nat /\ s \in JobStates
      BY <1>1, <1>2, BoundsAreNat DEF JobRecords, JobStates
    <3> HIDE DEF r, s
    <3> QED
      BY <1>1, <3>1, SetRoundsState
  <2> HIDE DEF local
  <2>3. /\ task'.wake = w /\ task'.at \in {"gate", "dispatch"} /\ task'.job = local /\ task'.permit = "none"
        /\ task' = [wake |-> w, at |-> IF IsDispatch(w) THEN "dispatch" ELSE "gate", job |-> local,
                    timeout |-> timeout, permit |-> "none"]
    BY <1>6 DEF NoTask
  <2>4. timeout \in BOOLEAN
    OBVIOUS
  <2> HIDE DEF timeout
  <2>5. TaskTypes'
    BY <2>2, <2>3, <2>4 DEF TaskTypes, Ats
  <2>6. Steady /\ PassBegins
    BY <1>3, <1>4, <2>1, <2>2, <2>3 DEF Steady, PassBegins, ActionInv, Types, NativeTypes
  <2> QED
    BY <2>5, <2>6, SteadyStep
<1> QED
  BY <1>5, <1>6 DEF Start

LEMMA AcquireGateKeeps ==
  ASSUME ActionInv, AcquireGate
  PROVE  ActionInv'
<1>1. /\ task.at = "gate" /\ Work \in Wakes /\ Local \in JobRecords /\ SameCore(Local, job[Work])
      /\ UNCHANGED <<decision, dispatch, owner, reply, sends, effects>>
  BY LocalCore DEF AcquireGate, world
<1>2. CASE Acquire(Work, "blocked") /\ End([Local EXCEPT !.state = "blocked"])
  <2>1. /\ NativeTypes' /\ wake'[Work].state = "blocked"
        /\ \A v \in Wakes : v # Work => wake'[v] = wake[v]
    BY <1>1, <1>2, AcquireEffect DEF ActionInv, Types, WakeStates
  <2>2. CoreKept /\ TaskTypes' /\ PassEnds
    <3> DEFINE j == [Local EXCEPT !.state = "blocked"]
    <3>1. j \in JobRecords /\ SameCore(j, Local)
      BY <1>1, SetState DEF JobStates
    <3> HIDE DEF j
    <3> QED
      BY <1>1, <1>2, <3>1, EndKeeps DEF j
  <2>3. Steady
    BY <1>1, <2>1, <2>2, WorkMoves
  <2> QED
    BY <2>2, <2>3, SteadyStep
<1>3. CASE /\ Acquire(Work, "running")
           /\ task' = [task EXCEPT !.at = IF Local.prepared = "none" THEN "propose" ELSE "save",
                                   !.job.fence = wake'[Work].fence]
           /\ UNCHANGED job
  <2>1. /\ NativeTypes' /\ wake'[Work].state = "running"
        /\ \A v \in Wakes : v # Work => wake'[v] = wake[v]
    BY <1>1, <1>3, AcquireEffect DEF ActionInv, Types, WakeStates
  <2>2. CoreKept
    BY <1>3 DEF CoreKept, SameCore, ActionInv, Types, JobTypes
  <2>3. Steady
    BY <1>1, <2>1, <2>2, WorkMoves
  <2>4. TaskTypes' /\ PassGoesOn
    <3> DEFINE j == [Local EXCEPT !.fence = wake'[Work].fence]
               a == IF Local.prepared = "none" THEN "propose" ELSE "save"
    <3>1. wake'[Work].fence \in Nat
      BY <1>1, <2>1 DEF NativeTypes
    <3>2. j \in JobRecords /\ SameCore(j, Local)
      BY <1>1, <3>1 DEF JobRecords, SameCore
    <3>3. task' = [task EXCEPT !.at = a, !.job = j]
      BY <1>3 DEF Local, ActionInv, Types, TaskTypes
    <3>4. a \in {"propose", "save"}
      OBVIOUS
    <3> HIDE DEF a, j
    <3> QED
      BY <1>1, <3>2, <3>3, <3>4 DEF TaskTypes, PassGoesOn, ActionInv, Types, Ats, Local, Work
  <2> QED
    BY <2>3, <2>4, SteadyStep
<1> QED
  BY <1>2, <1>3 DEF AcquireGate

LEMMA CloseKeeps ==
  ASSUME ActionInv, Close
  PROVE  ActionInv'
<1>1. /\ task.at = "close" /\ Work \in Wakes /\ Local \in JobRecords /\ SameCore(Local, Local)
      /\ UNCHANGED <<wake, decision, dispatch, owner, reply, sends, effects>>
  BY LocalCore DEF Close, world, native, SameCore
<1>2. CoreKept /\ TaskTypes' /\ PassEnds
  <2>1. CASE End(Local)
    BY <1>1, <2>1, EndKeeps
  <2>2. CASE task' = NoTask /\ UNCHANGED job
    BY <2>2, NoTaskTypes DEF CoreKept, SameCore, ActionInv, Types, JobTypes, PassEnds
  <2> QED
    BY <2>1, <2>2 DEF Close
<1>3. Steady
  BY <1>1, <1>2 DEF Steady, ActionInv, Types, NativeTypes
<1> QED
  BY <1>2, <1>3, SteadyStep

LEMMA CancelAnsweredKeeps ==
  ASSUME ActionInv, CancelAnswered
  PROVE  ActionInv'
<1>1. /\ task.at = "dispatch" /\ Work \in Wakes /\ Local \in JobRecords
      /\ UNCHANGED <<decision, dispatch, owner, reply, sends, effects>>
  BY LocalCore DEF CancelAnswered, world
<1>2. /\ NativeTypes' /\ wake'[Work].state = "cancelled"
      /\ \A v \in Wakes : v # Work => wake'[v] = wake[v]
  BY <1>1, SetWakeEffect DEF CancelAnswered, ActionInv, Types, WakeStates
<1>3. CoreKept /\ TaskTypes' /\ PassEnds
  <2> DEFINE j == [Local EXCEPT !.state = "cancelled"]
  <2>1. j \in JobRecords /\ SameCore(j, Local)
    BY <1>1, SetState DEF JobStates
  <2>2. End(j)
    BY DEF CancelAnswered
  <2> HIDE DEF j
  <2> QED
    BY <1>1, <2>1, <2>2, EndKeeps
<1>4. Steady
  BY <1>1, <1>2, <1>3, WorkMoves
<1> QED
  BY <1>3, <1>4, SteadyStep

LEMMA FinishDispatchKeeps ==
  ASSUME ActionInv, FinishDispatch
  PROVE  ActionInv'
<1>1. /\ task.at = "dispatch" /\ Work \in Wakes /\ Local \in JobRecords
      /\ UNCHANGED <<decision, dispatch, owner, reply, sends, effects>>
  BY LocalCore DEF FinishDispatch, Open, world
<1>2. /\ NativeTypes' /\ wake'[Work].state = "completed"
      /\ \A v \in Wakes : v # Work => wake'[v] = wake[v]
  BY <1>1, AcquireEffect DEF FinishDispatch, ActionInv, Types, WakeStates
<1>3. CoreKept /\ TaskTypes' /\ PassEnds
  <2> DEFINE j == [Local EXCEPT !.state = "completed"]
  <2>1. j \in JobRecords /\ SameCore(j, Local)
    BY <1>1, SetState DEF JobStates
  <2>2. End(j)
    BY DEF FinishDispatch
  <2> HIDE DEF j
  <2> QED
    BY <1>1, <2>1, <2>2, EndKeeps
<1>4. Steady
  BY <1>1, <1>2, <1>3, WorkMoves
<1> QED
  BY <1>3, <1>4, SteadyStep

LEMMA BlockDispatchKeeps ==
  ASSUME ActionInv, BlockDispatch
  PROVE  ActionInv'
<1>1. /\ task.at = "dispatch" /\ Work \in Wakes /\ Local \in JobRecords
      /\ UNCHANGED <<decision, dispatch, owner, reply, sends, effects>>
  BY LocalCore DEF BlockDispatch, Open, world
<1>2. PICK s \in JobStates : End([Local EXCEPT !.state = s])
  <2>1. CASE End([Local EXCEPT !.state = "blocked"])
    BY <2>1 DEF JobStates
  <2>2. CASE End([Local EXCEPT !.state = IF Unresolvable THEN "blocked" ELSE @])
    <3>1. Local.state \in JobStates /\ "blocked" \in JobStates
      BY <1>1 DEF JobRecords, JobStates
    <3> QED
      BY <2>2, <3>1
  <2> QED
    BY <2>1, <2>2 DEF BlockDispatch
<1>3. CoreKept /\ TaskTypes' /\ PassEnds
  <2> DEFINE j == [Local EXCEPT !.state = s]
  <2>1. j \in JobRecords /\ SameCore(j, Local)
    BY <1>1, SetState
  <2>2. End(j)
    BY <1>2
  <2> HIDE DEF j
  <2> QED
    BY <1>1, <2>1, <2>2, EndKeeps
<1>4. CASE Acquire(Work, "blocked")
  <2>1. /\ NativeTypes' /\ wake'[Work].state = "blocked"
        /\ \A v \in Wakes : v # Work => wake'[v] = wake[v]
    BY <1>1, <1>4, AcquireEffect DEF ActionInv, Types, WakeStates
  <2>2. Steady
    BY <1>1, <1>3, <2>1, WorkMoves
  <2> QED
    BY <1>3, <2>2, SteadyStep
<1>5. CASE UNCHANGED wake
  <2>1. Steady
    BY <1>1, <1>3, <1>5 DEF Steady, ActionInv, Types, NativeTypes
  <2> QED
    BY <1>3, <2>1, SteadyStep
<1> QED
  BY <1>4, <1>5 DEF BlockDispatch

LEMMA WithholdKeeps ==
  ASSUME ActionInv, Withhold
  PROVE  ActionInv'
<1>1. /\ task.at = "send" /\ Work \in Wakes /\ Local \in JobRecords
      /\ UNCHANGED <<wake, decision, dispatch, job, owner, reply, sends, effects>>
  BY LocalCore DEF Withhold, native, journal, world
<1>2. Steady
  BY <1>1 DEF Steady, CoreKept, SameCore, ActionInv, Types, NativeTypes, JobTypes
<1>3. TaskTypes' /\ PassGoesOn
  <2> DEFINE s == IF task.permit = "done" THEN "awaiting_completion" ELSE "outcome_unknown"
             j == [Local EXCEPT !.state = s]
  <2>1. s \in JobStates
    BY DEF JobStates
  <2>2. task' = [task EXCEPT !.at = "close", !.job = j]
    BY DEF Withhold, Local, ActionInv, Types, TaskTypes
  <2> HIDE DEF s
  <2>3. j \in JobRecords /\ SameCore(j, Local)
    BY <1>1, <2>1, SetState
  <2> HIDE DEF j
  <2> QED
    BY <1>1, <2>2, <2>3 DEF TaskTypes, PassGoesOn, ActionInv, Types, Ats, Local, Work
<1> QED
  BY <1>2, <1>3, SteadyStep

LEMMA FailPassKeeps ==
  ASSUME ActionInv, FailPass
  PROVE  ActionInv'
<1> DEFINE i == IF task.at = "save" THEN Unsaved(Local) ELSE Local
           j == Failed(i)
<1>1. /\ task.at # "idle" /\ Work \in Wakes /\ Local \in JobRecords /\ job[Work] \in JobRecords
      /\ UNCHANGED <<decision, dispatch, owner, reply, sends, effects>>
  BY DEF FailPass, GateAts, TargetAts, SendDue, Open, world, ActionInv, Types, TaskTypes, JobTypes, Work, Local
<1>2. i \in JobRecords /\ SameCore(i, job[Work])
  <2>1. CASE task.at = "save"
    BY <1>1, <2>1 DEF ActionInv, LocalInv, Unsaved, SameCore, JobRecords
  <2>2. CASE task.at # "save"
    BY <1>1, <2>2, LocalCore
  <2> QED
    BY <2>1, <2>2
<1>3. j \in JobRecords /\ SameCore(j, i)
  <2> HIDE DEF i
  <2>1. i.failures \in Nat
    BY <1>2 DEF JobRecords
  <2> DEFINE n == IF i.failures > MaxRetries THEN i.failures ELSE i.failures + 1
             s == IF i.failures + 1 > MaxRetries THEN "blocked" ELSE "retrying"
  <2>2. n \in Nat /\ s \in JobStates
    BY <2>1 DEF JobStates
  <2>3. j = [i EXCEPT !.failures = n, !.state = s]
    BY <1>2 DEF Failed, JobRecords
  <2> HIDE DEF n, s
  <2> QED
    BY <1>2, <2>2, <2>3 DEF JobRecords, SameCore
<1>4. /\ End(j)
      /\ IF j.state = "blocked" /\ wake[Work].state = "running"
         THEN SetWake(Work, "blocked") ELSE UNCHANGED wake
  BY DEF FailPass
<1> HIDE DEF i, j
<1>5. CoreKept /\ TaskTypes' /\ PassEnds
  <2>1. SameCore(j, job[Work])
    BY <1>2, <1>3 DEF SameCore
  <2>2. CoreKept
    BY <1>1, <1>3, <1>4, <2>1, SaveKeeps DEF End, ActionInv, Types
  <2> QED
    BY <1>4, <2>2, NoTaskTypes DEF End, PassEnds
<1>6. CASE wake[Work].state = "running" /\ SetWake(Work, "blocked")
  <2>1. /\ NativeTypes' /\ wake'[Work].state = "blocked"
        /\ \A v \in Wakes : v # Work => wake'[v] = wake[v]
    BY <1>1, <1>6, SetWakeEffect DEF ActionInv, Types, WakeStates
  <2>2. decision[Work] = "none"
    BY <1>1, <1>6 DEF ActionInv, CommitInv
  <2>3. Steady
    BY <1>1, <1>5, <1>6, <2>1, <2>2 DEF Steady
  <2> QED
    BY <1>5, <2>3, SteadyStep
<1>7. CASE UNCHANGED wake
  <2>1. Steady
    BY <1>1, <1>5, <1>7 DEF Steady, ActionInv, Types, NativeTypes
  <2> QED
    BY <1>5, <2>1, SteadyStep
<1> QED
  BY <1>4, <1>6, <1>7

\* The steps of the host, the deadline and the process.
LEMMA OutsideKeeps ==
  ASSUME ActionInv, (\E w \in Wakes : Respond(w) \/ Expire(w)) \/ SetEnabled \/ Crash \/ Restart
  PROVE  ActionInv'
<1>1. UNCHANGED <<wake, decision, dispatch, owner, sends, effects>>
  BY DEF Respond, Expire, SetEnabled, Crash, Restart, native, journal, world
<1>2. CoreKept
  <2>1. CASE UNCHANGED job
    BY <2>1 DEF CoreKept, SameCore, ActionInv, Types, JobTypes
  <2>2. CASE \E w \in Wakes : job' = Confirmed(w)
    BY <2>2, ConfirmedKeeps DEF CoreKept, ActionInv, Types, JobTypes
  <2> QED
    BY <2>1, <2>2 DEF Respond, Expire, SetEnabled, Crash, Restart, native, journal, world
<1>3. TaskTypes' /\ (PassEnds \/ PassStands)
  <2>1. CASE task' = NoTask
    BY <2>1, NoTaskTypes DEF PassEnds
  <2>2. CASE task' = task /\ (reply' = reply \/ task.at = "idle")
    BY <2>2 DEF PassStands, ActionInv, Types, TaskTypes
  <2> QED
    BY <2>1, <2>2 DEF Respond, Expire, SetEnabled, Crash, Restart, native, journal, world
<1>4. Steady
  BY <1>1, <1>2 DEF Steady, ActionInv, Types, NativeTypes
<1> QED
  BY <1>3, <1>4, SteadyStep

-----------------------------------------------------------------------------
(* The steps that change what the invariants speak of.                     *)

LEMMA GoOn ==
  ASSUME TaskTypes, task.at # "idle", NEW a \in Ats, NEW j \in JobRecords,
         task' = [task EXCEPT !.at = a, !.job = j]
  PROVE  TaskTypes' /\ task'.wake = task.wake /\ task'.at = a /\ task'.job = j /\ task'.permit = task.permit
  BY DEF TaskTypes

LEMMA DeduplicateEffect ==
  ASSUME OwnerTypes, Work \in Wakes, NEW d \in Decisions
  PROVE  /\ Deduplicate(d)[1] \in Decisions
         /\ Deduplicate(d)[2] \in [Operations -> Wakes \cup {NoWake}]
         /\ \A o \in Operations : owner[o] # NoWake => Deduplicate(d)[2][o] = owner[o]
         /\ Owns(Deduplicate(d)[2], Work, Deduplicate(d)[1])
<1> DEFINE op == Operation[Work[1]]
<1>1. op \in Operations
  BY WakeShape DEF Operations
<1>2. CASE d # "act" \/ op = NoOperation \/ Key(Work) = "clarification" \/ owner[op] = Work
  <2>1. Deduplicate(d) = <<d, owner>>
    BY <1>2 DEF Deduplicate
  <2> QED
    BY <1>2, <2>1 DEF OwnerTypes, Owns
<1>3. CASE ~(d # "act" \/ op = NoOperation \/ Key(Work) = "clarification" \/ owner[op] = Work)
  <2>1. CASE owner[op] = NoWake
    <3>1. Deduplicate(d) = <<d, [owner EXCEPT ![op] = Work]>>
      BY <1>3, <2>1 DEF Deduplicate
    <3> QED
      BY <1>1, <2>1, <3>1 DEF OwnerTypes, Owns
  <2>2. CASE owner[op] # NoWake
    <3>1. PICK e \in {"silence", "defer"} : Deduplicate(d) = <<e, owner>>
      BY <1>3, <2>2 DEF Deduplicate
    <3> QED
      BY <3>1 DEF OwnerTypes, Owns, Decisions
  <2> QED
    BY <2>1, <2>2
<1> QED
  BY <1>2, <1>3

LEMMA ProposeKeeps ==
  ASSUME ActionInv, Propose
  PROVE  ActionInv'
<1>1. /\ task.at = "propose" /\ Work \in Wakes /\ Local \in JobRecords /\ SameCore(Local, job[Work])
      /\ UNCHANGED <<wake, decision, dispatch, reply, sends, effects>>
  BY LocalCore DEF Propose, native, world
<1>2. PICK d \in Suggested : /\ owner' = Deduplicate(d)[2]
                             /\ job' = Confirmed(Consulted(d))
                             /\ task' = [task EXCEPT !.at = "save", !.job.prepared = Deduplicate(d)[1]]
  BY DEF Propose
<1>3. d \in Decisions
  BY ProposalsAssumption DEF Suggested, Decisions
<1> DEFINE e == Deduplicate(d)[1]
           j == [Local EXCEPT !.prepared = e]
<1>4. /\ e \in Decisions /\ OwnerTypes' /\ Owns(owner', Work, e)
      /\ \A o \in Operations : owner[o] # NoWake => owner'[o] = owner[o]
  BY <1>1, <1>2, <1>3, DeduplicateEffect DEF ActionInv, Types, OwnerTypes
<1>5. CoreKept
  BY <1>2, ConfirmedKeeps DEF CoreKept, ActionInv, Types, JobTypes
<1>6. task' = [task EXCEPT !.at = "save", !.job = j]
  BY <1>2 DEF Local, ActionInv, Types, TaskTypes
<1> HIDE DEF e
<1>7. j \in JobRecords /\ j.prepared = e /\ j.operator = Local.operator /\ j.attempts = Local.attempts
  BY <1>1, <1>4 DEF JobRecords
<1> HIDE DEF j
<1>8. TaskTypes' /\ task'.wake = Work /\ task'.at = "save" /\ task'.job = j
  BY <1>1, <1>6, <1>7, GoOn DEF ActionInv, Types, Ats, Work
<1>9. Types'
  BY <1>1, <1>4, <1>5, <1>8 DEF ActionInv, Types, CoreKept, NativeTypes, WorldTypes
<1>10. LocalInv'
  BY <1>1, <1>5, <1>7, <1>8 DEF LocalInv, CoreKept, SameCore, Local, Work
<1>11. EffectInv'
  BY <1>1, <1>8 DEF ActionInv, EffectInv, Work
<1>12. CommitInv'
  <2>1. \A w \in Wakes : job'[w].prepared = job[w].prepared
    BY <1>5 DEF CoreKept, SameCore
  <2> QED
    BY <1>1, <1>8, <2>1 DEF ActionInv, CommitInv, Work
<1>13. OwnerInv'
  <2>1. ASSUME NEW w \in Wakes
        PROVE  Owns(owner', w, job'[w].prepared)
    <3>1. Owns(owner, w, job[w].prepared) /\ job'[w].prepared = job[w].prepared
      BY <1>5 DEF ActionInv, OwnerInv, CoreKept, SameCore
    <3>2. w # NoWake /\ Operation[w[1]] \in Operations
      BY WakeShape DEF Operations
    <3> QED
      BY <1>4, <3>1, <3>2 DEF Owns
  <2>2. Owns(owner', task'.wake, task'.job.prepared)
    BY <1>4, <1>7, <1>8
  <2> QED
    BY <2>1, <2>2 DEF OwnerInv, Local, Work
<1>14. BudgetInv'
  <2>1. \A w \in Wakes : Window(job'[w]) = Window(job[w]) /\ job'[w].attempts = job[w].attempts
    BY <1>5 DEF Window, CoreKept, SameCore
  <2> QED
    BY <1>1, <1>8, <2>1 DEF ActionInv, BudgetInv
<1>15. AskInv'
  BY <1>8 DEF AskInv
<1> QED
  BY <1>9, <1>10, <1>11, <1>12, <1>13, <1>14, <1>15 DEF ActionInv

LEMMA SavePreparedKeeps ==
  ASSUME ActionInv, SavePrepared
  PROVE  ActionInv'
<1>1. /\ task.at = "save" /\ Work \in Wakes /\ Local \in JobRecords
      /\ job' = [job EXCEPT ![Work] = Local] /\ task' = [task EXCEPT !.at = "commit"]
      /\ UNCHANGED <<wake, decision, dispatch, owner, reply, sends, effects>>
  BY DEF SavePrepared, Save, Goto, native, world, ActionInv, Types, TaskTypes, Work, Local
<1>2. /\ JobTypes' /\ job'[Work] = Local
      /\ \A w \in Wakes : w # Work => job'[w] = job[w]
  BY <1>1 DEF ActionInv, Types, JobTypes
<1>3. TaskTypes' /\ task'.wake = Work /\ task'.at = "commit" /\ task'.job = Local
  BY <1>1 DEF ActionInv, Types, TaskTypes, Ats, Work, Local
<1>4. Local.operator = job[Work].operator /\ Local.attempts = job[Work].attempts
  BY <1>1 DEF ActionInv, LocalInv
<1>5. Types'
  BY <1>1, <1>2, <1>3 DEF ActionInv, Types, NativeTypes, OwnerTypes, WorldTypes
<1>6. LocalInv'
  BY <1>2, <1>3 DEF LocalInv, Local, Work
<1>7. EffectInv'
  BY <1>1, <1>3 DEF ActionInv, EffectInv, Work
<1>8. CommitInv'
  <2>1. decision[Work] = "none" /\ wake[Work].state # "absent"
    BY <1>1 DEF ActionInv, CommitInv
  <2> QED
    BY <1>1, <1>2, <1>3, <2>1 DEF ActionInv, CommitInv, Work
<1>9. OwnerInv'
  <2>1. Owns(owner, Work, Local.prepared)
    BY <1>1 DEF ActionInv, OwnerInv
  <2>2. \A w \in Wakes : Owns(owner', w, job'[w].prepared)
    BY <1>1, <1>2, <2>1 DEF ActionInv, OwnerInv
  <2>3. Owns(owner', task'.wake, task'.job.prepared)
    BY <1>1, <1>3, <2>1
  <2> QED
    BY <2>2, <2>3 DEF OwnerInv, Local, Work
<1>10. BudgetInv'
  <2>1. \A w \in Wakes : Window(job'[w]) = Window(job[w]) /\ job'[w].attempts = job[w].attempts
    BY <1>2, <1>4 DEF Window
  <2> QED
    BY <1>1, <1>3, <2>1 DEF ActionInv, BudgetInv
<1>11. AskInv'
  BY <1>3 DEF AskInv
<1> QED
  BY <1>5, <1>6, <1>7, <1>8, <1>9, <1>10, <1>11 DEF ActionInv

LEMMA CommitKeeps ==
  ASSUME ActionInv, Commit
  PROVE  ActionInv'
<1> DEFINE Child(w) == Len(w) > 1 /\ Parent(w) = Work /\ Key(w) \in Continuations(Work, Local)
<1>1. /\ task.at = "commit" /\ Work \in Wakes /\ Local \in JobRecords /\ SameCore(Local, job[Work])
      /\ decision' = [decision EXCEPT ![Work] = Local.prepared]
      /\ task' = [task EXCEPT !.at = "close", !.job.state = "committed"]
      /\ UNCHANGED <<dispatch, job, owner, reply, sends, effects>>
  BY LocalCore DEF Commit, journal, world
<1>2. wake' = [w \in Wakes |-> IF w = Work THEN [wake[w] EXCEPT !.state = "completed"]
                               ELSE IF Child(w) THEN [state |-> "pending", fence |-> 0] ELSE wake[w]]
  BY DEF Commit
<1>3. Local.prepared \in Decisions \cup {"none"} /\ Local.prepared = job[Work].prepared
  BY <1>1 DEF JobRecords, SameCore
<1>4. decision[Work] = "none" /\ wake[Work].state # "absent"
  BY <1>1 DEF ActionInv, CommitInv
<1>5. \A w \in Wakes : Child(w) => Local.prepared # "none"
  BY DEF Continuations
<1> HIDE DEF Child
<1>6. /\ wake'[Work].state = "completed"
      /\ \A w \in Wakes : w # Work /\ ~Child(w) => wake'[w] = wake[w]
  BY <1>1, <1>2 DEF ActionInv, Types, NativeTypes
<1>7. NativeTypes'
  BY <1>1, <1>2, <1>3 DEF ActionInv, Types, NativeTypes, WakeStates
<1>8. /\ decision'[Work] = Local.prepared
      /\ \A w \in Wakes : w # Work => decision'[w] = decision[w]
  BY <1>1 DEF ActionInv, Types, NativeTypes
<1>9. TaskTypes' /\ task'.wake = Work /\ task'.at = "close" /\ SameCore(task'.job, Local)
  <2> DEFINE j == [Local EXCEPT !.state = "committed"]
  <2>1. task' = [task EXCEPT !.at = "close", !.job = j]
    BY <1>1 DEF Local, ActionInv, Types, TaskTypes
  <2>2. j \in JobRecords /\ SameCore(j, Local)
    BY <1>1, SetState DEF JobStates
  <2> HIDE DEF j
  <2> QED
    BY <1>1, <2>1, <2>2, GoOn DEF ActionInv, Types, Ats, Work
<1>10. Types'
  BY <1>1, <1>7, <1>9 DEF ActionInv, Types, JobTypes, OwnerTypes, WorldTypes
<1>11. LocalInv'
  BY <1>1, <1>9 DEF LocalInv, SameCore, Local, Work
<1>12. EffectInv'
  BY <1>1, <1>9 DEF ActionInv, EffectInv
<1>13. CommitInv'
  <2>1. ASSUME NEW w \in Wakes, decision'[w] # "none"
        PROVE  wake'[w].state = "completed" /\ job'[w].prepared = decision'[w]
    <3>1. CASE w = Work
      BY <1>1, <1>3, <1>6, <1>8, <3>1
    <3>2. CASE w # Work
      <4>1. decision[w] # "none" /\ wake[w].state = "completed" /\ job[w].prepared = decision[w]
        BY <1>8, <2>1, <3>2 DEF ActionInv, CommitInv
      <4>2. ~Child(w)
        BY <1>4, <4>1 DEF ActionInv, CommitInv, Child
      <4> QED
        BY <1>1, <1>6, <1>8, <3>2, <4>1, <4>2
    <3> QED
      BY <3>1, <3>2
  <2>2. ASSUME NEW w \in Wakes, Len(w) > 1, wake'[w].state # "absent"
        PROVE  decision'[Parent(w)] # "none"
    <3>1. Parent(w) \in Wakes /\ Parent(w) # w
      BY <2>2, ParentIsWake
    <3>2. CASE w = Work
      <4>1. decision[Parent(w)] # "none"
        BY <1>4, <2>2, <3>2 DEF ActionInv, CommitInv
      <4> QED
        BY <1>8, <3>1, <3>2, <4>1
    <3>3. CASE w # Work /\ Child(w)
      BY <1>5, <1>8, <3>3 DEF Child
    <3>4. CASE w # Work /\ ~Child(w)
      <4>1. decision[Parent(w)] # "none"
        BY <1>6, <2>2, <3>4 DEF ActionInv, CommitInv
      <4> QED
        BY <1>4, <1>8, <3>1, <4>1
    <3> QED
      BY <3>2, <3>3, <3>4
  <2> QED
    BY <1>9, <2>1, <2>2 DEF CommitInv
<1>14. OwnerInv'
  <2>1. Owns(owner, Work, Local.prepared)
    BY <1>1 DEF ActionInv, OwnerInv
  <2>2. Owns(owner', task'.wake, task'.job.prepared)
    BY <1>1, <1>9, <2>1 DEF SameCore
  <2> QED
    BY <1>1, <2>2 DEF ActionInv, OwnerInv, Local, Work
<1>15. BudgetInv'
  <2>1. \A w \in Wakes : Window(job'[w]) = Window(job[w])
    BY <1>1 DEF Window
  <2> QED
    BY <1>1, <1>9, <2>1 DEF ActionInv, BudgetInv
<1>16. AskInv'
  BY <1>9 DEF AskInv
<1> QED
  BY <1>10, <1>11, <1>12, <1>13, <1>14, <1>15, <1>16 DEF ActionInv

\* An attempt is counted, in the journal and by the pass.
Counts(a) ==
    /\ Save([Local EXCEPT !.attempts = @ + 1])
    /\ task' = [task EXCEPT !.at = a, !.job.attempts = @ + 1]

LEMMA CountKeeps ==
  ASSUME ActionInv, task.at = "dispatch", Local.attempts <= MaxRetries,
         NEW a \in {"lookup", "begin"}, Counts(a),
         NativeTypes', UNCHANGED <<decision, dispatch, owner, reply, sends, effects>>,
         wake'[Work].state # "absent", \A w \in Wakes : w # Work => wake'[w] = wake[w],
         a = "begin" => Open
  PROVE  ActionInv'
<1> DEFINE n == Local.attempts + 1
           j == [Local EXCEPT !.attempts = n]
<1>1. Work \in Wakes /\ Local \in JobRecords /\ SameCore(Local, job[Work])
  BY LocalCore
<1>2. Local.attempts \in Nat /\ n \in Nat /\ n <= MaxRetries + 1
  BY <1>1, BoundsAreNat DEF JobRecords
<1>3. job' = [job EXCEPT ![Work] = j]
  BY <1>1 DEF Counts, Save, JobRecords
<1>4. task' = [task EXCEPT !.at = a, !.job = j]
  BY DEF Counts, Local, ActionInv, Types, TaskTypes, JobRecords
<1>5. n = Local.attempts + 1
  OBVIOUS
<1> HIDE DEF n
<1>6. j \in JobRecords /\ j.attempts = n /\ j.operator = Local.operator /\ j.prepared = Local.prepared
  BY <1>1, <1>2 DEF JobRecords
<1> HIDE DEF j
<1>7. /\ JobTypes' /\ job'[Work] = j
      /\ \A w \in Wakes : w # Work => job'[w] = job[w]
  BY <1>1, <1>3, <1>6 DEF ActionInv, Types, JobTypes
<1>8. TaskTypes' /\ task'.wake = Work /\ task'.at = a /\ task'.job = j
  BY <1>4, <1>6, GoOn DEF ActionInv, Types, Ats, Work
<1>9. \A w \in Wakes : job'[w].prepared = job[w].prepared /\ job'[w].operator = job[w].operator
  BY <1>1, <1>6, <1>7 DEF SameCore
<1>10. Types'
  BY <1>7, <1>8 DEF ActionInv, Types, OwnerTypes, WorldTypes
<1>11. LocalInv'
  BY <1>7, <1>8 DEF LocalInv, Local, Work
<1>12. EffectInv'
  BY <1>8 DEF ActionInv, EffectInv
<1>13. CommitInv'
  <2>1. decision[Work] = "none" /\ wake[Work].state # "absent"
    BY DEF ActionInv, CommitInv
  <2> QED
    BY <1>8, <1>9, <2>1 DEF ActionInv, CommitInv, Work
<1>14. OwnerInv'
  <2>1. \A w \in Wakes : Owns(owner', w, job'[w].prepared)
    BY <1>9 DEF ActionInv, OwnerInv
  <2>2. Owns(owner', task'.wake, task'.job.prepared)
    BY <1>6, <1>8 DEF ActionInv, OwnerInv
  <2> QED
    BY <2>1, <2>2 DEF OwnerInv, Local, Work
<1>15. BudgetInv'
  <2>1. \A w \in Wakes : Window(job'[w]) = Window(job[w])
    BY <1>9 DEF Window
  <2>2. \A w \in Wakes : Window(job[w]) \in Nat /\ sends[w] \in Nat /\ job[w].attempts \in Nat
    BY BoundsAreNat DEF Window, ActionInv, Types, JobTypes, JobRecords, WorldTypes
  <2>3. job'[Work].attempts = job[Work].attempts + 1 /\ job'[Work].attempts <= MaxRetries + 1
    BY <1>1, <1>2, <1>5, <1>6, <1>7 DEF SameCore
  <2>4. sends[Work] <= Window(job[Work]) + job[Work].attempts
    BY <1>1 DEF ActionInv, BudgetInv
  <2>5. sends[Work] < Window(job[Work]) + job'[Work].attempts
    BY <1>1, <2>2, <2>3, <2>4
  <2>6. \A w \in Wakes : /\ job'[w].attempts <= MaxRetries + 1
                         /\ sends'[w] <= Window(job'[w]) + job'[w].attempts
    <3>1. ASSUME NEW w \in Wakes, w # Work
          PROVE  job'[w].attempts <= MaxRetries + 1 /\ sends'[w] <= Window(job'[w]) + job'[w].attempts
      BY <1>7, <2>1, <3>1 DEF ActionInv, BudgetInv
    <3>2. sends'[Work] <= Window(job'[Work]) + job'[Work].attempts
      <4>1. \A x, y \in Nat : x < y => x <= y
        OBVIOUS
      <4>2. Window(job[Work]) + job'[Work].attempts \in Nat
        BY <1>1, <2>2, <2>3
      <4>3. sends[Work] <= Window(job[Work]) + job'[Work].attempts
        BY <1>1, <2>2, <2>5, <4>1, <4>2
      <4> QED
        BY <1>1, <2>1, <4>3
    <3> QED
      BY <2>3, <3>1, <3>2
  <2>7. sends'[task'.wake] < Window(job'[task'.wake]) + job'[task'.wake].attempts
    BY <1>1, <1>8, <2>1, <2>5
  <2> QED
    BY <1>8, <2>6, <2>7 DEF BudgetInv, Work
<1>16. AskInv'
  BY <1>8 DEF AskInv, Open, Prior, Answered, Work
<1> QED
  BY <1>10, <1>11, <1>12, <1>13, <1>14, <1>15, <1>16 DEF ActionInv

LEMMA CountLookupKeeps ==
  ASSUME ActionInv, CountLookup
  PROVE  ActionInv'
<1>1. /\ task.at = "dispatch" /\ Local.attempts <= MaxRetries /\ Counts("lookup")
      /\ UNCHANGED <<wake, decision, dispatch, owner, reply, sends, effects>>
  BY DEF CountLookup, Counts, Open, MayLookup, native, world
<1>2. NativeTypes' /\ wake'[Work].state # "absent"
  BY <1>1 DEF ActionInv, Types, NativeTypes, CommitInv
<1> QED
  BY <1>1, <1>2, CountKeeps

LEMMA CountSendKeeps ==
  ASSUME ActionInv, CountSend
  PROVE  ActionInv'
<1>1. /\ task.at = "dispatch" /\ Local.attempts <= MaxRetries /\ Counts("begin") /\ Open
      /\ UNCHANGED <<decision, dispatch, owner, reply, sends, effects>>
  BY DEF CountSend, SendDue, Counts, Open, world
<1>2. Work \in Wakes
  BY <1>1, LocalCore
<1>3. /\ NativeTypes' /\ wake'[Work].state = "running"
      /\ \A w \in Wakes : w # Work => wake'[w] = wake[w]
  BY <1>1, <1>2, AcquireEffect DEF CountSend, ActionInv, Types, WakeStates
<1> QED
  BY <1>1, <1>3, CountKeeps

\* A step of the pass that writes neither the journal nor the wakes.
LEMMA PassFrame ==
  ASSUME ActionInv, task.at \notin {"idle", "save"}, TaskTypes', task'.wake = Work,
         task'.at \in {"close", "send"}, SameCore(task'.job, Local),
         task'.at # "close" => task.at = "begin",
         UNCHANGED <<wake, decision, job, owner>>
  PROVE  LocalInv' /\ CommitInv' /\ OwnerInv' /\ AskInv' /\ JobTypes' /\ OwnerTypes'
<1>1. LocalInv'
  BY LocalCore DEF LocalInv, SameCore, Local, Work
<1>2. CommitInv'
  BY DEF ActionInv, CommitInv, Work
<1>3. OwnerInv'
  <2>1. Owns(owner', task'.wake, task'.job.prepared)
    BY DEF ActionInv, OwnerInv, SameCore
  <2> QED
    BY <2>1 DEF ActionInv, OwnerInv, Local, Work
<1>4. AskInv'
  BY DEF AskInv
<1> QED
  BY <1>1, <1>2, <1>3, <1>4 DEF ActionInv, Types, JobTypes, OwnerTypes

LEMMA LookupTargetKeeps ==
  ASSUME ActionInv, LookupTarget
  PROVE  ActionInv'
<1>1. /\ task.at = "lookup" /\ Work \in Wakes /\ Local \in JobRecords
      /\ UNCHANGED <<wake, decision, job, owner, reply, sends, effects>>
  BY LocalCore DEF LookupTarget, journal, world
<1>2. /\ dispatch' \in [Wakes -> DispatchStates]
      /\ \A w \in Wakes : dispatch'[w] \in {"none", "ready"} => effects[w] = 0
  <2>1. CASE effects[Work] = 0 /\ dispatch' = [dispatch EXCEPT ![Work] = "ready"]
    BY <1>1, <2>1 DEF ActionInv, Types, NativeTypes, EffectInv, DispatchStates
  <2>2. CASE dispatch' = dispatch
    BY <2>2 DEF ActionInv, Types, NativeTypes, EffectInv
  <2>3. CASE dispatch' = [dispatch EXCEPT ![Work] = "outcome_unknown"]
    BY <1>1, <2>3 DEF ActionInv, Types, NativeTypes, EffectInv, DispatchStates
  <2> QED
    BY <2>1, <2>2, <2>3 DEF LookupTarget
<1>3. PICK s \in JobStates, d \in Deliveries :
         task' = [task EXCEPT !.at = "close", !.job = [Local EXCEPT !.state = s, !.delivery = d]]
  <2>1. task.job = Local /\ Local.delivery \in Deliveries /\ task \in [wake : Wakes \cup {NoWake},
           at : Ats, job : JobRecords, timeout : BOOLEAN,
           permit : {"none", "dispatch", "done", "outcome_unknown"}]
    BY <1>1 DEF Local, JobRecords, ActionInv, Types, TaskTypes
  <2>2. CASE task' = [task EXCEPT !.at = "close", !.job.state = "ready", !.job.delivery = "none"]
    <3>1. task' = [task EXCEPT !.at = "close", !.job = [Local EXCEPT !.state = "ready", !.delivery = "none"]]
      BY <2>1, <2>2
    <3> QED
      BY <3>1 DEF JobStates, Deliveries
  <2>3. CASE \E d \in {"accepted", "finished"} :
               task' = [task EXCEPT !.at = "close", !.job.state = "awaiting_outcome", !.job.delivery = d]
    <3>1. PICK d \in {"accepted", "finished"} :
             task' = [task EXCEPT !.at = "close", !.job.state = "awaiting_outcome", !.job.delivery = d]
      BY <2>3
    <3>2. task' = [task EXCEPT !.at = "close", !.job = [Local EXCEPT !.state = "awaiting_outcome", !.delivery = d]]
      BY <2>1, <3>1
    <3> QED
      BY <3>2 DEF JobStates, Deliveries
  <2>4. CASE task' = [task EXCEPT !.at = "close", !.job.state = "outcome_unknown"]
    <3>1. task' = [task EXCEPT !.at = "close",
                     !.job = [Local EXCEPT !.state = "outcome_unknown", !.delivery = Local.delivery]]
      BY <1>1, <2>1, <2>4 DEF JobRecords
    <3> QED
      BY <2>1, <3>1 DEF JobStates
  <2> QED
    BY <2>2, <2>3, <2>4 DEF LookupTarget
<1>4. TaskTypes' /\ task'.wake = Work /\ task'.at = "close" /\ SameCore(task'.job, Local)
  <2> DEFINE j == [Local EXCEPT !.state = s, !.delivery = d]
  <2>1. j \in JobRecords /\ SameCore(j, Local)
    BY <1>1 DEF JobRecords, SameCore
  <2>2. task' = [task EXCEPT !.at = "close", !.job = j]
    BY <1>3
  <2> HIDE DEF j
  <2> QED
    BY <1>1, <2>1, <2>2, GoOn DEF ActionInv, Types, Ats, Work
<1>5. LocalInv' /\ CommitInv' /\ OwnerInv' /\ AskInv' /\ JobTypes' /\ OwnerTypes'
  BY <1>1, <1>4, PassFrame
<1>6. Types'
  BY <1>1, <1>2, <1>4, <1>5 DEF ActionInv, Types, NativeTypes, WorldTypes
<1>7. EffectInv'
  BY <1>1, <1>2, <1>4 DEF ActionInv, EffectInv
<1>8. BudgetInv'
  BY <1>1, <1>4 DEF ActionInv, BudgetInv
<1> QED
  BY <1>5, <1>6, <1>7, <1>8 DEF ActionInv

LEMMA BeginKeeps ==
  ASSUME ActionInv, Begin
  PROVE  ActionInv'
<1>1. /\ task.at = "begin" /\ Work \in Wakes /\ Local \in JobRecords
      /\ task' = [task EXCEPT !.at = "send", !.permit = Permit]
      /\ UNCHANGED <<wake, decision, job, owner, reply, sends, effects>>
  BY LocalCore DEF Begin, journal, world
<1>2. /\ Permit \in {"dispatch", "done", "outcome_unknown"}
      /\ Permit = "dispatch" /\ ~Idempotent => Prior \in {"none", "ready"}
  BY DEF Permit
<1>3. /\ dispatch' \in [Wakes -> DispatchStates]
      /\ Permit = "dispatch" => dispatch'[Work] = "started"
      /\ \A w \in Wakes : dispatch'[w] = dispatch[w] \/ dispatch'[w] = "started"
  <2>1. CASE Permit = "dispatch"
    <3>1. dispatch' = [dispatch EXCEPT ![Work] = "started"]
      BY <2>1 DEF Begin
    <3> QED
      BY <1>1, <3>1 DEF ActionInv, Types, NativeTypes, DispatchStates
  <2>2. CASE Permit # "dispatch"
    <3>1. dispatch' = dispatch
      BY <1>1, <2>2 DEF Begin, ActionInv, Types, NativeTypes
    <3> QED
      BY <2>2, <3>1 DEF ActionInv, Types, NativeTypes
  <2> QED
    BY <2>1, <2>2
<1> HIDE DEF Permit
<1>4. TaskTypes' /\ task'.wake = Work /\ task'.at = "send" /\ task'.permit = Permit /\ task'.job = Local
  BY <1>1, <1>2 DEF ActionInv, Types, TaskTypes, Ats, Work, Local
<1>5. LocalInv' /\ CommitInv' /\ OwnerInv' /\ AskInv' /\ JobTypes' /\ OwnerTypes'
  BY <1>1, <1>4, PassFrame DEF SameCore
<1>6. Types'
  BY <1>1, <1>3, <1>4, <1>5 DEF ActionInv, Types, NativeTypes, WorldTypes
<1>7. EffectInv'
  <2>1. \A w \in Wakes : effects'[w] <= 1 /\ (dispatch'[w] \in {"none", "ready"} => effects'[w] = 0)
    BY <1>1, <1>3 DEF ActionInv, EffectInv
  <2>2. task'.permit = "dispatch" =>
          dispatch'[task'.wake] \notin {"none", "ready"} /\ (~Idempotent => effects'[task'.wake] = 0)
    BY <1>1, <1>2, <1>3, <1>4 DEF ActionInv, EffectInv, Prior
  <2> QED
    BY <2>1, <2>2 DEF EffectInv, Work
<1>8. BudgetInv'
  BY <1>1, <1>4 DEF ActionInv, BudgetInv, Work
<1> QED
  BY <1>5, <1>6, <1>7, <1>8 DEF ActionInv

LEMMA SendKeeps ==
  ASSUME ActionInv, Send
  PROVE  ActionInv'
<1>1. /\ task.at = "send" /\ task.permit = "dispatch" /\ Work \in Wakes /\ Local \in JobRecords
      /\ sends' = [sends EXCEPT ![Work] = @ + 1]
      /\ UNCHANGED <<wake, decision, dispatch, job, owner, reply>>
  BY LocalCore DEF Send, native, journal
<1>2. PICK done \in BOOLEAN, d \in {"accepted", "finished", "unknown"} :
        /\ effects' = [effects EXCEPT ![Work] = IF ~done \/ (Idempotent /\ @ > 0) THEN @ ELSE @ + 1]
        /\ task' = [task EXCEPT !.at = "close", !.job.delivery = d,
                      !.job.state = IF d = "unknown" THEN "outcome_unknown" ELSE "awaiting_outcome"]
  BY DEF Send
<1>3. TaskTypes' /\ task'.wake = Work /\ task'.at = "close" /\ SameCore(task'.job, Local)
  <2> DEFINE s == IF d = "unknown" THEN "outcome_unknown" ELSE "awaiting_outcome"
             j == [Local EXCEPT !.delivery = d, !.state = s]
  <2>1. task' = [task EXCEPT !.at = "close", !.job = j]
    BY <1>2 DEF Local, ActionInv, Types, TaskTypes
  <2>2. s \in JobStates /\ d \in Deliveries
    BY DEF JobStates, Deliveries
  <2> HIDE DEF s
  <2>3. j \in JobRecords /\ SameCore(j, Local)
    BY <1>1, <2>2 DEF JobRecords, SameCore
  <2> HIDE DEF j
  <2> QED
    BY <1>1, <2>1, <2>3, GoOn DEF ActionInv, Types, Ats, Work
<1>4. LocalInv' /\ CommitInv' /\ OwnerInv' /\ AskInv' /\ JobTypes' /\ OwnerTypes'
  BY <1>1, <1>3, PassFrame
<1>5. /\ effects \in [Wakes -> Nat] /\ sends \in [Wakes -> Nat] /\ effects[Work] <= 1
      /\ dispatch[Work] \notin {"none", "ready"} /\ (~Idempotent => effects[Work] = 0)
  BY <1>1 DEF ActionInv, Types, WorldTypes, EffectInv
<1>6. /\ effects' \in [Wakes -> Nat] /\ effects'[Work] <= 1
      /\ \A w \in Wakes : w # Work => effects'[w] = effects[w]
  <2> DEFINE n == IF ~done \/ (Idempotent /\ effects[Work] > 0) THEN effects[Work] ELSE effects[Work] + 1
  <2>1. effects' = [effects EXCEPT ![Work] = n]
    BY <1>1, <1>2, <1>5
  <2>2. n \in Nat /\ n <= 1
    <3>1. effects[Work] \in Nat /\ effects[Work] <= 1 /\ (Idempotent \/ effects[Work] = 0)
      BY <1>1, <1>5
    <3> QED
      BY <3>1
  <2> HIDE DEF n
  <2> QED
    BY <1>1, <1>5, <2>1, <2>2
<1>7. /\ sends' \in [Wakes -> Nat] /\ sends'[Work] = sends[Work] + 1
      /\ \A w \in Wakes : w # Work => sends'[w] = sends[w]
  BY <1>1, <1>5
<1>8. Types'
  BY <1>1, <1>3, <1>4, <1>6, <1>7 DEF ActionInv, Types, NativeTypes, WorldTypes
<1>9. EffectInv'
  BY <1>1, <1>3, <1>5, <1>6 DEF ActionInv, EffectInv
<1>10. BudgetInv'
  <2>1. sends[Work] < Window(job[Work]) + job[Work].attempts
    BY <1>1 DEF ActionInv, BudgetInv
  <2>2. Window(job[Work]) \in Nat /\ job[Work].attempts \in Nat /\ sends[Work] \in Nat
    BY <1>1, <1>5, BoundsAreNat DEF Window, ActionInv, Types, JobTypes, JobRecords
  <2>3. sends'[Work] <= Window(job[Work]) + job[Work].attempts
    BY <1>7, <2>1, <2>2
  <2> QED
    BY <1>1, <1>3, <1>7, <2>3 DEF ActionInv, BudgetInv
<1> QED
  BY <1>4, <1>8, <1>9, <1>10 DEF ActionInv

LEMMA WindowGrows ==
  ASSUME NEW n \in Nat, NEW r \in Nat
  PROVE  n * (r + 1) \in Nat /\ (n + 1) * (r + 1) = n * (r + 1) + (r + 1)
  OBVIOUS

LEMMA RetryKeeps ==
  ASSUME ActionInv, NEW w \in Wakes, Retry(w)
  PROVE  ActionInv'
<1> DEFINE n == job[w].operator + 1
           j == [job[w] EXCEPT !.failures = 0, !.attempts = 0, !.rounds = 0, !.operator = n, !.state = "pending"]
<1>1. /\ task.at = "idle" /\ task' = task
      /\ UNCHANGED <<wake, decision, dispatch, owner, reply, sends, effects>>
  BY DEF Retry, native, world
<1>2. job[w] \in JobRecords /\ job[w].operator \in Nat /\ n \in Nat
  BY DEF ActionInv, Types, JobTypes, JobRecords
<1>3. job' = [job EXCEPT ![w] = j]
  BY <1>2 DEF Retry, ActionInv, Types, JobTypes, JobRecords
<1>4. n = job[w].operator + 1
  OBVIOUS
<1> HIDE DEF n
<1>5. j \in JobRecords /\ j.attempts = 0 /\ j.operator = n /\ j.prepared = job[w].prepared
  BY <1>2 DEF JobRecords, JobStates
<1> HIDE DEF j
<1>6. /\ JobTypes' /\ job'[w] = j /\ \A v \in Wakes : v # w => job'[v] = job[v]
  BY <1>3, <1>5 DEF ActionInv, Types, JobTypes
<1>7. \A v \in Wakes : job'[v].prepared = job[v].prepared
  BY <1>5, <1>6
<1>8. Types'
  BY <1>1, <1>6 DEF ActionInv, Types, NativeTypes, OwnerTypes, WorldTypes, TaskTypes
<1>9. LocalInv' /\ AskInv'
  BY <1>1 DEF LocalInv, AskInv
<1>10. EffectInv'
  BY <1>1 DEF ActionInv, EffectInv
<1>11. CommitInv'
  BY <1>1, <1>7 DEF ActionInv, CommitInv
<1>12. OwnerInv'
  BY <1>1, <1>7 DEF ActionInv, OwnerInv
<1>13. BudgetInv'
  <2>1. /\ Window(job[w]) \in Nat /\ job[w].attempts \in Nat /\ sends[w] \in Nat
        /\ Window(j) = Window(job[w]) + (MaxRetries + 1)
    <3> DEFINE o == job[w].operator
    <3>1. o \in Nat /\ MaxRetries \in Nat /\ n = o + 1
      BY <1>2, <1>4, BoundsAreNat
    <3>2. Window(job[w]) = o * (MaxRetries + 1) /\ Window(j) = n * (MaxRetries + 1)
      BY <1>5 DEF Window
    <3> HIDE DEF o
    <3>3. o * (MaxRetries + 1) \in Nat /\ (o + 1) * (MaxRetries + 1) = o * (MaxRetries + 1) + (MaxRetries + 1)
      BY <3>1, WindowGrows
    <3>4. Window(job[w]) \in Nat /\ Window(j) = Window(job[w]) + (MaxRetries + 1)
      BY <3>1, <3>2, <3>3
    <3>5. job[w].attempts \in Nat /\ sends[w] \in Nat
      BY <1>2 DEF JobRecords, ActionInv, Types, WorldTypes
    <3> QED
      BY <3>4, <3>5
  <2>2. job[w].attempts <= MaxRetries + 1 /\ sends[w] <= Window(job[w]) + job[w].attempts
    BY DEF ActionInv, BudgetInv
  <2>3. sends[w] <= Window(j) + 0 /\ 0 <= MaxRetries + 1
    BY <2>1, <2>2, BoundsAreNat
  <2> QED
    BY <1>1, <1>5, <1>6, <2>3 DEF ActionInv, BudgetInv
<1> QED
  BY <1>8, <1>9, <1>10, <1>11, <1>12, <1>13 DEF ActionInv

LEMMA OutcomeKeeps ==
  ASSUME ActionInv, NEW w \in Wakes, Outcome(w)
  PROVE  ActionInv'
<1>1. /\ dispatch' = [dispatch EXCEPT ![w] = "completed"]
      /\ UNCHANGED <<wake, decision, job, owner, reply, sends, effects, task>>
  BY DEF Outcome, journal, world
<1>2. /\ dispatch' \in [Wakes -> DispatchStates]
      /\ \A v \in Wakes : dispatch'[v] = dispatch[v] \/ dispatch'[v] = "completed"
  BY <1>1 DEF ActionInv, Types, NativeTypes, DispatchStates
<1>3. Types'
  BY <1>1, <1>2 DEF ActionInv, Types, NativeTypes, JobTypes, OwnerTypes, WorldTypes, TaskTypes
<1>4. LocalInv' /\ CommitInv' /\ OwnerInv' /\ BudgetInv'
  BY <1>1 DEF ActionInv, LocalInv, CommitInv, OwnerInv, BudgetInv, Local, Work
<1>5. EffectInv'
  BY <1>1, <1>2 DEF ActionInv, Types, TaskTypes, EffectInv, Work
<1>6. AskInv'
  BY <1>1, <1>2 DEF ActionInv, Types, TaskTypes, AskInv, Answered, Work
<1> QED
  BY <1>3, <1>4, <1>5, <1>6 DEF ActionInv

-----------------------------------------------------------------------------
(* The theorems.                                                           *)

LEMMA InitActionInv ==
  ASSUME Init
  PROVE  ActionInv
<1>1. NewJob \in JobRecords /\ NewJob.attempts = 0 /\ NewJob.operator = 0 /\ NewJob.prepared = "none"
  BY DEF NewJob, JobRecords, JobStates, Decisions, Deliveries
<1>2. task.at = "idle" /\ task.wake = NoWake
  BY DEF Init, NoTask
<1>3. Types
  <2>1. TaskTypes
    BY DEF Init, NoTask, NewJob, TaskTypes, JobRecords, JobStates, Ats, Decisions, Deliveries
  <2>2. NativeTypes
    BY DEF Init, NativeTypes, WakeStates, DispatchStates
  <2> QED
    BY <1>1, <2>1, <2>2 DEF Init, Types, JobTypes, OwnerTypes, WorldTypes, Operations
<1>4. LocalInv /\ AskInv
  BY <1>2 DEF LocalInv, AskInv
<1>5. EffectInv
  BY <1>2 DEF Init, EffectInv
<1>6. CommitInv
  <2>1. ASSUME NEW w \in Wakes, Len(w) > 1
        PROVE  wake[w].state = "absent"
    <3>1. Len(w) \in 1..(MaxDepth + 1)
      BY WakeShape
    <3>2. \A n \in 1..(MaxDepth + 1) : n > 1 => n # 1
      BY BoundsAreNat
    <3>3. Len(w) # 1
      BY <2>1, <3>1, <3>2
    <3> QED
      BY <3>3 DEF Init
  <2> QED
    BY <1>2, <2>1 DEF Init, CommitInv
<1>7. OwnerInv
  BY <1>1, <1>2 DEF Init, OwnerInv, Owns
<1>8. BudgetInv
  <2>1. \A w \in Wakes : job[w] = NewJob /\ sends[w] = 0
    BY DEF Init
  <2>2. Window(NewJob) = 0 /\ 0 <= MaxRetries + 1
    BY <1>1, BoundsAreNat DEF Window
  <2> QED
    BY <1>1, <1>2, <2>1, <2>2 DEF BudgetInv
<1> QED
  BY <1>3, <1>4, <1>5, <1>6, <1>7, <1>8 DEF ActionInv

LEMMA NextActionInv ==
  ASSUME ActionInv, [Next]_vars
  PROVE  ActionInv'
<1>1. ASSUME NEW w \in Wakes, Start(w) \/ Retry(w) \/ Outcome(w)
      PROVE  ActionInv'
  BY <1>1, StartKeeps, RetryKeeps, OutcomeKeeps
<1>2. CASE (\E w \in Wakes : Respond(w) \/ Expire(w)) \/ SetEnabled \/ Crash \/ Restart
  BY <1>2, OutsideKeeps
<1>3. CASE AcquireGate \/ Propose \/ SavePrepared \/ Commit \/ Close \/ FailPass
  BY <1>3, AcquireGateKeeps, ProposeKeeps, SavePreparedKeeps, CommitKeeps, CloseKeeps, FailPassKeeps
<1>4. CASE CancelAnswered \/ FinishDispatch \/ BlockDispatch \/ CountLookup \/ LookupTarget
  BY <1>4, CancelAnsweredKeeps, FinishDispatchKeeps, BlockDispatchKeeps, CountLookupKeeps, LookupTargetKeeps
<1>5. CASE CountSend \/ Begin \/ Send \/ Withhold
  BY <1>5, CountSendKeeps, BeginKeeps, SendKeeps, WithholdKeeps
<1>6. CASE UNCHANGED vars
  BY <1>6 DEF vars, ActionInv, Types, NativeTypes, JobTypes, OwnerTypes, WorldTypes, TaskTypes, LocalInv,
              EffectInv, CommitInv, OwnerInv, BudgetInv, AskInv, Answered, Local, Work
<1> QED
  BY <1>1, <1>2, <1>3, <1>4, <1>5, <1>6 DEF Next, Pass

LEMMA ActionInvHolds == Spec => []ActionInv
  BY InitActionInv, NextActionInv, PTL DEF Spec

\* A target that cannot deduplicate executes an attempt at most once: the native record
\* admits it again only when the target said that it had not started (dispatch,
\* begin_wake_dispatch and the lookup of action/dispatch.rs).
THEOREM EffectsHappenOnce == Spec => []AtMostOneEffect
<1>1. ActionInv => AtMostOneEffect
  BY DEF ActionInv, EffectInv, AtMostOneEffect
<1> QED
  BY <1>1, ActionInvHolds, PTL

\* Two fires of one business operation never both commit to act: whoever is prepared to
\* act owns the deduplication record, and an owner is never replaced (deduplicate).
THEOREM OneFireActs == Spec => []OneActPerOperation
<1>1. ActionInv => OneActPerOperation
  <2> SUFFICES ASSUME ActionInv, NEW v \in Wakes, NEW w \in Wakes,
                      decision[v] = "act", decision[w] = "act",
                      Key(v) # "clarification", Key(w) # "clarification",
                      Operation[v[1]] = Operation[w[1]], Operation[v[1]] # NoOperation
               PROVE  v = w
    BY DEF OneActPerOperation
  <2>1. job[v].prepared = "act" /\ job[w].prepared = "act"
    BY DEF ActionInv, CommitInv
  <2>2. owner[Operation[v[1]]] = v /\ owner[Operation[w[1]]] = w
    BY <2>1 DEF ActionInv, OwnerInv, Owns
  <2> QED
    BY <2>2
<1> QED
  BY <1>1, ActionInvHolds, PTL

\* The journal holds the preparation of every committed decision, so that its exact
\* replay finds a lost acknowledgement (commit's save before the native transaction).
THEOREM CommitsAreJournaled == Spec => []JournalCoversCommits
<1>1. ActionInv => JournalCoversCommits
  BY DEF ActionInv, CommitInv, JournalCoversCommits
<1> QED
  BY <1>1, ActionInvHolds, PTL

\* Calls of the executor stay within max_retries per operator window: a call is counted
\* durably before it is admitted.
THEOREM RetriesStayInBudget == Spec => []RetryBudget
<1>1. ASSUME ActionInv
      PROVE  RetryBudget
  <2> SUFFICES ASSUME NEW w \in Wakes
               PROVE  sends[w] <= (job[w].operator + 1) * (MaxRetries + 1)
    BY DEF RetryBudget
  <2> DEFINE o == job[w].operator
             a == job[w].attempts
  <2>1. o \in Nat /\ a \in Nat /\ sends[w] \in Nat /\ MaxRetries \in Nat
    BY <1>1, BoundsAreNat DEF ActionInv, Types, JobTypes, JobRecords, WorldTypes
  <2>2. a <= MaxRetries + 1 /\ sends[w] <= o * (MaxRetries + 1) + a
    BY <1>1 DEF ActionInv, BudgetInv, Window
  <2> HIDE DEF o, a
  <2>3. o * (MaxRetries + 1) \in Nat /\ (o + 1) * (MaxRetries + 1) = o * (MaxRetries + 1) + (MaxRetries + 1)
    BY <2>1, WindowGrows
  <2>4. sends[w] <= (o + 1) * (MaxRetries + 1)
    BY <2>1, <2>2, <2>3
  <2> QED
    BY <2>4 DEF o
<1> QED
  BY <1>1, ActionInvHolds, PTL

\* A question that was answered while nothing of it was in flight is not sent: no step
\* starts its dispatch (the check under the runtime's mutex in dispatch).
THEOREM AnswersStopTheQuestion == Spec => AnsweredIsNotAsked
<1> DEFINE Quiet == \A w \in Wakes :
              IsClarification(w) /\ Answered(w) /\ dispatch[w] \in {"none", "ready"} => dispatch'[w] # "started"
<1>1. ASSUME ActionInv, [Next]_vars
      PROVE  [Quiet]_vars
  <2> SUFFICES ASSUME NEW w \in Wakes, IsClarification(w), Answered(w), dispatch[w] \in {"none", "ready"},
                      dispatch'[w] = "started"
               PROVE  FALSE
    OBVIOUS
  <2>1. dispatch' # dispatch /\ dispatch \in [Wakes -> DispatchStates]
    BY <1>1 DEF ActionInv, Types, NativeTypes
  <2>2. Begin \/ LookupTarget \/ \E v \in Wakes : Outcome(v)
    BY <1>1, <2>1 DEF Next, Pass, vars, Start, Respond, Retry, Expire, SetEnabled, Crash, Restart, AcquireGate,
       Propose, SavePrepared, Commit, Close, FailPass, CancelAnswered, FinishDispatch, BlockDispatch, CountLookup,
       CountSend, Send, Withhold, native
  <2>3. CASE Begin
    <3>1. task.at = "begin" /\ dispatch' = [dispatch EXCEPT ![Work] = IF Permit = "dispatch" THEN "started" ELSE @]
      BY <2>3 DEF Begin
    <3>2. w = Work
      BY <2>1, <3>1
    <3> QED
      BY <1>1, <3>1, <3>2 DEF ActionInv, AskInv
  <2>4. CASE LookupTarget
    BY <2>1, <2>4 DEF LookupTarget
  <2>5. CASE \E v \in Wakes : Outcome(v)
    BY <2>1, <2>5 DEF Outcome
  <2> QED
    BY <2>2, <2>3, <2>4, <2>5
<1>2. ActionInv /\ [Next]_vars => [Quiet]_vars
  BY <1>1
<1>3. Spec => [][Quiet]_vars
  BY <1>2, ActionInvHolds, PTL DEF Spec
<1> QED
  BY <1>3 DEF AnsweredIsNotAsked

===============================================================================
