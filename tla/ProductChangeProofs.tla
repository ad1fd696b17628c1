------------------------- MODULE ProductChangeProofs -------------------------
(***************************************************************************)
(* Proofs about ProductChange, for any number of changes, records, sources *)
(* and passes, and any combination of faults: the fence belongs to the     *)
(* change that is applied, a confirmed change is done, a correction is     *)
(* written once, an element is removed at the previewed version only, no   *)
(* copy of an erased record outlives the fence, and no pass forms memory   *)
(* from what a managed change excluded.                                    *)
(***************************************************************************)
EXTENDS ProductChange, TLAPS

\* Versions are not bounded here: the bounds of an instance are no part of the
\* argument.
ChangeRecords ==
    [state : ChangeStates, kind : AllKinds, rec : Records \cup {NoKey},
     targets : SUBSET Elements, version : [Elements -> Nat],
     excluded : SUBSET Sources, done : SUBSET Elements, content : BOOLEAN]

ChangeTypes == change \in [Keys -> ChangeRecords]
ElemTypes == elem \in [Elements -> [state : States, version : Nat]]
ControlTypes ==
    /\ epoch \in Nat
    /\ pending \in Keys \cup {NoKey}
    /\ suppressed \subseteq Sources
    /\ committed \subseteq Keys
    /\ replaced \in [Keys -> Nat]
TaskTypes == task \in [key : Keys \cup {NoKey}, at : Steps]
Types == ChangeTypes /\ ElemTypes /\ ControlTypes /\ TaskTypes

USE KeysAssumption, CitesAssumption, KindsAssumption, SourcesAssumption

\* The targets of a change are elements, and the sources they came from sources.
LEMMA TargetsAreElements ==
  ASSUME NEW kind, NEW r \in Records
  PROVE  Targets(kind, r) \subseteq Elements
  BY DEF Targets, DeletionTargets, Elements

LEMMA SourcesAreSources ==
  ASSUME NEW S \in SUBSET Elements
  PROVE  SourcesOf(S) \in SUBSET Sources
  BY DEF SourcesOf, Elements

-----------------------------------------------------------------------------
(* What an action does to the journal, field by field.                     *)

\* Writing one field of a change leaves a change.
LEMMA SetState ==
  ASSUME NEW c \in ChangeRecords, NEW s \in ChangeStates
  PROVE  /\ [c EXCEPT !.state = s] \in ChangeRecords
         /\ [c EXCEPT !.state = s].state = s
  BY DEF ChangeRecords

LEMMA SetContent ==
  ASSUME NEW c \in ChangeRecords, NEW b \in BOOLEAN
  PROVE  [c EXCEPT !.content = b] \in ChangeRecords
  BY DEF ChangeRecords

LEMMA SetDone ==
  ASSUME NEW c \in ChangeRecords, NEW e \in Elements
  PROVE  [c EXCEPT !.done = @ \cup {e}] \in ChangeRecords
  BY DEF ChangeRecords

\* Only the change k is written, and what it previewed is not.
Rewrites(k) ==
    /\ ChangeTypes'
    /\ \A j \in Keys : j # k => change'[j] = change[j]
    /\ change'[k].kind = change[k].kind
    /\ change'[k].rec = change[k].rec
    /\ change'[k].targets = change[k].targets
    /\ change'[k].version = change[k].version

LEMMA FinishDiscardEffect ==
  ASSUME Types, NEW k \in Keys, FinishDiscard(k)
  PROVE  Rewrites(k) /\ change'[k].state = "discarded" /\ ~change'[k].content
<1> DEFINE c == [change[k] EXCEPT !.state = "discarded"]
<1>1. c \in ChangeRecords /\ c.state = "discarded"
  BY SetState DEF Types, ChangeTypes, ChangeStates
<1>2. c.kind = change[k].kind /\ c.rec = change[k].rec /\ c.targets = change[k].targets /\ c.version = change[k].version
  BY DEF Types, ChangeTypes, ChangeRecords
<1>3. change' = [change EXCEPT ![k] = [c EXCEPT !.content = FALSE]]
  BY DEF FinishDiscard
<1> HIDE DEF c
<1> DEFINE d == [c EXCEPT !.content = FALSE]
<1>4. d \in ChangeRecords
  BY <1>1, SetContent
<1>5. d.state = c.state /\ ~d.content /\ d.kind = c.kind /\ d.rec = c.rec /\ d.targets = c.targets /\ d.version = c.version
  BY <1>1 DEF ChangeRecords
<1> HIDE DEF d
<1> QED
  BY <1>1, <1>2, <1>3, <1>4, <1>5 DEF Types, ChangeTypes, Rewrites, d

LEMMA ClearRelatedEffect ==
  ASSUME Types, NEW k \in Keys, ClearRelated(k)
  PROVE  \E j \in Related(k) :
           /\ Rewrites(j)
           /\ change'[j].state = IF change[j].state = "prepared" THEN "discarded" ELSE change[j].state
           /\ ~change'[j].content
<1>1. PICK j \in Related(k) : change' = [change EXCEPT ![j].state = IF @ = "prepared" THEN "discarded" ELSE @,
                                                       ![j].content = FALSE]
  BY DEF ClearRelated
<1>2. j \in Keys
  BY DEF Related
<1> DEFINE s == IF change[j].state = "prepared" THEN "discarded" ELSE change[j].state
           c == [change[j] EXCEPT !.state = s]
<1>3. s \in ChangeStates /\ change[j] \in ChangeRecords
  BY <1>2 DEF Types, ChangeTypes, ChangeRecords, ChangeStates
<1>4. change' = [change EXCEPT ![j] = [c EXCEPT !.content = FALSE]]
  BY <1>1, <1>2 DEF Types, ChangeTypes, ChangeRecords
<1>5. s = IF change[j].state = "prepared" THEN "discarded" ELSE change[j].state
  OBVIOUS
<1> HIDE DEF s
<1>6. c \in ChangeRecords /\ c.state = s
  BY <1>3, SetState
<1>7. c.kind = change[j].kind /\ c.rec = change[j].rec /\ c.targets = change[j].targets /\ c.version = change[j].version
  BY <1>3 DEF ChangeRecords
<1> HIDE DEF c
<1> DEFINE d == [c EXCEPT !.content = FALSE]
<1>8. d \in ChangeRecords
  BY <1>6, SetContent
<1>9. d.state = c.state /\ ~d.content /\ d.kind = c.kind /\ d.rec = c.rec /\ d.targets = c.targets /\ d.version = c.version
  BY <1>6 DEF ChangeRecords
<1>10. change' = [change EXCEPT ![j] = d]
  BY <1>4 DEF d
<1> HIDE DEF d
<1>11. Rewrites(j)
  BY <1>2, <1>7, <1>8, <1>9, <1>10 DEF Types, ChangeTypes, Rewrites
<1>12. change'[j].state = s /\ ~change'[j].content
  BY <1>2, <1>6, <1>8, <1>9, <1>10 DEF Types, ChangeTypes
<1> QED
  BY <1>5, <1>11, <1>12

LEMMA ConfirmEffect ==
  ASSUME Types, NEW k \in Keys, Confirm(k)
  PROVE  /\ Rewrites(k)
         /\ change'[k].state = "confirmed"
         /\ change'[k].content => change[k].content /\ change[k].kind # "delete"
<1> DEFINE b == change[k].content /\ change[k].kind # "delete"
           c == [change[k] EXCEPT !.state = "confirmed"]
<1>1. c \in ChangeRecords /\ c.state = "confirmed"
  BY SetState DEF Types, ChangeTypes, ChangeStates
<1>2. c.kind = change[k].kind /\ c.rec = change[k].rec /\ c.targets = change[k].targets /\ c.version = change[k].version
  BY DEF Types, ChangeTypes, ChangeRecords
<1>3. change' = [change EXCEPT ![k] = [c EXCEPT !.content = b]]
  BY DEF Confirm, Types, ChangeTypes, ChangeRecords
<1>4. b \in BOOLEAN /\ (b => change[k].content /\ change[k].kind # "delete")
  OBVIOUS
<1> HIDE DEF b, c
<1> DEFINE d == [c EXCEPT !.content = b]
<1>5. d \in ChangeRecords
  BY <1>1, <1>4, SetContent
<1>6. d.state = c.state /\ d.kind = c.kind /\ d.rec = c.rec /\ d.targets = c.targets /\ d.version = c.version
  BY <1>1 DEF ChangeRecords
<1>7. d.content = b
  BY <1>1 DEF ChangeRecords
<1>8. change' = [change EXCEPT ![k] = d]
  BY <1>3 DEF d
<1> HIDE DEF d
<1>9. Rewrites(k) /\ change'[k].state = "confirmed"
  BY <1>1, <1>2, <1>5, <1>6, <1>8 DEF Types, ChangeTypes, Rewrites
<1>10. change'[k] = d
  BY <1>8 DEF Types, ChangeTypes
<1> QED
  BY <1>4, <1>7, <1>9, <1>10

\* MarkCommitting and Reconcile write the state alone.
LEMMA SetStateEffect ==
  ASSUME Types, NEW k \in Keys, NEW s \in ChangeStates, change' = [change EXCEPT ![k].state = s]
  PROVE  Rewrites(k) /\ change'[k].state = s /\ (change'[k].content <=> change[k].content)
<1> DEFINE c == [change[k] EXCEPT !.state = s]
<1>1. c \in ChangeRecords /\ c.state = s
  BY SetState DEF Types, ChangeTypes
<1>2. /\ c.kind = change[k].kind /\ c.rec = change[k].rec /\ c.targets = change[k].targets
      /\ c.version = change[k].version /\ c.content = change[k].content
  BY DEF Types, ChangeTypes, ChangeRecords
<1>3. change' = [change EXCEPT ![k] = c]
  OBVIOUS
<1> HIDE DEF c
<1> QED
  BY <1>1, <1>2, <1>3 DEF Types, ChangeTypes, Rewrites

LEMMA RecordTargetEffect ==
  ASSUME Types, NEW k \in Keys, RecordTarget(k)
  PROVE  Rewrites(k) /\ change'[k].state = change[k].state /\ (change'[k].content <=> change[k].content)
<1>1. PICK e \in NextTargets(k) : change' = [change EXCEPT ![k].done = @ \cup {e}]
  BY DEF RecordTarget
<1>2. e \in Elements
  BY DEF NextTargets, Types, ChangeTypes, ChangeRecords
<1> DEFINE c == [change[k] EXCEPT !.done = @ \cup {e}]
<1>3. c \in ChangeRecords
  BY <1>2, SetDone DEF Types, ChangeTypes
<1>4. /\ c.kind = change[k].kind /\ c.rec = change[k].rec /\ c.targets = change[k].targets
      /\ c.version = change[k].version /\ c.content = change[k].content /\ c.state = change[k].state
  BY DEF Types, ChangeTypes, ChangeRecords
<1>5. change' = [change EXCEPT ![k] = c]
  BY <1>1
<1> HIDE DEF c
<1> QED
  BY <1>3, <1>4, <1>5 DEF Types, ChangeTypes, Rewrites

LEMMA PrepareEffect ==
  ASSUME Types, NEW k \in Keys, NEW kind \in Kinds, NEW r \in Records, Prepare(k, kind, r)
  PROVE  /\ ChangeTypes'
         /\ \A j \in Keys : j # k => change'[j] = change[j]
         /\ change'[k].state = "prepared"
         /\ change'[k].kind = kind
         /\ change'[k].rec = r
         /\ change'[k].targets = Targets(kind, r)
         /\ change'[k].version[r] = elem[r].version
<1> DEFINE targets == Targets(kind, r)
           version == [e \in Elements |-> IF e \in targets \cup {r} THEN elem[e].version ELSE 0]
<1>1. targets \in SUBSET Elements /\ r \in Elements
  BY TargetsAreElements DEF Elements
<1>2. version \in [Elements -> Nat] /\ version[r] = elem[r].version
  BY <1>1 DEF Types, ElemTypes
<1>3. SourcesOf(targets \cup {r}) \in SUBSET Sources
  BY <1>1, SourcesAreSources
<1>4. kind \in AllKinds
  OBVIOUS
<1>5. "prepared" \in ChangeStates
  BY DEF ChangeStates
<1> HIDE DEF targets, version
<1> DEFINE c == [state |-> "prepared", kind |-> kind, rec |-> r, targets |-> targets, version |-> version,
                 excluded |-> SourcesOf(targets \cup {r}), done |-> {}, content |-> TRUE]
<1>6. c \in ChangeRecords
  BY <1>1, <1>2, <1>3, <1>4, <1>5 DEF ChangeRecords
<1>7. change' = [change EXCEPT ![k] = c]
  BY DEF Prepare, targets, version
<1>8. c.state = "prepared" /\ c.kind = kind /\ c.rec = r /\ c.targets = targets /\ c.version = version
  OBVIOUS
<1> HIDE DEF c
<1> QED
  BY <1>2, <1>6, <1>7, <1>8 DEF Types, ChangeTypes, targets

-----------------------------------------------------------------------------
(* The inductive invariant, in parts.                                      *)

HasTask == task.key \in Keys

\* A task belongs to a change that exists.  A commit's task runs behind its own
\* fence, a discard's outside of every fence.
TaskInv ==
    /\ task.key = NoKey => task = NoTask
    /\ HasTask => change[task.key].state # "absent"
    /\ HasTask /\ task.at # "discard" => pending = task.key
    /\ HasTask /\ task.at = "discard" =>
         pending # task.key /\ change[task.key].state \in {"prepared", "discarded"}
    /\ HasTask /\ task.at = "mark" => change[task.key].state = "prepared"
    /\ HasTask /\ task.at = "release" => change[task.key].state = "confirmed"

\* The pending change exists, and a change that exists names a record.
PendingInv ==
    /\ pending \in Keys => change[pending].state # "absent"
    /\ \A k \in Keys : change[k].state # "absent" =>
         /\ change[k].rec \in Records
         /\ Revises(change[k].kind) => change[k].targets = {change[k].rec}

\* The native idempotency key of a correction and its one transaction.
OnceInv ==
    \A k \in Keys :
      /\ k \notin committed => replaced[k] = 0
      /\ k \in committed => /\ replaced[k] = 1
                            /\ change[k].state # "absent"
                            /\ Revises(change[k].kind)

\* The record of a correction has not been removed at the version it previewed.
VersionInv ==
    \A k \in Keys :
      change[k].state # "absent" /\ Revises(change[k].kind) =>
        LET r == change[k].rec
        IN  /\ elem[r].state # "absent"
            /\ change[k].version[r] <= elem[r].version
            /\ change[k].version[r] = elem[r].version => elem[r].state = "active"

\* What a deletion or a suppression verified stays so.
Finished(k) == \A e \in change[k].targets : elem[e].state \in Final(change[k].kind)

DoneInv ==
    /\ ConfirmedIsDone
    /\ HasTask /\ task.at \in {"clear", "confirm"} /\ ~Revises(change[task.key].kind) => Finished(task.key)

\* An erased record is still copied only behind the fence of the deletion that
\* erases it, which clears the copies before it confirms.
CopyInv ==
    /\ \A k \in Keys :
         change[k].state # "absent" /\ change[k].content /\ elem[change[k].rec].state = "purged" =>
           /\ pending \in Keys
           /\ change[pending].kind = "delete"
           /\ change[k].rec \in change[pending].targets
    /\ HasTask /\ task.at \in {"confirm", "release"} /\ change[task.key].kind = "delete" =>
         Related(task.key) = {}
    /\ HasTask /\ task.at = "release" /\ change[task.key].kind = "delete" => ~change[task.key].content

\* A pass that still writes is of this epoch, and its source was not excluded in it.
PassInv ==
    /\ leaked = {}
    /\ \A p \in Passes : pass[p].on =>
         /\ pass[p].epoch <= epoch
         /\ pass[p].epoch = epoch => pass[p].source \notin suppressed

PassTypes == pass \in [Passes -> [on : BOOLEAN, epoch : Nat, source : Sources \cup {NoSource}]]

-----------------------------------------------------------------------------
(* Types.                                                                  *)

LEMMA ChangeTypesStep == Types /\ [Next]_vars => ChangeTypes'
<1> SUFFICES ASSUME Types, [Next]_vars PROVE ChangeTypes'
  OBVIOUS
<1>1. ASSUME NEW k \in Keys, NEW kind \in Kinds, NEW r \in Records, Prepare(k, kind, r) PROVE ChangeTypes'
  BY <1>1, PrepareEffect
<1>2. ASSUME NEW k \in Keys, FinishDiscard(k) PROVE ChangeTypes'
  BY <1>2, FinishDiscardEffect DEF Rewrites
<1>3. ASSUME NEW k \in Keys, MarkCommitting(k) PROVE ChangeTypes'
  BY <1>3, SetStateEffect DEF Rewrites, MarkCommitting, ChangeStates
<1>4. ASSUME NEW k \in Keys, RecordTarget(k) PROVE ChangeTypes'
  BY <1>4, RecordTargetEffect DEF Rewrites
<1>5. ASSUME NEW k \in Keys, Reconcile(k) PROVE ChangeTypes'
  BY <1>5, SetStateEffect DEF Rewrites, Reconcile, ChangeStates
<1>6. ASSUME NEW k \in Keys, ClearRelated(k) PROVE ChangeTypes'
  BY <1>6, ClearRelatedEffect DEF Rewrites
<1>7. ASSUME NEW k \in Keys, Confirm(k) PROVE ChangeTypes'
  BY <1>7, ConfirmEffect DEF Rewrites
<1>8. CASE UNCHANGED change
  BY <1>8 DEF Types, ChangeTypes
<1> QED
  BY <1>1, <1>2, <1>3, <1>4, <1>5, <1>6, <1>7, <1>8
     DEF Next, ChangeStep, PassStep, Discard, Commit, Recommit, ExecuteTarget, Verify, Cleared, Release,
         AdmitPass, Form, Touch, EndPass, HostWrite, SuppressSources, TaskFails, Crash, OpenSpace, vars

\* A write of the graph bumps a version.
LEMMA BumpEffect ==
  ASSUME ElemTypes, NEW e \in Elements, NEW s \in States, elem' = Bump(e, s)
  PROVE  /\ ElemTypes'
         /\ elem'[e].state = s
         /\ elem'[e].version = elem[e].version + 1
         /\ \A d \in Elements : d # e => elem'[d] = elem[d]
  BY DEF ElemTypes, Bump

\* What a target of a task's request becomes: the four outcomes of ExecuteTarget.
LEMMA ExecuteTargetEffect ==
  ASSUME Types, NEW k \in Keys, ExecuteTarget(k)
  PROVE  /\ ElemTypes'
         /\ task' = [key |-> k, at |-> "record"]
         /\ UNCHANGED <<epoch, pending, suppressed, change, tombs, phase, pass, leaked>>
         /\ \E e \in NextTargets(k) :
              /\ e \in Elements
              /\ \A d \in Elements : d # e => elem'[d] = elem[d]
              /\ \/ UNCHANGED <<elem, committed, replaced>>
                 \/ /\ ~Revises(change[k].kind)
                    /\ Accepts(k, e)
                    /\ elem[e].state \notin Final(change[k].kind)
                    /\ elem'[e].state = IF change[k].kind = "delete" THEN "purged" ELSE "archived"
                    /\ elem'[e].version = elem[e].version + 1
                    /\ UNCHANGED <<committed, replaced>>
                 \/ /\ Revises(change[k].kind)
                    /\ Accepts(k, e)
                    /\ k \notin committed
                    /\ committed' = committed \cup {k}
                    /\ replaced' = [replaced EXCEPT ![k] = @ + 1]
                    /\ \/ UNCHANGED elem
                       \/ /\ change[k].kind = "correct"
                          /\ elem'[e].state = "superseded"
                          /\ elem'[e].version = elem[e].version + 1
<1> USE DEF Types
<1>1. PICK e \in NextTargets(k) :
         \/ UNCHANGED graph
         \/ /\ ~Revises(change[k].kind)
            /\ elem[e].state \notin Final(change[k].kind)
            /\ Accepts(k, e)
            /\ elem' = Bump(e, IF change[k].kind = "delete" THEN "purged" ELSE "archived")
            /\ UNCHANGED <<committed, replaced>>
         \/ /\ Revises(change[k].kind)
            /\ Accepts(k, e)
            /\ ExecuteCorrection(k, e)
  BY DEF ExecuteTarget
<1>2. e \in Elements
  BY DEF NextTargets, ChangeTypes, ChangeRecords
<1>3. "purged" \in States /\ "archived" \in States /\ "superseded" \in States
  BY DEF States
<1>4. /\ task' = [key |-> k, at |-> "record"]
      /\ UNCHANGED <<epoch, pending, suppressed, change, tombs, phase, pass, leaked>>
  BY DEF ExecuteTarget, control
<1>5. CASE UNCHANGED graph
  BY <1>2, <1>4, <1>5 DEF graph, ElemTypes
<1>6. CASE /\ ~Revises(change[k].kind)
           /\ elem[e].state \notin Final(change[k].kind)
           /\ Accepts(k, e)
           /\ elem' = Bump(e, IF change[k].kind = "delete" THEN "purged" ELSE "archived")
           /\ UNCHANGED <<committed, replaced>>
  <2> DEFINE s == IF change[k].kind = "delete" THEN "purged" ELSE "archived"
  <2>1. s \in States
    BY <1>3
  <2>2. elem' = Bump(e, s)
    BY <1>6
  <2>3. /\ ElemTypes'
        /\ elem'[e].state = s
        /\ elem'[e].version = elem[e].version + 1
        /\ \A d \in Elements : d # e => elem'[d] = elem[d]
    BY <1>2, <2>1, <2>2, BumpEffect
  <2> QED
    BY <1>2, <1>4, <1>6, <2>3
<1>7. CASE Revises(change[k].kind) /\ Accepts(k, e) /\ ExecuteCorrection(k, e)
  <2>1. CASE k \in committed
    BY <1>2, <1>4, <1>7, <2>1 DEF ExecuteCorrection, graph, ElemTypes
  <2>2. CASE k \notin committed /\ change[k].kind = "correct"
    <3>1. elem' = Bump(e, "superseded")
      BY <1>7, <2>2 DEF ExecuteCorrection
    <3>2. /\ ElemTypes'
          /\ elem'[e].state = "superseded"
          /\ elem'[e].version = elem[e].version + 1
          /\ \A d \in Elements : d # e => elem'[d] = elem[d]
      BY <1>2, <1>3, <3>1, BumpEffect
    <3> QED
      BY <1>2, <1>4, <1>7, <2>2, <3>2 DEF ExecuteCorrection
  <2>3. CASE k \notin committed /\ change[k].kind # "correct"
    BY <1>2, <1>4, <1>7, <2>3 DEF ExecuteCorrection, ElemTypes
  <2> QED
    BY <2>1, <2>2, <2>3
<1> QED
  BY <1>1, <1>5, <1>6, <1>7

\* A pass or a host rewrites what is active, or writes what was absent.
LEMMA WriterEffect ==
  ASSUME Types,
         \/ \E p \in Passes, r \in Records : Form(p, r)
         \/ \E p \in Passes, e \in Elements : Touch(p, e)
         \/ \E e \in Elements : HostWrite(e)
  PROVE  /\ ElemTypes'
         /\ UNCHANGED <<epoch, pending, suppressed, change, tombs, committed, replaced, phase, task, pass>>
         /\ \A d \in Elements :
              \/ elem'[d] = elem[d]
              \/ elem[d].state = "absent" /\ elem'[d].state = "active"
              \/ elem[d].state = "active" /\ elem'[d].state = "active" /\ elem'[d].version = elem[d].version + 1
<1> USE DEF Types
<1>1. ASSUME NEW p \in Passes, NEW r \in Records, Form(p, r)
      PROVE  /\ ElemTypes'
             /\ \A d \in Elements : elem'[d] = elem[d] \/ (elem[d].state = "absent" /\ elem'[d].state = "active")
  <2>1. elem' = [e \in Elements |-> IF (e = r \/ e \in Cites[r]) /\ elem[e].state = "absent"
                                    THEN [state |-> "active", version |-> 1] ELSE elem[e]]
    BY <1>1 DEF Form
  <2> QED
    BY <2>1 DEF ElemTypes, States
<1>2. ASSUME NEW e \in Elements, elem[e].state = "active", elem' = Bump(e, "active")
      PROVE  /\ ElemTypes'
             /\ \A d \in Elements :
                  \/ elem'[d] = elem[d]
                  \/ elem[d].state = "active" /\ elem'[d].state = "active" /\ elem'[d].version = elem[d].version + 1
  <2>1. "active" \in States
    BY DEF States
  <2>2. /\ ElemTypes'
        /\ elem'[e].state = "active"
        /\ elem'[e].version = elem[e].version + 1
        /\ \A d \in Elements : d # e => elem'[d] = elem[d]
    BY <1>2, <2>1, BumpEffect
  <2> QED
    BY <1>2, <2>2
<1> QED
  BY <1>1, <1>2 DEF Form, Touch, HostWrite, control

\* The steps that leave the control, the journal and the graph alone.
Idle == UNCHANGED <<epoch, pending, change, elem, committed, replaced, task>>

LEMMA IdleSteps ==
  ASSUME \/ \E p \in Passes, s \in Sources \cup {NoSource} : AdmitPass(p, s)
         \/ \E p \in Passes : EndPass(p)
         \/ \E s \in Sources : SuppressSources(s)
         \/ UNCHANGED vars
  PROVE  Idle
  BY DEF Idle, AdmitPass, EndPass, SuppressSources, vars, control, graph

\* TaskFails and Crash end the task where it is.
Stops == task' = NoTask /\ UNCHANGED <<epoch, pending, change, elem, committed, replaced>>

LEMMA StopSteps ==
  ASSUME TaskFails \/ Crash
  PROVE  Stops
  BY DEF Stops, TaskFails, Crash, control, graph

Writers ==
    \/ \E p \in Passes, r \in Records : Form(p, r)
    \/ \E p \in Passes, e \in Elements : Touch(p, e)
    \/ \E e \in Elements : HostWrite(e)

\* Every step is a step of a change, a write of the graph, an idle one, a stop or
\* the opening of the Space.
LEMMA StepCases ==
  ASSUME [Next]_vars
  PROVE  \/ \E k \in Keys : ChangeStep(k)
         \/ Writers \/ Idle \/ Stops \/ OpenSpace
<1>1. \/ \E k \in Keys : ChangeStep(k)
      \/ \E p \in Passes : PassStep(p)
      \/ \E e \in Elements : HostWrite(e)
      \/ \E s \in Sources : SuppressSources(s)
      \/ TaskFails \/ Crash \/ OpenSpace \/ UNCHANGED vars
  BY DEF Next
<1>2. ASSUME NEW p \in Passes, PassStep(p) PROVE Writers \/ Idle
  BY <1>2, IdleSteps DEF PassStep, Writers
<1> QED
  BY <1>1, <1>2, IdleSteps, StopSteps DEF Writers

LEMMA ElemTypesStep == Types /\ [Next]_vars => ElemTypes'
<1> SUFFICES ASSUME Types, [Next]_vars PROVE ElemTypes'
  OBVIOUS
<1>1. ASSUME NEW k \in Keys, ChangeStep(k) PROVE ElemTypes'
  <2>1. CASE ExecuteTarget(k)
    BY <2>1, ExecuteTargetEffect
  <2>2. CASE UNCHANGED elem
    BY <2>2 DEF Types, ElemTypes
  <2> QED
    BY <1>1, <2>1, <2>2 DEF ChangeStep, Prepare, Discard, FinishDiscard, Commit, MarkCommitting, Recommit,
       RecordTarget, Reconcile, Verify, ClearRelated, Cleared, Confirm, Release, graph
<1>2. CASE Writers
  BY <1>2, WriterEffect DEF Writers
<1>3. CASE Idle \/ Stops \/ OpenSpace
  BY <1>3 DEF Types, ElemTypes, Idle, Stops, OpenSpace, graph
<1> QED
  BY <1>1, <1>2, <1>3, StepCases

LEMMA ControlTypesStep == Types /\ [Next]_vars => ControlTypes'
<1> SUFFICES ASSUME Types, [Next]_vars PROVE ControlTypes'
  OBVIOUS
<1> USE DEF Types, ControlTypes
<1>1. ASSUME NEW k \in Keys, Commit(k) PROVE ControlTypes'
  <2>1. change[k].excluded \subseteq Sources
    BY DEF ChangeTypes, ChangeRecords
  <2> QED
    BY <1>1, <2>1 DEF Commit, Fence, graph
<1>2. ASSUME NEW k \in Keys, ExecuteTarget(k) PROVE ControlTypes'
  BY <1>2, ExecuteTargetEffect
<1>3. ASSUME NEW k \in Keys, Release(k) PROVE ControlTypes'
  BY <1>3 DEF Release, graph
<1>4. CASE UNCHANGED <<epoch, pending, suppressed, committed, replaced>>
  BY <1>4
<1>5. ASSUME NEW s \in Sources, SuppressSources(s) PROVE ControlTypes'
  BY <1>5 DEF SuppressSources, graph
<1>6. ASSUME NEW k \in Keys, ChangeStep(k) PROVE ControlTypes'
  BY <1>1, <1>2, <1>3, <1>4, <1>6
     DEF ChangeStep, Prepare, Discard, FinishDiscard, MarkCommitting, Recommit,
         RecordTarget, Reconcile, Verify, ClearRelated, Cleared, Confirm, control, graph
<1>7. ASSUME NEW p \in Passes, PassStep(p) PROVE ControlTypes'
  BY <1>4, <1>7 DEF PassStep, AdmitPass, Form, Touch, EndPass, control, graph
<1> QED
  BY <1>4, <1>5, <1>6, <1>7 DEF Next, HostWrite, TaskFails, Crash, OpenSpace, vars, control, graph

LEMMA TaskTypesStep == Types /\ [Next]_vars => TaskTypes'
<1> SUFFICES ASSUME Types, [Next]_vars PROVE TaskTypes'
  OBVIOUS
<1> USE DEF Types, TaskTypes, Steps
<1>1. ASSUME NEW k \in Keys, ChangeStep(k) PROVE TaskTypes'
  <2>1. CASE \E a \in Steps : task' = [key |-> k, at |-> a]
    BY <2>1
  <2>2. CASE task' = NoTask \/ task' = task
    BY <2>2 DEF NoTask
  <2>3. CASE Discard(k)
    BY <2>1, <2>2, <2>3 DEF Discard
  <2>4. CASE Commit(k) \/ MarkCommitting(k) \/ Recommit(k) \/ ExecuteTarget(k) \/ RecordTarget(k)
    BY <2>1, <2>4 DEF Commit, MarkCommitting, Recommit, ExecuteTarget, RecordTarget
  <2>5. CASE Verify(k) \/ Cleared(k) \/ Confirm(k)
    BY <2>1, <2>5 DEF Verify, Cleared, Confirm
  <2>6. CASE FinishDiscard(k) \/ Reconcile(k) \/ Release(k) \/ ClearRelated(k)
    BY <2>2, <2>6 DEF FinishDiscard, Reconcile, Release, ClearRelated
  <2>7. ASSUME NEW kind \in Kinds, NEW r \in Records, Prepare(k, kind, r) PROVE TaskTypes'
    BY <2>2, <2>7 DEF Prepare
  <2> QED
    BY <1>1, <2>3, <2>4, <2>5, <2>6, <2>7 DEF ChangeStep
<1>2. CASE Writers
  BY <1>2, WriterEffect DEF Writers
<1>3. CASE Idle \/ Stops \/ OpenSpace
  BY <1>3 DEF Idle, Stops, OpenSpace, NoTask, ControlTypes
<1> QED
  BY <1>1, <1>2, <1>3, StepCases

LEMMA TypesStep == Types /\ [Next]_vars => Types'
  BY ChangeTypesStep, ElemTypesStep, ControlTypesStep, TaskTypesStep DEF Types

-----------------------------------------------------------------------------
(* The task, the fence and the pending change.                             *)

\* What a step of the task does, with the guard on where the task is.
LEMMA AtTask ==
  ASSUME Types, NEW k \in Keys, NEW a \in Steps, task = [key |-> k, at |-> a]
  PROVE  task.key = k /\ task.at = a /\ HasTask /\ task # NoTask
  BY DEF HasTask, NoTask

LEMMA NoTaskFacts ==
  ASSUME task = NoTask
  PROVE  ~HasTask /\ task.key = NoKey
  BY DEF HasTask, NoTask

ControlInv == TaskInv /\ PendingInv /\ FenceIsHeld

\* Nothing about the task, the fence or the journal changes.
LEMMA ControlSame ==
  ASSUME Types, ControlInv, UNCHANGED <<pending, change>>, task' = task \/ task' = NoTask
  PROVE  ControlInv'
<1>1. CASE task' = task
  BY <1>1 DEF ControlInv, TaskInv, PendingInv, FenceIsHeld, HasTask
<1>2. CASE task' = NoTask
  BY <1>2 DEF ControlInv, TaskInv, PendingInv, FenceIsHeld, HasTask, NoTask
<1> QED
  BY <1>1, <1>2

\* The task of the pending change moves on.
LEMMA ControlMoves ==
  ASSUME Types, ControlInv, UNCHANGED <<pending, change>>, NEW k \in Keys, pending = k,
         NEW a \in {"apply", "record", "clear", "confirm"}, task' = [key |-> k, at |-> a]
  PROVE  ControlInv'
  BY DEF ControlInv, TaskInv, PendingInv, FenceIsHeld, HasTask

\* The pending change is rewritten by its task.
LEMMA ControlRewrites ==
  ASSUME Types, ControlInv, NEW k \in Keys, pending = k, UNCHANGED pending,
         Rewrites(k), change'[k].state # "absent",
         \/ task' = NoTask
         \/ \E a \in {"apply", "record", "clear", "confirm"} : task' = [key |-> k, at |-> a]
         \/ task' = [key |-> k, at |-> "release"] /\ change'[k].state = "confirmed"
  PROVE  ControlInv'
<1> USE DEF ControlInv
<1>1. change[k].state # "absent"
  BY DEF PendingInv
<1>2. PendingInv'
  BY <1>1 DEF PendingInv, Rewrites
<1>3. FenceIsHeld'
  BY DEF FenceIsHeld, Rewrites
<1>4. CASE task' = NoTask
  BY <1>2, <1>3, <1>4 DEF TaskInv, HasTask, NoTask
<1>5. CASE \E a \in {"apply", "record", "clear", "confirm"} : task' = [key |-> k, at |-> a]
  BY <1>2, <1>3, <1>5 DEF TaskInv, HasTask
<1>6. CASE task' = [key |-> k, at |-> "release"] /\ change'[k].state = "confirmed"
  BY <1>2, <1>3, <1>6 DEF TaskInv, HasTask
<1> QED
  BY <1>4, <1>5, <1>6

LEMMA ControlInvStep == Types /\ ControlInv /\ [Next]_vars => ControlInv'
<1> SUFFICES ASSUME Types, ControlInv, [Next]_vars PROVE ControlInv'
  OBVIOUS
<1> USE DEF Steps
<1>1. ASSUME NEW k \in Keys, NEW kind \in Kinds, NEW r \in Records, Prepare(k, kind, r) PROVE ControlInv'
  <2>1. task = NoTask /\ pending = NoKey /\ change[k].state = "absent" /\ UNCHANGED <<task, pending>>
    BY <1>1 DEF Prepare, control
  <2>2. /\ \A j \in Keys : j # k => change'[j] = change[j]
        /\ change'[k].state = "prepared"
        /\ change'[k].kind = kind
        /\ change'[k].rec = r
        /\ change'[k].targets = Targets(kind, r)
    BY <1>1, PrepareEffect
  <2>3. TaskInv'
    BY <2>1 DEF TaskInv, HasTask, NoTask
  <2>4. PendingInv'
    BY <2>1, <2>2 DEF ControlInv, PendingInv, Targets
  <2>5. FenceIsHeld'
    BY <2>1, <2>2 DEF ControlInv, FenceIsHeld
  <2> QED
    BY <2>3, <2>4, <2>5 DEF ControlInv
<1>2. ASSUME NEW k \in Keys, Discard(k) PROVE ControlInv'
  <2>1. /\ UNCHANGED <<change, pending>> /\ task = NoTask /\ pending # k
        /\ change[k].state \in {"absent", "prepared", "discarded"}
        /\ task' = IF change[k].state = "absent" THEN NoTask ELSE [key |-> k, at |-> "discard"]
    BY <1>2 DEF Discard, control
  <2>2. CASE change[k].state = "absent"
    BY <2>1, <2>2, ControlSame
  <2>3. CASE change[k].state # "absent"
    BY <2>1, <2>3 DEF ControlInv, TaskInv, PendingInv, FenceIsHeld, HasTask
  <2> QED
    BY <2>2, <2>3
<1>3. ASSUME NEW k \in Keys, FinishDiscard(k) PROVE ControlInv'
  <2>1. /\ UNCHANGED pending /\ task' = NoTask
        /\ Rewrites(k) /\ change'[k].state = "discarded"
    BY <1>3, FinishDiscardEffect DEF FinishDiscard, control
  <2>2. pending # k /\ change[k].state \in {"prepared", "discarded"}
    BY <1>3, AtTask DEF FinishDiscard, ControlInv, TaskInv
  <2>3. TaskInv'
    BY <2>1 DEF TaskInv, HasTask, NoTask
  <2>4. PendingInv'
    BY <2>1, <2>2 DEF ControlInv, PendingInv, Rewrites
  <2>5. FenceIsHeld'
    BY <2>1, <2>2 DEF ControlInv, FenceIsHeld, Rewrites
  <2> QED
    BY <2>3, <2>4, <2>5 DEF ControlInv
<1>4. ASSUME NEW k \in Keys, Commit(k) PROVE ControlInv'
  <2>1. /\ task' = [key |-> k, at |-> "mark"] /\ UNCHANGED change
        /\ change[k].state = "prepared" /\ pending = NoKey /\ pending' = k
    BY <1>4 DEF Commit, Fence
  <2> QED
    BY <2>1 DEF ControlInv, TaskInv, PendingInv, FenceIsHeld, HasTask
<1>5. ASSUME NEW k \in Keys, MarkCommitting(k) PROVE ControlInv'
  <2>1. pending = k
    BY <1>5, AtTask DEF MarkCommitting, ControlInv, TaskInv
  <2>2. Rewrites(k) /\ change'[k].state = "committing"
    BY <1>5, SetStateEffect DEF MarkCommitting, ChangeStates
  <2> QED
    BY <1>5, <2>1, <2>2, ControlRewrites DEF MarkCommitting, control
<1>6. ASSUME NEW k \in Keys, Recommit(k) PROVE ControlInv'
  BY <1>6, ControlMoves DEF Recommit, control
<1>7. ASSUME NEW k \in Keys, ExecuteTarget(k) PROVE ControlInv'
  <2>1. pending = k
    BY <1>7, AtTask DEF ExecuteTarget, ControlInv, TaskInv
  <2> QED
    BY <1>7, <2>1, ControlMoves DEF ExecuteTarget, control
<1>8. ASSUME NEW k \in Keys, RecordTarget(k) PROVE ControlInv'
  <2>1. pending = k /\ change[k].state # "absent"
    BY <1>8, AtTask DEF RecordTarget, ControlInv, TaskInv
  <2>2. Rewrites(k) /\ change'[k].state = change[k].state
    BY <1>8, RecordTargetEffect
  <2> QED
    BY <1>8, <2>1, <2>2, ControlRewrites DEF RecordTarget, control
<1>9. ASSUME NEW k \in Keys, Reconcile(k) PROVE ControlInv'
  <2>1. pending = k
    BY <1>9, AtTask DEF Reconcile, ControlInv, TaskInv
  <2>2. Rewrites(k) /\ change'[k].state = "reconciling"
    BY <1>9, SetStateEffect DEF Reconcile, ChangeStates
  <2> QED
    BY <1>9, <2>1, <2>2, ControlRewrites DEF Reconcile, control
<1>10. ASSUME NEW k \in Keys, Verify(k) \/ Cleared(k) PROVE ControlInv'
  <2>1. pending = k
    BY <1>10, AtTask DEF Verify, Cleared, ControlInv, TaskInv
  <2> QED
    BY <1>10, <2>1, ControlMoves DEF Verify, Cleared, control
<1>11. ASSUME NEW k \in Keys, ClearRelated(k) PROVE ControlInv'
  <2>1. pending = k /\ change[k].state # "absent" /\ task.key = k /\ task.at = "clear" /\ UNCHANGED <<task, pending>>
    BY <1>11, AtTask DEF ClearRelated, ControlInv, TaskInv, control
  <2>2. PICK j \in Related(k) :
           /\ Rewrites(j)
           /\ change'[j].state = IF change[j].state = "prepared" THEN "discarded" ELSE change[j].state
    BY <1>11, ClearRelatedEffect
  <2>3. j \in Keys /\ j # k /\ change[j].state # "absent"
    BY DEF Related
  <2>4. TaskInv'
    BY <2>1, <2>2, <2>3 DEF TaskInv, HasTask, ControlInv, Rewrites
  <2>5. PendingInv'
    BY <2>1, <2>2, <2>3 DEF ControlInv, PendingInv, Rewrites
  <2>6. FenceIsHeld'
    BY <2>1, <2>2, <2>3 DEF ControlInv, FenceIsHeld, Rewrites
  <2> QED
    BY <2>4, <2>5, <2>6 DEF ControlInv
<1>12. ASSUME NEW k \in Keys, Confirm(k) PROVE ControlInv'
  <2>1. pending = k
    BY <1>12, AtTask DEF Confirm, ControlInv, TaskInv
  <2>2. Rewrites(k) /\ change'[k].state = "confirmed"
    BY <1>12, ConfirmEffect
  <2> QED
    BY <1>12, <2>1, <2>2, ControlRewrites DEF Confirm, control
<1>13. ASSUME NEW k \in Keys, Release(k) PROVE ControlInv'
  <2>1. pending = k /\ change[k].state = "confirmed"
    BY <1>13, AtTask DEF Release, ControlInv, TaskInv
  <2>2. pending' = NoKey /\ task' = NoTask /\ UNCHANGED change
    BY <1>13 DEF Release
  <2> QED
    BY <2>1, <2>2 DEF ControlInv, TaskInv, PendingInv, FenceIsHeld, HasTask, NoTask
<1>14. CASE Writers
  BY <1>14, WriterEffect, ControlSame DEF Writers
<1>15. CASE Idle \/ Stops
  BY <1>15, ControlSame DEF Idle, Stops
<1>16. CASE OpenSpace
  <2>1. CASE pending = NoKey
    BY <1>16, <2>1, ControlSame DEF OpenSpace, control
  <2>2. CASE pending # NoKey
    BY <1>16, <2>2, ControlMoves DEF OpenSpace, control, Types, ControlTypes
  <2> QED
    BY <2>1, <2>2
<1> QED
  BY <1>1, <1>2, <1>3, <1>4, <1>5, <1>6, <1>7, <1>8, <1>9, <1>10, <1>11, <1>12, <1>13, <1>14, <1>15, <1>16, StepCases
     DEF ChangeStep

-----------------------------------------------------------------------------
(* The graph: corrections, versions, and what was finished.                *)

\* A step keeps what every change previewed, unless it prepares one.
Keeps ==
    \A j \in Keys :
      /\ change'[j].state = "absent" <=> change[j].state = "absent"
      /\ change'[j].content => change[j].content
      /\ change'[j].kind = change[j].kind
      /\ change'[j].rec = change[j].rec
      /\ change'[j].targets = change[j].targets
      /\ change'[j].version = change[j].version

LEMMA RewriteKeeps ==
  ASSUME NEW k \in Keys, Rewrites(k), change[k].state # "absent", change'[k].state # "absent",
         change'[k].content => change[k].content
  PROVE  Keeps
  BY DEF Rewrites, Keeps

LEMMA KeepsPreviews ==
  ASSUME Types, ControlInv, NEW k \in Keys, ChangeStep(k)
  PROVE  Keeps \/ \E kind \in Kinds, r \in Records : Prepare(k, kind, r)
<1> USE DEF Steps
<1>1. CASE FinishDiscard(k)
  <2>1. change[k].state # "absent"
    BY <1>1, AtTask DEF FinishDiscard, ControlInv, TaskInv
  <2> QED
    BY <1>1, <2>1, FinishDiscardEffect, RewriteKeeps
<1>2. CASE MarkCommitting(k)
  <2>1. change[k].state # "absent"
    BY <1>2, AtTask DEF MarkCommitting, ControlInv, TaskInv
  <2> QED
    BY <1>2, <2>1, SetStateEffect, RewriteKeeps DEF MarkCommitting, ChangeStates
<1>3. CASE RecordTarget(k)
  <2>1. change[k].state # "absent"
    BY <1>3, AtTask DEF RecordTarget, ControlInv, TaskInv
  <2> QED
    BY <1>3, <2>1, RecordTargetEffect, RewriteKeeps
<1>4. CASE Reconcile(k)
  <2>1. change[k].state # "absent"
    BY <1>4, AtTask DEF Reconcile, ControlInv, TaskInv
  <2> QED
    BY <1>4, <2>1, SetStateEffect, RewriteKeeps DEF Reconcile, ChangeStates
<1>5. CASE ClearRelated(k)
  <2>1. PICK j \in Related(k) :
           /\ Rewrites(j)
           /\ change'[j].state = IF change[j].state = "prepared" THEN "discarded" ELSE change[j].state
           /\ ~change'[j].content
    BY <1>5, ClearRelatedEffect
  <2>2. j \in Keys /\ change[j].state # "absent"
    BY DEF Related
  <2> QED
    BY <2>1, <2>2, RewriteKeeps
<1>6. CASE Confirm(k)
  <2>1. change[k].state # "absent"
    BY <1>6, AtTask DEF Confirm, ControlInv, TaskInv
  <2> QED
    BY <1>6, <2>1, ConfirmEffect, RewriteKeeps
<1>7. CASE UNCHANGED change
  BY <1>7 DEF Keeps
<1> QED
  BY <1>1, <1>2, <1>3, <1>4, <1>5, <1>6, <1>7
     DEF ChangeStep, Discard, Commit, Recommit, ExecuteTarget, Verify, Cleared, Release

\* Only an executed target and a writer change the graph, and neither the journal.
LEMMA GraphCases ==
  ASSUME Types, [Next]_vars
  PROVE  \/ \E k \in Keys : ExecuteTarget(k)
         \/ Writers
         \/ UNCHANGED <<elem, committed, replaced>>
<1>1. ASSUME NEW k \in Keys, ChangeStep(k)
      PROVE  ExecuteTarget(k) \/ UNCHANGED <<elem, committed, replaced>>
  BY <1>1 DEF ChangeStep, Prepare, Discard, FinishDiscard, Commit, MarkCommitting, Recommit,
       RecordTarget, Reconcile, Verify, ClearRelated, Cleared, Confirm, Release, graph
<1>2. CASE Idle \/ Stops \/ OpenSpace
  BY <1>2 DEF Idle, Stops, OpenSpace, graph
<1> QED
  BY <1>1, <1>2, StepCases

\* The journal keeps its previews, or one absent change is prepared and the graph,
\* the fence and the task are left alone.
LEMMA JournalCases ==
  ASSUME Types, ControlInv, [Next]_vars
  PROVE  \/ Keeps
         \/ \E k \in Keys, kind \in Kinds, r \in Records : Prepare(k, kind, r)
<1>1. CASE UNCHANGED change
  BY <1>1 DEF Keeps
<1>2. CASE Writers
  BY <1>1, <1>2, WriterEffect DEF Writers
<1> QED
  BY <1>1, <1>2, KeepsPreviews, StepCases DEF Idle, Stops, OpenSpace

LEMMA OnceInvStep == Types /\ ControlInv /\ OnceInv /\ [Next]_vars => OnceInv'
<1> SUFFICES ASSUME Types, ControlInv, OnceInv, [Next]_vars PROVE OnceInv'
  OBVIOUS
<1>1. ASSUME NEW k \in Keys, ExecuteTarget(k) PROVE OnceInv'
  <2>1. change[k].state # "absent" /\ UNCHANGED change
    BY <1>1, AtTask DEF ExecuteTarget, ControlInv, TaskInv, Steps
  <2>2. \/ UNCHANGED <<committed, replaced>>
        \/ /\ Revises(change[k].kind)
           /\ k \notin committed
           /\ committed' = committed \cup {k}
           /\ replaced' = [replaced EXCEPT ![k] = @ + 1]
    BY <1>1, ExecuteTargetEffect
  <2> QED
    BY <2>1, <2>2 DEF OnceInv, Types, ControlTypes
<1>2. ASSUME UNCHANGED <<committed, replaced>> PROVE OnceInv'
  <2>1. CASE Keeps
    BY <1>2, <2>1 DEF OnceInv, Keeps
  <2>2. ASSUME NEW k \in Keys, NEW kind \in Kinds, NEW r \in Records, Prepare(k, kind, r) PROVE OnceInv'
    <3>1. change[k].state = "absent" /\ \A j \in Keys : j # k => change'[j] = change[j]
      BY <2>2, PrepareEffect DEF Prepare
    <3> QED
      BY <1>2, <3>1 DEF OnceInv
  <2> QED
    BY <2>1, <2>2, JournalCases
<1> QED
  BY <1>1, <1>2, GraphCases, WriterEffect DEF Writers

\* A step bumps an element that it changes, and revives none.
Advances ==
    \A d \in Elements :
      \/ elem'[d] = elem[d]
      \/ elem[d].state = "absent" /\ elem'[d].state = "active"
      \/ elem'[d].state # "absent" /\ elem'[d].version = elem[d].version + 1

LEMMA GraphAdvances == ASSUME Types, [Next]_vars PROVE Advances
<1>1. ASSUME NEW k \in Keys, ExecuteTarget(k) PROVE Advances
  BY <1>1, ExecuteTargetEffect DEF Advances
<1>2. CASE Writers
  BY <1>2, WriterEffect DEF Writers, Advances
<1>3. CASE UNCHANGED elem
  BY <1>3 DEF Advances
<1> QED
  BY <1>1, <1>2, <1>3, GraphCases

LEMMA VersionInvStep == Types /\ ControlInv /\ VersionInv /\ [Next]_vars => VersionInv'
<1> SUFFICES ASSUME Types, ControlInv, VersionInv, [Next]_vars PROVE VersionInv'
  OBVIOUS
<1>1. CASE Keeps
  <2> SUFFICES ASSUME NEW k \in Keys, change'[k].state # "absent", Revises(change'[k].kind)
               PROVE  /\ elem'[change'[k].rec].state # "absent"
                      /\ change'[k].version[change'[k].rec] <= elem'[change'[k].rec].version
                      /\ change'[k].version[change'[k].rec] = elem'[change'[k].rec].version
                           => elem'[change'[k].rec].state = "active"
    BY DEF VersionInv
  <2> DEFINE r == change[k].rec
  <2>1. /\ change[k].state # "absent" /\ Revises(change[k].kind)
        /\ change'[k].rec = r /\ change'[k].version = change[k].version
    BY <1>1 DEF Keeps
  <2>2. r \in Elements /\ change[k].version[r] \in Nat /\ elem[r].version \in Nat
    BY <2>1 DEF Types, ElemTypes, ChangeTypes, ChangeRecords, ControlInv, PendingInv, Elements
  <2>3. /\ elem[r].state # "absent"
        /\ change[k].version[r] <= elem[r].version
        /\ change[k].version[r] = elem[r].version => elem[r].state = "active"
    BY <2>1 DEF VersionInv
  <2>4. \/ elem'[r] = elem[r]
        \/ elem'[r].state # "absent" /\ elem'[r].version = elem[r].version + 1
    BY <2>2, <2>3, GraphAdvances DEF Advances
  <2> HIDE DEF r
  <2> QED
    BY <2>1, <2>2, <2>3, <2>4
<1>2. ASSUME NEW k \in Keys, NEW kind \in Kinds, NEW r \in Records, Prepare(k, kind, r) PROVE VersionInv'
  <2>1. /\ \A j \in Keys : j # k => change'[j] = change[j]
        /\ change'[k].kind = kind
        /\ change'[k].rec = r
        /\ change'[k].version[r] = elem[r].version
    BY <1>2, PrepareEffect
  <2>2. UNCHANGED elem /\ (Revises(kind) => elem[r].state = "active")
    BY <1>2 DEF Prepare, graph
  <2>3. elem[r].version \in Nat
    BY DEF Types, ElemTypes, Elements
  <2> QED
    BY <2>1, <2>2, <2>3 DEF VersionInv
<1> QED
  BY <1>1, <1>2, JournalCases

\* A state that finishes a suppression or a deletion is never left: no correction is
\* accepted on an element that was archived since its preview.
FinalStays == \A d \in Elements, kind \in AllKinds : elem[d].state \in Final(kind) => elem'[d].state \in Final(kind)

LEMMA FinalStaysStep == ASSUME Types, ControlInv, OnceInv, VersionInv, [Next]_vars PROVE FinalStays
<1>1. ASSUME NEW k \in Keys, ExecuteTarget(k) PROVE FinalStays
  <2>1. change[k].state # "absent" /\ change[k].kind \in AllKinds
    BY <1>1, AtTask DEF ExecuteTarget, ControlInv, TaskInv, Steps, Types, ChangeTypes, ChangeRecords
  <2>2. PICK e \in NextTargets(k) :
              /\ e \in Elements
              /\ \A d \in Elements : d # e => elem'[d] = elem[d]
              /\ \/ UNCHANGED elem
                 \/ /\ elem[e].state \notin Final(change[k].kind)
                    /\ elem'[e].state = IF change[k].kind = "delete" THEN "purged" ELSE "archived"
                 \/ /\ Revises(change[k].kind)
                    /\ Accepts(k, e)
                    /\ k \notin committed
                    /\ change[k].kind = "correct"
                    /\ elem'[e].state = "superseded"
    BY <1>1, ExecuteTargetEffect
  <2>3. CASE UNCHANGED elem
    BY <2>3 DEF FinalStays
  <2>4. CASE elem[e].state \notin Final(change[k].kind)
             /\ elem'[e].state = IF change[k].kind = "delete" THEN "purged" ELSE "archived"
    BY <2>1, <2>2, <2>4 DEF FinalStays, Final, AllKinds
  <2>5. CASE Revises(change[k].kind) /\ Accepts(k, e) /\ k \notin committed /\ change[k].kind = "correct"
    <3>1. e = change[k].rec
      BY <2>1, <2>5 DEF ControlInv, PendingInv, NextTargets
    <3>2. elem[e].version = change[k].version[e]
      BY <2>5 DEF Accepts
    <3>3. elem[e].state = "active"
      BY <2>1, <2>5, <3>1, <3>2 DEF VersionInv
    <3> QED
      BY <2>2, <3>3 DEF FinalStays, Final
  <2> QED
    BY <2>2, <2>3, <2>4, <2>5
<1>2. CASE Writers
  <2>1. \A d \in Elements :
              \/ elem'[d] = elem[d]
              \/ elem[d].state = "absent"
              \/ elem[d].state = "active"
    BY <1>2, WriterEffect DEF Writers
  <2> QED
    BY <2>1 DEF FinalStays, Final
<1>3. CASE UNCHANGED elem
  BY <1>3 DEF FinalStays
<1> QED
  BY <1>1, <1>2, <1>3, GraphCases

LEMMA FinishedStays ==
  ASSUME Types, Keeps, FinalStays, NEW k \in Keys, Finished(k)
  PROVE  Finished(k)'
<1>1. change[k].targets \subseteq Elements /\ change[k].kind \in AllKinds
  BY DEF Types, ChangeTypes, ChangeRecords
<1> QED
  BY <1>1 DEF Keeps, FinalStays, Finished

LEMMA ConfirmedBy ==
  ASSUME Types, ControlInv, [Next]_vars, NEW j \in Keys, change'[j].state = "confirmed"
  PROVE  change[j].state = "confirmed" \/ Confirm(j)
<1>1. ASSUME NEW k \in Keys, ChangeStep(k) PROVE change[j].state = "confirmed" \/ Confirm(j)
  <2>1. ASSUME NEW kind \in Kinds, NEW r \in Records, Prepare(k, kind, r) PROVE change[j].state = "confirmed"
    BY <2>1, PrepareEffect
  <2>2. CASE FinishDiscard(k)
    BY <2>2, FinishDiscardEffect DEF Rewrites
  <2>3. CASE MarkCommitting(k)
    BY <2>3, SetStateEffect DEF Rewrites, MarkCommitting, ChangeStates
  <2>4. CASE RecordTarget(k)
    BY <2>4, RecordTargetEffect DEF Rewrites
  <2>5. CASE Reconcile(k)
    BY <2>5, SetStateEffect DEF Rewrites, Reconcile, ChangeStates
  <2>6. CASE ClearRelated(k)
    BY <2>6, ClearRelatedEffect DEF Rewrites
  <2>7. CASE Confirm(k)
    BY <2>7, ConfirmEffect DEF Rewrites
  <2>8. CASE UNCHANGED change
    BY <2>8
  <2> QED
    BY <1>1, <2>1, <2>2, <2>3, <2>4, <2>5, <2>6, <2>7, <2>8
       DEF ChangeStep, Discard, Commit, Recommit, ExecuteTarget, Verify, Cleared, Release
<1>2. CASE Writers
  BY <1>2, WriterEffect DEF Writers
<1> QED
  BY <1>1, <1>2, StepCases DEF Idle, Stops, OpenSpace

\* How a task comes to be past the verification.
LEMMA VerifiedBy ==
  ASSUME Types, ControlInv, [Next]_vars, HasTask', task'.at \in {"clear", "confirm", "release"}
  PROVE  \/ task' = task /\ UNCHANGED change /\ UNCHANGED pending
         \/ \E k \in Keys : ClearRelated(k)
         \/ \E k \in Keys : Verify(k) \/ Cleared(k) \/ Confirm(k)
<1>1. ASSUME NEW k \in Keys, ChangeStep(k)
      PROVE  ClearRelated(k) \/ Verify(k) \/ Cleared(k) \/ Confirm(k)
  <2>1. task' # NoTask
    BY DEF HasTask, NoTask
  <2>2. ASSUME NEW kind \in Kinds, NEW r \in Records, Prepare(k, kind, r) PROVE FALSE
    BY <2>1, <2>2 DEF Prepare
  <2>3. CASE Discard(k)
    BY <2>1, <2>3 DEF Discard
  <2>4. CASE FinishDiscard(k) \/ Reconcile(k) \/ Release(k)
    BY <2>1, <2>4 DEF FinishDiscard, Reconcile, Release
  <2>5. CASE Commit(k) \/ MarkCommitting(k) \/ Recommit(k)
    BY <2>5 DEF Commit, MarkCommitting, Recommit
  <2>6. CASE ExecuteTarget(k) \/ RecordTarget(k)
    BY <2>6 DEF ExecuteTarget, RecordTarget
  <2> QED
    BY <1>1, <2>2, <2>3, <2>4, <2>5, <2>6 DEF ChangeStep
<1>2. CASE Writers
  BY <1>2, WriterEffect DEF Writers
<1>3. CASE Idle
  BY <1>3 DEF Idle
<1>4. CASE Stops
  BY <1>4 DEF Stops, HasTask, NoTask
<1>5. CASE OpenSpace
  <2>1. CASE pending = NoKey
    BY <1>5, <2>1 DEF OpenSpace, control
  <2>2. CASE pending # NoKey
    BY <1>5, <2>2 DEF OpenSpace
  <2> QED
    BY <2>1, <2>2
<1> QED
  BY <1>1, <1>2, <1>3, <1>4, <1>5, StepCases

LEMMA DoneInvStep == Types /\ ControlInv /\ OnceInv /\ VersionInv /\ DoneInv /\ [Next]_vars => DoneInv'
<1> SUFFICES ASSUME Types, ControlInv, OnceInv, VersionInv, DoneInv, [Next]_vars PROVE DoneInv'
  OBVIOUS
<1> USE DEF Steps
<1>1. FinalStays
  BY FinalStaysStep
<1>2. ASSUME NEW j \in Keys, change'[j].state = "confirmed", ~Revises(change'[j].kind) PROVE Finished(j)'
  <2>1. ASSUME NEW k \in Keys, NEW kind \in Kinds, NEW r \in Records, Prepare(k, kind, r) PROVE Finished(j)'
    <3>1. change'[j] = change[j] /\ UNCHANGED elem
      BY <1>2, <2>1, PrepareEffect DEF Prepare, graph
    <3> QED
      BY <1>2, <3>1 DEF DoneInv, ConfirmedIsDone, Finished
  <2>2. ASSUME Keeps PROVE Finished(j)'
    <3>1. ~Revises(change[j].kind)
      BY <1>2, <2>2 DEF Keeps
    <3>2. CASE change[j].state = "confirmed"
      BY <1>1, <2>2, <3>1, <3>2, FinishedStays DEF DoneInv, ConfirmedIsDone, Finished
    <3>3. CASE Confirm(j)
      <4>1. task.key = j /\ task.at = "confirm" /\ HasTask
        BY <3>3, AtTask DEF Confirm
      <4>2. Finished(j)
        BY <3>1, <4>1 DEF DoneInv
      <4> QED
        BY <1>1, <2>2, <4>2, FinishedStays
    <3> QED
      BY <1>2, <3>2, <3>3, ConfirmedBy
  <2> QED
    BY <2>1, <2>2, JournalCases
<1>3. ASSUME HasTask', task'.at \in {"clear", "confirm"}, ~Revises(change'[task'.key].kind)
      PROVE  Finished(task.key)'
  <2>1. CASE task' = task /\ UNCHANGED change
    <3>1. Keeps
      BY <2>1 DEF Keeps
    <3>2. task.key \in Keys /\ Finished(task.key)
      BY <1>3, <2>1 DEF DoneInv, HasTask
    <3> QED
      BY <1>1, <2>1, <3>1, <3>2, FinishedStays DEF Finished
  <2>2. ASSUME NEW k \in Keys, ClearRelated(k) PROVE Finished(task.key)'
    <3>1. task.key = k /\ task.at = "clear" /\ HasTask /\ task' = task
      BY <2>2, AtTask DEF ClearRelated
    <3>2. Keeps
      BY <2>2, KeepsPreviews DEF ChangeStep, ClearRelated, Prepare, NoTask
    <3>3. Finished(k)
      BY <1>3, <3>1, <3>2 DEF DoneInv, Keeps
    <3> QED
      BY <1>1, <3>1, <3>2, <3>3, FinishedStays DEF Finished
  <2>3. ASSUME NEW k \in Keys, Verify(k) PROVE Finished(task.key)'
    <3>1. task'.key = k /\ UNCHANGED <<change, elem>> /\ Applied(k)
      BY <2>3 DEF Verify, graph
    <3>2. change[k].kind \in AllKinds
      BY DEF Types, ChangeTypes, ChangeRecords
    <3>3. Finished(k)
      BY <1>3, <3>1, <3>2 DEF Applied, Finished, Revises, Final, AllKinds
    <3> QED
      BY <3>1, <3>3 DEF Finished
  <2>4. ASSUME NEW k \in Keys, Cleared(k) PROVE Finished(task.key)'
    <3>1. task.key = k /\ task.at = "clear" /\ HasTask
      BY <2>4, AtTask DEF Cleared
    <3>2. task'.key = k /\ UNCHANGED <<change, elem>>
      BY <2>4 DEF Cleared, graph
    <3> QED
      BY <1>3, <3>1, <3>2 DEF DoneInv, Finished
  <2>5. ASSUME NEW k \in Keys, Confirm(k) PROVE FALSE
    BY <1>3, <2>5 DEF Confirm
  <2> QED
    BY <1>3, <2>1, <2>2, <2>3, <2>4, <2>5, VerifiedBy
<1> QED
  BY <1>2, <1>3 DEF DoneInv, ConfirmedIsDone, Finished

-----------------------------------------------------------------------------
(* Copies of what was erased.                                              *)

\* The first part of CopyInv.
CopyFenced ==
    \A k \in Keys :
      change[k].state # "absent" /\ change[k].content /\ elem[change[k].rec].state = "purged" =>
        /\ pending \in Keys
        /\ change[pending].kind = "delete"
        /\ change[k].rec \in change[pending].targets

\* A step that purges nothing, keeps the previews and moves no fence keeps it.
LEMMA CopyFencedSame ==
  ASSUME Types, ControlInv, CopyFenced, Keeps, UNCHANGED pending,
         \A d \in Elements : elem'[d].state = "purged" => elem[d].state = "purged"
  PROVE  CopyFenced'
<1> SUFFICES ASSUME NEW k \in Keys, change'[k].state # "absent", change'[k].content,
                    elem'[change'[k].rec].state = "purged"
             PROVE  /\ pending' \in Keys
                    /\ change'[pending'].kind = "delete"
                    /\ change'[k].rec \in change'[pending'].targets
  BY DEF CopyFenced
<1>1. change[k].state # "absent" /\ change[k].content /\ change'[k].rec = change[k].rec
  BY DEF Keeps
<1>2. change[k].rec \in Elements
  BY <1>1 DEF ControlInv, PendingInv, Elements
<1>3. elem[change[k].rec].state = "purged"
  BY <1>1, <1>2
<1>4. pending \in Keys /\ change[pending].kind = "delete" /\ change[k].rec \in change[pending].targets
  BY <1>1, <1>3 DEF CopyFenced
<1> QED
  BY <1>1, <1>4 DEF Keeps

LEMMA CopyFencedStep == Types /\ ControlInv /\ CopyInv /\ [Next]_vars => CopyFenced'
<1> SUFFICES ASSUME Types, ControlInv, CopyInv, [Next]_vars PROVE CopyFenced'
  OBVIOUS
<1> USE DEF Steps
<1>1. CopyFenced
  BY DEF CopyInv, CopyFenced
<1>2. ASSUME NEW k \in Keys, ExecuteTarget(k) PROVE CopyFenced'
  <2>1. pending = k /\ UNCHANGED <<change, pending>>
    BY <1>2, AtTask DEF ExecuteTarget, ControlInv, TaskInv, control
  <2>2. PICK e \in NextTargets(k) :
              /\ e \in Elements
              /\ \A d \in Elements : d # e => elem'[d] = elem[d]
              /\ \/ UNCHANGED elem
                 \/ /\ ~Revises(change[k].kind)
                    /\ elem'[e].state = IF change[k].kind = "delete" THEN "purged" ELSE "archived"
                 \/ elem'[e].state = "superseded"
    BY <1>2, ExecuteTargetEffect
  <2>3. e \in change[k].targets
    BY <2>2 DEF NextTargets
  <2>4. CASE change[k].kind = "delete" /\ elem'[e].state = "purged"
    <3> SUFFICES ASSUME NEW j \in Keys, change'[j].state # "absent", change'[j].content,
                        elem'[change'[j].rec].state = "purged"
                 PROVE  change[j].rec \in change[k].targets
      BY <2>1, <2>4 DEF CopyFenced
    <3>1. change[j].rec \in Elements
      BY <2>1 DEF ControlInv, PendingInv, Elements
    <3>2. CASE change[j].rec = e
      BY <2>3, <3>2
    <3>3. CASE change[j].rec # e
      BY <1>1, <2>1, <2>2, <3>1, <3>3 DEF CopyFenced
    <3> QED
      BY <3>2, <3>3
  <2>5. CASE \A d \in Elements : elem'[d].state = "purged" => elem[d].state = "purged"
    <3>1. Keeps
      BY <2>1 DEF Keeps
    <3> QED
      BY <1>1, <2>1, <2>5, <3>1, CopyFencedSame
  <2> QED
    BY <2>2, <2>4, <2>5
<1>3. CASE Writers
  <2>1. /\ UNCHANGED <<change, pending>>
        /\ \A d \in Elements : elem'[d].state = "purged" => elem[d].state = "purged"
    BY <1>3, WriterEffect DEF Writers
  <2>2. Keeps
    BY <2>1 DEF Keeps
  <2> QED
    BY <1>1, <2>1, <2>2, CopyFencedSame
<1>4. ASSUME NEW k \in Keys, NEW kind \in Kinds, NEW r \in Records, Prepare(k, kind, r) PROVE CopyFenced'
  <2>1. UNCHANGED <<elem, pending>> /\ pending = NoKey /\ elem[r].state # "purged"
    BY <1>4 DEF Prepare, graph, control, Verifiable, Live
  <2>2. change'[k].rec = r /\ \A j \in Keys : j # k => change'[j] = change[j]
    BY <1>4, PrepareEffect
  <2> QED
    BY <1>1, <2>1, <2>2 DEF CopyFenced
<1>5. ASSUME NEW k \in Keys, Commit(k) PROVE CopyFenced'
  <2>1. pending = NoKey /\ UNCHANGED <<change, elem>>
    BY <1>5 DEF Commit, graph
  <2> QED
    BY <1>1, <2>1 DEF CopyFenced
<1>6. ASSUME NEW k \in Keys, Release(k) PROVE CopyFenced'
  <2>1. task.key = k /\ task.at = "release" /\ HasTask /\ pending = k
    BY <1>6, AtTask DEF Release, ControlInv, TaskInv
  <2>2. UNCHANGED <<change, elem>>
    BY <1>6 DEF Release, graph
  <2>3. ASSUME NEW j \in Keys, change[j].state # "absent", change[j].content,
               elem[change[j].rec].state = "purged"
        PROVE  FALSE
    <3>1. change[k].kind = "delete" /\ change[j].rec \in change[k].targets
      BY <1>1, <2>1, <2>3 DEF CopyFenced
    <3>2. Related(k) = {} /\ ~change[k].content
      BY <2>1, <3>1 DEF CopyInv
    <3>3. j # k
      BY <2>3, <3>2
    <3>4. j \in Related(k)
      BY <2>3, <3>1, <3>3 DEF Related
    <3> QED
      BY <3>2, <3>4
  <2> QED
    BY <2>2, <2>3 DEF CopyFenced
<1>7. CASE Keeps /\ UNCHANGED <<elem, pending>>
  BY <1>1, <1>7, CopyFencedSame
<1>8. ASSUME NEW k \in Keys, ChangeStep(k) PROVE CopyFenced'
  <2>1. CASE Keeps
    BY <1>2, <1>5, <1>6, <1>7, <1>8, <1>4, <2>1
       DEF ChangeStep, Discard, FinishDiscard, MarkCommitting, Recommit,
           RecordTarget, Reconcile, Verify, ClearRelated, Cleared, Confirm, graph, control
  <2> QED
    BY <1>4, <1>8, <2>1, KeepsPreviews
<1>9. CASE Idle \/ Stops \/ OpenSpace
  BY <1>7, <1>9 DEF Idle, Stops, OpenSpace, Keeps, graph, control
<1> QED
  BY <1>3, <1>8, <1>9, StepCases

LEMMA CopyInvStep == Types /\ ControlInv /\ CopyInv /\ [Next]_vars => CopyInv'
<1> SUFFICES ASSUME Types, ControlInv, CopyInv, [Next]_vars PROVE CopyInv'
  OBVIOUS
<1> USE DEF Steps
<1>1. CopyFenced'
  BY CopyFencedStep
<1>2. ASSUME HasTask', task'.at \in {"confirm", "release"}, change'[task'.key].kind = "delete"
      PROVE  Related(task.key)' = {} /\ (task'.at = "release" => ~change'[task'.key].content)
  <2>1. CASE task' = task /\ UNCHANGED change
    BY <1>2, <2>1 DEF CopyInv, HasTask, Related
  <2>2. ASSUME NEW k \in Keys, ClearRelated(k) PROVE FALSE
    BY <1>2, <2>2, AtTask DEF ClearRelated
  <2>3. ASSUME NEW k \in Keys, Verify(k) PROVE FALSE
    BY <1>2, <2>3 DEF Verify
  <2>4. ASSUME NEW k \in Keys, Cleared(k)
        PROVE  Related(task.key)' = {} /\ (task'.at = "release" => ~change'[task'.key].content)
    <3>1. task'.key = k /\ task'.at = "confirm" /\ UNCHANGED change /\ Related(k) = {}
      BY <2>4 DEF Cleared
    <3> QED
      BY <3>1 DEF Related
  <2>5. ASSUME NEW k \in Keys, Confirm(k)
        PROVE  Related(task.key)' = {} /\ (task'.at = "release" => ~change'[task'.key].content)
    <3>1. task.key = k /\ task.at = "confirm" /\ HasTask /\ task'.key = k
      BY <2>5, AtTask DEF Confirm
    <3>2. /\ Rewrites(k)
          /\ change'[k].content => change[k].kind # "delete"
      BY <2>5, ConfirmEffect
    <3>3. change[k].kind = "delete"
      BY <1>2, <3>1, <3>2 DEF Rewrites
    <3>4. Related(k) = {}
      BY <3>1, <3>3 DEF CopyInv
    <3>5. Related(k)' = {}
      BY <3>2, <3>4 DEF Related, Rewrites
    <3> QED
      BY <3>1, <3>2, <3>3, <3>5
  <2> QED
    BY <1>2, <2>1, <2>2, <2>3, <2>4, <2>5, VerifiedBy
<1> QED
  BY <1>1, <1>2 DEF CopyInv, CopyFenced

-----------------------------------------------------------------------------
(* The passes.                                                             *)

LEMMA PassTypesStep == Types /\ PassTypes /\ [Next]_vars => PassTypes'
<1> SUFFICES ASSUME Types, PassTypes, [Next]_vars PROVE PassTypes'
  OBVIOUS
<1> USE DEF PassTypes
<1>1. ASSUME NEW p \in Passes, NEW s \in Sources \cup {NoSource}, AdmitPass(p, s) PROVE PassTypes'
  BY <1>1 DEF AdmitPass, Types, ControlTypes
<1>2. ASSUME NEW p \in Passes, EndPass(p) PROVE PassTypes'
  <2>1. Off \in [on : BOOLEAN, epoch : Nat, source : Sources \cup {NoSource}]
    BY DEF Off
  <2> HIDE DEF Off
  <2> QED
    BY <1>2, <2>1 DEF EndPass
<1>3. CASE Crash
  <2>1. Off \in [on : BOOLEAN, epoch : Nat, source : Sources \cup {NoSource}]
    BY DEF Off
  <2> HIDE DEF Off
  <2> QED
    BY <1>3, <2>1 DEF Crash
<1>4. CASE UNCHANGED pass
  BY <1>4
<1>5. ASSUME NEW k \in Keys, ChangeStep(k) PROVE UNCHANGED pass
  BY <1>5 DEF ChangeStep, Prepare, Discard, FinishDiscard, Commit, MarkCommitting, Recommit, ExecuteTarget,
       RecordTarget, Reconcile, Verify, ClearRelated, Cleared, Confirm, Release
<1>6. ASSUME NEW p \in Passes, PassStep(p) PROVE PassTypes'
  BY <1>1, <1>2, <1>4, <1>6 DEF PassStep, Form, Touch
<1> QED
  BY <1>3, <1>4, <1>5, <1>6 DEF Next, HostWrite, SuppressSources, TaskFails, OpenSpace, vars

\* A commit starts a new epoch, so no pass of an earlier one still writes.
LEMMA PassInvStep ==
  ASSUME "forget" \notin Faults, Types, PassTypes, PassInv, [Next]_vars
  PROVE  PassInv'
<1>1. ASSUME NEW k \in Keys, Commit(k) PROVE PassInv'
  <2>1. epoch' = epoch + 1 /\ UNCHANGED <<pass, leaked>> /\ epoch \in Nat
    BY <1>1 DEF Commit, Fence, Types, ControlTypes
  <2> QED
    BY <2>1 DEF PassInv, PassTypes
<1>2. ASSUME NEW p \in Passes, NEW s \in Sources \cup {NoSource}, AdmitPass(p, s) PROVE PassInv'
  <2>1. /\ pass' = [pass EXCEPT ![p] = [on |-> TRUE, epoch |-> epoch, source |-> s]]
        /\ s \notin suppressed /\ UNCHANGED <<epoch, suppressed, leaked>> /\ epoch \in Nat
    BY <1>2 DEF AdmitPass, control, Types, ControlTypes
  <2> QED
    BY <2>1 DEF PassInv, PassTypes
<1>3. ASSUME NEW p \in Passes, EndPass(p) PROVE PassInv'
  <2>1. pass' = [pass EXCEPT ![p] = Off] /\ ~Off.on /\ UNCHANGED <<epoch, suppressed, leaked>>
    BY <1>3 DEF EndPass, control, Off
  <2> HIDE DEF Off
  <2> QED
    BY <2>1 DEF PassInv, PassTypes
<1>4. CASE Crash
  <2>1. pass' = [p \in Passes |-> Off] /\ ~Off.on /\ UNCHANGED <<epoch, suppressed, leaked>>
    BY <1>4 DEF Crash, control, Off
  <2> HIDE DEF Off
  <2> QED
    BY <2>1 DEF PassInv
<1>5. ASSUME NEW p \in Passes, (\E r \in Records : Form(p, r)) \/ (\E e \in Elements : Touch(p, e)) PROVE PassInv'
  <2>1. MayWrite(p) /\ Leak(p) /\ UNCHANGED <<epoch, suppressed, pass>>
    BY <1>5 DEF Form, Touch, control
  <2>2. {pass[p].source} \cap suppressed = {}
    BY <2>1 DEF MayWrite, PassInv
  <2>3. leaked' = {}
    BY <2>1, <2>2 DEF Leak, PassInv
  <2> QED
    BY <2>1, <2>3 DEF PassInv
<1>6. CASE UNCHANGED <<epoch, suppressed, pass, leaked>>
  BY <1>6 DEF PassInv
<1>7. ASSUME NEW k \in Keys, ChangeStep(k) PROVE PassInv'
  BY <1>1, <1>6, <1>7
     DEF ChangeStep, Prepare, Discard, FinishDiscard, MarkCommitting, Recommit, ExecuteTarget,
         RecordTarget, Reconcile, Verify, ClearRelated, Cleared, Confirm, Release, control
<1>8. ASSUME NEW p \in Passes, PassStep(p) PROVE PassInv'
  BY <1>2, <1>3, <1>5, <1>8 DEF PassStep
<1> QED
  BY <1>4, <1>6, <1>7, <1>8 DEF Next, HostWrite, SuppressSources, TaskFails, OpenSpace, vars, control

-----------------------------------------------------------------------------
(* The theorems.                                                           *)

ChangeInv == Types /\ ControlInv /\ OnceInv /\ VersionInv /\ DoneInv /\ CopyInv

LEMMA ChangeInvInit == Init => ChangeInv
<1> SUFFICES ASSUME Init PROVE ChangeInv
  OBVIOUS
<1>1. NoChange \in ChangeRecords /\ NoChange.state = "absent"
  <2>1. [e \in Elements |-> 0] \in [Elements -> Nat]
    OBVIOUS
  <2> QED
    BY <2>1 DEF NoChange, ChangeRecords, ChangeStates, AllKinds
<1>2. change \in [Keys -> ChangeRecords] /\ \A k \in Keys : change[k].state = "absent"
  BY <1>1 DEF Init
<1>3. Types
  BY <1>2 DEF Init, Types, ChangeTypes, ElemTypes, ControlTypes, TaskTypes, States, Steps, NoTask
<1>4. ControlInv
  BY <1>2 DEF Init, ControlInv, TaskInv, PendingInv, FenceIsHeld, HasTask, NoTask
<1>5. OnceInv /\ VersionInv
  BY <1>2 DEF Init, OnceInv, VersionInv
<1>6. ~HasTask
  BY DEF Init, HasTask, NoTask
<1>7. DoneInv /\ CopyInv
  BY <1>2, <1>6 DEF DoneInv, ConfirmedIsDone, CopyInv
<1> QED
  BY <1>3, <1>4, <1>5, <1>7 DEF ChangeInv

LEMMA ChangeInvStep == ChangeInv /\ [Next]_vars => ChangeInv'
  BY TypesStep, ControlInvStep, OnceInvStep, VersionInvStep, DoneInvStep, CopyInvStep DEF ChangeInv

LEMMA ChangeInvHolds == Spec => []ChangeInv
  BY ChangeInvInit, ChangeInvStep, PTL DEF Spec

\* The fence belongs to the change that is being applied, over every crash, failed
\* write and refused request, for any number of changes (product_commit,
\* apply_change_locked).
THEOREM FenceHolds == Spec => []FenceIsHeld
<1>1. ChangeInv => FenceIsHeld
  BY DEF ChangeInv, ControlInv
<1> QED
  BY <1>1, ChangeInvHolds, PTL

\* What a confirmed deletion or suppression named stays erased or inactive
\* (apply_change_locked), for every citation graph.
THEOREM ConfirmedChangesAreDone == Spec => []ConfirmedIsDone
<1>1. ChangeInv => ConfirmedIsDone
  BY DEF ChangeInv, DoneInv
<1> QED
  BY <1>1, ChangeInvHolds, PTL

\* No retry, recovery or repeated commit writes a correction a second time (the
\* idempotency key that apply_change_locked gives the native request).
THEOREM CorrectionsApplyOnce == Spec => []CorrectedOnce
<1>1. ChangeInv => CorrectedOnce
  <2> SUFFICES ASSUME ChangeInv, NEW k \in Keys PROVE replaced[k] <= 1
    BY DEF CorrectedOnce
  <2>1. replaced[k] = 0 \/ replaced[k] = 1
    BY DEF ChangeInv, OnceInv
  <2> QED
    BY <2>1
<1> QED
  BY <1>1, ChangeInvHolds, PTL

\* Once the fence is down no change keeps a copy of an erased record
\* (clear_related_change_content before the confirmation).
THEOREM ErasedIsNotCopied == Spec => []NoCopyOfErased
<1>1. ChangeInv => NoCopyOfErased
  BY DEF ChangeInv, CopyInv, NoCopyOfErased
<1> QED
  BY <1>1, ChangeInvHolds, PTL

\* An element is removed only by the pending change that previewed it, at the version
\* its preview showed (EXPECT VERSION of change_requests).
THEOREM OnlyThePreviewedIsRemoved == Spec => RemovesOnlyThePreviewed
<1> DEFINE Previewed ==
      \A e \in Elements :
        elem[e].state \notin {"purged", "archived"} /\ elem'[e].state \in {"purged", "archived"} =>
          \E k \in Keys : /\ pending = k
                          /\ e \in change[k].targets
                          /\ elem[e].version = change[k].version[e]
<1>1. ASSUME ChangeInv, [Next]_vars PROVE Previewed
  <2> SUFFICES ASSUME NEW e \in Elements,
                      elem[e].state \notin {"purged", "archived"}, elem'[e].state \in {"purged", "archived"}
               PROVE  \E k \in Keys : /\ pending = k
                                      /\ e \in change[k].targets
                                      /\ elem[e].version = change[k].version[e]
    OBVIOUS
  <2>1. Types /\ ControlInv /\ OnceInv
    BY <1>1 DEF ChangeInv
  <2>2. ASSUME Writers PROVE FALSE
    BY <2>1, <2>2, WriterEffect DEF Writers
  <2>3. PICK k \in Keys : ExecuteTarget(k)
    BY <1>1, <2>1, <2>2, GraphCases
  <2>4. pending = k
    BY <2>1, <2>3, AtTask DEF ExecuteTarget, ControlInv, TaskInv, Steps
  <2>5. PICK d \in NextTargets(k) :
              /\ \A x \in Elements : x # d => elem'[x] = elem[x]
              /\ \/ UNCHANGED elem
                 \/ ~Revises(change[k].kind) /\ Accepts(k, d)
                 \/ elem'[d].state = "superseded"
    BY <2>1, <2>3, ExecuteTargetEffect
  <2>6. d = e /\ ~Revises(change[k].kind) /\ Accepts(k, e)
    BY <2>5
  <2>7. k \notin committed
    BY <2>1, <2>6 DEF OnceInv
  <2>8. elem[e].version = change[k].version[e]
    BY <2>6, <2>7 DEF Accepts, Revises
  <2>9. e \in change[k].targets
    BY <2>5, <2>6 DEF NextTargets
  <2> QED
    BY <2>4, <2>8, <2>9
<1>2. [][Previewed]_vars <=> RemovesOnlyThePreviewed
  BY DEF RemovesOnlyThePreviewed
<1> QED
  BY <1>1, <1>2, ChangeInvHolds, PTL DEF Spec

\* Where every exclusion is a managed change's, no pass writes from an excluded
\* source: not even one admitted before the commit (Control::check).
THEOREM ExcludedSourcesNeverForm ==
  ASSUME "forget" \notin Faults
  PROVE  Spec => []ExcludedNeverForms
<1>1. Init => Types /\ PassTypes /\ PassInv
  <2> SUFFICES ASSUME Init PROVE PassTypes /\ PassInv
    BY ChangeInvInit DEF ChangeInv
  <2>1. Off \in [on : BOOLEAN, epoch : Nat, source : Sources \cup {NoSource}] /\ ~Off.on
    BY DEF Off
  <2> HIDE DEF Off
  <2> QED
    BY <2>1 DEF Init, PassTypes, PassInv
<1>2. Types /\ PassTypes /\ PassInv /\ [Next]_vars => (Types /\ PassTypes /\ PassInv)'
  BY TypesStep, PassTypesStep, PassInvStep
<1>3. PassInv => ExcludedNeverForms
  BY DEF PassInv, ExcludedNeverForms
<1> QED
  BY <1>1, <1>2, <1>3, PTL DEF Spec

=============================================================================
