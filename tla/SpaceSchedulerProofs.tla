------------------------ MODULE SpaceSchedulerProofs ------------------------
(***************************************************************************)
(* Proofs about SpaceScheduler: type correctness, the single-writer        *)
(* guarantee of the ProcessingGate, and that the gate implements the lease *)
(* of the graph (GraphLease), for any number of tasks, conversations and   *)
(* failed rounds, any cadence, and every combination of faults.  On top of *)
(* the gate invariant: no exit path leaks the gate, the cadence never      *)
(* rewinds, a pass that a graceful close cuts short is not replayed, and,  *)
(* unless an operator jumps over conversations, the queue is formed in     *)
(* order and the watermark skips nothing.                                  *)
(***************************************************************************)
EXTENDS SpaceScheduler, WellFoundedInduction, TLAPS

\* A non-empty set of naturals has a least element.
LEMMA LeastNatural ==
    ASSUME NEW S \in SUBSET Nat, S # {}
    PROVE  \E m \in S : \A n \in S : m <= n
<1>1. PICK m \in S : \A n \in S : ~ (<<n, m>> \in OpToRel(<, Nat))
  BY WFMin, NatLessThanWellFounded
<1>2. \A n \in S : ~ (n < m)
  BY <1>1 DEF OpToRel
<1> QED
  BY <1>2

\* What the queue scan returns: 0, or the least pending conversation above `after`.
LEMMA FindNextSubmittedIsLeast ==
    ASSUME NEW after \in Nat
    PROVE  LET next == FindNextSubmitted(after)
           IN  /\ next \in Ids0
               /\ next # 0 => next > after /\ status[next] \in Pending
               /\ \A c \in Ids : c > after /\ status[c] \in Pending => next # 0 /\ next <= c
<1> DEFINE found == {c \in Ids : c > after /\ status[c] \in Pending}
<1>1. found \in SUBSET Nat
  BY MaxConvAssumption DEF Ids
<1>2. CASE found = {}
  BY <1>2, MaxConvAssumption DEF FindNextSubmitted, Ids, Ids0
<1>3. CASE found # {}
  <2>1. \E m \in found : \A d \in found : m <= d
    BY <1>1, <1>3, LeastNatural
  <2>2. /\ FindNextSubmitted(after) \in found
        /\ \A d \in found : FindNextSubmitted(after) <= d
    BY <1>3, <2>1 DEF FindNextSubmitted
  <2> QED
    BY <2>2, MaxConvAssumption DEF Ids, Ids0
<1> QED
  BY <1>2, <1>3

\* The flags of the gate and of the cadence: Boolean-valued, so kept apart from
\* the other types, which the arithmetic solver takes.
FlagTypes == maint \in BOOLEAN /\ slept \in BOOLEAN

\* The types of every other variable.
OtherTypes ==
    /\ status \in [Ids -> Statuses]
    /\ rounds \in [Ids -> 0..MaxRounds]
    /\ processed \in Ids0
    /\ doneAt \in [Scopes -> Ids0]
    /\ slot \in Ids0
    /\ phase \in {"closed", "open", "capturing", "cancelling", "closing", "draining"}
    /\ captured \subseteq Ids
    /\ pc \in [Tasks -> Pcs]
    /\ cur \in [Tasks -> Ids0]
    /\ mark \in [Tasks -> Ids0]
    /\ attempt \in [Tasks -> {1, 2}]
    /\ scope \in [Tasks -> Scopes]
    /\ cut \subseteq Ids

\* No action makes a flag anything but TRUE or FALSE.
LEMMA FlagStep == FlagTypes /\ [Next]_vars => FlagTypes'
<1> SUFFICES ASSUME FlagTypes, [Next]_vars
             PROVE  FlagTypes'
  OBVIOUS
<1> USE DEF FlagTypes, durable, gate, lifecycle, locals
<1>1. ASSUME NEW t \in Tasks, AddConversation(t) PROVE FlagTypes'
  BY <1>1, Zenon DEF AddConversation
<1>2. ASSUME NEW t \in Tasks, OperatorRestart(t) PROVE FlagTypes'
  BY <1>2, Zenon DEF OperatorRestart
<1>3. ASSUME NEW t \in Tasks, RequestMaintenance(t) PROVE FlagTypes'
  BY <1>3, Zenon DEF RequestMaintenance
<1>4. ASSUME NEW t \in Tasks, ClockMaintenance(t) PROVE FlagTypes'
  BY <1>4, Zenon DEF ClockMaintenance
<1>5. ASSUME NEW t \in Tasks, OpenSpace(t) PROVE FlagTypes'
  BY <1>5, Zenon DEF OpenSpace
<1>6. ASSUME NEW t \in Tasks, Resume(t) PROVE FlagTypes'
  BY <1>6, Zenon DEF Resume
<1>7. ASSUME NEW t \in Tasks, LoadSlot(t) PROVE FlagTypes'
  BY <1>7, Zenon DEF LoadSlot
<1>8. ASSUME NEW t \in Tasks, LoadMaintenance(t) PROVE FlagTypes'
  BY <1>8, Zenon DEF LoadMaintenance
<1>9. ASSUME NEW t \in Tasks, LoadProcessed(t) PROVE FlagTypes'
  BY <1>9, Zenon DEF LoadProcessed
<1>10. ASSUME NEW t \in Tasks, Find(t) PROVE FlagTypes'
  BY <1>10, Zenon DEF Find
<1>11. ASSUME NEW t \in Tasks, TryProcess(t) PROVE FlagTypes'
  BY <1>11, Zenon DEF TryProcess
<1>12. ASSUME NEW t \in Tasks, Spawn(t) PROVE FlagTypes'
  BY <1>12, Zenon DEF Spawn
<1>13. ASSUME NEW t \in Tasks, PersistTurn(t) PROVE FlagTypes'
  BY <1>13, Zenon DEF PersistTurn
<1>14. ASSUME NEW t \in Tasks, EndPass(t) PROVE FlagTypes'
  BY <1>14, Zenon DEF EndPass
<1>15. ASSUME NEW t \in Tasks, RetryPass(t) PROVE FlagTypes'
  BY <1>15, Zenon DEF RetryPass
<1>16. ASSUME NEW t \in Tasks, RecordFailedRound(t) PROVE FlagTypes'
  BY <1>16, Zenon DEF RecordFailedRound
<1>17. ASSUME NEW t \in Tasks, SettlePass(t) PROVE FlagTypes'
  BY <1>17, Zenon DEF SettlePass
<1>18. ASSUME NEW t \in Tasks, Schedule(t) PROVE FlagTypes'
  BY <1>18, Zenon DEF Schedule
<1>19. ASSUME NEW t \in Tasks, HandOff(t) PROVE FlagTypes'
  BY <1>19, Zenon DEF HandOff
<1>20. ASSUME NEW t \in Tasks, HandOffFails(t) PROVE FlagTypes'
  BY <1>20, Zenon DEF HandOffFails
<1>21. ASSUME NEW t \in Tasks, NextConversation(t) PROVE FlagTypes'
  BY <1>21, Zenon DEF NextConversation
<1>22. ASSUME NEW t \in Tasks, Release(t) PROVE FlagTypes'
  BY <1>22, Zenon DEF Release
<1>23. ASSUME NEW t \in Tasks, Recheck(t) PROVE FlagTypes'
  BY <1>23, Zenon DEF Recheck
<1>24. ASSUME NEW t \in Tasks, Claim(t) PROVE FlagTypes'
  BY <1>24, Zenon DEF Claim
<1>25. ASSUME NEW t \in Tasks, ClaimMaintenance(t) PROVE FlagTypes'
  BY <1>25, Zenon DEF ClaimMaintenance
<1>26. ASSUME NEW t \in Tasks, StartSleep(t) PROVE FlagTypes'
  BY <1>26, Zenon DEF StartSleep
<1>27. ASSUME NEW t \in Tasks, AbortMaintenance(t) PROVE FlagTypes'
  BY <1>27, Zenon DEF AbortMaintenance
<1>28. ASSUME NEW t \in Tasks, EndSleep(t) PROVE FlagTypes'
  BY <1>28, Zenon DEF EndSleep
<1>29. ASSUME NEW t \in Tasks, Wake(t) PROVE FlagTypes'
  BY <1>29, Zenon DEF Wake
<1>30. ASSUME NEW t \in Tasks, DropTask(t) PROVE FlagTypes'
  BY <1>30, Zenon DEF DropTask
<1>31. CASE BeginClose \/ CaptureAgain
  BY <1>31, Zenon DEF BeginClose, CaptureAgain
<1>32. CASE CancelTasks
  BY <1>32, Zenon DEF CancelTasks
<1>33. CASE CancelEngine
  BY <1>33, Zenon DEF CancelEngine
<1>34. CASE Reconcile
  BY <1>34, Zenon DEF Reconcile
<1>35. CASE Crash
  BY <1>35, Zenon DEF Crash
<1>36. CASE UNCHANGED vars
  BY <1>36, Zenon DEF vars
<1> QED
  BY <1>1, <1>2, <1>3, <1>4, <1>5, <1>6, <1>7, <1>8, <1>9, <1>10, <1>11, <1>12, <1>13, <1>14, <1>15,
     <1>16, <1>17, <1>18, <1>19, <1>20, <1>21, <1>22, <1>23, <1>24, <1>25, <1>26, <1>27, <1>28, <1>29,
     <1>30, <1>31, <1>32, <1>33, <1>34, <1>35, <1>36
  DEF Next, Step, Arrive

\* A task that works on a conversation has one: its `cur` is not the 0 of an idle task.
HasConversation ==
    \A t \in Tasks : pc[t] \in {"mark", "try"} \cup OwnerPcs \cup LeavingPcs => cur[t] # 0

\* Every step keeps the other variables in their types: one step per action.
LEMMA OtherStep == OtherTypes /\ HasConversation /\ [Next]_vars => OtherTypes'
<1> SUFFICES ASSUME OtherTypes, HasConversation, [Next]_vars
             PROVE  OtherTypes'
  OBVIOUS
<1> USE MaxConvAssumption DEF OtherTypes, Ids, Ids0, Pcs, StartPcs, OwnerPcs, LeavingPcs, MaintPcs, durable, gate, lifecycle, locals
<1>1. ASSUME NEW t \in Tasks, AddConversation(t) PROVE OtherTypes'
  BY <1>1 DEF AddConversation, Goto, Statuses
<1>2. ASSUME NEW t \in Tasks, OperatorRestart(t) PROVE OtherTypes'
  BY <1>2, SMTT(30) DEF OperatorRestart, Goto
<1>3. ASSUME NEW t \in Tasks, RequestMaintenance(t) PROVE OtherTypes'
  BY <1>3, AskedScopesAssumption DEF RequestMaintenance, Goto
<1>4. ASSUME NEW t \in Tasks, ClockMaintenance(t) PROVE OtherTypes'
  BY <1>4 DEF ClockMaintenance, Goto, Scopes
<1>5. ASSUME NEW t \in Tasks, OpenSpace(t) PROVE OtherTypes'
  BY <1>5 DEF OpenSpace, Goto
<1>6. ASSUME NEW t \in Tasks, Resume(t) PROVE OtherTypes'
  BY <1>6 DEF Resume, Goto
<1>7. ASSUME NEW t \in Tasks, LoadSlot(t) PROVE OtherTypes'
  <2>1. CASE Finish(t)
    BY <1>7, <2>1, SMTT(30) DEF LoadSlot, Finish, Goto, Scopes
  <2>2. CASE Goto(t, "maint")
    BY <1>7, <2>2 DEF LoadSlot, Goto, Finish, Scopes
  <2> QED
    BY <1>7, <2>1, <2>2 DEF LoadSlot
<1>8. ASSUME NEW t \in Tasks, LoadMaintenance(t) PROVE OtherTypes'
  <2>1. UNCHANGED <<durable, gate, lifecycle>>
    BY <1>8 DEF LoadMaintenance
  <2>2. \/ Finish(t)
        \/ UNCHANGED locals /\ Goto(t, IF cur[t] = 0 THEN "find" ELSE "mark")
    BY <1>8, Zenon DEF LoadMaintenance
  <2>3. CASE Finish(t)
    BY <2>1, <2>3 DEF Finish, Scopes
  <2>4. CASE UNCHANGED locals /\ Goto(t, IF cur[t] = 0 THEN "find" ELSE "mark")
    BY <2>1, <2>4 DEF Goto
  <2> QED
    BY <2>2, <2>3, <2>4
<1>9. ASSUME NEW t \in Tasks, LoadProcessed(t) PROVE OtherTypes'
  BY <1>9 DEF LoadProcessed, Goto
<1>10. ASSUME NEW t \in Tasks, Find(t) PROVE OtherTypes'
  <2>1. FindNextSubmitted(mark[t]) \in Ids0
    BY FindNextSubmittedIsLeast
  <2>2. CASE Finish(t)
    BY <1>10, <2>2, <2>1, SMTT(30) DEF Find, Finish, Goto, Scopes
  <2>3. CASE Goto(t, "try")
    BY <1>10, <2>3, <2>1, SMTT(30) DEF Find, Goto, Finish, Scopes
  <2> QED
    BY <1>10, <2>2, <2>3 DEF Find
<1>11. ASSUME NEW t \in Tasks, TryProcess(t) PROVE OtherTypes'
  <2>1. UNCHANGED <<durable, lifecycle>>
    BY <1>11 DEF TryProcess
  <2>2. \/ Finish(t) /\ UNCHANGED gate
        \/ slot' = cur[t] /\ Goto(t, "spawn") /\ mark' = [mark EXCEPT ![t] = 0] /\ UNCHANGED <<cur, attempt, scope>>
    BY <1>11, Zenon DEF TryProcess
  <2>3. CASE Finish(t) /\ UNCHANGED gate
    BY <2>1, <2>3, SMTT(30) DEF Finish, Scopes
  <2>4. CASE slot' = cur[t] /\ Goto(t, "spawn") /\ mark' = [mark EXCEPT ![t] = 0] /\ UNCHANGED <<cur, attempt, scope>>
    BY <2>1, <2>4 DEF Goto
  <2> QED
    BY <2>2, <2>3, <2>4
<1>12. ASSUME NEW t \in Tasks, Spawn(t) PROVE OtherTypes'
  <2>1. CASE Finish(t)
    BY <1>12, <2>1, SMTT(30) DEF Spawn, Finish, Goto, Scopes
  <2>2. CASE Goto(t, "process")
    BY <1>12, <2>2 DEF Spawn, Goto, Finish, Scopes
  <2> QED
    BY <1>12, <2>1, <2>2 DEF Spawn
<1>13. ASSUME NEW t \in Tasks, PersistTurn(t) PROVE OtherTypes'
  BY <1>13 DEF PersistTurn, Statuses
<1>14. ASSUME NEW t \in Tasks, EndPass(t) PROVE OtherTypes'
  <2>1. PICK o \in Outcomes : status' = [status EXCEPT ![cur[t]] = o]
    BY <1>14 DEF EndPass
  <2>2. o \in Statuses
    BY OutcomesAssumption
  <2>3. pc' \in [Tasks -> Pcs]
    BY <1>14 DEF EndPass, Goto
  <2> QED
    BY <1>14, <2>1, <2>2, <2>3 DEF EndPass
<1>15. ASSUME NEW t \in Tasks, RetryPass(t) PROVE OtherTypes'
  BY <1>15 DEF RetryPass, Goto
<1>16. ASSUME NEW t \in Tasks, RecordFailedRound(t) PROVE OtherTypes'
  <2>1. status' \in [Ids -> Statuses]
    BY <1>16 DEF RecordFailedRound, Statuses
  <2>2. rounds' \in [Ids -> 0..MaxRounds]
    <3> DEFINE n == IF rounds[cur[t]] = MaxRounds THEN MaxRounds ELSE rounds[cur[t]] + 1
    <3>1. rounds' = [rounds EXCEPT ![cur[t]] = n]
      BY <1>16 DEF RecordFailedRound
    <3>2. cur[t] \in Ids => n \in 0..MaxRounds
      BY MaxRoundsAssumption
    <3> QED
      BY <3>1, <3>2
  <2> QED
    BY <1>16, <2>1, <2>2 DEF RecordFailedRound, Goto
<1>17. ASSUME NEW t \in Tasks, SettlePass(t) PROVE OtherTypes'
  <2>1. UNCHANGED <<status, rounds, doneAt, slept, lifecycle>>
    BY <1>17 DEF SettlePass
  <2>2. \/ processed' = MaxOf(processed, cur[t]) /\ Goto(t, "schedule") /\ UNCHANGED <<slot, locals>>
        \/ slot' = 0 /\ Finish(t) /\ UNCHANGED processed
    BY <1>17, Zenon DEF SettlePass
  <2>3. CASE processed' = MaxOf(processed, cur[t]) /\ Goto(t, "schedule") /\ UNCHANGED <<slot, locals>>
    BY <2>1, <2>3 DEF MaxOf, Goto
  <2>4. CASE slot' = 0 /\ Finish(t) /\ UNCHANGED processed
    BY <2>1, <2>4 DEF Finish, Scopes
  <2> QED
    BY <2>2, <2>3, <2>4
<1>18. ASSUME NEW t \in Tasks, Schedule(t) PROVE OtherTypes'
  <2>1. CASE Goto(t, "handoff")
    BY <1>18, <2>1 DEF Schedule, DueScopes, Scopes, Goto, Finish, Scopes
  <2>2. CASE Goto(t, "next")
    BY <1>18, <2>2 DEF Schedule, DueScopes, Scopes, Goto, Finish, Scopes
  <2> QED
    BY <1>18, <2>1, <2>2 DEF Schedule
<1>19. ASSUME NEW t \in Tasks, HandOff(t) PROVE OtherTypes'
  BY <1>19 DEF HandOff, Goto
<1>20. ASSUME NEW t \in Tasks, HandOffFails(t) PROVE OtherTypes'
  BY <1>20 DEF HandOffFails, Goto, Scopes
<1>21. ASSUME NEW t \in Tasks, NextConversation(t) PROVE OtherTypes'
  <2> DEFINE next == FindNextSubmitted(cur[t])
  <2>1. next \in Ids0
    BY FindNextSubmittedIsLeast
  <2>2. UNCHANGED <<durable, lifecycle>>
    BY <1>21 DEF NextConversation
  <2>3. CASE Finish(t) /\ slot' \in {0, slot}
    BY <2>2, <2>3, SMTT(30) DEF Finish, Scopes
  <2>4. CASE /\ slot' = next /\ Goto(t, "process")
             /\ cur' = [cur EXCEPT ![t] = next]
             /\ attempt' = [attempt EXCEPT ![t] = 1]
             /\ UNCHANGED <<mark, scope>>
    BY <2>1, <2>2, <2>4 DEF Goto
  <2>5. CASE Goto(t, "release") /\ UNCHANGED <<slot, locals>>
    BY <2>2, <2>5 DEF Goto
  <2> QED
    BY <1>21, <2>3, <2>4, <2>5 DEF NextConversation
<1>22. ASSUME NEW t \in Tasks, Release(t) PROVE OtherTypes'
  BY <1>22 DEF Release, Goto
<1>23. ASSUME NEW t \in Tasks, Recheck(t) PROVE OtherTypes'
  <2>1. FindNextSubmitted(cur[t]) \in Ids0
    BY FindNextSubmittedIsLeast
  <2>2. CASE Finish(t)
    BY <1>23, <2>2, <2>1 DEF Recheck, Finish, Goto, Scopes
  <2>3. CASE Goto(t, "claim")
    BY <1>23, <2>3, <2>1 DEF Recheck, Goto, Finish, Scopes
  <2> QED
    BY <1>23, <2>2, <2>3 DEF Recheck
<1>24. ASSUME NEW t \in Tasks, Claim(t) PROVE OtherTypes'
  <2>1. UNCHANGED <<durable, lifecycle>>
    BY <1>24 DEF Claim
  <2>2. \/ Finish(t) /\ UNCHANGED slot
        \/ slot' = cur[t] /\ Goto(t, "process") /\ attempt' = [attempt EXCEPT ![t] = 1] /\ UNCHANGED <<cur, mark, scope>>
    BY <1>24, Zenon DEF Claim
  <2>3. CASE Finish(t) /\ UNCHANGED slot
    BY <2>1, <2>3 DEF Finish, Scopes
  <2>4. CASE slot' = cur[t] /\ Goto(t, "process") /\ attempt' = [attempt EXCEPT ![t] = 1] /\ UNCHANGED <<cur, mark, scope>>
    BY <2>1, <2>4 DEF Goto
  <2> QED
    BY <2>2, <2>3, <2>4
<1>25. ASSUME NEW t \in Tasks, ClaimMaintenance(t) PROVE OtherTypes'
  <2>1. CASE Finish(t)
    BY <1>25, <2>1 DEF ClaimMaintenance, Finish, Goto, Scopes
  <2>2. CASE Goto(t, "metabolize")
    BY <1>25, <2>2, ZenonT(30) DEF ClaimMaintenance, Goto, Finish, Scopes
  <2> QED
    BY <1>25, <2>1, <2>2 DEF ClaimMaintenance
<1>26. ASSUME NEW t \in Tasks, StartSleep(t) PROVE OtherTypes'
  <2>1. CASE Finish(t)
    BY <1>26, <2>1, SMTT(30) DEF StartSleep, Finish, Goto, Scopes
  <2>2. CASE Goto(t, "sleep")
    BY <1>26, <2>2 DEF StartSleep, Goto, Finish, Scopes
  <2> QED
    BY <1>26, <2>1, <2>2 DEF StartSleep
<1>27. ASSUME NEW t \in Tasks, AbortMaintenance(t) PROVE OtherTypes'
  BY <1>27 DEF AbortMaintenance, Finish, Scopes
<1>28. ASSUME NEW t \in Tasks, EndSleep(t) PROVE OtherTypes'
  BY <1>28 DEF EndSleep, Goto
<1>29. ASSUME NEW t \in Tasks, Wake(t) PROVE OtherTypes'
  BY <1>29 DEF Wake, Scopes
<1>30. ASSUME NEW t \in Tasks, DropTask(t) PROVE OtherTypes'
  <2>1. slot' \in Ids0
    BY <1>30 DEF DropTask
  <2>2. captured' \subseteq Ids
    BY <1>30 DEF DropTask, Capture
  <2>3. cut' \subseteq Ids
    <3>1. CASE pc[t] = "process"
      <4>1. cur[t] \in Ids
        BY <3>1 DEF HasConversation
      <4> QED
        BY <1>30, <3>1, <4>1 DEF DropTask
    <3>2. CASE pc[t] # "process"
      BY <1>30, <3>2 DEF DropTask
    <3> QED
      BY <3>1, <3>2
  <2>4. UNCHANGED <<durable, phase>> /\ Finish(t)
    BY <1>30 DEF DropTask
  <2> QED
    BY <2>1, <2>2, <2>3, <2>4, SMTT(30) DEF Finish, Scopes
<1>31. CASE BeginClose \/ CaptureAgain
  <2>1. CASE BeginClose
    BY <2>1 DEF BeginClose, Capture
  <2>2. CASE CaptureAgain
    BY <2>2 DEF CaptureAgain, Capture
  <2> QED
    BY <1>31, <2>1, <2>2
<1>32. CASE CancelTasks
  <2>1. {cur[t] : t \in {u \in Tasks : pc[u] = "process"}} \subseteq Ids
    BY DEF HasConversation, OwnerPcs, Ids, Ids0
  <2> QED
    BY <1>32, <2>1 DEF CancelTasks
<1>33. CASE CancelEngine
  BY <1>33 DEF CancelEngine
<1>34. CASE Reconcile
  BY <1>34 DEF Reconcile, Statuses
<1>35. CASE Crash
  BY <1>35 DEF Crash, Scopes
<1>36. CASE UNCHANGED vars
  BY <1>36 DEF vars
<1> QED
  BY <1>1, <1>2, <1>3, <1>4, <1>5, <1>6, <1>7, <1>8, <1>9, <1>10, <1>11, <1>12, <1>13, <1>14, <1>15,
     <1>16, <1>17, <1>18, <1>19, <1>20, <1>21, <1>22, <1>23, <1>24, <1>25, <1>26, <1>27, <1>28, <1>29,
     <1>30, <1>31, <1>32, <1>33, <1>34, <1>35, <1>36
  DEF Next, Step, Arrive

\* It is set before a task gets that far, and cleared only when it finishes.
LEMMA HasConversationStep == OtherTypes /\ HasConversation /\ [Next]_vars => HasConversation'
<1> SUFFICES ASSUME OtherTypes, HasConversation, [Next]_vars
             PROVE  HasConversation'
  OBVIOUS
<1> USE DEF HasConversation, OtherTypes, OwnerPcs, LeavingPcs, MaintPcs, durable, gate, lifecycle, locals
<1>1. ASSUME NEW t \in Tasks, AddConversation(t) PROVE HasConversation'
  BY <1>1 DEF AddConversation, Goto, Ids
<1>2. ASSUME NEW t \in Tasks, OperatorRestart(t) PROVE HasConversation'
  BY <1>2 DEF OperatorRestart, Goto, Finish
<1>3. ASSUME NEW t \in Tasks, RequestMaintenance(t) PROVE HasConversation'
  BY <1>3 DEF RequestMaintenance, Goto, Finish
<1>4. ASSUME NEW t \in Tasks, ClockMaintenance(t) PROVE HasConversation'
  BY <1>4 DEF ClockMaintenance, Goto, Finish
<1>5. ASSUME NEW t \in Tasks, OpenSpace(t) PROVE HasConversation'
  BY <1>5 DEF OpenSpace, Goto, Finish
<1>6. ASSUME NEW t \in Tasks, Resume(t) PROVE HasConversation'
  BY <1>6 DEF Resume, Goto, Finish
<1>7. ASSUME NEW t \in Tasks, LoadSlot(t) PROVE HasConversation'
  BY <1>7 DEF LoadSlot, Goto, Finish
<1>8. ASSUME NEW t \in Tasks, LoadMaintenance(t) PROVE HasConversation'
  BY <1>8 DEF LoadMaintenance, Goto, Finish
<1>9. ASSUME NEW t \in Tasks, LoadProcessed(t) PROVE HasConversation'
  BY <1>9 DEF LoadProcessed, Goto, Finish
<1>10. ASSUME NEW t \in Tasks, Find(t) PROVE HasConversation'
  BY <1>10 DEF Find, Goto, Finish
<1>11. ASSUME NEW t \in Tasks, TryProcess(t) PROVE HasConversation'
  BY <1>11 DEF TryProcess, Goto, Finish
<1>12. ASSUME NEW t \in Tasks, Spawn(t) PROVE HasConversation'
  BY <1>12 DEF Spawn, Goto, Finish
<1>13. ASSUME NEW t \in Tasks, PersistTurn(t) PROVE HasConversation'
  BY <1>13 DEF PersistTurn, Goto, Finish
<1>14. ASSUME NEW t \in Tasks, EndPass(t) PROVE HasConversation'
  BY <1>14 DEF EndPass, Goto, Finish
<1>15. ASSUME NEW t \in Tasks, RetryPass(t) PROVE HasConversation'
  BY <1>15 DEF RetryPass, Goto, Finish
<1>16. ASSUME NEW t \in Tasks, RecordFailedRound(t) PROVE HasConversation'
  BY <1>16 DEF RecordFailedRound, Goto, Finish
<1>17. ASSUME NEW t \in Tasks, SettlePass(t) PROVE HasConversation'
  BY <1>17 DEF SettlePass, Goto, Finish
<1>18. ASSUME NEW t \in Tasks, Schedule(t) PROVE HasConversation'
  BY <1>18 DEF Schedule, Goto, Finish
<1>19. ASSUME NEW t \in Tasks, HandOff(t) PROVE HasConversation'
  BY <1>19 DEF HandOff, Goto, Finish
<1>20. ASSUME NEW t \in Tasks, HandOffFails(t) PROVE HasConversation'
  BY <1>20 DEF HandOffFails, Goto, Finish
<1>21. ASSUME NEW t \in Tasks, NextConversation(t) PROVE HasConversation'
  BY <1>21 DEF NextConversation, Goto, Finish
<1>22. ASSUME NEW t \in Tasks, Release(t) PROVE HasConversation'
  BY <1>22 DEF Release, Goto, Finish
<1>23. ASSUME NEW t \in Tasks, Recheck(t) PROVE HasConversation'
  BY <1>23 DEF Recheck, Goto, Finish
<1>24. ASSUME NEW t \in Tasks, Claim(t) PROVE HasConversation'
  BY <1>24 DEF Claim, Goto, Finish
<1>25. ASSUME NEW t \in Tasks, ClaimMaintenance(t) PROVE HasConversation'
  BY <1>25 DEF ClaimMaintenance, Goto, Finish
<1>26. ASSUME NEW t \in Tasks, StartSleep(t) PROVE HasConversation'
  BY <1>26 DEF StartSleep, Goto, Finish
<1>27. ASSUME NEW t \in Tasks, AbortMaintenance(t) PROVE HasConversation'
  BY <1>27 DEF AbortMaintenance, Goto, Finish
<1>28. ASSUME NEW t \in Tasks, EndSleep(t) PROVE HasConversation'
  BY <1>28 DEF EndSleep, Goto, Finish
<1>29. ASSUME NEW t \in Tasks, Wake(t) PROVE HasConversation'
  BY <1>29 DEF Wake, Goto, Finish
<1>30. ASSUME NEW t \in Tasks, DropTask(t) PROVE HasConversation'
  BY <1>30 DEF DropTask, Goto, Finish
<1>31. CASE BeginClose \/ CaptureAgain
  BY <1>31 DEF BeginClose, CaptureAgain
<1>32. CASE CancelTasks
  BY <1>32 DEF CancelTasks
<1>33. CASE CancelEngine
  BY <1>33 DEF CancelEngine
<1>34. CASE Reconcile
  BY <1>34 DEF Reconcile
<1>35. CASE Crash
  BY <1>35 DEF Crash
<1>36. CASE UNCHANGED vars
  BY <1>36 DEF vars
<1> QED
  BY <1>1, <1>2, <1>3, <1>4, <1>5, <1>6, <1>7, <1>8, <1>9, <1>10, <1>11, <1>12, <1>13, <1>14, <1>15,
     <1>16, <1>17, <1>18, <1>19, <1>20, <1>21, <1>22, <1>23, <1>24, <1>25, <1>26, <1>27, <1>28, <1>29,
     <1>30, <1>31, <1>32, <1>33, <1>34, <1>35, <1>36
  DEF Next, Step, Arrive

-----------------------------------------------------------------------------
(* The single-writer guarantee.                                            *)

\* At most one task holds the maintenance flag, and the flag is up while it does.
OneCycle ==
    /\ \A t \in Tasks : pc[t] \in MaintPcs => maint
    /\ \A t, u \in Tasks : pc[t] \in MaintPcs /\ pc[u] \in MaintPcs => t = u

\* Until the tasks are cancelled, at most one loop owns the slot, which then names
\* its conversation; a cycle past its hand-off and a settlement run with it free.
OneOwner ==
    Running =>
      /\ \A t \in Tasks : pc[t] \in OwnerPcs => slot = cur[t]
      /\ \A t, u \in Tasks : pc[t] \in OwnerPcs /\ pc[u] \in OwnerPcs => t = u
      /\ \A t \in Tasks : pc[t] \in {"metabolize", "sleep", "wake"} => slot = 0

\* Nothing runs in a Space that is not loaded.
ClosedIsIdle == phase = "closed" => \A t \in Tasks : pc[t] = "idle"

\* Only a crash or a reconciled close ends in the closed phase.
LEMMA ClosedIsIdleStep == OtherTypes /\ ClosedIsIdle /\ [Next]_vars => ClosedIsIdle'
<1> SUFFICES ASSUME OtherTypes, ClosedIsIdle, [Next]_vars
             PROVE  ClosedIsIdle'
  OBVIOUS
<1> USE DEF ClosedIsIdle, OtherTypes, Running, Open, Cancelled, OwnedPcs, OwnerPcs, LeavingPcs, durable, gate, lifecycle, locals
<1>1. ASSUME NEW t \in Tasks, AddConversation(t) PROVE ClosedIsIdle'
  BY <1>1 DEF AddConversation, Goto, Finish
<1>2. ASSUME NEW t \in Tasks, OperatorRestart(t) PROVE ClosedIsIdle'
  BY <1>2 DEF OperatorRestart, Goto, Finish
<1>3. ASSUME NEW t \in Tasks, RequestMaintenance(t) PROVE ClosedIsIdle'
  BY <1>3 DEF RequestMaintenance, Goto, Finish
<1>4. ASSUME NEW t \in Tasks, ClockMaintenance(t) PROVE ClosedIsIdle'
  BY <1>4 DEF ClockMaintenance, Goto, Finish
<1>5. ASSUME NEW t \in Tasks, OpenSpace(t) PROVE ClosedIsIdle'
  BY <1>5 DEF OpenSpace, Goto, Finish
<1>6. ASSUME NEW t \in Tasks, Resume(t) PROVE ClosedIsIdle'
  BY <1>6 DEF Resume, Goto, Finish
<1>7. ASSUME NEW t \in Tasks, LoadSlot(t) PROVE ClosedIsIdle'
  BY <1>7 DEF LoadSlot, Goto, Finish
<1>8. ASSUME NEW t \in Tasks, LoadMaintenance(t) PROVE ClosedIsIdle'
  BY <1>8 DEF LoadMaintenance, Goto, Finish
<1>9. ASSUME NEW t \in Tasks, LoadProcessed(t) PROVE ClosedIsIdle'
  BY <1>9 DEF LoadProcessed, Goto, Finish
<1>10. ASSUME NEW t \in Tasks, Find(t) PROVE ClosedIsIdle'
  BY <1>10 DEF Find, Goto, Finish
<1>11. ASSUME NEW t \in Tasks, TryProcess(t) PROVE ClosedIsIdle'
  BY <1>11 DEF TryProcess, Goto, Finish
<1>12. ASSUME NEW t \in Tasks, Spawn(t) PROVE ClosedIsIdle'
  BY <1>12 DEF Spawn, Goto, Finish
<1>13. ASSUME NEW t \in Tasks, PersistTurn(t) PROVE ClosedIsIdle'
  BY <1>13 DEF PersistTurn, Goto, Finish
<1>14. ASSUME NEW t \in Tasks, EndPass(t) PROVE ClosedIsIdle'
  BY <1>14 DEF EndPass, Goto, Finish
<1>15. ASSUME NEW t \in Tasks, RetryPass(t) PROVE ClosedIsIdle'
  BY <1>15 DEF RetryPass, Goto, Finish
<1>16. ASSUME NEW t \in Tasks, RecordFailedRound(t) PROVE ClosedIsIdle'
  BY <1>16 DEF RecordFailedRound, Goto, Finish
<1>17. ASSUME NEW t \in Tasks, SettlePass(t) PROVE ClosedIsIdle'
  BY <1>17 DEF SettlePass, Goto, Finish
<1>18. ASSUME NEW t \in Tasks, Schedule(t) PROVE ClosedIsIdle'
  BY <1>18 DEF Schedule, Goto, Finish
<1>19. ASSUME NEW t \in Tasks, HandOff(t) PROVE ClosedIsIdle'
  BY <1>19 DEF HandOff, Goto, Finish
<1>20. ASSUME NEW t \in Tasks, HandOffFails(t) PROVE ClosedIsIdle'
  BY <1>20 DEF HandOffFails, Goto, Finish
<1>21. ASSUME NEW t \in Tasks, NextConversation(t) PROVE ClosedIsIdle'
  BY <1>21 DEF NextConversation, Goto, Finish
<1>22. ASSUME NEW t \in Tasks, Release(t) PROVE ClosedIsIdle'
  BY <1>22 DEF Release, Goto, Finish
<1>23. ASSUME NEW t \in Tasks, Recheck(t) PROVE ClosedIsIdle'
  BY <1>23 DEF Recheck, Goto, Finish
<1>24. ASSUME NEW t \in Tasks, Claim(t) PROVE ClosedIsIdle'
  BY <1>24 DEF Claim, Goto, Finish
<1>25. ASSUME NEW t \in Tasks, ClaimMaintenance(t) PROVE ClosedIsIdle'
  BY <1>25 DEF ClaimMaintenance, Goto, Finish
<1>26. ASSUME NEW t \in Tasks, StartSleep(t) PROVE ClosedIsIdle'
  BY <1>26 DEF StartSleep, Goto, Finish
<1>27. ASSUME NEW t \in Tasks, AbortMaintenance(t) PROVE ClosedIsIdle'
  BY <1>27 DEF AbortMaintenance, Goto, Finish
<1>28. ASSUME NEW t \in Tasks, EndSleep(t) PROVE ClosedIsIdle'
  BY <1>28 DEF EndSleep, Goto, Finish
<1>29. ASSUME NEW t \in Tasks, Wake(t) PROVE ClosedIsIdle'
  BY <1>29 DEF Wake, Goto, Finish
<1>30. ASSUME NEW t \in Tasks, DropTask(t) PROVE ClosedIsIdle'
  BY <1>30 DEF DropTask, Goto, Finish
<1>31. CASE BeginClose \/ CaptureAgain
  BY <1>31 DEF BeginClose, CaptureAgain
<1>32. CASE CancelTasks
  BY <1>32 DEF CancelTasks
<1>33. CASE CancelEngine
  BY <1>33 DEF CancelEngine
<1>34. CASE Reconcile
  BY <1>34 DEF Reconcile
<1>35. CASE Crash
  BY <1>35 DEF Crash
<1>36. CASE UNCHANGED vars
  BY <1>36 DEF vars
<1> QED
  BY <1>1, <1>2, <1>3, <1>4, <1>5, <1>6, <1>7, <1>8, <1>9, <1>10, <1>11, <1>12, <1>13, <1>14, <1>15,
     <1>16, <1>17, <1>18, <1>19, <1>20, <1>21, <1>22, <1>23, <1>24, <1>25, <1>26, <1>27, <1>28, <1>29,
     <1>30, <1>31, <1>32, <1>33, <1>34, <1>35, <1>36
  DEF Next, Step, Arrive

\* The flag is taken only when it is down, and put down only by its holder.
LEMMA OneCycleStep == FlagTypes /\ OtherTypes /\ OneCycle /\ [Next]_vars => OneCycle'
<1> SUFFICES ASSUME FlagTypes, OtherTypes, OneCycle, [Next]_vars
             PROVE  OneCycle'
  OBVIOUS
<1> USE DEF OneCycle, FlagTypes, OtherTypes, MaintPcs, durable, gate, lifecycle, locals
<1>1. ASSUME NEW t \in Tasks, AddConversation(t) PROVE OneCycle'
  BY <1>1 DEF AddConversation, Goto, Finish
<1>2. ASSUME NEW t \in Tasks, OperatorRestart(t) PROVE OneCycle'
  BY <1>2 DEF OperatorRestart, Goto, Finish
<1>3. ASSUME NEW t \in Tasks, RequestMaintenance(t) PROVE OneCycle'
  BY <1>3 DEF RequestMaintenance, Goto, Finish
<1>4. ASSUME NEW t \in Tasks, ClockMaintenance(t) PROVE OneCycle'
  BY <1>4 DEF ClockMaintenance, Goto, Finish
<1>5. ASSUME NEW t \in Tasks, OpenSpace(t) PROVE OneCycle'
  BY <1>5 DEF OpenSpace, Goto, Finish
<1>6. ASSUME NEW t \in Tasks, Resume(t) PROVE OneCycle'
  BY <1>6 DEF Resume, Goto, Finish
<1>7. ASSUME NEW t \in Tasks, LoadSlot(t) PROVE OneCycle'
  BY <1>7 DEF LoadSlot, Goto, Finish
<1>8. ASSUME NEW t \in Tasks, LoadMaintenance(t) PROVE OneCycle'
  BY <1>8 DEF LoadMaintenance, Goto, Finish
<1>9. ASSUME NEW t \in Tasks, LoadProcessed(t) PROVE OneCycle'
  BY <1>9 DEF LoadProcessed, Goto, Finish
<1>10. ASSUME NEW t \in Tasks, Find(t) PROVE OneCycle'
  BY <1>10 DEF Find, Goto, Finish
<1>11. ASSUME NEW t \in Tasks, TryProcess(t) PROVE OneCycle'
  BY <1>11 DEF TryProcess, Goto, Finish
<1>12. ASSUME NEW t \in Tasks, Spawn(t) PROVE OneCycle'
  BY <1>12 DEF Spawn, Goto, Finish
<1>13. ASSUME NEW t \in Tasks, PersistTurn(t) PROVE OneCycle'
  BY <1>13 DEF PersistTurn, Goto, Finish
<1>14. ASSUME NEW t \in Tasks, EndPass(t) PROVE OneCycle'
  BY <1>14 DEF EndPass, Goto, Finish
<1>15. ASSUME NEW t \in Tasks, RetryPass(t) PROVE OneCycle'
  BY <1>15 DEF RetryPass, Goto, Finish
<1>16. ASSUME NEW t \in Tasks, RecordFailedRound(t) PROVE OneCycle'
  BY <1>16 DEF RecordFailedRound, Goto, Finish
<1>17. ASSUME NEW t \in Tasks, SettlePass(t) PROVE OneCycle'
  BY <1>17 DEF SettlePass, Goto, Finish
<1>18. ASSUME NEW t \in Tasks, Schedule(t) PROVE OneCycle'
  BY <1>18 DEF Schedule, Goto, Finish
<1>19. ASSUME NEW t \in Tasks, HandOff(t) PROVE OneCycle'
  BY <1>19 DEF HandOff, Goto, Finish
<1>20. ASSUME NEW t \in Tasks, HandOffFails(t) PROVE OneCycle'
  BY <1>20 DEF HandOffFails, Goto, Finish
<1>21. ASSUME NEW t \in Tasks, NextConversation(t) PROVE OneCycle'
  BY <1>21 DEF NextConversation, Goto, Finish
<1>22. ASSUME NEW t \in Tasks, Release(t) PROVE OneCycle'
  BY <1>22 DEF Release, Goto, Finish
<1>23. ASSUME NEW t \in Tasks, Recheck(t) PROVE OneCycle'
  BY <1>23 DEF Recheck, Goto, Finish
<1>24. ASSUME NEW t \in Tasks, Claim(t) PROVE OneCycle'
  BY <1>24 DEF Claim, Goto, Finish
<1>25. ASSUME NEW t \in Tasks, ClaimMaintenance(t) PROVE OneCycle'
  BY <1>25 DEF ClaimMaintenance, Goto, Finish
<1>26. ASSUME NEW t \in Tasks, StartSleep(t) PROVE OneCycle'
  BY <1>26 DEF StartSleep, Goto, Finish
<1>27. ASSUME NEW t \in Tasks, AbortMaintenance(t) PROVE OneCycle'
  BY <1>27 DEF AbortMaintenance, Goto, Finish
<1>28. ASSUME NEW t \in Tasks, EndSleep(t) PROVE OneCycle'
  BY <1>28 DEF EndSleep, Goto, Finish
<1>29. ASSUME NEW t \in Tasks, Wake(t) PROVE OneCycle'
  BY <1>29 DEF Wake, Goto, Finish
<1>30. ASSUME NEW t \in Tasks, DropTask(t) PROVE OneCycle'
  BY <1>30 DEF DropTask, Goto, Finish
<1>31. CASE BeginClose \/ CaptureAgain
  BY <1>31 DEF BeginClose, CaptureAgain
<1>32. CASE CancelTasks
  BY <1>32 DEF CancelTasks
<1>33. CASE CancelEngine
  BY <1>33 DEF CancelEngine
<1>34. CASE Reconcile
  BY <1>34 DEF Reconcile
<1>35. CASE Crash
  BY <1>35 DEF Crash
<1>36. CASE UNCHANGED vars
  BY <1>36 DEF vars
<1> QED
  BY <1>1, <1>2, <1>3, <1>4, <1>5, <1>6, <1>7, <1>8, <1>9, <1>10, <1>11, <1>12, <1>13, <1>14, <1>15,
     <1>16, <1>17, <1>18, <1>19, <1>20, <1>21, <1>22, <1>23, <1>24, <1>25, <1>26, <1>27, <1>28, <1>29,
     <1>30, <1>31, <1>32, <1>33, <1>34, <1>35, <1>36
  DEF Next, Step, Arrive

\* The slot is taken only when it is 0 and the flag is down.
LEMMA OneOwnerStep == FlagTypes /\ OtherTypes /\ HasConversation /\ OneCycle /\ ClosedIsIdle /\ OneOwner /\ [Next]_vars => OneOwner'
<1> SUFFICES ASSUME FlagTypes, OtherTypes, HasConversation, OneCycle, ClosedIsIdle, OneOwner, [Next]_vars
             PROVE  OneOwner'
  OBVIOUS
<1> USE DEF OneOwner, FlagTypes, OtherTypes, HasConversation, OneCycle, ClosedIsIdle, OwnerPcs, LeavingPcs, MaintPcs, Running, Open, Cancelled, durable, gate, lifecycle, locals
<1>1. ASSUME NEW t \in Tasks, AddConversation(t) PROVE OneOwner'
  BY <1>1 DEF AddConversation, Goto, Finish
<1>2. ASSUME NEW t \in Tasks, OperatorRestart(t) PROVE OneOwner'
  BY <1>2 DEF OperatorRestart, Goto, Finish
<1>3. ASSUME NEW t \in Tasks, RequestMaintenance(t) PROVE OneOwner'
  BY <1>3 DEF RequestMaintenance, Goto, Finish
<1>4. ASSUME NEW t \in Tasks, ClockMaintenance(t) PROVE OneOwner'
  BY <1>4 DEF ClockMaintenance, Goto, Finish
<1>5. ASSUME NEW t \in Tasks, OpenSpace(t) PROVE OneOwner'
  BY <1>5 DEF OpenSpace, Goto, Finish
<1>6. ASSUME NEW t \in Tasks, Resume(t) PROVE OneOwner'
  BY <1>6 DEF Resume, Goto, Finish
<1>7. ASSUME NEW t \in Tasks, LoadSlot(t) PROVE OneOwner'
  BY <1>7 DEF LoadSlot, Goto, Finish
<1>8. ASSUME NEW t \in Tasks, LoadMaintenance(t) PROVE OneOwner'
  BY <1>8 DEF LoadMaintenance, Goto, Finish
<1>9. ASSUME NEW t \in Tasks, LoadProcessed(t) PROVE OneOwner'
  BY <1>9 DEF LoadProcessed, Goto, Finish
<1>10. ASSUME NEW t \in Tasks, Find(t) PROVE OneOwner'
  BY <1>10 DEF Find, Goto, Finish
<1>11. ASSUME NEW t \in Tasks, TryProcess(t) PROVE OneOwner'
  BY <1>11 DEF TryProcess, Goto, Finish
<1>12. ASSUME NEW t \in Tasks, Spawn(t) PROVE OneOwner'
  BY <1>12 DEF Spawn, Goto, Finish
<1>13. ASSUME NEW t \in Tasks, PersistTurn(t) PROVE OneOwner'
  BY <1>13 DEF PersistTurn, Goto, Finish
<1>14. ASSUME NEW t \in Tasks, EndPass(t) PROVE OneOwner'
  BY <1>14 DEF EndPass, Goto, Finish
<1>15. ASSUME NEW t \in Tasks, RetryPass(t) PROVE OneOwner'
  BY <1>15 DEF RetryPass, Goto, Finish
<1>16. ASSUME NEW t \in Tasks, RecordFailedRound(t) PROVE OneOwner'
  BY <1>16 DEF RecordFailedRound, Goto, Finish
<1>17. ASSUME NEW t \in Tasks, SettlePass(t) PROVE OneOwner'
  BY <1>17 DEF SettlePass, Goto, Finish
<1>18. ASSUME NEW t \in Tasks, Schedule(t) PROVE OneOwner'
  BY <1>18 DEF Schedule, Goto, Finish
<1>19. ASSUME NEW t \in Tasks, HandOff(t) PROVE OneOwner'
  BY <1>19 DEF HandOff, Goto, Finish
<1>20. ASSUME NEW t \in Tasks, HandOffFails(t) PROVE OneOwner'
  BY <1>20 DEF HandOffFails, Goto, Finish
<1>21. ASSUME NEW t \in Tasks, NextConversation(t) PROVE OneOwner'
  BY <1>21 DEF NextConversation, Goto, Finish
<1>22. ASSUME NEW t \in Tasks, Release(t) PROVE OneOwner'
  BY <1>22 DEF Release, Goto, Finish
<1>23. ASSUME NEW t \in Tasks, Recheck(t) PROVE OneOwner'
  BY <1>23 DEF Recheck, Goto, Finish
<1>24. ASSUME NEW t \in Tasks, Claim(t) PROVE OneOwner'
  BY <1>24 DEF Claim, Goto, Finish
<1>25. ASSUME NEW t \in Tasks, ClaimMaintenance(t) PROVE OneOwner'
  BY <1>25 DEF ClaimMaintenance, Goto, Finish
<1>26. ASSUME NEW t \in Tasks, StartSleep(t) PROVE OneOwner'
  BY <1>26 DEF StartSleep, Goto, Finish
<1>27. ASSUME NEW t \in Tasks, AbortMaintenance(t) PROVE OneOwner'
  BY <1>27 DEF AbortMaintenance, Goto, Finish
<1>28. ASSUME NEW t \in Tasks, EndSleep(t) PROVE OneOwner'
  BY <1>28 DEF EndSleep, Goto, Finish
<1>29. ASSUME NEW t \in Tasks, Wake(t) PROVE OneOwner'
  BY <1>29 DEF Wake, Goto, Finish
<1>30. ASSUME NEW t \in Tasks, DropTask(t) PROVE OneOwner'
  BY <1>30 DEF DropTask, Goto, Finish
<1>31. CASE BeginClose \/ CaptureAgain
  BY <1>31 DEF BeginClose, CaptureAgain
<1>32. CASE CancelTasks
  BY <1>32 DEF CancelTasks
<1>33. CASE CancelEngine
  BY <1>33 DEF CancelEngine
<1>34. CASE Reconcile
  BY <1>34 DEF Reconcile
<1>35. CASE Crash
  BY <1>35 DEF Crash
<1>36. CASE UNCHANGED vars
  BY <1>36 DEF vars
<1> QED
  BY <1>1, <1>2, <1>3, <1>4, <1>5, <1>6, <1>7, <1>8, <1>9, <1>10, <1>11, <1>12, <1>13, <1>14, <1>15,
     <1>16, <1>17, <1>18, <1>19, <1>20, <1>21, <1>22, <1>23, <1>24, <1>25, <1>26, <1>27, <1>28, <1>29,
     <1>30, <1>31, <1>32, <1>33, <1>34, <1>35, <1>36
  DEF Next, Step, Arrive

-----------------------------------------------------------------------------

\* The specification keeps every variable in its type, whatever the faults.
THEOREM TypeCorrect == Spec => []TypeOK
<1>1. Init => FlagTypes
  BY Zenon DEF Init, FlagTypes
<1>2. Init => OtherTypes
  BY MaxConvAssumption, MaxRoundsAssumption
     DEF Init, OtherTypes, Ids, Ids0, Statuses, Scopes, Pcs
<1>3. FlagTypes /\ OtherTypes => TypeOK
  BY DEF FlagTypes, OtherTypes, TypeOK
<1>4. Init => HasConversation
  BY DEF Init, HasConversation, OwnerPcs, LeavingPcs
<1> QED
  BY <1>1, <1>2, <1>3, <1>4, FlagStep, OtherStep, HasConversationStep, PTL DEF Spec

\* The inductive invariant behind SingleWriter.
GateInv == FlagTypes /\ OtherTypes /\ HasConversation /\ OneCycle /\ OneOwner /\ ClosedIsIdle

\* The inductive invariant holds when the Space is created.
LEMMA GateInvInit == Init => GateInv
<1>1. Init => FlagTypes
  BY Zenon DEF Init, FlagTypes
<1>2. Init => OtherTypes
  BY MaxConvAssumption, MaxRoundsAssumption
     DEF Init, OtherTypes, Ids, Ids0, Statuses, Scopes, Pcs
<1>3. Init => HasConversation /\ OneCycle /\ OneOwner /\ ClosedIsIdle
  BY DEF Init, HasConversation, OneCycle, OneOwner, ClosedIsIdle, OwnerPcs, LeavingPcs, MaintPcs, Running
<1> QED
  BY <1>1, <1>2, <1>3 DEF GateInv

\* Every step keeps it.
LEMMA GateInvStep == GateInv /\ [Next]_vars => GateInv'
  BY FlagStep, OtherStep, HasConversationStep, OneCycleStep, OneOwnerStep, ClosedIsIdleStep DEF GateInv

\* A formation pass, a settlement and a maintenance pass never overlap: the
\* guarantee of the ProcessingGate, for any number of requests, loops and cycles.
THEOREM OneWriterAtATime == Spec => []SingleWriter
<1>1. GateInv => SingleWriter
  BY DEF GateInv, OtherTypes, HasConversation, OneCycle, OneOwner, SingleWriter, WritesGraph, Running,
         OwnerPcs, MaintPcs
<1> QED
  BY <1>1, GateInvInit, GateInvStep, PTL DEF Spec

(***************************************************************************)
(* SpaceScheduler implements GraphLease: under the inductive invariant of  *)
(* the single-writer guarantee, and the fact that a loop looks for a due   *)
(* cycle only once its conversation is settled, every step of a task, a    *)
(* request or the lifecycle is a step of the lease or leaves it alone.     *)
(***************************************************************************)
\* A loop that looks for a due cycle, or holds one it may have to give back, has
\* settled its conversation.
SettledFirst ==
    \A t \in Tasks : pc[t] \in {"schedule", "handoff"} => cur[t] <= processed

\* The watermark only rises, and only SettlePass enters "schedule".
LEMMA SettledFirstStep == OtherTypes /\ SettledFirst /\ [Next]_vars => SettledFirst'
<1> SUFFICES ASSUME OtherTypes, SettledFirst, [Next]_vars
             PROVE  SettledFirst'
  OBVIOUS
<1> USE MaxConvAssumption DEF SettledFirst, OtherTypes, Ids, Ids0, durable, gate, lifecycle, locals
<1>1. ASSUME NEW t \in Tasks, Arrive(t) PROVE SettledFirst'
  <2>1. CASE AddConversation(t)
    BY <2>1 DEF AddConversation, Goto
  <2>2. CASE OperatorRestart(t)
    BY <2>2 DEF OperatorRestart, Goto
  <2>3. CASE RequestMaintenance(t) \/ ClockMaintenance(t)
    BY <2>3 DEF RequestMaintenance, ClockMaintenance, Goto
  <2>4. CASE OpenSpace(t)
    BY <2>4 DEF OpenSpace, Goto
  <2> QED
    BY <1>1, <2>1, <2>2, <2>3, <2>4 DEF Arrive
<1>2. ASSUME NEW t \in Tasks, Resume(t) \/ LoadSlot(t) \/ LoadMaintenance(t) \/ LoadProcessed(t) \/ Find(t)
      PROVE SettledFirst'
  <2>1. CASE Resume(t)
    BY <2>1 DEF Resume, Goto
  <2>2. CASE LoadSlot(t)
    BY <2>2 DEF LoadSlot, Goto, Finish
  <2>3. CASE LoadMaintenance(t)
    BY <2>3 DEF LoadMaintenance, Goto, Finish
  <2>4. CASE LoadProcessed(t)
    BY <2>4 DEF LoadProcessed, Goto
  <2>5. CASE Find(t)
    BY <2>5 DEF Find, Goto, Finish
  <2> QED
    BY <1>2, <2>1, <2>2, <2>3, <2>4, <2>5
<1>3. ASSUME NEW t \in Tasks, TryProcess(t) \/ Spawn(t) \/ Claim(t) \/ Recheck(t) \/ Release(t) \/ NextConversation(t)
      PROVE SettledFirst'
  <2>1. CASE TryProcess(t)
    BY <2>1 DEF TryProcess, Goto, Finish
  <2>2. CASE Spawn(t)
    BY <2>2 DEF Spawn, Goto, Finish
  <2>3. CASE Claim(t)
    BY <2>3 DEF Claim, Goto, Finish
  <2>4. CASE Recheck(t)
    BY <2>4 DEF Recheck, Goto, Finish
  <2>5. CASE Release(t)
    BY <2>5 DEF Release, Goto
  <2>6. CASE NextConversation(t)
    BY <2>6 DEF NextConversation, Goto, Finish
  <2> QED
    BY <1>3, <2>1, <2>2, <2>3, <2>4, <2>5, <2>6
<1>4. ASSUME NEW t \in Tasks, PersistTurn(t) \/ EndPass(t) \/ RetryPass(t) \/ RecordFailedRound(t)
      PROVE SettledFirst'
  <2>1. CASE PersistTurn(t)
    BY <2>1 DEF PersistTurn
  <2>2. CASE EndPass(t)
    BY <2>2 DEF EndPass, Goto
  <2>3. CASE RetryPass(t)
    BY <2>3 DEF RetryPass, Goto
  <2>4. CASE RecordFailedRound(t)
    BY <2>4 DEF RecordFailedRound, Goto
  <2> QED
    BY <1>4, <2>1, <2>2, <2>3, <2>4
<1>5. ASSUME NEW t \in Tasks, SettlePass(t) PROVE SettledFirst'
  BY <1>5 DEF SettlePass, MaxOf, Goto, Finish
<1>6. ASSUME NEW t \in Tasks, Schedule(t) \/ HandOff(t) \/ HandOffFails(t) PROVE SettledFirst'
  <2>1. CASE Schedule(t)
    BY <2>1 DEF Schedule, Goto
  <2>2. CASE HandOff(t)
    BY <2>2 DEF HandOff, Goto
  <2>3. CASE HandOffFails(t)
    BY <2>3 DEF HandOffFails, Goto
  <2> QED
    BY <1>6, <2>1, <2>2, <2>3
<1>7. ASSUME NEW t \in Tasks,
             ClaimMaintenance(t) \/ StartSleep(t) \/ AbortMaintenance(t) \/ EndSleep(t) \/ Wake(t) \/ DropTask(t)
      PROVE SettledFirst'
  <2>1. CASE ClaimMaintenance(t)
    BY <2>1 DEF ClaimMaintenance, Goto, Finish
  <2>2. CASE StartSleep(t)
    BY <2>2 DEF StartSleep, Goto, Finish
  <2>3. CASE AbortMaintenance(t)
    BY <2>3 DEF AbortMaintenance, Finish
  <2>4. CASE EndSleep(t)
    BY <2>4 DEF EndSleep, Goto
  <2>5. CASE Wake(t)
    BY <2>5 DEF Wake
  <2>6. CASE DropTask(t)
    BY <2>6 DEF DropTask, Finish
  <2> QED
    BY <1>7, <2>1, <2>2, <2>3, <2>4, <2>5, <2>6
<1>8. CASE BeginClose \/ CaptureAgain \/ CancelTasks \/ CancelEngine \/ Reconcile \/ Crash
  BY <1>8 DEF BeginClose, CaptureAgain, CancelTasks, CancelEngine, Reconcile, Crash
<1>9. CASE UNCHANGED vars
  BY <1>9 DEF vars
<1> QED
  BY <1>1, <1>2, <1>3, <1>4, <1>5, <1>6, <1>7, <1>8, <1>9 DEF Next, Step, Arrive

-----------------------------------------------------------------------------
(* What the lease does, from what each task holds before and after a step. *)

\* No task holds anything else than before.
LEMMA LeaseStutters ==
  ASSUME \A u \in Tasks : Holding(u)' = Holding(u), processed' = processed
  PROVE  UNCHANGED Lease!vars
  BY DEF Lease!vars

\* A task takes the graph that nobody held.
LEMMA LeaseBegins ==
  ASSUME NEW t \in Tasks, NEW l \in {Lease!Forming(c) : c \in Ids} \cup {Lease!Maintaining},
         \A u \in Tasks : Holding(u) = Lease!Free,
         \A u \in Tasks : Holding(u)' = IF u = t THEN l ELSE Holding(u),
         processed' = processed
  PROVE  Lease!Next
  BY DEF Lease!Next, Lease!Begin

\* The same, for a task that forms a conversation.
LEMMA LeaseForms ==
  ASSUME NEW t \in Tasks, NEW c \in Ids,
         \A u \in Tasks : Holding(u) = Lease!Free,
         \A u \in Tasks : Holding(u)' = IF u = t THEN Lease!Forming(c) ELSE Holding(u),
         processed' = processed
  PROVE  Lease!Next
  BY DEF Lease!Next, Lease!Begin

\* Some tasks give the graph back.
LEMMA LeaseEnds ==
  ASSUME NEW S \in SUBSET Tasks,
         \A u \in Tasks : Holding(u)' = IF u \in S THEN Lease!Free ELSE Holding(u),
         processed' = processed
  PROVE  Lease!Next
  BY DEF Lease!Next, Lease!End

\* The same, for one task.
LEMMA LeaseEndsFor ==
  ASSUME NEW t \in Tasks,
         \A u \in Tasks : Holding(u)' = IF u = t THEN Lease!Free ELSE Holding(u),
         processed' = processed
  PROVE  Lease!Next
<1>1. \A u \in Tasks : Holding(u)' = IF u \in {t} THEN Lease!Free ELSE Holding(u)
  OBVIOUS
<1> QED
  BY <1>1, LeaseEnds

\* The task that forms goes on to a later conversation.
LEMMA LeaseProceeds ==
  ASSUME NEW t \in Tasks, NEW c \in Ids, NEW d \in Ids, c < d, Holding(t) = Lease!Forming(c),
         \A u \in Tasks : Holding(u)' = IF u = t THEN Lease!Forming(d) ELSE Holding(u),
         processed' = processed
  PROVE  Lease!Next
<1>1. Holding(t).kind = "forming" /\ Holding(t).conv = c
  BY DEF Lease!Forming
<1>2. Lease!Proceed(t)
  BY <1>1 DEF Lease!Proceed
<1> QED
  BY <1>2 DEF Lease!Next

\* The watermark moves over the conversation that was formed.
LEMMA LeaseSettles ==
  ASSUME NEW t \in Tasks, NEW c \in Ids, Holding(t) = Lease!Forming(c),
         \A u \in Tasks : Holding(u)' = Holding(u), processed < c, processed' = c
  PROVE  Lease!Next
  BY DEF Lease!Next, Lease!Settle, Lease!Forming

\* A loop hands over to a cycle.
LEMMA LeaseHandsOver ==
  ASSUME NEW t \in Tasks, NEW c \in Ids, Holding(t) = Lease!Forming(c), c <= processed,
         \A u \in Tasks : Holding(u)' = IF u = t THEN Lease!Maintaining ELSE Holding(u),
         processed' = processed
  PROVE  Lease!Next
<1>1. Holding(t).kind = "forming" /\ Holding(t).conv = c
  BY DEF Lease!Forming
<1>2. Lease!HandOver(t)
  BY <1>1 DEF Lease!HandOver
<1> QED
  BY <1>2 DEF Lease!Next

\* A loop takes the graph back from a cycle that did not start.
LEMMA LeaseIsTakenBack ==
  ASSUME NEW t \in Tasks, NEW c \in Ids, Holding(t) = Lease!Maintaining, c <= processed,
         \A u \in Tasks : Holding(u)' = IF u = t THEN Lease!Forming(c) ELSE Holding(u),
         processed' = processed
  PROVE  Lease!Next
  BY DEF Lease!Next, Lease!TakeBack

-----------------------------------------------------------------------------

\* Every step is a step of the lease or leaves it alone: one step per action.
LEMMA LeaseStep == GateInv /\ SettledFirst /\ [Next]_vars => [Lease!Next]_(Lease!vars)
<1> SUFFICES ASSUME GateInv, SettledFirst, [Next]_vars
             PROVE  Lease!Next \/ UNCHANGED Lease!vars
  BY DEF Lease!vars
<1> USE MaxConvAssumption
    DEF GateInv, OtherTypes, HasConversation, Holding, OwnerPcs, LeavingPcs, MaintPcs, Running,
        durable, gate, lifecycle, locals, Lease!Free, Lease!Forming, Lease!Maintaining, Ids, Ids0
<1>1. ASSUME NEW t \in Tasks, AddConversation(t) \/ OperatorRestart(t) \/ RequestMaintenance(t) \/ ClockMaintenance(t)
      PROVE UNCHANGED Lease!vars
  <2>1. CASE AddConversation(t)
    BY <2>1, LeaseStutters DEF AddConversation, Goto
  <2>2. CASE OperatorRestart(t)
    BY <2>2, LeaseStutters DEF OperatorRestart, Goto
  <2>3. CASE RequestMaintenance(t)
    BY <2>3, LeaseStutters DEF RequestMaintenance, Goto
  <2>4. CASE ClockMaintenance(t)
    BY <2>4, LeaseStutters DEF ClockMaintenance, Goto
  <2> QED
    BY <1>1, <2>1, <2>2, <2>3, <2>4
<1>2. ASSUME NEW t \in Tasks, OpenSpace(t) PROVE UNCHANGED Lease!vars
  BY <1>2, LeaseStutters DEF OpenSpace, ClosedIsIdle, Goto
<1>3. ASSUME NEW t \in Tasks, Resume(t) \/ LoadSlot(t) \/ LoadMaintenance(t) \/ LoadProcessed(t)
      PROVE UNCHANGED Lease!vars
  <2>1. CASE Resume(t)
    BY <2>1, LeaseStutters DEF Resume, Goto
  <2>2. CASE LoadSlot(t)
    BY <2>2, LeaseStutters DEF LoadSlot, Goto, Finish
  <2>3. CASE LoadMaintenance(t)
    BY <2>3, LeaseStutters, ZenonT(30) DEF LoadMaintenance, Goto, Finish
  <2>4. CASE LoadProcessed(t)
    BY <2>4, LeaseStutters DEF LoadProcessed, Goto
  <2> QED
    BY <1>3, <2>1, <2>2, <2>3, <2>4
<1>4. ASSUME NEW t \in Tasks, Find(t) \/ TryProcess(t) \/ Recheck(t) PROVE UNCHANGED Lease!vars
  <2>1. CASE Find(t)
    BY <2>1, LeaseStutters, ZenonT(30) DEF Find, Goto, Finish
  <2>2. CASE TryProcess(t)
    BY <2>2, LeaseStutters, ZenonT(30) DEF TryProcess, Goto, Finish
  <2>3. CASE Recheck(t)
    BY <2>3, LeaseStutters, ZenonT(30) DEF Recheck, Goto, Finish
  <2> QED
    BY <1>4, <2>1, <2>2, <2>3
<1>5. ASSUME NEW t \in Tasks, PersistTurn(t) \/ EndPass(t) \/ RetryPass(t) \/ RecordFailedRound(t)
      PROVE UNCHANGED Lease!vars
  <2>1. CASE PersistTurn(t)
    BY <2>1, LeaseStutters DEF PersistTurn
  <2>2. CASE EndPass(t)
    BY <2>2, LeaseStutters DEF EndPass, Goto
  <2>3. CASE RetryPass(t)
    BY <2>3, LeaseStutters DEF RetryPass, Goto
  <2>4. CASE RecordFailedRound(t)
    BY <2>4, LeaseStutters DEF RecordFailedRound, Goto
  <2> QED
    BY <1>5, <2>1, <2>2, <2>3, <2>4
<1>6. ASSUME NEW t \in Tasks, HandOff(t) \/ EndSleep(t) PROVE UNCHANGED Lease!vars
  <2>1. CASE HandOff(t)
    BY <2>1, LeaseStutters DEF HandOff, Goto
  <2>2. CASE EndSleep(t)
    BY <2>2, LeaseStutters DEF EndSleep, Goto
  <2> QED
    BY <1>6, <2>1, <2>2
<1>7. ASSUME NEW t \in Tasks, DropTask(t) PROVE UNCHANGED Lease!vars
  BY <1>7, LeaseStutters DEF DropTask, Cancelled, OwnedPcs, Finish
<1>8. ASSUME NEW t \in Tasks, Spawn(t) PROVE Lease!Next \/ UNCHANGED Lease!vars
  <2>1. CASE Running
    <3>1. \A u \in Tasks : Holding(u) = Lease!Free
      BY <1>8, <2>1 DEF Spawn, OneOwner
    <3>2. \A u \in Tasks : Holding(u)' = IF u = t THEN Lease!Forming(cur[t]) ELSE Holding(u)
      BY <1>8, <2>1 DEF Spawn, Goto
    <3>3. cur[t] \in Ids /\ processed' = processed
      BY <1>8 DEF Spawn
    <3> QED
      BY <3>1, <3>2, <3>3, LeaseForms
  <2>2. CASE ~Running
    BY <1>8, <2>2, LeaseStutters DEF Spawn, Finish
  <2> QED
    BY <2>1, <2>2
<1>9. ASSUME NEW t \in Tasks, Claim(t) PROVE Lease!Next \/ UNCHANGED Lease!vars
  <2>1. CASE Running /\ ~maint /\ slot = 0
    <3>1. \A u \in Tasks : Holding(u) = Lease!Free
      BY <1>9, <2>1 DEF Claim, OneOwner, OneCycle
    <3>2. \A u \in Tasks : Holding(u)' = IF u = t THEN Lease!Forming(cur[t]) ELSE Holding(u)
      BY <1>9, <2>1 DEF Claim, Goto
    <3>3. cur[t] \in Ids /\ processed' = processed
      BY <1>9 DEF Claim
    <3> QED
      BY <3>1, <3>2, <3>3, LeaseForms
  <2>2. CASE ~(Running /\ ~maint /\ slot = 0)
    BY <1>9, <2>2, LeaseStutters DEF Claim, Finish, Goto
  <2> QED
    BY <2>1, <2>2
<1>10. ASSUME NEW t \in Tasks, SettlePass(t) PROVE Lease!Next \/ UNCHANGED Lease!vars
  <2>1. CASE status[cur[t]] \in Terminal /\ processed < cur[t]
    <3>1. cur[t] \in Ids /\ processed' = cur[t] /\ Holding(t) = Lease!Forming(cur[t])
      BY <1>10, <2>1 DEF SettlePass, MaxOf
    <3>2. \A u \in Tasks : Holding(u)' = Holding(u)
      BY <1>10, <2>1 DEF SettlePass, Goto
    <3> QED
      BY <2>1, <3>1, <3>2, LeaseSettles
  <2>2. CASE status[cur[t]] \in Terminal /\ ~(processed < cur[t])
    <3>1. processed' = processed
      BY <1>10, <2>2 DEF SettlePass, MaxOf
    <3>2. \A u \in Tasks : Holding(u)' = Holding(u)
      BY <1>10, <2>2 DEF SettlePass, Goto
    <3> QED
      BY <3>1, <3>2, LeaseStutters
  <2>3. CASE status[cur[t]] \notin Terminal
    <3>1. \A u \in Tasks : Holding(u)' = IF u = t THEN Lease!Free ELSE Holding(u)
      BY <1>10, <2>3 DEF SettlePass, Finish
    <3>2. processed' = processed
      BY <1>10, <2>3 DEF SettlePass
    <3> QED
      BY <3>1, <3>2, LeaseEndsFor
  <2> QED
    BY <2>1, <2>2, <2>3
<1>11. ASSUME NEW t \in Tasks, Schedule(t) PROVE Lease!Next \/ UNCHANGED Lease!vars
  <2>1. CASE pc' = [pc EXCEPT ![t] = "handoff"]
    <3>1. cur[t] \in Ids /\ cur[t] <= processed /\ processed' = processed /\ Holding(t) = Lease!Forming(cur[t])
      BY <1>11 DEF Schedule, SettledFirst
    <3>2. \A u \in Tasks : Holding(u)' = IF u = t THEN Lease!Maintaining ELSE Holding(u)
      BY <1>11, <2>1 DEF Schedule
    <3> QED
      BY <3>1, <3>2, LeaseHandsOver
  <2>2. CASE pc' = [pc EXCEPT ![t] = "next"]
    BY <1>11, <2>2, LeaseStutters DEF Schedule
  <2> QED
    BY <1>11, <2>1, <2>2 DEF Schedule, Goto
<1>12. ASSUME NEW t \in Tasks, HandOffFails(t) PROVE Lease!Next
  <2>1. cur[t] \in Ids /\ cur[t] <= processed /\ processed' = processed /\ Holding(t) = Lease!Maintaining
    BY <1>12 DEF HandOffFails, SettledFirst
  <2>2. \A u \in Tasks : Holding(u)' = IF u = t THEN Lease!Forming(cur[t]) ELSE Holding(u)
    BY <1>12 DEF HandOffFails, Goto
  <2> QED
    BY <2>1, <2>2, LeaseIsTakenBack
<1>13. ASSUME NEW t \in Tasks, NextConversation(t) PROVE Lease!Next \/ UNCHANGED Lease!vars
  <2> DEFINE next == FindNextSubmitted(cur[t])
  <2>1. next # 0 => next \in Ids /\ cur[t] < next
    BY FindNextSubmittedIsLeast
  <2> HIDE DEF next
  <2>2. CASE pc' = [pc EXCEPT ![t] = "process"] /\ next # 0 /\ cur' = [cur EXCEPT ![t] = next] /\ Running
    <3>1. cur[t] \in Ids /\ processed' = processed /\ Holding(t) = Lease!Forming(cur[t])
      BY <1>13, <2>2 DEF NextConversation
    <3>2. \A u \in Tasks : Holding(u)' = IF u = t THEN Lease!Forming(next) ELSE Holding(u)
      BY <1>13, <2>1, <2>2 DEF NextConversation
    <3> QED
      BY <2>1, <2>2, <3>1, <3>2, LeaseProceeds
  <2>3. CASE Finish(t) /\ Running
    <3>1. \A u \in Tasks : Holding(u)' = IF u = t THEN Lease!Free ELSE Holding(u)
      BY <1>13, <2>3 DEF NextConversation, Finish
    <3>2. processed' = processed
      BY <1>13 DEF NextConversation
    <3> QED
      BY <3>1, <3>2, LeaseEndsFor
  <2>4. CASE pc' = [pc EXCEPT ![t] = "release"] /\ UNCHANGED locals
    BY <1>13, <2>4, LeaseStutters DEF NextConversation
  <2>5. CASE ~Running
    BY <1>13, <2>5, LeaseStutters DEF NextConversation, Goto, Finish
  <2> QED
    BY <1>13, <2>2, <2>3, <2>4, <2>5 DEF NextConversation, Goto, next
<1>14. ASSUME NEW t \in Tasks, Release(t) \/ Wake(t) \/ AbortMaintenance(t) PROVE Lease!Next
  <2>1. \A u \in Tasks : Holding(u)' = IF u = t THEN Lease!Free ELSE Holding(u)
    BY <1>14 DEF Release, Wake, AbortMaintenance, Goto, Finish
  <2>2. processed' = processed
    BY <1>14 DEF Release, Wake, AbortMaintenance
  <2> QED
    BY <2>1, <2>2, LeaseEndsFor
<1>15. ASSUME NEW t \in Tasks, ClaimMaintenance(t) PROVE Lease!Next \/ UNCHANGED Lease!vars
  <2>1. CASE slot = 0 /\ ~maint
    <3>1. \A u \in Tasks : Holding(u) = Lease!Free
      BY <1>15, <2>1 DEF ClaimMaintenance, OneOwner, OneCycle
    <3>2. \A u \in Tasks : Holding(u)' = IF u = t THEN Lease!Maintaining ELSE Holding(u)
      BY <1>15, <2>1 DEF ClaimMaintenance, Goto
    <3>3. processed' = processed
      BY <1>15 DEF ClaimMaintenance
    <3> QED
      BY <3>1, <3>2, <3>3, LeaseBegins
  <2>2. CASE ~(slot = 0 /\ ~maint)
    BY <1>15, <2>2, LeaseStutters DEF ClaimMaintenance, Finish
  <2> QED
    BY <2>1, <2>2
<1>16. ASSUME NEW t \in Tasks, StartSleep(t) PROVE Lease!Next \/ UNCHANGED Lease!vars
  <2>1. CASE Running
    BY <1>16, <2>1, LeaseStutters DEF StartSleep, Goto
  <2>2. CASE ~Running
    <3>1. \A u \in Tasks : Holding(u)' = IF u = t THEN Lease!Free ELSE Holding(u)
      BY <1>16, <2>2 DEF StartSleep, Finish
    <3>2. processed' = processed
      BY <1>16 DEF StartSleep
    <3> QED
      BY <3>1, <3>2, LeaseEndsFor
  <2> QED
    BY <2>1, <2>2
<1>17. CASE BeginClose \/ CaptureAgain \/ CancelEngine \/ Reconcile
  BY <1>17, LeaseStutters DEF BeginClose, CaptureAgain, CancelEngine, Reconcile
<1>18. CASE CancelTasks
  <2> DEFINE S == {u \in Tasks : pc[u] # "metabolize"}
  <2>1. \A u \in Tasks : Holding(u)' = IF u \in S THEN Lease!Free ELSE Holding(u)
    BY <1>18 DEF CancelTasks
  <2>2. processed' = processed
    BY <1>18 DEF CancelTasks
  <2> QED
    BY <2>1, <2>2, LeaseEnds
<1>19. CASE Crash
  <2>1. \A u \in Tasks : Holding(u)' = IF u \in Tasks THEN Lease!Free ELSE Holding(u)
    BY <1>19 DEF Crash
  <2>2. processed' = processed
    BY <1>19 DEF Crash
  <2> QED
    BY <2>1, <2>2, LeaseEnds
<1>20. CASE UNCHANGED vars
  BY <1>20, LeaseStutters DEF vars
<1> QED
  BY <1>1, <1>2, <1>3, <1>4, <1>5, <1>6, <1>7, <1>8, <1>9, <1>10, <1>11, <1>12, <1>13, <1>14, <1>15,
     <1>16, <1>17, <1>18, <1>19, <1>20
  DEF Next, Step, Arrive

\* The ProcessingGate implements the lease of the graph, for any number of tasks
\* and conversations and under every fault of the model.
THEOREM GateImplementsLease == Spec => GraphIsLeased
<1>1. Init => GateInv /\ SettledFirst
  BY GateInvInit DEF Init, SettledFirst
<1>2. Init => Lease!Init
  BY DEF Init, Lease!Init, Holding, Lease!Free, Running, OwnerPcs, MaintPcs
<1>3. GateInv /\ SettledFirst /\ [Next]_vars => (GateInv /\ SettledFirst)'
  BY GateInvStep, SettledFirstStep DEF GateInv
<1> QED
  BY <1>1, <1>2, <1>3, LeaseStep, PTL DEF Spec, GraphIsLeased, Lease!Spec

-----------------------------------------------------------------------------
(* A taken slot or flag has a task that gives it back.                     *)

SlotHeld == slot # 0 => \E t \in Tasks : pc[t] \in OwnerPcs /\ cur[t] = slot

FlagHeld == maint => \E t \in Tasks : pc[t] \in MaintPcs

\* Who leaves the owner's states frees the slot, and no one else's.
LEMMA SlotHeldStep == OtherTypes /\ SlotHeld /\ [Next]_vars => SlotHeld'
<1> SUFFICES ASSUME OtherTypes, SlotHeld, [Next]_vars
             PROVE  SlotHeld'
  OBVIOUS
<1> USE DEF SlotHeld, OtherTypes, OwnerPcs, LeavingPcs, OwnedPcs, durable, gate, lifecycle, locals
<1>1. ASSUME NEW t \in Tasks, AddConversation(t) PROVE SlotHeld'
  BY <1>1 DEF AddConversation, Goto
<1>2. ASSUME NEW t \in Tasks, OperatorRestart(t) PROVE SlotHeld'
  BY <1>2 DEF OperatorRestart, Goto
<1>3. ASSUME NEW t \in Tasks, RequestMaintenance(t) PROVE SlotHeld'
  BY <1>3 DEF RequestMaintenance, Goto
<1>4. ASSUME NEW t \in Tasks, ClockMaintenance(t) PROVE SlotHeld'
  BY <1>4 DEF ClockMaintenance, Goto
<1>5. ASSUME NEW t \in Tasks, OpenSpace(t) PROVE SlotHeld'
  BY <1>5 DEF OpenSpace, Goto
<1>6. ASSUME NEW t \in Tasks, Resume(t) PROVE SlotHeld'
  BY <1>6 DEF Resume, Goto
<1>7. ASSUME NEW t \in Tasks, LoadSlot(t) PROVE SlotHeld'
  BY <1>7 DEF LoadSlot, Goto, Finish
<1>8. ASSUME NEW t \in Tasks, LoadMaintenance(t) PROVE SlotHeld'
  BY <1>8 DEF LoadMaintenance, Goto, Finish
<1>9. ASSUME NEW t \in Tasks, LoadProcessed(t) PROVE SlotHeld'
  BY <1>9 DEF LoadProcessed, Goto
<1>10. ASSUME NEW t \in Tasks, Find(t) PROVE SlotHeld'
  BY <1>10 DEF Find, Goto, Finish
<1>11. ASSUME NEW t \in Tasks, TryProcess(t) PROVE SlotHeld'
  BY <1>11 DEF TryProcess, Goto, Finish
<1>12. ASSUME NEW t \in Tasks, Spawn(t) PROVE SlotHeld'
  BY <1>12 DEF Spawn, Goto, Finish
<1>13. ASSUME NEW t \in Tasks, PersistTurn(t) PROVE SlotHeld'
  BY <1>13 DEF PersistTurn
<1>14. ASSUME NEW t \in Tasks, EndPass(t) PROVE SlotHeld'
  BY <1>14 DEF EndPass, Goto
<1>15. ASSUME NEW t \in Tasks, RetryPass(t) PROVE SlotHeld'
  BY <1>15 DEF RetryPass, Goto
<1>16. ASSUME NEW t \in Tasks, RecordFailedRound(t) PROVE SlotHeld'
  BY <1>16 DEF RecordFailedRound, Goto
<1>17. ASSUME NEW t \in Tasks, SettlePass(t) PROVE SlotHeld'
  BY <1>17 DEF SettlePass, Goto, Finish
<1>18. ASSUME NEW t \in Tasks, Schedule(t) PROVE SlotHeld'
  BY <1>18 DEF Schedule, Goto
<1>19. ASSUME NEW t \in Tasks, HandOff(t) PROVE SlotHeld'
  BY <1>19 DEF HandOff, Goto
<1>20. ASSUME NEW t \in Tasks, HandOffFails(t) PROVE SlotHeld'
  BY <1>20 DEF HandOffFails, Goto
<1>21. ASSUME NEW t \in Tasks, NextConversation(t) PROVE SlotHeld'
  BY <1>21 DEF NextConversation, Goto, Finish
<1>22. ASSUME NEW t \in Tasks, Release(t) PROVE SlotHeld'
  BY <1>22 DEF Release, Goto
<1>23. ASSUME NEW t \in Tasks, Recheck(t) PROVE SlotHeld'
  BY <1>23 DEF Recheck, Goto, Finish
<1>24. ASSUME NEW t \in Tasks, Claim(t) PROVE SlotHeld'
  BY <1>24 DEF Claim, Goto, Finish
<1>25. ASSUME NEW t \in Tasks, ClaimMaintenance(t) PROVE SlotHeld'
  BY <1>25 DEF ClaimMaintenance, Goto, Finish
<1>26. ASSUME NEW t \in Tasks, StartSleep(t) PROVE SlotHeld'
  BY <1>26 DEF StartSleep, Goto, Finish
<1>27. ASSUME NEW t \in Tasks, AbortMaintenance(t) PROVE SlotHeld'
  BY <1>27 DEF AbortMaintenance, Finish
<1>28. ASSUME NEW t \in Tasks, EndSleep(t) PROVE SlotHeld'
  BY <1>28 DEF EndSleep, Goto
<1>29. ASSUME NEW t \in Tasks, Wake(t) PROVE SlotHeld'
  BY <1>29 DEF Wake
<1>30. ASSUME NEW t \in Tasks, DropTask(t) PROVE SlotHeld'
  BY <1>30 DEF DropTask, Finish
<1>31. CASE BeginClose
  BY <1>31 DEF BeginClose
<1>32. CASE CaptureAgain
  BY <1>32 DEF CaptureAgain
<1>33. CASE CancelTasks
  BY <1>33 DEF CancelTasks
<1>34. CASE CancelEngine
  BY <1>34 DEF CancelEngine
<1>35. CASE Reconcile
  BY <1>35 DEF Reconcile
<1>36. CASE Crash
  BY <1>36 DEF Crash
<1>37. CASE UNCHANGED vars
  BY <1>37 DEF vars
<1> QED
  BY <1>1, <1>2, <1>3, <1>4, <1>5, <1>6, <1>7, <1>8, <1>9, <1>10, <1>11, <1>12, <1>13, <1>14,
     <1>15, <1>16, <1>17, <1>18, <1>19, <1>20, <1>21, <1>22, <1>23, <1>24, <1>25, <1>26, <1>27,
     <1>28, <1>29, <1>30, <1>31, <1>32, <1>33, <1>34, <1>35, <1>36, <1>37
  DEF Next, Step, Arrive

\* Who leaves the holder's states puts the flag down.
LEMMA FlagHeldStep == FlagTypes /\ OtherTypes /\ FlagHeld /\ [Next]_vars => FlagHeld'
<1> SUFFICES ASSUME FlagTypes, OtherTypes, FlagHeld, [Next]_vars
             PROVE  FlagHeld'
  OBVIOUS
<1> USE DEF FlagHeld, FlagTypes, OtherTypes, MaintPcs, durable, gate, lifecycle, locals
<1>1. ASSUME NEW t \in Tasks, AddConversation(t) PROVE FlagHeld'
  BY <1>1 DEF AddConversation, Goto
<1>2. ASSUME NEW t \in Tasks, OperatorRestart(t) PROVE FlagHeld'
  BY <1>2 DEF OperatorRestart, Goto
<1>3. ASSUME NEW t \in Tasks, RequestMaintenance(t) PROVE FlagHeld'
  BY <1>3 DEF RequestMaintenance, Goto
<1>4. ASSUME NEW t \in Tasks, ClockMaintenance(t) PROVE FlagHeld'
  BY <1>4 DEF ClockMaintenance, Goto
<1>5. ASSUME NEW t \in Tasks, OpenSpace(t) PROVE FlagHeld'
  BY <1>5 DEF OpenSpace, Goto
<1>6. ASSUME NEW t \in Tasks, Resume(t) PROVE FlagHeld'
  BY <1>6 DEF Resume, Goto
<1>7. ASSUME NEW t \in Tasks, LoadSlot(t) PROVE FlagHeld'
  BY <1>7 DEF LoadSlot, Goto, Finish
<1>8. ASSUME NEW t \in Tasks, LoadMaintenance(t) PROVE FlagHeld'
  BY <1>8 DEF LoadMaintenance, Goto, Finish
<1>9. ASSUME NEW t \in Tasks, LoadProcessed(t) PROVE FlagHeld'
  BY <1>9 DEF LoadProcessed, Goto
<1>10. ASSUME NEW t \in Tasks, Find(t) PROVE FlagHeld'
  BY <1>10 DEF Find, Goto, Finish
<1>11. ASSUME NEW t \in Tasks, TryProcess(t) PROVE FlagHeld'
  BY <1>11 DEF TryProcess, Goto, Finish
<1>12. ASSUME NEW t \in Tasks, Spawn(t) PROVE FlagHeld'
  BY <1>12 DEF Spawn, Goto, Finish
<1>13. ASSUME NEW t \in Tasks, PersistTurn(t) PROVE FlagHeld'
  BY <1>13 DEF PersistTurn
<1>14. ASSUME NEW t \in Tasks, EndPass(t) PROVE FlagHeld'
  BY <1>14 DEF EndPass, Goto
<1>15. ASSUME NEW t \in Tasks, RetryPass(t) PROVE FlagHeld'
  BY <1>15 DEF RetryPass, Goto
<1>16. ASSUME NEW t \in Tasks, RecordFailedRound(t) PROVE FlagHeld'
  BY <1>16 DEF RecordFailedRound, Goto
<1>17. ASSUME NEW t \in Tasks, SettlePass(t) PROVE FlagHeld'
  BY <1>17 DEF SettlePass, Goto, Finish
<1>18. ASSUME NEW t \in Tasks, Schedule(t) PROVE FlagHeld'
  BY <1>18 DEF Schedule, Goto
<1>19. ASSUME NEW t \in Tasks, HandOff(t) PROVE FlagHeld'
  BY <1>19 DEF HandOff, Goto
<1>20. ASSUME NEW t \in Tasks, HandOffFails(t) PROVE FlagHeld'
  BY <1>20 DEF HandOffFails, Goto
<1>21. ASSUME NEW t \in Tasks, NextConversation(t) PROVE FlagHeld'
  BY <1>21 DEF NextConversation, Goto, Finish
<1>22. ASSUME NEW t \in Tasks, Release(t) PROVE FlagHeld'
  BY <1>22 DEF Release, Goto
<1>23. ASSUME NEW t \in Tasks, Recheck(t) PROVE FlagHeld'
  BY <1>23 DEF Recheck, Goto, Finish
<1>24. ASSUME NEW t \in Tasks, Claim(t) PROVE FlagHeld'
  BY <1>24 DEF Claim, Goto, Finish
<1>25. ASSUME NEW t \in Tasks, ClaimMaintenance(t) PROVE FlagHeld'
  BY <1>25 DEF ClaimMaintenance, Goto, Finish
<1>26. ASSUME NEW t \in Tasks, StartSleep(t) PROVE FlagHeld'
  BY <1>26 DEF StartSleep, Goto, Finish
<1>27. ASSUME NEW t \in Tasks, AbortMaintenance(t) PROVE FlagHeld'
  BY <1>27 DEF AbortMaintenance, Finish
<1>28. ASSUME NEW t \in Tasks, EndSleep(t) PROVE FlagHeld'
  BY <1>28 DEF EndSleep, Goto
<1>29. ASSUME NEW t \in Tasks, Wake(t) PROVE FlagHeld'
  BY <1>29 DEF Wake
<1>30. ASSUME NEW t \in Tasks, DropTask(t) PROVE FlagHeld'
  BY <1>30 DEF DropTask, Finish
<1>31. CASE BeginClose
  BY <1>31 DEF BeginClose
<1>32. CASE CaptureAgain
  BY <1>32 DEF CaptureAgain
<1>33. CASE CancelTasks
  BY <1>33 DEF CancelTasks
<1>34. CASE CancelEngine
  BY <1>34 DEF CancelEngine
<1>35. CASE Reconcile
  BY <1>35 DEF Reconcile
<1>36. CASE Crash
  BY <1>36 DEF Crash
<1>37. CASE UNCHANGED vars
  BY <1>37 DEF vars
<1> QED
  BY <1>1, <1>2, <1>3, <1>4, <1>5, <1>6, <1>7, <1>8, <1>9, <1>10, <1>11, <1>12, <1>13, <1>14,
     <1>15, <1>16, <1>17, <1>18, <1>19, <1>20, <1>21, <1>22, <1>23, <1>24, <1>25, <1>26, <1>27,
     <1>28, <1>29, <1>30, <1>31, <1>32, <1>33, <1>34, <1>35, <1>36, <1>37
  DEF Next, Step, Arrive

-----------------------------------------------------------------------------
(* The cadence.                                                            *)

\* A cycle records a watermark read after every recorded one, and not after now.
CadenceInv ==
    /\ \A s \in Scopes : doneAt[s] <= processed
    /\ \A t \in Tasks : pc[t] \in MaintPcs =>
         mark[t] <= processed /\ \A s \in Scopes : doneAt[s] <= mark[t]

\* A cycle is claimed at the current watermark, and no other one ends meanwhile.
LEMMA CadenceInvStep == OtherTypes /\ OneCycle /\ CadenceInv /\ [Next]_vars => CadenceInv'
<1> SUFFICES ASSUME OtherTypes, OneCycle, CadenceInv, [Next]_vars
             PROVE  CadenceInv'
  OBVIOUS
<1> USE MaxConvAssumption DEF CadenceInv, OtherTypes, OneCycle, MaintPcs, Ids, Ids0, durable, gate, lifecycle, locals
<1>1. ASSUME NEW t \in Tasks, AddConversation(t) PROVE CadenceInv'
  BY <1>1 DEF AddConversation, Goto
<1>2. ASSUME NEW t \in Tasks, OperatorRestart(t) PROVE CadenceInv'
  BY <1>2 DEF OperatorRestart, Goto
<1>3. ASSUME NEW t \in Tasks, RequestMaintenance(t) PROVE CadenceInv'
  BY <1>3 DEF RequestMaintenance, Goto
<1>4. ASSUME NEW t \in Tasks, ClockMaintenance(t) PROVE CadenceInv'
  BY <1>4 DEF ClockMaintenance, Goto
<1>5. ASSUME NEW t \in Tasks, OpenSpace(t) PROVE CadenceInv'
  BY <1>5 DEF OpenSpace, Goto
<1>6. ASSUME NEW t \in Tasks, Resume(t) PROVE CadenceInv'
  BY <1>6 DEF Resume, Goto
<1>7. ASSUME NEW t \in Tasks, LoadSlot(t) PROVE CadenceInv'
  BY <1>7 DEF LoadSlot, Goto, Finish
<1>8. ASSUME NEW t \in Tasks, LoadMaintenance(t) PROVE CadenceInv'
  BY <1>8 DEF LoadMaintenance, Goto, Finish
<1>9. ASSUME NEW t \in Tasks, LoadProcessed(t) PROVE CadenceInv'
  BY <1>9 DEF LoadProcessed, Goto
<1>10. ASSUME NEW t \in Tasks, Find(t) PROVE CadenceInv'
  BY <1>10 DEF Find, Goto, Finish
<1>11. ASSUME NEW t \in Tasks, TryProcess(t) PROVE CadenceInv'
  BY <1>11 DEF TryProcess, Goto, Finish
<1>12. ASSUME NEW t \in Tasks, Spawn(t) PROVE CadenceInv'
  BY <1>12 DEF Spawn, Goto, Finish
<1>13. ASSUME NEW t \in Tasks, PersistTurn(t) PROVE CadenceInv'
  BY <1>13 DEF PersistTurn
<1>14. ASSUME NEW t \in Tasks, EndPass(t) PROVE CadenceInv'
  BY <1>14 DEF EndPass, Goto
<1>15. ASSUME NEW t \in Tasks, RetryPass(t) PROVE CadenceInv'
  BY <1>15 DEF RetryPass, Goto
<1>16. ASSUME NEW t \in Tasks, RecordFailedRound(t) PROVE CadenceInv'
  BY <1>16 DEF RecordFailedRound, Goto
<1>17. ASSUME NEW t \in Tasks, SettlePass(t) PROVE CadenceInv'
  <2>1. processed' >= processed /\ UNCHANGED doneAt
    BY <1>17 DEF SettlePass, MaxOf
  <2>2. \A u \in Tasks : pc'[u] \in MaintPcs => pc[u] = pc'[u] /\ mark'[u] = mark[u]
    BY <1>17 DEF SettlePass, Goto, Finish
  <2>3. processed \in Nat /\ processed' \in Nat
    BY <1>17 DEF SettlePass, MaxOf
  <2>4. \A s \in Scopes : doneAt[s] \in Nat /\ doneAt'[s] = doneAt[s] /\ doneAt'[s] <= processed'
    BY <2>1, <2>3
  <2>5. ASSUME NEW u \in Tasks, pc'[u] \in MaintPcs
        PROVE  mark'[u] <= processed' /\ \A s \in Scopes : doneAt'[s] <= mark'[u]
    <3>1. mark[u] \in Nat /\ mark[u] <= processed /\ mark'[u] = mark[u] /\ \A s \in Scopes : doneAt[s] <= mark[u]
      BY <2>2, <2>5
    <3> QED
      BY <2>1, <2>3, <2>4, <3>1
  <2> QED
    BY <2>4, <2>5
<1>18. ASSUME NEW t \in Tasks, Schedule(t) PROVE CadenceInv'
  BY <1>18 DEF Schedule, Goto
<1>19. ASSUME NEW t \in Tasks, HandOff(t) PROVE CadenceInv'
  BY <1>19 DEF HandOff, Goto
<1>20. ASSUME NEW t \in Tasks, HandOffFails(t) PROVE CadenceInv'
  BY <1>20 DEF HandOffFails, Goto
<1>21. ASSUME NEW t \in Tasks, NextConversation(t) PROVE CadenceInv'
  BY <1>21 DEF NextConversation, Goto, Finish
<1>22. ASSUME NEW t \in Tasks, Release(t) PROVE CadenceInv'
  BY <1>22 DEF Release, Goto
<1>23. ASSUME NEW t \in Tasks, Recheck(t) PROVE CadenceInv'
  BY <1>23 DEF Recheck, Goto, Finish
<1>24. ASSUME NEW t \in Tasks, Claim(t) PROVE CadenceInv'
  BY <1>24 DEF Claim, Goto, Finish
<1>25. ASSUME NEW t \in Tasks, ClaimMaintenance(t) PROVE CadenceInv'
  BY <1>25 DEF ClaimMaintenance, Goto, Finish
<1>26. ASSUME NEW t \in Tasks, StartSleep(t) PROVE CadenceInv'
  BY <1>26 DEF StartSleep, Goto, Finish
<1>27. ASSUME NEW t \in Tasks, AbortMaintenance(t) PROVE CadenceInv'
  BY <1>27 DEF AbortMaintenance, Finish
<1>28. ASSUME NEW t \in Tasks, EndSleep(t) PROVE CadenceInv'
  <2>1. \A s \in Scopes : doneAt'[s] = doneAt[s] \/ doneAt'[s] = mark[t]
    BY <1>28 DEF EndSleep
  <2>2. \A u \in Tasks : pc'[u] \in MaintPcs => u = t
    BY <1>28 DEF EndSleep, Goto
  <2>3. UNCHANGED <<processed, mark>> /\ pc[t] \in MaintPcs
    BY <1>28 DEF EndSleep
  <2>4. processed \in Nat /\ mark[t] \in Nat /\ mark[t] <= processed /\ \A s \in Scopes : doneAt[s] \in Nat /\ doneAt[s] <= mark[t]
    BY <2>3
  <2>5. ASSUME NEW s \in Scopes PROVE doneAt'[s] <= mark[t] /\ doneAt'[s] <= processed
    <3>1. CASE doneAt'[s] = doneAt[s]
      BY <2>4, <3>1
    <3>2. CASE doneAt'[s] = mark[t]
      BY <2>4, <3>2
    <3> QED
      BY <2>1, <3>1, <3>2
  <2> QED
    BY <2>2, <2>3, <2>4, <2>5
<1>29. ASSUME NEW t \in Tasks, Wake(t) PROVE CadenceInv'
  BY <1>29 DEF Wake
<1>30. ASSUME NEW t \in Tasks, DropTask(t) PROVE CadenceInv'
  BY <1>30 DEF DropTask, Finish
<1>31. CASE BeginClose
  BY <1>31 DEF BeginClose
<1>32. CASE CaptureAgain
  BY <1>32 DEF CaptureAgain
<1>33. CASE CancelTasks
  BY <1>33 DEF CancelTasks
<1>34. CASE CancelEngine
  BY <1>34 DEF CancelEngine
<1>35. CASE Reconcile
  BY <1>35 DEF Reconcile
<1>36. CASE Crash
  BY <1>36 DEF Crash
<1>37. CASE UNCHANGED vars
  BY <1>37 DEF vars
<1> QED
  BY <1>1, <1>2, <1>3, <1>4, <1>5, <1>6, <1>7, <1>8, <1>9, <1>10, <1>11, <1>12, <1>13, <1>14,
     <1>15, <1>16, <1>17, <1>18, <1>19, <1>20, <1>21, <1>22, <1>23, <1>24, <1>25, <1>26, <1>27,
     <1>28, <1>29, <1>30, <1>31, <1>32, <1>33, <1>34, <1>35, <1>36, <1>37
  DEF Next, Step, Arrive

-----------------------------------------------------------------------------
(* The order of the queue.                                                 *)

\* Conversations are added at the end, and a task names one that was added.
Added ==
    /\ \A c, d \in Ids : c < d /\ status[d] # "none" => status[c] # "none"
    /\ \A t \in Tasks : cur[t] # 0 => status[cur[t]] # "none"

\* No status goes back to none.
LEMMA AddedStep == OtherTypes /\ HasConversation /\ Added /\ [Next]_vars => Added'
<1> SUFFICES ASSUME OtherTypes, HasConversation, Added, [Next]_vars
             PROVE  Added'
  OBVIOUS
<1> USE OutcomesAssumption, MaxConvAssumption DEF Added, HasConversation, OwnerPcs, LeavingPcs, OtherTypes, Ids, Ids0, durable, gate, lifecycle, locals
<1>1. ASSUME NEW t \in Tasks, AddConversation(t) PROVE Added'
  BY <1>1 DEF AddConversation, Goto
<1>2. ASSUME NEW t \in Tasks, OperatorRestart(t) PROVE Added'
  BY <1>2 DEF OperatorRestart, Goto
<1>3. ASSUME NEW t \in Tasks, RequestMaintenance(t) PROVE Added'
  BY <1>3 DEF RequestMaintenance, Goto
<1>4. ASSUME NEW t \in Tasks, ClockMaintenance(t) PROVE Added'
  BY <1>4 DEF ClockMaintenance, Goto
<1>5. ASSUME NEW t \in Tasks, OpenSpace(t) PROVE Added'
  BY <1>5 DEF OpenSpace, Goto
<1>6. ASSUME NEW t \in Tasks, Resume(t) PROVE Added'
  BY <1>6 DEF Resume, Goto
<1>7. ASSUME NEW t \in Tasks, LoadSlot(t) PROVE Added'
  BY <1>7 DEF LoadSlot, Goto, Finish
<1>8. ASSUME NEW t \in Tasks, LoadMaintenance(t) PROVE Added'
  BY <1>8 DEF LoadMaintenance, Goto, Finish
<1>9. ASSUME NEW t \in Tasks, LoadProcessed(t) PROVE Added'
  BY <1>9 DEF LoadProcessed, Goto
<1>10. ASSUME NEW t \in Tasks, Find(t) PROVE Added'
  <2>1. mark[t] \in Nat
    OBVIOUS
  <2>2. FindNextSubmitted(mark[t]) \in Ids0 /\ (FindNextSubmitted(mark[t]) # 0 => status[FindNextSubmitted(mark[t])] # "none")
    BY <2>1, FindNextSubmittedIsLeast DEF Pending
  <2> QED
    BY <1>10, <2>2 DEF Find, Goto, Finish
<1>11. ASSUME NEW t \in Tasks, TryProcess(t) PROVE Added'
  BY <1>11 DEF TryProcess, Goto, Finish
<1>12. ASSUME NEW t \in Tasks, Spawn(t) PROVE Added'
  BY <1>12 DEF Spawn, Goto, Finish
<1>13. ASSUME NEW t \in Tasks, PersistTurn(t) PROVE Added'
  BY <1>13 DEF PersistTurn
<1>14. ASSUME NEW t \in Tasks, EndPass(t) PROVE Added'
  BY <1>14 DEF EndPass, Goto
<1>15. ASSUME NEW t \in Tasks, RetryPass(t) PROVE Added'
  BY <1>15 DEF RetryPass, Goto
<1>16. ASSUME NEW t \in Tasks, RecordFailedRound(t) PROVE Added'
  BY <1>16 DEF RecordFailedRound, Goto
<1>17. ASSUME NEW t \in Tasks, SettlePass(t) PROVE Added'
  BY <1>17 DEF SettlePass, Goto, Finish
<1>18. ASSUME NEW t \in Tasks, Schedule(t) PROVE Added'
  BY <1>18 DEF Schedule, Goto
<1>19. ASSUME NEW t \in Tasks, HandOff(t) PROVE Added'
  BY <1>19 DEF HandOff, Goto
<1>20. ASSUME NEW t \in Tasks, HandOffFails(t) PROVE Added'
  BY <1>20 DEF HandOffFails, Goto
<1>21. ASSUME NEW t \in Tasks, NextConversation(t) PROVE Added'
  <2>1. cur[t] \in Nat
    OBVIOUS
  <2>2. FindNextSubmitted(cur[t]) \in Ids0 /\ (FindNextSubmitted(cur[t]) # 0 => status[FindNextSubmitted(cur[t])] # "none")
    BY <2>1, FindNextSubmittedIsLeast DEF Pending
  <2> QED
    BY <1>21, <2>2 DEF NextConversation, Goto, Finish
<1>22. ASSUME NEW t \in Tasks, Release(t) PROVE Added'
  BY <1>22 DEF Release, Goto
<1>23. ASSUME NEW t \in Tasks, Recheck(t) PROVE Added'
  <2>1. cur[t] \in Nat
    OBVIOUS
  <2>2. FindNextSubmitted(cur[t]) \in Ids0 /\ (FindNextSubmitted(cur[t]) # 0 => status[FindNextSubmitted(cur[t])] # "none")
    BY <2>1, FindNextSubmittedIsLeast DEF Pending
  <2> QED
    BY <1>23, <2>2 DEF Recheck, Goto, Finish
<1>24. ASSUME NEW t \in Tasks, Claim(t) PROVE Added'
  BY <1>24 DEF Claim, Goto, Finish
<1>25. ASSUME NEW t \in Tasks, ClaimMaintenance(t) PROVE Added'
  BY <1>25 DEF ClaimMaintenance, Goto, Finish
<1>26. ASSUME NEW t \in Tasks, StartSleep(t) PROVE Added'
  BY <1>26 DEF StartSleep, Goto, Finish
<1>27. ASSUME NEW t \in Tasks, AbortMaintenance(t) PROVE Added'
  BY <1>27 DEF AbortMaintenance, Finish
<1>28. ASSUME NEW t \in Tasks, EndSleep(t) PROVE Added'
  BY <1>28 DEF EndSleep, Goto
<1>29. ASSUME NEW t \in Tasks, Wake(t) PROVE Added'
  BY <1>29 DEF Wake
<1>30. ASSUME NEW t \in Tasks, DropTask(t) PROVE Added'
  BY <1>30 DEF DropTask, Finish
<1>31. CASE BeginClose
  BY <1>31 DEF BeginClose
<1>32. CASE CaptureAgain
  BY <1>32 DEF CaptureAgain
<1>33. CASE CancelTasks
  BY <1>33 DEF CancelTasks
<1>34. CASE CancelEngine
  BY <1>34 DEF CancelEngine
<1>35. CASE Reconcile
  <2>1. \A c \in Ids : status'[c] = "none" => status[c] = "none"
    BY <1>35 DEF Reconcile
  <2>2. \A c \in Ids : status[c] = "none" => status'[c] = "none"
    BY <1>35 DEF Reconcile, Pending
  <2> QED
    BY <1>35, <2>1, <2>2 DEF Reconcile
<1>36. CASE Crash
  BY <1>36 DEF Crash
<1>37. CASE UNCHANGED vars
  BY <1>37 DEF vars
<1> QED
  BY <1>1, <1>2, <1>3, <1>4, <1>5, <1>6, <1>7, <1>8, <1>9, <1>10, <1>11, <1>12, <1>13, <1>14,
     <1>15, <1>16, <1>17, <1>18, <1>19, <1>20, <1>21, <1>22, <1>23, <1>24, <1>25, <1>26, <1>27,
     <1>28, <1>29, <1>30, <1>31, <1>32, <1>33, <1>34, <1>35, <1>36, <1>37
  DEF Next, Step, Arrive

\* A task that works for the gate alone has no conversation, and one that is past the
\* settlement of its own has moved the watermark over it.
Settled ==
    \A t \in Tasks :
      /\ pc[t] \in {"idle", "resume", "request", "metabolize"} => cur[t] = 0
      /\ pc[t] \in {"schedule", "handoff", "sleep", "wake", "next", "release", "recheck"} => cur[t] <= processed

\* The watermark only rises.
LEMMA SettledStep == OtherTypes /\ Settled /\ [Next]_vars => Settled'
<1> SUFFICES ASSUME OtherTypes, Settled, [Next]_vars
             PROVE  Settled'
  OBVIOUS
<1> USE MaxConvAssumption DEF Settled, OtherTypes, OwnerPcs, LeavingPcs, OwnedPcs, Ids, Ids0, durable, gate, lifecycle, locals
<1>1. ASSUME NEW t \in Tasks, AddConversation(t) PROVE Settled'
  BY <1>1 DEF AddConversation, Goto
<1>2. ASSUME NEW t \in Tasks, OperatorRestart(t) PROVE Settled'
  BY <1>2 DEF OperatorRestart, Goto
<1>3. ASSUME NEW t \in Tasks, RequestMaintenance(t) PROVE Settled'
  BY <1>3 DEF RequestMaintenance, Goto
<1>4. ASSUME NEW t \in Tasks, ClockMaintenance(t) PROVE Settled'
  BY <1>4 DEF ClockMaintenance, Goto
<1>5. ASSUME NEW t \in Tasks, OpenSpace(t) PROVE Settled'
  BY <1>5 DEF OpenSpace, Goto
<1>6. ASSUME NEW t \in Tasks, Resume(t) PROVE Settled'
  BY <1>6 DEF Resume, Goto
<1>7. ASSUME NEW t \in Tasks, LoadSlot(t) PROVE Settled'
  BY <1>7 DEF LoadSlot, Goto, Finish
<1>8. ASSUME NEW t \in Tasks, LoadMaintenance(t) PROVE Settled'
  BY <1>8 DEF LoadMaintenance, Goto, Finish
<1>9. ASSUME NEW t \in Tasks, LoadProcessed(t) PROVE Settled'
  BY <1>9 DEF LoadProcessed, Goto
<1>10. ASSUME NEW t \in Tasks, Find(t) PROVE Settled'
  BY <1>10 DEF Find, Goto, Finish
<1>11. ASSUME NEW t \in Tasks, TryProcess(t) PROVE Settled'
  BY <1>11 DEF TryProcess, Goto, Finish
<1>12. ASSUME NEW t \in Tasks, Spawn(t) PROVE Settled'
  BY <1>12 DEF Spawn, Goto, Finish
<1>13. ASSUME NEW t \in Tasks, PersistTurn(t) PROVE Settled'
  BY <1>13 DEF PersistTurn
<1>14. ASSUME NEW t \in Tasks, EndPass(t) PROVE Settled'
  BY <1>14 DEF EndPass, Goto
<1>15. ASSUME NEW t \in Tasks, RetryPass(t) PROVE Settled'
  BY <1>15 DEF RetryPass, Goto
<1>16. ASSUME NEW t \in Tasks, RecordFailedRound(t) PROVE Settled'
  BY <1>16 DEF RecordFailedRound, Goto
<1>17. ASSUME NEW t \in Tasks, SettlePass(t) PROVE Settled'
  BY <1>17 DEF SettlePass, Goto, Finish, MaxOf
<1>18. ASSUME NEW t \in Tasks, Schedule(t) PROVE Settled'
  BY <1>18 DEF Schedule, Goto
<1>19. ASSUME NEW t \in Tasks, HandOff(t) PROVE Settled'
  BY <1>19 DEF HandOff, Goto
<1>20. ASSUME NEW t \in Tasks, HandOffFails(t) PROVE Settled'
  BY <1>20 DEF HandOffFails, Goto
<1>21. ASSUME NEW t \in Tasks, NextConversation(t) PROVE Settled'
  BY <1>21 DEF NextConversation, Goto, Finish
<1>22. ASSUME NEW t \in Tasks, Release(t) PROVE Settled'
  BY <1>22 DEF Release, Goto
<1>23. ASSUME NEW t \in Tasks, Recheck(t) PROVE Settled'
  BY <1>23 DEF Recheck, Goto, Finish
<1>24. ASSUME NEW t \in Tasks, Claim(t) PROVE Settled'
  BY <1>24 DEF Claim, Goto, Finish
<1>25. ASSUME NEW t \in Tasks, ClaimMaintenance(t) PROVE Settled'
  BY <1>25 DEF ClaimMaintenance, Goto, Finish
<1>26. ASSUME NEW t \in Tasks, StartSleep(t) PROVE Settled'
  BY <1>26 DEF StartSleep, Goto, Finish
<1>27. ASSUME NEW t \in Tasks, AbortMaintenance(t) PROVE Settled'
  BY <1>27 DEF AbortMaintenance, Finish
<1>28. ASSUME NEW t \in Tasks, EndSleep(t) PROVE Settled'
  BY <1>28 DEF EndSleep, Goto
<1>29. ASSUME NEW t \in Tasks, Wake(t) PROVE Settled'
  BY <1>29 DEF Wake
<1>30. ASSUME NEW t \in Tasks, DropTask(t) PROVE Settled'
  BY <1>30 DEF DropTask, Finish
<1>31. CASE BeginClose
  BY <1>31 DEF BeginClose
<1>32. CASE CaptureAgain
  BY <1>32 DEF CaptureAgain
<1>33. CASE CancelTasks
  BY <1>33 DEF CancelTasks
<1>34. CASE CancelEngine
  BY <1>34 DEF CancelEngine
<1>35. CASE Reconcile
  BY <1>35 DEF Reconcile
<1>36. CASE Crash
  BY <1>36 DEF Crash
<1>37. CASE UNCHANGED vars
  BY <1>37 DEF vars
<1> QED
  BY <1>1, <1>2, <1>3, <1>4, <1>5, <1>6, <1>7, <1>8, <1>9, <1>10, <1>11, <1>12, <1>13, <1>14,
     <1>15, <1>16, <1>17, <1>18, <1>19, <1>20, <1>21, <1>22, <1>23, <1>24, <1>25, <1>26, <1>27,
     <1>28, <1>29, <1>30, <1>31, <1>32, <1>33, <1>34, <1>35, <1>36, <1>37
  DEF Next, Step, Arrive

\* The watermark moves only when a loop settles its conversation, and a mark is set
\* to it, to 0 or to an operator's choice.
MarksFollow ==
    /\ \/ processed' = processed
       \/ \E t \in Tasks : SettlePass(t) /\ processed' = MaxOf(processed, cur[t])
    /\ \A u \in Tasks : mark'[u] \in {mark[u], 0, processed} \/ OperatorRestart(u)

\* One step per action.
LEMMA MarksFollowStep == OtherTypes /\ [Next]_vars => MarksFollow
<1> SUFFICES ASSUME OtherTypes, [Next]_vars
             PROVE  MarksFollow
  OBVIOUS
<1> USE DEF MarksFollow, OtherTypes, durable, gate, lifecycle, locals
<1>1. ASSUME NEW t \in Tasks, AddConversation(t) PROVE MarksFollow
  BY <1>1 DEF AddConversation, Goto
<1>2. ASSUME NEW t \in Tasks, OperatorRestart(t) PROVE MarksFollow
  BY <1>2 DEF OperatorRestart, Goto
<1>3. ASSUME NEW t \in Tasks, RequestMaintenance(t) PROVE MarksFollow
  BY <1>3 DEF RequestMaintenance, Goto
<1>4. ASSUME NEW t \in Tasks, ClockMaintenance(t) PROVE MarksFollow
  BY <1>4 DEF ClockMaintenance, Goto
<1>5. ASSUME NEW t \in Tasks, OpenSpace(t) PROVE MarksFollow
  BY <1>5 DEF OpenSpace, Goto
<1>6. ASSUME NEW t \in Tasks, Resume(t) PROVE MarksFollow
  BY <1>6 DEF Resume, Goto
<1>7. ASSUME NEW t \in Tasks, LoadSlot(t) PROVE MarksFollow
  BY <1>7 DEF LoadSlot, Goto, Finish
<1>8. ASSUME NEW t \in Tasks, LoadMaintenance(t) PROVE MarksFollow
  BY <1>8 DEF LoadMaintenance, Goto, Finish
<1>9. ASSUME NEW t \in Tasks, LoadProcessed(t) PROVE MarksFollow
  BY <1>9 DEF LoadProcessed, Goto
<1>10. ASSUME NEW t \in Tasks, Find(t) PROVE MarksFollow
  BY <1>10 DEF Find, Goto, Finish
<1>11. ASSUME NEW t \in Tasks, TryProcess(t) PROVE MarksFollow
  BY <1>11 DEF TryProcess, Goto, Finish
<1>12. ASSUME NEW t \in Tasks, Spawn(t) PROVE MarksFollow
  BY <1>12 DEF Spawn, Goto, Finish
<1>13. ASSUME NEW t \in Tasks, PersistTurn(t) PROVE MarksFollow
  BY <1>13 DEF PersistTurn
<1>14. ASSUME NEW t \in Tasks, EndPass(t) PROVE MarksFollow
  BY <1>14 DEF EndPass, Goto
<1>15. ASSUME NEW t \in Tasks, RetryPass(t) PROVE MarksFollow
  BY <1>15 DEF RetryPass, Goto
<1>16. ASSUME NEW t \in Tasks, RecordFailedRound(t) PROVE MarksFollow
  BY <1>16 DEF RecordFailedRound, Goto
<1>17. ASSUME NEW t \in Tasks, SettlePass(t) PROVE MarksFollow
  BY <1>17 DEF SettlePass, Goto, Finish
<1>18. ASSUME NEW t \in Tasks, Schedule(t) PROVE MarksFollow
  BY <1>18 DEF Schedule, Goto
<1>19. ASSUME NEW t \in Tasks, HandOff(t) PROVE MarksFollow
  BY <1>19 DEF HandOff, Goto
<1>20. ASSUME NEW t \in Tasks, HandOffFails(t) PROVE MarksFollow
  BY <1>20 DEF HandOffFails, Goto
<1>21. ASSUME NEW t \in Tasks, NextConversation(t) PROVE MarksFollow
  BY <1>21 DEF NextConversation, Goto, Finish
<1>22. ASSUME NEW t \in Tasks, Release(t) PROVE MarksFollow
  BY <1>22 DEF Release, Goto
<1>23. ASSUME NEW t \in Tasks, Recheck(t) PROVE MarksFollow
  BY <1>23 DEF Recheck, Goto, Finish
<1>24. ASSUME NEW t \in Tasks, Claim(t) PROVE MarksFollow
  BY <1>24 DEF Claim, Goto, Finish
<1>25. ASSUME NEW t \in Tasks, ClaimMaintenance(t) PROVE MarksFollow
  BY <1>25 DEF ClaimMaintenance, Goto, Finish
<1>26. ASSUME NEW t \in Tasks, StartSleep(t) PROVE MarksFollow
  BY <1>26 DEF StartSleep, Goto, Finish
<1>27. ASSUME NEW t \in Tasks, AbortMaintenance(t) PROVE MarksFollow
  BY <1>27 DEF AbortMaintenance, Finish
<1>28. ASSUME NEW t \in Tasks, EndSleep(t) PROVE MarksFollow
  BY <1>28 DEF EndSleep, Goto
<1>29. ASSUME NEW t \in Tasks, Wake(t) PROVE MarksFollow
  BY <1>29 DEF Wake
<1>30. ASSUME NEW t \in Tasks, DropTask(t) PROVE MarksFollow
  BY <1>30 DEF DropTask, Finish
<1>31. CASE BeginClose
  BY <1>31 DEF BeginClose
<1>32. CASE CaptureAgain
  BY <1>32 DEF CaptureAgain
<1>33. CASE CancelTasks
  BY <1>33 DEF CancelTasks
<1>34. CASE CancelEngine
  BY <1>34 DEF CancelEngine
<1>35. CASE Reconcile
  BY <1>35 DEF Reconcile
<1>36. CASE Crash
  BY <1>36 DEF Crash
<1>37. CASE UNCHANGED vars
  BY <1>37 DEF vars
<1> QED
  BY <1>1, <1>2, <1>3, <1>4, <1>5, <1>6, <1>7, <1>8, <1>9, <1>10, <1>11, <1>12, <1>13, <1>14,
     <1>15, <1>16, <1>17, <1>18, <1>19, <1>20, <1>21, <1>22, <1>23, <1>24, <1>25, <1>26, <1>27,
     <1>28, <1>29, <1>30, <1>31, <1>32, <1>33, <1>34, <1>35, <1>36, <1>37
  DEF Next, Step, Arrive

\* A task's watermark was read earlier, or is an operator's choice below the current
\* one.
MarksBehind == \A t \in Tasks : mark[t] <= processed

\* The watermark never falls.
LEMMA WatermarkRises ==
  ASSUME OtherTypes, [Next]_vars
  PROVE  processed \in Nat /\ processed' \in Nat /\ processed <= processed'
<1>1. processed \in Nat
  BY MaxConvAssumption DEF OtherTypes, Ids0
<1>2. \A t \in Tasks : cur[t] \in Nat
  BY MaxConvAssumption DEF OtherTypes, Ids0
<1> QED
  BY <1>1, <1>2, MarksFollowStep DEF MarksFollow, MaxOf

LEMMA MarksBehindStep ==
  ASSUME "jump" \notin Faults, OtherTypes, MarksBehind, [Next]_vars
  PROVE  MarksBehind'
<1> SUFFICES ASSUME NEW u \in Tasks PROVE mark'[u] <= processed'
  BY DEF MarksBehind
<1>1. mark[u] \in Nat /\ mark[u] <= processed
  BY MaxConvAssumption DEF OtherTypes, Ids0, MarksBehind
<1>2. CASE mark'[u] \in {mark[u], 0, processed}
  BY <1>1, <1>2, WatermarkRises
<1>3. CASE OperatorRestart(u)
  <2>1. PICK from \in Ids : ~(from > processed + 1) /\ mark' = [mark EXCEPT ![u] = from - 1]
    BY <1>3 DEF OperatorRestart
  <2>2. mark'[u] = from - 1 /\ from \in Nat
    BY <2>1, MaxConvAssumption DEF OtherTypes, Ids
  <2> QED
    BY <2>1, <2>2, WatermarkRises
<1> QED
  BY <1>2, <1>3, MarksFollowStep DEF MarksFollow

\* The states in which a task is bound to a conversation of the queue's head.
HeadPcs == {"try", "spawn", "process", "retry", "round", "settle", "claim"}

\* Steps that settle, add and choose no conversation.
Calm ==
    /\ UNCHANGED <<status, processed>>
    /\ Running' => Running
    /\ \A u \in Tasks : cur'[u] \in {cur[u], 0}
    /\ \A u \in Tasks : Running' /\ pc[u] = "settle" => pc'[u] = "settle" /\ cur'[u] = cur[u]
    /\ \A u \in Tasks : pc'[u] \in HeadPcs /\ pc[u] \notin HeadPcs => LoadProcessed(u)

\* The others.
Busy ==
    \/ \E t \in Tasks :
         \/ AddConversation(t) \/ PersistTurn(t) \/ EndPass(t) \/ RecordFailedRound(t) \/ SettlePass(t)
         \/ Find(t) \/ NextConversation(t) \/ Recheck(t) \/ OpenSpace(t)
    \/ Reconcile

\* One step per action.
LEMMA CalmOrBusy == OtherTypes /\ [Next]_vars => Calm \/ Busy
<1> SUFFICES ASSUME OtherTypes, [Next]_vars
             PROVE  Calm \/ Busy
  OBVIOUS
<1> USE DEF Calm, HeadPcs, OtherTypes, Running, Cancelled, OwnedPcs, OwnerPcs, LeavingPcs, durable, gate, lifecycle, locals
<1>1. ASSUME NEW t \in Tasks, AddConversation(t) PROVE Calm \/ Busy
  BY <1>1 DEF Busy
<1>2. ASSUME NEW t \in Tasks, OperatorRestart(t) PROVE Calm \/ Busy
  BY <1>2 DEF OperatorRestart, Goto
<1>3. ASSUME NEW t \in Tasks, RequestMaintenance(t) PROVE Calm \/ Busy
  BY <1>3 DEF RequestMaintenance, Goto
<1>4. ASSUME NEW t \in Tasks, ClockMaintenance(t) PROVE Calm \/ Busy
  BY <1>4 DEF ClockMaintenance, Goto
<1>5. ASSUME NEW t \in Tasks, OpenSpace(t) PROVE Calm \/ Busy
  BY <1>5 DEF Busy
<1>6. ASSUME NEW t \in Tasks, Resume(t) PROVE Calm \/ Busy
  BY <1>6 DEF Resume, Goto
<1>7. ASSUME NEW t \in Tasks, LoadSlot(t) PROVE Calm \/ Busy
  BY <1>7 DEF LoadSlot, Goto, Finish
<1>8. ASSUME NEW t \in Tasks, LoadMaintenance(t) PROVE Calm \/ Busy
  BY <1>8 DEF LoadMaintenance, Goto, Finish
<1>9. ASSUME NEW t \in Tasks, LoadProcessed(t) PROVE Calm \/ Busy
  BY <1>9 DEF LoadProcessed, Goto
<1>10. ASSUME NEW t \in Tasks, Find(t) PROVE Calm \/ Busy
  BY <1>10 DEF Busy
<1>11. ASSUME NEW t \in Tasks, TryProcess(t) PROVE Calm \/ Busy
  BY <1>11 DEF TryProcess, Goto, Finish
<1>12. ASSUME NEW t \in Tasks, Spawn(t) PROVE Calm \/ Busy
  BY <1>12 DEF Spawn, Goto, Finish
<1>13. ASSUME NEW t \in Tasks, PersistTurn(t) PROVE Calm \/ Busy
  BY <1>13 DEF Busy
<1>14. ASSUME NEW t \in Tasks, EndPass(t) PROVE Calm \/ Busy
  BY <1>14 DEF Busy
<1>15. ASSUME NEW t \in Tasks, RetryPass(t) PROVE Calm \/ Busy
  BY <1>15 DEF RetryPass, Goto
<1>16. ASSUME NEW t \in Tasks, RecordFailedRound(t) PROVE Calm \/ Busy
  BY <1>16 DEF Busy
<1>17. ASSUME NEW t \in Tasks, SettlePass(t) PROVE Calm \/ Busy
  BY <1>17 DEF Busy
<1>18. ASSUME NEW t \in Tasks, Schedule(t) PROVE Calm \/ Busy
  BY <1>18 DEF Schedule, Goto
<1>19. ASSUME NEW t \in Tasks, HandOff(t) PROVE Calm \/ Busy
  BY <1>19 DEF HandOff, Goto
<1>20. ASSUME NEW t \in Tasks, HandOffFails(t) PROVE Calm \/ Busy
  BY <1>20 DEF HandOffFails, Goto
<1>21. ASSUME NEW t \in Tasks, NextConversation(t) PROVE Calm \/ Busy
  BY <1>21 DEF Busy
<1>22. ASSUME NEW t \in Tasks, Release(t) PROVE Calm \/ Busy
  BY <1>22 DEF Release, Goto
<1>23. ASSUME NEW t \in Tasks, Recheck(t) PROVE Calm \/ Busy
  BY <1>23 DEF Busy
<1>24. ASSUME NEW t \in Tasks, Claim(t) PROVE Calm \/ Busy
  BY <1>24 DEF Claim, Goto, Finish
<1>25. ASSUME NEW t \in Tasks, ClaimMaintenance(t) PROVE Calm \/ Busy
  BY <1>25 DEF ClaimMaintenance, Goto, Finish
<1>26. ASSUME NEW t \in Tasks, StartSleep(t) PROVE Calm \/ Busy
  BY <1>26 DEF StartSleep, Goto, Finish
<1>27. ASSUME NEW t \in Tasks, AbortMaintenance(t) PROVE Calm \/ Busy
  BY <1>27 DEF AbortMaintenance, Finish
<1>28. ASSUME NEW t \in Tasks, EndSleep(t) PROVE Calm \/ Busy
  BY <1>28 DEF EndSleep, Goto
<1>29. ASSUME NEW t \in Tasks, Wake(t) PROVE Calm \/ Busy
  BY <1>29 DEF Wake
<1>30. ASSUME NEW t \in Tasks, DropTask(t) PROVE Calm \/ Busy
  BY <1>30 DEF DropTask, Finish
<1>31. CASE BeginClose
  BY <1>31 DEF BeginClose
<1>32. CASE CaptureAgain
  BY <1>32 DEF CaptureAgain
<1>33. CASE CancelTasks
  BY <1>33 DEF CancelTasks
<1>34. CASE CancelEngine
  BY <1>34 DEF CancelEngine
<1>35. CASE Reconcile
  BY <1>35 DEF Busy
<1>36. CASE Crash
  BY <1>36 DEF Crash
<1>37. CASE UNCHANGED vars
  BY <1>37 DEF vars
<1> QED
  BY <1>1, <1>2, <1>3, <1>4, <1>5, <1>6, <1>7, <1>8, <1>9, <1>10, <1>11, <1>12, <1>13, <1>14,
     <1>15, <1>16, <1>17, <1>18, <1>19, <1>20, <1>21, <1>22, <1>23, <1>24, <1>25, <1>26, <1>27,
     <1>28, <1>29, <1>30, <1>31, <1>32, <1>33, <1>34, <1>35, <1>36, <1>37
  DEF Next, Step, Arrive

\* While tasks are polled, a task's conversation that is settled beyond the watermark
\* is about to be settled by the owner of the slot.
Stale ==
    Running =>
      \A t \in Tasks :
        cur[t] # 0 /\ status[cur[t]] \in Terminal /\ processed < cur[t] =>
          \E u \in Tasks : pc[u] = "settle" /\ cur[u] = cur[t]

\* A step that binds tasks to unsettled conversations only, and ends no settlement.
LEMMA StaleKept ==
  ASSUME OtherTypes, Stale, Running' => Running, UNCHANGED <<status, processed>>,
         \A u \in Tasks : cur'[u] \in {cur[u], 0} \/ (cur'[u] \in Ids /\ status[cur'[u]] \notin Terminal),
         \A u \in Tasks : Running' /\ pc[u] = "settle" => pc'[u] = "settle" /\ cur'[u] = cur[u]
  PROVE  Stale'
  BY DEF Stale

\* What the queue scan returns is not settled.
LEMMA FoundIsPending ==
  ASSUME OtherTypes, NEW after \in Nat, FindNextSubmitted(after) # 0
  PROVE  FindNextSubmitted(after) \in Ids /\ status[FindNextSubmitted(after)] \notin Terminal
<1>1. FindNextSubmitted(after) \in Ids0 /\ status[FindNextSubmitted(after)] \in Pending
  BY FindNextSubmittedIsLeast
<1> QED
  BY <1>1, MaxConvAssumption DEF Ids, Ids0, Pending, Terminal

\* The conversation that a task rewrites is its own.
LEMMA StaleRewrites ==
  ASSUME OtherTypes, Stale, NEW t \in Tasks, Running, cur[t] \in Ids, pc[t] # "settle",
         UNCHANGED <<processed, cur, phase>>,
         \A u \in Tasks : u # t => pc'[u] = pc[u],
         \A c \in Ids : c # cur[t] => status'[c] = status[c],
         status'[cur[t]] \in Terminal => pc'[t] = "settle"
  PROVE  Stale'
<1> SUFFICES ASSUME NEW u \in Tasks, cur[u] # 0, status'[cur[u]] \in Terminal, processed < cur[u]
             PROVE  \E v \in Tasks : pc'[v] = "settle" /\ cur[v] = cur[u]
  BY DEF Stale
<1>1. CASE cur[u] = cur[t]
  BY <1>1
<1>2. CASE cur[u] # cur[t]
  <2>1. cur[u] \in Ids
    BY MaxConvAssumption DEF OtherTypes, Ids, Ids0
  <2>2. PICK v \in Tasks : pc[v] = "settle" /\ cur[v] = cur[u]
    BY <1>2, <2>1 DEF Stale
  <2>3. v # t
    BY <1>2, <2>2
  <2> QED
    BY <2>2, <2>3
<1> QED
  BY <1>1, <1>2

LEMMA OwnConversation ==
  ASSUME OtherTypes, HasConversation, NEW t \in Tasks, pc[t] \in OwnerPcs
  PROVE  cur[t] \in Ids
  BY MaxConvAssumption DEF OtherTypes, HasConversation, Ids, Ids0

LEMMA StaleStep ==
  OtherTypes /\ HasConversation /\ ClosedIsIdle /\ Settled /\ Stale /\ [Next]_vars => Stale'
<1> SUFFICES ASSUME OtherTypes, HasConversation, ClosedIsIdle, Settled, Stale, [Next]_vars PROVE Stale'
  OBVIOUS
<1> USE DEF durable, gate, lifecycle, locals
<1>1. CASE Calm
  BY <1>1, StaleKept DEF Calm
<1>2. ASSUME NEW t \in Tasks, AddConversation(t) PROVE Stale'
  <2>1. PICK c \in Ids : /\ status' = [status EXCEPT ![c] = "submitted"] /\ cur' = [cur EXCEPT ![t] = c]
    BY <1>2 DEF AddConversation
  <2>2. UNCHANGED <<processed, phase>> /\ pc[t] = "idle" /\ \A u \in Tasks : u # t => pc'[u] = pc[u]
    BY <1>2 DEF AddConversation, Goto, OtherTypes
  <2>3. status'[c] = "submitted" /\ cur'[t] = c /\ \A d \in Ids : d # c => status'[d] = status[d]
    BY <2>1 DEF OtherTypes
  <2>4. \A u \in Tasks : u # t => cur'[u] = cur[u]
    BY <2>1 DEF OtherTypes
  <2> SUFFICES ASSUME Running, NEW u \in Tasks, cur'[u] # 0, status'[cur'[u]] \in Terminal, processed < cur'[u]
               PROVE  \E v \in Tasks : pc'[v] = "settle" /\ cur'[v] = cur'[u]
    BY <2>2 DEF Stale, Running
  <2>5. u # t /\ cur'[u] # c
    BY <2>3 DEF Terminal
  <2>6. cur[u] \in Ids /\ cur'[u] = cur[u] /\ status'[cur[u]] = status[cur[u]]
    BY <2>3, <2>4, <2>5, MaxConvAssumption DEF OtherTypes, Ids, Ids0
  <2>7. PICK v \in Tasks : pc[v] = "settle" /\ cur[v] = cur[u]
    BY <2>6 DEF Stale
  <2> QED
    BY <2>2, <2>4, <2>6, <2>7
<1>3. ASSUME NEW t \in Tasks, PersistTurn(t) PROVE Stale'
  <2>1. cur[t] \in Ids /\ Running /\ pc[t] = "process" /\ UNCHANGED <<processed, cur, phase, pc>>
    BY <1>3, OwnConversation DEF PersistTurn, OwnerPcs
  <2>2. status'[cur[t]] = "working" /\ \A c \in Ids : c # cur[t] => status'[c] = status[c]
    BY <1>3, <2>1 DEF PersistTurn, OtherTypes
  <2> QED
    BY <2>1, <2>2, StaleRewrites DEF Terminal
<1>4. ASSUME NEW t \in Tasks, EndPass(t) PROVE Stale'
  <2>1. cur[t] \in Ids /\ Running /\ pc[t] = "process" /\ UNCHANGED <<processed, cur, phase>>
    BY <1>4, OwnConversation DEF EndPass, OwnerPcs
  <2>2. PICK o \in Outcomes :
          /\ status' = [status EXCEPT ![cur[t]] = o]
          /\ pc' = [pc EXCEPT ![t] = IF o # "failed" THEN "settle" ELSE IF attempt[t] = 1 THEN "retry" ELSE "round"]
    BY <1>4 DEF EndPass, Goto
  <2>3. status'[cur[t]] = o /\ \A c \in Ids : c # cur[t] => status'[c] = status[c]
    BY <2>1, <2>2 DEF OtherTypes
  <2>4. (o \in Terminal => pc'[t] = "settle") /\ \A u \in Tasks : u # t => pc'[u] = pc[u]
    BY <2>2 DEF OtherTypes, Terminal
  <2> QED
    BY <2>1, <2>3, <2>4, StaleRewrites
<1>5. ASSUME NEW t \in Tasks, RecordFailedRound(t) PROVE Stale'
  <2>1. cur[t] \in Ids /\ Running /\ pc[t] = "round" /\ UNCHANGED <<processed, cur, phase>>
    BY <1>5, OwnConversation DEF RecordFailedRound, OwnerPcs
  <2>2. \A c \in Ids : c # cur[t] => status'[c] = status[c]
    BY <1>5, <2>1 DEF RecordFailedRound, OtherTypes
  <2>3. pc'[t] = "settle" /\ \A u \in Tasks : u # t => pc'[u] = pc[u]
    BY <1>5 DEF RecordFailedRound, Goto, OtherTypes
  <2> QED
    BY <2>1, <2>2, <2>3, StaleRewrites
<1>6. ASSUME NEW t \in Tasks, SettlePass(t) PROVE Stale'
  <2>1. UNCHANGED <<status, phase>> /\ \A u \in Tasks : u # t => pc'[u] = pc[u] /\ cur'[u] = cur[u]
    BY <1>6 DEF SettlePass, Goto, Finish, OtherTypes
  <2>2. cur'[t] \in {cur[t], 0}
    BY <1>6 DEF SettlePass, Goto, Finish, OtherTypes
  <2>3. status[cur[t]] \in Terminal => cur[t] <= processed'
    BY <1>6, MaxConvAssumption DEF SettlePass, MaxOf, OtherTypes, Ids0
  <2> SUFFICES ASSUME Running, NEW u \in Tasks, cur'[u] # 0, status[cur'[u]] \in Terminal, processed' < cur'[u]
               PROVE  \E v \in Tasks : pc'[v] = "settle" /\ cur'[v] = cur'[u]
    BY <2>1 DEF Stale, Running
  <2>4. cur'[u] = cur[u] /\ cur[u] \in Nat /\ cur[t] \in Nat
    BY <2>1, <2>2, MaxConvAssumption DEF OtherTypes, Ids0
  <2>5. cur[u] # cur[t]
    BY <2>3, <2>4, WatermarkRises
  <2>6. PICK v \in Tasks : pc[v] = "settle" /\ cur[v] = cur[u]
    BY <2>4, WatermarkRises DEF Stale
  <2>7. v # t
    BY <2>5, <2>6
  <2> QED
    BY <2>1, <2>4, <2>6, <2>7
<1>7. ASSUME NEW t \in Tasks, Find(t) PROVE Stale'
  <2>1. mark[t] \in Nat
    BY MaxConvAssumption DEF OtherTypes, Ids0
  <2>2. /\ UNCHANGED <<status, processed, phase>> /\ pc[t] = "find"
        /\ \A u \in Tasks : u # t => pc'[u] = pc[u] /\ cur'[u] = cur[u]
        /\ \/ FindNextSubmitted(mark[t]) # 0 /\ cur'[t] = FindNextSubmitted(mark[t])
           \/ cur'[t] = 0
    BY <1>7 DEF Find, Goto, Finish, OtherTypes
  <2> QED
    BY <2>1, <2>2, FoundIsPending, StaleKept DEF Running
<1>8. ASSUME NEW t \in Tasks, NextConversation(t) PROVE Stale'
  <2>1. cur[t] \in Nat
    BY MaxConvAssumption DEF OtherTypes, Ids0
  <2>2. /\ UNCHANGED <<status, processed, phase>> /\ pc[t] = "next"
        /\ \A u \in Tasks : u # t => pc'[u] = pc[u] /\ cur'[u] = cur[u]
        /\ \/ FindNextSubmitted(cur[t]) # 0 /\ cur'[t] = FindNextSubmitted(cur[t])
           \/ cur'[t] \in {cur[t], 0}
    BY <1>8 DEF NextConversation, Goto, Finish, OtherTypes
  <2> QED
    BY <2>1, <2>2, FoundIsPending, StaleKept DEF Running
<1>9. ASSUME NEW t \in Tasks, Recheck(t) PROVE Stale'
  <2>1. cur[t] \in Nat
    BY MaxConvAssumption DEF OtherTypes, Ids0
  <2>2. /\ UNCHANGED <<status, processed, phase>> /\ pc[t] = "recheck"
        /\ \A u \in Tasks : u # t => pc'[u] = pc[u] /\ cur'[u] = cur[u]
        /\ \/ FindNextSubmitted(cur[t]) # 0 /\ cur'[t] = FindNextSubmitted(cur[t])
           \/ cur'[t] = 0
    BY <1>9 DEF Recheck, Goto, Finish, OtherTypes
  <2> QED
    BY <2>1, <2>2, FoundIsPending, StaleKept DEF Running
<1>10. ASSUME NEW t \in Tasks, OpenSpace(t) PROVE Stale'
  <2>1. \A u \in Tasks : cur'[u] = 0
    BY <1>10 DEF OpenSpace, ClosedIsIdle, Settled
  <2> QED
    BY <2>1 DEF Stale
<1>11. CASE Reconcile
  BY <1>11 DEF Reconcile, Stale, Running
<1> QED
  BY <1>1, <1>2, <1>3, <1>4, <1>5, <1>6, <1>7, <1>8, <1>9, <1>10, <1>11, CalmOrBusy DEF Busy

\* What is settled beyond the watermark stays settled.
LEMMA SettledStays ==
  ASSUME OtherTypes, HasConversation, OneOwner, Added, Stale, [Next]_vars,
         NEW c \in Ids, processed < c, status[c] \in Terminal
  PROVE  status'[c] \in Terminal
<1> USE DEF durable, gate, lifecycle, locals
<1>1. CASE UNCHANGED status
  BY <1>1
<1>2. ASSUME NEW t \in Tasks, Running, pc[t] \in {"process", "round"} PROVE c # cur[t]
  <2>1. cur[t] \in Ids /\ pc[t] \in OwnerPcs
    BY <1>2, OwnConversation DEF OwnerPcs
  <2>2. SUFFICES ASSUME c = cur[t] PROVE FALSE
    OBVIOUS
  <2>3. c # 0
    BY MaxConvAssumption DEF Ids
  <2>4. PICK u \in Tasks : pc[u] = "settle" /\ cur[u] = cur[t]
    BY <1>2, <2>2, <2>3 DEF Stale
  <2>5. u = t
    BY <1>2, <2>1, <2>4 DEF OneOwner, OwnerPcs
  <2> QED
    BY <1>2, <2>4, <2>5
<1>3. ASSUME NEW t \in Tasks, AddConversation(t) PROVE status'[c] \in Terminal
  <2>1. PICK d \in Ids : /\ \A x \in Ids : status[x] = "none" <=> x >= d
                       /\ status' = [status EXCEPT ![d] = "submitted"]
    BY <1>3, Zenon DEF AddConversation
  <2>2. d \in Nat
    BY MaxConvAssumption DEF Ids
  <2>3. status[d] = "none"
    BY <2>1, <2>2
  <2> QED
    BY <2>1, <2>3 DEF OtherTypes, Terminal
<1>4. ASSUME NEW t \in Tasks, PersistTurn(t) \/ EndPass(t) \/ RecordFailedRound(t) PROVE status'[c] \in Terminal
  <2>1. Running /\ pc[t] \in {"process", "round"}
    BY <1>4 DEF PersistTurn, EndPass, RecordFailedRound
  <2>2. c # cur[t]
    BY <1>2, <2>1
  <2>3. status'[c] = status[c]
    BY <1>4, <2>2 DEF PersistTurn, EndPass, RecordFailedRound, OtherTypes
  <2> QED
    BY <2>3
<1>5. CASE Reconcile
  BY <1>5 DEF Reconcile, Terminal, Pending
<1> QED
  BY <1>1, <1>3, <1>4, <1>5, CalmOrBusy DEF Busy, Calm, SettlePass, Find, NextConversation, Recheck, OpenSpace

\* Below the conversation of a task that may form it, everything beyond the watermark is
\* settled.
Order ==
    \A t \in Tasks : pc[t] \in HeadPcs =>
      \A c \in Ids : processed < c /\ c < cur[t] => status[c] \in Terminal

\* The scan from a watermark that is not beyond the current one returns the queue's head.
LEMMA FoundIsHead ==
  ASSUME OtherTypes, Added, NEW after \in Nat, after <= processed, FindNextSubmitted(after) # 0,
         NEW c \in Ids, processed < c, c < FindNextSubmitted(after)
  PROVE  status[c] \in Terminal
<1> DEFINE next == FindNextSubmitted(after)
<1>1. /\ next \in Ids0 /\ status[next] \in Pending
      /\ \A d \in Ids : d > after /\ status[d] \in Pending => next # 0 /\ next <= d
  BY FindNextSubmittedIsLeast
<1>2. next \in Ids /\ c \in Nat /\ next \in Nat /\ processed \in Nat
  BY <1>1, MaxConvAssumption DEF Ids, Ids0, OtherTypes
<1>3. c > after /\ ~(next <= c)
  BY <1>2
<1>4. status[c] \notin Pending
  BY <1>1, <1>3
<1>5. status[next] # "none"
  BY <1>1 DEF Pending
<1>6. status[c] # "none"
  BY <1>2, <1>5 DEF Added
<1> QED
  BY <1>4, <1>6 DEF OtherTypes, Statuses, Pending, Terminal

\* A task stays bound to the head of the queue as long as it is bound to the same
\* conversation.
LEMMA OrderKept ==
  ASSUME OtherTypes, HasConversation, OneOwner, Added, Stale, Order, [Next]_vars, NEW t \in Tasks, pc[t] \in HeadPcs,
         cur'[t] \in {cur[t], 0}, NEW c \in Ids, processed' < c, c < cur'[t]
  PROVE  status'[c] \in Terminal
<1>1. c \in Nat /\ processed \in Nat /\ processed' \in Nat /\ processed <= processed'
  BY WatermarkRises, MaxConvAssumption DEF Ids, Ids0, OtherTypes
<1>2. cur'[t] = cur[t] /\ processed < c
  BY <1>1, MaxConvAssumption DEF Ids0, OtherTypes
<1>3. status[c] \in Terminal
  BY <1>2 DEF Order
<1> QED
  BY <1>2, <1>3, SettledStays

\* The queue is formed from its head, unless an operator jumps over conversations.
LEMMA OrderStep ==
  ASSUME "jump" \notin Faults, OtherTypes, HasConversation, OneOwner, ClosedIsIdle, Added, Settled, MarksBehind, Stale, Order,
         [Next]_vars
  PROVE  Order'
<1> USE DEF durable, gate, lifecycle, locals
<1> SUFFICES ASSUME NEW u \in Tasks, pc'[u] \in HeadPcs, NEW c \in Ids, processed' < c, c < cur'[u]
             PROVE  status'[c] \in Terminal
  BY DEF Order
<1>0. c \in Nat /\ processed \in Nat /\ mark[u] \in Nat /\ cur[u] \in Nat
  BY MaxConvAssumption DEF Ids, Ids0, OtherTypes
<1>1. CASE pc[u] \in HeadPcs /\ cur'[u] \in {cur[u], 0}
  BY <1>1, OrderKept
<1>2. CASE LoadProcessed(u)
  <2>1. UNCHANGED <<status, processed, cur>> /\ ("try" = pc'[u] => ~(processed + 1 < cur[u]))
    BY <1>2 DEF LoadProcessed, Goto, OtherTypes
  <2>2. pc'[u] \in {"find", "try"}
    BY <1>2 DEF LoadProcessed, Goto, OtherTypes
  <2>3. pc'[u] = "try"
    BY <2>2 DEF HeadPcs
  <2> QED
    BY <1>0, <2>1, <2>3
<1>3. CASE Calm
  BY <1>1, <1>2, <1>3 DEF Calm
<1>4. ASSUME NEW t \in Tasks, t # u,
             AddConversation(t) \/ PersistTurn(t) \/ EndPass(t) \/ RecordFailedRound(t) \/ SettlePass(t)
             \/ Find(t) \/ NextConversation(t) \/ Recheck(t) \/ OpenSpace(t)
      PROVE  status'[c] \in Terminal
  <2>1. pc'[u] = pc[u] /\ cur'[u] = cur[u]
    BY <1>4 DEF AddConversation, PersistTurn, EndPass, RecordFailedRound, SettlePass, Find, NextConversation, Recheck,
                OpenSpace, Goto, Finish, OtherTypes
  <2> QED
    BY <1>1, <2>1
<1>5. CASE AddConversation(u) \/ OpenSpace(u)
  BY <1>5 DEF AddConversation, OpenSpace, Goto, OtherTypes, HeadPcs
<1>6. CASE PersistTurn(u) \/ EndPass(u) \/ RecordFailedRound(u) \/ SettlePass(u)
  <2>1. pc[u] \in HeadPcs /\ cur'[u] \in {cur[u], 0}
    BY <1>6 DEF PersistTurn, EndPass, RecordFailedRound, SettlePass, Goto, Finish, OtherTypes, HeadPcs
  <2> QED
    BY <1>1, <2>1
<1>7. CASE Find(u)
  <2>1. UNCHANGED <<status, processed>> /\ FindNextSubmitted(mark[u]) # 0 /\ cur'[u] = FindNextSubmitted(mark[u])
    BY <1>7 DEF Find, Goto, Finish, OtherTypes, HeadPcs
  <2>2. mark[u] <= processed
    BY DEF MarksBehind
  <2> QED
    BY <1>0, <2>1, <2>2, FoundIsHead
<1>8. CASE NextConversation(u)
  <2>1. UNCHANGED <<status, processed>> /\ FindNextSubmitted(cur[u]) # 0 /\ cur'[u] = FindNextSubmitted(cur[u]) /\ pc[u] = "next"
    BY <1>8 DEF NextConversation, Goto, Finish, OtherTypes, HeadPcs
  <2>2. cur[u] <= processed
    BY <2>1 DEF Settled
  <2> QED
    BY <1>0, <2>1, <2>2, FoundIsHead
<1>9. CASE Recheck(u)
  <2>1. UNCHANGED <<status, processed>> /\ FindNextSubmitted(cur[u]) # 0 /\ cur'[u] = FindNextSubmitted(cur[u]) /\ pc[u] = "recheck"
    BY <1>9 DEF Recheck, Goto, Finish, OtherTypes, HeadPcs
  <2>2. cur[u] <= processed
    BY <2>1 DEF Settled
  <2> QED
    BY <1>0, <2>1, <2>2, FoundIsHead
<1>10. CASE Reconcile
  <2>1. UNCHANGED <<pc, cur>>
    BY <1>10 DEF Reconcile
  <2> QED
    BY <1>1, <2>1
<1> QED
  BY <1>3, <1>4, <1>5, <1>6, <1>7, <1>8, <1>9, <1>10, CalmOrBusy DEF Busy

-----------------------------------------------------------------------------
(* A pass that a graceful close cuts short.                                *)

\* The pass of c is still there, its conversation in the slot, and no other task can
\* free or take the slot before it is dropped.
CutRuns(c) ==
    /\ slot = c
    /\ \E t \in Tasks : /\ pc[t] = "process"
                        /\ \A u \in Tasks : pc[u] \in OwnerPcs => u = t

\* What the close cut short is captured or will be, and is settled when it is done.
CutInv ==
    /\ phase \notin {"closing", "draining", "closed"} => cut = {}
    /\ \A c \in cut : status[c] # "none"
    /\ phase \in {"closing", "draining"} => \A c \in cut : c \in captured \/ CutRuns(c)
    /\ CutIsNeverReplayed

\* A step of a task that neither owns the slot nor takes a busy one.
LEMMA CutKept ==
  ASSUME OtherTypes, CutInv, NEW t \in Tasks, UNCHANGED <<phase, captured, cut>>,
         \A c \in Ids : status[c] # "none" => status'[c] = status[c],
         pc[t] \notin OwnerPcs, \A u \in Tasks : u # t => pc'[u] = pc[u],
         slot # 0 => slot' = slot /\ pc'[t] \notin OwnerPcs
  PROVE  CutInv'
<1>1. \A c \in cut : c \in Ids /\ c # 0 /\ status'[c] = status[c]
  BY MaxConvAssumption DEF OtherTypes, CutInv, Ids
<1>2. ASSUME NEW c \in cut, CutRuns(c) PROVE CutRuns(c)'
  <2>1. slot' = c /\ pc'[t] \notin OwnerPcs
    BY <1>1, <1>2 DEF CutRuns
  <2>2. PICK v \in Tasks : pc[v] = "process" /\ \A u \in Tasks : pc[u] \in OwnerPcs => u = v
    BY <1>2 DEF CutRuns
  <2>3. v # t
    BY <2>2 DEF OwnerPcs
  <2>4. \A u \in Tasks : pc'[u] \in OwnerPcs => u = v
    BY <2>1, <2>2
  <2> QED
    BY <2>1, <2>2, <2>3, <2>4 DEF CutRuns
<1> QED
  BY <1>1, <1>2 DEF CutInv, CutIsNeverReplayed

\* After cancel() only a drop or a claim can touch the slot, and a drop captures it first.
LEMMA CutInvStep == OtherTypes /\ HasConversation /\ OneOwner /\ Added /\ CutInv /\ [Next]_vars => CutInv'
<1> SUFFICES ASSUME OtherTypes, HasConversation, OneOwner, Added, CutInv, [Next]_vars
             PROVE  CutInv'
  OBVIOUS
<1> USE OutcomesAssumption, MaxConvAssumption DEF CutInv, CutIsNeverReplayed, CutRuns, OtherTypes, Running, Cancelled, Capture, Terminal, OwnerPcs, LeavingPcs, OwnedPcs, Ids, Ids0, durable, gate, lifecycle, locals
<1>1. ASSUME NEW t \in Tasks, AddConversation(t) PROVE CutInv'
  <2>1. PICK d \in Ids : /\ \A x \in Ids : status[x] = "none" <=> x >= d
                       /\ status' = [status EXCEPT ![d] = "submitted"]
    BY <1>1, Zenon DEF AddConversation
  <2>2. d \in Nat
    BY MaxConvAssumption DEF Ids
  <2>3. status[d] = "none"
    BY <2>1, <2>2
  <2>4. \A c \in Ids : status[c] # "none" => status'[c] = status[c]
    BY <2>1, <2>3 DEF OtherTypes
  <2> HIDE DEF CutInv, CutRuns, CutIsNeverReplayed
  <2>5. pc[t] \notin OwnerPcs /\ UNCHANGED <<phase, captured, cut>>
    BY <1>1 DEF AddConversation
  <2>6. \A u \in Tasks : u # t => pc'[u] = pc[u]
    BY <1>1 DEF AddConversation, Goto
  <2>7. slot # 0 => slot' = slot /\ pc'[t] \notin OwnerPcs
    BY <1>1 DEF AddConversation, Goto
  <2> QED
    BY <2>4, <2>5, <2>6, <2>7, CutKept
<1>2. ASSUME NEW t \in Tasks, OperatorRestart(t) PROVE CutInv'
  <2> HIDE DEF CutInv, CutRuns, CutIsNeverReplayed
  <2>1. pc[t] \notin OwnerPcs /\ UNCHANGED <<status, phase, captured, cut>>
    BY <1>2 DEF OperatorRestart
  <2>2. \A u \in Tasks : u # t => pc'[u] = pc[u]
    BY <1>2 DEF OperatorRestart, Goto
  <2>3. slot # 0 => slot' = slot /\ pc'[t] \notin OwnerPcs
    BY <1>2 DEF OperatorRestart, Goto
  <2> QED
    BY <2>1, <2>2, <2>3, CutKept
<1>3. ASSUME NEW t \in Tasks, RequestMaintenance(t) PROVE CutInv'
  <2> HIDE DEF CutInv, CutRuns, CutIsNeverReplayed
  <2>1. pc[t] \notin OwnerPcs /\ UNCHANGED <<status, phase, captured, cut>>
    BY <1>3 DEF RequestMaintenance
  <2>2. \A u \in Tasks : u # t => pc'[u] = pc[u]
    BY <1>3 DEF RequestMaintenance, Goto
  <2>3. slot # 0 => slot' = slot /\ pc'[t] \notin OwnerPcs
    BY <1>3 DEF RequestMaintenance, Goto
  <2> QED
    BY <2>1, <2>2, <2>3, CutKept
<1>4. ASSUME NEW t \in Tasks, ClockMaintenance(t) PROVE CutInv'
  BY <1>4 DEF ClockMaintenance, Goto
<1>5. ASSUME NEW t \in Tasks, OpenSpace(t) PROVE CutInv'
  BY <1>5 DEF OpenSpace, Goto
<1>6. ASSUME NEW t \in Tasks, Resume(t) PROVE CutInv'
  <2> HIDE DEF CutInv, CutRuns, CutIsNeverReplayed
  <2>1. pc[t] \notin OwnerPcs /\ UNCHANGED <<status, phase, captured, cut>>
    BY <1>6 DEF Resume
  <2>2. \A u \in Tasks : u # t => pc'[u] = pc[u]
    BY <1>6 DEF Resume, Goto
  <2>3. slot # 0 => slot' = slot /\ pc'[t] \notin OwnerPcs
    BY <1>6 DEF Resume, Goto
  <2> QED
    BY <2>1, <2>2, <2>3, CutKept
<1>7. ASSUME NEW t \in Tasks, LoadSlot(t) PROVE CutInv'
  <2> HIDE DEF CutInv, CutRuns, CutIsNeverReplayed
  <2>1. pc[t] \notin OwnerPcs /\ UNCHANGED <<status, phase, captured, cut>>
    BY <1>7 DEF LoadSlot
  <2>2. \A u \in Tasks : u # t => pc'[u] = pc[u]
    BY <1>7 DEF LoadSlot, Goto, Finish
  <2>3. slot # 0 => slot' = slot /\ pc'[t] \notin OwnerPcs
    BY <1>7 DEF LoadSlot, Goto, Finish
  <2> QED
    BY <2>1, <2>2, <2>3, CutKept
<1>8. ASSUME NEW t \in Tasks, LoadMaintenance(t) PROVE CutInv'
  <2> HIDE DEF CutInv, CutRuns, CutIsNeverReplayed
  <2>1. pc[t] \notin OwnerPcs /\ UNCHANGED <<status, phase, captured, cut>>
    BY <1>8 DEF LoadMaintenance
  <2>2. \A u \in Tasks : u # t => pc'[u] = pc[u]
    BY <1>8 DEF LoadMaintenance, Goto, Finish
  <2>3. slot # 0 => slot' = slot /\ pc'[t] \notin OwnerPcs
    BY <1>8 DEF LoadMaintenance, Goto, Finish
  <2> QED
    BY <2>1, <2>2, <2>3, CutKept
<1>9. ASSUME NEW t \in Tasks, LoadProcessed(t) PROVE CutInv'
  <2> HIDE DEF CutInv, CutRuns, CutIsNeverReplayed
  <2>1. pc[t] \notin OwnerPcs /\ UNCHANGED <<status, phase, captured, cut>>
    BY <1>9 DEF LoadProcessed
  <2>2. \A u \in Tasks : u # t => pc'[u] = pc[u]
    BY <1>9 DEF LoadProcessed, Goto
  <2>3. slot # 0 => slot' = slot /\ pc'[t] \notin OwnerPcs
    BY <1>9 DEF LoadProcessed, Goto
  <2> QED
    BY <2>1, <2>2, <2>3, CutKept
<1>10. ASSUME NEW t \in Tasks, Find(t) PROVE CutInv'
  <2> HIDE DEF CutInv, CutRuns, CutIsNeverReplayed
  <2>1. pc[t] \notin OwnerPcs /\ UNCHANGED <<status, phase, captured, cut>>
    BY <1>10 DEF Find
  <2>2. \A u \in Tasks : u # t => pc'[u] = pc[u]
    BY <1>10 DEF Find, Goto, Finish
  <2>3. slot # 0 => slot' = slot /\ pc'[t] \notin OwnerPcs
    BY <1>10 DEF Find, Goto, Finish
  <2> QED
    BY <2>1, <2>2, <2>3, CutKept
<1>11. ASSUME NEW t \in Tasks, TryProcess(t) PROVE CutInv'
  <2> HIDE DEF CutInv, CutRuns, CutIsNeverReplayed
  <2>1. pc[t] \notin OwnerPcs /\ UNCHANGED <<status, phase, captured, cut>>
    BY <1>11 DEF TryProcess
  <2>2. \A u \in Tasks : u # t => pc'[u] = pc[u]
    BY <1>11 DEF TryProcess, Goto, Finish
  <2>3. slot # 0 => slot' = slot /\ pc'[t] \notin OwnerPcs
    BY <1>11 DEF TryProcess, Goto, Finish
  <2> QED
    BY <2>1, <2>2, <2>3, CutKept
<1>12. ASSUME NEW t \in Tasks, Spawn(t) PROVE CutInv'
  BY <1>12 DEF Spawn, Goto, Finish
<1>13. ASSUME NEW t \in Tasks, PersistTurn(t) PROVE CutInv'
  BY <1>13 DEF PersistTurn
<1>14. ASSUME NEW t \in Tasks, EndPass(t) PROVE CutInv'
  BY <1>14 DEF EndPass, Goto
<1>15. ASSUME NEW t \in Tasks, RetryPass(t) PROVE CutInv'
  BY <1>15 DEF RetryPass, Goto
<1>16. ASSUME NEW t \in Tasks, RecordFailedRound(t) PROVE CutInv'
  BY <1>16 DEF RecordFailedRound, Goto
<1>17. ASSUME NEW t \in Tasks, SettlePass(t) PROVE CutInv'
  BY <1>17 DEF SettlePass, Goto, Finish
<1>18. ASSUME NEW t \in Tasks, Schedule(t) PROVE CutInv'
  BY <1>18 DEF Schedule, Goto
<1>19. ASSUME NEW t \in Tasks, HandOff(t) PROVE CutInv'
  BY <1>19 DEF HandOff, Goto
<1>20. ASSUME NEW t \in Tasks, HandOffFails(t) PROVE CutInv'
  BY <1>20 DEF HandOffFails, Goto
<1>21. ASSUME NEW t \in Tasks, NextConversation(t) PROVE CutInv'
  BY <1>21 DEF NextConversation, Goto, Finish
<1>22. ASSUME NEW t \in Tasks, Release(t) PROVE CutInv'
  BY <1>22 DEF Release, Goto
<1>23. ASSUME NEW t \in Tasks, Recheck(t) PROVE CutInv'
  BY <1>23 DEF Recheck, Goto, Finish
<1>24. ASSUME NEW t \in Tasks, Claim(t) PROVE CutInv'
  <2> HIDE DEF CutInv, CutRuns, CutIsNeverReplayed
  <2>1. pc[t] \notin OwnerPcs /\ UNCHANGED <<status, phase, captured, cut>>
    BY <1>24 DEF Claim
  <2>2. \A u \in Tasks : u # t => pc'[u] = pc[u]
    BY <1>24 DEF Claim, Goto, Finish
  <2>3. slot # 0 => slot' = slot /\ pc'[t] \notin OwnerPcs
    BY <1>24 DEF Claim, Goto, Finish
  <2> QED
    BY <2>1, <2>2, <2>3, CutKept
<1>25. ASSUME NEW t \in Tasks, ClaimMaintenance(t) PROVE CutInv'
  <2> HIDE DEF CutInv, CutRuns, CutIsNeverReplayed
  <2>1. pc[t] \notin OwnerPcs /\ UNCHANGED <<status, phase, captured, cut>>
    BY <1>25 DEF ClaimMaintenance
  <2>2. \A u \in Tasks : u # t => pc'[u] = pc[u]
    BY <1>25 DEF ClaimMaintenance, Goto, Finish
  <2>3. slot # 0 => slot' = slot /\ pc'[t] \notin OwnerPcs
    BY <1>25 DEF ClaimMaintenance, Goto, Finish
  <2> QED
    BY <2>1, <2>2, <2>3, CutKept
<1>26. ASSUME NEW t \in Tasks, StartSleep(t) PROVE CutInv'
  <2> HIDE DEF CutInv, CutRuns, CutIsNeverReplayed
  <2>1. pc[t] \notin OwnerPcs /\ UNCHANGED <<status, phase, captured, cut>>
    BY <1>26 DEF StartSleep
  <2>2. \A u \in Tasks : u # t => pc'[u] = pc[u]
    BY <1>26 DEF StartSleep, Goto, Finish
  <2>3. slot # 0 => slot' = slot /\ pc'[t] \notin OwnerPcs
    BY <1>26 DEF StartSleep, Goto, Finish
  <2> QED
    BY <2>1, <2>2, <2>3, CutKept
<1>27. ASSUME NEW t \in Tasks, AbortMaintenance(t) PROVE CutInv'
  BY <1>27 DEF AbortMaintenance, Finish
<1>28. ASSUME NEW t \in Tasks, EndSleep(t) PROVE CutInv'
  BY <1>28 DEF EndSleep, Goto
<1>29. ASSUME NEW t \in Tasks, Wake(t) PROVE CutInv'
  BY <1>29 DEF Wake
<1>30. ASSUME NEW t \in Tasks, DropTask(t) PROVE CutInv'
  BY <1>30 DEF DropTask, Finish
<1>31. CASE BeginClose
  BY <1>31 DEF BeginClose
<1>32. CASE CaptureAgain
  BY <1>32 DEF CaptureAgain
<1>33. CASE CancelTasks
  <2>1. ASSUME NEW c \in cut' PROVE status[c] # "none" /\ CutRuns(c)'
    <3>1. PICK t \in Tasks : pc[t] = "process" /\ c = cur[t]
      BY <1>33, <2>1 DEF CancelTasks
    <3>2. cur[t] # 0 /\ slot = cur[t] /\ \A u \in Tasks : pc[u] \in OwnerPcs => u = t
      BY <1>33, <3>1 DEF CancelTasks, HasConversation, OneOwner
    <3> QED
      BY <1>33, <3>1, <3>2 DEF CancelTasks, Added
  <2> QED
    BY <1>33, <2>1 DEF CancelTasks
<1>34. CASE CancelEngine
  BY <1>34 DEF CancelEngine
<1>35. CASE Reconcile
  <2>1. \A c \in cut : c \in Ids /\ status[c] # "none" /\ c \in captured
    BY <1>35 DEF Reconcile
  <2>2. \A c \in cut : status'[c] \in Terminal
    BY <1>35, <2>1 DEF Reconcile, Pending, Terminal, Statuses
  <2>3. \A c \in cut : status'[c] # "none"
    BY <2>2 DEF Terminal
  <2> QED
    BY <1>35, <2>2, <2>3 DEF Reconcile
<1>36. CASE Crash
  BY <1>36 DEF Crash
<1>37. CASE UNCHANGED vars
  BY <1>37 DEF vars
<1> QED
  BY <1>1, <1>2, <1>3, <1>4, <1>5, <1>6, <1>7, <1>8, <1>9, <1>10, <1>11, <1>12, <1>13, <1>14,
     <1>15, <1>16, <1>17, <1>18, <1>19, <1>20, <1>21, <1>22, <1>23, <1>24, <1>25, <1>26, <1>27,
     <1>28, <1>29, <1>30, <1>31, <1>32, <1>33, <1>34, <1>35, <1>36, <1>37
  DEF Next, Step, Arrive

\* Only the end of a cycle touches the cadence.
LEMMA CadenceMoves == [Next]_vars => UNCHANGED doneAt \/ \E u \in Tasks : EndSleep(u)
<1> SUFFICES ASSUME [Next]_vars
             PROVE  UNCHANGED doneAt \/ \E u \in Tasks : EndSleep(u)
  OBVIOUS
<1> USE DEF durable
<1>1. ASSUME NEW t \in Tasks, AddConversation(t)
      PROVE  UNCHANGED doneAt \/ \E u \in Tasks : EndSleep(u)
  BY <1>1 DEF AddConversation
<1>2. ASSUME NEW t \in Tasks, OperatorRestart(t)
      PROVE  UNCHANGED doneAt \/ \E u \in Tasks : EndSleep(u)
  BY <1>2 DEF OperatorRestart
<1>3. ASSUME NEW t \in Tasks, RequestMaintenance(t)
      PROVE  UNCHANGED doneAt \/ \E u \in Tasks : EndSleep(u)
  BY <1>3 DEF RequestMaintenance
<1>4. ASSUME NEW t \in Tasks, ClockMaintenance(t)
      PROVE  UNCHANGED doneAt \/ \E u \in Tasks : EndSleep(u)
  BY <1>4 DEF ClockMaintenance
<1>5. ASSUME NEW t \in Tasks, OpenSpace(t)
      PROVE  UNCHANGED doneAt \/ \E u \in Tasks : EndSleep(u)
  BY <1>5 DEF OpenSpace
<1>6. ASSUME NEW t \in Tasks, Resume(t)
      PROVE  UNCHANGED doneAt \/ \E u \in Tasks : EndSleep(u)
  BY <1>6 DEF Resume
<1>7. ASSUME NEW t \in Tasks, LoadSlot(t)
      PROVE  UNCHANGED doneAt \/ \E u \in Tasks : EndSleep(u)
  BY <1>7 DEF LoadSlot
<1>8. ASSUME NEW t \in Tasks, LoadMaintenance(t)
      PROVE  UNCHANGED doneAt \/ \E u \in Tasks : EndSleep(u)
  BY <1>8 DEF LoadMaintenance
<1>9. ASSUME NEW t \in Tasks, LoadProcessed(t)
      PROVE  UNCHANGED doneAt \/ \E u \in Tasks : EndSleep(u)
  BY <1>9 DEF LoadProcessed
<1>10. ASSUME NEW t \in Tasks, Find(t)
      PROVE  UNCHANGED doneAt \/ \E u \in Tasks : EndSleep(u)
  BY <1>10 DEF Find
<1>11. ASSUME NEW t \in Tasks, TryProcess(t)
      PROVE  UNCHANGED doneAt \/ \E u \in Tasks : EndSleep(u)
  BY <1>11 DEF TryProcess
<1>12. ASSUME NEW t \in Tasks, Spawn(t)
      PROVE  UNCHANGED doneAt \/ \E u \in Tasks : EndSleep(u)
  BY <1>12 DEF Spawn
<1>13. ASSUME NEW t \in Tasks, PersistTurn(t)
      PROVE  UNCHANGED doneAt \/ \E u \in Tasks : EndSleep(u)
  BY <1>13 DEF PersistTurn
<1>14. ASSUME NEW t \in Tasks, EndPass(t)
      PROVE  UNCHANGED doneAt \/ \E u \in Tasks : EndSleep(u)
  BY <1>14 DEF EndPass
<1>15. ASSUME NEW t \in Tasks, RetryPass(t)
      PROVE  UNCHANGED doneAt \/ \E u \in Tasks : EndSleep(u)
  BY <1>15 DEF RetryPass
<1>16. ASSUME NEW t \in Tasks, RecordFailedRound(t)
      PROVE  UNCHANGED doneAt \/ \E u \in Tasks : EndSleep(u)
  BY <1>16 DEF RecordFailedRound
<1>17. ASSUME NEW t \in Tasks, SettlePass(t)
      PROVE  UNCHANGED doneAt \/ \E u \in Tasks : EndSleep(u)
  BY <1>17 DEF SettlePass
<1>18. ASSUME NEW t \in Tasks, Schedule(t)
      PROVE  UNCHANGED doneAt \/ \E u \in Tasks : EndSleep(u)
  BY <1>18 DEF Schedule
<1>19. ASSUME NEW t \in Tasks, HandOff(t)
      PROVE  UNCHANGED doneAt \/ \E u \in Tasks : EndSleep(u)
  BY <1>19 DEF HandOff
<1>20. ASSUME NEW t \in Tasks, HandOffFails(t)
      PROVE  UNCHANGED doneAt \/ \E u \in Tasks : EndSleep(u)
  BY <1>20 DEF HandOffFails
<1>21. ASSUME NEW t \in Tasks, NextConversation(t)
      PROVE  UNCHANGED doneAt \/ \E u \in Tasks : EndSleep(u)
  BY <1>21 DEF NextConversation
<1>22. ASSUME NEW t \in Tasks, Release(t)
      PROVE  UNCHANGED doneAt \/ \E u \in Tasks : EndSleep(u)
  BY <1>22 DEF Release
<1>23. ASSUME NEW t \in Tasks, Recheck(t)
      PROVE  UNCHANGED doneAt \/ \E u \in Tasks : EndSleep(u)
  BY <1>23 DEF Recheck
<1>24. ASSUME NEW t \in Tasks, Claim(t)
      PROVE  UNCHANGED doneAt \/ \E u \in Tasks : EndSleep(u)
  BY <1>24 DEF Claim
<1>25. ASSUME NEW t \in Tasks, ClaimMaintenance(t)
      PROVE  UNCHANGED doneAt \/ \E u \in Tasks : EndSleep(u)
  BY <1>25 DEF ClaimMaintenance
<1>26. ASSUME NEW t \in Tasks, StartSleep(t)
      PROVE  UNCHANGED doneAt \/ \E u \in Tasks : EndSleep(u)
  BY <1>26 DEF StartSleep
<1>27. ASSUME NEW t \in Tasks, AbortMaintenance(t)
      PROVE  UNCHANGED doneAt \/ \E u \in Tasks : EndSleep(u)
  BY <1>27 DEF AbortMaintenance
<1>28. ASSUME NEW t \in Tasks, EndSleep(t)
      PROVE  UNCHANGED doneAt \/ \E u \in Tasks : EndSleep(u)
  BY <1>28
<1>29. ASSUME NEW t \in Tasks, Wake(t)
      PROVE  UNCHANGED doneAt \/ \E u \in Tasks : EndSleep(u)
  BY <1>29 DEF Wake
<1>30. ASSUME NEW t \in Tasks, DropTask(t)
      PROVE  UNCHANGED doneAt \/ \E u \in Tasks : EndSleep(u)
  BY <1>30 DEF DropTask
<1>31. CASE BeginClose
  BY <1>31 DEF BeginClose
<1>32. CASE CaptureAgain
  BY <1>32 DEF CaptureAgain
<1>33. CASE CancelTasks
  BY <1>33 DEF CancelTasks
<1>34. CASE CancelEngine
  BY <1>34 DEF CancelEngine
<1>35. CASE Reconcile
  BY <1>35 DEF Reconcile
<1>36. CASE Crash
  BY <1>36 DEF Crash
<1>37. CASE UNCHANGED vars
  BY <1>37 DEF vars
<1> QED
  BY <1>1, <1>2, <1>3, <1>4, <1>5, <1>6, <1>7, <1>8, <1>9, <1>10, <1>11, <1>12, <1>13, <1>14,
     <1>15, <1>16, <1>17, <1>18, <1>19, <1>20, <1>21, <1>22, <1>23, <1>24, <1>25, <1>26, <1>27,
     <1>28, <1>29, <1>30, <1>31, <1>32, <1>33, <1>34, <1>35, <1>36, <1>37
  DEF Next, Step, Arrive

-----------------------------------------------------------------------------

\* The inductive invariant for every combination of faults.
QueueInv == GateInv /\ SlotHeld /\ FlagHeld /\ CadenceInv /\ Added /\ Settled /\ Stale /\ CutInv

\* It holds when the Space is created.
LEMMA QueueInvInit == Init => QueueInv
<1>1. Init => SlotHeld /\ Settled /\ Stale
  BY MaxConvAssumption DEF Init, SlotHeld, Settled, Stale
<1>2. Init => FlagHeld
  BY Zenon DEF Init, FlagHeld
<1>3. Init => CadenceInv
  BY DEF Init, CadenceInv, MaintPcs
<1>4. Init => Added
  BY DEF Init, Added
<1>5. Init => CutInv
  BY DEF Init, CutInv, CutIsNeverReplayed
<1> QED
  BY <1>1, <1>2, <1>3, <1>4, <1>5, GateInvInit DEF QueueInv

\* Every step keeps it.
LEMMA QueueInvStep == QueueInv /\ [Next]_vars => QueueInv'
  BY GateInvStep, SlotHeldStep, FlagHeldStep, CadenceInvStep, AddedStep, SettledStep, StaleStep, CutInvStep
     DEF QueueInv, GateInv

\* No exit path of a loop, a cycle, an aborted request, a refused spawn or a dropped task
\* leaves the ProcessingGate taken with no task to give it back, whatever the faults.
THEOREM NoGateLeaks == Spec => []NoLeakedGate
<1>1. QueueInv => NoLeakedGate
  BY DEF QueueInv, SlotHeld, FlagHeld, NoLeakedGate
<1> QED
  BY <1>1, QueueInvInit, QueueInvStep, PTL DEF Spec

\* A cycle that read the watermark early never undoes the cadence a later one recorded:
\* the claim is exclusive, so the later one read its watermark after.
THEOREM CadenceIsMonotone == Spec => CadenceNeverRewinds
<1>1. QueueInv /\ [Next]_vars => [\A s \in Scopes : doneAt'[s] >= doneAt[s]]_vars
  <2> SUFFICES ASSUME QueueInv, [Next]_vars, NEW s \in Scopes PROVE doneAt'[s] >= doneAt[s]
    OBVIOUS
  <2>1. OtherTypes /\ CadenceInv
    BY DEF QueueInv, GateInv
  <2>2. doneAt[s] \in Nat
    BY <2>1, MaxConvAssumption DEF OtherTypes, Ids0
  <2>3. CASE UNCHANGED doneAt
    BY <2>2, <2>3
  <2>4. ASSUME NEW t \in Tasks, EndSleep(t) PROVE doneAt'[s] >= doneAt[s]
    <3>1. doneAt'[s] \in {doneAt[s], mark[t]} /\ pc[t] \in MaintPcs
      BY <2>1, <2>4 DEF EndSleep, OtherTypes, MaintPcs
    <3>2. doneAt[s] <= mark[t] /\ mark[t] \in Nat
      BY <2>1, <3>1, MaxConvAssumption DEF CadenceInv, OtherTypes, Ids0
    <3> QED
      BY <2>2, <3>1, <3>2
  <2>5. UNCHANGED doneAt \/ \E t \in Tasks : EndSleep(t)
    BY CadenceMoves
  <2> QED
    BY <2>3, <2>4, <2>5
<1> QED
  BY <1>1, QueueInvInit, QueueInvStep, PTL DEF Spec, CadenceNeverRewinds

\* close() never leaves a pass that it cut short to be replayed: it is settled by the time
\* the Space can be opened again, for any number of loops, requests and conversations.
THEOREM CutPassesAreSettled == Spec => []CutIsNeverReplayed
<1>1. QueueInv => CutIsNeverReplayed
  BY DEF QueueInv, CutInv
<1> QED
  BY <1>1, QueueInvInit, QueueInvStep, PTL DEF Spec

\* The part of the invariant that an operator who jumps over conversations breaks.
HeadInv == QueueInv /\ MarksBehind /\ Order

LEMMA HeadInvInit == Init => HeadInv
<1>1. Init => MarksBehind /\ Order
  BY DEF Init, MarksBehind, Order, HeadPcs
<1> QED
  BY <1>1, QueueInvInit DEF HeadInv

LEMMA HeadInvStep == ASSUME "jump" \notin Faults PROVE HeadInv /\ [Next]_vars => HeadInv'
  BY QueueInvStep, MarksBehindStep, OrderStep DEF HeadInv, QueueInv, GateInv

\* A Space's queue is formed sequentially, from its head, through crashes, closes, aborted
\* requests and restarts by an operator, unless the operator jumps over conversations.
THEOREM QueueIsOrdered == ASSUME "jump" \notin Faults PROVE Spec => []QueueOrder
<1>1. HeadInv => QueueOrder
  BY DEF HeadInv, Order, QueueOrder, HeadPcs
<1> QED
  BY <1>1, HeadInvInit, HeadInvStep, PTL DEF Spec

\* The watermark moves up only, and over settled conversations only, unless an operator
\* jumps over some: a conversation it skipped would never be looked for again.
THEOREM WatermarkIsExact == ASSUME "jump" \notin Faults PROVE Spec => WatermarkNeverSkips
<1> DEFINE Exact == processed' # processed =>
                      /\ processed' > processed
                      /\ \A c \in Ids : processed < c /\ c <= processed' => status'[c] \in Terminal
<1>1. HeadInv /\ [Next]_vars => [Exact]_vars
  <2> SUFFICES ASSUME HeadInv, [Next]_vars, processed' # processed PROVE Exact
    OBVIOUS
  <2>1. OtherTypes /\ HasConversation /\ Order
    BY DEF HeadInv, QueueInv, GateInv
  <2>2. PICK t \in Tasks : SettlePass(t) /\ processed' = MaxOf(processed, cur[t])
    BY <2>1, MarksFollowStep DEF MarksFollow
  <2>3. processed \in Nat /\ cur[t] \in Nat
    BY <2>1, MaxConvAssumption DEF OtherTypes, Ids0
  <2>4. processed' = cur[t] /\ processed' > processed
    BY <2>2, <2>3 DEF MaxOf
  <2>5. status[cur[t]] \in Terminal /\ UNCHANGED status /\ pc[t] \in HeadPcs
    BY <2>2 DEF SettlePass, HeadPcs
  <2>6. ASSUME NEW c \in Ids, processed < c, c <= processed' PROVE status'[c] \in Terminal
    <3>1. c = cur[t] \/ c < cur[t]
      BY <2>3, <2>4, <2>6, MaxConvAssumption DEF Ids
    <3>2. CASE c < cur[t]
      BY <2>1, <2>5, <2>6, <3>2 DEF Order
    <3> QED
      BY <2>5, <3>1, <3>2
  <2> QED
    BY <2>4, <2>6
<1> QED
  BY <1>1, HeadInvInit, HeadInvStep, PTL DEF Spec, WatermarkNeverSkips
=============================================================================
