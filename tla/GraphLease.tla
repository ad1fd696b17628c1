---------------------------- MODULE GraphLease ----------------------------
(***************************************************************************)
(* What the ProcessingGate promises, without its lock, slot, flag and      *)
(* phases: the memory graph is leased to one task at a time, which forms   *)
(* conversations in ascending order or runs a maintenance cycle, and only  *)
(* the task that forms a conversation moves the watermark over it.         *)
(* SpaceScheduler implements this module.                                  *)
(***************************************************************************)
EXTENDS Naturals

CONSTANTS
    Tasks,      \* asynchronous activities of the Space
    Ids         \* conversations, positive numbers in the order of the queue

VARIABLES
    lease,      \* what each task holds the graph for
    watermark   \* the last settled conversation

vars == <<lease, watermark>>

Free == [kind |-> "free", conv |-> 0]
Forming(c) == [kind |-> "forming", conv |-> c]
Maintaining == [kind |-> "maintaining", conv |-> 0]

Init ==
    /\ lease = [t \in Tasks |-> Free]
    /\ watermark = 0

\* Nobody holds the graph, so a task may.
Begin(t) ==
    /\ \A u \in Tasks : lease[u] = Free
    /\ \E l \in {Forming(c) : c \in Ids} \cup {Maintaining} : lease' = [lease EXCEPT ![t] = l]
    /\ UNCHANGED watermark

\* The loop goes on to a later conversation.
Proceed(t) ==
    /\ lease[t].kind = "forming"
    /\ \E c \in Ids : lease[t].conv < c /\ lease' = [lease EXCEPT ![t] = Forming(c)]
    /\ UNCHANGED watermark

\* The formed conversation is settled.
Settle(t) ==
    /\ lease[t].kind = "forming"
    /\ watermark < lease[t].conv
    /\ watermark' = lease[t].conv
    /\ UNCHANGED lease

\* The loop hands the graph to the cycle its settled conversation made due, and
\* takes it back when the cycle cannot start.
HandOver(t) ==
    /\ lease[t].kind = "forming"
    /\ lease[t].conv <= watermark
    /\ lease' = [lease EXCEPT ![t] = Maintaining]
    /\ UNCHANGED watermark

TakeBack(t) ==
    /\ lease[t] = Maintaining
    /\ \E c \in Ids : c <= watermark /\ lease' = [lease EXCEPT ![t] = Forming(c)]
    /\ UNCHANGED watermark

\* Tasks end, are cancelled, or are lost with the process.
End ==
    /\ \E S \in SUBSET Tasks : lease' = [t \in Tasks |-> IF t \in S THEN Free ELSE lease[t]]
    /\ UNCHANGED watermark

Next ==
    \/ \E t \in Tasks : Begin(t) \/ Proceed(t) \/ Settle(t) \/ HandOver(t) \/ TakeBack(t)
    \/ End

Spec == Init /\ [][Next]_vars
=============================================================================
