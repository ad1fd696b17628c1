---------------------------- MODULE RuntimeInbox ----------------------------
(***************************************************************************)
(* The attention inbox: a caller walks the wakes of a Space page by page   *)
(* under a sealed cursor, while wakes are created and what the caller may  *)
(* see changes.                                                            *)
(*                                                                         *)
(* The server keeps nothing between two calls: the cursor a caller holds   *)
(* is the whole position.  It carries the rest of a page of references,    *)
(* which are read again, one by one, when they are delivered.              *)
(***************************************************************************)
EXTENDS Naturals, Sequences, FiniteSets, SequencesExt

CONSTANTS
    NumWakes,       \* wakes numbered in the order of the native list
    NativePage,     \* how many references one native page holds
    MaxLimit,       \* bound on the limit a caller asks for
    MaxSteps        \* bound on what others do meanwhile

Wakes == 1..NumWakes

VARIABLES
    exists,     \* the wakes of the Space
    visible,    \* those the caller may read and receive
    steps,
    cursor,     \* what the caller holds: [native, pending, next, whole]
    call,       \* the call that runs
    walk        \* the caller's walk: [on, started, steady, got]

vars == <<exists, visible, steps, cursor, call, walk>>

Fresh == [native |-> 0, pending |-> <<>>, next |-> 0, whole |-> FALSE]
NoCall == [at |-> "none"]
NoWalk == [on |-> FALSE, steady |-> {}, got |-> <<>>]

Init ==
    /\ exists \in SUBSET Wakes
    /\ visible \in SUBSET Wakes
    /\ steps = 0
    /\ cursor = Fresh
    /\ call = NoCall
    /\ walk = NoWalk

(***************************************************************************)
(* What others do.  steady keeps the wakes that were there and visible     *)
(* since the walk began.                                                   *)
(***************************************************************************)
Fire(w) ==
    /\ w \notin exists /\ steps < MaxSteps
    /\ exists' = exists \union {w}
    /\ steps' = steps + 1
    /\ UNCHANGED <<visible, cursor, call, walk>>

Authority(w) ==
    /\ steps < MaxSteps
    /\ steps' = steps + 1
    /\ visible' = IF w \in visible THEN visible \ {w} ELSE visible \union {w}
    /\ walk' = [walk EXCEPT !.steady = @ \ {w}]
    /\ UNCHANGED <<exists, cursor, call>>

(***************************************************************************)
(* A call.                                                                 *)
(***************************************************************************)
StartWalk ==
    /\ ~walk.on /\ call = NoCall
    /\ walk' = [on |-> TRUE, steady |-> exists \intersect visible, got |-> <<>>]
    /\ cursor' = Fresh
    /\ UNCHANGED <<exists, visible, steps, call>>

Beyond(w) == SetToSortSeq({v \in exists : v > w}, <)

\* A call that has references left goes on with them; any other reads the next native page.
Inbox(limit) ==
    /\ walk.on /\ call = NoCall
    /\ LET rest == Beyond(cursor.native)
           n == IF Len(rest) < NativePage THEN Len(rest) ELSE NativePage
           page == [cursor EXCEPT !.pending = SubSeq(rest, 1, n), !.whole = (n = Len(rest)),
                                  !.next = IF n = 0 THEN @ ELSE rest[n]]
       IN call' = [at |-> "read", cursor |-> IF cursor.pending = <<>> THEN page ELSE cursor,
                   items |-> <<>>, limit |-> limit]
    /\ UNCHANGED <<exists, visible, steps, cursor, walk>>

Drop(c) == [c EXCEPT !.pending = Tail(@)]

\* A wake that is gone or not for this caller is passed over.
PassOver ==
    /\ call.at = "read" /\ call.cursor.pending # <<>>
    /\ Head(call.cursor.pending) \notin visible
    /\ call' = [call EXCEPT !.cursor = Drop(@)]
    /\ UNCHANGED <<exists, visible, steps, cursor, walk>>

\* Mutant: an item beyond the byte budget leaves the cursor with the page that dropped it.
OverBudgetDropped ==
    /\ call.at = "read" /\ call.items # <<>> /\ call.cursor.pending # <<>>
    /\ Head(call.cursor.pending) \in visible
    /\ call' = [call EXCEPT !.at = "reply", !.cursor = Drop(@)]
    /\ UNCHANGED <<exists, visible, steps, cursor, walk>>

\* An item that would pass the byte budget ends a page that already holds one.
OverBudget ==
    /\ call.at = "read" /\ call.items # <<>> /\ call.cursor.pending # <<>>
    /\ Head(call.cursor.pending) \in visible
    /\ call' = [call EXCEPT !.at = "reply"]
    /\ UNCHANGED <<exists, visible, steps, cursor, walk>>

Deliver ==
    /\ call.at = "read" /\ call.cursor.pending # <<>>
    /\ Head(call.cursor.pending) \in visible
    /\ LET items == Append(call.items, Head(call.cursor.pending))
       IN call' = [call EXCEPT !.at = IF Len(items) >= call.limit THEN "reply" ELSE "read",
                               !.items = items, !.cursor = Drop(@)]
    /\ UNCHANGED <<exists, visible, steps, cursor, walk>>

PageDone ==
    /\ call.at = "read" /\ call.cursor.pending = <<>>
    /\ call' = [call EXCEPT !.at = "reply"]
    /\ UNCHANGED <<exists, visible, steps, cursor, walk>>

\* The page and the sealed cursor go to the caller; a walk ends when nothing is left behind it.
Reply ==
    /\ call.at = "reply"
    /\ LET c == call.cursor
           complete == c.pending = <<>> /\ c.whole
       IN /\ cursor' = IF c.pending = <<>> THEN [c EXCEPT !.native = c.next] ELSE c
          /\ walk' = [walk EXCEPT !.on = ~complete, !.got = @ \o call.items]
    /\ call' = NoCall
    /\ UNCHANGED <<exists, visible, steps>>

\* A read that fails or runs out of time answers nothing: the caller still holds its cursor.  One
\* that has expired, or was sealed under another configuration, is refused and the walk begins again.
CallFails ==
    /\ call.at = "read"
    /\ call' = NoCall
    /\ UNCHANGED <<exists, visible, steps, cursor, walk>>

CursorRefused ==
    /\ walk.on /\ call = NoCall
    /\ cursor # Fresh
    /\ walk' = NoWalk
    /\ UNCHANGED <<exists, visible, steps, cursor, call>>

Next ==
    \/ \E w \in Wakes : Fire(w) \/ Authority(w)
    \/ StartWalk
    \/ \E limit \in 1..MaxLimit : Inbox(limit)
    \/ PassOver \/ OverBudget \/ Deliver \/ PageDone \/ Reply \/ CallFails \/ CursorRefused

Spec == Init /\ [][Next]_vars

-----------------------------------------------------------------------------
Cursors == [native : 0..NumWakes, pending : Seq(Wakes), next : 0..NumWakes, whole : BOOLEAN]

TypeOK ==
    /\ exists \subseteq Wakes /\ visible \subseteq Wakes
    /\ steps \in 0..MaxSteps
    /\ cursor \in Cursors
    /\ call # NoCall => call.cursor \in Cursors
    /\ walk.steady \subseteq Wakes
    /\ walk.got \in Seq(Wakes)

\* A walk that ended gave the caller, once each, every wake that was there and visible to it all
\* along, whatever limits it asked for, whatever calls failed and whatever appeared meanwhile
\* (inbox_inner); and no wake was given twice.
WalkIsComplete ==
    /\ ~walk.on => walk.steady \subseteq {walk.got[i] : i \in DOMAIN walk.got}
    /\ \A i, j \in DOMAIN walk.got : walk.got[i] = walk.got[j] => i = j
=============================================================================
