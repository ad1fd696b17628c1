----------------------------- MODULE RecordWatch -----------------------------
(***************************************************************************)
(* Watches that the recipient of an inbox keeps on records: the creation   *)
(* with its idempotency key, the one grant that lets the controller cancel *)
(* the new watch, arming, the stored row and the cancellation.             *)
(*                                                                         *)
(* An operation holds the gate of the Space's runtime; a crash or a failed *)
(* write may stop it between two durable steps, and the caller retries.    *)
(***************************************************************************)
EXTENDS Naturals

CONSTANTS
    Operations,     \* operation ids of one recipient
    Digests,        \* what an operation may ask for
    MaxVersion      \* bound on the versions of a watch

VARIABLES
    row,        \* the RecordWatch row of each operation
    watch,      \* native: the watch that the operation's client key created
    marker,     \* the durable marker of its grant: "none", "begun", "done"
    grant,      \* native: the grant to cancel it is in force
    granted,    \* grants that were created for it
    armings,    \* times the watch was armed
    job         \* the holder of the gate

vars == <<row, watch, marker, grant, granted, armings, job>>

NoRow == [state |-> "none"]
NoWatch == [version |-> 0, status |-> "none"]
NoJob == [at |-> "idle"]

Init ==
    /\ row = [o \in Operations |-> NoRow]
    /\ watch = [o \in Operations |-> NoWatch]
    /\ marker = [o \in Operations |-> "none"]
    /\ grant = [o \in Operations |-> FALSE]
    /\ granted = [o \in Operations |-> 0]
    /\ armings = [o \in Operations |-> 0]
    /\ job = NoJob

native == <<watch, grant, granted, armings>>

\* create_record_watch: an operation that has its row is answered from it; one with
\* another digest is refused.
CreateBegin(o, d) ==
    /\ job = NoJob
    /\ row[o] = NoRow
    /\ job' = [at |-> "create", o |-> o, d |-> d]
    /\ UNCHANGED <<row, native, marker>>

\* The idempotency key returns the watch of an earlier attempt; its key binds the request.
CreateConcept ==
    /\ job.at = "create"
    /\ watch' = IF watch[job.o] = NoWatch
                THEN [watch EXCEPT ![job.o] = [version |-> 1, status |-> "disarmed", digest |-> job.d]]
                ELSE watch
    /\ job' = IF watch'[job.o].digest # job.d THEN NoJob
              ELSE [job EXCEPT !.at = IF watch'[job.o].version = 1 THEN "marker" ELSE "row"]
    /\ UNCHANGED <<row, marker, grant, granted, armings>>

\* provision_watch_cancellation: the marker comes before the grant.  After a crash
\* between them the grant is found, or the operation needs an operator.
Mark ==
    /\ job.at = "marker"
    /\ \/ /\ marker[job.o] = "done" \/ (marker[job.o] = "begun" /\ grant[job.o])
          /\ marker' = [marker EXCEPT ![job.o] = "done"]
          /\ job' = [job EXCEPT !.at = "arm"]
       \/ /\ marker[job.o] = "begun" /\ ~grant[job.o]
          /\ job' = NoJob
          /\ UNCHANGED marker
       \/ /\ marker[job.o] = "none"
          /\ marker' = [marker EXCEPT ![job.o] = "begun"]
          /\ job' = [job EXCEPT !.at = "grant"]
    /\ UNCHANGED <<row, native>>

CreateGrant ==
    /\ job.at = "grant"
    /\ grant' = [grant EXCEPT ![job.o] = TRUE]
    /\ granted' = [granted EXCEPT ![job.o] = @ + 1]
    /\ job' = [job EXCEPT !.at = "granted"]
    /\ UNCHANGED <<row, watch, marker, armings>>

FinishGrant ==
    /\ job.at = "granted"
    /\ marker' = [marker EXCEPT ![job.o] = "done"]
    /\ job' = [job EXCEPT !.at = "arm"]
    /\ UNCHANGED <<row, native>>

\* arm_watch expects version 1; any edit since then is a conflict.
Arm ==
    /\ job.at = "arm"
    /\ IF watch[job.o].version = 1
       THEN /\ watch' = [watch EXCEPT ![job.o].version = 2, ![job.o].status = "armed"]
            /\ armings' = [armings EXCEPT ![job.o] = @ + 1]
            /\ job' = [job EXCEPT !.at = "row"]
       ELSE /\ job' = NoJob
            /\ UNCHANGED <<watch, armings>>
    /\ UNCHANGED <<row, marker, grant, granted>>

PutRow ==
    /\ job.at = "row"
    /\ row' = [row EXCEPT ![job.o] = [state |-> watch[job.o].status, digest |-> job.d]]
    /\ job' = NoJob
    /\ UNCHANGED <<native, marker>>

\* watch_state: an archived element is a cancelled watch.
WatchState(o) == IF watch[o].status = "archived" THEN "cancelled" ELSE watch[o].status

\* cancel_record_watch archives with the controller's grant, at the version it read.
CancelBegin(o) ==
    /\ job = NoJob
    /\ row[o] # NoRow
    /\ job' = [at |-> IF WatchState(o) = "cancelled" THEN "cancelled" ELSE "archive", o |-> o,
               version |-> watch[o].version]
    /\ UNCHANGED <<row, native, marker>>

Archive ==
    /\ job.at = "archive"
    /\ IF watch[job.o].version = job.version /\ grant[job.o]
       THEN /\ watch' = [watch EXCEPT ![job.o].version = @ + 1, ![job.o].status = "archived"]
            /\ job' = [job EXCEPT !.at = "cancelled"]
       ELSE /\ job' = NoJob
            /\ UNCHANGED watch
    /\ UNCHANGED <<row, marker, grant, granted, armings>>

SaveCancelled ==
    /\ job.at = "cancelled"
    /\ row' = [row EXCEPT ![job.o].state = WatchState(job.o)]
    /\ job' = NoJob
    /\ UNCHANGED <<native, marker>>

\* Other actors: a scan advances or fires the watch, an operator disarms or edits it, or
\* revokes the grant.
EditWatch(o) ==
    /\ watch[o].version \in 1..(MaxVersion - 2)
    /\ \E status \in IF watch[o].status = "armed" THEN {"armed", "fired", "disarmed"}
                     ELSE {watch[o].status} :
         watch' = [watch EXCEPT ![o].version = @ + 1, ![o].status = status]
    /\ UNCHANGED <<row, marker, grant, granted, armings, job>>

Revoke(o) ==
    /\ grant[o]
    /\ grant' = [grant EXCEPT ![o] = FALSE]
    /\ UNCHANGED <<row, watch, marker, granted, armings, job>>

\* A crash, or a write whose acknowledgement is lost.
Crash ==
    /\ job # NoJob
    /\ job' = NoJob
    /\ UNCHANGED <<row, native, marker>>

Next ==
    \/ \E o \in Operations :
         \/ \E d \in Digests : CreateBegin(o, d)
         \/ CancelBegin(o) \/ EditWatch(o) \/ Revoke(o)
    \/ CreateConcept \/ Mark \/ CreateGrant \/ FinishGrant \/ Arm \/ PutRow
    \/ Archive \/ SaveCancelled
    \/ Crash

Spec == Init /\ [][Next]_vars

(***************************************************************************)
(* Properties.                                                             *)
(***************************************************************************)
TypeOK ==
    /\ marker \in [Operations -> {"none", "begun", "done"}]
    /\ grant \in [Operations -> BOOLEAN]
    /\ \A o \in Operations : watch[o].version \in 0..MaxVersion

\* However often a creation is interrupted and retried, the right to cancel is granted at
\* most once, so a revoked right never comes back, and the watch is armed at most once.
GrantedAndArmedOnce ==
    \A o \in Operations : granted[o] <= 1 /\ armings[o] <= 1
=============================================================================
