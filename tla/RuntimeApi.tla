----------------------------- MODULE RuntimeApi -----------------------------
(***************************************************************************)
(* The memory runtime of a Space: the bootstrap of native grants when it   *)
(* is connected, and the agent statements it accepts afterwards.           *)
(*                                                                         *)
(* The bootstrap markers are durable extensions, the statements are rows   *)
(* of the directory, grants and evidence live in Nexus.  One await on each *)
(* of them is one step.  The runtime's gate lets one statement be handled  *)
(* at a time; a statement survives the caller that goes away.              *)
(***************************************************************************)
EXTENDS Naturals, FiniteSets

CONSTANTS
    Provisions,    \* the principals, each with its set of actions
    Keys,          \* statements: a principal, a wake and an event key
    Texts,         \* what a statement may say
    MaxGrants,     \* bound on what the administrator grants and revokes
    MaxTries       \* bound on the calls of respond

VARIABLES
    marker,     \* "none", "begun" or "complete" for each provision
    granted,    \* native: provisions some active grant covers
    made,       \* native: grants the bootstrap created, counted
    edits,
    runtime,    \* [at, p, left]: the runtime as it connects and serves
    row,        \* the stored statement of each key
    evidence,   \* native: <<idempotency key, text>> of each committed statement
    call,       \* the statement that holds the gate
    tries,
    answers     \* the receipts callers were given: <<key, text>>

vars == <<marker, granted, made, edits, runtime, row, evidence, call, tries, answers>>

NoRow == [text |-> "none", done |-> FALSE]
NoCall == [at |-> "none"]

Init ==
    /\ marker = [p \in Provisions |-> "none"]
    /\ granted \in SUBSET Provisions
    /\ made = [p \in Provisions |-> 0]
    /\ edits = 0
    /\ runtime = [at |-> "down"]
    /\ row = [k \in Keys |-> NoRow]
    /\ evidence = {}
    /\ call = NoCall
    /\ tries = 0
    /\ answers = {}

boot == <<marker, granted, made, edits>>
statements == <<row, evidence, call, tries, answers>>

(***************************************************************************)
(* The bootstrap.                                                          *)
(***************************************************************************)
\* The next provision in order, or the runtime serves.
Advance(left) ==
    IF left = {} THEN [at |-> "up"] ELSE [at |-> "read", p |-> CHOOSE p \in left : TRUE, left |-> left]

Connect ==
    /\ runtime.at = "down"
    /\ runtime' = Advance(Provisions)
    /\ UNCHANGED <<boot, statements>>

\* Mutant: an interrupted bootstrap begins again.
ReadMarkerAgain ==
    /\ runtime.at = "read"
    /\ LET p == runtime.p
       IN runtime' = CASE marker[p] = "complete" -> Advance(runtime.left \ {p})
                       [] marker[p] # "complete" /\ p \in granted -> [runtime EXCEPT !.at = "adopt"]
                       [] OTHER -> [runtime EXCEPT !.at = "begin"]
    /\ UNCHANGED <<boot, statements>>

\* A complete marker is final; a grant that covers the actions is adopted; a begun marker without
\* one is left to the administrator and the Space does not open.
ReadMarker ==
    /\ runtime.at = "read"
    /\ LET p == runtime.p
       IN runtime' = CASE marker[p] = "complete" -> Advance(runtime.left \ {p})
                       [] marker[p] # "complete" /\ p \in granted -> [runtime EXCEPT !.at = "adopt"]
                       [] marker[p] = "begun" /\ p \notin granted -> [at |-> "down"]
                       [] OTHER -> [runtime EXCEPT !.at = "begin"]
    /\ UNCHANGED <<boot, statements>>

SaveMarker(from, mark, to) ==
    /\ runtime.at = from
    /\ marker' = [marker EXCEPT ![runtime.p] = mark]
    /\ runtime' = to
    /\ UNCHANGED <<granted, made, edits, statements>>

Begin == SaveMarker("begin", "begun", [runtime EXCEPT !.at = "grant"])
Adopt == SaveMarker("adopt", "complete", Advance(runtime.left \ {runtime.p}))

CreateGrant ==
    /\ runtime.at = "grant"
    /\ granted' = granted \union {runtime.p}
    /\ made' = [made EXCEPT ![runtime.p] = @ + 1]
    /\ runtime' = [runtime EXCEPT !.at = "adopt"]
    /\ UNCHANGED <<marker, edits, statements>>

\* The administrator grants or revokes at any time.
Administer(p) ==
    /\ edits < MaxGrants
    /\ edits' = edits + 1
    /\ granted' = IF p \in granted THEN granted \ {p} ELSE granted \union {p}
    /\ UNCHANGED <<marker, made, runtime, statements>>

(***************************************************************************)
(* Agent statements.                                                       *)
(***************************************************************************)
\* A key that was used is bound to its words.
SameStatement(k, t) == row[k] = NoRow \/ row[k].text = t

\* The gate is taken and the stored row read: other words under the same key are refused.
Respond(k, t) ==
    /\ runtime.at = "up" /\ call = NoCall /\ tries < MaxTries
    /\ tries' = tries + 1
    /\ call' = IF ~SameStatement(k, t) THEN NoCall
               ELSE [at |-> IF row[k].done THEN "answer" ELSE "save", key |-> k, text |-> t]
    /\ UNCHANGED <<boot, runtime, row, evidence, answers>>

SaveCommand ==
    /\ call.at = "save"
    /\ row' = [row EXCEPT ![call.key] = [text |-> call.text, done |-> FALSE]]
    /\ call' = [call EXCEPT !.at = "commit"]
    /\ UNCHANGED <<boot, runtime, evidence, tries, answers>>

\* Mutant: every attempt is an operation of its own.
IdempotencyPerTry(k) == <<k, tries>>

\* The native idempotency key of a statement is its receipt.
IdempotencyKey(k) == <<k, 0>>

\* Nexus commits the evidence, replays the commit of a key it knows, or the answer is lost with
\* the commit made or not.
Commit ==
    /\ call.at = "commit"
    /\ LET made1 == {e \in evidence : e[1] = IdempotencyKey(call.key)}
       IN \/ /\ evidence' = IF made1 = {} THEN evidence \union {<<IdempotencyKey(call.key), call.text>>}
                            ELSE evidence
             /\ call' \in {[call EXCEPT !.at = "record"], NoCall}
          \/ UNCHANGED evidence /\ call' = NoCall
    /\ UNCHANGED <<boot, runtime, row, tries, answers>>

RecordEvidence ==
    /\ call.at = "record"
    /\ row' = [row EXCEPT ![call.key].done = TRUE]
    /\ call' = [call EXCEPT !.at = "answer"]
    /\ UNCHANGED <<boot, runtime, evidence, tries, answers>>

Answer ==
    /\ call.at = "answer"
    /\ answers' = answers \union {<<call.key, call.text>>}
    /\ call' = NoCall
    /\ UNCHANGED <<boot, runtime, row, evidence, tries>>

Crash ==
    /\ runtime.at # "down"
    /\ runtime' = [at |-> "down"]
    /\ call' = NoCall
    /\ UNCHANGED <<boot, row, evidence, tries, answers>>

Next ==
    \/ Connect \/ ReadMarker \/ Begin \/ Adopt \/ CreateGrant
    \/ \E p \in Provisions : Administer(p)
    \/ \E k \in Keys, t \in Texts : Respond(k, t)
    \/ SaveCommand \/ Commit \/ RecordEvidence \/ Answer
    \/ Crash

Spec == Init /\ [][Next]_vars

-----------------------------------------------------------------------------
TypeOK ==
    /\ marker \in [Provisions -> {"none", "begun", "complete"}]
    /\ granted \subseteq Provisions
    /\ made \in [Provisions -> 0..2]
    /\ edits \in 0..MaxGrants
    /\ runtime.at \in {"down", "read", "begin", "grant", "adopt", "up"}
    /\ row \in [Keys -> [text : Texts \union {"none"}, done : BOOLEAN]]
    /\ evidence \subseteq (Keys \X (0..MaxTries)) \X Texts
    /\ call.at \in {"none", "save", "commit", "record", "answer"}
    /\ tries \in 0..MaxTries
    /\ answers \subseteq Keys \X Texts

\* A grant the administrator revoked is never created again: the bootstrap creates at most one
\* grant for a principal and its actions, over any crashes and restarts (provision).
GrantedByBootstrapOnce == \A p \in Provisions : made[p] <= 1

\* A statement becomes one piece of evidence however often it is sent, whatever answers are lost;
\* a receipt is given for the words that were committed, never for others (respond_owned).
StatedOnce ==
    /\ \A e, f \in evidence : e[1][1] = f[1][1] => e = f
    /\ \A a \in answers : \E e \in evidence : e[1][1] = a[1] /\ e[2] = a[2]
=============================================================================
