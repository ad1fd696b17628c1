--------------------------- MODULE EvidenceProofs ---------------------------
(***************************************************************************)
(* Theorems about MCEvidence: what the invariants of MemoryServicesProofs  *)
(* establish of the services when they are run together.                   *)
(***************************************************************************)
EXTENDS MCEvidence, MemoryServicesProofs

\* A step of the services is a step of each of them, or leaves it alone; the
\* settlement has other Commitments and Assertions where these are the focus.
LEMMA ServiceStep ==
  ASSUME Next \/ UNCHANGED vars
  PROVE  /\ UNCHANGED focus
         /\ focus # "promises" => Settle!Next \/ UNCHANGED settleVars
         /\ Api!Next \/ UNCHANGED apiVars
         /\ Observe!Next \/ UNCHANGED observeVars
         /\ Edge!Next \/ UNCHANGED edgeVars
         /\ Review!Next \/ UNCHANGED reviewVars
<1>1. CASE UNCHANGED vars BY <1>1 DEF vars
<1>2. CASE Next BY <1>2, Zenon DEF Next, MemoryVars, EdgeVars
<1> QED BY <1>1, <1>2

\* The cursor of the settlement never passes a superseded claim that the usage
\* ledger did not count, which it does once, and hands to a review only what was
\* counted; the cursor of the edge maintenance never passes one that was not
\* handed to a review; through pages, erasures, crashes and failed reads: for any
\* number of Assertions, transactions, claims, workers and any size of a page
\* (settlement/mod.rs, edge maintenance).
THEOREM CorrectionsAreSettledTheorem == Spec => []CorrectionsAreSettled
<1> DEFINE Inv == (focus # "promises" => SettleInv) /\ ReviewInv
<1>1. Init => Inv BY SettleInit, ReviewInit DEF Init
<1>2. Inv /\ [Next]_vars => Inv'
  BY ServiceStep, SettleStep, ReviewStep
<1>3. Inv => CorrectionsAreSettled
  BY SettleInvImplies DEF CorrectionsAreSettled, ReviewInv
<1> HIDE DEF Inv
<1> QED BY <1>1, <1>2, <1>3, PTL DEF Spec

\* A bootstrap grants once and a retried statement states its fact once; an
\* observation that was answered is in the published index, unless it is an audit
\* row of the learning lane, and the index fills no hole behind a reader,
\* wherever an operation stops: for any number of keys, contents, entries and
\* calls (runtime_api, consequence/service.rs, consequence/learning.rs).
THEOREM PublishedOnceTheorem == Spec => []PublishedOnce
<1>1. Init => ApiInv /\ ObserveInv BY ApiInit, ObserveInit DEF Init
<1>2. ApiInv /\ ObserveInv /\ [Next]_vars => (ApiInv /\ ObserveInv)'
  BY ServiceStep, ApiStep, ObserveStep
<1>3. ApiInv /\ ObserveInv => PublishedOnce
  BY ApiInvImplies DEF PublishedOnce, ObserveInv
<1> QED BY <1>1, <1>2, <1>3, PTL DEF Spec

\* On the edge worker, a forget that answered `completed` left nothing formed
\* from its source, although passes over it failed or were abandoned, unless the
\* pass that captured its observation is itself the failed one; and a source
\* that a managed change excluded contributes nothing more, through crashes,
\* failed writes and passes that were admitted before the change: for any number
\* of receipts, sources, statements of a plan and epochs (product.ts,
\* memory-ledger.ts).
THEOREM EdgeForgetsTheorem == Spec => EdgeForgets
<1>1. Init => EdgeInv BY EdgeInit DEF Init
<1>2. EdgeInv /\ [Next]_vars => EdgeInv' BY ServiceStep, EdgeStep
<1>3. EdgeInv => (focus = "edge" => Edge!TypeOK /\ Edge!CompletedIsErased)
  BY EdgeErased DEF EdgeInv, EdgeTypes
<1>4. EdgeInv /\ [Next]_vars =>
        [\A o \in Edge!Operations :
           change[o].state \in {"reconciling", "confirmed"} =>
             \A h \in held' \ held : intake[h[1]].source # o[1]]_(Edge!vars)
  BY ServiceStep, EdgeExcludes DEF Underway
<1> QED BY <1>1, <1>2, <1>3, <1>4, PTL DEF Spec, EdgeForgets, Edge!ExcludedNeverForms
=============================================================================
