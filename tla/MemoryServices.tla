--------------------------- MODULE MemoryServices ---------------------------
(***************************************************************************)
(* The services of a Space that settle what was said and observed, and on  *)
(* the edge worker take in, review and forget it: their constants, their   *)
(* state and the instances of their modules. MCEvidence runs them,         *)
(* MemoryServicesProofs proves about them.                                 *)
(***************************************************************************)
EXTENDS Naturals

CONSTANTS
  \* Settlement
  NumAssertions, SettleBatch, RootsLimit, MaxSeq, NumCommitments, ReviewLimit, MaxTime, SettleFaults,
  \* RuntimeApi
  Provisions, Statements, Texts, MaxGrants, MaxTries,
  \* Observations
  EventKeys, Bodies, Progress, Original, Corrections, Safety, Lanes, MaxIndex, MaxCalls,
  \* EdgeBrain
  Receipts, EdgeSources, PlanSize, MaxEdgeEpoch, EdgeFaults,
  \* EdgeMaintenance
  Workers, ReviewBatch, MaxReviewEpoch, MaxRoots,
  \* An absent operation or run
  Nothing

\* A page of a scan holds a row, and a review one Commitment.
SettleAssumption ==
  /\ NumAssertions \in Nat /\ SettleBatch \in Nat \ {0} /\ RootsLimit \in Nat /\ MaxSeq \in Nat
  /\ NumCommitments \in Nat /\ ReviewLimit \in Nat \ {0} /\ MaxTime \in Nat
  /\ SettleFaults \subseteq {"crash", "read", "write"}

ASSUME SettleAssumption

\* A statement says something: the word of an empty row is none of the texts.
ApiAssumption ==
  /\ "none" \notin Texts
  /\ MaxGrants \in Nat /\ MaxTries \in Nat

ASSUME ApiAssumption

\* The corrections name an event of the observer.
ObserveAssumption ==
  /\ Progress \subseteq Bodies /\ Original \in EventKeys /\ Corrections \subseteq EventKeys /\ Safety \subseteq EventKeys
  /\ Lanes \subseteq {"action", "learning"}
  /\ MaxIndex \in Nat /\ MaxCalls \in Nat

ASSUME ObserveAssumption

EdgeAssumption ==
  /\ PlanSize \in Nat /\ MaxEdgeEpoch \in Nat
  /\ EdgeFaults \subseteq {"crash", "abandon", "native", "scrub"}
  /\ Nothing \notin EdgeSources /\ Nothing \notin Receipts /\ Nothing \notin EdgeSources \X {"user", "forget"}

ASSUME EdgeAssumption

ReviewAssumption ==
  /\ ReviewBatch \in Nat \ {0} /\ MaxReviewEpoch \in Nat /\ MaxRoots \in Nat

ASSUME ReviewAssumption

VARIABLES
  \* Settlement
  seq, at, counts, meta, disk, seNow, commitment, raised, cycle, handed,
  \* RuntimeApi
  marker, granted, made, edits, runtime, apiRow, apiEvidence, apiCall, tries, answers,
  \* Observations
  lane, late, rows, outcome, closed, challenged, head, pointer, marked, op, calls,
  told, obCursor, reader,
  \* EdgeBrain
  control, scrub, suppressed, intake, held, capturedBy, forgot, change, edPass,
  \* EdgeMaintenance
  epoch, blocked, roots, gone, emCursor, page, acked, run, work

Settle == INSTANCE Settlement WITH
  ledger <- counts, now <- seNow,
  Batch <- SettleBatch, Faults <- SettleFaults

Api == INSTANCE RuntimeApi WITH
  row <- apiRow, evidence <- apiEvidence, call <- apiCall,
  Keys <- Statements

Observe == INSTANCE Observations WITH
  cursor <- obCursor, Keys <- EventKeys

Edge == INSTANCE EdgeBrain WITH
  pass <- edPass, None <- Nothing,
  Sources <- EdgeSources, Statements <- PlanSize, MaxEpoch <- MaxEdgeEpoch, Faults <- EdgeFaults

Review == INSTANCE EdgeMaintenance WITH
  cursor <- emCursor, None <- Nothing,
  Batch <- ReviewBatch, MaxEpoch <- MaxReviewEpoch

settleVars == <<seq, at, counts, meta, disk, seNow, commitment, raised, cycle, handed>>
apiVars == <<marker, granted, made, edits, runtime, apiRow, apiEvidence, apiCall, tries, answers>>
observeVars == <<lane, late, rows, outcome, closed, challenged, head, pointer, marked, op,
                 calls, told, obCursor, reader>>
edgeVars == <<control, scrub, suppressed, intake, held, capturedBy, forgot, change, edPass>>
reviewVars == <<epoch, blocked, roots, gone, emCursor, page, acked, run, work>>
=============================================================================
