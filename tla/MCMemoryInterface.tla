------------------------- MODULE MCMemoryInterface -------------------------
(***************************************************************************)
(* Small instances of MemoryInterface.  k1 records or revises s1; k2       *)
(* records s2, whose order names k1 as its predecessor, or forgets s1.      *)
(***************************************************************************)
EXTENDS MemoryInterface, TLC

Request(o, k, s) == [op |-> o, key |-> k, source |-> s]

\* Ordered intakes and a conflicting reuse of a key.
IntakeRequests ==
    {Request("observe", "k1", "s1"), Request("observe", "k2", "s2"), Request("observe", "k1", "s2")}

\* A misrecording, its readers, and feedback.
RepairRequests ==
    {Request("misrecorded", "k1", "s1"), Request("read", "k1", "s1"), Request("feedback", "k2", "s1")}

\* A report of a misrecording that names no target, and its successor.
ReportRequests ==
    {Request("report", "k1", "s1"), Request("read", "k1", "s1"), Request("observe", "k2", "s2")}

\* Recording and forgetting one source.
ForgetRequests == {Request("observe", "k1", "s1"), Request("forget", "k2", "s1")}
PayloadRequests == {Request("observe", "k1", "s1"), Request("payload", "k2", "s1")}

AllWorkloads == {IntakeRequests, RepairRequests, ReportRequests, ForgetRequests, PayloadRequests}
ForgetWorkload == {ForgetRequests}
Chain == [s \in Sources |-> IF s = "s2" THEN {"k1"} ELSE {}]

CallerSymmetry == Permutations(Callers)
=============================================================================
