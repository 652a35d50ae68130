--------------------------------- MODULE Admission ---------------------------------
(***************************************************************************)
(* How much a worker takes on (worker.py): it leases the oldest rows that  *)
(* are due, as many as it has room for, counts what is leased for each     *)
(* connection, and hands back what exceeds the connection's ceiling.       *)
(* There is one ceiling for forwarding jobs and one for broadcasts.        *)
(*                                                                         *)
(* Leasing, counting and handing back are one transaction; what it leases  *)
(* is locked, and counted by others when it has committed.                 *)
(***************************************************************************)
EXTENDS Naturals, FiniteSets

CONSTANTS
    JobRows, TargetRows,   \* forwarding_jobs, broadcast_targets: numbers, oldest first
    FirstOfB,              \* rows from this number on belong to a second connection
    WorkerProcesses,
    Concurrency,           \* settings.worker_concurrency
    JobCeiling,            \* settings.per_connection_inflight
    TargetCeiling          \* settings.broadcast_inflight

ASSUME AdmissionAssumption ==
    /\ JobRows \subseteq Nat /\ TargetRows \subseteq Nat /\ JobRows \cap TargetRows = {}
    /\ IsFiniteSet(JobRows) /\ IsFiniteSet(TargetRows) /\ IsFiniteSet(WorkerProcesses)
    /\ {FirstOfB, Concurrency, JobCeiling, TargetCeiling} \subseteq Nat

VARIABLES
    workRow,      \* status of each row
    batch,    \* each worker's transaction: the rows it leased, and those it keeps
    running   \* rows each worker works on

admissionVars == <<workRow, batch, running>>

WorkRows == JobRows \cup TargetRows
WorkConnections == {"a", "b"}
ConnectionOf(i) == IF i < FirstOfB THEN "a" ELSE "b"
NoBatch == [at |-> "none", rows |-> {}, keeps |-> {}]

AdmissionInit ==
    /\ workRow = [i \in WorkRows |-> "absent"]
    /\ batch = [w \in WorkerProcesses |-> NoBatch]
    /\ running = [w \in WorkerProcesses |-> {}]

BecomesDue(i) ==
    /\ workRow[i] = "absent"
    /\ workRow' = [workRow EXCEPT ![i] = "pending"]
    /\ UNCHANGED <<batch, running>>

Free(kind) == {i \in kind : workRow[i] = "pending" /\ \A w \in WorkerProcesses : i \notin batch[w].rows}
Room(w) == Concurrency - Cardinality(running[w])

\* claim_batch: in the order of not_before, skipping what another has locked.
Lease(w, kind) ==
    /\ batch[w] = NoBatch
    /\ Cardinality(running[w]) < Concurrency
    /\ \E S \in SUBSET Free(kind) :
          /\ S # {}
          /\ \A i \in S : \A j \in Free(kind) \ S : i < j
          /\ Cardinality(S) <= Room(w)
          /\ Cardinality(S) = Room(w) \/ S = Free(kind)
          /\ batch' = [batch EXCEPT ![w] = [at |-> "leased", rows |-> S, keeps |-> {}]]
    /\ UNCHANGED <<workRow, running>>

\* in_flight_count, without the rows of the batch: jobs alone for jobs, and both
\* for targets of broadcasts.
InFlight(c, kind) == Cardinality({i \in kind : workRow[i] = "leased" /\ ConnectionOf(i) = c})
Ahead(w, i) == Cardinality({j \in batch[w].rows : j < i /\ ConnectionOf(j) = ConnectionOf(i)})

WithinOwnBatch(w, i) ==
    IF i \in JobRows THEN Ahead(w, i) < JobCeiling ELSE Ahead(w, i) < TargetCeiling
Within(w, i) ==
    IF i \in JobRows
    THEN InFlight(ConnectionOf(i), JobRows) + Ahead(w, i) < JobCeiling
    ELSE InFlight(ConnectionOf(i), WorkRows) + Ahead(w, i) < TargetCeiling

\* _claim_within_limits, _claim_broadcasts_within_limits: the rest goes back,
\* due as before.
Weigh(w) ==
    /\ batch[w].at = "leased"
    /\ batch' = [batch EXCEPT ![w].at = "weighed",
                              ![w].keeps = {i \in batch[w].rows : Within(w, i)}]
    /\ UNCHANGED <<workRow, running>>

Admit(w) ==
    /\ batch[w].at = "weighed"
    /\ workRow' = [i \in WorkRows |-> IF i \in batch[w].keeps THEN "leased" ELSE workRow[i]]
    /\ running' = [running EXCEPT ![w] = @ \cup batch[w].keeps]
    /\ batch' = [batch EXCEPT ![w] = NoBatch]

Work(w, i) ==
    /\ i \in running[w]
    /\ workRow' = [workRow EXCEPT ![i] = "done"]
    /\ running' = [running EXCEPT ![w] = @ \ {i}]
    /\ UNCHANGED batch

WorkerStep(w) == Lease(w, JobRows) \/ Lease(w, TargetRows) \/ Weigh(w) \/ Admit(w)

AdmissionNext ==
    \/ \E i \in WorkRows : BecomesDue(i)
    \/ \E w \in WorkerProcesses : WorkerStep(w) \/ \E i \in WorkRows : Work(w, i)

AdmissionSpec == AdmissionInit /\ [][AdmissionNext]_admissionVars

(***************************************************************************)
(* Properties.                                                             *)
(***************************************************************************)

\* The types; a row is leased exactly while a worker has it.
AdmissionTypeOK ==
    /\ workRow \in [WorkRows -> {"absent", "pending", "leased", "done"}]
    /\ running \in [WorkerProcesses -> SUBSET WorkRows]
    /\ \A i \in WorkRows : workRow[i] = "leased" <=> \E w \in WorkerProcesses : i \in running[w]

\* Workers that count at the same time do not see each other, so a connection's
\* ceiling may be exceeded; but never by more than one ceiling for each worker
\* (in_flight_count, exclude_ids).
CeilingPerWorker ==
    \A c \in WorkConnections :
        /\ InFlight(c, JobRows) <= JobCeiling * Cardinality(WorkerProcesses)
        /\ InFlight(c, TargetRows) <= TargetCeiling * Cardinality(WorkerProcesses)

================================================================================
