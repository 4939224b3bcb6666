---------------------------- MODULE EndpointLease ----------------------------
(***************************************************************************)
(* The lease file of a local app endpoint (mutsuki-link-local).  Processes *)
(* of one application start, reclaim a stale lease, create their own, and  *)
(* exit or are killed.  reclaim_stale_lease reads the file, asks whether   *)
(* the recorded process exists and removes the path: three steps of the    *)
(* file system with other processes in between.  Process ids are not       *)
(* reused; a lease's text is its pid.                                      *)
(***************************************************************************)
CONSTANTS
    Processes,  \* processes of the application, one start each
    NoLease     \* no lease file, no lease read

VARIABLES
    lease,      \* pid in the lease file, or NoLease
    pendingFile,\* pid in the pending file create writes, or NoLease
    at,         \* process -> where it is
    seen,       \* process -> the lease its reclaim read
    lost        \* history: processes that ran while reclaim removed their lease

leaseVars == <<lease, pendingFile, at, seen, lost>>

Exists(p) == at[p] \notin {"new", "gone"}

Goes(p, place) == at' = [at EXCEPT ![p] = place]

LeaseInit ==
    /\ lease = NoLease /\ pendingFile = NoLease
    /\ at = [p \in Processes |-> "new"]
    /\ seen = [p \in Processes |-> NoLease]
    /\ lost = {}

StartProcess(p) ==
    /\ at[p] = "new" /\ Goes(p, "read")
    /\ UNCHANGED <<lease, pendingFile, seen, lost>>

\* EndpointLease::read
ReadLease(p) ==
    /\ at[p] = "read"
    /\ seen' = [seen EXCEPT ![p] = lease]
    /\ Goes(p, IF lease = NoLease THEN "write" ELSE "check")
    /\ UNCHANGED <<lease, pendingFile, lost>>

\* is_stale and process_exists.  A live owner's lease ends the attempt to take over.
CheckStale(p) ==
    /\ at[p] = "check"
    /\ Goes(p, IF Exists(seen[p]) THEN "gone" ELSE "clear")
    /\ UNCHANGED <<lease, pendingFile, seen, lost>>

\* clear removes the path, whatever file is there by now; NotFound is Ok.
ClearStale(p) ==
    /\ at[p] = "clear"
    /\ lost' = IF lease # NoLease /\ Exists(lease) THEN lost \cup {lease} ELSE lost
    /\ lease' = NoLease
    /\ Goes(p, "write")
    /\ UNCHANGED <<pendingFile, seen>>

\* create: write the pending file, rename it over the lease.
WritePending(p) ==
    /\ at[p] = "write"
    /\ pendingFile' = p
    /\ Goes(p, "rename")
    /\ UNCHANGED <<lease, seen, lost>>

RenamePending(p) ==
    /\ at[p] = "rename"
    /\ IF pendingFile = NoLease
       THEN Goes(p, "gone") /\ UNCHANGED <<lease, pendingFile>>
       ELSE lease' = pendingFile /\ pendingFile' = NoLease /\ Goes(p, "owner")
    /\ UNCHANGED <<seen, lost>>

\* The owner exits and clears its lease, or is killed at any point and leaves it.
ExitOwner(p) ==
    /\ at[p] = "owner"
    /\ lease' = NoLease /\ Goes(p, "gone")
    /\ UNCHANGED <<pendingFile, seen, lost>>

Killed(p) ==
    /\ Exists(p) /\ Goes(p, "gone")
    /\ UNCHANGED <<lease, pendingFile, seen, lost>>

LeaseNext ==
    \E p \in Processes :
        \/ StartProcess(p) \/ ReadLease(p) \/ CheckStale(p) \/ ClearStale(p)
        \/ WritePending(p) \/ RenamePending(p) \/ ExitOwner(p) \/ Killed(p)

LeaseSpec == LeaseInit /\ [][LeaseNext]_leaseVars

-----------------------------------------------------------------------------

\* What docs/transports.md says of leases, "reclaim only happens when the recorded process is
\* gone": no reclaim_stale_lease removes the lease of a process that runs.
ReclaimOnlyWhenGone == lost = {}
=============================================================================
