------------------------------ MODULE TrustFile ------------------------------
(***************************************************************************)
(* FileTrustStore (mutsuki-link-pairing): the records in memory, the file  *)
(* they are written to and the temporary file next to it.                  *)
(*                                                                         *)
(* An operation computes the new records, persists them and only then      *)
(* takes them over in memory.  persist is the steps the file system sees:  *)
(* open the temporary file (truncating it), write and sync it, on Windows  *)
(* remove the old file, rename.  Every step may fail with an I/O error,    *)
(* and the process may crash between any two steps and start again.  One   *)
(* handle owns the file; a rename that happened is taken to survive.       *)
(***************************************************************************)
EXTENDS Naturals, FiniteSets

CONSTANTS
    Devices,        \* peers a record may exist for
    MaxRecords,     \* FileTrustStore::max_records
    MaxFileCalls,   \* model bound: operations started
    Absent          \* no file, no store, no record

\* A peer's trust record: none, or its state.
Records == {Absent, "active", "revoked", "rotated"}
Stores == [Devices -> Records]

\* An operation inside persist: the records to write, the next step, the peers it revokes.
Operations ==
    [next : Stores, at : {"open", "write", "remove", "rename", "return"}, revokes : SUBSET Devices]

ASSUME TrustFileAssumption == MaxRecords \in Nat \ {0} /\ Absent \notin Devices

\* Absent is not a value it stands in for.
ASSUME AbsentAssumption ==
    /\ Absent \notin {"active", "revoked", "rotated"}
    /\ Absent \notin Stores /\ Absent \notin Operations

VARIABLES
    platform,       \* "unix" or "windows": the cfg the binary was built with
    records,        \* FileTrustStore::records, or Absent while the process is down
    file,           \* content of the file, or Absent
    temporary,      \* content of the temporary file, "partial", or Absent
    persisting,     \* the operation inside persist, or Absent
    acknowledged,   \* history: the records of the last open or operation that returned Ok
    revoked,        \* history: peers whose revoke returned Ok, no upsert asked for since
    fileCalls       \* model bound: operations started so far

trustVars ==
    <<platform, records, file, temporary, persisting, acknowledged, revoked, fileCalls>>

NoRecords == [d \in Devices |-> Absent]

Known(store) == {d \in Devices : store[d] # Absent}

TrustInit ==
    /\ platform \in {"unix", "windows"}
    /\ records = Absent /\ file = Absent /\ temporary = Absent
    /\ persisting = Absent /\ acknowledged = Absent
    /\ revoked = {} /\ fileCalls = 0

StoreIdle == records # Absent /\ persisting = Absent

\* replace: persist first; `gone` are the peers the caller may rely on as revoked once it is Ok.
Replace(store, gone) ==
    /\ fileCalls < MaxFileCalls /\ fileCalls' = fileCalls + 1
    /\ persisting' = [next |-> store, at |-> "open", revokes |-> gone]
    /\ UNCHANGED <<platform, records, file, temporary, acknowledged>>

-----------------------------------------------------------------------------
(* Operations.  One that returns an error before it persists changes nothing. *)

\* open_with_limit: an existing file is read, a missing one is created empty.
OpenStore ==
    /\ records = Absent /\ persisting = Absent
    /\ IF file # Absent
       THEN /\ Cardinality(Known(file)) <= MaxRecords
            /\ records' = file /\ acknowledged' = file
            /\ UNCHANGED <<platform, file, temporary, persisting, revoked, fileCalls>>
       ELSE Replace(NoRecords, {}) /\ UNCHANGED revoked

\* upsert of the record a completed ceremony yields.
Upsert(device) ==
    /\ StoreIdle
    /\ records[device] # Absent \/ Cardinality(Known(records)) < MaxRecords
    /\ Replace([records EXCEPT ![device] = "active"], {})
    /\ revoked' = revoked \ {device}

RemoveRecord(device) ==
    /\ StoreIdle /\ records[device] # Absent
    /\ Replace([records EXCEPT ![device] = Absent], {})
    /\ UNCHANGED revoked

Revoke(device) ==
    /\ StoreIdle /\ records[device] # Absent
    /\ Replace([records EXCEPT ![device] = "revoked"], {device})
    /\ UNCHANGED revoked

\* rotate: the old identity stays, marked; the new one must be free and the store not full.
Rotate(old, new) ==
    /\ StoreIdle /\ old # new
    /\ records[new] = Absent /\ Cardinality(Known(records)) < MaxRecords
    /\ records[old] = "active"
    /\ Replace([records EXCEPT ![old] = "rotated", ![new] = "active"], {old})
    /\ revoked' = revoked \ {new}

-----------------------------------------------------------------------------
(* persist *)

AtStep(step) == persisting # Absent /\ persisting.at = step

OpenTemporary ==
    /\ AtStep("open")
    /\ temporary' = "partial"
    /\ persisting' = [persisting EXCEPT !.at = "write"]
    /\ UNCHANGED <<platform, records, file, acknowledged, revoked, fileCalls>>

\* Fault: the old file is removed first on every platform.
AfterWriteRemoving == IF file # Absent THEN "remove" ELSE "rename"

\* The step after the temporary file is synced: only Windows removes the old file first.
AfterWrite == IF platform = "windows" /\ file # Absent THEN "remove" ELSE "rename"

WriteTemporary ==
    /\ AtStep("write")
    /\ temporary' = persisting.next
    /\ persisting' = [persisting EXCEPT !.at = AfterWrite]
    /\ UNCHANGED <<platform, records, file, acknowledged, revoked, fileCalls>>

RemoveFile ==
    /\ AtStep("remove")
    /\ file' = Absent
    /\ persisting' = [persisting EXCEPT !.at = "rename"]
    /\ UNCHANGED <<platform, records, temporary, acknowledged, revoked, fileCalls>>

RenameTemporary ==
    /\ AtStep("rename")
    /\ file' = temporary /\ temporary' = Absent
    /\ persisting' = [persisting EXCEPT !.at = "return"]
    /\ UNCHANGED <<platform, records, acknowledged, revoked, fileCalls>>

\* The operation, or open, returns Ok: the records become the store's.
ReturnOk ==
    /\ AtStep("return")
    /\ records' = persisting.next /\ acknowledged' = persisting.next
    /\ revoked' = revoked \cup persisting.revokes
    /\ persisting' = Absent
    /\ UNCHANGED <<platform, file, temporary, fileCalls>>

\* Fault: the error is dropped and the operation goes on as if it had persisted.
AcceptOnError ==
    /\ records' = persisting.next
    /\ acknowledged' = persisting.next
    /\ revoked' = revoked \cup persisting.revokes

\* io_error: the operation returns Err and leaves the store, and the file, as they are.
KeepOnError == UNCHANGED <<records, acknowledged, revoked>>

PersistFails ==
    /\ persisting # Absent /\ persisting.at # "return"
    /\ persisting' = Absent
    /\ KeepOnError
    /\ UNCHANGED <<platform, file, temporary, fileCalls>>

CrashProcess ==
    /\ records # Absent \/ persisting # Absent
    /\ records' = Absent /\ persisting' = Absent
    /\ UNCHANGED <<platform, file, temporary, acknowledged, revoked, fileCalls>>

TrustNext ==
    \/ OpenStore
    \/ \E device \in Devices :
         \/ Upsert(device) \/ RemoveRecord(device) \/ Revoke(device)
         \/ \E other \in Devices : Rotate(device, other)
    \/ OpenTemporary \/ WriteTemporary \/ RemoveFile \/ RenameTemporary \/ ReturnOk
    \/ PersistFails \/ CrashProcess

TrustSpec == TrustInit /\ [][TrustNext]_trustVars

-----------------------------------------------------------------------------
(* Properties *)

\* Whatever failed or crashed on the way, an open, idle store and its file say the same; only
\* a Windows build may be without a file, and a unix build never is once it had one (persist).
StoreMatchesFile ==
    /\ StoreIdle => file = records \/ (platform = "windows" /\ file = Absent)
    /\ platform = "unix" /\ acknowledged # Absent => file # Absent

\* authorize_trusted_reconnect on a store that holds `store`.
Authorized(store, device) == store[device] = "active"

\* A peer whose revoke (or the old identity whose rotate) returned Ok is authorised neither
\* by the store in memory nor by what a restart would read, until it is paired again.
RevocationSticks ==
    \A device \in revoked : \A store \in {records, file} \ {Absent} :
        ~Authorized(store, device)

\* FileTrustStore after any failure, crash and restart: it agrees with its file, and a
\* revocation that was confirmed (upsert, remove, revoke, rotate, persist) is never undone.
TrustIsDurable == StoreMatchesFile /\ RevocationSticks
=============================================================================
