------------------------------ MODULE Lifecycle ------------------------------
(***************************************************************************)
(* The life of the processes around one state store: the owner lock, the    *)
(* schema and its upgrade, the binding to one Sonarr instance, the manual-  *)
(* control socket beside the store, the ordered shutdown of run, and the    *)
(* local queries that read the store meanwhile (internal/state Open, Save,  *)
(* Close; internal/control Start, Close; cmd/sonarr-remediator run).        *)
(*                                                                         *)
(* What the records say is abstracted to a log that every update extends;   *)
(* Store and Remediator model what they say.  A process may be killed       *)
(* anywhere; the kernel then frees its lock and its listener, but the store *)
(* and the socket file stay as they are.                                    *)
(***************************************************************************)
EXTENDS Naturals, SequencesExt

CONSTANTS
  Processes,  \* runs of the service, also of services configured alike
  Queries,    \* local read-only commands
  Instances,  \* Sonarr instances
  Identity,   \* the instance each process is configured for
  Inodes,     \* what distinguishes two socket files
  NoRecords,  \* what a store without records holds
  Refused,    \* the answer of a query that fails
  MaxLog      \* bound on the updates

Nobody == "nobody"
NoSocket == 0

\* The log of a store: who made each update.
Author == Processes \cup {"earlier"}

ASSUME LifecycleAssumption ==
  /\ Identity \in [Processes -> Instances]
  /\ MaxLog \in Nat
  /\ Nobody \notin Processes /\ NoSocket \notin Inodes
  /\ NoRecords \notin Seq(Author)

VARIABLES
  db,        \* the committed store: user_version, identity and records
  lock,      \* who holds the flock on the store's lock file
  socket,    \* the inode at the socket path
  pc,        \* where each process is
  data,      \* Store.Data of each process
  created,   \* whether it created the schema (newStore)
  listener,  \* the inode its listener is bound to
  inspected, \* the inode its last Lstat of the socket path found
  control,   \* Status.ManualControl
  query,     \* where each query is
  answer,    \* the log it shows
  atStart    \* history: the committed log when the query began

vars == <<db, lock, socket, pc, data, created, listener, inspected, control,
          query, answer, atStart>>
owner == <<pc, data, created, listener, inspected, control>>
reader == <<query, answer, atStart>>

Logs == UNION {[1..n -> Author] : n \in 0..MaxLog + 1}
Stored == Logs \cup {NoRecords}

TypeOK ==
  /\ db \in [version : 0..2, identity : Instances \cup {Nobody}, log : Stored]
  /\ lock \in Processes \cup {Nobody}
  /\ socket \in Inodes \cup {NoSocket}
  /\ pc \in [Processes -> {"off", "version", "schema", "records", "save", "inspect", "replace",
                           "bind", "run", "stopped", "unlink", "close"}]
  /\ data \in [Processes -> Logs]
  /\ created \in [Processes -> BOOLEAN]
  /\ listener \in [Processes -> Inodes \cup {NoSocket}]
  /\ inspected \in [Processes -> Inodes \cup {NoSocket}]
  /\ control \in [Processes -> {"none", "available", "occupied", "failed"}]
  /\ query \in [Queries -> {"idle", "1", "2"}]
  /\ answer \in [Queries -> Stored \cup {Refused}]
  /\ atStart \in [Queries -> Stored]

\* No store yet, one that release 0.1 left behind, or one of this release.
Init ==
  /\ db \in {[version |-> 0, identity |-> Nobody, log |-> NoRecords]} \cup
            {[version |-> v, identity |-> i, log |-> <<"earlier">>] : v \in 1..2, i \in Instances}
  /\ lock = Nobody /\ socket = NoSocket
  /\ pc = [p \in Processes |-> "off"]
  /\ data = [p \in Processes |-> <<>>]
  /\ created = [p \in Processes |-> FALSE]
  /\ listener = [p \in Processes |-> NoSocket]
  /\ inspected = [p \in Processes |-> NoSocket]
  /\ control = [p \in Processes |-> "none"]
  /\ query = [q \in Queries |-> "idle"]
  /\ answer = [q \in Queries |-> Refused]
  /\ atStart = [q \in Queries |-> NoRecords]

Goes(p, from, to) == pc[p] = from /\ pc' = [pc EXCEPT ![p] = to]

----------------------------------------------------------------------------
(* Open. *)

\* The kernel gives the lock to one process at a time.
EvenIfOwned == TRUE
NotOwned == lock = Nobody

TakeLock(p) ==
  /\ Goes(p, "off", "version")
  /\ NotOwned /\ lock' = p
  /\ UNCHANGED <<db, socket, data, created, listener, inspected, control, reader>>

ReadVersion(p) ==
  /\ Goes(p, "version", IF db.version = 0 THEN "schema" ELSE "records")
  /\ created' = [created EXCEPT ![p] = db.version = 0]
  /\ UNCHANGED <<db, lock, socket, data, listener, inspected, control, reader>>

\* The schema of a new store is committed with its version, without records.
CreateSchema(p) ==
  /\ Goes(p, "schema", "records")
  /\ db' = [db EXCEPT !.version = 2]
  /\ UNCHANGED <<lock, socket, data, created, listener, inspected, control, reader>>

Incomplete(p) == ~created[p] /\ db.log = NoRecords
Foreign(p) == db.identity \notin {Nobody, Identity[p]}

\* A new store starts from empty records.
Loaded == IF db.log = NoRecords THEN <<>> ELSE db.log

LoadRecords(p) ==
  /\ Goes(p, "records", "save")
  /\ ~Incomplete(p) /\ ~Foreign(p)
  /\ data' = [data EXCEPT ![p] = Loaded]
  /\ UNCHANGED <<db, lock, socket, created, listener, inspected, control, reader>>

\* Close frees the lock; the memory of the process is gone.
Ends(p) ==
  /\ pc' = [pc EXCEPT ![p] = "off"]
  /\ lock' = IF lock = p THEN Nobody ELSE lock
  /\ data' = [data EXCEPT ![p] = <<>>]
  /\ created' = [created EXCEPT ![p] = FALSE]
  /\ listener' = [listener EXCEPT ![p] = NoSocket]
  /\ inspected' = [inspected EXCEPT ![p] = NoSocket]
  /\ control' = [control EXCEPT ![p] = "none"]

\* Open refuses the records, or the database fails: the process exits.
OpenFails(p) ==
  /\ \/ pc[p] \in {"version", "schema", "save"}
     \/ pc[p] = "records" /\ (Incomplete(p) \/ Foreign(p))
  /\ Ends(p)
  /\ UNCHANGED <<db, socket, reader>>

\* One transaction writes all records and the schema version.
Saved(p, log) == db' = [version |-> 2, identity |-> Identity[p], log |-> log]

\* Open ends with a save, which also upgrades a store of schema 1.
SaveOpened(p) ==
  /\ Goes(p, "save", "inspect")
  /\ Saved(p, data[p])
  /\ UNCHANGED <<lock, socket, data, created, listener, inspected, control, reader>>

----------------------------------------------------------------------------
(* Start of manual control.  Its failure is not fatal. *)

Listening(inode) == \E p \in Processes : listener[p] = inode

\* Lstat, and a dial if there is something: a socket nobody listens on is
\* stale, a listener would be another observer's.
InspectPath(p) ==
  /\ inspected' = [inspected EXCEPT ![p] = socket]
  /\ \/ socket = NoSocket /\ Goes(p, "inspect", "bind") /\ UNCHANGED control
     \/ socket # NoSocket /\ ~Listening(socket) /\ Goes(p, "inspect", "replace") /\ UNCHANGED control
     \/ /\ socket # NoSocket /\ Listening(socket) /\ Goes(p, "inspect", "run")
        /\ control' = [control EXCEPT ![p] = "occupied"]
  /\ UNCHANGED <<db, lock, socket, data, created, listener, reader>>

RemoveStale(p) ==
  /\ socket = inspected[p] /\ socket' = NoSocket
  /\ Goes(p, "replace", "bind")
  /\ UNCHANGED <<db, lock, data, created, listener, inspected, control, reader>>

\* The new file gets an inode that no file or listener has.
Bind(p, inode) ==
  /\ Goes(p, "bind", "run")
  /\ socket = NoSocket /\ ~Listening(inode)
  /\ socket' = inode
  /\ listener' = [listener EXCEPT ![p] = inode]
  /\ control' = [control EXCEPT ![p] = "available"]
  /\ UNCHANGED <<db, lock, data, created, inspected, reader>>

\* The path has changed since, or a system call fails.
StartFails(p) ==
  /\ pc[p] \in {"inspect", "replace", "bind"} /\ pc' = [pc EXCEPT ![p] = "run"]
  /\ control' = [control EXCEPT ![p] = "failed"]
  /\ UNCHANGED <<db, lock, socket, data, created, listener, inspected, reader>>

----------------------------------------------------------------------------
(* The service, and its shutdown. *)

\* Every update is made in memory and then saved; a save that fails leaves it
\* there for the next one, or for the next start to miss.
Update(p) ==
  /\ pc[p] = "run" /\ Len(data[p]) < MaxLog
  /\ data' = [data EXCEPT ![p] = Append(@, p)]
  /\ Saved(p, data'[p]) \/ UNCHANGED db
  /\ UNCHANGED <<lock, socket, pc, created, listener, inspected, control, reader>>

\* The deferred calls of run: control is closed before the store.
LockFreedByControl == "listener"
LockFreedBy == "store"
FreeLock(p, step) == lock' = IF LockFreedBy = step /\ lock = p THEN Nobody ELSE lock

CloseListener(p) ==
  /\ Goes(p, "run", IF control[p] = "available" THEN "stopped" ELSE "close")
  /\ listener' = [listener EXCEPT ![p] = NoSocket]
  /\ inspected' = [inspected EXCEPT ![p] = listener[p]]
  /\ FreeLock(p, "listener")
  /\ UNCHANGED <<db, socket, data, created, control, reader>>

\* The socket file is looked at once more before it is removed.
FindSocket(p) ==
  /\ Goes(p, "stopped", IF socket = inspected[p] THEN "unlink" ELSE "close")
  /\ UNCHANGED <<db, lock, socket, data, created, listener, inspected, control, reader>>

RemoveSocket(p) ==
  /\ Goes(p, "unlink", "close")
  /\ socket' = NoSocket
  /\ UNCHANGED <<db, lock, data, created, listener, inspected, control, reader>>

CloseStore(p) ==
  /\ pc[p] = "close"
  /\ Ends(p)
  /\ UNCHANGED <<db, socket, reader>>

\* The process dies, or the deadline of its shutdown ends it.
Crash(p) ==
  /\ pc[p] # "off"
  /\ Ends(p)
  /\ UNCHANGED <<db, socket, reader>>

----------------------------------------------------------------------------
(* Queries: the version, then the records, in two reads. *)

Ask(q) ==
  /\ query[q] = "idle" /\ db.version # 0
  /\ query' = [query EXCEPT ![q] = IF db.version = 1 THEN "1" ELSE "2"]
  /\ answer' = [answer EXCEPT ![q] = Refused]
  /\ atStart' = [atStart EXCEPT ![q] = db.log]
  /\ UNCHANGED <<db, lock, socket, owner>>

\* The receipts of schema 2 are refused by a reader that saw schema 1.
AsRead(version) == db.log
Readable(version) ==
  IF db.log = NoRecords \/ (version = "1" /\ db.version = 2) THEN Refused ELSE db.log

Reply(q) ==
  /\ query[q] # "idle" /\ query' = [query EXCEPT ![q] = "idle"]
  /\ answer' = [answer EXCEPT ![q] = Readable(query[q])]
  /\ UNCHANGED <<db, lock, socket, owner, atStart>>

----------------------------------------------------------------------------
Next ==
  \/ \E p \in Processes :
       \/ TakeLock(p) \/ ReadVersion(p) \/ CreateSchema(p) \/ LoadRecords(p)
       \/ OpenFails(p) \/ SaveOpened(p)
       \/ InspectPath(p) \/ RemoveStale(p) \/ StartFails(p)
       \/ \E inode \in Inodes : Bind(p, inode)
       \/ Update(p)
       \/ CloseListener(p) \/ FindSocket(p) \/ RemoveSocket(p) \/ CloseStore(p)
       \/ Crash(p)
  \/ \E q \in Queries : Ask(q) \/ Reply(q)

Spec == Init /\ [][Next]_vars

----------------------------------------------------------------------------
(* Properties. *)

\* Committed history is only ever extended, for the Sonarr instance it was
\* begun for: no second owner, restart, upgrade or failed start loses or
\* replaces a committed update, and a service that is configured for another
\* instance gets no further than Open (Open, Save).
HistoryKept ==
  [][/\ db.log # NoRecords => db'.log # NoRecords /\ IsPrefix(db.log, db'.log)
     /\ db.identity # Nobody => db'.identity = db.identity]_vars

\* The socket path leads to the service that owns the store: its stale or
\* closing predecessors neither keep the path from it nor take it away.
ControlServes ==
  \A p \in Processes : pc[p] = "run" =>
    /\ control[p] # "occupied"
    /\ control[p] = "available" => socket = listener[p]

\* A query that is answered shows a committed history, no older than the
\* query, and never takes a store without records for an empty one.
QueryTruthful ==
  \A q \in Queries : query[q] = "idle" /\ answer[q] # Refused =>
    /\ answer[q] # NoRecords /\ IsPrefix(answer[q], db.log)
    /\ atStart[q] # NoRecords => IsPrefix(atStart[q], answer[q])
=============================================================================
