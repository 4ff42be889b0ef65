--------------------------- MODULE LifecycleProofs ---------------------------
(***************************************************************************)
(* What the owner lock gives to the processes around one store, however     *)
(* many there are and wherever they are killed: one process at a time is    *)
(* beyond TakeLock, its memory extends the committed log, and the socket    *)
(* path is its own.                                                        *)
(***************************************************************************)
EXTENDS Lifecycle, TLAPS

----------------------------------------------------------------------------
(* Prefixes. *)

LEMMA PrefixReflexive ==
  ASSUME NEW S, NEW s \in Seq(S)
  PROVE  IsPrefix(s, s)
  BY DEF IsPrefix

LEMMA PrefixAppended ==
  ASSUME NEW S, NEW s \in Seq(S), NEW t \in Seq(S), NEW x \in S, IsPrefix(s, t)
  PROVE  Append(t, x) \in Seq(S) /\ IsPrefix(s, Append(t, x))
  <1>1. Append(t, x) \in Seq(S) /\ Len(s) <= Len(Append(t, x))
    BY DEF IsPrefix
  <1>2. SubSeq(s, 1, Len(s)) = SubSeq(Append(t, x), 1, Len(s))
    BY <1>1 DEF IsPrefix
  <1> QED
    BY <1>1, <1>2 DEF IsPrefix

LEMMA PrefixTransitive ==
  ASSUME NEW S, NEW s \in Seq(S), NEW t \in Seq(S), NEW u \in Seq(S),
         IsPrefix(s, t), IsPrefix(t, u)
  PROVE  IsPrefix(s, u)
  <1>1. Len(s) <= Len(t) /\ Len(t) <= Len(u)
    BY DEF IsPrefix
  <1>2. \A i \in 1..Len(s) : SubSeq(s, 1, Len(s))[i] = SubSeq(t, 1, Len(s))[i]
    BY DEF IsPrefix
  <1>3. \A i \in 1..Len(t) : SubSeq(t, 1, Len(t))[i] = SubSeq(u, 1, Len(t))[i]
    BY DEF IsPrefix
  <1>4. \A i \in 1..Len(s) : s[i] = u[i]
    BY <1>1, <1>2, <1>3
  <1>5. SubSeq(s, 1, Len(s)) = SubSeq(u, 1, Len(s))
    BY <1>1, <1>4
  <1> QED
    BY <1>1, <1>5 DEF IsPrefix

----------------------------------------------------------------------------
(* The inductive invariant. *)

Opening == {"version", "schema", "records"}
Starting == {"save", "inspect", "replace", "bind"}
Closing == {"stopped", "unlink", "close"}
Opened == Starting \cup {"run"} \cup Closing

Kinds ==
  /\ db \in [version : 0..2, identity : Instances \cup {Nobody}, log : Seq(Author) \cup {NoRecords}]
  /\ socket \in Inodes \cup {NoSocket}
  /\ pc \in [Processes -> {"off"} \cup Opening \cup Opened]
  /\ data \in [Processes -> Seq(Author)]
  /\ created \in [Processes -> BOOLEAN]
  /\ listener \in [Processes -> Inodes \cup {NoSocket}]
  /\ inspected \in [Processes -> Inodes \cup {NoSocket}]
  /\ control \in [Processes -> {"none", "available", "occupied", "failed"}]

\* Whoever runs owns the store.
Owned == \A p \in Processes : pc[p] # "off" => lock = p

\* The memory of an owner extends what is committed, for its instance.
Extends(p) ==
  /\ db.log # NoRecords => IsPrefix(db.log, data[p])
  /\ db.identity \in {Nobody, Identity[p]}
Loyal == \A p \in Processes : pc[p] \in Opened => Extends(p)

\* Only the service listens, and then at the socket path.
Served ==
  \A p \in Processes :
    /\ pc[p] \notin {"run"} => listener[p] = NoSocket
    /\ pc[p] = "run" => /\ control[p] \in {"available", "failed"}
                        /\ control[p] = "available" => socket = listener[p]
                        /\ control[p] = "failed" => listener[p] = NoSocket

LifeInv == Kinds /\ Owned /\ Loyal /\ Served

\* The owner is alone.
LEMMA OneOwner ==
  ASSUME Owned, NEW p \in Processes, NEW q \in Processes, pc[p] # "off", pc[q] # "off"
  PROVE  p = q
  BY DEF Owned

LEMMA LifeInitial == Init => LifeInv
  <1> SUFFICES ASSUME Init
               PROVE  LifeInv
    OBVIOUS
  <1>1. <<>> \in Seq(Author) /\ <<"earlier">> \in Seq(Author)
    BY DEF Author
  <1>2. Kinds
    <2>1. db \in [version : 0..2, identity : Instances \cup {Nobody}, log : Seq(Author) \cup {NoRecords}]
      <3>1. CASE db = [version |-> 0, identity |-> Nobody, log |-> NoRecords]
        BY <3>1
      <3>2. ASSUME NEW v \in 1..2, NEW i \in Instances,
                   db = [version |-> v, identity |-> i, log |-> <<"earlier">>]
            PROVE  db \in [version : 0..2, identity : Instances \cup {Nobody},
                         log : Seq(Author) \cup {NoRecords}]
        BY <1>1, <3>2
      <3> QED
        BY <3>1, <3>2 DEF Init
    <2> QED
      BY <1>1, <2>1 DEF Init, Kinds
  <1>3. Owned /\ Loyal /\ Served
    BY DEF Init, Owned, Loyal, Served, Opened, Starting, Closing
  <1> QED
    BY <1>2, <1>3 DEF LifeInv

\* A process that ends leaves the others as they are: there are none.
LEMMA EndKeeps ==
  ASSUME LifeInv, NEW p \in Processes, Ends(p), pc[p] # "off", UNCHANGED <<db, socket>>
  PROVE  LifeInv'
  <1>1. Kinds'
    BY DEF LifeInv, Kinds, Ends
  <1>2. Owned'
    BY OneOwner DEF LifeInv, Kinds, Owned, Ends
  <1>3. Loyal'
    BY DEF LifeInv, Kinds, Loyal, Extends, Ends, Opened, Starting, Closing
  <1>4. Served'
    BY DEF LifeInv, Kinds, Served, Ends
  <1> QED
    BY <1>1, <1>2, <1>3, <1>4 DEF LifeInv

\* Open, up to the records.
LEMMA OpeningKeeps ==
  ASSUME LifeInv, NEW p \in Processes,
         TakeLock(p) \/ ReadVersion(p) \/ CreateSchema(p) \/ LoadRecords(p)
  PROVE  LifeInv'
  <1> USE DEF LifeInv, Kinds, Goes, Opening, Opened, Starting, Closing
  <1>1. CASE TakeLock(p)
    <2>1. \A q \in Processes : pc[q] = "off"
      BY <1>1, LifecycleAssumption DEF TakeLock, NotOwned, Owned
    <2> QED
      BY <1>1, <2>1 DEF TakeLock, Owned, Loyal, Served
  <1>2. CASE ReadVersion(p)
    BY <1>2 DEF ReadVersion, Owned, Loyal, Served, Extends
  <1>3. CASE CreateSchema(p)
    <2>1. db' \in [version : 0..2, identity : Instances \cup {Nobody}, log : Seq(Author) \cup {NoRecords}]
      <3>1. db' = [db EXCEPT !.version = 2]
        BY <1>3 DEF CreateSchema
      <3>2. db.identity \in Instances \cup {Nobody} /\ db.log \in Seq(Author) \cup {NoRecords}
        OBVIOUS
      <3>3. db' = [version |-> 2, identity |-> db.identity, log |-> db.log]
        BY <3>1
      <3> QED
        BY <3>2, <3>3
    <2>2. db'.log = db.log /\ db'.identity = db.identity
      BY <1>3 DEF CreateSchema
    <2>3. Kinds' /\ Owned' /\ Served'
      BY <1>3, <2>1 DEF CreateSchema, Owned, Served
    <2>4. Loyal'
      BY <1>3, <2>2, OneOwner DEF CreateSchema, Loyal, Extends
    <2> QED
      BY <2>3, <2>4
  <1>4. CASE LoadRecords(p)
    <2>1. Loaded \in Seq(Author) /\ (db.log # NoRecords => Loaded = db.log)
      BY DEF Loaded
    <2>2. Kinds' /\ Owned' /\ Served'
      BY <1>4, <2>1 DEF LoadRecords, Owned, Served
    <2>3. db.log # NoRecords => IsPrefix(db.log, Loaded)
      BY <2>1, PrefixReflexive
    <2>4. Extends(p)'
      BY <1>4, <2>3 DEF LoadRecords, Foreign, Extends
    <2>5. Loyal'
      BY <1>4, <2>4, OneOwner DEF LoadRecords, Loyal
    <2> QED
      BY <2>2, <2>5
  <1> QED
    BY <1>1, <1>2, <1>3, <1>4

\* A save of the owner's memory.
LEMMA SavedKeeps ==
  ASSUME LifeInv, NEW p \in Processes, NEW log \in Seq(Author), Saved(p, log)
  PROVE  /\ db' \in [version : 0..2, identity : Instances \cup {Nobody},
                     log : Seq(Author) \cup {NoRecords}]
         /\ db'.log = log /\ db'.log # NoRecords /\ db'.identity = Identity[p]
  BY LifecycleAssumption DEF Saved

\* The end of Open, and the updates of the service.
LEMMA UpdateKeeps ==
  ASSUME LifeInv, NEW p \in Processes, SaveOpened(p) \/ Update(p)
  PROVE  LifeInv'
  <1> USE DEF LifeInv, Kinds, Goes, Opening, Opened, Starting, Closing
  <1>1. CASE SaveOpened(p)
    <2>1. /\ db' \in [version : 0..2, identity : Instances \cup {Nobody},
                      log : Seq(Author) \cup {NoRecords}]
          /\ db'.log = data[p] /\ db'.identity = Identity[p]
      BY <1>1, SavedKeeps DEF SaveOpened
    <2>2. Kinds' /\ Owned' /\ Served'
      BY <1>1, <2>1 DEF SaveOpened, Owned, Served
    <2>3. Extends(p)'
      BY <1>1, <2>1, PrefixReflexive DEF SaveOpened, Extends
    <2>4. Loyal'
      BY <1>1, <2>3, OneOwner DEF SaveOpened, Loyal
    <2> QED
      BY <2>2, <2>4
  <1>2. CASE Update(p)
    <2> DEFINE log == Append(data[p], p)
    <2>1. log \in Seq(Author) /\ data' = [data EXCEPT ![p] = log] /\ data'[p] = log
      BY <1>2 DEF Update, Author
    <2>2. \/ UNCHANGED db
          \/ /\ db' \in [version : 0..2, identity : Instances \cup {Nobody},
                         log : Seq(Author) \cup {NoRecords}]
             /\ db'.log = log /\ db'.identity = Identity[p]
      BY <1>2, <2>1, SavedKeeps DEF Update
    <2> HIDE DEF log
    <2>3. Kinds' /\ Owned' /\ Served'
      BY <1>2, <2>1, <2>2 DEF Update, Owned, Served
    <2>4. Extends(p)'
      <3>1. CASE UNCHANGED db
        <4>1. db.log # NoRecords => IsPrefix(db.log, log)
          BY <1>2, <2>1, PrefixAppended DEF Update, Loyal, Extends, log, Author
        <4> QED
          BY <1>2, <2>1, <3>1, <4>1 DEF Update, Loyal, Extends
      <3>2. CASE db'.log = log /\ db'.identity = Identity[p]
        BY <2>1, <3>2, PrefixReflexive DEF Extends
      <3> QED
        BY <2>2, <3>1, <3>2
    <2>5. Loyal'
      BY <1>2, <2>4, OneOwner DEF Update, Loyal
    <2> QED
      BY <2>3, <2>5
  <1> QED
    BY <1>1, <1>2

\* Nobody else listens while a process starts: it is the only one there is.
LEMMA NobodyListens ==
  ASSUME LifeInv, NEW p \in Processes, pc[p] \notin {"off", "run"}
  PROVE  /\ socket # NoSocket => ~Listening(socket)
         /\ \A q \in Processes : pc[q] # "run" /\ (q # p => pc[q] = "off")
  <1>1. \A q \in Processes : pc[q] # "off" => q = p
    BY OneOwner DEF LifeInv
  <1> QED
    BY <1>1 DEF LifeInv, Served, Listening

\* The start of manual control.
LEMMA ControlKeeps ==
  ASSUME LifeInv, NEW p \in Processes,
         InspectPath(p) \/ RemoveStale(p) \/ StartFails(p) \/ \E inode \in Inodes : Bind(p, inode)
  PROVE  LifeInv'
  <1> USE DEF LifeInv, Kinds, Goes, Opening, Opened, Starting, Closing
  <1>1. pc[p] \in {"inspect", "replace", "bind"} /\ UNCHANGED <<db, lock, data, created>>
    BY DEF InspectPath, RemoveStale, StartFails, Bind
  <1>2. /\ socket # NoSocket => ~Listening(socket)
        /\ \A q \in Processes : pc[q] # "run" /\ (q # p => pc[q] = "off")
    BY <1>1, NobodyListens
  <1>3. \E place \in {"replace", "bind", "run"} : pc' = [pc EXCEPT ![p] = place]
    BY DEF InspectPath, RemoveStale, StartFails, Bind
  <1>4. Owned' /\ Loyal'
    BY <1>1, <1>3 DEF Owned, Loyal, Extends
  <1>5. Kinds' /\ Served'
    <2>1. CASE InspectPath(p)
      BY <1>2, <2>1, LifecycleAssumption DEF InspectPath, Served
    <2>2. CASE RemoveStale(p)
      BY <1>2, <2>2 DEF RemoveStale, Served
    <2>3. CASE StartFails(p)
      BY <1>2, <2>3 DEF StartFails, Served
    <2>4. ASSUME NEW inode \in Inodes, Bind(p, inode)
          PROVE  Kinds' /\ Served'
      BY <1>2, <2>4 DEF Bind, Served
    <2> QED
      BY <2>1, <2>2, <2>3, <2>4
  <1> QED
    BY <1>4, <1>5

\* The end of manual control, before that of the store.
LEMMA CloseKeeps ==
  ASSUME LifeInv, NEW p \in Processes, CloseListener(p) \/ FindSocket(p) \/ RemoveSocket(p)
  PROVE  LifeInv'
  <1> USE DEF LifeInv, Kinds, Goes, Opening, Opened, Starting, Closing
  <1>1. /\ pc[p] \in {"run", "stopped", "unlink"} /\ UNCHANGED <<db, lock, data, created, control>>
        /\ \E place \in Closing : pc' = [pc EXCEPT ![p] = place]
    BY DEF CloseListener, FindSocket, RemoveSocket, FreeLock, LockFreedBy
  <1>2. \A q \in Processes : q # p => pc[q] = "off"
    BY <1>1, OneOwner
  <1>3. Owned' /\ Loyal'
    BY <1>1 DEF Owned, Loyal, Extends
  <1>4. Kinds'
    BY <1>1 DEF CloseListener, FindSocket, RemoveSocket
  <1>5. \A q \in Processes : listener'[q] = NoSocket
    BY <1>1, <1>2 DEF CloseListener, FindSocket, RemoveSocket, Served
  <1>6. \A q \in Processes : pc'[q] # "run"
    BY <1>1, <1>2
  <1>7. Served'
    BY <1>5, <1>6 DEF Served
  <1> QED
    BY <1>3, <1>4, <1>7

\* Every step keeps the invariant.
LEMMA LifeKept == LifeInv /\ [Next]_vars => LifeInv'
  <1> SUFFICES ASSUME LifeInv, [Next]_vars
               PROVE  LifeInv'
    OBVIOUS
  <1>1. ASSUME NEW p \in Processes, OpenFails(p) \/ CloseStore(p) \/ Crash(p)
        PROVE  LifeInv'
    BY <1>1, EndKeeps DEF OpenFails, CloseStore, Crash
  <1>2. ASSUME UNCHANGED <<db, lock, socket, owner>>
        PROVE  LifeInv'
    BY <1>2 DEF LifeInv, Kinds, Owned, Loyal, Extends, Served, owner
  <1>3. ASSUME NEW q \in Queries, Ask(q) \/ Reply(q)
        PROVE  LifeInv'
    BY <1>2, <1>3 DEF Ask, Reply
  <1>4. CASE UNCHANGED vars
    BY <1>2, <1>4 DEF vars, owner
  <1> QED
    BY <1>1, <1>3, <1>4, OpeningKeeps, UpdateKeeps, ControlKeeps, CloseKeeps DEF Next

LEMMA LifeInvariant == Spec => []LifeInv
  BY LifeInitial, LifeKept, PTL DEF Spec

----------------------------------------------------------------------------
(* The theorems. *)

\* The control socket leads to the service that runs: nothing else listens,
\* removes the file or binds the path while it does (control Start, Close).
THEOREM ControlLeads == Spec => []ControlServes
  <1>1. LifeInv => ControlServes
    BY DEF LifeInv, Served, ControlServes
  <1> QED
    BY <1>1, LifeInvariant, PTL

\* What a step does to the committed store.
Kept ==
  /\ db.log # NoRecords => db'.log # NoRecords /\ IsPrefix(db.log, db'.log)
  /\ db.identity # Nobody => db'.identity = db.identity

LEMMA KeptSame ==
  ASSUME LifeInv, db'.log = db.log, db'.identity = db.identity
  PROVE  Kept
  BY PrefixReflexive DEF LifeInv, Kinds, Kept

\* Only the owner saves, and its memory extends what it replaces.
LEMMA StepKeeps ==
  ASSUME LifeInv, [Next]_vars
  PROVE  Kept
  <1>1. CASE UNCHANGED db
    BY <1>1, KeptSame
  <1>2. ASSUME NEW p \in Processes, CreateSchema(p)
        PROVE  Kept
    <2>1. db'.log = db.log /\ db'.identity = db.identity
      BY <1>2 DEF CreateSchema, LifeInv, Kinds
    <2> QED
      BY <2>1, KeptSame
  <1>3. ASSUME NEW p \in Processes, SaveOpened(p)
        PROVE  Kept
    <2>1. Extends(p) /\ data[p] \in Seq(Author)
      BY <1>3 DEF SaveOpened, Goes, LifeInv, Kinds, Loyal, Opened, Starting
    <2>2. db'.log = data[p] /\ db'.log # NoRecords /\ db'.identity = Identity[p]
      BY <1>3, <2>1, SavedKeeps DEF SaveOpened
    <2> QED
      BY <2>1, <2>2 DEF Kept, Extends
  <1>4. ASSUME NEW p \in Processes, Update(p), ~UNCHANGED db
        PROVE  Kept
    <2>1. Extends(p) /\ data[p] \in Seq(Author) /\ p \in Author
      BY <1>4 DEF Update, LifeInv, Kinds, Loyal, Opened, Author
    <2>2. data'[p] = Append(data[p], p) /\ Saved(p, data'[p])
      BY <1>4 DEF Update, LifeInv, Kinds
    <2>3. Append(data[p], p) \in Seq(Author)
      BY <2>1
    <2>4. /\ db'.log = Append(data[p], p) /\ db'.log # NoRecords /\ db'.identity = Identity[p]
      BY <2>2, <2>3, SavedKeeps
    <2>5. db.log # NoRecords => db.log \in Seq(Author) /\ IsPrefix(db.log, Append(data[p], p))
      BY <2>1, PrefixAppended DEF Extends, LifeInv, Kinds
    <2> QED
      BY <2>1, <2>4, <2>5 DEF Kept, Extends
  <1>5. ASSUME NEW p \in Processes,
               \/ TakeLock(p) \/ ReadVersion(p) \/ LoadRecords(p) \/ OpenFails(p)
               \/ InspectPath(p) \/ RemoveStale(p) \/ StartFails(p)
               \/ \E inode \in Inodes : Bind(p, inode)
               \/ CloseListener(p) \/ FindSocket(p) \/ RemoveSocket(p) \/ CloseStore(p) \/ Crash(p)
        PROVE  UNCHANGED db
    BY <1>5 DEF TakeLock, ReadVersion, LoadRecords, OpenFails, InspectPath, RemoveStale,
       StartFails, Bind, CloseListener, FindSocket, RemoveSocket, CloseStore, Crash
  <1>6. ASSUME NEW q \in Queries, Ask(q) \/ Reply(q)
        PROVE  UNCHANGED db
    BY <1>6 DEF Ask, Reply
  <1>7. UNCHANGED vars => UNCHANGED db
    BY DEF vars
  <1> QED
    BY <1>1, <1>2, <1>3, <1>4, <1>5, <1>6, <1>7 DEF Next

\* Committed history is only extended, and only for the Sonarr instance it was
\* begun for, by however many processes in whatever order, killed anywhere
\* (Open's lock and checks, Save as one transaction).
THEOREM HistoryAlwaysKept == Spec => HistoryKept
  <1>1. LifeInv /\ [Next]_vars => [Kept]_vars
    BY StepKeeps
  <1> QED
    BY <1>1, LifeInvariant, PTL DEF Spec, HistoryKept, Kept

----------------------------------------------------------------------------
(* Queries. *)

\* A query under way began with a history that has only been extended, and an
\* answer shows one.
Later(log) == db.log # NoRecords /\ IsPrefix(log, db.log)
Truthful(q) ==
  IF query[q] # "idle"
  THEN atStart[q] # NoRecords => Later(atStart[q])
  ELSE answer[q] # Refused =>
         /\ answer[q] \in Seq(Author) /\ Later(answer[q])
         /\ atStart[q] # NoRecords => IsPrefix(atStart[q], answer[q])

QueryInv ==
  /\ query \in [Queries -> {"idle", "1", "2"}]
  /\ answer \in [Queries -> Seq(Author) \cup {NoRecords, Refused}]
  /\ atStart \in [Queries -> Seq(Author) \cup {NoRecords}]
  /\ \A q \in Queries : Truthful(q)

LEMMA QueryInitial == Init => QueryInv
  BY DEF Init, QueryInv, Truthful

\* What a history is later than, it is later than after every step.
LEMMA StaysLater ==
  ASSUME LifeInv, LifeInv', Kept, NEW log \in Seq(Author), Later(log)
  PROVE  Later(log)'
  <1>1. db.log \in Seq(Author) /\ db'.log \in Seq(Author) /\ IsPrefix(db.log, db'.log)
        /\ db'.log # NoRecords
    BY DEF LifeInv, Kinds, Kept, Later
  <1> QED
    BY <1>1, PrefixTransitive DEF Later

\* A query that no step moves stays truthful.
LEMMA StaysTruthful ==
  ASSUME LifeInv, LifeInv', Kept, QueryInv, NEW q \in Queries,
         query'[q] = query[q], answer'[q] = answer[q], atStart'[q] = atStart[q]
  PROVE  Truthful(q)'
  <1>1. atStart[q] \in Seq(Author) /\ Later(atStart[q]) => Later(atStart[q])'
    BY StaysLater
  <1>2. answer[q] \in Seq(Author) /\ Later(answer[q]) => Later(answer[q])'
    BY StaysLater
  <1> QED
    BY <1>1, <1>2 DEF QueryInv, Truthful, Later

LEMMA AskKeeps ==
  ASSUME LifeInv, LifeInv', Kept, QueryInv, NEW q \in Queries, Ask(q)
  PROVE  QueryInv'
  <1>1. UNCHANGED db /\ db.log \in Seq(Author) \cup {NoRecords}
    BY DEF Ask, LifeInv, Kinds
  <1>2. /\ query' \in [Queries -> {"idle", "1", "2"}]
        /\ answer' \in [Queries -> Seq(Author) \cup {NoRecords, Refused}]
        /\ atStart' \in [Queries -> Seq(Author) \cup {NoRecords}]
    BY <1>1 DEF Ask, QueryInv
  <1>3. Truthful(q)'
    <2>1. query'[q] # "idle" /\ atStart'[q] = db.log
      BY DEF Ask, QueryInv
    <2> QED
      BY <1>1, <2>1, PrefixReflexive DEF Truthful, Later
  <1>4. ASSUME NEW r \in Queries, r # q
        PROVE  Truthful(r)'
    BY <1>4, StaysTruthful DEF Ask, QueryInv
  <1> QED
    BY <1>2, <1>3, <1>4 DEF QueryInv

LEMMA ReplyKeeps ==
  ASSUME LifeInv, LifeInv', Kept, QueryInv, NEW q \in Queries, Reply(q)
  PROVE  QueryInv'
  <1>1. UNCHANGED db /\ db.log \in Seq(Author) \cup {NoRecords}
    BY DEF Reply, LifeInv, Kinds
  <1>2. /\ query' \in [Queries -> {"idle", "1", "2"}]
        /\ answer' \in [Queries -> Seq(Author) \cup {NoRecords, Refused}]
        /\ atStart' \in [Queries -> Seq(Author) \cup {NoRecords}]
    BY <1>1 DEF Reply, Readable, QueryInv
  <1>3. Truthful(q)'
    <2>1. query'[q] = "idle" /\ atStart'[q] = atStart[q]
          /\ answer'[q] = Readable(query[q]) /\ query[q] # "idle"
      BY DEF Reply, QueryInv
    <2>2. Readable(query[q]) # Refused =>
            Readable(query[q]) = db.log /\ db.log \in Seq(Author) /\ db.log # NoRecords
      BY <1>1 DEF Readable
    <2>3. db.log \in Seq(Author) => IsPrefix(db.log, db.log)
      BY PrefixReflexive
    <2>4. atStart[q] # NoRecords => IsPrefix(atStart[q], db.log)
      BY <2>1 DEF QueryInv, Truthful, Later
    <2> QED
      BY <1>1, <2>1, <2>2, <2>3, <2>4 DEF Truthful, Later
  <1>4. ASSUME NEW r \in Queries, r # q
        PROVE  Truthful(r)'
    BY <1>4, StaysTruthful DEF Reply, QueryInv
  <1> QED
    BY <1>2, <1>3, <1>4 DEF QueryInv

LEMMA QueryKept == LifeInv /\ LifeInv' /\ QueryInv /\ [Next]_vars => QueryInv'
  <1> SUFFICES ASSUME LifeInv, LifeInv', QueryInv, [Next]_vars
               PROVE  QueryInv'
    OBVIOUS
  <1>1. Kept
    BY StepKeeps
  <1>2. CASE UNCHANGED reader
    <2>1. query' = query /\ answer' = answer /\ atStart' = atStart
      BY <1>2 DEF reader
    <2>2. \A q \in Queries : Truthful(q)'
      BY <1>1, <2>1, StaysTruthful
    <2> QED
      BY <2>1, <2>2 DEF QueryInv
  <1>3. ASSUME NEW q \in Queries, Ask(q) \/ Reply(q)
        PROVE  QueryInv'
    BY <1>1, <1>3, AskKeeps, ReplyKeeps
  <1>4. ASSUME NEW p \in Processes,
               \/ TakeLock(p) \/ ReadVersion(p) \/ CreateSchema(p) \/ LoadRecords(p)
               \/ OpenFails(p) \/ SaveOpened(p)
               \/ InspectPath(p) \/ RemoveStale(p) \/ StartFails(p)
               \/ \E inode \in Inodes : Bind(p, inode)
               \/ Update(p)
               \/ CloseListener(p) \/ FindSocket(p) \/ RemoveSocket(p) \/ CloseStore(p) \/ Crash(p)
        PROVE  UNCHANGED reader
    BY <1>4 DEF TakeLock, ReadVersion, CreateSchema, LoadRecords, OpenFails, SaveOpened,
       InspectPath, RemoveStale, StartFails, Bind, Update, CloseListener, FindSocket,
       RemoveSocket, CloseStore, Crash, reader
  <1>5. UNCHANGED vars => UNCHANGED reader
    BY DEF vars, reader
  <1> QED
    BY <1>2, <1>3, <1>4, <1>5 DEF Next

\* However many services and queries share a store, an answered query shows a
\* committed history that no later step takes back, at least as new as the one
\* the query began with (a read-only Open: the version, then the records).
THEOREM QueriesTruthful == Spec => []QueryTruthful
  <1>1. QueryInv => QueryTruthful
    <2> SUFFICES ASSUME QueryInv, NEW q \in Queries, query[q] = "idle", answer[q] # Refused
                 PROVE  /\ answer[q] # NoRecords /\ IsPrefix(answer[q], db.log)
                        /\ atStart[q] # NoRecords => IsPrefix(atStart[q], answer[q])
      BY DEF QueryTruthful
    <2> QED
      BY LifecycleAssumption DEF QueryInv, Truthful, Later
  <1> QED
    BY <1>1, QueryInitial, QueryKept, LifeInvariant, PTL DEF Spec
=============================================================================
