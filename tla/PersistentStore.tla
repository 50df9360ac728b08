--------------------------- MODULE PersistentStore --------------------------
(* The PersistentStore plugin (sqlite/Store2): its tables, and the triggers *)
(* that bound them.  Every statement is a transaction of its own; SetValue  *)
(* and SetNamespaceStorageLimit are two, the namespace first and the row of *)
(* it then.  A start checks the file, replaces a corrupt one by its backup  *)
(* and makes a backup of a good one.  Lengths of names, keys and values are *)
(* all that counts; what expires (ttl) is left out.                         *)
EXTENDS Naturals, FiniteSetsExt

CONSTANTS
  Ns, Key,        \* every name and key has length 1
  Length,         \* lengths of values
  Thread,
  maxSize, limit, \* _maxSize, and _limit of a namespace
  Limit,          \* limits set for a namespace
  Failing         \* "kill": killed between two steps of a start

LengthAssumption == Length \subseteq Nat /\ Limit \subseteq Nat
MaximumAssumption == maxSize \in Nat /\ limit \in Nat /\ Failing \subseteq {"kill"}

VARIABLES
  tables,         \* the database: namespaces, items and limits
  backup,         \* the backup file: tables, or NoFile
  corrupt,        \* the file is damaged
  start,          \* how far a start is
  caller          \* per thread: what its call does next, or NoCall

storeVars == <<tables, backup, corrupt, start, caller>>

None == 1000      \* no value, no limit
Absent == [k \in Key |-> None]
Empty == [namespace |-> {}, item |-> [n \in Ns |-> Absent], limits |-> [n \in Ns |-> None]]
NoFile == [Empty EXCEPT !.namespace = {"no file"}]
NoCall == [call |-> "none"]

Table == [namespace : SUBSET Ns, item : [Ns -> [Key -> Length \cup {None}]],
          limits : [Ns -> Limit \cup {None}]]
Call == [call : {"SetValue"}, ns : Ns, key : Key, value : Length]
          \cup [call : {"SetNamespaceStorageLimit"}, ns : Ns, size : Limit] \cup {NoCall}

TypeOK ==
  /\ tables \in Table /\ backup \in Table \cup {NoFile}
  /\ corrupt \in BOOLEAN
  /\ start \in {"check", "destroyed", "backup", "up"}
  /\ caller \in [Thread -> Call]

Init ==
  /\ tables = Empty /\ backup = NoFile
  /\ corrupt = FALSE /\ start = "up"
  /\ caller = [t \in Thread |-> NoCall]

-----------------------------------------------------------------------------
Row(v) == IF v = None THEN 0 ELSE 1 + v
NsSize(T, n) == MapThenSumSet(LAMBDA k : Row(T.item[n][k]), Key)
TotalSize(T) == MapThenSumSet(LAMBDA n : NsSize(T, n), Ns) + Cardinality(T.namespace)

(* The triggers run before an insert: a row that it replaces, and a name    *)
(* that is there already, are counted as well.                              *)
ns_maxsize == TotalSize(tables) + 1 <= maxSize

(* Slip: the names of namespaces are not counted.                           *)
ItemsFit(row) == TotalSize(tables) - Cardinality(tables.namespace) + row <= maxSize

item_maxsize(row) == TotalSize(tables) + row <= maxSize
item_limit_default(n, row) == NsSize(tables, n) + row <= limit
item_limit(n, row) == tables.limits[n] # None => NsSize(tables, n) + row <= tables.limits[n]

Refuses(n, row) == ~(item_maxsize(row) /\ item_limit_default(n, row) /\ item_limit(n, row))

-----------------------------------------------------------------------------
(* The first statement of both calls; a refused one ends the call.          *)
InsertNamespace(t, c) ==
  /\ start = "up" /\ caller[t] = NoCall
  /\ ns_maxsize
  /\ tables' = [tables EXCEPT !.namespace = @ \cup {c.ns}]
  /\ caller' = [caller EXCEPT ![t] = c]
  /\ UNCHANGED <<backup, corrupt, start>>

(* The second: nothing is inserted if the namespace is gone again.          *)
InsertItem(t) ==
  /\ start = "up" /\ caller[t].call = "SetValue"
  /\ LET c == caller[t] IN
     tables' = IF c.ns \notin tables.namespace \/ Refuses(c.ns, Row(c.value)) THEN tables
               ELSE [tables EXCEPT !.item[c.ns][c.key] = c.value]
  /\ caller' = [caller EXCEPT ![t] = NoCall]
  /\ UNCHANGED <<backup, corrupt, start>>

InsertLimit(t) ==
  /\ start = "up" /\ caller[t].call = "SetNamespaceStorageLimit"
  /\ LET c == caller[t] IN
     tables' = IF c.ns \notin tables.namespace THEN tables
               ELSE [tables EXCEPT !.limits[c.ns] = c.size]
  /\ caller' = [caller EXCEPT ![t] = NoCall]
  /\ UNCHANGED <<backup, corrupt, start>>

DeleteKey(n, k) ==
  /\ start = "up" /\ tables.item[n][k] # None
  /\ tables' = [tables EXCEPT !.item[n][k] = None]
  /\ UNCHANGED <<backup, corrupt, start, caller>>

(* The items and the limit go with their namespace.                         *)
DeleteNamespace(n) ==
  /\ start = "up" /\ n \in tables.namespace
  /\ tables' = [namespace |-> tables.namespace \ {n},
                item      |-> [tables.item EXCEPT ![n] = Absent],
                limits    |-> [tables.limits EXCEPT ![n] = None]]
  /\ UNCHANGED <<backup, corrupt, start, caller>>

-----------------------------------------------------------------------------
(* The process ends, at any statement; the file may be found corrupt.       *)
Kill ==
  /\ start = "up" \/ "kill" \in Failing
  /\ start' = "check"
  /\ caller' = [t \in Thread |-> NoCall]
  /\ corrupt' \in {corrupt, TRUE}
  /\ UNCHANGED <<tables, backup>>

(* IntegrityCheck removes a corrupt file.                                   *)
IntegrityCheck ==
  /\ start = "check"
  /\ start' = IF corrupt THEN "destroyed" ELSE "backup"
  /\ tables' = IF corrupt THEN Empty ELSE tables
  /\ corrupt' = FALSE
  /\ UNCHANGED <<backup, caller>>

(* Backup, in either direction, and Open.                                   *)
Backup ==
  /\ start \in {"destroyed", "backup"}
  /\ IF start = "backup" THEN backup' = tables /\ UNCHANGED tables
     ELSE /\ tables' = IF backup = NoFile THEN Empty ELSE backup
          /\ UNCHANGED backup
  /\ start' = "up"
  /\ UNCHANGED <<corrupt, caller>>

Next ==
  \/ \E t \in Thread :
       \/ \E c \in Call \ {NoCall} : InsertNamespace(t, c)
       \/ InsertItem(t) \/ InsertLimit(t)
  \/ \E n \in Ns : DeleteNamespace(n) \/ \E k \in Key : DeleteKey(n, k)
  \/ Kill \/ IntegrityCheck \/ Backup

Spec == Init /\ [][Next]_storeVars
-----------------------------------------------------------------------------
(* The store never outgrows its size nor a namespace the default limit,     *)
(* whatever the two statements of the callers meet in between and whatever a*)
(* start restores (Store2::Open: ns_maxsize, item_maxsize,                  *)
(* item_limit_default).                                                     *)
StoreIsBounded ==
  /\ TotalSize(tables) <= maxSize
  /\ \A n \in Ns : NsSize(tables, n) <= limit
=============================================================================
