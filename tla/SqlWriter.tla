------------------------------ MODULE SqlWriter ------------------------------
(***************************************************************************)
(* The writer that an SQL plugin forks to store the purged part of its     *)
(* cache: PG_cache_purge, MY_cache_purge and the sql_query that both use.  *)
(* It sends the queued elements to the primary database and, where that    *)
(* fails, to the backup of sql_recovery_backup_host.                       *)
(*                                                                         *)
(* PostgreSQL takes a purge as one transaction, MySQL row by row, or by    *)
(* statements of several rows (sql_multi_values).  The databases may       *)
(* refuse any connection, lock, query or commit.  A call that can end in   *)
(* several ways is the set of its outcomes; a step is one call.            *)
(***************************************************************************)
EXTENDS Integers, Sequences, FiniteSets

CONSTANTS
    N,        \* elements of the queue
    Tables,   \* names that sql_table expands to
    MvRows    \* rows that fit in the multi-values buffer

Elements == 1 .. N
DBs == {"p", "b"}
Validity == {"committed", "error", "invalid", "free"}
Locations == {"connect", "start", "loop", "again", "wrapup", "end", "done"}

ASSUME WriterAssumption == N \in Nat \ {0} /\ MvRows \in Nat \ {0}

VARIABLES
    cfg,          \* backend, whether there is a backup host, multi-values used
    valid, table, \* of each element, after sql_preprocess_funcs
    w,            \* what the calls change: the two databases, the multi-values
                  \* buffer, the element in hand
    queue, pend,  \* queue[]; sql_pending_queries_queue, of the other tables
    bulk, again,  \* bulk_reprocess_queries_queue, reprocess_queries_queue
    mode,         \* reprocess: "no", "specific" or "bulk"
    next,         \* position in the list that is processed again
    last,         \* LastElemCommitted, 0 when NULL
    pc

vars == <<cfg, valid, table, w, queue, pend, bulk, again, mode, next, last, pc>>

Pg == cfg.backend = "pgsql"
Committed(e) == valid[e] = "committed"
Queue0 == [i \in 1 .. N |-> i]

Init ==
    /\ cfg \in [backend : {"pgsql", "mysql"}, backup : BOOLEAN, multi : BOOLEAN]
    /\ Pg => ~cfg.multi
    /\ valid \in [Elements -> Validity] /\ table \in [Elements -> Tables]
    /\ w = [fail |-> [d \in DBs |-> FALSE], conn |-> [d \in DBs |-> FALSE],
            tx |-> [d \in DBs |-> <<>>], rows |-> [d \in DBs |-> <<>>],
            name |-> table[1], cur |-> 1, buf |-> <<>>, head |-> 1,
            stale |-> FALSE, refused |-> FALSE, dead |-> FALSE]
    /\ queue = Queue0 /\ pend = <<>> /\ bulk = <<>> /\ again = <<>>
    /\ mode = "no" /\ next = 1 /\ last = 0 /\ pc = "connect"

-----------------------------------------------------------------------------
(* Calls.  An outcome is the state after the call and whether it worked.   *)

Works(s) == [s |-> s, ok |-> TRUE]
Fails(s) == [s |-> s, ok |-> FALSE]
Row(s, e) == <<e, s.name>>

(* sql_db_ok and sql_db_fail.                                              *)
DbOk(s, d)   == [s EXCEPT !.fail[d] = FALSE, !.conn[d] = TRUE]
DbFail(s, d) == [s EXCEPT !.fail[d] = TRUE, !.conn[d] = FALSE]

(* PG_cache_dbop: UPDATE, then INSERT if no row was there, in the          *)
(* transaction that the lock has begun.                                    *)
PgOp(s, d, e) ==
    {Works([s EXCEPT !.tx[d] = Append(@, Row(s, e))]), Fails(DbFail(s, d))}

(* Mutant of Rewound: the element after the rewind is the first again, and *)
(* the offset is reset.                                                    *)
RewoundWhole(s, d) ==
    IF cfg.backup /\ d = "p" THEN s
    ELSE [s EXCEPT !.cur = s.head - 1, !.buf = <<>>]

(* signal_error: without a backup, or at the backup, the rows of the       *)
(* buffer are to be sent again from the first one; buffer_offset stays.    *)
Rewound(s, d) ==
    IF cfg.backup /\ d = "p" THEN s
    ELSE [s EXCEPT !.cur = s.head, !.buf = <<>>, !.stale = TRUE]

(* The multi-values statement is sent.                                     *)
MyFlush(s, d) ==
    {Works([s EXCEPT !.rows[d] = @ \o s.buf, !.buf = <<>>]),
     Fails([Rewound(s, d) EXCEPT !.refused = TRUE])}

Buffered(s, e) ==
    [s EXCEPT !.buf = Append(@, Row(s, e)),
              !.head = IF s.buf = <<>> THEN s.cur ELSE @]

(* MY_cache_dbop: one statement, or a row of the buffer, which is sent     *)
(* first when it is full.  After a rewind the offset leaves no room, and   *)
(* the writer exits ("'sql_multi_values' is too small").                   *)
MyOp(s, d, e) ==
    IF ~cfg.multi
    THEN {Works([s EXCEPT !.rows[d] = Append(@, Row(s, e))]),
          Fails([s EXCEPT !.refused = TRUE])}
    ELSE IF s.stale
    THEN {Fails([s EXCEPT !.dead = TRUE])}
    ELSE IF Len(s.buf) < MvRows
    THEN {Works(Buffered(s, e))}
    ELSE {IF o.ok THEN Works(Buffered(o.s, e)) ELSE o : o \in MyFlush(s, d)}

(* What sqlfunc_cbr.op does with element e: MY_cache_dbop sends the buffer *)
(* when mv.last_queue_elem is set.                                         *)
Op(s, d, e, wrapup) ==
    IF Pg THEN PgOp(s, d, e)
    ELSE IF wrapup THEN MyFlush(s, d)
    ELSE MyOp(s, d, e)

(* connect and lock: PG_DB_Connect and PG_Lock, or their MySQL versions.   *)
Opened(s, d) == IF s.fail[d] THEN {s} ELSE {DbOk(s, d), DbFail(s, d)}
Locked(s, d) == IF s.fail[d] THEN {s} ELSE {s, DbFail(s, d)}

(* The part of sql_query about the backup.                                 *)
ToBackup(s, e, wrapup) ==
    LET ready == IF s.conn["b"] THEN {s}
                 ELSE UNION {Locked(r, "b") : r \in Opened(s, "b")}
        sent(r) == IF r.fail["b"] THEN {r}
                   ELSE {IF o.ok \/ o.s.dead THEN o.s ELSE DbFail(o.s, "b") :
                           o \in Op(r, "b", e, wrapup)}
    IN  IF /\ ~s.dead
           /\ valid[e] = "error" \/ s.fail["p"]
           /\ cfg.backup /\ ~s.fail["b"]
        THEN UNION {sent(r) : r \in ready}
        ELSE {s}

(* sql_query: FALSE, that is "ok", only when the primary took the element. *)
sql_query(s, e, wrapup) ==
    LET primary == IF ~s.fail["p"] /\ Committed(e) THEN Op(s, "p", e, wrapup)
                   ELSE {Fails(s)}
    IN  UNION {IF o.ok THEN {o}
               ELSE {Fails(r) : r \in ToBackup(o.s, e, wrapup)} : o \in primary}

-----------------------------------------------------------------------------
(* The child of sql_cache_handle_flush_event: when all writers but one are *)
(* busy (CHLD_WARNING) the primary is taken for failed.                    *)
Connect ==
    /\ pc = "connect"
    /\ w' \in Opened(w, "p") \union {DbFail(w, "p")}
    /\ pc' = "start"
    /\ UNCHANGED <<cfg, valid, table, queue, pend, bulk, again, mode, next, last>>

(* Label start: the table of the first element is the one of this round,   *)
(* the lock (for PostgreSQL also BEGIN) is taken; "reprocess" is kept.     *)
Start ==
    /\ pc = "start"
    /\ w' \in Locked([w EXCEPT !.name = table[queue[1]], !.cur = 1,
                               !.buf = <<>>, !.stale = FALSE], "p")
    /\ bulk' = <<>> /\ again' = <<>> /\ pc' = "loop"
    /\ UNCHANGED <<cfg, valid, table, queue, pend, mode, next, last>>

Looping == pc = "loop" /\ ~w.dead /\ w.cur <= Len(queue)
InHand == queue[w.cur]

(* The table of the element that is compared with this round's table: the  *)
(* PostgreSQL loop does not move current_queue_elem.                       *)
TableInHand == IF Pg THEN table[queue[1]] ELSE table[InHand]

(* Mutant of Postpone: the element is sent as well.                        *)
PostponeNot ==
    /\ Looping /\ TableInHand # w.name
    /\ pend' = Append(pend, InHand)
    /\ \E o \in sql_query(w, InHand, FALSE) : w' = [o.s EXCEPT !.cur = @ + 1]
    /\ UNCHANGED <<cfg, valid, table, queue, bulk, again, mode, next, last, pc>>

(* go_to_pending: an element of another table waits for the next round.    *)
Postpone ==
    /\ Looping /\ TableInHand # w.name
    /\ pend' = Append(pend, InHand)
    /\ w' = [w EXCEPT !.cur = @ + 1]
    /\ UNCHANGED <<cfg, valid, table, queue, bulk, again, mode, next, last, pc>>

(* The loop of PG_cache_purge: committed elements are sent, those refused  *)
(* are noted; the others are left out.                                     *)
PgSend ==
    /\ Looping /\ Pg /\ TableInHand = w.name /\ Committed(InHand)
    /\ \E o \in sql_query(w, InHand, FALSE) :
         IF o.ok
         THEN w' = [o.s EXCEPT !.cur = @ + 1] /\ UNCHANGED <<again, mode>>
         ELSE /\ w' = [(IF mode = "no" THEN DbFail(o.s, "p") ELSE o.s)
                         EXCEPT !.cur = @ + 1]
              /\ again' = Append(again, InHand) /\ mode' = "specific"
    /\ bulk' = Append(bulk, InHand)
    /\ UNCHANGED <<cfg, valid, table, queue, pend, next, last, pc>>

PgSkip ==
    /\ Looping /\ Pg /\ TableInHand = w.name /\ ~Committed(InHand)
    /\ w' = [w EXCEPT !.cur = @ + 1]
    /\ UNCHANGED <<cfg, valid, table, queue, pend, bulk, again, mode, next, last, pc>>

(* The loop of MY_cache_purge: every element that is not free.             *)
MySend ==
    /\ Looping /\ ~Pg /\ TableInHand = w.name
    /\ \E o \in IF valid[InHand] = "free" THEN {Works(w)}
                ELSE sql_query(w, InHand, FALSE) :
         w' = [o.s EXCEPT !.cur = @ + 1]
    /\ last' = IF Committed(InHand) THEN InHand ELSE last
    /\ UNCHANGED <<cfg, valid, table, queue, pend, bulk, again, mode, next, pc>>

LoopEnds ==
    /\ pc = "loop" /\ ~w.dead /\ w.cur > Len(queue)
    /\ pc' = IF Pg THEN "again" ELSE "wrapup"
    /\ next' = 1

(* COMMIT of the primary.  Refused, it calls for the elements in bulk.     *)
PgCommit ==
    /\ LoopEnds /\ Pg /\ ~w.fail["p"]
    /\ \/ /\ w' = [w EXCEPT !.rows["p"] = @ \o w.tx["p"], !.tx["p"] = <<>>]
          /\ UNCHANGED mode
       \/ /\ w' = [(IF mode = "no" THEN DbFail(w, "p") ELSE w) EXCEPT !.tx["p"] = <<>>]
          /\ mode' = "bulk"
    /\ UNCHANGED <<cfg, valid, table, queue, pend, bulk, again, last>>

(* A failed primary drops the transaction when it loses the connection.    *)
NoCommit ==
    /\ LoopEnds /\ (Pg => w.fail["p"])
    /\ w' = [w EXCEPT !.tx["p"] = <<>>]
    /\ UNCHANGED <<cfg, valid, table, queue, pend, bulk, again, mode, last>>

(* Mutant of ToReprocess: the lists are swapped.                           *)
ToReprocessSwapped ==
    IF ~w.fail["p"] THEN <<>>
    ELSE IF mode = "specific" THEN bulk
    ELSE IF mode = "bulk" THEN again
    ELSE <<>>

(* What is sent again to a failed primary's backup.                        *)
ToReprocess ==
    IF ~w.fail["p"] THEN <<>>
    ELSE IF mode = "specific" THEN again
    ELSE IF mode = "bulk" THEN bulk
    ELSE <<>>

PgAgain ==
    /\ pc = "again" /\ next <= Len(ToReprocess)
    /\ \E o \in sql_query(w, ToReprocess[next], FALSE) : w' = o.s
    /\ next' = next + 1
    /\ UNCHANGED <<cfg, valid, table, queue, pend, bulk, again, mode, last, pc>>

(* COMMIT of the backup, if it was used.                                   *)
PgEnd ==
    /\ pc = "again" /\ next > Len(ToReprocess)
    /\ \/ /\ w' = IF w.conn["b"]
                  THEN [w EXCEPT !.rows["b"] = @ \o w.tx["b"], !.tx["b"] = <<>>]
                  ELSE w
       \/ w.conn["b"] /\ w' = [DbFail(w, "b") EXCEPT !.tx["b"] = <<>>]
    /\ pc' = "end"
    /\ UNCHANGED <<cfg, valid, table, queue, pend, bulk, again, mode, next, last>>

(* Multi-values wrap-up: what is left in the buffer is sent through the    *)
(* last committed element, which is dereferenced even if there was none.   *)
MyWrapUp ==
    /\ pc = "wrapup"
    /\ w' \in IF w.buf = <<>> THEN {w}
              ELSE IF last = 0 THEN {[w EXCEPT !.dead = TRUE]}
              ELSE {o.s : o \in sql_query(w, last, TRUE)}
    /\ pc' = "end"
    /\ UNCHANGED <<cfg, valid, table, queue, pend, bulk, again, mode, next, last>>

(* "If we have pending queries then start again".                          *)
StartAgain ==
    /\ pc = "end" /\ ~w.dead /\ pend # <<>>
    /\ queue' = pend /\ pend' = <<>> /\ pc' = "start"
    /\ UNCHANGED <<cfg, valid, table, w, bulk, again, mode, next, last>>

Finish ==
    /\ \/ pc = "end" /\ pend = <<>>
       \/ pc \in {"loop", "end"} /\ w.dead
    /\ pc' = "done"
    /\ UNCHANGED <<cfg, valid, table, w, queue, pend, bulk, again, mode, next, last>>

Finished == pc = "done" /\ UNCHANGED vars

Running ==
    \/ Connect \/ Start \/ Postpone \/ PgSend \/ PgSkip \/ MySend
    \/ PgCommit \/ NoCommit \/ PgAgain \/ PgEnd \/ MyWrapUp \/ StartAgain \/ Finish

Next == Running \/ Finished

(* The writer is a process of its own: it runs on, and its calls return.   *)
Spec == Init /\ [][Next]_vars /\ WF_vars(Running)

-----------------------------------------------------------------------------
(* Properties.                                                             *)

Rows == Elements \X Tables

(* Types: indices stay in the queue and the buffer within its size.        *)
TypeOK ==
    /\ valid \in [Elements -> Validity] /\ table \in [Elements -> Tables]
    /\ {w.cur, w.head} \subseteq Nat \ {0}
    /\ pc = "loop" => /\ w.cur <= Len(queue) + 1
                      /\ w.buf # <<>> => w.head < w.cur
    /\ Len(w.buf) <= MvRows
    /\ {queue, pend, bulk, again} \subseteq Seq(Elements)
    /\ queue # <<>> /\ next \in 1 .. (N + 1)
    /\ {w.tx[d] : d \in DBs} \union {w.rows[d] : d \in DBs} \union {w.buf}
         \subseteq Seq(Rows)
    /\ mode \in {"no", "specific", "bulk"} /\ last \in 0 .. N /\ pc \in Locations

Copies(d, e) == Cardinality({i \in DOMAIN w.rows[d] : w.rows[d][i][1] = e})
Stored(e) == Copies("p", e) + Copies("b", e)
Ended == pc = "done" /\ ~w.dead
BackupWorks == cfg.backup /\ ~w.fail["b"]

(* A purge ends with each committed element stored once, in one of the two *)
(* databases: through the tables it is spread over, a primary that cannot  *)
(* be reached, locked or committed, and the statements of several rows; as *)
(* long as the primary refuses no single query, and PostgreSQL's is there  *)
(* when the elements are sent.  (Section 5 of the README: otherwise not.)  *)
StoredOnce ==
    (/\ Ended /\ ~w.refused
     /\ w.fail["p"] => BackupWorks
     /\ Pg => mode # "specific")
      => \A e \in Elements : Committed(e) => Stored(e) = 1

(* PostgreSQL's primary gets a purge whole or not at all, and an element   *)
(* that is in neither database although the backup works was in a          *)
(* transaction that the primary had taken up to a later, refused element.  *)
LostOnlyInTransaction ==
    (Ended /\ Pg) =>
      /\ \/ \A e \in Elements : Copies("p", e) = 0
         \/ \A e \in Elements : Copies("p", e) = IF Committed(e) THEN 1 ELSE 0
      /\ BackupWorks =>
           \A e \in Elements :
             (Committed(e) /\ Stored(e) = 0)
               => again # <<>> /\ e < again[1]

(* The backup has failed and a query was refused: where statements of      *)
(* several rows are used, the loop may have been rewound at the backup     *)
(* while the primary goes on.                                              *)
BackupRewound == cfg.multi /\ cfg.backup /\ w.refused /\ w.fail["b"]

(* MySQL stores no element twice, whatever is refused, rewound or sent     *)
(* again in a later round, and no round has more elements than the array   *)
(* of the queue, a rewind at the backup apart (Section 5 of the README);   *)
(* it stores an element in the table of its own name.  Where each element  *)
(* has its statement, neither program gives the primary what the           *)
(* preprocessing checks have filtered out.                                 *)
NeverTwice ==
    /\ TypeOK
    /\ (~Pg /\ ~BackupRewound) =>
         Len(queue) <= N /\ \A e \in Elements : Stored(e) <= 1
    /\ ~Pg => \A d \in DBs : \A i \in DOMAIN w.rows[d] :
         w.rows[d][i][2] = table[w.rows[d][i][1]]
    /\ ~cfg.multi => \A e \in Elements : ~Committed(e) => Copies("p", e) = 0

(* The rounds over the tables end ("goto start"), and so does the writer.  *)
WriterEnds == <>(pc = "done")

-----------------------------------------------------------------------------
(* What comments and documents say, and the code does not do.              *)

(* "don't reprocess free and already recovered elements"                   *)
RecoveredOnce == Ended => \A e \in Elements : Copies("b", e) <= 1

(* sql_recovery_backup_host "works by checking for the successful result   *)
(* of each SQL query".                                                     *)
RefusedIsRecovered ==
    (Ended /\ BackupWorks) => \A e \in Elements : Committed(e) => Stored(e) >= 1

(* 'recover' "makes the packet to be handled through the recovery          *)
(* mechanism".                                                             *)
FilteredIsRecovered ==
    (Ended /\ BackupWorks)
      => \A e \in Elements : valid[e] = "error" => Copies("b", e) >= 1

(* "DB failure: we will rewind the multi-values buffer": only the rows of  *)
(* the buffer are gone through again.                                      *)
RewindRepeatsNothing == ~Pg => \A e \in Elements : Stored(e) <= 1

(* sql_table names the table of each aggregate.                            *)
OwnTable ==
    \A d \in DBs : \A i \in DOMAIN w.rows[d] :
      w.rows[d][i][2] = table[w.rows[d][i][1]]
=============================================================================
