--------------------------- MODULE SqlWriterProofs ---------------------------
(***************************************************************************)
(* What a purge may leave in the two databases, proved for every number of *)
(* elements, every set of tables and every size of the multi-values        *)
(* buffer.  The invariant of the writer says where each element is: in a   *)
(* database, in the buffer, ahead in the queue or put off to a later       *)
(* round.                                                                  *)
(***************************************************************************)
EXTENDS SqlWriter, FiniteSetTheorems, TLAPS

(* The elements that rows are of, and that each has one row at most.       *)
Of(r) == {r[i][1] : i \in DOMAIN r}
Once(r) == \A i, j \in DOMAIN r : r[i][1] = r[j][1] => i = j

Members(q) == {q[i] : i \in DOMAIN q}
Distinct(q) == \A i, j \in DOMAIN q : q[i] = q[j] => i = j

Settings == [backend : {"pgsql", "mysql"}, backup : BOOLEAN, multi : BOOLEAN]

State ==
    [fail : [DBs -> BOOLEAN], conn : [DBs -> BOOLEAN],
     tx : [DBs -> Seq(Rows)], rows : [DBs -> Seq(Rows)],
     name : Tables, cur : Nat \ {0}, buf : Seq(Rows), head : Nat \ {0},
     stale : BOOLEAN, refused : BOOLEAN, dead : BOOLEAN]

(* What the databases and the buffer hold, and that they hold it once.     *)
Held(s) == Of(s.rows["p"]) \union Of(s.rows["b"]) \union Of(s.buf)
Single(s) ==
    /\ Once(s.rows["p"]) /\ Once(s.rows["b"]) /\ Once(s.buf)
    /\ Of(s.rows["p"]) \intersect Of(s.rows["b"]) = {}
    /\ Of(s.rows["p"]) \intersect Of(s.buf) = {}
    /\ Of(s.rows["b"]) \intersect Of(s.buf) = {}

Named(r) == \A i \in DOMAIN r : r[i][2] = table[r[i][1]]
AllNamed(s) == Named(s.rows["p"]) /\ Named(s.rows["b"]) /\ Named(s.buf)

(* The elements of the queue that a round at l has still to process.       *)
Ahead(q, l, cur) ==
    {q[i] : i \in IF l \in {"connect", "start"} THEN 1 .. Len(q)
                  ELSE IF l = "loop" THEN cur .. Len(q) ELSE {}}

(* Nothing has been refused, and what has failed has another to take over. *)
Good(s) == ~s.refused /\ ~s.dead /\ (s.fail["p"] => cfg.backup /\ ~s.fail["b"])
Rewind(s) == cfg.multi /\ cfg.backup /\ s.refused /\ s.fail["b"]

-----------------------------------------------------------------------------
(* The invariant.                                                          *)

Typed ==
    /\ valid \in [Elements -> Validity] /\ table \in [Elements -> Tables]
    /\ cfg \in Settings /\ (Pg => ~cfg.multi)
    /\ w \in State /\ Len(w.buf) <= MvRows /\ (w.stale => w.refused)
    /\ ~cfg.multi => w.buf = <<>> /\ ~w.stale
    /\ pc = "loop" => /\ w.cur <= Len(queue) + 1
                      /\ w.buf # <<>> => w.head < w.cur
    /\ queue \in Seq(Elements) /\ pend \in Seq(Elements)
    /\ bulk \in Seq(Elements) /\ again \in Seq(Elements)
    /\ queue # <<>> /\ next \in 1 .. (N + 1)
    /\ mode \in {"no", "specific", "bulk"} /\ last \in 0 .. N /\ pc \in Locations

(* Only committed elements are sent to the primary one by one.             *)
Filtered ==
    ~cfg.multi => \A e \in Of(w.rows["p"]) \union Of(w.tx["p"]) : Committed(e)

(* MySQL, with s for the databases and the buffer, q for the queue, p for  *)
(* what was put off, at l: an element is in one place, once.               *)
Apart(s, q, p, ahead) ==
    /\ Distinct(q) /\ Distinct(p)
    /\ ahead \intersect Held(s) = {}
    /\ ahead \intersect Members(p) = {}
    /\ Members(p) \intersect Held(s) = {}

(* The element that ends the writer after a rewind of the loop.            *)
Doomed(s, q) ==
    /\ ~s.fail["p"]
    /\ \E j \in s.cur .. Len(q) : table[q[j]] = s.name /\ Committed(q[j])

Places(s, q, p, l) ==
    /\ Single(s) /\ Len(q) <= N
    /\ l \in {"connect", "start"} => p = <<>>
    /\ (~s.dead /\ l = "loop" /\ s.stale) => Doomed(s, q)
    /\ (~s.dead /\ ~(l = "loop" /\ s.stale)) =>
         /\ Apart(s, q, p, Ahead(q, l, s.cur))
         /\ Len(p) <= Len(q) /\ (l = "loop" => Len(p) < s.cur)

(* MySQL: as long as all is good no committed element is missing.          *)
Covered(s, q, p, l) ==
    Good(s) =>
      /\ \A e \in Elements : Committed(e) =>
           e \in Held(s) \union Ahead(q, l, s.cur) \union Members(p)
      /\ l \in {"connect", "start", "end", "done"} => s.buf = <<>>

MyRest ==
    /\ last # 0 => Committed(last)
    /\ pc # "again" /\ (pc = "done" /\ ~w.dead => pend = <<>>)

MyInv ==
    ~Pg => /\ AllNamed(w) /\ MyRest
           /\ ~Rewind(w) => Places(w, queue, pend, pc)
           /\ Covered(w, queue, pend, pc)

(* PostgreSQL: the committed elements that the loop has passed.            *)
Passed == {e \in Elements : e < w.cur /\ Committed(e)}

PgFixed ==
    /\ queue = Queue0 /\ pend = <<>> /\ w.name = table[1] /\ pc # "wrapup"
    /\ ~w.dead /\ ~w.refused

PgFresh ==
    pc \in {"connect", "start"} =>
      /\ w.cur = 1 /\ mode = "no" /\ bulk = <<>> /\ again = <<>>
      /\ \A d \in DBs : w.tx[d] = <<>> /\ w.rows[d] = <<>>

(* The lists of what to send again.                                        *)
PgLists ==
    /\ Distinct(bulk) /\ Members(bulk) = Passed
    /\ Len(bulk) < w.cur /\ Len(again) < w.cur /\ Members(again) \subseteq Passed
    /\ (mode = "specific") = (again # <<>>)
    /\ again # <<>> => \A e \in Passed : e >= again[1] => e \in Members(again)
    /\ mode # "no" => w.fail["p"]
    /\ mode = "bulk" => pc \notin {"connect", "start", "loop"}
    /\ (mode = "no" /\ w.fail["p"]) => Passed = {}

(* The primary's transaction, and what it has stored.                      *)
PgPrimary ==
    /\ pc \in {"connect", "start", "loop"} =>
         /\ w.rows["p"] = <<>>
         /\ ~w.fail["p"] => Once(w.tx["p"]) /\ Of(w.tx["p"]) = Passed
    /\ pc \in {"again", "end", "done"} =>
         /\ w.cur = N + 1
         /\ w.fail["p"] => w.rows["p"] = <<>>
         /\ ~w.fail["p"] => Once(w.rows["p"]) /\ Of(w.rows["p"]) = Passed

(* The backup's.                                                           *)
PgBackup ==
    /\ ~w.fail["p"] => w.tx["b"] = <<>> /\ w.rows["b"] = <<>>
    /\ (~w.fail["b"] /\ ~w.conn["b"]) => w.tx["b"] = <<>>
    /\ pc \notin {"end", "done"} => w.rows["b"] = <<>>
    /\ (pc = "again" /\ BackupWorks) =>
         /\ \A k \in DOMAIN ToReprocess :
              k < next => ToReprocess[k] \in Of(w.tx["b"])
         /\ mode = "bulk" =>
              /\ Once(w.tx["b"])
              /\ Of(w.tx["b"]) = {bulk[k] : k \in {i \in DOMAIN bulk : i < next}}
    /\ (pc \in {"end", "done"} /\ BackupWorks) =>
         /\ Members(ToReprocess) \subseteq Of(w.rows["b"])
         /\ mode = "bulk" => Once(w.rows["b"]) /\ Of(w.rows["b"]) = Members(bulk)

PgInv == Pg => PgFixed /\ PgFresh /\ PgLists /\ PgPrimary /\ PgBackup

IInv == Typed /\ Filtered /\ MyInv /\ PgInv

-----------------------------------------------------------------------------
(* Rows.                                                                   *)

(* The elements of no rows, of one more row and of joined rows.            *)
LEMMA OfRows ==
    /\ Of(<<>>) = {} /\ Once(<<>>)
    /\ \A r \in Seq(Rows), x \in Rows :
         /\ Append(r, x) \in Seq(Rows)
         /\ Of(Append(r, x)) = Of(r) \union {x[1]}
         /\ (Once(r) /\ x[1] \notin Of(r)) => Once(Append(r, x))
    /\ \A r, q \in Seq(Rows) :
         /\ r \o q \in Seq(Rows)
         /\ Of(r \o q) = Of(r) \union Of(q)
         /\ (Once(r) /\ Once(q) /\ Of(r) \intersect Of(q) = {}) => Once(r \o q)
    /\ \A r \in Seq(Rows) : Of(r) \subseteq Elements
  <1>1. Of(<<>>) = {} /\ Once(<<>>)  BY DEF Of, Once
  <1>2. ASSUME NEW r \in Seq(Rows), NEW x \in Rows
        PROVE  /\ Append(r, x) \in Seq(Rows)
               /\ Of(Append(r, x)) = Of(r) \union {x[1]}
               /\ (Once(r) /\ x[1] \notin Of(r)) => Once(Append(r, x))
    <2> DEFINE a == Append(r, x)
    <2>1. /\ a \in Seq(Rows) /\ DOMAIN r = 1 .. Len(r) /\ Len(r) \in Nat
          /\ DOMAIN a = 1 .. (Len(r) + 1)
          /\ a[Len(r) + 1] = x /\ \A i \in DOMAIN r : a[i] = r[i]  OBVIOUS
    <2> HIDE DEF a
    <2>2. Of(a) = Of(r) \union {x[1]}  BY <2>1 DEF Of
    <2>3. ASSUME Once(r), x[1] \notin Of(r) PROVE Once(a)
      BY <2>1, <2>3 DEF Of, Once
    <2> QED  BY <2>1, <2>2, <2>3 DEF a
  <1>3. ASSUME NEW r \in Seq(Rows), NEW q \in Seq(Rows)
        PROVE  /\ r \o q \in Seq(Rows)
               /\ Of(r \o q) = Of(r) \union Of(q)
               /\ (Once(r) /\ Once(q) /\ Of(r) \intersect Of(q) = {}) => Once(r \o q)
    <2> DEFINE a == r \o q
    <2>1. /\ a \in Seq(Rows) /\ DOMAIN r = 1 .. Len(r) /\ Len(r) \in Nat
          /\ DOMAIN q = 1 .. Len(q) /\ Len(q) \in Nat
          /\ DOMAIN a = 1 .. (Len(r) + Len(q))
          /\ \A i \in DOMAIN r : a[i] = r[i]
          /\ \A i \in DOMAIN q : a[Len(r) + i] = q[i]  OBVIOUS
    <2> HIDE DEF a
    <2>2. \A i \in DOMAIN a : \/ i \in DOMAIN r /\ a[i] = r[i]
                              \/ i - Len(r) \in DOMAIN q /\ a[i] = q[i - Len(r)]
      <3> TAKE i \in DOMAIN a
      <3>1. CASE i \in DOMAIN r  BY <2>1, <3>1
      <3>2. CASE i \notin DOMAIN r
        <4>1. i \in Int /\ i > Len(r) /\ i <= Len(r) + Len(q)  BY <2>1, <3>2
        <4>2. i - Len(r) \in DOMAIN q /\ Len(r) + (i - Len(r)) = i  BY <2>1, <4>1
        <4> QED  BY <2>1, <4>2
      <3> QED  BY <3>1, <3>2
    <2>3. \A i \in DOMAIN r : i \in DOMAIN a  BY <2>1
    <2>4. \A i \in DOMAIN q : Len(r) + i \in DOMAIN a  BY <2>1
    <2>5. Of(a) \subseteq Of(r) \union Of(q)  BY <2>2 DEF Of
    <2>6. Of(r) \union Of(q) \subseteq Of(a)  BY <2>1, <2>3, <2>4 DEF Of
    <2>7. ASSUME Once(r), Once(q), Of(r) \intersect Of(q) = {} PROVE Once(a)
      <3> SUFFICES ASSUME NEW i \in DOMAIN a, NEW j \in DOMAIN a, a[i][1] = a[j][1]
                   PROVE  i = j
        BY DEF Once
      <3>1. i \in Int /\ j \in Int /\ Len(r) \in Int  BY <2>1
      <3>2. \A k \in DOMAIN r : r[k][1] \in Of(r)  BY DEF Of
      <3>3. \A k \in DOMAIN q : q[k][1] \in Of(q)  BY DEF Of
      <3>4. CASE i \in DOMAIN r /\ a[i] = r[i]
        BY <2>2, <2>7, <3>2, <3>3, <3>4 DEF Once
      <3>5. CASE i - Len(r) \in DOMAIN q /\ a[i] = q[i - Len(r)]
        <4>1. j - Len(r) \in DOMAIN q /\ a[j] = q[j - Len(r)]
          BY <2>2, <2>7, <3>2, <3>3, <3>5
        <4>2. i - Len(r) = j - Len(r)  BY <2>7, <3>5, <4>1 DEF Once
        <4> QED  BY <3>1, <4>2
      <3> QED  BY <2>2, <3>4, <3>5
    <2> QED  BY <2>1, <2>5, <2>6, <2>7 DEF a
  <1>4. \A r \in Seq(Rows) : Of(r) \subseteq Elements  BY DEF Of, Rows
  <1> QED  BY <1>1, <1>2, <1>3, <1>4

(* Rows keep their names.                                                  *)
LEMMA NamedRows ==
    /\ Named(<<>>)
    /\ \A r \in Seq(Rows), x \in Rows :
         (Named(r) /\ x[2] = table[x[1]]) => Named(Append(r, x))
    /\ \A r, q \in Seq(Rows) : (Named(r) /\ Named(q)) => Named(r \o q)
  <1>1. Named(<<>>)  BY DEF Named
  <1>2. ASSUME NEW r \in Seq(Rows), NEW x \in Rows, Named(r), x[2] = table[x[1]]
        PROVE  Named(Append(r, x))
    <2> DEFINE a == Append(r, x)
    <2>1. /\ DOMAIN r = 1 .. Len(r) /\ Len(r) \in Nat
          /\ DOMAIN a = 1 .. (Len(r) + 1)
          /\ a[Len(r) + 1] = x /\ \A i \in DOMAIN r : a[i] = r[i]  OBVIOUS
    <2> HIDE DEF a
    <2>2. Named(a)  BY <1>2, <2>1 DEF Named
    <2> QED  BY <2>2 DEF a
  <1>3. ASSUME NEW r \in Seq(Rows), NEW q \in Seq(Rows), Named(r), Named(q)
        PROVE  Named(r \o q)
    <2> SUFFICES ASSUME NEW i \in DOMAIN (r \o q)
                 PROVE  (r \o q)[i][2] = table[(r \o q)[i][1]]
      BY DEF Named
    <2>1. CASE i <= Len(r)
      <3>1. i \in DOMAIN r /\ (r \o q)[i] = r[i]  BY <2>1
      <3> QED  BY <1>3, <3>1 DEF Named
    <2>2. CASE i > Len(r)
      <3>1. i - Len(r) \in DOMAIN q /\ (r \o q)[i] = q[i - Len(r)]  BY <2>2
      <3> QED  BY <1>3, <3>1 DEF Named
    <2> QED  BY <2>1, <2>2
  <1> QED  BY <1>1, <1>2, <1>3

(* Copies are counted from the rows.                                       *)
LEMMA CopiesCounted ==
    ASSUME NEW d \in DBs, NEW e \in Elements, w.rows[d] \in Seq(Rows)
    PROVE  /\ Copies(d, e) \in Nat
           /\ e \notin Of(w.rows[d]) => Copies(d, e) = 0
           /\ e \in Of(w.rows[d]) => Copies(d, e) # 0
           /\ (e \in Of(w.rows[d]) /\ Once(w.rows[d])) => Copies(d, e) = 1
  <1> DEFINE r == w.rows[d]
             S == {i \in DOMAIN r : r[i][1] = e}
  <1>1. Copies(d, e) = Cardinality(S)  BY DEF Copies
  <1>2. r \in Seq(Rows) /\ DOMAIN r = 1 .. Len(r) /\ Len(r) \in Nat  OBVIOUS
  <1> HIDE DEF r
  <1>3. IsFiniteSet(S)
    <2>1. IsFiniteSet(1 .. Len(r))  BY <1>2, FS_Interval
    <2> QED  BY <1>2, <2>1, FS_Subset
  <1>4. e \notin Of(r) => S = {}  BY DEF Of
  <1>5. e \in Of(r) => S # {}  BY DEF Of
  <1>6. ASSUME e \in Of(r), Once(r) PROVE \E i : S = {i}
    <2>1. PICK i \in DOMAIN r : r[i][1] = e  BY <1>6 DEF Of
    <2> QED  BY <1>6, <2>1 DEF Once
  <1> HIDE DEF S
  <1>7. Cardinality(S) \in Nat /\ (Cardinality(S) = 0 <=> S = {})
    BY <1>3, FS_CardinalityType, FS_EmptySet
  <1>8. \A i : Cardinality({i}) = 1  BY FS_Singleton
  <1> QED  BY <1>1, <1>4, <1>5, <1>6, <1>7, <1>8 DEF r

-----------------------------------------------------------------------------
(* Calls.                                                                  *)

(* A connection or a lock has worked or failed: all else is as it was.     *)
Same(s, t) ==
    /\ t \in State
    /\ t.tx = s.tx /\ t.rows = s.rows /\ t.name = s.name /\ t.cur = s.cur
    /\ t.buf = s.buf /\ t.head = s.head /\ t.stale = s.stale
    /\ t.refused = s.refused /\ t.dead = s.dead

LEMMA SameDb ==
    ASSUME NEW s \in State, NEW d \in DBs
    PROVE  /\ Same(s, s)
           /\ Same(s, DbOk(s, d)) /\ Same(s, DbFail(s, d))
           /\ DbOk(s, d).fail[d] = FALSE /\ DbOk(s, d).conn[d] = TRUE
           /\ DbFail(s, d).fail[d] = TRUE /\ DbFail(s, d).conn[d] = FALSE
  <1>1. Same(s, s)  BY DEF Same
  <1>2. Same(s, DbOk(s, d)) /\ Same(s, DbFail(s, d))
    BY DEF Same, State, DbOk, DbFail
  <1>3. DbOk(s, d).fail[d] = FALSE /\ DbOk(s, d).conn[d] = TRUE
    BY DEF State, DbOk
  <1>4. DbFail(s, d).fail[d] = TRUE /\ DbFail(s, d).conn[d] = FALSE
    BY DEF State, DbFail
  <1> QED  BY <1>1, <1>2, <1>3, <1>4

LEMMA OtherDb ==
    ASSUME NEW s \in State, NEW d \in DBs, NEW x \in DBs, x # d
    PROVE  /\ DbOk(s, d).fail[x] = s.fail[x] /\ DbOk(s, d).conn[x] = s.conn[x]
           /\ DbFail(s, d).fail[x] = s.fail[x] /\ DbFail(s, d).conn[x] = s.conn[x]
  BY DEF State, DbOk, DbFail

LEMMA SameTrans ==
    ASSUME NEW s, NEW t, NEW u, Same(s, t), Same(t, u) PROVE Same(s, u)
  BY DEF Same

LEMMA SameHeld ==
    ASSUME NEW s, NEW t, Same(s, t)
    PROVE  Held(t) = Held(s) /\ Single(t) = Single(s)
  BY DEF Same, Held, Single

(* PG_Lock, PG_DB_Connect and their MySQL versions.                        *)
LEMMA SameOpened ==
    ASSUME NEW s \in State, NEW d \in DBs, NEW t,
           t \in Opened(s, d) \/ t \in Locked(s, d),
           NEW x \in DBs, x # d
    PROVE  /\ Same(s, t)
           /\ s.fail[d] => t.fail[d]
           /\ t.fail[x] = s.fail[x] /\ t.conn[x] = s.conn[x]
           /\ t \in Opened(s, d) => t.fail[d] \/ t.conn[d]
           /\ (t \in Locked(s, d) /\ ~t.fail[d]) => t.conn[d] = s.conn[d]
  <1>1. CASE t = s
    <2>1. t \in Opened(s, d) => s.fail[d] \/ s = DbOk(s, d) \/ s = DbFail(s, d)
      BY <1>1 DEF Opened
    <2> QED  BY ONLY <1>1, <2>1, SameDb, s \in State, d \in DBs, Zenon
  <1>2. CASE t = DbOk(s, d) /\ ~s.fail[d]
    <2>1. t \in Locked(s, d) => t = s \/ t = DbFail(s, d)  BY <1>2 DEF Locked
    <2>2. Same(s, t) /\ t.fail[d] = FALSE /\ t.conn[d] = TRUE
      BY <1>2, SameDb
    <2>3. t.fail[x] = s.fail[x] /\ t.conn[x] = s.conn[x]  BY <1>2, OtherDb
    <2>4. t # DbFail(s, d)
      <3>1. DbFail(s, d).fail[d] = TRUE  BY SameDb
      <3> QED  BY <2>2, <3>1
    <2> QED  BY ONLY <1>2, <2>1, <2>2, <2>3, <2>4, Zenon
  <1>3. CASE t = DbFail(s, d)
    <2>1. Same(s, t) /\ t.fail[d] = TRUE  BY <1>3, SameDb
    <2>2. t.fail[x] = s.fail[x] /\ t.conn[x] = s.conn[x]  BY <1>3, OtherDb
    <2> QED  BY ONLY <2>1, <2>2, Zenon
  <1> QED  BY <1>1, <1>2, <1>3 DEF Opened, Locked

(* The backup before an element is sent to it.                             *)
LEMMA SameReady ==
    ASSUME NEW s \in State, ~s.conn["b"], ~s.fail["b"],
           NEW r \in UNION {Locked(q, "b") : q \in Opened(s, "b")}
    PROVE  /\ Same(s, r) /\ r.fail["p"] = s.fail["p"] /\ r.conn["p"] = s.conn["p"]
           /\ r.fail["b"] \/ r.conn["b"]
  <1>1. PICK q \in Opened(s, "b") : r \in Locked(q, "b")  OBVIOUS
  <1>2. "b" \in DBs /\ "p" \in DBs /\ "p" # "b"  BY DEF DBs
  <1>3. /\ Same(s, q) /\ q.fail["p"] = s.fail["p"] /\ q.conn["p"] = s.conn["p"]
        /\ q.fail["b"] \/ q.conn["b"]
    BY <1>1, <1>2, SameOpened
  <1>4. q \in State  BY <1>3 DEF Same
  <1>5. /\ Same(q, r) /\ r.fail["p"] = q.fail["p"] /\ r.conn["p"] = q.conn["p"]
        /\ q.fail["b"] => r.fail["b"]
        /\ ~r.fail["b"] => r.conn["b"] = q.conn["b"]
    BY <1>1, <1>2, <1>4, SameOpened
  <1> QED  BY <1>3, <1>5, SameTrans

LEMMA RowType ==
    ASSUME NEW s \in State, NEW e \in Elements
    PROVE  Row(s, e) \in Rows /\ Row(s, e)[1] = e /\ Row(s, e)[2] = s.name
  BY DEF Row, Rows, State

(* One of the databases gets more rows, the buffer changes.                *)
Moves(s, u) ==
    /\ u \in State
    /\ u.name = s.name /\ u.tx = s.tx /\ u.fail = s.fail /\ u.conn = s.conn

(* A statement of several rows is taken, or refused with or without a      *)
(* rewind.                                                                 *)
FlushTaken(s, u, d) ==
    /\ Moves(s, u) /\ u.rows = [s.rows EXCEPT ![d] = @ \o s.buf] /\ u.buf = <<>>
    /\ u.cur = s.cur /\ u.head = s.head /\ u.stale = s.stale
    /\ u.refused = s.refused /\ u.dead = s.dead

FlushRefused(s, u, d) ==
    /\ Moves(s, u) /\ u.rows = s.rows /\ u.refused = TRUE
    /\ u.dead = s.dead /\ u.head = s.head
    /\ \/ cfg.backup /\ d = "p" /\ u.cur = s.cur /\ u.buf = s.buf /\ u.stale = s.stale
       \/ ~(cfg.backup /\ d = "p") /\ u.cur = s.head /\ u.buf = <<>> /\ u.stale = TRUE

LEMMA FlushOutcome ==
    ASSUME NEW s \in State, NEW d \in DBs, NEW o \in MyFlush(s, d)
    PROVE  \/ o.ok = TRUE /\ FlushTaken(s, o.s, d)
           \/ o.ok = FALSE /\ FlushRefused(s, o.s, d)
  <1> DEFINE a == [s EXCEPT !.rows[d] = @ \o s.buf, !.buf = <<>>]
             b == [Rewound(s, d) EXCEPT !.refused = TRUE]
  <1>1. CASE o = Works(a)
    <2>1. s.rows[d] \in Seq(Rows) /\ s.buf \in Seq(Rows) /\ <<>> \in Seq(Rows)
      BY DEF State
    <2>2. s.rows[d] \o s.buf \in Seq(Rows)  BY <2>1
    <2> DEFINE r == [s.rows EXCEPT ![d] = @ \o s.buf]
    <2>3. r \in [DBs -> Seq(Rows)]  BY <2>2 DEF State
    <2>4. a = [s EXCEPT !.rows = r, !.buf = <<>>]  BY DEF State
    <2> HIDE DEF a
    <2>5. FlushTaken(s, a, d)
      <3> HIDE DEF r
      <3>1. a \in State  BY <2>1, <2>3, <2>4 DEF State
      <3>2. Moves(s, a) /\ a.rows = r /\ a.buf = <<>>
        BY <2>4, <3>1 DEF Moves, State
      <3>3. /\ a.cur = s.cur /\ a.head = s.head /\ a.stale = s.stale
            /\ a.refused = s.refused /\ a.dead = s.dead
        BY <2>4 DEF State
      <3> QED  BY <3>2, <3>3 DEF r, FlushTaken
    <2> QED  BY <1>1, <2>5 DEF Works, a
  <1>2. CASE o = Fails(b)
    <2>1. FlushRefused(s, b, d)
      <3>1. CASE cfg.backup /\ d = "p"
        <4>1. b = [s EXCEPT !.refused = TRUE]  BY <3>1 DEF Rewound
        <4> HIDE DEF b
        <4>2. b \in State  BY <4>1 DEF State
        <4> QED  BY <3>1, <4>1, <4>2 DEF FlushRefused, Moves, State
      <3>2. CASE ~(cfg.backup /\ d = "p")
        <4>1. b = [s EXCEPT !.cur = s.head, !.buf = <<>>, !.stale = TRUE,
                            !.refused = TRUE]
          BY <3>2 DEF Rewound, State
        <4> HIDE DEF b
        <4>2. b \in State
          <5>1. <<>> \in Seq(Rows)  OBVIOUS
          <5> QED  BY <4>1, <5>1 DEF State
        <4> QED  BY <3>2, <4>1, <4>2 DEF FlushRefused, Moves, State
      <3> QED  BY <3>1, <3>2
    <2> QED  BY <1>2, <2>1 DEF Fails
  <1> QED  BY <1>1, <1>2 DEF MyFlush

(* An element becomes a row of the buffer.                                 *)
BufferedAs(s, u, e) ==
    /\ Moves(s, u) /\ u.rows = s.rows /\ u.buf = Append(s.buf, Row(s, e))
    /\ u.cur = s.cur /\ u.head = IF s.buf = <<>> THEN s.cur ELSE s.head
    /\ u.stale = s.stale /\ u.refused = s.refused /\ u.dead = s.dead

LEMMA BufferedOutcome ==
    ASSUME NEW s \in State, NEW e \in Elements
    PROVE  BufferedAs(s, Buffered(s, e), e)
  <1>1. Append(s.buf, Row(s, e)) \in Seq(Rows)
    BY RowType, OfRows DEF State
  <1>2. Buffered(s, e) \in State  BY <1>1 DEF Buffered, State
  <1> QED  BY <1>2 DEF BufferedAs, Buffered, Moves, State

(* An element is stored by a statement of its own.                         *)
StoredAs(s, u, d, e) ==
    /\ Moves(s, u) /\ u.rows = [s.rows EXCEPT ![d] = Append(@, Row(s, e))]
    /\ u.buf = s.buf /\ u.cur = s.cur /\ u.head = s.head
    /\ u.stale = s.stale /\ u.refused = s.refused /\ u.dead = s.dead

LEMMA StoredOutcome ==
    ASSUME NEW s \in State, NEW d \in DBs, NEW e \in Elements
    PROVE  StoredAs(s, [s EXCEPT !.rows[d] = Append(@, Row(s, e))], d, e)
  <1> DEFINE u == [s EXCEPT !.rows[d] = Append(@, Row(s, e))]
  <1>1. Append(s.rows[d], Row(s, e)) \in Seq(Rows)
    BY RowType, OfRows DEF State
  <1>2. u \in State  BY <1>1 DEF State
  <1> QED  BY <1>2 DEF StoredAs, Moves, State

(* What a state of the writer satisfies between two elements.              *)
Sound(s) ==
    /\ s \in State /\ Len(s.buf) <= MvRows
    /\ s.buf # <<>> => s.head < s.cur
    /\ s.stale => s.refused
    /\ ~cfg.multi => s.buf = <<>> /\ ~s.stale

(* Where the rows are after u has followed s, with element e in hand.      *)
Adds(s, u, e) ==
    /\ Held(u) \subseteq Held(s) \union {e}
    /\ (Single(s) /\ e \notin Held(s)) => Single(u)
    /\ (AllNamed(s) /\ s.name = table[e]) => AllNamed(u)
    /\ ~u.refused => Held(s) \subseteq Held(u)

(* The loop is rewound only for a refused statement of several rows.       *)
Place(s, u, d) ==
    /\ Len(u.buf) <= MvRows
    /\ u.buf # <<>> => u.head <= u.cur
    /\ u.stale => u.refused
    /\ s.refused => u.refused
    /\ s.dead => u.dead
    /\ ~cfg.multi => u.buf = <<>> /\ ~u.stale
    /\ \/ u.cur = s.cur /\ u.stale = s.stale
       \/ /\ u.cur = s.head /\ u.refused /\ u.stale /\ s.buf # <<>>
          /\ cfg.multi /\ ~(cfg.backup /\ d = "p")

LEMMA TypedFields ==
    ASSUME NEW s \in State
    PROVE  /\ s.rows["p"] \in Seq(Rows) /\ s.rows["b"] \in Seq(Rows)
           /\ s.buf \in Seq(Rows)
           /\ s.cur \in Nat \ {0} /\ s.head \in Nat \ {0} /\ Len(s.buf) \in Nat
           /\ s.fail \in [DBs -> BOOLEAN] /\ s.conn \in [DBs -> BOOLEAN]
           /\ s.rows \in [DBs -> Seq(Rows)] /\ s.tx \in [DBs -> Seq(Rows)]
           /\ s.name \in Tables
           /\ s.stale \in BOOLEAN /\ s.refused \in BOOLEAN /\ s.dead \in BOOLEAN
  <1>1. s.buf \in Seq(Rows)  BY DEF State
  <1>2. Len(s.buf) \in Nat  BY <1>1
  <1> QED  BY <1>1, <1>2 DEF State, DBs

LEMMA TakenAdds ==
    ASSUME NEW s \in State, NEW u, NEW d \in DBs, NEW e, FlushTaken(s, u, d)
    PROVE  Adds(s, u, e) /\ Held(u) = Held(s) /\ (Single(s) => Single(u))
           /\ (AllNamed(s) => AllNamed(u))
  <1> DEFINE p == s.rows["p"]
             b == s.rows["b"]
             f == s.buf
             x == u.rows["p"]
             y == u.rows["b"]
  <1>1. p \in Seq(Rows) /\ b \in Seq(Rows) /\ f \in Seq(Rows)  BY TypedFields
  <1>2. u.buf = <<>>  BY DEF FlushTaken
  <1>3. \/ d = "p" /\ x = p \o f /\ y = b
        \/ d = "b" /\ x = p /\ y = b \o f
    BY TypedFields DEF FlushTaken, DBs
  <1>4. /\ Held(s) = Of(p) \union Of(b) \union Of(f)
        /\ Held(u) = Of(x) \union Of(y) \union Of(<<>>)
        /\ Single(s) <=> /\ Once(p) /\ Once(b) /\ Once(f)
                         /\ Of(p) \intersect Of(b) = {} /\ Of(p) \intersect Of(f) = {}
                         /\ Of(b) \intersect Of(f) = {}
        /\ Single(u) <=> /\ Once(x) /\ Once(y) /\ Once(<<>>)
                         /\ Of(x) \intersect Of(y) = {} /\ Of(x) \intersect Of(<<>>) = {}
                         /\ Of(y) \intersect Of(<<>>) = {}
        /\ AllNamed(s) <=> Named(p) /\ Named(b) /\ Named(f)
        /\ AllNamed(u) <=> Named(x) /\ Named(y) /\ Named(<<>>)
    BY <1>2 DEF Held, Single, AllNamed
  <1> HIDE DEF p, b, f, x, y
  <1>5. Held(u) = Held(s)
    <2>1. Of(<<>>) = {}  BY OfRows
    <2>2. Of(p \o f) = Of(p) \union Of(f) /\ Of(b \o f) = Of(b) \union Of(f)
      BY <1>1, OfRows
    <2> QED  BY <1>3, <1>4, <2>1, <2>2
  <1>6. Single(s) => Single(u)
    <2>1. Of(<<>>) = {} /\ Once(<<>>)  BY OfRows
    <2>2. CASE d = "p" /\ x = p \o f /\ y = b
      <3>1. /\ Of(x) = Of(p) \union Of(f)
            /\ (Once(p) /\ Once(f) /\ Of(p) \intersect Of(f) = {}) => Once(x)
        BY <1>1, <2>2, OfRows
      <3> QED  BY <1>4, <2>1, <2>2, <3>1
    <2>3. CASE d = "b" /\ x = p /\ y = b \o f
      <3>1. /\ Of(y) = Of(b) \union Of(f)
            /\ (Once(b) /\ Once(f) /\ Of(b) \intersect Of(f) = {}) => Once(y)
        BY <1>1, <2>3, OfRows
      <3> QED  BY <1>4, <2>1, <2>3, <3>1
    <2> QED  BY <1>3, <2>2, <2>3
  <1>7. AllNamed(s) => AllNamed(u)
    <2>1. /\ Named(<<>>)
          /\ (Named(p) /\ Named(f)) => Named(p \o f)
          /\ (Named(b) /\ Named(f)) => Named(b \o f)
      BY <1>1, NamedRows
    <2> QED  BY <1>3, <1>4, <2>1
  <1> QED  BY <1>5, <1>6, <1>7 DEF Adds

LEMMA RefusedAdds ==
    ASSUME NEW s \in State, NEW u, NEW d \in DBs, NEW e, FlushRefused(s, u, d)
    PROVE  Adds(s, u, e) /\ Held(u) \subseteq Held(s) /\ (Single(s) => Single(u))
           /\ (AllNamed(s) => AllNamed(u))
  <1>1. u.rows = s.rows /\ u.refused /\ (u.buf = s.buf \/ u.buf = <<>>)
    BY DEF FlushRefused
  <1>2. Held(u) \subseteq Held(s)
    <2>1. Of(<<>>) = {}  BY OfRows
    <2> QED  BY <1>1, <2>1 DEF Held
  <1>3. Single(s) => Single(u)
    <2>1. CASE u.buf = s.buf  BY <1>1, <2>1 DEF Single
    <2>2. CASE u.buf = <<>>
      <3>1. Of(u.buf) = {} /\ Once(u.buf)  BY <2>2, OfRows
      <3> QED  BY <1>1, <3>1 DEF Single
    <2> QED  BY <1>1, <2>1, <2>2
  <1>4. AllNamed(s) => AllNamed(u)  BY <1>1, NamedRows DEF AllNamed
  <1> QED  BY <1>1, <1>2, <1>3, <1>4 DEF Adds

LEMMA BufferedAdds ==
    ASSUME NEW s \in State, NEW u, NEW e \in Elements, BufferedAs(s, u, e)
    PROVE  Adds(s, u, e) /\ e \in Held(u)
  <1> DEFINE p == s.rows["p"]
             b == s.rows["b"]
             f == s.buf
             g == u.buf
  <1>1. p \in Seq(Rows) /\ b \in Seq(Rows) /\ f \in Seq(Rows)  BY TypedFields
  <1>2. u.rows = s.rows /\ g = Append(f, Row(s, e))  BY DEF BufferedAs
  <1>3. Row(s, e) \in Rows /\ Row(s, e)[1] = e /\ Row(s, e)[2] = s.name  BY RowType
  <1>4. /\ Of(g) = Of(f) \union {e}
        /\ (Once(f) /\ e \notin Of(f)) => Once(g)
        /\ (Named(f) /\ s.name = table[e]) => Named(g)
    BY <1>1, <1>2, <1>3, OfRows, NamedRows
  <1>5. /\ Held(s) = Of(p) \union Of(b) \union Of(f)
        /\ Held(u) = Of(p) \union Of(b) \union Of(g)
        /\ Single(s) <=> /\ Once(p) /\ Once(b) /\ Once(f)
                         /\ Of(p) \intersect Of(b) = {} /\ Of(p) \intersect Of(f) = {}
                         /\ Of(b) \intersect Of(f) = {}
        /\ Single(u) <=> /\ Once(p) /\ Once(b) /\ Once(g)
                         /\ Of(p) \intersect Of(b) = {} /\ Of(p) \intersect Of(g) = {}
                         /\ Of(b) \intersect Of(g) = {}
        /\ AllNamed(s) <=> Named(p) /\ Named(b) /\ Named(f)
        /\ AllNamed(u) <=> Named(p) /\ Named(b) /\ Named(g)
    BY <1>2 DEF Held, Single, AllNamed
  <1> HIDE DEF p, b, f, g
  <1>6. Held(u) = Held(s) \union {e}  BY <1>4, <1>5
  <1>7. (Single(s) /\ e \notin Held(s)) => Single(u)  BY <1>4, <1>5
  <1>8. (AllNamed(s) /\ s.name = table[e]) => AllNamed(u)  BY <1>4, <1>5
  <1> QED  BY <1>6, <1>7, <1>8 DEF Adds

LEMMA StoredAdds ==
    ASSUME NEW s \in State, NEW u, NEW d \in DBs, NEW e \in Elements,
           StoredAs(s, u, d, e)
    PROVE  /\ Adds(s, u, e) /\ e \in Held(u)
           /\ Of(u.rows["p"]) = Of(s.rows["p"]) \union (IF d = "p" THEN {e} ELSE {})
  <1> DEFINE p == s.rows["p"]
             b == s.rows["b"]
             f == s.buf
             x == u.rows["p"]
             y == u.rows["b"]
             r == Row(s, e)
  <1>1. p \in Seq(Rows) /\ b \in Seq(Rows) /\ f \in Seq(Rows)  BY TypedFields
  <1>2. u.buf = f  BY DEF StoredAs
  <1>3. r \in Rows /\ r[1] = e /\ r[2] = s.name  BY RowType
  <1>4. \/ d = "p" /\ x = Append(p, r) /\ y = b
        \/ d = "b" /\ x = p /\ y = Append(b, r)
    BY TypedFields DEF StoredAs, DBs
  <1>5. /\ Held(s) = Of(p) \union Of(b) \union Of(f)
        /\ Held(u) = Of(x) \union Of(y) \union Of(f)
        /\ Single(s) <=> /\ Once(p) /\ Once(b) /\ Once(f)
                         /\ Of(p) \intersect Of(b) = {} /\ Of(p) \intersect Of(f) = {}
                         /\ Of(b) \intersect Of(f) = {}
        /\ Single(u) <=> /\ Once(x) /\ Once(y) /\ Once(f)
                         /\ Of(x) \intersect Of(y) = {} /\ Of(x) \intersect Of(f) = {}
                         /\ Of(y) \intersect Of(f) = {}
        /\ AllNamed(s) <=> Named(p) /\ Named(b) /\ Named(f)
        /\ AllNamed(u) <=> Named(x) /\ Named(y) /\ Named(f)
    BY <1>2 DEF Held, Single, AllNamed
  <1> HIDE DEF p, b, f, x, y, r
  <1>6. CASE d = "p" /\ x = Append(p, r) /\ y = b
    <2>1. /\ Of(x) = Of(p) \union {e}
          /\ (Once(p) /\ e \notin Of(p)) => Once(x)
          /\ (Named(p) /\ s.name = table[e]) => Named(x)
      BY <1>1, <1>3, <1>6, OfRows, NamedRows
    <2>2. Held(u) = Held(s) \union {e}  BY <1>5, <1>6, <2>1
    <2>3. (Single(s) /\ e \notin Held(s)) => Single(u)  BY <1>5, <1>6, <2>1
    <2>4. (AllNamed(s) /\ s.name = table[e]) => AllNamed(u)  BY <1>5, <1>6, <2>1
    <2> QED  BY <1>6, <2>1, <2>2, <2>3, <2>4 DEF Adds, x, p
  <1>7. CASE d = "b" /\ x = p /\ y = Append(b, r)
    <2>1. /\ Of(y) = Of(b) \union {e}
          /\ (Once(b) /\ e \notin Of(b)) => Once(y)
          /\ (Named(b) /\ s.name = table[e]) => Named(y)
      BY <1>1, <1>3, <1>7, OfRows, NamedRows
    <2>2. Held(u) = Held(s) \union {e}  BY <1>5, <1>7, <2>1
    <2>3. (Single(s) /\ e \notin Held(s)) => Single(u)  BY <1>5, <1>7, <2>1
    <2>4. (AllNamed(s) /\ s.name = table[e]) => AllNamed(u)  BY <1>5, <1>7, <2>1
    <2> QED  BY <1>7, <2>2, <2>3, <2>4 DEF Adds, x, p
  <1> QED  BY <1>4, <1>6, <1>7

(* What MY_cache_dbop does with one element.                               *)
OpDone(s, u, ok, d, e) ==
    /\ Moves(s, u) /\ Adds(s, u, e) /\ Place(s, u, d)
    /\ ok \in BOOLEAN
    /\ ok => e \in Held(u)
    /\ ~ok => u.refused \/ u.dead
    /\ s.stale => u.dead /\ u.rows = s.rows /\ u.buf = s.buf
    /\ ~cfg.multi => Of(u.rows["p"]) \subseteq
                       Of(s.rows["p"]) \union (IF d = "p" THEN {e} ELSE {})
    /\ ~(u.cur = s.cur /\ u.stale = s.stale) => ok = FALSE /\ (~s.dead => ~u.dead)

LEMMA OpOutcome ==
    ASSUME WriterAssumption, cfg \in Settings,
           NEW s, Sound(s), NEW d \in DBs, NEW e \in Elements,
           NEW o \in MyOp(s, d, e)
    PROVE  OpDone(s, o.s, o.ok, d, e)
  <1> DEFINE u == o.s
  <1>0. s \in State  BY DEF Sound
  <1>1. CASE ~cfg.multi
    <2>1. s.buf = <<>> /\ ~s.stale  BY <1>1 DEF Sound
    <2>2. CASE o = Works([s EXCEPT !.rows[d] = Append(@, Row(s, e))])
      <3>1. o.ok = TRUE /\ StoredAs(s, u, d, e)  BY <1>0, <2>2, StoredOutcome DEF Works
      <3> HIDE DEF u
      <3>2. /\ Adds(s, u, e) /\ e \in Held(u)
            /\ Of(u.rows["p"]) = Of(s.rows["p"]) \union (IF d = "p" THEN {e} ELSE {})
        BY <1>0, <3>1, StoredAdds
      <3>3. /\ Place(s, u, d) /\ Moves(s, u) /\ u.dead = s.dead
            /\ u.cur = s.cur /\ u.stale = s.stale
        BY <1>1, <2>1, <3>1 DEF StoredAs, Place, Sound
      <3> QED  BY <2>1, <3>1, <3>2, <3>3 DEF u, OpDone
    <2>3. CASE o = Fails([s EXCEPT !.refused = TRUE])
      <3>1. o.ok = FALSE /\ u = [s EXCEPT !.refused = TRUE]  BY <2>3 DEF Fails
      <3> HIDE DEF u
      <3>2. /\ Moves(s, u) /\ u.rows = s.rows /\ u.buf = s.buf /\ u.cur = s.cur
            /\ u.refused = TRUE /\ u.dead = s.dead /\ u.stale = s.stale
        BY <1>0, <3>1 DEF Moves, State
      <3>3. Adds(s, u, e)  BY <3>2 DEF Adds, Held, Single, AllNamed
      <3>4. Place(s, u, d)  BY <1>1, <2>1, <3>2 DEF Place, Sound
      <3> QED  BY <2>1, <3>1, <3>2, <3>3, <3>4 DEF u, OpDone
    <2> QED  BY <1>1, <2>2, <2>3 DEF MyOp
  <1>2. CASE cfg.multi /\ s.stale
    <2>1. o = Fails([s EXCEPT !.dead = TRUE])  BY <1>2 DEF MyOp
    <2>2. o.ok = FALSE /\ u = [s EXCEPT !.dead = TRUE]  BY <2>1 DEF Fails
    <2> HIDE DEF u
    <2>3. /\ Moves(s, u) /\ u.rows = s.rows /\ u.buf = s.buf /\ u.cur = s.cur
          /\ u.head = s.head
          /\ u.refused = s.refused /\ u.dead = TRUE /\ u.stale = s.stale
      BY <1>0, <2>2 DEF Moves, State
    <2>4. Adds(s, u, e)  BY <2>3 DEF Adds, Held, Single, AllNamed
    <2>5. Place(s, u, d)
      <3>1. s.buf # <<>> => s.head <= s.cur  BY <1>0, TypedFields DEF Sound
      <3> QED  BY <1>2, <2>3, <3>1 DEF Place, Sound
    <2> QED  BY <1>2, <2>2, <2>3, <2>4, <2>5 DEF u, OpDone
  <1>3. CASE cfg.multi /\ ~s.stale /\ Len(s.buf) < MvRows
    <2>1. o = Works(Buffered(s, e))  BY <1>3 DEF MyOp
    <2>2. o.ok = TRUE /\ BufferedAs(s, u, e)  BY <1>0, <2>1, BufferedOutcome DEF Works
    <2> HIDE DEF u
    <2>3. Adds(s, u, e) /\ e \in Held(u)  BY <1>0, <2>2, BufferedAdds
    <2>4. Place(s, u, d)
      <3>1. Len(u.buf) <= MvRows
        <4>1. s.buf \in Seq(Rows) /\ Row(s, e) \in Rows  BY <1>0, TypedFields, RowType
        <4>2. Len(Append(s.buf, Row(s, e))) = Len(s.buf) + 1  BY <4>1
        <4> QED  BY <1>0, <1>3, <2>2, <4>2, TypedFields DEF BufferedAs, WriterAssumption
      <3>2. u.head <= u.cur
        BY <1>0, <2>2, TypedFields DEF BufferedAs, Sound
      <3>3. u.cur = s.cur /\ u.stale = s.stale /\ u.refused = s.refused /\ u.dead = s.dead
        BY <2>2 DEF BufferedAs
      <3> QED  BY <1>3, <3>1, <3>2, <3>3 DEF Place, Sound
    <2>5. Moves(s, u) /\ u.dead = s.dead /\ u.cur = s.cur /\ u.stale = s.stale
      BY <2>2 DEF BufferedAs
    <2> QED  BY <1>3, <2>2, <2>3, <2>4, <2>5 DEF u, OpDone
  <1>4. CASE cfg.multi /\ ~s.stale /\ ~(Len(s.buf) < MvRows)
    <2>1. PICK f \in MyFlush(s, d) : o = IF f.ok THEN Works(Buffered(f.s, e)) ELSE f
      BY <1>4 DEF MyOp
    <2>2. \/ f.ok = TRUE /\ FlushTaken(s, f.s, d)
          \/ f.ok = FALSE /\ FlushRefused(s, f.s, d)
      BY <1>0, FlushOutcome
    <2>3. s.buf # <<>> /\ s.head < s.cur
      <3>1. Len(<<>>) = 0  OBVIOUS
      <3>2. Len(s.buf) # 0  BY <1>0, <1>4, TypedFields DEF WriterAssumption
      <3> QED  BY <3>1, <3>2 DEF Sound
    <2>4. CASE f.ok = TRUE /\ FlushTaken(s, f.s, d)
      <3> DEFINE t == f.s
      <3>1. t \in State  BY <2>4 DEF FlushTaken, Moves
      <3>2. o.ok = TRUE /\ BufferedAs(t, u, e)
        BY <2>1, <2>4, <3>1, BufferedOutcome DEF Works
      <3> HIDE DEF u, t
      <3>3. FlushTaken(s, t, d)  BY <2>4 DEF t
      <3>4. Held(t) = Held(s) /\ (Single(s) => Single(t)) /\ (AllNamed(s) => AllNamed(t))
        BY <1>0, <3>3, TakenAdds
      <3>5. Adds(t, u, e) /\ e \in Held(u)  BY <3>1, <3>2, BufferedAdds
      <3>6. t.name = s.name  BY <3>3 DEF FlushTaken, Moves
      <3>7. Adds(s, u, e)  BY <3>4, <3>5, <3>6 DEF Adds
      <3>8. Moves(s, u)  BY <3>2, <3>3 DEF FlushTaken, BufferedAs, Moves
      <3>9. /\ u.cur = s.cur /\ u.stale = s.stale /\ u.refused = s.refused
            /\ u.dead = s.dead /\ u.head = s.cur /\ u.buf = Append(<<>>, Row(t, e))
        BY <3>2, <3>3 DEF FlushTaken, BufferedAs
      <3>10. Place(s, u, d)
        <4>1. Len(Append(<<>>, Row(t, e))) = 1  OBVIOUS
        <4>2. Len(u.buf) <= MvRows  BY <3>9, <4>1 DEF WriterAssumption
        <4>3. u.head <= u.cur  BY <1>0, <3>9, TypedFields
        <4> QED  BY <1>4, <3>9, <4>2, <4>3 DEF Place, Sound
      <3> QED  BY <1>4, <3>2, <3>5, <3>7, <3>8, <3>9, <3>10 DEF u, OpDone
    <2>5. CASE f.ok = FALSE /\ FlushRefused(s, f.s, d)
      <3>1. o = f  BY <2>1, <2>5
      <3>2. o.ok = FALSE /\ FlushRefused(s, u, d)  BY <2>5, <3>1
      <3> HIDE DEF u
      <3>3. Adds(s, u, e)  BY <1>0, <3>2, RefusedAdds
      <3>4. Moves(s, u) /\ u.refused  BY <3>2 DEF FlushRefused
      <3>5. Place(s, u, d)
        <4>1. s.head <= s.cur /\ Len(<<>>) = 0 /\ 0 <= MvRows
          BY <1>0, <2>3, TypedFields DEF WriterAssumption
        <4>2. u.dead = s.dead /\ u.head = s.head  BY <3>2 DEF FlushRefused
        <4>3. CASE u.cur = s.cur /\ u.buf = s.buf /\ u.stale = s.stale
          BY <1>4, <3>4, <4>1, <4>2, <4>3 DEF Place, Sound
        <4>4. CASE /\ ~(cfg.backup /\ d = "p") /\ u.cur = s.head /\ u.buf = <<>>
                   /\ u.stale = TRUE
          BY <1>4, <2>3, <3>4, <4>1, <4>2, <4>4 DEF Place, Sound
        <4> QED  BY <3>2, <4>3, <4>4 DEF FlushRefused
      <3>6. u.dead = s.dead  BY <3>2 DEF FlushRefused
      <3> QED  BY <1>4, <3>2, <3>3, <3>4, <3>5, <3>6 DEF u, OpDone
    <2> QED  BY <2>2, <2>4, <2>5
  <1> QED  BY <1>1, <1>2, <1>3, <1>4

LEMMA SameSound ==
    ASSUME NEW s, NEW t, Same(s, t)
    PROVE  /\ Sound(s) => Sound(t)
           /\ AllNamed(t) = AllNamed(s)
           /\ \A u, e : Adds(t, u, e) => Adds(s, u, e)
           /\ \A u, e : Same(u, t) => (Adds(s, u, e) => Adds(s, t, e))
           /\ \A u, e : Adds(u, s, e) => Adds(u, t, e)
  <1>1. Held(t) = Held(s) /\ Single(t) = Single(s)  BY SameHeld
  <1>2. t.name = s.name /\ t.refused = s.refused /\ AllNamed(t) = AllNamed(s)
    BY DEF Same, AllNamed
  <1>3. Sound(s) => Sound(t)  BY DEF Same, Sound
  <1>4. \A u, e : Adds(t, u, e) => Adds(s, u, e)  BY <1>1, <1>2 DEF Adds
  <1>5. \A u, e : Adds(u, s, e) => Adds(u, t, e)  BY <1>1, <1>2 DEF Adds
  <1>6. ASSUME NEW u, NEW e, Same(u, t), Adds(s, u, e) PROVE Adds(s, t, e)
    <2>1. Held(t) = Held(u) /\ Single(t) = Single(u)  BY <1>6, SameHeld
    <2>2. t.refused = u.refused /\ AllNamed(t) = AllNamed(u)
      BY <1>6 DEF Same, AllNamed
    <2> QED  BY <1>6, <2>1, <2>2 DEF Adds
  <1> QED  BY <1>2, <1>3, <1>4, <1>5, <1>6

(* What sql_query does for MySQL with an element of the loop.              *)
MyQuery(s, t, e) ==
    /\ t \in State
    /\ t.name = s.name /\ t.tx = s.tx /\ t.fail["p"] = s.fail["p"]
    /\ s.fail["b"] => t.fail["b"]
    /\ Adds(s, t, e)
    /\ Len(t.buf) <= MvRows
    /\ t.buf # <<>> => t.head <= t.cur
    /\ t.stale => t.refused
    /\ s.refused => t.refused
    /\ s.dead => t.dead
    /\ ~cfg.multi => t.buf = <<>> /\ ~t.stale
    /\ s.stale => t.rows = s.rows /\ t.buf = s.buf
    /\ (s.stale /\ Committed(e) /\ ~s.fail["p"]) => t.dead
    /\ (Committed(e) /\ Good(t)) => e \in Held(t)
    /\ ~cfg.multi => Of(t.rows["p"]) \subseteq
                       Of(s.rows["p"]) \union (IF Committed(e) THEN {e} ELSE {})
    /\ \/ t.cur = s.cur /\ t.stale = s.stale
       \/ /\ t.cur = s.head /\ t.refused /\ t.stale /\ s.buf # <<>> /\ cfg.multi
          /\ IF cfg.backup THEN t.fail["b"] ELSE Committed(e) /\ ~s.fail["p"]

LEMMA MyQueryOutcome ==
    ASSUME WriterAssumption, cfg \in Settings, ~Pg,
           NEW s, Sound(s), ~s.dead, NEW e \in Elements,
           NEW o \in sql_query(s, e, FALSE)
    PROVE  MyQuery(s, o.s, e)
  <1>0. s \in State /\ "p" \in DBs /\ "b" \in DBs /\ "p" # "b"  BY DEF Sound, DBs
  <1>1. \A d, r : Op(r, d, e, FALSE) = MyOp(r, d, e)  BY DEF Op
  <1>2. CASE ~s.fail["p"] /\ Committed(e)
    <2>1. PICK q \in MyOp(s, "p", e) :
            o \in IF q.ok THEN {q} ELSE {Fails(r) : r \in ToBackup(q.s, e, FALSE)}
      BY <1>0, <1>1, <1>2 DEF sql_query
    <2> DEFINE u == q.s
    <2>2. OpDone(s, u, q.ok, "p", e)  BY <1>0, OpOutcome
    <2>3. o.s = u
      <3>1. CASE q.ok  BY <2>1, <3>1
      <3>2. CASE ~q.ok
        <4>1. PICK r \in ToBackup(u, e, FALSE) : o = Fails(r)  BY <2>1, <3>2
        <4>2. ~u.fail["p"] /\ valid[e] # "error"
          BY <1>2, <2>2 DEF OpDone, Moves, Committed
        <4>3. ToBackup(u, e, FALSE) = {u}  BY <4>2 DEF ToBackup
        <4> QED  BY <4>1, <4>3 DEF Fails
      <3> QED  BY <3>1, <3>2
    <2> HIDE DEF u
    <2>4. (Committed(e) /\ Good(u)) => e \in Held(u)  BY <2>2 DEF OpDone, Good
    <2>5. MyQuery(s, u, e)
      BY <1>0, <1>2, <2>2, <2>4 DEF MyQuery, OpDone, Moves, Place
    <2> QED  BY <2>3, <2>5
  <1>3. CASE ~(~s.fail["p"] /\ Committed(e))
    <2>1. PICK t \in ToBackup(s, e, FALSE) : o = Fails(t)
      <3>1. Fails(s).s = s /\ Fails(s).ok = FALSE  BY DEF Fails
      <3>2. o \in UNION {IF q.ok THEN {q} ELSE {Fails(r) : r \in ToBackup(q.s, e, FALSE)} :
                          q \in {Fails(s)}}
        BY <1>3 DEF sql_query
      <3>3. o \in {Fails(r) : r \in ToBackup(s, e, FALSE)}  BY <3>1, <3>2
      <3> QED  BY <3>3
    <2>2. o.s = t  BY <2>1 DEF Fails
    <2>3. Committed(e) => s.fail["p"]  BY <1>3
    <2> DEFINE Tried == /\ ~s.dead
                        /\ valid[e] = "error" \/ s.fail["p"]
                        /\ cfg.backup /\ ~s.fail["b"]
               Ready == IF s.conn["b"] THEN {s}
                        ELSE UNION {Locked(r, "b") : r \in Opened(s, "b")}
               After(r) == IF r.fail["b"] THEN {r}
                           ELSE {IF q.ok \/ q.s.dead THEN q.s ELSE DbFail(q.s, "b") :
                                   q \in MyOp(r, "b", e)}
    <2>4. CASE ~Tried
      <3>1. t = s  BY <2>4 DEF ToBackup
      <3>2. ~(Committed(e) /\ Good(s))  BY <2>3, <2>4 DEF Good
      <3>3. Adds(s, s, e)  BY DEF Adds
      <3>4. s.buf # <<>> => s.head <= s.cur  BY <1>0, TypedFields DEF Sound
      <3>5. MyQuery(s, s, e)
        BY <1>0, <2>3, <3>2, <3>3, <3>4 DEF MyQuery, Sound
      <3> QED  BY <2>2, <3>1, <3>5
    <2>5. CASE Tried
      <3>1. PICK r \in Ready : t \in After(r)
        BY <1>0, <1>1, <2>5 DEF ToBackup
      <3>2. Same(s, r) /\ r.fail["p"] = s.fail["p"]
        BY <1>0, <2>5, <3>1, SameDb, SameReady
      <3>3. Sound(r) /\ r \in State  BY <3>2, SameSound DEF Same
      <3>4. r.buf # <<>> => r.head <= r.cur  BY <3>3, TypedFields DEF Sound
      <3>5. CASE r.fail["b"]
        <4>1. t = r  BY <3>1, <3>5
        <4>2. Adds(s, s, e)  BY DEF Adds
        <4>3. Adds(s, r, e)  BY <3>2, <4>2, SameSound
        <4>4. Committed(e) => ~Good(r)  BY <2>3, <3>2, <3>5 DEF Good
        <4>5. MyQuery(s, r, e)
          BY <2>3, <3>2, <3>3, <3>4, <3>5, <4>3, <4>4 DEF MyQuery, Same, Sound
        <4> QED  BY <2>2, <4>1, <4>5
      <3>6. CASE ~r.fail["b"]
        <4>1. PICK q \in MyOp(r, "b", e) :
                t = IF q.ok \/ q.s.dead THEN q.s ELSE DbFail(q.s, "b")
          BY <3>1, <3>6
        <4> DEFINE u == q.s
        <4>2. OpDone(r, u, q.ok, "b", e)  BY <1>0, <3>3, OpOutcome
        <4>3. t = IF q.ok \/ u.dead THEN u ELSE DbFail(u, "b")  BY <4>1
        <4> HIDE DEF u
        <4>4. u \in State  BY <4>2 DEF OpDone, Moves
        <4>5. Same(u, t) /\ t.fail["p"] = u.fail["p"]
          <5>1. Same(u, u) /\ Same(u, DbFail(u, "b"))  BY <1>0, <4>4, SameDb
          <5>2. DbFail(u, "b").fail["p"] = u.fail["p"]  BY <1>0, <4>4, OtherDb
          <5> QED  BY <4>3, <5>1, <5>2
        <4>6. ~(q.ok \/ u.dead) => t.fail["b"]  BY <1>0, <4>3, <4>4, SameDb
        <4>7. Adds(s, u, e)  BY <3>2, <4>2, SameSound DEF OpDone
        <4>8. Adds(s, t, e)  BY <4>5, <4>7, SameSound
        <4>9. (Committed(e) /\ Good(t)) => e \in Held(t)
          <5>1. Held(t) = Held(u)  BY <4>5, SameHeld
          <5> QED  BY <4>2, <4>5, <4>6, <5>1 DEF OpDone, Good, Same
        <4>10. s.stale => t.rows = s.rows /\ t.buf = s.buf
          BY <3>2, <4>2, <4>5 DEF OpDone, Same
        <4>11. \/ t.cur = s.cur /\ t.stale = s.stale
               \/ /\ t.cur = s.head /\ t.refused /\ t.stale /\ s.buf # <<>> /\ cfg.multi
                  /\ t.fail["b"]
          <5>1. \/ u.cur = r.cur /\ u.stale = r.stale
                \/ /\ u.cur = r.head /\ u.refused /\ u.stale /\ r.buf # <<>>
                   /\ cfg.multi
            BY <4>2 DEF OpDone, Place
          <5>2. CASE u.cur = r.cur /\ u.stale = r.stale
            BY <3>2, <4>5, <5>2 DEF Same
          <5>3. CASE /\ ~(u.cur = r.cur /\ u.stale = r.stale)
                     /\ u.cur = r.head /\ u.refused /\ u.stale /\ r.buf # <<>>
                     /\ cfg.multi
            <6>1. ~r.dead  BY <3>2 DEF Same
            <6>2. ~q.ok /\ ~u.dead  BY <4>2, <5>3, <6>1 DEF OpDone
            <6> QED  BY <3>2, <4>5, <4>6, <5>3, <6>2 DEF Same
          <5> QED  BY <5>1, <5>2, <5>3
        <4>12. /\ t \in State /\ t.name = s.name /\ t.tx = s.tx
               /\ t.fail["p"] = s.fail["p"]
          BY <3>2, <4>2, <4>5 DEF OpDone, Same, Moves
        <4>13. /\ Len(t.buf) <= MvRows
               /\ t.buf # <<>> => t.head <= t.cur
               /\ t.stale => t.refused
               /\ s.refused => t.refused
               /\ s.dead => t.dead
               /\ ~cfg.multi => t.buf = <<>> /\ ~t.stale
          BY <3>2, <4>2, <4>5 DEF OpDone, Same, Place
        <4>14. ~cfg.multi => Of(t.rows["p"]) \subseteq
                              Of(s.rows["p"]) \union (IF Committed(e) THEN {e} ELSE {})
          BY <1>0, <3>2, <4>2, <4>5 DEF OpDone, Same
        <4>15. MyQuery(s, t, e)
          BY <2>3, <2>5, <4>8, <4>9, <4>10, <4>11, <4>12, <4>13, <4>14 DEF MyQuery
        <4> QED  BY <2>2, <4>15
      <3> QED  BY <3>5, <3>6
    <2> QED  BY <2>4, <2>5
  <1> QED  BY <1>2, <1>3

(* What sql_query does for MySQL with the rest of the buffer.              *)
MyWrap(s, t) ==
    /\ t \in State
    /\ t.name = s.name /\ t.tx = s.tx /\ t.fail["p"] = s.fail["p"]
    /\ s.fail["b"] => t.fail["b"]
    /\ Held(t) \subseteq Held(s)
    /\ Single(s) => Single(t)
    /\ AllNamed(s) => AllNamed(t)
    /\ Len(t.buf) <= MvRows
    /\ t.stale => t.refused
    /\ s.refused => t.refused
    /\ t.dead = s.dead
    /\ Good(t) => t.buf = <<>> /\ Held(s) \subseteq Held(t)

LEMMA SameWrap ==
    ASSUME NEW s \in State, NEW r \in State, NEW u \in State, NEW t \in State,
           Same(s, r), r.fail["p"] = s.fail["p"], s.fail["b"] => r.fail["b"],
           MyWrap(r, u),
           Same(u, t), t.fail["p"] = u.fail["p"], u.fail["b"] => t.fail["b"]
    PROVE  MyWrap(s, t)
  <1>1. Held(r) = Held(s) /\ Single(r) = Single(s) /\ AllNamed(r) = AllNamed(s)
    BY SameHeld DEF Same, AllNamed
  <1>2. Held(t) = Held(u) /\ Single(t) = Single(u) /\ AllNamed(t) = AllNamed(u)
    BY SameHeld DEF Same, AllNamed
  <1>3. Good(t) => Good(u)  BY DEF Good, Same
  <1>4. Good(t) => t.buf = <<>> /\ Held(s) \subseteq Held(t)
    BY <1>1, <1>2, <1>3 DEF MyWrap, Same
  <1>5. t.name = s.name /\ t.tx = s.tx /\ t.fail["p"] = s.fail["p"] /\ t.dead = s.dead
    BY DEF MyWrap, Same
  <1>6. /\ Len(t.buf) <= MvRows /\ (t.stale => t.refused) /\ (s.refused => t.refused)
        /\ s.fail["b"] => t.fail["b"]
    BY DEF MyWrap, Same
  <1>7. /\ Held(t) \subseteq Held(s) /\ (Single(s) => Single(t))
        /\ AllNamed(s) => AllNamed(t)
    BY <1>1, <1>2 DEF MyWrap
  <1> QED  BY <1>4, <1>5, <1>6, <1>7 DEF MyWrap

LEMMA FlushWraps ==
    ASSUME WriterAssumption, NEW s \in State, NEW d \in DBs, NEW q \in MyFlush(s, d),
           Len(s.buf) <= MvRows, s.stale => s.refused
    PROVE  /\ MyWrap(s, q.s) /\ q.s \in State
           /\ q.ok \in BOOLEAN /\ (~q.ok => q.s.refused) /\ q.s.fail = s.fail
  <1> DEFINE u == q.s
  <1>1. \/ q.ok = TRUE /\ FlushTaken(s, u, d)
        \/ q.ok = FALSE /\ FlushRefused(s, u, d)
    BY FlushOutcome
  <1> HIDE DEF u
  <1>2. Len(<<>>) = 0 /\ 0 <= MvRows  BY DEF WriterAssumption
  <1>3. CASE q.ok = TRUE /\ FlushTaken(s, u, d)
    <2>1. Held(u) = Held(s) /\ (Single(s) => Single(u)) /\ (AllNamed(s) => AllNamed(u))
      BY <1>3, TakenAdds
    <2>2. MyWrap(s, u)  BY <1>2, <1>3, <2>1 DEF FlushTaken, Moves, MyWrap
    <2> QED  BY <1>3, <2>2 DEF FlushTaken, Moves, u
  <1>4. CASE q.ok = FALSE /\ FlushRefused(s, u, d)
    <2>1. /\ Held(u) \subseteq Held(s) /\ (Single(s) => Single(u))
          /\ AllNamed(s) => AllNamed(u)
      BY <1>4, RefusedAdds
    <2>2. u.refused /\ ~Good(u)  BY <1>4 DEF FlushRefused, Good
    <2>3. Len(u.buf) <= MvRows /\ u.dead = s.dead  BY <1>2, <1>4 DEF FlushRefused
    <2>4. Moves(s, u)  BY <1>4 DEF FlushRefused
    <2>5. MyWrap(s, u)  BY <2>1, <2>2, <2>3, <2>4 DEF Moves, MyWrap
    <2> QED  BY <1>4, <2>2, <2>4, <2>5 DEF Moves, u
  <1> QED  BY <1>1, <1>3, <1>4

LEMMA MyWrapOutcome ==
    ASSUME WriterAssumption, ~Pg, NEW s \in State,
           Len(s.buf) <= MvRows, s.stale => s.refused,
           NEW e \in Elements, Committed(e),
           NEW o \in sql_query(s, e, TRUE)
    PROVE  MyWrap(s, o.s)
  <1>0. "p" \in DBs /\ "b" \in DBs /\ "p" # "b"  BY DEF DBs
  <1>1. \A r, d : Op(r, d, e, TRUE) = MyFlush(r, d)  BY DEF Op
  <1>2. Same(s, s)  BY <1>0, SameDb
  <1>3. CASE ~s.fail["p"]
    <2>1. PICK q \in MyFlush(s, "p") :
            o \in IF q.ok THEN {q} ELSE {Fails(r) : r \in ToBackup(q.s, e, TRUE)}
      BY <1>1, <1>3 DEF sql_query
    <2>2. MyWrap(s, q.s) /\ q.s.fail = s.fail /\ q.ok \in BOOLEAN  BY <1>0, FlushWraps
    <2>3. CASE q.ok  BY <2>1, <2>2, <2>3
    <2>4. CASE ~q.ok
      <3>1. PICK r \in ToBackup(q.s, e, TRUE) : o = Fails(r)  BY <2>1, <2>4
      <3>2. ~q.s.fail["p"] /\ valid[e] # "error"  BY <1>3, <2>2 DEF Committed
      <3>3. r = q.s  BY <3>1, <3>2 DEF ToBackup
      <3> QED  BY <2>2, <3>1, <3>3 DEF Fails
    <2> QED  BY <2>3, <2>4
  <1>4. CASE s.fail["p"]
    <2>1. PICK t \in ToBackup(s, e, TRUE) : o = Fails(t)
      <3>1. Fails(s).s = s /\ Fails(s).ok = FALSE  BY DEF Fails
      <3>2. o \in UNION {IF q.ok THEN {q} ELSE {Fails(r) : r \in ToBackup(q.s, e, TRUE)} :
                          q \in {Fails(s)}}
        BY <1>4 DEF sql_query
      <3>3. o \in {Fails(r) : r \in ToBackup(s, e, TRUE)}  BY <3>1, <3>2
      <3> QED  BY <3>3
    <2>2. o.s = t  BY <2>1 DEF Fails
    <2> DEFINE Tried == ~s.dead /\ cfg.backup /\ ~s.fail["b"]
               Ready == IF s.conn["b"] THEN {s}
                        ELSE UNION {Locked(r, "b") : r \in Opened(s, "b")}
               After(r) == IF r.fail["b"] THEN {r}
                           ELSE {IF q.ok \/ q.s.dead THEN q.s ELSE DbFail(q.s, "b") :
                                   q \in MyFlush(r, "b")}
    <2>3. CASE ~Tried
      <3>1. t = s  BY <1>4, <2>3 DEF ToBackup
      <3>2. ~Good(s)  BY <1>4, <2>3 DEF Good
      <3>3. MyWrap(s, s)  BY <3>2 DEF MyWrap
      <3> QED  BY <2>2, <3>1, <3>3
    <2>4. CASE Tried
      <3>1. PICK r \in Ready : t \in After(r)
        BY <1>1, <1>4, <2>4 DEF ToBackup
      <3>2. Same(s, r) /\ r.fail["p"] = s.fail["p"] /\ (s.fail["b"] => r.fail["b"])
        BY <1>2, <2>4, <3>1, SameReady
      <3> HIDE DEF Ready
      <3>3. r \in State /\ Len(r.buf) <= MvRows /\ (r.stale => r.refused)
        BY <3>2 DEF Same
      <3>4. CASE r.fail["b"]
        <4>1. t = r  BY <3>1, <3>4
        <4>2. ~Good(r)  BY <1>4, <3>2, <3>4 DEF Good
        <4>3. MyWrap(r, r)  BY <3>3, <4>2 DEF MyWrap
        <4>4. Same(r, r)  BY <1>0, <3>3, SameDb
        <4>5. MyWrap(s, r)  BY <3>2, <3>3, <4>3, <4>4, SameWrap
        <4> QED  BY <2>2, <4>1, <4>5
      <3>5. CASE ~r.fail["b"]
        <4>1. PICK q \in MyFlush(r, "b") :
                t = IF q.ok \/ q.s.dead THEN q.s ELSE DbFail(q.s, "b")
          BY <3>1, <3>5
        <4>2. MyWrap(r, q.s) /\ q.s \in State  BY <1>0, <3>3, FlushWraps
        <4>3. /\ Same(q.s, t) /\ t.fail["p"] = q.s.fail["p"]
              /\ q.s.fail["b"] => t.fail["b"]
          <5>1. Same(q.s, q.s) /\ Same(q.s, DbFail(q.s, "b"))  BY <1>0, <4>2, SameDb
          <5>2. DbFail(q.s, "b").fail["p"] = q.s.fail["p"]  BY <1>0, <4>2, OtherDb
          <5>3. DbFail(q.s, "b").fail["b"] = TRUE  BY <1>0, <4>2, SameDb
          <5> QED  BY <4>1, <5>1, <5>2, <5>3
        <4>4. t \in State  BY <4>3 DEF Same
        <4>5. MyWrap(s, t)  BY <3>2, <3>3, <4>2, <4>3, <4>4, SameWrap
        <4> QED  BY <2>2, <4>5
      <3> QED  BY <3>4, <3>5
    <2> QED  BY <2>3, <2>4
  <1> QED  BY <1>3, <1>4

(* What sql_query does for PostgreSQL with a committed element.            *)
PgQuery(s, t, ok, e) ==
    /\ t \in State
    /\ t.rows = s.rows /\ t.name = s.name /\ t.cur = s.cur /\ t.buf = s.buf
    /\ t.head = s.head /\ t.stale = s.stale /\ t.refused = s.refused /\ t.dead = s.dead
    /\ ok => /\ ~s.fail["p"] /\ t.fail = s.fail /\ t.conn = s.conn
             /\ t.tx["p"] = Append(s.tx["p"], Row(s, e)) /\ t.tx["b"] = s.tx["b"]
    /\ ~ok => /\ t.fail["p"] /\ t.tx["p"] = s.tx["p"]
              /\ s.fail["b"] => t.fail["b"]
              /\ t.tx["b"] = s.tx["b"] \/ t.tx["b"] = Append(s.tx["b"], Row(s, e))
              /\ (cfg.backup /\ ~t.fail["b"])
                   => t.conn["b"] /\ t.tx["b"] = Append(s.tx["b"], Row(s, e))
              /\ ~cfg.backup => /\ t.fail["b"] = s.fail["b"] /\ t.conn["b"] = s.conn["b"]
                                /\ t.tx["b"] = s.tx["b"]

(* PG_cache_dbop.                                                          *)
InTx(s, u, d, e) ==
    /\ u \in State
    /\ u.tx = [s.tx EXCEPT ![d] = Append(@, Row(s, e))]
    /\ u.rows = s.rows /\ u.name = s.name /\ u.cur = s.cur /\ u.buf = s.buf
    /\ u.head = s.head /\ u.stale = s.stale /\ u.refused = s.refused /\ u.dead = s.dead
    /\ u.fail = s.fail /\ u.conn = s.conn

LEMMA PgOpOutcome ==
    ASSUME NEW s \in State, NEW d \in DBs, NEW e \in Elements, NEW q \in PgOp(s, d, e)
    PROVE  \/ q.ok = TRUE /\ InTx(s, q.s, d, e)
           \/ q.ok = FALSE /\ q.s = DbFail(s, d)
  <1> DEFINE u == [s EXCEPT !.tx[d] = Append(@, Row(s, e))]
             x == [s.tx EXCEPT ![d] = Append(@, Row(s, e))]
  <1>1. Append(s.tx[d], Row(s, e)) \in Seq(Rows)  BY RowType, OfRows DEF State
  <1>2. x \in [DBs -> Seq(Rows)]  BY <1>1 DEF State
  <1>3. u = [s EXCEPT !.tx = x]  BY DEF State
  <1>4. InTx(s, u, d, e)
    <2> HIDE DEF u, x
    <2>1. u \in State  BY <1>2, <1>3 DEF State
    <2>2. u.tx = x /\ u.rows = s.rows /\ u.name = s.name /\ u.cur = s.cur /\ u.buf = s.buf
      BY <1>3 DEF State
    <2>3. /\ u.head = s.head /\ u.stale = s.stale /\ u.refused = s.refused
          /\ u.dead = s.dead /\ u.fail = s.fail /\ u.conn = s.conn
      BY <1>3 DEF State
    <2> QED  BY <2>1, <2>2, <2>3 DEF InTx, x
  <1> HIDE DEF u
  <1>5. q = Works(u) \/ q = Fails(DbFail(s, d))  BY DEF PgOp, u
  <1> QED  BY <1>4, <1>5 DEF Works, Fails

(* The part of sql_query about the backup, for a failed primary.           *)
LEMMA PgToBackup ==
    ASSUME cfg \in Settings, Pg, NEW s \in State, ~s.dead, s.fail["p"],
           NEW e \in Elements, NEW t \in ToBackup(s, e, FALSE)
    PROVE  PgQuery(s, t, FALSE, e)
  <1>0. "p" \in DBs /\ "b" \in DBs /\ "p" # "b"  BY DEF DBs
  <1>1. \A r, d : Op(r, d, e, FALSE) = PgOp(r, d, e)  BY DEF Op
  <1> DEFINE Tried == cfg.backup /\ ~s.fail["b"]
             Ready == IF s.conn["b"] THEN {s}
                      ELSE UNION {Locked(r, "b") : r \in Opened(s, "b")}
             After(r) == IF r.fail["b"] THEN {r}
                         ELSE {IF q.ok \/ q.s.dead THEN q.s ELSE DbFail(q.s, "b") :
                                 q \in PgOp(r, "b", e)}
  <1>2. CASE ~Tried
    <2>1. t = s  BY <1>2 DEF ToBackup
    <2> QED  BY <1>2, <2>1 DEF PgQuery
  <1>3. CASE Tried
    <2>1. PICK r \in Ready : t \in After(r)
      BY <1>1, <1>3 DEF ToBackup
    <2>2. /\ Same(s, r) /\ r.fail["p"] = s.fail["p"]
          /\ r.fail["b"] \/ r.conn["b"]
      BY <1>0, <1>3, <2>1, SameReady, SameDb
    <2> HIDE DEF Ready
    <2>3. r \in State  BY <2>2 DEF Same
    <2>4. CASE r.fail["b"]
      <3>1. t = r  BY <2>1, <2>4
      <3> QED  BY <1>3, <2>2, <2>4, <3>1 DEF Same, PgQuery
    <2>5. CASE ~r.fail["b"]
      <3>1. PICK q \in PgOp(r, "b", e) :
              t = IF q.ok \/ q.s.dead THEN q.s ELSE DbFail(q.s, "b")
        BY <2>1, <2>5
      <3>2. \/ q.ok = TRUE /\ InTx(r, q.s, "b", e)
            \/ q.ok = FALSE /\ q.s = DbFail(r, "b")
        BY <1>0, <2>3, PgOpOutcome
      <3>3. CASE q.ok = TRUE /\ InTx(r, q.s, "b", e)
        <4>1. t = q.s  BY <3>1, <3>3
        <4>2. InTx(r, t, "b", e)  BY <3>3, <4>1
        <4>3. Row(r, e) = Row(s, e)  BY <2>2 DEF Row, Same
        <4>4. /\ t.tx["b"] = Append(r.tx["b"], Row(r, e)) /\ t.tx["p"] = r.tx["p"]
          BY <1>0, <2>3, <4>2, TypedFields DEF InTx
        <4>5. t.conn["b"] /\ t.fail["p"] /\ t \in State
          BY <2>2, <2>5, <4>2 DEF InTx
        <4> QED  BY <1>3, <2>2, <4>2, <4>3, <4>4, <4>5 DEF InTx, PgQuery, Same
      <3>4. CASE q.ok = FALSE /\ q.s = DbFail(r, "b")
        <4> DEFINE u == DbFail(r, "b")
        <4>1. /\ Same(r, u) /\ u.fail["b"] = TRUE /\ u.fail["p"] = r.fail["p"]
          <5>1. Same(r, u) /\ u.fail["b"] = TRUE  BY <1>0, <2>3, SameDb
          <5>2. u.fail["p"] = r.fail["p"]  BY <1>0, <2>3, OtherDb
          <5> QED  BY <5>1, <5>2
        <4>2. t = u \/ t = DbFail(u, "b")  BY <3>1, <3>4
        <4> HIDE DEF u
        <4>3. u \in State  BY <4>1 DEF Same
        <4>4. Same(u, t) /\ t.fail["b"] = TRUE /\ t.fail["p"] = u.fail["p"]
          <5>1. /\ Same(u, u) /\ Same(u, DbFail(u, "b"))
                /\ DbFail(u, "b").fail["b"] = TRUE
            BY <1>0, <4>3, SameDb
          <5>2. DbFail(u, "b").fail["p"] = u.fail["p"]  BY <1>0, <4>3, OtherDb
          <5> QED  BY <4>1, <4>2, <5>1, <5>2
        <4>5. Same(s, t)  BY <2>2, <4>1, <4>4, SameTrans
        <4>6. t.fail["p"]  BY <2>2, <4>1, <4>4
        <4> QED  BY <1>3, <4>4, <4>5, <4>6 DEF Same, PgQuery
      <3> QED  BY <3>2, <3>3, <3>4
    <2> QED  BY <2>4, <2>5
  <1> QED  BY <1>2, <1>3

LEMMA PgQueryOutcome ==
    ASSUME cfg \in Settings, Pg, NEW s \in State, ~s.dead,
           NEW e \in Elements, Committed(e), NEW o \in sql_query(s, e, FALSE)
    PROVE  PgQuery(s, o.s, o.ok, e) /\ o.ok \in BOOLEAN
  <1>0. "p" \in DBs /\ "b" \in DBs /\ "p" # "b"  BY DEF DBs
  <1>1. \A r, d : Op(r, d, e, FALSE) = PgOp(r, d, e)  BY DEF Op
  <1>2. CASE ~s.fail["p"]
    <2>1. PICK q \in PgOp(s, "p", e) :
            o \in IF q.ok THEN {q} ELSE {Fails(r) : r \in ToBackup(q.s, e, FALSE)}
      BY <1>1, <1>2 DEF sql_query
    <2>2. \/ q.ok = TRUE /\ InTx(s, q.s, "p", e)
          \/ q.ok = FALSE /\ q.s = DbFail(s, "p")
      BY <1>0, PgOpOutcome
    <2>3. CASE q.ok = TRUE /\ InTx(s, q.s, "p", e)
      <3>1. o = q  BY <2>1, <2>3
      <3> DEFINE t == o.s
      <3>2. InTx(s, t, "p", e) /\ o.ok = TRUE  BY <2>3, <3>1
      <3> HIDE DEF t
      <3>3. t.tx["p"] = Append(s.tx["p"], Row(s, e)) /\ t.tx["b"] = s.tx["b"]
        BY <1>0, <3>2, TypedFields DEF InTx
      <3>4. PgQuery(s, t, TRUE, e)  BY <1>2, <3>2, <3>3 DEF InTx, PgQuery
      <3> QED  BY <3>2, <3>4 DEF t
    <2>4. CASE q.ok = FALSE /\ q.s = DbFail(s, "p")
      <3> DEFINE u == DbFail(s, "p")
      <3>1. PICK t \in ToBackup(u, e, FALSE) : o = Fails(t)  BY <2>1, <2>4
      <3>2. /\ Same(s, u) /\ u.fail["p"] = TRUE
            /\ u.fail["b"] = s.fail["b"] /\ u.conn["b"] = s.conn["b"]
        <4>1. Same(s, u) /\ u.fail["p"] = TRUE  BY <1>0, SameDb
        <4>2. u.fail["b"] = s.fail["b"] /\ u.conn["b"] = s.conn["b"]  BY <1>0, OtherDb
        <4> QED  BY <4>1, <4>2
      <3> HIDE DEF u
      <3>3. u \in State /\ ~u.dead  BY <3>2 DEF Same
      <3>4. PgQuery(u, t, FALSE, e)  BY <3>2, <3>3, PgToBackup
      <3>5. Row(u, e) = Row(s, e)  BY <3>2 DEF Same, Row
      <3>6. PgQuery(s, t, FALSE, e)  BY <3>2, <3>4, <3>5 DEF PgQuery, Same
      <3> QED  BY <3>1, <3>6 DEF Fails
    <2> QED  BY <2>2, <2>3, <2>4
  <1>3. CASE s.fail["p"]
    <2>1. PICK t \in ToBackup(s, e, FALSE) : o = Fails(t)
      <3>1. Fails(s).s = s /\ Fails(s).ok = FALSE  BY DEF Fails
      <3>2. o \in UNION {IF q.ok THEN {q} ELSE {Fails(r) : r \in ToBackup(q.s, e, FALSE)} :
                          q \in {Fails(s)}}
        BY <1>3 DEF sql_query
      <3>3. o \in {Fails(r) : r \in ToBackup(s, e, FALSE)}  BY <3>1, <3>2
      <3> QED  BY <3>3
    <2>2. PgQuery(s, t, FALSE, e)  BY <1>3, PgToBackup
    <2> QED  BY <2>1, <2>2 DEF Fails
  <1> QED  BY <1>2, <1>3

-----------------------------------------------------------------------------
(* The queue.                                                              *)

LEMMA MembersSeq ==
    /\ Members(<<>>) = {} /\ Distinct(<<>>) /\ Len(<<>>) = 0
    /\ \A q \in Seq(Elements), e \in Elements :
         /\ Append(q, e) \in Seq(Elements) /\ Len(Append(q, e)) = Len(q) + 1
         /\ Members(Append(q, e)) = Members(q) \union {e}
         /\ (Distinct(q) /\ e \notin Members(q)) => Distinct(Append(q, e))
  <1>1. Members(<<>>) = {} /\ Distinct(<<>>) /\ Len(<<>>) = 0  BY DEF Members, Distinct
  <1>2. ASSUME NEW q \in Seq(Elements), NEW e \in Elements
        PROVE  /\ Append(q, e) \in Seq(Elements) /\ Len(Append(q, e)) = Len(q) + 1
               /\ Members(Append(q, e)) = Members(q) \union {e}
               /\ (Distinct(q) /\ e \notin Members(q)) => Distinct(Append(q, e))
    <2> DEFINE a == Append(q, e)
    <2>1. /\ a \in Seq(Elements) /\ Len(a) = Len(q) + 1
          /\ DOMAIN q = 1 .. Len(q) /\ Len(q) \in Nat
          /\ DOMAIN a = 1 .. (Len(q) + 1)
          /\ a[Len(q) + 1] = e /\ \A i \in DOMAIN q : a[i] = q[i]  OBVIOUS
    <2> HIDE DEF a
    <2>2. Members(a) = Members(q) \union {e}  BY <2>1 DEF Members
    <2>3. (Distinct(q) /\ e \notin Members(q)) => Distinct(a)
      BY <2>1 DEF Members, Distinct
    <2> QED  BY <2>1, <2>2, <2>3 DEF a
  <1> QED  BY <1>1, <1>2

LEMMA AheadStep ==
    ASSUME NEW q \in Seq(Elements), NEW c \in 1 .. Len(q)
    PROVE  /\ q[c] \in Elements
           /\ Ahead(q, "loop", c) = {q[c]} \union Ahead(q, "loop", c + 1)
           /\ Distinct(q) => q[c] \notin Ahead(q, "loop", c + 1)
  <1>1. Len(q) \in Nat /\ DOMAIN q = 1 .. Len(q) /\ q[c] \in Elements  OBVIOUS
  <1>2. /\ Ahead(q, "loop", c) = {q[i] : i \in c .. Len(q)}
        /\ Ahead(q, "loop", c + 1) = {q[i] : i \in (c + 1) .. Len(q)}
    BY DEF Ahead
  <1>3. c .. Len(q) = {c} \union ((c + 1) .. Len(q))  BY <1>1
  <1>4. Distinct(q) => q[c] \notin Ahead(q, "loop", c + 1)
    <2> SUFFICES ASSUME Distinct(q), NEW i \in (c + 1) .. Len(q), q[i] = q[c] PROVE FALSE
      BY <1>2
    <2>1. i \in DOMAIN q /\ c \in DOMAIN q /\ i # c  BY <1>1
    <2> QED  BY <2>1 DEF Distinct
  <1> QED  BY <1>1, <1>2, <1>3, <1>4

LEMMA AheadEnds ==
    ASSUME NEW q \in Seq(Elements), NEW c \in Nat
    PROVE  /\ c > Len(q) => Ahead(q, "loop", c) = {}
           /\ Ahead(q, "wrapup", c) = {} /\ Ahead(q, "end", c) = {}
           /\ Ahead(q, "done", c) = {}
           /\ Ahead(q, "connect", c) = Members(q) /\ Ahead(q, "start", c) = Members(q)
           /\ Ahead(q, "loop", 1) = Members(q)
  <1>1. Len(q) \in Nat /\ DOMAIN q = 1 .. Len(q)  OBVIOUS
  <1>2. c > Len(q) => Ahead(q, "loop", c) = {}
    <2>1. c > Len(q) => c .. Len(q) = {}  BY <1>1
    <2>2. Ahead(q, "loop", c) = {q[i] : i \in c .. Len(q)}  BY DEF Ahead
    <2> QED  BY <2>1, <2>2
  <1>3. /\ Ahead(q, "wrapup", c) = {} /\ Ahead(q, "end", c) = {}
        /\ Ahead(q, "done", c) = {}
    BY DEF Ahead
  <1>4. /\ Ahead(q, "connect", c) = Members(q) /\ Ahead(q, "start", c) = Members(q)
        /\ Ahead(q, "loop", 1) = Members(q)
    BY <1>1 DEF Ahead, Members
  <1> QED  BY <1>2, <1>3, <1>4

(* The loop goes to the next element.                                      *)
Onward(t) == [t EXCEPT !.cur = @ + 1]

LEMMA OnwardSame ==
    ASSUME NEW t \in State
    PROVE  /\ Onward(t) \in State /\ Onward(t).cur = t.cur + 1
           /\ Onward(t).fail = t.fail /\ Onward(t).conn = t.conn
           /\ Onward(t).tx = t.tx /\ Onward(t).rows = t.rows
           /\ Onward(t).name = t.name /\ Onward(t).buf = t.buf /\ Onward(t).head = t.head
           /\ Onward(t).stale = t.stale /\ Onward(t).refused = t.refused
           /\ Onward(t).dead = t.dead
           /\ Held(Onward(t)) = Held(t) /\ Single(Onward(t)) = Single(t)
           /\ AllNamed(Onward(t)) = AllNamed(t)
           /\ Good(Onward(t)) = Good(t) /\ Rewind(Onward(t)) = Rewind(t)
  <1> DEFINE u == Onward(t)
  <1>1. /\ u \in State /\ u.cur = t.cur + 1
        /\ u.fail = t.fail /\ u.conn = t.conn /\ u.tx = t.tx /\ u.rows = t.rows
        /\ u.name = t.name /\ u.buf = t.buf /\ u.head = t.head
        /\ u.stale = t.stale /\ u.refused = t.refused /\ u.dead = t.dead
    <2>1. t.cur + 1 \in Nat \ {0}  BY TypedFields
    <2>2. u = [t EXCEPT !.cur = t.cur + 1]  BY DEF Onward, State
    <2> HIDE DEF u
    <2>3. u \in State  BY <2>1, <2>2 DEF State
    <2>4. /\ u.cur = t.cur + 1 /\ u.fail = t.fail /\ u.conn = t.conn /\ u.tx = t.tx
          /\ u.rows = t.rows /\ u.name = t.name
      BY <2>2 DEF State
    <2>5. /\ u.buf = t.buf /\ u.head = t.head /\ u.stale = t.stale
          /\ u.refused = t.refused /\ u.dead = t.dead
      BY <2>2 DEF State
    <2> QED  BY <2>3, <2>4, <2>5
  <1> HIDE DEF u
  <1>2. /\ Held(u) = Held(t) /\ Single(u) = Single(t) /\ AllNamed(u) = AllNamed(t)
        /\ Good(u) = Good(t) /\ Rewind(u) = Rewind(t)
    BY <1>1 DEF Held, Single, AllNamed, Good, Rewind
  <1> QED  BY <1>1, <1>2 DEF u

-----------------------------------------------------------------------------
(* MySQL: one element of the loop.                                         *)

LEMMA QuerySame ==
    ASSUME NEW s, Sound(s), NEW e, ~Committed(e) PROVE MyQuery(s, s, e)
  <1>1. Adds(s, s, e)  BY DEF Adds
  <1>2. s.buf # <<>> => s.head <= s.cur  BY TypedFields DEF Sound
  <1> QED  BY <1>1, <1>2 DEF MyQuery, Sound

LEMMA QueryPlaces ==
    ASSUME NEW q \in Seq(Elements), NEW p \in Seq(Elements),
           NEW s, Sound(s), ~s.dead, s.cur <= Len(q),
           NEW t, MyQuery(s, t, q[s.cur]), s.name = table[q[s.cur]],
           Places(s, q, p, "loop"), ~Rewind(t)
    PROVE  Places(Onward(t), q, p, "loop")
  <1> DEFINE e == q[s.cur]
             u == Onward(t)
  <1>0. /\ s \in State /\ t \in State /\ s.cur \in 1 .. Len(q) /\ Len(q) \in Nat
        /\ Len(p) \in Nat /\ t.cur \in Nat /\ s.head \in Nat
    BY TypedFields DEF Sound, MyQuery
  <1>1. /\ u \in State /\ u.cur = t.cur + 1 /\ u.fail = t.fail /\ u.name = t.name
        /\ u.stale = t.stale /\ u.dead = t.dead
        /\ Held(u) = Held(t) /\ Single(u) = Single(t)
    BY <1>0, OnwardSame
  <1>2. Single(s) /\ Len(q) <= N  BY DEF Places
  <1>3. /\ t.name = s.name /\ t.fail["p"] = s.fail["p"] /\ Adds(s, t, e)
        /\ s.stale => t.rows = s.rows /\ t.buf = s.buf
        /\ (s.stale /\ Committed(e) /\ ~s.fail["p"]) => t.dead
        /\ \/ t.cur = s.cur /\ t.stale = s.stale
           \/ /\ t.cur = s.head /\ t.refused /\ t.stale /\ s.buf # <<>> /\ cfg.multi
              /\ IF cfg.backup THEN t.fail["b"] ELSE Committed(e) /\ ~s.fail["p"]
    BY DEF MyQuery
  <1>4. \/ t.cur = s.cur /\ t.stale = s.stale
        \/ t.cur = s.head /\ t.stale /\ s.head < s.cur /\ Committed(e) /\ ~s.fail["p"]
    BY <1>3 DEF Rewind, Sound
  <1> HIDE DEF u, e
  <1>5. CASE s.stale
    <2>1. Single(t)  BY <1>2, <1>3, <1>5 DEF Single
    <2>2. CASE t.dead  BY <1>1, <1>2, <2>1, <2>2 DEF Places, u
    <2>3. CASE ~t.dead
      <3>1. t.cur = s.cur /\ t.stale  BY <1>3, <1>4, <1>5, <2>3
      <3>2. Doomed(s, q)  BY <1>5 DEF Places
      <3>3. PICK j \in s.cur .. Len(q) : table[q[j]] = s.name /\ Committed(q[j])
        BY <3>2 DEF Doomed
      <3>4. ~s.fail["p"]  BY <3>2 DEF Doomed
      <3>5. j # s.cur  BY <1>3, <1>5, <2>3, <3>3, <3>4 DEF e
      <3>6. j \in u.cur .. Len(q)  BY <1>0, <1>1, <3>1, <3>5
      <3>7. Doomed(u, q)  BY <1>1, <1>3, <3>3, <3>4, <3>6 DEF Doomed
      <3>8. u.stale  BY <1>1, <3>1
      <3> QED  BY <1>1, <1>2, <2>1, <3>7, <3>8 DEF Places, u
    <2> QED  BY <2>2, <2>3
  <1>6. CASE ~s.stale
    <2>1. Apart(s, q, p, Ahead(q, "loop", s.cur)) /\ Len(p) < s.cur
      BY <1>6 DEF Places
    <2>2. /\ Ahead(q, "loop", s.cur) = {e} \union Ahead(q, "loop", s.cur + 1)
          /\ e \notin Ahead(q, "loop", s.cur + 1)
      BY <1>0, <2>1, AheadStep DEF Apart, e
    <2>3. e \notin Held(s) /\ e \notin Members(p)  BY <2>1, <2>2 DEF Apart
    <2>4. Single(t) /\ Held(t) \subseteq Held(s) \union {e}
      BY <1>2, <1>3, <2>3 DEF Adds
    <2>5. CASE t.dead  BY <1>1, <1>2, <2>4, <2>5 DEF Places, u
    <2>6. CASE ~t.dead /\ t.cur = s.cur /\ ~t.stale
      <3>1. Apart(u, q, p, Ahead(q, "loop", u.cur))
        BY <1>1, <2>1, <2>2, <2>3, <2>4, <2>6 DEF Apart
      <3>2. Len(p) < u.cur /\ Len(p) <= Len(q)  BY <1>0, <1>1, <2>1, <2>6
      <3>3. ~u.stale  BY <1>1, <2>6
      <3> QED  BY <1>1, <1>2, <2>4, <3>1, <3>2, <3>3 DEF Places, u
    <2>7. CASE /\ ~t.dead /\ t.cur = s.head /\ t.stale /\ s.head < s.cur
               /\ Committed(e) /\ ~s.fail["p"]
      <3>1. s.cur \in u.cur .. Len(q)  BY <1>0, <1>1, <2>7
      <3>2. table[q[s.cur]] = u.name /\ Committed(q[s.cur]) /\ ~u.fail["p"]
        BY <1>1, <1>3, <2>7 DEF e
      <3>3. Doomed(u, q)  BY <3>1, <3>2 DEF Doomed
      <3>4. u.stale  BY <1>1, <2>7
      <3> QED  BY <1>1, <1>2, <2>4, <3>3, <3>4 DEF Places, u
    <2> QED  BY <1>4, <1>6, <2>5, <2>6, <2>7
  <1> QED  BY <1>5, <1>6

LEMMA QueryCovers ==
    ASSUME NEW q \in Seq(Elements), NEW p \in Seq(Elements),
           NEW s, Sound(s), s.cur <= Len(q),
           NEW t, MyQuery(s, t, q[s.cur]), Covered(s, q, p, "loop")
    PROVE  Covered(Onward(t), q, p, "loop")
  <1> DEFINE e == q[s.cur]
             u == Onward(t)
  <1>0. s \in State /\ t \in State /\ s.cur \in 1 .. Len(q)
    BY TypedFields DEF Sound, MyQuery
  <1>1. u.cur = t.cur + 1 /\ Held(u) = Held(t) /\ Good(u) = Good(t)
    BY <1>0, OnwardSame
  <1>2. SUFFICES ASSUME Good(t) PROVE Covered(u, q, p, "loop")
    BY <1>1 DEF Covered, u
  <1>3. /\ s.refused => t.refused
        /\ s.dead => t.dead
        /\ s.fail["b"] => t.fail["b"]
        /\ t.fail["p"] = s.fail["p"]
        /\ Adds(s, t, e)
        /\ (Committed(e) /\ Good(t)) => e \in Held(t)
        /\ t.cur = s.cur \/ t.refused
    BY DEF MyQuery
  <1>4. Good(s) /\ t.cur = s.cur /\ Held(s) \subseteq Held(t)
    BY <1>2, <1>3 DEF Good, Adds
  <1>5. Ahead(q, "loop", s.cur) = {e} \union Ahead(q, "loop", u.cur)
    BY <1>0, <1>1, <1>4, AheadStep
  <1> HIDE DEF u, e
  <1> QED  BY <1>1, <1>2, <1>3, <1>4, <1>5 DEF Covered

-----------------------------------------------------------------------------
(* MySQL: the steps.                                                       *)

LEMMA MyConclude ==
    ASSUME ~Pg, UNCHANGED <<cfg, valid, table>>,
           Typed', Filtered', AllNamed(w'), MyRest',
           ~Rewind(w') => Places(w', queue', pend', pc'),
           Covered(w', queue', pend', pc')
    PROVE  IInv'
  <1>1. ~Pg'  BY DEF Pg
  <1>2. AllNamed(w)'  BY DEF AllNamed, Named
  <1>3. (~Rewind(w) => Places(w, queue, pend, pc))'
    BY DEF Rewind, Places, Doomed, Committed
  <1>4. Covered(w, queue, pend, pc)'  BY DEF Covered, Good, Committed
  <1> QED  BY <1>1, <1>2, <1>3, <1>4 DEF IInv, MyInv, PgInv

(* A state that differs in what the connections did.                       *)
LEMMA SamePlaces ==
    ASSUME NEW s \in State, NEW t, Same(s, t),
           s.fail["p"] => t.fail["p"], s.fail["b"] => t.fail["b"],
           NEW q, NEW p, NEW l
    PROVE  /\ ~Rewind(t) => ~Rewind(s)
           /\ Good(t) => Good(s)
           /\ (Places(s, q, p, l) /\ l # "loop") => Places(t, q, p, l)
           /\ Covered(s, q, p, l) => Covered(t, q, p, l)
           /\ AllNamed(s) => AllNamed(t)
  <1>1. Held(t) = Held(s) /\ Single(t) = Single(s)  BY SameHeld
  <1>2. /\ t.cur = s.cur /\ t.stale = s.stale /\ t.dead = s.dead /\ t.buf = s.buf
        /\ t.refused = s.refused /\ t.rows = s.rows
    BY DEF Same
  <1>3. (~Rewind(t) => ~Rewind(s)) /\ (Good(t) => Good(s))  BY <1>2 DEF Rewind, Good
  <1>4. (Places(s, q, p, l) /\ l # "loop") => Places(t, q, p, l)
    BY <1>1, <1>2 DEF Places, Apart
  <1>5. Covered(s, q, p, l) => Covered(t, q, p, l)
    BY <1>1, <1>2, <1>3 DEF Covered
  <1>6. AllNamed(s) => AllNamed(t)  BY <1>2 DEF AllNamed
  <1> QED  BY <1>3, <1>4, <1>5, <1>6

LEMMA MyConnect ==
    ASSUME WriterAssumption, IInv, ~Pg, Connect PROVE IInv'
  <1>0. w \in State /\ "p" \in DBs /\ "b" \in DBs /\ "p" # "b"
    BY DEF IInv, Typed, DBs
  <1>1. /\ Same(w, w') /\ (w.fail["p"] => w'.fail["p"])
        /\ w'.fail["b"] = w.fail["b"]
    <2>1. CASE w' \in Opened(w, "p")  BY <1>0, <2>1, SameOpened
    <2>2. CASE w' = DbFail(w, "p")
      <3>1. Same(w, w') /\ w'.fail["p"] = TRUE  BY <1>0, <2>2, SameDb
      <3>2. w'.fail["b"] = w.fail["b"]  BY <1>0, <2>2, OtherDb
      <3> QED  BY <3>1, <3>2
    <2> QED  BY <2>1, <2>2 DEF Connect
  <1>2. /\ pc = "connect" /\ pc' = "start"
        /\ UNCHANGED <<cfg, valid, table, queue, pend, bulk, again, mode, next, last>>
    BY DEF Connect
  <1>3. Typed'  BY <1>1, <1>2 DEF IInv, Typed, Same, Pg, Locations
  <1>4. Filtered'  BY <1>1, <1>2 DEF IInv, Filtered, Same, Committed
  <1>5. AllNamed(w')  BY <1>0, <1>1, SamePlaces DEF IInv, MyInv
  <1>6. MyRest'  BY <1>2 DEF IInv, MyInv, MyRest, Committed
  <1>7. w.cur \in Nat /\ queue \in Seq(Elements)  BY <1>0, TypedFields DEF IInv, Typed
  <1>8. Ahead(queue, "connect", w.cur) = Ahead(queue, "start", w.cur)
    BY <1>7, AheadEnds
  <1>9. ~Rewind(w) => Places(w, queue, pend, "start")
    BY <1>2, <1>8 DEF IInv, MyInv, Places
  <1>10. Covered(w, queue, pend, "start")
    BY <1>2, <1>8 DEF IInv, MyInv, Covered
  <1>11. ~Rewind(w') => Places(w', queue', pend', pc')
    BY <1>0, <1>1, <1>2, <1>9, SamePlaces
  <1>12. Covered(w', queue', pend', pc')  BY <1>0, <1>1, <1>2, <1>10, SamePlaces
  <1> QED  BY <1>2, <1>3, <1>4, <1>5, <1>6, <1>11, <1>12, MyConclude

(* Label start: what a lock may change.                                    *)
Fresh(s) == [s EXCEPT !.name = table[queue[1]], !.cur = 1, !.buf = <<>>,
                      !.stale = FALSE]

LEMMA StartOutcome ==
    ASSUME WriterAssumption, Typed, Start
    PROVE  /\ Fresh(w) \in State /\ Same(Fresh(w), w')
           /\ w.fail["p"] => w'.fail["p"]
           /\ w'.fail["b"] = w.fail["b"] /\ w'.conn["b"] = w.conn["b"]
           /\ Fresh(w).rows = w.rows /\ Fresh(w).tx = w.tx
           /\ Fresh(w).name = table[queue[1]] /\ Fresh(w).cur = 1
           /\ Fresh(w).buf = <<>> /\ Fresh(w).stale = FALSE /\ Fresh(w).head = w.head
           /\ Fresh(w).refused = w.refused /\ Fresh(w).dead = w.dead
           /\ Fresh(w).fail = w.fail /\ Fresh(w).conn = w.conn
  <1> DEFINE v == Fresh(w)
  <1>0. "p" \in DBs /\ "b" \in DBs /\ "p" # "b"  BY DEF DBs
  <1>1. w \in State /\ queue \in Seq(Elements) /\ queue # <<>>  BY DEF Typed
  <1>2. queue[1] \in Elements  BY <1>1
  <1>3. table[queue[1]] \in Tables  BY <1>2 DEF Typed
  <1>4. v = [w EXCEPT !.name = table[queue[1]], !.cur = 1, !.buf = <<>>,
                      !.stale = FALSE]
    BY DEF Fresh
  <1> HIDE DEF v
  <1>5. v \in State
    <2> DEFINE n == table[queue[1]]
    <2>1. <<>> \in Seq(Rows) /\ 1 \in Nat \ {0} /\ FALSE \in BOOLEAN  OBVIOUS
    <2>2. n \in Tables  BY <1>3
    <2>3. v = [w EXCEPT !.name = n, !.cur = 1, !.buf = <<>>, !.stale = FALSE]  BY <1>4
    <2> HIDE DEF n
    <2> QED  BY <1>1, <2>1, <2>2, <2>3 DEF State
  <1>6. /\ v.rows = w.rows /\ v.tx = w.tx /\ v.name = table[queue[1]] /\ v.cur = 1
        /\ v.buf = <<>> /\ v.stale = FALSE /\ v.head = w.head
    BY <1>1, <1>4 DEF State
  <1>7. v.refused = w.refused /\ v.dead = w.dead /\ v.fail = w.fail /\ v.conn = w.conn
    BY <1>1, <1>4 DEF State
  <1>8. w' \in Locked(v, "p")  BY DEF Start, v, Fresh
  <1>9. /\ Same(v, w') /\ (v.fail["p"] => w'.fail["p"])
        /\ w'.fail["b"] = v.fail["b"] /\ w'.conn["b"] = v.conn["b"]
    BY <1>0, <1>5, <1>8, SameOpened
  <1> QED  BY <1>5, <1>6, <1>7, <1>9 DEF v

LEMMA MyStart ==
    ASSUME WriterAssumption, IInv, ~Pg, Start PROVE IInv'
  <1> DEFINE v == Fresh(w)
  <1>0. Typed  BY DEF IInv
  <1>1. /\ v \in State /\ Same(v, w')
        /\ w.fail["p"] => w'.fail["p"]
        /\ w'.fail["b"] = w.fail["b"]
        /\ v.rows = w.rows /\ v.tx = w.tx /\ v.cur = 1
        /\ v.buf = <<>> /\ v.stale = FALSE
        /\ v.refused = w.refused /\ v.dead = w.dead /\ v.fail = w.fail
    BY <1>0, StartOutcome
  <1> HIDE DEF v
  <1>2. /\ pc = "start" /\ pc' = "loop" /\ bulk' = <<>> /\ again' = <<>>
        /\ UNCHANGED <<cfg, valid, table, queue, pend, mode, next, last>>
    BY DEF Start
  <1>3. /\ w' \in State /\ w'.cur = 1 /\ w'.buf = <<>> /\ w'.stale = FALSE
        /\ w'.rows = w.rows /\ w'.tx = w.tx /\ w'.dead = w.dead
        /\ w'.refused = w.refused
    BY <1>1 DEF Same
  <1>4. Typed'
    <2>1. Len(<<>>) = 0 /\ <<>> \in Seq(Elements) /\ Len(queue) \in Nat
      BY <1>0 DEF Typed
    <2> QED  BY <1>0, <1>2, <1>3, <2>1 DEF WriterAssumption, Typed, Pg, Locations
  <1>5. Filtered'  BY <1>2, <1>3 DEF IInv, Filtered, Committed
  <1>6. AllNamed(w')  BY <1>3, NamedRows DEF IInv, MyInv, AllNamed
  <1>7. MyRest'  BY <1>2 DEF IInv, MyInv, MyRest, Committed
  <1>8. /\ queue \in Seq(Elements) /\ w.cur \in Nat
        /\ pend \in Seq(Elements) /\ Len(queue) \in Nat /\ Len(pend) \in Nat
    BY <1>0, TypedFields DEF Typed
  <1>9. Ahead(queue, "start", w.cur) = Ahead(queue, "loop", 1)
    BY <1>8, AheadEnds
  <1>10. /\ Held(w') = Of(w.rows["p"]) \union Of(w.rows["b"])
         /\ Held(w') \subseteq Held(w) /\ (Single(w) => Single(w'))
         /\ w.buf = <<>> => Held(w') = Held(w)
    <2>1. Of(<<>>) = {} /\ Once(<<>>)  BY OfRows
    <2> QED  BY <1>3, <2>1 DEF Held, Single
  <1>11. ASSUME ~Rewind(w') PROVE Places(w', queue', pend', pc')
    <2>1. ~Rewind(w)  BY <1>1, <1>2, <1>3, <1>11 DEF Rewind
    <2>2. Places(w, queue, pend, "start")  BY <1>2, <2>1 DEF IInv, MyInv
    <2>3. pend = <<>> /\ Len(<<>>) = 0  BY <2>2 DEF Places
    <2>4. Single(w') /\ Len(queue) <= N  BY <1>10, <2>2 DEF Places
    <2>5. ASSUME ~w.dead
          PROVE  Apart(w', queue, pend, Ahead(queue, "loop", 1))
      BY <1>9, <1>10, <2>2, <2>5 DEF Places, Apart
    <2>6. Len(pend) <= Len(queue) /\ Len(pend) < 1  BY <1>8, <2>3
    <2> QED  BY <1>2, <1>3, <2>3, <2>4, <2>5, <2>6 DEF Places
  <1>12. Covered(w', queue', pend', pc')
    <2>1. Good(w') => Good(w)  BY <1>1, <1>2, <1>3 DEF Good
    <2>2. Covered(w, queue, pend, "start")  BY <1>2 DEF IInv, MyInv
    <2>3. SUFFICES ASSUME Good(w') PROVE Covered(w', queue', pend', pc')
      BY DEF Covered
    <2>4. Good(w)  BY <2>1, <2>3
    <2>5. w.buf = <<>>  BY <2>2, <2>4 DEF Covered
    <2> QED  BY <1>2, <1>3, <1>9, <1>10, <2>2, <2>4, <2>5 DEF Covered
  <1> QED  BY <1>2, <1>4, <1>5, <1>6, <1>7, <1>11, <1>12, MyConclude

(* An element of another table is put off.                                 *)
LEMMA MyPostpone ==
    ASSUME WriterAssumption, IInv, ~Pg, Postpone PROVE IInv'
  <1> DEFINE e == queue[w.cur]
             u == Onward(w)
  <1>0. /\ Typed /\ pc = "loop" /\ ~w.dead /\ w.cur <= Len(queue) /\ table[e] # w.name
        /\ pend' = Append(pend, e) /\ w' = u /\ pc' = pc
        /\ UNCHANGED <<cfg, valid, table, queue, bulk, again, mode, next, last>>
    BY DEF IInv, Postpone, Looping, InHand, TableInHand, Onward
  <1>1. /\ w \in State /\ queue \in Seq(Elements) /\ pend \in Seq(Elements)
        /\ Len(queue) \in Nat /\ Len(pend) \in Nat
        /\ w.cur \in 1 .. Len(queue) /\ w.head \in Nat
    BY <1>0, TypedFields DEF Typed
  <1>2. /\ u \in State /\ u.cur = w.cur + 1
        /\ u.fail = w.fail /\ u.tx = w.tx /\ u.rows = w.rows
        /\ u.name = w.name /\ u.buf = w.buf /\ u.head = w.head
        /\ u.stale = w.stale /\ u.refused = w.refused /\ u.dead = w.dead
        /\ Held(u) = Held(w) /\ Single(u) = Single(w)
        /\ AllNamed(u) = AllNamed(w)
        /\ Good(u) = Good(w) /\ Rewind(u) = Rewind(w)
    BY <1>1, OnwardSame
  <1>3. /\ e \in Elements
        /\ Ahead(queue, "loop", w.cur) = {e} \union Ahead(queue, "loop", w.cur + 1)
        /\ Distinct(queue) => e \notin Ahead(queue, "loop", w.cur + 1)
    BY <1>1, AheadStep
  <1> HIDE DEF e, u
  <1>4. /\ pend' \in Seq(Elements) /\ Len(pend') = Len(pend) + 1
        /\ Members(pend') = Members(pend) \union {e}
        /\ (Distinct(pend) /\ e \notin Members(pend)) => Distinct(pend')
    BY <1>0, <1>1, <1>3, MembersSeq
  <1>5. Typed'
    <2>1. u.cur <= Len(queue) + 1 /\ (u.buf # <<>> => u.head < u.cur)
      BY <1>0, <1>1, <1>2 DEF Typed
    <2> QED  BY <1>0, <1>2, <1>4, <2>1 DEF Typed, Pg
  <1>6. Filtered'  BY <1>0, <1>2 DEF IInv, Filtered, Committed
  <1>7. AllNamed(w')  BY <1>0, <1>2 DEF IInv, MyInv
  <1>8. MyRest'  BY <1>0 DEF IInv, MyInv, MyRest, Committed
  <1>9. ASSUME ~Rewind(w') PROVE Places(w', queue', pend', pc')
    <2>1. Places(w, queue, pend, "loop")  BY <1>0, <1>2, <1>9 DEF IInv, MyInv
    <2>2. Single(w) /\ Len(queue) <= N  BY <2>1 DEF Places
    <2>3. CASE w.stale
      <3>1. Doomed(w, queue)  BY <1>0, <2>1, <2>3 DEF Places
      <3>2. PICK j \in w.cur .. Len(queue) : table[queue[j]] = w.name /\ Committed(queue[j])
        BY <3>1 DEF Doomed
      <3>3. j # w.cur  BY <1>0, <3>2 DEF e
      <3>4. j \in u.cur .. Len(queue)  BY <1>1, <1>2, <3>3
      <3>5. Doomed(u, queue)  BY <1>2, <3>1, <3>2, <3>4 DEF Doomed
      <3> QED  BY <1>0, <1>2, <2>2, <2>3, <3>5 DEF Places
    <2>4. CASE ~w.stale
      <3>1. Apart(w, queue, pend, Ahead(queue, "loop", w.cur)) /\ Len(pend) < w.cur
        BY <1>0, <2>1, <2>4 DEF Places
      <3>2. Apart(u, queue, pend', Ahead(queue, "loop", u.cur))
        BY <1>2, <1>3, <1>4, <3>1 DEF Apart
      <3>3. Len(pend') < u.cur /\ Len(pend') <= Len(queue)
        BY <1>1, <1>2, <1>4, <3>1
      <3> QED  BY <1>0, <1>2, <2>2, <2>4, <3>2, <3>3 DEF Places
    <2> QED  BY <2>3, <2>4
  <1>10. Covered(w', queue', pend', pc')
    <2>1. Covered(w, queue, pend, "loop")  BY <1>0 DEF IInv, MyInv
    <2> QED  BY <1>0, <1>2, <1>3, <1>4, <2>1 DEF Covered
  <1> QED  BY <1>0, <1>5, <1>6, <1>7, <1>8, <1>9, <1>10, MyConclude

(* An element is sent, or left out when it is free.                        *)
LEMMA MySends ==
    ASSUME WriterAssumption, IInv, ~Pg, MySend PROVE IInv'
  <1> DEFINE e == queue[w.cur]
  <1>0. /\ Typed /\ pc = "loop" /\ ~w.dead /\ w.cur <= Len(queue) /\ w.name = table[e]
        /\ last' = (IF Committed(e) THEN e ELSE last) /\ pc' = pc
        /\ UNCHANGED <<cfg, valid, table, queue, pend, bulk, again, mode, next>>
    BY DEF IInv, MySend, Looping, InHand, TableInHand
  <1>1. /\ w \in State /\ queue \in Seq(Elements) /\ pend \in Seq(Elements)
        /\ Len(queue) \in Nat /\ cfg \in Settings
        /\ w.cur \in 1 .. Len(queue) /\ w.head \in Nat
    BY <1>0, TypedFields DEF Typed
  <1>2. e \in Elements  BY <1>1
  <1>3. Sound(w)  BY <1>0 DEF Typed, Sound
  <1>4. PICK o \in IF valid[e] = "free" THEN {Works(w)} ELSE sql_query(w, e, FALSE) :
          w' = Onward(o.s)
    BY DEF MySend, InHand, Onward
  <1> DEFINE t == o.s
             u == Onward(t)
  <1>5. MyQuery(w, t, e)
    <2>1. CASE valid[e] = "free"
      <3>1. t = w  BY <1>4, <2>1 DEF Works
      <3>2. ~Committed(e)  BY <2>1 DEF Committed
      <3>3. MyQuery(w, w, e)  BY <1>3, <3>2, QuerySame
      <3> QED  BY <3>1, <3>3
    <2>2. CASE valid[e] # "free"
      <3>1. o \in sql_query(w, e, FALSE)  BY <1>4, <2>2
      <3> QED  BY <1>0, <1>1, <1>2, <1>3, <3>1, MyQueryOutcome
    <2> QED  BY <2>1, <2>2
  <1>6. w' = u  BY <1>4
  <1> HIDE DEF t
  <1>7. t \in State  BY <1>5 DEF MyQuery
  <1>8. /\ u \in State /\ u.cur = t.cur + 1 /\ u.tx = t.tx /\ u.rows = t.rows
        /\ u.buf = t.buf /\ u.head = t.head /\ u.stale = t.stale
        /\ u.refused = t.refused /\ u.dead = t.dead
        /\ AllNamed(u) = AllNamed(t) /\ Rewind(u) = Rewind(t)
    BY <1>7, OnwardSame
  <1>9. t.cur \in Nat /\ t.head \in Nat  BY <1>7, TypedFields
  <1>10. /\ Len(t.buf) <= MvRows /\ (t.stale => t.refused)
         /\ ~cfg.multi => t.buf = <<>> /\ ~t.stale
         /\ t.buf # <<>> => t.head <= t.cur
         /\ t.cur = w.cur \/ (t.cur = w.head /\ w.buf # <<>>)
    BY <1>5 DEF MyQuery
  <1>11. Places(w, queue, pend, "loop") /\ ~Rewind(t) => Places(u, queue, pend, "loop")
    BY <1>0, <1>1, <1>3, <1>5, QueryPlaces
  <1>12. Covered(u, queue, pend, "loop")
    <2>1. Covered(w, queue, pend, "loop")  BY <1>0 DEF IInv, MyInv
    <2> QED  BY <1>0, <1>1, <1>3, <1>5, <2>1, QueryCovers
  <1>13. Rewind(w) => Rewind(t)  BY <1>5 DEF MyQuery, Rewind
  <1>14. AllNamed(t)
    <2>1. Adds(w, t, e)  BY <1>5 DEF MyQuery
    <2> QED  BY <1>0, <2>1 DEF Adds, IInv, MyInv
  <1>15. ~cfg.multi => Of(t.rows["p"]) \subseteq
                         Of(w.rows["p"]) \union (IF Committed(e) THEN {e} ELSE {})
    BY <1>5 DEF MyQuery
  <1>16. t.tx = w.tx  BY <1>5 DEF MyQuery
  <1> HIDE DEF e, u
  <1>17. Typed'
    <2>1. u.cur <= Len(queue) + 1 /\ (u.buf # <<>> => u.head < u.cur)
      BY <1>0, <1>1, <1>3, <1>8, <1>9, <1>10 DEF Sound
    <2>2. last' \in 0 .. N  BY <1>0, <1>2 DEF Typed, Elements
    <2> QED  BY <1>0, <1>6, <1>8, <1>10, <2>1, <2>2 DEF Typed, Pg
  <1>18. Filtered'
    <2>1. ~cfg.multi => \A x \in Of(u.rows["p"]) \union Of(u.tx["p"]) : Committed(x)
      BY <1>8, <1>15, <1>16 DEF IInv, Filtered
    <2> QED  BY <1>0, <1>6, <2>1 DEF Filtered, Committed
  <1>19. AllNamed(w')  BY <1>6, <1>8, <1>14
  <1>20. MyRest'
    <2>1. last' # 0 => Committed(last')  BY <1>0 DEF IInv, MyInv, MyRest
    <2> QED  BY <1>0, <2>1 DEF MyRest, Committed
  <1>21. ~Rewind(w') => Places(w', queue', pend', pc')
    <2>1. ~Rewind(w) => Places(w, queue, pend, "loop")  BY <1>0 DEF IInv, MyInv
    <2> QED  BY <1>0, <1>6, <1>8, <1>11, <1>13, <2>1
  <1>22. Covered(w', queue', pend', pc')  BY <1>0, <1>6, <1>12
  <1> QED  BY <1>0, <1>17, <1>18, <1>19, <1>20, <1>21, <1>22, MyConclude

(* A transaction is dropped.                                               *)
Dropped(s, d) == [s EXCEPT !.tx[d] = <<>>]

LEMMA DroppedSame ==
    ASSUME NEW s \in State, NEW d \in DBs
    PROVE  LET t == Dropped(s, d)
           IN  /\ t \in State /\ t.tx[d] = <<>>
               /\ \A x \in DBs : x # d => t.tx[x] = s.tx[x]
               /\ t.fail = s.fail /\ t.conn = s.conn /\ t.rows = s.rows
               /\ t.name = s.name /\ t.cur = s.cur /\ t.buf = s.buf
               /\ t.head = s.head /\ t.stale = s.stale /\ t.refused = s.refused
               /\ t.dead = s.dead
  <1> DEFINE t == Dropped(s, d)
  <1>1. <<>> \in Seq(Rows)  OBVIOUS
  <1>2. t \in State  BY <1>1 DEF State, Dropped
  <1>3. t.tx[d] = <<>> /\ \A x \in DBs : x # d => t.tx[x] = s.tx[x]  BY DEF State, Dropped
  <1>4. /\ t.fail = s.fail /\ t.conn = s.conn /\ t.rows = s.rows
        /\ t.name = s.name /\ t.cur = s.cur /\ t.buf = s.buf
        /\ t.head = s.head /\ t.stale = s.stale /\ t.refused = s.refused
        /\ t.dead = s.dead
    BY DEF State, Dropped
  <1> QED  BY <1>2, <1>3, <1>4

(* The loop has ended: nothing is ahead in the queue.                      *)
LEMMA MyNoCommit ==
    ASSUME WriterAssumption, IInv, ~Pg, NoCommit PROVE IInv'
  <1>0. /\ Typed /\ pc = "loop" /\ ~w.dead /\ w.cur > Len(queue)
        /\ pc' = "wrapup" /\ next' = 1 /\ w' = Dropped(w, "p")
        /\ UNCHANGED <<cfg, valid, table, queue, pend, bulk, again, mode, last>>
    BY DEF IInv, NoCommit, LoopEnds, Dropped
  <1>1. /\ w \in State /\ queue \in Seq(Elements) /\ w.cur \in Nat /\ Len(queue) \in Nat
        /\ "p" \in DBs
    BY <1>0, TypedFields DEF Typed, DBs
  <1>2. /\ w' \in State /\ w'.tx["p"] = <<>>
        /\ w'.fail = w.fail /\ w'.rows = w.rows /\ w'.cur = w.cur /\ w'.buf = w.buf
        /\ w'.stale = w.stale /\ w'.refused = w.refused /\ w'.dead = w.dead
    BY <1>0, <1>1, DroppedSame
  <1>3. /\ Held(w') = Held(w) /\ Single(w') = Single(w) /\ AllNamed(w') = AllNamed(w)
        /\ Good(w') = Good(w) /\ Rewind(w') = Rewind(w)
    BY <1>2 DEF Held, Single, AllNamed, Good, Rewind
  <1>4. Ahead(queue, "loop", w.cur) = {} /\ Ahead(queue, "wrapup", w.cur) = {}
    BY <1>0, <1>1, AheadEnds
  <1>5. Typed'
    BY <1>0, <1>2 DEF WriterAssumption, Typed, Pg, Locations
  <1>6. Filtered'
    <2>1. Of(<<>>) = {}  BY OfRows
    <2>2. Of(w'.tx["p"]) = {} /\ w'.rows = w.rows  BY <1>2, <2>1
    <2> QED  BY <1>0, <2>2 DEF IInv, Filtered, Committed
  <1>7. AllNamed(w')  BY <1>3 DEF IInv, MyInv
  <1>8. MyRest'  BY <1>0 DEF IInv, MyInv, MyRest, Committed
  <1>9. ASSUME ~Rewind(w') PROVE Places(w', queue', pend', pc')
    <2>1. Places(w, queue, pend, "loop")  BY <1>0, <1>3, <1>9 DEF IInv, MyInv
    <2>2. ~w.stale
      <3>1. w.cur .. Len(queue) = {}  BY <1>0, <1>1
      <3>2. ~Doomed(w, queue)  BY <3>1 DEF Doomed
      <3> QED  BY <1>0, <2>1, <3>2 DEF Places
    <2>3. Apart(w, queue, pend, {}) /\ Len(pend) <= Len(queue)
      BY <1>0, <1>4, <2>1, <2>2 DEF Places
    <2>4. Apart(w', queue, pend, {})  BY <1>3, <2>3 DEF Apart
    <2> QED  BY <1>0, <1>2, <1>3, <1>4, <2>1, <2>3, <2>4 DEF Places
  <1>10. Covered(w', queue', pend', pc')
    <2>1. Covered(w, queue, pend, "loop")  BY <1>0 DEF IInv, MyInv
    <2> QED  BY <1>0, <1>2, <1>3, <1>4, <2>1 DEF Covered
  <1> QED  BY <1>0, <1>5, <1>6, <1>7, <1>8, <1>9, <1>10, MyConclude

(* The end of a round, and of the writer.                                  *)
LEMMA MyWrapsUp ==
    ASSUME WriterAssumption, IInv, ~Pg, MyWrapUp PROVE IInv'
  <1>0. /\ Typed /\ pc = "wrapup" /\ pc' = "end"
        /\ w' \in IF w.buf = <<>> THEN {w}
                  ELSE IF last = 0 THEN {[w EXCEPT !.dead = TRUE]}
                  ELSE {o.s : o \in sql_query(w, last, TRUE)}
        /\ UNCHANGED <<cfg, valid, table, queue, pend, bulk, again, mode, next, last>>
    BY DEF IInv, MyWrapUp
  <1>1. /\ w \in State /\ queue \in Seq(Elements) /\ w.cur \in Nat /\ w.buf \in Seq(Rows)
    BY <1>0, TypedFields DEF Typed
  <1>2. \A c \in Nat : Ahead(queue, "end", c) = {} /\ Ahead(queue, "wrapup", c) = {}
    BY <1>1, AheadEnds
  <1>3. MyRest'  BY <1>0 DEF IInv, MyInv, MyRest, Committed
  <1>4. /\ ~Rewind(w) => Places(w, queue, pend, "wrapup")
        /\ Covered(w, queue, pend, "wrapup") /\ AllNamed(w)
    BY <1>0 DEF IInv, MyInv
  <1>5. CASE w.buf = <<>>
    <2>1. w' = w  BY <1>0, <1>5
    <2>2. Typed'  BY <1>0, <2>1 DEF Typed, Pg, Locations
    <2>3. Filtered'  BY <1>0, <2>1 DEF IInv, Filtered, Committed
    <2>4. ~Rewind(w) => Places(w, queue, pend, "end")
      BY <1>1, <1>2, <1>4 DEF Places
    <2>5. Covered(w, queue, pend, "end")  BY <1>1, <1>2, <1>4, <1>5 DEF Covered
    <2> QED  BY <1>0, <1>3, <1>4, <2>1, <2>2, <2>3, <2>4, <2>5, MyConclude
  <1>6. CASE w.buf # <<>> /\ last = 0
    <2>1. w' = [w EXCEPT !.dead = TRUE]  BY <1>0, <1>6
    <2>2. /\ w' \in State /\ w'.dead = TRUE /\ w'.rows = w.rows /\ w'.tx = w.tx
          /\ w'.buf = w.buf /\ w'.stale = w.stale /\ w'.refused = w.refused
          /\ w'.fail = w.fail
      BY <1>1, <2>1 DEF State
    <2>3. Typed'  BY <1>0, <2>2 DEF Typed, Pg, Locations
    <2>4. Filtered'  BY <1>0, <2>2 DEF IInv, Filtered, Committed
    <2>5. AllNamed(w')  BY <1>4, <2>2 DEF AllNamed
    <2>6. Single(w) => Single(w')  BY <2>2 DEF Single
    <2>7. Rewind(w') = Rewind(w)  BY <2>2 DEF Rewind
    <2>8. ~Rewind(w') => Places(w', queue, pend, "end")
      BY <1>4, <2>2, <2>6, <2>7 DEF Places
    <2>9. Covered(w', queue, pend, "end")  BY <2>2 DEF Covered, Good
    <2> QED  BY <1>0, <1>3, <2>3, <2>4, <2>5, <2>8, <2>9, MyConclude
  <1>7. CASE w.buf # <<>> /\ last # 0
    <2>1. Committed(last) /\ last \in Elements
      BY <1>0, <1>7 DEF IInv, MyInv, MyRest, Typed, Elements, WriterAssumption
    <2>2. PICK o \in sql_query(w, last, TRUE) : w' = o.s  BY <1>0, <1>7
    <2>3. MyWrap(w, w')
      <3>1. Len(w.buf) <= MvRows /\ (w.stale => w.refused)  BY <1>0 DEF Typed
      <3> QED  BY <1>1, <2>1, <2>2, <3>1, MyWrapOutcome
    <2>4. cfg.multi  BY <1>0, <1>7 DEF Typed
    <2>5. w' \in State /\ w'.cur \in Nat  BY <2>3, TypedFields DEF MyWrap
    <2>6. Typed'
      <3>1. Len(w'.buf) <= MvRows /\ (w'.stale => w'.refused)  BY <2>3 DEF MyWrap
      <3> QED  BY <1>0, <2>4, <2>5, <3>1 DEF Typed, Pg, Locations
    <2>7. Filtered'  BY <1>0, <2>4 DEF Filtered
    <2>8. AllNamed(w')  BY <1>4, <2>3 DEF MyWrap
    <2>9. ASSUME ~Rewind(w') PROVE Places(w', queue, pend, "end")
      <3>1. ~Rewind(w)  BY <2>3, <2>9 DEF MyWrap, Rewind
      <3>2. Places(w, queue, pend, "wrapup")  BY <1>4, <3>1
      <3>3. Single(w') /\ Held(w') \subseteq Held(w) /\ w'.dead = w.dead
        BY <2>3, <3>2 DEF MyWrap, Places
      <3>4. ASSUME ~w.dead
            PROVE  Apart(w', queue, pend, {}) /\ Len(pend) <= Len(queue)
        BY <1>1, <1>2, <3>2, <3>3, <3>4 DEF Places, Apart
      <3> QED  BY <1>2, <2>5, <3>2, <3>3, <3>4 DEF Places
    <2>10. Covered(w', queue, pend, "end")
      <3>1. SUFFICES ASSUME Good(w') PROVE Covered(w', queue, pend, "end")
        BY DEF Covered
      <3>2. w'.buf = <<>> /\ Held(w) \subseteq Held(w') /\ Good(w)
        BY <2>3, <3>1 DEF MyWrap, Good
      <3> QED  BY <1>1, <1>2, <1>4, <2>5, <3>2 DEF Covered
    <2> QED  BY <1>0, <1>3, <2>6, <2>7, <2>8, <2>9, <2>10, MyConclude
  <1> QED  BY <1>5, <1>6, <1>7

LEMMA MyStartsAgain ==
    ASSUME WriterAssumption, IInv, ~Pg, StartAgain PROVE IInv'
  <1>0. /\ Typed /\ pc = "end" /\ ~w.dead /\ pend # <<>>
        /\ queue' = pend /\ pend' = <<>> /\ pc' = "start"
        /\ UNCHANGED <<cfg, valid, table, w, bulk, again, mode, next, last>>
    BY DEF IInv, StartAgain
  <1>1. /\ w \in State /\ queue \in Seq(Elements) /\ pend \in Seq(Elements)
        /\ w.cur \in Nat /\ Len(queue) \in Nat /\ Len(pend) \in Nat
    BY <1>0, TypedFields DEF Typed
  <1>2. Ahead(queue, "end", w.cur) = {}  BY <1>1, AheadEnds
  <1>3. Ahead(pend, "start", w.cur) = Members(pend)  BY <1>1, AheadEnds
  <1>4. Members(<<>>) = {} /\ Distinct(<<>>) /\ Len(<<>>) = 0  BY MembersSeq
  <1>5. Typed'
    <2>1. <<>> \in Seq(Elements)  OBVIOUS
    <2> QED  BY <1>0, <2>1 DEF Typed, Pg, Locations
  <1>6. Filtered'  BY <1>0 DEF IInv, Filtered, Committed
  <1>7. AllNamed(w')  BY <1>0 DEF IInv, MyInv
  <1>8. MyRest'  BY <1>0 DEF IInv, MyInv, MyRest, Committed
  <1>9. ASSUME ~Rewind(w) PROVE Places(w, pend, <<>>, "start")
    <2>1. Places(w, queue, pend, "end")  BY <1>0, <1>9 DEF IInv, MyInv
    <2>2. /\ Single(w) /\ Len(queue) <= N
          /\ Apart(w, queue, pend, {}) /\ Len(pend) <= Len(queue)
      BY <1>0, <1>2, <2>1 DEF Places
    <2>3. Apart(w, pend, <<>>, Members(pend))  BY <1>4, <2>2 DEF Apart
    <2>4. Len(pend) <= N /\ Len(<<>>) <= Len(pend)  BY <1>1, <1>4, <2>2 DEF WriterAssumption
    <2> QED  BY <1>3, <2>2, <2>3, <2>4 DEF Places
  <1>10. Covered(w, pend, <<>>, "start")
    <2>1. Covered(w, queue, pend, "end")  BY <1>0 DEF IInv, MyInv
    <2> QED  BY <1>2, <1>3, <2>1 DEF Covered
  <1> QED  BY <1>0, <1>5, <1>6, <1>7, <1>8, <1>9, <1>10, MyConclude

LEMMA MyFinish ==
    ASSUME WriterAssumption, IInv, ~Pg, Finish PROVE IInv'
  <1>0. /\ Typed /\ pc' = "done"
        /\ (pc = "end" /\ pend = <<>>) \/ w.dead
        /\ UNCHANGED <<cfg, valid, table, w, queue, pend, bulk, again, mode, next, last>>
    BY DEF IInv, Finish
  <1>1. w \in State /\ queue \in Seq(Elements) /\ w.cur \in Nat
    BY <1>0, TypedFields DEF Typed
  <1>2. Ahead(queue, "end", w.cur) = {} /\ Ahead(queue, "done", w.cur) = {}
    BY <1>1, AheadEnds
  <1>3. Typed'  BY <1>0 DEF Typed, Pg, Locations
  <1>4. Filtered'  BY <1>0 DEF IInv, Filtered, Committed
  <1>5. AllNamed(w')  BY <1>0 DEF IInv, MyInv
  <1>6. MyRest'  BY <1>0 DEF IInv, MyInv, MyRest, Committed
  <1>7. ASSUME ~Rewind(w) PROVE Places(w, queue, pend, "done")
    <2>1. Places(w, queue, pend, pc)  BY <1>7 DEF IInv, MyInv
    <2>2. CASE w.dead  BY <2>1, <2>2 DEF Places
    <2>3. CASE pc = "end"  BY <1>2, <2>1, <2>3 DEF Places
    <2> QED  BY <1>0, <2>2, <2>3
  <1>8. Covered(w, queue, pend, "done")
    <2>1. Covered(w, queue, pend, pc)  BY DEF IInv, MyInv
    <2>2. CASE w.dead  BY <2>2 DEF Covered, Good
    <2>3. CASE pc = "end"  BY <1>2, <2>1, <2>3 DEF Covered
    <2> QED  BY <1>0, <2>2, <2>3
  <1> QED  BY <1>0, <1>3, <1>4, <1>5, <1>6, <1>7, <1>8, MyConclude

-----------------------------------------------------------------------------
(* PostgreSQL: the steps.                                                  *)

LEMMA PgConclude ==
    ASSUME Pg, UNCHANGED <<cfg, valid, table>>,
           Typed', Filtered', PgFixed', PgFresh', PgLists', PgPrimary', PgBackup'
    PROVE  IInv'
  <1>1. Pg'  BY DEF Pg
  <1> QED  BY <1>1 DEF IInv, MyInv, PgInv

LEMMA PgFacts ==
    ASSUME WriterAssumption, IInv, Pg
    PROVE  /\ Typed /\ w \in State /\ cfg \in Settings
           /\ cfg.multi = FALSE /\ w.buf = <<>> /\ w.stale = FALSE
           /\ w.dead = FALSE /\ w.refused = FALSE
           /\ w.name = table[1] /\ pend = <<>> /\ pc # "wrapup"
           /\ queue \in Seq(Elements) /\ Len(queue) = N /\ \A c \in 1 .. N : queue[c] = c
           /\ w.cur \in Nat \ {0} /\ N \in Nat \ {0}
  <1>1. Typed /\ PgFixed  BY DEF IInv, PgInv
  <1>2. w \in State /\ cfg \in Settings /\ queue \in Seq(Elements)  BY <1>1 DEF Typed
  <1>3. cfg.multi = FALSE  BY <1>1, <1>2 DEF Typed, Settings
  <1>4. w.buf = <<>> /\ ~w.stale  BY <1>1, <1>3 DEF Typed
  <1>5. ~w.dead /\ ~w.refused /\ queue = Queue0 /\ pend = <<>> /\ w.name = table[1]
        /\ pc # "wrapup"
    BY <1>1 DEF PgFixed
  <1>6. w.stale = FALSE /\ w.dead = FALSE /\ w.refused = FALSE /\ w.cur \in Nat \ {0}
    BY <1>2, <1>4, <1>5, TypedFields
  <1>7. N \in Nat \ {0}  BY DEF WriterAssumption
  <1>8. Len(queue) = N /\ \A c \in 1 .. N : queue[c] = c  BY <1>5, <1>7 DEF Queue0
  <1> QED  BY <1>1, <1>2, <1>3, <1>4, <1>5, <1>6, <1>7, <1>8

(* Nothing has been sent.                                                  *)
LEMMA PgNothing ==
    ASSUME WriterAssumption, w'.cur = 1, mode' = "no", bulk' = <<>>, again' = <<>>,
           \A d \in DBs : w'.tx[d] = <<>> /\ w'.rows[d] = <<>>,
           pc' \in {"connect", "start", "loop"}
    PROVE  PgFresh' /\ PgLists' /\ PgPrimary' /\ PgBackup'
  <1>1. Of(<<>>) = {} /\ Once(<<>>)  BY OfRows
  <1>2. Members(<<>>) = {} /\ Distinct(<<>>) /\ Len(<<>>) = 0  BY MembersSeq
  <1>3. Passed' = {}  BY DEF Passed, Elements, WriterAssumption
  <1>4. /\ w'.tx["p"] = <<>> /\ w'.rows["p"] = <<>>
        /\ w'.tx["b"] = <<>> /\ w'.rows["b"] = <<>>
    BY DEF DBs
  <1>5. PgFresh'  BY DEF PgFresh
  <1>6. PgLists'  BY <1>2, <1>3 DEF PgLists, Members, Distinct
  <1>7. PgPrimary'
    <2>1. Once(w.tx["p"])' /\ Of(w.tx["p"])' = Passed'
      BY <1>1, <1>3, <1>4 DEF Once, Of
    <2> QED  BY <1>4, <2>1 DEF PgPrimary
  <1>8. PgBackup'  BY <1>4 DEF PgBackup
  <1> QED  BY <1>5, <1>6, <1>7, <1>8

LEMMA PgConnect ==
    ASSUME WriterAssumption, IInv, Pg, Connect PROVE IInv'
  <1>0. /\ w \in State /\ Typed /\ w.buf = <<>> /\ w.dead = FALSE /\ w.refused = FALSE
        /\ w.stale = FALSE
    BY PgFacts
  <1>1. Same(w, w')
    <2>0. "p" \in DBs /\ "b" \in DBs /\ "p" # "b"  BY DEF DBs
    <2>1. CASE w' \in Opened(w, "p")  BY <1>0, <2>0, <2>1, SameOpened
    <2>2. CASE w' = DbFail(w, "p")  BY <1>0, <2>0, <2>2, SameDb
    <2> QED  BY <2>1, <2>2 DEF Connect
  <1>2. /\ pc = "connect" /\ pc' = "start"
        /\ UNCHANGED <<cfg, valid, table, queue, pend, bulk, again, mode, next, last>>
    BY DEF Connect
  <1>3. Typed'  BY <1>0, <1>1, <1>2 DEF Typed, Same, Pg, Locations
  <1>4. Filtered'  BY <1>1, <1>2 DEF IInv, Filtered, Same, Committed
  <1>5. PgFixed'  BY <1>1, <1>2 DEF IInv, PgInv, PgFixed, Same
  <1>6. PgFresh' /\ PgLists' /\ PgPrimary' /\ PgBackup'
    <2>1. /\ w.cur = 1 /\ mode = "no" /\ bulk = <<>> /\ again = <<>>
          /\ \A d \in DBs : w.tx[d] = <<>> /\ w.rows[d] = <<>>
      BY <1>2 DEF IInv, PgInv, PgFresh
    <2>2. w'.cur = w.cur /\ w'.tx = w.tx /\ w'.rows = w.rows  BY <1>1 DEF Same
    <2> QED  BY <1>2, <2>1, <2>2, PgNothing
  <1> QED  BY <1>2, <1>3, <1>4, <1>5, <1>6, PgConclude

LEMMA PgStart ==
    ASSUME WriterAssumption, IInv, Pg, Start PROVE IInv'
  <1> DEFINE v == Fresh(w)
  <1>0. /\ w \in State /\ Typed /\ w.buf = <<>> /\ w.dead = FALSE /\ w.refused = FALSE
        /\ N \in Nat \ {0} /\ Len(queue) = N /\ \A c \in 1 .. N : queue[c] = c
    BY PgFacts
  <1>1. /\ v \in State /\ Same(v, w')
        /\ v.rows = w.rows /\ v.tx = w.tx /\ v.cur = 1 /\ v.name = table[queue[1]]
        /\ v.buf = <<>> /\ v.stale = FALSE
        /\ v.refused = w.refused /\ v.dead = w.dead
    BY <1>0, StartOutcome
  <1> HIDE DEF v
  <1>2. /\ pc = "start" /\ pc' = "loop" /\ bulk' = <<>> /\ again' = <<>>
        /\ UNCHANGED <<cfg, valid, table, queue, pend, mode, next, last>>
    BY DEF Start
  <1>3. /\ w' \in State /\ w'.cur = 1 /\ w'.buf = <<>> /\ w'.stale = FALSE
        /\ w'.rows = w.rows /\ w'.tx = w.tx /\ w'.dead = w.dead
        /\ w'.refused = w.refused /\ w'.name = table[queue[1]]
    BY <1>1 DEF Same
  <1>4. Typed'
    <2>1. Len(<<>>) = 0 /\ <<>> \in Seq(Elements)  OBVIOUS
    <2> QED  BY <1>0, <1>2, <1>3, <2>1 DEF WriterAssumption, Typed, Pg, Locations
  <1>5. Filtered'  BY <1>2, <1>3 DEF IInv, Filtered, Committed
  <1>6. PgFixed'
    <2>1. w'.name = table[1]  BY <1>0, <1>3
    <2> QED  BY <1>0, <1>2, <1>3, <2>1 DEF IInv, PgInv, PgFixed
  <1>7. PgFresh' /\ PgLists' /\ PgPrimary' /\ PgBackup'
    <2>1. mode = "no" /\ \A d \in DBs : w.tx[d] = <<>> /\ w.rows[d] = <<>>
      BY <1>2 DEF IInv, PgInv, PgFresh
    <2> QED  BY <1>2, <1>3, <2>1, PgNothing
  <1> QED  BY <1>2, <1>4, <1>5, <1>6, <1>7, PgConclude

(* The loop, with the element in hand.                                     *)
LEMMA PgLoop ==
    ASSUME WriterAssumption, IInv, Pg, pc = "loop"
    PROVE  /\ w.rows["p"] = <<>> /\ w.rows["b"] = <<>>
           /\ ~w.fail["p"] => Once(w.tx["p"]) /\ Of(w.tx["p"]) = Passed
           /\ ~w.fail["p"] => w.tx["b"] = <<>>
           /\ (~w.fail["b"] /\ ~w.conn["b"]) => w.tx["b"] = <<>>
           /\ PgLists
  BY DEF IInv, PgInv, PgPrimary, PgBackup

(* What the loop has to keep.                                              *)
LEMMA PgLooped ==
    ASSUME PgLists', pc' = "loop",
           w'.rows["p"] = <<>>, w'.rows["b"] = <<>>,
           ~w'.fail["p"] => Once(w'.tx["p"]) /\ Of(w'.tx["p"]) = Passed',
           ~w'.fail["p"] => w'.tx["b"] = <<>>,
           (~w'.fail["b"] /\ ~w'.conn["b"]) => w'.tx["b"] = <<>>
    PROVE  PgFresh' /\ PgPrimary' /\ PgBackup'
  <1>1. PgFresh'  BY DEF PgFresh
  <1>2. PgPrimary'
    <2>1. ~w'.fail["p"] => Once(w.tx["p"])' /\ Of(w.tx["p"])' = Passed'  BY DEF Once, Of
    <2> QED  BY <2>1 DEF PgPrimary
  <1>3. PgBackup'  BY DEF PgBackup
  <1> QED  BY <1>1, <1>2, <1>3

LEMMA PassedOn ==
    ASSUME N \in Nat, NEW c \in 1 .. N, w.cur = c, w'.cur = c + 1, valid' = valid
    PROVE  /\ Committed(c) => Passed' = Passed \union {c}
           /\ ~Committed(c) => Passed' = Passed
           /\ c \notin Passed
  <1>1. \A x \in Elements : (x < c + 1) = (x < c \/ x = c)  BY DEF Elements
  <1>2. Passed' = {x \in Elements : x < c + 1 /\ Committed(x)}
    BY DEF Passed, Committed
  <1>3. Passed = {x \in Elements : x < c /\ Committed(x)}  BY DEF Passed
  <1>4. c \in Elements /\ ~(c < c)  BY DEF Elements
  <1> QED  BY <1>1, <1>2, <1>3, <1>4

LEMMA PgSkips ==
    ASSUME WriterAssumption, IInv, Pg, PgSkip PROVE IInv'
  <1>0. /\ w \in State /\ Typed /\ w.buf = <<>> /\ w.dead = FALSE /\ w.refused = FALSE
        /\ w.stale = FALSE /\ N \in Nat \ {0} /\ w.cur \in Nat \ {0}
        /\ Len(queue) = N /\ \A c \in 1 .. N : queue[c] = c
    BY PgFacts
  <1>1. /\ pc = "loop" /\ w.cur <= Len(queue) /\ ~Committed(queue[w.cur])
        /\ w' = Onward(w)
        /\ UNCHANGED <<cfg, valid, table, queue, pend, bulk, again, mode, next, last, pc>>
    BY DEF PgSkip, Looping, InHand, Onward
  <1>2. w.cur \in 1 .. N /\ ~Committed(w.cur)  BY <1>0, <1>1
  <1>3. /\ w' \in State /\ w'.cur = w.cur + 1
        /\ w'.fail = w.fail /\ w'.conn = w.conn /\ w'.tx = w.tx /\ w'.rows = w.rows
        /\ w'.name = w.name /\ w'.buf = w.buf
        /\ w'.stale = w.stale /\ w'.refused = w.refused /\ w'.dead = w.dead
    BY <1>0, <1>1, OnwardSame
  <1>4. Passed' = Passed  BY <1>0, <1>1, <1>2, <1>3, PassedOn
  <1>5. Typed'
    <2>1. w'.cur <= Len(queue) + 1  BY <1>0, <1>2, <1>3
    <2> QED  BY <1>0, <1>1, <1>3, <2>1 DEF Typed, Pg
  <1>6. Filtered'  BY <1>1, <1>3 DEF IInv, Filtered, Committed
  <1>7. PgFixed'  BY <1>1, <1>3 DEF IInv, PgInv, PgFixed
  <1>8. PgLists'
    <2>1. PgLists  BY <1>1, PgLoop
    <2>2. Len(bulk) \in Nat /\ Len(again) \in Nat  BY <1>0 DEF Typed
    <2>3. Len(bulk) < w'.cur /\ Len(again) < w'.cur  BY <1>0, <1>3, <2>1, <2>2 DEF PgLists
    <2> QED  BY <1>1, <1>3, <1>4, <2>1, <2>3 DEF PgLists, Distinct, Members
  <1>9. /\ w.rows["p"] = <<>> /\ w.rows["b"] = <<>>
        /\ ~w.fail["p"] => Once(w.tx["p"]) /\ Of(w.tx["p"]) = Passed
        /\ ~w.fail["p"] => w.tx["b"] = <<>>
        /\ (~w.fail["b"] /\ ~w.conn["b"]) => w.tx["b"] = <<>>
    BY <1>1, PgLoop
  <1>10. PgFresh' /\ PgPrimary' /\ PgBackup'  BY <1>1, <1>3, <1>4, <1>8, <1>9, PgLooped
  <1> QED  BY <1>1, <1>5, <1>6, <1>7, <1>8, <1>10, PgConclude

(* The row of an element.                                                  *)
LEMMA RowOf ==
    ASSUME NEW s \in State, NEW e \in Elements
    PROVE  Row(s, e) \in Rows /\ Row(s, e)[1] = e
  BY TypedFields DEF Row, Rows

LEMMA PgSends ==
    ASSUME WriterAssumption, IInv, Pg, PgSend PROVE IInv'
  <1> DEFINE e == w.cur
  <1>0. /\ w \in State /\ cfg \in Settings
        /\ Typed /\ w.buf = <<>> /\ w.dead = FALSE /\ w.refused = FALSE
        /\ w.stale = FALSE /\ N \in Nat \ {0} /\ w.cur \in Nat \ {0}
        /\ Len(queue) = N /\ \A c \in 1 .. N : queue[c] = c
    BY PgFacts
  <1>1. /\ pc = "loop" /\ w.cur <= Len(queue) /\ Committed(queue[w.cur])
        /\ bulk' = Append(bulk, queue[w.cur])
        /\ UNCHANGED <<cfg, valid, table, queue, pend, next, last, pc>>
    BY DEF PgSend, Looping, InHand
  <1>2. e \in 1 .. N /\ e \in Elements /\ queue[w.cur] = e /\ Committed(e)
    BY <1>0, <1>1 DEF Elements
  <1>3. PICK o \in sql_query(w, queue[w.cur], FALSE) :
           IF o.ok
           THEN w' = Onward(o.s) /\ UNCHANGED <<again, mode>>
           ELSE /\ w' = Onward(IF mode = "no" THEN DbFail(o.s, "p") ELSE o.s)
                /\ again' = Append(again, queue[w.cur]) /\ mode' = "specific"
    BY DEF PgSend, InHand, Onward
  <1> DEFINE t == o.s
  <1>4. PgQuery(w, t, o.ok, e) /\ o.ok \in BOOLEAN
    BY <1>0, <1>2, <1>3, PgQueryOutcome
  <1> HIDE DEF t
  <1>5. /\ t \in State
        /\ t.rows = w.rows /\ t.name = w.name /\ t.cur = w.cur /\ t.buf = w.buf
        /\ t.stale = w.stale /\ t.refused = w.refused /\ t.dead = w.dead
    BY <1>4 DEF PgQuery
  <1>6. PICK x \in State :
          /\ w' = Onward(x) /\ Same(t, x)
          /\ o.ok => x = t
          /\ ~o.ok => /\ x.fail["p"] = TRUE /\ x.fail["b"] = t.fail["b"]
                      /\ x.conn["b"] = t.conn["b"]
    <2>0. "p" \in DBs /\ "b" \in DBs /\ "p" # "b"  BY DEF DBs
    <2>1. Same(t, t)  BY <1>5 DEF Same
    <2>2. CASE o.ok  BY <1>3, <1>5, <2>1, <2>2 DEF t
    <2>3. CASE ~o.ok /\ mode = "no"
      <3>1. w' = Onward(DbFail(t, "p"))  BY <1>3, <2>3 DEF t
      <3>2. Same(t, DbFail(t, "p")) /\ DbFail(t, "p").fail["p"] = TRUE
        BY <1>5, <2>0, SameDb
      <3>3. DbFail(t, "p").fail["b"] = t.fail["b"] /\ DbFail(t, "p").conn["b"] = t.conn["b"]
        BY <1>5, <2>0, OtherDb
      <3>4. DbFail(t, "p") \in State  BY <3>2 DEF Same
      <3> QED  BY <2>3, <3>1, <3>2, <3>3, <3>4
    <2>4. CASE ~o.ok /\ mode # "no"
      <3>1. w' = Onward(t)  BY <1>3, <2>4 DEF t
      <3>2. t.fail["p"]  BY <1>4, <2>4 DEF PgQuery
      <3>3. t.fail["p"] = TRUE  BY <1>5, <2>0, <3>2, TypedFields
      <3> QED  BY <1>5, <2>1, <2>4, <3>1, <3>3
    <2> QED  BY <1>4, <2>2, <2>3, <2>4
  <1>7. /\ w' \in State /\ w'.cur = w.cur + 1
        /\ w'.fail = x.fail /\ w'.conn = x.conn /\ w'.tx = t.tx /\ w'.rows = w.rows
        /\ w'.name = w.name /\ w'.buf = w.buf
        /\ w'.stale = w.stale /\ w'.refused = w.refused /\ w'.dead = w.dead
    BY <1>5, <1>6, OnwardSame DEF Same
  <1> HIDE DEF e
  <1>8. Passed' = Passed \union {e} /\ e \notin Passed
    BY <1>0, <1>1, <1>2, <1>7, PassedOn DEF e
  <1>9. /\ bulk \in Seq(Elements) /\ again \in Seq(Elements)
        /\ Len(bulk) \in Nat /\ Len(again) \in Nat
    BY <1>0 DEF Typed
  <1>10. PgLists  BY <1>1, PgLoop
  <1>11. /\ Members(bulk) = Passed /\ Distinct(bulk)
         /\ Len(bulk) < w.cur /\ Len(again) < w.cur
    BY <1>10 DEF PgLists
  <1>12. /\ bulk' \in Seq(Elements) /\ Len(bulk') = Len(bulk) + 1
         /\ Members(bulk') = Passed' /\ Distinct(bulk') /\ Len(bulk') < w'.cur
    <2>1. /\ bulk' \in Seq(Elements) /\ Len(bulk') = Len(bulk) + 1
          /\ Members(bulk') = Members(bulk) \union {e}
          /\ (Distinct(bulk) /\ e \notin Members(bulk)) => Distinct(bulk')
      BY <1>1, <1>2, <1>9, MembersSeq
    <2>2. Len(bulk') < w'.cur  BY <1>0, <1>7, <1>9, <1>11, <2>1
    <2> QED  BY <1>8, <1>11, <2>1, <2>2
  <1>13. /\ w.rows["p"] = <<>> /\ w.rows["b"] = <<>>
         /\ ~w.fail["p"] => Once(w.tx["p"]) /\ Of(w.tx["p"]) = Passed
         /\ ~w.fail["p"] => w.tx["b"] = <<>>
         /\ (~w.fail["b"] /\ ~w.conn["b"]) => w.tx["b"] = <<>>
    BY <1>1, PgLoop
  <1>14. PgFixed'  BY <1>1, <1>7 DEF IInv, PgInv, PgFixed
  <1>15. w'.cur <= Len(queue) + 1  BY <1>0, <1>2, <1>7 DEF e
  <1>16. Row(w, e) \in Rows /\ Row(w, e)[1] = e  BY <1>0, <1>2, RowOf
  <1>17. w.tx["p"] \in Seq(Rows) /\ w.tx["b"] \in Seq(Rows)
    BY <1>0, TypedFields DEF DBs
  <1>18. CASE o.ok
    <2>1. /\ ~w.fail["p"] /\ t.fail = w.fail /\ t.conn = w.conn
          /\ t.tx["p"] = Append(w.tx["p"], Row(w, e)) /\ t.tx["b"] = w.tx["b"]
      BY <1>4, <1>18 DEF PgQuery
    <2>2. again' = again /\ mode' = mode /\ w'.fail = w.fail /\ w'.conn = w.conn
      BY <1>3, <1>6, <1>7, <1>18, <2>1
    <2>3. Typed'  BY <1>0, <1>1, <1>7, <1>12, <1>15, <2>2 DEF Typed, Pg
    <2>4. Of(w'.tx["p"]) = Of(w.tx["p"]) \union {e}
      BY <1>7, <1>16, <1>17, <2>1, OfRows
    <2>5. Once(w'.tx["p"])
      <3>1. Once(w.tx["p"]) /\ e \notin Of(w.tx["p"])  BY <1>8, <1>13, <2>1
      <3> QED  BY <1>7, <1>16, <1>17, <2>1, <3>1, OfRows
    <2>6. Filtered'
      <3>1. \A y \in Of(w'.rows["p"]) \union Of(w'.tx["p"]) : ~cfg.multi => Committed(y)
        BY <1>2, <1>7, <2>4 DEF IInv, Filtered
      <3> QED  BY <1>1, <3>1 DEF Filtered, Committed
    <2>7. mode = "no" /\ again = <<>>  BY <1>0, <1>10, <2>1 DEF PgLists, Typed
    <2>8. PgLists'
      <3>1. Len(again) < w'.cur  BY <1>0, <1>7, <1>9, <1>11
      <3>2. Members(again) = {}  BY <2>7, MembersSeq
      <3>3. Distinct(bulk)' /\ Members(bulk)' = Passed' /\ Members(again)' = {}
        BY <1>12, <2>2, <3>2 DEF Distinct, Members
      <3>4. ~w'.fail["p"]  BY <2>1, <2>2
      <3> QED  BY <1>1, <1>12, <2>2, <2>7, <3>1, <3>3, <3>4 DEF PgLists
    <2>9. /\ Once(w'.tx["p"]) /\ Of(w'.tx["p"]) = Passed' /\ w'.tx["b"] = <<>>
      BY <1>7, <1>8, <1>13, <2>1, <2>4, <2>5
    <2>10. PgFresh' /\ PgPrimary' /\ PgBackup'
      BY <1>1, <1>7, <1>13, <2>8, <2>9, PgLooped
    <2> QED  BY <1>1, <1>14, <2>3, <2>6, <2>8, <2>10, PgConclude
  <1>19. CASE ~o.ok
    <2>1. /\ t.tx["p"] = w.tx["p"]
          /\ w.fail["b"] => t.fail["b"]
          /\ (cfg.backup /\ ~t.fail["b"]) => t.conn["b"]
          /\ ~cfg.backup => /\ t.fail["b"] = w.fail["b"] /\ t.conn["b"] = w.conn["b"]
                            /\ t.tx["b"] = w.tx["b"]
      BY <1>4, <1>19 DEF PgQuery
    <2>2. again' = Append(again, e) /\ mode' = "specific"  BY <1>2, <1>3, <1>19
    <2>3. /\ w'.fail["p"] = TRUE /\ w'.fail["b"] = t.fail["b"]
          /\ w'.conn["b"] = t.conn["b"]
      BY <1>6, <1>7, <1>19
    <2>4. /\ again' \in Seq(Elements) /\ Len(again') = Len(again) + 1
          /\ Members(again') = Members(again) \union {e}
      BY <1>2, <1>9, <2>2, MembersSeq
    <2>5. Typed'  BY <1>0, <1>1, <1>7, <1>12, <1>15, <2>2, <2>4 DEF Typed, Pg
    <2>6. Filtered'
      <3>1. \A y \in Of(w'.rows["p"]) \union Of(w'.tx["p"]) : ~cfg.multi => Committed(y)
        BY <1>7, <2>1 DEF IInv, Filtered
      <3> QED  BY <1>1, <3>1 DEF Filtered, Committed
    <2>7. PgLists'
      <3>1. Len(again') < w'.cur  BY <1>0, <1>7, <1>9, <1>11, <2>4
      <3>2. Members(again) \subseteq Passed  BY <1>10 DEF PgLists
      <3>3. Members(again') \subseteq Passed'  BY <1>8, <2>4, <3>2
      <3>4. again' # <<>>  BY <1>9, <2>4
      <3>5. \A y \in Passed' : y >= again'[1] => y \in Members(again')
        <4>1. CASE again = <<>>
          <5>1. again'[1] = e  BY <1>9, <2>2, <4>1
          <5>2. \A y \in Passed : ~(y >= e)  BY <1>2 DEF Passed, Elements, e
          <5> QED  BY <1>8, <2>4, <5>1, <5>2
        <4>2. CASE again # <<>>
          <5>1. again'[1] = again[1]  BY <1>2, <1>9, <2>2, <4>2
          <5>2. \A y \in Passed : y >= again[1] => y \in Members(again)
            BY <1>10, <4>2 DEF PgLists
          <5> QED  BY <1>8, <2>4, <5>1, <5>2
        <4> QED  BY <4>1, <4>2
      <3>6. /\ Distinct(bulk)' /\ Members(bulk)' = Passed'
            /\ Members(again)' \subseteq Passed'
            /\ \A y \in Passed' : y >= again'[1] => y \in Members(again)'
        BY <1>12, <3>3, <3>5 DEF Distinct, Members
      <3> QED  BY <1>1, <1>12, <2>2, <2>3, <3>1, <3>4, <3>6 DEF PgLists
    <2>8. (~w'.fail["b"] /\ ~w'.conn["b"]) => w'.tx["b"] = <<>>
      BY <1>7, <1>13, <2>1, <2>3
    <2>9. PgFresh' /\ PgPrimary' /\ PgBackup'
      BY <1>1, <1>7, <1>13, <2>3, <2>7, <2>8, PgLooped
    <2> QED  BY <1>1, <1>14, <2>5, <2>6, <2>7, <2>9, PgConclude
  <1> QED  BY <1>18, <1>19

(* After the loop: what the steps keep.                                    *)
LEMMA PgAfter ==
    ASSUME WriterAssumption, IInv, Pg, pc \in {"again", "end"}
    PROVE  /\ w.cur = N + 1
           /\ w.fail["p"] => w.rows["p"] = <<>>
           /\ ~w.fail["p"] => Once(w.rows["p"]) /\ Of(w.rows["p"]) = Passed
           /\ ~w.fail["p"] => w.tx["b"] = <<>> /\ w.rows["b"] = <<>>
           /\ (~w.fail["b"] /\ ~w.conn["b"]) => w.tx["b"] = <<>>
           /\ PgLists
  BY DEF IInv, PgInv, PgPrimary, PgBackup

LEMMA PgPrimaryAfter ==
    ASSUME pc' \in {"again", "end", "done"}, w'.cur = N + 1,
           w'.fail["p"] => w'.rows["p"] = <<>>,
           ~w'.fail["p"] => Once(w'.rows["p"]) /\ Of(w'.rows["p"]) = Passed'
    PROVE  PgFresh' /\ PgPrimary'
  <1>1. PgFresh'  BY DEF PgFresh
  <1>2. ~w'.fail["p"] => Once(w.rows["p"])' /\ Of(w.rows["p"])' = Passed'
    BY DEF Once, Of
  <1>3. PgPrimary'  BY <1>2 DEF PgPrimary
  <1> QED  BY <1>1, <1>3

LEMMA PgCommits ==
    ASSUME WriterAssumption, IInv, Pg, PgCommit PROVE IInv'
  <1>0. /\ w \in State /\ Typed /\ w.buf = <<>> /\ w.dead = FALSE /\ w.refused = FALSE
        /\ w.stale = FALSE /\ N \in Nat \ {0} /\ w.cur \in Nat \ {0} /\ Len(queue) = N
        /\ "p" \in DBs /\ "b" \in DBs /\ "p" # "b"
    BY PgFacts DEF DBs
  <1>1. /\ pc = "loop" /\ w.cur > Len(queue) /\ pc' = "again" /\ next' = 1
        /\ ~w.fail["p"]
        /\ UNCHANGED <<cfg, valid, table, queue, pend, bulk, again, last>>
    BY DEF PgCommit, LoopEnds
  <1>2. w.cur = N + 1  BY <1>0, <1>1 DEF Typed
  <1>3. /\ w.rows["p"] = <<>> /\ w.rows["b"] = <<>>
        /\ Once(w.tx["p"]) /\ Of(w.tx["p"]) = Passed /\ w.tx["b"] = <<>>
        /\ PgLists
    BY <1>1, PgLoop
  <1>4. mode = "no" /\ again = <<>>  BY <1>0, <1>1, <1>3 DEF PgLists, Typed
  <1>5. w.tx["p"] \in Seq(Rows) /\ <<>> \in Seq(Rows)  BY <1>0, TypedFields
  <1>6. Of(<<>>) = {} /\ Once(<<>>)  BY OfRows
  <1>7. CASE /\ w' = [w EXCEPT !.rows["p"] = @ \o w.tx["p"], !.tx["p"] = <<>>]
             /\ UNCHANGED mode
    <2>1. <<>> \o w.tx["p"] = w.tx["p"]  BY <1>5
    <2>2. w' = [w EXCEPT !.rows["p"] = w.tx["p"], !.tx["p"] = <<>>]
      BY <1>0, <1>3, <1>7, <2>1 DEF State
    <2>3. w' \in State  BY <1>0, <1>5, <2>2 DEF State
    <2>4. /\ w'.rows["p"] = w.tx["p"] /\ w'.rows["b"] = w.rows["b"]
          /\ w'.tx["p"] = <<>> /\ w'.tx["b"] = w.tx["b"]
      BY <1>0, <2>2 DEF State
    <2>5. /\ w'.fail = w.fail /\ w'.conn = w.conn /\ w'.cur = w.cur /\ w'.buf = w.buf
          /\ w'.name = w.name
          /\ w'.stale = w.stale /\ w'.refused = w.refused /\ w'.dead = w.dead
      BY <1>0, <2>2 DEF State
    <2>6. Passed' = Passed  BY <1>1, <2>5 DEF Passed, Committed
    <2>7. Typed'
      BY <1>0, <1>1, <1>7, <2>3, <2>5 DEF WriterAssumption, Typed, Pg, Locations
    <2>8. Filtered'
      <3>1. \A y \in Of(w'.rows["p"]) \union Of(w'.tx["p"]) : ~cfg.multi => Committed(y)
        BY <1>6, <2>4 DEF IInv, Filtered
      <3> QED  BY <1>1, <3>1 DEF Filtered, Committed
    <2>9. PgFixed'  BY <1>1, <2>5 DEF IInv, PgInv, PgFixed
    <2>10. PgLists'
      BY <1>1, <1>3, <1>4, <1>7, <2>5, <2>6 DEF PgLists, Distinct, Members
    <2>11. ~w'.fail["p"]  BY <1>1, <2>5
    <2>12. PgFresh' /\ PgPrimary'
      BY <1>1, <1>2, <1>3, <2>4, <2>5, <2>6, <2>11, PgPrimaryAfter
    <2>13. PgBackup'
      <3>1. ToReprocess' = <<>>  BY <2>11 DEF ToReprocess
      <3>2. DOMAIN <<>> = {}  OBVIOUS
      <3> QED  BY <1>1, <1>3, <1>4, <1>7, <2>4, <3>1, <3>2 DEF PgBackup
    <2> QED  BY <1>1, <2>7, <2>8, <2>9, <2>10, <2>12, <2>13, PgConclude
  <1>8. CASE /\ w' = [(IF mode = "no" THEN DbFail(w, "p") ELSE w) EXCEPT !.tx["p"] = <<>>]
             /\ mode' = "bulk"
    <2> DEFINE t == DbFail(w, "p")
    <2>1. w' = Dropped(t, "p")  BY <1>4, <1>8 DEF Dropped
    <2>2. Same(w, t) /\ t.fail["p"] = TRUE  BY <1>0, SameDb
    <2>3. t.fail["b"] = w.fail["b"] /\ t.conn["b"] = w.conn["b"]  BY <1>0, OtherDb
    <2> HIDE DEF t
    <2>4. /\ t \in State /\ t.tx = w.tx /\ t.rows = w.rows /\ t.name = w.name
          /\ t.cur = w.cur
          /\ t.buf = w.buf /\ t.stale = w.stale /\ t.refused = w.refused /\ t.dead = w.dead
      BY <2>2 DEF Same
    <2>5. /\ w' \in State /\ w'.tx["p"] = <<>> /\ w'.tx["b"] = t.tx["b"]
          /\ w'.fail = t.fail /\ w'.conn = t.conn /\ w'.rows = t.rows /\ w'.cur = t.cur
          /\ w'.buf = t.buf /\ w'.name = t.name
          /\ w'.stale = t.stale /\ w'.refused = t.refused /\ w'.dead = t.dead
      BY <1>0, <2>1, <2>4, DroppedSame
    <2>6. Passed' = Passed  BY <1>1, <2>4, <2>5 DEF Passed, Committed
    <2>7. Typed'
      BY <1>0, <1>1, <1>8, <2>4, <2>5 DEF WriterAssumption, Typed, Pg, Locations
    <2>8. Filtered'
      <3>1. \A y \in Of(w'.rows["p"]) \union Of(w'.tx["p"]) : ~cfg.multi => Committed(y)
        BY <1>3, <1>6, <2>4, <2>5
      <3> QED  BY <1>1, <3>1 DEF Filtered, Committed
    <2>9. PgFixed'  BY <1>1, <2>4, <2>5 DEF IInv, PgInv, PgFixed
    <2>10. w'.fail["p"] = TRUE  BY <2>2, <2>5
    <2>11. PgLists'
      BY <1>1, <1>3, <1>4, <1>8, <2>4, <2>5, <2>6, <2>10 DEF PgLists, Distinct, Members
    <2>12. PgFresh' /\ PgPrimary'
      BY <1>1, <1>2, <1>3, <2>4, <2>5, <2>10, PgPrimaryAfter
    <2>13. PgBackup'
      <3>1. w'.tx["b"] = <<>> /\ w'.rows["b"] = <<>>  BY <1>3, <2>4, <2>5
      <3>2. ToReprocess' = bulk  BY <1>1, <1>8, <2>10 DEF ToReprocess
      <3>3. bulk \in Seq(Elements)  BY <1>0 DEF Typed
      <3>4. \A k \in DOMAIN bulk : ~(k < 1)  BY <3>3
      <3>5. {bulk[k] : k \in {i \in DOMAIN bulk : i < 1}} = {}  BY <3>4
      <3>6. Once(w.tx["b"])' /\ Of(w.tx["b"])' = {}  BY <1>6, <3>1 DEF Once, Of
      <3> QED  BY <1>1, <2>10, <3>1, <3>2, <3>4, <3>5, <3>6 DEF PgBackup
    <2> QED  BY <1>1, <2>7, <2>8, <2>9, <2>11, <2>12, <2>13, PgConclude
  <1> QED  BY <1>7, <1>8 DEF PgCommit

LEMMA PgNoCommit ==
    ASSUME WriterAssumption, IInv, Pg, NoCommit PROVE IInv'
  <1>0. /\ w \in State /\ Typed /\ w.buf = <<>> /\ w.dead = FALSE /\ w.refused = FALSE
        /\ w.stale = FALSE /\ N \in Nat \ {0} /\ w.cur \in Nat \ {0} /\ Len(queue) = N
        /\ "p" \in DBs /\ "b" \in DBs /\ "p" # "b"
    BY PgFacts DEF DBs
  <1>1. /\ pc = "loop" /\ w.cur > Len(queue) /\ pc' = "again" /\ next' = 1
        /\ w.fail["p"] /\ w' = Dropped(w, "p")
        /\ UNCHANGED <<cfg, valid, table, queue, pend, bulk, again, mode, last>>
    BY DEF NoCommit, LoopEnds, Dropped
  <1>2. w.cur = N + 1  BY <1>0, <1>1 DEF Typed
  <1>3. /\ w.rows["p"] = <<>> /\ w.rows["b"] = <<>>
        /\ (~w.fail["b"] /\ ~w.conn["b"]) => w.tx["b"] = <<>>
        /\ PgLists
    BY <1>1, PgLoop
  <1>4. /\ w' \in State /\ w'.tx["p"] = <<>> /\ w'.tx["b"] = w.tx["b"]
        /\ w'.fail = w.fail /\ w'.conn = w.conn /\ w'.rows = w.rows /\ w'.cur = w.cur
        /\ w'.buf = w.buf /\ w'.name = w.name
        /\ w'.stale = w.stale /\ w'.refused = w.refused /\ w'.dead = w.dead
    BY <1>0, <1>1, DroppedSame
  <1>5. Passed' = Passed  BY <1>1, <1>4 DEF Passed, Committed
  <1>6. Typed'
    BY <1>0, <1>1, <1>4 DEF WriterAssumption, Typed, Pg, Locations
  <1>7. Filtered'
    <2>1. Of(<<>>) = {}  BY OfRows
    <2>2. \A y \in Of(w'.rows["p"]) \union Of(w'.tx["p"]) : ~cfg.multi => Committed(y)
      BY <1>3, <1>4, <2>1
    <2> QED  BY <1>1, <2>2 DEF Filtered, Committed
  <1>8. PgFixed'  BY <1>1, <1>4 DEF IInv, PgInv, PgFixed
  <1>9. PgLists'
    BY <1>1, <1>3, <1>4, <1>5 DEF PgLists, Distinct, Members
  <1>10. PgFresh' /\ PgPrimary'
    BY <1>1, <1>2, <1>3, <1>4, PgPrimaryAfter
  <1>11. PgBackup'
    <2>1. mode # "bulk"  BY <1>1, <1>3 DEF PgLists
    <2>2. ToReprocess' \in Seq(Elements)
      <3>1. <<>> \in Seq(Elements)  OBVIOUS
      <3> QED  BY <1>6, <3>1 DEF ToReprocess, Typed
    <2>3. \A k \in DOMAIN ToReprocess' : ~(k < 1)  BY <2>2
    <2> QED  BY <1>1, <1>3, <1>4, <2>1, <2>3 DEF PgBackup
  <1> QED  BY <1>1, <1>6, <1>7, <1>8, <1>9, <1>10, <1>11, PgConclude

(* The list that is sent again.                                            *)
LEMMA ListAgain ==
    ASSUME WriterAssumption, IInv, Pg, pc = "again", ToReprocess # <<>>
    PROVE  /\ w.fail["p"] /\ mode \in {"specific", "bulk"}
           /\ ToReprocess = IF mode = "bulk" THEN bulk ELSE again
           /\ ToReprocess \in Seq(Elements) /\ Len(ToReprocess) \in 1 .. N
           /\ \A k \in DOMAIN ToReprocess : Committed(ToReprocess[k])
  <1>1. Typed /\ N \in Nat \ {0} /\ w.cur = N + 1 /\ PgLists  BY PgFacts, PgAfter
  <1>2. /\ w.fail["p"] /\ mode \in {"specific", "bulk"}
        /\ ToReprocess = IF mode = "bulk" THEN bulk ELSE again
    BY DEF ToReprocess
  <1>3. /\ bulk \in Seq(Elements) /\ again \in Seq(Elements)
        /\ Len(bulk) < N + 1 /\ Len(again) < N + 1
        /\ Members(bulk) \subseteq Passed /\ Members(again) \subseteq Passed
    BY <1>1 DEF Typed, PgLists
  <1>4. /\ \A k \in DOMAIN bulk : Committed(bulk[k])
        /\ \A k \in DOMAIN again : Committed(again[k])
    BY <1>3 DEF Members, Passed
  <1>5. ToReprocess \in Seq(Elements) /\ Len(ToReprocess) < N + 1  BY <1>2, <1>3
  <1>6. Len(ToReprocess) \in 1 .. N  BY <1>1, <1>5
  <1> QED  BY <1>2, <1>4, <1>5, <1>6

LEMMA PgSendsAgain ==
    ASSUME WriterAssumption, IInv, Pg, PgAgain PROVE IInv'
  <1> DEFINE L == ToReprocess
             e == L[next]
  <1>0. /\ w \in State /\ cfg \in Settings /\ Typed /\ w.buf = <<>> /\ w.dead = FALSE
        /\ w.refused = FALSE /\ w.stale = FALSE /\ N \in Nat \ {0}
        /\ "p" \in DBs /\ "b" \in DBs /\ "p" # "b"
    BY PgFacts DEF DBs
  <1>1. /\ pc = "again" /\ next <= Len(L) /\ next' = next + 1
        /\ UNCHANGED <<cfg, valid, table, queue, pend, bulk, again, mode, last, pc>>
    BY DEF PgAgain
  <1>2. next \in 1 .. (N + 1) /\ bulk \in Seq(Elements)  BY <1>0 DEF Typed
  <1>3. L # <<>>  BY <1>1, <1>2
  <1>4. /\ w.fail["p"] /\ mode \in {"specific", "bulk"}
        /\ L = IF mode = "bulk" THEN bulk ELSE again
        /\ L \in Seq(Elements) /\ Len(L) \in 1 .. N
        /\ \A k \in DOMAIN L : Committed(L[k])
    BY <1>1, <1>3, ListAgain
  <1>5. PICK o \in sql_query(w, L[next], FALSE) : w' = o.s  BY DEF PgAgain
  <1> HIDE DEF L
  <1>6. next \in DOMAIN L /\ e \in Elements /\ Committed(e) /\ next' \in 1 .. (N + 1)
    BY <1>0, <1>1, <1>2, <1>4
  <1>7. PgQuery(w, w', o.ok, e) /\ o.ok \in BOOLEAN
    BY <1>0, <1>5, <1>6, PgQueryOutcome
  <1> HIDE DEF e
  <1>8. /\ w' \in State
        /\ w'.rows = w.rows /\ w'.name = w.name /\ w'.cur = w.cur /\ w'.buf = w.buf
        /\ w'.stale = w.stale /\ w'.refused = w.refused /\ w'.dead = w.dead
        /\ w'.fail["p"] /\ w'.tx["p"] = w.tx["p"]
        /\ w.fail["b"] => w'.fail["b"]
        /\ (cfg.backup /\ ~w'.fail["b"])
             => w'.conn["b"] /\ w'.tx["b"] = Append(w.tx["b"], Row(w, e))
        /\ ~cfg.backup => /\ w'.fail["b"] = w.fail["b"] /\ w'.conn["b"] = w.conn["b"]
                          /\ w'.tx["b"] = w.tx["b"]
    BY <1>4, <1>7 DEF PgQuery
  <1>9. Passed' = Passed  BY <1>1, <1>8 DEF Passed, Committed
  <1>10. /\ w.cur = N + 1 /\ w.rows["p"] = <<>> /\ PgLists
         /\ (~w.fail["b"] /\ ~w.conn["b"]) => w.tx["b"] = <<>>
    BY <1>1, <1>4, PgAfter
  <1>11. Typed'
    BY <1>0, <1>1, <1>6, <1>8 DEF WriterAssumption, Typed, Pg, Locations
  <1>12. Filtered'  BY <1>1, <1>8 DEF IInv, Filtered, Committed
  <1>13. PgFixed'  BY <1>1, <1>8 DEF IInv, PgInv, PgFixed
  <1>14. PgLists'
    BY <1>1, <1>4, <1>8, <1>9, <1>10 DEF PgLists, Distinct, Members
  <1>15. PgFresh' /\ PgPrimary'  BY <1>1, <1>8, <1>10, PgPrimaryAfter
  <1>16. ToReprocess' = L  BY <1>1, <1>4, <1>8 DEF ToReprocess
  <1>17. (~w'.fail["b"] /\ ~w'.conn["b"]) => w'.tx["b"] = <<>>  BY <1>8, <1>10
  <1>18. w'.rows["b"] = <<>>  BY <1>1, <1>8 DEF IInv, PgInv, PgBackup
  <1>19. ASSUME cfg.backup, ~w'.fail["b"]
         PROVE  /\ \A k \in DOMAIN L : k < next' => L[k] \in Of(w'.tx["b"])
                /\ mode = "bulk" =>
                     /\ Once(w'.tx["b"])
                     /\ Of(w'.tx["b"]) = {bulk[k] : k \in {i \in DOMAIN bulk : i < next'}}
    <2>1. ~w.fail["b"] /\ w'.tx["b"] = Append(w.tx["b"], Row(w, e))  BY <1>8, <1>19
    <2>2. BackupWorks  BY <1>19, <2>1 DEF BackupWorks
    <2>3. /\ \A k \in DOMAIN L : k < next => L[k] \in Of(w.tx["b"])
          /\ mode = "bulk" =>
               /\ Once(w.tx["b"])
               /\ Of(w.tx["b"]) = {bulk[k] : k \in {i \in DOMAIN bulk : i < next}}
      BY <1>1, <2>2 DEF IInv, PgInv, PgBackup, L
    <2>4. w.tx["b"] \in Seq(Rows)  BY <1>0, TypedFields
    <2>5. Row(w, e) \in Rows /\ Row(w, e)[1] = e  BY <1>0, <1>6, RowOf
    <2>6. /\ Of(w'.tx["b"]) = Of(w.tx["b"]) \union {e}
          /\ (Once(w.tx["b"]) /\ e \notin Of(w.tx["b"])) => Once(w'.tx["b"])
      BY <2>1, <2>4, <2>5, OfRows
    <2>7. \A k \in DOMAIN L : (k < next') = (k < next \/ k = next)
      BY <1>1, <1>2, <1>4
    <2>8. \A k \in DOMAIN L : k < next' => L[k] \in Of(w'.tx["b"])
      BY <2>3, <2>6, <2>7 DEF e
    <2>9. ASSUME mode = "bulk"
          PROVE  /\ Once(w'.tx["b"])
                 /\ Of(w'.tx["b"]) = {bulk[k] : k \in {i \in DOMAIN bulk : i < next'}}
      <3>1. L = bulk  BY <1>4, <2>9
      <3>2. /\ Once(w.tx["b"])
            /\ Of(w.tx["b"]) = {bulk[k] : k \in {i \in DOMAIN bulk : i < next}}
        BY <2>3, <2>9
      <3>3. \A k \in DOMAIN bulk : (k < next') = (k < next \/ k = next)  BY <2>7, <3>1
      <3>4. e = bulk[next] /\ next \in DOMAIN bulk  BY <1>6, <3>1 DEF e
      <3>5. {i \in DOMAIN bulk : i < next'} = {i \in DOMAIN bulk : i < next} \union {next}
        BY <3>3, <3>4
      <3>6. Of(w'.tx["b"]) = {bulk[k] : k \in {i \in DOMAIN bulk : i < next'}}
        BY <2>6, <3>2, <3>4, <3>5
      <3>7. e \notin Of(w.tx["b"])
        <4>1. Distinct(bulk)  BY <1>10 DEF PgLists
        <4>2. SUFFICES ASSUME NEW k \in DOMAIN bulk, k < next, bulk[k] = e PROVE FALSE
          BY <3>2
        <4>3. k = next  BY <3>4, <4>1, <4>2 DEF Distinct
        <4> QED  BY <1>2, <4>2, <4>3
      <3> QED  BY <2>6, <3>2, <3>6, <3>7
    <2> QED  BY <2>8, <2>9
  <1>20. PgBackup'
    <2>1. BackupWorks' => cfg.backup /\ ~w'.fail["b"]  BY <1>1 DEF BackupWorks
    <2>2. /\ Once(w'.tx["b"]) => Once(w.tx["b"])'
          /\ Of(w'.tx["b"]) = Of(w.tx["b"])'
      BY DEF Once, Of
    <2>3. BackupWorks' =>
            /\ \A k \in DOMAIN L : k < next' => L[k] \in Of(w.tx["b"])'
            /\ mode = "bulk" =>
                 /\ Once(w.tx["b"])'
                 /\ Of(w.tx["b"])' = {bulk[k] : k \in {i \in DOMAIN bulk : i < next'}}
      BY <1>19, <2>1, <2>2
    <2> QED  BY <1>1, <1>8, <1>16, <1>17, <1>18, <2>3 DEF PgBackup
  <1> QED  BY <1>1, <1>11, <1>12, <1>13, <1>14, <1>15, <1>20, PgConclude

LEMMA PgEnds ==
    ASSUME WriterAssumption, IInv, Pg, PgEnd PROVE IInv'
  <1>0. /\ w \in State /\ Typed /\ w.buf = <<>> /\ w.dead = FALSE
        /\ w.refused = FALSE /\ w.stale = FALSE /\ N \in Nat \ {0}
        /\ "p" \in DBs /\ "b" \in DBs /\ "p" # "b"
    BY PgFacts DEF DBs
  <1>1. /\ pc = "again" /\ next > Len(ToReprocess) /\ pc' = "end"
        /\ UNCHANGED <<cfg, valid, table, queue, pend, bulk, again, mode, next, last>>
    BY DEF PgEnd
  <1>2. /\ w.cur = N + 1 /\ PgLists
        /\ w.fail["p"] => w.rows["p"] = <<>>
        /\ ~w.fail["p"] => Once(w.rows["p"]) /\ Of(w.rows["p"]) = Passed
        /\ ~w.fail["p"] => w.tx["b"] = <<>> /\ w.rows["b"] = <<>>
        /\ (~w.fail["b"] /\ ~w.conn["b"]) => w.tx["b"] = <<>>
    BY <1>1, PgAfter
  <1>3. w.rows["b"] = <<>>  BY <1>1 DEF IInv, PgInv, PgBackup
  <1>4. w.tx["b"] \in Seq(Rows) /\ <<>> \in Seq(Rows)  BY <1>0, TypedFields
  (* What was sent again is all there.                                     *)
  <1>5. BackupWorks => /\ Members(ToReprocess) \subseteq Of(w.tx["b"])
                       /\ mode = "bulk" => /\ Once(w.tx["b"])
                                           /\ Of(w.tx["b"]) = Members(bulk)
    <2>1. SUFFICES ASSUME BackupWorks
                   PROVE  /\ Members(ToReprocess) \subseteq Of(w.tx["b"])
                          /\ mode = "bulk" => /\ Once(w.tx["b"])
                                              /\ Of(w.tx["b"]) = Members(bulk)
      OBVIOUS
    <2>2. /\ \A k \in DOMAIN ToReprocess :
               k < next => ToReprocess[k] \in Of(w.tx["b"])
          /\ mode = "bulk" =>
               /\ Once(w.tx["b"])
               /\ Of(w.tx["b"]) = {bulk[k] : k \in {i \in DOMAIN bulk : i < next}}
      BY <1>1, <2>1 DEF IInv, PgInv, PgBackup
    <2>3. next \in Nat /\ bulk \in Seq(Elements) /\ again \in Seq(Elements)
      BY <1>0 DEF Typed
    <2>4. ToReprocess \in Seq(Elements)
      <3>1. <<>> \in Seq(Elements)  OBVIOUS
      <3> QED  BY <2>3, <3>1 DEF ToReprocess
    <2>5. \A k \in DOMAIN ToReprocess : k < next  BY <1>1, <2>3, <2>4
    <2>6. Members(ToReprocess) \subseteq Of(w.tx["b"])  BY <2>2, <2>5 DEF Members
    <2>7. ASSUME mode = "bulk" PROVE Of(w.tx["b"]) = Members(bulk)
      <3>1. ToReprocess = bulk  BY <1>2, <2>7 DEF PgLists, ToReprocess
      <3>2. {i \in DOMAIN bulk : i < next} = DOMAIN bulk  BY <2>5, <3>1
      <3> QED  BY <2>2, <2>7, <3>2 DEF Members
    <2> QED  BY <2>2, <2>6, <2>7
  (* The three ends.                                                       *)
  <1>6. /\ w' \in State
        /\ w'.name = w.name /\ w'.cur = w.cur /\ w'.buf = w.buf
        /\ w'.stale = w.stale /\ w'.refused = w.refused /\ w'.dead = w.dead
        /\ w'.fail["p"] = w.fail["p"] /\ w'.tx["p"] = w.tx["p"]
        /\ w'.rows["p"] = w.rows["p"]
        /\ (~w'.fail["b"] /\ ~w'.conn["b"]) => w'.tx["b"] = <<>>
        /\ w.tx["b"] = <<>> => w'.tx["b"] = <<>> /\ w'.rows["b"] = <<>>
        /\ ~w'.fail["b"] => ~w.fail["b"] /\ w'.rows["b"] = w.tx["b"]
    <2>1. CASE w.conn["b"] /\ w' = [w EXCEPT !.rows["b"] = @ \o w.tx["b"], !.tx["b"] = <<>>]
      <3>1. <<>> \o w.tx["b"] = w.tx["b"]  BY <1>4
      <3>2. w' = [w EXCEPT !.rows["b"] = w.tx["b"], !.tx["b"] = <<>>]
        BY <1>0, <1>3, <2>1, <3>1 DEF State
      <3>3. w' \in State  BY <1>0, <1>4, <3>2 DEF State
      <3>4. /\ w'.rows["b"] = w.tx["b"] /\ w'.rows["p"] = w.rows["p"]
            /\ w'.tx["b"] = <<>> /\ w'.tx["p"] = w.tx["p"]
        BY <1>0, <3>2 DEF State
      <3>5. /\ w'.fail = w.fail /\ w'.conn = w.conn /\ w'.cur = w.cur /\ w'.buf = w.buf
            /\ w'.name = w.name
            /\ w'.stale = w.stale /\ w'.refused = w.refused /\ w'.dead = w.dead
        BY <1>0, <3>2 DEF State
      <3> QED  BY <3>3, <3>4, <3>5
    <2>2. CASE ~w.conn["b"] /\ w' = w  BY <1>0, <1>2, <1>3, <2>2
    <2>3. CASE w' = Dropped(DbFail(w, "b"), "b")
      <3> DEFINE t == DbFail(w, "b")
      <3>1. Same(w, t) /\ t.fail["b"] = TRUE  BY <1>0, SameDb
      <3>2. t.fail["p"] = w.fail["p"]  BY <1>0, OtherDb
      <3>3. w' = Dropped(t, "b")  BY <2>3
      <3> HIDE DEF t
      <3>4. /\ t \in State /\ t.tx = w.tx /\ t.rows = w.rows /\ t.name = w.name
            /\ t.cur = w.cur /\ t.buf = w.buf /\ t.stale = w.stale
            /\ t.refused = w.refused /\ t.dead = w.dead
        BY <3>1 DEF Same
      <3>5. /\ w' \in State /\ w'.tx["b"] = <<>> /\ w'.tx["p"] = t.tx["p"]
            /\ w'.fail = t.fail /\ w'.rows = t.rows /\ w'.cur = t.cur
            /\ w'.buf = t.buf /\ w'.name = t.name
            /\ w'.stale = t.stale /\ w'.refused = t.refused /\ w'.dead = t.dead
        BY <1>0, <3>3, <3>4, DroppedSame
      <3> QED  BY <1>3, <3>1, <3>2, <3>4, <3>5
    <2> QED  BY <2>1, <2>2, <2>3 DEF PgEnd, Dropped
  <1>7. Passed' = Passed  BY <1>1, <1>6 DEF Passed, Committed
  <1>8. Typed'
    BY <1>0, <1>1, <1>6 DEF Typed, Pg, Locations
  <1>9. Filtered'  BY <1>1, <1>6 DEF IInv, Filtered, Committed
  <1>10. PgFixed'  BY <1>1, <1>6 DEF IInv, PgInv, PgFixed
  <1>11. PgLists'
    BY <1>1, <1>2, <1>6, <1>7 DEF PgLists, Distinct, Members
  <1>12. PgFresh' /\ PgPrimary'  BY <1>1, <1>2, <1>6, <1>7, PgPrimaryAfter
  <1>13. PgBackup'
    <2>1. ToReprocess' = ToReprocess  BY <1>1, <1>6 DEF ToReprocess
    <2>2. BackupWorks' => BackupWorks /\ w'.rows["b"] = w.tx["b"]
      BY <1>1, <1>6 DEF BackupWorks
    <2>3. BackupWorks' =>
            /\ Members(ToReprocess)' \subseteq Of(w.rows["b"])'
            /\ mode = "bulk" => /\ Once(w.rows["b"])'
                                /\ Of(w.rows["b"])' = Members(bulk)'
      <3>1. BackupWorks' =>
              /\ Members(ToReprocess) \subseteq Of(w'.rows["b"])
              /\ mode = "bulk" => Once(w'.rows["b"]) /\ Of(w'.rows["b"]) = Members(bulk)
        BY <1>5, <2>2
      <3> QED  BY <1>1, <2>1, <3>1 DEF Members, Of, Once
    <2>4. ~w'.fail["p"] => w'.tx["b"] = <<>> /\ w'.rows["b"] = <<>>  BY <1>2, <1>6
    <2> QED  BY <1>1, <1>6, <2>3, <2>4 DEF PgBackup
  <1> QED  BY <1>1, <1>8, <1>9, <1>10, <1>11, <1>12, <1>13, PgConclude

LEMMA PgFinish ==
    ASSUME WriterAssumption, IInv, Pg, Finish PROVE IInv'
  <1>0. Typed /\ w.dead = FALSE  BY PgFacts
  <1>1. /\ pc = "end" /\ pc' = "done"
        /\ UNCHANGED <<cfg, valid, table, w, queue, pend, bulk, again, mode, next, last>>
    BY <1>0 DEF Finish
  <1>2. /\ w.cur = N + 1 /\ PgLists
        /\ w.fail["p"] => w.rows["p"] = <<>>
        /\ ~w.fail["p"] => Once(w.rows["p"]) /\ Of(w.rows["p"]) = Passed
    BY <1>1, PgAfter
  <1>3. Passed' = Passed  BY <1>1 DEF Passed, Committed
  <1>4. Typed'  BY <1>0, <1>1 DEF Typed, Pg, Locations
  <1>5. Filtered'  BY <1>1 DEF IInv, Filtered, Committed
  <1>6. PgFixed'  BY <1>1 DEF IInv, PgInv, PgFixed
  <1>7. PgLists'  BY <1>1, <1>2, <1>3 DEF PgLists, Distinct, Members
  <1>8. PgFresh' /\ PgPrimary'  BY <1>1, <1>2, <1>3, PgPrimaryAfter
  <1>9. PgBackup'
    <2>1. PgBackup  BY DEF IInv, PgInv
    <2>2. /\ ToReprocess' = ToReprocess /\ BackupWorks' = BackupWorks
      BY <1>1 DEF ToReprocess, BackupWorks
    <2>3. BackupWorks =>
            /\ Members(ToReprocess) \subseteq Of(w.rows["b"])
            /\ mode = "bulk" => Once(w.rows["b"]) /\ Of(w.rows["b"]) = Members(bulk)
      BY <1>1, <2>1 DEF PgBackup
    <2>4. BackupWorks' =>
            /\ Members(ToReprocess)' \subseteq Of(w.rows["b"])'
            /\ mode = "bulk" => /\ Once(w.rows["b"])'
                                /\ Of(w.rows["b"])' = Members(bulk)'
      <3>1. Members(ToReprocess)' = Members(ToReprocess) /\ Members(bulk)' = Members(bulk)
        BY <1>1, <2>2 DEF Members
      <3>2. /\ Of(w.rows["b"])' = Of(w.rows["b"])
            /\ Once(w.rows["b"]) => Once(w.rows["b"])'
        BY <1>1 DEF Of, Once
      <3> QED  BY <2>2, <2>3, <3>1, <3>2
    <2> QED  BY <1>1, <2>1, <2>4 DEF PgBackup
  <1> QED  BY <1>1, <1>4, <1>5, <1>6, <1>7, <1>8, <1>9, PgConclude

-----------------------------------------------------------------------------
(* The invariant holds.                                                    *)

LEMMA InitIInv ==
    ASSUME WriterAssumption, Init PROVE IInv
  <1>0. N \in Nat \ {0} /\ 1 \in Elements  BY DEF WriterAssumption, Elements
  <1>1. /\ cfg \in Settings /\ (Pg => ~cfg.multi)
        /\ valid \in [Elements -> Validity] /\ table \in [Elements -> Tables]
        /\ queue = Queue0 /\ pend = <<>> /\ bulk = <<>> /\ again = <<>>
        /\ mode = "no" /\ next = 1 /\ last = 0 /\ pc = "connect"
    BY DEF Init, Settings
  <1>2. table[1] \in Tables  BY <1>0, <1>1
  <1>3. w = [fail |-> [d \in DBs |-> FALSE], conn |-> [d \in DBs |-> FALSE],
             tx |-> [d \in DBs |-> <<>>], rows |-> [d \in DBs |-> <<>>],
             name |-> table[1], cur |-> 1, buf |-> <<>>, head |-> 1,
             stale |-> FALSE, refused |-> FALSE, dead |-> FALSE]
    BY DEF Init
  <1>4. w \in State
    <2>1. <<>> \in Seq(Rows) /\ 1 \in Nat \ {0}  OBVIOUS
    <2>2. [d \in DBs |-> <<>>] \in [DBs -> Seq(Rows)]  BY <2>1
    <2>3. [d \in DBs |-> FALSE] \in [DBs -> BOOLEAN]  OBVIOUS
    <2> QED  BY <1>2, <1>3, <2>1, <2>2, <2>3 DEF State
  <1>5. /\ w.name = table[1] /\ w.cur = 1 /\ w.buf = <<>> /\ w.head = 1
        /\ w.stale = FALSE /\ w.refused = FALSE /\ w.dead = FALSE
    BY <1>3
  <1>6. \A d \in DBs : w.tx[d] = <<>> /\ w.rows[d] = <<>>  BY <1>3
  <1>7. /\ w.tx["p"] = <<>> /\ w.rows["p"] = <<>>
        /\ w.tx["b"] = <<>> /\ w.rows["b"] = <<>>
    BY <1>6 DEF DBs
  <1>8. queue \in Seq(Elements) /\ Len(queue) = N /\ \A c \in 1 .. N : queue[c] = c
    BY <1>0, <1>1 DEF Queue0, Elements
  <1>9. Of(<<>>) = {} /\ Once(<<>>)  BY OfRows
  <1>10. Members(<<>>) = {} /\ Distinct(<<>>) /\ Len(<<>>) = 0  BY MembersSeq
  <1>11. Typed
    <2>1. <<>> \in Seq(Elements) /\ queue # <<>>  BY <1>0, <1>8
    <2> QED  BY <1>0, <1>1, <1>4, <1>5, <1>8, <1>10, <2>1
             DEF Typed, WriterAssumption, Locations
  <1>12. Filtered  BY <1>7, <1>9 DEF Filtered
  <1>13. MyInv
    <2>1. Held(w) = {} /\ Single(w)  BY <1>5, <1>7, <1>9 DEF Held, Single
    <2>2. AllNamed(w)  BY <1>5, <1>7, NamedRows DEF AllNamed
    <2>3. Ahead(queue, "connect", w.cur) = Members(queue)  BY <1>5, <1>8, AheadEnds
    <2>4. DOMAIN queue = 1 .. N  BY <1>8
    <2>5. Members(queue) = Elements /\ Distinct(queue)
      BY <1>8, <2>4 DEF Members, Distinct, Elements
    <2>6. Apart(w, queue, <<>>, Members(queue))  BY <1>10, <2>1, <2>5 DEF Apart
    <2>7. Places(w, queue, pend, pc)
      BY <1>0, <1>1, <1>5, <1>8, <1>10, <2>1, <2>3, <2>6 DEF Places
    <2>8. Covered(w, queue, pend, pc)  BY <1>1, <1>5, <2>3, <2>5 DEF Covered
    <2> QED  BY <1>1, <2>2, <2>7, <2>8 DEF MyInv, MyRest
  <1>14. PgInv
    <2>1. PgFixed  BY <1>1, <1>5 DEF PgFixed
    <2>2. PgFresh  BY <1>1, <1>5, <1>6 DEF PgFresh
    <2>3. Passed = {}  BY <1>0, <1>5 DEF Passed, Elements
    <2>4. PgLists  BY <1>1, <1>5, <1>10, <2>3 DEF PgLists
    <2>5. PgPrimary  BY <1>1, <1>7, <1>9, <2>3 DEF PgPrimary
    <2>6. PgBackup  BY <1>1, <1>7 DEF PgBackup
    <2> QED  BY <2>1, <2>2, <2>4, <2>5, <2>6 DEF PgInv
  <1> QED  BY <1>11, <1>12, <1>13, <1>14 DEF IInv

(* Each program takes its own steps only.                                  *)
LEMMA MySteps ==
    ASSUME WriterAssumption, IInv, ~Pg, Running PROVE IInv'
  <1>1. CASE Connect  BY <1>1, MyConnect
  <1>2. CASE Start  BY <1>2, MyStart
  <1>3. CASE Postpone  BY <1>3, MyPostpone
  <1>4. CASE MySend  BY <1>4, MySends
  <1>5. CASE NoCommit  BY <1>5, MyNoCommit
  <1>6. CASE MyWrapUp  BY <1>6, MyWrapsUp
  <1>7. CASE StartAgain  BY <1>7, MyStartsAgain
  <1>8. CASE Finish  BY <1>8, MyFinish
  <1>9. ~PgSend /\ ~PgSkip /\ ~PgCommit  BY DEF PgSend, PgSkip, PgCommit
  <1>10. pc # "again"  BY DEF IInv, MyInv, MyRest
  <1>11. ~PgAgain /\ ~PgEnd  BY <1>10 DEF PgAgain, PgEnd
  <1> QED  BY <1>1, <1>2, <1>3, <1>4, <1>5, <1>6, <1>7, <1>8, <1>9, <1>11 DEF Running

LEMMA PgSteps ==
    ASSUME WriterAssumption, IInv, Pg, Running PROVE IInv'
  <1>1. CASE Connect  BY <1>1, PgConnect
  <1>2. CASE Start  BY <1>2, PgStart
  <1>3. CASE PgSend  BY <1>3, PgSends
  <1>4. CASE PgSkip  BY <1>4, PgSkips
  <1>5. CASE PgCommit  BY <1>5, PgCommits
  <1>6. CASE NoCommit  BY <1>6, PgNoCommit
  <1>7. CASE PgAgain  BY <1>7, PgSendsAgain
  <1>8. CASE PgEnd  BY <1>8, PgEnds
  <1>9. CASE Finish  BY <1>9, PgFinish
  <1>10. /\ pend = <<>> /\ pc # "wrapup" /\ w.name = table[1] /\ N \in Nat \ {0}
         /\ \A c \in 1 .. N : queue[c] = c
    BY PgFacts
  <1>11. queue[1] = 1  BY <1>10
  <1>12. ~Postpone  BY <1>10, <1>11 DEF Postpone, TableInHand
  <1>13. ~MySend /\ ~MyWrapUp /\ ~StartAgain  BY <1>10 DEF MySend, MyWrapUp, StartAgain
  <1> QED  BY <1>1, <1>2, <1>3, <1>4, <1>5, <1>6, <1>7, <1>8, <1>9, <1>12, <1>13
           DEF Running

LEMMA StutterIInv ==
    ASSUME IInv, UNCHANGED vars PROVE IInv'
  <1>0. UNCHANGED <<cfg, valid, table, w, queue, pend, bulk, again, mode, next, last, pc>>
    BY DEF vars
  <1>1. Typed'  BY <1>0 DEF IInv, Typed, Pg
  <1>2. Filtered'  BY <1>0 DEF IInv, Filtered, Committed
  <1>3. CASE ~Pg
    <2>1. AllNamed(w') /\ (~Rewind(w') => Places(w', queue', pend', pc'))
          /\ Covered(w', queue', pend', pc')
      BY <1>0, <1>3 DEF IInv, MyInv
    <2>2. MyRest'  BY <1>0, <1>3 DEF IInv, MyInv, MyRest, Committed
    <2> QED  BY <1>0, <1>1, <1>2, <1>3, <2>1, <2>2, MyConclude
  <1>4. CASE Pg
    <2>0. PgFixed /\ PgFresh /\ PgLists /\ PgPrimary /\ PgBackup  BY <1>4 DEF IInv, PgInv
    <2>1. PgFixed'  BY <1>0, <2>0 DEF PgFixed
    <2>2. PgFresh'  BY <1>0, <2>0 DEF PgFresh
    <2>3. Passed' = Passed  BY <1>0 DEF Passed, Committed
    <2>4. PgLists'  BY <1>0, <2>0, <2>3 DEF PgLists, Members, Distinct
    <2>5. PgPrimary'  BY <1>0, <2>0, <2>3 DEF PgPrimary, Of, Once
    <2>6. PgBackup'
      <3>1. ToReprocess' = ToReprocess /\ BackupWorks' = BackupWorks
        BY <1>0 DEF ToReprocess, BackupWorks
      <3>2. Members(ToReprocess)' = Members(ToReprocess) /\ Members(bulk)' = Members(bulk)
        BY <1>0, <3>1 DEF Members
      <3>3. /\ Of(w.tx["b"])' = Of(w.tx["b"]) /\ Of(w.rows["b"])' = Of(w.rows["b"])
            /\ Once(w.tx["b"]) => Once(w.tx["b"])'
            /\ Once(w.rows["b"]) => Once(w.rows["b"])'
        BY <1>0 DEF Of, Once
      <3> QED  BY <1>0, <2>0, <3>1, <3>2, <3>3 DEF PgBackup
    <2> QED  BY <1>0, <1>1, <1>2, <1>4, <2>1, <2>2, <2>4, <2>5, <2>6, PgConclude
  <1> QED  BY <1>3, <1>4

(* What is in the database, in the transaction of each connection and in   *)
(* the failure lists agrees with how far a purge has come, for every       *)
(* sequence of failures of the two databases.                              *)
THEOREM IInvHolds == Spec => []IInv
  <1>0. WriterAssumption  BY WriterAssumption
  <1>1. Init => IInv  BY <1>0, InitIInv
  <1>2. IInv /\ [Next]_vars => IInv'
    <2> SUFFICES ASSUME IInv, [Next]_vars PROVE IInv'  OBVIOUS
    <2>1. CASE Running /\ Pg  BY <1>0, <2>1, PgSteps
    <2>2. CASE Running /\ ~Pg  BY <1>0, <2>2, MySteps
    <2>3. CASE UNCHANGED vars  BY <2>3, StutterIInv
    <2> QED  BY <2>1, <2>2, <2>3 DEF Next, Finished
  <1> QED  BY <1>1, <1>2, PTL DEF Spec

-----------------------------------------------------------------------------
(* What it implies.                                                        *)

LEMMA TypedTypes == Typed => TypeOK
  <1> SUFFICES ASSUME Typed PROVE TypeOK  OBVIOUS
  <1>1. w \in State  BY DEF Typed
  <1>2. /\ w.tx \in [DBs -> Seq(Rows)] /\ w.rows \in [DBs -> Seq(Rows)]
        /\ w.buf \in Seq(Rows) /\ w.cur \in Nat \ {0} /\ w.head \in Nat \ {0}
    BY <1>1, TypedFields
  <1>3. {w.tx[d] : d \in DBs} \union {w.rows[d] : d \in DBs} \union {w.buf}
          \subseteq Seq(Rows)
    BY <1>2
  <1>4. {w.cur, w.head} \subseteq Nat \ {0}  BY <1>2
  <1>5. {queue, pend, bulk, again} \subseteq Seq(Elements)  BY DEF Typed
  <1>6. /\ valid \in [Elements -> Validity] /\ table \in [Elements -> Tables]
        /\ pc = "loop" => /\ w.cur <= Len(queue) + 1
                          /\ w.buf # <<>> => w.head < w.cur
        /\ Len(w.buf) <= MvRows /\ queue # <<>> /\ next \in 1 .. (N + 1)
        /\ mode \in {"no", "specific", "bulk"} /\ last \in 0 .. N /\ pc \in Locations
    BY DEF Typed
  <1> QED  BY <1>3, <1>4, <1>5, <1>6 DEF TypeOK

(* The copies of an element, from where its rows are.                      *)
LEMMA CopiesOf ==
    ASSUME Typed, NEW e \in Elements
    PROVE  /\ Copies("p", e) \in Nat /\ Copies("b", e) \in Nat
           /\ e \notin Of(w.rows["p"]) => Copies("p", e) = 0
           /\ e \notin Of(w.rows["b"]) => Copies("b", e) = 0
           /\ e \in Of(w.rows["b"]) => Copies("b", e) # 0
           /\ (e \in Of(w.rows["p"]) /\ Once(w.rows["p"])) => Copies("p", e) = 1
           /\ (e \in Of(w.rows["b"]) /\ Once(w.rows["b"])) => Copies("b", e) = 1
  <1>1. w.rows["p"] \in Seq(Rows) /\ w.rows["b"] \in Seq(Rows)
    BY TypedFields DEF Typed
  <1>2. "p" \in DBs /\ "b" \in DBs  BY DEF DBs
  <1>3. /\ Copies("p", e) \in Nat
        /\ e \notin Of(w.rows["p"]) => Copies("p", e) = 0
        /\ (e \in Of(w.rows["p"]) /\ Once(w.rows["p"])) => Copies("p", e) = 1
    BY <1>1, <1>2, CopiesCounted
  <1>4. /\ Copies("b", e) \in Nat
        /\ e \notin Of(w.rows["b"]) => Copies("b", e) = 0
        /\ e \in Of(w.rows["b"]) => Copies("b", e) # 0
        /\ (e \in Of(w.rows["b"]) /\ Once(w.rows["b"])) => Copies("b", e) = 1
    BY <1>1, <1>2, CopiesCounted
  <1> QED  BY <1>3, <1>4

LEMMA SingleStored ==
    ASSUME Typed, Single(w), NEW e \in Elements
    PROVE  /\ Stored(e) <= 1
           /\ e \in Of(w.rows["p"]) \union Of(w.rows["b"]) => Stored(e) = 1
  <1>1. /\ Once(w.rows["p"]) /\ Once(w.rows["b"])
        /\ ~(e \in Of(w.rows["p"]) /\ e \in Of(w.rows["b"]))
    BY DEF Single
  <1>2. CASE e \in Of(w.rows["p"])
    <2>1. Copies("p", e) = 1 /\ Copies("b", e) = 0  BY <1>1, <1>2, CopiesOf
    <2> QED  BY <2>1 DEF Stored
  <1>3. CASE e \in Of(w.rows["b"])
    <2>1. Copies("p", e) = 0 /\ Copies("b", e) = 1  BY <1>1, <1>3, CopiesOf
    <2> QED  BY <2>1 DEF Stored
  <1>4. CASE e \notin Of(w.rows["p"]) /\ e \notin Of(w.rows["b"])
    <2>1. Copies("p", e) = 0 /\ Copies("b", e) = 0  BY <1>4, CopiesOf
    <2> QED  BY <1>4, <2>1 DEF Stored
  <1> QED  BY <1>2, <1>3, <1>4

LEMMA InvNeverTwice == IInv => NeverTwice
  <1> SUFFICES ASSUME IInv PROVE NeverTwice  OBVIOUS
  <1>1. Typed /\ TypeOK  BY TypedTypes DEF IInv
  <1>2. ASSUME ~Pg, ~BackupRewound
        PROVE  Len(queue) <= N /\ \A e \in Elements : Stored(e) <= 1
    <2>1. ~Rewind(w)  BY <1>2 DEF Rewind, BackupRewound
    <2>2. Places(w, queue, pend, pc)  BY <1>2, <2>1 DEF IInv, MyInv
    <2>3. Single(w) /\ Len(queue) <= N  BY <2>2 DEF Places
    <2> QED  BY <1>1, <2>3, SingleStored
  <1>3. ASSUME ~Pg, NEW d \in DBs, NEW i \in DOMAIN w.rows[d]
        PROVE  w.rows[d][i][2] = table[w.rows[d][i][1]]
    <2>1. Named(w.rows["p"]) /\ Named(w.rows["b"])
      BY <1>3 DEF IInv, MyInv, AllNamed
    <2>2. CASE d = "p"  BY <1>3, <2>1, <2>2 DEF Named
    <2>3. CASE d = "b"  BY <1>3, <2>1, <2>3 DEF Named
    <2> QED  BY <2>2, <2>3 DEF DBs
  <1>4. ASSUME ~cfg.multi, NEW e \in Elements, ~Committed(e) PROVE Copies("p", e) = 0
    <2>1. e \notin Of(w.rows["p"])  BY <1>4 DEF IInv, Filtered
    <2> QED  BY <1>1, <2>1, CopiesOf
  <1> QED  BY <1>1, <1>2, <1>3, <1>4 DEF NeverTwice

(* PostgreSQL: where the elements are at the end.                          *)
LEMMA PgDone ==
    ASSUME WriterAssumption, IInv, Pg, pc = "done"
    PROVE  /\ \A e \in Elements : Committed(e) = (e \in Passed)
           /\ w.fail["p"] => w.rows["p"] = <<>>
           /\ ~w.fail["p"] => /\ Once(w.rows["p"]) /\ Of(w.rows["p"]) = Passed
                              /\ w.rows["b"] = <<>> /\ mode = "no"
           /\ (mode = "no" /\ w.fail["p"]) => Passed = {}
           /\ (mode = "bulk" /\ BackupWorks) =>
                w.fail["p"] /\ Once(w.rows["b"]) /\ Of(w.rows["b"]) = Passed
           /\ mode = "specific" => again # <<>>
           /\ (mode = "specific" /\ BackupWorks) =>
                \A e \in Passed : e >= again[1] => e \in Of(w.rows["b"])
  <1>1. Typed /\ N \in Nat \ {0}  BY PgFacts
  <1>2. PgLists /\ PgPrimary /\ PgBackup  BY DEF IInv, PgInv
  <1>3. /\ w.cur = N + 1 /\ (w.fail["p"] => w.rows["p"] = <<>>)
        /\ ~w.fail["p"] => Once(w.rows["p"]) /\ Of(w.rows["p"]) = Passed
    BY <1>2 DEF PgPrimary
  <1>4. ~w.fail["p"] => w.rows["b"] = <<>> /\ mode = "no"
    BY <1>2 DEF PgBackup, PgLists
  <1>5. \A e \in Elements : Committed(e) = (e \in Passed)
    <2>1. \A e \in Elements : e < N + 1  BY <1>1 DEF Elements
    <2> QED  BY <1>3, <2>1 DEF Passed, Committed
  <1>6. /\ (mode = "no" /\ w.fail["p"]) => Passed = {}
        /\ mode # "no" => w.fail["p"]
        /\ mode = "specific" => again # <<>>
        /\ Members(bulk) = Passed
        /\ again # <<>> => \A e \in Passed : e >= again[1] => e \in Members(again)
    BY <1>2 DEF PgLists
  <1>7. BackupWorks =>
          /\ Members(ToReprocess) \subseteq Of(w.rows["b"])
          /\ mode = "bulk" => Once(w.rows["b"]) /\ Of(w.rows["b"]) = Members(bulk)
    BY <1>2 DEF PgBackup
  <1>8. mode = "specific" => ToReprocess = again  BY <1>6 DEF ToReprocess
  <1>9. (mode = "specific" /\ BackupWorks) =>
          \A e \in Passed : e >= again[1] => e \in Of(w.rows["b"])
    BY <1>6, <1>7, <1>8
  <1> QED  BY <1>3, <1>4, <1>5, <1>6, <1>7, <1>9

LEMMA InvStoredOnce == WriterAssumption /\ IInv => StoredOnce
  <1> SUFFICES ASSUME WriterAssumption, IInv,
                      Ended, ~w.refused, w.fail["p"] => BackupWorks, Pg => mode # "specific",
                      NEW e \in Elements, Committed(e)
               PROVE  Stored(e) = 1
    BY DEF StoredOnce
  <1>1. Typed /\ pc = "done" /\ ~w.dead  BY DEF IInv, Ended
  <1>2. Of(<<>>) = {}  BY OfRows
  <1>3. CASE ~Pg
    <2>1. ~Rewind(w) /\ Good(w)  BY <1>1 DEF Rewind, Good, BackupWorks
    <2>2. Single(w)  BY <1>3, <2>1 DEF IInv, MyInv, Places
    <2>3. Covered(w, queue, pend, "done") /\ pend = <<>>
      BY <1>1, <1>3 DEF IInv, MyInv, MyRest
    <2>4. queue \in Seq(Elements) /\ w.cur \in Nat  BY <1>1, TypedFields DEF Typed
    <2>5. Ahead(queue, "done", w.cur) = {} /\ Members(pend) = {}
      <3>1. Ahead(queue, "done", w.cur) = {}  BY <2>4, AheadEnds
      <3>2. Members(pend) = {}  BY <2>3, MembersSeq
      <3> QED  BY <3>1, <3>2
    <2>6. e \in Held(w) /\ w.buf = <<>>  BY <2>1, <2>3, <2>5 DEF Covered
    <2>7. e \in Of(w.rows["p"]) \union Of(w.rows["b"])  BY <1>2, <2>6 DEF Held
    <2> QED  BY <1>1, <2>2, <2>7, SingleStored
  <1>4. CASE Pg
    <2>1. /\ e \in Passed
          /\ w.fail["p"] => w.rows["p"] = <<>>
          /\ ~w.fail["p"] => /\ Once(w.rows["p"]) /\ Of(w.rows["p"]) = Passed
                             /\ w.rows["b"] = <<>>
          /\ ~(mode = "no" /\ w.fail["p"])
          /\ (mode = "bulk" /\ BackupWorks) =>
               Once(w.rows["b"]) /\ Of(w.rows["b"]) = Passed
      BY <1>1, <1>4, PgDone
    <2>2. CASE ~w.fail["p"]
      <3>1. Copies("p", e) = 1 /\ Copies("b", e) = 0
        BY <1>1, <1>2, <2>1, <2>2, CopiesOf
      <3> QED  BY <3>1 DEF Stored
    <2>3. CASE w.fail["p"]
      <3>1. mode = "bulk"  BY <1>1, <1>4, <2>1, <2>3 DEF Typed
      <3>2. Once(w.rows["b"]) /\ e \in Of(w.rows["b"]) /\ w.rows["p"] = <<>>
        BY <2>1, <2>3, <3>1
      <3>3. Copies("p", e) = 0 /\ Copies("b", e) = 1  BY <1>1, <1>2, <3>2, CopiesOf
      <3> QED  BY <3>3 DEF Stored
    <2> QED  BY <2>2, <2>3
  <1> QED  BY <1>3, <1>4

LEMMA InvLostOnly == WriterAssumption /\ IInv => LostOnlyInTransaction
  <1> SUFFICES ASSUME WriterAssumption, IInv, Ended, Pg PROVE LostOnlyInTransaction
    BY DEF LostOnlyInTransaction
  <1>1. Typed /\ pc = "done"  BY DEF IInv, Ended
  <1>2. Of(<<>>) = {}  BY OfRows
  <1>3. /\ \A e \in Elements : Committed(e) = (e \in Passed)
        /\ w.fail["p"] => w.rows["p"] = <<>>
        /\ ~w.fail["p"] => Once(w.rows["p"]) /\ Of(w.rows["p"]) = Passed
    BY <1>1, PgDone
  <1>4. w.fail["p"] => \A e \in Elements : Copies("p", e) = 0
    BY <1>1, <1>2, <1>3, CopiesOf
  <1>5. ~w.fail["p"] =>
          \A e \in Elements : Copies("p", e) = IF Committed(e) THEN 1 ELSE 0
    <2> SUFFICES ASSUME ~w.fail["p"], NEW e \in Elements
                 PROVE  Copies("p", e) = IF Committed(e) THEN 1 ELSE 0
      OBVIOUS
    <2>1. CASE Committed(e)
      <3>1. e \in Of(w.rows["p"]) /\ Once(w.rows["p"])  BY <1>3, <2>1
      <3> QED  BY <1>1, <2>1, <3>1, CopiesOf
    <2>2. CASE ~Committed(e)
      <3>1. e \notin Of(w.rows["p"])  BY <1>3, <2>2
      <3> QED  BY <1>1, <2>2, <3>1, CopiesOf
    <2> QED  BY <2>1, <2>2
  <1>6. ASSUME BackupWorks, NEW e \in Elements, Committed(e), Stored(e) = 0
        PROVE  again # <<>> /\ e < again[1]
    <2>1. /\ Copies("p", e) \in Nat /\ Copies("b", e) \in Nat
          /\ e \in Of(w.rows["b"]) => Copies("b", e) # 0
      BY <1>1, CopiesOf
    <2>2. Copies("p", e) = 0 /\ Copies("b", e) = 0  BY <1>6, <2>1 DEF Stored
    <2>3. w.fail["p"] /\ e \notin Of(w.rows["b"])  BY <1>5, <1>6, <2>1, <2>2
    <2>4. /\ e \in Passed
          /\ ~(mode = "no" /\ w.fail["p"])
          /\ mode = "bulk" => Of(w.rows["b"]) = Passed
          /\ mode = "specific" => again # <<>>
          /\ mode = "specific" => (e >= again[1] => e \in Of(w.rows["b"]))
      BY <1>1, <1>6, PgDone
    <2>5. mode = "specific"  BY <1>1, <2>3, <2>4 DEF Typed
    <2>6. again # <<>> /\ ~(e >= again[1])  BY <2>3, <2>4, <2>5
    <2>7. again[1] \in Elements /\ e \in Elements  BY <1>1, <2>6 DEF Typed
    <2> QED  BY <2>6, <2>7 DEF Elements, WriterAssumption
  <1> QED  BY <1>4, <1>5, <1>6 DEF LostOnlyInTransaction

-----------------------------------------------------------------------------
(* Theorems.                                                               *)

(* The indices of the loop stay within the queue, the rows of the          *)
(* multi-values buffer within its size.  MySQL stores no element twice,    *)
(* whatever is refused, rewound or put off to a later round, unless the    *)
(* loop was rewound at a failed backup, and it stores each in the table of *)
(* its own name; elements that were filtered out do not reach the primary  *)
(* one by one (MY_cache_purge, PG_cache_purge, sql_query).                 *)
THEOREM WriterNeverTwice == Spec => []NeverTwice
  BY IInvHolds, InvNeverTwice, PTL

(* A purge that ends stores each committed element once, in one of the two *)
(* databases, as long as no single query is refused, a failed primary has  *)
(* a working backup, and PostgreSQL's primary did not fail in the loop.    *)
THEOREM WriterStoresOnce == Spec => []StoredOnce
  <1>1. WriterAssumption  BY WriterAssumption
  <1>2. IInv => StoredOnce  BY <1>1, InvStoredOnce
  <1> QED  BY <1>2, IInvHolds, PTL

(* PostgreSQL's primary gets a purge whole or not at all, and what is in   *)
(* neither database although the backup works was in the transaction that  *)
(* the primary had taken up to a later, refused element (PG_cache_purge).  *)
THEOREM WriterLosesOnlyInTransaction == Spec => []LostOnlyInTransaction
  <1>1. WriterAssumption  BY WriterAssumption
  <1>2. IInv => LostOnlyInTransaction  BY <1>1, InvLostOnly
  <1> QED  BY <1>2, IInvHolds, PTL
=============================================================================
