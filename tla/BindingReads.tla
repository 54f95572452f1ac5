---------------------------- MODULE BindingReads ----------------------------
(***************************************************************************)
(* What Read and Scan of each go-ycsb binding return for the rows that the *)
(* database answers with: the rows that are stored, unless conf.consistent *)
(* is false.  A read returns a row, NoRow (nil without an error) or Failed.*)
(* A scan returns the set of rows it found, or Failed; nil entries that    *)
(* pad a result to the requested count are left out.                       *)
(***************************************************************************)
EXTENDS Bindings, FiniteSetsExt

Project(row, fields) == [f \in DOMAIN row \cap Wanted(fields) |-> row[f]]

\* SELECT (except by Spanner): a column without a value comes back as nil.
Columns(row, fields) ==
  [f \in Wanted(fields) |-> IF f \in DOMAIN row THEN row[f] ELSE None]

MysqlRead(row, fields)       == IfPresent(row, Columns(row, fields), NoRow)
PgRead(row, fields)          == IfPresent(row, Columns(row, fields), NoRow)
SqliteRead(row, fields)      == IfPresent(row, Columns(row, fields), NoRow)
SpannerRead(row, fields)     == IfPresent(row, Project(row, fields), NoRow)
CassandraRead(row, fields)   == IfPresent(row, Columns(row, fields), NoRow)
TikvRawRead(row, fields)     == IfPresent(row, Decode(Encode(row), fields), NoRow)
TikvTxnRead(row, fields)     == IfPresent(row, Decode(Encode(row), fields), NoRow)
FdbRead(row, fields)         == IfPresent(row, Decode(Encode(row), fields), NoRow)
RocksRead(row, fields)       == Decode(Encode(Fields(row)), fields)
BadgerRead(row, fields)      == IfPresent(row, Decode(Encode(row), fields), Failed)
BoltRead(row, fields)        == IfPresent(row, Decode(Encode(row), fields), Failed)
RedisStringRead(row, fields) == IfPresent(row, row, Failed)
EtcdRead(row, fields)        == IfPresent(row, row, Failed)
AerospikeRead(row, fields)   == IfPresent(row, row, EmptyRow)
DynamodbRead(row, fields)    == Fields(row)
MongodbRead(row, fields)     == IfPresent(row, Project(row, fields), Failed)
PegasusRead(row, fields)     == IfPresent(row, EmptyRow, Failed)

\* HMGET without a field, or of a field that is not there, is an error, which
\* is dropped: the read returns no field and no error.
RedisHashRead(row, fields) ==
  IF fields # {} /\ fields \subseteq DOMAIN Fields(row)
  THEN Project(row, fields) ELSE EmptyRow

Read(d, row, fields) ==
  CASE d = "mysql"        -> MysqlRead(row, fields)
    [] d = "pg"           -> PgRead(row, fields)
    [] d = "sqlite"       -> SqliteRead(row, fields)
    [] d = "spanner"      -> SpannerRead(row, fields)
    [] d = "cassandra"    -> CassandraRead(row, fields)
    [] d = "tikv_raw"     -> TikvRawRead(row, fields)
    [] d = "tikv_txn"     -> TikvTxnRead(row, fields)
    [] d = "foundationdb" -> FdbRead(row, fields)
    [] d = "rocksdb"      -> RocksRead(row, fields)
    [] d = "badger"       -> BadgerRead(row, fields)
    [] d = "boltdb"       -> BoltRead(row, fields)
    [] d = "redis_string" -> RedisStringRead(row, fields)
    [] d = "redis_hash"   -> RedisHashRead(row, fields)
    [] d = "etcd"         -> EtcdRead(row, fields)
    [] d = "aerospike"    -> AerospikeRead(row, fields)
    [] d = "dynamodb"     -> DynamodbRead(row, fields)
    [] d = "mongodb"      -> MongodbRead(row, fields)
    [] d = "pegasus"      -> PegasusRead(row, fields)

-----------------------------------------------------------------------------
\* The keys with a row that a scan from start may visit.
From(rows, start) == {k \in DOMAIN rows : k >= start /\ rows[k] # NoRow}

\* The first count of them, for the bindings whose scan is ordered.
First(keys, count) == {k \in keys : Cardinality({j \in keys : j < k}) < count}

\* Any count of them: SELECT ... LIMIT has no ORDER BY.
Some(keys, count) == {ks \in SUBSET keys : Cardinality(ks) = Min({count, Cardinality(keys)})}

Decoded(rows, keys, fields)  == {Decode(Encode(rows[k]), fields) : k \in keys}
Selected(rows, keys, fields) == {Columns(rows[k], fields) : k \in keys}

MysqlScan(rows, start, count, fields) ==
  {Selected(rows, First(From(rows, start), count), fields)}
PgScan(rows, start, count, fields) ==
  {Selected(rows, ks, fields) : ks \in Some(From(rows, start), count)}
SqliteScan(rows, start, count, fields) ==
  {Selected(rows, ks, fields) : ks \in Some(From(rows, start), count)}
SpannerScan(rows, start, count, fields) ==
  {{Project(rows[k], fields) : k \in ks} : ks \in Some(From(rows, start), count)}
TikvRawScan(rows, start, count, fields) ==
  {Decoded(rows, First(From(rows, start), count), fields)}
TikvTxnScan(rows, start, count, fields) ==
  {Decoded(rows, First(From(rows, start), count), fields)}
FdbScan(rows, start, count, fields) ==
  {Decoded(rows, First(From(rows, start), count), fields)}
RocksScan(rows, start, count, fields) ==
  {Decoded(rows, First(From(rows, start), count), fields)}
BadgerScan(rows, start, count, fields) ==
  {Decoded(rows, First(From(rows, start), count), fields)}
\* The bucket may be missing when it holds no row.
BoltScan(rows, start, count, fields) ==
  IF \A k \in DOMAIN rows : rows[k] = NoRow
  THEN {Failed, {}}
  ELSE {Decoded(rows, First(From(rows, start), count), fields)}
\* Faulty: the scan leaves out its start key.
MongodbScanAfter(rows, start, count, fields) ==
  {{Project(rows[k], fields) : k \in First(From(rows, start) \ {start}, count)}}

MongodbScan(rows, start, count, fields) ==
  {{Project(rows[k], fields) : k \in First(From(rows, start), count)}}

\* The count of an etcd answer is that of all keys in the range, not limited.
EtcdScan(rows, start, count, fields) ==
  IF Cardinality(From(rows, start)) # count
  THEN {Failed}
  ELSE {{rows[k] : k \in From(rows, start)}}

\* Every record of the set, in any order; only the named bins.
AerospikeScan(rows, start, count, fields) ==
  {{[f \in DOMAIN rows[k] \cap fields |-> rows[k][f]] : k \in ks} :
     ks \in Some({k \in DOMAIN rows : rows[k] # NoRow}, count)}

PegasusScan(rows, start, count, fields) == {{}}

Scan(d, rows, start, count, fields) ==
  CASE d = "mysql"        -> MysqlScan(rows, start, count, fields)
    [] d = "pg"           -> PgScan(rows, start, count, fields)
    [] d = "sqlite"       -> SqliteScan(rows, start, count, fields)
    [] d = "spanner"      -> SpannerScan(rows, start, count, fields)
    [] d = "tikv_raw"     -> TikvRawScan(rows, start, count, fields)
    [] d = "tikv_txn"     -> TikvTxnScan(rows, start, count, fields)
    [] d = "foundationdb" -> FdbScan(rows, start, count, fields)
    [] d = "rocksdb"      -> RocksScan(rows, start, count, fields)
    [] d = "badger"       -> BadgerScan(rows, start, count, fields)
    [] d = "boltdb"       -> BoltScan(rows, start, count, fields)
    [] d = "mongodb"      -> MongodbScan(rows, start, count, fields)
    [] d = "etcd"         -> EtcdScan(rows, start, count, fields)
    [] d = "aerospike"    -> AerospikeScan(rows, start, count, fields)
    [] d = "pegasus"      -> PegasusScan(rows, start, count, fields)
    [] OTHER              -> {Failed}

-----------------------------------------------------------------------------
\* Reads that do not return what is stored: DynamoDB answers from a replica that
\* may lag unless told otherwise, Pegasus decodes into a nil map, and a Redis
\* hash is not read without naming fields it has.
ReadsStored(d, fields) ==
  conf.consistent /\ d # "pegasus" /\ (d = "redis_hash" => fields # {})

\* An acknowledged field value that no later or overlapping call touched is what
\* Read returns, over any number of other calls, faults and lost connections,
\* and across the processes of the load and the run unless data is dropped.
AckedFieldsAreRead ==
  \A k \in Key, fields \in SUBSET Field :
    (ReadsStored(db, fields) /\ (db = "redis_hash" => fields \subseteq DOMAIN fact[k]))
      => LET row == Read(db, store[k], fields)
         IN  \A f \in DOMAIN fact[k] \cap Wanted(fields) :
               /\ row \notin {NoRow, Failed}
               /\ f \in DOMAIN row /\ row[f] = fact[k][f]

\* The bindings with a Scan that finds rows: Aerospike's needs the fields named,
\* etcd's fails unless exactly count rows follow.
ScansStored(d, count, fields, n) ==
  /\ d \notin {"redis_hash", "redis_string", "dynamodb", "cassandra", "pegasus"}
  /\ d = "aerospike" => fields # {}
  /\ d = "etcd" => count = n

\* A scan with room for all rows from its start key on returns a row with the
\* acknowledged values of every one of these keys.
AckedRowsAreScanned ==
  \A start \in Key, count \in 1 .. Cardinality(Key), fields \in SUBSET Field :
    LET n == Cardinality(From(store, start))
        room == IF db = "aerospike" THEN count = Cardinality(Key) ELSE count >= n
    IN  ScansStored(db, count, fields, n) /\ room
          => \A found \in Scan(db, store, start, count, fields) :
               \A k \in {j \in Key : j >= start /\ DOMAIN fact[j] # {}} :
                 /\ found # Failed
                 /\ \E row \in found : \A f \in DOMAIN fact[k] \cap Wanted(fields) :
                      f \in DOMAIN row /\ row[f] = fact[k][f]
=============================================================================
