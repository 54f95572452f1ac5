----------------------------- MODULE BindingOps -----------------------------
(***************************************************************************)
(* The operations of the go-ycsb database bindings (db/<name>/db.go) as    *)
(* operators on one row: what an insertion, an update and a deletion leave *)
(* behind, what a read and a scan return, and what creating the binding    *)
(* does to the rows of an earlier process.  A row is a function from some  *)
(* of the fields to values.  An operator for a mutation yields the new row *)
(* (NoRow: none), or Refused when the binding reports an error, or Ignored *)
(* when it reports success without writing.                                *)
(***************************************************************************)
EXTENDS Integers, FiniteSets

CONSTANTS
  Key,      \* numbers: the order of the keys is the order of the scans
  Field,
  Column,   \* Column[f]: the index of field f in an encoded row
  NoRow, None, Refused, Ignored, Failed

ASSUME KeyAssumption == Key \subseteq Int /\ IsFiniteSet(Key)

\* createFieldIndices numbers the fields one by one.
ASSUME ColumnAssumption == \A f, g \in Field : Column[f] = Column[g] => f = g

EmptyRow == [f \in {} |-> None]
\* The fields of values, and those of row that values does not have.
Over(values, row) ==
  [f \in DOMAIN values \cup DOMAIN row |-> IF f \in DOMAIN values THEN values[f] ELSE row[f]]
Fields(row) == IF row = NoRow THEN EmptyRow ELSE row
IfPresent(row, result, otherwise) == IF row = NoRow THEN otherwise ELSE result

-----------------------------------------------------------------------------
(***************************************************************************)
(* util.RowCodec: an encoded row is a list of column numbers and values,   *)
(* in any order.                                                           *)
(***************************************************************************)
Encode(values) == {<<Column[f], values[f]>> : f \in DOMAIN values}

Wanted(fields) == IF fields = {} THEN Field ELSE fields

Decode(data, fields) ==
  LET cols == {c[1] : c \in data}
  IN  [f \in {g \in Wanted(fields) : Column[g] \in cols} |->
         (CHOOSE c \in data : c[1] = Column[f])[2]]

-----------------------------------------------------------------------------
\* Insertions: INSERT IGNORE, ON CONFLICT DO NOTHING and OR IGNORE keep a row
\* that is there; HSET, InsertOrUpdate, CQL's INSERT and PutBins keep its other
\* fields; the key-value bindings replace it; InsertOne refuses.
MysqlInsert(row, values)       == IfPresent(row, Ignored, values)
PgInsert(row, values)          == IfPresent(row, Ignored, values)
SqliteInsert(row, values)      == IfPresent(row, Ignored, values)
RedisHashInsert(row, values)   == Over(values, Fields(row))
RedisStringInsert(row, values) == values
SpannerInsert(row, values)     == Over(values, Fields(row))
CassandraInsert(row, values)   == Over(values, Fields(row))
DynamodbInsert(row, values)    == values
MongodbInsert(row, values)     == IfPresent(row, Refused, values)
PegasusInsert(row, values)     == values
AerospikeInsert(row, values)   == Over(values, Fields(row))
BoltInsert(row, values)        == values

\* Updates in one call to the database.
MysqlUpdate(row, values)       == IfPresent(row, Over(values, row), Ignored)
PgUpdate(row, values)          == IfPresent(row, Over(values, row), Ignored)
SqliteUpdate(row, values)      == IfPresent(row, Over(values, row), Ignored)
RedisHashUpdate(row, values)   == Over(values, Fields(row))
SpannerUpdate(row, values)     == IfPresent(row, Over(values, row), Refused)
CassandraUpdate(row, values)   == Over(values, Fields(row))
DynamodbUpdate(row, values)    == Over(values, Fields(row))
MongodbUpdate(row, values)     == IfPresent(row, Over(values, row), Refused)
BoltUpdate(row, values)        == IfPresent(row, Decode(Encode(Over(values, row)), {}), Refused)
EtcdUpdate(row, values)        == values
PegasusUpdate(row, values)     == values
EtcdInsert(row, values)        == EtcdUpdate(row, values)

\* Updates that read the row first: what they go on to write.
TikvRawUpdate(base, values)   == Over(values, Fields(base))
TikvTxnUpdate(base, values)   == IfPresent(base, Over(values, base), Ignored)
FdbUpdate(base, values)       == IfPresent(base, Over(values, base), Ignored)
RocksUpdate(base, values)     == Over(values, Fields(base))
BadgerUpdate(base, values)    == IfPresent(base, Over(values, base), Refused)
AerospikeUpdate(base, values) == Over(values, Fields(base))

mergeEncodedJsonWithMap(base, values) == IfPresent(base, Over(values, base), Refused)

RedisStringUpdate(base, values) ==
  IF DOMAIN values = Field THEN values ELSE mergeEncodedJsonWithMap(base, values)

\* Deletions: only MongoDB's minds that the row is missing.
MongodbDelete(row)   == IfPresent(row, NoRow, Refused)
MysqlDelete(row)     == NoRow
PgDelete(row)        == NoRow
SqliteDelete(row)    == NoRow
RedisDelete(row)     == NoRow
SpannerDelete(row)   == NoRow
CassandraDelete(row) == NoRow
DynamodbDelete(row)  == NoRow
PegasusDelete(row)   == NoRow
AerospikeDelete(row) == NoRow
BoltDelete(row)      == NoRow
EtcdDelete(row)      == NoRow
TikvRawDelete(row)   == NoRow
TikvTxnDelete(row)   == NoRow
FdbDelete(row)       == NoRow
RocksDelete(row)     == NoRow
BadgerDelete(row)    == NoRow

\* Insertions that first encode the row into a buffer of the pool.
TikvRawInsert(values) == values
TikvTxnInsert(values) == values
FdbInsert(values)     == values
RocksInsert(values)   == values
BadgerInsert(values)  == values

-----------------------------------------------------------------------------
InsertRow(d, row, values) ==
  CASE d = "mysql"        -> MysqlInsert(row, values)
    [] d = "pg"           -> PgInsert(row, values)
    [] d = "sqlite"       -> SqliteInsert(row, values)
    [] d = "redis_hash"   -> RedisHashInsert(row, values)
    [] d = "redis_string" -> RedisStringInsert(row, values)
    [] d = "spanner"      -> SpannerInsert(row, values)
    [] d = "cassandra"    -> CassandraInsert(row, values)
    [] d = "dynamodb"     -> DynamodbInsert(row, values)
    [] d = "mongodb"      -> MongodbInsert(row, values)
    [] d = "pegasus"      -> PegasusInsert(row, values)
    [] d = "aerospike"    -> AerospikeInsert(row, values)
    [] d = "boltdb"       -> BoltInsert(row, values)
    [] d = "etcd"         -> EtcdInsert(row, values)

UpdateRow(d, row, values) ==
  CASE d = "mysql"      -> MysqlUpdate(row, values)
    [] d = "pg"         -> PgUpdate(row, values)
    [] d = "sqlite"     -> SqliteUpdate(row, values)
    [] d = "redis_hash" -> RedisHashUpdate(row, values)
    [] d = "spanner"    -> SpannerUpdate(row, values)
    [] d = "cassandra"  -> CassandraUpdate(row, values)
    [] d = "dynamodb"   -> DynamodbUpdate(row, values)
    [] d = "mongodb"    -> MongodbUpdate(row, values)
    [] d = "pegasus"    -> PegasusUpdate(row, values)
    [] d = "boltdb"     -> BoltUpdate(row, values)
    [] d = "etcd"       -> EtcdUpdate(row, values)

DeleteRow(d, row) ==
  CASE d = "mongodb"      -> MongodbDelete(row)
    [] d = "mysql"        -> MysqlDelete(row)
    [] d = "pg"           -> PgDelete(row)
    [] d = "sqlite"       -> SqliteDelete(row)
    [] d \in {"redis_hash", "redis_string"} -> RedisDelete(row)
    [] d = "spanner"      -> SpannerDelete(row)
    [] d = "cassandra"    -> CassandraDelete(row)
    [] d = "dynamodb"     -> DynamodbDelete(row)
    [] d = "pegasus"      -> PegasusDelete(row)
    [] d = "aerospike"    -> AerospikeDelete(row)
    [] d = "boltdb"       -> BoltDelete(row)
    [] d = "etcd"         -> EtcdDelete(row)
    [] d = "tikv_raw"     -> TikvRawDelete(row)
    [] d = "tikv_txn"     -> TikvTxnDelete(row)
    [] d = "foundationdb" -> FdbDelete(row)
    [] d = "rocksdb"      -> RocksDelete(row)
    [] d = "badger"       -> BadgerDelete(row)

InsertDraft(d, values) ==
  CASE d = "tikv_raw"     -> TikvRawInsert(values)
    [] d = "tikv_txn"     -> TikvTxnInsert(values)
    [] d = "foundationdb" -> FdbInsert(values)
    [] d = "rocksdb"      -> RocksInsert(values)
    [] d = "badger"       -> BadgerInsert(values)

UpdateDraft(d, base, values) ==
  CASE d = "tikv_raw"     -> TikvRawUpdate(base, values)
    [] d = "tikv_txn"     -> TikvTxnUpdate(base, values)
    [] d = "foundationdb" -> FdbUpdate(base, values)
    [] d = "rocksdb"      -> RocksUpdate(base, values)
    [] d = "badger"       -> BadgerUpdate(base, values)
    [] d = "aerospike"    -> AerospikeUpdate(base, values)
    [] d = "redis_string" -> RedisStringUpdate(base, values)

-----------------------------------------------------------------------------
(***************************************************************************)
(* Creating a binding for a load or a run: whether the rows of an earlier  *)
(* process are dropped, given the property dropdata (for DynamoDB,         *)
(* dynamodb.ensure.clean.table).                                           *)
(***************************************************************************)
MysqlDrops(command, drop)    == drop /\ command = "load"
PgDrops(command, drop)       == drop
SqliteDrops(command, drop)   == drop
RedisDrops(command, drop)    == drop
SpannerDrops(command, drop)  == drop
CassandraDrops(command, drop) == drop
RocksDrops(command, drop)    == drop
BadgerDrops(command, drop)   == drop
BoltDrops(command, drop)     == drop
DynamodbDrops(command, drop) == drop /\ command = "load"

Drops(d, command, drop) ==
  CASE d = "mysql"     -> MysqlDrops(command, drop)
    [] d = "pg"        -> PgDrops(command, drop)
    [] d = "sqlite"    -> SqliteDrops(command, drop)
    [] d \in {"redis_hash", "redis_string"} -> RedisDrops(command, drop)
    [] d = "spanner"   -> SpannerDrops(command, drop)
    [] d = "cassandra" -> CassandraDrops(command, drop)
    [] d = "rocksdb"   -> RocksDrops(command, drop)
    [] d = "badger"    -> BadgerDrops(command, drop)
    [] d = "boltdb"    -> BoltDrops(command, drop)
    [] d = "dynamodb"  -> DynamodbDrops(command, drop)
    [] OTHER           -> FALSE
=============================================================================
