--------------------------------- MODULE Store ---------------------------------
(***************************************************************************)
(* Where pipelines read and write: typed columns and the parquet files made *)
(* of them (src/columnar.rs), and the duckdb tables of the shared store     *)
(* (src/store.rs).  Both are functions from the old store to the new one.   *)
(*                                                                         *)
(* A store is [mem, duck, files]: the tables of the in-memory connection,   *)
(* those of the duckdb files as <<path, table>>, and the files by path.     *)
(* A table, or a parquet file, is [names, kinds, rows]; a JSON file is      *)
(* [json], the values its text is made of.  An operation yields             *)
(* [err, store], with err = <<>> where it succeeds.                         *)
(***************************************************************************)
EXTENDS RecordScanner

CONSTANT GroupRows    \* rows of a row group

ASSUME GroupRowsAssumption == GroupRows \in Nat \ {0}

Column(name, kind) == [name |-> name, kind |-> kind, cells |-> <<>>]
\* push, for each value of a sequence.
Push(col, vs) == [col EXCEPT !.cells = @ \o [k \in DOMAIN vs |-> Coerce(vs[k], col.kind)]]
Gather(col, rows) == [col EXCEPT !.cells = [k \in DOMAIN rows |-> col.cells[rows[k]]]]
CellText(v) == IF v = Null THEN "__HIVE_DEFAULT_PARTITION__" ELSE ScalarText(v)

\* The number of rows is that of the first column.
RowCount(cols) == IF cols = <<>> THEN 0 ELSE Len(cols[1].cells)
Row(cols, r) == [c \in DOMAIN cols |-> cols[c].cells[r]]
Names(cols) == [c \in DOMAIN cols |-> cols[c].name]
Kinds(cols) == [c \in DOMAIN cols |-> cols[c].kind]
Table(cols, rows) == [names |-> Names(cols), kinds |-> Kinds(cols), rows |-> rows]

IndexOf(s, e) == CHOOSE k \in DOMAIN s : s[k] = e /\ \A j \in 1..(k - 1) : s[j] # e

\* Rows of a table are as wide as it has columns, and their cells are of the columns'
\* kinds.
TableOK(t) ==
  /\ DOMAIN t = {"names", "kinds", "rows"}
  /\ IsSeq(t.names) /\ IsSeq(t.kinds) /\ IsSeq(t.rows)
  /\ Len(t.kinds) = Len(t.names) /\ \A k \in Range(t.kinds) : k \in ColKinds
  /\ \A row \in Range(t.rows) :
       /\ Len(row) = Len(t.names)
       /\ \A c \in DOMAIN row : row[c] = Null \/ row[c][1] = t.kinds[c]
FileOK(file) ==
  /\ "rows" \in DOMAIN file => TableOK(file)
  /\ "json" \in DOMAIN file => IsSeq(file.json)

\* An error, by its text: what failed, and the names the message may quote.
Says(words) == <<FoldLeft(LAMBDA text, w : text \o " " \o w, "", words)>>

Done(store) == [err |-> <<>>, store |-> store]
Failed(err, store) == [err |-> err, store |-> store]

Merge(f, g) == [x \in DOMAIN f \cup DOMAIN g |-> IF x \in DOMAIN f THEN f[x] ELSE g[x]]
Put(f, k, v) == Merge([x \in {k} |-> v], f)

-----------------------------------------------------------------------------
(* Parquet files.                                                          *)

\* The rows of each row group: GroupRows rows, the last one what is left.
RowGroups(n) ==
  [g \in 1..((n + GroupRows - 1) \div GroupRows) |->
     [r \in 1..(IF g * GroupRows <= n THEN GroupRows ELSE n - (g - 1) * GroupRows) |->
        (g - 1) * GroupRows + r]]

ParquetTable(cols) ==
  LET order == FlattenSeq(RowGroups(RowCount(cols)))
  IN Table(cols, [k \in DOMAIN order |-> Row(cols, order[k])])

\* Mutant of WriteParquet: a file that is there is not written again.
WriteParquetOnce(files, path, cols) ==
  IF RowCount(cols) = 0 \/ path \in DOMAIN files THEN files ELSE Put(files, path, ParquetTable(cols))

\* write_parquet: no rows, no file, and an older file stays as it is.
WriteParquet(files, path, cols) ==
  IF RowCount(cols) = 0 THEN files ELSE Put(files, path, ParquetTable(cols))

\* The partition values of row r, as they stand in its directory.
HiveKey(cols, by, r) == [j \in DOMAIN by |-> CellText(cols[IndexOf(Names(cols), by[j])].cells[r])]

\* Mutant of HiveGroup: rows are grouped by the first partition column only.
HiveGroupByFirst(cols, by, key) ==
  LET n == RowCount(cols)
  IN Those([i \in 1..n |-> i], {i \in 1..n : HiveKey(cols, by, i)[1] = key[1]})

\* The rows of a directory.
HiveGroup(cols, by, key) ==
  LET n == RowCount(cols)
  IN Those([i \in 1..n |-> i], {i \in 1..n : HiveKey(cols, by, i) = key})

\* A data.parquet for each directory: the partition columns are left to the directory.
HiveFiles(base, cols, by) ==
  LET data == Those([c \in DOMAIN cols |-> c],
                    {c \in DOMAIN cols : \A j \in DOMAIN by : IndexOf(Names(cols), by[j]) # c})
      keys == {HiveKey(cols, by, r) : r \in 1..RowCount(cols)}
      Gathered(rows) == [k \in DOMAIN data |-> Gather(cols[data[k]], rows)]
  IN [p \in {base} \X (IF data = <<>> THEN {} ELSE keys) |->
        ParquetTable(Gathered(HiveGroup(cols, by, p[2])))]

\* write_partitioned
WriteFiles(store, base, cols, by) ==
  IF by = <<>> THEN Done([store EXCEPT !.files = WriteParquet(@, <<base, <<>>>>, cols)])
  ELSE IF RowCount(cols) = 0 THEN Done(store)
  ELSE IF \E j \in DOMAIN by : ~ Contains(Names(cols), by[j])
       THEN Failed(Says(<<"partition column not found">>), store)
  ELSE Done([store EXCEPT !.files = Merge(HiveFiles(base, cols, by), @)])

-----------------------------------------------------------------------------
(* duckdb tables.  A table's address is the connection it is looked up in   *)
(* ("mem", or the path of a duckdb file) and its name.                      *)

\* resolve: the connection of a URI; a file has none.
Conn(uri) == IF uri.scheme = "memory" THEN "mem" ELSE uri.path
NameIn(uri, default) == IF uri.table = "" THEN default ELSE uri.table

Has(store, conn, t) == IF conn = "mem" THEN t \in DOMAIN store.mem
                                       ELSE <<conn, t>> \in DOMAIN store.duck
TableAt(store, conn, t) == IF conn = "mem" THEN store.mem[t] ELSE store.duck[<<conn, t>>]
PutTable(store, conn, t, table) ==
  IF conn = "mem" THEN [store EXCEPT !.mem = Put(@, t, table)]
                  ELSE [store EXCEPT !.duck = Put(@, <<conn, t>>, table)]

\* Mutant of CreateAndAppend: the table is created anew.
CreateAnew(store, conn, t, cols, n) ==
  Done(PutTable(store, conn, t, Table(cols, [r \in 1..n |-> Row(cols, r)])))

\* The text of a failure to write, with the table and its columns.
WriteError(t, cols) == Says(<<"create or append", t>> \o Names(cols))

\* create_and_append: CREATE TABLE IF NOT EXISTS, then the rows, column by name.
\* There is no table without columns or with two of one name, be it there or not, and
\* the appender fails on a column the table does not have.
CreateAndAppend(store, conn, t, cols, n) ==
  LET old == IF Has(store, conn, t) THEN TableAt(store, conn, t) ELSE Table(cols, <<>>)
      Placed(r) == [c \in DOMAIN old.names |->
                      IF Contains(Names(cols), old.names[c])
                      THEN Coerce(cols[IndexOf(Names(cols), old.names[c])].cells[r], old.kinds[c])
                      ELSE Null]
  IN IF \/ cols = <<>> \/ ~ IsInjective(Names(cols))
        \/ \E c \in DOMAIN cols : ~ Contains(old.names, cols[c].name)
     THEN Failed(WriteError(t, cols), store)
     ELSE Done(PutTable(store, conn, t, [old EXCEPT !.rows = @ \o [r \in 1..n |-> Placed(r)]]))

\* A cell as the JSON value its text is parsed to: a whole float is an integer.
CellValue(v) == IF v[1] = "f64" /\ v[2] % 2 = 0 /\ v[2] \div 2 \in Ints THEN I64(v[2] \div 2) ELSE v

\* parquet_to_json, read_table_json: the rows as an array of objects.
RowsAsJson(table) ==
  LET Object(row) == [n \in Range(table.names) |-> CellValue(row[IndexOf(table.names, n)])]
  IN Arr([r \in DOMAIN table.rows |-> Obj(Object(table.rows[r]))])

\* read_table_json: the value of a table, or nothing where there is no table.
ReadTable(store, uri, name) ==
  LET t == NameIn(uri, name)
  IN IF Has(store, Conn(uri), t) THEN <<RowsAsJson(TableAt(store, Conn(uri), t))>> ELSE <<>>

\* left_join: for each row of the left table, in the order of __rid, the columns of
\* each right row whose key is its key, or one row of NULLs.  Both tables are looked
\* up in the right table's connection, and there is no SELECT of no column.  No join:
\* <<>>.
LeftJoin(store, left, right, key, cols) ==
  LET conn == Conn(right)
      rt == NameIn(right, "t")
      l == TableAt(store, conn, left)
      r == TableAt(store, conn, rt)
      Cell(row, name) == row[IndexOf(r.names, name)]
      Rid(row) == row[IndexOf(l.names, "__rid")][2]
      Key(row) == row[IndexOf(l.names, "__lk0")]
      Matches(k) == SelectSeq(r.rows, LAMBDA row : k # Null /\ Cell(row, key) # Null
                                                   /\ ScalarText(Cell(row, key)) = ScalarText(k))
      Joined1(row) ==
        IF Matches(Key(row)) = <<>> THEN <<[c \in DOMAIN cols |-> Null]>>
        ELSE [m \in DOMAIN Matches(Key(row)) |->
                [c \in DOMAIN cols |-> Cell(Matches(Key(row))[m], cols[c])]]
      ordered == SortSeq(l.rows, LAMBDA x, y : Rid(x) < Rid(y))
  IN IF cols = <<>> \/ ~ Has(store, conn, left) \/ ~ Has(store, conn, rt) THEN <<>>
     ELSE IF \E n \in Range(cols) \cup {key} : ~ Contains(r.names, n) THEN <<>>
     ELSE <<FlattenSeq([k \in DOMAIN ordered |-> Joined1(ordered[k])])>>

\* Mutant of DropTable: the table is looked for under another name.
DropNothing(store, t) == store

\* drop_table: always in the in-memory connection.
DropTable(store, t) ==
  [store EXCEPT !.mem = [x \in DOMAIN @ \ {t} |-> @[x]]]
=============================================================================
