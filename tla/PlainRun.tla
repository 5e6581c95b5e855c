-------------------------------- MODULE PlainRun --------------------------------
(***************************************************************************)
(* What a configuration promises: the rows of each dataset, computed from   *)
(* the records of the documents with no scanner, accumulator, temporary     *)
(* table, partition, mutex or retry in between; and what of it the data     *)
(* path of module Pipeline keeps.                                           *)
(***************************************************************************)
EXTENDS Pipeline

Children(values) ==
  FlattenSeq([k \in DOMAIN values |-> IF IsArr(values[k]) THEN values[k][2] ELSE <<values[k]>>])

\* The values of a source, given the tables there are.
RefValues(tables, src) ==
  IF src.uri.scheme # "file" THEN <<RowsAsJson(tables[<<"mem", NameIn(src.uri, src.name)>>])>>
  ELSE LET file == Files[<<src.uri.path, <<>>>>]
       IN IF "rows" \in DOMAIN file THEN <<RowsAsJson(file)>>
          ELSE IF src.path = <<>> THEN file.json ELSE AtPath(file.json[1], src.path)

\* The right row of a join, as a function of the column.
RefMatch(tables, ds, ctx) ==
  LET j == ds.join[1]
      right == tables[<<"mem", j.target.table>>]
      keyCol == IndexOf(right.names, j.rightKey)
      found == FoldLeft(LAMBDA first, row :
                          IF first = <<>> /\ Listed(Eval(Compile(j.leftKey), ctx), <<Text(row[keyCol])>>)
                          THEN row ELSE first,
                        <<>>, right.rows)
  IN [c \in Range(j.columns) |-> IF found = <<>> THEN Null ELSE found[IndexOf(right.names, c)]]

RefPart(tables, ds, ctx, part) ==
  CASE part = "$" -> ctx.base
    [] part = ctx.alias[1] -> ctx.elem[1]
    [] OTHER -> LET match == RefMatch(tables, ds, ctx)
                IN Obj([c \in DOMAIN match |-> CellValue(match[c])])

EvalField(ds, k, ctx) ==
  ToCell(Eval(Compile(ds.fields[k].expr), ctx), ExprKind(ds.fields[k].expr))

RefCell(tables, ds, ctx, k) ==
  Coerce(IF HasRoot(ds)
         THEN EvalField(ds, k, RecordCtx(Obj([key \in DOMAIN ds.root |->
                                               RefPart(tables, ds, ctx, ds.root[key])]), <<>>))
         ELSE IF Projection(ds, k) # <<>> THEN RefMatch(tables, ds, ctx)[Projection(ds, k)[1]]
         ELSE EvalField(ds, k, ctx),
         ExprKind(ds.fields[k].expr))

RefRows(tables, pipe, ds) ==
  LET records == Children(RefValues(tables, FirstNamed(pipe.sources, SourceOf(pipe, ds))))
      all == FlattenSeq([r \in DOMAIN records |-> RecordRows(ds, records[r], <<>>)])
      kept == SelectSeq(all, LAMBDA ctx : Keep([f \in DOMAIN ds.filter |-> Compile(ds.filter[f])], ctx))
  IN [r \in DOMAIN kept |-> [k \in DOMAIN ds.fields |-> RefCell(tables, ds, kept[r], k)]]

\* The datasets in the order they are made, as [stage, pipe, ds, node].
Makes(cf) ==
  FlattenSeq([s \in DOMAIN Stages(cf) |->
    FlattenSeq([n \in DOMAIN Stages(cf)[s] |->
      LET node == Stages(cf)[s][n]
          pipe == FirstNamed(cf.pipelines, node.pipeline)
      IN [d \in DOMAIN pipe.datasets |->
            [stage |-> s, pipe |-> pipe, ds |-> pipe.datasets[d], node |-> node]]])])

\* The tables of a plain run, by dataset and, in memory, by the table's name.
Reference(cf) ==
  FoldLeft(LAMBDA ref, m :
             LET keys == {<<"set", m.ds.name>>}
                         \cup IF m.ds.to.scheme = "memory" THEN {<<"mem", m.ds.to.table[1]>>} ELSE {}
             IN [key \in keys |->
                   Table([k \in DOMAIN m.ds.fields |-> FieldColumn(m.ds, k)], RefRows(ref, m.pipe, m.ds))]
                @@ ref,
           <<>>, Makes(cf))

-----------------------------------------------------------------------------
(* What there is.                                                          *)

\* The files of a dataset: all that begin with the fixed part of its path.
Prefix(p, s) == Len(p) <= Len(s) /\ SubSeq(s, 1, Len(p)) = p
FilesOf(ds) == {p \in DOMAIN store.files : Prefix(ds.to.path[1], p[1]) /\ "rows" \in DOMAIN store.files[p]}

\* A row of a file, the partition columns read off its directory.
FileRow(ds, p, row) ==
  [k \in DOMAIN ds.fields |->
     LET name == ds.fields[k].name
     IN IF Contains(ds.by, name) THEN Str(p[2][IndexOf(ds.by, name)])
        ELSE row[IndexOf(store.files[p].names, name)]]

RowsOf(ds) ==
  IF ds.to.scheme = "file"
  THEN LET paths == SetToSeq(FilesOf(ds))
       IN FlattenSeq([f \in DOMAIN paths |->
            LET rows == store.files[paths[f]].rows
            IN [r \in DOMAIN rows |-> FileRow(ds, paths[f], rows[r])]])
  ELSE LET conn == IF ds.to.scheme = "memory" THEN "mem" ELSE ds.to.path[1]
       IN IF Has(store, conn, ds.to.table[1]) THEN TableAt(store, conn, ds.to.table[1]).rows ELSE <<>>

\* The rows there should be; a partition column is a text.
PlainRows(ref, ds) ==
  [r \in DOMAIN ref[<<"set", ds.name>>].rows |->
     [k \in DOMAIN ds.fields |->
        LET cell == ref[<<"set", ds.name>>].rows[r][k]
        IN IF Contains(ds.by, ds.fields[k].name) THEN Str(CellText(cell)) ELSE cell]]

Times(rows, row) == Cardinality({r \in DOMAIN rows : rows[r] = row})

\* The dataset has every row it should have and no other, each from once to most
\* times as often as it should.
Holds(ref, ds, most) ==
  LET rows == RowsOf(ds)
      plain == PlainRows(ref, ds)
  IN \A row \in Range(rows) \cup Range(plain) :
       Times(rows, row) \in Times(plain, row)..(most * Times(plain, row))

\* A dataset that is made of a file alone.
Direct(m) ==
  m.ds.join = <<>> /\ FirstNamed(m.pipe.sources, SourceOf(m.pipe, m.ds)).uri.scheme = "file"

-----------------------------------------------------------------------------
(* What a configuration has to respect.                                    *)

Distinct(s) == \A a, b \in DOMAIN s : s[a] = s[b] => a = b

\* Table t is made in a stage or a pipeline before make i.
MadeBefore(cf, i, t) ==
  \E j \in 1..(i - 1) : Makes(cf)[j].ds.to.scheme = "memory" /\ Makes(cf)[j].ds.to.table = <<t>>

\* A source that exists and holds one array of objects and arrays, or objects alone.
SoundSource(cf, i, src) ==
  IF src.uri.scheme # "file" THEN src.uri.scheme = "memory" /\ MadeBefore(cf, i, src.uri.table)
  ELSE /\ <<src.uri.path, <<>>>> \in DOMAIN Files
       /\ "json" \in DOMAIN Files[<<src.uri.path, <<>>>>] => src.format = "json"
       /\ "rows" \in DOMAIN Files[<<src.uri.path, <<>>>>] => src.format = "parquet"
       /\ LET vs == RefValues(<<>>, src)
          IN /\ (\E k \in DOMAIN vs : IsArr(vs[k])) => Len(vs) = 1
             /\ \A v \in Range(Children(vs)) : v[1] \in {"arr", "obj"}

\* A join with a table of the in-memory connection; its keys are checked below.
SoundJoin(cf, i, ds) ==
  ds.join # <<>> =>
    /\ ds.join[1].target.scheme = "memory" /\ MadeBefore(cf, i, ds.join[1].target.table)
    /\ \A k \in DOMAIN ds.fields : Range(Projection(ds, k)) \subseteq Range(ds.join[1].columns)

\* A fan-out over distinct names; its datasets read what is fanned out, have no
\* filter of their own and, in files, a target for each task.
SoundFanOut(m) ==
  m.node.partition # <<>> =>
    LET part == m.node.partition[1]
        values == RefValues(<<>>, FirstNamed(m.pipe.sources, part.source))
        Name(v) == Get(v, part.field[1])
    IN /\ part.field # <<>> /\ part.source = SourceOf(m.pipe, m.ds) /\ m.ds.filter = <<>>
       /\ Distinct(Children(values))
       /\ \A v, w \in Range(Children(values)) :
            Name(v) # <<>> /\ Name(v)[1][1] = "str" /\ Name(v)[1][2] # "" /\ (v # w => Name(v) # Name(w))
       /\ m.ds.to.scheme = "file" => "{task}" \in Range(m.ds.to.path)

\* A target of its own, with some column besides those of the partition.
SoundTarget(cf, m) ==
  /\ m.ds.format \in {"", "parquet"}
  /\ Range(m.ds.by) \subseteq {m.ds.fields[k].name : k \in DOMAIN m.ds.fields}
  /\ Len(m.ds.by) < Len(m.ds.fields)
  /\ \A n \in Range(Makes(cf)) : n.ds # m.ds =>
       /\ n.ds.to # m.ds.to /\ n.ds.name # m.ds.name
       /\ n.ds.to.scheme = "file" /\ m.ds.to.scheme = "file" => ~ Prefix(n.ds.to.path[1], m.ds.to.path[1])

\* The keys of the tables that are joined are distinct.
SoundKeys(cf, ref) ==
  \A m \in Range(Makes(cf)) : m.ds.join # <<>> =>
    LET right == ref[<<"mem", m.ds.join[1].target.table>>]
    IN /\ Range(m.ds.join[1].columns) \cup {m.ds.join[1].rightKey} \subseteq Range(right.names)
       /\ Distinct([r \in DOMAIN right.rows |-> Text(right.rows[r][IndexOf(right.names, m.ds.join[1].rightKey)])])

Sound(cf) ==
  /\ \A p \in DOMAIN Stages(cf) : \A n \in DOMAIN Stages(cf)[p] :
       Named(cf.pipelines, Stages(cf)[p][n].pipeline) # {}
  /\ Distinct(Makes(cf))
  /\ \A i \in DOMAIN Makes(cf) :
       LET m == Makes(cf)[i]
       IN /\ \A s \in DOMAIN m.pipe.sources : SoundSource(cf, i, m.pipe.sources[s])
          /\ Named(m.pipe.sources, SourceOf(m.pipe, m.ds)) # {}
          /\ m.ds.root # <<>> => \A key \in DOMAIN m.ds.root :
               \/ m.ds.root[key] \in {"$"} \cup {m.ds.join[j].alias : j \in DOMAIN m.ds.join}
               \/ m.ds.type = "unwound" /\ \A r \in DOMAIN m.ds.rules : m.ds.rules[r].alias = m.ds.root[key]
          /\ SoundJoin(cf, i, m.ds) /\ SoundFanOut(m) /\ SoundTarget(cf, m)

-----------------------------------------------------------------------------
(* Temporary tables.                                                       *)

\* The temporary tables the datasets of a configuration may need.
TempTables(cf) ==
  UNION {{TempTable(cf.pipelines[p].datasets[d]) : d \in DOMAIN cf.pipelines[p].datasets} :
           p \in DOMAIN cf.pipelines}

\* No task that joins is run again for the error of its join: that error is raised with
\* the temporary table still there.
JoinErrorsAreHard(stages) ==
  \A s \in DOMAIN stages : \A k \in DOMAIN stages[s] :
    \A d \in DOMAIN stages[s][k].pipe.datasets :
      LET ds == stages[s][k].pipe.datasets[d]
      IN ds.join # <<>> => ~ IsRetryable(stages[s][k], JoinError(ds))

\* No dataset is written to a table that has the name of a temporary one.
NoTargetIsTemporary(cf, stages) ==
  \A s \in DOMAIN stages : \A k \in DOMAIN stages[s] : \A d \in DOMAIN stages[s][k].pipe.datasets :
    LET ds == stages[s][k].pipe.datasets[d]
        uri == TaskUri(stages[s][k], ds.to)
    IN Conn(uri) = "mem" => NameIn(uri, ds.name) \notin TempTables(cf)

-----------------------------------------------------------------------------
(* Fan-outs.                                                               *)

\* The store a plan is made from.
NewStore == [mem |-> <<>>, duck |-> <<>>, files |-> Files]

\* The values a node is fanned out over.
Universe(node) ==
  LET sources == FirstNamed(config.pipelines, node.pipeline).sources
      doc == ReadSource(NewStore, FirstNamed(sources, node.partition[1].source))
  IN Units(CHOOSE v \in WholeValue(doc[1]) : TRUE, node.partition[1].field)

\* No other node of the stage runs the pipeline of node n.
Alone(nodes, n) == \A m \in DOMAIN nodes : nodes[m].pipeline = nodes[n].pipeline => m = n

TasksFor(tasks, name) == Those(tasks, {t \in Range(tasks) : t.pipeline = name})
UnitsOf(t) == Elements(Get(t.ctx, "units")[1])

\* The tasks have the units, in order and as evenly as can be.
SharedOut(tasks, units, workers) ==
  /\ FlattenSeq([k \in DOMAIN tasks |-> UnitsOf(tasks[k])]) = [u \in DOMAIN units |-> Str(units[u])]
  /\ Len(tasks) = Min({Len(units), workers})
  /\ \A a, b \in DOMAIN tasks :
       Len(UnitsOf(tasks[a])) > 0 /\ Len(UnitsOf(tasks[a])) <= Len(UnitsOf(tasks[b])) + 1

\* What task_uri makes of the names tells them apart, and no name from the beginning
\* of another one's fan-out.
NamesApart(cf) ==
  \A p, q \in DOMAIN cf.pipelines :
    LET m == cf.pipelines[p].name
        n == cf.pipelines[q].name
    IN Safe(m) = Safe(n) \/ Prefix(Safe(m) \o "_x_", Safe(n)) => m = n

\* The targets that are to be each task's own.
TaskTargets(cf) ==
  UNION {{ds.to : ds \in {d \in Range(cf.pipelines[p].datasets) :
                            "{task}" \in Range(d.to.path) \cup Range(d.to.table)}} :
           p \in DOMAIN cf.pipelines}

-----------------------------------------------------------------------------
(* The run beside its reference.                                           *)

IfSoundKeys(cf, ref) == IF SoundKeys(cf, ref) THEN <<ref>> ELSE <<>>

\* A configuration with what a plain run of it makes, if it is sound: the instances
\* carry it in config, where TLC computes it once.
WithPlain(cf) == cf @@ [plain |-> IF Sound(cf) THEN IfSoundKeys(cf, Reference(cf)) ELSE <<>>]

\* What the stages that are over have made.
Over == {m \in Range(Makes(config)) : m.stage < stage \/ outcome = "ok"}

Between == job = NoJob /\ stage > 0 /\ config.plain # <<>>

-----------------------------------------------------------------------------
(* Properties.                                                             *)

\* Without failures, whatever the fan-out, the order in which the workers get the
\* store, the row groups and the directories, a stage that is over has made exactly
\* the rows of a plain run, a row as many times as there (run_scheduled against
\* run_pipelines).
StagesArePlain ==
  Between /\ faults = 0 => \A m \in Over : Holds(config.plain[1], m.ds, 1)

\* With failures and retries, a dataset made of a file alone is complete when its
\* stage is over: a file is exact, whatever an earlier run of the task left of it, and
\* a table has each row at least once and at most once per run (EtlHook, write_target,
\* create_and_append).
RetriesKeepRows ==
  Between =>
    \A m \in Over :
      Direct(m) => Holds(config.plain[1], m.ds, IF m.ds.to.scheme = "file" THEN 1 ELSE Retries + 1)

\* What docs/scheduler.md:358 says of the shared store: a scheduled run joins a memory
\* table exactly as a plain run_pipelines would.
JoinsArePlain ==
  Between => \A m \in Over : m.ds.to.scheme = "file" => Holds(config.plain[1], m.ds, 1)

\* In a run that ends well no temporary table of a join is left in the shared store,
\* where the next task with a dataset of that name would add its rows to it
\* (assemble_and_write, drop_table).
NoTempTableLeft ==
  outcome = "ok" => \A m \in Range(Makes(config)) : TempTable(m.ds) \notin DOMAIN store.mem

NothingTaken ==
  /\ \A t \in DOMAIN store.mem \ TempTables(config) :
       t \in DOMAIN store'.mem /\ IsPrefix(store.mem[t].rows, store'.mem[t].rows)
  /\ \A t \in DOMAIN store.duck :
       t \in DOMAIN store'.duck /\ IsPrefix(store.duck[t].rows, store'.duck[t].rows)
  /\ DOMAIN store.files \subseteq DOMAIN store'.files

\* Only temporary tables are dropped: what a task wrote to a table no later step takes
\* away or changes, whoever writes to it next, and no file disappears
\* (CREATE TABLE IF NOT EXISTS and the appender).
TablesOnlyGrow == [][NothingTaken]_pipeVars

\* The tasks of a fan-out share its universe out: the units of the tasks, in order,
\* are the values of the universe, no task has none and none has two more than another
\* (chunk_evenly, fanout_task).  If its pipeline stands twice in a stage, its tasks are
\* there twice.
UniverseIsShared ==
  stage = 1 /\ job = NoJob =>
    \A s \in DOMAIN plan : \A n \in DOMAIN Stages(config)[s] :
      LET node == Stages(config)[s][n]
      IN node.partition # <<>> /\ Alone(Stages(config)[s], n) =>
           SharedOut(TasksFor(plan[s], node.pipeline), Universe(node), node.partition[1].workers)

\* Tasks with different ids in the registry of the kernel, and with different targets
\* where {task} is part of one (single_task, fanout_task, task_uri).
Apart(t, u) ==
  IdText(t) # IdText(u) /\ \A uri \in TaskTargets(config) : TaskUri(t, uri) # TaskUri(u, uri)

\* No two tasks of a plan are mixed up, in the registry or in the output, whatever is
\* fanned out beside what, unless their pipeline stands twice in a stage.
TargetsApart ==
  stage = 1 /\ job = NoJob /\ NamesApart(config) =>
    \A s, r \in DOMAIN plan : \A a \in DOMAIN plan[s] : \A b \in DOMAIN plan[r] :
      LET t == plan[s][a]
          u == plan[r][b]
      IN Apart(t, u) \/ (s = r /\ t.pipeline = u.pipeline /\ t.index = u.index)

\* docs/scheduler.md:308: "(`{task}` = sanitized scheduler task id), so every fan-out
\* worker writes to its own target".  No condition on the names is stated there.
WorkersHaveOwnTargets ==
  stage = 1 /\ job = NoJob =>
    \A s \in DOMAIN plan : \A a, b \in TasksOf(plan[s]) :
      a # b /\ plan[s][a].index # -1 /\ plan[s][b].index # -1 => Apart(plan[s][a], plan[s][b])
=============================================================================
