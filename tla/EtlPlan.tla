-------------------------------- MODULE EtlPlan --------------------------------
(***************************************************************************)
(* build_plan (src/etl_sched.rs:66): an ETL configuration expanded into the *)
(* tasks of each stage.  The configuration is that of src/config.rs:        *)
(*   configuration  [pipelines, execution]                                  *)
(*   node           [pipeline, partition], partition a sequence of at most   *)
(*                  one [source, field, workers], field of at most one key  *)
(*   pipeline       [name, sources, datasets]                               *)
(*   source         [name, uri, format, path]                               *)
(*   dataset        [name, type, source, to, by, format, fields, rules,      *)
(*                  join, filter, root]                                     *)
(* where fields are [name, expr], rules [cond, path, alias], join and       *)
(* filter sequences of at most one, root a function from child to part.     *)
(* A URI is [scheme, path, table]; the path and the table of a target are   *)
(* sequences of pieces, so that placeholders stand out.                     *)
(* A task is [stage, pipeline, index, pipe, ctx]; index is -1 where the     *)
(* pipeline is not fanned out.                                              *)
(***************************************************************************)
EXTENDS Expressions, Store, FanOut

FieldOK(f) == DOMAIN f = {"name", "expr"}
RuleOK(r) == DOMAIN r = {"name", "cond", "path", "alias"}
JoinOK(j) == DOMAIN j = {"alias", "target", "leftKey", "rightKey", "columns"}
SourceOK(s) ==
  DOMAIN s = {"name", "uri", "format", "path"} /\ s.uri.scheme \in {"file", "memory", "duckdb"}
DatasetOK(ds) ==
  /\ DOMAIN ds = {"name", "type", "source", "to", "by", "format", "fields", "rules", "join",
                  "filter", "root"}
  /\ IsSeq(ds.fields) /\ \A f \in Range(ds.fields) : FieldOK(f)
  /\ IsSeq(ds.rules) /\ \A r \in Range(ds.rules) : RuleOK(r)
  /\ IsSeq(ds.join) /\ \A j \in Range(ds.join) : JoinOK(j)
  /\ IsSeq(ds.filter) /\ IsSeq(ds.by)
PipelineOK(p) ==
  /\ DOMAIN p = {"name", "sources", "datasets"} /\ IsSeq(p.sources) /\ IsSeq(p.datasets)
  /\ \A s \in Range(p.sources) : SourceOK(s)
  /\ \A ds \in Range(p.datasets) : DatasetOK(ds)
NodeOK(n) ==
  /\ DOMAIN n = {"pipeline", "partition"} /\ IsSeq(n.partition)
  /\ \A p \in Range(n.partition) : DOMAIN p = {"source", "field", "workers"} /\ p.workers \in Nat
ConfigOK(cf) ==
  /\ IsSeq(cf.pipelines) /\ \A p \in Range(cf.pipelines) : PipelineOK(p)
  /\ IsSeq(cf.execution) /\ \A s \in Range(cf.execution) : IsSeq(s) /\ \A n \in Range(s) : NodeOK(n)

-----------------------------------------------------------------------------
(* Sources (read_source, src/plazy.rs:280).                                *)

\* The text of a document and the values it may be parsed to, record by record.
Doc(vs) == [text |-> FlattenSeq([k \in DOMAIN vs |-> Render(vs[k]) \o <<" ">>]),
            values |-> Range(vs) \cup UNION {Range(Elements(vs[k])) : k \in DOMAIN vs}]

\* extract_json_path: plain keys, one after the other.
AtPath(v, path) ==
  LET at[k \in 0..Len(path)] ==
        IF k = 0 THEN <<v>> ELSE IF at[k - 1] = <<>> THEN <<>> ELSE Get(at[k - 1][1], path[k])
  IN at[Len(path)]

\* The document a source yields: a sequence of at most one.  A file read as JSON has to
\* be one value only if a json_path leads into it; the bytes of one that is no JSON are
\* taken as they are, and hold no record.
ReadSource(store, src) ==
  IF src.uri.scheme # "file"
  THEN LET found == ReadTable(store, src.uri, src.name)
       IN IF found = <<>> THEN <<>> ELSE <<Doc(found)>>
  ELSE IF <<src.uri.path, <<>>>> \notin DOMAIN store.files THEN <<>>
  ELSE LET file == store.files[<<src.uri.path, <<>>>>]
       IN CASE src.format = "parquet" ->
                 IF "rows" \in DOMAIN file THEN <<Doc(<<RowsAsJson(file)>>)>> ELSE <<>>
            [] src.format = "json" /\ "json" \notin DOMAIN file ->
                 IF src.path = <<>> THEN <<Doc(<<>>)>> ELSE <<>>
            [] src.format = "json" /\ "json" \in DOMAIN file ->
                 IF src.path = <<>> THEN <<Doc(file.json)>>
                 ELSE IF Len(file.json) # 1 \/ AtPath(file.json[1], src.path) = <<>> THEN <<>>
                 ELSE <<Doc(<<AtPath(file.json[1], src.path)[1]>>)>>
            [] OTHER -> <<>>

\* Why a source yields none.
SourceError(store, src) ==
  Says(IF src.uri.scheme # "file" THEN <<"prepare", NameIn(src.uri, src.name)>>
       ELSE IF <<src.uri.path, <<>>>> \in DOMAIN store.files /\ src.format = "json"
       THEN <<"json_path">> \o src.path
       ELSE <<"read source", src.format, src.uri.path>>)

-----------------------------------------------------------------------------
(* Expansion.                                                              *)

Named(s, n) == {k \in DOMAIN s : s[k].name = n}
FirstNamed(s, n) == s[Min(Named(s, n))]

\* universe_values: of each element the field, if it is a string that is not empty,
\* or, without a field, its text.
Units(doc, field) ==
  LET Unit(v) ==
        IF field = <<>> THEN <<JsonText(v)>>
        ELSE LET x == Get(v, field[1])
             IN IF x # <<>> /\ x[1][1] = "str" /\ x[1][2] # "" THEN <<x[1][2]>> ELSE <<>>
  IN FlattenSeq([k \in DOMAIN Elements(doc) |-> Unit(Elements(doc)[k])])

\* The one value a document is, if it is one.
WholeValue(doc) == {v \in doc.values : Render(v) \o <<" ">> = doc.text /\ IsArr(v)}

\* "$.<field> IN $task.ctx.units"
UnitFilter(field) ==
  <<<<"$", "">>, <<"seg", <<"key", field>>>>, <<"id", "in">>,
    <<"$", "task">>, <<"seg", <<"key", "ctx">>>>, <<"seg", <<"key", "units">>>>>>

\* fanout_task: the filter goes to the datasets that have none.
Filtered(pipe, field) ==
  IF field = <<>> THEN pipe
  ELSE [pipe EXCEPT !.datasets =
          [d \in DOMAIN @ |-> IF @[d].filter = <<>> THEN [@[d] EXCEPT !.filter = <<UnitFilter(field[1])>>]
                              ELSE @[d]]]

\* The context of chunk i of k, counted from 0.
ChunkCtx(units, i, k) ==
  Obj([units |-> Arr([u \in DOMAIN units |-> Str(units[u])]),
       partition |-> Obj([index |-> I64(i), of |-> I64(k)])])

SingleTask(config, s, name) ==
  [stage |-> s, pipeline |-> name, index |-> -1, ctx |-> Null,
   pipe |-> FirstNamed(config.pipelines, name)]

\* The tasks of a fan-out node; chunks without values get none.
FanOutTasks(config, s, node, units) ==
  LET part == node.partition[1]
      chunks == ChunkEvenly(units, part.workers)
      Task(c) == [stage |-> s, pipeline |-> node.pipeline, index |-> c - 1,
                  ctx |-> ChunkCtx(chunks[c], c - 1, part.workers),
                  pipe |-> Filtered(FirstNamed(config.pipelines, node.pipeline), part.field)]
      used == Those([c \in 1..part.workers |-> c], {c \in 1..part.workers : chunks[c] # <<>>})
  IN [k \in DOMAIN used |-> Task(used[k])]

\* The tasks of a node, or no plan: each a sequence of at most one.  The store of
\* the expansion is a new one, so it sees files but no in-memory table.
NodeTasks(config, store, s, node) ==
  IF Named(config.pipelines, node.pipeline) = {} THEN <<>>
  ELSE IF node.partition = <<>> THEN <<<<SingleTask(config, s, node.pipeline)>>>>
  ELSE LET part == node.partition[1]
           sources == FirstNamed(config.pipelines, node.pipeline).sources
           empty == [store EXCEPT !.mem = <<>>]
           doc == ReadSource(empty, FirstNamed(sources, part.source))
       IN IF Named(sources, part.source) = {} \/ part.workers = 0 THEN <<>>
          ELSE IF doc = <<>> \/ WholeValue(doc[1]) = {} THEN <<>>
          ELSE <<FanOutTasks(config, s, node,
                             Units(CHOOSE v \in WholeValue(doc[1]) : TRUE, part.field))>>

\* Without execution: every pipeline is a stage of its own.
Stages(config) ==
  IF config.execution # <<>> THEN config.execution
  ELSE [p \in DOMAIN config.pipelines |-> <<[pipeline |-> config.pipelines[p].name, partition |-> <<>>]>>]

\* The stages of the plan, or nothing where some node cannot be expanded.
BuildPlan(config, store) ==
  LET Tasks(s, n) == NodeTasks(config, store, s, Stages(config)[s][n])
  IN IF \E s \in DOMAIN Stages(config) : \E n \in DOMAIN Stages(config)[s] : Tasks(s, n) = <<>>
     THEN <<>>
     ELSE <<[s \in DOMAIN Stages(config) |->
               FlattenSeq([n \in DOMAIN Stages(config)[s] |-> Tasks(s, n)[1]])]>>

-----------------------------------------------------------------------------
(* Output URIs (task_uri, src/plazy.rs:85).                                *)

\* The scheduler's id of a task.
IdText(t) ==
  ToString(t.stage - 1) \o "-" \o t.pipeline
  \o (IF t.index = -1 THEN "" ELSE "/x/" \o ToString(t.index))

\* Mutant of Safe: digits are not kept.
SafeLetters(text) == Cleaned(text, (Alphanumeric \ Chars("0123456789")) \cup {"-", "_"})

\* What {task} makes of an id: a text for a path.
Safe(text) == Cleaned(text, Alphanumeric \cup {"-", "_"})

\* Without a partition {index} and {of} are empty.
Filled(t, piece) ==
  CASE piece = "{task}" -> Safe(IdText(t))
    [] piece \in {"{index}", "{of}"} ->
         IF t.ctx = Null THEN ""
         ELSE Text(Get(Get(t.ctx, "partition")[1], IF piece = "{of}" THEN "of" ELSE "index")[1])
    [] OTHER -> piece

TaskUri(t, uri) ==
  LET Concat(pieces) == FoldLeft(LAMBDA text, p : text \o Filled(t, p), "", pieces)
  IN [scheme |-> uri.scheme, path |-> Concat(uri.path), table |-> Concat(uri.table)]

\* $task: the task's info and its id.
TaskValue(t) == <<Obj([id |-> Str(IdText(t)), kind |-> Str("etl"), ctx |-> t.ctx])>>
=============================================================================
