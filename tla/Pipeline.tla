------------------------------- MODULE Pipeline -------------------------------
(***************************************************************************)
(* The data path of a scheduled run (src/plazy.rs, src/store.rs,            *)
(* src/columnar.rs, under src/etl_sched.rs): what the tasks of a plan read, *)
(* extract, join and write.  A task holds the mutex of the shared store     *)
(* from its first read to its last write, so tasks follow each other in any *)
(* order the mutex gives; within a task a step is one record of a scan, or  *)
(* one dataset assembled and written.  Files may fail to be read or         *)
(* written, softly or hard; a soft failure runs the task again.             *)
(*                                                                         *)
(* The driver, the kernel and the threads are module EtlRun; here a stage   *)
(* is the set of its tasks that are still to be run to an end.              *)
(***************************************************************************)
EXTENDS EtlPlan

CONSTANTS
  Configs,      \* configurations to choose from
  Files,        \* the files there are before the run, by path
  Retries,      \* the retries argument, at least 1
  Keywords,     \* words that make an error retryable
  FaultBound    \* bound: reads and writes that may fail

ASSUME ConfigsAssumption == \A cf \in Configs : ConfigOK(cf)
ASSUME FilesAssumption == \A p \in DOMAIN Files : FileOK(Files[p])
ASSUME RetriesAssumption == Retries \in Nat \ {0}
ASSUME FaultBoundAssumption == FaultBound \in Nat

VARIABLES
  config,    \* the configuration, chosen at the start
  store,     \* the shared store and the file system
  plan,      \* the tasks of each stage
  stage,     \* the stage that runs; 0 before the expansion
  left,      \* its tasks that have not ended, as indices
  tries,     \* runs of each of its tasks so far
  job,       \* the run that holds the store, or NoJob
  faults,    \* failures of reads and writes so far
  outcome    \* of the driver: "running", "ok", "killed" or "error"

pipeVars == <<config, store, plan, stage, left, tries, job, faults, outcome>>

NoJob == [task |-> 0]
Torn == [torn |-> TRUE]    \* a file that was cut short

-----------------------------------------------------------------------------
(* Accumulators (DatasetAcc).                                              *)

Projection(ds, k) ==
  IF ds.join = <<>> THEN <<>> ELSE JoinedColumn(ds.join[1].alias, ds.fields[k].expr)

\* The fields that are extracted from the record, in order.
LocalFields(ds) ==
  Those([k \in DOMAIN ds.fields |-> k], {k \in DOMAIN ds.fields : Projection(ds, k) = <<>>})
FieldColumn(ds, k) == Column(ds.fields[k].name, ExprKind(ds.fields[k].expr))
HasRoot(ds) == ds.root # <<>>

\* The expressions are compiled once; key and filter are sequences of at most one.
NewAcc(ds) ==
  [cols |-> [c \in DOMAIN LocalFields(ds) |-> FieldColumn(ds, LocalFields(ds)[c])],
   nodes |-> [k \in DOMAIN ds.fields |-> Compile(ds.fields[k].expr)],
   key |-> IF ds.join = <<>> THEN <<>> ELSE <<Compile(ds.join[1].leftKey)>>,
   filter |-> [f \in DOMAIN ds.filter |-> Compile(ds.filter[f])],
   lk |-> IF ds.join = <<>> THEN <<>> ELSE <<Column("__lk0", "str")>>,
   raws |-> <<>>, elems |-> <<>>]

\* Mutant of PushedKey: the key is taken for the first row only.
PushedKeyOnce(acc, rows) ==
  [c \in DOMAIN acc.lk |->
     IF acc.lk[c].cells # <<>> THEN acc.lk[c]
     ELSE Push(acc.lk[c], [r \in DOMAIN rows |-> ToCell(Eval(acc.key[c], rows[r]), "str")])]

PushedKey(acc, rows) ==
  [c \in DOMAIN acc.lk |->
     Push(acc.lk[c], [r \in DOMAIN rows |-> ToCell(Eval(acc.key[c], rows[r]), "str")])]

PushedCells(acc, ds, c, rows) ==
  Push(acc.cols[c],
       [r \in DOMAIN rows |-> ToCell(Eval(acc.nodes[LocalFields(ds)[c]], rows[r]), acc.cols[c].kind)])

\* What a row_root takes of the unwound element: its alias and its value, if there is one.
RootElem(ctx) == IF ctx.elem = <<>> THEN <<>> ELSE <<ctx.alias[1], ctx.elem[1]>>

\* eval, for each row: a dataset with a row_root keeps what its root is made of.
PushRows(acc, ds, rows) ==
  IF HasRoot(ds)
  THEN [acc EXCEPT !.lk = PushedKey(acc, rows),
                   !.raws = @ \o [r \in DOMAIN rows |-> rows[r].base],
                   !.elems = @ \o [r \in DOMAIN rows |-> RootElem(rows[r])]]
  ELSE [acc EXCEPT !.lk = PushedKey(acc, rows),
                   !.cols = [c \in DOMAIN @ |-> PushedCells(acc, ds, c, rows)]]

\* The rows a record gives, as contexts: one per element of each rule that applies.
RuleRows(rule, v, task) ==
  LET found == ResolvePath(rule.path, RecordCtx(v, task))
      alias == IF rule.alias = "" THEN rule.name ELSE rule.alias
  IN IF found = <<>> \/ ~ EvalCondition(rule.cond, RecordCtx(v, task)) THEN <<>>
     ELSE [e \in DOMAIN Elements(found[1]) |-> Ctx(v, <<Elements(found[1])[e]>>, <<alias>>, task)]

RecordRows(ds, v, task) ==
  IF ds.type = "unwound"
  THEN FlattenSeq([r \in DOMAIN ds.rules |-> RuleRows(ds.rules[r], v, task)])
  ELSE <<RecordCtx(v, task)>>

Keep(filter, ctx) == filter = <<>> \/ Truthy(Eval(filter[1], ctx))

\* scan_group: one record for one dataset.
Scanned(acc, ds, v, task) ==
  LET rows == RecordRows(ds, v, task)
  IN PushRows(acc, ds, Those(rows, {ctx \in Range(rows) : Keep(acc.filter, ctx)}))

-----------------------------------------------------------------------------
(* Assembling and writing (assemble_and_write, assemble_row_root).         *)

AccRows(acc, ds) ==
  IF HasRoot(ds) THEN Len(acc.raws)
  ELSE IF ds.join # <<>> THEN Len(acc.lk[1].cells) ELSE RowCount(acc.cols)

TempTable(ds) == "__ds_" \o Cleaned(ds.name, Alphanumeric \cup {"_"})

\* The error of a join may quote any name of its statement.
JoinError(ds) ==
  Says(<<"prepare join", TempTable(ds), NameIn(ds.join[1].target, "t"), ds.join[1].rightKey>>
       \o ds.join[1].columns)

JoinDropped(rows, st, ds) ==
  IF rows = <<>> THEN [err |-> JoinError(ds), store |-> st, rows |-> <<>>]
  ELSE [err |-> <<>>, store |-> DropTable(st, TempTable(ds)), rows |-> rows[1]]

JoinWritten(written, ds) ==
  LET j == ds.join[1]
  IN IF written.err # <<>> THEN [err |-> written.err, store |-> written.store, rows |-> <<>>]
     ELSE JoinDropped(LeftJoin(written.store, TempTable(ds), j.target, j.rightKey, j.columns),
                      written.store, ds)

\* The join, if there is one and there are rows: the rows go to a temporary table of
\* the in-memory connection, are joined and dropped.  A join that fails leaves it.
JoinSteps(st, acc, ds) ==
  LET n == AccRows(acc, ds)
      rid == [Column("__rid", "i64") EXCEPT !.cells = [r \in 1..n |-> I64(r - 1)]]
      temp == (IF HasRoot(ds) THEN <<>> ELSE acc.cols) \o <<acc.lk[1], rid>>
  IN JoinWritten(CreateAndAppend(st, "mem", TempTable(ds), temp, n), ds)

\* A joined row by position; a column that is not selected reads as the first one.
JoinedCell(rows, r, columns, col) ==
  LET c == IF Contains(columns, col) THEN IndexOf(columns, col) ELSE 1
  IN IF r \in DOMAIN rows /\ c \in DOMAIN rows[r] THEN rows[r][c] ELSE Null

\* The value of one part of a row's root: at most one, none if it is unknown.
RootPart(acc, ds, rows, r, part) ==
  IF part = "$" THEN <<acc.raws[r]>>
  ELSE IF ds.join # <<>> /\ ds.join[1].alias = part
       THEN LET cols == ds.join[1].columns
            IN <<Obj([c \in Range(cols) |-> CellValue(JoinedCell(rows, r, cols, c))])>>
  ELSE IF acc.elems[r] # <<>> /\ acc.elems[r][1] = part THEN <<acc.elems[r][2]>>
  ELSE <<>>

\* The children whose part some row does not have.
RootUnknown(acc, ds, rows) ==
  {key \in DOMAIN ds.root :
     \E r \in DOMAIN acc.raws : RootPart(acc, ds, rows, r, ds.root[key]) = <<>>}

RootError(ds, keys) == Says(<<"row_root child">> \o SetToSeq(keys \cup {ds.root[key] : key \in keys}))

\* The cell of field k in output row r.
OutCell(acc, ds, rows, task, r, k) ==
  IF HasRoot(ds)
  THEN LET root == Obj([key \in DOMAIN ds.root |-> RootPart(acc, ds, rows, r, ds.root[key])[1]])
       IN ToCell(Eval(acc.nodes[k], RecordCtx(root, task)), FieldColumn(ds, k).kind)
  ELSE IF Projection(ds, k) # <<>>
  THEN JoinedCell(rows, r, ds.join[1].columns, Projection(ds, k)[1])
  ELSE acc.cols[IndexOf(LocalFields(ds), k)].cells[r]

OutColumns(acc, ds, rows, task) ==
  [k \in DOMAIN ds.fields |->
     LET col == FieldColumn(ds, k)
     IN [col EXCEPT !.cells = [r \in 1..AccRows(acc, ds) |->
                                 Coerce(OutCell(acc, ds, rows, task, r, k), col.kind)]]]

EndsWith(s, t) == Len(s) >= Len(t) /\ SubSeq(s, Len(s) - Len(t) + 1, Len(s)) = t

\* The path of the file, or of the directory, that is written.
FileBase(ds, uri) ==
  IF EndsWith(uri.path, ".parquet") \/ ds.by # <<>> THEN uri.path
  ELSE uri.path \o "/" \o ds.name \o ".parquet"

\* write_target
WriteTarget(st, t, ds, cols) ==
  LET uri == TaskUri(t, ds.to)
  IN IF uri.scheme # "file"
     THEN CreateAndAppend(st, Conn(uri), NameIn(uri, ds.name), cols, RowCount(cols))
     ELSE IF ds.format \notin {"", "parquet"} 
     THEN Failed(Says(<<"unsupported output format", ds.format, uri.path>>), st)
     ELSE WriteFiles(st, FileBase(ds, uri), cols, ds.by)

WriteJoined(joined, t, acc, ds) ==
  IF joined.err # <<>> THEN Failed(joined.err, joined.store)
  ELSE IF HasRoot(ds) /\ RootUnknown(acc, ds, joined.rows) # {}
  THEN Failed(RootError(ds, RootUnknown(acc, ds, joined.rows)), joined.store)
  ELSE WriteTarget(joined.store, t, ds, OutColumns(acc, ds, joined.rows, TaskValue(t)))

Assembled(st, t, acc, ds) ==
  WriteJoined(IF ds.join # <<>> /\ AccRows(acc, ds) > 0 THEN JoinSteps(st, acc, ds)
              ELSE [err |-> <<>>, store |-> st, rows |-> <<>>],
              t, acc, ds)

-----------------------------------------------------------------------------
(* The run of one task (run_one_pipeline).                                 *)

\* The datasets by the source they read, in the order the sources are first named;
\* a dataset that names none reads the first source.
SourceOf(pipe, ds) == IF ds.source = "" THEN pipe.sources[1].name ELSE ds.source
Groups(pipe) ==
  LET Of(d) == SourceOf(pipe, pipe.datasets[d])
      all == [d \in DOMAIN pipe.datasets |-> d]
      GroupOf(d) == [source |-> Of(d), sets |-> Those(all, {e \in DOMAIN all : Of(e) = Of(d)})]
  IN FlattenSeq([d \in DOMAIN all |-> IF \A e \in 1..(d - 1) : Of(e) # Of(d) THEN <<GroupOf(d)>> ELSE <<>>])

Task == plan[stage][job.task]
Pipe == Task.pipe
Group == Groups(Pipe)[job.group]
GroupSet(g) == Pipe.datasets[Group.sets[g]]

Sources(st, pipe) ==
  [s \in DOMAIN pipe.sources |-> ReadSource(st, pipe.sources[s])]

\* Group g of a task's run begins: empty accumulators, the scanner at the start.
AtGroup(k, pipe, docs, g) ==
  [task |-> k, docs |-> docs, group |-> g, pos |-> 1, writing |-> 0,
   accs |-> LET sets == Groups(pipe)[g].sets IN [d \in DOMAIN sets |-> NewAcc(pipe.datasets[sets[d]])]]

\* is_retryable looks for its words in the whole text of the error, in small letters:
\* the name of the pipeline and whatever the message quotes included.
IsRetryable(t, err) ==
  LET text == Lowered(Says(<<"pipeline", t.pipeline>> \o err)[1])
  IN \E w \in Keywords : Occurs(w, text)

\* Mutant of Fails: the attempts are not counted.
FailsForever(k, err) ==
  LET again == IsRetryable(plan[stage][k], err)
  IN /\ job' = NoJob
     /\ \/ again /\ UNCHANGED <<left, outcome>>
        \/ (again => outcome = "killed") /\ left' = left \ {k} /\ outcome' = "killed"

\* EtlHook: reschedule or kill; the driver gives up at the first kill, and a task to
\* be run again may find the kernel stopped.
Fails(k, err) ==
  LET again == IsRetryable(plan[stage][k], err) /\ tries'[k] <= Retries
  IN /\ job' = NoJob
     /\ \/ again /\ UNCHANGED <<left, outcome>>
        \/ (again => outcome = "killed") /\ left' = left \ {k} /\ outcome' = "killed"

Finishes(k) ==
  /\ job' = NoJob
  /\ left' = left \ {k}
  /\ UNCHANGED outcome

\* A failure of the system, soft or hard, whatever path its text quotes.
FaultWords == {<<"timed out">>, <<"denied">>}
CanFault == faults < FaultBound /\ faults' = faults + 1

\* The first source that cannot be read, or none to read by default.
BeginError(st, pipe) ==
  LET failing == {s \in DOMAIN pipe.sources : Sources(st, pipe)[s] = <<>>}
  IN IF failing = {} THEN Says(<<"no source defined">>) ELSE SourceError(st, pipe.sources[Min(failing)])

\* A worker gets the store and reads every source of its pipeline.
Begin(k) ==
  LET t == plan[stage][k]
      docs == Sources(store, t.pipe)
      sets == t.pipe.datasets
  IN /\ job = NoJob /\ k \in left
     /\ tries' = [tries EXCEPT ![k] = @ + 1]
     /\ IF \/ \E s \in DOMAIN docs : docs[s] = <<>>
           \/ docs = <<>> /\ \E d \in DOMAIN sets : sets[d].source = ""
        THEN Fails(k, BeginError(store, t.pipe))
        ELSE job' = AtGroup(k, t.pipe, docs, 1) /\ UNCHANGED <<left, outcome>>
     /\ UNCHANGED <<config, store, plan, stage, faults>>

\* A file cannot be read.
BeginFault(k) ==
  /\ job = NoJob /\ k \in left
  /\ CanFault
  /\ tries' = [tries EXCEPT ![k] = @ + 1]
  /\ \E s \in DOMAIN plan[stage][k].pipe.sources :
       plan[stage][k].pipe.sources[s].uri.scheme = "file"
  /\ \E err \in FaultWords : Fails(k, err)
  /\ UNCHANGED <<config, store, plan, stage>>

Declared == Named(Pipe.sources, Group.source)
Input == job.docs[Min(Declared)][1]

\* A dataset names a source that the pipeline does not have.
UnknownSource ==
  /\ job # NoJob /\ job.writing = 0 /\ Declared = {}
  /\ UNCHANGED <<config, store, plan, stage, tries, faults>>
  /\ Fails(job.task, Says(<<"unknown source", Group.source>>))

\* One record of the group's source, for every dataset of the group; a slice that
\* does not parse, and null, are passed over.
ScanRecord ==
  /\ job # NoJob /\ job.writing = 0 /\ Declared # {}
  /\ \E next \in {Scan(Input.text, job.pos)} : \E parsed \in {Parse(next.slice, Input.values)} :
       IF next.done THEN job' = [job EXCEPT !.writing = 1]
       ELSE job' = [job EXCEPT !.pos = next.pos,
                      !.accs = IF parsed \in {<<>>, <<Null>>} THEN @
                               ELSE [d \in DOMAIN @ |->
                                       Scanned(@[d], GroupSet(d), parsed[1], TaskValue(Task))]]
  /\ UNCHANGED <<config, store, plan, stage, left, tries, faults, outcome>>

\* The next dataset of the group is assembled and written; after the last one, the
\* next group begins, or the task is over.
WriteDataset ==
  /\ job # NoJob /\ job.writing > 0
  /\ UNCHANGED <<config, plan, stage, tries, faults>>
  /\ \E result \in {Assembled(store, Task, job.accs[job.writing], GroupSet(job.writing))} :
       /\ store' = result.store
       /\ IF result.err # <<>> THEN Fails(job.task, result.err)
          ELSE IF job.writing < Len(Group.sets)
          THEN job' = [job EXCEPT !.writing = @ + 1] /\ UNCHANGED <<left, outcome>>
          ELSE IF job.group < Len(Groups(Pipe))
          THEN /\ job' = AtGroup(job.task, Pipe, job.docs, job.group + 1)
               /\ UNCHANGED <<left, outcome>>
          ELSE Finishes(job.task)

Changed(old, new) == {p \in DOMAIN new : p \notin DOMAIN old \/ old[p] # new[p]}

\* The files where those of done have been written and those of torn in part.
CutShort(old, new, done, torn) ==
  [p \in DOMAIN old \cup done \cup torn |-> IF p \in torn THEN Torn ELSE IF p \in done THEN new[p] ELSE old[p]]

\* The files of a dataset cannot all be written: some are, one may be cut short, the
\* others are left as they were.
WriteFault ==
  /\ job # NoJob /\ job.writing > 0
  /\ GroupSet(job.writing).to.scheme = "file"
  /\ CanFault
  /\ UNCHANGED <<config, plan, stage, tries>>
  /\ \E result \in {Assembled(store, Task, job.accs[job.writing], GroupSet(job.writing))} :
       \E new \in {Changed(store.files, result.store.files)} :
       \E torn \in {{}} \cup {{p} : p \in new} : \E done \in SUBSET (new \ torn) :
         /\ result.err = <<>> /\ done # new
         /\ store' = [result.store EXCEPT !.files = CutShort(store.files, @, done, torn)]
  /\ \E err \in FaultWords : Fails(job.task, err)

-----------------------------------------------------------------------------
(* The driver.                                                             *)

\* A task whose id the stage has already is ignored by the kernel.
TasksOf(s) == {k \in DOMAIN s : \A j \in 1..(k - 1) : IdText(s[j]) # IdText(s[k])}

EnterStage(p, s) ==
  /\ stage' = s
  /\ left' = TasksOf(p[s])
  /\ tries' = [k \in DOMAIN p[s] |-> 0]

\* No pipelines, or one that makes nothing.
Refused == config.pipelines = <<>> \/ \E p \in DOMAIN config.pipelines : config.pipelines[p].datasets = <<>>

Expand ==
  /\ stage = 0 /\ outcome = "running"
  /\ UNCHANGED <<config, store, job, faults>>
  /\ \E built \in {BuildPlan(config, store)} :
       IF Refused \/ built = <<>>
       THEN outcome' = "error" /\ UNCHANGED <<plan, stage, left, tries>>
       ELSE plan' = built[1] /\ EnterStage(built[1], 1) /\ UNCHANGED outcome

\* The universe of a fan-out cannot be read.
ExpandFault ==
  /\ stage = 0 /\ outcome = "running"
  /\ CanFault
  /\ \E s \in DOMAIN Stages(config) : \E n \in DOMAIN Stages(config)[s] : Stages(config)[s][n].partition # <<>>
  /\ outcome' = "error"
  /\ UNCHANGED <<config, store, plan, stage, left, tries, job>>

StageOver ==
  /\ outcome = "running" /\ stage > 0
  /\ job = NoJob /\ left = {}
  /\ IF stage < Len(plan) THEN EnterStage(plan, stage + 1) /\ UNCHANGED outcome
     ELSE outcome' = "ok" /\ UNCHANGED <<stage, left, tries>>
  /\ UNCHANGED <<config, store, plan, job, faults>>

\* After a kill the kernel stops: a task that waits for a slot, or to be run again,
\* is dropped.  Those whose thread has started go on.
NeverRun ==
  /\ outcome = "killed"
  /\ \E k \in left : job.task # k /\ left' = left \ {k}
  /\ UNCHANGED <<config, store, plan, stage, tries, job, faults, outcome>>

PipeInit ==
  /\ config \in Configs
  /\ store = [mem |-> <<>>, duck |-> <<>>, files |-> Files]
  /\ plan = <<>> /\ stage = 0 /\ left = {} /\ tries = <<>>
  /\ job = NoJob
  /\ faults = 0
  /\ outcome = "running"

Works == \/ \E k \in left : Begin(k) \/ BeginFault(k)
         \/ UnknownSource \/ ScanRecord \/ WriteDataset \/ WriteFault

\* Nothing more happens.
Ended == outcome # "running" /\ job = NoJob /\ left = {} /\ UNCHANGED pipeVars

PipeNext == Expand \/ ExpandFault \/ StageOver \/ NeverRun \/ Works \/ Ended

\* The threads of the driver and of the workers keep going; the mutex is handed to
\* some worker that waits for it.
PipeSpec == PipeInit /\ [][PipeNext]_pipeVars /\ WF_pipeVars(PipeNext)

-----------------------------------------------------------------------------
(* Type invariant.                                                         *)

\* All columns of an accumulator are equally long, the join key's included: a shorter
\* column would shift cells to other rows (DatasetAcc, slice_array).
AccOK(acc) ==
  LET lengths == {Len(acc.cols[c].cells) : c \in DOMAIN acc.cols}
                 \cup {Len(acc.lk[c].cells) : c \in DOMAIN acc.lk}
  IN IF acc.raws = <<>> THEN Cardinality(lengths) <= 1
     ELSE /\ Len(acc.elems) = Len(acc.raws)
          /\ \A c \in DOMAIN acc.lk : Len(acc.lk[c].cells) = Len(acc.raws)

PipeTypeOK ==
  /\ stage \in 0..Len(plan) /\ left \subseteq DOMAIN tries
  /\ outcome \in {"running", "ok", "killed", "error"}
  /\ faults \in 0..FaultBound
  /\ \A k \in DOMAIN tries : tries[k] \in 0..(Retries + 1)
  /\ \A t \in DOMAIN store.mem : TableOK(store.mem[t])
  /\ \A t \in DOMAIN store.duck : TableOK(store.duck[t])
  /\ \A p \in DOMAIN store.files : "rows" \in DOMAIN store.files[p] => TableOK(store.files[p])
  /\ job # NoJob =>
       /\ job.task \in left
       /\ \A s \in DOMAIN job.docs : IsSeq(job.docs[s][1].text)
       /\ \A d \in DOMAIN job.accs : AccOK(job.accs[d])

-----------------------------------------------------------------------------
(* Termination.                                                            *)

\* What is left to do: stages, runs of the stage's tasks, groups of the run that is
\* under way, its datasets to be written, characters of its source.
Rank ==
  LET busy == job # NoJob
      scanning == busy /\ job.writing = 0
  IN <<IF outcome \in {"ok", "error"} THEN 0 ELSE Len(Stages(config)) + 1 - stage,
       Cardinality({run \in left \X (1..(Retries + 1)) : tries[run[1]] < run[2]}),
       IF busy THEN Len(Groups(Pipe)) + 1 - job.group ELSE 0,
       IF busy THEN Len(Group.sets) + 1 - job.writing ELSE 0,
       IF scanning /\ Declared # {} THEN Len(Input.text) + 1 - job.pos ELSE 0>>

\* Earlier in the order of the ranks.
Nearer(new, old) ==
  /\ \A i \in 1..5 : new[i] \in Nat
  /\ \E i \in 1..5 : new[i] < old[i] /\ \A j \in 1..(i - 1) : new[j] = old[j]

Advance == \E new \in {Rank'}, old \in {Rank} : Nearer(new, old)

\* Every step brings the run nearer to its end, so every run has one: the scanner
\* moves on, a task is run again a bounded number of times, a kill leaves no task
\* behind (RecordScanner, run_one_pipeline, EtlHook, run_scheduled).
RunAdvances == [][Advance]_pipeVars
=============================================================================
