------------------------------- MODULE MCPipeline -------------------------------
(* Instances of the data path for TLC.                                     *)
EXTENDS PlainRun, Evaluation, JsonTexts

-----------------------------------------------------------------------------
(* Notation.                                                               *)

Key(k) == <<"seg", <<"key", k>>>>
P1(a) == <<<<"$", "">>, Key(a)>>
P2(a, b) == <<<<"$", "">>, Key(a), Key(b)>>
Cast(ts, type) == <<<<"call", "cast">>>> \o ts \o <<<<"id", "as">>, <<"id", type>>, <<")">>>>
F(n, e) == [name |-> n, expr |-> e]
FileUri(p) == [scheme |-> "file", path |-> p, table |-> ""]
MemUri(t) == [scheme |-> "memory", path |-> "", table |-> t]
ToFile(pieces) == [scheme |-> "file", path |-> pieces, table |-> <<>>]
ToMem(t) == [scheme |-> "memory", path |-> <<>>, table |-> <<t>>]
ToDuck(p, t) == [scheme |-> "duckdb", path |-> <<p>>, table |-> <<t>>]
Source(n, u) == [name |-> n, uri |-> u, format |-> "json", path |-> <<>>]
Dataset(n, to, fields) ==
  [name |-> n, type |-> "master", source |-> "", to |-> to, by |-> <<>>, format |-> "parquet",
   fields |-> fields, rules |-> <<>>, join |-> <<>>, filter |-> <<>>, root |-> <<>>]
Pipe2(n, sources, sets) == [name |-> n, sources |-> sources, datasets |-> sets]
Node(p) == [pipeline |-> p, partition |-> <<>>]
Spread(p, s, f, w) == [pipeline |-> p, partition |-> <<[source |-> s, field |-> f, workers |-> w]>>]

-----------------------------------------------------------------------------
(* Documents.                                                              *)

Quote(s, bid) == Obj([sym |-> Str(s), bid |-> bid])
Leg(u, k) == Obj([u |-> Str(u), k |-> k])
Trade(id, ccy, legs) == Obj([id |-> Str(id), ccy |-> Str(ccy), legs |-> Arr(legs)])

\* Names with a closing brace and a quote, amounts that are whole floats, too large
\* for an i64, and missing.
Quotes == Arr(<<Quote("A", F64(5)), Quote("}", F64(2)), Obj([sym |-> Str("B")])>>)
Trades == Arr(<<Trade("t1", "HKD", <<Leg("A", I64(1)), Leg("B", F64(4))>>),
                Trade("\"", "USD", <<Leg("}", U64(9))>>),
                Trade("t3", "USD", <<Leg("C", I64(2)), Leg("A", Str("5"))>>)>>)
Lines == <<Obj([a |-> I64(1)]), Obj([a |-> Str("x"), b |-> Bool(TRUE)])>>

DataFiles ==
  [p \in {<<f, <<>>>> : f \in {"quotes.json", "trades.json", "lines.json", "deep.json", "old.parquet"}} |->
     CASE p[1] = "quotes.json" -> [json |-> <<Quotes>>]
       [] p[1] = "trades.json" -> [json |-> <<Trades>>]
       [] p[1] = "lines.json" -> [json |-> Lines]
       [] p[1] = "deep.json" -> [json |-> <<Obj([data |-> Obj([list |-> Trades]), n |-> I64(1)])>>]
       [] p[1] = "old.parquet" -> [names |-> <<"sym", "w">>, kinds |-> <<"str", "f64">>,
                                   rows |-> <<<<Str("A"), F64(3)>>, <<Str("B"), Null>>, <<Str("C"), F64(2)>>>>]]

QuoteFile == Source("quotes", FileUri("quotes.json"))
TradeFile == Source("trades", FileUri("trades.json"))

-----------------------------------------------------------------------------
(* Pipelines.                                                              *)

Market ==
  Pipe2("market", <<QuoteFile>>,
        <<Dataset("market", ToMem("market"), <<F("sym", P1("sym")), F("bid", Cast(P1("bid"), "double"))>>),
          Dataset("quotes", ToFile(<<"out/quotes.parquet">>), <<F("sym", P1("sym"))>>)>>)

LegRule == [name |-> "legs", cond |-> <<<<"$", "">>, Key("legs"), <<"seg", <<"idx", 0>>>>>>,
            path |-> P1("legs"), alias |-> "leg"]
Mkt == [alias |-> "mkt", target |-> MemUri("market"), leftKey |-> P2("leg", "u"),
        rightKey |-> "sym", columns |-> <<"sym", "bid">>]

\* One row per leg, joined with its quote, in directories by currency and name.
Legs(to, by) ==
  [Dataset("legs", to, <<F("id", P1("id")), F("k", Cast(P2("leg", "k"), "long")),
                         F("u", P2("leg", "u")), F("ccy", P1("ccy")),
                         F("bid", Cast(<<<<"col", "mkt", "bid">>>>, "double"))>>)
   EXCEPT !.type = "unwound", !.rules = <<LegRule>>, !.join = <<Mkt>>, !.by = by]

\* The same as an assembled root.
Rooted(to) ==
  [Legs(to, <<>>) EXCEPT !.name = "rooted",
     !.root = [inst |-> "$", leg |-> "leg", market |-> "mkt"],
     !.fields = <<F("id", P2("inst", "id")), F("bid", Cast(P2("market", "bid"), "double")),
                  F("k", P2("leg", "k"))>>]

Trading(to) == Pipe2("trading", <<TradeFile>>, <<Legs(to, <<>>)>>)

\* Quotes in the order of their names' currencies, extracted with every function.
In(ts, us) == ts \o <<<<"id", "in">>>> \o us
Text1(s) == <<Lit(Str(s))>>
Odd ==
  LET cart == <<<<"call", "cartesian_product">>, <<"$", "">>, Key("legs"), <<"seg", <<"all">>>>, Key("u"), <<",">>,
                <<"$", "">>, Key("legs"), <<"seg", <<"all">>>>, Key("u"), <<",">>>> \o Text1("l != r") \o <<<<")">>>>
      first == <<<<"call", "coalesce">>>> \o P1("none") \o <<<<",">>>> \o P1("ccy") \o <<<<")">>>>
      json == <<<<"call", "to_json_string">>>> \o P1("legs") \o <<<<")">>>>
  IN Pipe2("odd", <<TradeFile>>,
       <<[Dataset("odd", ToFile(<<"res">>), <<F("pairs", cart), F("ccy", first), F("legs", json),
                                             F("yes", Text1("y")), F("flag", <<Lit(Bool(TRUE))>>)>>)
          EXCEPT !.filter = <<In(P1("ccy"), P2("ccy", "none"))>>],
         [Dataset("usd", ToMem("usd"), <<F("id", P1("id")), F("k", P2("leg", "k"))>>)
          EXCEPT !.type = "unwound",
                 !.rules = <<[LegRule EXCEPT !.cond = P1("ccy") \o <<<<"op", "=">>>> \o Text1("USD")],
                             [LegRule EXCEPT !.cond = P1("ccy") \o <<<<"op", "contains">>>> \o Text1("HK"),
                                             !.alias = "", !.name = "leg"]>>],
         [Dataset("hkd", ToFile(<<"out/hkd.parquet">>), <<F("id", P1("id")), F("n", Cast(P1("legs"), "integer"))>>)
          EXCEPT !.filter = <<In(P1("ccy"), Text1("HKD"))>>]>>)

\* Other kinds of sources, two of them in one pipeline.
Formats ==
  Pipe2("formats",
        <<[Source("old", FileUri("old.parquet")) EXCEPT !.format = "parquet"],
          [Source("deep", FileUri("deep.json")) EXCEPT !.path = <<"data", "list">>],
          Source("lines", FileUri("lines.json"))>>,
        <<Dataset("old", ToMem("old"), <<F("sym", P1("sym")), F("w", Cast(P1("w"), "double"))>>),
          [Dataset("deep", ToFile(<<"out/deep.parquet">>), <<F("id", P1("id"))>>) EXCEPT !.source = "deep"],
          [Dataset("lines", ToMem("lines"), <<F("a", P1("a")), F("b", <<<<"$", "">>, Key("b")>>)>>)
           EXCEPT !.source = "lines"]>>)

\* From a table to a table of a duckdb file.
Copy ==
  Pipe2("copy", <<Source("legs", MemUri("legs"))>>,
        <<Dataset("copy", ToDuck("db", "legs"), <<F("id", P1("id")), F("bid", Cast(P1("bid"), "double"))>>)>>)

\* The names of the quotes, in a file of each task's own.
Listing(n, dir) ==
  Pipe2(n, <<QuoteFile>>, <<Dataset(n, ToFile(<<dir, "{task}", ".parquet">>), <<F("sym", P1("sym"))>>)>>)

\* A feed that is never there, under a name that makes its errors look soft.
Feed == Pipe2("Network-feed", <<Source("feed", FileUri("nowhere.json"))>>, Market.datasets)

\* What goes wrong: a pipeline each.
Wrong ==
  LET Bad(n, ds) == Pipe2(n, <<TradeFile>>, <<ds>>)
      base == Dataset("plain", ToFile(<<"out/plain.parquet">>), <<F("id", P1("id"))>>)
  IN <<Bad("source", [base EXCEPT !.source = "nobody"]),
       Bad("root", [base EXCEPT !.root = [inst |-> "nobody"]]),
       Bad("format", [base EXCEPT !.format = "csv"]),
       Bad("by", [base EXCEPT !.by = <<"nobody">>]),
       Pipe2("none", <<>>, <<base>>),
       Pipe2("table", <<Source("t", MemUri("nowhere"))>>, <<base>>),
       Pipe2("bytes", <<Source("t", FileUri("old.parquet"))>>, <<base>>),
       Pipe2("bytes path", <<[Source("t", FileUri("old.parquet")) EXCEPT !.path = <<"a">>]>>, <<base>>),
       Bad("bare", [base EXCEPT !.to = ToMem("t"), !.fields = <<>>]),
       Bad("twice", [base EXCEPT !.to = ToMem("t"), !.fields = @ \o @]),
       Pipe2("shape", <<[Source("t", FileUri("quotes.json")) EXCEPT !.format = "csv"]>>, <<base>>),
       Pipe2("empty", <<TradeFile>>, <<>>)>>

-----------------------------------------------------------------------------
(* Configurations.                                                         *)

Config(pipes, stages) == [pipelines |-> pipes, execution |-> stages]

Serial == Config(<<Market, Trading(ToFile(<<"out/legs">>)), Odd>>, <<>>)
Hive == Config(<<Market, Pipe2("trading", <<TradeFile>>, <<Legs(ToFile(<<"out/legs">>), <<"ccy", "u">>)>>)>>,
               <<<<Node("market")>>, <<Node("trading")>>>>)
RootedFan ==
  Config(<<Market, Pipe2("trading.eu", <<TradeFile>>, <<Rooted(ToFile(<<"out/rooted/", "{task}", ".parquet">>))>>)>>,
         <<<<Node("market")>>, <<Spread("trading.eu", "trades", <<"id">>, 2)>>>>)

\* Two fan-outs in a stage, into two directories or one.
TwoFans(m, n, dir) ==
  Config(<<Listing(m, "out/m/"), Listing(n, dir)>>,
         <<<<Spread(m, "quotes", <<"sym">>, 2), Spread(n, "quotes", <<"sym">>, 1)>>>>)
TableFan ==
  Config(<<Market, Trading(ToMem("legs")), Copy>>,
         <<<<Node("market")>>, <<Spread("trading", "trades", <<"id">>, 4)>>, <<Node("copy")>>>>)
Parallel == Config(<<Market, Trading(ToFile(<<"out/legs.parquet">>)), Formats>>,
                   <<<<Node("market"), Node("trading"), Node("formats")>>>>)
WholeFan == Config(<<Market, Trading(ToMem("legs"))>>,
                   <<<<Node("market")>>, <<Spread("trading", "trades", <<>>, 2)>>>>)
\* A join that selects nothing.
NoColumns ==
  Config(<<Market, Pipe2("trading", <<TradeFile>>,
                         <<[Legs(ToMem("legs"), <<>>) EXCEPT !.join = <<[Mkt EXCEPT !.columns = <<>>]>>,
                                                             !.fields = SubSeq(@, 1, 4)]>>)>>, <<>>)
Failing == {NoColumns} \cup {Config(<<Wrong[k]>>, <<<<Node(Wrong[k].name)>>>>) : k \in DOMAIN Wrong}
Unplanned ==
  {Config(<<Market, Copy>>, <<<<n>>>>) :
     n \in {Node("nobody"), Spread("market", "nobody", <<"sym">>, 1), Spread("copy", "legs", <<"id">>, 1),
            Spread("market", "quotes", <<"sym">>, 0)}}
  \cup {Config(<<Formats>>, <<<<Spread("formats", s, <<"a">>, 1)>>>>) : s \in {"lines", "deep"}}
Feeds == Config(<<Feed>>, <<<<Node("Network-feed")>>>>)

ManyConfigs ==
  {WithPlain(cf) : cf \in {Serial, Hive, RootedFan, TableFan, Parallel, WholeFan, Feeds, Config(<<>>, <<>>),
                           TwoFans("fx.eu", "fx-us", "out/n/")}
                           \cup Failing \cup Unplanned}

\* What TempTablesGone in DataPathProofs asks of a plan, on the plans of the instance.
ASSUME TempsAssumption ==
  \A cf \in ManyConfigs :
    \A built \in {BuildPlan(cf, NewStore)} :
      built # <<>> => JoinErrorsAreHard(built[1]) /\ NoTargetIsTemporary(cf, built[1])

\* A market whose second dataset may fail to be written, and a stage that joins it.
JoinedConfigs == {WithPlain(Hive)}

\* Two names that task_uri makes one of.
SharedTarget == {WithPlain(TwoFans("fx.eu", "fx_eu", "out/m/"))}

-----------------------------------------------------------------------------
(* The parser and the scanner, over bounded inputs.                        *)

\* A state of the run to check them in.
Once == stage = 0 /\ config.pipelines = <<>>

Atoms == {<<"root">>, <<"task", <<<<"key", "ctx">>, <<"key", "units">>>>>>,
          <<"path", <<<<"key", "a">>, <<"all">>, <<"idx", 0>>>>>>, Lit(I64(1))}
Nodes1 == Atoms \cup {<<"cast", a, k>> : a \in Atoms, k \in DOMAIN TypeWord} \cup {<<"tojson", a>> : a \in Atoms}
                \cup {<<"coalesce", <<a, b>>>> : a, b \in Atoms} \cup {<<"cart", a, a, b>> : a, b \in Atoms}
Nodes2 == Nodes1 \cup {<<"in", a, b>> : a, b \in Nodes1} \cup {<<"cart", a, b, Lit(Null)>> : a \in Atoms, b \in Nodes1}
                 \cup {<<"coalesce", <<a, b>>>> : a, b \in Nodes1} \cup {<<"cast", n, "str">> : n \in Nodes1}

\* An expression is read as it is written, the clause after IN included: a lost filter
\* would send every record to every partition (compile).
CompileReadsBack == Once => \A n \in Nodes2 : Compile(Written(n)) = n

Inner == {I64(1), Str("}"), Str("\""), Str("\\"), Arr(<<>>), Obj([k |-> Str("]")])}
Containers == {Arr(<<v>>) : v \in Inner} \cup {Obj([k |-> v]) : v \in Inner} \cup {Obj(<<>>)}
Documents == {<<>>} \cup {<<v>> : v \in Containers} \cup {<<v, w>> : v, w \in Containers}
Spaced(vs, gap) == FlattenSeq([k \in DOMAIN vs |-> IF k = 1 THEN Render(vs[k]) ELSE gap \o Render(vs[k])])

\* The scanner cuts an array of containers, and objects one after the other, into
\* exactly their texts, whatever brackets and quotes stand in strings (RecordScanner).
ScanYieldsRecords ==
  Once => \A vs \in Documents :
    LET texts == [k \in DOMAIN vs |-> Render(vs[k])]
    IN /\ \A gap \in {<<",">>, <<" ", ",", " ">>} :
            Slices(<<" ", "[">> \o Spaced(vs, gap) \o <<"]", " ">>, 1) = texts
       /\ (\A k \in DOMAIN vs : vs[k][1] = "obj") => Slices(Spaced(vs, <<" ">>), 1) = texts
=============================================================================
