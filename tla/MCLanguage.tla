----------------------------- MODULE MCLanguage -----------------------------
(* Sites, crews and jobs: what an author may try, the wrong with the right. *)
EXTENDS Answers

MCIds(kind) == {<<kind, n>> : n \in 1..2}

----
(* The world: a job is of a site and a crew, and happens at an instant. *)
Site(leaf) == <<"site", leaf>>
Job(leaf) == <<"job", leaf>>
Column(name, type) == FactField(<<name>>, type, FALSE)
SiteFact == FactDecl("site", {Column("name", "text"), Column("max", "number")}, "name", None)
CrewFact == FactDecl("crew", {Column("name", "text")}, "name", None)
JobFact == FactDecl("job", {Column("site", "text"), Column("crew", "text"), Column("id", "text"), Column("at", "moment"),
                            Column("closed", "moment"), Column("hours", "number"),
                            Column("open", "flag")}, None, None)
MCFacts == {{SiteFact, CrewFact, JobFact}, {SiteFact, [CrewFact EXCEPT !.nameField = "label"]}}

Monthly(field) == [IndexField(field) EXCEPT !.truncate = "month"]
BySite == IndexDecl(Job("by_site"), "job", ByField(IndexField(<<"site">>)), None)
BySiteCrew == IndexDecl(Job("by_site_crew"), "job",
                        ByComposite(<<IndexField(<<"site">>), IndexField(<<"crew">>)>>), None)
BySiteMonth == IndexDecl(Job("by_site_month"), "job",
                         ByComposite(<<IndexField(<<"site">>), Monthly(<<"at">>)>>), None)
ByIdMonth == IndexDecl(Job("by_id_month"), "job",
                       ByComposite(<<IndexField(<<"id">>), Monthly(<<"at">>)>>), None)
Open(value) == IndexDecl(Job("opened"), "job", ByPredicate(<<"open">>, value, FALSE), None)
MCIndexes == {{BySite, BySiteCrew, BySiteMonth, ByIdMonth, Open(v)} : v \in {"true", "false"}}

Hours == FieldMeasure(Job("hours_spent"), "job", <<"hours">>, "effort")
Lasted == DurationMeasure(Job("lasted"), "job", <<"closed">>, <<"at">>, FALSE)
MCMeasures == {{Hours, Lasted}}

----
(* Figures. *)
Set(name, index) == [name |-> name, expr |-> SetIndex(index.name, "scope")]
Narrow(name, index) ==
  [name |-> name, expr |-> SetOp(SetIndex(index.name, "scope"), SetIndex(Job("opened"), "all"))]
Over(index) == <<Set("s", index)>>
Fig(name, across, bucketed, sets, calculate) ==
  FigureDecl(name, across, bucketed, FALSE, None, sets, calculate, None)
Band(threshold) == When(Value, threshold, Text("over"), Text("ok"))

Plain == Fig(Site("open"), None, FALSE, <<Narrow("s", BySite)>>, Count("s"))
Split == Fig(Site("split"), "crew", FALSE, Over(BySiteCrew), Count("s"))
Month == Fig(Site("monthly"), None, TRUE, Over(BySiteMonth), Count("s"))
Spent == Fig(Site("spent"), None, FALSE, Over(BySite), Sum(Hours.name, "s"))
Ages == Fig(Site("ages"), None, FALSE, Over(BySite), ListOf(Lasted.name, "s"))
State == Fig(Site("state"), None, FALSE, Over(BySite),
             When(Count("s"), Number(1, None), Text("busy"), Text("idle")))
JobMonth == Fig(Job("monthly"), None, TRUE, Over(ByIdMonth), Count("s"))
Sources == {Plain, Split, Month, Spent, Ages, State, JobMonth}

Places == {<<>>, Over(BySite), Over(BySiteCrew), Over(BySiteMonth)}
ReadsOf(name) == {Setting(name, None), Coord(name), RollUp(name), Spread(name, "s"), Sum(name, "s")}
Readers ==
  {Fig(<<scope, "read">>, across, bucketed, sets, calculate) :
     scope \in {"site", "crew"}, across \in {None, "crew"}, bucketed \in BOOLEAN, sets \in Places,
     calculate \in UNION {ReadsOf(f.name) : f \in Sources}}

Banded(f, threshold) == [f EXCEPT !.name = <<@[1], "banded">>, !.band = Band(threshold)]
Bands ==
  {Banded(f, t) : f \in {Plain, Month, Spent},
     t \in {Number(60, "minutes"), Number(1, "hours"), Number(1, None), Setting(Site("max"), None),
            Setting(Site("max"), "minutes"), Setting(Plain.name, None), Setting(Spent.name, None),
            Setting(Split.name, None), Coord(Month.name)}}
MCFigures == Sources \union Readers \union Bands

----
(* What is asked of them. *)
Trending(source, fns, requires, band) ==
  ReadingDecl(Site("trend"), source.mode = "window", source, {Statistic(fn, None) : fn \in fns},
              requires, CHOOSE fn \in fns : TRUE, band)
MCReadings ==
  {Trending(source, fns, None, band) :
     source \in {WindowedSource(Month.name), WindowedSource(Site("banded")), WindowedSource(Plain.name),
                 LiveSource(Lasted.name, SetIndex(BySite.name, "scope"))},
     fns \in {{"sum"}, {"mean"}, {"sum", "mean"}},
     band \in {None} \union {Band(t) : t \in {Setting(Month.name, None), Setting(Spent.name, None),
                                            Setting(Site("banded"), None), Number(2, None)}}}

Field(name, path, type) == FieldDecl(name, path, type, None)
Project(kind, fields, reads, values, frm, scopedBy) ==
  ProjectDecl(<<kind, "page">>, frm, scopedBy, fields, reads, values, {}, None, None, None)
Rows ==
  {Project("site", {Field("key", <<"name">>, "text")}, {ReadDecl("n", f, band)},
           <<ValueDecl("twice", Arith(Part("n"), Part("n")), "share")>>, None, None) :
     f \in {Plain.name, Split.name, Month.name, Spent.name, Site("banded")}, band \in BOOLEAN}
Jobs(scopedBy) ==
  Project("job", {Field("began", <<"at">>, "date"), Field("key", <<"id">>, "text")}, {},
          <<ValueDecl("age", DaysBetween("began", "now"), "days")>>,
          SetIndex(Job("opened"), "all"), scopedBy)
MCProjections == Rows \union {Jobs(None), Jobs(BySiteMonth.name)}

Tally(over, total) ==
  SummariseDecl(<<over, "tally">>, <<over, "page">>, {CountDecl("all", None)},
                {TotalDecl("sum", total, None)}, <<>>)
MCSummaries == {Tally("site", "n"), Tally("site", "key"), Tally("job", "age"), Tally("job", "began")}

Tile(members) == BundleDecl(Site("tile"), members)
Trend(slot, windows) == BundleMember(slot, "reading", Site("trend"), windows)
MCBundles ==
  {Tile(<<BundleMember("a", "figure", f, None)>>) : f \in {Plain.name, Split.name, Month.name}}
  \union {Tile(<<Trend("a", w)>>) :
            w \in {None, <<WindowArg(TRUE, 1, 12)>>, <<WindowArg(FALSE, 1, 119)>>,
                   <<WindowArg(FALSE, 1, 3), WindowArg(TRUE, 1, 2)>>,
                   <<WindowArg(TRUE, 1, 2), WindowArg(FALSE, 2, 2)>>}}
  \union {Tile(<<BundleMember("a", "projection", Job("page"), None),
                 BundleMember("b", "summary", Job("tally"), None)>>)}
MCDefault == <<WindowArg(FALSE, 1, 30), WindowArg(FALSE, 1, 14), WindowArg(FALSE, 1, 7)>>

----
(* What an edit of the source may change. *)
Carried == [Month EXCEPT !.carried = TRUE]
Above == Fig(Site("above"), None, FALSE, <<>>, Setting(Plain.name, None))
Whole == [Plain EXCEPT !.sets = Over(BySite)]
Months(bucketed) == Fig(Site("above"), None, bucketed, <<>>, Coord(Month.name))
Edited == {Plain, Whole, Month, Carried, Above, Months(TRUE), Months(FALSE)} \union {Banded(Plain, Number(n, None)) : n \in {1, 2}}
MCRewrites == Edited \union {Jobs(None), Jobs(BySiteMonth.name), Tally("job", "age")}
MCAbove == MCFigures \union Edited

=============================================================================
