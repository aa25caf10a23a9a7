----------------------------- MODULE MCResearch -----------------------------
EXTENDS ResearchPipeline, TLC

\* Two stocks and the benchmark; a stock may trade, the benchmark never does.
AllSymbols == <<"AAA", "BBB", "SPY">>
OneBenchmark == <<"SPY">>

\* A minute of a tape: how late it was published after its end, and its prices.
M(late, open, high, low, close, volume) ==
  [late |-> late, open |-> open, high |-> high, low |-> low, close |-> close, volume |-> volume]
Quiet(late)    == M(late, 998, 1000, 995, 999, 2)
Breaks(late)   == M(late, 999, 1006, 996, 1005, 2)
Opens(v)       == M(0, 995, 1000, 990, 999, v)

\* A tape is a set of pairs of a minute's index and the minute.
Tape(m0, m1, m2, m3, m4) == {<<0, m0>>, <<1, m1>>, <<2, m2>>, <<3, m3>>} \cup m4
Exit == {<<4, M(0, 1002, 1003, 1000, 1001, 2)>>}

BarsOn(s, d, tape) ==
  {[symbol |-> s, day |-> d, at |-> Minute(d, x[1]), available |-> Minute(d, x[1] + 1) + x[2].late,
    open |-> x[2].open, high |-> x[2].high, low |-> x[2].low, close |-> x[2].close,
    volume |-> x[2].volume] : x \in tape}

\* Late, missing and reordered bars around the entry.
EntryTapes ==
  {Tape([Opens(2) EXCEPT !.late = l0], m1, m2, Quiet(0), Exit) :
     l0 \in {0, 1, 2}, m1 \in {Quiet(0), Breaks(0), Breaks(1), Breaks(2)},
     m2 \in {Quiet(0), Breaks(0), Breaks(1)}}
  \cup {Tape([Opens(2) EXCEPT !.close = 995], Breaks(0), Quiet(0), Quiet(0), Exit),
        {<<0, Opens(2)>>, <<1, Breaks(0)>>, <<2, Quiet(0)>>}}

\* A breakout that fills, and what happens to the position.
ExitTapes ==
  {Tape(Opens(2), Breaks(0), [m2 EXCEPT !.low = low], [m3 EXCEPT !.late = l3], m4) :
     m2 \in {Quiet(0), Quiet(1)}, low \in {989, 995}, l3 \in {0, 1, 3},
     m3 \in {M(0, 1005, 1007, 999, 1004, 2), M(0, 1005, 1006, 985, 1000, 2), M(0, 988, 1001, 985, 1000, 2),
             M(0, 1015, 1016, 1010, 1012, 2)},
     m4 \in {Exit, {}}}

\* The other stock: an early breakout, too little volume, a distant stop.
Trades == Tape(Opens(3), Breaks(0), Quiet(0), Breaks(0), Exit)
Thin   == Tape(Opens(1), Breaks(1), Breaks(0), Breaks(0), Exit)
Wide   == Tape([Opens(3) EXCEPT !.low = 959], Breaks(0), Quiet(0), Breaks(0), Exit)

\* The benchmark: on time, late, and as strong as the stocks.
OnTime == Tape(Opens(2), Quiet(0), Quiet(0), Quiet(0), Exit)
Late   == Tape(Opens(2), Quiet(1), Breaks(1), Quiet(0), {})
Strong == Tape(Opens(2), Breaks(0), Quiet(0), Quiet(0), Exit)

Others == {<<Trades, OnTime>>, <<Thin, Late>>, <<Wide, OnTime>>, <<Trades, Strong>>}

SecondDays == {Strong, {}}

History == UNION {BarsOn(s, 0, OnTime) : s \in Stocks}

PublishedDatasets ==
  {History \cup BarsOn("AAA", 1, a) \cup BarsOn("BBB", 1, o[1]) \cup BarsOn("SPY", 1, o[2])
     \cup BarsOn("AAA", 2, next) \cup BarsOn("BBB", 2, Strong) \cup BarsOn("SPY", 2, OnTime) :
     a \in EntryTapes \cup ExitTapes, o \in Others, next \in SecondDays}

\* Without a published dataset the pipeline starts with the downloads.
AllDatasets == PublishedDatasets \cup {{}}

-----------------------------------------------------------------------------
\* Downloads: the first page holds two sessions and the second page the third.
TwoSymbols == <<"AAA", "SPY">>
SymbolsBefore == BarsOn("BBB", 0, OnTime) \cup BarsOn("BBB", 1, Trades) \cup BarsOn("BBB", 2, Strong)

Page(rows, next) == [rows |-> rows, next |-> next]
Older(s)  == BarsOn(s, 0, OnTime) \cup BarsOn(s, 1, Trades)
Newest(s) == BarsOn(s, 2, OnTime)

Sound(s) == <<Page(Older(s), 2), Page(Newest(s), LastPage)>>
Servers ==
  {Sound("AAA"),
   <<Page(Older("AAA"), 2), Page(Newest("AAA"), 1)>>,
   <<Page(Older("AAA"), NoField)>>,
   <<Page(Older("AAA"), 2), Page(BarsOn("AAA", 2, Thin \ Exit), NoField)>>,
   <<Page(Older("AAA"), 2), Page(Newest("AAA") \cup {b \in Older("AAA") : b.at = Minute(1, 4)}, LastPage)>>,
   <<Page(Older("AAA"), 2), Page(Newest("AAA"), 3), Page({}, LastPage)>>}
Halted(s) == <<Page(Older(s), 2), Page(BarsOn(s, 2, OnTime \ Exit), LastPage)>>
Catalogue(a, b) == ("AAA" :> a) @@ ("SPY" :> b)
AllCatalogues ==
  {Catalogue(pages, Sound("SPY")) : pages \in Servers} \cup {Catalogue(Halted("AAA"), Halted("SPY"))}
=============================================================================
