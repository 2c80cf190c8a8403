----------------------- MODULE MCMarketIntelligence -----------------------
(* Small corpora for MarketIntelligence: markets 1 to 3, 3 at home.          *)
EXTENDS MarketIntelligence

PartsOf == <<<<12, 10, 9, 11, 6, 8, 3>>, <<10, 10, 9, 11, 6, 8, 3>>, <<14, 10, 9, 11, 6, 8, 3>>>>
TotalOf == <<59, 57, 61>>

Document(ranked, rank, raw) ==
    [digest |-> "x", key |-> "k", ranked |-> ranked, home |-> 3, declared |-> 3,
     universe |-> {}, size |-> Cardinality(ranked) + 1, growth |-> "declared",
     label |-> <<"LOW", None, "LOW">>, unused |-> <<FALSE, FALSE, FALSE>>,
     rank |-> rank, total |-> TotalOf, parts |-> PartsOf, raw |-> raw,
     fit |-> <<400, None, None>>, icp |-> <<100, 200, 300>>,
     ticket |-> <<<<1, 3>>, <<2, 4>>, <<3, 5>>>>, motion |-> <<None, "email", None>>,
     rows |-> <<<<"row", "source">>, <<"row", "market">>>>]

RawOf(wealth, maturity, language, timezone, b2b, growth) ==
    [gdp |-> 1, gdp_per_capita |-> wealth, innovation |-> maturity, manufacturing |-> 1,
     growth |-> growth, language |-> language, timezone |-> timezone, b2b |-> b2b]

\* Every combination of what three markets may have measured of three metrics.
Measured ==
    [wealth : [1..3 -> {None, 1, 2}], maturity : [1..3 -> {None, 2}], spoken : BOOLEAN]

Found(found) ==
    LET language(m) == IF found.spoken THEN m - 1 ELSE None
    IN  <<RawOf(found.wealth[1], found.maturity[1], language(1), 0, 0, 1),
          RawOf(found.wealth[2], found.maturity[2], language(2), 0, None, 1),
          RawOf(found.wealth[3], found.maturity[3], language(3), 0, 2, 2)>>

\* Where nobody has measured the language or the e-mail law of the first market.
Sparse == <<RawOf(1, 0, None, 0, None, 0), RawOf(1, 1, 1, 1, 1, 1), RawOf(2, 2, 2, 2, 2, 2)>>
Absent == [RawOf(None, None, None, None, None, None) EXCEPT !.gdp = None, !.manufacturing = None]
Nothing == <<Absent, Absent, Absent>>

First == Document({1}, <<1, None, None>>, Sparse)
Abroad == [First EXCEPT !.digest = "z", !.key = "l", !.rows = <<@[2], @[1]>>,
                        !.ranked = {1, 3}, !.home = 2, !.declared = 2, !.size = 3,
                        !.rank = <<2, None, 1>>]

\* Documents and situations have names: what is measured, or a word.
Named(word) == [named |-> word]
Odd == {Named("miscounted"), Named("unmeasured"), Named("unmodelled"), Named("worthless")}
Few == {Named("first"), Named("abroad"), Named("same"), Named("undeclared")}

Documents ==
    [d \in Measured \cup Odd \cup Few |->
        CASE d \in Measured -> Document({1, 2}, <<1, 2, None>>, Found(d))
          [] d = Named("miscounted") -> [Abroad EXCEPT !.size = 2]
          [] d = Named("unmeasured") -> [First EXCEPT !.raw = Nothing]
          [] d = Named("unmodelled") -> [First EXCEPT !.raw = Nothing, !.unused = <<TRUE, FALSE, FALSE>>]
          [] d = Named("worthless") -> [First EXCEPT !.raw[1].gdp = 0]
          [] d = Named("first") -> First
          [] d = Named("abroad") -> Abroad
          [] d = Named("same") -> [First EXCEPT !.digest = "y"]
          [] d = Named("undeclared") -> [First EXCEPT !.growth = "undeclared"]]

Context(channel, vertical, ticket, allowLow, named) ==
    [channel |-> channel, vertical |-> vertical, ticket |-> ticket, allowLowCoverage |-> allowLow,
     named |-> named, markets |-> {1, 3}]

Import(d, recalculate) == [kind |-> "import", document |-> d, recalculate |-> recalculate]
Reproduce(d) == [kind |-> "reproduction", document |-> d]
Recalculate(d) == [kind |-> "native", document |-> d]
Contextual(d, context) == [kind |-> "contextual", document |-> d, context |-> context]
Decide == [kind |-> "status", status |-> "RESOLVED"]

\* All that can meet: the same content twice, a key twice, two orders of the same
\* rows and of the same gaps, and every way to be refused.
Races ==
    {Import(Named("first"), TRUE), Import(Named("same"), FALSE), Import(Named("abroad"), FALSE),
     Import(Named("undeclared"), FALSE), Reproduce(Named("first")), Recalculate(Named("first")),
     Contextual(Named("first"), Context("email", None, 3, FALSE, FALSE)), Decide}

\* Two snapshots with different home markets, and contexts that name their base run.
Settings ==
    {Import(Named("first"), FALSE), Import(Named("abroad"), FALSE), Reproduce(Named("first")),
     Contextual(Named("first"), Context("email", "v", 9, TRUE, TRUE)),
     Contextual(Named("first"), Context("multichannel", None, None, FALSE, FALSE))}

\* One session imports and scores one of the documents, or several sessions
\* meet.
Situations == Measured \cup Odd \cup {Named("races"), Named("settings")}

Asked(w) == CASE w = Named("races") -> Races
              [] w = Named("settings") -> Settings
              [] OTHER -> {Import(w, TRUE)}

Crowd(w) == IF w \in {Named("races"), Named("settings")} THEN Cardinality(Sessions) ELSE 1
=============================================================================
