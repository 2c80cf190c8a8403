--------------------------- MODULE MCDiscoveryRun ---------------------------
(* Small situations for DiscoveryRun.                                        *)
EXTENDS DiscoveryRun

CONSTANTS r1, r2, b1, b2

Directory == "directory"
Export == "export"
Scrape == "scrape"

MCProviders ==
    [p \in {Directory, Export, Scrape} |->
        CASE p = Directory -> [identity |-> "NATIVE", tier |-> 800]
          [] p = Export -> [identity |-> "DERIVED", tier |-> 500]
          [] p = Scrape -> [identity |-> "CONTENT", tier |-> 300]]

MCContents == <<"acme", "shop", "ltd", "big", "small", "odd", "noise">>

Company(name, domain, min, max) ==
    [name |-> name, domain |-> domain,
     staff |-> IF min = None /\ max = None THEN None ELSE [min |-> min, max |-> max]]

\* A later normalizer understands "noise".
MCReads(content, normalizer) ==
    CASE content = "acme" -> Company("acme", "acme.com", 2, 3)
      [] content = "shop" -> Company("shop", "host.com", None, None)
      [] content = "ltd" -> Company("ltd", "acme.com", None, None)
      [] content = "big" -> Company("acme", "acme.com", 5, None)
      [] content = "small" -> Company("small", "acme.com", None, 3)
      [] content = "odd" -> Company("odd", None, 5, 3)
      [] content = "noise" -> IF normalizer = 1 THEN None ELSE Company("ltd", None, None, None)

Record(ext, content, bytes) ==
    [ext |-> ext, content |-> content, bytes |-> bytes, broken |-> FALSE, unstorable |-> FALSE]

Order(provider, normalizer, market, offers) ==
    [provider |-> provider, normalizer |-> normalizer, market |-> market,
     allow_partial |-> FALSE, unreachable |-> FALSE, offers |-> offers]

MCSituations ==
    {"race", "moved", "same domain", "collision", "new normalizer", "envelope", "pages", "partial"}

MCParty(s) ==
    CASE s \in {"race", "pages", "partial"} -> {r1, r2}
      [] s = "moved" -> {r1, b1, b2}
      [] OTHER -> {r1, r2, b1}

First(s) ==
    CASE s = "race" -> Order(Directory, 1, None, <<Record("x", "acme", 1), Record("y", "shop", 1)>>)
      [] s = "moved" -> Order(Directory, 1, "m", <<Record("x", "acme", 1), Record("y", "shop", 1)>>)
      [] s = "same domain" -> Order(Directory, 1, None, <<Record("x", "acme", 1)>>)
      [] s = "envelope" ->
            Order(Directory, 1, None,
                  <<Record("x", "big", 1), [Record("y", "acme", 1) EXCEPT !.unstorable = TRUE]>>)
      [] s = "collision" -> Order(Export, 1, None, <<Record(None, "acme", 1)>>)
      [] s = "new normalizer" -> Order(Export, 1, "m", <<Record(None, "noise", 1), Record(None, "ltd", 1)>>)
      [] s = "pages" ->
            Order(Directory, 1, None,
                  <<[Record("x", "noise", 1) EXCEPT !.broken = TRUE],
                    Record("y", "shop", 1), Record("x", "acme", 1)>>)
      [] s = "partial" -> [Order(Scrape, 1, "m", <<>>) EXCEPT !.unreachable = TRUE]

Second(s) ==
    CASE s = "race" ->
            Order(Directory, 1, None,
                  <<Record("y", "shop", 1), Record("x", "acme", 2), Record("x", "odd", 1)>>)
      [] s \in {"same domain", "envelope"} ->
            Order(Scrape, 1, None, <<Record(None, IF s = "envelope" THEN "small" ELSE "ltd", 1)>>)
      [] s = "collision" -> Order(Export, 1, None, <<Record(None, "ltd", 1)>>)
      [] s = "new normalizer" -> Order(Export, 2, "m", <<Record(None, "noise", 2)>>)
      [] s = "pages" ->
            Order(Directory, 1, None, <<Record(None, "acme", 1), Record("z", "odd", 1)>>)
      [] s = "partial" ->
            [Order(Scrape, 1, "m", <<>>) EXCEPT !.unreachable = TRUE, !.allow_partial = TRUE]
      [] OTHER -> Order(Scrape, 1, None, <<>>)

MCAsked(s, r) == IF r = r1 THEN First(s) ELSE Second(s)
=============================================================================
