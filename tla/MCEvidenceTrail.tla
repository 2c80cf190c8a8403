------------------------- MODULE MCEvidenceTrail --------------------------
(* A company's pages, a directory that copies one of them, and a contract.   *)
EXTENDS EvidenceTrail

Page(artifact, phrases) ==
    [media |-> "html", schema |-> Nothing, artifact |-> artifact, phrases |-> phrases,
     declares |-> <<>>]

\* The second is a cosmetic variant of the first and names its canonical
\* address; the fourth is a contract, the fifth plain text.
Documents == <<
    Page(1, {"24/7", "several locations"}),
    [Page(1, {"24/7", "several locations"}) EXCEPT
        !.declares = <<[kind |-> "DECLARES_CANONICAL", source |-> 1]>>],
    Page(2, {"24/7", "no emergency service", "fleet of N vehicles"}),
    [Page(3, {"ticket returned"}) EXCEPT !.media = "pdf"],
    [Page(4, {}) EXCEPT !.media = "text"]>>

\* Sources 1, 2 and 5 are the company's, 3 the directory's; 4 redirects to 2.
Sites == <<
    <<<<"body", 1>>, <<"body", 5>>>>,
    <<<<"body", 3>>>>,
    <<<<"body", 1>>, <<"body", 2>>, <<"fails", "NOT_FOUND">>>>,
    <<<<"redirects", 2>>>>,
    <<<<"body", 4>>>>>>

Readers == <<WorkforceExtractor, ServiceExtractor, PdfExtractor>>

PublisherOf == <<1, 1, 2, 1, 1>>
TierOf == <<90, 90, 55, 90, 90>>
Domains == <<"own", "own", "directory", "own", "own">>
Types == <<"text/html", "text/html", "text/html", "text/html", "application/pdf">>
Horizons == [type \in {"text/html", "application/pdf"} |-> IF type = "text/html" THEN 1 ELSE 0]

\* One company researched twice while another one reads the directory.
Run == {"a1", "a2", "a3"}
CompanyOf == [a1 |-> "c", a2 |-> "c", a3 |-> "d"]
WholeSite == [a1 |-> <<4, 1, 3>>, a2 |-> <<5, 3, 1>>, a3 |-> <<3>>]
SecondAsks == [a1 |-> FALSE, a2 |-> TRUE, a3 |-> FALSE]
Requests == [a1 |-> 4, a2 |-> 2, a3 |-> 2]

\* Two companies that meet on two sources, in opposite orders.
Both == {"a1", "a2"}
TwoCompanies == [a1 |-> "c", a2 |-> "d"]
Opposite == [a1 |-> <<1, 3>>, a2 |-> <<3, 1>>]

\* Pages that say nothing: what waits for what does not depend on it.
Silent == [b \in DOMAIN Documents |-> [Documents[b] EXCEPT !.phrases = {}]]
=============================================================================
