------------------------- MODULE CompanyProjection -------------------------
(***************************************************************************)
(* What the discovery subsystem claims about a company and what it derives *)
(* from the claims: the claims a normalized record makes, their precedence *)
(* and the rows of the projection tables.  Pure operators over sets.       *)
(*                                                                         *)
(* A record's candidate has a name, a domain and a range of staff, each of *)
(* which may be None; the other scalars a profile shows are treated as the *)
(* name is.  A claim is                                                    *)
(*   [id, key, value, fact, human, tier, company]                          *)
(* where company is the one its entity is resolved to when it is read, and *)
(* id is shared by the claims written together, one of a key.              *)
(***************************************************************************)
EXTENDS Naturals, FiniteSets

CONSTANTS
    None,       \* an absent value
    Blocked     \* domains that carry no identity

LOCAL INSTANCE FiniteSetsExt

Empty == [name |-> None, domain |-> None, staff |-> None]

FactRank == [FACT |-> 5, PROXY |-> 4, ESTIMATE |-> 3, INFERENCE |-> 2, HYPOTHESIS |-> 1]

IsIdentityDomain(domain) == domain # None /\ domain \notin Blocked

\* The registry refuses a range that ends before it begins.
Validates(staff) ==
    staff = None \/ staff.min = None \/ staff.max = None \/ staff.min <= staff.max

-----------------------------------------------------------------------------
(* The claims one record makes.                                             *)

Said(key, value, fact) == [key |-> key, value |-> value, fact |-> fact]

Role(domain) == IF IsIdentityDomain(domain) THEN "IDENTITY" ELSE "GROUP"

\* A market of the run is a presence of the company, without an end.
Statements(candidate, market) ==
    {Said("legal_name", [name |-> n], "FACT") : n \in {candidate.name} \ {None}}
    \cup {Said("domain", [domain |-> d, role |-> Role(d)], "FACT") :
             d \in {candidate.domain} \ {None}}
    \cup {Said("employee_count", s, "ESTIMATE") : s \in {candidate.staff} \ {None}}
    \cup {Said("market_presence", [market |-> m], "INFERENCE") : m \in {market} \ {None}}

-----------------------------------------------------------------------------
(* Precedence.                                                              *)

\* A person's word, then the kind of fact, then the trust in the provider.
PrecedenceKey(c) == <<IF c.human THEN 1 ELSE 0, FactRank[c.fact], c.tier>>

Outranks(c, d) ==
    \E i \in 1..3 : /\ PrecedenceKey(c)[i] > PrecedenceKey(d)[i]
                    /\ \A j \in 1..(i - 1) : PrecedenceKey(c)[j] = PrecedenceKey(d)[j]

Winner(group) ==
    CHOOSE c \in group : \A d \in group \ {c} :
        Outranks(c, d) \/ (PrecedenceKey(c) = PrecedenceKey(d) /\ c.id < d.id)

Ids(group) == {c.id : c \in group}

About(claims, key) == {c \in claims : c.key = key}

\* Claims as strong as the winner that say something else.
IsContested(group) ==
    group # {} /\ \E c \in group : /\ PrecedenceKey(c) = PrecedenceKey(Winner(group))
                                   /\ c.value # Winner(group).value

-----------------------------------------------------------------------------
(* Rows.  The key of a row is its company and a name, a domain, a market.   *)

Row(table, company, key, from, says) ==
    [table |-> table, company |-> company, key |-> key, from |-> from, says |-> says]

\* An envelope, not a winner: from the least bound to the greatest.
Bounds(group, end) ==
    {IF end = "min" THEN c.value.min ELSE c.value.max : c \in group} \ {None}
EnvelopeMin(group) == IF Bounds(group, "min") = {} THEN None ELSE Min(Bounds(group, "min"))
EnvelopeMax(group) == IF Bounds(group, "max") = {} THEN None ELSE Max(Bounds(group, "max"))

ProfileRow(company, claims) ==
    LET names == About(claims, "legal_name")
        staff == About(claims, "employee_count")
        homes == {c \in About(claims, "domain") : c.value.role = "IDENTITY"}
    IN  Row("profile", company, "",
            (IF names = {} THEN {} ELSE {Winner(names).id})
               \cup (IF homes = {} THEN {} ELSE {Winner(homes).id}) \cup Ids(staff),
            [name |-> IF names = {} THEN None ELSE Winner(names).value.name,
             domain |-> IF homes = {} THEN None ELSE Winner(homes).value.domain,
             min |-> EnvelopeMin(staff), max |-> EnvelopeMax(staff),
             conflict |-> IsContested(names)])

NameRows(company, claims) ==
    LET names == {c.value.name : c \in About(claims, "legal_name")}
    IN  {Row("name", company, n,
             Ids({c \in About(claims, "legal_name") : c.value.name = n}), [type |-> "LEGAL"])
         : n \in names}

ClaimsIdentity(claims, company, domain) ==
    \E c \in About(claims, "domain") :
        c.company = company /\ c.value = [domain |-> domain, role |-> "IDENTITY"]

\* Of several companies that claim a domain as their identity the first one
\* in the order of ids keeps it; the others have it as a group's.
MutNobodyYields(claims, company, domain) ==
    IF ClaimsIdentity(claims, company, domain) THEN "IDENTITY" ELSE "GROUP"
DomainRole(claims, company, domain) ==
    IF /\ ClaimsIdentity(claims, company, domain)
       /\ \A c \in claims : c.company < company => ~ClaimsIdentity(claims, c.company, domain)
      THEN "IDENTITY" ELSE "GROUP"

DomainRows(claims, company) ==
    LET own == {c \in About(claims, "domain") : c.company = company}
    IN  {Row("domain", company, d, Ids({c \in own : c.value.domain = d}),
             [role |-> DomainRole(claims, company, d)])
         : d \in {c.value.domain : c \in own}}

PresenceRows(company, claims) ==
    {Row("presence", company, m,
         Ids({c \in About(claims, "market_presence") : c.value.market = m}),
         [type |-> "OPERATES"])
     : m \in {c.value.market : c \in About(claims, "market_presence")}}

\* In the order in which a rebuild empties them.
Tables == <<{"profile"}, {"name", "domain", "presence"}>>

Projection(claims) ==
    UNION {LET own == {c \in claims : c.company = company}
           IN  {ProfileRow(company, own)} \cup NameRows(company, own)
                   \cup DomainRows(claims, company) \cup PresenceRows(company, own)
           : company \in {c.company : c \in claims}}

PrimaryKey(row) == <<row.table, row.company, row.key>>

-----------------------------------------------------------------------------
(* Constraints of the tables.                                               *)

\* employee_envelope_order of company_profiles.
IsEnvelope(row) ==
    row.table = "profile" =>
        row.says.min = None \/ row.says.max = None \/ row.says.min <= row.says.max

\* A primary key, or the domain as an identity, is taken: uq_identity_domain.
Collide(row, other) ==
    \/ PrimaryKey(row) = PrimaryKey(other)
    \/ /\ row.table = "domain" /\ other.table = "domain" /\ row.key = other.key
       /\ row.says.role = "IDENTITY" /\ other.says.role = "IDENTITY"
=============================================================================
