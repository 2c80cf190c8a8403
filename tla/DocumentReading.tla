------------------------- MODULE DocumentReading --------------------------
(* What an extractor reads in a document.  A document is the set of phrases  *)
(* it contains, a media type and, for JSON, the schema its keys follow; a    *)
(* rule turns a phrase into an observation at the place of the phrase.       *)
EXTENDS Naturals, FiniteSets, Sequences

CONSTANT Nothing    \* no unit, no evidence class, no schema

-----------------------------------------------------------------------------
(* The registry: what an attribute may be asserted as.                       *)

FactOrder == [HYPOTHESIS |-> 1, INFERENCE |-> 2, PROXY |-> 3, ESTIMATE |-> 4, FACT |-> 5]
AnyFact == DOMAIN FactOrder

Plain(facts) == [facts |-> facts, units |-> {}, capped |-> FALSE]
Counted(facts, unit) == [Plain(facts) EXCEPT !.units = {unit}]
Technology == [Plain(AnyFact) EXCEPT !.capped = TRUE]
Process == [Plain(AnyFact \ {"ESTIMATE"}) EXCEPT !.capped = TRUE]

\* The attributes that some rule writes.
Registry == [
    technician_count |-> Counted({"ESTIMATE", "PROXY", "FACT"}, "PEOPLE"),
    field_workforce_present |-> Plain({"FACT", "PROXY", "INFERENCE"}),
    field_roles |-> Plain({"FACT", "PROXY"}), hiring_field_roles |-> Plain({"FACT", "PROXY"}),
    branch_count |-> Counted({"FACT", "ESTIMATE", "PROXY"}, "LOCATIONS"),
    service_area |-> Plain({"FACT", "PROXY", "INFERENCE"}),
    fleet_presence |-> Plain({"FACT", "PROXY", "INFERENCE"}),
    fleet_size |-> Counted({"ESTIMATE", "PROXY"}, "VEHICLES"),
    installation |-> Plain({"FACT", "PROXY"}), preventive_maintenance |-> Plain({"FACT", "PROXY"}),
    corrective_maintenance |-> Plain({"FACT", "PROXY"}), emergency_service |-> Plain({"FACT", "PROXY"}),
    recurring_service_contracts |-> Plain({"FACT", "PROXY", "INFERENCE"}),
    service_categories |-> Plain({"FACT", "PROXY"}),
    erp |-> Technology, field_service_management |-> Technology, customer_portal |-> Technology,
    dispatch_centralization |-> Plain({"PROXY", "INFERENCE", "HYPOTHESIS"}),
    hiring_signal |-> Plain({"FACT", "PROXY"}), branch_expansion |-> Plain({"FACT", "PROXY", "INFERENCE"}),
    system_migration |-> Plain(AnyFact),
    actor_responsibilities |-> Process, handoff_observation |-> Process, approval_step |-> Process,
    system_touchpoint |-> Process, data_reentry_observation |-> Process,
    field_finding_handoff |-> Process, estimate_handoff |-> Process,
    completion_to_billing_handoff |-> Process, source_of_truth_observation |-> Process,
    additional_work_process |-> Process, fabrication_operation_present |-> Process]

\* The classes of evidence that the extractors declare.
Ceiling == [EXPLICIT_COMPANY_STATEMENT |-> "FACT", JOB_DESCRIPTION_MENTION |-> "PROXY"]

Validates(o) ==
    /\ o.key \in DOMAIN Registry
    /\ o.fact \in Registry[o.key].facts
    /\ o.unit # Nothing => o.unit \in Registry[o.key].units
    /\ Registry[o.key].capped =>
        /\ o.class \in DOMAIN Ceiling
        /\ FactOrder[o.fact] <= FactOrder[Ceiling[o.class]]

-----------------------------------------------------------------------------
(* The rules.  Two rules on one phrase read the same place.                  *)

Rule(phrase, key, fact) ==
    [phrase |-> phrase, key |-> key, fact |-> fact, said |-> phrase, unit |-> Nothing,
     class |-> Nothing, support |-> "DIRECT_STATEMENT"]

Measured(phrase, key, fact, unit) == [Rule(phrase, key, fact) EXCEPT !.unit = unit]
Is(phrase, key, fact, said) == [Rule(phrase, key, fact) EXCEPT !.said = said]
Stated(phrase, key) == [Rule(phrase, key, "FACT") EXCEPT !.class = "EXPLICIT_COMPANY_STATEMENT"]
Mentioned(phrase, key, fact) ==
    [Rule(phrase, key, fact) EXCEPT !.class = "JOB_DESCRIPTION_MENTION", !.support = "DERIVED"]
Sampled(phrase, key) ==
    [Rule(phrase, key, "PROXY") EXCEPT !.class = "EXPLICIT_COMPANY_STATEMENT", !.support = "DERIVED"]

WorkforceRules == {
    Measured("N field technicians", "technician_count", "FACT", "PEOPLE"),
    Measured("about N technicians", "technician_count", "ESTIMATE", "PEOPLE"),
    Is("N field technicians", "field_workforce_present", "FACT", "true"),
    Measured("fleet of N vehicles", "fleet_size", "ESTIMATE", "VEHICLES"),
    Is("fleet of N vehicles", "fleet_presence", "FACT", "true"),
    Measured("several locations", "branch_count", "FACT", "LOCATIONS"),
    Measured("locations: one", "branch_count", "PROXY", "LOCATIONS"),
    Rule("we serve", "service_area", "FACT"),
    Rule("service coordinators", "field_roles", "FACT"),
    Rule("project estimators", "field_roles", "FACT")}

ServiceRules == {
    Is("installation", "installation", "FACT", "true"),
    Is("preventive", "preventive_maintenance", "FACT", "true"),
    Is("corrective", "corrective_maintenance", "FACT", "true"),
    Is("24/7", "emergency_service", "FACT", "true"),
    Is("no emergency service", "emergency_service", "PROXY", "false"),
    Is("agreements", "recurring_service_contracts", "FACT", "true"),
    Rule("categories", "service_categories", "FACT")}

ProcessRules == {
    Stated("coordinators assign", "actor_responsibilities"),
    Stated("work order submitted", "handoff_observation"),
    Stated("finding passed on", "field_finding_handoff"),
    Stated("quote prepared", "estimate_handoff"),
    Stated("beyond the order", "additional_work_process"),
    Stated("quote approved", "approval_step"),
    Stated("entered for invoicing", "completion_to_billing_handoff"),
    Stated("equipment history", "source_of_truth_observation"),
    Stated("results re-entered", "data_reentry_observation"),
    Stated("view visits", "system_touchpoint"),
    Stated("fabrication shop", "fabrication_operation_present"),
    Stated("customers view visits", "customer_portal")}

ChangeRules == {
    Rule("opened a location", "branch_expansion", "FACT"),
    Rule("migrating", "system_migration", "FACT")}

\* Every posting has a title.  The rest are lines of its two lists.
PostingRules == {
    Mentioned("title", "hiring_signal", "FACT"),
    Mentioned("title", "hiring_field_roles", "FACT"),
    Mentioned("dispatch", "actor_responsibilities", "PROXY"),
    Mentioned("re-key", "data_reentry_observation", "PROXY"),
    Mentioned("chase paperwork", "completion_to_billing_handoff", "PROXY"),
    Mentioned("approval", "approval_step", "PROXY"),
    Mentioned("ServiceTitan", "field_service_management", "PROXY"),
    Mentioned("ServiceTitan", "system_touchpoint", "PROXY"),
    Mentioned("QuickBooks", "erp", "PROXY"),
    Mentioned("QuickBooks", "system_touchpoint", "PROXY")}

FilingRules == {[Rule("city", "service_area", "PROXY") EXCEPT !.support = "DERIVED"]}

ContractRules == {
    Sampled("ticket returned", "handoff_observation"),
    Sampled("ticket entered", "completion_to_billing_handoff"),
    Sampled("estimate approved", "approval_step"),
    Sampled("equipment list", "source_of_truth_observation")}

-----------------------------------------------------------------------------
(* The extractors.                                                           *)

Extractor(id, media, confidence) ==
    [id |-> id, media |-> media, confidence |-> confidence, sampled |-> FALSE, schema |-> Nothing]

WorkforceExtractor == Extractor("workforce_and_footprint", "html", 90)
ServiceExtractor == Extractor("service_model", "html", 90)
ProcessExtractor == Extractor("process_observations", "html", 90)
ChangeExtractor == Extractor("change_signals", "html", 90)
JobExtractor == [Extractor("job_posting_json", "json", 95) EXCEPT !.schema = "posting"]
RegistryExtractor == [Extractor("registry_json", "json", 98) EXCEPT !.schema = "filing"]
PdfExtractor == [Extractor("contract_narrative", "pdf", 55) EXCEPT !.sampled = TRUE]

DefaultExtractors ==
    <<WorkforceExtractor, ServiceExtractor, ProcessExtractor, ChangeExtractor, JobExtractor,
      RegistryExtractor, PdfExtractor>>

RulesOf(x) ==
    CASE x.id = "workforce_and_footprint" -> WorkforceRules
      [] x.id = "service_model" -> ServiceRules
      [] x.id = "process_observations" -> ProcessRules
      [] x.id = "change_signals" -> ChangeRules
      [] x.id = "job_posting_json" -> PostingRules
      [] x.id = "registry_json" -> FilingRules
      [] x.id = "contract_narrative" -> ContractRules

\* The longer sentence contains the shorter one.
Contained(phrases) ==
    phrases \cup {"view visits" : p \in phrases \cap {"customers view visits"}}

\* The evidence class is part of the value.
Observe(rule) ==
    [key |-> rule.key, value |-> <<rule.said, rule.class>>, fact |-> rule.fact, unit |-> rule.unit,
     class |-> rule.class, support |-> rule.support, span |-> rule.phrase]

\* JSON that follows another schema says nothing to a parser.
Reading(x, document) ==
    IF x.schema # Nothing /\ x.schema # document.schema THEN {}
    ELSE {Observe(rule) : rule \in {r \in RulesOf(x) : r.phrase \in Contained(document.phrases)}}

\* A parser reads no JSON in an empty text: it raises, as does a rule whose
\* observation the registry refuses.
Raises(x, document) ==
    \/ document.media = "json" /\ document.phrases = {}
    \/ \E o \in Reading(x, document) : ~Validates(o)

Blank(document) == [document EXCEPT !.phrases = {}]

Dispatches(observation) ==
    \/ observation.key = "emergency_service" /\ observation.value[1] = "true"
    \/ observation.key = "branch_count" /\ observation.value[1] # "locations: one"
=============================================================================
