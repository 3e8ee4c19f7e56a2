---------------------------- MODULE FindingRules ----------------------------
(***************************************************************************)
(* The findings an analysis raises about a candidate graph                 *)
(* (findings/rules.py).  A finding is known by its rule, its nodes and its *)
(* links: the code names it by a hash of these, so that a later analysis   *)
(* raising the same finding meets the reviewer's status of the first.      *)
(***************************************************************************)
EXTENDS FiniteSets, Naturals

CONSTANTS
    Nodes,
    Type,       \* the type of a node
    Critical,   \* requirements with a critical priority or label
    Changed,    \* nodes of Confluence pages with a new version number
    Links,
    From, To,   \* the nodes a link joins
    Relation    \* and what it says of them

Types == {"Requirement", "Architecture_Block", "Design_Spec", "Verification", "Issue",
          "Decision", "Component", "Risk"}
Relations == {"satisfies", "verifies", "derives", "implements", "affects", "blocks",
              "conflicts_with", "supersedes", "decides"}

ASSUME RulesAssumption ==
    /\ Type \in [Nodes -> Types]
    /\ Critical \subseteq {n \in Nodes : Type[n] = "Requirement"}
    /\ Changed \subseteq Nodes
    /\ From \in [Links -> Nodes] /\ To \in [Links -> Nodes]
    /\ Relation \in [Links -> Relations]

Into(n, links, relations) == {l \in links : To[l] = n /\ Relation[l] \in relations}
OutOf(n, links, relations) == {l \in links : From[l] = n /\ Relation[l] \in relations}

Finding(rule, nodes, links) == [rule |-> rule, nodes |-> nodes, links |-> links]

OfType(type) == {n \in Nodes : Type[n] = type}

\* A requirement nobody implements, or verifies.
Unimplemented(links) ==
    {Finding("REQ_WITHOUT_IMPLEMENTATION", {n}, {}) :
        n \in {r \in OfType("Requirement") : Into(r, links, {"satisfies", "implements"}) = {}}}

Unverified(links) ==
    {Finding("REQ_WITHOUT_VERIFICATION", {n}, {}) :
        n \in {r \in OfType("Requirement") : Into(r, links, {"verifies"}) = {}}}

\* A design that leads to nothing.
Orphans(links) ==
    {Finding("DESIGN_WITHOUT_PARENT", {n}, {}) :
        n \in {d \in OfType("Design_Spec") :
                  OutOf(d, links, {"implements", "satisfies", "derives"}) = {}}}

\* Mutant: links of any relation count as alternatives.
Conflicts_AnyRelation(links) ==
    {LET rivals == Into(n, links, Relations)
     IN  Finding("CONFLICTING_ALTERNATIVES", {n} \cup {From[l] : l \in rivals}, rivals) :
        n \in {m \in Nodes : Cardinality(Into(m, links, Relations)) > 1}}

\* Several implementations of one node.
Conflicts(links) ==
    {LET rivals == Into(n, links, {"implements"})
     IN  Finding("CONFLICTING_ALTERNATIVES", {n} \cup {From[l] : l \in rivals}, rivals) :
        n \in {m \in Nodes : Cardinality(Into(m, links, {"implements"})) > 1}}

StaleTraces ==
    {Finding("CONFLUENCE_PAGE_VERSION_CHANGED", {n}, {}) : n \in Changed}

\* An issue or risk on a critical requirement, one finding for each link.
Hidden(links) ==
    {Finding("ISSUE_AFFECTS_CRITICAL_REQUIREMENT", {From[l], To[l]}, {l}) :
        l \in {k \in links : /\ Relation[k] = "affects"
                             /\ Type[From[k]] \in {"Issue", "Risk"} /\ To[k] \in Critical}}

Traces(n, links) == OutOf(n, links, {"satisfies", "implements", "derives"})

\* A block verified neither itself nor through what it satisfies, implements or derives.
Uncovered(links) ==
    {LET traces == Traces(n, links)
     IN  Finding("ARCHITECTURE_WITHOUT_VERIFICATION_PATH",
                 {n} \cup {To[l] : l \in traces}, traces) :
        n \in {b \in OfType("Architecture_Block") :
                  /\ Into(b, links, {"verifies"}) = {}
                  /\ \A l \in Traces(b, links) : Into(To[l], links, {"verifies"}) = {}}}

\* What an analysis finds when the sources hold these links.
Findings(links) ==
    Unimplemented(links) \cup Unverified(links) \cup Orphans(links) \cup Conflicts(links)
        \cup StaleTraces \cup Hidden(links) \cup Uncovered(links)

Severity(f) ==
    CASE f.rule = "ISSUE_AFFECTS_CRITICAL_REQUIREMENT" -> "critical"
      [] f.rule \in {"REQ_WITHOUT_IMPLEMENTATION", "CONFLICTING_ALTERNATIVES",
                     "ARCHITECTURE_WITHOUT_VERIFICATION_PATH"} -> "high"
      [] OTHER -> "medium"
=============================================================================
