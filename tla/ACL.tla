-------------------------------- MODULE ACL --------------------------------
(***************************************************************************)
(* What ACL policies grant (internal/acl): parsing, the most specific      *)
(* block that decides, the scope a list is filtered by, and binding rules. *)
(* A name or a label is a sequence of characters, a list a set.            *)
(***************************************************************************)
EXTENDS Integers, Sequences, FiniteSets

namespaceCapabilities == {"read", "approve", "promote", "retry", "deploy-now", "pause"}
globalCapabilities == {"fetch", "pause", "backup", "metrics"}

\* ------------------------------------------------------------- policies

Block(label, policy, caps) == [label |-> label, policy |-> policy, capabilities |-> caps]

\* What a block must be: something, known words only, and nothing under a deny.
BlockOK(b) ==
    /\ b.policy # "" \/ b.capabilities # {}
    /\ b.policy \in {"", "read", "write", "deny"}
    /\ b.policy = "deny" => b.capabilities = {}
    /\ b.capabilities \subseteq namespaceCapabilities

rule(b) ==
    [label |-> b.label,
     deny |-> b.policy = "deny",
     caps |-> b.capabilities \cup CASE b.policy = "read"  -> {"read"}
                                    [] b.policy = "write" -> namespaceCapabilities
                                    [] OTHER              -> {}]

\* A file is a sequence of blocks and the capabilities outside them.
Parses(file) ==
    /\ \A i \in DOMAIN file.blocks : BlockOK(file.blocks[i])
    /\ \A i, j \in DOMAIN file.blocks : i # j => file.blocks[i].label # file.blocks[j].label
    /\ file.capabilities \subseteq globalCapabilities

Parse(file) ==
    [rules |-> {rule(file.blocks[i]) : i \in DOMAIN file.blocks}, global |-> file.capabilities]

\* ---------------------------------------------------------------- an ACL

Management == [management |-> TRUE, policies |-> {}]
New(policies) == [management |-> FALSE, policies |-> policies]

\* path.Match, with no wildcard but the one a label may hold: each character of the name
\* goes to a place of the label, in order, and a literal one takes exactly its like.
Match(label, name) ==
    \E f \in [DOMAIN name -> DOMAIN label] :
        /\ \A j, k \in DOMAIN name : j < k => f[j] <= f[k]
        /\ \A i \in DOMAIN label : label[i] # "*" =>
              \E j \in DOMAIN name : name[j] = label[i] /\ \A k \in DOMAIN name : f[k] = i <=> k = j

specificity(label) ==
    LET wild == {i \in DOMAIN label : label[i] = "*"}
        literal == Len(label) - Cardinality(wild)
    IN  IF wild = {} THEN 2^20 + literal ELSE literal

Rules(a) == UNION {p.rules : p \in a.policies}

\* The blocks that decide for a namespace: the most specific ones that match it.
Deciding(a, ns) ==
    LET matching == {r \in Rules(a) : Match(r.label, ns)}
    IN  {r \in matching : \A o \in matching : specificity(o.label) <= specificity(r.label)}

\* mutant: a grant outweighs a deny beside it.
Allow_grantWins(a, ns, c) == a.management \/ \E r \in Deciding(a, ns) : c \in r.caps

Allow(a, ns, c) ==
    \/ a.management
    \/ /\ \A r \in Deciding(a, ns) : ~r.deny
       /\ \E r \in Deciding(a, ns) : c \in r.caps

Global(a, c) == a.management \/ \E p \in a.policies : c \in p.global

\* ----------------------------------------------------------------- scope

\* Where an ACL grants c, for a query: the labels of each specificity.
Level(a, c, s) ==
    LET rules == {r \in Rules(a) : specificity(r.label) = s}
    IN  [specificity |-> s,
         labels |-> {r.label : r \in rules},
         deny |-> {r.label : r \in {q \in rules : q.deny}},
         grant |-> {r.label : r \in {q \in rules : ~q.deny /\ c \in q.caps}}]

\* mutant: a level is made of the blocks that say something of c only.
Scope_speaking(a, c) ==
    LET speaking == {r \in Rules(a) : r.deny \/ c \in r.caps}
    IN  [all |-> a.management, levels |-> {Level(a, c, specificity(r.label)) : r \in speaking}]

Scope(a, c) ==
    [all |-> a.management, levels |-> {Level(a, c, specificity(r.label)) : r \in Rules(a)}]

\* The first level with a label that matches decides.
ScopeMatch(scope, ns) ==
    LET hit(labels) == \E l \in labels : Match(l, ns)
        levels == {l \in scope.levels : hit(l.labels)}
        first == CHOOSE l \in levels : \A o \in levels : o.specificity <= l.specificity
    IN  scope.all \/ (levels # {} /\ ~hit(first.deny) /\ hit(first.grant))

\* --------------------------------------------------------- binding rules

\* A selector is what it reads and who it matches: it is valid if it reads claims
\* only, and then matches some logins; "empty" matches every one.
Selector(kind, of) == [kind |-> kind, of |-> of]

ValidSelector(selector) == selector.kind \in {"empty", "claims"}

selects(selector, who) ==
    selector.kind = "empty" \/ (selector.kind = "claims" /\ who \in selector.of)

\* What the rules that match a login add up to; one that cannot be evaluated binds nothing.
Bind(method, who, rules) ==
    LET bound == {r \in rules : r.method = method /\ selects(r.selector, who)}
    IN  [management |-> \E r \in bound : r.type = "management",
         policies |-> {r.name : r \in {q \in bound : q.type = "policy"}}]

Granted(granted) == granted.management \/ granted.policies # {}

=============================================================================
