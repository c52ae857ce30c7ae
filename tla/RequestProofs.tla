--------------------------- MODULE RequestProofs ---------------------------
(***************************************************************************)
(* Proofs about what requests may do: what a policy denies, what a list is *)
(* filtered by, what a revocation takes, for every set of tokens, policies *)
(* and namespaces.                                                         *)
(***************************************************************************)
EXTENDS LoginProofs, NumberProofs

-----------------------------------------------------------------------------
(***************************************************************************)
(* What decides for a namespace.                                           *)
(***************************************************************************)
Wild(label) == {i \in DOMAIN label : label[i] = "*"}
Literal(label) == {i \in DOMAIN label : label[i] # "*"}

LEMMA LiteralCount ==
    ASSUME NEW label \in Labels
    PROVE  /\ IsFiniteSet(Literal(label)) /\ Cardinality(Literal(label)) \in Nat
           /\ Len(label) - Cardinality(Wild(label)) = Cardinality(Literal(label))
<1>1. DOMAIN label = 1..Len(label) /\ Len(label) \in Nat
  BY DEF Labels
<1>2. IsFiniteSet(DOMAIN label) /\ Cardinality(DOMAIN label) = Len(label)
  BY <1>1, FirstNumbers
<1>3. Wild(label) \subseteq DOMAIN label /\ Literal(label) = DOMAIN label \ Wild(label)
  BY DEF Wild, Literal
<1>4. IsFiniteSet(Wild(label)) /\ IsFiniteSet(Literal(label))
  BY <1>2, <1>3, FS_Subset
<1>5. Cardinality(Literal(label)) = Cardinality(DOMAIN label) - Cardinality(DOMAIN label \cap Wild(label))
  BY <1>2, <1>3, <1>4, FS_Difference
<1>6. DOMAIN label \cap Wild(label) = Wild(label)
  BY <1>3
<1>7. Cardinality(Wild(label)) \in Nat /\ Cardinality(Literal(label)) \in Nat
  BY <1>4, FS_CardinalityType
<1> QED BY <1>1, <1>2, <1>4, <1>5, <1>6, <1>7

LEMMA SpecificityIs ==
    ASSUME NEW label \in Labels
    PROVE  /\ specificity(label) = IF Wild(label) = {} THEN 2^20 + Cardinality(Literal(label))
                                                      ELSE Cardinality(Literal(label))
           /\ specificity(label) \in Nat
<1> DEFINE n == Cardinality(Literal(label))
<1>1. Len(label) - Cardinality(Wild(label)) = n /\ n \in Nat
  BY LiteralCount
<1>2. specificity(label) = IF Wild(label) = {} THEN 2^20 + n ELSE n
  BY <1>1 DEF specificity, Wild
<1>3. 2^20 \in Nat
  OBVIOUS
<1> QED
  <2> HIDE DEF n
  <2>1. 2^20 + n \in Nat
    BY <1>1, <1>3
  <2> QED BY <1>1, <1>2, <2>1 DEF n

LEMMA NamesAreLabels == Namespaces \subseteq Labels /\ \A ns \in Namespaces : Wild(ns) = {}
<1>1. ASSUME NEW ns \in Namespaces
      PROVE  ns \in Labels /\ Wild(ns) = {}
  <2>1. ns \in Seq(Letters) /\ "*" \notin Letters
    BY PolicyAssumption
  <2>2. \A i \in DOMAIN ns : ns[i] \in Letters
    BY <2>1
  <2> QED BY <2>1, <2>2 DEF Labels, Wild
<1> QED BY <1>1

LEMMA MatchesItself ==
    ASSUME NEW ns \in Namespaces
    PROVE  Match(ns, ns)
<1> DEFINE f == [j \in DOMAIN ns |-> j]
<1>1. f \in [DOMAIN ns -> DOMAIN ns]
  OBVIOUS
<1>2. \A j, k \in DOMAIN ns : j < k => f[j] <= f[k]
  <2>1. DOMAIN ns = 1..Len(ns) /\ Len(ns) \in Nat
    BY NamesAreLabels DEF Labels
  <2> QED BY <2>1
<1>3. \A i \in DOMAIN ns : ns[i] # "*" => \E j \in DOMAIN ns : ns[j] = ns[i] /\ \A k \in DOMAIN ns : f[k] = i <=> k = j
  OBVIOUS
<1> HIDE DEF f
<1> QED BY <1>1, <1>2, <1>3 DEF Match

\* No label that matches a namespace is more specific than its name: it spells out
\* at most the characters there are.
LEMMA NameFirst ==
    ASSUME NEW ns \in Namespaces, NEW label \in Labels, Match(label, ns)
    PROVE  specificity(label) <= specificity(ns)
<1>1. PICK f \in [DOMAIN ns -> DOMAIN label] :
              \A i \in DOMAIN label : label[i] # "*" =>
                 \E j \in DOMAIN ns : ns[j] = label[i] /\ \A k \in DOMAIN ns : f[k] = i <=> k = j
  BY DEF Match
<1> DEFINE lit == Literal(label)
           J == {j \in DOMAIN ns : f[j] \in lit}
           g == [j \in J |-> f[j]]
<1>2. ns \in Labels /\ Wild(ns) = {}
  BY NamesAreLabels
<1>3. IsFiniteSet(DOMAIN ns) /\ Cardinality(DOMAIN ns) = Len(ns) /\ Len(ns) \in Nat
  <2>1. DOMAIN ns = 1..Len(ns) /\ Len(ns) \in Nat
    BY <1>2 DEF Labels
  <2> QED BY <2>1, FirstNumbers
<1>4. Cardinality(Literal(ns)) = Len(ns)
  <2>1. Literal(ns) = DOMAIN ns
    BY <1>2 DEF Literal, Wild
  <2> QED BY <1>3, <2>1
<1>5. g \in Surjection(J, lit)
  <2>1. g \in [J -> lit]
    OBVIOUS
  <2>2. ASSUME NEW i \in lit
        PROVE  \E j \in J : g[j] = i
    <3>1. i \in DOMAIN label /\ label[i] # "*"
      BY DEF Literal
    <3>2. PICK j \in DOMAIN ns : \A k \in DOMAIN ns : f[k] = i <=> k = j
      BY <1>1, <3>1
    <3>3. f[j] = i
      BY <3>2
    <3> QED BY <3>3
  <2> QED BY <2>1, <2>2 DEF Surjection
<1>6. IsFiniteSet(J) /\ Cardinality(J) <= Len(ns)
  BY <1>3, FS_Subset
<1>7. Cardinality(lit) <= Cardinality(J)
  <2> HIDE DEF g, J, lit
  <2> QED BY <1>5, <1>6, FS_Surjection
<1>8. Cardinality(lit) \in Nat /\ Cardinality(J) \in Nat
  BY <1>6, LiteralCount, FS_CardinalityType
<1>9. Cardinality(lit) <= Len(ns)
  BY <1>3, <1>6, <1>7, <1>8
<1>10. specificity(ns) = 2^20 + Len(ns)
  BY <1>2, <1>4, SpecificityIs
<1>11. specificity(label) = 2^20 + Cardinality(lit) \/ specificity(label) = Cardinality(lit)
  BY SpecificityIs
<1>12. 2^20 \in Nat
  OBVIOUS
<1> QED
  <2> HIDE DEF lit
  <2> QED BY <1>3, <1>8, <1>9, <1>10, <1>11, <1>12

\* A policy that has been read, and what a request has read.
PolicyOK(p) == IsFiniteSet(p.rules) /\ \A r \in p.rules : r.label \in Labels
AclOK(a) == IsFiniteSet(a.policies) /\ \A p \in a.policies : PolicyOK(p)

LEMMA RulesOK ==
    ASSUME NEW a, AclOK(a)
    PROVE  IsFiniteSet(Rules(a)) /\ \A r \in Rules(a) : r.label \in Labels
<1> DEFINE f == [p \in a.policies |-> p.rules]
           U == {f[p] : p \in a.policies}
<1>1. IsFiniteSet(U)
  <2> DEFINE g == [p \in a.policies |-> f[p]]
  <2>1. g \in Surjection(a.policies, U)
    BY DEF Surjection
  <2> HIDE DEF U, g
  <2> QED BY <2>1, FS_Surjection DEF AclOK
<1>2. \A S \in U : IsFiniteSet(S)
  BY DEF AclOK, PolicyOK
<1>3. IsFiniteSet(UNION U)
  <2> HIDE DEF U
  <2> QED BY <1>1, <1>2, FS_UNION
<1>4. Rules(a) = UNION U
  BY DEF Rules
<1>5. \A r \in Rules(a) : r.label \in Labels
  BY DEF Rules, AclOK, PolicyOK
<1> QED BY <1>3, <1>4, <1>5

\* The blocks that match a namespace, and those of them that decide: there is one if any matches.
Matching(a, ns) == {r \in Rules(a) : Match(r.label, ns)}

LEMMA DecidingIs ==
    ASSUME NEW a, AclOK(a), NEW ns, Matching(a, ns) # {}
    PROVE  \E r \in Matching(a, ns) :
             /\ \A o \in Matching(a, ns) : specificity(o.label) <= specificity(r.label)
             /\ Deciding(a, ns) = {o \in Matching(a, ns) : specificity(o.label) = specificity(r.label)}
<1> DEFINE M == Matching(a, ns)
           f == [r \in M |-> specificity(r.label)]
<1>1. IsFiniteSet(M)
  <2>1. M \subseteq Rules(a)
    BY DEF Matching
  <2> QED BY <2>1, RulesOK, FS_Subset
<1>2. \A r \in M : specificity(r.label) \in Nat
  <2>1. \A r \in M : r.label \in Labels
    BY RulesOK DEF Matching
  <2> QED BY <2>1, SpecificityIs
<1>3. \E r \in M : \A o \in M : f[o] <= f[r]
  <2>1. \A r \in M : f[r] \in Int
    BY <1>2
  <2> HIDE DEF M, f
  <2> QED BY <1>1, <2>1, GreatestOf DEF M
<1>4. PICK r \in M : \A o \in M : specificity(o.label) <= specificity(r.label)
  BY <1>3
<1>5. Deciding(a, ns) = {o \in M : \A p \in M : specificity(p.label) <= specificity(o.label)}
  BY DEF Deciding, Matching
<1>6. Deciding(a, ns) = {o \in M : specificity(o.label) = specificity(r.label)}
  <2> HIDE DEF M
  <2>1. ASSUME NEW o \in M
        PROVE  (\A p \in M : specificity(p.label) <= specificity(o.label)) <=> specificity(o.label) = specificity(r.label)
    <3>1. specificity(o.label) \in Nat /\ specificity(r.label) \in Nat
      BY <1>2
    <3>2. specificity(o.label) <= specificity(r.label)
      BY <1>4
    <3> QED BY <1>4, <3>1, <3>2
  <2> QED BY <1>5, <2>1
<1> QED BY <1>4, <1>6

\* What one policy denies by its name no other gives (acl.go Allow).
LEMMA DenyDecides ==
    ASSUME NEW a, AclOK(a), ~a.management, NEW ns \in Namespaces, NEW p \in a.policies, Denies(p, ns), NEW c
    PROVE  ~Allow(a, ns, c)
<1>1. PICK d \in p.rules : d.deny /\ d.label = ns
  BY DEF Denies
<1>2. d \in Matching(a, ns)
  BY <1>1, MatchesItself DEF Matching, Rules
<1>3. PICK r \in Matching(a, ns) :
             /\ \A o \in Matching(a, ns) : specificity(o.label) <= specificity(r.label)
             /\ Deciding(a, ns) = {o \in Matching(a, ns) : specificity(o.label) = specificity(r.label)}
  BY <1>2, DecidingIs
<1>4. r.label \in Labels /\ Match(r.label, ns) /\ ns \in Labels
  BY RulesOK, NamesAreLabels DEF Matching
<1>5. specificity(r.label) <= specificity(d.label) /\ specificity(d.label) <= specificity(r.label)
  BY <1>1, <1>2, <1>3, <1>4, NameFirst
<1>6. specificity(r.label) \in Nat /\ specificity(d.label) \in Nat
  BY <1>1, <1>4, SpecificityIs
<1>7. d \in Deciding(a, ns)
  BY <1>2, <1>3, <1>5, <1>6
<1> QED BY <1>1, <1>7 DEF Allow

\* The query a list is built from and the check of one namespace agree (acl.go Scope,
\* Scope.Match, Allow).
LEMMA ScopeIsAllow ==
    ASSUME NEW a, AclOK(a), NEW c, NEW ns
    PROVE  ScopeMatch(Scope(a, c), ns) <=> Allow(a, ns, c)
<1> DEFINE scope == Scope(a, c)
           hit(labels) == \E l \in labels : Match(l, ns)
           levels == {l \in scope.levels : hit(l.labels)}
           first == CHOOSE l \in levels : \A o \in levels : o.specificity <= l.specificity
           M == Matching(a, ns)
           L(s) == Level(a, c, s)
<1>1. scope.all = a.management /\ scope.levels = {L(specificity(r.label)) : r \in Rules(a)}
  BY DEF Scope
<1>2. ScopeMatch(scope, ns) <=> (a.management \/ (levels # {} /\ ~hit(first.deny) /\ hit(first.grant)))
  BY <1>1 DEF ScopeMatch
<1>3. ASSUME NEW s
      PROVE  /\ L(s).specificity = s
             /\ hit(L(s).labels) <=> \E r \in M : specificity(r.label) = s
             /\ hit(L(s).deny) <=> \E r \in M : specificity(r.label) = s /\ r.deny
             /\ hit(L(s).grant) <=> \E r \in M : specificity(r.label) = s /\ ~r.deny /\ c \in r.caps
  BY DEF Level, Matching
<1>4. levels = {L(specificity(r.label)) : r \in M}
  <2>1. \A r \in Rules(a) : hit(L(specificity(r.label)).labels) <=> \E q \in M : specificity(q.label) = specificity(r.label)
    BY <1>3
  <2>2. M \subseteq Rules(a)
    BY DEF Matching
  <2>3. ASSUME NEW l \in levels PROVE l \in {L(specificity(r.label)) : r \in M}
    <3>1. PICK r \in Rules(a) : l = L(specificity(r.label))
      BY <1>1
    <3>2. hit(L(specificity(r.label)).labels)
      BY <3>1
    <3>3. PICK q \in M : specificity(q.label) = specificity(r.label)
      BY <2>1, <3>2
    <3> HIDE DEF L, M
    <3> QED BY <3>1, <3>3
  <2>4. ASSUME NEW r \in M PROVE L(specificity(r.label)) \in levels
    <3>1. r \in Rules(a)
      BY <2>2
    <3>2. hit(L(specificity(r.label)).labels)
      BY <2>1, <3>1
    <3>3. L(specificity(r.label)) \in scope.levels
      BY <1>1, <3>1
    <3> HIDE DEF L, M, scope, hit
    <3> QED BY <3>2, <3>3
  <2> HIDE DEF levels, L, M
  <2> QED BY <2>3, <2>4
<1>5. CASE M = {}
  <2>1. levels = {}
    BY <1>4, <1>5
  <2>2. Deciding(a, ns) = {}
    BY <1>5 DEF Deciding, Matching
  <2> HIDE DEF levels
  <2> QED BY <1>2, <2>1, <2>2 DEF Allow
<1>6. CASE M # {}
  <2>1. PICK r \in M : /\ \A o \in M : specificity(o.label) <= specificity(r.label)
                       /\ Deciding(a, ns) = {o \in M : specificity(o.label) = specificity(r.label)}
    BY <1>6, DecidingIs
  <2> DEFINE s == specificity(r.label)
  <2>2. \A o \in M : specificity(o.label) \in Nat
    BY RulesOK, SpecificityIs DEF Matching
  <2>3. first = L(s)
    <3> HIDE DEF M, L, levels, hit, scope
    <3>1. L(s) \in levels /\ \A o \in levels : o.specificity <= L(s).specificity
      BY <1>3, <1>4, <2>1
    <3>2. first \in levels /\ \A o \in levels : o.specificity <= first.specificity
      BY <3>1
    <3>3. PICK q \in M : first = L(specificity(q.label))
      BY <1>4, <3>2
    <3>4. first.specificity = specificity(q.label)
      BY <1>3, <3>3
    <3>5. s <= specificity(q.label) /\ specificity(q.label) <= s
      BY <1>3, <2>1, <3>1, <3>2, <3>4
    <3>6. s = specificity(q.label)
      BY <2>2, <3>5
    <3> QED BY <3>3, <3>6
  <2>4. levels # {}
    <3> HIDE DEF M, L, levels
    <3> QED BY <1>4, <1>6
  <2>5. hit(first.deny) <=> \E o \in Deciding(a, ns) : o.deny
    <3>1. hit(L(s).deny) <=> \E o \in M : specificity(o.label) = s /\ o.deny
      BY <1>3
    <3> HIDE DEF M, L, first, hit
    <3> QED BY <2>1, <2>3, <3>1
  <2>6. hit(first.grant) <=> \E o \in Deciding(a, ns) : ~o.deny /\ c \in o.caps
    <3>1. hit(L(s).grant) <=> \E o \in M : specificity(o.label) = s /\ ~o.deny /\ c \in o.caps
      BY <1>3
    <3> HIDE DEF M, L, first, hit
    <3> QED BY <2>1, <2>3, <3>1
  <2> HIDE DEF levels, first, hit, M, scope
  <2>7. ScopeMatch(scope, ns) <=> (a.management \/ (~hit(first.deny) /\ hit(first.grant)))
    BY <1>2, <2>4
  <2>8. ScopeMatch(scope, ns) <=> Allow(a, ns, c)
    BY <2>5, <2>6, <2>7 DEF Allow
  <2> QED BY <2>8 DEF scope
<1> QED BY <1>5, <1>6

-----------------------------------------------------------------------------
(***************************************************************************)
(* The inductive invariant.                                                *)
(***************************************************************************)
PoliciesOK == DOMAIN policies = Names /\ \A n \in Names : policies[n] \notin {None, Garbled} => PolicyOK(policies[n])

\* A token that can do everything carries nothing, a session is a person's and ends.
BornOK ==
    \A a \in issued :
        /\ born[a].type = "management" => born[a].policies = {}
        /\ born[a].origin = "login" => born[a].mortal /\ born[a].identity \in People

PeopleOK ==
    \A l \in Logins :
        /\ logins[l].pc # "idle" => logins[l].who \in People
        /\ logins[l].pc = "made" => logins[l].token \in issued

SweptOK == swept \subseteq issued /\ swept \cap live = {}

\* What has denied a request all along denies it where the policy still is to be read,
\* and has been read where it is not.
Unread(r, b) == r.pc = "policies" /\ b[1] \in r.todo

Barred(r) ==
    \A b \in r.barred :
        /\ b[1] \in Names /\ b[2] \in Namespaces /\ ~r.sub.acl.management
        /\ Unread(r, b) => Denies(policies[b[1]], b[2])
        /\ Unread(r, b) \/ \E p \in r.sub.acl.policies : Denies(p, b[2])
        /\ r.pc = "acted" => b[2] # r.arg.ns

\* What a request has read gives no more than it has been given, nor will what is still
\* to be read.
GivenOK(r) ==
    ~r.sub.acl.management =>
        /\ \A p \in r.sub.acl.policies : p \notin {None, Garbled} /\ Gives(p) \subseteq r.given
        /\ r.pc = "policies" => /\ r.todo \subseteq r.sub.carried
                               /\ \A n \in r.todo : Gives(policies[n]) \subseteq r.given

RequestOK(r) ==
    /\ AclOK(r.sub.acl)
    /\ r.pc = "idle" => r.sub.by = None
    /\ r.sub.acl.management => r.todo = {} \/ (r.pc = "sweep" /\ r.todo \subseteq Accessors)
    /\ r.pc = "sweep" => r.named \subseteq r.todo
    /\ Barred(r)
    /\ GivenOK(r)

Requested == \A q \in Requests : RequestOK(requests[q])

RequestInv == PoliciesOK /\ BornOK /\ PeopleOK /\ SweptOK /\ Requested

-----------------------------------------------------------------------------
(***************************************************************************)
(* What a recursive revocation reaches.                                    *)
(***************************************************************************)
\* The tokens that some of these created, and one step of the query.
CreatedBy(S) == {a \in live : born[a].creator \in S}
Grow(S) == S \cup CreatedBy(S)

\* n steps of the query, one after the other.
Steps(f, seed, n) == f = [k \in 0..n |-> IF k = 0 THEN seed ELSE Grow(f[k - 1])]

LEMMA StepsAre ==
    ASSUME NEW seed, NEW n \in Nat, NEW f
    PROVE  Steps(f, seed, n) <=> /\ f = [k \in 0..n |-> f[k]] /\ f[0] = seed
                                 /\ \A k \in 1..n : f[k] = Grow(f[k - 1])
<1> DEFINE body(k) == IF k = 0 THEN seed ELSE Grow(f[k - 1])
<1>1. Steps(f, seed, n) <=> f = [k \in 0..n |-> body(k)]
  BY DEF Steps
<1>2. 0 \in 0..n /\ body(0) = seed /\ \A k \in 0..n : k # 0 <=> k \in 1..n
  OBVIOUS
<1>3. \A k \in 1..n : k \in 0..n /\ body(k) = Grow(f[k - 1])
  OBVIOUS
<1>4. ASSUME f = [k \in 0..n |-> body(k)]
      PROVE  f = [k \in 0..n |-> f[k]] /\ f[0] = seed /\ \A k \in 1..n : f[k] = Grow(f[k - 1])
  <2> HIDE DEF body
  <2>1. \A k \in 0..n : f[k] = body(k)
    BY <1>4
  <2>2. f[0] = seed /\ \A k \in 1..n : f[k] = Grow(f[k - 1])
    BY <1>2, <1>3, <2>1
  <2>3. f = [k \in 0..n |-> f[k]]
    BY <1>4, <2>1
  <2> QED BY <2>2, <2>3
<1>5. ASSUME f = [k \in 0..n |-> f[k]], f[0] = seed, \A k \in 1..n : f[k] = Grow(f[k - 1])
      PROVE  f = [k \in 0..n |-> body(k)]
  <2> HIDE DEF body
  <2>1. \A k \in 0..n : f[k] = body(k)
    BY <1>2, <1>3, <1>5
  <2> QED BY <1>5, <2>1
<1> QED BY <1>1, <1>4, <1>5

LEMMA StepsExist ==
    ASSUME NEW seed, NEW n \in Nat
    PROVE  \E f : Steps(f, seed, n)
<1> DEFINE T == {m \in Nat : ~ \E f : Steps(f, seed, m)}
<1>1. SUFFICES ASSUME T # {} PROVE FALSE
  OBVIOUS
<1>2. PICK m \in T : \A k \in T : m <= k
  BY <1>1, LeastNat
<1>3. m \in Nat /\ ~ \E f : Steps(f, seed, m)
  OBVIOUS
<1>4. CASE m = 0
  <2> DEFINE f == [k \in 0..0 |-> seed]
  <2>1. f = [k \in 0..0 |-> f[k]] /\ f[0] = seed /\ \A k \in 1..0 : f[k] = Grow(f[k - 1])
    OBVIOUS
  <2> HIDE DEF f
  <2>2. Steps(f, seed, 0)
    BY <2>1, StepsAre
  <2> QED BY <1>3, <1>4, <2>2
<1>5. CASE m # 0
  <2>1. m - 1 \in Nat /\ m - 1 < m
    BY <1>3, <1>5
  <2>2. m - 1 \notin T
    <3> HIDE DEF T
    <3> QED BY <1>2, <1>3, <2>1
  <2>3. PICK f : Steps(f, seed, m - 1)
    BY <2>1, <2>2
  <2> DEFINE g == [k \in 0..m |-> IF k = m THEN Grow(f[m - 1]) ELSE f[k]]
  <2>4. f[0] = seed /\ \A k \in 1..(m - 1) : f[k] = Grow(f[k - 1])
    BY <2>1, <2>3, StepsAre
  <2>5. g = [k \in 0..m |-> g[k]]
    OBVIOUS
  <2>6. g[0] = seed
    BY <1>3, <1>5, <2>4
  <2>7. ASSUME NEW k \in 1..m PROVE g[k] = Grow(g[k - 1])
    <3>1. k - 1 \in 0..m /\ k - 1 # m /\ k \in 0..m
      BY <1>3
    <3>2. g[k - 1] = f[k - 1]
      BY <3>1
    <3>3. CASE k = m
      BY <3>1, <3>2, <3>3
    <3>4. CASE k # m
      <4>1. k \in 1..(m - 1)
        BY <1>3, <3>4
      <4>2. f[k] = Grow(f[k - 1])
        BY <2>4, <4>1
      <4> QED BY <3>1, <3>2, <3>4, <4>2
    <3> QED BY <3>3, <3>4
  <2> HIDE DEF g
  <2>8. Steps(g, seed, m)
    BY <1>3, <2>5, <2>6, <2>7, StepsAre
  <2> QED BY <1>3, <2>8
<1> QED BY <1>4, <1>5

\* Nothing more is created by what there is.
Closed(S) == CreatedBy(S) \subseteq S

\* A step that changes anything takes one token at least: after as many steps as there
\* are tokens nothing is left to take.
LEMMA StepsClose ==
    ASSUME Types, NEW seed, seed \subseteq live, NEW f, Steps(f, seed, Cardinality(Accessors))
    PROVE  /\ seed \subseteq f[Cardinality(Accessors)] /\ f[Cardinality(Accessors)] \subseteq live
           /\ Closed(f[Cardinality(Accessors)])
<1> DEFINE N == Cardinality(Accessors)
           Good(n) == seed \subseteq f[n] /\ f[n] \subseteq live /\ (Closed(f[n]) \/ Cardinality(f[n]) >= n)
           T == {n \in Nat : n <= N /\ ~Good(n)}
<1>1. N \in Nat /\ IsFiniteSet(Accessors)
  BY PolicyAssumption, FS_CardinalityType
<1>2. live \subseteq Accessors
  BY DEF Types, issued
<1>3. ASSUME NEW S, S \subseteq live PROVE IsFiniteSet(S) /\ Cardinality(S) \in Nat
  BY <1>1, <1>2, <1>3, FS_Subset, FS_CardinalityType
<1>0. f[0] = seed /\ \A k \in 1..N : f[k] = Grow(f[k - 1])
  <2> HIDE DEF N
  <2> QED BY <1>1, StepsAre DEF N
<1>4. T = {}
  <2> SUFFICES ASSUME T # {} PROVE FALSE
    OBVIOUS
  <2>1. PICK m \in T : \A k \in T : m <= k
    BY LeastNat
  <2>2. m \in Nat /\ m <= N /\ ~Good(m)
    OBVIOUS
  <2>3. CASE m = 0
    <3>1. f[0] = seed
      BY <1>0
    <3>2. Cardinality(seed) >= 0
      BY <1>3
    <3>3. Good(0)
      BY <3>1, <3>2
    <3> QED BY <2>2, <2>3, <3>3
  <2>4. CASE m # 0
    <3>1. m - 1 \in Nat /\ m - 1 <= N /\ m - 1 < m /\ m - 1 \in 0..N /\ m \in 0..N /\ m \in 1..N
      BY <1>1, <2>2, <2>4
    <3>2. Good(m - 1)
      <4>1. m - 1 \notin T
        <5> HIDE DEF T
        <5> QED BY <2>1, <2>2, <3>1
      <4> QED BY <3>1, <4>1
    <3>3. f[m] = Grow(f[m - 1])
      BY <1>0, <3>1
    <3>4. seed \subseteq f[m] /\ f[m] \subseteq live
      BY <3>2, <3>3 DEF Grow, CreatedBy
    <3>5. CASE Closed(f[m - 1])
      <4>1. f[m] = f[m - 1]
        BY <3>3, <3>5 DEF Grow, Closed
      <4>2. Closed(f[m])
        BY <3>5, <4>1
      <4> QED BY <2>2, <3>4, <4>2
    <3>6. CASE ~Closed(f[m - 1])
      <4>1. f[m - 1] \subseteq f[m] /\ f[m - 1] # f[m]
        BY <3>3, <3>6 DEF Grow, Closed
      <4>2. Cardinality(f[m - 1]) < Cardinality(f[m])
        BY <1>3, <3>4, <4>1, FS_Subset
      <4>3. Cardinality(f[m - 1]) >= m - 1
        BY <3>2, <3>6
      <4>4. Cardinality(f[m]) >= m
        BY <1>3, <2>2, <3>1, <3>2, <3>4, <4>2, <4>3
      <4> QED BY <2>2, <3>4, <4>4
    <3> QED BY <3>5, <3>6
  <2> QED BY <2>3, <2>4
<1>5. N \in 0..N /\ Good(N)
  BY <1>1, <1>4
<1>6. ASSUME Cardinality(f[N]) >= N
      PROVE  Closed(f[N])
  <2>1. f[N] \subseteq live /\ Cardinality(f[N]) \in Nat
    BY <1>3, <1>5
  <2>2. f[N] = Accessors
    <3>1. f[N] \subseteq Accessors
      BY <1>2, <2>1
    <3> DEFINE S == f[N]
               n == Cardinality(S)
    <3>2. S # Accessors => n < N
      <4>1. n \in Nat
        BY <2>1
      <4>2. n <= N /\ (N = n => Accessors = S)
        BY <1>1, <3>1, FS_Subset
      <4> HIDE DEF S, n, N
      <4> QED BY <1>1, <4>1, <4>2
    <3>3. n \in Nat /\ n >= N
      BY <1>6, <2>1
    <3> HIDE DEF n, N
    <3> QED BY <1>1, <3>2, <3>3
  <2> QED BY <1>2, <2>2 DEF Closed, CreatedBy
<1> QED BY <1>5, <1>6

\* What a revocation names are the tokens it is about, and maybe more.
LEMMA SweepNamesAll ==
    ASSUME Types, NEW rev \in Revocations
    PROVE  about(rev) \subseteq TokensToRevoke(rev) /\ TokensToRevoke(rev) \subseteq live
<1> DEFINE N == Cardinality(Accessors)
           seed == {a \in live : born[a].origin = "created" /\ rev.who \in {born[a].creator, born[a].creatorIdentity}}
<1>1. N \in Nat
  BY PolicyAssumption, FS_CardinalityType
<1>2. seed \subseteq taken(rev.who) /\ taken(rev.who) \subseteq live /\ Closed(taken(rev.who))
  <2> DEFINE after == CHOOSE f : Steps(f, seed, N)
  <2>1. taken(rev.who) = after[N]
    BY DEF taken, Steps, Grow, CreatedBy
  <2>2. Steps(after, seed, N)
    <3>1. \E f : Steps(f, seed, N)
      <4> HIDE DEF seed, N
      <4> QED BY <1>1, StepsExist
    <3> HIDE DEF seed, N
    <3> QED BY <3>1
  <2>3. seed \subseteq live
    OBVIOUS
  <2> HIDE DEF after, seed
  <2> QED BY <2>1, <2>2, <2>3, StepsClose
<1>3. CASE rev.of = "sessions"
  BY <1>3 DEF about, TokensToRevoke
<1>4. CASE rev.of # "sessions"
  <2>1. rev.of = "created"
    BY <1>4 DEF Revocations
  <2>2. \A a \in live : born[a].creator \in taken(rev.who) => a \in taken(rev.who)
    BY <1>2 DEF Closed, CreatedBy
  <2>3. about(rev) \subseteq taken(rev.who)
    BY <1>2, <1>4, <2>2 DEF about
  <2>4. TokensToRevoke(rev) = (live \ expired) \cap taken(rev.who)
    BY <2>1 DEF TokensToRevoke
  <2>5. about(rev) \subseteq live \ expired
    BY <1>4 DEF about
  <2> QED BY <2>3, <2>4, <2>5
<1> QED BY <1>3, <1>4

-----------------------------------------------------------------------------
(***************************************************************************)
(* What a step does to the tables.                                         *)
(***************************************************************************)
LEMMA ParsedOK ==
    ASSUME NEW file \in Files
    PROVE  PolicyOK(Parse(file))
<1> DEFINE S == DOMAIN file.blocks
           f == [i \in S |-> rule(file.blocks[i])]
           R == {f[i] : i \in S}
<1>1. IsFiniteSet(S) /\ \A i \in S : file.blocks[i].label \in Labels
  BY PolicyAssumption
<1>2. Parse(file).rules = R
  BY DEF Parse
<1>3. f \in Surjection(S, R)
  BY DEF Surjection
<1>4. IsFiniteSet(R)
  <2> HIDE DEF S, f, R
  <2> QED BY <1>1, <1>3, FS_Surjection
<1>5. \A r \in R : r.label \in Labels
  <2>1. ASSUME NEW b PROVE rule(b).label = b.label
    BY DEF rule
  <2>2. \A i \in S : f[i].label = file.blocks[i].label
    BY <2>1
  <2> HIDE DEF f, S
  <2> QED BY <1>1, <2>2 DEF S
<1> HIDE DEF R
<1> QED BY <1>2, <1>4, <1>5 DEF PolicyOK

\* A step that leaves the policies alone, whoever takes it.
LEMMA PoliciesAside ==
    ASSUME [Next]_vars,
           \A q \in Requests : ~(apiPutPolicy(q) \/ savePolicy(q) \/ apiDeletePolicy(q) \/ deletePolicy(q))
    PROVE  policies' = policies
<1> USE DEF tables
<1>1. ASSUME NEW q \in Requests, Serve(q) PROVE policies' = policies
  <2>1. CASE tokenSubject(q) \/ clientACL(q) \/ Answer(q)
    BY <2>1 DEF tokenSubject, clientACL, Answer
  <2>2. CASE apiAction(q) \/ pageAction(q) \/ LogBackup(q) \/ SendBackup(q)
    BY <2>2 DEF apiAction, pageAction, Act, LogBackup, SendBackup
  <2>3. CASE apiSaveBindingRule(q) \/ saveBindingRule(q) \/ PutBindingRule(q) \/ apiDeleteBindingRule(q) \/ deleteBindingRule(q)
    BY <2>3 DEF apiSaveBindingRule, saveBindingRule, putBindingRule, PutBindingRule, apiDeleteBindingRule,
                deleteBindingRule, DeleteBindingRule
  <2>4. CASE apiCreateToken(q) \/ createTokenForm(q) \/ mintToken(q)
    BY <2>4 DEF apiCreateToken, createTokenForm, createToken, mintToken
  <2>5. CASE apiRevokeToken(q) \/ revokeTokenForm(q) \/ apiRevokeSelf(q) \/ RevokeACLTokens(q)
    BY <2>5 DEF apiRevokeToken, revokeTokenForm, RevokeACLToken, apiRevokeSelf, RevokeACLTokens
  <2>6. CASE apiRevokeTokens(q) \/ revokeTokensForm(q)
    BY <2>6 DEF apiRevokeTokens, revokeTokensForm, revokeTokens
  <2> QED BY <1>1, <2>1, <2>2, <2>3, <2>4, <2>5, <2>6 DEF Serve
<1>2. ASSUME NEW l \in Logins, LogIn(l) PROVE policies' = policies
  BY <1>2 DEF LogIn, MakeSession, bindLogin, purgeTokens, createSession
<1>3. CASE EndSession \/ Expire \/ Restart \/ UNCHANGED vars
  BY <1>3 DEF EndSession, Expire, Restart, vars
<1> QED BY <1>1, <1>2, <1>3 DEF Next

\* What a write of the policies is: one name, what was parsed or nothing.
LEMMA PolicyWrite ==
    ASSUME NEW q \in Requests, apiPutPolicy(q) \/ savePolicy(q) \/ apiDeletePolicy(q) \/ deletePolicy(q)
    PROVE  \E n \in Names : \E p :
               /\ p = None \/ \E file \in Files : p = Parse(file)
               /\ WritePolicy(q, n, p) /\ swept' = swept
<1>1. putPolicy(q) \/ DeleteACLPolicy(q)
  BY DEF apiPutPolicy, savePolicy, apiDeletePolicy, deletePolicy
<1>2. CASE putPolicy(q)
  <2>1. PICK n \in Names : \E file \in Files : WritePolicy(q, n, Parse(file)) /\ swept' = swept
    BY <1>2 DEF putPolicy
  <2>2. PICK file \in Files : WritePolicy(q, n, Parse(file)) /\ swept' = swept
    BY <2>1
  <2> QED BY <2>2
<1>3. CASE DeleteACLPolicy(q)
  <2>1. PICK n \in Names : WritePolicy(q, n, None) /\ swept' = swept
    BY <1>3 DEF DeleteACLPolicy
  <2> QED BY <2>1
<1> QED BY <1>1, <1>2, <1>3

LEMMA PoliciesStep ==
    ASSUME PoliciesOK, [Next]_vars
    PROVE  PoliciesOK'
<1>1. CASE \A q \in Requests : ~(apiPutPolicy(q) \/ savePolicy(q) \/ apiDeletePolicy(q) \/ deletePolicy(q))
  BY <1>1, PoliciesAside DEF PoliciesOK
<1>2. ASSUME NEW q \in Requests, apiPutPolicy(q) \/ savePolicy(q) \/ apiDeletePolicy(q) \/ deletePolicy(q)
      PROVE  PoliciesOK'
  <2>1. PICK n \in Names : \E p : /\ p = None \/ \E file \in Files : p = Parse(file)
                                  /\ WritePolicy(q, n, p)
    BY <1>2, PolicyWrite
  <2>2. PICK p : (p = None \/ \E file \in Files : p = Parse(file)) /\ WritePolicy(q, n, p)
    BY <2>1
  <2>3. p = None \/ PolicyOK(p)
    BY <2>2, ParsedOK
  <2>4. policies' = [policies EXCEPT ![n] = p]
    BY <2>2 DEF WritePolicy
  <2>5. DOMAIN policies' = Names
    BY <2>4 DEF PoliciesOK
  <2>6. ASSUME NEW m \in Names, policies'[m] \notin {None, Garbled} PROVE PolicyOK(policies'[m])
    BY <2>3, <2>4, <2>6 DEF PoliciesOK
  <2> QED BY <2>5, <2>6 DEF PoliciesOK
<1> QED BY <1>1, <1>2

LEMMA BornStep ==
    ASSUME AccessInv, RequestInv, [Next]_vars
    PROVE  BornOK'
<1>0. TokensKeep
  BY NextForward
<1>1. ASSUME born' = born
      PROVE  BornOK'
  BY <1>1 DEF RequestInv, BornOK, issued
<1>2. ASSUME NEW a \in Accessors, NEW t, NEW by, CreateACLToken(a, t, by),
             t.type = "management" => t.policies = {},
             t.origin = "login" => t.mortal /\ t.identity \in People
      PROVE  BornOK'
  <2>1. born' = [born EXCEPT ![a] = t] /\ born \in [Accessors -> Tokens \cup {None}]
    BY <1>2 DEF CreateACLToken, AccessInv, Types
  <2>2. \A b \in issued' : (b = a /\ born'[b] = t) \/ (b \in issued /\ born'[b] = born[b])
    BY <2>1 DEF issued
  <2> QED BY <1>2, <2>2 DEF RequestInv, BornOK
<1>3. ASSUME NEW q \in Requests, Serve(q) PROVE BornOK'
  <2>1. CASE mintToken(q)
    <3> DEFINE t == requests[q].arg
               new == Token(t.type, t.policies, "created", identity(q), t.mortal, By(q))
    <3>1. t \in TokenInputs
      BY <2>1 DEF mintToken, AccessInv, Served, ReqOK, Pending
    <3>2. t.type = "management" => t.policies = {}
      BY <3>1, PolicyAssumption
    <3>3. new.type = t.type /\ new.policies = t.policies /\ new.origin = "created"
      BY DEF Token
    <3>4. PICK a \in Accessors : CreateACLToken(a, new, By(q))
      BY <2>1 DEF mintToken
    <3> HIDE DEF t, new
    <3> QED BY <1>2, <3>2, <3>3, <3>4
  <2>2. CASE ~mintToken(q)
    BY <1>1, <1>3, <2>2, ServeForward
  <2> QED BY <2>1, <2>2
<1>4. ASSUME NEW l \in Logins, LogIn(l) PROVE BornOK'
  <2>1. CASE createSession(l)
    <3> DEFINE g == logins[l].granted
               type == IF g.management THEN "management" ELSE "client"
               carried == IF g.management THEN {} ELSE g.policies
               who == logins[l].who
               new == Token(type, carried, "login", who, TRUE, None)
    <3>1. who \in People
      BY <2>1 DEF createSession, RequestInv, PeopleOK
    <3>2. type = "management" => carried = {}
      OBVIOUS
    <3>3. new.type = type /\ new.policies = carried /\ new.mortal = TRUE /\ new.identity = who
      BY DEF Token
    <3>4. PICK a \in Accessors : CreateACLToken(a, new, None)
      BY <2>1 DEF createSession
    <3> HIDE DEF new, type, carried, who
    <3> QED BY <1>2, <3>1, <3>2, <3>3, <3>4
  <2>2. CASE ~createSession(l)
    <3>1. born' = born
      BY <1>4, <2>2 DEF LogIn, MakeSession, bindLogin, purgeTokens, DeleteExpiredTokens, tokens
    <3> QED BY <1>1, <3>1
  <2> QED BY <2>1, <2>2
<1>5. CASE EndSession \/ Expire \/ Restart \/ UNCHANGED vars
  <2>1. born' = born
    BY <1>5 DEF EndSession, Expire, Restart, Revoke, DeleteExpiredTokens, vars
  <2> QED BY <1>1, <2>1
<1> QED BY <1>3, <1>4, <1>5 DEF Next

\* A login keeps its person until it is over.
LEMMA PeopleStep ==
    ASSUME AccessInv, RequestInv, [Next]_vars
    PROVE  PeopleOK'
<1> DEFINE PersonOK(r) == (r.pc # "idle" => r.who \in People) /\ (r.pc = "made" => r.token \in issued')
<1>0. TokensKeep
  BY NextForward
<1>1. \A l \in Logins : PersonOK(logins[l])
  BY <1>0 DEF RequestInv, PeopleOK, TokensKeep
<1>2. logins' = logins => PeopleOK'
  BY <1>1 DEF PeopleOK
<1>3. ASSUME NEW q \in Requests, Serve(q) PROVE PeopleOK'
  <2>1. CASE mintToken(q)
    BY <1>2, <2>1 DEF mintToken
  <2>2. CASE ~mintToken(q)
    BY <1>2, <1>3, <2>2, ServeForward
  <2> QED BY <2>1, <2>2
<1>4. ASSUME NEW l \in Logins, LogIn(l) PROVE PeopleOK'
  <2>0. DOMAIN logins = Logins /\ LoginOK(logins[l])
    BY DEF AccessInv, Types, LoginsOK
  <2>1. ASSUME NEW r, logins' = [logins EXCEPT ![l] = r], PersonOK(r) PROVE PeopleOK'
    <3>1. \A x \in Logins : PersonOK(logins'[x])
      BY <1>1, <2>0, <2>1
    <3> QED BY <3>1 DEF PeopleOK
  <2>2. ASSUME NEW who \in People, NEW m \in Methods, BeginLogin(l, who, m) PROVE PeopleOK'
    <3> DEFINE r == [NoLogin EXCEPT !.pc = "bind", !.who = who, !.method = m]
    <3>1. PersonOK(r)
      BY DEF NoLogin
    <3>2. logins' = [logins EXCEPT ![l] = r]
      BY <2>2 DEF BeginLogin
    <3> HIDE DEF r, PersonOK
    <3> QED BY <2>1, <3>1, <3>2
  <2>3. CASE EndLogin(l)
    <3>1. PersonOK(NoLogin)
      BY DEF NoLogin
    <3> HIDE DEF PersonOK
    <3> QED BY <2>1, <2>3, <3>1 DEF EndLogin
  <2>4. ASSUME NEW r, logins' = [logins EXCEPT ![l] = r], logins[l].pc # "idle", r.who = logins[l].who,
               r.pc = "made" => r.token \in issued'
        PROVE  PeopleOK'
    <3>1. PersonOK(r)
      BY <1>1, <2>4
    <3> HIDE DEF PersonOK
    <3> QED BY <2>1, <2>4, <3>1
  <2>5. CASE bindLogin(l)
    <3>1. PICK g, pc : pc # "made" /\ logins' = [logins EXCEPT ![l].granted = g, ![l].pc = pc]
      BY <2>5 DEF bindLogin
    <3>2. logins' = [logins EXCEPT ![l] = [logins[l] EXCEPT !.granted = g, !.pc = pc]]
      BY <2>0, <3>1
    <3> QED BY <2>0, <2>4, <2>5, <3>1, <3>2 DEF bindLogin, LoginOK
  <2>6. CASE purgeTokens(l)
    <3>1. logins' = [logins EXCEPT ![l] = [logins[l] EXCEPT !.pc = "create"]]
      BY <2>0, <2>6 DEF purgeTokens
    <3> QED BY <2>0, <2>4, <2>6, <3>1 DEF purgeTokens, LoginOK
  <2>7. CASE createSession(l)
    <3>1. PICK a \in Accessors : /\ \E t, by : CreateACLToken(a, t, by)
                                 /\ logins' = [logins EXCEPT ![l].pc = "made", ![l].token = a]
      BY <2>7 DEF createSession
    <3>2. logins' = [logins EXCEPT ![l] = [logins[l] EXCEPT !.pc = "made", !.token = a]]
      BY <2>0, <3>1
    <3>3. a \in live'
      BY <3>1 DEF CreateACLToken
    <3>4. AccessInv'
      BY StepKeeps
    <3>5. a \in issued'
      BY <3>3, <3>4 DEF AccessInv, Types
    <3> QED BY <2>0, <2>4, <2>7, <3>2, <3>5 DEF createSession, LoginOK
  <2> QED BY <1>4, <2>2, <2>3, <2>5, <2>6, <2>7 DEF LogIn, MakeSession
<1>5. CASE EndSession \/ Expire \/ UNCHANGED vars
  <2>1. logins' = logins
    BY <1>5 DEF EndSession, Expire, vars
  <2> QED BY <1>2, <2>1
<1>6. CASE Restart
  BY <1>6 DEF Restart, PeopleOK, NoLogin
<1> QED BY <1>3, <1>4, <1>5, <1>6 DEF Next

\* A step that ends no revocation.
LEMMA SweptAside ==
    ASSUME [Next]_vars, \A q \in Requests : ~RevokeACLTokens(q)
    PROVE  swept' = swept
<1>1. ASSUME NEW q \in Requests, Serve(q) PROVE swept' = swept
  <2>1. CASE tokenSubject(q) \/ clientACL(q) \/ Answer(q)
    BY <2>1 DEF tokenSubject, clientACL, Answer
  <2>2. CASE apiAction(q) \/ pageAction(q) \/ LogBackup(q) \/ SendBackup(q)
    BY <2>2 DEF apiAction, pageAction, Act, LogBackup, SendBackup
  <2>3. CASE apiPutPolicy(q) \/ savePolicy(q) \/ apiDeletePolicy(q) \/ deletePolicy(q)
    BY <2>3, PolicyWrite
  <2>4. CASE apiSaveBindingRule(q) \/ saveBindingRule(q) \/ PutBindingRule(q) \/ apiDeleteBindingRule(q) \/ deleteBindingRule(q)
    BY <2>4 DEF apiSaveBindingRule, saveBindingRule, putBindingRule, PutBindingRule, apiDeleteBindingRule,
                deleteBindingRule, DeleteBindingRule
  <2>5. CASE apiCreateToken(q) \/ createTokenForm(q) \/ mintToken(q)
    BY <2>5 DEF apiCreateToken, createTokenForm, createToken, mintToken
  <2>6. CASE apiRevokeToken(q) \/ revokeTokenForm(q) \/ apiRevokeSelf(q)
    BY <2>6 DEF apiRevokeToken, revokeTokenForm, RevokeACLToken, apiRevokeSelf
  <2>7. CASE apiRevokeTokens(q) \/ revokeTokensForm(q)
    BY <2>7 DEF apiRevokeTokens, revokeTokensForm, revokeTokens
  <2> QED BY <1>1, <2>1, <2>2, <2>3, <2>4, <2>5, <2>6, <2>7 DEF Serve
<1>2. ASSUME NEW l \in Logins, LogIn(l) PROVE swept' = swept
  BY <1>2 DEF LogIn, MakeSession, bindLogin, purgeTokens, createSession
<1>3. CASE EndSession \/ Expire \/ Restart \/ UNCHANGED vars
  BY <1>3 DEF EndSession, Expire, Restart, vars
<1> QED BY <1>1, <1>2, <1>3 DEF Next

\* What a revocation has taken stays taken: an accessor ID is not given twice.
LEMMA SweptStep ==
    ASSUME AccessInv, RequestInv, [Next]_vars
    PROVE  SweptOK'
<1>1. TokensKeep
  BY NextForward
<1>2. SweptOK
  BY DEF RequestInv
<1>3. CASE \A q \in Requests : ~RevokeACLTokens(q)
  BY <1>1, <1>2, <1>3, SweptAside DEF SweptOK, TokensKeep
<1>4. ASSUME NEW q \in Requests, RevokeACLTokens(q)
      PROVE  SweptOK'
  <2>1. requests[q].pc = "sweep" /\ live' = live \ requests[q].todo /\ swept' = swept \cup requests[q].named
    BY <1>4 DEF RevokeACLTokens, Revoke
  <2>2. requests[q].todo \subseteq issued
    BY <2>1 DEF AccessInv, Served, ReqOK, Pending
  <2>3. requests[q].named \subseteq requests[q].todo
    BY <2>1 DEF RequestInv, Requested, RequestOK
  <2> QED BY <1>1, <1>2, <2>1, <2>2, <2>3 DEF SweptOK, TokensKeep
<1> QED BY <1>3, <1>4

-----------------------------------------------------------------------------
(***************************************************************************)
(* What a step does to the requests.                                       *)
(***************************************************************************)
LEMMA IdleFine ==
    ASSUME NEW q \in Requests, requests'[q] = Idle
    PROVE  RequestOK(requests[q])'
<1>1. AclOK(New({}))
  BY FS_EmptySet DEF AclOK, New
<1>2. AclOK(requests[q].sub.acl)'
  BY <1>1 DEF Idle, Nobody
<1>3. Barred(requests[q])'
  BY DEF Barred, Idle
<1>4. GivenOK(requests[q])'
  BY DEF GivenOK, Idle, Nobody, New
<1> QED BY <1>2, <1>3, <1>4 DEF RequestOK, Idle, Nobody, New

LEMMA OneRequest ==
    ASSUME Requested, policies' = policies, NEW q \in Requests, RequestOK(requests[q])',
           \A x \in Requests \ {q} : requests'[x] = requests[x]
    PROVE  Requested'
<1>1. ASSUME NEW x \in Requests \ {q} PROVE RequestOK(requests[x])'
  BY DEF Requested, RequestOK, Barred, Unread, GivenOK
<1> QED BY <1>1 DEF Requested

LEMMA RequestsSame ==
    ASSUME Requested, UNCHANGED <<requests, policies>>
    PROVE  Requested'
BY DEF Requested, RequestOK, Barred, Unread, GivenOK

LEMMA RequestDone ==
    ASSUME Served, Requested, policies' = policies, NEW q \in Requests, Done(q)
    PROVE  Requested'
<1>1. requests'[q] = Idle /\ \A x \in Requests \ {q} : requests'[x] = requests[x]
  BY DEF Done, Served
<1> QED BY <1>1, IdleFine, OneRequest

\* A request that goes on with what it has read, to act where nothing has denied it.
LEMMA RequestGoes ==
    ASSUME Served, Requested, policies' = policies, NEW q \in Requests,
           requests[q].pc \notin {"idle", "policies", "sweep"},
           \A x \in Requests \ {q} : requests'[x] = requests[x],
           requests'[q].sub = requests[q].sub, requests'[q].todo = requests[q].todo,
           requests'[q].barred = requests[q].barred, requests'[q].given = requests[q].given,
           requests'[q].pc \notin {"idle", "policies", "sweep"},
           requests'[q].pc = "acted" => \A b \in requests[q].barred : b[2] # requests'[q].arg.ns
    PROVE  Requested'
<1>1. RequestOK(requests[q])
  BY DEF Requested
<1>2. Barred(requests[q])'
  BY <1>1 DEF RequestOK, Barred, Unread
<1>3. GivenOK(requests[q])'
  BY <1>1 DEF RequestOK, GivenOK
<1>4. RequestOK(requests[q])'
  BY <1>1, <1>2, <1>3 DEF RequestOK
<1> QED BY <1>4, OneRequest

\* What a step that only says where its request goes on leaves of it.
LEMMA GoesLeaves ==
    ASSUME Served, NEW q \in Requests, NEW pc, NEW arg, Goes(q, pc, arg)
    PROVE  /\ \A x \in Requests \ {q} : requests'[x] = requests[x]
           /\ requests'[q].sub = requests[q].sub /\ requests'[q].todo = requests[q].todo
           /\ requests'[q].barred = requests[q].barred /\ requests'[q].given = requests[q].given
           /\ requests'[q].pc = pc /\ requests'[q].arg = arg
<1>1. DOMAIN requests = Requests /\ Fields(requests[q])
  BY DEF Served, ReqOK
<1>2. requests'[q] = [requests[q] EXCEPT !.pc = pc, !.arg = arg]
  BY <1>1 DEF Goes
<1> QED BY <1>1, <1>2 DEF Goes, Fields

\* The subject of a request: what its policies deny by name as it is let in.
LEMMA SubjectFine ==
    ASSUME AccessInv, RequestInv, NEW q \in Requests, tokenSubject(q)
    PROVE  Requested'
<1>1. Served /\ Requested /\ DOMAIN requests = Requests /\ policies' = policies
  BY DEF AccessInv, Served, RequestInv, tokenSubject, tables
<1>2. /\ AclOK(Management) /\ AclOK(New({})) /\ Management.management /\ ~New({}).management
      /\ Management.policies = {} /\ New({}).policies = {}
  BY FS_EmptySet DEF AclOK, New, Management
<1>3. PICK s : /\ requests' = [requests EXCEPT ![q] = s]
               /\ LetInBootstrap(s) \/ \E a \in Accessors, all \in BOOLEAN : LetIn(s, a, all)
  BY SubjectIs
<1>4. requests'[q] = s /\ \A x \in Requests \ {q} : requests'[x] = requests[x]
  BY <1>1, <1>3
<1>5. CASE LetInBootstrap(s)
  <2>1. s.pc = "handle" /\ s.sub.acl = Management /\ s.todo = {} /\ s.barred = {}
    BY <1>5 DEF LetInBootstrap
  <2>2. RequestOK(requests[q])'
    BY <1>2, <1>4, <2>1 DEF RequestOK, Barred, GivenOK
  <2> QED BY <1>1, <1>4, <2>2, OneRequest
<1>6. ASSUME NEW a \in Accessors, NEW all \in BOOLEAN, LetIn(s, a, all)
      PROVE  Requested'
  <2>1. born[a].policies \subseteq Names
    <3>1. born[a] \in Tokens
      BY <1>6 DEF LetIn, ACLTokenBySecret, AccessInv, Types, issued
    <3> QED BY <3>1 DEF Tokens
  <2>2. /\ s.pc = (IF all THEN "handle" ELSE "policies")
        /\ s.sub.acl = (IF all THEN Management ELSE New({})) /\ s.sub.carried = born[a].policies
        /\ s.todo = (IF all THEN {} ELSE born[a].policies)
    BY <1>6 DEF LetIn
  <2>3. /\ s.barred = (IF all THEN {} ELSE denied(born[a].policies))
        /\ s.given = (IF all THEN {} ELSE given(born[a].policies))
    BY <1>6 DEF LetIn
  <2>4. Barred(requests[q])'
    <3> SUFFICES ASSUME NEW b \in s.barred
        PROVE  /\ b[1] \in Names /\ b[2] \in Namespaces /\ ~s.sub.acl.management
               /\ Unread(s, b) /\ Denies(policies'[b[1]], b[2])
               /\ s.pc # "acted"
      BY <1>4 DEF Barred
    <3>1. ~all /\ b[1] \in born[a].policies /\ b[2] \in Namespaces /\ Denies(policies[b[1]], b[2])
      BY <2>3 DEF denied
    <3>2. s.pc = "policies" /\ s.todo = born[a].policies /\ s.sub.acl = New({})
      BY <2>2, <3>1
    <3> QED BY <1>1, <1>2, <2>1, <3>1, <3>2 DEF Unread
  <2>5. GivenOK(requests[q])'
    <3> SUFFICES ASSUME ~s.sub.acl.management
        PROVE  /\ s.sub.acl.policies = {} /\ s.todo = s.sub.carried
               /\ \A n \in s.todo : Gives(policies'[n]) \subseteq s.given
      BY <1>4 DEF GivenOK
    <3>1. ~all
      BY <1>2, <2>2
    <3> QED BY <1>1, <1>2, <2>2, <2>3, <3>1 DEF given
  <2>6. /\ AclOK(s.sub.acl) /\ s.pc \in {"handle", "policies"}
        /\ s.sub.acl.management => s.todo = {}
    BY <1>2, <2>2
  <2>7. RequestOK(requests[q])'
    BY <1>4, <2>4, <2>5, <2>6 DEF RequestOK
  <2> QED BY <1>1, <1>4, <2>7, OneRequest
<1> QED BY <1>3, <1>5, <1>6

\* A policy is read as it is now, and what it denies goes with it.
LEMMA PolicyRead ==
    ASSUME AccessInv, RequestInv, NEW q \in Requests, clientACL(q)
    PROVE  Requested'
<1> DEFINE r == requests[q]
           s == requests'[q]
<1>1. Requested /\ DOMAIN requests = Requests /\ policies' = policies
  BY DEF AccessInv, Served, RequestInv, clientACL, tables
<1>2. r.pc = "policies" /\ RequestOK(r) /\ Fields(r) /\ Pending(r)
  BY DEF clientACL, AccessInv, Served, ReqOK, RequestInv, Requested
<1>3. ASSUME r.todo = {}, requests' = [requests EXCEPT ![q].pc = "handle"]
      PROVE  Requested'
  <2>1. s.pc = "handle" /\ s.sub = r.sub /\ s.todo = r.todo /\ s.barred = r.barred /\ s.given = r.given
    BY <1>1, <1>2, <1>3 DEF Fields
  <2>2. Barred(requests[q])'
    BY <1>1, <1>2, <1>3, <2>1 DEF RequestOK, Barred, Unread
  <2>3. GivenOK(requests[q])'
    BY <1>2, <2>1 DEF RequestOK, GivenOK
  <2>4. RequestOK(requests[q])'
    BY <1>2, <2>1, <2>2, <2>3 DEF RequestOK
  <2> QED BY <1>1, <1>3, <2>4, OneRequest
<1>4. ASSUME NEW n \in r.todo,
             requests' = [requests EXCEPT
                       ![q].todo = @ \ {n},
                       ![q].sub.acl = IF policies[n] \in {None, Garbled} THEN @
                                      ELSE New(@.policies \cup {policies[n]})]
      PROVE  Requested'
  <2> DEFINE acl == IF policies[n] \in {None, Garbled} THEN r.sub.acl ELSE New(r.sub.acl.policies \cup {policies[n]})
  <2>1. /\ s.pc = "policies" /\ s.todo = r.todo \ {n} /\ s.barred = r.barred
        /\ s.sub.acl = acl /\ s.sub.by = r.sub.by /\ s.sub.carried = r.sub.carried /\ s.given = r.given
    BY <1>1, <1>2, <1>4 DEF Fields
  <2>2. ~r.sub.acl.management
    BY <1>2, <1>4 DEF RequestOK
  <2>3. ~acl.management
    BY <2>2 DEF New
  <2>4. r.sub.acl.policies \subseteq acl.policies
    BY DEF New
  <2>5. /\ policies[n] \notin {None, Garbled} => policies[n] \in acl.policies
        /\ \A p \in acl.policies : p \in r.sub.acl.policies \/ (p = policies[n] /\ p \notin {None, Garbled})
    BY DEF New
  <2>6. n \in Names
    <3>1. r.sub.by \in issued /\ n \in born[r.sub.by].policies
      BY <1>2, <1>4 DEF Pending
    <3>2. born[r.sub.by] \in Tokens
      BY <3>1 DEF AccessInv, Types, issued
    <3> QED BY <3>1, <3>2 DEF Tokens
  <2>7. AclOK(acl)
    <3>1. AclOK(r.sub.acl)
      BY <1>2 DEF RequestOK
    <3>2. CASE policies[n] \in {None, Garbled}
      BY <3>1, <3>2
    <3>3. CASE policies[n] \notin {None, Garbled}
      <4>1. PolicyOK(policies[n])
        BY <2>6, <3>3 DEF RequestInv, PoliciesOK
      <4>2. acl.policies = r.sub.acl.policies \cup {policies[n]}
        BY <3>3 DEF New
      <4>0. IsFiniteSet(r.sub.acl.policies)
        BY <3>1 DEF AclOK
      <4>3. IsFiniteSet(acl.policies)
        <5> HIDE DEF acl, r
        <5> QED BY <4>0, <4>2, FS_AddElement
      <4> HIDE DEF acl
      <4> QED BY <3>1, <4>1, <4>2, <4>3 DEF AclOK
    <3> QED BY <3>2, <3>3
  <2> HIDE DEF acl
  <2>8. Barred(requests[q])'
    <3> SUFFICES ASSUME NEW b \in s.barred
        PROVE  /\ b[1] \in Names /\ b[2] \in Namespaces /\ ~s.sub.acl.management
               /\ Unread(s, b) => Denies(policies'[b[1]], b[2])
               /\ Unread(s, b) \/ \E p \in s.sub.acl.policies : Denies(p, b[2])
               /\ s.pc # "acted"
      BY DEF Barred
    <3>1. /\ b[1] \in Names /\ b[2] \in Namespaces
          /\ Unread(r, b) => Denies(policies[b[1]], b[2])
          /\ Unread(r, b) \/ \E p \in r.sub.acl.policies : Denies(p, b[2])
      BY <1>2, <2>1 DEF RequestOK, Barred
    <3>2. Unread(s, b) => Unread(r, b)
      BY <1>2, <2>1 DEF Unread
    <3>3. Unread(s, b) \/ \E p \in acl.policies : Denies(p, b[2])
      <4>1. CASE Unread(r, b) /\ b[1] # n
        BY <1>2, <2>1, <4>1 DEF Unread
      <4>2. CASE Unread(r, b) /\ b[1] = n
        <5>1. Denies(policies[n], b[2])
          BY <3>1, <4>2
        <5>2. policies[n] \in acl.policies
          BY <2>5, <5>1 DEF Denies
        <5> QED BY <5>1, <5>2
      <4>3. CASE ~Unread(r, b)
        BY <2>4, <3>1, <4>3
      <4> QED BY <4>1, <4>2, <4>3
    <3> HIDE DEF s, r
    <3> QED BY <1>1, <2>1, <2>3, <3>1, <3>2, <3>3
  <2>9. GivenOK(requests[q])'
    <3>1. /\ \A p \in r.sub.acl.policies : p \notin {None, Garbled} /\ Gives(p) \subseteq r.given
          /\ r.todo \subseteq r.sub.carried
          /\ \A m \in r.todo : Gives(policies[m]) \subseteq r.given
      BY <1>2, <2>2 DEF RequestOK, GivenOK
    <3>2. \A p \in acl.policies : p \notin {None, Garbled} /\ Gives(p) \subseteq r.given
      BY <1>4, <2>5, <3>1
    <3>3. /\ \A p \in s.sub.acl.policies : p \notin {None, Garbled} /\ Gives(p) \subseteq s.given
          /\ s.todo \subseteq s.sub.carried
          /\ \A m \in s.todo : Gives(policies'[m]) \subseteq s.given
      <4> HIDE DEF r, s
      <4> QED BY <1>1, <2>1, <3>1, <3>2
    <3> QED BY <3>3 DEF GivenOK
  <2>10. RequestOK(requests[q])'
    BY <2>1, <2>3, <2>7, <2>8, <2>9 DEF RequestOK
  <2> QED BY <1>1, <1>4, <2>10, OneRequest
<1> QED BY <1>3, <1>4 DEF clientACL

\* An action lets no request act where one of its policies denies it.
LEMMA ActionFine ==
    ASSUME AccessInv, RequestInv, NEW q \in Requests, apiAction(q) \/ pageAction(q)
    PROVE  Requested'
<1> DEFINE r == requests[q]
<1>0. PICK ns \in Namespaces : \E route : Guarded(q, route, ns) /\ Act(q, route, ns)
  BY DEF apiAction, pageAction
<1>1. PICK route : Guarded(q, route, ns) /\ Act(q, route, ns)
  BY <1>0
<1> DEFINE arg == [cap |-> route.cap, ns |-> IF route.kind = "namespace" THEN ns ELSE None]
<1>2. r.pc = "handle" /\ passes(r.sub.acl, route, ns)
  BY <1>1 DEF Guarded
<1>3. Goes(q, "acted", arg) /\ policies' = policies
  BY <1>1 DEF Act, Goes, tables
<1>4. RequestOK(r) /\ Served /\ Requested
  BY DEF AccessInv, RequestInv, Requested
<1>5. ASSUME NEW b \in r.barred
      PROVE  b[2] # arg.ns
  <2>1. b[2] \in Namespaces /\ ~r.sub.acl.management
    BY <1>4 DEF RequestOK, Barred
  <2>2. PICK p \in r.sub.acl.policies : Denies(p, b[2])
    BY <1>2, <1>4 DEF RequestOK, Barred, Unread
  <2>3. CASE route.kind = "namespace"
    <3>1. Allow(r.sub.acl, ns, route.cap)
      BY <1>2, <2>3 DEF passes
    <3>2. ~Allow(r.sub.acl, b[2], route.cap)
      BY <1>4, <2>1, <2>2, DenyDecides DEF RequestOK
    <3> QED BY <2>3, <3>1, <3>2
  <2>4. CASE route.kind # "namespace"
    BY <2>1, <2>4, PolicyAssumption
  <2> QED BY <2>3, <2>4
<1> HIDE DEF arg
<1>6. /\ \A x \in Requests \ {q} : requests'[x] = requests[x]
      /\ requests'[q].sub = r.sub /\ requests'[q].todo = r.todo
      /\ requests'[q].barred = r.barred /\ requests'[q].given = r.given
      /\ requests'[q].pc = "acted" /\ requests'[q].arg = arg
  BY <1>3, <1>4, GoesLeaves
<1> QED BY <1>2, <1>3, <1>4, <1>5, <1>6, RequestGoes

\* A request that goes on to something that is no action of the engine.
LEMMA AsideFine ==
    ASSUME AccessInv, RequestInv, policies' = policies, NEW q \in Requests,
           requests[q].pc \notin {"idle", "policies", "sweep"}, NEW pc, NEW arg, Goes(q, pc, arg),
           pc \notin {"idle", "policies", "sweep"},
           pc = "acted" => arg.ns \notin Namespaces
    PROVE  Requested'
<1>1. Served /\ Requested /\ RequestOK(requests[q])
  BY DEF AccessInv, RequestInv, Requested
<1>2. \A b \in requests[q].barred : b[2] \in Namespaces
  BY <1>1 DEF RequestOK, Barred
<1>3. /\ \A x \in Requests \ {q} : requests'[x] = requests[x]
      /\ requests'[q].sub = requests[q].sub /\ requests'[q].todo = requests[q].todo
      /\ requests'[q].barred = requests[q].barred /\ requests'[q].given = requests[q].given
      /\ requests'[q].pc = pc /\ requests'[q].arg = arg
  BY <1>1, GoesLeaves
<1> QED BY <1>1, <1>2, <1>3, RequestGoes

LEMMA BackupFine ==
    ASSUME AccessInv, RequestInv, NEW q \in Requests, LogBackup(q) \/ SendBackup(q)
    PROVE  Requested'
<1>1. CASE SendBackup(q)
  <2> DEFINE arg == [cap |-> "backup", ns |-> None]
  <2>1. requests[q].pc = "backup" /\ Goes(q, "acted", arg) /\ policies' = policies
    BY <1>1 DEF SendBackup, Goes, tables
  <2>2. arg.ns \notin Namespaces
    BY PolicyAssumption
  <2> HIDE DEF arg
  <2> QED BY <2>1, <2>2, AsideFine
<1>2. CASE LogBackup(q)
  <2>1. requests[q].pc = "handle" /\ requests' = [requests EXCEPT ![q].pc = "backup"] /\ policies' = policies
    BY <1>2 DEF LogBackup, Guarded, tables
  <2>2. DOMAIN requests = Requests /\ Fields(requests[q]) /\ Served /\ Requested
    BY DEF AccessInv, Served, ReqOK, RequestInv
  <2>3. /\ \A x \in Requests \ {q} : requests'[x] = requests[x]
        /\ requests'[q].sub = requests[q].sub /\ requests'[q].todo = requests[q].todo
        /\ requests'[q].barred = requests[q].barred /\ requests'[q].given = requests[q].given
        /\ requests'[q].pc = "backup"
    BY <2>1, <2>2 DEF Fields
  <2> QED BY <2>1, <2>2, <2>3, RequestGoes
<1> QED BY <1>1, <1>2

\* Other requests remember of a policy that is written what it still denies.
LEMMA WriteFine ==
    ASSUME AccessInv, RequestInv, NEW q \in Requests,
           apiPutPolicy(q) \/ savePolicy(q) \/ apiDeletePolicy(q) \/ deletePolicy(q)
    PROVE  Requested'
<1>1. PICK n \in Names : \E p : WritePolicy(q, n, p)
  BY PolicyWrite
<1>2. PICK p : WritePolicy(q, n, p)
  BY <1>1
<1>3. /\ DOMAIN policies = Names /\ policies' = [policies EXCEPT ![n] = p] /\ requests'[q] = Idle
  BY <1>2 DEF WritePolicy, RequestInv, PoliciesOK
<1>4. ASSUME NEW x \in Requests \ {q} PROVE RequestOK(requests[x])'
  <2> DEFINE r == requests[x]
             s == requests'[x]
  <2>1. Fields(r) /\ RequestOK(r)
    BY DEF AccessInv, Served, ReqOK, RequestInv, Requested
  <2> DEFINE more == IF n \in r.sub.carried THEN Gives(p) ELSE {}
  <2>2. s = [r EXCEPT !.barred = {b \in @ : b[1] # n \/ Denies(p, b[2])}, !.given = @ \cup more]
    BY <1>2, <1>4 DEF WritePolicy
  <2> HIDE DEF more
  <2>3. /\ s.pc = r.pc /\ s.sub = r.sub /\ s.todo = r.todo /\ s.arg = r.arg /\ s.named = r.named
        /\ s.barred = {b \in r.barred : b[1] # n \/ Denies(p, b[2])} /\ s.given = r.given \cup more
    BY <2>1, <2>2 DEF Fields
  <2>4. ASSUME NEW b \in s.barred PROVE Denies(policies[b[1]], b[2]) => Denies(policies'[b[1]], b[2])
    <3>1. b[1] \in Names
      BY <2>1, <2>3 DEF RequestOK, Barred
    <3> QED BY <1>3, <2>3, <2>4, <3>1
  <2> HIDE DEF r, s
  <2>5. \A b \in s.barred : /\ b[1] \in Names /\ b[2] \in Namespaces /\ ~s.sub.acl.management
                            /\ Unread(s, b) => Denies(policies'[b[1]], b[2])
                            /\ Unread(s, b) \/ \E d \in s.sub.acl.policies : Denies(d, b[2])
                            /\ s.pc = "acted" => b[2] # s.arg.ns
    BY <2>1, <2>3, <2>4 DEF RequestOK, Barred, Unread
  <2>6. Barred(requests[x])'
    BY <2>5 DEF Barred, s
  <2>7. ASSUME ~r.sub.acl.management, r.pc = "policies", NEW m \in r.todo
        PROVE  Gives(policies'[m]) \subseteq s.given
    <3>1. m \in r.sub.carried /\ Gives(policies[m]) \subseteq r.given
      BY <2>1, <2>7 DEF RequestOK, GivenOK
    <3>2. policies'[m] = policies[m] \/ (m = n /\ policies'[m] = p)
      BY <1>3
    <3> QED BY <2>3, <3>1, <3>2 DEF more
  <2>8. GivenOK(requests[x])'
    <3>1. ~s.sub.acl.management =>
              /\ \A d \in s.sub.acl.policies : d \notin {None, Garbled} /\ Gives(d) \subseteq s.given
              /\ s.pc = "policies" => /\ s.todo \subseteq s.sub.carried
                                     /\ \A m \in s.todo : Gives(policies'[m]) \subseteq s.given
      BY <2>1, <2>3, <2>7 DEF RequestOK, GivenOK
    <3> QED BY <3>1 DEF GivenOK, s
  <2>9. RequestOK(requests[x])'
    BY <2>1, <2>3, <2>6, <2>8 DEF RequestOK, s
  <2> QED BY <2>9
<1> QED BY <1>3, <1>4, IdleFine DEF Requested

\* The list of a revocation in one action, as it is read.
LEMMA ListFine ==
    ASSUME AccessInv, RequestInv, NEW q \in Requests, apiRevokeTokens(q) \/ revokeTokensForm(q)
    PROVE  Requested'
<1>1. requests[q].pc = "handle" /\ revokeTokens(q)
  BY DEF apiRevokeTokens, revokeTokensForm, Guarded
<1>2. PICK rev \in Revocations :
         /\ requests' = [requests EXCEPT ![q].pc = "sweep", ![q].todo = TokensToRevoke(rev), ![q].named = about(rev)]
         /\ policies' = policies
  BY <1>1 DEF revokeTokens, tables
<1> DEFINE todo == TokensToRevoke(rev)
           named == about(rev)
<1>3. named \subseteq todo /\ todo \subseteq Accessors
  BY SweepNamesAll DEF AccessInv, Types, issued
<1>4. DOMAIN requests = Requests /\ Fields(requests[q]) /\ RequestOK(requests[q]) /\ Requested
  BY DEF AccessInv, Served, ReqOK, RequestInv, Requested
<1> HIDE DEF todo, named
<1>5. requests' = [requests EXCEPT ![q] = [requests[q] EXCEPT !.pc = "sweep", !.todo = todo, !.named = named]]
  BY <1>2, <1>4 DEF todo, named
<1>6. /\ requests'[q].pc = "sweep" /\ requests'[q].todo = todo /\ requests'[q].named = named
      /\ requests'[q].sub = requests[q].sub /\ requests'[q].barred = requests[q].barred
      /\ requests'[q].given = requests[q].given
      /\ \A x \in Requests \ {q} : requests'[x] = requests[x]
  BY <1>4, <1>5 DEF Fields
<1>7. Barred(requests[q])'
  BY <1>1, <1>4, <1>6 DEF RequestOK, Barred, Unread
<1>8. GivenOK(requests[q])'
  BY <1>4, <1>6 DEF RequestOK, GivenOK
<1>9. RequestOK(requests[q])'
  BY <1>3, <1>4, <1>6, <1>7, <1>8 DEF RequestOK
<1> QED BY <1>2, <1>4, <1>6, <1>9, OneRequest

LEMMA ServeFine ==
    ASSUME AccessInv, RequestInv, NEW q \in Requests, Serve(q)
    PROVE  Requested'
<1> USE DEF tables
<1>0. Served /\ Requested
  BY DEF AccessInv, RequestInv
<1>1. CASE tokenSubject(q)
  BY <1>1, SubjectFine
<1>2. CASE clientACL(q)
  BY <1>2, PolicyRead
<1>3. CASE apiAction(q) \/ pageAction(q)
  BY <1>3, ActionFine
<1>4. CASE LogBackup(q) \/ SendBackup(q)
  BY <1>4, BackupFine
<1>5. CASE apiPutPolicy(q) \/ savePolicy(q) \/ apiDeletePolicy(q) \/ deletePolicy(q)
  BY <1>5, WriteFine
<1>6. CASE apiRevokeTokens(q) \/ revokeTokensForm(q)
  BY <1>6, ListFine
<1>7. CASE apiSaveBindingRule(q) \/ saveBindingRule(q)
  <2>1. requests[q].pc = "handle" /\ putBindingRule(q)
    BY <1>7 DEF apiSaveBindingRule, saveBindingRule, Guarded
  <2>2. PICK arg : requests' = [requests EXCEPT ![q].pc = "bind", ![q].arg = arg] /\ policies' = policies
    BY <2>1 DEF putBindingRule
  <2>3. Goes(q, "bind", arg)
    BY <2>2 DEF Goes
  <2> QED BY <2>1, <2>2, <2>3, AsideFine
<1>8. CASE apiCreateToken(q) \/ createTokenForm(q)
  <2>1. requests[q].pc = "handle" /\ createToken(q)
    BY <1>8 DEF apiCreateToken, createTokenForm, Guarded
  <2>2. PICK arg : requests' = [requests EXCEPT ![q].pc = "mint", ![q].arg = arg] /\ policies' = policies
    BY <2>1 DEF createToken
  <2>3. Goes(q, "mint", arg)
    BY <2>2 DEF Goes
  <2> QED BY <2>1, <2>2, <2>3, AsideFine
<1>9. ASSUME Done(q), policies' = policies PROVE Requested'
  BY <1>0, <1>9, RequestDone
<1>10. CASE Answer(q) \/ mintToken(q) \/ RevokeACLTokens(q) \/ apiRevokeSelf(q)
  BY <1>9, <1>10 DEF Answer, mintToken, RevokeACLTokens, apiRevokeSelf
<1>11. CASE PutBindingRule(q) \/ apiDeleteBindingRule(q) \/ deleteBindingRule(q)
  BY <1>9, <1>11 DEF PutBindingRule, apiDeleteBindingRule, deleteBindingRule, DeleteBindingRule
<1>12. CASE apiRevokeToken(q) \/ revokeTokenForm(q)
  BY <1>9, <1>12 DEF apiRevokeToken, revokeTokenForm, RevokeACLToken
<1> QED BY <1>1, <1>2, <1>3, <1>4, <1>5, <1>6, <1>7, <1>8, <1>10, <1>11, <1>12 DEF Serve

LEMMA RequestStep ==
    ASSUME AccessInv, RequestInv, [Next]_vars
    PROVE  RequestInv'
<1>1. ASSUME NEW q \in Requests, Serve(q) PROVE Requested'
  BY <1>1, ServeFine
<1>2. ASSUME NEW l \in Logins, LogIn(l) PROVE Requested'
  <2>1. UNCHANGED <<requests, policies>>
    BY <1>2 DEF LogIn, MakeSession, bindLogin, purgeTokens, createSession, tables
  <2> QED BY <2>1, RequestsSame DEF RequestInv
<1>3. ASSUME EndSession \/ Expire \/ UNCHANGED vars PROVE Requested'
  <2>1. UNCHANGED <<requests, policies>>
    BY <1>3 DEF EndSession, Expire, vars, tables
  <2> QED BY <2>1, RequestsSame DEF RequestInv
<1>4. ASSUME Restart PROVE Requested'
  <2>1. \A q \in Requests : requests'[q] = Idle
    BY <1>4 DEF Restart
  <2> QED BY <2>1, IdleFine DEF Requested
<1>5. Requested'
  BY <1>1, <1>2, <1>3, <1>4 DEF Next
<1> QED BY <1>5, PoliciesStep, BornStep, PeopleStep, SweptStep DEF RequestInv

LEMMA RequestBeginning ==
    ASSUME Init
    PROVE  RequestInv
<1>1. PICK s \in Starts : Begin(s)
  BY DEF Init
<1>2. PoliciesOK
  <2>1. policies = s.policies
    BY <1>1 DEF Begin
  <2> QED BY <2>1, PolicyAssumption DEF PoliciesOK, PolicyOK
<1>3. BornOK
  <2>1. born = s.born
    BY <1>1 DEF Begin
  <2> QED BY <2>1, PolicyAssumption DEF BornOK, issued
<1>4. PeopleOK /\ SweptOK
  BY <1>1 DEF Begin, PeopleOK, NoLogin, SweptOK
<1>5. Requested
  <2>1. AclOK(New({}))
    BY FS_EmptySet DEF AclOK, New
  <2>2. RequestOK(Idle)
    BY <2>1 DEF RequestOK, Barred, GivenOK, Idle, Nobody, New
  <2> QED BY <1>1, <2>2 DEF Begin, Requested
<1> QED BY <1>2, <1>3, <1>4, <1>5 DEF RequestInv

-----------------------------------------------------------------------------
(***************************************************************************)
(* What a check into something global lets through.                        *)
(***************************************************************************)
\* A request that reads a capability in what it has read has been given it.
LEMMA GivenLets ==
    ASSUME AccessInv, RequestInv, NEW q \in Requests, requests[q].pc = "handle",
           NEW c, Global(requests[q].sub.acl, c)
    PROVE  lets(q, c)
<1> DEFINE r == requests[q]
<1>1. Subject(r.sub) /\ GivenOK(r)
  BY DEF AccessInv, Served, ReqOK, RequestInv, Requested, RequestOK
<1>2. CASE r.sub.acl.management
  BY <1>1, <1>2 DEF Subject, TokenLets, lets, allPowerful, By
<1>3. CASE ~r.sub.acl.management
  <2>1. PICK p \in r.sub.acl.policies : c \in p.global
    BY <1>3 DEF Global
  <2>2. c \in r.given
    BY <1>1, <1>3, <2>1 DEF GivenOK, Gives
  <2> QED BY <1>1, <2>2 DEF Subject, TokenLets, lets, allPowerful, By
<1> QED BY <1>2, <1>3

\* Whoever takes a step of a request leaves the others where they are.
LEMMA ServeAlone ==
    ASSUME Served, NEW x \in Requests, Serve(x), NEW q \in Requests \ {x}
    PROVE  requests'[q].pc = requests[q].pc
<1>0. DOMAIN requests = Requests /\ Fields(requests[q])
  BY DEF Served, ReqOK
<1>1. CASE tokenSubject(x) \/ clientACL(x) \/ Answer(x)
  BY <1>0, <1>1 DEF tokenSubject, clientACL, Answer, Done
<1>2. CASE apiAction(x) \/ pageAction(x) \/ LogBackup(x) \/ SendBackup(x)
  BY <1>0, <1>2 DEF apiAction, pageAction, Act, LogBackup, SendBackup
<1>3. CASE apiPutPolicy(x) \/ savePolicy(x) \/ apiDeletePolicy(x) \/ deletePolicy(x)
  <2>1. PICK n, p : WritePolicy(x, n, p)
    BY <1>3, PolicyWrite
  <2>2. \E B, G : requests'[q] = [requests[q] EXCEPT !.barred = B, !.given = G]
    BY <2>1 DEF WritePolicy
  <2> QED BY <1>0, <2>2 DEF Fields
<1>4. CASE apiSaveBindingRule(x) \/ saveBindingRule(x) \/ PutBindingRule(x) \/ apiDeleteBindingRule(x) \/ deleteBindingRule(x)
  BY <1>0, <1>4 DEF apiSaveBindingRule, saveBindingRule, putBindingRule, PutBindingRule, apiDeleteBindingRule,
              deleteBindingRule, DeleteBindingRule, Done
<1>5. CASE apiCreateToken(x) \/ createTokenForm(x) \/ mintToken(x)
  BY <1>0, <1>5 DEF apiCreateToken, createTokenForm, createToken, mintToken, Done
<1>6. CASE apiRevokeToken(x) \/ revokeTokenForm(x) \/ apiRevokeSelf(x) \/ RevokeACLTokens(x)
  BY <1>0, <1>6 DEF apiRevokeToken, revokeTokenForm, RevokeACLToken, apiRevokeSelf, RevokeACLTokens, Done
<1>7. CASE apiRevokeTokens(x) \/ revokeTokensForm(x)
  BY <1>0, <1>7 DEF apiRevokeTokens, revokeTokensForm, revokeTokens
<1> QED BY <1>1, <1>2, <1>3, <1>4, <1>5, <1>6, <1>7 DEF Serve

\* The steps of a request at its handler that go to its action are the ones that check it.
LEMMA ServeLets ==
    ASSUME AccessInv, RequestInv, NEW q \in Requests, Serve(q), NEW c, takes(q, c)
    PROVE  lets(q, c)
<1>0. DOMAIN requests = Requests /\ Fields(requests[q]) /\ requests[q].pc = "handle"
  BY DEF AccessInv, Served, ReqOK, takes
<1>1. requests'[q].pc \in {"backup", "acted"}
  BY DEF takes
<1>2. requests'[q] # Idle /\ ~Done(q)
  <2>1. Idle.pc = "idle"
    BY DEF Idle
  <2> QED BY <1>0, <1>1, <2>1 DEF Done
<1>3. CASE apiAction(q) \/ pageAction(q)
  <2>0. PICK ns \in Namespaces : \E route : route.kind \in Engine /\ Guarded(q, route, ns) /\ Act(q, route, ns)
    BY <1>3 DEF apiAction, pageAction
  <2>1. PICK route : route.kind \in Engine /\ Guarded(q, route, ns) /\ Act(q, route, ns)
    BY <2>0
  <2> DEFINE arg == [cap |-> route.cap, ns |-> IF route.kind = "namespace" THEN ns ELSE None]
  <2>2. Goes(q, "acted", arg) /\ arg.cap = route.cap /\ (route.kind = "namespace" => arg.ns = ns)
    BY <2>1 DEF Act, Goes
  <2> HIDE DEF arg
  <2>3. requests'[q].pc = "acted" /\ requests'[q].arg = arg
    BY <2>2, GoesLeaves DEF AccessInv
  <2>4. arg = [cap |-> c, ns |-> None]
    BY <2>3 DEF takes
  <2>5. route.cap = c /\ route.kind # "namespace"
    BY <2>2, <2>4, PolicyAssumption
  <2>6. route.kind = "global"
    BY <2>1, <2>5 DEF Engine
  <2>7. Global(requests[q].sub.acl, c)
    BY <2>1, <2>5, <2>6 DEF Guarded, passes
  <2> QED BY <1>0, <2>7, GivenLets
<1>4. CASE LogBackup(q)
  <2>1. Guarded(q, Globally("backup"), None)
    BY <1>4 DEF LogBackup, apiEndpoints, pageRoutes
  <2>2. requests'[q].pc = "backup"
    BY <1>0, <1>4 DEF LogBackup, Fields
  <2>3. c = "backup"
    BY <2>2 DEF takes
  <2>4. Global(requests[q].sub.acl, "backup")
    BY <2>1 DEF Guarded, passes, Globally
  <2> QED BY <1>0, <2>3, <2>4, GivenLets
<1>5. CASE tokenSubject(q) \/ clientACL(q) \/ Answer(q) \/ SendBackup(q)
  BY <1>0, <1>2, <1>5 DEF tokenSubject, clientACL, Answer, SendBackup
<1>6. CASE apiPutPolicy(q) \/ savePolicy(q) \/ apiDeletePolicy(q) \/ deletePolicy(q)
  <2>1. PICK n, p : WritePolicy(q, n, p)
    BY <1>6, PolicyWrite
  <2> QED BY <1>2, <2>1 DEF WritePolicy
<1>7. CASE apiSaveBindingRule(q) \/ saveBindingRule(q) \/ apiCreateToken(q) \/ createTokenForm(q)
  <2>1. PICK pc, arg : pc \in {"bind", "mint"} /\ Goes(q, pc, arg)
    BY <1>7 DEF apiSaveBindingRule, saveBindingRule, putBindingRule, apiCreateToken, createTokenForm, createToken, Goes
  <2>2. requests'[q].pc = pc
    BY <2>1, GoesLeaves DEF AccessInv
  <2> QED BY <1>1, <2>1, <2>2
<1>8. CASE apiRevokeTokens(q) \/ revokeTokensForm(q)
  <2>1. PICK S, T : requests' = [requests EXCEPT ![q].pc = "sweep", ![q].todo = S, ![q].named = T]
    BY <1>8 DEF apiRevokeTokens, revokeTokensForm, revokeTokens
  <2>2. requests'[q] = [requests[q] EXCEPT !.pc = "sweep", !.todo = S, !.named = T]
    BY <1>0, <2>1
  <2>3. requests'[q].pc = "sweep"
    BY <1>0, <2>2 DEF Fields
  <2> QED BY <1>1, <2>3
<1>9. CASE PutBindingRule(q) \/ apiDeleteBindingRule(q) \/ deleteBindingRule(q) \/ mintToken(q)
  BY <1>2, <1>9 DEF PutBindingRule, apiDeleteBindingRule, deleteBindingRule, DeleteBindingRule, mintToken
<1>10. CASE apiRevokeToken(q) \/ revokeTokenForm(q) \/ apiRevokeSelf(q) \/ RevokeACLTokens(q)
  BY <1>2, <1>10 DEF apiRevokeToken, revokeTokenForm, RevokeACLToken, apiRevokeSelf, RevokeACLTokens
<1> QED BY <1>3, <1>4, <1>5, <1>6, <1>7, <1>8, <1>9, <1>10 DEF Serve

LEMMA StepLets ==
    ASSUME AccessInv, RequestInv, [Next]_vars, NEW q \in Requests, NEW c, takes(q, c)
    PROVE  lets(q, c)
<1>0. requests[q].pc = "handle" /\ requests'[q].pc \in {"backup", "acted"}
  BY DEF takes
<1>1. ASSUME NEW x \in Requests, Serve(x) PROVE lets(q, c)
  <2>1. x = q
    BY <1>0, <1>1, ServeAlone DEF AccessInv
  <2> QED BY <1>1, <2>1, ServeLets
<1>2. ASSUME NEW l \in Logins, LogIn(l) PROVE FALSE
  BY <1>0, <1>2 DEF LogIn, MakeSession, bindLogin, purgeTokens, createSession
<1>3. CASE EndSession \/ Expire \/ UNCHANGED vars
  BY <1>0, <1>3 DEF EndSession, Expire, vars
<1>4. CASE Restart
  <2>1. requests'[q].pc = "idle"
    BY <1>4 DEF Restart, Idle
  <2> QED BY <1>0, <2>1
<1> QED BY <1>1, <1>2, <1>3, <1>4 DEF Next

-----------------------------------------------------------------------------
(***************************************************************************)
(* The theorems.                                                           *)
(***************************************************************************)

\* The invariant holds: whatever writes the policies between two reads of a request, what
\* has denied it all along is still to be read or has been read.
THEOREM RequestInvariant == Spec => []RequestInv
<1>1. Init => RequestInv
  BY RequestBeginning
<1>2. AccessInv /\ RequestInv /\ [Next]_vars => RequestInv'
  BY RequestStep
<1> QED BY <1>1, <1>2, AccessInvariant, PTL DEF Spec

\* Every variable keeps the shape its column, field or cookie has (store/acl.go, web/access.go).
THEOREM AccessTypes == Spec => []AccessTypeOK
<1>1. AccessInv /\ RequestInv => AccessTypeOK
  <2> SUFFICES ASSUME AccessInv, RequestInv PROVE AccessTypeOK
    OBVIOUS
  <2>1. aclOn \in BOOLEAN /\ live \subseteq issued /\ expired \subseteq issued /\ swept \subseteq issued
    BY DEF AccessInv, Types, RequestInv, SweptOK
  <2>2. ASSUME NEW a \in issued
        PROVE  /\ born[a].type \in {"management", "client"} /\ born[a].origin \in {"login", "created"}
               /\ born[a].policies \subseteq Names /\ born[a].acl \in BOOLEAN
    <3>1. born[a] \in Tokens
      BY DEF AccessInv, Types, issued
    <3> QED BY <3>1 DEF Tokens
  <2>3. ASSUME NEW q \in Requests
        PROVE  /\ requests[q].sub.by \in Accessors \cup {Bootstrap, None}
               /\ requests[q].pc # "idle" => requests[q].sub.by # None
               /\ requests[q].sub.acl.management => requests[q].todo \subseteq Accessors
    <3>1. ReqOK(requests[q]) /\ RequestOK(requests[q])
      BY DEF AccessInv, Served, RequestInv, Requested
    <3>2. CASE requests[q].pc = "idle"
      BY <3>1, <3>2 DEF RequestOK
    <3>3. CASE requests[q].pc # "idle"
      <4>1. requests[q].sub.by \in Accessors \cup {Bootstrap}
        BY <3>1, <3>3 DEF ReqOK, Subject, TokenLets, issued
      <4>2. requests[q].sub.by # None
        BY <4>1, AccessAssumption
      <4> QED BY <3>1, <4>1, <4>2 DEF RequestOK
    <3> QED BY <3>2, <3>3
  <2> QED BY <2>1, <2>2, <2>3 DEF AccessTypeOK, RequestInv, BornOK, PeopleOK
<1> QED BY <1>1, AccessInvariant, RequestInvariant, PTL

\* A revocation in one action takes all it is about: its recursive query reaches every token
\* created in turn (store/acl.go TokensToRevoke), and none of them comes back.
THEOREM SweepTakesAll == Spec => []SweepComplete
<1>1. RequestInv => SweepComplete
  BY DEF RequestInv, SweptOK, SweepComplete
<1> QED BY <1>1, RequestInvariant, PTL

\* What one policy has denied by its name, from before the request was let in until it acts,
\* is never acted on (web/access.go clientACL, acl.go Allow).
THEOREM DeniesHold == Spec => []DenyHolds
<1>1. RequestInv => DenyHolds
  BY DEF RequestInv, Requested, RequestOK, Barred, DenyHolds
<1> QED BY <1>1, RequestInvariant, PTL

\* A list shows what a check lets through (acl.go Scope, store/list.go).
THEOREM ScopesAgree == Spec => []ScopeAgrees
<1>1. RequestInv => ScopeAgrees
  <2> SUFFICES ASSUME RequestInv, NEW q \in Requests, NEW ns \in Namespaces, NEW c \in namespaceCapabilities
      PROVE  ScopeMatch(Scope(requests[q].sub.acl, c), ns) <=> Allow(requests[q].sub.acl, ns, c)
    BY DEF ScopeAgrees
  <2>1. AclOK(requests[q].sub.acl)
    BY DEF RequestInv, Requested, RequestOK
  <2> QED BY <2>1, ScopeIsAllow
<1> QED BY <1>1, RequestInvariant, PTL

\* Every entry of acl_changes was written by someone who could do what it records, and a
\* client token takes a backup, a fetch or a pause of everything only if a policy it carries
\* has given that since its request was let in (the checks of the routes in server.go and
\* api.go, web/access.go clientACL, acl.go Global).
THEOREM LogAuthorized == Spec => ChangesAuthorized
<1>1. AccessInv /\ RequestInv /\ [Next]_vars =>
          [ /\ \A e \in log' \ log : entitled(e)
            /\ \A q \in Requests, c \in globalCapabilities : takes(q, c) => lets(q, c) ]_vars
  BY StepKeeps, StepLets DEF Authorized
<1> QED BY <1>1, AccessInvariant, RequestInvariant, PTL DEF Spec, ChangesAuthorized

\* It holds with every way to log in around it.
THEOREM LogAuthorizedThrough == LoginSpec => ChangesAuthorized
BY LoginIsAccess, LogAuthorized

\* The four hold with every way to log in around them, which is what the runs check.
THEOREM AccessThrough == LoginSpec => [](AccessTypeOK /\ SweepComplete /\ DenyHolds /\ ScopeAgrees)
BY AccessTypes, SweepTakesAll, DeniesHold, ScopesAgree, LoginIsAccess, PTL

=============================================================================
