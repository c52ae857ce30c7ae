--------------------------- MODULE AccessProofs ---------------------------
(***************************************************************************)
(* Proofs about access control, for every set of tokens, policies, rules   *)
(* and requests and every budget.                                          *)
(***************************************************************************)
EXTENDS Access, FiniteSetTheorems, TLAPS

-----------------------------------------------------------------------------
(***************************************************************************)
(* The inductive invariant.                                                *)
(***************************************************************************)
\* Who a login is of, and what they are granted.
LoginOK(r) ==
    /\ DOMAIN r = {"pc", "who", "method", "granted", "token"}
    /\ r.who \in People \cup {None}
    /\ r.granted.management \in BOOLEAN /\ r.granted.policies \subseteq Names

LoginsOK == DOMAIN logins = Logins /\ \A l \in Logins : LoginOK(logins[l])

Types ==
    /\ aclOn \in BOOLEAN
    /\ rules \in [RuleIDs -> RuleInputs \cup {None}]
    /\ born \in [Accessors -> Tokens \cup {None}]
    /\ live \subseteq issued /\ expired \subseteq issued
    /\ LoginsOK

\* The fields a request has.
Fields(r) ==
    /\ DOMAIN r = {"pc", "sub", "todo", "arg", "barred", "given", "named"}
    /\ DOMAIN r.sub = {"by", "acl", "carried"}
    /\ DOMAIN r.sub.acl = {"management", "policies"}

\* What a subject may do is what the token it was made of lets it, in this mode.
TokenLets(sub) ==
    /\ sub.by \in issued
    /\ born[sub.by].acl = aclOn
    /\ aclOn /\ sub.acl.management => born[sub.by].type = "management"

Subject(sub) == (sub.by = Bootstrap /\ aclOn) \/ TokenLets(sub)

\* What a request that has passed a check goes on with.
Pending(r) ==
    /\ r.pc = "policies" => r.sub.by \in issued /\ r.todo \subseteq born[r.sub.by].policies
    /\ r.pc \in {"bind", "mint", "sweep"} => r.sub.acl.management
    /\ r.pc = "bind" => r.arg.rule \in RuleInputs
    /\ r.pc = "mint" => r.arg \in TokenInputs
    /\ r.pc = "sweep" => r.todo \subseteq issued

ReqOK(r) == Fields(r) /\ Pending(r) /\ (r.pc # "idle" => Subject(r.sub))

Served == DOMAIN requests = Requests /\ \A q \in Requests : ReqOK(requests[q])

\* The log as the store keeps it: one creation of each token, its revocations.
Logged ==
    \A a \in Accessors :
        /\ a \in issued => \E by : created(a) = {Entry(by, "create", "token", a)}
        /\ a \notin issued => created(a) \cup revoked(a) = {}
        /\ a \in live => revoked(a) = {}
        /\ a \in issued \ live => revoked(a) # {} \/ a \in expired

AccessInv == Types /\ Served /\ Logged


\* What a step adds to the log was done by someone who could.
Authorized == \A e \in log' \ log : entitled(e)

\* Tokens keep their columns, and the process its mode.
Steady == UNCHANGED aclOn /\ \A a \in issued : a \in issued' /\ born'[a] = born[a]

-----------------------------------------------------------------------------
(***************************************************************************)
(* What a step does to the log and to the tokens.                          *)
(***************************************************************************)

\* Nothing.
LEMMA LogSame ==
    ASSUME Logged, UNCHANGED <<tokens, log>>
    PROVE  Logged' /\ Authorized
BY DEF Logged, Authorized, tokens, issued, created, revoked

\* An entry about something else.
LEMMA LogOther ==
    ASSUME Logged, UNCHANGED tokens, NEW e, insertChange(e), e.kind # "token", e.action # "revoke"
    PROVE  Logged'
BY DEF Logged, tokens, issued, created, revoked, insertChange

\* A token, with the entry of its creation.
LEMMA LogCreate ==
    ASSUME Types, Logged, NEW a \in Accessors, NEW t \in Tokens, NEW by, CreateACLToken(a, t, by)
    PROVE  /\ Logged'
           /\ born' \in [Accessors -> Tokens \cup {None}]
           /\ live' \subseteq issued' /\ expired' \subseteq issued'
           /\ a \in issued' /\ born'[a] = t
           /\ \A b \in issued : b \in issued' /\ born'[b] = born[b]
           /\ log' = log \cup {Entry(by, "create", "token", a)}
<1> DEFINE e == Entry(by, "create", "token", a)
<1>1. /\ a \notin issued /\ born' = [born EXCEPT ![a] = t] /\ live' = live \cup {a}
      /\ log' = log \cup {e} /\ expired' = expired
  BY DEF CreateACLToken, insertChange
<1>2. t # None
  BY AccessAssumption
<1>3. born' \in [Accessors -> Tokens \cup {None}] /\ born'[a] = t /\ \A b \in Accessors \ {a} : born'[b] = born[b]
  BY <1>1 DEF Types
<1>4. issued' = issued \cup {a}
  BY <1>2, <1>3 DEF issued
<1>5. live' \subseteq issued' /\ expired' \subseteq issued'
  BY <1>1, <1>4 DEF Types
<1>6. \A b \in issued : b \in issued' /\ born'[b] = born[b]
  BY <1>1, <1>3, <1>4 DEF issued
<1>7. \A b \in Accessors : revoked(b)' = revoked(b)
  BY <1>1 DEF revoked, Entry
<1>8. \A b \in Accessors \ {a} : created(b)' = created(b)
  BY <1>1 DEF created, Entry
<1>9. created(a)' = {e}
  <2>1. created(a) = {}
    BY <1>1 DEF Logged
  <2>2. e.action = "create" /\ e.kind = "token" /\ e.object = a
    BY DEF Entry
  <2> QED BY <1>1, <2>1, <2>2 DEF created
<1>10. Logged'
  <2> SUFFICES ASSUME NEW b \in Accessors
      PROVE  /\ b \in issued' => \E x : created(b)' = {Entry(x, "create", "token", b)}
             /\ b \notin issued' => created(b)' \cup revoked(b)' = {}
             /\ b \in live' => revoked(b)' = {}
             /\ b \in issued' \ live' => revoked(b)' # {} \/ b \in expired'
    BY DEF Logged
  <2>1. CASE b = a
    <3>1. revoked(a) = {}
      BY <1>1 DEF Logged
    <3> QED BY <2>1, <3>1, <1>1, <1>4, <1>7, <1>9
  <2>2. CASE b # a
    BY <2>2, <1>1, <1>4, <1>7, <1>8 DEF Logged
  <2> QED BY <2>1, <2>2
<1> QED BY <1>1, <1>3, <1>4, <1>5, <1>6, <1>10

\* Rows go, with an entry for each.
LEMMA LogRevoke ==
    ASSUME Types, Logged, NEW S, S \subseteq issued, NEW by, Revoke(S, by)
    PROVE  /\ Logged'
           /\ log' = log \cup {Entry(by, "revoke", "token", a) : a \in S}
           /\ born' = born /\ expired' = expired /\ live' \subseteq live /\ issued' = issued
<1> DEFINE E == {Entry(by, "revoke", "token", a) : a \in S}
<1>1. live' = live \ S /\ log' = log \cup E /\ born' = born /\ expired' = expired
  BY DEF Revoke
<1>2. issued' = issued
  BY <1>1 DEF issued
<1>3. \A e \in E : e.action = "revoke" /\ e.object \in S
  BY DEF Entry
<1>4. \A b \in Accessors : created(b)' = created(b)
  BY <1>1, <1>3 DEF created
<1>5. \A b \in Accessors \ S : revoked(b)' = revoked(b)
  BY <1>1, <1>3 DEF revoked
<1>6. \A b \in S : revoked(b)' # {}
  <2> SUFFICES ASSUME NEW b \in S PROVE revoked(b)' # {} OBVIOUS
  <2>1. Entry(by, "revoke", "token", b) \in log'
    BY <1>1
  <2>2. Entry(by, "revoke", "token", b) \in revoked(b)'
    BY <2>1 DEF revoked, Entry
  <2> QED BY <2>2
<1>7. \A b \in Accessors : revoked(b) \subseteq revoked(b)'
  BY <1>1 DEF revoked
<1>8. Logged'
  <2> SUFFICES ASSUME NEW b \in Accessors
      PROVE  /\ b \in issued' => \E x : created(b)' = {Entry(x, "create", "token", b)}
             /\ b \notin issued' => created(b)' \cup revoked(b)' = {}
             /\ b \in live' => revoked(b)' = {}
             /\ b \in issued' \ live' => revoked(b)' # {} \/ b \in expired'
    BY DEF Logged
  <2> QED BY <1>1, <1>2, <1>4, <1>5, <1>6, <1>7 DEF Logged
<1> QED BY <1>1, <1>2, <1>8

\* Rows that have expired go without one.
LEMMA LogPurge ==
    ASSUME Types, Logged, NEW S, DeleteExpiredTokens(S)
    PROVE  /\ Logged' /\ log' = log
           /\ born' = born /\ expired' = expired /\ live' \subseteq live /\ issued' = issued
<1>1. live' = live \ S /\ S \subseteq live \cap expired /\ UNCHANGED <<born, expired, log>>
  BY DEF DeleteExpiredTokens
<1>2. issued' = issued /\ \A b \in Accessors : created(b)' = created(b) /\ revoked(b)' = revoked(b)
  BY <1>1 DEF issued, created, revoked
<1>3. Logged'
  BY <1>1, <1>2 DEF Logged
<1> QED BY <1>1, <1>2, <1>3

-----------------------------------------------------------------------------
(***************************************************************************)
(* What a step does to the requests.                                       *)
(***************************************************************************)

\* Two records of one request, which differ in what the properties remember only.
Alike(r, s) ==
    DOMAIN s = DOMAIN r /\ s.pc = r.pc /\ s.sub = r.sub /\ s.todo = r.todo /\ s.arg = r.arg

Moves(q) ==
    /\ DOMAIN requests' = Requests
    /\ \A x \in Requests \ {q} : Alike(requests[x], requests'[x])

LEMMA OthersKeep ==
    ASSUME Served, Steady, NEW x \in Requests, Alike(requests[x], requests'[x])
    PROVE  ReqOK(requests[x])'
<1>1. ReqOK(requests[x])
  BY DEF Served
<1>2. Fields(requests[x])'
  BY <1>1 DEF ReqOK, Fields, Alike
<1>3. Pending(requests[x])'
  BY <1>1 DEF ReqOK, Pending, Alike, Steady
<1>4. (requests[x].pc # "idle" => Subject(requests[x].sub))'
  BY <1>1 DEF ReqOK, Subject, TokenLets, Alike, Steady
<1> QED BY <1>2, <1>3, <1>4 DEF ReqOK

LEMMA ServedStep ==
    ASSUME Served, Steady, NEW q \in Requests, Moves(q), ReqOK(requests[q])'
    PROVE  Served'
<1>1. \A x \in Requests \ {q} : ReqOK(requests[x])'
  BY OthersKeep DEF Moves
<1> QED BY <1>1 DEF Served, Moves

LEMMA IdleOK ==
    ASSUME NEW q \in Requests, requests'[q] = Idle
    PROVE  ReqOK(requests[q])'
BY DEF ReqOK, Fields, Pending, Idle, Nobody, New

LEMMA ServedSame ==
    ASSUME Served, Steady, UNCHANGED requests
    PROVE  Served'
<1>1. \A x \in Requests : ReqOK(requests[x])'
  BY OthersKeep DEF Alike
<1> QED BY <1>1 DEF Served

\* A request that has been answered.
LEMMA DoneKeeps ==
    ASSUME Served, Steady, NEW q \in Requests, Done(q)
    PROVE  Served'
<1>1. DOMAIN requests' = Requests /\ requests'[q] = Idle /\ \A x \in Requests \ {q} : requests'[x] = requests[x]
  BY DEF Done, Served
<1>2. Moves(q)
  BY <1>1 DEF Moves, Alike
<1> QED BY <1>1, <1>2, IdleOK, ServedStep

\* A request that goes on, with the subject it has.
Onward(q) ==
    /\ DOMAIN requests' = Requests /\ \A x \in Requests \ {q} : requests'[x] = requests[x]
    /\ DOMAIN requests'[q] = DOMAIN requests[q] /\ requests'[q].sub = requests[q].sub

LEMMA OnwardKeeps ==
    ASSUME Served, Steady, NEW q \in Requests, requests[q].pc # "idle", Onward(q), Pending(requests[q])'
    PROVE  Served'
<1>1. Moves(q)
  BY DEF Onward, Moves, Alike
<1>2. Fields(requests[q]) /\ Subject(requests[q].sub)
  BY DEF Served, ReqOK
<1>3. Fields(requests'[q])
  BY <1>2 DEF Fields, Onward
<1>4. Subject(requests[q].sub)'
  BY <1>2 DEF Subject, TokenLets, Steady, Onward
<1>5. ReqOK(requests[q])'
  BY <1>3, <1>4 DEF ReqOK, Fields, Pending
<1> QED BY <1>1, <1>5, ServedStep

-----------------------------------------------------------------------------
(***************************************************************************)
(* The steps of a request.                                                 *)
(***************************************************************************)

\* What a step leaves alone when it only moves its request.
Still == UNCHANGED <<aclOn, tables, tokens, log, logins>>

LEMMA StillKeeps ==
    ASSUME Types, Logged, Still
    PROVE  Types' /\ Logged' /\ Steady /\ Authorized
<1>1. Steady
  BY DEF Still, Steady, tokens, issued
<1>2. Types'
  BY DEF Still, Types, LoginsOK, LoginOK, tables, tokens, issued
<1>3. Logged' /\ Authorized
  BY LogSame DEF Still
<1> QED BY <1>1, <1>2, <1>3

\* The record of a request that is let in: it can do everything, or its policies are to be read.
LetIn(r, a, all) ==
    /\ a \in Accessors /\ ACLTokenBySecret(a) /\ all = (~aclOn \/ born[a].type = "management")
    /\ DOMAIN r = DOMAIN Idle
    /\ r.pc = IF all THEN "handle" ELSE "policies"
    /\ r.sub = [by |-> a, acl |-> IF all THEN Management ELSE New({}), carried |-> born[a].policies]
    /\ r.todo = IF all THEN {} ELSE born[a].policies
    /\ r.barred = IF all THEN {} ELSE denied(born[a].policies)
    /\ r.given = IF all THEN {} ELSE given(born[a].policies)

LetInBootstrap(r) ==
    /\ aclOn /\ DOMAIN r = DOMAIN Idle /\ r.pc = "handle"
    /\ r.sub = [by |-> Bootstrap, acl |-> Management, carried |-> {}]
    /\ r.todo = {} /\ r.barred = {} /\ r.given = {}

LEMMA SubjectIs ==
    ASSUME NEW q \in Requests, tokenSubject(q)
    PROVE  \E r : /\ requests' = [requests EXCEPT ![q] = r]
                  /\ LetInBootstrap(r) \/ \E a \in Accessors, all \in BOOLEAN : LetIn(r, a, all)
<1>1. CASE aclOn /\ requests' = [requests EXCEPT ![q] = [Idle EXCEPT
                 !.pc = "handle", !.sub = [by |-> Bootstrap, acl |-> Management, carried |-> {}]]]
  <2> DEFINE r == [Idle EXCEPT !.pc = "handle", !.sub = [by |-> Bootstrap, acl |-> Management, carried |-> {}]]
  <2>1. LetInBootstrap(r)
    BY <1>1 DEF LetInBootstrap, Idle
  <2>2. requests' = [requests EXCEPT ![q] = r]
    BY <1>1
  <2> HIDE DEF r
  <2> QED BY <2>1, <2>2
<1>2. CASE ~(aclOn /\ requests' = [requests EXCEPT ![q] = [Idle EXCEPT
                 !.pc = "handle", !.sub = [by |-> Bootstrap, acl |-> Management, carried |-> {}]]])
  <2> DEFINE all(a) == ~aclOn \/ born[a].type = "management"
             r(a) == [Idle EXCEPT
                 !.pc = IF all(a) THEN "handle" ELSE "policies",
                 !.sub = [by |-> a, acl |-> IF all(a) THEN Management ELSE New({}), carried |-> born[a].policies],
                 !.todo = IF all(a) THEN {} ELSE born[a].policies,
                 !.barred = IF all(a) THEN {} ELSE denied(born[a].policies),
                 !.given = IF all(a) THEN {} ELSE given(born[a].policies)]
  <2>1. PICK a \in Accessors : ACLTokenBySecret(a) /\ requests' = [requests EXCEPT ![q] = r(a)]
    BY <1>2 DEF tokenSubject
  <2>2. LetIn(r(a), a, all(a))
    BY <2>1 DEF LetIn, Idle
  <2>3. all(a) \in BOOLEAN
    OBVIOUS
  <2> HIDE DEF all, r
  <2> QED BY <2>1, <2>2, <2>3
<1> QED BY <1>1, <1>2

LEMMA SubjectKeeps ==
    ASSUME AccessInv, NEW q \in Requests, tokenSubject(q)
    PROVE  AccessInv' /\ Authorized
<1> USE DEF AccessInv
<1>1. Types' /\ Logged' /\ Steady /\ Authorized
  BY StillKeeps DEF tokenSubject, Still
<1>2. PICK r : /\ requests' = [requests EXCEPT ![q] = r]
               /\ LetInBootstrap(r) \/ \E a \in Accessors, all \in BOOLEAN : LetIn(r, a, all)
  BY SubjectIs
<1>3. Moves(q) /\ requests'[q] = r
  BY <1>2 DEF Moves, Alike, Served
<1>4. CASE LetInBootstrap(r)
  <2>1. Fields(r) /\ Pending(requests[q])' /\ r.sub.by = Bootstrap /\ aclOn'
    BY <1>1, <1>3, <1>4 DEF LetInBootstrap, Fields, Pending, Idle, Management, Steady
  <2>2. Subject(requests[q].sub)'
    BY <1>3, <2>1 DEF Subject
  <2> QED BY <1>1, <1>3, <2>1, <2>2, ServedStep DEF ReqOK, Fields
<1>5. ASSUME NEW a \in Accessors, NEW all \in BOOLEAN, LetIn(r, a, all)
      PROVE  Served'
  <2>1. a \in issued /\ born[a].acl = aclOn
    BY <1>5 DEF LetIn, ACLTokenBySecret, Types
  <2>2. r.sub.by = a /\ r.sub.acl = (IF all THEN Management ELSE New({}))
    BY <1>5 DEF LetIn
  <2>3. Fields(r)
    BY <1>5 DEF LetIn, Fields, Idle, Management, New
  <2>4. Pending(requests[q])'
    BY <1>1, <1>3, <1>5, <2>1, <2>2 DEF LetIn, Pending, Steady
  <2>5. r.sub.acl.management => all
    BY <2>2 DEF Management, New
  <2>6. a \in issued' /\ born'[a].acl = aclOn' /\ (aclOn' /\ all => born'[a].type = "management")
    BY <1>1, <1>5, <2>1 DEF LetIn, Steady
  <2>7. Subject(requests[q].sub)'
    BY <1>3, <2>2, <2>5, <2>6 DEF Subject, TokenLets
  <2> QED BY <1>1, <1>3, <2>3, <2>4, <2>7, ServedStep DEF ReqOK, Fields
<1> QED BY <1>1, <1>2, <1>4, <1>5

LEMMA PoliciesKeep ==
    ASSUME AccessInv, NEW q \in Requests, clientACL(q)
    PROVE  AccessInv' /\ Authorized
<1> USE DEF AccessInv
<1>1. Types' /\ Logged' /\ Steady /\ Authorized
  BY StillKeeps DEF clientACL, Still
<1>2. requests[q].pc = "policies" /\ ReqOK(requests[q])
  BY DEF clientACL, Served
<1>3. CASE requests' = [requests EXCEPT ![q].pc = "handle"]
  <2>1. ReqOK(requests[q])'
    BY <1>1, <1>2, <1>3 DEF ReqOK, Fields, Pending, Subject, TokenLets, Steady, Served
  <2>2. Moves(q)
    BY <1>3 DEF Moves, Alike, Served
  <2> QED BY <1>1, <2>1, <2>2, ServedStep
<1>4. ASSUME NEW n \in requests[q].todo,
             requests' = [requests EXCEPT
                       ![q].todo = @ \ {n},
                       ![q].sub.acl = IF policies[n] \in {None, Garbled} THEN @
                                      ELSE New(@.policies \cup {policies[n]})]
      PROVE  Served'
  <2> DEFINE r == requests[q]
             s == requests'[q]
             acl == IF policies[n] \in {None, Garbled} THEN r.sub.acl ELSE New(r.sub.acl.policies \cup {policies[n]})
  <2>1. Fields(r) /\ Pending(r) /\ Subject(r.sub)
    BY <1>2 DEF ReqOK
  <2>2. /\ DOMAIN s = DOMAIN r /\ s.pc = r.pc /\ s.todo = r.todo \ {n} /\ s.arg = r.arg
        /\ s.sub = [r.sub EXCEPT !.acl = acl]
    BY <1>4, <2>1 DEF Served, Fields
  <2>3. DOMAIN s.sub = DOMAIN r.sub /\ s.sub.by = r.sub.by /\ s.sub.acl = acl
    BY <2>1, <2>2 DEF Fields
  <2>4. DOMAIN acl = {"management", "policies"} /\ (acl.management => r.sub.acl.management)
    BY <2>1 DEF Fields, New
  <2>5. Fields(s)
    BY <2>1, <2>2, <2>3, <2>4 DEF Fields
  <2>6. n \in born[r.sub.by].policies
    BY <1>2, <2>1 DEF Pending
  <2>7. Pending(requests[q])'
    BY <1>1, <1>2, <2>1, <2>2, <2>3 DEF Pending, Steady
  <2>8. Subject(requests[q].sub)'
    BY <1>1, <2>1, <2>3, <2>4, <2>6 DEF Subject, TokenLets, Steady
  <2>9. Moves(q)
    BY <1>4 DEF Moves, Alike, Served
  <2> QED BY <1>1, <2>5, <2>7, <2>8, <2>9, ServedStep DEF ReqOK, Fields
<1>5. Served'
  BY <1>3, <1>4 DEF clientACL
<1> QED BY <1>1, <1>5

\* A check lets through who may do what follows.
LEMMA OnlyManagementPasses ==
    ASSUME NEW q \in Requests, Guarded(q, OnlyManagement, None)
    PROVE  requests[q].pc = "handle" /\ requests[q].sub.acl.management
BY DEF Guarded, OnlyManagement, passes

LEMMA ManagerEntitled ==
    ASSUME Served, NEW q \in Requests, requests[q].pc # "idle", requests[q].sub.acl.management,
           NEW action, NEW kind, NEW object
    PROVE  entitled(Entry(By(q), action, kind, object))
<1>1. Subject(requests[q].sub)
  BY DEF Served, ReqOK
<1>2. allPowerful(By(q))
  BY <1>1 DEF Subject, TokenLets, allPowerful, By
<1> QED BY <1>2 DEF entitled, Entry

\* ------------------------------------------------- answers and the engine

LEMMA AnswerKeeps ==
    ASSUME AccessInv, NEW q \in Requests, Answer(q)
    PROVE  AccessInv' /\ Authorized
<1>1. Types' /\ Logged' /\ Steady /\ Authorized
  BY StillKeeps DEF AccessInv, Answer, Still
<1>2. Served'
  BY <1>1, DoneKeeps DEF AccessInv, Answer
<1> QED BY <1>1, <1>2 DEF AccessInv

\* A step that only says where its request goes on.
Goes(q, pc, arg) == requests' = [requests EXCEPT ![q].pc = pc, ![q].arg = arg]

LEMMA GoesOn ==
    ASSUME AccessInv, Still, NEW q \in Requests, requests[q].pc # "idle",
           NEW pc, pc \notin {"idle", "policies", "sweep"}, NEW arg, Goes(q, pc, arg),
           pc \in {"bind", "mint"} => requests[q].sub.acl.management,
           pc = "bind" => arg.rule \in RuleInputs,
           pc = "mint" => arg \in TokenInputs
    PROVE  AccessInv' /\ Authorized
<1>1. Types' /\ Logged' /\ Steady /\ Authorized
  BY StillKeeps DEF AccessInv
<1>2. DOMAIN requests = Requests /\ Fields(requests[q])
  BY DEF AccessInv, Served, ReqOK
<1>3. /\ DOMAIN requests' = Requests /\ \A x \in Requests \ {q} : requests'[x] = requests[x]
      /\ requests'[q] = [requests[q] EXCEPT !.pc = pc, !.arg = arg]
  BY <1>2 DEF Goes
<1>4. /\ DOMAIN requests'[q] = DOMAIN requests[q] /\ requests'[q].sub = requests[q].sub
      /\ requests'[q].pc = pc /\ requests'[q].arg = arg
  BY <1>2, <1>3 DEF Fields
<1>5. Onward(q)
  BY <1>3, <1>4 DEF Onward
<1>6. Pending(requests[q])'
  BY <1>4 DEF Pending
<1>7. Served'
  BY <1>1, <1>5, <1>6, OnwardKeeps DEF AccessInv
<1> QED BY <1>1, <1>7 DEF AccessInv

LEMMA ActionsKeep ==
    ASSUME AccessInv, NEW q \in Requests, apiAction(q) \/ pageAction(q)
    PROVE  AccessInv' /\ Authorized
<1>1. PICK check, ns : Guarded(q, check, ns) /\ Act(q, check, ns)
  BY DEF apiAction, pageAction
<1>2. requests[q].pc # "idle" /\ Still
  BY <1>1 DEF Guarded, Act, Still
<1> DEFINE arg == [cap |-> check.cap, ns |-> IF check.kind = "namespace" THEN ns ELSE None]
<1>3. Goes(q, "acted", arg)
  BY <1>1 DEF Act, Goes
<1> HIDE DEF arg
<1> QED BY <1>2, <1>3, GoesOn

LEMMA LogBackupKeeps ==
    ASSUME AccessInv, NEW q \in Requests, LogBackup(q)
    PROVE  AccessInv' /\ Authorized
<1> DEFINE e == Entry(By(q), "backup", "database", None)
<1>1. /\ requests[q].pc = "handle" /\ Global(requests[q].sub.acl, "backup")
      /\ log' = log \cup {e}
      /\ requests' = [requests EXCEPT ![q].pc = "backup"]
      /\ UNCHANGED <<aclOn, tables, tokens, logins>>
  <2>1. apiEndpoints.apiBackup = Globally("backup") /\ pageRoutes.backupDownload = Globally("backup")
    BY DEF apiEndpoints, pageRoutes
  <2>2. Guarded(q, Globally("backup"), None)
    BY <2>1 DEF LogBackup
  <2>3. requests[q].pc = "handle" /\ passes(requests[q].sub.acl, Globally("backup"), None)
    BY <2>2 DEF Guarded
  <2>4. Global(requests[q].sub.acl, "backup")
    BY <2>3 DEF passes, Globally
  <2> QED BY <2>3, <2>4 DEF LogBackup, insertChange
<1>2. Steady
  BY <1>1 DEF Steady, tokens, issued
<1>3. Types'
  BY <1>1 DEF AccessInv, Types, LoginsOK, LoginOK, tables, tokens, issued
<1>4. e.kind # "token" /\ e.action # "revoke"
  BY DEF Entry
<1>5. Logged'
  BY <1>1, <1>4, LogOther DEF AccessInv, insertChange
<1>6. Fields(requests[q]) /\ Subject(requests[q].sub) /\ DOMAIN requests = Requests
  BY <1>1 DEF AccessInv, Served, ReqOK
<1>7. /\ DOMAIN requests' = Requests /\ \A x \in Requests \ {q} : requests'[x] = requests[x]
      /\ requests'[q] = [requests[q] EXCEPT !.pc = "backup"]
  BY <1>1, <1>6
<1>8. Authorized
  <2>1. requests'[q].pc = "backup"
    BY <1>6, <1>7 DEF Fields
  <2>2. e.by = By(q) /\ e.action = "backup"
    BY DEF Entry
  <2>3. entitled(e)
    BY <1>1, <2>1, <2>2 DEF entitled, takes
  <2> QED BY <1>1, <2>3 DEF Authorized
<1>9. Onward(q) /\ requests'[q].pc = "backup"
  BY <1>6, <1>7 DEF Onward, Fields
<1>10. Pending(requests[q])'
  BY <1>9 DEF Pending
<1>11. Served'
  BY <1>1, <1>2, <1>9, <1>10, OnwardKeeps DEF AccessInv
<1> QED BY <1>3, <1>5, <1>8, <1>11 DEF AccessInv

LEMMA SendBackupKeeps ==
    ASSUME AccessInv, NEW q \in Requests, SendBackup(q)
    PROVE  AccessInv' /\ Authorized
<1>1. requests[q].pc # "idle" /\ Still
  BY DEF SendBackup, Still
<1> DEFINE arg == [cap |-> "backup", ns |-> None]
<1>2. Goes(q, "acted", arg)
  BY DEF SendBackup, Goes
<1> HIDE DEF arg
<1> QED BY <1>1, <1>2, GoesOn

-----------------------------------------------------------------------------
(***************************************************************************)
(* What a management token writes.                                         *)
(***************************************************************************)

\* The routes that write the tables take management only.
LEMMA Managed ==
    /\ apiEndpoints.apiPutPolicy = OnlyManagement /\ apiEndpoints.apiDeletePolicy = OnlyManagement
    /\ apiEndpoints.apiSaveBindingRule = OnlyManagement /\ apiEndpoints.apiDeleteBindingRule = OnlyManagement
    /\ apiEndpoints.apiCreateToken = OnlyManagement /\ apiEndpoints.apiRevokeToken = OnlyManagement
    /\ apiEndpoints.apiRevokeTokens = OnlyManagement
    /\ pageRoutes.savePolicy = OnlyManagement /\ pageRoutes.deletePolicy = OnlyManagement
    /\ pageRoutes.saveBindingRule = OnlyManagement /\ pageRoutes.deleteBindingRule = OnlyManagement
    /\ pageRoutes.createTokenForm = OnlyManagement /\ pageRoutes.revokeTokenForm = OnlyManagement
    /\ pageRoutes.revokeTokensForm = OnlyManagement
BY DEF apiEndpoints, pageRoutes

Manages(q) == requests[q].pc # "idle" /\ requests[q].sub.acl.management

\* One entry, about something that is no token.
LEMMA ManagerAdds ==
    ASSUME AccessInv, NEW q \in Requests, Manages(q),
           NEW action, action # "revoke", NEW kind, kind # "token", NEW object,
           insertChange(Entry(By(q), action, kind, object)), UNCHANGED tokens
    PROVE  Logged' /\ Authorized
<1> DEFINE e == Entry(By(q), action, kind, object)
<1>1. insertChange(e) /\ e.kind # "token" /\ e.action # "revoke"
  BY DEF Entry
<1>2. entitled(e)
  BY ManagerEntitled DEF AccessInv, Manages
<1> HIDE DEF e
<1>3. Logged'
  BY <1>1, LogOther DEF AccessInv
<1>4. Authorized
  BY <1>1, <1>2 DEF Authorized, insertChange
<1> QED BY <1>3, <1>4

LEMMA WritePolicyServed ==
    ASSUME Served, Steady, NEW q \in Requests, NEW n, NEW p, WritePolicy(q, n, p)
    PROVE  Served'
<1>1. DOMAIN requests' = Requests /\ requests'[q] = Idle
  BY DEF WritePolicy
<1>2. ASSUME NEW x \in Requests \ {q} PROVE Alike(requests[x], requests'[x])
  <2>1. \E B, G : requests'[x] = [requests[x] EXCEPT !.barred = B, !.given = G]
    BY <1>2 DEF WritePolicy
  <2>2. Fields(requests[x])
    BY <1>2 DEF Served, ReqOK
  <2> QED BY <2>1, <2>2 DEF Alike, Fields
<1>3. Moves(q)
  BY <1>1, <1>2 DEF Moves
<1> QED BY <1>1, <1>3, IdleOK, ServedStep

LEMMA PolicyWritten ==
    ASSUME AccessInv, NEW q \in Requests, Manages(q), putPolicy(q) \/ DeleteACLPolicy(q)
    PROVE  AccessInv' /\ Authorized
<1>1. PICK action, n, p : /\ action \in {"create", "update", "delete"}
                          /\ WritePolicy(q, n, p)
                          /\ insertChange(Entry(By(q), action, "acl-policy", n))
                          /\ UNCHANGED <<aclOn, rules, tokens, logins>>
  BY DEF putPolicy, DeleteACLPolicy
<1>2. Logged' /\ Authorized
  BY <1>1, ManagerAdds
<1>3. Types' /\ Steady
  BY <1>1 DEF AccessInv, Types, LoginsOK, LoginOK, Steady, tokens, issued
<1>4. Served'
  BY <1>1, <1>3, WritePolicyServed DEF AccessInv
<1> QED BY <1>2, <1>3, <1>4 DEF AccessInv

LEMMA PoliciesWritten ==
    ASSUME AccessInv, NEW q \in Requests,
           apiPutPolicy(q) \/ savePolicy(q) \/ apiDeletePolicy(q) \/ deletePolicy(q)
    PROVE  AccessInv' /\ Authorized
<1>1. Guarded(q, OnlyManagement, None) /\ (putPolicy(q) \/ DeleteACLPolicy(q))
  BY Managed DEF apiPutPolicy, savePolicy, apiDeletePolicy, deletePolicy
<1>2. Manages(q)
  BY <1>1, OnlyManagementPasses DEF Manages
<1> QED BY <1>1, <1>2, PolicyWritten

LEMMA RuleAsked ==
    ASSUME AccessInv, NEW q \in Requests, apiSaveBindingRule(q) \/ saveBindingRule(q)
    PROVE  AccessInv' /\ Authorized
<1>1. Guarded(q, OnlyManagement, None) /\ putBindingRule(q)
  BY Managed DEF apiSaveBindingRule, saveBindingRule
<1>2. Manages(q)
  BY <1>1, OnlyManagementPasses DEF Manages
<1>3. PICK id \in RuleIDs \cup {None}, r \in RuleInputs :
         /\ requests' = [requests EXCEPT ![q].pc = "bind", ![q].arg = [id |-> id, rule |-> r]]
         /\ UNCHANGED <<aclOn, tables, tokens, log, logins, swept, left>>
  BY <1>1 DEF putBindingRule
<1> DEFINE arg == [id |-> id, rule |-> r]
<1>4. Goes(q, "bind", arg) /\ arg.rule \in RuleInputs /\ Still
  BY <1>3 DEF Goes, Still
<1> HIDE DEF arg
<1> QED BY <1>2, <1>4, GoesOn DEF Manages

LEMMA RuleWritten ==
    ASSUME AccessInv, NEW q \in Requests, Manages(q), NEW action, action # "revoke", NEW id,
           NEW r \in RuleInputs \cup {None}, rules' = [rules EXCEPT ![id] = r],
           insertChange(Entry(By(q), action, "binding-rule", id)), Done(q),
           UNCHANGED <<aclOn, policies, tokens, logins>>
    PROVE  AccessInv' /\ Authorized
<1>1. Logged' /\ Authorized
  BY ManagerAdds
<1>2. Types' /\ Steady
  BY DEF AccessInv, Types, LoginsOK, LoginOK, Steady, tokens, issued
<1>3. Served'
  BY <1>2, DoneKeeps DEF AccessInv
<1> QED BY <1>1, <1>2, <1>3 DEF AccessInv

LEMMA RulePut ==
    ASSUME AccessInv, NEW q \in Requests, PutBindingRule(q)
    PROVE  AccessInv' /\ Authorized
<1>1. requests[q].pc = "bind" /\ Manages(q) /\ requests[q].arg.rule \in RuleInputs
  BY DEF PutBindingRule, Manages, AccessInv, Served, ReqOK, Pending
<1>2. PICK action, id : /\ action # "revoke"
                        /\ rules' = [rules EXCEPT ![id] = requests[q].arg.rule]
                        /\ insertChange(Entry(By(q), action, "binding-rule", id))
                        /\ Done(q) /\ UNCHANGED <<aclOn, policies, tokens, logins>>
  BY DEF PutBindingRule
<1> QED BY <1>1, <1>2, RuleWritten

LEMMA RuleDeleted ==
    ASSUME AccessInv, NEW q \in Requests, apiDeleteBindingRule(q) \/ deleteBindingRule(q)
    PROVE  AccessInv' /\ Authorized
<1>1. Guarded(q, OnlyManagement, None) /\ DeleteBindingRule(q)
  BY Managed DEF apiDeleteBindingRule, deleteBindingRule
<1>2. Manages(q)
  BY <1>1, OnlyManagementPasses DEF Manages
<1>3. PICK id : /\ rules' = [rules EXCEPT ![id] = None]
                /\ insertChange(Entry(By(q), "delete", "binding-rule", id))
                /\ Done(q) /\ UNCHANGED <<aclOn, policies, tokens, logins>>
  BY <1>1 DEF DeleteBindingRule
<1> QED BY <1>2, <1>3, RuleWritten

LEMMA TokenAsked ==
    ASSUME AccessInv, NEW q \in Requests, apiCreateToken(q) \/ createTokenForm(q)
    PROVE  AccessInv' /\ Authorized
<1>1. Guarded(q, OnlyManagement, None) /\ createToken(q)
  BY Managed DEF apiCreateToken, createTokenForm
<1>2. Manages(q)
  BY <1>1, OnlyManagementPasses DEF Manages
<1>3. PICK t \in TokenInputs : Goes(q, "mint", t) /\ Still
  BY <1>1 DEF createToken, Goes, Still
<1> QED BY <1>2, <1>3, GoesOn DEF Manages

\* Who the token of a request is.
LEMMA IdentityType ==
    ASSUME Types, NEW q \in Requests, Subject(requests[q].sub)
    PROVE  By(q) \in Accessors \cup {Bootstrap} /\ identity(q) \in People \cup {None}
<1>1. CASE By(q) \in Accessors
  <2>1. By(q) \in issued
    BY <1>1, AccessAssumption DEF Subject, TokenLets, By
  <2>2. born[By(q)] \in Tokens
    BY <2>1 DEF Types, issued
  <2>3. born[By(q)].identity \in People \cup {None}
    BY <2>2 DEF Tokens
  <2> QED BY <1>1, <2>3 DEF identity
<1>2. CASE By(q) \notin Accessors
  <2>1. By(q) = Bootstrap
    BY <1>2 DEF Subject, TokenLets, By, issued
  <2> QED BY <1>2, <2>1 DEF identity
<1> QED BY <1>1, <1>2

LEMMA TokenMinted ==
    ASSUME AccessInv, NEW q \in Requests, mintToken(q)
    PROVE  AccessInv' /\ Authorized
<1> DEFINE t == requests[q].arg
           new == Token(t.type, t.policies, "created", identity(q), t.mortal, By(q))
<1>1. requests[q].pc = "mint"
  BY DEF mintToken
<1>2. Manages(q) /\ t \in TokenInputs /\ Subject(requests[q].sub)
  BY <1>1 DEF Manages, AccessInv, Served, ReqOK, Pending
<1>3. /\ new.type = t.type /\ new.policies = t.policies /\ new.acl = aclOn
      /\ new.origin = "created" /\ new.identity = None /\ new.mortal = t.mortal
      /\ new.creator = By(q) /\ new.creatorIdentity = identity(q)
      /\ new = [type |-> new.type, policies |-> new.policies, acl |-> new.acl, origin |-> new.origin,
                identity |-> new.identity, mortal |-> new.mortal, creator |-> new.creator,
                creatorIdentity |-> new.creatorIdentity]
  BY DEF Token
<1>4. /\ t.type \in {"management", "client"} /\ t.policies \subseteq Names /\ t.mortal \in BOOLEAN
      /\ aclOn \in BOOLEAN
  BY <1>2, AccessAssumption DEF AccessInv, Types
<1>5. By(q) \in Accessors \cup {Bootstrap} /\ identity(q) \in People \cup {None}
  BY <1>2, IdentityType DEF AccessInv
<1>6. new \in Tokens
  <2> HIDE DEF new, t
  <2> QED BY <1>3, <1>4, <1>5 DEF Tokens
<1>7. PICK a \in Accessors : CreateACLToken(a, new, By(q))
  BY DEF mintToken
<1> HIDE DEF new, t
<1>8. /\ Logged' /\ born' \in [Accessors -> Tokens \cup {None}]
      /\ live' \subseteq issued' /\ expired' \subseteq issued'
      /\ \A b \in issued : b \in issued' /\ born'[b] = born[b]
      /\ log' = log \cup {Entry(By(q), "create", "token", a)}
  BY <1>6, <1>7, LogCreate DEF AccessInv
<1>9. Done(q) /\ UNCHANGED <<aclOn, tables, logins>>
  BY DEF mintToken
<1>10. Types' /\ Steady
  BY <1>8, <1>9 DEF AccessInv, Types, LoginsOK, LoginOK, Steady, tables
<1>11. Served'
  BY <1>9, <1>10, DoneKeeps DEF AccessInv
<1>12. entitled(Entry(By(q), "create", "token", a))
  BY <1>2, ManagerEntitled DEF AccessInv, Manages
<1>13. Authorized
  BY <1>8, <1>12 DEF Authorized
<1> QED BY <1>8, <1>10, <1>11, <1>13 DEF AccessInv

\* Revocations keep the invariant, whoever does them.
LEMMA RevokeKeeps ==
    ASSUME AccessInv, NEW S, S \subseteq issued, NEW by, Revoke(S, by), UNCHANGED <<aclOn, tables>>, logins' = logins
    PROVE  Types' /\ Logged' /\ Steady /\ log' \ log \subseteq {Entry(by, "revoke", "token", a) : a \in S}
<1>1. /\ Logged'
      /\ log' = log \cup {Entry(by, "revoke", "token", a) : a \in S}
      /\ born' = born /\ expired' = expired /\ live' \subseteq live /\ issued' = issued
  BY LogRevoke DEF AccessInv
<1>2. Types' /\ Steady
  BY <1>1 DEF AccessInv, Types, LoginsOK, LoginOK, Steady, tables
<1> QED BY <1>1, <1>2

LEMMA ManagerRevokes ==
    ASSUME AccessInv, NEW q \in Requests, Manages(q), NEW S, S \subseteq issued,
           Revoke(S, By(q)), Done(q), UNCHANGED <<aclOn, tables>>, logins' = logins
    PROVE  AccessInv' /\ Authorized
<1>1. Types' /\ Logged' /\ Steady /\ log' \ log \subseteq {Entry(By(q), "revoke", "token", a) : a \in S}
  BY RevokeKeeps
<1>2. Served'
  BY <1>1, DoneKeeps DEF AccessInv
<1>3. \A a \in S : entitled(Entry(By(q), "revoke", "token", a))
  BY ManagerEntitled DEF AccessInv, Manages
<1>4. Authorized
  BY <1>1, <1>3 DEF Authorized
<1> QED BY <1>1, <1>2, <1>4 DEF AccessInv

LEMMA TokenRevoked ==
    ASSUME AccessInv, NEW q \in Requests, apiRevokeToken(q) \/ revokeTokenForm(q)
    PROVE  AccessInv' /\ Authorized
<1>1. Guarded(q, OnlyManagement, None) /\ RevokeACLToken(q)
  BY Managed DEF apiRevokeToken, revokeTokenForm
<1>2. Manages(q)
  BY <1>1, OnlyManagementPasses DEF Manages
<1>3. PICK a \in live : Revoke({a}, By(q)) /\ Done(q) /\ UNCHANGED <<aclOn, tables, logins>>
  BY <1>1 DEF RevokeACLToken
<1>4. {a} \subseteq issued
  BY <1>3 DEF AccessInv, Types
<1> QED BY <1>2, <1>3, <1>4, ManagerRevokes

LEMMA RevocationAsked ==
    ASSUME AccessInv, NEW q \in Requests, apiRevokeTokens(q) \/ revokeTokensForm(q)
    PROVE  AccessInv' /\ Authorized
<1>1. Guarded(q, OnlyManagement, None) /\ revokeTokens(q)
  BY Managed DEF apiRevokeTokens, revokeTokensForm
<1>2. Manages(q)
  BY <1>1, OnlyManagementPasses DEF Manages
<1>3. PICK rev \in Revocations :
         /\ requests' = [requests EXCEPT ![q].pc = "sweep", ![q].todo = TokensToRevoke(rev), ![q].named = about(rev)]
         /\ Still
  BY <1>1 DEF revokeTokens, Still
<1> DEFINE todo == TokensToRevoke(rev)
           named == about(rev)
<1>0. todo \subseteq live
  BY DEF TokensToRevoke
<1> HIDE DEF todo, named
<1>4. Types' /\ Logged' /\ Steady /\ Authorized
  BY <1>3, StillKeeps DEF AccessInv
<1>5. DOMAIN requests = Requests /\ Fields(requests[q])
  BY DEF AccessInv, Served, ReqOK
<1>6. /\ DOMAIN requests' = Requests /\ \A x \in Requests \ {q} : requests'[x] = requests[x]
      /\ requests'[q] = [requests[q] EXCEPT !.pc = "sweep", !.todo = todo, !.named = named]
  BY <1>3, <1>5 DEF todo, named
<1>7. Onward(q) /\ requests'[q].pc = "sweep" /\ requests'[q].todo = todo
  BY <1>5, <1>6 DEF Onward, Fields
<1>8. todo \subseteq issued'
  BY <1>3, <1>0 DEF AccessInv, Types, Still, tokens, issued
<1>9. Pending(requests[q])'
  BY <1>2, <1>7, <1>8 DEF Pending, Onward, Manages
<1>10. Served'
  BY <1>2, <1>4, <1>7, <1>9, OnwardKeeps DEF AccessInv, Manages
<1> QED BY <1>4, <1>10 DEF AccessInv

LEMMA RevocationDone ==
    ASSUME AccessInv, NEW q \in Requests, RevokeACLTokens(q)
    PROVE  AccessInv' /\ Authorized
<1>1. Manages(q) /\ requests[q].todo \subseteq issued
  BY DEF RevokeACLTokens, Manages, AccessInv, Served, ReqOK, Pending
<1>2. Revoke(requests[q].todo, By(q)) /\ Done(q) /\ UNCHANGED <<aclOn, tables, logins>>
  BY DEF RevokeACLTokens
<1> QED BY <1>1, <1>2, ManagerRevokes

\* A token may revoke itself.
LEMMA SelfEntitled ==
    ASSUME NEW a \in issued
    PROVE  entitled(Entry(a, "revoke", "token", a))
BY DEF entitled, Entry

LEMMA SelfRevoked ==
    ASSUME AccessInv, NEW q \in Requests, apiRevokeSelf(q)
    PROVE  AccessInv' /\ Authorized
<1> DEFINE a == By(q)
<1>1. a \in issued /\ Revoke({a}, a) /\ Done(q) /\ UNCHANGED <<aclOn, tables, logins>>
  BY DEF apiRevokeSelf, AccessInv, Types
<1> HIDE DEF a
<1>2. Types' /\ Logged' /\ Steady /\ log' \ log \subseteq {Entry(a, "revoke", "token", b) : b \in {a}}
  BY <1>1, RevokeKeeps
<1>3. Served'
  BY <1>1, <1>2, DoneKeeps DEF AccessInv
<1>4. Authorized
  BY <1>1, <1>2, SelfEntitled DEF Authorized
<1> QED BY <1>2, <1>3, <1>4 DEF AccessInv

-----------------------------------------------------------------------------
(***************************************************************************)
(* Logins, the clock and the process.                                      *)
(***************************************************************************)

\* A login that has begun, or one that is over.
LEMMA LoginMoves ==
    ASSUME AccessInv, UNCHANGED <<aclOn, tables, tokens, log, requests>>,
           LoginsOK'
    PROVE  AccessInv' /\ Authorized
<1>1. Types' /\ Steady
  BY DEF AccessInv, Types, Steady, tables, tokens, issued
<1>2. Logged' /\ Authorized
  BY LogSame DEF AccessInv
<1>3. Served'
  BY <1>1, ServedSame DEF AccessInv
<1> QED BY <1>1, <1>2, <1>3 DEF AccessInv

\* A login that is moved on, and the others that stay.
LEMMA OneLogin ==
    ASSUME LoginsOK, NEW l \in Logins, NEW r, LoginOK(r), logins' = [logins EXCEPT ![l] = r]
    PROVE  LoginsOK'
BY DEF LoginsOK, LoginOK

LEMMA NoLoginType == LoginOK(NoLogin)
BY DEF NoLogin, LoginOK, New

LEMMA LoginBegins ==
    ASSUME AccessInv, NEW l \in Logins, NEW who \in People, NEW m \in Methods, BeginLogin(l, who, m),
           UNCHANGED <<aclOn, tables, tokens, log, requests>>
    PROVE  AccessInv' /\ Authorized
<1> DEFINE r == [NoLogin EXCEPT !.pc = "bind", !.who = who, !.method = m]
<1>1. LoginOK(r)
  BY DEF NoLogin, LoginOK, New
<1>2. logins' = [logins EXCEPT ![l] = r]
  BY DEF BeginLogin
<1> HIDE DEF r
<1>3. LoginsOK'
  BY <1>1, <1>2, OneLogin DEF AccessInv, Types
<1> QED BY <1>3, LoginMoves

LEMMA LoginEnds ==
    ASSUME AccessInv, NEW l \in Logins, EndLogin(l), UNCHANGED <<aclOn, tables, tokens, log, requests>>
    PROVE  AccessInv' /\ Authorized
<1>1. LoginsOK'
  BY NoLoginType, OneLogin DEF EndLogin, AccessInv, Types
<1> QED BY <1>1, LoginMoves

LEMMA LoginBound ==
    ASSUME AccessInv, NEW l \in Logins, bindLogin(l)
    PROVE  AccessInv' /\ Authorized
<1> DEFINE found == {rules[i] : i \in {j \in RuleIDs : rules[j] # None}}
           granted == IF aclOn THEN Bind(logins[l].method, logins[l].who, found)
                               ELSE [management |-> TRUE, policies |-> {}]
           pc == IF Granted(granted) THEN "purge" ELSE "refused"
<1>1. found \subseteq RuleInputs
  BY DEF AccessInv, Types
<1>2. \A r \in found : r.type = "policy" => r.name \in Names
  BY <1>1, AccessAssumption
<1>3. granted.management \in BOOLEAN /\ granted.policies \subseteq Names
  <2> HIDE DEF found
  <2> QED BY <1>2 DEF Bind
<1>4. logins' = [logins EXCEPT ![l].granted = granted, ![l].pc = pc]
  BY DEF bindLogin
<1> HIDE DEF granted, pc
<1>5. LoginsOK'
  BY <1>3, <1>4 DEF AccessInv, Types, LoginsOK, LoginOK
<1> QED BY <1>5, LoginMoves DEF bindLogin

\* Rows that have expired go, in a step that keeps the requests.
LEMMA LoginPurges ==
    ASSUME AccessInv, NEW l \in Logins, purgeTokens(l)
    PROVE  AccessInv' /\ Authorized
<1>1. PICK S : DeleteExpiredTokens(S)
  BY DEF purgeTokens
<1>2. Logged' /\ log' = log /\ born' = born /\ expired' = expired /\ live' \subseteq live /\ issued' = issued
  BY <1>1, LogPurge DEF AccessInv
<1>3. UNCHANGED <<aclOn, tables, requests>> /\ logins' = [logins EXCEPT ![l].pc = "create"]
  BY DEF purgeTokens
<1>4. LoginsOK'
  BY <1>3 DEF AccessInv, Types, LoginsOK, LoginOK
<1>5. Types' /\ Steady
  BY <1>2, <1>3, <1>4 DEF AccessInv, Types, Steady, tables
<1>6. Served'
  BY <1>3, <1>5, ServedSame DEF AccessInv
<1>7. Authorized
  BY <1>2 DEF Authorized
<1> QED BY <1>2, <1>5, <1>6, <1>7 DEF AccessInv

LEMMA SessionCreated ==
    ASSUME AccessInv, NEW l \in Logins, createSession(l)
    PROVE  AccessInv' /\ Authorized
<1> DEFINE g == logins[l].granted
           type == IF g.management THEN "management" ELSE "client"
           carried == IF g.management THEN {} ELSE g.policies
           who == logins[l].who
           new == Token(type, carried, "login", who, TRUE, None)
<1>1. g.management \in BOOLEAN /\ g.policies \subseteq Names /\ who \in People \cup {None}
  BY DEF AccessInv, Types, LoginsOK, LoginOK
<1>2. type \in {"management", "client"} /\ carried \subseteq Names /\ aclOn \in BOOLEAN
  BY <1>1 DEF AccessInv, Types
<1>3. PICK a \in Accessors : /\ CreateACLToken(a, new, None)
                             /\ logins' = [logins EXCEPT ![l].pc = "made", ![l].token = a]
  BY DEF createSession
<1>4. UNCHANGED <<aclOn, tables, requests>>
  BY DEF createSession
<1> HIDE DEF g, type, carried, who
<1>5. new = [type |-> type, policies |-> carried, acl |-> aclOn, origin |-> "login", identity |-> who,
             mortal |-> TRUE, creator |-> None, creatorIdentity |-> who]
  BY DEF Token
<1>6. new \in Tokens /\ new.origin = "login"
  <2> DEFINE t == [type |-> type, policies |-> carried, acl |-> aclOn, origin |-> "login", identity |-> who,
                   mortal |-> TRUE, creator |-> None, creatorIdentity |-> who]
  <2>1. t \in Tokens /\ t.origin = "login"
    BY <1>1, <1>2 DEF Tokens
  <2> QED BY <1>5, <2>1
<1> HIDE DEF new
<1>7. /\ Logged' /\ born' \in [Accessors -> Tokens \cup {None}] /\ born'[a] = new
      /\ live' \subseteq issued' /\ expired' \subseteq issued'
      /\ \A b \in issued : b \in issued' /\ born'[b] = born[b]
      /\ log' = log \cup {Entry(None, "create", "token", a)}
  BY <1>3, <1>6, LogCreate DEF AccessInv
<1>8. LoginsOK'
  BY <1>3 DEF AccessInv, Types, LoginsOK, LoginOK
<1>9. Types' /\ Steady
  BY <1>4, <1>7, <1>8 DEF AccessInv, Types, Steady, tables
<1>10. Served'
  BY <1>4, <1>9, ServedSame DEF AccessInv
<1>11. entitled(Entry(None, "create", "token", a))
  BY <1>6, <1>7 DEF entitled, Entry
<1>12. Authorized
  BY <1>7, <1>11 DEF Authorized
<1> QED BY <1>7, <1>9, <1>10, <1>12 DEF AccessInv

LEMMA SessionEnded ==
    ASSUME AccessInv, NEW a \in live, Revoke({a}, a), UNCHANGED <<aclOn, tables, requests>>, logins' = logins
    PROVE  AccessInv' /\ Authorized
<1>1. a \in issued
  BY DEF AccessInv, Types
<1>2. Types' /\ Logged' /\ Steady /\ log' \ log \subseteq {Entry(a, "revoke", "token", b) : b \in {a}}
  BY <1>1, RevokeKeeps
<1>3. Served'
  BY <1>2, ServedSame DEF AccessInv
<1>4. Authorized
  BY <1>1, <1>2, SelfEntitled DEF Authorized
<1> QED BY <1>2, <1>3, <1>4 DEF AccessInv

LEMMA TimePasses ==
    ASSUME AccessInv, Expire
    PROVE  AccessInv' /\ Authorized
<1>1. PICK a \in live : expired' = expired \cup {a}
  BY DEF Expire
<1>2. UNCHANGED <<aclOn, tables, live, born, log, requests, logins>>
  BY DEF Expire
<1>3. issued' = issued /\ a \in issued /\ \A b \in Accessors : created(b)' = created(b) /\ revoked(b)' = revoked(b)
  BY <1>1, <1>2 DEF issued, created, revoked, AccessInv, Types
<1>4. Types' /\ Steady
  BY <1>1, <1>2, <1>3 DEF AccessInv, Types, LoginsOK, LoginOK, Steady, tables
<1>5. Logged'
  BY <1>1, <1>2, <1>3 DEF AccessInv, Logged
<1>6. Served'
  BY <1>2, <1>4, ServedSame DEF AccessInv
<1>7. Authorized
  BY <1>2 DEF Authorized
<1> QED BY <1>4, <1>5, <1>6, <1>7 DEF AccessInv

\* The mode may change: what saves the invariant is that no request outlives its process.
LEMMA ProcessRestarts ==
    ASSUME AccessInv, Restart
    PROVE  AccessInv' /\ Authorized
<1>1. PICK S : DeleteExpiredTokens(S)
  BY DEF Restart
<1>2. Logged' /\ log' = log /\ born' = born /\ expired' = expired /\ live' \subseteq live /\ issued' = issued
  BY <1>1, LogPurge DEF AccessInv
<1>3. Types'
  BY <1>2, NoLoginType DEF Restart, AccessInv, Types, LoginsOK, LoginOK, tables
<1>4. DOMAIN requests' = Requests /\ \A q \in Requests : requests'[q] = Idle
  BY DEF Restart
<1>5. Served'
  BY <1>4, IdleOK DEF Served
<1>6. Authorized
  BY <1>2 DEF Authorized
<1> QED BY <1>2, <1>3, <1>5, <1>6 DEF AccessInv

-----------------------------------------------------------------------------
(***************************************************************************)
(* The theorems.                                                           *)
(***************************************************************************)

LEMMA Beginning ==
    ASSUME Init
    PROVE  AccessInv
<1>1. PICK start \in Starts : Begin(start)
  BY DEF Init
<1>2. /\ aclOn \in BOOLEAN /\ rules \in [RuleIDs -> RuleInputs \cup {None}]
      /\ born \in [Accessors -> Tokens \cup {None}]
  BY <1>1, AccessAssumption DEF Begin
<1>3. LoginsOK
  BY <1>1, NoLoginType DEF Begin, LoginsOK
<1>4. Types
  BY <1>1, <1>2, <1>3 DEF Begin, Types
<1>5. Served
  <2>1. ReqOK(Idle)
    BY DEF ReqOK, Fields, Pending, Idle, Nobody, New
  <2> QED BY <1>1, <2>1 DEF Begin, Served
<1>6. Logged
  <2>1. log = {Entry(born[a].creator, "create", "token", a) : a \in issued} /\ live = issued
    BY <1>1 DEF Begin
  <2>2. \A e \in log : e.action = "create" /\ e.kind = "token"
    BY <2>1 DEF Entry
  <2>3. \A a \in Accessors : revoked(a) = {}
    BY <2>2 DEF revoked
  <2>4. ASSUME NEW a \in issued PROVE created(a) = {Entry(born[a].creator, "create", "token", a)}
    BY <2>1 DEF created, Entry
  <2>5. ASSUME NEW a \in Accessors \ issued PROVE created(a) = {}
    BY <2>1 DEF created, Entry
  <2> QED BY <2>1, <2>3, <2>4, <2>5 DEF Logged
<1> QED BY <1>4, <1>5, <1>6 DEF AccessInv

LEMMA ServeKeeps ==
    ASSUME AccessInv, NEW q \in Requests, Serve(q)
    PROVE  AccessInv' /\ Authorized
<1>1. CASE tokenSubject(q)
  BY <1>1, SubjectKeeps
<1>2. CASE clientACL(q)
  BY <1>2, PoliciesKeep
<1>3. CASE Answer(q)
  BY <1>3, AnswerKeeps
<1>4. CASE apiAction(q) \/ pageAction(q)
  BY <1>4, ActionsKeep
<1>5. CASE LogBackup(q)
  BY <1>5, LogBackupKeeps
<1>6. CASE SendBackup(q)
  BY <1>6, SendBackupKeeps
<1>7. CASE apiPutPolicy(q) \/ savePolicy(q) \/ apiDeletePolicy(q) \/ deletePolicy(q)
  BY <1>7, PoliciesWritten
<1>8. CASE apiSaveBindingRule(q) \/ saveBindingRule(q)
  BY <1>8, RuleAsked
<1>9. CASE PutBindingRule(q)
  BY <1>9, RulePut
<1>10. CASE apiDeleteBindingRule(q) \/ deleteBindingRule(q)
  BY <1>10, RuleDeleted
<1>11. CASE apiCreateToken(q) \/ createTokenForm(q)
  BY <1>11, TokenAsked
<1>12. CASE mintToken(q)
  BY <1>12, TokenMinted
<1>13. CASE apiRevokeToken(q) \/ revokeTokenForm(q)
  BY <1>13, TokenRevoked
<1>14. CASE apiRevokeSelf(q)
  BY <1>14, SelfRevoked
<1>15. CASE apiRevokeTokens(q) \/ revokeTokensForm(q)
  BY <1>15, RevocationAsked
<1>16. CASE RevokeACLTokens(q)
  BY <1>16, RevocationDone
<1> QED BY <1>1, <1>2, <1>3, <1>4, <1>5, <1>6, <1>7, <1>8, <1>9, <1>10, <1>11, <1>12, <1>13, <1>14, <1>15, <1>16
        DEF Serve

LEMMA LogInKeeps ==
    ASSUME AccessInv, NEW l \in Logins, LogIn(l)
    PROVE  AccessInv' /\ Authorized
<1>1. ASSUME NEW who \in People, NEW m \in Methods, BeginLogin(l, who, m),
             UNCHANGED <<aclOn, tables, tokens, log, requests, swept>>
      PROVE  AccessInv' /\ Authorized
  BY <1>1, LoginBegins
<1>2. CASE bindLogin(l)
  BY <1>2, LoginBound
<1>3. CASE purgeTokens(l)
  BY <1>3, LoginPurges
<1>4. CASE createSession(l)
  BY <1>4, SessionCreated
<1>5. CASE EndLogin(l) /\ UNCHANGED <<aclOn, tables, tokens, log, requests, swept, left>>
  BY <1>5, LoginEnds
<1> QED BY <1>1, <1>2, <1>3, <1>4, <1>5 DEF LogIn, MakeSession

LEMMA StepKeeps ==
    ASSUME AccessInv, [Next]_vars
    PROVE  AccessInv' /\ Authorized
<1>1. ASSUME NEW q \in Requests, Serve(q) PROVE AccessInv' /\ Authorized
  BY <1>1, ServeKeeps
<1>2. ASSUME NEW l \in Logins, LogIn(l) PROVE AccessInv' /\ Authorized
  BY <1>2, LogInKeeps
<1>3. CASE EndSession
  BY <1>3, SessionEnded DEF EndSession
<1>4. CASE Expire
  BY <1>4, TimePasses
<1>5. CASE Restart
  BY <1>5, ProcessRestarts
<1>6. CASE UNCHANGED vars
  <2>1. UNCHANGED <<aclOn, tables, tokens, log, requests>> /\ logins' = logins
    BY <1>6 DEF vars, tables, tokens
  <2>2. LoginsOK'
    BY <2>1 DEF AccessInv, Types, LoginsOK, LoginOK
  <2> QED BY <2>1, <2>2, LoginMoves
<1> QED BY <1>1, <1>2, <1>3, <1>4, <1>5, <1>6 DEF Next

\* The invariant holds: whatever requests, logins, revocations, expiries and restarts
\* interleave, a request in progress still acts for the token it was let in with.
THEOREM AccessInvariant == Spec => []AccessInv
<1>1. Init => AccessInv
  BY Beginning
<1>2. AccessInv /\ [Next]_vars => AccessInv'
  BY StepKeeps
<1> QED BY <1>1, <1>2, PTL DEF Spec

\* acl_changes tells the whole story of acl_tokens (CreateACLToken, RevokeACLToken,
\* RevokeACLTokens, DeleteExpiredTokens).
THEOREM StoryTold == Spec => []TokenStory
<1>1. AccessInv => TokenStory
  <2> SUFFICES ASSUME AccessInv, NEW a \in Accessors
      PROVE  /\ a \in issued => Cardinality(created(a)) = 1
             /\ a \notin issued => created(a) \cup revoked(a) = {}
             /\ a \in live => revoked(a) = {}
             /\ a \in issued \ live => revoked(a) # {} \/ a \in expired
    BY DEF TokenStory
  <2>1. ASSUME a \in issued PROVE Cardinality(created(a)) = 1
    <3>1. PICK by : created(a) = {Entry(by, "create", "token", a)}
      BY <2>1 DEF AccessInv, Logged
    <3> QED BY <3>1, FS_Singleton
  <2> QED BY <2>1 DEF AccessInv, Logged
<1> QED BY <1>1, AccessInvariant, PTL

=============================================================================
