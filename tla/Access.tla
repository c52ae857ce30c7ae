------------------------------- MODULE Access -------------------------------
(***************************************************************************)
(* Access control: tokens, ACL policies, binding rules and the log of      *)
(* their changes (internal/store/acl.go), and the requests that read and   *)
(* write them (internal/web), a step per read or transaction.  A login is  *)
(* here from the moment a person has proved who they are.                  *)
(***************************************************************************)
EXTENDS ACL, FiniteSets

CONSTANTS
    None,         \* what is empty or absent
    Garbled,      \* rules an older Nops saved that no longer parse
    Bootstrap,    \* the accessor ID of the token of the configuration
    Accessors,    \* accessor IDs, numbered in the order they are given
    People,       \* identities
    Names,        \* names of ACL policies, numbered in their order
    Letters,      \* what the name of a namespace is made of
    Namespaces,
    Files,        \* what a policy may be saved with
    RuleIDs,      \* IDs of binding rules
    RuleInputs,   \* what a binding rule may be saved with
    TokenInputs,  \* what a token may be asked with
    Requests, Logins,   \* the requests and logins in progress
    Methods,      \* the auth methods; a process runs with one
    Starts        \* what a run starts from, and how much of each kind happens in it

\* The columns of acl_tokens.
Tokens ==
    [type : {"management", "client"}, policies : SUBSET Names, acl : BOOLEAN,
     origin : {"login", "created"}, identity : People \cup {None}, mortal : BOOLEAN,
     creator : Accessors \cup {Bootstrap, None}, creatorIdentity : People \cup {None}]

ASSUME AccessAssumption ==
    /\ Bootstrap \notin Accessors /\ None \notin Accessors \cup Tokens \cup {Bootstrap}
    /\ \A t \in TokenInputs : t.type \in {"management", "client"} /\ t.policies \subseteq Names /\ t.mortal \in BOOLEAN
    /\ \A r \in RuleInputs : r.type = "policy" => r.name \in Names
    /\ \A s \in Starts :
           /\ s.acl \in BOOLEAN
           /\ s.rules \in [RuleIDs -> RuleInputs \cup {None}]
           /\ s.born \in [Accessors -> Tokens \cup {None}]

\* The names of namespaces have no wildcard, the labels of a policy may.
Labels == Seq(Letters \cup {"*"})

\* What a policy, a token asked for and a token of the store are (acl.go Parse, newToken,
\* CreateACLToken): a token that can do everything carries no policies, and a session
\* is a person's and has an end.
ASSUME PolicyAssumption ==
    /\ "*" \notin Letters /\ Namespaces \subseteq Seq(Letters) /\ None \notin Namespaces
    /\ IsFiniteSet(Accessors) /\ None \notin People
    /\ \A file \in Files : /\ IsFiniteSet(DOMAIN file.blocks)
                           /\ \A i \in DOMAIN file.blocks : file.blocks[i].label \in Labels
    /\ \A t \in TokenInputs : t.type = "management" => t.policies = {}
    /\ \A s \in Starts :
           /\ DOMAIN s.policies = Names
           /\ \A n \in Names : s.policies[n] \notin {None, Garbled} =>
                  IsFiniteSet(s.policies[n].rules) /\ \A r \in s.policies[n].rules : r.label \in Labels
           /\ \A a \in Accessors : s.born[a] # None =>
                  /\ s.born[a].type = "management" => s.born[a].policies = {}
                  /\ s.born[a].origin = "login" => s.born[a].mortal /\ s.born[a].identity \in People

VARIABLES
    aclOn,      \* the mode this process runs in
    policies,   \* acl_policies
    rules,      \* acl_binding_rules
    live,       \* the rows of acl_tokens
    born,       \* each token as it was created: no column is ever updated
    expired,    \* the tokens whose time has passed
    log,        \* acl_changes
    requests,   \* the subject a request has been given, and where it is
    logins,     \* where a login is, and what its person is granted
    swept,      \* history: what the revocations in one action that have ended named
    left        \* how much of each kind of event may still happen

tables == <<policies, rules>>
tokens == <<live, born, expired>>
vars == <<aclOn, policies, rules, live, born, expired, log, requests, logins, swept, left>>

issued == {a \in Accessors : born[a] # None}

Token(type, carried, origin, who, mortal, creator) ==
    [type |-> type, policies |-> carried, acl |-> aclOn, origin |-> origin,
     identity |-> IF origin = "login" THEN who ELSE None,
     mortal |-> mortal,
     creator |-> creator, creatorIdentity |-> who]

Spend(kind) == left[kind] > 0 /\ left' = [left EXCEPT ![kind] = @ - 1]

Entry(by, action, kind, object) == [by |-> by, action |-> action, kind |-> kind, object |-> object]
insertChange(e) == log' = log \cup {e}

\* ---------------------------------------------------- the tokens in the store

\* mutant: the mode is not looked at.
ACLTokenBySecret_anyMode(a) == a \in live /\ a \notin expired

ACLTokenBySecret(a) == a \in live /\ born[a].acl = aclOn /\ a \notin expired

CreateACLToken(a, t, by) ==
    /\ a \notin issued /\ \A c \in Accessors \ issued : a <= c
    /\ born' = [born EXCEPT ![a] = t]
    /\ live' = live \cup {a}
    /\ insertChange(Entry(by, "create", "token", a))
    /\ UNCHANGED expired

\* Nothing but the deletion and its entry, in one transaction.
Revoke(S, by) ==
    /\ live' = live \ S
    /\ log' = log \cup {Entry(by, "revoke", "token", a) : a \in S}
    /\ UNCHANGED <<born, expired>>

Revocations ==
    {[of |-> "sessions", who |-> p] : p \in People}
        \cup {[of |-> "created", who |-> x] : x \in People \cup Accessors \cup {Bootstrap}}

\* The recursive query: created tokens seed it, and each step adds what the ones
\* found so far created.
taken(x) ==
    LET seed == {a \in live : born[a].origin = "created" /\ x \in {born[a].creator, born[a].creatorIdentity}}
        after[n \in 0..Cardinality(Accessors)] ==
            IF n = 0 THEN seed
                     ELSE after[n - 1] \cup {a \in live : born[a].creator \in after[n - 1]}
    IN  after[Cardinality(Accessors)]

TokensToRevoke(rev) ==
    (live \ expired) \cap
        CASE rev.of = "sessions" -> {a \in live : born[a].origin = "login" /\ born[a].identity = rev.who}
          [] rev.of = "created"  -> taken(rev.who)

\* It deletes one by one, and may stop half way; nothing is logged.
DeleteExpiredTokens(S) ==
    /\ S \subseteq live \cap expired
    /\ live' = live \ S
    /\ UNCHANGED <<born, expired, log>>

\* ------------------------------------------------- the subject of a request

Nobody == [by |-> None, acl |-> New({}), carried |-> {}]

Idle == [pc |-> "idle", sub |-> Nobody, todo |-> {}, arg |-> None, barred |-> {}, given |-> {}, named |-> {}]

Denies(p, ns) == p \notin {None, Garbled} /\ \E r \in p.rules : r.deny /\ r.label = ns
Gives(p) == IF p \in {None, Garbled} THEN {} ELSE p.global

\* What the policies of these names deny by name, and give, as they are now.
denied(names) == {b \in names \X Namespaces : Denies(policies[b[1]], b[2])}
given(names) == UNION {Gives(policies[n]) : n \in names}

\* The secret of the bootstrap token or of a row: the subject of everything is
\* known at once, that of a client token needs its policies.
tokenSubject(q) ==
    /\ requests[q].pc = "idle" /\ Spend("requests")
    /\ \/ /\ aclOn
          /\ requests' = [requests EXCEPT ![q] = [Idle EXCEPT
                 !.pc = "handle", !.sub = [by |-> Bootstrap, acl |-> Management, carried |-> {}]]]
       \/ \E a \in Accessors :
             /\ ACLTokenBySecret(a)
             /\ LET t == born[a]
                    all == ~aclOn \/ t.type = "management"
                IN  requests' = [requests EXCEPT ![q] = [Idle EXCEPT
                        !.pc = IF all THEN "handle" ELSE "policies",
                        !.sub = [by |-> a, acl |-> IF all THEN Management ELSE New({}), carried |-> t.policies],
                        !.todo = IF all THEN {} ELSE t.policies,
                        !.barred = IF all THEN {} ELSE denied(t.policies),
                        !.given = IF all THEN {} ELSE given(t.policies)]]
    /\ UNCHANGED <<aclOn, tables, tokens, log, logins, swept>>

\* One policy at a time, by name, as it is now; one that is gone or does not parse
\* grants nothing.
clientACL(q) ==
    /\ requests[q].pc = "policies"
    /\ IF requests[q].todo = {}
       THEN requests' = [requests EXCEPT ![q].pc = "handle"]
       ELSE \E n \in requests[q].todo :
                /\ \A m \in requests[q].todo : n <= m
                /\ requests' = [requests EXCEPT
                       ![q].todo = @ \ {n},
                       ![q].sub.acl = IF policies[n] \in {None, Garbled} THEN @
                                      ELSE New(@.policies \cup {policies[n]})]
    /\ UNCHANGED <<aclOn, tables, tokens, log, logins, swept, left>>

Done(q) == requests' = [requests EXCEPT ![q] = Idle]

\* A refusal, a page or a list, an input that does not check, an error of the store
\* or a client gone: nothing is written.
Answer(q) ==
    /\ requests[q].pc # "idle"
    /\ Done(q)
    /\ UNCHANGED <<aclOn, tables, tokens, log, logins, swept, left>>


\* ------------------------------------------------------ the checks of routes

In(c) == [kind |-> "namespace", cap |-> c]
Globally(c) == [kind |-> "global", cap |-> c]
OnlyManagement == [kind |-> "management", cap |-> None]
AnyToken == [kind |-> "any", cap |-> None]

\* mutant: the backup takes any token.
apiEndpoints_openBackup == [
    apiApprove |-> In("approve"), apiReject |-> In("approve"), apiPromote |-> In("promote"),
    apiRetry |-> In("retry"), apiPause |-> In("pause"), apiResume |-> In("pause"),
    apiDeployNow |-> In("deploy-now"), apiPauseAll |-> Globally("pause"), apiResumeAll |-> Globally("pause"),
    apiFetch |-> Globally("fetch"), apiBackup |-> AnyToken,
    apiPutPolicy |-> OnlyManagement, apiDeletePolicy |-> OnlyManagement,
    apiSaveBindingRule |-> OnlyManagement, apiDeleteBindingRule |-> OnlyManagement,
    apiCreateToken |-> OnlyManagement, apiRevokeToken |-> OnlyManagement,
    apiRevokeTokens |-> OnlyManagement, apiRevokeSelf |-> AnyToken]

\* The routes of the API that change something, and what each needs.
apiEndpoints == [
    apiApprove |-> In("approve"), apiReject |-> In("approve"), apiPromote |-> In("promote"),
    apiRetry |-> In("retry"), apiPause |-> In("pause"), apiResume |-> In("pause"),
    apiDeployNow |-> In("deploy-now"), apiPauseAll |-> Globally("pause"), apiResumeAll |-> Globally("pause"),
    apiFetch |-> Globally("fetch"), apiBackup |-> Globally("backup"),
    apiPutPolicy |-> OnlyManagement, apiDeletePolicy |-> OnlyManagement,
    apiSaveBindingRule |-> OnlyManagement, apiDeleteBindingRule |-> OnlyManagement,
    apiCreateToken |-> OnlyManagement, apiRevokeToken |-> OnlyManagement,
    apiRevokeTokens |-> OnlyManagement, apiRevokeSelf |-> AnyToken]

\* Those of the dashboard.
pageRoutes == [
    approve |-> In("approve"), reject |-> In("approve"), promote |-> In("promote"),
    retry |-> In("retry"), pause |-> In("pause"), resume |-> In("pause"),
    deployNow |-> In("deploy-now"), pauseAll |-> Globally("pause"), resumeAll |-> Globally("pause"),
    fetchNow |-> Globally("fetch"), backupDownload |-> Globally("backup"),
    savePolicy |-> OnlyManagement, deletePolicy |-> OnlyManagement,
    saveBindingRule |-> OnlyManagement, deleteBindingRule |-> OnlyManagement,
    createTokenForm |-> OnlyManagement, revokeTokenForm |-> OnlyManagement,
    revokeTokensForm |-> OnlyManagement]

passes(acl, check, ns) ==
    CASE check.kind = "namespace"  -> Allow(acl, ns, check.cap)
      [] check.kind = "global"     -> Global(acl, check.cap)
      [] check.kind = "management" -> acl.management
      [] check.kind = "any"        -> TRUE

\* A request at its handler, which its check let through.
Guarded(q, check, ns) == requests[q].pc = "handle" /\ passes(requests[q].sub.acl, check, ns)

By(q) == requests[q].sub.by

\* ------------------------------------------------------- what the engine does

Engine == {"namespace", "global"}

\* The action asked of the engine under the subject's name, on a job or on everything;
\* what it changes is modelled with the engine.
Act(q, check, ns) ==
    /\ Spend("acts")
    /\ requests' = [requests EXCEPT ![q].pc = "acted", ![q].arg =
           [cap |-> check.cap, ns |-> IF check.kind = "namespace" THEN ns ELSE None]]
    /\ UNCHANGED <<aclOn, tables, tokens, log, logins, swept>>

apiAction(q) ==
    \E h \in DOMAIN apiEndpoints \ {"apiBackup"}, ns \in Namespaces :
        /\ apiEndpoints[h].kind \in Engine /\ Guarded(q, apiEndpoints[h], ns)
        /\ Act(q, apiEndpoints[h], ns)

pageAction(q) ==
    \E h \in DOMAIN pageRoutes \ {"backupDownload"}, ns \in Namespaces :
        /\ pageRoutes[h].kind \in Engine /\ Guarded(q, pageRoutes[h], ns)
        /\ Act(q, pageRoutes[h], ns)

\* The log first, then the copy, which may fail.
LogBackup(q) ==
    /\ \/ Guarded(q, apiEndpoints.apiBackup, None)
       \/ Guarded(q, pageRoutes.backupDownload, None)
    /\ Spend("acts")
    /\ insertChange(Entry(By(q), "backup", "database", None))
    /\ requests' = [requests EXCEPT ![q].pc = "backup"]
    /\ UNCHANGED <<aclOn, tables, tokens, logins, swept>>

SendBackup(q) ==
    /\ requests[q].pc = "backup"
    /\ requests' = [requests EXCEPT ![q].pc = "acted", ![q].arg = [cap |-> "backup", ns |-> None]]
    /\ UNCHANGED <<aclOn, tables, tokens, log, logins, swept, left>>

\* -------------------------------------------------------------- ACL policies

\* Requests in progress keep what they have read; what has denied them all along,
\* and what has been given to them at some time, is history, for the properties.
WritePolicy(q, n, p) ==
    /\ policies' = [policies EXCEPT ![n] = p]
    /\ requests' = [x \in Requests |->
           IF x = q THEN Idle
           ELSE [requests[x] EXCEPT
                    !.barred = {b \in @ : b[1] # n \/ Denies(p, b[2])},
                    !.given = @ \cup IF n \in requests[x].sub.carried THEN Gives(p) ELSE {}]]

putPolicy(q) ==
    \E n \in Names, file \in Files :
        /\ Spend("edits")
        /\ Parses(file)
        /\ WritePolicy(q, n, Parse(file))
        /\ insertChange(Entry(By(q), IF policies[n] = None THEN "create" ELSE "update", "acl-policy", n))
        /\ UNCHANGED <<aclOn, rules, tokens, logins, swept>>

DeleteACLPolicy(q) ==
    \E n \in Names :
        /\ Spend("edits")
        /\ policies[n] # None
        /\ WritePolicy(q, n, None)
        /\ insertChange(Entry(By(q), "delete", "acl-policy", n))
        /\ UNCHANGED <<aclOn, rules, tokens, logins, swept>>

apiPutPolicy(q) == Guarded(q, apiEndpoints.apiPutPolicy, None) /\ putPolicy(q)
savePolicy(q) == Guarded(q, pageRoutes.savePolicy, None) /\ putPolicy(q)
apiDeletePolicy(q) == Guarded(q, apiEndpoints.apiDeletePolicy, None) /\ DeleteACLPolicy(q)
deletePolicy(q) == Guarded(q, pageRoutes.deletePolicy, None) /\ DeleteACLPolicy(q)

\* ------------------------------------------------------------- binding rules

\* What the handler and the store check of a rule but the policy it binds.
RuleOK(r) ==
    /\ ValidSelector(r.selector)
    /\ r.type \in {"policy", "management"} /\ (r.type = "management" <=> r.name = None)

\* The policy is looked up first, in a request to the store of its own.
putBindingRule(q) ==
    \E id \in RuleIDs \cup {None}, r \in RuleInputs :
        /\ RuleOK(r) /\ (r.type = "policy" => policies[r.name] # None)
        /\ requests' = [requests EXCEPT ![q].pc = "bind", ![q].arg = [id |-> id, rule |-> r]]
        /\ UNCHANGED <<aclOn, tables, tokens, log, logins, swept, left>>

PutBindingRule(q) ==
    /\ requests[q].pc = "bind" /\ Spend("edits")
    /\ LET new == requests[q].arg.id = None
       IN  \E id \in RuleIDs :
               /\ IF new THEN \A e \in log : e.object # id
                         ELSE id = requests[q].arg.id /\ rules[id] # None
               /\ rules' = [rules EXCEPT ![id] = requests[q].arg.rule]
               /\ insertChange(Entry(By(q), IF new THEN "create" ELSE "update", "binding-rule", id))
    /\ Done(q)
    /\ UNCHANGED <<aclOn, policies, tokens, logins, swept>>

DeleteBindingRule(q) ==
    \E id \in RuleIDs :
        /\ Spend("edits")
        /\ rules[id] # None
        /\ rules' = [rules EXCEPT ![id] = None]
        /\ insertChange(Entry(By(q), "delete", "binding-rule", id))
        /\ Done(q)
        /\ UNCHANGED <<aclOn, policies, tokens, logins, swept>>

apiSaveBindingRule(q) == Guarded(q, apiEndpoints.apiSaveBindingRule, None) /\ putBindingRule(q)
saveBindingRule(q) == Guarded(q, pageRoutes.saveBindingRule, None) /\ putBindingRule(q)
apiDeleteBindingRule(q) == Guarded(q, apiEndpoints.apiDeleteBindingRule, None) /\ DeleteBindingRule(q)
deleteBindingRule(q) == Guarded(q, pageRoutes.deleteBindingRule, None) /\ DeleteBindingRule(q)

\* ------------------------------------------------------------------- tokens

identity(q) == IF By(q) \in Accessors THEN born[By(q)].identity ELSE None

\* Each policy asked for is looked up before the token is created.
createToken(q) ==
    \E t \in TokenInputs :
        /\ \A n \in t.policies : policies[n] # None
        /\ requests' = [requests EXCEPT ![q].pc = "mint", ![q].arg = t]
        /\ UNCHANGED <<aclOn, tables, tokens, log, logins, swept, left>>

mintToken(q) ==
    /\ requests[q].pc = "mint"
    /\ LET t == requests[q].arg
       IN  \E a \in Accessors :
              CreateACLToken(a, Token(t.type, t.policies, "created", identity(q), t.mortal, By(q)), By(q))
    /\ Done(q)
    /\ UNCHANGED <<aclOn, tables, logins, swept, left>>

\* mutant: it does not look whether the row was there.
RevokeACLToken_ghost(q) ==
    \E a \in Accessors :
        /\ Revoke({a}, By(q))
        /\ Done(q)
        /\ UNCHANGED <<aclOn, tables, logins, swept, left>>

RevokeACLToken(q) ==
    \E a \in live :
        /\ Revoke({a}, By(q))
        /\ Done(q)
        /\ UNCHANGED <<aclOn, tables, logins, swept, left>>

\* History: the tokens a revocation is about when it is asked, as the closure of
\* "was created by" over the tokens there are.
about(rev) ==
    LET sessions == {a \in live : born[a].origin = "login" /\ born[a].identity = rev.who}
        first == {a \in live : born[a].origin = "created" /\ rev.who \in {born[a].creator, born[a].creatorIdentity}}
        closed(S) == first \subseteq S /\ \A a \in live : born[a].creator \in S => a \in S
    IN  (IF rev.of = "sessions" THEN sessions
         ELSE {a \in live : \A S \in SUBSET live : closed(S) => a \in S}) \ expired

\* The list is read before the transaction that deletes.
revokeTokens(q) ==
    \E rev \in Revocations :
        /\ TokensToRevoke(rev) # {}
        /\ requests' = [requests EXCEPT ![q].pc = "sweep", ![q].todo = TokensToRevoke(rev), ![q].named = about(rev)]
        /\ UNCHANGED <<aclOn, tables, tokens, log, logins, swept, left>>

\* mutant: only what is still there and of this mode is deleted.
RevokeACLTokens_mode(q) ==
    /\ requests[q].pc = "sweep"
    /\ Revoke({a \in requests[q].todo : born[a].acl = aclOn}, By(q))
    /\ swept' = swept \cup requests[q].named
    /\ Done(q)
    /\ UNCHANGED <<aclOn, tables, logins, left>>

RevokeACLTokens(q) ==
    /\ requests[q].pc = "sweep"
    /\ Revoke(requests[q].todo, By(q))
    /\ swept' = swept \cup requests[q].named
    /\ Done(q)
    /\ UNCHANGED <<aclOn, tables, logins, left>>

apiCreateToken(q) == Guarded(q, apiEndpoints.apiCreateToken, None) /\ createToken(q)
createTokenForm(q) == Guarded(q, pageRoutes.createTokenForm, None) /\ createToken(q)
apiRevokeToken(q) == Guarded(q, apiEndpoints.apiRevokeToken, None) /\ RevokeACLToken(q)
revokeTokenForm(q) == Guarded(q, pageRoutes.revokeTokenForm, None) /\ RevokeACLToken(q)
apiRevokeTokens(q) == Guarded(q, apiEndpoints.apiRevokeTokens, None) /\ revokeTokens(q)
revokeTokensForm(q) == Guarded(q, pageRoutes.revokeTokensForm, None) /\ revokeTokens(q)

\* The bootstrap token has no row; a token that is gone already is no error.
apiRevokeSelf(q) ==
    /\ Guarded(q, apiEndpoints.apiRevokeSelf, None)
    /\ By(q) \in live
    /\ Revoke({By(q)}, By(q))
    /\ Done(q)
    /\ UNCHANGED <<aclOn, tables, logins, swept, left>>

\* ------------------------------------------------------------ a login's session

NoLogin == [pc |-> "idle", who |-> None, method |-> None, granted |-> New({}), token |-> None]

\* A person has proved who they are to the auth method.
BeginLogin(l, who, method) ==
    /\ logins[l].pc = "idle" /\ Spend("logins")
    /\ logins' = [logins EXCEPT ![l] = [NoLogin EXCEPT !.pc = "bind", !.who = who, !.method = method]]

\* newLoginSession up to the rules: with the ACL off every login can do everything.
bindLogin(l) ==
    /\ logins[l].pc = "bind"
    /\ LET granted == IF aclOn THEN Bind(logins[l].method, logins[l].who, {rules[i] : i \in {j \in RuleIDs : rules[j] # None}})
                               ELSE [management |-> TRUE, policies |-> {}]
       IN  logins' = [logins EXCEPT ![l].granted = granted,
                                    ![l].pc = IF Granted(granted) THEN "purge" ELSE "refused"]
    /\ UNCHANGED <<aclOn, tables, tokens, log, requests, swept, left>>

\* Its failure is only logged.
purgeTokens(l) ==
    /\ logins[l].pc = "purge"
    /\ \E S \in SUBSET (live \cap expired) : DeleteExpiredTokens(S)
    /\ logins' = [logins EXCEPT ![l].pc = "create"]
    /\ UNCHANGED <<aclOn, tables, requests, swept, left>>

\* mutant: management keeps the policies it was bound with.
createSession_keepsPolicies(l) ==
    /\ logins[l].pc = "create"
    /\ LET g == logins[l].granted
       IN  \E a \in Accessors :
              /\ CreateACLToken(a, Token(IF g.management THEN "management" ELSE "client", g.policies,
                                         "login", logins[l].who, TRUE, None), None)
              /\ logins' = [logins EXCEPT ![l].pc = "made", ![l].token = a]
    /\ UNCHANGED <<aclOn, tables, requests, swept, left>>

createSession(l) ==
    /\ logins[l].pc = "create"
    /\ LET g == logins[l].granted
       IN  \E a \in Accessors :
              /\ CreateACLToken(a, Token(IF g.management THEN "management" ELSE "client",
                                         IF g.management THEN {} ELSE g.policies,
                                         "login", logins[l].who, TRUE, None), None)
              /\ logins' = [logins EXCEPT ![l].pc = "made", ![l].token = a]
    /\ UNCHANGED <<aclOn, tables, requests, swept, left>>

\* The login has been answered, with its session, a refusal or an error of the store.
EndLogin(l) ==
    /\ logins[l].pc # "idle"
    /\ logins' = [logins EXCEPT ![l] = NoLogin]

\* -------------------------------------------------------- clock and process

Expire ==
    \E a \in live \ expired :
        /\ born[a].mortal /\ Spend("expiries")
        /\ expired' = expired \cup {a}
        /\ UNCHANGED <<aclOn, tables, live, born, log, requests, logins, swept>>

\* A new process, with the mode its configuration says now; it deletes what has expired.
Restart ==
    /\ Spend("restarts")
    /\ aclOn' \in BOOLEAN
    /\ requests' = [q \in Requests |-> Idle]
    /\ logins' = [l \in Logins |-> NoLogin]
    /\ \E S \in SUBSET (live \cap expired) : DeleteExpiredTokens(S)
    /\ UNCHANGED <<tables, swept>>

\* ------------------------------------------------------------- specification

Begin(start) ==
    /\ aclOn = start.acl /\ policies = start.policies /\ rules = start.rules
    /\ born = start.born /\ left = start.left
    /\ live = issued
    /\ expired = {}
    /\ log = {Entry(born[a].creator, "create", "token", a) : a \in issued}
    /\ requests = [q \in Requests |-> Idle]
    /\ logins = [l \in Logins |-> NoLogin]
    /\ swept = {}

Init == \E start \in Starts : Begin(start)

Serve(q) ==
    \/ tokenSubject(q) \/ clientACL(q) \/ Answer(q)
    \/ apiAction(q) \/ pageAction(q) \/ LogBackup(q) \/ SendBackup(q)
    \/ apiPutPolicy(q) \/ savePolicy(q) \/ apiDeletePolicy(q) \/ deletePolicy(q)
    \/ apiSaveBindingRule(q) \/ saveBindingRule(q) \/ PutBindingRule(q)
    \/ apiDeleteBindingRule(q) \/ deleteBindingRule(q)
    \/ apiCreateToken(q) \/ createTokenForm(q) \/ mintToken(q)
    \/ apiRevokeToken(q) \/ revokeTokenForm(q) \/ apiRevokeSelf(q)
    \/ apiRevokeTokens(q) \/ revokeTokensForm(q) \/ RevokeACLTokens(q)

MakeSession(l) == bindLogin(l) \/ purgeTokens(l) \/ createSession(l)

\* A login begins and ends as the auth method says (Login); a logout revokes the
\* session it was asked with.
LogIn(l) ==
    \/ \E who \in People, m \in Methods : BeginLogin(l, who, m) /\ UNCHANGED <<aclOn, tables, tokens, log, requests, swept>>
    \/ MakeSession(l)
    \/ EndLogin(l) /\ UNCHANGED <<aclOn, tables, tokens, log, requests, swept, left>>

EndSession ==
    \E a \in live :
        /\ born[a].origin = "login"
        /\ Revoke({a}, a)
        /\ UNCHANGED <<aclOn, tables, requests, logins, swept, left>>

Next ==
    \/ \E q \in Requests : Serve(q)
    \/ \E l \in Logins : LogIn(l)
    \/ EndSession \/ Expire \/ Restart

Spec == Init /\ [][Next]_vars

\* -------------------------------------------------------------- properties

\* Every variable keeps the shape its column, field or cookie has.
AccessTypeOK ==
    /\ aclOn \in BOOLEAN
    /\ live \subseteq issued /\ expired \subseteq issued /\ swept \subseteq issued
    /\ \A a \in issued :
           /\ born[a].type \in {"management", "client"} /\ born[a].origin \in {"login", "created"}
           /\ born[a].policies \subseteq Names /\ born[a].acl \in BOOLEAN
           /\ born[a].type = "management" => born[a].policies = {}
           /\ born[a].origin = "login" => born[a].mortal /\ born[a].identity \in People
    /\ \A q \in Requests :
           /\ requests[q].sub.by \in Accessors \cup {Bootstrap, None}
           /\ requests[q].pc # "idle" => requests[q].sub.by # None
           /\ requests[q].sub.acl.management => requests[q].todo \subseteq Accessors
    /\ \A l \in Logins : logins[l].pc = "made" => logins[l].token \in issued

created(a) == {e \in log : e.action = "create" /\ e.kind = "token" /\ e.object = a}
revoked(a) == {e \in log : e.action = "revoke" /\ e.object = a}

\* acl_changes tells the whole story of acl_tokens (CreateACLToken, RevokeACLToken
\* and RevokeACLTokens write both in one transaction): a token has one creation on
\* record, one that still has its row was never revoked, and one that lost its row
\* was revoked on record or had expired, however the two ways to revoke, the purge
\* of a login and a restart fall between each other.
TokenStory ==
    \A a \in Accessors :
        /\ IF a \in issued THEN Cardinality(created(a)) = 1 ELSE created(a) \cup revoked(a) = {}
        /\ a \in live => revoked(a) = {}
        /\ a \in issued \ live => revoked(a) # {} \/ a \in expired

\* A revocation in one action takes all it is about (store/acl.go: "the tokens a
\* person or a token created together with, in turn, the tokens those created"):
\* once it has ended, none of the tokens it was about when it was asked is left,
\* whatever mode they are of, whoever revoked some of them in between.
SweepComplete == swept \cap live = {}

allPowerful(by) ==
    \/ by = Bootstrap /\ aclOn
    \/ by \in issued /\ born[by].acl = aclOn /\ (aclOn => born[by].type = "management")

\* A request passes its check into something global: a backup, a fetch, a pause of
\* everything.
takes(q, c) ==
    /\ requests[q].pc = "handle"
    /\ \/ c = "backup" /\ requests'[q].pc = "backup"
       \/ requests'[q].pc = "acted" /\ requests'[q].arg = [cap |-> c, ns |-> None]

\* By its token alone, or by a policy its token carries.
lets(q, c) ==
    \/ allPowerful(By(q))
    \/ By(q) \in issued /\ born[By(q)].acl = aclOn /\ c \in requests[q].given

entitled(e) ==
    \/ allPowerful(e.by)
    \/ e.by \in issued /\ e.action = "revoke" /\ e.object = e.by
    \/ e.action = "backup" /\ \E q \in Requests : By(q) = e.by /\ takes(q, "backup")
    \/ e.by = None /\ e.action = "create" /\ e.kind = "token" /\ born'[e.object].origin = "login"

\* What is logged or done to everything was let by the token it is done with. The
\* entries are of the bootstrap token while the ACL is on, of a management token of
\* the mode the process runs in (any token of it with the ACL off), of a token that
\* revokes itself, of a login that makes its session or of a request that takes a
\* backup; and a client token takes a backup, a fetch or a pause of everything only
\* if a policy it carries has given that at some time since its request was let in.
\* It holds across a change of mode, for a token revoked and for policies rewritten
\* while the request was in progress.
ChangesAuthorized ==
    [][ /\ \A e \in log' \ log : entitled(e)
        /\ \A q \in Requests, c \in globalCapabilities : takes(q, c) => lets(q, c) ]_vars

\* A namespace that one of a client token's policies has denied by name, from
\* before its request was let in until the request acts, is never acted on: not
\* when the policies are read one at a time between the writes of other requests
\* (web/access.go clientACL), and not because another policy grants it.
DenyHolds ==
    \A q \in Requests : requests[q].pc = "acted" =>
        \A b \in requests[q].barred : b[2] # requests[q].arg.ns

\* What a list is filtered by and what a check says are the same: the query built
\* from Scope finds exactly the namespaces Allow lets through, for every ACL a
\* request has read and every capability.
ScopeAgrees ==
    \A q \in {r \in Requests : requests[r].pc = "handle"}, ns \in Namespaces, c \in namespaceCapabilities :
        ScopeMatch(Scope(requests[q].sub.acl, c), ns) <=> Allow(requests[q].sub.acl, ns, c)

=============================================================================
