---------------------------- MODULE LoginProofs ----------------------------
(***************************************************************************)
(* Proofs about logging in and out, for every set of browsers, clients,    *)
(* flows and people: it implements Access, which carries the theorems over *)
(* to it, and a session goes where its login began.                        *)
(***************************************************************************)
EXTENDS Login, AccessProofs

-----------------------------------------------------------------------------
(***************************************************************************)
(* The inductive invariant.                                                *)
(***************************************************************************)
Session(a) == a \in issued /\ born[a].origin = "login"

Begun(f) == f \in Flows /\ flows[f] # None
Home(f) == IF flows[f].cli = None THEN flows[f].by ELSE flows[f].cli

\* The flow f goes to x, and who is the one who authenticated in it.
Bound(x, f, who) == Begun(f) /\ x = Home(f) /\ [flow |-> f, who |-> who] \in answers

VisitOK(l) ==
    LET v == visits[l] IN
    /\ DOMAIN v = {"pc", "user", "right", "to", "flow", "token"}
    /\ v.right => v.user \in People
    /\ v.pc \in {"slot", "compare"} => v.flow = None
    /\ v.pc = "logout" => v.token = None \/ Session(v.token)
    /\ v.pc = "session" /\ v.flow # None => Bound(v.to, v.flow, logins[l].who)

VisitsOK == DOMAIN visits = Logins /\ \A l \in Logins : VisitOK(l)

\* A session that is made and not yet answered is nobody's so far.
MadeOK ==
    \A l \in Logins : logins[l].pc = "made" =>
        /\ Session(logins[l].token)
        /\ born[logins[l].token].identity = logins[l].who
        /\ \A h \in handed : h.token # logins[l].token
        /\ \A c \in codes : c.token # logins[l].token
        /\ \A m \in Logins \ {l} : logins[m].pc = "made" => logins[m].token # logins[l].token

CodesOK ==
    \A c \in codes :
        /\ Session(c.token) /\ Bound(c.challenge, c.flow, born[c.token].identity)
        /\ \A h \in handed : h.token # c.token
        /\ \A d \in codes : d.token = c.token => d = c

HandedOK ==
    \A h \in handed :
        /\ h.token \in issued
        /\ h.flow # None => Bound(h.to, h.flow, born[h.token].identity)
        /\ \A g \in handed : g.token = h.token => g = h

CookiesOK ==
    /\ DOMAIN flows = Flows /\ DOMAIN cookies = Browsers
    /\ \A b \in Browsers :
           /\ DOMAIN cookies[b] = {"flow", "session", "token"}
           /\ cookies[b].flow # None => Begun(cookies[b].flow) /\ flows[cookies[b].flow].by = b
           /\ cookies[b].session = None \/ cookies[b].token = None

AnswersOK == \A a \in answers : a = [flow |-> a.flow, who |-> a.who] /\ a.who \in People /\ Begun(a.flow)

ClientsOK ==
    /\ DOMAIN clients = Clients
    /\ \A k \in Clients :
           /\ DOMAIN clients[k] = {"pc", "flow", "saved"}
           /\ clients[k].saved = None \/ Session(clients[k].saved)

EndedOK == ended \subseteq issued /\ ended \cap live = {}

LoginInv ==
    VisitsOK /\ MadeOK /\ CodesOK /\ HandedOK /\ CookiesOK /\ AnswersOK /\ ClientsOK /\ EndedOK

-----------------------------------------------------------------------------
(***************************************************************************)
(* What no step takes back.                                                *)
(***************************************************************************)

\* Tokens keep their columns, and no row comes back.
TokensKeep ==
    /\ \A a \in issued : a \in issued' /\ born'[a] = born[a]
    /\ live' \cap issued \subseteq live

LEMMA CreateForward ==
    ASSUME Types, NEW a \in Accessors, NEW t, NEW by, CreateACLToken(a, t, by)
    PROVE  TokensKeep
<1>1. a \notin issued /\ born' = [born EXCEPT ![a] = t] /\ live' = live \cup {a}
  BY DEF CreateACLToken
<1> QED BY <1>1 DEF TokensKeep, issued, Types

LEMMA RowsGo ==
    ASSUME born' = born, live' \subseteq live
    PROVE  TokensKeep
BY DEF TokensKeep, issued

LEMMA ServeForward ==
    ASSUME AccessInv, NEW q \in Requests, Serve(q), ~mintToken(q)
    PROVE  born' = born /\ live' \subseteq live /\ logins' = logins
<1> USE DEF tokens
<1>1. CASE tokenSubject(q) \/ clientACL(q) \/ Answer(q)
  BY <1>1 DEF tokenSubject, clientACL, Answer
<1>2. CASE apiAction(q) \/ pageAction(q) \/ LogBackup(q) \/ SendBackup(q)
  BY <1>2 DEF apiAction, pageAction, Act, LogBackup, SendBackup
<1>3. CASE apiPutPolicy(q) \/ savePolicy(q) \/ apiDeletePolicy(q) \/ deletePolicy(q)
  BY <1>3 DEF apiPutPolicy, savePolicy, apiDeletePolicy, deletePolicy, putPolicy, DeleteACLPolicy
<1>4. CASE apiSaveBindingRule(q) \/ saveBindingRule(q) \/ PutBindingRule(q) \/ apiDeleteBindingRule(q) \/ deleteBindingRule(q)
  BY <1>4 DEF apiSaveBindingRule, saveBindingRule, putBindingRule, PutBindingRule, apiDeleteBindingRule,
              deleteBindingRule, DeleteBindingRule
<1>5. CASE apiCreateToken(q) \/ createTokenForm(q)
  BY <1>5 DEF apiCreateToken, createTokenForm, createToken
<1>6. CASE apiRevokeToken(q) \/ revokeTokenForm(q) \/ apiRevokeSelf(q) \/ RevokeACLTokens(q)
  BY <1>6 DEF apiRevokeToken, revokeTokenForm, RevokeACLToken, apiRevokeSelf, RevokeACLTokens, Revoke
<1>7. CASE apiRevokeTokens(q) \/ revokeTokensForm(q)
  BY <1>7 DEF apiRevokeTokens, revokeTokensForm, revokeTokens
<1> QED BY <1>1, <1>2, <1>3, <1>4, <1>5, <1>6, <1>7 DEF Serve

LEMMA NextForward ==
    ASSUME AccessInv, [Next]_vars
    PROVE  TokensKeep
<1>1. ASSUME NEW q \in Requests, mintToken(q) PROVE TokensKeep
  <2>0. PICK a \in Accessors : \E t, by : CreateACLToken(a, t, by)
    BY <1>1 DEF mintToken
  <2>1. PICK t, by : CreateACLToken(a, t, by)
    BY <2>0
  <2> QED BY <2>1, CreateForward DEF AccessInv
<1>2. ASSUME NEW q \in Requests, Serve(q), ~mintToken(q) PROVE TokensKeep
  BY <1>2, ServeForward, RowsGo
<1>3. ASSUME NEW l \in Logins, LogIn(l) PROVE TokensKeep
  <2>1. CASE createSession(l)
    <3>0. PICK a \in Accessors : \E t, by : CreateACLToken(a, t, by)
      BY <2>1 DEF createSession
    <3>1. PICK t, by : CreateACLToken(a, t, by)
      BY <3>0
    <3> QED BY <3>1, CreateForward DEF AccessInv
  <2>2. CASE purgeTokens(l)
    <3>1. born' = born /\ live' \subseteq live
      BY <2>2 DEF purgeTokens, DeleteExpiredTokens
    <3> QED BY <3>1, RowsGo
  <2>3. CASE UNCHANGED tokens
    <3>1. born' = born /\ live' \subseteq live
      BY <2>3 DEF tokens
    <3> QED BY <3>1, RowsGo
  <2>4. createSession(l) \/ purgeTokens(l) \/ UNCHANGED tokens
    BY <1>3 DEF LogIn, MakeSession, bindLogin
  <2> QED BY <2>1, <2>2, <2>3, <2>4
<1>4. CASE EndSession \/ Expire \/ Restart \/ UNCHANGED vars
  <2>1. born' = born /\ live' \subseteq live
    BY <1>4 DEF EndSession, Expire, Restart, Revoke, DeleteExpiredTokens, vars
  <2> QED BY <2>1, RowsGo
<1> QED BY <1>1, <1>2, <1>3, <1>4 DEF Next

\* Flows that have begun and answers that have come stay.
WayKeeps ==
    /\ DOMAIN flows' = Flows
    /\ \A f \in Flows : flows[f] # None => flows'[f] = flows[f]
    /\ answers \subseteq answers'

Forward == TokensKeep /\ WayKeeps

LEMMA SessionStays ==
    ASSUME TokensKeep, NEW a, Session(a)
    PROVE  Session(a)'
BY DEF TokensKeep, Session

LEMMA BoundStays ==
    ASSUME WayKeeps, NEW x, NEW f, NEW who, Bound(x, f, who)
    PROVE  Bound(x, f, who)'
<1>1. flows'[f] = flows[f] /\ Begun(f)'
  BY DEF WayKeeps, Bound, Begun
<1>2. Home(f)' = Home(f)
  BY <1>1 DEF Home
<1> QED BY <1>1, <1>2 DEF WayKeeps, Bound

LEMMA WayStill ==
    ASSUME CookiesOK, UNCHANGED <<flows, answers>>
    PROVE  WayKeeps
BY DEF CookiesOK, WayKeeps

-----------------------------------------------------------------------------
(***************************************************************************)
(* Each part, in a step that leaves what it is about.                      *)
(***************************************************************************)

LEMMA VisitStays ==
    ASSUME Forward, NEW l \in Logins, VisitOK(l), visits'[l] = visits[l],
           visits[l].pc = "session" => logins'[l].who = logins[l].who
    PROVE  VisitOK(l)'
<1>1. PICK v : v = visits[l]
  OBVIOUS
<1>2. PICK who : who = logins[l].who
  OBVIOUS
<1>3. /\ DOMAIN v = {"pc", "user", "right", "to", "flow", "token"}
      /\ v.right => v.user \in People
      /\ v.pc \in {"slot", "compare"} => v.flow = None
      /\ v.pc = "logout" => v.token = None \/ Session(v.token)
      /\ v.pc = "session" /\ v.flow # None => Bound(v.to, v.flow, who)
  BY <1>1, <1>2 DEF VisitOK
<1>4. Session(v.token) => Session(v.token)'
  BY SessionStays DEF Forward
<1>5. Bound(v.to, v.flow, who) => Bound(v.to, v.flow, who)'
  BY BoundStays DEF Forward
<1>6. visits'[l] = v /\ (v.pc = "session" => logins'[l].who = who)
  BY <1>1, <1>2
<1> QED BY <1>3, <1>4, <1>5, <1>6 DEF VisitOK, Session, Bound, Begun, Home

\* One visit moves, with its login.
LEMMA VisitsMove ==
    ASSUME VisitsOK, Forward, NEW l \in Logins, DOMAIN visits' = Logins,
           \A m \in Logins \ {l} : visits'[m] = visits[m] /\ logins'[m] = logins[m],
           VisitOK(l)'
    PROVE  VisitsOK'
<1>1. \A m \in Logins \ {l} : VisitOK(m)'
  BY VisitStays DEF VisitsOK
<1> QED BY <1>1 DEF VisitsOK

LEMMA VisitsStay ==
    ASSUME VisitsOK, Forward, visits' = visits,
           \A l \in Logins : visits[l].pc = "session" => logins'[l].who = logins[l].who
    PROVE  VisitsOK'
<1>1. \A l \in Logins : VisitOK(l)'
  BY VisitStays DEF VisitsOK
<1> QED BY <1>1 DEF VisitsOK

LEMMA MadeStays ==
    ASSUME MadeOK, TokensKeep, handed' = handed, codes' \subseteq codes,
           \A l \in Logins : logins'[l].pc = "made" => logins'[l] = logins[l]
    PROVE  MadeOK'
BY DEF MadeOK, TokensKeep, Session

LEMMA CodesStay ==
    ASSUME CodesOK, Forward, handed' = handed, codes' \subseteq codes
    PROVE  CodesOK'
<1>1. ASSUME NEW c \in codes PROVE Session(c.token)' /\ Bound(c.challenge, c.flow, born[c.token].identity)'
  <2>1. PICK who : who = born[c.token].identity
    OBVIOUS
  <2>2. Session(c.token) /\ Bound(c.challenge, c.flow, who)
    BY <2>1 DEF CodesOK
  <2>3. Session(c.token)' /\ Bound(c.challenge, c.flow, who)'
    BY <2>2, SessionStays, BoundStays DEF Forward
  <2>4. born'[c.token].identity = who
    BY <2>1, <2>2 DEF Forward, TokensKeep, Session
  <2> QED BY <2>3, <2>4 DEF Bound, Begun, Home
<1> QED BY <1>1 DEF CodesOK

LEMMA HandedStays ==
    ASSUME HandedOK, Forward, handed' = handed
    PROVE  HandedOK'
<1>1. ASSUME NEW h \in handed, h.flow # None PROVE Bound(h.to, h.flow, born[h.token].identity)'
  <2>1. PICK who : who = born[h.token].identity
    OBVIOUS
  <2>2. h.token \in issued /\ Bound(h.to, h.flow, who)
    BY <1>1, <2>1 DEF HandedOK
  <2>3. Bound(h.to, h.flow, who)'
    BY <2>2, BoundStays DEF Forward
  <2>4. born'[h.token].identity = who
    BY <2>1, <2>2 DEF Forward, TokensKeep
  <2> QED BY <2>3, <2>4 DEF Bound, Begun, Home
<1>2. \A h \in handed : h.token \in issued'
  BY DEF HandedOK, Forward, TokensKeep
<1> QED BY <1>1, <1>2 DEF HandedOK

LEMMA CookiesStay ==
    ASSUME CookiesOK, WayKeeps, cookies' = cookies
    PROVE  CookiesOK'
BY DEF CookiesOK, WayKeeps, Begun

LEMMA AnswersStay ==
    ASSUME AnswersOK, WayKeeps, answers' = answers
    PROVE  AnswersOK'
BY DEF AnswersOK, WayKeeps, Begun

LEMMA ClientsStay ==
    ASSUME ClientsOK, TokensKeep, DOMAIN clients' = Clients,
           \A k \in Clients : DOMAIN clients'[k] = DOMAIN clients[k] /\ clients'[k].saved \in {None, clients[k].saved}
    PROVE  ClientsOK'
BY DEF ClientsOK, TokensKeep, Session

LEMMA EndedStays ==
    ASSUME EndedOK, TokensKeep, ended' = ended
    PROVE  EndedOK'
BY DEF EndedOK, TokensKeep

-----------------------------------------------------------------------------
(***************************************************************************)
(* The steps in which Access stands still.                                 *)
(***************************************************************************)

LEMMA AccessStill ==
    ASSUME UNCHANGED accessVars
    PROVE  UNCHANGED vars /\ TokensKeep
<1>1. UNCHANGED vars
  BY DEF accessVars, access, vars, tables, tokens
<1>2. TokensKeep
  BY <1>1, RowsGo DEF vars
<1> QED BY <1>1, <1>2

\* Everything but the visits.
LEMMA OthersStay ==
    ASSUME LoginInv, TokensKeep, UNCHANGED <<browserVars, codes, handed, clients, ended>>,
           \A l \in Logins : logins'[l].pc = "made" => logins'[l] = logins[l]
    PROVE  /\ Forward
           /\ MadeOK' /\ CodesOK' /\ HandedOK' /\ CookiesOK' /\ AnswersOK' /\ ClientsOK' /\ EndedOK'
<1>1. UNCHANGED <<cookies, flows, answers>>
  BY DEF browserVars
<1>2. WayKeeps
  BY <1>1, WayStill DEF LoginInv
<1>3. Forward
  BY <1>2 DEF Forward
<1>4. MadeOK' /\ CodesOK' /\ HandedOK'
  BY <1>3, MadeStays, CodesStay, HandedStays DEF LoginInv
<1>5. CookiesOK' /\ AnswersOK' /\ EndedOK'
  BY <1>1, <1>2, CookiesStay, AnswersStay, EndedStays DEF LoginInv
<1>6. ClientsOK'
  BY ClientsStay DEF LoginInv, ClientsOK
<1> QED BY <1>3, <1>4, <1>5, <1>6

LEMMA EndsOK ==
    ASSUME NEW l \in Logins, visits'[l] = NoVisit
    PROVE  VisitOK(l)'
BY DEF NoVisit, VisitOK

\* One visit moves.
LEMMA VisitMoves ==
    ASSUME LoginInv, UNCHANGED <<browserVars, codes, handed, clients, ended, accessVars>>,
           NEW l \in Logins, NEW v, visits' = [visits EXCEPT ![l] = v], VisitOK(l)'
    PROVE  [Next]_vars /\ LoginInv'
<1>1. UNCHANGED vars /\ TokensKeep /\ logins' = logins
  BY AccessStill DEF accessVars
<1>2. /\ Forward
      /\ MadeOK' /\ CodesOK' /\ HandedOK' /\ CookiesOK' /\ AnswersOK' /\ ClientsOK' /\ EndedOK'
  BY <1>1, OthersStay
<1>3. VisitsOK'
  BY <1>1, <1>2, VisitsMove DEF LoginInv, VisitsOK
<1> QED BY <1>1, <1>2, <1>3 DEF LoginInv

LEMMA CheckKeeps ==
    ASSUME LoginInv, NEW l \in Logins, check(l)
    PROVE  [Next]_vars /\ LoginInv'
<1>1. PICK u \in Usernames, right \in BOOLEAN, to \in Browsers \cup Clients \cup {None} :
         /\ right => u \in People
         /\ visits' = [visits EXCEPT ![l] = [NoVisit EXCEPT !.pc = "slot", !.user = u, !.right = right, !.to = to]]
         /\ UNCHANGED <<browserVars, failures, cliVars, history, accessVars>>
  BY DEF check
<1> DEFINE v == [NoVisit EXCEPT !.pc = "slot", !.user = u, !.right = right, !.to = to]
<1>2. /\ DOMAIN v = {"pc", "user", "right", "to", "flow", "token"}
      /\ v.pc = "slot" /\ v.user = u /\ v.right = right /\ v.flow = None
  BY DEF NoVisit
<1>3. visits' = [visits EXCEPT ![l] = v]
  BY <1>1
<1> HIDE DEF v
<1>4. VisitOK(l)'
  BY <1>1, <1>2, <1>3 DEF VisitOK, LoginInv, VisitsOK
<1> QED BY <1>1, <1>3, <1>4, VisitMoves DEF cliVars, history

LEMMA SlotKeeps ==
    ASSUME LoginInv, NEW l \in Logins, takeSlot(l)
    PROVE  [Next]_vars /\ LoginInv'
<1>1. visits[l].pc = "slot" /\ UNCHANGED <<browserVars, failures, cliVars, history, accessVars>>
  BY DEF takeSlot
<1>2. CASE visits' = [visits EXCEPT ![l] = NoVisit]
  <2>1. VisitOK(l)'
    BY <1>2, EndsOK DEF LoginInv, VisitsOK
  <2> QED BY <1>1, <1>2, <2>1, VisitMoves DEF cliVars, history
<1>3. CASE visits' = [visits EXCEPT ![l].pc = "compare"]
  <2>1. PICK v : v = [visits[l] EXCEPT !.pc = "compare"]
    OBVIOUS
  <2>2. visits' = [visits EXCEPT ![l] = v]
    BY <1>3, <2>1
  <2>3. VisitOK(l)'
    BY <1>1, <1>3 DEF VisitOK, LoginInv, VisitsOK
  <2> QED BY <1>1, <2>2, <2>3, VisitMoves DEF cliVars, history
<1> QED BY <1>2, <1>3 DEF takeSlot, Ends

LEMMA GiveUpKeeps ==
    ASSUME LoginInv, NEW l \in Logins, giveUp(l)
    PROVE  [Next]_vars /\ LoginInv'
<1>1. visits' = [visits EXCEPT ![l] = NoVisit] /\ UNCHANGED <<browserVars, failures, cliVars, history, accessVars>>
  BY DEF giveUp, Ends
<1>2. VisitOK(l)'
  BY <1>1, EndsOK DEF LoginInv, VisitsOK
<1> QED BY <1>1, <1>2, VisitMoves DEF cliVars, history

LEMMA LogoutKeeps ==
    ASSUME AccessInv, LoginInv, NEW l \in Logins, logout(l)
    PROVE  [Next]_vars /\ LoginInv'
<1>1. PICK b \in Browsers :
         /\ visits' = [visits EXCEPT ![l] = [NoVisit EXCEPT !.pc = "logout", !.user = b, !.token =
                IF cookies[b].session # None /\ ACLTokenBySecret(cookies[b].session) /\ born[cookies[b].session].origin = "login"
                THEN cookies[b].session ELSE None]]
         /\ UNCHANGED <<browserVars, failures, cliVars, history, accessVars>>
  BY DEF logout
<1>2. PICK t : /\ visits' = [visits EXCEPT ![l] = [NoVisit EXCEPT !.pc = "logout", !.user = b, !.token = t]]
               /\ t = None \/ Session(t)
  BY <1>1 DEF Session, ACLTokenBySecret, AccessInv, Types
<1> DEFINE v == [NoVisit EXCEPT !.pc = "logout", !.user = b, !.token = t]
<1>3. /\ DOMAIN v = {"pc", "user", "right", "to", "flow", "token"}
      /\ v.pc = "logout" /\ v.right = FALSE /\ v.token = t
  BY DEF NoVisit
<1>4. visits' = [visits EXCEPT ![l] = v]
  BY <1>2
<1> HIDE DEF v
<1>5. Session(t) => Session(t)'
  BY <1>1, AccessStill, SessionStays
<1>6. VisitOK(l)'
  BY <1>2, <1>3, <1>4, <1>5 DEF VisitOK, LoginInv, VisitsOK, Session
<1> QED BY <1>1, <1>4, <1>6, VisitMoves DEF cliVars, history

\* What the properties here do not look at.
LEMMA CountsAside ==
    ASSUME LoginInv, UNCHANGED <<accessVars, visits, codes, handed, clients, ended>>, UNCHANGED <<cookies, flows>>,
           answers' = answers
    PROVE  [Next]_vars /\ LoginInv'
<1>1. UNCHANGED vars /\ TokensKeep /\ logins' = logins
  BY AccessStill DEF accessVars
<1>2. Forward
  BY <1>1, WayStill DEF Forward, LoginInv
<1>3. VisitsOK' /\ MadeOK' /\ CodesOK' /\ HandedOK'
  BY <1>1, <1>2, VisitsStay, MadeStays, CodesStay, HandedStays DEF LoginInv
<1>4. CookiesOK' /\ AnswersOK' /\ EndedOK'
  BY <1>2, CookiesStay, AnswersStay, EndedStays DEF LoginInv, Forward
<1>5. ClientsOK'
  BY <1>1, ClientsStay DEF LoginInv, ClientsOK
<1> QED BY <1>1, <1>3, <1>4, <1>5 DEF LoginInv

LEMMA AsideKeep ==
    ASSUME LoginInv, expire \/ Lapse \/ CodeLate
    PROVE  [Next]_vars /\ LoginInv'
BY CountsAside DEF expire, Lapse, CodeLate, browserVars, cliVars, history

LEMMA AuthenticateKeeps ==
    ASSUME LoginInv, Authenticate
    PROVE  [Next]_vars /\ LoginInv'
<1>1. PICK f \in Flows, who \in People :
         flows[f] # None /\ answers' = answers \cup {[flow |-> f, who |-> who]}
  BY DEF Authenticate
<1>2. UNCHANGED <<cookies, flows, visits, codes, handed, clients, ended, accessVars>>
  BY DEF Authenticate, cliVars, history
<1>3. UNCHANGED vars /\ TokensKeep /\ logins' = logins
  BY <1>2, AccessStill DEF accessVars
<1>4. WayKeeps
  BY <1>1, <1>2 DEF WayKeeps, LoginInv, CookiesOK
<1>5. VisitsOK' /\ MadeOK' /\ CodesOK' /\ HandedOK'
  BY <1>2, <1>3, <1>4, VisitsStay, MadeStays, CodesStay, HandedStays DEF LoginInv, Forward
<1>6. CookiesOK' /\ EndedOK' /\ ClientsOK'
  BY <1>2, <1>3, <1>4, CookiesStay, EndedStays, ClientsStay DEF LoginInv, ClientsOK
<1>7. AnswersOK'
  BY <1>1, <1>2 DEF AnswersOK, LoginInv, Begun
<1> QED BY <1>3, <1>5, <1>6, <1>7 DEF LoginInv

\* A browser's cookies change, and nothing else that matters here.
LEMMA CookiesMove ==
    ASSUME LoginInv, UNCHANGED <<accessVars, visits, codes, handed, clients, ended>>, answers' = answers,
           WayKeeps, CookiesOK'
    PROVE  [Next]_vars /\ LoginInv'
<1>1. UNCHANGED vars /\ TokensKeep /\ logins' = logins
  BY AccessStill DEF accessVars
<1>2. VisitsOK' /\ MadeOK' /\ CodesOK' /\ HandedOK'
  BY <1>1, VisitsStay, MadeStays, CodesStay, HandedStays DEF LoginInv, Forward
<1>3. AnswersOK' /\ EndedOK' /\ ClientsOK'
  BY <1>1, AnswersStay, EndedStays, ClientsStay DEF LoginInv, ClientsOK
<1> QED BY <1>1, <1>2, <1>3 DEF LoginInv

LEMMA StartKeeps ==
    ASSUME LoginInv, NEW b \in Browsers, start(b)
    PROVE  [Next]_vars /\ LoginInv'
<1>1. PICK f \in Flows, k \in Clients \cup {None} :
         /\ flows[f] = None
         /\ flows' = [flows EXCEPT ![f] = [by |-> b, cli |-> k]]
         /\ cookies' = [cookies EXCEPT ![b].flow = f]
  BY DEF start
<1>2. UNCHANGED <<accessVars, visits, codes, handed, clients, ended>> /\ answers' = answers
  BY DEF start, cliVars, history
<1> DEFINE r == [by |-> b, cli |-> k]
<1>3. r # None /\ r.by = b
  BY LoginAssumption
<1>4. flows' = [flows EXCEPT ![f] = r]
  BY <1>1
<1> HIDE DEF r
<1>5. WayKeeps
  BY <1>1, <1>2, <1>4 DEF WayKeeps, LoginInv, CookiesOK
<1>6. CookiesOK'
  BY <1>1, <1>3, <1>4 DEF CookiesOK, LoginInv, Begun
<1> QED BY <1>2, <1>5, <1>6, CookiesMove

LEMMA BrowserKeeps ==
    ASSUME LoginInv, NEW b \in Browsers, refuseCallback(b) \/ pasteToken(b)
    PROVE  [Next]_vars /\ LoginInv'
<1>1. UNCHANGED <<accessVars, visits, codes, handed, clients, ended>> /\ answers' = answers /\ flows' = flows
  BY DEF refuseCallback, pasteToken, cliVars, history
<1>2. WayKeeps
  BY <1>1, WayStill DEF LoginInv
<1>3. \/ cookies' = [cookies EXCEPT ![b].flow = None]
      \/ \E a : cookies' = [cookies EXCEPT ![b].session = None, ![b].token = a]
  BY DEF refuseCallback, pasteToken
<1>4. CookiesOK'
  BY <1>1, <1>3 DEF CookiesOK, LoginInv, Begun
<1> QED BY <1>1, <1>2, <1>4, CookiesMove

LEMMA ClientKeeps ==
    ASSUME LoginInv, NEW k \in Clients, runLogin(k) \/ loginTimeout(k)
    PROVE  [Next]_vars /\ LoginInv'
<1>1. UNCHANGED <<accessVars, visits, codes, handed, ended>> /\ UNCHANGED <<cookies, flows, answers>>
  BY DEF runLogin, loginTimeout, browserVars, history
<1>2. \E pc : clients' = [clients EXCEPT ![k].pc = pc]
  BY DEF runLogin, loginTimeout
<1>3. UNCHANGED vars /\ TokensKeep /\ logins' = logins
  BY <1>1, AccessStill DEF accessVars
<1>4. Forward
  BY <1>1, <1>3, WayStill DEF Forward, LoginInv
<1>5. VisitsOK' /\ MadeOK' /\ CodesOK' /\ HandedOK'
  BY <1>1, <1>3, <1>4, VisitsStay, MadeStays, CodesStay, HandedStays DEF LoginInv
<1>6. CookiesOK' /\ AnswersOK' /\ EndedOK'
  BY <1>1, <1>4, CookiesStay, AnswersStay, EndedStays DEF LoginInv, Forward
<1>7. DOMAIN clients' = Clients /\ \A x \in Clients : DOMAIN clients'[x] = DOMAIN clients[x] /\ clients'[x].saved = clients[x].saved
  BY <1>2 DEF LoginInv, ClientsOK
<1>8. ClientsOK'
  BY <1>3, <1>7, ClientsStay DEF LoginInv
<1> QED BY <1>3, <1>5, <1>6, <1>8 DEF LoginInv

-----------------------------------------------------------------------------
(***************************************************************************)
(* The steps that begin a session, or answer it.                           *)
(***************************************************************************)

\* Where a login goes on: not with a session that is made.
LEMMA BeginsUnmade ==
    ASSUME AccessInv, NEW l \in Logins, NEW who, NEW m, BeginLogin(l, who, m)
    PROVE  /\ DOMAIN logins' = Logins /\ logins'[l].pc = "bind" /\ logins'[l].who = who
           /\ \A x \in Logins \ {l} : logins'[x] = logins[x]
BY DEF BeginLogin, NoLogin, AccessInv, Types, LoginsOK

LEMMA EndsUnmade ==
    ASSUME AccessInv, NEW l \in Logins, EndLogin(l)
    PROVE  /\ DOMAIN logins' = Logins /\ logins'[l] = NoLogin /\ logins'[l].pc = "idle"
           /\ \A x \in Logins \ {l} : logins'[x] = logins[x]
BY DEF EndLogin, NoLogin, AccessInv, Types, LoginsOK

LEMMA BeginIsAccess ==
    ASSUME NEW l \in Logins, NEW who \in People, NEW m \in Methods, BeginLogin(l, who, m), access' = access
    PROVE  Next /\ TokensKeep
<1>1. UNCHANGED <<aclOn, tables, tokens, log, requests, swept>>
  BY DEF access
<1>2. TokensKeep
  BY <1>1, RowsGo DEF tokens
<1> QED BY <1>1, <1>2 DEF Next, LogIn

LEMMA EndIsAccess ==
    ASSUME NEW l \in Logins, EndLogin(l), access' = access, left' = left
    PROVE  Next /\ TokensKeep
<1>1. UNCHANGED <<aclOn, tables, tokens, log, requests, swept, left>>
  BY DEF access
<1>2. TokensKeep
  BY <1>1, RowsGo DEF tokens
<1> QED BY <1>1, <1>2 DEF Next, LogIn

LEMMA CompareKeeps ==
    ASSUME AccessInv, LoginInv, NEW l \in Logins, compare(l)
    PROVE  [Next]_vars /\ LoginInv'
<1>1. visits[l].pc = "compare" /\ UNCHANGED <<browserVars, cliVars, history, access, room>>
  BY DEF compare
<1>2. VisitOK(l) /\ DOMAIN visits = Logins
  BY DEF LoginInv, VisitsOK
<1>3. CASE /\ visits[l].right
           /\ BeginLogin(l, visits[l].user, "basic")
           /\ visits' = [visits EXCEPT ![l].pc = "session"]
  <2>1. PICK who \in People : who = visits[l].user
    BY <1>2, <1>3 DEF VisitOK
  <2>2. BeginLogin(l, who, "basic")
    BY <1>3, <2>1
  <2>3. Next /\ TokensKeep
    BY <1>1, <2>1, <2>2, BeginIsAccess, LoginAssumption
  <2>4. /\ logins'[l].pc = "bind"
        /\ \A x \in Logins \ {l} : logins'[x] = logins[x]
    BY <2>2, BeginsUnmade
  <2>5. /\ Forward
        /\ MadeOK' /\ CodesOK' /\ HandedOK' /\ CookiesOK' /\ AnswersOK' /\ ClientsOK' /\ EndedOK'
    BY <1>1, <2>3, <2>4, OthersStay DEF cliVars, history
  <2>6. VisitOK(l)'
    BY <1>1, <1>2, <1>3 DEF VisitOK
  <2>7. VisitsOK'
    BY <1>2, <1>3, <2>4, <2>5, <2>6, VisitsMove DEF LoginInv
  <2> QED BY <2>3, <2>5, <2>7 DEF LoginInv
<1>4. CASE Ends(l) /\ UNCHANGED <<logins, left>>
  <2>1. visits' = [visits EXCEPT ![l] = NoVisit]
    BY <1>4 DEF Ends
  <2>2. VisitOK(l)'
    BY <1>2, <2>1, EndsOK
  <2> QED BY <1>1, <1>4, <2>1, <2>2, VisitMoves DEF cliVars, history, accessVars
<1> QED BY <1>3, <1>4 DEF compare

LEMMA CallbackKeeps ==
    ASSUME AccessInv, LoginInv, NEW l \in Logins, NEW b \in Browsers, callback(l, b)
    PROVE  [Next]_vars /\ LoginInv'
<1>1. PICK a \in answers :
         /\ cookies[b].flow = a.flow
         /\ BeginLogin(l, a.who, "oidc")
         /\ visits' = [visits EXCEPT ![l] = [NoVisit EXCEPT !.pc = "session", !.user = b, !.flow = a.flow,
                !.to = IF flows[a.flow].cli = None THEN b ELSE flows[a.flow].cli]]
  BY DEF callback
<1>2. UNCHANGED <<cookies, flows, answers, codes, handed, clients, ended, access>>
  BY DEF callback, cliVars, history
<1>3. a = [flow |-> a.flow, who |-> a.who] /\ a.who \in People /\ Begun(a.flow)
  BY DEF LoginInv, AnswersOK
<1>4. Next /\ TokensKeep
  BY <1>1, <1>2, <1>3, BeginIsAccess, LoginAssumption
<1>5. /\ logins'[l].pc = "bind" /\ logins'[l].who = a.who
      /\ \A x \in Logins \ {l} : logins'[x] = logins[x]
  BY <1>1, <1>3, BeginsUnmade
<1>6. WayKeeps
  BY <1>2, WayStill DEF LoginInv
<1>7. MadeOK' /\ CodesOK' /\ HandedOK' /\ CookiesOK' /\ AnswersOK' /\ EndedOK'
  BY <1>2, <1>4, <1>5, <1>6, MadeStays, CodesStay, HandedStays, CookiesStay, AnswersStay, EndedStays DEF LoginInv, Forward
<1>8. ClientsOK'
  BY <1>2, <1>4, ClientsStay DEF LoginInv, ClientsOK
<1>9. VisitOK(l)'
  <2> DEFINE to == IF flows[a.flow].cli = None THEN b ELSE flows[a.flow].cli
             v == [NoVisit EXCEPT !.pc = "session", !.user = b, !.flow = a.flow, !.to = to]
  <2>1. a.flow # None => to = Home(a.flow)
    BY <1>1 DEF Home, LoginInv, CookiesOK
  <2>2. a.flow # None => Bound(to, a.flow, a.who)
    BY <1>3, <2>1 DEF Bound
  <2>3. visits' = [visits EXCEPT ![l] = v]
    BY <1>1
  <2>4. /\ DOMAIN v = {"pc", "user", "right", "to", "flow", "token"}
        /\ v.pc = "session" /\ v.right = FALSE /\ v.flow = a.flow /\ v.to = to
    BY DEF NoVisit
  <2> HIDE DEF v, to
  <2>5. visits'[l] = v
    BY <2>3 DEF LoginInv, VisitsOK
  <2> QED BY <1>2, <1>5, <2>2, <2>4, <2>5 DEF VisitOK, Bound, Begun, Home
<1>10. VisitsOK'
  BY <1>1, <1>4, <1>5, <1>6, <1>9, VisitsMove DEF LoginInv, VisitsOK, Forward
<1> QED BY <1>4, <1>7, <1>8, <1>10 DEF LoginInv

\* A login is over: its visit too.
LEMMA VisitOver ==
    ASSUME AccessInv, LoginInv, NEW l \in Logins, EndLogin(l), Ends(l), WayKeeps, access' = access, left' = left
    PROVE  Next /\ Forward /\ VisitsOK'
<1>1. Next /\ Forward
  BY EndIsAccess DEF Forward
<1>2. \A x \in Logins \ {l} : logins'[x] = logins[x]
  BY EndsUnmade
<1>3. visits' = [visits EXCEPT ![l] = NoVisit] /\ DOMAIN visits = Logins
  BY DEF Ends, LoginInv, VisitsOK
<1>4. VisitOK(l)'
  BY <1>3, EndsOK
<1>5. VisitsOK'
  BY <1>1, <1>2, <1>3, <1>4, VisitsMove DEF LoginInv
<1> QED BY <1>1, <1>5

\* The secret of a session is given to who its login is of.
LEMMA HandOver ==
    ASSUME AccessInv, LoginInv, NEW l \in Logins, Made(l), EndLogin(l), Forward, codes' = codes,
           handed' = handed \cup {[to |-> visits[l].to, token |-> logins[l].token, flow |-> visits[l].flow]}
    PROVE  MadeOK' /\ CodesOK' /\ HandedOK'
<1>1. PICK v, a, who : v = visits[l] /\ a = logins[l].token /\ who = logins[l].who
  OBVIOUS
<1> DEFINE h == [to |-> v.to, token |-> a, flow |-> v.flow]
<1>2. handed' = handed \cup {h} /\ h.to = v.to /\ h.token = a /\ h.flow = v.flow
  BY <1>1
<1> HIDE DEF h
<1>3. logins[l].pc = "made" /\ v.pc = "session" /\ VisitOK(l)
  BY <1>1 DEF Made, LoginInv, VisitsOK
<1>4. /\ Session(a) /\ born[a].identity = who
      /\ \A g \in handed : g.token # a
      /\ \A c \in codes : c.token # a
      /\ \A m \in Logins \ {l} : logins[m].pc = "made" => logins[m].token # a
  BY <1>1, <1>3 DEF LoginInv, MadeOK
<1>5. Session(a)' /\ born'[a] = born[a]
  BY <1>4, SessionStays DEF Forward, TokensKeep, Session
<1>6. v.flow # None => Bound(v.to, v.flow, who)'
  BY <1>1, <1>3, BoundStays DEF VisitOK, Forward
<1>7. /\ logins'[l].pc = "idle"
      /\ \A x \in Logins \ {l} : logins'[x] = logins[x]
  BY EndsUnmade
<1>8. MadeOK'
  <2> SUFFICES ASSUME NEW m \in Logins, logins'[m].pc = "made"
      PROVE  /\ Session(logins[m].token)'
             /\ born'[logins'[m].token].identity = logins'[m].who
             /\ \A g \in handed' : g.token # logins'[m].token
             /\ \A c \in codes' : c.token # logins'[m].token
             /\ \A n \in Logins \ {m} : logins'[n].pc = "made" => logins'[n].token # logins'[m].token
    BY DEF MadeOK
  <2>1. m # l /\ logins'[m] = logins[m]
    BY <1>7
  <2>2. PICK t : t = logins[m].token
    OBVIOUS
  <2>3. /\ Session(t) /\ born[t].identity = logins[m].who
        /\ \A g \in handed : g.token # t
        /\ \A c \in codes : c.token # t
        /\ \A n \in Logins \ {m} : logins[n].pc = "made" => logins[n].token # t
    BY <2>1, <2>2 DEF LoginInv, MadeOK
  <2>4. Session(t)' /\ born'[t] = born[t]
    BY <2>3, SessionStays DEF Forward, TokensKeep, Session
  <2>5. t # a
    BY <1>4, <2>1, <2>2
  <2> QED BY <1>2, <1>7, <2>1, <2>2, <2>3, <2>4, <2>5 DEF Session
<1>9. CodesOK'
  <2>1. \A c \in codes : Session(c.token)' /\ Bound(c.challenge, c.flow, born[c.token].identity)'
    <3> SUFFICES ASSUME NEW c \in codes
        PROVE  Session(c.token)' /\ Bound(c.challenge, c.flow, born[c.token].identity)'
      OBVIOUS
    <3>1. PICK w : w = born[c.token].identity
      OBVIOUS
    <3>2. Session(c.token) /\ Bound(c.challenge, c.flow, w)
      BY <3>1 DEF LoginInv, CodesOK
    <3>3. Session(c.token)' /\ Bound(c.challenge, c.flow, w)'
      BY <3>2, SessionStays, BoundStays DEF Forward
    <3>4. born'[c.token].identity = w
      BY <3>1, <3>2 DEF Forward, TokensKeep, Session
    <3> QED BY <3>3, <3>4 DEF Bound, Begun, Home
  <2> QED BY <1>2, <1>4, <2>1 DEF LoginInv, CodesOK
<1>10. HandedOK'
  <2>1. \A g \in handed : g.token \in issued' /\ (g.flow # None => Bound(g.to, g.flow, born[g.token].identity)')
    <3> SUFFICES ASSUME NEW g \in handed
        PROVE  g.token \in issued' /\ (g.flow # None => Bound(g.to, g.flow, born[g.token].identity)')
      OBVIOUS
    <3>1. PICK w : w = born[g.token].identity
      OBVIOUS
    <3>2. g.token \in issued /\ (g.flow # None => Bound(g.to, g.flow, w))
      BY <3>1 DEF LoginInv, HandedOK
    <3>3. g.token \in issued' /\ born'[g.token].identity = w
      BY <3>1, <3>2 DEF Forward, TokensKeep
    <3>4. g.flow # None => Bound(g.to, g.flow, w)'
      BY <3>2, BoundStays DEF Forward
    <3> QED BY <3>3, <3>4 DEF Bound, Begun, Home
  <2>2. h.token \in issued' /\ (h.flow # None => Bound(h.to, h.flow, born[h.token].identity)')
    BY <1>2, <1>4, <1>5, <1>6 DEF Session, Bound, Begun, Home
  <2>3. \A g, k \in handed' : g.token = k.token => g = k
    BY <1>2, <1>4 DEF LoginInv, HandedOK
  <2> QED BY <1>2, <2>1, <2>2, <2>3 DEF HandedOK
<1> QED BY <1>8, <1>9, <1>10

LEMMA SessionDoneKeeps ==
    ASSUME AccessInv, LoginInv, NEW l \in Logins, SessionDone(l)
    PROVE  [Next]_vars /\ LoginInv'
<1>1. /\ Made(l) /\ EndLogin(l) /\ Ends(l) /\ visits[l].to \in Browsers
      /\ handed' = handed \cup {[to |-> visits[l].to, token |-> logins[l].token, flow |-> visits[l].flow]}
      /\ access' = access /\ left' = left /\ codes' = codes /\ clients' = clients /\ ended' = ended
      /\ flows' = flows /\ answers' = answers
  BY DEF SessionDone, cliVars
<1>2. WayKeeps
  BY <1>1, WayStill DEF LoginInv
<1>3. Next /\ Forward /\ VisitsOK'
  BY <1>1, <1>2, VisitOver
<1>4. MadeOK' /\ CodesOK' /\ HandedOK'
  BY <1>1, <1>3, HandOver
<1>5. AnswersOK' /\ EndedOK'
  BY <1>1, <1>3, AnswersStay, EndedStays DEF LoginInv, Forward
<1>6. ClientsOK'
  BY <1>1, <1>3, ClientsStay DEF LoginInv, ClientsOK, Forward
<1>7. CookiesOK'
  <2>0. PICK b \in Browsers : b = visits[l].to
    BY DEF SessionDone
  <2>1. PICK f, a : /\ cookies' = [cookies EXCEPT ![b] = [flow |-> f, session |-> a, token |-> None]]
                    /\ f \in {cookies[b].flow, None}
    BY <1>1, <2>0 DEF SessionDone, Answered
  <2> QED BY <1>1, <2>1 DEF CookiesOK, LoginInv, Begun
<1> QED BY <1>3, <1>4, <1>5, <1>6, <1>7 DEF LoginInv

LEMMA CLITokenKeeps ==
    ASSUME AccessInv, LoginInv, NEW l \in Logins, CLIToken(l)
    PROVE  [Next]_vars /\ LoginInv'
<1>1. /\ Made(l) /\ EndLogin(l) /\ Ends(l) /\ visits[l].to \in Clients
      /\ handed' = handed \cup {[to |-> visits[l].to, token |-> logins[l].token, flow |-> visits[l].flow]}
      /\ access' = access /\ left' = left /\ codes' = codes /\ ended' = ended
      /\ cookies' = cookies /\ flows' = flows /\ answers' = answers
  BY DEF CLIToken, browserVars
<1>2. WayKeeps
  BY <1>1, WayStill DEF LoginInv
<1>3. Next /\ Forward /\ VisitsOK'
  BY <1>1, <1>2, VisitOver
<1>4. MadeOK' /\ CodesOK' /\ HandedOK'
  BY <1>1, <1>3, HandOver
<1>5. AnswersOK' /\ EndedOK' /\ CookiesOK'
  BY <1>1, <1>3, AnswersStay, EndedStays, CookiesStay DEF LoginInv, Forward
<1>6. ClientsOK'
  <2>1. PICK k, a : k = visits[l].to /\ a = logins[l].token
    OBVIOUS
  <2>2. clients' = [clients EXCEPT ![k].pc = "done", ![k].saved = a]
    BY <2>1 DEF CLIToken
  <2>3. Session(a)
    BY <1>1, <2>1 DEF Made, LoginInv, MadeOK
  <2>4. k \in Clients
    BY <1>1, <2>1
  <2> QED BY <1>3, <2>2, <2>3, <2>4 DEF LoginInv, ClientsOK, Forward, TokensKeep, Session
<1> QED BY <1>3, <1>4, <1>5, <1>6 DEF LoginInv

LEMMA LoginFailsKeeps ==
    ASSUME AccessInv, LoginInv, NEW l \in Logins, LoginFails(l)
    PROVE  [Next]_vars /\ LoginInv'
<1>1. /\ EndLogin(l) /\ Ends(l) /\ access' = access /\ left' = left
      /\ UNCHANGED <<browserVars, codes, handed, clients, ended>>
  BY DEF LoginFails, cliVars, history
<1>2. WayKeeps
  BY <1>1, WayStill DEF LoginInv, browserVars
<1>3. Next /\ Forward /\ VisitsOK'
  BY <1>1, <1>2, VisitOver
<1>4. \A x \in Logins : logins'[x].pc = "made" => logins'[x] = logins[x]
  BY <1>1, EndsUnmade
<1>5. MadeOK' /\ CodesOK' /\ HandedOK' /\ CookiesOK' /\ AnswersOK' /\ ClientsOK' /\ EndedOK'
  BY <1>1, <1>3, <1>4, OthersStay DEF Forward
<1> QED BY <1>3, <1>5 DEF LoginInv

\* The session goes into a code, and the code to the client that its flow is of.
LEMMA CLIRedirectKeeps ==
    ASSUME AccessInv, LoginInv, NEW l \in Logins, CLIRedirect(l)
    PROVE  [Next]_vars /\ LoginInv'
<1>1. PICK v, a, who : v = visits[l] /\ a = logins[l].token /\ who = logins[l].who
  OBVIOUS
<1> DEFINE n == [flow |-> v.flow, token |-> a, challenge |-> v.to]
<1>2. /\ Made(l) /\ EndLogin(l) /\ Ends(l) /\ v.to \in Clients /\ v.flow # None
      /\ codes' = {c \in codes : c.flow \notin late} \cup {n}
      /\ cookies' = [cookies EXCEPT ![v.user].flow = None]
      /\ clients' = [clients EXCEPT ![v.to] =
             IF @.pc = "waiting" THEN [@ EXCEPT !.pc = "asking", !.flow = v.flow] ELSE @]
      /\ access' = access /\ left' = left /\ handed' = handed /\ ended' = ended
      /\ flows' = flows /\ answers' = answers
  BY <1>1 DEF CLIRedirect, history
<1>3. n.flow = v.flow /\ n.token = a /\ n.challenge = v.to
  OBVIOUS
<1> HIDE DEF n
<1>4. WayKeeps
  BY <1>2, WayStill DEF LoginInv
<1>5. Next /\ Forward /\ VisitsOK'
  BY <1>2, <1>4, VisitOver
<1>6. logins[l].pc = "made" /\ v.pc = "session" /\ VisitOK(l)
  BY <1>1, <1>2 DEF Made, LoginInv, VisitsOK
<1>7. /\ Session(a) /\ born[a].identity = who
      /\ \A h \in handed : h.token # a
      /\ \A c \in codes : c.token # a
      /\ \A m \in Logins \ {l} : logins[m].pc = "made" => logins[m].token # a
  BY <1>1, <1>6 DEF LoginInv, MadeOK
<1>8. Bound(v.to, v.flow, who)
  BY <1>1, <1>2, <1>6 DEF VisitOK
<1>9. /\ logins'[l].pc = "idle"
      /\ \A x \in Logins \ {l} : logins'[x] = logins[x]
  BY <1>2, EndsUnmade
<1>10. born' = born /\ issued' = issued
  BY <1>2 DEF access, tokens, issued
<1>11. MadeOK'
  BY <1>2, <1>3, <1>7, <1>9, <1>10, <1>1 DEF LoginInv, MadeOK, Session
<1>12. CodesOK'
  <2>1. \A c \in codes : Session(c.token)' /\ Bound(c.challenge, c.flow, born[c.token].identity)'
    BY <1>2, <1>10 DEF LoginInv, CodesOK, Session, Bound, Begun, Home
  <2>2. Session(n.token)' /\ Bound(n.challenge, n.flow, born[n.token].identity)'
    BY <1>2, <1>3, <1>7, <1>8, <1>10 DEF Session, Bound, Begun, Home
  <2>3. \A h \in handed', c \in codes' : h.token # c.token
    BY <1>2, <1>3, <1>7 DEF LoginInv, CodesOK
  <2>4. \A c, d \in codes' : d.token = c.token => d = c
    BY <1>2, <1>3, <1>7 DEF LoginInv, CodesOK
  <2> QED BY <1>2, <2>1, <2>2, <2>3, <2>4 DEF CodesOK
<1>13. HandedOK' /\ AnswersOK' /\ EndedOK'
  BY <1>2, <1>5, HandedStays, AnswersStay, EndedStays DEF LoginInv, Forward
<1>14. CookiesOK'
  BY <1>2 DEF LoginInv, CookiesOK, Begun
<1>15. DOMAIN clients' = Clients /\ \A k \in Clients : DOMAIN clients'[k] = DOMAIN clients[k] /\ clients'[k].saved = clients[k].saved
  BY <1>2 DEF LoginInv, ClientsOK
<1>16. ClientsOK'
  BY <1>5, <1>15, ClientsStay DEF LoginInv, Forward
<1> QED BY <1>5, <1>11, <1>12, <1>13, <1>14, <1>16 DEF LoginInv

-----------------------------------------------------------------------------
(***************************************************************************)
(* The command line asks, people leave, the process ends.                  *)
(***************************************************************************)

LEMMA CLIAsks ==
    ASSUME AccessInv, LoginInv, NEW k \in Clients, cliToken(k)
    PROVE  [Next]_vars /\ LoginInv'
<1>1. PICK f \in Flows :
         LET got == {c \in take(f) : proves(c, k)}
         IN  /\ codes' = {c \in codes : c.flow # f}
             /\ handed' = handed \cup {[to |-> k, token |-> c.token, flow |-> f] : c \in got}
             /\ \/ \E c \in got : clients' = [clients EXCEPT ![k].pc = "done", ![k].saved = c.token]
                \/ clients' = [clients EXCEPT ![k].pc = IF clients[k].flow = f THEN "failed" ELSE @]
  BY DEF cliToken
<1> DEFINE got == {c \in take(f) : proves(c, k)}
           new == {[to |-> k, token |-> c.token, flow |-> f] : c \in got}
<1>2. UNCHANGED <<cookies, flows, answers, visits, ended, accessVars>>
  BY DEF cliToken, browserVars
<1>3. UNCHANGED vars /\ TokensKeep /\ logins' = logins /\ born' = born /\ issued' = issued
  BY <1>2, AccessStill DEF accessVars, vars, issued
<1>4. Forward
  BY <1>2, <1>3, WayStill DEF Forward, LoginInv
<1>5. \A c \in got : c \in codes /\ c.flow = f /\ c.challenge = k
  BY DEF take, proves
<1>6. codes' = {c \in codes : c.flow # f} /\ handed' = handed \cup new
  BY <1>1
<1>7. \A h \in new : h.to = k /\ h.flow = f /\ \E c \in got : h = [to |-> k, token |-> c.token, flow |-> f] /\ h.token = c.token
  OBVIOUS
<1>8. \A c \in codes :
         /\ Session(c.token) /\ Bound(c.challenge, c.flow, born[c.token].identity)
         /\ \A h \in handed : h.token # c.token
         /\ \A d \in codes : d.token = c.token => d = c
  BY DEF LoginInv, CodesOK
<1> HIDE DEF got, new
<1>9. VisitsOK'
  BY <1>2, <1>3, <1>4, VisitsStay DEF LoginInv
<1>10. MadeOK'
  <2> SUFFICES ASSUME NEW l \in Logins, logins[l].pc = "made"
      PROVE  /\ Session(logins[l].token)
             /\ born[logins[l].token].identity = logins[l].who
             /\ \A h \in handed' : h.token # logins[l].token
             /\ \A c \in codes' : c.token # logins[l].token
             /\ \A m \in Logins \ {l} : logins[m].pc = "made" => logins[m].token # logins[l].token
    BY <1>3 DEF MadeOK, Session
  <2>1. \A h \in new : h.token # logins[l].token
    BY <1>5, <1>7 DEF LoginInv, MadeOK
  <2> QED BY <1>6, <2>1 DEF LoginInv, MadeOK
<1>11. CodesOK'
  <2> SUFFICES ASSUME NEW c \in codes, c.flow # f
      PROVE  /\ Session(c.token)' /\ Bound(c.challenge, c.flow, born[c.token].identity)'
             /\ \A h \in handed' : h.token # c.token
             /\ \A d \in codes' : d.token = c.token => d = c
    BY <1>6 DEF CodesOK
  <2>1. Session(c.token)' /\ Bound(c.challenge, c.flow, born[c.token].identity)'
    BY <1>2, <1>3, <1>8 DEF Session, Bound, Begun, Home
  <2>2. \A h \in new : h.token # c.token
    BY <1>5, <1>7, <1>8
  <2> QED BY <1>6, <1>8, <2>1, <2>2
<1>12. HandedOK'
  <2>1. \A h \in handed : h.token \in issued' /\ (h.flow # None => Bound(h.to, h.flow, born[h.token].identity)')
    BY <1>2, <1>3 DEF LoginInv, HandedOK, Bound, Begun, Home
  <2>2. \A h \in new : h.token \in issued' /\ Bound(h.to, h.flow, born[h.token].identity)'
    BY <1>2, <1>3, <1>5, <1>7, <1>8 DEF Session, Bound, Begun, Home
  <2>3. \A h \in new, g \in handed : g.token # h.token
    BY <1>5, <1>7, <1>8
  <2>4. \A g, h \in new : g.token = h.token => g = h
    BY <1>7
  <2>5. \A g, h \in handed : g.token = h.token => g = h
    BY DEF LoginInv, HandedOK
  <2> QED BY <1>6, <2>1, <2>2, <2>3, <2>4, <2>5 DEF HandedOK
<1>13. CookiesOK' /\ AnswersOK' /\ EndedOK'
  BY <1>2, <1>4, CookiesStay, AnswersStay, EndedStays DEF LoginInv, Forward
<1>14. ClientsOK'
  <2>1. CASE \E c \in got : clients' = [clients EXCEPT ![k].pc = "done", ![k].saved = c.token]
    <3>1. PICK c \in got : clients' = [clients EXCEPT ![k].pc = "done", ![k].saved = c.token]
      BY <2>1
    <3>2. Session(c.token)
      BY <1>5, <1>8
    <3> QED BY <1>3, <3>1, <3>2 DEF LoginInv, ClientsOK, Session
  <2>2. CASE clients' = [clients EXCEPT ![k].pc = IF clients[k].flow = f THEN "failed" ELSE @]
    BY <1>3, <2>2 DEF LoginInv, ClientsOK, Session
  <2> QED BY <1>1, <2>1, <2>2 DEF got
<1> QED BY <1>3, <1>9, <1>10, <1>11, <1>12, <1>13, <1>14 DEF LoginInv

\* A session is revoked, or nothing.
LEMMA LeaveIsAccess ==
    ASSUME NEW a, (a \in live /\ Session(a) /\ Revoke({a}, a)) \/ UNCHANGED <<tokens, log>>,
           UNCHANGED <<aclOn, tables, requests, swept, left>>, logins' = logins
    PROVE  [Next]_vars /\ TokensKeep /\ live' \subseteq live /\ issued' = issued /\ born' = born
<1>1. CASE a \in live /\ Session(a) /\ Revoke({a}, a)
  <2>1. EndSession
    BY <1>1 DEF EndSession, Session
  <2>2. born' = born /\ live' \subseteq live
    BY <1>1 DEF Revoke
  <2> QED BY <2>1, <2>2, RowsGo DEF Next, issued
<1>2. CASE UNCHANGED <<tokens, log>>
  <2>1. UNCHANGED vars
    BY <1>2 DEF vars, tables, tokens
  <2>2. born' = born /\ live' = live
    BY <1>2 DEF tokens
  <2> QED BY <2>1, <2>2, RowsGo DEF issued
<1> QED BY <1>1, <1>2

LEMMA CLILeaves ==
    ASSUME AccessInv, LoginInv, NEW k \in Clients, runLogout(k)
    PROVE  [Next]_vars /\ LoginInv'
<1>1. PICK a : a = clients[k].saved
  OBVIOUS
<1>2. /\ a # None
      /\ \/ ACLTokenBySecret(a) /\ Revoke({a}, a) /\ ended' = ended \cup {a}
         \/ UNCHANGED <<tokens, log, ended>>
      /\ clients' = [clients EXCEPT ![k].saved = None] \/ UNCHANGED clients
  BY <1>1 DEF runLogout
<1>3. /\ UNCHANGED <<aclOn, tables, requests, swept, left>> /\ logins' = logins
      /\ UNCHANGED <<cookies, flows, answers, visits, codes, handed>>
  BY DEF runLogout, browserVars
<1>4. Session(a)
  BY <1>1, <1>2 DEF LoginInv, ClientsOK
<1>5. (a \in live /\ Session(a) /\ Revoke({a}, a)) \/ UNCHANGED <<tokens, log>>
  BY <1>2, <1>4 DEF ACLTokenBySecret
<1>6. [Next]_vars /\ TokensKeep /\ live' \subseteq live /\ issued' = issued
  BY <1>3, <1>5, LeaveIsAccess
<1>7. Forward
  BY <1>3, <1>6, WayStill DEF Forward, LoginInv
<1>8. VisitsOK' /\ MadeOK' /\ CodesOK' /\ HandedOK' /\ CookiesOK' /\ AnswersOK'
  BY <1>3, <1>6, <1>7, VisitsStay, MadeStays, CodesStay, HandedStays, CookiesStay, AnswersStay DEF LoginInv, Forward
<1>9. ClientsOK'
  <2>1. DOMAIN clients' = Clients /\ \A x \in Clients : DOMAIN clients'[x] = DOMAIN clients[x] /\ clients'[x].saved \in {None, clients[x].saved}
    BY <1>2 DEF LoginInv, ClientsOK
  <2> QED BY <1>6, <2>1, ClientsStay DEF LoginInv
<1>10. EndedOK'
  BY <1>2, <1>4, <1>6 DEF EndedOK, LoginInv, Revoke, Session, ACLTokenBySecret
<1> QED BY <1>6, <1>8, <1>9, <1>10 DEF LoginInv

LEMMA RevokeSessionKeeps ==
    ASSUME AccessInv, LoginInv, NEW l \in Logins, revokeSession(l)
    PROVE  [Next]_vars /\ LoginInv'
<1>1. PICK a : a = visits[l].token
  OBVIOUS
<1>2. /\ visits[l].pc = "logout" /\ visits' = [visits EXCEPT ![l].pc = "leaving"]
      /\ \/ /\ IF a \in live THEN Revoke({a}, a) ELSE UNCHANGED <<tokens, log>>
            /\ ended' = ended \cup ({a} \ {None})
         \/ UNCHANGED <<tokens, log, ended>>
  BY <1>1 DEF revokeSession
<1>3. /\ UNCHANGED <<aclOn, tables, requests, swept, left>> /\ logins' = logins
      /\ UNCHANGED <<cookies, flows, answers, codes, handed, clients>>
  BY DEF revokeSession, browserVars, cliVars
<1>4. VisitOK(l) /\ DOMAIN visits = Logins /\ (a = None \/ Session(a))
  BY <1>1, <1>2 DEF LoginInv, VisitsOK, VisitOK
<1>5. a \in live => Session(a)
  BY <1>4, AccessAssumption DEF AccessInv, Types, issued
<1>6. (a \in live /\ Session(a) /\ Revoke({a}, a)) \/ UNCHANGED <<tokens, log>>
  BY <1>2, <1>5
<1>7. [Next]_vars /\ TokensKeep /\ live' \subseteq live /\ issued' = issued
  BY <1>3, <1>6, LeaveIsAccess
<1>8. Forward
  BY <1>3, <1>7, WayStill DEF Forward, LoginInv
<1>9. MadeOK' /\ CodesOK' /\ HandedOK' /\ CookiesOK' /\ AnswersOK'
  BY <1>3, <1>7, <1>8, MadeStays, CodesStay, HandedStays, CookiesStay, AnswersStay DEF LoginInv, Forward
<1>10. ClientsOK'
  BY <1>3, <1>7, ClientsStay DEF LoginInv, ClientsOK
<1>11. EndedOK'
  BY <1>2, <1>4, <1>7 DEF EndedOK, LoginInv, Revoke, Session
<1>12. VisitOK(l)'
  BY <1>2, <1>4 DEF VisitOK
<1>13. VisitsOK'
  BY <1>2, <1>3, <1>4, <1>8, <1>12, VisitsMove DEF LoginInv
<1> QED BY <1>7, <1>9, <1>10, <1>11, <1>13 DEF LoginInv

LEMMA LoggedOutKeeps ==
    ASSUME LoginInv, NEW l \in Logins, loggedOut(l)
    PROVE  [Next]_vars /\ LoginInv'
<1>1. visits' = [visits EXCEPT ![l] = NoVisit]
  BY DEF loggedOut, Ends
<1>2. /\ UNCHANGED <<accessVars, codes, handed, clients, ended>>
      /\ UNCHANGED <<flows, answers>>
  BY DEF loggedOut, cliVars, history
<1>3. UNCHANGED vars /\ TokensKeep /\ logins' = logins
  BY <1>2, AccessStill DEF accessVars
<1>4. Forward
  BY <1>2, <1>3, WayStill DEF Forward, LoginInv
<1>5. VisitOK(l)'
  BY <1>1, EndsOK DEF LoginInv, VisitsOK
<1>6. VisitsOK'
  BY <1>1, <1>3, <1>4, <1>5, VisitsMove DEF LoginInv, VisitsOK
<1>7. MadeOK' /\ CodesOK' /\ HandedOK' /\ AnswersOK' /\ EndedOK'
  BY <1>2, <1>3, <1>4, MadeStays, CodesStay, HandedStays, AnswersStay, EndedStays DEF LoginInv, Forward
<1>8. ClientsOK'
  BY <1>2, <1>3, ClientsStay DEF LoginInv, ClientsOK
<1>9. CookiesOK'
  <2>1. PICK b : b = visits[l].user
    OBVIOUS
  <2>2. cookies' = [cookies EXCEPT ![b].session = None, ![b].token = None] \/ cookies' = cookies
    BY <2>1 DEF loggedOut
  <2> QED BY <1>2, <2>2 DEF LoginInv, CookiesOK, Begun
<1> QED BY <1>3, <1>6, <1>7, <1>8, <1>9 DEF LoginInv

LEMMA NewProcessKeeps ==
    ASSUME AccessInv, LoginInv, NewProcess
    PROVE  [Next]_vars /\ LoginInv'
<1>1. Next /\ logins' = [l \in Logins |-> NoLogin]
  BY DEF NewProcess, Restart, Next
<1>2. TokensKeep
  BY <1>1, NextForward
<1>3. /\ visits' = [l \in Logins |-> NoVisit] /\ codes' = {}
      /\ UNCHANGED <<cookies, flows, answers, clients, handed, ended>>
  BY DEF NewProcess, history
<1>4. Forward
  BY <1>2, <1>3, WayStill DEF Forward, LoginInv
<1>5. \A l \in Logins : logins'[l].pc # "made"
  BY <1>1 DEF NoLogin
<1>6. VisitsOK'
  BY <1>3, EndsOK DEF VisitsOK
<1>7. MadeOK' /\ CodesOK' /\ HandedOK' /\ CookiesOK' /\ AnswersOK' /\ EndedOK'
  BY <1>3, <1>4, <1>5, HandedStays, CookiesStay, AnswersStay, EndedStays DEF LoginInv, Forward, MadeOK, CodesOK
<1>8. ClientsOK'
  BY <1>2, <1>3, ClientsStay DEF LoginInv, ClientsOK
<1> QED BY <1>1, <1>6, <1>7, <1>8 DEF LoginInv

-----------------------------------------------------------------------------
(***************************************************************************)
(* The steps of Access.                                                    *)
(***************************************************************************)

LEMMA BoundLoginKeeps ==
    ASSUME AccessInv, NEW l \in Logins, bindLogin(l) \/ purgeTokens(l)
    PROVE  /\ logins'[l].pc # "made"
           /\ \A x \in Logins : logins'[x].who = logins[x].who /\ (logins'[x].pc = "made" => logins'[x] = logins[x])
<1>1. \/ \E g : logins' = [logins EXCEPT ![l].granted = g, ![l].pc = IF Granted(g) THEN "purge" ELSE "refused"]
      \/ logins' = [logins EXCEPT ![l].pc = "create"]
  BY DEF bindLogin, purgeTokens
<1>2. PICK r : /\ logins' = [logins EXCEPT ![l] = r]
               /\ r.who = logins[l].who /\ r.pc \in {"purge", "refused", "create"}
  <2>1. ASSUME NEW g, NEW pc \in {"purge", "refused"}, logins' = [logins EXCEPT ![l].granted = g, ![l].pc = pc]
        PROVE  \E r : /\ logins' = [logins EXCEPT ![l] = r]
                      /\ r.who = logins[l].who /\ r.pc \in {"purge", "refused", "create"}
    <3>1. PICK r : r = [logins[l] EXCEPT !.granted = g, !.pc = pc]
      OBVIOUS
    <3>2. logins' = [logins EXCEPT ![l] = r]
      BY <2>1, <3>1
    <3>3. r.who = logins[l].who /\ r.pc = pc
      BY <3>1 DEF AccessInv, Types, LoginsOK, LoginOK
    <3> QED BY <3>2, <3>3
  <2>2. ASSUME logins' = [logins EXCEPT ![l].pc = "create"]
        PROVE  \E r : /\ logins' = [logins EXCEPT ![l] = r]
                      /\ r.who = logins[l].who /\ r.pc \in {"purge", "refused", "create"}
    <3>1. PICK r : r = [logins[l] EXCEPT !.pc = "create"]
      OBVIOUS
    <3>2. logins' = [logins EXCEPT ![l] = r]
      BY <2>2, <3>1
    <3>3. r.who = logins[l].who /\ r.pc = "create"
      BY <3>1 DEF AccessInv, Types, LoginsOK, LoginOK
    <3> QED BY <3>2, <3>3
  <2>3. CASE \E g : logins' = [logins EXCEPT ![l].granted = g, ![l].pc = IF Granted(g) THEN "purge" ELSE "refused"]
    <3>1. PICK g : logins' = [logins EXCEPT ![l].granted = g, ![l].pc = IF Granted(g) THEN "purge" ELSE "refused"]
      BY <2>3
    <3>2. PICK pc \in {"purge", "refused"} : pc = IF Granted(g) THEN "purge" ELSE "refused"
      OBVIOUS
    <3>3. logins' = [logins EXCEPT ![l].granted = g, ![l].pc = pc]
      BY <3>1, <3>2
    <3> QED BY <2>1, <3>3
  <2> QED BY <1>1, <2>2, <2>3
<1> QED BY <1>2 DEF AccessInv, Types, LoginsOK

\* A session is made of a token that was never issued.
LEMMA SessionMade ==
    ASSUME AccessInv, AccessInv', LoginInv, NEW l \in Logins, createSession(l), Forward, UNCHANGED <<handed, codes>>
    PROVE  MadeOK' /\ \A x \in Logins : logins'[x].who = logins[x].who
<1> DEFINE type == IF logins[l].granted.management THEN "management" ELSE "client"
           carried == IF logins[l].granted.management THEN {} ELSE logins[l].granted.policies
           t == Token(type, carried, "login", logins[l].who, TRUE, None)
<1>1. PICK a \in Accessors : /\ CreateACLToken(a, t, None)
                             /\ logins' = [logins EXCEPT ![l].pc = "made", ![l].token = a]
  BY DEF createSession
<1>2. t.origin = "login" /\ t.identity = logins[l].who
  BY DEF Token
<1> HIDE DEF t
<1>3. a \notin issued /\ a \in live' /\ born'[a] = t
  BY <1>1 DEF CreateACLToken, AccessInv, Types
<1>4. Session(a)' /\ born'[a].identity = logins[l].who
  BY <1>2, <1>3 DEF AccessInv, Types, Session
<1>5. /\ logins'[l].pc = "made" /\ logins'[l].token = a /\ logins'[l].who = logins[l].who
      /\ \A x \in Logins \ {l} : logins'[x] = logins[x]
  BY <1>1 DEF AccessInv, Types, LoginsOK, LoginOK
<1>6. (\A h \in handed : h.token # a) /\ (\A c \in codes : c.token # a)
  BY <1>3 DEF LoginInv, HandedOK, CodesOK, Session
<1>7. ASSUME NEW m \in Logins \ {l}, logins[m].pc = "made"
      PROVE  /\ Session(logins[m].token) /\ logins[m].token # a
             /\ Session(logins[m].token)' /\ born'[logins[m].token].identity = logins[m].who
  <2>1. Session(logins[m].token) /\ born[logins[m].token].identity = logins[m].who
    BY <1>7 DEF LoginInv, MadeOK
  <2>2. m # l /\ logins'[m] = logins[m]
    BY <1>5, <1>7
  <2> QED BY <1>3, <2>1, <2>2 DEF Session, Forward, TokensKeep
<1>8. MadeOK'
  <2> SUFFICES ASSUME NEW m \in Logins, logins'[m].pc = "made"
      PROVE  /\ Session(logins[m].token)'
             /\ born'[logins'[m].token].identity = logins'[m].who
             /\ \A h \in handed' : h.token # logins'[m].token
             /\ \A c \in codes' : c.token # logins'[m].token
             /\ \A n \in Logins \ {m} : logins'[n].pc = "made" => logins'[n].token # logins'[m].token
    BY DEF MadeOK
  <2>1. CASE m = l
    BY <1>4, <1>5, <1>6, <1>7, <2>1 DEF Session
  <2>2. CASE m # l
    BY <1>3, <1>5, <1>7, <2>2 DEF LoginInv, MadeOK, Session, Forward, TokensKeep
  <2> QED BY <2>1, <2>2
<1> QED BY <1>5, <1>8

LEMMA SharedKeeps ==
    ASSUME AccessInv, LoginInv, Shared, UNCHANGED loginVars
    PROVE  [Next]_vars /\ LoginInv'
<1>1. Next
  BY DEF Shared, Next, LogIn
<1>2. AccessInv' /\ TokensKeep
  BY <1>1, StepKeeps, NextForward
<1>3. UNCHANGED <<cookies, flows, answers, visits, codes, handed, clients, ended>>
  BY DEF loginVars, browserVars, cliVars, history
<1>4. Forward
  BY <1>2, <1>3, WayStill DEF Forward, LoginInv
<1>5. MadeOK' /\ \A x \in Logins : logins'[x].who = logins[x].who
  <2>1. CASE \E l \in Logins : createSession(l)
    BY <1>2, <1>3, <1>4, <2>1, SessionMade
  <2>2. CASE \E l \in Logins : bindLogin(l) \/ purgeTokens(l)
    <3>1. \A x \in Logins : logins'[x].who = logins[x].who /\ (logins'[x].pc = "made" => logins'[x] = logins[x])
      BY <2>2, BoundLoginKeeps
    <3> QED BY <1>2, <1>3, <3>1, MadeStays DEF LoginInv
  <2>3. CASE logins' = logins
    BY <1>2, <1>3, <2>3, MadeStays DEF LoginInv
  <2>4. ASSUME NEW q \in Requests, Serve(q) PROVE logins' = logins
    <3>1. CASE mintToken(q)
      BY <3>1 DEF mintToken
    <3>2. CASE ~mintToken(q)
      BY <2>4, <3>2, ServeForward
    <3> QED BY <3>1, <3>2
  <2>5. CASE Expire
    <3>1. logins' = logins
      BY <2>5 DEF Expire
    <3> QED BY <2>3, <3>1
  <2> QED BY <2>1, <2>2, <2>3, <2>4, <2>5 DEF Shared, MakeSession
<1>6. VisitsOK' /\ CodesOK' /\ HandedOK'
  BY <1>3, <1>4, <1>5, VisitsStay, CodesStay, HandedStays DEF LoginInv
<1>7. CookiesOK' /\ AnswersOK' /\ EndedOK'
  BY <1>3, <1>4, CookiesStay, AnswersStay, EndedStays DEF LoginInv, Forward
<1>8. ClientsOK'
  BY <1>2, <1>3, ClientsStay DEF LoginInv, ClientsOK
<1> QED BY <1>1, <1>5, <1>6, <1>7, <1>8 DEF LoginInv

-----------------------------------------------------------------------------
(***************************************************************************)
(* The theorems.                                                           *)
(***************************************************************************)
allVars == <<vars, loginVars>>

LEMMA LoginBeginning ==
    ASSUME LoginInit
    PROVE  Init /\ AccessInv /\ LoginInv
<1>1. PICK start_ \in Starts : Begin(start_)
  BY DEF LoginInit
<1>2. Init /\ AccessInv
  BY <1>1, Beginning DEF Init
<1>3. VisitsOK
  BY DEF LoginInit, VisitsOK, VisitOK, NoVisit
<1>4. MadeOK
  BY <1>1 DEF Begin, MadeOK, NoLogin
<1>5. CodesOK /\ HandedOK /\ AnswersOK /\ EndedOK
  BY DEF LoginInit, CodesOK, HandedOK, AnswersOK, EndedOK
<1>6. CookiesOK /\ ClientsOK
  BY DEF LoginInit, CookiesOK, NoCookies, ClientsOK, NoClient
<1> QED BY <1>2, <1>3, <1>4, <1>5, <1>6 DEF LoginInv

LEMMA LoginStep ==
    ASSUME AccessInv, LoginInv, [LoginNext]_allVars
    PROVE  [Next]_vars /\ AccessInv' /\ LoginInv'
<1>1. [Next]_vars /\ LoginInv'
  <2>1. CASE Shared /\ UNCHANGED loginVars
    BY <2>1, SharedKeeps
  <2>2. ASSUME NEW l \in Logins, LocalUser(l) PROVE [Next]_vars /\ LoginInv'
    BY <2>2, CheckKeeps, SlotKeeps, GiveUpKeeps, CompareKeeps DEF LocalUser
  <2>3. ASSUME NEW l \in Logins, AnswerLogin(l) PROVE [Next]_vars /\ LoginInv'
    BY <2>3, SessionDoneKeeps, CLITokenKeeps, CLIRedirectKeeps, LoginFailsKeeps DEF AnswerLogin
  <2>4. ASSUME NEW l \in Logins, Leave(l) PROVE [Next]_vars /\ LoginInv'
    BY <2>4, LogoutKeeps, RevokeSessionKeeps, LoggedOutKeeps DEF Leave
  <2>5. ASSUME NEW b \in Browsers, Browse(b) PROVE [Next]_vars /\ LoginInv'
    BY <2>5, StartKeeps, BrowserKeeps, CallbackKeeps DEF Browse
  <2>6. ASSUME NEW k \in Clients, CommandLine(k) PROVE [Next]_vars /\ LoginInv'
    BY <2>6, ClientKeeps, CLIAsks, CLILeaves DEF CommandLine
  <2>7. CASE expire \/ Lapse \/ CodeLate
    BY <2>7, AsideKeep
  <2>8. CASE Authenticate
    BY <2>8, AuthenticateKeeps
  <2>9. CASE NewProcess
    BY <2>9, NewProcessKeeps
  <2>10. CASE UNCHANGED allVars
    <3>1. UNCHANGED accessVars /\ UNCHANGED <<visits, codes, handed, clients, ended>> /\ UNCHANGED <<cookies, flows>> /\ answers' = answers
      BY <2>10 DEF allVars, vars, loginVars, browserVars, cliVars, history, accessVars, access, tables, tokens
    <3> QED BY <3>1, CountsAside
  <2> QED BY <2>1, <2>2, <2>3, <2>4, <2>5, <2>6, <2>7, <2>8, <2>9, <2>10 DEF LoginNext
<1>2. AccessInv'
  BY <1>1, StepKeeps
<1> QED BY <1>1, <1>2

\* The invariant holds: a session on its way is tied to the flow, the browser or client
\* and the person of its login, and to nobody else.
THEOREM LoginInvariant == LoginSpec => [](AccessInv /\ LoginInv)
<1>1. LoginInit => AccessInv /\ LoginInv
  BY LoginBeginning
<1>2. (AccessInv /\ LoginInv) /\ [LoginNext]_allVars => (AccessInv /\ LoginInv)'
  BY LoginStep
<1> QED BY <1>1, <1>2, PTL DEF LoginSpec, allVars

\* Logging in and out, with its cookies, codes and processes, does to tokens and their
\* log nothing that Access does not allow.
THEOREM LoginIsAccess == LoginSpec => Spec
<1>1. LoginInit => Init
  BY LoginBeginning
<1>2. AccessInv /\ LoginInv /\ [LoginNext]_allVars => [Next]_vars
  BY LoginStep
<1> QED BY <1>1, <1>2, LoginInvariant, PTL DEF LoginSpec, Spec, allVars

\* acl_changes tells the whole story of acl_tokens, with every way to log in and out.
THEOREM StoryToldThrough == LoginSpec => []TokenStory
BY LoginIsAccess, StoryTold, PTL

\* A session made through the provider goes to the browser or the client that began its
\* login, and is of who authenticated in it (auth.go callback, cli_login.go).
THEOREM SessionsGoHome == LoginSpec => []GoesHome
<1>1. LoginInv => GoesHome
  BY DEF LoginInv, HandedOK, Bound, Home, GoesHome
<1> QED BY <1>1, LoginInvariant, PTL

\* A browser never holds a session and a pasted token at once (login.go).
THEOREM NeverTwo == LoginSpec => []OneIdentity
<1>1. LoginInv => OneIdentity
  BY DEF LoginInv, CookiesOK, OneIdentity
<1> QED BY <1>1, LoginInvariant, PTL

\* What a logout has ended never works again (login.go, internal/cli).
THEOREM LogoutHolds == LoginSpec => []LogoutEnds
<1>1. LoginInv => LogoutEnds
  BY DEF LoginInv, EndedOK, LogoutEnds
<1> QED BY <1>1, LoginInvariant, PTL

-----------------------------------------------------------------------------
(***************************************************************************)
(* The guesses of a username: each comparison in progress may still fail.  *)
(***************************************************************************)
comparingOf(u) == {l \in Logins : visits[l].pc = "compare" /\ visits[l].user = u}

GuessInv ==
    /\ failures \in [Usernames -> Nat]
    /\ Cardinality(comparing) <= Slots
    /\ \A u \in Usernames : failures[u] + Cardinality(comparingOf(u)) <= MaxFailures - 1 + Slots

LEMMA ComparingFinite ==
    /\ IsFiniteSet(comparing) /\ Cardinality(comparing) \in Nat
    /\ \A u : /\ IsFiniteSet(comparingOf(u)) /\ Cardinality(comparingOf(u)) \in Nat
              /\ Cardinality(comparingOf(u)) <= Cardinality(comparing)
<1>1. comparing \subseteq Logins /\ IsFiniteSet(comparing)
  BY FS_Subset, LoginAssumption DEF comparing
<1>2. Cardinality(comparing) \in Nat
  BY <1>1, FS_CardinalityType
<1>3. ASSUME NEW u
      PROVE  /\ IsFiniteSet(comparingOf(u)) /\ Cardinality(comparingOf(u)) \in Nat
             /\ Cardinality(comparingOf(u)) <= Cardinality(comparing)
  <2>1. comparingOf(u) \subseteq comparing
    BY DEF comparingOf, comparing
  <2>2. IsFiniteSet(comparingOf(u)) /\ Cardinality(comparingOf(u)) <= Cardinality(comparing)
    BY <1>1, <2>1, FS_Subset
  <2> QED BY <2>2, FS_CardinalityType
<1> QED BY <1>1, <1>2, <1>3

\* No comparison begins, and failures are forgotten at most.
LEMMA FewerGuesses ==
    ASSUME GuessInv, failures' \in [Usernames -> Nat], \A u \in Usernames : failures'[u] <= failures[u],
           \A l \in Logins : visits'[l].pc = "compare" => visits[l].pc = "compare" /\ visits'[l].user = visits[l].user
    PROVE  GuessInv'
<1>1. comparing' \subseteq comparing
  BY DEF comparing
<1>2. Cardinality(comparing') <= Cardinality(comparing) /\ Cardinality(comparing') \in Nat
  BY <1>1, ComparingFinite, FS_Subset, FS_CardinalityType
<1>3. ASSUME NEW u \in Usernames
      PROVE  failures'[u] + Cardinality(comparingOf(u)') <= MaxFailures - 1 + Slots
  <2>1. comparingOf(u)' \subseteq comparingOf(u)
    BY DEF comparingOf
  <2>2. Cardinality(comparingOf(u)') <= Cardinality(comparingOf(u)) /\ Cardinality(comparingOf(u)') \in Nat
    BY <2>1, ComparingFinite, FS_Subset, FS_CardinalityType
  <2>3. failures'[u] \in Nat /\ failures[u] \in Nat /\ failures'[u] <= failures[u]
    BY DEF GuessInv
  <2> QED BY <2>2, <2>3, ComparingFinite, LoginAssumption DEF GuessInv
<1>4. Cardinality(comparing') <= Slots
  BY <1>2, ComparingFinite, LoginAssumption DEF GuessInv
<1> QED BY <1>3, <1>4 DEF GuessInv

\* A comparison begins with a slot and a name that is not locked.
LEMMA GuessBegins ==
    ASSUME LoginInv, GuessInv, NEW l \in Logins, takeSlot(l)
    PROVE  GuessInv'
<1>1. /\ visits[l].pc = "slot" /\ Cardinality(comparing) < Slots /\ failures' = failures
      /\ DOMAIN visits = Logins /\ DOMAIN visits[l] = {"pc", "user", "right", "to", "flow", "token"}
  BY DEF takeSlot, LoginInv, VisitsOK, VisitOK
<1>2. CASE visits' = [visits EXCEPT ![l] = NoVisit]
  <2>1. \A m \in Logins : visits'[m].pc = "compare" => visits[m].pc = "compare" /\ visits'[m].user = visits[m].user
    BY <1>1, <1>2 DEF NoVisit
  <2> QED BY <1>1, <2>1, FewerGuesses DEF GuessInv
<1>3. CASE ~locked(visits[l].user) /\ visits' = [visits EXCEPT ![l].pc = "compare"]
  <2>1. /\ visits'[l].pc = "compare" /\ visits'[l].user = visits[l].user
        /\ \A m \in Logins \ {l} : visits'[m] = visits[m]
    BY <1>1, <1>3
  <2>2. comparing' = comparing \cup {l} /\ l \notin comparing
    BY <1>1, <2>1 DEF comparing
  <2>3. Cardinality(comparing') = Cardinality(comparing) + 1
    BY <2>2, ComparingFinite, FS_AddElement
  <2>4. Cardinality(comparing') <= Slots
    BY <1>1, <2>3, ComparingFinite, LoginAssumption
  <2>5. IsFiniteSet(comparing')
    BY <2>2, ComparingFinite, FS_AddElement
  <2>6. ASSUME NEW u \in Usernames
        PROVE  failures'[u] + Cardinality(comparingOf(u)') <= MaxFailures - 1 + Slots
    <3>1. CASE u = visits[l].user
      <4>1. failures[u] < MaxFailures /\ failures[u] \in Nat
        BY <1>3, <3>1, LoginAssumption DEF locked, GuessInv
      <4>2. comparingOf(u)' \subseteq comparing'
        BY DEF comparingOf, comparing
      <4>3. Cardinality(comparingOf(u)') <= Cardinality(comparing') /\ Cardinality(comparingOf(u)') \in Nat
        BY <2>5, <4>2, FS_Subset, FS_CardinalityType
      <4>4. Cardinality(comparing') \in Nat
        BY <2>3, ComparingFinite
      <4> QED BY <1>1, <2>4, <4>1, <4>3, <4>4, LoginAssumption
    <3>2. CASE u # visits[l].user
      <4>1. comparingOf(u)' = comparingOf(u)
        BY <2>1, <3>2 DEF comparingOf
      <4> QED BY <1>1, <4>1 DEF GuessInv
    <3> QED BY <3>1, <3>2
  <2> QED BY <1>1, <2>4, <2>6 DEF GuessInv
<1> QED BY <1>2, <1>3 DEF takeSlot, Ends

LEMMA Emptied ==
    ASSUME NEW counts \in [Usernames -> Nat], NEW v
    PROVE  /\ [counts EXCEPT ![v] = 0] \in [Usernames -> Nat]
           /\ \A u \in Usernames : [counts EXCEPT ![v] = 0][u] <= counts[u]
<1>1. \A u \in Usernames : [counts EXCEPT ![v] = 0][u] = IF u = v THEN 0 ELSE counts[u]
  OBVIOUS
<1>2. \A u \in Usernames : counts[u] \in Nat
  OBVIOUS
<1>3. [counts EXCEPT ![v] = 0] \in [Usernames -> Nat]
  <2>1. 0 \in Nat
    OBVIOUS
  <2>2. [counts EXCEPT ![v] = 0] = [u \in Usernames |-> IF u = v THEN 0 ELSE counts[u]]
    OBVIOUS
  <2>3. \A u \in Usernames : (IF u = v THEN 0 ELSE counts[u]) \in Nat
    BY <2>1, <1>2
  <2> QED BY <2>2, <2>3
<1>4. ASSUME NEW u \in Usernames PROVE [counts EXCEPT ![v] = 0][u] <= counts[u]
  <2>1. CASE u = v
    BY <1>1, <1>2, <2>1
  <2>2. CASE u # v
    BY <1>1, <1>2, <2>2
  <2> QED BY <2>1, <2>2
<1> QED BY <1>3, <1>4

LEMMA Counted ==
    ASSUME NEW counts \in [Usernames -> Nat], NEW v
    PROVE  [counts EXCEPT ![v] = counts[v] + 1] \in [Usernames -> Nat]
<1>1. CASE v \in Usernames
  <2>1. counts[v] + 1 \in Nat
    BY <1>1
  <2> QED BY <1>1, <2>1
<1>2. CASE v \notin Usernames
  <2>1. \A u \in Usernames : [counts EXCEPT ![v] = counts[v] + 1][u] = counts[u]
    BY <1>2
  <2>2. [counts EXCEPT ![v] = counts[v] + 1] = counts
    BY <1>2, <2>1
  <2> QED BY <2>2
<1> QED BY <1>1, <1>2

\* A comparison that fails is counted as it ends.
LEMMA GuessEnds ==
    ASSUME LoginInv, GuessInv, NEW l \in Logins, compare(l)
    PROVE  GuessInv'
<1>1. /\ visits[l].pc = "compare"
      /\ DOMAIN visits = Logins /\ DOMAIN visits[l] = {"pc", "user", "right", "to", "flow", "token"}
  BY DEF compare, LoginInv, VisitsOK, VisitOK
<1>2. CASE clear(visits[l].user) /\ visits' = [visits EXCEPT ![l].pc = "session"]
  <2>0. failures' = [failures EXCEPT ![visits[l].user] = 0] /\ failures \in [Usernames -> Nat]
    BY <1>2 DEF clear, GuessInv
  <2>1. failures' \in [Usernames -> Nat] /\ \A u \in Usernames : failures'[u] <= failures[u]
    BY <2>0, Emptied
  <2>2. \A m \in Logins : visits'[m].pc = "compare" => visits[m].pc = "compare" /\ visits'[m].user = visits[m].user
    BY <1>1, <1>2
  <2> QED BY <2>1, <2>2, FewerGuesses
<1>3. CASE fail(visits[l].user) /\ visits' = [visits EXCEPT ![l] = NoVisit]
  <2>1. visits'[l].pc = "idle" /\ \A m \in Logins \ {l} : visits'[m] = visits[m]
    BY <1>1, <1>3 DEF NoVisit
  <2>2. comparing' \subseteq comparing
    BY <2>1 DEF comparing
  <2>3. Cardinality(comparing') <= Slots
    BY <2>2, ComparingFinite, FS_Subset, FS_CardinalityType, LoginAssumption DEF GuessInv
  <2>4. failures' \in [Usernames -> Nat]
    <3> DEFINE v == visits[l].user
    <3>1. failures' = [failures EXCEPT ![v] = failures[v] + 1] /\ failures \in [Usernames -> Nat]
      BY <1>3 DEF fail, GuessInv
    <3> HIDE DEF v
    <3> QED BY <3>1, Counted
  <2>5. ASSUME NEW u \in Usernames
        PROVE  failures'[u] + Cardinality(comparingOf(u)') <= MaxFailures - 1 + Slots
    <3>1. CASE u = visits[l].user
      <4>1. failures'[u] = failures[u] + 1 /\ failures[u] \in Nat
        BY <1>3, <3>1 DEF fail, GuessInv
      <4>2. comparingOf(u)' = comparingOf(u) \ {l} /\ l \in comparingOf(u)
        BY <1>1, <2>1, <3>1 DEF comparingOf
      <4>3. Cardinality(comparingOf(u)') = Cardinality(comparingOf(u)) - 1
        BY <4>2, ComparingFinite, FS_RemoveElement
      <4> QED BY <4>1, <4>3, ComparingFinite, LoginAssumption DEF GuessInv
    <3>2. CASE u # visits[l].user
      <4>1. comparingOf(u)' = comparingOf(u) /\ failures'[u] = failures[u]
        BY <1>3, <2>1, <3>2 DEF comparingOf, fail, GuessInv
      <4> QED BY <4>1 DEF GuessInv
    <3> QED BY <3>1, <3>2
  <2> QED BY <2>3, <2>4, <2>5 DEF GuessInv
<1> QED BY <1>2, <1>3 DEF compare, Ends

LEMMA GuessesAside ==
    ASSUME LoginInv, GuessInv, failures' = failures, NEW l \in Logins, NEW v,
           visits' = [visits EXCEPT ![l] = v], v.pc # "compare"
    PROVE  GuessInv'
<1>1. \A m \in Logins : visits'[m].pc = "compare" => visits[m].pc = "compare" /\ visits'[m].user = visits[m].user
  BY DEF LoginInv, VisitsOK
<1> QED BY <1>1, FewerGuesses DEF GuessInv

LEMMA GuessStep ==
    ASSUME LoginInv, GuessInv, [LoginNext]_allVars
    PROVE  GuessInv'
<1>1. CASE UNCHANGED <<failures, visits>>
  BY <1>1, FewerGuesses DEF GuessInv
<1>2. ASSUME NEW l \in Logins, check(l) \/ giveUp(l) \/ AnswerLogin(l) \/ Leave(l) \/ \E b \in Browsers : callback(l, b)
      PROVE  GuessInv'
  <2>1. failures' = failures
    BY <1>2 DEF check, giveUp, AnswerLogin, Leave, SessionDone, CLIToken, CLIRedirect, LoginFails, logout,
                revokeSession, loggedOut, callback
  <2>2. CASE giveUp(l) \/ AnswerLogin(l) \/ loggedOut(l)
    <3>1. visits' = [visits EXCEPT ![l] = NoVisit]
      BY <2>2 DEF giveUp, AnswerLogin, SessionDone, CLIToken, CLIRedirect, LoginFails, loggedOut, Ends
    <3>2. NoVisit.pc # "compare"
      BY DEF NoVisit
    <3> QED BY <2>1, <3>1, <3>2, GuessesAside
  <2>3. CASE check(l)
    <3>1. PICK u, right, to : visits' = [visits EXCEPT ![l] = [NoVisit EXCEPT !.pc = "slot", !.user = u, !.right = right, !.to = to]]
      BY <2>3 DEF check
    <3>2. [NoVisit EXCEPT !.pc = "slot", !.user = u, !.right = right, !.to = to].pc = "slot"
      BY DEF NoVisit
    <3> QED BY <2>1, <3>1, <3>2, GuessesAside
  <2>4. CASE logout(l)
    <3>1. PICK b, t : visits' = [visits EXCEPT ![l] = [NoVisit EXCEPT !.pc = "logout", !.user = b, !.token = t]]
      BY <2>4 DEF logout
    <3>2. [NoVisit EXCEPT !.pc = "logout", !.user = b, !.token = t].pc = "logout"
      BY DEF NoVisit
    <3> QED BY <2>1, <3>1, <3>2, GuessesAside
  <2>5. CASE revokeSession(l)
    <3>1. visits' = [visits EXCEPT ![l].pc = "leaving"]
      BY <2>5 DEF revokeSession
    <3>2. \A m \in Logins : visits'[m].pc = "compare" => visits[m].pc = "compare" /\ visits'[m].user = visits[m].user
      BY <3>1 DEF LoginInv, VisitsOK, VisitOK
    <3> QED BY <2>1, <3>2, FewerGuesses DEF GuessInv
  <2>6. CASE \E b \in Browsers : callback(l, b)
    <3>0. PICK b \in Browsers : callback(l, b)
      BY <2>6
    <3>1. PICK f, to : visits' = [visits EXCEPT ![l] = [NoVisit EXCEPT !.pc = "session", !.user = b, !.flow = f, !.to = to]]
      <4>1. PICK a \in answers : visits' = [visits EXCEPT ![l] = [NoVisit EXCEPT !.pc = "session", !.user = b,
                  !.flow = a.flow, !.to = IF flows[a.flow].cli = None THEN b ELSE flows[a.flow].cli]]
        BY <3>0 DEF callback
      <4> DEFINE goal == IF flows[a.flow].cli = None THEN b ELSE flows[a.flow].cli
      <4>2. visits' = [visits EXCEPT ![l] = [NoVisit EXCEPT !.pc = "session", !.user = b, !.flow = a.flow, !.to = goal]]
        BY <4>1
      <4> HIDE DEF goal
      <4> QED BY <4>2
    <3>2. [NoVisit EXCEPT !.pc = "session", !.user = b, !.flow = f, !.to = to].pc = "session"
      BY DEF NoVisit
    <3> QED BY <2>1, <3>1, <3>2, GuessesAside
  <2> QED BY <1>2, <2>2, <2>3, <2>4, <2>5, <2>6 DEF Leave
<1>3. ASSUME NEW l \in Logins, takeSlot(l) \/ compare(l) PROVE GuessInv'
  BY <1>3, GuessBegins, GuessEnds
<1>4. CASE expire \/ NewProcess
  <2>1. failures' \in [Usernames -> Nat] /\ \A u \in Usernames : failures'[u] <= failures[u]
    BY <1>4 DEF expire, clear, NewProcess, GuessInv
  <2>2. \A l \in Logins : visits'[l].pc = "compare" => visits[l].pc = "compare" /\ visits'[l].user = visits[l].user
    BY <1>4 DEF expire, NewProcess, NoVisit
  <2> QED BY <2>1, <2>2, FewerGuesses
<1>5. CASE (Shared /\ UNCHANGED loginVars) \/ Authenticate \/ Lapse \/ CodeLate \/ UNCHANGED allVars
  <2>1. UNCHANGED <<failures, visits>>
    BY <1>5 DEF loginVars, Authenticate, Lapse, CodeLate, allVars
  <2> QED BY <1>1, <2>1
<1>6. ASSUME NEW b \in Browsers, start(b) \/ refuseCallback(b) \/ pasteToken(b) PROVE GuessInv'
  <2>1. UNCHANGED <<failures, visits>>
    BY <1>6 DEF start, refuseCallback, pasteToken
  <2> QED BY <1>1, <2>1
<1>7. ASSUME NEW k \in Clients, CommandLine(k) PROVE GuessInv'
  <2>1. UNCHANGED <<failures, visits>>
    BY <1>7 DEF CommandLine, runLogin, loginTimeout, cliToken, runLogout
  <2> QED BY <1>1, <2>1
<1> QED BY <1>2, <1>3, <1>4, <1>5, <1>6, <1>7 DEF LoginNext, LocalUser, Browse

\* However many logins run side by side, the wrong passwords of a name that are compared in
\* one window are the limit, and those already being compared (login_limit.go, auth_basic.go).
THEOREM GuessesHeld == LoginSpec => []GuessesBounded
<1>1. LoginInit => GuessInv
  <2> SUFFICES ASSUME LoginInit PROVE GuessInv
    OBVIOUS
  <2>1. failures = [u \in Usernames |-> 0] /\ \A l \in Logins : visits[l].pc = "idle"
    BY DEF LoginInit, NoVisit
  <2>2. comparing = {} /\ \A u : comparingOf(u) = {}
    BY <2>1 DEF comparing, comparingOf
  <2>3. Cardinality(comparing) = 0 /\ \A u : Cardinality(comparingOf(u)) = 0
    BY <2>2, FS_EmptySet
  <2>4. failures \in [Usernames -> Nat] /\ \A u \in Usernames : failures[u] = 0
    BY <2>1
  <2> QED BY <2>3, <2>4, LoginAssumption DEF GuessInv
<1>2. (AccessInv /\ LoginInv) /\ GuessInv /\ [LoginNext]_allVars => GuessInv'
  BY GuessStep
<1>3. GuessInv => GuessesBounded
  BY ComparingFinite, LoginAssumption DEF GuessInv, GuessesBounded
<1> QED BY <1>1, <1>2, <1>3, LoginInvariant, PTL DEF LoginSpec, allVars

-----------------------------------------------------------------------------
(***************************************************************************)
(* The shape of what logins leave behind.                                  *)
(***************************************************************************)
CookieTokens == \A b \in Browsers : {cookies[b].session, cookies[b].token} \subseteq issued \cup {None}

FlowTypes == \A f \in Flows : flows[f] # None => flows[f].by \in Browsers /\ flows[f].cli \in Clients \cup {None}

\* A visit has a session in the making exactly when Access has.
Pair(v, login) ==
    /\ v.pc \in {"idle", "slot", "compare", "session", "logout", "leaving"}
    /\ v.pc = "session" <=> login.pc # "idle"
    /\ v.pc = "session" /\ v.flow # None => v.flow \in exchanged

Paired == \A l \in Logins : Pair(visits[l], logins[l])

CodeFlows == \A c \in codes : c.flow \in exchanged /\ c.challenge = flows[c.flow].cli

Marked == \A f \in lapsed \cup exchanged \cup late : Begun(f)

WayInv == CookieTokens /\ FlowTypes /\ Paired /\ CodeFlows /\ Marked

LEMMA PairedStay ==
    ASSUME Paired, visits' = visits, exchanged' = exchanged,
           \A l \in Logins : logins'[l].pc # "idle" <=> logins[l].pc # "idle"
    PROVE  Paired'
BY DEF Paired, Pair

\* One visit moves, and no login but its own.
LEMMA PairedMove ==
    ASSUME Paired, VisitsOK, NEW l \in Logins, NEW v, visits' = [visits EXCEPT ![l] = v],
           exchanged \subseteq exchanged', \A m \in Logins \ {l} : logins'[m] = logins[m],
           v.pc \in {"idle", "slot", "compare", "session", "logout", "leaving"},
           v.pc = "session" <=> logins'[l].pc # "idle",
           v.pc = "session" /\ v.flow # None => v.flow \in exchanged'
    PROVE  Paired'
<1>1. visits'[l] = v /\ \A m \in Logins \ {l} : visits'[m] = visits[m]
  BY DEF VisitsOK
<1>2. \A m \in Logins : Pair(visits[m], logins[m])'
  BY <1>1 DEF Paired, Pair
<1> QED BY <1>2 DEF Paired

\* What a step keeps when it leaves the flows and their marks alone.
LEMMA WayStays ==
    ASSUME LoginInv, WayInv, UNCHANGED <<flows, lapsed, exchanged, late>>, codes' \subseteq codes,
           CookieTokens', Paired'
    PROVE  WayInv'
<1>1. FlowTypes' /\ CodeFlows' /\ Marked'
  BY DEF WayInv, FlowTypes, CodeFlows, Marked, Begun
<1> QED BY <1>1 DEF WayInv

LEMMA CookiesKept ==
    ASSUME CookieTokens, TokensKeep, cookies' = cookies
    PROVE  CookieTokens'
BY DEF CookieTokens, TokensKeep

\* One browser takes other tokens, or none.
LEMMA CookiesSet ==
    ASSUME CookieTokens, TokensKeep, DOMAIN cookies = Browsers, NEW b, NEW c, cookies' = [cookies EXCEPT ![b] = c],
           {c.session, c.token} \subseteq issued' \cup {None}
    PROVE  CookieTokens'
BY DEF CookieTokens, TokensKeep

LEMMA WayShared ==
    ASSUME AccessInv, LoginInv, WayInv, TokensKeep, Shared, UNCHANGED loginVars
    PROVE  WayInv'
<1>1. UNCHANGED <<cookies, flows, lapsed, exchanged, late, codes, visits>>
  BY DEF loginVars, browserVars, cliVars
<1>2. \A l \in Logins : logins'[l].pc # "idle" <=> logins[l].pc # "idle"
  <2>1. ASSUME NEW q \in Requests, Serve(q) PROVE logins' = logins
    <3>1. CASE mintToken(q)
      BY <3>1 DEF mintToken
    <3>2. CASE ~mintToken(q)
      BY <2>1, <3>2, ServeForward
    <3> QED BY <3>1, <3>2
  <2>2. ASSUME NEW m \in Logins, MakeSession(m)
        PROVE  \A l \in Logins : logins'[l].pc # "idle" <=> logins[l].pc # "idle"
    <3>0. DOMAIN logins = Logins /\ LoginOK(logins[m])
      BY DEF AccessInv, Types, LoginsOK
    <3>1. logins[m].pc # "idle" /\ logins'[m].pc # "idle"
      <4>1. DOMAIN logins[m] = {"pc", "who", "method", "granted", "token"}
        BY <3>0 DEF LoginOK
      <4>2. CASE bindLogin(m)
        BY <3>0, <4>1, <4>2 DEF bindLogin
      <4>3. CASE purgeTokens(m)
        BY <3>0, <4>1, <4>3 DEF purgeTokens
      <4>4. CASE createSession(m)
        BY <3>0, <4>1, <4>4 DEF createSession
      <4> QED BY <2>2, <4>2, <4>3, <4>4 DEF MakeSession
    <3>2. \A l \in Logins \ {m} : logins'[l] = logins[l]
      BY <2>2, <3>0 DEF MakeSession, bindLogin, purgeTokens, createSession
    <3> QED BY <3>1, <3>2
  <2>3. Expire => logins' = logins
    BY DEF Expire
  <2> QED BY <2>1, <2>2, <2>3 DEF Shared
<1>3. Paired' /\ CookieTokens'
  BY <1>1, <1>2, PairedStay, CookiesKept DEF WayInv
<1> QED BY <1>1, <1>3, WayStays

LEMMA WayLocal ==
    ASSUME AccessInv, LoginInv, WayInv, TokensKeep, NEW l \in Logins, LocalUser(l)
    PROVE  WayInv'
<1>1. UNCHANGED <<cookies, flows, lapsed, exchanged, late, codes>>
  BY DEF LocalUser, check, takeSlot, giveUp, compare, browserVars, cliVars
<1>2. DOMAIN visits = Logins /\ DOMAIN visits[l] = {"pc", "user", "right", "to", "flow", "token"} /\ Pair(visits[l], logins[l])
  BY DEF LoginInv, VisitsOK, VisitOK, WayInv, Paired
<1>3. Paired'
  <2>1. CASE compare(l) /\ visits[l].right
    <3>1. BeginLogin(l, visits[l].user, "basic") /\ visits' = [visits EXCEPT ![l].pc = "session"] /\ visits[l].pc = "compare"
      BY <2>1 DEF compare
    <3> DEFINE v == [visits[l] EXCEPT !.pc = "session"]
    <3>2. visits' = [visits EXCEPT ![l] = v] /\ v.pc = "session" /\ v.flow = visits[l].flow
      BY <1>2, <3>1
    <3>3. visits[l].flow = None
      BY <3>1 DEF LoginInv, VisitsOK, VisitOK
    <3>4. DOMAIN logins = Logins
      BY DEF AccessInv, Types, LoginsOK
    <3>5. logins'[l].pc = "bind" /\ \A m \in Logins \ {l} : logins'[m] = logins[m]
      BY <3>1, <3>4 DEF BeginLogin, NoLogin
    <3> HIDE DEF v
    <3> QED BY <1>1, <3>2, <3>3, <3>5, PairedMove DEF LoginInv, WayInv
  <2>2. ASSUME NEW v, visits' = [visits EXCEPT ![l] = v], logins' = logins, visits[l].pc # "session",
               v.pc \in {"idle", "slot", "compare"}
        PROVE  Paired'
    BY <1>1, <1>2, <2>2, PairedMove DEF LoginInv, WayInv, Pair
  <2>3. CASE check(l)
    <3>1. PICK u, right, to : visits' = [visits EXCEPT ![l] = [NoVisit EXCEPT !.pc = "slot", !.user = u, !.right = right, !.to = to]]
      BY <2>3 DEF check
    <3> DEFINE v == [NoVisit EXCEPT !.pc = "slot", !.user = u, !.right = right, !.to = to]
    <3>2. v.pc = "slot" /\ logins' = logins /\ visits[l].pc = "idle"
      BY <2>3 DEF NoVisit, check, accessVars
    <3> HIDE DEF v
    <3> QED BY <2>2, <3>1, <3>2 DEF v
  <2>4. CASE takeSlot(l) \/ giveUp(l) \/ (compare(l) /\ ~visits[l].right)
    <3>1. logins' = logins /\ visits[l].pc # "session"
      BY <2>4 DEF takeSlot, giveUp, compare, accessVars
    <3>2. CASE Ends(l)
      <4>1. NoVisit.pc = "idle"
        BY DEF NoVisit
      <4> QED BY <2>2, <3>1, <3>2, <4>1 DEF Ends
    <3>3. CASE visits' = [visits EXCEPT ![l].pc = "compare"]
      <4> DEFINE v == [visits[l] EXCEPT !.pc = "compare"]
      <4>1. visits' = [visits EXCEPT ![l] = v] /\ v.pc = "compare"
        BY <1>2, <3>3
      <4> HIDE DEF v
      <4> QED BY <2>2, <3>1, <4>1
    <3> QED BY <2>4, <3>2, <3>3 DEF takeSlot, giveUp, compare
  <2> QED BY <2>1, <2>3, <2>4 DEF LocalUser
<1>4. CookieTokens'
  BY <1>1, CookiesKept DEF WayInv
<1> QED BY <1>1, <1>3, <1>4, WayStays

LEMMA WayAnswered ==
    ASSUME AccessInv, LoginInv, WayInv, TokensKeep, NEW l \in Logins, AnswerLogin(l)
    PROVE  WayInv'
<1>1. UNCHANGED <<flows, lapsed, exchanged, late>>
  BY DEF AnswerLogin, SessionDone, CLIToken, CLIRedirect, LoginFails, browserVars, cliVars
<1>2. EndLogin(l) /\ Ends(l)
  BY DEF AnswerLogin, SessionDone, CLIToken, CLIRedirect, LoginFails
<1>3. Paired'
  <2>1. NoVisit.pc = "idle" /\ NoLogin.pc = "idle"
    BY DEF NoVisit, NoLogin
  <2>2. logins'[l] = NoLogin /\ \A m \in Logins \ {l} : logins'[m] = logins[m]
    BY <1>2 DEF EndLogin, AccessInv, Types, LoginsOK
  <2>3. visits' = [visits EXCEPT ![l] = NoVisit]
    BY <1>2 DEF Ends
  <2> QED BY <1>1, <2>1, <2>2, <2>3, PairedMove DEF LoginInv, WayInv
<1>4. DOMAIN cookies = Browsers /\ \A b \in Browsers : DOMAIN cookies[b] = {"flow", "session", "token"}
  BY DEF LoginInv, CookiesOK
<1>5. CASE CLIToken(l) \/ LoginFails(l)
  <2>1. UNCHANGED <<cookies, codes>>
    BY <1>5 DEF CLIToken, LoginFails, browserVars, cliVars
  <2> QED BY <1>1, <1>3, <2>1, CookiesKept, WayStays DEF WayInv
<1>6. CASE SessionDone(l)
  <2> DEFINE v == visits[l]
             c == [flow |-> Answered(v.to, v.flow), session |-> logins[l].token, token |-> None]
  <2>1. cookies' = [cookies EXCEPT ![v.to] = c] /\ codes' = codes /\ logins[l].pc = "made"
    BY <1>6 DEF SessionDone, cliVars, Made
  <2>2. logins[l].token \in issued'
    BY <2>1 DEF LoginInv, MadeOK, Session, TokensKeep
  <2>3. {c.session, c.token} \subseteq issued' \cup {None}
    BY <2>2
  <2> HIDE DEF c
  <2>4. CookieTokens'
    BY <1>4, <2>1, <2>3, CookiesSet DEF WayInv
  <2> QED BY <1>1, <1>3, <2>1, <2>4, WayStays
<1>7. CASE CLIRedirect(l)
  <2> DEFINE v == visits[l]
             new == [flow |-> v.flow, token |-> logins[l].token, challenge |-> v.to]
  <2>1. /\ v.pc = "session" /\ v.to \in Clients /\ v.flow # None
        /\ codes' \subseteq codes \cup {new}
        /\ cookies' = [cookies EXCEPT ![v.user].flow = None]
    BY <1>7 DEF CLIRedirect, Made
  <2>2. v.flow \in exchanged /\ Bound(v.to, v.flow, logins[l].who)
    BY <2>1 DEF LoginInv, VisitsOK, VisitOK, WayInv, Paired, Pair
  <2>3. v.to = flows[v.flow].cli
    <3>1. v.to = Home(v.flow) /\ flows[v.flow].by \in Browsers
      BY <2>2 DEF Bound, Begun, WayInv, FlowTypes
    <3>2. flows[v.flow].by \notin Clients
      BY <3>1, LoginAssumption
    <3> QED BY <2>1, <3>1, <3>2 DEF Home
  <2>4. CodeFlows'
    <3>1. new.flow \in exchanged /\ new.challenge = flows[new.flow].cli
      BY <2>2, <2>3
    <3> HIDE DEF new
    <3> QED BY <1>1, <2>1, <3>1 DEF WayInv, CodeFlows
  <2>5. CookieTokens'
    <3>1. \A b \in Browsers : cookies'[b].session = cookies[b].session /\ cookies'[b].token = cookies[b].token
      BY <1>4, <2>1
    <3> QED BY <3>1 DEF WayInv, CookieTokens, TokensKeep
  <2>6. FlowTypes' /\ Marked'
    BY <1>1 DEF WayInv, FlowTypes, Marked, Begun
  <2> QED BY <1>3, <2>4, <2>5, <2>6 DEF WayInv
<1> QED BY <1>5, <1>6, <1>7 DEF AnswerLogin

LEMMA WayLeaves ==
    ASSUME AccessInv, LoginInv, WayInv, TokensKeep, NEW l \in Logins, Leave(l)
    PROVE  WayInv'
<1>1. UNCHANGED <<flows, lapsed, exchanged, late, codes, logins>>
  BY DEF Leave, logout, revokeSession, loggedOut, browserVars, cliVars, accessVars
<1>2. DOMAIN visits[l] = {"pc", "user", "right", "to", "flow", "token"} /\ Pair(visits[l], logins[l])
  BY DEF LoginInv, VisitsOK, VisitOK, WayInv, Paired
<1>3. ASSUME NEW v, visits' = [visits EXCEPT ![l] = v], visits[l].pc # "session", v.pc \in {"idle", "logout", "leaving"}
      PROVE  Paired'
  BY <1>1, <1>2, <1>3, PairedMove DEF LoginInv, WayInv, Pair
<1>4. CASE logout(l)
  <2>1. PICK u, a : visits' = [visits EXCEPT ![l] = [NoVisit EXCEPT !.pc = "logout", !.user = u, !.token = a]]
    <3>1. PICK b \in Browsers : visits' = [visits EXCEPT ![l] = [NoVisit EXCEPT !.pc = "logout", !.user = b,
             !.token = IF cookies[b].session # None /\ ACLTokenBySecret(cookies[b].session) /\ born[cookies[b].session].origin = "login"
                       THEN cookies[b].session ELSE None]]
      BY <1>4 DEF logout
    <3> DEFINE a == IF cookies[b].session # None /\ ACLTokenBySecret(cookies[b].session) /\ born[cookies[b].session].origin = "login"
                    THEN cookies[b].session ELSE None
    <3>2. visits' = [visits EXCEPT ![l] = [NoVisit EXCEPT !.pc = "logout", !.user = b, !.token = a]]
      BY <3>1
    <3> HIDE DEF a
    <3> QED BY <3>2
  <2> DEFINE v == [NoVisit EXCEPT !.pc = "logout", !.user = u, !.token = a]
  <2>2. v.pc = "logout"
    BY DEF NoVisit
  <2>3. visits[l].pc # "session" /\ cookies' = cookies
    BY <1>4 DEF logout, browserVars
  <2>4. visits' = [visits EXCEPT ![l] = v]
    BY <2>1
  <2> HIDE DEF v
  <2>5. Paired' /\ CookieTokens'
    BY <1>3, <2>2, <2>3, <2>4, CookiesKept DEF WayInv
  <2> QED BY <1>1, <2>5, WayStays
<1>5. CASE revokeSession(l)
  <2> DEFINE v == [visits[l] EXCEPT !.pc = "leaving"]
  <2>1. visits' = [visits EXCEPT ![l] = v] /\ v.pc = "leaving"
    BY <1>2, <1>5 DEF revokeSession, LoginInv, VisitsOK
  <2>2. visits[l].pc # "session" /\ cookies' = cookies
    BY <1>5 DEF revokeSession, browserVars
  <2> HIDE DEF v
  <2>3. Paired' /\ CookieTokens'
    BY <1>3, <2>1, <2>2, CookiesKept DEF WayInv
  <2> QED BY <1>1, <2>3, WayStays
<1>6. CASE loggedOut(l)
  <2>1. visits' = [visits EXCEPT ![l] = NoVisit] /\ visits[l].pc # "session" /\ NoVisit.pc = "idle"
    BY <1>6 DEF loggedOut, Ends, NoVisit
  <2>2. Paired'
    BY <1>3, <2>1
  <2>3. CookieTokens'
    <3>1. DOMAIN cookies = Browsers /\ \A b \in Browsers : DOMAIN cookies[b] = {"flow", "session", "token"}
      BY DEF LoginInv, CookiesOK
    <3>2. \A b \in Browsers : /\ cookies'[b].session \in {None, cookies[b].session}
                              /\ cookies'[b].token \in {None, cookies[b].token}
      BY <1>6, <3>1 DEF loggedOut
    <3> QED BY <3>2 DEF WayInv, CookieTokens, TokensKeep
  <2> QED BY <1>1, <2>2, <2>3, WayStays
<1> QED BY <1>4, <1>5, <1>6 DEF Leave

LEMMA WayBrowses ==
    ASSUME AccessInv, LoginInv, WayInv, TokensKeep, NEW b \in Browsers, Browse(b)
    PROVE  WayInv'
<1>0. /\ DOMAIN cookies = Browsers /\ \A c \in Browsers : DOMAIN cookies[c] = {"flow", "session", "token"}
      /\ DOMAIN flows = Flows /\ None \notin [by : Browsers, cli : Clients \cup {None}]
  BY LoginAssumption DEF LoginInv, CookiesOK
<1>1. CASE start(b)
  <2>1. PICK f \in Flows : \E k \in Clients \cup {None} :
                 /\ flows[f] = None /\ flows' = [flows EXCEPT ![f] = [by |-> b, cli |-> k]]
                 /\ cookies' = [cookies EXCEPT ![b].flow = f]
    BY <1>1 DEF start
  <2>2. PICK k \in Clients \cup {None} :
                 /\ flows[f] = None /\ flows' = [flows EXCEPT ![f] = [by |-> b, cli |-> k]]
                 /\ cookies' = [cookies EXCEPT ![b].flow = f]
    BY <2>1
  <2>3. UNCHANGED <<lapsed, exchanged, visits, late, codes, logins>>
    BY <1>1 DEF start, cliVars, accessVars
  <2> DEFINE r == [by |-> b, cli |-> k]
  <2>4. r.by \in Browsers /\ r.cli \in Clients \cup {None} /\ r # None
    BY <1>0
  <2>5. flows'[f] = r /\ \A g \in Flows \ {f} : flows'[g] = flows[g]
    BY <1>0, <2>2
  <2> HIDE DEF r
  <2>6. \A g \in Flows : flows[g] # None => flows'[g] = flows[g]
    BY <2>2, <2>5
  <2>7. FlowTypes'
    BY <2>4, <2>5 DEF WayInv, FlowTypes
  <2>8. \A g : Begun(g) => Begun(g)' /\ flows'[g] = flows[g]
    BY <2>6 DEF Begun
  <2>9. Marked'
    BY <2>3, <2>8 DEF WayInv, Marked
  <2>10. CodeFlows'
    <3>1. \A c \in codes : Begun(c.flow)
      BY DEF LoginInv, CodesOK, Bound
    <3> QED BY <2>3, <2>8, <3>1 DEF WayInv, CodeFlows
  <2>11. CookieTokens'
    <3>1. \A c \in Browsers : cookies'[c].session = cookies[c].session /\ cookies'[c].token = cookies[c].token
      BY <1>0, <2>2
    <3> QED BY <3>1 DEF WayInv, CookieTokens, TokensKeep
  <2>12. Paired'
    BY <2>3, PairedStay DEF WayInv
  <2> QED BY <2>7, <2>9, <2>10, <2>11, <2>12 DEF WayInv
<1>2. CASE refuseCallback(b)
  <2>1. UNCHANGED <<flows, lapsed, exchanged, visits, late, codes, logins>> /\ cookies' = [cookies EXCEPT ![b].flow = None]
    BY <1>2 DEF refuseCallback, cliVars, accessVars
  <2>2. \A c \in Browsers : cookies'[c].session = cookies[c].session /\ cookies'[c].token = cookies[c].token
    BY <1>0, <2>1
  <2>3. CookieTokens' /\ Paired'
    BY <2>1, <2>2, PairedStay DEF WayInv, CookieTokens, TokensKeep
  <2> QED BY <2>1, <2>3, WayStays
<1>3. CASE pasteToken(b)
  <2>1. PICK a \in Accessors : ACLTokenBySecret(a) /\ cookies' = [cookies EXCEPT ![b].session = None, ![b].token = a]
    BY <1>3 DEF pasteToken
  <2>2. UNCHANGED <<flows, lapsed, exchanged, visits, late, codes, logins>>
    BY <1>3 DEF pasteToken, cliVars, accessVars
  <2>3. a \in issued'
    BY <2>1 DEF ACLTokenBySecret, AccessInv, Types, TokensKeep
  <2>4. \A c \in Browsers : {cookies'[c].session, cookies'[c].token} \subseteq {None, a, cookies[c].session, cookies[c].token}
    BY <1>0, <2>1
  <2>5. CookieTokens' /\ Paired'
    BY <2>2, <2>3, <2>4, PairedStay DEF WayInv, CookieTokens, TokensKeep
  <2> QED BY <2>2, <2>5, WayStays
<1>4. ASSUME NEW l \in Logins, callback(l, b) PROVE WayInv'
  <2>1. PICK a \in answers :
        /\ exchanged' = exchanged \cup {a.flow}
        /\ BeginLogin(l, a.who, "oidc")
        /\ visits' = [visits EXCEPT ![l] = [NoVisit EXCEPT !.pc = "session", !.user = b, !.flow = a.flow,
                          !.to = IF flows[a.flow].cli = None THEN b ELSE flows[a.flow].cli]]
    BY <1>4 DEF callback
  <2> DEFINE to == IF flows[a.flow].cli = None THEN b ELSE flows[a.flow].cli
             v == [NoVisit EXCEPT !.pc = "session", !.user = b, !.flow = a.flow, !.to = to]
  <2>2. UNCHANGED <<cookies, flows, lapsed, late, codes>>
    BY <1>4 DEF callback, cliVars
  <2>3. visits' = [visits EXCEPT ![l] = v]
    BY <2>1
  <2>4. v.pc = "session" /\ v.flow = a.flow
    BY DEF NoVisit
  <2>5. DOMAIN logins = Logins
    BY DEF AccessInv, Types, LoginsOK
  <2>6. logins'[l].pc = "bind" /\ \A m \in Logins \ {l} : logins'[m] = logins[m]
    BY <2>1, <2>5 DEF BeginLogin, NoLogin
  <2> HIDE DEF v
  <2>7. Paired'
    BY <2>1, <2>3, <2>4, <2>6, PairedMove DEF LoginInv, WayInv
  <2>8. Begun(a.flow)
    BY <2>1 DEF LoginInv, AnswersOK
  <2>9. FlowTypes' /\ CodeFlows' /\ Marked'
    BY <2>1, <2>2, <2>8 DEF WayInv, FlowTypes, CodeFlows, Marked, Begun
  <2>10. CookieTokens'
    BY <2>2, CookiesKept DEF WayInv
  <2> QED BY <2>7, <2>9, <2>10 DEF WayInv
<1> QED BY <1>1, <1>2, <1>3, <1>4 DEF Browse

\* The command line, the clocks, the provider and the process.
LEMMA WayElse ==
    ASSUME AccessInv, LoginInv, WayInv, TokensKeep,
           (\E k \in Clients : CommandLine(k)) \/ expire \/ Authenticate \/ Lapse \/ CodeLate \/ NewProcess
    PROVE  WayInv'
<1>1. CASE (\E k \in Clients : CommandLine(k)) \/ expire \/ Authenticate
  <2>1. UNCHANGED <<cookies, flows, lapsed, exchanged, late, visits, logins>> /\ codes' \subseteq codes
    BY <1>1 DEF CommandLine, runLogin, loginTimeout, cliToken, runLogout, expire, Authenticate,
                browserVars, cliVars, accessVars
  <2>2. Paired' /\ CookieTokens'
    BY <2>1, PairedStay, CookiesKept DEF WayInv
  <2> QED BY <2>1, <2>2, WayStays
<1>2. CASE Lapse \/ CodeLate
  <2>1. UNCHANGED <<cookies, flows, exchanged, codes, visits, logins>>
    BY <1>2 DEF Lapse, CodeLate, browserVars, accessVars, cliVars
  <2>2. Paired' /\ CookieTokens'
    BY <2>1, PairedStay, CookiesKept DEF WayInv
  <2>3. FlowTypes' /\ CodeFlows'
    BY <2>1 DEF WayInv, FlowTypes, CodeFlows
  <2>4. \A c \in codes : Begun(c.flow)
    BY DEF LoginInv, CodesOK, Bound
  <2>5. Marked'
    <3>1. PICK f : Begun(f) /\ lapsed' \cup late' \subseteq lapsed \cup late \cup {f}
      <4>1. CASE Lapse
        <5>1. PICK f \in Flows \ lapsed : flows[f] # None /\ lapsed' = lapsed \cup {f} /\ late' = late
          BY <4>1 DEF Lapse, cliVars
        <5> QED BY <5>1 DEF Begun
      <4>2. CASE CodeLate
        <5>1. PICK c \in codes : late' = late \cup {c.flow} /\ lapsed' = lapsed
          BY <4>2 DEF CodeLate, browserVars
        <5> QED BY <2>4, <5>1
      <4> QED BY <1>2, <4>1, <4>2
    <3> QED BY <2>1, <3>1 DEF WayInv, Marked, Begun
  <2> QED BY <2>2, <2>3, <2>5 DEF WayInv
<1>3. CASE NewProcess
  <2>1. /\ UNCHANGED <<cookies, flows, exchanged, late>> /\ codes' = {} /\ lapsed' = {f \in Flows : flows[f] # None}
        /\ visits' = [l \in Logins |-> NoVisit] /\ logins' = [l \in Logins |-> NoLogin]
    BY <1>3 DEF NewProcess, Restart
  <2>2. Paired' /\ CookieTokens'
    BY <2>1, CookiesKept DEF WayInv, Paired, Pair, NoVisit, NoLogin
  <2>3. FlowTypes' /\ CodeFlows' /\ Marked'
    BY <2>1 DEF WayInv, FlowTypes, CodeFlows, Marked, Begun
  <2> QED BY <2>2, <2>3 DEF WayInv
<1> QED BY <1>1, <1>2, <1>3

LEMMA WayStep ==
    ASSUME AccessInv, LoginInv, WayInv, [LoginNext]_allVars
    PROVE  WayInv'
<1>1. TokensKeep
  BY LoginStep, NextForward
<1>2. CASE UNCHANGED allVars
  <2>1. UNCHANGED <<cookies, flows, lapsed, exchanged, late, codes, visits, logins>>
    BY <1>2 DEF allVars, vars, loginVars, browserVars, cliVars
  <2>2. Paired' /\ CookieTokens'
    BY <1>1, <2>1, PairedStay, CookiesKept DEF WayInv
  <2> QED BY <2>1, <2>2, WayStays
<1>3. CASE Shared /\ UNCHANGED loginVars
  BY <1>1, <1>3, WayShared
<1>4. ASSUME NEW l \in Logins, LocalUser(l) \/ AnswerLogin(l) \/ Leave(l) PROVE WayInv'
  BY <1>1, <1>4, WayLocal, WayAnswered, WayLeaves
<1>5. ASSUME NEW b \in Browsers, Browse(b) PROVE WayInv'
  BY <1>1, <1>5, WayBrowses
<1>6. CASE (\E k \in Clients : CommandLine(k)) \/ expire \/ Authenticate \/ Lapse \/ CodeLate \/ NewProcess
  BY <1>1, <1>6, WayElse
<1> QED BY <1>2, <1>3, <1>4, <1>5, <1>6 DEF LoginNext

\* Every variable keeps the shape its cookie or field has; a visit has a session in the
\* making exactly when Access has, a code belongs to a flow of the client that may take it
\* (web/auth.go, cli_login.go).
THEOREM LoginTypes == LoginSpec => []LoginTypeOK
<1>1. LoginInit => WayInv
  <2> SUFFICES ASSUME LoginInit PROVE WayInv
    OBVIOUS
  <2>1. PICK s \in Starts : Begin(s)
    BY DEF LoginInit
  <2>2. CookieTokens /\ FlowTypes /\ CodeFlows /\ Marked
    BY DEF LoginInit, NoCookies, CookieTokens, FlowTypes, CodeFlows, Marked
  <2>3. Paired
    BY <2>1 DEF LoginInit, Begin, Paired, Pair, NoVisit, NoLogin
  <2> QED BY <2>2, <2>3 DEF WayInv
<1>2. (AccessInv /\ LoginInv) /\ WayInv /\ [LoginNext]_allVars => WayInv'
  BY WayStep
<1>3. LoginInv /\ WayInv => LoginTypeOK
  <2> SUFFICES ASSUME LoginInv, WayInv PROVE LoginTypeOK
    OBVIOUS
  <2>1. \A b \in Browsers : cookies[b].flow # None => flows[cookies[b].flow] # None
    BY DEF LoginInv, CookiesOK, Begun
  <2>2. \A c \in codes : c.token \in issued
    BY DEF LoginInv, CodesOK, Session
  <2> QED BY <2>1, <2>2 DEF WayInv, CookieTokens, Paired, Pair, CodeFlows, Marked, Begun, LoginTypeOK
<1> QED BY <1>1, <1>2, <1>3, LoginInvariant, PTL DEF LoginSpec, allVars

=============================================================================
