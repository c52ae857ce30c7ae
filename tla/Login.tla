------------------------------- MODULE Login -------------------------------
(***************************************************************************)
(* Logging in and out: local users behind the limit of failed logins       *)
(* (internal/web/auth_basic.go, login_limit.go), the round trip to an      *)
(* OpenID Connect provider (auth.go), the cookies of browsers (login.go),  *)
(* and the command line (cli_login.go, and internal/cli for its side).     *)
(* The session itself is made and revoked by Access.                       *)
(***************************************************************************)
EXTENDS Access

CONSTANTS
    Browsers,
    Clients,      \* runs of "nops login", each with a verifier of its own
    Flows,        \* states of logins through the provider
    Usernames,    \* what is typed as a username, known or not
    MaxFailures,  \* failed logins that lock a username
    Slots         \* password comparisons at once

ASSUME LoginAssumption ==
    /\ MaxFailures \in Nat \ {0} /\ Slots \in Nat \ {0}
    /\ IsFiniteSet(Logins)
    /\ {"basic", "oidc"} \subseteq Methods
    /\ Browsers \cap Clients = {}
    /\ None \notin Browsers /\ None \notin [by : Browsers, cli : Clients \cup {None}]

VARIABLES
    cookies,    \* of each browser: the login in progress, the session, the pasted token
    flows,      \* who began a login through the provider, a browser and perhaps a client
    lapsed,     \* the flows whose cookie is too old, or of a key that is gone
    answers,    \* what the provider sent back: the flow and who authenticated
    exchanged,  \* the flows whose code the provider has taken
    visits,     \* what each login in progress is doing besides its session
    failures,   \* the failed logins of each username in its window
    codes,      \* cliCodes: sessions waiting for their client
    late,       \* the flows whose code is past its minute
    clients,    \* where each run of the command line is
    handed,     \* history: which secret was given to whom, for which flow
    ended,      \* history: the sessions that a logout has ended
    room        \* how much of each kind of event may still happen

browserVars == <<cookies, flows, lapsed, answers, exchanged>>
cliVars == <<codes, late, clients>>
history == <<handed, ended>>
loginVars == <<browserVars, visits, failures, cliVars, history, room>>
access == <<aclOn, tables, tokens, log, requests, swept>>
accessVars == <<access, logins, left>>

Use(kind) == room[kind] > 0 /\ room' = [room EXCEPT ![kind] = @ - 1]

NoVisit == [pc |-> "idle", user |-> None, right |-> FALSE, to |-> None, flow |-> None, token |-> None]
NoCookies == [flow |-> None, session |-> None, token |-> None]
NoClient == [pc |-> "idle", flow |-> None, saved |-> None]

Ends(l) == visits' = [visits EXCEPT ![l] = NoVisit]

\* ---------------------------------------------------------- local users

locked(u) == failures[u] >= MaxFailures

fail(u) == failures' = [failures EXCEPT ![u] = @ + 1]
clear(u) == failures' = [failures EXCEPT ![u] = 0]

\* The window of a username's first failure ends.
expire ==
    \E u \in Usernames :
        /\ failures[u] > 0
        /\ clear(u)
        /\ UNCHANGED <<browserVars, visits, cliVars, history, accessVars, room>>

\* A username and a password come in, from a form or from the command line.
check(l) ==
    \E u \in Usernames, right \in BOOLEAN, to \in Browsers \cup Clients \cup {None} :
        /\ visits[l].pc = "idle" /\ Use("guesses")
        /\ right => u \in People
        /\ right <=> to # None
        /\ to \in Clients => clients[to].pc = "idle"
        /\ ~locked(u)
        /\ visits' = [visits EXCEPT ![l] = [NoVisit EXCEPT !.pc = "slot", !.user = u, !.right = right, !.to = to]]
        /\ UNCHANGED <<browserVars, failures, cliVars, history, accessVars>>

comparing == {l \in Logins : visits[l].pc = "compare"}

\* mutant: the lock is not looked at again.
takeSlot_once(l) ==
    /\ visits[l].pc = "slot" /\ Cardinality(comparing) < Slots
    /\ visits' = [visits EXCEPT ![l].pc = "compare"]
    /\ UNCHANGED <<browserVars, failures, cliVars, history, accessVars, room>>

\* A slot of loginSlots, and the second look at the lock.
takeSlot(l) ==
    /\ visits[l].pc = "slot" /\ Cardinality(comparing) < Slots
    /\ IF locked(visits[l].user) THEN Ends(l) ELSE visits' = [visits EXCEPT ![l].pc = "compare"]
    /\ UNCHANGED <<browserVars, failures, cliVars, history, accessVars, room>>

\* The request ends while it waits.
giveUp(l) ==
    /\ visits[l].pc = "slot"
    /\ Ends(l)
    /\ UNCHANGED <<browserVars, failures, cliVars, history, accessVars, room>>

compare(l) ==
    /\ visits[l].pc = "compare"
    /\ UNCHANGED <<browserVars, cliVars, history, access, room>>
    /\ \/ /\ visits[l].right
          /\ clear(visits[l].user)
          /\ BeginLogin(l, visits[l].user, "basic")
          /\ visits' = [visits EXCEPT ![l].pc = "session"]
       \/ /\ ~visits[l].right
          /\ fail(visits[l].user)
          /\ Ends(l)
          /\ UNCHANGED <<logins, left>>

\* ---------------------------------------------------- through the provider

\* A tab that starts a login takes the cookie of the one before it.
start(b) ==
    \E f \in Flows, k \in Clients \cup {None} :
        /\ Use("flows")
        /\ flows[f] = None
        /\ k # None => clients[k].pc = "waiting"
        /\ flows' = [flows EXCEPT ![f] = [by |-> b, cli |-> k]]
        /\ cookies' = [cookies EXCEPT ![b].flow = f]
        /\ UNCHANGED <<lapsed, answers, exchanged, visits, failures, cliVars, history, accessVars>>

\* The provider: it sends the browser back with who is logged in there.
Authenticate ==
    \E f \in Flows, who \in People :
        /\ flows[f] # None /\ \A a \in answers : a.flow # f
        /\ answers' = answers \cup {[flow |-> f, who |-> who]}
        /\ UNCHANGED <<cookies, flows, lapsed, exchanged, visits, failures, cliVars, history, accessVars, room>>

\* The ten minutes of a login.
Lapse ==
    \E f \in Flows \ lapsed :
        /\ flows[f] # None /\ Use("expiries")
        /\ lapsed' = lapsed \cup {f}
        /\ UNCHANGED <<cookies, flows, answers, exchanged, visits, failures, cliVars, history, accessVars>>

\* mutant: the login in progress is found by the state of the answer, not by the cookie.
callback_byState(l, b) ==
    \E a \in answers :
        /\ visits[l].pc = "idle"
        /\ cookies[b].flow # None /\ a.flow \notin lapsed
        /\ a.flow \notin exchanged
        /\ exchanged' = exchanged \cup {a.flow}
        /\ BeginLogin(l, a.who, "oidc")
        /\ visits' = [visits EXCEPT ![l] = [NoVisit EXCEPT !.pc = "session", !.user = b, !.flow = a.flow,
                          !.to = IF flows[a.flow].cli = None THEN b ELSE flows[a.flow].cli]]
        /\ UNCHANGED <<cookies, flows, lapsed, answers, failures, cliVars, history, access, room>>

\* The answer of the provider, opened in a browser: its state, its code's challenge
\* and its nonce are those of the login in the cookie, and the code is new.
callback(l, b) ==
    \E a \in answers :
        /\ visits[l].pc = "idle"
        /\ cookies[b].flow = a.flow /\ a.flow \notin lapsed
        /\ a.flow \notin exchanged
        /\ exchanged' = exchanged \cup {a.flow}
        /\ BeginLogin(l, a.who, "oidc")
        /\ visits' = [visits EXCEPT ![l] = [NoVisit EXCEPT !.pc = "session", !.user = b, !.flow = a.flow,
                          !.to = IF flows[a.flow].cli = None THEN b ELSE flows[a.flow].cli]]
        /\ UNCHANGED <<cookies, flows, lapsed, answers, failures, cliVars, history, access, room>>

\* A callback that fails at any of its checks, and the cookie with it.
refuseCallback(b) ==
    /\ cookies[b].flow # None
    /\ cookies' = [cookies EXCEPT ![b].flow = None]
    /\ UNCHANGED <<flows, lapsed, answers, exchanged, visits, failures, cliVars, history, accessVars, room>>

\* ------------------------------------------------------- the answer of a login

Made(l) == visits[l].pc = "session" /\ logins[l].pc = "made"

\* A browser that began its login through the provider loses that cookie.
Answered(b, f) == IF f = None THEN cookies[b].flow ELSE None

\* mutant: a pasted token stays beside the session.
SessionDone_keepsToken(l) ==
    LET v == visits[l] IN
    /\ Made(l) /\ v.to \in Browsers
    /\ cookies' = [cookies EXCEPT ![v.to].session = logins[l].token, ![v.to].flow = Answered(v.to, v.flow)]
    /\ handed' = handed \cup {[to |-> v.to, token |-> logins[l].token, flow |-> v.flow]}
    /\ EndLogin(l) /\ Ends(l)
    /\ UNCHANGED <<flows, lapsed, answers, exchanged, failures, cliVars, ended, access, left, room>>

SessionDone(l) ==
    LET v == visits[l] IN
    /\ Made(l) /\ v.to \in Browsers
    /\ cookies' = [cookies EXCEPT ![v.to] = [flow |-> Answered(v.to, v.flow), session |-> logins[l].token, token |-> None]]
    /\ handed' = handed \cup {[to |-> v.to, token |-> logins[l].token, flow |-> v.flow]}
    /\ EndLogin(l) /\ Ends(l)
    /\ UNCHANGED <<flows, lapsed, answers, exchanged, failures, cliVars, ended, access, left, room>>

CLIToken(l) ==
    LET v == visits[l] IN
    /\ Made(l) /\ v.to \in Clients /\ v.flow = None
    /\ clients' = [clients EXCEPT ![v.to].pc = "done", ![v.to].saved = logins[l].token]
    /\ handed' = handed \cup {[to |-> v.to, token |-> logins[l].token, flow |-> None]}
    /\ EndLogin(l) /\ Ends(l)
    /\ UNCHANGED <<browserVars, failures, codes, late, ended, access, left, room>>

\* put, which forgets the codes that are late, and the redirect to the client.
CLIRedirect(l) ==
    LET v == visits[l] IN
    /\ Made(l) /\ v.to \in Clients /\ v.flow # None
    /\ codes' = {c \in codes : c.flow \notin late}
                    \cup {[flow |-> v.flow, token |-> logins[l].token, challenge |-> v.to]}
    /\ cookies' = [cookies EXCEPT ![v.user].flow = None]
    /\ clients' = [clients EXCEPT ![v.to] =
           IF @.pc = "waiting" THEN [@ EXCEPT !.pc = "asking", !.flow = v.flow] ELSE @]
    /\ EndLogin(l) /\ Ends(l)
    /\ UNCHANGED <<flows, lapsed, answers, exchanged, failures, late, history, access, left, room>>

\* mutant: the request is gone and its session is still being made.
LoginFails_goesOn(l) ==
    /\ visits[l].pc = "session"
    /\ Ends(l)
    /\ UNCHANGED <<browserVars, failures, cliVars, history, accessVars, room>>

\* No binding rule, an error of the store, or nobody left to answer.
LoginFails(l) ==
    /\ visits[l].pc = "session"
    /\ EndLogin(l) /\ Ends(l)
    /\ UNCHANGED <<browserVars, failures, cliVars, history, access, left, room>>

\* ------------------------------------------------------- the command line

\* loginOIDC: it listens, and opens a browser.
runLogin(k) ==
    /\ clients[k].pc = "idle" /\ Use("runs")
    /\ clients' = [clients EXCEPT ![k].pc = "waiting"]
    /\ UNCHANGED <<browserVars, visits, failures, codes, late, history, accessVars>>

\* Its ten minutes, or Ctrl-C.
loginTimeout(k) ==
    /\ clients[k].pc \in {"waiting", "asking"}
    /\ clients' = [clients EXCEPT ![k].pc = "failed"]
    /\ UNCHANGED <<browserVars, visits, failures, codes, late, history, accessVars, room>>

\* The minute of a code.
CodeLate ==
    \E c \in codes :
        /\ c.flow \notin late /\ Use("expiries")
        /\ late' = late \cup {c.flow}
        /\ UNCHANGED <<browserVars, visits, failures, codes, clients, history, accessVars>>

\* What is there to take for the code of a flow, and then it is gone.
take(f) == {c \in codes : c.flow = f /\ f \notin late}

proves(c, k) == c.challenge = k

\* A client asks for the secret with its code, or with one that is not its own; the
\* answer may be lost.
cliToken(k) ==
    \E f \in Flows :
        /\ clients[k].pc = "asking" \/ (clients[k].pc = "waiting" /\ \E c \in codes : c.flow = f)
        /\ LET own == clients[k].flow = f
               got == {c \in take(f) : proves(c, k)}
           IN  /\ clients[k].pc = "asking" => own
               /\ codes' = {c \in codes : c.flow # f}
               /\ handed' = handed \cup {[to |-> k, token |-> c.token, flow |-> f] : c \in got}
               /\ \/ \E c \in got : clients' = [clients EXCEPT ![k].pc = "done", ![k].saved = c.token]
                  \/ clients' = [clients EXCEPT ![k].pc = IF own THEN "failed" ELSE @]
        /\ UNCHANGED <<browserVars, visits, failures, late, ended, accessVars, room>>

\* A session that no longer works is forgotten too; an answer that is lost leaves it saved.
runLogout(k) ==
    LET a == clients[k].saved IN
    /\ a # None /\ Use("clicks")
    /\ IF ACLTokenBySecret(a)
       THEN Revoke({a}, a) /\ ended' = ended \cup {a}
       ELSE UNCHANGED <<tokens, log, ended>>
    /\ clients' = [clients EXCEPT ![k].saved = None] \/ UNCHANGED clients
    /\ UNCHANGED <<browserVars, visits, failures, codes, late, handed, aclOn, tables, requests, swept, logins, left>>

\* ------------------------------------------------------ pasting, logging out

pasteToken(b) ==
    \E a \in Accessors :
        /\ ACLTokenBySecret(a) /\ Use("clicks")
        /\ cookies' = [cookies EXCEPT ![b].session = None, ![b].token = a]
        /\ UNCHANGED <<flows, lapsed, answers, exchanged, visits, failures, cliVars, history, accessVars>>

\* A logout reads the session its request came with.
logout(l) ==
    \E b \in Browsers :
        LET a == cookies[b].session IN
        /\ visits[l].pc = "idle" /\ Use("clicks")
        /\ visits' = [visits EXCEPT ![l] = [NoVisit EXCEPT !.pc = "logout", !.user = b,
               !.token = IF a # None /\ ACLTokenBySecret(a) /\ born[a].origin = "login" THEN a ELSE None]]
        /\ UNCHANGED <<browserVars, failures, cliVars, history, accessVars>>

\* mutant: the browser forgets the session, and that is all.
revokeSession_forgets(l) ==
    /\ visits[l].pc = "logout"
    /\ visits' = [visits EXCEPT ![l].pc = "leaving"]
    /\ ended' = ended \cup ({visits[l].token} \ {None})
    /\ UNCHANGED <<tokens, log>>
    /\ UNCHANGED <<browserVars, failures, cliVars, handed, aclOn, tables, requests, swept, logins, left, room>>

\* It revokes it, if it still is there; an error of the store is logged.
revokeSession(l) ==
    LET a == visits[l].token IN
    /\ visits[l].pc = "logout"
    /\ visits' = [visits EXCEPT ![l].pc = "leaving"]
    /\ \/ /\ IF a \in live THEN Revoke({a}, a) ELSE UNCHANGED <<tokens, log>>
          /\ ended' = ended \cup ({a} \ {None})
       \/ UNCHANGED <<tokens, log, ended>>
    /\ UNCHANGED <<browserVars, failures, cliVars, handed, aclOn, tables, requests, swept, logins, left, room>>

\* The answer takes both cookies, whatever the browser has by now; it may be lost.
loggedOut(l) ==
    /\ visits[l].pc = "leaving"
    /\ Ends(l)
    /\ \/ cookies' = [cookies EXCEPT ![visits[l].user].session = None, ![visits[l].user].token = None]
       \/ UNCHANGED cookies
    /\ UNCHANGED <<flows, lapsed, answers, exchanged, failures, cliVars, history, accessVars, room>>

\* ------------------------------------------------------------- specification

\* What lives in the process only: the key of the login cookies, the counts, the codes.
NewProcess ==
    /\ Restart
    /\ visits' = [l \in Logins |-> NoVisit]
    /\ failures' = [u \in Usernames |-> 0]
    /\ codes' = {}
    /\ lapsed' = {f \in Flows : flows[f] # None}
    /\ UNCHANGED <<cookies, flows, answers, exchanged, late, clients, history, room>>

LoginInit ==
    /\ \E s \in Starts : Begin(s) /\ room = s.room
    /\ cookies = [b \in Browsers |-> NoCookies]
    /\ flows = [f \in Flows |-> None]
    /\ lapsed = {} /\ answers = {} /\ exchanged = {}
    /\ visits = [l \in Logins |-> NoVisit]
    /\ failures = [u \in Usernames |-> 0]
    /\ codes = {} /\ late = {}
    /\ clients = [k \in Clients |-> NoClient]
    /\ handed = {} /\ ended = {}

LocalUser(l) == check(l) \/ takeSlot(l) \/ giveUp(l) \/ compare(l)

AnswerLogin(l) == SessionDone(l) \/ CLIToken(l) \/ CLIRedirect(l) \/ LoginFails(l)

Leave(l) == logout(l) \/ revokeSession(l) \/ loggedOut(l)

Browse(b) == start(b) \/ refuseCallback(b) \/ pasteToken(b) \/ \E l \in Logins : callback(l, b)

CommandLine(k) == runLogin(k) \/ loginTimeout(k) \/ cliToken(k) \/ runLogout(k)

Shared ==
    \/ \E q \in Requests : Serve(q)
    \/ \E l \in Logins : MakeSession(l)
    \/ Expire

LoginNext ==
    \/ Shared /\ UNCHANGED loginVars
    \/ \E l \in Logins : LocalUser(l) \/ AnswerLogin(l) \/ Leave(l)
    \/ \E b \in Browsers : Browse(b)
    \/ \E k \in Clients : CommandLine(k)
    \/ expire \/ Authenticate \/ Lapse \/ CodeLate \/ NewProcess

LoginSpec == LoginInit /\ [][LoginNext]_<<vars, loginVars>>

\* -------------------------------------------------------------- properties

\* Every variable keeps its shape: a cookie names a token that was issued, a visit
\* has a session in the making exactly when Access has, a code belongs to a flow of
\* a client.
LoginTypeOK ==
    /\ \A b \in Browsers :
           /\ {cookies[b].session, cookies[b].token} \subseteq issued \cup {None}
           /\ cookies[b].flow # None => flows[cookies[b].flow] # None
    /\ \A l \in Logins :
           /\ visits[l].pc \in {"idle", "slot", "compare", "session", "logout", "leaving"}
           /\ visits[l].pc = "session" <=> logins[l].pc # "idle"
    /\ \A c \in codes : c.flow \in exchanged /\ c.challenge = flows[c.flow].cli /\ c.token \in issued
    /\ lapsed \cup exchanged \cup late \subseteq {f \in Flows : flows[f] # None}

\* However many logins of one username run side by side (auth_basic.go: "Others may
\* have locked the username while this request waited"), the passwords that are
\* compared and found wrong in one window are the limit, and at most those that were
\* already being compared when it was reached.
GuessesBounded == \A u \in Usernames : failures[u] <= MaxFailures - 1 + Slots

\* A session made through the provider goes to the browser, or the run of the
\* command line, that began that login, and is the session of who authenticated in
\* it: not of another tab or browser that opens the answer, not to a client that
\* asks with a code that is not its own.
GoesHome ==
    \A h \in handed : h.flow # None =>
        /\ h.to = IF flows[h.flow].cli = None THEN flows[h.flow].by ELSE flows[h.flow].cli
        /\ [flow |-> h.flow, who |-> born[h.token].identity] \in answers
        /\ \A g \in handed : g.token = h.token => g = h

\* A browser never holds a session and a pasted token at once, so who it acts as
\* never depends on which cookie is read first (login.go cookieSubject): not when
\* a login, a logout and a pasted token are answered in any order.
OneIdentity == \A b \in Browsers : cookies[b].session = None \/ cookies[b].token = None

\* A session that a logout, of a browser or of the command line, has ended without
\* an error never works again, whatever login was answered meanwhile.
LogoutEnds == ended \cap live = {}

=============================================================================
