------------------------------ MODULE MCAccess ------------------------------
(***************************************************************************)
(* Instances of Access and Login: beginnings, each with room for one kind of   *)
(* trouble.                                                                *)
(***************************************************************************)
EXTENDS Login, TLC

CONSTANTS ann, bob, r1, r2

prod == <<"p", "r">>
dev == <<"d">>
MCNamespaces == {prod, dev}

DenyProd == [blocks |-> <<Block(prod, "deny", {}), Block(<<"*">>, "read", {})>>, capabilities |-> {}]
WriteAll == [blocks |-> <<Block(<<"p", "*">>, "read", {"approve"}), Block(<<"*">>, "write", {}),
                          Block(prod, "", {"deploy-now"})>>,
             capabilities |-> {"backup", "fetch"}]
MCFiles == {DenyProd, WriteAll}

MCRuleInputs == {[method |-> "oidc", selector |-> Selector("claims", {ann}), type |-> "management", name |-> None],
                 [method |-> "oidc", selector |-> Selector("empty", {}), type |-> "policy", name |-> 1]}

MCTokenInputs == {[type |-> "management", policies |-> {}, mortal |-> TRUE],
                  [type |-> "client", policies |-> {1, 2}, mortal |-> FALSE]}

NoTokens == [a \in Accessors |-> None]
created_(type, ps, acl, by) ==
    [type |-> type, policies |-> ps, acl |-> acl, origin |-> "created", identity |-> None,
     mortal |-> TRUE, creator |-> by, creatorIdentity |-> None]

Left(requests_, acts, edits, logins_, expiries, restarts) ==
    [requests |-> requests_, acts |-> acts, edits |-> edits, logins |-> logins_, expiries |-> expiries, restarts |-> restarts]

NoRules == [i \in RuleIDs |-> None]
BindAnn == [NoRules EXCEPT ![r1] = [method |-> "oidc", selector |-> Selector("claims", {ann}), type |-> "management", name |-> None]]
BindBoth == [BindAnn EXCEPT ![r2] = [method |-> "oidc", selector |-> Selector("empty", {}), type |-> "policy", name |-> 1]]
NoRoom == [guesses |-> 0, flows |-> 0, runs |-> 0, clicks |-> 0, expiries |-> 0]

\* A client token and the policies it carries, which others rewrite meanwhile.
Policies == [acl |-> TRUE, policies |-> <<Parse(DenyProd), Parse(WriteAll)>>, rules |-> NoRules,
             born |-> [NoTokens EXCEPT ![1] = created_("client", {1, 2}, TRUE, Bootstrap)],
             left |-> Left(3, 1, 2, 0, 0, 0), room |-> NoRoom]

\* A chain of tokens, and revocations one by one and in one action.
Chain == [acl |-> TRUE, policies |-> <<Garbled, None>>, rules |-> NoRules,
          born |-> [NoTokens EXCEPT ![1] = created_("management", {}, TRUE, Bootstrap),
                                    ![2] = created_("management", {}, TRUE, 1),
                                    ![3] = created_("client", {1}, FALSE, None)],
          left |-> Left(3, 0, 0, 0, 1, 0), room |-> NoRoom]

\* Tokens of both modes, and a process that starts with the other one.
Modes == [Chain EXCEPT !.acl = FALSE, !.left = Left(2, 0, 0, 0, 1, 1)]

\* Binding rules, and a login meanwhile.
Edits == [acl |-> TRUE, policies |-> <<Parse(DenyProd), None>>, rules |-> NoRules,
          born |-> [NoTokens EXCEPT ![1] = created_("client", {1}, TRUE, Bootstrap)],
          left |-> Left(2, 1, 2, 1, 0, 0), room |-> [NoRoom EXCEPT !.flows = 1]]

\* Logins through the provider, in the tabs of two browsers.
Provider == [acl |-> TRUE, policies |-> <<None, None>>, rules |-> BindBoth, born |-> NoTokens,
             left |-> Left(0, 0, 0, 2, 0, 1), room |-> [NoRoom EXCEPT !.flows = 2, !.expiries = 1]]

\* From the command line, twice, with a browser between.
Terminal == [acl |-> TRUE, policies |-> <<None, None>>, rules |-> BindAnn, born |-> NoTokens,
             left |-> Left(0, 0, 0, 1, 0, 1),
             room |-> [NoRoom EXCEPT !.flows = 1, !.runs = 2, !.expiries = 1, !.clicks = 1]]

\* Browsers that log in, paste a token and logs out.
Browser == [acl |-> FALSE, policies |-> <<None, None>>, rules |-> NoRules,
            born |-> [NoTokens EXCEPT ![1] = created_("client", {1}, FALSE, Bootstrap)],
            left |-> Left(0, 0, 0, 2, 1, 0), room |-> [NoRoom EXCEPT !.guesses = 2, !.clicks = 2]]

\* Wrong passwords, side by side.
Guesses == [acl |-> FALSE, policies |-> <<None, None>>, rules |-> NoRules, born |-> NoTokens,
            left |-> Left(0, 0, 0, 1, 0, 0), room |-> [NoRoom EXCEPT !.guesses = 3]]

Symmetry == Permutations(Requests) \cup Permutations(Logins) \cup Permutations(Browsers)

MCUsernames == {ann, None}

MCStarts == {Policies, Chain, Modes, Edits, Provider, Terminal, Browser, Guesses}

=============================================================================
