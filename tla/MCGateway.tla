------------------------------ MODULE MCGateway ------------------------------
(* The gateway and the services about it, for TLC: the tenants' keys at the   *)
(* proxy, accounts and the desktop client, messages to the chat platforms and *)
(* the alert rules.  They share no state with the chat endpoint, so a         *)
(* behaviour is of one of them: `focus' says which.                           *)
EXTENDS Gateway, TenantKeys, Accounts, ImMessages, Alerting

VARIABLE focus

\* Nothing configured (development), the proxy (production), a stub beside it.
ThreeDeployments == {{}, {"litellm"}, {"litellm", "glm"}}

\* What the client and those who register do does not depend on which of its
\* requests, or which of theirs, it is.
Interchangeable == Permutations(Calls) \union Permutations(Registrations)

GatewayInit ==
    /\ Init /\ TenantsInit /\ AccountsInit /\ ImInit /\ AlertingInit
    /\ focus \in {"chat", "tenants", "accounts", "im", "alerts"}
    /\ focus # "chat" => configured = {}
    /\ focus # "alerts" => \A r \in RuleIds : rules[r].threshold = 10

GatewayNext ==
    /\ \/ focus = "chat" /\ Next /\ UNCHANGED <<tenantVars, accountVars, imVars, alertVars>>
       \/ focus = "tenants" /\ TenantsNext /\ UNCHANGED <<vars, accountVars, imVars, alertVars>>
       \/ focus = "accounts" /\ AccountsNext /\ UNCHANGED <<vars, tenantVars, imVars, alertVars>>
       \/ focus = "im" /\ ImNext /\ UNCHANGED <<vars, tenantVars, accountVars, alertVars>>
       \/ focus = "alerts" /\ AlertingNext /\ UNCHANGED <<vars, tenantVars, accountVars, imVars>>
    /\ UNCHANGED focus

GatewaySpec == GatewayInit /\ [][GatewayNext]_<<vars, tenantVars, accountVars, imVars, alertVars, focus>>

\* Bounds.  A chat request goes past the middleware only in behaviours without
\* keys, for behind it nothing depends on them; an endpoint is visited, by the
\* owner of at most one key, only while the client is idle; and registrations
\* that are under way or were refused are of behaviours without the client.
Focus ==
    /\ issued # {} => /\ configured = {}
                      /\ budget = None
                      /\ \A r \in Requests : chat[r].stage \in {"new", "queued", "401", "429"}
    /\ (\E v \in Visits : visit[v].pc # "new") \/ userKeys # {} =>
          /\ \A c \in Calls : request[c].pc = "new"
          /\ Cardinality(userKeys) <= 1
    /\ (\E r \in Registrations : signup[r].pc \notin {"new", "201"}) =>
          tick = 0 /\ userKeys = {} /\ \A c \in Calls : request[c].pc = "new"
=============================================================================
