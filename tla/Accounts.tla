------------------------------ MODULE Accounts ------------------------------
(***************************************************************************)
(* Accounts of the governance agent (auth/router.py, dependencies.py) and  *)
(* the desktop client that logs in to them (client_agent/auth.py).  A      *)
(* handler is cut at its awaits of the database; the client at its         *)
(* requests, between which its user may log out.                           *)
(***************************************************************************)
EXTENDS Naturals, FiniteSets

CONSTANTS
    Names, Mails,   \* user names and addresses
    Registrations,  \* requests to /auth/register
    Calls,          \* requests of the client to log in or refresh
    AccessLife, RefreshLife,    \* lives of the two tokens
    Margin,         \* what the client takes off a token's life (30 s)
    Timeout,        \* how long it waits for an answer (30 s)
    LastTick,       \* bound on time
    Visits          \* requests to a protected endpoint

ASSUME AccountsAssumption ==
    /\ {AccessLife, RefreshLife, Margin, Timeout, LastTick} \subseteq Nat
    /\ Timeout <= Margin

VARIABLES
    tick,
    users,      \* rows of users: name, mail, active
    userKeys,   \* rows of api_keys: the owner, whether active, the last tick
    visit,      \* the requests to protected endpoints
    signup,     \* the registrations
    cache,      \* the client's TokenCache; `of' is the subject of its tokens
    cacheFile,  \* desktop_auth.json, NoCache when there is none
    request,    \* the client's requests
    owner,      \* history: the user who logged in last and has not logged out
    astray      \* history: "crossed", a refresh was under way when the owner
                \* changed; "file", the file was not written or not removed

accountVars == <<tick, users, userKeys, visit, signup, cache, cacheFile, request, owner, astray>>
server == <<users, userKeys, visit, signup>>
client == <<cache, cacheFile, request, owner, astray>>

Nobody == "nobody"
NoCache == [user |-> Nobody, of |-> Nobody, access |-> 0, refresh |-> 0, expires |-> 0]
NewRequest == [pc |-> "new", user |-> Nobody, access |-> 0, refresh |-> 0, answered |-> 0]

AccountsInit ==
    /\ tick = 0 /\ users = {} /\ owner = Nobody /\ astray = {}
    /\ userKeys = {} /\ visit = [v \in Visits |-> [pc |-> "new"]]
    /\ signup = [r \in Registrations |-> [pc |-> "new"]]
    /\ cache = NoCache /\ cacheFile = NoCache
    /\ request = [c \in Calls |-> NewRequest]

TickAccounts == tick < LastTick /\ tick' = tick + 1 /\ UNCHANGED <<server, client>>

-----------------------------------------------------------------------------
(* The server. *)

ActiveUser(u) == \E row \in users : row.name = u /\ row.active

\* decode_token: a token of the right type, not expired, of an active user;
\* it is told by its user and the end of its life.
Accepts(u, exp) == ActiveUser(u) /\ tick <= exp

\* The query finds no row, or one whose name or address is reported as taken;
\* or two, of which the one has the name and the other the address, and raises.
LookUp(r) ==
    /\ signup[r].pc = "new"
    /\ \E n \in Names, m \in Mails :
          LET found == {row \in users : row.name = n \/ row.mail = m}
          IN  signup' = [signup EXCEPT ![r] =
                 [name |-> n, mail |-> m,
                  pc |-> IF found = {} THEN "insert"
                         ELSE IF Cardinality(found) > 1 THEN "500"
                         ELSE IF \E row \in found : row.name = n THEN "nameTaken"
                         ELSE "mailTaken"]]
    /\ UNCHANGED <<tick, users, userKeys, visit, client>>

\* The unique columns of the table.
UniqueRow(n, m) == \A row \in users : row.name # n /\ row.mail # m

\* The commit of the new row; it may take effect although the call raises.
InsertUser(r) ==
    /\ signup[r].pc = "insert"
    /\ \/ /\ UniqueRow(signup[r].name, signup[r].mail)
          /\ users' = users \union
                {[name |-> signup[r].name, mail |-> signup[r].mail, active |-> TRUE]}
          /\ \E answer \in {"201", "500"} : signup' = [signup EXCEPT ![r].pc = answer]
       \/ users' = users /\ signup' = [signup EXCEPT ![r].pc = "500"]
    /\ UNCHANGED <<tick, userKeys, visit, client>>

\* Nothing in the code does it: an account is disabled in the database.
Disable(u) ==
    /\ ActiveUser(u)
    /\ users' = {IF row.name = u THEN [row EXCEPT !.active = FALSE] ELSE row : row \in users}
    /\ UNCHANGED <<tick, signup, userKeys, visit, client>>

\* A key without a last tick does not expire; here every key has one.
CreateApiKey(u) ==
    /\ ActiveUser(u)
    /\ \E exp \in tick..LastTick : userKeys' = userKeys \union {[user |-> u, active |-> TRUE, exp |-> exp]}
    /\ UNCHANGED <<tick, users, signup, visit, client>>

RevokeKey(k) ==
    /\ k.active
    /\ userKeys' = (userKeys \ {k}) \union {[k EXCEPT !.active = FALSE]}
    /\ UNCHANGED <<tick, users, signup, visit, client>>

\* get_current_user: a token, else a key, else 401.
Present(v) ==
    /\ visit[v].pc = "new"
    /\ \/ \E u \in Names : visit' = [visit EXCEPT ![v] = [pc |-> "user", user |-> u]]
       \/ \E k \in {key \in userKeys : key.active /\ tick <= key.exp} :
             visit' = [visit EXCEPT ![v] = [pc |-> "user", user |-> k.user]]
       \/ visit' = [visit EXCEPT ![v] = [pc |-> "401"]]
    /\ UNCHANGED <<tick, users, userKeys, signup, client>>

\* The row of the user, a query after the one for the key.
FetchUser(v) ==
    /\ visit[v].pc = "user"
    /\ visit' = [visit EXCEPT ![v].pc = IF ActiveUser(visit[v].user) THEN "check" ELSE "401"]
    /\ UNCHANGED <<tick, users, userKeys, signup, client>>
-----------------------------------------------------------------------------
(* The client. *)

\* Mutant of IsValid: without the margin.
IsValidToTheEnd(c) == c.access > 0 /\ tick < c.expires

IsValid(c) == c.access > 0 /\ tick + Margin < c.expires

\* ensure_authenticated gives out the cached token when it is valid, and
\* otherwise refreshes it; login posts the name and the password.
CallLogin(c, u) ==
    /\ request[c].pc = "new"
    /\ request' = [request EXCEPT ![c].pc = "login", ![c].user = u]
    /\ UNCHANGED <<tick, server, cache, cacheFile, owner, astray>>

CallRefresh(c) ==
    /\ request[c].pc = "new" /\ ~IsValid(cache) /\ cache.refresh > 0
    /\ request' = [request EXCEPT ![c].pc = "refresh", ![c].user = cache.of,
                            ![c].refresh = cache.refresh]
    /\ UNCHANGED <<tick, server, cache, cacheFile, owner, astray>>

\* /auth/login gives a pair of tokens, /auth/refresh a new access token and
\* the refresh token as it was.
AnswerClient(c) ==
    LET u == request[c].user
    IN  /\ \/ request[c].pc = "login" /\ ActiveUser(u)
           \/ request[c].pc = "refresh" /\ Accepts(u, request[c].refresh)
        /\ request' = [request EXCEPT ![c].pc = IF @ = "login" THEN "loggedIn" ELSE "refreshed",
               ![c].access = tick + AccessLife, ![c].answered = tick,
               ![c].refresh = IF request[c].pc = "login" THEN tick + RefreshLife ELSE @]
        /\ UNCHANGED <<tick, server, cache, cacheFile, owner, astray>>

\* A wrong password, a disabled account, an expired token, a request or an
\* answer that is lost.
Refused(c) ==
    /\ request[c].pc \notin {"new", "over"}
    /\ request' = [request EXCEPT ![c] = [NewRequest EXCEPT !.pc = "over"]]
    /\ UNCHANGED <<tick, server, cache, cacheFile, owner, astray>>

\* What goes astray when the owner changes now.
Crossing == IF \E c \in Calls : request[c].pc \in {"refresh", "refreshed"}
            THEN {"crossed"} ELSE {}

\* The file takes on the new content, or cannot be written or removed.
Saved(new, crossing) ==
    \/ cacheFile' = new /\ astray' = astray \union crossing
    \/ cacheFile' = cacheFile /\ astray' = astray \union crossing \union {"file"}

\* Tokens that are written into whatever cache there is by now; a refresh leaves
\* its name as it is.
Tokens(c, name) ==
    [user |-> name, of |-> request[c].user,
     access |-> request[c].access, refresh |-> request[c].refresh,
     expires |-> tick + AccessLife]

Received(c, new) ==
    /\ tick <= request[c].answered + Timeout
    /\ cache' = new
    /\ request' = [request EXCEPT ![c] = [NewRequest EXCEPT !.pc = "over"]]
    /\ UNCHANGED <<tick, server>>

ReceiveLogin(c) ==
    LET new == Tokens(c, request[c].user)
    IN  /\ request[c].pc = "loggedIn"
        /\ Received(c, new)
        /\ owner' = request[c].user
        /\ Saved(new, Crossing)

ReceiveRefresh(c) ==
    LET new == Tokens(c, cache.user)
    IN  /\ request[c].pc = "refreshed"
        /\ Received(c, new)
        /\ Saved(new, {})
        /\ UNCHANGED owner

Logout ==
    /\ cache' = NoCache /\ owner' = Nobody
    /\ Saved(NoCache, Crossing)
    /\ UNCHANGED <<tick, server, request>>

\* The client is started again and loads the file.
RestartClient ==
    /\ cache' = cacheFile
    /\ request' = [c \in Calls |-> IF request[c].pc = "new" THEN NewRequest ELSE [NewRequest EXCEPT !.pc = "over"]]
    /\ UNCHANGED <<tick, server, cacheFile, owner, astray>>

AccountsNext ==
    \/ TickAccounts \/ Logout \/ RestartClient
    \/ \E r \in Registrations : LookUp(r) \/ InsertUser(r)
    \/ \E u \in Names : Disable(u) \/ CreateApiKey(u)
    \/ \E k \in userKeys : RevokeKey(k)
    \/ \E v \in Visits : Present(v) \/ FetchUser(v)
    \/ \E c \in Calls : CallRefresh(c) \/ AnswerClient(c) \/ Refused(c) \/ ReceiveLogin(c) \/ ReceiveRefresh(c)
                        \/ \E u \in Names : CallLogin(c, u)

AccountsSpec == AccountsInit /\ [][AccountsNext]_accountVars

-----------------------------------------------------------------------------
(* Properties. *)

\* A token the client gives out as valid (ensure_authenticated, and
\* get_auth_headers) has not expired at the server, which counts its life from
\* the answer while the client counts from its receipt: the margin of the one
\* makes up for the timeout of the other, through refreshes, late answers, a
\* logout meanwhile and restarts from the file.
HandedTokenIsLive == IsValid(cache) => tick <= cache.access

\* The tokens of the client, their name and its file are those of the user who
\* is logged in, and of no one after a logout, through restarts; except that a
\* refresh under way when the user logs out, or another logs in, is written into
\* the new cache (refresh writes self._cache, whatever it is by now), and that a
\* file which could not be removed or written is loaded at the next start.
TokensAreOwners == astray = {} => cache.user = owner /\ cache.of = owner /\ cacheFile = cache

\* Registrations overlap between their look and their insert: whoever is told
\* 201 has the row, no two of them the same name or address, and what is
\* reported as taken belongs to an account; although two accounts may be found,
\* or a row be inserted although its registration is answered 500.
SignupsSound ==
    /\ \A r \in Registrations : signup[r].pc = "201" =>
          \E row \in users : row.name = signup[r].name /\ row.mail = signup[r].mail
    /\ \A r, s \in Registrations : signup[r].pc = "201" /\ signup[s].pc = "201" /\ r # s =>
          signup[r].name # signup[s].name /\ signup[r].mail # signup[s].mail
    /\ \A r \in Registrations : signup[r].pc = "nameTaken" => \E row \in users : row.name = signup[r].name
    /\ \A r \in Registrations : signup[r].pc = "mailTaken" => \E row \in users : row.mail = signup[r].mail

\* The client's tokens are alive and its user's, and registrations are answered
\* by what the table of users holds.
AccountsSound == HandedTokenIsLive /\ TokensAreOwners /\ SignupsSound
=============================================================================
