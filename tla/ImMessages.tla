----------------------------- MODULE ImMessages -----------------------------
(***************************************************************************)
(* Messages to the chat platforms: the tools send_message and broadcast,   *)
(* the adapters of WeCom, Feishu and DingTalk and the access token each of *)
(* them caches (im_agent).  The sends of one broadcast run concurrently.   *)
(***************************************************************************)
EXTENDS Naturals, FiniteSets

CONSTANTS
    Sends,          \* the targets of a broadcast
    RealPlatforms,  \* platforms with an adapter that has credentials
    TokenLife,      \* life of an access token (7200 s)
    Buffer,         \* what get_access_token takes off it (300 s)
    ImTimeout,      \* timeout of a request to a platform (10 s)
    LastClock       \* bound on time

ASSUME ImAssumption ==
    /\ {TokenLife, Buffer, ImTimeout, LastClock} \subseteq Nat
    /\ 2 * ImTimeout <= Buffer /\ 2 * ImTimeout <= TokenLife

VARIABLES
    clock,
    token,      \* the cached token of a platform: its end at the platform,
                \* and the end the adapter believes in
    send,       \* one record per target
    arrived,    \* history: when a message reached its platform, and the end of its token
    sessions    \* sessions that adapters have saved

imVars == <<clock, token, send, arrived, sessions>>

MockPlatform == "mock"
UnknownPlatform == "unknown"
Platforms == RealPlatforms \union {MockPlatform, UnknownPlatform}
NoToken == [end |-> 0, believed |-> 0]
SendEnds == {"sent", "failed", "invalid"}

ImInit ==
    /\ clock = 1
    /\ token = [p \in RealPlatforms |-> NoToken]
    /\ send = [s \in Sends |-> [pc |-> "new", platform |-> MockPlatform, end |-> 0, at |-> 0]]
    /\ arrived = {} /\ sessions = {}

PassTime == clock < LastClock /\ clock' = clock + 1 /\ UNCHANGED <<token, send, arrived, sessions>>

Becomes(s, pc) == send' = [send EXCEPT ![s].pc = pc]

\* A target with a platform that does not exist is left out of the broadcast.
Address(s) ==
    /\ send[s].pc = "new"
    /\ \E p \in Platforms :
          send' = [send EXCEPT ![s].platform = p,
              ![s].pc = IF p = UnknownPlatform THEN "invalid" ELSE IF p = MockPlatform THEN "sent" ELSE "token"]
    /\ UNCHANGED <<clock, token, arrived, sessions>>

\* Mutant of Usable: until the adapter believes it to end.
UsableToTheEnd(t) == t.end > 0 /\ clock < t.believed

Usable(t) == t.end > 0 /\ clock + Buffer < t.believed

\* get_access_token, from the cache.
CachedToken(s) ==
    LET t == token[send[s].platform]
    IN  /\ send[s].pc = "token" /\ Usable(t)
        /\ send' = [send EXCEPT ![s].pc = "post", ![s].end = t.end, ![s].at = clock]
        /\ UNCHANGED <<clock, token, arrived, sessions>>

\* The platform gives a token, each with a life of its own (external).
IssueToken(s) ==
    /\ send[s].pc = "token" /\ ~Usable(token[send[s].platform])
    /\ send' = [send EXCEPT ![s].pc = "issued", ![s].end = clock + TokenLife, ![s].at = clock]
    /\ UNCHANGED <<clock, token, arrived, sessions>>

\* The answer: two sends may have asked, the later answer stays in the cache.
StoreToken(s) ==
    /\ send[s].pc = "issued" /\ clock <= send[s].at + ImTimeout
    /\ token' = [token EXCEPT ![send[s].platform] =
                    [end |-> send[s].end, believed |-> clock + TokenLife]]
    /\ send' = [send EXCEPT ![s].pc = "post", ![s].at = clock]
    /\ UNCHANGED <<clock, arrived, sessions>>

\* The message reaches the platform, which answers with an error code or not;
\* a lost answer is an error too.
PostMessage(s) ==
    /\ send[s].pc = "post" /\ clock <= send[s].at + ImTimeout
    /\ \E pc \in {"sent", "failed"} : Becomes(s, pc)
    /\ arrived' = arrived \union {[by |-> s, at |-> clock, end |-> send[s].end]}
    /\ UNCHANGED <<clock, token, sessions>>

\* DingTalk with a webhook signs the message and needs no token.
PostSigned(s) ==
    /\ send[s].pc = "token"
    /\ \E pc \in {"sent", "failed"} : Becomes(s, pc)
    /\ UNCHANGED <<clock, token, arrived, sessions>>

\* An error code instead of a token, a timeout, an answer that is no JSON.
SendFails(s) ==
    /\ send[s].pc \in {"token", "issued", "post"}
    /\ Becomes(s, "failed")
    /\ UNCHANGED <<clock, token, arrived, sessions>>

\* A callback is parsed and logged; only save_session keeps anything.
SaveSession(p) ==
    /\ sessions' = sessions \union {p}
    /\ UNCHANGED <<clock, token, send, arrived>>

ImNext ==
    \/ PassTime
    \/ \E s \in Sends : \/ Address(s) \/ CachedToken(s) \/ IssueToken(s) \/ StoreToken(s)
                        \/ PostMessage(s) \/ PostSigned(s) \/ SendFails(s)
    \/ \E p \in RealPlatforms \union {MockPlatform} : SaveSession(p)

ImSpec == ImInit /\ [][ImNext]_imVars

-----------------------------------------------------------------------------
(* Properties. *)

\* No message reaches its platform with a token that has ended there, although
\* the adapter counts a token's life from its receipt, shares it between
\* concurrent sends, and may use it a timeout after it looked.
TokensReachAlive == \A a \in arrived : a.at <= a.end
=============================================================================
