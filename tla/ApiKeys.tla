------------------------------- MODULE ApiKeys -------------------------------
(***************************************************************************)
(* The API keys of the gateway and their quotas: keys are created, changed *)
(* and deleted while requests are checked against a sliding window of      *)
(* requests and a fixed window of tokens.  Nothing is awaited between the  *)
(* validation of a key and the check of its quotas, so both are one step.  *)
(*                                                                         *)
(* Names, owners and statistics of a key (total_calls, last_used_at) are   *)
(* left out.                                                               *)
(***************************************************************************)
EXTENDS Integers, Sequences, FiniteSetsExt, Filters

CONSTANTS Ids,        \* key ids; the hash of a fresh secret, so never used twice
          RpmQuotas,  \* requests per minute a key may be given
          TpmQuotas,  \* tokens per minute a key may be given
          Estimates,  \* values of the X-Token-Estimate header (0: none)
          Window,     \* the 60 seconds, in ticks
          TrackerMax, \* maxlen of a request tracker
          MaxTime,    \* bound: ticks of the clock
          None        \* no such key, no such tracker

\* The endpoints demand quotas above zero (Field(gt=0)).
ASSUME QuotaAssumption ==
    /\ RpmQuotas \subseteq Nat \ {0}
    /\ TpmQuotas \subseteq Nat \ {0}
    /\ Estimates \subseteq Nat
    /\ Window \in Nat
    /\ TrackerMax \in Nat
    /\ MaxTime \in Nat

Key == [enabled : BOOLEAN, rpm : RpmQuotas, tpm : TpmQuotas]

ASSUME KeyAssumption == None \notin Key \cup [start : Nat, used : Nat]

VARIABLES
    keys,      \* _api_keys
    issued,    \* ids given out so far
    requests,  \* _rpm_tracker: times of the admitted requests
    tokens,    \* _tpm_tracker: start of the token window and tokens in it
    now,       \* time.time()
    log        \* history: what was admitted within the last Window

keyVars == <<keys, issued, requests, tokens, now, log>>

\* Entries of the log: of some keys and times.
Admissions(ids, times) == [id : ids, at : times, tokens : Estimates]

KeysTypeOK ==
    /\ keys \in [Ids -> Key \cup {None}]
    /\ issued \subseteq Ids
    /\ requests \in [Ids -> Seq(Nat)]
    /\ tokens \in [Ids -> [start : Nat, used : Nat] \cup {None}]
    /\ now \in Nat

KeysInit ==
    /\ keys = [i \in Ids |-> None]
    /\ issued = {}
    /\ requests = [i \in Ids |-> <<>>]
    /\ tokens = [i \in Ids |-> None]
    /\ now = 0
    /\ log = <<>>

-----------------------------------------------------------------------------
(* Managing keys                                                            *)

CreateKey(i) ==
    /\ i \notin issued
    /\ issued' = issued \cup {i}
    /\ \E q \in RpmQuotas, t \in TpmQuotas :
         keys' = [keys EXCEPT ![i] = [enabled |-> TRUE, rpm |-> q, tpm |-> t]]
    /\ UNCHANGED <<requests, tokens, now, log>>

UpdateKey(i) ==
    /\ keys[i] # None
    /\ \E k \in Key : k # keys[i] /\ keys' = [keys EXCEPT ![i] = k]
    /\ UNCHANGED <<issued, requests, tokens, now, log>>

ForgetTrackers(i) ==
    /\ requests' = [requests EXCEPT ![i] = <<>>]
    /\ tokens' = [tokens EXCEPT ![i] = None]

DeleteKey(i) ==
    /\ keys[i] # None
    /\ keys' = [keys EXCEPT ![i] = None]
    /\ ForgetTrackers(i)
    /\ UNCHANGED <<issued, now, log>>

-----------------------------------------------------------------------------
(* Checking a request                                                       *)

\* Mutant of Valid: a disabled key passes.
ValidIfKnown(i) == keys[i] # None

Valid(i) == keys[i] # None /\ keys[i].enabled

\* Mutant of Recent: what is as old as the window is dropped too.
RecentShort(i) == Keep(requests[i], (now - Window + 1)..now)

\* The tracker without the entries older than the window.
Recent(i) == Keep(requests[i], (now - Window)..now)

\* Mutant of TokenWindow: every minute mark starts a new window.
TokenWindowAlways(i) ==
    IF tokens[i] = None \/ now > tokens[i].start
    THEN [start |-> now, used |-> 0] ELSE tokens[i]

\* The token window: made at the first request of the key that states tokens,
\* and started anew once it is older than Window.
TokenWindow(i) ==
    IF tokens[i] = None \/ now - tokens[i].start > Window
    THEN [start |-> now, used |-> 0] ELSE tokens[i]

UnderRpm(i) == Len(Recent(i)) < keys[i].rpm

UnderTpm(i, n) == n > 0 => TokenWindow(i).used + n <= keys[i].tpm

\* A deque of limited length drops its oldest entry.
Pushed(s, t) == IF Len(s) < TrackerMax THEN Append(s, t)
                ELSE Append(SubSeq(s, Len(s) - TrackerMax + 2, Len(s)), t)

Throttle(i, n) ==
    /\ Valid(i)
    /\ ~(UnderRpm(i) /\ UnderTpm(i, n))
    /\ requests' = [requests EXCEPT ![i] = Recent(i)]
    /\ tokens' = IF UnderRpm(i) THEN [tokens EXCEPT ![i] = TokenWindow(i)] ELSE tokens
    /\ UNCHANGED <<keys, issued, now, log>>

Admit(i, n) ==
    /\ Valid(i)
    /\ UnderRpm(i) /\ UnderTpm(i, n)
    /\ requests' = [requests EXCEPT ![i] = Pushed(Recent(i), now)]
    /\ tokens' = IF n = 0 THEN tokens
                 ELSE [tokens EXCEPT ![i] = [start |-> TokenWindow(i).start,
                                             used  |-> TokenWindow(i).used + n]]
    /\ log' = Append(log, [id |-> i, at |-> now, tokens |-> n])
    /\ UNCHANGED <<keys, issued, now>>

Tick ==
    /\ now < MaxTime
    /\ now' = now + 1
    /\ log' = Keep(log, Admissions(Ids, (now' - Window)..now'))
    /\ UNCHANGED <<keys, issued, requests, tokens>>

ManageKeys == \E i \in Ids : CreateKey(i) \/ UpdateKey(i) \/ DeleteKey(i)

KeysNext ==
    \/ ManageKeys
    \/ \E i \in Ids, n \in Estimates : Throttle(i, n) \/ Admit(i, n)
    \/ Tick

KeysSpec == KeysInit /\ [][KeysNext]_keyVars

-----------------------------------------------------------------------------

AdmittedFor(i) == Keep(log, Admissions({i}, Nat))

\* The tokens of some entries of the log together.
Admitted(entries) == SumOf([n \in 1..Len(entries) |-> entries[n].tokens])

\* A request is admitted only while the key, whatever happened to its quota
\* before, has admitted fewer than its present quota of requests in the minute
\* that ends now (check_rate_limit, the sliding window).
RequestRateHeld ==
    [][\A i \in Ids : AdmittedFor(i)' # AdmittedFor(i) /\ now' = now
          => Len(AdmittedFor(i)') <= keys[i].rpm]_keyVars

\* The tokens admitted in any minute never exceed twice the largest quota: the
\* fixed window lets through one quota before and one after its boundary, and
\* no interval of a minute meets three windows.
TokensWithinTwo ==
    \A i \in issued : Admitted(AdmittedFor(i)) <= 2 * Max(TpmQuotas)

\* No tracker outlives its key, so a flood of short-lived keys leaves nothing
\* behind (delete_api_key drops both; check_rate_limit makes one for a key only).
TrackersOwned ==
    \A i \in Ids : keys[i] = None => requests[i] = <<>> /\ tokens[i] = None

\* Quotas hold for every key, and nothing is counted for anything else.
QuotasHeld == TokensWithinTwo /\ TrackersOwned
=============================================================================
