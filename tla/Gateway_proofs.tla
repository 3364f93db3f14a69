---------------------------- MODULE Gateway_proofs ----------------------------
(***************************************************************************)
(* Proofs about the keys of the gateway, and that the gateway as a whole   *)
(* uses them by the operations of ApiKeys only, so that what is proved of  *)
(* the keys holds of the gateway.  Then the tokens: those a desktop client  *)
(* hands out, and those messages reach their platforms with.  Last, alerts.  *)
(***************************************************************************)
EXTENDS Gateway, Accounts, ImMessages, Alerting, Filters_proofs

\* The part of the keys' state that says nothing of the sequences of times.
KeyShape ==
    /\ keys \in [Ids -> Key \cup {None}]
    /\ DOMAIN requests = Ids
    /\ tokens \in [Ids -> [start : Nat, used : Nat] \cup {None}]
    /\ now \in Nat

\* Only a key, and only one with a quota of tokens, has a token window, and what
\* was used of it was within the quota of the moment.
TokenWindowBounded ==
    \A i \in Ids : tokens[i] # None => \E q \in TpmQuotas : tokens[i].used <= q

KeysInv == KeyShape /\ TrackersOwned /\ TokenWindowBounded

\* The token window a request finds is a window, and within some quota.
LEMMA TokenWindowType ==
    ASSUME KeysInv, NEW i \in Ids, Valid(i)
    PROVE  /\ TokenWindow(i) \in [start : Nat, used : Nat]
           /\ \E q \in TpmQuotas : TokenWindow(i).used <= q
  <1> USE DEF KeysInv, KeyShape
  <1>1. keys[i].tpm \in TpmQuotas /\ keys[i].tpm \in Nat
    BY KeyAssumption, QuotaAssumption DEF Valid, Key
  <1>2. TokenWindow(i) = [start |-> now, used |-> 0] \/ (tokens[i] # None /\ TokenWindow(i) = tokens[i])
    BY DEF TokenWindow
  <1>3. CASE TokenWindow(i) = [start |-> now, used |-> 0]
    BY <1>1, <1>3
  <1>4. CASE tokens[i] # None /\ TokenWindow(i) = tokens[i]
    BY <1>4 DEF TokenWindowBounded
  <1> QED BY <1>2, <1>3, <1>4

\* A rejected request leaves the invariant: it forgets old entries at most.
LEMMA ThrottleKeeps ==
    ASSUME KeysInv, NEW i \in Ids, NEW n \in Estimates, Throttle(i, n)
    PROVE  KeysInv'
  <1> USE DEF Throttle
  <1>1. keys[i] # None
    BY DEF Valid
  <1>2. tokens' = tokens \/ tokens' = [tokens EXCEPT ![i] = TokenWindow(i)]
    OBVIOUS
  <1>3. /\ TokenWindow(i) \in [start : Nat, used : Nat]
        /\ \E q \in TpmQuotas : TokenWindow(i).used <= q
    BY TokenWindowType
  <1>4. KeyShape'
    BY <1>2, <1>3 DEF KeysInv, KeyShape
  <1>5. TrackersOwned'
    BY <1>1, <1>2 DEF KeysInv, KeyShape, TrackersOwned
  <1>6. TokenWindowBounded'
    BY <1>2, <1>3 DEF KeysInv, KeyShape, TokenWindowBounded
  <1> QED BY <1>4, <1>5, <1>6 DEF KeysInv

\* An admitted request leaves the invariant: what it adds was compared with the
\* quota of its key first.
LEMMA AdmitKeeps ==
    ASSUME KeysInv, NEW i \in Ids, NEW n \in Estimates, Admit(i, n)
    PROVE  KeysInv'
  <1> DEFINE grown == [start |-> TokenWindow(i).start, used |-> TokenWindow(i).used + n]
  <1> USE DEF Admit
  <1>1. keys[i] # None /\ keys[i].tpm \in TpmQuotas
    BY KeyAssumption DEF Valid, KeysInv, KeyShape, Key
  <1>2. tokens' = tokens \/ (n > 0 /\ tokens' = [tokens EXCEPT ![i] = grown])
    BY QuotaAssumption
  <1>3. TokenWindow(i) \in [start : Nat, used : Nat]
    BY TokenWindowType
  <1>4. n \in Nat
    BY QuotaAssumption
  <1>5. grown \in [start : Nat, used : Nat]
    BY <1>3, <1>4
  <1>6. KeyShape'
    BY <1>2, <1>5 DEF KeysInv, KeyShape
  <1>7. TrackersOwned'
    BY <1>1, <1>2 DEF KeysInv, KeyShape, TrackersOwned
  <1>8. n > 0 => grown.used <= keys[i].tpm
    BY <1>3, <1>4 DEF UnderTpm
  <1>9. TokenWindowBounded'
    <2>1. CASE tokens' = tokens
      BY <2>1 DEF KeysInv, TokenWindowBounded
    <2>2. CASE n > 0 /\ tokens' = [tokens EXCEPT ![i] = grown]
      <3> SUFFICES ASSUME NEW j \in Ids, tokens'[j] # None
                   PROVE  \E q \in TpmQuotas : tokens'[j].used <= q
        BY DEF TokenWindowBounded
      <3>1. CASE j = i
        BY <1>1, <1>8, <2>2, <3>1 DEF KeysInv, KeyShape
      <3>2. CASE j # i
        BY <2>2, <3>2 DEF KeysInv, KeyShape, TokenWindowBounded
      <3> QED BY <3>1, <3>2
    <2> QED BY <1>2, <2>1, <2>2
  <1> QED BY <1>6, <1>7, <1>9 DEF KeysInv

\* Managing a key leaves the invariant: the trackers go with the key.
LEMMA ManageKeeps ==
    ASSUME KeysInv, NEW i \in Ids, CreateKey(i) \/ UpdateKey(i) \/ DeleteKey(i)
    PROVE  KeysInv'
  <1> USE DEF KeysInv, KeyShape, TrackersOwned, TokenWindowBounded
  <1>1. CASE CreateKey(i)
    <2>1. PICK q \in RpmQuotas, t \in TpmQuotas :
             keys' = [keys EXCEPT ![i] = [enabled |-> TRUE, rpm |-> q, tpm |-> t]]
      BY <1>1 DEF CreateKey
    <2>2. [enabled |-> TRUE, rpm |-> q, tpm |-> t] \in Key
      BY DEF Key
    <2> QED BY <1>1, <2>1, <2>2, KeyAssumption DEF CreateKey
  <1>2. CASE UpdateKey(i)
    BY <1>2, KeyAssumption DEF UpdateKey
  <1>3. CASE DeleteKey(i)
    BY <1>3 DEF DeleteKey, ForgetTrackers
  <1> QED BY <1>1, <1>2, <1>3

\* The invariant of the keys, by one case per operation.
LEMMA KeysInvariant == KeysSpec => []KeysInv
  <1>1. KeysInit => KeysInv
    BY DEF KeysInit, KeysInv, KeyShape, TrackersOwned, TokenWindowBounded
  <1>2. KeysInv /\ [KeysNext]_keyVars => KeysInv'
    <2> SUFFICES ASSUME KeysInv, [KeysNext]_keyVars PROVE KeysInv'
      OBVIOUS
    <2>1. CASE ManageKeys
      BY <2>1, ManageKeeps DEF ManageKeys
    <2>2. CASE \E i \in Ids, n \in Estimates : Throttle(i, n) \/ Admit(i, n)
      BY <2>2, ThrottleKeeps, AdmitKeeps
    <2>3. CASE Tick
      BY <2>3 DEF Tick, KeysInv, KeyShape, TrackersOwned, TokenWindowBounded
    <2>4. CASE UNCHANGED keyVars
      BY <2>4 DEF keyVars, KeysInv, KeyShape, TrackersOwned, TokenWindowBounded
    <2> QED BY <2>1, <2>2, <2>3, <2>4 DEF KeysNext
  <1> QED BY <1>1, <1>2, PTL DEF KeysSpec

\* Every step of the gateway is an operation on the keys or leaves them alone:
\* the middleware, the handler, the fallbacks and the budget touch no key
\* otherwise.
THEOREM GatewayKeepsKeys == Spec => KeysSpec
  <1>1. Init => KeysInit
    BY DEF Init
  <1>2. [Next]_vars => [KeysNext]_keyVars
    <2> SUFFICES ASSUME [Next]_vars PROVE KeysNext \/ UNCHANGED keyVars
      BY DEF keyVars
    <2>1. CASE Keys
      BY <2>1 DEF Keys
    <2>2. CASE Account
      BY <2>2 DEF Account
    <2>3. ASSUME NEW r \in Requests, Arrive(r) PROVE KeysNext \/ UNCHANGED keyVars
      BY <2>3 DEF Arrive, ArriveAnonymous, ArriveWithKey, KeysNext
    <2>4. ASSUME NEW r \in Requests, Serve(r) PROVE UNCHANGED keyVars
      BY <2>4 DEF Serve, Block, Begin, AttemptFails, AttemptAnswers
    <2>5. CASE UNCHANGED vars
      BY <2>5 DEF vars
    <2> QED BY <2>1, <2>2, <2>3, <2>4, <2>5 DEF Next
  <1> QED BY <1>1, <1>2, PTL DEF Spec, KeysSpec

\* No tracker outlives its key, in the whole gateway.
THEOREM TrackersNeverLeak == Spec => []TrackersOwned
  <1>1. KeysInv => TrackersOwned
    BY DEF KeysInv
  <1> QED BY <1>1, KeysInvariant, GatewayKeepsKeys, PTL

\* What a key uses of a token window never exceeds the largest quota, in the
\* whole gateway and however quotas are changed.
THEOREM TokenWindowsHold == Spec => []TokenWindowBounded
  <1>1. KeysInv => TokenWindowBounded
    BY DEF KeysInv
  <1> QED BY <1>1, KeysInvariant, GatewayKeepsKeys, PTL

-----------------------------------------------------------------------------
(* The log of what was admitted, and the trackers that have to know it.     *)

Entry == Admissions(Ids, Nat)

\* When the entries were admitted.
Times(s) == [n \in 1..Len(s) |-> s[n].at]

LEMMA TimesAppend ==
    ASSUME NEW s \in Seq(Entry), NEW e \in Entry
    PROVE  /\ Times(s) \in Seq(Nat) /\ Len(Times(s)) = Len(s)
           /\ Times(Append(s, e)) = Append(Times(s), e.at)
           /\ e.at \in Nat
  <1>1. \A x \in Entry : x.at \in Nat
    BY DEF Entry, Admissions
  <1>2. ASSUME NEW t \in Seq(Entry)
        PROVE  Times(t) \in Seq(Nat) /\ Len(Times(t)) = Len(t)
               /\ \A n \in 1..Len(t) : Times(t)[n] = t[n].at
    <2>1. \A n \in 1..Len(t) : t[n].at \in Nat
      BY <1>1, ElementOfSeq
    <2>2. Len(t) \in Nat
      BY LenProperties
    <2> QED BY <2>1, <2>2 DEF Times
  <1> DEFINE t == Append(s, e)
  <1>3. /\ t \in Seq(Entry) /\ Len(t) = Len(s) + 1 /\ Len(s) \in Nat
        /\ \A n \in 1..Len(s) : t[n] = s[n]
        /\ t[Len(s) + 1] = e
    BY AppendProperties, LenProperties
  <1> DEFINE u == Append(Times(s), e.at)
  <1>4. /\ u \in Seq(Nat) /\ Len(u) = Len(s) + 1
        /\ \A n \in 1..Len(s) : u[n] = Times(s)[n]
        /\ u[Len(s) + 1] = e.at
    BY <1>1, <1>2, AppendProperties
  <1> HIDE DEF t, u
  <1>5. Times(t) \in Seq(Nat) /\ Len(Times(t)) = Len(t) /\ \A n \in 1..Len(t) : Times(t)[n] = t[n].at
    BY <1>2, <1>3
  <1>6. \A n \in 1..(Len(s) + 1) : Times(t)[n] = u[n]
    <2> SUFFICES ASSUME NEW n \in 1..(Len(s) + 1) PROVE Times(t)[n] = u[n]
      OBVIOUS
    <2>1. CASE n = Len(s) + 1
      BY <1>3, <1>4, <1>5, <2>1
    <2>2. CASE n \in 1..Len(s)
      <3>1. Times(s)[n] = s[n].at
        BY <1>2, <2>2
      <3> QED BY <1>3, <1>4, <1>5, <2>2, <3>1
    <2> QED BY <1>3, <2>1, <2>2
  <1>7. Times(t) = u
    BY <1>3, <1>4, <1>5, <1>6, SeqEqual
  <1> QED BY <1>1, <1>2, <1>7 DEF t, u

LEMMA TimesEmpty == Times(<<>>) = <<>>
  BY EmptySeq DEF Times

\* The times of the entries kept for their time are the times kept.
LEMMA TimesKeep ==
    ASSUME NEW s \in Seq(Entry), NEW T
    PROVE  Times(Keep(s, Admissions(Ids, T))) = Keep(Times(s), T)
  <1> DEFINE A == Admissions(Ids, T)
             G == {t \in Seq(Entry) : Times(Keep(t, A)) = Keep(Times(t), T)}
  <1>1. <<>> \in G
    BY KeepEmpty, TimesEmpty, EmptySeq
  <1>2. ASSUME NEW t \in Seq(Entry), NEW e \in Entry, t \in G PROVE Append(t, e) \in G
    <2>1. /\ Append(t, e) \in Seq(Entry) /\ Keep(t, A) \in Seq(Entry)
          /\ Times(t) \in Seq(Nat) /\ e.at \in Nat
      BY AppendProperties, KeepMembers, TimesAppend
    <2>2. e \in A <=> e.at \in T
      BY DEF Entry, Admissions
    <2>3. Times(Append(t, e)) = Append(Times(t), e.at)
      BY TimesAppend
    <2>4. Keep(Append(t, e), A) = IF e \in A THEN Append(Keep(t, A), e) ELSE Keep(t, A)
      <3> HIDE DEF A
      <3> QED BY KeepAppend
    <2>5. Keep(Append(Times(t), e.at), T) =
            IF e.at \in T THEN Append(Keep(Times(t), T), e.at) ELSE Keep(Times(t), T)
      <3> DEFINE u == Times(t)
                 x == e.at
      <3>1. u \in Seq(Nat) /\ x \in Nat
        BY <2>1
      <3> HIDE DEF u, x
      <3>2. Keep(Append(u, x), T) = IF x \in T THEN Append(Keep(u, T), x) ELSE Keep(u, T)
        BY <3>1, KeepAppend
      <3> QED BY <3>2 DEF u, x
    <2>6. Times(Append(Keep(t, A), e)) = Append(Times(Keep(t, A)), e.at)
      BY <2>1, TimesAppend
    <2>7. Times(Keep(t, A)) = Keep(Times(t), T)
      BY <1>2
    <2> HIDE DEF A
    <2>8. Times(Keep(Append(t, e), A)) = Keep(Times(Append(t, e)), T)
      <3>1. CASE e \in A
        BY <3>1, <2>2, <2>3, <2>4, <2>5, <2>6, <2>7, Zenon
      <3>2. CASE e \notin A
        BY <3>2, <2>2, <2>3, <2>4, <2>5, <2>7, Zenon
      <3> QED BY <3>1, <3>2
    <2> QED BY <2>1, <2>8
  <1>3. Seq(Entry) \subseteq G
    <2> HIDE DEF G
    <2> QED BY <1>1, <1>2, Growing
  <1> QED BY <1>3

\* The log holds entries of issued keys that are not older than the window.
LogInv ==
    /\ issued \subseteq Ids
    /\ \A i \in Ids : keys[i] # None => i \in issued
    /\ log \in Seq(Entry)
    /\ Members(log) \subseteq Admissions(issued, (now - Window)..now)

\* What a request that is admitted adds to the log.
LEMMA LogAdmit ==
    ASSUME KeysInv, LogInv, NEW i \in Ids, NEW n \in Estimates, Admit(i, n),
           NEW e, e = [id |-> i, at |-> now, tokens |-> n]
    PROVE  /\ e \in Entry /\ e \in Admissions(issued, (now - Window)..now)
           /\ log' = Append(log, e) /\ log' \in Seq(Entry)
           /\ \A K : Keep(log, K)' = IF e \in K THEN Append(Keep(log, K), e) ELSE Keep(log, K)
  <1>1. now \in Nat /\ Window \in Nat
    BY QuotaAssumption DEF KeysInv, KeyShape
  <1>2. i \in issued
    BY DEF Admit, Valid, LogInv
  <1>3. e \in Entry /\ e \in Admissions(issued, (now - Window)..now)
    BY <1>1, <1>2 DEF Entry, Admissions
  <1>4. log' = Append(log, e)
    BY DEF Admit
  <1>5. log' \in Seq(Entry)
    BY <1>3, <1>4, AppendProperties DEF LogInv
  <1>6. ASSUME NEW K
        PROVE  Keep(log', K) = IF e \in K THEN Append(Keep(log, K), e) ELSE Keep(log, K)
    BY <1>3, <1>4, KeepAppend DEF LogInv
  <1> QED BY <1>3, <1>4, <1>5, <1>6

LEMMA LogStep == KeysInv /\ LogInv /\ [KeysNext]_keyVars => LogInv'
  <1> SUFFICES ASSUME KeysInv, LogInv, [KeysNext]_keyVars PROVE LogInv'
    OBVIOUS
  <1>1. CASE ManageKeys
    <2>1. /\ log' = log /\ now' = now
          /\ issued \subseteq issued' /\ issued' \subseteq Ids
          /\ \A j \in Ids : keys'[j] # None => j \in issued'
      <3> USE DEF KeysInv, KeyShape, LogInv
      <3>1. ASSUME NEW i \in Ids, CreateKey(i)
            PROVE  /\ log' = log /\ now' = now
                   /\ issued \subseteq issued' /\ issued' \subseteq Ids
                   /\ \A j \in Ids : keys'[j] # None => j \in issued'
        BY <3>1 DEF CreateKey
      <3>2. ASSUME NEW i \in Ids, UpdateKey(i) \/ DeleteKey(i)
            PROVE  /\ log' = log /\ now' = now /\ issued' = issued
                   /\ \A j \in Ids : keys'[j] # None => j \in issued'
        BY <3>2 DEF UpdateKey, DeleteKey
      <3> QED BY <1>1, <3>1, <3>2 DEF ManageKeys
    <2>2. Admissions(issued, (now - Window)..now) \subseteq Admissions(issued', (now - Window)..now)
      BY <2>1 DEF Admissions
    <2> QED BY <2>1, <2>2 DEF LogInv
  <1>2. ASSUME NEW i \in Ids, NEW n \in Estimates, Throttle(i, n) PROVE LogInv'
    BY <1>2 DEF Throttle, LogInv
  <1>3. ASSUME NEW i \in Ids, NEW n \in Estimates, Admit(i, n) PROVE LogInv'
    <2> DEFINE e == [id |-> i, at |-> now, tokens |-> n]
    <2>1. /\ e \in Entry /\ e \in Admissions(issued, (now - Window)..now)
          /\ log' = Append(log, e) /\ log' \in Seq(Entry)
      BY <1>3, LogAdmit
    <2> HIDE DEF e
    <2>2. Members(log') = Members(log) \cup {e}
      BY <2>1, MembersAppend DEF LogInv
    <2> QED BY <1>3, <2>1, <2>2 DEF Admit, LogInv
  <1>4. CASE Tick
    <2> DEFINE A == Admissions(Ids, (now' - Window)..now')
    <2>1. log' = Keep(log, A) /\ issued' = issued /\ keys' = keys
      BY <1>4 DEF Tick
    <2> HIDE DEF A
    <2>2. log' \in Seq(Entry) /\ Members(log') = Members(log) \cap A
      BY <2>1, KeepMembers DEF LogInv
    <2>3. Members(log') \subseteq Admissions(issued', (now' - Window)..now')
      BY <2>1, <2>2 DEF LogInv, Admissions, A
    <2> QED BY <2>1, <2>2, <2>3 DEF LogInv
  <1>5. CASE UNCHANGED keyVars
    BY <1>5 DEF keyVars, LogInv
  <1> QED BY <1>1, <1>2, <1>3, <1>4, <1>5 DEF KeysNext

LEMMA LogInvInit == KeysInit => LogInv
  <1>1. <<>> \in Seq(Entry)
    BY EmptySeq
  <1> QED BY <1>1, MembersEmpty DEF KeysInit, LogInv

-----------------------------------------------------------------------------
(* Requests per minute: what the tracker of a key remembers of the last     *)
(* minute is what the log has of it.                                        *)

RateOK(i) == /\ Members(requests[i]) \subseteq 0..now
             /\ Times(AdmittedFor(i)) = Recent(i)

RateInv ==
    /\ requests \in [Ids -> Seq(Nat)]
    /\ \A i \in Ids : keys[i] # None => RateOK(i)

LEMMA RateInvInit == KeysInit => RateInv
  <1>1. <<>> \in Seq(Nat)
    BY EmptySeq
  <1> QED BY <1>1 DEF KeysInit, RateInv

\* The log of a key, when the log is left alone or trimmed.
LEMMA AdmittedTrimmed ==
    ASSUME LogInv, NEW T, NEW i \in Ids
    PROVE  /\ AdmittedFor(i) \in Seq(Entry)
           /\ Keep(Keep(log, Admissions(Ids, T)), Admissions({i}, Nat))
                = Keep(AdmittedFor(i), Admissions(Ids, T))
  <1>1. log \in Seq(Entry)
    BY DEF LogInv
  <1> DEFINE A == Admissions(Ids, T)
             B == Admissions({i}, Nat)
  <1> HIDE DEF A, B
  <1>2. /\ Keep(log, B) \in Seq(Entry)
        /\ Keep(Keep(log, A), B) = Keep(log, A \cap B)
        /\ Keep(Keep(log, B), A) = Keep(log, B \cap A)
    <2>1. Keep(log, B) \in Seq(Entry)
      BY <1>1, KeepMembers
    <2>2. Keep(Keep(log, A), B) = Keep(log, A \cap B)
      BY <1>1, KeepTwice
    <2>3. Keep(Keep(log, B), A) = Keep(log, B \cap A)
      BY <1>1, KeepTwice
    <2> QED BY <2>1, <2>2, <2>3
  <1>3. A \cap B = B \cap A
    OBVIOUS
  <1> QED BY <1>2, <1>3 DEF AdmittedFor, A, B

LEMMA RateThrottle ==
    ASSUME KeysInv, LogInv, RateInv, NEW i \in Ids, NEW n \in Estimates, Throttle(i, n)
    PROVE  RateInv'
  <1>1. /\ requests' = [requests EXCEPT ![i] = Recent(i)]
        /\ log' = log /\ now' = now /\ keys' = keys
    BY DEF Throttle
  <1>2. /\ Recent(i) \in Seq(Nat) /\ Members(Recent(i)) \subseteq Members(requests[i])
        /\ Keep(Recent(i), (now - Window)..now) = Recent(i)
    <2> DEFINE R == (now - Window)..now
    <2>1. requests[i] \in Seq(Nat) /\ R \cap R = R
      BY DEF RateInv
    <2> HIDE DEF R
    <2>2. Keep(Keep(requests[i], R), R) = Keep(requests[i], R)
      BY <2>1, KeepTwice
    <2>3. Keep(requests[i], R) \in Seq(Nat) /\ Members(Keep(requests[i], R)) = Members(requests[i]) \cap R
      BY <2>1, KeepMembers
    <2> QED BY <2>2, <2>3 DEF Recent, R
  <1>3. requests' \in [Ids -> Seq(Nat)]
    BY <1>1, <1>2 DEF RateInv
  <1>4. ASSUME NEW j \in Ids, keys[j] # None PROVE RateOK(j)'
    <2>1. RateOK(j)
      BY <1>4 DEF RateInv
    <2>2. CASE j # i
      <3>1. requests'[j] = requests[j]
        BY <1>1, <2>2 DEF RateInv
      <3> QED BY <1>1, <2>1, <3>1 DEF RateOK, AdmittedFor, Recent
    <2>3. CASE j = i
      <3>1. requests'[i] = Recent(i)
        BY <1>1 DEF RateInv
      <3>2. Recent(i)' = Recent(i)
        BY <1>1, <1>2, <3>1 DEF Recent
      <3>3. AdmittedFor(i)' = AdmittedFor(i)
        BY <1>1 DEF AdmittedFor
      <3> QED BY <1>1, <1>2, <2>1, <2>3, <3>1, <3>2, <3>3 DEF RateOK
    <2> QED BY <2>2, <2>3
  <1> QED BY <1>1, <1>3, <1>4 DEF RateInv

\* Under a quota within the tracker's length nothing recent is dropped.
LEMMA RateAdmit ==
    ASSUME \A q \in RpmQuotas : q <= TrackerMax,
           KeysInv, LogInv, RateInv, NEW i \in Ids, NEW n \in Estimates, Admit(i, n)
    PROVE  /\ RateInv'
           /\ \A j \in Ids : AdmittedFor(j)' # AdmittedFor(j)
                => Len(AdmittedFor(j)') <= keys[j].rpm
  <1> DEFINE e == [id |-> i, at |-> now, tokens |-> n]
             R == (now - Window)..now
  <1>1. /\ e \in Entry /\ log' \in Seq(Entry)
        /\ \A K : Keep(log, K)' = IF e \in K THEN Append(Keep(log, K), e) ELSE Keep(log, K)
    BY LogAdmit
  <1>2. \A j \in Ids : e \in Admissions({j}, Nat) <=> j = i
    BY <1>1 DEF Entry, Admissions
  <1>3. e.at = now
    OBVIOUS
  <1> HIDE DEF e
  <1>4. /\ AdmittedFor(i)' = Append(AdmittedFor(i), e)
        /\ \A j \in Ids : j # i => AdmittedFor(j)' = AdmittedFor(j)
    BY <1>1, <1>2 DEF AdmittedFor
  <1>5. /\ keys[i] # None /\ keys[i].rpm \in Nat /\ keys[i].rpm <= TrackerMax
        /\ Len(Recent(i)) < keys[i].rpm
        /\ now \in Nat /\ Window \in Nat /\ TrackerMax \in Nat
    BY QuotaAssumption DEF Admit, Valid, UnderRpm, KeysInv, KeyShape, Key
  <1>6. RateOK(i) /\ requests[i] \in Seq(Nat) /\ AdmittedFor(i) \in Seq(Entry)
    BY <1>5, AdmittedTrimmed DEF RateInv
  <1>7. /\ Recent(i) \in Seq(Nat) /\ Members(Recent(i)) \subseteq 0..now
        /\ Keep(Recent(i), R) = Recent(i) /\ Len(Recent(i)) \in Nat
    <2> HIDE DEF R
    <2>1. Keep(Keep(requests[i], R), R) = Keep(requests[i], R)
      <3>1. R \cap R = R
        OBVIOUS
      <3> QED BY <1>6, <3>1, KeepTwice
    <2>2. Keep(requests[i], R) \in Seq(Nat) /\ Members(Keep(requests[i], R)) = Members(requests[i]) \cap R
      BY <1>6, KeepMembers
    <2>3. Members(requests[i]) \subseteq 0..now
      BY <1>6 DEF RateOK
    <2> QED BY <2>1, <2>2, <2>3, LenProperties DEF Recent, R
  <1>8. /\ requests' = [requests EXCEPT ![i] = Append(Recent(i), now)]
        /\ now' = now /\ keys' = keys
    <2>1. Len(Recent(i)) < TrackerMax
      BY <1>5, <1>7
    <2> QED BY <2>1 DEF Admit, Pushed
  <1>9. /\ requests'[i] = Append(Recent(i), now)
        /\ \A j \in Ids : j # i => requests'[j] = requests[j]
        /\ requests' \in [Ids -> Seq(Nat)]
    <2>1. Append(Recent(i), now) \in Seq(Nat)
      BY <1>5, <1>7, AppendProperties
    <2> QED BY <1>8, <2>1 DEF RateInv
  <1>10. Recent(i)' = Append(Recent(i), now)
    <2>1. now \in R
      BY <1>5
    <2> HIDE DEF R
    <2>2. Keep(Append(Recent(i), now), R) = Append(Keep(Recent(i), R), now)
      BY <1>5, <1>7, <2>1, KeepAppend
    <2> QED BY <1>7, <1>8, <1>9, <2>2 DEF Recent, R
  <1>11. Times(AdmittedFor(i)') = Append(Times(AdmittedFor(i)), now)
    BY <1>1, <1>3, <1>4, <1>6, TimesAppend
  <1>12. Members(Append(Recent(i), now)) \subseteq 0..now
    <2>1. Members(Append(Recent(i), now)) = Members(Recent(i)) \cup {now}
      BY <1>5, <1>7, MembersAppend
    <2> QED BY <1>5, <1>7, <2>1
  <1>13. RateOK(i)'
    BY <1>6, <1>8, <1>9, <1>10, <1>11, <1>12 DEF RateOK
  <1>14. ASSUME NEW j \in Ids, j # i, keys[j] # None PROVE RateOK(j)'
    <2>1. RateOK(j)
      BY <1>14 DEF RateInv
    <2>2. AdmittedFor(j)' = AdmittedFor(j) /\ requests'[j] = requests[j]
      BY <1>4, <1>9, <1>14
    <2> QED BY <1>8, <2>1, <2>2 DEF RateOK, Recent
  <1>15. RateInv'
    BY <1>8, <1>9, <1>13, <1>14 DEF RateInv
  <1>16. Len(AdmittedFor(i)') <= keys[i].rpm
    <2>1. Len(AdmittedFor(i)) = Len(Recent(i))
      BY <1>1, <1>6, TimesAppend DEF RateOK
    <2>2. Len(AdmittedFor(i)') = Len(AdmittedFor(i)) + 1
      BY <1>1, <1>4, <1>6, AppendProperties
    <2> QED BY <1>5, <1>7, <2>1, <2>2
  <1> QED BY <1>4, <1>15, <1>16

\* A new key has a new id, of which the log knows nothing.
LEMMA RateManage ==
    ASSUME KeysInv, LogInv, RateInv, NEW i \in Ids, CreateKey(i) \/ UpdateKey(i) \/ DeleteKey(i)
    PROVE  RateInv' /\ log' = log
  <1>1. log' = log /\ now' = now
    BY DEF CreateKey, UpdateKey, DeleteKey
  <1>2. CASE CreateKey(i)
    <2>1. /\ requests' = requests /\ i \notin issued
          /\ \A j \in Ids : j # i => keys'[j] = keys[j]
      BY <1>2 DEF CreateKey, KeysInv, KeyShape
    <2>2. keys[i] = None
      BY <2>1 DEF LogInv
    <2>3. requests[i] = <<>>
      BY <2>2 DEF KeysInv, TrackersOwned
    <2>4. AdmittedFor(i) = <<>>
      <3>1. Members(log) \cap Admissions({i}, Nat) = {}
        BY <2>1 DEF LogInv, Admissions
      <3> QED BY <3>1, KeepNothing DEF AdmittedFor, LogInv
    <2>5. RateOK(i)'
      <3>1. Recent(i)' = <<>>
        BY <2>1, <2>3, KeepEmpty DEF Recent
      <3>2. AdmittedFor(i)' = <<>>
        BY <1>1, <2>4 DEF AdmittedFor
      <3> QED BY <2>1, <2>3, <3>1, <3>2, TimesEmpty, MembersEmpty DEF RateOK
    <2>6. ASSUME NEW j \in Ids, j # i, keys[j] # None PROVE RateOK(j)'
      BY <1>1, <2>1, <2>6 DEF RateInv, RateOK, Recent, AdmittedFor
    <2> QED BY <1>1, <2>1, <2>5, <2>6 DEF RateInv
  <1>3. CASE UpdateKey(i)
    <2>1. requests' = requests /\ \A j \in Ids : keys'[j] # None => keys[j] # None
      BY <1>3 DEF UpdateKey, KeysInv, KeyShape
    <2> QED BY <1>1, <2>1 DEF RateInv, RateOK, Recent, AdmittedFor
  <1>4. CASE DeleteKey(i)
    <2>1. /\ requests' = [requests EXCEPT ![i] = <<>>] /\ <<>> \in Seq(Nat)
          /\ keys'[i] = None
          /\ \A j \in Ids : j # i => keys'[j] = keys[j] /\ requests'[j] = requests[j]
      BY <1>4, EmptySeq DEF DeleteKey, ForgetTrackers, KeysInv, KeyShape
    <2>2. requests' \in [Ids -> Seq(Nat)]
      BY <2>1 DEF RateInv
    <2>3. ASSUME NEW j \in Ids, keys'[j] # None PROVE RateOK(j)'
      BY <1>1, <2>1, <2>3 DEF RateInv, RateOK, Recent, AdmittedFor
    <2> QED BY <1>1, <2>2, <2>3 DEF RateInv
  <1> QED BY <1>1, <1>2, <1>3, <1>4

\* Log and tracker forget the same.
LEMMA RateTick ==
    ASSUME KeysInv, LogInv, RateInv, Tick
    PROVE  RateInv'
  <1>1. /\ now' = now + 1 /\ requests' = requests /\ keys' = keys
        /\ log' = Keep(log, Admissions(Ids, (now' - Window)..now'))
        /\ now \in Nat /\ Window \in Nat
    BY QuotaAssumption DEF Tick, KeysInv, KeyShape
  <1>2. ASSUME NEW i \in Ids, keys[i] # None PROVE RateOK(i)'
    <2> DEFINE old == (now - Window)..now
               new == (now' - Window)..now'
    <2>1. RateOK(i) /\ requests[i] \in Seq(Nat) /\ AdmittedFor(i) \in Seq(Entry)
      BY <1>2, AdmittedTrimmed DEF RateInv
    <2>2. Members(requests[i]) \subseteq 0..now
      BY <2>1 DEF RateOK
    <2>3. Times(AdmittedFor(i)') = Keep(Times(AdmittedFor(i)), new)
      <3> HIDE DEF new
      <3>1. AdmittedFor(i)' = Keep(AdmittedFor(i), Admissions(Ids, new))
        BY <1>1, AdmittedTrimmed DEF AdmittedFor, new
      <3> QED BY <2>1, <3>1, TimesKeep
    <2>4. Times(AdmittedFor(i)) = Keep(requests[i], old)
      BY <2>1 DEF RateOK, Recent
    <2>5. Members(requests[i]) \cap (old \cap new) = Members(requests[i]) \cap new
      BY <1>1, <2>2
    <2>6. Keep(Keep(requests[i], old), new) = Keep(requests[i], new)
      <3> HIDE DEF old, new
      <3>1. Keep(Keep(requests[i], old), new) = Keep(requests[i], old \cap new)
        BY <2>1, KeepTwice
      <3>2. Keep(requests[i], old \cap new) = Keep(requests[i], new)
        BY <2>1, <2>5, KeepAlike
      <3> QED BY <3>1, <3>2
    <2>7. Recent(i)' = Keep(requests[i], new)
      BY <1>1 DEF Recent
    <2>8. Members(requests[i]) \subseteq 0..now'
      BY <1>1, <2>2
    <2> HIDE DEF old, new
    <2> QED BY <1>1, <2>3, <2>4, <2>6, <2>7, <2>8 DEF RateOK
  <1> QED BY <1>1, <1>2 DEF RateInv

\* A request is admitted only while the log has fewer requests of its key within
\* the minute than the quota of the moment, for any number of keys, quotas and
\* changes of quotas; quotas have to fit into the tracker (10000 in the code).
THEOREM RateIsHeld ==
    (\A q \in RpmQuotas : q <= TrackerMax) => (Spec => RequestRateHeld)
  <1> SUFFICES ASSUME \A q \in RpmQuotas : q <= TrackerMax PROVE Spec => RequestRateHeld
    OBVIOUS
  <1> DEFINE Held == \A i \in Ids : AdmittedFor(i)' # AdmittedFor(i) /\ now' = now
                       => Len(AdmittedFor(i)') <= keys[i].rpm
  <1>1. KeysInv /\ LogInv /\ RateInv /\ [KeysNext]_keyVars => RateInv' /\ Held
    <2> SUFFICES ASSUME KeysInv, LogInv, RateInv, [KeysNext]_keyVars PROVE RateInv' /\ Held
      OBVIOUS
    <2>1. CASE ManageKeys
      BY <2>1, RateManage DEF ManageKeys, AdmittedFor
    <2>2. ASSUME NEW i \in Ids, NEW n \in Estimates, Throttle(i, n) PROVE RateInv' /\ Held
      BY <2>2, RateThrottle DEF Throttle, AdmittedFor
    <2>3. ASSUME NEW i \in Ids, NEW n \in Estimates, Admit(i, n) PROVE RateInv' /\ Held
      BY <2>3, RateAdmit
    <2>4. CASE Tick
      <3>1. now' # now
        BY <2>4 DEF Tick, KeysInv, KeyShape
      <3> QED BY <2>4, <3>1, RateTick
    <2>5. CASE UNCHANGED keyVars
      BY <2>5 DEF keyVars, RateInv, RateOK, AdmittedFor, Recent
    <2> QED BY <2>1, <2>2, <2>3, <2>4, <2>5 DEF KeysNext
  <1>2. KeysInit => LogInv /\ RateInv
    BY LogInvInit, RateInvInit
  <1>3. KeysSpec => [][Held]_keyVars
    BY <1>1, <1>2, LogStep, KeysInvariant, PTL DEF KeysSpec
  <1> QED BY <1>3, GatewayKeepsKeys, PTL DEF RequestRateHeld

-----------------------------------------------------------------------------
(* Tokens per minute: what the log has of a key from before its window is   *)
(* within a quota, what it has of the window is counted by the window, and  *)
(* there is nothing of later.                                               *)

\* Sums over entries of the log.
LEMMA AdmittedAppend ==
    ASSUME NEW s \in Seq(Entry), NEW e \in Entry
    PROVE  Admitted(Append(s, e)) = Admitted(s) + e.tokens /\ e.tokens \in Nat
  <1> DEFINE Amounts(t) == [n \in 1..Len(t) |-> t[n].tokens]
  <1>1. ASSUME NEW x \in Entry PROVE x.tokens \in Nat /\ x.tokens \in Int
    <2>1. x.tokens \in Estimates /\ Estimates \subseteq Nat
      BY QuotaAssumption DEF Entry, Admissions
    <2>2. x.tokens \in Nat
      BY <2>1, Zenon
    <2>3. \A k \in Nat : k \in Int
      OBVIOUS
    <2> QED BY <2>2, <2>3, Zenon
  <1>2. ASSUME NEW t \in Seq(Entry)
        PROVE  Amounts(t) \in Seq(Int) /\ Len(Amounts(t)) = Len(t)
               /\ \A n \in 1..Len(t) : Amounts(t)[n] = t[n].tokens
    <2>1. \A n \in 1..Len(t) : t[n].tokens \in Int
      BY <1>1, ElementOfSeq
    <2>2. Len(t) \in Nat
      BY LenProperties
    <2> QED BY <2>1, <2>2
  <1> DEFINE t == Append(s, e)
             u == Append(Amounts(s), e.tokens)
  <1>3. /\ t \in Seq(Entry) /\ Len(t) = Len(s) + 1 /\ Len(s) \in Nat
        /\ \A n \in 1..Len(s) : t[n] = s[n]
        /\ t[Len(s) + 1] = e
    BY AppendProperties, LenProperties
  <1>4. /\ u \in Seq(Int) /\ Len(u) = Len(s) + 1
        /\ \A n \in 1..Len(s) : u[n] = Amounts(s)[n]
        /\ u[Len(s) + 1] = e.tokens
    <2> HIDE DEF Amounts
    <2>1. Amounts(s) \in Seq(Int) /\ Len(Amounts(s)) = Len(s) /\ e.tokens \in Int
      BY <1>1, <1>2
    <2> QED BY <2>1, AppendProperties
  <1> HIDE DEF t, u, Amounts
  <1>5. Amounts(t) \in Seq(Int) /\ Len(Amounts(t)) = Len(t) /\ \A n \in 1..Len(t) : Amounts(t)[n] = t[n].tokens
    BY <1>2, <1>3
  <1>6. \A n \in 1..(Len(s) + 1) : Amounts(t)[n] = u[n]
    <2> SUFFICES ASSUME NEW n \in 1..(Len(s) + 1) PROVE Amounts(t)[n] = u[n]
      OBVIOUS
    <2>1. CASE n = Len(s) + 1
      BY <1>3, <1>4, <1>5, <2>1
    <2>2. CASE n \in 1..Len(s)
      <3>1. Amounts(s)[n] = s[n].tokens
        BY <1>2, <2>2
      <3> QED BY <1>3, <1>4, <1>5, <2>2, <3>1
    <2> QED BY <1>3, <2>1, <2>2
  <1>7. Amounts(t) = u
    BY <1>3, <1>4, <1>5, <1>6, SeqEqual
  <1>8. Amounts(s) \in Seq(Int) /\ e.tokens \in Int
    BY <1>1, <1>2
  <1>9. SumOf(u) = SumOf(Amounts(s)) + e.tokens
    BY <1>8, SumAppend DEF u
  <1> QED BY <1>1, <1>7, <1>9 DEF Admitted, Amounts, t

LEMMA AdmittedEmpty == Admitted(<<>>) = 0
  <1>1. [n \in 1..Len(<<>>) |-> <<>>[n].tokens] = <<>>
    BY EmptySeq
  <1> QED BY <1>1, SumEmpty DEF Admitted

LEMMA AdmittedNat == ASSUME NEW s \in Seq(Entry) PROVE Admitted(s) \in Nat
  <1> DEFINE G == {t \in Seq(Entry) : Admitted(t) \in Nat}
  <1>1. <<>> \in G
    BY AdmittedEmpty, EmptySeq
  <1>2. ASSUME NEW t \in Seq(Entry), NEW e \in Entry, t \in G PROVE Append(t, e) \in G
    BY <1>2, AdmittedAppend, AppendProperties
  <1>3. Seq(Entry) \subseteq G
    <2> HIDE DEF G
    <2> QED BY <1>1, <1>2, Growing
  <1> QED BY <1>3

\* What is kept by either of two filters that share nothing adds up.
LEMMA AdmittedSplit ==
    ASSUME NEW s \in Seq(Entry), NEW A, NEW B, A \cap B = {}
    PROVE  Admitted(Keep(s, A \cup B)) = Admitted(Keep(s, A)) + Admitted(Keep(s, B))
  <1> DEFINE G == {t \in Seq(Entry) :
                     Admitted(Keep(t, A \cup B)) = Admitted(Keep(t, A)) + Admitted(Keep(t, B))}
  <1>1. <<>> \in G
    BY KeepEmpty, AdmittedEmpty, EmptySeq
  <1>2. ASSUME NEW t \in Seq(Entry), NEW e \in Entry, t \in G PROVE Append(t, e) \in G
    <2>1. Append(t, e) \in Seq(Entry)
      BY AppendProperties
    <2>2. ASSUME NEW K
          PROVE  /\ Admitted(Keep(Append(t, e), K)) =
                      Admitted(Keep(t, K)) + (IF e \in K THEN e.tokens ELSE 0)
                 /\ Admitted(Keep(t, K)) \in Nat /\ e.tokens \in Nat
      <3>1. Keep(t, K) \in Seq(Entry)
        BY KeepMembers
      <3>2. Keep(Append(t, e), K) = IF e \in K THEN Append(Keep(t, K), e) ELSE Keep(t, K)
        BY KeepAppend
      <3>3. /\ Admitted(Append(Keep(t, K), e)) = Admitted(Keep(t, K)) + e.tokens
            /\ Admitted(Keep(t, K)) \in Nat /\ e.tokens \in Nat
        BY <3>1, AdmittedAppend, AdmittedNat
      <3> QED BY <3>2, <3>3
    <2>3. Admitted(Keep(t, A \cup B)) = Admitted(Keep(t, A)) + Admitted(Keep(t, B))
      BY <1>2
    <2>4. Admitted(Keep(Append(t, e), A \cup B))
            = Admitted(Keep(Append(t, e), A)) + Admitted(Keep(Append(t, e), B))
      <3>1. /\ Admitted(Keep(Append(t, e), A \cup B)) =
                 Admitted(Keep(t, A \cup B)) + (IF e \in A \cup B THEN e.tokens ELSE 0)
            /\ Admitted(Keep(Append(t, e), A)) =
                 Admitted(Keep(t, A)) + (IF e \in A THEN e.tokens ELSE 0)
            /\ Admitted(Keep(Append(t, e), B)) =
                 Admitted(Keep(t, B)) + (IF e \in B THEN e.tokens ELSE 0)
            /\ Admitted(Keep(t, A)) \in Nat /\ Admitted(Keep(t, B)) \in Nat /\ e.tokens \in Nat
        BY <2>2
      <3> QED BY <2>3, <3>1
    <2> QED BY <2>1, <2>4
  <1>3. Seq(Entry) \subseteq G
    <2> HIDE DEF G
    <2> QED BY <1>1, <1>2, Growing
  <1> QED BY <1>3

LEMMA AdmittedLess ==
    ASSUME NEW s \in Seq(Entry), NEW A, NEW B, A \subseteq B
    PROVE  Admitted(Keep(s, A)) <= Admitted(Keep(s, B))
  <1> DEFINE C == B \ A
  <1>1. A \cap C = {} /\ A \cup C = B
    OBVIOUS
  <1> HIDE DEF C
  <1>2. Admitted(Keep(s, B)) = Admitted(Keep(s, A)) + Admitted(Keep(s, C))
    BY <1>1, AdmittedSplit
  <1>3. Admitted(Keep(s, A)) \in Nat /\ Admitted(Keep(s, C)) \in Nat
    BY KeepMembers, AdmittedNat
  <1> QED BY <1>2, <1>3

\* What the log has of a key, of some times.
Of(i, T) == Admitted(Keep(log, Admissions({i}, T)))

LEMMA OfLess ==
    ASSUME LogInv, NEW i \in Ids, NEW T, NEW U, T \subseteq U
    PROVE  Of(i, T) \in Nat /\ Of(i, U) \in Nat /\ Of(i, T) <= Of(i, U)
  <1> DEFINE A == Admissions({i}, T)
             B == Admissions({i}, U)
  <1>1. A \subseteq B
    BY DEF Admissions
  <1> HIDE DEF A, B
  <1>2. Admitted(Keep(log, A)) <= Admitted(Keep(log, B))
    BY <1>1, AdmittedLess DEF LogInv
  <1>3. Admitted(Keep(log, A)) \in Nat /\ Admitted(Keep(log, B)) \in Nat
    BY KeepMembers, AdmittedNat DEF LogInv
  <1> QED BY <1>2, <1>3 DEF Of, A, B

LEMMA OfSplit ==
    ASSUME LogInv, NEW i \in Ids, NEW T, NEW U, T \cap U = {}
    PROVE  Of(i, T \cup U) = Of(i, T) + Of(i, U)
  <1> DEFINE A == Admissions({i}, T)
             B == Admissions({i}, U)
  <1>1. A \cap B = {} /\ Admissions({i}, T \cup U) = A \cup B
    BY DEF Admissions
  <1> HIDE DEF A, B
  <1>2. Admitted(Keep(log, A \cup B)) = Admitted(Keep(log, A)) + Admitted(Keep(log, B))
    BY <1>1, AdmittedSplit DEF LogInv
  <1> QED BY <1>1, <1>2 DEF Of, A, B

\* The times before, within and after a window.
Earlier(w) == {t \in Nat : t < w.start}
Counted(w) == {t \in Nat : w.start <= t /\ t <= w.start + Window}
Later(w) == {t \in Nat : t > w.start + Window}

LEMMA OfWindow ==
    ASSUME LogInv, NEW i \in Ids, NEW w \in [start : Nat, used : Nat]
    PROVE  Of(i, Nat) = Of(i, Earlier(w)) + Of(i, Counted(w)) + Of(i, Later(w))
  <1>1. Window \in Nat /\ w.start \in Nat
    BY QuotaAssumption
  <1>2. /\ Earlier(w) \cap Counted(w) = {}
        /\ (Earlier(w) \cup Counted(w)) \cap Later(w) = {}
        /\ (Earlier(w) \cup Counted(w)) \cup Later(w) = Nat
    BY <1>1 DEF Earlier, Counted, Later
  <1>3. /\ Of(i, Earlier(w) \cup Counted(w)) = Of(i, Earlier(w)) + Of(i, Counted(w))
        /\ Of(i, (Earlier(w) \cup Counted(w)) \cup Later(w))
             = Of(i, Earlier(w) \cup Counted(w)) + Of(i, Later(w))
    BY <1>2, OfSplit
  <1> QED BY <1>2, <1>3

\* A window knows what the log has of its key; m is the largest quota.
WindowOK(i, w, m) ==
    /\ w.start <= now
    /\ Of(i, Earlier(w)) <= m
    /\ Of(i, Counted(w)) <= w.used
    /\ Of(i, Later(w)) <= 0

TokensInv(m) ==
    \A i \in Ids :
        /\ keys[i] # None => IF tokens[i] = None THEN Of(i, Nat) <= 0
                             ELSE WindowOK(i, tokens[i], m)
        /\ Of(i, Nat) <= 2 * m

\* The window a request is checked against knows it too: by the time a new one is
\* started, the log has forgotten what was before the last one.
LEMMA WindowFound ==
    ASSUME NEW m \in Nat, \A q \in TpmQuotas : q <= m,
           KeysInv, LogInv, TokensInv(m), NEW i \in Ids, Valid(i)
    PROVE  WindowOK(i, TokenWindow(i), m)
  <1> DEFINE w == TokenWindow(i)
             fresh == [start |-> now, used |-> 0]
  <1>1. now \in Nat /\ Window \in Nat /\ keys[i] # None
    BY QuotaAssumption DEF KeysInv, KeyShape, Valid
  <1>2. fresh \in [start : Nat, used : Nat] /\ fresh.start = now /\ fresh.used = 0
    BY <1>1
  <1>3. CASE tokens[i] = None
    <2>1. Of(i, Nat) <= 0
      BY <1>1, <1>3 DEF TokensInv
    <2>2. /\ Of(i, Earlier(fresh)) \in Nat /\ Of(i, Earlier(fresh)) <= Of(i, Nat)
          /\ Of(i, Counted(fresh)) \in Nat /\ Of(i, Counted(fresh)) <= Of(i, Nat)
          /\ Of(i, Later(fresh)) \in Nat /\ Of(i, Later(fresh)) <= Of(i, Nat)
          /\ Of(i, Nat) \in Nat
      <3> HIDE DEF fresh
      <3>1. Earlier(fresh) \subseteq Nat /\ Counted(fresh) \subseteq Nat /\ Later(fresh) \subseteq Nat
        BY DEF Earlier, Counted, Later
      <3> QED BY <3>1, OfLess
    <2>3. w = fresh
      BY <1>3 DEF TokenWindow
    <2> HIDE DEF w, fresh
    <2> QED BY <1>1, <1>2, <2>1, <2>2, <2>3 DEF WindowOK, w
  <1>4. CASE tokens[i] # None /\ ~(now - tokens[i].start > Window)
    <2>1. w = tokens[i]
      BY <1>4 DEF TokenWindow
    <2> HIDE DEF w
    <2> QED BY <1>1, <1>4, <2>1 DEF TokensInv, w
  <1>5. CASE tokens[i] # None /\ now - tokens[i].start > Window
    <2> DEFINE old == tokens[i]
    <2>1. old \in [start : Nat, used : Nat] /\ old.start \in Nat /\ old.used \in Nat
      BY <1>5 DEF KeysInv, KeyShape
    <2>2. old.used <= m
      <3>1. PICK q \in TpmQuotas : old.used <= q
        BY <1>5 DEF KeysInv, TokenWindowBounded
      <3> QED BY <2>1, <3>1, QuotaAssumption
    <2>3. WindowOK(i, old, m)
      BY <1>1, <1>5 DEF TokensInv
    <2>4. w = fresh
      BY <1>5 DEF TokenWindow
    <2> HIDE DEF old, w, fresh
    <2>5. Of(i, Earlier(old)) = 0
      <3>1. old.start < now - Window
        BY <1>1, <1>5, <2>1 DEF old
      <3>2. Members(log) \cap Admissions({i}, Earlier(old)) = {}
        <4> SUFFICES ASSUME NEW e \in Members(log), e \in Admissions({i}, Earlier(old)) PROVE FALSE
          OBVIOUS
        <4>1. e.at \in (now - Window)..now
          BY DEF LogInv, Admissions
        <4>2. e.at < old.start
          BY DEF Admissions, Earlier
        <4> QED BY <1>1, <2>1, <3>1, <4>1, <4>2
      <3>3. Keep(log, Admissions({i}, Earlier(old))) = <<>>
        BY <3>2, KeepNothing DEF LogInv
      <3> QED BY <3>3, AdmittedEmpty DEF Of
    <2>6. Of(i, Nat) = Of(i, Earlier(old)) + Of(i, Counted(old)) + Of(i, Later(old))
      BY <2>1, OfWindow
    <2>7. /\ Earlier(fresh) \subseteq Nat /\ Counted(fresh) \subseteq Later(old)
          /\ Later(fresh) \subseteq Later(old) /\ Counted(old) \subseteq Nat
      BY <1>1, <1>2, <1>5, <2>1 DEF Earlier, Counted, Later, old
    <2>8. /\ Of(i, Earlier(fresh)) \in Nat /\ Of(i, Earlier(fresh)) <= Of(i, Nat)
          /\ Of(i, Counted(fresh)) \in Nat /\ Of(i, Counted(fresh)) <= Of(i, Later(old))
          /\ Of(i, Later(fresh)) \in Nat /\ Of(i, Later(fresh)) <= Of(i, Later(old))
          /\ Of(i, Counted(old)) \in Nat /\ Of(i, Later(old)) \in Nat /\ Of(i, Nat) \in Nat
      BY <2>7, OfLess
    <2> QED BY <1>1, <1>2, <2>1, <2>2, <2>3, <2>4, <2>5, <2>6, <2>8 DEF WindowOK, w
  <1> QED BY <1>3, <1>4, <1>5

LEMMA TokensThrottle ==
    ASSUME NEW m \in Nat, \A q \in TpmQuotas : q <= m,
           KeysInv, LogInv, TokensInv(m), NEW i \in Ids, NEW n \in Estimates, Throttle(i, n)
    PROVE  TokensInv(m)'
  <1>1. /\ log' = log /\ now' = now /\ keys' = keys
        /\ tokens' = tokens \/ tokens' = [tokens EXCEPT ![i] = TokenWindow(i)]
    BY DEF Throttle
  <1>2. WindowOK(i, TokenWindow(i), m) /\ TokenWindow(i) # None
    <2>1. TokenWindow(i) \in [start : Nat, used : Nat] /\ Valid(i)
      BY TokenWindowType DEF Throttle
    <2> QED BY <2>1, WindowFound, KeyAssumption
  <1>3. ASSUME NEW j \in Ids, keys[j] # None
        PROVE  IF tokens'[j] = None THEN Of(j, Nat) <= 0 ELSE WindowOK(j, tokens'[j], m)
    <2>1. IF tokens[j] = None THEN Of(j, Nat) <= 0 ELSE WindowOK(j, tokens[j], m)
      BY <1>3 DEF TokensInv
    <2>2. tokens'[j] = tokens[j] \/ (j = i /\ tokens'[j] = TokenWindow(i))
      BY <1>1 DEF KeysInv, KeyShape
    <2> QED BY <1>2, <2>1, <2>2
  <1>4. \A j \in Ids : Of(j, Nat) <= 2 * m
    BY DEF TokensInv
  <1> QED BY <1>1, <1>3, <1>4 DEF TokensInv, WindowOK, Of

\* What the log has after a request was admitted.
LEMMA OfAdmit ==
    ASSUME KeysInv, LogInv, NEW i \in Ids, NEW n \in Estimates, Admit(i, n), NEW j \in Ids, NEW T
    PROVE  Admitted(Keep(log', Admissions({j}, T)))
             = Of(j, T) + (IF j = i /\ now \in T THEN n ELSE 0)
  <1> DEFINE e == [id |-> i, at |-> now, tokens |-> n]
             A == Admissions({j}, T)
  <1>1. /\ e \in Entry
        /\ \A K : Keep(log, K)' = IF e \in K THEN Append(Keep(log, K), e) ELSE Keep(log, K)
    BY LogAdmit
  <1>2. e \in A <=> j = i /\ now \in T
    BY DEF Admissions
  <1>3. e.tokens = n /\ n \in Nat
    BY QuotaAssumption
  <1> HIDE DEF A, e
  <1>4. Keep(log', A) = IF e \in A THEN Append(Keep(log, A), e) ELSE Keep(log, A)
    BY <1>1
  <1>5. Keep(log, A) \in Seq(Entry)
    BY KeepMembers DEF LogInv
  <1>6. Admitted(Append(Keep(log, A), e)) = Admitted(Keep(log, A)) + n /\ Admitted(Keep(log, A)) \in Nat
    BY <1>1, <1>3, <1>5, AdmittedAppend, AdmittedNat
  <1>7. Admitted(Keep(log', A)) = Admitted(Keep(log, A)) + (IF e \in A THEN n ELSE 0)
    BY <1>3, <1>4, <1>6
  <1>8. Of(j, T) = Admitted(Keep(log, A))
    BY DEF Of, A
  <1>9. (IF e \in A THEN n ELSE 0) = IF j = i /\ now \in T THEN n ELSE 0
    BY <1>2
  <1> QED BY <1>7, <1>8, <1>9 DEF A

\* The tokens of a request go to the window of its key.
LEMMA TokensAdmit ==
    ASSUME NEW m \in Nat, \A q \in TpmQuotas : q <= m,
           KeysInv, LogInv, TokensInv(m), NEW i \in Ids, NEW n \in Estimates, Admit(i, n)
    PROVE  TokensInv(m)'
  <1> DEFINE w == TokenWindow(i)
             grown == [start |-> w.start, used |-> w.used + n]
             Of2(j, T) == Admitted(Keep(log', Admissions({j}, T)))
  <1>1. /\ now' = now /\ keys' = keys /\ Valid(i) /\ keys[i] # None
        /\ tokens' = IF n = 0 THEN tokens ELSE [tokens EXCEPT ![i] = grown]
        /\ n > 0 => w.used + n <= keys[i].tpm
    BY DEF Admit, Valid, UnderTpm
  <1>2. /\ w \in [start : Nat, used : Nat] /\ w.start \in Nat /\ w.used \in Nat
        /\ grown \in [start : Nat, used : Nat]
        /\ grown.start = w.start /\ grown.used = w.used + n /\ n \in Nat
        /\ now \in Nat /\ Window \in Nat
    <2>1. w \in [start : Nat, used : Nat] /\ n \in Nat
      BY <1>1, TokenWindowType, QuotaAssumption
    <2> HIDE DEF w
    <2> QED BY <2>1, QuotaAssumption DEF KeysInv, KeyShape
  <1>3. WindowOK(i, w, m) /\ ~(now - w.start > Window)
    <2>1. WindowOK(i, w, m)
      BY <1>1, WindowFound
    <2>2. \/ w.start = now
          \/ w = tokens[i] /\ ~(now - tokens[i].start > Window)
      BY DEF TokenWindow
    <2> HIDE DEF w
    <2> QED BY <1>2, <2>1, <2>2
  <1>4. \A j \in Ids : \A T : Of2(j, T) = Of(j, T) + (IF j = i /\ now \in T THEN n ELSE 0)
    BY OfAdmit
  <1>5. \A j \in Ids : \A T : T \subseteq Nat => Of(j, T) \in Nat
    BY OfLess
  <1> HIDE DEF w, grown, Of2
  <1>6. CASE n = 0
    <2>1. ASSUME NEW j \in Ids, NEW T, T \subseteq Nat PROVE Of2(j, T) = Of(j, T)
      <3>1. Of2(j, T) = Of(j, T) + 0 /\ Of(j, T) \in Nat
        BY <1>4, <1>5, <1>6, <2>1
      <3> QED BY <3>1
    <2>2. ASSUME NEW j \in Ids, NEW v \in [start : Nat, used : Nat]
          PROVE  /\ Of2(j, Earlier(v)) = Of(j, Earlier(v))
                 /\ Of2(j, Counted(v)) = Of(j, Counted(v))
                 /\ Of2(j, Later(v)) = Of(j, Later(v))
                 /\ Of2(j, Nat) = Of(j, Nat)
      BY <2>1 DEF Earlier, Counted, Later
    <2>3. tokens' = tokens
      BY <1>1, <1>6
    <2>4. ASSUME NEW j \in Ids
          PROVE  /\ Of2(j, Nat) <= 2 * m
                 /\ keys[j] # None /\ tokens[j] = None => Of2(j, Nat) <= 0
                 /\ keys[j] # None /\ tokens[j] # None =>
                      /\ tokens[j].start <= now
                      /\ Of2(j, Earlier(tokens[j])) <= m
                      /\ Of2(j, Counted(tokens[j])) <= tokens[j].used
                      /\ Of2(j, Later(tokens[j])) <= 0
      <3>1. tokens[j] # None => tokens[j] \in [start : Nat, used : Nat]
        BY DEF KeysInv, KeyShape
      <3>2. Of2(j, Nat) = Of(j, Nat)
        BY <2>1
      <3> QED BY <2>2, <3>1, <3>2 DEF TokensInv, WindowOK
    <2>5. ASSUME NEW j \in Ids
          PROVE  /\ Of2(j, Nat) <= 2 * m
                 /\ keys[j] # None /\ tokens'[j] = None => Of2(j, Nat) <= 0
                 /\ keys[j] # None /\ tokens'[j] # None =>
                      /\ tokens'[j].start <= now
                      /\ Of2(j, Earlier(tokens'[j])) <= m
                      /\ Of2(j, Counted(tokens'[j])) <= tokens'[j].used
                      /\ Of2(j, Later(tokens'[j])) <= 0
      BY <2>3, <2>4
    <2> QED BY <1>1, <2>5 DEF TokensInv, WindowOK, Of, Of2, Earlier, Counted, Later
  <1>7. CASE n # 0
    <2>1. now \in Counted(w) /\ now \notin Earlier(w) /\ now \notin Later(w) /\ now \in Nat
      BY <1>2, <1>3 DEF WindowOK, Earlier, Counted, Later
    <2>2. /\ Earlier(w) \subseteq Nat /\ Counted(w) \subseteq Nat /\ Later(w) \subseteq Nat
          /\ Earlier(grown) = Earlier(w) /\ Counted(grown) = Counted(w) /\ Later(grown) = Later(w)
      BY <1>2 DEF Earlier, Counted, Later
    <2>3. /\ Of2(i, Earlier(w)) = Of(i, Earlier(w))
          /\ Of2(i, Counted(w)) = Of(i, Counted(w)) + n
          /\ Of2(i, Later(w)) = Of(i, Later(w))
          /\ Of2(i, Nat) = Of(i, Nat) + n
          /\ Of(i, Earlier(w)) \in Nat /\ Of(i, Counted(w)) \in Nat /\ Of(i, Later(w)) \in Nat
      BY <1>2, <1>4, <1>5, <2>1, <2>2
    <2>4. /\ grown.start <= now
          /\ Of2(i, Earlier(grown)) <= m
          /\ Of2(i, Counted(grown)) <= grown.used
          /\ Of2(i, Later(grown)) <= 0
      BY <1>2, <1>3, <2>2, <2>3 DEF WindowOK
    <2>5. w.used + n <= m
      <3>1. keys[i].tpm \in TpmQuotas /\ keys[i].tpm \in Nat
        BY <1>1, KeyAssumption, QuotaAssumption DEF KeysInv, KeyShape, Key
      <3> QED BY <1>1, <1>2, <1>7, <3>1
    <2>6. Of2(i, Nat) <= 2 * m
      <3>1. Of(i, Nat) = Of(i, Earlier(w)) + Of(i, Counted(w)) + Of(i, Later(w))
        BY <1>2, OfWindow
      <3> QED BY <1>2, <1>3, <2>3, <2>5, <3>1 DEF WindowOK
    <2>7. ASSUME NEW j \in Ids, j # i, NEW T, T \subseteq Nat PROVE Of2(j, T) = Of(j, T)
      <3>1. Of2(j, T) = Of(j, T) + 0 /\ Of(j, T) \in Nat
        BY <1>4, <1>5, <2>7
      <3> QED BY <3>1
    <2>8. /\ tokens'[i] = grown /\ grown # None
          /\ \A j \in Ids : j # i => tokens'[j] = tokens[j]
      BY <1>1, <1>2, <1>7, KeyAssumption DEF KeysInv, KeyShape
    <2>9. ASSUME NEW j \in Ids, j # i
          PROVE  /\ Of2(j, Nat) <= 2 * m
                 /\ keys[j] # None /\ tokens[j] = None => Of2(j, Nat) <= 0
                 /\ keys[j] # None /\ tokens[j] # None =>
                      /\ tokens[j].start <= now
                      /\ Of2(j, Earlier(tokens[j])) <= m
                      /\ Of2(j, Counted(tokens[j])) <= tokens[j].used
                      /\ Of2(j, Later(tokens[j])) <= 0
      <3>1. /\ Of2(j, Earlier(tokens[j])) = Of(j, Earlier(tokens[j]))
            /\ Of2(j, Counted(tokens[j])) = Of(j, Counted(tokens[j]))
            /\ Of2(j, Later(tokens[j])) = Of(j, Later(tokens[j]))
            /\ Of2(j, Nat) = Of(j, Nat)
        BY <2>7, <2>9 DEF Earlier, Counted, Later
      <3> QED BY <3>1 DEF TokensInv, WindowOK
    <2>10. ASSUME NEW j \in Ids
           PROVE  /\ Of2(j, Nat) <= 2 * m
                  /\ keys[j] # None /\ tokens'[j] = None => Of2(j, Nat) <= 0
                  /\ keys[j] # None /\ tokens'[j] # None =>
                       /\ tokens'[j].start <= now
                       /\ Of2(j, Earlier(tokens'[j])) <= m
                       /\ Of2(j, Counted(tokens'[j])) <= tokens'[j].used
                       /\ Of2(j, Later(tokens'[j])) <= 0
      <3>1. CASE j = i
        BY <2>4, <2>6, <2>8, <3>1
      <3>2. CASE j # i
        BY <2>8, <2>9, <3>2
      <3> QED BY <3>1, <3>2
    <2> QED BY <1>1, <2>10 DEF TokensInv, WindowOK, Of, Of2, Earlier, Counted, Later
  <1> QED BY <1>6, <1>7

\* A new key has nothing in the log, and what the log has of a deleted key stays
\* within the bound.
LEMMA TokensManage ==
    ASSUME NEW m \in Nat, KeysInv, LogInv, TokensInv(m),
           NEW i \in Ids, CreateKey(i) \/ UpdateKey(i) \/ DeleteKey(i)
    PROVE  TokensInv(m)'
  <1>1. /\ log' = log /\ now' = now
        /\ \A j \in Ids : j # i => keys'[j] = keys[j] /\ tokens'[j] = tokens[j]
    BY DEF CreateKey, UpdateKey, DeleteKey, ForgetTrackers, KeysInv, KeyShape
  <1>2. keys'[i] # None => IF tokens'[i] = None THEN Of(i, Nat) <= 0 ELSE WindowOK(i, tokens'[i], m)
    <2>1. CASE CreateKey(i)
      <3>1. tokens' = tokens /\ i \notin issued
        BY <2>1 DEF CreateKey
      <3>2. tokens[i] = None
        BY <3>1 DEF LogInv, KeysInv, TrackersOwned
      <3>3. Of(i, Nat) = 0
        <4>1. Members(log) \cap Admissions({i}, Nat) = {}
          BY <3>1 DEF LogInv, Admissions
        <4>2. Keep(log, Admissions({i}, Nat)) = <<>>
          BY <4>1, KeepNothing DEF LogInv
        <4> QED BY <4>2, AdmittedEmpty DEF Of
      <3> QED BY <3>1, <3>2, <3>3
    <2>2. CASE UpdateKey(i)
      <3>1. tokens' = tokens /\ keys[i] # None
        BY <2>2 DEF UpdateKey
      <3> QED BY <3>1 DEF TokensInv
    <2>3. CASE DeleteKey(i)
      BY <2>3 DEF DeleteKey, KeysInv, KeyShape
    <2> QED BY <2>1, <2>2, <2>3
  <1>3. ASSUME NEW j \in Ids
        PROVE  /\ Of(j, Nat) <= 2 * m
               /\ keys'[j] # None => IF tokens'[j] = None THEN Of(j, Nat) <= 0
                                     ELSE WindowOK(j, tokens'[j], m)
    <2>1. CASE j = i
      BY <1>2, <2>1 DEF TokensInv
    <2>2. CASE j # i
      BY <1>1, <2>2 DEF TokensInv
    <2> QED BY <2>1, <2>2
  <1> QED BY <1>1, <1>3 DEF TokensInv, WindowOK, Of

\* What the log forgets makes no sum larger.
LEMMA TokensTick ==
    ASSUME NEW m \in Nat, KeysInv, LogInv, TokensInv(m), Tick
    PROVE  TokensInv(m)'
  <1> DEFINE Of2(j, T) == Admitted(Keep(log', Admissions({j}, T)))
             A == Admissions(Ids, (now' - Window)..now')
  <1>1. /\ now' = now + 1 /\ tokens' = tokens /\ keys' = keys
        /\ log' = Keep(log, A) /\ now \in Nat
    BY DEF Tick, KeysInv, KeyShape
  <1> HIDE DEF A
  <1>2. ASSUME NEW j \in Ids, NEW T, T \subseteq Nat
        PROVE  Of2(j, T) \in Nat /\ Of(j, T) \in Nat /\ Of2(j, T) <= Of(j, T)
    <2> DEFINE B == Admissions({j}, T)
    <2> HIDE DEF B
    <2>1. log \in Seq(Entry) /\ A \cap B \subseteq B
      BY DEF LogInv
    <2>2. Keep(log', B) = Keep(log, A \cap B)
      BY <1>1, <2>1, KeepTwice
    <2>3. Admitted(Keep(log, A \cap B)) <= Admitted(Keep(log, B))
      <3> DEFINE C == A \cap B
      <3>1. C \subseteq B
        OBVIOUS
      <3> HIDE DEF C
      <3>2. Admitted(Keep(log, C)) <= Admitted(Keep(log, B))
        BY <2>1, <3>1, AdmittedLess
      <3> QED BY <3>2 DEF C
    <2>4. Admitted(Keep(log, A \cap B)) \in Nat /\ Admitted(Keep(log, B)) \in Nat
      BY <2>1, KeepMembers, AdmittedNat
    <2> QED BY <2>2, <2>3, <2>4 DEF Of, B
  <1> HIDE DEF Of2
  <1>3. ASSUME NEW j \in Ids
        PROVE  /\ Of2(j, Nat) <= 2 * m
               /\ keys[j] # None /\ tokens[j] = None => Of2(j, Nat) <= 0
               /\ keys[j] # None /\ tokens[j] # None =>
                    /\ tokens[j].start <= now + 1
                    /\ Of2(j, Earlier(tokens[j])) <= m
                    /\ Of2(j, Counted(tokens[j])) <= tokens[j].used
                    /\ Of2(j, Later(tokens[j])) <= 0
    <2> DEFINE v == tokens[j]
    <2>1. v # None => v \in [start : Nat, used : Nat] /\ v.start \in Nat /\ v.used \in Nat
      BY DEF KeysInv, KeyShape
    <2>2. /\ Of2(j, Earlier(v)) \in Nat /\ Of(j, Earlier(v)) \in Nat /\ Of2(j, Earlier(v)) <= Of(j, Earlier(v))
          /\ Of2(j, Counted(v)) \in Nat /\ Of(j, Counted(v)) \in Nat /\ Of2(j, Counted(v)) <= Of(j, Counted(v))
          /\ Of2(j, Later(v)) \in Nat /\ Of(j, Later(v)) \in Nat /\ Of2(j, Later(v)) <= Of(j, Later(v))
          /\ Of2(j, Nat) \in Nat /\ Of(j, Nat) \in Nat /\ Of2(j, Nat) <= Of(j, Nat)
      <3>1. Earlier(v) \subseteq Nat /\ Counted(v) \subseteq Nat /\ Later(v) \subseteq Nat
        BY DEF Earlier, Counted, Later
      <3> QED BY <1>2, <3>1
    <2>3. /\ Of(j, Nat) <= 2 * m
          /\ keys[j] # None /\ v = None => Of(j, Nat) <= 0
          /\ keys[j] # None /\ v # None => WindowOK(j, v, m)
      BY DEF TokensInv
    <2> HIDE DEF v
    <2>4. keys[j] # None /\ v # None =>
                    /\ v.start <= now + 1
                    /\ Of2(j, Earlier(v)) <= m
                    /\ Of2(j, Counted(v)) <= v.used
                    /\ Of2(j, Later(v)) <= 0
      BY <1>1, <2>1, <2>2, <2>3 DEF WindowOK
    <2>5. Of2(j, Nat) <= 2 * m /\ (keys[j] # None /\ v = None => Of2(j, Nat) <= 0)
      BY <2>2, <2>3
    <2> QED BY <2>4, <2>5 DEF v
  <1> QED BY <1>1, <1>3 DEF TokensInv, WindowOK, Of, Of2, Earlier, Counted, Later

LEMMA TokensInvInit == ASSUME NEW m \in Nat PROVE KeysInit => TokensInv(m)
  <1>1. \A i : KeysInit => Of(i, Nat) = 0
    BY KeepEmpty, AdmittedEmpty DEF KeysInit, Of
  <1> QED BY <1>1 DEF KeysInit, TokensInv

\* The tokens admitted of a key in any minute stay within twice the largest quota
\* ever given, and no tracker outlives its key: for any keys, requests and changes
\* of quotas.
THEOREM QuotasAreHeld ==
    IsFiniteSet(TpmQuotas) /\ TpmQuotas # {} => (Spec => []QuotasHeld)
  <1> SUFFICES ASSUME IsFiniteSet(TpmQuotas), TpmQuotas # {} PROVE Spec => []QuotasHeld
    OBVIOUS
  <1> DEFINE m == Max(TpmQuotas)
  <1>1. m \in Nat /\ \A q \in TpmQuotas : q <= m
    <2> DEFINE id == [q \in TpmQuotas |-> q]
    <2>1. \A q \in TpmQuotas : id[q] \in Int
      BY QuotaAssumption
    <2>2. \E x \in TpmQuotas : \A y \in TpmQuotas : id[y] <= id[x]
      <3> HIDE DEF id
      <3> QED BY <2>1, Highest
    <2>3. \E x \in TpmQuotas : \A y \in TpmQuotas : x >= y
      BY <2>2, QuotaAssumption
    <2>4. m \in TpmQuotas /\ \A y \in TpmQuotas : m >= y
      BY <2>3 DEF Max
    <2> HIDE DEF m
    <2> QED BY <2>4, QuotaAssumption
  <1>2. TokensInv(m) /\ KeysInv /\ LogInv => QuotasHeld
    <2> SUFFICES ASSUME TokensInv(m), KeysInv, LogInv PROVE QuotasHeld
      OBVIOUS
    <2>1. \A i \in issued : Admitted(AdmittedFor(i)) <= 2 * m
      BY DEF TokensInv, LogInv, Of, AdmittedFor
    <2> QED BY <2>1 DEF QuotasHeld, TokensWithinTwo, KeysInv
  <1> HIDE DEF m
  <1>3. KeysInv /\ LogInv /\ TokensInv(m) /\ [KeysNext]_keyVars => TokensInv(m)'
    <2> SUFFICES ASSUME KeysInv, LogInv, TokensInv(m), [KeysNext]_keyVars PROVE TokensInv(m)'
      OBVIOUS
    <2>1. CASE ManageKeys
      BY <1>1, <2>1, TokensManage DEF ManageKeys
    <2>2. ASSUME NEW i \in Ids, NEW n \in Estimates, Throttle(i, n) \/ Admit(i, n)
          PROVE  TokensInv(m)'
      BY <1>1, <2>2, TokensThrottle, TokensAdmit
    <2>3. CASE Tick
      BY <1>1, <2>3, TokensTick
    <2>4. CASE UNCHANGED keyVars
      BY <2>4 DEF keyVars, TokensInv, WindowOK, Of
    <2> QED BY <2>1, <2>2, <2>3, <2>4 DEF KeysNext
  <1>4. KeysInit => LogInv /\ TokensInv(m)
    BY <1>1, LogInvInit, TokensInvInit
  <1>5. KeysSpec => []QuotasHeld
    BY <1>2, <1>3, <1>4, LogStep, KeysInvariant, PTL DEF KeysSpec
  <1> QED BY <1>5, GatewayKeepsKeys, PTL

-----------------------------------------------------------------------------
(* Requests: the mock is among the adapters still to be tried, and first    *)
(* among those of a confidential text.                                      *)

\* The adapters are those of the tuple, and the mock is registered first.
LEMMA AdapterFacts ==
    /\ Adapter = {"mock", "deepseek", "qwen", "glm", "litellm"}
    /\ Adapters \in Seq(Adapter) /\ Adapters # <<>> /\ Adapters[1] = "mock"
  <1>1. DOMAIN Adapters = 1..5
    BY DEF Adapters
  <1>2. Adapter = {Adapters[1], Adapters[2], Adapters[3], Adapters[4], Adapters[5]}
    BY <1>1 DEF Adapter, Range
  <1>3. Adapter = {"mock", "deepseek", "qwen", "glm", "litellm"}
    BY <1>2 DEF Adapters
  <1> QED BY <1>3 DEF Adapters

\* By price, the mock comes first.
LEMMA ByCostType ==
    ASSUME NEW S
    PROVE  /\ ByCost(S) \in Seq(Adapter)
           /\ "mock" \in S => ByCost(S) # <<>> /\ ByCost(S)[1] = "mock"
  <1> DEFINE Priced(c) == Keep(Adapters, {a \in S : Cost[a] = c})
  <1>1. \A c : Priced(c) \in Seq(Adapter)
    BY AdapterFacts, KeepMembers
  <1>2. "mock" \in S => Priced(0) # <<>> /\ Priced(0)[1] = "mock"
    <2> SUFFICES ASSUME "mock" \in S PROVE Priced(0) # <<>> /\ Priced(0)[1] = "mock"
      OBVIOUS
    <2>1. Adapters[1] \in {a \in S : Cost[a] = 0}
      BY AdapterFacts DEF Cost
    <2> QED BY <2>1, AdapterFacts, KeepFirst
  <1>3. ByCost(S) = Priced(0) \o Priced(6) \o Priced(8) \o Priced(10)
    BY DEF ByCost
  <1>4. ASSUME NEW s \in Seq(Adapter), NEW t \in Seq(Adapter)
        PROVE  /\ s \o t \in Seq(Adapter)
               /\ s # <<>> => s \o t # <<>> /\ (s \o t)[1] = s[1]
    BY ConcatProperties, EmptySeq
  <1> HIDE DEF Priced
  <1> QED BY <1>1, <1>2, <1>3, <1>4

\* Cutting a chain after MaxRetries adapters leaves one among the first ones in.
LEMMA ShortenedKeeps ==
    ASSUME NEW s \in Seq(Adapter), NEW n \in 1..Len(s), n <= MaxRetries
    PROVE  /\ Shortened(s) \in Seq(Adapter)
           /\ n \in 1..Len(Shortened(s)) /\ Shortened(s)[n] = s[n]
           /\ Shortened(s)[1] = s[1]
  <1> DEFINE m == Min({Len(s), MaxRetries})
  <1>1. Len(s) \in Nat /\ MaxRetries \in Nat
    BY LenProperties, GatewayAssumption
  <1>2. \E x \in {Len(s), MaxRetries} : \A y \in {Len(s), MaxRetries} : x <= y
    BY <1>1
  <1>3. m \in {Len(s), MaxRetries} /\ \A y \in {Len(s), MaxRetries} : m <= y
    BY <1>2 DEF Min
  <1> HIDE DEF m
  <1>4. m \in n..Len(s)
    BY <1>1, <1>3
  <1>5. /\ SubSeq(s, 1, m) \in Seq(Adapter) /\ Len(SubSeq(s, 1, m)) = m
        /\ \A i \in 1..m : SubSeq(s, 1, m)[i] = s[i]
    BY <1>1, <1>4, SubSeqProperties
  <1>6. Shortened(s) = SubSeq(s, 1, m)
    BY DEF Shortened, m
  <1>7. 1 \in 1..m /\ n \in 1..m
    BY <1>1, <1>4
  <1> QED BY <1>5, <1>6, <1>7

\* Two attempts are enough to reach the mock, and it is the first one when the
\* policy chose it.
LEMMA MockIsNear ==
    ASSUME MaxRetries >= 2, configured \subseteq Optional,
           NEW primary \in Adapter \cup {"unknown"}
    PROVE  /\ FallbackOrder(primary) \in Seq(Adapter)
           /\ "mock" \in Members(FallbackOrder(primary))
           /\ primary = "mock" => FallbackOrder(primary)[1] = "mock"
  <1> DEFINE chosen == IF primary \in Registered THEN <<primary>> ELSE <<>>
             others == ByCost(Available \ {primary})
             chain == chosen \o others
  <1>1. /\ others \in Seq(Adapter)
        /\ primary # "mock" => others # <<>> /\ others[1] = "mock"
    BY ByCostType DEF Available
  <1>2. "mock" \in Registered /\ MaxRetries \in Nat
    BY GatewayAssumption DEF Registered
  <1>3. chosen \in Seq(Adapter) /\ Len(chosen) \in 0..1 /\ (chosen # <<>> => chosen[1] = primary)
    <2>1. CASE primary \in Registered /\ primary \in Adapter
      BY <2>1
    <2>2. CASE primary \notin Registered
      BY <2>2, EmptySeq
    <2>3. CASE primary \in Registered /\ primary = "unknown"
      <3> QED BY <2>3, AdapterFacts DEF Registered, Optional, Stubs
    <2> QED BY <2>1, <2>2, <2>3
  <1>4. primary = "mock" => chosen # <<>>
    BY <1>2
  <1>5. /\ chain \in Seq(Adapter) /\ Len(chain) = Len(chosen) + Len(others)
        /\ \A i \in 1..Len(chosen) : chain[i] = chosen[i]
        /\ \A i \in 1..Len(others) : chain[Len(chosen) + i] = others[i]
    <2> HIDE DEF chosen, others
    <2> QED BY <1>1, <1>3, ConcatProperties
  <1> HIDE DEF chosen, others, chain
  <1>6. PICK n \in 1..Len(chain) :
           n <= 2 /\ chain[n] = "mock" /\ (primary = "mock" => n = 1)
    <2>1. CASE primary = "mock"
      <3>1. 1 \in 1..Len(chosen) /\ Len(others) \in Nat
        BY <2>1, <1>1, <1>3, <1>4, EmptySeq, LenProperties
      <3> QED BY <2>1, <1>3, <1>4, <1>5, <3>1
    <2>2. CASE primary # "mock"
      <3>1. 1 \in 1..Len(others) /\ Len(others) \in Nat
        BY <2>2, <1>1, EmptySeq, LenProperties
      <3>2. Len(chosen) + 1 \in 1..Len(chain) /\ Len(chosen) + 1 <= 2
        <4> DEFINE c == Len(chosen)
                   o == Len(others)
        <4>1. c \in 0..1 /\ o \in Nat /\ 1 \in 1..o /\ Len(chain) = c + o
          BY <1>3, <1>5, <3>1
        <4> HIDE DEF c, o
        <4>2. c + 1 \in 1..(c + o) /\ c + 1 <= 2
          BY ONLY <4>1
        <4>3. c + 1 \in 1..Len(chain) /\ c + 1 <= 2
          BY <4>1, <4>2
        <4> QED BY <4>3 DEF c
      <3> QED BY <2>2, <1>1, <1>5, <3>1, <3>2
    <2> QED BY <2>1, <2>2
  <1>7. "mock" \in Range(chain)
    BY <1>5, <1>6 DEF Range
  <1>8. FallbackOrder(primary) = Shortened(chain)
    BY <1>7 DEF FallbackOrder, chain, chosen, others
  <1>9. n <= MaxRetries
    BY <1>2, <1>6
  <1> QED BY <1>5, <1>6, <1>8, <1>9, ShortenedKeeps DEF Members

\* A request that is being tried can still reach the mock, and one the policy
\* keeps local is at the mock already.
ChatOK(c) ==
    /\ c.stage # "500"
    /\ c.stage \in {"new", "queued"} => ~c.local
    /\ c.stage = "trying" => "mock" \in Members(c.left)
    /\ c.local => c.left = <<>> \/ Head(c.left) = "mock"

ServeInv ==
    /\ configured \subseteq Optional
    /\ chat \in [Requests -> Chat]
    /\ \A r \in Requests : ChatOK(chat[r])

LEMMA ServeInvInit == Init => ServeInv
  <1> SUFFICES ASSUME Init PROVE ServeInv
    OBVIOUS
  <1> DEFINE c == [stage |-> "new", local |-> FALSE, left |-> <<>>, by |-> None]
  <1>1. <<>> \in Seq(Adapter)
    BY EmptySeq
  <1>2. c \in Chat
    BY <1>1 DEF Chat, Stage, Failed
  <1>3. ChatOK(c)
    BY DEF ChatOK
  <1>4. chat = [r \in Requests |-> c] /\ configured \subseteq Optional
    BY GatewayAssumption DEF Init
  <1> HIDE DEF c
  <1> QED BY <1>2, <1>3, <1>4 DEF ServeInv

\* A step of one request leaves the others as they are.
LEMMA OneServed ==
    ASSUME ServeInv, NEW r \in Requests, NEW c \in Chat, ChatOK(c),
           chat' = [chat EXCEPT ![r] = c], configured' = configured
    PROVE  ServeInv'
  BY DEF ServeInv

\* A request that only changes its stage.
LEMMA StayKeeps ==
    ASSUME ServeInv, NEW r \in Requests, chat[r].stage \in {"new", "queued"},
           NEW stage \in {"queued", "400", "401", "429"}, Stay(r, stage),
           configured' = configured
    PROVE  ServeInv'
  <1> DEFINE c == [chat[r] EXCEPT !.stage = stage]
  <1>1. chat[r] \in Chat /\ ChatOK(chat[r]) /\ stage \in Stage
    BY DEF ServeInv, Stage, Failed
  <1>2. c \in Chat /\ c.stage = stage /\ c.local = chat[r].local /\ c.left = chat[r].left
    BY <1>1 DEF Chat
  <1>3. chat' = [chat EXCEPT ![r] = c]
    BY DEF Stay, ServeInv
  <1> HIDE DEF c
  <1>4. ChatOK(c)
    BY <1>1, <1>2 DEF ChatOK
  <1> QED BY <1>2, <1>3, <1>4, OneServed

LEMMA ArriveServes ==
    ASSUME ServeInv, NEW r \in Requests, Arrive(r) \/ Block(r)
    PROVE  ServeInv'
  <1>1. /\ chat[r].stage \in {"new", "queued"} /\ configured' = configured
        /\ \E stage \in {"queued", "400", "401", "429"} : Stay(r, stage)
    BY DEF Arrive, ArriveAnonymous, ArriveWithKey, Block
  <1> QED BY <1>1, StayKeeps

\* The rule for confidential text comes first, whatever the complexity.
LEMMA ConfidentialRoute ==
    ASSUME NEW confidential \in BOOLEAN, NEW c \in Complexity
    PROVE  /\ Routed(confidential, c) \in Adapter
           /\ confidential => Routed(confidential, c) = "mock"
  <1> DEFINE matching == {rule \in Rules : Matches(rule, confidential, c)}
             first == CHOOSE rule \in matching :
                         \A other \in matching : rule.priority <= other.priority
             Local == [priority |-> 5, keyword |-> TRUE, complexity |-> "any", model |-> "mock"]
             Simple == [priority |-> 10, keyword |-> FALSE, complexity |-> "simple", model |-> "mock"]
             Medium == [priority |-> 15, keyword |-> FALSE, complexity |-> "medium", model |-> "deepseek"]
             Complex == [priority |-> 20, keyword |-> FALSE, complexity |-> "complex", model |-> "glm"]
  <1>1. Rules = {Local, Simple, Medium, Complex}
    BY DEF Rules
  <1>2. Local \in matching <=> confidential
    BY <1>1 DEF Matches
  <1>3. /\ Simple \in matching <=> c = "simple"
        /\ Medium \in matching <=> c = "medium"
        /\ Complex \in matching <=> c = "complex"
    BY <1>1 DEF Matches, Complexity
  <1>4. \E rule \in matching : \A other \in matching : rule.priority <= other.priority
    <2>1. matching \subseteq {Local, Simple, Medium, Complex}
      BY <1>1
    <2>2. /\ Local.priority = 5 /\ Simple.priority = 10
          /\ Medium.priority = 15 /\ Complex.priority = 20
      OBVIOUS
    <2> HIDE DEF matching, Local, Simple, Medium, Complex
    <2>3. CASE confidential
      BY <1>2, <2>1, <2>2, <2>3
    <2>4. CASE ~confidential
      BY <1>2, <1>3, <2>1, <2>2, <2>4 DEF Complexity
    <2> QED BY <2>3, <2>4
  <1>5. first \in matching /\ \A other \in matching : first.priority <= other.priority
    BY <1>4
  <1>6. Routed(confidential, c) = first.model
    BY DEF Routed
  <1>7. first \in {Local, Simple, Medium, Complex}
    BY <1>1, <1>5
  <1> HIDE DEF first, matching
  <1>8. confidential => first = Local
    BY <1>2, <1>5, <1>7
  <1> QED BY <1>6, <1>7, <1>8, AdapterFacts

LEMMA BeginServes ==
    ASSUME MaxRetries >= 2, ServeInv, NEW r \in Requests, Begin(r)
    PROVE  ServeInv'
  <1>1. PICK primary \in Adapter \cup {"unknown"}, confidential \in BOOLEAN :
           /\ confidential => primary = "mock"
           /\ chat' = [chat EXCEPT ![r] = [@ EXCEPT !.stage = "trying", !.local = confidential,
                                                   !.left = FallbackOrder(primary)]]
    <2>1. chat[r] \in Chat /\ chat[r].local = FALSE
      BY DEF Begin, ServeInv, ChatOK, Chat
    <2>2. ASSUME NEW named \in Adapter \cup {"unknown"},
                 chat' = [chat EXCEPT ![r].stage = "trying", ![r].left = FallbackOrder(named)]
          PROVE  chat' = [chat EXCEPT ![r] = [@ EXCEPT !.stage = "trying", !.local = FALSE,
                                                     !.left = FallbackOrder(named)]]
      <3> DEFINE a == [chat[r] EXCEPT !.stage = "trying", !.left = FallbackOrder(named)]
                 b == [chat[r] EXCEPT !.stage = "trying", !.local = FALSE, !.left = FallbackOrder(named)]
      <3>1. a = b
        BY <2>1 DEF Chat
      <3>2. chat' = [chat EXCEPT ![r] = a]
        BY <2>2 DEF ServeInv
      <3> HIDE DEF a
      <3> QED BY <3>1, <3>2
    <2>3. ASSUME NEW conf \in BOOLEAN, NEW c \in Complexity,
                 chat' = [chat EXCEPT ![r].stage = "trying", ![r].local = conf,
                                      ![r].left = FallbackOrder(Routed(conf, c))]
          PROVE  /\ Routed(conf, c) \in Adapter /\ (conf => Routed(conf, c) = "mock")
                 /\ chat' = [chat EXCEPT ![r] = [@ EXCEPT !.stage = "trying", !.local = conf,
                                                         !.left = FallbackOrder(Routed(conf, c))]]
      BY <2>3, ConfidentialRoute DEF ServeInv
    <2>4. CASE \E named \in Adapter \cup {"unknown"} :
                  chat' = [chat EXCEPT ![r].stage = "trying", ![r].left = FallbackOrder(named)]
      BY <2>2, <2>4
    <2>5. CASE \E conf \in BOOLEAN, c \in Complexity :
                  chat' = [chat EXCEPT ![r].stage = "trying", ![r].local = conf,
                                       ![r].left = FallbackOrder(Routed(conf, c))]
      BY <2>3, <2>5
    <2> QED BY <2>4, <2>5 DEF Begin
  <1> DEFINE order == FallbackOrder(primary)
             c == [chat[r] EXCEPT !.stage = "trying", !.local = confidential, !.left = order]
  <1>2. /\ order \in Seq(Adapter) /\ "mock" \in Members(order)
        /\ primary = "mock" => order[1] = "mock"
    BY MockIsNear DEF ServeInv
  <1>3. chat' = [chat EXCEPT ![r] = c] /\ configured' = configured
    BY <1>1 DEF Begin
  <1> HIDE DEF order
  <1>4. c \in Chat /\ c.stage = "trying" /\ c.local = confidential /\ c.left = order
    BY <1>2 DEF ServeInv, Chat, Stage
  <1> HIDE DEF c
  <1>5. confidential => Head(order) = "mock"
    BY <1>1, <1>2
  <1>6. ChatOK(c)
    BY <1>2, <1>4, <1>5 DEF ChatOK
  <1> QED BY <1>3, <1>4, <1>6, OneServed

\* The mock does not fail, so it is still to come when another adapter does.
LEMMA FailureServes ==
    ASSUME ServeInv, NEW r \in Requests, AttemptFails(r)
    PROVE  ServeInv'
  <1> DEFINE left == chat[r].left
             c == [chat[r] EXCEPT !.left = Tail(left)]
  <1>1. chat[r] \in Chat /\ chat[r].stage = "trying" /\ ChatOK(chat[r])
    BY DEF ServeInv, AttemptFails
  <1>2. left \in Seq(Adapter) /\ "mock" \in Members(left) /\ Head(left) # "mock"
    BY <1>1 DEF ChatOK, Chat, AttemptFails
  <1>3. PICK i \in 1..Len(left) : left[i] = "mock"
    BY <1>2 DEF Members
  <1>4. left # <<>> /\ i # 1 /\ Len(left) \in Nat
    BY <1>2, <1>3, LenProperties
  <1>5. /\ Tail(left) \in Seq(Adapter) /\ Len(Tail(left)) = Len(left) - 1
        /\ \A k \in 1..Len(Tail(left)) : Tail(left)[k] = left[k + 1]
    BY <1>2, <1>4
  <1>6. i - 1 \in 1..Len(Tail(left)) /\ Tail(left)[i - 1] = "mock"
    BY <1>3, <1>4, <1>5
  <1>7. "mock" \in Members(Tail(left)) /\ Tail(left) # <<>>
    <2> DEFINE rest == Tail(left)
    <2>1. i - 1 \in 1..Len(rest) /\ rest[i - 1] = "mock"
      BY <1>6
    <2> HIDE DEF rest
    <2>2. "mock" \in Members(rest) /\ rest # <<>>
      BY <2>1, EmptySeq DEF Members
    <2> QED BY <2>2 DEF rest
  <1>8. chat' = [chat EXCEPT ![r] = c] /\ configured' = configured
    <2>1. chat' = [chat EXCEPT ![r] = [@ EXCEPT !.left = Tail(left), !.stage = chat[r].stage]]
      BY <1>7 DEF AttemptFails, ServeInv
    <2>2. c = [chat[r] EXCEPT !.left = Tail(left), !.stage = chat[r].stage]
      BY <1>1 DEF Chat
    <2> QED BY <2>1, <2>2 DEF AttemptFails
  <1>9. ~chat[r].local
    BY <1>1, <1>2, <1>4 DEF ChatOK
  <1> HIDE DEF left
  <1>10. c \in Chat /\ c.stage = chat[r].stage /\ c.local = chat[r].local /\ c.left = Tail(left)
    BY <1>1, <1>5 DEF Chat
  <1> HIDE DEF c
  <1>11. ChatOK(c)
    BY <1>1, <1>7, <1>9, <1>10 DEF ChatOK
  <1> QED BY <1>8, <1>10, <1>11, OneServed

LEMMA AnswerServes ==
    ASSUME ServeInv, NEW r \in Requests, AttemptAnswers(r)
    PROVE  ServeInv'
  <1> DEFINE left == chat[r].left
             c == [chat[r] EXCEPT !.stage = "answered", !.by = Head(left)]
  <1>1. chat[r] \in Chat /\ chat[r].stage = "trying" /\ ChatOK(chat[r])
    BY DEF ServeInv, AttemptAnswers
  <1>2. left \in Seq(Adapter) /\ "mock" \in Members(left)
    BY <1>1 DEF ChatOK, Chat
  <1>3. left # <<>> /\ Head(left) \in Adapter
    BY <1>2, EmptySeq DEF Members
  <1>4. chat' = [chat EXCEPT ![r] = c] /\ configured' = configured
    BY DEF AttemptAnswers, ServeInv
  <1>5. /\ c \in Chat /\ c.stage = "answered"
        /\ c.local = chat[r].local /\ c.left = chat[r].left
    <2> HIDE DEF left
    <2> QED BY <1>1, <1>3 DEF Chat, Stage
  <1> HIDE DEF c
  <1>6. ChatOK(c)
    BY <1>1, <1>5 DEF ChatOK
  <1> QED BY <1>4, <1>5, <1>6, OneServed

\* No chat request is answered with 500 and none the policy keeps local is given
\* to anyone but the mock, for any deployment, any number of requests and every
\* outcome of every attempt, as long as two attempts are made.
THEOREM ChatIsServed == MaxRetries >= 2 => (Spec => []ChatServed)
  <1> SUFFICES ASSUME MaxRetries >= 2 PROVE Spec => []ChatServed
    OBVIOUS
  <1>1. ServeInv /\ [Next]_vars => ServeInv'
    <2> SUFFICES ASSUME ServeInv, [Next]_vars PROVE ServeInv'
      OBVIOUS
    <2>1. CASE Keys \/ Account \/ UNCHANGED vars
      <3>1. chat' = chat /\ configured' = configured
        BY <2>1 DEF Keys, Account, vars, gatewayVars
      <3> QED BY <3>1 DEF ServeInv
    <2>2. ASSUME NEW r \in Requests, Arrive(r) \/ Serve(r) PROVE ServeInv'
      BY <2>2, ArriveServes, BeginServes, FailureServes, AnswerServes DEF Serve
    <2> QED BY <2>1, <2>2 DEF Next
  <1>2. ServeInv => ChatServed
    BY DEF ServeInv, ChatOK, ChatServed, NeverGivesUp, ConfidentialStaysLocal
  <1> QED BY <1>1, <1>2, ServeInvInit, PTL DEF Spec

-----------------------------------------------------------------------------
(* Budget events.                                                           *)

EventsInv ==
    /\ events \in Seq([at : Nat, type : {"ok", "warning", "exceeded"}])
    /\ \A n \in DOMAIN events : events[n].at <= now
    /\ EventsSpaced

\* Recalculating adds an event only if none of its type is young, and leaves
\* none out that a budget read as exceeded needs.
LEMMA RecalculateSpaces ==
    ASSUME EventsInv, now \in Nat, now' = now, NEW limit, Recalculate(limit)
    PROVE  EventsInv'
  <1> DEFINE status == Status(Spend, limit)
             event == [at |-> now, type |-> status]
             Event == [at : Nat, type : {"ok", "warning", "exceeded"}]
  <1>1. /\ budget' = [limit |-> limit, spend |-> Spend, status |-> status]
        /\ events' = IF status = "ok" \/ Repeated(status) THEN events ELSE Append(events, event)
    BY DEF Recalculate
  <1>2. status \in {"ok", "warning", "exceeded"}
    BY DEF Status
  <1>3. budget'.status = status
    BY <1>1
  <1> HIDE DEF status
  <1>4. events \in Seq(Event) /\ Len(events) \in Nat /\ DOMAIN events = 1..Len(events)
    BY LenProperties DEF EventsInv
  <1>5. CASE status = "ok" \/ Repeated(status)
    <2>1. status = "exceeded" => \E n \in DOMAIN events : events[n].type = "exceeded"
      BY <1>5 DEF Repeated
    <2> QED BY <1>1, <1>3, <1>5, <2>1 DEF EventsInv, EventsSpaced
  <1>6. CASE status # "ok" /\ ~Repeated(status)
    <2> DEFINE last == Len(events) + 1
    <2>1. event \in Event /\ event.at = now /\ event.type = status
      BY <1>2
    <2>2. events' = Append(events, event)
      BY <1>1, <1>6
    <2> HIDE DEF event
    <2>3. /\ events' \in Seq(Event) /\ DOMAIN events' = 1..last
          /\ \A n \in 1..Len(events) : events'[n] = events[n]
          /\ events'[last] = event
      BY <1>4, <2>1, <2>2, AppendProperties
    <2>4. \A n \in DOMAIN events' : events'[n].at <= now'
      <3> SUFFICES ASSUME NEW n \in 1..last PROVE events'[n].at <= now
        BY <2>3
      <3>1. CASE n = last
        BY <2>1, <2>3, <3>1
      <3>2. CASE n \in 1..Len(events)
        BY <1>4, <2>3, <3>2 DEF EventsInv
      <3> QED BY <1>4, <3>1, <3>2
    <2>5. ASSUME NEW m \in 1..last, NEW n \in 1..last, m < n, events'[m].type = events'[n].type
          PROVE  events'[n].at - events'[m].at >= Hour
      <3>1. m \in 1..Len(events) /\ m \in DOMAIN events
        BY <1>4, <2>5
      <3>2. CASE n = last
        <4>1. events[m].type = status
          BY <2>1, <2>3, <2>5, <3>1, <3>2
        <4>2. ~(now - events[m].at < Hour)
          BY <1>6, <3>1, <4>1 DEF Repeated
        <4>3. events[m].at \in Nat /\ Hour \in Nat
          <5> HIDE DEF Event
          <5>1. events[m] \in Event
            BY <1>4, <3>1, ElementOfSeq
          <5> QED BY <5>1, GatewayAssumption DEF Event
        <4>4. events'[n].at = now /\ events'[m].at = events[m].at
          BY <2>1, <2>3, <3>1, <3>2
        <4> QED BY <4>2, <4>3, <4>4
      <3>3. CASE n \in 1..Len(events)
        BY <1>4, <2>3, <2>5, <3>1, <3>3 DEF EventsInv, EventsSpaced
      <3> QED BY <1>4, <3>2, <3>3
    <2>6. status = "exceeded" => \E n \in DOMAIN events' : events'[n].type = "exceeded"
      <3>1. last \in 1..last
        BY <1>4
      <3> QED BY <2>1, <2>3, <3>1
    <2>7. EventsSpaced'
      BY <1>3, <2>3, <2>5, <2>6 DEF EventsSpaced
    <2> QED BY <2>3, <2>4, <2>7 DEF EventsInv
  <1> QED BY <1>5, <1>6

\* Two budget events of one type are an hour apart and a budget read as exceeded
\* has its event, for any budgets and any number of readers.
THEOREM EventsAreSpaced == Spec => []EventsSpaced
  <1>1. Init => EventsInv
    <2>1. <<>> \in Seq([at : Nat, type : {"ok", "warning", "exceeded"}]) /\ DOMAIN <<>> = {}
      BY EmptySeq
    <2> QED BY <2>1 DEF Init, EventsInv, EventsSpaced
  <1>2. now \in Nat /\ EventsInv /\ [Next]_vars => EventsInv'
    <2> SUFFICES ASSUME now \in Nat, EventsInv, [Next]_vars PROVE EventsInv'
      OBVIOUS
    <2>1. CASE Account
      BY <2>1, RecalculateSpaces DEF Account, SetBudget, ReadBudget, keyVars
    <2>2. CASE ~Account
      <3>1. events' = events /\ budget' = budget
        BY <2>2 DEF Next, Keys, Arrive, ArriveAnonymous, ArriveWithKey, Serve, Block, Begin,
                    AttemptFails, AttemptAnswers, vars, gatewayVars
      <3>2. now' = now \/ now' = now + 1
        BY <2>2 DEF Next, Keys, KeysNext, ManageKeys, CreateKey, UpdateKey, DeleteKey,
                    Throttle, Admit, Tick, Arrive, ArriveAnonymous, ArriveWithKey, Serve,
                    Block, Begin, AttemptFails, AttemptAnswers, vars, keyVars
      <3>3. \A n \in DOMAIN events : events[n].at \in Nat
        <4> DEFINE Event == [at : Nat, type : {"ok", "warning", "exceeded"}]
        <4> SUFFICES ASSUME NEW n \in DOMAIN events PROVE events[n].at \in Nat
          OBVIOUS
        <4>1. events \in Seq(Event) /\ n \in 1..Len(events)
          BY LenProperties DEF EventsInv
        <4> HIDE DEF Event
        <4>2. events[n] \in Event
          BY <4>1, ElementOfSeq
        <4> QED BY <4>2 DEF Event
      <3>4. \A n \in DOMAIN events : events[n].at <= now'
        BY <3>2, <3>3 DEF EventsInv
      <3> QED BY <3>1, <3>4 DEF EventsInv, EventsSpaced
    <2> QED BY <2>1, <2>2
  <1>3. KeysInv => now \in Nat
    BY DEF KeysInv, KeyShape
  <1>4. EventsInv => EventsSpaced
    BY DEF EventsInv
  <1> QED BY <1>1, <1>2, <1>3, <1>4, KeysInvariant, GatewayKeepsKeys, PTL DEF Spec

-----------------------------------------------------------------------------
(* Messages: what the adapter believes of a token's end is a timeout too    *)
(* late at most, which the buffer makes up for.                             *)

SendStage == {"new", "invalid", "sent", "failed", "token", "issued", "post"}

ImTypeOK ==
    /\ clock \in Nat
    /\ token \in [RealPlatforms -> [end : Nat, believed : Nat]]
    /\ send \in [Sends -> [pc : SendStage, platform : Platforms, end : Nat, at : Nat]]

\* A token that is kept, one that is on its way, and one that is used.
BelievedOK(p) == token[p].end > 0 => token[p].believed <= token[p].end + ImTimeout
SendOK(s) ==
    /\ send[s].pc \in {"token", "issued", "post"} => send[s].platform \in RealPlatforms
    /\ send[s].pc = "issued" => send[s].end = send[s].at + TokenLife
    /\ send[s].pc = "post" => send[s].at + ImTimeout <= send[s].end

ImInv ==
    /\ ImTypeOK
    /\ \A p \in RealPlatforms : BelievedOK(p)
    /\ \A s \in Sends : SendOK(s)
    /\ TokensReachAlive

\* A send that goes on leaves the others and the tokens alone.
LEMMA SendKeeps ==
    ASSUME ImInv, NEW s \in Sends,
           NEW next \in [pc : SendStage, platform : Platforms, end : Nat, at : Nat],
           send' = [send EXCEPT ![s] = next],
           next.pc \in {"token", "issued", "post"} => next.platform \in RealPlatforms,
           next.pc = "issued" => next.end = next.at + TokenLife,
           next.pc = "post" => next.at + ImTimeout <= next.end,
           UNCHANGED clock
    PROVE  /\ send' \in [Sends -> [pc : SendStage, platform : Platforms, end : Nat, at : Nat]]
           /\ \A x \in Sends : SendOK(x)'
  <1>1. send' \in [Sends -> [pc : SendStage, platform : Platforms, end : Nat, at : Nat]]
    BY DEF ImInv, ImTypeOK
  <1>2. ASSUME NEW x \in Sends PROVE SendOK(x)'
    <2>1. CASE x = s
      BY <2>1 DEF ImInv, ImTypeOK, SendOK
    <2>2. CASE x # s
      BY <2>2 DEF ImInv, ImTypeOK, SendOK
    <2> QED BY <2>1, <2>2
  <1> QED BY <1>1, <1>2

LEMMA ImStep == ImInv /\ [ImNext]_imVars => ImInv'
  <1> SUFFICES ASSUME ImInv, [ImNext]_imVars PROVE ImInv'
    OBVIOUS
  <1> USE ImAssumption DEF SendStage
  <1>1. ASSUME NEW s \in Sends, Address(s) PROVE ImInv'
    <2>1. PICK p \in Platforms :
            send' = [send EXCEPT ![s].platform = p,
              ![s].pc = IF p = UnknownPlatform THEN "invalid" ELSE IF p = MockPlatform THEN "sent" ELSE "token"]
      BY <1>1 DEF Address
    <2> DEFINE next == [send[s] EXCEPT !.platform = p,
              !.pc = IF p = UnknownPlatform THEN "invalid" ELSE IF p = MockPlatform THEN "sent" ELSE "token"]
    <2>2. send[s] \in [pc : SendStage, platform : Platforms, end : Nat, at : Nat]
      BY DEF ImInv, ImTypeOK
    <2>3. next \in [pc : SendStage, platform : Platforms, end : Nat, at : Nat]
      BY <2>2
    <2>4. send' = [send EXCEPT ![s] = next]
      BY <2>1 DEF ImInv, ImTypeOK
    <2>5. /\ next.pc = "token" => p \in RealPlatforms
          /\ next.pc \notin {"issued", "post"} /\ next.platform = p
      BY <2>2 DEF Platforms
    <2>6. UNCHANGED <<clock, token, arrived>>
      BY <1>1 DEF Address
    <2> HIDE DEF next
    <2> QED BY <2>3, <2>4, <2>5, <2>6, SendKeeps DEF ImInv, ImTypeOK, BelievedOK, TokensReachAlive
  <1>2. ASSUME NEW s \in Sends, CachedToken(s) PROVE ImInv'
    <2> DEFINE t == token[send[s].platform]
               next == [send[s] EXCEPT !.pc = "post", !.end = t.end, !.at = clock]
    <2>1. /\ send[s] \in [pc : SendStage, platform : Platforms, end : Nat, at : Nat]
          /\ send[s].platform \in RealPlatforms /\ t \in [end : Nat, believed : Nat]
      BY <1>2 DEF CachedToken, ImInv, ImTypeOK, SendOK
    <2>2. t.believed <= t.end + ImTimeout
      BY <1>2, <2>1 DEF CachedToken, Usable, ImInv, BelievedOK
    <2>3. clock \in Nat /\ clock + Buffer < t.believed
      BY <1>2 DEF CachedToken, Usable, ImInv, ImTypeOK
    <2>4. clock + ImTimeout <= t.end
      BY <2>1, <2>2, <2>3
    <2>5. next \in [pc : SendStage, platform : Platforms, end : Nat, at : Nat]
          /\ next.pc = "post" /\ next.platform = send[s].platform /\ next.end = t.end /\ next.at = clock
      BY <2>1, <2>3
    <2>6. send' = [send EXCEPT ![s] = next] /\ UNCHANGED <<clock, token, arrived>>
      BY <1>2 DEF CachedToken, ImInv, ImTypeOK
    <2> HIDE DEF next, t
    <2> QED BY <2>1, <2>4, <2>5, <2>6, SendKeeps DEF ImInv, ImTypeOK, BelievedOK, TokensReachAlive
  <1>3. ASSUME NEW s \in Sends, IssueToken(s) PROVE ImInv'
    <2> DEFINE next == [send[s] EXCEPT !.pc = "issued", !.end = clock + TokenLife, !.at = clock]
    <2>1. /\ send[s] \in [pc : SendStage, platform : Platforms, end : Nat, at : Nat]
          /\ send[s].platform \in RealPlatforms /\ clock \in Nat
      BY <1>3 DEF IssueToken, ImInv, ImTypeOK, SendOK
    <2>4. clock + TokenLife \in Nat
      BY <2>1
    <2>2. next \in [pc : SendStage, platform : Platforms, end : Nat, at : Nat]
          /\ next.pc = "issued" /\ next.platform = send[s].platform /\ next.end = next.at + TokenLife
      BY <2>1, <2>4
    <2>3. send' = [send EXCEPT ![s] = next] /\ UNCHANGED <<clock, token, arrived>>
      BY <1>3 DEF IssueToken, ImInv, ImTypeOK
    <2> HIDE DEF next
    <2> QED BY <2>1, <2>2, <2>3, SendKeeps DEF ImInv, ImTypeOK, BelievedOK, TokensReachAlive
  <1>4. ASSUME NEW s \in Sends, StoreToken(s) PROVE ImInv'
    <2> DEFINE next == [send[s] EXCEPT !.pc = "post", !.at = clock]
               p == send[s].platform
               kept == [end |-> send[s].end, believed |-> clock + TokenLife]
    <2>1. /\ send[s] \in [pc : SendStage, platform : Platforms, end : Nat, at : Nat]
          /\ p \in RealPlatforms /\ clock \in Nat
          /\ send[s].end = send[s].at + TokenLife /\ clock <= send[s].at + ImTimeout
      BY <1>4 DEF StoreToken, ImInv, ImTypeOK, SendOK
    <2>2. clock + ImTimeout <= send[s].end /\ clock + TokenLife <= send[s].end + ImTimeout
      BY <2>1
    <2>3. next \in [pc : SendStage, platform : Platforms, end : Nat, at : Nat]
          /\ next.pc = "post" /\ next.platform = p /\ next.end = send[s].end /\ next.at = clock
      BY <2>1
    <2>4. send' = [send EXCEPT ![s] = next] /\ UNCHANGED <<clock, arrived>>
      BY <1>4 DEF StoreToken, ImInv, ImTypeOK
    <2>5. kept \in [end : Nat, believed : Nat] /\ kept.believed <= kept.end + ImTimeout
      BY <2>1, <2>2
    <2>6. token' = [token EXCEPT ![p] = kept]
      BY <1>4 DEF StoreToken
    <2>7. \A q \in RealPlatforms : BelievedOK(q)'
      <3> HIDE DEF kept, p
      <3> QED BY <2>1, <2>5, <2>6 DEF ImInv, ImTypeOK, BelievedOK
    <2> HIDE DEF next, kept, p
    <2> QED BY <2>1, <2>2, <2>3, <2>4, <2>5, <2>6, <2>7, SendKeeps DEF ImInv, ImTypeOK, TokensReachAlive
  <1>5. ASSUME NEW s \in Sends, PostMessage(s) PROVE ImInv'
    <2>1. PICK pc \in {"sent", "failed"} : send' = [send EXCEPT ![s].pc = pc]
      BY <1>5 DEF PostMessage, Becomes
    <2> DEFINE next == [send[s] EXCEPT !.pc = pc]
    <2>2. /\ send[s] \in [pc : SendStage, platform : Platforms, end : Nat, at : Nat]
          /\ clock \in Nat /\ clock <= send[s].at + ImTimeout /\ send[s].at + ImTimeout <= send[s].end
      BY <1>5 DEF PostMessage, ImInv, ImTypeOK, SendOK
    <2>3. clock <= send[s].end
      BY <2>2
    <2>4. next \in [pc : SendStage, platform : Platforms, end : Nat, at : Nat] /\ next.pc = pc
      BY <2>2
    <2>5. send' = [send EXCEPT ![s] = next] /\ UNCHANGED <<clock, token>>
      BY <1>5, <2>1 DEF PostMessage, ImInv, ImTypeOK
    <2>6. TokensReachAlive'
      BY <1>5, <2>3 DEF PostMessage, ImInv, TokensReachAlive
    <2> HIDE DEF next
    <2> QED BY <2>4, <2>5, <2>6, SendKeeps DEF ImInv, ImTypeOK, BelievedOK
  <1>6. ASSUME NEW s \in Sends, PostSigned(s) \/ SendFails(s) PROVE ImInv'
    <2>1. PICK pc \in {"sent", "failed"} : send' = [send EXCEPT ![s].pc = pc]
      BY <1>6 DEF PostSigned, SendFails, Becomes
    <2> DEFINE next == [send[s] EXCEPT !.pc = pc]
    <2>2. next \in [pc : SendStage, platform : Platforms, end : Nat, at : Nat] /\ next.pc = pc
      BY DEF ImInv, ImTypeOK
    <2>3. send' = [send EXCEPT ![s] = next] /\ UNCHANGED <<clock, token, arrived>>
      BY <1>6, <2>1 DEF PostSigned, SendFails, ImInv, ImTypeOK
    <2> HIDE DEF next
    <2> QED BY <2>2, <2>3, SendKeeps DEF ImInv, ImTypeOK, BelievedOK, TokensReachAlive
  <1>7. CASE PassTime
    BY <1>7 DEF PassTime, ImInv, ImTypeOK, BelievedOK, SendOK, TokensReachAlive
  <1>8. ASSUME NEW p \in RealPlatforms \union {MockPlatform}, SaveSession(p) PROVE ImInv'
    BY <1>8 DEF SaveSession, ImInv, ImTypeOK, BelievedOK, SendOK, TokensReachAlive
  <1>9. CASE UNCHANGED imVars
    BY <1>9 DEF imVars, ImInv, ImTypeOK, BelievedOK, SendOK, TokensReachAlive
  <1> QED BY <1>1, <1>2, <1>3, <1>4, <1>5, <1>6, <1>7, <1>8, <1>9 DEF ImNext

\* No message reaches its platform with a token that has ended there, for any
\* number of concurrent sends and platforms, as long as two timeouts fit into
\* the buffer and into the life of a token.
THEOREM MessagesCarryLiveTokens == ImSpec => []TokensReachAlive
  <1>1. ImInit => ImInv
    BY DEF ImInit, ImInv, ImTypeOK, BelievedOK, SendOK, TokensReachAlive, NoToken, SendStage, Platforms
  <1>2. ImInv => TokensReachAlive
    BY DEF ImInv
  <1> QED BY <1>1, <1>2, ImStep, PTL DEF ImSpec

-----------------------------------------------------------------------------
(* Accounts: what the client believes of a token's end is a timeout too     *)
(* late at most, which its margin makes up for; the tokens are the owner's   *)
(* until a refresh crosses a change of the owner; and rows are unique.       *)

RequestStage == {"new", "login", "refresh", "loggedIn", "refreshed", "over"}
TokenCache == [user : Names \union {Nobody}, of : Names \union {Nobody}, access : Nat, refresh : Nat, expires : Nat]
ClientRequest == [pc : RequestStage, user : Names \union {Nobody}, access : Nat, refresh : Nat, answered : Nat]

ClientTypeOK ==
    /\ tick \in Nat
    /\ cache \in TokenCache /\ cacheFile \in TokenCache
    /\ request \in [Calls -> ClientRequest]

CacheOK(c) == c.access > 0 => c.expires <= c.access + Timeout
RequestOK(c) ==
    request[c].pc \in {"loggedIn", "refreshed"} => request[c].access = request[c].answered + AccessLife

ClientInv == ClientTypeOK /\ CacheOK(cache) /\ CacheOK(cacheFile) /\ \A c \in Calls : RequestOK(c)

\* While nothing has gone astray, a refresh under way is the owner's too.
RefreshOf(c, u) == request[c].pc \in {"refresh", "refreshed"} => request[c].user = u
OwnersInv ==
    /\ DOMAIN request = Calls
    /\ astray = {} => /\ cache.user = owner /\ cache.of = owner /\ cacheFile = cache
                      /\ \A c \in Calls : RefreshOf(c, owner)

SignupEnd == {"insert", "nameTaken", "mailTaken", "500", "201"}

RowsOK ==
    /\ \A row \in users : row \in [name : Names, mail : Mails, active : BOOLEAN]
    /\ DOMAIN signup = Registrations
    /\ \A r \in Registrations : signup[r].pc # "new" =>
          signup[r] \in [name : Names, mail : Mails, pc : SignupEnd]

AccountsInv == ClientInv /\ OwnersInv /\ RowsOK /\ SignupsSound

LEMMA AccountsInvEnough == AccountsInv => AccountsSound
  <1> SUFFICES ASSUME AccountsInv PROVE HandedTokenIsLive
    BY DEF AccountsInv, AccountsSound, OwnersInv, TokensAreOwners
  <1> SUFFICES ASSUME IsValid(cache) PROVE tick <= cache.access
    BY DEF HandedTokenIsLive
  <1>1. cache.access > 0 /\ tick + Margin < cache.expires
    BY DEF IsValid
  <1>2. cache.expires <= cache.access + Timeout
    BY <1>1 DEF AccountsInv, ClientInv, CacheOK
  <1>3. /\ tick \in Nat /\ cache.access \in Nat /\ cache.expires \in Nat
        /\ Margin \in Nat /\ Timeout \in Nat /\ Timeout <= Margin
    BY AccountsAssumption DEF AccountsInv, ClientInv, ClientTypeOK, TokenCache
  <1> QED BY <1>1, <1>2, <1>3

\* A request of the client that goes on leaves the others alone.
LEMMA RequestKeeps ==
    ASSUME ClientInv, NEW c \in Calls, NEW next \in ClientRequest,
           request' = [request EXCEPT ![c] = next],
           next.pc \in {"loggedIn", "refreshed"} => next.access = next.answered + AccessLife
    PROVE  request' \in [Calls -> ClientRequest] /\ \A d \in Calls : RequestOK(d)'
  <1>1. request' \in [Calls -> ClientRequest]
    BY DEF ClientInv, ClientTypeOK
  <1>2. ASSUME NEW d \in Calls PROVE RequestOK(d)'
    <2>1. CASE d = c
      BY <2>1 DEF ClientInv, ClientTypeOK, RequestOK
    <2>2. CASE d # c
      BY <2>2 DEF ClientInv, ClientTypeOK, RequestOK
    <2> QED BY <2>1, <2>2
  <1> QED BY <1>1, <1>2

\* What a request that is over is: it never was.
LEMMA OverIsRequest ==
    [NewRequest EXCEPT !.pc = "over"] \in ClientRequest /\ [NewRequest EXCEPT !.pc = "over"].pc = "over"
    /\ NewRequest \in ClientRequest /\ NewRequest.pc = "new"
  BY DEF NewRequest, ClientRequest, RequestStage

\* The client's steps keep what it believes of its tokens.
LEMMA ClientStep == ClientInv /\ [AccountsNext]_accountVars => ClientInv'
  <1> SUFFICES ASSUME ClientInv, [AccountsNext]_accountVars PROVE ClientInv'
    OBVIOUS
  <1> USE DEF CacheOK
  <1>0. {AccessLife, RefreshLife, Margin, Timeout} \subseteq Nat
    BY AccountsAssumption
  <1>1. CASE UNCHANGED <<cache, cacheFile, request>> /\ tick' \in {tick, tick + 1}
    BY <1>1 DEF ClientInv, ClientTypeOK, RequestOK
  <1>2. ASSUME NEW c \in Calls, NEW u \in Names, CallLogin(c, u) PROVE ClientInv'
    <2> DEFINE next == [request[c] EXCEPT !.pc = "login", !.user = u]
    <2>1. next \in ClientRequest /\ next.pc = "login"
      BY DEF ClientInv, ClientTypeOK, ClientRequest, RequestStage
    <2>2. request' = [request EXCEPT ![c] = next] /\ UNCHANGED <<tick, cache, cacheFile>>
      BY <1>2 DEF CallLogin, ClientInv, ClientTypeOK
    <2> HIDE DEF next
    <2> QED BY <2>1, <2>2, RequestKeeps DEF ClientInv, ClientTypeOK
  <1>3. ASSUME NEW c \in Calls, CallRefresh(c) PROVE ClientInv'
    <2> DEFINE next == [request[c] EXCEPT !.pc = "refresh", !.user = cache.of, !.refresh = cache.refresh]
    <2>1. next \in ClientRequest /\ next.pc = "refresh"
      BY DEF ClientInv, ClientTypeOK, ClientRequest, RequestStage, TokenCache
    <2>2. request' = [request EXCEPT ![c] = next] /\ UNCHANGED <<tick, cache, cacheFile>>
      BY <1>3 DEF CallRefresh, ClientInv, ClientTypeOK
    <2> HIDE DEF next
    <2> QED BY <2>1, <2>2, RequestKeeps DEF ClientInv, ClientTypeOK
  <1>4. ASSUME NEW c \in Calls, AnswerClient(c) PROVE ClientInv'
    <2> DEFINE next ==
            [request[c] EXCEPT !.pc = IF @ = "login" THEN "loggedIn" ELSE "refreshed",
               !.access = tick + AccessLife, !.answered = tick,
               !.refresh = IF request[c].pc = "login" THEN tick + RefreshLife ELSE @]
    <2>1. /\ request[c] \in ClientRequest /\ tick \in Nat
          /\ tick + AccessLife \in Nat /\ tick + RefreshLife \in Nat
      BY <1>0 DEF ClientInv, ClientTypeOK
    <2>2. next \in ClientRequest /\ next.access = next.answered + AccessLife
      BY <2>1 DEF ClientRequest, RequestStage
    <2>3. request' = [request EXCEPT ![c] = next] /\ UNCHANGED <<tick, cache, cacheFile>>
      BY <1>4 DEF AnswerClient, ClientInv, ClientTypeOK
    <2> HIDE DEF next
    <2> QED BY <2>2, <2>3, RequestKeeps DEF ClientInv, ClientTypeOK
  <1>5. ASSUME NEW c \in Calls, Refused(c) PROVE ClientInv'
    BY <1>5, OverIsRequest, RequestKeeps DEF Refused, ClientInv, ClientTypeOK
  <1>6. ASSUME NEW c \in Calls, ReceiveLogin(c) \/ ReceiveRefresh(c) PROVE ClientInv'
    <2>1. PICK name \in Names \union {Nobody} :
            Received(c, Tokens(c, name)) /\ cacheFile' \in {Tokens(c, name), cacheFile}
      <3>1. CASE ReceiveLogin(c)
        BY <3>1 DEF ReceiveLogin, Saved, ClientInv, ClientTypeOK, ClientRequest
      <3>2. CASE ReceiveRefresh(c)
        BY <3>2 DEF ReceiveRefresh, Saved, ClientInv, ClientTypeOK, TokenCache
      <3> QED BY <1>6, <3>1, <3>2
    <2>2. request[c].pc \in {"loggedIn", "refreshed"}
      BY <1>6 DEF ReceiveLogin, ReceiveRefresh
    <2>3. /\ request[c] \in ClientRequest /\ tick \in Nat /\ tick + AccessLife \in Nat
          /\ request[c].access = request[c].answered + AccessLife /\ tick <= request[c].answered + Timeout
      BY <1>0, <2>1, <2>2 DEF Received, ClientInv, ClientTypeOK, RequestOK
    <2>4. tick + AccessLife <= request[c].access + Timeout
      BY <1>0, <2>3 DEF ClientRequest
    <2>5. Tokens(c, name) \in TokenCache /\ CacheOK(Tokens(c, name))
      BY <2>3, <2>4 DEF ClientRequest, TokenCache, Tokens
    <2>6. /\ cache' = Tokens(c, name) /\ UNCHANGED tick
          /\ request' = [request EXCEPT ![c] = [NewRequest EXCEPT !.pc = "over"]]
      BY <2>1 DEF Received
    <2>7. request' \in [Calls -> ClientRequest] /\ \A d \in Calls : RequestOK(d)'
      BY <2>6, OverIsRequest, RequestKeeps
    <2> QED BY <2>1, <2>5, <2>6, <2>7 DEF ClientInv, ClientTypeOK
  <1>7. CASE Logout
    <2>1. NoCache \in TokenCache /\ CacheOK(NoCache)
      BY DEF NoCache, TokenCache
    <2> QED BY <1>7, <2>1 DEF Logout, Saved, ClientInv, ClientTypeOK, RequestOK
  <1>8. CASE RestartClient
    <2>1. /\ request' \in [Calls -> ClientRequest]
          /\ \A d \in Calls : request'[d].pc \in {"new", "over"}
      BY <1>8, OverIsRequest DEF RestartClient
    <2> QED BY <1>8, <2>1 DEF RestartClient, ClientInv, ClientTypeOK, RequestOK
  <1>9. CASE (\E r \in Registrations : LookUp(r) \/ InsertUser(r))
             \/ (\E u \in Names : Disable(u) \/ CreateApiKey(u))
             \/ (\E k \in userKeys : RevokeKey(k))
             \/ (\E v \in Visits : Present(v) \/ FetchUser(v))
    BY <1>1, <1>9 DEF LookUp, InsertUser, Disable, CreateApiKey, RevokeKey, Present, FetchUser, client
  <1>10. CASE TickAccounts
    BY <1>1, <1>10 DEF TickAccounts, client
  <1>11. CASE UNCHANGED accountVars
    BY <1>1, <1>11 DEF accountVars
  <1> QED BY <1>2, <1>3, <1>4, <1>5, <1>6, <1>7, <1>8, <1>9, <1>10, <1>11 DEF AccountsNext

\* A request of the client that goes on, the owner's tokens with it.
LEMMA OwnersKeep ==
    ASSUME OwnersInv, NEW c \in Calls, NEW next, request' = [request EXCEPT ![c] = next],
           UNCHANGED <<cache, cacheFile, owner, astray>>,
           astray = {} => (next.pc \in {"refresh", "refreshed"} => next.user = owner)
    PROVE  OwnersInv'
  <1>1. DOMAIN request' = Calls
    BY DEF OwnersInv
  <1>2. ASSUME astray = {}, NEW d \in Calls PROVE RefreshOf(d, owner)'
    BY <1>2 DEF OwnersInv, RefreshOf
  <1> QED BY <1>1, <1>2 DEF OwnersInv

\* A request that is over is nobody's, and the others are as they were.
LEMMA OverKeeps ==
    ASSUME OwnersInv, NEW c \in Calls, NEW u,
           request' = [request EXCEPT ![c] = [NewRequest EXCEPT !.pc = "over"]],
           \A d \in Calls : RefreshOf(d, u)
    PROVE  DOMAIN request' = Calls /\ \A d \in Calls : request'[d].pc \in {"refresh", "refreshed"} => request'[d].user = u
  BY OverIsRequest DEF OwnersInv, RefreshOf

\* The tokens stay the owner's unless a refresh crosses a change of the owner.
LEMMA OwnersStep == ClientTypeOK /\ OwnersInv /\ [AccountsNext]_accountVars => OwnersInv'
  <1> SUFFICES ASSUME ClientTypeOK, OwnersInv, [AccountsNext]_accountVars PROVE OwnersInv'
    OBVIOUS
  <1>0. \A c \in Calls : {"pc", "user", "refresh"} \subseteq DOMAIN request[c]
    BY DEF ClientTypeOK, ClientRequest
  <1>1. CASE UNCHANGED client
    BY <1>1 DEF client, OwnersInv, RefreshOf
  <1>2. ASSUME NEW c \in Calls, NEW u \in Names, CallLogin(c, u) PROVE OwnersInv'
    <2> DEFINE next == [request[c] EXCEPT !.pc = "login", !.user = u]
    <2>1. request' = [request EXCEPT ![c] = next] /\ UNCHANGED <<cache, cacheFile, owner, astray>>
      BY <1>2 DEF CallLogin, OwnersInv
    <2>2. astray = {} => (next.pc \in {"refresh", "refreshed"} => next.user = owner)
      BY <1>0
    <2> HIDE DEF next
    <2> QED BY <2>1, <2>2, OwnersKeep
  <1>3. ASSUME NEW c \in Calls, CallRefresh(c) PROVE OwnersInv'
    <2> DEFINE next == [request[c] EXCEPT !.pc = "refresh", !.user = cache.of, !.refresh = cache.refresh]
    <2>1. request' = [request EXCEPT ![c] = next] /\ UNCHANGED <<cache, cacheFile, owner, astray>>
      BY <1>3 DEF CallRefresh, OwnersInv
    <2>2. astray = {} => (next.pc \in {"refresh", "refreshed"} => next.user = owner)
      BY <1>0 DEF OwnersInv
    <2> HIDE DEF next
    <2> QED BY <2>1, <2>2, OwnersKeep
  <1>4. ASSUME NEW c \in Calls, AnswerClient(c) PROVE OwnersInv'
    <2> DEFINE next ==
            [request[c] EXCEPT !.pc = IF @ = "login" THEN "loggedIn" ELSE "refreshed",
               !.access = tick + AccessLife, !.answered = tick,
               !.refresh = IF request[c].pc = "login" THEN tick + RefreshLife ELSE @]
    <2>1. request' = [request EXCEPT ![c] = next] /\ UNCHANGED <<cache, cacheFile, owner, astray>>
      BY <1>4 DEF AnswerClient, OwnersInv
    <2>2. astray = {} => (next.pc \in {"refresh", "refreshed"} => next.user = owner)
      BY <1>4 DEF AnswerClient, OwnersInv, RefreshOf
    <2> HIDE DEF next
    <2> QED BY <2>1, <2>2, OwnersKeep
  <1>5. ASSUME NEW c \in Calls, Refused(c) PROVE OwnersInv'
    BY <1>5, OwnersKeep, OverIsRequest DEF Refused
  <1>6. ASSUME NEW c \in Calls, ReceiveLogin(c) PROVE OwnersInv'
    <2> SUFFICES ASSUME astray' = {} PROVE OwnersInv'
      BY <1>6 DEF ReceiveLogin, Received, OwnersInv
    <2>1. Crossing = {} /\ cacheFile' = Tokens(c, request[c].user)
      BY <1>6 DEF ReceiveLogin, Saved
    <2>2. \A d \in Calls : request[d].pc \notin {"refresh", "refreshed"}
      BY <2>1 DEF Crossing
    <2>3. \A d \in Calls : RefreshOf(d, request[c].user)
      BY <2>2 DEF RefreshOf
    <2>4. /\ cache' = Tokens(c, request[c].user) /\ owner' = request[c].user
          /\ request' = [request EXCEPT ![c] = [NewRequest EXCEPT !.pc = "over"]]
      BY <1>6 DEF ReceiveLogin, Received
    <2>5. cache'.user = owner' /\ cache'.of = owner'
      BY <2>4 DEF Tokens
    <2> QED BY <2>1, <2>3, <2>4, <2>5, OverKeeps DEF OwnersInv, RefreshOf
  <1>7. ASSUME NEW c \in Calls, ReceiveRefresh(c) PROVE OwnersInv'
    <2> SUFFICES ASSUME astray' = {} PROVE OwnersInv'
      BY <1>7 DEF ReceiveRefresh, Received, OwnersInv
    <2>1. astray = {} /\ cacheFile' = Tokens(c, cache.user)
      BY <1>7 DEF ReceiveRefresh, Saved
    <2>2. cache.user = owner /\ request[c].user = owner /\ \A d \in Calls : RefreshOf(d, owner)
      BY <1>7, <2>1 DEF OwnersInv, RefreshOf, ReceiveRefresh
    <2>3. /\ cache' = Tokens(c, cache.user) /\ owner' = owner
          /\ request' = [request EXCEPT ![c] = [NewRequest EXCEPT !.pc = "over"]]
      BY <1>7 DEF ReceiveRefresh, Received
    <2>4. cache'.user = owner' /\ cache'.of = owner'
      BY <2>2, <2>3 DEF Tokens
    <2> QED BY <2>1, <2>2, <2>3, <2>4, OverKeeps DEF OwnersInv, RefreshOf
  <1>8. CASE Logout
    <2> SUFFICES ASSUME astray' = {} PROVE OwnersInv'
      BY <1>8 DEF Logout, OwnersInv
    <2>1. Crossing = {} /\ cacheFile' = NoCache /\ cache' = NoCache /\ owner' = Nobody /\ request' = request
      BY <1>8 DEF Logout, Saved
    <2>2. \A d \in Calls : request[d].pc \notin {"refresh", "refreshed"}
      BY <2>1 DEF Crossing
    <2> QED BY <2>1, <2>2 DEF OwnersInv, RefreshOf, NoCache
  <1>9. CASE RestartClient
    <2>1. \A c \in Calls : request'[c].pc \in {"new", "over"}
      BY <1>9, OverIsRequest DEF RestartClient
    <2>2. DOMAIN request' = Calls /\ cache' = cacheFile /\ UNCHANGED <<cacheFile, owner, astray>>
      BY <1>9 DEF RestartClient
    <2> QED BY <2>1, <2>2 DEF OwnersInv, RefreshOf
  <1>10. CASE \/ TickAccounts
              \/ (\E r \in Registrations : LookUp(r) \/ InsertUser(r))
              \/ (\E u \in Names : Disable(u) \/ CreateApiKey(u))
              \/ (\E k \in userKeys : RevokeKey(k))
              \/ (\E v \in Visits : Present(v) \/ FetchUser(v))
    BY <1>1, <1>10 DEF TickAccounts, LookUp, InsertUser, Disable, CreateApiKey, RevokeKey, Present, FetchUser
  <1>11. CASE UNCHANGED accountVars
    BY <1>1, <1>11 DEF accountVars, client
  <1> QED BY <1>2, <1>3, <1>4, <1>5, <1>6, <1>7, <1>8, <1>9, <1>10, <1>11 DEF AccountsNext

\* Registrations and the disabling of accounts keep rows and answers together.
LEMMA RowsStep == RowsOK /\ SignupsSound /\ [AccountsNext]_accountVars => RowsOK' /\ SignupsSound'
  <1> SUFFICES ASSUME RowsOK, SignupsSound, [AccountsNext]_accountVars PROVE RowsOK' /\ SignupsSound'
    OBVIOUS
  <1>1. CASE UNCHANGED <<users, signup>>
    BY <1>1 DEF RowsOK, SignupsSound
  <1>2. ASSUME NEW r \in Registrations, LookUp(r) PROVE RowsOK' /\ SignupsSound'
    <2>1. PICK n \in Names, m \in Mails, pc \in SignupEnd \ {"201"} :
            /\ signup' = [signup EXCEPT ![r] = [name |-> n, mail |-> m, pc |-> pc]]
            /\ pc = "nameTaken" => \E row \in users : row.name = n
            /\ pc = "mailTaken" => \E row \in users : row.mail = m
      <3> DEFINE Found(n, m) == {row \in users : row.name = n \/ row.mail = m}
                 End(n, m) == IF Found(n, m) = {} THEN "insert"
                              ELSE IF Cardinality(Found(n, m)) > 1 THEN "500"
                              ELSE IF \E row \in Found(n, m) : row.name = n THEN "nameTaken"
                              ELSE "mailTaken"
      <3>1. PICK n \in Names, m \in Mails :
              signup' = [signup EXCEPT ![r] = [name |-> n, mail |-> m, pc |-> End(n, m)]]
        BY <1>2 DEF LookUp
      <3>2. /\ End(n, m) \in SignupEnd \ {"201"}
            /\ End(n, m) = "nameTaken" => \E row \in users : row.name = n
            /\ End(n, m) = "mailTaken" => \E row \in users : row.mail = m
        BY DEF SignupEnd
      <3> HIDE DEF End
      <3> QED BY <3>1, <3>2
    <2>2. UNCHANGED users
      BY <1>2 DEF LookUp
    <2>3. RowsOK'
      BY <2>1, <2>2 DEF RowsOK
    <2>4. SignupsSound'
      BY <2>1, <2>2 DEF RowsOK, SignupsSound
    <2> QED BY <2>3, <2>4
  <1>3. ASSUME NEW r \in Registrations, InsertUser(r) PROVE RowsOK' /\ SignupsSound'
    <2>1. /\ signup[r].pc = "insert" /\ signup[r] \in [name : Names, mail : Mails, pc : SignupEnd]
          /\ DOMAIN signup = Registrations
      BY <1>3 DEF InsertUser, RowsOK
    <2>2. ASSUME NEW answer \in {"201", "500"}, signup' = [signup EXCEPT ![r].pc = answer] PROVE
            /\ signup'[r].name = signup[r].name /\ signup'[r].mail = signup[r].mail /\ signup'[r].pc = answer
            /\ signup'[r] \in [name : Names, mail : Mails, pc : SignupEnd]
            /\ \A s \in Registrations \ {r} : signup'[s] = signup[s]
            /\ DOMAIN signup' = Registrations
      BY <2>1, <2>2 DEF SignupEnd
    <2>3. CASE users' = users /\ signup' = [signup EXCEPT ![r].pc = "500"]
      BY <2>1, <2>2, <2>3 DEF RowsOK, SignupsSound
    <2>4. ASSUME UniqueRow(signup[r].name, signup[r].mail), NEW answer \in {"201", "500"},
                 users' = users \union
                    {[name |-> signup[r].name, mail |-> signup[r].mail, active |-> TRUE]},
                 signup' = [signup EXCEPT ![r].pc = answer]
          PROVE  RowsOK' /\ SignupsSound'
      <3> DEFINE row == [name |-> signup[r].name, mail |-> signup[r].mail, active |-> TRUE]
      <3>1. /\ users' = users \union {row}
            /\ row \in [name : Names, mail : Mails, active : BOOLEAN]
            /\ row.name = signup[r].name /\ row.mail = signup[r].mail
            /\ \A other \in users : other.name # row.name /\ other.mail # row.mail
        BY <2>1, <2>4 DEF UniqueRow
      <3> HIDE DEF row
      <3>2. /\ signup'[r].name = row.name /\ signup'[r].mail = row.mail /\ signup'[r].pc \in {"201", "500"}
            /\ signup'[r] \in [name : Names, mail : Mails, pc : SignupEnd]
            /\ \A s \in Registrations \ {r} : signup'[s] = signup[s]
            /\ DOMAIN signup' = Registrations
        BY <2>2, <2>4, <3>1
      <3>3. RowsOK'
        BY <3>1, <3>2 DEF RowsOK
      <3>4. \A s \in Registrations : signup[s].pc = "201" =>
               signup[s].name # row.name /\ signup[s].mail # row.mail
        BY <3>1 DEF SignupsSound
      <3>5. SignupsSound'
        BY <3>1, <3>2, <3>4 DEF SignupsSound
      <3> QED BY <3>3, <3>5
    <2> QED BY <1>3, <2>3, <2>4 DEF InsertUser
  <1>4. ASSUME NEW u \in Names, Disable(u) PROVE RowsOK' /\ SignupsSound'
    <2> DEFINE After(row) == IF row.name = u THEN [row EXCEPT !.active = FALSE] ELSE row
    <2>1. \A row \in users : /\ After(row) \in [name : Names, mail : Mails, active : BOOLEAN]
                              /\ After(row).name = row.name /\ After(row).mail = row.mail
      BY DEF RowsOK
    <2>2. users' = {After(row) : row \in users} /\ UNCHANGED signup
      BY <1>4 DEF Disable
    <2> HIDE DEF After
    <2> QED BY <2>1, <2>2 DEF RowsOK, SignupsSound
  <1>5. CASE UNCHANGED accountVars
    BY <1>1, <1>5 DEF accountVars
  <1>6. CASE TickAccounts \/ Logout \/ RestartClient
             \/ (\E u \in Names : CreateApiKey(u)) \/ (\E k \in userKeys : RevokeKey(k))
             \/ (\E v \in Visits : Present(v) \/ FetchUser(v))
             \/ (\E c \in Calls : CallRefresh(c) \/ AnswerClient(c) \/ Refused(c)
                                   \/ ReceiveLogin(c) \/ ReceiveRefresh(c)
                                   \/ \E u \in Names : CallLogin(c, u))
    BY <1>1, <1>6 DEF TickAccounts, Logout, RestartClient, CreateApiKey, RevokeKey, Present, FetchUser,
                      CallRefresh, AnswerClient, Refused, ReceiveLogin, ReceiveRefresh, Received, CallLogin, server
  <1> QED BY <1>2, <1>3, <1>4, <1>5, <1>6 DEF AccountsNext

\* A token the client hands out is alive at the server and its user's unless a
\* refresh crossed a logout or a login or the file failed, and registrations are
\* answered by what the table holds, for any number of names, registrations and requests, as long as the timeout
\* is within the margin.
THEOREM AccountsAreSound == AccountsSpec => []AccountsSound
  <1>1. AccountsInit => AccountsInv
    <2> SUFFICES ASSUME AccountsInit PROVE AccountsInv
      OBVIOUS
    <2>1. NoCache \in TokenCache /\ CacheOK(NoCache)
      BY DEF NoCache, TokenCache, CacheOK
    <2>2. ClientInv
      BY <2>1, OverIsRequest DEF AccountsInit, ClientInv, ClientTypeOK, RequestOK
    <2>3. RowsOK /\ SignupsSound
      BY DEF AccountsInit, RowsOK, SignupsSound
    <2>4. OwnersInv
      BY OverIsRequest DEF AccountsInit, OwnersInv, RefreshOf, NoCache
    <2> QED BY <2>2, <2>3, <2>4 DEF AccountsInv
  <1>2. AccountsInv /\ [AccountsNext]_accountVars => AccountsInv'
    BY ClientStep, OwnersStep, RowsStep DEF AccountsInv, ClientInv
  <1> QED BY <1>1, <1>2, AccountsInvEnough, PTL DEF AccountsSpec

-----------------------------------------------------------------------------
(* Alerts                                                                   *)

Alert == [rule : RuleIds, at : Nat]

\* Alerts stand in the order they were given, none in the future, and two of a
\* rule are at least the suppression time apart.
Spaced(list, t) ==
    \A m, n \in DOMAIN list :
        /\ list[n].at <= t
        /\ m < n => /\ list[m].at <= list[n].at
                    /\ list[m].rule = list[n].rule => list[n].at - list[m].at >= Suppress

AlertInv ==
    /\ second \in Nat /\ DOMAIN rules \subseteq RuleIds
    /\ alerts \in Seq(Alert) /\ Spaced(alerts, second)

\* The alerts and those an evaluation adds.
Extended(order) == alerts \o [n \in DOMAIN order |-> [rule |-> order[n], at |-> second]]

Young(list, r) == {n \in DOMAIN list : list[n].rule = r /\ second - list[n].at < Suppress}

\* How many places Newest gives up.
Dropped(s, n) == IF Len(s) <= n THEN 0 ELSE Len(s) - n

\* What Newest keeps: the last places, moved to the front.
LEMMA NewestKeeps ==
  ASSUME NEW s \in Seq(Alert), NEW n \in Nat
  PROVE  /\ Newest(s, n) \in Seq(Alert) /\ Dropped(s, n) \in 0..Len(s)
         /\ Len(Newest(s, n)) = Len(s) - Dropped(s, n)
         /\ \A k \in 1..Len(s) - Dropped(s, n) : Newest(s, n)[k] = s[k + Dropped(s, n)]
  <1>1. CASE Len(s) <= n
    BY <1>1 DEF Newest, Dropped
  <1>2. CASE Len(s) > n
    <2>1. Newest(s, n) = SubSeq(s, Len(s) - n + 1, Len(s)) /\ Dropped(s, n) = Len(s) - n
      BY <1>2 DEF Newest, Dropped
    <2>2. /\ SubSeq(s, Len(s) - n + 1, Len(s)) \in Seq(Alert)
          /\ Len(SubSeq(s, Len(s) - n + 1, Len(s))) = n
          /\ \A k \in 1..n : SubSeq(s, Len(s) - n + 1, Len(s))[k] = s[k + (Len(s) - n)]
      BY <1>2, SubSeqProperties
    <2>3. Len(s) - n \in 0..Len(s) /\ Len(s) - (Len(s) - n) = n
      BY <1>2
    <2> QED BY <2>1, <2>2, <2>3
  <1> QED BY <1>1, <1>2

\* A list that is cut stays spaced.
LEMMA NewestSpaced ==
  ASSUME NEW list \in Seq(Alert), NEW t \in Nat, Spaced(list, t)
  PROVE  Newest(list, MaxAlerts) \in Seq(Alert) /\ Spaced(Newest(list, MaxAlerts), t)
  <1> DEFINE cut == Newest(list, MaxAlerts)
             d == Dropped(list, MaxAlerts)
  <1>1. MaxAlerts \in Nat
    BY AlertingAssumption
  <1>2. /\ cut \in Seq(Alert) /\ d \in 0..Len(list) /\ Len(cut) = Len(list) - d
        /\ \A k \in 1..Len(list) - d : cut[k] = list[k + d]
    BY <1>1, NewestKeeps
  <1> HIDE DEF cut, d
  <1>3. \A k \in DOMAIN cut : k \in Nat /\ k + d \in DOMAIN list /\ cut[k] = list[k + d]
    BY <1>2
  <1>4. Spaced(cut, t)
    BY <1>2, <1>3 DEF Spaced
  <1> QED BY <1>2, <1>4 DEF cut

\* Young alerts are of different rules, so there are no more of them from any
\* place on than rules: none is pushed out.
LEMMA YoungStays ==
  ASSUME NEW list \in Seq(Alert), second \in Nat, Spaced(list, second), NEW r, Young(list, r) # {}
  PROVE  Young(Newest(list, MaxAlerts), r) # {}
  <1>1. MaxAlerts \in Nat /\ Suppress \in Nat /\ IsFiniteSet(RuleIds) /\ Cardinality(RuleIds) <= MaxAlerts
    BY AlertingAssumption
  <1> DEFINE cut == Newest(list, MaxAlerts)
             d == Dropped(list, MaxAlerts)
  <1>2. /\ cut \in Seq(Alert) /\ d \in 0..Len(list) /\ Len(cut) = Len(list) - d
        /\ \A k \in 1..Len(list) - d : cut[k] = list[k + d]
    BY <1>1, NewestKeeps
  <1>d. d = IF Len(list) <= MaxAlerts THEN 0 ELSE Len(list) - MaxAlerts
    BY DEF Dropped
  <1> HIDE DEF cut, d
  <1>3. PICK p \in DOMAIN list : list[p].rule = r /\ second - list[p].at < Suppress
    BY DEF Young
  <1>4. p \in 1..Len(list) /\ \A n \in 1..Len(list) : list[n] \in Alert
    BY <1>3
  <1>5. Len(list) - p + 1 <= Cardinality(RuleIds)
    <2> DEFINE f == [n \in p..Len(list) |-> list[n].rule]
    <2>1. f \in [p..Len(list) -> RuleIds]
      BY <1>4 DEF Alert
    <2>2. ASSUME NEW m \in p..Len(list), NEW n \in p..Len(list), f[m] = f[n] PROVE m = n
      <3>1. m \in 1..Len(list) /\ n \in 1..Len(list) /\ list[m].rule = list[n].rule
        BY <1>4, <2>2
      <3>2. list[p].at <= list[m].at /\ list[p].at <= list[n].at
        BY <1>4, <3>1 DEF Spaced, Alert
      <3>3. list[m].at <= second /\ list[n].at <= second
        BY <3>1 DEF Spaced
      <3>4. /\ m < n => list[n].at - list[m].at >= Suppress
            /\ n < m => list[m].at - list[n].at >= Suppress
        BY <3>1 DEF Spaced
      <3>5. list[m].at \in Nat /\ list[n].at \in Nat /\ list[p].at \in Nat
        BY <3>1, <1>4 DEF Alert
      <3> HIDE DEF f
      <3>6. ~(m < n)
        BY <1>1, <1>3, <3>2, <3>3, <3>4, <3>5
      <3>7. ~(n < m)
        BY <1>1, <1>3, <3>2, <3>3, <3>4, <3>5
      <3> QED BY <3>1, <3>6, <3>7
    <2> HIDE DEF f
    <2>3. f \in Injection(p..Len(list), RuleIds)
      BY <2>1, <2>2 DEF Injection, IsInjective
    <2>4. Cardinality(p..Len(list)) <= Cardinality(RuleIds)
      BY <1>1, <2>3, FS_Injection
    <2>5. Cardinality(p..Len(list)) = Len(list) - p + 1
      BY <1>4, FS_Interval
    <2> QED BY <2>4, <2>5
  <1>6. Cardinality(RuleIds) \in Nat
    BY <1>1, FS_CardinalityType
  <1>7. p - d \in 1..Len(list) - d /\ (p - d) + d = p
    <2>1. Len(list) \in Nat /\ p \in Nat /\ p <= Len(list) /\ d \in Nat /\ MaxAlerts \in Nat
      BY <1>1, <1>2, <1>4
    <2>2. Len(list) - p + 1 <= MaxAlerts
      BY <1>1, <1>5, <1>6, <2>1
    <2>3. d < p
      BY <1>d, <1>4, <2>1, <2>2
    <2> QED BY <2>1, <2>3
  <1>8. p - d \in DOMAIN cut /\ cut[p - d] = list[p]
    BY <1>2, <1>7
  <1>9. Young(cut, r) # {}
    BY <1>3, <1>8 DEF Young
  <1> QED BY <1>9 DEF cut

\* What an evaluation adds keeps the list spaced, and gives every rule that is
\* triggered a young alert.
LEMMA AlertsAdded ==
  ASSUME AlertInv,
         NEW order \in SetToSeqs({r \in Triggered : ~Suppressed(r)})
  PROVE  /\ Extended(order) \in Seq(Alert) /\ Spaced(Extended(order), second)
         /\ \A r \in Triggered : Young(Extended(order), r) # {}
  <1> DEFINE S == {r \in Triggered : ~Suppressed(r)}
             all == Extended(order)
             new == [n \in DOMAIN order |-> [rule |-> order[n], at |-> second]]
  <1>1. S \subseteq RuleIds /\ IsFiniteSet(RuleIds) /\ Suppress \in Nat \ {0}
    BY AlertingAssumption DEF AlertInv, Triggered
  <1>2. IsFiniteSet(S) /\ Cardinality(S) \in Nat
    BY <1>1, FS_Subset, FS_CardinalityType
  <1>3. /\ order \in [1..Cardinality(S) -> S]
        /\ \A i, j \in 1..Cardinality(S) : order[i] = order[j] => i = j
    BY DEF SetToSeqs
  <1>s. \A r \in S : r \in Triggered /\ ~Suppressed(r)
    OBVIOUS
  <1>t. \A r \in Triggered : ~Suppressed(r) => r \in S
    OBVIOUS
  <1> HIDE DEF S
  <1>4. \A r \in S : \E n \in 1..Cardinality(S) : order[n] = r
    <2>1. order \in Injection(1..Cardinality(S), S)
      BY <1>3 DEF Injection, IsInjective
    <2>2. Cardinality(1..Cardinality(S)) = Cardinality(S)
      BY <1>2, FS_Interval
    <2>3. order \in Surjection(1..Cardinality(S), S)
      BY <1>2, <2>1, <2>2, FS_Injection
    <2> QED BY <2>3 DEF Surjection
  <1>5. /\ new \in Seq(Alert) /\ Len(new) = Cardinality(S)
        /\ \A n \in 1..Len(new) : new[n].rule = order[n] /\ new[n].at = second
    <2>1. second \in Nat
      BY DEF AlertInv
    <2>2. \A n \in 1..Cardinality(S) : order[n] \in RuleIds
      BY <1>1, <1>3
    <2>3. DOMAIN order = 1..Cardinality(S)
      BY <1>3
    <2> HIDE DEF S
    <2>4. \A n \in 1..Cardinality(S) : [rule |-> order[n], at |-> second] \in Alert
      BY <2>1, <2>2 DEF Alert
    <2>5. new = [n \in 1..Cardinality(S) |-> [rule |-> order[n], at |-> second]]
      BY <2>3
    <2>6. /\ new \in Seq(Alert) /\ Len(new) = Cardinality(S)
          /\ \A n \in 1..Cardinality(S) : new[n] = [rule |-> order[n], at |-> second]
      BY <1>2, <2>4, <2>5
    <2> HIDE DEF new
    <2> QED BY <2>6
  <1>6. all = alerts \o new /\ alerts \in Seq(Alert) /\ second \in Nat /\ Spaced(alerts, second)
    BY DEF AlertInv, Extended
  <1> HIDE DEF new, all
  <1>7. /\ all \in Seq(Alert) /\ Len(all) = Len(alerts) + Len(new)
        /\ \A n \in 1..Len(alerts) : all[n] = alerts[n]
        /\ \A n \in 1..Len(all) : n > Len(alerts) => n - Len(alerts) \in 1..Len(new) /\ all[n] = new[n - Len(alerts)]
    <2>1. \A u, v \in Seq(Alert) :
            /\ u \o v \in Seq(Alert) /\ Len(u \o v) = Len(u) + Len(v)
            /\ \A n \in 1..Len(u) : (u \o v)[n] = u[n]
            /\ \A n \in 1..Len(u \o v) : n > Len(u) => n - Len(u) \in 1..Len(v) /\ (u \o v)[n] = v[n - Len(u)]
      BY ConcatProperties
    <2> QED BY <1>5, <1>6, <2>1
  <1>8. Spaced(all, second)
    <2>1. ASSUME NEW m \in 1..Len(all), NEW n \in 1..Len(all)
          PROVE  /\ all[n].at <= second
                 /\ m < n => /\ all[m].at <= all[n].at
                             /\ all[m].rule = all[n].rule => all[n].at - all[m].at >= Suppress
      <3>1. ASSUME NEW k \in 1..Len(alerts)
            PROVE  alerts[k].at <= second /\ alerts[k].at \in Nat
        <4>1. alerts[k] \in Alert /\ k \in DOMAIN alerts
          BY <1>6
        <4> QED BY <1>6, <4>1 DEF Spaced, Alert
      <3>2. CASE n <= Len(alerts)
        <4>1. n \in 1..Len(alerts) /\ (m < n => m \in 1..Len(alerts))
          BY <3>2
        <4> QED BY <1>6, <1>7, <4>1 DEF Spaced
      <3>3. CASE n > Len(alerts) /\ m <= Len(alerts)
        <4>1. m \in 1..Len(alerts) /\ all[m] = alerts[m]
          BY <1>7, <3>3
        <4>2. n - Len(alerts) \in 1..Cardinality(S) /\ all[n].at = second /\ all[n].rule = order[n - Len(alerts)]
          BY <1>5, <1>7, <3>3
        <4>3. all[n].rule \in S
          BY <1>3, <4>2
        <4>4. all[m].rule = all[n].rule => ~(second - all[m].at < Suppress)
          BY <1>s, <4>1, <4>3 DEF Suppressed
        <4> QED BY <1>1, <1>6, <3>1, <4>1, <4>2, <4>4
      <3>4. CASE n > Len(alerts) /\ m > Len(alerts)
        <4>1. /\ n - Len(alerts) \in 1..Cardinality(S) /\ all[n].at = second /\ all[n].rule = order[n - Len(alerts)]
              /\ m - Len(alerts) \in 1..Cardinality(S) /\ all[m].at = second /\ all[m].rule = order[m - Len(alerts)]
          BY <1>5, <1>7, <3>4
        <4>2. all[m].rule = all[n].rule => m - Len(alerts) = n - Len(alerts)
          BY <1>3, <4>1
        <4>3. m < n => all[m].rule # all[n].rule
          BY <1>6, <4>2
        <4> QED BY <1>6, <4>1, <4>3
      <3> QED BY <1>6, <3>2, <3>3, <3>4
    <2>2. DOMAIN all = 1..Len(all)
      BY <1>7
    <2> QED BY <2>1, <2>2 DEF Spaced
  <1>9. ASSUME NEW r \in Triggered PROVE Young(all, r) # {}
    <2>1. CASE Suppressed(r)
      <3>1. PICK n \in DOMAIN alerts : alerts[n].rule = r /\ second - alerts[n].at < Suppress
        BY <2>1 DEF Suppressed
      <3>2. n \in DOMAIN all /\ all[n] = alerts[n]
        BY <1>6, <1>7, <3>1
      <3> QED BY <3>1, <3>2 DEF Young
    <2>2. CASE ~Suppressed(r)
      <3>1. PICK n \in 1..Cardinality(S) : order[n] = r
        BY <1>4, <1>t, <2>2
      <3>0. Len(alerts) \in Nat /\ n \in 1..Len(new) /\ n \in Nat \ {0}
        BY <1>5, <1>6, <3>1
      <3>2. Len(alerts) + n \in DOMAIN all /\ all[Len(alerts) + n] = new[n] /\ new[n].rule = r /\ new[n].at = second
        <4>1. Len(alerts) + n \in 1..Len(all) /\ Len(alerts) + n > Len(alerts) /\ (Len(alerts) + n) - Len(alerts) = n
          BY <1>7, <3>0
        <4>2. DOMAIN all = 1..Len(all)
          BY <1>7
        <4> QED BY <1>5, <1>7, <3>0, <3>1, <4>1, <4>2
      <3>3. second - second < Suppress
        BY <1>1, <1>6
      <3> QED BY <3>2, <3>3 DEF Young
    <2> QED BY <2>1, <2>2
  <1> QED BY <1>7, <1>8, <1>9 DEF all

LEMMA AlertStep == AlertInv /\ [AlertingNext]_alertVars => AlertInv'
  <1> SUFFICES ASSUME AlertInv, [AlertingNext]_alertVars PROVE AlertInv'
    OBVIOUS
  <1>1. CASE PassSecond
    <2>1. second \in Nat /\ second' = second + 1 /\ alerts' = alerts /\ rules' = rules
      BY <1>1 DEF PassSecond, AlertInv
    <2>2. Spaced(alerts, second + 1)
      <3>1. \A n \in DOMAIN alerts : alerts[n].at \in Nat /\ alerts[n].at <= second
        <4>1. \A n \in DOMAIN alerts : alerts[n] \in Alert
          BY DEF AlertInv
        <4> QED BY <4>1 DEF AlertInv, Spaced, Alert
      <3>2. \A n \in DOMAIN alerts : alerts[n].at <= second + 1
        BY <2>1, <3>1
      <3> QED BY <3>2 DEF AlertInv, Spaced
    <2> QED BY <2>1, <2>2 DEF AlertInv, Alert
  <1>2. ASSUME NEW r \in RuleIds, NEW enabled \in BOOLEAN, NEW t \in Thresholds, SetAlertRule(r, enabled, t)
        PROVE  AlertInv'
    <2>1. DOMAIN rules' \subseteq RuleIds
      BY <1>2 DEF SetAlertRule, AlertInv
    <2> QED BY <1>2, <2>1 DEF SetAlertRule, AlertInv, Spaced, Alert
  <1>3. ASSUME NEW r \in RuleIds, DeleteAlertRule(r) PROVE AlertInv'
    BY <1>3 DEF DeleteAlertRule, AlertInv, Spaced, Alert
  <1>4. CASE Evaluate
    <2>1. PICK order \in SetToSeqs({r \in Triggered : ~Suppressed(r)}) :
            alerts' = Newest(alerts \o [n \in DOMAIN order |-> [rule |-> order[n], at |-> second]], MaxAlerts)
      BY <1>4 DEF Evaluate
    <2> DEFINE all == Extended(order)
    <2>2. all \in Seq(Alert) /\ Spaced(all, second)
      BY AlertsAdded
    <2>3. alerts' = Newest(all, MaxAlerts) /\ second \in Nat /\ UNCHANGED <<second, rules>>
      BY <1>4, <2>1 DEF Evaluate, AlertInv, Extended
    <2> HIDE DEF all
    <2>4. Newest(all, MaxAlerts) \in Seq(Alert) /\ Spaced(Newest(all, MaxAlerts), second)
      BY <2>2, <2>3, NewestSpaced
    <2> QED BY <2>3, <2>4 DEF AlertInv, Spaced, Alert
  <1>5. CASE (\E status \in {"ok", "error"} : RecordSpan(status)) \/ UNCHANGED alertVars
    BY <1>5 DEF RecordSpan, alertVars, AlertInv, Spaced, Alert
  <1> QED BY <1>1, <1>2, <1>3, <1>4, <1>5 DEF AlertingNext

\* An evaluation leaves every rule that is triggered exactly one young alert.
LEMMA EvaluationAlerts ==
  ASSUME AlertInv, AlertInv', Evaluate, NEW r \in RuleIds
  PROVE  LET young == {n \in DOMAIN alerts' : alerts'[n].rule = r /\ second - alerts'[n].at < Suppress}
         IN  Cardinality(young) <= 1 /\ (r \in Triggered => young # {})
  <1>1. PICK order \in SetToSeqs({q \in Triggered : ~Suppressed(q)}) :
          alerts' = Newest(alerts \o [n \in DOMAIN order |-> [rule |-> order[n], at |-> second]], MaxAlerts)
    BY DEF Evaluate
  <1> DEFINE all == Extended(order)
             cut == Newest(all, MaxAlerts)
  <1>2. all \in Seq(Alert) /\ Spaced(all, second) /\ \A q \in Triggered : Young(all, q) # {}
    BY AlertsAdded
  <1>3. second \in Nat /\ Suppress \in Nat /\ second' = second /\ alerts' = cut
    BY <1>1, AlertingAssumption DEF AlertInv, Evaluate, Extended
  <1> HIDE DEF all
  <1>4. r \in Triggered => Young(cut, r) # {}
    BY <1>2, <1>3, YoungStays
  <1>5. cut \in Seq(Alert) /\ Spaced(cut, second)
    BY <1>2, <1>3, NewestSpaced
  <1> HIDE DEF cut
  <1>6. \A m, n \in Young(cut, r) : m = n
    <2> SUFFICES ASSUME NEW m \in Young(cut, r), NEW n \in Young(cut, r) PROVE m = n
      OBVIOUS
    <2>1. /\ m \in 1..Len(cut) /\ n \in 1..Len(cut) /\ cut[m].rule = cut[n].rule
          /\ second - cut[m].at < Suppress /\ second - cut[n].at < Suppress
          /\ cut[m].at \in Nat /\ cut[n].at \in Nat
      <3>1. m \in 1..Len(cut) /\ n \in 1..Len(cut) /\ cut[m] \in Alert /\ cut[n] \in Alert
        BY <1>5 DEF Young
      <3> QED BY <3>1 DEF Young, Alert
    <2>2. cut[m].at <= second /\ cut[n].at <= second
      BY <1>5, <2>1 DEF Spaced
    <2>3. /\ m < n => cut[n].at - cut[m].at >= Suppress
          /\ n < m => cut[m].at - cut[n].at >= Suppress
      BY <1>5, <2>1 DEF Spaced
    <2> QED BY <1>3, <2>1, <2>2, <2>3
  <1>7. Cardinality(Young(cut, r)) <= 1
    <2>1. CASE Young(cut, r) = {}
      BY <2>1, FS_EmptySet
    <2>2. ASSUME NEW n \in Young(cut, r) PROVE Cardinality(Young(cut, r)) = 1
      <3>1. Young(cut, r) = {n}
        BY <1>6
      <3> QED BY <3>1, FS_Singleton
    <2> QED BY <2>1, <2>2
  <1> QED BY <1>3, <1>4, <1>7 DEF Young

\* However the rules change between the evaluations, a triggered rule has exactly
\* one young alert after one, for any rules, thresholds and lengths of the lists
\* that let every rule have one.
THEOREM OneAlertIsYoung == AlertingSpec => OneYoungAlert
  <1>1. AlertingInit => AlertInv
    BY DEF AlertingInit, AlertInv, Spaced, Alert
  <1>2. AlertInv /\ AlertInv' /\ [AlertingNext]_alertVars =>
          [baseline' # baseline =>
            \A r \in RuleIds :
              LET young == {n \in DOMAIN alerts' : alerts'[n].rule = r /\ second - alerts'[n].at < Suppress}
              IN  Cardinality(young) <= 1 /\ (r \in Triggered => young # {})]_alertVars
    <2> SUFFICES ASSUME AlertInv, AlertInv', [AlertingNext]_alertVars, baseline' # baseline, NEW r \in RuleIds
                 PROVE  LET young == {n \in DOMAIN alerts' : alerts'[n].rule = r /\ second - alerts'[n].at < Suppress}
                        IN  Cardinality(young) <= 1 /\ (r \in Triggered => young # {})
      OBVIOUS
    <2>1. Evaluate
      BY DEF AlertingNext, PassSecond, RecordSpan, SetAlertRule, DeleteAlertRule, alertVars
    <2> QED BY <2>1, EvaluationAlerts
  <1> QED BY <1>1, <1>2, AlertStep, PTL DEF AlertingSpec, OneYoungAlert
=============================================================================
