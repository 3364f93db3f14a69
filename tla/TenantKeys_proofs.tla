--------------------------- MODULE TenantKeys_proofs ---------------------------
(***************************************************************************)
(* Proofs about TenantKeys, for any number of tenants, keys and requests.  *)
(*                                                                         *)
(* The inductive invariant says what a request that waits for the proxy    *)
(* may rely on: the key it asked to revoke is stored and already dead, the *)
(* key it was given is stored by nobody and was given to nobody else.      *)
(***************************************************************************)
EXTENDS TenantKeys, FiniteSetTheorems, TLAPS

\* What holds of a key that was counted as revoked, or is about to be.
Dead(k) == key[k] # NoValue /\ k \notin live

OpOK(o) ==
    /\ op[o].stage # "new" => op[o].tenant \in Tenants
    /\ op[o].stage = "revoked" => op[o].key \in KeyIds /\ Dead(op[o].key)
    /\ op[o].stage = "generated" =>
         op[o].key \in KeyIds /\ key[op[o].key] = NoValue /\ made[op[o].key] = op[o].tenant
    /\ \A k \in op[o].todo : key[k] # NoValue
    /\ \A k \in op[o].counted : Dead(k) /\ key[k].status = "deleted"

\* Two requests never wait with the same new key.
KeysApart ==
    \A o, p \in Ops : o # p /\ op[o].stage = "generated" /\ op[p].stage = "generated"
                        => op[o].key # op[p].key

Inv == TenantsTypeOK /\ KeysWellOwned /\ (\A o \in Ops : OpOK(o)) /\ KeysApart

USE DEF TenantsTypeOK, Op, TenantKey, Kind, OpStage, TenantStatus

\* The invariant is enough for what DELETE reports.
LEMMA InvCounted == Inv => CountedAreDead
  BY DEF Inv, OpOK, Dead, CountedAreDead

\* Nothing is stored, made or asked for in the beginning.
LEMMA InvInit == TenantsInit => Inv
  BY TenantAssumption DEF TenantsInit, Inv, OpOK, Dead, KeysWellOwned, KeysApart

\* A request that begins takes no key along but those stored for its tenant.
LEMMA ArriveKeeps ==
    ASSUME Inv, NEW o \in Ops, ArriveOp(o)
    PROVE  Inv'
  <1>1. PICK t \in Tenants : StartCreate(o, t) \/ StartDelete(o, t) \/ StartRotate(o, t)
    BY DEF ArriveOp
  <1>2. PICK kind \in Kind, stage \in {"generate", "revoke"}, todo \in SUBSET KeysOf(t) :
           Start(o, kind, t, stage, todo)
    BY <1>1 DEF StartCreate, StartDelete, StartRotate
  <1>3. tenant' \in [Tenants -> TenantStatus] /\ key' = key /\ live' = live /\ made' = made
    BY <1>1 DEF StartCreate, StartDelete, StartRotate, Inv
  <1>4. /\ op[o].stage = "new"
        /\ op' = [op EXCEPT ![o] = [kind |-> kind, tenant |-> t, stage |-> stage,
                                    todo |-> todo, key |-> NoValue, counted |-> {}]]
        /\ disturbed' \subseteq Tenants
    BY <1>2 DEF Start, Inv
  <1>5. todo \subseteq KeyIds /\ \A k \in todo : key[k] # NoValue
    BY <1>2 DEF KeysOf
  <1>6. TenantsTypeOK'
    BY <1>3, <1>4, <1>5 DEF Inv
  <1>7. \A p \in Ops : OpOK(p)'
    BY <1>3, <1>4, <1>5 DEF Inv, OpOK, Dead
  <1>8. KeysApart'
    BY <1>4 DEF Inv, KeysApart
  <1>9. KeysWellOwned'
    BY <1>3 DEF Inv, KeysWellOwned
  <1> QED BY <1>6, <1>7, <1>8, <1>9 DEF Inv

\* The proxy's own steps: a key dies, or a fresh one is made.
LEMMA ProxyKeeps ==
    ASSUME Inv, NEW o \in Ops, ProxyDeletes(o) \/ ProxyGenerates(o)
    PROVE  Inv'
  <1>1. CASE ProxyDeletes(o)
    <2>1. PICK k \in op[o].todo :
             /\ live' = live \ {k}
             /\ op' = [op EXCEPT ![o].stage = "revoked", ![o].key = k, ![o].todo = @ \ {k}]
      BY <1>1 DEF ProxyDeletes
    <2>2. op[o].stage = "revoke" /\ UNCHANGED <<tenant, key, made, disturbed>>
      BY <1>1 DEF ProxyDeletes
    <2>3. TenantsTypeOK'
      BY <2>1, <2>2 DEF Inv
    <2>4. \A p \in Ops : OpOK(p)'
      BY <2>1, <2>2 DEF Inv, OpOK, Dead
    <2>5. KeysApart' /\ KeysWellOwned'
      BY <2>1, <2>2 DEF Inv, KeysApart, KeysWellOwned
    <2> QED BY <2>3, <2>4, <2>5 DEF Inv
  <1>2. CASE ProxyGenerates(o)
    <2>1. PICK k \in KeyIds :
             /\ made[k] = NoValue
             /\ made' = [made EXCEPT ![k] = op[o].tenant]
             /\ live' = live \cup {k}
             /\ op' = [op EXCEPT ![o].stage = "generated", ![o].key = k]
      BY <1>2 DEF ProxyGenerates
    <2>2. op[o].stage = "generate" /\ UNCHANGED <<tenant, key, disturbed>>
      BY <1>2 DEF ProxyGenerates
    <2>3. key[k] = NoValue /\ op[o].tenant \in Tenants
      BY <2>1, <2>2, TenantAssumption DEF Inv, KeysWellOwned, OpOK
    <2>4. TenantsTypeOK'
      <3>1. made' \in [KeyIds -> Tenants \cup {NoValue}]
        BY <2>1, <2>3 DEF Inv
      <3>2. live' \subseteq {j \in KeyIds : made'[j] # NoValue}
        BY <2>1, <2>3, TenantAssumption DEF Inv
      <3>3. op' \in [Ops -> Op]
        <4> DEFINE waiting == [op[o] EXCEPT !.stage = "generated", !.key = k]
        <4>1. op \in [Ops -> Op] /\ op[o] \in Op
          BY DEF Inv
        <4>2. waiting \in Op
          BY <4>1
        <4>3. op' = [op EXCEPT ![o] = waiting]
          BY <2>1
        <4> HIDE DEF waiting
        <4> QED BY <4>1, <4>2, <4>3
      <3> QED BY <2>2, <3>1, <3>2, <3>3 DEF Inv
    <2>5. \A p \in Ops : OpOK(p)'
      <3> SUFFICES ASSUME NEW p \in Ops PROVE OpOK(p)'
        OBVIOUS
      <3>1. /\ op'[p].tenant = op[p].tenant /\ op'[p].todo = op[p].todo
            /\ op'[p].counted = op[p].counted
        BY <2>1 DEF Inv
      <3>2. \A j \in KeyIds : Dead(j) => Dead(j)'
        BY <2>1, <2>2, <2>3 DEF Dead
      <3>3. CASE p = o
        BY <2>1, <2>2, <2>3, <3>1, <3>2, <3>3 DEF Inv, OpOK
      <3>4. CASE p # o
        <4>1. op'[p] = op[p]
          BY <2>1, <3>4 DEF Inv
        <4>2. op[p].stage = "generated" => op[p].key # k
          BY <2>1, TenantAssumption DEF Inv, OpOK
        <4> QED BY <2>1, <2>2, <3>1, <3>2, <4>1, <4>2 DEF Inv, OpOK
      <3> QED BY <3>3, <3>4
    <2>6. KeysApart'
      BY <2>1, <2>2, TenantAssumption DEF Inv, KeysApart, OpOK
    <2>7. KeysWellOwned'
      BY <2>1, <2>2, <2>3 DEF Inv, KeysWellOwned
    <2> QED BY <2>4, <2>5, <2>6, <2>7 DEF Inv
  <1> QED BY <1>1, <1>2

\* Revoking a stored key in the store changes its status alone.
LEMMA RevokeShape ==
    ASSUME Inv, NEW k \in KeyIds, key[k] # NoValue, Revoke(k)
    PROVE  /\ key' \in [KeyIds -> TenantKey \cup {NoValue}]
           /\ key'[k] # NoValue /\ key'[k].status = "deleted"
           /\ \A j \in KeyIds : j # k => key'[j] = key[j]
           /\ \A j \in KeyIds : (key'[j] # NoValue) = (key[j] # NoValue)
           /\ \A j \in KeyIds : key'[j] # NoValue => key'[j].tenant = key[j].tenant
           /\ \A j \in KeyIds : key[j] # NoValue /\ key[j].status = "deleted" => key'[j] = key[j]
  <1>0. key \in [KeyIds -> TenantKey \cup {NoValue}] /\ key[k] \in TenantKey
    BY DEF Inv
  <1> DEFINE revoked == [key[k] EXCEPT !.status = "deleted"]
  <1>1. key' = [key EXCEPT ![k] = revoked]
    BY DEF Revoke
  <1>2. revoked \in TenantKey /\ revoked.tenant = key[k].tenant /\ revoked.status = "deleted"
    BY <1>0
  <1>3. revoked # NoValue
    BY <1>2, TenantAssumption
  <1>4. key[k].status = "deleted" => revoked = key[k]
    BY <1>0
  <1> HIDE DEF revoked
  <1> QED BY <1>0, <1>1, <1>2, <1>3, <1>4

\* The answer to a revocation, good or bad, leaves the invariant.
LEMMA RevocationKeeps ==
    ASSUME Inv, NEW o \in Ops, RevokeAnswered(o) \/ RevokeFails(o)
    PROVE  Inv'
  <1>1. CASE RevokeAnswered(o)
    <2>1. op[o].key \in KeyIds /\ Dead(op[o].key) /\ Revoke(op[o].key)
      BY <1>1 DEF RevokeAnswered, Inv, OpOK
    <2>2. /\ op[o].stage = "revoked"
          /\ op' = [op EXCEPT ![o].stage = "revoke", ![o].key = NoValue,
                              ![o].counted = @ \cup {op[o].key}]
          /\ UNCHANGED <<tenant, live, made, disturbed>>
      BY <1>1 DEF RevokeAnswered
    <2>3. /\ key' \in [KeyIds -> TenantKey \cup {NoValue}]
          /\ key'[op[o].key] # NoValue /\ key'[op[o].key].status = "deleted"
          /\ \A j \in KeyIds : (key'[j] # NoValue) = (key[j] # NoValue)
          /\ \A j \in KeyIds : key'[j] # NoValue => key'[j].tenant = key[j].tenant
          /\ \A j \in KeyIds : key[j] # NoValue /\ key[j].status = "deleted" => key'[j] = key[j]
      BY <2>1, RevokeShape DEF Dead
    <2>4. TenantsTypeOK'
      <3> DEFINE freed == [op[o] EXCEPT !.stage = "revoke", !.key = NoValue,
                                       !.counted = @ \cup {op[o].key}]
      <3>1. op \in [Ops -> Op] /\ op[o] \in Op
        BY DEF Inv
      <3>2. freed \in Op
        BY <2>1, <3>1
      <3>3. op' = [op EXCEPT ![o] = freed]
        BY <2>2
      <3> HIDE DEF freed
      <3>4. op' \in [Ops -> Op]
        BY <3>1, <3>2, <3>3
      <3> QED BY <2>2, <2>3, <3>4 DEF Inv
    <2>5. \A p \in Ops : OpOK(p)'
      BY <2>1, <2>2, <2>3 DEF Inv, OpOK, Dead
    <2>6. KeysApart' /\ KeysWellOwned'
      BY <2>2, <2>3 DEF Inv, KeysApart, KeysWellOwned
    <2> QED BY <2>4, <2>5, <2>6 DEF Inv
  <1>2. CASE RevokeFails(o)
    <2>1. PICK k \in KeyIds : AfterFailure(o, k) /\ key[k] # NoValue
      BY <1>2 DEF RevokeFails, Inv, OpOK, Dead
    <2>2. /\ op[o].stage \in {"revoke", "revoked"}
          /\ op' = [op EXCEPT ![o].stage = "revoke", ![o].key = NoValue, ![o].todo = @ \ {k}]
          /\ UNCHANGED <<tenant, live, made>>
          /\ disturbed' = disturbed \cup {op[o].tenant} /\ op[o].tenant \in Tenants
      BY <1>2, <2>1 DEF RevokeFails, AfterFailure, Fails, Inv, OpOK
    <2>3. /\ key' \in [KeyIds -> TenantKey \cup {NoValue}]
          /\ \A j \in KeyIds : (key'[j] # NoValue) = (key[j] # NoValue)
          /\ \A j \in KeyIds : key'[j] # NoValue => key'[j].tenant = key[j].tenant
          /\ \A j \in KeyIds : key[j] # NoValue /\ key[j].status = "deleted" => key'[j] = key[j]
      BY <2>1, RevokeShape DEF AfterFailure, Inv
    <2>4. TenantsTypeOK'
      <3> DEFINE freed == [op[o] EXCEPT !.stage = "revoke", !.key = NoValue, !.todo = @ \ {k}]
      <3>1. op \in [Ops -> Op] /\ op[o] \in Op
        BY DEF Inv
      <3>2. freed \in Op
        BY <2>1, <3>1
      <3>3. op' = [op EXCEPT ![o] = freed]
        BY <2>2
      <3> HIDE DEF freed
      <3>4. op' \in [Ops -> Op]
        BY <3>1, <3>2, <3>3
      <3> QED BY <2>2, <2>3, <3>4 DEF Inv
    <2>5. \A p \in Ops : OpOK(p)'
      BY <2>1, <2>2, <2>3 DEF Inv, OpOK, Dead
    <2>6. KeysApart' /\ KeysWellOwned'
      BY <2>2, <2>3 DEF Inv, KeysApart, KeysWellOwned
    <2> QED BY <2>4, <2>5, <2>6 DEF Inv
  <1> QED BY <1>1, <1>2

\* The ends of the handlers leave the invariant.
LEMMA EndsKeep ==
    ASSUME Inv, NEW o \in Ops,
           RevokedAll(o) \/ DeleteTenant(o) \/ PutKey(o) \/ GenerateFails(o)
    PROVE  Inv'
  <1>1. CASE RevokedAll(o)
    BY <1>1 DEF RevokedAll, Inv, OpOK, Dead, KeysApart, KeysWellOwned
  <1>2. CASE DeleteTenant(o)
    BY <1>2 DEF DeleteTenant, Inv, OpOK, Dead, KeysApart, KeysWellOwned
  <1>3. CASE PutKey(o)
    <2> DEFINE k == op[o].key
               stored == [tenant |-> op[o].tenant, status |-> "active"]
    <2>1. /\ op[o].stage = "generated"
          /\ key' = [key EXCEPT ![k] = stored]
          /\ op' = [op EXCEPT ![o].stage = "done"]
          /\ UNCHANGED <<tenant, live, made, disturbed>>
      BY <1>3 DEF PutKey
    <2>2. k \in KeyIds /\ key[k] = NoValue /\ made[k] = op[o].tenant /\ op[o].tenant \in Tenants
      BY <2>1 DEF Inv, OpOK
    <2>3. stored \in TenantKey /\ stored # NoValue /\ stored.tenant = op[o].tenant
      BY <2>2, TenantAssumption
    <2>4. \A p \in Ops \ {o} : op[p].stage = "generated" => op[p].key # k
      BY <2>1 DEF Inv, KeysApart
    <2> HIDE DEF stored
    <2>5. TenantsTypeOK'
      BY <2>1, <2>2, <2>3 DEF Inv
    <2>6. \A p \in Ops : OpOK(p)'
      BY <2>1, <2>2, <2>3, <2>4 DEF Inv, OpOK, Dead
    <2>7. KeysApart' /\ KeysWellOwned'
      BY <2>1, <2>2, <2>3 DEF Inv, KeysApart, KeysWellOwned
    <2> QED BY <2>5, <2>6, <2>7 DEF Inv
  <1>4. CASE GenerateFails(o)
    BY <1>4 DEF GenerateFails, Fails, Inv, OpOK, Dead, KeysApart, KeysWellOwned
  <1> QED BY <1>1, <1>2, <1>3, <1>4

\* PATCH touches tenants only.
LEMMA UpdateKeeps ==
    ASSUME Inv, NEW t \in Tenants, NEW s \in TenantStatus \ {"none"}, Update(t, s)
    PROVE  Inv'
  BY DEF Update, Inv, OpOK, Dead, KeysApart, KeysWellOwned

\* The invariant holds of every behaviour.
LEMMA TenantsInvariant == TenantsSpec => []Inv
  <1>1. Inv /\ [TenantsNext]_tenantVars => Inv'
    <2> SUFFICES ASSUME Inv, [TenantsNext]_tenantVars PROVE Inv'
      OBVIOUS
    <2>1. CASE UNCHANGED tenantVars
      BY <2>1 DEF tenantVars, Inv, OpOK, Dead, KeysApart, KeysWellOwned
    <2>2. ASSUME NEW o \in Ops, ArriveOp(o) PROVE Inv'
      BY <2>2, ArriveKeeps
    <2>3. ASSUME NEW o \in Ops, Continue(o) PROVE Inv'
      BY <2>3, ProxyKeeps, RevocationKeeps, EndsKeep DEF Continue
    <2>4. ASSUME NEW t \in Tenants, NEW s \in TenantStatus \ {"none"}, Update(t, s) PROVE Inv'
      BY <2>4, UpdateKeeps
    <2> QED BY <2>1, <2>2, <2>3, <2>4 DEF TenantsNext
  <1> QED BY <1>1, InvInit, PTL DEF TenantsSpec

\* What DELETE counts as revoked is dead, at the proxy and in the store.
THEOREM CountedKeysDead == TenantsSpec => []CountedAreDead
  BY InvCounted, TenantsInvariant, PTL

\* No key of the store is another tenant's.
THEOREM StoreWellOwned == TenantsSpec => []KeysWellOwned
  <1>1. Inv => KeysWellOwned
    BY DEF Inv
  <1> QED BY <1>1, TenantsInvariant, PTL

\* A revoked key stays revoked: the only step that makes a key active stores one
\* that nobody has stored before.
THEOREM RevocationIsFinal == TenantsSpec => RevokedForGood
  <1>1. Inv /\ [TenantsNext]_tenantVars =>
          [\A k \in KeyIds : key[k] # NoValue /\ key[k].status = "deleted"
             => key'[k] = key[k]]_tenantVars
    <2> SUFFICES ASSUME Inv, TenantsNext, NEW k \in KeyIds,
                        key[k] # NoValue, key[k].status = "deleted"
                 PROVE  key'[k] = key[k]
      OBVIOUS
    <2>1. ASSUME NEW o \in Ops, ArriveOp(o) PROVE key' = key
      BY <2>1 DEF ArriveOp, StartCreate, StartDelete, StartRotate
    <2>2. ASSUME NEW o \in Ops, ProxyDeletes(o) \/ ProxyGenerates(o) \/ RevokedAll(o)
                                 \/ DeleteTenant(o) \/ GenerateFails(o)
          PROVE  key' = key
      BY <2>2 DEF ProxyDeletes, ProxyGenerates, RevokedAll, DeleteTenant, GenerateFails
    <2>3. ASSUME NEW o \in Ops, RevokeAnswered(o) PROVE key'[k] = key[k]
      <3>1. op[o].key \in KeyIds /\ key[op[o].key] # NoValue /\ Revoke(op[o].key)
        BY <2>3 DEF RevokeAnswered, Inv, OpOK, Dead
      <3> QED BY <3>1, RevokeShape
    <2>4. ASSUME NEW o \in Ops, RevokeFails(o) PROVE key'[k] = key[k]
      <3>1. PICK j \in KeyIds : AfterFailure(o, j) /\ key[j] # NoValue
        BY <2>4 DEF RevokeFails, Inv, OpOK, Dead
      <3> QED BY <3>1, RevokeShape DEF AfterFailure
    <2>5. ASSUME NEW o \in Ops, PutKey(o) PROVE key'[k] = key[k]
      <3>1. key[op[o].key] = NoValue
        BY <2>5 DEF PutKey, Inv, OpOK
      <3> QED BY <2>5, <3>1 DEF PutKey, Inv
    <2>6. ASSUME NEW t \in Tenants, NEW s \in TenantStatus, Update(t, s) PROVE key' = key
      BY <2>6 DEF Update
    <2> QED BY <2>1, <2>2, <2>3, <2>4, <2>5, <2>6 DEF TenantsNext, Continue
  <1> QED BY <1>1, TenantsInvariant, PTL DEF TenantsSpec, RevokedForGood

\* A deleted tenant stays deleted: every handler that writes a tenant looks it up
\* in the same segment.
THEOREM DeletionIsFinal == TenantsSpec => DeletedForGood
  <1>1. Inv /\ [TenantsNext]_tenantVars =>
          [\A t \in Tenants : tenant[t] = "deleted" => tenant'[t] = "deleted"]_tenantVars
    <2> SUFFICES ASSUME Inv, TenantsNext, NEW t \in Tenants, tenant[t] = "deleted"
                 PROVE  tenant'[t] = "deleted"
      OBVIOUS
    <2>1. ASSUME NEW o \in Ops, ArriveOp(o) PROVE tenant'[t] = "deleted"
      BY <2>1 DEF ArriveOp, StartCreate, StartDelete, StartRotate, Inv
    <2>2. ASSUME NEW o \in Ops, Continue(o) PROVE tenant'[t] = "deleted"
      <3>1. CASE DeleteTenant(o)
        BY <3>1 DEF DeleteTenant, Inv
      <3>2. CASE ~DeleteTenant(o)
        BY <2>2, <3>2 DEF Continue, ProxyDeletes, ProxyGenerates, RevokeAnswered, RevokeFails,
                          RevokedAll, PutKey, GenerateFails
      <3> QED BY <3>1, <3>2
    <2>3. ASSUME NEW u \in Tenants, NEW s \in TenantStatus, Update(u, s) PROVE tenant'[t] = "deleted"
      BY <2>3 DEF Update, Found, Inv
    <2> QED BY <2>1, <2>2, <2>3 DEF TenantsNext
  <1> QED BY <1>1, TenantsInvariant, PTL DEF TenantsSpec, DeletedForGood

\* Together: nothing that was deleted or revoked comes back.
THEOREM NothingComesBack == TenantsSpec => ForGood
  BY DeletionIsFinal, RevocationIsFinal, PTL DEF ForGood

-----------------------------------------------------------------------------
(* The books.  A tenant nobody disturbed has one request working on it at *)
(* most; what that request has left to do is what the store holds for the    *)
(* tenant and what the proxy accepts.                                        *)

At(t, o) == op[o].tenant = t /\ op[o].stage # "done"

LiveOf(t) == {k \in live : made[k] = t}

\* A request asks only for the keys of its own tenant.
AskOK(o) ==
    /\ op[o].stage = "new" => op[o].tenant = NoValue
    /\ \A k \in op[o].todo : key[k].tenant = op[o].tenant
    /\ op[o].stage = "revoked" => key[op[o].key].tenant = op[o].tenant

AtRest(t) ==
    /\ LiveOf(t) = KeysOf(t)
    /\ Found(t) => \E k \in KeyIds : KeysOf(t) = {k}
    /\ ~Found(t) => KeysOf(t) = {}

AtWork(t, o) ==
    /\ Found(t)
    /\ op[o].stage = "revoke" => KeysOf(t) = op[o].todo /\ LiveOf(t) = op[o].todo
    /\ op[o].stage = "revoked" => KeysOf(t) = op[o].todo \cup {op[o].key} /\ LiveOf(t) = op[o].todo
    /\ op[o].stage = "generate" => KeysOf(t) = {} /\ LiveOf(t) = {}
    /\ op[o].stage = "generated" => KeysOf(t) = {} /\ LiveOf(t) = {op[o].key}

BooksOK(t) ==
    /\ \A o, p \in Ops : At(t, o) /\ At(t, p) => o = p
    /\ \A o \in Ops : At(t, o) => AtWork(t, o)
    /\ (\A o \in Ops : ~At(t, o)) => AtRest(t)

BooksInv == (\A o \in Ops : AskOK(o)) /\ \A t \in Tenants : t \notin disturbed => BooksOK(t)

\* In the beginning no tenant has anything.
LEMMA BooksInit == TenantsInit => BooksInv
  <1> SUFFICES ASSUME TenantsInit PROVE BooksInv
    OBVIOUS
  <1>1. \A o \in Ops : AskOK(o) /\ \A t \in Tenants : ~At(t, o)
    BY TenantAssumption DEF TenantsInit, AskOK, At
  <1>2. ASSUME NEW t \in Tenants PROVE AtRest(t)
    BY DEF TenantsInit, AtRest, LiveOf, KeysOf, Found
  <1> QED BY <1>1, <1>2 DEF BooksInv, BooksOK

\* A step that leaves a tenant's keys, its status and its requests alone.
LEMMA Untouched ==
    ASSUME NEW t \in Tenants, BooksOK(t),
           KeysOf(t)' = KeysOf(t), LiveOf(t)' = LiveOf(t), tenant'[t] = tenant[t],
           \A o \in Ops : op'[o] = op[o] \/ (~At(t, o) /\ ~At(t, o)')
    PROVE  BooksOK(t)'
  <1>1. \A o \in Ops : At(t, o)' = At(t, o) /\ (At(t, o) => op'[o] = op[o])
    BY DEF At
  <1>2. Found(t)' = Found(t)
    BY DEF Found
  <1>3. AtRest(t) => AtRest(t)'
    BY <1>2 DEF AtRest
  <1>4. ASSUME NEW o \in Ops, At(t, o), AtWork(t, o) PROVE AtWork(t, o)'
    BY <1>1, <1>2, <1>4 DEF AtWork
  <1> QED BY <1>1, <1>3, <1>4 DEF BooksOK

\* A handler that goes on changes its own request only, and not its tenant.
LEMMA ContinueShape ==
    ASSUME Inv, NEW o \in Ops, Continue(o)
    PROVE  /\ op[o].stage \notin {"new", "done"} /\ op[o].tenant \in Tenants
           /\ op'[o].tenant = op[o].tenant /\ op'[o].stage # "new"
           /\ \A p \in Ops \ {o} : op'[p] = op[p]
           /\ disturbed \subseteq disturbed'
  <1>1. op \in [Ops -> Op] /\ disturbed \subseteq Tenants
    BY DEF Inv
  <1>2. op[o].stage \notin {"new", "done"}
    BY DEF Continue, ProxyDeletes, RevokeAnswered, RevokeFails, RevokedAll, DeleteTenant,
           ProxyGenerates, PutKey, GenerateFails
  <1>3. op[o].tenant \in Tenants
    BY <1>2 DEF Inv, OpOK
  <1>4. CASE RevokeAnswered(o) \/ RevokedAll(o)
    BY <1>1, <1>2, <1>3, <1>4 DEF RevokeAnswered, RevokedAll
  <1>7. CASE ProxyDeletes(o)
    <2>1. PICK k : op' = [op EXCEPT ![o].stage = "revoked", ![o].key = k, ![o].todo = @ \ {k}]
      BY <1>7 DEF ProxyDeletes
    <2>2. disturbed' = disturbed
      BY <1>7 DEF ProxyDeletes
    <2> QED BY <1>1, <1>2, <1>3, <2>1, <2>2
  <1>6. CASE RevokeFails(o)
    <2>1. PICK k : AfterFailure(o, k)
      BY <1>6 DEF RevokeFails
    <2>2. op' = [op EXCEPT ![o].stage = "revoke", ![o].key = NoValue, ![o].todo = @ \ {k}]
      BY <2>1 DEF AfterFailure
    <2>3. disturbed \subseteq disturbed'
      BY <1>6 DEF RevokeFails, Fails
    <2> QED BY <1>1, <1>2, <1>3, <2>2, <2>3
  <1>5. CASE DeleteTenant(o) \/ ProxyGenerates(o) \/ PutKey(o) \/ GenerateFails(o)
    BY <1>1, <1>2, <1>3, <1>5 DEF DeleteTenant, ProxyGenerates, PutKey, GenerateFails, Fails
  <1> QED BY <1>4, <1>5, <1>6, <1>7 DEF Continue

\* Revoking a key takes it from its tenant's keys.
LEMMA RevokeTakes ==
    ASSUME Inv, NEW k \in KeyIds, key[k] # NoValue, Revoke(k), NEW t \in Tenants
    PROVE  KeysOf(t)' = KeysOf(t) \ {k}
  <1>1. /\ key'[k] # NoValue /\ key'[k].status = "deleted"
        /\ \A j \in KeyIds : j # k => key'[j] = key[j]
    BY RevokeShape
  <1> QED BY <1>1 DEF KeysOf

\* The keys of the store and of the proxy that a handler's step can move are its
\* own tenant's.
LEMMA Elsewhere ==
    ASSUME Inv, BooksInv, NEW o \in Ops, Continue(o),
           NEW t \in Tenants, op[o].tenant # t
    PROVE  KeysOf(t)' = KeysOf(t) /\ LiveOf(t)' = LiveOf(t) /\ tenant'[t] = tenant[t]
  <1>0. AskOK(o) /\ OpOK(o) /\ op[o].tenant \in Tenants /\ op \in [Ops -> Op]
    BY ContinueShape DEF Inv, BooksInv
  <1>1. CASE ProxyDeletes(o)
    <2>1. PICK k \in op[o].todo : live' = live \ {k}
      BY <1>1 DEF ProxyDeletes
    <2>2. k \in KeyIds /\ made[k] = op[o].tenant
      BY <1>0, <2>1 DEF AskOK, OpOK, Inv, KeysWellOwned
    <2>3. UNCHANGED <<tenant, key, made>>
      BY <1>1 DEF ProxyDeletes
    <2> QED BY <2>1, <2>2, <2>3 DEF KeysOf, LiveOf
  <1>2. CASE RevokeAnswered(o)
    <2>1. UNCHANGED <<tenant, live, made>> /\ Revoke(op[o].key) /\ op[o].stage = "revoked"
      BY <1>2 DEF RevokeAnswered
    <2>2. op[o].key \in KeyIds /\ key[op[o].key] # NoValue /\ op[o].key \notin KeysOf(t)
      BY <1>0, <2>1 DEF OpOK, Dead, AskOK, KeysOf
    <2>3. KeysOf(t)' = KeysOf(t)
      BY <2>1, <2>2, RevokeTakes
    <2> QED BY <2>1, <2>3 DEF LiveOf
  <1>3. CASE RevokeFails(o)
    <2>1. PICK k \in KeyIds : AfterFailure(o, k) /\ key[k] # NoValue /\ key[k].tenant = op[o].tenant
      BY <1>0, <1>3 DEF RevokeFails, OpOK, Dead, AskOK
    <2>2. UNCHANGED <<tenant, live, made>>
      BY <1>3 DEF RevokeFails
    <2>3. k \notin KeysOf(t)
      BY <2>1 DEF KeysOf
    <2>4. KeysOf(t)' = KeysOf(t)
      <3>1. CASE Revoke(k)
        BY <2>1, <2>3, <3>1, RevokeTakes
      <3>2. CASE key' = key
        BY <3>2 DEF KeysOf
      <3> QED BY <2>1, <3>1, <3>2 DEF AfterFailure
    <2> QED BY <2>2, <2>4 DEF LiveOf
  <1>4. CASE ProxyGenerates(o)
    <2>1. PICK k \in KeyIds : /\ made[k] = NoValue /\ made' = [made EXCEPT ![k] = op[o].tenant]
                              /\ live' = live \cup {k}
      BY <1>4 DEF ProxyGenerates
    <2>2. UNCHANGED <<tenant, key>>
      BY <1>4 DEF ProxyGenerates
    <2>3. k \notin live /\ made'[k] # t /\ \A j \in KeyIds \ {k} : made'[j] = made[j]
      BY <2>1 DEF Inv
    <2>4. live \subseteq KeyIds
      BY DEF Inv
    <2> QED BY <2>1, <2>2, <2>3, <2>4 DEF KeysOf, LiveOf
  <1>5. CASE PutKey(o)
    <2>1. /\ key' = [key EXCEPT ![op[o].key] = [tenant |-> op[o].tenant, status |-> "active"]]
          /\ UNCHANGED <<tenant, live, made>> /\ op[o].key \in KeyIds /\ key[op[o].key] = NoValue
      BY <1>0, <1>5 DEF PutKey, OpOK
    <2>2. key'[op[o].key].tenant # t /\ \A j \in KeyIds \ {op[o].key} : key'[j] = key[j]
      BY <2>1 DEF Inv
    <2> QED BY <2>1, <2>2 DEF KeysOf, LiveOf
  <1>6. CASE RevokedAll(o) \/ DeleteTenant(o) \/ GenerateFails(o)
    BY <1>6 DEF RevokedAll, DeleteTenant, GenerateFails, KeysOf, LiveOf, Inv
  <1> QED BY <1>1, <1>2, <1>3, <1>4, <1>5, <1>6 DEF Continue

\* What a request asks for stays its own tenant's.
LEMMA AsksKept ==
    ASSUME Inv, \A q \in Ops : AskOK(q), NEW o \in Ops, Continue(o), NEW p \in Ops
    PROVE  AskOK(p)'
  <1>0. op \in [Ops -> Op] /\ OpOK(p) /\ AskOK(p) /\ OpOK(o) /\ AskOK(o)
    BY DEF Inv
  <1>1. \A j \in KeyIds : key[j] # NoValue => key'[j].tenant = key[j].tenant
    <2>1. CASE RevokeAnswered(o)
      <3>1. op[o].key \in KeyIds /\ key[op[o].key] # NoValue /\ Revoke(op[o].key)
        BY <1>0, <2>1 DEF RevokeAnswered, OpOK, Dead
      <3> QED BY <3>1, RevokeShape
    <2>2. CASE RevokeFails(o)
      <3>1. PICK k \in KeyIds : AfterFailure(o, k) /\ key[k] # NoValue
        BY <1>0, <2>2 DEF RevokeFails, OpOK, Dead
      <3> QED BY <3>1, RevokeShape DEF AfterFailure
    <2>3. CASE PutKey(o)
      BY <1>0, <2>3 DEF PutKey, OpOK, Inv
    <2>4. CASE ProxyDeletes(o) \/ RevokedAll(o) \/ DeleteTenant(o) \/ ProxyGenerates(o)
               \/ GenerateFails(o)
      BY <2>4 DEF ProxyDeletes, RevokedAll, DeleteTenant, ProxyGenerates, GenerateFails
    <2> QED BY <2>1, <2>2, <2>3, <2>4 DEF Continue
  <1>2. CASE p # o
    <2>1. op'[p] = op[p]
      BY <1>2, ContinueShape
    <2> QED BY <1>0, <1>1, <2>1 DEF AskOK, OpOK, Dead
  <1>3. CASE p = o
    <2>1. op'[o].tenant = op[o].tenant /\ op'[o].stage # "new"
      BY ContinueShape
    <2>2. op'[o].todo \subseteq op[o].todo
      <3>1. CASE RevokeFails(o)
        BY <1>0, <3>1 DEF RevokeFails, AfterFailure
      <3>2. CASE ProxyDeletes(o)
        BY <1>0, <3>2 DEF ProxyDeletes
      <3>3. CASE RevokeAnswered(o) \/ RevokedAll(o) \/ DeleteTenant(o)
        BY <1>0, <3>3 DEF RevokeAnswered, RevokedAll, DeleteTenant
      <3>4. CASE ProxyGenerates(o) \/ PutKey(o) \/ GenerateFails(o)
        BY <1>0, <3>4 DEF ProxyGenerates, PutKey, GenerateFails
      <3> QED BY <3>1, <3>2, <3>3, <3>4 DEF Continue
    <2>3. op'[o].stage = "revoked" => op'[o].key \in op[o].todo
      <3>1. CASE ProxyDeletes(o)
        BY <1>0, <3>1 DEF ProxyDeletes
      <3>2. CASE RevokeFails(o)
        BY <1>0, <3>2 DEF RevokeFails, AfterFailure
      <3>3. CASE ~ProxyDeletes(o) /\ ~RevokeFails(o)
        BY <1>0, <3>3 DEF Continue, RevokeAnswered, RevokedAll, DeleteTenant,
                          ProxyGenerates, PutKey, GenerateFails
      <3> QED BY <3>1, <3>2, <3>3
    <2>4. \A k \in op[o].todo : k \in KeyIds /\ key[k] # NoValue /\ key[k].tenant = op[o].tenant
      BY <1>0 DEF OpOK, AskOK
    <2> QED BY <1>1, <1>3, <2>1, <2>2, <2>3, <2>4 DEF AskOK
  <1> QED BY <1>2, <1>3

\* The request that works on a tenant leaves its books in order.
LEMMA OwnStep ==
    ASSUME Inv, BooksInv, NEW o \in Ops, Continue(o),
           NEW t \in Tenants, op[o].tenant = t, t \notin disturbed'
    PROVE  BooksOK(t)'
  <1>0. /\ op \in [Ops -> Op] /\ OpOK(o) /\ AskOK(o) /\ live \subseteq KeyIds
        /\ t \notin disturbed
    BY ContinueShape DEF Inv, BooksInv
  <1>1. At(t, o) /\ AtWork(t, o) /\ \A p \in Ops \ {o} : ~At(t, p)
    BY <1>0, ContinueShape DEF BooksInv, BooksOK, At
  <1>2. \A p \in Ops \ {o} : ~At(t, p)'
    BY <1>1, ContinueShape DEF At
  <1>3. At(t, o)' <=> op'[o].stage # "done"
    BY ContinueShape DEF At
  <1>4. (op'[o].stage # "done" /\ AtWork(t, o)') \/ (op'[o].stage = "done" /\ AtRest(t)')
    <2>1. CASE ProxyDeletes(o)
      <3>1. PICK k \in op[o].todo :
               /\ live' = live \ {k}
               /\ op' = [op EXCEPT ![o].stage = "revoked", ![o].key = k, ![o].todo = @ \ {k}]
        BY <2>1 DEF ProxyDeletes
      <3>2. op[o].stage = "revoke" /\ UNCHANGED <<tenant, key, made>>
        BY <2>1 DEF ProxyDeletes
      <3>3. op'[o].stage = "revoked" /\ op'[o].key = k /\ op'[o].todo = op[o].todo \ {k}
        BY <1>0, <3>1
      <3>4. KeysOf(t)' = KeysOf(t) /\ LiveOf(t)' = LiveOf(t) \ {k} /\ Found(t)' = Found(t)
        BY <3>1, <3>2 DEF KeysOf, LiveOf, Found
      <3>5. Found(t) /\ KeysOf(t) = op[o].todo /\ LiveOf(t) = op[o].todo
        BY <1>1, <3>2 DEF AtWork
      <3>6. op[o].todo = (op[o].todo \ {k}) \cup {k}
        OBVIOUS
      <3> QED BY <3>3, <3>4, <3>5, <3>6 DEF AtWork
    <2>2. CASE RevokeAnswered(o)
      <3> DEFINE k == op[o].key
      <3>1. /\ op[o].stage = "revoked" /\ Revoke(k)
            /\ op' = [op EXCEPT ![o].stage = "revoke", ![o].key = NoValue,
                                ![o].counted = @ \cup {op[o].key}]
            /\ UNCHANGED <<tenant, live, made>>
        BY <2>2 DEF RevokeAnswered
      <3>2. k \in KeyIds /\ key[k] # NoValue /\ k \notin live
        BY <1>0, <3>1 DEF OpOK, Dead
      <3>3. op'[o].stage = "revoke" /\ op'[o].todo = op[o].todo
        BY <1>0, <3>1
      <3>4. KeysOf(t)' = KeysOf(t) \ {k} /\ LiveOf(t)' = LiveOf(t) /\ Found(t)' = Found(t)
        BY <3>1, <3>2, RevokeTakes DEF LiveOf, Found
      <3>5. Found(t) /\ KeysOf(t) = op[o].todo \cup {k} /\ LiveOf(t) = op[o].todo
        BY <1>1, <3>1 DEF AtWork
      <3>6. k \notin op[o].todo
        BY <3>2, <3>5 DEF LiveOf
      <3>7. KeysOf(t)' = op[o].todo
        BY <3>4, <3>5, <3>6
      <3> QED BY <3>3, <3>4, <3>5, <3>7 DEF AtWork
    <2>3. CASE RevokeFails(o)
      BY <2>3 DEF RevokeFails, Fails
    <2>4. CASE RevokedAll(o)
      <3>1. op[o].stage = "revoke" /\ op[o].todo = {} /\ UNCHANGED <<tenant, key, live, made>>
        BY <2>4 DEF RevokedAll
      <3>2. op'[o].stage = "generate"
        BY <1>0, <2>4 DEF RevokedAll
      <3>3. KeysOf(t)' = KeysOf(t) /\ LiveOf(t)' = LiveOf(t) /\ Found(t)' = Found(t)
        BY <3>1 DEF KeysOf, LiveOf, Found
      <3> QED BY <1>1, <3>1, <3>2, <3>3 DEF AtWork
    <2>5. CASE DeleteTenant(o)
      <3>1. op[o].stage = "revoke" /\ op[o].todo = {} /\ UNCHANGED <<key, live, made>>
        BY <2>5 DEF DeleteTenant
      <3>2. op'[o].stage = "done"
        BY <1>0, <2>5 DEF DeleteTenant
      <3>3. KeysOf(t)' = KeysOf(t) /\ LiveOf(t)' = LiveOf(t)
        BY <3>1 DEF KeysOf, LiveOf
      <3>4. tenant'[t] = "deleted"
        BY <1>1, <2>5 DEF DeleteTenant, AtWork, Inv
      <3> QED BY <1>1, <3>1, <3>2, <3>3, <3>4 DEF AtWork, AtRest, Found
    <2>6. CASE ProxyGenerates(o)
      <3>1. PICK k \in KeyIds :
               /\ made[k] = NoValue
               /\ made' = [made EXCEPT ![k] = op[o].tenant]
               /\ live' = live \cup {k}
               /\ op' = [op EXCEPT ![o].stage = "generated", ![o].key = k]
        BY <2>6 DEF ProxyGenerates
      <3>2. op[o].stage = "generate" /\ UNCHANGED <<tenant, key>>
        BY <2>6 DEF ProxyGenerates
      <3>3. op'[o].stage = "generated" /\ op'[o].key = k
        BY <1>0, <3>1
      <3>4. made'[k] = t /\ \A j \in KeyIds \ {k} : made'[j] = made[j]
        BY <3>1 DEF Inv
      <3>5. LiveOf(t)' = LiveOf(t) \cup {k}
        BY <1>0, <3>1, <3>4 DEF LiveOf
      <3>6. KeysOf(t)' = KeysOf(t) /\ Found(t)' = Found(t)
        BY <3>2 DEF KeysOf, Found
      <3> QED BY <1>1, <3>2, <3>3, <3>5, <3>6 DEF AtWork
    <2>7. CASE PutKey(o)
      <3> DEFINE k == op[o].key
                 stored == [tenant |-> t, status |-> "active"]
      <3>1. /\ op[o].stage = "generated" /\ key' = [key EXCEPT ![k] = stored]
            /\ UNCHANGED <<tenant, live, made>>
        BY <2>7 DEF PutKey
      <3>2. op'[o].stage = "done"
        BY <1>0, <2>7 DEF PutKey
      <3>3. k \in KeyIds /\ stored # NoValue /\ stored.tenant = t /\ stored.status = "active"
        BY <1>0, <3>1, TenantAssumption DEF OpOK
      <3> HIDE DEF stored
      <3>4. key'[k] = stored /\ \A j \in KeyIds \ {k} : key'[j] = key[j]
        BY <3>1, <3>3 DEF Inv
      <3>5. KeysOf(t)' = KeysOf(t) \cup {k}
        BY <3>3, <3>4 DEF KeysOf
      <3>6. LiveOf(t)' = LiveOf(t) /\ Found(t)' = Found(t)
        BY <3>1 DEF LiveOf, Found
      <3>7. KeysOf(t)' = {k} /\ LiveOf(t)' = {k} /\ Found(t)'
        BY <1>1, <3>1, <3>5, <3>6 DEF AtWork
      <3> QED BY <3>2, <3>3, <3>7 DEF AtRest
    <2>8. CASE GenerateFails(o)
      BY <2>8 DEF GenerateFails, Fails
    <2> QED BY <2>1, <2>2, <2>3, <2>4, <2>5, <2>6, <2>7, <2>8 DEF Continue
  <1> QED BY <1>2, <1>3, <1>4 DEF BooksOK

\* A request that begins on a tenant at rest takes it over as it is.
LEMMA ArriveBooks ==
    ASSUME Inv, BooksInv, NEW o \in Ops, ArriveOp(o)
    PROVE  BooksInv'
  <1>1. PICK t \in Tenants : StartCreate(o, t) \/ StartDelete(o, t) \/ StartRotate(o, t)
    BY DEF ArriveOp
  <1>2. /\ op[o].stage = "new" /\ op[o].tenant = NoValue /\ op \in [Ops -> Op]
        /\ UNCHANGED <<key, live, made>>
        /\ \A u \in Tenants : KeysOf(u)' = KeysOf(u) /\ LiveOf(u)' = LiveOf(u)
        /\ disturbed' = IF Busy(t) THEN disturbed \cup {t} ELSE disturbed
    BY <1>1 DEF StartCreate, StartDelete, StartRotate, Start, BooksInv, AskOK, Inv, KeysOf, LiveOf
  <1>3. \A p \in Ops \ {o} : op'[p] = op[p]
    BY <1>1, <1>2 DEF StartCreate, StartDelete, StartRotate, Start
  <1>4. /\ op'[o].tenant = t /\ op'[o].key = NoValue
        /\ \/ op'[o].stage = "generate" /\ op'[o].todo = {} /\ tenant[t] = "none"
           \/ op'[o].stage = "revoke" /\ op'[o].todo = KeysOf(t) /\ Found(t)
    BY <1>1, <1>2 DEF StartCreate, StartDelete, StartRotate, Start
  <1>5. Found(t)' /\ \A u \in Tenants \ {t} : tenant'[u] = tenant[u]
    BY <1>1 DEF StartCreate, StartDelete, StartRotate, Found, Inv
  <1>6. ASSUME NEW p \in Ops PROVE AskOK(p)'
    <2>1. CASE p = o
      BY <1>2, <1>4, <2>1 DEF AskOK, KeysOf
    <2>2. CASE p # o
      BY <1>2, <1>3, <2>2 DEF AskOK, BooksInv
    <2> QED BY <2>1, <2>2
  <1>7. ASSUME NEW u \in Tenants, u \notin disturbed', u # t PROVE BooksOK(u)'
    <2>1. BooksOK(u)
      BY <1>2, <1>7 DEF BooksInv
    <2>2. \A p \in Ops : op'[p] = op[p] \/ (~At(u, p) /\ ~At(u, p)')
      BY <1>2, <1>3, <1>4, <1>7, TenantAssumption DEF At
    <2> QED BY <1>2, <1>5, <1>7, <2>1, <2>2, Untouched
  <1>8. ASSUME t \notin disturbed' PROVE BooksOK(t)'
    <2>1. \A p \in Ops : ~At(t, p)
      BY <1>2, <1>8 DEF Busy, At
    <2>2. AtRest(t)
      BY <1>2, <1>8, <2>1 DEF BooksInv, BooksOK
    <2>3. \A p \in Ops \ {o} : ~At(t, p)'
      BY <1>3, <2>1 DEF At
    <2>4. AtWork(t, o)'
      BY <1>2, <1>4, <1>5, <2>2 DEF AtWork, AtRest, Found
    <2>5. At(t, o)'
      BY <1>4 DEF At
    <2> QED BY <2>3, <2>4, <2>5 DEF BooksOK
  <1> QED BY <1>6, <1>7, <1>8 DEF BooksInv

\* The books are kept by every step.
LEMMA BooksStep == Inv /\ BooksInv /\ [TenantsNext]_tenantVars => BooksInv'
  <1> SUFFICES ASSUME Inv, BooksInv, [TenantsNext]_tenantVars PROVE BooksInv'
    OBVIOUS
  <1>1. CASE UNCHANGED tenantVars
    BY <1>1 DEF tenantVars, BooksInv, BooksOK, AskOK, At, AtWork, AtRest, LiveOf, KeysOf, Found
  <1>2. ASSUME NEW o \in Ops, ArriveOp(o) PROVE BooksInv'
    BY <1>2, ArriveBooks
  <1>3. ASSUME NEW o \in Ops, Continue(o) PROVE BooksInv'
    <2>1. \A p \in Ops : AskOK(p)'
      BY <1>3, AsksKept DEF BooksInv
    <2>2. ASSUME NEW t \in Tenants, t \notin disturbed', op[o].tenant # t PROVE BooksOK(t)'
      <3>1. BooksOK(t)
        BY <1>3, <2>2, ContinueShape DEF BooksInv
      <3>2. KeysOf(t)' = KeysOf(t) /\ LiveOf(t)' = LiveOf(t) /\ tenant'[t] = tenant[t]
        BY <1>3, <2>2, Elsewhere
      <3>3. \A p \in Ops : op'[p] = op[p] \/ (~At(t, p) /\ ~At(t, p)')
        BY <1>3, <2>2, ContinueShape DEF At
      <3> QED BY <3>1, <3>2, <3>3, Untouched
    <2>3. ASSUME NEW t \in Tenants, t \notin disturbed', op[o].tenant = t PROVE BooksOK(t)'
      BY <1>3, <2>3, OwnStep
    <2> QED BY <2>1, <2>2, <2>3 DEF BooksInv
  <1>4. ASSUME NEW t \in Tenants, NEW s \in TenantStatus \ {"none"}, Update(t, s) PROVE BooksInv'
    <2>1. /\ tenant' = [tenant EXCEPT ![t] = s] /\ disturbed' = disturbed \cup {t}
          /\ UNCHANGED <<key, live, made, op>>
      BY <1>4 DEF Update
    <2>2. \A p \in Ops : AskOK(p)'
      BY <2>1 DEF BooksInv, AskOK
    <2>3. ASSUME NEW u \in Tenants, u \notin disturbed' PROVE BooksOK(u)'
      <3>1. BooksOK(u) /\ tenant'[u] = tenant[u]
        BY <2>1, <2>3 DEF BooksInv, Inv
      <3>2. KeysOf(u)' = KeysOf(u) /\ LiveOf(u)' = LiveOf(u) /\ \A p \in Ops : op'[p] = op[p]
        BY <2>1 DEF KeysOf, LiveOf
      <3> QED BY <3>1, <3>2, Untouched
    <2> QED BY <2>2, <2>3 DEF BooksInv
  <1> QED BY <1>1, <1>2, <1>3, <1>4 DEF TenantsNext

\* One key for a tenant that exists and none for a deleted one, the proxy and the
\* store agree, and what DELETE reports is dead: for any number of tenants, keys
\* and overlapping requests.
THEOREM KeysAreAccounted == TenantsSpec => []KeysAccounted
  <1>1. Inv /\ BooksInv => KeysAccounted
    <2> SUFFICES ASSUME Inv, BooksInv, NEW t \in Tenants, t \notin disturbed, ~Busy(t)
                 PROVE  /\ Cardinality(KeysOf(t)) = (IF Found(t) THEN 1 ELSE 0)
                        /\ {k \in live : made[k] = t} = KeysOf(t)
      BY InvCounted DEF KeysAccounted, Provisioned
    <2>1. AtRest(t)
      BY DEF BooksInv, BooksOK, Busy, At
    <2>2. CASE Found(t)
      BY <2>1, <2>2, FS_Singleton DEF AtRest, LiveOf
    <2>3. CASE ~Found(t)
      BY <2>1, <2>3, FS_EmptySet DEF AtRest, LiveOf
    <2> QED BY <2>2, <2>3
  <1>2. Inv /\ BooksInv /\ [TenantsNext]_tenantVars => BooksInv'
    BY BooksStep
  <1> QED BY <1>1, <1>2, BooksInit, TenantsInvariant, PTL DEF TenantsSpec

=============================================================================
