----------------------------- MODULE TenantKeys -----------------------------
(***************************************************************************)
(* Tenants and their virtual keys at the LiteLLM proxy.  The handlers of   *)
(* /api/tenants await the proxy between reading and writing the store, so  *)
(* several of them interleave; a call to the proxy may fail before or      *)
(* after it took effect.  Tiers, budgets and allowlists are left out.      *)
(***************************************************************************)
EXTENDS FiniteSets, Integers

CONSTANTS Tenants,   \* tenant ids, each given out once
          KeyIds,    \* keys the proxy may generate, each once
          Ops,       \* requests to the endpoints
          NoValue

VARIABLES
    tenant,    \* status of each tenant
    key,       \* _keys: the tenant and the status of each key in the store
    live,      \* keys the proxy accepts
    made,      \* keys the proxy has generated, and for whom
    op,        \* where each request is
    disturbed  \* history: tenants with a failed call, overlapping requests or a
               \* status set by hand

tenantVars == <<tenant, key, live, made, op, disturbed>>

TenantStatus == {"none", "active", "suspended", "deleted"}
TenantKey == [tenant : Tenants, status : {"active", "deleted"}]
Kind == {"create", "delete", "rotate"}
OpStage == {"new", "revoke", "revoked", "generate", "generated", "done"}
Op == [kind : Kind \cup {NoValue}, tenant : Tenants \cup {NoValue}, stage : OpStage,
       todo : SUBSET KeyIds, key : KeyIds \cup {NoValue}, counted : SUBSET KeyIds]

ASSUME TenantAssumption == NoValue \notin Tenants \cup KeyIds \cup TenantKey

TenantsTypeOK ==
    /\ tenant \in [Tenants -> TenantStatus]
    /\ key \in [KeyIds -> TenantKey \cup {NoValue}]
    /\ made \in [KeyIds -> Tenants \cup {NoValue}]
    /\ live \subseteq {k \in KeyIds : made[k] # NoValue}
    /\ op \in [Ops -> Op]
    /\ disturbed \subseteq Tenants

TenantsInit ==
    /\ tenant = [t \in Tenants |-> "none"]
    /\ key = [k \in KeyIds |-> NoValue]
    /\ live = {}
    /\ made = [k \in KeyIds |-> NoValue]
    /\ op = [o \in Ops |-> [kind |-> NoValue, tenant |-> NoValue, stage |-> "new",
                            todo |-> {}, key |-> NoValue, counted |-> {}]]
    /\ disturbed = {}

\* get_tenant: suspended tenants are found, deleted ones are not.
Found(t) == tenant[t] \in {"active", "suspended"}

\* get_keys_for_tenant
KeysOf(t) == {k \in KeyIds : key[k] # NoValue /\ key[k].tenant = t /\ key[k].status = "active"}

Busy(t) == \E o \in Ops : op[o].tenant = t /\ op[o].stage # "done"

\* A request on a tenant another request is still working on.
Start(o, kind, t, stage, todo) ==
    /\ op[o].stage = "new"
    /\ op' = [op EXCEPT ![o] = [kind |-> kind, tenant |-> t, stage |-> stage,
                                todo |-> todo, key |-> NoValue, counted |-> {}]]
    /\ disturbed' = IF Busy(t) THEN disturbed \cup {t} ELSE disturbed

-----------------------------------------------------------------------------
(* The first segment of each handler, up to its first await                  *)

StartCreate(o, t) ==
    /\ tenant[t] = "none"
    /\ tenant' = [tenant EXCEPT ![t] = "active"]
    /\ Start(o, "create", t, "generate", {})
    /\ UNCHANGED <<key, live, made>>

StartDelete(o, t) ==
    /\ Found(t)
    /\ Start(o, "delete", t, "revoke", KeysOf(t))
    /\ UNCHANGED <<tenant, key, live, made>>

StartRotate(o, t) ==
    /\ Found(t)
    /\ Start(o, "rotate", t, "revoke", KeysOf(t))
    /\ UNCHANGED <<tenant, key, live, made>>

\* Mutant of Update: the tenant is not looked up first.
UpdateAny(t, status) ==
    /\ tenant[t] # "none"
    /\ tenant' = [tenant EXCEPT ![t] = status]
    /\ disturbed' = disturbed \cup {t}
    /\ UNCHANGED <<key, live, made, op>>

\* PATCH may set the status like any other field; it revokes no key.
Update(t, status) ==
    /\ Found(t)
    /\ status # tenant[t]
    /\ tenant' = [tenant EXCEPT ![t] = status]
    /\ disturbed' = disturbed \cup {t}
    /\ UNCHANGED <<key, live, made, op>>

-----------------------------------------------------------------------------
(* The calls to the proxy (external)                                        *)

\* A call times out, or the proxy is down: its answer is an error, whether it
\* took effect or not.
Fails(t) == disturbed' = disturbed \cup {t}

ProxyDeletes(o) ==
    /\ op[o].stage = "revoke"
    /\ \E k \in op[o].todo :
         /\ live' = live \ {k}
         /\ op' = [op EXCEPT ![o].stage = "revoked", ![o].key = k,
                             ![o].todo = @ \ {k}]
    /\ UNCHANGED <<tenant, key, made, disturbed>>

ProxyGenerates(o) ==
    /\ op[o].stage = "generate"
    /\ \E k \in KeyIds :
         /\ made[k] = NoValue
         /\ made' = [made EXCEPT ![k] = op[o].tenant]
         /\ live' = live \cup {k}
         /\ op' = [op EXCEPT ![o].stage = "generated", ![o].key = k]
    /\ UNCHANGED <<tenant, key, disturbed>>

-----------------------------------------------------------------------------
(* What the handlers do with the answers                                    *)

\* revoke_key
Revoke(k) == key' = [key EXCEPT ![k].status = "deleted"]

\* The proxy has confirmed: both handlers revoke the key in the store.
RevokeAnswered(o) ==
    /\ op[o].stage = "revoked"
    /\ Revoke(op[o].key)
    /\ op' = [op EXCEPT ![o].stage = "revoke", ![o].key = NoValue,
                        ![o].counted = @ \cup {op[o].key}]
    /\ UNCHANGED <<tenant, live, made, disturbed>>

\* Mutant of AfterFailure: a key whose deletion failed is counted all the same.
AfterFailureCount(o, k) ==
    /\ Revoke(k)
    /\ op' = [op EXCEPT ![o].stage = "revoke", ![o].key = NoValue, ![o].todo = @ \ {k},
                        ![o].counted = @ \cup {k}]

\* After an error DELETE passes on to the next key, rotate revokes it all the same.
AfterFailure(o, k) ==
    /\ IF op[o].kind = "rotate" THEN Revoke(k) ELSE key' = key
    /\ op' = [op EXCEPT ![o].stage = "revoke", ![o].key = NoValue, ![o].todo = @ \ {k}]

RevokeFails(o) ==
    /\ \/ op[o].stage = "revoked" /\ AfterFailure(o, op[o].key)
       \/ op[o].stage = "revoke" /\ \E k \in op[o].todo : AfterFailure(o, k)
    /\ Fails(op[o].tenant)
    /\ UNCHANGED <<tenant, live, made>>

\* Rotate goes on to the new key without looking at the tenant again.
RevokedAll(o) ==
    /\ op[o].stage = "revoke" /\ op[o].todo = {}
    /\ op[o].kind = "rotate"
    /\ op' = [op EXCEPT ![o].stage = "generate"]
    /\ UNCHANGED <<tenant, key, live, made, disturbed>>

\* DELETE ends with delete_tenant, which raises if the tenant is gone already.
DeleteTenant(o) ==
    /\ op[o].stage = "revoke" /\ op[o].todo = {}
    /\ op[o].kind = "delete"
    /\ tenant' = IF Found(op[o].tenant) THEN [tenant EXCEPT ![op[o].tenant] = "deleted"]
                 ELSE tenant
    /\ op' = [op EXCEPT ![o].stage = "done"]
    /\ UNCHANGED <<key, live, made, disturbed>>

\* put_key
PutKey(o) ==
    /\ op[o].stage = "generated"
    /\ key' = [key EXCEPT ![op[o].key] = [tenant |-> op[o].tenant, status |-> "active"]]
    /\ op' = [op EXCEPT ![o].stage = "done"]
    /\ UNCHANGED <<tenant, live, made, disturbed>>

\* Without a key: create answers that none was provisioned, rotate with 502.
GenerateFails(o) ==
    /\ op[o].stage \in {"generate", "generated"}
    /\ op' = [op EXCEPT ![o].stage = "done"]
    /\ Fails(op[o].tenant)
    /\ UNCHANGED <<tenant, key, live, made>>

-----------------------------------------------------------------------------

ArriveOp(o) ==
    \E t \in Tenants : StartCreate(o, t) \/ StartDelete(o, t) \/ StartRotate(o, t)

Continue(o) ==
    \/ ProxyDeletes(o) \/ RevokeAnswered(o) \/ RevokeFails(o) \/ RevokedAll(o)
    \/ DeleteTenant(o) \/ ProxyGenerates(o) \/ PutKey(o) \/ GenerateFails(o)

TenantsNext ==
    \/ \E o \in Ops : ArriveOp(o) \/ Continue(o)
    \/ \E t \in Tenants, s \in TenantStatus \ {"none"} : Update(t, s)

TenantsSpec == TenantsInit /\ [][TenantsNext]_tenantVars

-----------------------------------------------------------------------------

\* What the store and the proxy agree on as long as nothing went wrong: when no
\* call failed, no two requests overlapped and no status was set by hand, a
\* tenant that exists has exactly one key, a deleted one has none, and the proxy
\* accepts just these.
Provisioned ==
    \A t \in Tenants : t \notin disturbed /\ ~Busy(t) =>
        /\ Cardinality(KeysOf(t)) = (IF Found(t) THEN 1 ELSE 0)
        /\ {k \in live : made[k] = t} = KeysOf(t)

\* The keys DELETE reports as revoked are dead at the proxy and in the store,
\* whatever failed and whoever else was at work (delete_tenant counts only what
\* the proxy confirmed).
CountedAreDead ==
    \A o \in Ops : op[o].kind = "delete" =>
        \A k \in op[o].counted : k \notin live /\ key[k].status = "deleted"

\* A key of the store belongs to the tenant the proxy made it for.
KeysWellOwned == \A k \in KeyIds : key[k] # NoValue => made[k] = key[k].tenant

\* A deleted tenant never comes back, although PATCH and DELETE overlap with
\* requests that found the tenant before.
DeletedForGood ==
    [][\A t \in Tenants : tenant[t] = "deleted" => tenant'[t] = "deleted"]_tenantVars

\* A revoked key is never accepted again by the store, rotations that began
\* earlier included.
RevokedForGood ==
    [][\A k \in KeyIds : key[k] # NoValue /\ key[k].status = "deleted"
         => key'[k] = key[k]]_tenantVars

\* Neither a deleted tenant nor a revoked key comes back.
ForGood == DeletedForGood /\ RevokedForGood

\* The store, the proxy and the answers of DELETE agree on the keys.
KeysAccounted == Provisioned /\ CountedAreDead
=============================================================================
