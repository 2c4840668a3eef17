-------------------------- MODULE CatalogLifecycle --------------------------
(***************************************************************************)
(* Bindings of files to catalogue entities, and the snapshots by which the *)
(* catalogue tells the service what became of an entity                    *)
(* (store/catalog_lifecycle.go, handler/catalog_lifecycle.go): it was      *)
(* saved, merged into another one, or deleted.                             *)
(*                                                                         *)
(* The catalogue is external.  Its outbox delivers a snapshot until it is  *)
(* acknowledged, so that every snapshot ever taken may come late, twice,   *)
(* beside another one and in any order.  Bind and ApplyCatalogLifecycle    *)
(* are transactions under one advisory lock; Unbind takes no lock.  Of the *)
(* cleanup worker only this is here: a file that nothing is bound to may   *)
(* pass the point where its deletion cannot be called off.                 *)
(***************************************************************************)
EXTENDS Naturals, FiniteSets

CONSTANTS
    Asset,      \* files
    Entity,     \* catalogue entities
    Role,       \* binding_role
    Cover,      \* the role "cover_image"
    BindingId,  \* storage.bindings.id, ordered like its text form
    Binder,     \* requests that bind a file
    Delivery,   \* requests POST /internal/catalog/lifecycle
    Nobody,
    MaxTime     \* bound of the model: timed events

ASSUME CatalogAssumption ==
    /\ Cover \in Role
    /\ BindingId \subseteq Nat
    /\ Nobody \notin Binder \cup Delivery /\ Binder \cap Delivery = {}
    /\ MaxTime \in Nat

VARIABLES
    catalog,   \* the catalogue's own tables
    sent,      \* snapshots it has taken
    bindings,  \* storage.bindings
    receipt,   \* storage.catalog_lifecycle_state
    reclaimed, \* files whose row is marked reclaim_deleting, or is gone
    lock,      \* holder of the advisory lock catalogLifecycleLockID
    binder,    \* local state of the requests that bind
    delivery,  \* local state of the deliveries
    now        \* every write, withdrawal and failure has its own time

catalogVars == <<catalog, sent, bindings, receipt, reclaimed, lock, binder, delivery,
                 now>>

-----------------------------------------------------------------------------
(* State *)

Time == 0 .. MaxTime

Version == 1 .. MaxTime + 1

\* canonical: the entity that this one is merged into, or itself; the last two
\* are of canonical entities.
CatalogEntry == [canonical : Entity,
                 version : Version,
                 deleted : BOOLEAN,
                 covers : SUBSET Asset,
                 savedAt : Time]

Binding == [id : BindingId, asset : Asset, entity : Entity, role : Role,
            confirmed : Time]

\* A row of catalog_lifecycle_state; version 0: there is none.
Receipt == [version : 0 .. MaxTime + 1,
            state : {"none", "active", "merged", "deleted"},
            canonical : Entity]

NoReceipt(e) == [version |-> 0, state |-> "none", canonical |-> e]

\* versions: of the entity and of its aliases.
Snapshot == [entity : Entity,
             deleted : BOOLEAN,
             aliases : SUBSET Entity,
             versions : [Entity -> 0 .. MaxTime + 1],
             covers : SUBSET Asset,
             savedAt : Time]

\* resolved: the catalogue has named the canonical entity; begun: transaction
\* open; checked: lock held, target accepted; bound: committed.
Idle == [pc |-> "idle"]

BinderState == {Idle} \cup [pc : {"resolved", "begun", "checked"},
                            asset : Asset,
                            entity : Entity,
                            role : Role,
                            began : Time]

DeliveryState == {Idle} \cup [pc : {"applying"}, snapshot : Snapshot]

Tick == now < MaxTime /\ now' = now + 1

Aliases(c, e) == {x \in Entity \ {e} : c[x].canonical = e}

\* What the catalogue sends for a canonical entity, from its tables c.
SnapshotOf(c, e) ==
    [entity |-> e,
     deleted |-> c[e].deleted,
     aliases |-> Aliases(c, e),
     versions |-> [x \in Entity |-> IF x \in Aliases(c, e) \cup {e}
                                    THEN c[x].version ELSE 0],
     covers |-> c[e].covers,
     savedAt |-> c[e].savedAt]

\* The catalogue with the entities of live.
Catalogue(live) ==
    [e \in Entity |-> [canonical |-> e, version |-> 1, deleted |-> e \notin live,
                       covers |-> {}, savedAt |-> 0]]

\* The state at time t, with the catalogue c that was c0 at the start, the
\* bindings bs, and nothing told yet of the entities that live.
StartWith(c0, c, bs, t) ==
    /\ catalog = c
    /\ sent = UNION {{SnapshotOf(x, e) : e \in {y \in Entity : x[y].canonical = y}} :
                       x \in {c0, c}}
    /\ bindings = bs
    /\ receipt = [e \in Entity |->
                    IF c0[e].deleted
                    THEN [version |-> 1, state |-> "deleted", canonical |-> e]
                    ELSE NoReceipt(e)]
    /\ reclaimed = {}
    /\ lock = Nobody
    /\ binder = [b \in Binder |-> Idle]
    /\ delivery = [d \in Delivery |-> Idle]
    /\ now = t

CatalogInit == StartWith(Catalogue(Entity), Catalogue(Entity), {}, 0)

-----------------------------------------------------------------------------
(* The catalogue *)

Canonical(e) == catalog[e].canonical = e /\ ~catalog[e].deleted

\* The tables become c, which shows in a snapshot of entity e.
Publish(c, e) ==
    /\ catalog' = c
    /\ sent' = sent \cup {SnapshotOf(c, e)}
    /\ UNCHANGED <<bindings, receipt, reclaimed, lock, binder, delivery>>

\* A write to an entity, which may change its pictures.
Save(e, covers) ==
    /\ Canonical(e)
    /\ Tick
    /\ Publish([catalog EXCEPT ![e].version = @ + 1,
                               ![e].covers = covers,
                               ![e].savedAt = now + 1], e)

\* Entity s and its aliases become aliases of e, which takes over the pictures.
\* A merge is a write to s; whether it is one to e (bump = 1) is left open.
Merged(s, e, bump, t) ==
    [x \in Entity |->
        IF x = e
        THEN [catalog[e] EXCEPT !.covers = @ \cup catalog[s].covers,
                                !.version = @ + bump,
                                !.savedAt = IF bump = 1 THEN t ELSE @]
        ELSE IF catalog[x].canonical = s
        THEN [canonical |-> e, deleted |-> FALSE, covers |-> {}, savedAt |-> 0,
              version |-> catalog[x].version + (IF x = s THEN 1 ELSE 0)]
        ELSE catalog[x]]

Merge(s, e) ==
    /\ Canonical(s) /\ Canonical(e) /\ s # e
    /\ Tick
    /\ \E bump \in {0, 1} : Publish(Merged(s, e, bump, now + 1), e)

Delete(e) ==
    /\ Canonical(e)
    /\ Tick
    /\ Publish([catalog EXCEPT ![e].version = @ + 1,
                               ![e].deleted = TRUE,
                               ![e].savedAt = now + 1], e)

-----------------------------------------------------------------------------
(* Bind *)

Retired(e) == receipt[e].state \in {"merged", "deleted"}

BindersAtWork == {b \in Binder : binder[b].pc # "idle"}

Release(x) == lock' = IF lock = x THEN Nobody ELSE lock

LeaveBind(b) == binder' = [binder EXCEPT ![b] = Idle]

\* Identity: the catalogue resolves a merged entity, and answers "not found" of a
\* deleted one.
Living(e) == ~catalog[catalog[e].canonical].deleted

\* bind asks the catalogue, and createBinding takes the canonical entity.
Resolve(b, a, e, role) ==
    LET c == catalog[e].canonical
    IN  /\ binder[b].pc = "idle"
        /\ Cardinality(bindings) + Cardinality(BindersAtWork) < Cardinality(BindingId)
        /\ Living(e)
        /\ binder' = [binder EXCEPT ![b] = [pc |-> "resolved", asset |-> a, entity |-> c,
                                            role |-> role, began |-> 0]]
        /\ UNCHANGED <<catalog, sent, bindings, receipt, reclaimed, lock, delivery, now>>

\* BeginTx: now() of the transaction is this moment, however long it waits.
BeginBind(b) ==
    /\ binder[b].pc = "resolved"
    /\ Tick
    /\ binder' = [binder EXCEPT ![b].pc = "begun", ![b].began = now + 1]
    /\ UNCHANGED <<catalog, sent, bindings, receipt, reclaimed, lock, delivery>>

\* Faulty variant: the target is checked before the lock is taken.
CheckTargetUnlocked(b) ==
    /\ binder[b].pc = "begun"
    /\ IF Retired(binder[b].entity)
       THEN LeaveBind(b)
       ELSE binder' = [binder EXCEPT ![b].pc = "checked"]
    /\ UNCHANGED <<catalog, sent, bindings, receipt, reclaimed, lock, delivery, now>>

\* checkCatalogBindingTarget: 409 binding_target_changed for a retired entity;
\* one that no snapshot has told of is accepted.
CheckTarget(b) ==
    /\ binder[b].pc = "begun"
    /\ lock = Nobody
    /\ \/ /\ Retired(binder[b].entity)
          /\ LeaveBind(b)
          /\ UNCHANGED lock
       \/ /\ ~Retired(binder[b].entity)
          /\ binder' = [binder EXCEPT ![b].pc = "checked"]
          /\ lock' = b
    /\ UNCHANGED <<catalog, sent, bindings, receipt, reclaimed, delivery, now>>

SameReference(x, y) == x.asset = y.asset /\ x.entity = y.entity /\ x.role = y.role

FreeId == BindingId \ {x.id : x \in bindings}

\* A repeated Bind confirms the reference that is there.
Upsert(new) ==
    IF \E old \in bindings : SameReference(old, new)
    THEN {IF SameReference(old, new) THEN [old EXCEPT !.confirmed = new.confirmed] ELSE old
             : old \in bindings}
    ELSE bindings \cup {new}

\* Bind looks at the file's row under its lock, inserts and commits; 409 for a
\* file that is being deleted, 404 for one that is gone.
CommitBind(b) ==
    LET r == binder[b]
    IN  /\ r.pc = "checked"
        /\ IF r.asset \in reclaimed
           THEN UNCHANGED bindings
           ELSE \E id \in FreeId :
                  bindings' = Upsert([id |-> id, asset |-> r.asset, entity |-> r.entity,
                                      role |-> r.role, confirmed |-> r.began])
        /\ LeaveBind(b)
        /\ Release(b)
        /\ UNCHANGED <<catalog, sent, receipt, reclaimed, delivery, now>>

\* The client goes away or a call fails: the transaction is rolled back.
AbortBind(b) ==
    /\ binder[b].pc # "idle"
    /\ Tick
    /\ LeaveBind(b)
    /\ Release(b)
    /\ UNCHANGED <<catalog, sent, bindings, receipt, reclaimed, delivery>>

Unbind(x) ==
    /\ Tick
    /\ bindings' = bindings \ {x}
    /\ UNCHANGED <<catalog, sent, receipt, reclaimed, lock, binder, delivery>>

\* The cleanup worker marks the row, which no binding refers to.
Reclaim(a) ==
    /\ Tick
    /\ a \notin reclaimed
    /\ \A x \in bindings : x.asset # a
    /\ reclaimed' = reclaimed \cup {a}
    /\ UNCHANGED <<catalog, sent, bindings, receipt, lock, binder, delivery>>

-----------------------------------------------------------------------------
(* Deliveries of snapshots *)

Ids(s) == {s.entity} \cup s.aliases

\* Faulty variant: only the versions are compared.
StaleByVersionOnly(s) == \E e \in Ids(s) : receipt[e].version > s.versions[e]

\* Faulty variant: only the sets of aliases are compared.
StaleByAliasesOnly(s) ==
    \E e \in Entity \ Ids(s) : receipt[e].version > 0 /\ receipt[e].canonical = s.entity

\* Faulty variant: a snapshot of the version that is there is taken for old.
StaleUnlessNewer(s) ==
    \/ \E e \in Ids(s) : receipt[e].version > 0 /\ receipt[e].version >= s.versions[e]
    \/ \E e \in Entity \ Ids(s) : receipt[e].version > 0 /\ receipt[e].canonical = s.entity

\* Newer versions are known, or an alias that the snapshot does not know of.
Stale(s) ==
    \/ \E e \in Ids(s) : receipt[e].version > s.versions[e]
    \/ \E e \in Entity \ Ids(s) : receipt[e].version > 0 /\ receipt[e].canonical = s.entity

\* The lock is taken and the receipts are read; an old snapshot is answered ok.
BeginApply(d, s) ==
    /\ delivery[d].pc = "idle"
    /\ lock = Nobody
    /\ IF Stale(s)
       THEN UNCHANGED <<delivery, lock>>
       ELSE /\ delivery' = [delivery EXCEPT ![d] = [pc |-> "applying", snapshot |-> s]]
            /\ lock' = d
    /\ UNCHANGED <<catalog, sent, bindings, receipt, reclaimed, binder, now>>

OfEntities(es) == {x \in bindings : x.entity \in es}

\* Faulty variant: of two sources of one reference neither is kept.
SurplusBoth(s) ==
    {x \in OfEntities(s.aliases) :
        \E keep \in OfEntities(Ids(s)) \ {x} : keep.asset = x.asset /\ keep.role = x.role}

\* Faulty variant: only a binding of the canonical entity is looked for.
SurplusBesideCanonical(s) ==
    {x \in OfEntities(s.aliases) :
        \E keep \in OfEntities({s.entity}) : keep.asset = x.asset /\ keep.role = x.role}

\* Of the bindings of a file in one role, the one of the canonical entity
\* stays; without one, the source binding with the smallest id.
Surplus(s) ==
    {x \in OfEntities(s.aliases) :
        \E keep \in OfEntities(Ids(s)) :
            /\ keep.asset = x.asset /\ keep.role = x.role
            /\ keep.entity = s.entity \/ keep.id < x.id}

\* What the bindings of the canonical entity become.
Moved(s) == {[x EXCEPT !.entity = s.entity] : x \in OfEntities(Ids(s)) \ Surplus(s)}

Withdrawn(s) ==
    {x \in Moved(s) : x.role = Cover /\ x.asset \notin s.covers /\ x.confirmed <= s.savedAt}

Receipts(s) ==
    [e \in Entity |->
        IF e \in Ids(s)
        THEN [version |-> s.versions[e],
              state |-> IF s.deleted THEN "deleted"
                        ELSE IF e = s.entity THEN "active" ELSE "merged",
              canonical |-> s.entity]
        ELSE receipt[e]]

\* ApplyCatalogLifecycle does its writes and commits.
CommitApply(d) ==
    LET s == delivery[d].snapshot
    IN  /\ delivery[d].pc = "applying"
        /\ bindings' = (bindings \ OfEntities(Ids(s)))
                         \cup (IF s.deleted THEN {} ELSE Moved(s) \ Withdrawn(s))
        /\ receipt' = Receipts(s)
        /\ delivery' = [delivery EXCEPT ![d] = Idle]
        /\ Release(d)
        /\ UNCHANGED <<catalog, sent, reclaimed, binder, now>>

\* A call fails or the caller goes away: rolled back, and 500 at most.
AbortApply(d) ==
    /\ delivery[d].pc = "applying"
    /\ Tick
    /\ delivery' = [delivery EXCEPT ![d] = Idle]
    /\ Release(d)
    /\ UNCHANGED <<catalog, sent, bindings, receipt, reclaimed, binder>>

-----------------------------------------------------------------------------
(* Specification *)

CatalogueWrites ==
    \/ \E e \in Entity, covers \in SUBSET Asset : Save(e, covers)
    \/ \E s, e \in Entity : Merge(s, e)
    \/ \E e \in Entity : Delete(e)

Binds(b) ==
    \/ \E a \in Asset, e \in Entity, role \in Role : Resolve(b, a, e, role)
    \/ BeginBind(b)
    \/ CheckTarget(b)
    \/ CommitBind(b)
    \/ AbortBind(b)

Delivers(d) ==
    \/ \E s \in sent : BeginApply(d, s)
    \/ CommitApply(d)
    \/ AbortApply(d)

CatalogNext ==
    \/ CatalogueWrites
    \/ \E b \in Binder : Binds(b)
    \/ \E d \in Delivery : Delivers(d)
    \/ \E x \in bindings : Unbind(x)
    \/ \E a \in Asset : Reclaim(a)

\* The catalogue delivers the snapshot it has of an entity again until one is
\* acknowledged; a transaction that holds the lock ends.
CatalogFairness ==
    /\ \A b \in Binder : WF_catalogVars(CommitBind(b))
    /\ \A d \in Delivery : WF_catalogVars(CommitApply(d))
    /\ \A e \in Entity :
         SF_catalogVars(\E d \in Delivery :
             catalog[e].canonical = e /\ BeginApply(d, SnapshotOf(catalog, e)))

CatalogSpec == CatalogInit /\ [][CatalogNext]_catalogVars /\ CatalogFairness

-----------------------------------------------------------------------------
(* Properties *)

\* With the keys of storage.bindings: moving two bindings of one file in one role
\* to the same entity would fail, and the snapshot could never be applied.
CatalogTypeOK ==
    /\ catalog \in [Entity -> CatalogEntry]
    /\ sent \subseteq Snapshot
    /\ bindings \subseteq Binding
    /\ \A x, y \in bindings : x.id = y.id \/ SameReference(x, y) => x = y
    /\ receipt \in [Entity -> Receipt]
    /\ reclaimed \subseteq Asset
    /\ lock \in {Nobody} \cup Binder \cup Delivery
    /\ binder \in [Binder -> BinderState]
    /\ delivery \in [Delivery -> DeliveryState]
    /\ now \in Time

\* Once the service has been told that an entity was merged or deleted, no
\* binding names it: neither one that a Bind under way brings in afterwards, nor
\* one that an old snapshot moves back.
NoBindingToRetired == \A x \in bindings : ~Retired(x.entity)

\* The version that a receipt carries never goes back.
VersionsNeverGoBack == [][\A e \in Entity : receipt'[e].version >= receipt[e].version]_catalogVars

\* The receipt of e says what the catalogue's tables say.
InSync(e) ==
    LET c == catalog[e].canonical
    IN  receipt[e] = [version |-> catalog[e].version,
                      state |-> IF catalog[c].deleted THEN "deleted"
                                ELSE IF e = c THEN "active" ELSE "merged",
                      canonical |-> c]

CoverOf(e, a) == [asset |-> a, entity |-> e, role |-> Cover]

References(bs) == {[asset |-> x.asset, entity |-> x.entity, role |-> x.role] : x \in bs}

\* A snapshot that comes late or again, of any age and with any set of aliases,
\* does not take the receipt of an entity away from the truth; nor, once the
\* receipts of an entity and of its aliases are true, the binding of a picture
\* that the catalogue shows.
RedeliveryHarmless ==
    [][catalog' = catalog =>
         /\ \A e \in Entity : InSync(e) => InSync(e)'
         /\ \A e \in Entity : \A a \in catalog[e].covers :
              /\ \E d \in Delivery : CommitApply(d)
              /\ Canonical(e)
              /\ \A x \in Aliases(catalog, e) \cup {e} : InSync(x)
              /\ CoverOf(e, a) \in References(bindings)
              => CoverOf(e, a) \in References(bindings')]_catalogVars

\* A merge loses no file: what was bound to an alias or to the entity, in any
\* role, is bound to the entity in that role afterwards.  Covers that the
\* snapshot does not show are the exception, and of those only the ones that are
\* older than the snapshot -- or that had an older binding beside them.
FilesSurviveMerge ==
    [][\A d \in Delivery : CommitApply(d) /\ ~delivery[d].snapshot.deleted =>
         LET s == delivery[d].snapshot
             Same(x) == {y \in OfEntities(Ids(s)) : y.asset = x.asset /\ y.role = x.role}
         IN  \A x \in OfEntities(Ids(s)) :
               \/ x.role # Cover
               \/ x.asset \in s.covers
               \/ x.confirmed > s.savedAt /\ Same(x) = {x}
               => \E y \in bindings' : /\ y.asset = x.asset
                                       /\ y.entity = s.entity
                                       /\ y.role = x.role]_catalogVars

\* "A fresh binding created after the snapshot must survive until the matching
\* Save can reference it" (store/catalog_lifecycle.go:208).
FreshCoverSurvives ==
    [][\A d \in Delivery : CommitApply(d) /\ ~delivery[d].snapshot.deleted =>
         LET s == delivery[d].snapshot
         IN  \A x \in OfEntities(Ids(s)) :
               x.role = Cover /\ x.confirmed > s.savedAt
               => \E y \in bindings' : /\ y.asset = x.asset
                                       /\ y.entity = s.entity
                                       /\ y.role = Cover]_catalogVars

\* In the end the service knows what the catalogue knows, and every binding
\* names an entity that lives.
Converges ==
    <>[](/\ \A e \in Entity : InSync(e)
         /\ \A x \in bindings : Canonical(x.entity))

=============================================================================
