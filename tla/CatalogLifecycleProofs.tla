----------------------- MODULE CatalogLifecycleProofs -----------------------
(***************************************************************************)
(* What TLAPS proves of CatalogLifecycle and of ReadGate, for any files,   *)
(* entities, roles, requests and deliveries: the types and keys of the     *)
(* tables, that nothing is bound to an entity known to be retired, that    *)
(* versions only grow, that late and repeated snapshots do no harm, that a *)
(* merge loses no file, and that who reads meanwhile is served.            *)
(***************************************************************************)
EXTENDS ReadGate, FiniteSetTheorems, NaturalsInduction, WellFoundedInduction, TLAPS

\* Versions are counted by the clock, so that they stay within the bound.
VersionsInTime == \A e \in Entity : catalog[e].version <= now + 1

\* Who has looked holds the lock, and what it has seen still holds.
LockHeld ==
    /\ \A b \in Binder :
         binder[b].pc = "checked" => lock = b /\ ~Retired(binder[b].entity)
    /\ \A d \in Delivery :
         delivery[d].pc = "applying" => lock = d /\ ~Stale(delivery[d].snapshot)

CInv == CatalogTypeOK /\ VersionsInTime /\ LockHeld /\ NoBindingToRetired

\* The two keys of storage.bindings.
Keys(bs) == \A x, y \in bs : x.id = y.id \/ SameReference(x, y) => x = y

-----------------------------------------------------------------------------
(* The catalogue *)

LEMMA SnapshotTyped ==
    ASSUME NEW c \in [Entity -> CatalogEntry], NEW e \in Entity
    PROVE  SnapshotOf(c, e) \in Snapshot
  <1>1. c[e] \in CatalogEntry
    OBVIOUS
  <1>2. Aliases(c, e) \in SUBSET Entity
    BY DEF Aliases
  <1>3. \A x \in Entity : c[x].version \in 0 .. MaxTime + 1
    BY CatalogAssumption DEF CatalogEntry, Version
  <1>4. [x \in Entity |-> IF x \in Aliases(c, e) \cup {e} THEN c[x].version ELSE 0]
          \in [Entity -> 0 .. MaxTime + 1]
    BY <1>3, CatalogAssumption
  <1> QED BY <1>1, <1>2, <1>4 DEF SnapshotOf, Snapshot, CatalogEntry

LEMMA PublishKeeps ==
    ASSUME CInv, Tick,
           NEW c \in [Entity -> CatalogEntry], NEW e \in Entity, Publish(c, e),
           \A x \in Entity : c[x].version <= now + 2
    PROVE  CInv'
  <1>1. now \in Nat /\ now' = now + 1 /\ now' \in Time
    BY CatalogAssumption DEF CInv, CatalogTypeOK, Time, Tick
  <1>2. UNCHANGED <<bindings, receipt, reclaimed, lock, binder, delivery>>
    BY DEF Publish
  <1>3. CatalogTypeOK'
    BY <1>1, <1>2, SnapshotTyped DEF Publish, CInv, CatalogTypeOK
  <1>4. VersionsInTime'
    BY <1>1 DEF Publish, VersionsInTime
  <1>5. (LockHeld /\ NoBindingToRetired)'
    BY <1>2 DEF CInv, LockHeld, NoBindingToRetired, Retired, Stale
  <1> QED BY <1>3, <1>4, <1>5 DEF CInv

LEMMA CatalogueKeeps ==
    ASSUME CInv, CatalogueWrites
    PROVE  CInv'
  <1> USE DEF CatalogEntry, Version
  <1>1. /\ now \in Nat /\ MaxTime \in Nat
        /\ catalog \in [Entity -> CatalogEntry]
        /\ \A x \in Entity : catalog[x].version <= now + 1
    BY CatalogAssumption DEF CInv, CatalogTypeOK, VersionsInTime, Time
  <1>2. ASSUME NEW e \in Entity, NEW covers \in SUBSET Asset, Save(e, covers)
        PROVE  CInv'
    <2> DEFINE c == [catalog EXCEPT ![e].version = @ + 1, ![e].covers = covers,
                                    ![e].savedAt = now + 1]
    <2>1. Tick /\ Publish(c, e)
      BY <1>2 DEF Save
    <2>2. /\ c \in [Entity -> CatalogEntry]
          /\ \A x \in Entity : c[x].version <= now + 2
      BY <1>1, <2>1 DEF Tick, Time
    <2> QED BY <2>1, <2>2, PublishKeeps
  <1>3. ASSUME NEW e \in Entity, Delete(e)
        PROVE  CInv'
    <2> DEFINE c(dead) == [catalog EXCEPT ![e].version = @ + 1, ![e].deleted = dead,
                                          ![e].savedAt = now + 1]
    <2>1. Tick /\ Publish(c(TRUE), e)
      BY <1>3 DEF Delete
    <2>2. ASSUME NEW dead \in BOOLEAN
          PROVE  /\ c(dead) \in [Entity -> CatalogEntry]
                 /\ \A x \in Entity : c(dead)[x].version <= now + 2
      <3>1. catalog[e] \in CatalogEntry /\ catalog[e].version <= now + 1 /\ now < MaxTime
        BY <1>1, <2>1 DEF Tick
      <3>2. \A x \in Entity : c(dead)[x] = IF x = e
              THEN [catalog[e] EXCEPT !.version = @ + 1, !.deleted = dead, !.savedAt = now + 1]
              ELSE catalog[x]
        BY <1>1
      <3>3. c(dead)[e] = [canonical |-> catalog[e].canonical, deleted |-> dead,
                          version |-> catalog[e].version + 1,
                          covers |-> catalog[e].covers, savedAt |-> now + 1]
        BY <3>1, <3>2
      <3>4. c(dead) = [x \in Entity |-> c(dead)[x]]
        BY <1>1
      <3>5. \A x \in Entity : catalog[x].version \in Nat
        BY <1>1
      <3> HIDE DEF c
      <3>6. c(dead)[e] \in CatalogEntry /\ c(dead)[e].version <= now + 2
        BY <1>1, <3>1, <3>3 DEF Time
      <3> QED BY <1>1, <3>2, <3>4, <3>5, <3>6
    <2> HIDE DEF c
    <2>3. /\ c(TRUE) \in [Entity -> CatalogEntry]
          /\ \A x \in Entity : c(TRUE)[x].version <= now + 2
      BY <2>2, Zenon
    <2> QED BY <2>1, <2>3, PublishKeeps, Zenon
  <1>4. ASSUME NEW s \in Entity, NEW e \in Entity, Merge(s, e)
        PROVE  CInv'
    <2>1. PICK bump \in {0, 1} : Tick /\ Publish(Merged(s, e, bump, now + 1), e)
      BY <1>4 DEF Merge
    <2> DEFINE c == Merged(s, e, bump, now + 1)
               new(x) == IF x = e
                 THEN [catalog[e] EXCEPT !.covers = @ \cup catalog[s].covers,
                                         !.version = @ + bump,
                                         !.savedAt = IF bump = 1 THEN now + 1 ELSE @]
                 ELSE IF catalog[x].canonical = s
                 THEN [canonical |-> e, deleted |-> FALSE, covers |-> {}, savedAt |-> 0,
                       version |-> catalog[x].version + (IF x = s THEN 1 ELSE 0)]
                 ELSE catalog[x]
    <2>2. c = [x \in Entity |-> new(x)]
      BY DEF Merged
    <2>3. ASSUME NEW x \in Entity
          PROVE  new(x) \in CatalogEntry /\ new(x).version <= now + 2
      <3>1. /\ catalog[x] \in CatalogEntry /\ catalog[s] \in CatalogEntry
            /\ catalog[x].version <= now + 1
        BY <1>1
      <3>2. now < MaxTime
        BY <2>1 DEF Tick
      <3>3. CASE x = e
        <4>1. /\ new(x).canonical = catalog[e].canonical
              /\ new(x).deleted = catalog[e].deleted
              /\ new(x).covers = catalog[e].covers \cup catalog[s].covers
              /\ new(x).version = catalog[e].version + bump
              /\ new(x).savedAt = IF bump = 1 THEN now + 1 ELSE catalog[e].savedAt
              /\ new(x) = [canonical |-> new(x).canonical, version |-> new(x).version,
                           deleted |-> new(x).deleted, covers |-> new(x).covers,
                           savedAt |-> new(x).savedAt]
          BY <3>1, <3>3
        <4> HIDE DEF new
        <4>2. /\ new(x).version \in 1 .. MaxTime + 1 /\ new(x).version <= now + 2
              /\ new(x).savedAt \in Time
          BY <1>1, <3>1, <3>2, <3>3, <4>1 DEF Time
        <4>3. new(x).canonical \in Entity /\ new(x).deleted \in BOOLEAN
              /\ new(x).covers \in SUBSET Asset
          BY <3>1, <3>3, <4>1
        <4> QED BY <4>1, <4>2, <4>3
      <3>4. CASE x # e /\ catalog[x].canonical = s
        BY <1>1, <3>1, <3>2, <3>4 DEF Time
      <3>5. CASE x # e /\ catalog[x].canonical # s
        BY <1>1, <3>1, <3>5
      <3> QED BY <3>3, <3>4, <3>5
    <2>4. /\ c \in [Entity -> CatalogEntry]
          /\ \A x \in Entity : c[x].version <= now + 2
      <3> HIDE DEF new, c
      <3> QED BY <2>2, <2>3
    <2> HIDE DEF c
    <2> QED BY <2>1, <2>4, PublishKeeps DEF c
  <1> QED BY <1>2, <1>3, <1>4 DEF CatalogueWrites

-----------------------------------------------------------------------------
(* Bind and Unbind *)

LEMMA BinderIs ==
    ASSUME CatalogTypeOK, NEW b \in Binder, binder[b].pc # "idle"
    PROVE  /\ binder[b] \in [pc : {"resolved", "begun", "checked"}, asset : Asset,
                             entity : Entity, role : Role, began : Time]
           /\ \A p \in {"resolved", "begun", "checked"}, t \in Time :
                [binder[b] EXCEPT !.pc = p, !.began = t] \in BinderState
  <1>1. binder[b] \in [pc : {"resolved", "begun", "checked"}, asset : Asset,
                       entity : Entity, role : Role, began : Time]
    BY DEF CatalogTypeOK, BinderState, Idle
  <1>2. ASSUME NEW p \in {"resolved", "begun", "checked"}, NEW t \in Time
        PROVE  [binder[b] EXCEPT !.pc = p, !.began = t]
                 \in [pc : {"resolved", "begun", "checked"}, asset : Asset,
                      entity : Entity, role : Role, began : Time]
    BY <1>1
  <1> QED BY <1>1, <1>2 DEF BinderState

\* A step that takes no lock and touches neither receipts nor deliveries.
LEMMA BinderStep ==
    ASSUME CInv, NEW b \in Binder,
           UNCHANGED <<catalog, sent, receipt, reclaimed, delivery>>,
           now' \in Time, now' \in {now, now + 1},
           bindings' \subseteq Binding, Keys(bindings'), NoBindingToRetired',
           NEW own \in BinderState, binder' = [binder EXCEPT ![b] = own],
           lock' \in {Nobody} \cup Binder \cup Delivery,
           lock' = lock \/ lock \in {Nobody, b},
           own.pc = "checked" => lock' = b /\ ~Retired(own.entity)
    PROVE  CInv'
  <1> USE DEF CInv, CatalogTypeOK
  <1>1. CatalogTypeOK'
    BY DEF Keys, SameReference
  <1>2. VersionsInTime'
    BY CatalogAssumption DEF VersionsInTime, Time, CatalogEntry, Version
  <1>3. LockHeld'
    <2>1. ASSUME NEW x \in Binder, binder'[x].pc = "checked"
          PROVE  lock' = x /\ (~Retired(binder[x].entity))'
      <3>1. CASE x = b
        BY <2>1, <3>1 DEF Retired
      <3>2. CASE x # b
        BY <2>1, <3>2, CatalogAssumption DEF LockHeld, Retired
      <3> QED BY <3>1, <3>2
    <2>2. ASSUME NEW d \in Delivery, delivery'[d].pc = "applying"
          PROVE  lock' = d /\ (~Stale(delivery[d].snapshot))'
      <3>1. lock = d /\ ~Stale(delivery[d].snapshot) /\ delivery' = delivery
        BY <2>2 DEF LockHeld
      <3>2. d # Nobody /\ d # b
        BY CatalogAssumption
      <3>3. Stale(delivery[d].snapshot)' <=> Stale(delivery[d].snapshot)
        BY DEF Stale
      <3> QED BY <3>1, <3>2, <3>3
    <2> QED BY <2>1, <2>2 DEF LockHeld
  <1> QED BY <1>1, <1>2, <1>3

LEMMA UpsertKeeps ==
    ASSUME bindings \subseteq Binding, Keys(bindings), NoBindingToRetired,
           NEW new \in Binding, new.id \in FreeId, ~Retired(new.entity)
    PROVE  /\ Upsert(new) \subseteq Binding
           /\ Keys(Upsert(new))
           /\ \A x \in Upsert(new) : ~Retired(x.entity)
  <1>1. CASE \E old \in bindings : SameReference(old, new)
    <2> DEFINE confirm(old) == IF SameReference(old, new)
                               THEN [old EXCEPT !.confirmed = new.confirmed] ELSE old
    <2>1. Upsert(new) = {confirm(old) : old \in bindings}
      BY <1>1 DEF Upsert
    <2>2. \A old \in bindings : /\ confirm(old) \in Binding
                                /\ confirm(old).id = old.id
                                /\ confirm(old).entity = old.entity
                                /\ SameReference(confirm(old), old)
      BY DEF Binding, SameReference
    <2> HIDE DEF confirm
    <2>3. \A x, y \in bindings :
            confirm(x).id = confirm(y).id \/ SameReference(confirm(x), confirm(y)) => x = y
      BY <2>2 DEF Keys, SameReference
    <2> QED BY <2>1, <2>2, <2>3 DEF Keys, NoBindingToRetired
  <1>2. CASE ~\E old \in bindings : SameReference(old, new)
    <2>1. Upsert(new) = bindings \cup {new}
      BY <1>2 DEF Upsert
    <2>2. \A x \in bindings : x.id # new.id
      BY DEF FreeId
    <2>3. \A x \in bindings : ~SameReference(x, new) /\ ~SameReference(new, x)
      BY <1>2 DEF SameReference
    <2> QED BY <2>1, <2>2, <2>3 DEF Keys, NoBindingToRetired
  <1> QED BY <1>1, <1>2

LEMMA BindsKeep ==
    ASSUME CInv, NEW b \in Binder, Binds(b)
    PROVE  CInv'
  <1> USE DEF CInv
  <1>1. /\ bindings \subseteq Binding /\ Keys(bindings)
        /\ lock \in {Nobody} \cup Binder \cup Delivery
        /\ now \in Time
        /\ Tick => now' \in Time /\ now' = now + 1
    BY CatalogAssumption DEF CatalogTypeOK, Keys, Time, Tick
  <1>2. ASSUME NEW a \in Asset, NEW e \in Entity, NEW role \in Role, Resolve(b, a, e, role)
        PROVE  CInv'
    <2> DEFINE own == [pc |-> "resolved", asset |-> a, entity |-> catalog[e].canonical,
                       role |-> role, began |-> 0]
    <2>1. catalog[e].canonical \in Entity
      BY DEF CatalogTypeOK, CatalogEntry
    <2>2. own \in BinderState
      BY <2>1, CatalogAssumption DEF BinderState, Time
    <2>3. NoBindingToRetired'
      BY <1>2 DEF Resolve, NoBindingToRetired, Retired
    <2>4. binder' = [binder EXCEPT ![b] = own] /\ UNCHANGED <<bindings, lock, now>>
          /\ UNCHANGED <<catalog, sent, receipt, reclaimed, delivery>>
      BY <1>2 DEF Resolve
    <2> QED BY <1>1, <2>2, <2>3, <2>4, BinderStep
  <1>3. CASE BeginBind(b)
    <2> DEFINE own == [binder[b] EXCEPT !.pc = "begun", !.began = now + 1]
    <2>1. own \in BinderState /\ own.pc = "begun"
      BY <1>1, <1>3, BinderIs DEF BeginBind
    <2>2. binder' = [binder EXCEPT ![b] = own] /\ Tick /\ UNCHANGED <<bindings, lock>>
          /\ UNCHANGED <<catalog, sent, receipt, reclaimed, delivery>>
      BY <1>3 DEF BeginBind, CatalogTypeOK
    <2>3. NoBindingToRetired'
      BY <2>2 DEF NoBindingToRetired, Retired
    <2> HIDE DEF own
    <2> QED BY <1>1, <2>1, <2>2, <2>3, BinderStep
  <1>4. CASE CheckTarget(b)
    <2>1. NoBindingToRetired' /\ UNCHANGED <<bindings, now>>
          /\ UNCHANGED <<catalog, sent, receipt, reclaimed, delivery>>
      BY <1>4 DEF CheckTarget, NoBindingToRetired, Retired
    <2>2. CASE Retired(binder[b].entity) /\ LeaveBind(b) /\ UNCHANGED lock
      <3>1. Idle \in BinderState /\ Idle.pc # "checked"
        BY DEF BinderState, Idle
      <3> QED BY <1>1, <2>1, <2>2, <3>1, BinderStep DEF LeaveBind
    <2>3. CASE ~Retired(binder[b].entity) /\ lock' = b
               /\ binder' = [binder EXCEPT ![b].pc = "checked"]
      <3> DEFINE own == [binder[b] EXCEPT !.pc = "checked"]
      <3>4. /\ binder[b] \in [pc : {"resolved", "begun", "checked"}, asset : Asset,
                                entity : Entity, role : Role, began : Time]
        BY <1>4, BinderIs DEF CheckTarget
      <3>1. own \in BinderState /\ own.entity = binder[b].entity
        BY <3>4 DEF BinderState
      <3>2. binder' = [binder EXCEPT ![b] = own]
        BY <2>3 DEF CatalogTypeOK
      <3>3. lock = Nobody
        BY <1>4 DEF CheckTarget
      <3> HIDE DEF own
      <3> QED BY <1>1, <2>1, <2>3, <3>1, <3>2, <3>3, BinderStep
    <2> QED BY <1>4, <2>2, <2>3 DEF CheckTarget
  <1>5. CASE CommitBind(b)
    <2> DEFINE r == binder[b]
    <2>1. /\ r.pc = "checked" /\ lock = b /\ ~Retired(r.entity)
          /\ r \in [pc : {"resolved", "begun", "checked"}, asset : Asset,
                    entity : Entity, role : Role, began : Time]
          /\ binder' = [binder EXCEPT ![b] = Idle] /\ lock' = Nobody /\ UNCHANGED now
          /\ UNCHANGED <<catalog, sent, receipt, reclaimed, delivery>>
      BY <1>5, BinderIs DEF CommitBind, LockHeld, LeaveBind, Release
    <2>2. /\ bindings' \subseteq Binding /\ Keys(bindings')
          /\ \A x \in bindings' : ~Retired(x.entity)
      <3>1. CASE UNCHANGED bindings
        BY <1>1, <3>1 DEF NoBindingToRetired
      <3>2. ASSUME NEW id \in FreeId,
                   bindings' = Upsert([id |-> id, asset |-> r.asset, entity |-> r.entity,
                                       role |-> r.role, confirmed |-> r.began])
            PROVE  /\ bindings' \subseteq Binding /\ Keys(bindings')
                   /\ \A x \in bindings' : ~Retired(x.entity)
        <4> DEFINE new == [id |-> id, asset |-> r.asset, entity |-> r.entity,
                           role |-> r.role, confirmed |-> r.began]
        <4>1. new \in Binding /\ new.id \in FreeId /\ ~Retired(new.entity)
          BY <2>1 DEF Binding, FreeId
        <4> HIDE DEF new
        <4>2. bindings' = Upsert(new)
          BY <3>2 DEF new
        <4> QED BY <1>1, <4>1, <4>2, UpsertKeeps
      <3> QED BY <1>5, <3>1, <3>2 DEF CommitBind
    <2>3. NoBindingToRetired'
      BY <2>1, <2>2 DEF NoBindingToRetired, Retired
    <2>4. Idle \in BinderState /\ Idle.pc # "checked"
      BY DEF BinderState, Idle
    <2> HIDE DEF r
    <2> QED BY <1>1, <2>1, <2>2, <2>3, <2>4, BinderStep
  <1>6. CASE AbortBind(b)
    <2>1. NoBindingToRetired' /\ Tick /\ UNCHANGED bindings
          /\ UNCHANGED <<catalog, sent, receipt, reclaimed, delivery>>
      BY <1>6 DEF AbortBind, NoBindingToRetired, Retired
    <2>2. Idle \in BinderState /\ Idle.pc # "checked"
      BY DEF BinderState, Idle
    <2>3. /\ binder' = [binder EXCEPT ![b] = Idle]
          /\ lock' = IF lock = b THEN Nobody ELSE lock
      BY <1>6 DEF AbortBind, LeaveBind, Release
    <2> QED BY <1>1, <2>1, <2>2, <2>3, BinderStep
  <1> QED BY <1>2, <1>3, <1>4, <1>5, <1>6 DEF Binds

LEMMA UnbindKeeps ==
    ASSUME CInv, NEW x \in bindings, Unbind(x)
    PROVE  CInv'
  BY CatalogAssumption
     DEF CInv, CatalogTypeOK, VersionsInTime, LockHeld, NoBindingToRetired, Unbind,
         Tick, Time, Retired, Stale, CatalogEntry, Version

LEMMA ReclaimKeeps ==
    ASSUME CInv, NEW a \in Asset, Reclaim(a)
    PROVE  CInv'
  BY CatalogAssumption
     DEF CInv, CatalogTypeOK, VersionsInTime, LockHeld, NoBindingToRetired, Reclaim,
         Tick, Time, Retired, Stale, CatalogEntry, Version

-----------------------------------------------------------------------------
(* Deliveries *)

LEMMA BeginApplyKeeps ==
    ASSUME CInv, NEW d \in Delivery, NEW s \in sent, BeginApply(d, s)
    PROVE  CInv'
  <1> USE DEF CInv
  <1> DEFINE own == [pc |-> "applying", snapshot |-> s]
  <1>1. s \in Snapshot /\ own \in DeliveryState
    BY DEF CatalogTypeOK, DeliveryState
  <1>2. /\ lock = Nobody
        /\ UNCHANGED <<catalog, sent, bindings, receipt, reclaimed, binder, now>>
        /\ \/ UNCHANGED <<delivery, lock>>
           \/ ~Stale(s) /\ lock' = d /\ delivery' = [delivery EXCEPT ![d] = own]
    BY DEF BeginApply
  <1>3. (VersionsInTime /\ NoBindingToRetired)'
    BY <1>2 DEF VersionsInTime, NoBindingToRetired, Retired
  <1>4. CatalogTypeOK'
    BY <1>1, <1>2 DEF CatalogTypeOK
  <1>5. LockHeld'
    <2>1. ASSUME NEW b \in Binder, binder'[b].pc = "checked"
          PROVE  FALSE
      BY <1>2, <2>1, CatalogAssumption DEF LockHeld
    <2>2. ASSUME NEW x \in Delivery, delivery'[x].pc = "applying"
          PROVE  lock' = x /\ (~Stale(delivery[x].snapshot))'
      <3>1. delivery[x].pc # "applying"
        BY <1>2, CatalogAssumption DEF LockHeld
      <3>2. x = d /\ ~Stale(s) /\ lock' = d /\ delivery'[d] = own
        BY <1>2, <2>2, <3>1 DEF CatalogTypeOK
      <3>3. Stale(s)' <=> Stale(s)
        BY <1>2 DEF Stale
      <3> QED BY <3>2, <3>3
    <2> QED BY <2>1, <2>2 DEF LockHeld
  <1> QED BY <1>3, <1>4, <1>5

\* Moving the bindings of the aliases to the canonical entity breaks no key: of
\* the bindings of one file in one role, exactly one is not surplus.
LEMMA MovedKeepsKeys ==
    ASSUME bindings \subseteq Binding, Keys(bindings), NEW s \in Snapshot
    PROVE  /\ Moved(s) \subseteq Binding
           /\ \A x \in Moved(s) : x.entity = s.entity
           /\ Keys((bindings \ OfEntities(Ids(s))) \cup Moved(s))
  <1> DEFINE K == OfEntities(Ids(s)) \ Surplus(s)
             move(x) == [x EXCEPT !.entity = s.entity]
  <1>1. s.entity \in Entity /\ s.entity \in Ids(s)
    BY DEF Snapshot, Ids
  <1>2. Moved(s) = {move(x) : x \in K}
    BY DEF Moved
  <1>3. \A x \in K : /\ x \in bindings /\ x.entity \in Ids(s)
                     /\ x.entity = s.entity \/ x \in OfEntities(s.aliases)
    BY DEF OfEntities, Ids
  <1>4. \A x \in bindings : /\ move(x) \in Binding /\ move(x).entity = s.entity
                            /\ move(x).id = x.id
                            /\ move(x).asset = x.asset /\ move(x).role = x.role
    BY <1>1 DEF Binding
  <1>5. ASSUME NEW x \in K, NEW y \in K, x.asset = y.asset, x.role = y.role
        PROVE  x = y
    <2>1. x.id \in Nat /\ y.id \in Nat
      BY <1>3, CatalogAssumption DEF Binding
    <2>2. CASE x.entity = s.entity /\ y.entity = s.entity
      BY <1>3, <1>5, <2>2 DEF Keys, SameReference
    <2>3. CASE x.entity # s.entity \/ y.entity # s.entity
      <3>1. \A z, keep \in K : z.entity # s.entity /\ keep.asset = z.asset /\ keep.role = z.role
                               => keep.entity # s.entity /\ ~(keep.id < z.id)
        BY <1>3 DEF Surplus
      <3>2. ~(x.id < y.id) /\ ~(y.id < x.id)
        BY <1>5, <2>3, <3>1
      <3> QED BY <1>3, <2>1, <3>2 DEF Keys
    <2> QED BY <2>2, <2>3
  <1> HIDE DEF K, move
  <1>6. ASSUME NEW x \in K, NEW y \in K,
               move(x).id = move(y).id \/ SameReference(move(x), move(y))
        PROVE  x = y
    BY <1>3, <1>4, <1>5, <1>6 DEF Keys, SameReference
  <1>7. ASSUME NEW x \in K, NEW y \in bindings \ OfEntities(Ids(s))
        PROVE  /\ move(x).id # y.id
               /\ ~SameReference(move(x), y) /\ ~SameReference(y, move(x))
    <2>1. y.entity # s.entity /\ x # y
      BY <1>1, <1>3 DEF OfEntities
    <2> QED BY <1>3, <1>4, <2>1 DEF Keys, SameReference
  <1>8. Keys((bindings \ OfEntities(Ids(s))) \cup Moved(s))
    <2> SUFFICES ASSUME NEW p \in (bindings \ OfEntities(Ids(s))) \cup Moved(s),
                        NEW q \in (bindings \ OfEntities(Ids(s))) \cup Moved(s),
                        p.id = q.id \/ SameReference(p, q)
                 PROVE  p = q
      BY DEF Keys
    <2>1. CASE p \in Moved(s) /\ q \in Moved(s)
      BY <1>2, <1>6, <2>1
    <2>2. CASE p \in Moved(s) /\ q \notin Moved(s)
      BY <1>2, <1>7, <2>2
    <2>3. CASE p \notin Moved(s) /\ q \in Moved(s)
      BY <1>2, <1>7, <2>3
    <2>4. CASE p \notin Moved(s) /\ q \notin Moved(s)
      BY <2>4 DEF Keys
    <2> QED BY <2>1, <2>2, <2>3, <2>4
  <1> QED BY <1>2, <1>3, <1>4, <1>8

LEMMA CommitApplyKeeps ==
    ASSUME CInv, NEW d \in Delivery, CommitApply(d)
    PROVE  CInv'
  <1> USE DEF CInv
  <1> DEFINE s == delivery[d].snapshot
             kept == IF s.deleted THEN {} ELSE Moved(s) \ Withdrawn(s)
             untouched == bindings \ OfEntities(Ids(s))
  <1>1. /\ delivery[d].pc = "applying" /\ s \in Snapshot /\ lock = d
        /\ bindings \subseteq Binding /\ Keys(bindings)
    BY DEF CommitApply, CatalogTypeOK, DeliveryState, Idle, LockHeld, Keys
  <1>2. /\ bindings' = untouched \cup kept
        /\ receipt' = Receipts(s)
        /\ delivery' = [delivery EXCEPT ![d] = Idle]
        /\ lock' = Nobody
        /\ UNCHANGED <<catalog, sent, reclaimed, binder, now>>
    BY <1>1 DEF CommitApply, Release
  <1>3. /\ kept \subseteq Moved(s)
        /\ Moved(s) \subseteq Binding
        /\ \A x \in Moved(s) : x.entity = s.entity
        /\ Keys(untouched \cup Moved(s))
    BY <1>1, MovedKeepsKeys
  <1>4. receipt' \in [Entity -> Receipt]
    <2>1. /\ s.entity \in Entity /\ s.deleted \in BOOLEAN
          /\ s.versions \in [Entity -> 0 .. MaxTime + 1]
      BY <1>1 DEF Snapshot
    <2>2. \A e \in Entity : receipt[e] \in Receipt
      BY DEF CatalogTypeOK
    <2> HIDE DEF s
    <2>3. ASSUME NEW e \in Entity
          PROVE  Receipts(s)[e] \in Receipt
      BY <2>1, <2>2 DEF Receipts, Receipt
    <2>4. Receipts(s) = [e \in Entity |-> Receipts(s)[e]]
      BY DEF Receipts
    <2> QED BY <1>2, <2>3, <2>4
  <1>5. CatalogTypeOK'
    <2>1. bindings' \subseteq Binding /\ Keys(bindings')
      <3> HIDE DEF kept, untouched
      <3>1. untouched \subseteq Binding
        BY <1>1 DEF untouched
      <3> QED BY <1>2, <1>3, <3>1 DEF Keys
    <2>2. delivery' \in [Delivery -> DeliveryState]
      BY <1>2 DEF CatalogTypeOK, DeliveryState
    <2> QED BY <1>2, <1>4, <2>1, <2>2 DEF CatalogTypeOK, Keys, SameReference
  <1>6. VersionsInTime'
    BY <1>2 DEF VersionsInTime
  <1>7. LockHeld'
    <2>1. \A b \in Binder : binder'[b].pc # "checked"
      BY <1>1, <1>2, CatalogAssumption DEF LockHeld
    <2>2. \A x \in Delivery : delivery'[x].pc # "applying"
      BY <1>1, <1>2 DEF LockHeld, CatalogTypeOK, Idle
    <2> QED BY <2>1, <2>2 DEF LockHeld
  <1>8. NoBindingToRetired'
    <2> SUFFICES ASSUME NEW x \in bindings'
                 PROVE  receipt'[x.entity].state \notin {"merged", "deleted"}
      BY DEF NoBindingToRetired, Retired
    <2>1. CASE x \in untouched
      <3>1. x.entity \in Entity /\ x.entity \notin Ids(s) /\ x \in bindings
        BY <1>1, <2>1 DEF OfEntities, Binding
      <3>2. receipt'[x.entity] = receipt[x.entity]
        BY <1>2, <3>1 DEF Receipts
      <3> QED BY <3>1, <3>2 DEF NoBindingToRetired, Retired
    <2>2. CASE x \in kept
      <3>1. x.entity = s.entity /\ ~s.deleted
        BY <1>3, <2>2
      <3>2. s.entity \in Entity /\ s.entity \in Ids(s)
        BY <1>1 DEF Snapshot, Ids
      <3> QED BY <1>2, <3>1, <3>2 DEF Receipts
    <2> QED BY <1>2, <2>1, <2>2
  <1> QED BY <1>5, <1>6, <1>7, <1>8

LEMMA AbortApplyKeeps ==
    ASSUME CInv, NEW d \in Delivery, AbortApply(d)
    PROVE  CInv'
  <1> USE DEF CInv
  <1>1. /\ delivery[d].pc = "applying" /\ lock = d /\ lock' = Nobody
        /\ delivery' = [delivery EXCEPT ![d] = Idle]
        /\ now' \in Time /\ now' = now + 1 /\ now \in Nat
        /\ UNCHANGED <<catalog, sent, bindings, receipt, reclaimed, binder>>
    BY CatalogAssumption DEF AbortApply, LockHeld, Release, Tick, Time, CatalogTypeOK
  <1>2. CatalogTypeOK'
    BY <1>1 DEF CatalogTypeOK, DeliveryState
  <1>3. VersionsInTime'
    BY <1>1 DEF VersionsInTime, CatalogTypeOK, CatalogEntry, Version
  <1>4. LockHeld'
    <2>1. \A b \in Binder : binder'[b].pc # "checked"
      BY <1>1, CatalogAssumption DEF LockHeld
    <2>2. \A x \in Delivery : delivery'[x].pc # "applying"
      BY <1>1 DEF LockHeld, CatalogTypeOK, Idle
    <2> QED BY <2>1, <2>2 DEF LockHeld
  <1>5. NoBindingToRetired'
    BY <1>1 DEF NoBindingToRetired, Retired
  <1> QED BY <1>2, <1>3, <1>4, <1>5

-----------------------------------------------------------------------------
(* The invariant, and the theorems that follow from it alone *)

LEMMA CatalogInitially == CatalogInit => CInv
  <1> SUFFICES ASSUME CatalogInit
               PROVE  CInv
    OBVIOUS
  <1> DEFINE c == Catalogue(Entity)
  <1>1. /\ catalog = c /\ bindings = {} /\ reclaimed = {} /\ lock = Nobody /\ now = 0
        /\ sent = UNION {{SnapshotOf(x, e) : e \in {y \in Entity : x[y].canonical = y}} :
                           x \in {c}}
        /\ receipt = [e \in Entity |->
                        IF c[e].deleted
                        THEN [version |-> 1, state |-> "deleted", canonical |-> e]
                        ELSE NoReceipt(e)]
        /\ binder = [b \in Binder |-> Idle]
        /\ delivery = [d \in Delivery |-> Idle]
    BY DEF CatalogInit, StartWith
  <1>2. c \in [Entity -> CatalogEntry] /\ \A e \in Entity : c[e].version = 1
    BY CatalogAssumption DEF Catalogue, CatalogEntry, Version, Time
  <1> HIDE DEF c
  <1>3. sent \subseteq Snapshot
    BY <1>1, <1>2, SnapshotTyped
  <1>4. receipt \in [Entity -> Receipt]
    BY <1>1, CatalogAssumption DEF Receipt, NoReceipt
  <1>5. CatalogTypeOK
    BY <1>1, <1>2, <1>3, <1>4, CatalogAssumption
       DEF CatalogTypeOK, BinderState, DeliveryState, Time
  <1>6. VersionsInTime /\ LockHeld /\ NoBindingToRetired
    BY <1>1, <1>2 DEF VersionsInTime, LockHeld, NoBindingToRetired, Idle
  <1> QED BY <1>5, <1>6 DEF CInv

LEMMA CInvKept ==
    ASSUME CInv, [CatalogNext]_catalogVars
    PROVE  CInv'
  <1>1. ASSUME NEW d \in Delivery, Delivers(d)
        PROVE  CInv'
    BY <1>1, BeginApplyKeeps, CommitApplyKeeps, AbortApplyKeeps DEF Delivers
  <1>2. CASE UNCHANGED catalogVars
    BY <1>2 DEF catalogVars, CInv, CatalogTypeOK, VersionsInTime, LockHeld,
       NoBindingToRetired, Retired, Stale
  <1> QED BY <1>1, <1>2, CatalogueKeeps, BindsKeep, UnbindKeeps, ReclaimKeeps DEF CatalogNext

LEMMA CInvAlways == CatalogSpec => []CInv
  BY CatalogInitially, CInvKept, PTL DEF CatalogSpec

\* The tables keep their types and storage.bindings its two keys: no snapshot is
\* stuck because two bindings of a file would become one.
THEOREM CatalogTypeCorrect == CatalogSpec => []CatalogTypeOK
  <1>1. CInv => CatalogTypeOK
    BY DEF CInv
  <1> QED BY <1>1, CInvAlways, PTL

\* Whatever Binds are under way and whatever snapshots come, nothing is bound to
\* an entity that the service knows to be merged or deleted.
THEOREM NoBindingToRetiredCorrect == CatalogSpec => []NoBindingToRetired
  <1>1. CInv => NoBindingToRetired
    BY DEF CInv
  <1> QED BY <1>1, CInvAlways, PTL

\* No delivery, however late, takes a receipt back to an older version.
THEOREM VersionsNeverGoBackCorrect == CatalogSpec => VersionsNeverGoBack
  <1> DEFINE Grow == \A e \in Entity : receipt'[e].version >= receipt[e].version
  <1>1. CInv /\ [CatalogNext]_catalogVars => Grow
    <2> SUFFICES ASSUME CInv, [CatalogNext]_catalogVars, NEW e \in Entity
                 PROVE  receipt'[e].version >= receipt[e].version
      OBVIOUS
    <2>1. receipt[e].version \in Nat
      BY DEF CInv, CatalogTypeOK, Receipt
    <2>2. ASSUME NEW d \in Delivery, CommitApply(d)
          PROVE  receipt'[e].version >= receipt[e].version
      <3> DEFINE s == delivery[d].snapshot
      <3>1. /\ s \in Snapshot /\ ~Stale(s) /\ receipt' = Receipts(s)
        BY <2>2 DEF CInv, CommitApply, CatalogTypeOK, DeliveryState, Idle, LockHeld
      <3>2. s.versions[e] \in Nat
        BY <3>1 DEF Snapshot
      <3> HIDE DEF s
      <3>3. CASE e \in Ids(s)
        BY <2>1, <3>1, <3>2, <3>3 DEF Stale, Receipts
      <3>4. CASE e \notin Ids(s)
        BY <2>1, <3>1, <3>4 DEF Receipts
      <3> QED BY <3>3, <3>4
    <2>3. CASE UNCHANGED receipt
      BY <2>1, <2>3
    <2>4. (\E d \in Delivery : CommitApply(d)) \/ UNCHANGED receipt
      BY DEF CatalogNext, CatalogueWrites, Save, Merge, Delete, Publish, Binds, Resolve,
             BeginBind, CheckTarget, CommitBind, AbortBind, Delivers, BeginApply, AbortApply,
             Unbind, Reclaim, catalogVars
    <2> QED BY <2>2, <2>3, <2>4
  <1>2. CatalogSpec => [][Grow]_catalogVars
    BY <1>1, CInvAlways, PTL DEF CatalogSpec
  <1> QED BY <1>2, PTL DEF VersionsNeverGoBack

-----------------------------------------------------------------------------
(* What the snapshots ever taken say of the catalogue                      *)

\* What is true of a snapshot from when it was taken, in the tables c: its
\* entity and the aliases share their fate, an alias never stands for itself
\* again, and an entity that was written to since has a newer version.
Past(s, c) ==
    LET e == s.entity
    IN  /\ e \notin s.aliases
        /\ \A x \in Ids(s) : s.versions[x] <= c[x].version /\ c[x].canonical = c[e].canonical
        /\ \A x \in s.aliases : c[x].canonical # x
        /\ c[e].canonical # e => s.versions[e] < c[e].version
        /\ s.versions[e] = c[e].version
             => /\ s.deleted <=> c[e].deleted
                /\ Aliases(c, e) \subseteq s.aliases => s.covers = c[e].covers
        /\ s.deleted => s.versions[e] = c[e].version

\* The canonical entity of an entity stands for itself.
Flat(c) == \A x \in Entity : c[c[x].canonical].canonical = c[x].canonical

\* Snapshot t was taken when the entity of s had been merged.
Later(s, t) == s.entity \in Ids(t) /\ s.versions[s.entity] < t.versions[s.entity]

\* Of two snapshots of different entities that name the same one, one is later.
Ordered ==
    \A s, t \in sent :
        s.entity = t.entity \/ Ids(s) \cap Ids(t) = {} \/ Later(s, t) \/ Later(t, s)

History == /\ Flat(catalog)
           /\ \A s \in sent : Past(s, catalog)
           /\ Ordered

\* Entity m was merged into e, or e itself was written to, which is then m.
Wrote(m, e) ==
    /\ Canonical(m) /\ Canonical(e)
    /\ catalog'[e].canonical = e
    /\ \A x \in Entity : catalog[x].version <= catalog'[x].version
    /\ catalog[m].version < catalog'[m].version
    /\ m # e => ~catalog'[e].deleted
    /\ \A x \in Entity \ {e} : IF m # e /\ catalog[x].canonical = m
                               THEN catalog'[x].canonical = e
                               ELSE catalog'[x] = catalog[x]
    /\ sent' = sent \cup {SnapshotOf(catalog', e)}

LEMMA WritesAre ==
    ASSUME CatalogTypeOK, CatalogueWrites
    PROVE  \E m, e \in Entity : Wrote(m, e)
  <1>1. catalog \in [Entity -> CatalogEntry]
    BY DEF CatalogTypeOK
  <1>2. \A x \in Entity : catalog[x].version \in Nat
    BY <1>1, CatalogAssumption DEF CatalogEntry, Version
  <1>3. ASSUME NEW e \in Entity, NEW covers \in SUBSET Asset, Save(e, covers)
        PROVE  Wrote(e, e)
    <2>1. /\ Canonical(e)
          /\ catalog' = [catalog EXCEPT ![e].version = @ + 1, ![e].covers = covers,
                                        ![e].savedAt = now + 1]
          /\ sent' = sent \cup {SnapshotOf(catalog', e)}
      BY <1>3 DEF Save, Publish
    <2>2. catalog'[e] = [catalog[e] EXCEPT !.version = @ + 1, !.covers = covers, !.savedAt = now + 1]
      BY <1>1, <2>1
    <2>3. /\ catalog'[e].version = catalog[e].version + 1
          /\ catalog'[e].canonical = catalog[e].canonical
      BY <1>1, <2>2 DEF CatalogEntry
    <2>4. \A x \in Entity \ {e} : catalog'[x] = catalog[x]
      BY <1>1, <2>1
    <2>5. /\ \A x \in Entity : catalog[x].version <= catalog'[x].version
          /\ catalog[e].version < catalog'[e].version
      BY <1>2, <2>3, <2>4
    <2>6. catalog'[e].canonical = e
      BY <2>1, <2>3 DEF Canonical
    <2> QED BY <2>1, <2>4, <2>5, <2>6 DEF Wrote
  <1>4. ASSUME NEW e \in Entity, Delete(e)
        PROVE  Wrote(e, e)
    <2>1. /\ Canonical(e)
          /\ catalog' = [catalog EXCEPT ![e].version = @ + 1, ![e].deleted = TRUE,
                                        ![e].savedAt = now + 1]
          /\ sent' = sent \cup {SnapshotOf(catalog', e)}
      BY <1>4 DEF Delete, Publish
    <2>2. catalog'[e] = [catalog[e] EXCEPT !.version = @ + 1, !.deleted = TRUE, !.savedAt = now + 1]
      BY <1>1, <2>1
    <2>3. /\ catalog'[e].version = catalog[e].version + 1
          /\ catalog'[e].canonical = catalog[e].canonical
      BY <1>1, <2>2 DEF CatalogEntry
    <2>4. \A x \in Entity \ {e} : catalog'[x] = catalog[x]
      BY <1>1, <2>1
    <2>5. /\ \A x \in Entity : catalog[x].version <= catalog'[x].version
          /\ catalog[e].version < catalog'[e].version
      BY <1>2, <2>3, <2>4
    <2>6. catalog'[e].canonical = e
      BY <2>1, <2>3 DEF Canonical
    <2> QED BY <2>1, <2>4, <2>5, <2>6 DEF Wrote
  <1>5. ASSUME NEW m \in Entity, NEW e \in Entity, Merge(m, e)
        PROVE  Wrote(m, e)
    <2>1. PICK bump \in {0, 1} : Publish(Merged(m, e, bump, now + 1), e)
      BY <1>5 DEF Merge
    <2>2. /\ Canonical(m) /\ Canonical(e) /\ m # e
          /\ catalog' = Merged(m, e, bump, now + 1)
          /\ sent' = sent \cup {SnapshotOf(catalog', e)}
      BY <1>5, <2>1 DEF Merge, Publish
    <2>3. catalog'[e] = [catalog[e] EXCEPT !.covers = @ \cup catalog[m].covers,
                                           !.version = @ + bump,
                                           !.savedAt = IF bump = 1 THEN now + 1 ELSE @]
      BY <2>2 DEF Merged
    <2>4. /\ catalog'[e].canonical = catalog[e].canonical
          /\ catalog'[e].version = catalog[e].version + bump
          /\ ~catalog'[e].deleted
      BY <1>1, <2>2, <2>3 DEF CatalogEntry, Canonical
    <2>5. ASSUME NEW x \in Entity \ {e}, catalog[x].canonical = m
          PROVE  /\ catalog'[x].canonical = e
                 /\ catalog'[x].version = catalog[x].version + (IF x = m THEN 1 ELSE 0)
      BY <2>2, <2>5 DEF Merged
    <2>6. ASSUME NEW x \in Entity \ {e}, catalog[x].canonical # m
          PROVE  catalog'[x] = catalog[x]
      BY <2>2, <2>6 DEF Merged
    <2>7. \A x \in Entity : catalog[x].version <= catalog'[x].version
      BY <1>2, <2>4, <2>5, <2>6
    <2>8. catalog[m].version < catalog'[m].version
      BY <1>2, <2>2, <2>5 DEF Canonical
    <2> QED BY <2>2, <2>4, <2>5, <2>6, <2>7, <2>8 DEF Wrote, Canonical
  <1> QED BY <1>3, <1>4, <1>5 DEF CatalogueWrites

LEMMA PastStays ==
    ASSUME CatalogTypeOK, CatalogTypeOK', NEW m \in Entity, NEW e \in Entity, Wrote(m, e),
           NEW s \in Snapshot, Past(s, catalog)
    PROVE  Past(s, catalog')
  <1> DEFINE q == s.entity
  <1>1. /\ q \in Entity /\ q \in Ids(s) /\ s.aliases \subseteq Ids(s) /\ Ids(s) \subseteq Entity
        /\ \A x \in Entity : s.versions[x] \in Nat
        /\ \A x \in Entity : catalog[x].version \in Nat /\ catalog'[x].version \in Nat
    BY CatalogAssumption DEF Snapshot, Ids, CatalogTypeOK, CatalogEntry, Version
  <1>2. ASSUME NEW x \in Entity
        PROVE  /\ catalog[x].canonical = x /\ x # m => catalog'[x].canonical = x
               /\ catalog[x].canonical # x => catalog'[x].canonical # x
               /\ catalog[x].canonical = x /\ x \notin {m, e} => catalog'[x] = catalog[x]
    BY DEF Wrote, Canonical
  <1>3. \A x \in Ids(s) : /\ s.versions[x] <= catalog'[x].version
                          /\ catalog'[x].canonical = catalog'[q].canonical
    <2> SUFFICES ASSUME NEW x \in Ids(s)
                 PROVE  /\ s.versions[x] <= catalog'[x].version
                        /\ catalog'[x].canonical = catalog'[q].canonical
      OBVIOUS
    <2>1. /\ s.versions[x] <= catalog[x].version
          /\ catalog[x].canonical = catalog[q].canonical
          /\ catalog[x].version <= catalog'[x].version
      BY <1>1 DEF Past, Wrote
    <2>2. catalog'[x].canonical = catalog'[q].canonical
      BY <1>1, <2>1 DEF Wrote, Canonical
    <2> QED BY <1>1, <2>1, <2>2
  <1>4. \A x \in s.aliases : catalog'[x].canonical # x
    BY <1>1, <1>2 DEF Past
  <1>5. catalog'[q].canonical # q => s.versions[q] < catalog'[q].version
    <2> HAVE catalog'[q].canonical # q
    <2>1. s.versions[q] <= catalog[q].version /\ catalog[q].version <= catalog'[q].version
      BY <1>1 DEF Past, Wrote
    <2>2. s.versions[q] < catalog[q].version \/ q = m
      BY <1>1, <1>2 DEF Past
    <2> QED BY <1>1, <2>1, <2>2 DEF Wrote
  <1>6. ASSUME s.versions[q] = catalog'[q].version
        PROVE  /\ s.deleted <=> catalog'[q].deleted
               /\ Aliases(catalog', q) \subseteq s.aliases => s.covers = catalog'[q].covers
    <2>1. s.versions[q] = catalog[q].version /\ q # m
      BY <1>1, <1>6 DEF Past, Wrote
    <2>2. catalog[q].canonical = q
      BY <1>1, <2>1 DEF Past
    <2>3. CASE q # e
      <3>1. catalog'[q] = catalog[q]
        BY <1>1, <1>2, <2>1, <2>2, <2>3
      <3>2. Aliases(catalog, q) \subseteq Aliases(catalog', q)
        BY <2>1, <2>3 DEF Aliases, Wrote, Canonical
      <3> QED BY <2>1, <3>1, <3>2 DEF Past
    <2>4. CASE q = e
      \* The entity was merged with one that the snapshot does not know of.
      <3>1. m \in Aliases(catalog', q) /\ m \notin s.aliases
        BY <2>1, <2>4 DEF Aliases, Wrote, Canonical, Past
      <3>2. ~catalog[q].deleted /\ ~catalog'[q].deleted
        BY <2>1, <2>4 DEF Wrote, Canonical
      <3> QED BY <2>1, <3>1, <3>2 DEF Past
    <2> QED BY <2>3, <2>4
  <1>7. s.deleted => s.versions[q] = catalog'[q].version
    <2> HAVE s.deleted
    <2>1. s.versions[q] = catalog[q].version /\ catalog[q].deleted
      BY DEF Past
    <2>2. catalog[q].canonical = q
      BY <1>1, <2>1 DEF Past
    <2>3. q # m /\ q # e
      BY <2>1 DEF Wrote, Canonical
    <2> QED BY <1>1, <1>2, <2>1, <2>2, <2>3
  <1> QED BY <1>3, <1>4, <1>5, <1>6, <1>7 DEF Past

LEMMA WriteKeepsHistory ==
    ASSUME CInv, CInv', History, CatalogueWrites
    PROVE  History'
  <1>1. CatalogTypeOK /\ CatalogTypeOK' /\ sent \subseteq Snapshot
    BY DEF CInv, CatalogTypeOK
  <1>2. PICK m, e \in Entity : Wrote(m, e)
    BY <1>1, WritesAre
  <1> DEFINE n == SnapshotOf(catalog', e)
  <1>3. Flat(catalog')
    <2>1. \A x \in Entity : catalog[x].canonical \in Entity
      BY <1>1 DEF CatalogTypeOK, CatalogEntry
    <2> QED BY <1>2, <2>1 DEF Flat, History, Wrote, Canonical
  <1>4. \A s \in sent : Past(s, catalog')
    BY <1>1, <1>2, PastStays DEF History
  <1>5. /\ n.entity = e /\ n.aliases = Aliases(catalog', e)
        /\ n.deleted = catalog'[e].deleted /\ n.covers = catalog'[e].covers
        /\ \A x \in Ids(n) : n.versions[x] = catalog'[x].version
        /\ Ids(n) = {x \in Entity : catalog'[x].canonical = e}
    <2>1. /\ n.entity = e /\ n.aliases = Aliases(catalog', e)
          /\ n.deleted = catalog'[e].deleted /\ n.covers = catalog'[e].covers
          /\ n.versions = [x \in Entity |-> IF x \in Aliases(catalog', e) \cup {e}
                                            THEN catalog'[x].version ELSE 0]
      BY DEF SnapshotOf
    <2> HIDE DEF n
    <2>2. Ids(n) = {x \in Entity : catalog'[x].canonical = e}
      BY <1>2, <2>1 DEF Ids, Aliases, Wrote
    <2> QED BY <2>1, <2>2 DEF Ids
  <1> HIDE DEF n
  <1>6. Past(n, catalog')
    <2>1. \A x \in Entity : catalog'[x].version \in Nat
      BY <1>1, CatalogAssumption DEF CatalogTypeOK, CatalogEntry, Version
    <2>2. catalog'[e].canonical = e
      BY <1>2 DEF Wrote
    <2> QED BY <1>5, <2>1, <2>2 DEF Past, Aliases
  <1>7. sent' = sent \cup {n}
    BY <1>2 DEF Wrote, n
  <1>8. ASSUME NEW s \in sent, s.entity # e, Ids(s) \cap Ids(n) # {}
        PROVE  Later(s, n)
    <2>1. PICK x \in Ids(s) : x \in Ids(n)
      BY <1>8
    <2>2. s.entity \in Entity
      BY <1>1 DEF Snapshot
    <2>3. catalog'[s.entity].canonical = e
      BY <1>4, <1>5, <2>1 DEF Past
    <2>4. s.versions[s.entity] < catalog'[s.entity].version
      BY <1>4, <1>8, <2>3 DEF Past
    <2> QED BY <1>5, <2>2, <2>3, <2>4 DEF Later
  <1>9. Ordered'
    <2> SUFFICES ASSUME NEW s \in sent', NEW t \in sent',
                        s.entity # t.entity, Ids(s) \cap Ids(t) # {}
                 PROVE  Later(s, t) \/ Later(t, s)
      BY DEF Ordered
    <2>1. CASE s \in sent /\ t \in sent
      BY <2>1 DEF History, Ordered
    <2>2. CASE s = n /\ t \in sent
      BY <1>5, <1>8, <2>2
    <2>3. CASE s \in sent /\ t = n
      BY <1>5, <1>8, <2>3
    <2> QED BY <1>7, <2>1, <2>2, <2>3
  <1> QED BY <1>3, <1>4, <1>6, <1>7, <1>9 DEF History

-----------------------------------------------------------------------------
(* What the receipts and the deliveries are made of                        *)

\* The receipt of e is from snapshot s, and what else s told has been taken down
\* with it.
Told(e, s) ==
    /\ e \in Ids(s)
    /\ receipt[e].version = s.versions[e]
    /\ receipt[e].canonical = s.entity
    /\ receipt[e].state = "deleted" <=> s.deleted
    /\ \A x \in Ids(s) : s.versions[x] <= receipt[x].version

ReceiptsTold == \A e \in Entity : receipt[e].version > 0 => \E s \in sent : Told(e, s)

SentBefore == \A d \in Delivery : delivery[d].pc = "applying" => delivery[d].snapshot \in sent

HInv == CInv /\ History /\ ReceiptsTold /\ SentBefore

LEMMA AppliedIs ==
    ASSUME HInv, NEW d \in Delivery, CommitApply(d)
    PROVE  LET s == delivery[d].snapshot
           IN  /\ s \in sent /\ s \in Snapshot /\ ~Stale(s) /\ Past(s, catalog)
               /\ receipt' = Receipts(s)
               /\ \A x \in Ids(s) : /\ receipt[x].version <= s.versions[x]
                                    /\ s.versions[x] <= catalog[x].version
               /\ Ids(s) \subseteq Entity /\ s.entity \in Ids(s)
               /\ UNCHANGED <<catalog, sent>>
  <1> DEFINE s == delivery[d].snapshot
  <1>1. /\ s \in sent /\ ~Stale(s) /\ receipt' = Receipts(s) /\ UNCHANGED <<catalog, sent>>
    BY DEF HInv, CInv, SentBefore, LockHeld, CommitApply
  <1>2. s \in Snapshot /\ Past(s, catalog)
    BY <1>1 DEF HInv, CInv, CatalogTypeOK, History
  <1> HIDE DEF s
  <1>3. Ids(s) \subseteq Entity /\ s.entity \in Ids(s)
    BY <1>2 DEF Ids, Snapshot
  <1>4. \A x \in Entity : receipt[x].version \in Nat /\ s.versions[x] \in Nat
    BY <1>2 DEF HInv, CInv, CatalogTypeOK, Receipt, Snapshot
  <1>5. \A x \in Ids(s) : receipt[x].version <= s.versions[x]
    BY <1>1, <1>3, <1>4 DEF Stale
  <1> QED BY <1>1, <1>2, <1>3, <1>5 DEF Past, s

LEMMA CommitKeepsTold ==
    ASSUME HInv, NEW d \in Delivery, CommitApply(d)
    PROVE  ReceiptsTold'
  <1>1. PICK s \in sent :
          /\ s \in Snapshot /\ receipt' = Receipts(s) /\ sent' = sent
          /\ \A x \in Ids(s) : receipt[x].version <= s.versions[x]
          /\ Ids(s) \subseteq Entity
    BY AppliedIs
  <1>2. \A x \in Entity : receipt[x].version \in Nat /\ s.versions[x] \in Nat
    BY <1>1 DEF HInv, CInv, CatalogTypeOK, Receipt, Snapshot
  <1>3. ASSUME NEW x \in Ids(s)
        PROVE  /\ receipt'[x].version = s.versions[x]
               /\ receipt'[x].canonical = s.entity
               /\ receipt'[x].state = "deleted" <=> s.deleted
    BY <1>1 DEF Receipts
  <1>4. \A x \in Entity \ Ids(s) : receipt'[x] = receipt[x]
    BY <1>1 DEF Receipts
  <1>5. \A x \in Entity : receipt[x].version <= receipt'[x].version
    BY <1>1, <1>2, <1>3, <1>4
  <1>6. ASSUME NEW e \in Entity, receipt'[e].version > 0
        PROVE  \E t \in sent : Told(e, t)'
    <2>1. CASE e \in Ids(s)
      <3>1. \A x \in Ids(s) : s.versions[x] <= receipt'[x].version
        BY <1>1, <1>2, <1>3
      <3>2. Told(e, s)'
        BY <1>3, <2>1, <3>1 DEF Told, Ids
      <3> QED BY <1>1, <3>2
    <2>2. CASE e \notin Ids(s)
      <3>1. receipt'[e] = receipt[e]
        BY <1>4, <2>2
      <3>2. PICK t \in sent : Told(e, t)
        BY <1>6, <3>1 DEF HInv, ReceiptsTold
      <3>3. t \in Snapshot
        BY DEF HInv, CInv, CatalogTypeOK
      <3>4. \A x \in Ids(t) : x \in Entity /\ t.versions[x] \in Nat
        BY <3>3 DEF Snapshot, Ids
      <3>5. \A x \in Ids(t) : t.versions[x] <= receipt'[x].version
        <4>1. \A x \in Entity : receipt'[x].version \in Nat
          BY <1>1, <1>2, <1>3, <1>4
        <4> QED BY <1>2, <1>5, <3>2, <3>4, <4>1 DEF Told
      <3>6. Told(e, t)'
        BY <3>1, <3>2, <3>5 DEF Told, Ids
      <3> QED BY <3>6
    <2> QED BY <2>1, <2>2
  <1> QED BY <1>1, <1>6 DEF ReceiptsTold

LEMMA HInitially == CatalogInit => HInv
  <1> SUFFICES ASSUME CatalogInit
               PROVE  HInv
    OBVIOUS
  <1> DEFINE c == Catalogue(Entity)
  <1>1. /\ catalog = c
        /\ sent = UNION {{SnapshotOf(x, e) : e \in {y \in Entity : x[y].canonical = y}} :
                           x \in {c}}
        /\ receipt = [e \in Entity |->
                        IF c[e].deleted
                        THEN [version |-> 1, state |-> "deleted", canonical |-> e]
                        ELSE NoReceipt(e)]
        /\ delivery = [d \in Delivery |-> Idle]
    BY DEF CatalogInit, StartWith
  <1>2. \A e \in Entity : c[e].canonical = e /\ c[e].version = 1 /\ ~c[e].deleted
                          /\ c[e].covers = {}
    BY DEF Catalogue
  <1>3. CInv /\ ReceiptsTold /\ SentBefore
    BY <1>1, <1>2, CatalogInitially DEF ReceiptsTold, SentBefore, NoReceipt, Idle
  <1> HIDE DEF c
  <1>4. ASSUME NEW s \in sent
        PROVE  /\ s.entity \in Entity /\ Ids(s) = {s.entity} /\ s.aliases = {}
               /\ s.versions[s.entity] = 1 /\ ~s.deleted /\ s.covers = {}
    <2>1. PICK e \in Entity : s = SnapshotOf(c, e)
      BY <1>1
    <2>2. Aliases(c, e) = {}
      BY <1>2 DEF Aliases
    <2> QED BY <1>2, <2>1, <2>2 DEF SnapshotOf, Ids
  <1>5. ASSUME NEW s \in sent
        PROVE  Past(s, c)
    <2> DEFINE e == s.entity
    <2>1. /\ e \in Entity /\ Ids(s) = {e} /\ s.aliases = {}
          /\ s.versions[e] = 1 /\ ~s.deleted /\ s.covers = {}
      BY <1>4
    <2>2. /\ c[e].canonical = e /\ c[e].version = 1 /\ ~c[e].deleted /\ c[e].covers = {}
      BY <1>2, <2>1
    <2> QED BY <2>1, <2>2 DEF Past
  <1>7. Flat(c)
    BY <1>2 DEF Flat
  <1>6. Ordered
    BY <1>4 DEF Ordered
  <1> QED BY <1>1, <1>3, <1>5, <1>6, <1>7 DEF HInv, History

LEMMA HInvKept ==
    ASSUME HInv, [CatalogNext]_catalogVars
    PROVE  HInv'
  <1>1. CInv'
    BY CInvKept DEF HInv
  <1>2. CASE CatalogueWrites
    <2>1. /\ sent \subseteq sent' /\ UNCHANGED <<receipt, delivery>>
      BY <1>2 DEF CatalogueWrites, Save, Merge, Delete, Publish
    <2>2. ReceiptsTold' /\ SentBefore'
      BY <2>1 DEF HInv, ReceiptsTold, SentBefore, Told, Ids
    <2> QED BY <1>1, <1>2, <2>2, WriteKeepsHistory DEF HInv
  <1>3. ASSUME UNCHANGED <<catalog, sent>>
        PROVE  History'
    BY <1>3 DEF HInv, History, Flat, Ordered, Later, Past, Ids, Aliases
  <1>4. ASSUME NEW d \in Delivery, NEW s \in sent, BeginApply(d, s)
        PROVE  HInv'
    <2>1. /\ UNCHANGED <<catalog, sent, receipt>>
          /\ \/ UNCHANGED delivery
             \/ delivery' = [delivery EXCEPT ![d] = [pc |-> "applying", snapshot |-> s]]
      BY <1>4 DEF BeginApply
    <2>2. ReceiptsTold' /\ SentBefore'
      BY <2>1 DEF HInv, CInv, CatalogTypeOK, ReceiptsTold, SentBefore, Told, Ids
    <2> QED BY <1>1, <1>3, <2>1, <2>2 DEF HInv
  <1>5. ASSUME NEW d \in Delivery, CommitApply(d)
        PROVE  HInv'
    <2>1. /\ UNCHANGED <<catalog, sent>>
          /\ delivery' = [delivery EXCEPT ![d] = Idle]
      BY <1>5 DEF CommitApply
    <2>2. SentBefore'
      BY <2>1 DEF HInv, CInv, CatalogTypeOK, SentBefore, Idle
    <2> QED BY <1>1, <1>3, <1>5, <2>1, <2>2, CommitKeepsTold DEF HInv
  <1>6. ASSUME NEW d \in Delivery, AbortApply(d)
        PROVE  HInv'
    <2>1. /\ UNCHANGED <<catalog, sent, receipt>>
          /\ delivery' = [delivery EXCEPT ![d] = Idle]
      BY <1>6 DEF AbortApply
    <2>2. ReceiptsTold' /\ SentBefore'
      BY <2>1 DEF HInv, CInv, CatalogTypeOK, ReceiptsTold, SentBefore, Told, Ids, Idle
    <2> QED BY <1>1, <1>3, <2>1, <2>2 DEF HInv
  <1>7. CASE UNCHANGED <<catalog, sent, receipt, delivery>>
    <2>1. ReceiptsTold' /\ SentBefore'
      BY <1>7 DEF HInv, ReceiptsTold, SentBefore, Told, Ids
    <2> QED BY <1>1, <1>3, <1>7, <2>1 DEF HInv
  <1>8. \/ CatalogueWrites
        \/ \E d \in Delivery : Delivers(d)
        \/ UNCHANGED <<catalog, sent, receipt, delivery>>
    BY DEF CatalogNext, Binds, Resolve, BeginBind, CheckTarget, CommitBind, AbortBind,
           Unbind, Reclaim, catalogVars
  <1> QED BY <1>2, <1>4, <1>5, <1>6, <1>7, <1>8 DEF Delivers

LEMMA HInvAlways == CatalogSpec => []HInv
  BY HInitially, HInvKept, PTL DEF CatalogSpec

-----------------------------------------------------------------------------
(* A delivery leaves the truth alone                                       *)

\* A snapshot that names an entity whose receipt is true is of the entity that
\* this one belongs to, and agrees on whether it is deleted.
LEMMA FreshAgrees ==
    ASSUME HInv, NEW d \in Delivery, CommitApply(d), NEW e \in Entity, InSync(e),
           e \in Ids(delivery[d].snapshot)
    PROVE  LET s == delivery[d].snapshot
           IN  /\ s.entity = catalog[e].canonical
               /\ s.versions[e] = catalog[e].version
               /\ s.deleted <=> catalog[s.entity].deleted
  <1> DEFINE c == catalog[e].canonical
  <1>1. PICK s \in sent :
          /\ s = delivery[d].snapshot
          /\ s \in Snapshot /\ Past(s, catalog)
          /\ \A x \in Ids(s) : /\ receipt[x].version <= s.versions[x]
                               /\ s.versions[x] <= catalog[x].version
          /\ Ids(s) \subseteq Entity /\ s.entity \in Ids(s) /\ e \in Ids(s)
    BY AppliedIs
  <1>2. /\ \A x \in Entity : receipt[x].version \in Nat /\ s.versions[x] \in Nat
        /\ \A x \in Entity : catalog[x].version \in Nat \ {0}
        /\ c \in Entity
    BY <1>1, CatalogAssumption
       DEF HInv, CInv, CatalogTypeOK, Receipt, Snapshot, CatalogEntry, Version
  <1>3. /\ receipt[e].version = catalog[e].version /\ receipt[e].canonical = c
        /\ receipt[e].state = "deleted" <=> catalog[c].deleted
    BY DEF InSync
  <1> HIDE DEF c
  <1>4. s.versions[e] = catalog[e].version
    BY <1>1, <1>2, <1>3
  <1>5. PICK t \in sent : Told(e, t)
    BY <1>2, <1>3 DEF HInv, ReceiptsTold
  <1>6. /\ t \in Snapshot /\ Past(t, catalog) /\ t.entity = c
        /\ t.entity \in Ids(t) /\ Ids(t) \subseteq Entity
        /\ \A x \in Entity : t.versions[x] \in Nat
        /\ t.deleted <=> catalog[c].deleted
    BY <1>3, <1>5 DEF HInv, CInv, CatalogTypeOK, History, Snapshot, Told, Ids
  <1>7. s.entity = c
    <2> SUFFICES ASSUME s.entity # t.entity
                 PROVE  FALSE
      BY <1>6
    <2>1. Later(s, t) \/ Later(t, s)
      BY <1>1, <1>5 DEF HInv, History, Ordered, Told
    <2>2. CASE Later(s, t)
      <3>1. /\ s.entity \in Ids(t) /\ s.entity \in Entity
            /\ s.versions[s.entity] < t.versions[s.entity]
            /\ t.versions[s.entity] <= receipt[s.entity].version
            /\ receipt[s.entity].version <= s.versions[s.entity]
        BY <1>1, <1>5, <2>2 DEF Later, Told
      <3> QED BY <1>2, <1>6, <3>1
    <2>3. CASE Later(t, s)
      <3>1. c \in s.aliases
        BY <1>6, <2>3 DEF Later, Ids
      <3>2. catalog[c].canonical # c
        BY <1>1, <3>1 DEF Past
      <3> QED BY <3>2 DEF HInv, History, Flat, c
    <2> QED BY <2>1, <2>2, <2>3
  <1>8. s.deleted <=> catalog[c].deleted
    <2>1. /\ t.versions[c] <= receipt[c].version
          /\ receipt[c].version <= s.versions[c]
          /\ s.versions[c] <= catalog[c].version
      BY <1>1, <1>5, <1>6, <1>7 DEF Told
    <2>2. t.deleted => t.versions[c] = catalog[c].version
      BY <1>6 DEF Past
    <2>3. t.deleted => s.versions[c] = catalog[c].version
      BY <1>2, <1>6, <2>1, <2>2
    <2> QED BY <1>1, <1>6, <1>7, <2>3 DEF Past
  <1> QED BY <1>1, <1>4, <1>7, <1>8 DEF c

LEMMA TruthStays ==
    ASSUME HInv, NEW d \in Delivery, CommitApply(d), NEW e \in Entity, InSync(e)
    PROVE  InSync(e)'
  <1>1. PICK s \in sent :
          /\ s = delivery[d].snapshot /\ receipt' = Receipts(s) /\ UNCHANGED catalog
    BY AppliedIs
  <1>2. CASE e \notin Ids(s)
    <2>1. receipt'[e] = receipt[e]
      BY <1>1, <1>2 DEF Receipts
    <2> QED BY <1>1, <2>1 DEF InSync
  <1>3. CASE e \in Ids(s)
    <2>1. /\ s.entity = catalog[e].canonical /\ s.versions[e] = catalog[e].version
          /\ s.deleted <=> catalog[s.entity].deleted
      BY <1>1, <1>3, FreshAgrees
    <2>2. receipt'[e] = [version |-> s.versions[e],
                         state |-> IF s.deleted THEN "deleted"
                                   ELSE IF e = s.entity THEN "active" ELSE "merged",
                         canonical |-> s.entity]
      BY <1>1, <1>3 DEF Receipts
    <2> QED BY <1>1, <2>1, <2>2 DEF InSync
  <1> QED BY <1>2, <1>3

\* A snapshot of an entity that the receipts know to the last alias shows the
\* pictures that the catalogue shows.
LEMMA CoverStays ==
    ASSUME HInv, NEW d \in Delivery, CommitApply(d), NEW e \in Entity,
           NEW a \in catalog[e].covers, Canonical(e),
           \A x \in Aliases(catalog, e) \cup {e} : InSync(x),
           CoverOf(e, a) \in References(bindings)
    PROVE  CoverOf(e, a) \in References(bindings')
  <1>1. PICK s \in sent :
          /\ s = delivery[d].snapshot /\ s \in Snapshot /\ Past(s, catalog) /\ ~Stale(s)
          /\ Ids(s) \subseteq Entity /\ s.entity \in Ids(s)
    BY AppliedIs
  <1>2. bindings' = (bindings \ OfEntities(Ids(s)))
                      \cup (IF s.deleted THEN {} ELSE Moved(s) \ Withdrawn(s))
    BY <1>1 DEF CommitApply
  <1>3. PICK x \in bindings : x.asset = a /\ x.entity = e /\ x.role = Cover
    BY DEF References, CoverOf
  <1>4. CASE e \notin Ids(s)
    <2>1. x \in bindings'
      BY <1>2, <1>3, <1>4 DEF OfEntities
    <2> QED BY <1>3, <2>1 DEF References, CoverOf
  <1>5. CASE e \in Ids(s)
    <2>1. /\ s.entity = e /\ s.versions[e] = catalog[e].version /\ ~s.deleted
      BY <1>1, <1>5, FreshAgrees DEF Canonical
    <2>2. \A y \in Aliases(catalog, e) : y \in s.aliases
      <3> SUFFICES ASSUME NEW y \in Aliases(catalog, e)
                   PROVE  y \in Ids(s)
        BY <2>1 DEF Ids, Aliases
      <3>1. y \in Entity /\ catalog[y].canonical = e /\ InSync(y)
        BY DEF Aliases
      <3>2. receipt[y].version > 0 /\ receipt[y].canonical = e
        BY <3>1, CatalogAssumption DEF InSync, HInv, CInv, CatalogTypeOK, CatalogEntry, Version
      <3> QED BY <1>1, <2>1, <3>1, <3>2 DEF Stale
    <2>3. s.covers = catalog[e].covers
      BY <1>1, <2>1, <2>2 DEF Past
    <2>4. x \in OfEntities(Ids(s)) \ Surplus(s)
      BY <1>1, <1>3, <1>5, <2>1 DEF OfEntities, Surplus, Past
    <2> DEFINE y == [x EXCEPT !.entity = s.entity]
    <2>5. /\ y \in Moved(s)
          /\ y.asset = a /\ y.entity = e /\ y.role = Cover
      BY <1>3, <2>1, <2>4 DEF Moved, HInv, CInv, CatalogTypeOK, Binding
    <2> HIDE DEF y
    <2>6. y \notin Withdrawn(s)
      BY <2>3, <2>5 DEF Withdrawn
    <2>7. y \in bindings'
      BY <1>2, <2>1, <2>5, <2>6
    <2> QED BY <2>5, <2>7 DEF References, CoverOf
  <1> QED BY <1>4, <1>5

\* No snapshot, however late and in whatever order with others, takes a receipt
\* away from the truth, nor a picture that the catalogue shows.
THEOREM RedeliveryHarmlessCorrect == CatalogSpec => RedeliveryHarmless
  <1> DEFINE Harmless ==
        catalog' = catalog =>
         /\ \A e \in Entity : InSync(e) => InSync(e)'
         /\ \A e \in Entity : \A a \in catalog[e].covers :
              /\ \E d \in Delivery : CommitApply(d)
              /\ Canonical(e)
              /\ \A x \in Aliases(catalog, e) \cup {e} : InSync(x)
              /\ CoverOf(e, a) \in References(bindings)
              => CoverOf(e, a) \in References(bindings')
  <1>1. HInv /\ [CatalogNext]_catalogVars => Harmless
    <2> SUFFICES ASSUME HInv, [CatalogNext]_catalogVars, catalog' = catalog
                 PROVE  \A e \in Entity : InSync(e) => InSync(e)'
      BY CoverStays
    <2>1. (\E d \in Delivery : CommitApply(d)) \/ UNCHANGED receipt
      BY DEF CatalogNext, CatalogueWrites, Save, Merge, Delete, Publish, Binds, Resolve,
             BeginBind, CheckTarget, CommitBind, AbortBind, Delivers, BeginApply, AbortApply,
             Unbind, Reclaim, catalogVars
    <2>2. CASE UNCHANGED receipt
      BY <2>2 DEF InSync
    <2> QED BY <2>1, <2>2, TruthStays
  <1>2. CatalogSpec => [][Harmless]_catalogVars
    BY <1>1, HInvAlways, PTL DEF CatalogSpec
  <1> QED BY <1>2, PTL DEF RedeliveryHarmless

-----------------------------------------------------------------------------
(* A merge loses no file                                                   *)

LEMMA LeastNatural ==
    ASSUME NEW T \in SUBSET Nat, T # {}
    PROVE  \E n \in T : \A m \in T : n <= m
  <1>1. PICK n \in T : \A m \in T : <<m, n>> \notin OpToRel(<, Nat)
    BY NatLessThanWellFounded, WFMin
  <1>2. \A m \in T : ~ m < n
    BY <1>1 DEF OpToRel
  <1> QED BY <1>2

\* Of the bindings of one file in one role that a snapshot brings together, one
\* is not surplus.
LEMMA OneIsMoved ==
    ASSUME bindings \subseteq Binding, NEW s \in Snapshot, s.entity \notin s.aliases,
           NEW x \in OfEntities(Ids(s))
    PROVE  \E k \in OfEntities(Ids(s)) \ Surplus(s) : k.asset = x.asset /\ k.role = x.role
  <1> DEFINE same == {y \in OfEntities(Ids(s)) : y.asset = x.asset /\ y.role = x.role}
  <1>1. CASE \E k \in same : k.entity = s.entity
    BY <1>1 DEF Surplus, OfEntities
  <1>2. CASE ~ \E k \in same : k.entity = s.entity
    <2> DEFINE numbers == {y.id : y \in same}
    <2>1. \A y \in same : y.id \in Nat
      BY CatalogAssumption DEF OfEntities, Binding
    <2>2. numbers \in SUBSET Nat /\ x \in same /\ numbers # {}
      BY <2>1
    <2>3. PICK n \in numbers : \A m \in numbers : n <= m
      BY <2>2, LeastNatural
    <2>4. PICK k \in same : k.id = n
      OBVIOUS
    <2>5. \A y \in same : ~ y.id < k.id
      BY <2>1, <2>3, <2>4
    <2>6. k \notin Surplus(s)
      BY <1>2, <2>4, <2>5 DEF Surplus
    <2> QED BY <2>4, <2>6
  <1> QED BY <1>1, <1>2

\* What was bound to an entity or to one of its aliases in a role is bound to the
\* entity in that role afterwards, but for covers that the snapshot withdraws.
THEOREM FilesSurviveMergeCorrect == CatalogSpec => FilesSurviveMerge
  <1> DEFINE Survive ==
        \A d \in Delivery : CommitApply(d) /\ ~delivery[d].snapshot.deleted =>
          LET s == delivery[d].snapshot
              Same(x) == {y \in OfEntities(Ids(s)) : y.asset = x.asset /\ y.role = x.role}
          IN  \A x \in OfEntities(Ids(s)) :
                \/ x.role # Cover
                \/ x.asset \in s.covers
                \/ x.confirmed > s.savedAt /\ Same(x) = {x}
                => \E y \in bindings' : /\ y.asset = x.asset
                                        /\ y.entity = s.entity
                                        /\ y.role = x.role
  <1>1. HInv => Survive
    <2> SUFFICES ASSUME HInv, NEW d \in Delivery, CommitApply(d),
                        ~delivery[d].snapshot.deleted,
                        NEW x \in OfEntities(Ids(delivery[d].snapshot)),
                        LET s == delivery[d].snapshot
                        IN  \/ x.role # Cover
                            \/ x.asset \in s.covers
                            \/ /\ x.confirmed > s.savedAt
                               /\ {y \in OfEntities(Ids(s)) :
                                     y.asset = x.asset /\ y.role = x.role} = {x}
                 PROVE  \E y \in bindings' : /\ y.asset = x.asset
                                             /\ y.entity = delivery[d].snapshot.entity
                                             /\ y.role = x.role
      OBVIOUS
    <2>1. PICK s \in sent :
            s = delivery[d].snapshot /\ s \in Snapshot /\ Past(s, catalog)
      BY AppliedIs
    <2>2. bindings' = (bindings \ OfEntities(Ids(s))) \cup (Moved(s) \ Withdrawn(s))
      BY <2>1 DEF CommitApply
    <2>3. bindings \subseteq Binding /\ s.entity \notin s.aliases
      BY <2>1 DEF HInv, CInv, CatalogTypeOK, Past
    <2>4. PICK k \in OfEntities(Ids(s)) \ Surplus(s) : k.asset = x.asset /\ k.role = x.role
      BY <2>1, <2>3, OneIsMoved
    <2> DEFINE y == [k EXCEPT !.entity = s.entity]
    <2>5. /\ y \in Moved(s)
          /\ y.asset = x.asset /\ y.entity = s.entity /\ y.role = x.role
          /\ y.confirmed = k.confirmed
      BY <2>3, <2>4 DEF Moved, OfEntities, Binding
    <2> HIDE DEF y
    <2>6. y \notin Withdrawn(s)
      <3>1. CASE x.role # Cover \/ x.asset \in s.covers
        BY <2>5, <3>1 DEF Withdrawn
      <3>2. CASE /\ x.confirmed > s.savedAt
                 /\ {z \in OfEntities(Ids(s)) : z.asset = x.asset /\ z.role = x.role} = {x}
        <4>1. k = x
          BY <2>4, <3>2
        <4>2. x.confirmed \in Nat /\ s.savedAt \in Nat
          BY <2>1, <2>3 DEF OfEntities, Binding, Snapshot, Time
        <4> QED BY <2>5, <3>2, <4>1, <4>2 DEF Withdrawn
      <3> QED BY <2>1, <3>1, <3>2
    <2> QED BY <2>1, <2>2, <2>5, <2>6
  <1>2. CatalogSpec => [][Survive]_catalogVars
    BY <1>1, HInvAlways, PTL
  <1> QED BY <1>2, PTL DEF FilesSurviveMerge

-----------------------------------------------------------------------------
(* ReadGate: who reads beside merges and deliveries                        *)

\* A binding has a file that is there, and there are finitely many of them.
BoundThere == IsFiniteSet(bindings) /\ \A x \in bindings : x.asset \notin reclaimed

LEMMA FiniteImage ==
    ASSUME NEW S, IsFiniteSet(S), NEW f
    PROVE  IsFiniteSet({f[x] : x \in S})
  <1> DEFINE g == [x \in S |-> f[x]]
  <1>1. g \in Surjection(S, {f[x] : x \in S})
    BY DEF Surjection
  <1> QED BY <1>1, FS_Surjection

LEMMA UpsertBounded ==
    ASSUME BoundThere, bindings \subseteq Binding, NEW new, new.asset \notin reclaimed
    PROVE  IsFiniteSet(Upsert(new)) /\ \A x \in Upsert(new) : x.asset \notin reclaimed
  <1>1. CASE \E old \in bindings : SameReference(old, new)
    <2> DEFINE confirm == [old \in bindings |-> IF SameReference(old, new)
                                                THEN [old EXCEPT !.confirmed = new.confirmed]
                                                ELSE old]
    <2>1. Upsert(new) = {confirm[old] : old \in bindings}
      BY <1>1 DEF Upsert
    <2>2. \A old \in bindings : confirm[old].asset = old.asset
      BY DEF Binding
    <2> HIDE DEF confirm
    <2> QED BY <2>1, <2>2, FiniteImage DEF BoundThere
  <1>2. CASE ~ \E old \in bindings : SameReference(old, new)
    <2>1. Upsert(new) = bindings \cup {new}
      BY <1>2 DEF Upsert
    <2> QED BY <2>1, FS_AddElement DEF BoundThere
  <1> QED BY <1>1, <1>2

LEMMA BoundThereKept ==
    ASSUME CatalogTypeOK, BoundThere, [CatalogNext]_catalogVars
    PROVE  BoundThere'
  <1> USE DEF BoundThere
  <1>1. bindings \subseteq Binding
    BY DEF CatalogTypeOK
  <1>2. ASSUME NEW b \in Binder, CommitBind(b)
        PROVE  BoundThere'
    <2>1. UNCHANGED reclaimed
      BY <1>2 DEF CommitBind
    <2>2. CASE UNCHANGED bindings
      BY <2>1, <2>2
    <2>3. CASE ~UNCHANGED bindings
      <3> DEFINE new(id) == [id |-> id, asset |-> binder[b].asset, entity |-> binder[b].entity,
                             role |-> binder[b].role, confirmed |-> binder[b].began]
      <3>1. PICK id \in FreeId : bindings' = Upsert(new(id)) /\ binder[b].asset \notin reclaimed
        BY <1>2, <2>3 DEF CommitBind
      <3>2. new(id).asset \notin reclaimed
        BY <3>1
      <3> HIDE DEF new
      <3> QED BY <1>1, <2>1, <3>1, <3>2, UpsertBounded
    <2> QED BY <2>2, <2>3
  <1>3. ASSUME NEW d \in Delivery, CommitApply(d)
        PROVE  BoundThere'
    <2>1. PICK s : s = delivery[d].snapshot
      OBVIOUS
    <2>2. /\ bindings' \subseteq bindings \cup Moved(s)
          /\ UNCHANGED reclaimed
      BY <1>3, <2>1 DEF CommitApply
    <2> DEFINE move == [x \in bindings |-> [x EXCEPT !.entity = s.entity]]
    <2>3. Moved(s) \subseteq {move[x] : x \in bindings}
      BY DEF Moved, OfEntities
    <2>4. \A x \in bindings : move[x].asset = x.asset
      BY <1>1 DEF Binding
    <2> HIDE DEF move
    <2>5. IsFiniteSet(bindings \cup {move[x] : x \in bindings})
      BY FiniteImage, FS_Union
    <2>6. IsFiniteSet(bindings')
      BY <2>2, <2>3, <2>5, FS_Subset
    <2> QED BY <2>2, <2>3, <2>4, <2>6
  <1>4. ASSUME NEW x \in bindings, Unbind(x)
        PROVE  BoundThere'
    BY <1>4, FS_Subset DEF Unbind
  <1>5. ASSUME NEW a \in Asset, Reclaim(a)
        PROVE  BoundThere'
    BY <1>5 DEF Reclaim
  <1>6. CASE UNCHANGED <<bindings, reclaimed>>
    BY <1>6
  <1>7. \/ \E b \in Binder : CommitBind(b)
        \/ \E d \in Delivery : CommitApply(d)
        \/ \E x \in bindings : Unbind(x)
        \/ \E a \in Asset : Reclaim(a)
        \/ UNCHANGED <<bindings, reclaimed>>
    BY DEF CatalogNext, CatalogueWrites, Save, Merge, Delete, Publish, Binds, Resolve,
           BeginBind, CheckTarget, AbortBind, Delivers, BeginApply, AbortApply, catalogVars
  <1> QED BY <1>2, <1>3, <1>4, <1>5, <1>6, <1>7

\* What an entity is called by is called the same by its own canonical entity.
LEMMA MergesCompose ==
    ASSUME HInv, [CatalogNext]_catalogVars, NEW x \in Entity
    PROVE  catalog'[x].canonical = catalog'[catalog[x].canonical].canonical
  <1>1. /\ CatalogTypeOK /\ catalog[x].canonical \in Entity
        /\ catalog[catalog[x].canonical].canonical = catalog[x].canonical
    BY DEF HInv, CInv, CatalogTypeOK, CatalogEntry, History, Flat
  <1>2. CASE CatalogueWrites
    <2>1. PICK m, e \in Entity : Wrote(m, e)
      BY <1>1, <1>2, WritesAre
    <2> QED BY <1>1, <2>1 DEF Wrote, Canonical
  <1>3. CASE UNCHANGED catalog
    BY <1>1, <1>3
  <1>4. CatalogueWrites \/ UNCHANGED catalog
    BY DEF CatalogNext, Binds, Resolve, BeginBind, CheckTarget, CommitBind, AbortBind,
           Delivers, BeginApply, CommitApply, AbortApply, Unbind, Reclaim, catalogVars
  <1> QED BY <1>2, <1>3, <1>4

\* The clock may run on its own: an event outside of the catalogue.
LEMMA ClockKeeps ==
    ASSUME HInv, BoundThere, Tick \/ UNCHANGED now,
           UNCHANGED <<catalog, sent, bindings, receipt, reclaimed, lock, binder, delivery>>
    PROVE  HInv' /\ BoundThere'
  <1>1. now \in Time /\ now' \in Time /\ now <= now'
    BY CatalogAssumption DEF HInv, CInv, CatalogTypeOK, Tick, Time
  <1>2. CatalogTypeOK'
    BY <1>1 DEF HInv, CInv, CatalogTypeOK
  <1>3. VersionsInTime'
    BY <1>1, CatalogAssumption
       DEF HInv, CInv, CatalogTypeOK, VersionsInTime, CatalogEntry, Version, Time
  <1>4. (LockHeld /\ NoBindingToRetired)'
    BY DEF HInv, CInv, LockHeld, NoBindingToRetired, Retired, Stale
  <1>5. (History /\ ReceiptsTold /\ SentBefore)'
    BY DEF HInv, History, Flat, Ordered, Later, Past, Ids, Aliases, ReceiptsTold, Told,
           SentBefore
  <1> QED BY <1>2, <1>3, <1>4, <1>5 DEF HInv, CInv, BoundThere

\* What a request is owed by, the file is readable by; while it asks, there is a
\* binding left that will tell so.
Owed ==
    \A r \in Reader :
        /\ Reading(r) => \A c \in owed[r] : ReadableBy(File(r), c)
        /\ reader[r].pc = "probing"
             => \A c \in owed[r] : \E e \in reader[r].todo : catalog[e].canonical = c
        /\ reader[r].pc = "loaded" /\ ~reader[r].open => owed[r] = {}
        /\ reader[r].pc = "idle" => owed[r] = {}

GateTypes == /\ visible \subseteq Entity
             /\ blocked \subseteq Asset
             /\ pending \subseteq Asset
             /\ reader \in [Reader -> ReaderState]
             /\ owed \in [Reader -> SUBSET Entity]

GInv == HInv /\ BoundThere /\ GateTypes /\ Owed /\ SteadyReaderServed

LEMMA GateInitially == ReadInit => GInv
  <1> SUFFICES ASSUME ReadInit
               PROVE  GInv
    OBVIOUS
  <1>1. HInv /\ bindings = {}
    BY HInitially DEF ReadInit, CatalogInit, StartWith
  <1>2. BoundThere
    BY <1>1, FS_EmptySet DEF BoundThere
  <1>3. GateTypes /\ Owed /\ SteadyReaderServed
    BY DEF ReadInit, GateTypes, ReaderState, Owed, SteadyReaderServed, Reading, Idle
  <1> QED BY <1>1, <1>2, <1>3 DEF GInv

LEMMA ReaderIs ==
    ASSUME GateTypes, NEW r \in Reader
    PROVE  /\ Reading(r) => File(r) \in Asset
           /\ reader[r].pc = "probing" => reader[r].todo \subseteq Entity
           /\ reader[r].pc \in {"idle", "loaded", "active", "granted", "probing", "answered"}
           /\ reader[r].pc = "answered" => reader[r] = Answered(reader[r].answer)
  BY DEF GateTypes, ReaderState, Reading, File, Idle, Answered

\* Whatever else changes: what is owed still is checked anew, and a binding that
\* would tell of an entity tells of the one it was merged into.
LEMMA OwedFollows ==
    ASSUME GateTypes, Owed, SteadyReaderServed, HInv, UNCHANGED reader, OwedStill,
           \A x \in Entity : catalog'[x].canonical = catalog'[catalog[x].canonical].canonical
    PROVE  owed' \in [Reader -> SUBSET Entity] /\ Owed' /\ SteadyReaderServed'
  <1>1. owed' \in [Reader -> SUBSET Entity]
    BY DEF OwedStill
  <1>2. ASSUME NEW r \in Reader, NEW c \in owed'[r]
        PROVE  /\ Reading(r) /\ ReadableBy(File(r), c)'
               /\ \E p \in owed[r] : catalog'[p].canonical = c
    BY <1>2 DEF OwedStill
  <1>3. ASSUME NEW r \in Reader, reader'[r].pc = "probing", NEW c \in owed'[r]
        PROVE  \E e \in reader'[r].todo : catalog'[e].canonical = c
    <2>1. PICK p \in owed[r] : catalog'[p].canonical = c
      BY <1>2
    <2>2. PICK e \in reader[r].todo : catalog[e].canonical = p
      BY <1>3 DEF Owed
    <2>3. e \in Entity
      BY <1>3, <2>2, ReaderIs
    <2> QED BY <2>1, <2>2, <2>3
  <1>4. \A r \in Reader : (reader[r].pc = "idle" => owed[r] = {})'
    BY <1>2 DEF Reading
  <1>5. \A r \in Reader : (reader[r].pc = "loaded" /\ ~reader[r].open => owed[r] = {})'
    BY <1>2 DEF Owed
  <1>6. \A r \in Reader : Reading(r)' => \A c \in owed'[r] : ReadableBy(File(r), c)'
    BY <1>2
  <1>7. SteadyReaderServed'
    BY <1>2 DEF SteadyReaderServed, Reading, Answered
  <1> QED BY <1>1, <1>3, <1>4, <1>6, <1>7, <1>5 DEF Owed

LEMMA AroundTheReader ==
    ASSUME GInv,
           \/ CatalogStep
           \/ \E e \in Entity : Rights(e)
           \/ \E a \in Asset : Moderate(a) \/ CompleteAsset(a) \/ MarkHashMismatch(a)
    PROVE  GInv'
  <1> USE DEF GInv
  <1>1. CASE CatalogStep
    <2>1. CatalogNext /\ UNCHANGED <<visible, blocked, pending, reader>> /\ OwedStill
      BY <1>1 DEF CatalogStep, ReadersAside
    <2>2. HInv' /\ BoundThere'
      BY <2>1, HInvKept, BoundThereKept DEF HInv, CInv
    <2> QED BY <2>1, <2>2, OwedFollows, MergesCompose DEF GateTypes
  <1>2. ASSUME NEW e \in Entity, Rights(e)
        PROVE  GInv'
    <2>1. /\ Tick /\ OwedStill /\ visible' \subseteq Entity
          /\ UNCHANGED <<catalog, sent, bindings, receipt, reclaimed, lock, binder, delivery>>
          /\ UNCHANGED <<blocked, pending, reader>>
      BY <1>2 DEF Rights, GateTypes
    <2>2. HInv' /\ BoundThere'
      BY <2>1, ClockKeeps
    <2>3. \A x \in Entity : catalog'[x].canonical = catalog'[catalog[x].canonical].canonical
      BY <2>1 DEF HInv, History, Flat
    <2> QED BY <2>1, <2>2, <2>3, OwedFollows DEF GateTypes
  <1>3. ASSUME NEW a \in Asset, Moderate(a)
        PROVE  GInv'
    <2>1. /\ Tick /\ blocked' \subseteq Asset
          /\ UNCHANGED <<catalog, sent, bindings, receipt, reclaimed, lock, binder, delivery>>
          /\ UNCHANGED <<visible, pending, reader, owed>>
      BY <1>3 DEF Moderate, GateTypes
    <2>2. HInv' /\ BoundThere'
      BY <2>1, ClockKeeps
    <2>3. Owed' /\ SteadyReaderServed'
      BY <2>1 DEF Owed, SteadyReaderServed, Reading, File, ReadableBy, Visible, Living
    <2> QED BY <2>1, <2>2, <2>3 DEF GateTypes
  <1>4. ASSUME NEW a \in Asset, CompleteAsset(a) \/ MarkHashMismatch(a)
        PROVE  GInv'
    <2>1. /\ Tick /\ OwedStill /\ pending' \subseteq Asset
          /\ UNCHANGED <<catalog, sent, bindings, receipt, reclaimed, lock, binder, delivery>>
          /\ UNCHANGED <<visible, blocked, reader>>
      BY <1>4 DEF CompleteAsset, MarkHashMismatch, SetPending, GateTypes
    <2>2. HInv' /\ BoundThere'
      BY <2>1, ClockKeeps
    <2>3. \A x \in Entity : catalog'[x].canonical = catalog'[catalog[x].canonical].canonical
      BY <2>1 DEF HInv, History, Flat
    <2> QED BY <2>1, <2>2, <2>3, OwedFollows DEF GateTypes
  <1> QED BY <1>1, <1>2, <1>3, <1>4

\* A step of the gate replaces the record of its request and what is owed to it.
LEMMA GateStep ==
    ASSUME GInv, NEW r \in Reader, NEW s \in ReaderState, NEW due \in SUBSET Entity,
           Goto(r, s), owed' = [owed EXCEPT ![r] = due], Tick \/ UNCHANGED now,
           s.pc # "idle",
           due # {} => s # Answered("notFound"),
           s.pc # "answered" => \A c \in due : ReadableBy(s.asset, c),
           s.pc = "loaded" /\ ~s.open => due = {},
           s.pc = "probing" => \A c \in due : \E e \in s.todo : catalog[e].canonical = c
    PROVE  GInv'
  <1> USE DEF GInv
  <1>1. /\ reader' = [reader EXCEPT ![r] = s]
        /\ UNCHANGED <<catalog, sent, bindings, receipt, reclaimed, lock, binder, delivery>>
        /\ UNCHANGED <<visible, blocked, pending>>
    BY DEF Goto
  <1>2. HInv' /\ BoundThere'
    BY <1>1, ClockKeeps
  <1>3. GateTypes'
    BY <1>1 DEF GateTypes
  <1>4. \A a, c : ReadableBy(a, c)' <=> ReadableBy(a, c)
    BY <1>1 DEF ReadableBy, Visible, Living
  <1>5. /\ reader'[r] = s /\ owed'[r] = due
        /\ \A q \in Reader \ {r} : reader'[q] = reader[q] /\ owed'[q] = owed[q]
    BY <1>1 DEF GateTypes
  <1>6. SteadyReaderServed'
    BY <1>5 DEF SteadyReaderServed, Answered
  <1>7. ASSUME NEW q \in Reader
        PROVE  /\ Reading(q)' => \A c \in owed'[q] : ReadableBy(File(q), c)'
               /\ reader'[q].pc = "probing"
                    => \A c \in owed'[q] : \E e \in reader'[q].todo : catalog'[e].canonical = c
               /\ reader'[q].pc = "loaded" /\ ~reader'[q].open => owed'[q] = {}
               /\ reader'[q].pc = "idle" => owed'[q] = {}
    <2>1. PICK state, dues : state = reader'[q] /\ dues = owed'[q]
      OBVIOUS
    <2>2. /\ state.pc \notin {"idle", "answered"} => \A c \in dues : ReadableBy(state.asset, c)
          /\ state.pc = "probing" => \A c \in dues : \E e \in state.todo : catalog[e].canonical = c
          /\ state.pc = "loaded" /\ ~state.open => dues = {}
          /\ state.pc = "idle" => dues = {}
      <3>1. CASE q = r
        BY <1>5, <2>1, <3>1
      <3>2. CASE q # r
        BY <1>5, <2>1, <3>2 DEF Owed, Reading, File
      <3> QED BY <3>1, <3>2
    <2>3. \A c : ReadableBy(File(q), c)' <=> ReadableBy(state.asset, c)
      BY <1>1, <2>1 DEF ReadableBy, Visible, Living, File
    <2> QED BY <1>1, <2>1, <2>2, <2>3 DEF Reading
  <1>8. Owed'
    BY <1>7 DEF Owed
  <1> QED BY <1>2, <1>3, <1>6, <1>8

LEMMA NothingOwed ==
    ASSUME GInv, NEW r \in Reader, Goto(r, Answered("notFound")),
           owed' = [owed EXCEPT ![r] = {}], Tick \/ UNCHANGED now
    PROVE  GInv'
  <1> DEFINE s == Answered("notFound")
  <1>1. s \in ReaderState /\ s.pc = "answered"
    BY DEF Answered, ReaderState
  <1>2. PICK due \in SUBSET Entity : due = {}
    OBVIOUS
  <1> HIDE DEF s
  <1>3. Goto(r, s) /\ owed' = [owed EXCEPT ![r] = due]
    BY <1>2 DEF s
  <1> QED BY <1>1, <1>2, <1>3, GateStep

LEMMA TheReader ==
    ASSUME GInv, NEW r \in Reader, Reads(r)
    PROVE  GInv'
  <1> DEFINE a == File(r)
             stays == owed' = [owed EXCEPT ![r] = owed[r]] /\ UNCHANGED now
  <1> USE DEF GInv
  <1>1. \A answer \in {"served", "notFound", "missing", "unavailable"} :
          /\ Answered(answer) \in ReaderState /\ Answered(answer).pc = "answered"
          /\ Answered(answer) = Answered("notFound") => answer = "notFound"
    BY DEF Answered, ReaderState
  <1>2. \A f \in Asset :
          /\ \A p \in {"active", "granted"} : [pc |-> p, asset |-> f] \in ReaderState
          /\ \A open \in BOOLEAN : [pc |-> "loaded", asset |-> f, open |-> open] \in ReaderState
    BY DEF ReaderState
  <1>3. owed[r] \in SUBSET Entity /\ (Stay => stays)
    BY DEF GateTypes, Stay
  <1>4. Reading(r) => /\ a \in Asset /\ \A c \in owed[r] : ReadableBy(a, c)
    BY ReaderIs DEF Owed
  \* A file that is being deleted is not bound to anything.
  <1>5. Reading(r) /\ a \in reclaimed => owed[r] = {}
    BY <1>4 DEF ReadableBy, BoundThere
  <1> HIDE DEF a, stays
  <1>6. ASSUME NEW f \in Asset, LoadRow(r, f)
        PROVE  GInv'
    <2> DEFINE open == f \notin blocked \cup pending
               due  == IF open THEN {c \in Entity : ReadableBy(f, c)} ELSE {}
               s    == [pc |-> "loaded", asset |-> f, open |-> open]
    <2>1. Goto(r, s) /\ owed' = [owed EXCEPT ![r] = due] /\ UNCHANGED now
      BY <1>6 DEF LoadRow
    <2>2. /\ s \in ReaderState /\ due \in SUBSET Entity
          /\ s.pc = "loaded" /\ s # Answered("notFound") /\ s.asset = f /\ s.open = open
      <3>1. open \in BOOLEAN
        OBVIOUS
      <3>2. due \in SUBSET Entity
        OBVIOUS
      <3> HIDE DEF open, due
      <3> QED BY <1>2, <3>1, <3>2 DEF Answered
    <2>3. (\A c \in due : ReadableBy(s.asset, c)) /\ (~s.open => due = {})
      OBVIOUS
    <2> HIDE DEF due, s, open
    <2> QED BY <2>1, <2>2, <2>3, GateStep
  <1>7. CASE CheckActive(r)
    <2>1. reader[r].pc = "loaded" /\ Reading(r) /\ stays
      BY <1>3, <1>7 DEF CheckActive, Reading
    <2>2. CASE (a \in reclaimed \/ ~reader[r].open) /\ Goto(r, Answered("notFound"))
      <3>1. owed[r] = {}
        BY <1>5, <2>1, <2>2 DEF Owed
      <3> QED BY <1>1, <1>3, <2>1, <2>2, <3>1, GateStep DEF stays
    <2>3. CASE Goto(r, [pc |-> "active", asset |-> a])
      <3> DEFINE s == [pc |-> "active", asset |-> a]
      <3>1. s \in ReaderState /\ s.pc = "active" /\ s # Answered("notFound") /\ s.asset = a
        BY <1>2, <1>4, <2>1 DEF Answered
      <3> HIDE DEF s
      <3> QED BY <1>3, <1>4, <2>1, <2>3, <3>1, GateStep DEF stays, s
    <2>4. CASE Goto(r, Answered("unavailable"))
      BY <1>1, <1>3, <2>1, <2>4, GateStep DEF stays
    <2> QED BY <1>7, <2>2, <2>3, <2>4 DEF CheckActive, a
  <1>8. CASE ListBindings(r)
    <2> DEFINE all == {x \in bindings : x.asset = a}
    <2>1. reader[r].pc = "active" /\ Reading(r)
      BY <1>8 DEF ListBindings, Reading
    <2>2. ASSUME NEW some \in SUBSET all,
                 Cardinality(some) = IF Cardinality(all) <= MaxProbe
                                     THEN Cardinality(all) ELSE MaxProbe,
                 Goto(r, [pc |-> "probing", asset |-> a, todo |-> {x.entity : x \in some}]),
                 owed' = [owed EXCEPT ![r] = IF Cardinality(all) <= MaxProbe THEN @ ELSE {}],
                 UNCHANGED now
          PROVE  GInv'
      <3> DEFINE due == IF Cardinality(all) <= MaxProbe THEN owed[r] ELSE {}
                 s   == [pc |-> "probing", asset |-> a, todo |-> {x.entity : x \in some}]
      <3>1. /\ s \in ReaderState /\ due \in SUBSET owed[r] /\ s.pc = "probing"
            /\ s # Answered("notFound") /\ s.asset = a /\ s.todo = {x.entity : x \in some}
        <4>1. {x.entity : x \in some} \in SUBSET Entity
          BY DEF HInv, CInv, CatalogTypeOK, Binding
        <4> QED BY <1>4, <2>1, <4>1 DEF ReaderState, Answered
      <3>2. owed' = [owed EXCEPT ![r] = due]
        BY <2>2 DEF GateTypes
      <3>3. due # {} => some = all
        <4>1. IsFiniteSet(all)
          BY FS_Subset DEF BoundThere
        <4> QED BY <2>2, <4>1, FS_Subset
      <3>4. \A c \in due : \E e \in s.todo : catalog[e].canonical = c
        <4> SUFFICES ASSUME NEW c \in due
                     PROVE  \E x \in some : catalog[x.entity].canonical = c
          BY <3>1
        <4>1. ReadableBy(a, c)
          BY <1>4, <2>1, <3>1
        <4> QED BY <3>3, <4>1 DEF ReadableBy
      <3>5. Goto(r, s) /\ UNCHANGED now
        BY <2>2
      <3>6. due \in SUBSET Entity /\ \A c \in due : ReadableBy(s.asset, c)
        BY <1>3, <1>4, <2>1, <3>1
      <3> HIDE DEF s, due, all
      <3> QED BY <3>1, <3>2, <3>4, <3>5, <3>6, GateStep
    <2>3. CASE Tick /\ Goto(r, Answered("notFound")) /\ owed' = [owed EXCEPT ![r] = {}]
      BY <2>3, NothingOwed
    <2> QED BY <1>8, <2>2, <2>3 DEF ListBindings, a
  <1>9. CASE Probe(r)
    <2>1. /\ reader[r].pc = "probing" /\ Reading(r) /\ stays
          /\ \A c \in owed[r] : \E e \in reader[r].todo : catalog[e].canonical = c
          /\ reader[r] \in [pc : {"probing"}, asset : Asset, todo : SUBSET Entity]
      BY <1>3, <1>9 DEF Probe, Reading, Owed, GateTypes, ReaderState, Idle
    <2>2. CASE Goto(r, [pc |-> "granted", asset |-> a])
      <3> DEFINE s == [pc |-> "granted", asset |-> a]
      <3>1. s \in ReaderState /\ s.pc = "granted" /\ s # Answered("notFound") /\ s.asset = a
        BY <1>2, <1>4, <2>1 DEF Answered
      <3> HIDE DEF s
      <3> QED BY <1>3, <1>4, <2>1, <2>2, <3>1, GateStep DEF stays, s
    <2>3. ASSUME NEW e \in reader[r].todo, ~Visible(e),
                 Goto(r, [reader[r] EXCEPT !.todo = @ \ {e}])
          PROVE  GInv'
      <3> DEFINE s == [reader[r] EXCEPT !.todo = @ \ {e}]
      <3>1. /\ s.pc = "probing" /\ s.asset = a /\ s.todo = reader[r].todo \ {e}
            /\ s \in [pc : {"probing"}, asset : Asset, todo : SUBSET Entity]
        BY <2>1 DEF a, File
      <3>2. s \in ReaderState /\ s # Answered("notFound")
        BY <3>1 DEF ReaderState, Answered
      <3>3. \A c \in owed[r] : \E x \in s.todo : catalog[x].canonical = c
        <4> SUFFICES ASSUME NEW c \in owed[r]
                     PROVE  \E x \in reader[r].todo \ {e} : catalog[x].canonical = c
          BY <3>1
        <4>1. PICK x \in reader[r].todo : catalog[x].canonical = c
          BY <2>1
        \* What entity c shows, every binding shows that leads to it.
        <4>2. Visible(x)
          BY <1>4, <2>1, <4>1 DEF ReadableBy, Visible, Living
        <4> QED BY <2>3, <4>1, <4>2
      <3> HIDE DEF s
      <3> QED BY <1>3, <1>4, <2>1, <2>3, <3>1, <3>2, <3>3, GateStep DEF stays, s
    <2>4. CASE Goto(r, Answered("unavailable"))
      BY <1>1, <1>3, <2>1, <2>4, GateStep DEF stays
    <2> QED BY <1>9, <2>2, <2>3, <2>4 DEF Probe, a
  <1>10. CASE Exhausted(r)
    <2>1. /\ reader[r].pc = "probing" /\ reader[r].todo = {} /\ stays
          /\ Goto(r, Answered("notFound"))
      BY <1>3, <1>10 DEF Exhausted
    <2>2. owed[r] = {}
      BY <2>1 DEF Owed
    <2> QED BY <1>1, <1>3, <2>1, <2>2, GateStep DEF stays
  <1>11. CASE Open(r) \/ Presign(r)
    <2>1. Reading(r) /\ stays
      BY <1>3, <1>11 DEF Open, Presign, Reading
    <2>2. ASSUME NEW answer \in {"served", "missing", "unavailable"}, Goto(r, Answered(answer))
          PROVE  GInv'
      BY <1>1, <1>3, <2>1, <2>2, GateStep DEF stays
    <2> QED BY <1>11, <2>2 DEF Open, Presign
  <1> QED BY <1>6, <1>7, <1>8, <1>9, <1>10, <1>11 DEF Reads

LEMMA GInvAlways == ReadSpec => []GInv
  <1>1. GInv /\ [ReadNext]_readVars => GInv'
    <2> SUFFICES ASSUME GInv, [ReadNext]_readVars
                 PROVE  GInv'
      OBVIOUS
    <2>1. CASE UNCHANGED readVars
      <3>1. HInv' /\ BoundThere'
        BY <2>1, ClockKeeps DEF readVars, GInv
      <3> QED BY <2>1, <3>1
              DEF readVars, GInv, GateTypes, Owed, SteadyReaderServed, Reading, File,
                  ReadableBy, Visible, Living
    <2> QED BY <2>1, AroundTheReader, TheReader DEF ReadNext
  <1> QED BY GateInitially, <1>1, PTL DEF ReadSpec

\* The tables, their keys, and what the gate keeps of a request, are of their types.
THEOREM GateTypeCorrect == ReadSpec => []GateTypeOK
  <1>1. GInv => GateTypeOK
    BY DEF GInv, HInv, CInv, GateTypes, GateTypeOK
  <1> QED BY <1>1, GInvAlways, PTL

\* A file that is complete and readable all the while is not answered 404
\* not_found, whatever merges, deliveries, bindings, withdrawals and changes of
\* rights fall between the checks.
THEOREM SteadyReaderServedCorrect == ReadSpec => []SteadyReaderServed
  <1>1. GInv => SteadyReaderServed
    BY DEF GInv
  <1> QED BY <1>1, GInvAlways, PTL
=============================================================================
