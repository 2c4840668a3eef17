----------------------------- MODULE QuotaProofs -----------------------------
(***************************************************************************)
(* What TLAPS proves of Quota, for any rows, users, requests, sizes and    *)
(* limits: the budget lock excludes, and concurrent reservations keep the  *)
(* budgets.                                                                *)
(*                                                                         *)
(* The sum of the sizes of some rows is the number of their units, so that *)
(* what is known of finite sets is known of sums.                          *)
(***************************************************************************)
EXTENDS Quota, FiniteSetTheorems, TLAPS

-----------------------------------------------------------------------------
(* The inductive invariant *)

RequestState == [pc : Pc, kind : Kinds, asset : Asset \cup {NoAsset},
                 size : Nat, user : Usage, site : Usage]

\* Whoever reads the usage holds the lock, and is the only one who does.
LockHeld == \A r \in Request : request[r].pc \in {"locked", "user", "site"} <=> holder = r

\* A row has one request at a time.
RowsApart ==
    /\ \A r \in Request : request[r].pc # "idle" => request[r].asset \in Asset
    /\ \A r, q \in Request :
         request[r].pc # "idle" /\ request[q].pc # "idle" /\ request[r].asset = request[q].asset
         => r = q

\* What a request knows of its row: a reservation is for a row that does not
\* exist yet, a row that is completed was pending, and only the upload of a row
\* of unknown size is refused after its bytes were received.
Seen(r) ==
    request[r].pc # "idle" =>
        /\ request[r].kind = "initiate" =>
             /\ request[r].pc \in {"wait", "locked", "user", "site"}
             /\ status[request[r].asset] = "unborn"
        /\ request[r].kind = "complete" => status[request[r].asset] \in {"pending", "gone"}
        /\ request[r].kind = "stream" =>
             request[r].pc \in {"settle", "discard"} \/ Declared[request[r].asset] = 0

RowAsSeen == \A r \in Request : Seen(r)

\* A row that is charged what it declared.
Plain(a) == status[a] = "pending" \/ (status[a] = "complete" /\ Declared[a] = Actual[a])

PlainUnits(rows) == UNION {{a} \X (1 .. Charge(a)) : a \in {b \in rows : Plain(b)}}

PendingRows == {a \in Asset : status[a] = "pending"}

FiniteUsage == IsFiniteSet(Units(Asset)) /\ IsFiniteSet(PendingRows)

Covers(usage, rows) ==
    /\ Cardinality(PlainUnits(rows)) <= usage.bytes
    /\ Cardinality(Reserved(rows)) <= usage.count

\* While the lock is held, what has been read stays an upper bound: rows that are
\* completed, taken back or reclaimed beside it add nothing.
Covered(r) ==
    request[r].kind = "initiate" =>
        /\ request[r].pc \in {"user", "site"}
             => Covers(request[r].user, UserRows(OwnerOf[request[r].asset]))
        /\ request[r].pc = "site" => Covers(request[r].site, Asset)

ReadingsCover == \A r \in Request : Covered(r)

Kept(rows, quota, concurrent) ==
    /\ quota = 0 \/ Cardinality(PlainUnits(rows)) <= quota
    /\ concurrent = 0 \/ Cardinality(Reserved(rows)) <= concurrent

\* The budgets, counting only rows that are charged what they declared.
PlainBudgets ==
    /\ Kept(Asset, SiteQuota, SiteConcurrent)
    /\ \A u \in User : Kept(UserRows(u), UserQuota, UserConcurrent)

QInv == /\ TypeOK
        /\ LockHeld
        /\ RowsApart
        /\ RowAsSeen
        /\ FiniteUsage
        /\ ReadingsCover
        /\ PlainBudgets

-----------------------------------------------------------------------------
(* Sums of sizes *)

LEMMA UnitsOfRow ==
    ASSUME NEW a, NEW n \in Nat
    PROVE  IsFiniteSet({a} \X (1 .. n)) /\ Cardinality({a} \X (1 .. n)) = n
  <1>1. IsFiniteSet({a}) /\ Cardinality({a}) = 1
    BY FS_Singleton
  <1>2. IsFiniteSet(1 .. n) /\ Cardinality(1 .. n) = n
    BY FS_Interval
  <1>3. Cardinality({a} \X (1 .. n)) = 1 * n
    BY <1>1, <1>2, FS_Product
  <1> QED BY <1>1, <1>2, <1>3, FS_Product

\* What is plain is charged, and what is reserved is pending.
LEMMA PlainIsCharged ==
    ASSUME FiniteUsage, NEW rows \in SUBSET Asset
    PROVE  /\ UsageOf(rows) \in Usage
           /\ IsFiniteSet(PlainUnits(rows)) /\ IsFiniteSet(Reserved(rows))
           /\ Covers(UsageOf(rows), rows)
  <1> DEFINE pending == {a \in rows : status[a] = "pending"}
  <1>1. Units(rows) \subseteq Units(Asset) /\ PlainUnits(rows) \subseteq Units(rows)
    BY DEF Units, PlainUnits
  <1>2. pending \subseteq PendingRows /\ Reserved(rows) \subseteq pending
    BY DEF PendingRows, Reserved
  <1>3. IsFiniteSet(Units(rows)) /\ IsFiniteSet(pending)
    BY <1>1, <1>2, FS_Subset DEF FiniteUsage
  <1>4. Cardinality(Units(rows)) \in Nat /\ Cardinality(pending) \in Nat
    BY <1>3, FS_CardinalityType
  <1>5. /\ UsageOf(rows).bytes = Cardinality(Units(rows))
        /\ UsageOf(rows).count = Cardinality(pending)
        /\ UsageOf(rows) \in Usage
    BY <1>4 DEF UsageOf, Usage
  <1>6. /\ IsFiniteSet(PlainUnits(rows))
        /\ Cardinality(PlainUnits(rows)) <= Cardinality(Units(rows))
    BY <1>1, <1>3, FS_Subset
  <1>7. IsFiniteSet(Reserved(rows)) /\ Cardinality(Reserved(rows)) <= Cardinality(pending)
    BY <1>2, <1>3, FS_Subset
  <1> QED BY <1>5, <1>6, <1>7 DEF Covers

\* No row adds to what is plain or reserved.
NothingMore ==
    \A rows \in SUBSET Asset : /\ PlainUnits(rows)' \subseteq PlainUnits(rows)
                               /\ Reserved(rows)' \subseteq Reserved(rows)

LEMMA FewerFit ==
    ASSUME FiniteUsage, FiniteUsage', NothingMore, NEW rows \in SUBSET Asset
    PROVE  /\ Cardinality(PlainUnits(rows)) \in Nat /\ Cardinality(PlainUnits(rows)') \in Nat
           /\ Cardinality(Reserved(rows)) \in Nat /\ Cardinality(Reserved(rows)') \in Nat
           /\ Cardinality(PlainUnits(rows)') <= Cardinality(PlainUnits(rows))
           /\ Cardinality(Reserved(rows)') <= Cardinality(Reserved(rows))
  <1>1. IsFiniteSet(PlainUnits(rows)) /\ IsFiniteSet(Reserved(rows))
    BY PlainIsCharged
  <1>2. PlainUnits(rows)' \subseteq PlainUnits(rows) /\ Reserved(rows)' \subseteq Reserved(rows)
    BY DEF NothingMore
  <1>3. IsFiniteSet(PlainUnits(rows)') /\ IsFiniteSet(Reserved(rows)')
    BY <1>1, <1>2, FS_Subset
  <1> QED BY <1>1, <1>2, <1>3, FS_Subset, FS_CardinalityType

LEMMA UserRowsAre == \A u : UserRows(u) \in SUBSET Asset
  BY DEF UserRows

LEMMA BudgetsKept ==
    ASSUME FiniteUsage, FiniteUsage', NothingMore, PlainBudgets
    PROVE  PlainBudgets'
  <1>1. ASSUME NEW rows \in SUBSET Asset, NEW quota \in Nat, NEW concurrent \in Nat,
               Kept(rows, quota, concurrent)
        PROVE  Kept(rows, quota, concurrent)'
    BY <1>1, FewerFit DEF Kept
  <1> QED BY <1>1, UserRowsAre, QuotaAssumption DEF PlainBudgets

\* Row a gets the status s; everything else is as it was.
Becomes(a, s) == status' = [status EXCEPT ![a] = s]

Statuses == {"unborn", "pending", "complete", "gone"}

LEMMA FiniteStays ==
    ASSUME TypeOK, FiniteUsage, NEW a \in Asset, NEW s \in Statuses, Becomes(a, s)
    PROVE  FiniteUsage'
  <1>1. /\ status'[a] = s
        /\ \A b \in Asset \ {a} : status'[b] = status[b] /\ Charge(b)' = Charge(b)
    BY DEF TypeOK, Becomes, Charge
  <1>2. Charge(a)' \in Nat
    BY QuotaAssumption DEF Charge
  <1> DEFINE more == {a} \X (1 .. Charge(a)')
  <1>3. IsFiniteSet(more)
    BY <1>2, UnitsOfRow
  <1>4. Units(Asset)' \subseteq Units(Asset) \cup more
    BY <1>1 DEF Units
  <1>5. IsFiniteSet(Units(Asset)')
    <2> HIDE DEF more
    <2> QED BY <1>3, <1>4, FS_Union, FS_Subset DEF FiniteUsage
  <1>6. PendingRows' \subseteq PendingRows \cup {a}
    BY <1>1 DEF PendingRows
  <1>7. IsFiniteSet(PendingRows')
    BY <1>6, FS_AddElement, FS_Subset DEF FiniteUsage
  <1> QED BY <1>5, <1>7 DEF FiniteUsage

\* Rows that are completed or reclaimed, and rows of unknown size that are taken
\* back, add nothing.
LEMMA NothingMoreBy ==
    ASSUME TypeOK, NEW a \in Asset, NEW s \in Statuses, Becomes(a, s),
           \/ s = "gone"
           \/ s = "complete" /\ Live(a)
           \/ s = "pending" /\ (status[a] = "pending" \/ Declared[a] = 0)
    PROVE  NothingMore
  <1>1. /\ status'[a] = s
        /\ \A b \in Asset \ {a} : status'[b] = status[b]
    BY DEF TypeOK, Becomes
  <1>2. ASSUME NEW b \in Asset, NEW n \in 1 .. Charge(b)', Plain(b)'
        PROVE  Plain(b) /\ n \in 1 .. Charge(b)
    <2>1. CASE b # a
      BY <1>1, <1>2, <2>1 DEF Plain, Charge
    <2>2. CASE b = a /\ s = "complete"
      BY <1>1, <1>2, <2>2 DEF Plain, Charge, Live
    <2>3. CASE b = a /\ s = "pending"
      <3>1. Charge(b)' = Declared[b]
        BY <1>1, <2>3 DEF Charge
      <3>2. Declared[b] # 0
        BY <1>2, <3>1
      <3> QED BY <1>2, <2>3, <3>1, <3>2 DEF Plain, Charge
    <2> QED BY <1>1, <1>2, <2>1, <2>2, <2>3 DEF Plain
  <1>3. ASSUME NEW rows \in SUBSET Asset
        PROVE  PlainUnits(rows)' \subseteq PlainUnits(rows)
    BY <1>2 DEF PlainUnits
  <1>4. ASSUME NEW rows \in SUBSET Asset
        PROVE  Reserved(rows)' \subseteq Reserved(rows)
    BY <1>1, QuotaAssumption DEF Reserved
  <1> QED BY <1>3, <1>4 DEF NothingMore

LEMMA NothingMoreByNothing ==
    ASSUME UNCHANGED status
    PROVE  NothingMore /\ (FiniteUsage => FiniteUsage')
  <1>1. NothingMore
    BY DEF NothingMore, PlainUnits, Plain, Charge, Reserved
  <1>2. Units(Asset)' = Units(Asset) /\ PendingRows' = PendingRows
    BY DEF Units, Charge, PendingRows
  <1> QED BY <1>1, <1>2 DEF FiniteUsage

-----------------------------------------------------------------------------
(* The steps, one conjunct of the invariant after the other *)

LEMMA UsageIsTyped ==
    ASSUME FiniteUsage, NEW rows \in SUBSET Asset
    PROVE  UsageOf(rows) \in Usage
  BY PlainIsCharged

\* The row a request works on.
LEMMA RowOf ==
    ASSUME TypeOK, RowsApart, NEW r \in Request, request[r].pc # "idle"
    PROVE  request[r] \in RequestState /\ request[r].asset \in Asset
  BY DEF TypeOK, RowsApart, RequestState

LEMMA TypeKept ==
    ASSUME TypeOK, RowsApart, FiniteUsage, Next
    PROVE  TypeOK'
  <1> USE DEF TypeOK
  <1>a. NoRequest \in RequestState
    BY DEF NoRequest, NoUsage, RequestState, Usage, Pc, Kinds
  <1>b. \A a \in Asset : SizeOf(a) \in Nat /\ Actual[a] \in Nat /\ Declared[a] \in Nat
    BY QuotaAssumption DEF SizeOf
  <1>c. ASSUME NEW r \in Request, NEW kind \in Kinds, NEW a \in Asset, NEW size \in Nat,
               NEW pc \in Pc, Start(r, kind, a, size, pc)
        PROVE  request' \in [Request -> RequestState]
    BY <1>a, <1>c DEF Start, RequestState
  <1>d. ASSUME NEW r \in Request, NEW pc \in Pc, Goto(r, pc)
        PROVE  request' \in [Request -> RequestState]
    BY <1>d DEF Goto, RequestState
  <1>e. ASSUME NEW r \in Request, Answer(r)
        PROVE  request' \in [Request -> RequestState]
    BY <1>a, <1>e DEF Answer, RequestState
  <1>f. ASSUME request' \in [Request -> RequestState]
        PROVE  request' \in [Request -> [pc : Pc, kind : Kinds, asset : Asset \cup {NoAsset},
                                          size : Nat, user : Usage, site : Usage]]
    BY <1>f DEF RequestState
  <1> USE <1>f
  <1>1. ASSUME NEW r \in Request, NEW a \in Asset, Initiate(r, a)
        PROVE  TypeOK'
    BY <1>1, <1>b, <1>c DEF Initiate, Kinds, Pc
  <1>2. ASSUME NEW r \in Request, NEW a \in Asset, Complete(r, a)
        PROVE  TypeOK'
    BY <1>2, <1>b, <1>c DEF Complete, Kinds, Pc
  <1>3. ASSUME NEW r \in Request, NEW a \in Asset, Receive(r, a)
        PROVE  TypeOK'
    <2>1. PICK pc \in Pc : Start(r, "stream", a, Actual[a], pc)
      BY <1>3 DEF Receive, Pc
    <2> QED BY <1>3, <1>b, <1>c, <2>1 DEF Receive, Kinds, Bytes
  <1>4. ASSUME NEW r \in Request, Lock(r)
        PROVE  TypeOK'
    BY <1>4, <1>d DEF Lock, Pc
  <1>5. ASSUME NEW r \in Request, ReadUser(r)
        PROVE  TypeOK'
    <2>1. UsageOf(UserRows(OwnerOf[request[r].asset])) \in Usage
      BY UsageIsTyped, UserRowsAre
    <2> QED BY <1>5, <2>1 DEF ReadUser, Pc, RequestState
  <1>6. ASSUME NEW r \in Request, ReadSite(r)
        PROVE  TypeOK'
    <2>1. UsageOf(Asset) \in Usage
      BY UsageIsTyped
    <2> QED BY <1>6, <2>1 DEF ReadSite, Pc, RequestState
  <1>7. ASSUME NEW r \in Request, Reserve(r)
        PROVE  TypeOK'
    BY <1>7, <1>e DEF Reserve, Unlock
  <1>8. ASSUME NEW r \in Request, Redeem(r)
        PROVE  TypeOK'
    BY <1>8, <1>d DEF Redeem, Unlock, Pc
  <1>9. ASSUME NEW r \in Request, Settle(r)
        PROVE  TypeOK'
    BY <1>9, <1>d, <1>e DEF Settle, Pc
  <1>10. ASSUME NEW r \in Request, Remove(r)
         PROVE  TypeOK'
    BY <1>10, <1>d, <1>e DEF Remove, Pc, Bytes
  <1>11. ASSUME NEW r \in Request, Demote(r)
         PROVE  TypeOK'
    BY <1>11, <1>e DEF Demote
  <1>12. ASSUME NEW r \in Request, Break(r)
         PROVE  TypeOK'
    BY <1>12, <1>d, <1>e DEF Break, Unlock, Pc
  <1>13. ASSUME NEW a \in Asset, Reclaim(a) \/ \E bytes \in {"right", "junk"} : Put(a, bytes)
         PROVE  TypeOK'
    BY <1>13 DEF Reclaim, Put, Bytes
  <1> QED BY <1>1, <1>2, <1>3, <1>4, <1>5, <1>6, <1>7, <1>8, <1>9, <1>10, <1>11, <1>12, <1>13
          DEF Next, Step

\* The lock is taken when it is free, and goes with the transaction.
LEMMA LockKept ==
    ASSUME TypeOK, LockHeld, Next
    PROVE  LockHeld'
  <1> USE QuotaAssumption DEF TypeOK, LockHeld
  <1>1. ASSUME NEW r \in Request, NEW a \in Asset,
               Initiate(r, a) \/ Complete(r, a) \/ Receive(r, a)
        PROVE  LockHeld'
    <2>1. PICK pc \in {"wait", "settle", "discard"} : \E kind, size : Start(r, kind, a, size, pc)
      <3>1. CASE Initiate(r, a)
        BY <3>1 DEF Initiate
      <3>2. CASE Complete(r, a)
        BY <3>2, Zenon DEF Complete
      <3>3. CASE Receive(r, a)
        BY <3>3, Zenon DEF Receive
      <3> QED BY <1>1, <3>1, <3>2, <3>3
    <2>2. request[r].pc = "idle" /\ request'[r].pc \in {"wait", "settle", "discard"}
      BY <2>1 DEF Start, NoRequest
    <2>3. \A q \in Request \ {r} : request'[q] = request[q]
      BY <2>1 DEF Start
    <2> QED BY <1>1, <2>2, <2>3 DEF Initiate, Complete, Receive
  <1>2. ASSUME NEW r \in Request, Lock(r)
        PROVE  LockHeld'
    BY <1>2 DEF Lock, Goto
  <1>3. ASSUME NEW r \in Request, ReadUser(r) \/ ReadSite(r)
        PROVE  LockHeld'
    <2>1. request'[r].pc \in {"user", "site"} /\ request[r].pc \in {"locked", "user"}
      BY <1>3 DEF ReadUser, ReadSite
    <2>2. \A q \in Request \ {r} : request'[q].pc = request[q].pc
      BY <1>3 DEF ReadUser, ReadSite
    <2> QED BY <1>3, <2>1, <2>2 DEF ReadUser, ReadSite
  <1>4. ASSUME NEW r \in Request, Reserve(r)
        PROVE  LockHeld'
    BY <1>4 DEF Reserve, Answer, Unlock, NoRequest
  <1>5. ASSUME NEW r \in Request, Redeem(r)
        PROVE  LockHeld'
    BY <1>5 DEF Redeem, Goto, Unlock
  <1>6. ASSUME NEW r \in Request, Break(r)
        PROVE  LockHeld'
    BY <1>6 DEF Break, Goto, Answer, Unlock, NoRequest
  <1>7. ASSUME NEW r \in Request, Settle(r) \/ Remove(r) \/ Demote(r)
        PROVE  LockHeld'
    BY <1>7 DEF Settle, Remove, Demote, Goto, Answer, NoRequest
  <1>8. ASSUME NEW a \in Asset, Reclaim(a) \/ \E bytes \in {"right", "junk"} : Put(a, bytes)
        PROVE  LockHeld'
    BY <1>8 DEF Reclaim, Put
  <1> QED BY <1>1, <1>2, <1>3, <1>4, <1>5, <1>6, <1>7, <1>8 DEF Next, Step

\* A request only starts on a row that has none.
LEMMA RowsStayApart ==
    ASSUME TypeOK, RowsApart, Next
    PROVE  RowsApart'
  <1> USE QuotaAssumption DEF TypeOK, RowsApart
  <1>a. ASSUME NEW r \in Request,
               \A q \in Request \ {r} : request'[q] = request[q],
               \/ request'[r].pc = "idle"
               \/ request[r].pc # "idle" /\ request'[r].asset = request[r].asset
               \/ request'[r].asset \in Asset /\ Free(request'[r].asset)
        PROVE  RowsApart'
    BY <1>a DEF Free
  <1>b. ASSUME NEW r \in Request, NEW pc, Goto(r, pc), request[r].pc # "idle"
        PROVE  RowsApart'
    BY <1>a, <1>b DEF Goto
  <1>c. ASSUME NEW r \in Request, Answer(r)
        PROVE  RowsApart'
    BY <1>a, <1>c DEF Answer, NoRequest
  <1>d. ASSUME NEW r \in Request, NEW kind, NEW a \in Asset, NEW size, NEW pc,
               Start(r, kind, a, size, pc)
        PROVE  RowsApart'
    BY <1>a, <1>d DEF Start, NoRequest
  <1>1. ASSUME NEW r \in Request, NEW a \in Asset,
               Initiate(r, a) \/ Complete(r, a) \/ Receive(r, a)
        PROVE  RowsApart'
    BY <1>1, <1>d DEF Initiate, Complete, Receive
  <1>2. ASSUME NEW r \in Request, ReadUser(r) \/ ReadSite(r)
        PROVE  RowsApart'
    BY <1>2, <1>a DEF ReadUser, ReadSite
  <1>3. ASSUME NEW r \in Request, Lock(r) \/ Reserve(r) \/ Redeem(r)
        PROVE  RowsApart'
    BY <1>3, <1>b, <1>c DEF Lock, Reserve, Redeem
  <1>4. ASSUME NEW r \in Request, Break(r) \/ Settle(r) \/ Remove(r) \/ Demote(r)
        PROVE  RowsApart'
    BY <1>4, <1>b, <1>c DEF Break, Settle, Remove, Demote
  <1>5. ASSUME NEW a \in Asset, Reclaim(a) \/ \E bytes \in {"right", "junk"} : Put(a, bytes)
        PROVE  RowsApart'
    BY <1>5 DEF Reclaim, Put
  <1> QED BY <1>1, <1>2, <1>3, <1>4, <1>5 DEF Next, Step

\* What a step does to one row, or to none.
LEMMA RowChanges ==
    ASSUME TypeOK, RowsApart, RowAsSeen, Next
    PROVE  \/ UNCHANGED status
           \/ \E r \in Request : Reserve(r)
           \/ \E a \in Asset, s \in Statuses :
                 /\ Becomes(a, s)
                 /\ \/ s = "gone" /\ Live(a) /\ UNCHANGED request
                    \/ \E r \in Request :
                          /\ request[r].asset = a /\ request[r].pc # "idle"
                          /\ Answer(r)
                          /\ \/ s = "complete" /\ Live(a)
                             \/ s = "pending" /\ (status[a] = "pending" \/ Declared[a] = 0)
  <1> USE DEF TypeOK, Statuses
  <1>1. ASSUME NEW r \in Request, NEW a \in Asset,
               Initiate(r, a) \/ Complete(r, a) \/ Receive(r, a)
        PROVE  UNCHANGED status
    BY <1>1 DEF Initiate, Complete, Receive
  <1>2. ASSUME NEW r \in Request,
               \/ Lock(r) \/ ReadUser(r) \/ ReadSite(r) \/ Redeem(r) \/ Remove(r) \/ Break(r)
        PROVE  UNCHANGED status
    BY <1>2 DEF Lock, ReadUser, ReadSite, Redeem, Remove, Break
  <1>3. ASSUME NEW r \in Request, Settle(r), ~ UNCHANGED status
        PROVE  /\ request[r].asset \in Asset /\ request[r].pc # "idle"
               /\ Becomes(request[r].asset, "complete") /\ Live(request[r].asset)
               /\ Answer(r)
    BY <1>3 DEF Settle, Becomes, RowsApart
  <1>4. ASSUME NEW r \in Request, Demote(r), ~ UNCHANGED status
        PROVE  /\ request[r].asset \in Asset /\ request[r].pc # "idle"
               /\ Becomes(request[r].asset, "pending")
               /\ status[request[r].asset] = "pending" \/ Declared[request[r].asset] = 0
               /\ Answer(r)
    <2>1. request[r].asset \in Asset /\ request[r].kind \in Kinds /\ request[r].pc = "demote"
      BY <1>4 DEF Demote, RowsApart
    <2>2. Live(request[r].asset) /\ Becomes(request[r].asset, "pending") /\ Answer(r)
      BY <1>4, <2>1 DEF Demote, Becomes
    <2>3. status[request[r].asset] = "pending" \/ Declared[request[r].asset] = 0
      BY <2>1, <2>2 DEF RowAsSeen, Seen, Kinds, Live
    <2> QED BY <2>1, <2>2, <2>3
  <1>5. ASSUME NEW a \in Asset, \E bytes \in {"right", "junk"} : Put(a, bytes)
        PROVE  UNCHANGED status
    BY <1>5 DEF Put
  <1>6. ASSUME NEW a \in Asset, Reclaim(a)
        PROVE  Becomes(a, "gone") /\ Live(a) /\ UNCHANGED request
    BY <1>6 DEF Reclaim, Becomes
  <1> QED BY <1>1, <1>2, <1>3, <1>4, <1>5, <1>6 DEF Next, Step

\* A request changes no row but its own, and a row that is reclaimed existed.
LEMMA RowsStayAsSeen ==
    ASSUME TypeOK, RowsApart, RowAsSeen, Next
    PROVE  RowAsSeen'
  <1> USE DEF TypeOK
  <1>b. SUFFICES ASSUME NEW q \in Request PROVE Seen(q)'
    BY DEF RowAsSeen
  <1>c. Seen(q) /\ (request[q].pc # "idle" => request[q].asset \in Asset)
    BY DEF RowAsSeen, RowsApart
  <1>d. ASSUME NEW r \in Request, r # q, request[r].pc # "idle",
               request'[q] = request[q],
               \A a \in Asset \ {request[r].asset} : status'[a] = status[a]
        PROVE  Seen(q)'
    BY <1>c, <1>d DEF Seen, RowsApart
  <1>e. ASSUME request'[q] = request[q], UNCHANGED status
        PROVE  Seen(q)'
    BY <1>c, <1>e DEF Seen
  <1>1. ASSUME NEW r \in Request, NEW a \in Asset, Initiate(r, a)
        PROVE  Seen(q)'
    <2>1. CASE q = r
      BY <1>1, <2>1 DEF Initiate, Start, NoRequest, Seen
    <2> QED BY <1>1, <2>1, <1>e DEF Initiate, Start
  <1>2. ASSUME NEW r \in Request, NEW a \in Asset, Complete(r, a)
        PROVE  Seen(q)'
    <2>1. CASE q = r
      BY <1>2, <2>1 DEF Complete, Start, NoRequest, Seen
    <2> QED BY <1>2, <2>1, <1>e DEF Complete, Start
  <1>3. ASSUME NEW r \in Request, NEW a \in Asset, Receive(r, a)
        PROVE  Seen(q)'
    <2>1. PICK pc : /\ Start(r, "stream", a, Actual[a], pc)
                    /\ pc \in {"settle", "discard"} \/ Declared[a] = 0
      BY <1>3, Zenon DEF Receive
    <2>2. CASE q = r
      BY <2>1, <2>2 DEF Start, NoRequest, Seen
    <2>3. CASE q # r
      BY <1>3, <2>1, <2>3, <1>e DEF Start, Receive
    <2> QED BY <2>2, <2>3
  <1>4. ASSUME NEW r \in Request, Lock(r)
        PROVE  Seen(q)'
    BY <1>4, <1>c DEF Lock, Goto, Seen
  <1>5. ASSUME NEW r \in Request, ReadUser(r) \/ ReadSite(r)
        PROVE  Seen(q)'
    BY <1>5, <1>c DEF ReadUser, ReadSite, Seen
  <1>6. ASSUME NEW r \in Request, Reserve(r)
        PROVE  Seen(q)'
    <2>1. CASE q = r
      BY <1>6, <2>1 DEF Reserve, Answer, NoRequest, Seen
    <2>2. CASE q # r
      BY <1>6, <2>2, <1>d DEF Reserve, Answer
    <2> QED BY <2>1, <2>2
  <1>7. ASSUME NEW r \in Request, Redeem(r)
        PROVE  Seen(q)'
    BY <1>7, <1>c DEF Redeem, Goto, Seen
  <1>8. ASSUME NEW r \in Request, Break(r)
        PROVE  Seen(q)'
    BY <1>8, <1>c DEF Break, Goto, Answer, NoRequest, Seen
  <1>9. ASSUME NEW r \in Request, Settle(r)
        PROVE  Seen(q)'
    <2>1. request[r].pc = "settle" /\ request[r].kind \in Kinds
      BY <1>9 DEF Settle
    <2>2. CASE q = r
      BY <1>9, <1>c, <2>1, <2>2 DEF Settle, Goto, Answer, NoRequest, Seen, Kinds
    <2>3. CASE q # r
      BY <1>9, <2>1, <2>3, <1>d DEF Settle, Goto, Answer
    <2> QED BY <2>2, <2>3
  <1>10. ASSUME NEW r \in Request, Remove(r)
         PROVE  Seen(q)'
    BY <1>10, <1>c DEF Remove, Goto, Answer, NoRequest, Seen
  <1>11. ASSUME NEW r \in Request, Demote(r)
         PROVE  Seen(q)'
    <2>1. CASE q = r
      BY <1>11, <2>1 DEF Demote, Answer, NoRequest, Seen
    <2>2. CASE q # r
      BY <1>11, <2>2, <1>d DEF Demote, Answer
    <2> QED BY <2>1, <2>2
  <1>12. ASSUME NEW a \in Asset, Reclaim(a)
         PROVE  Seen(q)'
    BY <1>12, <1>c DEF Reclaim, Live, Seen
  <1>13. ASSUME NEW a \in Asset, \E bytes \in {"right", "junk"} : Put(a, bytes)
         PROVE  Seen(q)'
    BY <1>13, <1>e DEF Put
  <1> QED BY <1>1, <1>2, <1>3, <1>4, <1>5, <1>6, <1>7, <1>8, <1>9, <1>10, <1>11, <1>12, <1>13
          DEF Next, Step

\* The readings of whoever still reads cover what only becomes less.
LEMMA ReadingsStay ==
    ASSUME TypeOK, FiniteUsage, FiniteUsage', NothingMore, ReadingsCover,
           \A q \in Request :
             \/ request'[q] = request[q]
             \/ request'[q].pc \notin {"user", "site"} \/ request'[q].kind # "initiate"
    PROVE  ReadingsCover'
  <1>1. ASSUME NEW usage \in Usage, NEW rows \in SUBSET Asset, Covers(usage, rows)
        PROVE  Covers(usage, rows)'
    BY <1>1, FewerFit DEF Covers, Usage
  <1>2. \A q \in Request : request[q].user \in Usage /\ request[q].site \in Usage
    BY DEF TypeOK
  <1> QED BY <1>1, <1>2, UserRowsAre DEF ReadingsCover, Covered

\* A row is added within what the usage read leaves of the limits.
LEMMA RowFits ==
    ASSUME TypeOK, FiniteUsage, NEW a \in Asset, Becomes(a, "pending"),
           NEW rows \in SUBSET Asset, NEW usage \in Usage, Covers(usage, rows),
           NEW quota \in Nat, NEW concurrent \in Nat,
           ~Exceeds(usage, Declared[a], quota), ~Full(usage, concurrent)
    PROVE  Kept(rows, quota, concurrent)'
  <1> DEFINE more == {a} \X (1 .. Declared[a])
  <1>1. /\ status'[a] = "pending"
        /\ \A b \in Asset \ {a} : status'[b] = status[b]
    BY DEF TypeOK, Becomes
  <1>2. Declared[a] \in Nat /\ IsFiniteSet(more) /\ Cardinality(more) = Declared[a]
    BY QuotaAssumption, UnitsOfRow
  <1>3. PlainUnits(rows)' \subseteq PlainUnits(rows) \cup more
    <2>1. ASSUME NEW b \in rows, NEW n \in 1 .. Charge(b)', Plain(b)'
          PROVE  \/ b = a /\ n \in 1 .. Declared[a]
                 \/ Plain(b) /\ n \in 1 .. Charge(b)
      <3>1. CASE b = a
        <4>1. Charge(b)' = Declared[b]
          BY <1>1, <3>1 DEF Charge
        <4> QED BY <2>1, <3>1, <4>1, Zenon
      <3>2. CASE b # a
        BY <1>1, <2>1, <3>2 DEF Plain, Charge
      <3> QED BY <3>1, <3>2
    <2> QED BY <2>1 DEF PlainUnits
  <1>4. Reserved(rows)' \subseteq Reserved(rows) \cup {a}
    BY <1>1 DEF Reserved
  <1> HIDE DEF more
  <1>5. /\ IsFiniteSet(PlainUnits(rows)) /\ IsFiniteSet(Reserved(rows))
        /\ Cardinality(PlainUnits(rows)) \in Nat /\ Cardinality(Reserved(rows)) \in Nat
    BY PlainIsCharged, FS_CardinalityType
  <1>6. /\ Cardinality(PlainUnits(rows)') \in Nat
        /\ Cardinality(PlainUnits(rows)') <= Cardinality(PlainUnits(rows)) + Declared[a]
    <2>1. /\ IsFiniteSet(PlainUnits(rows) \cup more)
          /\ Cardinality(PlainUnits(rows) \cup more)
               = Cardinality(PlainUnits(rows)) + Cardinality(more)
                 - Cardinality(PlainUnits(rows) \cap more)
      BY <1>2, <1>5, FS_Union
    <2>2. Cardinality(PlainUnits(rows) \cap more) \in Nat
      BY <1>5, FS_Intersection, FS_CardinalityType
    <2>3. Cardinality(PlainUnits(rows) \cup more) \in Nat
      BY <2>1, FS_CardinalityType
    <2>4. /\ Cardinality(PlainUnits(rows)') \in Nat
          /\ Cardinality(PlainUnits(rows)') <= Cardinality(PlainUnits(rows) \cup more)
      BY <1>3, <2>1, FS_Subset, FS_CardinalityType
    <2> QED BY <1>2, <1>5, <2>1, <2>2, <2>3, <2>4
  <1>7. /\ Cardinality(Reserved(rows)') \in Nat
        /\ Cardinality(Reserved(rows)') <= Cardinality(Reserved(rows)) + 1
    <2>1. /\ IsFiniteSet(Reserved(rows) \cup {a})
          /\ \/ Cardinality(Reserved(rows) \cup {a}) = Cardinality(Reserved(rows))
             \/ Cardinality(Reserved(rows) \cup {a}) = Cardinality(Reserved(rows)) + 1
      BY <1>5, FS_AddElement, Zenon
    <2>2. Cardinality(Reserved(rows) \cup {a}) \in Nat
      BY <2>1, FS_CardinalityType
    <2>3. /\ Cardinality(Reserved(rows)') \in Nat
          /\ Cardinality(Reserved(rows)') <= Cardinality(Reserved(rows) \cup {a})
      BY <1>4, <2>1, FS_Subset, FS_CardinalityType
    <2> QED BY <1>5, <2>1, <2>2, <2>3
  <1>8. usage.bytes \in Nat /\ usage.count \in Nat
    BY DEF Usage
  <1> QED BY <1>2, <1>5, <1>6, <1>7, <1>8 DEF Kept, Covers, Exceeds, Full

\* The rows of others are not touched by it.
LEMMA RowElsewhere ==
    ASSUME TypeOK, NEW a \in Asset, NEW s \in Statuses, Becomes(a, s),
           NEW rows \in SUBSET (Asset \ {a}),
           NEW quota, NEW concurrent, Kept(rows, quota, concurrent)
    PROVE  Kept(rows, quota, concurrent)'
  <1>1. \A b \in rows : status'[b] = status[b]
    BY DEF TypeOK, Becomes
  <1>2. PlainUnits(rows)' = PlainUnits(rows) /\ Reserved(rows)' = Reserved(rows)
    BY <1>1 DEF PlainUnits, Plain, Charge, Reserved
  <1> QED BY <1>2 DEF Kept

\* A reservation is made by the one who holds the lock, within what it has read.
LEMMA ReservationKeeps ==
    ASSUME QInv, NEW r \in Request, Reserve(r)
    PROVE  FiniteUsage' /\ ReadingsCover' /\ PlainBudgets'
  <1>0. PICK a : a = request[r].asset
    OBVIOUS
  <1> DEFINE used == request[r]
             fits == /\ ~Full(used.user, UserConcurrent)
                     /\ ~Full(used.site, SiteConcurrent)
                     /\ ~Exceeds(used.user, Declared[a], UserQuota)
                     /\ ~Exceeds(used.site, Declared[a], SiteQuota)
  <1>1. /\ a \in Asset /\ used.pc = "site" /\ used.kind = "initiate"
        /\ used.user \in Usage /\ used.site \in Usage
        /\ OwnerOf[a] \in User
    BY <1>0, QuotaAssumption DEF Reserve, QInv, TypeOK, RowsApart
  <1>2. Covers(used.user, UserRows(OwnerOf[a])) /\ Covers(used.site, Asset)
    BY <1>0, <1>1 DEF QInv, ReadingsCover, Covered
  <1>3. ReadingsCover'
    <2>1. \A q \in Request : request'[q].pc \notin {"user", "site"}
      BY <1>1 DEF QInv, TypeOK, LockHeld, Reserve, Answer, NoRequest
    <2> QED BY <2>1 DEF ReadingsCover, Covered
  <1>4. CASE fits
    <2>1. Becomes(a, "pending")
      BY <1>0, <1>4 DEF Reserve, Becomes
    <2>2. FiniteUsage'
      BY <1>1, <2>1, FiniteStays DEF QInv, Statuses
    <2>3. Kept(Asset, SiteQuota, SiteConcurrent)'
      BY <1>1, <1>2, <1>4, <2>1, RowFits, QuotaAssumption DEF QInv
    <2>4. Kept(UserRows(OwnerOf[a]), UserQuota, UserConcurrent)'
      BY <1>1, <1>2, <1>4, <2>1, RowFits, UserRowsAre, QuotaAssumption DEF QInv
    <2>5. ASSUME NEW u \in User, u # OwnerOf[a]
          PROVE  Kept(UserRows(u), UserQuota, UserConcurrent)'
      <3>1. UserRows(u) \in SUBSET (Asset \ {a})
        BY <2>5 DEF UserRows
      <3>2. Kept(UserRows(u), UserQuota, UserConcurrent)
        BY DEF QInv, PlainBudgets
      <3> QED BY <1>1, <2>1, <3>1, <3>2, RowElsewhere DEF QInv, Statuses, UserRows
    <2> QED BY <1>3, <2>2, <2>3, <2>4, <2>5 DEF PlainBudgets
  <1>5. CASE ~fits
    <2>1. UNCHANGED status
      BY <1>0, <1>5 DEF Reserve, QInv, TypeOK
    <2> QED BY <1>3, <2>1, NothingMoreByNothing, BudgetsKept DEF QInv
  <1> QED BY <1>4, <1>5

-----------------------------------------------------------------------------
(* The theorems *)

LEMMA QInvInit ==
    ASSUME Init
    PROVE  QInv
  <1> USE DEF Init
  <1>1. NoRequest \in RequestState /\ NoRequest.pc = "idle"
    BY DEF NoRequest, NoUsage, RequestState, Usage, Pc, Kinds
  <1>2. TypeOK
    BY <1>1 DEF TypeOK, RequestState, Bytes
  <1>3. LockHeld /\ RowsApart /\ RowAsSeen
    BY <1>1, QuotaAssumption DEF LockHeld, RowsApart, RowAsSeen, Seen
  <1>4. ReadingsCover
    BY <1>1 DEF ReadingsCover, Covered
  <1>5. Units(Asset) = {} /\ PendingRows = {}
    <2>1. \A a \in Asset : Charge(a) = 0
      BY DEF Charge
    <2> QED BY <2>1 DEF Units, PendingRows
  <1>6. FiniteUsage
    BY <1>5, FS_EmptySet DEF FiniteUsage
  <1>7. ASSUME NEW rows \in SUBSET Asset
        PROVE  Cardinality(PlainUnits(rows)) = 0 /\ Cardinality(Reserved(rows)) = 0
    <2>1. PlainUnits(rows) = {} /\ Reserved(rows) = {}
      BY DEF PlainUnits, Plain, Reserved
    <2> QED BY <2>1, FS_EmptySet
  <1>8. PlainBudgets
    BY <1>7, UserRowsAre, QuotaAssumption DEF PlainBudgets, Kept
  <1> QED BY <1>2, <1>3, <1>4, <1>6, <1>8 DEF QInv

\* Only the two reads give anyone a reading.
LEMMA WhoReads ==
    ASSUME TypeOK, Next
    PROVE  \/ \E r \in Request : ReadUser(r) \/ ReadSite(r) \/ Reserve(r)
           \/ \A q \in Request : request'[q] = request[q] \/ request'[q].pc \notin {"user", "site"}
  <1> USE DEF TypeOK
  <1>1. ASSUME NEW r \in Request, NEW a \in Asset,
               Initiate(r, a) \/ Complete(r, a) \/ Receive(r, a)
        PROVE  \A q \in Request : request'[q] = request[q] \/ request'[q].pc \notin {"user", "site"}
    <2>1. PICK pc \in {"wait", "settle", "discard"} : \E kind, size : Start(r, kind, a, size, pc)
      <3>1. CASE Initiate(r, a)
        BY <3>1 DEF Initiate
      <3>2. CASE Complete(r, a)
        BY <3>2, Zenon DEF Complete
      <3>3. CASE Receive(r, a)
        BY <3>3, Zenon DEF Receive
      <3> QED BY <1>1, <3>1, <3>2, <3>3
    <2> QED BY <2>1 DEF Start, NoRequest
  <1>2. ASSUME NEW r \in Request,
               \/ Lock(r) \/ Redeem(r) \/ Break(r) \/ Settle(r) \/ Remove(r) \/ Demote(r)
        PROVE  \A q \in Request : request'[q] = request[q] \/ request'[q].pc \notin {"user", "site"}
    BY <1>2 DEF Lock, Redeem, Break, Settle, Remove, Demote, Goto, Answer, NoRequest
  <1>3. ASSUME NEW a \in Asset, Reclaim(a) \/ \E bytes \in {"right", "junk"} : Put(a, bytes)
        PROVE  \A q \in Request : request'[q] = request[q]
    BY <1>3 DEF Reclaim, Put
  <1> QED BY <1>1, <1>2, <1>3 DEF Next, Step

LEMMA ReadKeeps ==
    ASSUME QInv, NEW r \in Request, ReadUser(r) \/ ReadSite(r)
    PROVE  FiniteUsage' /\ ReadingsCover' /\ PlainBudgets'
  <1>1. UNCHANGED status
    BY DEF ReadUser, ReadSite
  <1>2. FiniteUsage' /\ NothingMore
    BY <1>1, NothingMoreByNothing DEF QInv
  <1>3. \A rows \in SUBSET Asset : UsageOf(rows) \in Usage /\ Covers(UsageOf(rows), rows)
    BY PlainIsCharged DEF QInv
  <1>4. ASSUME NEW usage, NEW rows, Covers(usage, rows)
        PROVE  Covers(usage, rows)'
    <2>1. PlainUnits(rows)' = PlainUnits(rows) /\ Reserved(rows)' = Reserved(rows)
      BY <1>1 DEF PlainUnits, Plain, Charge, Reserved
    <2> QED BY <1>4, <2>1 DEF Covers
  <1>5. ASSUME NEW q \in Request, request'[q].kind = "initiate"
        PROVE  Covered(q)'
    <2>1. PICK a, used, all :
            a = request'[q].asset /\ used = request'[q].user /\ all = request'[q].site
      OBVIOUS
    <2>2. request[q].asset = a /\ request[q].kind = "initiate"
      BY <1>5, <2>1 DEF ReadUser, ReadSite, QInv, TypeOK
    <2>3. /\ request'[q].pc \in {"user", "site"} =>
               \/ request[q].pc \in {"user", "site"} /\ used = request[q].user
               \/ used = UsageOf(UserRows(OwnerOf[a]))
          /\ request'[q].pc = "site" =>
               \/ request[q].pc = "site" /\ all = request[q].site
               \/ all = UsageOf(Asset)
      BY <1>5, <2>1, <2>2 DEF ReadUser, ReadSite, QInv, TypeOK
    <2>4. /\ request'[q].pc \in {"user", "site"} => Covers(used, UserRows(OwnerOf[a]))
          /\ request'[q].pc = "site" => Covers(all, Asset)
      BY <1>3, <2>2, <2>3, UserRowsAre DEF QInv, ReadingsCover, Covered
    <2>5. /\ request'[q].pc \in {"user", "site"} => Covers(used, UserRows(OwnerOf[a]))'
          /\ request'[q].pc = "site" => Covers(all, Asset)'
      BY <1>4, <2>4
    <2> QED BY <2>1, <2>5 DEF Covered
  <1>6. ReadingsCover'
    BY <1>5 DEF ReadingsCover, Covered
  <1> QED BY <1>2, <1>6, BudgetsKept DEF QInv

LEMMA QInvNext ==
    ASSUME QInv, Next
    PROVE  QInv'
  <1> USE DEF QInv
  <1>1. TypeOK' /\ LockHeld' /\ RowsApart' /\ RowAsSeen'
    BY TypeKept, LockKept, RowsStayApart, RowsStayAsSeen
  <1>2. CASE \E r \in Request : ReadUser(r) \/ ReadSite(r) \/ Reserve(r)
    BY <1>1, <1>2, ReservationKeeps, ReadKeeps
  <1>3. CASE ~ \E r \in Request : ReadUser(r) \/ ReadSite(r) \/ Reserve(r)
    <2>1. \A q \in Request : request'[q] = request[q] \/ request'[q].pc \notin {"user", "site"}
      BY <1>3, WhoReads
    <2>2. FiniteUsage' /\ NothingMore
      <3>1. CASE UNCHANGED status
        BY <3>1, NothingMoreByNothing
      <3>2. ASSUME NEW a \in Asset, NEW s \in Statuses, Becomes(a, s),
                   \/ s = "gone"
                   \/ s = "complete" /\ Live(a)
                   \/ s = "pending" /\ (status[a] = "pending" \/ Declared[a] = 0)
            PROVE  FiniteUsage' /\ NothingMore
        BY <3>2, FiniteStays, NothingMoreBy
      <3> QED BY <1>3, <3>1, <3>2, RowChanges
    <2> QED BY <1>1, <2>1, <2>2, ReadingsStay, BudgetsKept
  <1> QED BY <1>2, <1>3

LEMMA QInvStutter ==
    ASSUME QInv, UNCHANGED vars
    PROVE  QInv'
  <1>1. UNCHANGED status /\ UNCHANGED request /\ UNCHANGED holder /\ UNCHANGED stored
    BY DEF vars
  <1>2. FiniteUsage' /\ NothingMore
    BY <1>1, NothingMoreByNothing DEF QInv
  <1>3. TypeOK' /\ LockHeld' /\ RowsApart' /\ RowAsSeen'
    BY <1>1 DEF QInv, TypeOK, LockHeld, RowsApart, RowAsSeen, Seen
  <1> QED BY <1>1, <1>2, <1>3, ReadingsStay, BudgetsKept DEF QInv

\* However reservations, redemptions and withdrawals interleave, what a request
\* has read under the lock still bounds what is charged when it decides.
THEOREM QuotaInductive == Spec => []QInv
  <1>1. QInv /\ [Next]_vars => QInv'
    BY QInvNext, QInvStutter
  <1> QED BY <1>1, QInvInit, PTL DEF Spec

\* Every variable has its type: a usage read is two numbers, however many rows.
THEOREM QuotaTypeCorrect == Spec => []TypeOK
  <1>1. QInv => TypeOK
    BY DEF QInv
  <1> QED BY <1>1, QuotaInductive, PTL

OneReader ==
    \A r, q \in Request :
      /\ request[r].pc \in {"locked", "user", "site"}
      /\ request[q].pc \in {"locked", "user", "site"}
      => r = q

\* The transactions of CreatePendingAsset and of CheckCompleteCapacity exclude
\* each other: of all requests, one at most is between its two reads and its end.
THEOREM BudgetLockExcludes == Spec => []OneReader
  <1>1. QInv => OneReader
    BY DEF QInv, LockHeld, OneReader
  <1> QED BY <1>1, QuotaInductive, PTL

\* Concurrent reservations do not overdraw a budget, of bytes or of uploads in
\* progress, of the site or of a user, whatever the sizes and the limits are.
THEOREM BudgetsHoldCorrect == Spec => []BudgetsHold
  <1>1. ASSUME QInv
        PROVE  BudgetsHold
    <2>1. \A rows \in SUBSET Asset : Cardinality(Reserved(rows)) \in Nat
      BY <1>1, PlainIsCharged, FS_CardinalityType DEF QInv
    <2>2. UploadsInProgressHold
      BY <1>1 DEF QInv, PlainBudgets, Kept, UploadsInProgressHold
    <2>3. ASSUME \A a \in Asset : status[a] = "complete" => Declared[a] = Actual[a],
                 NEW rows \in SUBSET Asset
          PROVE  UsageOf(rows).bytes = Cardinality(PlainUnits(rows))
      <3>1. \A a \in rows : Plain(a) \/ 1 .. Charge(a) = {}
        BY <2>3 DEF Plain, Charge
      <3>2. Units(rows) = PlainUnits(rows)
        BY <3>1 DEF Units, PlainUnits
      <3> QED BY <3>2 DEF UsageOf
    <2>4. BytesHold
      <3> SUFFICES ASSUME \A a \in Asset : status[a] = "complete" => Declared[a] = Actual[a]
                   PROVE  /\ Within(UsageOf(Asset), SiteQuota)
                          /\ \A u \in User : Within(UsageOf(UserRows(u)), UserQuota)
        BY DEF BytesHold
      <3> QED BY <1>1, <2>3, UserRowsAre DEF QInv, PlainBudgets, Kept, Within
    <2> QED BY <2>2, <2>4 DEF BudgetsHold
  <1> QED BY <1>1, QuotaInductive, PTL

=============================================================================
