-------------------------- MODULE OrphanSweepProofs --------------------------
(***************************************************************************)
(* What TLAPS proves of OrphanSweep: for any keys, contents, number of     *)
(* sweeps, retention and number of failures.                               *)
(***************************************************************************)
EXTENDS OrphanSweep, TLAPS

\* A sweep that has taken its copy has left one in the quarantine: why the
\* ledger may be told so at the commit.  A directory needs no copy.
CopyTaken ==
    \A s \in Sweeper :
        /\ sweeper[s].pc \in {"copied", "moved"} => vault[sweeper[s].job] # NoBytes
        /\ sweeper[s].pc = "copied" => ~local

OInv == TypeOK /\ MoverAlone /\ QuarantinedIsThere /\ CopyTaken

-----------------------------------------------------------------------------
(* What a step of a sweep does to its local state *)

LEMMA BecomeType ==
    ASSUME TypeOK, NEW s \in Sweeper,
           NEW pc \in {"idle", "scan", "seen", "sweep", "locked", "copied", "moved"},
           NEW todo \in SUBSET Key, NEW job \in Key \cup {NoKey},
           job # NoKey <=> pc \in {"seen", "locked", "copied", "moved"},
           Become(s, pc, todo, job)
    PROVE  /\ sweeper' \in [Sweeper -> SweeperState]
           /\ \A t \in Sweeper : sweeper'[t].job # NoKey
                                   <=> sweeper'[t].pc = "seen" \/ Holding(t)'
           /\ sweeper'[s] = [pc |-> pc, todo |-> todo, job |-> job]
           /\ \A t \in Sweeper \ {s} : sweeper'[t] = sweeper[t]
  BY DEF TypeOK, Become, SweeperState, Holding

LEMMA NextDueShape ==
    ASSUME TypeOK, NEW s \in Sweeper, NEW k \in Key, NextDue(s, k)
    PROVE  \E pc \in {"idle", "sweep"}, todo \in SUBSET Key :
               Become(s, pc, todo, NoKey)
  BY DEF NextDue, TypeOK, SweeperState

\* A sweep that holds no lock afterwards cannot break what is said of those
\* that do, as long as it leaves the rows, the ledger and the quarantine alone.
LEMMA LettingGo ==
    ASSUME OInv, NEW s \in Sweeper,
           NEW pc \in {"idle", "scan", "sweep"}, NEW todo \in SUBSET Key,
           Become(s, pc, todo, NoKey),
           UNCHANGED <<local, row, vault, ledger>>,
           object' \in [Key -> Bytes \cup {NoBytes}],
           faults' \in 0 .. MaxFaults
    PROVE  OInv'
  <1>1. /\ sweeper' \in [Sweeper -> SweeperState]
        /\ \A t \in Sweeper : sweeper'[t].job # NoKey
                                <=> sweeper'[t].pc = "seen" \/ Holding(t)'
        /\ sweeper'[s] = [pc |-> pc, todo |-> todo, job |-> NoKey]
        /\ \A t \in Sweeper \ {s} : sweeper'[t] = sweeper[t]
    BY BecomeType, OrphanAssumption DEF OInv
  <1>2. TypeOK'
    BY <1>1 DEF OInv, TypeOK
  <1>3. MoverAlone'
    BY <1>1 DEF OInv, MoverAlone, Holding
  <1>4. CopyTaken' /\ QuarantinedIsThere'
    BY <1>1 DEF OInv, CopyTaken, QuarantinedIsThere
  <1> QED BY <1>2, <1>3, <1>4 DEF OInv

\* Steps that leave the sweeps alone.
LEMMA RowOpKeeps ==
    ASSUME OInv, NEW k \in Key, RowOp(k)
    PROVE  OInv'
  <1>1. CASE CreateRow(k) \/ Condemn(k)
    <2>1. /\ KeyFree(k)
          /\ \E r \in RowState : row' = [row EXCEPT ![k] = r]
          /\ UNCHANGED <<local, object, vault, ledger, sweeper, faults>>
      BY <1>1 DEF CreateRow, Condemn, SetRow, RowState
    <2>2. TypeOK'
      BY <2>1 DEF OInv, TypeOK, Holding
    <2>3. MoverAlone'
      BY <2>1 DEF OInv, TypeOK, MoverAlone, KeyFree, Holding
    <2> QED BY <2>1, <2>2, <2>3 DEF OInv, CopyTaken, QuarantinedIsThere
  <1>2. CASE Reclaim(k)
    <2>1. /\ KeyFree(k)
          /\ \E r \in RowState : row' = [row EXCEPT ![k] = r]
          /\ object' = [object EXCEPT ![k] = NoBytes]
          /\ UNCHANGED <<local, vault, ledger, sweeper, faults>>
      <3>1. row = [row EXCEPT ![k] = row[k]] /\ row[k] \in RowState
        BY DEF OInv, TypeOK
      <3> QED BY <1>2, <3>1 DEF Reclaim, RowState
    <2>2. TypeOK'
      BY <2>1 DEF OInv, TypeOK, Holding
    <2>3. MoverAlone'
      BY <2>1 DEF OInv, TypeOK, MoverAlone, KeyFree, Holding
    <2> QED BY <2>1, <2>2, <2>3 DEF OInv, CopyTaken, QuarantinedIsThere
  <1>3. CASE Discard(k) \/ \E b \in Bytes : Put(k, b)
    <2>1. /\ object' \in [Key -> Bytes \cup {NoBytes}]
          /\ UNCHANGED <<local, row, vault, ledger, sweeper, faults>>
      BY <1>3 DEF Discard, Put, OInv, TypeOK
    <2> QED BY <2>1 DEF OInv, TypeOK, MoverAlone, CopyTaken,
                        QuarantinedIsThere, Holding
  <1> QED BY <1>1, <1>2, <1>3 DEF RowOp

LEMMA ListedEntry ==
    ASSUME NEW e \in Entry, e.listed
    PROVE  e \in [listed : {TRUE}, age : 0 .. Retention, moved : BOOLEAN, older : SUBSET Key]
  <1>1. e # NoEntry
    BY DEF NoEntry
  <1> QED BY <1>1 DEF Entry

LEMMA EntryAges ==
    ASSUME NEW e \in Entry, e.listed, e.age < Retention
    PROVE  /\ [e EXCEPT !.age = @ + 1] \in Entry
           /\ [e EXCEPT !.age = @ + 1].listed = e.listed
           /\ [e EXCEPT !.age = @ + 1].moved = e.moved
  <1>1. e \in [listed : {TRUE}, age : 0 .. Retention, moved : BOOLEAN, older : SUBSET Key]
    BY ListedEntry
  <1>2. e.age + 1 \in 0 .. Retention
    BY <1>1, OrphanAssumption
  <1>3. [e EXCEPT !.age = e.age + 1]
            \in [listed : {TRUE}, age : 0 .. Retention, moved : BOOLEAN, older : SUBSET Key]
    BY <1>1, <1>2
  <1> QED BY <1>1, <1>3 DEF Entry

LEMMA EntryLessOld ==
    ASSUME NEW e \in Entry, NEW k \in Key
    PROVE  /\ [e EXCEPT !.older = @ \ {k}] \in Entry
           /\ [e EXCEPT !.older = @ \ {k}].listed = e.listed
           /\ [e EXCEPT !.older = @ \ {k}].moved = e.moved
  <1>1. CASE e = NoEntry
    <2>1. [e EXCEPT !.older = @ \ {k}] = NoEntry
      BY <1>1 DEF NoEntry
    <2> QED BY <1>1, <2>1 DEF Entry
  <1>2. CASE e \in [listed : {TRUE}, age : 0 .. Retention, moved : BOOLEAN, older : SUBSET Key]
    BY <1>2 DEF Entry
  <1> QED BY <1>1, <1>2 DEF Entry

LEMMA TickKeeps ==
    ASSUME OInv, Tick
    PROVE  OInv'
  <1>1. \A k \in Key : /\ ledger'[k] \in Entry
                       /\ ledger'[k].listed = ledger[k].listed
                       /\ ledger'[k].moved = ledger[k].moved
    <2> SUFFICES ASSUME NEW k \in Key
                 PROVE  /\ ledger'[k] \in Entry
                        /\ ledger'[k].listed = ledger[k].listed
                        /\ ledger'[k].moved = ledger[k].moved
      OBVIOUS
    <2>1. ledger[k] \in Entry
      BY DEF OInv, TypeOK
    <2>2. CASE ledger[k].listed /\ ledger[k].age < Retention
      <3>1. ledger'[k] = [ledger[k] EXCEPT !.age = @ + 1]
        BY <2>2 DEF Tick
      <3> QED BY <2>1, <2>2, <3>1, EntryAges
    <2>3. CASE ~(ledger[k].listed /\ ledger[k].age < Retention)
      BY <2>1, <2>3 DEF Tick
    <2> QED BY <2>2, <2>3
  <1>2. TypeOK'
    <2>1. ledger' \in [Key -> Entry]
      BY <1>1 DEF Tick
    <2> QED BY <2>1 DEF Tick, OInv, TypeOK, Holding
  <1>3. MoverAlone'
    BY <1>1 DEF Tick, OInv, TypeOK, MoverAlone, Holding, SweeperState
  <1>4. CopyTaken' /\ QuarantinedIsThere'
    BY <1>1 DEF Tick, OInv, CopyTaken, QuarantinedIsThere
  <1> QED BY <1>2, <1>3, <1>4 DEF OInv

-----------------------------------------------------------------------------
(* The steps of a sweep *)

LEMMA SweepKeeps ==
    ASSUME OInv, NEW s \in Sweeper, Sweep(s)
    PROVE  OInv'
  <1> DEFINE j == sweeper[s].job
  <1>t. /\ TypeOK /\ MoverAlone /\ CopyTaken /\ QuarantinedIsThere
        /\ sweeper[s].todo \in SUBSET Key
        /\ sweeper[s].pc \in {"seen", "locked", "copied", "moved"} => j \in Key
    BY DEF OInv, TypeOK, SweeperState, Holding
  <1>1. CASE ListKeys(s)
    <2>1. Become(s, "scan", {k \in Key : object[k] # NoBytes}, NoKey)
      BY <1>1 DEF ListKeys
    <2>2. {k \in Key : object[k] # NoBytes} \in SUBSET Key
      OBVIOUS
    <2> QED BY <1>1, <2>1, <2>2, LettingGo DEF ListKeys, OInv, TypeOK
  <1>2. CASE RecordSeen(s)
    <2>1. /\ Become(s, "scan", sweeper[s].todo, NoKey)
          /\ j \in Key /\ KeyFree(j)
          /\ ledger' = [ledger EXCEPT ![j] = IF @.listed THEN @ ELSE NewEntry(j)]
          /\ UNCHANGED <<local, row, object, vault, faults>>
      BY <1>2, <1>t DEF RecordSeen, UpsertOrphanSeen
    <2>2. /\ sweeper' \in [Sweeper -> SweeperState]
          /\ \A t \in Sweeper : sweeper'[t].job # NoKey
                                  <=> sweeper'[t].pc = "seen" \/ Holding(t)'
          /\ sweeper'[s] = [pc |-> "scan", todo |-> sweeper[s].todo, job |-> NoKey]
          /\ \A t \in Sweeper \ {s} : sweeper'[t] = sweeper[t]
      BY <1>t, <2>1, BecomeType
    <2>3. ledger' \in [Key -> Entry]
      <3>1. NewEntry(j) \in Entry
        BY OrphanAssumption DEF NewEntry, Entry
      <3> QED BY <1>t, <2>1, <3>1 DEF TypeOK
    <2>4. TypeOK'
      BY <1>t, <2>1, <2>2, <2>3 DEF TypeOK
    <2>5. MoverAlone'
      BY <1>t, <2>1, <2>2 DEF TypeOK, MoverAlone, Holding, KeyFree
    <2>6. CopyTaken'
      BY <1>t, <2>1, <2>2 DEF CopyTaken
    <2>7. QuarantinedIsThere'
      BY <1>t, <2>1 DEF QuarantinedIsThere, TypeOK, NewEntry
    <2> QED BY <2>4, <2>5, <2>6, <2>7 DEF OInv
  <1>3. CASE ListDue(s)
    <2>1. ListOrphansDue \in SUBSET Key
      BY DEF ListOrphansDue, Due
    <2>2. PICK pc \in {"idle", "sweep"}, todo \in SUBSET Key : Become(s, pc, todo, NoKey)
      BY <1>3, <2>1 DEF ListDue
    <2> QED BY <1>3, <2>2, LettingGo DEF ListDue, OInv, TypeOK
  <1>4. ASSUME NEW k \in Key, Judge(s, k)
        PROVE  OInv'
    <2>1. CASE Become(s, "scan", sweeper[s].todo \ {k}, NoKey)
      BY <1>4, <1>t, <2>1, LettingGo DEF Judge, OInv, TypeOK
    <2>2. CASE Become(s, "seen", sweeper[s].todo \ {k}, k)
      <3>1. /\ sweeper' \in [Sweeper -> SweeperState]
            /\ \A t \in Sweeper : sweeper'[t].job # NoKey
                                    <=> sweeper'[t].pc = "seen" \/ Holding(t)'
            /\ sweeper'[s] = [pc |-> "seen", todo |-> sweeper[s].todo \ {k}, job |-> k]
            /\ \A t \in Sweeper \ {s} : sweeper'[t] = sweeper[t]
        BY <1>t, <2>2, BecomeType, OrphanAssumption
      <3>2. TypeOK'
        BY <1>4, <1>t, <3>1 DEF TypeOK, Judge
      <3> QED BY <1>4, <1>t, <3>1, <3>2
              DEF OInv, MoverAlone, Holding, CopyTaken, QuarantinedIsThere, Judge
    <2> QED BY <1>4, <2>1, <2>2 DEF Judge
  <1>5. ASSUME NEW k \in Key, Begin(s, k)
        PROVE  OInv'
    <2>1. CASE UNCHANGED ledger /\ NextDue(s, k)
      <3>1. PICK pc \in {"idle", "sweep"}, todo \in SUBSET Key : Become(s, pc, todo, NoKey)
        BY <1>t, <2>1, NextDueShape
      <3> QED BY <1>5, <2>1, <3>1, LettingGo DEF Begin, OInv, TypeOK
    <2>2. CASE /\ ledger[k].listed /\ ~ledger[k].moved /\ row[k] = "none"
               /\ Become(s, "locked", sweeper[s].todo, k)
               /\ UNCHANGED ledger
      <3>1. /\ sweeper' \in [Sweeper -> SweeperState]
            /\ \A t \in Sweeper : sweeper'[t].job # NoKey
                                    <=> sweeper'[t].pc = "seen" \/ Holding(t)'
            /\ sweeper'[s] = [pc |-> "locked", todo |-> sweeper[s].todo, job |-> k]
            /\ \A t \in Sweeper \ {s} : sweeper'[t] = sweeper[t]
        BY <1>t, <2>2, BecomeType, OrphanAssumption
      <3>2. KeyFree(k) /\ UNCHANGED <<local, row, object, vault, faults, ledger>>
        BY <1>5, <2>2 DEF Begin
      <3>3. TypeOK'
        BY <1>t, <3>1, <3>2 DEF TypeOK
      <3>4. MoverAlone'
        BY <1>t, <2>2, <3>1, <3>2 DEF MoverAlone, Holding, KeyFree
      <3>5. CopyTaken' /\ QuarantinedIsThere'
        BY <1>t, <3>1, <3>2 DEF CopyTaken, QuarantinedIsThere
      <3> QED BY <3>3, <3>4, <3>5 DEF OInv
    <2>3. CASE DropEntry(k) /\ NextDue(s, k)
      <3>1. PICK pc \in {"idle", "sweep"}, todo \in SUBSET Key : Become(s, pc, todo, NoKey)
        BY <1>t, <2>3, NextDueShape
      <3>2. /\ sweeper' \in [Sweeper -> SweeperState]
            /\ \A t \in Sweeper : sweeper'[t].job # NoKey
                                    <=> sweeper'[t].pc = "seen" \/ Holding(t)'
            /\ sweeper'[s] = [pc |-> pc, todo |-> todo, job |-> NoKey]
            /\ \A t \in Sweeper \ {s} : sweeper'[t] = sweeper[t]
        BY <1>t, <3>1, BecomeType
      <3>3. KeyFree(k) /\ UNCHANGED <<local, row, object, vault, faults>>
        BY <1>5 DEF Begin
      <3>4. /\ ledger' \in [Key -> Entry]
            /\ ledger'[k] = NoEntry
            /\ \A i \in Key \ {k} : ledger'[i].listed = ledger[i].listed
                                   /\ ledger'[i].moved = ledger[i].moved
        BY <1>t, <2>3, EntryLessOld DEF DropEntry, TypeOK, Entry
      <3>5. TypeOK'
        BY <1>t, <3>2, <3>3, <3>4 DEF TypeOK
      <3>6. MoverAlone'
        BY <1>t, <3>2, <3>3, <3>4 DEF TypeOK, MoverAlone, Holding, SweeperState, KeyFree
      <3>7. CopyTaken' /\ QuarantinedIsThere'
        BY <1>t, <3>2, <3>3, <3>4 DEF TypeOK, CopyTaken, QuarantinedIsThere, NoEntry
      <3> QED BY <3>5, <3>6, <3>7 DEF OInv
    <2> QED BY <1>5, <2>1, <2>2, <2>3 DEF Begin
  <1>6. CASE Rename(s) \/ Copy(s) \/ Remove(s)
    <2>1. PICK pc \in {"copied", "moved"} : Become(s, pc, sweeper[s].todo, j)
      BY <1>6 DEF Rename, Copy, Remove
    <2>2. /\ Holding(s) /\ j \in Key /\ j # NoKey
          /\ UNCHANGED <<local, row, ledger, faults>>
      BY <1>6, <1>t, OrphanAssumption DEF Rename, Copy, Remove, Holding
    <2>3. \/ /\ sweeper[s].pc = "locked" /\ object[j] # NoBytes
             /\ vault' = [vault EXCEPT ![j] = object[j]]
          \/ sweeper[s].pc = "copied" /\ UNCHANGED vault
      BY <1>6 DEF Rename, Copy, Remove
    <2>4. object' \in [Key -> Bytes \cup {NoBytes}]
      BY <1>6, <1>t DEF Rename, Copy, Remove, TypeOK
    <2>5. /\ sweeper' \in [Sweeper -> SweeperState]
          /\ \A t \in Sweeper : sweeper'[t].job # NoKey
                                  <=> sweeper'[t].pc = "seen" \/ Holding(t)'
          /\ sweeper'[s] = [pc |-> pc, todo |-> sweeper[s].todo, job |-> j]
          /\ \A t \in Sweeper \ {s} : sweeper'[t] = sweeper[t]
      BY <1>t, <2>1, <2>2, BecomeType
    <2>6. TypeOK'
      BY <1>t, <2>2, <2>3, <2>4, <2>5 DEF TypeOK
    <2>7. MoverAlone'
      BY <1>t, <2>2, <2>5 DEF MoverAlone, Holding
    <2>8. /\ vault'[j] # NoBytes
          /\ \A k \in Key : vault[k] # NoBytes => vault'[k] # NoBytes
      BY <1>t, <2>2, <2>3 DEF TypeOK, CopyTaken
    <2>9. CopyTaken'
      <3>1. pc = "copied" => ~local
        BY <1>6, <2>1, <2>5 DEF Rename, Copy, Remove, Become, TypeOK, OInv
      <3> QED BY <1>t, <2>2, <2>5, <2>8, <3>1
              DEF CopyTaken, TypeOK, Holding, SweeperState
    <2>10. QuarantinedIsThere'
      BY <1>t, <2>2, <2>8 DEF QuarantinedIsThere
    <2> QED BY <2>6, <2>7, <2>9, <2>10 DEF OInv
  <1>7. CASE NothingToMove(s)
    <2>1. j \in Key /\ NextDue(s, j)
      BY <1>7, <1>t DEF NothingToMove
    <2>2. PICK pc \in {"idle", "sweep"}, todo \in SUBSET Key : Become(s, pc, todo, NoKey)
      BY <1>t, <2>1, NextDueShape
    <2> QED BY <1>7, <2>2, LettingGo DEF NothingToMove, OInv, TypeOK
  <1>8. CASE Commit(s)
    <2>1. /\ sweeper[s].pc = "moved" /\ j \in Key /\ NextDue(s, j)
          /\ ledger' = [ledger EXCEPT ![j].moved = TRUE]
          /\ UNCHANGED <<local, row, object, vault, faults>>
      BY <1>8, <1>t DEF Commit
    <2>2. PICK pc \in {"idle", "sweep"}, todo \in SUBSET Key : Become(s, pc, todo, NoKey)
      BY <1>t, <2>1, NextDueShape
    <2>3. /\ sweeper' \in [Sweeper -> SweeperState]
          /\ \A t \in Sweeper : sweeper'[t].job # NoKey
                                  <=> sweeper'[t].pc = "seen" \/ Holding(t)'
          /\ sweeper'[s] = [pc |-> pc, todo |-> todo, job |-> NoKey]
          /\ \A t \in Sweeper \ {s} : sweeper'[t] = sweeper[t]
      BY <1>t, <2>2, BecomeType
    <2>4. ledger[j].listed /\ \A t \in Sweeper \ {s} : Holding(t) => sweeper[t].job # j
      BY <1>t, <2>1 DEF MoverAlone, Holding
    <2>5. ledger' \in [Key -> Entry]
      <3>1. ledger[j] \in [listed : {TRUE}, age : 0 .. Retention, moved : BOOLEAN, older : SUBSET Key]
        BY <1>t, <2>1, <2>4, ListedEntry DEF TypeOK
      <3>2. [ledger[j] EXCEPT !.moved = TRUE] \in Entry
        BY <3>1 DEF Entry
      <3> QED BY <1>t, <2>1, <3>2 DEF TypeOK
    <2>6. TypeOK'
      BY <1>t, <2>1, <2>3, <2>5 DEF TypeOK
    <2>7. MoverAlone'
      BY <1>t, <2>1, <2>3, <2>4 DEF TypeOK, MoverAlone, Holding
    <2>8. CopyTaken'
      BY <1>t, <2>1, <2>3 DEF CopyTaken
    <2>9. QuarantinedIsThere'
      BY <1>t, <2>1 DEF TypeOK, QuarantinedIsThere, CopyTaken
    <2> QED BY <2>6, <2>7, <2>8, <2>9 DEF OInv
  <1> QED BY <1>1, <1>2, <1>3, <1>4, <1>5, <1>6, <1>7, <1>8 DEF Sweep

LEMMA FaultKeeps ==
    ASSUME OInv, NEW s \in Sweeper, Fault(s)
    PROVE  OInv'
  <1>t. TypeOK /\ sweeper[s].todo \in SUBSET Key
    BY DEF OInv, TypeOK, SweeperState
  <1>1. faults' \in 0 .. MaxFaults
    <2>1. faults > 0 /\ faults' = faults - 1
      BY DEF Fault, FailScan, FailMove, Crash, Faulted
    <2> QED BY <1>t, <2>1, OrphanAssumption DEF TypeOK
  <1>2. /\ UNCHANGED <<local, row, vault, ledger>>
        /\ object' \in [Key -> Bytes \cup {NoBytes}]
    BY <1>t DEF TypeOK, Fault, FailScan, FailMove, Crash
  <1>3. PICK pc \in {"idle", "scan", "sweep"}, todo \in SUBSET Key :
            Become(s, pc, todo, NoKey)
    <2>1. ASSUME NEW k \in Key, FailScan(s, k)
          PROVE  \E todo \in SUBSET Key : Become(s, "scan", todo, NoKey)
      <3>1. sweeper[s].todo \ {k} \in SUBSET Key
        BY <1>t
      <3> QED BY <1>t, <2>1, <3>1 DEF FailScan
    <2>2. ASSUME NEW k \in Key, FailMove(s, k)
          PROVE  \E pc \in {"idle", "sweep"}, todo \in SUBSET Key :
                     Become(s, pc, todo, NoKey)
      BY <1>t, <2>2, NextDueShape DEF FailMove
    <2>3. ASSUME Crash(s)
          PROVE  Become(s, "idle", {}, NoKey)
      BY <2>3 DEF Crash
    <2> QED BY <2>1, <2>2, <2>3 DEF Fault
  <1> QED BY <1>1, <1>2, <1>3, LettingGo

-----------------------------------------------------------------------------
(* The theorems *)

LEMMA OInvInit == Init => OInv
  BY OrphanAssumption DEF Init, OInv, TypeOK, MoverAlone, CopyTaken, Holding,
     QuarantinedIsThere, SweeperState, Idle, Entry, NoEntry, RowState

LEMMA OInvNext == OInv /\ [Next]_vars => OInv'
  <1> SUFFICES ASSUME OInv, [Next]_vars
               PROVE  OInv'
    OBVIOUS
  <1>1. ASSUME NEW k \in Key, RowOp(k)
        PROVE  OInv'
    BY <1>1, RowOpKeeps
  <1>2. ASSUME NEW s \in Sweeper, Sweep(s)
        PROVE  OInv'
    BY <1>2, SweepKeeps
  <1>3. ASSUME NEW s \in Sweeper, Fault(s)
        PROVE  OInv'
    BY <1>3, FaultKeeps
  <1>4. CASE Tick
    BY <1>4, TickKeeps
  <1>5. CASE UNCHANGED vars
    BY <1>5 DEF vars, OInv, TypeOK, MoverAlone, CopyTaken, QuarantinedIsThere, Holding
  <1> QED BY <1>1, <1>2, <1>3, <1>4, <1>5 DEF Next

LEMMA OInvAlways == Spec => []OInv
  BY OInvInit, OInvNext, PTL DEF Spec

\* Every variable keeps its type, whatever fails.
THEOREM SweepTypeCorrect == Spec => []TypeOK
  <1>1. OInv => TypeOK
    BY DEF OInv
  <1> QED BY <1>1, OInvAlways, PTL

\* However many sweeps run, a key that is being moved has no row and one mover.
THEOREM MoverAloneCorrect == Spec => []MoverAlone
  <1>1. OInv => MoverAlone
    BY DEF OInv
  <1> QED BY <1>1, OInvAlways, PTL

\* The ledger speaks of a quarantine only of bytes that are there.
THEOREM QuarantinedIsThereCorrect == Spec => []QuarantinedIsThere
  <1>1. OInv => QuarantinedIsThere
    BY DEF OInv
  <1> QED BY <1>1, OInvAlways, PTL

\* No sweep moves bytes that a row refers to, and none loses those it moves, but
\* for what a late PUT writes between the copy and the removal in a bucket.
THEOREM SweepKeepsBytesCorrect == Spec => SweepKeepsBytes
  <1> DEFINE Kept == \A k \in Key :
                 /\ sweeper' # sweeper
                 /\ object'[k] # object[k]
                 => /\ row[k] = "none"
                    /\ vault'[k] # NoBytes
                    /\ local => vault'[k] = object[k]
  <1>1. OInv /\ [Next]_vars => Kept
    <2> SUFFICES ASSUME OInv, [Next]_vars, NEW k \in Key,
                        sweeper' # sweeper, object'[k] # object[k]
                 PROVE  row[k] = "none" /\ vault'[k] # NoBytes
                        /\ (local => vault'[k] = object[k])
      OBVIOUS
    <2>1. PICK s \in Sweeper : Rename(s) \/ Remove(s)
      BY DEF Next, vars, RowOp, CreateRow, Condemn, Reclaim, Discard, Put, SetRow,
             Tick, Sweep, ListKeys, RecordSeen, ListDue, Judge, Begin, Copy,
             NothingToMove, Commit, Fault, FailScan, FailMove, Crash
    <2>2. Holding(s) /\ sweeper[s].job = k
      BY <2>1 DEF OInv, TypeOK, Rename, Remove, Holding
    <2>3. row[k] = "none"
      BY <2>2 DEF OInv, MoverAlone
    <2>4. CASE Rename(s)
      BY <2>2, <2>3, <2>4 DEF OInv, TypeOK, Rename
    <2>5. CASE Remove(s)
      BY <2>2, <2>3, <2>5 DEF OInv, TypeOK, CopyTaken, Remove
    <2> QED BY <2>1, <2>4, <2>5
  <1>2. Spec => [][Kept]_vars
    BY <1>1, OInvAlways, PTL DEF Spec
  <1> QED BY <1>2, PTL DEF SweepKeepsBytes
=============================================================================
