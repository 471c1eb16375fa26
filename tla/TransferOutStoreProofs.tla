----------------------- MODULE TransferOutStoreProofs -----------------------
(***************************************************************************)
(* Proofs about TransferOutStore for every set of owners, symbols, caps    *)
(* and amounts, and every number of days: its safety invariants, and that  *)
(* it implements DailyQuota.                                               *)
(***************************************************************************)
EXTENDS TransferOutStore, TLAPS

\* No day stamp, in memory or in the file, lies in the future.
StampsArePast == mem.day <= today /\ Load(file).day <= today

StoreInv ==
  /\ StoreTypeOK
  /\ StampsArePast
  /\ UsageIsTodays
  /\ RestartKeepsState
  /\ RestartNeverResurrectsUsage
-----------------------------------------------------------------------------
LEMMA NewStoreType == NewStore \in Snapshots /\ NewStore.day = 0 /\ NoUsage \in Usage
  BY StoreAssumption DEF NewStore, Snapshots, Days, Caps, Usage, NoCaps, NoUsage

\* What a lookup finds after Put.
LEMMA PutUsage ==
  ASSUME NEW f \in Usage, NEW o \in Owners, NEW s \in Symbols, NEW x \in Nat
  PROVE  /\ Put(f, o, s, x) \in Usage
         /\ Put(f, o, s, x)[o][s] = x
         /\ \A p \in Owners, q \in Symbols :
              p # o \/ q # s => Put(f, o, s, x)[p][q] = f[p][q]
  BY DEF Put, Usage

LEMMA PutCaps ==
  ASSUME NEW f \in Caps, NEW o \in Owners, NEW s \in Symbols,
         NEW c \in CapValues \cup {NoCap}
  PROVE  Put(f, o, s, c) \in Caps
  BY DEF Put, Caps

LEMMA LoadType == StoreTypeOK => Load(file) \in Snapshots
  BY NewStoreType DEF StoreTypeOK, Load

\* Rolling over keeps the caps and what the store answers for today.
LEMMA RolledType ==
  ASSUME StoreTypeOK
  PROVE  /\ Rolled(mem) \in Snapshots
         /\ Rolled(mem).day = today
         /\ Rolled(mem).caps = mem.caps
         /\ \A o \in Owners, s \in Symbols : Rolled(mem).used[o][s] = UsedToday(mem, o, s)
  <1>1. CASE mem.day = today
    BY <1>1 DEF Rolled, UsedToday, StoreTypeOK
  <1>2. CASE mem.day # today
    BY <1>2, NewStoreType DEF Rolled, UsedToday, StoreTypeOK, Snapshots, NoUsage
  <1> QED BY <1>1, <1>2

LEMMA WithCapType ==
  ASSUME NEW m \in Snapshots, NEW o \in Owners, NEW s \in Symbols,
         NEW c \in CapValues \cup {NoCap}
  PROVE  /\ WithCap(m, o, s, c) \in Snapshots
         /\ WithCap(m, o, s, c).day = m.day
         /\ WithCap(m, o, s, c).used = m.used
         /\ WithCap(m, o, s, c).caps = Put(m.caps, o, s, c)
  BY PutCaps DEF WithCap, Snapshots

LEMMA WithUseType ==
  ASSUME NEW m \in Snapshots, NEW o \in Owners, NEW s \in Symbols, NEW a \in Nat
  PROVE  /\ WithUse(m, o, s, a) \in Snapshots
         /\ WithUse(m, o, s, a).day = m.day
         /\ WithUse(m, o, s, a).caps = m.caps
         /\ WithUse(m, o, s, a).used = Put(m.used, o, s, m.used[o][s] + a)
         /\ WithUse(m, o, s, a).used[o][s] = m.used[o][s] + a
         /\ \A p \in Owners, q \in Symbols :
              p # o \/ q # s => WithUse(m, o, s, a).used[p][q] = m.used[p][q]
  <1> DEFINE u == Put(m.used, o, s, m.used[o][s] + a)
  <1>1. m.used \in Usage /\ m.used[o][s] + a \in Nat
    BY DEF Snapshots, Usage
  <1>2. /\ u \in Usage
        /\ u[o][s] = m.used[o][s] + a
        /\ \A p \in Owners, q \in Symbols : p # o \/ q # s => u[p][q] = m.used[p][q]
    <2>1. \A f \in Usage, x \in Nat :
            /\ Put(f, o, s, x) \in Usage
            /\ Put(f, o, s, x)[o][s] = x
            /\ \A p \in Owners, q \in Symbols :
                 p # o \/ q # s => Put(f, o, s, x)[p][q] = f[p][q]
      BY PutUsage, SMTT(30)
    <2> QED BY <1>1, <2>1, Zenon
  <1>3. WithUse(m, o, s, a) = [day |-> m.day, caps |-> m.caps, used |-> u]
    BY DEF WithUse
  <1> HIDE DEF u
  <1>4. WithUse(m, o, s, a) \in Snapshots
    BY <1>2, <1>3 DEF Snapshots
  <1>5. WithUse(m, o, s, a).used = u
    BY <1>3
  <1> QED BY <1>2, <1>3, <1>4, <1>5 DEF u

\* The state a lock section that ends in persistLocked leaves in the file.
LEMMA PersistFile ==
  ASSUME StoreTypeOK, mem' \in Snapshots,
         NEW earlier, earlier \subseteq Snapshots, Persist(earlier)
  PROVE  /\ file' \in Snapshots \cup {NoFile}
         /\ writeFailed' \in BOOLEAN
         /\ Load(file)' \in {Load(file), mem'} \cup earlier
         /\ Persistent /\ ~writeFailed' => Load(file)' = mem'
  BY NoFileAssumption, StoreAssumption DEF Persist, Load, StoreTypeOK
-----------------------------------------------------------------------------
LEMMA StoreInitInv == StoreInit => StoreInv
  <1> SUFFICES ASSUME StoreInit PROVE StoreInv
    OBVIOUS
  <1>1. Load(file) = NewStore /\ mem = NewStore /\ recorded = NoUsage
    BY DEF StoreInit, Load
  <1>2. StoreTypeOK
    <2>1. today \in Days \ {0}
      BY StoreAssumption DEF StoreInit, Days
    <2>2. recorded \in Usage
      BY <1>1 DEF NoUsage, Usage
    <2> QED BY <1>1, <2>1, <2>2, NewStoreType DEF StoreInit, StoreTypeOK
  <1>3. \A o \in Owners, s \in Symbols : recorded[o][s] = 0 /\ UsedToday(mem, o, s) = 0
    BY <1>1 DEF UsedToday, NewStore, NoUsage
  <1>4. UsageIsTodays
    BY <1>3 DEF UsageIsTodays
  <1>5. RestartKeepsState
    BY <1>1 DEF RestartKeepsState
  <1>6. RestartNeverResurrectsUsage
    BY <1>1, <1>3 DEF RestartNeverResurrectsUsage
  <1>7. StampsArePast
    BY <1>1, NewStoreType DEF StampsArePast, StoreInit
  <1> QED BY <1>2, <1>4, <1>5, <1>6, <1>7 DEF StoreInv

(***************************************************************************)
(* The three kinds of lock section.  A section that neither adds usage nor *)
(* moves the clock keeps what the store answers for today, whatever day    *)
(* stamp and caps it writes.                                               *)
(***************************************************************************)
LEMMA QuietSection ==
  ASSUME StoreInv, mem' \in Snapshots, mem'.day \in {mem.day, today},
         \A o \in Owners, s \in Symbols : UsedToday(mem, o, s)' = UsedToday(mem, o, s),
         UNCHANGED <<today, recorded, lost>>,
         \/ Persist({})
         \/ mem' = mem /\ UNCHANGED <<file, writeFailed>>
  PROVE  StoreInv'
  <1>1. /\ file' \in Snapshots \cup {NoFile}
        /\ writeFailed' \in BOOLEAN
        /\ Load(file)' \in {Load(file), mem'}
        /\ Persistent /\ ~writeFailed' => Load(file)' = mem'
    <2>1. CASE Persist({})
      BY <2>1, PersistFile DEF StoreInv
    <2>2. CASE mem' = mem /\ UNCHANGED <<file, writeFailed>>
      BY <2>2 DEF StoreInv, StoreTypeOK, RestartKeepsState, Load
    <2> QED BY <2>1, <2>2
  <1>2. StoreTypeOK'
    BY <1>1 DEF StoreInv, StoreTypeOK
  <1>3. StampsArePast'
    BY <1>1 DEF StoreInv, StoreTypeOK, StampsArePast, Days
  <1>4. UsageIsTodays'
    BY DEF StoreInv, UsageIsTodays
  <1>5. RestartKeepsState'
    BY <1>1 DEF RestartKeepsState
  <1>6. RestartNeverResurrectsUsage'
    <2> SUFFICES ASSUME NEW o \in Owners, NEW s \in Symbols
                 PROVE  UsedToday(Load(file), o, s)' <= UsedToday(mem, o, s)'
      BY DEF RestartNeverResurrectsUsage
    <2>1. UsedToday(mem, o, s)' \in Nat
      BY <1>2 DEF StoreTypeOK, UsedToday, Snapshots, Usage
    <2>2. CASE Load(file)' = mem'
      BY <2>1, <2>2 DEF UsedToday
    <2>3. CASE Load(file)' = Load(file)
      <3>1. UsedToday(Load(file), o, s)' = UsedToday(Load(file), o, s)
        BY <2>3 DEF UsedToday
      <3> QED BY <3>1 DEF StoreInv, RestartNeverResurrectsUsage
    <2> QED BY <1>1, <2>2, <2>3
  <1> QED BY <1>2, <1>3, <1>4, <1>5, <1>6 DEF StoreInv

LEMMA CapSection ==
  ASSUME StoreInv, NEW o \in Owners, NEW s \in Symbols,
         NEW c \in CapValues \cup {NoCap},
         mem' = WithCap(mem, o, s, c), Persist({}), UNCHANGED <<today, recorded, lost>>
  PROVE  StoreInv'
  <1>1. /\ mem' \in Snapshots
        /\ mem'.day = mem.day
        /\ mem'.used = mem.used
    BY WithCapType DEF StoreInv, StoreTypeOK
  <1>2. \A p \in Owners, q \in Symbols : UsedToday(mem, p, q)' = UsedToday(mem, p, q)
    BY <1>1 DEF UsedToday
  <1> QED BY <1>1, <1>2, QuietSection

LEMMA UsedSection == StoreInv /\ Used => StoreInv'
  <1> SUFFICES ASSUME StoreInv, Used PROVE StoreInv'
    OBVIOUS
  <1>1. mem' = Rolled(mem) /\ UNCHANGED <<today, recorded, lost>>
    BY DEF Used, RolloverLocked
  <1>2. mem' \in Snapshots /\ mem'.day = today
    BY <1>1, RolledType DEF StoreInv
  <1>3. \A o \in Owners, s \in Symbols : UsedToday(mem, o, s)' = UsedToday(mem, o, s)
    BY <1>1, <1>2, RolledType DEF StoreInv, UsedToday
  <1>4. \/ Persist({})
        \/ mem' = mem /\ UNCHANGED <<file, writeFailed>>
    BY <1>1 DEF Used, RolloverLocked, Rolled
  <1> QED BY <1>1, <1>2, <1>3, <1>4, QuietSection

LEMMA RecordSection ==
  ASSUME StoreInv, NEW o \in Owners, NEW s \in Symbols, NEW a \in Nat, Record(o, s, a)
  PROVE  StoreInv'
  <1>1. CASE a = 0
    BY <1>1 DEF Record, storeVars, StoreInv, StoreTypeOK, StampsArePast, UsageIsTodays,
                RestartKeepsState, RestartNeverResurrectsUsage, UsedToday, Load
  <1>2. CASE a # 0
    <2> DEFINE r == Rolled(mem)
    <2>1. /\ mem' = WithUse(r, o, s, a)
          /\ Persist(IF mem.day = today THEN {} ELSE {r})
          /\ recorded' = Put(recorded, o, s, recorded[o][s] + a)
          /\ UNCHANGED <<today, lost>>
      BY <1>2 DEF Record
    <2>2. /\ r \in Snapshots
          /\ r.day = today
          /\ \A p \in Owners, q \in Symbols : r.used[p][q] = UsedToday(mem, p, q)
      BY RolledType DEF StoreInv
    <2> HIDE DEF r
    <2>3. /\ mem' \in Snapshots
          /\ mem'.day = today
          /\ mem'.used[o][s] = r.used[o][s] + a
          /\ \A p \in Owners, q \in Symbols :
               p # o \/ q # s => mem'.used[p][q] = r.used[p][q]
      BY <2>1, <2>2, WithUseType
    <2>4. /\ recorded' \in Usage
          /\ recorded'[o][s] = recorded[o][s] + a
          /\ \A p \in Owners, q \in Symbols :
               p # o \/ q # s => recorded'[p][q] = recorded[p][q]
      <3> DEFINE t == recorded[o][s] + a
      <3>0. recorded \in Usage /\ recorded[o][s] \in Nat
        BY DEF StoreInv, StoreTypeOK, Usage
      <3>1. recorded \in Usage /\ t \in Nat /\ recorded' = Put(recorded, o, s, t)
        BY <2>1, <3>0
      <3>2. \A f \in Usage, x \in Nat :
              /\ Put(f, o, s, x) \in Usage
              /\ Put(f, o, s, x)[o][s] = x
              /\ \A p \in Owners, q \in Symbols :
                   p # o \/ q # s => Put(f, o, s, x)[p][q] = f[p][q]
        BY PutUsage, SMTT(30)
      <3> HIDE DEF t
      <3>3. /\ Put(recorded, o, s, t) \in Usage
            /\ Put(recorded, o, s, t)[o][s] = t
            /\ \A p \in Owners, q \in Symbols :
                 p # o \/ q # s => Put(recorded, o, s, t)[p][q] = recorded[p][q]
        BY <3>1, <3>2, Zenon
      <3> QED BY <3>1, <3>3 DEF t
    <2>5. /\ file' \in Snapshots \cup {NoFile}
          /\ writeFailed' \in BOOLEAN
          /\ Load(file)' \in {Load(file), mem', r}
          /\ Persistent /\ ~writeFailed' => Load(file)' = mem'
      <3> DEFINE earlier == IF mem.day = today THEN {} ELSE {r}
      <3>1. earlier \subseteq Snapshots /\ earlier \subseteq {r} /\ Persist(earlier)
        BY <2>1, <2>2
      <3> HIDE DEF earlier
      <3>2. StoreTypeOK /\ mem' \in Snapshots
        BY <2>3 DEF StoreInv
      <3> QED BY <3>1, <3>2, PersistFile
    <2>6. \A p \in Owners, q \in Symbols :
            /\ UsedToday(mem, p, q) \in Nat
            /\ UsedToday(mem, p, q)' =
                 UsedToday(mem, p, q) + (IF p = o /\ q = s THEN a ELSE 0)
            /\ recorded'[p][q] = recorded[p][q] + (IF p = o /\ q = s THEN a ELSE 0)
            /\ recorded[p][q] \in Nat
      BY <2>1, <2>2, <2>3, <2>4 DEF UsedToday, StoreInv, StoreTypeOK, Snapshots, Usage
    <2>7. StoreTypeOK'
      BY <2>1, <2>3, <2>4, <2>5 DEF StoreInv, StoreTypeOK
    <2>8. StampsArePast'
      BY <2>1, <2>2, <2>3, <2>5 DEF StoreInv, StoreTypeOK, StampsArePast, Days
    <2>9. UsageIsTodays'
      BY <2>1, <2>6 DEF StoreInv, UsageIsTodays
    <2>10. RestartKeepsState'
      BY <2>5 DEF RestartKeepsState
    <2>11. RestartNeverResurrectsUsage'
      <3> SUFFICES ASSUME NEW p \in Owners, NEW q \in Symbols
                   PROVE  UsedToday(Load(file), p, q)' <= UsedToday(mem, p, q)'
        BY DEF RestartNeverResurrectsUsage
      <3>1. UsedToday(mem, p, q) \in Nat /\ UsedToday(mem, p, q) <= UsedToday(mem, p, q)'
            /\ UsedToday(mem, p, q)' \in Nat
        BY <2>6
      <3>2. CASE Load(file)' = mem'
        BY <3>1, <3>2 DEF UsedToday
      <3>3. CASE Load(file)' = r
        <4>1. UsedToday(Load(file), p, q)' = UsedToday(mem, p, q)
          BY <3>3, <2>1, <2>2 DEF UsedToday
        <4> QED BY <3>1, <4>1
      <3>4. CASE Load(file)' = Load(file)
        <4>1. UsedToday(Load(file), p, q)' = UsedToday(Load(file), p, q)
          BY <3>4, <2>1 DEF UsedToday
        <4>2. UsedToday(Load(file), p, q) <= UsedToday(mem, p, q)
          BY DEF StoreInv, RestartNeverResurrectsUsage
        <4>3. UsedToday(Load(file), p, q) \in Nat
          BY LoadType DEF StoreInv, UsedToday, Snapshots, Usage
        <4> QED BY <3>1, <4>1, <4>2, <4>3
      <3> QED BY <2>5, <3>2, <3>3, <3>4
    <2> QED BY <2>7, <2>8, <2>9, <2>10, <2>11 DEF StoreInv
  <1> QED BY <1>1, <1>2

\* At midnight every stamp is of an earlier day, so every answer becomes zero.
LEMMA MidnightInv == StoreInv /\ Midnight => StoreInv'
  <1> SUFFICES ASSUME StoreInv, Midnight PROVE StoreInv'
    OBVIOUS
  <1>1. /\ mem' = mem /\ file' = file /\ writeFailed' = writeFailed
        /\ today' = today + 1 /\ today' <= MaxDay
        /\ recorded' = NoUsage /\ lost' = FALSE
    BY StoreAssumption DEF Midnight, StoreInv, StoreTypeOK, Days
  <1>2. Load(file)' = Load(file)
    BY <1>1 DEF Load
  <1>3. mem.day < today' /\ Load(file).day < today'
    BY <1>1, LoadType DEF StoreInv, StoreTypeOK, StampsArePast, Snapshots, Days
  <1>4. \A o \in Owners, s \in Symbols :
          /\ UsedToday(mem, o, s)' = 0
          /\ UsedToday(Load(file), o, s)' = 0
          /\ recorded'[o][s] = 0
    BY <1>1, <1>2, <1>3, LoadType DEF UsedToday, NoUsage, StoreInv, StoreTypeOK, Snapshots, Days
  <1>5. StoreTypeOK'
    <2>1. today' \in Days \ {0}
      BY <1>1, StoreAssumption DEF StoreInv, StoreTypeOK, Days
    <2>2. recorded' \in Usage
      BY <1>1 DEF NoUsage, Usage
    <2> QED BY <1>1, <2>1, <2>2 DEF StoreInv, StoreTypeOK
  <1>6. StampsArePast'
    BY <1>1, <1>2, <1>3, LoadType DEF StampsArePast, StoreInv, StoreTypeOK, Snapshots, Days
  <1>7. UsageIsTodays' /\ RestartNeverResurrectsUsage'
    BY <1>4 DEF UsageIsTodays, RestartNeverResurrectsUsage
  <1>8. RestartKeepsState'
    BY <1>1, <1>2 DEF StoreInv, RestartKeepsState
  <1> QED BY <1>5, <1>6, <1>7, <1>8 DEF StoreInv

LEMMA RestartInv == StoreInv /\ Restart => StoreInv'
  <1> SUFFICES ASSUME StoreInv, Restart PROVE StoreInv'
    OBVIOUS
  <1>1. /\ mem' = Load(file) /\ file' = file /\ writeFailed' = FALSE
        /\ today' = today /\ recorded' = recorded
        /\ lost' = (lost \/ writeFailed \/ ~Persistent)
    BY DEF Restart
  <1>2. Load(file)' = Load(file) /\ Load(file) \in Snapshots
    BY <1>1, LoadType DEF Load, StoreInv
  <1>3. \A o \in Owners, s \in Symbols :
          /\ UsedToday(mem, o, s)' = UsedToday(Load(file), o, s)
          /\ UsedToday(Load(file), o, s)' = UsedToday(Load(file), o, s)
    BY <1>1, <1>2 DEF UsedToday
  <1>4. \A o \in Owners, s \in Symbols :
          /\ UsedToday(mem, o, s) \in Nat
          /\ UsedToday(Load(file), o, s) \in Nat
          /\ recorded[o][s] \in Nat
    BY <1>2 DEF UsedToday, StoreInv, StoreTypeOK, Snapshots, Usage
  <1>5. StoreTypeOK'
    BY <1>1, <1>2, StoreAssumption DEF StoreInv, StoreTypeOK
  <1>6. StampsArePast' /\ RestartKeepsState'
    BY <1>1, <1>2 DEF StoreInv, StampsArePast, RestartKeepsState
  <1>7. UsageIsTodays'
    <2> SUFFICES ASSUME NEW o \in Owners, NEW s \in Symbols
                 PROVE  /\ UsedToday(mem, o, s)' <= recorded'[o][s]
                        /\ ~lost' => UsedToday(mem, o, s)' = recorded'[o][s]
      BY DEF UsageIsTodays
    <2>1. /\ UsedToday(Load(file), o, s) <= UsedToday(mem, o, s)
          /\ UsedToday(mem, o, s) <= recorded[o][s]
          /\ ~lost => UsedToday(mem, o, s) = recorded[o][s]
      BY DEF StoreInv, RestartNeverResurrectsUsage, UsageIsTodays
    <2>2. ~lost' => ~lost /\ Load(file) = mem
      BY <1>1 DEF StoreInv, RestartKeepsState
    <2>3. UsedToday(mem, o, s)' <= recorded'[o][s]
      BY <1>1, <1>3, <1>4, <2>1
    <2>4. ~lost' => UsedToday(mem, o, s)' = recorded'[o][s]
      BY <1>1, <1>3, <2>1, <2>2
    <2> QED BY <2>3, <2>4
  <1>8. RestartNeverResurrectsUsage'
    BY <1>3, <1>4 DEF RestartNeverResurrectsUsage
  <1> QED BY <1>5, <1>6, <1>7, <1>8 DEF StoreInv

LEMMA StutterInv == StoreInv /\ UNCHANGED storeVars => StoreInv'
  <1> SUFFICES ASSUME StoreInv, UNCHANGED storeVars PROVE StoreInv'
    OBVIOUS
  <1>1. Load(file)' = Load(file)
    BY DEF Load, storeVars
  <1> QED BY <1>1 DEF storeVars, StoreInv, StoreTypeOK, StampsArePast, UsageIsTodays,
                RestartKeepsState, RestartNeverResurrectsUsage, UsedToday

LEMMA StoreNextInv == StoreInv /\ [StoreNext]_storeVars => StoreInv'
  <1> SUFFICES ASSUME StoreInv, [StoreNext]_storeVars PROVE StoreInv'
    OBVIOUS
  <1>1. ASSUME NEW o \in Owners, NEW s \in Symbols, NEW c \in CapValues, SetCap(o, s, c)
        PROVE  StoreInv'
    BY <1>1, CapSection DEF SetCap
  <1>2. ASSUME NEW o \in Owners, NEW s \in Symbols, SetUnlimited(o, s)
        PROVE  StoreInv'
    BY <1>2, CapSection DEF SetUnlimited
  <1>3. ASSUME NEW o \in Owners, NEW s \in Symbols, NEW a \in Amounts, Record(o, s, a)
        PROVE  StoreInv'
    BY <1>3, RecordSection, StoreAssumption
  <1>4. ASSUME NEW a \in Amounts, Check(a)
        PROVE  StoreInv'
    BY <1>4, UsedSection, StutterInv DEF Check
  <1>5. CASE Used
    BY <1>5, UsedSection
  <1>6. CASE Midnight
    BY <1>6, MidnightInv
  <1>7. CASE Restart
    BY <1>7, RestartInv
  <1>8. CASE UNCHANGED storeVars
    BY <1>8, StutterInv
  <1> QED BY <1>1, <1>2, <1>3, <1>4, <1>5, <1>6, <1>7, <1>8 DEF StoreNext
-----------------------------------------------------------------------------
(***************************************************************************)
(* The inductive invariant holds in every reachable state of the store,    *)
(* for every set of owners, symbols, caps and amounts, with and without a  *)
(* file, and whichever writes of the file fail.                            *)
(***************************************************************************)
THEOREM StoreInvariant == StoreSpec => []StoreInv
  <1>1. StoreInit => StoreInv
    BY StoreInitInv
  <1>2. StoreInv /\ [StoreNext]_storeVars => StoreInv'
    BY StoreNextInv
  <1> QED BY <1>1, <1>2, PTL DEF StoreSpec

(***************************************************************************)
(* Type correctness of MemoryTransferOutStore and its file.                *)
(***************************************************************************)
THEOREM StoreTypeCorrect == StoreSpec => []StoreTypeOK
  <1>1. StoreInv => StoreTypeOK
    BY DEF StoreInv
  <1> QED BY <1>1, StoreInvariant, PTL

(***************************************************************************)
(* rolloverLocked is exact: the usage the store answers is the usage of    *)
(* the present UTC date.                                                   *)
(***************************************************************************)
THEOREM LazyRolloverIsExact == StoreSpec => []UsageIsTodays
  <1>1. StoreInv => UsageIsTodays
    BY DEF StoreInv
  <1> QED BY <1>1, StoreInvariant, PTL

(***************************************************************************)
(* persistLocked in every mutator: a restart after a successful write      *)
(* finds the caps and the running total of the process.                    *)
(***************************************************************************)
THEOREM RestartKeepsCapsAndUsage == StoreSpec => []RestartKeepsState
  <1>1. StoreInv => RestartKeepsState
    BY DEF StoreInv
  <1> QED BY <1>1, StoreInvariant, PTL

(***************************************************************************)
(* The day stamp in the file: whichever writes failed, a restart never     *)
(* brings back usage of an earlier day.                                    *)
(***************************************************************************)
THEOREM RestartResurrectsNothing == StoreSpec => []RestartNeverResurrectsUsage
  <1>1. StoreInv => RestartNeverResurrectsUsage
    BY DEF StoreInv
  <1> QED BY <1>1, StoreInvariant, PTL
-----------------------------------------------------------------------------
(***************************************************************************)
(* The refinement.  The meter of a snapshot only depends on its caps and   *)
(* on what it answers for today; the next lemmas compute it after each     *)
(* kind of section.                                                        *)
(***************************************************************************)
\* What the file meters after a step is the meter of the snapshot it then holds.
LEMMA MeterOfFile ==
  ASSUME today' = today
  PROVE  /\ \A m : Load(file)' = m => Meter(Load(file))' = Meter(m)
         /\ \A m : mem' = m => Meter(mem)' = Meter(m)
  BY DEF Meter, UsedToday

LEMMA MeterAfterCap ==
  ASSUME StoreInv, NEW o \in Owners, NEW s \in Symbols,
         NEW c \in CapValues \cup {NoCap},
         mem' = WithCap(mem, o, s, c), Persist({}), today' = today
  PROVE  Quota!SetLimit(o, s, c)
  <1>1. /\ mem' \in Snapshots
        /\ mem'.day = mem.day
        /\ mem'.used = mem.used
        /\ mem'.caps = Put(mem.caps, o, s, c)
    BY WithCapType DEF StoreInv, StoreTypeOK
  <1>2. \A p \in Owners, q \in Symbols : UsedToday(mem, p, q)' = UsedToday(mem, p, q)
    BY <1>1 DEF UsedToday
  <1>3. Meter(mem)'.spent = Meter(mem).spent
    BY <1>2 DEF Meter
  <1>4. Meter(mem)' = [limit |-> Put(mem.caps, o, s, c), spent |-> Meter(mem).spent]
    BY <1>1, <1>3 DEF Meter
  <1>5. Load(file)' \in {Load(file), mem'}
    BY <1>1, PersistFile DEF StoreInv
  <1>6. Meter(Load(file))' \in {Meter(Load(file)), Meter(mem)'}
    BY <1>5, MeterOfFile
  <1>7. Meter(mem)' = [Meter(mem) EXCEPT !.limit[o][s] = c]
    <2> DEFINE f == Meter(mem).spent
    <2>1. Meter(mem) = [limit |-> mem.caps, spent |-> f]
      BY DEF Meter
    <2> HIDE DEF f
    <2> QED BY <1>4, <2>1 DEF Put
  <1> QED BY <1>6, <1>7 DEF Quota!SetLimit, Quota!Follow

LEMMA MeterAfterUsed ==
  ASSUME StoreInv, Used
  PROVE  Quota!Flush \/ UNCHANGED <<Meter(mem), Meter(Load(file))>>
  <1>1. mem' = Rolled(mem) /\ today' = today
    BY DEF Used, RolloverLocked
  <1>2. mem' \in Snapshots /\ mem'.caps = mem.caps
    BY <1>1, RolledType DEF StoreInv
  <1>3. \A o \in Owners, s \in Symbols : UsedToday(mem, o, s)' = UsedToday(mem, o, s)
    BY <1>1, RolledType DEF StoreInv, UsedToday
  <1>4. Meter(mem)' = Meter(mem)
    BY <1>2, <1>3 DEF Meter
  <1>5. Load(file)' \in {Load(file), mem'}
    BY <1>2, PersistFile DEF Used, RolloverLocked, StoreInv, Load
  <1>6. Meter(Load(file))' \in {Meter(Load(file)), Meter(mem)'}
    BY <1>1, <1>5, MeterOfFile
  <1> QED BY <1>4, <1>6 DEF Quota!Flush

LEMMA MeterAfterRecord ==
  ASSUME StoreInv, NEW o \in Owners, NEW s \in Symbols, NEW a \in Nat, a # 0,
         Record(o, s, a)
  PROVE  Quota!Spend(o, s, a)
  <1> DEFINE r == Rolled(mem)
             earlier == IF mem.day = today THEN {} ELSE {r}
  <1>1. /\ mem' = WithUse(r, o, s, a)
        /\ Persist(earlier)
        /\ today' = today
    BY DEF Record
  <1>2. /\ r \in Snapshots
        /\ r.day = today
        /\ r.caps = mem.caps
        /\ \A p \in Owners, q \in Symbols : r.used[p][q] = UsedToday(mem, p, q)
    BY RolledType DEF StoreInv
  <1>3. earlier \subseteq Snapshots /\ earlier \subseteq {r}
    BY <1>2
  <1> HIDE DEF r, earlier
  <1>4. /\ mem' \in Snapshots
        /\ mem'.day = today
        /\ mem'.caps = mem.caps
        /\ mem'.used[o][s] = r.used[o][s] + a
        /\ \A p \in Owners, q \in Symbols :
             p # o \/ q # s => mem'.used[p][q] = r.used[p][q]
    BY <1>1, <1>2, WithUseType
  <1>5. Load(file)' \in {Load(file), mem', r}
    BY <1>1, <1>3, <1>4, PersistFile DEF StoreInv
  <1>6. Meter(r) = Meter(mem)
    BY <1>2 DEF Meter, UsedToday
  <1>7. Meter(Load(file))' \in {Meter(Load(file)), Meter(mem)', Meter(mem)}
    BY <1>1, <1>5, <1>6, MeterOfFile
  <1>8. \A p \in Owners, q \in Symbols :
          UsedToday(mem, p, q)' =
            IF p = o /\ q = s THEN UsedToday(mem, p, q) + a ELSE UsedToday(mem, p, q)
    BY <1>1, <1>2, <1>4 DEF UsedToday
  <1>9. Meter(mem)' = [Meter(mem) EXCEPT !.spent[o][s] = @ + a]
    <2> DEFINE f == Meter(mem).spent
               g == Meter(mem)'.spent
    <2>1. /\ Meter(mem)' = [limit |-> mem.caps, spent |-> g]
          /\ Meter(mem) = [limit |-> mem.caps, spent |-> f]
      BY <1>4 DEF Meter
    <2>2. g = [f EXCEPT ![o][s] = @ + a]
      <3>1. /\ f = [p \in Owners |-> [q \in Symbols |-> UsedToday(mem, p, q)]]
            /\ g = [p \in Owners |-> [q \in Symbols |-> UsedToday(mem, p, q)']]
        BY DEF Meter
      <3> HIDE DEF f, g
      <3> QED BY <1>8, <3>1
    <2> HIDE DEF f, g
    <2> QED BY <2>1, <2>2
  <1> QED BY <1>7, <1>9 DEF Quota!Spend, Quota!Follow

LEMMA MeterAfterMidnight ==
  ASSUME StoreInv, Midnight
  PROVE  Quota!Midnight
  <1>1. mem' = mem /\ file' = file /\ today' = today + 1
    BY DEF Midnight
  <1>2. Load(file)' = Load(file)
    BY <1>1 DEF Load
  <1>3. mem.day # today' /\ Load(file).day # today'
    BY <1>1, LoadType DEF StoreInv, StoreTypeOK, StampsArePast, Snapshots, Days
  <1>4. /\ Meter(mem)' = [limit |-> mem.caps, spent |-> Quota!Nothing]
        /\ Meter(Load(file))' = [limit |-> Load(file).caps, spent |-> Quota!Nothing]
    BY <1>1, <1>2, <1>3 DEF Meter, UsedToday, Quota!Nothing
  <1>5. /\ [Meter(mem) EXCEPT !.spent = Quota!Nothing]
             = [limit |-> mem.caps, spent |-> Quota!Nothing]
        /\ [Meter(Load(file)) EXCEPT !.spent = Quota!Nothing]
             = [limit |-> Load(file).caps, spent |-> Quota!Nothing]
    <2>1. \A l, u, z : [[limit |-> l, spent |-> u] EXCEPT !.spent = z]
                        = [limit |-> l, spent |-> z]
      OBVIOUS
    <2>2. \A m : \E u : Meter(m) = [limit |-> m.caps, spent |-> u]
      BY DEF Meter
    <2>3. ASSUME NEW m
          PROVE  [Meter(m) EXCEPT !.spent = Quota!Nothing]
                   = [limit |-> m.caps, spent |-> Quota!Nothing]
      <3>1. PICK u : Meter(m) = [limit |-> m.caps, spent |-> u]
        BY <2>2
      <3>2. [[limit |-> m.caps, spent |-> u] EXCEPT !.spent = Quota!Nothing]
              = [limit |-> m.caps, spent |-> Quota!Nothing]
        BY <2>1
      <3> QED BY <3>1, <3>2
    <2> QED BY <2>3
  <1> QED BY <1>4, <1>5 DEF Quota!Midnight

LEMMA MeterAfterRestart ==
  ASSUME Restart
  PROVE  Quota!Crash
  <1>1. mem' = Load(file) /\ Load(file)' = Load(file) /\ today' = today
    BY DEF Restart, Load
  <1>2. Meter(mem)' = Meter(Load(file)) /\ Meter(Load(file))' = Meter(Load(file))
    BY <1>1, MeterOfFile
  <1> QED BY <1>2 DEF Quota!Crash

LEMMA MeterStutter ==
  ASSUME UNCHANGED storeVars
  PROVE  UNCHANGED <<Meter(mem), Meter(Load(file))>>
  <1>1. mem' = mem /\ Load(file)' = Load(file) /\ today' = today
    BY DEF storeVars, Load
  <1> QED BY <1>1, MeterOfFile

LEMMA StoreStepRefines ==
  StoreInv /\ [StoreNext]_storeVars => [Quota!Next]_(Quota!vars)
  <1> SUFFICES ASSUME StoreInv, [StoreNext]_storeVars,
                      ~UNCHANGED <<Meter(mem), Meter(Load(file))>>
               PROVE  Quota!Next
    BY DEF Quota!vars
  <1>1. ASSUME NEW o \in Owners, NEW s \in Symbols, NEW c \in CapValues, SetCap(o, s, c)
        PROVE  Quota!Next
    BY <1>1, MeterAfterCap DEF SetCap, Quota!Next
  <1>2. ASSUME NEW o \in Owners, NEW s \in Symbols, SetUnlimited(o, s)
        PROVE  Quota!Next
    BY <1>2, MeterAfterCap DEF SetUnlimited, Quota!Next
  <1>3. ASSUME NEW o \in Owners, NEW s \in Symbols, NEW a \in Amounts, Record(o, s, a)
        PROVE  Quota!Next
    <2>1. a \in Nat
      BY StoreAssumption
    <2>2. a # 0
      BY <1>3, MeterStutter DEF Record
    <2>3. Quota!Spend(o, s, a)
      BY <1>3, <2>1, <2>2, MeterAfterRecord
    <2> QED BY <2>3 DEF Quota!Next
  <1>4. CASE Used
    BY <1>4, MeterAfterUsed DEF Quota!Next
  <1>5. ASSUME NEW a \in Amounts, Check(a)
        PROVE  Quota!Next
    BY <1>4, <1>5, MeterStutter DEF Check
  <1>6. CASE Midnight
    BY <1>6, MeterAfterMidnight DEF Quota!Next
  <1>7. CASE Restart
    BY <1>7, MeterAfterRestart DEF Quota!Next
  <1>8. ~UNCHANGED storeVars
    BY MeterStutter
  <1> QED BY <1>1, <1>2, <1>3, <1>4, <1>5, <1>6, <1>7, <1>8 DEF StoreNext

LEMMA StoreInitRefines == StoreInit => Quota!Init
  <1> SUFFICES ASSUME StoreInit PROVE Quota!Init
    OBVIOUS
  <1>1. mem = NewStore /\ Load(file) = NewStore
    BY DEF StoreInit, Load
  <1>2. Meter(NewStore) = [limit |-> NoCaps, spent |-> Quota!Nothing]
    BY DEF Meter, NewStore, UsedToday, NoUsage, Quota!Nothing
  <1>3. NoCaps \in [Owners -> [Symbols -> CapValues \cup {NoCap}]]
    BY DEF NoCaps
  <1> QED BY <1>1, <1>2, <1>3 DEF Quota!Init

(***************************************************************************)
(* MemoryTransferOutStore, with its lazy rollover and its whole-file       *)
(* snapshots, implements the eager daily meter with a durable copy.        *)
(***************************************************************************)
THEOREM StoreImplementsQuota == StoreSpec => QuotaSpec
  <1>1. StoreInit => Quota!Init
    BY StoreInitRefines
  <1>2. StoreInv /\ [StoreNext]_storeVars => [Quota!Next]_(Quota!vars)
    BY StoreStepRefines
  <1> QED BY <1>1, <1>2, StoreInvariant, PTL DEF StoreSpec, QuotaSpec, Quota!Spec
=============================================================================
