-------------------------- MODULE TransferOutStore --------------------------
(***************************************************************************)
(* lib/mcp/limits/transferout.go: MemoryTransferOutStore, the per-owner,   *)
(* per-symbol daily cap on what leaves a wallet.  Every method is one      *)
(* section of s.mu, so every method is one action.  The day key is lazy:   *)
(* midnight only moves the clock, and the next Used, Check or Record that  *)
(* takes the lock rolls the usage over.  With a path the whole state is    *)
(* written to a JSON file (temp file, then rename) after every mutation; a *)
(* write may fail, which is only reported.  A restart loads the file.      *)
(***************************************************************************)
EXTENDS Integers

CONSTANTS
  Owners,      \* owner wallet addresses
  Symbols,     \* cap symbols (svp, usdc, usdv)
  CapValues,   \* finite caps an owner may set, in base units
  Amounts,     \* amounts passed to Check and Record, in base units
  NoCap,       \* the symbol has no entry in s.caps[owner]
  NoFile,      \* the JSON file does not exist
  Persistent,  \* whether s.path # ""
  MaxDay,      \* bound: the last calendar day
  MaxUsed      \* bound: base units recorded for a symbol in a day

ASSUME StoreAssumption ==
  /\ CapValues \subseteq Nat \ {0}
  /\ Amounts \subseteq Nat
  /\ NoCap \notin Nat
  /\ Persistent \in BOOLEAN
  /\ MaxDay \in Nat \ {0}
  /\ MaxUsed \in Nat

VARIABLES
  today,        \* the UTC date s.now() returns; days count from 1
  mem,          \* the fields day, caps and used; day 0 is the empty string
  file,         \* the snapshot renamed into place last, or NoFile
  recorded,     \* history: base units Recorded on the date `today`
  writeFailed,  \* history: the last write of the file failed
  lost          \* history: a restart today found a file that was behind

storeVars == <<today, mem, file, recorded, writeFailed, lost>>

Days == 0..MaxDay
Caps == [Owners -> [Symbols -> CapValues \cup {NoCap}]]
Usage == [Owners -> [Symbols -> Nat]]
Snapshots == [day : Days, caps : Caps, used : Usage]

ASSUME NoFileAssumption == NoFile \notin Snapshots

NoUsage == [o \in Owners |-> [s \in Symbols |-> 0]]
NoCaps == [o \in Owners |-> [s \in Symbols |-> NoCap]]
NewStore == [day |-> 0, caps |-> NoCaps, used |-> NoUsage]

Put(f, o, s, x) == [f EXCEPT ![o] = [f[o] EXCEPT ![s] = x]]

\* Mutant of Load: the day of the file is ignored.
LoadStampedToday(f) == IF f = NoFile THEN NewStore ELSE [f EXCEPT !.day = today]

\* LoadMemoryTransferOutStore: what the process starts from.
Load(f) == IF f = NoFile THEN NewStore ELSE f

\* Mutant of Rolled: the new day begins with the usage of the old one.
RolledKeepingUsage(m) == [m EXCEPT !.day = today]

\* rolloverLocked: the in-memory half.
Rolled(m) ==
  IF m.day = today
    THEN m
    ELSE [day |-> today, caps |-> m.caps, used |-> NoUsage]

WithCap(m, o, s, c) ==
  [day |-> m.day, caps |-> Put(m.caps, o, s, c), used |-> m.used]

WithUse(m, o, s, a) ==
  [day |-> m.day, caps |-> m.caps, used |-> Put(m.used, o, s, m.used[o][s] + a)]

(***************************************************************************)
(* persistLocked, called last in a lock section after writing the          *)
(* snapshots in `earlier`: the write of the new state succeeds, or it      *)
(* fails and the file is what one of the earlier writes left.              *)
(***************************************************************************)
Persist(earlier) ==
  IF Persistent
    THEN \/ /\ file' = mem'
            /\ writeFailed' = FALSE
         \/ /\ file' \in {file} \cup earlier
            /\ writeFailed' = TRUE
    ELSE UNCHANGED <<file, writeFailed>>

StoreInit ==
  /\ today = 1
  /\ mem = NewStore
  /\ file = NoFile
  /\ recorded = NoUsage
  /\ writeFailed = FALSE
  /\ lost = FALSE

\* Mutant of SetCap: changing the cap clears the running total.
SetCapAndReset(o, s, c) ==
  /\ mem' = [WithCap(mem, o, s, c) EXCEPT !.used = Put(mem.used, o, s, 0)]
  /\ Persist({})
  /\ UNCHANGED <<today, recorded, lost>>

\* SetCap(owner, c): no rollover, so an old day stamp is written back as it is.
SetCap(o, s, c) ==
  /\ mem' = WithCap(mem, o, s, c)
  /\ Persist({})
  /\ UNCHANGED <<today, recorded, lost>>

\* Mutant of SetUnlimited: the "0" of the request is stored as a cap.
SetUnlimitedAsZero(o, s) ==
  /\ mem' = WithCap(mem, o, s, 0)
  /\ Persist({})
  /\ UNCHANGED <<today, recorded, lost>>

SetUnlimited(o, s) ==
  /\ mem' = WithCap(mem, o, s, NoCap)
  /\ Persist({})
  /\ UNCHANGED <<today, recorded, lost>>

\* Mutant of RolloverLocked: a rollover on a read path is not persisted.
RolloverInMemory ==
  /\ mem' = Rolled(mem)
  /\ UNCHANGED <<file, writeFailed>>

RolloverLocked ==
  /\ mem' = Rolled(mem)
  /\ IF mem.day = today
       THEN UNCHANGED <<file, writeFailed>>
       ELSE Persist({})

\* Used(owner, symbol) returns Rolled(mem).used[o][s].
Used ==
  /\ RolloverLocked
  /\ UNCHANGED <<today, recorded, lost>>

\* Mutant of CheckPasses: the running total is left out.
CheckPassesPerTx(o, s, a) ==
  \/ mem.caps[o][s] = NoCap
  \/ a <= mem.caps[o][s]

\* Whether Check(owner, symbol, a) returns nil.
CheckPasses(o, s, a) ==
  \/ a = 0
  \/ mem.caps[o][s] = NoCap
  \/ Rolled(mem).used[o][s] + a <= mem.caps[o][s]

\* Check(owner, symbol, a): the state it leaves, whatever it answers.
Check(a) ==
  IF a = 0 THEN UNCHANGED storeVars ELSE Used

Record(o, s, a) ==
  IF a = 0
    THEN UNCHANGED storeVars
    ELSE /\ mem' = WithUse(Rolled(mem), o, s, a)
         /\ Persist(IF mem.day = today THEN {} ELSE {Rolled(mem)})
         /\ recorded' = Put(recorded, o, s, recorded[o][s] + a)
         /\ UNCHANGED <<today, lost>>

Midnight ==
  /\ today < MaxDay
  /\ today' = today + 1
  /\ recorded' = NoUsage
  /\ lost' = FALSE
  /\ UNCHANGED <<mem, file, writeFailed>>

\* The process dies and is started again.
Restart ==
  /\ mem' = Load(file)
  /\ lost' = (lost \/ writeFailed \/ ~Persistent)
  /\ writeFailed' = FALSE
  /\ UNCHANGED <<today, file, recorded>>

StoreNext ==
  \/ \E o \in Owners, s \in Symbols :
       \/ \E c \in CapValues : SetCap(o, s, c)
       \/ SetUnlimited(o, s)
       \/ \E a \in Amounts : recorded[o][s] + a <= MaxUsed /\ Record(o, s, a)
  \/ \E a \in Amounts : Check(a)
  \/ Used
  \/ Midnight
  \/ Restart

StoreSpec == StoreInit /\ [][StoreNext]_storeVars
-----------------------------------------------------------------------------
\* What the store answers for the usage of a symbol today.
UsedToday(m, o, s) == IF m.day = today THEN m.used[o][s] ELSE 0

(***************************************************************************)
(* Every field holds what its Go type and the operations allow.            *)
(***************************************************************************)
StoreTypeOK ==
  /\ today \in Days \ {0}
  /\ mem \in Snapshots
  /\ file \in Snapshots \cup {NoFile}
  /\ recorded \in Usage
  /\ writeFailed \in BOOLEAN
  /\ lost \in BOOLEAN

(***************************************************************************)
(* The lazy rollover is exact: whenever it is asked, the store answers the *)
(* amounts Recorded on the present UTC date, never a unit of an earlier    *)
(* one; it answers less only after a restart that lost writes.             *)
(* (rolloverLocked, Record, LoadMemoryTransferOutStore)                    *)
(***************************************************************************)
UsageIsTodays ==
  \A o \in Owners, s \in Symbols :
    /\ UsedToday(mem, o, s) <= recorded[o][s]
    /\ ~lost => UsedToday(mem, o, s) = recorded[o][s]

(***************************************************************************)
(* "neither the configured caps nor the running daily total reset on       *)
(* restart": as long as the last write of the file succeeded, a restart    *)
(* finds the very state the process had.  (persistLocked in every mutator  *)
(* and in the rollover of the read paths)                                  *)
(***************************************************************************)
RestartKeepsState ==
  Persistent /\ ~writeFailed => Load(file) = mem

(***************************************************************************)
(* "a restart later in the new day must not resurrect yesterday's usage    *)
(* from the file": even when writes failed, in whatever order, a restart   *)
(* never finds more usage for today than the process had.                  *)
(***************************************************************************)
RestartNeverResurrectsUsage ==
  \A o \in Owners, s \in Symbols :
    UsedToday(Load(file), o, s) <= UsedToday(mem, o, s)
-----------------------------------------------------------------------------
(***************************************************************************)
(* The store implements the eager meter of DailyQuota: a stale day stamp   *)
(* reads as an amount of zero, in memory and in the file.                  *)
(***************************************************************************)
Meter(m) ==
  [limit |-> m.caps,
   spent |-> [o \in Owners |-> [s \in Symbols |-> UsedToday(m, o, s)]]]

Quota == INSTANCE DailyQuota WITH
  Limits <- CapValues \cup {NoCap},
  quota <- Meter(mem),
  durable <- Meter(Load(file))

QuotaSpec == Quota!Spec
=============================================================================
