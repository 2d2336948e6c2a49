---- MODULE ConfigStoreProofs ----
(***************************************************************************)
(* ConfigStore for any settings, any stamps and any number of writes: the  *)
(* types, and that Refresh's stat, load and store leave no room for an     *)
(* edit to go unnoticed, as long as every write brings a newer stamp.      *)
(***************************************************************************)
EXTENDS ConfigStore, TLAPS

\* No stamp is newer than the newest, and a fresh one is the newest.
StampsAreBounded ==
    /\ file.stamp <= newest
    /\ modTime <= newest
    /\ info <= newest
    /\ fresh => file # Missing /\ file.stamp = newest

\* What a Refresh has loaded is no older than the stamp it will store: if the
\* file still has that stamp, it has those settings too.
LoadIsNoOlder ==
    pc = "store" /\ fresh /\ info = file.stamp => read = file.settings

\* Until the first Refresh is over, nothing has been stored.
StoreIsNew ==
    /\ stage = "down" => pc = "idle"
    /\ stage \in {"down", "starting"} => modTime = 0

IInv == TypeOK /\ StampsAreBounded /\ LoadIsNoOlder /\ StoreIsNew /\ UpToDate

----------------------------------------------------------------------------

LEMMA DefaultsAreSettings == Default \in Settings
  BY PlainAssumption DEF Default, Settings

LEMMA FilesHaveSettings ==
  ASSUME file \in File
  PROVE  /\ file.settings \in Settings
         /\ file.stamp \in Stamps \cup {0}
         /\ file # Missing => file.stamp \in Stamps
         /\ file # Missing => file.kind \in {"valid", "invalid"}
  BY DefaultsAreSettings DEF File, Missing

LEMMA InitIsGood == Init => IInv
<1>. SUFFICES ASSUME Init PROVE IInv
  OBVIOUS
<1>1. Missing \in File /\ Missing.stamp = 0
  BY DEF File, Missing
<1>2. SetupIdle \in [at : {"idle", "read", "truncated"},
                     kind : {"valid", "invalid"}, settings : Settings]
  BY DefaultsAreSettings DEF SetupIdle
<1>3. TypeOK
  <2>1. 0 \in 0..MaxEdits
    BY StampAssumption
  <2>2. file \in File /\ setup \in [at : {"idle", "read", "truncated"},
                                    kind : {"valid", "invalid"},
                                    settings : Settings]
    BY <1>1, <1>2, Zenon DEF Init
  <2>. QED
    BY <2>1, <2>2, DefaultsAreSettings, Zenon DEF Init, TypeOK
<1>4. StampsAreBounded
  BY <1>1 DEF Init, StampsAreBounded
<1>. QED
  BY <1>3, <1>4 DEF Init, IInv, LoadIsNoOlder, StoreIsNew, UpToDate

\* What whoever writes the file does to it.
LEMMA WriteIsGood ==
  ASSUME IInv, UNCHANGED daemon,
         NEW kind \in {"valid", "invalid"}, NEW settings \in Settings,
         NEW stamp \in Stamps,
         Write(kind, settings, stamp),
         setup' \in [at : {"idle", "read", "truncated"},
                     kind : {"valid", "invalid"}, settings : Settings]
  PROVE  IInv'
<1>1. file' = [kind |-> kind, settings |-> settings, stamp |-> stamp]
  BY DEF Write
<1>2. file' \in File /\ file' # Missing
  BY <1>1 DEF File, Missing, Stamps
<1>3. TypeOK'
  <2>1. edits' \in 0..MaxEdits
    BY StampAssumption DEF Write, IInv, TypeOK
  <2>2. newest' \in Stamps \cup {0} /\ fresh' \in BOOLEAN
    BY DEF Write, IInv, TypeOK
  <2>. QED
    BY <1>2, <2>1, <2>2 DEF IInv, TypeOK, daemon
<1>4. StampsAreBounded'
  <2>1. newest \in Nat /\ stamp \in Nat /\ modTime \in Nat /\ info \in Nat
    BY StampAssumption DEF IInv, TypeOK, Stamps
  <2>2. newest' = IF stamp > newest THEN stamp ELSE newest
    BY DEF Write
  <2>3. fresh' => stamp > newest
    BY DEF Write
  <2>4. file'.stamp = stamp /\ modTime' = modTime /\ info' = info
    BY <1>1 DEF daemon
  <2>5. modTime <= newest /\ info <= newest
    BY DEF IInv, StampsAreBounded
  <2>. QED
    BY <1>2, <2>1, <2>2, <2>3, <2>4, <2>5 DEF StampsAreBounded
<1>5. fresh' => modTime < file'.stamp /\ info < file'.stamp
  <2>1. fresh' => stamp > newest
    BY DEF Write
  <2>2. file'.stamp = stamp
    BY <1>1
  <2>. QED
    BY <2>1, <2>2, StampAssumption DEF IInv, TypeOK, StampsAreBounded, Stamps
<1>6. LoadIsNoOlder' /\ UpToDate'
  <2>1. modTime \in Nat /\ info \in Nat /\ file'.stamp \in Nat
    BY <1>1, StampAssumption DEF IInv, TypeOK, Stamps
  <2>. QED
    BY <1>5, <2>1 DEF LoadIsNoOlder, UpToDate, daemon
<1>7. StoreIsNew'
  BY DEF IInv, StoreIsNew, daemon
<1>. QED
  BY <1>3, <1>4, <1>6, <1>7 DEF IInv

\* What a Refresh does, and the end of one.
LEMMA RefreshIsGood ==
  ASSUME IInv, Refresh
  PROVE  IInv'
<1>. USE FilesHaveSettings, DefaultsAreSettings, UnsetAssumption DEF IInv, TypeOK
<1>1. CASE Stat
  <2>1. TypeOK'
    BY <1>1 DEF Stat, Advance, written, StoreIsNew
  <2>2. StampsAreBounded' /\ LoadIsNoOlder' /\ StoreIsNew' /\ UpToDate'
    BY <1>1, StampAssumption
       DEF Stat, Advance, written, StampsAreBounded, LoadIsNoOlder, StoreIsNew,
           UpToDate, Stamps
  <2>. QED
    BY <2>1, <2>2
<1>2. CASE Load
  BY <1>2 DEF Load, written, StampsAreBounded, LoadIsNoOlder, StoreIsNew, UpToDate
<1>3. CASE LoadFails
  BY <1>3, StampAssumption
     DEF LoadFails, Advance, written, StampsAreBounded, LoadIsNoOlder, StoreIsNew,
         UpToDate, Stamps
<1>4. CASE Store
  BY <1>4 DEF Store, Advance, written, StampsAreBounded, LoadIsNoOlder, StoreIsNew,
              UpToDate
<1>. QED
  BY <1>1, <1>2, <1>3, <1>4 DEF Refresh

LEMMA StepIsGood == IInv /\ [Next]_vars => IInv'
<1>. SUFFICES ASSUME IInv, [Next]_vars PROVE IInv'
  OBVIOUS
<1>1. CASE Edit
  BY <1>1, WriteIsGood DEF Edit, IInv, TypeOK
<1>2. CASE Delete
  <2>1. file' = Missing /\ Missing \in File /\ Missing.stamp = 0 /\ fresh' = FALSE
    BY <1>2 DEF Delete, File, Missing
  <2>2. newest >= 0
    BY StampAssumption DEF IInv, TypeOK, Stamps
  <2>3. TypeOK'
    <3>1. TypeOK /\ UNCHANGED <<daemon, setup, edits, newest>>
      BY <1>2 DEF Delete, IInv
    <3>2. file' \in File /\ fresh' \in BOOLEAN
      BY <2>1
    <3>. QED
      BY <3>1, <3>2 DEF daemon, TypeOK
  <2>4. StampsAreBounded'
    BY <1>2, <2>1, <2>2 DEF Delete, daemon, IInv, StampsAreBounded
  <2>5. LoadIsNoOlder' /\ StoreIsNew' /\ UpToDate'
    BY <1>2, <2>1 DEF Delete, daemon, IInv, LoadIsNoOlder, StoreIsNew, UpToDate
  <2>. QED
    BY <2>3, <2>4, <2>5 DEF IInv
<1>3. CASE SetupReads
  <2>1. setup' \in [at : {"idle", "read", "truncated"},
                    kind : {"valid", "invalid"}, settings : Settings]
    <3>1. \A s \in Settings : [s EXCEPT !.app = TRUE] \in Settings
      BY DEF Settings
    <3>2. file # Missing => /\ file.kind \in {"valid", "invalid"}
                            /\ [file.settings EXCEPT !.app = TRUE] \in Settings
      BY <3>1, FilesHaveSettings DEF IInv, TypeOK
    <3>3. [Default EXCEPT !.app = TRUE] \in Settings
      BY <3>1, DefaultsAreSettings
    <3>4. \E kind \in {"valid", "invalid"}, s \in Settings :
              setup' = [at |-> "read", kind |-> kind, settings |-> s]
      BY <1>3, <3>2, <3>3, Zenon DEF SetupReads
    <3>. QED
      BY <3>4
  <2>. QED
    BY <1>3, <2>1
       DEF SetupReads, daemon, written, IInv, TypeOK, StampsAreBounded,
           LoadIsNoOlder, StoreIsNew, UpToDate
<1>4. CASE SetupTruncates
  BY <1>4, WriteIsGood, DefaultsAreSettings DEF SetupTruncates, IInv, TypeOK
<1>5. CASE SetupWrites
  BY <1>5, WriteIsGood, DefaultsAreSettings
     DEF SetupWrites, SetupIdle, IInv, TypeOK
<1>6. CASE SetupDies
  BY <1>6, DefaultsAreSettings
     DEF SetupDies, SetupIdle, daemon, written, IInv, TypeOK, StampsAreBounded,
         LoadIsNoOlder, StoreIsNew, UpToDate
<1>7. CASE Start
  BY <1>7 DEF Start, written, IInv, TypeOK, StampsAreBounded, LoadIsNoOlder,
              StoreIsNew, UpToDate
<1>8. CASE Refresh
  BY <1>8, RefreshIsGood
<1>9. CASE PollTicks
  BY <1>9 DEF PollTicks, written, IInv, TypeOK, StampsAreBounded, LoadIsNoOlder,
              StoreIsNew, UpToDate
<1>10. CASE Stop
  BY <1>10, DefaultsAreSettings, FilesHaveSettings, StampAssumption
     DEF Stop, written, IInv, TypeOK, StampsAreBounded, LoadIsNoOlder, StoreIsNew,
         UpToDate, Stamps
<1>11. CASE UNCHANGED vars
  BY <1>11 DEF vars, daemon, written, IInv, TypeOK, StampsAreBounded,
               LoadIsNoOlder, StoreIsNew, UpToDate
<1>. QED
  BY <1>1, <1>2, <1>3, <1>4, <1>5, <1>6, <1>7, <1>8, <1>9, <1>10, <1>11
     DEF Next, SetupStep

LEMMA InvariantHolds == Spec => []IInv
  BY InitIsGood, StepIsGood, PTL DEF Spec

\* Whatever is edited while the daemon starts or runs, it never runs on a
\* configuration it has not loaded (runServer's check of Refresh's error).
THEOREM TypesAreKept == Spec => []TypeOK
  BY InvariantHolds, PTL DEF IInv

\* For any settings, stamps and number of writes, by editors or by setup: a
\* daemon that holds the stamp of a freshly stamped file holds its settings
\* (Refresh takes the stamp before it loads).
THEOREM DaemonIsUpToDate == Spec => []UpToDate
  BY InvariantHolds, PTL DEF IInv

====
