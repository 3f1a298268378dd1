--------------------------- MODULE HookLayerProofs ---------------------------
(***************************************************************************)
(* Two arguments about the hook scripts, for any files, events and         *)
(* handlers of others, and any number of runs and edits.                   *)
(*                                                                         *)
(* What a run replaces is in a backup.  A backup is named by the second,   *)
(* so this is about who may own a name: while a run copies, nothing        *)
(* replaced under its name by an earlier run counts any more (NameIsFree), *)
(* and until it replaces a file its copy of it is the file (CopiesHold).   *)
(* What the scripts compute does not matter.                               *)
(*                                                                         *)
(* The handler is where it should be.  Here it does: each file holds the   *)
(* handler once at most, and so does what a run has read (FilesOnce,       *)
(* ReadOnce), and while the installer works on one file the other has none *)
(* (OneTarget), since nobody but the scripts ever adds it.                 *)
(***************************************************************************)
EXTENDS HookLayer, FiniteSetTheorems, WellFoundedInduction, TLAPS

-----------------------------------------------------------------------------
(* Backups.                                                                  *)

Backup(name, content) == [file |-> name, stamp |-> stamp, content |-> content]

\* The names of backups are those that have been used.
NamesAreUsed ==
    /\ at # "idle" => stamp \in used
    /\ \A r \in replaced : r.stamp \in used

\* A run that still copies has a name of its own, or one known to be shared.
NameIsFree ==
    at \in {"backup_json", "backup_config"} =>
        \A r \in replaced : r.stamp = stamp => stamp \in shared

\* The run's copy of a file that neither it nor others have rewritten.
CopiesHold ==
    /\ at \in {"backup_config", "read_json", "write_json"} /\ json # Absent
          /\ "json" \notin edited => Backup("json", json) \in backups
    /\ at \in {"read_json", "write_json", "read_config", "write_config"}
          /\ config # Absent /\ "config" \notin edited =>
             Backup("config", config) \in backups

CopyInv == NamesAreUsed /\ NameIsFree /\ CopiesHold /\ OriginalRecoverable
-----------------------------------------------------------------------------
LEMMA InitHolds == Init => CopyInv
BY DEF Init, CopyInv, NamesAreUsed, NameIsFree, CopiesHold, OriginalRecoverable

\* A new run takes the second as its name; if the name is taken, it is shared.
LEMMA BeginKeeps ==
    ASSUME CopyInv, Install \/ Uninstall
    PROVE  CopyInv'
<1>1. /\ UNCHANGED <<json, config, backups, replaced>>
      /\ \/ /\ at' = "idle" /\ shared' = shared /\ used' = used
         \/ /\ at' = "backup_json" /\ stamp' = now
            /\ used' = used \cup {now}
            /\ shared' = IF now \in used THEN shared \cup {now} ELSE shared
    BY DEF Install, Uninstall, Begin, Stamp, Timestamp, files
<1>2. NamesAreUsed /\ OriginalRecoverable
    BY DEF CopyInv
<1>3. NamesAreUsed'
    BY <1>1, <1>2 DEF NamesAreUsed
<1>4. NameIsFree'
    BY <1>1, <1>2 DEF NamesAreUsed, NameIsFree
<1>5. CopiesHold'
    BY <1>1 DEF CopiesHold
<1>6. OriginalRecoverable'
    BY <1>1, <1>2 DEF OriginalRecoverable
<1> QED
    BY <1>3, <1>4, <1>5, <1>6 DEF CopyInv

\* A copy overwrites only backups of the run's own name.
LEMMA BackupKeeps ==
    ASSUME CopyInv, BackupJson \/ BackupConfig
    PROVE  CopyInv'
<1>1. NamesAreUsed /\ NameIsFree /\ CopiesHold /\ OriginalRecoverable
    BY DEF CopyInv
<1>2. /\ UNCHANGED <<json, config, stamp, edited, used, shared, replaced>>
      /\ at \in {"backup_json", "backup_config"}
    BY DEF BackupJson, BackupConfig, files, world, ledger
<1>3. NamesAreUsed' /\ at' # "idle"
    BY <1>1, <1>2 DEF NamesAreUsed, BackupJson, BackupConfig
<1>4. NameIsFree'
    BY <1>1, <1>2 DEF NameIsFree
<1>5. OriginalRecoverable'
  <2> SUFFICES ASSUME NEW r \in replaced, r.stamp \notin shared
               PROVE  r \in backups'
    BY <1>2 DEF OriginalRecoverable
  <2>1. r \in backups /\ r.stamp # stamp
    BY <1>1, <1>2 DEF OriginalRecoverable, NameIsFree
  <2> QED
    BY <2>1 DEF BackupJson, BackupConfig, Copy
<1>6. CopiesHold'
  <2>1. CASE BackupJson
    BY <1>2, <2>1 DEF BackupJson, Copy, CopiesHold, Backup
  <2>2. CASE BackupConfig
    <3>1. json # Absent /\ "json" \notin edited => Backup("json", json) \in backups
      BY <1>1, <2>2 DEF BackupConfig, CopiesHold
    <3>2. Backup("json", json).file = "json"
      BY DEF Backup
    <3>3. json # Absent /\ "json" \notin edited => Backup("json", json) \in backups'
      BY <2>2, <3>1, <3>2 DEF BackupConfig, Copy
    <3>4. config # Absent => Backup("config", config) \in backups'
      BY <2>2 DEF BackupConfig, Copy, Backup
    <3>5. Backup("json", json)' = Backup("json", json)
          /\ Backup("config", config)' = Backup("config", config)
      BY <1>2 DEF Backup
    <3> QED
      BY <1>2, <2>2, <3>3, <3>4, <3>5 DEF BackupConfig, CopiesHold
  <2> QED
    BY <2>1, <2>2
<1> QED
    BY <1>3, <1>4, <1>5, <1>6 DEF CopyInv

\* A run reads, or stops.
LEMMA ReadKeeps ==
    ASSUME CopyInv, ReadJson \/ ReadConfig \/ Killed
    PROVE  CopyInv'
<1>1. NamesAreUsed /\ NameIsFree /\ CopiesHold /\ OriginalRecoverable
    BY DEF CopyInv
<1>2. UNCHANGED <<json, config, backups, stamp, edited, used, shared, replaced>>
    BY DEF ReadJson, ReadConfig, Killed, files, world, ledger
<1>3. \/ at' = "idle"
      \/ at = "read_json" /\ at' \in {"write_json", "read_config"}
      \/ at = "read_config" /\ at' = "write_config"
    BY DEF ReadJson, ReadConfig, Killed, AfterJson, Leave
<1>4. NamesAreUsed' /\ NameIsFree' /\ OriginalRecoverable'
    BY <1>1, <1>2, <1>3 DEF NamesAreUsed, NameIsFree, OriginalRecoverable
<1>5. CopiesHold'
    BY <1>1, <1>2, <1>3 DEF CopiesHold, Backup
<1> QED
    BY <1>4, <1>5 DEF CopyInv

\* A file that is replaced unedited is the one that was copied.
LEMMA WriteKeeps ==
    ASSUME CopyInv, WriteJson \/ WriteConfig
    PROVE  CopyInv'
<1>1. NamesAreUsed /\ NameIsFree /\ CopiesHold /\ OriginalRecoverable
    BY DEF CopyInv
<1>2. /\ UNCHANGED <<backups, stamp, edited, used, shared>>
      /\ at # "idle"
    BY DEF WriteJson, WriteConfig, world
<1>3. \/ at' = "idle"
      \/ WriteJson /\ at' = "read_config" /\ config' = config
    BY DEF WriteJson, WriteConfig, AfterJson, Leave
<1>4. \A r \in replaced' : r \in replaced \/ (r \in backups /\ r.stamp = stamp)
  <2>1. CASE WriteJson
    <3>1. \/ replaced' = replaced
          \/ /\ "json" \notin edited /\ json # Absent
             /\ replaced' = replaced \cup {Backup("json", json)}
      BY <2>1 DEF WriteJson, Replaces, Backup
    <3>2. json # Absent /\ "json" \notin edited => Backup("json", json) \in backups
      BY <1>1, <2>1 DEF WriteJson, CopiesHold
    <3>3. Backup("json", json).stamp = stamp
      BY DEF Backup
    <3> QED
      BY <3>1, <3>2, <3>3
  <2>2. CASE WriteConfig
    <3>1. \/ replaced' = replaced
          \/ /\ "config" \notin edited /\ config # Absent
             /\ replaced' = replaced \cup {Backup("config", config)}
      BY <2>2 DEF WriteConfig, Replaces, Backup
    <3>2. config # Absent /\ "config" \notin edited =>
             Backup("config", config) \in backups
      BY <1>1, <2>2 DEF WriteConfig, CopiesHold
    <3>3. Backup("config", config).stamp = stamp
      BY DEF Backup
    <3> QED
      BY <3>1, <3>2, <3>3
  <2> QED
    BY <2>1, <2>2
<1>5. NamesAreUsed' /\ NameIsFree' /\ OriginalRecoverable'
    BY <1>1, <1>2, <1>3, <1>4 DEF NamesAreUsed, NameIsFree, OriginalRecoverable
<1>6. CopiesHold'
    BY <1>1, <1>2, <1>3 DEF WriteJson, CopiesHold, Backup
<1> QED
    BY <1>5, <1>6 DEF CopyInv

\* An edit takes the file that is edited out of the promise.
LEMMA EditKeeps ==
    ASSUME CopyInv, NEW name, Edit(name),
           \/ name = "json" /\ config' = config
           \/ name = "config" /\ json' = json
    PROVE  CopyInv'
<1>1. NamesAreUsed /\ NameIsFree /\ CopiesHold /\ OriginalRecoverable
    BY DEF CopyInv
<1>2. /\ UNCHANGED <<backups, at, stamp, used, shared, replaced>>
      /\ edited' = edited \cup {name}
    BY DEF Edit, local, ledger
<1>3. NamesAreUsed' /\ NameIsFree' /\ OriginalRecoverable'
    BY <1>1, <1>2 DEF NamesAreUsed, NameIsFree, OriginalRecoverable
<1>4. CopiesHold'
    BY <1>1, <1>2 DEF CopiesHold, Backup
<1> QED
    BY <1>3, <1>4 DEF CopyInv
-----------------------------------------------------------------------------
\* Whatever file a run replaced, unless others had edited it since the run
\* began, is in a backup, unless two runs began within one second: however runs
\* are killed and repeated (backup, atomic_text and main of both scripts).
THEOREM ReplacedIsRecoverable == Spec => []OriginalRecoverable
<1>1. CopyInv /\ [Next]_vars => CopyInv'
  <2> SUFFICES ASSUME CopyInv, [Next]_vars PROVE CopyInv'
    OBVIOUS
  <2>1. CASE Script
    BY <2>1, BeginKeeps, BackupKeeps, ReadKeeps, WriteKeeps DEF Script
  <2>2. CASE Killed
    BY <2>2, ReadKeeps
  <2>3. CASE Tick
    BY <2>3 DEF Tick, files, local, ledger, CopyInv, NamesAreUsed, NameIsFree,
                CopiesHold, OriginalRecoverable, Backup
  <2>4. CASE \E j \in UserJson : RewriteJson(j)
    BY <2>4, EditKeeps DEF RewriteJson
  <2>5. CASE \E c \in UserConfig : RewriteConfig(c)
    BY <2>5, EditKeeps DEF RewriteConfig
  <2>6. CASE \E e \in Events, h \in Others : JoinGroup(e, h)
    <3>1. Edit("json") /\ config' = config
      BY <2>6 DEF JoinGroup
    <3> QED BY <3>1, EditKeeps
  <2>7. CASE \E e \in Events : ClearEvent(e)
    <3>1. Edit("json") /\ config' = config
      BY <2>7 DEF ClearEvent
    <3> QED BY <3>1, EditKeeps
  <2>8. CASE EditBlock
    <3>1. Edit("config") /\ json' = json
      BY <2>8 DEF EditBlock
    <3> QED BY <3>1, EditKeeps
  <2>9. CASE UNCHANGED vars
    BY <2>9 DEF vars, files, local, world, ledger, CopyInv, NamesAreUsed,
                NameIsFree, CopiesHold, OriginalRecoverable, Backup
  <2> QED
    BY <2>1, <2>2, <2>3, <2>4, <2>5, <2>6, <2>7, <2>8, <2>9 DEF Next
<1>2. CopyInv => OriginalRecoverable
    BY DEF CopyInv
<1> QED
    BY <1>1, <1>2, InitHolds, PTL DEF Spec
-----------------------------------------------------------------------------
(* Dropping empty groups (Inhabited).                                        *)

\* The least-number principle, in a form that needs no operator parameter.
LEMMA LeastNumber ==
    ASSUME NEW T, T \subseteq Nat, T # {}
    PROVE  \E m \in T : \A n \in T : m <= n
<1> DEFINE R == OpToRel(<, Nat)
<1>1. IsWellFoundedOn(R, Nat)
    BY NatLessThanWellFounded
<1>2. \A m, n \in Nat : <<n, m>> \in R <=> n < m
    BY DEF OpToRel
<1> HIDE DEF R
<1>3. PICK m \in T : \A n \in T : <<n, m>> \notin R
    BY <1>1, WFMin
<1>4. ASSUME NEW n \in T PROVE m <= n
  <2>1. m \in Nat /\ n \in Nat /\ ~(n < m)
    BY <1>2, <1>3
  <2> QED
    BY <2>1
<1> QED
    BY <1>4

\* How many of the positions K are up to i, and the k-th of them.
Place(K, i) == Cardinality({j \in K : j <= i})
Nth(K, k) == CHOOSE i \in K : Place(K, i) = k
Kept(groups) == {i \in DOMAIN groups : groups[i] # {}}

LEMMA PlaceCounts ==
    ASSUME NEW n \in Nat, NEW K \in SUBSET (1..n)
    PROVE  /\ IsFiniteSet(K) /\ Cardinality(K) \in Nat
           /\ Place(K, 0) = 0 /\ Place(K, n) = Cardinality(K)
           /\ \A i \in 0..n : Place(K, i) \in Nat
           /\ \A i \in 1..n :
                 Place(K, i) = IF i \in K THEN Place(K, i - 1) + 1 ELSE Place(K, i - 1)
<1>1. IsFiniteSet(K)
  <2>1. IsFiniteSet(1..n)
    BY FS_Interval
  <2> QED
    BY <2>1, FS_Subset
<1>2. \A i \in 0..n : IsFiniteSet({j \in K : j <= i})
  <2>1. \A i \in 0..n : {j \in K : j <= i} \in SUBSET K
    OBVIOUS
  <2> QED
    BY <1>1, <2>1, FS_Subset
<1>3. \A i \in 0..n : Place(K, i) \in Nat
    BY <1>2, FS_CardinalityType DEF Place
<1>4. {j \in K : j <= 0} = {} /\ {j \in K : j <= n} = K
  <2>1. \A j \in K : j \in Int /\ ~(j <= 0) /\ j <= n
    OBVIOUS
  <2> QED
    BY <2>1
<1>5. Place(K, 0) = 0 /\ Place(K, n) = Cardinality(K)
    BY <1>4, FS_EmptySet DEF Place
<1>6. ASSUME NEW i \in 1..n
      PROVE  Place(K, i) = IF i \in K THEN Place(K, i - 1) + 1 ELSE Place(K, i - 1)
  <2> DEFINE before == {j \in K : j <= i - 1}
             upto == {j \in K : j <= i}
  <2>1. IsFiniteSet(before) /\ i \notin before
    <3>1. i - 1 \in 0..n /\ ~(i <= i - 1)
      OBVIOUS
    <3> QED
      BY <1>2, <3>1
  <2>2. upto = IF i \in K THEN before \cup {i} ELSE before
    <3>1. \A j \in K : j <= i <=> j <= i - 1 \/ j = i
      OBVIOUS
    <3>2. upto \ {i} = before /\ (i \in upto <=> i \in K)
      BY <3>1, <2>1
    <3> HIDE DEF upto, before
    <3> QED
      BY <3>2, <2>1
  <2> HIDE DEF before, upto
  <2>3. Cardinality(before \cup {i}) = Cardinality(before) + 1
    BY <2>1, FS_AddElement
  <2>4. Place(K, i) = Cardinality(upto) /\ Place(K, i - 1) = Cardinality(before)
    BY DEF Place, upto, before
  <2> QED
    BY <2>2, <2>3, <2>4
<1>7. Cardinality(K) \in Nat
    BY <1>1, FS_CardinalityType
<1> QED
    BY <1>1, <1>3, <1>5, <1>6, <1>7

\* Each of the places is taken: the first position with k of K up to it is one.
LEMMA EveryPlace ==
    ASSUME NEW n \in Nat, NEW K \in SUBSET (1..n), NEW k \in 1..Cardinality(K)
    PROVE  Nth(K, k) \in K
<1> DEFINE T == {i \in 0..n : Place(K, i) >= k}
<1>1. /\ Cardinality(K) \in Nat /\ Place(K, n) = Cardinality(K) /\ Place(K, 0) = 0
      /\ \A i \in 0..n : Place(K, i) \in Nat
    BY PlaceCounts
<1>2. n \in T /\ T \subseteq Nat
    BY <1>1
<1>3. PICK i \in T : \A m \in T : i <= m
  <2> HIDE DEF T
  <2> QED
    BY <1>2, LeastNumber
<1>4. i \in 0..n /\ Place(K, i) >= k /\ Place(K, i) \in Nat /\ k \in Nat
    BY <1>1, <1>3, PlaceCounts
<1>5. i # 0
    BY <1>1, <1>4
<1>6. i - 1 \in 0..n /\ i - 1 \notin T
    BY <1>3, <1>4, <1>5
<1>7. Place(K, i - 1) < k /\ Place(K, i - 1) \in Nat
    BY <1>1, <1>4, <1>6
<1>8. Place(K, i) = IF i \in K THEN Place(K, i - 1) + 1 ELSE Place(K, i - 1)
    BY <1>4, <1>5, PlaceCounts
<1>9. i \in K /\ Place(K, i) = k
    BY <1>4, <1>7, <1>8
<1> QED
    BY <1>9 DEF Nth

LEMMA InhabitedIs ==
    ASSUME NEW groups
    PROVE  Inhabited(groups) =
               [k \in 1..Cardinality(Kept(groups)) |-> groups[Nth(Kept(groups), k)]]
BY DEF Inhabited, Kept, Nth, Place

\* What is left are groups of the sequence that are not empty.
LEMMA InhabitedKeeps ==
    ASSUME NEW S, NEW groups \in Seq(SUBSET S)
    PROVE  /\ Inhabited(groups) \in Seq((SUBSET S) \ {{}})
           /\ \A k \in DOMAIN Inhabited(groups) :
                  \E i \in DOMAIN groups : Inhabited(groups)[k] = groups[i]
<1> DEFINE K == Kept(groups)
<1>1. K \in SUBSET (1..Len(groups)) /\ Len(groups) \in Nat
    BY DEF Kept
<1>2. \A i \in K : i \in DOMAIN groups /\ groups[i] \in (SUBSET S) \ {{}}
    BY DEF Kept
<1> HIDE DEF K
<1>3. \A k \in 1..Cardinality(K) : Nth(K, k) \in K
    BY <1>1, EveryPlace
<1>4. Cardinality(K) \in Nat
    BY <1>1, PlaceCounts
<1>5. Inhabited(groups) = [k \in 1..Cardinality(K) |-> groups[Nth(K, k)]]
    BY InhabitedIs DEF K
<1>6. \A k \in 1..Cardinality(K) : groups[Nth(K, k)] \in (SUBSET S) \ {{}}
    BY <1>2, <1>3
<1> QED
    BY <1>2, <1>3, <1>4, <1>5, <1>6

\* An empty group at the end changes nothing.
LEMMA InhabitedAppend ==
    ASSUME NEW S, NEW groups \in Seq(SUBSET S)
    PROVE  Inhabited(Append(groups, {})) = Inhabited(groups)
<1> DEFINE K == Kept(groups)
           longer == Append(groups, {})
<1>1. K \in SUBSET (1..Len(groups)) /\ Len(groups) \in Nat
    BY DEF Kept
<1>2. \A i \in 1..Len(groups) : longer[i] = groups[i]
    OBVIOUS
<1>3. Kept(longer) = K
  <2>1. /\ DOMAIN longer = 1..(Len(groups) + 1) /\ DOMAIN groups = 1..Len(groups)
        /\ longer[Len(groups) + 1] = {}
    OBVIOUS
  <2> HIDE DEF longer
  <2> QED
    BY <1>1, <1>2, <2>1 DEF Kept
<1> HIDE DEF K, longer
<1>4. \A k \in 1..Cardinality(K) : Nth(K, k) \in 1..Len(groups)
    BY <1>1, EveryPlace
<1>5. \A k \in 1..Cardinality(K) : longer[Nth(K, k)] = groups[Nth(K, k)]
    BY <1>2, <1>4
<1>6. Inhabited(longer) = [k \in 1..Cardinality(K) |-> longer[Nth(K, k)]]
    BY <1>3, InhabitedIs
<1>7. Inhabited(groups) = [k \in 1..Cardinality(K) |-> groups[Nth(K, k)]]
    BY InhabitedIs DEF K
<1> QED
    BY <1>5, <1>6, <1>7 DEF longer

\* Where no group is empty, none is dropped.
LEMMA InhabitedAll ==
    ASSUME NEW S, NEW groups \in Seq((SUBSET S) \ {{}})
    PROVE  Inhabited(groups) = groups
<1> DEFINE n == Len(groups)
<1>1. n \in Nat /\ Kept(groups) = 1..n
    BY DEF Kept
<1>2. Cardinality(1..n) = n
    BY <1>1, FS_Interval
<1>3. \A i \in 1..n : Place(1..n, i) = i
  <2> TAKE i \in 1..n
  <2>1. {j \in 1..n : j <= i} = 1..i
    BY <1>1
  <2>2. Cardinality(1..i) = i
    BY <1>1, FS_Interval
  <2> QED
    BY <2>1, <2>2 DEF Place
<1>4. \A k \in 1..n : Nth(1..n, k) = k
  <2> TAKE k \in 1..n
  <2>1. k \in 1..n /\ Place(1..n, k) = k
    BY <1>3
  <2>2. Nth(1..n, k) \in 1..n /\ Place(1..n, Nth(1..n, k)) = k
    BY <2>1 DEF Nth
  <2> QED
    BY <1>3, <2>2
<1>5. Inhabited(groups) = [k \in 1..n |-> groups[Nth(1..n, k)]]
    BY <1>1, <1>2, InhabitedIs
<1>6. Inhabited(groups) = [k \in 1..n |-> groups[k]]
    BY <1>4, <1>5
<1> QED
    BY <1>6
-----------------------------------------------------------------------------
(* What the scripts make of a file.                                          *)

\* The handler is somewhere in the file; nowhere in it twice; and what a
\* config.toml is that only scripts and edits of its block have changed.
Holds(j, e) ==
    /\ j # Absent /\ j.hooks # Absent
    /\ \E i \in DOMAIN j.hooks[e] : Ours \in j.hooks[e][i]
Once(j) ==
    j # Absent /\ j.hooks # Absent =>
        \A e \in Events : \A i, k \in DOMAIN j.hooks[e] :
            Ours \in j.hooks[e][i] /\ Ours \in j.hooks[e][k] => i = k
Covers(c, e) == c # Absent /\ (e \in c.own \/ e \in c.loose)
Sound(c) ==
    c # Absent => c.own \cap c.loose = {} /\ (c.marks = "none" => c.own = {})

LEMMA Distinct == /\ Ours \notin Others /\ Absent \notin Json
                  /\ Absent \notin Config /\ Absent \notin HookTable
BY HookLayerAssumption

LEMMA Tables ==
    ASSUME NEW t
    PROVE  /\ t \in HookTable => [hooks |-> t] \in Json /\ [hooks |-> t] # Absent
                                 /\ [hooks |-> t].hooks # Absent
           /\ \A j \in Json : j.hooks # Absent => j.hooks \in HookTable
BY Distinct DEF Json

LEMMA AnInstalledGroup ==
    ASSUME NEW s \in Seq(Group)
    PROVE  /\ HasOurs(s) <=> \E i \in DOMAIN s : Ours \in s[i]
           /\ Append(s, {Ours}) \in Seq(Group) /\ Append(s, {Ours}) # s
           /\ \E i \in DOMAIN Append(s, {Ours}) : Ours \in Append(s, {Ours})[i]
           /\ ~HasOurs(s) =>
                 \A i \in DOMAIN Append(s, {Ours}) :
                     Ours \in Append(s, {Ours})[i] => i = Len(s) + 1
<1>1. HasOurs(s) <=> \E i \in DOMAIN s : Ours \in s[i]
    BY DEF HasOurs, Range
<1>2. {Ours} \in Group
    BY DEF Group
<1>3. /\ Len(s) \in Nat /\ DOMAIN s = 1..Len(s)
      /\ DOMAIN Append(s, {Ours}) = 1..(Len(s) + 1)
      /\ Append(s, {Ours})[Len(s) + 1] = {Ours}
      /\ \A i \in 1..Len(s) : Append(s, {Ours})[i] = s[i]
    OBVIOUS
<1>4. Append(s, {Ours}) \in Seq(Group) /\ Len(Append(s, {Ours})) # Len(s)
    BY <1>2
<1>5. \E i \in DOMAIN Append(s, {Ours}) : Ours \in Append(s, {Ours})[i]
    BY <1>3
<1>6. ASSUME ~HasOurs(s), NEW i \in 1..(Len(s) + 1), Ours \in Append(s, {Ours})[i]
      PROVE  i = Len(s) + 1
  <2>1. i \notin 1..Len(s)
    BY <1>1, <1>3, <1>6
  <2> QED
    BY <1>3, <2>1
<1> QED
    BY <1>1, <1>3, <1>4, <1>5, <1>6

\* install_json: the handler is in every event, and nowhere twice.
LEMMA WithOursCovers ==
    ASSUME NEW t \in HookTable,
           \A e \in Events : \A i, k \in DOMAIN t[e] :
               Ours \in t[e][i] /\ Ours \in t[e][k] => i = k
    PROVE  /\ WithOurs(t) \in HookTable
           /\ \A e \in Events : \E i \in DOMAIN WithOurs(t)[e] : Ours \in WithOurs(t)[e][i]
           /\ \A e \in Events : \A i, k \in DOMAIN WithOurs(t)[e] :
                  Ours \in WithOurs(t)[e][i] /\ Ours \in WithOurs(t)[e][k] => i = k
<1> DEFINE u == WithOurs(t)
<1>1. u = [e \in Events |-> IF HasOurs(t[e]) THEN t[e] ELSE Append(t[e], {Ours})]
    BY DEF WithOurs
<1>2. \A e \in Events : t[e] \in Seq(Group)
    BY DEF HookTable
<1> HIDE DEF u
<1>3. ASSUME NEW e \in Events
      PROVE  /\ u[e] \in Seq(Group)
             /\ \E i \in DOMAIN u[e] : Ours \in u[e][i]
             /\ \A i, k \in DOMAIN u[e] : Ours \in u[e][i] /\ Ours \in u[e][k] => i = k
  <2>1. t[e] \in Seq(Group)
    BY <1>2
  <2>2. CASE HasOurs(t[e])
    <3>1. u[e] = t[e]
      BY <1>1, <2>2
    <3> QED
      BY <2>1, <2>2, <3>1, AnInstalledGroup
  <2>3. CASE ~HasOurs(t[e])
    <3>1. u[e] = Append(t[e], {Ours})
      BY <1>1, <2>3
    <3>2. \A i \in DOMAIN u[e] : Ours \in u[e][i] => i = Len(t[e]) + 1
      BY <2>1, <2>3, <3>1, AnInstalledGroup
    <3>3. u[e] \in Seq(Group) /\ \E i \in DOMAIN u[e] : Ours \in u[e][i]
      <4> DEFINE v == Append(t[e], {Ours})
      <4>1. v \in Seq(Group) /\ \E i \in DOMAIN v : Ours \in v[i]
        BY <2>1, AnInstalledGroup
      <4> HIDE DEF v
      <4>2. u[e] = v
        BY <3>1 DEF v
      <4> QED
        BY <4>1, <4>2
    <3> QED
      BY <3>2, <3>3
  <2> QED
    BY <2>2, <2>3
<1>4. u \in HookTable
    BY <1>1, <1>3 DEF HookTable
<1> QED
    BY <1>3, <1>4 DEF u

LEMMA InstalledCovers ==
    ASSUME NEW j \in Json \cup {Absent}, Once(j)
    PROVE  /\ InstalledJson(j) \in Json /\ Once(InstalledJson(j))
           /\ \A e \in Events : Holds(InstalledJson(j), e)
<1> DEFINE t == IF j = Absent \/ j.hooks = Absent THEN [e \in Events |-> <<>>]
                ELSE j.hooks
           u == WithOurs(t)
<1>1. /\ t \in HookTable
      /\ \A e \in Events : \A i, k \in DOMAIN t[e] :
             Ours \in t[e][i] /\ Ours \in t[e][k] => i = k
  <2>1. CASE j = Absent \/ j.hooks = Absent
    <3>1. t = [e \in Events |-> <<>>]
      BY <2>1
    <3>2. <<>> \in Seq(Group) /\ DOMAIN <<>> = {}
      OBVIOUS
    <3> HIDE DEF t
    <3> QED
      BY <3>1, <3>2 DEF HookTable
  <2>2. CASE j # Absent /\ j.hooks # Absent
    <3>1. t = j.hooks /\ j \in Json
      BY <2>2
    <3> HIDE DEF t
    <3> QED
      BY <2>2, <3>1, Tables DEF Once
  <2> QED
    BY <2>1, <2>2
<1>2. InstalledJson(j) = [hooks |-> u]
    BY DEF InstalledJson
<1> HIDE DEF t
<1>3. /\ u \in HookTable
      /\ \A e \in Events : \E i \in DOMAIN u[e] : Ours \in u[e][i]
      /\ \A e \in Events : \A i, k \in DOMAIN u[e] :
             Ours \in u[e][i] /\ Ours \in u[e][k] => i = k
    BY <1>1, WithOursCovers
<1> HIDE DEF u
<1>4. [hooks |-> u] \in Json /\ [hooks |-> u] # Absent /\ [hooks |-> u].hooks # Absent
    BY <1>3, Tables
<1> QED
    BY <1>2, <1>3, <1>4 DEF Once, Holds

\* uninstall_json: the handler is nowhere.
LEMMA WithoutOursRemoves ==
    ASSUME NEW s \in Seq(Group)
    PROVE  /\ GroupsWithoutOurs(s) \in Seq((SUBSET Others) \ {{}})
           /\ GroupsWithoutOurs(s) \in Seq(Group)
           /\ \A i \in DOMAIN GroupsWithoutOurs(s) : Ours \notin GroupsWithoutOurs(s)[i]
<1> DEFINE m == [i \in DOMAIN s |-> s[i] \ {Ours}]
<1>1. m \in Seq(SUBSET Others)
  <2>1. \A i \in 1..Len(s) : s[i] \ {Ours} \in SUBSET Others
    BY DEF Group
  <2> QED
    BY <2>1
<1> HIDE DEF m
<1>2. Inhabited(m) \in Seq((SUBSET Others) \ {{}})
    BY <1>1, InhabitedKeeps
<1>3. GroupsWithoutOurs(s) = Inhabited(m)
    BY DEF GroupsWithoutOurs, m
<1>4. (SUBSET Others) \ {{}} \subseteq Group
    BY DEF Group
<1>5. ASSUME NEW u \in Seq((SUBSET Others) \ {{}})
      PROVE  u \in Seq(Group) /\ \A i \in DOMAIN u : Ours \notin u[i]
    BY <1>4, Distinct
<1> QED
    BY <1>2, <1>3, <1>5

LEMMA UninstalledRemoves ==
    ASSUME NEW j \in Json, j.hooks # Absent
    PROVE  /\ UninstalledJson(j) \in Json /\ Once(UninstalledJson(j))
           /\ \A e \in Events : ~Holds(UninstalledJson(j), e)
<1> DEFINE u == WithoutOurs(j.hooks)
<1>1. \A e \in Events : j.hooks[e] \in Seq(Group)
    BY Tables DEF HookTable
<1>2. u = [e \in Events |-> GroupsWithoutOurs(j.hooks[e])]
    BY DEF WithoutOurs
<1>3. UninstalledJson(j) = [hooks |-> u]
    BY DEF UninstalledJson, Json
<1> HIDE DEF u
<1>4. \A e \in Events : /\ u[e] \in Seq(Group)
                        /\ \A i \in DOMAIN u[e] : Ours \notin u[e][i]
    BY <1>1, <1>2, WithoutOursRemoves
<1>5. u \in HookTable
    BY <1>2, <1>4 DEF HookTable
<1>6. [hooks |-> u] \in Json /\ [hooks |-> u] # Absent /\ [hooks |-> u].hooks # Absent
    BY <1>5, Tables
<1> QED
    BY <1>3, <1>4, <1>6 DEF Once, Holds
-----------------------------------------------------------------------------
(* The handlers of others.                                                   *)

ForeignGroups(groups) == Inhabited([i \in DOMAIN groups |-> groups[i] \cap Others])

LEMMA ForeignIs ==
    ASSUME NEW j
    PROVE  Foreign(j) = [e \in Events |-> IF j = Absent \/ j.hooks = Absent THEN <<>>
                                          ELSE ForeignGroups(j.hooks[e])]
BY DEF Foreign, ForeignGroups

LEMMA NoGroupsNoForeign == ForeignGroups(<<>>) = <<>>
<1>1. [i \in DOMAIN <<>> |-> <<>>[i] \cap Others] = <<>>
    OBVIOUS
<1>2. <<>> \in Seq((SUBSET Others) \ {{}})
    OBVIOUS
<1> QED
    BY <1>1, <1>2, InhabitedAll DEF ForeignGroups

LEMMA InstalledGroupIsOurs ==
    ASSUME NEW s \in Seq(Group)
    PROVE  ForeignGroups(Append(s, {Ours})) = ForeignGroups(s)
<1> DEFINE m == [i \in DOMAIN s |-> s[i] \cap Others]
           longer == Append(s, {Ours})
           l == [i \in DOMAIN longer |-> longer[i] \cap Others]
<1>1. m \in Seq(SUBSET Others) /\ Len(m) = Len(s) /\ Len(s) \in Nat
    OBVIOUS
<1>2. /\ DOMAIN longer = 1..(Len(s) + 1) /\ longer[Len(s) + 1] = {Ours}
      /\ \A i \in 1..Len(s) : longer[i] = s[i]
    OBVIOUS
<1>3. l = Append(m, {})
  <2> HIDE DEF longer
  <2>1. l = [i \in 1..(Len(s) + 1) |-> IF i = Len(s) + 1 THEN {} ELSE s[i] \cap Others]
    BY <1>1, <1>2, Distinct
  <2>2. Append(m, {}) = [i \in 1..(Len(m) + 1) |-> IF i = Len(m) + 1 THEN {} ELSE m[i]]
    <3> HIDE DEF m
    <3>1. {} \in SUBSET Others
      OBVIOUS
    <3> DEFINE a == Append(m, {})
    <3>2. /\ a \in Seq(SUBSET Others) /\ Len(a) = Len(m) + 1 /\ Len(m) \in Nat
          /\ a[Len(m) + 1] = {} /\ \A i \in 1..Len(m) : a[i] = m[i]
      BY <1>1, <3>1
    <3> HIDE DEF a
    <3>3. a = [i \in 1..(Len(m) + 1) |-> a[i]]
      BY <3>2
    <3>4. \A i \in 1..(Len(m) + 1) : a[i] = IF i = Len(m) + 1 THEN {} ELSE m[i]
      BY <3>2
    <3> QED
      BY <3>3, <3>4 DEF a
  <2>3. \A i \in 1..Len(s) : m[i] = s[i] \cap Others
    OBVIOUS
  <2> HIDE DEF l, m
  <2> QED
    BY <1>1, <2>1, <2>2, <2>3
<1>4. Inhabited(Append(m, {})) = Inhabited(m)
  <2> HIDE DEF m
  <2> QED
    BY <1>1, InhabitedAppend
<1>5. ForeignGroups(longer) = Inhabited(l) /\ ForeignGroups(s) = Inhabited(m)
    BY DEF ForeignGroups
<1> QED
    BY <1>3, <1>4, <1>5

LEMMA InstalledKeepsForeign ==
    ASSUME NEW j \in Json \cup {Absent}
    PROVE  Foreign(InstalledJson(j)) = Foreign(j)
<1> DEFINE t == IF j = Absent \/ j.hooks = Absent THEN [e \in Events |-> <<>>]
                ELSE j.hooks
           u == WithOurs(t)
<1>1. \A e \in Events : t[e] \in Seq(Group)
  <2>1. CASE j = Absent \/ j.hooks = Absent
    BY <2>1
  <2>2. CASE j # Absent /\ j.hooks # Absent
    BY <2>2, Tables DEF HookTable
  <2> QED
    BY <2>1, <2>2
<1>2. Foreign(j) = [e \in Events |-> ForeignGroups(t[e])]
  <2>1. CASE j = Absent \/ j.hooks = Absent
    BY <2>1, ForeignIs, NoGroupsNoForeign
  <2>2. CASE j # Absent /\ j.hooks # Absent
    BY <2>2, ForeignIs
  <2> QED
    BY <2>1, <2>2
<1>3. InstalledJson(j) = [hooks |-> u]
    BY DEF InstalledJson
<1>4. u = [e \in Events |-> IF HasOurs(t[e]) THEN t[e] ELSE Append(t[e], {Ours})]
    BY DEF WithOurs
<1> HIDE DEF t, u
<1>5. u \in HookTable
  <2>1. \A e \in Events : u[e] \in Seq(Group)
    BY <1>1, <1>4, AnInstalledGroup
  <2> QED
    BY <1>4, <2>1 DEF HookTable
<1>6. \A e \in Events : ForeignGroups(u[e]) = ForeignGroups(t[e])
    BY <1>1, <1>4, InstalledGroupIsOurs
<1>7. Foreign([hooks |-> u]) = [e \in Events |-> ForeignGroups(u[e])]
  <2> DEFINE k == [hooks |-> u]
  <2>1. k # Absent /\ k.hooks # Absent /\ k.hooks = u
    BY <1>5, Tables
  <2> HIDE DEF k
  <2>2. Foreign(k) = [e \in Events |-> ForeignGroups(u[e])]
    BY <2>1, ForeignIs
  <2> QED
    BY <2>2 DEF k
<1> QED
    BY <1>2, <1>3, <1>6, <1>7

LEMMA RemovalKeepsGroups ==
    ASSUME NEW s \in Seq(Group)
    PROVE  ForeignGroups(GroupsWithoutOurs(s)) = ForeignGroups(s)
<1> DEFINE m == [i \in DOMAIN s |-> s[i] \cap Others]
           u == GroupsWithoutOurs(s)
<1>1. \A i \in DOMAIN s : s[i] \ {Ours} = s[i] \cap Others
  <2>1. \A i \in DOMAIN s : s[i] \in Group
    OBVIOUS
  <2>2. \A g \in Group : g \ {Ours} = g \cap Others
    BY Distinct DEF Group
  <2> QED
    BY <2>1, <2>2
<1>2. [i \in DOMAIN s |-> s[i] \ {Ours}] = m
    BY <1>1
<1>3. u = Inhabited(m) /\ ForeignGroups(s) = Inhabited(m)
    BY <1>2 DEF GroupsWithoutOurs, ForeignGroups
<1>4. u \in Seq((SUBSET Others) \ {{}})
    BY WithoutOursRemoves
<1> HIDE DEF u, m
<1>5. [i \in DOMAIN u |-> u[i] \cap Others] = u
  <2>1. /\ DOMAIN u = 1..Len(u) /\ u = [i \in 1..Len(u) |-> u[i]]
        /\ \A i \in 1..Len(u) : u[i] \in SUBSET Others
    BY <1>4
  <2>2. \A i \in 1..Len(u) : u[i] \cap Others = u[i]
    BY <2>1
  <2> QED
    BY <2>1, <2>2
<1>6. ForeignGroups(u) = u
    BY <1>4, <1>5, InhabitedAll DEF ForeignGroups
<1> QED
    BY <1>3, <1>6 DEF u

LEMMA UninstalledKeepsForeign ==
    ASSUME NEW j \in Json, j.hooks # Absent
    PROVE  Foreign(UninstalledJson(j)) = Foreign(j)
<1> DEFINE u == WithoutOurs(j.hooks)
           k == UninstalledJson(j)
<1>1. \A e \in Events : j.hooks[e] \in Seq(Group)
    BY Tables DEF HookTable
<1>2. u = [e \in Events |-> GroupsWithoutOurs(j.hooks[e])]
    BY DEF WithoutOurs
<1>3. k = [hooks |-> u]
    BY DEF UninstalledJson, Json
<1> HIDE DEF u, k
<1>4. u \in HookTable
    BY <1>1, <1>2, WithoutOursRemoves DEF HookTable
<1>5. k # Absent /\ k.hooks # Absent /\ k.hooks = u
    BY <1>3, <1>4, Tables
<1>6. \A e \in Events : ForeignGroups(u[e]) = ForeignGroups(j.hooks[e])
    BY <1>1, <1>2, RemovalKeepsGroups
<1>7. Foreign(k) = [e \in Events |-> ForeignGroups(u[e])]
    BY <1>5, ForeignIs
<1>8. Foreign(j) = [e \in Events |-> ForeignGroups(j.hooks[e])]
    BY Distinct, ForeignIs
<1> QED
    BY <1>6, <1>7, <1>8 DEF k
-----------------------------------------------------------------------------
(* The handler's place.                                                      *)

\* Codex finds it at most once for an event.
FilesOnce ==
    /\ Once(json) /\ Sound(config)
    /\ \A e \in Events : ~(Holds(json, e) /\ Covers(config, e))

\* What was read and is about to be replaced was such a file too; what of it
\* will stay in config.toml is nowhere in hooks.json.
ReadOnce ==
    /\ at = "write_json" =>
          /\ read \in Json \cup {Absent} /\ Once(read)
          /\ script = "uninstall" => read # Absent /\ read.hooks # Absent
    /\ at = "write_config" =>
          /\ read \in Config /\ Sound(read)
          /\ read.marks = (IF script = "install" THEN "none" ELSE "pair")
          /\ \A e \in Events : ~(Holds(json, e) /\ e \in read.loose)
    /\ at # "idle" => script = "install" \/ (script = "uninstall" /\ ~inline)

\* While the installer works on one file, the other has no handler.
OneTarget ==
    script = "install" /\ at # "idle" =>
        /\ ~changed
        /\ inline => /\ at \notin {"read_json", "write_json"}
                     /\ \A e \in Events : ~Holds(json, e)
        /\ ~inline => /\ at \notin {"read_config", "write_config"}
                      /\ \A e \in Events : ~Covers(config, e)

Covering ==
    Done("install") /\ (changed \/ ~inline) =>
        \A e \in Events : Holds(json, e) \/ Covers(config, e)

\* The uninstaller is done with hooks.json when it turns to config.toml.
Removing ==
    /\ script = "uninstall" /\ "json" \notin edited
          /\ (at \in {"read_config", "write_config"} \/ (at = "idle" /\ outcome = "ok")) =>
             \A e \in Events : ~Holds(json, e)
    /\ Done("uninstall") => config = Absent \/ config.own = {}

PlaceInv == FilesOnce /\ ReadOnce /\ OneTarget /\ Covering /\ Removing

\* What others write has no handler of ours.
LEMMA UserFiles ==
    /\ \A j \in UserJson : /\ j \in Json \cup {Absent} /\ Once(j)
                           /\ \A e \in Events : ~Holds(j, e)
    /\ \A c \in UserConfig : /\ c \in Config \cup {Absent} /\ Sound(c)
                             /\ \A e \in Events : ~Covers(c, e)
<1>1. ASSUME NEW j \in UserJson
      PROVE  /\ j \in Json \cup {Absent} /\ Once(j)
             /\ \A e \in Events : ~Holds(j, e)
  <2>1. j \in Json \cup {Absent}
    BY HookLayerAssumption
  <2>2. ASSUME j # Absent, j.hooks # Absent, NEW e \in Events, NEW i \in DOMAIN j.hooks[e]
        PROVE  Ours \notin j.hooks[e][i]
    <3>1. ~Mentions(j.hooks, Ours)
      BY <2>2, HookLayerAssumption
    <3> QED
      BY <2>2, <3>1 DEF Mentions, Range
  <2> QED
    BY <2>1, <2>2 DEF Once, Holds
<1>2. ASSUME NEW c \in UserConfig
      PROVE  /\ c \in Config \cup {Absent} /\ Sound(c)
             /\ \A e \in Events : ~Covers(c, e)
    BY HookLayerAssumption DEF NoBlock, Sound, Covers
<1> QED
    BY <1>1, <1>2

LEMMA InstalledBlock ==
    ASSUME NEW c \in Config, Sound(c), c.marks = "none"
    PROVE  /\ InstalledConfig(c) \in Config /\ Sound(InstalledConfig(c))
           /\ \A e \in Events : Covers(InstalledConfig(c), e)
           /\ InstalledConfig(c).inline = c.inline /\ InstalledConfig(c).loose = c.loose
<1> DEFINE d == [c EXCEPT !.marks = "pair", !.own = Events \ c.loose]
<1>1. /\ d \in Config /\ d.marks = "pair" /\ d.own = Events \ c.loose
      /\ d.loose = c.loose /\ d.inline = c.inline
    BY DEF Config
<1>2. c # Absent /\ d # Absent
    BY <1>1, Distinct
<1>3. InstalledConfig(c) = IF c.loose = Events THEN c ELSE d
    BY DEF InstalledConfig
<1> HIDE DEF d
<1> QED
    BY <1>1, <1>2, <1>3 DEF Sound, Covers

LEMMA UninstalledBlock ==
    ASSUME NEW c \in Config
    PROVE  /\ UninstalledConfig(c) \in Config /\ Sound(UninstalledConfig(c))
           /\ UninstalledConfig(c).own = {} /\ UninstalledConfig(c).marks = "none"
           /\ UninstalledConfig(c).inline = c.inline /\ UninstalledConfig(c).loose = c.loose
BY DEF Config, UninstalledConfig, Sound

LEMMA ConfigAfterIs ==
    ASSUME NEW c
    PROVE  /\ script = "install" /\ c.marks = "none" => ConfigAfter(c) = InstalledConfig(c)
           /\ script = "uninstall" /\ c.marks = "pair" => ConfigAfter(c) = UninstalledConfig(c)
           /\ ConfigAfter(c) = c \/ (script = "install" /\ c.marks = "none")
                                 \/ (script = "uninstall" /\ c.marks = "pair")
BY DEF ConfigAfter

LEMMA InitPlaces == Init => TypeOK /\ PlaceInv
<1> SUFFICES ASSUME Init PROVE TypeOK /\ PlaceInv
    OBVIOUS
<1>1. /\ json \in Json \cup {Absent} /\ config \in Config \cup {Absent}
      /\ \A e \in Events : ~Holds(json, e) /\ ~Covers(config, e)
      /\ Once(json) /\ Sound(config)
  <2>1. json \in UserJson /\ config \in UserConfig
    BY DEF Init
  <2> QED
    BY <2>1, UserFiles
<1>2. TypeOK
  <2>1. 0 \in 0..MaxTime /\ 0 \in 0..MaxRuns /\ 0 \in 0..MaxEdits
    BY HookLayerAssumption
  <2> QED
    BY <1>1, <2>1 DEF Init, TypeOK
<1>3. FilesOnce
    BY <1>1 DEF FilesOnce
<1> QED
    BY <1>2, <1>3 DEF Init, PlaceInv, ReadOnce, OneTarget, Covering, Removing, Done
-----------------------------------------------------------------------------
(* The steps.                                                                *)

\* Install and Uninstall.
LEMMA BeginPlaces ==
    ASSUME TypeOK, PlaceInv, Install \/ Uninstall
    PROVE  TypeOK' /\ PlaceInv'
<1>1. /\ UNCHANGED <<json, config, backups, read, now, edits, replaced>>
      /\ at = "idle" /\ changed' = FALSE /\ edited' = {} /\ runs' = runs + 1
      /\ runs < MaxRuns
      /\ \/ /\ script' = "install" /\ at' = "idle" /\ outcome' = "refused"
            /\ inline' \in BOOLEAN /\ UNCHANGED <<stamp, used, shared>>
         \/ /\ script' = "install" /\ at' = "backup_json" /\ outcome' = "none"
            /\ inline' = IsInline(config) /\ ~Mixed(json, config) /\ Stamp
         \/ /\ script' = "uninstall" /\ at' = "backup_json" /\ outcome' = "none"
            /\ inline' = FALSE /\ Stamp
    BY DEF Install, Uninstall, Begin, MayInstall, files, IsInline
<1>2. TypeOK'
  <2>1. stamp' \in 0..MaxTime /\ used' \subseteq 0..MaxTime /\ shared' \subseteq used'
    BY <1>1 DEF TypeOK, Stamp, Timestamp
  <2>2. runs' \in 0..MaxRuns
    BY <1>1, HookLayerAssumption DEF TypeOK
  <2>3. inline' \in BOOLEAN
    BY <1>1 DEF IsInline
  <2> QED
    BY <1>1, <2>1, <2>2, <2>3 DEF TypeOK
<1>3. FilesOnce'
    BY <1>1 DEF PlaceInv, FilesOnce
<1>4. ReadOnce'
    BY <1>1 DEF ReadOnce
<1>5. OneTarget'
  <2>1. IsInline(config) /\ ~Mixed(json, config) => \A e \in Events : ~Holds(json, e)
    BY DEF Mixed, Holds
  <2>2. ~IsInline(config) => \A e \in Events : ~Covers(config, e)
    BY DEF IsInline, InlineEvents, Covers
  <2> QED
    BY <1>1, <2>1, <2>2 DEF OneTarget
<1>6. Covering' /\ Removing'
    BY <1>1 DEF Covering, Removing, Done
<1> QED
    BY <1>2, <1>3, <1>4, <1>5, <1>6 DEF PlaceInv

\* BackupJson and BackupConfig.
LEMMA BackupPlaces ==
    ASSUME TypeOK, PlaceInv, BackupJson \/ BackupConfig
    PROVE  TypeOK' /\ PlaceInv'
<1>1. /\ UNCHANGED <<json, config, script, inline, stamp, read, changed, outcome,
                     now, runs, edits, edited, used, shared, replaced>>
      /\ \/ at = "backup_json" /\ at' = "backup_config"
         \/ at = "backup_config" /\ at' = IF inline THEN "read_config" ELSE "read_json"
    BY DEF BackupJson, BackupConfig, files, world, ledger
<1>2. TypeOK'
  <2>1. backups' \subseteq Name
    <3>1. \/ backups' = backups
          \/ json # Absent /\ Copy("json", json)
          \/ config # Absent /\ Copy("config", config)
      BY DEF BackupJson, BackupConfig
    <3>2. /\ backups \subseteq Name /\ stamp \in 0..MaxTime
          /\ json \in Json \cup {Absent} /\ config \in Config \cup {Absent}
      BY DEF TypeOK
    <3> QED
      BY <3>1, <3>2 DEF Copy, Name
  <2>2. at' \in {"backup_config", "read_config", "read_json"}
    BY <1>1
  <2> QED
    BY <1>1, <2>1, <2>2 DEF TypeOK
<1>3. FilesOnce'
    BY <1>1 DEF PlaceInv, FilesOnce
<1>4. ReadOnce' /\ OneTarget' /\ Covering' /\ Removing'
    BY <1>1 DEF PlaceInv, ReadOnce, OneTarget, Covering, Removing, Done
<1> QED
    BY <1>2, <1>3, <1>4 DEF PlaceInv

\* ReadJson: nothing to do, or the new file is computed from this one.
LEMMA ReadJsonPlaces ==
    ASSUME TypeOK, PlaceInv, ReadJson
    PROVE  TypeOK' /\ PlaceInv'
<1>1. /\ UNCHANGED <<json, config, backups, script, inline, stamp, changed, now, runs,
                     edits, edited, used, shared, replaced>>
      /\ at = "read_json"
    BY DEF ReadJson, files, world, ledger
<1>2. /\ json \in Json \cup {Absent} /\ Once(json)
      /\ FilesOnce /\ OneTarget
      /\ script = "install" \/ (script = "uninstall" /\ ~inline)
    BY <1>1 DEF TypeOK, PlaceInv, FilesOnce, ReadOnce
<1>3. CASE script = "install"
  <2>1. /\ ~inline /\ ~changed /\ \A e \in Events : ~Covers(config, e)
    BY <1>1, <1>2, <1>3 DEF OneTarget
  <2>2. CASE json = InstalledJson(json) /\ Leave("ok")
    <3>1. \A e \in Events : Holds(json, e)
      BY <1>2, <2>2, InstalledCovers
    <3>2. at' = "idle" /\ outcome' = "ok" /\ read' = Absent
      BY <2>2 DEF Leave
    <3>3. TypeOK'
      BY <1>1, <3>2 DEF TypeOK
    <3> QED
      BY <1>1, <1>2, <1>3, <3>1, <3>2, <3>3
         DEF PlaceInv, FilesOnce, ReadOnce, OneTarget, Covering, Removing, Done
  <2>3. CASE at' = "write_json" /\ read' = json /\ UNCHANGED outcome
    <3>1. TypeOK'
      BY <1>1, <2>3 DEF TypeOK
    <3> QED
      BY <1>1, <1>2, <1>3, <2>1, <2>3, <3>1
         DEF PlaceInv, FilesOnce, ReadOnce, OneTarget, Covering, Removing, Done
  <2> QED
    BY <1>3, <2>2, <2>3 DEF ReadJson, AfterJson, JsonAfter
<1>4. CASE script = "uninstall"
  <2>1. CASE Leave("failed")
    <3>1. at' = "idle" /\ outcome' = "failed" /\ read' = Absent
      BY <2>1 DEF Leave
    <3>2. TypeOK'
      BY <1>1, <3>1 DEF TypeOK
    <3> QED
      BY <1>1, <1>2, <1>4, <3>1, <3>2
         DEF PlaceInv, FilesOnce, ReadOnce, OneTarget, Covering, Removing, Done
  <2>2. CASE /\ at' = "read_config" /\ read' = Absent /\ UNCHANGED outcome
             /\ json = Absent \/ (json.hooks # Absent /\ json = UninstalledJson(json))
    <3>1. \A e \in Events : ~Holds(json, e)
      <4>1. CASE json = Absent
        BY <4>1 DEF Holds
      <4>2. CASE json # Absent /\ json.hooks # Absent /\ json = UninstalledJson(json)
        BY <1>2, <4>2, UninstalledRemoves
      <4> QED
        BY <2>2, <4>1, <4>2
    <3>2. TypeOK'
      BY <1>1, <2>2 DEF TypeOK
    <3> QED
      BY <1>1, <1>2, <1>4, <2>2, <3>1, <3>2
         DEF PlaceInv, FilesOnce, ReadOnce, OneTarget, Covering, Removing, Done
  <2>3. CASE /\ at' = "write_json" /\ read' = json /\ UNCHANGED outcome
             /\ json # Absent /\ json.hooks # Absent
    <3>1. TypeOK'
      BY <1>1, <2>3 DEF TypeOK
    <3> QED
      BY <1>1, <1>2, <1>4, <2>3, <3>1
         DEF PlaceInv, FilesOnce, ReadOnce, OneTarget, Covering, Removing, Done
  <2> QED
    BY <1>4, <2>1, <2>2, <2>3 DEF ReadJson, AfterJson, JsonAfter
<1> QED
    BY <1>2, <1>3, <1>4

\* WriteJson: what was computed from the file that was read replaces whatever is
\* there now.
LEMMA WriteJsonPlaces ==
    ASSUME TypeOK, PlaceInv, WriteJson
    PROVE  TypeOK' /\ PlaceInv'
<1>1. /\ UNCHANGED <<config, backups, script, inline, stamp, now, runs, edits, edited,
                     used, shared>>
      /\ at = "write_json"
    BY DEF WriteJson, world
<1>2. /\ config \in Config \cup {Absent} /\ Sound(config)
      /\ FilesOnce /\ OneTarget
      /\ script = "install" \/ (script = "uninstall" /\ ~inline)
      /\ read \in Json \cup {Absent} /\ Once(read)
      /\ script = "uninstall" => read # Absent /\ read.hooks # Absent
    BY <1>1 DEF TypeOK, PlaceInv, FilesOnce, ReadOnce
<1>3. CASE /\ script = "uninstall" /\ json = Absent
           /\ Leave("failed") /\ UNCHANGED <<json, changed, replaced>>
  <2>1. at' = "idle" /\ outcome' = "failed" /\ read' = Absent
    BY <1>3 DEF Leave
  <2>2. TypeOK'
    BY <1>1, <1>3, <2>1 DEF TypeOK
  <2> QED
    BY <1>1, <1>2, <1>3, <2>1, <2>2
       DEF PlaceInv, FilesOnce, ReadOnce, OneTarget, Covering, Removing, Done
<1>4. CASE /\ ~(script = "uninstall" /\ json = Absent)
           /\ json' = JsonAfter(read) /\ Replaces("json", json) /\ AfterJson
  <2>1. changed' = TRUE /\ replaced' \subseteq Name
    <3>1. \/ replaced' = replaced
          \/ /\ json # Absent
             /\ replaced' = replaced \cup
                               {[file |-> "json", stamp |-> stamp, content |-> json]}
      BY <1>4 DEF Replaces
    <3>2. replaced \subseteq Name /\ stamp \in 0..MaxTime /\ json \in Json \cup {Absent}
      BY DEF TypeOK
    <3>3. json # Absent => [file |-> "json", stamp |-> stamp, content |-> json] \in Name
      BY <3>2 DEF Name
    <3> QED
      BY <1>4, <3>1, <3>2, <3>3 DEF Replaces
  <2>2. CASE script = "install"
    <3>1. json' = InstalledJson(read) /\ at' = "idle" /\ outcome' = "ok" /\ read' = Absent
      BY <1>4, <2>2 DEF JsonAfter, AfterJson, Leave
    <3>2. json' \in Json /\ Once(json') /\ \A e \in Events : Holds(json', e)
      BY <1>2, <3>1, InstalledCovers
    <3>3. \A e \in Events : ~Covers(config, e)
      BY <1>1, <1>2, <2>2 DEF OneTarget
    <3>4. TypeOK'
      BY <1>1, <2>1, <3>1, <3>2 DEF TypeOK
    <3> QED
      BY <1>1, <1>2, <2>2, <3>1, <3>2, <3>3, <3>4
         DEF PlaceInv, FilesOnce, ReadOnce, OneTarget, Covering, Removing, Done
  <2>3. CASE script = "uninstall"
    <3>1. json' = UninstalledJson(read) /\ at' = "read_config" /\ read' = Absent
          /\ outcome' = outcome
      BY <1>4, <2>3 DEF JsonAfter, AfterJson
    <3>2. json' \in Json /\ Once(json') /\ \A e \in Events : ~Holds(json', e)
      BY <1>2, <2>3, <3>1, UninstalledRemoves
    <3>3. TypeOK'
      BY <1>1, <2>1, <3>1, <3>2 DEF TypeOK
    <3> QED
      BY <1>1, <1>2, <2>3, <3>1, <3>2, <3>3
         DEF PlaceInv, FilesOnce, ReadOnce, OneTarget, Covering, Removing, Done
  <2> QED
    BY <1>2, <2>2, <2>3
<1> QED
    BY <1>3, <1>4 DEF WriteJson

LEMMA ReadConfigPlaces ==
    ASSUME TypeOK, PlaceInv, ReadConfig
    PROVE  TypeOK' /\ PlaceInv'
<1>1. /\ UNCHANGED <<json, config, backups, script, inline, stamp, changed, now, runs,
                     edits, edited, used, shared, replaced>>
      /\ at = "read_config"
    BY DEF ReadConfig, files, world, ledger
<1>2. /\ config \in Config \cup {Absent} /\ Sound(config)
      /\ FilesOnce /\ OneTarget /\ Removing
      /\ script = "install" \/ (script = "uninstall" /\ ~inline)
    BY <1>1 DEF TypeOK, PlaceInv, FilesOnce, ReadOnce
<1>3. script = "install" => inline /\ ~changed
    BY <1>1, <1>2 DEF OneTarget
<1>4. CASE Leave("failed")
  <2>1. at' = "idle" /\ outcome' = "failed" /\ read' = Absent
    BY <1>4 DEF Leave
  <2>2. TypeOK'
    BY <1>1, <2>1 DEF TypeOK
  <2> QED
    BY <1>1, <1>2, <2>1, <2>2
       DEF PlaceInv, FilesOnce, ReadOnce, OneTarget, Covering, Removing, Done
<1>5. CASE /\ Leave("ok")
           /\ script = "uninstall" =>
                config = Absent \/ (config.marks # "broken" /\ ConfigAfter(config) = config)
  <2>1. at' = "idle" /\ outcome' = "ok" /\ read' = Absent
    BY <1>5 DEF Leave
  <2>2. script = "uninstall" => config = Absent \/ config.own = {}
    <3>1. SUFFICES ASSUME script = "uninstall", config # Absent
                   PROVE  config.own = {}
      OBVIOUS
    <3>2. config \in Config /\ config.marks \in {"none", "pair"}
      BY <1>2, <1>5, <3>1 DEF Config
    <3>3. CASE config.marks = "none"
      BY <1>2, <3>1, <3>3 DEF Sound
    <3>4. CASE config.marks = "pair"
      <4>1. config = UninstalledConfig(config)
        BY <1>5, <3>1, <3>4, ConfigAfterIs
      <4> QED
        BY <3>2, <4>1, UninstalledBlock
    <3> QED
      BY <3>2, <3>3, <3>4
  <2>3. TypeOK'
    BY <1>1, <2>1 DEF TypeOK
  <2> QED
    BY <1>1, <1>2, <1>3, <2>1, <2>2, <2>3
       DEF PlaceInv, FilesOnce, ReadOnce, OneTarget, Covering, Removing, Done
<1>6. CASE /\ at' = "write_config" /\ read' = config /\ UNCHANGED outcome
           /\ config # Absent /\ ConfigAfter(config) # config
  <2>1. config.marks = (IF script = "install" THEN "none" ELSE "pair")
    BY <1>2, <1>6, ConfigAfterIs
  <2>2. \A e \in Events : ~(Holds(json, e) /\ e \in config.loose)
    BY <1>2, <1>6 DEF FilesOnce, Covers
  <2>3. TypeOK'
    BY <1>1, <1>6 DEF TypeOK
  <2> QED
    BY <1>1, <1>2, <1>3, <1>6, <2>1, <2>2, <2>3
       DEF PlaceInv, FilesOnce, ReadOnce, OneTarget, Covering, Removing, Done
<1>7. \/ Leave("failed")
      \/ /\ Leave("ok")
         /\ script = "uninstall" =>
              config = Absent \/ (config.marks # "broken" /\ ConfigAfter(config) = config)
      \/ /\ at' = "write_config" /\ read' = config /\ UNCHANGED outcome
         /\ config # Absent /\ ConfigAfter(config) # config
    BY <1>2 DEF ReadConfig
<1> QED
    BY <1>4, <1>5, <1>6, <1>7

LEMMA WriteConfigPlaces ==
    ASSUME TypeOK, PlaceInv, WriteConfig
    PROVE  TypeOK' /\ PlaceInv'
<1>1. /\ UNCHANGED <<json, backups, script, inline, stamp, now, runs, edits, edited,
                     used, shared>>
      /\ at = "write_config"
    BY DEF WriteConfig, world
<1>2. /\ json \in Json \cup {Absent} /\ Once(json)
      /\ FilesOnce /\ OneTarget /\ Removing
      /\ script = "install" \/ (script = "uninstall" /\ ~inline)
      /\ read \in Config /\ Sound(read)
      /\ read.marks = (IF script = "install" THEN "none" ELSE "pair")
      /\ \A e \in Events : ~(Holds(json, e) /\ e \in read.loose)
    BY <1>1 DEF TypeOK, PlaceInv, FilesOnce, ReadOnce
<1>3. CASE Leave("failed") /\ UNCHANGED <<config, changed, replaced>>
  <2>1. at' = "idle" /\ outcome' = "failed" /\ read' = Absent
    BY <1>3 DEF Leave
  <2>2. TypeOK'
    BY <1>1, <1>3, <2>1 DEF TypeOK
  <2> QED
    BY <1>1, <1>2, <1>3, <2>1, <2>2
       DEF PlaceInv, FilesOnce, ReadOnce, OneTarget, Covering, Removing, Done
<1>4. CASE config' = ConfigAfter(read) /\ Replaces("config", config) /\ Leave("ok")
  <2>1. changed' = TRUE /\ replaced' \subseteq Name
    <3>1. \/ replaced' = replaced
          \/ /\ config # Absent
             /\ replaced' = replaced \cup
                               {[file |-> "config", stamp |-> stamp, content |-> config]}
      BY <1>4 DEF Replaces
    <3>2. replaced \subseteq Name /\ stamp \in 0..MaxTime
          /\ config \in Config \cup {Absent}
      BY DEF TypeOK
    <3>3. config # Absent =>
             [file |-> "config", stamp |-> stamp, content |-> config] \in Name
      BY <3>2 DEF Name
    <3> QED
      BY <1>4, <3>1, <3>2, <3>3 DEF Replaces
  <2>2. at' = "idle" /\ outcome' = "ok" /\ read' = Absent
    BY <1>4 DEF Leave
  <2>3. CASE script = "install"
    <3>1. config' = InstalledConfig(read)
      BY <1>2, <1>4, <2>3, ConfigAfterIs
    <3>2. config' \in Config /\ Sound(config') /\ \A e \in Events : Covers(config', e)
      BY <1>2, <2>3, <3>1, InstalledBlock
    <3>3. \A e \in Events : ~Holds(json, e)
      BY <1>1, <1>2, <2>3 DEF OneTarget
    <3>4. TypeOK'
      BY <1>1, <2>1, <2>2, <3>2 DEF TypeOK
    <3> QED
      BY <1>1, <1>2, <2>2, <2>3, <3>2, <3>3, <3>4
         DEF PlaceInv, FilesOnce, ReadOnce, OneTarget, Covering, Removing, Done
  <2>4. CASE script = "uninstall"
    <3>1. config' = UninstalledConfig(read)
      BY <1>2, <1>4, <2>4, ConfigAfterIs
    <3>2. /\ config' \in Config /\ Sound(config') /\ config'.own = {}
          /\ config'.loose = read.loose
      BY <1>2, <3>1, UninstalledBlock
    <3>3. \A e \in Events : ~(Holds(json, e) /\ Covers(config', e))
      BY <1>2, <3>2 DEF Covers
    <3>4. TypeOK'
      BY <1>1, <2>1, <2>2, <3>2 DEF TypeOK
    <3> QED
      BY <1>1, <1>2, <2>2, <2>4, <3>2, <3>3, <3>4
         DEF PlaceInv, FilesOnce, ReadOnce, OneTarget, Covering, Removing, Done
  <2> QED
    BY <1>2, <2>3, <2>4
<1> QED
    BY <1>3, <1>4 DEF WriteConfig

LEMMA KilledPlaces ==
    ASSUME TypeOK, PlaceInv, Killed
    PROVE  TypeOK' /\ PlaceInv'
<1>1. /\ UNCHANGED <<json, config, backups, script, inline, stamp, changed, now, runs,
                     edits, edited, used, shared, replaced>>
      /\ at' = "idle" /\ outcome' = "killed" /\ read' = Absent
    BY DEF Killed, Leave, files, world, ledger
<1>2. TypeOK'
    BY <1>1 DEF TypeOK
<1> QED
    BY <1>1, <1>2 DEF PlaceInv, FilesOnce, ReadOnce, OneTarget, Covering, Removing, Done

LEMMA TickPlaces ==
    ASSUME TypeOK, PlaceInv, Tick
    PROVE  TypeOK' /\ PlaceInv'
<1>1. /\ UNCHANGED <<json, config, backups, script, at, inline, stamp, read, changed,
                     outcome, runs, edits, edited, used, shared, replaced>>
      /\ now < MaxTime /\ now' = now + 1
    BY DEF Tick, files, local, ledger
<1>2. now' \in 0..MaxTime
    BY <1>1, HookLayerAssumption DEF TypeOK
<1>3. TypeOK'
    BY <1>1, <1>2 DEF TypeOK
<1> QED
    BY <1>1, <1>3 DEF PlaceInv, FilesOnce, ReadOnce, OneTarget, Covering, Removing, Done

\* An edit may take the handler away but never adds it.
LEMMA EditPlaces ==
    ASSUME TypeOK, PlaceInv, NEW name \in {"json", "config"}, Edit(name),
           /\ json' \in Json \cup {Absent} /\ Once(json')
           /\ \A e \in Events : Holds(json', e) => Holds(json, e)
           /\ name = "config" => json' = json,
           /\ config' \in Config \cup {Absent} /\ Sound(config')
           /\ \A e \in Events : Covers(config', e) => Covers(config, e)
    PROVE  TypeOK' /\ PlaceInv'
<1>1. /\ UNCHANGED <<backups, script, at, inline, stamp, read, changed, outcome, now,
                     runs, used, shared, replaced>>
      /\ edits < MaxEdits /\ edits' = edits + 1 /\ edited' = edited \cup {name}
    BY DEF Edit, local, ledger
<1>2. edits' \in 0..MaxEdits /\ edited' \subseteq {"json", "config"}
    BY <1>1, HookLayerAssumption DEF TypeOK
<1>3. TypeOK'
    BY <1>1, <1>2 DEF TypeOK
<1>4. FilesOnce' /\ ReadOnce' /\ OneTarget'
    BY <1>1 DEF PlaceInv, FilesOnce, ReadOnce, OneTarget
<1>5. ~Done("install")' /\ ~Done("uninstall")'
    BY <1>1 DEF Done
<1>6. Covering' /\ Removing'
    BY <1>1, <1>5 DEF PlaceInv, Covering, Removing
<1> QED
    BY <1>3, <1>4, <1>6 DEF PlaceInv

LEMMA JoinedGroups ==
    ASSUME NEW j \in Json, j.hooks # Absent, Once(j), NEW x \in Events, NEW h \in Others,
           NEW k, k = [j EXCEPT !.hooks[x] =
                         [i \in DOMAIN @ |-> IF Ours \in @[i] THEN @[i] \cup {h} ELSE @[i]]]
    PROVE  /\ k \in Json /\ Once(k)
           /\ \A e \in Events : Holds(k, e) => Holds(j, e)
<1> DEFINE t == j.hooks
           g == [i \in DOMAIN t[x] |-> IF Ours \in t[x][i] THEN t[x][i] \cup {h} ELSE t[x][i]]
           u == [t EXCEPT ![x] = g]
<1>1. t \in HookTable /\ \A e \in Events : t[e] \in Seq(Group)
    BY Tables DEF HookTable
<1>2. k = [hooks |-> u]
    BY DEF Json
<1>3. g \in Seq(Group)
  <2>1. \A i \in 1..Len(t[x]) : t[x][i] \in Group /\ t[x][i] \cup {h} \in Group
    BY <1>1 DEF Group
  <2>2. DOMAIN t[x] = 1..Len(t[x]) /\ Len(t[x]) \in Nat
    BY <1>1
  <2>3. \A i \in 1..Len(t[x]) : g[i] \in Group
    BY <2>1, <2>2
  <2>4. g = [i \in 1..Len(t[x]) |-> g[i]]
    BY <2>2
  <2> HIDE DEF g
  <2> QED
    BY <2>2, <2>3, <2>4
<1>4. DOMAIN g = DOMAIN t[x] /\ \A i \in DOMAIN g : Ours \in g[i] <=> Ours \in t[x][i]
    BY Distinct
<1>5. \A e \in Events : u[e] = IF e = x THEN g ELSE t[e]
    BY <1>1 DEF HookTable
<1> HIDE DEF g
<1>6. u \in HookTable
    BY <1>1, <1>3 DEF HookTable
<1> HIDE DEF u
<1>7. \A e \in Events :
          DOMAIN u[e] = DOMAIN t[e] /\ \A i \in DOMAIN u[e] : Ours \in u[e][i] <=> Ours \in t[e][i]
    BY <1>4, <1>5
<1>8. k \in Json /\ k # Absent /\ k.hooks # Absent /\ k.hooks = u
  <2>1. [hooks |-> u] \in Json /\ [hooks |-> u] # Absent /\ [hooks |-> u].hooks # Absent
    BY <1>6, Tables
  <2>2. [hooks |-> u].hooks = u
    OBVIOUS
  <2> QED
    BY <1>2, <2>1, <2>2
<1>9. j # Absent
    BY Distinct
<1> QED
    BY <1>7, <1>8, <1>9 DEF Once, Holds

LEMMA ClearedEvent ==
    ASSUME NEW j \in Json, j.hooks # Absent, Once(j), NEW x \in Events,
           NEW k, k = [j EXCEPT !.hooks[x] = <<>>]
    PROVE  /\ k \in Json /\ Once(k)
           /\ \A e \in Events : Holds(k, e) => Holds(j, e)
<1> DEFINE t == j.hooks
           u == [t EXCEPT ![x] = <<>>]
<1>1. t \in HookTable
    BY Tables
<1>2. k = [hooks |-> u]
    BY DEF Json
<1>3. \A e \in Events : u[e] = IF e = x THEN <<>> ELSE t[e]
    BY <1>1 DEF HookTable
<1>4. u \in HookTable
  <2>1. <<>> \in Seq(Group)
    OBVIOUS
  <2> QED
    BY <1>1, <2>1 DEF HookTable
<1> HIDE DEF u
<1>5. k \in Json /\ k # Absent /\ k.hooks # Absent /\ k.hooks = u
  <2>1. [hooks |-> u] \in Json /\ [hooks |-> u] # Absent /\ [hooks |-> u].hooks # Absent
    BY <1>4, Tables
  <2>2. [hooks |-> u].hooks = u
    OBVIOUS
  <2> QED
    BY <1>2, <2>1, <2>2
<1>6. j # Absent /\ DOMAIN <<>> = {}
    BY Distinct
<1> QED
    BY <1>3, <1>5, <1>6 DEF Once, Holds

LEMMA EditedBlock ==
    ASSUME config \in Config, Sound(config), EditBlock
    PROVE  /\ config' \in Config /\ Sound(config')
           /\ \A e \in Events : Covers(config', e) => Covers(config, e)
<1>1. config.marks = "pair" /\ config # Absent
    BY DEF EditBlock
<1>2. CASE config' = [config EXCEPT !.marks = "broken"]
    BY <1>1, <1>2 DEF Config, Sound, Covers
<1>3. CASE config' = [config EXCEPT !.guest = TRUE]
    BY <1>1, <1>3 DEF Config, Sound, Covers
<1>4. CASE config' = [config EXCEPT !.marks = "none", !.own = {}, !.guest = FALSE,
                                    !.loose = @ \cup config.own]
    BY <1>1, <1>4 DEF Config, Sound, Covers
<1>5. CASE \E e \in config.own : config' = [config EXCEPT !.own = @ \ {e}]
    BY <1>1, <1>5 DEF Config, Sound, Covers
<1>6. CASE \E e \in config.inline : config' = [config EXCEPT !.inline = @ \ {e}]
    BY <1>1, <1>6 DEF Config, Sound, Covers
<1> QED
    BY <1>2, <1>3, <1>4, <1>5, <1>6 DEF EditBlock

LEMMA NextPlaces == TypeOK /\ PlaceInv /\ [Next]_vars => TypeOK' /\ PlaceInv'
<1> SUFFICES ASSUME TypeOK, PlaceInv, [Next]_vars PROVE TypeOK' /\ PlaceInv'
    OBVIOUS
<1>1. /\ json \in Json \cup {Absent} /\ Once(json)
      /\ config \in Config \cup {Absent} /\ Sound(config)
    BY DEF TypeOK, PlaceInv, FilesOnce
<1>2. CASE Script
    BY <1>2, BeginPlaces, BackupPlaces, ReadJsonPlaces, WriteJsonPlaces,
       ReadConfigPlaces, WriteConfigPlaces DEF Script
<1>3. CASE Killed
    BY <1>3, KilledPlaces
<1>4. CASE Tick
    BY <1>4, TickPlaces
<1>5. CASE \E j \in UserJson : RewriteJson(j)
  <2>1. PICK j \in UserJson : Edit("json") /\ json' = j /\ UNCHANGED config
    BY <1>5 DEF RewriteJson
  <2>2. json' \in Json \cup {Absent} /\ Once(json') /\ \A e \in Events : ~Holds(json', e)
    BY <2>1, UserFiles
  <2> QED
    BY <1>1, <2>1, <2>2, EditPlaces
<1>6. CASE \E c \in UserConfig : RewriteConfig(c)
  <2>1. PICK c \in UserConfig : Edit("config") /\ config' = c /\ UNCHANGED json
    BY <1>6 DEF RewriteConfig
  <2>2. /\ config' \in Config \cup {Absent} /\ Sound(config')
        /\ \A e \in Events : ~Covers(config', e)
    BY <2>1, UserFiles
  <2> QED
    BY <1>1, <2>1, <2>2, EditPlaces
<1>7. CASE \E e \in Events, h \in Others : JoinGroup(e, h)
  <2>1. PICK x \in Events, h \in Others : JoinGroup(x, h)
    BY <1>7
  <2>2. /\ json \in Json /\ json.hooks # Absent /\ Edit("json") /\ UNCHANGED config
    BY <1>1, <2>1 DEF JoinGroup
  <2>3. json' = [json EXCEPT !.hooks[x] =
                   [i \in DOMAIN @ |-> IF Ours \in @[i] THEN @[i] \cup {h} ELSE @[i]]]
    BY <2>1 DEF JoinGroup
  <2>4. /\ json' \in Json /\ Once(json')
        /\ \A e \in Events : Holds(json', e) => Holds(json, e)
    BY <1>1, <2>2, <2>3, JoinedGroups
  <2> QED
    BY <1>1, <2>2, <2>4, EditPlaces
<1>8. CASE \E e \in Events : ClearEvent(e)
  <2>1. PICK x \in Events : ClearEvent(x)
    BY <1>8
  <2>2. /\ json \in Json /\ json.hooks # Absent /\ Edit("json") /\ UNCHANGED config
        /\ json' = [json EXCEPT !.hooks[x] = <<>>]
    BY <1>1, <2>1 DEF ClearEvent
  <2>3. /\ json' \in Json /\ Once(json')
        /\ \A e \in Events : Holds(json', e) => Holds(json, e)
    BY <1>1, <2>2, ClearedEvent
  <2> QED
    BY <1>1, <2>2, <2>3, EditPlaces
<1>9. CASE EditBlock
  <2>1. config \in Config /\ Edit("config") /\ UNCHANGED json
    BY <1>1, <1>9 DEF EditBlock
  <2>2. /\ config' \in Config /\ Sound(config')
        /\ \A e \in Events : Covers(config', e) => Covers(config, e)
    BY <1>1, <1>9, <2>1, EditedBlock
  <2> QED
    BY <1>1, <2>1, <2>2, EditPlaces
<1>10. CASE UNCHANGED vars
  <2>1. UNCHANGED <<json, config, backups, script, at, inline, stamp, read, changed,
                    outcome, now, runs, edits, edited, used, shared, replaced>>
    BY <1>10 DEF vars, files, local, world, ledger
  <2>2. TypeOK'
    BY <2>1 DEF TypeOK
  <2> QED
    BY <2>1, <2>2 DEF PlaceInv, FilesOnce, ReadOnce, OneTarget, Covering, Removing, Done
<1> QED
    BY <1>2, <1>3, <1>4, <1>5, <1>6, <1>7, <1>8, <1>9, <1>10 DEF Next
-----------------------------------------------------------------------------
\* A set whose elements are all the same has one or none.
LEMMA CountOfOne ==
    ASSUME NEW S, \A x, y \in S : x = y
    PROVE  Cardinality(S) = IF S = {} THEN 0 ELSE 1
<1>1. CASE S = {}
    BY <1>1, FS_EmptySet
<1>2. CASE S # {}
  <2>1. PICK x \in S : TRUE
    BY <1>2
  <2>2. S = {x}
    BY <2>1
  <2> QED
    BY <1>2, <2>2, FS_Singleton
<1> QED
    BY <1>1, <1>2

LEMMA OwnCounts ==
    ASSUME TypeOK, FilesOnce, NEW e \in Events
    PROVE  /\ OwnInJson(e) = IF Holds(json, e) THEN 1 ELSE 0
           /\ OwnInConfig(e) = IF Covers(config, e) THEN 1 ELSE 0
<1>1. OwnInJson(e) = IF Holds(json, e) THEN 1 ELSE 0
  <2>1. CASE json = Absent \/ json.hooks = Absent
    BY <2>1 DEF OwnInJson, Holds
  <2>2. CASE json # Absent /\ json.hooks # Absent
    <3> DEFINE S == {i \in DOMAIN json.hooks[e] : Ours \in json.hooks[e][i]}
    <3>1. \A i, k \in S : i = k
      BY <2>2 DEF FilesOnce, Once
    <3>2. Holds(json, e) <=> S # {}
      BY <2>2 DEF Holds
    <3>3. OwnInJson(e) = Cardinality(S)
      BY <2>2 DEF OwnInJson
    <3> HIDE DEF S
    <3> QED
      BY <3>1, <3>2, <3>3, CountOfOne
  <2> QED
    BY <2>1, <2>2
<1>2. OwnInConfig(e) = IF Covers(config, e) THEN 1 ELSE 0
  <2>1. CASE config = Absent
    BY <2>1 DEF OwnInConfig, Covers
  <2>2. CASE config # Absent
    <3> DEFINE S == {part \in {"own", "loose"} : e \in config[part]}
    <3>1. config \in Config /\ config.own \cap config.loose = {}
      BY <2>2 DEF TypeOK, FilesOnce, Sound
    <3>2. config["own"] = config.own /\ config["loose"] = config.loose
      OBVIOUS
    <3>3. ~("own" \in S /\ "loose" \in S) /\ S \subseteq {"own", "loose"}
      BY <3>1, <3>2
    <3>4. Covers(config, e) <=> S # {}
      BY <2>2, <3>2 DEF Covers
    <3>5. OwnInConfig(e) = Cardinality(S)
      BY <2>2 DEF OwnInConfig
    <3> HIDE DEF S
    <3> QED
      BY <3>3, <3>4, <3>5, CountOfOne
  <2> QED
    BY <2>1, <2>2
<1> QED
    BY <1>1, <1>2

\* The inductive invariant of the handler's place, and the type invariant.
THEOREM PlaceHolds == Spec => [](TypeOK /\ PlaceInv)
BY InitPlaces, NextPlaces, PTL DEF Spec

\* Every file is one that Codex can read, whatever was killed or edited; every
\* backup has a second of the clock in its name.
THEOREM TypeCorrect == Spec => []TypeOK
BY PlaceHolds, PTL

\* Codex never runs the handler twice for one event: has_command keeps it from
\* being added twice to a file, the refusal of mixed layers keeps it out of the
\* second file (install_json, inline_missing, main of install-hooks.py).
THEOREM NeverTwice == Spec => []NoHandlerTwice
<1>1. TypeOK /\ PlaceInv => NoHandlerTwice
    BY OwnCounts DEF PlaceInv, FilesOnce, NoHandlerTwice
<1> QED
    BY <1>1, PlaceHolds, PTL

\* An installation that ended well is complete, whatever was there before,
\* killed halves of other runs too, unless it found a block.
THEOREM InstallationCovers == Spec => []InstallCovers
<1>1. TypeOK /\ PlaceInv => InstallCovers
  <2> SUFFICES ASSUME TypeOK, PlaceInv, Done("install"), changed \/ ~inline,
                      NEW e \in Events
               PROVE  OwnInJson(e) + OwnInConfig(e) = 1
    BY DEF InstallCovers
  <2>1. Holds(json, e) \/ Covers(config, e)
    BY DEF PlaceInv, Covering
  <2>2. FilesOnce /\ ~(Holds(json, e) /\ Covers(config, e))
    BY DEF PlaceInv, FilesOnce
  <2> QED
    BY <2>1, <2>2, OwnCounts
<1> QED
    BY <1>1, PlaceHolds, PTL

\* A removal that ended well left no handler in hooks.json and none in a block
\* (uninstall_json, remove_handler and uninstall_inline).
THEOREM RemovalRemovesAll == Spec => []UninstallRemovesAll
<1>1. TypeOK /\ PlaceInv => UninstallRemovesAll
  <2> SUFFICES ASSUME TypeOK, PlaceInv, Done("uninstall"), NEW e \in Events
               PROVE  OwnInJson(e) = 0 /\ (OwnInConfig(e) = 0 \/ e \in config.loose)
    BY DEF UninstallRemovesAll
  <2>1. ~Holds(json, e)
    BY DEF PlaceInv, Removing, Done
  <2>2. config = Absent \/ config.own = {}
    BY DEF PlaceInv, Removing
  <2>3. Covers(config, e) => e \in config.loose
    BY <2>2 DEF Covers
  <2> QED
    BY <2>1, <2>3, OwnCounts DEF PlaceInv
<1> QED
    BY <1>1, PlaceHolds, PTL

\* What others have in a file that was not edited between reading and replacing
\* stays: every group of hooks.json with its handlers and in its order, and
\* everything outside of the block.
THEOREM ForeignStays == Spec => ForeignKept
<1> DEFINE Stays ==
        ByScript =>
         /\ json' # json /\ json = read => Foreign(json') = Foreign(json)
         /\ config' # config /\ config = read =>
               config'.inline = config.inline /\ config'.loose = config.loose
<1>1. TypeOK /\ PlaceInv /\ [Next]_vars => Stays
  <2> SUFFICES ASSUME TypeOK, PlaceInv, [Next]_vars, edits' = edits PROVE Stays
    BY DEF ByScript
  <2>1. \/ UNCHANGED <<json, config>>
        \/ WriteJson /\ UNCHANGED config
        \/ WriteConfig /\ UNCHANGED json
    <3>1. edits' # edits + 1
      BY DEF TypeOK
    <3>2. \A name : ~Edit(name)
      BY <3>1 DEF Edit
    <3> QED
      BY <3>2 DEF Next, Script, Install, Uninstall, Begin, BackupJson, BackupConfig,
         ReadJson, ReadConfig, WriteJson, WriteConfig, Killed, Tick, RewriteJson,
         RewriteConfig, JoinGroup, ClearEvent, EditBlock, vars, files
  <2>2. CASE WriteJson /\ UNCHANGED config
    <3> SUFFICES ASSUME json' # json, json = read PROVE Foreign(json') = Foreign(json)
      BY <2>2
    <3>1. /\ json \in Json \cup {Absent}
          /\ script = "install" \/ script = "uninstall"
          /\ script = "uninstall" => json \in Json /\ json.hooks # Absent
      BY <2>2 DEF WriteJson, TypeOK, PlaceInv, ReadOnce
    <3>2. json' = JsonAfter(json)
      BY <2>2 DEF WriteJson
    <3>3. CASE script = "install"
      BY <3>1, <3>2, <3>3, InstalledKeepsForeign DEF JsonAfter
    <3>4. CASE script = "uninstall"
      BY <3>1, <3>2, <3>4, UninstalledKeepsForeign DEF JsonAfter
    <3> QED
      BY <3>1, <3>3, <3>4
  <2>3. CASE WriteConfig /\ UNCHANGED json
    <3> SUFFICES ASSUME config' # config, config = read
                 PROVE  config'.inline = config.inline /\ config'.loose = config.loose
      BY <2>3
    <3>1. /\ config \in Config /\ Sound(config)
          /\ script = "install" \/ script = "uninstall"
          /\ config.marks = (IF script = "install" THEN "none" ELSE "pair")
      BY <2>3 DEF WriteConfig, PlaceInv, ReadOnce
    <3>2. config' = ConfigAfter(config)
      BY <2>3 DEF WriteConfig
    <3>3. CASE script = "install"
      BY <3>1, <3>2, <3>3, ConfigAfterIs, InstalledBlock
    <3>4. CASE script = "uninstall"
      BY <3>1, <3>2, <3>4, ConfigAfterIs, UninstalledBlock
    <3> QED
      BY <3>1, <3>3, <3>4
  <2> QED
    BY <2>1, <2>2, <2>3
<1> QED
    BY <1>1, PlaceHolds, PTL DEF Spec, ForeignKept
=============================================================================
