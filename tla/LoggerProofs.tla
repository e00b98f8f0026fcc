---------------------------- MODULE LoggerProofs ----------------------------
(***************************************************************************)
(* Theorems about Logger, for any sizes and numbers: the types, that the   *)
(* number of files stays limited, and which lines the files hold.          *)
(***************************************************************************)
EXTENDS Logger, SequenceLemmas, FiniteSetTheorems

USE LoggerAssumption

File == [lines : Seq(1 .. logged), time : 0 .. now]

(* The writer's file has the greatest name of all, and a file of a greater *)
(* name was not written to before one of a smaller name.                   *)
NameInv ==
  /\ current <= Second
  /\ \A f \in DOMAIN files : f <= current
  /\ \A f, g \in DOMAIN files : f < g => files[f].time <= files[g].time

(* How many files there are between two purges.                            *)
Bound ==
  MaxBackupFiles + 2 * (starts - 1) + deletes
    + (IF tied THEN 1 ELSE 0) + (IF failed THEN 1 ELSE 0)

(* The current file counts as there even if it is not, for it is opened    *)
(* again; that of a rotation comes on top until the purge is done, and     *)
(* what the purge does not find any more had been counted.                 *)
CountInv ==
  MaxBackupFiles > 0 =>
    /\ current \notin DOMAIN files => MaxBackupFiles < Bound
    /\ pc \notin {"list", "purge"} =>
         Cardinality(DOMAIN files) <= IF current \in DOMAIN files THEN Bound ELSE Bound - 1
    /\ pc = "list" => Cardinality(DOMAIN files) <= Bound + 1
    /\ pc = "purge" =>
         /\ DOMAIN files \subseteq listed
         /\ Cardinality(listed) <= IF listed \subseteq DOMAIN files THEN Bound + 1 ELSE Bound

(* The lines up to Done were tried, the batch has the next ones, and the   *)
(* queue those after it up to the last.                                    *)
Done == logged - Len(logQueue) - Len(batch)

LineInv ==
  /\ ~async => logQueue = <<>>
  /\ batch # <<>> <=> pc \in {"exists", "size", "list", "purge", "put"}
  /\ pc \in {"list", "purge"} => MaxBackupFiles > 0
  /\ Done >= 0
  /\ \A i \in DOMAIN logQueue : logQueue[i] = logged - Len(logQueue) + i
  /\ \A i \in DOMAIN batch : batch[i] = Done + i
  /\ lost \subseteq 1 .. Done
  /\ OnDisk \subseteq 1 .. Done

(* The files read by name have ascending lines, up to those tried, and     *)
(* without the lost ones and those before the first there is no other.     *)
Holds(f) == Range(files[f].lines)

OrderInv ==
  /\ \A f \in DOMAIN files : \A i, j \in DOMAIN files[f].lines :
       i < j => files[f].lines[i] < files[f].lines[j]
  /\ \A f, g \in DOMAIN files : f < g => \A m \in Holds(f), n \in Holds(g) : m < n
  /\ OnDisk \cap lost = {}
  /\ \A m \in OnDisk, n \in 1 .. Done : m < n => n \in OnDisk \cup lost

(* The last line tried is in a file, which is the newest but for the one   *)
(* just opened, or was lost, or is removed if only one file is kept.       *)
LastInv ==
  Done > 0 =>
    /\ ~(MaxBackupFiles = 1 /\ pc = "put") => Done \in OnDisk \cup lost
    /\ pc \in {"list", "purge"} =>
         \/ Done \in lost
         \/ \E g \in DOMAIN files : /\ Done \in Holds(g)
                                    /\ \A f \in DOMAIN files : f > g => f = current

DiskInv == ~tied => OrderInv /\ LastInv

IInv == TypeOK /\ NameInv /\ CountInv /\ LineInv /\ DiskInv
-----------------------------------------------------------------------------
(***************************************************************************)
(* The operators of the model.                                             *)
(***************************************************************************)
LEMMA Seconds ==
  ASSUME NEW a \in Nat, NEW b \in Nat, a <= b, NEW t \in Nat \ {0}
  PROVE  a \div t \in Nat /\ a \div t <= b \div t
OBVIOUS

LEMMA SecondIsName ==
  ASSUME TypeOK
  PROVE  Second \in Names /\ Names \subseteq Nat /\ IsFiniteSet(Names)
<1>1. now \in Nat /\ now <= MaxTicks /\ MaxTicks \in Nat /\ TicksPerSecond \in Nat \ {0}
  BY DEF TypeOK
<1>2. Second \in Nat /\ Second <= MaxTicks \div TicksPerSecond
  BY <1>1, Seconds DEF Second
<1>3. MaxTicks \div TicksPerSecond \in Nat
  BY <1>1, Seconds
<1>4. IsFiniteSet(Names)
  BY <1>3, FS_Interval DEF Names
<1> QED BY <1>2, <1>3, <1>4 DEF Names

(* Opening a file adds it if it is not there, at the present, and leaves   *)
(* the others alone (openCurrentLogFile()).                                *)
LEMMA OpenedFiles ==
  ASSUME TypeOK, NEW n \in Names
  PROVE  /\ DOMAIN Opened(n) = DOMAIN files \cup {n}
         /\ Opened(n) \in [DOMAIN files \cup {n} -> File]
         /\ \A g \in DOMAIN files : Opened(n)[g] = files[g]
         /\ n \notin DOMAIN files => Opened(n)[n].time = now
<1>1. files \in [DOMAIN files -> File] /\ now \in Nat /\ logged \in Nat
  BY DEF TypeOK, File
<1>2. [lines |-> <<>>, time |-> now] \in File
  BY <1>1 DEF File
<1> QED BY <1>1, <1>2 DEF Opened

(* The directory is the same, or the file is opened.                       *)
LEMMA OpenedOrNot ==
  ASSUME TypeOK, NEW n \in Names, OpenCurrentLogFile(n)
  PROVE  /\ \/ files' = Opened(n) /\ failed' = failed
            \/ files' = files /\ open' = FALSE /\ failed' = TRUE
         /\ open' \in BOOLEAN /\ failed' \in BOOLEAN
         /\ open' => n \in DOMAIN files'
         /\ DOMAIN files' \subseteq Names
         /\ files' \in [DOMAIN files' -> File]
<1>1. CASE files' = Opened(n) /\ open' = TRUE /\ failed' = failed
  <2>1. /\ DOMAIN Opened(n) = DOMAIN files \cup {n}
        /\ Opened(n) \in [DOMAIN files \cup {n} -> File]
    BY OpenedFiles
  <2> QED BY <1>1, <2>1 DEF TypeOK
<1>2. CASE files' = files /\ open' = FALSE /\ failed' = TRUE
  BY <1>2 DEF TypeOK, File
<1> QED BY <1>1, <1>2 DEF OpenCurrentLogFile

(* A file that is opened under the greatest name keeps the files in order. *)
LEMMA OpenedInOrder ==
  ASSUME TypeOK, NameInv, NEW n \in Names, \A f \in DOMAIN files : f <= n
  PROVE  /\ \A f \in DOMAIN Opened(n) : f <= n
         /\ \A f, g \in DOMAIN Opened(n) : f < g => Opened(n)[f].time <= Opened(n)[g].time
<1>1. n \in Nat /\ DOMAIN files \subseteq Nat
  BY SecondIsName DEF TypeOK
<1>2. \A f \in DOMAIN files : files[f].time <= now
  BY DEF TypeOK
<1>o. /\ DOMAIN Opened(n) = DOMAIN files \cup {n}
      /\ \A g \in DOMAIN files : Opened(n)[g] = files[g]
      /\ n \notin DOMAIN files => Opened(n)[n].time = now
  BY OpenedFiles
<1>3. \A f \in DOMAIN Opened(n) : f <= n
  BY <1>1, <1>o
<1>4. ASSUME NEW f \in DOMAIN Opened(n), NEW g \in DOMAIN Opened(n), f < g
      PROVE  Opened(n)[f].time <= Opened(n)[g].time
  <2>1. f \in DOMAIN files
    BY <1>1, <1>3, <1>4, <1>o
  <2>2. CASE g \in DOMAIN files
    BY <1>4, <1>o, <2>1, <2>2 DEF NameInv
  <2>3. CASE g \notin DOMAIN files
    BY <1>2, <1>o, <2>1, <2>3
  <2> QED BY <2>2, <2>3
<1> QED BY <1>3, <1>4

LEMMA WithoutFiles ==
  ASSUME TypeOK, NEW F
  PROVE  /\ DOMAIN Without(F) = DOMAIN files \ F
         /\ Without(F) \in [DOMAIN files \ F -> File]
         /\ \A g \in DOMAIN files \ F : Without(F)[g] = files[g]
BY DEF TypeOK, File, Without

(* The directory is finite, and how its size changes.                      *)
LEMMA DirectorySize ==
  ASSUME TypeOK
  PROVE  /\ IsFiniteSet(DOMAIN files) /\ Cardinality(DOMAIN files) \in Nat
         /\ IsFiniteSet(listed) /\ Cardinality(listed) \in Nat
         /\ \A n : Cardinality(DOMAIN files \cup {n}) =
                     IF n \in DOMAIN files THEN Cardinality(DOMAIN files)
                       ELSE Cardinality(DOMAIN files) + 1
         /\ \A n : Cardinality(DOMAIN files \ {n}) =
                     IF n \in DOMAIN files THEN Cardinality(DOMAIN files) - 1
                       ELSE Cardinality(DOMAIN files)
<1>1. IsFiniteSet(DOMAIN files) /\ IsFiniteSet(listed)
  BY SecondIsName, FS_Subset DEF TypeOK
<1> QED BY <1>1, FS_CardinalityType, FS_AddElement, FS_RemoveElement

LEMMA BoundType ==
  ASSUME TypeOK
  PROVE  Bound \in Nat /\ MaxBackupFiles <= Bound /\ (failed => MaxBackupFiles < Bound)
<1>1. /\ starts \in Nat \ {0} /\ deletes \in Nat /\ MaxBackupFiles \in Nat
      /\ tied \in BOOLEAN /\ failed \in BOOLEAN
  BY DEF TypeOK
<1> QED BY <1>1 DEF Bound

(* With nothing but an open or a write that failed the bound does not sink.*)
LEMMA BoundGrows ==
  ASSUME TypeOK, starts' = starts, deletes' = deletes, tied' = tied, failed' \in {failed, TRUE}
  PROVE  Bound' \in Nat /\ Bound <= Bound' /\ (failed' => MaxBackupFiles < Bound')
<1>1. /\ starts \in Nat \ {0} /\ deletes \in Nat /\ MaxBackupFiles \in Nat
      /\ tied \in BOOLEAN /\ failed \in BOOLEAN
  BY DEF TypeOK
<1> DEFINE base == MaxBackupFiles + 2 * (starts - 1) + deletes + (IF tied THEN 1 ELSE 0)
<1>2. base \in Nat /\ MaxBackupFiles <= base
  BY <1>1
<1>3. Bound = base + (IF failed THEN 1 ELSE 0) /\ Bound' = base + (IF failed' THEN 1 ELSE 0)
  BY DEF Bound
<1> HIDE DEF base
<1>4. CASE failed' = failed
  BY <1>1, <1>2, <1>3, <1>4
<1>5. CASE failed' = TRUE
  BY <1>1, <1>2, <1>3, <1>5
<1> QED BY <1>4, <1>5
-----------------------------------------------------------------------------
(***************************************************************************)
(* The initial states.                                                     *)
(***************************************************************************)
LEMMA InitHolds == Init => IInv
<1> SUFFICES ASSUME Init PROVE IInv
  OBVIOUS
<1>1. TypeOK
  <2>1. 0 \in Names
    <3>1. MaxTicks \div TicksPerSecond \in Nat
      <4>1. MaxTicks \in Nat /\ TicksPerSecond \in Nat \ {0} /\ MaxTicks <= MaxTicks
        OBVIOUS
      <4> QED BY <4>1, Seconds
    <3> QED BY <3>1 DEF Names
  <2>2. files \in [DOMAIN files -> [lines : Seq(1 .. logged), time : 0 .. now]] /\ DOMAIN files \subseteq {0}
    BY DEF Init
  <2>3. lost \subseteq 1 .. logged /\ listed \subseteq Names
    BY DEF Init
  <2>4. /\ logged \in 0 .. MaxLines /\ tied \in BOOLEAN /\ now \in 0 .. MaxTicks
        /\ starts \in 1 .. MaxStarts /\ deletes \in 0 .. MaxDeletes
    <3>1. MaxStarts \in Nat \ {0} /\ MaxLines \in Nat /\ MaxTicks \in Nat /\ MaxDeletes \in Nat
      OBVIOUS
    <3>2. 0 \in 0 .. MaxLines /\ 0 \in 0 .. MaxTicks /\ 0 \in 0 .. MaxDeletes /\ 1 \in 1 .. MaxStarts
      BY <3>1
    <3> QED BY <3>2 DEF Init
  <2>5. /\ logQueue \in Seq(1 .. logged) /\ batch \in Seq(1 .. logged)
        /\ pc \in {"idle", "asleep", "exists", "size", "list", "purge", "put", "ended"}
        /\ current \in Names /\ open \in BOOLEAN /\ failed \in BOOLEAN
        /\ open => current \in DOMAIN files
    BY <2>1 DEF Init
  <2>6. DOMAIN files \subseteq Names /\ async \in BOOLEAN
    BY <2>1, <2>2 DEF Init
  <2> QED BY <2>2, <2>3, <2>4, <2>5, <2>6 DEF TypeOK
<1>2. NameInv
  BY DEF Init, NameInv, Second
<1>3. CountInv
  <2>1. /\ DOMAIN files = (IF open THEN {0} ELSE {}) /\ open \in BOOLEAN /\ failed = ~open
        /\ current = 0 /\ pc = "idle" /\ starts = 1 /\ deletes = 0 /\ tied = FALSE
    BY DEF Init
  <2>2. MaxBackupFiles \in Nat
    OBVIOUS
  <2>3. CASE open
    <3>1. DOMAIN files = {0} /\ failed = FALSE
      BY <2>1, <2>3
    <3>2. Cardinality(DOMAIN files) = 1
      BY <3>1, FS_Singleton
    <3> QED BY <2>1, <2>2, <3>1, <3>2 DEF CountInv, Bound
  <2>4. CASE ~open
    <3>1. DOMAIN files = {} /\ failed = TRUE
      BY <2>1, <2>4
    <3>2. Cardinality(DOMAIN files) = 0
      BY <3>1, FS_EmptySet
    <3> QED BY <2>1, <2>2, <3>1, <3>2 DEF CountInv, Bound
  <2> QED BY <2>1, <2>3, <2>4
<1>d. OnDisk = {}
  BY DEF Init, OnDisk, Range
<1>4. LineInv
  <2>1. Len(<<>>) = 0
    OBVIOUS
  <2> QED BY <1>d, <2>1 DEF Init, LineInv, Done
<1>5. DiskInv
  <2>2. Done = 0
    <3>1. logged = 0 /\ Len(logQueue) = 0 /\ Len(batch) = 0
      BY DEF Init
    <3> QED BY <3>1 DEF Done
  <2>3. \A f \in DOMAIN files : files[f].lines = <<>> /\ Holds(f) = {}
    BY DEF Init, Holds, Range
  <2> QED BY <1>d, <2>2, <2>3 DEF DiskInv, OrderInv, LastInv
<1> QED BY <1>1, <1>2, <1>3, <1>4, <1>5 DEF IInv
-----------------------------------------------------------------------------
(***************************************************************************)
(* Every step keeps the types.                                             *)
(***************************************************************************)
LEMMA SequencesGrow ==
  ASSUME NEW m \in Nat, NEW n \in Nat, m <= n
  PROVE  Seq(1 .. m) \subseteq Seq(1 .. n)
<1>1. 1 .. m \subseteq 1 .. n
  OBVIOUS
<1> QED BY <1>1

LEMMA Parts ==
  ASSUME NEW S, NEW s \in Seq(S), NEW n \in 0 .. Len(s)
  PROVE  SubSeq(s, 1, n) \in Seq(S) /\ SubSeq(s, n + 1, Len(s)) \in Seq(S)
OBVIOUS

LEMMA RangeType ==
  ASSUME NEW S, NEW s \in Seq(S)
  PROVE  Range(s) \subseteq S
BY DEF Range

(* The directory after n lines of the batch are written.                   *)
LEMMA WrittenFiles ==
  ASSUME TypeOK, pc = "put", open, NEW n \in 0 .. Len(batch), NEW t \in 0 .. now
  PROVE  /\ current \in DOMAIN files /\ DOMAIN Written(n, t) = DOMAIN files
         /\ Written(n, t) \in [DOMAIN files -> File]
         /\ Written(n, t)[current].lines = files[current].lines \o SubSeq(batch, 1, n)
         /\ Written(n, t)[current].time = t
         /\ \A f \in DOMAIN files \ {current} : Written(n, t)[f] = files[f]
<1>1. current \in DOMAIN files /\ files \in [DOMAIN files -> File] /\ batch \in Seq(1 .. logged)
  BY DEF TypeOK, File
<1>2. files[current].lines \in Seq(1 .. logged) /\ SubSeq(batch, 1, n) \in Seq(1 .. logged)
  BY <1>1, Parts DEF File
<1> DEFINE s == files[current].lines \o SubSeq(batch, 1, n)
<1>3. s \in Seq(1 .. logged)
  BY <1>2
<1>4. Written(n, t) = [files EXCEPT ![current] = [lines |-> s, time |-> t]]
  BY DEF Written
<1> HIDE DEF s
<1>5. [lines |-> s, time |-> t] \in File
  BY <1>3 DEF File
<1>6. /\ DOMAIN Written(n, t) = DOMAIN files
      /\ Written(n, t) \in [DOMAIN files -> File]
      /\ Written(n, t)[current].lines = s /\ Written(n, t)[current].time = t
      /\ \A f \in DOMAIN files \ {current} : Written(n, t)[f] = files[f]
  BY <1>1, <1>4, <1>5
<1> QED BY <1>1, <1>6 DEF s

(* A write takes some of the batch, and the rest is lost.                  *)
LEMMA SomeWritten ==
  ASSUME TypeOK, (Put /\ open) \/ PutFails
  PROVE  /\ pc = "put" /\ open /\ current \in DOMAIN files
         /\ \E n \in 0 .. Len(batch), t \in 0 .. now :
              /\ files' = Written(n, t) /\ t \in {files[current].time, now}
              /\ lost' = lost \cup Range(SubSeq(batch, n + 1, Len(batch)))
<1>1. pc = "put" /\ open /\ current \in DOMAIN files /\ batch \in Seq(1 .. logged) /\ Len(batch) \in Nat
  BY DEF Put, PutFails, TypeOK
<1>2. files[current].time \in 0 .. now /\ now \in 0 .. now
  BY <1>1 DEF TypeOK
<1>3. CASE Put /\ open
  <2>1. SubSeq(batch, Len(batch) + 1, Len(batch)) = <<>>
    BY <1>1
  <2>2. Range(SubSeq(batch, Len(batch) + 1, Len(batch))) = {}
    BY <2>1 DEF Range
  <2>3. files' = Written(Len(batch), now) /\ lost' = lost
    BY <1>3 DEF Put
  <2>4. Len(batch) \in 0 .. Len(batch)
    BY <1>1
  <2> QED BY <1>1, <1>2, <2>2, <2>3, <2>4
<1>4. CASE PutFails
  <2>1. PICK n \in 0 .. Len(batch) - 1, t \in {files[current].time, now} :
          /\ files' = Written(n, t)
          /\ lost' = lost \cup Range(SubSeq(batch, n + 1, Len(batch)))
    BY <1>4 DEF PutFails
  <2>2. n \in 0 .. Len(batch) /\ t \in 0 .. now
    BY <1>1, <1>2
  <2> QED BY <1>1, <2>1, <2>2
<1> QED BY <1>3, <1>4

LEMMA TypeStep == TypeOK /\ [Next]_vars => TypeOK'
<1> SUFFICES ASSUME TypeOK, [Next]_vars PROVE TypeOK'
  OBVIOUS
<1>1. CASE LogAsync
  <2>1. logged' \in 0 .. MaxLines /\ logged' = logged + 1 /\ logged \in Nat
    BY <1>1 DEF LogAsync, TypeOK
  <2>2. Seq(1 .. logged) \subseteq Seq(1 .. logged') /\ 1 .. logged \subseteq 1 .. logged'
    BY <2>1, SequencesGrow
  <2>3. logQueue' \in Seq(1 .. logged')
    <3>1. logQueue \in Seq(1 .. logged') /\ logged' \in 1 .. logged'
      BY <2>1, <2>2 DEF TypeOK
    <3> QED BY <1>1, <3>1 DEF LogAsync
  <2>4. batch' \in Seq(1 .. logged')
    BY <1>1, <2>2 DEF LogAsync, TypeOK
  <2>5. files' \in [DOMAIN files' -> [lines : Seq(1 .. logged'), time : 0 .. now']]
    <3>1. files' = files /\ now' = now /\ files \in [DOMAIN files -> [lines : Seq(1 .. logged), time : 0 .. now]]
      BY <1>1 DEF LogAsync, TypeOK, envVars
    <3> QED BY <3>1, <2>2
  <2> QED BY <1>1, <2>1, <2>2, <2>3, <2>4, <2>5 DEF LogAsync, TypeOK, envVars
<1>2. CASE LogSync
  <2>1. logged' \in 0 .. MaxLines /\ logged' = logged + 1 /\ logged \in Nat
    BY <1>2 DEF LogSync, TypeOK
  <2>2. Seq(1 .. logged) \subseteq Seq(1 .. logged') /\ 1 .. logged \subseteq 1 .. logged'
    BY <2>1, SequencesGrow
  <2>3. logQueue' \in Seq(1 .. logged')
    BY <1>2, <2>2 DEF LogSync, TypeOK
  <2>4. batch' \in Seq(1 .. logged')
    BY <1>2, <2>1 DEF LogSync
  <2>5. files' \in [DOMAIN files' -> [lines : Seq(1 .. logged'), time : 0 .. now']]
    <3>1. files' = files /\ now' = now /\ files \in [DOMAIN files -> [lines : Seq(1 .. logged), time : 0 .. now]]
      BY <1>2 DEF LogSync, TypeOK, envVars
    <3> QED BY <3>1, <2>2
  <2> QED BY <1>2, <2>1, <2>2, <2>3, <2>4, <2>5 DEF LogSync, TypeOK, envVars
<1>3. CASE Sleep
  BY <1>3 DEF Sleep, TypeOK, envVars
<1>4. CASE TakeBatch
  <2>1. PICK n \in 0 .. Len(logQueue) :
          /\ batch' = SubSeq(logQueue, 1, n)
          /\ logQueue' = SubSeq(logQueue, n + 1, Len(logQueue))
    <3>1. Len(logQueue) \in Nat /\ BatchSize \in Nat
      BY DEF TypeOK
    <3>2. (IF Len(logQueue) < BatchSize THEN Len(logQueue) ELSE BatchSize) \in 0 .. Len(logQueue)
      BY <3>1
    <3> QED BY <1>4, <3>2 DEF TakeBatch
  <2>2. batch' \in Seq(1 .. logged) /\ logQueue' \in Seq(1 .. logged)
    BY <2>1, Parts DEF TypeOK
  <2> QED BY <1>4, <2>2 DEF TakeBatch, TypeOK, envVars
<1>5. CASE ExistsNot
  <2>1. current \in Names /\ OpenCurrentLogFile(current)
    BY <1>5 DEF TypeOK, ExistsNot
  <2>2. /\ DOMAIN files' \subseteq Names /\ open' \in BOOLEAN /\ failed' \in BOOLEAN
        /\ open' => current \in DOMAIN files'
        /\ files' \in [DOMAIN files' -> [lines : Seq(1 .. logged), time : 0 .. now]]
    BY <2>1, OpenedOrNot DEF File
  <2> QED BY <1>5, <2>1, <2>2 DEF ExistsNot, TypeOK, envVars
<1>6. CASE Exists
  BY <1>6 DEF Exists, TypeOK, envVars
<1>7. CASE Fits
  BY <1>7 DEF Fits, TypeOK, envVars
<1>8. CASE Rotate
  <2>1. Second \in Names /\ OpenCurrentLogFile(Second)
    BY <1>8, SecondIsName DEF Rotate
  <2>2. /\ DOMAIN files' \subseteq Names /\ open' \in BOOLEAN /\ failed' \in BOOLEAN
        /\ open' => Second \in DOMAIN files'
        /\ files' \in [DOMAIN files' -> [lines : Seq(1 .. logged), time : 0 .. now]]
    BY <2>1, OpenedOrNot DEF File
  <2> QED BY <1>8, <2>1, <2>2 DEF Rotate, TypeOK, envVars
<1>9. CASE List
  BY <1>9 DEF List, TypeOK, envVars
<1>10. CASE Purge
  <2>1. PICK R : files' = Without(R) /\ open' = (open /\ current \notin R)
    BY <1>10 DEF Purge
  <2>2. /\ DOMAIN files' = DOMAIN files \ R
        /\ files' \in [DOMAIN files' -> [lines : Seq(1 .. logged), time : 0 .. now]]
    BY <2>1, WithoutFiles DEF File
  <2>3. tied' \in BOOLEAN
    BY <1>10 DEF Purge
  <2> QED BY <1>10, <2>1, <2>2, <2>3 DEF Purge, TypeOK, envVars
<1>11. CASE Throws
  <2>1. Range(batch) \subseteq 1 .. logged
    BY RangeType DEF TypeOK
  <2> QED BY <1>11, <2>1 DEF Throws, TypeOK, envVars
<1>12. CASE (Put /\ open) \/ PutFails
  <2>1. PICK n \in 0 .. Len(batch), t \in 0 .. now :
          /\ files' = Written(n, t)
          /\ lost' = lost \cup Range(SubSeq(batch, n + 1, Len(batch)))
    BY <1>12, SomeWritten
  <2>2. pc = "put" /\ open /\ current \in DOMAIN files
    BY <1>12, SomeWritten
  <2>3. /\ DOMAIN files' = DOMAIN files
        /\ files' \in [DOMAIN files' -> [lines : Seq(1 .. logged), time : 0 .. now]]
    BY <2>1, <2>2, WrittenFiles DEF File
  <2>4. lost' \subseteq 1 .. logged
    <3>1. SubSeq(batch, n + 1, Len(batch)) \in Seq(1 .. logged)
      BY Parts DEF TypeOK
    <3> QED BY <2>1, <3>1, RangeType DEF TypeOK
  <2>5. /\ UNCHANGED <<async, logQueue, current, listed, logged, tied, now, starts, deletes>>
        /\ batch' = <<>> /\ pc' = "idle"
        /\ open' \in {open, FALSE} /\ failed' \in {failed, TRUE}
    BY <1>12 DEF Put, PutFails, envVars
  <2>6. open' \in BOOLEAN /\ failed' \in BOOLEAN /\ current' \in DOMAIN files'
    BY <2>2, <2>3, <2>5 DEF TypeOK
  <2>7. batch' \in Seq(1 .. logged)
    BY <2>5
  <2>8. DOMAIN files' \subseteq Names
    BY <2>3 DEF TypeOK
  <2> QED BY <2>3, <2>4, <2>5, <2>6, <2>7, <2>8 DEF TypeOK
<1>17. CASE Put /\ ~open
  <2>1. Range(batch) \subseteq 1 .. logged
    BY RangeType DEF TypeOK
  <2> QED BY <1>17, <2>1 DEF Put, TypeOK, envVars
<1>13. CASE Tick
  <2>1. now' \in 0 .. MaxTicks /\ 0 .. now \subseteq 0 .. now'
    BY <1>13 DEF Tick, TypeOK
  <2>2. files' \in [DOMAIN files' -> [lines : Seq(1 .. logged'), time : 0 .. now']]
    <3>1. /\ files' = files /\ logged' = logged
          /\ files \in [DOMAIN files -> [lines : Seq(1 .. logged), time : 0 .. now]]
      BY <1>13 DEF Tick, TypeOK, ioVars
    <3> QED BY <2>1, <3>1
  <2> QED BY <1>13, <2>1, <2>2 DEF Tick, TypeOK, ioVars
<1>14. CASE Restart
  <2>1. Second \in Names /\ OpenCurrentLogFile(Second)
    BY <1>14, SecondIsName DEF Restart
  <2>2. /\ DOMAIN files' \subseteq Names /\ open' \in BOOLEAN /\ failed' \in BOOLEAN
        /\ open' => Second \in DOMAIN files'
        /\ files' \in [DOMAIN files' -> [lines : Seq(1 .. logged), time : 0 .. now]]
    BY <2>1, OpenedOrNot DEF File
  <2>3. Range(batch) \subseteq 1 .. logged /\ Range(logQueue) \subseteq 1 .. logged
    BY RangeType DEF TypeOK
  <2>4. starts' \in 1 .. MaxStarts
    BY <1>14 DEF Restart, TypeOK
  <2> QED BY <1>14, <2>1, <2>2, <2>3, <2>4 DEF Restart, TypeOK
<1>15. ASSUME NEW f \in Names, Delete(f) PROVE TypeOK'
  <2>1. /\ DOMAIN files' = DOMAIN files \ {f}
        /\ files' \in [DOMAIN files' -> [lines : Seq(1 .. logged), time : 0 .. now]]
    BY <1>15, WithoutFiles DEF Delete, File
  <2>2. Range(files[f].lines) \subseteq 1 .. logged
    <3>1. files[f].lines \in Seq(1 .. logged)
      BY <1>15 DEF Delete, TypeOK
    <3> QED BY <3>1, RangeType
  <2>3. deletes' \in 0 .. MaxDeletes
    BY <1>15 DEF Delete, TypeOK
  <2> QED BY <1>15, <2>1, <2>2, <2>3 DEF Delete, TypeOK
<1>16. CASE UNCHANGED vars
  BY <1>16 DEF TypeOK, vars, ioVars, envVars
<1> QED
  BY <1>1, <1>2, <1>3, <1>4, <1>5, <1>6, <1>7, <1>8, <1>9, <1>10, <1>11, <1>12,
     <1>13, <1>14, <1>15, <1>16, <1>17 DEF Next, WriterStep
-----------------------------------------------------------------------------
(***************************************************************************)
(* Every step keeps the order of the files.                                *)
(***************************************************************************)
LEMMA NameStep == TypeOK /\ NameInv /\ [Next]_vars => NameInv'
<1> SUFFICES ASSUME TypeOK, NameInv, [Next]_vars PROVE NameInv'
  OBVIOUS
<1>t. /\ DOMAIN files \subseteq Nat /\ current \in Nat /\ Second \in Nat /\ now \in Nat
      /\ \A f \in DOMAIN files : f <= Second
      /\ current \in Names /\ Second \in Names
  <2>1. Names \subseteq Nat /\ Second \in Names
    BY SecondIsName
  <2>2. DOMAIN files \subseteq Names /\ current \in Names /\ now \in Nat
    BY DEF TypeOK
  <2>3. DOMAIN files \subseteq Nat /\ current \in Nat /\ Second \in Nat
    BY <2>1, <2>2
  <2>4. \A f \in DOMAIN files : f <= Second
    BY <2>3 DEF NameInv
  <2> QED BY <2>1, <2>2, <2>3, <2>4
<1>1. CASE ExistsNot
  <2>1. OpenCurrentLogFile(current) /\ current' = current /\ Second' = Second
    BY <1>1 DEF ExistsNot, Second, envVars
  <2>2. /\ \A f \in DOMAIN Opened(current) : f <= current
        /\ \A f, g \in DOMAIN Opened(current) :
             f < g => Opened(current)[f].time <= Opened(current)[g].time
    BY <1>t, OpenedInOrder DEF NameInv
  <2>3. files' = Opened(current) \/ files' = files
    BY <2>1 DEF OpenCurrentLogFile
  <2> QED BY <2>1, <2>2, <2>3 DEF NameInv
<1>2. CASE Rotate \/ Restart
  <2>1. OpenCurrentLogFile(Second) /\ current' = Second /\ Second' = Second
    BY <1>2 DEF Rotate, Restart, Second, envVars
  <2>2. /\ \A f \in DOMAIN Opened(Second) : f <= Second
        /\ \A f, g \in DOMAIN Opened(Second) :
             f < g => Opened(Second)[f].time <= Opened(Second)[g].time
    BY <1>t, OpenedInOrder
  <2>3. files' = Opened(Second) \/ files' = files
    BY <2>1 DEF OpenCurrentLogFile
  <2> QED BY <1>t, <2>1, <2>2, <2>3 DEF NameInv
<1>3. ASSUME NEW F, files' = Without(F), current' = current, now' = now
      PROVE  NameInv'
  <2>1. /\ DOMAIN files' = DOMAIN files \ F
        /\ \A g \in DOMAIN files \ F : files'[g] = files[g]
    BY <1>3, WithoutFiles
  <2>2. Second' = Second
    BY <1>3 DEF Second
  <2> QED BY <1>3, <2>1, <2>2 DEF NameInv
<1>4. CASE Purge
  BY <1>3, <1>4 DEF Purge, envVars
<1>5. ASSUME NEW f \in Names, Delete(f) PROVE NameInv'
  BY <1>3, <1>5 DEF Delete
<1>6. CASE Put \/ PutFails
  <2>1. current' = current /\ now' = now /\ Second' = Second
    BY <1>6 DEF Put, PutFails, Second, envVars
  <2>2. CASE Put /\ ~open
    BY <2>1, <2>2 DEF Put, NameInv
  <2>3. CASE (Put /\ open) \/ PutFails
    <3>1. current \in DOMAIN files /\ \A g \in DOMAIN files : files[g] \in File
      BY <2>3, SomeWritten DEF TypeOK, File
    <3>p. PICK n \in 0 .. Len(batch), t \in 0 .. now :
            files' = Written(n, t) /\ t \in {files[current].time, now}
      BY <2>3, SomeWritten
    <3>o. pc = "put" /\ open
      BY <2>3, SomeWritten
    <3>2. /\ DOMAIN files' = DOMAIN files /\ files'[current].time = t
          /\ \A g \in DOMAIN files \ {current} : files'[g] = files[g]
      BY <3>p, <3>o, WrittenFiles
    <3>3. \A g \in DOMAIN files : files[g].time <= now
      BY <1>t, <3>1 DEF File
    <3>4. \A g \in DOMAIN files : g <= current
      BY DEF NameInv
    <3>5. ASSUME NEW g \in DOMAIN files, NEW h \in DOMAIN files, g < h
          PROVE  files'[g].time <= files'[h].time
      <4>1. g # current
        BY <1>t, <3>4, <3>5
      <4>2. CASE h = current
        <5>1. files[g].time <= files[current].time
          BY <3>1, <3>5, <4>2 DEF NameInv
        <5> QED BY <3>p, <3>2, <3>3, <4>1, <4>2, <5>1
      <4>3. CASE h # current
        BY <3>2, <3>5, <4>1, <4>3 DEF NameInv
      <4> QED BY <4>2, <4>3
    <3> QED BY <2>1, <3>2, <3>5 DEF NameInv
  <2> QED BY <1>6, <2>2, <2>3
<1>7. CASE Tick
  <2>1. now' \in Nat /\ now <= now' /\ files' = files /\ current' = current
    BY <1>t, <1>7 DEF Tick, ioVars
  <2>2. Second <= Second' /\ Second' \in Nat
    <3>1. TicksPerSecond \in Nat \ {0}
      OBVIOUS
    <3>2. now \div TicksPerSecond <= now' \div TicksPerSecond /\ now' \div TicksPerSecond \in Nat
      <4>1. now \in Nat
        BY <1>t
      <4>2. \A a, b \in Nat : a <= b =>
              a \div TicksPerSecond \in Nat /\ a \div TicksPerSecond <= b \div TicksPerSecond
        BY <3>1, Seconds
      <4> QED BY <2>1, <4>1, <4>2
    <3> QED BY <3>2 DEF Second
  <2>3. current' <= Second'
    BY <1>t, <2>1, <2>2 DEF NameInv
  <2> QED BY <2>1, <2>3 DEF NameInv
<1>8. CASE LogAsync \/ LogSync \/ Sleep \/ TakeBatch \/ Exists \/ Fits \/ List \/ Throws
  <2>1. files' = files /\ current' = current /\ now' = now
    BY <1>8 DEF LogAsync, LogSync, Sleep, TakeBatch, Exists, Fits, List, Throws, envVars
  <2> QED BY <2>1 DEF NameInv, Second
<1>9. CASE UNCHANGED vars
  BY <1>9 DEF NameInv, Second, vars, ioVars, envVars
<1> QED
  BY <1>1, <1>2, <1>4, <1>5, <1>6, <1>7, <1>8, <1>9 DEF Next, WriterStep
-----------------------------------------------------------------------------
(***************************************************************************)
(* The number of files.                                                    *)
(***************************************************************************)

(* A purge that removes a file and leaves another of the same time had a   *)
(* choice: the other way around.                                           *)
LEMMA TieIsChoice ==
  ASSUME TypeOK, NEW R \in Oldest(TooMany), NEW e \in R, NEW g \in listed \ R,
         listed \subseteq DOMAIN files, files[e].time = files[g].time
  PROVE  Cardinality(Oldest(TooMany)) > 1
<1>1. /\ R \subseteq listed /\ Cardinality(R) = TooMany
      /\ \A f \in R, h \in listed \ R : files[f].time <= files[h].time
  BY DEF Oldest
<1>2. IsFiniteSet(listed) /\ IsFiniteSet(R) /\ Cardinality(R) \in Nat
  BY <1>1, DirectorySize, FS_Subset, FS_CardinalityType
<1> DEFINE S == (R \ {e}) \cup {g}
<1>3. S \in Oldest(TooMany)
  <2>1. S \subseteq listed
    BY <1>1
  <2>2. Cardinality(S) = TooMany
    <3>1. IsFiniteSet(R \ {e}) /\ Cardinality(R \ {e}) = Cardinality(R) - 1
      BY <1>2, FS_RemoveElement
    <3>2. Cardinality((R \ {e}) \cup {g}) = Cardinality(R \ {e}) + 1
      BY <3>1, FS_AddElement
    <3> QED BY <1>1, <1>2, <3>1, <3>2
  <2>3. ASSUME NEW f \in S, NEW h \in listed \ S PROVE files[f].time <= files[h].time
    <3>1. CASE f = g /\ h = e
      <4>1. files[g].time \in Nat
        BY DEF TypeOK
      <4> QED BY <3>1, <4>1
    <3>2. CASE f = g /\ h # e
      BY <1>1, <2>3, <3>2
    <3>3. CASE f # g /\ h = e
      BY <1>1, <2>3, <3>3
    <3>4. CASE f # g /\ h # e
      BY <1>1, <2>3, <3>4
    <3> QED BY <3>1, <3>2, <3>3, <3>4
  <2> QED BY <2>1, <2>2, <2>3 DEF Oldest
<1>4. {R} \cup {S} \subseteq Oldest(TooMany) /\ S \notin {R}
  BY <1>3
<1> HIDE DEF S
<1>5. Cardinality({R} \cup {S}) = 2
  <2>1. IsFiniteSet({R}) /\ Cardinality({R}) = 1
    BY FS_Singleton
  <2>2. Cardinality({R} \cup {S}) = IF S \in {R} THEN Cardinality({R}) ELSE Cardinality({R}) + 1
    BY <2>1, FS_AddElement
  <2> QED BY <1>4, <2>1, <2>2
<1>6. IsFiniteSet(Oldest(TooMany))
  <2>1. IsFiniteSet(SUBSET listed)
    BY <1>2, FS_SUBSET
  <2>2. Oldest(TooMany) \subseteq SUBSET listed
    BY DEF Oldest
  <2> QED BY <2>1, <2>2, FS_Subset
<1>7. 2 <= Cardinality(Oldest(TooMany)) /\ Cardinality(Oldest(TooMany)) \in Nat
  BY <1>4, <1>5, <1>6, FS_Subset, FS_CardinalityType
<1> QED BY <1>7

(* Without a choice, the purge removes the smallest names.                 *)
LEMMA PurgedAreSmallest ==
  ASSUME TypeOK, NameInv, listed \subseteq DOMAIN files,
         NEW R \in Oldest(TooMany), ~(Cardinality(Oldest(TooMany)) > 1),
         NEW f \in R, NEW g \in listed \ R
  PROVE  f < g
<1>1. f \in listed /\ files[f].time <= files[g].time
  BY DEF Oldest
<1>2. f \in Nat /\ g \in Nat /\ f # g
  BY <1>1, SecondIsName DEF TypeOK
<1>3. files[f].time \in Nat /\ files[g].time \in Nat
  BY <1>1 DEF TypeOK
<1>4. g < f => files[g].time <= files[f].time
  BY <1>1 DEF NameInv
<1>5. files[f].time # files[g].time
  BY TieIsChoice
<1> QED BY <1>1, <1>2, <1>3, <1>4, <1>5

(* A purge that removes the current file, which is the newest, had a       *)
(* choice: it left one of a smaller name.                                  *)
LEMMA CurrentPurgedOnTie ==
  ASSUME TypeOK, NameInv, MaxBackupFiles > 0, listed \subseteq DOMAIN files,
         NEW R \in Oldest(TooMany), current \in R
  PROVE  Cardinality(Oldest(TooMany)) > 1
<1>1. R \subseteq listed /\ Cardinality(R) = TooMany
  BY DEF Oldest
<1>2. IsFiniteSet(listed) /\ IsFiniteSet(R) /\ Cardinality(R) \in Nat /\ Cardinality(listed) \in Nat
  BY <1>1, DirectorySize, FS_Subset, FS_CardinalityType
<1>3. Cardinality(R) < Cardinality(listed)
  <2>1. Cardinality(R) # 0
    BY <1>2, FS_EmptySet
  <2>2. MaxBackupFiles \in Nat
    OBVIOUS
  <2> QED BY <1>1, <1>2, <2>1, <2>2 DEF TooMany
<1>4. PICK g \in listed : g \notin R
  BY <1>1, <1>3, <1>2
<1>5. g <= current /\ g \in Nat /\ current \in Nat
  BY <1>4, SecondIsName DEF TypeOK, NameInv
<1> QED BY <1>4, <1>5, PurgedAreSmallest

LEMMA CountStep == TypeOK /\ NameInv /\ CountInv /\ [Next]_vars => CountInv'
<1> SUFFICES ASSUME TypeOK, NameInv, CountInv, [Next]_vars, MaxBackupFiles > 0 PROVE CountInv'
  BY DEF CountInv
<1> DEFINE N == Cardinality(DOMAIN files)
           L == Cardinality(listed)
<1>t. /\ N \in Nat /\ L \in Nat /\ Bound \in Nat /\ MaxBackupFiles \in Nat
      /\ MaxBackupFiles <= Bound
      /\ starts \in Nat /\ deletes \in Nat /\ tied \in BOOLEAN
  <2>1. starts \in Nat /\ deletes \in Nat /\ tied \in BOOLEAN
    BY DEF TypeOK
  <2> QED BY <2>1, DirectorySize, BoundType
<1>c. /\ current \notin DOMAIN files => MaxBackupFiles < Bound
      /\ pc \notin {"list", "purge"} => N <= IF current \in DOMAIN files THEN Bound ELSE Bound - 1
      /\ pc = "list" => N <= Bound + 1
      /\ pc = "purge" =>
           /\ DOMAIN files \subseteq listed
           /\ L <= IF listed \subseteq DOMAIN files THEN Bound + 1 ELSE Bound
  BY DEF CountInv
<1>s. ASSUME starts' = starts, deletes' = deletes, tied' = tied, failed' = failed
      PROVE  Bound' = Bound
  BY <1>s DEF Bound
<1>1. CASE LogAsync \/ LogSync \/ Sleep \/ TakeBatch \/ Exists \/ Fits \/ Tick
  <2>1. DOMAIN files' = DOMAIN files /\ current' = current /\ listed' = listed
    BY <1>1 DEF LogAsync, LogSync, Sleep, TakeBatch, Exists, Fits, Tick, ioVars
  <2>2. Bound' = Bound
    BY <1>1, <1>s DEF LogAsync, LogSync, Sleep, TakeBatch, Exists, Fits, Tick, envVars
  <2>3. \/ pc' = pc
        \/ pc \notin {"list", "purge"} /\ pc' \notin {"list", "purge"}
    BY <1>1 DEF LogAsync, LogSync, Sleep, TakeBatch, Exists, Fits, Tick, ioVars
  <2> QED BY <1>c, <2>1, <2>2, <2>3 DEF CountInv
<1>10. CASE Put \/ PutFails
  <2>1. DOMAIN files' = DOMAIN files
    <3>1. CASE Put /\ ~open
      BY <3>1 DEF Put
    <3>2. CASE (Put /\ open) \/ PutFails
      <4>1. pc = "put" /\ open
        BY <3>2, SomeWritten
      <4>2. PICK n \in 0 .. Len(batch), m \in 0 .. now : files' = Written(n, m)
        BY <3>2, SomeWritten
      <4> QED BY <4>1, <4>2, WrittenFiles
    <3> QED BY <1>10, <3>1, <3>2
  <2>2. /\ pc = "put" /\ pc' = "idle" /\ current' = current
        /\ starts' = starts /\ deletes' = deletes /\ tied' = tied /\ failed' \in {failed, TRUE}
    BY <1>10 DEF Put, PutFails, envVars
  <2>3. Bound' \in Nat /\ Bound <= Bound'
    BY <2>2, BoundGrows
  <2>4. current \notin DOMAIN files => MaxBackupFiles < Bound'
    BY <1>t, <1>c, <2>3
  <2>5. N <= IF current \in DOMAIN files THEN Bound' ELSE Bound' - 1
    BY <1>t, <1>c, <2>2, <2>3
  <2> QED BY <2>1, <2>2, <2>4, <2>5 DEF CountInv
<1>o. ASSUME NEW n \in Names, OpenCurrentLogFile(n),
             starts' = starts, deletes' = deletes, tied' = tied
      PROVE  /\ \/ DOMAIN files' = DOMAIN files \cup {n} /\ Bound' = Bound
                \/ DOMAIN files' = DOMAIN files /\ MaxBackupFiles < Bound'
             /\ Bound' \in Nat /\ Bound <= Bound'
  <2>1. \/ files' = Opened(n) /\ failed' = failed
        \/ files' = files /\ failed' = TRUE
    BY <1>o, OpenedOrNot
  <2>2. failed' \in {failed, TRUE}
    BY <2>1
  <2>3. Bound' \in Nat /\ Bound <= Bound' /\ (failed' => MaxBackupFiles < Bound')
    BY <1>o, <2>2, BoundGrows
  <2>4. DOMAIN Opened(n) = DOMAIN files \cup {n}
    BY OpenedFiles
  <2> QED BY <1>o, <1>s, <2>1, <2>3, <2>4
<1>2. CASE ExistsNot
  <2>1. /\ pc = "exists" /\ pc' = "put" /\ current \notin DOMAIN files
        /\ current' = current /\ current \in Names
        /\ OpenCurrentLogFile(current)
        /\ starts' = starts /\ deletes' = deletes /\ tied' = tied
    BY <1>2 DEF ExistsNot, envVars, TypeOK
  <2>2. CASE DOMAIN files' = DOMAIN files \cup {current} /\ Bound' = Bound
    <3>1. Cardinality(DOMAIN files') = N + 1
      BY <2>1, <2>2, DirectorySize
    <3> QED BY <1>t, <1>c, <2>1, <2>2, <3>1 DEF CountInv
  <2>3. CASE DOMAIN files' = DOMAIN files /\ MaxBackupFiles < Bound'
    <3>1. Bound' \in Nat /\ Bound <= Bound'
      BY <1>o, <2>1
    <3>2. N <= Bound - 1
      BY <1>c, <2>1
    <3>3. N <= Bound' - 1
      BY <1>t, <3>1, <3>2
    <3> QED BY <2>1, <2>3, <3>3 DEF CountInv
  <2> QED BY <1>o, <2>1, <2>2, <2>3
<1>3. CASE Rotate
  <2>1. /\ pc = "size" /\ pc' = "list" /\ current \in DOMAIN files
        /\ current' = Second /\ Second \in Names
        /\ OpenCurrentLogFile(Second)
        /\ starts' = starts /\ deletes' = deletes /\ tied' = tied
    BY <1>3, SecondIsName DEF Rotate, envVars
  <2>2. Bound' \in Nat /\ Bound <= Bound'
    BY <1>o, <2>1
  <2>3. Cardinality(DOMAIN files') <= N + 1 /\ Cardinality(DOMAIN files') \in Nat
    <3>1. DOMAIN files' = DOMAIN files \cup {Second} \/ DOMAIN files' = DOMAIN files
      BY <1>o, <2>1
    <3>2. /\ Cardinality(DOMAIN files \cup {Second}) <= N + 1
          /\ Cardinality(DOMAIN files \cup {Second}) \in Nat
      BY <1>t, DirectorySize
    <3> QED BY <1>t, <3>1, <3>2
  <2>4. current' \notin DOMAIN files' => MaxBackupFiles < Bound'
    BY <1>o, <2>1
  <2>5. N <= Bound
    BY <1>c, <2>1
  <2>6. Cardinality(DOMAIN files') <= Bound' + 1
    BY <1>t, <2>2, <2>3, <2>5
  <2> QED BY <2>1, <2>4, <2>6 DEF CountInv
<1>4. CASE List
  <2>1. /\ pc = "list" /\ pc' = "purge" /\ listed' = DOMAIN files
        /\ files' = files /\ current' = current
    BY <1>4 DEF List
  <2>2. Bound' = Bound
    BY <1>4, <1>s DEF List, envVars
  <2> QED BY <1>t, <1>c, <2>1, <2>2 DEF CountInv
<1>5. CASE Purge
  <2>1. /\ pc = "purge" /\ pc' = "put" /\ DOMAIN files \subseteq listed /\ Sortable
        /\ current' = current /\ starts' = starts /\ deletes' = deletes /\ failed' = failed
        /\ tied' = (tied \/ Cardinality(Oldest(TooMany)) > 1)
    BY <1>5, <1>c DEF Purge, envVars
  <2>2. PICK R \in Oldest(TooMany) : files' = Without(R)
    BY <1>5 DEF Purge
  <2>3. DOMAIN files' = DOMAIN files \ R
    BY <2>2, WithoutFiles
  <2>4. R \subseteq listed /\ Cardinality(R) = TooMany
    BY DEF Oldest
  <2>7. /\ Bound <= Bound' /\ Bound' \in Nat
        /\ tied' => MaxBackupFiles < Bound'
    <3> DEFINE base == MaxBackupFiles + 2 * (starts - 1) + deletes + (IF failed THEN 1 ELSE 0)
    <3>1. base \in Nat /\ MaxBackupFiles <= base
      <4>1. starts - 1 \in Nat /\ failed \in BOOLEAN
        BY DEF TypeOK
      <4> QED BY <1>t, <4>1
    <3>2. /\ Bound = base + (IF tied THEN 1 ELSE 0)
          /\ Bound' = base + (IF tied' THEN 1 ELSE 0)
      <4>1. \A a \in {0, 1}, b \in {0, 1} :
              MaxBackupFiles + 2 * (starts - 1) + deletes + a + b
                = MaxBackupFiles + 2 * (starts - 1) + deletes + b + a
        BY <1>t
      <4> QED BY <2>1, <4>1 DEF Bound
    <3>3. tied' \in BOOLEAN /\ (tied => tied')
      BY <2>1
    <3> HIDE DEF base
    <3>4. CASE tied'
      BY <1>t, <3>1, <3>2, <3>4
    <3>5. CASE ~tied'
      BY <1>t, <3>1, <3>2, <3>3, <3>5
    <3> QED BY <3>4, <3>5
  <2>c. CASE listed \subseteq DOMAIN files
    <3>5. Cardinality(DOMAIN files') = N - TooMany
      <4>1. IsFiniteSet(DOMAIN files) /\ DOMAIN files \cap R = R
        BY <2>4, <2>c, DirectorySize
      <4> QED BY <2>3, <2>4, <4>1, FS_Difference
    <3>6. Cardinality(DOMAIN files') <= MaxBackupFiles /\ Cardinality(DOMAIN files') \in Nat
      <4>1. listed = DOMAIN files
        BY <2>1, <2>c
      <4> QED BY <1>t, <3>5, <4>1 DEF TooMany
    <3>8. current \notin DOMAIN files' => MaxBackupFiles < Bound'
      <4>1. CASE current \notin DOMAIN files
        BY <1>t, <1>c, <2>7, <4>1
      <4>2. CASE current \in R
        BY <2>1, <2>7, <2>c, <4>2, CurrentPurgedOnTie
      <4> QED BY <2>3, <4>1, <4>2
    <3> QED BY <1>t, <2>1, <2>7, <3>6, <3>8 DEF CountInv
  <2>d. CASE ~(listed \subseteq DOMAIN files)
    <3>1. Cardinality(listed) = 1 /\ IsFiniteSet(listed)
      BY <2>1, <2>d, DirectorySize DEF Sortable
    <3>2. N < 1
      BY <1>t, <2>1, <2>d, <3>1, FS_Subset
    <3>3. DOMAIN files = {}
      <4>1. N = 0 /\ IsFiniteSet(DOMAIN files)
        BY <1>t, <3>2, DirectorySize
      <4> QED BY <4>1, FS_EmptySet
    <3>4. DOMAIN files' = {} /\ Cardinality(DOMAIN files') = 0
      BY <2>3, <3>3, FS_EmptySet
    <3>5. MaxBackupFiles < Bound'
      BY <1>t, <1>c, <2>7, <3>3
    <3> QED BY <1>t, <2>1, <2>7, <3>4, <3>5 DEF CountInv
  <2> QED BY <2>c, <2>d
<1>6. CASE Throws
  <2>1. /\ files' = files /\ current' = current /\ pc' \in {"idle", "ended"}
        /\ \/ pc = "size"
           \/ pc = "purge" /\ ~(listed \subseteq DOMAIN files)
    BY <1>6 DEF Throws, Sortable
  <2>2. Bound' = Bound
    BY <1>6, <1>s DEF Throws, envVars
  <2>3. N <= IF current \in DOMAIN files THEN Bound ELSE Bound - 1
    <3>1. CASE pc = "size"
      BY <1>c, <3>1
    <3>2. CASE pc = "purge" /\ ~(listed \subseteq DOMAIN files)
      <4>1. DOMAIN files \subseteq listed /\ L <= Bound /\ IsFiniteSet(listed)
        BY <1>c, <3>2, DirectorySize
      <4>2. N <= L /\ N # L
        BY <3>2, <4>1, FS_Subset
      <4> QED BY <1>t, <4>1, <4>2
    <3> QED BY <2>1, <3>1, <3>2
  <2> QED BY <1>c, <2>1, <2>2, <2>3 DEF CountInv
<1>7. CASE Restart
  <2>1. /\ current' = Second /\ pc' = "idle" /\ Second \in Names
        /\ OpenCurrentLogFile(Second)
        /\ starts' = starts + 1 /\ deletes' = deletes /\ tied' = tied
    BY <1>7, SecondIsName DEF Restart
  <2>2. \/ files' = Opened(Second) /\ failed' = failed
        \/ files' = files /\ failed' = TRUE
    BY <2>1, OpenedOrNot
  <2>4. /\ Bound' \in Nat /\ Bound + 2 <= Bound'
        /\ failed' => MaxBackupFiles < Bound'
    <3> DEFINE base == MaxBackupFiles + 2 * (starts - 1) + deletes + (IF tied THEN 1 ELSE 0)
    <3>1. base \in Nat /\ MaxBackupFiles <= base
      <4>1. starts - 1 \in Nat
        BY DEF TypeOK
      <4> QED BY <1>t, <4>1
    <3>2. MaxBackupFiles + 2 * (starts + 1 - 1) + deletes + (IF tied THEN 1 ELSE 0) = base + 2
      BY <1>t
    <3>3. /\ Bound = base + (IF failed THEN 1 ELSE 0)
          /\ Bound' = base + 2 + (IF failed' THEN 1 ELSE 0)
      <4>1. Bound' = MaxBackupFiles + 2 * (starts' - 1) + deletes'
                       + (IF tied' THEN 1 ELSE 0) + (IF failed' THEN 1 ELSE 0)
        BY DEF Bound
      <4>2. (IF tied' THEN 1 ELSE 0) = (IF tied THEN 1 ELSE 0)
        BY <2>1
      <4>3. Bound' = MaxBackupFiles + 2 * (starts + 1 - 1) + deletes
                       + (IF tied THEN 1 ELSE 0) + (IF failed' THEN 1 ELSE 0)
        <5> DEFINE x == IF tied THEN 1 ELSE 0
                   y == IF failed' THEN 1 ELSE 0
        <5>1. starts' = starts + 1 /\ deletes' = deletes
          BY <2>1
        <5>2. Bound' = MaxBackupFiles + 2 * (starts' - 1) + deletes' + x + y
          BY <4>1, <4>2
        <5> HIDE DEF x, y
        <5> DEFINE d == deletes'
                   s == starts'
        <5>3. Bound' = MaxBackupFiles + 2 * (s - 1) + d + x + y /\ s = starts + 1 /\ d = deletes
          BY <5>1, <5>2
        <5> HIDE DEF d, s
        <5>4. Bound' = MaxBackupFiles + 2 * (starts + 1 - 1) + deletes + x + y
          <6>0. starts \in Nat
            BY DEF TypeOK
          <6>1. s - 1 = starts + 1 - 1
            BY <5>3, <6>0
          <6> QED BY <5>3, <6>1
        <5> QED BY <5>4 DEF x, y
      <4> QED BY <3>2, <4>3 DEF Bound
    <3>4. failed \in BOOLEAN
      BY DEF TypeOK
    <3> HIDE DEF base
    <3>5. CASE failed' = failed
      BY <1>t, <3>1, <3>3, <3>4, <3>5
    <3>6. CASE failed' = TRUE
      BY <1>t, <3>1, <3>3, <3>4, <3>6
    <3> QED BY <2>2, <3>5, <3>6
  <2>5. N <= Bound + 1
    <3>1. CASE pc # "purge"
      BY <1>t, <1>c, <3>1
    <3>2. CASE pc = "purge"
      <4>1. DOMAIN files \subseteq listed /\ L <= Bound + 1 /\ IsFiniteSet(listed)
        BY <1>t, <1>c, <3>2, DirectorySize
      <4>2. N <= L
        BY <4>1, FS_Subset
      <4> QED BY <1>t, <4>1, <4>2
    <3> QED BY <3>1, <3>2
  <2> QED
    <3>1. CASE files' = Opened(Second)
      <4>1. DOMAIN files' = DOMAIN files \cup {Second}
        BY <2>1, <3>1, OpenedFiles
      <4>2. Cardinality(DOMAIN files') <= N + 1 /\ Cardinality(DOMAIN files') \in Nat
        BY <1>t, <4>1, DirectorySize
      <4>3. Cardinality(DOMAIN files') <= Bound'
        BY <1>t, <2>4, <2>5, <4>2
      <4> QED BY <2>1, <4>1, <4>3 DEF CountInv
    <3>2. CASE files' = files /\ failed' = TRUE
      <4>1. N <= Bound' - 1 /\ MaxBackupFiles < Bound'
        BY <1>t, <2>4, <2>5, <3>2
      <4>2. N <= IF current' \in DOMAIN files' THEN Bound' ELSE Bound' - 1
        BY <1>t, <2>4, <4>1
      <4> QED BY <2>1, <3>2, <4>1, <4>2 DEF CountInv
    <3> QED BY <2>2, <3>1, <3>2
<1>8. ASSUME NEW f \in Names, Delete(f) PROVE CountInv'
  <2>1. /\ f \in DOMAIN files /\ files' = Without({f}) /\ current' = current
        /\ pc' = pc /\ listed' = listed
        /\ starts' = starts /\ deletes' = deletes + 1 /\ tied' = tied /\ failed' = failed
    BY <1>8 DEF Delete
  <2>2. DOMAIN files' = DOMAIN files \ {f}
    BY <2>1, WithoutFiles
  <2>3. Cardinality(DOMAIN files') = N - 1
    BY <2>1, <2>2, DirectorySize
  <2>4. Bound' = Bound + 1
    <3>1. starts - 1 \in Int /\ failed \in BOOLEAN
      BY DEF TypeOK
    <3> QED BY <1>t, <2>1, <3>1 DEF Bound
  <2>5. pc = "purge" =>
          /\ DOMAIN files' \subseteq listed
          /\ ~(listed \subseteq DOMAIN files')
          /\ L <= Bound + 1
    <3> SUFFICES ASSUME pc = "purge" PROVE /\ DOMAIN files' \subseteq listed
                                           /\ ~(listed \subseteq DOMAIN files')
                                           /\ L <= Bound + 1
      OBVIOUS
    <3>1. DOMAIN files \subseteq listed
      BY <1>c
    <3>2. DOMAIN files' \subseteq listed /\ f \in listed /\ f \notin DOMAIN files'
      BY <2>1, <2>2, <3>1
    <3>3. L <= Bound + 1
      BY <1>t, <1>c
    <3> QED BY <3>2, <3>3
  <2>6. current \notin DOMAIN files' => MaxBackupFiles < Bound + 1
    BY <1>t
  <2>7. pc \notin {"list", "purge"} =>
          N - 1 <= IF current \in DOMAIN files' THEN Bound + 1 ELSE Bound
    BY <1>t, <1>c
  <2>8. pc = "list" => N - 1 <= Bound + 2
    BY <1>t, <1>c
  <2>9. Cardinality(listed)' = L
    BY <2>1
  <2> HIDE DEF N, L
  <2>10. /\ current' \notin DOMAIN files' => MaxBackupFiles < Bound'
         /\ pc' \notin {"list", "purge"} =>
              Cardinality(DOMAIN files') <= IF current' \in DOMAIN files' THEN Bound' ELSE Bound' - 1
    BY <1>t, <2>1, <2>3, <2>4, <2>6, <2>7
  <2>11. pc' = "list" => Cardinality(DOMAIN files') <= Bound' + 1
    BY <1>t, <2>1, <2>3, <2>4, <2>8
  <2>12. pc' = "purge" =>
           /\ DOMAIN files' \subseteq listed'
           /\ Cardinality(listed') <= IF listed' \subseteq DOMAIN files' THEN Bound' + 1 ELSE Bound'
    BY <2>1, <2>4, <2>5, <2>9
  <2> QED BY <2>10, <2>11, <2>12 DEF CountInv
<1>9. CASE UNCHANGED vars
  BY <1>9, <1>c, <1>s DEF CountInv, vars, ioVars, envVars
<1> QED
  BY <1>1, <1>2, <1>3, <1>4, <1>5, <1>6, <1>7, <1>8, <1>9, <1>10 DEF Next, WriterStep
-----------------------------------------------------------------------------
(***************************************************************************)
(* The lines between the caller and the disk.                              *)
(***************************************************************************)
LEMMA RangeOfRun ==
  ASSUME NEW S, NEW s \in Seq(S), NEW a \in Int, \A i \in DOMAIN s : s[i] = a + i
  PROVE  Range(s) = a + 1 .. a + Len(s)
<1>1. DOMAIN s = 1 .. Len(s) /\ Len(s) \in Nat
  OBVIOUS
<1>2. \A n \in a + 1 .. a + Len(s) : n - a \in DOMAIN s /\ s[n - a] = n
  BY <1>1
<1>3. \A i \in DOMAIN s : s[i] \in a + 1 .. a + Len(s)
  BY <1>1
<1> QED BY <1>2, <1>3 DEF Range

LEMMA GreatestOfRun ==
  ASSUME NEW n \in Nat, 1 .. n # {}
  PROVE  n > 0 /\ Max(1 .. n) = n
<1>1. n \in 1 .. n /\ \A y \in 1 .. n : n >= y
  OBVIOUS
<1>2. \A x \in 1 .. n : (\A y \in 1 .. n : x >= y) => x = n
  BY <1>1
<1> QED BY <1>1, <1>2 DEF Max

(* The numbers of the lines in the batch and in the queue.                 *)
LEMMA LineNumbers ==
  ASSUME TypeOK, LineInv
  PROVE  /\ Done \in Nat /\ logged \in Nat /\ Len(batch) \in Nat /\ Len(logQueue) \in Nat
         /\ Range(batch) = Done + 1 .. Done + Len(batch)
         /\ Range(logQueue) = Done + Len(batch) + 1 .. logged
<1>1. /\ logged \in Nat /\ Len(batch) \in Nat /\ Len(logQueue) \in Nat /\ Done \in Int
      /\ batch \in Seq(1 .. logged) /\ logQueue \in Seq(1 .. logged)
  BY DEF TypeOK, Done
<1>2. Range(batch) = Done + 1 .. Done + Len(batch)
  BY <1>1, RangeOfRun DEF LineInv
<1>3. Range(logQueue) = logged - Len(logQueue) + 1 .. logged - Len(logQueue) + Len(logQueue)
  <2>1. logged - Len(logQueue) \in Int
    BY <1>1
  <2> QED BY <1>1, <2>1, RangeOfRun DEF LineInv
<1>4. logged - Len(logQueue) = Done + Len(batch) /\ logged - Len(logQueue) + Len(logQueue) = logged
  BY <1>1 DEF Done
<1> QED BY <1>1, <1>2, <1>3, <1>4 DEF LineInv

LEMMA TriedLines ==
  ASSUME TypeOK, LineInv
  PROVE  Tried = 1 .. Done /\ Done \in Nat
<1>n. Done \in Nat /\ logged \in Nat /\ Len(batch) \in Nat /\ Len(logQueue) \in Nat
  BY LineNumbers
<1>p. Pending = (Done + 1 .. Done + Len(batch)) \cup (Done + Len(batch) + 1 .. logged)
  BY LineNumbers DEF Pending
<1>l. logged = Done + Len(batch) + Len(logQueue)
  BY <1>n DEF Done
<1>1. ASSUME NEW m PROVE m \in 1 .. Done <=> m \in 1 .. logged /\ m \notin Pending
  <2>1. CASE m \in 1 .. logged
    BY <1>n, <1>p, <1>l, <2>1
  <2>2. CASE m \notin 1 .. logged
    <3>1. 1 .. Done \subseteq 1 .. logged
      BY <1>n, <1>l
    <3> QED BY <2>2, <3>1
  <2> QED BY <2>1, <2>2
<1>2. \A m : m \in Tried <=> m \in 1 .. logged /\ m \notin Pending
  BY DEF Tried
<1>3. \A m : m \in Tried <=> m \in 1 .. Done
  BY <1>1, <1>2
<1>4. Tried = 1 .. Done
  BY <1>3
<1> QED BY <1>n, <1>4

LEMMA DiskLines == \A m : m \in OnDisk <=> \E f \in DOMAIN files : m \in Holds(f)
BY DEF OnDisk, Holds

(* What the steps that change the directory do to the lines in it.         *)
LEMMA OpenedLines ==
  ASSUME TypeOK, NEW n \in Names, OpenCurrentLogFile(n)
  PROVE  /\ DOMAIN files \subseteq DOMAIN files' /\ DOMAIN files' \subseteq DOMAIN files \cup {n}
         /\ \A f \in DOMAIN files : files'[f] = files[f]
         /\ \A f \in DOMAIN files' \ DOMAIN files : files'[f].lines = <<>>
         /\ OnDisk' = OnDisk
<1>o. files' = Opened(n) \/ files' = files
  BY DEF OpenCurrentLogFile
<1>1. /\ DOMAIN files \subseteq DOMAIN files' /\ DOMAIN files' \subseteq DOMAIN files \cup {n}
      /\ \A f \in DOMAIN files : files'[f] = files[f]
  BY <1>o, OpenedFiles
<1>2. \A f \in DOMAIN files' \ DOMAIN files : files'[f].lines = <<>>
  BY <1>o, <1>1 DEF Opened
<1>3. Range(<<>>) = {}
  BY DEF Range
<1>4. ASSUME NEW m PROVE m \in OnDisk' <=> m \in OnDisk
  <2>1. m \in OnDisk <=> \E f \in DOMAIN files : m \in Range(files[f].lines)
    BY DEF OnDisk
  <2>2. m \in OnDisk' <=> \E f \in DOMAIN files' : m \in Range(files'[f].lines)
    BY DEF OnDisk
  <2> QED BY <1>1, <1>2, <1>3, <2>1, <2>2
<1> QED BY <1>1, <1>2, <1>4

LEMMA KeptLines ==
  ASSUME TypeOK, NEW F, files' = Without(F)
  PROVE  /\ DOMAIN files' = DOMAIN files \ F
         /\ \A f \in DOMAIN files \ F : files'[f] = files[f]
         /\ \A m : m \in OnDisk' <=> \E f \in DOMAIN files \ F : m \in Holds(f)
<1>1. /\ DOMAIN files' = DOMAIN files \ F
      /\ \A f \in DOMAIN files \ F : files'[f] = files[f]
  BY WithoutFiles
<1>2. \A m : m \in OnDisk' <=> \E f \in DOMAIN files' : m \in Range(files'[f].lines)
  BY DEF OnDisk
<1> QED BY <1>1, <1>2 DEF Holds

(* The ends of the queue, as the writer takes them apart, and its new end. *)
LEMMA SplitAt ==
  ASSUME NEW S, NEW s \in Seq(S), NEW n \in 1 .. Len(s)
  PROVE  /\ Len(SubSeq(s, 1, n)) = n /\ DOMAIN SubSeq(s, 1, n) = 1 .. n
         /\ \A i \in 1 .. n : SubSeq(s, 1, n)[i] = s[i]
         /\ Len(SubSeq(s, n + 1, Len(s))) = Len(s) - n
         /\ DOMAIN SubSeq(s, n + 1, Len(s)) = 1 .. Len(s) - n
         /\ \A i \in 1 .. Len(s) - n : SubSeq(s, n + 1, Len(s))[i] = s[n + i]
OBVIOUS

LEMMA AppendedAt ==
  ASSUME NEW S, NEW s \in Seq(S), NEW e \in S
  PROVE  /\ Len(Append(s, e)) = Len(s) + 1
         /\ DOMAIN Append(s, e) = 1 .. Len(s) + 1
         /\ \A i \in 1 .. Len(s) : Append(s, e)[i] = s[i]
         /\ Append(s, e)[Len(s) + 1] = e
OBVIOUS

LEMMA PutLines ==
  ASSUME TypeOK, pc = "put", open, NEW n \in 0 .. Len(batch), NEW t \in 0 .. now,
         files' = Written(n, t)
  PROVE  /\ DOMAIN files' = DOMAIN files /\ current \in DOMAIN files
         /\ files'[current].lines = files[current].lines \o SubSeq(batch, 1, n)
         /\ Range(files'[current].lines) = Holds(current) \cup Range(SubSeq(batch, 1, n))
         /\ \A f \in DOMAIN files \ {current} : files'[f] = files[f]
         /\ OnDisk' = OnDisk \cup Range(SubSeq(batch, 1, n))
<1>1. /\ current \in DOMAIN files /\ files \in [DOMAIN files -> File]
      /\ SubSeq(batch, 1, n) \in Seq(1 .. logged)
  BY Parts DEF TypeOK, File
<1>3. /\ DOMAIN files' = DOMAIN files
      /\ files'[current].lines = files[current].lines \o SubSeq(batch, 1, n)
      /\ \A f \in DOMAIN files \ {current} : files'[f] = files[f]
  BY WrittenFiles
<1>4. Range(files'[current].lines) = Holds(current) \cup Range(SubSeq(batch, 1, n))
  <2>1. files[current].lines \in Seq(1 .. logged)
    BY <1>1 DEF File
  <2> DEFINE a == SubSeq(batch, 1, n)
  <2>a. a \in Seq(1 .. logged)
    BY <1>1
  <2> HIDE DEF a
  <2>b. Range(files[current].lines \o a) = Range(files[current].lines) \cup Range(a)
    BY <2>1, <2>a, JoinedRange
  <2>2. Range(files[current].lines \o SubSeq(batch, 1, n))
          = Range(files[current].lines) \cup Range(SubSeq(batch, 1, n))
    BY <2>b DEF a
  <2> QED BY <1>3, <2>2 DEF Holds
<1>5. \A m : m \in OnDisk' <=> \E f \in DOMAIN files' : m \in Range(files'[f].lines)
  BY DEF OnDisk
<1>6. \A m : m \in OnDisk <=> \E f \in DOMAIN files : m \in Range(files[f].lines)
  BY DEF OnDisk
<1> QED BY <1>1, <1>3, <1>4, <1>5, <1>6 DEF Holds

(* The numbers of the lines a write took of the batch, and left.           *)
LEMMA BatchParts ==
  ASSUME TypeOK, LineInv, NEW n \in 0 .. Len(batch)
  PROVE  /\ Range(SubSeq(batch, 1, n)) = Done + 1 .. Done + n
         /\ Range(SubSeq(batch, n + 1, Len(batch))) = Done + n + 1 .. Done + Len(batch)
         /\ SubSeq(batch, 1, n) \in Seq(Nat)
         /\ \A i \in DOMAIN SubSeq(batch, 1, n) : SubSeq(batch, 1, n)[i] = Done + i
<1>1. /\ Done \in Nat /\ Len(batch) \in Nat /\ batch \in Seq(1 .. logged) /\ logged \in Nat
      /\ \A i \in 1 .. Len(batch) : batch[i] = Done + i
  <2>1. Done \in Nat /\ Len(batch) \in Nat /\ batch \in Seq(1 .. logged) /\ logged \in Nat
    BY LineNumbers DEF TypeOK
  <2>2. DOMAIN batch = 1 .. Len(batch)
    BY <2>1
  <2> QED BY <2>1, <2>2 DEF LineInv
<1>2. batch \in Seq(Nat)
  <2>1. 1 .. logged \subseteq Nat
    BY <1>1
  <2> QED BY <1>1, <2>1
<1> DEFINE a == SubSeq(batch, 1, n)
           b == SubSeq(batch, n + 1, Len(batch))
<1>3. /\ a \in Seq(Nat) /\ Len(a) = n /\ DOMAIN a = 1 .. n
      /\ \A i \in 1 .. n : a[i] = batch[i]
  BY <1>1, <1>2
<1>4. /\ b \in Seq(Nat) /\ Len(b) = Len(batch) - n /\ DOMAIN b = 1 .. Len(batch) - n
      /\ \A i \in 1 .. Len(batch) - n : b[i] = batch[n + i]
  BY <1>1, <1>2
<1> HIDE DEF a, b
<1>5. \A i \in DOMAIN a : a[i] = Done + i
  <2>1. \A i \in 1 .. n : i \in 1 .. Len(batch)
    BY <1>1
  <2> QED BY <1>1, <1>3, <2>1
<1>6. \A i \in DOMAIN b : b[i] = Done + n + i
  <2>1. ASSUME NEW i \in 1 .. Len(batch) - n PROVE b[i] = Done + n + i
    <3>n. Done \in Nat /\ Len(batch) \in Nat
      BY <1>1
    <3>1. n + i \in 1 .. Len(batch)
      BY <3>n
    <3>2. b[i] = Done + (n + i)
      BY <1>1, <1>4, <3>1
    <3> QED BY <3>n, <3>2
  <2> QED BY <1>4, <2>1
<1>7. Range(a) = Done + 1 .. Done + n
  <2>1. Done \in Int
    BY <1>1
  <2> QED BY <1>3, <1>5, <2>1, RangeOfRun
<1>8. Range(b) = Done + n + 1 .. Done + n + (Len(batch) - n)
  <2>1. Done + n \in Int
    BY <1>1
  <2> QED BY <1>4, <1>6, <2>1, RangeOfRun
<1>9. Done + n + (Len(batch) - n) = Done + Len(batch)
  BY <1>1
<1> QED BY <1>3, <1>5, <1>7, <1>8, <1>9 DEF a, b

LEMMA LineStep == TypeOK /\ LineInv /\ [Next]_vars => LineInv'
<1> SUFFICES ASSUME TypeOK, LineInv, [Next]_vars PROVE LineInv'
  OBVIOUS
<1>t. /\ Done \in Nat /\ logged \in Nat /\ Len(batch) \in Nat /\ Len(logQueue) \in Nat
      /\ batch \in Seq(1 .. logged) /\ logQueue \in Seq(1 .. logged)
      /\ Range(batch) = Done + 1 .. Done + Len(batch)
      /\ Range(logQueue) = Done + Len(batch) + 1 .. logged
      /\ MaxBackupFiles \in Nat
  BY LineNumbers DEF TypeOK
<1>n. Done \in Nat /\ logged \in Nat /\ Len(batch) \in Nat /\ Len(logQueue) \in Nat
  BY <1>t
<1>u. /\ files' = files => OnDisk' = OnDisk
      /\ OnDisk \subseteq 1 .. Done /\ lost \subseteq 1 .. Done
  BY DEF OnDisk, LineInv
<1>q. logQueue \in Seq(Nat) /\ batch \in Seq(Nat)
  <2>1. 1 .. logged \subseteq Nat
    OBVIOUS
  <2> QED BY <1>t, <2>1
<1>1. CASE LogAsync
  <2>1. /\ logged' = logged + 1 /\ logQueue' = Append(logQueue, logged + 1)
        /\ batch' = batch /\ lost' = lost /\ async' = async /\ async
        /\ pc' = IF pc = "asleep" THEN "idle" ELSE pc
    BY <1>1 DEF LogAsync
  <2>a. /\ Len(logQueue') = Len(logQueue) + 1
        /\ DOMAIN logQueue' = 1 .. Len(logQueue) + 1
        /\ \A i \in 1 .. Len(logQueue) : logQueue'[i] = logQueue[i]
        /\ logQueue'[Len(logQueue) + 1] = logged + 1
    <3>1. logged + 1 \in Nat
      BY <1>n
    <3> QED BY <1>q, <2>1, <3>1, AppendedAt
  <2>2. Done' = Done
    BY <1>n, <2>1, <2>a DEF Done
  <2>3. \A i \in DOMAIN logQueue' : logQueue'[i] = logged' - Len(logQueue') + i
    <3>1. \A i \in 1 .. Len(logQueue) : logQueue[i] = logged - Len(logQueue) + i
      <4>1. DOMAIN logQueue = 1 .. Len(logQueue)
        BY <1>q
      <4> QED BY <4>1 DEF LineInv
    <3>2. ASSUME NEW i \in 1 .. Len(logQueue) + 1
          PROVE  logQueue'[i] = logged + 1 - (Len(logQueue) + 1) + i
      <4>1. CASE i = Len(logQueue) + 1
        BY <1>n, <2>a, <4>1
      <4>2. CASE i # Len(logQueue) + 1
        <5>1. i \in 1 .. Len(logQueue)
          BY <1>n, <4>2
        <5>2. logQueue'[i] = logged - Len(logQueue) + i
          BY <2>a, <3>1, <5>1
        <5> QED BY <1>n, <5>1, <5>2
      <4> QED BY <4>1, <4>2
    <3>3. DOMAIN logQueue' = 1 .. Len(logQueue) + 1 /\ Len(logQueue') = Len(logQueue) + 1 /\ logged' = logged + 1
      BY <2>1, <2>a
    <3>4. ASSUME NEW i \in DOMAIN logQueue' PROVE logQueue'[i] = logged' - Len(logQueue') + i
      <4>1. logQueue'[i] = logged + 1 - (Len(logQueue) + 1) + i
        BY <3>2, <3>3
      <4>2. i \in Nat /\ logged' \in Nat /\ Len(logQueue') \in Nat
        BY <1>n, <3>3
      <4> QED BY <1>n, <3>3, <4>1, <4>2
    <3> QED BY <3>4
  <2>4. OnDisk' = OnDisk
    BY <1>1, <1>u DEF LogAsync
  <2> QED BY <2>1, <2>2, <2>3, <2>4 DEF LineInv
<1>2. CASE LogSync
  <2>1. /\ logged' = logged + 1 /\ logQueue' = logQueue /\ batch' = <<logged + 1>>
        /\ lost' = lost /\ async' = async /\ logQueue = <<>> /\ batch = <<>> /\ pc' = "exists"
    BY <1>2 DEF LogSync, LineInv
  <2>2. Len(batch') = 1 /\ Len(logQueue) = 0 /\ Len(batch) = 0
    BY <2>1
  <2>3. Done = logged /\ Done' = logged
    BY <1>n, <2>1, <2>2 DEF Done
  <2>4. OnDisk' = OnDisk
    BY <1>2, <1>u DEF LogSync
  <2>5. \A i \in DOMAIN batch' : batch'[i] = Done' + i
    BY <2>1, <2>3
  <2> QED BY <1>n, <1>u, <2>1, <2>3, <2>4, <2>5 DEF LineInv
<1>3. CASE TakeBatch
  <2>1. PICK n \in 1 .. Len(logQueue) :
          /\ batch' = SubSeq(logQueue, 1, n)
          /\ logQueue' = SubSeq(logQueue, n + 1, Len(logQueue))
    <3>1. Len(logQueue) \in Nat \ {0} /\ BatchSize \in Nat \ {0}
      BY <1>3, <1>t DEF TakeBatch
    <3>2. (IF Len(logQueue) < BatchSize THEN Len(logQueue) ELSE BatchSize) \in 1 .. Len(logQueue)
      BY <3>1
    <3> QED BY <1>3, <3>2 DEF TakeBatch
  <2>2. /\ logged' = logged /\ lost' = lost /\ async' = async /\ async
        /\ batch = <<>> /\ pc' = "exists"
    BY <1>3 DEF TakeBatch, LineInv
  <2>3. /\ Len(batch') = n /\ DOMAIN batch' = 1 .. n
        /\ \A i \in 1 .. n : batch'[i] = logQueue[i]
    BY <1>q, <2>1, SplitAt
  <2>4. /\ Len(logQueue') = Len(logQueue) - n /\ DOMAIN logQueue' = 1 .. Len(logQueue) - n
        /\ \A i \in 1 .. Len(logQueue) - n : logQueue'[i] = logQueue[n + i]
    BY <1>q, <2>1, SplitAt
  <2>5. Done' = Done /\ Done = logged - Len(logQueue)
    <3>1. Len(batch) = 0
      BY <2>2
    <3> QED BY <1>n, <2>2, <2>3, <2>4, <3>1 DEF Done
  <2>6. \A i \in 1 .. Len(logQueue) : logQueue[i] = logged - Len(logQueue) + i
    <3>1. DOMAIN logQueue = 1 .. Len(logQueue)
      BY <1>q
    <3> QED BY <3>1 DEF LineInv
  <2>7. \A i \in DOMAIN batch' : batch'[i] = Done' + i
    <3>1. \A i \in 1 .. n : i \in 1 .. Len(logQueue)
      BY <1>n
    <3> QED BY <2>3, <2>5, <2>6, <3>1
  <2>8. \A i \in DOMAIN logQueue' : logQueue'[i] = logged' - Len(logQueue') + i
    <3>1. ASSUME NEW i \in 1 .. Len(logQueue) - n
          PROVE  logQueue'[i] = logged - Len(logQueue') + i
      <4>1. n + i \in 1 .. Len(logQueue)
        BY <1>n
      <4>2. logQueue'[i] = logged - Len(logQueue) + (n + i)
        BY <2>4, <2>6, <4>1
      <4> QED BY <1>n, <2>4, <4>2
    <3> QED BY <2>2, <2>4, <3>1
  <2>9. batch' # <<>>
    BY <2>3
  <2>10. OnDisk' = OnDisk
    BY <1>3, <1>u DEF TakeBatch
  <2> QED BY <2>2, <2>5, <2>7, <2>8, <2>9, <2>10 DEF LineInv
<1>4. CASE Put \/ PutFails \/ Throws
  <2>p. ASSUME (Put /\ open) \/ PutFails
        PROVE  /\ OnDisk' \subseteq OnDisk \cup Range(batch)
               /\ lost' \subseteq lost \cup Range(batch)
    <3>1. pc = "put" /\ open
      BY <2>p, SomeWritten
    <3>2. PICK n \in 0 .. Len(batch), m \in 0 .. now :
            /\ files' = Written(n, m)
            /\ lost' = lost \cup Range(SubSeq(batch, n + 1, Len(batch)))
      BY <2>p, SomeWritten
    <3>3. OnDisk' = OnDisk \cup Range(SubSeq(batch, 1, n))
      BY <3>1, <3>2, PutLines
    <3>4. /\ Range(SubSeq(batch, 1, n)) = Done + 1 .. Done + n
          /\ Range(SubSeq(batch, n + 1, Len(batch))) = Done + n + 1 .. Done + Len(batch)
      BY BatchParts
    <3>5. /\ Done + 1 .. Done + n \subseteq Done + 1 .. Done + Len(batch)
          /\ Done + n + 1 .. Done + Len(batch) \subseteq Done + 1 .. Done + Len(batch)
      BY <1>n
    <3> QED BY <1>t, <3>2, <3>3, <3>4, <3>5
  <2>1. /\ logged' = logged /\ logQueue' = logQueue /\ batch' = <<>> /\ async' = async
        /\ pc' \in {"idle", "ended"} /\ lost' \subseteq lost \cup Range(batch)
    <3>1. CASE PutFails
      BY <2>p, <3>1 DEF PutFails
    <3>2. CASE Put \/ Throws
      BY <3>2 DEF Put, Throws
    <3> QED BY <1>4, <3>1, <3>2
  <2>2. Done' = Done + Len(batch)
    <3>1. Len(batch') = 0
      BY <2>1
    <3> QED BY <1>n, <2>1, <3>1 DEF Done
  <2>a. 1 .. Done \subseteq 1 .. Done' /\ Range(batch) \subseteq 1 .. Done'
    <3>1. Done + 1 .. Done + Len(batch) \subseteq 1 .. Done + Len(batch)
      BY <1>n
    <3>2. 1 .. Done \subseteq 1 .. Done + Len(batch)
      BY <1>n
    <3> QED BY <1>t, <2>2, <3>1, <3>2
  <2>3. lost' \subseteq 1 .. Done'
    BY <1>u, <2>1, <2>a
  <2>4. Done' >= 0
    BY <1>n, <2>2
  <2>5. OnDisk' \subseteq OnDisk \cup Range(batch)
    <3>1. CASE (Put /\ open) \/ PutFails
      BY <2>p, <3>1
    <3>2. CASE (Put /\ ~open) \/ Throws
      BY <1>u, <3>2 DEF Put, Throws
    <3> QED BY <1>4, <3>1, <3>2
  <2>6. OnDisk' \subseteq 1 .. Done'
    BY <1>u, <2>a, <2>5
  <2> QED BY <2>1, <2>3, <2>4, <2>6 DEF LineInv
<1>5. CASE Restart
  <2>1. /\ logged' = logged /\ logQueue' = <<>> /\ batch' = <<>> /\ async' = async /\ pc' = "idle"
        /\ lost' = lost \cup Range(logQueue) \cup Range(batch)
    BY <1>5 DEF Restart
  <2>2. Done' = logged /\ Done + Len(batch) <= logged
    <3>1. Len(batch') = 0 /\ Len(logQueue') = 0
      BY <2>1
    <3> QED BY <1>n, <2>1, <3>1 DEF Done
  <2>a. /\ 1 .. Done \subseteq 1 .. Done'
        /\ Range(batch) \subseteq 1 .. Done' /\ Range(logQueue) \subseteq 1 .. Done'
    <3>1. Done + 1 .. Done + Len(batch) \subseteq 1 .. logged
      BY <1>n, <2>2
    <3>2. Done + Len(batch) + 1 .. logged \subseteq 1 .. logged
      BY <1>n, <2>2
    <3>3. 1 .. Done \subseteq 1 .. logged
      BY <1>n, <2>2
    <3> QED BY <1>t, <2>2, <3>1, <3>2, <3>3
  <2>3. lost' \subseteq 1 .. Done'
    BY <1>u, <2>1, <2>a
  <2>4. OnDisk' = OnDisk
    BY <1>5, OpenedLines, SecondIsName DEF Restart
  <2>5. OnDisk' \subseteq 1 .. Done'
    BY <1>u, <2>4, <2>a
  <2>6. Done' >= 0
    BY <1>n, <2>2
  <2> QED BY <2>1, <2>3, <2>5, <2>6 DEF LineInv
<1>6. ASSUME NEW f \in Names, Delete(f) PROVE LineInv'
  <2>1. /\ UNCHANGED <<async, logQueue, batch, pc, logged>> /\ f \in DOMAIN files
        /\ lost' = lost \cup Holds(f) /\ files' = Without({f})
    BY <1>6 DEF Delete, Holds
  <2>2. Done' = Done
    BY <2>1 DEF Done
  <2>3. Holds(f) \subseteq OnDisk /\ OnDisk' \subseteq OnDisk
    BY <2>1, KeptLines, DiskLines
  <2> QED BY <1>u, <2>1, <2>2, <2>3 DEF LineInv
<1>7. CASE Rotate \/ ExistsNot \/ Purge
  <2>1. OnDisk' \subseteq OnDisk
    <3>1. CASE Rotate \/ ExistsNot
      BY <3>1, OpenedLines, SecondIsName DEF Rotate, ExistsNot, TypeOK
    <3>2. CASE Purge
      <4>1. PICK R : files' = Without(R)
        BY <3>2 DEF Purge
      <4> QED BY <4>1, KeptLines, DiskLines
    <3> QED BY <1>7, <3>1, <3>2
  <2>2. /\ UNCHANGED <<async, logQueue, batch, logged, lost>>
        /\ pc \in {"exists", "size", "purge"} /\ pc' \in {"list", "put"}
        /\ pc' = "list" => MaxBackupFiles > 0
    BY <1>t, <1>7 DEF Rotate, ExistsNot, Purge
  <2>3. Done' = Done
    BY <2>2 DEF Done
  <2> QED BY <1>u, <2>1, <2>2, <2>3 DEF LineInv
<1>8. CASE Sleep \/ Exists \/ Fits \/ List \/ Tick \/ UNCHANGED vars
  <2>1. UNCHANGED <<async, logQueue, batch, logged, lost, files>>
    BY <1>8 DEF Sleep, Exists, Fits, List, Tick, ioVars, vars
  <2>2. Done' = Done /\ OnDisk' = OnDisk
    BY <2>1 DEF Done, OnDisk
  <2>3. \/ pc' = pc
        \/ pc = "idle" /\ pc' = "asleep"
        \/ pc \in {"exists", "size"} /\ pc' \in {"size", "put"}
        \/ pc = "list" /\ pc' = "purge"
    BY <1>8 DEF Sleep, Exists, Fits, List, Tick, ioVars, vars
  <2> QED BY <2>1, <2>2, <2>3 DEF LineInv
<1> QED
  BY <1>1, <1>2, <1>3, <1>4, <1>5, <1>6, <1>7, <1>8 DEF Next, WriterStep
-----------------------------------------------------------------------------
(***************************************************************************)
(* The lines on the disk.                                                  *)
(***************************************************************************)

(* Steps that open a file at most, and lose lines that were not tried yet. *)
LEMMA SameLines ==
  ASSUME TypeOK, LineInv, OrderInv, NEW k \in Nat,
         DOMAIN files \subseteq DOMAIN files',
         \A f \in DOMAIN files : files'[f].lines = files[f].lines,
         \A f \in DOMAIN files' \ DOMAIN files : files'[f].lines = <<>>,
         Done' = Done + k, lost' = lost \cup (Done + 1 .. Done + k)
  PROVE  OrderInv' /\ OnDisk' = OnDisk
<1>1. /\ \A f \in DOMAIN files : Holds(f)' = Holds(f)
      /\ \A f \in DOMAIN files' \ DOMAIN files : Holds(f)' = {}
  BY DEF Holds, Range
<1>2. OnDisk' = OnDisk
  <2>1. \A m : m \in OnDisk <=> \E f \in DOMAIN files : m \in Holds(f)
    BY DEF OnDisk, Holds
  <2>2. \A m : m \in OnDisk' <=> \E f \in DOMAIN files' : m \in Holds(f)'
    BY DEF OnDisk, Holds
  <2>3. ASSUME NEW m \in OnDisk' PROVE m \in OnDisk
    <3>1. PICK f \in DOMAIN files' : m \in Holds(f)'
      BY <2>2
    <3>2. f \in DOMAIN files /\ m \in Holds(f)
      BY <1>1, <3>1
    <3> QED BY <2>1, <3>2
  <2>4. ASSUME NEW m \in OnDisk PROVE m \in OnDisk'
    <3>1. PICK f \in DOMAIN files : m \in Holds(f)
      BY <2>1
    <3>2. f \in DOMAIN files' /\ m \in Holds(f)'
      BY <1>1, <3>1
    <3> QED BY <2>2, <3>2
  <2> QED BY <2>3, <2>4
<1>3. Done \in Nat /\ OnDisk \subseteq 1 .. Done
  BY LineNumbers DEF LineInv
<1>n. \A m \in 1 .. Done : m \notin Done + 1 .. Done + k
  BY <1>3
<1>m. \A n \in 1 .. Done + k : n \in 1 .. Done \/ n \in Done + 1 .. Done + k
  BY <1>3
<1>4. \A f \in DOMAIN files' : \A i, j \in DOMAIN files'[f].lines :
        i < j => files'[f].lines[i] < files'[f].lines[j]
  BY DEF OrderInv
<1>5. \A f, g \in DOMAIN files' : f < g => \A m \in Holds(f)', n \in Holds(g)' : m < n
  BY <1>1 DEF OrderInv
<1>6. OnDisk' \cap lost' = {}
  BY <1>2, <1>3, <1>n DEF OrderInv
<1>7. \A m \in OnDisk', n \in 1 .. Done' : m < n => n \in OnDisk' \cup lost'
  BY <1>2, <1>m DEF OrderInv
<1> QED BY <1>2, <1>4, <1>5, <1>6, <1>7 DEF OrderInv

(* What the batch and the queue lose is lost as tried.                     *)
LEMMA QuietDisk ==
  ASSUME TypeOK, LineInv, DiskInv, tied' = tied,
         \/ LogAsync \/ LogSync \/ Sleep \/ TakeBatch \/ ExistsNot \/ Exists \/ Fits \/ List \/ Tick
         \/ UNCHANGED vars
  PROVE  DiskInv'
<1> SUFFICES ASSUME ~tied PROVE OrderInv' /\ LastInv'
  BY DEF DiskInv
<1>1. OrderInv /\ LastInv /\ Done \in Nat
  BY LineNumbers DEF DiskInv
<1>2. Done' = Done /\ lost' = lost /\ current' = current
  <2>1. lost' = lost /\ current' = current
    BY DEF LogAsync, LogSync, Sleep, TakeBatch, ExistsNot, Exists, Fits, List, Tick, ioVars, vars
  <2>2. /\ logged \in Nat /\ Len(batch) \in Nat /\ Len(logQueue) \in Nat
        /\ logQueue \in Seq(1 .. logged)
    BY DEF TypeOK
  <2>3. CASE LogAsync
    <3>1. Len(logQueue') = Len(logQueue) + 1
      BY <2>2, <2>3 DEF LogAsync
    <3> QED BY <2>1, <2>2, <2>3, <3>1 DEF LogAsync, Done
  <2>4. CASE LogSync
    <3>1. batch = <<>> /\ Len(batch') = 1
      BY <2>4 DEF LogSync, LineInv
    <3> QED BY <2>1, <2>2, <2>4, <3>1 DEF LogSync, Done
  <2>5. CASE TakeBatch
    <3>1. PICK n \in 0 .. Len(logQueue) :
            /\ batch' = SubSeq(logQueue, 1, n)
            /\ logQueue' = SubSeq(logQueue, n + 1, Len(logQueue))
      <4>1. BatchSize \in Nat
        OBVIOUS
      <4>2. (IF Len(logQueue) < BatchSize THEN Len(logQueue) ELSE BatchSize) \in 0 .. Len(logQueue)
        BY <2>2, <4>1
      <4> QED BY <2>5, <4>2 DEF TakeBatch
    <3>2. Len(batch') = n /\ Len(logQueue') = Len(logQueue) - n
      BY <2>2, <3>1
    <3>3. batch = <<>> /\ logged' = logged
      BY <2>5 DEF TakeBatch, LineInv
    <3> QED BY <2>1, <2>2, <3>2, <3>3 DEF Done
  <2>6. CASE Sleep \/ ExistsNot \/ Exists \/ Fits \/ List \/ Tick \/ UNCHANGED vars
    BY <2>1, <2>6 DEF Sleep, ExistsNot, Exists, Fits, List, Tick, ioVars, vars, Done
  <2> QED BY <2>3, <2>4, <2>5, <2>6
<1>3. /\ DOMAIN files \subseteq DOMAIN files'
      /\ \A f \in DOMAIN files : files'[f].lines = files[f].lines
      /\ \A f \in DOMAIN files' \ DOMAIN files : files'[f].lines = <<>>
      /\ pc' \in {"list", "purge"} => files' = files
  <2>1. CASE ExistsNot
    <3>1. OpenCurrentLogFile(current) /\ current \in Names /\ pc' = "put"
      BY <2>1 DEF ExistsNot, TypeOK
    <3> QED BY <3>1, OpenedLines
  <2>2. CASE ~ExistsNot
    <3>1. files' = files
      BY <2>2 DEF LogAsync, LogSync, Sleep, TakeBatch, Exists, Fits, List, Tick, ioVars, vars
    <3> QED BY <3>1
  <2> QED BY <2>1, <2>2
<1>4. OrderInv' /\ OnDisk' = OnDisk
  <2>1. Done' = Done + 0 /\ lost' = lost \cup (Done + 1 .. Done + 0)
    BY <1>1, <1>2
  <2> QED BY <1>1, <1>3, <2>1, SameLines
<1>5. /\ pc = "put" => pc' = "put"
      /\ pc' \in {"list", "purge"} => pc \in {"list", "purge"}
  BY DEF LogAsync, LogSync, Sleep, TakeBatch, ExistsNot, Exists, Fits, List, Tick, ioVars, vars
<1>6. LastInv'
  <2>1. CASE pc' \in {"list", "purge"}
    <3>1. files' = files
      BY <1>3, <2>1
    <3> QED BY <1>1, <1>2, <1>4, <1>5, <2>1, <3>1 DEF LastInv, Holds
  <2>2. CASE pc' \notin {"list", "purge"}
    BY <1>1, <1>2, <1>4, <1>5, <2>2 DEF LastInv
  <2> QED BY <2>1, <2>2
<1> QED BY <1>4, <1>6

LEMMA LosingDisk ==
  ASSUME TypeOK, LineInv, DiskInv, Throws \/ Restart \/ (Put /\ ~open)
  PROVE  DiskInv'
<1>t. /\ Done \in Nat /\ logged \in Nat /\ Len(batch) \in Nat /\ Len(logQueue) \in Nat
      /\ Range(batch) = Done + 1 .. Done + Len(batch)
      /\ Range(logQueue) = Done + Len(batch) + 1 .. logged
      /\ logged = Done + Len(batch) + Len(logQueue)
  BY LineNumbers DEF Done
<1>n. /\ Done \in Nat /\ logged \in Nat /\ Len(batch) \in Nat /\ Len(logQueue) \in Nat
      /\ logged = Done + Len(batch) + Len(logQueue)
  BY <1>t
<1>1. /\ tied' = tied /\ logged' = logged /\ pc' \in {"idle", "ended"}
      /\ batch' = <<>> /\ Len(batch') = 0
  BY DEF Throws, Restart, Put
<1> SUFFICES ASSUME ~tied PROVE OrderInv' /\ LastInv'
  BY <1>1 DEF DiskInv
<1>2. OrderInv /\ LastInv
  BY DEF DiskInv
<1>3. PICK k \in Nat : /\ Done' = Done + k /\ lost' = lost \cup (Done + 1 .. Done + k)
                       /\ Len(batch) <= k
  <2>1. CASE Throws \/ (Put /\ ~open)
    <3>1. logQueue' = logQueue /\ lost' = lost \cup Range(batch)
      BY <2>1 DEF Throws, Put
    <3>2. Done' = Done + Len(batch)
      BY <1>n, <1>1, <3>1 DEF Done
    <3>3. Len(batch) \in Nat /\ lost' = lost \cup (Done + 1 .. Done + Len(batch)) /\ Len(batch) <= Len(batch)
      BY <1>t, <3>1
    <3> QED BY <3>2, <3>3
  <2>2. CASE Restart
    <3>1. logQueue' = <<>> /\ lost' = lost \cup Range(logQueue) \cup Range(batch)
      BY <2>2 DEF Restart
    <3>2. Done' = logged
      <4>1. Len(logQueue') = 0
        BY <3>1
      <4> QED BY <1>n, <1>1, <4>1 DEF Done
    <3>3. Range(logQueue) \cup Range(batch) = Done + 1 .. logged
      <4>1. (Done + 1 .. Done + Len(batch)) \cup (Done + Len(batch) + 1 .. logged) = Done + 1 .. logged
        BY <1>n
      <4> QED BY <1>t, <4>1
    <3> DEFINE j == Len(batch) + Len(logQueue)
    <3>4. j \in Nat /\ Len(batch) <= j /\ logged = Done + j
      BY <1>n
    <3>5. lost' = lost \cup (Done + 1 .. Done + j)
      BY <3>1, <3>3, <3>4
    <3> QED BY <3>2, <3>4, <3>5
  <2> QED BY <2>1, <2>2
<1>4. /\ DOMAIN files \subseteq DOMAIN files'
      /\ \A f \in DOMAIN files : files'[f].lines = files[f].lines
      /\ \A f \in DOMAIN files' \ DOMAIN files : files'[f].lines = <<>>
  <2>1. CASE Restart
    <3>1. OpenCurrentLogFile(Second) /\ Second \in Names
      BY <2>1, SecondIsName DEF Restart
    <3> QED BY <3>1, OpenedLines
  <2>2. CASE Throws \/ (Put /\ ~open)
    <3>1. files' = files
      BY <2>2 DEF Throws, Put
    <3> QED BY <3>1
  <2> QED BY <2>1, <2>2
<1>5. OrderInv' /\ OnDisk' = OnDisk
  BY <1>2, <1>3, <1>4, SameLines
<1>6. ASSUME Done' > 0 PROVE Done' \in OnDisk' \cup lost'
  <2>1. CASE k > 0
    BY <1>t, <1>3, <2>1
  <2>2. CASE k = 0
    <3>1. batch = <<>>
      BY <1>t, <1>3, <2>2 DEF TypeOK
    <3>2. pc # "put"
      BY <3>1 DEF LineInv
    <3> QED BY <1>t, <1>2, <1>3, <1>5, <1>6, <2>2, <3>2 DEF LastInv
  <2> QED BY <2>1, <2>2
<1> QED BY <1>1, <1>5, <1>6 DEF LastInv

(* A full file holds the last line tried, if that is on the disk.          *)
LEMMA RotateDisk ==
  ASSUME TypeOK, NameInv, LineInv, DiskInv, Rotate
  PROVE  DiskInv'
<1>1. /\ pc = "size" /\ current \in DOMAIN files /\ Full /\ current' = Second
      /\ OpenCurrentLogFile(Second) /\ UNCHANGED <<logged, logQueue, batch, lost, tied>>
      /\ pc' \in {"list", "put"} /\ (pc' = "put" => MaxBackupFiles = 0)
  BY DEF Rotate
<1> SUFFICES ASSUME ~tied PROVE OrderInv' /\ LastInv'
  BY <1>1 DEF DiskInv
<1>2. OrderInv /\ LastInv /\ Done \in Nat
  BY LineNumbers DEF DiskInv
<1>3. Done' = Done
  BY <1>1 DEF Done
<1>4. /\ DOMAIN files \subseteq DOMAIN files' /\ DOMAIN files' \subseteq DOMAIN files \cup {Second}
      /\ \A f \in DOMAIN files : files'[f] = files[f]
      /\ \A f \in DOMAIN files' \ DOMAIN files : files'[f].lines = <<>>
  BY <1>1, OpenedLines, SecondIsName
<1>5. OrderInv' /\ OnDisk' = OnDisk
  <2>1. Done' = Done + 0 /\ lost' = lost \cup (Done + 1 .. Done + 0)
    BY <1>1, <1>2, <1>3
  <2> QED BY <1>2, <1>4, <2>1, SameLines
<1>6. ASSUME Done > 0 PROVE Done \in OnDisk \cup lost
  BY <1>1, <1>2, <1>6 DEF LastInv
<1>7. ASSUME Done > 0, Done \notin lost
      PROVE  Done \in Holds(current)
  <2>1. PICK g \in DOMAIN files : Done \in Holds(g)
    BY <1>6, <1>7 DEF OnDisk, Holds
  <2>2. PICK x \in Holds(current) : x \in OnDisk
    <3>1. files[current].lines \in Seq(1 .. logged)
      BY <1>1 DEF TypeOK
    <3>2. MaxFileSize \in Nat \ {0}
      OBVIOUS
    <3>3. 1 \in DOMAIN files[current].lines
      BY <1>1, <3>1, <3>2 DEF Full
    <3> QED BY <1>1, <3>3 DEF Holds, Range, OnDisk
  <2>3. x \in 1 .. Done
    BY <2>2 DEF LineInv
  <2>4. ~(g < current)
    BY <1>1, <1>2, <2>1, <2>2, <2>3 DEF OrderInv
  <2>5. g \in Nat /\ current \in Nat /\ g <= current
    BY <2>1, SecondIsName DEF TypeOK, NameInv
  <2>6. g = current
    BY <2>4, <2>5
  <2> QED BY <2>1, <2>6
<1>8. ASSUME Done > 0, Done \notin lost
      PROVE  \E g \in DOMAIN files' : /\ Done \in Holds(g)'
                                      /\ \A f \in DOMAIN files' : f > g => f = current'
  <2>1. Holds(current)' = Holds(current)'
    OBVIOUS
  <2>2. Done \in Range(files'[current].lines) /\ current \in DOMAIN files'
    BY <1>1, <1>4, <1>7, <1>8 DEF Holds
  <2>3. ASSUME NEW f \in DOMAIN files', f > current PROVE f = Second
    <3>1. current \in Nat /\ DOMAIN files \subseteq Nat
      BY SecondIsName DEF TypeOK
    <3>2. f \notin DOMAIN files
      BY <2>3, <3>1 DEF NameInv
    <3> QED BY <1>4, <3>2
  <2> QED BY <1>1, <2>2, <2>3 DEF Holds
<1>9. LastInv'
  <2>1. MaxBackupFiles \in Nat
    OBVIOUS
  <2> QED BY <1>1, <1>3, <1>5, <1>6, <1>8 DEF LastInv
<1> QED BY <1>5, <1>9

(* A purge without a choice removes the oldest lines, and never the last   *)
(* one if two files or more are kept.                                      *)
LEMMA PurgeDisk ==
  ASSUME TypeOK, NameInv, CountInv, LineInv, DiskInv, Purge
  PROVE  DiskInv'
<1> SUFFICES ASSUME ~tied' PROVE OrderInv' /\ LastInv'
  BY DEF DiskInv
<1>s. /\ pc = "purge" /\ pc' = "put" /\ Sortable
      /\ UNCHANGED <<logged, logQueue, batch, lost, current>>
      /\ ~tied /\ ~(Cardinality(Oldest(TooMany)) > 1)
  BY DEF Purge
<1>g. ASSUME ~(listed \subseteq DOMAIN files)
      PROVE  OrderInv' /\ LastInv'
  <2>1. Cardinality(listed) = 1 /\ IsFiniteSet(listed) /\ MaxBackupFiles > 0 /\ MaxBackupFiles \in Nat
    BY <1>g, <1>s, DirectorySize DEF LineInv, Sortable
  <2>2. TooMany = 0
    BY <2>1 DEF TooMany
  <2>3. PICK R \in Oldest(TooMany) : files' = Without(R)
    BY DEF Purge
  <2>4. R = {}
    <3>1. R \subseteq listed /\ Cardinality(R) = 0
      BY <2>2 DEF Oldest
    <3> QED BY <2>1, <3>1, FS_Subset, FS_EmptySet
  <2>5. DOMAIN files' = DOMAIN files /\ \A f \in DOMAIN files : files'[f] = files[f]
    BY <2>3, <2>4, WithoutFiles
  <2>6. Done' = Done /\ Done \in Nat /\ OrderInv /\ LastInv
    BY <1>s, LineNumbers DEF Done, DiskInv
  <2>7. Done' = Done + 0 /\ lost' = lost \cup (Done + 1 .. Done + 0)
    BY <1>s, <2>6
  <2>8. OrderInv' /\ OnDisk' = OnDisk
    BY <2>5, <2>6, <2>7, SameLines
  <2> QED BY <1>s, <2>6, <2>8 DEF LastInv
<1> SUFFICES ASSUME listed \subseteq DOMAIN files PROVE OrderInv' /\ LastInv'
  BY <1>g
<1>1. /\ pc = "purge" /\ pc' = "put" /\ listed \subseteq DOMAIN files
      /\ UNCHANGED <<logged, logQueue, batch, lost, current>>
      /\ ~tied /\ ~(Cardinality(Oldest(TooMany)) > 1)
  BY <1>s
<1>2. PICK R \in Oldest(TooMany) : files' = Without(R)
  BY DEF Purge
<1>3. OrderInv /\ LastInv /\ Done \in Nat /\ Done' = Done
  BY <1>1, LineNumbers DEF DiskInv, Done
<1>4. MaxBackupFiles > 0 /\ listed = DOMAIN files
  BY <1>1 DEF LineInv, CountInv
<1>5. \A f \in R, g \in DOMAIN files \ R : f < g
  BY <1>1, <1>2, <1>4, PurgedAreSmallest
<1>6. /\ DOMAIN files' = DOMAIN files \ R
      /\ \A f \in DOMAIN files \ R : files'[f] = files[f] /\ Holds(f)' = Holds(f)
      /\ \A m : m \in OnDisk' <=> \E f \in DOMAIN files \ R : m \in Holds(f)
  BY <1>2, KeptLines DEF Holds
<1>7. \A m : m \in OnDisk <=> \E f \in DOMAIN files : m \in Holds(f)
  BY DEF OnDisk, Holds
<1>8. R \subseteq DOMAIN files /\ Cardinality(R) = TooMany
  BY <1>4 DEF Oldest
<1>9. OrderInv'
  <2>1. \A f \in DOMAIN files' : \A i, j \in DOMAIN files'[f].lines :
          i < j => files'[f].lines[i] < files'[f].lines[j]
    BY <1>3, <1>6 DEF OrderInv
  <2>2. \A f, g \in DOMAIN files' : f < g => \A m \in Holds(f)', n \in Holds(g)' : m < n
    BY <1>3, <1>6 DEF OrderInv
  <2>3. OnDisk' \subseteq OnDisk
    BY <1>6, <1>7
  <2>4. ASSUME NEW m \in OnDisk', NEW n \in 1 .. Done, m < n PROVE n \in OnDisk' \cup lost
    <3>1. PICK g \in DOMAIN files \ R : m \in Holds(g)
      BY <1>6
    <3>2. n \in OnDisk \cup lost
      BY <1>3, <2>3, <2>4 DEF OrderInv
    <3>3. ASSUME NEW h \in DOMAIN files, n \in Holds(h) PROVE h \notin R
      <4>1. ASSUME h \in R PROVE n < m
        BY <1>3, <1>5, <3>1, <3>3, <4>1 DEF OrderInv
      <4>2. m \in Nat /\ n \in Nat
        <5>1. m \in 1 .. Done
          BY <2>3 DEF LineInv
        <5> QED BY <1>3, <5>1
      <4> QED BY <2>4, <4>1, <4>2
    <3> QED BY <1>6, <1>7, <3>2, <3>3
  <2> QED BY <1>1, <1>3, <2>1, <2>2, <2>3, <2>4 DEF OrderInv
<1>10. ASSUME MaxBackupFiles # 1, Done > 0, Done \notin lost PROVE Done \in OnDisk'
  <2>1. PICK g \in DOMAIN files : /\ Done \in Holds(g)
                                  /\ \A f \in DOMAIN files : f > g => f = current
    BY <1>1, <1>3, <1>10 DEF LastInv
  <2>2. ASSUME g \in R PROVE FALSE
    <3>1. IsFiniteSet(DOMAIN files) /\ IsFiniteSet(R) /\ Cardinality(DOMAIN files) \in Nat
      BY <1>8, DirectorySize, FS_Subset
    <3>2. Cardinality(DOMAIN files \ R) = Cardinality(DOMAIN files) - TooMany
      <4>1. DOMAIN files \cap R = R
        BY <1>8
      <4> QED BY <1>8, <3>1, <4>1, FS_Difference
    <3>3. Cardinality(R) # 0
      BY <2>2, <3>1, FS_EmptySet
    <3>4. MaxBackupFiles \in Nat
      OBVIOUS
    <3>5. Cardinality(DOMAIN files \ R) >= 2
      BY <1>4, <1>8, <1>10, <3>1, <3>2, <3>3, <3>4 DEF TooMany
    <3>6. DOMAIN files \ R \subseteq {current}
      <4>1. ASSUME NEW f \in DOMAIN files \ R PROVE f = current
        <5>1. g < f
          BY <1>5, <2>2
        <5>2. g \in Nat /\ f \in Nat
          BY SecondIsName DEF TypeOK
        <5> QED BY <2>1, <5>1, <5>2
      <4> QED BY <4>1
    <3>7. Cardinality(DOMAIN files \ R) <= 1
      <4>1. IsFiniteSet({current}) /\ Cardinality({current}) = 1
        BY FS_Singleton
      <4> QED BY <3>6, <4>1, FS_Subset
    <3>8. Cardinality(DOMAIN files \ R) \in Nat
      BY <3>1, FS_Subset, FS_CardinalityType
    <3> QED BY <3>5, <3>7, <3>8
  <2> QED BY <1>6, <2>1, <2>2
<1>11. LastInv'
  BY <1>1, <1>3, <1>10 DEF LastInv
<1> QED BY <1>9, <1>11

LEMMA SeqOfSubset ==
  ASSUME NEW S, NEW T, S \subseteq T, NEW s \in Seq(S)
  PROVE  s \in Seq(T)
OBVIOUS

(* What is written of a batch goes behind all there is.                    *)
LEMMA PutDisk ==
  ASSUME TypeOK, NameInv, LineInv, DiskInv, (Put /\ open) \/ PutFails
  PROVE  DiskInv'
<1>1. /\ pc = "put" /\ pc' = "idle" /\ batch' = <<>>
      /\ UNCHANGED <<logged, logQueue, current, tied>>
  BY DEF Put, PutFails
<1> SUFFICES ASSUME ~tied PROVE OrderInv' /\ LastInv'
  BY <1>1 DEF DiskInv
<1>2. OrderInv /\ LastInv
  BY DEF DiskInv
<1>p. PICK k \in 0 .. Len(batch), t \in 0 .. now :
        /\ files' = Written(k, t)
        /\ lost' = lost \cup Range(SubSeq(batch, k + 1, Len(batch)))
  BY SomeWritten
<1>o. open
  BY SomeWritten
<1> DEFINE b == SubSeq(batch, 1, k)
<1>3. /\ Done \in Nat /\ logged \in Nat /\ Len(batch) \in Nat /\ Len(logQueue) \in Nat
      /\ OnDisk \subseteq 1 .. Done /\ lost \subseteq 1 .. Done
      /\ batch # <<>>
  BY <1>1, LineNumbers DEF LineInv
<1>b. /\ Range(b) = Done + 1 .. Done + k /\ b \in Seq(Nat)
      /\ \A i \in DOMAIN b : b[i] = Done + i
      /\ lost' = lost \cup (Done + k + 1 .. Done + Len(batch))
  BY <1>p, BatchParts
<1>n. Done \in Nat /\ logged \in Nat /\ Len(batch) \in Nat /\ Len(logQueue) \in Nat
  BY <1>3
<1>4. Done' = Done + Len(batch) /\ Len(batch) > 0
  <2>1. Len(batch') = 0 /\ Len(batch) # 0
    BY <1>1, <1>3
  <2> QED BY <1>1, <1>n, <2>1 DEF Done
<1>5. /\ DOMAIN files' = DOMAIN files /\ current \in DOMAIN files
      /\ files'[current].lines = files[current].lines \o b
      /\ Range(files'[current].lines) = Holds(current) \cup Range(b)
      /\ \A f \in DOMAIN files \ {current} : files'[f] = files[f]
      /\ OnDisk' = OnDisk \cup Range(b)
  BY <1>1, <1>p, <1>o, PutLines
<1> HIDE DEF b
<1>6. /\ files[current].lines \in Seq(1 .. logged)
      /\ Holds(current) \subseteq OnDisk
  BY <1>5 DEF TypeOK, Holds, OnDisk
<1>7. /\ Holds(current)' = Holds(current) \cup Range(b)
      /\ \A f \in DOMAIN files \ {current} : Holds(f)' = Holds(f)
  BY <1>1, <1>5 DEF Holds
<1>8. \A i, j \in DOMAIN files'[current].lines :
        i < j => files'[current].lines[i] < files'[current].lines[j]
  <2> DEFINE s == files[current].lines
  <2>1. s \in Seq(Nat)
    <3>1. 1 .. logged \subseteq Nat
      BY <1>n
    <3>2. s \in Seq(1 .. logged)
      BY <1>6
    <3> HIDE DEF s
    <3> QED BY <3>1, <3>2, SeqOfSubset
  <2>2. \A i, j \in DOMAIN s : i < j => s[i] < s[j]
    BY <1>2, <1>5 DEF OrderInv
  <2>3. \A i, j \in DOMAIN b : i < j => b[i] < b[j]
    <3>1. \A i \in DOMAIN b : i \in Nat
      BY <1>b
    <3> QED BY <1>b, <1>n, <3>1
  <2>4. ASSUME NEW x \in Range(s), NEW y \in Range(b) PROVE x < y
    <3>1. x \in 1 .. Done
      BY <1>3, <1>6 DEF Holds
    <3>2. y \in Done + 1 .. Done + k
      BY <1>b
    <3> QED BY <1>n, <3>1, <3>2
  <2> HIDE DEF s
  <2>5. \A i, j \in DOMAIN (s \o b) : i < j => (s \o b)[i] < (s \o b)[j]
    BY <1>b, <2>1, <2>2, <2>3, <2>4, JoinedAscends
  <2> QED BY <1>5, <2>5 DEF s
<1>9. \A f \in DOMAIN files' : \A i, j \in DOMAIN files'[f].lines :
        i < j => files'[f].lines[i] < files'[f].lines[j]
  BY <1>2, <1>5, <1>8 DEF OrderInv
<1>10. ASSUME NEW f \in DOMAIN files, NEW g \in DOMAIN files, f < g,
              NEW m \in Holds(f)', NEW n \in Holds(g)'
       PROVE  m < n
  <2>1. f # current
    <3>1. f \in Nat /\ g \in Nat /\ current \in Nat /\ g <= current
      BY SecondIsName DEF TypeOK, NameInv
    <3> QED BY <1>10, <3>1
  <2>2. m \in Holds(f) /\ m \in 1 .. Done
    BY <1>3, <1>7, <2>1 DEF OnDisk, Holds
  <2>3. CASE n \in Holds(g)
    BY <1>2, <1>10, <2>2, <2>3 DEF OrderInv
  <2>4. CASE n \in Range(b)
    <3>1. n \in Done + 1 .. Done + k
      BY <1>b, <2>4
    <3> QED BY <1>n, <2>2, <3>1
  <2>5. n \in Holds(g) \/ n \in Range(b)
    <3>1. CASE g = current
      BY <1>1, <1>7, <1>10, <3>1 DEF Holds
    <3>2. CASE g # current
      BY <1>7, <1>10, <3>2
    <3> QED BY <3>1, <3>2
  <2> QED BY <2>3, <2>4, <2>5
<1>11. OnDisk' \cap lost' = {}
  <2>1. ASSUME NEW m \in Range(b), m \in lost' PROVE FALSE
    <3>1. m \in Done + 1 .. Done + k
      BY <1>b, <2>1
    <3>2. m \in 1 .. Done \/ m \in Done + k + 1 .. Done + Len(batch)
      BY <1>3, <1>b, <2>1
    <3> QED BY <1>n, <3>1, <3>2
  <2>2. ASSUME NEW m \in OnDisk, m \in Done + k + 1 .. Done + Len(batch) PROVE FALSE
    <3>1. m \in 1 .. Done
      BY <1>3
    <3> QED BY <1>n, <2>2, <3>1
  <2> QED BY <1>2, <1>5, <1>b, <2>1, <2>2 DEF OrderInv
<1>12. ASSUME NEW m \in OnDisk', NEW n \in 1 .. Done', m < n PROVE n \in OnDisk' \cup lost'
  <2>1. CASE n > Done
    <3>1. n \in Done + 1 .. Done + k \/ n \in Done + k + 1 .. Done + Len(batch)
      BY <1>n, <1>4, <2>1
    <3> QED BY <1>5, <1>b, <3>1
  <2>2. CASE n <= Done
    <3>1. n \in 1 .. Done
      BY <1>n, <1>4, <2>2
    <3>2. m \notin Range(b)
      <4>1. ASSUME m \in Range(b) PROVE FALSE
        <5>1. m \in Done + 1 .. Done + k
          BY <1>b, <4>1
        <5> QED BY <1>n, <1>12, <3>1, <5>1
      <4> QED BY <4>1
    <3>3. m \in OnDisk
      BY <1>5, <3>2
    <3> QED BY <1>2, <1>5, <1>b, <1>12, <3>1, <3>3 DEF OrderInv
  <2> QED BY <1>n, <1>4, <2>1, <2>2
<1>13. OrderInv'
  BY <1>5, <1>9, <1>10, <1>11, <1>12 DEF OrderInv
<1>14. Done' \in OnDisk' \cup lost'
  <2>1. \/ Done + Len(batch) \in Done + 1 .. Done + k
        \/ Done + Len(batch) \in Done + k + 1 .. Done + Len(batch)
    BY <1>n, <1>4
  <2> QED BY <1>4, <1>5, <1>b, <2>1
<1>15. LastInv'
  BY <1>1, <1>14 DEF LastInv
<1> QED BY <1>13, <1>15

(* What someone deletes is lost.                                           *)
LEMMA DeleteDisk ==
  ASSUME TypeOK, LineInv, DiskInv, NEW d \in Names, Delete(d)
  PROVE  DiskInv'
<1>1. /\ d \in DOMAIN files /\ files' = Without({d}) /\ lost' = lost \cup Holds(d)
      /\ UNCHANGED <<logged, logQueue, batch, pc, current, tied>>
  BY DEF Delete, Holds
<1> SUFFICES ASSUME ~tied PROVE OrderInv' /\ LastInv'
  BY <1>1 DEF DiskInv
<1>2. OrderInv /\ LastInv /\ Done \in Nat /\ Done' = Done
  BY <1>1, LineNumbers DEF DiskInv, Done
<1>3. /\ DOMAIN files' = DOMAIN files \ {d}
      /\ \A f \in DOMAIN files \ {d} : files'[f] = files[f] /\ Holds(f)' = Holds(f)
      /\ \A m : m \in OnDisk' <=> \E f \in DOMAIN files \ {d} : m \in Holds(f)
  BY <1>1, KeptLines DEF Holds
<1>4. \A m : m \in OnDisk <=> \E f \in DOMAIN files : m \in Holds(f)
  BY DEF OnDisk, Holds
<1>5. OnDisk' \subseteq OnDisk /\ OnDisk \subseteq OnDisk' \cup Holds(d)
  BY <1>3, <1>4
<1>6. OnDisk' \cap Holds(d) = {}
  <2>1. ASSUME NEW m \in OnDisk', m \in Holds(d) PROVE FALSE
    <3>1. PICK f \in DOMAIN files \ {d} : m \in Holds(f)
      BY <1>3
    <3>2. f \in Nat /\ d \in Nat /\ f # d
      BY <1>1, SecondIsName DEF TypeOK
    <3>3. m \in Nat
      BY <1>5 DEF LineInv
    <3>4. m < m
      BY <1>1, <1>2, <2>1, <3>1, <3>2 DEF OrderInv
    <3> QED BY <3>3, <3>4
  <2> QED BY <2>1
<1>7. OrderInv'
  <2>1. \A f \in DOMAIN files' : \A i, j \in DOMAIN files'[f].lines :
          i < j => files'[f].lines[i] < files'[f].lines[j]
    BY <1>2, <1>3 DEF OrderInv
  <2>2. \A f, g \in DOMAIN files' : f < g => \A m \in Holds(f)', n \in Holds(g)' : m < n
    BY <1>2, <1>3 DEF OrderInv
  <2>3. OnDisk' \cap lost' = {}
    BY <1>1, <1>2, <1>5, <1>6 DEF OrderInv
  <2>4. \A m \in OnDisk', n \in 1 .. Done' : m < n => n \in OnDisk' \cup lost'
    BY <1>1, <1>2, <1>5 DEF OrderInv
  <2> QED BY <2>1, <2>2, <2>3, <2>4 DEF OrderInv
<1>8. LastInv'
  <2> SUFFICES ASSUME Done > 0
               PROVE  /\ ~(MaxBackupFiles = 1 /\ pc = "put") => Done \in OnDisk' \cup lost'
                      /\ pc \in {"list", "purge"} =>
                           \/ Done \in lost'
                           \/ \E g \in DOMAIN files' :
                                /\ Done \in Holds(g)'
                                /\ \A f \in DOMAIN files' : f > g => f = current
    BY <1>1, <1>2 DEF LastInv
  <2>1. ~(MaxBackupFiles = 1 /\ pc = "put") => Done \in OnDisk' \cup lost'
    BY <1>1, <1>2, <1>5 DEF LastInv
  <2>2. ASSUME pc \in {"list", "purge"}, Done \notin lost'
        PROVE  \E g \in DOMAIN files' : /\ Done \in Holds(g)'
                                        /\ \A f \in DOMAIN files' : f > g => f = current
    <3>1. PICK g \in DOMAIN files : /\ Done \in Holds(g)
                                    /\ \A f \in DOMAIN files : f > g => f = current
      BY <1>1, <1>2, <2>2 DEF LastInv
    <3>2. g # d
      BY <1>1, <2>2, <3>1
    <3> QED BY <1>3, <3>1, <3>2
  <2> QED BY <2>1, <2>2
<1> QED BY <1>7, <1>8

LEMMA DiskStep ==
  TypeOK /\ NameInv /\ CountInv /\ LineInv /\ DiskInv /\ [Next]_vars => DiskInv'
<1> SUFFICES ASSUME TypeOK, NameInv, CountInv, LineInv, DiskInv, [Next]_vars PROVE DiskInv'
  OBVIOUS
<1>1. CASE \/ LogAsync \/ LogSync \/ Sleep \/ TakeBatch \/ ExistsNot \/ Exists \/ Fits \/ List \/ Tick
           \/ UNCHANGED vars
  <2>1. tied' = tied
    BY <1>1 DEF LogAsync, LogSync, Sleep, TakeBatch, ExistsNot, Exists, Fits, List, Tick, vars
  <2> QED BY <1>1, <2>1, QuietDisk
<1>2. CASE Throws \/ Restart \/ (Put /\ ~open)
  BY <1>2, LosingDisk
<1>3. CASE Rotate
  BY <1>3, RotateDisk
<1>4. CASE Purge
  BY <1>4, PurgeDisk
<1>5. CASE (Put /\ open) \/ PutFails
  BY <1>5, PutDisk
<1>6. ASSUME NEW f \in Names, Delete(f) PROVE DiskInv'
  BY <1>6, DeleteDisk
<1> QED BY <1>1, <1>2, <1>3, <1>4, <1>5, <1>6 DEF Next, WriterStep
-----------------------------------------------------------------------------
(***************************************************************************)
(* The theorems.                                                           *)
(***************************************************************************)
THEOREM Invariance == Spec => []IInv
<1>1. Init => IInv
  BY InitHolds
<1>2. IInv /\ [Next]_vars => IInv'
  BY TypeStep, NameStep, CountStep, LineStep, DiskStep DEF IInv
<1> QED BY <1>1, <1>2, PTL DEF Spec

(* Every variable of the logger keeps its type: every line in the queue,   *)
(* in the batch and on the disk was logged, no file is of the future, and  *)
(* a stream that is open has its file in the directory.                    *)
THEOREM TypeCorrect == Spec => []TypeOK
<1>1. IInv => TypeOK
  BY DEF IInv
<1> QED BY <1>1, Invariance, PTL

(* The number of files stays limited by that of the configuration, of the  *)
(* starts and of the deletions, whatever their order, whatever the times   *)
(* of the files and however often one cannot be opened                     *)
(* (purgeExpiredLogFiles(), openCurrentLogFile()).                         *)
THEOREM FilesStayFew == Spec => []FilesBounded
<1>1. IInv => FilesBounded
  <2> SUFFICES ASSUME IInv, MaxBackupFiles > 0
               PROVE  Cardinality(DOMAIN files) <= Bound + 1
    <3>1. IInv => starts \in Nat /\ deletes \in Nat /\ tied \in BOOLEAN /\ failed \in BOOLEAN
      BY DEF IInv, TypeOK
    <3>2. IInv => Bound + 1 = MaxBackupFiles + (2 * starts - 1) + deletes
                                + (IF tied THEN 1 ELSE 0) + (IF failed THEN 1 ELSE 0)
      BY <3>1 DEF Bound
    <3> QED BY <3>2 DEF FilesBounded
  <2>1. TypeOK /\ CountInv
    BY DEF IInv
  <2>2. Bound \in Nat /\ Cardinality(DOMAIN files) \in Nat /\ Cardinality(listed) \in Nat
    BY <2>1, BoundType, DirectorySize
  <2>3. CASE pc = "purge"
    <3>1. DOMAIN files \subseteq listed /\ Cardinality(listed) <= Bound + 1
      BY <2>1, <2>2, <2>3 DEF CountInv
    <3>2. Cardinality(DOMAIN files) <= Cardinality(listed)
      BY <2>1, <3>1, DirectorySize, FS_Subset
    <3> QED BY <2>2, <3>1, <3>2
  <2>4. CASE pc # "purge"
    BY <2>1, <2>2, <2>4 DEF CountInv
  <2> QED BY <2>3, <2>4
<1> QED BY <1>1, Invariance, PTL

(* The files hold the newest of the lines that were not lost, in order and *)
(* without a gap, whatever is rotated, purged, deleted or not written, and *)
(* wherever the process ends (rotateLogFileIfNeeded(),                     *)
(* purgeExpiredLogFiles()).                                                *)
THEOREM NewestOnDisk == Spec => []DiskHoldsNewest
<1>1. IInv => DiskHoldsNewest
  <2> SUFFICES ASSUME IInv, ~tied PROVE DiskHoldsNewest
    BY DEF DiskHoldsNewest
  <2>1. Tried = 1 .. Done /\ Done \in Nat
    BY TriedLines DEF IInv
  <2>2. OrderInv /\ LastInv
    BY DEF IInv, DiskInv
  <2>3. Tried # {} => Done > 0 /\ Max(Tried) = Done
    BY <2>1, GreatestOfRun
  <2>4. OnDisk \subseteq Tried \ lost
    BY <2>1, <2>2 DEF IInv, LineInv, OrderInv
  <2>5. \A f, g \in DOMAIN files : f < g =>
          \A m \in Range(files[f].lines), n \in Range(files[g].lines) : m < n
    BY <2>2 DEF OrderInv, Holds
  <2>6. \A m \in OnDisk, n \in Tried : m < n => n \in OnDisk \cup lost
    BY <2>1, <2>2 DEF OrderInv
  <2>7. Tried # {} /\ ~(MaxBackupFiles = 1 /\ pc = "put") => Max(Tried) \in OnDisk \cup lost
    BY <2>2, <2>3 DEF LastInv
  <2> QED BY <2>2, <2>4, <2>5, <2>6, <2>7 DEF OrderInv, DiskHoldsNewest
<1> QED BY <1>1, Invariance, PTL
=============================================================================
