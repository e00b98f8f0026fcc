------------------------------- MODULE Logger -------------------------------
(***************************************************************************)
(* utils/logger.cpp: lines are written to a current file by the thread     *)
(* that logs them (synchronous, as main.cpp has it) or, in batches, by a   *)
(* thread of the logger's (asynchronous); a full file is left for a new    *)
(* one, and the oldest files are removed.  Opening and writing may fail,   *)
(* the process may end and start again, and someone else may delete files. *)
(*                                                                         *)
(* Lines are numbered as they are logged, and a file is known by its name, *)
(* which is the second it was asked for.  Synchronous logging takes no     *)
(* lock, so it is modelled for one thread, which is what the epoll server  *)
(* has.  Levels and the text of a line are left out.                       *)
(***************************************************************************)
EXTENDS Naturals, Sequences, FiniteSets, SequencesExt

CONSTANTS
  MaxFileSize,  \* in lines, for bytes
  MaxBackupFiles,
  BatchSize,    \* BATCH_PROCESSING_THRESHOLD
  TicksPerSecond, \* steps of a file's time in a second
  MaxLines, MaxTicks, MaxStarts, MaxDeletes   \* bounds

ASSUME LoggerAssumption ==
  /\ {MaxFileSize, BatchSize, TicksPerSecond, MaxStarts} \subseteq Nat \ {0}
  /\ {MaxBackupFiles, MaxLines, MaxTicks, MaxDeletes} \subseteq Nat

VARIABLES
  async,        \* config_.asyncLogging
  logQueue,
  batch,        \* the lines being written
  pc,           \* what the thread that writes does
  files,        \* the directory: for each name the file's lines and time
  current,      \* currentFilePath_
  open,         \* what logFileStream_ is given goes to the file current
  listed,       \* logFiles in purgeExpiredLogFiles()
  now,          \* the clock
  logged,       \* the number of lines logged
  lost,         \* history: lines that failed, or that someone deleted
  failed,       \* history: a file was not opened, or not written
  tied,         \* history: a purge chose among files of the same time
  starts, deletes

ioVars  == <<batch, pc, files, current, open, listed>>
envVars == <<now, starts, deletes>>
vars == <<async, logQueue, ioVars, logged, lost, failed, tied, envVars>>

Lines == 1 .. MaxLines
Names == 0 .. MaxTicks \div TicksPerSecond

TypeOK ==
  /\ async \in BOOLEAN
  /\ logged \in 0 .. MaxLines /\ lost \subseteq 1 .. logged
  /\ failed \in BOOLEAN /\ tied \in BOOLEAN
  /\ logQueue \in Seq(1 .. logged) /\ batch \in Seq(1 .. logged)
  /\ pc \in {"idle", "asleep", "exists", "size", "list", "purge", "put", "ended"}
  /\ DOMAIN files \subseteq Names
  /\ files \in [DOMAIN files -> [lines : Seq(1 .. logged), time : 0 .. now]]
  /\ current \in Names /\ open \in BOOLEAN
  /\ open /\ pc # "ended" => current \in DOMAIN files
  /\ listed \subseteq Names
  /\ now \in 0 .. MaxTicks /\ starts \in 1 .. MaxStarts /\ deletes \in 0 .. MaxDeletes

Second == now \div TicksPerSecond

(* The directory with a file that may exist, to be appended to.            *)
Opened(f) ==
  IF f \in DOMAIN files THEN files
    ELSE [g \in DOMAIN files \cup {f} |->
            IF g = f THEN [lines |-> <<>>, time |-> now] ELSE files[g]]

(* openCurrentLogFile().  If the file cannot be opened there is a message  *)
(* on the console, and the stream is left closed.                          *)
OpenCurrentLogFile(f) ==
  \/ files' = Opened(f) /\ open' = TRUE /\ UNCHANGED failed
  \/ open' = FALSE /\ failed' = TRUE /\ UNCHANGED files

Without(F) == [g \in DOMAIN files \ F |-> files[g]]

(* initLogger().                                                           *)
Init ==
  /\ async \in BOOLEAN
  /\ logQueue = <<>> /\ batch = <<>> /\ pc = "idle" /\ listed = {}
  /\ now = 0 /\ current = 0 /\ open \in BOOLEAN /\ failed = ~open
  /\ files = [f \in IF open THEN {0} ELSE {} |-> [lines |-> <<>>, time |-> 0]]
  /\ logged = 0 /\ lost = {} /\ tied = FALSE /\ starts = 1 /\ deletes = 0
-----------------------------------------------------------------------------
(* enqueueLogMessage(), by a thread that logs.                             *)

(* Mutant: the line is pushed and nobody notified.                         *)
LogAsync_Silently ==
  /\ async /\ pc # "ended" /\ logged < MaxLines
  /\ logged' = logged + 1
  /\ logQueue' = Append(logQueue, logged')
  /\ UNCHANGED <<async, ioVars, lost, failed, tied, envVars>>

LogAsync ==
  /\ async /\ pc # "ended" /\ logged < MaxLines
  /\ logged' = logged + 1
  /\ logQueue' = Append(logQueue, logged')
  /\ pc' = IF pc = "asleep" THEN "idle" ELSE pc
  /\ UNCHANGED <<async, batch, files, current, open, listed, lost, failed, tied, envVars>>

LogSync ==
  /\ ~async /\ pc = "idle" /\ logged < MaxLines
  /\ logged' = logged + 1
  /\ batch' = <<logged'>>
  /\ pc' = "exists"
  /\ UNCHANGED <<async, logQueue, files, current, open, listed, lost, failed, tied, envVars>>
-----------------------------------------------------------------------------
(* asyncWriteLogToFile(): the mutex is held from the test to the sleep, or *)
(* until the batch is taken.  stopLogging_ is never set.                   *)

Sleep ==
  /\ async /\ pc = "idle" /\ logQueue = <<>>
  /\ pc' = "asleep"
  /\ UNCHANGED <<async, logQueue, batch, files, current, open, listed, logged, lost, failed, tied, envVars>>

TakeBatch ==
  /\ async /\ pc = "idle" /\ logQueue # <<>>
  /\ LET n == IF Len(logQueue) < BatchSize THEN Len(logQueue) ELSE BatchSize IN
       /\ batch' = SubSeq(logQueue, 1, n)
       /\ logQueue' = SubSeq(logQueue, n + 1, Len(logQueue))
  /\ pc' = "exists"
  /\ UNCHANGED <<async, files, current, open, listed, logged, lost, failed, tied, envVars>>
-----------------------------------------------------------------------------
(* writeLogToFile().                                                       *)

(* rotateLogFileIfNeeded() opens a file anew that was deleted, or that     *)
(* could not be created.  One that exists and could not be opened is not   *)
(* tried again.                                                            *)
ExistsNot ==
  /\ pc = "exists" /\ current \notin DOMAIN files
  /\ OpenCurrentLogFile(current)
  /\ pc' = "put"
  /\ UNCHANGED <<async, logQueue, batch, current, listed, logged, lost, tied, envVars>>

Exists ==
  /\ pc = "exists" /\ current \in DOMAIN files
  /\ pc' = "size"
  /\ UNCHANGED <<async, logQueue, batch, files, current, open, listed, logged, lost, failed, tied, envVars>>

Full == Len(files[current].lines) >= MaxFileSize

Fits ==
  /\ pc = "size" /\ current \in DOMAIN files /\ ~Full
  /\ pc' = "put"
  /\ UNCHANGED <<async, logQueue, batch, files, current, open, listed, logged, lost, failed, tied, envVars>>

(* Mutant: the name is changed and the stream is not.                      *)
Rotate_KeepsStream ==
  /\ pc = "size" /\ current \in DOMAIN files /\ Full
  /\ current' = Second
  /\ pc' = IF MaxBackupFiles = 0 THEN "put" ELSE "list"
  /\ UNCHANGED <<async, logQueue, batch, files, open, listed, logged, lost, failed, tied, envVars>>

(* A rotation within the second of the last one reopens the full file.     *)
Rotate ==
  /\ pc = "size" /\ current \in DOMAIN files /\ Full
  /\ current' = Second
  /\ OpenCurrentLogFile(Second)
  /\ pc' = IF MaxBackupFiles = 0 THEN "put" ELSE "list"
  /\ UNCHANGED <<async, logQueue, batch, listed, logged, lost, tied, envVars>>

List ==
  /\ pc = "list"
  /\ listed' = DOMAIN files
  /\ pc' = "purge"
  /\ UNCHANGED <<async, logQueue, batch, files, current, open, logged, lost, failed, tied, envVars>>

(* The files from the oldest on, of equal times in any order, that are too *)
(* many by n.                                                              *)
Oldest(n) ==
  {R \in SUBSET listed :
    /\ Cardinality(R) = n
    /\ \A f \in R, g \in listed \ R : files[f].time <= files[g].time}

Sortable == listed \subseteq DOMAIN files \/ Cardinality(listed) = 1

TooMany == IF Cardinality(listed) > MaxBackupFiles
             THEN Cardinality(listed) - MaxBackupFiles ELSE 0

(* Mutant: one file too many is left.                                      *)
Purge_KeepsOne ==
  /\ pc = "purge" /\ Sortable
  /\ \E R \in Oldest(IF TooMany > 0 THEN TooMany - 1 ELSE 0) :
       /\ files' = Without(R)
       /\ open' = (open /\ current \notin R)
  /\ tied' = (tied \/ Cardinality(Oldest(TooMany)) > 1)
  /\ listed' = {}
  /\ pc' = "put"
  /\ UNCHANGED <<async, logQueue, batch, current, logged, lost, failed, envVars>>

(* Mutant: the files are not sorted.                                       *)
Purge_Any ==
  /\ pc = "purge" /\ Sortable
  /\ \E R \in {S \in SUBSET listed : Cardinality(S) = TooMany} :
       /\ files' = Without(R)
       /\ open' = (open /\ current \notin R)
  /\ tied' = (tied \/ Cardinality(Oldest(TooMany)) > 1)
  /\ listed' = {}
  /\ pc' = "put"
  /\ UNCHANGED <<async, logQueue, batch, current, logged, lost, failed, envVars>>

Purge ==
  /\ pc = "purge" /\ Sortable
  /\ \E R \in Oldest(TooMany) :
       /\ files' = Without(R)
       /\ open' = (open /\ current \notin R)
  /\ tied' = (tied \/ Cardinality(Oldest(TooMany)) > 1)
  /\ listed' = {}
  /\ pc' = "put"
  /\ UNCHANGED <<async, logQueue, batch, current, logged, lost, failed, envVars>>

(* file_size() or last_write_time() throws, for a file that is gone; of    *)
(* one file std::sort() does not ask the time.  The                        *)
(* asynchronous thread goes on without the batch; the synchronous one is   *)
(* in a destructor, ~LogStream(), so that the process is terminated.       *)
Throws ==
  /\ \/ pc = "size" /\ current \notin DOMAIN files
     \/ pc = "purge" /\ ~Sortable
  /\ lost' = lost \cup Range(batch)
  /\ batch' = <<>> /\ listed' = {}
  /\ pc' = IF async THEN "idle" ELSE "ended"
  /\ UNCHANGED <<async, logQueue, files, current, open, logged, failed, tied, envVars>>

(* The file with n lines of the batch more, and its time.                  *)
Written(n, t) ==
  [files EXCEPT ![current] = [lines |-> @.lines \o SubSeq(batch, 1, n), time |-> t]]

(* Without an open stream the lines are dropped, and with a stream to a    *)
(* deleted file they are gone with it.                                     *)
Put ==
  /\ pc = "put"
  /\ IF open
       THEN files' = Written(Len(batch), now) /\ UNCHANGED lost
       ELSE lost' = lost \cup Range(batch) /\ UNCHANGED files
  /\ batch' = <<>>
  /\ pc' = "idle"
  /\ UNCHANGED <<async, logQueue, current, open, listed, logged, failed, tied, envVars>>

(* A write that fails in the middle leaves the stream bad, and what it is  *)
(* given is dropped until a file is opened again: is_open() does not tell. *)
PutFails ==
  /\ pc = "put" /\ open
  /\ \E n \in 0 .. Len(batch) - 1, t \in {files[current].time, now} :
       /\ files' = Written(n, t)
       /\ lost' = lost \cup Range(SubSeq(batch, n + 1, Len(batch)))
  /\ open' = FALSE /\ failed' = TRUE
  /\ batch' = <<>>
  /\ pc' = "idle"
  /\ UNCHANGED <<async, logQueue, current, listed, logged, tied, envVars>>

WriterStep ==
  \/ Sleep \/ TakeBatch
  \/ ExistsNot \/ Exists \/ Fits \/ Rotate \/ List \/ Purge \/ Throws
  \/ Put \/ PutFails
-----------------------------------------------------------------------------
(* The rest of the world.                                                  *)

Tick ==
  /\ now < MaxTicks
  /\ now' = now + 1
  /\ UNCHANGED <<async, logQueue, ioVars, logged, lost, failed, tied, starts, deletes>>

Delete(f) ==
  /\ deletes < MaxDeletes /\ f \in DOMAIN files
  /\ deletes' = deletes + 1
  /\ files' = Without({f})
  /\ open' = (open /\ f # current)
  /\ lost' = lost \cup Range(files[f].lines)
  /\ UNCHANGED <<async, logQueue, batch, pc, current, listed, logged, failed, tied, now, starts>>

(* The process ends, in any way: even a regular exit() ends it here, for   *)
(* the logger's thread is never joined.  What it had not written is lost.  *)
(* It is started again.                                                    *)
Restart ==
  /\ starts < MaxStarts
  /\ starts' = starts + 1
  /\ lost' = lost \cup Range(logQueue) \cup Range(batch)
  /\ logQueue' = <<>> /\ batch' = <<>> /\ pc' = "idle" /\ listed' = {}
  /\ current' = Second
  /\ OpenCurrentLogFile(Second)
  /\ UNCHANGED <<async, logged, tied, now, deletes>>

Next ==
  \/ LogAsync \/ LogSync \/ WriterStep
  \/ Tick \/ Restart \/ \E f \in Names : Delete(f)

Spec == Init /\ [][Next]_vars

(* The thread that writes goes on, unless the process has ended.           *)
FairSpec == Spec /\ WF_vars(WriterStep)
-----------------------------------------------------------------------------
(* Properties.                                                             *)

Pending == Range(logQueue) \cup Range(batch)
Tried   == (1 .. logged) \ Pending

OnDisk == UNION {Range(files[f].lines) : f \in DOMAIN files}

(* What the files hold, read by name, are the newest of the lines that     *)
(* were not lost, in the order of their logging, none twice and none left  *)
(* out, through rotations, purges, restarts, failures and deletions at any *)
(* point: unless a purge met files of the same time, of which it may have  *)
(* removed the newer, even the one just opened.  If one file is kept, a    *)
(* purge removes the newest line before the next one is written.           *)
DiskHoldsNewest == ~tied =>
  /\ \A f \in DOMAIN files : \A i, j \in DOMAIN files[f].lines :
       i < j => files[f].lines[i] < files[f].lines[j]
  /\ \A f, g \in DOMAIN files : f < g =>
       \A m \in Range(files[f].lines), n \in Range(files[g].lines) : m < n
  /\ OnDisk \subseteq Tried \ lost
  /\ \A m \in OnDisk, n \in Tried : m < n => n \in OnDisk \cup lost
  /\ Tried # {} /\ ~(MaxBackupFiles = 1 /\ pc = "put") => Max(Tried) \in OnDisk \cup lost

(* If the number of files is limited there are never more, but for the one *)
(* of the rotation under way; two for each later start, which does not     *)
(* purge and may have cut a rotation short; one for each that was deleted, *)
(* for the writer opens it again and does not purge then; and one if the   *)
(* purge removed the file just opened, or that could not be created, which *)
(* is opened later as well.                                                *)
FilesBounded ==
  MaxBackupFiles > 0 =>
    Cardinality(DOMAIN files) <=
      MaxBackupFiles + (2 * starts - 1) + deletes
        + (IF tied THEN 1 ELSE 0) + (IF failed THEN 1 ELSE 0)

(* What may cost a line: a file that is not opened or not written, one     *)
(* that is deleted under the writer by others or by its own purge, and the *)
(* end of the process.                                                     *)
Trouble == failed \/ tied \/ deletes > 0 \/ starts > 1

(* Every line that is logged comes into a file at last, whatever batches   *)
(* and rotations are under way: no notification is lost, and no line on    *)
(* its way.  A line may be dropped only after one of the troubles named,   *)
(* of which the program tells on the console at most.                      *)
EveryLineWritten ==
  \A n \in Lines : n \in Pending ~> n \in OnDisk \/ (n \in lost /\ Trouble)
=============================================================================
