----------------------------- MODULE Durability -----------------------------
(***************************************************************************)
(* What survives when the process ends: the write-ahead log                *)
(* (framework/structure/WriteAheadLogger.h) beside the checkpoint that a   *)
(* flush saves, with the process ending between any two of their steps.    *)
(*                                                                         *)
(* Records are numbered in the order in which their appends claim an       *)
(* index.  A shard is the records it has (levels and merges are in module  *)
(* ExtensionStructure), the record count is read in one step (the races of *)
(* that are in module EpochManager) and no query holds a view.  Every      *)
(* write to a file is followed by fdatasync or rename in the code and is   *)
(* durable here; a torn log entry is one that is not there, because the    *)
(* log is read and counted in whole entries.                               *)
(***************************************************************************)
EXTENDS Integers, Sequences, FiniteSets, SequencesExt

CONSTANTS
  Clients,      \* threads that insert
  Modes,        \* schedulers considered: TRUE for SerialScheduler
  HWM, LWM,     \* the watermarks of the buffer
  Cap,          \* slots of the buffer's ring
  Leveling,     \* the layout policy is LEVELING
  MaxRecords,   \* bound: records that claim an index
  MaxCrashes    \* bound: times the process ends

ASSUME DurabilityAssumption ==
  /\ Modes \subseteq BOOLEAN
  /\ HWM \in Nat \ {0} /\ LWM \in 1..HWM
  /\ Cap \in Nat /\ Cap > HWM
  /\ Leveling \in BOOLEAN
  /\ MaxRecords \in Nat /\ MaxCrashes \in Nat

VARIABLES
  serial,      \* the scheduler, a template parameter: it never changes
  wal,         \* the log file, a sequence of records and markers
  ckpt,        \* record |-> its copies in the shards that the checkpoint lists
  m_data,      \* the ring of the buffer: slot |-> the record last written to it
  appended,    \* the records of the appends, by index; None: claimed and not written yet
  m_head,      \* records that have left the buffer; m_tail is Len(appended)
  pc, rec, idx,\* client |-> where it is, its record and the record's index
  fpc,         \* where the reconstruction is
  new_head,    \* the tail of the view it flushes
  remaining,   \* flush_complete's entries that it has still to write back
  nrec,        \* records so far
  acked,       \* records whose insert has returned 1
  crashes

disk == <<wal, ckpt>>
buffer == <<m_data, appended, m_head>>
clientVars == <<pc, rec, idx>>
flushVars == <<fpc, new_head, remaining>>
history == <<nrec, acked, crashes>>
vars == <<serial, disk, buffer, clientVars, flushVars, history>>

Records == 1..MaxRecords
Slots == 0..(Cap - 1)
None == 0
FLUSH_B == -1
FLUSH_C == -2

FlushSteps == {"idle", "view", "save", "begin", "advance", "complete", "truncate", "rewrite"}

Init ==
  /\ serial \in Modes
  /\ wal = <<>>
  /\ ckpt = [r \in Records |-> 0]
  /\ m_data = [p \in Slots |-> None]
  /\ appended = <<>>
  /\ m_head = 0
  /\ pc = [c \in Clients |-> "idle"]
  /\ rec = [c \in Clients |-> None]
  /\ idx = [c \in Clients |-> 0]
  /\ fpc = "idle"
  /\ new_head = 0
  /\ remaining = <<>>
  /\ nrec = 0
  /\ acked = {}
  /\ crashes = 0

RecordCount == Len(appended) - m_head

-----------------------------------------------------------------------------
(***************************************************************************)
(* An insert: internal_append and MutableBuffer::append.                   *)
(***************************************************************************)

\* With SerialScheduler the one thread of the program makes one call at a time.
MayInsert == serial => fpc = "idle" /\ \A d \in Clients : pc[d] = "idle"

\* The buffer is looked at, and a reconstruction scheduled if none is.
Insert(c) ==
  /\ pc[c] = "idle" /\ MayInsert
  /\ nrec < MaxRecords
  /\ fpc' = IF RecordCount >= LWM /\ fpc = "idle" THEN "view" ELSE fpc
  /\ pc' = [pc EXCEPT ![c] = "claim"]
  /\ UNCHANGED <<serial, disk, buffer, rec, idx, new_head, remaining, history>>

\* Fault: one record more than the high watermark is admitted.
FullLate == RecordCount > HWM

Full == RecordCount >= HWM

\* try_advance_tail; the insert returns 0 if the buffer is full.  SerialScheduler
\* has finished the reconstruction before it comes to this.
Claim(c) ==
  /\ pc[c] = "claim"
  /\ serial => fpc = "idle"
  /\ nrec < MaxRecords
  /\ IF Full
       THEN /\ pc' = [pc EXCEPT ![c] = "idle"]
            /\ UNCHANGED <<appended, rec, idx, nrec>>
       ELSE /\ pc' = [pc EXCEPT ![c] = "log"]
            /\ appended' = Append(appended, None)
            /\ nrec' = nrec + 1
            /\ rec' = [rec EXCEPT ![c] = nrec']
            /\ idx' = [idx EXCEPT ![c] = Len(appended')]
  /\ UNCHANGED <<serial, disk, m_data, m_head, flushVars, acked, crashes>>

\* flush_complete has the log's mutex while it cuts the log.
LogFree == fpc \notin {"truncate", "rewrite"}

\* WriteAheadLogger::append
Log(c) ==
  /\ pc[c] = "log" /\ LogFree
  /\ wal' = Append(wal, rec[c])
  /\ pc' = [pc EXCEPT ![c] = "store"]
  /\ UNCHANGED <<serial, ckpt, buffer, rec, idx, flushVars, history>>

\* The slot is written, and the insert returns 1.
Store(c) ==
  /\ pc[c] = "store"
  /\ m_data' = [m_data EXCEPT ![(idx[c] - 1) % Cap] = rec[c]]
  /\ appended' = [appended EXCEPT ![idx[c]] = rec[c]]
  /\ acked' = acked \cup {rec[c]}
  /\ pc' = [pc EXCEPT ![c] = "idle"]
  /\ rec' = [rec EXCEPT ![c] = None]
  /\ idx' = [idx EXCEPT ![c] = 0]
  /\ UNCHANGED <<serial, disk, m_head, flushVars, nrec, crashes>>

-----------------------------------------------------------------------------
(***************************************************************************)
(* The reconstruction, after its merges: flush_buffer, advance_head.       *)
(***************************************************************************)

TakeView ==
  /\ fpc = "view"
  /\ new_head' = Len(appended)
  /\ fpc' = "save"
  /\ UNCHANGED <<serial, disk, buffer, clientVars, remaining, history>>

\* Fault: the last record of the view is left out.
FlushedShort == [i \in 1..(new_head - 1 - m_head) |-> m_data[(m_head + i - 1) % Cap]]

\* The slots of the view, copied as they are: one that is claimed and not written
\* still has the record of the lap before, which is then stored once more.
Flushed == [i \in 1..(new_head - m_head) |-> m_data[(m_head + i - 1) % Cap]]

\* The number of places at which s has e.
Occurrences(s, e) == Cardinality({i \in DOMAIN s : s[i] = e})

\* The view becomes a shard of level 0, and the checkpoint that lists it is saved.
SaveShard ==
  /\ fpc = "save"
  /\ ckpt' = [r \in Records |-> ckpt[r] + Occurrences(Flushed, r)]
  /\ fpc' = "begin"
  /\ UNCHANGED <<serial, wal, buffer, clientVars, new_head, remaining, history>>

\* WriteAheadLogger::flush_begin
FlushBegin ==
  /\ fpc = "begin"
  /\ wal' = Append(wal, FLUSH_B)
  /\ fpc' = "advance"
  /\ UNCHANGED <<serial, ckpt, buffer, clientVars, new_head, remaining, history>>

AdvanceHead ==
  /\ fpc = "advance"
  /\ m_head' = new_head
  /\ fpc' = "complete"
  /\ UNCHANGED <<serial, disk, m_data, appended, clientVars, new_head, remaining, history>>

\* The INSERT entries, collected one entry of the log after the other; nothing in the
\* framework writes a DELETE entry.
Inserts(log) ==
  LET ins[i \in 0..Len(log)] ==
        IF i = 0 THEN <<>>
        ELSE IF log[i] \in Records THEN Append(ins[i - 1], log[i]) ELSE ins[i - 1]
  IN ins[Len(log)]

\* Fault: every entry is kept, the flushed ones too.
RemainingAll(log) == Inserts(log)

\* What flush_complete keeps: the entries after the first FLUSH_B.
Remaining(log) ==
  LET first == CHOOSE i \in DOMAIN log :
                 log[i] = FLUSH_B /\ \A j \in 1..(i - 1) : log[j] # FLUSH_B
  IN Inserts(SubSeq(log, first, Len(log)))

\* flush_complete, under the log's mutex up to the last Rewrite.
FlushComplete ==
  /\ fpc = "complete"
  /\ wal' = Append(wal, FLUSH_C)
  /\ remaining' = Remaining(wal)
  /\ fpc' = "truncate"
  /\ UNCHANGED <<serial, ckpt, buffer, clientVars, new_head, history>>

Truncate ==
  /\ fpc = "truncate"
  /\ wal' = <<>>
  /\ fpc' = IF remaining = <<>> THEN "idle" ELSE "rewrite"
  /\ UNCHANGED <<serial, ckpt, buffer, clientVars, new_head, remaining, history>>

Rewrite ==
  /\ fpc = "rewrite"
  /\ wal' = Append(wal, Head(remaining))
  /\ remaining' = Tail(remaining)
  /\ fpc' = IF remaining' = <<>> THEN "idle" ELSE "rewrite"
  /\ UNCHANGED <<serial, ckpt, buffer, clientVars, new_head, history>>

-----------------------------------------------------------------------------
\* build_buffer_from_log appends the entries one by one, and does not look at the
\* result of an append to a full buffer.
Replay(log) ==
  LET entries == Inserts(log)
  IN IF Len(entries) > HWM THEN SubSeq(entries, 1, HWM) ELSE entries

\* The process ends, by a crash at any point or by a return from main, which flushes
\* nothing; the constructors run again.  Only under LEVELING: with the other layouts a
\* level that is read back has no free place, the next flush leaves its shard out of
\* the checkpoint it saves (run structure_restart of module ExtensionStructure), and
\* what is said here of their records holds up to the first restart.
Restart ==
  /\ Leveling
  /\ crashes < MaxCrashes
  /\ crashes' = crashes + 1
  /\ appended' = Replay(wal)
  /\ m_data' = [p \in Slots |-> IF p < Len(appended') THEN appended'[p + 1] ELSE None]
  /\ m_head' = 0
  /\ pc' = [c \in Clients |-> "idle"]
  /\ rec' = [c \in Clients |-> None]
  /\ idx' = [c \in Clients |-> 0]
  /\ fpc' = "idle"
  /\ new_head' = 0
  /\ remaining' = <<>>
  /\ UNCHANGED <<serial, disk, nrec, acked>>

Flush ==
  \/ TakeView \/ SaveShard \/ FlushBegin \/ AdvanceHead
  \/ FlushComplete \/ Truncate \/ Rewrite

Next ==
  \/ \E c \in Clients : Insert(c) \/ Claim(c) \/ Log(c) \/ Store(c)
  \/ Flush
  \/ Restart

Spec == Init /\ [][Next]_vars

-----------------------------------------------------------------------------
(***************************************************************************)
(* Properties.                                                             *)
(***************************************************************************)

\* Every variable has the type the code declares for it, and the buffer holds at
\* most the high watermark, also right after a replay.
TypeOK ==
  /\ serial \in Modes
  /\ wal \in Seq(Records \cup {FLUSH_B, FLUSH_C})
  /\ ckpt \in [Records -> Nat]
  /\ m_data \in [Slots -> Records \cup {None}]
  /\ appended \in Seq(Records \cup {None})
  /\ m_head \in 0..Len(appended) /\ RecordCount <= HWM
  /\ pc \in [Clients -> {"idle", "claim", "log", "store"}]
  /\ rec \in [Clients -> Records \cup {None}]
  /\ idx \in [Clients -> 0..Len(appended)]
  /\ fpc \in FlushSteps
  /\ new_head \in 0..Len(appended)
  /\ remaining \in Seq(Records)
  /\ nrec \in 0..MaxRecords /\ acked \subseteq Records /\ crashes \in 0..MaxCrashes

\* Single-threaded, no record whose insert returned 1 is lost, wherever in a flush
\* the process ends: it is in a shard of the checkpoint, or the replay of the log
\* brings it back.  (The checkpoint is saved before the log is cut, and the replay
\* never meets more entries than the buffer has room for.)  The process ends and
\* starts again under LEVELING only, see Restart.
SerialDurable ==
  serial => \A r \in acked : ckpt[r] > 0 \/ r \in ToSet(Replay(wal))

\* What the replay tests expect of the log: the records that the buffer holds can be
\* rebuilt from it, up to a flush_complete that is writing entries back.
LogCoversBuffer ==
  ToSet(SubSeq(appended, m_head + 1, Len(appended))) \ {None} \subseteq ToSet(wal) \cup ToSet(remaining)

\* Single-threaded, a flush leaves no record both in the checkpoint and in the log;
\* ending the process in the middle of a flush costs at most one more copy of a record
\* each time.  (With FIFOScheduler a flush can copy a slot that an insert has claimed
\* and not written, and so store the record of the lap before once more.)
OneCopyPerCrash ==
  serial /\ fpc = "idle" =>
    \A r \in Records : ckpt[r] + Occurrences(wal, r) <= 1 + crashes
=============================================================================
