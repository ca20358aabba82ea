------------------------------ MODULE EventLog ------------------------------
(* The durable event log of events.go: one process at a time opens the file  *)
(* O_APPEND, optionally scans it for the highest sequence number, and then   *)
(* appends records, each written, flushed and fsynced before Append returns. *)
(*                                                                           *)
(* The file is a sequence of tokens: a record (the JSON object of one        *)
(* Event), Torn (a proper prefix of one) and NL (the newline that ends a     *)
(* line). A line is readable when it is exactly one whole record, which is   *)
(* when json.Unmarshal accepts it; two tokens without an NL between them are *)
(* one line that no reader can parse. Payloads are left out: a record is its *)
(* sequence number and the process (run) that wrote it.                      *)
EXTENDS Naturals, Sequences

CONSTANTS MaxRuns,       \* bound: processes that open the log
          MaxSeq,        \* bound: sequence numbers one process may reach
          TornTails,     \* may a crash or a failed write leave part of a line?
          FreshReopen    \* may a process open a non-empty log without resuming?

ASSUME BoundsAssumption == MaxRuns \in Nat /\ MaxSeq \in Nat
ASSUME SwitchAssumption == TornTails \in BOOLEAN /\ FreshReopen \in BOOLEAN

Record == [seq : Nat, run : Nat]
NL   == [token |-> "newline"]
Torn == [token |-> "torn"]
Token == Record \cup {NL, Torn}

VARIABLES file,          \* the tokens in the file
          synced,        \* length of the prefix the last good fsync covered
          pc,            \* where the process is: see Stage
          run,           \* number of the process, 0 before the first
          seq,           \* EventLog.seq
          broken,        \* bufio.Writer has failed: its error is sticky
          rd, mark,      \* scanTail: next token to read, logTail.seq so far
          acked          \* history: records whose Append returned nil

vars == <<file, synced, pc, run, seq, broken, rd, mark, acked>>

(* down: no process; opened: OpenEventLog returned; scan: in scanTail;       *)
(* ready: no call in progress; append: the line is marshalled; written: the  *)
(* line is flushed and fsync has not returned.                               *)
Stage == {"down", "opened", "scan", "ready", "append", "written"}

IsRecord(t) == t \in Record
Starts(f, i) == i = 1 \/ f[i - 1] = NL
Readable(f, i) == /\ IsRecord(f[i])
                  /\ Starts(f, i)
                  /\ i = Len(f) \/ f[i + 1] = NL

Pending == [seq |-> seq, run |-> run]

(* What a write of the pending line can leave when only part of it reaches   *)
(* the file.                                                                 *)
Fragments == IF TornTails THEN {<<>>, <<Torn>>, <<Pending>>} ELSE {<<>>}

TypeOK == /\ file \in Seq(Token)
          /\ synced \in 0..Len(file)
          /\ pc \in Stage
          /\ run \in 0..MaxRuns
          /\ seq \in Nat
          /\ broken \in BOOLEAN
          /\ rd \in Nat \ {0}
          /\ mark \in Nat
          /\ acked \subseteq Record

-----------------------------------------------------------------------------
Init == /\ file = <<>>
        /\ synced = 0
        /\ pc = "down"
        /\ run = 0
        /\ seq = 0
        /\ broken = FALSE
        /\ rd = 1
        /\ mark = 0
        /\ acked = {}

(* Mutant: opened with O_TRUNC in place of O_APPEND.                         *)
OpenTruncated == /\ pc = "down"
                 /\ run < MaxRuns
                 /\ pc' = "opened"
                 /\ run' = run + 1
                 /\ seq' = 0
                 /\ broken' = FALSE
                 /\ file' = <<>>
                 /\ UNCHANGED <<synced, rd, mark, acked>>

OpenEventLog == /\ pc = "down"
                /\ run < MaxRuns
                /\ pc' = "opened"
                /\ run' = run + 1
                /\ seq' = 0
                /\ broken' = FALSE
                /\ UNCHANGED <<file, synced, rd, mark, acked>>

(* A process that does not resume appends with seq still 0.                  *)
Fresh == /\ pc = "opened"
         /\ FreshReopen \/ file = <<>>
         /\ pc' = "ready"
         /\ UNCHANGED <<file, synced, run, seq, broken, rd, mark, acked>>

ResumeSeq == /\ pc = "opened"
             /\ pc' = "scan"
             /\ rd' = 1
             /\ mark' = 0
             /\ UNCHANGED <<file, synced, run, seq, broken, acked>>

(* Mutant: scanTail returns the last line's number, not the highest.         *)
ScanLineLast == /\ pc = "scan"
                /\ rd <= Len(file)
                /\ rd' = rd + 1
                /\ mark' = IF IsRecord(file[rd]) THEN file[rd].seq ELSE 0
                /\ UNCHANGED <<file, synced, pc, run, seq, broken, acked>>

ScanLine == /\ pc = "scan"
            /\ rd <= Len(file)
            /\ rd' = rd + 1
            /\ mark' = IF Readable(file, rd) /\ file[rd].seq > mark
                         THEN file[rd].seq ELSE mark
            /\ UNCHANGED <<file, synced, pc, run, seq, broken, acked>>

ScanDone == /\ pc = "scan"
            /\ rd > Len(file)
            /\ seq' = mark
            /\ pc' = "ready"
            /\ UNCHANGED <<file, synced, run, broken, rd, mark, acked>>

(* sc.Err(): a line beyond the scanner's 8 MB, or a read error; the run ends *)
(* with bootstrap_error.                                                     *)
ScanFail == /\ pc = "scan"
            /\ pc' = "down"
            /\ UNCHANGED <<file, synced, run, seq, broken, rd, mark, acked>>

-----------------------------------------------------------------------------
(* Append, in its four steps. The sequence number is spent first and is not  *)
(* given back when a later step fails.                                       *)
Begin == /\ pc = "ready"
         /\ seq < MaxSeq
         /\ seq' = seq + 1
         /\ pc' = "append"
         /\ UNCHANGED <<file, synced, run, broken, rd, mark, acked>>

(* json.Marshal rejects the payload (a RawMessage that is not JSON).         *)
MarshalFail == /\ pc = "append"
               /\ pc' = "ready"
               /\ UNCHANGED <<file, synced, run, seq, broken, rd, mark, acked>>

(* Mutant: Append returns once the line is flushed, without f.Sync.          *)
WriteNoSync == /\ pc = "append"
               /\ ~broken
               /\ file' = file \o <<Pending, NL>>
               /\ acked' = acked \cup {Pending}
               /\ pc' = "ready"
               /\ UNCHANGED <<synced, run, seq, broken, rd, mark>>

Write == /\ pc = "append"
         /\ ~broken
         /\ file' = file \o <<Pending, NL>>
         /\ pc' = "written"
         /\ UNCHANGED <<synced, run, seq, broken, rd, mark, acked>>

(* Mutant: the writer is recovered after an error and used again.            *)
WriteFailForgotten == /\ pc = "append"
                      /\ \E left \in Fragments : file' = file \o left
                      /\ pc' = "ready"
                      /\ UNCHANGED <<synced, run, seq, broken, rd, mark, acked>>

WriteFail == /\ pc = "append"
             /\ ~broken
             /\ \E left \in Fragments : file' = file \o left
             /\ broken' = TRUE
             /\ pc' = "ready"
             /\ UNCHANGED <<synced, run, seq, rd, mark, acked>>

(* Every call on a bufio.Writer after an error returns that error.           *)
WriteAgain == /\ pc = "append"
              /\ broken
              /\ pc' = "ready"
              /\ UNCHANGED <<file, synced, run, seq, broken, rd, mark, acked>>

Sync == /\ pc = "written"
        /\ synced' = Len(file)
        /\ acked' = acked \cup {Pending}
        /\ pc' = "ready"
        /\ UNCHANGED <<file, run, seq, broken, rd, mark>>

SyncFail == /\ pc = "written"
            /\ pc' = "ready"
            /\ UNCHANGED <<file, synced, run, seq, broken, rd, mark, acked>>

Close == /\ pc = "ready"
         /\ pc' = "down"
         /\ UNCHANGED <<file, synced, run, seq, broken, rd, mark, acked>>

-----------------------------------------------------------------------------
(* The process dies and, if the machine does, so does any part of the file   *)
(* no fsync covered. A write under way may have reached the file in part.    *)
InFlight == IF pc = "append" /\ ~broken THEN file \o <<Pending, NL>> ELSE file

Cut(f, n) == SubSeq(f, 1, n)

AtLineEnd(f, n) == n > 0 => f[n] = NL

(* What a crash can leave of f: a prefix that covers what is synced, its     *)
(* last token cut short or not.                                              *)
Survivors(f) ==
  {Cut(f, n) : n \in {m \in synced..Len(f) : TornTails \/ AtLineEnd(f, m)}}
  \cup
  {Append(Cut(f, n - 1), Torn) : n \in {m \in synced + 1..Len(f) :
                                          TornTails /\ f[m] # NL}}

Crash == /\ pc # "down" \/ synced < Len(file)
         /\ pc' = "down"
         /\ file' \in Survivors(InFlight)
         /\ UNCHANGED <<synced, run, seq, broken, rd, mark, acked>>

Next == \/ OpenEventLog \/ Fresh \/ ResumeSeq \/ ScanLine \/ ScanDone
        \/ ScanFail \/ Begin \/ MarshalFail \/ Write \/ WriteFail \/ WriteAgain
        \/ Sync \/ SyncFail \/ Close \/ Crash

Spec == Init /\ [][Next]_vars

-----------------------------------------------------------------------------
(* The records of the file in order never repeat or go back: the sequence    *)
(* number each process continues from covers everything a later reader can   *)
(* see, torn lines, failed writes and unsynced tails included.               *)
SeqIncreasing == \A i, j \in 1..Len(file) :
                   i < j /\ Readable(file, i) /\ Readable(file, j)
                     => file[i].seq < file[j].seq

(* Why: no reader ever sees a number above the one being written, and what a *)
(* truncation can make readable again is above all that precedes it.         *)
Strict(f) == \A i, j \in 1..Len(f) :
               i < j /\ Readable(f, i) /\ IsRecord(f[j]) /\ Starts(f, j)
                 => f[i].seq < f[j].seq

Below(f, n) == \A i \in 1..Len(f) : Readable(f, i) => f[i].seq < n

ReadSoFar == \A i \in 1..Len(file) :
               i < rd /\ Readable(file, i) => file[i].seq < mark + 1

NumberingInv == /\ Strict(file)
                /\ pc = "scan" => ReadSoFar
                /\ pc \in {"ready", "written"} => Below(file, seq + 1)
                /\ pc = "append" => Below(file, seq)

IsReadable(r) == \E i \in 1..Len(file) : Readable(file, i) /\ file[i] = r

(* Append returned nil, so the record can be read for ever after, whatever   *)
(* crashes: the durability the write-ahead rule rests on.                    *)
AckedReadable == \A r \in acked : IsReadable(r)

(* What is left of AckedReadable when a crash or a failed write can leave an *)
(* unterminated tail, which the next process's first record is glued to:     *)
(* only that first acknowledged record of a process can be lost.             *)
FirstOnlyLost == \A r \in acked :
                   \/ IsReadable(r)
                   \/ \A q \in acked : q.run = r.run => q.seq >= r.seq

(* Why: an acknowledged record and its newline are within the synced part,   *)
(* and a process that has had one acknowledged goes on at the start of a     *)
(* line, for it stops writing at the first failed write.                     *)
FirstOfItsRun(r) == \A q \in acked : q.run = r.run => q.seq >= r.seq

Secured(r) == \E i \in 1..synced : /\ i < synced
                                   /\ file[i] = r
                                   /\ file[i + 1] = NL
                                   /\ Starts(file, i) \/ FirstOfItsRun(r)

Numbered(r) == /\ r.run <= run
               /\ r.run = run => /\ pc \notin {"opened", "scan"}
                                 /\ r.seq <= seq
                                 /\ pc \in {"append", "written"} => r.seq < seq

HasAcked == \E q \in acked : q.run = run

DurableInv ==
  /\ \A r \in acked : Secured(r)
  /\ \A r \in acked : Numbered(r)
  /\ pc \in {"ready", "append"} /\ ~broken /\ HasAcked => AtLineEnd(file, Len(file))
  /\ pc = "written" => /\ Len(file) >= 2
                       /\ file[Len(file)] = NL
                       /\ file[Len(file) - 1] = Pending
                       /\ HasAcked => Starts(file, Len(file) - 1)

(* Without torn lines every record has a line of its own.                    *)
WholeLines(f) == /\ AtLineEnd(f, Len(f))
                 /\ \A i \in 1..Len(f) : IsRecord(f[i]) =>
                      Starts(f, i) /\ i < Len(f) /\ f[i + 1] = NL

(* No step, crash or reopening changes or removes a byte an fsync covered.   *)
SyncedKept ==
  [][/\ synced' >= synced
     /\ \A i \in 1..synced : i <= Len(file') /\ file'[i] = file[i]]_vars

(* The promise of LogStore, kept by a log without torn tails: every line of  *)
(* the file is a record and its newline, and the synced prefix is the        *)
(* guaranteed one.                                                           *)
Records == [i \in 1..Len(file) \div 2 |-> file[2 * i - 1]]

Promise == INSTANCE LogStore
             WITH store <- Records,
                  kept  <- synced \div 2

ImplementsLogStore == Promise!Spec
=============================================================================
