--------------------------- MODULE EventLogProofs ---------------------------
(* Proofs about EventLog for every number of processes and every length of   *)
(* the file, torn tails or not: its type invariant; that what is synced is   *)
(* never touched again; that the records a reader can see are numbered       *)
(* upwards when every reopening resumes; what an acknowledgement is worth;   *)
(* and that with whole lines the file is the store LogStore promises.        *)
EXTENDS EventLog, SequenceTheorems, TLAPS

-----------------------------------------------------------------------------
(* A line's own tokens are records or marks, never both.                     *)
LEMMA TokenShapes == /\ NL \notin Record
                     /\ Torn \notin Record
                     /\ NL # Torn
                     /\ NL \in Token
                     /\ Torn \in Token
<1>1. NL \notin Record
  <2>1. SUFFICES ASSUME NL \in Record PROVE FALSE
    OBVIOUS
  <2>2. DOMAIN NL = {"token"}
    BY DEF NL
  <2>3. DOMAIN NL = {"seq", "run"}
    BY <2>1 DEF Record
  <2> QED
    BY <2>2, <2>3
<1>2. Torn \notin Record
  <2>1. SUFFICES ASSUME Torn \in Record PROVE FALSE
    OBVIOUS
  <2>2. DOMAIN Torn = {"token"}
    BY DEF Torn
  <2>3. DOMAIN Torn = {"seq", "run"}
    BY <2>1 DEF Record
  <2> QED
    BY <2>2, <2>3
<1>3. NL # Torn
  <2>1. NL.token = "newline" /\ Torn.token = "torn"
    BY DEF NL, Torn
  <2> QED
    BY <2>1
<1> QED
  BY <1>1, <1>2, <1>3 DEF Token

(* The pending line is a record.                                             *)
LEMMA PendingIsRecord ==
  ASSUME TypeOK
  PROVE  Pending \in Record
BY BoundsAssumption DEF TypeOK, Pending, Record

(* Whatever a crash leaves is a file whose first synced tokens are those of  *)
(* the file it struck.                                                       *)
LEMMA SurvivorsKeep ==
  ASSUME NEW f \in Seq(Token), synced \in 0..Len(f), NEW g \in Survivors(f)
  PROVE  /\ g \in Seq(Token)
         /\ synced <= Len(g)
         /\ \A i \in 1..synced : g[i] = f[i]
<1>1. CASE \E n \in synced..Len(f) : g = Cut(f, n)
  BY <1>1 DEF Cut
<1>2. CASE \E n \in synced + 1..Len(f) : g = Append(Cut(f, n - 1), Torn)
  <2>1. PICK n \in synced + 1..Len(f) : g = Append(Cut(f, n - 1), Torn)
    BY <1>2
  <2>2. /\ Cut(f, n - 1) \in Seq(Token)
        /\ Len(Cut(f, n - 1)) = n - 1
        /\ \A i \in 1..n - 1 : Cut(f, n - 1)[i] = f[i]
    BY <2>1 DEF Cut
  <2> QED
    BY <2>1, <2>2, TokenShapes
<1> QED
  BY <1>1, <1>2 DEF Survivors

(* What is in flight is a file that begins with the one on disk.             *)
LEMMA InFlightExtends ==
  ASSUME TypeOK
  PROVE  /\ InFlight \in Seq(Token)
         /\ Len(file) <= Len(InFlight)
         /\ \A i \in 1..Len(file) : InFlight[i] = file[i]
<1>1. <<Pending, NL>> \in Seq(Token)
  BY PendingIsRecord, TokenShapes DEF Token
<1> QED
  BY <1>1 DEF TypeOK, InFlight

(* A failed write adds at most one token.                                    *)
LEMMA FragmentsAreTokens ==
  ASSUME TypeOK
  PROVE  Fragments \subseteq Seq(Token)
<1>1. Pending \in Token /\ Torn \in Token
  BY PendingIsRecord, TokenShapes DEF Token
<1>2. /\ <<>> \in Seq(Token)
      /\ <<Torn>> \in Seq(Token)
      /\ <<Pending>> \in Seq(Token)
  BY <1>1
<1> QED
  BY <1>2 DEF Fragments

-----------------------------------------------------------------------------
(* Type correctness of the writer: counters stay natural numbers, the synced *)
(* prefix stays within the file, and the file is made of tokens.             *)
THEOREM TypeCorrect == Spec => []TypeOK
<1>1. Init => TypeOK
  <2> SUFFICES ASSUME Init PROVE TypeOK
    OBVIOUS
  <2>1. broken \in BOOLEAN
    BY DEF Init
  <2> QED
    BY <2>1, BoundsAssumption DEF Init, TypeOK, Stage
<1>2. TypeOK /\ [Next]_vars => TypeOK'
  <2> SUFFICES ASSUME TypeOK, [Next]_vars PROVE TypeOK'
    OBVIOUS
  <2>1. CASE OpenEventLog
    <3>1. broken' \in BOOLEAN
      BY <2>1 DEF OpenEventLog
    <3> QED
      BY <2>1, <3>1, BoundsAssumption DEF TypeOK, OpenEventLog, Stage
  <2>2. CASE Fresh
    BY <2>2 DEF TypeOK, Fresh, Stage
  <2>3. CASE ResumeSeq
    BY <2>3 DEF TypeOK, ResumeSeq, Stage
  <2>4. CASE ScanLine
    <3>1. mark' \in Nat
      BY <2>4 DEF TypeOK, ScanLine, Readable, IsRecord, Record
    <3> QED
      BY <2>4, <3>1 DEF TypeOK, ScanLine, Stage
  <2>5. CASE ScanDone
    BY <2>5 DEF TypeOK, ScanDone, Stage
  <2>6. CASE ScanFail
    BY <2>6 DEF TypeOK, ScanFail, Stage
  <2>7. CASE Begin
    BY <2>7 DEF TypeOK, Begin, Stage
  <2>8. CASE MarshalFail
    BY <2>8 DEF TypeOK, MarshalFail, Stage
  <2>9. CASE Write
    <3>1. <<Pending, NL>> \in Seq(Token)
      BY PendingIsRecord, TokenShapes DEF Token
    <3>2. file' \in Seq(Token) /\ synced' \in 0..Len(file')
      BY <2>9, <3>1 DEF TypeOK, Write
    <3> QED
      BY <2>9, <3>2 DEF TypeOK, Write, Stage
  <2>10. CASE WriteFail
    <3>1. PICK left \in Fragments : file' = file \o left
      BY <2>10 DEF WriteFail
    <3>2. left \in Seq(Token)
      BY <3>1, FragmentsAreTokens
    <3>3. file' \in Seq(Token) /\ synced' \in 0..Len(file')
      BY <2>10, <3>1, <3>2 DEF TypeOK, WriteFail
    <3> QED
      BY <2>10, <3>3 DEF TypeOK, WriteFail, Stage
  <2>11. CASE WriteAgain
    BY <2>11 DEF TypeOK, WriteAgain, Stage
  <2>12. CASE Sync
    <3>1. acked' \subseteq Record
      BY <2>12, PendingIsRecord DEF TypeOK, Sync
    <3> QED
      BY <2>12, <3>1 DEF TypeOK, Sync, Stage
  <2>13. CASE SyncFail
    BY <2>13 DEF TypeOK, SyncFail, Stage
  <2>14. CASE Close
    BY <2>14 DEF TypeOK, Close, Stage
  <2>15. CASE Crash
    <3>1. synced \in 0..Len(InFlight)
      BY InFlightExtends DEF TypeOK
    <3>2. file' \in Seq(Token) /\ synced <= Len(file')
      BY <2>15, <3>1, InFlightExtends, SurvivorsKeep DEF Crash
    <3> QED
      BY <2>15, <3>2 DEF TypeOK, Crash, Stage
  <2>16. CASE UNCHANGED vars
    BY <2>16 DEF TypeOK, vars
  <2> QED
    BY <2>1, <2>2, <2>3, <2>4, <2>5, <2>6, <2>7, <2>8, <2>9, <2>10, <2>11,
       <2>12, <2>13, <2>14, <2>15, <2>16 DEF Next
<1> QED
  BY <1>1, <1>2, PTL DEF Spec

-----------------------------------------------------------------------------
(* No step, crash or reopening touches what an fsync covered.                *)
THEOREM SyncedIsKept == Spec => SyncedKept
<1> DEFINE Kept == /\ synced' >= synced
                   /\ \A i \in 1..synced : i <= Len(file') /\ file'[i] = file[i]
<1>1. TypeOK /\ [Next]_vars => [Kept]_vars
  <2> SUFFICES ASSUME TypeOK, Next PROVE Kept
    BY DEF Next, vars
  <2>1. CASE UNCHANGED <<file, synced>>
    BY <2>1 DEF TypeOK
  <2>2. ASSUME NEW left \in Seq(Token), file' = file \o left, synced' = synced
        PROVE  Kept
    <3>1. /\ file' \in Seq(Token)
          /\ synced <= Len(file) /\ synced <= Len(file') /\ synced \in Nat
          /\ \A i \in 1..synced : file'[i] = file[i]
      BY <2>2 DEF TypeOK
    <3> QED
      BY <2>2, <3>1
  <2>3. CASE Write
    <3>1. <<Pending, NL>> \in Seq(Token)
      BY PendingIsRecord, TokenShapes DEF Token
    <3> QED
      BY <2>2, <2>3, <3>1 DEF Write
  <2>4. CASE WriteFail
    <3>1. PICK left \in Fragments : file' = file \o left
      BY <2>4 DEF WriteFail
    <3>2. left \in Seq(Token)
      BY FragmentsAreTokens
    <3> QED
      BY <2>2, <2>4, <3>1, <3>2 DEF WriteFail
  <2>5. CASE Sync
    BY <2>5 DEF Sync, TypeOK
  <2>6. CASE Crash
    <3>1. file' \in Survivors(InFlight) /\ synced' = synced
      BY <2>6 DEF Crash
    <3>2. /\ file' \in Seq(Token)
          /\ synced <= Len(file)
          /\ synced <= Len(file')
          /\ \A i \in 1..synced : file'[i] = file[i]
      BY <3>1, InFlightExtends, SurvivorsKeep DEF TypeOK
    <3> QED
      BY <3>1, <3>2 DEF TypeOK
  <2>7. OpenEventLog \/ Fresh \/ ResumeSeq \/ ScanLine \/ ScanDone \/ ScanFail
          \/ Begin \/ MarshalFail \/ WriteAgain \/ SyncFail \/ Close
          => UNCHANGED <<file, synced>>
    BY DEF OpenEventLog, Fresh, ResumeSeq, ScanLine, ScanDone, ScanFail, Begin,
           MarshalFail, WriteAgain, SyncFail, Close
  <2> QED
    BY <2>1, <2>3, <2>4, <2>5, <2>6, <2>7 DEF Next
<1> QED
  BY <1>1, TypeCorrect, PTL DEF Spec, SyncedKept

-----------------------------------------------------------------------------
(* Writing a record numbered above everything readable, in whole or in part. *)
LEMMA GrowStrict ==
  ASSUME NEW f \in Seq(Token), NEW r \in Record,
         NEW left \in {<<>>, <<Torn>>, <<r>>, <<r, NL>>},
         Strict(f), Below(f, r.seq)
  PROVE  Strict(f \o left) /\ Below(f \o left, r.seq + 1)
<1> DEFINE g == f \o left
<1> DEFINE end == Len(f) + 1
<1>0. /\ left \in Seq(Token)
      /\ Len(left) \in Nat
      /\ \A k \in 1..Len(left) : IsRecord(left[k]) => k = 1 /\ left[k] = r
  <2>1. r \in Token /\ Torn \in Token /\ NL \in Token
    BY TokenShapes DEF Token
  <2>2. CASE left = <<>>
    BY <2>2
  <2>3. CASE left = <<Torn>>
    BY <2>1, <2>3, TokenShapes DEF IsRecord
  <2>4. CASE left = <<r>>
    BY <2>1, <2>4
  <2>5. CASE left = <<r, NL>>
    BY <2>1, <2>5, TokenShapes DEF IsRecord
  <2> QED
    BY <2>2, <2>3, <2>4, <2>5
<1>1. /\ g \in Seq(Token)
      /\ Len(f) \in Nat
      /\ Len(g) = Len(f) + Len(left)
      /\ \A i \in 1..Len(f) : g[i] = f[i]
      /\ \A i \in 1..Len(left) : g[Len(f) + i] = left[i]
  BY <1>0
<1> HIDE DEF g
<1>2. \A j \in 1..Len(g) : j > Len(f) /\ IsRecord(g[j]) => j = end /\ g[j] = r
  <2> SUFFICES ASSUME NEW j \in 1..Len(g), j > Len(f), IsRecord(g[j])
               PROVE  j = end /\ g[j] = r
    OBVIOUS
  <2>1. PICK k \in 1..Len(left) : j = Len(f) + k
    <3>1. j - Len(f) \in 1..Len(left) /\ j = Len(f) + (j - Len(f))
      BY <1>0, <1>1
    <3> QED
      BY <3>1
  <2>2. g[j] = left[k]
    BY <2>1, <1>1
  <2> QED
    BY <2>1, <2>2, <1>0
<1>3. \A j \in 1..Len(f) : Starts(g, j) => Starts(f, j)
  <2> SUFFICES ASSUME NEW j \in 1..Len(f), Starts(g, j), j # 1
               PROVE  f[j - 1] = NL
    BY DEF Starts
  <2>1. g[j - 1] = NL
    BY DEF Starts
  <2>2. j - 1 \in 1..Len(f)
    BY <1>1
  <2> QED
    BY <2>1, <2>2, <1>1
<1>4. \A i \in 1..Len(f) : Readable(g, i) => Readable(f, i)
  <2> SUFFICES ASSUME NEW i \in 1..Len(f), Readable(g, i), i # Len(f)
               PROVE  f[i + 1] = NL
    BY <1>1, <1>3 DEF Readable
  <2>1. i + 1 \in 1..Len(f) /\ i # Len(g)
    BY <1>0, <1>1
  <2>2. g[i + 1] = NL
    BY <2>1 DEF Readable
  <2> QED
    BY <2>1, <2>2, <1>1
<1>5. \A i \in 1..Len(f) : Readable(f, i) => f[i].seq \in Nat
  BY DEF Readable, IsRecord, Record
<1>6. r.seq \in Nat
  BY DEF Record
<1>7. Below(g, r.seq + 1)
  <2> SUFFICES ASSUME NEW i \in 1..Len(g), Readable(g, i)
               PROVE  g[i].seq < r.seq + 1
    BY DEF Below
  <2>1. CASE i \in 1..Len(f)
    <3>1. Readable(f, i) /\ g[i] = f[i]
      BY <2>1, <1>1, <1>4
    <3>2. f[i].seq < r.seq /\ f[i].seq \in Nat
      BY <2>1, <3>1, <1>5 DEF Below
    <3> QED
      BY <3>1, <3>2, <1>6
  <2>2. CASE i > Len(f)
    <3>1. g[i] = r
      BY <2>2, <1>2 DEF Readable
    <3> QED
      BY <3>1, <1>6
  <2>3. i \in 1..Len(f) \/ i > Len(f)
    BY <1>0, <1>1
  <2> QED
    BY <2>1, <2>2, <2>3
<1>8. Strict(g)
  <2> SUFFICES ASSUME NEW i \in 1..Len(g), NEW j \in 1..Len(g), i < j,
                      Readable(g, i), IsRecord(g[j]), Starts(g, j)
               PROVE  g[i].seq < g[j].seq
    BY DEF Strict
  <2>1. CASE j \in 1..Len(f)
    <3>1. i \in 1..Len(f)
      BY <2>1, <1>0, <1>1
    <3>2. /\ g[i] = f[i] /\ g[j] = f[j]
          /\ Readable(f, i) /\ Starts(f, j)
      BY <2>1, <3>1, <1>1, <1>3, <1>4
    <3> QED
      BY <2>1, <3>1, <3>2 DEF Strict
  <2>2. CASE j > Len(f)
    <3>1. j = end /\ g[j] = r
      BY <2>2, <1>2
    <3>2. i \in 1..Len(f)
      BY <3>1, <1>0, <1>1
    <3>3. g[i] = f[i] /\ Readable(f, i)
      BY <3>2, <1>1, <1>4
    <3> QED
      BY <3>1, <3>2, <3>3 DEF Below
  <2>3. j \in 1..Len(f) \/ j > Len(f)
    BY <1>0, <1>1
  <2> QED
    BY <2>1, <2>2, <2>3
<1> QED
  BY <1>7, <1>8 DEF g

(* A crash leaves a file that is still numbered upwards.                     *)
LEMMA SurvivorsStrict ==
  ASSUME NEW f \in Seq(Token), synced \in 0..Len(f), Strict(f),
         NEW g \in Survivors(f)
  PROVE  Strict(g)
<1>1. ASSUME NEW n \in 0..Len(f), Len(g) >= n, g \in Seq(Token),
             \A i \in 1..n : g[i] = f[i],
             \A j \in 1..Len(g) : IsRecord(g[j]) => j <= n
      PROVE  Strict(g)
  <2> SUFFICES ASSUME NEW i \in 1..Len(g), NEW j \in 1..Len(g), i < j,
                      Readable(g, i), IsRecord(g[j]), Starts(g, j)
               PROVE  g[i].seq < g[j].seq
    BY DEF Strict
  <2>1. j <= n /\ i + 1 <= n /\ i < Len(g)
    BY <1>1
  <2>2. i \in 1..Len(f) /\ j \in 1..Len(f) /\ g[i] = f[i] /\ g[j] = f[j]
    BY <1>1, <2>1
  <2>3. Readable(f, i)
    BY <1>1, <2>1, <2>2 DEF Readable, Starts, IsRecord
  <2>4. Starts(f, j)
    BY <1>1, <2>1, <2>2 DEF Starts
  <2> QED
    BY <2>2, <2>3, <2>4 DEF Strict
<1>2. CASE \E n \in synced..Len(f) : g = Cut(f, n)
  <2>1. PICK n \in synced..Len(f) : g = Cut(f, n)
    BY <1>2
  <2>2. /\ n \in 0..Len(f) /\ g \in Seq(Token) /\ Len(g) = n
        /\ \A i \in 1..n : g[i] = f[i]
    BY <2>1 DEF Cut
  <2> QED
    BY <2>2, <1>1
<1>3. CASE \E n \in synced + 1..Len(f) : g = Append(Cut(f, n - 1), Torn)
  <2>1. PICK n \in synced + 1..Len(f) : g = Append(Cut(f, n - 1), Torn)
    BY <1>3
  <2>2. /\ n - 1 \in 0..Len(f)
        /\ Cut(f, n - 1) \in Seq(Token)
        /\ Len(Cut(f, n - 1)) = n - 1
        /\ \A i \in 1..n - 1 : Cut(f, n - 1)[i] = f[i]
    BY <2>1 DEF Cut
  <2>3. /\ g \in Seq(Token) /\ Len(g) = n
        /\ \A i \in 1..n - 1 : g[i] = f[i]
        /\ g[n] = Torn
    BY <2>1, <2>2, TokenShapes
  <2>4. \A j \in 1..Len(g) : IsRecord(g[j]) => j <= n - 1
    BY <2>3, TokenShapes DEF IsRecord
  <2> QED
    BY <2>2, <2>3, <2>4, <1>1
<1> QED
  BY <1>2, <1>3 DEF Survivors

(* The step of the inductive invariant behind SeqIncreasing.                 *)
LEMMA NumberingStep ==
  ASSUME ~FreshReopen, TypeOK, NumberingInv, [Next]_vars
  PROVE  NumberingInv'
<1>0. /\ file \in Seq(Token) /\ seq \in Nat /\ mark \in Nat
      /\ rd \in Nat \ {0}
  BY DEF TypeOK
<1>1. CASE OpenEventLog
  BY <1>1 DEF OpenEventLog, NumberingInv
<1>2. CASE Fresh
  <2>1. file = <<>> /\ file' = <<>> /\ pc' = "ready"
    BY <1>2 DEF Fresh
  <2>2. Strict(file') /\ Below(file', seq' + 1)
    BY <2>1 DEF Strict, Below
  <2> QED
    BY <2>1, <2>2 DEF NumberingInv
<1>3. CASE ResumeSeq
  <2>1. file' = file /\ pc' = "scan" /\ rd' = 1
    BY <1>3 DEF ResumeSeq
  <2>2. ReadSoFar'
    BY <2>1, <1>0 DEF ReadSoFar
  <2> QED
    BY <2>1, <2>2 DEF NumberingInv
<1>4. CASE ScanLine
  <2>1. /\ pc = "scan" /\ pc' = "scan" /\ file' = file /\ rd' = rd + 1
        /\ mark' = IF Readable(file, rd) /\ file[rd].seq > mark
                     THEN file[rd].seq ELSE mark
    BY <1>4 DEF ScanLine
  <2>2. ReadSoFar'
    <3> SUFFICES ASSUME NEW i \in 1..Len(file), i < rd + 1, Readable(file, i)
                 PROVE  file[i].seq < mark' + 1
      BY <2>1 DEF ReadSoFar
    <3>1. file[i].seq \in Nat
      BY DEF Readable, IsRecord, Record
    <3>2. CASE i = rd
      BY <2>1, <3>1, <3>2, <1>0
    <3>3. CASE i < rd
      <4>1. file[i].seq < mark + 1
        BY <2>1, <3>3 DEF NumberingInv, ReadSoFar
      <4>2. mark' >= mark /\ mark' \in Nat
        BY <2>1, <1>0 DEF Readable, IsRecord, Record
      <4> QED
        BY <4>1, <4>2, <3>1, <1>0
    <3> QED
      BY <3>2, <3>3, <1>0
  <2> QED
    BY <2>1, <2>2 DEF NumberingInv
<1>5. CASE ScanDone
  <2>1. /\ pc = "scan" /\ pc' = "ready" /\ file' = file
        /\ rd > Len(file) /\ seq' = mark
    BY <1>5 DEF ScanDone
  <2>2. Below(file', seq' + 1)
    BY <2>1, <1>0 DEF NumberingInv, ReadSoFar, Below
  <2> QED
    BY <2>1, <2>2 DEF NumberingInv
<1>6. CASE ScanFail
  BY <1>6 DEF ScanFail, NumberingInv
<1>7. CASE Begin
  <2>1. /\ pc = "ready" /\ pc' = "append" /\ file' = file /\ seq' = seq + 1
    BY <1>7 DEF Begin
  <2> QED
    BY <2>1 DEF NumberingInv
<1>8. CASE MarshalFail \/ WriteAgain
  <2>1. /\ pc = "append" /\ pc' = "ready" /\ file' = file /\ seq' = seq
    BY <1>8 DEF MarshalFail, WriteAgain
  <2>2. Below(file', seq' + 1)
    <3> SUFFICES ASSUME NEW i \in 1..Len(file), Readable(file, i)
                 PROVE  file[i].seq < seq + 1
      BY <2>1 DEF Below
    <3>1. file[i].seq < seq /\ file[i].seq \in Nat
      BY <2>1 DEF NumberingInv, Below, Readable, IsRecord, Record
    <3> QED
      BY <3>1, <1>0
  <2> QED
    BY <2>1, <2>2 DEF NumberingInv
<1>9. CASE Write \/ WriteFail
  <2>1. PICK left \in {<<>>, <<Torn>>, <<Pending>>, <<Pending, NL>>} :
          file' = file \o left
    BY <1>9 DEF Write, WriteFail, Fragments
  <2>2. pc = "append" /\ pc' \in {"written", "ready"} /\ seq' = seq
    BY <1>9 DEF Write, WriteFail
  <2>3. Pending.seq = seq /\ Pending \in Record
    BY PendingIsRecord DEF Pending
  <2>4. Strict(file) /\ Below(file, Pending.seq)
    BY <2>2, <2>3 DEF NumberingInv
  <2>5. Strict(file') /\ Below(file', seq' + 1)
    BY <2>1, <2>2, <2>3, <2>4, <1>0, GrowStrict
  <2> QED
    BY <2>2, <2>5 DEF NumberingInv
<1>10. CASE Sync \/ SyncFail
  <2>1. pc = "written" /\ pc' = "ready" /\ file' = file /\ seq' = seq
    BY <1>10 DEF Sync, SyncFail
  <2> QED
    BY <2>1 DEF NumberingInv
<1>11. CASE Close
  BY <1>11 DEF Close, NumberingInv
<1>12. CASE Crash
  <2>1. Strict(InFlight)
    <3>1. CASE pc = "append" /\ ~broken
      <4>1. Pending.seq = seq /\ Pending \in Record
        BY PendingIsRecord DEF Pending
      <4>2. Strict(file) /\ Below(file, Pending.seq)
        BY <3>1, <4>1 DEF NumberingInv
      <4>3. Strict(file \o <<Pending, NL>>)
        BY <4>1, <4>2, <1>0, GrowStrict
      <4> QED
        BY <3>1, <4>3 DEF InFlight
    <3>2. CASE ~(pc = "append" /\ ~broken)
      BY <3>2 DEF InFlight, NumberingInv
    <3> QED
      BY <3>1, <3>2
  <2>2. synced \in 0..Len(InFlight)
    BY InFlightExtends DEF TypeOK
  <2>3. Strict(file') /\ pc' = "down"
    BY <1>12, <2>1, <2>2, InFlightExtends, SurvivorsStrict DEF Crash
  <2> QED
    BY <2>3 DEF NumberingInv
<1>13. CASE UNCHANGED vars
  <2>1. UNCHANGED <<file, pc, seq, rd, mark>>
    BY <1>13 DEF vars
  <2>2. ReadSoFar' <=> ReadSoFar
    BY <2>1 DEF ReadSoFar
  <2> QED
    BY <2>1, <2>2 DEF NumberingInv
<1> QED
  BY <1>1, <1>2, <1>3, <1>4, <1>5, <1>6, <1>7, <1>8, <1>9, <1>10, <1>11, <1>12,
     <1>13 DEF Next

(* When every process that finds a log resumes it, no number a reader can    *)
(* see is above the one being written, and what a truncation makes readable  *)
(* again is above all that precedes it.                                      *)
THEOREM NumberingHolds ==
  ASSUME ~FreshReopen
  PROVE  Spec => []NumberingInv
<1>1. Init => NumberingInv
  BY DEF Init, NumberingInv, Strict
<1>2. TypeOK /\ NumberingInv /\ [Next]_vars => NumberingInv'
  BY NumberingStep
<1> QED
  BY <1>1, <1>2, TypeCorrect, PTL DEF Spec

(* So sequence numbers strictly increase along the readable lines of the     *)
(* file, through any crash, torn tail, failed write and lost tail.           *)
THEOREM NumberedUpwards ==
  ASSUME ~FreshReopen
  PROVE  Spec => []SeqIncreasing
<1>1. NumberingInv => SeqIncreasing
  BY DEF NumberingInv, Strict, SeqIncreasing, Readable
<1> QED
  BY <1>1, NumberingHolds, PTL

-----------------------------------------------------------------------------
(* The record being written is on its way to its first acknowledgement, and  *)
(* is above every acknowledged record of its process.                        *)
LEMMA PendingIsAbove ==
  ASSUME TypeOK, DurableInv, pc \in {"append", "written"}
  PROVE  /\ Pending.run = run
         /\ Pending.seq = seq
         /\ \A q \in acked : q.run = run => q.seq < Pending.seq
BY DEF DurableInv, Numbered, Pending

(* What is secured stays so while the synced part does not change.           *)
LEMMA SecuredStays ==
  ASSUME TypeOK, NEW r \in acked, Secured(r),
         acked' = acked, synced' >= synced, synced' \in Nat,
         \A i \in 1..synced : file'[i] = file[i]
  PROVE  Secured(r)'
<1>1. PICK i \in 1..synced : /\ i < synced
                             /\ file[i] = r
                             /\ file[i + 1] = NL
                             /\ Starts(file, i) \/ FirstOfItsRun(r)
  BY DEF Secured
<1>2. synced \in Nat
  BY DEF TypeOK
<1>3. /\ i \in 1..synced' /\ i < synced'
      /\ file'[i] = file[i]
  BY <1>1, <1>2
<1>4. file'[i + 1] = file[i + 1]
  BY <1>1, <1>2
<1>5. Starts(file, i) => Starts(file, i)'
  <2> SUFFICES ASSUME Starts(file, i), i # 1
               PROVE  file'[i - 1] = NL
    BY DEF Starts
  <2>1. i - 1 \in 1..synced
    BY <1>1, <1>2
  <2> QED
    BY <2>1 DEF Starts
<1>6. FirstOfItsRun(r) => FirstOfItsRun(r)'
  BY DEF FirstOfItsRun
<1> QED
  BY <1>1, <1>3, <1>4, <1>5, <1>6 DEF Secured

(* A step that leaves the file, the synced part and the acknowledged records *)
(* alone.                                                                    *)
LEMMA SecuredUntouched ==
  ASSUME TypeOK, \A r \in acked : Secured(r),
         UNCHANGED <<file, synced, acked>>
  PROVE  \A r \in acked' : Secured(r)'
BY SecuredStays DEF TypeOK

(* Writing a whole line.                                                     *)
LEMMA LineWritten ==
  ASSUME TypeOK, file' = file \o <<Pending, NL>>
  PROVE  /\ file' \in Seq(Token)
         /\ Len(file') = Len(file) + 2
         /\ \A i \in 1..Len(file) : file'[i] = file[i]
         /\ file'[Len(file) + 1] = Pending
         /\ file'[Len(file) + 2] = NL
<1>1. <<Pending, NL>> \in Seq(Token)
  BY PendingIsRecord, TokenShapes DEF Token
<1> QED
  BY <1>1 DEF TypeOK

-----------------------------------------------------------------------------
(* Acknowledged records are secured by every step: only Sync acknowledges,   *)
(* and what it acknowledges is the last line of the file.                    *)
LEMMA SecuredStep ==
  ASSUME TypeOK, DurableInv, [Next]_vars
  PROVE  \A r \in acked' : Secured(r)'
<1>0. \A r \in acked : Secured(r)
  BY DEF DurableInv
<1>1. CASE Write
  <2>1. /\ synced' = synced /\ synced \in Nat /\ synced <= Len(file)
        /\ \A i \in 1..Len(file) : file'[i] = file[i]
        /\ acked' = acked
    BY <1>1, LineWritten DEF Write, TypeOK
  <2>2. \A i \in 1..synced : file'[i] = file[i]
    BY <2>1
  <2> QED
    BY <1>0, <2>1, <2>2, SecuredStays
<1>2. CASE WriteFail
  <2>1. PICK left \in Fragments : file' = file \o left
    BY <1>2 DEF WriteFail
  <2>2. left \in Seq(Token)
    BY FragmentsAreTokens
  <2>3. /\ synced' = synced /\ synced \in Nat /\ acked' = acked
        /\ \A i \in 1..synced : file'[i] = file[i]
    BY <1>2, <2>1, <2>2 DEF WriteFail, TypeOK
  <2> QED
    BY <1>0, <2>3, SecuredStays
<1>3. CASE Crash
  <2>1. /\ synced' = synced /\ synced \in Nat /\ acked' = acked
        /\ file' \in Survivors(InFlight)
    BY <1>3 DEF Crash, TypeOK
  <2>2. \A i \in 1..synced : file'[i] = file[i]
    BY <2>1, InFlightExtends, SurvivorsKeep DEF TypeOK
  <2> QED
    BY <1>0, <2>1, <2>2, SecuredStays
<1>4. CASE Sync
  <2>1. /\ synced' = Len(file) /\ file' = file /\ run' = run
        /\ acked' = acked \cup {Pending}
        /\ synced \in Nat /\ Len(file) \in Nat /\ synced <= Len(file)
    BY <1>4 DEF Sync, TypeOK
  <2>2. /\ Len(file) >= 2
        /\ file[Len(file)] = NL
        /\ file[Len(file) - 1] = Pending
        /\ HasAcked => Starts(file, Len(file) - 1)
    BY <1>4 DEF Sync, DurableInv
  <2>3. /\ Pending.run = run /\ Pending.seq = seq /\ seq \in Nat
        /\ \A q \in acked : q.run = run => q.seq < seq
    BY <1>4, PendingIsAbove DEF Sync, TypeOK
  <2>4. \A r \in acked : FirstOfItsRun(r) => FirstOfItsRun(r)'
    <3> SUFFICES ASSUME NEW r \in acked, FirstOfItsRun(r),
                        NEW q \in acked', q.run = r.run
                 PROVE  q.seq >= r.seq
      BY DEF FirstOfItsRun
    <3>1. CASE q \in acked
      BY <3>1 DEF FirstOfItsRun
    <3>2. CASE q = Pending
      <4>1. r.seq < seq /\ r.seq \in Nat
        BY <2>3, <3>2 DEF TypeOK, Record
      <4> QED
        BY <2>3, <3>2, <4>1
    <3> QED
      BY <2>1, <3>1, <3>2
  <2>5. \A r \in acked : Secured(r)'
    <3> SUFFICES ASSUME NEW r \in acked PROVE Secured(r)'
      OBVIOUS
    <3>1. PICK i \in 1..synced : /\ i < synced
                                 /\ file[i] = r
                                 /\ file[i + 1] = NL
                                 /\ Starts(file, i) \/ FirstOfItsRun(r)
      BY <1>0 DEF Secured
    <3>2. i \in 1..synced' /\ i < synced'
      BY <2>1, <3>1
    <3>3. Starts(file, i)' \/ FirstOfItsRun(r)'
      BY <2>1, <2>4, <3>1 DEF Starts
    <3> QED
      BY <2>1, <3>1, <3>2, <3>3 DEF Secured
  <2>6. Secured(Pending)'
    <3>1. Starts(file, Len(file) - 1)' \/ FirstOfItsRun(Pending)'
      <4>1. CASE HasAcked
        BY <2>1, <2>2, <4>1 DEF Starts
      <4>2. CASE ~HasAcked
        <5>1. Pending' = Pending
          BY <1>4 DEF Sync, Pending
        <5>2. \A q \in acked' : q.run = run => q = Pending
          BY <2>1, <4>2 DEF HasAcked
        <5> QED
          BY <2>1, <2>3, <5>1, <5>2 DEF FirstOfItsRun
      <4> QED
        BY <4>1, <4>2
    <3>2. /\ Len(file) - 1 \in 1..synced'
          /\ Len(file) - 1 < synced'
          /\ (Len(file) - 1) + 1 = Len(file)
      BY <2>1, <2>2
    <3>3. Pending' = Pending
      BY <1>4 DEF Sync, Pending
    <3> QED
      BY <2>1, <2>2, <3>1, <3>2, <3>3 DEF Secured
  <2>7. Pending' = Pending
    BY <1>4 DEF Sync, Pending
  <2> QED
    BY <2>1, <2>5, <2>6, <2>7
<1>5. CASE UNCHANGED <<file, synced, acked>>
  BY <1>0, <1>5, SecuredUntouched
<1>6. OpenEventLog \/ Fresh \/ ResumeSeq \/ ScanLine \/ ScanDone \/ ScanFail
        \/ Begin \/ MarshalFail \/ WriteAgain \/ SyncFail \/ Close
        => UNCHANGED <<file, synced, acked>>
  BY DEF OpenEventLog, Fresh, ResumeSeq, ScanLine, ScanDone, ScanFail, Begin,
         MarshalFail, WriteAgain, SyncFail, Close
<1>7. UNCHANGED vars => UNCHANGED <<file, synced, acked>>
  BY DEF vars
<1> QED
  BY <1>1, <1>2, <1>3, <1>4, <1>5, <1>6, <1>7 DEF Next

(* The numbers of acknowledged records stay below what their process has     *)
(* reached; a process that has not begun to append has none.                 *)
LEMMA NumberedStep ==
  ASSUME TypeOK, DurableInv, [Next]_vars
  PROVE  \A r \in acked' : Numbered(r)'
<1>0. /\ \A r \in acked : Numbered(r) /\ r.run \in Nat /\ r.seq \in Nat
      /\ run \in Nat /\ seq \in Nat
  BY BoundsAssumption DEF DurableInv, TypeOK, Record
<1>1. CASE OpenEventLog
  BY <1>0, <1>1 DEF OpenEventLog, Numbered
<1>2. CASE Fresh \/ ResumeSeq
  BY <1>0, <1>2 DEF Fresh, ResumeSeq, Numbered
<1>3. CASE ScanLine \/ ScanFail
  BY <1>0, <1>3 DEF ScanLine, ScanFail, Numbered
<1>4. CASE ScanDone
  BY <1>0, <1>4 DEF ScanDone, Numbered
<1>5. CASE Begin
  BY <1>0, <1>5 DEF Begin, Numbered
<1>6. CASE MarshalFail \/ WriteAgain
  BY <1>0, <1>6 DEF MarshalFail, WriteAgain, Numbered
<1>7. CASE Write \/ WriteFail
  BY <1>0, <1>7 DEF Write, WriteFail, Numbered
<1>8. CASE Sync
  <2>1. acked' = acked \cup {Pending} /\ pc' = "ready" /\ UNCHANGED <<run, seq>>
    BY <1>8 DEF Sync
  <2>2. Pending.run = run /\ Pending.seq = seq
    BY DEF Pending
  <2>3. Numbered(Pending)'
    BY <1>0, <2>1, <2>2 DEF Numbered, Pending
  <2>4. \A r \in acked : Numbered(r)'
    BY <1>0, <2>1 DEF Numbered
  <2>5. Pending' = Pending
    BY <2>1 DEF Pending
  <2> QED
    BY <2>1, <2>3, <2>4, <2>5
<1>9. CASE SyncFail \/ Close \/ Crash
  BY <1>0, <1>9 DEF SyncFail, Close, Crash, Numbered
<1>10. CASE UNCHANGED vars
  BY <1>0, <1>10 DEF vars, Numbered
<1> QED
  BY <1>1, <1>2, <1>3, <1>4, <1>5, <1>6, <1>7, <1>8, <1>9, <1>10 DEF Next

(* A process that has had a record acknowledged is at the start of a line    *)
(* whenever it may write again, so the next record has a line of its own.    *)
LEMMA LineStartStep ==
  ASSUME TypeOK, DurableInv, [Next]_vars
  PROVE  /\ pc' \in {"ready", "append"} /\ ~broken' /\ HasAcked'
              => AtLineEnd(file', Len(file'))
         /\ pc' = "written" => /\ Len(file') >= 2
                               /\ file'[Len(file')] = NL
                               /\ file'[Len(file') - 1] = Pending'
                               /\ HasAcked' => Starts(file', Len(file') - 1)
<1>0. /\ pc \in {"ready", "append"} /\ ~broken /\ HasAcked
           => AtLineEnd(file, Len(file))
      /\ pc = "written" => Len(file) >= 2 /\ file[Len(file)] = NL
      /\ pc \in {"opened", "scan"} => ~HasAcked
  BY DEF DurableInv, Numbered, HasAcked
<1>1. CASE OpenEventLog \/ ResumeSeq \/ ScanLine \/ ScanFail \/ Close \/ Crash
  BY <1>1 DEF OpenEventLog, ResumeSeq, ScanLine, ScanFail, Close, Crash
<1>2. CASE Fresh \/ ScanDone
  BY <1>0, <1>2 DEF Fresh, ScanDone, HasAcked
<1>3. CASE Begin \/ MarshalFail \/ WriteAgain
  BY <1>0, <1>3 DEF Begin, MarshalFail, WriteAgain, HasAcked
<1>4. CASE WriteFail
  BY <1>4 DEF WriteFail
<1>5. CASE Write
  <2>1. /\ Len(file) \in Nat
        /\ Len(file') = Len(file) + 2
        /\ \A i \in 1..Len(file) : file'[i] = file[i]
        /\ file'[Len(file) + 1] = Pending
        /\ file'[Len(file) + 2] = NL
    BY <1>5, LineWritten DEF Write, TypeOK
  <2>2. /\ pc' = "written" /\ Pending' = Pending
        /\ HasAcked' = HasAcked /\ pc = "append" /\ ~broken
    BY <1>5 DEF Write, Pending, HasAcked
  <2>3. HasAcked => Starts(file', Len(file) + 1)
    <3> SUFFICES ASSUME HasAcked, Len(file) # 0
                 PROVE  file'[Len(file)] = NL
      BY <2>1 DEF Starts
    <3>1. file[Len(file)] = NL
      BY <1>0, <2>1, <2>2 DEF AtLineEnd
    <3> QED
      BY <2>1, <3>1
  <2>4. Len(file') - 1 = Len(file) + 1 /\ Len(file') >= 2
    BY <2>1
  <2> QED
    BY <2>1, <2>2, <2>3, <2>4
<1>6. CASE Sync \/ SyncFail
  <2>1. file' = file /\ pc' = "ready" /\ pc = "written"
    BY <1>6 DEF Sync, SyncFail
  <2> QED
    BY <1>0, <2>1 DEF AtLineEnd
<1>7. CASE UNCHANGED vars
  BY <1>7 DEF vars, DurableInv, HasAcked, Pending
<1> QED
  BY <1>1, <1>2, <1>3, <1>4, <1>5, <1>6, <1>7 DEF Next

-----------------------------------------------------------------------------
(* The inductive invariant behind the next two theorems.                     *)
LEMMA Durable == Spec => []DurableInv
<1>1. Init => DurableInv
  BY DEF Init, DurableInv
<1>2. TypeOK /\ DurableInv /\ [Next]_vars => DurableInv'
  <2> SUFFICES ASSUME TypeOK, DurableInv, [Next]_vars PROVE DurableInv'
    OBVIOUS
  <2> QED
    BY SecuredStep, NumberedStep, LineStartStep DEF DurableInv
<1> QED
  BY <1>1, <1>2, TypeCorrect, PTL DEF Spec

(* Whatever crashes, torn lines and failed writes happen, an acknowledged    *)
(* record that no reader can parse any more is the first of its process.     *)
THEOREM OnlyTheFirstIsLost == Spec => []FirstOnlyLost
<1>1. TypeOK /\ DurableInv => FirstOnlyLost
  <2> SUFFICES ASSUME TypeOK, DurableInv, NEW r \in acked, ~FirstOfItsRun(r)
               PROVE  IsReadable(r)
    BY DEF FirstOnlyLost, FirstOfItsRun
  <2>1. PICK i \in 1..synced : /\ i < synced
                               /\ file[i] = r
                               /\ file[i + 1] = NL
                               /\ Starts(file, i)
    BY DEF DurableInv, Secured
  <2>2. i \in 1..Len(file) /\ r \in Record
    BY DEF TypeOK
  <2> QED
    BY <2>1, <2>2 DEF IsReadable, Readable, IsRecord
<1> QED
  BY <1>1, Durable, TypeCorrect, PTL

-----------------------------------------------------------------------------
(* Without torn tails, what a step leaves in the file is whole lines.        *)
LEMMA WholeLinesWritten ==
  ASSUME TypeOK, WholeLines(file)
  PROVE  WholeLines(file \o <<Pending, NL>>)
<1> DEFINE g == file \o <<Pending, NL>>
<1>1. <<Pending, NL>> \in Seq(Token)
  BY PendingIsRecord, TokenShapes DEF Token
<1>2. /\ Len(file) \in Nat
      /\ Len(g) = Len(file) + 2
      /\ \A i \in 1..Len(file) : g[i] = file[i]
      /\ g[Len(file) + 1] = Pending
      /\ g[Len(file) + 2] = NL
  BY <1>1 DEF TypeOK
<1> HIDE DEF g
<1>3. AtLineEnd(g, Len(g))
  BY <1>2 DEF AtLineEnd
<1>4. ASSUME NEW i \in 1..Len(g), IsRecord(g[i])
      PROVE  Starts(g, i) /\ i < Len(g) /\ g[i + 1] = NL
  <2>1. CASE i \in 1..Len(file)
    <3>1. IsRecord(file[i])
      BY <1>2, <1>4, <2>1
    <3>2. Starts(file, i) /\ i < Len(file) /\ file[i + 1] = NL
      BY <2>1, <3>1 DEF WholeLines
    <3>3. i + 1 \in 1..Len(file) /\ (i # 1 => i - 1 \in 1..Len(file))
      BY <1>2, <2>1, <3>2
    <3> QED
      BY <1>2, <2>1, <3>2, <3>3 DEF Starts
  <2>2. CASE i = Len(file) + 1
    <3>1. Len(file) # 0 => Len(file) \in 1..Len(file) /\ file[Len(file)] = NL
      BY <1>2 DEF WholeLines, AtLineEnd
    <3> QED
      BY <1>2, <2>2, <3>1 DEF Starts
  <2>3. CASE i = Len(file) + 2
    BY <1>2, <1>4, <2>3, TokenShapes DEF IsRecord
  <2> QED
    BY <1>2, <2>1, <2>2, <2>3
<1> QED
  BY <1>3, <1>4 DEF WholeLines, g

LEMMA WholeLinesCut ==
  ASSUME NEW f \in Seq(Token), WholeLines(f),
         NEW n \in 0..Len(f), AtLineEnd(f, n)
  PROVE  WholeLines(Cut(f, n))
<1> DEFINE g == Cut(f, n)
<1>1. /\ Len(f) \in Nat
      /\ Len(g) = n
      /\ \A i \in 1..n : g[i] = f[i]
  BY DEF Cut
<1> HIDE DEF g
<1>2. AtLineEnd(g, Len(g))
  BY <1>1 DEF AtLineEnd
<1>3. ASSUME NEW i \in 1..Len(g), IsRecord(g[i])
      PROVE  Starts(g, i) /\ i < Len(g) /\ g[i + 1] = NL
  <2>1. i \in 1..Len(f) /\ IsRecord(f[i])
    BY <1>1, <1>3
  <2>2. Starts(f, i) /\ i < Len(f) /\ f[i + 1] = NL
    BY <2>1 DEF WholeLines
  <2>3. i # n
    BY <1>1, <1>3, <2>1, TokenShapes DEF AtLineEnd, IsRecord
  <2>4. i + 1 \in 1..n /\ (i # 1 => i - 1 \in 1..n)
    BY <1>1, <1>3, <2>3
  <2> QED
    BY <1>1, <2>2, <2>4 DEF Starts
<1> QED
  BY <1>2, <1>3 DEF WholeLines, g

LEMMA WholeLinesStep ==
  ASSUME ~TornTails, TypeOK, WholeLines(file), [Next]_vars
  PROVE  WholeLines(file')
<1>1. CASE Write
  BY <1>1, WholeLinesWritten DEF Write
<1>2. CASE WriteFail
  <2>1. file' = file \o << >>
    BY <1>2 DEF WriteFail, Fragments
  <2>2. file' = file
    BY <2>1 DEF TypeOK
  <2> QED
    BY <2>2
<1>3. CASE Crash
  <2>1. InFlight \in Seq(Token) /\ synced \in Nat
    BY InFlightExtends DEF TypeOK
  <2>2. WholeLines(InFlight)
    BY WholeLinesWritten DEF InFlight
  <2>3. PICK n \in synced..Len(InFlight) :
          AtLineEnd(InFlight, n) /\ file' = Cut(InFlight, n)
    BY <1>3 DEF Crash, Survivors
  <2>4. n \in 0..Len(InFlight)
    BY <2>1, <2>3
  <2> QED
    BY <2>1, <2>2, <2>3, <2>4, WholeLinesCut
<1>4. CASE file' = file
  BY <1>4
<1>5. OpenEventLog \/ Fresh \/ ResumeSeq \/ ScanLine \/ ScanDone \/ ScanFail
        \/ Begin \/ MarshalFail \/ WriteAgain \/ Sync \/ SyncFail \/ Close
        => file' = file
  BY DEF OpenEventLog, Fresh, ResumeSeq, ScanLine, ScanDone, ScanFail, Begin,
         MarshalFail, WriteAgain, Sync, SyncFail, Close
<1>6. UNCHANGED vars => file' = file
  BY DEF vars
<1> QED
  BY <1>1, <1>2, <1>3, <1>4, <1>5, <1>6 DEF Next

(* When lines reach the file whole or not at all, a record whose Append      *)
(* returned nil can be read for ever after, whatever crashes.                *)
THEOREM AcknowledgedReadable ==
  ASSUME ~TornTails PROVE Spec => []AckedReadable
<1>1. Init => WholeLines(file)
  BY DEF Init, WholeLines, AtLineEnd
<1>2. TypeOK /\ WholeLines(file) /\ [Next]_vars => WholeLines(file)'
  <2> SUFFICES ASSUME TypeOK, WholeLines(file), [Next]_vars
               PROVE  WholeLines(file')
    BY DEF WholeLines, AtLineEnd, Starts
  <2> QED
    BY WholeLinesStep
<1>3. TypeOK /\ DurableInv /\ WholeLines(file) => AckedReadable
  <2> SUFFICES ASSUME TypeOK, DurableInv, WholeLines(file), NEW r \in acked
               PROVE  IsReadable(r)
    BY DEF AckedReadable
  <2>1. PICK i \in 1..synced : file[i] = r /\ i < synced
    BY DEF DurableInv, Secured
  <2>2. i \in 1..Len(file) /\ r \in Record
    BY DEF TypeOK
  <2>3. Starts(file, i) /\ file[i + 1] = NL
    BY <2>1, <2>2 DEF WholeLines, IsRecord
  <2> QED
    BY <2>1, <2>2, <2>3 DEF IsReadable, Readable, IsRecord
<1> QED
  BY <1>1, <1>2, <1>3, Durable, TypeCorrect, PTL DEF Spec

-----------------------------------------------------------------------------
(* A file without torn lines is records and newlines in turn.                *)
Paired(f, n) == /\ n \in Nat
                /\ f \in Seq(Token)
                /\ Len(f) = 2 * n
                /\ \A k \in 1..n : f[2 * k - 1] \in Record /\ f[2 * k] = NL

RecordsOf(f, n) == [k \in 1..n |-> f[2 * k - 1]]

PairedInv == \E n \in Nat : Paired(file, n) /\ \E m \in 0..n : synced = 2 * m

LEMMA RecordsOfPaired ==
  ASSUME NEW f, NEW n, Paired(f, n)
  PROVE  RecordsOf(f, n) \in Seq(Record) /\ Len(RecordsOf(f, n)) = n
<1>1. n \in Nat /\ RecordsOf(f, n) \in [1..n -> Record]
  BY DEF Paired, RecordsOf
<1>2. RecordsOf(f, n) \in Seq(Record)
  BY <1>1, SeqDef
<1> QED
  BY <1>1, <1>2, LenProperties

(* Its newlines are at the even places, so it is cut at one of those.        *)
LEMMA PairedCut ==
  ASSUME NEW f, NEW n, Paired(f, n),
         NEW c \in 0..Len(f), AtLineEnd(f, c)
  PROVE  \E k \in 0..n : /\ c = 2 * k
                         /\ Paired(Cut(f, c), k)
                         /\ RecordsOf(Cut(f, c), k) = SubSeq(RecordsOf(f, n), 1, k)
<1>1. n \in Nat /\ f \in Seq(Token) /\ Len(f) = 2 * n
  BY DEF Paired
<1>2. \E k \in 0..n : c = 2 * k
  <2>1. CASE c = 0
    BY <1>1, <2>1
  <2>2. CASE c > 0
    <3>1. f[c] = NL
      BY <2>2 DEF AtLineEnd
    <3>2. ASSUME NEW k \in 1..n, c = 2 * k - 1 PROVE FALSE
      BY <3>1, <3>2, TokenShapes DEF Paired
    <3> DEFINE k == (c + 1) \div 2
    <3>3. k \in 1..n /\ (c = 2 * k - 1 \/ c = 2 * k)
      BY <1>1, <2>2
    <3> HIDE DEF k
    <3>4. c = 2 * k
      BY <3>2, <3>3
    <3> QED
      BY <1>1, <3>3, <3>4
  <2> QED
    BY <1>1, <2>1, <2>2
<1>3. PICK k \in 0..n : c = 2 * k
  BY <1>2
<1>4. /\ Cut(f, c) \in Seq(Token)
      /\ Len(Cut(f, c)) = 2 * k
      /\ \A i \in 1..c : Cut(f, c)[i] = f[i]
  BY <1>1, <1>3 DEF Cut
<1>5. Paired(Cut(f, c), k)
  <2>1. ASSUME NEW j \in 1..k
        PROVE  Cut(f, c)[2 * j - 1] \in Record /\ Cut(f, c)[2 * j] = NL
    <3>1. 2 * j - 1 \in 1..c /\ 2 * j \in 1..c /\ j \in 1..n
      BY <1>1, <1>3
    <3> QED
      BY <1>4, <3>1 DEF Paired
  <2> QED
    BY <1>1, <1>3, <1>4, <2>1 DEF Paired
<1>6. RecordsOf(Cut(f, c), k) = SubSeq(RecordsOf(f, n), 1, k)
  <2>1. ASSUME NEW j \in 1..k
        PROVE  RecordsOf(Cut(f, c), k)[j] = RecordsOf(f, n)[j]
    <3>1. 2 * j - 1 \in 1..c /\ j \in 1..n
      BY <1>1, <1>3
    <3> QED
      BY <1>4, <3>1 DEF RecordsOf
  <2>2. /\ RecordsOf(f, n) \in Seq(Record)
        /\ Len(RecordsOf(f, n)) = n
        /\ RecordsOf(Cut(f, c), k) \in Seq(Record)
        /\ Len(RecordsOf(Cut(f, c), k)) = k
    BY <1>1, <1>3, <1>5, RecordsOfPaired
  <2>3. /\ SubSeq(RecordsOf(f, n), 1, k) \in Seq(Record)
        /\ Len(SubSeq(RecordsOf(f, n), 1, k)) = k
        /\ \A j \in 1..k : SubSeq(RecordsOf(f, n), 1, k)[j] = RecordsOf(f, n)[j]
    BY <1>1, <1>3, <2>2
  <2> QED
    BY <2>1, <2>2, <2>3, SeqEqual
<1> QED
  BY <1>3, <1>5, <1>6

(* Writing a line adds a record behind the others.                           *)
LEMMA PairedWritten ==
  ASSUME TypeOK, NEW n, Paired(file, n)
  PROVE  /\ Paired(file \o <<Pending, NL>>, n + 1)
         /\ RecordsOf(file \o <<Pending, NL>>, n + 1)
              = Append(RecordsOf(file, n), Pending)
<1> DEFINE g == file \o <<Pending, NL>>
<1>1. n \in Nat /\ file \in Seq(Token) /\ Len(file) = 2 * n
  BY DEF Paired
<1>2. <<Pending, NL>> \in Seq(Token)
  BY PendingIsRecord, TokenShapes DEF Token
<1>3. /\ g \in Seq(Token)
      /\ Len(g) = 2 * (n + 1)
      /\ \A i \in 1..Len(file) : g[i] = file[i]
      /\ g[2 * n + 1] = Pending
      /\ g[2 * n + 2] = NL
  BY <1>1, <1>2
<1>4. Paired(g, n + 1)
  <2>1. ASSUME NEW k \in 1..n + 1
        PROVE  g[2 * k - 1] \in Record /\ g[2 * k] = NL
    <3>1. CASE k = n + 1
      BY <1>1, <1>3, <3>1, PendingIsRecord
    <3>2. CASE k \in 1..n
      <4>1. 2 * k - 1 \in 1..Len(file) /\ 2 * k \in 1..Len(file)
        BY <1>1, <3>2
      <4> HIDE DEF g
      <4> QED
        BY <1>3, <3>2, <4>1 DEF Paired
    <3> QED
      BY <1>1, <3>1, <3>2
  <2>2. n + 1 \in Nat
    BY <1>1
  <2> HIDE DEF g
  <2> QED
    BY <1>3, <2>1, <2>2 DEF Paired
<1>5. RecordsOf(g, n + 1) = Append(RecordsOf(file, n), Pending)
  <2> DEFINE r == RecordsOf(file, n)
  <2>1. r \in Seq(Record) /\ Len(r) = n
    BY RecordsOfPaired
  <2>2. /\ Append(r, Pending) \in Seq(Record)
        /\ Len(Append(r, Pending)) = n + 1
        /\ \A j \in 1..n : Append(r, Pending)[j] = r[j]
        /\ Append(r, Pending)[n + 1] = Pending
    BY <1>1, <2>1, PendingIsRecord
  <2>3. RecordsOf(g, n + 1) \in Seq(Record) /\ Len(RecordsOf(g, n + 1)) = n + 1
    BY <1>4, RecordsOfPaired
  <2> HIDE DEF g, r
  <2>4. ASSUME NEW j \in 1..n + 1
        PROVE  RecordsOf(g, n + 1)[j] = Append(r, Pending)[j]
    <3>1. RecordsOf(g, n + 1)[j] = g[2 * j - 1]
      BY DEF RecordsOf
    <3>2. CASE j = n + 1
      BY <1>1, <1>3, <2>2, <3>1, <3>2
    <3>3. CASE j \in 1..n
      <4>1. 2 * j - 1 \in 1..Len(file) /\ r[j] = file[2 * j - 1]
        BY <1>1, <3>3 DEF RecordsOf, r
      <4> QED
        BY <1>3, <2>2, <3>1, <3>3, <4>1
    <3>4. j = n + 1 \/ j \in 1..n
      BY <1>1
    <3> QED
      BY <3>2, <3>3, <3>4
  <2>5. RecordsOf(g, n + 1) = Append(r, Pending)
    BY <2>2, <2>3, <2>4, SeqEqual
  <2> QED
    BY <2>5 DEF g, r
<1> QED
  BY <1>4, <1>5

(* A write under way is a line of its own behind the others.                 *)
LEMMA PairedInFlight ==
  ASSUME TypeOK, NEW n, Paired(file, n)
  PROVE  \/ InFlight = file
         \/ /\ pc = "append"
            /\ Paired(InFlight, n + 1)
            /\ RecordsOf(InFlight, n + 1) = Append(RecordsOf(file, n), Pending)
BY PairedWritten DEF InFlight

LEMMA PairedStep ==
  ASSUME ~TornTails, TypeOK, PairedInv, [Next]_vars
  PROVE  PairedInv'
<1>0. PICK n \in Nat : Paired(file, n) /\ \E m \in 0..n : synced = 2 * m
  BY DEF PairedInv
<1>1. PICK m \in 0..n : synced = 2 * m
  BY <1>0
<1>2. SUFFICES \E k \in Nat : Paired(file', k) /\ \E l \in 0..k : synced' = 2 * l
  BY DEF PairedInv, Paired
<1>3. CASE Write
  <2>1. Paired(file', n + 1) /\ synced' = synced
    BY <1>0, <1>3, PairedWritten DEF Write
  <2>2. n + 1 \in Nat /\ m \in 0..n + 1
    BY <1>0, <1>1
  <2> QED
    BY <1>1, <2>1, <2>2
<1>4. CASE Sync
  <2>1. file' = file /\ synced' = 2 * n /\ n \in 0..n
    BY <1>0, <1>4 DEF Sync, Paired
  <2> QED
    BY <1>0, <2>1
<1>5. CASE Crash
  <2>1. PICK c \in synced..Len(InFlight) :
          AtLineEnd(InFlight, c) /\ file' = Cut(InFlight, c)
    BY <1>5 DEF Crash, Survivors
  <2>2. PICK f \in {n, n + 1} : Paired(InFlight, f)
    BY <1>0, PairedInFlight
  <2>3. c \in 0..Len(InFlight)
    BY <1>0, <1>1, <2>1, <2>2 DEF Paired
  <2>4. PICK k \in 0..f : c = 2 * k /\ Paired(file', k)
    BY <2>1, <2>2, <2>3, PairedCut
  <2>5. k \in Nat /\ m \in 0..k
    BY <1>0, <1>1, <2>1, <2>2, <2>4
  <2>6. synced' = 2 * m
    BY <1>1, <1>5 DEF Crash
  <2> QED
    BY <2>4, <2>5, <2>6
<1>6. CASE file' = file /\ synced' = synced
  BY <1>0, <1>6
<1>7. WriteFail => file' = file /\ synced' = synced
  <2>1. file \in Seq(Token)
    BY DEF TypeOK
  <2>2. file \o << >> = file
    BY <2>1
  <2> QED
    BY <2>2 DEF WriteFail, Fragments
<1>8. OpenEventLog \/ Fresh \/ ResumeSeq \/ ScanLine \/ ScanDone \/ ScanFail
        \/ Begin \/ MarshalFail \/ WriteAgain \/ SyncFail \/ Close \/ UNCHANGED vars
        => file' = file /\ synced' = synced
  BY DEF OpenEventLog, Fresh, ResumeSeq, ScanLine, ScanDone, ScanFail, Begin,
         MarshalFail, WriteAgain, SyncFail, Close, vars
<1> QED
  BY <1>3, <1>4, <1>5, <1>6, <1>7, <1>8 DEF Next

-----------------------------------------------------------------------------
(* The mapping, when the file is records and newlines in turn.               *)
LEMMA PairedMapping ==
  ASSUME NEW n, Paired(file, n), NEW m \in 0..n, synced = 2 * m
  PROVE  /\ Records = RecordsOf(file, n)
         /\ synced \div 2 = m
         /\ Records \in Seq(Record)
         /\ Len(Records) = n
<1>1. n \in Nat /\ Len(file) = 2 * n
  BY DEF Paired
<1>2. (2 * n) \div 2 = n /\ (2 * m) \div 2 = m
  BY <1>1
<1>3. Records = RecordsOf(file, n)
  BY <1>1, <1>2 DEF Records, RecordsOf
<1>4. RecordsOf(file, n) \in Seq(Record) /\ Len(RecordsOf(file, n)) = n
  BY <1>1 DEF RecordsOf, Paired
<1> QED
  BY <1>2, <1>3, <1>4

(* Every record is readable, so what is being written is above them all.     *)
LEMMA PendingExtends ==
  ASSUME TypeOK, NumberingInv, pc = "append", NEW n, Paired(file, n)
  PROVE  Promise!Extends(Append(RecordsOf(file, n), Pending), RecordsOf(file, n))
<1> DEFINE r == RecordsOf(file, n)
<1>1. n \in Nat /\ Len(file) = 2 * n /\ file \in Seq(Token)
  BY DEF Paired
<1>2. r \in Seq(Record) /\ Len(r) = n
  BY <1>1 DEF RecordsOf, Paired
<1>3. /\ Append(r, Pending) \in Seq(Record)
      /\ Len(Append(r, Pending)) = n + 1
      /\ \A j \in 1..n : Append(r, Pending)[j] = r[j]
      /\ Append(r, Pending)[n + 1] = Pending
  BY <1>1, <1>2, PendingIsRecord
<1>4. ASSUME NEW j \in 1..n
      PROVE  r[j].seq < seq
  <2>1. 2 * j - 1 \in 1..Len(file) /\ 2 * j \in 1..Len(file)
    BY <1>1
  <2>2. r[j] = file[2 * j - 1] /\ file[2 * j - 1] \in Record /\ file[2 * j] = NL
    BY <2>1 DEF RecordsOf, Paired
  <2>3. Starts(file, 2 * j - 1)
    <3>1. CASE j = 1
      BY <3>1 DEF Starts
    <3>2. CASE j # 1
      <4>1. j - 1 \in 1..n /\ (2 * j - 1) - 1 = 2 * (j - 1)
        BY <1>1, <3>2
      <4> QED
        BY <4>1 DEF Starts, Paired
    <3> QED
      BY <3>1, <3>2
  <2>4. Readable(file, 2 * j - 1)
    <3>1. (2 * j - 1) + 1 = 2 * j
      BY <1>1
    <3> QED
      BY <2>2, <2>3, <3>1 DEF Readable, IsRecord
  <2> QED
    BY <2>1, <2>2, <2>4 DEF NumberingInv, Below
<1>5. SubSeq(Append(r, Pending), 1, n) = r
  <2>1. /\ SubSeq(Append(r, Pending), 1, n) \in Seq(Record)
        /\ Len(SubSeq(Append(r, Pending), 1, n)) = n
        /\ \A j \in 1..n : SubSeq(Append(r, Pending), 1, n)[j] = r[j]
    BY <1>1, <1>2, <1>3
  <2> HIDE DEF r
  <2> QED
    BY <1>2, <2>1, SeqEqual
<1>6. Pending.seq = seq
  BY DEF Pending
<1> HIDE DEF r
<1>7. Promise!Extends(Append(r, Pending), r)
  BY <1>2, <1>3, <1>4, <1>5, <1>6 DEF Promise!Extends
<1> QED
  BY <1>7 DEF r

(* Each step of the writer is a step of the promise, or none.                *)
LEMMA StoreStep ==
  ASSUME ~TornTails, TypeOK, NumberingInv, PairedInv, [Next]_vars
  PROVE  [Promise!Next]_(Promise!vars)
<1>0. PICK n \in Nat : Paired(file, n) /\ \E m \in 0..n : synced = 2 * m
  BY DEF PairedInv
<1>1. PICK m \in 0..n : synced = 2 * m
  BY <1>0
<1>2. /\ Records = RecordsOf(file, n)
      /\ synced \div 2 = m
      /\ Records \in Seq(Record)
      /\ Len(Records) = n
  BY <1>0, <1>1, PairedMapping
<1>3. CASE Write
  <2>1. /\ Paired(file', n + 1)
        /\ RecordsOf(file', n + 1) = Append(RecordsOf(file, n), Pending)
        /\ synced' = synced /\ pc = "append"
    BY <1>0, <1>3, PairedWritten DEF Write
  <2>2. Records' = RecordsOf(file', n + 1)
    <3>1. Len(file') \div 2 = n + 1
      BY <1>0, <2>1 DEF Paired
    <3> QED
      BY <3>1 DEF Records, RecordsOf
  <2>3. Promise!Extends(Records', Records)
    BY <1>0, <1>2, <2>1, <2>2, PendingExtends
  <2> QED
    BY <2>1, <2>3 DEF Promise!Next, Promise!Leave
<1>4. CASE Sync
  <2>1. Records' = Records /\ synced' = 2 * n
    BY <1>0, <1>4 DEF Sync, Records, Paired
  <2>2. synced' \div 2 = n
    BY <1>0, <2>1
  <2>3. CASE m = n
    BY <1>2, <2>1, <2>2, <2>3 DEF Promise!vars
  <2>4. CASE m < n
    BY <1>2, <2>1, <2>2, <2>4 DEF Promise!Next, Promise!Settle
  <2> QED
    BY <1>0, <1>1, <2>3, <2>4
<1>5. CASE Crash
  <2>1. PICK c \in synced..Len(InFlight) :
          AtLineEnd(InFlight, c) /\ file' = Cut(InFlight, c)
    BY <1>5 DEF Crash, Survivors
  <2>2. synced' = synced
    BY <1>5 DEF Crash
  <2>3. CASE InFlight = file
    <3>1. c \in 0..Len(file)
      BY <1>0, <1>1, <2>1, <2>3 DEF Paired
    <3>2. PICK k \in 0..n : /\ c = 2 * k
                            /\ Paired(file', k)
                            /\ RecordsOf(file', k) = SubSeq(RecordsOf(file, n), 1, k)
      BY <1>0, <2>1, <2>3, <3>1, PairedCut
    <3>3. k \in m..n
      BY <1>0, <1>1, <2>1, <2>3, <3>2 DEF Paired
    <3>4. Records' = SubSeq(Records, 1, k)
      <4>1. Len(file') \div 2 = k
        BY <1>0, <3>2 DEF Paired
      <4> QED
        BY <1>2, <3>2, <4>1 DEF Records, RecordsOf
    <3>5. CASE k = n
      BY <1>2, <2>2, <3>4, <3>5 DEF Promise!vars
    <3>6. CASE k < n
      BY <1>2, <2>2, <3>3, <3>4, <3>6 DEF Promise!Next, Promise!Lose
    <3> QED
      BY <1>0, <3>3, <3>5, <3>6
  <2>4. CASE InFlight # file
    <3>1. /\ pc = "append"
          /\ Paired(InFlight, n + 1)
          /\ RecordsOf(InFlight, n + 1) = Append(RecordsOf(file, n), Pending)
      BY <1>0, <2>4, PairedInFlight
    <3>2. c \in 0..Len(InFlight)
      BY <1>0, <1>1, <2>1, <3>1 DEF Paired
    <3>3. PICK k \in 0..n + 1 :
            /\ c = 2 * k
            /\ Paired(file', k)
            /\ RecordsOf(file', k) = SubSeq(RecordsOf(InFlight, n + 1), 1, k)
      BY <2>1, <3>1, <3>2, PairedCut
    <3>4. k \in m..n + 1
      BY <1>0, <1>1, <2>1, <3>1, <3>3 DEF Paired
    <3>5. Records' = SubSeq(Append(Records, Pending), 1, k)
      <4>1. Len(file') \div 2 = k
        BY <1>0, <3>3 DEF Paired
      <4> QED
        BY <1>2, <3>1, <3>3, <4>1 DEF Records, RecordsOf
    <3>6. /\ Append(Records, Pending) \in Seq(Record)
          /\ Len(Append(Records, Pending)) = n + 1
          /\ \A j \in 1..n : Append(Records, Pending)[j] = Records[j]
      BY <1>2, PendingIsRecord
    <3>7. CASE k = n + 1
      <4>1. Records' = Append(Records, Pending)
        BY <3>5, <3>6, <3>7, SubSeqFull
      <4>2. Promise!Extends(Records', Records)
        BY <1>0, <1>2, <3>1, <4>1, PendingExtends
      <4> QED
        BY <2>2, <4>2 DEF Promise!Next, Promise!Leave
    <3>8. CASE k \in m..n
      <4>1. /\ SubSeq(Append(Records, Pending), 1, k) \in Seq(Record)
            /\ SubSeq(Records, 1, k) \in Seq(Record)
            /\ Len(SubSeq(Append(Records, Pending), 1, k)) = k
            /\ Len(SubSeq(Records, 1, k)) = k
            /\ \A j \in 1..k : SubSeq(Append(Records, Pending), 1, k)[j]
                                = SubSeq(Records, 1, k)[j]
        BY <1>0, <1>1, <1>2, <3>6, <3>8
      <4>2. Records' = SubSeq(Records, 1, k)
        BY <3>5, <4>1, SeqEqual
      <4>3. CASE k = n
        BY <1>2, <2>2, <4>2, <4>3, SubSeqFull DEF Promise!vars
      <4>4. CASE k < n
        BY <1>2, <2>2, <3>8, <4>2, <4>4 DEF Promise!Next, Promise!Lose
      <4> QED
        BY <1>0, <3>8, <4>3, <4>4
    <3> QED
      BY <1>0, <1>1, <3>4, <3>7, <3>8
  <2> QED
    BY <2>3, <2>4
<1>6. CASE file' = file /\ synced' = synced
  BY <1>6 DEF Promise!vars, Records
<1>7. WriteFail => file' = file /\ synced' = synced
  <2>1. file \in Seq(Token)
    BY DEF TypeOK
  <2>2. file \o << >> = file
    BY <2>1
  <2> QED
    BY <2>2 DEF WriteFail, Fragments
<1>8. OpenEventLog \/ Fresh \/ ResumeSeq \/ ScanLine \/ ScanDone \/ ScanFail
        \/ Begin \/ MarshalFail \/ WriteAgain \/ SyncFail \/ Close \/ UNCHANGED vars
        => file' = file /\ synced' = synced
  BY DEF OpenEventLog, Fresh, ResumeSeq, ScanLine, ScanDone, ScanFail, Begin,
         MarshalFail, WriteAgain, SyncFail, Close, vars
<1> QED
  BY <1>3, <1>4, <1>5, <1>6, <1>7, <1>8 DEF Next

(* Where lines reach the file whole or not at all and every reopening        *)
(* resumes, the writer keeps the promise the agent relies on: an append-only *)
(* store, numbered upwards, of which a guaranteed prefix is never taken back.*)
THEOREM WriterKeepsPromise ==
  ASSUME ~TornTails, ~FreshReopen
  PROVE  Spec => ImplementsLogStore
<1>1. Init => PairedInv
  <2> SUFFICES ASSUME Init PROVE Paired(file, 0) /\ synced = 2 * 0
    BY DEF PairedInv
  <2> QED
    BY DEF Init, Paired
<1>2. TypeOK /\ PairedInv /\ [Next]_vars => PairedInv'
  BY PairedStep
<1>3. Init => Promise!Init
  <2> SUFFICES ASSUME Init PROVE Promise!Init
    OBVIOUS
  <2>1. Len(file) \div 2 = 0 /\ synced \div 2 = 0
    BY DEF Init
  <2> QED
    BY <2>1 DEF Promise!Init, Records
<1>4. TypeOK /\ NumberingInv /\ PairedInv /\ [Next]_vars
        => [Promise!Next]_(Promise!vars)
  BY StoreStep
<1> QED
  BY <1>1, <1>2, <1>3, <1>4, TypeCorrect, NumberingHolds, PTL
  DEF Spec, ImplementsLogStore, Promise!Spec
=============================================================================
