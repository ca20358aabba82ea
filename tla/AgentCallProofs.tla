--------------------------- MODULE AgentCallProofs ----------------------------
(* Proofs about the calls of a completion: what is still to be dispatched of *)
(* them, that each is invoked at most once and under an intent of its own    *)
(* that no crash takes back, that a turn is closed when all are answered,    *)
(* and that idempotency keys are not reused. Then about what a process       *)
(* spends: its counters are what the log shows of it since its run_start, so *)
(* that it stops for max_turns exactly at its limit and begins no turn       *)
(* beyond the tokens and the tool calls it may use. The runs between two     *)
(* run_starts come into it only through the log, so what is shown holds for  *)
(* any number of processes.                                                  *)
EXTENDS AgentProofs

Asked(m) == log[m].payload.msg.calls

(* Completion m is the last thing the endpoint said, and the only one of its *)
(* turn.                                                                     *)
LastAsk(m) ==
  /\ m \in 1..Len(log) /\ log[m].kind = "llm"
  /\ \A k \in m + 1..Len(log) : log[k].kind \notin {"turn", "run_start", "llm"}
  /\ \A q \in 1..m - 1 : log[q].kind = "llm" =>
       \E k \in q + 1..m - 1 : log[k].kind \in {"turn", "run_start"}

IsIntent(e) == e.kind = "tool" /\ e.payload.status = "intent"

(* Behind completion m there are intents for its first b calls only.         *)
IntentsFor(m, b) ==
  \A k \in m + 1..Len(log) : IsIntent(log[k]) =>
    \E x \in 1..b : x <= Len(Asked(m)) /\ log[k].payload.id = Asked(m)[x].id

(* Its first d calls are answered in the log.                                *)
AnsweredFor(m, d) ==
  \A x \in 1..d : \/ Asked(m)[x].args = "malformed"
                  \/ \E k \in m + 1..Len(log) : /\ Terminal(log[k])
                                                /\ log[k].payload.id = Asked(m)[x].id

Serving(m, d) ==
  /\ LastAsk(m)
  /\ d \in 0..Len(Asked(m))
  /\ calls = SubSeq(Asked(m), d + 1, Len(Asked(m)))
  /\ IntentsFor(m, IF pc \in {"invoke", "record"} THEN d + 1 ELSE d)
  /\ broken \/ AnsweredFor(m, d)

DispatchStages == InTurnStages \ {"call"}

ServeInv == pc \in DispatchStages => \E m \in Nat : \E d \in Nat : Serving(m, d)

-----------------------------------------------------------------------------
(* The calls left to dispatch.                                               *)
LEMMA RestOfCalls ==
  ASSUME NEW S, NEW a \in Seq(S), NEW d \in 0..Len(a), SubSeq(a, d + 1, Len(a)) # << >>
  PROVE  /\ d + 1 \in 0..Len(a)
         /\ Head(SubSeq(a, d + 1, Len(a))) = a[d + 1]
         /\ Tail(SubSeq(a, d + 1, Len(a))) = SubSeq(a, (d + 1) + 1, Len(a))
<1> DEFINE r == SubSeq(a, d + 1, Len(a))
<1>1. Len(a) \in Nat /\ d \in Nat
  OBVIOUS
<1>2. d < Len(a)
  <2> SUFFICES ASSUME d = Len(a) PROVE FALSE
    BY <1>1
  <2> QED
    BY <1>1, EmptySeq
<1>3. /\ r \in Seq(S) /\ Len(r) = Len(a) - d
      /\ \A i \in 1..Len(a) - d : r[i] = a[d + i]
  BY <1>1, <1>2, SubSeqProperties
<1> HIDE DEF r
<1>4. Head(r) = a[d + 1]
  <2>1. r # << >> /\ 1 \in 1..Len(a) - d
    BY <1>1, <1>2, <1>3, EmptySeq
  <2>2. Head(r) = r[1]
    BY <1>3, <2>1, HeadTailProperties
  <2> QED
    BY <1>3, <2>1, <2>2
<1>5. /\ Tail(r) \in Seq(S) /\ Len(Tail(r)) = Len(a) - d - 1
      /\ \A i \in 1..Len(a) - d - 1 : Tail(r)[i] = a[d + i + 1]
  <2>1. r # << >>
    BY <1>1, <1>2, <1>3, EmptySeq
  <2>2. /\ Tail(r) \in Seq(S) /\ Len(Tail(r)) = Len(r) - 1
        /\ \A i \in 1..Len(Tail(r)) : Tail(r)[i] = r[i + 1]
    BY <1>3, <2>1, HeadTailProperties
  <2> QED
    BY <1>1, <1>2, <1>3, <2>2
<1> DEFINE t == SubSeq(a, (d + 1) + 1, Len(a))
<1>6. /\ t \in Seq(S) /\ Len(t) = Len(a) - d - 1
      /\ \A i \in 1..Len(a) - d - 1 : t[i] = a[d + i + 1]
  BY <1>1, <1>2, SubSeqProperties
<1> HIDE DEF t
<1>7. Tail(r) = t
  BY <1>5, <1>6, SeqEqual
<1> QED
  BY <1>1, <1>2, <1>4, <1>7 DEF r, t

(* What recordTool leaves in the log: a terminal record of the call, unless  *)
(* its arguments cannot be marshalled or the writer no longer writes.        *)
Terminates(c) == \E e \in Events : /\ log' = Append(log, e) /\ Terminal(e)
                                   /\ e.payload.id = c.id

LEMMA RecordToolLeaves ==
  ASSUME TypeInv, NEW c \in ToolCalls, NEW n \in Nat, NEW status \in Statuses,
         NEW out \in Texts, NEW err \in Texts, status # "intent",
         RecordTool(c, n, status, out, err)
  PROVE  /\ broken => broken'
         /\ \/ log' = log /\ (c.args = "malformed" \/ broken')
            \/ Terminates(c)
<1> DEFINE e == NextEvent("tool", ToolPayload(c.id, Key(c.id, n), status, out, err))
<1>1. e \in Events
  BY ToolEventTyped
<1>2. Terminal(e) /\ e.payload.id = c.id
  BY DEF NextEvent, Event, ToolPayload, Terminal, Statuses
<1>3. \/ c.args = "malformed" /\ log' = log
      \/ log' = Append(log, e)
      \/ log' = log /\ broken'
  BY DEF RecordTool, Unmarshalable, AppendIgnored, Appended, WriteFailed, SyncFailed
<1>4. broken => broken'
  BY DEF RecordTool, Unmarshalable, AppendIgnored, Appended, WriteFailed, SyncFailed
<1> HIDE DEF e
<1> QED
  BY <1>1, <1>2, <1>3, <1>4 DEF Terminates

-----------------------------------------------------------------------------
(* A log that keeps its records and may have one more.                       *)
Grows == /\ Len(log) \in Nat /\ Len(log') \in {Len(log), Len(log) + 1}
         /\ \A i \in 1..Len(log) : log'[i] = log[i]

LEMMA KeptGrows ==
  ASSUME TypeInv, log' = log
  PROVE  Grows
<1>1. log \in Seq(Events)
  BY DEF TypeInv
<1> QED
  BY <1>1 DEF Grows

LEMMA AppendGrows ==
  ASSUME TypeInv, NEW e \in Events, log' = Append(log, e)
  PROVE  Grows /\ Len(log') = Len(log) + 1 /\ log'[Len(log) + 1] = e
<1>1. log \in Seq(Events)
  BY DEF TypeInv
<1> QED
  BY <1>1, AppendProperties DEF Grows

(* The record it may have more.                                              *)
NewRecord(k) == k = Len(log) + 1 /\ k <= Len(log')

LEMMA LastAskGrows ==
  ASSUME Grows, NEW m \in Nat, LastAsk(m),
         \A k : NewRecord(k) => log'[k].kind \notin {"turn", "run_start", "llm"}
  PROVE  LastAsk(m)' /\ Asked(m)' = Asked(m)
<1>1. m \in 1..Len(log) /\ m \in 1..Len(log') /\ log'[m] = log[m]
  BY DEF LastAsk, Grows
<1>2. \A k \in m + 1..Len(log') : (k \in m + 1..Len(log) /\ k \in 1..Len(log)) \/ NewRecord(k)
  BY <1>1 DEF Grows, NewRecord
<1>3. \A k \in m + 1..Len(log') : log'[k].kind \notin {"turn", "run_start", "llm"}
  BY <1>2 DEF LastAsk, Grows
<1>4. ASSUME NEW q \in 1..m - 1, log'[q].kind = "llm"
      PROVE  \E k \in q + 1..m - 1 : log'[k].kind \in {"turn", "run_start"}
  <2>1. q \in 1..Len(log)
    BY <1>1 DEF Grows
  <2>2. PICK k \in q + 1..m - 1 : log[k].kind \in {"turn", "run_start"}
    BY <1>4, <2>1 DEF LastAsk, Grows
  <2>3. k \in 1..Len(log)
    BY <1>1, <2>1 DEF Grows
  <2> QED
    BY <2>2, <2>3 DEF Grows
<1> QED
  BY <1>1, <1>3, <1>4 DEF LastAsk, Asked

LEMMA IntentsForGrows ==
  ASSUME Grows, NEW m \in Nat, m \in 1..Len(log), Asked(m)' = Asked(m),
         NEW b \in Nat, NEW c \in Nat, b <= c, IntentsFor(m, b),
         \A k : NewRecord(k) /\ IsIntent(log'[k]) =>
           \E x \in 1..c : x <= Len(Asked(m)) /\ log'[k].payload.id = Asked(m)[x].id
  PROVE  IntentsFor(m, c)'
<1>1. \A k \in m + 1..Len(log') : (k \in m + 1..Len(log) /\ k \in 1..Len(log)) \/ NewRecord(k)
  BY DEF Grows, NewRecord
<1>2. ASSUME NEW k \in m + 1..Len(log'), IsIntent(log'[k])
      PROVE  \E x \in 1..c : x <= Len(Asked(m)) /\ log'[k].payload.id = Asked(m)[x].id
  <2>1. CASE k \in m + 1..Len(log) /\ k \in 1..Len(log)
    <3>1. log'[k] = log[k]
      BY <2>1 DEF Grows
    <3>2. PICK x \in 1..b : x <= Len(Asked(m)) /\ log[k].payload.id = Asked(m)[x].id
      BY <1>2, <2>1, <3>1 DEF IntentsFor
    <3>3. x \in 1..c
      OBVIOUS
    <3> QED
      BY <3>1, <3>2, <3>3
  <2>2. CASE NewRecord(k)
    BY <1>2, <2>2
  <2> QED
    BY <1>1, <2>1, <2>2
<1> QED
  BY <1>2 DEF IntentsFor

LEMMA AnsweredForGrows ==
  ASSUME Grows, NEW m \in Nat, m \in 1..Len(log), Asked(m)' = Asked(m), NEW d \in Nat,
         AnsweredFor(m, d)
  PROVE  AnsweredFor(m, d)'
<1>1. \A k \in m + 1..Len(log) : k \in m + 1..Len(log') /\ log'[k] = log[k]
  BY DEF Grows
<1> QED
  BY <1>1 DEF AnsweredFor

(* One more of its calls is answered.                                        *)
LEMMA AnsweredForOneMore ==
  ASSUME Grows, NEW m \in Nat, m \in 1..Len(log), Asked(m)' = Asked(m), NEW d \in Nat,
         AnsweredFor(m, d),
         \/ Asked(m)[d + 1].args = "malformed"
         \/ \E k : NewRecord(k) /\ Terminal(log'[k]) /\ log'[k].payload.id = Asked(m)[d + 1].id
  PROVE  AnsweredFor(m, d + 1)'
<1>1. AnsweredFor(m, d)'
  BY AnsweredForGrows
<1>2. \A x \in 1..d + 1 : x \in 1..d \/ x = d + 1
  OBVIOUS
<1>3. \A k : NewRecord(k) => k \in m + 1..Len(log')
  BY DEF NewRecord, Grows
<1>4. ASSUME NEW x \in 1..d + 1
      PROVE  \/ Asked(m)'[x].args = "malformed"
             \/ \E k \in m + 1..Len(log') : /\ Terminal(log'[k])
                                            /\ log'[k].payload.id = Asked(m)'[x].id
  <2>1. CASE x \in 1..d
    BY <1>1, <2>1 DEF AnsweredFor, Terminal
  <2>2. CASE x = d + 1
    BY <1>3, <2>2
  <2> QED
    BY <1>2, <2>1, <2>2
<1> QED
  BY <1>4 DEF AnsweredFor, Terminal

(* The call under dispatch.                                                  *)
LEMMA ServedCall ==
  ASSUME TypeInv, NEW m \in Nat, NEW d \in Nat, Serving(m, d), calls # << >>
  PROVE  /\ Asked(m) \in Seq(ToolCalls)
         /\ d + 1 \in 0..Len(Asked(m)) /\ d + 1 <= Len(Asked(m))
         /\ Head(calls) = Asked(m)[d + 1] /\ Head(calls).id = Asked(m)[d + 1].id
         /\ Tail(calls) = SubSeq(Asked(m), (d + 1) + 1, Len(Asked(m)))
<1>1. /\ LastAsk(m) /\ m \in 1..Len(log) /\ d \in 0..Len(Asked(m))
      /\ calls = SubSeq(Asked(m), d + 1, Len(Asked(m)))
  BY DEF Serving, LastAsk
<1>2. Asked(m) \in Seq(ToolCalls)
  <2>1. log[m] \in Events /\ log[m].kind = "llm"
    <3>1. log \in Seq(Events)
      BY DEF TypeInv
    <3> QED
      BY <1>1, <3>1 DEF LastAsk
  <2>2. log[m].payload.msg \in Messages
    BY <2>1, EventParts DEF LLMs
  <2> QED
    BY <2>2 DEF Messages, Asked
<1>3. /\ d + 1 \in 0..Len(Asked(m)) /\ Head(calls) = Asked(m)[d + 1]
      /\ Tail(calls) = SubSeq(Asked(m), (d + 1) + 1, Len(Asked(m)))
  <2> DEFINE a == Asked(m)
  <2>1. a \in Seq(ToolCalls) /\ d \in 0..Len(a) /\ SubSeq(a, d + 1, Len(a)) # << >>
    BY <1>1, <1>2
  <2>2. /\ d + 1 \in 0..Len(a) /\ Head(SubSeq(a, d + 1, Len(a))) = a[d + 1]
        /\ Tail(SubSeq(a, d + 1, Len(a))) = SubSeq(a, (d + 1) + 1, Len(a))
    <3> HIDE DEF a
    <3> QED
      BY <2>1, RestOfCalls
  <2> QED
    BY <1>1, <2>2
<1> QED
  BY <1>2, <1>3

(* A call is disposed of, one way or another.                                *)
LEMMA ReplyServes ==
  ASSUME TypeInv, NEW m \in Nat, NEW d \in Nat, Serving(m, d),
         NEW c \in ToolCalls, calls # << >>, c = Head(calls), calls' = Tail(calls),
         pc \in {"dispatch", "reject", "record"}, pc' = "dispatch",
         broken => broken',
         \/ log' = log /\ (c.args = "malformed" \/ broken')
         \/ Terminates(c)
  PROVE  Serving(m, d + 1)'
<1>1. /\ LastAsk(m) /\ m \in 1..Len(log) /\ d \in 0..Len(Asked(m))
      /\ calls = SubSeq(Asked(m), d + 1, Len(Asked(m)))
  BY DEF Serving, LastAsk
<1>3. /\ d + 1 \in 0..Len(Asked(m)) /\ c = Asked(m)[d + 1]
      /\ Tail(calls) = SubSeq(Asked(m), (d + 1) + 1, Len(Asked(m)))
  BY ServedCall
<1>4. /\ Grows
      /\ \A k : NewRecord(k) => Terminal(log'[k]) /\ log'[k].payload.id = c.id
      /\ log' = log \/ \E k : NewRecord(k)
  <2>1. CASE log' = log
    <3>1. Grows /\ Len(log) \in Nat
      BY <2>1, KeptGrows DEF Grows
    <3> QED
      BY <2>1, <3>1 DEF NewRecord
  <2>2. CASE Terminates(c)
    <3>1. PICK e \in Events : log' = Append(log, e) /\ Terminal(e) /\ e.payload.id = c.id
      BY <2>2 DEF Terminates
    <3>2. Grows /\ Len(log') = Len(log) + 1 /\ log'[Len(log) + 1] = e
      BY <3>1, AppendGrows
    <3>3. NewRecord(Len(log) + 1)
      BY <3>2 DEF NewRecord, Grows
    <3> QED
      BY <3>1, <3>2, <3>3 DEF NewRecord
  <2> QED
    BY <2>1, <2>2
<1>5. \A k : NewRecord(k) => /\ log'[k].kind \notin {"turn", "run_start", "llm"}
                             /\ ~IsIntent(log'[k])
  BY <1>4 DEF Terminal, IsIntent
<1>6. LastAsk(m)' /\ Asked(m)' = Asked(m)
  BY <1>1, <1>4, <1>5, LastAskGrows
<1>7. IntentsFor(m, d + 1)'
  <2>1. CASE pc = "record"
    <3>1. IntentsFor(m, d + 1) /\ d + 1 \in Nat /\ d + 1 <= d + 1
      BY <2>1 DEF Serving
    <3> QED
      BY <1>1, <1>4, <1>5, <1>6, <3>1, IntentsForGrows
  <2>2. CASE pc # "record"
    <3>1. IntentsFor(m, d) /\ d + 1 \in Nat /\ d <= d + 1
      BY <2>2 DEF Serving
    <3> QED
      BY <1>1, <1>4, <1>5, <1>6, <3>1, IntentsForGrows
  <2> QED
    BY <2>1, <2>2
<1>8. broken' \/ AnsweredFor(m, d + 1)'
  <2> SUFFICES ASSUME ~broken' PROVE AnsweredFor(m, d + 1)'
    OBVIOUS
  <2>1. AnsweredFor(m, d)
    BY DEF Serving
  <2>2. c.args = "malformed" \/ \E k : NewRecord(k)
    <3>1. CASE Terminates(c)
      <4>1. log' # log
        <5>1. PICK e \in Events : log' = Append(log, e)
          BY <3>1 DEF Terminates
        <5>2. Len(log') = Len(log) + 1 /\ Len(log) \in Nat
          BY <5>1, AppendGrows DEF Grows
        <5> QED
          BY <5>2
      <4> QED
        BY <1>4, <4>1
    <3> QED
      BY <3>1
  <2> QED
    BY <1>1, <1>3, <1>4, <1>6, <2>1, <2>2, AnsweredForOneMore
<1>9. Serving(m, d + 1)'
  BY <1>3, <1>6, <1>7, <1>8 DEF Serving
<1> QED
  BY <1>9

(* A step that disposes of none.                                             *)
LEMMA SameCallsServe ==
  ASSUME NEW m \in Nat, NEW d \in Nat, Serving(m, d), calls' = calls, Grows,
         broken => broken',
         pc \in {"invoke", "record"} => pc' \in {"invoke", "record"},
         \A k : NewRecord(k) =>
           /\ log'[k].kind \notin {"turn", "run_start", "llm"}
           /\ IsIntent(log'[k]) => /\ pc' \in {"invoke", "record"}
                                   /\ d + 1 <= Len(Asked(m))
                                   /\ log'[k].payload.id = Asked(m)[d + 1].id
  PROVE  Serving(m, d)'
<1>1. LastAsk(m) /\ m \in 1..Len(log)
  BY DEF Serving, LastAsk
<1>2. LastAsk(m)' /\ Asked(m)' = Asked(m)
  BY <1>1, LastAskGrows
<1>3. d + 1 \in 1..d + 1 /\ d <= d + 1 /\ d <= d /\ d + 1 <= d + 1 /\ d + 1 \in Nat
  OBVIOUS
<1>4. CASE pc' \in {"invoke", "record"}
  <2>1. IntentsFor(m, d) \/ IntentsFor(m, d + 1)
    BY DEF Serving
  <2>2. \A k : NewRecord(k) /\ IsIntent(log'[k]) =>
          \E x \in 1..d + 1 : x <= Len(Asked(m)) /\ log'[k].payload.id = Asked(m)[x].id
    BY <1>3
  <2>3. IntentsFor(m, d + 1)'
    BY <1>1, <1>2, <1>3, <2>1, <2>2, IntentsForGrows
  <2>4. broken' \/ AnsweredFor(m, d)'
    BY <1>1, <1>2, AnsweredForGrows DEF Serving
  <2> QED
    BY <1>2, <1>4, <2>3, <2>4 DEF Serving
<1>5. CASE pc' \notin {"invoke", "record"}
  <2>1. IntentsFor(m, d)
    BY <1>5 DEF Serving
  <2>2. \A k : NewRecord(k) => ~IsIntent(log'[k])
    BY <1>5
  <2>3. IntentsFor(m, d)'
    BY <1>1, <1>2, <1>3, <2>1, <2>2, IntentsForGrows
  <2>4. broken' \/ AnsweredFor(m, d)'
    BY <1>1, <1>2, AnsweredForGrows DEF Serving
  <2> QED
    BY <1>2, <1>5, <2>3, <2>4 DEF Serving
<1> QED
  BY <1>4, <1>5

LEMMA AskServes ==
  ASSUME TypeInv, TypeInv', TurnInv, CallLLM, pc' \in DispatchStages
  PROVE  (\E m \in Nat : \E d \in Nat : Serving(m, d))'
<1> DEFINE n == Len(log)
<1>1. PICK r \in Responses :
        /\ Appended("llm", LLMPayload(turnNumber, r.tokens, Completion(r)))
        /\ calls' = Completion(r).calls
        /\ pc' = IF r.calls = <<>> THEN "answer" ELSE "dispatch"
  BY DEF CallLLM, AppendError, Exit, DispatchStages, InTurnStages
<1> DEFINE e == NextEvent("llm", LLMPayload(turnNumber, r.tokens, Completion(r)))
<1>2. e \in Events /\ log' = Append(log, e)
  BY <1>1, StageEvents DEF Appended
<1>3. e.kind = "llm" /\ e.payload.msg.calls = Completion(r).calls
  BY DEF NextEvent, Event, LLMPayload
<1>4. /\ n \in Nat /\ Len(log') = n + 1 /\ log'[n + 1] = e
      /\ \A i \in 1..n : log'[i] = log[i]
  <2> HIDE DEF e
  <2> QED
    BY <1>2, AppendGrows DEF Grows
<1> HIDE DEF e
<1>5. PICK j \in 1..n : TurnOpen(j)
  BY DEF CallLLM, TurnInv, InTurnStages, Indices
<1>6. pc = "call"
  BY DEF CallLLM
<1> SUFFICES ASSUME NEW m \in Nat, m = n + 1 PROVE Serving(m, 0)'
  BY <1>4
<1>7. LastAsk(m)'
  <2>1. m \in 1..Len(log') /\ log'[m].kind = "llm" /\ m + 1..Len(log') = {}
    BY <1>3, <1>4
  <2>2. ASSUME NEW q \in 1..m - 1, log'[q].kind = "llm"
        PROVE  \E k \in q + 1..m - 1 : log'[k].kind \in {"turn", "run_start"}
    <3>1. q \in 1..n /\ log[q].kind = "llm"
      BY <1>4, <2>2
    <3>2. ~(q \in j + 1..n) /\ q # j
      BY <1>5, <1>6, <3>1 DEF TurnOpen
    <3>3. j \in q + 1..m - 1
      BY <1>4, <3>1, <3>2
    <3>4. log'[j].kind = "turn"
      BY <1>4, <1>5 DEF TurnOpen
    <3> QED
      BY <3>3, <3>4
  <2> QED
    BY <2>1, <2>2 DEF LastAsk
<1>8. Asked(m)' = calls'
  BY <1>1, <1>3, <1>4 DEF Asked
<1>9. /\ 0 \in 0..Len(Asked(m)') /\ calls' = SubSeq(Asked(m)', 0 + 1, Len(Asked(m)'))
  <2>1. calls' \in Seq(ToolCalls)
    BY DEF TypeInv
  <2>2. Len(calls') \in Nat /\ SubSeq(calls', 1, Len(calls')) = calls'
    BY <2>1, SubSeqFull
  <2> QED
    BY <1>8, <2>2
<1>10. IntentsFor(m, 0)' /\ AnsweredFor(m, 0)'
  <2>1. m + 1..Len(log') = {} /\ 1..0 = {}
    BY <1>4
  <2> QED
    BY <2>1 DEF IntentsFor, AnsweredFor
<1>11. pc' \notin {"invoke", "record"}
  BY <1>1
<1> QED
  BY <1>7, <1>9, <1>10, <1>11 DEF Serving

LEMMA IntentServes ==
  ASSUME TypeInv, TypeInv', ServeInv, Intent, pc' \in DispatchStages
  PROVE  (\E m \in Nat : \E d \in Nat : Serving(m, d))'
<1> DEFINE c == Head(calls)
           p == ToolPayload(c.id, Key(c.id, toolInvocations), "intent", "", "")
           e == NextEvent("tool", p)
<1>1. /\ pc = "dispatch" /\ pc' = "invoke" /\ calls # << >> /\ calls' = calls
      /\ log' = Append(log, e) /\ broken' = broken
  BY DEF Intent, Appended, AppendError, Exit, DispatchStages, InTurnStages, convVars
<1>2. e.kind = "tool" /\ e.payload.id = c.id
  BY DEF NextEvent, Event, ToolPayload
<1>3. PICK m \in Nat : \E d \in Nat : Serving(m, d)
  BY <1>1 DEF ServeInv, DispatchStages, InTurnStages
<1>4. PICK d \in Nat : Serving(m, d)
  BY <1>3
<1>5. Grows /\ Len(log') = Len(log) + 1 /\ log'[Len(log) + 1] = e
  <2>1. log \in Seq(Events) /\ log' \in Seq(Events)
    BY DEF TypeInv
  <2> HIDE DEF e
  <2>2. /\ Len(log') = Len(log) + 1 /\ log'[Len(log) + 1] = e /\ Len(log) \in Nat
        /\ \A i \in 1..Len(log) : log'[i] = log[i]
    BY <1>1, <2>1
  <2> QED
    BY <2>2 DEF Grows
<1>6. d + 1 <= Len(Asked(m)) /\ c.id = Asked(m)[d + 1].id
  BY <1>1, <1>4, ServedCall
<1> HIDE DEF e, c
<1>7. \A k : NewRecord(k) =>
        /\ log'[k].kind \notin {"turn", "run_start", "llm"}
        /\ log'[k].payload.id = Asked(m)[d + 1].id
  BY <1>2, <1>5, <1>6 DEF NewRecord
<1>8. Serving(m, d)'
  BY <1>1, <1>4, <1>5, <1>6, <1>7, SameCallsServe
<1> QED
  BY <1>8

LEMMA ServeStep ==
  ASSUME TypeInv, TypeInv', TurnInv, ServeInv, [Next]_vars
  PROVE  ServeInv'
<1> SUFFICES ASSUME pc' \in DispatchStages
             PROVE  (\E m \in Nat : \E d \in Nat : Serving(m, d))'
  BY DEF ServeInv
<1>1. CASE CallLLM
  BY <1>1, AskServes
<1>2. CASE Intent
  BY <1>2, IntentServes
<1>3. CASE BeginTurn
  BY <1>3 DEF BeginTurn, AppendError, Exit, DispatchStages, InTurnStages
<1> DEFINE c == Head(calls)
<1>4. toolInvocations \in Nat /\ toolInvocations + 1 \in Nat /\ calls \in Seq(ToolCalls)
      /\ (calls # << >> => c \in ToolCalls)
  BY Before, HeadTailProperties
<1>5. /\ Status(outcome) \in Statuses \ {"intent"} /\ {"error", "invalid"} \subseteq Statuses
      /\ {"", "unknown tool", "invalid arguments"} \subseteq Texts
      /\ outcome # "finished" => outcome \in Texts
  BY Before DEF Status, Statuses, Texts
<1>6. CASE DispatchUnknown \/ RecordInvalid \/ Result
  <2>1. /\ pc \in {"dispatch", "reject", "record"} /\ pc' = "dispatch" /\ calls # << >>
        /\ calls' = Tail(calls)
    BY <1>6 DEF DispatchUnknown, RecordInvalid, Result, Reply, TypeInv
  <2>2. \/ RecordTool(c, toolInvocations + 1, "error", "", "unknown tool")
        \/ RecordTool(c, toolInvocations, "invalid", "", "invalid arguments")
        \/ outcome # "finished" /\ RecordTool(c, toolInvocations, Status(outcome), outcome, "")
    BY <1>6 DEF DispatchUnknown, RecordInvalid, Result
  <2>3. PICK m \in Nat : \E d \in Nat : Serving(m, d)
    BY <2>1 DEF ServeInv, DispatchStages, InTurnStages
  <2>4. PICK d \in Nat : Serving(m, d)
    BY <2>3
  <2>5. c = Head(calls)
    OBVIOUS
  <2> HIDE DEF c
  <2>6. /\ broken => broken'
        /\ \/ log' = log /\ (c.args = "malformed" \/ broken')
           \/ Terminates(c)
    BY <1>4, <1>5, <2>1, <2>2, RecordToolLeaves
  <2>7. Serving(m, d + 1)'
    BY <1>4, <2>1, <2>4, <2>5, <2>6, ReplyServes
  <2> QED
    BY <2>7
<1>7. CASE DispatchInvalid
  <2>1. /\ pc = "dispatch" /\ pc' = "reject" /\ calls' = calls
        /\ AppendIgnored("log", LogPayload("warn"))
    BY <1>7 DEF DispatchInvalid, convVars
  <2>2. PICK m \in Nat : \E d \in Nat : Serving(m, d)
    BY <2>1 DEF ServeInv, DispatchStages, InTurnStages
  <2>3. PICK d \in Nat : Serving(m, d)
    BY <2>2
  <2> DEFINE e == NextEvent("log", LogPayload("warn"))
  <2>4. e \in Events /\ e.kind = "log"
    BY StageEvents DEF NextEvent, Event
  <2>5. (log' = log \/ log' = Append(log, e)) /\ (broken => broken')
    BY <2>1 DEF AppendIgnored, Appended, WriteFailed, SyncFailed
  <2> HIDE DEF e
  <2>6. Grows /\ \A k : NewRecord(k) => log'[k].kind = "log"
    <3>1. CASE log' = log
      BY <3>1, KeptGrows DEF NewRecord, Grows
    <3>2. CASE log' = Append(log, e)
      BY <2>4, <3>2, AppendGrows DEF NewRecord
    <3> QED
      BY <2>5, <3>1, <3>2
  <2>7. Serving(m, d)'
    BY <2>1, <2>3, <2>5, <2>6, SameCallsServe DEF IsIntent
  <2> QED
    BY <2>7
<1>8. CASE Invoke \/ UNCHANGED vars
  <2>1. /\ log' = log /\ calls' = calls /\ broken' = broken /\ pc \in DispatchStages
        /\ pc \in {"invoke", "record"} => pc' \in {"invoke", "record"}
        /\ pc' \in {"invoke", "record"} => pc \in {"invoke", "record"}
    BY <1>8 DEF Invoke, vars, logVars, convVars, DispatchStages, InTurnStages
  <2>2. PICK m \in Nat : \E d \in Nat : Serving(m, d)
    BY <2>1 DEF ServeInv
  <2>3. PICK d \in Nat : Serving(m, d)
    BY <2>2
  <2>4. Grows /\ \A k : ~NewRecord(k)
    BY <2>1, KeptGrows DEF NewRecord, Grows
  <2>5. Serving(m, d)'
    BY <2>1, <2>3, <2>4, SameCallsServe
  <2> QED
    BY <2>5
<1> QED
  BY <1>1, <1>2, <1>3, <1>6, <1>7, <1>8, IntoTurn DEF DispatchStages

(* While calls are dispatched, those left are a tail of the last completion  *)
(* in the log. No call of it has an intent before its turn comes, and those  *)
(* dispatched have their terminal records unless the writer has failed.      *)
THEOREM ServesHold == Spec => []ServeInv
<1>1. Init => ServeInv
  BY DEF Init, ServeInv, DispatchStages, InTurnStages
<1>2. TypeInv /\ TypeInv' /\ TurnInv /\ ServeInv /\ [Next]_vars => ServeInv'
  BY ServeStep
<1> QED
  BY <1>1, <1>2, AgentInv, TurnsHold, PTL DEF Spec

-----------------------------------------------------------------------------
(* The calls of a completion have ids of their own, and in a whole log a     *)
(* completion has at most one intent for each.                               *)
IdsDistinct(e) == e.kind = "llm" =>
  \A x, y \in 1..Len(e.payload.msg.calls) :
    e.payload.msg.calls[x].id = e.payload.msg.calls[y].id => x = y

OnceInv ==
  /\ \A i \in Indices : IdsDistinct(log[i])
  /\ \A i, j \in Indices :
       (IsIntent(log[i]) /\ IsIntent(log[j]) /\ i < j /\ NoneBetween(i, j, {"llm"}))
         => log[i].payload.id # log[j].payload.id

LEMMA CompletionIds ==
  ASSUME TypeInv, NEW r \in Responses
  PROVE  \A x, y \in 1..Len(Completion(r).calls) :
           Completion(r).calls[x].id = Completion(r).calls[y].id => x = y
<1>1. /\ Len(Completion(r).calls) = Len(r.calls)
      /\ \A i \in 1..Len(r.calls) : Completion(r).calls[i].id = CallId(i)
  BY CompletionTyped
<1>2. \A x, y \in 1..Len(r.calls) : CallId(x) = CallId(y) => x = y
  BY DEF CallId
<1> QED
  BY <1>1, <1>2

LEMMA OnceStep ==
  ASSUME TypeInv, TypeInv', ServeInv, OnceInv, [Next]_vars
  PROVE  OnceInv'
<1>1. CASE LogUnchanged
  BY <1>1 DEF LogUnchanged, OnceInv, NoneBetween, Indices
<1>2. CASE Crash
  <2>1. /\ \A i \in 1..Len(log') : i \in 1..Len(log) /\ log'[i] = log[i]
        /\ Len(log') \in Nat
    BY <1>2, CutLog
  <2>2. \A i, j \in 1..Len(log') : \A k \in i + 1..j - 1 : k \in 1..Len(log')
    BY <2>1
  <2>3. ASSUME NEW i \in 1..Len(log'), NEW j \in 1..Len(log'), IsIntent(log'[i]),
               IsIntent(log'[j]), i < j, NoneBetween(i, j, {"llm"})'
        PROVE  log'[i].payload.id # log'[j].payload.id
    <3>1. NoneBetween(i, j, {"llm"})
      BY <2>1, <2>2, <2>3 DEF NoneBetween
    <3> QED
      BY <2>1, <2>3, <3>1 DEF OnceInv, Indices
  <2>4. \A i \in 1..Len(log') : IdsDistinct(log'[i])
    BY <2>1 DEF OnceInv, Indices
  <2> QED
    BY <2>3, <2>4 DEF OnceInv, Indices
<1>3. ASSUME NEW kind, NEW p, Adds(kind, p)
      PROVE  OnceInv'
  <2> DEFINE n == Len(log)
             e == NextEvent(kind, p)
  <2> HIDE DEF e
  <2>1. /\ Len(log') = n + 1 /\ n \in Nat /\ log'[n + 1] = e
        /\ e.kind = kind /\ e.payload = p
        /\ \A i \in 1..n : log'[i] = log[i]
    BY <1>3, AddedLog DEF NextEvent, Event, e
  <2>2. \A i \in 1..n + 1 : i \in 1..n \/ i = n + 1
    BY <2>1
  <2>3. IdsDistinct(e)
    <3> SUFFICES ASSUME kind = "llm" PROVE IdsDistinct(e)
      BY <2>1 DEF IdsDistinct
    <3>1. PICK r \in Responses : p = LLMPayload(turnNumber, r.tokens, Completion(r))
      BY <1>3 DEF Adds, Written
    <3>2. e.payload.msg = Completion(r)
      BY <2>1, <3>1 DEF LLMPayload
    <3> QED
      BY <3>2, CompletionIds DEF IdsDistinct
  <2>4. \A i \in 1..n + 1 : IdsDistinct(log'[i])
    BY <2>1, <2>2, <2>3 DEF OnceInv, Indices
  <2>5. ASSUME IsIntent(e), NEW i \in 1..n, IsIntent(log[i]),
               \A k \in i + 1..n : log[k].kind # "llm"
        PROVE  log[i].payload.id # p.id
    <3>1. pc = "dispatch" /\ calls # << >> /\ p.id = Head(calls).id
      BY <1>3, <2>1, <2>5 DEF Adds, Written, IsIntent
    <3>2. PICK m \in Nat : \E d \in Nat : Serving(m, d)
      BY <3>1 DEF ServeInv, DispatchStages, InTurnStages
    <3>3. PICK d \in Nat : Serving(m, d)
      BY <3>2
    <3>4. /\ Asked(m) \in Seq(ToolCalls) /\ d + 1 \in 1..Len(Asked(m))
          /\ p.id = Asked(m)[d + 1].id
      <4>1. /\ Asked(m) \in Seq(ToolCalls) /\ d + 1 \in 0..Len(Asked(m))
            /\ Head(calls).id = Asked(m)[d + 1].id
        BY <3>1, <3>3, ServedCall
      <4> QED
        BY <3>1, <4>1
    <3>5. m \in 1..n /\ log[m].kind = "llm" /\ IntentsFor(m, d)
      BY <3>1, <3>3 DEF Serving, LastAsk
    <3>6. m # i /\ ~(m \in i + 1..n)
      BY <2>5, <3>5 DEF IsIntent
    <3>7. i \in m + 1..n
      BY <2>1, <3>5, <3>6
    <3>8. PICK x \in 1..d : x <= Len(Asked(m)) /\ log[i].payload.id = Asked(m)[x].id
      BY <2>5, <3>5, <3>7 DEF IntentsFor
    <3>9. x \in 1..Len(Asked(m)) /\ x # d + 1
      BY <3>4, <3>8
    <3>10. Asked(m)[x].id # Asked(m)[d + 1].id
      BY <3>4, <3>5, <3>9 DEF OnceInv, IdsDistinct, Asked, Indices
    <3> QED
      BY <3>4, <3>8, <3>10
  <2>6. ASSUME NEW i \in 1..n + 1, NEW j \in 1..n + 1, IsIntent(log'[i]), IsIntent(log'[j]),
               i < j, \A k \in i + 1..j - 1 : log'[k].kind # "llm"
        PROVE  log'[i].payload.id # log'[j].payload.id
    <3>1. i \in 1..n /\ log'[i] = log[i] /\ \A k \in i + 1..j - 1 : k \in 1..n /\ log[k].kind # "llm"
      BY <2>1, <2>6
    <3>2. CASE j = n + 1
      <4>1. \A k \in i + 1..n : log[k].kind # "llm"
        BY <2>1, <3>1, <3>2
      <4>2. IsIntent(e) /\ IsIntent(log[i]) /\ log'[j] = e /\ e.payload = p
        BY <2>1, <2>6, <3>1, <3>2
      <4> QED
        BY <2>5, <3>1, <4>1, <4>2
    <3>3. CASE j \in 1..n
      BY <2>1, <2>6, <3>1, <3>3 DEF OnceInv, NoneBetween, Indices
    <3> QED
      BY <2>2, <3>2, <3>3
  <2> QED
    BY <2>1, <2>4, <2>6 DEF OnceInv, NoneBetween, Indices
<1> QED
  BY <1>1, <1>2, <1>3, LogStep

(* Two intents under one completion are for different calls of it.           *)
THEOREM OnceHolds == Spec => []OnceInv
<1>1. Init => OnceInv
  <2> SUFFICES ASSUME Init PROVE OnceInv
    OBVIOUS
  <2>1. log = << >>
    BY DEF Init
  <2> QED
    BY <2>1 DEF OnceInv, Indices
<1>2. TypeInv /\ TypeInv' /\ ServeInv /\ OnceInv /\ [Next]_vars => OnceInv'
  BY OnceStep
<1> QED
  BY <1>1, <1>2, AgentInv, ServesHold, PTL DEF Spec

-----------------------------------------------------------------------------
(* Write-ahead. An intent covered by an fsync, and by a completion that asks *)
(* for the call, is so for good: no crash takes it back.                     *)
Backed(p) ==
  \E i \in 1..p - 1 :
    /\ log[i].kind = "llm"
    /\ NoneBetween(i, p, {"turn", "run_start"})
    /\ \E c \in ToSet(log[i].payload.msg.calls) : c.id = log[p].payload.id

Covered(p) == p \in 1..kept /\ IsIntent(log[p]) /\ Backed(p)

Increasing == \A k, l \in DOMAIN effects : l < k => effects[l] < effects[k]

InvokeInv ==
  /\ \A k \in DOMAIN effects : Covered(effects[k])
  /\ Increasing
  /\ pc = "invoke" => /\ kept = Len(log) /\ Covered(Len(log))
                      /\ \A l \in DOMAIN effects : effects[l] < Len(log)

LEMMA KeptStays ==
  ASSUME TypeInv, TypeInv', [Next]_vars
  PROVE  /\ kept \in Nat /\ kept' \in Nat /\ kept <= kept'
         /\ kept <= Len(log) /\ Len(log) \in Nat
         /\ \A i \in 1..kept : log'[i] = log[i]
<1>1. kept \in 0..Len(log) /\ kept' \in 0..Len(log') /\ Len(log) \in Nat /\ Len(log') \in Nat
  <2>1. log \in Seq(Events) /\ log' \in Seq(Events)
    BY DEF TypeInv
  <2>2. kept \in 0..Len(log) /\ kept' \in 0..Len(log')
    BY DEF TypeInv, TypeOK
  <2> QED
    BY <2>1, <2>2
<1>2. CASE LogUnchanged
  BY <1>1, <1>2 DEF LogUnchanged
<1>3. CASE Crash
  <2>1. kept' = kept /\ \A i \in 1..Len(log') : log'[i] = log[i]
    BY <1>3, CutLog
  <2> QED
    BY <1>1, <2>1
<1>4. ASSUME NEW kind, NEW p, Adds(kind, p)
      PROVE  kept <= kept' /\ \A i \in 1..kept : log'[i] = log[i]
  <2>1. /\ Len(log') = Len(log) + 1 /\ \A i \in 1..Len(log) : log'[i] = log[i]
        /\ kept' \in {kept, Len(log')}
    BY <1>4, AddedLog DEF Adds
  <2> QED
    BY <1>1, <2>1
<1> QED
  BY <1>1, <1>2, <1>3, <1>4, LogStep

LEMMA CoveredStays ==
  ASSUME TypeInv, TypeInv', [Next]_vars, NEW p \in Nat, Covered(p)
  PROVE  Covered(p)'
<1>1. /\ kept \in Nat /\ kept' \in Nat /\ kept <= kept' /\ p \in 1..kept
      /\ \A i \in 1..kept : log'[i] = log[i]
  BY KeptStays DEF Covered
<1>2. p \in 1..kept' /\ log'[p] = log[p] /\ IsIntent(log[p])
  BY <1>1 DEF Covered
<1>3. PICK i \in 1..p - 1 :
        /\ log[i].kind = "llm"
        /\ NoneBetween(i, p, {"turn", "run_start"})
        /\ \E c \in ToSet(log[i].payload.msg.calls) : c.id = log[p].payload.id
  BY DEF Covered, Backed
<1>4. log'[i] = log[i] /\ \A k \in i + 1..p - 1 : log'[k] = log[k]
  BY <1>1, <1>3
<1>5. NoneBetween(i, p, {"turn", "run_start"})'
  BY <1>3, <1>4 DEF NoneBetween
<1>6. Backed(p)'
  BY <1>2, <1>3, <1>4, <1>5 DEF Backed
<1> QED
  BY <1>2, <1>6 DEF Covered, IsIntent

LEMMA EffectsStep ==
  ASSUME [Next]_vars
  PROVE  /\ effects' = effects \/ Invoke
         /\ pc' = "invoke" => Intent \/ UNCHANGED vars
<1>1. CASE Launch \/ Load \/ ScanLine \/ ScanDone \/ BootstrapFail \/ End \/ Crash
  BY <1>1 DEF Launch, Load, ScanLine, ScanDone, BootstrapFail, Exit, End, Crash, history
<1>2. CASE RunStart \/ BeginTurn \/ CallLLM \/ LLMFail \/ Answer \/ Finish \/ TurnEnd
  BY <1>2 DEF RunStart, BeginTurn, CallLLM, LLMFail, Answer, Finish, TurnEnd, AppendError,
              Exit, history
<1>3. CASE StopTurns \/ StopWallClock \/ StopTokens \/ StopTools
  BY <1>3 DEF StopTurns, StopWallClock, StopTokens, StopTools, Stop, history
<1>4. CASE DispatchUnknown \/ DispatchInvalid \/ RecordInvalid \/ Result
  BY <1>4 DEF DispatchUnknown, DispatchInvalid, RecordInvalid, Result, history
<1>5. CASE Intent \/ UNCHANGED vars
  BY <1>5 DEF Intent, AppendError, Exit, vars, history
<1>6. CASE Invoke
  BY <1>6 DEF Invoke
<1> QED
  BY <1>1, <1>2, <1>3, <1>4, <1>5, <1>6 DEF Next

(* The intent just written is that of a call of the last completion.         *)
LEMMA IntentCovered ==
  ASSUME TypeInv, TypeInv', ServeInv, Intent, pc' = "invoke"
  PROVE  /\ kept' = Len(log') /\ Len(log') = Len(log) + 1
         /\ Covered(Len(log))'
<1> DEFINE n == Len(log)
           c == Head(calls)
           p == ToolPayload(c.id, Key(c.id, toolInvocations), "intent", "", "")
           e == NextEvent("tool", p)
<1>1. /\ pc = "dispatch" /\ calls # << >>
      /\ log' = Append(log, e) /\ kept' = Len(log')
  BY DEF Intent, Appended, AppendError, Exit
<1>2. IsIntent(e) /\ e.payload.id = c.id
  BY DEF NextEvent, Event, ToolPayload, IsIntent
<1>3. PICK m \in Nat : \E d \in Nat : Serving(m, d)
  BY <1>1 DEF ServeInv, DispatchStages, InTurnStages
<1>4. PICK d \in Nat : Serving(m, d)
  BY <1>3
<1>5. /\ Len(log') = n + 1 /\ log'[n + 1] = e /\ n \in Nat
      /\ \A i \in 1..n : log'[i] = log[i]
  <2>1. log \in Seq(Events) /\ log' \in Seq(Events)
    BY DEF TypeInv
  <2> HIDE DEF e
  <2> QED
    BY <1>1, <2>1
<1>6. c = Asked(m)[d + 1] /\ d + 1 \in 1..Len(Asked(m)) /\ Asked(m) \in Seq(ToolCalls)
  <2>1. /\ c = Asked(m)[d + 1] /\ d + 1 <= Len(Asked(m)) /\ Asked(m) \in Seq(ToolCalls)
    BY <1>1, <1>4, ServedCall
  <2>2. Len(Asked(m)) \in Nat
    BY <2>1
  <2> HIDE DEF c
  <2> QED
    BY <2>1, <2>2
<1>7. /\ m \in 1..n /\ log[m].kind = "llm"
      /\ \A k \in m + 1..n : log[k].kind \notin {"turn", "run_start"}
  BY <1>4 DEF Serving, LastAsk
<1> HIDE DEF e, c
<1> SUFFICES ASSUME NEW i \in Nat, i = n + 1 PROVE Covered(i)'
  BY <1>1, <1>5
<1>8. c \in ToSet(Asked(m))
  <2>1. DOMAIN Asked(m) = 1..Len(Asked(m))
    BY <1>6
  <2> QED
    BY <1>6, <2>1 DEF ToSet
<1>9. m \in 1..i - 1 /\ \A k \in m + 1..i - 1 : k \in m + 1..n /\ k \in 1..n
  BY <1>5, <1>7
<1>10. log'[m] = log[m] /\ NoneBetween(m, i, {"turn", "run_start"})'
  BY <1>5, <1>7, <1>9 DEF NoneBetween
<1>11. Backed(i)'
  BY <1>2, <1>5, <1>7, <1>8, <1>9, <1>10 DEF Backed, Asked
<1>12. i \in 1..kept' /\ log'[i] = e
  BY <1>1, <1>5
<1> QED
  BY <1>2, <1>11, <1>12 DEF Covered, IsIntent

LEMMA InvokeStep ==
  ASSUME TypeInv, TypeInv', ServeInv, InvokeInv, [Next]_vars
  PROVE  InvokeInv'
<1>0. /\ effects \in Seq(Nat) /\ DOMAIN effects = 1..Len(effects) /\ Len(effects) \in Nat
      /\ Len(log) \in Nat
  <2>1. effects \in Seq(Nat) /\ log \in Seq(Events)
    BY DEF TypeInv
  <2> QED
    BY <2>1
<1>1. \A k \in DOMAIN effects : \E p \in Nat : p = effects[k] /\ p <= Len(log) /\ Covered(p)'
  <2> SUFFICES ASSUME NEW k \in DOMAIN effects, NEW p \in Nat, p = effects[k]
               PROVE  p <= Len(log) /\ Covered(p)'
    BY <1>0
  <2>1. Covered(p)
    BY DEF InvokeInv
  <2>2. p <= Len(log)
    BY <1>0, <2>1, KeptStays DEF Covered
  <2> QED
    BY <2>1, <2>2, CoveredStays
<1>2. CASE effects' = effects
  <2>1. (\A k \in DOMAIN effects : Covered(effects[k]))' /\ Increasing'
    BY <1>1, <1>2 DEF InvokeInv, Increasing
  <2>2. CASE pc' # "invoke"
    BY <2>1, <2>2 DEF InvokeInv
  <2>3. CASE Intent /\ pc' = "invoke"
    <3>1. kept' = Len(log') /\ Len(log') = Len(log) + 1 /\ Covered(Len(log))'
      BY <2>3, IntentCovered
    <3>2. \A l \in DOMAIN effects : effects[l] < Len(log')
      BY <1>0, <1>1, <3>1
    <3> QED
      BY <1>2, <2>1, <3>1, <3>2 DEF InvokeInv
  <2>4. CASE UNCHANGED vars
    BY <2>4 DEF vars, logVars, history, InvokeInv, Increasing, Covered, Backed, NoneBetween, IsIntent
  <2> QED
    BY <2>2, <2>3, <2>4, EffectsStep
<1>3. CASE Invoke
  <2> DEFINE n == Len(log)
  <2>1. /\ pc = "invoke" /\ pc' = "record" /\ effects' = Append(effects, n) /\ UNCHANGED logVars
    BY <1>3 DEF Invoke
  <2>2. /\ DOMAIN effects' = 1..Len(effects) + 1 /\ effects'[Len(effects) + 1] = n
        /\ \A k \in 1..Len(effects) : effects'[k] = effects[k]
    BY <1>0, <2>1
  <2>3. Covered(n) /\ \A l \in DOMAIN effects : effects[l] < n
    BY <2>1 DEF InvokeInv
  <2> SUFFICES ASSUME NEW i \in Nat, i = n
               PROVE  InvokeInv'
    BY <1>0
  <2>4. Covered(i)'
    BY <2>3, CoveredStays
  <2>5. \A k \in DOMAIN effects' : k \in DOMAIN effects \/ k = Len(effects) + 1
    BY <1>0, <2>2
  <2>6. (\A k \in DOMAIN effects : Covered(effects[k]))'
    <3> SUFFICES ASSUME NEW k \in DOMAIN effects' PROVE Covered(effects[k])'
      OBVIOUS
    <3>1. CASE k \in DOMAIN effects
      <4>1. PICK p \in Nat : p = effects[k] /\ Covered(p)'
        BY <1>1, <3>1
      <4>2. effects'[k] = p
        BY <1>0, <2>2, <3>1, <4>1
      <4> QED
        BY <4>1, <4>2
    <3>2. CASE k = Len(effects) + 1
      <4>1. effects'[k] = i
        BY <2>2, <3>2
      <4> QED
        BY <2>4, <4>1
    <3> QED
      BY <2>5, <3>1, <3>2
  <2>7. ASSUME NEW k \in DOMAIN effects', NEW l \in DOMAIN effects', l < k
        PROVE  effects'[l] < effects'[k]
    <3>1. l \in DOMAIN effects /\ effects'[l] = effects[l]
      BY <1>0, <2>2, <2>5, <2>7
    <3>2. CASE k \in DOMAIN effects
      BY <1>0, <2>2, <2>7, <3>1, <3>2 DEF InvokeInv, Increasing
    <3>3. CASE k = Len(effects) + 1
      BY <2>2, <2>3, <3>1, <3>3
    <3> QED
      BY <2>5, <3>2, <3>3
  <2> QED
    BY <2>1, <2>6, <2>7 DEF InvokeInv, Increasing
<1> QED
  BY <1>2, <1>3, EffectsStep

(* Each invocation made has an intent of its own that an fsync covers, and   *)
(* the call about to be invoked has the last record of the log for it.       *)
THEOREM InvokesHold == Spec => []InvokeInv
<1>1. Init => InvokeInv
  <2> SUFFICES ASSUME Init PROVE InvokeInv
    OBVIOUS
  <2>1. effects = << >> /\ pc = "down"
    BY DEF Init
  <2> QED
    BY <2>1 DEF InvokeInv, Increasing
<1>2. TypeInv /\ TypeInv' /\ ServeInv /\ InvokeInv /\ [Next]_vars => InvokeInv'
  BY InvokeStep
<1> QED
  BY <1>1, <1>2, AgentInv, ServesHold, PTL DEF Spec

(* Write-ahead: whatever fails and whenever a process dies, every tool       *)
(* invocation ever made has an intent of its own that an fsync has covered   *)
(* and that comes, in the same turn, after the completion asking for it.     *)
THEOREM IntentBeforeEffect == Spec => []WriteAhead
<1>1. TypeInv /\ InvokeInv => WriteAhead
  <2> SUFFICES ASSUME TypeInv, InvokeInv, NEW k \in DOMAIN effects
               PROVE  /\ effects[k] <= kept /\ effects[k] \in Intents
                      /\ \A l \in DOMAIN effects : l < k => effects[l] < effects[k]
                      /\ Backed(effects[k])
    BY DEF WriteAhead, Backed
  <2>1. Covered(effects[k]) /\ kept \in 0..Len(log)
    BY DEF InvokeInv, TypeInv, TypeOK
  <2>2. Len(log) \in Nat
    <3>1. log \in Seq(Events)
      BY DEF TypeInv
    <3> QED
      BY <3>1
  <2>3. effects[k] <= kept /\ effects[k] \in Intents
    BY <2>1, <2>2 DEF Covered, Intents, Kinds, Indices, IsIntent
  <2> QED
    BY <2>1, <2>3 DEF InvokeInv, Increasing, Covered
<1> QED
  BY <1>1, InvokesHold, AgentInv, PTL

-----------------------------------------------------------------------------
(* At most once. The completion a record answers to is the last before it.   *)
LEMMA LastCompletion ==
  ASSUME TypeInv, NEW p \in 1..Len(log), NEW i \in 1..p, log[i].kind = "llm"
  PROVE  LET m == SelectLastInSubSeq(log, 1, p, LAMBDA e : e.kind = "llm")
         IN  m \in 1..p /\ \A k \in 1..p : log[k].kind = "llm" => k <= m
<1> DEFINE I == {k \in 1..p : log[k].kind = "llm"}
           m == Max(I)
<1>1. SelectLastInSubSeq(log, 1, p, LAMBDA e : e.kind = "llm") = m
  <2>1. I # {}
    OBVIOUS
  <2> QED
    BY <2>1 DEF SelectLastInSubSeq
<1>2. p \in Nat
  <2>1. log \in Seq(Events)
    BY DEF TypeInv
  <2> QED
    BY <2>1
<1>3. I \in SUBSET (0..p) /\ I # {}
  BY <1>2
<1>4. m \in I /\ \A k \in I : k <= m
  <2> HIDE DEF I
  <2>1. PICK x \in I : \A k \in I : k <= x
    BY <1>2, <1>3, GreatestNumber
  <2>2. \A k \in I : k \in Nat
    BY <1>2, <1>3
  <2>3. x \in I /\ \A k \in I : x >= k
    BY <2>1, <2>2
  <2> QED
    BY <2>2, <2>3 DEF Max
<1> HIDE DEF m
<1> QED
  BY <1>1, <1>4

(* No call of a completion is invoked twice, whatever crashes and resumes    *)
(* come between its intent and its result, and although an endpoint may give *)
(* the calls of another completion the same ids.                             *)
THEOREM InvokedOnce == Spec => []AtMostOnce
<1> DEFINE asked(p) == <<SelectLastInSubSeq(log, 1, p, LAMBDA e : e.kind = "llm"),
                         log[p].payload.id>>
<1>1. ASSUME TypeInv, InvokeInv, OnceInv, NEW k \in DOMAIN effects, NEW l \in DOMAIN effects,
             l < k
      PROVE  asked(effects[k]) # asked(effects[l])
  <2>1. effects[k] \in Nat /\ effects[l] \in Nat
    <3>1. effects \in Seq(Nat)
      BY <1>1 DEF TypeInv
    <3> QED
      BY <3>1
  <2> SUFFICES ASSUME NEW p \in Nat, NEW q \in Nat, p = effects[k], q = effects[l],
                      asked(p) = asked(q)
               PROVE  FALSE
    BY <2>1
  <2>2. Covered(p) /\ Covered(q) /\ q < p
    BY <1>1 DEF InvokeInv, Increasing
  <2>3. p \in 1..Len(log) /\ q \in 1..Len(log) /\ IsIntent(log[p]) /\ IsIntent(log[q])
    <3>1. kept \in 0..Len(log)
      BY <1>1 DEF TypeInv, TypeOK
    <3>2. log \in Seq(Events)
      BY <1>1 DEF TypeInv
    <3> QED
      BY <2>2, <3>1, <3>2 DEF Covered
  <2>4. PICK i \in 1..q - 1 : log[i].kind = "llm"
    BY <2>2 DEF Covered, Backed
  <2>5. i \in 1..q /\ i \in 1..p
    BY <2>2, <2>3
  <2> DEFINE m == SelectLastInSubSeq(log, 1, p, LAMBDA e : e.kind = "llm")
  <2>6. m \in 1..q
    <3>1. SelectLastInSubSeq(log, 1, q, LAMBDA e : e.kind = "llm") \in 1..q
      BY <1>1, <2>3, <2>4, <2>5, LastCompletion
    <3> QED
      BY <3>1
  <2>7. \A x \in 1..p : log[x].kind = "llm" => x <= m
    BY <1>1, <2>3, <2>4, <2>5, LastCompletion
  <2> HIDE DEF m
  <2>8. \A x \in q + 1..p - 1 : log[x].kind # "llm"
    <3>1. \A x \in q + 1..p - 1 : x \in 1..p /\ ~(x <= m)
      BY <2>6
    <3> QED
      BY <2>7, <3>1
  <2>9. log[q].payload.id # log[p].payload.id
    BY <1>1, <2>2, <2>3, <2>8 DEF OnceInv, NoneBetween, Indices
  <2> QED
    BY <2>9
<1>2. ASSUME TypeInv, InvokeInv, OnceInv PROVE AtMostOnce
  <2>1. ASSUME NEW k \in DOMAIN effects, NEW l \in DOMAIN effects,
               asked(effects[k]) = asked(effects[l])
        PROVE  k = l
    <3>1. k \in Nat /\ l \in Nat
      <4>1. effects \in Seq(Nat)
        BY <1>2 DEF TypeInv
      <4> QED
        BY <4>1
    <3>2. ~(l < k) /\ ~(k < l)
      BY <1>1, <1>2, <2>1
    <3> QED
      BY <3>1, <3>2
  <2> QED
    BY <2>1 DEF AtMostOnce
<1> QED
  BY <1>2, AgentInv, InvokesHold, OnceHolds, PTL

-----------------------------------------------------------------------------
(* Idempotency keys. The attempts in the keys of a process's intents are     *)
(* below its counter, which counts an invocation under way as made.          *)
Spent == IF pc = "invoke" THEN toolInvocations + 1 ELSE toolInvocations

KeyInv ==
  /\ KeysDistinct
  /\ OpenRun => \A k \in Indices :
                  IsIntent(log[k]) /\ NoneBetween(k, Len(log) + 1, {"run_start"})
                    => log[k].payload.key[3] < Spent

LEMMA SpentGrows ==
  ASSUME TypeInv, [Next]_vars, OpenRun, OpenRun'
  PROVE  /\ Spent \in Nat /\ Spent' \in Nat /\ Spent <= Spent'
         /\ pc' = "invoke" /\ log' # log => Spent' = toolInvocations + 1
<1>1. toolInvocations \in Nat
  BY DEF TypeInv, TypeOK
<1>2. \/ /\ toolInvocations' \in {toolInvocations, toolInvocations + 1}
         /\ pc # "invoke" /\ pc' # "invoke"
      \/ Invoke \/ Intent \/ UNCHANGED vars
  <2>1. CASE RunStart \/ BeginTurn \/ CallLLM \/ Answer \/ Finish \/ TurnEnd
    BY <2>1 DEF RunStart, BeginTurn, CallLLM, Answer, Finish, TurnEnd, AppendError, Exit,
                OpenRun, turnVars
  <2>2. CASE StopTurns \/ StopWallClock \/ StopTokens \/ StopTools \/ LLMFail
    BY <2>2 DEF StopTurns, StopWallClock, StopTokens, StopTools, Stop, LLMFail, turnVars
  <2>3. CASE DispatchUnknown \/ DispatchInvalid \/ RecordInvalid \/ Result
    BY <2>3 DEF DispatchUnknown, DispatchInvalid, RecordInvalid, Result, turnVars
  <2>4. CASE Launch \/ Load \/ ScanLine \/ ScanDone \/ BootstrapFail \/ End \/ Crash
    BY <2>4 DEF Launch, Load, ScanLine, ScanDone, BootstrapFail, End, Crash, Exit, OpenRun
  <2> QED
    BY <2>1, <2>2, <2>3, <2>4 DEF Next
<1>3. CASE Invoke
  BY <1>1, <1>3 DEF Invoke, Spent
<1>4. CASE Intent
  <2>1. pc = "dispatch" /\ pc' = "invoke" /\ toolInvocations' = toolInvocations
    BY <1>4 DEF Intent, AppendError, Exit, OpenRun, turnVars
  <2> QED
    BY <1>1, <2>1 DEF Spent
<1>5. CASE UNCHANGED vars
  BY <1>1, <1>5 DEF vars, logVars, turnVars, Spent
<1> QED
  BY <1>1, <1>2, <1>3, <1>4, <1>5 DEF Spent

LEMMA KeyStep ==
  ASSUME TypeInv, TypeInv', KeyInv, [Next]_vars
  PROVE  KeyInv'
<1>0. \A k \in Indices : IsIntent(log[k]) => log[k].payload.key[3] \in Nat
  <2>1. log \in Seq(Events)
    BY DEF TypeInv
  <2>2. ASSUME NEW k \in Indices, IsIntent(log[k]) PROVE log[k].payload.key[3] \in Nat
    <3>1. log[k] \in Events /\ log[k].kind = "tool"
      BY <2>1, <2>2 DEF Indices, IsIntent
    <3>2. log[k].payload.key \in Keys
      BY <3>1, EventParts DEF Tools
    <3> QED
      BY <3>2 DEF Keys
  <2> QED
    BY <2>2
<1>1. CASE LogUnchanged
  <2>1. KeysDistinct'
    BY <1>1 DEF LogUnchanged, KeyInv, KeysDistinct, Intents, OfProcess, Kinds, Indices, NoneBetween
  <2>2. ASSUME OpenRun', NEW k \in 1..Len(log), IsIntent(log[k]),
               \A x \in k + 1..(Len(log) + 1) - 1 : log[x].kind \notin {"run_start"}
        PROVE  log[k].payload.key[3] < Spent'
    <3>1. OpenRun
      BY <1>1, <2>2, Opened DEF LogUnchanged
    <3>2. log[k].payload.key[3] < Spent
      BY <2>2, <3>1 DEF KeyInv, NoneBetween, Indices
    <3>3. log[k].payload.key[3] \in Nat
      BY <1>0, <2>2 DEF Indices
    <3> QED
      BY <2>2, <3>1, <3>2, <3>3, SpentGrows
  <2> QED
    BY <1>1, <2>1, <2>2 DEF LogUnchanged, KeyInv, NoneBetween, Indices, IsIntent
<1>2. CASE Crash
  <2>1. /\ \A i \in 1..Len(log') : i \in 1..Len(log) /\ log'[i] = log[i]
        /\ Len(log') \in Nat /\ pc' = "down"
    BY <1>2, CutLog
  <2>2. \A i \in 1..Len(log') : \A k \in 1..i - 1 : k \in 1..Len(log')
    BY <2>1
  <2>3. ASSUME NEW i \in 1..Len(log'), NEW j \in 1..i - 1, IsIntent(log'[i]), IsIntent(log'[j]),
               \A k \in j + 1..i - 1 : log'[k].kind \notin {"run_start"}
        PROVE  log'[i].payload.key # log'[j].payload.key
    <3>1. /\ i \in 1..Len(log) /\ j \in 1..Len(log) /\ log'[i] = log[i] /\ log'[j] = log[j]
          /\ \A k \in j + 1..i - 1 : log[k].kind \notin {"run_start"}
      <4>1. \A k \in j + 1..i - 1 : k \in 1..i - 1
        OBVIOUS
      <4> QED
        BY <2>1, <2>2, <2>3, <4>1
    <3> QED
      BY <2>3, <3>1 DEF KeyInv, KeysDistinct, Intents, OfProcess, Kinds, Indices, NoneBetween, IsIntent
  <2>4. KeysDistinct'
    BY <2>3 DEF KeysDistinct, Intents, OfProcess, Kinds, Indices, NoneBetween, IsIntent
  <2> QED
    BY <2>1, <2>4 DEF KeyInv, OpenRun
<1>3. ASSUME NEW kind, NEW p, Adds(kind, p)
      PROVE  KeyInv'
  <2> DEFINE n == Len(log)
             e == NextEvent(kind, p)
  <2> HIDE DEF e
  <2>1. /\ Len(log') = n + 1 /\ n \in Nat /\ log'[n + 1] = e /\ log' # log
        /\ e.kind = kind /\ e.payload = p
        /\ \A i \in 1..n : log'[i] = log[i]
    <3>1. /\ Len(log') = n + 1 /\ n \in Nat /\ log'[n + 1] = e
          /\ e.kind = kind /\ e.payload = p
          /\ \A i \in 1..n : log'[i] = log[i]
      BY <1>3, AddedLog DEF NextEvent, Event, e
    <3> QED
      BY <3>1
  <2>2. \A i \in 1..n + 1 : i \in 1..n \/ i = n + 1
    BY <2>1
  <2>3. IsIntent(e) => /\ p.key[3] = toolInvocations /\ pc = "dispatch"
                       /\ pc' \in {"invoke", "down"}
    BY <1>3, <2>1 DEF Adds, Written, IsIntent, Key
  <2>4. kind # "run_start" => OpenRun
    BY <1>3 DEF Adds, Written, OpenRun
  <2>5. ASSUME NEW i \in 1..n + 1, NEW j \in 1..i - 1, IsIntent(log'[i]), IsIntent(log'[j]),
               \A k \in j + 1..i - 1 : log'[k].kind \notin {"run_start"}
        PROVE  log'[i].payload.key # log'[j].payload.key
    <3>1. j \in 1..n /\ log'[j] = log[j] /\ \A k \in j + 1..i - 1 : k \in 1..n
      BY <2>1
    <3>2. \A k \in j + 1..i - 1 : log[k].kind \notin {"run_start"}
      BY <2>1, <2>5, <3>1
    <3>3. CASE i \in 1..n
      <4>1. log'[i] = log[i] /\ IsIntent(log[i]) /\ IsIntent(log[j])
        BY <2>1, <2>5, <3>1, <3>3
      <4>2. i \in Intents /\ j \in Intents \cap OfProcess(i)
        BY <3>1, <3>2, <3>3, <4>1 DEF Intents, OfProcess, Kinds, Indices, NoneBetween, IsIntent
      <4> QED
        BY <3>1, <4>1, <4>2 DEF KeyInv, KeysDistinct
    <3>4. CASE i = n + 1
      <4>1. IsIntent(e) /\ log'[i].payload.key[3] = toolInvocations /\ pc = "dispatch"
        BY <2>1, <2>3, <2>5, <3>4
      <4>2. OpenRun /\ Spent = toolInvocations
        BY <4>1 DEF OpenRun, Spent
      <4>3. log[j].payload.key[3] < toolInvocations
        BY <2>1, <2>5, <3>1, <3>2, <3>4, <4>2 DEF KeyInv, NoneBetween, Indices
      <4>4. log[j].payload.key[3] \in Nat /\ toolInvocations \in Nat
        BY <1>0, <2>5, <3>1 DEF TypeInv, TypeOK, Indices
      <4>5. log'[j].payload.key[3] # log'[i].payload.key[3]
        BY <3>1, <4>1, <4>3, <4>4
      <4> QED
        BY <4>5
    <3> QED
      BY <2>2, <3>3, <3>4
  <2>6. KeysDistinct'
    BY <2>1, <2>5 DEF KeysDistinct, Intents, OfProcess, Kinds, Indices, NoneBetween, IsIntent
  <2>7. ASSUME OpenRun', NEW k \in 1..n + 1, IsIntent(log'[k]),
               \A x \in k + 1..n + 1 : log'[x].kind \notin {"run_start"}
        PROVE  log'[k].payload.key[3] < Spent'
    <3>1. CASE k \in 1..n
      <4>1. kind # "run_start"
        BY <2>1, <2>7, <3>1
      <4>2. \A x \in k + 1..n : log[x].kind \notin {"run_start"}
        BY <2>1, <2>7, <3>1
      <4>3. log[k].payload.key[3] < Spent /\ log[k].payload.key[3] \in Nat
        BY <1>0, <2>1, <2>4, <2>7, <3>1, <4>1, <4>2 DEF KeyInv, NoneBetween, Indices
      <4>4. Spent \in Nat /\ Spent' \in Nat /\ Spent <= Spent'
        BY <2>4, <2>7, <4>1, SpentGrows
      <4> QED
        BY <2>1, <3>1, <4>3, <4>4
    <3>2. CASE k = n + 1
      <4>1. p.key[3] = toolInvocations /\ pc = "dispatch" /\ pc' = "invoke"
        BY <2>1, <2>3, <2>7, <3>2 DEF OpenRun
      <4>2. Spent' = toolInvocations + 1 /\ toolInvocations \in Nat
        BY <2>1, <2>7, <4>1, SpentGrows DEF OpenRun, TypeInv, TypeOK
      <4> QED
        BY <2>1, <3>2, <4>1, <4>2
    <3> QED
      BY <2>2, <3>1, <3>2
  <2>8. (n + 1) + 1 - 1 = n + 1
    BY <2>1
  <2> QED
    BY <2>1, <2>6, <2>7, <2>8 DEF KeyInv, NoneBetween, Indices, IsIntent
<1> QED
  BY <1>1, <1>2, <1>3, LogStep

(* Two intents of one process have two idempotency keys, although the        *)
(* endpoint may give the calls of two turns the same id.                     *)
THEOREM KeysNeverReused == Spec => []KeysDistinct
<1>1. Init => KeyInv
  <2> SUFFICES ASSUME Init PROVE KeyInv
    OBVIOUS
  <2>1. log = << >> /\ pc = "down"
    BY DEF Init
  <2> QED
    BY <2>1 DEF KeyInv, KeysDistinct, Intents, Kinds, Indices, OpenRun
<1>2. TypeInv /\ TypeInv' /\ KeyInv /\ [Next]_vars => KeyInv'
  BY KeyStep
<1>3. KeyInv => KeysDistinct
  BY DEF KeyInv
<1> QED
  BY <1>1, <1>2, <1>3, AgentInv, PTL DEF Spec

-----------------------------------------------------------------------------
(* Closed turns. Record i closes the turn of completion j; the calls of it   *)
(* are answered before.                                                      *)
Closes(i, j) == /\ log[i].kind = "turn_end" /\ log[j].kind = "llm"
                /\ NoneBetween(j, i, {"turn", "run_start"})

AnsweredBy(i, j) ==
  \A x \in 1..Len(Asked(j)) :
    \/ Asked(j)[x].args = "malformed"
    \/ \E k \in j + 1..i - 1 : Terminal(log[k]) /\ log[k].payload.id = Asked(j)[x].id

ClosedInv == \A i \in Indices : \A j \in 1..i - 1 : Closes(i, j) => AnsweredBy(i, j)

LEMMA ClosedStays ==
  ASSUME ClosedInv, NEW i \in Nat, i \in Indices, NEW j \in 1..i - 1,
         \A k \in 1..i : log'[k] = log[k], Closes(i, j)'
  PROVE  AnsweredBy(i, j)'
<1>1. log'[i] = log[i] /\ log'[j] = log[j] /\ \A k \in j + 1..i - 1 : log'[k] = log[k]
  OBVIOUS
<1>2. Closes(i, j)
  BY <1>1 DEF Closes, NoneBetween
<1>3. AnsweredBy(i, j)
  BY <1>2 DEF ClosedInv
<1> QED
  BY <1>1, <1>3 DEF AnsweredBy, Asked, Terminal

(* When turn_end is written, the calls of the turn's completion are answered.*)
LEMMA TurnEndAnswered ==
  ASSUME TypeInv, TypeInv', ServeInv, [Next]_vars, NEW p, Adds("turn_end", p),
         NEW j \in 1..Len(log), log[j].kind = "llm",
         \A k \in j + 1..Len(log) : log[k].kind \notin {"turn", "run_start"}
  PROVE  AnsweredFor(j, Len(Asked(j)))
<1> DEFINE n == Len(log)
<1>1. /\ pc = "dispatch" /\ calls = << >> /\ Len(log') = n + 1 /\ n \in Nat
  BY AddedLog DEF Adds, Written
<1>2. ~broken
  <2>1. TurnEnd \/ Crash \/ UNCHANGED vars
    BY <1>1 DEF Next, Launch, Load, ScanLine, ScanDone, BootstrapFail, RunStart, StopTurns,
       StopWallClock, StopTokens, StopTools, Stop, BeginTurn, CallLLM, LLMFail, Answer,
       DispatchUnknown, DispatchInvalid, RecordInvalid, Intent, Invoke, Result, Finish, End
  <2>2. ~Crash
    <3>1. Crash => Len(log') <= n
      BY CutLog
    <3> QED
      BY <1>1, <3>1
  <2>3. log' # log
    BY <1>1
  <2>4. TurnEnd
    BY <2>1, <2>2, <2>3 DEF vars, logVars
  <2> QED
    BY <2>3, <2>4 DEF TurnEnd, AppendError, LeftByFailure, Appended
<1>3. PICK m \in Nat : \E d \in Nat : Serving(m, d)
  BY <1>1 DEF ServeInv, DispatchStages, InTurnStages
<1>4. PICK d \in Nat : Serving(m, d)
  BY <1>3
<1>5. m \in 1..n /\ log[m].kind = "llm"
  BY <1>4 DEF Serving, LastAsk
<1>6. j = m
  <2>1. ~(j \in m + 1..n)
    BY <1>4 DEF Serving, LastAsk
  <2>2. ~(j \in 1..m - 1)
    <3> SUFFICES ASSUME j \in 1..m - 1 PROVE FALSE
      OBVIOUS
    <3>1. PICK k \in j + 1..m - 1 : log[k].kind \in {"turn", "run_start"}
      BY <1>4 DEF Serving, LastAsk
    <3>2. k \in j + 1..n
      BY <1>1, <1>5
    <3> QED
      BY <3>1, <3>2
  <2> QED
    BY <1>1, <1>5, <2>1, <2>2
<1>7. Asked(m) \in Seq(ToolCalls)
  <2>1. log \in Seq(Events)
    BY DEF TypeInv
  <2>2. log[m] \in Events
    BY <1>5, <2>1
  <2>3. log[m].payload.msg \in Messages
    BY <1>5, <2>2, EventParts DEF LLMs
  <2> QED
    BY <2>3 DEF Messages, Asked
<1>8. d = Len(Asked(m))
  <2> DEFINE a == Asked(m)
  <2>1. SubSeq(a, d + 1, Len(a)) = << >> /\ d \in 0..Len(a)
    BY <1>1, <1>4 DEF Serving
  <2>2. a \in Seq(ToolCalls)
    BY <1>7
  <2> HIDE DEF a
  <2>3. Len(a) \in Nat
    BY <2>2
  <2>4. CASE d < Len(a)
    <3>1. Len(SubSeq(a, d + 1, Len(a))) = Len(a) - d
      BY <2>1, <2>2, <2>3, <2>4, SubSeqProperties
    <3>2. Len(SubSeq(a, d + 1, Len(a))) = 0
      BY <2>1, EmptySeq
    <3> QED
      BY <2>3, <2>4, <3>1, <3>2
  <2>5. CASE d = Len(a)
    BY <2>5 DEF a
  <2> QED
    BY <2>1, <2>3, <2>4, <2>5
<1> QED
  BY <1>2, <1>4, <1>6, <1>8 DEF Serving

LEMMA ClosedStep ==
  ASSUME TypeInv, TypeInv', ServeInv, ClosedInv, [Next]_vars
  PROVE  ClosedInv'
<1>1. CASE LogUnchanged
  <2>1. Len(log') \in Nat
    <3>1. log' \in Seq(Events)
      BY DEF TypeInv
    <3> QED
      BY <3>1
  <2>2. ASSUME NEW i \in 1..Len(log'), NEW j \in 1..i - 1, Closes(i, j)'
        PROVE  AnsweredBy(i, j)'
    <3>1. i \in Nat /\ i \in Indices /\ \A k \in 1..i : log'[k] = log[k]
      BY <1>1, <2>1 DEF Indices, LogUnchanged
    <3> QED
      BY <2>2, <3>1, ClosedStays
  <2> QED
    BY <2>2 DEF ClosedInv, Indices
<1>2. CASE Crash
  <2>1. /\ \A i \in 1..Len(log') : i \in 1..Len(log) /\ log'[i] = log[i]
        /\ Len(log') \in Nat
    BY <1>2, CutLog
  <2>2. ASSUME NEW i \in 1..Len(log'), NEW j \in 1..i - 1, Closes(i, j)'
        PROVE  AnsweredBy(i, j)'
    <3>1. i \in Nat /\ i \in Indices /\ \A k \in 1..i : log'[k] = log[k]
      BY <2>1 DEF Indices
    <3> QED
      BY <2>2, <3>1, ClosedStays
  <2> QED
    BY <2>2 DEF ClosedInv, Indices
<1>3. ASSUME NEW kind, NEW p, Adds(kind, p)
      PROVE  ClosedInv'
  <2> DEFINE n == Len(log)
  <2>1. /\ Len(log') = n + 1 /\ n \in Nat /\ log'[n + 1].kind = kind
        /\ \A i \in 1..n : log'[i] = log[i]
    <3>1. NextEvent(kind, p).kind = kind
      BY DEF NextEvent, Event
    <3> QED
      BY <1>3, <3>1, AddedLog
  <2>2. ASSUME NEW i \in 1..n + 1, NEW j \in 1..i - 1, Closes(i, j)'
        PROVE  AnsweredBy(i, j)'
    <3>1. CASE i \in 1..n
      <4>1. i \in Nat /\ i \in Indices /\ \A k \in 1..i : log'[k] = log[k]
        BY <2>1, <3>1 DEF Indices
      <4> QED
        BY <2>2, <4>1, ClosedStays
    <3>2. CASE i = n + 1
      <4>1. /\ j \in 1..n /\ log'[j] = log[j] /\ j + 1..i - 1 = j + 1..n
            /\ \A k \in j + 1..n : k \in 1..n /\ log'[k] = log[k]
        BY <2>1, <3>2
      <4>2. /\ kind = "turn_end" /\ log[j].kind = "llm"
            /\ \A k \in j + 1..n : log[k].kind \notin {"turn", "run_start"}
        BY <2>1, <2>2, <3>2, <4>1 DEF Closes, NoneBetween
      <4>3. AnsweredFor(j, Len(Asked(j)))
        BY <1>3, <4>1, <4>2, TurnEndAnswered
      <4>4. Asked(j)' = Asked(j)
        BY <4>1 DEF Asked
      <4> QED
        BY <4>1, <4>3, <4>4 DEF AnsweredFor, AnsweredBy, Terminal
    <3> QED
      BY <2>1, <3>1, <3>2
  <2> QED
    BY <2>1, <2>2 DEF ClosedInv, Indices
<1> QED
  BY <1>1, <1>2, <1>3, LogStep

(* A turn closed by turn_end has a terminal record for every call of its     *)
(* completion but those whose arguments are not JSON, which no record can    *)
(* hold: a lost append would have kept turn_end out of the log as well.      *)
THEOREM ClosedHolds == Spec => []ClosedInv
<1>1. Init => ClosedInv
  <2> SUFFICES ASSUME Init PROVE ClosedInv
    OBVIOUS
  <2>1. log = << >>
    BY DEF Init
  <2> QED
    BY <2>1 DEF ClosedInv, Indices
<1>2. TypeInv /\ TypeInv' /\ ServeInv /\ ClosedInv /\ [Next]_vars => ClosedInv'
  BY ClosedStep
<1> QED
  BY <1>1, <1>2, AgentInv, ServesHold, PTL DEF Spec

(* The endpoint makes calls with JSON for arguments only.                    *)
JSONOnly == \A r \in Responses : \A x \in 1..Len(r.calls) : r.calls[x].args # "malformed"

AllJSON(e) == e.kind = "llm" => \A x \in 1..Len(e.payload.msg.calls) :
                                  e.payload.msg.calls[x].args # "malformed"
JSONInv == \A i \in Indices : AllJSON(log[i])

LEMMA AllJSONStep ==
  ASSUME JSONOnly, TypeInv, TypeInv', JSONInv, [Next]_vars
  PROVE  JSONInv'
<1>1. CASE LogUnchanged
  BY <1>1 DEF LogUnchanged, Indices, AllJSON, JSONInv
<1>2. CASE Crash
  <2>1. \A i \in 1..Len(log') : i \in 1..Len(log) /\ log'[i] = log[i]
    BY <1>2, CutLog
  <2> QED
    BY <2>1 DEF Indices, AllJSON, JSONInv
<1>3. ASSUME NEW kind, NEW p, Adds(kind, p)
      PROVE  \A i \in 1..Len(log') : AllJSON(log'[i])
  <2> DEFINE n == Len(log)
             e == NextEvent(kind, p)
  <2> HIDE DEF e
  <2>1. /\ Len(log') = n + 1 /\ n \in Nat /\ log'[n + 1] = e
        /\ e.kind = kind /\ e.payload = p
        /\ \A i \in 1..n : log'[i] = log[i]
    BY <1>3, AddedLog DEF NextEvent, Event, e
  <2>2. AllJSON(e)
    <3> SUFFICES ASSUME kind = "llm" PROVE AllJSON(e)
      BY <2>1 DEF AllJSON
    <3>1. PICK r \in Responses : p = LLMPayload(turnNumber, r.tokens, Completion(r))
      BY <1>3 DEF Adds, Written
    <3>2. e.payload.msg = Completion(r)
      BY <2>1, <3>1 DEF LLMPayload
    <3>3. /\ Len(Completion(r).calls) = Len(r.calls)
          /\ \A x \in 1..Len(r.calls) : Completion(r).calls[x].args = r.calls[x].args
      <4>1. Len(Completion(r).calls) = Len(r.calls)
        BY CompletionTyped
      <4>2. \A x \in 1..Len(r.calls) : Completion(r).calls[x].args = r.calls[x].args
        BY DEF Completion, Assistant
      <4> QED
        BY <4>1, <4>2
    <3> QED
      BY <3>2, <3>3 DEF AllJSON, JSONOnly
  <2> QED
    BY <2>1, <2>2 DEF Indices, JSONInv
<1> QED
  BY <1>1, <1>2, <1>3, LogStep DEF Indices, JSONInv

(* So are those of the calls in the log.                                     *)
THEOREM CallsAreJSON ==
  ASSUME JSONOnly
  PROVE  Spec => []JSONInv
<1>1. Init => JSONInv
  <2> SUFFICES ASSUME Init PROVE JSONInv
    OBVIOUS
  <2>1. log = << >>
    BY DEF Init
  <2> QED
    BY <2>1 DEF Indices, JSONInv
<1>2. TypeInv /\ TypeInv' /\ JSONInv /\ [Next]_vars => JSONInv'
  BY AllJSONStep
<1> QED
  BY <1>1, <1>2, AgentInv, PTL DEF Spec

(* And where the endpoint makes calls with JSON for arguments only, for      *)
(* every call.                                                               *)
THEOREM TurnsClosedAnswered ==
  ASSUME JSONOnly
  PROVE  Spec => []ClosedTurnAnswered
<1>1. TypeInv /\ JSONInv /\ ClosedInv => ClosedTurnAnswered
  <2> SUFFICES ASSUME TypeInv, JSONInv, ClosedInv,
                      NEW i \in Kinds({"turn_end"}), NEW j \in Kinds({"llm"}),
                      j < i, NoneBetween(j, i, {"turn", "run_start"}),
                      NEW c \in ToSet(log[j].payload.msg.calls)
               PROVE  \E k \in j + 1..i - 1 : Terminal(log[k]) /\ log[k].payload.id = c.id
    BY DEF ClosedTurnAnswered
  <2>1. log \in Seq(Events) /\ i \in 1..Len(log) /\ j \in 1..Len(log) /\ log[j].kind = "llm"
    BY DEF TypeInv, Kinds, Indices
  <2>2. Asked(j) \in Seq(ToolCalls)
    <3>1. log[j] \in Events
      BY <2>1
    <3>2. log[j].payload.msg \in Messages
      BY <2>1, <3>1, EventParts DEF LLMs
    <3> QED
      BY <3>2 DEF Messages, Asked
  <2>3. PICK x \in 1..Len(Asked(j)) : c = Asked(j)[x]
    BY <2>2 DEF ToSet, Asked
  <2>4. c.args # "malformed"
    BY <2>1, <2>3 DEF JSONInv, AllJSON, Indices, Asked
  <2>5. j \in 1..i - 1 /\ Closes(i, j)
    BY <2>1 DEF Closes, Kinds
  <2> QED
    BY <2>1, <2>3, <2>4, <2>5 DEF ClosedInv, AnsweredBy, Indices
<1> QED
  BY <1>1, AgentInv, CallsAreJSON, ClosedHolds, PTL

-----------------------------------------------------------------------------
(* The sum MapThenSumSet makes of the tokens that the records of a log with  *)
(* positions in T name: nothing of none, one record's more with one record   *)
(* more, and the same in every log that has these records.                   *)
TokensOf(s, T) == MapThenSumSet(LAMBDA k : s[k].payload.tokens, T)

Counted(s, T) == \A x \in T : s[x].payload.tokens \in Nat

SumOfTokens(s, T, g, v) == /\ IsSum(g, v, T) /\ TokensOf(s, T) = g[T]
                           /\ \A x \in T : v[x] = s[x].payload.tokens
Summed(s, T) == \E g \in [SUBSET T -> Nat] : \E v \in [T -> Nat] : SumOfTokens(s, T, g, v)

LEMMA TokensAreSum ==
  ASSUME NEW S, IsFiniteSet(S), NEW s, Counted(s, S)
  PROVE  Summed(s, S)
<1> DEFINE v == [x \in S |-> s[x].payload.tokens]
           it == CHOOSE g : g = [T \in SUBSET S |->
                                  IF T = {} THEN 0
                                  ELSE s[Pick(T)].payload.tokens + g[T \ {Pick(T)}]]
<1>1. v \in [S -> Nat]
  BY DEF Counted
<1>2. PICK g \in [SUBSET S -> Nat] : IsSum(g, v, S)
  <2> HIDE DEF v
  <2> QED
    BY <1>1, SumExists
<1>3. ASSUME NEW T \in SUBSET S, T # {} PROVE v[Pick(T)] = s[Pick(T)].payload.tokens
  BY <1>3, PickIn
<1>4. g = [T \in SUBSET S |-> IF T = {} THEN 0 ELSE s[Pick(T)].payload.tokens + g[T \ {Pick(T)}]]
  <2>1. \A T \in SUBSET S : SumStep(g, v, T) = IF T = {} THEN 0
                                              ELSE s[Pick(T)].payload.tokens + g[T \ {Pick(T)}]
    BY <1>3 DEF SumStep
  <2> HIDE DEF v
  <2> QED
    BY <1>2, <2>1 DEF IsSum
<1>5. it = [T \in SUBSET S |-> IF T = {} THEN 0 ELSE s[Pick(T)].payload.tokens + it[T \ {Pick(T)}]]
  BY <1>4
<1> HIDE DEF it
<1>6. IsSum(it, v, S)
  <2>1. \A T \in SUBSET S : SumStep(it, v, T) = IF T = {} THEN 0
                                               ELSE s[Pick(T)].payload.tokens + it[T \ {Pick(T)}]
    BY <1>3 DEF SumStep
  <2> HIDE DEF v
  <2> QED
    BY <1>5, <2>1 DEF IsSum
<1>7. TokensOf(s, S) = it[S]
  BY DEF TokensOf, MapThenSumSet, MapThenFoldSet, Pick, it
<1>8. it[S] = g[S]
  <2> HIDE DEF v
  <2>1. S \in SUBSET (S \cap S)
    OBVIOUS
  <2> QED
    BY <1>2, <1>6, <2>1, SumsAgree
<1>9. \A x \in S : v[x] = s[x].payload.tokens
  OBVIOUS
<1> HIDE DEF v
<1> QED
  BY <1>1, <1>2, <1>7, <1>8, <1>9 DEF Summed, SumOfTokens

LEMMA TokensOfNone ==
  ASSUME NEW s
  PROVE  TokensOf(s, {}) = 0
<1>1. Summed(s, {})
  BY TokensAreSum, FS_EmptySet DEF Counted
<1>2. PICK g \in [SUBSET {} -> Nat], v \in [{} -> Nat] : SumOfTokens(s, {}, g, v)
  BY <1>1 DEF Summed
<1> QED
  BY <1>2 DEF SumOfTokens, IsSum, SumStep

LEMMA TokensOfMore ==
  ASSUME NEW s, NEW T, IsFiniteSet(T), NEW x, x \notin T, Counted(s, T \cup {x})
  PROVE  TokensOf(s, T \cup {x}) = s[x].payload.tokens + TokensOf(s, T)
<1> DEFINE U == T \cup {x}
<1>0. IsFiniteSet(U) /\ x \in U /\ U \ {x} = T /\ Counted(s, U) /\ Counted(s, T)
  BY FS_AddElement DEF Counted
<1> HIDE DEF U
<1>1. Summed(s, U) /\ Summed(s, T)
  BY <1>0, TokensAreSum
<1>2. PICK g \in [SUBSET U -> Nat], v \in [U -> Nat] : SumOfTokens(s, U, g, v)
  BY <1>1 DEF Summed
<1>3. PICK h \in [SUBSET T -> Nat], w \in [T -> Nat] : SumOfTokens(s, T, h, w)
  BY <1>1 DEF Summed
<1>4. g[U] = v[x] + g[T]
  <2>1. IsSum(g, v, U)
    BY <1>2 DEF SumOfTokens
  <2>2. IsFiniteSet(U) /\ x \in U
    BY <1>0
  <2>3. Weighed(g, v, U)
    BY <2>1, <2>2 DEF Weighed
  <2>4. Taken(g, v, U)
    BY <2>3, SumTakes
  <2> QED
    BY <1>0, <2>4 DEF Taken
<1>5. g[T] = h[T]
  <2>1. IsSum(g, v, U) /\ IsSum(h, w, T) /\ \A y \in T : v[y] = w[y]
    BY <1>0, <1>2, <1>3 DEF SumOfTokens
  <2>2. T \in SUBSET (U \cap T)
    BY <1>0
  <2> QED
    BY <1>0, <2>1, <2>2, SumsAgree
<1> QED
  BY <1>0, <1>2, <1>3, <1>4, <1>5 DEF U, SumOfTokens

LEMMA TokensOfSame ==
  ASSUME NEW s, NEW t, NEW T, IsFiniteSet(T), \A y \in T : t[y] = s[y], Counted(s, T)
  PROVE  TokensOf(t, T) = TokensOf(s, T) /\ TokensOf(s, T) \in Nat
<1>1. Counted(t, T)
  BY DEF Counted
<1>2. Summed(s, T) /\ Summed(t, T)
  BY <1>1, TokensAreSum
<1>3. PICK g \in [SUBSET T -> Nat], v \in [T -> Nat] : SumOfTokens(s, T, g, v)
  BY <1>2 DEF Summed
<1>4. PICK h \in [SUBSET T -> Nat], w \in [T -> Nat] : SumOfTokens(t, T, h, w)
  BY <1>2 DEF Summed
<1>5. g[T] = h[T]
  <2>1. IsSum(g, v, T) /\ IsSum(h, w, T) /\ \A y \in T : v[y] = w[y]
    BY <1>3, <1>4 DEF SumOfTokens
  <2>2. T \in SUBSET (T \cap T)
    OBVIOUS
  <2> QED
    BY <2>1, <2>2, SumsAgree
<1> QED
  BY <1>3, <1>4, <1>5 DEF SumOfTokens

LEMMA FiniteSpan ==
  ASSUME NEW s \in Nat, NEW i \in Nat, NEW T \in SUBSET (s + 1..i - 1)
  PROVE  IsFiniteSet(T) /\ Cardinality(T) \in Nat
<1>1. IsFiniteSet(s + 1..i - 1)
  BY FS_Interval
<1> QED
  BY <1>1, FS_Subset, FS_CardinalityType

(* Of a log l, the records between s and i: those of a kind, and those that  *)
(* answer a call; how many turns and answers they are and what tokens the    *)
(* completions used.                                                         *)
KindIn(l, s, i, kind) == {k \in s + 1..i - 1 : l[k].kind = kind}
AnswersIn(l, s, i) == {k \in s + 1..i - 1 : Terminal(l[k])}

TurnsTaken(l, s, i)  == Cardinality(KindIn(l, s, i, "turn"))
TokensUsed(l, s, i)  == TokensOf(l, KindIn(l, s, i, "llm"))
CallsAnswered(l, s, i) == Cardinality(AnswersIn(l, s, i))

(* Record s is the run_start of the process record i is of.                  *)
Opens(l, s, i) == /\ l[s].kind = "run_start"
                  /\ \A k \in s + 1..i - 1 : l[k].kind # "run_start"

LEMMA TokensCounted ==
  ASSUME NEW l \in Seq(Events), NEW i \in 1..Len(l) + 1, NEW s \in 1..i
  PROVE  /\ IsFiniteSet(KindIn(l, s, i, "llm"))
         /\ Counted(l, KindIn(l, s, i, "llm"))
<1>1. i \in Nat /\ s \in Nat /\ KindIn(l, s, i, "llm") \in SUBSET (s + 1..i - 1)
  BY DEF KindIn
<1>2. ASSUME NEW k \in KindIn(l, s, i, "llm") PROVE l[k].payload.tokens \in Nat
  <2>1. l[k] \in Events /\ l[k].kind = "llm"
    BY DEF KindIn
  <2> QED
    BY <2>1, EventParts DEF LLMs
<1> QED
  BY <1>1, <1>2, FiniteSpan DEF Counted

LEMMA SpanTyped ==
  ASSUME NEW l \in Seq(Events), NEW i \in 1..Len(l) + 1, NEW s \in 1..i
  PROVE  /\ TurnsTaken(l, s, i) \in Nat /\ TokensUsed(l, s, i) \in Nat
         /\ CallsAnswered(l, s, i) \in Nat
<1>1. /\ i \in Nat /\ s \in Nat /\ KindIn(l, s, i, "turn") \in SUBSET (s + 1..i - 1)
      /\ AnswersIn(l, s, i) \in SUBSET (s + 1..i - 1)
  BY DEF KindIn, AnswersIn
<1>2. TokensUsed(l, s, i) \in Nat
  BY TokensCounted, TokensOfSame DEF TokensUsed
<1> QED
  BY <1>1, <1>2, FiniteSpan DEF TurnsTaken, CallsAnswered

(* A log that has the same records there.                                    *)
LEMMA SpanSame ==
  ASSUME NEW l \in Seq(Events), NEW m \in Seq(Events), NEW i \in 1..Len(l) + 1, NEW s \in 1..i,
         \A k \in 1..i - 1 : m[k] = l[k]
  PROVE  /\ TurnsTaken(m, s, i) = TurnsTaken(l, s, i)
         /\ TokensUsed(m, s, i) = TokensUsed(l, s, i)
         /\ CallsAnswered(m, s, i) = CallsAnswered(l, s, i)
<1>1. \A k \in s + 1..i - 1 : m[k] = l[k]
  OBVIOUS
<1>2. /\ KindIn(m, s, i, "turn") = KindIn(l, s, i, "turn")
      /\ KindIn(m, s, i, "llm") = KindIn(l, s, i, "llm")
      /\ AnswersIn(m, s, i) = AnswersIn(l, s, i)
  BY <1>1 DEF KindIn, AnswersIn
<1>3. TokensUsed(m, s, i) = TokensUsed(l, s, i)
  <2> DEFINE T == KindIn(l, s, i, "llm")
  <2>1. IsFiniteSet(T) /\ Counted(l, T)
    BY TokensCounted
  <2>2. \A k \in T : m[k] = l[k]
    BY <1>1 DEF KindIn
  <2> HIDE DEF T
  <2>3. TokensOf(m, T) = TokensOf(l, T)
    BY <2>1, <2>2, TokensOfSame
  <2> QED
    BY <1>2, <2>3 DEF TokensUsed, T
<1> QED
  BY <1>2, <1>3 DEF TurnsTaken, CallsAnswered

LEMMA SpanNone ==
  ASSUME NEW l \in Seq(Events), NEW s \in Nat
  PROVE  /\ TurnsTaken(l, s, s + 1) = 0
         /\ TokensUsed(l, s, s + 1) = 0
         /\ CallsAnswered(l, s, s + 1) = 0
<1>1. s + 1..(s + 1) - 1 = {}
  OBVIOUS
<1>2. /\ KindIn(l, s, s + 1, "turn") = {} /\ KindIn(l, s, s + 1, "llm") = {}
      /\ AnswersIn(l, s, s + 1) = {}
  BY <1>1 DEF KindIn, AnswersIn
<1> QED
  BY <1>2, FS_EmptySet, TokensOfNone DEF TurnsTaken, TokensUsed, CallsAnswered

(* One record more.                                                          *)
LEMMA SpanMore ==
  ASSUME NEW l \in Seq(Events), NEW i \in 1..Len(l), NEW s \in 1..i - 1
  PROVE  /\ TurnsTaken(l, s, i + 1) = TurnsTaken(l, s, i) + (IF l[i].kind = "turn" THEN 1 ELSE 0)
         /\ TokensUsed(l, s, i + 1) = TokensUsed(l, s, i)
                                       + (IF l[i].kind = "llm" THEN l[i].payload.tokens ELSE 0)
         /\ CallsAnswered(l, s, i + 1) = CallsAnswered(l, s, i)
                                          + (IF Terminal(l[i]) THEN 1 ELSE 0)
<1>0. /\ i \in Nat /\ s \in Nat /\ i \in 1..Len(l) + 1 /\ s \in 1..i /\ i + 1 \in 1..Len(l) + 1
      /\ s \in 1..i + 1
  OBVIOUS
<1>1. s + 1..(i + 1) - 1 = (s + 1..i - 1) \cup {i} /\ i \notin s + 1..i - 1
  BY <1>0
<1>2. /\ KindIn(l, s, i + 1, "turn") = IF l[i].kind = "turn" THEN KindIn(l, s, i, "turn") \cup {i}
                                                         ELSE KindIn(l, s, i, "turn")
      /\ KindIn(l, s, i + 1, "llm") = IF l[i].kind = "llm" THEN KindIn(l, s, i, "llm") \cup {i}
                                                        ELSE KindIn(l, s, i, "llm")
      /\ AnswersIn(l, s, i + 1) = IF Terminal(l[i]) THEN AnswersIn(l, s, i) \cup {i}
                                              ELSE AnswersIn(l, s, i)
  BY <1>1 DEF KindIn, AnswersIn
<1>3. /\ i \notin KindIn(l, s, i, "turn") /\ i \notin KindIn(l, s, i, "llm")
      /\ i \notin AnswersIn(l, s, i)
  BY <1>1 DEF KindIn, AnswersIn
<1>4. /\ KindIn(l, s, i, "turn") \in SUBSET (s + 1..i - 1)
      /\ AnswersIn(l, s, i) \in SUBSET (s + 1..i - 1)
  BY DEF KindIn, AnswersIn
<1>5. /\ IsFiniteSet(KindIn(l, s, i, "turn")) /\ Cardinality(KindIn(l, s, i, "turn")) \in Nat
      /\ IsFiniteSet(AnswersIn(l, s, i)) /\ Cardinality(AnswersIn(l, s, i)) \in Nat
  BY <1>0, <1>4, FiniteSpan
<1>6. TurnsTaken(l, s, i + 1) = TurnsTaken(l, s, i) + (IF l[i].kind = "turn" THEN 1 ELSE 0)
  <2> DEFINE T == KindIn(l, s, i, "turn")
             U == KindIn(l, s, i + 1, "turn")
             b == l[i].kind = "turn"
  <2>1. /\ i \notin T /\ U = (IF b THEN T \cup {i} ELSE T)
        /\ IsFiniteSet(T) /\ Cardinality(T) \in Nat
    BY <1>2, <1>3, <1>5
  <2> HIDE DEF T, U, b
  <2>2. CASE b
    <3>1. Cardinality(U) = Cardinality(T) + 1
      BY <2>1, <2>2, FS_AddElement
    <3> QED
      BY <2>2, <3>1 DEF TurnsTaken, T, U, b
  <2>3. CASE ~b
    <3>1. Cardinality(U) = Cardinality(T) + 0
      BY <2>1, <2>3
    <3> QED
      BY <2>3, <3>1 DEF TurnsTaken, T, U, b
  <2> QED
    BY <2>2, <2>3
<1>7. CallsAnswered(l, s, i + 1) = CallsAnswered(l, s, i) + (IF Terminal(l[i]) THEN 1 ELSE 0)
  <2> DEFINE T == AnswersIn(l, s, i)
             U == AnswersIn(l, s, i + 1)
             b == Terminal(l[i])
  <2>1. /\ i \notin T /\ U = (IF b THEN T \cup {i} ELSE T)
        /\ IsFiniteSet(T) /\ Cardinality(T) \in Nat
    BY <1>2, <1>3, <1>5
  <2> HIDE DEF T, U, b
  <2>2. CASE b
    <3>1. Cardinality(U) = Cardinality(T) + 1
      BY <2>1, <2>2, FS_AddElement
    <3> QED
      BY <2>2, <3>1 DEF CallsAnswered, T, U, b
  <2>3. CASE ~b
    <3>1. Cardinality(U) = Cardinality(T) + 0
      BY <2>1, <2>3
    <3> QED
      BY <2>3, <3>1 DEF CallsAnswered, T, U, b
  <2> QED
    BY <2>2, <2>3
<1>8. TokensUsed(l, s, i + 1) = TokensUsed(l, s, i)
                                 + (IF l[i].kind = "llm" THEN l[i].payload.tokens ELSE 0)
  <2> DEFINE T == KindIn(l, s, i, "llm")
             U == KindIn(l, s, i + 1, "llm")
  <2>1. IsFiniteSet(T) /\ Counted(l, T) /\ Counted(l, U)
    BY <1>0, TokensCounted
  <2>2. TokensOf(l, T) \in Nat
    BY <2>1, TokensOfSame
  <2>3. i \notin T /\ U = IF l[i].kind = "llm" THEN T \cup {i} ELSE T
    BY <1>2, <1>3
  <2> HIDE DEF T, U
  <2>4. CASE l[i].kind = "llm"
    <3>1. U = T \cup {i} /\ i \in U
      BY <2>3, <2>4
    <3>2. TokensOf(l, U) = l[i].payload.tokens + TokensOf(l, T)
      BY <2>1, <2>3, <3>1, TokensOfMore
    <3>3. l[i].payload.tokens \in Nat
      BY <2>1, <3>1 DEF Counted
    <3>4. TokensOf(l, U) = TokensOf(l, T) + l[i].payload.tokens
      BY <2>2, <3>2, <3>3
    <3> QED
      BY <2>4, <3>4 DEF TokensUsed, T, U
  <2>5. CASE l[i].kind # "llm"
    <3>1. TokensOf(l, U) = TokensOf(l, T) + 0
      BY <2>2, <2>3, <2>5
    <3> QED
      BY <2>5, <3>1 DEF TokensUsed, T, U
  <2> QED
    BY <2>4, <2>5
<1> QED
  BY <1>6, <1>7, <1>8


-----------------------------------------------------------------------------
(* What a process has spent is what the log shows of it. The counter of tool *)
(* invocations may be ahead of the calls answered, because recordTool may    *)
(* fail, and is by one while a call it has counted is still to be recorded.  *)
Answerable == IF pc \in {"reject", "record"} THEN toolInvocations - 1 ELSE toolInvocations

Spent0 == turnsThisRun = 0 /\ totalTokens = 0 /\ toolInvocations = 0

Accounted(s) == /\ s \in Indices
                /\ Opens(log, s, Len(log) + 1)
                /\ log[s].payload.config = cfg
                /\ TurnsTaken(log, s, Len(log) + 1) = turnsThisRun
                /\ TokensUsed(log, s, Len(log) + 1) = totalTokens
                /\ CallsAnswered(log, s, Len(log) + 1) <= Answerable

(* Of the run_end of a process that stops for max_turns, and of each turn.   *)
UsedUp(l, s, i) == TurnsTaken(l, s, i) = l[s].payload.config.turns

WithinLimits(l, s, i) ==
  /\ l[s].payload.config.tokens > 0 => TokensUsed(l, s, i) <= l[s].payload.config.tokens
  /\ l[s].payload.config.tools > 0 => CallsAnswered(l, s, i) <= l[s].payload.config.tools

StopsForTurns(e) == e.kind = "run_end" /\ e.payload.reason = "max_turns"

Budgeted(l, i) ==
  /\ StopsForTurns(l[i]) => \E s \in 1..i - 1 : Opens(l, s, i) /\ UsedUp(l, s, i)
  /\ l[i].kind = "turn" => \E s \in 1..i - 1 : Opens(l, s, i) /\ WithinLimits(l, s, i)

BudgetInv == /\ ~OpenRun => Spent0
             /\ OpenRun => \E s \in Indices : Accounted(s)
             /\ pc = "end" /\ reason = "max_turns" => turnsThisRun = cfg.turns
             /\ \A i \in Indices : Budgeted(log, i)

(* A step within a run that adds the record e, and what it counts for it.    *)
Counts(e) ==
  /\ log' = Append(log, e) /\ e.kind # "run_start"
  /\ turnsThisRun' = turnsThisRun + (IF e.kind = "turn" THEN 1 ELSE 0)
  /\ totalTokens' = totalTokens + (IF e.kind = "llm" THEN e.payload.tokens ELSE 0)
  /\ Answerable' >= Answerable + (IF Terminal(e) THEN 1 ELSE 0)

CountsNothing == /\ log' = log
                 /\ turnsThisRun' = turnsThisRun /\ totalTokens' = totalTokens
                 /\ Answerable' >= Answerable

LEMMA CountersTyped ==
  ASSUME TypeInv
  PROVE  /\ turnsThisRun \in Nat /\ totalTokens \in Nat /\ toolInvocations \in Nat
         /\ Answerable \in Int
<1>1. turnsThisRun \in Nat /\ totalTokens \in Nat /\ toolInvocations \in Nat
  BY Before
<1> QED
  BY <1>1 DEF Answerable

LEMMA OtherCounts ==
  ASSUME TypeInv, NEW kind \in {"finish", "log", "turn_end"}, NEW p,
         NextEvent(kind, p) \in Events, log' = Append(log, NextEvent(kind, p)),
         turnsThisRun' = turnsThisRun, totalTokens' = totalTokens,
         Answerable' >= Answerable
  PROVE  \E e \in Events : Counts(e)
<1> DEFINE e == NextEvent(kind, p)
<1>1. e \in Events /\ e.kind = kind /\ ~Terminal(e)
  BY DEF NextEvent, Event, Terminal
<1>2. turnsThisRun \in Nat /\ totalTokens \in Nat /\ Answerable \in Int
  BY CountersTyped
<1> HIDE DEF e
<1>3. log' = Append(log, e)
  BY DEF e
<1> QED
  BY <1>1, <1>2, <1>3 DEF Counts

LEMMA ToolCounts ==
  ASSUME TypeInv, NEW c \in ToolCalls, NEW n \in Nat, NEW status \in Statuses,
         NEW out \in Texts, NEW err \in Texts, status # "intent",
         RecordTool(c, n, status, out, err),
         turnsThisRun' = turnsThisRun, totalTokens' = totalTokens,
         Answerable' = Answerable + 1
  PROVE  CountsNothing \/ \E e \in Events : Counts(e)
<1>1. turnsThisRun \in Nat /\ totalTokens \in Nat /\ Answerable \in Int
  BY CountersTyped
<1>2. log' = log \/ Terminates(c)
  BY RecordToolLeaves
<1>3. CASE log' = log
  BY <1>1, <1>3 DEF CountsNothing
<1>4. ASSUME NEW e \in Events, log' = Append(log, e), Terminal(e)
      PROVE  Counts(e)
  <2>1. e.kind = "tool"
    BY <1>4 DEF Terminal
  <2> QED
    BY <1>1, <1>4, <2>1 DEF Counts
<1> QED
  BY <1>2, <1>3, <1>4 DEF Terminates


(* Every step within a run is of one of the two kinds.                       *)
LEMMA CountsStep ==
  ASSUME TypeInv, [Next]_vars, OpenRun, OpenRun'
  PROVE  cfg' = cfg /\ (CountsNothing \/ \E e \in Events : Counts(e))
<1>0. /\ turnsThisRun \in Nat /\ totalTokens \in Nat /\ toolInvocations \in Nat
      /\ Answerable \in Int
  BY CountersTyped
<1>1. CASE BeginTurn
  <2> DEFINE e == NextEvent("turn", TurnPayload(turnNumber + 1))
  <2>1. /\ log' = Append(log, e) /\ turnsThisRun' = turnsThisRun + 1
        /\ totalTokens' = totalTokens /\ toolInvocations' = toolInvocations
        /\ pc = "top" /\ pc' = "call" /\ cfg' = cfg
    BY <1>1 DEF BeginTurn, AppendError, Exit, OpenRun, Appended, idVars
  <2>2. e \in Events /\ e.kind = "turn" /\ ~Terminal(e)
    BY StageEvents DEF NextEvent, Event, Terminal
  <2>3. Answerable' = Answerable
    BY <2>1 DEF Answerable
  <2> HIDE DEF e
  <2>4. Counts(e)
    BY <1>0, <2>1, <2>2, <2>3 DEF Counts
  <2> QED
    BY <2>1, <2>2, <2>4
<1>2. CASE CallLLM
  <2>1. PICK r \in Responses :
          /\ log' = Append(log, NextEvent("llm", LLMPayload(turnNumber, r.tokens, Completion(r))))
          /\ totalTokens' = totalTokens + r.tokens
          /\ turnsThisRun' = turnsThisRun /\ toolInvocations' = toolInvocations
          /\ pc = "call" /\ pc' \in {"answer", "dispatch"} /\ cfg' = cfg
    BY <1>2 DEF CallLLM, AppendError, Exit, OpenRun, Appended, idVars
  <2> DEFINE e == NextEvent("llm", LLMPayload(turnNumber, r.tokens, Completion(r)))
  <2>2. e \in Events /\ e.kind = "llm" /\ ~Terminal(e) /\ e.payload.tokens = r.tokens
    BY StageEvents DEF NextEvent, Event, Terminal, LLMPayload
  <2>3. Answerable' = Answerable
    BY <2>1 DEF Answerable
  <2>5. log' = Append(log, e)
    BY <2>1
  <2> HIDE DEF e
  <2>4. Counts(e)
    BY <1>0, <2>1, <2>2, <2>3, <2>5 DEF Counts
  <2> QED
    BY <2>1, <2>2, <2>4
<1>3. CASE LLMFail
  <2>1. /\ log' = log \/ log' = Append(log, NextEvent("log", LogPayload("error")))
        /\ pc = "call" /\ pc' = "end" /\ UNCHANGED turnVars /\ cfg' = cfg
    BY <1>3 DEF LLMFail, AppendIgnored, Appended, WriteFailed, SyncFailed, idVars
  <2>2. CountsNothing \/ \E e \in Events : Counts(e)
    <3>1. /\ turnsThisRun' = turnsThisRun /\ totalTokens' = totalTokens
          /\ Answerable' = Answerable
      BY <2>1 DEF turnVars, Answerable
    <3> QED
      BY <1>0, <2>1, <3>1, StageEvents, OtherCounts DEF CountsNothing
  <2> QED
    BY <2>1, <2>2
<1>4. CASE DispatchInvalid
  <2>1. /\ log' = log \/ log' = Append(log, NextEvent("log", LogPayload("warn")))
        /\ pc = "dispatch" /\ pc' = "reject" /\ cfg' = cfg
        /\ turnsThisRun' = turnsThisRun /\ totalTokens' = totalTokens
        /\ toolInvocations' = toolInvocations + 1
    BY <1>4 DEF DispatchInvalid, AppendIgnored, Appended, WriteFailed, SyncFailed, idVars
  <2>2. Answerable' = Answerable
    BY <1>0, <2>1 DEF Answerable
  <2>3. CountsNothing \/ \E e \in Events : Counts(e)
    BY <1>0, <2>1, <2>2, StageEvents, OtherCounts DEF CountsNothing
  <2> QED
    BY <2>1, <2>3
<1>5. CASE Answer \/ Finish
  <2>1. /\ log' = Append(log, NextEvent("finish", FinishPayload))
        /\ pc \in {"answer", "record"} /\ pc' = "end" /\ UNCHANGED turnVars /\ cfg' = cfg
    BY <1>5 DEF Answer, Finish, AppendError, Exit, OpenRun, Appended, idVars
  <2>2. turnsThisRun' = turnsThisRun /\ totalTokens' = totalTokens /\ Answerable' >= Answerable
    BY <1>0, <2>1 DEF turnVars, Answerable
  <2>3. \E e \in Events : Counts(e)
    BY <2>1, <2>2, StageEvents, OtherCounts
  <2> QED
    BY <2>1, <2>3
<1>6. CASE TurnEnd
  <2>1. /\ log' = Append(log, NextEvent("turn_end", TurnPayload(turnNumber)))
        /\ pc = "dispatch" /\ pc' = "top" /\ UNCHANGED turnVars /\ cfg' = cfg
    BY <1>6 DEF TurnEnd, AppendError, Exit, OpenRun, Appended, idVars
  <2>2. turnsThisRun' = turnsThisRun /\ totalTokens' = totalTokens /\ Answerable' >= Answerable
    BY <1>0, <2>1 DEF turnVars, Answerable
  <2>3. \E e \in Events : Counts(e)
    BY <2>1, <2>2, StageEvents, OtherCounts
  <2> QED
    BY <2>1, <2>3
<1>7. CASE Intent
  <2> DEFINE e == NextEvent("tool", ToolPayload(Head(calls).id, Key(Head(calls).id, toolInvocations),
                                                "intent", "", ""))
  <2>1. /\ log' = Append(log, e) /\ calls # << >>
        /\ pc = "dispatch" /\ pc' = "invoke" /\ UNCHANGED turnVars /\ cfg' = cfg
    BY <1>7 DEF Intent, AppendError, Exit, OpenRun, Appended, idVars
  <2>2. e \in Events
    <3>1. Head(calls) \in ToolCalls
      BY <2>1, Before, HeadTailProperties
    <3>2. "intent" \in Statuses /\ "" \in Texts
      BY DEF Statuses, Texts
    <3> QED
      BY <1>0, <3>1, <3>2, ToolEventTyped
  <2>3. e.kind = "tool" /\ ~Terminal(e)
    BY DEF NextEvent, Event, ToolPayload, Terminal
  <2>4. turnsThisRun' = turnsThisRun /\ totalTokens' = totalTokens /\ Answerable' = Answerable
    BY <2>1 DEF turnVars, Answerable
  <2> HIDE DEF e
  <2>5. Counts(e)
    BY <1>0, <2>1, <2>3, <2>4 DEF Counts
  <2> QED
    BY <2>1, <2>2, <2>5
<1>8. CASE Invoke
  BY <1>0, <1>8 DEF Invoke, CountsNothing, Answerable, logVars, idVars
<1>9. CASE StopTurns \/ StopWallClock \/ StopTokens \/ StopTools \/ UNCHANGED vars
  <2>1. /\ log' = log /\ UNCHANGED turnVars /\ cfg' = cfg
        /\ pc' = pc \/ (pc = "top" /\ pc' = "end")
    BY <1>9 DEF StopTurns, StopWallClock, StopTokens, StopTools, Stop, vars, logVars, idVars
  <2> QED
    BY <1>0, <2>1 DEF CountsNothing, Answerable, turnVars
<1>10. CASE DispatchUnknown
  <2> DEFINE c == Head(calls)
  <2>1. /\ calls # << >> /\ pc = "dispatch" /\ pc' = pc /\ cfg' = cfg
        /\ RecordTool(c, toolInvocations + 1, "error", "", "unknown tool")
        /\ turnsThisRun' = turnsThisRun /\ totalTokens' = totalTokens
        /\ toolInvocations' = toolInvocations + 1
    BY <1>10 DEF DispatchUnknown, idVars
  <2>2. c \in ToolCalls /\ toolInvocations + 1 \in Nat
    BY <2>1, Before, HeadTailProperties
  <2>3. "error" \in Statuses /\ {"", "unknown tool"} \subseteq Texts
    BY DEF Statuses, Texts
  <2>4. Answerable' = Answerable + 1
    BY <1>0, <2>1 DEF Answerable
  <2> HIDE DEF c
  <2>5. CountsNothing \/ \E e \in Events : Counts(e)
    BY <2>1, <2>2, <2>3, <2>4, ToolCounts
  <2> QED
    BY <2>1, <2>5
<1>11. CASE RecordInvalid
  <2> DEFINE c == Head(calls)
  <2>1. /\ calls # << >> /\ pc = "reject" /\ pc' = "dispatch" /\ cfg' = cfg
        /\ RecordTool(c, toolInvocations, "invalid", "", "invalid arguments")
        /\ UNCHANGED turnVars
    BY <1>11 DEF RecordInvalid, idVars, TypeInv
  <2>2. c \in ToolCalls
    BY <2>1, Before, HeadTailProperties
  <2>3. "invalid" \in Statuses /\ {"", "invalid arguments"} \subseteq Texts
    BY DEF Statuses, Texts
  <2>4. turnsThisRun' = turnsThisRun /\ totalTokens' = totalTokens /\ Answerable' = Answerable + 1
    <3>1. /\ turnsThisRun' = turnsThisRun /\ totalTokens' = totalTokens
          /\ toolInvocations' = toolInvocations
      BY <2>1 DEF turnVars
    <3>2. Answerable = toolInvocations - 1 /\ Answerable' = toolInvocations
      BY <2>1, <3>1 DEF Answerable
    <3> QED
      BY <1>0, <3>1, <3>2
  <2> HIDE DEF c
  <2>5. CountsNothing \/ \E e \in Events : Counts(e)
    BY <1>0, <2>1, <2>2, <2>3, <2>4, ToolCounts
  <2> QED
    BY <2>1, <2>5
<1>12. CASE Result
  <2> DEFINE c == Head(calls)
  <2>1. /\ calls # << >> /\ pc = "record" /\ pc' = "dispatch" /\ cfg' = cfg
        /\ RecordTool(c, toolInvocations, Status(outcome), outcome, "")
        /\ UNCHANGED turnVars
    BY <1>12 DEF Result, idVars, TypeInv
  <2>2. c \in ToolCalls
    BY <2>1, Before, HeadTailProperties
  <2>3. Status(outcome) \in Statuses /\ Status(outcome) # "intent" /\ outcome \in Texts /\ "" \in Texts
    BY <1>12, Before DEF Result, Status, Statuses, Texts
  <2>4. turnsThisRun' = turnsThisRun /\ totalTokens' = totalTokens /\ Answerable' = Answerable + 1
    <3>1. /\ turnsThisRun' = turnsThisRun /\ totalTokens' = totalTokens
          /\ toolInvocations' = toolInvocations
      BY <2>1 DEF turnVars
    <3>2. Answerable = toolInvocations - 1 /\ Answerable' = toolInvocations
      BY <2>1, <3>1 DEF Answerable
    <3> QED
      BY <1>0, <3>1, <3>2
  <2> HIDE DEF c
  <2>5. CountsNothing \/ \E e \in Events : Counts(e)
    BY <1>0, <2>1, <2>2, <2>3, <2>4, ToolCounts
  <2> QED
    BY <2>1, <2>5
<1>13. ~(Launch \/ Load \/ ScanLine \/ ScanDone \/ BootstrapFail \/ RunStart \/ End \/ Crash)
  BY DEF Launch, Load, ScanLine, ScanDone, BootstrapFail, RunStart, End, Crash, Exit, OpenRun
<1> QED
  BY <1>1, <1>2, <1>3, <1>4, <1>5, <1>6, <1>7, <1>8, <1>9, <1>10, <1>11, <1>12, <1>13 DEF Next


LEMMA SpentStep ==
  ASSUME BudgetInv, [Next]_vars, ~OpenRun'
  PROVE  Spent0'
<1>1. CASE Launch \/ Load \/ ScanLine
  BY <1>1 DEF Launch, Load, ScanLine, BudgetInv, OpenRun, Spent0, turnVars
<1>2. CASE ScanDone
  BY <1>2 DEF ScanDone, BudgetInv, OpenRun, Spent0
<1>3. CASE UNCHANGED vars
  BY <1>3 DEF vars, turnVars, BudgetInv, OpenRun, Spent0
<1>4. CASE BootstrapFail \/ End \/ Crash
  BY <1>4 DEF BootstrapFail, End, Crash, Exit, Spent0
<1>5. CASE RunStart \/ BeginTurn \/ Answer \/ Intent \/ Finish \/ TurnEnd
  BY <1>5 DEF RunStart, BeginTurn, Answer, Intent, Finish, TurnEnd, AppendError, Exit,
              OpenRun, Spent0
<1>6. CASE CallLLM
  BY <1>6 DEF CallLLM, AppendError, Exit, OpenRun, Spent0
<1>7. ~(StopTurns \/ StopWallClock \/ StopTokens \/ StopTools \/ LLMFail \/ DispatchUnknown
        \/ DispatchInvalid \/ RecordInvalid \/ Invoke \/ Result)
  BY DEF StopTurns, StopWallClock, StopTokens, StopTools, Stop, LLMFail, DispatchUnknown,
         DispatchInvalid, RecordInvalid, Invoke, Result, OpenRun
<1> QED
  BY <1>1, <1>2, <1>3, <1>4, <1>5, <1>6, <1>7 DEF Next

LEMMA MaxTurnsStep ==
  ASSUME TypeInv, BudgetInv, [Next]_vars, pc' = "end", reason' = "max_turns"
  PROVE  turnsThisRun' = cfg'.turns
<1>1. CASE StopTurns
  <2>1. turnsThisRun' = turnsThisRun /\ cfg' = cfg /\ ~(turnsThisRun < cfg.turns)
    BY <1>1 DEF StopTurns, Stop, MoreTurns, turnVars, idVars
  <2>2. turnsThisRun \in 0..cfg.turns /\ cfg.turns \in Nat
    BY Before
  <2> QED
    BY <2>1, <2>2
<1>2. CASE UNCHANGED vars
  BY <1>2 DEF vars, turnVars, idVars, BudgetInv
<1>3. ~(StopWallClock \/ StopTokens \/ StopTools \/ LLMFail \/ Answer \/ Finish)
  BY DEF StopWallClock, StopTokens, StopTools, Stop, LLMFail, Answer, Finish, AppendError, Exit
<1>4. ~(Launch \/ Load \/ ScanLine \/ ScanDone \/ BootstrapFail \/ RunStart \/ BeginTurn
        \/ DispatchUnknown \/ DispatchInvalid \/ RecordInvalid \/ Intent \/ Invoke
        \/ Result \/ TurnEnd \/ End \/ Crash)
  BY DEF Launch, Load, ScanLine, ScanDone, BootstrapFail, RunStart, BeginTurn,
         DispatchUnknown, DispatchInvalid, RecordInvalid, Intent, Invoke, Result, TurnEnd,
         End, Crash, AppendError, Exit
<1>5. ~CallLLM
  BY DEF CallLLM, AppendError, Exit
<1> QED
  BY <1>1, <1>2, <1>3, <1>4, <1>5 DEF Next

LEMMA AccountedStep ==
  ASSUME TypeInv, TypeInv', BudgetInv, [Next]_vars, OpenRun'
  PROVE  (\E s \in Indices : Accounted(s))'
<1>0. log \in Seq(Events) /\ log' \in Seq(Events) /\ Len(log) \in Nat
  <2>1. log \in Seq(Events) /\ log' \in Seq(Events)
    BY DEF TypeInv
  <2> QED
    BY <2>1
<1>1. CASE ~OpenRun
  <2>1. RunStart
    <3>1. ~(BootstrapFail \/ End \/ Crash \/ Launch \/ Load \/ ScanLine \/ ScanDone)
      BY DEF BootstrapFail, End, Crash, Exit, Launch, Load, ScanLine, ScanDone, OpenRun
    <3>2. ~(StopTurns \/ StopWallClock \/ StopTokens \/ StopTools \/ BeginTurn \/ CallLLM
            \/ LLMFail \/ Answer \/ DispatchUnknown \/ DispatchInvalid \/ RecordInvalid
            \/ Intent \/ Invoke \/ Result \/ Finish \/ TurnEnd \/ UNCHANGED vars)
      BY <1>1 DEF StopTurns, StopWallClock, StopTokens, StopTools, Stop, BeginTurn, CallLLM,
         LLMFail, Answer, DispatchUnknown, DispatchInvalid, RecordInvalid, Intent, Invoke,
         Result, Finish, TurnEnd, vars, OpenRun
    <3> QED
      BY <3>1, <3>2 DEF Next
  <2> DEFINE e == NextEvent("run_start", RunStartPayload(runID, cfg))
  <2>2. /\ log' = Append(log, e) /\ pc = "start" /\ pc' = "top" /\ cfg' = cfg
        /\ UNCHANGED turnVars
    BY <2>1 DEF RunStart, AppendError, Exit, OpenRun, Appended, idVars
  <2>3. e \in Events /\ e.kind = "run_start" /\ e.payload.config = cfg
    BY <2>2, StageEvents DEF NextEvent, Event, RunStartPayload
  <2>4. turnsThisRun' = 0 /\ totalTokens' = 0 /\ Answerable' = 0
    BY <1>1, <2>2 DEF BudgetInv, Spent0, turnVars, Answerable
  <2> HIDE DEF e
  <2>5. PICK n \in Nat : n = Len(log) + 1
    BY <1>0
  <2>6. Len(log') = n /\ log'[n] = e /\ n \in 1..n
    BY <1>0, <2>2, <2>3, <2>5, AppendProperties
  <2>7. /\ TurnsTaken(log', n, n + 1) = 0 /\ TokensUsed(log', n, n + 1) = 0
        /\ CallsAnswered(log', n, n + 1) = 0
    BY <1>0, SpanNone
  <2>8. n + 1..(n + 1) - 1 = {}
    BY <2>5
  <2>9. Accounted(n)'
    BY <2>2, <2>3, <2>4, <2>6, <2>7, <2>8 DEF Accounted, Opens, Indices
  <2> QED
    BY <2>6, <2>9 DEF Indices
<1>2. CASE OpenRun
  <2>1. PICK s \in Indices : Accounted(s)
    BY <1>2 DEF BudgetInv
  <2>2. /\ Answerable \in Int /\ Answerable' \in Int
        /\ cfg' = cfg /\ (CountsNothing \/ \E e \in Events : Counts(e))
    <3>1. toolInvocations' \in Nat
      BY DEF TypeInv, TypeOK
    <3>2. Answerable' \in Int
      BY <3>1 DEF Answerable
    <3> QED
      BY <1>2, <3>2, CountersTyped, CountsStep
  <2>3. CASE CountsNothing
    <3>1. CallsAnswered(log, s, Len(log) + 1) \in Nat
      <4>1. Len(log) + 1 \in 1..Len(log) + 1 /\ s \in 1..Len(log) + 1
        BY <1>0 DEF Indices
      <4> QED
        BY <1>0, <4>1, SpanTyped
    <3>2. CallsAnswered(log', s, Len(log') + 1) <= Answerable'
      BY <2>1, <2>2, <2>3, <3>1 DEF CountsNothing, Accounted
    <3>3. Accounted(s)'
      BY <2>1, <2>2, <2>3, <3>2 DEF CountsNothing, Accounted, Indices
    <3> QED
      BY <2>1, <2>3, <3>3 DEF CountsNothing, Indices
  <2>4. ASSUME NEW e \in Events, Counts(e) PROVE Accounted(s)'
    <3>1. PICK n \in Nat : n = Len(log) + 1
      BY <1>0
    <3>2. /\ Len(log') = n /\ log'[n] = e /\ \A k \in 1..n - 1 : log'[k] = log[k]
      BY <1>0, <2>4, <3>1, AppendProperties DEF Counts
    <3>3. /\ n \in 1..Len(log) + 1 /\ s \in 1..n /\ n \in 1..Len(log') /\ s \in 1..n - 1
      BY <1>0, <3>1, <3>2 DEF Indices
    <3>4. /\ TurnsTaken(log', s, n) = turnsThisRun
          /\ TokensUsed(log', s, n) = totalTokens
          /\ CallsAnswered(log', s, n) = CallsAnswered(log, s, n)
          /\ CallsAnswered(log, s, n) <= Answerable
          /\ CallsAnswered(log, s, n) \in Nat
      <4>1. /\ TurnsTaken(log, s, n) = turnsThisRun
            /\ TokensUsed(log, s, n) = totalTokens
            /\ CallsAnswered(log, s, n) <= Answerable
        BY <2>1, <3>1 DEF Accounted
      <4> QED
        BY <1>0, <3>2, <3>3, <4>1, SpanSame, SpanTyped
    <3>5. /\ TurnsTaken(log', s, n + 1) = turnsThisRun'
          /\ TokensUsed(log', s, n + 1) = totalTokens'
      <4>1. /\ TurnsTaken(log', s, n + 1) = TurnsTaken(log', s, n)
                                             + (IF log'[n].kind = "turn" THEN 1 ELSE 0)
            /\ TokensUsed(log', s, n + 1) = TokensUsed(log', s, n)
                                   + (IF log'[n].kind = "llm" THEN log'[n].payload.tokens ELSE 0)
        BY <1>0, <3>3, SpanMore
      <4> QED
        BY <2>4, <3>2, <3>4, <4>1 DEF Counts
    <3>6. CallsAnswered(log', s, n + 1) <= Answerable'
      <4>1. CallsAnswered(log', s, n + 1) = CallsAnswered(log', s, n)
                                             + (IF Terminal(log'[n]) THEN 1 ELSE 0)
        BY <1>0, <3>3, SpanMore
      <4>2. CASE Terminal(e)
        <5>1. /\ CallsAnswered(log', s, n + 1) = CallsAnswered(log, s, n) + 1
              /\ Answerable' >= Answerable + 1
          BY <2>4, <3>2, <3>4, <4>1, <4>2 DEF Counts
        <5> QED
          BY <2>2, <3>4, <5>1
      <4>3. CASE ~Terminal(e)
        <5>1. /\ CallsAnswered(log', s, n + 1) = CallsAnswered(log, s, n) + 0
              /\ Answerable' >= Answerable + 0
          BY <2>4, <3>2, <3>4, <4>1, <4>3 DEF Counts
        <5> QED
          BY <2>2, <3>4, <5>1
      <4> QED
        BY <4>2, <4>3
    <3>7. Opens(log', s, n + 1)
      <4>1. log[s].kind = "run_start" /\ \A k \in s + 1..n - 1 : log[k].kind # "run_start"
        BY <2>1, <3>1 DEF Accounted, Opens
      <4>2. \A k \in s + 1..(n + 1) - 1 : k \in s + 1..n - 1 \/ k = n
        BY <3>3
      <4>3. \A k \in s + 1..n - 1 : k \in 1..n - 1
        BY <3>3
      <4>4. e.kind # "run_start"
        BY <2>4 DEF Counts
      <4> QED
        BY <3>2, <3>3, <4>1, <4>2, <4>3, <4>4 DEF Opens
    <3>8. log'[s].payload.config = cfg' /\ s \in 1..Len(log')
      BY <2>1, <2>2, <3>2, <3>3 DEF Accounted
    <3> QED
      BY <3>2, <3>5, <3>6, <3>7, <3>8 DEF Accounted, Indices
  <2>5. ASSUME NEW e \in Events, Counts(e) PROVE s \in Indices'
    BY <2>4, <2>5 DEF Accounted
  <2> QED
    BY <2>2, <2>3, <2>4, <2>5
<1> QED
  BY <1>1, <1>2


(* A record's budget depends on the records up to it only.                   *)
LEMMA BudgetedStays ==
  ASSUME NEW l \in Seq(Events), NEW m \in Seq(Events), NEW i \in 1..Len(l), i <= Len(m),
         \A k \in 1..i : m[k] = l[k], Budgeted(l, i)
  PROVE  Budgeted(m, i)
<1>1. i \in Nat /\ Len(l) \in Nat /\ Len(m) \in Nat /\ i \in 1..Len(l) + 1 /\ m[i] = l[i]
  OBVIOUS
<1>2. ASSUME NEW s \in 1..i - 1, Opens(l, s, i)
      PROVE  /\ Opens(m, s, i) /\ m[s] = l[s]
             /\ UsedUp(l, s, i) => UsedUp(m, s, i)
             /\ WithinLimits(l, s, i) => WithinLimits(m, s, i)
  <2>1. s \in 1..i /\ m[s] = l[s] /\ \A k \in 1..i - 1 : m[k] = l[k]
    BY <1>1
  <2>2. \A k \in s + 1..i - 1 : m[k] = l[k]
    BY <1>1
  <2>3. /\ TurnsTaken(m, s, i) = TurnsTaken(l, s, i)
        /\ TokensUsed(m, s, i) = TokensUsed(l, s, i)
        /\ CallsAnswered(m, s, i) = CallsAnswered(l, s, i)
    BY <1>1, <2>1, SpanSame
  <2> QED
    BY <1>2, <2>1, <2>2, <2>3 DEF Opens, UsedUp, WithinLimits
<1> QED
  BY <1>1, <1>2 DEF Budgeted

(* A turn is begun when the limits have been looked at.                      *)
LEMMA TurnAdded ==
  ASSUME TypeInv, TypeInv', [Next]_vars, NEW p, Adds("turn", p)
  PROVE  pc = "top" /\ ~OverTokens /\ ~OverTools
<1>1. pc = "top" /\ log' # log
  <2>1. Len(log') = Len(log) + 1 /\ Len(log) \in Nat
    BY AddedLog
  <2> QED
    BY <2>1 DEF Adds, Written
<1>2. ~Crash
  <2>1. Len(log') = Len(log) + 1 /\ Len(log) \in Nat
    BY AddedLog
  <2>2. Crash => Len(log') <= Len(log)
    BY CutLog
  <2> QED
    BY <2>1, <2>2
<1>3. BeginTurn
  BY <1>1, <1>2 DEF Next, Launch, Load, ScanLine, ScanDone, BootstrapFail, RunStart,
     StopTurns, StopWallClock, StopTokens, StopTools, Stop, CallLLM, LLMFail, Answer,
     DispatchUnknown, DispatchInvalid, RecordInvalid, Intent, Invoke, Result, Finish,
     TurnEnd, End, vars, logVars
<1> QED
  BY <1>1, <1>3 DEF BeginTurn

LEMMA BudgetedStep ==
  ASSUME TypeInv, TypeInv', BudgetInv, [Next]_vars
  PROVE  (\A i \in Indices : Budgeted(log, i))'
<1>0. log \in Seq(Events) /\ log' \in Seq(Events) /\ Len(log) \in Nat
  <2>1. log \in Seq(Events) /\ log' \in Seq(Events)
    BY DEF TypeInv
  <2> QED
    BY <2>1
<1>1. CASE LogUnchanged
  BY <1>1 DEF LogUnchanged, BudgetInv, Indices
<1>2. CASE Crash
  <2>1. \A i \in 1..Len(log') : i \in 1..Len(log) /\ log'[i] = log[i]
    BY <1>2, CutLog
  <2>2. ASSUME NEW i \in 1..Len(log') PROVE Budgeted(log', i)
    <3>1. i \in 1..Len(log) /\ i <= Len(log') /\ \A k \in 1..i : log'[k] = log[k]
      BY <1>0, <2>1
    <3>2. Budgeted(log, i)
      BY <3>1 DEF BudgetInv, Indices
    <3> QED
      BY <1>0, <3>1, <3>2, BudgetedStays
  <2> QED
    BY <2>2 DEF Indices
<1>3. ASSUME NEW kind, NEW p, Adds(kind, p)
      PROVE  \A i \in 1..Len(log') : Budgeted(log', i)
  <2>1. PICK n \in Nat : n = Len(log) + 1
    BY <1>0
  <2>2. /\ Len(log') = n /\ log'[n].kind = kind /\ log'[n].payload = p
        /\ \A k \in 1..n - 1 : log'[k] = log[k]
    <3>1. /\ Len(log') = Len(log) + 1 /\ log'[Len(log')] = NextEvent(kind, p)
          /\ \A i \in 1..Len(log) : log'[i] = log[i]
      BY <1>3, AddedLog
    <3> QED
      BY <1>0, <2>1, <3>1 DEF NextEvent, Event
  <2>3. ASSUME NEW i \in 1..n - 1 PROVE Budgeted(log', i)
    <3>1. i \in 1..Len(log) /\ i <= Len(log') /\ \A k \in 1..i : log'[k] = log[k]
      BY <1>0, <2>1, <2>2
    <3>2. Budgeted(log, i)
      BY <3>1 DEF BudgetInv, Indices
    <3> QED
      BY <1>0, <3>1, <3>2, BudgetedStays
  <2>4. Budgeted(log', n)
    <3>1. CASE kind \notin {"turn", "run_end"}
      BY <2>2, <3>1 DEF Budgeted, StopsForTurns
    <3>2. CASE kind \in {"turn", "run_end"}
      <4>1. OpenRun
        BY <1>3, <3>2 DEF Adds, Written, OpenRun
      <4>2. PICK s \in Indices : Accounted(s)
        BY <4>1 DEF BudgetInv
      <4>3. /\ s \in 1..n - 1 /\ n \in 1..Len(log) + 1 /\ s \in 1..n
            /\ \A k \in s + 1..n - 1 : k \in 1..n - 1
        BY <1>0, <2>1 DEF Indices
      <4>4. /\ Opens(log, s, n) /\ log[s].payload.config = cfg
            /\ TurnsTaken(log, s, n) = turnsThisRun
            /\ TokensUsed(log, s, n) = totalTokens
            /\ CallsAnswered(log, s, n) <= Answerable
        BY <2>1, <4>2 DEF Accounted
      <4>5. Opens(log', s, n) /\ log'[s].payload.config = cfg
        BY <2>2, <4>3, <4>4 DEF Opens
      <4>6. /\ TurnsTaken(log', s, n) = turnsThisRun
            /\ TokensUsed(log', s, n) = totalTokens
            /\ CallsAnswered(log', s, n) <= Answerable
            /\ CallsAnswered(log', s, n) \in Nat
        <5>1. log \in Seq(Events) /\ log' \in Seq(Events) /\ n \in 1..Len(log) + 1
          BY <1>0, <4>3
        <5>2. \A k \in 1..n - 1 : log'[k] = log[k]
          BY <2>2
        <5>3. /\ TurnsTaken(log', s, n) = TurnsTaken(log, s, n)
              /\ TokensUsed(log', s, n) = TokensUsed(log, s, n)
              /\ CallsAnswered(log', s, n) = CallsAnswered(log, s, n)
          BY <4>3, <5>1, <5>2, SpanSame
        <5>4. CallsAnswered(log, s, n) \in Nat
          BY <4>3, <5>1, SpanTyped
        <5> QED
          BY <4>4, <5>3, <5>4
      <4>7. StopsForTurns(log'[n]) => UsedUp(log', s, n)
        <5>1. StopsForTurns(log'[n]) => pc = "end" /\ reason = "max_turns"
          BY <1>3, <2>2 DEF StopsForTurns, Adds, Written, RunEndPayload
        <5> QED
          BY <4>5, <4>6, <5>1 DEF BudgetInv, UsedUp
      <4>8. kind = "turn" => WithinLimits(log', s, n)
        <5>1. SUFFICES ASSUME kind = "turn" PROVE WithinLimits(log', s, n)
          OBVIOUS
        <5>2. pc = "top" /\ ~OverTokens /\ ~OverTools
          BY <1>3, <5>1, TurnAdded
        <5>3. Answerable = toolInvocations /\ toolInvocations \in Nat /\ totalTokens \in Nat
          BY <5>2, CountersTyped DEF Answerable
        <5>4. cfg.tokens \in Nat /\ cfg.tools \in Nat
          BY DEF TypeInv, TypeOK, Launched
        <5>5. cfg.tokens > 0 => totalTokens <= cfg.tokens
          BY <5>2, <5>3, <5>4 DEF OverTokens
        <5>6. cfg.tools > 0 => CallsAnswered(log', s, n) <= cfg.tools
          <6>1. cfg.tools > 0 => toolInvocations <= cfg.tools
            BY <5>2, <5>3, <5>4 DEF OverTools
          <6> QED
            BY <4>6, <5>3, <5>4, <6>1
        <5> QED
          BY <4>5, <4>6, <5>5, <5>6 DEF WithinLimits
      <4> QED
        BY <2>2, <4>3, <4>5, <4>7, <4>8 DEF Budgeted
    <3> QED
      BY <3>1, <3>2
  <2>5. \A i \in 1..n : i \in 1..n - 1 \/ i = n
    BY <2>1
  <2> QED
    BY <2>2, <2>3, <2>4, <2>5
<1> QED
  BY <1>1, <1>2, <1>3, LogStep DEF Indices

(* A process's counters are what the log shows of it.                        *)
THEOREM BudgetHolds == Spec => []BudgetInv
<1>1. Init => BudgetInv
  <2> SUFFICES ASSUME Init PROVE BudgetInv
    OBVIOUS
  <2>1. /\ log = << >> /\ pc = "down" /\ turnsThisRun = 0 /\ totalTokens = 0
        /\ toolInvocations = 0
    BY DEF Init
  <2> QED
    BY <2>1 DEF BudgetInv, Indices, OpenRun, Spent0
<1>2. ASSUME TypeInv, TypeInv', BudgetInv, [Next]_vars PROVE BudgetInv'
  BY <1>2, SpentStep, AccountedStep, MaxTurnsStep, BudgetedStep DEF BudgetInv
<1> QED
  BY <1>1, <1>2, AgentInv, PTL DEF Spec

(* What the properties of the log call a process and its configuration.      *)
LEMMA ProcessOf ==
  ASSUME TypeInv, NEW i \in Indices, log[i].kind # "run_start", NEW s \in 1..i - 1,
         Opens(log, s, i)
  PROVE  OfProcess(i) = s + 1..i - 1 /\ ConfigAt(i) = log[s].payload.config
<1>0. i \in Nat /\ s \in Nat /\ log \in Seq(Events)
  <2>1. log \in Seq(Events)
    BY DEF TypeInv
  <2> QED
    BY <2>1 DEF Indices
<1>1. OfProcess(i) \subseteq s + 1..i - 1
  <2>1. ASSUME NEW k \in 1..i - 1, NoneBetween(k, i, {"run_start"}), log[k].kind # "run_start"
        PROVE  k \in s + 1..i - 1
    <3>1. ~(k < s)
      <4>1. k < s => s \in k + 1..i - 1
        BY <1>0
      <4> QED
        BY <2>1, <4>1 DEF NoneBetween, Opens
    <3>2. k # s
      BY <2>1 DEF Opens
    <3> QED
      BY <1>0, <3>1, <3>2
  <2> QED
    BY <2>1 DEF OfProcess
<1>2. s + 1..i - 1 \subseteq OfProcess(i)
  <2>1. ASSUME NEW k \in s + 1..i - 1
        PROVE  /\ k \in 1..i - 1 /\ log[k].kind # "run_start"
               /\ \A x \in k + 1..i - 1 : log[x].kind # "run_start"
    <3>1. k \in 1..i - 1 /\ \A x \in k + 1..i - 1 : x \in s + 1..i - 1
      BY <1>0
    <3> QED
      BY <3>1 DEF Opens
  <2> QED
    BY <2>1 DEF OfProcess, NoneBetween
<1> DEFINE I == {k \in 1..i : log[k].kind = "run_start"}
<1>3. s \in I /\ \A k \in I : k \in Nat /\ s >= k
  <2>1. s \in I
    BY <1>0 DEF Opens
  <2>2. ASSUME NEW k \in I PROVE s >= k
    <3>1. k \in 1..i /\ log[k].kind = "run_start" /\ k # i
      OBVIOUS
    <3>2. k \notin s + 1..i - 1
      BY <3>1 DEF Opens
    <3> QED
      BY <1>0, <3>1, <3>2
  <2> QED
    BY <1>0, <2>1, <2>2
<1>4. Max(I) = s
  <2> HIDE DEF I
  <2>1. \A x \in I : (\A k \in I : x >= k) => x = s
    BY <1>3
  <2> QED
    BY <1>3, <2>1 DEF Max
<1>5. SelectLastInSubSeq(log, 1, i, LAMBDA e : e.kind = "run_start") = s
  <2>1. I # {}
    BY <1>3
  <2> QED
    BY <1>4, <2>1 DEF SelectLastInSubSeq
<1> QED
  BY <1>1, <1>2, <1>5 DEF ConfigAt

(* A process that stops for max_turns has taken exactly the turns of its     *)
(* configuration, however many turns the log held when it took it over.      *)
THEOREM TurnBudgetFull == Spec => []FullTurnBudget
<1>1. ASSUME TypeInv, BudgetInv PROVE FullTurnBudget
  <2>1. ASSUME NEW i \in Indices, StopsForTurns(log[i])
        PROVE  Cardinality(OfProcess(i) \cap Kinds({"turn"})) = ConfigAt(i).turns
    <3>1. PICK s \in 1..i - 1 : Opens(log, s, i) /\ UsedUp(log, s, i)
      BY <1>1, <2>1 DEF BudgetInv, Budgeted
    <3>2. OfProcess(i) = s + 1..i - 1 /\ ConfigAt(i) = log[s].payload.config
      BY <1>1, <2>1, <3>1, ProcessOf DEF StopsForTurns
    <3>3. OfProcess(i) \cap Kinds({"turn"}) = KindIn(log, s, i, "turn")
      <4>1. i \in Nat /\ \A k \in s + 1..i - 1 : k \in Indices
        <5>1. log \in Seq(Events)
          BY <1>1 DEF TypeInv
        <5> QED
          BY <5>1 DEF Indices
      <4> QED
        BY <3>2, <4>1 DEF Kinds, KindIn
    <3> QED
      BY <3>1, <3>2, <3>3 DEF UsedUp, TurnsTaken
  <2> QED
    BY <2>1 DEF FullTurnBudget, Kinds, StopsForTurns
<1> QED
  BY <1>1, AgentInv, BudgetHolds, PTL

(* A turn is begun within the limits only, by what the log itself shows of   *)
(* the process: the tokens of its completions and the calls it answered.     *)
THEOREM TurnsWithinBudget == Spec => []BudgetAtTurn
<1>1. ASSUME TypeInv, BudgetInv PROVE BudgetAtTurn
  <2>1. ASSUME NEW i \in Indices, log[i].kind = "turn"
        PROVE  /\ ConfigAt(i).tokens > 0 =>
                    MapThenSumSet(LAMBDA k : log[k].payload.tokens,
                                  OfProcess(i) \cap Kinds({"llm"})) <= ConfigAt(i).tokens
               /\ ConfigAt(i).tools > 0 =>
                    Cardinality({k \in OfProcess(i) : Terminal(log[k])}) <= ConfigAt(i).tools
    <3>1. PICK s \in 1..i - 1 : Opens(log, s, i) /\ WithinLimits(log, s, i)
      BY <1>1, <2>1 DEF BudgetInv, Budgeted
    <3>2. OfProcess(i) = s + 1..i - 1 /\ ConfigAt(i) = log[s].payload.config
      BY <1>1, <2>1, <3>1, ProcessOf
    <3>3. /\ OfProcess(i) \cap Kinds({"llm"}) = KindIn(log, s, i, "llm")
          /\ {k \in OfProcess(i) : Terminal(log[k])} = AnswersIn(log, s, i)
      <4>1. i \in Nat /\ \A k \in s + 1..i - 1 : k \in Indices
        <5>1. log \in Seq(Events)
          BY <1>1 DEF TypeInv
        <5> QED
          BY <5>1 DEF Indices
      <4> QED
        BY <3>2, <4>1 DEF Kinds, KindIn, AnswersIn
    <3>4. /\ ConfigAt(i).tokens > 0 => TokensOf(log, OfProcess(i) \cap Kinds({"llm"}))
                                         <= ConfigAt(i).tokens
          /\ ConfigAt(i).tools > 0 =>
               Cardinality({k \in OfProcess(i) : Terminal(log[k])}) <= ConfigAt(i).tools
      BY <3>1, <3>2, <3>3 DEF WithinLimits, TokensUsed, CallsAnswered
    <3> QED
      BY <3>4 DEF TokensOf
  <2> QED
    BY <2>1 DEF BudgetAtTurn, Kinds
<1> QED
  BY <1>1, AgentInv, BudgetHolds, PTL
===============================================================================
