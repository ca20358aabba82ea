------------------------ MODULE AgentConversationProofs ------------------------
(* Proofs about the conversation: that results stand behind their requests   *)
(* through every resume and compaction, that it is bounded and keeps its     *)
(* head, and that it is what a resume would read back from the log.          *)
EXTENDS AgentCallProofs

-----------------------------------------------------------------------------
(* One turn of LoadTranscript's loop, by what it does to the messages.       *)
NewAnswer(lt, e) == Terminal(e) /\ e.payload.id \notin lt.seen

LEMMA LoadEventIs ==
  ASSUME NEW r \in Nat, NEW lt \in Transcripts(r), NEW e \in Events, NEW u,
         u = LoadEvent(lt, e)
  PROVE  /\ e.kind = "llm" => /\ u.messages = Append(lt.messages, e.payload.msg)
                              /\ u.seen = lt.seen
         /\ NewAnswer(lt, e) =>
              /\ u.messages = Append(lt.messages, ToolMessage(e.payload.id, Content(e.payload)))
              /\ u.seen = lt.seen \cup {e.payload.id}
         /\ e.kind # "llm" /\ ~NewAnswer(lt, e) => /\ u.messages = lt.messages
                                                   /\ u.seen = lt.seen
<1> USE DEF Transcripts
<1>1. CASE e.kind = "run_start"
  BY <1>1 DEF LoadEvent, NewAnswer, Terminal
<1>2. CASE e.kind = "llm"
  BY <1>2 DEF LoadEvent, NewAnswer, Terminal
<1>3. CASE NewAnswer(lt, e)
  <2>1. e.kind = "tool"
    BY <1>3 DEF NewAnswer, Terminal
  <2> QED
    BY <1>3, <2>1 DEF LoadEvent, NewAnswer
<1>4. CASE e.kind \notin {"run_start", "llm"} /\ ~NewAnswer(lt, e)
  BY <1>4 DEF LoadEvent, NewAnswer
<1> QED
  BY <1>1, <1>2, <1>3, <1>4

LEMMA LoadedSame ==
  ASSUME NEW s \in Seq(Events), NEW t \in Seq(Events), NEW f, NEW g,
         Len(s) <= Len(t), \A i \in 1..Len(s) : t[i] = s[i],
         LoadsAs(s, f), LoadsAs(t, g)
  PROVE  \A n \in 0..Len(s) : f[n] = g[n]
<1> DEFINE N == Len(s)
           S == {n \in 0..N : f[n] = g[n]}
<1>1. N \in Nat /\ Len(t) \in Nat /\ 0..N \subseteq 0..Len(t)
  OBVIOUS
<1>2. 0 \in S
  BY <1>1 DEF LoadsAs
<1>3. ASSUME NEW n \in 0..N - 1, n \in S PROVE n + 1 \in S
  <2>1. n + 1 \in 1..N /\ (n + 1) - 1 = n /\ n + 1 \in 0..N /\ n + 1 \in 0..Len(t) /\ n + 1 # 0
    BY <1>1
  <2>2. f[n + 1] = LoadEvent(f[n], s[n + 1])
    BY <2>1 DEF LoadsAs
  <2>3. g[n + 1] = LoadEvent(g[n], t[n + 1])
    BY <2>1 DEF LoadsAs
  <2> QED
    BY <1>3, <2>1, <2>2, <2>3
<1> HIDE DEF S
<1>4. 0..N \subseteq S
  BY <1>1, <1>2, <1>3, UpTo
<1> QED
  BY <1>4 DEF S

(* Reading a log with one record more back.                                  *)
LEMMA LoadGrows ==
  ASSUME NEW s \in Seq(Events), NEW e \in Events, NEW r \in Nat,
         RunsUpTo(Append(s, e), r)
  PROVE  LoadTranscript(Append(s, e)) = LoadEvent(LoadTranscript(s), e)
<1> DEFINE t == Append(s, e)
           N == Len(s)
<1>1. /\ t \in Seq(Events) /\ N \in Nat /\ Len(t) = N + 1 /\ t[N + 1] = e
      /\ \A i \in 1..N : t[i] = s[i]
  BY AppendProperties
<1>2. RunsUpTo(s, r)
  BY <1>1 DEF RunsUpTo
<1> HIDE DEF t
<1>3. PICK f \in [0..Len(s) -> Transcripts(r)] : LoadsAs(s, f) /\ LoadTranscript(s) = f[Len(s)]
  BY <1>2, LoadIsFold
<1>4. PICK g \in [0..Len(t) -> Transcripts(r)] : LoadsAs(t, g) /\ LoadTranscript(t) = g[Len(t)]
  BY <1>1, LoadIsFold DEF t
<1>5. f[N] = g[N]
  BY <1>1, <1>3, <1>4, LoadedSame
<1>6. g[N + 1] = LoadEvent(g[N], t[N + 1])
  <2>1. N + 1 \in 0..Len(t) /\ N + 1 # 0 /\ (N + 1) - 1 = N
    BY <1>1
  <2> QED
    BY <1>4, <2>1 DEF LoadsAs
<1> QED
  BY <1>1, <1>3, <1>4, <1>5, <1>6 DEF t


-----------------------------------------------------------------------------
(* What every record shows of those before it. A terminal record answers a   *)
(* call of the last completion.                                              *)
FromCompletion(l, k) ==
  Terminal(l[k]) =>
    \E i \in 1..k - 1 :
      /\ l[i].kind = "llm"
      /\ \A q \in i + 1..k - 1 : l[q].kind # "llm"
      /\ \E x \in 1..Len(l[i].payload.msg.calls) :
           l[i].payload.msg.calls[x].id = l[k].payload.id

(* Where ids are not reused, those of a completion name its turn.            *)
SaidInTurn(e) ==
  e.kind = "llm" =>
    /\ e.payload.msg.role = "assistant"
    /\ UniqueIds => \A x \in 1..Len(e.payload.msg.calls) :
                      e.payload.msg.calls[x].id = <<e.payload.turn, x>>

(* A turn begins where a process or a turn before it is known to have ended. *)
AfterMarker(l, k) ==
  l[k].kind = "turn" => k > 1 /\ l[k - 1].kind \in {"run_start", "turn_end"}

Orderly(l, k) == FromCompletion(l, k) /\ SaidInTurn(l[k]) /\ AfterMarker(l, k)

RecordInv ==
  /\ \A k \in Indices : Orderly(log, k)
  /\ pc = "top" => log # <<>> /\ log[Len(log)].kind \in {"run_start", "turn_end"}
  /\ pc = "call" => /\ kept = Len(log) /\ ~broken
                    /\ log # <<>> /\ log[Len(log)].kind = "turn"

LEMMA OrderlyStays ==
  ASSUME NEW l \in Seq(Events), NEW m \in Seq(Events), NEW k \in 1..Len(l),
         \A i \in 1..k : m[i] = l[i], Orderly(l, k)
  PROVE  Orderly(m, k)
<1>1. k \in Nat /\ k \in 1..k /\ \A i \in 1..k - 1 : i \in 1..k
  OBVIOUS
<1>2. FromCompletion(m, k)
  <2> SUFFICES ASSUME Terminal(m[k]) PROVE FromCompletion(m, k)
    BY DEF FromCompletion
  <2>1. Terminal(l[k]) /\ m[k] = l[k]
    BY <1>1
  <2>2. PICK i \in 1..k - 1 :
          /\ l[i].kind = "llm"
          /\ \A q \in i + 1..k - 1 : l[q].kind # "llm"
          /\ \E x \in 1..Len(l[i].payload.msg.calls) :
               l[i].payload.msg.calls[x].id = l[k].payload.id
    BY <2>1 DEF Orderly, FromCompletion
  <2>3. m[i] = l[i] /\ \A q \in i + 1..k - 1 : m[q] = l[q]
    BY <1>1
  <2> QED
    BY <2>1, <2>2, <2>3 DEF FromCompletion
<1>3. SaidInTurn(m[k])
  BY <1>1 DEF Orderly
<1>4. AfterMarker(m, k)
  BY <1>1 DEF Orderly, AfterMarker
<1> QED
  BY <1>2, <1>3, <1>4 DEF Orderly

LEMMA NewRecordOrderly ==
  ASSUME TypeInv, TypeInv', ServeInv, RecordInv, NEW kind, NEW p, Adds(kind, p)
  PROVE  Orderly(log', Len(log'))
<1> DEFINE e == NextEvent(kind, p)
<1>0. PICK n \in Nat : n = Len(log)
  BY AddedLog
<1>1. /\ Len(log') = n + 1 /\ log'[n + 1] = e /\ e \in Events
      /\ e.kind = kind /\ e.payload = p
      /\ \A i \in 1..n : log'[i] = log[i]
  BY <1>0, AddedLog DEF NextEvent, Event
<1> HIDE DEF e
<1>2. FromCompletion(log', n + 1)
  <2> SUFFICES ASSUME Terminal(e) PROVE FromCompletion(log', n + 1)
    BY <1>1 DEF FromCompletion
  <2>1. kind = "tool" /\ pc \in {"dispatch", "reject", "record"} /\ calls # << >>
        /\ p.id = Head(calls).id
    BY <1>1 DEF Terminal, Adds, Written
  <2>2. PICK m \in Nat : \E d \in Nat : Serving(m, d)
    BY <2>1 DEF ServeInv, DispatchStages, InTurnStages
  <2>3. PICK d \in Nat : Serving(m, d)
    BY <2>2
  <2>4. /\ d + 1 \in 1..Len(Asked(m)) /\ Head(calls).id = Asked(m)[d + 1].id
    BY <2>1, <2>3, ServedCall
  <2>5. /\ m \in 1..n /\ log[m].kind = "llm"
        /\ \A k \in m + 1..n : log[k].kind # "llm"
    BY <1>0, <2>3 DEF Serving, LastAsk
  <2>6. /\ log'[m] = log[m] /\ \A k \in m + 1..n : log'[k] = log[k]
        /\ (n + 1) - 1 = n
    BY <1>1, <2>5
  <2> QED
    BY <1>1, <2>1, <2>4, <2>5, <2>6 DEF FromCompletion, Asked
<1>3. SaidInTurn(e)
  <2> SUFFICES ASSUME kind = "llm" PROVE SaidInTurn(e)
    BY <1>1 DEF SaidInTurn
  <2>1. PICK r \in Responses : p = LLMPayload(turnNumber, r.tokens, Completion(r))
    BY DEF Adds, Written
  <2>2. /\ Completion(r).calls \in Seq(ToolCalls)
        /\ Len(Completion(r).calls) = Len(r.calls)
        /\ \A i \in 1..Len(r.calls) : Completion(r).calls[i].id = CallId(i)
    BY CompletionTyped
  <2>3. p.msg = Completion(r) /\ p.turn = turnNumber
    BY <2>1 DEF LLMPayload
  <2>4. Completion(r).role = "assistant"
    BY DEF Completion, Assistant
  <2> QED
    BY <1>1, <2>2, <2>3, <2>4 DEF SaidInTurn, CallId
<1>4. AfterMarker(log', n + 1)
  <2> SUFFICES ASSUME kind = "turn" PROVE AfterMarker(log', n + 1)
    BY <1>1 DEF AfterMarker
  <2>1. pc = "top"
    BY DEF Adds, Written
  <2>2. n > 0 /\ log[n].kind \in {"run_start", "turn_end"}
    <3>1. log # << >> /\ log[n].kind \in {"run_start", "turn_end"}
      BY <1>0, <2>1 DEF RecordInv
    <3>2. log \in Seq(Events)
      BY DEF TypeInv
    <3> QED
      BY <1>0, <3>1, <3>2, EmptySeq
  <2>3. n \in 1..n /\ (n + 1) - 1 = n
    BY <2>2
  <2> QED
    BY <1>1, <2>2, <2>3 DEF AfterMarker
<1> QED
  BY <1>1, <1>2, <1>3, <1>4 DEF Orderly

(* How the loop's head and the request are reached.                          *)
LEMMA MarkerStages ==
  ASSUME TypeInv, TypeInv', RecordInv, [Next]_vars
  PROVE  /\ pc' = "top" => log' # <<>> /\ log'[Len(log')].kind \in {"run_start", "turn_end"}
         /\ pc' = "call" => /\ kept' = Len(log') /\ ~broken'
                            /\ log' # <<>> /\ log'[Len(log')].kind = "turn"
<1>1. ASSUME NEW kind, NEW p, Appended(kind, p), NextEvent(kind, p) \in Events
      PROVE  /\ kept' = Len(log') /\ ~broken' /\ log' # << >>
             /\ log'[Len(log')].kind = kind
  <2>1. log \in Seq(Events) /\ log' = Append(log, NextEvent(kind, p))
    BY <1>1 DEF Appended, TypeInv
  <2>2. Len(log') = Len(log) + 1 /\ log'[Len(log) + 1] = NextEvent(kind, p) /\ Len(log) \in Nat
    BY <1>1, <2>1, AppendProperties
  <2>3. log' # << >>
    BY <2>2, EmptySeq
  <2> QED
    BY <1>1, <2>2, <2>3 DEF Appended, NextEvent, Event
<1>2. CASE pc' = "top"
  <2>1. UNCHANGED vars \/ RunStart \/ TurnEnd
    <3>1. Launch \/ Load \/ ScanLine \/ ScanDone \/ BootstrapFail \/ StopTurns \/ StopWallClock
            \/ StopTokens \/ StopTools \/ LLMFail \/ End \/ Crash => pc' # "top"
      BY DEF Launch, Load, ScanLine, ScanDone, BootstrapFail, Exit, StopTurns, StopWallClock,
             StopTokens, StopTools, Stop, LLMFail, End, Crash
    <3>2. BeginTurn \/ CallLLM \/ Answer \/ Finish \/ Intent => pc' # "top"
      BY DEF BeginTurn, CallLLM, Answer, Finish, Intent, AppendError, Exit
    <3>3. DispatchUnknown \/ DispatchInvalid \/ RecordInvalid \/ Invoke \/ Result => pc' # "top"
      BY DEF DispatchUnknown, DispatchInvalid, RecordInvalid, Invoke, Result
    <3> QED
      BY <1>2, <3>1, <3>2, <3>3 DEF Next
  <2>2. CASE UNCHANGED vars
    BY <1>2, <2>2 DEF RecordInv, vars, logVars
  <2>3. CASE RunStart
    <3>1. Appended("run_start", RunStartPayload(runID, cfg)) /\ pc = "start"
      BY <1>2, <2>3 DEF RunStart, AppendError, Exit
    <3> QED
      BY <1>1, <1>2, <3>1, StageEvents
  <2>4. CASE TurnEnd
    <3>1. Appended("turn_end", TurnPayload(turnNumber))
      BY <1>2, <2>4 DEF TurnEnd, AppendError, Exit
    <3> QED
      BY <1>1, <1>2, <3>1, StageEvents
  <2> QED
    BY <2>1, <2>2, <2>3, <2>4
<1>3. CASE pc' = "call"
  <2>1. UNCHANGED vars \/ BeginTurn
    BY <1>3, IntoTurn DEF InTurnStages, CallLLM, AppendError, Exit, DispatchUnknown,
       DispatchInvalid, RecordInvalid, Intent, Invoke, Result
  <2>2. CASE UNCHANGED vars
    BY <1>3, <2>2 DEF RecordInv, vars, logVars
  <2>3. CASE BeginTurn
    <3>1. Appended("turn", TurnPayload(turnNumber + 1))
      BY <1>3, <2>3 DEF BeginTurn, AppendError, Exit
    <3> QED
      BY <1>1, <1>3, <3>1, StageEvents
  <2> QED
    BY <2>1, <2>2, <2>3
<1> QED
  BY <1>2, <1>3

LEMMA RecordStep ==
  ASSUME TypeInv, TypeInv', ServeInv, RecordInv, [Next]_vars
  PROVE  RecordInv'
<1>0. log \in Seq(Events) /\ log' \in Seq(Events) /\ Len(log) \in Nat /\ Len(log') \in Nat
  <2>1. log \in Seq(Events) /\ log' \in Seq(Events)
    BY DEF TypeInv
  <2> QED
    BY <2>1
<1>1. CASE LogUnchanged
  BY <1>1, MarkerStages DEF RecordInv, LogUnchanged, Indices
<1>2. CASE Crash
  <2>1. ASSUME NEW k \in 1..Len(log') PROVE Orderly(log', k)
    <3>1. k \in 1..Len(log) /\ \A i \in 1..k : log'[i] = log[i]
      BY <1>0, <1>2, CutLog
    <3> QED
      BY <1>0, <3>1, OrderlyStays DEF RecordInv, Indices
  <2> QED
    BY <2>1, MarkerStages DEF RecordInv, Indices
<1>3. ASSUME NEW kind, NEW p, Adds(kind, p)
      PROVE  RecordInv'
  <2>1. ASSUME NEW k \in 1..Len(log') PROVE Orderly(log', k)
    <3>1. CASE k = Len(log')
      BY <1>3, <3>1, NewRecordOrderly
    <3>2. CASE k # Len(log')
      <4>1. k \in 1..Len(log) /\ \A i \in 1..k : log'[i] = log[i]
        BY <1>0, <1>3, <3>2, AddedLog
      <4> QED
        BY <1>0, <4>1, OrderlyStays DEF RecordInv, Indices
    <3> QED
      BY <3>1, <3>2
  <2> QED
    BY <2>1, MarkerStages DEF RecordInv, Indices
<1> QED
  BY <1>1, <1>2, <1>3, LogStep

(* A log's terminal records answer its last completion before them, its ids  *)
(* name their turns, and its turns begin at a marker.                        *)
THEOREM RecordsOrderly == Spec => []RecordInv
<1>1. Init => RecordInv
  <2> SUFFICES ASSUME Init PROVE RecordInv
    OBVIOUS
  <2>1. log = << >> /\ pc = "down"
    BY DEF Init
  <2>2. Indices = {}
    BY <2>1 DEF Indices
  <2> QED
    BY <2>1, <2>2 DEF RecordInv
<1>2. TypeInv /\ TypeInv' /\ ServeInv /\ RecordInv /\ [Next]_vars => RecordInv'
  BY RecordStep
<1> QED
  BY <1>1, <1>2, AgentInv, ServesHold, PTL DEF Spec


-----------------------------------------------------------------------------
(* Messages and their order. Message k is the last one up to i that is no    *)
(* result.                                                                   *)
Behind(msgs, k, i) == /\ msgs[k].role # "tool"
                      /\ \A j \in k + 1..i : msgs[j].role = "tool"

Requests(m, id) == \E x \in 1..Len(m.calls) : m.calls[x].id = id

(* Result i stands behind its request or, where a compaction may have elided *)
(* that, behind a summary in one of the places sums.                         *)
PlacedBehind(msgs, i, k, sums) ==
  /\ Behind(msgs, k, i)
  /\ \/ Requests(msgs[k], msgs[i].id)
     \/ k \in sums /\ msgs[k].role = "system"

Placed(msgs, i, sums) ==
  msgs[i].role = "tool" => \E k \in 1..i - 1 : PlacedBehind(msgs, i, k, sums)

AllPlaced(msgs, sums) == \A i \in 1..Len(msgs) : Placed(msgs, i, sums)

(* The next message may be the result of call id.                            *)
Awaits(msgs, id) ==
  \E k \in 1..Len(msgs) : Behind(msgs, k, Len(msgs)) /\ Requests(msgs[k], id)

LEMMA MessageAppended ==
  ASSUME NEW ms \in Seq(Messages), NEW m \in Messages, NEW t, t = Append(ms, m)
  PROVE  /\ t \in Seq(Messages) /\ Len(t) = Len(ms) + 1 /\ Len(ms) \in Nat
         /\ t[Len(ms) + 1] = m
         /\ \A i \in 1..Len(ms) : t[i] = ms[i]
BY AppendProperties

LEMMA BehindMore ==
  ASSUME NEW ms \in Seq(Messages), NEW m \in Messages, m.role = "tool",
         NEW k \in 1..Len(ms), Behind(ms, k, Len(ms)), NEW t, t = Append(ms, m)
  PROVE  Behind(t, k, Len(t)) /\ t[k] = ms[k] /\ k \in 1..Len(t) /\ k \in 1..Len(t) - 1
<1>1. /\ Len(t) = Len(ms) + 1 /\ Len(ms) \in Nat /\ t[Len(ms) + 1] = m
      /\ \A i \in 1..Len(ms) : t[i] = ms[i]
  BY MessageAppended
<1>2. \A j \in k + 1..Len(t) : j \in k + 1..Len(ms) \/ j = Len(ms) + 1
  BY <1>1
<1>3. \A j \in k + 1..Len(ms) : j \in 1..Len(ms)
  BY <1>1
<1> QED
  BY <1>1, <1>2, <1>3 DEF Behind

LEMMA AppendPlaced ==
  ASSUME NEW ms \in Seq(Messages), NEW m \in Messages, NEW sums \in SUBSET Nat,
         AllPlaced(ms, sums), m.role = "tool" => Awaits(ms, m.id),
         NEW t, t = Append(ms, m)
  PROVE  AllPlaced(t, sums)
<1>1. /\ Len(t) = Len(ms) + 1 /\ Len(ms) \in Nat /\ t[Len(ms) + 1] = m
      /\ \A i \in 1..Len(ms) : t[i] = ms[i]
  BY MessageAppended
<1>2. ASSUME NEW i \in 1..Len(ms) PROVE Placed(t, i, sums)
  <2> SUFFICES ASSUME t[i].role = "tool" PROVE \E k \in 1..i - 1 : PlacedBehind(t, i, k, sums)
    BY DEF Placed
  <2>1. t[i] = ms[i] /\ Placed(ms, i, sums)
    BY <1>1 DEF AllPlaced
  <2>2. PICK k \in 1..i - 1 : PlacedBehind(ms, i, k, sums)
    BY <2>1 DEF Placed
  <2>3. t[k] = ms[k] /\ \A j \in k + 1..i : t[j] = ms[j]
    BY <1>1
  <2>4. PlacedBehind(t, i, k, sums)
    BY <2>1, <2>2, <2>3 DEF PlacedBehind, Behind
  <2> QED
    BY <2>4
<1>3. Placed(t, Len(ms) + 1, sums)
  <2> SUFFICES ASSUME m.role = "tool"
               PROVE  \E k \in 1..(Len(ms) + 1) - 1 : PlacedBehind(t, Len(ms) + 1, k, sums)
    BY <1>1 DEF Placed
  <2>1. PICK k \in 1..Len(ms) : Behind(ms, k, Len(ms)) /\ Requests(ms[k], m.id)
    BY DEF Awaits
  <2>2. Behind(t, k, Len(t)) /\ t[k] = ms[k]
    BY <2>1, BehindMore
  <2>3. PlacedBehind(t, Len(ms) + 1, k, sums)
    BY <1>1, <2>1, <2>2 DEF PlacedBehind
  <2> QED
    BY <1>1, <2>3
<1> QED
  BY <1>1, <1>2, <1>3 DEF AllPlaced

(* A rebuilt conversation has its head before what the log holds of it.      *)
Prefixed(t, a, b, ms) == t = <<a, b>> \o ms

LEMMA HeadPlaced ==
  ASSUME NEW ms \in Seq(Messages), AllPlaced(ms, {}),
         NEW a \in Messages, NEW b \in Messages, a.role = "system", b.role = "user",
         NEW t, Prefixed(t, a, b, ms)
  PROVE  AllPlaced(t, {3}) /\ Len(t) = Len(ms) + 2 /\ t[1] = a /\ t[2] = b
<1>1. /\ <<a, b>> \in Seq(Messages) /\ Len(<<a, b>>) = 2
      /\ <<a, b>>[1] = a /\ <<a, b>>[2] = b
  OBVIOUS
<1>2. /\ Len(t) = Len(ms) + 2 /\ Len(ms) \in Nat /\ t[1] = a /\ t[2] = b
      /\ \A i \in 1..Len(ms) : t[i + 2] = ms[i]
  <2>1. /\ Len(t) = 2 + Len(ms) /\ Len(ms) \in Nat
        /\ \A i \in 1..2 + Len(ms) : t[i] = IF i <= 2 THEN <<a, b>>[i] ELSE ms[i - 2]
    BY <1>1, ConcatProperties DEF Prefixed
  <2>2. ASSUME NEW i \in 1..Len(ms) PROVE t[i + 2] = ms[i]
    <3>1. i + 2 \in 1..2 + Len(ms) /\ ~(i + 2 <= 2) /\ (i + 2) - 2 = i
      BY <2>1
    <3> QED
      BY <2>1, <3>1
  <2>3. t[1] = a /\ t[2] = b
    BY <1>1, <2>1
  <2> QED
    BY <2>1, <2>2, <2>3
<1>3. ASSUME NEW i \in 1..Len(t) PROVE Placed(t, i, {3})
  <2> SUFFICES ASSUME t[i].role = "tool" PROVE \E k \in 1..i - 1 : PlacedBehind(t, i, k, {3})
    BY DEF Placed
  <2>1. i # 1 /\ i # 2
    BY <1>2
  <2>2. PICK o \in 1..Len(ms) : i = o + 2 /\ t[i] = ms[o]
    <3>1. i - 2 \in 1..Len(ms) /\ (i - 2) + 2 = i
      BY <1>2, <2>1
    <3> QED
      BY <1>2, <3>1
  <2>3. PICK k \in 1..o - 1 : PlacedBehind(ms, o, k, {})
    BY <2>2 DEF AllPlaced, Placed
  <2>4. k \in 1..Len(ms) /\ t[k + 2] = ms[k] /\ k + 2 \in 1..i - 1
    BY <1>2, <2>2
  <2>5. ASSUME NEW j \in (k + 2) + 1..i PROVE t[j].role = "tool"
    <3>1. j - 2 \in k + 1..o /\ j - 2 \in 1..Len(ms) /\ (j - 2) + 2 = j
      BY <1>2, <2>2, <2>4
    <3>2. t[j] = ms[j - 2]
      BY <1>2, <3>1
    <3> QED
      BY <2>3, <3>1, <3>2 DEF PlacedBehind, Behind
  <2>6. PlacedBehind(t, i, k + 2, {3})
    BY <2>2, <2>3, <2>4, <2>5 DEF PlacedBehind, Behind
  <2> QED
    BY <2>4, <2>6
<1> QED
  BY <1>2, <1>3 DEF AllPlaced


Joins(t, a, b) ==
  /\ t \in Seq(Messages) /\ Len(t) = Len(a) + Len(b)
  /\ \A i \in 1..Len(a) + Len(b) : t[i] = IF i <= Len(a) THEN a[i] ELSE b[i - Len(a)]

LEMMA Joined ==
  ASSUME NEW a \in Seq(Messages), NEW b \in Seq(Messages)
  PROVE  Joins(a \o b, a, b)
BY ConcatProperties DEF Joins

(* What a compaction leaves: the head, the summary and the last four.        *)
Compacted(c, ms, s, n) == /\ c \in Seq(Messages) /\ Len(c) = 7
                          /\ c[1] = ms[1] /\ c[2] = ms[2] /\ c[3] = s
                          /\ \A i \in 4..7 : c[i] = ms[(n - 7) + i]

LEMMA CompactIs ==
  ASSUME NEW ms \in Seq(Messages), NEW s \in Messages, Len(ms) > 6
  PROVE  Compacted(Compact(ms, s), ms, s, Len(ms))
<1> SUFFICES ASSUME NEW n \in Nat, n = Len(ms), NEW c, c = Compact(ms, s)
             PROVE  Compacted(c, ms, s, n)
  OBVIOUS
<1> DEFINE a == SubSeq(ms, 1, 2)
           b == a \o <<s>>
           t == SubSeq(ms, n - 3, n)
<1>1. /\ a \in Seq(Messages) /\ Len(a) = 2 /\ a[1] = ms[1] /\ a[2] = ms[2]
  BY SubSeqProperties
<1>2. /\ t \in Seq(Messages) /\ Len(t) = 4 /\ \A i \in 1..4 : t[i] = ms[((n - 3) + i) - 1]
  BY SubSeqProperties
<1>3. <<s>> \in Seq(Messages) /\ Len(<<s>>) = 1 /\ <<s>>[1] = s
  OBVIOUS
<1>4. c = b \o t
  BY DEF Compact
<1> HIDE DEF a, b, t
<1>5. /\ b \in Seq(Messages) /\ Len(b) = 3 /\ b[1] = ms[1] /\ b[2] = ms[2] /\ b[3] = s
  <2> DEFINE o == <<s>>
  <2>0. o \in Seq(Messages) /\ Len(o) = 1 /\ o[1] = s /\ b = a \o o
    BY <1>3 DEF b
  <2> HIDE DEF o
  <2>1. Joins(b, a, o)
    BY <1>1, <2>0, Joined
  <2> QED
    BY <1>1, <2>0, <2>1 DEF Joins
<1>6. /\ c \in Seq(Messages) /\ Len(c) = 7
      /\ \A i \in 1..7 : c[i] = IF i <= 3 THEN b[i] ELSE t[i - 3]
  <2>1. Joins(c, b, t)
    BY <1>2, <1>4, <1>5, Joined
  <2> QED
    BY <1>2, <1>5, <2>1 DEF Joins
<1>7. ASSUME NEW i \in 4..7 PROVE c[i] = ms[(n - 7) + i]
  <2>1. i - 3 \in 1..4 /\ ((n - 3) + (i - 3)) - 1 = (n - 7) + i
    OBVIOUS
  <2>2. c[i] = t[i - 3]
    BY <1>6
  <2>3. t[i - 3] = ms[((n - 3) + (i - 3)) - 1]
    BY <1>2, <2>1
  <2> QED
    BY <2>1, <2>2, <2>3
<1> QED
  BY <1>5, <1>6, <1>7 DEF Compacted

(* It keeps a result with its request, or puts it behind the summary.        *)
LEMMA CompactPlaced ==
  ASSUME NEW ms \in Seq(Messages), AllPlaced(ms, {3}), Len(ms) > 6,
         ms[1].role = "system", ms[2].role = "user",
         NEW s \in Messages, s.role = "system",
         NEW c, c = Compact(ms, s)
  PROVE  AllPlaced(c, {3})
<1>0. PICK n \in Nat : n = Len(ms)
  OBVIOUS
<1>1. /\ c \in Seq(Messages) /\ Len(c) = 7
      /\ c[1] = ms[1] /\ c[2] = ms[2] /\ c[3] = s
      /\ \A i \in 4..7 : c[i] = ms[(n - 7) + i]
  BY <1>0, CompactIs DEF Compacted
<1> SUFFICES ASSUME NEW i \in 4..7, c[i].role = "tool"
             PROVE  \E k \in 1..i - 1 : PlacedBehind(c, i, k, {3})
  <2>1. \A i \in 1..7 : i \in 4..7 \/ i = 1 \/ i = 2 \/ i = 3
    OBVIOUS
  <2> QED
    BY <1>1, <2>1 DEF AllPlaced, Placed
<1>2. (n - 7) + i \in 1..n /\ c[i] = ms[(n - 7) + i]
  <2>1. (n - 7) + i \in 1..n
    BY <1>0
  <2> QED
    BY <1>1, <2>1
<1>3. PICK k \in 1..((n - 7) + i) - 1 : PlacedBehind(ms, (n - 7) + i, k, {3})
  <2> DEFINE o == (n - 7) + i
  <2>1. o \in 1..Len(ms) /\ ms[o].role = "tool"
    <3>1. o \in 1..Len(ms)
      BY <1>0, <1>2
    <3> QED
      BY <1>2, <3>1
  <2> HIDE DEF o
  <2>2. \E k \in 1..o - 1 : PlacedBehind(ms, o, k, {3})
    BY <2>1 DEF AllPlaced, Placed
  <2> QED
    BY <2>2 DEF o
<1>4. CASE k \in (n - 7) + 4..n
  <2>1. /\ k - (n - 7) \in 4..7 /\ k - (n - 7) \in 1..i - 1
        /\ (n - 7) + (k - (n - 7)) = k
    BY <1>3, <1>4
  <2>2. c[k - (n - 7)] = ms[k]
    BY <1>1, <2>1
  <2>3. ASSUME NEW j \in (k - (n - 7)) + 1..i PROVE c[j].role = "tool"
    <3>1. j \in 4..7 /\ (n - 7) + j \in k + 1..(n - 7) + i
      BY <2>1
    <3>2. c[j] = ms[(n - 7) + j]
      BY <1>1, <3>1
    <3> QED
      BY <1>3, <3>1, <3>2 DEF PlacedBehind, Behind
  <2>4. k # 3
    BY <1>0, <1>4
  <2>5. PlacedBehind(c, i, k - (n - 7), {3})
    BY <1>2, <1>3, <2>2, <2>3, <2>4 DEF PlacedBehind, Behind
  <2> QED
    BY <2>1, <2>5
<1>5. CASE ~(k \in (n - 7) + 4..n)
  <2>1. k < (n - 7) + 4
    BY <1>3, <1>5
  <2>2. ASSUME NEW j \in 4..i PROVE c[j].role = "tool"
    <3>1. j \in 4..7 /\ j <= i
      BY <2>2
    <3>2. (n - 7) + j \in k + 1..(n - 7) + i
      BY <1>3, <2>1, <3>1
    <3>3. c[j] = ms[(n - 7) + j]
      BY <1>1, <3>1
    <3> QED
      BY <1>3, <3>2, <3>3 DEF PlacedBehind, Behind
  <2>3. PlacedBehind(c, i, 3, {3})
    BY <1>1, <2>2 DEF PlacedBehind, Behind
  <2>4. 3 \in 1..i - 1
    OBVIOUS
  <2> QED
    BY <2>3, <2>4
<1> QED
  BY <1>4, <1>5


-----------------------------------------------------------------------------
(* What LoadTranscript makes of an orderly log has every result behind its   *)
(* request: the last completion read has only results behind it.             *)
Open(ms, m) == \E k \in 1..Len(ms) : ms[k] = m /\ Behind(ms, k, Len(ms))

Paired(s, n, ms) ==
  /\ ms \in Seq(Messages)
  /\ AllPlaced(ms, {})
  /\ \A i \in 1..n :
       s[i].kind = "llm" /\ (\A q \in i + 1..n : s[q].kind # "llm")
         => Open(ms, s[i].payload.msg)

LEMMA StillOpen ==
  ASSUME NEW ms \in Seq(Messages), NEW m \in Messages, m.role = "tool",
         NEW t, t = Append(ms, m), NEW o, Open(ms, o)
  PROVE  Open(t, o)
<1>1. PICK k \in 1..Len(ms) : ms[k] = o /\ Behind(ms, k, Len(ms))
  BY DEF Open
<1>2. Behind(t, k, Len(t)) /\ t[k] = ms[k] /\ k \in 1..Len(t)
  BY <1>1, BehindMore
<1> QED
  BY <1>1, <1>2 DEF Open

LEMMA OpenAwaits ==
  ASSUME NEW ms \in Seq(Messages), NEW o, Open(ms, o), NEW id, Requests(o, id)
  PROVE  Awaits(ms, id)
BY DEF Open, Awaits

LEMMA AnswerIsMessage ==
  ASSUME NEW e \in Events, Terminal(e)
  PROVE  /\ ToolMessage(e.payload.id, Content(e.payload)) \in Messages
         /\ ToolMessage(e.payload.id, Content(e.payload)).role = "tool"
         /\ ToolMessage(e.payload.id, Content(e.payload)).id = e.payload.id
         /\ e.payload.id \in Ids
<1>1. e.kind = "tool" /\ e.payload \in Tools
  BY EventParts DEF Terminal
<1>2. Content(e.payload) \in Texts /\ e.payload.id \in Ids
  BY <1>1 DEF Content, Tools, Texts
<1>3. ToolMessage(e.payload.id, Content(e.payload)) \in Messages
  BY <1>2, MessageTypes, EmptySeq DEF Roles
<1> QED
  BY <1>2, <1>3 DEF ToolMessage

LEMMA PairedStep ==
  ASSUME NEW s \in Seq(Events), NEW n \in Nat, n + 1 <= Len(s), Orderly(s, n + 1),
         NEW r \in Nat, NEW lt \in Transcripts(r), NEW u, u = LoadEvent(lt, s[n + 1]),
         Paired(s, n, lt.messages)
  PROVE  Paired(s, n + 1, u.messages)
<1> DEFINE ms == lt.messages
           e == s[n + 1]
<1>1. e \in Events /\ ms \in Seq(Messages) /\ AllPlaced(ms, {})
  <2>1. n + 1 \in 1..Len(s)
    OBVIOUS
  <2>2. e \in Events
    BY <2>1
  <2>3. ms \in Seq(Messages) /\ AllPlaced(ms, {})
    BY DEF Paired
  <2> QED
    BY <2>2, <2>3
<1>2. \A i \in 1..n + 1 : i \in 1..n \/ i = n + 1
  OBVIOUS
<1>3. CASE e.kind = "llm"
  <2> DEFINE m == e.payload.msg
             t == Append(ms, m)
  <2>1. u.messages = t
    BY <1>1, <1>3, LoadEventIs
  <2>2. m \in Messages /\ m.role # "tool"
    BY <1>1, <1>3, EventParts DEF LLMs, Orderly, SaidInTurn
  <2> HIDE DEF m
  <2>3. /\ t \in Seq(Messages) /\ Len(t) = Len(ms) + 1 /\ Len(ms) \in Nat
        /\ t[Len(ms) + 1] = m
    BY <1>1, <2>2, MessageAppended
  <2>4. AllPlaced(t, {})
    BY <1>1, <2>2, AppendPlaced
  <2> HIDE DEF t, ms
  <2>5. Open(t, m)
    <3>1. /\ Len(ms) + 1 \in 1..Len(t) /\ (Len(ms) + 1) + 1..Len(t) = {}
      BY <2>3
    <3>2. Behind(t, Len(ms) + 1, Len(t))
      BY <2>2, <2>3, <3>1 DEF Behind
    <3> QED
      BY <2>3, <3>1, <3>2 DEF Open
  <2>6. ASSUME NEW i \in 1..n + 1, s[i].kind = "llm", \A q \in i + 1..n + 1 : s[q].kind # "llm"
        PROVE  Open(t, s[i].payload.msg)
    <3>1. ~(i \in 1..n)
      <4>1. i \in 1..n => n + 1 \in i + 1..n + 1
        OBVIOUS
      <4> QED
        BY <1>3, <2>6, <4>1
    <3> QED
      BY <1>2, <2>5, <3>1 DEF m
  <2> QED
    BY <2>1, <2>3, <2>4, <2>6 DEF Paired
<1>4. CASE NewAnswer(lt, e)
  <2> DEFINE m == ToolMessage(e.payload.id, Content(e.payload))
             t == Append(ms, m)
  <2>1. u.messages = t
    BY <1>1, <1>4, LoadEventIs
  <2>2. m \in Messages /\ m.role = "tool" /\ m.id = e.payload.id
    BY <1>1, <1>4, AnswerIsMessage DEF NewAnswer
  <2> HIDE DEF m
  <2>3. e.kind # "llm" /\ Terminal(e)
    BY <1>4 DEF NewAnswer, Terminal
  <2>4. PICK i \in 1..n : /\ s[i].kind = "llm"
                          /\ \A q \in i + 1..n : s[q].kind # "llm"
                          /\ Requests(s[i].payload.msg, e.payload.id)
    <3>1. (n + 1) - 1 = n
      OBVIOUS
    <3>2. \E i \in 1..n :
            /\ s[i].kind = "llm"
            /\ \A q \in i + 1..n : s[q].kind # "llm"
            /\ \E x \in 1..Len(s[i].payload.msg.calls) :
                 s[i].payload.msg.calls[x].id = e.payload.id
      BY <2>3, <3>1 DEF Orderly, FromCompletion
    <3> QED
      BY <3>2 DEF Requests
  <2>5. Open(ms, s[i].payload.msg)
    BY <2>4 DEF Paired
  <2>6. Awaits(ms, m.id)
    BY <1>1, <2>2, <2>4, <2>5, OpenAwaits
  <2>7. AllPlaced(t, {})
    BY <1>1, <2>2, <2>6, AppendPlaced
  <2>8. t \in Seq(Messages)
    BY <1>1, <2>2, MessageAppended
  <2>9. ASSUME NEW j \in 1..n + 1, s[j].kind = "llm", \A q \in j + 1..n + 1 : s[q].kind # "llm"
        PROVE  Open(t, s[j].payload.msg)
    <3>1. j \in 1..n /\ \A q \in j + 1..n : q \in j + 1..n + 1
      BY <1>2, <2>3, <2>9
    <3>2. Open(ms, s[j].payload.msg)
      BY <2>9, <3>1 DEF Paired
    <3> DEFINE o == s[j].payload.msg
    <3>3. t = Append(ms, m) /\ Open(ms, o)
      BY <3>2
    <3> HIDE DEF o, t
    <3>4. Open(t, o)
      BY <1>1, <2>2, <3>3, StillOpen
    <3> QED
      BY <3>4 DEF o
  <2> HIDE DEF t
  <2> QED
    BY <2>1, <2>7, <2>8, <2>9 DEF Paired
<1>5. CASE e.kind # "llm" /\ ~NewAnswer(lt, e)
  <2>1. u.messages = ms
    BY <1>1, <1>5, LoadEventIs
  <2>2. ASSUME NEW j \in 1..n + 1, s[j].kind = "llm", \A q \in j + 1..n + 1 : s[q].kind # "llm"
        PROVE  Open(ms, s[j].payload.msg)
    <3>1. j \in 1..n /\ \A q \in j + 1..n : q \in j + 1..n + 1
      BY <1>2, <1>5, <2>2
    <3> QED
      BY <2>2, <3>1 DEF Paired
  <2> QED
    BY <1>1, <2>1, <2>2 DEF Paired
<1> QED
  BY <1>3, <1>4, <1>5 DEF NewAnswer, Terminal

LEMMA TranscriptPaired ==
  ASSUME NEW s \in Seq(Events), NEW r \in Nat, RunsUpTo(s, r),
         \A k \in 1..Len(s) : Orderly(s, k)
  PROVE  Paired(s, Len(s), LoadTranscript(s).messages)
<1>1. PICK f \in [0..Len(s) -> Transcripts(r)] : LoadsAs(s, f) /\ LoadTranscript(s) = f[Len(s)]
  BY LoadIsFold
<1> DEFINE N == Len(s)
           S == {n \in 0..N : Paired(s, n, f[n].messages)}
<1>2. N \in Nat
  OBVIOUS
<1>3. 0 \in S
  <2>1. f[0] = EmptyTranscript
    BY <1>1, <1>2 DEF LoadsAs
  <2>0. << >> \in Seq(Messages) /\ Len(<< >>) = 0
    BY EmptySeq
  <2>4. EmptyTranscript.messages = << >>
    BY DEF EmptyTranscript
  <2>2. f[0].messages = << >> /\ << >> \in Seq(Messages) /\ Len(<< >>) = 0
    BY <2>0, <2>1, <2>4
  <2>3. Paired(s, 0, << >>)
    BY <2>2 DEF Paired, AllPlaced
  <2> QED
    BY <1>2, <2>2, <2>3
<1>4. ASSUME NEW n \in 0..N - 1, n \in S PROVE n + 1 \in S
  <2>1. n \in Nat /\ n + 1 \in 1..N /\ n + 1 <= N /\ (n + 1) - 1 = n /\ n \in 0..N /\ n + 1 \in 0..N
    BY <1>2
  <2>2. f[n + 1] = LoadEvent(f[n], s[n + 1]) /\ f[n] \in Transcripts(r)
    <3>1. f[n] \in Transcripts(r)
      BY <1>1, <2>1
    <3>2. n + 1 # 0
      BY <2>1
    <3>3. f[n + 1] = LoadEvent(f[n], s[n + 1])
      BY <1>1, <2>1, <3>2 DEF LoadsAs
    <3> QED
      BY <3>1, <3>3
  <2>3. Paired(s, n, f[n].messages) /\ Orderly(s, n + 1)
    BY <1>4, <2>1
  <2>4. Paired(s, n + 1, f[n + 1].messages)
    BY <2>1, <2>2, <2>3, PairedStep
  <2> QED
    BY <2>1, <2>4
<1> HIDE DEF S
<1>5. 0..N \subseteq S
  BY <1>2, <1>3, <1>4, UpTo
<1> QED
  BY <1>1, <1>2, <1>5 DEF S


-----------------------------------------------------------------------------
(* The conversation a process is in, and how a step changes it.              *)
Conversing == pc \notin {"down", "load"}
CallStages == {"dispatch", "reject", "invoke", "record"}

LeavesAlone == /\ Conversing /\ UNCHANGED <<messages, calls>>
               /\ pc' \in CallStages => pc \in CallStages
Begins(l) == messages' = <<SystemPrompt, Message("user", l.goal)>> /\ pc' = "start"
Condenses == /\ pc = "top" /\ pc' = "call"
             /\ messages' \in IF ShouldCompact(messages)
                                THEN {Compact(messages, s) : s \in Summaries}
                                ELSE {messages}
Asks(r) == /\ pc = "call" /\ messages' = Append(messages, Completion(r))
           /\ calls' = Completion(r).calls /\ pc' \in {"answer", "dispatch"}
Answers(content) == /\ pc \in CallStages /\ pc' = "dispatch"
                    /\ calls # <<>> /\ Reply(Head(calls), content)

LEMMA ConversationStep ==
  ASSUME TypeInv, [Next]_vars, Conversing'
  PROVE  \/ LeavesAlone \/ Condenses
         \/ \E l \in Launches : Begins(l)
         \/ Load
         \/ \E r \in Responses : Asks(r)
         \/ \E content \in Texts : Answers(content)
<1>1. CASE Launch
  BY <1>1 DEF Launch, Begins, Conversing
<1>2. CASE BeginTurn
  BY <1>2 DEF BeginTurn, AppendError, Exit, Condenses, Conversing
<1>3. CASE CallLLM
  BY <1>3 DEF CallLLM, AppendError, Exit, Asks, Conversing
<1>4. CASE DispatchUnknown
  BY <1>4 DEF DispatchUnknown, Answers, CallStages, Texts
<1>5. CASE RecordInvalid
  BY <1>5 DEF RecordInvalid, Answers, CallStages, Texts, TypeInv
<1>6. CASE Result
  BY <1>6 DEF Result, Answers, CallStages, Texts, TypeInv, TypeOK
<1>7. CASE Intent
  BY <1>7 DEF Intent, AppendError, Exit, LeavesAlone, convVars, Conversing, CallStages
<1>8. CASE DispatchInvalid \/ Invoke
  BY <1>8 DEF DispatchInvalid, Invoke, LeavesAlone, convVars, Conversing, CallStages
<1>9. CASE RunStart \/ TurnEnd \/ Answer \/ Finish \/ LLMFail
  BY <1>9 DEF RunStart, TurnEnd, Answer, Finish, LLMFail, AppendError, Exit, LeavesAlone,
              convVars, Conversing, CallStages
<1>10. CASE ScanLine \/ ScanDone \/ StopTurns \/ StopWallClock \/ StopTokens \/ StopTools
  BY <1>10 DEF ScanLine, ScanDone, StopTurns, StopWallClock, StopTokens, StopTools, Stop,
               LeavesAlone, convVars, Conversing, CallStages
<1>11. CASE UNCHANGED vars
  BY <1>11 DEF vars, convVars, LeavesAlone, Conversing
<1>12. CASE BootstrapFail \/ End \/ Crash
  BY <1>12 DEF BootstrapFail, End, Crash, Exit, Conversing
<1> QED
  BY <1>1, <1>2, <1>3, <1>4, <1>5, <1>6, <1>7, <1>8, <1>9, <1>10, <1>11, <1>12 DEF Next


(* It starts with a system message and one of the user's, and its results    *)
(* are placed; while calls are dispatched, their request is the last message *)
(* that is no result.                                                        *)
Shaped(ms) == /\ Len(ms) >= 2 /\ ms[1] = SystemPrompt /\ ms[2].role = "user"
              /\ AllPlaced(ms, {3})

AllRequested(m, asked) == \A x \in 1..Len(asked) : Requests(m, asked[x].id)
Serves(ms, asked) ==
  \E k \in 1..Len(ms) : Behind(ms, k, Len(ms)) /\ AllRequested(ms[k], asked)

ShapeInv == /\ Conversing => Shaped(messages)
            /\ pc \in CallStages => Serves(messages, calls)

LEMMA Heads ==
  ASSUME NEW goal \in Texts
  PROVE  /\ SystemPrompt \in Messages /\ SystemPrompt.role = "system"
         /\ Message("user", goal) \in Messages /\ Message("user", goal).role = "user"
<1>1. "prompt" \in Texts /\ {"system", "user"} \subseteq Roles /\ << >> \in Ids
      /\ << >> \in Seq(ToolCalls)
  BY EmptySeq DEF Texts, Roles, Ids
<1> QED
  BY <1>1, MessageTypes DEF SystemPrompt, Message

LEMMA GrowsShaped ==
  ASSUME NEW ms \in Seq(Messages), Shaped(ms), NEW m \in Messages,
         m.role = "tool" => Awaits(ms, m.id), NEW t, t = Append(ms, m)
  PROVE  Shaped(t)
<1>1. AllPlaced(ms, {3}) /\ Len(ms) \in Nat /\ Len(ms) >= 2
  BY DEF Shaped
<1>2. AllPlaced(t, {3})
  <2> DEFINE sums == {3}
  <2>1. sums \in SUBSET Nat /\ AllPlaced(ms, sums)
    BY <1>1
  <2> HIDE DEF sums
  <2>2. AllPlaced(t, sums)
    BY <2>1, AppendPlaced
  <2> QED
    BY <2>2 DEF sums
<1>3. Len(t) = Len(ms) + 1 /\ \A i \in 1..Len(ms) : t[i] = ms[i]
  BY MessageAppended
<1>4. 1 \in 1..Len(ms) /\ 2 \in 1..Len(ms)
  BY <1>1
<1> QED
  BY <1>1, <1>2, <1>3, <1>4 DEF Shaped

LEMMA CompactShaped ==
  ASSUME NEW ms \in Seq(Messages), Shaped(ms), NEW s \in Messages, s.role = "system"
  PROVE  Shaped(Compact(ms, s))
<1>1. CASE Len(ms) <= 6
  BY <1>1 DEF Compact
<1>2. CASE Len(ms) > 6
  <2>1. Compacted(Compact(ms, s), ms, s, Len(ms))
    BY <1>2, CompactIs
  <2>2. ms[1].role = "system"
    BY Heads DEF Shaped, SystemPrompt, Message
  <2>3. AllPlaced(Compact(ms, s), {3})
    BY <1>2, <2>2, CompactPlaced DEF Shaped
  <2>4. ms[1] = SystemPrompt /\ ms[2].role = "user"
    BY DEF Shaped
  <2> QED
    BY <2>1, <2>3, <2>4 DEF Compacted, Shaped
<1>3. Len(ms) \in Nat
  OBVIOUS
<1> QED
  BY <1>1, <1>2, <1>3

(* A request is served, then each of its results.                            *)
LEMMA AskedServes ==
  ASSUME NEW ms \in Seq(Messages), NEW m \in Messages, m.role # "tool",
         NEW t, t = Append(ms, m)
  PROVE  Serves(t, m.calls)
<1>1. /\ t \in Seq(Messages) /\ Len(t) = Len(ms) + 1 /\ Len(ms) \in Nat
      /\ t[Len(ms) + 1] = m
  BY MessageAppended
<1>2. Len(ms) + 1 \in 1..Len(t) /\ (Len(ms) + 1) + 1..Len(t) = {}
  BY <1>1
<1>3. Behind(t, Len(ms) + 1, Len(t))
  BY <1>1, <1>2 DEF Behind
<1>4. AllRequested(m, m.calls)
  BY DEF AllRequested, Requests
<1> QED
  BY <1>1, <1>2, <1>3, <1>4 DEF Serves

LEMMA AnswerServes ==
  ASSUME NEW ms \in Seq(Messages), NEW asked \in Seq(ToolCalls), asked # << >>,
         Serves(ms, asked), NEW m \in Messages, m.role = "tool", m.id = Head(asked).id,
         NEW t, t = Append(ms, m)
  PROVE  Awaits(ms, m.id) /\ Serves(t, Tail(asked))
<1>1. PICK k \in 1..Len(ms) : Behind(ms, k, Len(ms)) /\ AllRequested(ms[k], asked)
  BY DEF Serves
<1>2. /\ Len(asked) \in Nat /\ Len(asked) >= 1 /\ Head(asked) = asked[1]
      /\ Len(Tail(asked)) = Len(asked) - 1
      /\ \A x \in 1..Len(Tail(asked)) : Tail(asked)[x] = asked[x + 1]
  <2>1. Len(asked) \in Nat /\ Len(asked) # 0
    BY EmptySeq
  <2> QED
    BY <2>1, HeadTailProperties
<1>3. Requests(ms[k], m.id)
  <2>1. 1 \in 1..Len(asked)
    BY <1>2
  <2> QED
    BY <1>1, <1>2, <2>1 DEF AllRequested
<1>4. Behind(t, k, Len(t)) /\ t[k] = ms[k] /\ k \in 1..Len(t)
  BY <1>1, BehindMore
<1>5. AllRequested(t[k], Tail(asked))
  <2>1. ASSUME NEW x \in 1..Len(Tail(asked)) PROVE Requests(t[k], Tail(asked)[x].id)
    <3>1. x + 1 \in 1..Len(asked)
      BY <1>2
    <3> QED
      BY <1>1, <1>2, <1>4, <3>1 DEF AllRequested
  <2> QED
    BY <2>1 DEF AllRequested
<1> QED
  BY <1>1, <1>3, <1>4, <1>5 DEF Awaits, Serves

LEMMA BeginsShaped ==
  ASSUME NEW goal \in Texts, NEW t, t = <<SystemPrompt, Message("user", goal)>>
  PROVE  Shaped(t)
<1> DEFINE a == SystemPrompt
           b == Message("user", goal)
<1>1. a \in Messages /\ a.role = "system" /\ b \in Messages /\ b.role = "user"
  BY Heads
<1>2. t = <<a, b>> /\ a = SystemPrompt
  OBVIOUS
<1> HIDE DEF a, b
<1>3. Len(t) = 2 /\ t[1] = a /\ t[2] = b
  BY <1>2
<1>4. AllPlaced(t, {3})
  <2>1. \A i \in 1..2 : i = 1 \/ i = 2
    OBVIOUS
  <2> QED
    BY <1>1, <1>3, <2>1 DEF AllPlaced, Placed
<1> QED
  BY <1>1, <1>2, <1>3, <1>4 DEF Shaped

(* A resumed conversation is its head and what LoadTranscript reads back.    *)
LEMMA LoadReads ==
  ASSUME TypeInv, Load
  PROVE  /\ LoadTranscript(log).messages \in Seq(Messages)
         /\ \E b \in Messages :
              /\ b.role = "user"
              /\ Prefixed(messages', SystemPrompt, b, LoadTranscript(log).messages)
<1> DEFINE lt == LoadTranscript(Scanned(log))
           goal == IF lt.goal # "" THEN lt.goal ELSE cfg.goal
           b == Message("user", goal)
<1>1. log \in Seq(Events) /\ RunsUpTo(log, runs) /\ runs \in Nat
  <2>1. runs \in 0..MaxRuns /\ log \in Seq(Events) /\ RunsUpTo(log, runs)
    BY DEF TypeInv, TypeOK
  <2> QED
    BY <2>1, LimitAssumption
<1>2. Scanned(log) = log
  BY ScannedWhole DEF Load
<1>3. LoadTranscript(log) \in Transcripts(runs) /\ cfg \in Launched
  BY <1>1, TranscriptType DEF TypeInv, TypeOK
<1>4. messages' = <<SystemPrompt, b>> \o lt.messages /\ lt \in Transcripts(runs)
  BY <1>2, <1>3 DEF Load, Rebuilt
<1>5. goal \in Texts
  <2> HIDE DEF lt
  <2>1. lt.goal \in Texts /\ cfg.goal \in Texts
    BY <1>3, <1>4 DEF Transcripts, Launched
  <2> QED
    BY <2>1
<1>6. b \in Messages /\ b.role = "user"
  <2> HIDE DEF goal
  <2> QED
    BY <1>5, Heads
<1> HIDE DEF b
<1>7. Prefixed(messages', SystemPrompt, b, LoadTranscript(log).messages)
  BY <1>2, <1>4 DEF Prefixed
<1>8. LoadTranscript(log).messages \in Seq(Messages)
  BY <1>3 DEF Transcripts
<1> QED
  BY <1>6, <1>7, <1>8

LEMMA LoadShaped ==
  ASSUME TypeInv, RecordInv, Load
  PROVE  Shaped(messages')
<1> DEFINE ms == LoadTranscript(log).messages
<1>1. log \in Seq(Events) /\ RunsUpTo(log, runs) /\ runs \in Nat
  <2>1. runs \in 0..MaxRuns /\ log \in Seq(Events) /\ RunsUpTo(log, runs)
    BY DEF TypeInv, TypeOK
  <2> QED
    BY <2>1, LimitAssumption
<1>2. Paired(log, Len(log), ms)
  BY <1>1, TranscriptPaired DEF RecordInv, Indices
<1>3. ms \in Seq(Messages) /\ AllPlaced(ms, {}) /\ Len(ms) \in Nat
  <2>1. ms \in Seq(Messages) /\ AllPlaced(ms, {})
    BY <1>2 DEF Paired
  <2> QED
    BY <2>1
<1>4. PICK b \in Messages : b.role = "user" /\ Prefixed(messages', SystemPrompt, b, ms)
  BY LoadReads
<1>5. SystemPrompt \in Messages /\ SystemPrompt.role = "system"
  <2>1. "" \in Texts
    BY DEF Texts
  <2> QED
    BY <2>1, Heads
<1> HIDE DEF ms
<1>6. PICK t : t = messages'
  OBVIOUS
<1>7. Prefixed(t, SystemPrompt, b, ms)
  BY <1>4, <1>6
<1>8. AllPlaced(t, {3}) /\ Len(t) = Len(ms) + 2 /\ t[1] = SystemPrompt /\ t[2] = b
  BY <1>3, <1>4, <1>5, <1>7, HeadPlaced
<1> QED
  BY <1>3, <1>4, <1>6, <1>8 DEF Shaped


LEMMA SummaryTypes ==
  \A s \in Summaries : s \in Messages /\ s.role = "system"
<1>1. WindowSummary \in Messages /\ ModelSummary \in Messages
  BY EmptySeq, MessageTypes DEF WindowSummary, ModelSummary, Roles, Texts, Ids
<1>2. WindowSummary.role = "system" /\ ModelSummary.role = "system"
  BY DEF WindowSummary, ModelSummary, Message
<1> QED
  BY <1>1, <1>2 DEF Summaries

LEMMA ShapeStep ==
  ASSUME TypeInv, RecordInv, ShapeInv, [Next]_vars
  PROVE  ShapeInv'
<1> SUFFICES ASSUME Conversing'
             PROVE  Shaped(messages') /\ (pc' \in CallStages => Serves(messages', calls'))
  <2>1. ~Conversing' => pc' \notin CallStages
    BY DEF Conversing, CallStages
  <2> QED
    BY <2>1 DEF ShapeInv
<1>0. /\ messages \in Seq(Messages) /\ calls \in Seq(ToolCalls)
      /\ pc \in CallStages \cup {"top", "call"} => Conversing
  <2>1. pc \in CallStages \cup {"top", "call"} => Conversing
    BY DEF CallStages, Conversing
  <2> QED
    BY <2>1 DEF TypeInv
<1>1. CASE LeavesAlone
  BY <1>1 DEF LeavesAlone, ShapeInv
<1>2. CASE \E l \in Launches : Begins(l)
  <2>1. PICK l \in Launches : Begins(l)
    BY <1>2
  <2>2. l.goal \in Texts
    BY LaunchAssumption DEF Launched
  <2>3. pc' \notin CallStages
    BY <2>1 DEF Begins, CallStages
  <2> QED
    BY <2>1, <2>2, <2>3, BeginsShaped DEF Begins
<1>3. CASE Load
  <2>1. pc' \notin CallStages
    BY <1>3 DEF Load, CallStages
  <2> QED
    BY <1>3, <2>1, LoadShaped
<1>4. CASE Condenses
  <2>1. Shaped(messages) /\ pc' \notin CallStages
    BY <1>0, <1>4 DEF Condenses, CallStages, ShapeInv
  <2>2. \A s \in Summaries : Shaped(Compact(messages, s))
    BY <1>0, <2>1, SummaryTypes, CompactShaped
  <2> QED
    BY <1>4, <2>1, <2>2 DEF Condenses
<1>5. CASE \E r \in Responses : Asks(r)
  <2>1. PICK r \in Responses : Asks(r)
    BY <1>5
  <2>2. Shaped(messages)
    BY <1>0, <2>1 DEF Asks, ShapeInv
  <2> DEFINE m == Completion(r)
  <2>3. m \in Messages /\ m.role # "tool"
    <3>1. m.role = "assistant"
      BY DEF Completion, Assistant
    <3> QED
      BY <3>1, CompletionTyped
  <2>4. messages' = Append(messages, m) /\ calls' = m.calls
    BY <2>1 DEF Asks
  <2> HIDE DEF m
  <2>5. Shaped(messages')
    BY <1>0, <2>2, <2>3, <2>4, GrowsShaped
  <2>6. Serves(messages', calls')
    BY <1>0, <2>3, <2>4, AskedServes
  <2> QED
    BY <2>5, <2>6
<1>6. CASE \E content \in Texts : Answers(content)
  <2>1. PICK content \in Texts : Answers(content)
    BY <1>6
  <2>2. Shaped(messages) /\ Serves(messages, calls) /\ calls # << >>
    BY <1>0, <2>1 DEF Answers, ShapeInv
  <2> DEFINE m == ToolMessage(Head(calls).id, content)
  <2>3. m \in Messages /\ m.role = "tool" /\ m.id = Head(calls).id
    <3>1. Head(calls) \in ToolCalls
      BY <1>0, <2>2, HeadTailProperties
    <3>2. Head(calls).id \in Ids
      BY <3>1 DEF ToolCalls
    <3>3. m \in Messages
      BY <3>2, EmptySeq, MessageTypes DEF Roles
    <3> QED
      BY <3>3 DEF ToolMessage
  <2>4. messages' = Append(messages, m) /\ calls' = Tail(calls)
    BY <2>1 DEF Answers, Reply
  <2> HIDE DEF m
  <2>5. Awaits(messages, m.id) /\ Serves(messages', Tail(calls))
    BY <1>0, <2>2, <2>3, <2>4, AnswerServes
  <2>6. Shaped(messages')
    BY <1>0, <2>2, <2>3, <2>4, <2>5, GrowsShaped
  <2> QED
    BY <2>4, <2>5, <2>6
<1> QED
  BY <1>1, <1>2, <1>3, <1>4, <1>5, <1>6, ConversationStep

(* Whatever is resumed or compacted, a conversation starts with the system   *)
(* prompt and a user message and every result in it is placed.               *)
THEOREM ConversationShaped == Spec => []ShapeInv
<1>1. Init => ShapeInv
  BY DEF Init, ShapeInv, Conversing, CallStages
<1>2. TypeInv /\ RecordInv /\ ShapeInv /\ [Next]_vars => ShapeInv'
  BY ShapeStep
<1> QED
  BY <1>1, <1>2, AgentInv, RecordsOrderly, PTL DEF Spec

-----------------------------------------------------------------------------
(* The last message that is no result, as the property finds it.             *)
LEMMA LastSpoken ==
  ASSUME NEW ms \in Seq(Messages), NEW i \in 1..Len(ms), NEW k \in 1..i - 1,
         Behind(ms, k, i)
  PROVE  SelectLastInSubSeq(ms, 1, i, LAMBDA m : m.role # "tool") = k
<1> DEFINE I == {j \in 1..i : ms[j].role # "tool"}
<1>1. i \in Nat /\ k \in 1..i /\ ms[k].role # "tool"
  BY DEF Behind
<1>2. k \in I
  BY <1>1
<1>3. SelectLastInSubSeq(ms, 1, i, LAMBDA m : m.role # "tool") = Max(I)
  <2>1. I # {}
    BY <1>2
  <2> QED
    BY <2>1 DEF SelectLastInSubSeq
<1>4. \A j \in I : j <= k
  <2> SUFFICES ASSUME NEW j \in I, ~(j <= k) PROVE FALSE
    OBVIOUS
  <2>1. j \in k + 1..i /\ ms[j].role # "tool"
    OBVIOUS
  <2> QED
    BY <2>1 DEF Behind
<1>5. Max(I) = k
  <2>1. \A j \in I : j \in Nat /\ k >= j
    BY <1>1, <1>4
  <2>2. \A x \in I : (\A j \in I : x >= j) => x = k
    BY <1>1, <1>2, <2>1
  <2> HIDE DEF I
  <2> QED
    BY <1>2, <2>1, <2>2 DEF Max
<1> QED
  BY <1>3, <1>5

(* The endpoint is never sent a result that stands away from its request,    *)
(* but for those of a request a compaction elided: they stand directly       *)
(* behind the summary. Resumes and crashes included.                         *)
THEOREM ResultsPaired == Spec => []OrphansBehindSummary
<1>1. ASSUME TypeInv, ShapeInv PROVE OrphansBehindSummary
  <2> SUFFICES ASSUME pc = "call", NEW i \in DOMAIN messages, messages[i].role = "tool"
               PROVE  LET k == SelectLastInSubSeq(messages, 1, i, LAMBDA m : m.role # "tool")
                      IN  \/ \E c \in ToSet(messages[k].calls) : c.id = messages[i].id
                          \/ k = 3 /\ messages[k].role = "system"
    BY DEF OrphansBehindSummary
  <2>1. messages \in Seq(Messages)
    BY <1>1 DEF TypeInv
  <2>2. AllPlaced(messages, {3}) /\ i \in 1..Len(messages)
    BY <1>1, <2>1 DEF ShapeInv, Conversing, Shaped
  <2>3. PICK k \in 1..i - 1 : PlacedBehind(messages, i, k, {3})
    BY <2>2 DEF AllPlaced, Placed
  <2>4. SelectLastInSubSeq(messages, 1, i, LAMBDA m : m.role # "tool") = k
    BY <2>1, <2>2, <2>3, LastSpoken DEF PlacedBehind
  <2>5. Requests(messages[k], messages[i].id)
          => \E c \in ToSet(messages[k].calls) : c.id = messages[i].id
    <3>1. messages[k].calls \in Seq(ToolCalls)
      <4>1. messages[k] \in Messages
        BY <2>1, <2>2
      <4> QED
        BY <4>1 DEF Messages
    <3> QED
      BY <3>1 DEF Requests, ToSet
  <2> QED
    BY <2>3, <2>4, <2>5 DEF PlacedBehind
<1> QED
  BY <1>1, AgentInv, ConversationShaped, PTL


-----------------------------------------------------------------------------
(* Bounds. The estimate is a number.                                         *)
Weight(m) == Len(m.calls) + (IF m.content = "" THEN 0 ELSE 1)

EstimatesAs(ms, f) ==
  f = [k \in 0..Len(ms) |-> IF k = 0 THEN 0
                            ELSE f[k - 1] + Len(ms[k].calls)
                                   + (IF ms[k].content = "" THEN 0 ELSE 1)]

LEMMA EstimateType ==
  ASSUME NEW ms \in Seq(Messages)
  PROVE  EstimateTokens(ms) \in Nat
<1> DEFINE N == Len(ms)
           step == [k \in 1..N |-> [v \in Nat |-> v + Weight(ms[k])]]
           est == CHOOSE f : EstimatesAs(ms, f)
<1>1. N \in Nat
  OBVIOUS
<1>2. ASSUME NEW k \in 1..N
      PROVE  /\ Weight(ms[k]) \in Nat
             /\ \A v \in Nat : v + Len(ms[k].calls) + (IF ms[k].content = "" THEN 0 ELSE 1)
                                 = v + Weight(ms[k])
  <2>1. Len(ms[k].calls) \in Nat
    <3>1. ms[k] \in Messages
      OBVIOUS
    <3>2. ms[k].calls \in Seq(ToolCalls)
      BY <3>1 DEF Messages
    <3> QED
      BY <3>2
  <2> DEFINE a == Len(ms[k].calls)
             b == IF ms[k].content = "" THEN 0 ELSE 1
  <2>2. a \in Nat /\ b \in Nat /\ Weight(ms[k]) = a + b
    BY <2>1 DEF Weight
  <2> HIDE DEF a, b
  <2>3. Weight(ms[k]) \in Nat /\ \A v \in Nat : v + a + b = v + Weight(ms[k])
    BY <2>2
  <2> QED
    BY <2>3 DEF a, b
<1>3. step \in Steps(N, Nat)
  <2>1. ASSUME NEW k \in 1..N, NEW v \in Nat PROVE v + Weight(ms[k]) \in Nat
    <3>1. Weight(ms[k]) \in Nat
      BY <1>2
    <3> QED
      BY <3>1
  <2>2. \A k \in 1..N : [v \in Nat |-> v + Weight(ms[k])] \in [Nat -> Nat]
    BY <2>1
  <2> QED
    BY <2>2 DEF Steps
<1>4. PICK f \in [0..N -> Nat] : IsFold(f, N, 0, step)
  <2> HIDE DEF step, N
  <2> QED
    BY <1>1, <1>3, FoldExists
<1>5. ASSUME NEW k \in 1..N
      PROVE  f[k] = f[k - 1] + Len(ms[k].calls) + (IF ms[k].content = "" THEN 0 ELSE 1)
  <2>1. k - 1 \in 0..N
    BY <1>1
  <2>2. f[k - 1] \in Nat
    BY <1>4, <2>1
  <2>3. step[k][f[k - 1]] = f[k - 1] + Weight(ms[k])
    BY <2>2
  <2> HIDE DEF step
  <2>4. f[k] = f[k - 1] + Weight(ms[k])
    BY <1>4, <2>3 DEF IsFold
  <2> QED
    BY <1>2, <2>2, <2>4
<1>6. EstimatesAs(ms, f)
  <2>1. f = [k \in 0..N |-> f[k]]
    BY <1>4
  <2>2. \A k \in 0..N : f[k] = IF k = 0 THEN 0
                                ELSE f[k - 1] + Len(ms[k].calls)
                                       + (IF ms[k].content = "" THEN 0 ELSE 1)
    <3>1. f[0] = 0 /\ \A k \in 0..N : k = 0 \/ k \in 1..N
      BY <1>1, <1>4 DEF IsFold
    <3> QED
      BY <1>5, <3>1
  <2> QED
    BY <2>1, <2>2 DEF EstimatesAs
<1>7. EstimatesAs(ms, est)
  BY <1>6
<1>8. EstimateTokens(ms) = est[N]
  BY DEF EstimateTokens, EstimatesAs
<1>9. 0..N \subseteq {n \in 0..N : est[n] \in Nat}
  <2> DEFINE T == {n \in 0..N : est[n] \in Nat}
  <2> HIDE DEF est
  <2>1. 0 \in T
    <3>1. 0 \in 0..N
      BY <1>1
    <3>2. est[0] = 0
      BY <1>7, <3>1 DEF EstimatesAs
    <3> QED
      BY <3>1, <3>2
  <2>2. ASSUME NEW n \in 0..N - 1, n \in T PROVE n + 1 \in T
    <3>1. n + 1 \in 1..N /\ (n + 1) - 1 = n /\ n + 1 # 0 /\ n + 1 \in 0..N
      BY <1>1
    <3>2. est[n + 1] = est[n] + Len(ms[n + 1].calls)
                         + (IF ms[n + 1].content = "" THEN 0 ELSE 1)
      BY <1>7, <3>1 DEF EstimatesAs
    <3>3. est[n] \in Nat
      BY <2>2
    <3>4. est[n + 1] = est[n] + Weight(ms[n + 1]) /\ Weight(ms[n + 1]) \in Nat
      BY <1>2, <3>1, <3>2, <3>3
    <3> QED
      BY <3>1, <3>3, <3>4
  <2> HIDE DEF T
  <2>3. 0..N \subseteq T
    BY <1>1, <2>1, <2>2, UpTo
  <2> QED
    BY <2>3 DEF T
<1> HIDE DEF est
<1> QED
  BY <1>1, <1>8, <1>9

(* What BeginTurn leaves of the conversation is within the bounds.           *)
Bounded(ms) == \/ Len(ms) <= 7
               \/ cfg.tokens = 0 /\ Len(ms) <= CompactAt
               \/ cfg.tokens > 0 /\ 10 * EstimateTokens(ms) < 8 * cfg.tokens + 10

LEMMA CondensesBounded ==
  ASSUME TypeInv, Condenses
  PROVE  Bounded(messages')
<1>1. /\ messages \in Seq(Messages) /\ Len(messages) \in Nat /\ CompactAt \in Nat
      /\ EstimateTokens(messages) \in Nat /\ cfg.tokens \in Nat
  <2>1. messages \in Seq(Messages) /\ cfg \in Launched
    BY DEF TypeInv, TypeOK
  <2>2. cfg.tokens \in Nat
    BY <2>1 DEF Launched
  <2> QED
    BY <2>1, <2>2, EstimateType, LimitAssumption
<1>2. CASE ShouldCompact(messages)
  <2>1. PICK s \in Summaries : messages' = Compact(messages, s)
    BY <1>2 DEF Condenses
  <2>2. s \in Messages
    BY SummaryTypes
  <2>3. CASE Len(messages) <= 6
    <3>1. messages' = messages
      BY <2>1, <2>3 DEF Compact
    <3> QED
      BY <1>1, <2>3, <3>1 DEF Bounded
  <2>4. CASE Len(messages) > 6
    <3>1. Compacted(messages', messages, s, Len(messages))
      BY <1>1, <2>1, <2>2, <2>4, CompactIs
    <3> QED
      BY <3>1 DEF Compacted, Bounded
  <2> QED
    BY <1>1, <2>3, <2>4
<1>3. CASE ~ShouldCompact(messages)
  <2>1. messages' = messages
    BY <1>3 DEF Condenses
  <2>2. CASE cfg.tokens > 0
    <3>1. ~(EstimateTokens(messages) > (cfg.tokens * 8) \div 10)
      BY <1>3, <2>2 DEF ShouldCompact
    <3>2. 10 * EstimateTokens(messages) < 8 * cfg.tokens + 10
      <4> DEFINE e == EstimateTokens(messages)
                 t == cfg.tokens
      <4> HIDE DEF e, t
      <4>1. e \in Nat /\ t \in Nat /\ ~(e > (t * 8) \div 10)
        BY <1>1, <3>1 DEF e, t
      <4>2. 10 * e < 8 * t + 10
        BY <4>1
      <4> QED
        BY <4>2 DEF e, t
    <3> QED
      BY <2>1, <2>2, <3>2 DEF Bounded
  <2>3. CASE ~(cfg.tokens > 0)
    <3>1. cfg.tokens = 0 /\ ~(Len(messages) > CompactAt)
      BY <1>1, <1>3, <2>3 DEF ShouldCompact
    <3> QED
      BY <1>1, <2>1, <3>1 DEF Bounded
  <2> QED
    BY <2>2, <2>3
<1> QED
  BY <1>2, <1>3

(* The endpoint is sent a conversation within the bounds of the process's    *)
(* configuration, however long the log it resumed.                           *)
THEOREM ConversationBounded == Spec => []TranscriptBounded
<1>1. Init => TranscriptBounded
  BY DEF Init, TranscriptBounded
<1>2. ASSUME TypeInv, TranscriptBounded, [Next]_vars
      PROVE  TranscriptBounded'
  <2> SUFFICES ASSUME pc' = "call" PROVE TranscriptBounded'
    BY DEF TranscriptBounded
  <2>1. BeginTurn \/ UNCHANGED vars
    BY <1>2, IntoTurn DEF InTurnStages, CallLLM, AppendError, Exit, DispatchUnknown,
       DispatchInvalid, RecordInvalid, Intent, Invoke, Result
  <2>2. CASE BeginTurn
    <3>1. Condenses /\ cfg' = cfg
      BY <2>2 DEF BeginTurn, AppendError, Exit, Condenses, idVars
    <3>2. Bounded(messages')
      BY <1>2, <3>1, CondensesBounded
    <3> QED
      BY <3>1, <3>2 DEF Bounded, TranscriptBounded
  <2>3. CASE UNCHANGED vars
    BY <1>2, <2>3 DEF vars, convVars, idVars, TranscriptBounded
  <2> QED
    BY <2>1, <2>2, <2>3
<1> QED
  BY <1>1, <1>2, AgentInv, PTL DEF Spec


-----------------------------------------------------------------------------
(* The goal. LoadTranscript finds no other goal than those of the records.   *)
HasGoal(lt, goal) == lt.goal = "" \/ lt.goal = goal

LEMMA TranscriptGoal ==
  ASSUME NEW s \in Seq(Events), NEW r \in Nat, RunsUpTo(s, r), NEW goal,
         \A k \in 1..Len(s) : s[k].kind = "run_start" => s[k].payload.goal = goal
  PROVE  HasGoal(LoadTranscript(s), goal)
<1>1. PICK f \in [0..Len(s) -> Transcripts(r)] : LoadsAs(s, f) /\ LoadTranscript(s) = f[Len(s)]
  BY LoadIsFold
<1> DEFINE N == Len(s)
           S == {n \in 0..N : HasGoal(f[n], goal)}
<1>2. N \in Nat
  OBVIOUS
<1>3. 0 \in S
  <2>1. f[0] = EmptyTranscript
    BY <1>1, <1>2 DEF LoadsAs
  <2>2. HasGoal(EmptyTranscript, goal)
    BY DEF EmptyTranscript, HasGoal
  <2>3. 0 \in 0..N
    BY <1>2
  <2> QED
    BY <2>1, <2>2, <2>3
<1>4. ASSUME NEW n \in 0..N - 1, n \in S PROVE n + 1 \in S
  <2>1. n + 1 \in 1..N /\ (n + 1) - 1 = n /\ n \in 0..N /\ n + 1 \in 0..N /\ n + 1 # 0
    BY <1>2
  <2>2. f[n + 1] = LoadEvent(f[n], s[n + 1])
    BY <1>1, <2>1 DEF LoadsAs
  <2>3. f[n] \in Transcripts(r)
    BY <1>1, <2>1
  <2> DEFINE lt == f[n]
             e == s[n + 1]
             u == LoadEvent(lt, e)
  <2>4. e.kind = "run_start" => e.payload.goal = goal
    BY <2>1
  <2>5. lt \in Transcripts(r)
    BY <2>3
  <2> HIDE DEF lt, e
  <2>6. u.goal = IF e.kind = "run_start" THEN e.payload.goal ELSE lt.goal
    BY <2>5 DEF LoadEvent, Transcripts, Terminal
  <2>7. HasGoal(lt, goal)
    BY <1>4 DEF lt
  <2>8. HasGoal(u, goal)
    BY <2>4, <2>6, <2>7 DEF HasGoal
  <2>9. f[n + 1] = u
    BY <2>2 DEF lt, e
  <2> HIDE DEF u
  <2> QED
    BY <2>1, <2>8, <2>9
<1> HIDE DEF S
<1>5. 0..N \subseteq S
  BY <1>2, <1>3, <1>4, UpTo
<1>6. HasGoal(f[N], goal)
  BY <1>2, <1>5 DEF S
<1> QED
  BY <1>1, <1>6

(* All processes are started with one goal, as the launches are bound to.    *)
OneGoal == \A l, k \in Launches : l.goal = k.goal

HeadInv ==
  /\ pc # "down" => cfg \in Launches
  /\ \A k \in Indices : log[k].kind = "run_start" =>
       \A l \in Launches : log[k].payload.goal = l.goal
  /\ log # <<>> => log[1].kind = "run_start"
  /\ Conversing => \A l \in Launches : messages[2] = Message("user", l.goal)

LEMMA ConfigStep ==
  ASSUME HeadInv, [Next]_vars
  PROVE  pc' # "down" => cfg' \in Launches
<1>1. CASE Launch
  BY <1>1 DEF Launch
<1>2. CASE Load \/ ScanLine \/ ScanDone \/ StopTurns \/ StopWallClock \/ StopTokens \/ StopTools
             \/ DispatchUnknown \/ DispatchInvalid \/ RecordInvalid \/ Invoke \/ Result
             \/ LLMFail \/ UNCHANGED vars
  BY <1>2 DEF Load, ScanLine, ScanDone, StopTurns, StopWallClock, StopTokens, StopTools, Stop,
     DispatchUnknown, DispatchInvalid, RecordInvalid, Invoke, Result, LLMFail, vars, idVars,
     HeadInv
<1>3. CASE RunStart \/ BeginTurn \/ CallLLM \/ Answer \/ Intent \/ Finish \/ TurnEnd
  BY <1>3 DEF RunStart, BeginTurn, CallLLM, Answer, Intent, Finish, TurnEnd, AppendError, Exit,
     idVars, HeadInv
<1>4. CASE BootstrapFail \/ End \/ Crash
  BY <1>4 DEF BootstrapFail, End, Crash, Exit
<1> QED
  BY <1>1, <1>2, <1>3, <1>4 DEF Next

LEMMA HeadLogStep ==
  ASSUME OneGoal, TypeInv, TypeInv', EndInv, HeadInv, [Next]_vars
  PROVE  /\ \A k \in Indices' : log'[k].kind = "run_start" =>
              \A l \in Launches : log'[k].payload.goal = l.goal
         /\ log' # << >> => log'[1].kind = "run_start"
<1>0. Len(log) \in Nat /\ Len(log') \in Nat /\ (Len(log) = 0 => log = << >>)
      /\ (log' # << >> => Len(log') # 0)
  <2>1. log \in Seq(Events) /\ log' \in Seq(Events)
    BY DEF TypeInv
  <2> QED
    BY <2>1, EmptySeq
<1>1. CASE LogUnchanged
  BY <1>1 DEF LogUnchanged, HeadInv, Indices
<1>2. CASE Crash
  <2>1. \A i \in 1..Len(log') : i \in 1..Len(log) /\ log'[i] = log[i]
    BY <1>2, CutLog
  <2>2. log' # << >> => 1 \in 1..Len(log') /\ Len(log) # 0
    BY <1>0, <2>1
  <2>3. Len(log) # 0 => log # << >>
    BY EmptySeq
  <2> QED
    BY <2>1, <2>2, <2>3 DEF HeadInv, Indices
<1>3. ASSUME NEW kind, NEW p, Adds(kind, p)
      PROVE  /\ \A k \in Indices' : log'[k].kind = "run_start" =>
                  \A l \in Launches : log'[k].payload.goal = l.goal
             /\ log' # << >> => log'[1].kind = "run_start"
  <2> DEFINE n == Len(log)
             e == NextEvent(kind, p)
  <2>1. /\ Len(log') = n + 1 /\ log'[n + 1] = e /\ e.kind = kind /\ e.payload = p
        /\ \A i \in 1..n : log'[i] = log[i]
    BY <1>3, AddedLog DEF NextEvent, Event
  <2> HIDE DEF e
  <2>2. kind = "run_start" => \A l \in Launches : p.goal = l.goal
    <3>1. kind = "run_start" => pc = "start" /\ p = RunStartPayload(runID, cfg)
      BY <1>3 DEF Adds, Written
    <3>2. kind = "run_start" => cfg \in Launches /\ p.goal = cfg.goal
      BY <3>1 DEF HeadInv, RunStartPayload
    <3> QED
      BY <3>2 DEF OneGoal
  <2>3. ASSUME NEW k \in 1..n + 1, log'[k].kind = "run_start", NEW l \in Launches
        PROVE  log'[k].payload.goal = l.goal
    <3>1. CASE k = n + 1
      BY <2>1, <2>2, <2>3, <3>1
    <3>2. CASE k # n + 1
      <4>1. k \in 1..n
        BY <1>0, <3>2
      <4> QED
        BY <2>1, <2>3, <4>1 DEF HeadInv, Indices
    <3> QED
      BY <3>1, <3>2
  <2>4. CASE log = << >>
    <3>1. kind = "run_start"
      BY <1>3, <2>4 DEF Adds, Written, EndInv, OpenRun
    <3>2. n = 0
      BY <2>4, EmptySeq
    <3> QED
      BY <2>1, <2>3, <3>1, <3>2 DEF Indices
  <2>5. CASE log # << >>
    <3>1. 1 \in 1..n
      BY <1>0, <2>5
    <3> QED
      BY <2>1, <2>3, <2>5, <3>1 DEF HeadInv, Indices
  <2> QED
    BY <2>4, <2>5
<1> QED
  BY <1>1, <1>2, <1>3, LogStep

LEMMA GoalStays ==
  ASSUME OneGoal, TypeInv, ShapeInv, HeadInv, [Next]_vars, Conversing', NEW g \in Launches
  PROVE  messages'[2] = Message("user", g.goal)
<1>0. messages \in Seq(Messages)
  BY DEF TypeInv
<1>1. CASE LeavesAlone
  BY <1>1 DEF LeavesAlone, HeadInv
<1>2. CASE \E l \in Launches : Begins(l)
  <2>1. PICK l \in Launches : messages' = <<SystemPrompt, Message("user", l.goal)>>
    BY <1>2 DEF Begins
  <2>2. l.goal = g.goal
    BY DEF OneGoal
  <2> QED
    BY <2>1, <2>2
<1>3. CASE Load
  <2> DEFINE lt == LoadTranscript(Scanned(log))
             goal == IF lt.goal # "" THEN lt.goal ELSE cfg.goal
             ms == lt.messages
  <2>1. log \in Seq(Events) /\ RunsUpTo(log, runs) /\ runs \in Nat
    <3>1. runs \in 0..MaxRuns /\ log \in Seq(Events) /\ RunsUpTo(log, runs)
      BY DEF TypeInv, TypeOK
    <3> QED
      BY <3>1, LimitAssumption
  <2>2. Scanned(log) = log
    BY <1>3, ScannedWhole DEF Load
  <2>3. HasGoal(lt, g.goal)
    <3> DEFINE goalG == g.goal
    <3>1. \A k \in 1..Len(log) : log[k].kind = "run_start" => log[k].payload.goal = goalG
      BY DEF HeadInv, Indices
    <3> HIDE DEF goalG
    <3>2. HasGoal(LoadTranscript(log), goalG)
      BY <2>1, <3>1, TranscriptGoal
    <3> QED
      BY <2>2, <3>2 DEF goalG
  <2>4. cfg.goal = g.goal
    BY <1>3 DEF Load, HeadInv, OneGoal
  <2>5. goal = g.goal
    BY <2>3, <2>4 DEF HasGoal
  <2>6. messages' = <<SystemPrompt, Message("user", goal)>> \o ms
    BY <1>3 DEF Load, Rebuilt
  <2>7. ms \in Seq(Messages)
    <3>1. LoadTranscript(log) \in Transcripts(runs)
      BY <2>1, TranscriptType
    <3> QED
      BY <2>2, <3>1 DEF Transcripts
  <2> DEFINE a == SystemPrompt
             b == Message("user", goal)
  <2>8. a \in Messages /\ b \in Messages
    <3>1. g.goal \in Texts
      BY LaunchAssumption DEF Launched
    <3>2. goal \in Texts
      BY <2>5, <3>1
    <3> HIDE DEF goal
    <3> QED
      BY <3>2, Heads
  <2> HIDE DEF ms, goal
  <2>9. messages' = <<a, b>> \o ms
    BY <2>6
  <2>10. b = Message("user", g.goal)
    BY <2>5
  <2> HIDE DEF a, b
  <2>11. messages'[2] = b
    <3> DEFINE h == <<a, b>>
    <3>1. h \in Seq(Messages) /\ Len(h) = 2 /\ h[2] = b
      BY <2>8
    <3>2. messages' = h \o ms
      BY <2>9
    <3> HIDE DEF h
    <3>3. Joins(messages', h, ms)
      BY <2>7, <3>1, <3>2, Joined
    <3>4. Len(ms) \in Nat
      BY <2>7
    <3> QED
      BY <3>1, <3>3, <3>4 DEF Joins
  <2> QED
    BY <2>10, <2>11
<1>4. CASE Condenses
  <2>1. Conversing
    BY <1>4 DEF Condenses, Conversing
  <2>2. ASSUME NEW s \in Summaries PROVE Compact(messages, s)[2] = messages[2]
    <3>1. s \in Messages /\ Len(messages) \in Nat
      BY <1>0, SummaryTypes
    <3>2. CASE Len(messages) <= 6
      BY <3>2 DEF Compact
    <3>3. CASE Len(messages) > 6
      BY <1>0, <3>1, <3>3, CompactIs DEF Compacted
    <3> QED
      BY <3>1, <3>2, <3>3
  <2>3. messages'[2] = messages[2]
    BY <1>4, <2>2 DEF Condenses
  <2> QED
    BY <2>1, <2>3 DEF HeadInv
<1>5. ASSUME NEW m \in Messages, messages' = Append(messages, m), Conversing
      PROVE  messages'[2] = Message("user", g.goal)
  <2>1. 2 \in 1..Len(messages)
    BY <1>0, <1>5 DEF ShapeInv, Shaped
  <2>2. \A i \in 1..Len(messages) : Append(messages, m)[i] = messages[i]
    BY <1>0, MessageAppended
  <2> QED
    BY <1>5, <2>1, <2>2 DEF HeadInv
<1>6. CASE \E r \in Responses : Asks(r)
  <2>1. PICK r \in Responses : messages' = Append(messages, Completion(r)) /\ Conversing
    BY <1>6 DEF Asks, Conversing
  <2> QED
    BY <1>5, <2>1, CompletionTyped
<1>7. CASE \E content \in Texts : Answers(content)
  <2>1. PICK content \in Texts : Answers(content)
    BY <1>7
  <2>2. Conversing /\ messages' = Append(messages, ToolMessage(Head(calls).id, content))
        /\ calls # << >> /\ calls \in Seq(ToolCalls)
    BY <2>1 DEF Answers, Reply, CallStages, Conversing, TypeInv
  <2>3. Head(calls).id \in Ids
    <3>1. Head(calls) \in ToolCalls
      BY <2>2, HeadTailProperties
    <3> QED
      BY <3>1 DEF ToolCalls
  <2>4. ToolMessage(Head(calls).id, content) \in Messages
    BY <2>3, EmptySeq, MessageTypes DEF Roles
  <2> QED
    BY <1>5, <2>2, <2>4
<1> QED
  BY <1>1, <1>2, <1>3, <1>4, <1>6, <1>7, ConversationStep

(* As long as every process of a log is started with the same goal, the      *)
(* conversation starts with the system prompt and the goal of the log's      *)
(* first record, through resumes and compactions.                            *)
THEOREM GoalPinned ==
  ASSUME OneGoal
  PROVE  Spec => []PinnedHead
<1>1. Init => HeadInv
  <2> SUFFICES ASSUME Init PROVE HeadInv
    OBVIOUS
  <2>1. log = << >> /\ pc = "down"
    BY DEF Init
  <2>2. Indices = {}
    BY <2>1 DEF Indices
  <2> QED
    BY <2>1, <2>2 DEF HeadInv, Conversing
<1>2. TypeInv /\ TypeInv' /\ EndInv /\ ShapeInv /\ HeadInv /\ [Next]_vars => HeadInv'
  <2> SUFFICES ASSUME TypeInv, TypeInv', EndInv, ShapeInv, HeadInv, [Next]_vars
               PROVE  HeadInv'
    OBVIOUS
  <2>1. Conversing' => \A g \in Launches : messages'[2] = Message("user", g.goal)
    BY GoalStays
  <2> QED
    BY <2>1, ConfigStep, HeadLogStep DEF HeadInv
<1>3. TypeInv /\ RecordInv /\ ShapeInv /\ HeadInv => PinnedHead
  <2> SUFFICES ASSUME TypeInv, RecordInv, ShapeInv, HeadInv, pc = "call" PROVE PinnedHead
    BY DEF PinnedHead
  <2>1. messages[1] = SystemPrompt
    BY DEF ShapeInv, Conversing, Shaped
  <2>2. cfg \in Launches /\ messages[2] = Message("user", cfg.goal)
    BY DEF HeadInv, Conversing
  <2>3. log[1].kind = "run_start" /\ 1 \in Indices
    <3>1. log # << >> /\ log \in Seq(Events)
      BY DEF RecordInv, TypeInv
    <3>2. Len(log) \in Nat /\ Len(log) # 0
      BY <3>1, EmptySeq
    <3> QED
      BY <3>1, <3>2 DEF HeadInv, Indices
  <2>4. log[1].payload.goal = cfg.goal
    BY <2>2, <2>3 DEF HeadInv
  <2> QED
    BY <2>1, <2>2, <2>4 DEF PinnedHead
<1> QED
  BY <1>1, <1>2, <1>3, AgentInv, EndsHold, ConversationShaped, RecordsOrderly, PTL DEF Spec


-----------------------------------------------------------------------------
(* What the log and the conversation say alike. A record is quiet when       *)
(* LoadTranscript makes no message of it.                                    *)
Quiet(e) == e.kind # "llm" /\ ~Terminal(e)
QuietLog == log' = log \/ \E e \in Events : log' = Append(log, e) /\ Quiet(e)
StaysBroken == broken => broken'

Noted(r) == log' = Append(log, NextEvent("llm", LLMPayload(turnNumber, r.tokens, Completion(r))))
Filed(c, content) ==
  \/ log' = log /\ (c.args = "malformed" \/ broken')
  \/ \E e \in Events : /\ log' = Append(log, e) /\ Terminal(e)
                       /\ e.payload.id = c.id /\ Content(e.payload) = content

LEMMA QuietAppend ==
  ASSUME NEW kind, NEW p, NextEvent(kind, p) \in Events, kind # "llm",
         kind = "tool" => p.status = "intent",
         Appended(kind, p) \/ AppendIgnored(kind, p)
  PROVE  QuietLog /\ StaysBroken
<1> DEFINE e == NextEvent(kind, p)
<1>1. e \in Events /\ Quiet(e)
  BY DEF NextEvent, Event, Quiet, Terminal
<1>2. log' = log \/ log' = Append(log, e)
  BY DEF AppendIgnored, Appended, WriteFailed, SyncFailed
<1>3. StaysBroken
  BY DEF AppendIgnored, Appended, WriteFailed, SyncFailed, StaysBroken
<1> HIDE DEF e
<1> QED
  BY <1>1, <1>2, <1>3 DEF QuietLog

LEMMA RecordToolFiles ==
  ASSUME TypeInv, NEW c \in ToolCalls, NEW n \in Nat, NEW status \in Statuses,
         NEW out \in Texts, NEW err \in Texts, status # "intent",
         RecordTool(c, n, status, out, err), NEW content,
         content = IF status = "ok" \/ err = "" THEN out
                   ELSE IF out = "" THEN err ELSE "output and error"
  PROVE  Filed(c, content) /\ StaysBroken
<1> DEFINE e == NextEvent("tool", ToolPayload(c.id, Key(c.id, n), status, out, err))
<1>1. e \in Events
  BY ToolEventTyped
<1>2. Terminal(e) /\ e.payload.id = c.id /\ Content(e.payload) = content
  BY DEF NextEvent, Event, ToolPayload, Terminal, Statuses, Content
<1>3. log' = Append(log, e) \/ (log' = log /\ (c.args = "malformed" \/ broken'))
  BY DEF RecordTool, Unmarshalable, AppendIgnored, Appended, WriteFailed, SyncFailed
<1>4. StaysBroken
  BY DEF RecordTool, Unmarshalable, AppendIgnored, Appended, WriteFailed, SyncFailed,
         StaysBroken
<1> HIDE DEF e
<1> QED
  BY <1>1, <1>2, <1>3, <1>4 DEF Filed

(* The steps of a conversation again, with what they write.                  *)
LEMMA TalkStep ==
  ASSUME TypeInv, [Next]_vars, Conversing'
  PROVE  \/ (LeavesAlone \/ Condenses) /\ QuietLog /\ StaysBroken
         \/ /\ \E l \in Launches : Begins(l)
            /\ log' = log /\ (FreshRelaunch \/ log = << >>)
         \/ Load
         \/ \E r \in Responses : Asks(r) /\ Noted(r) /\ StaysBroken
         \/ \E content \in Texts : Answers(content) /\ Filed(Head(calls), content) /\ StaysBroken
<1>1. CASE Launch
  BY <1>1 DEF Launch, Begins, Conversing, logVars
<1>2. CASE BeginTurn
  <2>1. Condenses /\ Appended("turn", TurnPayload(turnNumber + 1))
    BY <1>2 DEF BeginTurn, AppendError, Exit, Condenses, Conversing
  <2>2. QuietLog /\ StaysBroken
    BY <2>1, StageEvents, QuietAppend
  <2> QED
    BY <2>1, <2>2
<1>3. CASE CallLLM
  <2>1. PICK r \in Responses :
          /\ Appended("llm", LLMPayload(turnNumber, r.tokens, Completion(r)))
          /\ messages' = Append(messages, Completion(r)) /\ calls' = Completion(r).calls
          /\ pc' = IF r.calls = <<>> THEN "answer" ELSE "dispatch"
    BY <1>3 DEF CallLLM, AppendError, Exit, Conversing
  <2>2. Asks(r) /\ Noted(r) /\ StaysBroken
    BY <1>3, <2>1 DEF CallLLM, Asks, Noted, StaysBroken, Appended
  <2> QED
    BY <2>2
<1> DEFINE c == Head(calls)
<1>4. toolInvocations \in Nat /\ toolInvocations + 1 \in Nat /\ calls \in Seq(ToolCalls)
      /\ (calls # << >> => c \in ToolCalls)
  BY Before, HeadTailProperties
<1>5. /\ Status(outcome) \in Statuses \ {"intent"} /\ {"error", "invalid"} \subseteq Statuses
      /\ {"", "unknown tool", "invalid arguments"} \subseteq Texts
      /\ outcome # "finished" => outcome \in Texts
  BY Before DEF Status, Statuses, Texts
<1>6. CASE DispatchUnknown
  <2>1. /\ Answers("unknown tool") /\ calls # << >>
        /\ RecordTool(c, toolInvocations + 1, "error", "", "unknown tool")
    BY <1>6 DEF DispatchUnknown, Answers, CallStages
  <2> HIDE DEF c
  <2>2. Filed(c, "unknown tool") /\ StaysBroken
    BY <1>4, <1>5, <2>1, RecordToolFiles
  <2> QED
    BY <1>5, <2>1, <2>2 DEF c
<1>7. CASE RecordInvalid
  <2>1. /\ Answers("invalid arguments") /\ calls # << >>
        /\ RecordTool(c, toolInvocations, "invalid", "", "invalid arguments")
    BY <1>7 DEF RecordInvalid, Answers, CallStages, TypeInv
  <2> HIDE DEF c
  <2>2. Filed(c, "invalid arguments") /\ StaysBroken
    BY <1>4, <1>5, <2>1, RecordToolFiles
  <2> QED
    BY <1>5, <2>1, <2>2 DEF c
<1>8. CASE Result
  <2>1. /\ Answers(outcome) /\ calls # << >> /\ outcome # "finished"
        /\ RecordTool(c, toolInvocations, Status(outcome), outcome, "")
    BY <1>8 DEF Result, Answers, CallStages, TypeInv
  <2> HIDE DEF c
  <2>2. Filed(c, outcome) /\ StaysBroken
    BY <1>4, <1>5, <2>1, RecordToolFiles
  <2> QED
    BY <1>5, <2>1, <2>2 DEF c
<1>9. CASE Intent
  <2> DEFINE p == ToolPayload(c.id, Key(c.id, toolInvocations), "intent", "", "")
  <2>1. calls # << >> /\ Appended("tool", p) /\ LeavesAlone
    BY <1>9 DEF Intent, AppendError, Exit, LeavesAlone, convVars, Conversing, CallStages
  <2>2. NextEvent("tool", p) \in Events
    <3> HIDE DEF c
    <3>1. "intent" \in Statuses
      BY DEF Statuses
    <3> QED
      BY <1>4, <1>5, <2>1, <3>1, ToolEventTyped
  <2>3. p.status = "intent"
    BY DEF ToolPayload
  <2> HIDE DEF p
  <2>4. QuietLog /\ StaysBroken
    BY <2>1, <2>2, <2>3, QuietAppend
  <2> QED
    BY <2>1, <2>4
<1>10. CASE DispatchInvalid
  <2>1. LeavesAlone /\ AppendIgnored("log", LogPayload("warn"))
    BY <1>10 DEF DispatchInvalid, LeavesAlone, convVars, Conversing, CallStages
  <2>2. QuietLog /\ StaysBroken
    BY <2>1, StageEvents, QuietAppend
  <2> QED
    BY <2>1, <2>2
<1>11. CASE LLMFail
  <2>1. LeavesAlone /\ AppendIgnored("log", LogPayload("error"))
    BY <1>11 DEF LLMFail, LeavesAlone, convVars, Conversing, CallStages
  <2>2. QuietLog /\ StaysBroken
    BY <2>1, StageEvents, QuietAppend
  <2> QED
    BY <2>1, <2>2
<1>12. CASE RunStart
  <2>1. LeavesAlone /\ Appended("run_start", RunStartPayload(runID, cfg)) /\ pc = "start"
    BY <1>12 DEF RunStart, AppendError, Exit, LeavesAlone, convVars, Conversing, CallStages
  <2>2. QuietLog /\ StaysBroken
    BY <2>1, StageEvents, QuietAppend
  <2> QED
    BY <2>1, <2>2
<1>13. CASE TurnEnd
  <2>1. LeavesAlone /\ Appended("turn_end", TurnPayload(turnNumber))
    BY <1>13 DEF TurnEnd, AppendError, Exit, LeavesAlone, convVars, Conversing, CallStages
  <2>2. QuietLog /\ StaysBroken
    BY <2>1, StageEvents, QuietAppend
  <2> QED
    BY <2>1, <2>2
<1>14. CASE Answer \/ Finish
  <2>1. LeavesAlone /\ Appended("finish", FinishPayload)
    BY <1>14 DEF Answer, Finish, AppendError, Exit, LeavesAlone, convVars, Conversing, CallStages
  <2>2. QuietLog /\ StaysBroken
    BY <2>1, StageEvents, QuietAppend
  <2> QED
    BY <2>1, <2>2
<1>15. CASE Invoke \/ ScanLine \/ ScanDone \/ StopTurns \/ StopWallClock \/ StopTokens \/ StopTools
  BY <1>15 DEF Invoke, ScanLine, ScanDone, StopTurns, StopWallClock, StopTokens, StopTools, Stop,
               LeavesAlone, convVars, logVars, Conversing, CallStages, QuietLog, StaysBroken
<1>16. CASE UNCHANGED vars
  BY <1>16 DEF vars, logVars, convVars, LeavesAlone, Conversing, QuietLog, StaysBroken
<1>17. CASE BootstrapFail \/ End \/ Crash
  BY <1>17 DEF BootstrapFail, End, Crash, Exit, Conversing
<1> QED
  BY <1>1, <1>2, <1>3, <1>6, <1>7, <1>8, <1>9, <1>10, <1>11, <1>12, <1>13, <1>14, <1>15,
     <1>16, <1>17 DEF Next



-----------------------------------------------------------------------------
(* The ids LoadTranscript has seen are those of the terminal records, and    *)
(* each has a message.                                                       *)
HasResult(ms, id) == \E i \in 1..Len(ms) : ms[i].role = "tool" /\ ms[i].id = id

Recalled(s, n, lt) ==
  /\ \A id \in lt.seen : /\ HasResult(lt.messages, id)
                         /\ \E k \in 1..n : Terminal(s[k]) /\ s[k].payload.id = id
  /\ \A k \in 1..n : Terminal(s[k]) => s[k].payload.id \in lt.seen

LEMMA ResultStays ==
  ASSUME NEW ms \in Seq(Messages), NEW m \in Messages, NEW t, t = Append(ms, m)
  PROVE  /\ \A id \in Ids : HasResult(ms, id) => HasResult(t, id)
         /\ m.role = "tool" => HasResult(t, m.id)
<1>1. /\ Len(t) = Len(ms) + 1 /\ Len(ms) \in Nat /\ t[Len(ms) + 1] = m
      /\ \A i \in 1..Len(ms) : t[i] = ms[i]
  BY MessageAppended
<1>2. \A i \in 1..Len(ms) : i \in 1..Len(t)
  BY <1>1
<1>3. Len(ms) + 1 \in 1..Len(t)
  BY <1>1
<1> QED
  BY <1>1, <1>2, <1>3 DEF HasResult

LEMMA RecalledStep ==
  ASSUME NEW s \in Seq(Events), NEW r \in Nat, NEW n \in Nat, n + 1 \in 1..Len(s),
         NEW lt \in Transcripts(r), Recalled(s, n, lt),
         NEW u, u = LoadEvent(lt, s[n + 1])
  PROVE  Recalled(s, n + 1, u)
<1> DEFINE e == s[n + 1]
<1>1. e \in Events /\ lt.messages \in Seq(Messages) /\ lt.seen \in SUBSET Ids
  BY DEF Transcripts
<1>2. /\ e.kind = "llm" => u.messages = Append(lt.messages, e.payload.msg) /\ u.seen = lt.seen
      /\ NewAnswer(lt, e) =>
           /\ u.messages = Append(lt.messages, ToolMessage(e.payload.id, Content(e.payload)))
           /\ u.seen = lt.seen \cup {e.payload.id}
      /\ e.kind # "llm" /\ ~NewAnswer(lt, e) => u.messages = lt.messages /\ u.seen = lt.seen
  BY <1>1, LoadEventIs
<1>3. \A k \in 1..n + 1 : k \in 1..n \/ k = n + 1
  OBVIOUS
<1>4. n + 1 \in 1..n + 1 /\ \A k \in 1..n : k \in 1..n + 1
  OBVIOUS
<1>5. CASE e.kind = "llm"
  <2>1. e.payload.msg \in Messages
    BY <1>1, <1>5, EventParts DEF LLMs
  <2>2. ~Terminal(e)
    BY <1>5 DEF Terminal
  <2>3. \A id \in lt.seen : HasResult(u.messages, id)
    BY <1>1, <1>2, <1>5, <2>1, ResultStays DEF Recalled
  <2> QED
    BY <1>2, <1>3, <1>4, <1>5, <2>2, <2>3 DEF Recalled
<1>6. CASE NewAnswer(lt, e)
  <2> DEFINE m == ToolMessage(e.payload.id, Content(e.payload))
  <2>1. Terminal(e)
    BY <1>6 DEF NewAnswer
  <2>2. m \in Messages /\ m.role = "tool" /\ m.id = e.payload.id
    BY <1>1, <2>1, AnswerIsMessage
  <2>3. u.messages = Append(lt.messages, m)
    BY <1>2, <1>6
  <2> HIDE DEF m
  <2>4. \A id \in lt.seen : HasResult(u.messages, id)
    BY <1>1, <2>2, <2>3, ResultStays DEF Recalled
  <2>5. HasResult(u.messages, e.payload.id)
    BY <1>1, <2>2, <2>3, ResultStays
  <2> QED
    BY <1>2, <1>3, <1>4, <1>6, <2>1, <2>4, <2>5 DEF Recalled
<1>7. CASE e.kind # "llm" /\ ~NewAnswer(lt, e)
  BY <1>2, <1>3, <1>4, <1>7 DEF Recalled, NewAnswer
<1> QED
  BY <1>5, <1>6, <1>7

LEMMA TranscriptRecalls ==
  ASSUME NEW s \in Seq(Events), NEW r \in Nat, RunsUpTo(s, r)
  PROVE  Recalled(s, Len(s), LoadTranscript(s))
<1>1. PICK f \in [0..Len(s) -> Transcripts(r)] : LoadsAs(s, f) /\ LoadTranscript(s) = f[Len(s)]
  BY LoadIsFold
<1> DEFINE N == Len(s)
           S == {n \in 0..N : Recalled(s, n, f[n])}
<1>2. N \in Nat
  OBVIOUS
<1>3. 0 \in S
  <2>1. f[0] = EmptyTranscript
    BY <1>1, <1>2 DEF LoadsAs
  <2>2. Recalled(s, 0, EmptyTranscript)
    BY DEF EmptyTranscript, Recalled
  <2>3. 0 \in 0..N
    BY <1>2
  <2> QED
    BY <2>1, <2>2, <2>3
<1>4. ASSUME NEW n \in 0..N - 1, n \in S PROVE n + 1 \in S
  <2>1. n \in Nat /\ n + 1 \in 1..N /\ (n + 1) - 1 = n /\ n \in 0..N /\ n + 1 \in 0..N /\ n + 1 # 0
    BY <1>2
  <2>2. f[n + 1] = LoadEvent(f[n], s[n + 1])
    BY <1>1, <2>1 DEF LoadsAs
  <2>3. f[n] \in Transcripts(r) /\ Recalled(s, n, f[n])
    BY <1>1, <1>4, <2>1
  <2>4. Recalled(s, n + 1, f[n + 1])
    BY <2>1, <2>2, <2>3, RecalledStep
  <2> QED
    BY <2>1, <2>4
<1> HIDE DEF S
<1>5. 0..N \subseteq S
  BY <1>2, <1>3, <1>4, UpTo
<1> QED
  BY <1>1, <1>2, <1>5 DEF S



-----------------------------------------------------------------------------
(* The calls still to dispatch will each have a record LoadTranscript heeds: *)
(* no terminal record in the log, and no other of the calls, has their id.   *)
FreshCalls(l, asked) ==
  /\ \A x \in 1..Len(asked) : asked[x].args # "malformed"
  /\ \A x, y \in 1..Len(asked) : asked[x].id = asked[y].id => x = y
  /\ \A k \in 1..Len(l) : Terminal(l[k]) =>
       \A x \in 1..Len(asked) : asked[x].id # l[k].payload.id

FreshInv == pc \in CallStages => FreshCalls(log, calls)

LEMMA FreshGrows ==
  ASSUME NEW s \in Seq(Events), NEW e \in Events, NEW asked \in Seq(ToolCalls),
         FreshCalls(s, asked),
         Terminal(e) => \A x \in 1..Len(asked) : asked[x].id # e.payload.id,
         NEW t, t = Append(s, e)
  PROVE  FreshCalls(t, asked)
<1>1. /\ Len(t) = Len(s) + 1 /\ Len(s) \in Nat /\ t[Len(s) + 1] = e
      /\ \A i \in 1..Len(s) : t[i] = s[i]
  BY AppendProperties
<1>2. \A k \in 1..Len(t) : k \in 1..Len(s) \/ k = Len(s) + 1
  BY <1>1
<1> QED
  BY <1>1, <1>2 DEF FreshCalls

LEMMA FreshRest ==
  ASSUME NEW l, NEW asked \in Seq(ToolCalls), asked # << >>, FreshCalls(l, asked)
  PROVE  /\ FreshCalls(l, Tail(asked)) /\ Tail(asked) \in Seq(ToolCalls)
         /\ Head(asked).args # "malformed"
         /\ \A k \in 1..Len(l) : Terminal(l[k]) => l[k].payload.id # Head(asked).id
         /\ \A x \in 1..Len(Tail(asked)) : Tail(asked)[x].id # Head(asked).id
<1>1. /\ Len(asked) \in Nat /\ Len(asked) >= 1 /\ Head(asked) = asked[1]
      /\ Tail(asked) \in Seq(ToolCalls) /\ Len(Tail(asked)) = Len(asked) - 1
      /\ \A x \in 1..Len(Tail(asked)) : Tail(asked)[x] = asked[x + 1]
  <2>1. Len(asked) \in Nat /\ Len(asked) # 0
    BY EmptySeq
  <2> QED
    BY <2>1, HeadTailProperties
<1>2. 1 \in 1..Len(asked) /\ \A x \in 1..Len(Tail(asked)) : x + 1 \in 1..Len(asked) /\ x + 1 # 1
  BY <1>1
<1>3. \A x, y \in 1..Len(Tail(asked)) : x + 1 = y + 1 => x = y
  BY <1>1
<1> HIDE DEF FreshCalls
<1>4. FreshCalls(l, Tail(asked))
  <2>1. \A x \in 1..Len(Tail(asked)) : Tail(asked)[x].args # "malformed"
    BY <1>1, <1>2 DEF FreshCalls
  <2>2. \A x, y \in 1..Len(Tail(asked)) : Tail(asked)[x].id = Tail(asked)[y].id => x = y
    BY <1>1, <1>2, <1>3 DEF FreshCalls
  <2>3. \A k \in 1..Len(l) : Terminal(l[k]) =>
          \A x \in 1..Len(Tail(asked)) : Tail(asked)[x].id # l[k].payload.id
    BY <1>1, <1>2 DEF FreshCalls
  <2> QED
    BY <2>1, <2>2, <2>3 DEF FreshCalls
<1> QED
  BY <1>1, <1>2, <1>4 DEF FreshCalls

(* The ids of a completion are new: those of the records before name turns   *)
(* before.                                                                   *)
LEMMA NewIdsFresh ==
  ASSUME UniqueIds, JSONOnly, TypeInv, RecordInv, TurnInv, TurnsIncreasing, pc = "call",
         NEW r \in Responses
  PROVE  FreshCalls(log, Completion(r).calls)
<1> DEFINE asked == Completion(r).calls
           n == Len(log)
<1>1. /\ asked \in Seq(ToolCalls) /\ Len(asked) = Len(r.calls)
      /\ \A x \in 1..Len(asked) : asked[x].id = <<turnNumber, x>>
  BY CompletionTyped DEF CallId
<1>2. \A x \in 1..Len(asked) : asked[x].args # "malformed"
  BY <1>1 DEF JSONOnly, Completion, Assistant
<1>3. n \in Nat /\ n \in 1..n /\ log[n].kind = "turn"
  <2>1. log \in Seq(Events) /\ log # << >>
    BY DEF TypeInv, RecordInv
  <2>2. n \in Nat /\ n # 0
    BY <2>1, EmptySeq
  <2> QED
    BY <2>2 DEF RecordInv
<1> HIDE DEF asked
<1>4. log[n].payload.turn = turnNumber
  <2>1. PICK j \in 1..n : TurnOpen(j)
    BY DEF TurnInv, InTurnStages, Indices
  <2>2. j = n
    <3>1. j # n => n \in j + 1..n
      BY <1>3
    <3> QED
      BY <1>3, <2>1, <3>1 DEF TurnOpen
  <2> QED
    BY <2>1, <2>2 DEF TurnOpen
<1>5. ASSUME NEW k \in 1..n, Terminal(log[k]), NEW x \in 1..Len(asked),
             asked[x].id = log[k].payload.id
      PROVE  FALSE
  <2>1. PICK i \in 1..k - 1 :
          /\ log[i].kind = "llm"
          /\ \E y \in 1..Len(log[i].payload.msg.calls) :
               log[i].payload.msg.calls[y].id = log[k].payload.id
    BY <1>5 DEF RecordInv, Orderly, FromCompletion, Indices
  <2>2. i \in 1..n /\ i \in Nat /\ i < n
    <3>1. k # n
      BY <1>3, <1>5 DEF Terminal
    <3> QED
      BY <1>3, <3>1
  <2>3. PICK y \in 1..Len(log[i].payload.msg.calls) :
          <<log[i].payload.turn, y>> = <<turnNumber, x>>
    BY <1>1, <1>5, <2>1, <2>2 DEF RecordInv, Orderly, SaidInTurn, Indices
  <2>4. log[i].payload.turn = turnNumber
    BY <2>3
  <2>5. PICK j \in 1..n : /\ log[j].kind = "turn" /\ j < i
                          /\ log[j].payload.turn = log[i].payload.turn
    BY <2>1, <2>2 DEF TurnInv, TurnRecordsMatch, Kinds, InTurn, Indices
  <2>6. log[j].payload.turn < log[n].payload.turn
    <3>1. j < n
      BY <2>2, <2>5
    <3> QED
      BY <1>3, <2>5, <3>1 DEF TurnsIncreasing, Kinds, Indices
  <2>7. turnNumber \in Nat
    BY DEF TypeInv, TypeOK
  <2> QED
    BY <1>4, <2>4, <2>5, <2>6, <2>7
<1>6. \A x, y \in 1..Len(asked) : asked[x].id = asked[y].id => x = y
  BY <1>1
<1> QED
  BY <1>2, <1>5, <1>6 DEF FreshCalls, asked

LEMMA FreshStep ==
  ASSUME UniqueIds, JSONOnly, TypeInv, TypeInv', RecordInv, TurnInv, TurnsIncreasing,
         FreshInv, [Next]_vars
  PROVE  FreshInv'
<1> SUFFICES ASSUME pc' \in CallStages PROVE FreshCalls(log', calls')
  BY DEF FreshInv
<1>0. Conversing' /\ log \in Seq(Events) /\ calls \in Seq(ToolCalls)
  BY DEF Conversing, CallStages, TypeInv
<1>1. CASE LeavesAlone /\ QuietLog
  <2>1. FreshCalls(log, calls) /\ calls' = calls
    BY <1>1 DEF LeavesAlone, FreshInv
  <2>2. CASE log' = log
    BY <2>1, <2>2
  <2>3. ASSUME NEW e \in Events, log' = Append(log, e), Quiet(e)
        PROVE  FreshCalls(log', calls')
    <3>1. FreshCalls(Append(log, e), calls)
      BY <1>0, <2>1, <2>3, FreshGrows DEF Quiet
    <3> QED
      BY <2>1, <2>3, <3>1
  <2> QED
    BY <1>1, <2>2, <2>3 DEF QuietLog
<1>2. ASSUME NEW r \in Responses, Asks(r), Noted(r)
      PROVE  FreshCalls(log', calls')
  <2> DEFINE e == NextEvent("llm", LLMPayload(turnNumber, r.tokens, Completion(r)))
             asked == Completion(r).calls
  <2>1. log' = Append(log, e) /\ calls' = asked /\ pc = "call"
    BY <1>2 DEF Asks, Noted
  <2>2. e \in Events /\ ~Terminal(e)
    BY <2>1, StageEvents DEF Terminal, NextEvent, Event
  <2>3. asked \in Seq(ToolCalls) /\ FreshCalls(log, asked)
    BY <2>1, CompletionTyped, NewIdsFresh
  <2> HIDE DEF e, asked
  <2>4. FreshCalls(Append(log, e), asked)
    BY <1>0, <2>2, <2>3, FreshGrows
  <2> QED
    BY <2>1, <2>4
<1>3. ASSUME NEW content \in Texts, Answers(content), Filed(Head(calls), content)
      PROVE  FreshCalls(log', calls')
  <2>1. FreshCalls(log, calls) /\ calls # << >> /\ calls' = Tail(calls)
    BY <1>3 DEF Answers, Reply, FreshInv
  <2>2. /\ FreshCalls(log, Tail(calls)) /\ Tail(calls) \in Seq(ToolCalls)
        /\ \A x \in 1..Len(Tail(calls)) : Tail(calls)[x].id # Head(calls).id
    BY <1>0, <2>1, FreshRest
  <2>3. CASE log' = log
    BY <2>1, <2>2, <2>3
  <2>4. ASSUME NEW e \in Events, log' = Append(log, e), e.payload.id = Head(calls).id
        PROVE  FreshCalls(log', calls')
    <3> DEFINE asked == Tail(calls)
    <3>1. asked \in Seq(ToolCalls) /\ FreshCalls(log, asked)
          /\ \A x \in 1..Len(asked) : asked[x].id # e.payload.id
      BY <2>2, <2>4
    <3> HIDE DEF asked
    <3>2. FreshCalls(Append(log, e), asked)
      BY <1>0, <3>1, FreshGrows
    <3> QED
      BY <2>1, <2>4, <3>2 DEF asked
  <2> QED
    BY <1>3, <2>3, <2>4 DEF Filed
<1>4. CASE Condenses \/ Load \/ \E l \in Launches : Begins(l)
  BY <1>4 DEF Condenses, Load, Begins, CallStages
<1> QED
  BY <1>0, <1>1, <1>2, <1>3, <1>4, TalkStep



-----------------------------------------------------------------------------
(* The conversation is its head and what LoadTranscript reads back, unless   *)
(* the writer is broken.                                                     *)
ReadBack(ms, l) == \E b \in Messages : Prefixed(ms, SystemPrompt, b, LoadTranscript(l).messages)

SameConv == Conversing /\ ~broken => ReadBack(messages, log)

LEMMA BehindHead ==
  ASSUME NEW b \in Messages, NEW ms \in Seq(Messages),
         NEW t, Prefixed(t, SystemPrompt, b, ms)
  PROVE  /\ t[2] = b
         /\ \A i \in 1..Len(ms) : t[i + 2] = ms[i] /\ i + 2 \in 1..Len(t)
<1> DEFINE h == <<SystemPrompt, b>>
<1>1. h \in Seq(Messages) /\ Len(h) = 2 /\ h[2] = b
  <2>1. "" \in Texts
    BY DEF Texts
  <2>2. SystemPrompt \in Messages
    BY <2>1, Heads
  <2> QED
    BY <2>2
<1> HIDE DEF h
<1>2. Joins(t, h, ms) /\ Len(ms) \in Nat
  <2>1. t = h \o ms
    BY DEF Prefixed, h
  <2>2. Len(ms) \in Nat
    OBVIOUS
  <2> QED
    BY <1>1, <2>1, <2>2, Joined
<1>3. ASSUME NEW i \in 1..Len(ms) PROVE t[i + 2] = ms[i] /\ i + 2 \in 1..Len(t)
  <2>1. i + 2 \in 1..2 + Len(ms) /\ ~(i + 2 <= 2) /\ (i + 2) - 2 = i
    BY <1>2
  <2> QED
    BY <1>1, <1>2, <2>1 DEF Joins
<1> QED
  BY <1>1, <1>2, <1>3 DEF Joins

LEMMA PrefixedGrows ==
  ASSUME NEW b \in Messages, NEW ms \in Seq(Messages), NEW m \in Messages,
         NEW t, Prefixed(t, SystemPrompt, b, ms)
  PROVE  Prefixed(Append(t, m), SystemPrompt, b, Append(ms, m))
<1> DEFINE h == <<SystemPrompt, b>>
           u == Append(t, m)
           v == h \o Append(ms, m)
<1>1. h \in Seq(Messages) /\ Len(h) = 2
  <2>1. "" \in Texts
    BY DEF Texts
  <2>2. SystemPrompt \in Messages
    BY <2>1, Heads
  <2> QED
    BY <2>2
<1> HIDE DEF h
<1>2. Joins(t, h, ms) /\ t = h \o ms
  BY <1>1, Joined DEF Prefixed, h
<1>3. /\ Append(ms, m) \in Seq(Messages) /\ Len(Append(ms, m)) = Len(ms) + 1
      /\ Append(ms, m)[Len(ms) + 1] = m /\ Len(ms) \in Nat
      /\ \A i \in 1..Len(ms) : Append(ms, m)[i] = ms[i]
  BY AppendProperties
<1>4. Joins(v, h, Append(ms, m))
  BY <1>1, <1>3, Joined
<1>5. /\ u \in Seq(Messages) /\ Len(u) = Len(t) + 1 /\ u[Len(t) + 1] = m
      /\ \A i \in 1..Len(t) : u[i] = t[i]
  BY <1>2, AppendProperties DEF Joins
<1> HIDE DEF u, v
<1>6. Len(t) = Len(ms) + 2 /\ Len(u) = Len(v) /\ Len(u) = Len(ms) + 3 /\ v \in Seq(Messages)
  BY <1>1, <1>2, <1>3, <1>4, <1>5 DEF Joins
<1>7. ASSUME NEW i \in 1..Len(u) PROVE u[i] = v[i]
  <2>1. v[i] = IF i <= 2 THEN h[i] ELSE Append(ms, m)[i - 2]
    BY <1>1, <1>3, <1>4, <1>6 DEF Joins
  <2>2. i \in 1..Len(t) => t[i] = IF i <= 2 THEN h[i] ELSE ms[i - 2]
    BY <1>1, <1>2, <1>3 DEF Joins
  <2>3. CASE i = Len(t) + 1
    <3>1. i - 2 = Len(ms) + 1 /\ ~(i <= 2)
      BY <1>3, <1>6, <2>3
    <3> QED
      BY <1>3, <1>5, <2>1, <2>3, <3>1
  <2>4. CASE i # Len(t) + 1
    <3>1. i \in 1..Len(t) /\ (~(i <= 2) => i - 2 \in 1..Len(ms))
      BY <1>3, <1>6, <2>4
    <3> QED
      BY <1>3, <1>5, <2>1, <2>2, <3>1
  <2> QED
    BY <2>3, <2>4
<1>8. u = v
  BY <1>5, <1>6, <1>7, SeqEqual
<1> QED
  BY <1>8 DEF Prefixed, u, v, h


LEMMA SameStep ==
  ASSUME ~FreshRelaunch, TypeInv, TypeInv', FreshInv, SameConv,
         pc = "top" => ~ShouldCompact(messages), [Next]_vars
  PROVE  SameConv'
<1> SUFFICES ASSUME Conversing', ~broken' PROVE ReadBack(messages', log')
  BY DEF SameConv
<1> DEFINE lt == LoadTranscript(log)
<1>0. log \in Seq(Events) /\ runs' \in Nat /\ RunsUpTo(log', runs') /\ calls \in Seq(ToolCalls)
  <2>1. runs' \in 0..MaxRuns /\ log \in Seq(Events) /\ calls \in Seq(ToolCalls)
        /\ RunsUpTo(log', runs')
    BY DEF TypeInv, TypeOK
  <2> QED
    BY <2>1, LimitAssumption
<1>1. ASSUME NEW e \in Events, log' = Append(log, e)
      PROVE  LoadTranscript(log') = LoadEvent(lt, e) /\ lt \in Transcripts(runs')
  <2>1. RunsUpTo(Append(log, e), runs')
    BY <1>0, <1>1
  <2>2. LoadTranscript(Append(log, e)) = LoadEvent(lt, e)
    BY <1>0, <2>1, LoadGrows
  <2>3. RunsUpTo(log, runs')
    <3>1. /\ Len(Append(log, e)) = Len(log) + 1 /\ Len(log) \in Nat
          /\ \A i \in 1..Len(log) : Append(log, e)[i] = log[i]
      BY <1>0, AppendProperties
    <3>2. \A i \in 1..Len(log) : i \in 1..Len(Append(log, e))
      BY <3>1
    <3> QED
      BY <2>1, <3>1, <3>2 DEF RunsUpTo
  <2>4. lt \in Transcripts(runs')
    BY <1>0, <2>3, TranscriptType
  <2> QED
    BY <1>1, <2>2, <2>4
<1>2. ASSUME NEW m \in Messages, Conversing, ~broken, messages' = Append(messages, m),
             lt.messages \in Seq(Messages),
             LoadTranscript(log').messages = Append(lt.messages, m)
      PROVE  ReadBack(messages', log')
  <2>1. PICK b \in Messages : Prefixed(messages, SystemPrompt, b, lt.messages)
    BY <1>2 DEF SameConv, ReadBack
  <2> DEFINE ms == lt.messages
             u == Append(messages, m)
  <2>2. ms \in Seq(Messages) /\ Prefixed(messages, SystemPrompt, b, ms)
    BY <1>2, <2>1
  <2> HIDE DEF ms
  <2>3. Prefixed(u, SystemPrompt, b, Append(ms, m))
    BY <1>2, <2>2, PrefixedGrows
  <2>4. Prefixed(messages', SystemPrompt, b, LoadTranscript(log').messages)
    BY <1>2, <2>3 DEF ms, u
  <2> QED
    BY <2>4 DEF ReadBack
<1>3. CASE (LeavesAlone \/ Condenses) /\ QuietLog /\ StaysBroken
  <2>1. Conversing /\ ~broken /\ messages' = messages
    BY <1>3 DEF LeavesAlone, Condenses, StaysBroken, Conversing
  <2>2. PICK b \in Messages : Prefixed(messages, SystemPrompt, b, lt.messages)
    BY <2>1 DEF SameConv, ReadBack
  <2>3. LoadTranscript(log').messages = lt.messages
    <3>1. CASE log' = log
      BY <3>1
    <3>2. ASSUME NEW e \in Events, log' = Append(log, e), Quiet(e)
          PROVE  LoadTranscript(log').messages = lt.messages
      <4>1. LoadTranscript(log') = LoadEvent(lt, e) /\ lt \in Transcripts(runs')
        BY <1>1, <3>2
      <4> HIDE DEF lt
      <4>2. e.kind # "llm" /\ ~NewAnswer(lt, e)
        BY <3>2 DEF Quiet, NewAnswer
      <4> QED
        BY <1>0, <4>1, <4>2, LoadEventIs
    <3> QED
      BY <1>3, <3>1, <3>2 DEF QuietLog
  <2> QED
    BY <2>1, <2>2, <2>3 DEF ReadBack
<1>4. CASE /\ \E l \in Launches : Begins(l)
           /\ log' = log /\ (FreshRelaunch \/ log = << >>)
  <2>1. PICK l \in Launches : messages' = <<SystemPrompt, Message("user", l.goal)>>
    BY <1>4 DEF Begins
  <2>2. log' = << >>
    BY <1>4
  <2>3. LoadTranscript(log').messages = << >>
    <3>1. << >> \in Seq(Events) /\ Len(<< >>) = 0
      BY EmptySeq
    <3>2. RunsUpTo(<< >>, 0)
      BY <3>1 DEF RunsUpTo
    <3>3. PICK f : LoadsAs(<< >>, f) /\ LoadTranscript(<< >>) = f[Len(<< >>)]
      BY <3>1, <3>2, LoadIsFold
    <3>4. f[0] = EmptyTranscript
      BY <3>1, <3>3 DEF LoadsAs
    <3>5. LoadTranscript(<< >>) = EmptyTranscript
      BY <3>1, <3>3, <3>4
    <3>6. EmptyTranscript.messages = << >>
      BY DEF EmptyTranscript
    <3> QED
      BY <2>2, <3>5, <3>6
  <2>4. l.goal \in Texts
    BY LaunchAssumption DEF Launched
  <2>5. SystemPrompt \in Messages /\ Message("user", l.goal) \in Messages
    BY <2>4, Heads
  <2>6. PICK a, b \in Messages : a = SystemPrompt /\ b = Message("user", l.goal)
    BY <2>5
  <2>7. messages' = <<a, b>> \o << >>
    <3>1. messages' = <<a, b>> /\ <<a, b>> \in Seq(Messages)
      BY <2>1, <2>6
    <3> QED
      BY <3>1, ConcatEmptySeq
  <2>8. Prefixed(messages', SystemPrompt, b, LoadTranscript(log').messages)
    BY <2>3, <2>6, <2>7 DEF Prefixed
  <2> QED
    BY <2>8 DEF ReadBack
<1>5. CASE Load
  <2>1. log' = log
    BY <1>5 DEF Load, logVars
  <2>2. PICK b \in Messages : Prefixed(messages', SystemPrompt, b, lt.messages)
    BY <1>5, LoadReads
  <2> QED
    BY <2>1, <2>2 DEF ReadBack
<1>6. CASE \E r \in Responses : Asks(r) /\ Noted(r) /\ StaysBroken
  <2>1. PICK r \in Responses : Asks(r) /\ Noted(r) /\ StaysBroken
    BY <1>6
  <2> DEFINE e == NextEvent("llm", LLMPayload(turnNumber, r.tokens, Completion(r)))
             m == Completion(r)
  <2>2. /\ log' = Append(log, e) /\ messages' = Append(messages, m) /\ Conversing /\ ~broken
        /\ m \in Messages
    BY <2>1, CompletionTyped DEF Asks, Noted, StaysBroken, Conversing
  <2>3. e \in Events /\ e.kind = "llm" /\ e.payload.msg = m
    BY <2>1, StageEvents DEF Asks, NextEvent, Event, LLMPayload
  <2> HIDE DEF e, m
  <2>4. LoadTranscript(log') = LoadEvent(lt, e) /\ lt \in Transcripts(runs')
    BY <1>1, <2>2, <2>3
  <2> HIDE DEF lt
  <2>5. LoadTranscript(log').messages = Append(lt.messages, m)
    BY <1>0, <2>3, <2>4, LoadEventIs
  <2>6. lt.messages \in Seq(Messages)
    BY <2>4 DEF Transcripts
  <2> QED
    BY <1>2, <2>2, <2>5, <2>6 DEF lt
<1>7. CASE \E content \in Texts : Answers(content) /\ Filed(Head(calls), content) /\ StaysBroken
  <2>1. PICK content \in Texts : Answers(content) /\ Filed(Head(calls), content) /\ StaysBroken
    BY <1>7
  <2> DEFINE c == Head(calls)
  <2>2. /\ Conversing /\ ~broken /\ messages' = Append(messages, ToolMessage(c.id, content))
        /\ FreshCalls(log, calls) /\ calls # << >>
    BY <2>1 DEF Answers, Reply, StaysBroken, Conversing, CallStages, FreshInv
  <2>3. /\ c.args # "malformed"
        /\ \A k \in 1..Len(log) : Terminal(log[k]) => log[k].payload.id # c.id
    BY <1>0, <2>2, FreshRest
  <2>4. PICK e \in Events : /\ log' = Append(log, e) /\ Terminal(e)
                            /\ e.payload.id = c.id /\ Content(e.payload) = content
    BY <2>1, <2>3 DEF Filed
  <2>5. LoadTranscript(log') = LoadEvent(lt, e) /\ lt \in Transcripts(runs')
    BY <1>1, <2>4
  <2>6. e.payload.id \notin lt.seen
    <3>1. runs \in Nat /\ RunsUpTo(log, runs)
      <4>1. runs \in 0..MaxRuns /\ RunsUpTo(log, runs)
        BY DEF TypeInv, TypeOK
      <4> QED
        BY <4>1, LimitAssumption
    <3>2. Recalled(log, Len(log), lt)
      BY <1>0, <3>1, TranscriptRecalls
    <3> QED
      BY <2>3, <2>4, <3>2 DEF Recalled
  <2> HIDE DEF lt, c
  <2> DEFINE m == ToolMessage(e.payload.id, Content(e.payload))
  <2>7. LoadTranscript(log').messages = Append(lt.messages, m)
    BY <1>0, <2>4, <2>5, <2>6, LoadEventIs DEF NewAnswer
  <2>8. lt.messages \in Seq(Messages) /\ m \in Messages
    BY <2>4, <2>5, AnswerIsMessage DEF Transcripts
  <2>9. messages' = Append(messages, m)
    BY <2>2, <2>4
  <2> HIDE DEF m
  <2> QED
    BY <1>2, <2>2, <2>7, <2>8, <2>9 DEF lt
<1> QED
  BY <1>3, <1>4, <1>5, <1>6, <1>7, TalkStep


NotCompacting == pc = "top" => ~ShouldCompact(messages)

(* What a process knows of its conversation is in the log, while it has no   *)
(* reason to compact it and calls can be told apart and recorded.            *)
THEOREM ConversationLogged ==
  ASSUME ~FreshRelaunch, UniqueIds, JSONOnly
  PROVE  Spec /\ []NotCompacting => [](FreshInv /\ SameConv)
<1>1. Init => FreshInv /\ SameConv
  BY DEF Init, FreshInv, SameConv, CallStages, Conversing
<1>2. TypeInv /\ TypeInv' /\ RecordInv /\ TurnInv /\ TurnsIncreasing /\ FreshInv /\ [Next]_vars
        => FreshInv'
  BY FreshStep
<1>3. TypeInv /\ TypeInv' /\ FreshInv /\ SameConv /\ NotCompacting /\ [Next]_vars => SameConv'
  BY SameStep DEF NotCompacting
<1>4. Spec => []TurnsIncreasing
  BY TurnsOnlyGrow
<1> QED
  BY <1>1, <1>2, <1>3, <1>4, AgentInv, RecordsOrderly, TurnsHold, PTL DEF Spec

(* A resume that reads the log when the endpoint is asked to go on gets the  *)
(* conversation the endpoint is sent, and everything in that log is durable. *)
THEOREM ConversationInLog ==
  ASSUME ~FreshRelaunch, UniqueIds, JSONOnly
  PROVE  Spec /\ []NotCompacting => []ConversationDurable
<1>1. TypeInv /\ RecordInv /\ SameConv => ConversationDurable
  <2> SUFFICES ASSUME TypeInv, RecordInv, SameConv, pc = "call"
               PROVE  /\ kept = Len(log)
                      /\ messages = <<SystemPrompt, messages[2]>> \o LoadTranscript(log).messages
    BY DEF ConversationDurable
  <2> DEFINE ms == LoadTranscript(log).messages
  <2>1. kept = Len(log) /\ ~broken /\ Conversing
    BY DEF RecordInv, Conversing
  <2>2. PICK b \in Messages : Prefixed(messages, SystemPrompt, b, ms)
    BY <2>1 DEF SameConv, ReadBack
  <2>3. ms \in Seq(Messages)
    <3>1. runs \in Nat /\ RunsUpTo(log, runs) /\ log \in Seq(Events)
      <4>1. runs \in 0..MaxRuns /\ RunsUpTo(log, runs) /\ log \in Seq(Events)
        BY DEF TypeInv, TypeOK
      <4> QED
        BY <4>1, LimitAssumption
    <3>2. LoadTranscript(log) \in Transcripts(runs)
      BY <3>1, TranscriptType
    <3> QED
      BY <3>2 DEF Transcripts
  <2> HIDE DEF ms
  <2>4. messages[2] = b
    BY <2>2, <2>3, BehindHead
  <2> QED
    BY <2>1, <2>2, <2>4 DEF Prefixed, ms
<1> QED
  BY <1>1, AgentInv, RecordsOrderly, ConversationLogged, PTL

(* Where the result of a call is not in the conversation sent, the process   *)
(* that made the call ended in that turn.                                    *)
LEMMA CutOff ==
  ASSUME TypeInv, RecordInv, ClosedInv, pc = "call",
         NEW i \in Indices, log[i].kind = "llm", NEW x \in 1..Len(log[i].payload.msg.calls),
         log[i].payload.msg.calls[x].args # "malformed",
         \A k \in Indices : Terminal(log[k]) =>
           log[k].payload.id # log[i].payload.msg.calls[x].id
  PROVE  \E j \in Kinds({"run_start"}) : i < j /\ NoneBetween(i, j, {"turn", "turn_end"})
<1> DEFINE ends == {"turn", "turn_end", "run_start"}
           S == {k \in i + 1..Len(log) : log[k].kind \in ends}
<1>1. Len(log) \in Nat /\ Len(log) \in Indices /\ log[Len(log)].kind = "turn" /\ i \in Nat
  <2>1. log \in Seq(Events) /\ log # << >>
    BY DEF TypeInv, RecordInv
  <2>2. Len(log) \in Nat /\ Len(log) # 0
    BY <2>1, EmptySeq
  <2> QED
    BY <2>2 DEF RecordInv, Indices
<1>2. S \in SUBSET Nat /\ S # {}
  <2>1. Len(log) \in S
    BY <1>1 DEF Indices
  <2> QED
    BY <1>1, <2>1
<1>3. PICK j \in S : \A k \in S : j <= k
  BY <1>2, LeastNumber
<1>4. j \in Indices /\ j \in Nat /\ i < j /\ log[j].kind \in ends
  BY <1>1, <1>3 DEF Indices
<1>5. \A k \in i + 1..j - 1 : log[k].kind \notin ends
  <2>1. \A k \in i + 1..j - 1 : k \in i + 1..Len(log) /\ ~(j <= k)
    BY <1>1, <1>4 DEF Indices
  <2> QED
    BY <1>3, <2>1
<1>6. log[j].kind # "turn"
  <2> SUFFICES ASSUME log[j].kind = "turn" PROVE FALSE
    OBVIOUS
  <2>1. j > 1 /\ log[j - 1].kind \in {"run_start", "turn_end"}
    BY <1>4 DEF RecordInv, Orderly, AfterMarker
  <2>2. j - 1 = i \/ j - 1 \in i + 1..j - 1
    BY <1>1, <1>4
  <2> QED
    BY <1>5, <2>1, <2>2
<1>7. log[j].kind # "turn_end"
  <2> SUFFICES ASSUME log[j].kind = "turn_end" PROVE FALSE
    OBVIOUS
  <2>1. Closes(j, i) /\ i \in 1..j - 1
    BY <1>1, <1>4, <1>5 DEF Closes, NoneBetween, Indices
  <2>2. AnsweredBy(j, i)
    BY <1>4, <2>1 DEF ClosedInv
  <2>3. PICK k \in i + 1..j - 1 :
          Terminal(log[k]) /\ log[k].payload.id = log[i].payload.msg.calls[x].id
    BY <2>2 DEF AnsweredBy, Asked
  <2>4. k \in Indices
    BY <1>1, <1>4 DEF Indices
  <2> QED
    BY <2>3, <2>4
<1>8. log[j].kind = "run_start"
  BY <1>4, <1>6, <1>7
<1>9. NoneBetween(i, j, {"turn", "turn_end"})
  <2>1. ASSUME NEW k \in i + 1..j - 1 PROVE log[k].kind \notin {"turn", "turn_end"}
    BY <1>5, SMTT(20)
  <2> QED
    BY <2>1 DEF NoneBetween
<1> QED
  BY <1>4, <1>8, <1>9 DEF Kinds


(* Under the same conditions, each call of a completion has its result in    *)
(* the conversation sent, unless the process that made it ended in that turn *)
(* and another one took up the log.                                          *)
THEOREM OnlyCutOffUnanswered ==
  ASSUME ~FreshRelaunch, UniqueIds, JSONOnly
  PROVE  Spec /\ []NotCompacting => []UnansweredWasCutOff
<1>1. TypeInv /\ RecordInv /\ ClosedInv /\ JSONInv /\ SameConv => UnansweredWasCutOff
  <2> SUFFICES ASSUME TypeInv, RecordInv, ClosedInv, JSONInv, SameConv, pc = "call",
                      NEW i \in Kinds({"llm"}), NEW c \in ToSet(log[i].payload.msg.calls),
                      ~Answered(c.id)
               PROVE  \E j \in Kinds({"run_start"}) :
                        i < j /\ NoneBetween(i, j, {"turn", "turn_end"})
    BY DEF UnansweredWasCutOff
  <2> DEFINE asked == log[i].payload.msg.calls
             lt == LoadTranscript(log)
  <2>1. i \in Indices /\ log[i].kind = "llm"
    BY DEF Kinds
  <2>2. asked \in Seq(ToolCalls)
    <3>1. log[i] \in Events
      <4>1. log \in Seq(Events) /\ i \in 1..Len(log)
        BY <2>1 DEF TypeInv, Indices
      <4> QED
        BY <4>1
    <3>2. log[i].payload.msg \in Messages
      BY <2>1, <3>1, EventParts DEF LLMs
    <3> QED
      BY <3>2 DEF Messages
  <2>3. PICK x \in 1..Len(asked) : c = asked[x]
    BY <2>2 DEF ToSet
  <2>4. asked[x].args # "malformed"
    BY <2>1 DEF JSONInv, AllJSON
  <2>5. runs \in Nat /\ RunsUpTo(log, runs) /\ log \in Seq(Events)
    <3>1. runs \in 0..MaxRuns /\ RunsUpTo(log, runs) /\ log \in Seq(Events)
      BY DEF TypeInv, TypeOK
    <3> QED
      BY <3>1, LimitAssumption
  <2>6. lt.messages \in Seq(Messages) /\ Recalled(log, Len(log), lt)
    <3>1. lt \in Transcripts(runs)
      BY <2>5, TranscriptType
    <3>2. Recalled(log, Len(log), lt)
      BY <2>5, TranscriptRecalls
    <3> QED
      BY <3>1, <3>2 DEF Transcripts
  <2>7. PICK b \in Messages : Prefixed(messages, SystemPrompt, b, lt.messages)
    BY DEF SameConv, ReadBack, Conversing, RecordInv
  <2>8. messages \in Seq(Messages)
    BY DEF TypeInv
  <2> HIDE DEF lt
  <2>9. ASSUME NEW k \in Indices, Terminal(log[k]), log[k].payload.id = c.id
        PROVE  FALSE
    <3>1. HasResult(lt.messages, c.id)
      BY <2>6, <2>9 DEF Recalled, Indices
    <3>2. PICK m \in 1..Len(lt.messages) :
            lt.messages[m].role = "tool" /\ lt.messages[m].id = c.id
      BY <3>1 DEF HasResult
    <3>3. messages[m + 2] = lt.messages[m] /\ m + 2 \in 1..Len(messages)
      BY <2>6, <2>7, <3>2, BehindHead
    <3>4. messages[m + 2] \in ToSet(messages)
      BY <2>8, <3>3 DEF ToSet
    <3> QED
      BY <3>2, <3>3, <3>4 DEF Answered
  <2> QED
    BY <2>1, <2>3, <2>4, <2>9, CutOff
<1> QED
  BY <1>1, AgentInv, RecordsOrderly, ClosedHolds, CallsAreJSON, ConversationLogged, PTL
=============================================================================
