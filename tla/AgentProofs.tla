----------------------------- MODULE AgentProofs ------------------------------
(* Proofs about Agent for every endpoint, every launch and every number of   *)
(* processes: what a log, a conversation and a process consist of, whatever  *)
(* is cut off and resumed; then what every step does to the log, that its    *)
(* records and its turns are numbered upwards through every crash and resume *)
(* and the turns named by what is recorded in them, that run_end closes a    *)
(* process, that nothing is resumed from a log read in part, and that the    *)
(* log is the store LogStore promises. The other proofs about Agent extend   *)
(* this module.                                                              *)
EXTENDS AgentProperties, InductionProofs, SequenceTheorems

Ids == Seq(Nat)
ToolCalls == [id : Ids, tool : STRING, args : {"valid", "invalid", "malformed"}]
Roles == {"system", "user", "assistant", "tool"}
Messages == [role : Roles, content : Texts, calls : Seq(ToolCalls), id : Ids]
Keys == Nat \X Ids \X Nat

RunStarts == [run : Nat \ {0}, goal : Texts, model : Texts, config : Launched]
Turns     == [turn : Nat]
LLMs      == [turn : Nat, tokens : Nat, msg : Messages]
Statuses  == {"intent", "ok", "error", "invalid"}
Tools     == [id : Ids, key : Keys, status : Statuses, out : Texts, err : Texts]

Reasons   == {"max_turns", "max_wall_clock", "max_total_tokens",
              "max_tool_invocations", "llm_error", "answered", "finished"}

Records(kinds, payloads) == [seq : Nat, kind : kinds, payload : payloads]

(* A record carries the payload of its kind.                                 *)
Events == Records({"run_start"}, RunStarts)
            \cup Records({"turn", "turn_end"}, Turns)
            \cup Records({"llm"}, LLMs)
            \cup Records({"tool"}, Tools)
            \cup Records({"finish"}, {FinishPayload})
            \cup Records({"run_end"}, [reason : Reasons])
            \cup Records({"log"}, [level : {"error", "warn"}])

-----------------------------------------------------------------------------
LEMMA EventParts ==
  ASSUME NEW e \in Events
  PROVE  /\ e.seq \in Nat
         /\ e.kind \in {"run_start", "turn", "turn_end", "llm", "tool", "finish",
                        "run_end", "log"}
         /\ e.kind = "run_start" => e.payload \in RunStarts
         /\ e.kind \in {"turn", "turn_end"} => e.payload \in Turns
         /\ e.kind = "llm" => e.payload \in LLMs
         /\ e.kind = "tool" => e.payload \in Tools
BY DEF Events, Records

LEMMA EventOf ==
  ASSUME NEW n \in Nat, NEW kinds, NEW kind \in kinds, NEW payloads, NEW p \in payloads
  PROVE  Event(n, kind, p) \in Records(kinds, payloads)
BY DEF Event, Records

(* Each kind of record the agent writes is an event.                         *)
LEMMA TurnIsEvent ==
  ASSUME NEW n \in Nat, NEW t \in Nat, NEW kind \in {"turn", "turn_end"}
  PROVE  Event(n, kind, TurnPayload(t)) \in Events
<1>1. TurnPayload(t) \in Turns
  BY DEF TurnPayload, Turns
<1> QED
  BY <1>1, EventOf DEF Events

LEMMA RunStartIsEvent ==
  ASSUME NEW n \in Nat, NEW r \in Nat \ {0}, NEW l \in Launched
  PROVE  Event(n, "run_start", RunStartPayload(r, l)) \in Events
<1>1. l.goal \in Texts /\ l.model \in Texts
  BY DEF Launched
<1>2. RunStartPayload(r, l) \in RunStarts
  BY <1>1 DEF RunStartPayload, RunStarts
<1> QED
  BY <1>2, EventOf DEF Events

LEMMA LLMIsEvent ==
  ASSUME NEW n \in Nat, NEW t \in Nat, NEW k \in Nat, NEW m \in Messages
  PROVE  Event(n, "llm", LLMPayload(t, k, m)) \in Events
<1>1. LLMPayload(t, k, m) \in LLMs
  BY DEF LLMPayload, LLMs
<1> QED
  BY <1>1, EventOf DEF Events

LEMMA ToolIsEvent ==
  ASSUME NEW n \in Nat, NEW id \in Ids, NEW key \in Keys, NEW status \in Statuses,
         NEW out \in Texts, NEW err \in Texts
  PROVE  Event(n, "tool", ToolPayload(id, key, status, out, err)) \in Events
<1>1. ToolPayload(id, key, status, out, err) \in Tools
  BY DEF ToolPayload, Tools
<1> QED
  BY <1>1, EventOf DEF Events

LEMMA OtherIsEvent ==
  ASSUME NEW n \in Nat, NEW level \in {"error", "warn"}, NEW why \in Reasons
  PROVE  /\ Event(n, "log", LogPayload(level)) \in Events
         /\ Event(n, "run_end", RunEndPayload(why)) \in Events
         /\ Event(n, "finish", FinishPayload) \in Events
<1>1. LogPayload(level) \in [level : {"error", "warn"}] /\ RunEndPayload(why) \in [reason : Reasons]
  BY DEF LogPayload, RunEndPayload
<1>2. Event(n, "log", LogPayload(level)) \in Records({"log"}, [level : {"error", "warn"}])
  BY <1>1, EventOf
<1>3. Event(n, "run_end", RunEndPayload(why)) \in Records({"run_end"}, [reason : Reasons])
  BY <1>1, EventOf
<1>4. Event(n, "finish", FinishPayload) \in Records({"finish"}, {FinishPayload})
  BY EventOf
<1> QED
  BY <1>2, <1>3, <1>4 DEF Events

LEMMA MessageTypes ==
  ASSUME NEW role \in Roles, NEW content \in Texts, NEW id \in Ids,
         NEW asked \in Seq(ToolCalls)
  PROVE  /\ Message(role, content) \in Messages
         /\ Assistant(content, asked) \in Messages
         /\ ToolMessage(id, content) \in Messages
<1>1. << >> \in Ids /\ << >> \in Seq(ToolCalls)
  BY EmptySeq DEF Ids
<1>2. Message(role, content) \in Messages
  BY <1>1 DEF Message, Messages
<1>3. Assistant(content, asked) \in Messages
  BY <1>1 DEF Assistant, Messages, Roles
<1>4. ToolMessage(id, content) \in Messages
  BY <1>1 DEF ToolMessage, Messages, Roles
<1> QED
  BY <1>2, <1>3, <1>4

-----------------------------------------------------------------------------
(* LoadTranscript. Its fold is the function it says it is; what it gives     *)
(* back has the run of some record.                                          *)
Transcripts(r) == [run : 0..r, goal : Texts, model : Texts,
                   messages : Seq(Messages), seen : SUBSET Ids]

RunsUpTo(s, r) == \A i \in 1..Len(s) : s[i].kind = "run_start" => s[i].payload.run <= r

LEMMA LoadEventType ==
  ASSUME NEW r \in Nat, NEW lt \in Transcripts(r), NEW e \in Events,
         e.kind = "run_start" => e.payload.run <= r
  PROVE  LoadEvent(lt, e) \in Transcripts(r)
<1>1. /\ lt.run \in 0..r /\ lt.goal \in Texts /\ lt.model \in Texts
      /\ lt.messages \in Seq(Messages) /\ lt.seen \in SUBSET Ids
      /\ DOMAIN lt = {"run", "goal", "model", "messages", "seen"}
  BY DEF Transcripts
<1>2. CASE e.kind = "run_start"
  <2>1. e.payload.run \in 0..r /\ e.payload.goal \in Texts /\ e.payload.model \in Texts
    BY <1>2, EventParts DEF RunStarts
  <2>2. LoadEvent(lt, e) = [lt EXCEPT !.run = e.payload.run, !.goal = e.payload.goal,
                                      !.model = e.payload.model]
    BY <1>2 DEF LoadEvent, Terminal
  <2> QED
    BY <2>1, <2>2 DEF Transcripts
<1>3. CASE e.kind = "llm"
  <2>1. Append(lt.messages, e.payload.msg) \in Seq(Messages)
    BY <1>1, <1>3, EventParts DEF LLMs
  <2>2. LoadEvent(lt, e) = [lt EXCEPT !.messages = Append(@, e.payload.msg)]
    BY <1>3 DEF LoadEvent, Terminal
  <2> QED
    BY <2>1, <2>2 DEF Transcripts
<1>4. CASE Terminal(e) /\ e.payload.id \notin lt.seen
  <2>1. e.kind = "tool" /\ e.payload \in Tools
    BY <1>4, EventParts DEF Terminal
  <2>2. Content(e.payload) \in Texts /\ e.payload.id \in Ids
    BY <2>1 DEF Content, Tools, Texts
  <2>3. ToolMessage(e.payload.id, Content(e.payload)) \in Messages
    BY <2>2, MessageTypes, EmptySeq DEF Roles
  <2>4. Append(lt.messages, ToolMessage(e.payload.id, Content(e.payload))) \in Seq(Messages)
    BY <2>3 DEF Transcripts
  <2>5. LoadEvent(lt, e) = [lt EXCEPT !.messages =
                              Append(@, ToolMessage(e.payload.id, Content(e.payload))),
                            !.seen = @ \cup {e.payload.id}]
    BY <1>4, <2>1 DEF LoadEvent
  <2> QED
    BY <2>2, <2>4, <2>5 DEF Transcripts
<1>5. CASE ~(e.kind = "run_start" \/ e.kind = "llm" \/ (Terminal(e) /\ e.payload.id \notin lt.seen))
  BY <1>5 DEF LoadEvent
<1> QED
  BY <1>2, <1>3, <1>4, <1>5

LoadsAs(s, f) == f = [n \in 0..Len(s) |-> IF n = 0 THEN EmptyTranscript
                                          ELSE LoadEvent(f[n - 1], s[n])]

LEMMA LoadIsFold ==
  ASSUME NEW s \in Seq(Events), NEW r \in Nat, RunsUpTo(s, r)
  PROVE  \E f \in [0..Len(s) -> Transcripts(r)] :
           LoadsAs(s, f) /\ LoadTranscript(s) = f[Len(s)]
<1> DEFINE N == Len(s)
           A == Transcripts(r)
           step == [n \in 1..N |-> [v \in A |-> LoadEvent(v, s[n])]]
           lt == CHOOSE f : LoadsAs(s, f)
<1>1. N \in Nat /\ EmptyTranscript \in A
  <2>1. {} \in SUBSET Ids /\ << >> \in Seq(Messages) /\ 0 \in 0..r /\ "" \in Texts
    BY EmptySeq DEF Texts
  <2>2. EmptyTranscript \in A
    BY <2>1 DEF EmptyTranscript, Transcripts
  <2> QED
    BY <2>2
<1>2. \A n \in 1..N : \A v \in A : LoadEvent(v, s[n]) \in A
  BY LoadEventType DEF RunsUpTo
<1>3. step \in Steps(N, A)
  BY <1>2 DEF Steps
<1>4. PICK f \in [0..N -> A] : IsFold(f, N, EmptyTranscript, step)
  <2> HIDE DEF step, N, A
  <2> QED
    BY <1>1, <1>3, FoldExists
<1>5. ASSUME NEW n \in 1..N PROVE f[n] = LoadEvent(f[n - 1], s[n])
  <2>1. n - 1 \in 0..N
    BY <1>1
  <2>2. f[n - 1] \in A
    BY <1>4, <2>1
  <2>3. step[n][f[n - 1]] = LoadEvent(f[n - 1], s[n])
    BY <2>2
  <2> HIDE DEF step
  <2> QED
    BY <1>4, <2>3 DEF IsFold
<1>6. LoadsAs(s, f)
  <2>1. f = [n \in 0..N |-> f[n]]
    BY <1>4
  <2>2. \A n \in 0..N : f[n] = IF n = 0 THEN EmptyTranscript
                                ELSE LoadEvent(f[n - 1], s[n])
    BY <1>4, <1>5 DEF IsFold
  <2> QED
    BY <2>1, <2>2 DEF LoadsAs
<1>7. LoadsAs(s, lt)
  BY <1>6
<1>8. LoadTranscript(s) = lt[N]
  BY DEF LoadTranscript, LoadsAs
<1>9. lt \in [0..N -> A]
  <2> DEFINE T == {n \in 0..N : lt[n] \in A}
  <2> HIDE DEF lt, A
  <2>1. 0 \in T
    BY <1>1, <1>7 DEF LoadsAs
  <2>2. ASSUME NEW n \in 0..N - 1, n \in T PROVE n + 1 \in T
    <3>1. n + 1 \in 1..N /\ (n + 1) - 1 = n
      BY <1>1
    <3>2. lt[n + 1] = LoadEvent(lt[n], s[n + 1])
      BY <1>7, <3>1 DEF LoadsAs
    <3> QED
      BY <1>2, <2>2, <3>1, <3>2
  <2> HIDE DEF T
  <2>3. 0..N \subseteq T
    BY <1>1, <2>1, <2>2, UpTo
  <2>4. \A n \in 0..N : lt[n] \in A
    BY <2>3 DEF T
  <2> QED
    BY <1>7, <2>4 DEF LoadsAs
<1> QED
  BY <1>7, <1>8, <1>9

LEMMA TranscriptType ==
  ASSUME NEW s \in Seq(Events), NEW r \in Nat, RunsUpTo(s, r)
  PROVE  LoadTranscript(s) \in Transcripts(r)
BY LoadIsFold

(* The part of a log the scanner reads is a prefix of it, and when it is     *)
(* not all of it the next record is the first that is too long.              *)
LEMMA ScannedIsPrefix ==
  ASSUME NEW s \in Seq(Events)
  PROVE  \E n \in 0..Len(s) : /\ Scanned(s) = SubSeq(s, 1, n)
                              /\ Scanned(s) \in Seq(Events)
                              /\ Len(Scanned(s)) = n
                              /\ \A i \in 1..n : Scanned(s)[i] = s[i] /\ ~TooLong(s[i])
                              /\ n < Len(s) => TooLong(s[n + 1])
<1> DEFINE I == {i \in 1..Len(s) : TooLong(s[i])}
<1>1. SelectInSeq(s, TooLong) = IF I # {} THEN Min(I) ELSE 0
  BY ZenonT(40) DEF SelectInSeq
<1>2. CASE I = {}
  <2>1. Scanned(s) = s
    BY <1>1, <1>2 DEF Scanned
  <2>2. SubSeq(s, 1, Len(s)) = s
    BY SubSeqFull
  <2>3. Len(s) \in 0..Len(s) /\ ~(Len(s) < Len(s))
    OBVIOUS
  <2>4. \A i \in 1..Len(s) : Scanned(s)[i] = s[i] /\ ~TooLong(s[i])
    BY <1>2, <2>1
  <2> QED
    BY <2>1, <2>2, <2>3, <2>4
<1>3. CASE I # {}
  <2>1. PICK m \in I : \A i \in I : m <= i
    <3>1. I \in SUBSET Nat
      OBVIOUS
    <3> HIDE DEF I
    <3> QED
      BY <1>3, <3>1, LeastNumber
  <2> DEFINE k == Min(I)
  <2>2. k \in I /\ \A i \in I : k <= i
    <3> HIDE DEF I
    <3> QED
      BY <2>1 DEF Min
  <2>3. k \in 1..Len(s) /\ TooLong(s[k])
    <3> HIDE DEF k
    <3> QED
      BY <2>2
  <2>4. \A i \in 1..k - 1 : ~TooLong(s[i])
    <3> HIDE DEF k
    <3> QED
      BY <2>2
  <2>5. SelectInSeq(s, TooLong) = k
    BY <1>1, <1>3
  <2> HIDE DEF k, I
  <2>6. Scanned(s) = SubSeq(s, 1, k - 1)
    BY <2>3, <2>5 DEF Scanned
  <2>7. /\ k - 1 \in 0..Len(s) /\ (k - 1) + 1 = k
        /\ SubSeq(s, 1, k - 1) \in Seq(Events)
        /\ Len(SubSeq(s, 1, k - 1)) = k - 1
        /\ \A i \in 1..k - 1 : SubSeq(s, 1, k - 1)[i] = s[i]
    BY <2>3
  <2> QED
    BY <2>3, <2>4, <2>6, <2>7
<1> HIDE DEF I
<1> QED
  BY <1>2, <1>3
-----------------------------------------------------------------------------
(* What the variables hold, and what is known of a process at each stage.    *)
TypeInv ==
  /\ TypeOK
  /\ log \in Seq(Events) /\ messages \in Seq(Messages) /\ calls \in Seq(ToolCalls)
  /\ reason \in Reasons \cup {""} /\ effects \in Seq(Nat)
  /\ RunsUpTo(log, runs)
  /\ pc # "down" => runID # 0
  /\ pc = "down" => turnsThisRun = 0
  /\ pc \in {"reject", "invoke", "record"} => calls # <<>>
  /\ pc = "invoke" => Known(Head(calls))
  /\ pc = "end" => reason \in Reasons

(* What an append leaves of the log, whichever way it goes.                  *)
LogTyped == /\ log \in Seq(Events) /\ kept \in 0..Len(log)
            /\ seq \in Nat /\ broken \in BOOLEAN
            /\ RunsUpTo(log, runs)

Recorded(kind, p) == Appended(kind, p) \/ WriteFailed \/ SyncFailed(kind, p) \/ Unmarshalable

LEMMA NextLogTyped ==
  ASSUME LogTyped, NEW kind, NEW p, NextEvent(kind, p) \in Events,
         kind = "run_start" => p.run <= runs
  PROVE  /\ Append(log, NextEvent(kind, p)) \in Seq(Events)
         /\ Len(Append(log, NextEvent(kind, p))) = Len(log) + 1
         /\ RunsUpTo(Append(log, NextEvent(kind, p)), runs)
<1> DEFINE e == NextEvent(kind, p)
           new == Append(log, e)
<1>1. e.kind = kind /\ e.payload = p
  BY DEF NextEvent, Event
<1>0. e \in Events
  OBVIOUS
<1> HIDE DEF e
<1>2. new \in Seq(Events) /\ Len(new) = Len(log) + 1
  BY <1>0 DEF LogTyped
<1>3. ASSUME NEW i \in 1..Len(new), new[i].kind = "run_start"
      PROVE  new[i].payload.run <= runs
  <2>1. CASE i \in 1..Len(log)
    BY <1>3, <2>1 DEF LogTyped, RunsUpTo
  <2>2. CASE i = Len(log) + 1
    BY <1>1, <1>3, <2>2 DEF LogTyped
  <2> QED
    BY <1>2, <2>1, <2>2 DEF LogTyped
<1> QED
  BY <1>2, <1>3 DEF RunsUpTo, e

LEMMA RecordedTyped ==
  ASSUME LogTyped, NEW kind, NEW p, NextEvent(kind, p) \in Events,
         kind = "run_start" => p.run <= runs, Recorded(kind, p), runs' = runs
  PROVE  LogTyped' /\ Len(log) <= Len(log')
<1>1. seq' \in Nat
  BY DEF LogTyped, Recorded, Appended, WriteFailed, SyncFailed, Unmarshalable
<1>2. broken' \in BOOLEAN
  BY DEF LogTyped, Recorded, Appended, WriteFailed, SyncFailed, Unmarshalable
<1>3. CASE UNCHANGED log
  <2>1. kept' = kept
    <3>1. CASE log' = Append(log, NextEvent(kind, p))
      BY <1>3, <3>1, NextLogTyped DEF LogTyped
    <3> QED
      BY <3>1 DEF Recorded, Appended, WriteFailed, SyncFailed, Unmarshalable
  <2> QED
    BY <1>1, <1>2, <1>3, <2>1 DEF LogTyped
<1>4. CASE log' = Append(log, NextEvent(kind, p))
  <2>1. kept' \in {kept, Len(log')}
    BY DEF Recorded, Appended, WriteFailed, SyncFailed, Unmarshalable
  <2>2. /\ log' \in Seq(Events) /\ RunsUpTo(log', runs)
        /\ Len(log') = Len(log) + 1 /\ Len(log) \in Nat
    BY <1>4, NextLogTyped DEF LogTyped
  <2> QED
    BY <1>1, <1>2, <2>1, <2>2 DEF LogTyped
<1> QED
  BY <1>3, <1>4 DEF Recorded, Appended, WriteFailed, SyncFailed, Unmarshalable

LEMMA ExitTyped ==
  ASSUME TypeInv, Exit, log' \in Seq(Events), kept' \in 0..Len(log'),
         RunsUpTo(log', runs)
  PROVE  TypeInv'
<1>1. /\ NoLaunch \in Launched /\ NoLaunch.turns = 0 /\ "" \in Texts
      /\ NoTail \in [seq : Nat, turn : Nat]
  BY DEF NoLaunch, Launched, NoTail, Texts
<1>2. << >> \in Seq(Messages) /\ << >> \in Seq(ToolCalls)
  BY EmptySeq
<1>3. effects' \in Seq(Nat) /\ runs' \in 0..MaxRuns /\ RunsUpTo(log', runs') /\ runs' = runs
  BY DEF TypeInv, TypeOK, Exit, history
<1>4. broken' \in BOOLEAN
  BY DEF Exit
<1>5. 0 \in 0..runs' /\ 1 \in 1..Len(log') + 1
  <2>1. runs' \in Nat /\ Len(log') \in Nat
    BY <1>3, LimitAssumption
  <2> QED
    BY <2>1
<1>6. /\ seq' = 0 /\ pc' = "down" /\ cfg' = NoLaunch /\ llmModel' = ""
      /\ turnsThisRun' = 0 /\ turnNumber' = 0 /\ totalTokens' = 0
      /\ toolInvocations' = 0 /\ runID' = 0 /\ rd' = 1 /\ tail' = NoTail
      /\ outcome' = "" /\ messages' = << >> /\ calls' = << >> /\ reason' = ""
  BY DEF Exit
<1>7. TypeOK'
  <2>1. (cfg \in Launched)' /\ (llmModel \in Texts)' /\ (tail \in [seq : Nat, turn : Nat])'
    BY <1>1, <1>6
  <2>2. (turnsThisRun \in 0..cfg.turns)'
    <3>1. turnsThisRun' = 0 /\ cfg'.turns = 0
      BY <1>1, <1>6
    <3> QED
      BY <3>1
  <2>3. (runs \in 0..MaxRuns /\ runID \in 0..runs)' /\ (rd \in 1..Len(log) + 1)'
    BY <1>3, <1>5, <1>6
  <2>4. (pc \in Stage)' /\ (outcome \in {"", "ok", "huge", "failed", "finished"})'
    BY <1>6 DEF Stage
  <2>5. (seq \in Nat /\ turnNumber \in Nat /\ totalTokens \in Nat)' /\ (toolInvocations \in Nat)'
    BY <1>6
  <2> QED
    BY <1>4, <2>1, <2>2, <2>3, <2>4, <2>5 DEF TypeOK
<1> QED
  BY <1>2, <1>3, <1>6, <1>7 DEF TypeInv

LEMMA FailureTyped ==
  ASSUME TypeInv, NEW kind, NEW p, NextEvent(kind, p) \in Events,
         kind = "run_start" => p.run <= runs, LeftByFailure(kind, p), Exit
  PROVE  TypeInv'
<1>1. LogTyped
  BY DEF TypeInv, TypeOK, LogTyped
<1>2. CASE UNCHANGED <<log, kept>>
  BY <1>1, <1>2, ExitTyped DEF LogTyped
<1>3. CASE log' = Append(log, NextEvent(kind, p)) /\ UNCHANGED kept
  <2>1. log' \in Seq(Events) /\ kept' \in 0..Len(log') /\ RunsUpTo(log', runs)
    BY <1>1, <1>3, NextLogTyped DEF LogTyped
  <2> QED
    BY <2>1, ExitTyped
<1> QED
  BY <1>2, <1>3 DEF LeftByFailure

LEMMA CompactTyped ==
  ASSUME NEW msgs \in Seq(Messages), NEW s \in Messages
  PROVE  Compact(msgs, s) \in Seq(Messages)
<1>1. CASE Len(msgs) <= 6
  BY <1>1 DEF Compact
<1>2. CASE Len(msgs) > 6
  <2>1. SubSeq(msgs, 1, 2) \in Seq(Messages)
    BY <1>2, SubSeqProperties
  <2>2. SubSeq(msgs, Len(msgs) - 3, Len(msgs)) \in Seq(Messages)
    BY <1>2, SubSeqProperties
  <2>3. <<s>> \in Seq(Messages)
    OBVIOUS
  <2>4. SubSeq(msgs, 1, 2) \o <<s>> \in Seq(Messages)
    BY <2>1, <2>3, ConcatProperties
  <2>5. SubSeq(msgs, 1, 2) \o <<s>> \o SubSeq(msgs, Len(msgs) - 3, Len(msgs)) \in Seq(Messages)
    BY <2>2, <2>4, ConcatProperties
  <2> QED
    BY <1>2, <2>5 DEF Compact
<1> QED
  BY <1>1, <1>2

LEMMA CompletionTyped ==
  ASSUME TypeInv, NEW r \in Responses
  PROVE  /\ Completion(r) \in Messages
         /\ Completion(r).calls \in Seq(ToolCalls)
         /\ Len(Completion(r).calls) = Len(r.calls)
         /\ \A i \in 1..Len(r.calls) : Completion(r).calls[i].id = CallId(i)
         /\ r.tokens \in Nat
<1>1. r.content \in Texts /\ r.calls \in Seq(Requested) /\ r.tokens \in Nat
  BY ResponseAssumption
<1> DEFINE made == [i \in 1..Len(r.calls) |-> [id |-> CallId(i), tool |-> r.calls[i].tool,
                                                args |-> r.calls[i].args]]
<1>2. ASSUME NEW i \in 1..Len(r.calls)
      PROVE  [id |-> CallId(i), tool |-> r.calls[i].tool, args |-> r.calls[i].args] \in ToolCalls
  <2>1. CallId(i) \in Ids
    <3>0. turnNumber \in Nat
      BY DEF TypeInv, TypeOK
    <3>1. turnNumber \in Nat /\ i \in Nat
      BY <1>1, <3>0
    <3>2. <<turnNumber, i>> \in Seq(Nat) /\ <<0, i>> \in Seq(Nat)
      BY <3>1
    <3> QED
      BY <3>2 DEF CallId, Ids
  <2>2. r.calls[i] \in Requested
    BY <1>1
  <2> QED
    BY <2>1, <2>2 DEF Requested, ToolCalls
<1>3. made \in [1..Len(r.calls) -> ToolCalls]
  BY <1>2
<1>4. made \in Seq(ToolCalls) /\ Len(made) = Len(r.calls)
  <2> HIDE DEF made
  <2>1. Len(r.calls) \in Nat
    BY <1>1
  <2>2. made \in Seq(ToolCalls)
    BY <1>3, <2>1, SeqDef
  <2> QED
    BY <1>3, <2>1, <2>2, LenProperties
<1>5. \A i \in 1..Len(r.calls) : made[i].id = CallId(i)
  OBVIOUS
<1>6. Completion(r) = Assistant(r.content, made)
  BY DEF Completion
<1> HIDE DEF made
<1>7. Completion(r).calls = made
  BY <1>6 DEF Assistant
<1>8. "tool" \in Roles /\ << >> \in Ids
  BY EmptySeq DEF Roles, Ids
<1>9. Completion(r) \in Messages
  BY <1>1, <1>4, <1>6, <1>8, MessageTypes
<1> QED
  BY <1>1, <1>4, <1>5, <1>7, <1>9
(* The records each stage writes.                                            *)
LEMMA StageEvents ==
  ASSUME TypeInv
  PROVE  /\ pc = "start" => /\ NextEvent("run_start", RunStartPayload(runID, cfg)) \in Events
                            /\ RunStartPayload(runID, cfg).run <= runs
         /\ NextEvent("turn", TurnPayload(turnNumber + 1)) \in Events
         /\ NextEvent("turn_end", TurnPayload(turnNumber)) \in Events
         /\ \A r \in Responses :
              NextEvent("llm", LLMPayload(turnNumber, r.tokens, Completion(r))) \in Events
         /\ \A level \in {"error", "warn"} : NextEvent("log", LogPayload(level)) \in Events
         /\ NextEvent("finish", FinishPayload) \in Events
         /\ \A why \in Reasons : NextEvent("run_end", RunEndPayload(why)) \in Events
<1>1. seq + 1 \in Nat /\ turnNumber \in Nat /\ turnNumber + 1 \in Nat
  <2>1. seq \in Nat /\ turnNumber \in Nat
    BY DEF TypeInv, TypeOK
  <2> QED
    BY <2>1
<1>2. ASSUME pc = "start"
      PROVE  /\ NextEvent("run_start", RunStartPayload(runID, cfg)) \in Events
             /\ RunStartPayload(runID, cfg).run <= runs
  <2>1. runID \in 0..runs /\ runID # 0 /\ runs \in 0..MaxRuns /\ cfg \in Launched
    BY <1>2 DEF TypeInv, TypeOK
  <2>2. runID \in Nat \ {0} /\ runID <= runs
    BY <2>1, LimitAssumption
  <2> QED
    BY <1>1, <2>1, <2>2, RunStartIsEvent DEF NextEvent, RunStartPayload
<1>3. \A r \in Responses :
        NextEvent("llm", LLMPayload(turnNumber, r.tokens, Completion(r))) \in Events
  BY <1>1, CompletionTyped, LLMIsEvent DEF NextEvent
<1> QED
  BY <1>1, <1>2, <1>3, TurnIsEvent, OtherIsEvent DEF NextEvent, Reasons

LEMMA ToolEventTyped ==
  ASSUME TypeInv, NEW c \in ToolCalls, NEW n \in Nat, NEW status \in Statuses,
         NEW out \in Texts, NEW err \in Texts
  PROVE  NextEvent("tool", ToolPayload(c.id, Key(c.id, n), status, out, err)) \in Events
<1>1. c.id \in Ids /\ seq + 1 \in Nat /\ runID \in Nat
  <2>1. runID \in 0..runs /\ runs \in 0..MaxRuns /\ seq \in Nat
    BY DEF TypeInv, TypeOK
  <2> QED
    BY <2>1, LimitAssumption DEF ToolCalls
<1>2. Key(c.id, n) \in Keys
  BY <1>1 DEF Key, Keys
<1> QED
  BY <1>1, <1>2, ToolIsEvent DEF NextEvent

LEMMA RecordToolTyped ==
  ASSUME TypeInv, NEW c \in ToolCalls, NEW n \in Nat, NEW status \in Statuses,
         NEW out \in Texts, NEW err \in Texts, RecordTool(c, n, status, out, err),
         runs' = runs
  PROVE  LogTyped' /\ Len(log) <= Len(log')
<1>1. LogTyped
  BY DEF TypeInv, TypeOK, LogTyped
<1> DEFINE p == ToolPayload(c.id, Key(c.id, n), status, out, err)
<1>2. NextEvent("tool", p) \in Events
  BY ToolEventTyped
<1>3. Recorded("tool", p)
  BY DEF RecordTool, AppendIgnored, Recorded
<1> QED
  BY <1>1, <1>2, <1>3, RecordedTyped

LEMMA ReplyTyped ==
  ASSUME TypeInv, calls # << >>, NEW content \in Texts, Reply(Head(calls), content)
  PROVE  /\ messages' \in Seq(Messages) /\ calls' \in Seq(ToolCalls)
         /\ Head(calls) \in ToolCalls
<1>1. calls \in Seq(ToolCalls) /\ messages \in Seq(Messages)
  BY DEF TypeInv
<1>2. Head(calls) \in ToolCalls /\ Tail(calls) \in Seq(ToolCalls)
  BY <1>1, HeadTailProperties
<1>3. ToolMessage(Head(calls).id, content) \in Messages
  BY <1>2, EmptySeq, MessageTypes DEF ToolCalls, Roles
<1> QED
  BY <1>1, <1>2, <1>3 DEF Reply

LEMMA LineStaysInLog ==
  ASSUME NEW s \in Seq(Events), NEW t \in Seq(Events), Len(s) <= Len(t),
         NEW n \in 1..Len(s) + 1
  PROVE  n \in 1..Len(t) + 1
OBVIOUS

(* What a step that goes on leaves typed follows from what it changes.       *)
LEMMA GoesOn ==
  ASSUME TypeInv, LogTyped', Len(log) <= Len(log'),
         UNCHANGED <<cfg, runID, llmModel, scanVars, runs>>,
         pc # "down", pc' \in Stage \ {"down"},
         turnsThisRun' \in 0..cfg.turns,
         turnNumber' \in Nat, totalTokens' \in Nat, toolInvocations' \in Nat,
         messages' \in Seq(Messages), calls' \in Seq(ToolCalls),
         outcome' \in {"", "ok", "huge", "failed", "finished"},
         reason' \in Reasons \cup {""}, effects' \in Seq(Nat),
         (pc \in {"reject", "invoke", "record"} => calls # << >>)',
         (pc = "invoke" => Known(Head(calls)))',
         pc' = "end" => reason' \in Reasons
  PROVE  TypeInv'
<1>1. rd' \in 1..Len(log') + 1
  <2>1. rd \in 1..Len(log) + 1 /\ rd' = rd
    BY DEF TypeInv, TypeOK, scanVars
  <2>2. log \in Seq(Events)
    BY DEF TypeInv
  <2>3. (log \in Seq(Events))'
    BY DEF LogTyped
  <2> QED
    BY <2>1, <2>2, <2>3, LineStaysInLog
<1>2. TypeOK'
  <2>1. (kept \in 0..Len(log) /\ seq \in Nat /\ broken \in BOOLEAN)'
    BY DEF LogTyped
  <2>2. (cfg \in Launched /\ llmModel \in Texts /\ tail \in [seq : Nat, turn : Nat])'
    BY DEF TypeInv, TypeOK, scanVars
  <2>3. (runs \in 0..MaxRuns /\ runID \in 0..runs)'
    BY DEF TypeInv, TypeOK
  <2> QED
    BY <1>1, <2>1, <2>2, <2>3 DEF TypeOK
<1>3. (log \in Seq(Events) /\ RunsUpTo(log, runs))'
  BY DEF LogTyped
<1>4. runID' # 0
  BY DEF TypeInv
<1> QED
  BY <1>2, <1>3, <1>4 DEF TypeInv
-----------------------------------------------------------------------------
LEMMA InitTyped == Init => TypeInv
<1> SUFFICES ASSUME Init PROVE TypeInv
  OBVIOUS
<1>1. /\ NoLaunch \in Launched /\ NoLaunch.turns = 0 /\ "" \in Texts
      /\ NoTail \in [seq : Nat, turn : Nat]
  BY DEF NoLaunch, Launched, NoTail, Texts
<1>2. /\ << >> \in Seq(Messages) /\ << >> \in Seq(ToolCalls)
      /\ << >> \in Seq(Events) /\ << >> \in Seq(Nat)
      /\ Len(<< >>) = 0
  BY EmptySeq
<1>0. log = << >> /\ kept = 0 /\ rd = 1 /\ runs = 0 /\ runID = 0
  BY DEF Init
<1>3. RunsUpTo(log, runs)
  BY <1>0, <1>2 DEF RunsUpTo
<1>4. TypeOK
  <2>1. kept \in 0..Len(log) /\ rd \in 1..Len(log) + 1
    BY <1>0, <1>2
  <2>2. cfg \in Launched /\ llmModel \in Texts /\ tail \in [seq : Nat, turn : Nat]
    BY <1>1 DEF Init
  <2>3. turnsThisRun \in 0..cfg.turns
    <3>1. turnsThisRun = 0 /\ cfg.turns = 0
      BY <1>1 DEF Init
    <3> QED
      BY <3>1
  <2>4. runs \in 0..MaxRuns /\ runID \in 0..runs
    BY <1>0, LimitAssumption
  <2>5. /\ pc \in Stage /\ broken \in BOOLEAN /\ seq \in Nat
        /\ turnNumber \in Nat /\ totalTokens \in Nat /\ toolInvocations \in Nat
        /\ outcome \in {"", "ok", "huge", "failed", "finished"}
    BY DEF Init, Stage
  <2> QED
    BY <2>1, <2>2, <2>3, <2>4, <2>5 DEF TypeOK
<1> QED
  BY <1>2, <1>3, <1>4 DEF Init, TypeInv

LEMMA LaunchTyped == ASSUME TypeInv, Launch PROVE TypeInv'
<1>1. PICK l \in Launches :
        /\ cfg' = l /\ llmModel' = l.model
        /\ IF l.resume THEN pc' = "load" /\ UNCHANGED messages
           ELSE /\ pc' = "start"
                /\ messages' = <<SystemPrompt, Message("user", l.goal)>>
  BY DEF Launch
<1>2. /\ l \in Launched /\ l.model \in Texts /\ l.goal \in Texts /\ l.turns \in Nat
  BY LaunchAssumption DEF Launched
<1>3. messages' \in Seq(Messages) /\ pc' \in {"load", "start"}
  <2>1. SystemPrompt \in Messages /\ Message("user", l.goal) \in Messages
    BY <1>2, EmptySeq, MessageTypes DEF SystemPrompt, Roles, Texts, Ids
  <2>2. <<SystemPrompt, Message("user", l.goal)>> \in Seq(Messages)
    BY <2>1
  <2> QED
    BY <1>1, <2>2 DEF TypeInv
<1>4. /\ runs \in 0..MaxRuns /\ runs < MaxRuns /\ runs' = runs + 1 /\ runID' = runs + 1
      /\ MaxRuns \in Nat
  BY LimitAssumption DEF Launch, TypeInv, TypeOK
<1>5. runs' \in 0..MaxRuns /\ runID' \in 0..runs' /\ runID' # 0
  BY <1>4
<1>6. turnsThisRun' \in 0..cfg'.turns
  <2>1. turnsThisRun' = 0 /\ cfg'.turns \in Nat
    BY <1>1, <1>2 DEF Launch, TypeInv, turnVars
  <2> QED
    BY <2>1
<1>7. RunsUpTo(log', runs')
  <2>1. log' = log /\ RunsUpTo(log, runs) /\ log \in Seq(Events)
    BY DEF Launch, TypeInv, logVars
  <2>2. ASSUME NEW i \in 1..Len(log), log[i].kind = "run_start"
        PROVE  log[i].payload.run <= runs + 1
    <3>1. log[i].payload.run <= runs /\ log[i].payload.run \in Nat
      <4>1. log[i] \in Events
        BY <2>1
      <4> QED
        BY <2>1, <2>2, <4>1, EventParts DEF RunsUpTo, RunStarts
    <3> QED
      BY <1>4, <3>1
  <2> QED
    BY <1>4, <2>1, <2>2 DEF RunsUpTo
<1>8. TypeOK'
  <2>1. (kept \in 0..Len(log) /\ rd \in 1..Len(log) + 1 /\ tail \in [seq : Nat, turn : Nat])'
    BY DEF Launch, TypeInv, TypeOK, logVars, scanVars
  <2>2. /\ (pc \in Stage /\ broken \in BOOLEAN /\ seq \in Nat)'
        /\ (turnNumber \in Nat /\ totalTokens \in Nat /\ toolInvocations \in Nat)'
        /\ (outcome \in {"", "ok", "huge", "failed", "finished"})'
    BY <1>3 DEF Launch, TypeInv, TypeOK, logVars, turnVars, Stage
  <2>3. (cfg \in Launched /\ llmModel \in Texts)'
    BY <1>1, <1>2
  <2> QED
    BY <1>5, <1>6, <2>1, <2>2, <2>3 DEF TypeOK
<1>9. /\ log' \in Seq(Events) /\ calls' \in Seq(ToolCalls) /\ reason' \in Reasons \cup {""}
      /\ effects' \in Seq(Nat)
  BY DEF Launch, TypeInv, logVars
<1> QED
  BY <1>3, <1>5, <1>7, <1>8, <1>9 DEF TypeInv

LEMMA LoadTyped == ASSUME TypeInv, Load PROVE TypeInv'
<1> DEFINE lt == LoadTranscript(Scanned(log))
<1>1. log \in Seq(Events) /\ runs \in Nat /\ RunsUpTo(log, runs)
  <2>1. runs \in 0..MaxRuns /\ MaxRuns \in Nat
    BY LimitAssumption DEF TypeInv, TypeOK
  <2>2. log \in Seq(Events) /\ RunsUpTo(log, runs)
    BY DEF TypeInv
  <2> QED
    BY <2>1, <2>2
<1>2. Scanned(log) \in Seq(Events) /\ RunsUpTo(Scanned(log), runs)
  <2>1. PICK n \in 0..Len(log) : /\ Scanned(log) \in Seq(Events)
                                 /\ Len(Scanned(log)) = n
                                 /\ \A i \in 1..n : Scanned(log)[i] = log[i]
    BY <1>1, ScannedIsPrefix
  <2> QED
    BY <1>1, <2>1 DEF RunsUpTo
<1>3. /\ lt.run \in 0..runs /\ lt.goal \in Texts /\ lt.model \in Texts
      /\ lt.messages \in Seq(Messages)
  <2>1. lt \in Transcripts(runs)
    BY <1>1, <1>2, TranscriptType
  <2> QED
    BY <2>1 DEF Transcripts
<1> DEFINE goal == IF lt.goal # "" THEN lt.goal ELSE cfg.goal
<1> HIDE DEF lt
<1>4. cfg.goal \in Texts /\ llmModel \in Texts /\ runID \in 0..runs /\ runID # 0
  BY DEF Load, TypeInv, TypeOK, Launched
<1>5. messages' \in Seq(Messages)
  <2>1. SystemPrompt \in Messages /\ Message("user", goal) \in Messages
    BY <1>3, <1>4, EmptySeq, MessageTypes DEF SystemPrompt, Roles, Texts, Ids
  <2>2. <<SystemPrompt, Message("user", goal)>> \in Seq(Messages)
    <3> HIDE DEF goal
    <3> QED
      BY <2>1
  <2>3. messages' = <<SystemPrompt, Message("user", goal)>> \o lt.messages
    BY DEF Load, Rebuilt, lt
  <2> QED
    BY <1>3, <2>2, <2>3, ConcatProperties
<1>6. llmModel' \in Texts /\ runID' \in 0..runs /\ runID' # 0
  <2>1. /\ llmModel' = IF lt.model # "" THEN lt.model ELSE llmModel
        /\ runID' = IF lt.run # 0 THEN lt.run ELSE runID
    BY DEF Load, lt
  <2> QED
    BY <1>3, <1>4, <2>1
<1>7. TypeOK'
  <2>1. /\ (kept \in 0..Len(log) /\ rd \in 1..Len(log) + 1)'
        /\ (cfg \in Launched /\ turnsThisRun \in 0..cfg.turns)'
        /\ (tail \in [seq : Nat, turn : Nat])'
    BY DEF Load, TypeInv, TypeOK, logVars, scanVars, turnVars
  <2>2. /\ (pc \in Stage /\ broken \in BOOLEAN /\ seq \in Nat)'
        /\ (turnNumber \in Nat /\ totalTokens \in Nat /\ toolInvocations \in Nat)'
        /\ (outcome \in {"", "ok", "huge", "failed", "finished"})'
        /\ (runs \in 0..MaxRuns)' /\ runs' = runs
    BY DEF Load, TypeInv, TypeOK, logVars, turnVars, Stage, history
  <2> QED
    BY <1>6, <2>1, <2>2 DEF TypeOK
<1>8. /\ log' = log /\ calls' \in Seq(ToolCalls) /\ reason' \in Reasons \cup {""}
      /\ effects' \in Seq(Nat) /\ runs' = runs /\ pc' = "scan"
  BY DEF Load, TypeInv, logVars, history
<1> QED
  BY <1>1, <1>5, <1>6, <1>7, <1>8 DEF TypeInv

LEMMA ScanLineTyped == ASSUME TypeInv, ScanLine PROVE TypeInv'
<1>1. log \in Seq(Events) /\ rd \in 1..Len(log) + 1 /\ tail.seq \in Nat /\ tail.turn \in Nat
  BY DEF TypeInv, TypeOK
<1>2. rd \in 1..Len(log)
  <2>1. PICK n \in 0..Len(log) : Len(Scanned(log)) = n
    BY <1>1, ScannedIsPrefix
  <2> QED
    BY <1>1, <2>1 DEF ScanLine
<1>3. HighSeq(log[rd]) \in Nat /\ HighTurn(log[rd]) \in Nat
  <2>1. log[rd] \in Events
    BY <1>1, <1>2
  <2>2. log[rd].seq \in Nat
    BY <2>1, EventParts
  <2>3. HighSeq(log[rd]) \in Nat
    BY <1>1, <2>2 DEF HighSeq
  <2>4. log[rd].kind \in {"turn", "turn_end", "llm"} => log[rd].payload.turn \in Nat
    BY <2>1, EventParts DEF Turns, LLMs
  <2> QED
    BY <1>1, <2>3, <2>4 DEF HighTurn
<1>4. tail' \in [seq : Nat, turn : Nat] /\ rd' \in 1..Len(log) + 1
  BY <1>1, <1>2, <1>3 DEF ScanLine
<1>5. UNCHANGED <<logVars, pc, turnVars, convVars, idVars, reason, history>>
  BY DEF ScanLine
<1> QED
  BY <1>4, <1>5 DEF TypeInv, TypeOK, logVars, turnVars, convVars, idVars, history

LEMMA ScanDoneTyped == ASSUME TypeInv, ScanDone PROVE TypeInv'
<1>1. tail.seq \in Nat /\ tail.turn \in Nat
  BY DEF TypeInv, TypeOK
<1>2. /\ seq' = tail.seq /\ turnNumber' = tail.turn /\ pc = "scan" /\ pc' = "start"
      /\ UNCHANGED <<log, kept, broken, turnsThisRun, totalTokens, toolInvocations,
                     convVars, idVars, scanVars, reason, history>>
  BY DEF ScanDone
<1>3. TypeOK'
  BY <1>1, <1>2 DEF TypeInv, TypeOK, Stage, convVars, idVars, scanVars, history
<1> QED
  BY <1>2, <1>3 DEF TypeInv, convVars, idVars, history
(* The facts every step of a living process starts from.                     *)
LEMMA Before ==
  ASSUME TypeInv
  PROVE  /\ LogTyped
         /\ turnsThisRun \in 0..cfg.turns /\ cfg.turns \in Nat /\ turnsThisRun \in Nat
         /\ turnNumber \in Nat /\ totalTokens \in Nat /\ toolInvocations \in Nat
         /\ turnNumber + 1 \in Nat /\ toolInvocations + 1 \in Nat
         /\ messages \in Seq(Messages) /\ calls \in Seq(ToolCalls)
         /\ outcome \in {"", "ok", "huge", "failed", "finished"}
         /\ reason \in Reasons \cup {""} /\ effects \in Seq(Nat)
         /\ Len(log) \in Nat /\ Len(log) <= Len(log)
<1>1. /\ LogTyped
      /\ turnsThisRun \in 0..cfg.turns /\ cfg.turns \in Nat
      /\ turnNumber \in Nat /\ totalTokens \in Nat /\ toolInvocations \in Nat
      /\ messages \in Seq(Messages) /\ calls \in Seq(ToolCalls)
      /\ outcome \in {"", "ok", "huge", "failed", "finished"}
      /\ reason \in Reasons \cup {""} /\ effects \in Seq(Nat)
  BY DEF TypeInv, TypeOK, LogTyped, Launched
<1>2. Len(log) \in Nat /\ Len(log) <= Len(log)
  <2>1. log \in Seq(Events)
    BY DEF TypeInv
  <2> QED
    BY <2>1
<1>3. turnsThisRun \in Nat
  <2>1. turnsThisRun \in 0..cfg.turns /\ cfg.turns \in Nat
    BY <1>1
  <2> QED
    BY <2>1
<1>4. turnNumber + 1 \in Nat /\ toolInvocations + 1 \in Nat
  <2>1. turnNumber \in Nat /\ toolInvocations \in Nat
    BY <1>1
  <2> QED
    BY <2>1
<1> QED
  BY <1>1, <1>2, <1>3, <1>4

LEMMA StillTyped ==
  ASSUME TypeInv, UNCHANGED <<logVars, runs>>
  PROVE  LogTyped' /\ Len(log) <= Len(log')
BY Before DEF LogTyped, logVars

LEMMA StopTyped == ASSUME TypeInv, NEW why \in Reasons, Stop(why) PROVE TypeInv'
<1>1. /\ pc = "top" /\ pc' = "end" /\ reason' = why
      /\ UNCHANGED <<logVars, turnVars, convVars, idVars, scanVars, history>>
  BY DEF Stop
<1>2. LogTyped' /\ Len(log) <= Len(log')
  BY <1>1, StillTyped DEF history
<1> QED
  BY <1>1, <1>2, Before, GoesOn DEF turnVars, convVars, idVars, history, Stage

LEMMA RunStartTyped == ASSUME TypeInv, RunStart PROVE TypeInv'
<1> DEFINE p == RunStartPayload(runID, cfg)
<1>1. NextEvent("run_start", p) \in Events /\ p.run <= runs /\ pc = "start"
  BY StageEvents DEF RunStart
<1>2. CASE /\ Appended("run_start", p) /\ pc' = "top"
           /\ UNCHANGED <<turnVars, convVars, idVars, scanVars, reason, history>>
  <2>1. LogTyped' /\ Len(log) <= Len(log')
    BY <1>1, <1>2, Before, RecordedTyped DEF Recorded, history
  <2> QED
    BY <1>1, <1>2, <2>1, Before, GoesOn DEF turnVars, convVars, idVars, history, Stage
<1>3. CASE AppendError("run_start", p)
  BY <1>1, <1>3, FailureTyped DEF AppendError
<1> QED
  BY <1>2, <1>3 DEF RunStart

LEMMA BeginTurnTyped == ASSUME TypeInv, BeginTurn PROVE TypeInv'
<1> DEFINE p == TurnPayload(turnNumber + 1)
<1>1. NextEvent("turn", p) \in Events /\ pc = "top" /\ turnsThisRun < cfg.turns
  BY StageEvents DEF BeginTurn, MoreTurns
<1>2. CASE /\ Appended("turn", p)
           /\ turnsThisRun' = turnsThisRun + 1 /\ turnNumber' = turnNumber + 1
           /\ messages' \in IF ShouldCompact(messages)
                              THEN {Compact(messages, s) : s \in Summaries}
                              ELSE {messages}
           /\ pc' = "call"
           /\ UNCHANGED <<totalTokens, toolInvocations, calls, outcome, idVars,
                          scanVars, reason, history>>
  <2>1. LogTyped' /\ Len(log) <= Len(log')
    BY <1>1, <1>2, Before, RecordedTyped DEF Recorded, history
  <2>2. turnsThisRun' \in 0..cfg.turns
    <3>1. turnsThisRun \in Nat /\ cfg.turns \in Nat
      BY Before
    <3> QED
      BY <1>1, <1>2, <3>1
  <2>3. messages' \in Seq(Messages)
    <3>1. WindowSummary \in Messages /\ ModelSummary \in Messages
      BY EmptySeq, MessageTypes DEF WindowSummary, ModelSummary, Roles, Texts, Ids
    <3>2. \A s \in Summaries : s \in Messages
      BY <3>1 DEF Summaries
    <3>3. \A s \in Summaries : Compact(messages, s) \in Seq(Messages)
      BY <3>2, Before, CompactTyped
    <3> QED
      BY <1>2, <3>3, Before
  <2> QED
    BY <1>1, <1>2, <2>1, <2>2, <2>3, Before, GoesOn DEF idVars, history, Stage
<1>3. CASE AppendError("turn", p)
  BY <1>1, <1>3, FailureTyped DEF AppendError
<1> QED
  BY <1>2, <1>3 DEF BeginTurn

LEMMA CallLLMTyped == ASSUME TypeInv, CallLLM PROVE TypeInv'
<1>1. PICK r \in Responses :
        LET p == LLMPayload(turnNumber, r.tokens, Completion(r)) IN
          \/ /\ Appended("llm", p)
             /\ messages' = Append(messages, Completion(r))
             /\ totalTokens' = totalTokens + r.tokens
             /\ calls' = Completion(r).calls
             /\ pc' = IF r.calls = <<>> THEN "answer" ELSE "dispatch"
             /\ UNCHANGED <<turnsThisRun, turnNumber, toolInvocations, outcome,
                            idVars, scanVars, reason, history>>
          \/ AppendError("llm", p)
  BY DEF CallLLM
<1> DEFINE p == LLMPayload(turnNumber, r.tokens, Completion(r))
<1>2. NextEvent("llm", p) \in Events /\ pc = "call"
  BY StageEvents DEF CallLLM
<1>3. CASE /\ Appended("llm", p)
           /\ messages' = Append(messages, Completion(r))
           /\ totalTokens' = totalTokens + r.tokens
           /\ calls' = Completion(r).calls
           /\ pc' = IF r.calls = <<>> THEN "answer" ELSE "dispatch"
           /\ UNCHANGED <<turnsThisRun, turnNumber, toolInvocations, outcome,
                          idVars, scanVars, reason, history>>
  <2>1. LogTyped' /\ Len(log) <= Len(log')
    BY <1>2, <1>3, Before, RecordedTyped DEF Recorded, history
  <2>2. Completion(r) \in Messages /\ calls' \in Seq(ToolCalls) /\ r.tokens \in Nat
    BY <1>3, CompletionTyped
  <2>3. messages' \in Seq(Messages) /\ totalTokens' \in Nat
    <3>1. messages \in Seq(Messages) /\ totalTokens \in Nat
      BY Before
    <3> QED
      BY <1>3, <2>2, <3>1
  <2>4. pc' \in {"answer", "dispatch"}
    BY <1>3
  <2> QED
    BY <1>2, <1>3, <2>1, <2>2, <2>3, <2>4, Before, GoesOn DEF idVars, history, Stage
<1>4. CASE AppendError("llm", p)
  BY <1>2, <1>4, FailureTyped DEF AppendError
<1> QED
  BY <1>1, <1>3, <1>4

LEMMA LLMFailTyped == ASSUME TypeInv, LLMFail PROVE TypeInv'
<1>1. NextEvent("log", LogPayload("error")) \in Events
  BY StageEvents
<1>2. /\ pc = "call" /\ AppendIgnored("log", LogPayload("error"))
      /\ reason' = "llm_error" /\ pc' = "end"
      /\ UNCHANGED <<turnVars, convVars, idVars, scanVars, history>>
  BY DEF LLMFail
<1>3. LogTyped' /\ Len(log) <= Len(log')
  BY <1>1, <1>2, Before, RecordedTyped DEF AppendIgnored, Recorded, history
<1> QED
  BY <1>2, <1>3, Before, GoesOn DEF turnVars, convVars, idVars, history, Stage, Reasons

(* Answer and Finish end a run by the same record.                           *)
LEMMA FinishedTyped ==
  ASSUME TypeInv, pc \in {"answer", "record"}, NEW why \in Reasons,
         \/ /\ Appended("finish", FinishPayload) /\ reason' = why /\ pc' = "end"
            /\ UNCHANGED <<turnVars, convVars, idVars, scanVars, history>>
         \/ AppendError("finish", FinishPayload)
  PROVE  TypeInv'
<1>1. NextEvent("finish", FinishPayload) \in Events
  BY StageEvents
<1>2. CASE /\ Appended("finish", FinishPayload) /\ reason' = why /\ pc' = "end"
           /\ UNCHANGED <<turnVars, convVars, idVars, scanVars, history>>
  <2>1. LogTyped' /\ Len(log) <= Len(log')
    BY <1>1, <1>2, Before, RecordedTyped DEF Recorded, history
  <2> QED
    BY <1>2, <2>1, Before, GoesOn DEF turnVars, convVars, idVars, history, Stage
<1>3. CASE AppendError("finish", FinishPayload)
  BY <1>1, <1>3, FailureTyped DEF AppendError
<1> QED
  BY <1>2, <1>3

LEMMA AnswerTyped == ASSUME TypeInv, Answer PROVE TypeInv'
<1>1. CASE Exit /\ UNCHANGED <<log, kept>>
  BY <1>1, Before, ExitTyped DEF LogTyped
<1>2. CASE ~(Exit /\ UNCHANGED <<log, kept>>)
  BY <1>2, FinishedTyped DEF Answer, Reasons
<1> QED
  BY <1>1, <1>2

LEMMA FinishTyped == ASSUME TypeInv, Finish PROVE TypeInv'
BY FinishedTyped DEF Finish, Reasons

LEMMA DispatchUnknownTyped == ASSUME TypeInv, DispatchUnknown PROVE TypeInv'
<1> DEFINE c == Head(calls)
<1>1. /\ pc = "dispatch" /\ calls # << >> /\ pc' = pc
      /\ RecordTool(c, toolInvocations + 1, "error", "", "unknown tool")
      /\ Reply(c, "unknown tool")
      /\ toolInvocations' = toolInvocations + 1
      /\ UNCHANGED <<turnsThisRun, turnNumber, totalTokens, outcome, idVars,
                     scanVars, reason, history>>
  BY DEF DispatchUnknown
<1>2. "error" \in Statuses /\ "" \in Texts /\ "unknown tool" \in Texts
  BY DEF Statuses, Texts
<1>3. messages' \in Seq(Messages) /\ calls' \in Seq(ToolCalls) /\ c \in ToolCalls
  BY <1>1, <1>2, ReplyTyped
<1>4. LogTyped' /\ Len(log) <= Len(log')
  <2> HIDE DEF c
  <2> QED
    BY <1>1, <1>2, <1>3, Before, RecordToolTyped DEF history
<1> QED
  BY <1>1, <1>3, <1>4, Before, GoesOn DEF idVars, history, Stage

LEMMA DispatchInvalidTyped == ASSUME TypeInv, DispatchInvalid PROVE TypeInv'
<1>1. NextEvent("log", LogPayload("warn")) \in Events
  BY StageEvents
<1>2. /\ pc = "dispatch" /\ calls # << >> /\ pc' = "reject"
      /\ toolInvocations' = toolInvocations + 1
      /\ AppendIgnored("log", LogPayload("warn"))
      /\ UNCHANGED <<turnsThisRun, turnNumber, totalTokens, convVars, idVars,
                     scanVars, reason, history>>
  BY DEF DispatchInvalid
<1>3. LogTyped' /\ Len(log) <= Len(log')
  BY <1>1, <1>2, Before, RecordedTyped DEF AppendIgnored, Recorded, history
<1> QED
  BY <1>2, <1>3, Before, GoesOn DEF convVars, idVars, history, Stage

LEMMA RecordInvalidTyped == ASSUME TypeInv, RecordInvalid PROVE TypeInv'
<1> DEFINE c == Head(calls)
<1>1. /\ pc = "reject" /\ pc' = "dispatch" /\ calls # << >>
      /\ RecordTool(c, toolInvocations, "invalid", "", "invalid arguments")
      /\ Reply(c, "invalid arguments")
      /\ UNCHANGED <<turnVars, outcome, idVars, scanVars, reason, history>>
  BY DEF RecordInvalid, TypeInv
<1>2. "invalid" \in Statuses /\ "" \in Texts /\ "invalid arguments" \in Texts
  BY DEF Statuses, Texts
<1>3. messages' \in Seq(Messages) /\ calls' \in Seq(ToolCalls) /\ c \in ToolCalls
  BY <1>1, <1>2, ReplyTyped
<1>4. LogTyped' /\ Len(log) <= Len(log')
  <2> HIDE DEF c
  <2> QED
    BY <1>1, <1>2, <1>3, Before, RecordToolTyped DEF history
<1> QED
  BY <1>1, <1>3, <1>4, Before, GoesOn DEF turnVars, idVars, history, Stage

LEMMA IntentTyped == ASSUME TypeInv, Intent PROVE TypeInv'
<1> DEFINE c == Head(calls)
           p == ToolPayload(c.id, Key(c.id, toolInvocations), "intent", "", "")
<1>1. "intent" \in Statuses /\ "" \in Texts
  BY DEF Statuses, Texts
<1>2. /\ pc = "dispatch" /\ calls # << >> /\ Known(c)
  BY DEF Intent
<1>3. NextEvent("tool", p) \in Events
  <2>1. c \in ToolCalls
    BY <1>2, Before, HeadTailProperties
  <2> HIDE DEF c
  <2> QED
    BY <1>1, <2>1, Before, ToolEventTyped
<1>4. CASE /\ Appended("tool", p) /\ pc' = "invoke"
           /\ UNCHANGED <<turnVars, convVars, idVars, scanVars, reason, history>>
  <2>1. LogTyped' /\ Len(log) <= Len(log')
    BY <1>3, <1>4, Before, RecordedTyped DEF Recorded, history
  <2>2. (pc = "invoke" => Known(Head(calls)))'
    BY <1>2, <1>4 DEF convVars, Known
  <2> QED
    BY <1>2, <1>4, <2>1, <2>2, Before, GoesOn DEF turnVars, convVars, idVars, history, Stage
<1>5. CASE AppendError("tool", p)
  BY <1>3, <1>5, FailureTyped DEF AppendError
<1> QED
  BY <1>4, <1>5 DEF Intent

LEMMA InvokeTyped == ASSUME TypeInv, Invoke PROVE TypeInv'
<1>1. /\ pc = "invoke" /\ pc' = "record" /\ outcome' \in Outcomes(Head(calls).tool)
      /\ toolInvocations' = toolInvocations + 1
      /\ effects' = Append(effects, Len(log))
      /\ UNCHANGED <<logVars, turnsThisRun, turnNumber, totalTokens, messages,
                     calls, idVars, scanVars, reason, runs>>
  BY DEF Invoke
<1>2. LogTyped' /\ Len(log) <= Len(log')
  BY <1>1, StillTyped
<1>3. Known(Head(calls)) /\ calls # << >>
  BY <1>1 DEF TypeInv
<1>4. outcome' \in {"", "ok", "huge", "failed", "finished"}
  BY <1>1, <1>3 DEF Known, Builtin, Outcomes
<1>5. effects' \in Seq(Nat)
  <2>1. effects \in Seq(Nat) /\ Len(log) \in Nat
    BY Before
  <2> QED
    BY <1>1, <2>1
<1> QED
  BY <1>1, <1>2, <1>3, <1>4, <1>5, Before, GoesOn DEF idVars, Stage

LEMMA ResultTyped == ASSUME TypeInv, Result PROVE TypeInv'
<1> DEFINE c == Head(calls)
<1>1. /\ pc = "record" /\ outcome # "finished" /\ pc' = "dispatch" /\ calls # << >>
      /\ RecordTool(c, toolInvocations, Status(outcome), outcome, "")
      /\ Reply(c, outcome) /\ outcome' = ""
      /\ UNCHANGED <<turnVars, idVars, scanVars, reason, history>>
  BY DEF Result, TypeInv
<1>2. Status(outcome) \in Statuses /\ "" \in Texts /\ outcome \in Texts
  BY <1>1, Before DEF Statuses, Texts, Status
<1>3. messages' \in Seq(Messages) /\ calls' \in Seq(ToolCalls) /\ c \in ToolCalls
  BY <1>1, <1>2, ReplyTyped
<1>4. LogTyped' /\ Len(log) <= Len(log')
  <2> HIDE DEF c
  <2> QED
    BY <1>1, <1>2, <1>3, Before, RecordToolTyped DEF history
<1> QED
  BY <1>1, <1>3, <1>4, Before, GoesOn DEF turnVars, idVars, history, Stage

LEMMA TurnEndTyped == ASSUME TypeInv, TurnEnd PROVE TypeInv'
<1> DEFINE p == TurnPayload(turnNumber)
<1>1. NextEvent("turn_end", p) \in Events /\ pc = "dispatch"
  BY StageEvents DEF TurnEnd
<1>2. CASE /\ Appended("turn_end", p) /\ pc' = "top"
           /\ UNCHANGED <<turnVars, convVars, idVars, scanVars, reason, history>>
  <2>1. LogTyped' /\ Len(log) <= Len(log')
    BY <1>1, <1>2, Before, RecordedTyped DEF Recorded, history
  <2> QED
    BY <1>1, <1>2, <2>1, Before, GoesOn DEF turnVars, convVars, idVars, history, Stage
<1>3. CASE AppendError("turn_end", p)
  BY <1>1, <1>3, FailureTyped DEF AppendError
<1> QED
  BY <1>2, <1>3 DEF TurnEnd

LEMMA EndTyped == ASSUME TypeInv, End PROVE TypeInv'
<1> DEFINE p == RunEndPayload(reason)
<1>1. NextEvent("run_end", p) \in Events /\ Exit
  BY StageEvents DEF End, TypeInv
<1>2. CASE log' = Append(log, NextEvent("run_end", p)) /\ kept' = Len(log')
  <2>1. log' \in Seq(Events) /\ kept' \in 0..Len(log') /\ RunsUpTo(log', runs)
    <3>1. LogTyped /\ "run_end" # "run_start" /\ runs' = runs
      BY <1>1, Before DEF Exit, history
    <3>2. /\ log' \in Seq(Events) /\ Len(log') = Len(log) + 1
          /\ RunsUpTo(log', runs) /\ Len(log) \in Nat
      BY <1>1, <1>2, <3>1, Before, NextLogTyped
    <3> QED
      BY <1>2, <3>2
  <2> QED
    BY <1>1, <2>1, ExitTyped
<1>3. CASE LeftByFailure("run_end", p)
  BY <1>1, <1>3, FailureTyped
<1> QED
  BY <1>2, <1>3 DEF End

LEMMA CrashTyped == ASSUME TypeInv, Crash PROVE TypeInv'
<1>1. PICK n \in kept..Len(log) : log' = SubSeq(log, 1, n)
  BY DEF Crash
<1>2. log \in Seq(Events) /\ kept \in 0..Len(log) /\ RunsUpTo(log, runs)
  BY Before DEF LogTyped
<1>3. /\ log' \in Seq(Events) /\ Len(log') = n
      /\ \A i \in 1..n : log'[i] = log[i] /\ i \in 1..Len(log)
  BY <1>1, <1>2
<1>4. kept' \in 0..Len(log') /\ Exit
  BY <1>1, <1>2, <1>3 DEF Crash
<1>5. RunsUpTo(log', runs)
  BY <1>2, <1>3 DEF RunsUpTo
<1> QED
  BY <1>3, <1>4, <1>5, ExitTyped

LEMMA StepTyped == ASSUME TypeInv, [Next]_vars PROVE TypeInv'
<1>1. CASE BootstrapFail
  BY <1>1, Before, ExitTyped DEF BootstrapFail, LogTyped
<1>2. CASE StopTurns \/ StopWallClock \/ StopTokens \/ StopTools
  BY <1>2, StopTyped DEF StopTurns, StopWallClock, StopTokens, StopTools, Reasons
<1>3. CASE UNCHANGED vars
  BY <1>3 DEF vars, logVars, turnVars, convVars, idVars, scanVars, history, TypeInv, TypeOK
<1> QED
  BY <1>1, <1>2, <1>3, LaunchTyped, LoadTyped, ScanLineTyped, ScanDoneTyped, RunStartTyped,
     BeginTurnTyped, CallLLMTyped, LLMFailTyped, AnswerTyped, DispatchUnknownTyped,
     DispatchInvalidTyped, RecordInvalidTyped, IntentTyped, InvokeTyped, ResultTyped,
     FinishTyped, TurnEndTyped, EndTyped, CrashTyped DEF Next

(* What is known of a process at each stage, and of the log between them,    *)
(* holds throughout: every action preserves it by itself.                    *)
THEOREM AgentInv == Spec => []TypeInv
BY InitTyped, StepTyped, PTL DEF Spec

(* Type correctness: what is read back from a log, cut off wherever it may   *)
(* be, is as well typed as what was written to it, and no process ever takes *)
(* more turns than its configuration allows.                                 *)
THEOREM AgentTyped == Spec => []TypeOK
<1>1. TypeInv => TypeOK
  BY DEF TypeInv
<1> QED
  BY <1>1, AgentInv, PTL

-----------------------------------------------------------------------------
(* What may be appended, at which stage.                                     *)
Written(kind, p) ==
  \/ kind = "run_start" /\ pc = "start" /\ p = RunStartPayload(runID, cfg)
  \/ kind = "turn" /\ pc = "top" /\ p = TurnPayload(turnNumber + 1)
  \/ kind = "turn_end" /\ pc = "dispatch" /\ calls = <<>> /\ p = TurnPayload(turnNumber)
  \/ kind = "llm" /\ pc = "call" /\ \E r \in Responses :
                                      p = LLMPayload(turnNumber, r.tokens, Completion(r))
  \/ /\ kind = "tool" /\ pc \in {"dispatch", "reject", "record"} /\ calls # <<>>
     /\ p.id = Head(calls).id
     /\ p.status = "intent" => /\ pc = "dispatch" /\ pc' \in {"invoke", "down"}
                               /\ p.key = Key(Head(calls).id, toolInvocations)
  \/ kind = "finish" /\ pc \in {"answer", "record"}
  \/ kind = "log" /\ pc \in {"call", "dispatch"}
  \/ kind = "run_end" /\ pc = "end" /\ p = RunEndPayload(reason) /\ pc' = "down"

Adds(kind, p) == /\ Written(kind, p)
                 /\ log' = Append(log, NextEvent(kind, p))
                 /\ kept' \in {kept, Len(log')}

LogUnchanged == UNCHANGED <<log, kept>>

LEMMA RecordedAdds ==
  ASSUME NEW kind, NEW p, Written(kind, p), Recorded(kind, p) \/ LeftByFailure(kind, p)
  PROVE  LogUnchanged \/ Adds(kind, p)
BY DEF Recorded, Appended, WriteFailed, SyncFailed, Unmarshalable, LeftByFailure,
       LogUnchanged, Adds

LEMMA RecordToolAdds ==
  ASSUME NEW c \in ToolCalls, NEW n \in Nat, NEW status \in Statuses,
         NEW out \in Texts, NEW err \in Texts,
         pc \in {"dispatch", "reject", "record"}, calls # << >>, c = Head(calls),
         status # "intent", RecordTool(c, n, status, out, err)
  PROVE  LogUnchanged \/ \E kind, p : Adds(kind, p)
<1> DEFINE p == ToolPayload(c.id, Key(c.id, n), status, out, err)
<1>1. Recorded("tool", p)
  BY DEF RecordTool, AppendIgnored, Recorded
<1>2. Written("tool", p)
  BY DEF Written, ToolPayload
<1> HIDE DEF p
<1> QED
  BY <1>1, <1>2, RecordedAdds

(* Every step leaves the log alone, adds one record to it, or is a crash.    *)
LEMMA LogStep ==
  ASSUME TypeInv, [Next]_vars
  PROVE  LogUnchanged \/ Crash \/ \E kind, p : Adds(kind, p)
<1>1. CASE RunStart
  BY <1>1, RecordedAdds DEF RunStart, AppendError, Recorded, Written
<1>2. CASE BeginTurn
  BY <1>2, RecordedAdds DEF BeginTurn, AppendError, Recorded, Written
<1>3. CASE CallLLM
  <2>1. PICK r \in Responses :
           \/ Appended("llm", LLMPayload(turnNumber, r.tokens, Completion(r)))
           \/ AppendError("llm", LLMPayload(turnNumber, r.tokens, Completion(r)))
    BY <1>3 DEF CallLLM
  <2>2. Written("llm", LLMPayload(turnNumber, r.tokens, Completion(r)))
    BY <1>3 DEF CallLLM, Written
  <2> QED
    BY <2>1, <2>2, RecordedAdds DEF AppendError, Recorded
<1>4. CASE LLMFail
  BY <1>4, RecordedAdds DEF LLMFail, AppendIgnored, Recorded, Written
<1>5. CASE Answer
  <2>1. LogUnchanged \/ Appended("finish", FinishPayload) \/ AppendError("finish", FinishPayload)
    BY <1>5 DEF Answer, LogUnchanged
  <2>2. Written("finish", FinishPayload)
    BY <1>5 DEF Answer, Written
  <2> QED
    BY <2>1, <2>2, RecordedAdds DEF AppendError, Recorded
<1>6. CASE DispatchUnknown
  <2> DEFINE c == Head(calls)
  <2>1. /\ pc \in {"dispatch", "reject", "record"} /\ calls # << >> /\ c = Head(calls) /\ "error" # "intent"
        /\ RecordTool(c, toolInvocations + 1, "error", "", "unknown tool")
    BY <1>6 DEF DispatchUnknown
  <2>3. /\ c \in ToolCalls /\ toolInvocations \in Nat /\ toolInvocations + 1 \in Nat
    BY <2>1, Before, HeadTailProperties
  <2>4. /\ {"error", "invalid"} \subseteq Statuses
        /\ {"", "unknown tool", "invalid arguments"} \subseteq Texts
    BY DEF Statuses, Texts
  <2> HIDE DEF c
  <2>2. LogUnchanged \/ \E kind, p : Adds(kind, p)
    BY <2>1, <2>3, <2>4, RecordToolAdds
  <2> QED
    BY <2>2
<1>7. CASE DispatchInvalid
  BY <1>7, RecordedAdds DEF DispatchInvalid, AppendIgnored, Recorded, Written
<1>8. CASE RecordInvalid
  <2> DEFINE c == Head(calls)
  <2>1. /\ pc \in {"dispatch", "reject", "record"} /\ calls # << >> /\ c = Head(calls) /\ "invalid" # "intent"
        /\ RecordTool(c, toolInvocations, "invalid", "", "invalid arguments")
    BY <1>8 DEF RecordInvalid, TypeInv
  <2>3. /\ c \in ToolCalls /\ toolInvocations \in Nat /\ toolInvocations + 1 \in Nat
    BY <2>1, Before, HeadTailProperties
  <2>4. /\ {"error", "invalid"} \subseteq Statuses
        /\ {"", "unknown tool", "invalid arguments"} \subseteq Texts
    BY DEF Statuses, Texts
  <2> HIDE DEF c
  <2>2. LogUnchanged \/ \E kind, p : Adds(kind, p)
    BY <2>1, <2>3, <2>4, RecordToolAdds
  <2> QED
    BY <2>2
<1>9. CASE Intent
  <2> DEFINE c == Head(calls)
             p == ToolPayload(c.id, Key(c.id, toolInvocations), "intent", "", "")
  <2>1. Appended("tool", p) \/ AppendError("tool", p)
    BY <1>9 DEF Intent
  <2>2. Written("tool", p)
    BY <1>9 DEF Intent, AppendError, Exit, Written, ToolPayload
  <2> HIDE DEF p
  <2> QED
    BY <2>1, <2>2, RecordedAdds DEF AppendError, Recorded
<1>10. CASE Result
  <2> DEFINE c == Head(calls)
  <2>1. Status(outcome) # "intent"
    BY DEF Status
  <2>2. /\ pc \in {"dispatch", "reject", "record"} /\ calls # << >> /\ c = Head(calls)
        /\ RecordTool(c, toolInvocations, Status(outcome), outcome, "")
    BY <1>10 DEF Result, TypeInv
  <2>3. c \in ToolCalls /\ toolInvocations \in Nat
    BY <2>2, Before, HeadTailProperties
  <2>4. Status(outcome) \in Statuses /\ outcome \in Texts /\ "" \in Texts
    BY <1>10, Before DEF Result, Status, Statuses, Texts
  <2> HIDE DEF c
  <2> QED
    BY <2>1, <2>2, <2>3, <2>4, RecordToolAdds
<1>11. CASE Finish
  <2>1. Written("finish", FinishPayload)
    BY <1>11 DEF Finish, Written
  <2> QED
    BY <1>11, <2>1, RecordedAdds DEF Finish, AppendError, Recorded
<1>12. CASE TurnEnd
  <2>1. Written("turn_end", TurnPayload(turnNumber))
    BY <1>12 DEF TurnEnd, Written
  <2> QED
    BY <1>12, <2>1, RecordedAdds DEF TurnEnd, AppendError, Recorded
<1>13. CASE End
  <2>1. Written("run_end", RunEndPayload(reason))
    BY <1>13 DEF End, Exit, Written
  <2> QED
    BY <1>13, <2>1, RecordedAdds DEF End, LogUnchanged, Adds
<1>14. Launch \/ Load \/ ScanLine \/ ScanDone \/ BootstrapFail \/ StopTurns \/ StopWallClock
         \/ StopTokens \/ StopTools \/ Invoke \/ UNCHANGED vars => LogUnchanged
  BY DEF Launch, Load, ScanLine, ScanDone, BootstrapFail, StopTurns, StopWallClock,
         StopTokens, StopTools, Stop, Invoke, vars, logVars, LogUnchanged
<1> QED
  BY <1>1, <1>2, <1>3, <1>4, <1>5, <1>6, <1>7, <1>8, <1>9, <1>10, <1>11, <1>12,
     <1>13, <1>14 DEF Next

(* The log after a step that adds a record, and after a crash.               *)
LEMMA AddedLog ==
  ASSUME TypeInv, TypeInv', NEW kind, NEW p, Adds(kind, p)
  PROVE  /\ Len(log') = Len(log) + 1 /\ Len(log) \in Nat
         /\ log' \in Seq(Events)
         /\ \A i \in 1..Len(log) : log'[i] = log[i]
         /\ log'[Len(log')] = NextEvent(kind, p)
         /\ NextEvent(kind, p) \in Events
<1>1. log \in Seq(Events) /\ log' \in Seq(Events) /\ log' = Append(log, NextEvent(kind, p))
  BY DEF TypeInv, Adds
<1> DEFINE e == NextEvent(kind, p)
<1> HIDE DEF e
<1>2. log' = Append(log, e)
  BY <1>1 DEF e
<1>3. /\ Len(log') = Len(log) + 1 /\ Len(log) \in Nat
      /\ \A i \in 1..Len(log) : log'[i] = log[i]
      /\ log'[Len(log')] = e
  BY <1>1, <1>2, AppendProperties
<1>4. log'[Len(log')] \in Events
  BY <1>1, <1>3
<1> QED
  BY <1>1, <1>3, <1>4 DEF e

LEMMA CutLog ==
  ASSUME TypeInv, Crash
  PROVE  /\ pc' = "down" /\ rd' = 1
         /\ kept' = kept
         /\ log' \in Seq(Events)
         /\ \E n \in kept..Len(log) : log' = SubSeq(log, 1, n) /\ Len(log') = n
         /\ Len(log') \in Nat /\ Len(log) \in Nat /\ Len(log') <= Len(log)
         /\ \A i \in 1..Len(log') : i \in 1..Len(log) /\ log'[i] = log[i]
<1>1. log \in Seq(Events) /\ kept \in 0..Len(log)
  BY DEF TypeInv, TypeOK
<1>2. PICK n \in kept..Len(log) : log' = SubSeq(log, 1, n)
  BY DEF Crash
<1>3. /\ log' \in Seq(Events) /\ Len(log') = n /\ n \in Nat /\ Len(log) \in Nat /\ n <= Len(log)
      /\ \A i \in 1..n : i \in 1..Len(log) /\ log'[i] = log[i]
  BY <1>1, <1>2
<1>4. pc' = "down" /\ rd' = 1 /\ kept' = kept
  BY DEF Crash, Exit
<1> QED
  BY <1>2, <1>3, <1>4

(* A process that has read the log, or found there was none.                 *)
Living == pc \notin {"down", "load", "scan"}

LEMMA ProcessStep ==
  ASSUME TypeInv, [Next]_vars
  PROVE  \/ Launch \/ Load \/ ScanLine \/ ScanDone \/ UNCHANGED vars
         \/ pc' = "down" /\ rd' = 1
         \/ /\ Living /\ Living' /\ UNCHANGED scanVars
            /\ seq' \in {seq, seq + 1} /\ (log' # log => seq' = seq + 1)
            /\ turnNumber' \in {turnNumber, turnNumber + 1}
            /\ pc = "top" /\ log' # log => turnNumber' = turnNumber + 1
<1>1. CASE RunStart
  BY <1>1 DEF RunStart, AppendError, Exit, Appended, Living, turnVars
<1>2. CASE BeginTurn
  BY <1>2 DEF BeginTurn, AppendError, Exit, Appended, Living
<1>3. CASE CallLLM
  BY <1>3 DEF CallLLM, AppendError, Exit, Appended, Living
<1>4. CASE LLMFail
  BY <1>4 DEF LLMFail, AppendIgnored, Appended, WriteFailed, SyncFailed, Living, turnVars
<1>5. CASE Answer
  BY <1>5 DEF Answer, AppendError, Exit, Appended, Living, turnVars
<1>6. CASE DispatchUnknown \/ RecordInvalid \/ Result
  BY <1>6 DEF DispatchUnknown, RecordInvalid, Result, RecordTool, AppendIgnored, Appended,
              WriteFailed, SyncFailed, Unmarshalable, Living, turnVars
<1>7. CASE DispatchInvalid
  BY <1>7 DEF DispatchInvalid, AppendIgnored, Appended, WriteFailed, SyncFailed, Living
<1>8. CASE Intent
  BY <1>8 DEF Intent, AppendError, Exit, Appended, Living, turnVars
<1>9. CASE Finish
  BY <1>9 DEF Finish, AppendError, Exit, Appended, Living, turnVars
<1>10. CASE TurnEnd
  BY <1>10 DEF TurnEnd, AppendError, Exit, Appended, Living, turnVars
<1>11. CASE StopTurns \/ StopWallClock \/ StopTokens \/ StopTools \/ Invoke
  BY <1>11 DEF StopTurns, StopWallClock, StopTokens, StopTools, Stop, Invoke, Living,
               logVars, turnVars
<1>12. CASE BootstrapFail \/ End \/ Crash
  BY <1>12 DEF BootstrapFail, End, Crash, Exit
<1> QED
  BY <1>1, <1>2, <1>3, <1>4, <1>5, <1>6, <1>7, <1>8, <1>9, <1>10, <1>11, <1>12 DEF Next

-----------------------------------------------------------------------------
(* The numbers of records and of turns, and the high-water marks a process   *)
(* holds of them: what it was told by the lines scanned so far, and what it  *)
(* has reached once it appends. Where every non-empty log is resumed.        *)
SeqIncreasing == \A i, j \in Indices : i < j => log[i].seq < log[j].seq

Within(e, s, t) == e.seq <= s /\ (e.kind = "turn" => e.payload.turn <= t)

HighWater == /\ \A i \in 1..rd - 1 : Within(log[i], tail.seq, tail.turn)
             /\ Living => \A i \in Indices : Within(log[i], seq, turnNumber)

NumberInv == SeqIncreasing /\ TurnsIncreasing /\ HighWater

(* A scan that ends without an error has seen the whole log.                 *)
LEMMA ScannedWhole ==
  ASSUME TypeInv, ~ScanErr(log)
  PROVE  Scanned(log) = log /\ \A i \in Indices : ~TooLong(log[i])
<1>1. log \in Seq(Events)
  BY DEF TypeInv
<1>2. PICK n \in 0..Len(log) : /\ Scanned(log) = SubSeq(log, 1, n)
                               /\ Len(Scanned(log)) = n
                               /\ \A i \in 1..n : ~TooLong(log[i])
  BY <1>1, ScannedIsPrefix
<1>3. n = Len(log)
  BY <1>1, <1>2 DEF ScanErr
<1> QED
  BY <1>1, <1>2, <1>3, SubSeqFull DEF Indices

LEMMA AddsWhenLiving ==
  ASSUME NEW kind, NEW p, Adds(kind, p)
  PROVE  Living
BY DEF Adds, Written, Living

(* Every record is written above what the process knows.                     *)
LEMMA AddedAbove ==
  ASSUME TypeInv, HighWater, NEW kind, NEW p, Adds(kind, p), NEW i \in Indices
  PROVE  /\ log[i].seq < NextEvent(kind, p).seq
         /\ (log[i].kind = "turn" /\ NextEvent(kind, p).kind = "turn")
               => log[i].payload.turn < NextEvent(kind, p).payload.turn
<1>1. log[i].seq <= seq /\ (log[i].kind = "turn" => log[i].payload.turn <= turnNumber)
  BY AddsWhenLiving DEF HighWater, Within
<1>2. log[i] \in Events /\ seq \in Nat /\ turnNumber \in Nat
  <2>1. log \in Seq(Events) /\ seq \in Nat /\ turnNumber \in Nat
    BY DEF TypeInv, TypeOK
  <2> QED
    BY <2>1 DEF Indices
<1>3. log[i].seq \in Nat /\ (log[i].kind = "turn" => log[i].payload.turn \in Nat)
  BY <1>2, EventParts DEF Turns
<1>4. kind = "turn" => p.turn = turnNumber + 1
  BY DEF Adds, Written, TurnPayload
<1>5. /\ NextEvent(kind, p).seq = seq + 1 /\ NextEvent(kind, p).kind = kind
      /\ NextEvent(kind, p).payload = p
  BY DEF NextEvent, Event
<1> QED
  BY <1>1, <1>2, <1>3, <1>4, <1>5

LEMMA NumbersStep ==
  ASSUME TypeInv, TypeInv', NumberInv, [Next]_vars
  PROVE  SeqIncreasing' /\ TurnsIncreasing'
<1>1. CASE LogUnchanged
  BY <1>1 DEF LogUnchanged, NumberInv, SeqIncreasing, TurnsIncreasing, Indices, Kinds
<1>2. CASE Crash
  <2>1. \A i \in 1..Len(log') : i \in 1..Len(log) /\ log'[i] = log[i]
    BY <1>2, CutLog
  <2> QED
    BY <2>1 DEF NumberInv, SeqIncreasing, TurnsIncreasing, Indices, Kinds
<1>3. ASSUME NEW kind, NEW p, Adds(kind, p)
      PROVE  SeqIncreasing' /\ TurnsIncreasing'
  <2> DEFINE e == NextEvent(kind, p)
             n == Len(log)
  <2> HIDE DEF e
  <2>1. /\ Len(log') = n + 1 /\ n \in Nat /\ log'[n + 1] = e
        /\ \A i \in 1..n : log'[i] = log[i]
    BY <1>3, AddedLog DEF e
  <2>2. \A i \in 1..n : /\ log[i].seq < e.seq
                        /\ (log[i].kind = "turn" /\ e.kind = "turn")
                              => log[i].payload.turn < e.payload.turn
    BY <1>3, AddedAbove DEF NumberInv, Indices, e
  <2>3. \A i \in 1..n + 1 : i \in 1..n \/ i = n + 1
    BY <2>1
  <2>4. ASSUME NEW i \in 1..n + 1, NEW j \in 1..n + 1, i < j
        PROVE  /\ log'[i].seq < log'[j].seq
               /\ (log'[i].kind = "turn" /\ log'[j].kind = "turn")
                     => log'[i].payload.turn < log'[j].payload.turn
    <3>1. i \in 1..n
      BY <2>1, <2>4
    <3>2. CASE j = n + 1
      <4>1. log'[i] = log[i] /\ log'[j] = e
        BY <2>1, <3>1, <3>2
      <4>2. /\ log[i].seq < e.seq
            /\ (log[i].kind = "turn" /\ e.kind = "turn")
                  => log[i].payload.turn < e.payload.turn
        BY <2>2, <3>1
      <4> QED
        BY <4>1, <4>2
    <3>3. CASE j \in 1..n
      <4>1. log[i].seq < log[j].seq
        BY <2>4, <3>1, <3>3 DEF NumberInv, SeqIncreasing, Indices
      <4>2. (log[i].kind = "turn" /\ log[j].kind = "turn")
               => log[i].payload.turn < log[j].payload.turn
        BY <2>4, <3>1, <3>3 DEF NumberInv, TurnsIncreasing, Indices, Kinds
      <4> QED
        BY <2>1, <3>1, <3>3, <4>1, <4>2
    <3> QED
      BY <2>3, <3>2, <3>3
  <2> QED
    BY <2>1, <2>4 DEF SeqIncreasing, TurnsIncreasing, Indices, Kinds
<1> QED
  BY <1>1, <1>2, <1>3, LogStep

LEMMA WithinGrows ==
  ASSUME NEW e \in Events, NEW s \in Nat, NEW t \in Nat, NEW u \in Nat, NEW v \in Nat,
         Within(e, s, t), s <= u, t <= v
  PROVE  Within(e, u, v)
<1>1. e.seq \in Nat /\ (e.kind = "turn" => e.payload.turn \in Nat)
  BY EventParts DEF Turns
<1> QED
  BY <1>1 DEF Within

LEMMA HighWaterLiving ==
  ASSUME TypeInv, TypeInv', NumberInv, [Next]_vars, Living, Living', UNCHANGED scanVars,
         seq' \in {seq, seq + 1}, log' # log => seq' = seq + 1,
         turnNumber' \in {turnNumber, turnNumber + 1},
         pc = "top" /\ log' # log => turnNumber' = turnNumber + 1
  PROVE  HighWater'
<1>1. /\ log \in Seq(Events) /\ rd \in 1..Len(log) + 1 /\ rd' = rd /\ tail' = tail
      /\ seq \in Nat /\ turnNumber \in Nat
  BY DEF TypeInv, TypeOK, scanVars
<1>2. seq' \in Nat /\ turnNumber' \in Nat /\ seq <= seq' /\ turnNumber <= turnNumber'
  BY <1>1
<1>3. \A i \in 1..Len(log) : Within(log[i], seq', turnNumber')
  BY <1>1, <1>2, WithinGrows DEF NumberInv, HighWater, Indices
<1>4. \A i \in 1..rd - 1 : i \in 1..Len(log) /\ Within(log[i], tail.seq, tail.turn)
  BY <1>1 DEF NumberInv, HighWater
<1>5. CASE LogUnchanged
  BY <1>1, <1>3, <1>4, <1>5 DEF LogUnchanged, HighWater, Indices
<1>6. ASSUME NEW kind, NEW p, Adds(kind, p) PROVE HighWater'
  <2>1. /\ Len(log') = Len(log) + 1 /\ Len(log) \in Nat
        /\ log'[Len(log) + 1] = NextEvent(kind, p)
        /\ \A i \in 1..Len(log) : log'[i] = log[i]
    BY <1>6, AddedLog
  <2>2. log' # log
    BY <2>1
  <2>3. Within(NextEvent(kind, p), seq', turnNumber')
    <3>1. kind = "turn" => p.turn = turnNumber'
      BY <1>6, <2>2 DEF Adds, Written, TurnPayload
    <3>2. seq' = seq + 1
      BY <2>2
    <3> QED
      BY <1>2, <3>1, <3>2 DEF Within, NextEvent, Event
  <2>4. \A i \in 1..Len(log) + 1 : i \in 1..Len(log) \/ i = Len(log) + 1
    BY <2>1
  <2>5. \A i \in 1..Len(log') : Within(log'[i], seq', turnNumber')
    BY <1>3, <2>1, <2>3, <2>4
  <2>6. \A i \in 1..rd' - 1 : Within(log'[i], tail'.seq, tail'.turn)
    BY <1>1, <1>4, <2>1
  <2> QED
    BY <2>5, <2>6 DEF HighWater, Indices
<1>7. ~Crash
  BY DEF Crash, Exit, Living
<1> QED
  BY <1>5, <1>6, <1>7, LogStep

LEMMA HighWaterStep ==
  ASSUME ~FreshRelaunch, TypeInv, TypeInv', NumberInv, [Next]_vars
  PROVE  HighWater'
<1>0. /\ log \in Seq(Events) /\ rd \in 1..Len(log) + 1 /\ Len(log) \in Nat
      /\ tail.seq \in Nat /\ tail.turn \in Nat
  <2>1. log \in Seq(Events) /\ rd \in 1..Len(log) + 1 /\ tail \in [seq : Nat, turn : Nat]
    BY DEF TypeInv, TypeOK
  <2> QED
    BY <2>1
<1>1. CASE Launch
  <2>1. log' = log /\ rd' = rd /\ tail' = tail /\ (Living' => log = << >>)
    BY <1>1 DEF Launch, logVars, scanVars, Living
  <2>2. CASE Living'
    BY <2>1, <2>2 DEF NumberInv, HighWater, Indices
  <2>3. CASE ~Living'
    BY <2>1, <2>3 DEF NumberInv, HighWater
  <2> QED
    BY <2>2, <2>3
<1>2. CASE Load
  BY <1>2 DEF Load, NumberInv, HighWater, logVars, scanVars, Living
<1>3. CASE ScanLine
  <2>1. /\ log' = log /\ rd' = rd + 1 /\ ~Living'
        /\ tail' = [seq |-> HighSeq(log[rd]), turn |-> HighTurn(log[rd])]
    BY <1>3 DEF ScanLine, logVars, Living
  <2>2. rd \in 1..Len(log)
    <3>1. PICK n \in 0..Len(log) : Len(Scanned(log)) = n
      BY <1>0, ScannedIsPrefix
    <3> QED
      BY <1>0, <1>3, <3>1 DEF ScanLine
  <2>3. log[rd] \in Events
    BY <1>0, <2>2
  <2>4. /\ log[rd].seq \in Nat
        /\ log[rd].kind \in {"turn", "turn_end", "llm"} => log[rd].payload.turn \in Nat
    BY <2>3, EventParts DEF Turns, LLMs
  <2>5. /\ HighSeq(log[rd]) \in Nat /\ tail.seq <= HighSeq(log[rd])
        /\ log[rd].seq <= HighSeq(log[rd])
    BY <1>0, <2>4 DEF HighSeq
  <2>6. /\ HighTurn(log[rd]) \in Nat /\ tail.turn <= HighTurn(log[rd])
        /\ log[rd].kind = "turn" => log[rd].payload.turn <= HighTurn(log[rd])
    BY <1>0, <2>4 DEF HighTurn
  <2>7. Within(log[rd], HighSeq(log[rd]), HighTurn(log[rd]))
    BY <2>5, <2>6 DEF Within
  <2>8. \A i \in 1..rd - 1 : Within(log[i], HighSeq(log[rd]), HighTurn(log[rd]))
    <3>1. \A i \in 1..rd - 1 : log[i] \in Events /\ Within(log[i], tail.seq, tail.turn)
      BY <1>0 DEF NumberInv, HighWater
    <3> QED
      BY <1>0, <2>5, <2>6, <3>1, WithinGrows
  <2>9. \A i \in 1..rd' - 1 : i \in 1..rd - 1 \/ i = rd
    BY <2>1, <2>2
  <2> QED
    BY <2>1, <2>7, <2>8, <2>9 DEF HighWater
<1>4. CASE ScanDone
  <2>1. /\ log' = log /\ rd' = rd /\ tail' = tail /\ seq' = tail.seq /\ turnNumber' = tail.turn
        /\ rd > Len(Scanned(log)) /\ ~ScanErr(log)
    BY <1>4 DEF ScanDone, scanVars
  <2>2. Scanned(log) = log
    BY <2>1, ScannedWhole
  <2>3. 1..Len(log) \subseteq 1..rd - 1
    BY <1>0, <2>1, <2>2
  <2> QED
    BY <2>1, <2>3 DEF NumberInv, HighWater, Indices
<1>5. CASE UNCHANGED vars
  BY <1>5 DEF vars, logVars, turnVars, scanVars, NumberInv, HighWater, Living, Indices
<1>6. CASE pc' = "down" /\ rd' = 1
  BY <1>6 DEF HighWater, Living
<1> QED
  BY <1>1, <1>2, <1>3, <1>4, <1>5, <1>6, ProcessStep, HighWaterLiving

(* If every later process resumes, sequence and turn numbers grow along the  *)
(* log, and those of the living process, or what scanTail has made of the    *)
(* lines it read, are not below those of the log.                            *)
THEOREM NumbersHold ==
  ASSUME ~FreshRelaunch
  PROVE  Spec => []NumberInv
<1>1. Init => NumberInv
  <2> SUFFICES ASSUME Init PROVE NumberInv
    OBVIOUS
  <2>1. Indices = {} /\ rd = 1 /\ ~Living
    <3>1. log = << >> /\ rd = 1 /\ pc = "down"
      BY DEF Init
    <3> QED
      BY <3>1 DEF Indices, Living
  <2> QED
    BY <2>1 DEF NumberInv, SeqIncreasing, TurnsIncreasing, HighWater, Kinds
<1>2. TypeInv /\ TypeInv' /\ NumberInv /\ [Next]_vars => NumberInv'
  BY NumbersStep, HighWaterStep DEF NumberInv
<1> QED
  BY <1>1, <1>2, AgentInv, PTL DEF Spec

(* No turn number is used twice and they only grow, whoever ends or kills a  *)
(* process and wherever its last records are cut off.                        *)
THEOREM TurnsOnlyGrow ==
  ASSUME ~FreshRelaunch
  PROVE  Spec => []TurnsIncreasing
<1>1. NumberInv => TurnsIncreasing
  BY DEF NumberInv
<1> QED
  BY <1>1, NumbersHold, PTL

-----------------------------------------------------------------------------
(* Where a run begins and ends in the log.                                   *)
OpenRun == pc \notin {"down", "load", "scan", "start"}

EndInv == /\ RunEndLast
          /\ OpenRun => log # << >> /\ log[Len(log)].kind # "run_end"

(* A run is opened by its run_start.                                         *)
LEMMA Opened ==
  ASSUME TypeInv, [Next]_vars, OpenRun', ~OpenRun
  PROVE  log' # log
<1>1. ~(Launch \/ Load \/ ScanLine \/ ScanDone \/ UNCHANGED vars)
  BY DEF Launch, Load, ScanLine, ScanDone, vars, OpenRun
<1>2. pc = "start"
  BY <1>1, ProcessStep DEF OpenRun, Living
<1>3. RunStart \/ BootstrapFail \/ Crash
  BY <1>1, <1>2 DEF Next, StopTurns, StopWallClock, StopTokens, StopTools, Stop, BeginTurn,
     CallLLM, LLMFail, Answer, DispatchUnknown, DispatchInvalid, RecordInvalid, Intent,
     Invoke, Result, Finish, TurnEnd, End
<1>4. RunStart
  BY <1>3 DEF BootstrapFail, Crash, Exit, OpenRun
<1>5. log' = Append(log, NextEvent("run_start", RunStartPayload(runID, cfg)))
  BY <1>4 DEF RunStart, AppendError, Exit, OpenRun, Appended
<1>6. log \in Seq(Events) /\ NextEvent("run_start", RunStartPayload(runID, cfg)) \in Events
  BY <1>2, StageEvents DEF TypeInv
<1>7. Len(log') = Len(log) + 1 /\ Len(log) \in Nat
  BY <1>5, <1>6, AppendProperties
<1> QED
  BY <1>7

LEMMA EndStep ==
  ASSUME TypeInv, TypeInv', EndInv, [Next]_vars
  PROVE  EndInv'
<1>1. CASE LogUnchanged
  <2>1. RunEndLast'
    BY <1>1 DEF LogUnchanged, EndInv, RunEndLast, Kinds, Indices
  <2>2. OpenRun' => OpenRun
    BY <1>1, Opened DEF LogUnchanged
  <2> QED
    BY <1>1, <2>1, <2>2 DEF LogUnchanged, EndInv
<1>2. CASE Crash
  <2>1. /\ \A i \in 1..Len(log') : i \in 1..Len(log) /\ log'[i] = log[i]
        /\ Len(log') <= Len(log) /\ Len(log') \in Nat /\ Len(log) \in Nat /\ pc' = "down"
    BY <1>2, CutLog
  <2>2. ASSUME NEW i \in 1..Len(log'), log'[i].kind = "run_end", i < Len(log')
        PROVE  log'[i + 1].kind = "run_start"
    <3>1. i + 1 \in 1..Len(log') /\ i < Len(log)
      BY <2>1, <2>2
    <3>2. log[i].kind = "run_end" /\ log'[i + 1] = log[i + 1] /\ i \in 1..Len(log)
      BY <2>1, <2>2, <3>1
    <3> QED
      BY <3>1, <3>2 DEF EndInv, RunEndLast, Kinds, Indices
  <2> QED
    BY <2>1, <2>2 DEF EndInv, RunEndLast, Kinds, Indices, OpenRun
<1>3. ASSUME NEW kind, NEW p, Adds(kind, p)
      PROVE  EndInv'
  <2> DEFINE n == Len(log)
  <2>1. /\ Len(log') = n + 1 /\ n \in Nat /\ log'[n + 1].kind = kind
        /\ \A i \in 1..n : log'[i] = log[i]
    <3>1. NextEvent(kind, p).kind = kind
      BY DEF NextEvent, Event
    <3> QED
      BY <1>3, <3>1, AddedLog
  <2>2. (log # << >> /\ log[n].kind # "run_end") \/ kind = "run_start"
    BY <1>3 DEF Adds, Written, EndInv, OpenRun
  <2>3. ASSUME NEW i \in 1..n + 1, log'[i].kind = "run_end", i < n + 1
        PROVE  log'[i + 1].kind = "run_start"
    <3>1. i \in 1..n /\ log[i].kind = "run_end"
      BY <2>1, <2>3
    <3>2. CASE i = n
      BY <2>1, <2>2, <3>1, <3>2
    <3>3. CASE i < n
      <4>1. log[i + 1].kind = "run_start" /\ i + 1 \in 1..n
        BY <2>1, <3>1, <3>3 DEF EndInv, RunEndLast, Kinds, Indices
      <4> QED
        BY <2>1, <4>1
    <3> QED
      BY <2>1, <3>1, <3>2, <3>3
  <2>4. OpenRun' => kind # "run_end"
    BY <1>3 DEF Adds, Written, OpenRun
  <2>5. log' # << >>
    BY <2>1
  <2> QED
    BY <2>1, <2>3, <2>4, <2>5 DEF EndInv, RunEndLast, Kinds, Indices
<1> QED
  BY <1>1, <1>2, <1>3, LogStep

(* A run under way has opened the log with a record and has not ended it.    *)
THEOREM EndsHold == Spec => []EndInv
<1>1. Init => EndInv
  <2> SUFFICES ASSUME Init PROVE EndInv
    OBVIOUS
  <2>1. log = << >> /\ pc = "down"
    BY DEF Init
  <2> QED
    BY <2>1 DEF EndInv, RunEndLast, Kinds, Indices, OpenRun
<1>2. TypeInv /\ TypeInv' /\ EndInv /\ [Next]_vars => EndInv'
  BY EndStep
<1> QED
  BY <1>1, <1>2, AgentInv, PTL DEF Spec

(* run_end is the last record of its process: nobody goes on after terminate *)
(* and the next record, if there ever is one, is another process's run_start.*)
THEOREM NothingAfterRunEnd == Spec => []RunEndLast
<1>1. EndInv => RunEndLast
  BY DEF EndInv
<1> QED
  BY <1>1, EndsHold, PTL

-----------------------------------------------------------------------------
(* A process that goes on has read all of the log it goes on from.           *)
ReadInv == ReadWhole /\ (pc = "start" => \A i \in Indices : ~TooLong(log[i]))

LEMMA Starts ==
  ASSUME [Next]_vars, pc' = "start"
  PROVE  Launch \/ ScanDone \/ UNCHANGED vars
<1>1. Load \/ ScanLine \/ BootstrapFail \/ StopTurns \/ StopWallClock \/ StopTokens
        \/ StopTools \/ LLMFail \/ DispatchUnknown \/ DispatchInvalid \/ RecordInvalid
        \/ Invoke \/ Result \/ End \/ Crash => pc' # "start"
  BY DEF Load, ScanLine, BootstrapFail, Exit, StopTurns, StopWallClock, StopTokens, StopTools,
         Stop, LLMFail, DispatchUnknown, DispatchInvalid, RecordInvalid, Invoke, Result,
         End, Crash
<1>2. RunStart \/ BeginTurn \/ CallLLM \/ Answer \/ Intent \/ Finish \/ TurnEnd
        => pc' # "start"
  BY DEF RunStart, BeginTurn, CallLLM, Answer, Intent, Finish, TurnEnd, AppendError, Exit
<1> QED
  BY <1>1, <1>2 DEF Next

LEMMA ReadStep ==
  ASSUME ~FreshRelaunch, TypeInv, TypeInv', ReadInv, [Next]_vars
  PROVE  ReadInv'
<1>1. CASE LogUnchanged
  <2>1. ReadWhole'
    BY <1>1 DEF LogUnchanged, ReadInv, ReadWhole, Indices
  <2>2. ASSUME pc' = "start" PROVE \A i \in 1..Len(log) : ~TooLong(log[i])
    <3>1. CASE Launch
      <4>1. log = << >>
        BY <2>2, <3>1 DEF Launch
      <4> QED
        BY <4>1
    <3>2. CASE ScanDone
      BY <3>2, ScannedWhole DEF ScanDone, Indices
    <3>3. CASE UNCHANGED vars
      BY <2>2, <3>3 DEF ReadInv, Indices, vars
    <3> QED
      BY <2>2, <3>1, <3>2, <3>3, Starts
  <2> QED
    BY <1>1, <2>1, <2>2 DEF LogUnchanged, ReadInv, Indices
<1>2. CASE Crash
  <2>1. /\ \A i \in 1..Len(log') : i \in 1..Len(log) /\ log'[i] = log[i]
        /\ pc' = "down" /\ Len(log') \in Nat /\ Len(log) \in Nat
    BY <1>2, CutLog
  <2>2. \A i \in 1..Len(log') : i + 1..Len(log') \subseteq 1..Len(log')
    BY <2>1
  <2>3. \A i \in 1..Len(log') : i + 1..Len(log') \subseteq i + 1..Len(log)
    BY <2>1
  <2> QED
    BY <2>1, <2>2, <2>3 DEF ReadInv, ReadWhole, Indices
<1>3. ASSUME NEW kind, NEW p, Adds(kind, p)
      PROVE  ReadInv'
  <2> DEFINE n == Len(log)
             e == NextEvent(kind, p)
  <2> HIDE DEF e
  <2>1. /\ Len(log') = n + 1 /\ n \in Nat /\ log'[n + 1] = e /\ e.kind = kind
        /\ \A i \in 1..n : log'[i] = log[i]
    BY <1>3, AddedLog DEF NextEvent, Event, e
  <2>2. pc' # "start"
    <3>1. log' # log
      BY <2>1
    <3> QED
      BY <3>1, Starts DEF Launch, ScanDone, vars, logVars
  <2>3. kind = "run_start" => \A i \in 1..n : ~TooLong(log[i])
    BY <1>3 DEF Adds, Written, ReadInv, Indices
  <2>4. ASSUME NEW i \in 1..n + 1, TooLong(log'[i]), NEW j \in i + 1..n + 1
        PROVE  log'[j].kind # "run_start"
    <3>1. i \in 1..n /\ TooLong(log[i])
      BY <2>1, <2>4
    <3>2. CASE j = n + 1
      BY <2>1, <2>3, <3>1, <3>2
    <3>3. CASE j \in i + 1..n
      <4>1. log[j].kind # "run_start" /\ j \in 1..n
        BY <2>1, <3>1, <3>3 DEF ReadInv, ReadWhole, Indices
      <4> QED
        BY <2>1, <4>1
    <3> QED
      BY <2>1, <2>4, <3>1, <3>2, <3>3
  <2> QED
    BY <2>1, <2>2, <2>4 DEF ReadInv, ReadWhole, Indices
<1> QED
  BY <1>1, <1>2, <1>3, LogStep

(* No process goes on from a log it could read only in part: the scanner's   *)
(* error is looked at before the high-water marks are believed.              *)
THEOREM NothingReadInPart ==
  ASSUME ~FreshRelaunch
  PROVE  Spec => []ReadWhole
<1>1. Init => ReadInv
  <2> SUFFICES ASSUME Init PROVE ReadInv
    OBVIOUS
  <2>1. log = << >> /\ pc = "down"
    BY DEF Init
  <2> QED
    BY <2>1 DEF ReadInv, ReadWhole, Indices
<1>2. ReadInv => ReadWhole
  BY DEF ReadInv
<1>3. TypeInv /\ TypeInv' /\ ReadInv /\ [Next]_vars => ReadInv'
  BY ReadStep
<1> QED
  BY <1>1, <1>2, <1>3, AgentInv, PTL DEF Spec

-----------------------------------------------------------------------------
(* The log as LogStore sees it.                                              *)
Store(s) == [i \in 1..Len(s) |-> [seq |-> s[i].seq]]

LEMMA StoreIsSeq ==
  ASSUME NEW s \in Seq(Events)
  PROVE  /\ Store(s) \in Seq([seq : Nat]) /\ Len(Store(s)) = Len(s) /\ Len(s) \in Nat
         /\ \A i \in 1..Len(s) : Store(s)[i].seq = s[i].seq
<1>1. Len(s) \in Nat
  OBVIOUS
<1>2. \A i \in 1..Len(s) : [seq |-> s[i].seq] \in [seq : Nat]
  BY EventParts
<1>3. Store(s) \in [1..Len(s) -> [seq : Nat]]
  BY <1>2 DEF Store
<1>4. Store(s) \in Seq([seq : Nat])
  <2> DEFINE R == [seq : Nat]
  <2>1. Store(s) \in [1..Len(s) -> R]
    BY <1>3
  <2> HIDE DEF R
  <2>2. Store(s) \in Seq(R)
    BY <1>1, <2>1, SeqDef
  <2> QED
    BY <2>2 DEF R
<1>5. Len(Store(s)) = Len(s)
  BY <1>1, <1>3, <1>4, LenProperties
<1>6. \A i \in 1..Len(s) : Store(s)[i].seq = s[i].seq
  BY DEF Store
<1> QED
  BY <1>1, <1>4, <1>5, <1>6

LEMMA StoreCut ==
  ASSUME NEW s \in Seq(Events), NEW n \in 0..Len(s), NEW t \in Seq(Events), Len(t) = n,
         \A i \in 1..n : t[i] = s[i]
  PROVE  Store(t) = SubSeq(Store(s), 1, n)
<1> DEFINE S == Store(s)
           R == [seq : Nat]
<1>1. /\ S \in Seq(R) /\ Len(S) = Len(s) /\ Len(s) \in Nat
      /\ Store(t) \in Seq(R) /\ Len(Store(t)) = n
  BY StoreIsSeq
<1>2. \A i \in 1..n : Store(t)[i] = S[i]
  BY DEF Store
<1> HIDE DEF S, R
<1>3. /\ SubSeq(S, 1, n) \in Seq(R) /\ Len(SubSeq(S, 1, n)) = n
      /\ \A i \in 1..n : SubSeq(S, 1, n)[i] = S[i]
  BY <1>1
<1>4. \A i \in 1..n : Store(t)[i] = SubSeq(S, 1, n)[i]
  BY <1>2, <1>3
<1>5. Store(t) = SubSeq(S, 1, n)
  BY <1>1, <1>3, <1>4, SeqEqual
<1> QED
  BY <1>5 DEF S

LEMMA PromiseStep ==
  ASSUME TypeInv, TypeInv', NumberInv, [Next]_vars
  PROVE  [Promise!Next]_(Promise!vars)
<1> DEFINE store == Store(log)
<1>0. log \in Seq(Events) /\ log' \in Seq(Events) /\ kept \in 0..Len(log) /\ Len(log) \in Nat
  <2>1. log \in Seq(Events) /\ log' \in Seq(Events) /\ kept \in 0..Len(log)
    BY DEF TypeInv, TypeOK
  <2> QED
    BY <2>1
<1>1. [i \in Indices |-> [seq |-> log[i].seq]] = Store(log)
  BY DEF Indices, Store
<1>2. CASE LogUnchanged
  BY <1>2 DEF LogUnchanged, Promise!vars, Indices
<1>3. CASE Crash
  <2>1. PICK n \in kept..Len(log) : Len(log') = n
    BY <1>3, CutLog
  <2>2. /\ n \in 0..Len(log) /\ kept' = kept
        /\ \A i \in 1..n : log'[i] = log[i]
    BY <1>0, <1>3, <2>1, CutLog
  <2>3. Store(log') = SubSeq(Store(log), 1, n)
    BY <1>0, <2>1, <2>2, StoreCut
  <2>4. Len(Store(log)) = Len(log) /\ SubSeq(Store(log), 1, Len(log)) = Store(log)
    BY <1>0, StoreIsSeq, SubSeqFull
  <2>5. CASE n = Len(log)
    BY <1>1, <2>2, <2>3, <2>4, <2>5 DEF Promise!vars, Store, Indices
  <2>6. CASE n < Len(log)
    <3>1. Promise!Lose
      BY <1>1, <2>1, <2>2, <2>3, <2>4, <2>6 DEF Promise!Lose, Store, Indices
    <3> QED
      BY <3>1 DEF Promise!Next
  <2> QED
    BY <1>0, <2>1, <2>5, <2>6
<1>4. ASSUME NEW kind, NEW p, Adds(kind, p)
      PROVE  Promise!Next
  <2>1. /\ Len(log') = Len(log) + 1
        /\ \A i \in 1..Len(log) : log'[i] = log[i]
        /\ log'[Len(log')] = NextEvent(kind, p)
        /\ kept' \in {kept, Len(log')}
    BY <1>4, AddedLog DEF Adds
  <2>2. Store(log) = SubSeq(Store(log'), 1, Len(log))
    BY <1>0, <2>1, StoreCut
  <2>3. /\ Len(Store(log')) = Len(log) + 1 /\ Len(Store(log)) = Len(log)
        /\ \A i \in 1..Len(log) : Store(log)[i].seq = log[i].seq
        /\ Store(log')[Len(log) + 1].seq = NextEvent(kind, p).seq
    <3>1. /\ Len(Store(log)) = Len(log)
          /\ \A i \in 1..Len(log) : Store(log)[i].seq = log[i].seq
      BY <1>0, StoreIsSeq
    <3>2. /\ Len(Store(log')) = Len(log')
          /\ \A i \in 1..Len(log') : Store(log')[i].seq = log'[i].seq
      BY <1>0, StoreIsSeq
    <3>3. Len(log) + 1 \in 1..Len(log')
      BY <1>0, <2>1
    <3> QED
      BY <2>1, <3>1, <3>2, <3>3
  <2>4. \A i \in 1..Len(log) : log[i].seq < NextEvent(kind, p).seq
    BY <1>4, AddedAbove DEF NumberInv, Indices
  <2>5. Promise!Extends(Store(log'), Store(log))
    BY <2>2, <2>3, <2>4 DEF Promise!Extends
  <2>6. Promise!Extends([i \in Indices |-> [seq |-> log[i].seq]]',
                        [i \in Indices |-> [seq |-> log[i].seq]])
    BY <2>5 DEF Indices, Store
  <2>7. Len([i \in Indices |-> [seq |-> log[i].seq]]') = Len(log')
    BY <2>1, <2>3 DEF Indices, Store
  <2> QED
    BY <2>1, <2>6, <2>7 DEF Promise!Next, Promise!Commit, Promise!Leave
<1> QED
  BY <1>2, <1>3, <1>4, LogStep

(* The agent's log, through its writer's errors, every ending of a process   *)
(* and every crash, is the append-only store LogStore promises: a record is  *)
(* numbered above all before it and what an fsync has covered is never lost. *)
THEOREM AgentKeepsPromise ==
  ASSUME ~FreshRelaunch
  PROVE  Spec => ImplementsLogStore
<1>1. Init => Promise!Init
  <2> SUFFICES ASSUME Init PROVE Promise!Init
    OBVIOUS
  <2>1. log = << >> /\ kept = 0
    BY DEF Init
  <2>2. Indices = {}
    BY <2>1 DEF Indices
  <2>3. [i \in Indices |-> [seq |-> log[i].seq]] = << >>
    BY <2>2
  <2> QED
    BY <2>1, <2>3 DEF Promise!Init
<1>2. TypeInv /\ TypeInv' /\ NumberInv /\ [Next]_vars => [Promise!Next]_(Promise!vars)
  BY PromiseStep
<1> QED
  BY <1>1, <1>2, AgentInv, NumbersHold, PTL DEF Spec, ImplementsLogStore, Promise!Spec

-----------------------------------------------------------------------------
(* The turn a process is in.                                                 *)
InTurnStages == {"call", "answer", "dispatch", "reject", "invoke", "record"}

(* Record j opened the turn the process is in.                               *)
TurnOpen(j) ==
  /\ log[j].kind = "turn" /\ log[j].payload.turn = turnNumber
  /\ \A k \in j + 1..Len(log) : log[k].kind \notin {"turn", "run_start"}
  /\ pc = "call" => \A k \in j + 1..Len(log) : log[k].kind # "llm"

TurnInv == /\ TurnRecordsMatch
           /\ pc \in InTurnStages => \E j \in Indices : TurnOpen(j)

LEMMA IntoTurn ==
  ASSUME [Next]_vars, pc' \in InTurnStages
  PROVE  \/ BeginTurn \/ CallLLM \/ DispatchUnknown \/ DispatchInvalid \/ RecordInvalid
         \/ Intent \/ Invoke \/ Result \/ UNCHANGED vars
<1>1. Launch \/ Load \/ ScanLine \/ ScanDone \/ BootstrapFail \/ StopTurns \/ StopWallClock
        \/ StopTokens \/ StopTools \/ LLMFail \/ End \/ Crash => pc' \notin InTurnStages
  BY DEF Launch, Load, ScanLine, ScanDone, BootstrapFail, Exit, StopTurns, StopWallClock,
         StopTokens, StopTools, Stop, LLMFail, End, Crash, InTurnStages
<1>2. RunStart \/ Answer \/ Finish \/ TurnEnd => pc' \notin InTurnStages
  BY DEF RunStart, Answer, Finish, TurnEnd, AppendError, Exit, InTurnStages
<1> QED
  BY <1>1, <1>2 DEF Next

LEMMA TurnStageStep ==
  ASSUME [Next]_vars, pc' \in InTurnStages
  PROVE  \/ /\ pc = "top" /\ pc' = "call" /\ turnNumber' = turnNumber + 1
            /\ log' = Append(log, NextEvent("turn", TurnPayload(turnNumber + 1)))
         \/ /\ pc \in InTurnStages /\ turnNumber' = turnNumber
            /\ pc' = "call" => pc = "call" /\ log' = log
<1>1. CASE BeginTurn
  BY <1>1 DEF BeginTurn, AppendError, Exit, Appended, InTurnStages
<1>2. CASE CallLLM
  BY <1>2 DEF CallLLM, AppendError, Exit, InTurnStages
<1>3. CASE DispatchUnknown
  BY <1>3 DEF DispatchUnknown, InTurnStages
<1>4. CASE DispatchInvalid \/ RecordInvalid \/ Invoke \/ Result
  BY <1>4 DEF DispatchInvalid, RecordInvalid, Invoke, Result, turnVars, InTurnStages
<1>5. CASE Intent
  BY <1>5 DEF Intent, AppendError, Exit, turnVars, InTurnStages
<1>6. CASE UNCHANGED vars
  BY <1>6 DEF vars, logVars, turnVars, InTurnStages
<1> QED
  BY <1>1, <1>2, <1>3, <1>4, <1>5, <1>6, IntoTurn

LEMMA MatchStep ==
  ASSUME TypeInv, TypeInv', TurnInv, [Next]_vars
  PROVE  TurnRecordsMatch'
<1>1. CASE LogUnchanged
  BY <1>1 DEF LogUnchanged, TurnInv, TurnRecordsMatch, InTurn, NoneBetween, Kinds, Indices
<1>2. CASE Crash
  <2>1. /\ \A i \in 1..Len(log') : i \in 1..Len(log) /\ log'[i] = log[i]
        /\ Len(log') \in Nat /\ Len(log) \in Nat
    BY <1>2, CutLog
  <2>2. ASSUME NEW i \in 1..Len(log'), log'[i].kind \in {"llm", "turn_end"}
        PROVE  \E j \in 1..Len(log') : InTurn(i, j)' /\ log'[j].payload.turn = log'[i].payload.turn
    <3>1. PICK j \in 1..Len(log) : InTurn(i, j) /\ log[j].payload.turn = log[i].payload.turn
      BY <2>1, <2>2 DEF TurnInv, TurnRecordsMatch, Kinds, Indices
    <3>2. j < i /\ j \in 1..Len(log')
      BY <2>1, <3>1 DEF InTurn
    <3>3. \A k \in j + 1..i - 1 : k \in 1..Len(log')
      BY <2>1, <3>2
    <3>4. InTurn(i, j)'
      BY <2>1, <3>1, <3>2, <3>3 DEF InTurn, NoneBetween
    <3> QED
      BY <2>1, <3>1, <3>2, <3>4
  <2> QED
    BY <2>2 DEF TurnRecordsMatch, Kinds, Indices
<1>3. ASSUME NEW kind, NEW p, Adds(kind, p)
      PROVE  TurnRecordsMatch'
  <2> DEFINE n == Len(log)
             e == NextEvent(kind, p)
  <2> HIDE DEF e
  <2>1. /\ Len(log') = n + 1 /\ n \in Nat /\ log'[n + 1] = e
        /\ e.kind = kind /\ e.payload = p
        /\ \A i \in 1..n : log'[i] = log[i]
    BY <1>3, AddedLog DEF NextEvent, Event, e
  <2>2. ASSUME NEW i \in 1..n, log'[i].kind \in {"llm", "turn_end"}
        PROVE  \E j \in 1..n + 1 : InTurn(i, j)' /\ log'[j].payload.turn = log'[i].payload.turn
    <3>1. PICK j \in 1..n : InTurn(i, j) /\ log[j].payload.turn = log[i].payload.turn
      BY <2>1, <2>2 DEF TurnInv, TurnRecordsMatch, Kinds, Indices
    <3>2. j < i /\ \A k \in j + 1..i - 1 : k \in 1..n
      BY <2>1, <3>1 DEF InTurn
    <3>3. InTurn(i, j)'
      BY <2>1, <3>1, <3>2 DEF InTurn, NoneBetween
    <3> QED
      BY <2>1, <3>1, <3>3
  <2>3. ASSUME NEW i \in 1..n + 1, i = n + 1, kind \in {"llm", "turn_end"}
        PROVE  \E j \in 1..n + 1 : InTurn(i, j)' /\ log'[j].payload.turn = p.turn
    <3>1. pc \in InTurnStages /\ p.turn = turnNumber
      BY <1>3, <2>3 DEF Adds, Written, InTurnStages, TurnPayload, LLMPayload
    <3>2. PICK j \in 1..n : TurnOpen(j)
      BY <3>1 DEF TurnInv, Indices
    <3>3. j < i /\ \A k \in j + 1..i - 1 : k \in 1..n /\ k \in j + 1..n
      BY <2>1, <2>3
    <3>4. InTurn(i, j)'
      <4>1. log'[j].kind = "turn"
        BY <2>1, <3>2 DEF TurnOpen
      <4>2. \A k \in j + 1..i - 1 : log'[k].kind \notin {"turn", "run_start"}
        BY <2>1, <3>2, <3>3 DEF TurnOpen
      <4> QED
        BY <3>3, <4>1, <4>2 DEF InTurn, NoneBetween
    <3> QED
      BY <2>1, <3>1, <3>2, <3>4 DEF TurnOpen
  <2>4. ASSUME NEW i \in 1..n + 1, log'[i].kind \in {"llm", "turn_end"}
        PROVE  \E j \in 1..n + 1 : InTurn(i, j)' /\ log'[j].payload.turn = log'[i].payload.turn
    <3>1. CASE i \in 1..n
      BY <2>2, <2>4, <3>1
    <3>2. CASE i = n + 1
      BY <2>1, <2>3, <2>4, <3>2
    <3> QED
      BY <2>1, <3>1, <3>2
  <2> QED
    BY <2>1, <2>4 DEF TurnRecordsMatch, Kinds, Indices
<1> QED
  BY <1>1, <1>2, <1>3, LogStep

LEMMA TurnOpenStep ==
  ASSUME TypeInv, TypeInv', TurnInv, [Next]_vars, pc' \in InTurnStages
  PROVE  (\E j \in Indices : TurnOpen(j))'
<1> DEFINE n == Len(log)
<1>1. CASE /\ pc = "top" /\ pc' = "call" /\ turnNumber' = turnNumber + 1
           /\ log' = Append(log, NextEvent("turn", TurnPayload(turnNumber + 1)))
  <2>1. log \in Seq(Events) /\ NextEvent("turn", TurnPayload(turnNumber + 1)) \in Events
    BY StageEvents DEF TypeInv
  <2>2. /\ Len(log') = n + 1 /\ n \in Nat
        /\ log'[n + 1] = NextEvent("turn", TurnPayload(turnNumber + 1))
    BY <1>1, <2>1, AppendProperties
  <2>3. log'[n + 1].kind = "turn" /\ log'[n + 1].payload.turn = turnNumber'
    BY <1>1, <2>2 DEF NextEvent, Event, TurnPayload
  <2>4. n + 1 \in 1..Len(log') /\ (n + 1) + 1..Len(log') = {}
    BY <2>2
  <2> QED
    BY <2>3, <2>4 DEF TurnOpen, Indices
<1>2. CASE /\ pc \in InTurnStages /\ turnNumber' = turnNumber
           /\ pc' = "call" => pc = "call" /\ log' = log
  <2>1. PICK j \in 1..n : TurnOpen(j)
    BY <1>2 DEF TurnInv, Indices
  <2>2. CASE LogUnchanged
    BY <1>2, <2>1, <2>2 DEF LogUnchanged, TurnOpen, Indices
  <2>3. ASSUME NEW kind, NEW p, Adds(kind, p)
        PROVE  (\E i \in Indices : TurnOpen(i))'
    <3>1. /\ Len(log') = n + 1 /\ n \in Nat /\ log'[n + 1].kind = kind
          /\ \A i \in 1..n : log'[i] = log[i]
      <4>1. NextEvent(kind, p).kind = kind
        BY DEF NextEvent, Event
      <4> QED
        BY <2>3, <4>1, AddedLog
    <3>2. kind \notin {"turn", "run_start"}
      BY <1>2, <2>3 DEF Adds, Written, InTurnStages
    <3>3. \A k \in j + 1..n + 1 : (k \in j + 1..n /\ k \in 1..n) \/ k = n + 1
      BY <3>1
    <3>4. pc' # "call"
      BY <1>2, <3>1
    <3>5. \A k \in j + 1..Len(log') : log'[k].kind \notin {"turn", "run_start"}
      BY <2>1, <3>1, <3>2, <3>3 DEF TurnOpen
    <3>6. TurnOpen(j)' /\ j \in 1..Len(log')
      BY <1>2, <2>1, <3>1, <3>4, <3>5 DEF TurnOpen
    <3> QED
      BY <3>6 DEF Indices
  <2>4. ~Crash
    BY DEF Crash, Exit, InTurnStages
  <2> QED
    BY <2>2, <2>3, <2>4, LogStep
<1> QED
  BY <1>1, <1>2, TurnStageStep

(* Completions and turn_ends name their turns, and a process in a turn is in *)
(* the one the last turn record opened.                                      *)
THEOREM TurnsHold == Spec => []TurnInv
<1>1. Init => TurnInv
  <2> SUFFICES ASSUME Init PROVE TurnInv
    OBVIOUS
  <2>1. log = << >> /\ pc = "down"
    BY DEF Init
  <2> QED
    BY <2>1 DEF TurnInv, TurnRecordsMatch, Kinds, Indices, InTurnStages
<1>2. TypeInv /\ TypeInv' /\ TurnInv /\ [Next]_vars => TurnInv'
  BY MatchStep, TurnOpenStep DEF TurnInv
<1> QED
  BY <1>1, <1>2, AgentInv, PTL DEF Spec

(* A completion and a turn-end marker name the turn they are recorded in,    *)
(* however often the numbering was taken over by a resume.                   *)
THEOREM TurnsNamed == Spec => []TurnRecordsMatch
<1>1. TurnInv => TurnRecordsMatch
  BY DEF TurnInv
<1> QED
  BY <1>1, TurnsHold, PTL
===============================================================================
