-------------------------- MODULE AgentProperties ---------------------------
(* What the agent is meant to guarantee, over its log, its tool invocations  *)
(* and the conversation the endpoint is sent.                                *)
EXTENDS Agent

TypeOK == /\ kept \in 0..Len(log)
          /\ seq \in Nat /\ broken \in BOOLEAN
          /\ pc \in Stage
          /\ cfg \in Launched /\ llmModel \in Texts
          /\ turnsThisRun \in 0..cfg.turns
          /\ turnNumber \in Nat /\ totalTokens \in Nat /\ toolInvocations \in Nat
          /\ runs \in 0..MaxRuns /\ runID \in 0..runs
          /\ rd \in 1..Len(log) + 1
          /\ tail \in [seq : Nat, turn : Nat]
          /\ outcome \in {"", "ok", "huge", "failed", "finished"}

Indices == 1..Len(log)
Kinds(ks) == {i \in Indices : log[i].kind \in ks}
Intents == {i \in Kinds({"tool"}) : log[i].payload.status = "intent"}

(* No record of one of the kinds ks strictly between i and j.                *)
NoneBetween(i, j, ks) == \A k \in i + 1..j - 1 : log[k].kind \notin ks

(* Record i is of the turn opened by record j.                               *)
InTurn(i, j) == /\ log[j].kind = "turn"
                /\ j < i
                /\ NoneBetween(j, i, {"turn", "run_start"})

(* The configuration in the run_start of the process that wrote record i.    *)
ConfigAt(i) ==
  log[SelectLastInSubSeq(log, 1, i, LAMBDA e : e.kind = "run_start")].payload.config

(* The records of the process that wrote record i, before it.                *)
OfProcess(i) == {k \in 1..i - 1 : NoneBetween(k, i, {"run_start"})
                                  /\ log[k].kind # "run_start"}

-----------------------------------------------------------------------------
(* Write-ahead: every tool invocation ever made has an intent of its own,    *)
(* covered by an fsync and never lost since, and that intent comes after the *)
(* completion that asked for the call, in the same turn.                     *)
WriteAhead ==
  \A k \in DOMAIN effects :
    LET p == effects[k] IN
      /\ p <= kept
      /\ p \in Intents
      /\ \A l \in DOMAIN effects : l < k => effects[l] < p
      /\ \E i \in 1..p - 1 :
           /\ log[i].kind = "llm"
           /\ NoneBetween(i, p, {"turn", "run_start"})
           /\ \E c \in ToSet(log[i].payload.msg.calls) : c.id = log[p].payload.id

(* No call of a completion is ever invoked twice, whatever crashes and       *)
(* resumes come between its intent and its result, and whatever ids the      *)
(* endpoint gives the calls of its other completions.                        *)
AtMostOnce ==
  LET asked(p) == <<SelectLastInSubSeq(log, 1, p, LAMBDA e : e.kind = "llm"),
                    log[p].payload.id>>
  IN  \A k, l \in DOMAIN effects : asked(effects[k]) = asked(effects[l]) => k = l

(* When the endpoint is asked to go on, the conversation it is sent is what  *)
(* a resume would read back from the log: nothing was acted on that a crash  *)
(* could make the agent forget, although recordTool drops append errors. A   *)
(* log with a record too long to be read is past that.                       *)
ConversationDurable ==
  pc = "call" =>
    /\ kept = Len(log)
    /\ \/ ScanErr(log)
       \/ messages = <<SystemPrompt, messages[2]>> \o LoadTranscript(log).messages

(* No process goes on from a log it could read only in part: behind a record *)
(* too long for the scanner there is never another process's run_start, so   *)
(* that one output ends the log.                                             *)
ReadWhole ==
  \A i \in Indices : TooLong(log[i]) => \A j \in i + 1..Len(log) : log[j].kind # "run_start"

(* The results of a request follow it, so that an endpoint can pair them.    *)
(* A call that has none in the conversation sent was cut off: the process    *)
(* that made it ended in that turn and another one took up the log.          *)
Answered(id) == \E m \in ToSet(messages) : m.role = "tool" /\ m.id = id

UnansweredWasCutOff ==
  pc = "call" /\ ~ScanErr(log) =>
    \A i \in Kinds({"llm"}) : \A c \in ToSet(log[i].payload.msg.calls) :
      \/ Answered(c.id)
      \/ \E j \in Kinds({"run_start"}) : i < j /\ NoneBetween(i, j, {"turn", "turn_end"})

(* No turn number appears twice in a log, and they only grow.                *)
TurnsIncreasing ==
  \A i, j \in Kinds({"turn"}) :
    i < j => log[i].payload.turn < log[j].payload.turn

(* A completion and a turn-end marker name the turn they are recorded in.    *)
TurnRecordsMatch ==
  \A i \in Kinds({"llm", "turn_end"}) :
    \E j \in Indices : InTurn(i, j) /\ log[j].payload.turn = log[i].payload.turn

(* A process that stops for max_turns has taken exactly the turns of its     *)
(* configuration, however many earlier processes took.                       *)
FullTurnBudget ==
  \A i \in Kinds({"run_end"}) :
    log[i].payload.reason = "max_turns" =>
      Cardinality(OfProcess(i) \cap Kinds({"turn"})) = ConfigAt(i).turns

(* A turn closed by turn_end has a terminal record for every call its        *)
(* completion made.                                                          *)
ClosedTurnAnswered ==
  \A i \in Kinds({"turn_end"}) : \A j \in Kinds({"llm"}) :
    (j < i /\ NoneBetween(j, i, {"turn", "run_start"})) =>
      \A c \in ToSet(log[j].payload.msg.calls) :
        \E k \in j + 1..i - 1 : Terminal(log[k]) /\ log[k].payload.id = c.id

(* run_end is the last record of its process.                                *)
RunEndLast ==
  \A i \in Kinds({"run_end"}) : i < Len(log) => log[i + 1].kind = "run_start"

(* A turn is begun only within the limits, by what the log itself shows of   *)
(* the process: its configuration, the tokens its completions used and the   *)
(* calls it answered.                                                        *)
BudgetAtTurn ==
  \A i \in Kinds({"turn"}) :
    LET config == ConfigAt(i) IN
      /\ config.tokens > 0 =>
           MapThenSumSet(LAMBDA k : log[k].payload.tokens,
                         OfProcess(i) \cap Kinds({"llm"})) <= config.tokens
      /\ config.tools > 0 =>
           Cardinality({k \in OfProcess(i) : Terminal(log[k])}) <= config.tools

(* Two intents of one process have two idempotency keys, even when the       *)
(* endpoint gives calls of different turns the same id.                      *)
KeysDistinct ==
  \A i \in Intents : \A j \in Intents \cap OfProcess(i) :
    log[i].payload.key # log[j].payload.key

(* However long the run and whoever started it, the endpoint is sent a       *)
(* conversation within the process's bounds, CompactAt messages or four      *)
(* fifths of its tokens, or one a compaction has cut to seven messages.      *)
TranscriptBounded ==
  pc = "call" => \/ Len(messages) <= 7
                 \/ cfg.tokens = 0 /\ Len(messages) <= CompactAt
                 \/ cfg.tokens > 0 /\ 10 * EstimateTokens(messages) < 8 * cfg.tokens + 10

(* A result stands behind its request, with only results between. A          *)
(* compaction keeps messages and not turns, so it may elide the request; the *)
(* results then stand directly behind the summary that replaced it.          *)
OrphansBehindSummary ==
  pc = "call" =>
    \A i \in DOMAIN messages : messages[i].role = "tool" =>
      LET k == SelectLastInSubSeq(messages, 1, i, LAMBDA m : m.role # "tool")
      IN  \/ \E c \in ToSet(messages[k].calls) : c.id = messages[i].id
          \/ k = 3 /\ messages[k].role = "system"

(* And it always starts with the system prompt and the goal.                 *)
PinnedHead ==
  pc = "call" => /\ messages[1] = SystemPrompt
                 /\ messages[2] = Message("user", log[1].payload.goal)

-----------------------------------------------------------------------------
(* The log keeps LogStore's promise; its records are numbered upwards.       *)
Promise == INSTANCE LogStore
             WITH store <- [i \in Indices |-> [seq |-> log[i].seq]],
                  kept  <- kept

ImplementsLogStore == Promise!Spec

-----------------------------------------------------------------------------
(* A step of the agent's own is taken as long as the process lives: HTTP     *)
(* requests end by their 120 s timeout, commands by ExecTimeout (which is    *)
(* Shell.LineEnds), file operations by an error. Nobody need launch it and   *)
(* it need not crash or meet a fault.                                        *)
Progress == \/ Load \/ ScanLine \/ ScanDone \/ (ScanErr(log) /\ BootstrapFail)
            \/ RunStart \/ StopTurns \/ StopTokens \/ StopTools \/ BeginTurn
            \/ CallLLM \/ Answer \/ DispatchUnknown \/ DispatchInvalid
            \/ RecordInvalid \/ Intent \/ Invoke \/ Result \/ Finish
            \/ TurnEnd \/ End

FairSpec == Spec /\ WF_vars(Progress)

(* Every process ends, whatever the endpoint answers: the turn limit does    *)
(* not depend on its cooperation.                                            *)
Termination == pc # "down" ~> pc = "down"
=============================================================================
