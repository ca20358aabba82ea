------------------------------- MODULE Agent --------------------------------
(* The agent of agent.go over a sequence of processes: bootstrap (fresh or   *)
(* resumed from the log), the turn loop with its limits, the chat            *)
(* completion, the dispatch of tool calls and termination. Every event log   *)
(* append is one step and has the outcomes EventLog.tla gives Append, whole  *)
(* lines only: durable, written but not synced, or not written. A process    *)
(* can die between any two steps; the next one knows only the log.           *)
EXTENDS Transcript

CONSTANTS Responses,          \* completions the endpoint may return:
                              \* [content, calls : Seq([tool, args]), tokens]
          Launches,           \* ways to start it: see Launched
          CompactAt,          \* messages above which ShouldCompact fires (40)
          MaxRuns,            \* bound: processes started on the log
          IOFaults,           \* may an append fail?
          FreshRelaunch,      \* may a non-empty log be opened without resuming?
          UniqueIds           \* does the endpoint never reuse a call id?

(* What of Config the loop reads; a limit of 0 is none, but for turns.       *)
Launched == [resume : BOOLEAN, goal : Texts, model : Texts,
             turns : Nat, tokens : Nat, tools : Nat,
             compaction : {"window", "llm"}]

(* A tool call as the endpoint makes it: its arguments as the schema of the  *)
(* tool takes them, as it refuses them, or not even JSON.                    *)
Requested == [tool : STRING, args : {"valid", "invalid", "malformed"}]

ASSUME ResponseAssumption ==
  Responses \subseteq [content : Texts, calls : Seq(Requested), tokens : Nat]
ASSUME LimitAssumption == CompactAt \in Nat /\ MaxRuns \in Nat
ASSUME LaunchAssumption == Launches \subseteq Launched
ASSUME ModeAssumption == {IOFaults, FreshRelaunch, UniqueIds} \subseteq BOOLEAN

VARIABLES log,          \* the records in the file
          kept,         \* how many of them an fsync has covered
          seq, broken,  \* EventLog.seq; the bufio.Writer's sticky error
          pc,           \* where Run is: see Stage
          cfg,          \* the launch
          turnsThisRun, turnNumber, totalTokens, toolInvocations,
          messages, runID,
          llmModel,     \* a.llm.Model
          rd, tail,     \* scanTail: next line to read, high-water marks so far
          calls,        \* tool calls of this turn still to dispatch
          outcome,      \* what the tool just invoked returned
          reason,       \* why the run is terminating
          runs,         \* processes started so far; also names fresh runIDs
          effects       \* history: the tool invocations, as the position of
                        \* the intent each was made under

logVars  == <<log, kept, seq, broken>>
turnVars == <<turnsThisRun, turnNumber, totalTokens, toolInvocations>>
convVars == <<messages, calls, outcome>>
idVars   == <<cfg, runID, llmModel>>
scanVars == <<rd, tail>>
history  == <<runs, effects>>
vars == <<logVars, pc, turnVars, convVars, idVars, scanVars, reason, history>>

Stage == {"down", "load", "scan", "start", "top", "call", "answer", "dispatch",
          "reject", "invoke", "record", "end"}

NoLaunch == [resume |-> FALSE, goal |-> "", model |-> "", turns |-> 0,
             tokens |-> 0, tools |-> 0, compaction |-> "window"]
NoTail == [seq |-> 0, turn |-> 0]

Init == /\ log = <<>> /\ kept = 0 /\ seq = 0 /\ broken = FALSE
        /\ pc = "down" /\ cfg = NoLaunch
        /\ turnsThisRun = 0 /\ turnNumber = 0
        /\ totalTokens = 0 /\ toolInvocations = 0
        /\ messages = <<>> /\ runID = 0 /\ llmModel = ""
        /\ rd = 1 /\ tail = NoTail
        /\ calls = <<>> /\ outcome = "" /\ reason = ""
        /\ runs = 0 /\ effects = <<>>

(* The process is gone and everything it held in memory with it.             *)
Exit == /\ pc' = "down" /\ cfg' = NoLaunch /\ seq' = 0 /\ broken' = FALSE
        /\ turnsThisRun' = 0 /\ turnNumber' = 0
        /\ totalTokens' = 0 /\ toolInvocations' = 0
        /\ messages' = <<>> /\ runID' = 0 /\ llmModel' = ""
        /\ rd' = 1 /\ tail' = NoTail
        /\ calls' = <<>> /\ outcome' = "" /\ reason' = ""
        /\ UNCHANGED history

-----------------------------------------------------------------------------
(* EventLog.Append. The next number is spent whatever happens.               *)
NextEvent(kind, payload) == Event(seq + 1, kind, payload)

(* Mutant: no f.Sync.                                                        *)
AppendedUnsynced(kind, payload) ==
  /\ ~broken
  /\ log' = Append(log, NextEvent(kind, payload))
  /\ seq' = seq + 1
  /\ UNCHANGED <<kept, broken>>

Appended(kind, payload) ==
  /\ ~broken
  /\ log' = Append(log, NextEvent(kind, payload))
  /\ kept' = Len(log')
  /\ seq' = seq + 1
  /\ UNCHANGED broken

(* json.Marshal fails.                                                       *)
Unmarshalable == seq' = seq + 1 /\ UNCHANGED <<log, kept, broken>>

(* Mutant: the writer works again after an error.                            *)
WriteFailedOnce == IOFaults /\ Unmarshalable

(* The write fails, for this append and all later ones of the process.       *)
WriteFailed == /\ IOFaults
               /\ seq' = seq + 1
               /\ broken' = TRUE
               /\ UNCHANGED <<log, kept>>

(* The line is in the file and fsync reported an error.                      *)
SyncFailed(kind, payload) ==
  /\ IOFaults
  /\ ~broken
  /\ log' = Append(log, NextEvent(kind, payload))
  /\ seq' = seq + 1
  /\ UNCHANGED <<kept, broken>>

(* An append whose error the caller drops ("_, _ ="), and how the log stands *)
(* when a caller that checks it returns.                                     *)
AppendIgnored(kind, payload) == \/ Appended(kind, payload)
                                \/ WriteFailed
                                \/ SyncFailed(kind, payload)

LeftByFailure(kind, payload) ==
  \/ IOFaults /\ UNCHANGED <<log, kept>>
  \/ /\ IOFaults /\ ~broken
     /\ log' = Append(log, NextEvent(kind, payload)) /\ UNCHANGED kept

(* A checked append: the process exits ("log_error", or "dispatch_error"     *)
(* from dispatchToolCalls) without a run_end.                                *)
AppendError(kind, payload) == LeftByFailure(kind, payload) /\ Exit

-----------------------------------------------------------------------------
(* main.run and bootstrap. LoadConfig wants a goal unless it resumes.        *)
SystemPrompt == Message("system", "prompt")

Launch == /\ pc = "down"
          /\ runs < MaxRuns
          /\ \E l \in Launches :
               /\ l.resume \/ l.goal # ""
               /\ l.resume \/ FreshRelaunch \/ log = <<>>
               /\ cfg' = l
               /\ llmModel' = l.model
               /\ IF l.resume
                    THEN pc' = "load" /\ UNCHANGED messages
                    ELSE /\ pc' = "start"
                         /\ messages' = <<SystemPrompt, Message("user", l.goal)>>
          /\ runs' = runs + 1
          /\ runID' = runs + 1
          /\ UNCHANGED <<logVars, turnVars, calls, outcome, scanVars, reason, effects>>

Rebuilt(lt) ==
  <<SystemPrompt, Message("user", IF lt.goal # "" THEN lt.goal ELSE cfg.goal)>>
    \o lt.messages

Load == /\ pc = "load"
        /\ ~ScanErr(log)
        /\ LET lt == LoadTranscript(Scanned(log))
           IN  /\ messages' = Rebuilt(lt)
               /\ llmModel' = IF lt.model # "" THEN lt.model ELSE llmModel
               /\ runID' = IF lt.run # 0 THEN lt.run ELSE runID
        /\ pc' = "scan"
        /\ UNCHANGED <<logVars, turnVars, cfg, calls, outcome, scanVars, reason, history>>

(* What one line of scanTail does to the high-water marks.                   *)
(* Mutant: only closed turns count as taken.                                 *)
HighTurnClosed(e) == IF e.kind = "turn_end" /\ e.payload.turn > tail.turn
                       THEN e.payload.turn ELSE tail.turn

HighTurn(e) == IF /\ e.kind \in {"turn", "turn_end", "llm"}
                  /\ e.payload.turn > tail.turn
                 THEN e.payload.turn ELSE tail.turn

(* Mutant: operational notes are skipped as if they had no number.           *)
HighSeqNoLog(e) == IF e.kind # "run_end" /\ e.seq > tail.seq
                     THEN e.seq ELSE tail.seq

HighSeq(e) == IF e.seq > tail.seq THEN e.seq ELSE tail.seq

(* Mutant: the scan does not advance past a record.                          *)
ScanLineStuck == /\ pc = "scan"
                 /\ rd <= Len(Scanned(log))
                 /\ tail' = [seq |-> HighSeq(log[rd]), turn |-> HighTurn(log[rd])]
                 /\ UNCHANGED <<logVars, pc, turnVars, convVars, idVars, rd,
                                reason, history>>

ScanLine == /\ pc = "scan"
            /\ rd <= Len(Scanned(log))
            /\ tail' = [seq |-> HighSeq(log[rd]), turn |-> HighTurn(log[rd])]
            /\ rd' = rd + 1
            /\ UNCHANGED <<logVars, pc, turnVars, convVars, idVars, reason, history>>

(* Mutant: a resumed process dispatches the calls the log has no result for. *)
ScanDoneReplays ==
  /\ pc = "scan"
  /\ rd > Len(Scanned(log))
  /\ seq' = tail.seq
  /\ turnNumber' = tail.turn
  /\ LET lt == LoadTranscript(log)
         asked == UNION {ToSet(m.calls) : m \in ToSet(lt.messages)}
     IN  calls' = SetToSeq({c \in asked : c.id \notin lt.seen})
  /\ pc' = IF calls' = <<>> THEN "start" ELSE "dispatch"
  /\ UNCHANGED <<log, kept, broken, turnsThisRun, totalTokens, toolInvocations,
                 messages, outcome, idVars, scanVars, reason, history>>

ScanDone == /\ pc = "scan"
            /\ rd > Len(Scanned(log)) /\ ~ScanErr(log)
            /\ seq' = tail.seq
            /\ turnNumber' = tail.turn
            /\ pc' = "start"
            /\ UNCHANGED <<log, kept, broken, turnsThisRun, totalTokens,
                           toolInvocations, convVars, idVars, scanVars, reason,
                           history>>

(* The log cannot be opened for reading or holds a line the scanner cannot   *)
(* buffer: bootstrap_error.                                                  *)
BootstrapFail == /\ pc \in {"load", "scan"}
                 /\ IOFaults \/ ScanErr(log)
                 /\ Exit
                 /\ UNCHANGED <<log, kept>>

RunStart == /\ pc = "start"
            /\ LET p == RunStartPayload(runID, cfg) IN
                 \/ /\ Appended("run_start", p)
                    /\ pc' = "top"
                    /\ UNCHANGED <<turnVars, convVars, idVars, scanVars, reason, history>>
                 \/ AppendError("run_start", p)

-----------------------------------------------------------------------------
(* The top of the loop: the limits in the order Run tests them.              *)
(* Mutant: off by one.                                                       *)
MoreTurnsLate == turnsThisRun <= cfg.turns

(* Mutant: one counter for the budget and the identity of turns.             *)
MoreTurnsEver == turnNumber < cfg.turns

(* Mutant: the limit is tested against the turns taken.                      *)
OverTokensByTurn == cfg.tokens > 0 /\ turnsThisRun > cfg.tokens

(* Mutant: the limit is tested against the turns taken.                      *)
OverToolsByTurn == cfg.tools > 0 /\ turnsThisRun > cfg.tools

MoreTurns   == turnsThisRun < cfg.turns
OverTokens  == cfg.tokens > 0 /\ totalTokens > cfg.tokens
OverTools   == cfg.tools > 0 /\ toolInvocations > cfg.tools

Stop(why) == /\ pc = "top"
             /\ pc' = "end"
             /\ reason' = why
             /\ UNCHANGED <<logVars, turnVars, convVars, idVars, scanVars, history>>

StopTurns == ~MoreTurns /\ Stop("max_turns")

(* The wall clock may have expired at any time.                              *)
StopWallClock == MoreTurns /\ Stop("max_wall_clock")

StopTokens == MoreTurns /\ OverTokens /\ Stop("max_total_tokens")

StopTools == /\ MoreTurns /\ ~OverTokens /\ OverTools
             /\ Stop("max_tool_invocations")

(* Mutant: off by one.                                                       *)
ShouldCompactLate(msgs) == Len(msgs) > CompactAt + 1

ShouldCompact(msgs) == IF cfg.tokens > 0
                         THEN EstimateTokens(msgs) > (cfg.tokens * 8) \div 10
                         ELSE Len(msgs) > CompactAt

(* llmCompact asks the endpoint and degrades to the placeholder on an error. *)
Summaries == IF cfg.compaction = "llm"
               THEN {ModelSummary, WindowSummary} ELSE {WindowSummary}

BeginTurn ==
  /\ pc = "top"
  /\ MoreTurns /\ ~OverTokens /\ ~OverTools
  /\ LET p == TurnPayload(turnNumber + 1) IN
       \/ /\ Appended("turn", p)
          /\ turnsThisRun' = turnsThisRun + 1
          /\ turnNumber' = turnNumber + 1
          /\ messages' \in IF ShouldCompact(messages)
                             THEN {Compact(messages, s) : s \in Summaries}
                             ELSE {messages}
          /\ pc' = "call"
          /\ UNCHANGED <<totalTokens, toolInvocations, calls, outcome, idVars,
                         scanVars, reason, history>>
       \/ AppendError("turn", p)

-----------------------------------------------------------------------------
(* callLLM. The request names cfg.Model.                                     *)
RequestModel == cfg.model

(* An id the endpoint gives the i-th call of a completion.                   *)
CallId(i) == IF UniqueIds THEN <<turnNumber, i>> ELSE <<0, i>>

Completion(r) ==
  Assistant(r.content,
            [i \in 1..Len(r.calls) |-> [id |-> CallId(i), tool |-> r.calls[i].tool,
                                        args |-> r.calls[i].args]])

CallLLM ==
  /\ pc = "call"
  /\ \E r \in Responses :
       LET p == LLMPayload(turnNumber, r.tokens, Completion(r)) IN
         \/ /\ Appended("llm", p)
            /\ messages' = Append(messages, Completion(r))
            /\ totalTokens' = totalTokens + r.tokens
            /\ calls' = Completion(r).calls
            /\ pc' = IF r.calls = <<>> THEN "answer" ELSE "dispatch"
            /\ UNCHANGED <<turnsThisRun, turnNumber, toolInvocations, outcome,
                           idVars, scanVars, reason, history>>
         \/ AppendError("llm", p)

LLMFail == /\ pc = "call"
           /\ AppendIgnored("log", LogPayload("error"))
           /\ reason' = "llm_error"
           /\ pc' = "end"
           /\ UNCHANGED <<turnVars, convVars, idVars, scanVars, history>>

(* The answer is quoted with %q, which is JSON unless the text has control   *)
(* characters JSON does not know the escape of.                              *)
Answer ==
  /\ pc = "answer"
  /\ IF messages[Len(messages)].content = "control characters"
       THEN Exit /\ UNCHANGED <<log, kept>>
       ELSE \/ /\ Appended("finish", FinishPayload)
               /\ reason' = "answered"
               /\ pc' = "end"
               /\ UNCHANGED <<turnVars, convVars, idVars, scanVars, history>>
            \/ AppendError("finish", FinishPayload)

-----------------------------------------------------------------------------
(* dispatchToolCalls, on the first call not yet dispatched.                  *)
(* Mutant: the key leaves the attempt out.                                   *)
KeyWithoutAttempt(id, attempt) == <<runID, id>>

Key(id, attempt) == <<runID, id, attempt>>

Builtin == {"shell", "tool_list", "finish"}
Known(c) == c.tool \in Builtin
Valid(c) == c.args = "valid"

(* Mutant: only calls that were invoked are recorded.                        *)
RecordToolInvoked(c, attempt, status, out, err) ==
  IF err # "" THEN UNCHANGED logVars
  ELSE AppendIgnored("tool", ToolPayload(c.id, Key(c.id, attempt), status, out, err))

(* recordTool, with the invocation counter as it stands when it is called.   *)
(* Arguments that are not JSON make the payload unmarshalable.               *)
RecordTool(c, attempt, status, out, err) ==
  IF c.args = "malformed" THEN Unmarshalable
  ELSE AppendIgnored("tool", ToolPayload(c.id, Key(c.id, attempt), status, out, err))

Reply(c, content) == /\ messages' = Append(messages, ToolMessage(c.id, content))
                     /\ calls' = Tail(calls)

DispatchUnknown ==
  /\ pc = "dispatch"
  /\ calls # <<>>
  /\ LET c == Head(calls) IN
       /\ ~Known(c)
       /\ RecordTool(c, toolInvocations + 1, "error", "", "unknown tool")
       /\ Reply(c, "unknown tool")
  /\ toolInvocations' = toolInvocations + 1
  /\ UNCHANGED <<pc, turnsThisRun, turnNumber, totalTokens, outcome, idVars,
                 scanVars, reason, history>>

(* validateValue finds fault: a warning first, then the record of the call.  *)
DispatchInvalid ==
  /\ pc = "dispatch"
  /\ calls # <<>>
  /\ Known(Head(calls)) /\ ~Valid(Head(calls))
  /\ toolInvocations' = toolInvocations + 1
  /\ AppendIgnored("log", LogPayload("warn"))
  /\ pc' = "reject"
  /\ UNCHANGED <<turnsThisRun, turnNumber, totalTokens, convVars, idVars,
                 scanVars, reason, history>>

RecordInvalid ==
  /\ pc = "reject"
  /\ RecordTool(Head(calls), toolInvocations, "invalid", "", "invalid arguments")
  /\ Reply(Head(calls), "invalid arguments")
  /\ pc' = "dispatch"
  /\ UNCHANGED <<turnVars, outcome, idVars, scanVars, reason, history>>

Intent ==
  /\ pc = "dispatch"
  /\ calls # <<>>
  /\ Known(Head(calls)) /\ Valid(Head(calls))
  /\ LET c == Head(calls)
         p == ToolPayload(c.id, Key(c.id, toolInvocations), "intent", "", "")
     IN  \/ /\ Appended("tool", p)
            /\ pc' = "invoke"
            /\ UNCHANGED <<turnVars, convVars, idVars, scanVars, reason, history>>
         \/ AppendError("tool", p)

(* What tool.Invoke comes to, by tool. A command that is denied, fails or    *)
(* was no command is an error all the same, and nothing bounds the output of *)
(* one that succeeds. finish has only one: see Harness, FinishNeverRefused.    *)
Outcomes(tool) == CASE tool = "shell"     -> {"ok", "huge", "failed"}
                    [] tool = "tool_list" -> {"ok"}
                    [] tool = "finish"    -> {"finished"}

Invoke == /\ pc = "invoke"
          /\ outcome' \in Outcomes(Head(calls).tool)
          /\ toolInvocations' = toolInvocations + 1
          /\ effects' = Append(effects, Len(log))
          /\ pc' = "record"
          /\ UNCHANGED <<logVars, turnsThisRun, turnNumber, totalTokens, messages,
                         calls, idVars, scanVars, reason, runs>>

Status(result) == IF result = "failed" THEN "error" ELSE "ok"

Result ==
  /\ pc = "record"
  /\ outcome # "finished"
  /\ RecordTool(Head(calls), toolInvocations, Status(outcome), outcome, "")
  /\ Reply(Head(calls), outcome)
  /\ outcome' = ""
  /\ pc' = "dispatch"
  /\ UNCHANGED <<turnVars, idVars, scanVars, reason, history>>

Finish ==
  /\ pc = "record"
  /\ outcome = "finished"
  /\ \/ /\ Appended("finish", FinishPayload)
        /\ reason' = "finished"
        /\ pc' = "end"
        /\ UNCHANGED <<turnVars, convVars, idVars, scanVars, history>>
     \/ AppendError("finish", FinishPayload)

(* Mutant: the marker names the turn by the budget counter.                  *)
TurnEndByBudget ==
  /\ pc = "dispatch"
  /\ calls = <<>>
  /\ Appended("turn_end", TurnPayload(turnsThisRun))
  /\ pc' = "top"
  /\ UNCHANGED <<turnVars, convVars, idVars, scanVars, reason, history>>

TurnEnd ==
  /\ pc = "dispatch"
  /\ calls = <<>>
  /\ \/ /\ Appended("turn_end", TurnPayload(turnNumber))
        /\ pc' = "top"
        /\ UNCHANGED <<turnVars, convVars, idVars, scanVars, reason, history>>
     \/ AppendError("turn_end", TurnPayload(turnNumber))

(* Mutant: the caller does not return after terminate.                       *)
EndGoesOn == /\ pc = "end"
             /\ Appended("run_end", RunEndPayload(reason))
             /\ pc' = "top"
             /\ UNCHANGED <<turnVars, convVars, idVars, scanVars, reason, history>>

(* terminate: run_end is tried and the process returns either way.           *)
End ==
  /\ pc = "end"
  /\ LET p == RunEndPayload(reason) IN
       \/ ~broken /\ log' = Append(log, NextEvent("run_end", p)) /\ kept' = Len(log')
       \/ LeftByFailure("run_end", p)
  /\ Exit

(* The process is killed or the machine stops; records never synced may go.  *)
Crash == /\ pc # "down" \/ kept < Len(log)
         /\ \E n \in kept..Len(log) : log' = SubSeq(log, 1, n)
         /\ UNCHANGED kept
         /\ Exit

Next == \/ Launch \/ Load \/ ScanLine \/ ScanDone \/ BootstrapFail \/ RunStart
        \/ StopTurns \/ StopWallClock \/ StopTokens \/ StopTools \/ BeginTurn
        \/ CallLLM \/ LLMFail \/ Answer
        \/ DispatchUnknown \/ DispatchInvalid \/ RecordInvalid
        \/ Intent \/ Invoke \/ Result \/ Finish \/ TurnEnd \/ End \/ Crash

Spec == Init /\ [][Next]_vars
=============================================================================
