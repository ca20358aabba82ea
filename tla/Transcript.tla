----------------------------- MODULE Transcript -----------------------------
(* The conversation and the records it is rebuilt from: the messages of      *)
(* openai.go, the payloads of events.go and LoadTranscript. Text is a name    *)
(* for its kind ("" where the code leaves a field empty); ids are opaque.    *)
EXTENDS Naturals, Sequences, SequencesExt

(* The texts the code supplies itself are spelled out: that a literal is a   *)
(* STRING is not known to the provers.                                       *)
Texts == STRING \cup {"", "prompt", "placeholder", "model summary", "unknown tool",
                     "invalid arguments", "output and error", "ok", "huge", "failed"}

Message(role, content) ==
  [role |-> role, content |-> content, calls |-> <<>>, id |-> <<>>]

Assistant(content, calls) ==
  [role |-> "assistant", content |-> content, calls |-> calls, id |-> <<>>]

ToolMessage(id, content) ==
  [role |-> "tool", content |-> content, calls |-> <<>>, id |-> id]

Event(seq, kind, payload) == [seq |-> seq, kind |-> kind, payload |-> payload]

(* The payload of each kind of event.                                        *)
RunStartPayload(run, cfg) == [run |-> run, goal |-> cfg.goal, model |-> cfg.model,
                              config |-> cfg]
TurnPayload(turn) == [turn |-> turn]
LLMPayload(turn, tokens, msg) == [turn |-> turn, tokens |-> tokens, msg |-> msg]
ToolPayload(id, key, status, out, err) ==
  [id |-> id, key |-> key, status |-> status, out |-> out, err |-> err]
FinishPayload == [valid |-> TRUE]
RunEndPayload(reason) == [reason |-> reason]
LogPayload(level) == [level |-> level]

Terminal(e) == /\ e.kind = "tool"
               /\ e.payload.status \in {"ok", "error", "invalid", "denied"}

-----------------------------------------------------------------------------
(* The text of the tool message a terminal record stands for.                *)
Content(p) == IF p.status = "ok" \/ p.err = "" THEN p.out
              ELSE IF p.out = "" THEN p.err
              ELSE "output and error"

EmptyTranscript == [run |-> 0, goal |-> "", model |-> "",
                    messages |-> <<>>, seen |-> {}]

(* One turn of LoadTranscript's loop. The last run_start wins, and a call id *)
(* that already produced a tool message produces no second one.              *)
LoadEvent(lt, e) ==
  CASE e.kind = "run_start" ->
         [lt EXCEPT !.run = e.payload.run, !.goal = e.payload.goal,
                    !.model = e.payload.model]
    [] e.kind = "llm" ->
         [lt EXCEPT !.messages = Append(@, e.payload.msg)]
    [] Terminal(e) /\ e.payload.id \notin lt.seen ->
         [lt EXCEPT !.messages =
                      Append(@, ToolMessage(e.payload.id, Content(e.payload))),
                    !.seen = @ \cup {e.payload.id}]
    [] OTHER -> lt

LoadTranscript(log) ==
  LET lt[n \in 0..Len(log)] == IF n = 0 THEN EmptyTranscript
                               ELSE LoadEvent(lt[n - 1], log[n])
  IN  lt[Len(log)]

-----------------------------------------------------------------------------
(* The scanner under LoadTranscript and scanTail buffers lines of at most    *)
(* 8 MB, which a record with the output of a command may exceed. It stops    *)
(* before such a line and reports it.                                        *)
TooLong(e) == e.kind = "tool" /\ e.payload.out = "huge"

Scanned(log) == LET k == SelectInSeq(log, TooLong)
                IN  IF k = 0 THEN log ELSE SubSeq(log, 1, k - 1)

(* Mutant: sc.Err is not looked at.                                          *)
ScanErrIgnored(log) == FALSE

ScanErr(log) == Len(Scanned(log)) < Len(log)

-----------------------------------------------------------------------------
(* compaction.go. A summary is one system message.                           *)
WindowSummary == Message("system", "placeholder")
ModelSummary  == Message("system", "model summary")

(* estimateTokens: a text counts by its length, so none when it is empty; a  *)
(* call has a name at least. Every other text is one unit here.              *)
EstimateTokens(msgs) ==
  LET n[k \in 0..Len(msgs)] ==
        IF k = 0 THEN 0
        ELSE n[k - 1] + Len(msgs[k].calls) + (IF msgs[k].content = "" THEN 0 ELSE 1)
  IN  n[Len(msgs)]

(* The strategies share the windowing and differ in the summary.             *)
(* Mutant: the pinned prefix is the system prompt alone.                     *)
CompactWithoutGoal(msgs, summary) ==
  IF Len(msgs) <= 6 THEN msgs
  ELSE SubSeq(msgs, 1, 1) \o <<summary>> \o SubSeq(msgs, Len(msgs) - 4, Len(msgs))

(* Mutant: the summary is put behind the messages it precedes.               *)
CompactSummaryLast(msgs, summary) ==
  IF Len(msgs) <= 6 THEN msgs
  ELSE SubSeq(msgs, 1, 2) \o SubSeq(msgs, Len(msgs) - 3, Len(msgs)) \o <<summary>>

Compact(msgs, summary) ==
  IF Len(msgs) <= 6 THEN msgs
  ELSE SubSeq(msgs, 1, 2) \o <<summary>> \o SubSeq(msgs, Len(msgs) - 3, Len(msgs))
=============================================================================
