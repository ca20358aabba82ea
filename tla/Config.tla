------------------------------- MODULE Config -------------------------------
(* config.go: what LoadConfig makes of the environment, and what run_start   *)
(* records of it. A variable that is unset is ""; the number in a variable   *)
(* is [text, n], text being "" or "garbage" when there is none.              *)
EXTENDS Integers, Sequences

DefaultMaxTurns == 16
DefaultMaxWallClock == 1800
DefaultShellExecTimeout == 60

(* strconv.Atoi, and the default for what it refuses or is negative.         *)
envInt(v, def) == IF v.text # "number" \/ v.n < 0 THEN def ELSE v.n

OrDefault(v, def) == IF v = "" THEN def ELSE v
Truthy(v) == v \in {"1", "true"}

(* A prompt knob is [inline, file], the file being "", "missing", "empty" or *)
(* the text in it.                                                           *)
Knob(text) == [err |-> FALSE, text |-> text]

(* Mutant: the file wins over the inline value.                              *)
readPromptKnobFileFirst(knob) ==
  CASE knob.file = "missing" -> [err |-> TRUE, text |-> ""]
    [] knob.file \notin {"", "missing", "empty"} -> Knob(knob.file)
    [] OTHER -> Knob(knob.inline)

(* Inline wins; a missing file is an error, an empty one leaves it unset.    *)
readPromptKnob(knob) ==
  CASE knob.inline # "" -> Knob(knob.inline)
    [] knob.inline = "" /\ knob.file = "missing" -> [err |-> TRUE, text |-> ""]
    [] knob.inline = "" /\ knob.file \in {"", "empty"} -> Knob("")
    [] OTHER -> Knob(knob.file)

(* A first argument takes the place of the goal, but for the help flags.     *)
Goal(env) == IF env.arg \notin {"", "-h", "--help"} THEN env.arg ELSE env.goal

LoadConfig(env) ==
  LET override == readPromptKnob(env.systemPrompt)
      appended == readPromptKnob(env.appendSystemPrompt)
      resume   == Truthy(env.resume)
  IN  [err |-> override.err \/ appended.err \/ (Goal(env) = "" /\ ~resume),
       goal |-> Goal(env), resume |-> resume, stream |-> Truthy(env.stream),
       model |-> OrDefault(env.model, "gpt-4o-mini"),
       compaction |-> env.compaction,
       allowlistPath |-> env.allowlist, allowCSV |-> env.allow,
       outputSchemaPath |-> env.outputSchema,
       systemPrompt |-> override.text, appendSystemPrompt |-> appended.text,
       maxTurns |-> envInt(env.maxTurns, DefaultMaxTurns),
       maxTotalTokens |-> envInt(env.maxTokens, 0),
       maxToolInvocations |-> envInt(env.maxTools, 0),
       maxWallClock |-> envInt(env.maxWallClock, DefaultMaxWallClock),
       shellExecTimeout |-> envInt(env.shellTimeout, DefaultShellExecTimeout)]

(* The system prompt NewAgent puts together, as the texts it consists of.    *)
DefaultSystemPrompt == "default system prompt"

SystemPrompt(cfg) ==
  <<OrDefault(cfg.systemPrompt, DefaultSystemPrompt)>>
    \o (IF cfg.appendSystemPrompt = "" THEN <<>> ELSE <<cfg.appendSystemPrompt>>)

promptSource(cfg) ==
  [base     |-> IF cfg.systemPrompt # "" THEN "override" ELSE "default",
   appended |-> cfg.appendSystemPrompt # ""]

(* configSummary, of which a zero is left out.                               *)
summary(cfg) ==
  [compaction |-> cfg.compaction, stream |-> cfg.stream,
   systemPromptSource |-> promptSource(cfg),
   maxTurns |-> cfg.maxTurns, maxTotalTokens |-> cfg.maxTotalTokens,
   maxToolInvocations |-> cfg.maxToolInvocations,
   maxWallClock |-> cfg.maxWallClock, shellExecTimeout |-> cfg.shellExecTimeout]
=============================================================================
