------------------------------- MODULE Harness ------------------------------
(* The parts put together: main.run takes the configuration, the allow-list  *)
(* and the output schema from the environment and opens the log; then the    *)
(* model's tool calls are validated and dispatched to the three built-in     *)
(* tools, shell running its line in Shell. Agent has the loop around them,   *)
(* with the log; here a call is followed to what the model is told of it.    *)
EXTENDS Shell, Validate, Config

CONSTANTS Envs,           \* environments it is started in
          Calls,          \* tool calls the model may make: [tool, args]
          MaxCalls        \* bound: calls of one run

VARIABLES env, at,        \* the environment; where run or the dispatch is
          cfg, outputSchema, prompt,
          runStart,       \* what run_start records
          call, answer,   \* the last call dispatched, and what it came to
          calls,          \* calls dispatched so far
          output          \* finishOutput

launched == <<env, cfg, outputSchema, prompt, runStart>>
dispatch == <<call, answer, calls, output>>
vars == <<launched, at, dispatch, shellVars>>

Stages == {"config", "grants", "schema", "open", "turn", "shell", "finished",
           "exit 1", "exit 2"}

NoCall == [tool |-> "", args |-> NotJSON]
Answer(kind, isErr) == [kind |-> kind, isErr |-> isErr, list |-> <<>>]

Init == /\ env \in Envs
        /\ at = "config"
        /\ cfg = LoadConfig(env) /\ outputSchema = <<>>
        /\ prompt = <<>> /\ runStart = <<>>
        /\ call = NoCall /\ answer = Answer("", FALSE) /\ calls = 0
        /\ output = NotJSON
        /\ ShellInit(NewAllowlist, DefaultShellExecTimeout)

-----------------------------------------------------------------------------
(* main and run, up to the first turn.                                       *)
Configure == /\ at = "config"
             /\ at' = IF cfg.err THEN "exit 2" ELSE "grants"
             /\ UNCHANGED <<launched, dispatch, shellVars>>

(* A file wins over the list of names; with neither nothing may be spawned.  *)
loadAllowlist(c) == CASE c.allowlistPath.form # "" -> LoadAllowlist(c.allowlistPath)
                      [] c.allowlistPath.form = "" -> Loaded(AllowlistFromNames(c.allowCSV))

LoadGrants ==
  /\ at = "grants"
  /\ LET loaded == loadAllowlist(cfg)
     IN  /\ allow' = loaded.value
         /\ at' = IF loaded.err THEN "exit 1" ELSE "schema"
  /\ UNCHANGED <<launched, dispatch, execTimeout, line, stage, interp, result,
                 started, killed>>

(* A file without a byte in it is no schema.                                 *)
loadOutputSchema ==
  /\ at = "schema"
  /\ outputSchema' = IF cfg.outputSchemaPath.form = "schema"
                       THEN <<cfg.outputSchemaPath.schema>> ELSE <<>>
  /\ at' = IF cfg.outputSchemaPath.form \in {"missing", "garbage"} THEN "exit 1" ELSE "open"
  /\ UNCHANGED <<env, cfg, prompt, runStart, dispatch, shellVars>>

OpenFails == /\ at = "open"
             /\ at' = "exit 1"
             /\ UNCHANGED <<launched, dispatch, shellVars>>

(* The log is open: NewShell, NewAgent and the run's first record.           *)
Start == /\ at = "open"
         /\ execTimeout' = cfg.shellExecTimeout
         /\ prompt' = SystemPrompt(cfg)
         /\ runStart' = <<[commands |-> ToSet(allow.order), config |-> summary(cfg)]>>
         /\ at' = "turn"
         /\ UNCHANGED <<env, cfg, outputSchema, dispatch, allow, line, stage, interp,
                        result, started, killed>>

-----------------------------------------------------------------------------
(* The tools' parameter schemas. finish embeds the output schema.            *)
Optional(s) == <<s>>

ShellParams == [Typed("object") EXCEPT !.properties = [command |-> Optional(Typed("string"))],
                                       !.required = {"command"}, !.closed = TRUE]
ListParams == Typed("object")

(* Mutant: whatever is an output will do.                                    *)
FinishParamsAny(schema) ==
  [Typed("object") EXCEPT !.properties = [output |-> <<>>],
                          !.required = {"output"}, !.closed = TRUE]

FinishParams(schema) ==
  [Typed("object") EXCEPT
     !.properties = [output |-> Optional(IF schema = <<>> THEN Typed("string") ELSE schema[1])],
     !.required = {"output"}, !.closed = TRUE]

(* What the program is started with and the model may send: the files and    *)
(* the values there are, schemas among the schemas, and lines by their name. *)
FileForms == {"", "missing", "empty", "garbage", "other object", "array", "object"}

ASSUME EnvAssumption ==
  \A e \in Envs :
    /\ e.allowlist.form \in FileForms
    /\ e.allowlist.entries \in Seq(EntryType) /\ e.allow \in Seq(Names)
    /\ e.shellTimeout.n \in Int
    /\ e.outputSchema.form = "schema" => FinishParams(<<e.outputSchema.schema>>) \in Schemas

ASSUME ToolAssumption == {ShellParams, ListParams, FinishParams(<<>>)} \subseteq Schemas

ASSUME CallAssumption ==
  /\ MaxCalls \in Nat
  /\ \A c \in Calls :
       /\ c.args \in Values \cup {NotJSON}
       /\ c.tool = "shell" /\ c.args.t = "object" =>
            \A v \in Parts(c.args) : v.t = "string" => v.s \in DOMAIN Lines \cup {""}

Params(tool) == CASE tool = "shell"     -> ShellParams
                  [] tool = "tool_list" -> ListParams
                  [] tool = "finish"    -> FinishParams(outputSchema)

Tools == {"shell", "tool_list", "finish"}

Dispatched(c) == /\ at = "turn"
                 /\ calls < MaxCalls
                 /\ calls' = calls + 1
                 /\ call' = c

Accepted(c) == c.tool \in Tools /\ validateRaw(Params(c.tool), c.args) = {}

(* An unknown tool, or arguments its schema refuses: nothing is invoked.     *)
Reject(c) == /\ Dispatched(c)
             /\ \/ c.tool \notin Tools /\ answer' = Answer("unknown tool", TRUE)
                \/ /\ c.tool \in Tools
                   /\ validateRaw(Params(c.tool), c.args) # {}
                   /\ answer' = Answer("invalid arguments", TRUE)
             /\ UNCHANGED <<launched, at, output, shellVars>>

ToolList(c) ==
  /\ Dispatched(c)
  /\ c.tool = "tool_list" /\ Accepted(c)
  /\ answer' = [kind |-> "list", isErr |-> FALSE, list |-> Entries(allow)]
  /\ UNCHANGED <<launched, at, output, shellVars>>

(* The output is validated once more, by itself.                             *)
Finish(c) ==
  /\ Dispatched(c)
  /\ c.tool = "finish" /\ Accepted(c)
  /\ LET out == c.args.m["output"]
         bad == outputSchema # <<>> /\ validateRaw(outputSchema[1], out) # {}
     IN  /\ answer' = IF bad THEN Answer("output does not match", TRUE)
                             ELSE Answer("finished", FALSE)
         /\ output' = IF bad THEN output ELSE out
         /\ at' = IF bad THEN at ELSE "finished"
  /\ UNCHANGED <<launched, shellVars>>

Command(c) == c.args.m["command"].s

ShellEmpty(c) ==
  /\ Dispatched(c)
  /\ c.tool = "shell" /\ Accepted(c)
  /\ Command(c) = ""
  /\ answer' = Answer("empty command", TRUE)
  /\ UNCHANGED <<launched, at, output, shellVars>>

ShellRun(c) ==
  /\ Dispatched(c)
  /\ c.tool = "shell" /\ Accepted(c)
  /\ Command(c) # ""
  /\ Refuse(Command(c)) \/ NoInterpreter(Command(c)) \/ Execute(Command(c))
  /\ at' = "shell"
  /\ answer' = Answer("", FALSE)
  /\ UNCHANGED <<launched, output>>

InShell == at = "shell" /\ ShellStep /\ UNCHANGED <<launched, at, dispatch>>

(* What the shell tool makes of what Run returned.                           *)
ShellAnswer(r) == CASE r.err          -> Answer("error", TRUE)
                    [] ~r.err /\ r.denied # "" -> Answer("denied", TRUE)
                    [] ~r.err /\ r.denied = "" /\ r.exit # 0 -> Answer("exit status", TRUE)
                    [] OTHER          -> Answer("output", FALSE)

ShellReturns == /\ at = "shell"
                /\ stage = "returned"
                /\ answer' = ShellAnswer(result)
                /\ stage' = "idle"
                /\ at' = "turn"
                /\ UNCHANGED <<launched, call, calls, output, settings, line, interp,
                               result, started, killed>>

Next == \/ Configure \/ LoadGrants \/ loadOutputSchema \/ OpenFails \/ Start
        \/ \E c \in Calls : Reject(c) \/ ToolList(c) \/ Finish(c) \/ ShellEmpty(c) \/ ShellRun(c)
        \/ InShell \/ ShellReturns

Spec == Init /\ [][Next]_vars

(* Time passes, the interpreter goes on, and a line that is past its         *)
(* deadline is cut. No command need ever end by itself.                      *)
FairSpec ==
  /\ Spec
  /\ WF_vars(at = "shell" /\ (Tick \/ Cut \/ StartPipeline \/ SkipPipeline \/ RunTrap \/ LineDone)
             /\ UNCHANGED <<launched, at, dispatch>>)
  /\ WF_vars(ShellReturns)
=============================================================================
