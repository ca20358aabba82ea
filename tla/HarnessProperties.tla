-------------------------- MODULE HarnessProperties -------------------------
(* What the harness promises of a launch and of a tool call, each stated     *)
(* from the environment it was started in and not from what was made of it.  *)
EXTENDS Harness

TypeOK == /\ at \in Stages
          /\ stage \in {"idle", "run", "returned"}
          /\ calls \in 0..MaxCalls
          /\ execTimeout \in Nat
          /\ execTimeout > 0 => clock \in 0..execTimeout
          /\ stage = "run" => pos \in 1..LastPos + 1
          /\ running # {} => running \subseteq DOMAIN Words

Running == at \in {"turn", "shell", "finished"}

-----------------------------------------------------------------------------
(* The entries the environment grants: those of the file, if one is named,   *)
(* be it an array or under "commands"; otherwise the names.                  *)
Configured == CASE env.allowlist.form = "" -> [i \in DOMAIN env.allow |-> Entry(env.allow[i], "")]
                [] env.allowlist.form \in {"array", "object"} -> env.allowlist.entries
                [] OTHER -> <<>>

GrantedNames == {e.name : e \in ToSet(Configured)}

(* Whatever lines the model sends, in whatever order, no word of a line ever *)
(* started a binary that the environment does not name or that bears the     *)
(* name of a builtin; and the list of names counts only when there is no     *)
(* file. Of the strings that traps run this says nothing.                    *)
GrantedOnly == spawned \subseteq GrantedNames \cup shellBuiltins

(* shell.go: the interpreter "only spawns the leaf binaries the allow-list   *)
(* admitted". The runs show that a trap's action starts what it likes.       *)
OnlyGrantedStarted == spawned \cup trapped \subseteq GrantedNames

(* tool_list shows what the environment grants: every name once, with the    *)
(* first entry of that name; run_start records the same names.               *)
FirstMentions(entries) ==
  {k \in DOMAIN entries : /\ entries[k].name # ""
                          /\ \A j \in 1..k - 1 : entries[j].name # entries[k].name}

ListShowsGrants ==
  answer.kind = "list" =>
    /\ Len(answer.list) = Cardinality(FirstMentions(Configured))
    /\ {Configured[k] : k \in FirstMentions(Configured)} \subseteq ToSet(answer.list)
    /\ runStart[1].commands = {e.name : e \in ToSet(answer.list)}

(* The prompt a run uses is the configured one, inline before file, never    *)
(* blanked by an empty value and never replaced by the default when its file *)
(* is missing; and run_start names the one used.                             *)
Wants(knob, default) == IF knob.inline # "" THEN knob.inline
                        ELSE IF knob.file \in {"", "empty"} THEN default ELSE knob.file

PromptTrue ==
  Running =>
    LET appended == Wants(env.appendSystemPrompt, "")
        source == runStart[1].config.systemPromptSource
    IN  /\ prompt[1] = Wants(env.systemPrompt, DefaultSystemPrompt)
        /\ Tail(prompt) = IF appended = "" THEN <<>> ELSE <<appended>>
        /\ source.base = "default" <=> Wants(env.systemPrompt, "") = ""
        /\ source.appended <=> Len(prompt) = 2

-----------------------------------------------------------------------------
(* A call of finish is accepted just when its output conforms to the schema  *)
(* the environment names, up to the two ways in which the validator is       *)
(* laxer than JSON Schema: nothing conforming is ever refused.               *)
RequiredOutput == IF env.outputSchema.form = "schema" THEN env.outputSchema.schema
                  ELSE Typed("string")

WellFormed(args) == args.t = "object" /\ DOMAIN args.m = {"output"}

FinishExact ==
  /\ answer.kind = "finished" =>
       /\ WellFormed(call.args)
       /\ \/ Conforms[<<RequiredOutput, output>>]
          \/ LaxSchema[RequiredOutput] \/ NullMember[output]
  /\ call.tool = "finish" /\ answer.kind = "invalid arguments" =>
       ~(WellFormed(call.args) /\ Conforms[<<RequiredOutput, call.args.m["output"]>>])

(* finish is not refused by its second check once the arguments passed the   *)
(* first, so that Agent may take every dispatched finish for the last call.  *)
FinishNeverRefused == answer.kind # "output does not match"

-----------------------------------------------------------------------------
(* The model is told of success only when the line ran to its end: no        *)
(* command was cut off, no pipeline left out but by its connective, and the  *)
(* last one succeeded.                                                       *)
SuccessMeansDone ==
  call.tool = "shell" /\ at = "turn" /\ answer.kind = "output" =>
    /\ Lines[line].parses
    /\ pos > LastPos
    /\ running = {} /\ killed = {}
    /\ status = 0

(* With a timeout every line comes back, though its commands hang.           *)
LineEnds == at = "shell" /\ execTimeout > 0 ~> at # "shell"
=============================================================================
