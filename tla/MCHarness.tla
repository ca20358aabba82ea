------------------------------ MODULE MCHarness -----------------------------
(* Instances of Harness for TLC: command lines, environments and tool calls. *)
EXTENDS HarnessProperties

With(word, nested) == [word |-> word, nested |-> nested, script |-> <<>>]
Cmd(word) == With(word, <<>>)
Trap(script) == [word |-> "trap", nested |-> <<>>, script |-> script]
Pipe(op, cmds) == [op |-> op, cmds |-> cmds]
Line(pipelines) == [parses |-> TRUE, pipelines |-> pipelines]

MCLines ==
  [list    |-> Line(<<Pipe(";", <<Cmd("ls")>>)>>),
   pipe    |-> Line(<<Pipe(";", <<Cmd("ls"), Cmd("wc")>>)>>),
   chain   |-> Line(<<Pipe(";", <<Cmd("cd")>>), Pipe("&&", <<Cmd("make")>>),
                      Pipe("||", <<Cmd("ls")>>)>>),
   late    |-> Line(<<Pipe(";", <<Cmd("ls"), Cmd("rm")>>)>>),
   subst   |-> Line(<<Pipe(";", <<Cmd("ls")>>), Pipe(";", <<With("echo", <<"arith", "subst">>)>>)>>),
   procs   |-> Line(<<Pipe(";", <<With("wc", <<"proc">>)>>)>>),
   dynamic |-> Line(<<Pipe(";", <<Cmd("echo")>>), Pipe(";", <<Cmd(Dynamic)>>)>>),
   evals   |-> Line(<<Pipe(";", <<Cmd("eval")>>)>>),
   trap    |-> Line(<<Pipe(";", <<Trap(<<"rm", "ls">>)>>), Pipe(";", <<Cmd("cd")>>)>>),
   kill    |-> Line(<<Pipe(";", <<Cmd("kill")>>)>>),
   arith   |-> Line(<<Pipe(";", <<Cmd("((")>>)>>),
   broken  |-> [parses |-> FALSE, pipelines |-> <<>>]]

(* An interpreter without a kill of its own.                                 *)
WithoutKill == shellBuiltins \ {"kill"}

-----------------------------------------------------------------------------
Unset == [text |-> "", n |-> 0]
Number(n) == [text |-> "number", n |-> n]
NoKnob == [inline |-> "", file |-> ""]
NoFile == [form |-> "", entries |-> <<>>]
NoSchema == [form |-> "", schema |-> AnySchema]

Base == [goal |-> "goal", arg |-> "", resume |-> "", stream |-> "", model |-> "",
         compaction |-> "", allowlist |-> NoFile, allow |-> <<>>,
         outputSchema |-> NoSchema, systemPrompt |-> NoKnob,
         appendSystemPrompt |-> NoKnob, maxTurns |-> Unset, maxTokens |-> Unset,
         maxTools |-> Unset, maxWallClock |-> Unset, shellTimeout |-> Number(1)]

GoalEnvs == {[Base EXCEPT !.goal = "", !.arg = a, !.resume = r] :
               a \in {"", "-h", "other goal"}, r \in {"", "0", "true"}}

Knobs == {[inline |-> i, file |-> f] : i \in {"", "inline"}, f \in {"", "missing", "empty", "text"}}
PromptEnvs == {[Base EXCEPT !.systemPrompt = k, !.appendSystemPrompt = l] : k, l \in Knobs}

File(form, entries) == [form |-> form, entries |-> entries]
Some == <<Entry("ls", "list"), Entry("", "nameless"), Entry("make", ""),
          Entry("ls", "other"), Entry("eval", "")>>
Files == {NoFile, File("missing", <<>>), File("empty", <<>>), File("garbage", <<>>),
          File("other object", <<Entry("ls", "list")>>),
          File("array", Some), File("object", <<Entry("wc", "count")>>)}

GrantEnvs == {[Base EXCEPT !.allowlist = f, !.allow = names, !.shellTimeout = t] :
                f \in Files, names \in {<<>>, <<"wc", "", "ls", "wc">>},
                t \in {Number(2), Number(0)}}

LimitEnvs == {[Base EXCEPT !.maxTurns = v] :
                v \in {Unset, Number(1), Number(-1), [text |-> "garbage", n |-> 0]}}

-----------------------------------------------------------------------------
Word == Str("word", 4)
Whole == Num(4)
Half == Num(3)
Wide == Num(2 * Int64 + 2)
One(k, v) == [x \in {k} |-> v]
Two(k, v, l, w) == [x \in {k, l} |-> IF x = k THEN v ELSE w]

Outputs == {Null, Bool(TRUE), Word, Str("w", 1), Whole, Half, Wide, Num(20),
           Arr(<<>>), Arr(<<Whole>>), Arr(<<Whole, Half>>), Arr(<<Word, Whole, Null>>),
           Obj(<<>>), Obj(One("a", Whole)), Obj(One("a", Null)), Obj(One("b", Word)),
           Obj(Two("a", Whole, "b", Word)), Obj(Two("a", Half, "b", Null)),
           Obj(One("a", Obj(One("b", Half))))}

Of(type, properties) == [Typed(type) EXCEPT !.properties = properties]
Ranged(type, lo, hi) == [Typed(type) EXCEPT !.minimum = <<lo>>, !.maximum = <<hi>>]

OutputSchemas ==
  {AnySchema} \cup {Typed(t) : t \in JSONTypes \cup {"integer", "unknown"}}
  \cup {Ranged("integer", 3, 10), Ranged("number", 4, 10), Ranged("", 4, 10),
        [Typed("string") EXCEPT !.minLength = 2, !.maxLength = 4],
        [Typed("string") EXCEPT !.maxLength = 3],
        [Typed("array") EXCEPT !.minItems = 1, !.maxItems = 2],
        [Typed("array") EXCEPT !.items = <<Typed("integer")>>],
        [Typed("object") EXCEPT !.required = {"a"}],
        [Of("object", One("a", <<Typed("integer")>>)) EXCEPT !.closed = TRUE],
        Of("object", One("a", <<Of("object", One("b", <<Typed("integer")>>))>>)),
        Of("object", Two("a", <<>>, "b", <<Typed("string")>>)),
        [AnySchema EXCEPT !.required = {"a"}],
        [AnySchema EXCEPT !.const = <<Obj(One("b", Word))>>],
        [Typed("object") EXCEPT !.enum = <<Obj(One("a", Whole)), Obj(<<>>)>>],
        [AnySchema EXCEPT !.enum = <<Arr(<<Whole, Half>>), Null, Word>>],
        [AnySchema EXCEPT !.items = <<Typed("string")>>]}

SchemaEnvs ==
  {[Base EXCEPT !.outputSchema = [form |-> "schema", schema |-> s]] : s \in OutputSchemas}
  \cup {[Base EXCEPT !.outputSchema = [form |-> f, schema |-> AnySchema]] :
          f \in {"missing", "garbage", "empty"}}

(* One group of settings varied at a time.                                   *)
MCEnvs == GoalEnvs \cup PromptEnvs \cup GrantEnvs \cup LimitEnvs \cup SchemaEnvs

-----------------------------------------------------------------------------
ToolCall(tool, args) == [tool |-> tool, args |-> args]
Args(k, v) == Obj(One(k, v))
ShellCalls == {ToolCall("shell", Args("command", Str(l, 5))) : l \in DOMAIN MCLines \cup {""}}
FinishCalls == {ToolCall("finish", Args("output", v)) : v \in Outputs}
OtherCalls == {ToolCall("other", Obj(<<>>)), ToolCall("tool_list", Obj(<<>>)),
               ToolCall("tool_list", NotJSON), ToolCall("shell", NotJSON),
               ToolCall("shell", Args("command", Whole)),
               ToolCall("shell", Obj(Two("command", Str("list", 4), "cwd", Str("", 0)))),
               ToolCall("finish", Obj(<<>>)), ToolCall("finish", Null),
               ToolCall("finish", Obj(Two("output", Word, "more", Word)))}

MCCalls == ShellCalls \cup FinishCalls \cup OtherCalls

-----------------------------------------------------------------------------
(* All the values and schemas there are, with their parts.                   *)
ArgumentValues == {c.args : c \in MCCalls} \ {NotJSON}
MCValues == Outputs \cup ArgumentValues \cup UNION {Parts(v) : v \in Outputs \cup ArgumentValues}

WholeSchemas == OutputSchemas \cup {ShellParams, ListParams}
                \cup {FinishParams(s) : s \in {<<>>} \cup {<<t>> : t \in OutputSchemas}}
MCSchemas == WholeSchemas \cup UNION {Subschemas(s) : s \in WholeSchemas}
                          \cup {Typed("integer"), Typed("string")}
=============================================================================
