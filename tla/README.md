# Latigo: a verification project

Latigo is an agent harness: a Go program that holds a conversation with an
OpenAI-compatible endpoint, runs the tool calls the model asks for, and writes
everything to an append-only, fsynced event log from which a later process can
resume. This directory holds TLA+ modules for it, the TLC configurations that
check them on small instances, and proofs that TLAPS checks for every instance.
All line numbers are those of the repository's `src/`.

- [Inventory](#inventory)
- [Modules](#modules)
- [Runs](#runs)
- [Bounds](#bounds)
- [Fairness](#fairness)
- [Proofs](#proofs)
- [Where code and documentation disagree](#where-code-and-documentation-disagree)
- [What is left out](#what-is-left-out)
- [Plan](#plan)

## Inventory

The program is a single process with one goroutine of its own (the HTTP client
and the shell interpreter have others, which it waits for). What makes it hard
is not threads but time: a process may be killed between any two steps, the
next one knows only what the log holds, appends may fail in three ways and some
of their errors are dropped, and the endpoint may answer anything.

| Part | State | Operations | Correct when |
|---|---|---|---|
| **Event log writer** (`events.go`, `EventLog`) | the file, the buffered writer and its sticky error, `seq`, the cached tail | `OpenEventLog`, `scanTail`/`ResumeSeq`/`ResumeTurn`, `Append` (marshal, write, flush, fsync), `Close` | an acknowledged record survives and can be read; numbers only go up |
| **Transcript rebuild** (`events.go`, `LoadTranscript`) | a fold's accumulator: run id, goal, model, messages, ids seen | one step per readable line | it gives back the conversation the endpoint was sent |
| **Agent loop** (`agent.go`) | messages, run id, two turn counters, tokens, invocations | `bootstrap`, `Run`, `callLLM`, `dispatchToolCalls`, `recordTool`, `terminate` | nothing is acted on before it is recorded; no call runs twice; turn numbers never repeat; limits hold; it ends |
| **Compaction** (`compaction.go`) | none | `ShouldCompact`, `defaultCompact`, `llmCompact` | the transcript stays bounded and keeps its head |
| **Built-in tools** (`tools.go`) | `finishSet`, `finishOutput` | `shell`, `tool_list`, `finish` | a refused call has no effect |
| **LLM client** (`llm.go`) | the readSSE locals | `Call`, `CallStream`, `readSSE`, `degradeToCall` | the assembled message is the endpoint's; nothing is shown twice; a completion is charged |
| **Launch** (`main.go`, `config.go`) | the configuration | `LoadConfig`, `run` | a goal or a resume; the log is opened first |
| **Allow-listed shell** (`shell.go`) | none between calls; the interpreter's, within one | `Run`, `verify`, `execute` | only admissible lines are executed, under a deadline |
| **Allow-list** (`allowlist.go`) | entries, in order | `Add`, `Allowed`, `Entries`, the loaders | the first entry of a name wins |
| **Argument validation** (`validate.go`) | none | `validateValue`, `jsonEqual` | it accepts exactly the subset of JSON Schema it documents |
| **Wire types** (`openai.go`) | none | JSON encoding | - |

How they interact: `main.run` opens the log, then builds the agent with the
client, the shell and the allow-list; the loop calls the client and, through the
tools, the shell; every one of its steps goes through `EventLog.Append`; and the
next process's `bootstrap` reads the same file through `LoadTranscript` and
`scanTail`. The log is the only thing two processes share.

`PROJECT.json` lists the hazards of this code at the lines where they bite, with
the properties that cover each, or the reason why none does yet.

## Modules

```
   LogStore  <---implements---  EventLog  <-- EventLogProofs
      ^
      |implements
      |
  AgentProperties --> Agent --> Transcript        LLMClient <-- MCLLMClient
      ^       ^                                       ^
   MCAgent    |                                 LLMClientProofs --> InductionProofs
         AgentProofs --> InductionProofs
              ^
         AgentCallProofs <-- AgentConversationProofs

  MCHarness --> HarnessProperties --> Harness --> Shell --> Allowlist
                      ^                 |-------> Validate <-- ValidateProofs --> InductionProofs
                      |                 `-------> Config            ^
                HarnessProofs --------------------------------------'
```

Three machines share the work. EventLog has the file, Agent the loop with the log around
it, and Harness the path from the environment to the first turn and from a tool call to
what the model is told of it. What one of them takes for granted another one shows:
Agent takes an append for one step with the outcomes EventLog gives it, a command for
one step because `LineEnds` holds, `finish` for a call that cannot fail once dispatched
because `FinishNeverRefused` does, and a completion for one step because
`CompletionEnds` does.

**LogStore** is what the log promises, without files: a sequence of records of
which a prefix is guaranteed, growing by records numbered above all before
them, and losing only what was never guaranteed. It has four steps (`Commit`,
`Leave`, `Settle`, `Lose`). Both the writer and the agent are shown to implement
it, each under its own mapping, so the agent may rely on the log as LogStore
describes it.

**EventLog** is the writer at the level of bytes that matter: the file is a
sequence of tokens, a record (a whole JSON object), `Torn` (a proper prefix of
one) or `NL`. Readers split at newlines and skip what `json.Unmarshal` refuses,
so a record is *readable* when it is alone on its line. `Append` is four steps:
`Begin` (`seq++`), then `MarshalFail`, `Write`, `WriteFail` or, once the
`bufio.Writer` has failed, `WriteAgain`; then `Sync` or `SyncFail`. The scan of
`scanTail` takes one step per token. `Crash` keeps any prefix that covers the
synced part, its last token possibly cut. The history variable `acked` holds the
records whose `Append` returned nil.

| EventLog | code |
|---|---|
| `file`, `synced` | the file, the part of it the last successful `f.Sync` covered |
| `broken` | the error a `bufio.Writer` keeps for ever |
| `seq`, `mark` | `EventLog.seq`, `logTail.seq` |
| `run` | nothing in the code: which process wrote a record |

**Transcript** defines the messages and the payloads of every kind of event, and
as pure operators `LoadTranscript` (a recursive function whose step is one iteration of
the loop), `estimateTokens` and the windowing of both compaction strategies.

**Agent** is the loop over a sequence of processes. Here an append is one step
with the outcomes EventLog gives it: `Appended` (durable), `SyncFailed` (in the
file, not guaranteed, error returned), `WriteFailed` (not in the file, and no
later append will be) and `Unmarshalable`. A caller that checks the error ends
the process without a `run_end` (`AppendError`); one that drops it goes on
(`AppendIgnored`). Torn lines are the business of EventLog alone: an unreadable
line is no record here, and the log Agent sees is the sequence of the readable
ones.

| Agent | code |
|---|---|
| `pc` | the place in `Run`: `load` and `scan` are `bootstrap`, `top` the loop's head, `call` before `callLLM`, `dispatch`, `reject`, `invoke`, `record` inside `dispatchToolCalls`, `answer` the branch without tool calls, `end` before `terminate`'s append, `down` no process |
| `turnsThisRun`, `turnNumber`, `totalTokens`, `toolInvocations`, `messages`, `runID`, `llmModel` | the fields of `Agent` and `LLMClient` of that name |
| `calls`, `outcome` | what the `range` over the tool calls has left; what `tool.Invoke` returned |
| `rd`, `tail` | `scanTail`'s position and high-water marks |
| `effects` | history: for each tool invocation ever made, the record it was made under |

A process is launched with a goal, a model, its three limits and its compaction
(`Launched`); limits of processes on one log may differ, and `run_start` records them. A
call's arguments are `valid`, `invalid` (JSON that the schema refuses) or `malformed` (not
JSON, which makes the record of the refusal unmarshalable; being refused, they are in no record
but the completion). A denied command and a failed one differ only in their text, as in the
code; one that succeeds may have more output than the log's scanner buffers (`huge`), after which no process can resume.
The wall clock may expire at the top of any turn.

**AgentProperties** states what the agent is meant to guarantee, over the log,
the invocations and the conversation. **MCAgent** holds the instances: what the
endpoint may answer and how the agent may be started.

**LLMClient** is one completion with the endpoint as the other actor. `callLLM` takes the
plain path (`PlainCall`) or the streaming one: the endpoint sends its reply in pieces,
content and parallel calls in any interleaving. A fragment of a call carries any of its id,
its type, its name (the next piece of it or all of it) and the next piece of its arguments,
as often as the endpoint likes (`Carried`); `Merge` is what `readSSE` does with it, which joins
arguments and overwrites names. The endpoint may also send chunks without content, report usage
or not, fail, close the stream anywhere or go on for ever. A text is the sequence of its pieces,
so what is assembled is compared piece by piece. Degrading is a `Call` of its own, whose reply may
be another one, and whose usage is 0 when the endpoint reports none.

| LLMClient | code |
|---|---|
| `content`, `frags`, `deltasStarted`, `usage` | the locals of `readSSE`; `frags` is its map by index |
| `sink`, `result` | what `onDelta` was given; the `LLMResult` |
| `said`, `given` | nothing in the code: what of the reply the endpoint has sent |
| `spelled`, `retyped` | history: the calls whose name came in pieces, or whose type came again without it |

**Allowlist** has the list in the order of first mention, and its loaders by the form of
the file. **Config** is `LoadConfig` as a function of the environment, the assembly of the
system prompt and what `run_start` records. **Validate** is the validator over decoded
JSON values (numbers in halves, strings as a name and a length), operator by operator,
beside `Conforms`, which says what JSON Schema means by the same keywords; the two are
written differently on purpose, one as a walk that stops at a fault, the other as a
conjunction of constraints. What recurses in the code, `validateValue` and `jsonEqual`, is a
recursive function over `Values` and `Schemas`, two sets that contain the parts of their
members; its step (`Faults`, `SameJSON`) is an operator that has the function for a
parameter, as has the step of `Conforms` (`Meets`). `MaxDepth` is how deeply encoding/json lets
a value be nested.

**Shell** is one command line: `Run` refuses it or starts the interpreter, which takes
pipelines one after another as `;`, `&&` and `||` say, the commands of one pipeline
together. What the interpreter does not have itself (`Implemented`) is spawned. A command may run
for ever. A `trap` may set the words to be run on exit, which nothing has verified: the walk
sees the string as a string. The clock counts ticks since `execute` began.

| Shell | code |
|---|---|
| `Lines` | what the parser makes of the text: pipelines of commands, each with its command word, the nodes inside its words and, of a trap, the words of its string |
| `Implemented` | the builtins mvdan/sh really has, any part of `shellBuiltins` |
| `Verify` | `verify`: the walk over the nodes, up to the first reason |
| `stage`, `result` | where `Run` is, what it returned |
| `pos`, `running`, `status`, `onExit` | the interpreter, which is not part of the repository |
| `Cut` | the context's deadline: the error `runner.Run` returns is not an exit status |
| `spawned`, `trapped` | history: every binary started by the words of a line; by the string of a trap |
| `killed` | history: how long the commands the deadline cut had run |

**Harness** composes them: `main` and `run` step by step, with their exits, then calls to
the three tools with their parameter schemas, `shell` running its line in Shell.
**HarnessProperties** states each property from the environment the program was started
in, not from what was made of it. **MCHarness** has the command lines, environments,
schemas and values.

## Runs

| Run | Asks | Distinct states |
|---|---|---|
| `log_whole` | Lines reach the file whole or not at all; three processes, failed writes and fsyncs, machine crashes. Is every acknowledged record readable for ever, do numbers increase, is `LogStore` implemented? | 19 500 |
| `log_torn` | The same with lines cut anywhere. Which part survives? Numbering does (through the inductive `NumberingInv`), the synced bytes do, and the only acknowledged record that can be lost is the first of a process | 22 000 |
| `agent_faults` | Two processes, killed anywhere, every append may fail, outputs may be too long to read back. Write-ahead, the conversation sent against the log read back, turn records, closed turns, unanswered calls, `LogStore`, termination | 239 000 |
| `agent_resumes` | Three processes that differ in limits and compaction, ids reused by the endpoint. No call twice, turn numbers, every process's own budgets, `run_end` last, distinct keys, and a conversation that stays bounded, headed and paired | 1 144 000 |
| `llm_stream` | A completion, plain or streamed in any cut and interleaving, with failures anywhere. Is the result the reply, did the live consumer see just that, does it end? | 15 300 |
| `harness` | Environments, launches and tool calls. Which prompt is used, what is shown as granted, what do the words of lines start, what is refused, accepted as output and reported as success; does every line come back? | 313 000 |
| `log_glue`, `agent_goal`, `llm_eof`, `llm_names`, `shell_deadline`, `shell_trap` | Statements of the documentation that the code does not keep; see below | |

What the less obvious properties say, and what they would catch:

- `WriteAhead` relates the history of invocations to the log: each has an intent
  of its own within the fsynced prefix, after the completion that asked for it
  and in the same turn. Without the fsync, a crash leaves an invocation without
  an intent.
- `ConversationDurable`: whenever the endpoint is asked to go on, all of the log is
  synced and reading it back gives exactly what the endpoint is sent. The code
  drops the error of `recordTool` and the property still holds, for a reason
  nobody wrote down: a failed write breaks the writer, and a failed fsync is
  healed by the next one, so the checked append of `turn_end` or `turn` that comes
  before the next request fails too or covers the record. If the writer recovered
  from an error, it would fail.
- `ClosedTurnAnswered` and `TurnsIncreasing` constrain the log across processes: a
  turn with a `turn_end` answers every call, and the turn of a killed process is
  not numbered again.
- `FullTurnBudget` with `TurnRecordsMatch` keep the budget and the identity of turns
  apart, which agent.go:42-49 says were once one counter.
- `UnansweredWasCutOff` says which calls a request may leave unanswered: those of a turn a
  process died in. After a resume the endpoint does get such a request (agent.go:245); the
  property is that there is no other way to it, so every refusal, failure and denial is
  answered, although the errors of the records are dropped.
- `BudgetAtTurn` says that no turn begins beyond a limit, for processes that have one limit each: one
  in tokens, whose second turn a cheap first one allows and an expensive one does not; and one in
  invocations, whose first turn may spend three of them in refused calls. Each limit is tested
  against its own counter; the invocation limit with `>`, so that a turn may begin at the limit.
- `AssembledExact` holds of content, ids and arguments under every cut. Of names it claims what
  the code gives: one that is sent whole wherever its type is sent. `llm_names` shows the rest.
- `OrphansBehindSummary`: the tail a compaction keeps is counted in messages, so it may open
  with results whose request was elided. They then stand directly behind the summary, and
  every other result stands behind its own request, compaction after compaction and
  resume after resume.
- `ReadWhole`: one output of more than 8 MB is written without complaint and ends the log,
  because `bootstrap` refuses what it cannot read in full. What may not happen is that a
  process goes on from the readable part.
- `GrantedOnly` follows every binary the words of a line ever started, over lines and calls, back to
  the environment. It needs the walk of `verify` to go on behind the first node, the file to
  win over the list of names, and names that are empty to grant nothing. Names of builtins
  are excepted: `verify` lets them pass, and one that the interpreter lacks is spawned. It does
  not speak of what traps start, which `shell_trap` shows is anything.
- `RefusedExactly` leaves out lines with an arithmetic command, which the comment above `verify` says
  are refused (see below). A granted `eval` is listed by `tool_list` and refused in every line.
- `ListShowsGrants` is about which entries are shown and recorded, not their order, of which allowlist.go:133 says something else than the code does.
- `SuccessMeansDone`: the model is told of success only when the line ran to its end. The
  deadline can pass with a status already set, or between two pipelines.
- `FinishExact` compares the validator with `Conforms` on 19 values and 25 schemas, through
  the arguments of `finish` and as the parameter schemas embed the output schema. It
  shows that the validator refuses nothing that conforms, and accepts wrongly in two ways
  only: `LaxSchema` (no type, or one it does not know) and `NullMember` (`jsonEqual`).
- `TypeOK` is the one type invariant of each module; where the code bounds a
  counter (turns of a run, the synced prefix) the bound is part of it.

Every property of a passing run has a mutant: a mapped definition changed as a
plausible bug would change it (an fsync left out, `O_TRUNC` for `O_APPEND`, a scan
that keeps the last number and not the highest, a limit tested against the
wrong counter...), which the run then finds. The mutants stand before the
definitions they change, with a comment.

## Bounds

- `MaxRuns`, processes on one log: two give every crash-and-resume pair, three the
  resume of a resumed log, where a process reads records of two others.
- `MaxSeq` (EventLog), records per process: three or four give a record before, at
  and after the one that is lost or half written.
- Turns of a process, 1 to 4: the first and a later turn. `CompactAt` 8 in place of 40, seven
  messages being what a compaction leaves: the processes of `agent_resumes` (the first of one turn,
  later ones of two) outgrow it and compact more than once. A token limit of 2 makes a budget of
  one message, so that every turn compacts.
- In `agent_resumes` each later process has one limit beside its turns, 2 tokens or 1 invocation. An
  answer costs 1 token and a listing 3; a turn makes no invocation, one, or three.
- `Responses`: an answer, an answer `%q` cannot quote, single calls, a turn of three
  calls with `finish` in the middle, turns of refused calls of all kinds, the malformed one among
  others that leave a record.
- `MaxCalls` 2 calls of a harness, so that a second line meets the state a first one left.
  The timeout is 1 or 2 ticks or none: a line can be cut at the start of a pipeline, within one
  and after one that took a tick. `Int64` stands for the largest 64-bit integer; the values
  have one beyond it.
- `Values` and `Schemas` are the arguments, outputs and schemas of the instance with all their
  parts, three levels deep (`MaxDepth`): an object in the output of a call's arguments.
- The command lines have each kind of refusal once, with an admissible command before it,
  in a pipe and inside the words of a builtin; the three connectives; a trap with two commands; and
  a builtin the interpreter lacks (`WithoutKill`, which leaves it out). The environments
  vary one group of settings at a time (goal and resume, prompts, grants, limits,
  schemas), because `LoadConfig` and `run` read the groups independently of each other. The timeout is 1 tick
  where it does not matter.
- `CHECK_DEADLOCK FALSE` everywhere: a system whose processes have all ended, with
  no launch left, has stopped.
- In LLMClient the replies have up to three pieces of content and two parallel calls, one with a name
  in two pieces, each with arguments in two: enough for every order of two interleaved calls.

TLC ignores no part of the next-state relations: over the passing runs every
action is taken.

## Fairness

Three properties need any, and each has its own.

- `Termination`: weak fairness of `Progress`, the disjunction of the process's own steps.
  None is assumed of launches, crashes, failures or the wall clock, so termination rests on
  `max_turns` alone. A command is a step here because of `LineEnds` and a completion because of
  `CompletionEnds`; `LATIGO_SHELL_EXEC_TIMEOUT_S=0` removes the former and is assumed not to be
  set.
- `CompletionEnds`: weak fairness of `Open`, of `Call` and of `StreamError`. The last is the client's
  timeout of 120 s (llm.go:54, llm.go:166), which covers the body too, so it comes whatever the
  endpoint sends. Nothing is assumed of the endpoint.
- `LineEnds`: time passes, the interpreter takes its next pipeline, and a line past its deadline
  is cut. No command need end.

## Proofs

The theorems hold for any number of processes, any endpoint, any set of launches and logs,
files and replies of any length, however cut; a switch of the module (`IOFaults`, `TornTails`,
`FreshReopen`, `FreshRelaunch`, `UniqueIds`) has any value unless the theorem names it. Of the
constants they take what the modules assume of them (`BoundsAssumption`,
`ResponseAssumption`, `LimitAssumption`, `LaunchAssumption`, `ReplyAssumption`, `LineAssumption`,
`BuiltinAssumption`, `EnvAssumption`, `CallAssumption`, `ValueAssumption`...), which TLC evaluates in every run.
All safety properties and all action properties of the passing runs are proved.

### EventLog

| Theorem | Says | Invariant behind it |
|---|---|---|
| `TypeCorrect` | `[]TypeOK`: among others, the synced prefix is never longer than the file | itself |
| `SyncedIsKept` | no step changes or removes what an fsync covered | `TypeOK` |
| `NumberingHolds`, `NumberedUpwards` | if every process that finds a log resumes it, `[]SeqIncreasing`, torn tails, failed writes and crashes included | `NumberingInv` |
| `OnlyTheFirstIsLost` | `[]FirstOnlyLost`: whatever happens, an acknowledged record that no reader can parse is the first acknowledged one of its process | `DurableInv` |
| `AcknowledgedReadable` | without torn tails, `[]AckedReadable`: what `Append` acknowledged can be read for ever | `DurableInv`, `WholeLines` |
| `WriterKeepsPromise` | without torn tails and with every reopening a resume, the writer implements LogStore | `PairedInv`, `NumberingInv` |

`SeqIncreasing` is not inductive. A crash can cut the file behind a record that was not
readable before and is now, so the invariant must also bound records that merely
*start* a line (`Strict`); and the next number must exceed all that can be read,
which depends on where the process is: below `seq` while a line is being written,
at most `seq` otherwise, and, during the scan, at most `mark` for the tokens
already passed. That is `NumberingInv`, which `log_torn` checks as an invariant and
`NumberingStep` proves to be preserved, action by action; `GrowStrict` is the
argument for a write (whole or partial), `SurvivorsStrict` the one for a crash.

Neither are `FirstOnlyLost` and `AckedReadable`, which speak of what can be read and not
of why. The invariant behind both is `DurableInv`: every acknowledged record is, with
its newline, within the synced part of the file (`Secured`), where nothing changes; it
starts a line there unless it is the first of its process; and a process that has
had a record acknowledged writes its next one at the start of a line, because the first
failed write is its last write. The numbers (`Numbered`) are there to say which record is
the first. `SecuredStep`, `NumberedStep` and `LineStartStep` are its three parts, action
by action. `AcknowledgedReadable` adds `WholeLines`, that every record has a line of its
own, which a write and a cut at the end of a line preserve (`WholeLinesWritten`,
`WholeLinesCut`) and a torn tail does not.

The refinement maps a file to the records in it. Without torn tails the file is records and
newlines by turns and the synced part ends behind one of these newlines (`PairedInv`), so the
mapping is the sequence of the tokens at the odd places. `Write` then is `Leave`, `Sync` is
`Settle`, and a crash is `Lose`, or `Leave` when the line under way got to the disk; the rest
stutters. That `Leave` numbers upwards is `NumberingInv`.

### Agent

Each invariant of the two runs is stated by a theorem, and so is the refinement.

| Theorem | Says | Invariant behind it |
|---|---|---|
| `AgentTyped` | `[]TypeOK`: what is read back from a cut log is as well typed as what was written, and no process exceeds its `max_turns` | `TypeInv` |
| `TurnsOnlyGrow` | if later processes resume, turn numbers strictly increase along the log | `NumberInv` |
| `NothingAfterRunEnd` | what follows a `run_end` is another process's `run_start` | `EndInv` |
| `NothingReadInPart` | if later processes resume, none goes on from a log it could read only in part | `ReadInv` |
| `TurnsNamed` | a completion and a `turn_end` carry the number of the turn they belong to | `TurnInv` |
| `AgentKeepsPromise` | if later processes resume, the log of Agent implements LogStore | `NumberInv` |
| `IntentBeforeEffect` | `[]WriteAhead`: every invocation has a durable intent of its own, after the completion that asked for it, in the same turn | `InvokeInv`, `ServeInv` |
| `InvokedOnce` | `[]AtMostOnce`: no call of a completion has two intents or two results | `OnceInv`, `InvokeInv` |
| `KeysNeverReused` | two intents of one process never share an idempotency key | `KeyInv` |
| `ClosedHolds`, `TurnsClosedAnswered` | a closed turn has a terminal record for every call whose arguments are JSON; for every call, if the endpoint sends JSON only | `ClosedInv`, `JSONInv` |
| `BudgetHolds`, `TurnBudgetFull`, `TurnsWithinBudget` | the counters of a process are what the log shows of it; it stops for `max_turns` after exactly its own `max_turns` turns; a turn begins only within the limits | `BudgetInv` |
| `RecordsOrderly`, `ConversationShaped`, `ResultsPaired` | every result sent stands behind its request, or behind a summary | `RecordInv`, `ShapeInv` |
| `ConversationBounded` | the conversation is within the limit or has the seven messages a compaction leaves | `TranscriptBounded` itself |
| `GoalPinned` | with one goal for all launches, the conversation begins with the system prompt and the goal of the log's first record | `HeadInv` |
| `ConversationLogged`, `ConversationInLog` | what the endpoint is sent is what a resume would read back, and all of it is durable | `FreshInv`, `SameConv` |
| `OnlyCutOffUnanswered` | a call sent without a result is one of a turn its process died in | `SameConv`, `ClosedInv` |

The argument goes bottom up, one module per storey.

- *Types* (`AgentProofs`). `TypeInv` is `TypeOK` with the types of the log and the conversation.
  Its hard steps are those that compute: `LoadTranscript` gives messages for any prefix of a log,
  compaction gives messages for any conversation, and an append has one of its four outcomes
  (`AppendedTyped` and its neighbours, which every later proof uses).
- *The log alone* (the second half of `AgentProofs`). Turn numbers increase because a process holds the
  high-water marks of all of the log from the moment it appends, and of the lines passed while it
  scans (`HighWater`). That the scan stops early on a line too long is why `ReadInv` is needed.
  `TurnInv` says which record opened the turn the process is in.
- *Calls* (`AgentCallProofs`). In the middle of a dispatch the log is determined by two numbers,
  the completion's place `m` and the number `d` of calls dealt with (`Serving`): the calls left are
  those behind `d`, an intent exists for none but the first `d`, and, unless the writer is broken,
  a terminal record for each of them whose arguments are JSON. From this `ServeInv` follow `WriteAhead`, `AtMostOnce` and
  `ClosedTurnAnswered`: `turn_end` is appended with `d` at the last call, and only by a writer that
  is not broken. The code drops the errors of `recordTool`, and this is why it may.
- *Budgets* (the second half of `AgentCallProofs`). `BudgetInv` compares three counters with sums over the log since
  the process's `run_start`.
- *The conversation* (`AgentConversationProofs`). `RecordInv` orders the log, whose order
  `LoadTranscript` turns into the shape of the conversation (`ShapeInv`), which compaction preserves
  except behind the summary. `SameConv` says that conversation and log go in step; `FreshInv`, that
  the calls left have no terminal record yet anywhere, so that `LoadTranscript`'s deduplication
  drops none of their results.

What the theorems suppose, and why:

- `~FreshRelaunch` (and `~FreshReopen` of EventLog): every process that finds a log resumes it.
  Without it, numbers start from 1 again and the statements are false (see below).
- `JSONOnly`: the arguments of every call are JSON. A refused call whose arguments are not leaves
  no record (see below); `ClosedHolds` is what remains true without it.
- `UniqueIds`: the endpoint does not use a call id in two turns. If it does, reading back drops
  results. `InvokedOnce`, `ResultsPaired` and the others do not need it.
- `[]NotCompacting`: nothing was compacted. A compaction changes the conversation and leaves no
  record, so the log gives back the full one (the briefing of `llmCompact` is the case that matters). The
  theorem is about behaviours in which the trigger is never reached; `agent_faults` has the same
  restriction in its constants.
- `OneGoal`: the launches of a log have one goal. Another goal, or none, is recorded with the next
  `run_start` and replaces the first (`agent_goal`).

### LLMClient

| Theorem | Says |
|---|---|
| `ClientTyped` | `[]TypeOK`: nothing is assembled that was not sent, no fragment has an index of its own |
| `ConsumerSeesResult` | the live consumer saw exactly the content that is recorded, degraded or not |
| `StreamAssembled` | a stream that ends with `[DONE]` is assembled into the reply's content and calls, each with its id and arguments for every way of cutting and interleaving them, and with its name unless that came in pieces or the type came again without it |

The invariant of all three is `StreamInv`: the content assembled is the first `said` pieces of the
reply's; there is a fragment for exactly the calls of which anything was sent, with the
id if it was sent, the arguments sent so far and, unless the call is one of `spelled` or
`retyped`, the whole name or none (`FragsInv`); and the consumer saw the content while the
stream is open and nothing before it is degraded (`Opened`).

### Validate, Shell and Harness

| Theorem | Says | Rests on |
|---|---|---|
| `EqualToItself`, `EqualMeansSame` | `jsonEqual` holds of a value and itself and, without a null member in it, of no other | the depth of values |
| `ConformingAccepted`, `AcceptedConforms` | the validator accepts all that conforms, and what it accepts conforms but for `LaxSchema` and `NullMember` | the two above |
| `AllowlistIs` | the loaders' list: each name once, its first entry, in the order first mentioned | `AddLists` |
| `VerifyExact` | `Verify` refuses a line without an arithmetic command just when it is not admissible | `FlattenedSet` |
| `HarnessInvariant` | `[]IInv` | |
| `Types` | `[]TypeOK`: the clock of a line never passes its deadline, what runs is part of it | `ShellInv` |
| `Granted` | `[]GrantedOnly`: what the words of lines ever started is what the environment names, or bears the name of a builtin | `LaunchInv`, `ShellInv`, `AllowlistIs`, `VerifyExact` |
| `Refused` | `[]RefusedExactly`, over any lines run before | `ReturnInv`, `VerifyExact` |
| `Success` | `[]SuccessMeansDone`: success is told only of a line that ran to its end | `ReturnInv`, `AnswerInv` |
| `Shown` | `[]ListShowsGrants`, for all files and lists of names | `LaunchInv`, `AnswerInv`, `AllowlistIs` |
| `Prompted` | `[]PromptTrue`, for all texts of the knobs | `LaunchInv` |
| `Finished` | `[]FinishExact`, for all schemas and outputs | `AnswerInv`, `ConformingAccepted`, `AcceptedConforms` |
| `FinishTaken` | `[]FinishNeverRefused` | `AnswerInv` |

There are two kinds of argument here. What the pure parts compute is shown for all inputs:
the validator for every schema and value (by the least counterexample in depth), the
allow-list for every sequence of entries, nameless and repeated ones among them (by the number of
entries added: `Lists` says what a list of the first `n` is), the walk for lines of any
number of pipelines, commands and nested nodes (`FlattenedSet`: flattening neither adds
nodes nor drops any). `VerifyExact` speaks of the set of nodes, so the
order of the walk decides which reason is given but not whether there is one.

What the steps do with it is `IInv`, of four parts, which TLC finds invariant too. `LaunchInv`:
what every stage of the launch has left is what the environment asks for, although each step
reads what an earlier one stored; and nothing runs before the first turn. `ShellInv`: a line
that runs was admitted under the very allow-list there is now, and what was spawned is on
it or has the name of a builtin; none of this could be said of `GrantedOnly` alone, which does not know of the line.
`ReturnInv`: between the end of a line and its report, a result with status 0, no error and no
denial is that of a line with nothing cut (`Done`). `AnswerInv`: the last answer is about the last
call, whose arguments passed the first check of `finish`; as that check includes the
second, `Answer("output does not match")` is never given. An accepted shell call names a line
or is empty (`CommandIsLine`), which is where validation guards the shell.

The assumptions are on what the program is started with and may be sent. `LineAssumption`:
lines are sequences of pipelines of commands. `BuiltinAssumption`: the interpreter's builtins are
among `shellBuiltins`. `EnvAssumption`: an allow-list file has one
of the forms its loader tells apart. `CallAssumption`:
arguments are values or not JSON, and a command is a line's name. `ValueAssumption` and
`SchemaAssumption`: values and schemas are finite trees of bounded depth, made as `IsValue`
and `IsSchema` say; encoding/json sees to it. `ToolAssumption`: the tools' own schemas are among
`Schemas`. Nothing else is assumed of the interpreter, and nothing of the commands.

### Induction over data

The library's induction theorems take an operator as a parameter and cannot be used with the
provers at hand. `InductionProofs` does without: a least element exists in every non-empty set of
naturals (`LeastNumber`), so a set of numbers that has 0 and, with a number, the next one, is all of
them (`UpTo`). From it follow that a function defined by recursion over an index exists and
satisfies its equation (`FoldExists`), which is what lets anything be said of `LoadTranscript` and
`estimateTokens`, and that a sum over a finite set of places grows by the term of a new one
(`SumExists`, `SumTakes`), which is what `BudgetInv` needs. A function that recurses over the parts
of a tree exists and satisfies its equation because its value depends on values at lower
ranks only, the depth being bounded (`FixedPoint`): this is what `validateValue`, `jsonEqual`,
`Conforms`, `LaxSchema` and `NullMember` rest on. An induction in these proofs is a set
of the numbers for which the claim holds.

### Only model-checked

- Liveness: `Termination`, `CompletionEnds` and `LineEnds` need fairness, out of the prover's reach.
- What the violations show is shown by their runs.

## Where code and documentation disagree

Six runs show one each and are expected to end in a violation.

- `log_glue`: a crash or a failed write can leave a line without its newline. The next
  process appends to it (events.go:111), so its first record, written, fsynced and
  acknowledged, is on a line no reader can parse. In practice this is its
  `run_start`. `FirstOnlyLost` says that it is never more than that.
- `agent_goal`: a run resumed without a goal records an empty one (agent.go:137), which
  the next resume takes from the last `run_start`.
- `shell_deadline`: `LATIGO_SHELL_EXEC_TIMEOUT_S` is documented as a timeout per command
  (README.md:87, shell.go:38) and is one for the whole line (shell.go:178), so a command that
  starts late is cut after less.
- `shell_trap`: `trap` is among the builtins that need no entry (allowlist.go:82). The interpreter
  parses and runs the string it is given, and there is no exec handler that would check what that
  starts (shell.go:165), while shell.go:9 says that only what the allow-list admitted is
  spawned.
- `llm_eof`: a stream that ends cleanly before `[DONE]` is assembled as if complete
  (llm.go:314), half a call's arguments included.
- `llm_names`: llm.go:374 says that names arrive across chunks, and `readSSE` overwrites the name
  with each piece (llm.go:297), so the last one is dispatched. A fragment that repeats a call's
  type without its name erases it (llm.go:293); no comment speaks of that, so
  `NamesAssembled` leaves those calls out.

Others, which no run of this project keeps:

- A refused call whose arguments are not JSON cannot be marshalled (they are a
  `json.RawMessage`, agent.go:360), `recordTool` drops the error, and the log has a `turn_end` for a
  turn with an unanswered call, although agent.go:292 says that the call is logged. After a resume
  the model sees a call without a result. Add `Mixed` to `AllResponses` and `agent_faults` shows
  `ClosedTurnAnswered` violated.
- The completion behind a model-driven compaction is in no record (compaction.go:95; it is not
  counted against the token limit either), although compaction.go:66 and agent.go:108 give its being
  recorded as the reason why resuming is consistent. A resumed process rebuilds the full
  conversation.
- A result's idempotency key never equals its intent's, which README.md:140 says it
  shares: `toolInvocations` is incremented between the two (agent.go:324, 331, 362).
- An answer with control characters is not valid JSON once quoted with `%q`
  (agent.go:202): the run ends in `log_error`, without a `run_end`, and the answer is lost.
- A streamed completion without usage is estimated, "so max_total_tokens is still enforced"
  (llm.go:342); one that came whole, from `Call` or degraded to it, costs 0 (llm.go:114), although
  agent.go:274 says that the loop does not depend on how the bytes arrive.
- shell.go:68 lists arithmetic commands among what is refused; `verify` has no case for them, and
  they run. They spawn nothing.
- allowlist.go:133 sorts the names "for stable tool_list output"; `tool_list` prints the entries in
  the order of the file (tools.go:114), and only `run_start` has them sorted.
- allowlist.go:92 says that a missing or empty file yields an empty list; each is an error that ends
  the launch (allowlist.go:100, 111).
- A run started without `LATIGO_RESUME` on a log that exists numbers its records from 1
  again (main.go:46) and its turns too; a later resume takes up the conversations of
  both (events.go:298). Set `FreshReopen` (`FreshRelaunch` in Agent) and TLC shows
  `SeqIncreasing` and `TurnsIncreasing` violated.
- A denied command is recorded with status `error`; nothing writes `denied` (agent.go:336).
- The invocation limit is tested with `>` and between turns only (agent.go:157), so calls
  go past it; `BudgetAtTurn` states what does hold.
- The model of the first run is restored into a field that no request uses (agent.go:247,
  278).
- With an endpoint that reuses call ids over turns, deduplication drops results on reading
  back (events.go:320): set `UniqueIds = FALSE` and `ConversationDurable` fails.
- A stream whose first chunk carries no delta is not degraded when it then fails
  (llm.go:270).
- No run ends with `dispatch_error` in its `run_end` (README.md:143): the process returns without
  one (agent.go:211). `RunEndLast` says what follows a `run_end`, not that there is one.
- Idempotency keys are distinct within one process (`KeysDistinct`). `toolInvocations` starts from 0
  in each, so over a resume an endpoint that reuses a call id gets a key again.
- `jsonEqual` takes a null member for a missing one (validate.go:234); a schema without a type
  checks nothing but `const` and `enum`; a `maxLength` or `maxItems` of 0 is none; `"const": null` is no
  constraint, since the pointer is nil.
- A `LATIGO_MAX_TURNS` of 0 ends the run at once, while 0 means unlimited for the other
  limits (agent.go:150); a value that is no number or negative becomes the default silently
  (config.go:177).
- An object that has its commands under another key yields an empty list without a complaint
  (allowlist.go:108); nothing documents what it should do.
- An empty output schema file is no schema (validate.go:38).
- A resume of a run that ended with `finish` shows the model that call without a result
  (agent.go:341 records `finish` and no tool event).
- A command whose output exceeds 8 MB ends the log for every later process (events.go:297).

## What is left out

- Texts, JSON encoding, timestamps, latencies and models' names beyond equality. In
  `estimateTokens` every text that is not empty is one unit, and so is a call.
- In Agent, the loss of a record glued to a torn tail (the process's `run_start`, by
  `FirstOnlyLost`): what the runs of Agent show of the log holds while a crash or a failed write
  leaves no part of a line, or that part is removed before the next process starts.
- `sync.Mutex` of EventLog: one goroutine appends. `scanTail`'s cache, since a process
  scans once.
- That a later fsync makes durable what an earlier failed one did not is assumed, as
  the code does.
- The parser and interpreter of mvdan/sh: which nodes a text has and in which order they are
  walked is given by `Lines`, and which builtins it has by `Implemented`. Loops, functions,
  subshells, background jobs, `set -e`, traps on anything but the exit and what builtins other than
  `trap` make of the strings they are given are not modelled, nor what commands do to the workspace.
- What a deadline meets in the processes it kills: a command that catches the interrupt and exits
  with 0 just then, and a grandchild that holds the output pipe and delays the interpreter's
  return. `SuccessMeansDone` and `LineEnds` suppose neither.
- `wireMessages` (a copy of fields), `parseRetryAfter` (nobody reads its hint), `cleanChildEnv`, the
  texts of errors, `sortedKeys`, `trim` and `Allowlist.Entry`, which nothing depends on.
- Harness has no log and Agent no command lines: the two are related by the properties named
  under [Modules](#modules), not by one composed state space.

## Plan

1. *Done*: LogStore, EventLog, Transcript, Agent with limits, sizes and both
   compactions, LLMClient, Allowlist, Shell, Validate, Config, Harness.
2. *Done*: proofs of EventLog and its refinement of LogStore; of all invariants of Agent and its
   refinement; of LLMClient.
3. *Done*: proofs of the validator, of the allow-list and of `verify`; of all invariants of Harness.
4. A composition of Agent with the byte level of EventLog, so that a glued `run_start` is
   seen by the agent that resumes.
