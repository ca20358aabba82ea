------------------------------- MODULE Shell --------------------------------
(* The allow-listed shell of shell.go: a command line is parsed, its tree    *)
(* walked and refused or executed, all of it under one deadline.             *)
(*                                                                           *)
(* A line is [parses, pipelines]; a pipeline is [op, cmds], op joining it to *)
(* the one before (";", "&&" or "||"); a command is [word, nested, script]:  *)
(* its command word; in the order of the walk, the nodes inside its words    *)
(* and redirections; and, of a trap, the command words in the string it is   *)
(* given, to be run on exit (on a failing command is not modelled). The      *)
(* interpreter (mvdan/sh) and the commands are the environment.              *)
EXTENDS Allowlist, FiniteSets

CONSTANTS Lines,          \* the command lines, by name
          Implemented     \* the builtins the interpreter really has

ASSUME BuiltinAssumption == Implemented \subseteq shellBuiltins

CommandType == [word : STRING, nested : Seq({"subst", "proc", "arith"}), script : Seq(STRING)]
PipelineType == [op : {";", "&&", "||"}, cmds : Seq(CommandType)]
LineType == [parses : BOOLEAN, pipelines : Seq(PipelineType)]

ASSUME LineAssumption == DOMAIN Lines # {} /\ Lines \in [DOMAIN Lines -> LineType]

VARIABLES allow,          \* Shell.Allow
          execTimeout,    \* Shell.ExecTimeout, in ticks; 0 is none
          line, stage,    \* the line; idle, run, returned
          pos, running,   \* the pipeline, and its commands that still run
          status,         \* exit status of the last pipeline
          onExit,         \* the words of the action a trap has set
          clock, since,   \* ticks since execute began, and at the pipeline's start
          result,         \* what Run returned
          spawned,        \* history: the binaries the lines' words ever started
          trapped,        \* history: those the actions of traps ever started
          killed          \* history: how long those the deadline cut had run

settings == <<allow, execTimeout>>
interp == <<pos, running, status, onExit, clock, since>>
started == <<spawned, trapped>>
shellVars == <<settings, line, stage, interp, result, started, killed>>

(* A word with an expansion in it has no literal name; nor has a command     *)
(* that is only assignments.                                                 *)
Dynamic == "$"

(* ShellResult and the error Run returns with it.                            *)
ShellResult(exit, denied, err) == [exit |-> exit, denied |-> denied, err |-> err]
NoResult == ShellResult(0, "", FALSE)

ShellInit(a, timeout) ==
  /\ allow = a /\ execTimeout = timeout
  /\ line = CHOOSE l \in DOMAIN Lines : TRUE
  /\ stage = "idle"
  /\ pos = 1 /\ running = {} /\ status = 0 /\ onExit = <<>>
  /\ clock = 0 /\ since = 0
  /\ result = NoResult /\ spawned = {} /\ trapped = {} /\ killed = {}

-----------------------------------------------------------------------------
(* verify: the nodes in the order syntax.Walk meets them.                    *)
Node(kind, word) == [kind |-> kind, word |-> word]

CommandNodes(c) ==
  <<Node(IF c.word = "((" THEN "arith" ELSE "call", c.word)>> \o
    [i \in DOMAIN c.nested |-> Node(c.nested[i], "")]

Nodes(l) == FlattenSeq([p \in DOMAIN l.pipelines |->
              FlattenSeq([c \in DOMAIN l.pipelines[p].cmds |->
                CommandNodes(l.pipelines[p].cmds[c])])])

(* The reason to refuse one node, "" when there is none.                     *)
(* Mutant: eval is a name like another.                                      *)
ReasonNoEval(a, n) ==
  CASE n.kind \in {"subst", "proc"} -> "substitution is not allowed"
    [] n.kind = "call" /\ n.word = Dynamic -> "dynamic command name is not allowed"
    [] n.kind = "call" /\ n.word # Dynamic /\ n.word \notin shellBuiltins
         /\ ~Allowed(a, n.word) -> "not on the allow-list"
    [] OTHER -> ""

Reason(a, n) ==
  CASE n.kind = "subst" -> "command substitution is not allowed"
    [] n.kind = "proc"  -> "process substitution is not allowed"
    [] n.kind = "call" /\ n.word = Dynamic -> "dynamic command name is not allowed"
    [] n.kind = "call" /\ n.word = "eval"  -> "eval is not allowed"
    [] n.kind = "call" /\ n.word \notin {Dynamic, "eval"} \cup shellBuiltins
         /\ ~Allowed(a, n.word) -> "not on the allow-list"
    [] OTHER -> ""

(* Mutant: the walk does not go on behind the first node.                    *)
VerifyFirst(a, l) == Reason(a, Head(Nodes(l)))

(* The walk ends at the first reason.                                        *)
Verify(a, l) ==
  LET refused == {i \in DOMAIN Nodes(l) : Reason(a, Nodes(l)[i]) # ""}
  IN  IF refused = {} THEN "" ELSE Reason(a, Nodes(l)[Min(refused)])

-----------------------------------------------------------------------------
(* Run, up to its return or the start of the interpreter.                    *)
Return(r) == /\ stage' = "returned"
             /\ result' = r

Refuse(l) == /\ stage = "idle"
             /\ line' = l
             /\ \/ /\ ~Lines[l].parses
                   /\ Return(ShellResult(2, "", FALSE))
                \/ /\ Lines[l].parses
                   /\ Verify(allow, Lines[l]) # ""
                   /\ Return(ShellResult(126, Verify(allow, Lines[l]), FALSE))
             /\ UNCHANGED <<settings, interp, started, killed>>

Admitted(l) == /\ stage = "idle"
               /\ Lines[l].parses
               /\ Verify(allow, Lines[l]) = ""
               /\ line' = l

(* interp.New fails, for want of the workspace directory.                    *)
NoInterpreter(l) == /\ Admitted(l)
                    /\ Return(ShellResult(0, "", TRUE))
                    /\ UNCHANGED <<settings, interp, started, killed>>

Execute(l) == /\ Admitted(l)
              /\ stage' = "run"
              /\ pos' = 1 /\ running' = {} /\ status' = 0 /\ onExit' = <<>>
              /\ clock' = 0 /\ since' = 0 /\ killed' = {}
              /\ UNCHANGED <<settings, result, started>>

-----------------------------------------------------------------------------
(* The interpreter. The context is done once the clock is at the deadline.   *)
(* Behind the last pipeline comes what a trap is to run on exit.             *)
Pipelines == Lines[line].pipelines
LastPos == Len(Pipelines) + (IF onExit = <<>> THEN 0 ELSE 1)
Cmds == Pipelines[pos].cmds
Words == IF pos <= Len(Pipelines) THEN [i \in DOMAIN Cmds |-> Cmds[i].word] ELSE onExit
Expired == execTimeout > 0 /\ clock >= execTimeout

Between == stage = "run" /\ running = {} /\ pos <= LastPos /\ ~Expired

(* Whether the connective lets the pipeline run.                             *)
Wanted == CASE Pipelines[pos].op = ";"  -> TRUE
            [] Pipelines[pos].op = "&&" -> status = 0
            [] Pipelines[pos].op = "||" -> status # 0

(* The commands of a pipeline run together; what the interpreter does not    *)
(* have itself is spawned. A trap, unless in a subshell, sets the action.    *)
StartPipeline ==
  /\ Between
  /\ pos <= Len(Pipelines) /\ Wanted
  /\ running' = DOMAIN Words
  /\ since' = clock
  /\ spawned' = spawned \cup (ToSet(Words) \ (Implemented \cup {"(("}))
  /\ onExit' \in {onExit} \cup {Cmds[i].script : i \in {j \in DOMAIN Cmds : Cmds[j].word = "trap"}}
  /\ UNCHANGED <<settings, line, stage, pos, status, clock, result, trapped, killed>>

SkipPipeline == /\ Between
                /\ pos <= Len(Pipelines) /\ ~Wanted
                /\ pos' = pos + 1
                /\ UNCHANGED <<settings, line, stage, running, status, onExit, clock, since,
                               result, started, killed>>

(* The string a trap was given is parsed and run. Nothing verifies it.       *)
RunTrap == /\ Between
           /\ pos > Len(Pipelines)
           /\ running' = DOMAIN Words
           /\ since' = clock
           /\ trapped' = trapped \cup (ToSet(Words) \ Implemented)
           /\ UNCHANGED <<settings, line, stage, pos, status, onExit, clock, result,
                          spawned, killed>>

(* A command ends by itself; the status of a pipeline is its last command's. *)
(* A trap's action may set it or not.                                        *)
CommandEnds ==
  /\ stage = "run"
  /\ \E i \in running, code \in {0, 1} :
       /\ running' = running \ {i}
       /\ \/ status' = IF i = Len(Words) THEN code ELSE status
          \/ pos > Len(Pipelines) /\ status' = status
  /\ pos' = IF running' = {} THEN pos + 1 ELSE pos
  /\ UNCHANGED <<settings, line, stage, onExit, clock, since, result, started, killed>>

(* Time passes while commands run. Without a deadline it does not matter.    *)
(* Mutant: it goes on behind the deadline.                                   *)
TickPast == /\ stage = "run"
            /\ running # {}
            /\ execTimeout > 0 /\ clock <= execTimeout
            /\ clock' = clock + 1
            /\ UNCHANGED <<settings, line, stage, pos, running, status, onExit, since,
                           result, started, killed>>

Tick == /\ stage = "run"
        /\ running # {}
        /\ execTimeout > 0 /\ ~Expired
        /\ clock' = clock + 1
        /\ UNCHANGED <<settings, line, stage, pos, running, status, onExit, since,
                       result, started, killed>>

(* What the interpreter returns when its context is done is no exit status.  *)
(* Mutant: the exit status is taken whatever the error.                      *)
CutResultStatus == ShellResult(status, "", FALSE)

CutResult == ShellResult(1, "", FALSE)

(* Mutant: the commands are not given the context.                           *)
CutBetween == /\ stage = "run"
              /\ running = {} /\ pos <= LastPos /\ Expired
              /\ Return(CutResult)
              /\ UNCHANGED <<settings, line, interp, started, killed>>

(* The deadline: running commands are killed, the rest is never started.     *)
Cut == /\ stage = "run"
       /\ Expired
       /\ running # {} \/ pos <= LastPos
       /\ killed' = IF running = {} THEN {} ELSE {clock - since}
       /\ running' = {}
       /\ Return(CutResult)
       /\ UNCHANGED <<settings, line, pos, status, onExit, clock, since, started>>

LineDone == /\ stage = "run"
            /\ running = {} /\ pos > LastPos
            /\ Return(ShellResult(status, "", FALSE))
            /\ UNCHANGED <<settings, line, interp, started, killed>>

ShellStep == \/ StartPipeline \/ SkipPipeline \/ RunTrap \/ CommandEnds
             \/ Tick \/ Cut \/ LineDone

-----------------------------------------------------------------------------
(* shell.go, above verify: the lines that are admissible. Every command is a *)
(* literal word that is a builtin or allowed, and is not eval; none is an    *)
(* arithmetic command; and nothing is substituted anywhere.                  *)
Commands(l) == UNION {ToSet(p.cmds) : p \in ToSet(l.pipelines)}
Arithmetic(l) == \E c \in Commands(l) : c.word = "(("

Admissible(a, l) ==
  /\ ~Arithmetic(l)
  /\ \A c \in Commands(l) : /\ c.word \in DOMAIN a.commands \cup shellBuiltins
                           /\ c.word \notin {Dynamic, "eval"}
                           /\ ToSet(c.nested) \cap {"subst", "proc"} = {}

(* Of the lines without an arithmetic command, one is refused just when it   *)
(* is not admissible, whatever comes before the word that makes it so.       *)
RefusedExactly ==
  stage = "returned" /\ Lines[line].parses /\ ~Arithmetic(Lines[line]) =>
    (result.denied # "" <=> ~Admissible(allow, Lines[line]))

(* shell.go, ExecTimeout: "caps each spawned leaf command", so that no       *)
(* command is cut before it has had that long. The runs show that it does    *)
(* not hold: there is one deadline for the line.                             *)
LeafHasItsTimeout == \A age \in killed : age >= execTimeout
=============================================================================
