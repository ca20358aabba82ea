----------------------------- MODULE Allowlist ------------------------------
(* The allow-list of allowlist.go: which binaries may be spawned, in the     *)
(* order they were first named. Names are trimmed.                           *)
EXTENDS Naturals, Sequences, SequencesExt

(* A name is a string; the empty one names nothing.                          *)
Names == STRING \cup {""}
EntryType == [name : Names, oneLine : Names]
Entry(name, oneLine) == [name |-> name, oneLine |-> oneLine]

NewAllowlist == [commands |-> <<>>, order |-> <<>>]

Put(m, k, v) == [x \in DOMAIN m \cup {k} |-> IF x = k THEN v ELSE m[x]]

(* Mutant: the last entry of a name wins.                                    *)
AddLast(a, e) ==
  IF e.name = "" THEN a
  ELSE [commands |-> Put(a.commands, e.name, e),
        order |-> IF e.name \in DOMAIN a.commands THEN a.order ELSE Append(a.order, e.name)]

(* The first entry of a name wins; one without a name is ignored.            *)
Add(a, e) ==
  IF e.name = "" \/ e.name \in DOMAIN a.commands THEN a
  ELSE [commands |-> Put(a.commands, e.name, e), order |-> Append(a.order, e.name)]

AllowlistOf(entries) ==
  LET list[i \in 0..Len(entries)] ==
        IF i = 0 THEN NewAllowlist ELSE Add(list[i - 1], entries[i])
  IN  list[Len(entries)]

Allowed(a, name) == name \in DOMAIN a.commands

Entries(a) == [i \in DOMAIN a.order |-> a.commands[a.order[i]]]

(* The names that are permitted without being listed.                        *)
shellBuiltins == {"cd", "pwd", "true", "false", ":", "set", "export", "unset",
                  "alias", "unalias", "echo", "printf", "read", "type", "hash",
                  "return", "break", "continue", "trap", "umask", "ulimit",
                  "getopts", "shift", "wait", "jobs", "bg", "fg", "kill", "times"}

-----------------------------------------------------------------------------
(* The loaders. A file is [form, entries]: "array", "object" (the entries    *)
(* under its "commands"), "other object" (under another key, where nobody    *)
(* looks), "missing", "empty" or "garbage".                                  *)
Loaded(a) == [err |-> FALSE, value |-> a]
LoadError == [err |-> TRUE, value |-> NewAllowlist]

LoadAllowlist(file) ==
  CASE file.form \in {"missing", "empty", "garbage"} -> LoadError
    [] file.form = "other object"           -> Loaded(NewAllowlist)
    [] file.form \in {"array", "object"}    -> Loaded(AllowlistOf(file.entries))

AllowlistFromNames(names) ==
  AllowlistOf([i \in DOMAIN names |-> Entry(names[i], "")])
=============================================================================
