------------------------------ MODULE MCAgent -------------------------------
(* Instances of Agent for TLC: what the endpoint may answer and how the      *)
(* agent may be started.                                                     *)
EXTENDS AgentProperties

Call(tool, args) == [tool |-> tool, args |-> args]
Response(content, toolCalls, tokens) ==
  [content |-> content, calls |-> toolCalls, tokens |-> tokens]

Text    == Response("text", <<>>, 1)
Control == Response("control characters", <<>>, 1)
Shell   == Response("", <<Call("shell", "valid")>>, 1)
Listing == Response("", <<Call("tool_list", "valid")>>, 3)
Refused == Response("", <<Call("other", "valid"), Call("shell", "invalid")>>, 1)
Several == Response("", <<Call("shell", "valid"), Call("finish", "valid"),
                          Call("shell", "valid")>>, 2)
Mixed   == Response("", <<Call("other", "valid"), Call("shell", "malformed"),
                          Call("other", "valid")>>, 1)

AllResponses == {Text, Shell, Refused, Several}
ResumeResponses == {Control, Listing, Mixed}
LongResponses == {Refused}

Fresh  == [resume |-> FALSE, goal |-> "goal", model |-> "m1", turns |-> 2,
           tokens |-> 0, tools |-> 0, compaction |-> "window"]
Resume == [Fresh EXCEPT !.resume = TRUE]

FreshOrResume == {Fresh, Resume}
FreshOrBare == {Fresh, [Resume EXCEPT !.goal = ""]}

(* Processes of one log that differ in compaction and in all their limits:   *)
(* one is limited in tokens and one in tool invocations, so that a second    *)
(* turn is refused to each by its own limit, or granted within it.           *)
Various == {[Fresh EXCEPT !.turns = 1], [Resume EXCEPT !.tokens = 2],
            [Resume EXCEPT !.tools = 1, !.compaction = "llm"]}
Long == {[Fresh EXCEPT !.turns = 4, !.compaction = "llm"]}
=============================================================================
