----------------------------- MODULE LLMClient ------------------------------
(* One chat completion of llm.go: a plain Call, or CallStream, which posts   *)
(* the request, assembles the chunks in readSSE and degrades to Call on a    *)
(* failure before the first delta. The endpoint is the other actor: it       *)
(* produces a reply piece by piece, content and tool calls in any            *)
(* interleaving, and may fail, send what is not a chunk, or close the stream *)
(* at any point. A text is the sequence of its pieces.                       *)
EXTENDS Naturals, Sequences, FiniteSets

CONSTANT Replies         \* what the endpoint may produce

(* A text is a sequence of pieces, here numbers; so is the name of a call,   *)
(* which is not empty.                                                       *)
Pieces == Seq(Nat)
ReplyCalls == [id : STRING, name : Pieces \ {<<>>}, args : Pieces]

ASSUME ReplyAssumption ==
  Replies \subseteq [content : Pieces, calls : Seq(ReplyCalls)]

VARIABLES pc,            \* idle, call, stream, degrade, done, failed
          reply,         \* what the endpoint is producing
          said, given,   \* pieces of its content, and what of each call, sent
          spelled,       \* history: the calls whose name came in pieces
          retyped,       \* history: those whose type came again without it
          content, frags, deltasStarted, usage,     \* readSSE's locals
          sink,          \* the deltas a live consumer has seen
          result,        \* the LLMResult: content, calls and total tokens
          ended          \* how the stream ended

vars == <<pc, reply, said, given, spelled, retyped, content, frags,
          deltasStarted, usage, sink, result, ended>>

NoResult == [content |-> <<>>, calls |-> <<>>, tokens |-> 0]

TypeOK == /\ pc \in {"idle", "call", "stream", "degrade", "done", "failed"}
          /\ reply \in Replies
          /\ said \in 0..Len(reply.content)
          /\ DOMAIN given = 1..Len(reply.calls)
          /\ DOMAIN frags \cup spelled \cup retyped \subseteq 1..Len(reply.calls)
          /\ deltasStarted \in BOOLEAN /\ usage \in Nat
          /\ ended \in {"", "no stream", "DONE", "EOF", "error"}

(* What of a call has been sent: its id, pieces of its name, of its args.    *)
Nothing == [id |-> FALSE, name |-> 0, args |-> 0]
Whole(c) == [id |-> TRUE, name |-> Len(c.name), args |-> Len(c.args)]

Init == /\ pc = "idle"
        /\ reply \in Replies
        /\ said = 0 /\ given = [i \in 1..Len(reply.calls) |-> Nothing]
        /\ spelled = {} /\ retyped = {}
        /\ content = <<>> /\ frags = <<>>
        /\ deltasStarted = FALSE /\ usage = 0
        /\ sink = <<>> /\ result = NoResult /\ ended = ""

endpoint == <<reply, said, given, spelled, retyped>>
locals == <<content, frags, usage>>

-----------------------------------------------------------------------------
(* callLLM takes the plain path or, when streaming is enabled, CallStream:   *)
(* the response headers; or an error or a status of 400 and up, which        *)
(* degrades; or a request that cannot even be made.                          *)
Open == /\ pc = "idle"
        /\ \/ pc' = "call" /\ ended' = "no stream"
           \/ pc' \in {"stream", "degrade", "failed"} /\ UNCHANGED ended
        /\ UNCHANGED <<endpoint, locals, deltasStarted, sink, result>>

Reading == pc = "stream" /\ pc' = "stream" /\ UNCHANGED <<result, ended>>

(* Any line that decodes starts the deltas: here the chunk that only names   *)
(* the assistant's role, a finish reason, or an error object.                *)
EmptyChunk == /\ Reading
              /\ deltasStarted' = TRUE
              /\ UNCHANGED <<endpoint, locals, sink>>

(* Mutant: the delta is taken again and again.                               *)
ContentChunkForever == /\ Reading
                       /\ said <= Len(reply.content)
                       /\ said' = said + 1
                       /\ UNCHANGED <<reply, given, spelled, retyped, locals, sink, deltasStarted>>

(* Mutant: a delta is forwarded without being noted.                         *)
ContentChunkUnnoted == /\ Reading
                       /\ said < Len(reply.content)
                       /\ said' = said + 1
                       /\ content' = Append(content, reply.content[said + 1])
                       /\ sink' = Append(sink, reply.content[said + 1])
                       /\ UNCHANGED <<reply, given, spelled, retyped, frags, usage, deltasStarted>>

ContentChunk == /\ Reading
                /\ said < Len(reply.content)
                /\ said' = said + 1
                /\ content' = Append(content, reply.content[said + 1])
                /\ sink' = Append(sink, reply.content[said + 1])
                /\ deltasStarted' = TRUE
                /\ UNCHANGED <<reply, given, spelled, retyped, frags, usage>>

(* A fragment carries any of the id, the type, the name (its next piece or   *)
(* all of it) and the next piece of the args, as the endpoint likes.         *)
Carried == [id : BOOLEAN, type : BOOLEAN, name : {"none", "piece", "whole"},
            args : BOOLEAN]

CanCarry(c, g, p) == /\ p.name = "piece" => Len(c.name) > 1 /\ g.name < Len(c.name)
                     /\ p.args => g.args < Len(c.args)
                     /\ p.id \/ p.type \/ p.name # "none" \/ p.args

Fragment(c, g, p) ==
  [id   |-> IF p.id THEN c.id ELSE "",
   type |-> IF p.type THEN "function" ELSE "",
   name |-> CASE p.name = "none"  -> <<>>
              [] p.name = "piece" -> <<c.name[g.name + 1]>>
              [] p.name = "whole" -> c.name,
   args |-> IF p.args THEN <<c.args[g.args + 1]>> ELSE <<>>]

Given(c, g, p) ==
  [id   |-> g.id \/ p.id,
   name |-> CASE p.name = "none"  -> g.name
              [] p.name = "piece" -> g.name + 1
              [] p.name = "whole" -> Len(c.name),
   args |-> IF p.args THEN g.args + 1 ELSE g.args]

NoFrag == [id |-> "", name |-> <<>>, args |-> <<>>]

(* Mutant: the fragment's arguments replace those before it.                 *)
MergeLast(f, t) == [id   |-> IF t.id # "" THEN t.id ELSE f.id,
                    name |-> IF t.type # "" \/ t.name # <<>> THEN t.name ELSE f.name,
                    args |-> t.args]

Merge(f, t) == [id   |-> IF t.id # "" THEN t.id ELSE f.id,
                name |-> IF t.type # "" \/ t.name # <<>> THEN t.name ELSE f.name,
                args |-> f.args \o t.args]

ToolCallChunk ==
  /\ Reading
  /\ \E i \in DOMAIN given, p \in Carried :
       LET c == reply.calls[i]
           f == IF i \in DOMAIN frags THEN frags[i] ELSE NoFrag
       IN  /\ CanCarry(c, given[i], p)
           /\ given' = [given EXCEPT ![i] = Given(c, @, p)]
           /\ spelled' = IF p.name = "piece" THEN spelled \cup {i} ELSE spelled
           /\ retyped' = IF p.type /\ p.name = "none" /\ given[i].name > 0
                           THEN retyped \cup {i} ELSE retyped
           /\ frags' = [j \in DOMAIN frags \cup {i} |->
                          IF j = i THEN Merge(f, Fragment(c, given[i], p)) ELSE frags[j]]
  /\ deltasStarted' = TRUE
  /\ UNCHANGED <<reply, said, content, usage, sink>>

AllSent == /\ said = Len(reply.content)
           /\ \A i \in DOMAIN given : given[i] = Whole(reply.calls[i])

(* What a message costs: one token per piece of content and per call.        *)
Cost(msg) == Len(msg.content) + Len(msg.calls)

(* The usage chunk, when the endpoint honours include_usage.                 *)
UsageChunk == /\ Reading
              /\ AllSent
              /\ usage' = Cost(reply)
              /\ deltasStarted' = TRUE
              /\ UNCHANGED <<endpoint, content, frags, sink>>

-----------------------------------------------------------------------------
(* The assembled message: the fragments in the order of their index.         *)
NthIndex(n) ==
  CHOOSE i \in DOMAIN frags : Cardinality({j \in DOMAIN frags : j <= i}) = n

AssembledCalls == [n \in 1..Cardinality(DOMAIN frags) |-> frags[NthIndex(n)]]

(* Without usage it is estimated.                                            *)
Tokens(msg) == IF usage = 0 THEN Cost(msg) ELSE usage

Assemble ==
  LET msg == [content |-> content, calls |-> AssembledCalls]
  IN  result' = [content |-> msg.content, calls |-> msg.calls, tokens |-> Tokens(msg)]

(* "[DONE]", which the endpoint sends once it has sent everything.           *)
Done == /\ pc = "stream"
        /\ AllSent
        /\ Assemble
        /\ ended' = "DONE"
        /\ pc' = "done"
        /\ UNCHANGED <<endpoint, locals, deltasStarted, sink>>

(* The stream ends without it: the scanner sees a clean end of file.         *)
EndOfFile == /\ pc = "stream"
             /\ Assemble
             /\ ended' = "EOF"
             /\ pc' = "done"
             /\ UNCHANGED <<endpoint, locals, deltasStarted, sink>>

(* A chunk that does not decode, a read error, the client's timeout, which   *)
(* runs on while the body is read.                                           *)
(* Mutant: the timeout ends with the headers.                                *)
StreamErrorEarly == /\ pc = "stream"
                    /\ ~deltasStarted
                    /\ pc' = "degrade"
                    /\ ended' = "error"
                    /\ UNCHANGED <<endpoint, locals, deltasStarted, sink, result>>

StreamError == /\ pc = "stream"
               /\ pc' = IF deltasStarted THEN "failed" ELSE "degrade"
               /\ ended' = "error"
               /\ UNCHANGED <<endpoint, locals, deltasStarted, sink, result>>

(* Call: a whole reply, with the usage it was given and none for none; or an *)
(* error, by transport, a status of 400 and up, a body that does not decode  *)
(* or one without choices. A live consumer may be shown it whole.            *)
Call(shown) ==
  /\ \/ \E r \in Replies : \E tokens \in {0, Cost(r)} :
          /\ result' = [content |-> r.content, calls |-> r.calls, tokens |-> tokens]
          /\ sink' = IF shown THEN sink \o r.content ELSE sink
          /\ pc' = "done"
     \/ pc' = "failed" /\ UNCHANGED <<sink, result>>
  /\ UNCHANGED <<endpoint, locals, deltasStarted, ended>>

PlainCall == pc = "call" /\ Call(FALSE)

(* degradeToCall: a new completion, which may differ from the one begun.     *)
DegradeToCall == pc = "degrade" /\ Call(TRUE)

Next == \/ Open \/ EmptyChunk \/ ContentChunk \/ ToolCallChunk \/ UsageChunk
        \/ Done \/ EndOfFile \/ StreamError \/ PlainCall \/ DegradeToCall

Spec == Init /\ [][Next]_vars

(* Every request of the client has 120 s in all: it returns or it fails.     *)
FairSpec == /\ Spec
            /\ WF_vars(Open) /\ WF_vars(StreamError)
            /\ WF_vars(PlainCall) /\ WF_vars(DegradeToCall)

-----------------------------------------------------------------------------
(* What a live consumer saw is the completion that was recorded: degrading   *)
(* never shows it a second one after part of the first. Without streaming it *)
(* sees nothing.                                                             *)
SinkMatchesResult ==
  pc = "done" => sink = IF ended = "no stream" THEN <<>> ELSE result.content

(* Whatever the endpoint sends, be it chunks for ever, the turn gets its     *)
(* completion or its error.                                                  *)
CompletionEnds == pc = "idle" ~> pc \in {"done", "failed"}

(* A stream that reached [DONE] gives the message the endpoint produced,     *)
(* however its content and its parallel tool calls were cut and interleaved, *)
(* but for names that came in pieces, or not with every type: no id and no   *)
(* piece of args is lost, doubled or given to another call.                  *)
AssembledExact ==
  pc = "done" /\ ended = "DONE" =>
    /\ result.content = reply.content
    /\ DOMAIN result.calls = DOMAIN reply.calls
    /\ \A i \in DOMAIN reply.calls :
         /\ result.calls[i].id = reply.calls[i].id
         /\ result.calls[i].args = reply.calls[i].args
         /\ i \notin spelled \cup retyped => result.calls[i].name = reply.calls[i].name

-----------------------------------------------------------------------------
(* llm.go, deltaToolCall: "Function name and arguments arrive across         *)
(* multiple chunks". The runs show that a name which does is not assembled:  *)
(* each piece overwrites the one before it.                                  *)
NamesAssembled ==
  pc = "done" /\ ended = "DONE" =>
    \A i \in DOMAIN reply.calls \ retyped : result.calls[i].name = reply.calls[i].name

(* README, streaming: tool calls are dispatched only after the stream is     *)
(* fully assembled, "so tool-call arguments are complete before dispatch".   *)
ArgumentsComplete ==
  pc = "done" /\ ended \in {"DONE", "EOF"} =>
    \A i \in DOMAIN result.calls :
      \E j \in DOMAIN reply.calls : result.calls[i].args = reply.calls[j].args
=============================================================================
