----------------------------- MODULE MCLLMClient ----------------------------
(* Replies for LLMClient: text alone, text with two parallel tool calls, one *)
(* of a name in two pieces, and an empty message.                            *)
EXTENDS LLMClient

Two == <<[id |-> "a", name |-> <<7, 8>>, args |-> <<1, 2>>],
         [id |-> "b", name |-> <<9>>, args |-> <<4, 5>>]>>

MCReplies == {[content |-> <<1, 2, 3>>, calls |-> <<>>],
              [content |-> <<1, 2>>, calls |-> Two],
              [content |-> <<>>, calls |-> <<>>]}
=============================================================================
