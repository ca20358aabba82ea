---------------------------- MODULE LLMClientProofs ---------------------------
(* Proofs about one chat completion, for every reply of the endpoint and     *)
(* however its content and its calls are cut into chunks and interleaved.    *)
EXTENDS LLMClient, InductionProofs, SequenceTheorems

ReplyType == [content : Pieces, calls : Seq(ReplyCalls)]

(* The pieces of a text sent so far.                                         *)
Sent(text, n) == SubSeq(text, 1, n)

(* The fragments put together are what was sent of each call, but for the    *)
(* names that came in pieces or were erased.                                 *)
GivenType == [id : BOOLEAN, name : Nat, args : Nat]

Merged(i) ==
  LET c == reply.calls[i] IN
    /\ frags[i].id = IF given[i].id THEN c.id ELSE ""
    /\ frags[i].args = Sent(c.args, given[i].args)
    /\ i \notin spelled \cup retyped =>
         frags[i].name = IF given[i].name = 0 THEN << >> ELSE c.name

FragsInv ==
  /\ DOMAIN frags \subseteq DOMAIN given
  /\ \A i \in DOMAIN given : /\ given[i].args <= Len(reply.calls[i].args)
                             /\ i \in DOMAIN frags \/ given[i] = Nothing
  /\ \A i \in DOMAIN frags : Merged(i)

Opened == /\ pc = "idle" => ended = "" /\ ~deltasStarted /\ content = << >>
          /\ pc = "call" => ended = "no stream" /\ sink = <<>>
          /\ pc = "stream" => ended = "" /\ sink = content
          /\ pc = "degrade" => ended \in {"", "error"} /\ sink = <<>>
          /\ ~deltasStarted /\ pc # "done" => sink = <<>>

StreamInv ==
  /\ TypeOK
  /\ given \in [1..Len(reply.calls) -> GivenType]
  /\ usage \in {0, Cost(reply)}
  /\ content = Sent(reply.content, said)
  /\ FragsInv
  /\ Opened
  /\ SinkMatchesResult /\ AssembledExact

-----------------------------------------------------------------------------
LEMMA ReplyTyped ==
  ASSUME TypeOK
  PROVE  /\ reply.content \in Pieces /\ Len(reply.content) \in Nat
         /\ reply.calls \in Seq(ReplyCalls) /\ Len(reply.calls) \in Nat
         /\ Cost(reply) \in Nat
         /\ \A i \in 1..Len(reply.calls) :
              /\ reply.calls[i].args \in Pieces /\ Len(reply.calls[i].args) \in Nat
              /\ reply.calls[i].name \in Pieces /\ Len(reply.calls[i].name) \in Nat
              /\ Len(reply.calls[i].name) > 0
<1>1. reply \in ReplyType
  BY ReplyAssumption DEF TypeOK, ReplyType
<1>2. reply.content \in Pieces /\ reply.calls \in Seq(ReplyCalls)
  BY <1>1 DEF ReplyType
<1>3. Len(reply.content) \in Nat /\ Len(reply.calls) \in Nat
  BY <1>2 DEF Pieces
<1>4. ASSUME NEW i \in 1..Len(reply.calls)
      PROVE  /\ reply.calls[i].args \in Pieces /\ Len(reply.calls[i].args) \in Nat
             /\ reply.calls[i].name \in Pieces /\ Len(reply.calls[i].name) \in Nat
             /\ Len(reply.calls[i].name) > 0
  <2>1. reply.calls[i] \in ReplyCalls
    BY <1>2
  <2>2. /\ reply.calls[i].args \in Pieces
        /\ reply.calls[i].name \in Pieces /\ reply.calls[i].name # << >>
    BY <2>1 DEF ReplyCalls
  <2> QED
    BY <2>2, EmptySeq DEF Pieces
<1>5. Cost(reply) \in Nat
  <2>1. \A m, k \in Nat : m + k \in Nat
    OBVIOUS
  <2> DEFINE m == Len(reply.content)
             k == Len(reply.calls)
  <2>2. m \in Nat /\ k \in Nat /\ Cost(reply) = m + k
    BY <1>3 DEF Cost
  <2> HIDE DEF m, k
  <2> QED
    BY <2>1, <2>2
<1> QED
  BY <1>2, <1>3, <1>4, <1>5

(* One piece more.                                                           *)
LEMMA OnePieceMore ==
  ASSUME NEW text \in Pieces, NEW n \in Nat, n < Len(text)
  PROVE  /\ Sent(text, n + 1) = Append(Sent(text, n), text[n + 1])
         /\ Sent(text, n + 1) = Sent(text, n) \o <<text[n + 1]>>
<1> DEFINE a == Sent(text, n)
           b == Sent(text, n + 1)
           x == text[n + 1]
<1>1. text \in Seq(Nat) /\ Len(text) \in Nat /\ x \in Nat
  BY DEF Pieces
<1>2. /\ a \in Seq(Nat) /\ Len(a) = n /\ \A i \in 1..n : a[i] = text[i]
      /\ b \in Seq(Nat) /\ Len(b) = n + 1 /\ \A i \in 1..n + 1 : b[i] = text[i]
  BY <1>1 DEF Sent
<1> HIDE DEF a, b, x
<1>3. \A i \in 1..n + 1 : i \in 1..n \/ i = n + 1
  OBVIOUS
<1>4. /\ Append(a, x) \in Seq(Nat) /\ Len(Append(a, x)) = n + 1
      /\ \A i \in 1..n : Append(a, x)[i] = a[i]
      /\ Append(a, x)[n + 1] = x
  BY <1>1, <1>2, AppendProperties
<1>5. b = Append(a, x)
  BY <1>2, <1>3, <1>4, SeqEqual DEF x
<1>6. a \o <<x>> = Append(a, x)
  BY <1>1, <1>2
<1> QED
  BY <1>5, <1>6 DEF a, b, x

LEMMA AllPieces ==
  ASSUME NEW text \in Pieces
  PROVE  Sent(text, Len(text)) = text /\ Sent(text, 0) = << >>
<1>1. text \in Seq(Nat)
  BY DEF Pieces
<1>2. Sent(text, 0) \in Seq(Nat) /\ Len(Sent(text, 0)) = 0
  BY <1>1 DEF Sent
<1> QED
  BY <1>1, <1>2, SubSeqFull, EmptySeq DEF Sent


-----------------------------------------------------------------------------
(* The indexes of the fragments, in their order.                             *)
LEMMA UpToItself ==
  ASSUME NEW k \in Nat
  PROVE  \A i \in 1..k : Cardinality({j \in 1..k : j <= i}) = i
<1> SUFFICES ASSUME NEW i \in 1..k PROVE Cardinality({j \in 1..k : j <= i}) = i
  OBVIOUS
<1>1. {j \in 1..k : j <= i} = 1..i
  OBVIOUS
<1>2. Cardinality(1..i) = i
  BY FS_Interval
<1> QED
  BY <1>1, <1>2

(* With a fragment of every call, the assembled calls are the fragments.     *)
LEMMA AssembledInOrder ==
  ASSUME NEW k \in Nat, DOMAIN frags = 1..k
  PROVE  AssembledCalls = [n \in 1..k |-> frags[n]]
<1>1. Cardinality(DOMAIN frags) = k
  BY FS_Interval
<1>2. \A n \in 1..k : NthIndex(n) = n
  <2> SUFFICES ASSUME NEW n \in 1..k PROVE NthIndex(n) = n
    OBVIOUS
  <2>1. \A i \in 1..k : Cardinality({j \in 1..k : j <= i}) = n <=> i = n
    BY UpToItself
  <2>2. NthIndex(n) = CHOOSE i \in 1..k : Cardinality({j \in 1..k : j <= i}) = n
    BY DEF NthIndex
  <2> QED
    BY <2>1, <2>2
<1> QED
  BY <1>1, <1>2 DEF AssembledCalls

-----------------------------------------------------------------------------
LEMMA NoFragments == DOMAIN << >> = {}
<1>1. << >> \in Seq(Nat) /\ Len(<< >>) = 0
  OBVIOUS
<1>2. \A s \in Seq(Nat) : DOMAIN s = 1..Len(s)
  OBVIOUS
<1>3. DOMAIN << >> = 1..0
  BY <1>1, <1>2
<1> QED
  BY <1>3

LEMMA StreamInvInit == Init => StreamInv
<1> SUFFICES ASSUME Init PROVE StreamInv
  OBVIOUS
<1>1. TypeOK
  <2>1. reply \in ReplyType
    BY ReplyAssumption DEF Init, ReplyType
  <2>2. Len(reply.content) \in Nat
    BY <2>1 DEF ReplyType, Pieces
  <2>3. said \in 0..Len(reply.content)
    <3> DEFINE m == Len(reply.content)
    <3>1. m \in Nat /\ said = 0
      BY <2>2 DEF Init
    <3> HIDE DEF m
    <3>2. said \in 0..m
      BY <3>1
    <3> QED
      BY <3>2 DEF m
  <2>4. DOMAIN frags = {} /\ DOMAIN given = 1..Len(reply.calls)
    BY NoFragments DEF Init
  <2> QED
    BY <2>3, <2>4 DEF Init, TypeOK
<1>2. content = Sent(reply.content, said)
  BY <1>1, ReplyTyped, AllPieces DEF Init
<1>3. given \in [1..Len(reply.calls) -> GivenType]
  BY DEF Init, GivenType, Nothing
<1>5. FragsInv
  <2>1. DOMAIN frags = {} /\ \A i \in DOMAIN given : given[i] = Nothing
    BY NoFragments DEF Init
  <2>2. \A i \in DOMAIN given : Len(reply.calls[i].args) \in Nat
    BY <1>1, <1>3, ReplyTyped
  <2>3. \A i \in DOMAIN given : given[i].args <= Len(reply.calls[i].args)
    BY <2>1, <2>2 DEF Nothing
  <2> QED
    BY <2>1, <2>3 DEF FragsInv
<1> QED
  BY <1>1, <1>2, <1>3, <1>5
     DEF Init, StreamInv, Opened, SinkMatchesResult, AssembledExact

-----------------------------------------------------------------------------
(* What no chunk of content disturbs, and what no fragment disturbs.         *)
LEMMA OpenKeeps == StreamInv /\ Open => StreamInv'
<1> SUFFICES ASSUME StreamInv, Open PROVE StreamInv'
  OBVIOUS
<1> USE DEF Open, endpoint, locals
<1>1. TypeOK'
  BY DEF StreamInv, TypeOK
<1>2. (usage \in {0, Cost(reply)})' /\ FragsInv'
  BY DEF StreamInv, Cost, FragsInv, Merged, Sent
<1>3. Opened'
  BY DEF StreamInv, Opened
<1>4. pc' # "done"
  OBVIOUS
<1> QED
  BY <1>1, <1>2, <1>3, <1>4
     DEF StreamInv, Sent, SinkMatchesResult, AssembledExact

LEMMA EmptyChunkKeeps == StreamInv /\ EmptyChunk => StreamInv'
<1> SUFFICES ASSUME StreamInv, EmptyChunk PROVE StreamInv'
  OBVIOUS
<1> USE DEF EmptyChunk, Reading, endpoint, locals
<1>1. TypeOK'
  BY DEF StreamInv, TypeOK
<1>2. (usage \in {0, Cost(reply)})' /\ FragsInv'
  BY DEF StreamInv, Cost, FragsInv, Merged, Sent
<1>3. Opened'
  BY DEF StreamInv, Opened
<1> QED
  BY <1>1, <1>2, <1>3
     DEF StreamInv, Sent, SinkMatchesResult, AssembledExact

LEMMA UsageChunkKeeps == StreamInv /\ UsageChunk => StreamInv'
<1> SUFFICES ASSUME StreamInv, UsageChunk PROVE StreamInv'
  OBVIOUS
<1> USE DEF UsageChunk, Reading, endpoint
<1>0. Cost(reply) \in Nat
  BY ReplyTyped DEF StreamInv
<1>1. TypeOK'
  BY <1>0 DEF StreamInv, TypeOK
<1>2. (usage \in {0, Cost(reply)})' /\ FragsInv'
  BY DEF StreamInv, Cost, FragsInv, Merged, Sent
<1>3. Opened'
  BY DEF StreamInv, Opened
<1> QED
  BY <1>1, <1>2, <1>3
     DEF StreamInv, Sent, SinkMatchesResult, AssembledExact

LEMMA ContentChunkKeeps == StreamInv /\ ContentChunk => StreamInv'
<1> SUFFICES ASSUME StreamInv, ContentChunk PROVE StreamInv'
  OBVIOUS
<1> USE DEF ContentChunk, Reading
<1> TypeOK
  BY DEF StreamInv
<1>0. reply.content \in Pieces /\ said \in Nat /\ said < Len(reply.content)
  <2>1. reply.content \in Pieces /\ Len(reply.content) \in Nat
    BY ReplyTyped
  <2>2. said \in 0..Len(reply.content)
    BY DEF TypeOK
  <2> QED
    BY <2>1, <2>2
<1>1. TypeOK'
  <2>1. Len(reply.content) \in Nat
    BY ReplyTyped
  <2>2. said' \in 0..Len(reply.content)
    BY <1>0, <2>1
  <2> QED
    BY <2>2 DEF TypeOK
<1>2. (usage \in {0, Cost(reply)})' /\ FragsInv'
  BY DEF StreamInv, Cost, FragsInv, Merged, Sent
<1>3. Opened'
  BY DEF StreamInv, Opened
<1>4. content' = Sent(reply.content, said + 1)
  BY <1>0, OnePieceMore DEF StreamInv
<1>5. content' = Sent(reply'.content, said')
  BY <1>4
<1> QED
  BY <1>1, <1>2, <1>3, <1>5
     DEF StreamInv, Sent, SinkMatchesResult, AssembledExact

(* The fragment of a call is merged into what was sent of it.                *)
Piece(i) == IF i \in DOMAIN frags THEN frags[i] ELSE NoFrag

LEMMA PieceSent ==
  ASSUME StreamInv, NEW i \in DOMAIN given
  PROVE  /\ Piece(i).id = IF given[i].id THEN reply.calls[i].id ELSE ""
         /\ Piece(i).args = Sent(reply.calls[i].args, given[i].args)
         /\ i \notin spelled \cup retyped =>
              Piece(i).name = IF given[i].name = 0 THEN << >> ELSE reply.calls[i].name
<1>1. CASE i \in DOMAIN frags
  BY <1>1 DEF StreamInv, FragsInv, Merged, Piece
<1>2. CASE i \notin DOMAIN frags
  <2>1. given[i] = Nothing
    BY <1>2 DEF StreamInv, FragsInv
  <2>2. reply.calls[i].args \in Pieces
    BY ReplyTyped DEF StreamInv
  <2>3. Sent(reply.calls[i].args, 0) = << >>
    BY <2>2, AllPieces
  <2> QED
    BY <1>2, <2>1, <2>3 DEF Piece, NoFrag, Nothing
<1> QED
  BY <1>1, <1>2

LEMMA MergeAdds ==
  ASSUME StreamInv, NEW i \in DOMAIN given, NEW p \in Carried,
         CanCarry(reply.calls[i], given[i], p)
  PROVE  LET c == reply.calls[i]
             g == Given(c, given[i], p)
             t == Merge(Piece(i), Fragment(c, given[i], p))
         IN  /\ g \in GivenType
             /\ t.id = IF g.id THEN c.id ELSE ""
             /\ t.args = Sent(c.args, g.args)
             /\ g.args <= Len(c.args)
             /\ i \notin spelled \cup retyped /\ p.name # "piece"
                  /\ ~(p.type /\ p.name = "none" /\ given[i].name > 0) =>
                  t.name = IF g.name = 0 THEN << >> ELSE c.name
<1> DEFINE c == reply.calls[i]
           f == Piece(i)
           g == given[i]
           h == Given(c, g, p)
           t == Fragment(c, g, p)
           m == Merge(f, t)
<1>1. i \in 1..Len(reply.calls) /\ g \in GivenType
  BY DEF StreamInv
<1>2. /\ c.args \in Pieces /\ c.name \in Pieces
      /\ Len(c.name) \in Nat /\ Len(c.name) > 0
  BY <1>1, ReplyTyped DEF StreamInv
<1>3. /\ f.id = IF g.id THEN c.id ELSE ""
      /\ f.args = Sent(c.args, g.args)
      /\ i \notin spelled \cup retyped => f.name = IF g.name = 0 THEN << >> ELSE c.name
  BY PieceSent
<1>4. /\ g.id \in BOOLEAN /\ g.name \in Nat /\ g.args \in Nat
      /\ p.id \in BOOLEAN /\ p.type \in BOOLEAN /\ p.args \in BOOLEAN
      /\ p.name \in {"none", "piece", "whole"}
  BY <1>1 DEF GivenType, Carried
<1>5. /\ t.id = IF p.id THEN c.id ELSE ""
      /\ t.type = IF p.type THEN "function" ELSE ""
      /\ p.name = "none" => t.name = << >>
      /\ p.name = "whole" => t.name = c.name
      /\ t.args = IF p.args THEN <<c.args[g.args + 1]>> ELSE << >>
  BY DEF Fragment
<1>6. /\ h.id = (g.id \/ p.id)
      /\ p.name = "none" => h.name = g.name
      /\ p.name = "whole" => h.name = Len(c.name)
      /\ h.args = IF p.args THEN g.args + 1 ELSE g.args
  BY DEF Given
<1>7. h \in GivenType
  <2>1. h.name \in Nat
    BY <1>2, <1>4 DEF Given
  <2>2. h.args \in Nat /\ h.id \in BOOLEAN
    BY <1>4, <1>6
  <2> QED
    BY <2>1, <2>2 DEF Given, GivenType
<1>8. /\ m.id = IF t.id # "" THEN t.id ELSE f.id
      /\ m.name = IF t.type # "" \/ t.name # << >> THEN t.name ELSE f.name
      /\ m.args = f.args \o t.args
  BY DEF Merge
<1>9. /\ p.args => g.args < Len(c.args)
      /\ g.args <= Len(c.args) /\ Len(c.args) \in Nat
  BY <1>2 DEF CanCarry, StreamInv, FragsInv, Pieces
<1> HIDE DEF f, c, g, h, t, m
<1>10. m.id = IF h.id THEN c.id ELSE ""
  BY <1>3, <1>4, <1>5, <1>6, <1>8
<1>11. m.args = Sent(c.args, h.args)
  <2>1. CASE p.args
    <3>1. Sent(c.args, g.args + 1) = Sent(c.args, g.args) \o <<c.args[g.args + 1]>>
      BY <1>2, <1>4, <1>9, <2>1, OnePieceMore
    <3>2. m.args = Sent(c.args, g.args) \o <<c.args[g.args + 1]>> /\ h.args = g.args + 1
      BY <1>3, <1>5, <1>6, <1>8, <2>1
    <3> QED
      BY <3>1, <3>2
  <2>2. CASE ~p.args
    <3>1. Sent(c.args, g.args) \in Seq(Nat)
      BY <1>2, <1>4, <1>9 DEF Sent, Pieces
    <3>2. Sent(c.args, g.args) \o << >> = Sent(c.args, g.args)
      BY <3>1
    <3>3. m.args = Sent(c.args, g.args) \o << >> /\ h.args = g.args
      BY <1>3, <1>5, <1>6, <1>8, <2>2
    <3> QED
      BY <3>2, <3>3
  <2> QED
    BY <1>4, <2>1, <2>2
<1>12. ASSUME i \notin spelled \cup retyped, p.name # "piece",
              ~(p.type /\ p.name = "none" /\ g.name > 0)
       PROVE  m.name = IF h.name = 0 THEN << >> ELSE c.name
  <2>0. c.name # << >>
    BY <1>2
  <2>1. CASE p.name = "whole"
    <3>1. t.name = c.name /\ h.name = Len(c.name)
      BY <1>5, <1>6, <2>1
    <3>2. m.name = c.name
      BY <1>8, <2>0, <3>1
    <3>3. h.name # 0
      BY <1>2, <3>1
    <3> QED
      BY <3>2, <3>3
  <2>2. CASE p.name = "none"
    <3>1. t.name = << >> /\ h.name = g.name
      BY <1>5, <1>6, <2>2
    <3>2. f.name = IF g.name = 0 THEN << >> ELSE c.name
      BY <1>3, <1>12
    <3>3. CASE g.name = 0
      BY <1>8, <3>1, <3>2, <3>3
    <3>4. CASE g.name # 0
      <4>1. ~p.type
        BY <1>4, <1>12, <2>2, <3>4
      <4>2. t.type = ""
        BY <1>5, <4>1
      <4> QED
        BY <1>8, <3>1, <3>2, <3>4, <4>2
    <3> QED
      BY <3>3, <3>4
  <2> QED
    BY <1>4, <1>12, <2>1, <2>2
<1>13. h.args <= Len(c.args)
  BY <1>4, <1>6, <1>9
<1> QED
  BY <1>7, <1>10, <1>11, <1>12, <1>13 DEF f, c, g, h, t, m

LEMMA ToolCallChunkKeeps == StreamInv /\ ToolCallChunk => StreamInv'
<1> SUFFICES ASSUME StreamInv, ToolCallChunk PROVE StreamInv'
  OBVIOUS
<1> USE DEF Reading
<1>1. PICK i \in DOMAIN given, p \in Carried :
        LET c == reply.calls[i]
            f == IF i \in DOMAIN frags THEN frags[i] ELSE NoFrag
        IN  /\ CanCarry(c, given[i], p)
            /\ given' = [given EXCEPT ![i] = Given(c, @, p)]
            /\ spelled' = IF p.name = "piece" THEN spelled \cup {i} ELSE spelled
            /\ retyped' = IF p.type /\ p.name = "none" /\ given[i].name > 0
                            THEN retyped \cup {i} ELSE retyped
            /\ frags' = [j \in DOMAIN frags \cup {i} |->
                           IF j = i THEN Merge(f, Fragment(c, given[i], p)) ELSE frags[j]]
  BY DEF ToolCallChunk
<1> DEFINE new == Merge(Piece(i), Fragment(reply.calls[i], given[i], p))
           now == Given(reply.calls[i], given[i], p)
<1>2. /\ CanCarry(reply.calls[i], given[i], p)
      /\ given' = [given EXCEPT ![i] = now]
      /\ frags' = [j \in DOMAIN frags \cup {i} |-> IF j = i THEN new ELSE frags[j]]
  BY <1>1 DEF Piece
<1>3. /\ pc = "stream" /\ pc' = "stream" /\ deltasStarted' = TRUE
      /\ UNCHANGED <<reply, said, content, usage, sink, result, ended>>
  BY DEF ToolCallChunk
<1>4. given \in [1..Len(reply.calls) -> GivenType] /\ DOMAIN given = 1..Len(reply.calls)
  BY DEF StreamInv
<1>5. /\ now \in GivenType
      /\ new.id = IF now.id THEN reply.calls[i].id ELSE ""
      /\ new.args = Sent(reply.calls[i].args, now.args)
      /\ now.args <= Len(reply.calls[i].args)
      /\ i \notin spelled' \cup retyped' =>
           new.name = IF now.name = 0 THEN << >> ELSE reply.calls[i].name
  BY <1>1, <1>2, MergeAdds
<1> HIDE DEF new, now
<1>6. /\ given' \in [1..Len(reply.calls) -> GivenType] /\ DOMAIN given' = DOMAIN given
      /\ given'[i] = now
      /\ \A j \in DOMAIN given : j # i => given'[j] = given[j]
  BY <1>2, <1>4, <1>5
<1>7. /\ DOMAIN frags' = DOMAIN frags \cup {i} /\ frags'[i] = new
      /\ \A j \in DOMAIN frags : j # i => frags'[j] = frags[j]
  BY <1>2
<1>8. /\ spelled \subseteq spelled' /\ spelled' \subseteq spelled \cup {i}
      /\ retyped \subseteq retyped' /\ retyped' \subseteq retyped \cup {i}
  BY <1>1
<1>9. TypeOK'
  BY <1>3, <1>4, <1>6, <1>7, <1>8 DEF StreamInv, TypeOK
<1>10. FragsInv'
  <2>1. DOMAIN frags' \subseteq DOMAIN given'
    BY <1>6, <1>7 DEF StreamInv, FragsInv
  <2>2. \A j \in DOMAIN given' : /\ given'[j].args <= Len(reply'.calls[j].args)
                                 /\ j \in DOMAIN frags' \/ given'[j] = Nothing
    BY <1>3, <1>5, <1>6, <1>7 DEF StreamInv, FragsInv
  <2>3. ASSUME NEW j \in DOMAIN frags' PROVE Merged(j)'
    <3>1. CASE j = i
      BY <1>3, <1>5, <1>6, <1>7, <3>1 DEF Merged, Sent
    <3>2. CASE j # i
      <4>1. j \in DOMAIN frags /\ j \in DOMAIN given /\ Merged(j)
        BY <1>7, <3>2 DEF StreamInv, FragsInv
      <4>2. frags'[j] = frags[j] /\ given'[j] = given[j] /\ reply' = reply
        BY <1>3, <1>6, <1>7, <3>2, <4>1
      <4> QED
        BY <1>8, <4>1, <4>2 DEF Merged, Sent
    <3> QED
      BY <3>1, <3>2
  <2> QED
    BY <2>1, <2>2, <2>3 DEF FragsInv
<1>11. (usage \in {0, Cost(reply)})' /\ (content = Sent(reply.content, said))'
  BY <1>3 DEF StreamInv, Cost, Sent
<1>12. Opened'
  BY <1>3 DEF StreamInv, Opened
<1> QED
  BY <1>3, <1>6, <1>9, <1>10, <1>11, <1>12 DEF StreamInv, SinkMatchesResult, AssembledExact

-----------------------------------------------------------------------------
(* A finished stream: the message assembled is what was sent.                *)
LEMMA AllSentAssembled ==
  ASSUME StreamInv, AllSent
  PROVE  /\ content = reply.content /\ DOMAIN AssembledCalls = DOMAIN reply.calls
         /\ \A i \in DOMAIN reply.calls :
              /\ AssembledCalls[i].id = reply.calls[i].id
              /\ AssembledCalls[i].args = reply.calls[i].args
              /\ i \notin spelled \cup retyped => AssembledCalls[i].name = reply.calls[i].name
<1>0. TypeOK /\ DOMAIN given = 1..Len(reply.calls)
  BY DEF StreamInv, TypeOK
<1>1. /\ reply.content \in Pieces /\ reply.calls \in Seq(ReplyCalls)
      /\ Len(reply.calls) \in Nat /\ DOMAIN reply.calls = 1..Len(reply.calls)
  BY <1>0, ReplyTyped
<1>2. content = reply.content
  BY <1>1, AllPieces DEF StreamInv, AllSent
<1>3. ASSUME NEW i \in 1..Len(reply.calls)
      PROVE  /\ i \in DOMAIN frags
             /\ frags[i].id = reply.calls[i].id
             /\ frags[i].args = reply.calls[i].args
             /\ i \notin spelled \cup retyped => frags[i].name = reply.calls[i].name
  <2>1. reply.calls[i].args \in Pieces /\ Len(reply.calls[i].name) > 0
    BY <1>0, ReplyTyped
  <2>0. i \in DOMAIN given /\ given[i] = Whole(reply.calls[i])
    BY <1>0 DEF AllSent
  <2>2. /\ given[i].id = TRUE /\ given[i].name = Len(reply.calls[i].name)
        /\ given[i].args = Len(reply.calls[i].args)
    BY <2>0 DEF Whole
  <2>5. given[i] # Nothing
    <3>1. Nothing.id = FALSE
      BY DEF Nothing
    <3> QED
      BY <2>2, <3>1
  <2>3. i \in DOMAIN frags /\ Merged(i)
    BY <2>0, <2>5 DEF StreamInv, FragsInv
  <2>4. Sent(reply.calls[i].args, given[i].args) = reply.calls[i].args
    BY <2>1, <2>2, AllPieces
  <2>6. Len(reply.calls[i].name) # 0
    <3>1. Len(reply.calls[i].name) \in Nat /\ Len(reply.calls[i].name) > 0
      BY <1>0, ReplyTyped
    <3> QED
      BY <3>1
  <2>7. /\ frags[i].id = reply.calls[i].id
        /\ frags[i].args = reply.calls[i].args
    BY <2>2, <2>3, <2>4 DEF Merged
  <2>8. i \notin spelled \cup retyped => frags[i].name = reply.calls[i].name
    BY <2>2, <2>3, <2>6 DEF Merged
  <2> QED
    BY <2>3, <2>7, <2>8
<1>4. DOMAIN frags = 1..Len(reply.calls)
  BY <1>0, <1>3 DEF TypeOK
<1>5. AssembledCalls = [n \in 1..Len(reply.calls) |-> frags[n]]
  BY <1>1, <1>4, AssembledInOrder
<1> QED
  BY <1>1, <1>2, <1>3, <1>5

LEMMA StreamEnds ==
  ASSUME StreamInv, pc = "stream", Assemble, pc' = "done", ended' \in {"DONE", "EOF"},
         ended' = "DONE" => AllSent,
         UNCHANGED <<endpoint, locals, deltasStarted, sink>>
  PROVE  StreamInv'
<1> USE DEF endpoint, locals
<1>1. TypeOK'
  BY DEF StreamInv, TypeOK
<1>2. (usage \in {0, Cost(reply)})' /\ FragsInv' /\ (content = Sent(reply.content, said))'
  BY DEF StreamInv, Cost, FragsInv, Merged, Sent
<1>3. Opened'
  BY DEF StreamInv, Opened
<1>4. SinkMatchesResult'
  BY DEF StreamInv, Opened, SinkMatchesResult, Assemble
<1>5. AssembledExact'
  BY AllSentAssembled DEF AssembledExact, Assemble
<1> QED
  BY <1>1, <1>2, <1>3, <1>4, <1>5 DEF StreamInv

LEMMA StreamErrorKeeps == StreamInv /\ StreamError => StreamInv'
<1> SUFFICES ASSUME StreamInv, StreamError PROVE StreamInv'
  OBVIOUS
<1> USE DEF StreamError, endpoint, locals
<1>1. TypeOK'
  BY DEF StreamInv, TypeOK
<1>2. (usage \in {0, Cost(reply)})' /\ FragsInv' /\ (content = Sent(reply.content, said))'
  BY DEF StreamInv, Cost, FragsInv, Merged, Sent
<1>3. Opened'
  BY DEF StreamInv, Opened
<1>4. pc' # "done"
  OBVIOUS
<1> QED
  BY <1>1, <1>2, <1>3, <1>4
     DEF StreamInv, SinkMatchesResult, AssembledExact

(* A whole reply: shown to the consumer only if it has seen nothing.         *)
LEMMA CallKeeps ==
  ASSUME StreamInv, NEW shown \in BOOLEAN, Call(shown),
         pc = IF shown THEN "degrade" ELSE "call"
  PROVE  StreamInv'
<1> USE DEF Call, endpoint, locals
<1>1. TypeOK'
  BY DEF StreamInv, TypeOK
<1>2. (usage \in {0, Cost(reply)})' /\ FragsInv' /\ (content = Sent(reply.content, said))'
  BY DEF StreamInv, Cost, FragsInv, Merged, Sent
<1>3. Opened'
  BY DEF StreamInv, Opened
<1>4. ended' \notin {"DONE", "EOF"} /\ sink = << >>
  BY DEF StreamInv, Opened
<1>5. SinkMatchesResult'
  <2> SUFFICES ASSUME pc' = "done" PROVE SinkMatchesResult'
    BY DEF SinkMatchesResult
  <2>1. PICK r \in Replies : /\ result'.content = r.content
                             /\ sink' = IF shown THEN sink \o r.content ELSE sink
    OBVIOUS
  <2>2. r.content \in Seq(Nat)
    BY ReplyAssumption DEF Pieces
  <2>3. << >> \o r.content = r.content
    BY <2>2
  <2>4. ended' = "no stream" <=> ~shown
    BY DEF StreamInv, Opened
  <2> QED
    BY <1>4, <2>1, <2>3, <2>4 DEF SinkMatchesResult
<1> QED
  BY <1>1, <1>2, <1>3, <1>4, <1>5 DEF StreamInv, AssembledExact

-----------------------------------------------------------------------------
LEMMA StreamInvKept == StreamInv /\ [Next]_vars => StreamInv'
<1> SUFFICES ASSUME StreamInv, [Next]_vars PROVE StreamInv'
  OBVIOUS
<1>1. CASE Open
  BY <1>1, OpenKeeps
<1>2. CASE EmptyChunk
  BY <1>2, EmptyChunkKeeps
<1>3. CASE ContentChunk
  BY <1>3, ContentChunkKeeps
<1>4. CASE ToolCallChunk
  BY <1>4, ToolCallChunkKeeps
<1>5. CASE UsageChunk
  BY <1>5, UsageChunkKeeps
<1>6. CASE Done
  BY <1>6, StreamEnds DEF Done
<1>7. CASE EndOfFile
  BY <1>7, StreamEnds DEF EndOfFile
<1>8. CASE StreamError
  BY <1>8, StreamErrorKeeps
<1>9. CASE PlainCall
  BY <1>9, CallKeeps DEF PlainCall
<1>10. CASE DegradeToCall
  BY <1>10, CallKeeps DEF DegradeToCall
<1>11. CASE UNCHANGED vars
  BY <1>11 DEF vars, StreamInv, TypeOK, Cost, FragsInv, Merged, Sent,
               Opened, SinkMatchesResult, AssembledExact
<1> QED
  BY <1>1, <1>2, <1>3, <1>4, <1>5, <1>6, <1>7, <1>8, <1>9, <1>10, <1>11 DEF Next

(* However a stream is cut and interleaved, what readSSE holds is what the   *)
(* endpoint has sent so far, and what the consumer saw is its content.       *)
THEOREM StreamHolds == Spec => []StreamInv
<1> QED
  BY StreamInvInit, StreamInvKept, PTL DEF Spec

(* Every variable keeps its type, whatever the endpoint replies.             *)
THEOREM ClientTyped == Spec => []TypeOK
<1>1. StreamInv => TypeOK
  BY DEF StreamInv
<1> QED
  BY <1>1, StreamHolds, PTL

(* A live consumer sees the completion that is recorded and no other, also   *)
(* when CallStream degrades to Call.                                         *)
THEOREM ConsumerSeesResult == Spec => []SinkMatchesResult
<1>1. StreamInv => SinkMatchesResult
  BY DEF StreamInv
<1> QED
  BY <1>1, StreamHolds, PTL

(* A stream that ends with [DONE] is assembled into the message produced:    *)
(* its content and every parallel call, in order, with its id and arguments  *)
(* however they were cut, and with its name unless that came in pieces or    *)
(* the type came again without it.                                           *)
THEOREM StreamAssembled == Spec => []AssembledExact
<1>1. StreamInv => AssembledExact
  BY DEF StreamInv
<1> QED
  BY <1>1, StreamHolds, PTL
=============================================================================
