----------------------------- MODULE HarnessProofs ----------------------------
(* Proofs about the harness, for every environment, line and tool call: what *)
(* the allow-list and the walk over a line come to, and from them that the   *)
(* words of a line start only what is granted or bears a builtin's name,     *)
(* that a line is refused just when it should be and what the model is told. *)
EXTENDS HarnessProperties, ValidateProofs

(* Allow-lists: each name stands for an entry of that name, and what is      *)
(* listed is there.                                                          *)
Forms == [commands : UNION {[S -> EntryType] : S \in SUBSET Names}, order : Seq(Names)]

Allowlists == {a \in Forms : /\ \A x \in DOMAIN a.commands : a.commands[x].name = x
                             /\ \A i \in 1..Len(a.order) : a.order[i] \in DOMAIN a.commands}

LEMMA NewAllowlistType == NewAllowlist \in Allowlists
<1>1. <<>> \in [{} -> EntryType] /\ <<>> \in Seq(Names)
  OBVIOUS
<1>2. NewAllowlist \in Forms
  BY <1>1 DEF NewAllowlist, Forms
<1>3. NewAllowlist.commands = <<>> /\ NewAllowlist.order = <<>> /\ DOMAIN <<>> = {} /\ Len(<<>>) = 0
  BY DEF NewAllowlist
<1> QED
  BY <1>2, <1>3 DEF Allowlists

LEMMA AddType ==
  ASSUME NEW a \in Allowlists, NEW e \in EntryType
  PROVE  Add(a, e) \in Allowlists
<1>1. PICK S \in SUBSET Names : a.commands \in [S -> EntryType]
  BY DEF Allowlists, Forms
<1>2. a.order \in Seq(Names) /\ e.name \in Names
  BY DEF Allowlists, Forms, EntryType
<1>3. Put(a.commands, e.name, e) \in [S \cup {e.name} -> EntryType]
  BY <1>1 DEF Put
<1>4. S \cup {e.name} \in SUBSET Names /\ Append(a.order, e.name) \in Seq(Names)
  BY <1>2
<1> DEFINE b == [commands |-> Put(a.commands, e.name, e), order |-> Append(a.order, e.name)]
<1>5. b \in Forms
  BY <1>3, <1>4 DEF Forms
<1>6. \A x \in DOMAIN b.commands : b.commands[x].name = x
  BY DEF Allowlists, Put
<1>7. ASSUME NEW i \in 1..Len(b.order) PROVE b.order[i] \in DOMAIN b.commands
  <2>1. Len(b.order) = Len(a.order) + 1 /\ Len(a.order) \in Nat
    BY <1>2
  <2>2. DOMAIN b.commands = DOMAIN a.commands \cup {e.name}
    BY DEF Put
  <2>3. CASE i \in 1..Len(a.order)
    <3>1. b.order[i] = a.order[i]
      BY <1>2, <2>3
    <3> QED
      BY <2>2, <2>3, <3>1 DEF Allowlists
  <2>4. CASE i = Len(a.order) + 1
    <3>1. b.order[i] = e.name
      BY <1>2, <2>4
    <3> QED
      BY <2>2, <3>1
  <2> QED
    BY <2>1, <2>3, <2>4
<1>8. b \in Allowlists
  <2> HIDE DEF b
  <2> QED
    BY <1>5, <1>6, <1>7 DEF Allowlists
<1> QED
  BY <1>8 DEF Add

AddsUp(es, f) == f = [i \in 0..Len(es) |-> IF i = 0 THEN NewAllowlist ELSE Add(f[i - 1], es[i])]

(* AllowlistOf adds one entry after the other.                               *)
LEMMA AllowlistIsFold ==
  ASSUME NEW es \in Seq(EntryType)
  PROVE  \E f \in [0..Len(es) -> Allowlists] : AddsUp(es, f) /\ AllowlistOf(es) = f[Len(es)]
<1> DEFINE N == Len(es)
           A == Allowlists
           step == [n \in 1..N |-> [v \in A |-> Add(v, es[n])]]
           list == CHOOSE f : AddsUp(es, f)
<1>1. N \in Nat /\ NewAllowlist \in A
  BY NewAllowlistType
<1>2. \A n \in 1..N : es[n] \in EntryType /\ \A v \in A : Add(v, es[n]) \in A
  BY AddType
<1>3. step \in Steps(N, A)
  BY <1>2 DEF Steps
<1>4. PICK f \in [0..N -> A] : IsFold(f, N, NewAllowlist, step)
  <2> HIDE DEF step, N, A
  <2> QED
    BY <1>1, <1>3, FoldExists
<1>5. ASSUME NEW n \in 1..N PROVE f[n] = Add(f[n - 1], es[n])
  <2>1. n - 1 \in 0..N
    BY <1>1
  <2>2. f[n - 1] \in A
    BY <1>4, <2>1
  <2>3. step[n][f[n - 1]] = Add(f[n - 1], es[n])
    BY <2>2
  <2> HIDE DEF step
  <2> QED
    BY <1>4, <2>3 DEF IsFold
<1>6. AddsUp(es, f)
  <2>1. f = [n \in 0..N |-> f[n]]
    BY <1>4
  <2>2. \A n \in 0..N : f[n] = IF n = 0 THEN NewAllowlist ELSE Add(f[n - 1], es[n])
    BY <1>4, <1>5 DEF IsFold
  <2> QED
    BY <2>1, <2>2 DEF AddsUp
<1>7. AddsUp(es, list)
  BY <1>6
<1>8. AllowlistOf(es) = list[N]
  BY DEF AllowlistOf, AddsUp
<1>9. list \in [0..N -> A]
  <2> DEFINE T == {n \in 0..N : list[n] \in A}
  <2>1. 0 \in T
    <3>1. 0 \in 0..N
      BY <1>1
    <3>2. list[0] = NewAllowlist
      BY <1>7, <3>1 DEF AddsUp
    <3> QED
      BY <1>1, <3>1, <3>2
  <2>2. ASSUME NEW n \in 0..N - 1, n \in T PROVE n + 1 \in T
    <3>1. n + 1 \in 1..N /\ n + 1 \in 0..N /\ (n + 1) - 1 = n /\ n + 1 # 0
      BY <1>1
    <3>2. list[n + 1] = Add(list[n], es[n + 1])
      BY <1>7, <3>1 DEF AddsUp
    <3> QED
      BY <1>2, <2>2, <3>1, <3>2
  <2> HIDE DEF T
  <2>3. 0..N \subseteq T
    BY <1>1, <2>1, <2>2, UpTo
  <2>4. \A n \in 0..N : list[n] \in A
    BY <2>3 DEF T
  <2> QED
    BY <1>7, <2>4 DEF AddsUp
<1> QED
  BY <1>7, <1>8, <1>9

-----------------------------------------------------------------------------
(* What the first n entries come to: a name stands for the first entry with  *)
(* it, and the order is that of the first mentions.                          *)
FirstTo(es, n) == {j \in FirstMentions(es) : j <= n}

(* The place of the k-th entry among those that are listed.                  *)
Place(es, k) == Cardinality({j \in FirstMentions(es) : j <= k})

Lists(es, n, a) ==
  /\ \A x \in Names : x \in DOMAIN a.commands <=> x # "" /\ \E k \in 1..n : es[k].name = x
  /\ \A k \in FirstMentions(es) : k <= n => a.commands[es[k].name] = es[k]
  /\ Len(a.order) = Cardinality(FirstTo(es, n))
  /\ \A k \in FirstMentions(es) : k <= n => a.order[Place(es, k)] = es[k].name

LEMMA Mentions ==
  ASSUME NEW es \in Seq(EntryType)
  PROVE  /\ DOMAIN es = 1..Len(es) /\ Len(es) \in Nat /\ FirstMentions(es) \subseteq 1..Len(es)
         /\ \A k \in 1..Len(es) : es[k] \in EntryType /\ es[k].name \in Names
         /\ \A k \in FirstMentions(es) : k \in Int /\ es[k].name # ""
<1>1. DOMAIN es = 1..Len(es) /\ Len(es) \in Nat
  OBVIOUS
<1>2. FirstMentions(es) \subseteq 1..Len(es)
  BY <1>1 DEF FirstMentions
<1>3. \A k \in 1..Len(es) : es[k] \in EntryType
  OBVIOUS
<1>4. \A e \in EntryType : e.name \in Names
  BY DEF EntryType
<1>5. \A k \in FirstMentions(es) : es[k].name # ""
  BY DEF FirstMentions
<1>6. \A k \in 1..Len(es) : k \in Int
  OBVIOUS
<1>7. \A k \in FirstMentions(es) : k \in Int /\ es[k].name # ""
  BY <1>2, <1>5, <1>6
<1>8. \A k \in 1..Len(es) : es[k] \in EntryType /\ es[k].name \in Names
  BY <1>3, <1>4
<1> QED
  BY <1>1, <1>2, <1>7, <1>8

LEMMA FirstToGrows ==
  ASSUME NEW es \in Seq(EntryType), NEW n \in 0..Len(es)
  PROVE  /\ IsFiniteSet(FirstTo(es, n)) /\ Cardinality(FirstTo(es, n)) \in Nat
         /\ n # 0 /\ n \in FirstMentions(es) =>
              /\ FirstTo(es, n) = FirstTo(es, n - 1) \cup {n}
              /\ Cardinality(FirstTo(es, n)) = Cardinality(FirstTo(es, n - 1)) + 1
         /\ n # 0 /\ n \notin FirstMentions(es) => FirstTo(es, n) = FirstTo(es, n - 1)
<1>1. DOMAIN es = 1..Len(es) /\ Len(es) \in Nat /\ FirstMentions(es) \subseteq 1..Len(es)
  BY Mentions
<1>2. \A m \in 0..Len(es) : IsFiniteSet(FirstTo(es, m))
  <2>1. IsFiniteSet(1..Len(es))
    BY <1>1, FS_Interval
  <2>2. \A m : FirstTo(es, m) \in SUBSET (1..Len(es))
    BY <1>1 DEF FirstTo
  <2> QED
    BY <2>1, <2>2, FS_Subset
<1>3. ASSUME n # 0, n \in FirstMentions(es)
      PROVE  /\ FirstTo(es, n) = FirstTo(es, n - 1) \cup {n}
             /\ Cardinality(FirstTo(es, n)) = Cardinality(FirstTo(es, n - 1)) + 1
  <2>1. n - 1 \in 0..Len(es) /\ n \notin FirstTo(es, n - 1)
    BY <1>1, <1>3 DEF FirstTo
  <2>2. FirstTo(es, n) = FirstTo(es, n - 1) \cup {n}
    BY <1>1, <1>3 DEF FirstTo
  <2>3. Cardinality(FirstTo(es, n - 1) \cup {n}) = Cardinality(FirstTo(es, n - 1)) + 1
    BY <1>2, <2>1, FS_AddElement
  <2> QED
    BY <2>2, <2>3
<1>4. ASSUME n # 0, n \notin FirstMentions(es) PROVE FirstTo(es, n) = FirstTo(es, n - 1)
  BY <1>1, <1>4 DEF FirstTo
<1> QED
  BY <1>2, <1>3, <1>4, FS_CardinalityType

LEMMA PlaceBounds ==
  ASSUME NEW es \in Seq(EntryType), NEW n \in 0..Len(es), NEW k \in FirstMentions(es), k <= n
  PROVE  Place(es, k) \in 1..Cardinality(FirstTo(es, n))
<1>1. k \in 1..Len(es) /\ k \in 0..Len(es)
  <2>1. k \in 1..Len(es) /\ Len(es) \in Nat
    BY Mentions
  <2> QED
    BY <2>1
<1>2. /\ IsFiniteSet(FirstTo(es, n)) /\ Cardinality(FirstTo(es, n)) \in Nat
      /\ IsFiniteSet(FirstTo(es, k)) /\ Cardinality(FirstTo(es, k)) \in Nat
  BY <1>1, FirstToGrows
<1>3. FirstTo(es, k) \in SUBSET FirstTo(es, n) /\ k \in FirstTo(es, k)
  <2>1. \A j \in FirstMentions(es) : j \in Int
    BY Mentions
  <2>2. \A j \in FirstMentions(es) : j <= k => j <= n
    BY <1>1, <2>1
  <2>3. k <= k
    BY <1>1
  <2> QED
    BY <2>2, <2>3 DEF FirstTo
<1>4. Cardinality(FirstTo(es, k)) <= Cardinality(FirstTo(es, n))
  BY <1>2, <1>3, FS_Subset
<1>5. Cardinality(FirstTo(es, k)) # 0
  BY <1>2, <1>3, FS_EmptySet
<1>6. Place(es, k) = Cardinality(FirstTo(es, k))
  BY DEF Place, FirstTo
<1> QED
  BY <1>2, <1>4, <1>5, <1>6

LEMMA AddLists ==
  ASSUME NEW es \in Seq(EntryType), NEW n \in 1..Len(es), NEW a \in Allowlists,
         Lists(es, n - 1, a)
  PROVE  Lists(es, n, Add(a, es[n]))
<1>0. /\ DOMAIN es = 1..Len(es) /\ Len(es) \in Nat /\ n \in 0..Len(es) /\ n - 1 \in 0..Len(es)
      /\ n # 0 /\ n \in DOMAIN es
  OBVIOUS
<1>1. PICK S \in SUBSET Names : a.commands \in [S -> EntryType]
  BY DEF Allowlists, Forms
<1>2. DOMAIN a.commands \subseteq Names /\ a.order \in Seq(Names)
  BY <1>1 DEF Allowlists, Forms
<1>3. es[n].name \in Names
  BY Mentions
<1>4. \A x \in Names : x \in DOMAIN a.commands <=> x # "" /\ \E k \in 1..n - 1 : es[k].name = x
  BY DEF Lists
<1>5. \A k \in FirstMentions(es) : k \in 1..Len(es) /\ es[k].name # ""
  BY Mentions
<1>6. CASE es[n].name = "" \/ es[n].name \in DOMAIN a.commands
  <2>1. Add(a, es[n]) = a
    BY <1>6 DEF Add
  <2>2. n \notin FirstMentions(es)
    BY <1>3, <1>4, <1>6 DEF FirstMentions
  <2>3. FirstTo(es, n) = FirstTo(es, n - 1)
    BY <1>0, <2>2, FirstToGrows
  <2>4. ASSUME NEW k \in FirstMentions(es), k <= n PROVE k <= n - 1
    <3>1. k \in Int /\ k # n
      BY <2>2, Mentions
    <3> QED
      BY <2>4, <3>1
  <2>5. \A x \in Names : x # "" =>
          ((\E k \in 1..n : es[k].name = x) <=> \E k \in 1..n - 1 : es[k].name = x)
    <3>1. \A k \in 1..n : k = n \/ k \in 1..n - 1
      OBVIOUS
    <3>2. 1..n - 1 \subseteq 1..n
      OBVIOUS
    <3> QED
      BY <1>3, <1>4, <1>6, <3>1, <3>2
  <2> QED
    BY <2>1, <2>3, <2>4, <2>5 DEF Lists
<1>7. CASE es[n].name # "" /\ es[n].name \notin DOMAIN a.commands
  <2> DEFINE b == Add(a, es[n])
  <2>1. /\ b.commands = Put(a.commands, es[n].name, es[n])
        /\ b.order = Append(a.order, es[n].name)
    BY <1>7 DEF Add
  <2>2. n \in FirstMentions(es)
    BY <1>0, <1>3, <1>4, <1>7 DEF FirstMentions
  <2>3. /\ FirstTo(es, n) = FirstTo(es, n - 1) \cup {n}
        /\ Cardinality(FirstTo(es, n)) = Cardinality(FirstTo(es, n - 1)) + 1
    BY <1>0, <2>2, FirstToGrows
  <2>4. Len(a.order) = Cardinality(FirstTo(es, n - 1))
    BY DEF Lists
  <2>5. Len(b.order) = Cardinality(FirstTo(es, n))
    BY <1>2, <1>3, <2>1, <2>3, <2>4
  <2>6. /\ DOMAIN b.commands = DOMAIN a.commands \cup {es[n].name}
        /\ b.commands[es[n].name] = es[n]
        /\ \A x \in DOMAIN a.commands : b.commands[x] = a.commands[x]
    BY <1>7, <2>1 DEF Put
  <2> HIDE DEF b
  <2>7. \A x \in Names : x \in DOMAIN b.commands <=> x # "" /\ \E k \in 1..n : es[k].name = x
    <3>1. \A k \in 1..n : k = n \/ k \in 1..n - 1
      OBVIOUS
    <3>2. 1..n - 1 \subseteq 1..n /\ n \in 1..n
      OBVIOUS
    <3> QED
      BY <1>4, <1>7, <2>6, <3>1, <3>2
  <2>8. ASSUME NEW k \in FirstMentions(es), k <= n
        PROVE  b.commands[es[k].name] = es[k] /\ b.order[Place(es, k)] = es[k].name
    <3>1. CASE k = n
      <4>1. Place(es, k) = Cardinality(FirstTo(es, n))
        BY <3>1 DEF Place, FirstTo
      <4>2. Place(es, k) = Len(a.order) + 1
        BY <2>3, <2>4, <4>1
      <4>3. b.order[Len(a.order) + 1] = es[n].name
        BY <1>2, <1>3, <2>1
      <4> QED
        BY <2>6, <3>1, <4>2, <4>3
    <3>2. CASE k # n
      <4>1. k <= n - 1
        <5>1. k \in Int
          BY Mentions
        <5> QED
          BY <2>8, <3>2, <5>1
      <4>2. a.commands[es[k].name] = es[k] /\ a.order[Place(es, k)] = es[k].name
        BY <4>1 DEF Lists
      <4>3. Place(es, k) \in 1..Len(a.order)
        BY <1>0, <2>4, <4>1, PlaceBounds
      <4>4. b.order[Place(es, k)] = a.order[Place(es, k)]
        BY <1>2, <1>3, <2>1, <4>3
      <4>5. es[k].name \in DOMAIN a.commands
        <5>1. k \in 1..n - 1 /\ k \in 1..Len(es)
          <6>1. k \in 1..Len(es)
            BY Mentions
          <6> QED
            BY <4>1, <6>1
        <5>2. es[k].name \in Names
          BY <5>1, Mentions
        <5> QED
          BY <1>4, <1>5, <5>1, <5>2
      <4> QED
        BY <2>6, <4>2, <4>4, <4>5
    <3> QED
      BY <3>1, <3>2
  <2>9. Lists(es, n, b)
    BY <2>5, <2>7, <2>8 DEF Lists
  <2> QED
    BY <2>9 DEF b
<1> QED
  BY <1>6, <1>7

(* What the loaders make of a file's entries: the names in it may be         *)
(* started, each as in its first entry, and are listed as first mentioned.   *)
THEOREM AllowlistIs ==
  \A es \in Seq(EntryType) : AllowlistOf(es) \in Allowlists /\ Lists(es, Len(es), AllowlistOf(es))
<1> SUFFICES ASSUME NEW es \in Seq(EntryType)
             PROVE  AllowlistOf(es) \in Allowlists /\ Lists(es, Len(es), AllowlistOf(es))
  OBVIOUS
<1> DEFINE N == Len(es)
<1>0. N \in Nat
  OBVIOUS
<1>1. PICK f \in [0..N -> Allowlists] : AddsUp(es, f) /\ AllowlistOf(es) = f[N]
  BY AllowlistIsFold
<1>2. f[0] = NewAllowlist /\ \A n \in 1..N : f[n] = Add(f[n - 1], es[n])
  <2>1. 0 \in 0..N /\ \A n \in 1..N : n \in 0..N /\ n # 0
    BY <1>0
  <2> QED
    BY <1>1, <2>1 DEF AddsUp
<1> DEFINE T == {n \in 0..N : Lists(es, n, f[n])}
<1>3. 0 \in T
  <2>1. FirstTo(es, 0) = {}
    <3>1. \A k \in FirstMentions(es) : k \in 1..N
      BY Mentions
    <3>2. \A k \in 1..N : ~(k <= 0)
      BY <1>0
    <3> QED
      BY <3>1, <3>2 DEF FirstTo
  <2>2. Cardinality(FirstTo(es, 0)) = 0
    BY <2>1, FS_EmptySet
  <2>3. \A k \in FirstMentions(es) : ~(k <= 0)
    BY <2>1 DEF FirstTo
  <2>4. Lists(es, 0, NewAllowlist)
    BY <2>2, <2>3 DEF Lists, NewAllowlist
  <2> QED
    BY <1>0, <1>2, <2>4
<1>4. ASSUME NEW n \in 0..N - 1, n \in T PROVE n + 1 \in T
  <2>1. n + 1 \in 1..N /\ n + 1 \in 0..N /\ (n + 1) - 1 = n /\ n \in 0..N
    BY <1>0
  <2>2. f[n + 1] = Add(f[n], es[n + 1]) /\ f[n] \in Allowlists
    BY <1>1, <1>2, <2>1
  <2>3. Lists(es, n + 1, Add(f[n], es[n + 1]))
    BY <1>4, <2>1, <2>2, AddLists
  <2> QED
    BY <2>1, <2>2, <2>3
<1>5. N \in T
  <2> HIDE DEF T, N
  <2>1. 0..N \subseteq T
    BY <1>0, <1>3, <1>4, UpTo
  <2> QED
    BY <1>0, <2>1
<1> QED
  BY <1>0, <1>1, <1>5

-----------------------------------------------------------------------------
(* A sequence of sequences, flattened, has the elements of all of them.      *)
LEMMA ConcatSet ==
  ASSUME NEW A, NEW s \in Seq(A), NEW t \in Seq(A)
  PROVE  s \o t \in Seq(A) /\ ToSet(s \o t) = ToSet(s) \cup ToSet(t)
<1> DEFINE u == s \o t
<1>1. /\ u \in Seq(A) /\ Len(u) = Len(s) + Len(t)
      /\ \A i \in 1..Len(s) + Len(t) : u[i] = IF i <= Len(s) THEN s[i] ELSE t[i - Len(s)]
  BY ConcatProperties
<1> HIDE DEF u
<1>2. /\ Len(s) \in Nat /\ Len(t) \in Nat /\ DOMAIN s = 1..Len(s) /\ DOMAIN t = 1..Len(t)
      /\ DOMAIN u = 1..Len(s) + Len(t)
  BY <1>1
<1>3. ASSUME NEW i \in 1..Len(s) + Len(t) PROVE u[i] \in ToSet(s) \cup ToSet(t)
  <2>1. CASE i <= Len(s)
    BY <1>1, <1>2, <2>1 DEF ToSet
  <2>2. CASE ~(i <= Len(s))
    <3>1. i - Len(s) \in 1..Len(t)
      BY <1>2, <2>2
    <3> QED
      BY <1>1, <1>2, <2>2, <3>1 DEF ToSet
  <2> QED
    BY <2>1, <2>2
<1>4. ASSUME NEW i \in 1..Len(s) PROVE s[i] \in ToSet(u)
  <2>1. i \in 1..Len(s) + Len(t) /\ i <= Len(s)
    BY <1>2
  <2> QED
    BY <1>1, <1>2, <2>1 DEF ToSet
<1>5. ASSUME NEW i \in 1..Len(t) PROVE t[i] \in ToSet(u)
  <2>1. i + Len(s) \in 1..Len(s) + Len(t) /\ ~(i + Len(s) <= Len(s)) /\ (i + Len(s)) - Len(s) = i
    BY <1>2
  <2> QED
    BY <1>1, <1>2, <2>1 DEF ToSet
<1>6. ToSet(u) = ToSet(s) \cup ToSet(t)
  BY <1>2, <1>3, <1>4, <1>5 DEF ToSet
<1> QED
  BY <1>1, <1>6 DEF u

Flattens(ss, f) == f = [i \in 1..Len(ss) |-> IF i = 1 THEN ss[i] ELSE f[i - 1] \o ss[i]]

(* What the first n sequences of ss have in them.                            *)
Within(ss, n) == UNION {ToSet(ss[j]) : j \in 1..n}

LEMMA FlattenIs ==
  ASSUME NEW A, NEW ss \in Seq(Seq(A)), Len(ss) # 0
  PROVE  \E f : Flattens(ss, f) /\ FlattenSeq(ss) = f[Len(ss)]
<1> DEFINE N == Len(ss)
           S == Seq(A)
           step == [n \in 1..N |-> [v \in S |-> IF n = 1 THEN ss[n] ELSE v \o ss[n]]]
<1>1. N \in Nat /\ \A n \in 1..N : ss[n] \in S
  OBVIOUS
<1>2. step \in Steps(N, S)
  BY <1>1, ConcatSet DEF Steps
<1>3. PICK g \in [0..N -> S] : IsFold(g, N, <<>>, step)
  <2>1. <<>> \in S
    OBVIOUS
  <2> HIDE DEF step, N, S
  <2> QED
    BY <1>1, <1>2, <2>1, FoldExists
<1>4. ASSUME NEW n \in 1..N PROVE g[n] = IF n = 1 THEN ss[n] ELSE g[n - 1] \o ss[n]
  <2>1. n - 1 \in 0..N
    BY <1>1
  <2>2. g[n - 1] \in S
    BY <1>3, <2>1
  <2>3. step[n][g[n - 1]] = IF n = 1 THEN ss[n] ELSE g[n - 1] \o ss[n]
    BY <2>2
  <2> HIDE DEF step
  <2> QED
    BY <1>3, <2>3 DEF IsFold
<1> DEFINE h == [i \in 1..N |-> g[i]]
<1>5. Flattens(ss, h)
  <2>1. ASSUME NEW n \in 1..N PROVE h[n] = IF n = 1 THEN ss[n] ELSE h[n - 1] \o ss[n]
    <3>1. n = 1 \/ n - 1 \in 1..N
      BY <1>1
    <3> QED
      BY <1>4, <3>1
  <2>2. h = [i \in 1..N |-> h[i]]
    OBVIOUS
  <2> HIDE DEF h
  <2> QED
    BY <2>1, <2>2 DEF Flattens
<1> DEFINE flat == CHOOSE f : Flattens(ss, f)
<1>6. Flattens(ss, flat)
  <2> HIDE DEF h
  <2> QED
    BY <1>5
<1>7. FlattenSeq(ss) = flat[N]
  BY DEF FlattenSeq, Flattens
<1> QED
  BY <1>6, <1>7

LEMMA FlattenedSet ==
  ASSUME NEW A, NEW ss \in Seq(Seq(A))
  PROVE  FlattenSeq(ss) \in Seq(A) /\ ToSet(FlattenSeq(ss)) = Within(ss, Len(ss))
<1> DEFINE N == Len(ss)
<1>0. N \in Nat /\ \A n \in 1..N : ss[n] \in Seq(A)
  OBVIOUS
<1>1. CASE N = 0
  <2>1. FlattenSeq(ss) = ss /\ ss = <<>>
    BY <1>1, EmptySeq DEF FlattenSeq
  <2>2. ToSet(<<>>) = {} /\ Within(ss, 0) = {} /\ <<>> \in Seq(A)
    BY DEF ToSet, Within
  <2> QED
    BY <1>1, <2>1, <2>2
<1>2. CASE N # 0
  <2>1. PICK flat : Flattens(ss, flat) /\ FlattenSeq(ss) = flat[N]
    BY <1>2, FlattenIs
  <2> DEFINE T == {n \in 0..N : n = 0 \/ (flat[n] \in Seq(A) /\ ToSet(flat[n]) = Within(ss, n))}
  <2>2. 0 \in T
    BY <1>0
  <2>3. ASSUME NEW n \in 0..N - 1, n \in T PROVE n + 1 \in T
    <3>1. n + 1 \in 1..N /\ n + 1 \in 0..N /\ (n + 1) - 1 = n
      BY <1>0
    <3>2. flat[n + 1] = IF n + 1 = 1 THEN ss[n + 1] ELSE flat[n] \o ss[n + 1]
      BY <2>1, <3>1 DEF Flattens
    <3>3. ss[n + 1] \in Seq(A)
      BY <1>0, <3>1
    <3>4. Within(ss, n + 1) = Within(ss, n) \cup ToSet(ss[n + 1])
      <4>1. 1..n + 1 = (1..n) \cup {n + 1}
        BY <1>0
      <4> QED
        BY <4>1 DEF Within
    <3>5. CASE n = 0
      <4>1. Within(ss, 0) = {}
        BY DEF Within
      <4>2. flat[n + 1] = ss[n + 1]
        BY <3>2, <3>5
      <4> QED
        BY <3>1, <3>3, <3>4, <3>5, <4>1, <4>2
    <3>6. CASE n # 0
      <4>1. flat[n] \in Seq(A) /\ ToSet(flat[n]) = Within(ss, n)
        BY <2>3, <3>6
      <4>2. flat[n + 1] = flat[n] \o ss[n + 1]
        <5>1. n + 1 # 1
          BY <1>0, <3>6
        <5> QED
          BY <3>2, <5>1
      <4>3. /\ flat[n] \o ss[n + 1] \in Seq(A)
            /\ ToSet(flat[n] \o ss[n + 1]) = ToSet(flat[n]) \cup ToSet(ss[n + 1])
        BY <3>3, <4>1, ConcatSet
      <4> QED
        BY <3>1, <3>4, <4>1, <4>2, <4>3
    <3> QED
      BY <3>5, <3>6
  <2>4. N \in T
    <3> HIDE DEF T, N
    <3>1. 0..N \subseteq T
      BY <1>0, <2>2, <2>3, UpTo
    <3> QED
      BY <1>0, <3>1
  <2> QED
    BY <1>2, <2>1, <2>4
<1> QED
  BY <1>1, <1>2

-----------------------------------------------------------------------------
(* The walk meets each command word and each node nested in a command, and   *)
(* nothing else.                                                             *)
NodeType == [kind : {"arith", "call", "subst", "proc"}, word : Names]

LEMMA LineTyped ==
  ASSUME NEW l \in LineType
  PROVE  /\ l.pipelines \in Seq(PipelineType)
         /\ \A p \in 1..Len(l.pipelines) :
              /\ l.pipelines[p].cmds \in Seq(CommandType)
              /\ \A c \in 1..Len(l.pipelines[p].cmds) : l.pipelines[p].cmds[c] \in CommandType
<1>1. l.pipelines \in Seq(PipelineType)
  BY DEF LineType
<1>2. \A p \in 1..Len(l.pipelines) : l.pipelines[p] \in PipelineType
  BY <1>1
<1>3. \A p \in PipelineType : p.cmds \in Seq(CommandType)
  BY DEF PipelineType
<1>4. \A p \in 1..Len(l.pipelines) : l.pipelines[p].cmds \in Seq(CommandType)
  BY <1>2, <1>3
<1> QED
  BY <1>1, <1>4

LEMMA CommandNodesAre ==
  ASSUME NEW c \in CommandType
  PROVE  /\ CommandNodes(c) \in Seq(NodeType)
         /\ ToSet(CommandNodes(c)) =
              {Node(IF c.word = "((" THEN "arith" ELSE "call", c.word)}
              \cup {Node(k, "") : k \in ToSet(c.nested)}
<1> DEFINE n == Node(IF c.word = "((" THEN "arith" ELSE "call", c.word)
           t == [i \in DOMAIN c.nested |-> Node(c.nested[i], "")]
<1>1. c.nested \in Seq({"subst", "proc", "arith"}) /\ c.word \in Names
  BY DEF CommandType, Names
<1>2. DOMAIN c.nested = 1..Len(c.nested) /\ Len(c.nested) \in Nat
  BY <1>1
<1>3. \A i \in DOMAIN c.nested : Node(c.nested[i], "") \in NodeType
  <2>1. \A k \in {"subst", "proc", "arith"} : Node(k, "") \in NodeType
    BY DEF Node, NodeType, Names
  <2>2. \A i \in DOMAIN c.nested : c.nested[i] \in {"subst", "proc", "arith"}
    BY <1>1, <1>2
  <2> QED
    BY <2>1, <2>2
<1>4. n \in NodeType
  BY <1>1 DEF Node, NodeType
<1>5. t \in Seq(NodeType)
  <2>1. t \in [1..Len(c.nested) -> NodeType]
    BY <1>2, <1>3
  <2> HIDE DEF t
  <2> QED
    BY <1>2, <2>1
<1>6. <<n>> \in Seq(NodeType) /\ ToSet(<<n>>) = {n}
  <2> HIDE DEF n
  <2> QED
    BY <1>4 DEF ToSet
<1>7. ToSet(t) = {Node(k, "") : k \in ToSet(c.nested)}
  BY DEF ToSet
<1>8. <<n>> \o t \in Seq(NodeType) /\ ToSet(<<n>> \o t) = ToSet(<<n>>) \cup ToSet(t)
  <2> DEFINE u == <<n>>
  <2> HIDE DEF u, t
  <2>1. u \in Seq(NodeType)
    BY <1>6 DEF u
  <2>2. u \o t \in Seq(NodeType) /\ ToSet(u \o t) = ToSet(u) \cup ToSet(t)
    BY <1>5, <2>1, ConcatSet
  <2> QED
    BY <2>2 DEF u
<1>9. CommandNodes(c) = <<n>> \o t
  BY DEF CommandNodes
<1> HIDE DEF t
<1> QED
  BY <1>6, <1>7, <1>8, <1>9

LEMMA NodesAre ==
  ASSUME NEW l \in LineType
  PROVE  /\ Nodes(l) \in Seq(NodeType)
         /\ \A n : n \in ToSet(Nodes(l)) <=>
              \E p \in 1..Len(l.pipelines) : \E c \in 1..Len(l.pipelines[p].cmds) :
                n \in ToSet(CommandNodes(l.pipelines[p].cmds[c]))
<1> DEFINE P == Len(l.pipelines)
           C(p) == Len(l.pipelines[p].cmds)
           words(p) == [c \in DOMAIN l.pipelines[p].cmds |-> CommandNodes(l.pipelines[p].cmds[c])]
           parts == [p \in DOMAIN l.pipelines |-> FlattenSeq(words(p))]
<1>1. DOMAIN l.pipelines = 1..P /\ P \in Nat
  BY LineTyped
<1>2. ASSUME NEW p \in 1..P
      PROVE  /\ FlattenSeq(words(p)) \in Seq(NodeType)
             /\ \A n : n \in ToSet(FlattenSeq(words(p))) <=>
                  \E c \in 1..C(p) : n \in ToSet(CommandNodes(l.pipelines[p].cmds[c]))
  <2> DEFINE w == words(p)
  <2>1. DOMAIN l.pipelines[p].cmds = 1..C(p) /\ C(p) \in Nat
    BY LineTyped
  <2>2. \A c \in 1..C(p) : CommandNodes(l.pipelines[p].cmds[c]) \in Seq(NodeType)
    BY LineTyped, CommandNodesAre
  <2>3. w \in [1..C(p) -> Seq(NodeType)]
    BY <2>1, <2>2
  <2>4. \A c \in 1..C(p) : w[c] = CommandNodes(l.pipelines[p].cmds[c])
    BY <2>1
  <2> HIDE DEF w
  <2>5. w \in Seq(Seq(NodeType)) /\ Len(w) = C(p)
    BY <2>1, <2>3
  <2>6. FlattenSeq(w) \in Seq(NodeType) /\ ToSet(FlattenSeq(w)) = Within(w, C(p))
    BY <2>5, FlattenedSet
  <2>7. \A n : n \in Within(w, C(p)) <=> \E c \in 1..C(p) : n \in ToSet(w[c])
    BY DEF Within
  <2> QED
    BY <2>4, <2>6, <2>7 DEF w
<1> HIDE DEF words
<1>3. parts \in [1..P -> Seq(NodeType)] /\ \A p \in 1..P : parts[p] = FlattenSeq(words(p))
  BY <1>1, <1>2
<1>4. Nodes(l) = FlattenSeq(parts)
  BY DEF Nodes, words
<1> HIDE DEF parts
<1>5. parts \in Seq(Seq(NodeType)) /\ Len(parts) = P
  BY <1>1, <1>3
<1>6. Nodes(l) \in Seq(NodeType) /\ ToSet(Nodes(l)) = Within(parts, P)
  BY <1>4, <1>5, FlattenedSet
<1>7. \A n : n \in Within(parts, P) <=> \E p \in 1..P : n \in ToSet(parts[p])
  BY DEF Within
<1>8. ASSUME NEW n
      PROVE  n \in ToSet(Nodes(l)) <=>
               \E p \in 1..P : \E c \in 1..C(p) : n \in ToSet(CommandNodes(l.pipelines[p].cmds[c]))
  <2>1. n \in ToSet(Nodes(l)) <=> \E p \in 1..P : n \in ToSet(FlattenSeq(words(p)))
    BY <1>3, <1>6, <1>7
  <2>2. \A p \in 1..P : n \in ToSet(FlattenSeq(words(p))) <=>
          \E c \in 1..C(p) : n \in ToSet(CommandNodes(l.pipelines[p].cmds[c]))
    BY <1>2
  <2> QED
    BY <2>1, <2>2
<1> QED
  BY <1>6, <1>8

-----------------------------------------------------------------------------
(* Which commands have a node that is refused.                               *)
Fine(a, c) == /\ c.word \in DOMAIN a.commands \cup shellBuiltins \cup {"(("}
              /\ c.word \notin {Dynamic, "eval"}
              /\ ToSet(c.nested) \cap {"subst", "proc"} = {}

LEMMA ReasonOfCall ==
  ASSUME NEW a, NEW w
  PROVE  Reason(a, Node("call", w)) = "" <=>
           w \in DOMAIN a.commands \cup shellBuiltins /\ w \notin {Dynamic, "eval"}
<1> DEFINE n == Node("call", w)
<1>1. n.kind = "call" /\ n.word = w
  BY DEF Node
<1> HIDE DEF n
<1>2. Dynamic # "eval"
  BY DEF Dynamic
<1>3. w = Dynamic => Reason(a, n) # ""
  BY <1>1, <1>2 DEF Reason
<1>4. w = "eval" => Reason(a, n) # ""
  BY <1>1, <1>2 DEF Reason
<1>5. ASSUME w \notin {Dynamic, "eval"}, w \in DOMAIN a.commands \cup shellBuiltins
      PROVE  Reason(a, n) = ""
  BY <1>1, <1>5 DEF Reason, Allowed
<1>6. ASSUME w \notin {Dynamic, "eval"}, w \notin DOMAIN a.commands \cup shellBuiltins
      PROVE  Reason(a, n) # ""
  <2>1. n.word \notin {Dynamic, "eval"} \cup shellBuiltins /\ ~Allowed(a, n.word)
    BY <1>1, <1>6 DEF Allowed
  <2> QED
    BY <1>1, <2>1 DEF Reason
<1> QED
  BY <1>3, <1>4, <1>5, <1>6 DEF n

LEMMA ReasonOfOther ==
  ASSUME NEW a, NEW w
  PROVE  /\ Reason(a, Node("arith", w)) = ""
         /\ Reason(a, Node("subst", w)) # "" /\ Reason(a, Node("proc", w)) # ""
<1>1. \A k \in {"arith", "subst", "proc"} : Node(k, w).kind = k
  BY DEF Node
<1>2. Reason(a, Node("arith", w)) = ""
  BY <1>1 DEF Reason
<1>3. Reason(a, Node("subst", w)) # ""
  BY <1>1 DEF Reason
<1>4. Reason(a, Node("proc", w)) # ""
  BY <1>1 DEF Reason
<1> QED
  BY <1>2, <1>3, <1>4

LEMMA CommandRefused ==
  ASSUME NEW a, NEW c \in CommandType
  PROVE  (\E n \in ToSet(CommandNodes(c)) : Reason(a, n) # "") <=> ~Fine(a, c)
<1> DEFINE first == Node(IF c.word = "((" THEN "arith" ELSE "call", c.word)
<1>1. ToSet(CommandNodes(c)) = {first} \cup {Node(k, "") : k \in ToSet(c.nested)}
  BY CommandNodesAre
<1>2. Reason(a, first) = "" <=> /\ c.word \in DOMAIN a.commands \cup shellBuiltins \cup {"(("}
                                /\ c.word \notin {Dynamic, "eval"}
  <2>1. CASE c.word = "(("
    BY <2>1, ReasonOfOther DEF Dynamic
  <2>2. CASE c.word # "(("
    BY <2>2, ReasonOfCall
  <2> QED
    BY <2>1, <2>2
<1>3. \A k \in ToSet(c.nested) : k \in {"subst", "proc", "arith"}
  <2>1. c.nested \in Seq({"subst", "proc", "arith"})
    BY DEF CommandType
  <2> QED
    BY <2>1 DEF ToSet
<1>4. (\E k \in ToSet(c.nested) : Reason(a, Node(k, "")) # "") <=>
        ToSet(c.nested) \cap {"subst", "proc"} # {}
  BY <1>3, ReasonOfOther
<1> HIDE DEF first
<1> QED
  BY <1>1, <1>2, <1>4 DEF Fine

LEMMA CommandsAre ==
  ASSUME NEW l \in LineType
  PROVE  \A c : c \in Commands(l) <=>
           \E p \in 1..Len(l.pipelines) : \E i \in 1..Len(l.pipelines[p].cmds) :
             c = l.pipelines[p].cmds[i]
<1>1. DOMAIN l.pipelines = 1..Len(l.pipelines)
  BY LineTyped
<1>2. \A p \in 1..Len(l.pipelines) :
        DOMAIN l.pipelines[p].cmds = 1..Len(l.pipelines[p].cmds)
  BY LineTyped
<1>3. \A c : c \in Commands(l) <=> \E p \in 1..Len(l.pipelines) : c \in ToSet(l.pipelines[p].cmds)
  <2>1. ToSet(l.pipelines) = {l.pipelines[p] : p \in 1..Len(l.pipelines)}
    BY <1>1 DEF ToSet
  <2> QED
    BY <2>1 DEF Commands
<1>4. \A c : \A p \in 1..Len(l.pipelines) :
        c \in ToSet(l.pipelines[p].cmds) <=>
        \E i \in 1..Len(l.pipelines[p].cmds) : c = l.pipelines[p].cmds[i]
  BY <1>2 DEF ToSet
<1> SUFFICES ASSUME NEW c
             PROVE  c \in Commands(l) <=>
                      \E p \in 1..Len(l.pipelines) : \E i \in 1..Len(l.pipelines[p].cmds) :
                        c = l.pipelines[p].cmds[i]
  OBVIOUS
<1>5. c \in Commands(l) <=> \E p \in 1..Len(l.pipelines) : c \in ToSet(l.pipelines[p].cmds)
  BY <1>3
<1>6. \A p \in 1..Len(l.pipelines) :
        c \in ToSet(l.pipelines[p].cmds) <=>
        \E i \in 1..Len(l.pipelines[p].cmds) : c = l.pipelines[p].cmds[i]
  BY <1>4
<1> QED
  BY <1>5, <1>6, Zenon

(* Every command of the line is one the walk has nothing against.            *)
AllFine(a, l) == \A p \in 1..Len(l.pipelines) : \A c \in 1..Len(l.pipelines[p].cmds) :
                   Fine(a, l.pipelines[p].cmds[c])

LEMMA AdmissibleIs ==
  ASSUME NEW a, NEW l \in LineType, ~Arithmetic(l)
  PROVE  Admissible(a, l) <=> AllFine(a, l)
<1>1. AllFine(a, l) <=> \A c \in Commands(l) : Fine(a, c)
  <2>1. ASSUME AllFine(a, l), NEW c \in Commands(l) PROVE Fine(a, c)
    <3>1. PICK p \in 1..Len(l.pipelines) :
            \E i \in 1..Len(l.pipelines[p].cmds) : c = l.pipelines[p].cmds[i]
      BY CommandsAre
    <3>2. PICK i \in 1..Len(l.pipelines[p].cmds) : c = l.pipelines[p].cmds[i]
      BY <3>1
    <3> QED
      BY <2>1, <3>2 DEF AllFine
  <2>2. ASSUME \A c \in Commands(l) : Fine(a, c),
               NEW p \in 1..Len(l.pipelines), NEW i \in 1..Len(l.pipelines[p].cmds)
        PROVE  Fine(a, l.pipelines[p].cmds[i])
    <3>1. l.pipelines[p].cmds[i] \in Commands(l)
      BY CommandsAre
    <3> QED
      BY <2>2, <3>1
  <2> QED
    BY <2>1, <2>2 DEF AllFine
<1>2. \A c \in Commands(l) : c.word # "(("
  BY DEF Arithmetic
<1>3. Admissible(a, l) <=> \A c \in Commands(l) : Fine(a, c)
  BY <1>2 DEF Admissible, Fine
<1> QED
  BY <1>1, <1>3

LEMMA VerifyIs ==
  ASSUME NEW a, NEW l \in LineType
  PROVE  Verify(a, l) # "" <=> \E n \in ToSet(Nodes(l)) : Reason(a, n) # ""
<1> DEFINE refused == {i \in DOMAIN Nodes(l) : Reason(a, Nodes(l)[i]) # ""}
<1>1. refused \in SUBSET Nat
  <2>1. Nodes(l) \in Seq(NodeType)
    BY NodesAre
  <2>2. DOMAIN Nodes(l) \subseteq Nat
    BY <2>1
  <2> QED
    BY <2>2
<1>2. refused = {} <=> \A n \in ToSet(Nodes(l)) : Reason(a, n) = ""
  BY DEF ToSet
<1>3. CASE refused = {}
  BY <1>2, <1>3 DEF Verify
<1>4. CASE refused # {}
  <2>1. Min(refused) \in refused
    <3> HIDE DEF refused
    <3>1. PICK m \in refused : \A i \in refused : m <= i
      BY <1>1, <1>4, LeastNumber
    <3> QED
      BY <3>1 DEF Min
  <2>2. Verify(a, l) = Reason(a, Nodes(l)[Min(refused)])
    BY <1>4 DEF Verify
  <2> QED
    BY <1>2, <1>4, <2>1, <2>2
<1> QED
  BY <1>3, <1>4

LEMMA VerifyFine ==
  ASSUME NEW a, NEW l \in LineType
  PROVE  Verify(a, l) = "" <=> AllFine(a, l)
<1>1. (\E n \in ToSet(Nodes(l)) : Reason(a, n) # "") <=>
        \E p \in 1..Len(l.pipelines) : \E c \in 1..Len(l.pipelines[p].cmds) :
          \E n \in ToSet(CommandNodes(l.pipelines[p].cmds[c])) : Reason(a, n) # ""
  BY NodesAre
<1>2. \A p \in 1..Len(l.pipelines) : \A c \in 1..Len(l.pipelines[p].cmds) :
        (\E n \in ToSet(CommandNodes(l.pipelines[p].cmds[c])) : Reason(a, n) # "") <=>
        ~Fine(a, l.pipelines[p].cmds[c])
  BY LineTyped, CommandRefused
<1> QED
  BY <1>1, <1>2, VerifyIs DEF AllFine

(* verify refuses a line without an arithmetic command just when it is not   *)
(* admissible, whatever comes before the word that makes it so and wherever  *)
(* in the line that is.                                                      *)
THEOREM VerifyExact ==
  \A l \in LineType : \A a : ~Arithmetic(l) => (Verify(a, l) # "" <=> ~Admissible(a, l))
<1> QED
  BY VerifyFine, AdmissibleIs

-----------------------------------------------------------------------------
(* What tool_list makes of an allow-list.                                    *)
LEMMA ListIs ==
  ASSUME NEW es \in Seq(EntryType), NEW a \in Allowlists, Lists(es, Len(es), a)
  PROVE  /\ DOMAIN Entries(a) = 1..Cardinality(FirstMentions(es))
         /\ Len(Entries(a)) = Cardinality(FirstMentions(es))
         /\ {es[k] : k \in FirstMentions(es)} \subseteq ToSet(Entries(a))
         /\ ToSet(a.order) = {e.name : e \in ToSet(Entries(a))}
         /\ DOMAIN a.commands \subseteq {e.name : e \in ToSet(es)}
<1>1. a.order \in Seq(Names) /\ a.commands \in UNION {[S -> EntryType] : S \in SUBSET Names}
  BY DEF Allowlists, Forms
<1>2. DOMAIN a.order = 1..Len(a.order) /\ Len(a.order) \in Nat /\ DOMAIN a.commands \subseteq Names
  BY <1>1
<1>3. Len(es) \in 0..Len(es) /\ \A k \in FirstMentions(es) : k <= Len(es)
  <2>1. \A k \in 1..Len(es) : k <= Len(es)
    OBVIOUS
  <2>2. Len(es) \in 0..Len(es)
    OBVIOUS
  <2> QED
    BY <2>1, <2>2, Mentions
<1>4. FirstTo(es, Len(es)) = FirstMentions(es)
  BY <1>3 DEF FirstTo
<1>5. DOMAIN Entries(a) = 1..Len(a.order) /\ Len(a.order) = Cardinality(FirstMentions(es))
  BY <1>2, <1>4 DEF Entries, Lists
<1>10. Len(Entries(a)) = Cardinality(FirstMentions(es))
  <2>1. Entries(a) \in Seq(EntryType)
    <3>1. \A x \in DOMAIN a.commands : a.commands[x] \in EntryType
      BY <1>1
    <3>2. \A i \in 1..Len(a.order) : a.commands[a.order[i]] \in EntryType
      BY <3>1 DEF Allowlists
    <3> DEFINE t == Entries(a)
    <3>3. t \in [1..Len(a.order) -> EntryType]
      BY <1>2, <3>2 DEF Entries
    <3> HIDE DEF t
    <3>4. t \in Seq(EntryType)
      BY <1>2, <3>3
    <3> QED
      BY <3>4 DEF t
  <2>2. Len(Entries(a)) = Len(a.order)
    <3>1. \A e \in Seq(EntryType) : Len(e) \in Nat /\ DOMAIN e = 1..Len(e)
      OBVIOUS
    <3>2. DOMAIN Entries(a) = 1..Len(Entries(a)) /\ Len(Entries(a)) \in Nat
      BY <2>1, <3>1
    <3>3. \A m, n \in Nat : 1..m = 1..n => m = n
      OBVIOUS
    <3> QED
      BY <1>2, <1>5, <3>2, <3>3
  <2> QED
    BY <1>5, <2>2
<1>6. ASSUME NEW k \in FirstMentions(es) PROVE es[k] \in ToSet(Entries(a))
  <2>1. a.order[Place(es, k)] = es[k].name /\ a.commands[es[k].name] = es[k]
    BY <1>3 DEF Lists
  <2>2. Place(es, k) \in DOMAIN a.order
    BY <1>2, <1>3, <1>4, <1>5, PlaceBounds
  <2>3. Place(es, k) \in DOMAIN Entries(a) /\ Entries(a)[Place(es, k)] = es[k]
    BY <2>1, <2>2 DEF Entries
  <2> QED
    BY <2>3 DEF ToSet
<1>7. \A i \in DOMAIN a.order : Entries(a)[i].name = a.order[i]
  BY <1>2 DEF Entries, Allowlists
<1>8. ToSet(a.order) = {e.name : e \in ToSet(Entries(a))}
  <2>1. DOMAIN Entries(a) = DOMAIN a.order
    BY DEF Entries
  <2> QED
    BY <1>7, <2>1 DEF ToSet
<1>9. ASSUME NEW x \in DOMAIN a.commands PROVE x \in {e.name : e \in ToSet(es)}
  <2>1. PICK k \in 1..Len(es) : es[k].name = x
    BY <1>2 DEF Lists
  <2>2. es[k] \in ToSet(es)
    BY Mentions DEF ToSet
  <2> QED
    BY <2>1, <2>2
<1> QED
  BY <1>5, <1>6, <1>8, <1>9, <1>10

(* The same of what is loaded at a launch.                                   *)
GrantedBy(a) == a \in Allowlists /\ Lists(Configured, Len(Configured), a)

LEMMA NoEntries ==
  ASSUME NEW es, es = <<>>
  PROVE  NewAllowlist \in Allowlists /\ Lists(es, Len(es), NewAllowlist)
<1>1. es \in Seq(EntryType) /\ Len(es) = 0
  OBVIOUS
<1>2. FirstMentions(es) = {}
  BY DEF FirstMentions
<1>3. FirstTo(es, 0) = {} /\ Cardinality({}) = 0
  BY <1>2, FS_EmptySet DEF FirstTo
<1>4. 1..0 = {} /\ DOMAIN NewAllowlist.commands = {} /\ Len(NewAllowlist.order) = 0
  BY DEF NewAllowlist
<1> QED
  BY <1>1, <1>2, <1>3, <1>4, NewAllowlistType DEF Lists

LEMMA ConfiguredType ==
  ASSUME env \in Envs
  PROVE  Configured \in Seq(EntryType)
<1>1. env.allowlist.entries \in Seq(EntryType) /\ env.allow \in Seq(Names)
  BY EnvAssumption
<1>2. \A i \in 1..Len(env.allow) : Entry(env.allow[i], "") \in EntryType
  <2>1. \A x \in Names : Entry(x, "") \in EntryType
    BY DEF Entry, EntryType, Names
  <2> QED
    <3>1. \A i \in 1..Len(env.allow) : env.allow[i] \in Names
      BY <1>1
    <3> QED
      BY <2>1, <3>1
<1>3. DOMAIN env.allow = 1..Len(env.allow) /\ Len(env.allow) \in Nat
  BY <1>1
<1>4. [i \in DOMAIN env.allow |-> Entry(env.allow[i], "")] \in Seq(EntryType)
  <2> DEFINE t == [i \in DOMAIN env.allow |-> Entry(env.allow[i], "")]
  <2>1. t \in [1..Len(env.allow) -> EntryType]
    BY <1>2, <1>3
  <2> HIDE DEF t
  <2>2. t \in Seq(EntryType)
    BY <1>3, <2>1
  <2> QED
    BY <2>2 DEF t
<1>5. <<>> \in Seq(EntryType)
  OBVIOUS
<1> QED
  BY <1>1, <1>4, <1>5 DEF Configured

LEMMA LoadedValue ==
  ASSUME NEW a
  PROVE  Loaded(a).value = a /\ Loaded(a).err = FALSE
BY DEF Loaded

LEMMA LoadedIsGranted ==
  ASSUME env \in Envs, cfg = LoadConfig(env), ~loadAllowlist(cfg).err
  PROVE  GrantedBy(loadAllowlist(cfg).value)
<1>1. cfg.allowlistPath = env.allowlist /\ cfg.allowCSV = env.allow
  BY DEF LoadConfig
<1>2. env.allowlist.form \in FileForms
  BY EnvAssumption
<1>3. CASE env.allowlist.form = ""
  <2>1. loadAllowlist(cfg) = Loaded(AllowlistFromNames(env.allow))
    BY <1>1, <1>3 DEF loadAllowlist
  <2>2. Configured = [i \in DOMAIN env.allow |-> Entry(env.allow[i], "")]
    BY <1>3 DEF Configured
  <2>3. loadAllowlist(cfg).value = AllowlistOf(Configured)
    <3>1. loadAllowlist(cfg).value = AllowlistFromNames(env.allow)
      BY <2>1, LoadedValue
    <3> QED
      BY <2>2, <3>1 DEF AllowlistFromNames
  <2> QED
    BY <2>3, AllowlistIs, ConfiguredType DEF GrantedBy
<1>4. CASE env.allowlist.form # ""
  <2>1. loadAllowlist(cfg) = LoadAllowlist(env.allowlist)
    <3>1. cfg.allowlistPath.form # ""
      BY <1>1, <1>4
    <3> QED
      BY <1>1, <3>1 DEF loadAllowlist
  <2>3. CASE env.allowlist.form \in {"array", "object"}
    <3>2. Configured = env.allowlist.entries
      BY <2>3 DEF Configured
    <3>1. loadAllowlist(cfg).value = AllowlistOf(Configured)
      <4>1. LoadAllowlist(env.allowlist) = Loaded(AllowlistOf(Configured))
        BY <2>3, <3>2 DEF LoadAllowlist
      <4> QED
        BY <2>1, <4>1, LoadedValue
    <3> QED
      BY <3>1, AllowlistIs, ConfiguredType DEF GrantedBy
  <2>4. CASE env.allowlist.form = "other object"
    <3>1. loadAllowlist(cfg).value = NewAllowlist
      <4>1. LoadAllowlist(env.allowlist) = Loaded(NewAllowlist)
        BY <2>4 DEF LoadAllowlist
      <4> QED
        BY <2>1, <4>1, LoadedValue
    <3>2. Configured = <<>>
      BY <2>4 DEF Configured
    <3> QED
      BY <3>1, <3>2, NoEntries DEF GrantedBy
  <2>5. CASE env.allowlist.form \in {"missing", "empty", "garbage"}
    <3>1. loadAllowlist(cfg) = LoadError
      BY <2>1, <2>5 DEF LoadAllowlist
    <3> QED
      BY <3>1 DEF LoadError
  <2> QED
    BY <1>2, <1>4, <2>3, <2>4, <2>5 DEF FileForms
<1> QED
  BY <1>3, <1>4

-----------------------------------------------------------------------------
(* A knob that can be read has the text that is wanted of it.                *)
LEMMA KnobText ==
  ASSUME NEW knob, ~readPromptKnob(knob).err
  PROVE  /\ readPromptKnob(knob).text = Wants(knob, "")
         /\ \A default : OrDefault(Wants(knob, ""), default) = Wants(knob, default)
<1>1. \A text : Knob(text).text = text
  BY DEF Knob
<1>2. CASE knob.inline # ""
  <2>1. readPromptKnob(knob) = Knob(knob.inline)
    BY <1>2 DEF readPromptKnob
  <2> QED
    BY <1>1, <1>2, <2>1 DEF Wants, OrDefault
<1>3. CASE knob.inline = "" /\ knob.file = "missing"
  <2>1. readPromptKnob(knob) = [err |-> TRUE, text |-> ""]
    BY <1>3 DEF readPromptKnob
  <2>2. [err |-> TRUE, text |-> ""].err
    OBVIOUS
  <2>3. readPromptKnob(knob).err
    BY <2>1, <2>2, Zenon
  <2> QED
    BY <2>3
<1>4. CASE knob.inline = "" /\ knob.file \in {"", "empty"}
  <2>1. readPromptKnob(knob) = Knob("")
    BY <1>4 DEF readPromptKnob
  <2> QED
    BY <1>1, <1>4, <2>1 DEF Wants, OrDefault
<1>5. CASE knob.inline = "" /\ knob.file \notin {"missing", "", "empty"}
  <2>1. readPromptKnob(knob) = Knob(knob.file)
    BY <1>5 DEF readPromptKnob
  <2> QED
    BY <1>1, <1>5, <2>1 DEF Wants, OrDefault
<1> QED
  BY <1>2, <1>3, <1>4, <1>5

IsPair(p, a, b) == p = <<a>> \o <<b>>

LEMMA TwoParts ==
  ASSUME NEW a, NEW b, NEW p, IsPair(p, a, b)
  PROVE  p[1] = a /\ Tail(p) = <<b>> /\ Len(p) = 2
<1> DEFINE t == <<a>>
           u == <<b>>
<1>1. t \in Seq({a, b}) /\ u \in Seq({a, b}) /\ Len(t) = 1 /\ Len(u) = 1 /\ t[1] = a /\ u[1] = b
  OBVIOUS
<1>2. /\ p \in Seq({a, b}) /\ Len(p) = Len(t) + Len(u)
      /\ \A i \in 1..Len(t) + Len(u) : p[i] = IF i <= Len(t) THEN t[i] ELSE u[i - Len(t)]
  <2> HIDE DEF t, u
  <2>1. p = t \o u
    BY DEF IsPair, t, u
  <2> QED
    BY <1>1, <2>1, ConcatProperties, SMTT(30)
<1> HIDE DEF t, u
<1>3. Len(p) = 2 /\ p[1] = a /\ p[2] = b
  BY <1>1, <1>2
<1> DEFINE q == Tail(p)
<1>4. /\ q \in Seq({a, b}) /\ Len(q) = Len(p) - 1
      /\ \A i \in 1..Len(q) : q[i] = p[i + 1]
  <2>1. p # <<>>
    BY <1>3
  <2> QED
    BY <1>2, <2>1, HeadTailProperties
<1> HIDE DEF q
<1>5. q = u
  <2>1. Len(q) = 1
    BY <1>3, <1>4
  <2>2. q[1] = b
    BY <1>3, <1>4, <2>1
  <2>3. \A i \in 1..Len(q) : i = 1
    BY <2>1
  <2>4. \A i \in 1..Len(q) : q[i] = u[i]
    BY <1>1, <2>2, <2>3
  <2> QED
    BY <1>1, <1>4, <2>1, <2>4, SeqEqual
<1> QED
  BY <1>3, <1>5 DEF u, q

LEMMA OnePart ==
  ASSUME NEW a, NEW t, t = <<a>>, NEW p, p = t \o <<>>
  PROVE  p[1] = a /\ Tail(p) = <<>> /\ Len(p) = 1
<1>1. t \in Seq({a})
  OBVIOUS
<1>2. p = t
  BY <1>1, ConcatEmptySeq
<1> QED
  BY <1>2

LEMMA ConfiguredPrompt ==
  ASSUME cfg = LoadConfig(env), ~cfg.err, prompt = SystemPrompt(cfg),
         runStart[1].config = summary(cfg)
  PROVE  PromptTrue
<1> DEFINE base == Wants(env.systemPrompt, "")
           appended == Wants(env.appendSystemPrompt, "")
<1>1. /\ ~readPromptKnob(env.systemPrompt).err /\ ~readPromptKnob(env.appendSystemPrompt).err
      /\ cfg.systemPrompt = readPromptKnob(env.systemPrompt).text
      /\ cfg.appendSystemPrompt = readPromptKnob(env.appendSystemPrompt).text
  BY DEF LoadConfig
<1>2. cfg.systemPrompt = base /\ cfg.appendSystemPrompt = appended
  BY <1>1, KnobText
<1>3. OrDefault(base, DefaultSystemPrompt) = Wants(env.systemPrompt, DefaultSystemPrompt)
  BY <1>1, KnobText
<1>4. prompt = <<Wants(env.systemPrompt, DefaultSystemPrompt)>>
                 \o (IF appended = "" THEN <<>> ELSE <<appended>>)
  BY <1>2, <1>3 DEF SystemPrompt
<1>5. /\ runStart[1].config.systemPromptSource = promptSource(cfg)
      /\ promptSource(cfg).base = IF base # "" THEN "override" ELSE "default"
      /\ promptSource(cfg).appended = (appended # "")
  <2>1. runStart[1].config.systemPromptSource = promptSource(cfg)
    BY DEF summary
  <2>2. promptSource(cfg).base = IF base # "" THEN "override" ELSE "default"
    BY <1>2 DEF promptSource
  <2>3. promptSource(cfg).appended = (cfg.appendSystemPrompt # "")
    BY DEF promptSource
  <2> QED
    BY <1>2, <2>1, <2>2, <2>3
<1> HIDE DEF base, appended
<1>6. /\ prompt[1] = Wants(env.systemPrompt, DefaultSystemPrompt)
      /\ Tail(prompt) = IF appended = "" THEN <<>> ELSE <<appended>>
      /\ (appended # "") <=> Len(prompt) = 2
  <2> DEFINE w == Wants(env.systemPrompt, DefaultSystemPrompt)
  <2>1. CASE appended = ""
    <3>1. prompt = <<w>> \o <<>>
      BY <1>4, <2>1
    <3>2. prompt[1] = w /\ Tail(prompt) = <<>> /\ Len(prompt) = 1
      BY <3>1, OnePart
    <3>3. (IF appended = "" THEN <<>> ELSE <<appended>>) = <<>>
      BY <2>1, Zenon
    <3>4. Len(prompt) # 2
      BY <3>2
    <3> QED
      BY <2>1, <3>2, <3>3, <3>4
  <2>2. CASE appended # ""
    <3>1. IsPair(prompt, w, appended)
      BY <1>4, <2>2 DEF IsPair
    <3>2. prompt[1] = w /\ Tail(prompt) = <<appended>> /\ Len(prompt) = 2
      BY <3>1, TwoParts
    <3>3. (IF appended = "" THEN <<>> ELSE <<appended>>) = <<appended>>
      BY <2>2, Zenon
    <3> QED
      BY <2>2, <3>2, <3>3
  <2> QED
    BY <2>1, <2>2
<1>7. runStart[1].config.systemPromptSource.base = "default" <=> base = ""
  BY <1>5
<1>8. runStart[1].config.systemPromptSource.appended <=> Len(prompt) = 2
  BY <1>5, <1>6
<1> QED
  BY <1>6, <1>7, <1>8 DEF PromptTrue, base, appended

-----------------------------------------------------------------------------
(* The parameters of finish: an object whose one member is the output.       *)
WantedSchema == IF env.outputSchema.form = "schema" THEN <<env.outputSchema.schema>> ELSE <<>>

OutputSchema(schema) == IF schema = <<>> THEN Typed("string") ELSE schema[1]

LEMMA FinishParamsAre ==
  ASSUME NEW schema
  PROVE  LET s == FinishParams(schema)
         IN  /\ s.type = "object" /\ s.const = <<>> /\ s.enum = <<>>
             /\ s.required = {"output"} /\ s.closed = TRUE
             /\ DOMAIN s.properties = {"output"}
             /\ s.properties["output"] = <<OutputSchema(schema)>>
BY DEF FinishParams, Typed, AnySchema, Optional, OutputSchema

LEMMA FinishParamsType ==
  ASSUME env \in Envs
  PROVE  /\ FinishParams(WantedSchema) \in Schemas
         /\ OutputSchema(WantedSchema) = RequiredOutput /\ RequiredOutput \in Schemas
<1>1. FinishParams(WantedSchema) \in Schemas
  BY EnvAssumption, ToolAssumption DEF WantedSchema
<1>2. OutputSchema(WantedSchema) = RequiredOutput
  BY DEF OutputSchema, WantedSchema, RequiredOutput
<1>3. OutputSchema(WantedSchema) \in Schemas
  <2>1. FinishParams(WantedSchema).properties["output"] = <<OutputSchema(WantedSchema)>>
        /\ "output" \in DOMAIN FinishParams(WantedSchema).properties
    BY FinishParamsAre
  <2> DEFINE m == FinishParams(WantedSchema).properties["output"]
  <2>2. m # <<>> /\ m[1] = OutputSchema(WantedSchema)
    BY <2>1
  <2> QED
    BY <1>1, <2>1, <2>2, Subs
<1> QED
  BY <1>1, <1>2, <1>3

(* An object with one member that its schema requires, and no other.         *)
OneMember(s, k, sub) == /\ s.type = "object" /\ s.const = <<>> /\ s.enum = <<>>
                        /\ s.required = {k} /\ s.closed = TRUE
                        /\ DOMAIN s.properties = {k} /\ s.properties[k] = <<sub>>

LEMMA RawValue ==
  ASSUME NEW s \in Schemas, NEW v \in Values \cup {NotJSON}
  PROVE  /\ v \in Values => v.t # "malformed" /\ validateRaw(s, v) = Faults(validateValue, s, v)
         /\ v = NotJSON => validateRaw(s, v) # {}
<1>1. ASSUME v \in Values PROVE v.t # "malformed"
  BY <1>1, ValueAssumption DEF IsValue
<1>2. v \in Values => validateRaw(s, v) = validateValue[<<s, v>>]
  BY <1>1 DEF validateRaw
<1>3. ASSUME v = NotJSON PROVE validateRaw(s, v) # {}
  <2>1. v.t = "malformed"
    BY <1>3 DEF NotJSON
  <2>2. validateRaw(s, v) = {"not valid JSON"}
    BY <2>1 DEF validateRaw
  <2> QED
    BY <2>2
<1> QED
  BY <1>1, <1>2, <1>3, validateValueIs

LEMMA OneMemberFaults ==
  ASSUME NEW s \in Schemas, NEW k, NEW sub, OneMember(s, k, sub), NEW v \in Values
  PROVE  /\ sub \in Schemas
         /\ Faults(validateValue, s, v) = {} <=>
              /\ v.t = "object" /\ DOMAIN v.m = {k}
              /\ v.m[k] \in Values /\ validateValue[<<sub, v.m[k]>>] = {}
<1>1. s.type = "object" /\ s.const = <<>> /\ s.enum = <<>> /\ s.required = {k} /\ s.closed
  BY DEF OneMember
<1>2. k \in DOMAIN s.properties /\ DOMAIN s.properties = {k} /\ s.properties[k] = <<sub>>
  BY DEF OneMember
<1>3. s.properties[k] # <<>> /\ s.properties[k][1] = sub
  BY <1>2
<1>4. sub \in Schemas
  BY <1>2, <1>3, Subs
<1>5. Faults(validateValue, s, v) = validateType(validateValue, s, v)
  BY <1>1 DEF Faults
<1>6. CASE v.t # "object"
  <2>1. validateType(validateValue, s, v) = {"expected type"}
    <3>1. s.type # "integer" /\ s.type \in JSONTypes /\ v.t # s.type
      BY <1>1, <1>6 DEF JSONTypes
    <3>2. /\ ~(s.type = "object" /\ v.t = "object") /\ ~(s.type = "array" /\ v.t = "array")
          /\ ~(s.type = "string" /\ v.t = "string") /\ ~(s.type = "number" /\ v.t = "number")
      BY <1>1, <1>6
    <3> QED
      BY <3>1, <3>2 DEF validateType
  <2> QED
    BY <1>4, <1>5, <1>6, <2>1
<1>7. CASE v.t = "object"
  <2>1. validateType(validateValue, s, v) = ObjectFaults(validateValue, s, v.m)
    BY <1>1, <1>7 DEF validateType, JSONTypes
  <2>2. CASE k \notin DOMAIN v.m
    <3>1. ObjectFaults(validateValue, s, v.m) = {"missing property"}
      BY <1>1, <2>2 DEF ObjectFaults
    <3> QED
      BY <1>4, <1>5, <2>1, <2>2, <3>1
  <2>3. CASE k \in DOMAIN v.m /\ DOMAIN v.m # {k}
    <3>1. ~(DOMAIN v.m \subseteq DOMAIN s.properties) /\ s.required \subseteq DOMAIN v.m
      BY <1>1, <1>2, <2>3
    <3>2. ObjectFaults(validateValue, s, v.m) = {"additional property"}
      BY <1>1, <3>1 DEF ObjectFaults
    <3> QED
      BY <1>4, <1>5, <2>1, <2>3, <3>2
  <2>4. CASE DOMAIN v.m = {k}
    <3>1. DOMAIN v.m \subseteq DOMAIN s.properties /\ s.required \subseteq DOMAIN v.m
      BY <1>1, <1>2, <2>4
    <3>2. ObjectFaults(validateValue, s, v.m) = MemberFaults(validateValue, s, v.m)
      BY <3>1 DEF ObjectFaults
    <3>3. MemberFaults(validateValue, s, v.m) = {} <=> validateValue[<<sub, v.m[k]>>] = {}
      BY <1>2, <1>3, <2>4 DEF MemberFaults
    <3>4. v.m[k] \in Values
      BY <1>7, <2>4, Members
    <3> QED
      BY <1>4, <1>5, <1>7, <2>1, <2>4, <3>2, <3>3, <3>4
  <2> QED
    BY <2>2, <2>3, <2>4
<1> QED
  BY <1>6, <1>7

(* What finish's parameters accept, and what an output that is required must *)
(* be like.                                                                  *)
LEMMA FinishOutput ==
  ASSUME env \in Envs, NEW args \in Values \cup {NotJSON}
  PROVE  /\ validateRaw(FinishParams(WantedSchema), args) = {} =>
              /\ args \in Values /\ WellFormed(args) /\ args.m["output"] \in Values
              /\ validateValue[<<RequiredOutput, args.m["output"]>>] = {}
              /\ \/ Conforms[<<RequiredOutput, args.m["output"]>>]
                 \/ LaxSchema[RequiredOutput] \/ NullMember[args.m["output"]]
         /\ WellFormed(args) /\ Conforms[<<RequiredOutput, args.m["output"]>>] =>
              validateRaw(FinishParams(WantedSchema), args) = {}
<1> DEFINE s == FinishParams(WantedSchema)
<1>1. s \in Schemas /\ RequiredOutput \in Schemas /\ OutputSchema(WantedSchema) = RequiredOutput
  BY FinishParamsType
<1>2. OneMember(s, "output", RequiredOutput)
  BY <1>1, FinishParamsAre DEF OneMember
<1> HIDE DEF s
<1>3. CASE args = NotJSON
  BY <1>1, <1>3, RawValue DEF s, WellFormed, NotJSON
<1>4. CASE args \in Values
  <2>1. validateRaw(s, args) = Faults(validateValue, s, args)
    BY <1>1, <1>4, RawValue
  <2>2. Faults(validateValue, s, args) = {} <=>
              /\ args.t = "object" /\ DOMAIN args.m = {"output"}
              /\ args.m["output"] \in Values /\ validateValue[<<RequiredOutput, args.m["output"]>>] = {}
    BY <1>1, <1>2, <1>4, OneMemberFaults
  <2>3. ASSUME WellFormed(args) PROVE args.m["output"] \in Values
    BY <1>4, <2>3, Members DEF WellFormed
  <2>4. WellFormed(args) => args.t = "object" /\ DOMAIN args.m = {"output"}
    BY DEF WellFormed
  <2>5. args.t = "object" /\ DOMAIN args.m = {"output"} => WellFormed(args)
    BY DEF WellFormed
  <2> QED
    BY <1>1, <1>4, <2>1, <2>2, <2>3, <2>4, <2>5, AcceptedConforms, ConformingAccepted DEF s
<1> QED
  BY <1>3, <1>4

(* What the shell tool's parameters accept names a line, or is empty.        *)
LEMMA CommandIsLine ==
  ASSUME NEW c \in Calls, c.tool = "shell", validateRaw(ShellParams, c.args) = {}, Command(c) # ""
  PROVE  Command(c) \in DOMAIN Lines
<1>1. OneMember(ShellParams, "command", Typed("string")) /\ ShellParams \in Schemas
  BY ToolAssumption DEF OneMember, ShellParams, Typed, AnySchema, Optional
<1>2. c.args \in Values \cup {NotJSON}
  BY CallAssumption
<1>3. c.args \in Values /\ Faults(validateValue, ShellParams, c.args) = {}
  BY <1>1, <1>2, RawValue
<1> DEFINE v == c.args.m["command"]
<1>4. /\ c.args.t = "object" /\ DOMAIN c.args.m = {"command"} /\ v \in Values
      /\ Typed("string") \in Schemas /\ validateValue[<<Typed("string"), v>>] = {}
  BY <1>1, <1>3, OneMemberFaults
<1>5. v \in Parts(c.args)
  <2>1. Parts(c.args) = {c.args.m[k] : k \in DOMAIN c.args.m}
    BY <1>3, <1>4, Members
  <2> QED
    BY <1>4, <2>1
<1>6. v.t = "string"
  <2>1. validateType(validateValue, Typed("string"), v) = {}
    <3>1. Faults(validateValue, Typed("string"), v) = {}
      BY <1>4, validateValueIs
    <3>2. Typed("string").type # ""
      BY DEF Typed, AnySchema
    <3> HIDE DEF v
    <3> QED
      BY <3>1, <3>2 DEF Faults
  <2>2. Typed("string").type = "string"
    BY DEF Typed, AnySchema
  <2> HIDE DEF v
  <2>3. ASSUME v.t # "string" PROVE validateType(validateValue, Typed("string"), v) = {"expected type"}
    <3>1. "string" \in JSONTypes
      BY DEF JSONTypes
    <3> QED
      BY <2>2, <2>3, <3>1 DEF validateType
  <2> QED
    BY <2>1, <2>3
<1>7. v.s \in DOMAIN Lines \cup {""}
  BY <1>4, <1>5, <1>6, CallAssumption
<1> QED
  BY <1>7 DEF Command

-----------------------------------------------------------------------------
(* The inductive invariant. Of the launch: each step has left what the       *)
(* environment asks for, and nothing has run before the first turn.          *)
LaunchInv ==
  /\ env \in Envs /\ cfg = LoadConfig(env) /\ at \in Stages
  /\ at \notin {"config", "exit 2"} => ~cfg.err
  /\ at \in {"schema", "open"} \/ Running => GrantedBy(allow)
  /\ at = "open" \/ Running => outputSchema = WantedSchema
  /\ Running => /\ execTimeout = cfg.shellExecTimeout
                /\ prompt = SystemPrompt(cfg)
                /\ runStart = <<[commands |-> ToSet(allow.order), config |-> summary(cfg)]>>
  /\ ~Running => /\ stage = "idle" /\ spawned = {} /\ clock = 0
                 /\ execTimeout = DefaultShellExecTimeout
                 /\ answer = Answer("", FALSE)

(* Of the shell: only an admitted line runs, and its commands at one         *)
(* pipeline of it or behind the last.                                        *)
ShellInv ==
  /\ line \in DOMAIN Lines
  /\ stage \in {"idle", "run", "returned"} /\ (at = "shell" <=> stage # "idle")
  /\ stage # "run" => running = {}
  /\ stage = "run" => /\ Lines[line].parses /\ Verify(allow, Lines[line]) = ""
                      /\ killed = {} /\ pos \in 1..LastPos + 1
  /\ running # {} => pos \in 1..LastPos /\ running \subseteq DOMAIN Words
  /\ execTimeout \in Nat /\ clock \in Nat /\ (execTimeout > 0 => clock <= execTimeout)
  /\ spawned \subseteq DOMAIN allow.commands \cup shellBuiltins

(* Of what it returns: a denial is a refusal by verify, and success is that  *)
(* of a line that ran to its end.                                            *)
Done == /\ Lines[line].parses /\ pos > LastPos
        /\ running = {} /\ killed = {} /\ status = 0

ReturnInv ==
  stage = "returned" =>
    /\ result.err \in BOOLEAN
    /\ Lines[line].parses => (result.denied # "" <=> Verify(allow, Lines[line]) # "")
    /\ ~result.err /\ result.denied = "" /\ result.exit = 0 => Done

(* Of the last answer: what it says of its call.                             *)
AnswerInv ==
  /\ calls \in 0..MaxCalls /\ call \in Calls \cup {NoCall}
  /\ at = "shell" => answer.kind = ""
  /\ answer.kind = "list" => answer.list = Entries(allow)
  /\ answer.kind = "output" => Done
  /\ answer.kind = "finished" =>
       /\ call.tool = "finish" /\ call.args \in Values
       /\ validateRaw(FinishParams(outputSchema), call.args) = {}
       /\ output = call.args.m["output"]
  /\ call.tool = "finish" /\ answer.kind = "invalid arguments" =>
       validateRaw(FinishParams(outputSchema), call.args) # {}
  /\ answer.kind # "output does not match"

IInv == LaunchInv /\ ShellInv /\ ReturnInv /\ AnswerInv

LEMMA InitInv == Init => IInv
<1> SUFFICES ASSUME Init PROVE IInv
  OBVIOUS
<1>1. /\ at = "config" /\ stage = "idle" /\ running = {} /\ spawned = {} /\ clock = 0
      /\ execTimeout = DefaultShellExecTimeout /\ answer = Answer("", FALSE) /\ calls = 0
      /\ call = NoCall /\ line \in DOMAIN Lines /\ env \in Envs /\ cfg = LoadConfig(env)
  BY LineAssumption DEF Init, ShellInit
<1>2. ~Running /\ at \in Stages /\ at # "shell" /\ at \notin {"schema", "open"}
  BY <1>1 DEF Running, Stages
<1>3. answer.kind = ""
  BY <1>1 DEF Answer
<1>4. LaunchInv
  BY <1>1, <1>2 DEF LaunchInv
<1>5. ShellInv
  <2>1. execTimeout \in Nat /\ clock \in Nat /\ clock <= execTimeout
    <3>1. execTimeout = 60 /\ clock = 0
      BY <1>1 DEF DefaultShellExecTimeout
    <3> QED
      BY <3>1
  <2>2. stage # "run" /\ stage \in {"idle", "run", "returned"} /\ spawned \subseteq DOMAIN allow.commands \cup shellBuiltins
    BY <1>1
  <2> QED
    BY <1>1, <1>2, <2>1, <2>2 DEF ShellInv
<1>6. ReturnInv
  BY <1>1 DEF ReturnInv
<1>7. AnswerInv
  <2>1. calls \in 0..MaxCalls
    <3>1. calls = 0 /\ MaxCalls \in Nat
      BY <1>1, CallAssumption
    <3> QED
      BY <3>1
  <2> QED
    BY <1>1, <1>3, <2>1 DEF AnswerInv
<1> QED
  BY <1>4, <1>5, <1>6, <1>7 DEF IInv

-----------------------------------------------------------------------------
(* The launch. Before the first turn nothing changes but what it sets up.    *)
LEMMA LaunchKeeps ==
  ASSUME IInv, ~Running, at' \in Stages, at' # "shell", execTimeout' \in Nat,
         UNCHANGED <<dispatch, line, stage, interp, result, started, killed>>
  PROVE  ShellInv' /\ ReturnInv' /\ AnswerInv'
<1>1. stage = "idle" /\ spawned = {} /\ clock = 0 /\ answer = Answer("", FALSE)
  BY DEF IInv, LaunchInv
<1>2. answer.kind = ""
  BY <1>1 DEF Answer
<1>3. running = {} /\ line \in DOMAIN Lines
  BY <1>1 DEF IInv, ShellInv
<1>4. /\ stage' = "idle" /\ spawned' = {} /\ clock' = 0 /\ answer'.kind = "" /\ running' = {}
      /\ line' \in DOMAIN Lines /\ call' = call /\ calls' = calls
  BY <1>1, <1>2, <1>3 DEF dispatch, interp, started
<1>5. ShellInv'
  <2>1. clock' \in Nat /\ clock' <= execTimeout'
    <3>1. clock' = 0
      BY <1>4
    <3> QED
      BY <3>1
  <2>2. stage' # "run" /\ stage' \in {"idle", "run", "returned"} /\ spawned' \subseteq DOMAIN allow'.commands \cup shellBuiltins
    BY <1>4
  <2> QED
    BY <1>4, <2>1, <2>2 DEF ShellInv
<1>6. ReturnInv'
  BY <1>4 DEF ReturnInv
<1>7. AnswerInv'
  <2>1. calls \in 0..MaxCalls /\ call \in Calls \cup {NoCall}
    BY DEF IInv, AnswerInv
  <2> QED
    BY <1>4, <2>1 DEF AnswerInv
<1> QED
  BY <1>5, <1>6, <1>7

LEMMA TimeoutType ==
  ASSUME env \in Envs, cfg = LoadConfig(env)
  PROVE  cfg.shellExecTimeout \in Nat
<1>1. cfg.shellExecTimeout = envInt(env.shellTimeout, DefaultShellExecTimeout)
  BY DEF LoadConfig
<1>2. env.shellTimeout.n \in Int
  BY EnvAssumption
<1> QED
  BY <1>1, <1>2 DEF envInt, DefaultShellExecTimeout

(* What an unchanged environment asks for does not change.                   *)
LEMMA SameGrants ==
  ASSUME env' = env
  PROVE  /\ Configured' = Configured /\ WantedSchema' = WantedSchema
         /\ RequiredOutput' = RequiredOutput
         /\ allow' = allow => GrantedBy(allow)' = GrantedBy(allow)
BY DEF Configured, WantedSchema, RequiredOutput, GrantedBy

LEMMA ConfigureKeeps == IInv /\ Configure => IInv'
<1> SUFFICES ASSUME IInv, Configure PROVE IInv'
  OBVIOUS
<1>1. /\ at = "config" /\ at' \in {"exit 2", "grants"} /\ (at' = "grants" => ~cfg.err)
      /\ UNCHANGED <<launched, dispatch, shellVars>>
  BY DEF Configure
<1>2. ~Running /\ ~Running' /\ at' \in Stages /\ at' \notin {"shell", "schema", "open"}
  BY <1>1 DEF Running, Stages
<1>3. LaunchInv'
  <2>1. /\ env' = env /\ cfg' = cfg /\ stage' = stage /\ spawned' = spawned /\ clock' = clock
        /\ execTimeout' = execTimeout /\ answer' = answer
    BY <1>1 DEF launched, dispatch, shellVars, settings, interp, started
  <2> QED
    BY <1>1, <1>2, <2>1 DEF IInv, LaunchInv
<1>4. execTimeout' \in Nat /\ UNCHANGED <<dispatch, line, stage, interp, result, started, killed>>
  BY <1>1 DEF shellVars, settings, IInv, ShellInv
<1> QED
  BY <1>2, <1>3, <1>4, LaunchKeeps DEF IInv

LEMMA LoadGrantsKeeps == IInv /\ LoadGrants => IInv'
<1> SUFFICES ASSUME IInv, LoadGrants PROVE IInv'
  OBVIOUS
<1>1. /\ at = "grants" /\ at' \in {"exit 1", "schema"} /\ allow' = loadAllowlist(cfg).value
      /\ (at' = "schema" => ~loadAllowlist(cfg).err)
      /\ UNCHANGED <<launched, dispatch, execTimeout, line, stage, interp, result, started, killed>>
  BY DEF LoadGrants
<1>2. ~Running /\ ~Running' /\ at' \in Stages /\ at' \notin {"shell", "open"}
  BY <1>1 DEF Running, Stages
<1>3. /\ env' = env /\ cfg' = cfg /\ stage' = stage /\ spawned' = spawned /\ clock' = clock
      /\ execTimeout' = execTimeout /\ answer' = answer
  BY <1>1 DEF launched, dispatch, interp, started
<1>4. at' = "schema" => GrantedBy(allow)'
  <2>1. env \in Envs /\ cfg = LoadConfig(env)
    BY DEF IInv, LaunchInv
  <2>2. at' = "schema" => GrantedBy(allow')
    BY <1>1, <2>1, LoadedIsGranted
  <2> QED
    BY <1>3, <2>2, SameGrants DEF GrantedBy
<1>5. LaunchInv'
  BY <1>1, <1>2, <1>3, <1>4 DEF IInv, LaunchInv
<1>6. execTimeout' \in Nat
  BY <1>3 DEF IInv, ShellInv
<1> QED
  BY <1>1, <1>2, <1>5, <1>6, LaunchKeeps DEF IInv

LEMMA LoadSchemaKeeps == IInv /\ loadOutputSchema => IInv'
<1> SUFFICES ASSUME IInv, loadOutputSchema PROVE IInv'
  OBVIOUS
<1>1. /\ at = "schema" /\ at' \in {"exit 1", "open"} /\ outputSchema' = WantedSchema
      /\ UNCHANGED <<env, cfg, prompt, runStart, dispatch, shellVars>>
  <2>1. cfg.outputSchemaPath = env.outputSchema
    BY DEF IInv, LaunchInv, LoadConfig
  <2> QED
    BY <2>1 DEF loadOutputSchema, WantedSchema
<1>2. ~Running /\ ~Running' /\ at' \in Stages /\ at' \notin {"shell", "schema"}
  BY <1>1 DEF Running, Stages
<1>3. /\ env' = env /\ cfg' = cfg /\ stage' = stage /\ spawned' = spawned /\ clock' = clock
      /\ execTimeout' = execTimeout /\ answer' = answer /\ allow' = allow
  BY <1>1 DEF dispatch, shellVars, settings, interp, started
<1>4. GrantedBy(allow)' /\ outputSchema' = WantedSchema'
  BY <1>1, <1>3, SameGrants DEF IInv, LaunchInv
<1>5. LaunchInv'
  BY <1>1, <1>2, <1>3, <1>4 DEF IInv, LaunchInv
<1>6. execTimeout' \in Nat /\ UNCHANGED <<dispatch, line, stage, interp, result, started, killed>>
  BY <1>1 DEF shellVars, settings, IInv, ShellInv
<1> QED
  BY <1>2, <1>5, <1>6, LaunchKeeps DEF IInv

LEMMA OpenFailsKeeps == IInv /\ OpenFails => IInv'
<1> SUFFICES ASSUME IInv, OpenFails PROVE IInv'
  OBVIOUS
<1>1. at = "open" /\ at' = "exit 1" /\ UNCHANGED <<launched, dispatch, shellVars>>
  BY DEF OpenFails
<1>2. ~Running /\ ~Running' /\ at' \in Stages /\ at' \notin {"shell", "schema", "open"}
  BY <1>1 DEF Running, Stages
<1>3. /\ env' = env /\ cfg' = cfg /\ stage' = stage /\ spawned' = spawned /\ clock' = clock
      /\ execTimeout' = execTimeout /\ answer' = answer
  BY <1>1 DEF launched, dispatch, shellVars, settings, interp, started
<1>4. LaunchInv'
  BY <1>1, <1>2, <1>3 DEF IInv, LaunchInv
<1>5. execTimeout' \in Nat /\ UNCHANGED <<dispatch, line, stage, interp, result, started, killed>>
  BY <1>1 DEF shellVars, settings, IInv, ShellInv
<1> QED
  BY <1>2, <1>4, <1>5, LaunchKeeps DEF IInv

LEMMA StartKeeps == IInv /\ Start => IInv'
<1> SUFFICES ASSUME IInv, Start PROVE IInv'
  OBVIOUS
<1>1. /\ at = "open" /\ at' = "turn" /\ execTimeout' = cfg.shellExecTimeout
      /\ prompt' = SystemPrompt(cfg)
      /\ runStart' = <<[commands |-> ToSet(allow.order), config |-> summary(cfg)]>>
      /\ env' = env /\ cfg' = cfg /\ outputSchema' = outputSchema /\ allow' = allow
      /\ UNCHANGED <<dispatch, line, stage, interp, result, started, killed>>
  BY DEF Start
<1>2. ~Running /\ Running' /\ at' \in Stages /\ at' \notin {"shell", "config", "exit 2"}
  BY <1>1 DEF Running, Stages
<1>3. env \in Envs /\ cfg = LoadConfig(env) /\ ~cfg.err
  BY <1>1 DEF IInv, LaunchInv
<1>4. GrantedBy(allow)' /\ outputSchema' = WantedSchema'
  BY <1>1, SameGrants DEF IInv, LaunchInv
<1>5. LaunchInv'
  BY <1>1, <1>2, <1>3, <1>4 DEF LaunchInv
<1>6. execTimeout' \in Nat
  BY <1>1, <1>3, TimeoutType
<1> QED
  BY <1>1, <1>2, <1>5, <1>6, LaunchKeeps DEF IInv

-----------------------------------------------------------------------------
(* Once it runs, the launch's part stays as it is.                           *)
LEMMA LaunchFrame ==
  ASSUME LaunchInv, Running, Running', at' \in Stages, UNCHANGED <<launched, settings>>
  PROVE  LaunchInv'
<1>1. at \notin {"config", "exit 2"} /\ at' \notin {"config", "exit 2", "open"}
  BY DEF Running
<1>2. /\ env' = env /\ cfg' = cfg /\ outputSchema' = outputSchema /\ prompt' = prompt
      /\ runStart' = runStart /\ allow' = allow /\ execTimeout' = execTimeout
  BY DEF launched, settings
<1>3. /\ GrantedBy(allow) /\ outputSchema = WantedSchema /\ ~cfg.err
      /\ execTimeout = cfg.shellExecTimeout /\ prompt = SystemPrompt(cfg)
      /\ runStart = <<[commands |-> ToSet(allow.order), config |-> summary(cfg)]>>
      /\ env \in Envs /\ cfg = LoadConfig(env)
  BY <1>1 DEF LaunchInv
<1>4. GrantedBy(allow)' /\ outputSchema' = WantedSchema'
  BY <1>2, <1>3, SameGrants
<1> QED
  BY <1>1, <1>2, <1>3, <1>4 DEF LaunchInv

(* What is not the shell tool leaves the shell alone.                        *)
LEMMA ShellFrame ==
  ASSUME ShellInv, ReturnInv, UNCHANGED shellVars, at' = "shell" <=> at = "shell"
  PROVE  ShellInv' /\ ReturnInv' /\ (Done' <=> Done)
<1>1. /\ allow' = allow /\ execTimeout' = execTimeout /\ line' = line /\ stage' = stage
      /\ pos' = pos /\ running' = running /\ status' = status /\ clock' = clock
      /\ onExit' = onExit /\ result' = result /\ spawned' = spawned /\ killed' = killed
  BY DEF shellVars, settings, interp, started
<1>2. LastPos' = LastPos /\ Words' = Words
  BY <1>1 DEF Pipelines, Cmds, LastPos, Words
<1>3. ShellInv'
  BY <1>1, <1>2 DEF ShellInv
<1>4. Done' <=> Done
  BY <1>1, <1>2 DEF Done
<1>5. ReturnInv'
  BY <1>1, <1>4 DEF ReturnInv
<1> QED
  BY <1>3, <1>4, <1>5

(* A call is counted, and is the last one.                                   *)
LEMMA Counted ==
  ASSUME IInv, NEW c \in Calls, Dispatched(c)
  PROVE  /\ at = "turn" /\ Running /\ stage = "idle"
         /\ calls' \in 0..MaxCalls /\ call' = c /\ call' \in Calls \cup {NoCall}
<1>1. at = "turn" /\ calls < MaxCalls /\ calls' = calls + 1 /\ call' = c
  BY DEF Dispatched
<1>2. calls \in 0..MaxCalls /\ MaxCalls \in Nat
  BY CallAssumption DEF IInv, AnswerInv
<1>3. calls' \in 0..MaxCalls
  BY <1>1, <1>2
<1>4. stage = "idle"
  BY <1>1 DEF IInv, ShellInv
<1> QED
  BY <1>1, <1>3, <1>4 DEF Running

LEMMA RejectKeeps == ASSUME NEW c \in Calls PROVE IInv /\ Reject(c) => IInv'
<1> SUFFICES ASSUME IInv, Reject(c) PROVE IInv'
  OBVIOUS
<1>1. /\ Dispatched(c) /\ at' = at /\ output' = output
      /\ UNCHANGED launched /\ UNCHANGED shellVars /\ outputSchema' = outputSchema
  BY DEF Reject, launched
<1>2. /\ at = "turn" /\ Running /\ calls' \in 0..MaxCalls /\ call' = c /\ call' \in Calls \cup {NoCall}
  BY <1>1, Counted
<1>3. Running' /\ at' \in Stages
  BY <1>1, <1>2 DEF Running, Stages
<1>4. LaunchInv'
  BY <1>1, <1>2, <1>3, LaunchFrame DEF IInv, shellVars
<1>5. ShellInv' /\ ReturnInv'
  BY <1>1, ShellFrame DEF IInv
<1>6. /\ answer'.kind \in {"unknown tool", "invalid arguments"}
      /\ answer'.kind = "invalid arguments" => validateRaw(Params(c.tool), c.args) # {}
  <2>1. \/ answer' = Answer("unknown tool", TRUE)
        \/ /\ validateRaw(Params(c.tool), c.args) # {}
           /\ answer' = Answer("invalid arguments", TRUE)
    BY DEF Reject
  <2>2. /\ Answer("unknown tool", TRUE).kind = "unknown tool"
        /\ Answer("invalid arguments", TRUE).kind = "invalid arguments"
    BY DEF Answer
  <2> QED
    BY <2>1, <2>2
<1>7. AnswerInv'
  <2>1. c.tool = "finish" => Params(c.tool) = FinishParams(outputSchema)
    BY DEF Params
  <2>2. call'.tool = "finish" /\ answer'.kind = "invalid arguments" =>
          validateRaw(FinishParams(outputSchema'), call'.args) # {}
    BY <1>1, <1>2, <1>6, <2>1
  <2> QED
    BY <1>1, <1>2, <1>6, <2>2 DEF AnswerInv
<1> QED
  BY <1>4, <1>5, <1>7 DEF IInv

LEMMA ToolListKeeps == ASSUME NEW c \in Calls PROVE IInv /\ ToolList(c) => IInv'
<1> SUFFICES ASSUME IInv, ToolList(c) PROVE IInv'
  OBVIOUS
<1>1. /\ Dispatched(c) /\ at' = at /\ output' = output /\ c.tool = "tool_list"
      /\ answer' = [kind |-> "list", isErr |-> FALSE, list |-> Entries(allow)]
      /\ UNCHANGED launched /\ UNCHANGED shellVars
  BY DEF ToolList
<1>2. /\ at = "turn" /\ Running /\ calls' \in 0..MaxCalls /\ call' = c /\ call' \in Calls \cup {NoCall}
  BY <1>1, Counted
<1>3. Running' /\ at' \in Stages
  BY <1>1, <1>2 DEF Running, Stages
<1>4. LaunchInv'
  BY <1>1, <1>2, <1>3, LaunchFrame DEF IInv, shellVars
<1>5. ShellInv' /\ ReturnInv'
  BY <1>1, ShellFrame DEF IInv
<1>6. answer'.kind = "list" /\ answer'.list = Entries(allow')
  BY <1>1 DEF shellVars, settings, Entries
<1>7. AnswerInv'
  BY <1>1, <1>2, <1>6 DEF AnswerInv
<1> QED
  BY <1>4, <1>5, <1>7 DEF IInv

(* The second check of an output does not find what the first did not.       *)
LEMMA FinishKeeps == ASSUME NEW c \in Calls PROVE IInv /\ Finish(c) => IInv'
<1> SUFFICES ASSUME IInv, Finish(c) PROVE IInv'
  OBVIOUS
<1>1. /\ Dispatched(c) /\ c.tool = "finish" /\ validateRaw(Params("finish"), c.args) = {}
      /\ UNCHANGED launched /\ UNCHANGED shellVars /\ outputSchema' = outputSchema
  BY DEF Finish, Accepted, launched
<1>2. /\ at = "turn" /\ Running /\ calls' \in 0..MaxCalls /\ call' = c /\ call' \in Calls \cup {NoCall}
  BY <1>1, Counted
<1>3. env \in Envs /\ outputSchema = WantedSchema
  BY <1>2 DEF IInv, LaunchInv
<1>4. validateRaw(FinishParams(outputSchema), c.args) = {}
  BY <1>1 DEF Params
<1>5. /\ c.args \in Values /\ c.args.m["output"] \in Values
      /\ validateValue[<<RequiredOutput, c.args.m["output"]>>] = {}
  <2>1. c.args \in Values \cup {NotJSON}
    BY CallAssumption
  <2> QED
    BY <1>3, <1>4, <2>1, FinishOutput
<1>6. ~(outputSchema # <<>> /\ validateRaw(outputSchema[1], c.args.m["output"]) # {})
  <2> SUFFICES ASSUME outputSchema # <<>> PROVE validateRaw(outputSchema[1], c.args.m["output"]) = {}
    OBVIOUS
  <2>1. outputSchema[1] = RequiredOutput /\ RequiredOutput \in Schemas
    BY <1>3, FinishParamsType DEF WantedSchema, RequiredOutput
  <2>2. c.args.m["output"].t # "malformed"
    BY <1>5, <2>1, RawValue
  <2> QED
    BY <1>5, <2>1, <2>2 DEF validateRaw
<1>7. answer' = Answer("finished", FALSE) /\ output' = c.args.m["output"] /\ at' = "finished"
  BY <1>6 DEF Finish
<1>8. Running' /\ at' \in Stages /\ (at' = "shell" <=> at = "shell")
  BY <1>2, <1>7 DEF Running, Stages
<1>9. LaunchInv'
  BY <1>1, <1>2, <1>8, LaunchFrame DEF IInv, shellVars
<1>10. ShellInv' /\ ReturnInv'
  BY <1>1, <1>8, ShellFrame DEF IInv
<1>11. AnswerInv'
  <2>1. answer'.kind = "finished"
    BY <1>7 DEF Answer
  <2> QED
    BY <1>1, <1>2, <1>4, <1>5, <1>7, <2>1 DEF AnswerInv
<1> QED
  BY <1>9, <1>10, <1>11 DEF IInv

LEMMA ShellEmptyKeeps == ASSUME NEW c \in Calls PROVE IInv /\ ShellEmpty(c) => IInv'
<1> SUFFICES ASSUME IInv, ShellEmpty(c) PROVE IInv'
  OBVIOUS
<1>1. /\ Dispatched(c) /\ at' = at /\ c.tool = "shell" /\ answer' = Answer("empty command", TRUE)
      /\ UNCHANGED launched /\ UNCHANGED shellVars
  BY DEF ShellEmpty
<1>2. /\ at = "turn" /\ Running /\ calls' \in 0..MaxCalls /\ call' = c /\ call' \in Calls \cup {NoCall}
  BY <1>1, Counted
<1>3. Running' /\ at' \in Stages
  BY <1>1, <1>2 DEF Running, Stages
<1>4. LaunchInv'
  BY <1>1, <1>2, <1>3, LaunchFrame DEF IInv, shellVars
<1>5. ShellInv' /\ ReturnInv'
  BY <1>1, ShellFrame DEF IInv
<1>6. answer'.kind = "empty command"
  BY <1>1 DEF Answer
<1>7. AnswerInv'
  BY <1>1, <1>2, <1>6 DEF AnswerInv
<1> QED
  BY <1>4, <1>5, <1>7 DEF IInv

-----------------------------------------------------------------------------
(* What Run returns when it is no error.                                     *)
LEMMA NoError ==
  ASSUME NEW exit, NEW denied
  PROVE  /\ ShellResult(exit, denied, FALSE).exit = exit
         /\ ShellResult(exit, denied, FALSE).denied = denied
         /\ ~ShellResult(exit, denied, FALSE).err
         /\ ShellResult(exit, denied, FALSE).err \in BOOLEAN
<1>1. ~ShellResult(exit, denied, FALSE).err
  BY DEF ShellResult
<1>2. ShellResult(exit, denied, FALSE).err \in BOOLEAN
  BY DEF ShellResult
<1>3. /\ ShellResult(exit, denied, FALSE).exit = exit
      /\ ShellResult(exit, denied, FALSE).denied = denied
  BY DEF ShellResult
<1> QED
  BY <1>1, <1>2, <1>3

(* The pipeline a line is at.                                                *)
LEMMA NextPipeline ==
  ASSUME NEW n \in Nat
  PROVE  /\ 1 \in 1..n + 1
         /\ \A p \in 1..n + 1 : p <= n => p \in 1..n
         /\ \A p \in 1..n : p \in 1..n + 1 /\ p + 1 \in 1..n + 1
OBVIOUS

(* A place before the end of the line or at it.                              *)
LEMMA PlaceTyped ==
  ASSUME NEW n \in Nat, NEW p \in 1..n + 1, NEW m \in Nat
  PROVE  /\ p \in Nat
         /\ p <= m => p \in 1..m
OBVIOUS

LEMMA PlaceWidens ==
  ASSUME NEW n \in Nat, NEW p \in 1..n, NEW m \in Nat, n <= m
  PROVE  p \in 1..m /\ p \in 1..m + 1
OBVIOUS

(* A line is taken by the shell.                                             *)
LEMMA ShellRunKeeps == ASSUME NEW c \in Calls PROVE IInv /\ ShellRun(c) => IInv'
<1> SUFFICES ASSUME IInv, ShellRun(c) PROVE IInv'
  OBVIOUS
<1> DEFINE l == Command(c)
<1>1. /\ Dispatched(c) /\ at' = "shell" /\ c.tool = "shell" /\ answer' = Answer("", FALSE)
      /\ l # "" /\ validateRaw(Params("shell"), c.args) = {} /\ UNCHANGED launched
      /\ Refuse(l) \/ NoInterpreter(l) \/ Execute(l)
  BY DEF ShellRun, Accepted
<1>2. /\ at = "turn" /\ Running /\ calls' \in 0..MaxCalls /\ call' = c /\ call' \in Calls \cup {NoCall}
  BY <1>1, Counted
<1>3. Running' /\ at' \in Stages
  BY <1>1 DEF Running, Stages
<1>4. l \in DOMAIN Lines
  BY <1>1, CommandIsLine DEF Params
<1> HIDE DEF l
<1>5. /\ UNCHANGED settings /\ allow' = allow /\ execTimeout' = execTimeout /\ spawned' = spawned
      /\ line' = l
  BY <1>1 DEF Refuse, NoInterpreter, Admitted, Execute, settings, started
<1>6. LaunchInv'
  BY <1>1, <1>2, <1>3, <1>5, LaunchFrame DEF IInv
<1>7. /\ stage = "idle" /\ running = {} /\ execTimeout \in Nat /\ clock \in Nat
      /\ (execTimeout > 0 => clock <= execTimeout)
      /\ spawned \subseteq DOMAIN allow.commands \cup shellBuiltins
  BY <1>2 DEF IInv, ShellInv
<1>8. ShellInv' /\ ReturnInv'
  <2>1. CASE Refuse(l)
    <3>1. stage' = "returned" /\ running' = running /\ clock' = clock
      BY <2>1 DEF Refuse, Return, interp
    <3>2. ShellInv'
      BY <1>1, <1>4, <1>5, <1>7, <3>1 DEF ShellInv
    <3>3. CASE ~Lines[l].parses
      <4>1. result' = ShellResult(2, "", FALSE)
        BY <2>1, <3>3 DEF Refuse, Return
      <4>2. ~result'.err /\ result'.err \in BOOLEAN /\ result'.exit # 0
        <5>1. ~result'.err /\ result'.err \in BOOLEAN
          BY <4>1, NoError, Zenon
        <5>2. result'.exit = 2
          BY <4>1 DEF ShellResult
        <5>3. result'.exit # 0
          BY <5>2
        <5> QED
          BY <5>1, <5>3, Zenon
      <4> QED
        BY <1>5, <3>2, <3>3, <4>2 DEF ReturnInv
    <3>4. CASE Lines[l].parses
      <4>1. Verify(allow, Lines[l]) # "" /\ result' = ShellResult(126, Verify(allow, Lines[l]), FALSE)
        BY <2>1, <3>4 DEF Refuse, Return
      <4>2. result'.err \in BOOLEAN /\ result'.denied = Verify(allow, Lines[l])
        BY <4>1 DEF ShellResult
      <4> QED
        BY <1>5, <3>2, <4>1, <4>2 DEF ReturnInv
    <3> QED
      BY <3>3, <3>4
  <2>2. CASE NoInterpreter(l)
    <3>1. /\ stage' = "returned" /\ running' = running /\ clock' = clock
          /\ result' = ShellResult(0, "", TRUE) /\ Verify(allow, Lines[l]) = ""
      BY <2>2 DEF NoInterpreter, Admitted, Return, interp
    <3>2. ShellInv'
      BY <1>1, <1>4, <1>5, <1>7, <3>1 DEF ShellInv
    <3>3. result'.denied = ""
      BY <3>1 DEF ShellResult
    <3>4. result'.err
      <4>1. ShellResult(0, "", TRUE).err = TRUE
        BY DEF ShellResult
      <4> QED
        BY <3>1, <4>1, Zenon
    <3>5. result'.err \in BOOLEAN
      BY <3>1 DEF ShellResult
    <3> QED
      BY <1>5, <3>1, <3>2, <3>3, <3>4, <3>5 DEF ReturnInv
  <2>3. CASE Execute(l)
    <3>1. /\ stage' = "run" /\ pos' = 1 /\ running' = {} /\ clock' = 0 /\ killed' = {}
          /\ onExit' = <<>>
          /\ Lines[l].parses /\ Verify(allow, Lines[l]) = ""
      BY <2>3 DEF Execute, Admitted
    <3>2. pos' \in 1..LastPos' + 1
      <4>1. LastPos' \in Nat
        <5>1. Lines[l] \in LineType
          BY <1>4, LineAssumption
        <5>2. Pipelines' = Lines[l].pipelines
          BY <1>5 DEF Pipelines
        <5>3. Len(Pipelines') \in Nat
          BY <5>1, <5>2, LineTyped
        <5>4. LastPos' = Len(Pipelines') + 0
          BY <3>1 DEF LastPos
        <5> QED
          BY <5>3, <5>4
      <4> QED
        BY <3>1, <4>1, NextPipeline
    <3>3. clock' \in Nat /\ clock' <= execTimeout
      <4>1. clock' = 0
        BY <3>1
      <4> QED
        BY <1>7, <4>1
    <3>4. ShellInv'
      BY <1>1, <1>4, <1>5, <1>7, <3>1, <3>2, <3>3 DEF ShellInv
    <3> QED
      BY <3>1, <3>4 DEF ReturnInv
  <2> QED
    BY <1>1, <2>1, <2>2, <2>3
<1>9. AnswerInv'
  <2>1. answer'.kind = ""
    BY <1>1 DEF Answer
  <2> QED
    BY <1>1, <1>2, <2>1 DEF AnswerInv
<1> QED
  BY <1>6, <1>8, <1>9 DEF IInv

-----------------------------------------------------------------------------
LEMMA CommandsOf ==
  ASSUME NEW l \in LineType, NEW p \in 1..Len(l.pipelines)
  PROVE  DOMAIN l.pipelines[p].cmds = 1..Len(l.pipelines[p].cmds)
BY LineTyped

(* The commands of an admitted line that are spawned are granted, or bear    *)
(* the name of a builtin the interpreter does not have.                      *)
LEMMA AdmittedWords ==
  ASSUME NEW l \in LineType, NEW a, Verify(a, l) = "", NEW p \in 1..Len(l.pipelines),
         NEW own
  PROVE  {l.pipelines[p].cmds[i].word : i \in DOMAIN l.pipelines[p].cmds}
           \ (own \cup {"(("}) \subseteq DOMAIN a.commands \cup shellBuiltins
<1> DEFINE cmds == l.pipelines[p].cmds
<1>1. DOMAIN cmds = 1..Len(cmds)
  BY CommandsOf
<1>2. \A i \in 1..Len(cmds) : Fine(a, cmds[i])
  BY VerifyFine DEF AllFine
<1>3. \A i \in 1..Len(cmds) : cmds[i].word \in DOMAIN a.commands \cup shellBuiltins \cup {"(("}
  BY <1>2 DEF Fine
<1> HIDE DEF cmds
<1>4. {cmds[i].word : i \in DOMAIN cmds} \ (own \cup {"(("})
        \subseteq DOMAIN a.commands \cup shellBuiltins
  BY <1>1, <1>3
<1> QED
  BY <1>4 DEF cmds

(* The words of a pipeline of the line, and of the action behind the last.   *)
LEMMA WordsAre ==
  ASSUME Len(Pipelines) \in Nat, pos \in Nat
  PROVE  /\ LastPos \in Nat /\ Len(Pipelines) <= LastPos
         /\ pos <= Len(Pipelines) =>
              /\ DOMAIN Words = DOMAIN Cmds
              /\ ToSet(Words) = {Cmds[i].word : i \in DOMAIN Cmds}
         /\ ~(pos <= Len(Pipelines)) => Words = onExit
<1>1. CASE pos <= Len(Pipelines)
  BY <1>1 DEF Words, ToSet, LastPos
<1>2. CASE ~(pos <= Len(Pipelines))
  BY <1>2 DEF Words, LastPos
<1> QED
  BY <1>1, <1>2

(* A step of the interpreter or its end keeps the shell's part.              *)
LEMMA StepKeeps ==
  ASSUME ShellInv, ReturnInv, at = "shell", at' = "shell", ShellStep
  PROVE  ShellInv' /\ ReturnInv' /\ UNCHANGED settings
<1>1. stage = "run" /\ UNCHANGED settings /\ allow' = allow /\ execTimeout' = execTimeout /\ line' = line
  BY DEF ShellStep, StartPipeline, SkipPipeline, RunTrap, CommandEnds, Tick, Cut, LineDone,
         Between, settings
<1>2. /\ line \in DOMAIN Lines /\ Lines[line].parses /\ Verify(allow, Lines[line]) = ""
      /\ killed = {} /\ pos \in 1..LastPos + 1
      /\ (running # {} => pos \in 1..LastPos /\ running \subseteq DOMAIN Words)
      /\ execTimeout \in Nat /\ clock \in Nat /\ (execTimeout > 0 => clock <= execTimeout)
      /\ spawned \subseteq DOMAIN allow.commands \cup shellBuiltins
  BY <1>1 DEF ShellInv
<1>3. Pipelines' = Pipelines /\ Lines[line] \in LineType /\ Len(Pipelines) \in Nat
  <2>1. Lines[line] \in LineType
    BY <1>2, LineAssumption
  <2> QED
    BY <1>1, <2>1, LineTyped DEF Pipelines
<1>10. /\ LastPos \in Nat /\ Len(Pipelines) <= LastPos /\ pos \in Nat
       /\ pos <= Len(Pipelines) =>
            /\ DOMAIN Words = DOMAIN Cmds
            /\ ToSet(Words) = {Cmds[i].word : i \in DOMAIN Cmds}
  <2>1. pos \in Nat
    <3>1. LastPos \in Nat
      BY <1>3 DEF LastPos
    <3>2. pos \in 1..LastPos + 1
      BY <1>2, Zenon
    <3> QED
      BY <3>1, <3>2, PlaceTyped
  <2> QED
    BY <1>3, <2>1, WordsAre
<1>4. CASE StartPipeline
  <2>1. /\ running = {} /\ pos <= Len(Pipelines) /\ running' = DOMAIN Words
        /\ spawned' = spawned \cup (ToSet(Words) \ (Implemented \cup {"(("}))
        /\ stage' = stage /\ pos' = pos /\ clock' = clock /\ killed' = killed
    BY <1>4 DEF StartPipeline, Between
  <2>2. pos \in 1..Len(Pipelines)
    <3>1. pos \in 1..LastPos + 1
      BY <1>2, Zenon
    <3>2. LastPos \in Nat /\ Len(Pipelines) \in Nat /\ pos <= Len(Pipelines)
      BY <1>3, <1>10, <2>1, Zenon
    <3> QED
      BY <3>1, <3>2, PlaceTyped
  <2>3. ToSet(Words) \ (Implemented \cup {"(("}) \subseteq DOMAIN allow.commands \cup shellBuiltins
    <3>1. Verify(allow, Lines[line]) = "" /\ Lines[line] \in LineType
      BY <1>2, <1>3, Zenon
    <3>2. pos \in 1..Len(Lines[line].pipelines)
      BY <2>2 DEF Pipelines
    <3>3. {Lines[line].pipelines[pos].cmds[i].word : i \in DOMAIN Lines[line].pipelines[pos].cmds}
            \ (Implemented \cup {"(("}) \subseteq DOMAIN allow.commands \cup shellBuiltins
      BY <3>1, <3>2, AdmittedWords
    <3>4. {Cmds[i].word : i \in DOMAIN Cmds} \ (Implemented \cup {"(("})
            \subseteq DOMAIN allow.commands \cup shellBuiltins
      BY <3>3 DEF Cmds, Pipelines
    <3>5. ToSet(Words) = {Cmds[i].word : i \in DOMAIN Cmds}
      BY <1>10, <2>1, Zenon
    <3> QED
      BY <3>4, <3>5, Zenon
  <2>4. Words' = Words
    BY <1>3, <2>1 DEF Words, Cmds
  <2>5. spawned' \subseteq DOMAIN allow.commands \cup shellBuiltins
    BY <1>2, <2>1, <2>3
  <2>6. pos' \in 1..LastPos' /\ pos' \in 1..LastPos' + 1
    <3>1. LastPos' \in Nat /\ Len(Pipelines) <= LastPos'
      BY <1>3 DEF LastPos
    <3>2. pos' = pos
      BY <2>1
    <3>3. Len(Pipelines) \in Nat
      BY <1>3
    <3>4. pos \in 1..LastPos' /\ pos \in 1..LastPos' + 1
      BY <2>2, <3>1, <3>3, PlaceWidens
    <3> QED
      BY <3>2, <3>4, Zenon
  <2>7. ShellInv'
    BY <1>1, <1>2, <2>1, <2>4, <2>5, <2>6 DEF ShellInv
  <2> QED
    BY <1>1, <2>1, <2>7 DEF ReturnInv
<1>5. CASE SkipPipeline
  <2>1. /\ running = {} /\ pos <= LastPos /\ running' = running /\ spawned' = spawned
        /\ onExit' = onExit /\ stage' = stage /\ pos' = pos + 1 /\ clock' = clock /\ killed' = killed
    BY <1>5 DEF SkipPipeline, Between, started
  <2>2. pos' \in 1..LastPos + 1 /\ LastPos' = LastPos
    BY <1>2, <1>3, <1>10, <2>1, NextPipeline DEF LastPos
  <2>3. ShellInv'
    BY <1>1, <1>2, <2>1, <2>2 DEF ShellInv
  <2> QED
    BY <1>1, <2>1, <2>3 DEF ReturnInv
<1>11. CASE RunTrap
  <2>1. /\ running = {} /\ pos <= LastPos /\ running' = DOMAIN Words /\ spawned' = spawned
        /\ onExit' = onExit /\ stage' = stage /\ pos' = pos /\ clock' = clock /\ killed' = killed
    BY <1>11 DEF RunTrap, Between
  <2>2. pos \in 1..LastPos
    <3>1. pos \in 1..LastPos + 1
      BY <1>2, Zenon
    <3>2. LastPos \in Nat /\ pos <= LastPos
      BY <1>10, <2>1, Zenon
    <3> QED
      BY <3>1, <3>2, PlaceTyped
  <2>4. LastPos' = LastPos /\ Words' = Words
    BY <1>3, <2>1 DEF LastPos, Words, Cmds
  <2>3. ShellInv'
    BY <1>1, <1>2, <2>1, <2>2, <2>4 DEF ShellInv
  <2> QED
    BY <1>1, <2>1, <2>3 DEF ReturnInv
<1>6. CASE CommandEnds
  <2>1. PICK i \in running : running' = running \ {i}
    BY <1>6 DEF CommandEnds
  <2>2. /\ pos' = (IF running' = {} THEN pos + 1 ELSE pos) /\ spawned' = spawned
        /\ onExit' = onExit /\ stage' = stage /\ clock' = clock /\ killed' = killed
    BY <1>6 DEF CommandEnds, started
  <2>3. pos \in 1..LastPos /\ running \subseteq DOMAIN Words /\ LastPos' = LastPos
    BY <1>2, <1>3, <2>1, <2>2 DEF LastPos
  <2>4. pos' \in 1..LastPos + 1
    BY <1>10, <2>2, <2>3, NextPipeline
  <2>5. running' # {} => pos' = pos /\ Words' = Words /\ running' \subseteq DOMAIN Words
    BY <1>3, <2>1, <2>2, <2>3 DEF Words, Cmds
  <2>6. ShellInv'
    BY <1>1, <1>2, <2>2, <2>3, <2>4, <2>5 DEF ShellInv
  <2> QED
    BY <1>1, <2>2, <2>6 DEF ReturnInv
<1>7. CASE Tick
  <2>1. /\ execTimeout > 0 /\ ~Expired /\ clock' = clock + 1 /\ running' = running
        /\ spawned' = spawned /\ stage' = stage /\ pos' = pos /\ killed' = killed
        /\ onExit' = onExit
    BY <1>7 DEF Tick, started
  <2>2. clock' \in Nat /\ clock' <= execTimeout
    <3>1. clock \in Nat /\ execTimeout \in Nat
      BY <1>2
    <3>2. ~(clock >= execTimeout)
      BY <2>1 DEF Expired
    <3>3. clock' = clock + 1
      BY <2>1
    <3> QED
      BY <3>1, <3>2, <3>3
  <2>3. Words' = Words /\ LastPos' = LastPos
    BY <1>3, <2>1 DEF Words, Cmds, LastPos
  <2>4. ShellInv'
    BY <1>1, <1>2, <2>1, <2>2, <2>3 DEF ShellInv
  <2> QED
    BY <1>1, <2>1, <2>4 DEF ReturnInv
<1>8. CASE Cut
  <2>1. /\ stage' = "returned" /\ result' = CutResult /\ running' = {} /\ clock' = clock
        /\ spawned' = spawned
    BY <1>8 DEF Cut, Return, started
  <2>2. ~result'.err /\ result'.err \in BOOLEAN /\ result'.denied = "" /\ result'.exit # 0
    <3>1. ~result'.err /\ result'.err \in BOOLEAN /\ result'.denied = ""
      BY <2>1, NoError, Zenon DEF CutResult
    <3>2. result'.exit = 1
      BY <2>1, NoError DEF CutResult
    <3>3. result'.exit # 0
      BY <3>2
    <3> QED
      BY <3>1, <3>3, Zenon
  <2>3. ShellInv'
    BY <1>1, <1>2, <2>1 DEF ShellInv
  <2> QED
    BY <1>1, <1>2, <2>2, <2>3 DEF ReturnInv
<1>9. CASE LineDone
  <2>1. /\ stage' = "returned" /\ result' = ShellResult(status, "", FALSE)
        /\ running = {} /\ pos > LastPos
        /\ running' = running /\ clock' = clock /\ spawned' = spawned /\ pos' = pos
        /\ onExit' = onExit /\ status' = status /\ killed' = killed
    BY <1>9 DEF LineDone, Return, interp, started
  <2>2. result'.err \in BOOLEAN /\ result'.denied = "" /\ result'.exit = status
    BY <2>1 DEF ShellResult
  <2>3. ShellInv'
    BY <1>1, <1>2, <2>1 DEF ShellInv
  <2>4. result'.exit = 0 => Done'
    BY <1>1, <1>2, <1>3, <2>1, <2>2 DEF Done, LastPos
  <2> QED
    BY <1>1, <1>2, <2>2, <2>3, <2>4 DEF ReturnInv
<1> QED
  BY <1>1, <1>4, <1>5, <1>6, <1>7, <1>8, <1>9, <1>11 DEF ShellStep

LEMMA InShellKeeps == IInv /\ InShell => IInv'
<1> SUFFICES ASSUME IInv, InShell PROVE IInv'
  OBVIOUS
<1>1. at = "shell" /\ at' = at /\ ShellStep /\ UNCHANGED launched /\ UNCHANGED dispatch
  BY DEF InShell
<1>2. Running /\ Running' /\ at' \in Stages
  BY <1>1 DEF Running, Stages
<1>3. ShellInv' /\ ReturnInv' /\ UNCHANGED settings
  BY <1>1, StepKeeps DEF IInv
<1>4. LaunchInv'
  BY <1>1, <1>2, <1>3, LaunchFrame DEF IInv
<1>5. AnswerInv'
  <2>1. /\ calls' = calls /\ call' = call /\ answer' = answer
        /\ calls \in 0..MaxCalls /\ call \in Calls \cup {NoCall} /\ answer.kind = ""
    BY <1>1 DEF dispatch, IInv, AnswerInv
  <2> QED
    BY <2>1 DEF AnswerInv
<1> QED
  BY <1>3, <1>4, <1>5 DEF IInv

LEMMA ShellReturnsKeeps == IInv /\ ShellReturns => IInv'
<1> SUFFICES ASSUME IInv, ShellReturns PROVE IInv'
  OBVIOUS
<1>1. /\ at = "shell" /\ stage = "returned" /\ answer' = ShellAnswer(result) /\ stage' = "idle"
      /\ at' = "turn" /\ UNCHANGED launched /\ UNCHANGED settings
      /\ call' = call /\ calls' = calls /\ line' = line /\ spawned' = spawned /\ killed' = killed
      /\ allow' = allow /\ execTimeout' = execTimeout
      /\ running' = running /\ clock' = clock /\ pos' = pos /\ status' = status
      /\ onExit' = onExit
  BY DEF ShellReturns, settings, interp, started
<1>2. Running /\ Running' /\ at' \in Stages
  BY <1>1 DEF Running, Stages
<1>3. LaunchInv'
  BY <1>1, <1>2, LaunchFrame DEF IInv
<1>4. ShellInv'
  BY <1>1 DEF IInv, ShellInv
<1>5. ReturnInv'
  BY <1>1 DEF ReturnInv
<1>6. Done' <=> Done
  BY <1>1 DEF Done, LastPos, Pipelines
<1>7. /\ answer'.kind \in {"error", "denied", "exit status", "output"}
      /\ answer'.kind = "output" => Done
  <2>1. /\ Answer("error", TRUE).kind = "error" /\ Answer("denied", TRUE).kind = "denied"
        /\ Answer("exit status", TRUE).kind = "exit status"
        /\ Answer("output", FALSE).kind = "output"
    BY DEF Answer
  <2>2. result.err \in BOOLEAN
    BY <1>1 DEF IInv, ReturnInv
  <2>3. CASE result.err
    <3>1. answer' = Answer("error", TRUE)
      BY <1>1, <2>3 DEF ShellAnswer
    <3> QED
      BY <2>1, <3>1
  <2>4. CASE ~result.err /\ result.denied # ""
    <3>1. answer' = Answer("denied", TRUE)
      BY <1>1, <2>4 DEF ShellAnswer
    <3> QED
      BY <2>1, <3>1
  <2>5. CASE ~result.err /\ result.denied = "" /\ result.exit # 0
    <3>1. answer' = Answer("exit status", TRUE)
      BY <1>1, <2>5 DEF ShellAnswer
    <3> QED
      BY <2>1, <3>1
  <2>6. CASE ~result.err /\ result.denied = "" /\ result.exit = 0
    <3>1. answer' = Answer("output", FALSE)
      BY <1>1, <2>6 DEF ShellAnswer
    <3>2. Done
      BY <1>1, <2>6 DEF IInv, ReturnInv
    <3> QED
      BY <2>1, <3>1, <3>2
  <2> QED
    BY <2>2, <2>3, <2>4, <2>5, <2>6
<1>8. AnswerInv'
  <2>1. calls \in 0..MaxCalls /\ call \in Calls \cup {NoCall}
    BY DEF IInv, AnswerInv
  <2> QED
    BY <1>1, <1>6, <1>7, <2>1 DEF AnswerInv
<1> QED
  BY <1>3, <1>4, <1>5, <1>8 DEF IInv

-----------------------------------------------------------------------------
(* The inductive invariant of the harness holds throughout: of a launch's    *)
(* steps, of each tool call and of the shell it may start.                   *)
THEOREM HarnessInvariant == Spec => []IInv
<1>1. IInv /\ [Next]_vars => IInv'
  <2> SUFFICES ASSUME IInv, [Next]_vars PROVE IInv'
    OBVIOUS
  <2>1. CASE \E c \in Calls : Reject(c) \/ ToolList(c) \/ Finish(c) \/ ShellEmpty(c) \/ ShellRun(c)
    BY <2>1, RejectKeeps, ToolListKeeps, FinishKeeps, ShellEmptyKeeps, ShellRunKeeps
  <2>2. CASE UNCHANGED vars
    <3>1. /\ UNCHANGED launched /\ UNCHANGED dispatch /\ UNCHANGED shellVars /\ at' = at
          /\ UNCHANGED settings /\ env' = env /\ cfg' = cfg /\ outputSchema' = outputSchema
          /\ prompt' = prompt /\ runStart' = runStart /\ calls' = calls /\ call' = call
          /\ answer' = answer /\ output' = output
      BY <2>2 DEF vars, launched, dispatch, shellVars
    <3>2. /\ allow' = allow /\ execTimeout' = execTimeout /\ stage' = stage
          /\ spawned' = spawned /\ clock' = clock
      BY <3>1 DEF shellVars, settings, interp, started
    <3>3. ShellInv' /\ ReturnInv' /\ (Done' <=> Done)
      BY <3>1, ShellFrame DEF IInv
    <3>4. LaunchInv'
      BY <3>1, <3>2, SameGrants DEF IInv, LaunchInv, Running
    <3>5. AnswerInv'
      BY <3>1, <3>2, <3>3 DEF IInv, AnswerInv
    <3> QED
      BY <3>3, <3>4, <3>5 DEF IInv
  <2> QED
    BY <2>1, <2>2, ConfigureKeeps, LoadGrantsKeeps, LoadSchemaKeeps, OpenFailsKeeps, StartKeeps,
       InShellKeeps, ShellReturnsKeeps DEF Next
<1> QED
  BY InitInv, <1>1, PTL DEF Spec

(* The harness, its shell and the clock stay in their ranges: the clock      *)
(* never passes the deadline, and what runs is part of the line.             *)
THEOREM Types == Spec => []TypeOK
<1>1. IInv => TypeOK
  <2> SUFFICES ASSUME IInv PROVE TypeOK
    OBVIOUS
  <2>1. /\ at \in Stages /\ stage \in {"idle", "run", "returned"} /\ calls \in 0..MaxCalls
        /\ execTimeout \in Nat /\ clock \in Nat /\ (execTimeout > 0 => clock <= execTimeout)
        /\ (stage = "run" => pos \in 1..LastPos + 1)
        /\ (running # {} => running \subseteq DOMAIN Words)
    BY DEF IInv, LaunchInv, ShellInv, AnswerInv
  <2>2. execTimeout > 0 => clock \in 0..execTimeout
    BY <2>1
  <2> QED
    BY <2>1, <2>2 DEF TypeOK
<1> QED
  BY <1>1, HarnessInvariant, PTL

(* Whatever lines the model sends, in whatever order, their words only ever  *)
(* started a binary that the environment names or that bears the name of a   *)
(* builtin: what else a word names, verify refuses, and what it lets pass    *)
(* the loaders have from the environment. What the string of a trap starts   *)
(* is not among this: verify does not see it.                                *)
THEOREM Granted == Spec => []GrantedOnly
<1>1. IInv => GrantedOnly
  <2> SUFFICES ASSUME IInv PROVE GrantedOnly
    OBVIOUS
  <2>1. CASE ~Running
    BY <2>1 DEF IInv, LaunchInv, GrantedOnly
  <2>2. CASE Running
    <3>1. GrantedBy(allow) /\ Configured \in Seq(EntryType)
      BY <2>2, ConfiguredType DEF IInv, LaunchInv
    <3>2. DOMAIN allow.commands \subseteq GrantedNames
      BY <3>1, ListIs DEF GrantedBy, GrantedNames
    <3>3. spawned \subseteq DOMAIN allow.commands \cup shellBuiltins
      BY DEF IInv, ShellInv
    <3> QED
      BY <3>2, <3>3 DEF GrantedOnly
  <2> QED
    BY <2>1, <2>2
<1> QED
  BY <1>1, HarnessInvariant, PTL

(* Shell.Run denies a line that parses and has no arithmetic command just    *)
(* when it is not admissible, whatever was run before it and whatever comes  *)
(* before the word that makes it so.                                         *)
THEOREM Refused == Spec => []RefusedExactly
<1>1. IInv => RefusedExactly
  <2> SUFFICES ASSUME IInv, stage = "returned", Lines[line].parses, ~Arithmetic(Lines[line])
               PROVE  result.denied # "" <=> ~Admissible(allow, Lines[line])
    BY DEF RefusedExactly
  <2>1. result.denied # "" <=> Verify(allow, Lines[line]) # ""
    BY DEF IInv, ReturnInv
  <2>2. Lines[line] \in LineType
    BY LineAssumption DEF IInv, ShellInv
  <2> QED
    BY <2>1, <2>2, VerifyExact
<1> QED
  BY <1>1, HarnessInvariant, PTL

(* The model is told of success only when the line ran to its end, nothing   *)
(* was cut off and the last pipeline succeeded.                              *)
THEOREM Success == Spec => []SuccessMeansDone
<1>1. IInv => SuccessMeansDone
  BY DEF IInv, AnswerInv, Done, SuccessMeansDone
<1> QED
  BY <1>1, HarnessInvariant, PTL

(* tool_list shows every name the environment grants once, with the first    *)
(* entry of that name, and run_start records the same names.                 *)
THEOREM Shown == Spec => []ListShowsGrants
<1>1. IInv => ListShowsGrants
  <2> SUFFICES ASSUME IInv, answer.kind = "list"
               PROVE  /\ Len(answer.list) = Cardinality(FirstMentions(Configured))
                      /\ {Configured[k] : k \in FirstMentions(Configured)} \subseteq ToSet(answer.list)
                      /\ runStart[1].commands = {e.name : e \in ToSet(answer.list)}
    BY DEF ListShowsGrants
  <2>1. Running
    <3>1. Answer("", FALSE).kind = ""
      BY DEF Answer
    <3> QED
      BY <3>1 DEF IInv, LaunchInv
  <2>2. GrantedBy(allow) /\ Configured \in Seq(EntryType) /\ answer.list = Entries(allow)
    BY <2>1, ConfiguredType DEF IInv, LaunchInv, AnswerInv
  <2>3. runStart[1].commands = ToSet(allow.order)
    <3>1. runStart = <<[commands |-> ToSet(allow.order), config |-> summary(cfg)]>>
      BY <2>1 DEF IInv, LaunchInv
    <3> QED
      BY <3>1
  <2> QED
    BY <2>2, <2>3, ListIs DEF GrantedBy
<1> QED
  BY <1>1, HarnessInvariant, PTL

(* The prompt a run uses is the configured one, never blanked and never      *)
(* replaced by the default in silence, and run_start names the one used.     *)
THEOREM Prompted == Spec => []PromptTrue
<1>1. IInv => PromptTrue
  <2>1. CASE ~Running
    BY <2>1 DEF PromptTrue
  <2>2. ASSUME IInv, Running PROVE PromptTrue
    <3>1. /\ cfg = LoadConfig(env) /\ ~cfg.err /\ prompt = SystemPrompt(cfg)
          /\ runStart = <<[commands |-> ToSet(allow.order), config |-> summary(cfg)]>>
      BY <2>2 DEF IInv, LaunchInv, Running
    <3>2. runStart[1].config = summary(cfg)
      BY <3>1
    <3> QED
      BY <3>1, <3>2, ConfiguredPrompt
  <2> QED
    BY <2>1, <2>2
<1> QED
  BY <1>1, HarnessInvariant, PTL

(* A call of finish is accepted only with an output that conforms to the     *)
(* schema the environment names, up to the two laxities of the validator,    *)
(* and with a conforming one it is never refused.                            *)
THEOREM Finished == Spec => []FinishExact
<1>1. IInv => FinishExact
  <2> SUFFICES ASSUME IInv PROVE FinishExact
    OBVIOUS
  <2>1. CASE ~Running
    <3>1. answer.kind = ""
      <4>1. answer = Answer("", FALSE)
        BY <2>1 DEF IInv, LaunchInv
      <4> QED
        BY <4>1 DEF Answer
    <3> QED
      BY <3>1 DEF FinishExact
  <2>2. CASE Running
    <3>1. env \in Envs /\ outputSchema = WantedSchema
      BY <2>2 DEF IInv, LaunchInv
    <3>2. call.args \in Values \cup {NotJSON}
      <4>1. call \in Calls \cup {NoCall}
        BY DEF IInv, AnswerInv
      <4>2. NoCall.args = NotJSON
        BY DEF NoCall
      <4>3. \A c \in Calls : c.args \in Values \cup {NotJSON}
        BY CallAssumption
      <4> QED
        BY <4>1, <4>2, <4>3
    <3>3. ASSUME answer.kind = "finished"
          PROVE  /\ WellFormed(call.args)
                 /\ Conforms[<<RequiredOutput, output>>] \/ LaxSchema[RequiredOutput]
                    \/ NullMember[output]
      <4>1. /\ validateRaw(FinishParams(WantedSchema), call.args) = {}
            /\ output = call.args.m["output"]
        BY <3>1, <3>3 DEF IInv, AnswerInv
      <4> QED
        BY <3>1, <3>2, <4>1, FinishOutput
    <3>4. ASSUME call.tool = "finish", answer.kind = "invalid arguments"
          PROVE  ~(WellFormed(call.args) /\ Conforms[<<RequiredOutput, call.args.m["output"]>>])
      <4>1. validateRaw(FinishParams(WantedSchema), call.args) # {}
        BY <3>1, <3>4 DEF IInv, AnswerInv
      <4> QED
        BY <3>1, <3>2, <4>1, FinishOutput
    <3> QED
      BY <3>3, <3>4 DEF FinishExact
  <2> QED
    BY <2>1, <2>2
<1> QED
  BY <1>1, HarnessInvariant, PTL

(* The second check finish makes of its output never finds what the first    *)
(* did not, so that a dispatched finish is the last call.                    *)
THEOREM FinishTaken == Spec => []FinishNeverRefused
<1>1. IInv => FinishNeverRefused
  BY DEF IInv, AnswerInv, FinishNeverRefused
<1> QED
  BY <1>1, HarnessInvariant, PTL
===============================================================================
