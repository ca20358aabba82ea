---------------------------- MODULE ValidateProofs ----------------------------
(* Proofs about the validator, for all values and schemas of bounded depth:  *)
(* it accepts whatever conforms, and what it accepts conforms but for the    *)
(* two ways in which it is laxer than JSON Schema.                           *)
EXTENDS Validate, InductionProofs, SequenceTheorems

LEMMA DepthType ==
  /\ MaxDepth \in Nat
  /\ \A v \in Values : depth[v] \in 0..MaxDepth
  /\ \A s \in Schemas : nesting[s] \in 0..MaxDepth
BY ValueAssumption, SchemaAssumption

(* The members of an object and the items of an array are values, and less   *)
(* deep.                                                                     *)
LEMMA Members ==
  ASSUME NEW v \in Values, v.t = "object"
  PROVE  /\ IsFiniteSet(DOMAIN v.m) /\ v = Obj(v.m) /\ v.m \in [DOMAIN v.m -> Values]
         /\ Parts(v) = {v.m[k] : k \in DOMAIN v.m}
         /\ \A k \in DOMAIN v.m : v.m[k] \in Values /\ depth[v.m[k]] < depth[v]
<1>1. Parts(v) = {v.m[k] : k \in DOMAIN v.m}
  BY DEF Parts
<1>2. IsValue(v) /\ \A p \in Parts(v) : p \in Values /\ depth[p] < depth[v]
  BY ValueAssumption
<1> QED
  BY <1>1, <1>2 DEF IsValue

LEMMA Items ==
  ASSUME NEW v \in Values, v.t = "array"
  PROVE  /\ v = Arr(v.q) /\ v.q \in Seq(Values) /\ Len(v.q) \in Nat
         /\ DOMAIN v.q = 1..Len(v.q)
         /\ Parts(v) = {v.q[i] : i \in 1..Len(v.q)}
         /\ \A i \in 1..Len(v.q) : v.q[i] \in Values /\ depth[v.q[i]] < depth[v]
<1>1. IsValue(v) /\ \A p \in Parts(v) : p \in Values /\ depth[p] < depth[v]
  BY ValueAssumption
<1>2. v = Arr(v.q) /\ v.q \in Seq(Values)
  BY <1>1 DEF IsValue
<1>3. Len(v.q) \in Nat /\ DOMAIN v.q = 1..Len(v.q)
  BY <1>2
<1>4. Parts(v) = {v.q[i] : i \in 1..Len(v.q)}
  BY <1>3 DEF Parts, ToSet
<1> QED
  BY <1>1, <1>2, <1>3, <1>4

-----------------------------------------------------------------------------
(* jsonEqual is the function its definition says it is.                      *)
Truth == BOOLEAN
Pairs == Values \X Values
PairRank == [p \in Pairs |-> depth[p[1]]]
EqualStep == [f \in [Pairs -> Truth] |-> [p \in Pairs |-> SameJSON(f, p[1], p[2])]]

OtherSide(b, k) == IF k \in DOMAIN b.m THEN b.m[k] ELSE Null

LEMMA OtherSideIn ==
  ASSUME NEW b \in Values, b.t = "object"
  PROVE  \A k : OtherSide(b, k) \in Values
BY Members, ValueAssumption DEF OtherSide

LEMMA SameJSONLocal ==
  ASSUME NEW f \in [Pairs -> Truth], NEW g \in [Pairs -> Truth],
         NEW a \in Values, NEW b \in Values,
         \A c, d \in Values : depth[c] < depth[a] => f[<<c, d>>] = g[<<c, d>>]
  PROVE  SameJSON(f, a, b) = SameJSON(g, a, b)
<1>1. CASE a.t = "object" /\ b.t = "object"
  <2>1. \A k \in DOMAIN a.m : f[<<a.m[k], OtherSide(b, k)>>] = g[<<a.m[k], OtherSide(b, k)>>]
    BY <1>1, Members, OtherSideIn
  <2> QED
    BY <1>1, <2>1 DEF SameJSON, OtherSide
<1>2. CASE a.t = "array" /\ b.t = "array" /\ Len(a.q) = Len(b.q)
  <2>1. \A i \in DOMAIN a.q : f[<<a.q[i], b.q[i]>>] = g[<<a.q[i], b.q[i]>>]
    BY <1>2, Items
  <2> QED
    BY <1>2, <2>1 DEF SameJSON
<1>3. CASE /\ ~(a.t = "object" /\ b.t = "object")
           /\ ~(a.t = "array" /\ b.t = "array" /\ Len(a.q) = Len(b.q))
  BY <1>3 DEF SameJSON
<1> QED
  BY <1>1, <1>2, <1>3

LEMMA JSONEqualIs ==
  /\ jsonEqual \in [Pairs -> Truth]
  /\ \A a, b \in Values : jsonEqual[<<a, b>>] = SameJSON(jsonEqual, a, b)
<1>1. PairRank \in [Pairs -> 0..MaxDepth]
  BY DepthType DEF PairRank, Pairs
<1>2. EqualStep \in [[Pairs -> Truth] -> [Pairs -> Truth]]
  <2>1. ASSUME NEW f \in [Pairs -> Truth], NEW p \in Pairs
        PROVE  SameJSON(f, p[1], p[2]) \in Truth
    BY DEF SameJSON, Truth
  <2> QED
    BY <2>1 DEF EqualStep
<1>3. Local(EqualStep, Pairs, Truth, PairRank)
  <2> SUFFICES ASSUME NEW f \in [Pairs -> Truth], NEW g \in [Pairs -> Truth], NEW p \in Pairs,
                      \A y \in Pairs : PairRank[y] < PairRank[p] => f[y] = g[y]
               PROVE  EqualStep[f][p] = EqualStep[g][p]
    BY DEF Local
  <2>1. EqualStep[f][p] = SameJSON(f, p[1], p[2]) /\ EqualStep[g][p] = SameJSON(g, p[1], p[2])
    BY DEF EqualStep
  <2>2. p[1] \in Values /\ p[2] \in Values
    BY DEF Pairs
  <2>3. ASSUME NEW c \in Values, NEW d \in Values, depth[c] < depth[p[1]]
        PROVE  f[<<c, d>>] = g[<<c, d>>]
    <3>1. <<c, d>> \in Pairs /\ PairRank[<<c, d>>] = depth[c] /\ PairRank[p] = depth[p[1]]
      BY DEF Pairs, PairRank
    <3> QED
      BY <2>3, <3>1
  <2> QED
    BY <2>1, <2>2, <2>3, SameJSONLocal
<1>4. PICK f \in [Pairs -> Truth] : EqualStep[f] = f
  <2>1. MaxDepth \in Nat /\ Truth # {}
    BY DepthType DEF Truth
  <2>2. Descends(EqualStep, Pairs, Truth, PairRank, MaxDepth)
    BY <1>1, <1>2, <1>3, <2>1 DEF Descends
  <2>3. Fixed(EqualStep, Pairs, Truth)
    BY <2>2, FixedPoint
  <2> QED
    BY <2>3 DEF Fixed
<1>5. f = [p \in Pairs |-> SameJSON(f, p[1], p[2])]
  BY <1>4 DEF EqualStep
<1>6. jsonEqual = [p \in Pairs |-> SameJSON(jsonEqual, p[1], p[2])]
  BY <1>5 DEF jsonEqual, Pairs
<1>7. ASSUME NEW p \in Pairs PROVE jsonEqual[p] = SameJSON(jsonEqual, p[1], p[2])
  BY <1>6
<1>8. ASSUME NEW a \in Values, NEW b \in Values
      PROVE  jsonEqual[<<a, b>>] = SameJSON(jsonEqual, a, b)
  <2>1. <<a, b>> \in Pairs
    BY DEF Pairs
  <2> QED
    BY <1>7, <2>1
<1>9. \A p \in Pairs : SameJSON(jsonEqual, p[1], p[2]) \in Truth
  BY DEF SameJSON, Truth
<1> QED
  BY <1>6, <1>8, <1>9

-----------------------------------------------------------------------------
(* So is the function that looks for a null member.                          *)
NullStep == [f \in [Values -> Truth] |->
              [v \in Values |-> \/ v.t = "object" /\ Null \in Parts(v)
                                \/ \E p \in Parts(v) : f[p]]]

ValueRank == [v \in Values |-> depth[v]]

LEMMA PartsLess ==
  ASSUME NEW v \in Values
  PROVE  \A p \in Parts(v) : p \in Values /\ depth[p] < depth[v]
BY ValueAssumption

LEMMA NullMemberIs ==
  /\ NullMember \in [Values -> Truth]
  /\ \A v \in Values : NullMember[v] <=> \/ v.t = "object" /\ Null \in Parts(v)
                                         \/ \E p \in Parts(v) : NullMember[p]
<1>1. ValueRank \in [Values -> 0..MaxDepth]
  BY DepthType DEF ValueRank
<1>2. NullStep \in [[Values -> Truth] -> [Values -> Truth]]
  BY DEF NullStep, Truth
<1>3. Local(NullStep, Values, Truth, ValueRank)
  <2> SUFFICES ASSUME NEW f \in [Values -> Truth], NEW g \in [Values -> Truth], NEW v \in Values,
                      \A w \in Values : ValueRank[w] < ValueRank[v] => f[w] = g[w]
               PROVE  NullStep[f][v] = NullStep[g][v]
    BY DEF Local
  <2>1. \A p \in Parts(v) : f[p] = g[p]
    BY PartsLess DEF ValueRank
  <2> QED
    BY <2>1 DEF NullStep
<1>4. PICK f \in [Values -> Truth] : NullStep[f] = f
  <2>1. MaxDepth \in Nat /\ Truth # {}
    BY DepthType DEF Truth
  <2>2. Fixed(NullStep, Values, Truth)
    <3>1. Descends(NullStep, Values, Truth, ValueRank, MaxDepth)
      BY <1>1, <1>2, <1>3, <2>1 DEF Descends
    <3> QED
      BY <3>1, FixedPoint
  <2> QED
    BY <2>2 DEF Fixed
<1>5. f = [v \in Values |-> \/ v.t = "object" /\ Null \in Parts(v)
                            \/ \E p \in Parts(v) : f[p]]
  BY <1>4 DEF NullStep
<1>6. NullMember = [v \in Values |-> \/ v.t = "object" /\ Null \in Parts(v)
                                     \/ \E p \in Parts(v) : NullMember[p]]
  BY <1>5 DEF NullMember
<1>7. NullMember \in [Values -> BOOLEAN]
  BY <1>6
<1> QED
  BY <1>6, <1>7 DEF Truth

(* A schema's parts are schemas, and less nested.                            *)
LEMMA Subs ==
  ASSUME NEW s \in Schemas
  PROVE  /\ s.items # <<>> => s.items[1] \in Schemas /\ s.items[1] \in Subschemas(s)
         /\ \A k \in DOMAIN s.properties : s.properties[k] # <<>> =>
              s.properties[k][1] \in Schemas /\ s.properties[k][1] \in Subschemas(s)
         /\ \A p \in Subschemas(s) : p \in Schemas /\ nesting[p] < nesting[s]
<1>1. IsSchema(s) /\ \A p \in Subschemas(s) : nesting[p] < nesting[s]
  BY SchemaAssumption
<1>2. /\ s.items \in Maybe(Schemas)
      /\ \A k \in DOMAIN s.properties : s.properties[k] \in Maybe(Schemas)
  BY <1>1 DEF IsSchema
<1>3. \A m \in Maybe(Schemas) : /\ m # <<>> => m[1] \in Schemas /\ m[1] \in ToSet(m)
                                /\ ToSet(m) \subseteq Schemas
  BY DEF Maybe, ToSet
<1>4. \A m \in {s.items} \cup {s.properties[k] : k \in DOMAIN s.properties} :
        m \in Maybe(Schemas) /\ ToSet(m) \subseteq Subschemas(s)
  BY <1>2 DEF Subschemas
<1>5. \A p \in Subschemas(s) : p \in Schemas
  BY <1>3, <1>4 DEF Subschemas
<1> QED
  BY <1>1, <1>3, <1>4, <1>5

LaxStep == [f \in [Schemas -> Truth] |->
             [s \in Schemas |-> Untyped(s) \/ \E p \in Subschemas(s) : f[p]]]
SchemaRank == [s \in Schemas |-> nesting[s]]

LEMMA LaxSchemaIs ==
  /\ LaxSchema \in [Schemas -> Truth]
  /\ \A s \in Schemas : LaxSchema[s] <=> Untyped(s) \/ \E p \in Subschemas(s) : LaxSchema[p]
<1>1. SchemaRank \in [Schemas -> 0..MaxDepth]
  BY DepthType DEF SchemaRank
<1>2. LaxStep \in [[Schemas -> Truth] -> [Schemas -> Truth]]
  BY DEF LaxStep, Truth, Untyped
<1>3. Local(LaxStep, Schemas, Truth, SchemaRank)
  <2> SUFFICES ASSUME NEW f \in [Schemas -> Truth], NEW g \in [Schemas -> Truth],
                      NEW s \in Schemas,
                      \A p \in Schemas : SchemaRank[p] < SchemaRank[s] => f[p] = g[p]
               PROVE  LaxStep[f][s] = LaxStep[g][s]
    BY DEF Local
  <2>1. \A p \in Subschemas(s) : f[p] = g[p]
    BY Subs DEF SchemaRank
  <2> QED
    BY <2>1 DEF LaxStep
<1>4. PICK f \in [Schemas -> Truth] : LaxStep[f] = f
  <2>1. MaxDepth \in Nat /\ Truth # {}
    BY DepthType DEF Truth
  <2>2. Fixed(LaxStep, Schemas, Truth)
    <3>1. Descends(LaxStep, Schemas, Truth, SchemaRank, MaxDepth)
      BY <1>1, <1>2, <1>3, <2>1 DEF Descends
    <3> QED
      BY <3>1, FixedPoint
  <2> QED
    BY <2>2 DEF Fixed
<1>5. f = [s \in Schemas |-> Untyped(s) \/ \E p \in Subschemas(s) : f[p]]
  BY <1>4 DEF LaxStep
<1>6. LaxSchema = [s \in Schemas |-> Untyped(s) \/ \E p \in Subschemas(s) : LaxSchema[p]]
  BY <1>5 DEF LaxSchema
<1>7. LaxSchema \in [Schemas -> BOOLEAN]
  BY <1>6 DEF Untyped
<1> QED
  BY <1>6, <1>7 DEF Truth

-----------------------------------------------------------------------------
(* validateValue and Conforms: both look into the parts of the value.        *)
Cases == Schemas \X Values
CaseRank == [p \in Cases |-> depth[p[2]]]
Kinds == {"const", "enum", "below minimum", "above maximum", "too short", "too long", "property",
          "missing property", "additional property", "item", "expected integer", "expected type"}
Verdicts == SUBSET Kinds

LEMMA FaultKinds ==
  ASSUME NEW f, NEW s, NEW v
  PROVE  Faults(f, s, v) \in Verdicts
<1>1. checkBounds(s, v) \in Verdicts
  BY DEF checkBounds, Verdicts, Kinds
<1>2. \A n, min, max : SizeFault(n, min, max) \in Verdicts
  BY DEF SizeFault, Verdicts, Kinds
<1>3. ObjectFaults(f, s, v.m) \in Verdicts
  BY DEF ObjectFaults, MemberFaults, Verdicts, Kinds
<1>4. ArrayFaults(f, s, v.q) \in Verdicts
  BY <1>2 DEF ArrayFaults, Verdicts, Kinds
<1>5. validateType(f, s, v) \in Verdicts
  <2>1. {"expected integer"} \in Verdicts /\ {"expected type"} \in Verdicts /\ {} \in Verdicts
    BY DEF Verdicts, Kinds
  <2> QED
    BY <1>1, <1>2, <1>3, <1>4, <2>1 DEF validateType, JSONTypes
<1> QED
  BY <1>5 DEF Faults, Verdicts, Kinds

(* What two functions agree on at the parts of v and the schemas for them,   *)
(* they agree on at v.                                                       *)
Agree(f, g, v) == \A s \in Schemas, w \in Values : depth[w] < depth[v] => f[<<s, w>>] = g[<<s, w>>]

LEMMA FaultsLocal ==
  ASSUME NEW f, NEW g, NEW s \in Schemas, NEW v \in Values, Agree(f, g, v)
  PROVE  Faults(f, s, v) = Faults(g, s, v)
<1>1. ASSUME v.t = "object" PROVE ObjectFaults(f, s, v.m) = ObjectFaults(g, s, v.m)
  <2>1. \A k \in DOMAIN v.m \cap DOMAIN s.properties : s.properties[k] # <<>> =>
          f[<<s.properties[k][1], v.m[k]>>] = g[<<s.properties[k][1], v.m[k]>>]
    BY <1>1, Members, Subs DEF Agree
  <2>2. MemberFaults(f, s, v.m) = MemberFaults(g, s, v.m)
    BY <2>1 DEF MemberFaults
  <2> QED
    BY <2>2 DEF ObjectFaults
<1>2. ASSUME v.t = "array" PROVE ArrayFaults(f, s, v.q) = ArrayFaults(g, s, v.q)
  <2>1. s.items # <<>> => \A i \in DOMAIN v.q :
          f[<<s.items[1], v.q[i]>>] = g[<<s.items[1], v.q[i]>>]
    BY <1>2, Items, Subs DEF Agree
  <2> QED
    BY <2>1 DEF ArrayFaults
<1>3. validateType(f, s, v) = validateType(g, s, v)
  BY <1>1, <1>2 DEF validateType, JSONTypes
<1> QED
  BY <1>3 DEF Faults

LEMMA MeetsLocal ==
  ASSUME NEW f, NEW g, NEW s \in Schemas, NEW v \in Values, Agree(f, g, v)
  PROVE  Meets(f, s, v) = Meets(g, s, v)
<1>1. v.t = "object" => \A k \in DOMAIN v.m \cap DOMAIN s.properties : s.properties[k] # <<>> =>
        f[<<s.properties[k][1], v.m[k]>>] = g[<<s.properties[k][1], v.m[k]>>]
  BY Members, Subs DEF Agree
<1>2. v.t = "array" /\ s.items # <<>> => \A i \in DOMAIN v.q :
          f[<<s.items[1], v.q[i]>>] = g[<<s.items[1], v.q[i]>>]
  BY Items, Subs DEF Agree
<1> QED
  BY <1>1, <1>2 DEF Meets

ValidateStep == [f \in [Cases -> Verdicts] |-> [p \in Cases |-> Faults(f, p[1], p[2])]]

(* So validateValue reports what Faults finds with it.                        *)
LEMMA validateValueIs ==
  /\ validateValue \in [Cases -> Verdicts]
  /\ \A s \in Schemas, v \in Values : validateValue[<<s, v>>] = Faults(validateValue, s, v)
<1>1. CaseRank \in [Cases -> 0..MaxDepth]
  BY DepthType DEF CaseRank, Cases
<1>2. ValidateStep \in [[Cases -> Verdicts] -> [Cases -> Verdicts]]
  BY FaultKinds DEF ValidateStep
<1>3. Local(ValidateStep, Cases, Verdicts, CaseRank)
  <2> SUFFICES ASSUME NEW f \in [Cases -> Verdicts], NEW g \in [Cases -> Verdicts], NEW p \in Cases,
                      \A y \in Cases : CaseRank[y] < CaseRank[p] => f[y] = g[y]
               PROVE  ValidateStep[f][p] = ValidateStep[g][p]
    BY DEF Local
  <2>1. ValidateStep[f][p] = Faults(f, p[1], p[2]) /\ ValidateStep[g][p] = Faults(g, p[1], p[2])
    BY DEF ValidateStep
  <2>2. p[1] \in Schemas /\ p[2] \in Values
    BY DEF Cases
  <2>3. ASSUME NEW s \in Schemas, NEW w \in Values, depth[w] < depth[p[2]]
        PROVE  f[<<s, w>>] = g[<<s, w>>]
    <3>1. <<s, w>> \in Cases /\ CaseRank[<<s, w>>] = depth[w] /\ CaseRank[p] = depth[p[2]]
      BY DEF Cases, CaseRank
    <3> QED
      BY <2>3, <3>1
  <2>4. Agree(f, g, p[2])
    BY <2>3 DEF Agree
  <2> QED
    BY <2>1, <2>2, <2>4, FaultsLocal
<1>4. PICK f \in [Cases -> Verdicts] : ValidateStep[f] = f
  <2>1. MaxDepth \in Nat /\ Verdicts # {}
    BY DepthType DEF Verdicts
  <2>2. Fixed(ValidateStep, Cases, Verdicts)
    <3>1. Descends(ValidateStep, Cases, Verdicts, CaseRank, MaxDepth)
      BY <1>1, <1>2, <1>3, <2>1 DEF Descends
    <3> QED
      BY <3>1, FixedPoint
  <2> QED
    BY <2>2 DEF Fixed
<1>5. f = [p \in Cases |-> Faults(f, p[1], p[2])]
  BY <1>4 DEF ValidateStep
<1>6. validateValue = [p \in Cases |-> Faults(validateValue, p[1], p[2])]
  BY <1>5 DEF validateValue, Cases
<1>7. ASSUME NEW s \in Schemas, NEW v \in Values
      PROVE  validateValue[<<s, v>>] = Faults(validateValue, s, v)
  <2>1. <<s, v>> \in Cases
    BY DEF Cases
  <2>2. validateValue[<<s, v>>] = Faults(validateValue, <<s, v>>[1], <<s, v>>[2])
    BY <1>6, <2>1
  <2> QED
    BY <2>2
<1>8. validateValue \in [Cases -> Verdicts]
  <2>1. \A p \in Cases : Faults(validateValue, p[1], p[2]) \in Verdicts
    BY FaultKinds
  <2> QED
    BY <1>6, <2>1
<1> QED
  BY <1>7, <1>8

LEMMA MeetsBoolean ==
  ASSUME NEW f, NEW s, NEW v
  PROVE  Meets(f, s, v) \in Truth
BY DEF Meets, Truth

ConformStep == [f \in [Cases -> Truth] |-> [p \in Cases |-> Meets(f, p[1], p[2])]]

(* And a value conforms if it meets the keywords, its parts conforming.       *)
LEMMA ConformsIs ==
  /\ Conforms \in [Cases -> Truth]
  /\ \A s \in Schemas, v \in Values : Conforms[<<s, v>>] = Meets(Conforms, s, v)
<1>1. CaseRank \in [Cases -> 0..MaxDepth]
  BY DepthType DEF CaseRank, Cases
<1>2. ConformStep \in [[Cases -> Truth] -> [Cases -> Truth]]
  BY MeetsBoolean DEF ConformStep
<1>3. Local(ConformStep, Cases, Truth, CaseRank)
  <2> SUFFICES ASSUME NEW f \in [Cases -> Truth], NEW g \in [Cases -> Truth], NEW p \in Cases,
                      \A y \in Cases : CaseRank[y] < CaseRank[p] => f[y] = g[y]
               PROVE  ConformStep[f][p] = ConformStep[g][p]
    BY DEF Local
  <2>1. ConformStep[f][p] = Meets(f, p[1], p[2]) /\ ConformStep[g][p] = Meets(g, p[1], p[2])
    BY DEF ConformStep
  <2>2. p[1] \in Schemas /\ p[2] \in Values
    BY DEF Cases
  <2>3. ASSUME NEW s \in Schemas, NEW w \in Values, depth[w] < depth[p[2]]
        PROVE  f[<<s, w>>] = g[<<s, w>>]
    <3>1. <<s, w>> \in Cases /\ CaseRank[<<s, w>>] = depth[w] /\ CaseRank[p] = depth[p[2]]
      BY DEF Cases, CaseRank
    <3> QED
      BY <2>3, <3>1
  <2>4. Agree(f, g, p[2])
    BY <2>3 DEF Agree
  <2> QED
    BY <2>1, <2>2, <2>4, MeetsLocal
<1>4. PICK f \in [Cases -> Truth] : ConformStep[f] = f
  <2>1. MaxDepth \in Nat /\ Truth # {}
    BY DepthType DEF Truth
  <2>2. Fixed(ConformStep, Cases, Truth)
    <3>1. Descends(ConformStep, Cases, Truth, CaseRank, MaxDepth)
      BY <1>1, <1>2, <1>3, <2>1 DEF Descends
    <3> QED
      BY <3>1, FixedPoint
  <2> QED
    BY <2>2 DEF Fixed
<1>5. f = [p \in Cases |-> Meets(f, p[1], p[2])]
  BY <1>4 DEF ConformStep
<1>6. Conforms = [p \in Cases |-> Meets(Conforms, p[1], p[2])]
  BY <1>5 DEF Conforms, Cases
<1>7. ASSUME NEW s \in Schemas, NEW v \in Values
      PROVE  Conforms[<<s, v>>] = Meets(Conforms, s, v)
  <2>1. <<s, v>> \in Cases
    BY DEF Cases
  <2>2. Conforms[<<s, v>>] = Meets(Conforms, <<s, v>>[1], <<s, v>>[2])
    BY <1>6, <2>1
  <2> QED
    BY <2>2
<1>8. Conforms \in [Cases -> Truth]
  <2>1. \A p \in Cases : Meets(Conforms, p[1], p[2]) \in Truth
    BY MeetsBoolean
  <2> QED
    BY <1>6, <2>1
<1> QED
  BY <1>7, <1>8

-----------------------------------------------------------------------------
(* jsonEqual takes a value for equal to itself, so a "const" or "enum"       *)
(* accepts what it names.                                                    *)
THEOREM EqualToItself == \A v \in Values : jsonEqual[<<v, v>>]
<1> DEFINE S == {v \in Values : ~jsonEqual[<<v, v>>]}
<1> SUFFICES ASSUME S # {} PROVE FALSE
  OBVIOUS
<1>1. PICK v \in S : \A w \in S : depth[v] <= depth[w]
  <2>1. \A w \in S : depth[w] \in Nat
    BY DepthType
  <2> HIDE DEF S
  <2> QED
    BY <2>1, LeastRank
<1>2. \A w \in Values : depth[w] < depth[v] => jsonEqual[<<w, w>>]
  BY <1>1, DepthType
<1>3. v \in Values /\ ~SameJSON(jsonEqual, v, v)
  BY <1>1, JSONEqualIs
<1>4. CASE v.t = "object"
  <2>1. \A k \in DOMAIN v.m : jsonEqual[<<v.m[k], v.m[k]>>]
    BY <1>2, <1>3, <1>4, Members
  <2> QED
    BY <1>3, <1>4, <2>1 DEF SameJSON
<1>5. CASE v.t = "array"
  <2>1. \A k \in DOMAIN v.q : jsonEqual[<<v.q[k], v.q[k]>>]
    BY <1>2, <1>3, <1>5, Items
  <2> QED
    BY <1>3, <1>5, <2>1 DEF SameJSON
<1>6. CASE v.t \notin {"object", "array"}
  BY <1>3, <1>6 DEF SameJSON
<1> QED
  BY <1>4, <1>5, <1>6

(* Only a null member can make it take two values for equal that are not.    *)
THEOREM EqualMeansSame ==
  \A a, b \in Values : jsonEqual[<<a, b>>] /\ ~NullMember[a] => a = b
<1> DEFINE S == {a \in Values : ~NullMember[a] /\ \E b \in Values : jsonEqual[<<a, b>>] /\ a # b}
<1> SUFFICES ASSUME S # {} PROVE FALSE
  OBVIOUS
<1>1. PICK a \in S : \A w \in S : depth[a] <= depth[w]
  <2>1. \A w \in S : depth[w] \in Nat
    BY DepthType
  <2> HIDE DEF S
  <2> QED
    BY <2>1, LeastRank
<1>2. PICK b \in Values : jsonEqual[<<a, b>>] /\ a # b
  BY <1>1
<1>3. a \in Values /\ ~NullMember[a] /\ SameJSON(jsonEqual, a, b)
  BY <1>1, <1>2, JSONEqualIs
<1>4. ASSUME NEW p \in Parts(a), NEW c \in Values, jsonEqual[<<p, c>>] PROVE p = c
  <2>1. p \in Values /\ depth[p] < depth[a] /\ ~NullMember[p]
    BY <1>3, PartsLess, NullMemberIs
  <2>2. p \notin S
    BY <1>1, <1>3, <2>1, DepthType
  <2> QED
    BY <1>4, <2>1, <2>2
<1>5. CASE a.t = "object" /\ b.t = "object"
  <2>1. /\ a = Obj(a.m) /\ b = Obj(b.m) /\ IsFiniteSet(DOMAIN a.m) /\ IsFiniteSet(DOMAIN b.m)
        /\ a.m \in [DOMAIN a.m -> Values] /\ b.m \in [DOMAIN b.m -> Values]
    BY <1>2, <1>3, <1>5, Members
  <2>2. Cardinality(DOMAIN a.m) = Cardinality(DOMAIN b.m)
    BY <1>3, <1>5 DEF SameJSON
  <2>3. \A k \in DOMAIN a.m : a.m[k] = OtherSide(b, k) /\ a.m[k] # Null
    <3>1. \A k \in DOMAIN a.m : a.m[k] \in Parts(a)
      BY <1>3, <1>5, Members
    <3>2. Null \notin Parts(a)
      BY <1>3, <1>5, NullMemberIs
    <3>3. \A k \in DOMAIN a.m : jsonEqual[<<a.m[k], OtherSide(b, k)>>]
      BY <1>3, <1>5 DEF SameJSON, OtherSide
    <3>4. \A k : OtherSide(b, k) \in Values
      BY <1>2, <1>5, OtherSideIn
    <3>5. ASSUME NEW k \in DOMAIN a.m PROVE a.m[k] = OtherSide(b, k)
      <4>1. a.m[k] \in Parts(a) /\ OtherSide(b, k) \in Values
        BY <3>1, <3>4
      <4>2. jsonEqual[<<a.m[k], OtherSide(b, k)>>]
        BY <3>3
      <4> QED
        BY <1>4, <4>1, <4>2
    <3> QED
      BY <3>1, <3>2, <3>5
  <2>4. DOMAIN a.m \subseteq DOMAIN b.m
    BY <2>3 DEF OtherSide
  <2>5. DOMAIN a.m = DOMAIN b.m
    BY <2>1, <2>2, <2>4, FS_Subset
  <2>6. \A k \in DOMAIN a.m : a.m[k] = b.m[k]
    BY <2>3, <2>4 DEF OtherSide
  <2>7. a.m = b.m
    BY <2>1, <2>5, <2>6
  <2> QED
    BY <1>2, <2>1, <2>7
<1>6. CASE a.t = "array" /\ b.t = "array"
  <2>1. a = Arr(a.q) /\ b = Arr(b.q) /\ a.q \in Seq(Values) /\ b.q \in Seq(Values)
    BY <1>2, <1>3, <1>6, Items
  <2>2. Len(a.q) = Len(b.q)
    BY <1>3, <1>6 DEF SameJSON
  <2>3. \A i \in 1..Len(a.q) : a.q[i] = b.q[i]
    <3>1. \A i \in 1..Len(a.q) : jsonEqual[<<a.q[i], b.q[i]>>]
      BY <1>3, <1>6, Items DEF SameJSON
    <3>2. ASSUME NEW i \in 1..Len(a.q) PROVE a.q[i] = b.q[i]
      <4>1. a.q[i] \in Parts(a) /\ b.q[i] \in Values
        BY <1>2, <1>3, <1>6, <2>2, Items
      <4>2. jsonEqual[<<a.q[i], b.q[i]>>]
        BY <3>1
      <4> QED
        BY <1>4, <4>1, <4>2
    <3> QED
      BY <3>2
  <2>4. a.q = b.q
    BY <2>1, <2>2, <2>3, SeqEqual
  <2> QED
    BY <1>2, <2>1, <2>4
<1> QED
  BY <1>2, <1>3, <1>5, <1>6 DEF SameJSON

-----------------------------------------------------------------------------
(* At each value: what the keywords allow is accepted if the parts that      *)
(* conform are.                                                              *)
LEMMA MeetsAccepted ==
  ASSUME NEW s \in Schemas, NEW v \in Values, Meets(Conforms, s, v),
         \A r \in Schemas, w \in Values :
           depth[w] < depth[v] /\ Conforms[<<r, w>>] => validateValue[<<r, w>>] = {}
  PROVE  Faults(validateValue, s, v) = {}
<1>1. s.const # <<>> => jsonEqual[<<v, s.const[1]>>]
  <2>1. s.const = <<>> \/ s.const = <<v>>
    BY DEF Meets
  <2>2. <<v>>[1] = v
    OBVIOUS
  <2> QED
    BY <2>1, <2>2, EqualToItself
<1>2. s.enum # <<>> => \E i \in DOMAIN s.enum : jsonEqual[<<v, s.enum[i]>>]
  BY EqualToItself DEF Meets
<1>3. ASSUME v.t = "number" PROVE checkBounds(s, v) = {}
  <2>1. IsSchema(s) /\ IsValue(v)
    BY SchemaAssumption, ValueAssumption
  <2>2. v.h \in Int /\ s.minimum \in Seq(Int) /\ s.maximum \in Seq(Int)
    BY <1>3, <2>1 DEF IsSchema, IsValue
  <2>3. (s.minimum # <<>> => s.minimum[1] \in Int) /\ (s.maximum # <<>> => s.maximum[1] \in Int)
    BY <2>2
  <2>4. /\ s.minimum # <<>> => v.h >= s.minimum[1]
        /\ s.maximum # <<>> => v.h <= s.maximum[1]
    BY <1>3 DEF Meets
  <2>5. /\ ~(s.minimum # <<>> /\ v.h < s.minimum[1])
        /\ ~(s.maximum # <<>> /\ v.h > s.maximum[1])
    BY <2>2, <2>3, <2>4
  <2> QED
    BY <2>5 DEF checkBounds
<1>4. /\ s.minLength \in Int /\ s.maxLength \in Int /\ s.minItems \in Int /\ s.maxItems \in Int
  BY SchemaAssumption DEF IsSchema
<1>5. ASSUME v.t = "string" PROVE SizeFault(v.len, s.minLength, s.maxLength) = {}
  <2>1. v.len \in Nat
    BY <1>5, ValueAssumption DEF IsValue
  <2>2. v.len >= s.minLength /\ (s.maxLength > 0 => v.len <= s.maxLength)
    BY <1>5 DEF Meets
  <2>3. ~(v.len < s.minLength) /\ ~(s.maxLength > 0 /\ v.len > s.maxLength)
    BY <1>4, <2>1, <2>2
  <2> QED
    BY <2>3 DEF SizeFault
<1>6. ASSUME v.t = "array" PROVE ArrayFaults(validateValue, s, v.q) = {}
  <2>1. SizeFault(Len(v.q), s.minItems, s.maxItems) = {}
    <3>1. Len(v.q) \in Nat
      BY <1>6, Items
    <3>2. Len(v.q) >= s.minItems /\ (s.maxItems > 0 => Len(v.q) <= s.maxItems)
      BY <1>6 DEF Meets
    <3>3. ~(Len(v.q) < s.minItems) /\ ~(s.maxItems > 0 /\ Len(v.q) > s.maxItems)
      BY <1>4, <3>1, <3>2
    <3> QED
      BY <3>3 DEF SizeFault
  <2>2. s.items # <<>> => \A i \in DOMAIN v.q : validateValue[<<s.items[1], v.q[i]>>] = {}
    <3>1. s.items # <<>> => \A i \in DOMAIN v.q : Conforms[<<s.items[1], v.q[i]>>]
      BY <1>6 DEF Meets
    <3> QED
      BY <1>6, <3>1, Items, Subs, SMTT(30)
  <2> QED
    BY <2>1, <2>2 DEF ArrayFaults
<1>7. ASSUME v.t = "object" PROVE ObjectFaults(validateValue, s, v.m) = {}
  <2>1. /\ s.required \subseteq DOMAIN v.m
        /\ s.closed => DOMAIN v.m \subseteq DOMAIN s.properties
    BY <1>7 DEF Meets
  <2>2. \A k \in DOMAIN v.m \cap DOMAIN s.properties :
          s.properties[k] # <<>> => validateValue[<<s.properties[k][1], v.m[k]>>] = {}
    <3>1. \A k \in DOMAIN v.m \cap DOMAIN s.properties :
            s.properties[k] # <<>> => Conforms[<<s.properties[k][1], v.m[k]>>]
      BY <1>7 DEF Meets
    <3> QED
      BY <1>7, <3>1, Members, Subs
  <2> QED
    BY <2>1, <2>2 DEF ObjectFaults, MemberFaults
<1>8. s.type = "" \/ s.type = v.t \/ (s.type = "integer" /\ isInteger(v))
  BY DEF Meets
<1>9. isInteger(v) => v.t = "number"
  BY DEF isInteger
<1>10. s.type # "" => validateType(validateValue, s, v) = {}
  <2>1. v.t \in JSONTypes /\ v.t # "integer"
    BY ValueAssumption DEF IsValue, JSONTypes
  <2>2. CASE s.type = "integer"
    <3>1. isInteger(v) /\ checkBounds(s, v) = {}
      BY <1>3, <1>8, <1>9, <2>1, <2>2
    <3> QED
      BY <2>2, <3>1 DEF validateType, JSONTypes
  <2>3. CASE s.type = v.t
    <3>1. CASE v.t = "object"
      BY <1>7, <2>3, <3>1 DEF validateType, JSONTypes
    <3>2. CASE v.t = "array"
      BY <1>6, <2>3, <3>2 DEF validateType, JSONTypes
    <3>3. CASE v.t = "string"
      BY <1>5, <2>3, <3>3 DEF validateType, JSONTypes
    <3>4. CASE v.t = "number"
      BY <1>3, <2>3, <3>4 DEF validateType, JSONTypes
    <3>5. CASE v.t \in {"boolean", "null"}
      BY <2>3, <3>5 DEF validateType, JSONTypes
    <3> QED
      BY <2>1, <3>1, <3>2, <3>3, <3>4, <3>5 DEF JSONTypes
  <2> QED
    BY <1>8, <2>2, <2>3
<1> QED
  BY <1>1, <1>2, <1>10 DEF Faults

(* The validator refuses nothing that conforms: whatever the schema and the  *)
(* value, validateValue and validateType report no error for it.             *)
THEOREM ConformingAccepted ==
  \A s \in Schemas, v \in Values : Conforms[<<s, v>>] => validateValue[<<s, v>>] = {}
<1> DEFINE S == {v \in Values : \E s \in Schemas : Conforms[<<s, v>>] /\ validateValue[<<s, v>>] # {}}
<1> SUFFICES ASSUME S # {} PROVE FALSE
  OBVIOUS
<1>1. PICK v \in S : \A w \in S : depth[v] <= depth[w]
  <2>1. \A w \in S : depth[w] \in Nat
    BY DepthType
  <2> HIDE DEF S
  <2> QED
    BY <2>1, LeastRank
<1>2. PICK s \in Schemas : Conforms[<<s, v>>] /\ validateValue[<<s, v>>] # {}
  BY <1>1
<1>3. v \in Values /\ Meets(Conforms, s, v) /\ Faults(validateValue, s, v) # {}
  BY <1>1, <1>2, ConformsIs, validateValueIs
<1>4. \A r \in Schemas, w \in Values :
        depth[w] < depth[v] /\ Conforms[<<r, w>>] => validateValue[<<r, w>>] = {}
  BY <1>1, DepthType
<1> QED
  BY <1>2, <1>3, <1>4, MeetsAccepted

(* And what is accepted meets the keywords, unless the schema is one of      *)
(* those validate.go does not look into or a null member is compared.        *)
LEMMA AcceptedMeets ==
  ASSUME NEW s \in Schemas, NEW v \in Values, Faults(validateValue, s, v) = {},
         ~Untyped(s), ~NullMember[v],
         \A r \in Subschemas(s), w \in Parts(v) :
           validateValue[<<r, w>>] = {} => Conforms[<<r, w>>]
  PROVE  Meets(Conforms, s, v)
<1> DEFINE Plain == [s EXCEPT !.const = <<>>, !.enum = <<>>] = AnySchema
<1>1. IsSchema(s) /\ IsValue(v)
  BY SchemaAssumption, ValueAssumption
<1>2. /\ s.const \in Maybe(Values) /\ s.enum \in Seq(Values)
      /\ s.minimum \in Seq(Int) /\ s.maximum \in Seq(Int)
      /\ s.minLength \in Int /\ s.maxLength \in Int /\ s.minItems \in Int /\ s.maxItems \in Int
  BY <1>1 DEF IsSchema
<1>0. (s.minimum # <<>> => s.minimum[1] \in Int) /\ (s.maximum # <<>> => s.maximum[1] \in Int)
  BY <1>2
<1>3. s.const = <<>> \/ s.const = <<v>>
  <2>1. s.const # <<>> => jsonEqual[<<v, s.const[1]>>]
    BY DEF Faults
  <2>2. ASSUME s.const # <<>> PROVE s.const = <<v>>
    <3>1. PICK c \in Values : s.const = <<c>>
      BY <1>2, <2>2 DEF Maybe
    <3>2. jsonEqual[<<v, c>>]
      BY <2>1, <3>1
    <3> QED
      BY <3>1, <3>2, EqualMeansSame
  <2> QED
    BY <2>2
<1>4. s.enum = <<>> \/ \E i \in DOMAIN s.enum : s.enum[i] = v
  <2>1. s.enum # <<>> => \E i \in DOMAIN s.enum : jsonEqual[<<v, s.enum[i]>>]
    BY DEF Faults
  <2>2. ASSUME NEW i \in DOMAIN s.enum, jsonEqual[<<v, s.enum[i]>>] PROVE s.enum[i] = v
    <3>1. s.enum[i] \in Values
      BY <1>2
    <3> QED
      BY <2>2, <3>1, EqualMeansSame
  <2> QED
    BY <2>1, <2>2
<1>5. CASE s.type = ""
  <2>1. Plain
    BY <1>5 DEF Untyped, JSONTypes
  <2>2. \A k \in DOMAIN s \ {"const", "enum"} : s[k] = AnySchema[k]
    <3>1. \A k \in DOMAIN s \ {"const", "enum"} :
            [s EXCEPT !.const = <<>>, !.enum = <<>>][k] = s[k]
      OBVIOUS
    <3> QED
      BY <2>1, <3>1
  <2>3. /\ s.required = {} /\ s.properties = <<>> /\ s.closed = FALSE /\ s.items = <<>>
        /\ s.minimum = <<>> /\ s.maximum = <<>> /\ s.minLength = 0 /\ s.maxLength = 0
        /\ s.minItems = 0 /\ s.maxItems = 0
    BY <1>1, <2>2 DEF IsSchema, AnySchema
  <2>4. DOMAIN <<>> = {}
    OBVIOUS
  <2>5. (v.t = "string" => v.len >= 0) /\ (v.t = "array" => Len(v.q) >= 0)
    BY <1>1, Items DEF IsValue
  <2> QED
    <3>1. v.t = "object" => /\ s.required \subseteq DOMAIN v.m
                            /\ s.closed => DOMAIN v.m \subseteq DOMAIN s.properties
                            /\ DOMAIN v.m \cap DOMAIN s.properties = {}
      BY <2>3, <2>4
    <3>2. v.t = "array" => /\ Len(v.q) >= s.minItems /\ ~(s.maxItems > 0)
                           /\ s.items = <<>>
      BY <2>3, <2>5
    <3>3. v.t = "string" => v.len >= s.minLength /\ ~(s.maxLength > 0)
      BY <2>3, <2>5
    <3>4. s.minimum = <<>> /\ s.maximum = <<>>
      BY <2>3
    <3> HIDE DEF Plain
    <3> QED
      BY <1>3, <1>4, <1>5, <3>1, <3>2, <3>3, <3>4 DEF Meets
<1>6. CASE s.type = "integer"
  <2>1. isInteger(v) /\ checkBounds(s, v) = {}
    BY <1>6 DEF Faults, validateType, JSONTypes
  <2>2. v.t = "number" /\ v.h \in Int
    BY <1>1, <2>1 DEF isInteger, IsValue
  <2>3. ~(s.minimum # <<>> /\ v.h < s.minimum[1]) /\ ~(s.maximum # <<>> /\ v.h > s.maximum[1])
    BY <2>1 DEF checkBounds
  <2>4. /\ s.minimum # <<>> => v.h >= s.minimum[1]
        /\ s.maximum # <<>> => v.h <= s.maximum[1]
    BY <1>0, <2>2, <2>3
  <2> QED
    BY <1>3, <1>4, <1>6, <2>1, <2>2, <2>4 DEF Meets
<1>7. CASE s.type \in JSONTypes
  <2>1. validateType(validateValue, s, v) = {}
    BY <1>7 DEF Faults, JSONTypes
  <2>2. v.t = s.type
    <3>1. ASSUME v.t # s.type PROVE validateType(validateValue, s, v) = {"expected type"}
      <4>1. s.type # "integer"
        BY <1>7 DEF JSONTypes
      <4>2. /\ ~(s.type = "object" /\ v.t = "object") /\ ~(s.type = "array" /\ v.t = "array")
            /\ ~(s.type = "string" /\ v.t = "string") /\ ~(s.type = "number" /\ v.t = "number")
        BY <3>1
      <4> QED
        BY <1>7, <3>1, <4>1, <4>2 DEF validateType
    <3> QED
      BY <2>1, <3>1
  <2>3. ASSUME v.t = "object"
        PROVE  /\ s.required \subseteq DOMAIN v.m
               /\ s.closed => DOMAIN v.m \subseteq DOMAIN s.properties
               /\ \A k \in DOMAIN v.m \cap DOMAIN s.properties :
                    s.properties[k] # <<>> => Conforms[<<s.properties[k][1], v.m[k]>>]
    <3>1. ObjectFaults(validateValue, s, v.m) = {}
      BY <2>1, <2>2, <2>3 DEF validateType, JSONTypes
    <3>2. s.required \subseteq DOMAIN v.m /\ (s.closed => DOMAIN v.m \subseteq DOMAIN s.properties)
      BY <3>1 DEF ObjectFaults
    <3>3. MemberFaults(validateValue, s, v.m) = {}
      BY <3>1, <3>2 DEF ObjectFaults
    <3>4. ASSUME NEW k \in DOMAIN v.m \cap DOMAIN s.properties, s.properties[k] # <<>>
          PROVE  Conforms[<<s.properties[k][1], v.m[k]>>]
      <4>1. validateValue[<<s.properties[k][1], v.m[k]>>] = {}
        BY <3>3, <3>4 DEF MemberFaults
      <4>2. s.properties[k][1] \in Subschemas(s) /\ v.m[k] \in Parts(v)
        BY <2>3, <3>4, Subs, Members
      <4> QED
        BY <4>1, <4>2
    <3> QED
      BY <3>2, <3>4
  <2>4. ASSUME v.t = "array"
        PROVE  /\ Len(v.q) >= s.minItems /\ (s.maxItems > 0 => Len(v.q) <= s.maxItems)
               /\ \A i \in DOMAIN v.q : s.items # <<>> => Conforms[<<s.items[1], v.q[i]>>]
    <3>1. ArrayFaults(validateValue, s, v.q) = {}
      BY <2>1, <2>2, <2>4 DEF validateType, JSONTypes
    <3>2. SizeFault(Len(v.q), s.minItems, s.maxItems) = {}
      BY <3>1 DEF ArrayFaults
    <3>3. ~(Len(v.q) < s.minItems) /\ ~(s.maxItems > 0 /\ Len(v.q) > s.maxItems)
      BY <3>2 DEF SizeFault
    <3>4. Len(v.q) \in Nat
      BY <2>4, Items
    <3>5. Len(v.q) >= s.minItems /\ (s.maxItems > 0 => Len(v.q) <= s.maxItems)
      BY <1>2, <3>3, <3>4
    <3>6. ASSUME NEW i \in DOMAIN v.q, s.items # <<>> PROVE Conforms[<<s.items[1], v.q[i]>>]
      <4>1. validateValue[<<s.items[1], v.q[i]>>] = {}
        BY <3>1, <3>2, <3>6 DEF ArrayFaults
      <4>2. s.items[1] \in Subschemas(s) /\ v.q[i] \in Parts(v)
        BY <2>4, <3>6, Subs, Items
      <4> QED
        BY <4>1, <4>2
    <3> QED
      BY <3>5, <3>6
  <2>5. ASSUME v.t = "string"
        PROVE  v.len >= s.minLength /\ (s.maxLength > 0 => v.len <= s.maxLength)
    <3>1. SizeFault(v.len, s.minLength, s.maxLength) = {}
      BY <2>1, <2>2, <2>5 DEF validateType, JSONTypes
    <3>2. ~(v.len < s.minLength) /\ ~(s.maxLength > 0 /\ v.len > s.maxLength)
      BY <3>1 DEF SizeFault
    <3>3. v.len \in Nat
      BY <1>1, <2>5 DEF IsValue
    <3> QED
      BY <1>2, <3>2, <3>3
  <2>6. ASSUME v.t = "number"
        PROVE  /\ s.minimum # <<>> => v.h >= s.minimum[1]
               /\ s.maximum # <<>> => v.h <= s.maximum[1]
    <3>1. checkBounds(s, v) = {}
      BY <2>1, <2>2, <2>6 DEF validateType, JSONTypes
    <3>2. ~(s.minimum # <<>> /\ v.h < s.minimum[1]) /\ ~(s.maximum # <<>> /\ v.h > s.maximum[1])
      BY <3>1 DEF checkBounds
    <3>3. v.h \in Int
      BY <1>1, <2>6 DEF IsValue
    <3> QED
      BY <1>0, <3>2, <3>3
  <2> QED
    BY <1>3, <1>4, <2>2, <2>3, <2>4, <2>5, <2>6 DEF Meets
<1>8. CASE s.type \notin JSONTypes \cup {"", "integer"}
  <2>1. Plain
    BY <1>8 DEF Untyped
  <2>2. "type" \in DOMAIN s
    BY <1>1 DEF IsSchema, AnySchema
  <2>3. [s EXCEPT !.const = <<>>, !.enum = <<>>].type = s.type
    BY <2>2
  <2> QED
    BY <1>8, <2>1, <2>3 DEF AnySchema
<1> QED
  BY <1>5, <1>6, <1>7, <1>8

(* What the validator accepts conforms to the schema, but for a schema with  *)
(* keywords it does not look into, and a null member it takes for none.      *)
THEOREM AcceptedConforms ==
  \A s \in Schemas, v \in Values :
    validateValue[<<s, v>>] = {} => Conforms[<<s, v>>] \/ LaxSchema[s] \/ NullMember[v]
<1> DEFINE Odd(s, v) == validateValue[<<s, v>>] = {} /\ ~Conforms[<<s, v>>]
                        /\ ~LaxSchema[s] /\ ~NullMember[v]
           S == {v \in Values : \E s \in Schemas : Odd(s, v)}
<1> SUFFICES ASSUME S # {} PROVE FALSE
  OBVIOUS
<1>1. PICK v \in S : \A w \in S : depth[v] <= depth[w]
  <2>1. \A w \in S : depth[w] \in Nat
    BY DepthType
  <2> HIDE DEF S
  <2> QED
    BY <2>1, LeastRank
<1>2. PICK s \in Schemas : Odd(s, v)
  BY <1>1
<1>3. v \in Values /\ ~Meets(Conforms, s, v) /\ Faults(validateValue, s, v) = {}
  BY <1>1, <1>2, ConformsIs, validateValueIs
<1>4. ~Untyped(s) /\ \A r \in Subschemas(s) : ~LaxSchema[r]
  BY <1>2, LaxSchemaIs
<1>5. \A w \in Parts(v) : ~NullMember[w]
  BY <1>2, <1>3, NullMemberIs
<1>6. ASSUME NEW r \in Subschemas(s), NEW w \in Parts(v), validateValue[<<r, w>>] = {}
      PROVE  Conforms[<<r, w>>]
  <2>1. r \in Schemas /\ w \in Values /\ depth[w] < depth[v]
    BY <1>3, Subs, PartsLess
  <2>2. w \notin S
    <3> HIDE DEF S, Odd
    <3>1. depth[v] \in Nat /\ depth[w] \in Nat
      BY <1>3, <2>1, DepthType
    <3> QED
      BY <1>1, <2>1, <3>1
  <2> QED
    BY <1>4, <1>5, <1>6, <2>1, <2>2
<1> QED
  BY <1>2, <1>3, <1>4, <1>6, AcceptedMeets
=============================================================================
