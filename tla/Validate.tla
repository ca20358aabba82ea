------------------------------ MODULE Validate ------------------------------
(* The JSON Schema validator of validate.go, which gates the dispatch of     *)
(* tool calls, over decoded values, and what the keywords mean. What recurses *)
(* over a value is a function whose step is an operator with the function    *)
(* for a parameter.                                                          *)
EXTENDS Integers, Sequences, FiniteSets, SequencesExt, TLC

CONSTANTS Values,         \* decoded JSON values
          Schemas,        \* schemas; both sets have the parts of their members
          MaxDepth        \* how deep encoding/json lets them be nested

(* JSON values. Numbers are in halves; a string is a name and a length in    *)
(* bytes; an object is a function on its keys.                               *)
Null      == [t |-> "null"]
Bool(b)   == [t |-> "boolean", b |-> b]
Num(h)    == [t |-> "number", h |-> h]
Str(s, n) == [t |-> "string", s |-> s, len |-> n]
Arr(q)    == [t |-> "array", q |-> q]
Obj(m)    == [t |-> "object", m |-> m]

(* What json.Unmarshal refuses.                                              *)
NotJSON   == [t |-> "malformed"]

(* Schema: <<>> for a pointer that is nil, which it is for "const": null     *)
(* too; "" and 0 for an absent string and number. closed is                  *)
(* additionalProperties: false.                                              *)
AnySchema == [type |-> "", enum |-> <<>>, const |-> <<>>, required |-> {},
              properties |-> <<>>, closed |-> FALSE, items |-> <<>>,
              minimum |-> <<>>, maximum |-> <<>>,
              minLength |-> 0, maxLength |-> 0, minItems |-> 0, maxItems |-> 0]

Typed(type) == [AnySchema EXCEPT !.type = type]

-----------------------------------------------------------------------------
(* What json.Unmarshal gives: trees, of a bounded depth.                     *)
Parts(v) == CASE v.t = "object" -> {v.m[k] : k \in DOMAIN v.m}
              [] v.t = "array"  -> ToSet(v.q)
              [] OTHER -> {}

Subschemas(s) ==
  UNION {ToSet(sub) : sub \in {s.items} \cup {s.properties[k] : k \in DOMAIN s.properties}}

depth[v \in Values] == Max({0} \cup {depth[p] + 1 : p \in Parts(v)})
nesting[s \in Schemas] == Max({0} \cup {nesting[p] + 1 : p \in Subschemas(s)})

IsValue(v) == /\ v.t \in {"null", "boolean", "number", "string", "array", "object"}
              /\ v.t = "null"    => v = Null
              /\ v.t = "boolean" => v = Bool(v.b)
              /\ v.t = "number"  => v = Num(v.h) /\ v.h \in Int
              /\ v.t = "string"  => v = Str(v.s, v.len) /\ v.len \in Nat
              /\ v.t = "array"   => v = Arr(v.q) /\ v.q \in Seq(Values)
              /\ v.t = "object"  => /\ v = Obj(v.m) /\ v.m \in [DOMAIN v.m -> Values]
                                    /\ IsFiniteSet(DOMAIN v.m)

Maybe(S) == {<<>>} \cup {<<x>> : x \in S}

IsSchema(s) ==
  /\ DOMAIN s = DOMAIN AnySchema
  /\ s.const \in Maybe(Values) /\ s.enum \in Seq(Values)
  /\ s.items \in Maybe(Schemas)
  /\ \A k \in DOMAIN s.properties : s.properties[k] \in Maybe(Schemas)
  /\ {s.minimum, s.maximum} \subseteq Seq(Int)
  /\ {s.minLength, s.maxLength, s.minItems, s.maxItems} \subseteq Int

ASSUME ValueAssumption ==
  /\ MaxDepth \in Nat /\ Null \in Values
  /\ \A v \in Values : /\ IsValue(v) /\ depth[v] \in 0..MaxDepth
                        /\ \A p \in Parts(v) : p \in Values /\ depth[p] < depth[v]

ASSUME SchemaAssumption ==
  \A s \in Schemas : /\ IsSchema(s) /\ nesting[s] \in 0..MaxDepth
                     /\ \A p \in Subschemas(s) : nesting[p] < nesting[s]

-----------------------------------------------------------------------------
(* A key that bv lacks reads as nil in bv[k].                                *)
SameJSON(equal, a, b) ==
  \/ /\ a.t = "object" /\ b.t = "object" /\ Cardinality(DOMAIN a.m) = Cardinality(DOMAIN b.m)
     /\ \A k \in DOMAIN a.m : equal[<<a.m[k], IF k \in DOMAIN b.m THEN b.m[k] ELSE Null>>]
  \/ /\ a.t = "array" /\ b.t = "array" /\ Len(a.q) = Len(b.q)
     /\ \A i \in DOMAIN a.q : equal[<<a.q[i], b.q[i]>>]
  \/ a.t \notin {"object", "array"} /\ a = b

jsonEqual[p \in Values \X Values] == SameJSON(jsonEqual, p[1], p[2])

(* float64(int64(f)) gives f back only within 64 bits; Int64 stands for the  *)
(* largest of them.                                                          *)
Int64 == 100
isInteger(v) == v.t = "number" /\ v.h % 2 = 0 /\ v.h \in -2 * Int64 .. 2 * Int64

checkBounds(s, v) ==
  IF s.minimum # <<>> /\ v.h < s.minimum[1] THEN {"below minimum"}
  ELSE IF s.maximum # <<>> /\ v.h > s.maximum[1] THEN {"above maximum"} ELSE {}

SizeFault(n, min, max) == IF n < min THEN {"too short"}
                          ELSE IF max > 0 /\ n > max THEN {"too long"} ELSE {}

JSONTypes == {"object", "array", "string", "number", "boolean", "null"}

(* validateValue, and validateType, which stops at its first fault: the kind *)
(* of each error reported, {} for a valid value.                             *)
MemberFaults(validate, s, m) ==
  IF \E k \in DOMAIN m \cap DOMAIN s.properties :
       s.properties[k] # <<>> /\ validate[<<s.properties[k][1], m[k]>>] # {}
    THEN {"property"} ELSE {}

ObjectFaults(validate, s, m) ==
  CASE ~(s.required \subseteq DOMAIN m) -> {"missing property"}
    [] s.required \subseteq DOMAIN m /\ s.closed /\ ~(DOMAIN m \subseteq DOMAIN s.properties) ->
         {"additional property"}
    [] OTHER -> MemberFaults(validate, s, m)

(* Mutant: the items of an array are not looked into.                        *)
ArrayFaultsSize(validate, s, q) == SizeFault(Len(q), s.minItems, s.maxItems)

ArrayFaults(validate, s, q) ==
  LET size == SizeFault(Len(q), s.minItems, s.maxItems)
  IN  IF size # {} THEN size
      ELSE IF s.items # <<>> /\ \E i \in DOMAIN q : validate[<<s.items[1], q[i]>>] # {}
        THEN {"item"} ELSE {}

validateType(validate, s, v) ==
  CASE s.type = "integer" -> IF isInteger(v) THEN checkBounds(s, v) ELSE {"expected integer"}
    [] s.type \in JSONTypes /\ v.t # s.type -> {"expected type"}
    [] s.type = "object" /\ v.t = "object" -> ObjectFaults(validate, s, v.m)
    [] s.type = "array"  /\ v.t = "array"  -> ArrayFaults(validate, s, v.q)
    [] s.type = "string" /\ v.t = "string" -> SizeFault(v.len, s.minLength, s.maxLength)
    [] s.type = "number" /\ v.t = "number" -> checkBounds(s, v)
    [] OTHER -> {}

Faults(validate, s, v) ==
  (IF s.const # <<>> /\ ~jsonEqual[<<v, s.const[1]>>] THEN {"const"} ELSE {})
  \cup (IF s.enum # <<>> /\ \A i \in DOMAIN s.enum : ~jsonEqual[<<v, s.enum[i]>>]
          THEN {"enum"} ELSE {})
  \cup (IF s.type # "" THEN validateType(validate, s, v) ELSE {})

validateValue[p \in Schemas \X Values] == Faults(validateValue, p[1], p[2])

(* Arguments that come as a json.RawMessage are decoded first.               *)
validateRaw(s, raw) == IF raw.t = "malformed" THEN {"not valid JSON"}
                       ELSE validateValue[<<s, raw>>]

-----------------------------------------------------------------------------
(* What JSON Schema means by the same keywords: each is a constraint of its  *)
(* own on the values it is about. A string's length is taken in bytes and an *)
(* integer is one of 64 bits, as in validate.go.                             *)
Meets(conforms, s, v) ==
  /\ s.type \in {"", v.t} \/ (s.type = "integer" /\ isInteger(v))
  /\ s.const = <<>> \/ s.const = <<v>>
  /\ s.enum = <<>> \/ \E i \in DOMAIN s.enum : s.enum[i] = v
  /\ v.t = "object" =>
       /\ s.required \subseteq DOMAIN v.m
       /\ s.closed => DOMAIN v.m \subseteq DOMAIN s.properties
       /\ \A k \in DOMAIN v.m \cap DOMAIN s.properties :
            s.properties[k] # <<>> => conforms[<<s.properties[k][1], v.m[k]>>]
  /\ v.t = "array" =>
       /\ Len(v.q) >= s.minItems
       /\ s.maxItems > 0 => Len(v.q) <= s.maxItems
       /\ \A i \in DOMAIN v.q : s.items # <<>> => conforms[<<s.items[1], v.q[i]>>]
  /\ v.t = "string" => /\ v.len >= s.minLength
                       /\ s.maxLength > 0 => v.len <= s.maxLength
  /\ v.t = "number" => /\ s.minimum # <<>> => v.h >= s.minimum[1]
                       /\ s.maximum # <<>> => v.h <= s.maximum[1]

Conforms[p \in Schemas \X Values] == Meets(Conforms, p[1], p[2])

(* The two ways the validator is laxer: it checks no keyword but const and   *)
(* enum where there is no type it knows, and it takes a null member for a    *)
(* missing one when it compares.                                             *)
Untyped(s) == /\ s.type \notin JSONTypes \cup {"integer"}
              /\ [s EXCEPT !.const = <<>>, !.enum = <<>>] # AnySchema

LaxSchema[s \in Schemas] == Untyped(s) \/ \E p \in Subschemas(s) : LaxSchema[p]

NullMember[v \in Values] == \/ v.t = "object" /\ Null \in Parts(v)
                            \/ \E p \in Parts(v) : NullMember[p]
=============================================================================
