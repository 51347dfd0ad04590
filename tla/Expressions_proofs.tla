------------------------- MODULE Expressions_proofs -------------------------
(***************************************************************************)
(* Theorems about Expressions, for expressions of any depth over any       *)
(* values.                                                                 *)
(***************************************************************************)
EXTENDS Expressions, TLAPS

(* What can stand on the stack. *)
AnyData == {v.data : v \in Operands} \cup BOOLEAN \cup {NoData}
Item == [value : [type : ValueType, null : BOOLEAN, data : AnyData],
         type : ValueType, truth : Truths]

(* An operand has the type it ought to have, and only the values of        *)
(* columns and constants are of another type than BOOL.                    *)
Typed(item) ==
  /\ item \in Item
  /\ IsValue(item.value)
  /\ item.value.type = item.type
  /\ item.type # "BOOL" => item.value \in Operands

TInv ==
  /\ stack \in Seq(Item)
  /\ \A i \in 1 .. Len(stack) : Typed(stack[i])
  /\ thrown \in BOOLEAN
  /\ row \in {"pending", "returned", "skipped"}

(* An operand has the truth it ought to have; what is not boolean has none. *)
Right(item) ==
  item.truth = IF item.value.null \/ item.type # "BOOL" THEN "unknown"
               ELSE TruthOf(item.value.data)

RInv ==
  /\ TInv
  /\ \A i \in 1 .. Len(stack) : Right(stack[i])
  /\ row # "pending" => /\ Len(stack) = 1 /\ stack[1].type = "BOOL"
                        /\ row = "returned" <=> Passes(stack[1].value)

(* Turning an integer into a double, by way of an unsigned one, does not   *)
(* change how it compares with a floating number.                          *)
DoublesTellApart ==
  \A v, w \in Operands :
    v.type \in Integral /\ ~v.null /\ w.type \in Floating /\ ~w.null /\ w.data # NaN
      => /\ AsDouble(v) < w.data <=> v.data < w.data
         /\ AsDouble(v) > w.data <=> v.data > w.data

-----------------------------------------------------------------------------
(* Replacing the last n elements of a sequence. *)
LEMMA ReplaceLast ==
  ASSUME NEW S, NEW s \in Seq(S), NEW x \in S, NEW n \in Nat, n <= Len(s)
  PROVE  LET t == Append(SubSeq(s, 1, Len(s) - n), x)
         IN  /\ t \in Seq(S)
             /\ Len(t) = Len(s) - n + 1
             /\ t[Len(t)] = x
             /\ \A i \in 1 .. Len(s) - n : t[i] = s[i]
<1> DEFINE m == Len(s) - n
           u == SubSeq(s, 1, m)
<1>1. m \in Nat /\ m <= Len(s)
  OBVIOUS
<1>2. u \in Seq(S) /\ Len(u) = m /\ \A i \in 1 .. m : u[i] = s[i]
  BY <1>1
<1> HIDE DEF m, u
<1>3. /\ Append(u, x) \in Seq(S)
      /\ Len(Append(u, x)) = m + 1
      /\ Append(u, x)[m + 1] = x
      /\ \A i \in 1 .. m : Append(u, x)[i] = u[i]
  BY <1>1, <1>2
<1> QED
  BY <1>1, <1>2, <1>3 DEF m, u

(* The values comparisons, AND, OR and NOT return are booleans or null. *)
LEMMA InnerTyped ==
  ASSUME NEW v, v = null("BOOL") \/ \E b \in BOOLEAN : v = bool(b), NEW truth \in Truths
  PROVE  Typed(Inner(v, truth))
<1>1. NoData \in AnyData /\ BOOLEAN \subseteq AnyData
  BY DEF AnyData
<1>2. "BOOL" \in ValueType /\ Data("BOOL") = BOOLEAN
  BY DEF ValueType, Data, Floating
<1>3. v \in [type : ValueType, null : BOOLEAN, data : AnyData] /\ v.type = "BOOL"
  <2>1. CASE v = null("BOOL")
    BY <1>1, <1>2, <2>1 DEF null
  <2>2. ASSUME NEW b \in BOOLEAN, v = bool(b)
        PROVE  v \in [type : ValueType, null : BOOLEAN, data : AnyData] /\ v.type = "BOOL"
    <3>1. b \in AnyData
      BY <1>1
    <3>2. v = [type |-> "BOOL", null |-> FALSE, data |-> b]
      BY <2>2 DEF bool, of
    <3> QED
      BY <1>2, <3>1, <3>2
  <2> QED
    BY <2>1, <2>2
<1>4. IsValue(v)
  <2>1. DOMAIN v = {"type", "null", "data"} /\ v = [type |-> v.type, null |-> v.null, data |-> v.data]
    BY <1>3
  <2>2. ~v.null => v.data \in BOOLEAN
    BY DEF null, bool, of
  <2> QED
    BY <1>2, <1>3, <2>1, <2>2 DEF IsValue
<1> QED
  BY <1>2, <1>3, <1>4 DEF Typed, Inner, Item

(* Whatever comparison, AND, OR and NOT return is a boolean. *)
LEMMA ResultsAreBool ==
  /\ \A op \in ComparisonOperator : \A l, r :
       comparison(op, l, r) = null("BOOL") \/ \E b \in BOOLEAN : comparison(op, l, r) = bool(b)
  /\ \A op, l, r : binary(op, l, r) = null("BOOL") \/ \E b \in BOOLEAN : binary(op, l, r) = bool(b)
  /\ \A v : IsValue(v) /\ ~UnaryThrows(v)
              => negation(v) = null("BOOL") \/ \E b \in BOOLEAN : negation(v) = bool(b)
<1>1. ASSUME NEW op \in ComparisonOperator, NEW c
      PROVE  Holds(op, c) \in BOOLEAN
  <2>1. CASE op = "EQUAL"
    BY <2>1 DEF Holds
  <2>2. CASE op = "NOT_EQ"
    BY <2>2 DEF Holds
  <2>3. CASE op = "GREATER"
    BY <2>3 DEF Holds
  <2>4. CASE op = "LESS"
    BY <2>4 DEF Holds
  <2>5. CASE op = "GREATER_EQ"
    BY <2>5 DEF Holds
  <2>6. CASE op = "LESS_EQ"
    BY <2>6 DEF Holds
  <2> QED
    BY <2>1, <2>2, <2>3, <2>4, <2>5, <2>6 DEF ComparisonOperator
<1>2. ASSUME NEW op \in ComparisonOperator, NEW l, NEW r
      PROVE  comparison(op, l, r) = null("BOOL") \/ \E b \in BOOLEAN : comparison(op, l, r) = bool(b)
  BY <1>1 DEF comparison
<1>3. ASSUME NEW op, NEW l, NEW r
      PROVE  binary(op, l, r) = null("BOOL") \/ \E b \in BOOLEAN : binary(op, l, r) = bool(b)
  <2> DEFINE decides == op = "OR"
  <2>1. decides \in BOOLEAN /\ (~decides) \in BOOLEAN
    OBVIOUS
  <2>2. \/ binary(op, l, r) = null("BOOL")
        \/ binary(op, l, r) = bool(decides)
        \/ binary(op, l, r) = bool(~decides)
    BY DEF binary
  <2> QED
    BY <2>1, <2>2
<1>4. ASSUME NEW v
      PROVE  negation(v) = null("BOOL") \/ \E b \in BOOLEAN : negation(v) = bool(b)
  <2>1. (~v.data) \in BOOLEAN
    OBVIOUS
  <2> QED
    BY <2>1 DEF negation
<1> QED
  BY <1>2, <1>3, <1>4

(* The truth an expression ought to have is one of three. *)
LEMMA TruthsAreThree ==
  /\ \A op, l, r : TruthOfComparison(op, l, r) \in Truths
  /\ \A op : \A s, t \in Truths : TruthOfBinary(op, s, t) \in Truths
  /\ \A t : TruthOfNot(t) \in Truths
  /\ \A b : TruthOf(b) \in Truths
BY DEF TruthOfComparison, TruthOfBinary, TruthOfNot, TruthOf, Truths

(* A column or a constant. *)
LEMMA LeafTyped ==
  ASSUME NEW v \in Operands
  PROVE  Typed(Leaf(v)) /\ Right(Leaf(v))
<1>1. IsValue(v)
  BY OperandAssumption
<1>2. v.data \in AnyData
  BY DEF AnyData
<1>3. v \in [type : ValueType, null : BOOLEAN, data : AnyData]
  BY <1>1, <1>2 DEF IsValue
<1>4. Leaf(v).truth \in Truths
  BY TruthsAreThree DEF Leaf, Truths
<1>5. Leaf(v).value = v /\ Leaf(v).type = v.type /\ Leaf(v) \in Item
  BY <1>1, <1>3, <1>4 DEF Leaf, Item, IsValue
<1>6. Right(Leaf(v))
  BY DEF Right, Leaf
<1> QED
  BY <1>1, <1>5, <1>6 DEF Typed

-----------------------------------------------------------------------------
(* Types survive every step.                                               *)
LEMMA TypedInit == Init => TInv
<1> SUFFICES ASSUME Init PROVE TInv
  OBVIOUS
<1>1. stack = <<>> /\ stack \in Seq(Item) /\ Len(stack) = 0
  BY DEF Init
<1>2. thrown \in BOOLEAN /\ row \in {"pending", "returned", "skipped"}
  BY DEF Init
<1> QED
  BY <1>1, <1>2 DEF TInv

LEMMA TypedNext ==
  ASSUME TInv, [Next]_vars
  PROVE  TInv'
<1> USE DEF TInv
<1>1. ASSUME NEW v \in Operands, Operand(v) PROVE TInv'
  <2>1. Typed(Leaf(v)) /\ Leaf(v) \in Item
    BY LeafTyped DEF Typed
  <2>2. stack' = Append(stack, Leaf(v)) /\ UNCHANGED <<thrown, row>>
    BY <1>1 DEF Operand
  <2>3. /\ stack' \in Seq(Item) /\ Len(stack') = Len(stack) + 1
        /\ stack'[Len(stack) + 1] = Leaf(v)
        /\ \A i \in 1 .. Len(stack) : stack'[i] = stack[i]
    BY <2>1, <2>2
  <2>4. ASSUME NEW i \in 1 .. Len(stack') PROVE Typed(stack'[i])
    BY <2>1, <2>3, <2>4
  <2> QED
    BY <2>2, <2>3, <2>4
<1>2. ASSUME NEW n \in {1, 2}, n <= Len(stack), NEW item, Typed(item),
             Replace(n, item), UNCHANGED <<thrown, row>>
      PROVE  TInv'
  <2>1. item \in Item
    BY <1>2 DEF Typed
  <2>2. stack' = Append(SubSeq(stack, 1, Len(stack) - n), item)
    BY <1>2 DEF Replace, Below
  <2>3. /\ stack' \in Seq(Item) /\ Len(stack') = Len(stack) - n + 1
        /\ stack'[Len(stack')] = item
        /\ \A i \in 1 .. Len(stack) - n : stack'[i] = stack[i]
    BY <1>2, <2>1, <2>2, ReplaceLast
  <2>4. ASSUME NEW i \in 1 .. Len(stack') PROVE Typed(stack'[i])
    <3>1. CASE i = Len(stack')
      BY <1>2, <2>3, <3>1
    <3>2. CASE i # Len(stack')
      <4>1. i \in 1 .. Len(stack) - n /\ i \in 1 .. Len(stack)
        BY <1>2, <2>3, <3>2
      <4> QED
        BY <2>3, <4>1
    <3> QED
      BY <3>1, <3>2
  <2> QED
    BY <1>2, <2>3, <2>4
<1>3. ASSUME NEW op \in ComparisonOperator, Comparison(op) PROVE TInv'
  <2> DEFINE l == Top(2).value
             r == Top(1).value
             item == Inner(comparison(op, l, r), TruthOfComparison(op, l, r))
  <2>1. Typed(item)
    BY InnerTyped, ResultsAreBool, TruthsAreThree
  <2>2. Replace(2, item) /\ 2 <= Len(stack) /\ UNCHANGED <<thrown, row>>
    BY <1>3 DEF Comparison
  <2> HIDE DEF item
  <2> QED
    BY <1>2, <2>1, <2>2
<1>4. ASSUME NEW op \in BinaryOperator, Binary(op) PROVE TInv'
  <2> DEFINE l == Top(2)
             r == Top(1)
             item == Inner(binary(op, l.value, r.value), TruthOfBinary(op, l.truth, r.truth))
  <2>1. CASE BinaryThrows(l.value, r.value)
    <3>1. stack' = stack /\ thrown' = TRUE /\ row' = row
      BY <1>4, <2>1 DEF Binary, Throw
    <3> QED
      BY <3>1
  <2>2. CASE ~BinaryThrows(l.value, r.value)
    <3>1. Replace(2, item) /\ 2 <= Len(stack) /\ UNCHANGED <<thrown, row>>
      BY <1>4, <2>2 DEF Binary
    <3>2. l \in Item /\ r \in Item
      BY <3>1 DEF Top
    <3>3. l.truth \in Truths /\ r.truth \in Truths
      BY <3>2 DEF Item
    <3>4. TruthOfBinary(op, l.truth, r.truth) \in Truths
      BY <3>3, TruthsAreThree
    <3>5. Typed(item)
      BY <3>4, InnerTyped, ResultsAreBool
    <3> HIDE DEF item
    <3> QED
      BY <1>2, <3>1, <3>5
  <2> QED
    BY <2>1, <2>2
<1>5. ASSUME Not PROVE TInv'
  <2> DEFINE v == Top(1).value
             item == Inner(negation(v), TruthOfNot(Top(1).truth))
  <2>1. CASE UnaryThrows(v)
    <3>1. stack' = stack /\ thrown' = TRUE /\ row' = row
      BY <1>5, <2>1 DEF Not, Throw
    <3> QED
      BY <3>1
  <2>2. CASE ~UnaryThrows(v)
    <3>1. Replace(1, item) /\ 1 <= Len(stack) /\ UNCHANGED <<thrown, row>>
      BY <1>5, <2>2 DEF Not
    <3>2. IsValue(v)
      BY <3>1 DEF Top, Typed
    <3>3. Typed(item)
      BY <2>2, <3>2, InnerTyped, ResultsAreBool, TruthsAreThree
    <3> HIDE DEF item
    <3> QED
      BY <1>2, <3>1, <3>3
  <2> QED
    BY <2>1, <2>2
<1>6. CASE Filter
  BY <1>6 DEF Filter
<1>7. CASE UNCHANGED vars
  BY <1>7 DEF vars
<1> QED
  BY <1>1, <1>3, <1>4, <1>5, <1>6, <1>7 DEF Next, Ended

(* Evaluation keeps to the types the planner assigns: every value on the   *)
(* stack, null or not, has the type of its expression.                     *)
THEOREM TypesInvariant == Spec => []TInv
BY TypedInit, TypedNext, PTL DEF Spec

THEOREM TypeCorrect == Spec => []TypeOK
<1>1. TInv => TypeOK
  BY DEF TInv, TypeOK, Typed, Item
<1> QED
  BY <1>1, TypesInvariant, PTL

(* evaluate throws only at an operand of a type that is not BOOL: values,  *)
(* nulls above all, never make a well typed query fail.                    *)
THEOREM NeverThrows == Spec => WellTypedNeverThrows
<1> DEFINE Blamed == thrown' # thrown =>
             \E i \in DOMAIN stack : i > Len(stack) - 2 /\ stack[i].type # "BOOL"
<1>1. TInv /\ [Next]_vars => [Blamed]_vars
  <2> SUFFICES ASSUME TInv, Next, thrown' # thrown
               PROVE  \E i \in DOMAIN stack : i > Len(stack) - 2 /\ stack[i].type # "BOOL"
    BY DEF vars
  <2>1. ASSUME NEW op \in BinaryOperator, Binary(op)
        PROVE  \E i \in DOMAIN stack : i > Len(stack) - 2 /\ stack[i].type # "BOOL"
    <3>1. 2 <= Len(stack) /\ BinaryThrows(Top(2).value, Top(1).value)
      BY <2>1 DEF Binary
    <3>2. Len(stack) \in DOMAIN stack /\ Len(stack) - 1 \in DOMAIN stack
      BY <3>1 DEF TInv
    <3>3. Top(2) = stack[Len(stack) - 1] /\ Top(1) = stack[Len(stack)]
      BY DEF Top, TInv
    <3>4. Top(2).value.type = Top(2).type /\ Top(1).value.type = Top(1).type
      BY <3>2, <3>3 DEF TInv, Typed
    <3>5. Top(2).type # "BOOL" \/ Top(1).type # "BOOL"
      BY <3>1, <3>4 DEF BinaryThrows
    <3> QED
      BY <3>2, <3>3, <3>5 DEF TInv
  <2>2. ASSUME Not
        PROVE  \E i \in DOMAIN stack : i > Len(stack) - 2 /\ stack[i].type # "BOOL"
    <3>1. 1 <= Len(stack) /\ UnaryThrows(Top(1).value)
      BY <2>2 DEF Not
    <3>2. Len(stack) \in DOMAIN stack /\ Top(1) = stack[Len(stack)]
      BY <3>1 DEF TInv, Top
    <3>3. Top(1).type # "BOOL"
      BY <3>1, <3>2 DEF UnaryThrows, TInv, Typed
    <3> QED
      BY <3>2, <3>3 DEF TInv
  <2>3. ~(\E v \in Operands : Operand(v)) /\ ~(\E op \in ComparisonOperator : Comparison(op)) /\ ~Filter /\ ~Ended
    BY DEF Operand, Comparison, Filter, Ended, vars
  <2> QED
    BY <2>1, <2>2, <2>3 DEF Next
<1> QED
  BY <1>1, TypesInvariant, PTL DEF Spec, WellTypedNeverThrows

-----------------------------------------------------------------------------
(* The integers of all types. *)
LEMMA IntegerRange ==
  ASSUME NEW v, IsValue(v), ~v.null, v.type \in Integral
  PROVE  /\ v.data \in - INT64_MAX - 1 .. 2 * INT64_MAX + 1
         /\ v.type # "UINT64" => v.data <= INT64_MAX
         /\ v.type = "UINT64" => v.data >= 0
<1>1. INT64_MAX \in Nat
  BY NumberAssumption
<1>2. v.data \in Data(v.type)
  BY DEF IsValue
<1>3. /\ Data("UINT64") = 0 .. 2 * INT64_MAX + 1
      /\ Data("UINT32") = 0 .. INT64_MAX
      /\ Data("INT32") = - INT64_MAX - 1 .. INT64_MAX
      /\ Data("INT64") = - INT64_MAX - 1 .. INT64_MAX
  <2>1. Data("UINT64") = 0 .. 2 * INT64_MAX + 1
    BY DEF Data, Floating
  <2>2. Data("UINT32") = 0 .. INT64_MAX
    BY DEF Data, Floating
  <2>3. Data("INT32") = - INT64_MAX - 1 .. INT64_MAX
    BY DEF Data, Floating
  <2>4. Data("INT64") = - INT64_MAX - 1 .. INT64_MAX
    BY DEF Data, Floating
  <2> QED
    BY <2>1, <2>2, <2>3, <2>4
<1>4. CASE v.type = "UINT64"
  BY <1>1, <1>2, <1>3, <1>4
<1>5. CASE v.type = "UINT32"
  BY <1>1, <1>2, <1>3, <1>5
<1>6. CASE v.type = "INT32"
  BY <1>1, <1>2, <1>3, <1>6
<1>7. CASE v.type = "INT64"
  BY <1>1, <1>2, <1>3, <1>7
<1> QED
  BY <1>4, <1>5, <1>6, <1>7 DEF Integral

(* compare orders two integers of any two types by their numbers, large    *)
(* unsigned ones included.                                                 *)
LEMMA IntegersCompare ==
  ASSUME NEW l, NEW r, IsValue(l), IsValue(r), ~l.null, ~r.null,
         l.type \in Integral, r.type \in Integral
  PROVE  /\ l.data \in Int /\ r.data \in Int
         /\ compare_integral(l, r) = compare_generic(l.data, r.data)
<1>1. INT64_MAX \in Nat
  BY NumberAssumption
<1>3. /\ l.data \in - INT64_MAX - 1 .. 2 * INT64_MAX + 1
      /\ r.data \in - INT64_MAX - 1 .. 2 * INT64_MAX + 1
      /\ l.type # "UINT64" => l.data <= INT64_MAX
      /\ r.type # "UINT64" => r.data <= INT64_MAX
  BY IntegerRange
<1>4. CASE l.type = "UINT64" /\ r.type = "UINT64"
  BY <1>1, <1>3, <1>4 DEF compare_integral
<1>5. CASE ~(l.type = "UINT64" /\ r.type = "UINT64") /\ l.data > INT64_MAX
  BY <1>1, <1>3, <1>5 DEF compare_integral, compare_generic
<1>6. CASE ~(l.type = "UINT64" /\ r.type = "UINT64") /\ l.data <= INT64_MAX /\ r.data > INT64_MAX
  BY <1>1, <1>3, <1>6 DEF compare_integral, compare_generic
<1>7. CASE l.data <= INT64_MAX /\ r.data <= INT64_MAX
  BY <1>1, <1>3, <1>7 DEF compare_integral, compare_generic, AsInt64
<1> QED
  BY <1>1, <1>3, <1>4, <1>5, <1>6, <1>7

(* compare orders a floating number and another number, if a double tells  *)
(* them apart.                                                             *)
LEMMA FloatingCompare ==
  ASSUME DoublesTellApart,
         NEW l \in Operands, NEW r \in Operands, ~l.null, ~r.null,
         l.type \in Numeric, r.type \in Numeric,
         l.type \in Floating \/ r.type \in Floating,
         l.data # NaN, r.data # NaN
  PROVE  /\ l.data \in Int /\ r.data \in Int
         /\ compare_floating(l, r) = compare_generic(l.data, r.data)
<1>1. ASSUME NEW v \in Operands, ~v.null, v.type \in Numeric, v.data # NaN
      PROVE  v.data \in Int /\ AsDouble(v) \in Int
  <2>1. IsValue(v) /\ v.data \in Data(v.type)
    BY <1>1, OperandAssumption DEF IsValue
  <2>2. CASE v.type \in Floating
    <3>1. v.data \in Int \cup {NaN}
      BY <2>1, <2>2 DEF Data, Floating
    <3> QED
      BY <1>1, <2>2, <3>1 DEF AsDouble
  <2>3. CASE v.type \in Integral
    <3>1. v.data \in - INT64_MAX - 1 .. 2 * INT64_MAX + 1 /\ v.data \in Int
      BY <1>1, <2>1, <2>3, IntegerRange, NumberAssumption
    <3>2. AsDouble(v) = ToDouble(AsUnsigned(v.data))
      BY <2>3 DEF AsDouble, Integral, Floating
    <3>3. AsUnsigned(v.data) \in - INT64_MAX - 1 .. 2 * INT64_MAX + 1
      BY <3>1, NumberAssumption DEF AsUnsigned
    <3> QED
      BY <3>1, <3>2, <3>3, NumberAssumption
  <2> QED
    BY <1>1, <2>2, <2>3 DEF Numeric
<1>2. l.data \in Int /\ r.data \in Int /\ AsDouble(l) \in Int /\ AsDouble(r) \in Int
  BY <1>1
<1>3. AsDouble(l) # NaN /\ AsDouble(r) # NaN
  BY <1>2, NumberAssumption
<1>4. /\ AsDouble(l) < AsDouble(r) <=> l.data < r.data
      /\ AsDouble(l) > AsDouble(r) <=> l.data > r.data
  <2>1. CASE l.type \in Floating /\ r.type \in Floating
    BY <2>1 DEF AsDouble
  <2>2. CASE l.type \in Integral /\ r.type \in Floating
    <3>1. AsDouble(r) = r.data
      BY <2>2 DEF AsDouble
    <3> QED
      BY <2>2, <3>1 DEF DoublesTellApart
  <2>3. CASE r.type \in Integral /\ l.type \in Floating
    <3>1. AsDouble(l) = l.data
      BY <2>3 DEF AsDouble
    <3>2. /\ AsDouble(r) < l.data <=> r.data < l.data
          /\ AsDouble(r) > l.data <=> r.data > l.data
      BY <2>3 DEF DoublesTellApart
    <3> QED
      BY <1>2, <3>1, <3>2
  <2> QED
    BY <2>1, <2>2, <2>3 DEF Numeric
<1> QED
  BY <1>2, <1>3, <1>4 DEF compare_floating, compare_generic

(* The outcome of a comparison of numbers answers the operator's question. *)
LEMMA GenericHolds ==
  ASSUME NEW op \in ComparisonOperator, NEW m \in Int, NEW n \in Int
  PROVE  /\ Holds(op, compare_generic(m, n)) = Relates(op, m, n)
         /\ compare_generic(m, n) # "UNKNOWN"
<1>1. CASE op = "EQUAL"
  BY <1>1 DEF Holds, Relates, compare_generic
<1>2. CASE op = "NOT_EQ"
  BY <1>2 DEF Holds, Relates, compare_generic
<1>3. CASE op = "GREATER"
  BY <1>3 DEF Holds, Relates, compare_generic
<1>4. CASE op = "LESS"
  BY <1>4 DEF Holds, Relates, compare_generic
<1>5. CASE op = "GREATER_EQ"
  BY <1>5 DEF Holds, Relates, compare_generic
<1>6. CASE op = "LESS_EQ"
  BY <1>6 DEF Holds, Relates, compare_generic
<1> QED
  BY <1>1, <1>2, <1>3, <1>4, <1>5, <1>6 DEF ComparisonOperator

(* compare says UNKNOWN of what SQL does not compare, and orders the       *)
(* numbers of all else.                                                    *)
LEMMA CompareIsRight ==
  ASSUME DoublesTellApart, NEW l, NEW r, IsValue(l), IsValue(r),
         l.type # "BOOL" => l \in Operands,
         r.type # "BOOL" => r \in Operands
  PROVE  IF Comparable(l, r)
         THEN /\ Number(l) \in Int /\ Number(r) \in Int
              /\ compare(l, r) = compare_generic(Number(l), Number(r))
         ELSE compare(l, r) = "UNKNOWN"
<1>2. CASE l.null \/ r.null
  BY <1>2 DEF compare, Comparable
<1>3. CASE ~l.null /\ ~r.null /\ l.type \in Integral /\ r.type \in Integral
  <2>1. l.data \in Int /\ r.data \in Int /\ compare_integral(l, r) = compare_generic(l.data, r.data)
    BY <1>3, IntegersCompare
  <2>2. compare(l, r) = compare_generic(l.data, r.data)
    BY <1>3, <2>1 DEF compare
  <2>3. Number(l) = l.data /\ Number(r) = r.data /\ Comparable(l, r)
    BY <1>3, <2>1, NumberAssumption DEF Number, Comparable, Integral, Numeric
  <2> QED
    BY <2>1, <2>2, <2>3
<1>4. CASE /\ ~l.null /\ ~r.null /\ l.type \in Numeric /\ r.type \in Numeric
           /\ l.type \in Floating \/ r.type \in Floating
  <2>1. ~(l.type \in Integral /\ r.type \in Integral)
    BY <1>4 DEF Integral, Floating
  <2>2. compare(l, r) = compare_floating(l, r)
    BY <1>4, <2>1 DEF compare
  <2>3. l \in Operands /\ r \in Operands
    BY <1>4 DEF Numeric, Integral, Floating
  <2>4. CASE l.data # NaN /\ r.data # NaN
    <3>1. /\ l.data \in Int /\ r.data \in Int
          /\ compare_floating(l, r) = compare_generic(l.data, r.data)
      BY <1>4, <2>3, <2>4, FloatingCompare
    <3>2. Number(l) = l.data /\ Number(r) = r.data /\ Comparable(l, r)
      BY <1>4, <2>4 DEF Number, Comparable, Integral, Numeric, Floating
    <3> QED
      BY <2>2, <3>1, <3>2
  <2>5. CASE ~(l.data # NaN /\ r.data # NaN)
    <3>1. ASSUME NEW v, IsValue(v), ~v.null, v.type \in Numeric, v.data = NaN
          PROVE  AsDouble(v) = NaN
      <4>1. v.type \notin Integral
        BY <3>1, IntegerRange, NumberAssumption
      <4> QED
        BY <3>1, <4>1 DEF AsDouble, Numeric
    <3>2. AsDouble(l) = NaN \/ AsDouble(r) = NaN
      BY <1>4, <2>5, <3>1
    <3> QED
      BY <2>2, <2>5, <3>2 DEF compare_floating, Comparable
  <2> QED
    BY <2>4, <2>5
<1>5. CASE ~l.null /\ ~r.null /\ l.type = "BOOL" /\ r.type = "BOOL"
  <2>1. Data("BOOL") = BOOLEAN
    BY DEF Data, Floating
  <2>2. l.data \in BOOLEAN /\ r.data \in BOOLEAN
    BY <1>5, <2>1 DEF IsValue
  <2>3. Comparable(l, r)
    BY <1>5, <2>2, NumberAssumption DEF Comparable
  <2>4. compare(l, r) = compare_generic(BoolRank(l.data), BoolRank(r.data))
    BY <1>5 DEF compare, Integral, Numeric, Floating
  <2>5. Number(l) = BoolRank(l.data) /\ Number(r) = BoolRank(r.data)
    BY <1>5 DEF Number
  <2>6. BoolRank(l.data) \in Int /\ BoolRank(r.data) \in Int
    BY DEF BoolRank
  <2> QED
    BY <2>3, <2>4, <2>5, <2>6
<1>6. CASE ~l.null /\ ~r.null /\ l.type = r.type /\ l.type \in {"STRING", "BYTES"}
  <2>1. Data("STRING") = Nat /\ Data("BYTES") = Nat
    <3>1. Data("STRING") = Nat
      BY DEF Data, Floating
    <3>2. Data("BYTES") = Nat
      BY DEF Data, Floating
    <3> QED
      BY <3>1, <3>2
  <2>2. l.data \in Nat /\ r.data \in Nat
    BY <1>6, <2>1 DEF IsValue
  <2>3. Comparable(l, r)
    BY <1>6, <2>2, NumberAssumption DEF Comparable
  <2>4. compare(l, r) = compare_generic(l.data, r.data)
    BY <1>6 DEF compare, Integral, Numeric, Floating
  <2>5. Number(l) = l.data /\ Number(r) = r.data
    BY <1>6 DEF Number
  <2> QED
    BY <2>2, <2>3, <2>4, <2>5
<1>7. CASE /\ ~l.null /\ ~r.null
           /\ l.type # r.type
           /\ ~({l.type, r.type} \subseteq Numeric)
  BY <1>7 DEF compare, Comparable, Numeric
<1>8. l.type \in ValueType /\ r.type \in ValueType
  BY DEF IsValue
<1>9. \/ l.null \/ r.null
      \/ l.type \in Integral /\ r.type \in Integral
      \/ l.type \in Numeric /\ r.type \in Numeric /\ (l.type \in Floating \/ r.type \in Floating)
      \/ l.type = "BOOL" /\ r.type = "BOOL"
      \/ l.type = r.type /\ l.type \in {"STRING", "BYTES"}
      \/ l.type # r.type /\ ~({l.type, r.type} \subseteq Numeric)
  BY <1>8 DEF ValueType, Numeric
<1> QED
  BY <1>2, <1>3, <1>4, <1>5, <1>6, <1>7, <1>9

(* comparison, AND, OR and NOT keep value and truth together.              *)
LEMMA ComparisonRight ==
  ASSUME DoublesTellApart, NEW op \in ComparisonOperator, NEW x, NEW y, Typed(x), Typed(y)
  PROVE  Right(Inner(comparison(op, x.value, y.value),
                     TruthOfComparison(op, x.value, y.value)))
<1> DEFINE l == x.value
           r == y.value
           c == compare(l, r)
<1>1. IF Comparable(l, r)
      THEN /\ Number(l) \in Int /\ Number(r) \in Int
           /\ c = compare_generic(Number(l), Number(r))
      ELSE c = "UNKNOWN"
  BY CompareIsRight DEF Typed
<1>2. CASE Comparable(l, r)
  <2>1. Holds(op, c) = Relates(op, Number(l), Number(r)) /\ c # "UNKNOWN"
    BY <1>1, <1>2, GenericHolds
  <2>2. comparison(op, l, r) = bool(Relates(op, Number(l), Number(r)))
    BY <2>1 DEF comparison
  <2>3. TruthOfComparison(op, l, r) = TruthOf(Relates(op, Number(l), Number(r)))
    BY <1>2 DEF TruthOfComparison
  <2> QED
    BY <2>2, <2>3 DEF Right, Inner, bool, of
<1>3. CASE ~Comparable(l, r)
  <2>1. comparison(op, l, r) = null("BOOL")
    BY <1>1, <1>3 DEF comparison
  <2>2. TruthOfComparison(op, l, r) = "unknown"
    BY <1>3 DEF TruthOfComparison
  <2> QED
    BY <2>1, <2>2 DEF Right, Inner, null
<1> QED
  BY <1>2, <1>3

LEMMA BinaryRight ==
  ASSUME NEW op \in BinaryOperator, NEW x, NEW y, Typed(x), Typed(y), Right(x), Right(y),
         ~BinaryThrows(x.value, y.value)
  PROVE  Right(Inner(binary(op, x.value, y.value), TruthOfBinary(op, x.truth, y.truth)))
<1> DEFINE l == x.value
           r == y.value
<1>1. CASE l.null /\ r.null
  <2>1. x.truth = "unknown" /\ y.truth = "unknown"
    BY <1>1 DEF Right
  <2>2. TruthOfBinary(op, x.truth, y.truth) = "unknown"
    BY <2>1 DEF TruthOfBinary
  <2>3. binary(op, l, r) = null("BOOL")
    BY <1>1 DEF binary
  <2> QED
    BY <2>2, <2>3 DEF Right, Inner, null
<1>2. CASE ~(l.null /\ r.null)
  <2>1. l.type = "BOOL" /\ r.type = "BOOL" /\ x.type = "BOOL" /\ y.type = "BOOL"
    BY <1>2 DEF BinaryThrows, Typed
  <2>2. (~l.null => l.data \in BOOLEAN) /\ (~r.null => r.data \in BOOLEAN)
    <3>1. Data("BOOL") = BOOLEAN
      BY DEF Data, Floating
    <3> QED
      BY <2>1, <3>1 DEF Typed, IsValue
  <2>3. /\ x.truth = IF l.null THEN "unknown" ELSE TruthOf(l.data)
        /\ y.truth = IF r.null THEN "unknown" ELSE TruthOf(r.data)
    BY <2>1 DEF Right
  <2>4. CASE op = "AND"
    BY <1>2, <2>2, <2>3, <2>4
       DEF Right, Inner, binary, TruthOfBinary, TruthOf, Rank, null, bool, of
  <2>5. CASE op = "OR"
    BY <1>2, <2>2, <2>3, <2>5
       DEF Right, Inner, binary, TruthOfBinary, TruthOf, Rank, null, bool, of
  <2> QED
    BY <2>4, <2>5 DEF BinaryOperator
<1> QED
  BY <1>1, <1>2

LEMMA NotRight ==
  ASSUME NEW x, Typed(x), Right(x), ~UnaryThrows(x.value)
  PROVE  Right(Inner(negation(x.value), TruthOfNot(x.truth)))
<1>1. CASE x.value.null
  <2>1. x.truth = "unknown"
    BY <1>1 DEF Right
  <2>2. TruthOfNot(x.truth) = "unknown" /\ negation(x.value) = null("BOOL")
    BY <1>1, <2>1 DEF TruthOfNot, negation
  <2> QED
    BY <2>2 DEF Right, Inner, null
<1>2. CASE ~x.value.null
  <2>1. x.value.type = "BOOL" /\ x.type = "BOOL"
    BY <1>2 DEF UnaryThrows, Typed
  <2>2. x.truth = TruthOf(x.value.data)
    BY <1>2, <2>1 DEF Right
  <2>3. negation(x.value) = bool(~x.value.data)
    BY <1>2 DEF negation
  <2>4. TruthOfNot(TruthOf(x.value.data)) = TruthOf(~x.value.data)
    BY DEF TruthOfNot, TruthOf
  <2> QED
    BY <2>2, <2>3, <2>4 DEF Right, Inner, bool, of
<1> QED
  BY <1>1, <1>2

-----------------------------------------------------------------------------
(* Truth survives every step.                                              *)
LEMMA RightInit == Init => RInv
<1> SUFFICES ASSUME Init PROVE RInv
  OBVIOUS
<1>1. stack = <<>> /\ Len(stack) = 0 /\ row = "pending"
  BY DEF Init
<1> QED
  BY <1>1, TypedInit DEF RInv

LEMMA RightNext ==
  ASSUME DoublesTellApart, RInv, [Next]_vars
  PROVE  RInv'
<1>1. TInv /\ TInv'
  BY TypedNext DEF RInv
<1> DEFINE Rights == \A i \in 1 .. Len(stack) : Right(stack[i])
<1>2. ASSUME NEW n \in {1, 2}, n <= Len(stack), NEW item, item \in Item, Right(item),
             Replace(n, item), UNCHANGED row, Busy
      PROVE  RInv'
  <2>1. stack' = Append(SubSeq(stack, 1, Len(stack) - n), item)
    BY <1>2 DEF Replace, Below
  <2>2. /\ Len(stack') = Len(stack) - n + 1
        /\ stack'[Len(stack')] = item
        /\ \A i \in 1 .. Len(stack) - n : stack'[i] = stack[i]
    BY <1>1, <1>2, <2>1, ReplaceLast DEF TInv
  <2>3. Len(stack) \in Nat
    BY <1>1 DEF TInv
  <2>4. ASSUME NEW i \in 1 .. Len(stack') PROVE Right(stack'[i])
    <3>1. CASE i = Len(stack')
      BY <1>2, <2>2, <3>1
    <3>2. CASE i # Len(stack')
      <4>1. i \in 1 .. Len(stack) - n /\ i \in 1 .. Len(stack)
        BY <1>2, <2>2, <2>3, <3>2
      <4> QED
        BY <2>2, <4>1 DEF RInv
    <3> QED
      BY <3>1, <3>2
  <2> QED
    BY <1>1, <1>2, <2>4 DEF RInv, Busy
<1>3. ASSUME NEW v \in Operands, Operand(v) PROVE RInv'
  <2>1. Typed(Leaf(v)) /\ Right(Leaf(v)) /\ Leaf(v) \in Item
    BY LeafTyped DEF Typed
  <2>2. stack' = Append(stack, Leaf(v)) /\ row' = row /\ row = "pending"
    BY <1>3 DEF Operand, Busy
  <2>3. /\ Len(stack') = Len(stack) + 1 /\ Len(stack) \in Nat
        /\ stack'[Len(stack) + 1] = Leaf(v)
        /\ \A i \in 1 .. Len(stack) : stack'[i] = stack[i]
    BY <1>1, <2>1, <2>2 DEF TInv
  <2>4. ASSUME NEW i \in 1 .. Len(stack') PROVE Right(stack'[i])
    BY <2>1, <2>3, <2>4 DEF RInv
  <2> QED
    BY <1>1, <2>2, <2>4 DEF RInv
<1>4. /\ 1 <= Len(stack) => /\ Typed(Top(1)) /\ Right(Top(1)) /\ Top(1) = stack[Len(stack)]
      /\ 2 <= Len(stack) => Typed(Top(2)) /\ Right(Top(2))
  <2>1. Len(stack) \in Nat
    BY <1>1 DEF TInv
  <2>2. Top(1) = stack[Len(stack)] /\ Top(2) = stack[Len(stack) - 1]
    BY <2>1 DEF Top
  <2>3. /\ 1 <= Len(stack) => Len(stack) \in 1 .. Len(stack)
        /\ 2 <= Len(stack) => Len(stack) - 1 \in 1 .. Len(stack)
    BY <2>1
  <2> QED
    BY <1>1, <2>2, <2>3 DEF TInv, RInv
<1>5. ASSUME NEW op \in ComparisonOperator, Comparison(op) PROVE RInv'
  <2> DEFINE item == Inner(comparison(op, Top(2).value, Top(1).value),
                           TruthOfComparison(op, Top(2).value, Top(1).value))
  <2>1. Replace(2, item) /\ 2 <= Len(stack) /\ row' = row /\ Busy
    BY <1>5 DEF Comparison
  <2>2. 1 <= Len(stack)
    BY <1>1, <2>1 DEF TInv
  <2>3. Right(item)
    BY <1>4, <2>1, <2>2, ComparisonRight
  <2>4. item \in Item
    BY InnerTyped, ResultsAreBool, TruthsAreThree DEF Typed
  <2> HIDE DEF item
  <2> QED
    BY <1>2, <2>1, <2>3, <2>4
<1>6. ASSUME NEW op \in BinaryOperator, Binary(op) PROVE RInv'
  <2> DEFINE l == Top(2)
             r == Top(1)
             item == Inner(binary(op, l.value, r.value), TruthOfBinary(op, l.truth, r.truth))
  <2>1. 2 <= Len(stack) /\ 1 <= Len(stack) /\ Busy
    BY <1>1, <1>6 DEF Binary, TInv
  <2>2. CASE BinaryThrows(l.value, r.value)
    <3>1. stack' = stack /\ row' = row
      BY <1>6, <2>2 DEF Binary, Throw
    <3> QED
      BY <1>1, <3>1 DEF RInv
  <2>3. CASE ~BinaryThrows(l.value, r.value)
    <3>1. Replace(2, item) /\ row' = row
      BY <1>6, <2>3 DEF Binary
    <3>2. Typed(l) /\ Typed(r) /\ Right(l) /\ Right(r)
      BY <1>4, <2>1
    <3>3. l.truth \in Truths /\ r.truth \in Truths
      BY <3>2 DEF Typed, Item
    <3>4. Right(item)
      BY <2>3, <3>2, BinaryRight
    <3>5. item \in Item
      BY <3>3, InnerTyped, ResultsAreBool, TruthsAreThree DEF Typed
    <3> HIDE DEF item
    <3> QED
      BY <1>2, <2>1, <3>1, <3>4, <3>5
  <2> QED
    BY <2>2, <2>3
<1>7. ASSUME Not PROVE RInv'
  <2> DEFINE x == Top(1)
             item == Inner(negation(x.value), TruthOfNot(x.truth))
  <2>1. 1 <= Len(stack) /\ Busy
    BY <1>7 DEF Not
  <2>2. CASE UnaryThrows(x.value)
    <3>1. stack' = stack /\ row' = row
      BY <1>7, <2>2 DEF Not, Throw
    <3> QED
      BY <1>1, <3>1 DEF RInv
  <2>3. CASE ~UnaryThrows(x.value)
    <3>1. Replace(1, item) /\ row' = row
      BY <1>7, <2>3 DEF Not
    <3>2. Typed(x) /\ Right(x)
      BY <1>4, <2>1
    <3>3. Right(item)
      BY <2>3, <3>2, NotRight
    <3>4. item \in Item
      BY <2>3, <3>2, InnerTyped, ResultsAreBool, TruthsAreThree DEF Typed
    <3> HIDE DEF item
    <3> QED
      BY <1>2, <2>1, <3>1, <3>3, <3>4
  <2> QED
    BY <2>2, <2>3
<1>8. CASE Filter
  <2>1. /\ Len(stack) = 1 /\ Top(1).value.type = "BOOL" /\ stack' = stack
        /\ row' = IF Passes(Top(1).value) THEN "returned" ELSE "skipped"
    BY <1>8 DEF Filter
  <2>2. Top(1) = stack[1] /\ Typed(stack[1])
    BY <1>4, <2>1
  <2>3. stack[1].type = "BOOL"
    BY <2>1, <2>2 DEF Typed
  <2>4. row' = "returned" <=> Passes(stack[1].value)
    BY <2>1, <2>2
  <2> QED
    BY <1>1, <2>1, <2>3, <2>4 DEF RInv
<1>9. CASE UNCHANGED vars
  BY <1>1, <1>9 DEF RInv, vars
<1> QED
  BY <1>3, <1>5, <1>6, <1>7, <1>8, <1>9 DEF Next, Ended

(* Any nesting of comparisons of mixed types, AND, OR and NOT evaluates to *)
(* what SQL's logic says of it, if no integer of the query changes places  *)
(* with a floating number of it on the way to a double.                    *)
THEOREM TruthInvariant == DoublesTellApart => (Spec => []RInv)
<1> SUFFICES ASSUME DoublesTellApart PROVE Spec => []RInv
  OBVIOUS
<1> QED
  BY RightInit, RightNext, PTL DEF Spec

THEOREM TruthCorrect == DoublesTellApart => (Spec => []TruthIsKept)
<1> SUFFICES ASSUME DoublesTellApart PROVE Spec => []TruthIsKept
  OBVIOUS
<1>1. RInv => TruthIsKept
  BY DEF RInv, TInv, Right, TruthIsKept
<1> QED
  BY <1>1, TruthInvariant, PTL

(* FilterOperator::next returns exactly the records whose condition is     *)
(* true: not those for which it is false, and not those for which it is    *)
(* unknown.                                                                *)
THEOREM FilterCorrect == DoublesTellApart => (Spec => []TheTrueAreReturned)
<1> SUFFICES ASSUME DoublesTellApart PROVE Spec => []TheTrueAreReturned
  OBVIOUS
<1>1. RInv => TheTrueAreReturned
  <2> SUFFICES ASSUME RInv, row # "pending"
               PROVE  row = "returned" <=> stack[1].truth = "true"
    BY DEF TheTrueAreReturned
  <2>1. Len(stack) = 1 /\ stack[1].type = "BOOL" /\ (row = "returned" <=> Passes(stack[1].value))
    BY DEF RInv
  <2>2. Right(stack[1])
    BY <2>1 DEF RInv
  <2> QED
    BY <2>1, <2>2 DEF Right, Passes, TruthOf
<1> QED
  BY <1>1, TruthInvariant, PTL
=============================================================================
