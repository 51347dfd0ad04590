---------------------------- MODULE Expressions ----------------------------
(***************************************************************************)
(* duck's expressions over one record, and the filter that asks them.      *)
(*                                                                         *)
(* evaluate goes through the tree from the leaves up, the left operand     *)
(* before the right one: the values it has at hand are a stack.  Beside    *)
(* each value stands what the expression ought to be: the type a query     *)
(* planner gives it, and its truth in SQL's logic of true, false and       *)
(* unknown.                                                                *)
(*                                                                         *)
(* Strings and bytes are numbers in their order.  A floating value is a    *)
(* whole number or NaN: only its place among the others matters.           *)
(***************************************************************************)
EXTENDS Integers, Sequences

CONSTANTS INT64_MAX,
          ToDouble(_),  \* static_cast<double> of an integer
          NaN,
          NoData,       \* the data of a null value
          Operands,     \* values of columns and constants
          MaxStack      \* bound of this model on the operands at hand

Integral == {"INT32", "INT64", "UINT32", "UINT64"}
Floating == {"FLOAT", "DOUBLE"}
Numeric  == Integral \cup Floating
ValueType == Numeric \cup {"BOOL", "STRING", "BYTES"}

Data(type) ==
  CASE type = "UINT64"            -> 0 .. 2 * INT64_MAX + 1
    [] type = "UINT32"            -> 0 .. INT64_MAX
    [] type \in {"INT32", "INT64"} -> - INT64_MAX - 1 .. INT64_MAX
    [] type \in Floating          -> Int \cup {NaN}
    [] type = "BOOL"              -> BOOLEAN
    [] OTHER                      -> Nat

IsValue(v) ==
  /\ DOMAIN v = {"type", "null", "data"}
  /\ v = [type |-> v.type, null |-> v.null, data |-> v.data]
  /\ v.type \in ValueType /\ v.null \in BOOLEAN
  /\ ~v.null => v.data \in Data(v.type)

(* The double nearest to an integer is a number. *)
ASSUME NumberAssumption ==
  /\ INT64_MAX \in Nat
  /\ \A n \in - INT64_MAX - 1 .. 2 * INT64_MAX + 1 : ToDouble(n) \in Int
  /\ NaN \notin Int /\ NaN \notin BOOLEAN
ASSUME OperandAssumption == \A v \in Operands : IsValue(v)
ASSUME StackAssumption == MaxStack \in Nat

VARIABLES stack,    \* operands: value, and the type and truth it ought to have
          thrown,   \* evaluate has thrown
          row       \* what the filter does with the record

vars == <<stack, thrown, row>>

null(type)      == [type |-> type, null |-> TRUE, data |-> NoData]
of(type, data)  == [type |-> type, null |-> FALSE, data |-> data]
bool(b)         == of("BOOL", b)

-----------------------------------------------------------------------------
compare_generic(l, r) ==
  IF l < r THEN "LESS" ELSE IF l > r THEN "GREATER" ELSE "EQ"

(* The cast of an integer chooses between as_uint64 and as_integral, whose *)
(* common type is uint64_t: a negative number comes out as a large one.    *)
AsUnsigned(n) == IF n < 0 THEN n + 2 * INT64_MAX + 2 ELSE n

(* The double a numeric operand is compared as. *)
AsDouble(v) == IF v.type \in Floating THEN v.data ELSE ToDouble(AsUnsigned(v.data))

compare_floating(l, r) ==
  IF AsDouble(l) = NaN \/ AsDouble(r) = NaN THEN "UNKNOWN"
  ELSE compare_generic(AsDouble(l), AsDouble(r))

(* static_cast<int64_t> of an unsigned number. *)
AsInt64(n) == IF n > INT64_MAX THEN n - 2 * INT64_MAX - 2 ELSE n

(* Mutant of compare_integral: large unsigned numbers turn negative. *)
compare_integral_Cast(l, r) ==
  IF l.type = "UINT64" /\ r.type = "UINT64" THEN compare_generic(l.data, r.data)
  ELSE compare_generic(AsInt64(l.data), AsInt64(r.data))

compare_integral(l, r) ==
  IF l.type = "UINT64" /\ r.type = "UINT64" THEN compare_generic(l.data, r.data)
  ELSE IF l.type = "UINT64" /\ l.data > INT64_MAX THEN "GREATER"
  ELSE IF r.type = "UINT64" /\ r.data > INT64_MAX THEN "LESS"
  ELSE compare_generic(AsInt64(l.data), AsInt64(r.data))

BoolRank(b) == IF b THEN 1 ELSE 0

compare(l, r) ==
  IF l.null \/ r.null THEN "UNKNOWN"
  ELSE IF l.type \in Integral /\ r.type \in Integral THEN compare_integral(l, r)
  ELSE IF l.type \in Numeric /\ r.type \in Numeric THEN compare_floating(l, r)
  ELSE IF l.type = "BOOL" /\ r.type = "BOOL"
       THEN compare_generic(BoolRank(l.data), BoolRank(r.data))
  ELSE IF l.type = r.type /\ l.type \in {"STRING", "BYTES"} THEN compare_generic(l.data, r.data)
  ELSE "UNKNOWN"

ComparisonOperator == {"GREATER", "LESS", "GREATER_EQ", "LESS_EQ", "EQUAL", "NOT_EQ"}

Holds(op, cmp) ==
  CASE op = "EQUAL"      -> cmp = "EQ"
    [] op = "NOT_EQ"     -> cmp # "EQ"
    [] op = "GREATER"    -> cmp = "GREATER"
    [] op = "LESS"       -> cmp = "LESS"
    [] op = "GREATER_EQ" -> cmp \in {"GREATER", "EQ"}
    [] op = "LESS_EQ"    -> cmp \in {"LESS", "EQ"}

(* Mutant of comparison: the null of an operand is handed on. *)
comparison_Operand(op, l, r) ==
  IF compare(l, r) = "UNKNOWN" THEN null(l.type) ELSE bool(Holds(op, compare(l, r)))

(* ComparisonExpression::evaluate *)
comparison(op, l, r) ==
  IF compare(l, r) = "UNKNOWN" THEN null("BOOL") ELSE bool(Holds(op, compare(l, r)))

BinaryOperator == {"AND", "OR"}

(* BinaryExpression::evaluate throws. *)
BinaryThrows(l, r) == ~(l.null /\ r.null) /\ (l.type # "BOOL" \/ r.type # "BOOL")

(* The operand that decides alone: false for AND, true for OR. *)
binary(op, l, r) ==
  LET decides == op = "OR"
      Decides(v) == ~v.null /\ v.data = decides
  IN  IF l.null /\ r.null THEN null("BOOL")
      ELSE IF Decides(l) \/ Decides(r) THEN bool(decides)
      ELSE IF l.null \/ r.null THEN null("BOOL")
      ELSE bool(~decides)

UnaryThrows(v) == ~v.null /\ v.type # "BOOL"

(* Mutant of negation: a null is handed on. *)
negation_Operand(v) == IF v.null THEN v ELSE bool(~v.data)

(* UnaryExpression::evaluate *)
negation(v) == IF v.null THEN null("BOOL") ELSE bool(~v.data)

(* Mutant of Passes: unknown is as good as true. *)
Passes_Unknown(v) == v.null \/ v.data

(* FilterOperator::next lets the record through. *)
Passes(v) == ~v.null /\ v.data

-----------------------------------------------------------------------------
Truths == {"true", "false", "unknown"}
TruthOf(b) == IF b THEN "true" ELSE "false"

(* Two values side by side: the numbers they are. *)
Comparable(l, r) ==
  /\ ~l.null /\ ~r.null /\ l.data # NaN /\ r.data # NaN
  /\ {l.type, r.type} \subseteq Numeric \/ l.type = r.type
Number(v) == IF v.type = "BOOL" THEN BoolRank(v.data) ELSE v.data
Relates(op, m, n) ==
  CASE op = "EQUAL"      -> m = n
    [] op = "NOT_EQ"     -> m # n
    [] op = "GREATER"    -> m > n
    [] op = "LESS"       -> m < n
    [] op = "GREATER_EQ" -> m >= n
    [] op = "LESS_EQ"    -> m <= n
TruthOfComparison(op, l, r) ==
  IF Comparable(l, r) THEN TruthOf(Relates(op, Number(l), Number(r))) ELSE "unknown"

(* SQL's logic: unknown lies between false and true, and is the least of   *)
(* two, OR the greatest.                                                   *)
Rank(t) == CASE t = "false" -> 0 [] t = "unknown" -> 1 [] t = "true" -> 2
TruthOfBinary(op, s, t) ==
  IF op = "AND" THEN IF Rank(s) <= Rank(t) THEN s ELSE t
  ELSE IF Rank(s) <= Rank(t) THEN t ELSE s
TruthOfNot(t) == CASE t = "true" -> "false" [] t = "false" -> "true" [] OTHER -> "unknown"

Leaf(v) == [value |-> v, type |-> v.type,
            truth |-> IF v.type = "BOOL" /\ ~v.null THEN TruthOf(v.data) ELSE "unknown"]
Inner(v, truth) == [value |-> v, type |-> "BOOL", truth |-> truth]

-----------------------------------------------------------------------------
Init == stack = <<>> /\ thrown = FALSE /\ row = "pending"

Busy == ~thrown /\ row = "pending"
Top(n) == stack[Len(stack) + 1 - n]
Below(n) == SubSeq(stack, 1, Len(stack) - n)
Replace(n, item) == stack' = Append(Below(n), item)
Throw == thrown' = TRUE /\ UNCHANGED stack

(* ColumnExpression and ConstantExpression *)
Operand(v) ==
  /\ Busy /\ Len(stack) < MaxStack
  /\ stack' = Append(stack, Leaf(v))
  /\ UNCHANGED <<thrown, row>>

Comparison(op) ==
  /\ Busy /\ Len(stack) >= 2
  /\ LET l == Top(2)
         r == Top(1)
     IN  Replace(2, Inner(comparison(op, l.value, r.value),
                          TruthOfComparison(op, l.value, r.value)))
  /\ UNCHANGED <<thrown, row>>

Binary(op) ==
  /\ Busy /\ Len(stack) >= 2
  /\ LET l == Top(2)
         r == Top(1)
     IN  IF BinaryThrows(l.value, r.value) THEN Throw
         ELSE /\ Replace(2, Inner(binary(op, l.value, r.value),
                                  TruthOfBinary(op, l.truth, r.truth)))
              /\ UNCHANGED thrown
  /\ UNCHANGED row

Not ==
  /\ Busy /\ Len(stack) >= 1
  /\ IF UnaryThrows(Top(1).value) THEN Throw
     ELSE /\ Replace(1, Inner(negation(Top(1).value), TruthOfNot(Top(1).truth)))
          /\ UNCHANGED thrown
  /\ UNCHANGED row

(* The filter asks one expression; it asserts that its type is BOOL. *)
Filter ==
  /\ Busy /\ Len(stack) = 1
  /\ Top(1).value.type = "BOOL"
  /\ row' = IF Passes(Top(1).value) THEN "returned" ELSE "skipped"
  /\ UNCHANGED <<stack, thrown>>

(* An exception, or the end of the filter, ends the evaluation. *)
Ended == ~Busy /\ UNCHANGED vars

Next ==
  \/ \E v \in Operands : Operand(v)
  \/ \E op \in ComparisonOperator : Comparison(op)
  \/ \E op \in BinaryOperator : Binary(op)
  \/ Not \/ Filter \/ Ended

Spec == Init /\ [][Next]_vars

-----------------------------------------------------------------------------
(* Every operand is a value of the type its expression has: a null too.    *)
TypeOK ==
  /\ thrown \in BOOLEAN
  /\ row \in {"pending", "returned", "skipped"}
  /\ \A i \in DOMAIN stack :
       /\ IsValue(stack[i].value)
       /\ stack[i].value.type = stack[i].type
       /\ stack[i].truth \in Truths

(* A boolean expression has the value that SQL's logic gives it, through   *)
(* any nesting of comparisons of signed, unsigned and floating numbers and *)
(* nulls, AND, OR and NOT.  It is not so when a negative integer meets a   *)
(* floating number that AsUnsigned carries it past.                        *)
TruthIsKept ==
  \A i \in DOMAIN stack :
    stack[i].type = "BOOL" =>
      stack[i].truth = IF stack[i].value.null THEN "unknown" ELSE TruthOf(stack[i].value.data)

(* evaluate throws at an operand that no planner would give it, and never  *)
(* because of the values in the record, nulls above all.                   *)
WellTypedNeverThrows ==
  [][thrown' # thrown =>
       \E i \in DOMAIN stack : i > Len(stack) - 2 /\ stack[i].type # "BOOL"]_vars

(* The filter returns a record if its condition is true, and neither when  *)
(* it is false nor when it is unknown.                                     *)
TheTrueAreReturned ==
  row # "pending" => (row = "returned" <=> stack[1].truth = "true")
=============================================================================
