--------------------------- MODULE MCExpressions ---------------------------
(* Expressions for TLC: integers of three bits, and doubles of two         *)
(* significant ones.                                                       *)
EXTENDS Expressions

(* The nearest number with two significant bits, the even one of two. *)
Round(n) ==
  IF n < 0 THEN - (IF - n <= 4 THEN - n ELSE 2 * ((- n) \div 2))
  ELSE IF n <= 4 THEN n ELSE IF n = 5 THEN 4 ELSE IF n = 7 THEN 8 ELSE n

(* The floating number is above all signed ones, where AsUnsigned does not *)
(* matter, and below the double of the largest unsigned one.               *)
SomeValues ==
  {of("UINT64", 7), of("UINT64", 2), of("INT64", - 4), of("INT32", 2), null("INT32"),
   of("DOUBLE", 6), of("FLOAT", NaN), of("BOOL", TRUE), null("BOOL"),
   of("STRING", 0), of("STRING", 1)}
=============================================================================
