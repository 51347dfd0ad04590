--------------------------- MODULE MCTupleCodec ---------------------------
(* TupleCodec for TLC: bytes of two bits, so that a bitmap byte is full    *)
(* after two columns.                                                      *)
EXTENDS TupleCodec

Col(name, type, length) == [name |-> name, type |-> type, length |-> length]

AllTypes == {Col(<<>>, "INT32", 0), Col(<<1>>, "BOOL", 0), Col(<<2, 1>>, "CHAR", 1),
             Col(<<3>>, "VARCHAR", 1), Col(<<1>>, "VARCHAR", 0), Col(<<1>>, "VARBINARY", 3)}
TwoInts == {<<0, 1, 2, 3>>, <<1, 0, 0, 0>>}
=============================================================================
