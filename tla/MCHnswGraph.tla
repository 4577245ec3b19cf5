---------------------------- MODULE MCHnswGraph ----------------------------
(* Vectors on an arc, and their attribute rows, for TLC. *)
EXTENDS GraphCodec

\* Unit vectors by their angle, and the zero vector, 0.
ArcDistance ==
  [pair \in Points \X Points |-> IF 0 \in {pair[1], pair[2]} THEN Undefined
                                 ELSE IF pair[1] > pair[2] THEN pair[1] - pair[2]
                                 ELSE pair[2] - pair[1]]

NullValue == [tag |-> ATTR_TAG_NULL, bits |-> 0]
IntValue == [tag |-> ATTR_TAG_INT, bits |-> 7]
FloatValue == [tag |-> ATTR_TAG_FLOAT, bits |-> 7]

LineRows == [p \in Points |-> IF p = 0 THEN <<IntValue, NullValue>>
                              ELSE <<NullValue, FloatValue>>]

TwoSideRows == <<[tid |-> 101, row |-> <<NullValue, NullValue>>],
                 [tid |-> 102, row |-> <<IntValue, FloatValue>>]>>
=============================================================================
