----------------------------- MODULE Predicate -----------------------------
(***************************************************************************)
(* Attribute predicates, and the WHERE clauses that become them            *)
(* (src/filter.rs, src/index_am/attrs.rs).                                 *)
(*                                                                         *)
(* A row of attributes is a sequence of values.  Column 1 of it is the     *)
(* second column of the index: the first is the vector.                    *)
(***************************************************************************)
EXTENDS Integers, Sequences

CONSTANTS
  Null,
  NaN,
  Columns    \* type of each attribute column

\* A datum is an integer or NaN: numbers are compared only, never computed with.
Data == Int \cup {NaN}

Integral == {"bool", "int2", "int4", "int8"}
Floating == {"float4", "float8"}

\* What a column may hold; an argument may be of any type.
Types == Integral \cup Floating

AttrValues == [family : {"Int", "Float"}, number : Data]

ASSUME ValueAssumption == NaN \notin Int /\ Null \notin Data \cup AttrValues
ASSUME ColumnAssumption == Columns \in Seq(Types)

-----------------------------------------------------------------------------
(* Values and atoms.                                                       *)

\* value_from_datum, of a type it knows.
ValueFromDatum(type, datum) ==
  IF datum = Null THEN Null
  ELSE [family |-> IF type \in Integral THEN "Int" ELSE "Float", number |-> datum]

\* pg_float_cmp: NaN is above everything and equal to itself.
FloatBefore(x, y) == x # NaN /\ (y = NaN \/ x < y)

\* Variant of Before: floats compare as IEEE 754 has it.
BeforeIeee(a, b) ==
  /\ Null \notin {a, b} /\ a.family = b.family
  /\ NaN \notin {a.number, b.number} /\ a.number < b.number

\* num_cmp: values of one family are ordered.
Before(a, b) ==
  /\ Null \notin {a, b} /\ a.family = b.family
  /\ IF a.family = "Float" THEN FloatBefore(a.number, b.number) ELSE a.number < b.number

Same(a, b) == Null \notin {a, b} /\ a = b

Unbounded == [kind |-> "unbounded"]
Included(v) == [kind |-> "included", at |-> v]
Excluded(v) == [kind |-> "excluded", at |-> v]

LowerMatches(v, lo) ==
  \/ lo.kind = "unbounded"
  \/ lo.kind = "included" /\ (Before(lo.at, v) \/ Same(lo.at, v))
  \/ lo.kind = "excluded" /\ Before(lo.at, v)

UpperMatches(v, hi) ==
  \/ hi.kind = "unbounded"
  \/ hi.kind = "included" /\ (Before(v, hi.at) \/ Same(v, hi.at))
  \/ hi.kind = "excluded" /\ Before(v, hi.at)

EqAtom(col, v) == [op |-> "eq", col |-> col, value |-> v]
RangeAtom(col, lo, hi) == [op |-> "range", col |-> col, lo |-> lo, hi |-> hi]

\* A column that the row lacks fails the atom.
AtomMatches(atom, row) ==
  /\ atom.col \in DOMAIN row
  /\ \/ atom.op = "eq" /\ Same(row[atom.col], atom.value)
     \/ /\ atom.op = "range" /\ row[atom.col] # Null
        /\ LowerMatches(row[atom.col], atom.lo) /\ UpperMatches(row[atom.col], atom.hi)

\* A predicate is a set of atoms, all of which must match; none is Predicate::All.
PredicateMatches(atoms, row) == \A atom \in atoms : AtomMatches(atom, row)

-----------------------------------------------------------------------------
(* Scan keys: column strategy argument, with flags; the argument's type is  *)
(* the column's if subtype is Null.                                        *)

STRATEGY_LT == 1
STRATEGY_LE == 2
STRATEGY_EQ == 3
STRATEGY_GE == 4
STRATEGY_GT == 5

\* What a key may say of itself beyond a scalar comparison: atom_from_key takes none.
KeyFlags == {"SK_ISNULL", "SK_ROW_HEADER", "SK_SEARCHARRAY"}

SameFamily(s, t) == {s, t} \subseteq Integral \/ {s, t} \subseteq Floating

Col(key) == key.attno - 1

ArgType(key) == IF key.subtype = Null THEN Columns[Col(key)] ELSE key.subtype

\* What atom_from_key does not refuse.
Expressible(key) ==
  /\ key.flags \cap KeyFlags = {}
  /\ Col(key) \in DOMAIN Columns
  /\ SameFamily(Columns[Col(key)], ArgType(key))
  /\ key.strategy \in STRATEGY_LT .. STRATEGY_GT

AtomFromKey(key) ==
  LET col == Col(key)  value == ValueFromDatum(ArgType(key), key.argument) IN
  IF key.strategy = STRATEGY_EQ THEN EqAtom(col, value)
  ELSE IF key.strategy = STRATEGY_LT THEN RangeAtom(col, Unbounded, Excluded(value))
  ELSE IF key.strategy = STRATEGY_LE THEN RangeAtom(col, Unbounded, Included(value))
  ELSE IF key.strategy = STRATEGY_GT THEN RangeAtom(col, Excluded(value), Unbounded)
  ELSE RangeAtom(col, Included(value), Unbounded)

\* predicate_from_keys.
PushedAtoms(keys) == {AtomFromKey(key) : key \in {k \in keys : Expressible(k)}}
Recheck(keys) == \E key \in keys : ~Expressible(key)

Numbers(type) == IF type \in Integral THEN Int ELSE Data

\* Scan keys on attribute columns, with an argument of a number of its type or NULL.
ScanKeys ==
  {key \in [attno : Nat, strategy : STRATEGY_LT .. STRATEGY_GT, subtype : STRING \cup {Null},
            argument : Data \cup {Null}, flags : SUBSET KeyFlags] :
     /\ Col(key) \in DOMAIN Columns
     /\ key.argument = Null => key.flags # {}
     /\ key.argument # Null => key.argument \in Numbers(ArgType(key))}

\* What row_from_datums stores: a NULL, or a value of the column's family.
AttrRows ==
  {row \in [DOMAIN Columns -> AttrValues \cup {Null}] :
     \A c \in DOMAIN Columns :
       row[c] # Null => /\ row[c].family = IF Columns[c] \in Integral THEN "Int" ELSE "Float"
                        /\ row[c].number \in Numbers(Columns[c])}

-----------------------------------------------------------------------------
(* What the WHERE clause itself says of a row: no comparison with NULL is   *)
(* true, and NaN equals itself and is above every number.                   *)

SqlLess(x, y) == \/ y = NaN /\ x # NaN
                 \/ NaN \notin {x, y} /\ x < y

SqlHolds(key, row) ==
  LET v == row[Col(key)]  x == v.number  y == key.argument IN
  /\ v # Null /\ y # Null
  /\ \/ key.strategy \in {STRATEGY_LT, STRATEGY_LE} /\ SqlLess(x, y)
     \/ key.strategy \in {STRATEGY_GT, STRATEGY_GE} /\ SqlLess(y, x)
     \/ key.strategy \in {STRATEGY_LE, STRATEGY_EQ, STRATEGY_GE} /\ x = y

\* The rows the query asks for.
Wanted(keys, row) == \A key \in keys : SqlHolds(key, row)

\* The rows of an index scan that the executor keeps.
Kept(keys, row) ==
  /\ PredicateMatches(PushedAtoms(keys), row)
  /\ Recheck(keys) => Wanted(keys, row)
=============================================================================
