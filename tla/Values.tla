------------------------------- MODULE Values -------------------------------
(***************************************************************************)
(* The values of variables (kernel/holder.hpp, kernel/param.hpp) in their  *)
(* three forms: the value in its container, the bytes that go through      *)
(* shared memory, and the text that the operator reads and writes.         *)
(*                                                                         *)
(* A real number is an integer that counts steps of a fine grid: One steps *)
(* make 1, Printed steps make one unit of the last decimal that is         *)
(* printed.  Its bytes are those of that integer; what is used of the real *)
(* ones is that they are many, determine the number, and are all 0 for 0.  *)
(* Infinities and NaN are left out.  The largest is one that is printed as *)
(* it is, as the largest double, a whole number, is.                       *)
(***************************************************************************)
EXTENDS Integers, Sequences

CONSTANTS ByteBase, IntSize, RealSize,  \* 256, sizeof(int32_t), sizeof(double)
          One, Printed

ASSUME ValuesAssumption ==
    /\ ByteBase \in Nat \ {0, 1} /\ IntSize \in Nat \ {0} /\ RealSize \in Nat \ {0}
    /\ One \in Nat \ {0} /\ Printed \in Nat \ {0}

Byte == 0 .. ByteBase - 1
TypeName == {"bool", "int", "real", "string"}
Value(type, data) == [type |-> type, data |-> data]

(* TypeFactory::create(): a new variable.                                  *)
Default(type) ==
    Value(type, CASE type = "bool"   -> FALSE
                  [] type = "string" -> <<>>
                  [] OTHER           -> 0)
----------------------------------------------------------------------------
(* Bytes, the lowest first.                                                *)
Zeros(n) == [i \in 1 .. n |-> 0]
Patterns(size) ==
    LET n[i \in 0 .. size] == IF i = 0 THEN 1 ELSE ByteBase * n[i - 1] IN n[size]
Shifted(k, size) ==
    LET rest[i \in 0 .. size] == IF i = 0 THEN k ELSE rest[i - 1] \div ByteBase IN rest
Encode(k, size) == [i \in 1 .. size |-> Shifted(k, size)[i - 1] % ByteBase]
Fold(bytes) ==
    LET from[i \in 1 .. Len(bytes) + 1] ==
            IF i = Len(bytes) + 1 THEN 0 ELSE bytes[i] + ByteBase * from[i + 1]
    IN  from[1]
Decode(bytes) ==
    LET k == Fold(bytes)
        n == Patterns(Len(bytes))
    IN  IF 2 * k < n THEN k ELSE k - n
SizeOf(type) == IF type = "int" THEN IntSize ELSE RealSize

ToBytes(v) ==
    CASE v.type = "bool"   -> <<IF v.data THEN 1 ELSE 0, 0>>
      [] v.type = "string" -> v.data
      [] OTHER             -> Encode(v.data, SizeOf(v.type))

Readable(type, len) ==
    CASE type = "bool"   -> len \in {1, 2}
      [] type = "string" -> TRUE
      [] OTHER           -> len = SizeOf(type)

(* What the bytes may be read as; a bool that is neither 0 nor 1 in memory *)
(* is undefined.                                                           *)
DataOf(type, bytes) ==
    CASE type = "bool"   -> {b \in BOOLEAN : bytes[1] \in {0, 1} => b = (bytes[1] = 1)}
      [] type = "string" -> {bytes}
      [] OTHER           -> {Decode(bytes)}

(* Holder::from_bytes(): the new value, or the old one with a refusal.     *)
FromBytes(old, bytes) ==
    IF Readable(old.type, Len(bytes))
    THEN {[ok |-> TRUE, value |-> Value(old.type, d)] : d \in DataOf(old.type, bytes)}
    ELSE {[ok |-> FALSE, value |-> old]}

(* A variable is written to its place in shared memory: the place is       *)
(* cleared, then filled if the value is not too long for it.               *)
Emptied_Not(slot) == slot
Emptied(slot) == Zeros(Len(slot))
FitsIn(v, slot) == Len(ToBytes(v)) <= Len(slot)
Stored(v, slot) ==
    IF FitsIn(v, slot)
    THEN ToBytes(v) \o SubSeq(Emptied(slot), Len(ToBytes(v)) + 1, Len(slot))
    ELSE Emptied(slot)
----------------------------------------------------------------------------
(* Text.  What a stream makes of it: blanks before it are skipped; then a  *)
(* number, with a decimal point or without, or none; then other characters *)
(* (rest) or the end.  Only a string variable takes all of it as it is.    *)
Bound(size) == Patterns(size) \div 2
MaxReal == Bound(RealSize) - Printed
InRange(type, num) ==
    CASE type = "bool" -> num \in {0, One}
      [] type = "int"  -> num \div One \in -Bound(IntSize) .. Bound(IntSize) - 1
      [] type = "real" -> num \in -MaxReal .. MaxReal

ASSUME MaxRealAssumption == MaxReal \in Nat /\ MaxReal % Printed = 0

(* A bool or an integer ends at the decimal point, which is then left over.*)
Whole_Any(type, t) == TRUE
Whole(type, t) == ~ t.rest /\ (t.point => type = "real")
Accepts(type, t) == t.number /\ Whole(type, t) /\ InRange(type, t.num)

(* Holder::from_string(), also of SetValue and of an initial value.        *)
FromText(old, t) ==
    IF old.type = "string" THEN [ok |-> TRUE, value |-> Value("string", t)]
    ELSE IF ~ Accepts(old.type, t) THEN [ok |-> FALSE, value |-> old]
    ELSE [ok |-> TRUE,
          value |-> Value(old.type,
                          CASE old.type = "bool" -> t.num = One
                            [] old.type = "int"  -> t.num \div One
                            [] old.type = "real" -> t.num)]

(* std::to_string: a real number is rounded to the nearest that has so     *)
(* many decimals, to the even one of two.                                  *)
Rounded(n) ==
    LET low   == n - (n % Printed)
        twice == 2 * (n % Printed)
    IN  IF twice < Printed \/ (twice = Printed /\ (low \div Printed) % 2 = 0)
        THEN low ELSE low + Printed

Text(num, point) ==
    [blank |-> FALSE, number |-> TRUE, num |-> num, point |-> point, rest |-> FALSE]
ToText(v) ==
    CASE v.type = "bool"   -> Text(IF v.data THEN One ELSE 0, FALSE)
      [] v.type = "int"    -> Text(v.data * One, FALSE)
      [] v.type = "real"   -> Text(Rounded(v.data), TRUE)
      [] v.type = "string" -> v.data
----------------------------------------------------------------------------
(* Comparing and copying.  A copy between types is std::bad_cast.          *)
IsEqual(v, w) == v.type = w.type /\ v.data = w.data
CopyData(dst, src) ==
    IF dst.type # src.type THEN [thrown |-> TRUE, changed |-> FALSE, value |-> dst]
    ELSE [thrown |-> FALSE, changed |-> dst.data # src.data, value |-> src]
=============================================================================
