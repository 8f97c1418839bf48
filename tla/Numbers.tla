------------------------------ MODULE Numbers ------------------------------
(***************************************************************************)
(* Numbers in a text: is_hexnb, buffer_to_hexnb and buffer_to_uint64       *)
(* (src/src/parse_wiasm.c), on tokens given as sequences of characters.    *)
(***************************************************************************)
EXTENDS Integers, Sequences

CONSTANT Modulus   \* number of values of an unsigned long long

ASSUME ModulusAssumption == Modulus \in Nat \ {0}

Decimal == <<"0", "1", "2", "3", "4", "5", "6", "7", "8", "9">>
Lower == Decimal \o <<"a", "b", "c", "d", "e", "f">>
Upper == Decimal \o <<"A", "B", "C", "D", "E", "F">>

Digits(tables) == UNION { { t[i] : i \in DOMAIN t } : t \in tables }
HexDigits == Digits({Lower, Upper})
DecimalDigits == Digits({Decimal})

DigitOf(c) == (CHOOSE i \in DOMAIN Lower : c \in {Lower[i], Upper[i]}) - 1

(* "0x" alone counts, as the number 0. *)
is_hexnb(buffer) ==
    /\ Len(buffer) >= 2 /\ buffer[1] = "0" /\ buffer[2] = "x"
    /\ \A i \in 3 .. Len(buffer) : buffer[i] \in HexDigits

is_decimal(buffer) == \A i \in DOMAIN buffer : buffer[i] \in DecimalDigits

(* buffer_to_uint64 gives a number, and not an error. *)
is_number(buffer) == is_hexnb(buffer) \/ is_decimal(buffer)

(* Fault: a digit is added before the others are shifted. *)
ReadEarly(buffer, first, base) ==
    LET nb[i \in 0 .. Len(buffer)] ==
            IF i < first THEN 0 ELSE ((nb[i - 1] + DigitOf(buffer[i])) * base) % Modulus
    IN  nb[Len(buffer)]

(* The loops over the digits from the first on, modulo the width of nb.    *)
ReadDigits(buffer, first, base) ==
    LET nb[i \in 0 .. Len(buffer)] ==
            IF i < first THEN 0 ELSE (nb[i - 1] * base + DigitOf(buffer[i])) % Modulus
    IN  nb[Len(buffer)]

buffer_to_uint64(buffer) == IF is_hexnb(buffer) THEN ReadDigits(buffer, 3, 16)
                            ELSE ReadDigits(buffer, 1, 10)

-----------------------------------------------------------------------------
(* The value of digits by their places, added up from the last one. *)
PlaceValue(buffer, first, base) ==
    LET n == Len(buffer) - first + 1
        weight[k \in 0 .. n] == IF k = 0 THEN 1 ELSE base * weight[k - 1]
        value[k \in 0 .. n] ==
            IF k = 0 THEN 0
            ELSE value[k - 1] + DigitOf(buffer[Len(buffer) - k + 1]) * weight[k - 1]
    IN  value[n]

(* A number is read as its digits say, modulo the width of a word and with *)
(* no message where it is larger; a decimal one may begin with 0, and one  *)
(* that begins with 0x is never taken for decimal.                         *)
ReadsNumber(buffer) ==
    /\ is_number(buffer) =>
          buffer_to_uint64(buffer) = (IF is_decimal(buffer) THEN PlaceValue(buffer, 1, 10)
                                      ELSE PlaceValue(buffer, 3, 16)) % Modulus
    /\ ~(is_hexnb(buffer) /\ is_decimal(buffer))
=============================================================================
