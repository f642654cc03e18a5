---------------------------- MODULE ChineseAmount ----------------------------
(***************************************************************************)
(* Amounts of money in words                                               *)
(* (amount_to_chinese_upper_rmb of fill_customs_declaration.py).  An       *)
(* amount is a number of li, thousandths of a yuan; its text is a sequence *)
(* of pairs <<digit, unit>>.  A zero is spoken where places are skipped.   *)
(***************************************************************************)
EXTENDS Integers, Sequences, FiniteSets, FiniteSetsExt, SequencesExt, Functions

Ten(n) == CASE n = 0 -> 1 [] n = 1 -> 10 [] n = 2 -> 100 [] n = 3 -> 1000 [] n = 4 -> 10000 [] OTHER -> 100000000

Digit(value, place) == (value \div Ten(place)) % 10
Spoken(said) == IF said THEN <<<<0, "">>>> ELSE <<>>

(* Four digits, from the thousands down. *)
SectionText(value) ==
  LET units == <<"", "ten", "hundred", "thousand">>
      At(p) == IF Digit(value, p) = 0 THEN <<>>
               ELSE Spoken(Digit(value, p + 1) = 0 /\ value >= Ten(p + 1)) \o <<<<Digit(value, p), units[p + 1]>>>>
  IN At(3) \o At(2) \o At(1) \o At(0)

Section(value, k) == IF k = 0 THEN value % 10000 ELSE (value \div 10000) % 10000

(* Amounts below a hundred million yuan: two sections. *)
IntegerText(value) ==
  LET high == Section(value, 1)
      low == Section(value, 0)
  IN IF value = 0 THEN Spoken(TRUE)
     ELSE (IF high = 0 THEN <<>> ELSE SectionText(high) \o <<<<0, "wan">>>>)
          \o (IF low = 0 THEN <<>> ELSE Spoken(high > 0 /\ low < 1000) \o SectionText(low))

(* Mutant: a place skipped after the yuan is not spoken. *)
FractionTextPlain(fraction, integer) ==
  LET units == <<"li", "fen", "jiao">>
      At(p) == IF Digit(fraction, p) = 0 THEN <<>> ELSE <<<<Digit(fraction, p), units[p + 1]>>>>
  IN At(2) \o At(1) \o At(0)
FractionText(fraction, integer) ==
  LET units == <<"li", "fen", "jiao">>
      first == Max({p \in 0 .. 2 : Digit(fraction, p) # 0})
      skipped == IF integer = 0 THEN 0 ELSE 2 - first
      At(p) == IF Digit(fraction, p) = 0 THEN <<>>
               ELSE (IF p = first THEN [i \in 1 .. skipped |-> <<0, "">>] ELSE Spoken(Digit(fraction, p + 1) = 0))
                    \o <<<<Digit(fraction, p), units[p + 1]>>>>
  IN IF fraction = 0 THEN <<<<0, "whole">>>> ELSE At(2) \o At(1) \o At(0)

AmountText(li) ==
  IntegerText(li \div 1000) \o <<<<0, "yuan">>>> \o FractionText(li % 1000, li \div 1000)

(***************************************************************************)
(* Reading it back.                                                        *)
(***************************************************************************)
Worth(unit) ==
  CASE unit = "thousand" -> 1000000 [] unit = "hundred" -> 100000 [] unit = "ten" -> 10000 [] unit = "" -> 1000
    [] unit = "jiao" -> 100 [] unit = "fen" -> 10 [] unit = "li" -> 1 [] OTHER -> 0

AmountRead(text) ==
  LET scale(i) == IF \E j \in i .. Len(text) : text[j][2] = "wan" THEN 10000 ELSE 1
  IN MapThenSumSet(LAMBDA i : text[i][1] * Worth(text[i][2]) * scale(i), DOMAIN text)

(* Two digits spoken one after the other stand in places next to each other, and jiao follow the yuan. *)
NoPlaceSkipped(text) ==
  \A i \in 2 .. Len(text) :
    text[i][1] # 0 =>
      /\ text[i - 1][1] # 0 => Worth(text[i - 1][2]) = 10 * Worth(text[i][2])
      /\ text[i - 1][2] = "yuan" /\ text[1] # <<0, "">> => text[i][2] = "jiao"
=============================================================================
