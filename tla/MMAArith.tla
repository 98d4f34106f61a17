-------------------------------- MODULE MMAArith -------------------------------
(***************************************************************************)
(* The accumulation arithmetic of the MMA emulation kernels: decoding of   *)
(* the element formats, multiplication, block scales, and the fixed point  *)
(* accumulators.  The fractional widths, template parameters in the code,  *)
(* are parameters here.  TLC's integers have 32 bits where the code has 64 *)
(* bits; the widths and sums of the models keep within both.               *)
(***************************************************************************)
EXTENDS Integers, Sequences, FiniteSets, FiniteSetsExt, SequencesExt

\* x << k, or x >> -k, for x >= 0; the code takes 0 for a shift by 64 or more.
Shift(x, k) ==
    IF k >= 0 THEN x * 2^k ELSE IF k <= -31 THEN 0 ELSE x \div 2^(-k)

Abs(x) == IF x < 0 THEN -x ELSE x
LeadingOne(x) == Max({p \in 0 .. 30 : 2^p <= x})

-------------------------------------------------------------------------------
(* Operands: sign * sig * 2^(exp - f) where f is the width in use, and FP32 *)
(* values by their bit fields.                                             *)

Operand(sign, exp, sig) == [flag |-> "num", sign |-> sign, exp |-> exp, sig |-> sig]
make_zero_operand == [flag |-> "zero", sign |-> 1, exp |-> 0, sig |-> 0]
NaNOperand == [flag |-> "nan", sign |-> 1, exp |-> 0, sig |-> 0]
InfOperand(sign) == [flag |-> "inf", sign |-> sign, exp |-> 0, sig |-> 0]

FP32(sign, biased, mantissa) == [sign |-> sign, biased |-> biased, mantissa |-> mantissa]
PosZero == FP32(1, 0, 0)
QNaN == FP32(1, 255, 2^23 - 1)
Inf(sign) == FP32(sign, 255, 0)
IsNaN(c) == c.biased = 255 /\ c.mantissa # 0

\* A subnormal keeps the exponent -126 and has no implicit bit.
fp32_to_operand(f, c) ==
    CASE c.biased = 0 /\ c.mantissa = 0 -> make_zero_operand
      [] c.biased = 255 /\ c.mantissa = 0 -> InfOperand(c.sign)
      [] IsNaN(c) -> NaNOperand
      [] c.biased = 0 /\ c.mantissa # 0 -> Operand(c.sign, -126, Shift(c.mantissa, f - 23))
      [] c.biased \in 1 .. 254 ->
            Operand(c.sign, c.biased - 127, Shift(2^23 + c.mantissa, f - 23))

\* Mutant of KeptBits: one bit more is kept.
KeepOneMore(f) == IF f < 23 THEN f + 1 ELSE 23

\* The fractional bits that the final truncation keeps.
KeptBits(f) == IF f < 23 THEN f ELSE 23

\* Mutant of Truncated: the implicit bit stays in the mantissa field.
ImplicitBitKept(f, x) ==
    LET unit == 2^(23 - KeptBits(f)) IN (x \div unit) * unit

\* The 23 bits of the mantissa field of x, truncated.
Truncated(f, x) ==
    LET unit == 2^(23 - KeptBits(f)) IN ((x % 2^23) \div unit) * unit

fixed_to_fp32(f, mantissa_sum, max_exp) ==
    LET sign == IF mantissa_sum < 0 THEN -1 ELSE 1
        abs == Abs(mantissa_sum)
        lead == LeadingOne(abs)
        biased == lead + max_exp - f + 127
        subnormal == Truncated(f, Shift(abs, -(lead - 23 + (1 - biased))))
    IN  CASE mantissa_sum = 0 -> PosZero
          [] mantissa_sum # 0 /\ biased <= 0 ->
                IF subnormal = 0 THEN PosZero ELSE FP32(sign, 0, subnormal)
          [] mantissa_sum # 0 /\ biased >= 255 -> Inf(sign)
          [] mantissa_sum # 0 /\ biased \in 1 .. 254 ->
                FP32(sign, biased, Truncated(f, Shift(abs, 23 - lead)))

-------------------------------------------------------------------------------
(* Accumulators. *)

\* The significands, aligned to the largest exponent and summed.
AlignedSum(terms, max_exp) ==
    FoldLeft(LAMBDA s, t : IF t.flag = "num"
                           THEN s + t.sign * Shift(t.sig, -(max_exp - t.exp)) ELSE s,
             0, terms)

\* The exponent that the terms are aligned to: zero terms count with e_zero.
MaxExponent(terms, e_zero) ==
    Max({t.exp : t \in {u \in ToSet(terms) : u.flag = "num"}}
        \cup {e_zero : t \in {u \in ToSet(terms) : u.flag = "zero"}})

chunked_accumulate(f, e_zero, operands, c) ==
    LET terms == <<fp32_to_operand(f, c)>> \o operands
        flags == {t.flag : t \in ToSet(terms)}
        infs == {t.sign : t \in {u \in ToSet(terms) : u.flag = "inf"}}
        max_exp == MaxExponent(terms, e_zero)
    IN  CASE "nan" \in flags \/ Cardinality(infs) = 2 -> QNaN
          [] "nan" \notin flags /\ Cardinality(infs) = 1 -> Inf(Max(infs))
          [] flags = {"zero"} -> PosZero
          [] "num" \in flags /\ flags \cap {"nan", "inf"} = {} ->
                fixed_to_fp32(f, AlignedSum(terms, max_exp), max_exp)

fda_accumulate(f, operands, c) == chunked_accumulate(f, -133, operands, c)
gdfs_accumulate_tile(f, groups, c) == chunked_accumulate(f, -139, groups, c)

\* C-decoupled: the products among themselves, then the sum and c at f2 bits.
cofda_decoupled_accumulate_products(f, f2, products, c) ==
    LET partial_sum == fda_accumulate(f, products, PosZero)
    IN  fda_accumulate(f2, <<fp32_to_operand(f2, partial_sum)>>, c)

\* A NaN product has significand 0 and is not zero: it only takes part in the
\* largest exponent.
group_accumulate(products) ==
    LET nonzero == SelectSeq(products, LAMBDA p : p.flag # "zero")
        max_exp == Max({p.exp : p \in ToSet(nonzero)})
    IN  IF nonzero = <<>> THEN [sum |-> 0, max_exp |-> 0, all_zero |-> TRUE]
        ELSE [sum |-> AlignedSum(nonzero, max_exp), max_exp |-> max_exp,
              all_zero |-> FALSE]

-------------------------------------------------------------------------------
(* FP8 E4M3. *)

decode_operand(byte) ==
    LET e == (byte \div 8) % 16
        m == byte % 8
        sign == IF byte >= 128 THEN -1 ELSE 1
    IN  CASE byte % 128 = 127 -> NaNOperand
          [] byte % 128 = 0 -> make_zero_operand
          [] byte % 128 \in 1 .. 7 -> Operand(sign, -6, m)
          [] byte % 128 \in 8 .. 126 -> Operand(sign, e - 7, 8 + m)

fp8_multiply_predecoded(f, a, b) ==
    CASE "nan" \in {a.flag, b.flag} -> NaNOperand
      [] "nan" \notin {a.flag, b.flag} /\ "zero" \in {a.flag, b.flag} -> make_zero_operand
      [] {a.flag, b.flag} = {"num"} ->
            Operand(a.sign * b.sign, a.exp + b.exp, Shift(a.sig * b.sig, f - 6))

group_to_operand_fp8(f, g, gr) ==
    IF gr.sum = 0 THEN make_zero_operand
    ELSE Operand(IF gr.sum < 0 THEN -1 ELSE 1, gr.max_exp, Shift(Abs(gr.sum), f - g))

-------------------------------------------------------------------------------
(* FP4 E2M1. *)

decode_fp4_operand(nibble) ==
    LET mag == nibble % 8
        sign == IF nibble >= 8 THEN -1 ELSE 1
    IN  CASE mag = 0 -> make_zero_operand
          [] mag = 1 -> Operand(sign, 0, 1)
          [] mag \in 2 .. 7 -> Operand(sign, (mag \div 2) - 1, 2 + (mag % 2))

\* A product that the shift truncates to zero is a zero.
fp4_multiply_predecoded(g, a, b) ==
    LET sig == Shift(a.sig * b.sig, g - 2)
    IN  IF "zero" \in {a.flag, b.flag} \/ sig = 0 THEN make_zero_operand
        ELSE Operand(a.sign * b.sign, a.exp + b.exp, sig)

\* Block scales, decoded: E8M0 is a power of two (0 is 2^-127, not zero); UE4M3
\* has its sign bit masked.  A scale is sig * 2^(exp - radix).
e8m0_scale(s) == IF s = 255 THEN NaNOperand ELSE Operand(1, s - 127, 1)

ue4m3_scale(s) == decode_operand(s % 128)

\* Mutant of ScaledGroup: the scales of a group of zeros are not looked at.
ScaledGroupUnlessZero(f, g, radix, gr, sfa, sfb) ==
    IF gr.all_zero \/ "zero" \in {sfa.flag, sfb.flag} THEN make_zero_operand
    ELSE IF "nan" \in {sfa.flag, sfb.flag} THEN NaNOperand
    ELSE Operand(IF gr.sum < 0 THEN -1 ELSE 1, sfa.exp + sfb.exp,
                 Shift(Abs(gr.sum) * sfa.sig * sfb.sig * 2^gr.max_exp, f - (g + radix)))

\* A group and its scales, with the kernels' case of a group of zeros: the exponent
\* is that of the scales, that of the group goes into the significand; a group that
\* cancels to zero keeps its exponent.
ScaledGroup(f, g, radix, gr, sfa, sfb) ==
    CASE "nan" \in {sfa.flag, sfb.flag} -> NaNOperand
      [] "nan" \notin {sfa.flag, sfb.flag} /\ (gr.all_zero \/ "zero" \in {sfa.flag, sfb.flag}) ->
            make_zero_operand
      [] {sfa.flag, sfb.flag} = {"num"} /\ ~ gr.all_zero ->
            Operand(IF gr.sum < 0 THEN -1 ELSE 1, sfa.exp + sfb.exp,
                    Shift(Abs(gr.sum) * sfa.sig * sfb.sig * 2^gr.max_exp, f - (g + radix)))

apply_e8m0_scales(f, g, gr, sfa, sfb) ==
    ScaledGroup(f, g, 0, gr, e8m0_scale(sfa), e8m0_scale(sfb))
apply_ue4m3_scales(f, g, gr, sfa, sfb) ==
    ScaledGroup(f, g, 6, gr, ue4m3_scale(sfa), ue4m3_scale(sfb))

\* A product and its scales; what truncates to zero is a zero.
ScaledProduct(f, radix, a, b, sfa, sfb) ==
    LET sig == Shift(a.sig * b.sig * sfa.sig * sfb.sig, f - (2 + radix))
    IN  CASE "nan" \in {sfa.flag, sfb.flag} -> NaNOperand
          [] "nan" \notin {sfa.flag, sfb.flag} ->
                IF "zero" \in {a.flag, b.flag, sfa.flag, sfb.flag} \/ sig = 0
                THEN make_zero_operand
                ELSE Operand(a.sign * b.sign, a.exp + b.exp + sfa.exp + sfb.exp, sig)

fp4_product_with_e8m0_scales(f, a, b, sfa, sfb) ==
    ScaledProduct(f, 0, a, b, e8m0_scale(sfa), e8m0_scale(sfb))
fp4_product_with_ue4m3_scales(f, a, b, sfa, sfb) ==
    ScaledProduct(f, 6, a, b, ue4m3_scale(sfa), ue4m3_scale(sfb))
===============================================================================
