-------------------------------- MODULE Int4 --------------------------------
(***************************************************************************)
(* One row of a weight matrix through python/reference/quant.py: quantize  *)
(* in groups, pack, dequantize; and the codes the kernels read from the    *)
(* packed bytes.                                                           *)
(*                                                                         *)
(* Weights are fp16, hence integers in units of the smallest subnormal.    *)
(* The code's float32 intermediates are taken as exact rationals: no       *)
(* quotient of fp16 values comes so near a tie that float32 could move it  *)
(* over, except the tie itself, which a rounded scale may move either way. *)
(***************************************************************************)
EXTENDS Integers

CONSTANTS
    K,           \* in_features
    group_size,
    Weights,     \* the weights considered, in units
    Rows,        \* the rows of them considered
    Precision,   \* significand bits of the stored scale (fp16 has 11)
    Units        \* the spacings of that format, powers of two

Columns == 0 .. K - 1
Bytes == 0 .. (K \div 2) - 1
GroupOf(k) == k \div group_size
AllGroups == 0 .. (K \div group_size) - 1

\* The asserts of pack_int4 and quantize_groupwise_int4.
ASSUME RowAssumption ==
    /\ K \in Nat \ {0} /\ group_size \in Nat \ {0}
    /\ K % 2 = 0 /\ K % group_size = 0

ASSUME WeightAssumption ==
    Weights \subseteq Int /\ Rows \subseteq [Columns -> Weights]

ASSUME PrecisionAssumption == Precision \in Nat \ {0}

VARIABLES
    step,      \* "given", "quantized", "packed", "dequantized"
    w,         \* the row
    absmax,    \* per group
    q,         \* its codes
    scale,     \* per group, as stored
    packed,    \* bytes
    w_approx   \* the row dequantized

quant_vars == <<step, w, absmax, q, scale, packed, w_approx>>

Abs(x) == IF x < 0 THEN -x ELSE x

(* Column m holds a largest magnitude of group g (amax).  clamp_min(1e-8)  *)
(* is below one unit: only a group of zeros would notice it.               *)
Largest(m, g) ==
    GroupOf(m) = g /\ \A k \in Columns : GroupOf(k) = g => Abs(w[k]) <= Abs(w[m])

\* Mistake: the magnitude is cut off, not rounded.
BugTruncated(a, max, up) == (7 * a) \div max

(* round(a / (absmax / 7)), a tie to even, or either way when the scale is *)
(* not exact.                                                              *)
RoundedCode(a, max, up) ==
    LET n == (14 * a + max) \div (2 * max)
        tie == (14 * a + max) % (2 * max) = 0
        down == IF max % 7 = 0 THEN n % 2 = 1 ELSE ~ up
    IN  IF tie /\ down THEN n - 1 ELSE n

Clamp(n) == IF n < -8 THEN -8 ELSE IF n > 7 THEN 7 ELSE n

\* The code of weight v in a group; a group of zeros has code 0.
Code(v, max, up) ==
    IF max = 0 THEN 0
    ELSE Clamp(IF v < 0 THEN - RoundedCode(-v, max, up)
               ELSE RoundedCode(v, max, up))

\* u is the unit in the last place of max / 7 in the scale's format.
IsUlp(u, max) ==
    /\ max < 7 * 2 ^ Precision * u
    /\ u > 1 => 7 * 2 ^ Precision * u <= 2 * max

\* No weight is so large that the scale overflows.
ASSUME ScaleAssumption ==
    /\ Units \subseteq Nat \ {0}
    /\ \A v \in Weights : \E u \in Units : IsUlp(u, Abs(v))

Ulp(max) == CHOOSE u \in Units : IsUlp(u, max)

\* Mistake: the scale is cut off when it is stored.
BugScaleCutOff(max) == (max \div (7 * Ulp(max))) * Ulp(max)

\* half(max / 7): the nearest multiple of the unit, ties to even.
StoredScale(max) ==
    LET u == Ulp(max)
        n == (2 * max + 7 * u) \div (14 * u)
        tie == (2 * max + 7 * u) % (14 * u) = 0
    IN  u * (IF tie /\ n % 2 = 1 THEN n - 1 ELSE n)

\* Mistake: the even column goes to the high nibble.
BugHighFirst(even, odd) == (odd % 16) + 16 * (even % 16)

\* Two's complement nibbles, the even column's low.
PackByte(even, odd) == (even % 16) + 16 * (odd % 16)

Signed(nibble) == IF nibble >= 8 THEN nibble - 16 ELSE nibble

\* Mistake: the nibble is not sign-extended.
BugUnsigned(byte, odd) == IF odd THEN (byte \div 16) % 16 ELSE byte % 16

(* unpack_int4; the kernels do the same with a byte, which the optimized   *)
(* one first shifts out of a word of four (OptimizedKernel, WordProducts). *)
Nibble(byte, odd) ==
    Signed(IF odd THEN (byte \div 16) % 16 ELSE byte % 16)

-----------------------------------------------------------------------------
QuantInit ==
    /\ step = "given"
    /\ w \in Rows
    /\ absmax = [g \in AllGroups |-> 0]
    /\ q = [k \in Columns |-> 0] /\ scale = [g \in AllGroups |-> 0]
    /\ packed = [i \in Bytes |-> 0] /\ w_approx = [k \in Columns |-> 0]

\* Equal weights of a group get equal codes, however its ties fall.
Quantize ==
    /\ step = "given"
    /\ \E m \in [AllGroups -> Columns] :
         /\ \A g \in AllGroups : Largest(m[g], g)
         /\ absmax' = [g \in AllGroups |-> Abs(w[m[g]])]
    /\ \E up \in [AllGroups -> BOOLEAN] :
         q' = [k \in Columns |-> Code(w[k], absmax'[GroupOf(k)], up[GroupOf(k)])]
    /\ scale' = [g \in AllGroups |-> StoredScale(absmax'[g])]
    /\ step' = "quantized"
    /\ UNCHANGED <<w, packed, w_approx>>

Pack ==
    /\ step = "quantized"
    /\ packed' = [i \in Bytes |-> PackByte(q[2 * i], q[2 * i + 1])]
    /\ step' = "packed"
    /\ UNCHANGED <<w, absmax, q, scale, w_approx>>

Dequantize ==
    /\ step = "packed"
    /\ w_approx' = [k \in Columns |->
                      Nibble(packed[k \div 2], k % 2 = 1) * scale[GroupOf(k)]]
    /\ step' = "dequantized"
    /\ UNCHANGED <<w, absmax, q, scale, packed>>

QuantFinished == step = "dequantized" /\ UNCHANGED quant_vars

QuantNext == Quantize \/ Pack \/ Dequantize \/ QuantFinished

QuantSpec == QuantInit /\ [][QuantNext]_quant_vars

-----------------------------------------------------------------------------
(* Types; a byte is a byte, a code is one of seven magnitudes and a sign.  *)
(* The docstring's remark that -8 "is reachable only via rounding" is      *)
(* cautious: rounding never reaches it, and the clamp never acts.          *)
QuantTypeOK ==
    /\ step \in {"given", "quantized", "packed", "dequantized"}
    /\ w \in [Columns -> Weights]
    /\ absmax \in [AllGroups -> Nat]
    /\ q \in [Columns -> -7 .. 7]
    /\ scale \in [AllGroups -> Nat]
    /\ packed \in [Bytes -> 0 .. 255]
    /\ w_approx \in [Columns -> Int]

(* Every reader of the packed row finds the code that was packed for that  *)
(* column, sign included (unpack_int4, and the nibble decoding of the      *)
(* kernels).                                                               *)
ReadersAgree ==
    step \in {"packed", "dequantized"} =>
      \A k \in Columns : Nibble(packed[k \div 2], k % 2 = 1) = q[k]

(* How far a dequantized weight may be from the original: half a step for  *)
(* its code, and for each step of the code half a unit in the last place   *)
(* of the scale, since the code was found with the scale before it was     *)
(* rounded to fp16.  In a group of tiny weights the second part is all     *)
(* there is: the scale may be 0.                                           *)
DequantIsNear ==
    step = "dequantized" =>
      \A k \in Columns :
        LET a == absmax[GroupOf(k)]
        IN  14 * Abs(w[k] - w_approx[k]) <= a + 7 * Abs(q[k]) * Ulp(a)

(* Within a group the dequantized weights are in the order of the          *)
(* originals, and opposite weights stay opposite.                          *)
OrderKept ==
    step = "dequantized" =>
      \A j, k \in Columns :
        GroupOf(j) = GroupOf(k) =>
          /\ w[j] <= w[k] => w_approx[j] <= w_approx[k]
          /\ w[j] = - w[k] => w_approx[j] = - w_approx[k]

(* Only a group of at most three units (1.8e-7) is dequantized to nothing. *)
TinyGroupsOnly ==
    step = "dequantized" =>
      \A g \in AllGroups :
        (\A k \in Columns : GroupOf(k) = g => w_approx[k] = 0) <=> absmax[g] <= 3
=============================================================================
