--------------------------- MODULE Scripts_proofs ---------------------------
(***************************************************************************)
(* Proofs about the two scripts that call the decoder.  They rest on what  *)
(* the decoder's calls return, whatever the drafts: the target's own       *)
(* continuation of the prompt (SpecDecode_proofs), so two runs of it, and  *)
(* a plain one, can be compared position by position.                      *)
(***************************************************************************)
EXTENDS MCScripts, SpecDecode_proofs

-----------------------------------------------------------------------------
(* Token-by-token generation: g[i] are the first i tokens that pick, asked *)
(* after ids and what it said before, says.                                *)
Unrolls(g, n, ids, pick, T) ==
    /\ g \in [0 .. n -> Seq(T)]
    /\ g[0] = << >>
    /\ \A i \in 1 .. n : /\ ids \o g[i - 1] \in TargetContext
                         /\ g[i] = Append(g[i - 1], pick[ids \o g[i - 1]])
    /\ \A i \in 0 .. n : Len(g[i]) = i

LEMMA ContextFits ==
    ASSUME NEW ids \in Seq(TargetToken), NEW T \in SUBSET TargetToken, NEW s \in Seq(T),
           Len(ids) + Len(s) <= MaxContext
    PROVE  ids \o s \in TargetContext
<1>1. s \in Seq(TargetToken)
  OBVIOUS
<1>2. ids \o s \in Seq(TargetToken) /\ Len(ids \o s) = Len(ids) + Len(s)
  BY <1>1
<1>3. ids \o s \in BoundedSeq(TargetToken, MaxContext)
  BY <1>2, VocabAssumption, InContexts
<1> QED BY <1>3 DEF TargetContext

LEMMA Unrolled ==
    ASSUME NEW n \in Nat, NEW ids \in Seq(TargetToken), Len(ids) + n <= MaxContext,
           NEW T \in SUBSET TargetToken, NEW pick \in [TargetContext -> T]
    PROVE  \E g : Unrolls(g, n, ids, pick, T)
<1> DEFINE S == {s \in Seq(T) : Len(s) <= n}
           extend == [s \in S |-> IF Len(s) < n THEN Append(s, pick[ids \o s]) ELSE s]
           next == [i \in 1 .. n |-> extend]
<1>1. MaxContext \in Nat
  BY VocabAssumption
<1>2. ASSUME NEW s \in S PROVE ids \o s \in TargetContext
  BY <1>1, ContextFits
<1>3. ASSUME NEW s \in S, Len(s) < n
      PROVE  /\ Append(s, pick[ids \o s]) \in S
             /\ Len(Append(s, pick[ids \o s])) = Len(s) + 1
  <2>1. pick[ids \o s] \in T
    BY <1>2
  <2> QED BY <1>3, <2>1
<1>4. extend \in [S -> S]
  <2> SUFFICES ASSUME NEW s \in S
               PROVE  (IF Len(s) < n THEN Append(s, pick[ids \o s]) ELSE s) \in S
    OBVIOUS
  <2> QED BY <1>3
<1>5. << >> \in S
  OBVIOUS
<1>6. \E f \in [0 .. n -> S] : Iterates(f, n, << >>, next)
  <2>1. next \in [1 .. n -> [S -> S]]
    <3> HIDE DEF S, extend
    <3> QED BY <1>4
  <2> HIDE DEF S, next
  <2> QED BY <1>5, <2>1, RecursionOver
<1>14. PICK f \in [0 .. n -> S] : f[0] = << >> /\ \A i \in 1 .. n : f[i] = extend[f[i - 1]]
  <2> HIDE DEF S, extend
  <2> QED BY <1>6 DEF Iterates
<1> DEFINE Q == {i \in Nat : i <= n => Len(f[i]) = i}
<1>7. 0 \in Q
  BY <1>14
<1>8. ASSUME NEW i \in Nat, i \in Q PROVE i + 1 \in Q
  <2> SUFFICES ASSUME i + 1 <= n PROVE Len(f[i + 1]) = i + 1
    OBVIOUS
  <2>1. i \in 0 .. n /\ i + 1 \in 1 .. n /\ (i + 1) - 1 = i /\ Len(f[i]) = i /\ f[i] \in S
    BY <1>8
  <2>2. f[i + 1] = extend[f[i]]
    BY <1>14, <2>1
  <2>3. PICK s \in S : s = f[i]
    BY <2>1
  <2>4. f[i + 1] = Append(s, pick[ids \o s]) /\ Len(s) = i /\ Len(s) < n
    BY <2>1, <2>2, <2>3
  <2>5. Len(f[i + 1]) = Len(s) + 1
    <3> HIDE DEF S
    <3> QED BY <1>3, <2>4
  <2> QED BY <2>4, <2>5
<1>9. \A i \in Nat : i \in Q
  <2> HIDE DEF Q
  <2> QED BY <1>7, <1>8, InductiveSet
<1>10. \A i \in 0 .. n : Len(f[i]) = i /\ f[i] \in S
  BY <1>9
<1>11. ASSUME NEW i \in 1 .. n
       PROVE  /\ ids \o f[i - 1] \in TargetContext
              /\ f[i] = Append(f[i - 1], pick[ids \o f[i - 1]])
  <2>1. i - 1 \in 0 .. n /\ Len(f[i - 1]) < n /\ f[i - 1] \in S
    BY <1>10
  <2>2. f[i] = extend[f[i - 1]]
    BY <1>14
  <2> QED BY <1>2, <2>1, <2>2
<1>12. f \in [0 .. n -> Seq(T)]
  BY <1>14
<1>13. Unrolls(f, n, ids, pick, T)
  <2> HIDE DEF S, extend
  <2> QED BY <1>14, <1>10, <1>11, <1>12 DEF Unrolls
<1> QED BY <1>13

(* It is the one solution of its equations.                                *)
LEMMA OneUnrolling ==
    ASSUME NEW n \in Nat, NEW ids, NEW T, NEW pick, NEW g, Unrolls(g, n, ids, pick, T),
           NEW h, h[0] = << >>,
           \A i \in 1 .. n : ids \o h[i - 1] \in TargetContext =>
                               h[i] = Append(h[i - 1], pick[ids \o h[i - 1]])
    PROVE  h[n] = g[n]
<1> DEFINE Q == {i \in Nat : i <= n => h[i] = g[i]}
<1>1. 0 \in Q
  BY DEF Unrolls
<1>2. ASSUME NEW i \in Nat, i \in Q PROVE i + 1 \in Q
  <2> SUFFICES ASSUME i + 1 <= n PROVE h[i + 1] = g[i + 1]
    OBVIOUS
  <2>1. i + 1 \in 1 .. n /\ (i + 1) - 1 = i /\ h[i] = g[i]
    BY <1>2
  <2>2. ids \o g[i] \in TargetContext /\ g[i + 1] = Append(g[i], pick[ids \o g[i]])
    BY <2>1 DEF Unrolls
  <2> QED BY <2>1, <2>2
<1>3. \A i \in Nat : i \in Q
  <2> HIDE DEF Q
  <2> QED BY <1>1, <1>2, InductiveSet
<1> QED BY <1>3

LEMMA AppendConcat ==
    ASSUME NEW S, NEW s \in Seq(S), NEW t \in Seq(S), NEW x \in S
    PROVE  s \o Append(t, x) = Append(s \o t, x)
<1> DEFINE u == Append(t, x)
           v == s \o t
           m == Len(s)
           n == Len(t)
<1>1. /\ u \in Seq(S) /\ Len(u) = n + 1 /\ u[n + 1] = x
      /\ \A i \in 1 .. n : u[i] = t[i]
  OBVIOUS
<1>2. /\ v \in Seq(S) /\ Len(v) = m + n
      /\ \A i \in 1 .. m : v[i] = s[i]
      /\ \A i \in m + 1 .. m + n : v[i] = t[i - m]
  OBVIOUS
<1>3. m \in Nat /\ n \in Nat
  OBVIOUS
<1> HIDE DEF u, v
<1>4. /\ s \o u \in Seq(S) /\ Len(s \o u) = m + n + 1
      /\ \A i \in 1 .. m : (s \o u)[i] = s[i]
      /\ \A i \in m + 1 .. m + n + 1 : (s \o u)[i] = u[i - m]
  <2>1. s \o u \in Seq(S) /\ Len(s \o u) = m + Len(u)
    BY <1>1
  <2>2. \A i \in 1 .. m + Len(u) : (s \o u)[i] = IF i <= m THEN s[i] ELSE u[i - m]
    BY <1>1
  <2> HIDE DEF m, n
  <2> QED BY <1>1, <1>3, <2>1, <2>2
<1>5. /\ Append(v, x) \in Seq(S) /\ Len(Append(v, x)) = m + n + 1
      /\ \A i \in 1 .. m + n : Append(v, x)[i] = v[i]
      /\ Append(v, x)[m + n + 1] = x
  <2> HIDE DEF m, n
  <2> QED BY <1>2, <1>3
<1> HIDE DEF m, n
<1>6. ASSUME NEW i \in 1 .. m + n + 1
      PROVE  (s \o u)[i] = Append(v, x)[i]
  <2>1. CASE i <= m
    <3>1. i \in 1 .. m /\ i \in 1 .. m + n
      BY <1>3, <2>1
    <3> QED BY <1>2, <1>4, <1>5, <3>1
  <2>2. CASE i > m /\ i <= m + n
    <3>1. i \in m + 1 .. m + n /\ i \in m + 1 .. m + n + 1 /\ i \in 1 .. m + n /\ i - m \in 1 .. n
      BY <1>3, <2>2
    <3> QED BY <1>1, <1>2, <1>4, <1>5, <3>1
  <2>3. CASE i = m + n + 1
    <3>1. i - m = n + 1 /\ i \in m + 1 .. m + n + 1
      BY <1>3, <2>3
    <3> QED BY <1>1, <1>4, <1>5, <2>3, <3>1
  <2>4. i <= m \/ (i > m /\ i <= m + n) \/ i = m + n + 1
    BY <1>3
  <2> QED BY <2>1, <2>2, <2>3, <2>4
<1>7. s \o u = Append(v, x)
  BY <1>4, <1>5, <1>6, SeqExt
<1> QED BY <1>7 DEF u, v

LEMMA ConcatTail ==
    ASSUME NEW S, NEW s \in Seq(S), NEW t \in Seq(S)
    PROVE  \A j \in 1 .. Len(t) : (s \o t)[Len(s) + j] = t[j]
OBVIOUS

\* The continuation by pick follows the output, as far as this goes.
Follows(g) ==
    \A i \in 0 .. n_new : /\ SubSeq(generated, 1, prompt_len + i) = call.input_ids \o g[i]
                          /\ g[i] = SubSeq(generated, prompt_len + 1, prompt_len + i)

(* If every emitted token is what pick says after the tokens before it,    *)
(* output and continuation agree.                                          *)
LEMMA OutputUnrolls ==
    ASSUME IndInv, pc # "prefill", NEW n \in Nat, n_new <= n,
           NEW T \in SUBSET TargetToken, NEW pick, NEW g,
           Unrolls(g, n, call.input_ids, pick, T),
           \A i \in 1 .. n_new :
             pick[SubSeq(generated, 1, prompt_len + i - 1)] = generated[prompt_len + i]
    PROVE  Follows(g)
<1>1. /\ generated \in Seq(TargetToken) /\ n_new \in Nat
      /\ call.input_ids \in Seq(TargetToken) /\ prompt_len \in Nat
      /\ Len(call.input_ids) = prompt_len
      /\ Len(generated) = prompt_len + n_new
      /\ \A i \in 1 .. prompt_len : generated[i] = call.input_ids[i]
  BY CallFacts DEF IndInv, TypeOK, OutputShape, prompt_len
<1>2. \A i \in 0 .. n : g[i] \in Seq(TargetToken) /\ Len(g[i]) = i
  BY DEF Unrolls
<1> DEFINE Q == {i \in Nat : i <= n_new =>
                   SubSeq(generated, 1, prompt_len + i) = call.input_ids \o g[i]}
<1>3. 0 \in Q
  <2>1. g[0] = << >>
    BY DEF Unrolls
  <2>2. /\ SubSeq(generated, 1, prompt_len) \in Seq(TargetToken)
        /\ Len(SubSeq(generated, 1, prompt_len)) = prompt_len
        /\ \A i \in 1 .. prompt_len : SubSeq(generated, 1, prompt_len)[i] = generated[i]
    BY <1>1
  <2>3. SubSeq(generated, 1, prompt_len) = call.input_ids
    BY <1>1, <2>2, SeqExt
  <2>4. call.input_ids \o << >> = call.input_ids
    BY <1>1
  <2>5. prompt_len + 0 = prompt_len
    BY <1>1
  <2> QED BY <2>1, <2>3, <2>4, <2>5
<1>4. ASSUME NEW i \in Nat, i \in Q PROVE i + 1 \in Q
  <2> SUFFICES ASSUME i + 1 <= n_new
               PROVE  SubSeq(generated, 1, prompt_len + (i + 1)) = call.input_ids \o g[i + 1]
    <3>1. i + 1 \in Nat
      OBVIOUS
    <3> QED BY <3>1
  <2>1. /\ i + 1 \in 1 .. n /\ (i + 1) - 1 = i /\ i \in 0 .. n /\ i + 1 \in 1 .. n_new
        /\ prompt_len + (i + 1) - 1 = prompt_len + i
        /\ prompt_len + i \in Nat /\ prompt_len + (i + 1) \in 1 .. Len(generated)
    BY <1>1
  <2>2. SubSeq(generated, 1, prompt_len + i) = call.input_ids \o g[i]
    <3>1. i <= n_new
      BY <1>1
    <3> QED BY <1>4, <3>1
  <2>3. g[i + 1] = Append(g[i], pick[call.input_ids \o g[i]])
    BY <2>1 DEF Unrolls
  <2>4. pick[call.input_ids \o g[i]] = generated[prompt_len + (i + 1)]
    BY <2>1, <2>2
  <2>5. g[i + 1] = Append(g[i], generated[prompt_len + (i + 1)])
    BY <2>3, <2>4
  <2>6. SubSeq(generated, 1, prompt_len + (i + 1))
          = Append(SubSeq(generated, 1, prompt_len + i), generated[prompt_len + (i + 1)])
    BY <1>1, <2>1
  <2>7. generated[prompt_len + (i + 1)] \in TargetToken /\ g[i] \in Seq(TargetToken)
    BY <1>1, <1>2, <2>1
  <2>8. call.input_ids \o Append(g[i], generated[prompt_len + (i + 1)])
          = Append(call.input_ids \o g[i], generated[prompt_len + (i + 1)])
    <3>1. call.input_ids \in Seq(TargetToken)
      BY <1>1
    <3>2. PICK a, b, x : /\ a = call.input_ids /\ b = g[i]
                         /\ x = generated[prompt_len + (i + 1)]
      OBVIOUS
    <3>3. a \in Seq(TargetToken) /\ b \in Seq(TargetToken) /\ x \in TargetToken
      BY <2>7, <3>1, <3>2
    <3>4. a \o Append(b, x) = Append(a \o b, x)
      BY <3>3, AppendConcat
    <3> QED BY <3>2, <3>4
  <2> QED BY <2>2, <2>5, <2>6, <2>8
<1>5. \A i \in Nat : i \in Q
  <2> HIDE DEF Q
  <2> QED BY <1>3, <1>4, InductiveSet
<1>6. ASSUME NEW i \in 0 .. n_new
      PROVE  /\ SubSeq(generated, 1, prompt_len + i) = call.input_ids \o g[i]
             /\ g[i] = SubSeq(generated, prompt_len + 1, prompt_len + i)
  <2>1. i \in Nat /\ i <= n_new /\ i \in 0 .. n
    BY <1>1
  <2>2. SubSeq(generated, 1, prompt_len + i) = call.input_ids \o g[i]
    BY <1>5, <2>1
  <2>3. g[i] \in Seq(TargetToken) /\ Len(g[i]) = i
    BY <1>2, <2>1
  <2>4. PICK whole : whole = call.input_ids \o g[i]
    OBVIOUS
  <2>5. \A j \in 1 .. i : whole[prompt_len + j] = g[i][j]
    <3> call.input_ids \in Seq(TargetToken) /\ Len(call.input_ids) = prompt_len
      BY <1>1
    <3>1. \A j \in 1 .. Len(g[i]) :
            (call.input_ids \o g[i])[Len(call.input_ids) + j] = g[i][j]
      <4>1. PICK a, b : a = call.input_ids /\ b = g[i]
        OBVIOUS
      <4>2. a \in Seq(TargetToken) /\ b \in Seq(TargetToken)
        BY <2>3, <4>1
      <4>3. \A j \in 1 .. Len(b) : (a \o b)[Len(a) + j] = b[j]
        BY <4>2, ConcatTail
      <4> QED BY <4>1, <4>3
    <3> QED BY <2>3, <2>4, <3>1
  <2>6. \A j \in 1 .. i : generated[prompt_len + j] = whole[prompt_len + j]
    <3> SUFFICES ASSUME NEW j \in 1 .. i PROVE generated[prompt_len + j] = whole[prompt_len + j]
      OBVIOUS
    <3>1. prompt_len + j \in 1 .. prompt_len + i /\ prompt_len + i <= Len(generated)
      BY <1>1, <2>1
    <3>2. SubSeq(generated, 1, prompt_len + i)[prompt_len + j] = generated[prompt_len + j]
      BY <1>1, <3>1
    <3> QED BY <2>2, <2>4, <3>2
  <2>7. PICK new : new = SubSeq(generated, prompt_len + 1, prompt_len + i)
    OBVIOUS
  <2>8. /\ new \in Seq(TargetToken) /\ Len(new) = i
        /\ \A j \in 1 .. i : new[j] = generated[prompt_len + j]
    BY <1>1, <2>1, <2>7
  <2>9. g[i] = new
    BY <2>3, <2>5, <2>6, <2>8, SeqExt
  <2> QED BY <2>2, <2>7, <2>9
<1> QED BY <1>6 DEF Follows

(* plain_new is such a continuation, by the picks outside EosIds.          *)
PlainPicks(c) == [x \in TargetContext |-> TargetPickNotEos(c.target, x)]

LEMMA PlainUnrolls ==
    ASSUME NEW c \in Calls
    PROVE  \E g : /\ Unrolls(g, c.max_new_tokens, c.input_ids, PlainPicks(c),
                             TargetToken \ EosIds)
                  /\ PlainContinuation(c) = g[c.max_new_tokens]
<1> DEFINE n == c.max_new_tokens
           ids == c.input_ids
           pick == PlainPicks(c)
           T == TargetToken \ EosIds
           Equations(h) ==
             h = [i \in 0 .. n |->
                    IF i = 0 THEN << >>
                    ELSE Append(h[i - 1], TargetPickNotEos(c.target, ids \o h[i - 1]))]
<1>1. /\ n \in Nat /\ ids \in Seq(TargetToken) /\ Len(ids) + n <= MaxContext
      /\ c.target \in TargetModels
  BY CallAssumption DEF CallType
<1>2. T \in SUBSET TargetToken /\ pick \in [TargetContext -> T]
  BY <1>1, SuppressAssumption DEF PlainPicks
<1>3. PICK g : Unrolls(g, n, ids, pick, T)
  <2> HIDE DEF n, ids, pick, T
  <2> QED BY <1>1, <1>2, Unrolled
<1>4. Equations(g)
  <2>1. \A i \in 1 .. n : g[i] = Append(g[i - 1], TargetPickNotEos(c.target, ids \o g[i - 1]))
    BY <1>3 DEF Unrolls, PlainPicks
  <2>2. g = [i \in 0 .. n |-> g[i]] /\ g[0] = << >>
    BY <1>3 DEF Unrolls
  <2>3. \A i \in 0 .. n : i # 0 => i \in 1 .. n
    BY <1>1
  <2>4. \A i \in 0 .. n : g[i] = IF i = 0 THEN << >>
          ELSE Append(g[i - 1], TargetPickNotEos(c.target, ids \o g[i - 1]))
    BY <2>1, <2>2, <2>3, Zenon
  <2>5. [i \in 0 .. n |-> g[i]] = [i \in 0 .. n |-> IF i = 0 THEN << >>
          ELSE Append(g[i - 1], TargetPickNotEos(c.target, ids \o g[i - 1]))]
    BY <2>4, Zenon
  <2> QED BY <2>2, <2>5
<1>5. PICK h : h = CHOOSE x : Equations(x)
  OBVIOUS
<1>6. Equations(h)
  <2> HIDE DEF Equations
  <2> QED BY <1>4, <1>5
<1>7. PlainContinuation(c) = h[n]
  BY <1>5 DEF PlainContinuation
<1>8. /\ h[0] = << >>
      /\ \A i \in 1 .. n : ids \o h[i - 1] \in TargetContext =>
                             h[i] = Append(h[i - 1], pick[ids \o h[i - 1]])
  <2>1. \A i \in 0 .. n : h[i] = IF i = 0 THEN << >>
          ELSE Append(h[i - 1], TargetPickNotEos(c.target, ids \o h[i - 1]))
    BY <1>6, Zenon
  <2>2. 0 \in 0 .. n /\ \A i \in 1 .. n : i \in 0 .. n /\ i # 0
    BY <1>1
  <2>3. \A x \in TargetContext : pick[x] = TargetPickNotEos(c.target, x)
    BY DEF PlainPicks
  <2>4. h[0] = << >>
    BY <2>1, <2>2, Zenon
  <2>5. \A i \in 1 .. n : h[i] = Append(h[i - 1], TargetPickNotEos(c.target, ids \o h[i - 1]))
    BY <2>1, <2>2, Zenon
  <2> HIDE DEF n, ids, pick, Equations
  <2> QED BY <2>3, <2>4, <2>5
<1>9. h[n] = g[n]
  <2> HIDE DEF n, ids, pick, T, Equations
  <2>1. /\ h[0] = << >>
        /\ \A i \in 1 .. n : ids \o h[i - 1] \in TargetContext =>
                               h[i] = Append(h[i - 1], pick[ids \o h[i - 1]])
    BY <1>8
  <2>2. n \in Nat /\ Unrolls(g, n, ids, pick, T)
    BY <1>1, <1>3
  <2> QED BY <2>1, <2>2, OneUnrolling
<1> QED BY <1>3, <1>7, <1>9


-----------------------------------------------------------------------------
(* Asked without eos_token_id, the decoder always fills the budget.        *)
LEMMA BudgetFilled ==
    ASSUME IndInv, pc = "returned", call.eos_token_id = NoEos
    PROVE  /\ n_new = call.max_new_tokens /\ ~ hit_eos
           /\ Len(spec_new) = n_new /\ spec_new \in Seq(TargetToken)
           /\ \A i \in 1 .. n_new : spec_new[i] = generated[prompt_len + i]
<1>1. /\ generated \in Seq(TargetToken) /\ n_new \in Nat /\ hit_eos \in BOOLEAN
      /\ prompt_len \in Nat \ {0} /\ Len(generated) = prompt_len + n_new
      /\ Len(call.input_ids) = prompt_len
  BY CallFacts DEF IndInv, TypeOK, OutputShape, prompt_len
<1>2. Last(generated) \in TargetToken
  BY <1>1 DEF Last
<1>3. n_new = call.max_new_tokens /\ ~ hit_eos
  BY <1>1, <1>2, VocabAssumption DEF IndInv, EosShape
<1>4. /\ Len(spec_new) = n_new /\ spec_new \in Seq(TargetToken)
      /\ \A i \in 1 .. n_new : spec_new[i] = generated[prompt_len + i]
  BY <1>1 DEF spec_new
<1> QED BY <1>3, <1>4

\* The emitted tokens are the target's picks, all within its window.
LEMMA EmittedPicks ==
    ASSUME IndInv, pc # "prefill", NEW i \in 1 .. n_new
    PROVE  LET context == SubSeq(generated, 1, prompt_len + i - 1)
           IN  /\ context \in TargetContext
               /\ generated[prompt_len + i] = TargetPick(call.target, context)
<1>1. /\ generated \in Seq(TargetToken) /\ n_new \in Nat
      /\ prompt_len \in Nat \ {0} /\ Len(generated) = prompt_len + n_new
      /\ Len(call.input_ids) = prompt_len /\ n_new <= call.max_new_tokens
      /\ call.max_new_tokens \in Nat /\ prompt_len + call.max_new_tokens <= MaxContext
      /\ MaxContext \in Nat
  BY CallFacts DEF IndInv, TypeOK, OutputShape, prompt_len
<1>2. PICK context : context = SubSeq(generated, 1, prompt_len + i - 1)
  OBVIOUS
<1>3. context \in Seq(TargetToken) /\ Len(context) <= MaxContext
  BY <1>1, <1>2
<1>4. context \in TargetContext
  BY <1>1, <1>3, InContexts DEF TargetContext
<1>5. prompt_len + i \in Len(call.input_ids) + 1 .. Len(generated)
  BY <1>1
<1>6. generated[prompt_len + i] = TargetPick(call.target, context)
  <2>1. generated[prompt_len + i]
          = TargetArgmax(SubSeq(generated, 1, prompt_len + i - 1))
    <3>1. \A j \in Len(call.input_ids) + 1 .. Len(generated) :
            generated[j] = TargetArgmax(SubSeq(generated, 1, j - 1))
      BY DEF IndInv, OutputIsGreedy
    <3>2. PICK j : j = prompt_len + i
      OBVIOUS
    <3>3. generated[j] = TargetArgmax(SubSeq(generated, 1, j - 1))
      BY <1>5, <3>1, <3>2
    <3>4. j - 1 = prompt_len + i - 1
      BY <1>1, <3>2
    <3> QED BY <3>2, <3>3, <3>4
  <2> QED BY <1>2, <2>1 DEF TargetArgmax
<1> QED BY <1>2, <1>4, <1>6

(* What the comparison tells: plain and speculative output differ exactly  *)
(* when the target picked an EOS id.                                       *)
LEMMA ComparisonTells ==
    ASSUME IndInv, pc = "returned", call.eos_token_id = NoEos
    PROVE  PlainContinuation(call) = spec_new
             <=> ~ \E i \in 1 .. Len(spec_new) : spec_new[i] \in EosIds
<1> DEFINE n == call.max_new_tokens
           T == TargetToken \ EosIds
           pick == PlainPicks(call)
<1>1. /\ n_new = n /\ n \in Nat /\ call \in Calls
      /\ call.target \in TargetModels /\ prompt_len \in Nat
      /\ Len(spec_new) = n_new
      /\ \A i \in 1 .. n_new : spec_new[i] = generated[prompt_len + i]
  BY BudgetFilled, CallFacts, CallAssumption DEF IndInv, TypeOK, CallType
<1>2. PICK g : /\ Unrolls(g, n, call.input_ids, pick, T)
               /\ PlainContinuation(call) = g[n]
  BY <1>1, PlainUnrolls
<1>3. g[n] \in Seq(T) /\ Len(g[n]) = n
  BY <1>1, <1>2 DEF Unrolls
<1>4. ASSUME PlainContinuation(call) = spec_new, NEW i \in 1 .. Len(spec_new)
      PROVE  spec_new[i] \notin EosIds
  <2>1. spec_new \in Seq(T)
    BY <1>2, <1>3, <1>4
  <2>2. spec_new[i] \in T
    <3> HIDE DEF T
    <3> QED BY <2>1
  <2> QED BY <2>2
<1>5. ASSUME \A i \in 1 .. Len(spec_new) : spec_new[i] \notin EosIds
      PROVE  PlainContinuation(call) = spec_new
  <2>1. ASSUME NEW i \in 1 .. n_new
        PROVE  pick[SubSeq(generated, 1, prompt_len + i - 1)] = generated[prompt_len + i]
    <3>1. PICK context : context = SubSeq(generated, 1, prompt_len + i - 1)
      OBVIOUS
    <3>2. /\ context \in TargetContext
          /\ generated[prompt_len + i] = TargetPick(call.target, context)
      BY <3>1, EmittedPicks
    <3>3. TargetPick(call.target, context) \notin EosIds
      BY <1>1, <1>5, <3>2
    <3>4. pick[context] = TargetPick(call.target, context)
      BY <1>1, <3>2, <3>3, SuppressAssumption DEF PlainPicks
    <3> QED BY <3>1, <3>2, <3>4
  <2>2. T \in SUBSET TargetToken /\ n_new <= n /\ pc # "prefill"
    BY <1>1
  <2>3. Follows(g)
    <3> HIDE DEF T, pick, n
    <3> QED BY <1>1, <1>2, <2>1, <2>2, OutputUnrolls
  <2>4. g[n_new] = SubSeq(generated, prompt_len + 1, prompt_len + n_new)
    <3>1. n_new \in 0 .. n_new
      BY <1>1
    <3> QED BY <2>3, <3>1, Zenon DEF Follows
  <2>5. Len(generated) = prompt_len + n_new
    BY DEF IndInv, OutputShape
  <2> QED BY <1>1, <1>2, <2>4, <2>5 DEF spec_new, prompt_len
<1> QED BY <1>4, <1>5

-----------------------------------------------------------------------------
(* verify_correctness.py: the current prompt is the call decoded, its      *)
(* plain continuation is at hand while it is, and the verdict so far says  *)
(* that no EOS id was picked.                                              *)
VerifyInv ==
    /\ IndInv /\ VerifyTypeOK
    /\ prompts \in Seq(Calls)
    /\ \A i \in 1 .. Len(prompts) : prompts[i].eos_token_id = NoEos
    /\ step # "exited" => Len(prompts) > 0 /\ call = prompts[1]
    /\ step = "speculative" => plain_new = PlainContinuation(call)
    /\ all_match <=> ~ eos_picked
    /\ step # "exited" <=> exit_status = -1
    /\ step = "exited" /\ pc = "returned" => (exit_status = 0 <=> all_match)

LEMMA EnterStarts ==
    ASSUME NEW c \in Calls, Enter(c)
    PROVE  Init'
BY DEF Enter, Restart, Init, NoStats

LEMMA VerifyStarts == VerifyInit => VerifyInv
<1> SUFFICES ASSUME VerifyInit PROVE VerifyInv
  OBVIOUS
<1>1. IndInv
  BY InitIndInv DEF VerifyInit
<1>2. /\ prompts \in Seq(Calls) /\ Len(prompts) > 0
      /\ \A i \in 1 .. Len(prompts) : prompts[i].eos_token_id = NoEos
      /\ call = prompts[1]
  BY PromptAssumption DEF VerifyInit, Current
<1>3. VerifyTypeOK
  <2>1. << >> \in Seq(TargetToken \ EosIds)
    OBVIOUS
  <2> QED BY <2>1 DEF VerifyInit, VerifyTypeOK
<1> QED BY <1>1, <1>2, <1>3 DEF VerifyInv, VerifyInit

LEMMA PlainGenerateStep == VerifyInv /\ PlainGenerate => VerifyInv'
<1> SUFFICES ASSUME VerifyInv, PlainGenerate PROVE VerifyInv'
  OBVIOUS
<1>1. IndInv'
  BY StutterStep DEF VerifyInv, PlainGenerate
<1>2. /\ step = "plain" /\ step' = "speculative"
      /\ plain_new' = PlainContinuation(Current)
      /\ UNCHANGED <<prompts, all_match, exit_status, eos_picked, call, pc>>
  BY DEF PlainGenerate, vars
<1>3. call = prompts[1] /\ call \in Calls /\ Current = call /\ Len(prompts) > 0
      /\ prompts \in Seq(Calls)
  BY <1>2 DEF VerifyInv, IndInv, TypeOK, Current
<1>4. plain_new' \in Seq(TargetToken \ EosIds)
  <2>1. PICK g : /\ Unrolls(g, call.max_new_tokens, call.input_ids, PlainPicks(call),
                            TargetToken \ EosIds)
                 /\ PlainContinuation(call) = g[call.max_new_tokens]
    BY <1>3, PlainUnrolls
  <2>2. call.max_new_tokens \in Nat
    BY <1>3, CallFacts
  <2>3. g[call.max_new_tokens] \in Seq(TargetToken \ EosIds)
    BY <2>1, <2>2 DEF Unrolls
  <2> QED BY <1>2, <1>3, <2>1, <2>3
<1>5. VerifyTypeOK'
  BY <1>2, <1>4 DEF VerifyInv, VerifyTypeOK
<1>6. PlainContinuation(call)' = PlainContinuation(call)
  BY <1>2 DEF PlainContinuation
<1> QED BY <1>1, <1>2, <1>3, <1>5, <1>6 DEF VerifyInv

LEMMA SpeculateStep == VerifyInv /\ Speculate => VerifyInv'
<1> SUFFICES ASSUME VerifyInv, Speculate PROVE VerifyInv'
  OBVIOUS
<1>1. IndInv'
  BY NextIndInv DEF VerifyInv, Speculate
<1>2. /\ step = "speculative"
      /\ UNCHANGED <<prompts, step, plain_new, all_match, exit_status, eos_picked>>
  BY DEF Speculate, harness
<1>3. call' = call
  BY DEF Speculate, Next, Prefill, StartRound, ExitLoop, DraftOne, CatOfNothing, Verify,
         AcceptOne, EmitAll, EmitThroughEos, Emit, Fold, Finished, vars
<1>4. PlainContinuation(call)' = PlainContinuation(call)
  BY <1>3 DEF PlainContinuation
<1>5. VerifyTypeOK'
  BY <1>2 DEF VerifyInv, VerifyTypeOK
<1> QED BY <1>1, <1>2, <1>3, <1>4, <1>5 DEF VerifyInv

LEMMA CompareStep == VerifyInv /\ Compare => VerifyInv'
<1> SUFFICES ASSUME VerifyInv, Compare PROVE VerifyInv'
  OBVIOUS
<1>1. /\ step = "speculative" /\ pc = "returned" /\ exit_status = -1
      /\ call = prompts[1] /\ prompts \in Seq(Calls) /\ Len(prompts) > 0
      /\ plain_new = PlainContinuation(call)
      /\ all_match \in BOOLEAN /\ eos_picked \in BOOLEAN /\ (all_match <=> ~ eos_picked)
      /\ plain_new \in Seq(TargetToken \ EosIds)
      /\ IndInv
      /\ \A i \in 1 .. Len(prompts) : prompts[i].eos_token_id = NoEos
  BY DEF Compare, VerifyInv, VerifyTypeOK
<1>2. plain_new = spec_new <=> ~ \E i \in 1 .. Len(spec_new) : spec_new[i] \in EosIds
  BY <1>1, ComparisonTells
<1>3. /\ all_match' = Verdict
      /\ eos_picked' = (eos_picked \/ \E i \in 1 .. Len(spec_new) : spec_new[i] \in EosIds)
      /\ prompts' = Tail(prompts) /\ plain_new' = plain_new
  BY DEF Compare
<1>4. all_match' <=> ~ eos_picked'
  BY <1>1, <1>2, <1>3 DEF Verdict
<1>5. all_match' \in BOOLEAN /\ eos_picked' \in BOOLEAN
  BY <1>1, <1>3 DEF Verdict
<1>6. /\ prompts' \in Seq(Calls) /\ Len(prompts') = Len(prompts) - 1
      /\ \A i \in 1 .. Len(prompts') : prompts'[i] = prompts[i + 1]
  BY <1>1, <1>3
<1>7. \A i \in 1 .. Len(prompts') : prompts'[i].eos_token_id = NoEos
  BY <1>1, <1>6
<1>8. CASE Len(prompts) > 1
  <2>1. step' = "plain" /\ exit_status' = -1 /\ Enter(prompts[2])
    BY <1>1, <1>8 DEF Compare
  <2>2. prompts[2] \in Calls
    BY <1>1, <1>8
  <2>3. Init'
    BY <2>1, <2>2, EnterStarts
  <2>4. IndInv'
    <3>1. Init' => IndInv'
      BY InitIndInv, PTL
    <3> QED BY <2>3, <3>1
  <2>5. Len(prompts') > 0 /\ call' = prompts'[1]
    BY <1>1, <1>6, <1>8, <2>1 DEF Enter, Restart
  <2>6. VerifyTypeOK'
    BY <1>1, <1>3, <1>5, <2>1 DEF VerifyTypeOK
  <2> QED BY <1>4, <1>6, <1>7, <2>1, <2>4, <2>5, <2>6 DEF VerifyInv
<1>9. CASE ~ (Len(prompts) > 1)
  <2>1. /\ step' = "exited" /\ exit_status' = (IF Verdict THEN 0 ELSE 1)
        /\ UNCHANGED vars
    BY <1>1, <1>9 DEF Compare
  <2>2. IndInv'
    BY <1>1, <2>1, StutterStep
  <2>3. VerifyTypeOK'
    BY <1>1, <1>3, <1>5, <2>1 DEF VerifyTypeOK
  <2>4. exit_status' # -1 /\ (exit_status' = 0 <=> all_match')
    BY <1>3, <2>1
  <2> QED BY <1>4, <1>6, <1>7, <2>1, <2>2, <2>3, <2>4 DEF VerifyInv
<1> QED BY <1>8, <1>9

LEMMA CrashStep == VerifyInv /\ Crash => VerifyInv'
<1> SUFFICES ASSUME VerifyInv, Crash PROVE VerifyInv'
  OBVIOUS
<1>1. IndInv'
  BY StutterStep DEF VerifyInv, Crash
<1>2. /\ step' = "exited" /\ exit_status' = 1 /\ pc' = "raised"
      /\ UNCHANGED <<prompts, plain_new, all_match, eos_picked>>
  BY DEF Crash, vars
<1>3. VerifyTypeOK'
  BY <1>2 DEF VerifyInv, VerifyTypeOK
<1> QED BY <1>1, <1>2, <1>3 DEF VerifyInv

LEMMA VerifyStutter == VerifyInv /\ UNCHANGED allvars => VerifyInv'
<1> SUFFICES ASSUME VerifyInv, UNCHANGED allvars PROVE VerifyInv'
  OBVIOUS
<1>1. IndInv'
  BY StutterStep DEF VerifyInv, allvars
<1>2. UNCHANGED <<prompts, step, plain_new, all_match, exit_status, eos_picked, call, pc>>
  BY DEF allvars, harness, vars
<1>3. PlainContinuation(call)' = PlainContinuation(call)
  BY <1>2 DEF PlainContinuation
<1>4. VerifyTypeOK'
  BY <1>2 DEF VerifyInv, VerifyTypeOK
<1> QED BY <1>1, <1>2, <1>3, <1>4 DEF VerifyInv

LEMMA VerifyInvStep == VerifyInv /\ [VerifyNext]_allvars => VerifyInv'
BY PlainGenerateStep, SpeculateStep, CompareStep, CrashStep, VerifyStutter
DEF VerifyNext, Exited

LEMMA VerifyInvHolds == VerifySpec => []VerifyInv
BY VerifyInvStep, VerifyStarts, PTL DEF VerifySpec

(* Plain generation never holds a suppressed id, whatever the target and   *)
(* the prompts (min_new_tokens of verify_correctness.py).                  *)
THEOREM VerifyTypes == VerifySpec => []VerifyTypeOK
<1>1. VerifyInv => VerifyTypeOK
  BY DEF VerifyInv
<1> QED BY <1>1, VerifyInvHolds, PTL

(* The exit status of verify_correctness.py says whether any target picked *)
(* an EOS id on any prompt, and nothing else about the decoder.            *)
THEOREM VerdictMeansEosFree == VerifySpec => []VerdictIsEosFree
<1>1. VerifyInv => VerdictIsEosFree
  BY DEF VerifyInv, VerdictIsEosFree, VerifyTypeOK
<1> QED BY <1>1, VerifyInvHolds, PTL


-----------------------------------------------------------------------------
(* The prompts benchmark.py selects are catalogue entries of measured ids, *)
(* each id once.                                                           *)
Selection(c, all) ==
    /\ c \in Seq(Range(all))
    /\ \A i \in 1 .. Len(c) : c[i].id \in BENCH_PROMPT_IDS
    /\ \A i, j \in 1 .. Len(c) : c[i].id = c[j].id => i = j

\* The same of the first m entries of the catalogue.
SelectionOf(c, all, m) ==
    /\ Selection(c, all)
    /\ \A i \in 1 .. Len(c) : \E j \in 1 .. m : c[i] = all[j]

\* Chosen's local function.
Keeps(k, all) ==
    k = [i \in 0 .. Len(all) |->
           IF i = 0 THEN << >>
           ELSE IF all[i].id \in BENCH_PROMPT_IDS
                THEN Append(k[i - 1], all[i])
                ELSE k[i - 1]]

LEMMA KeepsExists ==
    ASSUME NEW all, NEW R, all \in Seq(R)
    PROVE  \E k : Keeps(k, all)
<1> DEFINE n == Len(all)
           S == Seq(R)
           next == [i \in 1 .. n |-> [s \in S |->
                      IF all[i].id \in BENCH_PROMPT_IDS THEN Append(s, all[i]) ELSE s]]
<1>1. n \in Nat /\ << >> \in S /\ \A i \in 1 .. n : all[i] \in R
  OBVIOUS
<1>2. ASSUME NEW i \in 1 .. n, NEW s \in S
      PROVE  (IF all[i].id \in BENCH_PROMPT_IDS THEN Append(s, all[i]) ELSE s) \in S
  BY <1>1
<1>3. next \in [1 .. n -> [S -> S]]
  <2> HIDE DEF S, n
  <2> QED BY <1>2
<1>4. \E f \in [0 .. n -> S] : Iterates(f, n, << >>, next)
  <2> HIDE DEF S, next, n
  <2> QED BY <1>1, <1>3, RecursionOver
<1>5. PICK f \in [0 .. n -> S] :
        f[0] = << >> /\ \A i \in 1 .. n : f[i] = next[i][f[i - 1]]
  <2> HIDE DEF S, next
  <2> QED BY <1>4 DEF Iterates
<1>6. ASSUME NEW i \in 0 .. n
      PROVE  f[i] = IF i = 0 THEN << >>
                    ELSE IF all[i].id \in BENCH_PROMPT_IDS
                         THEN Append(f[i - 1], all[i])
                         ELSE f[i - 1]
  <2>1. CASE i = 0
    BY <1>5, <2>1
  <2>2. CASE i # 0
    <3>1. i \in 1 .. n /\ i - 1 \in 0 .. n
      BY <1>1, <2>2
    <3>2. f[i - 1] \in S
      BY <3>1
    <3>3. f[i] = next[i][f[i - 1]]
      BY <1>5, <3>1
    <3> HIDE DEF S
    <3> QED BY <2>2, <3>1, <3>2, <3>3
  <2> QED BY <2>1, <2>2
<1>7. Keeps(f, all)
  <2>1. f = [i \in 0 .. n |-> f[i]]
    OBVIOUS
  <2>2. [i \in 0 .. n |-> f[i]] = [i \in 0 .. n |->
           IF i = 0 THEN << >>
           ELSE IF all[i].id \in BENCH_PROMPT_IDS
                THEN Append(f[i - 1], all[i])
                ELSE f[i - 1]]
    BY <1>6, Zenon
  <2> QED BY <2>1, <2>2 DEF Keeps
<1> QED BY <1>7

LEMMA ChosenSelects ==
    ASSUME NEW s \in Scripts
    PROVE  Selection(Chosen(s.all), s.all)
<1>1. PICK all : all = s.all
  OBVIOUS
<1>2. /\ all \in Seq(Range(all))
      /\ \A i, j \in 1 .. Len(all) : all[i].id = all[j].id => i = j
  BY <1>1, ScriptAssumption
<1>3. \E x : Keeps(x, all)
  BY <1>2, KeepsExists
<1>4. PICK k : k = CHOOSE x : Keeps(x, all)
  OBVIOUS
<1>5. Keeps(k, all)
  BY <1>3, <1>4, Zenon
<1>6. Chosen(all) = k[Len(all)]
  BY <1>4, Zenon DEF Chosen, Keeps
<1> DEFINE n == Len(all)
           Q == {i \in Nat : i <= n => SelectionOf(k[i], all, i)}
<1>7. n \in Nat /\ \A i \in 1 .. n : all[i] \in Range(all)
  BY <1>2
<1>8. /\ k[0] = << >>
      /\ \A i \in 1 .. n : k[i] = IF all[i].id \in BENCH_PROMPT_IDS
                                  THEN Append(k[i - 1], all[i]) ELSE k[i - 1]
  <2>1. \A i \in 0 .. n : k[i] = IF i = 0 THEN << >>
           ELSE IF all[i].id \in BENCH_PROMPT_IDS
                THEN Append(k[i - 1], all[i])
                ELSE k[i - 1]
    BY <1>5, Zenon DEF Keeps
  <2>2. 0 \in 0 .. n /\ \A i \in 1 .. n : i \in 0 .. n /\ i # 0
    BY <1>7
  <2> HIDE DEF n
  <2> QED BY <2>1, <2>2, Zenon
<1>9. 0 \in Q
  <2>1. << >> \in Seq(Range(all)) /\ Len(<< >>) = 0
    OBVIOUS
  <2>2. SelectionOf(<< >>, all, 0)
    BY <2>1 DEF SelectionOf, Selection
  <2> QED BY <1>8, <2>2
<1>10. ASSUME NEW i \in Nat, i \in Q PROVE i + 1 \in Q
  <2> SUFFICES ASSUME i + 1 <= n PROVE SelectionOf(k[i + 1], all, i + 1)
    <3>1. i + 1 \in Nat
      OBVIOUS
    <3> QED BY <3>1
  <2>1. SelectionOf(k[i], all, i)
    <3>1. i <= n
      BY <1>7
    <3> HIDE DEF n
    <3> QED BY <1>10, <3>1
  <2>2. /\ i + 1 \in 1 .. n /\ (i + 1) - 1 = i
        /\ \A j \in 1 .. i : j \in 1 .. i + 1 /\ j \in 1 .. n /\ j # i + 1
    BY <1>7
  <2>3. PICK c : c = k[i]
    OBVIOUS
  <2>4. PICK p : p = all[i + 1]
    OBVIOUS
  <2>5. /\ c \in Seq(Range(all)) /\ p \in Range(all)
        /\ \A j \in 1 .. Len(c) : c[j].id \in BENCH_PROMPT_IDS
        /\ \A j, l \in 1 .. Len(c) : c[j].id = c[l].id => j = l
        /\ \A j \in 1 .. Len(c) : \E l \in 1 .. i : c[j] = all[l]
    BY <1>7, <2>1, <2>2, <2>3, <2>4 DEF SelectionOf, Selection
  <2>6. k[i + 1] = IF p.id \in BENCH_PROMPT_IDS THEN Append(c, p) ELSE c
    BY <1>8, <2>2, <2>3, <2>4
  <2> HIDE DEF n
  <2>7. CASE p.id \notin BENCH_PROMPT_IDS
    <3>1. k[i + 1] = c
      BY <2>6, <2>7
    <3>2. \A j \in 1 .. Len(c) : \E l \in 1 .. i + 1 : c[j] = all[l]
      BY <2>2, <2>5
    <3> QED BY <2>5, <3>1, <3>2 DEF SelectionOf, Selection
  <2>8. CASE p.id \in BENCH_PROMPT_IDS
    <3>1. PICK d : d = Append(c, p)
      OBVIOUS
    <3>2. /\ d \in Seq(Range(all)) /\ Len(d) = Len(c) + 1 /\ Len(c) \in Nat
          /\ (\A j \in 1 .. Len(c) : d[j] = c[j]) /\ d[Len(c) + 1] = p
      BY <2>5, <3>1
    <3>3. \A j \in 1 .. Len(d) : j \in 1 .. Len(c) \/ j = Len(c) + 1
      BY <3>2
    <3>4. \A j \in 1 .. Len(d) : d[j].id \in BENCH_PROMPT_IDS
      BY <2>5, <2>8, <3>2, <3>3
    <3>5. \A j \in 1 .. Len(d) : \E l \in 1 .. i + 1 : d[j] = all[l]
      <4>1. i + 1 \in 1 .. i + 1
        OBVIOUS
      <4> QED BY <2>2, <2>4, <2>5, <3>2, <3>3, <4>1
    <3>6. \A j \in 1 .. Len(c) : c[j].id # p.id
      BY <1>2, <2>2, <2>4, <2>5 DEF n
    <3>7. \A j, l \in 1 .. Len(d) : d[j].id = d[l].id => j = l
      BY <2>5, <3>2, <3>3, <3>6
    <3>8. SelectionOf(d, all, i + 1)
      BY <3>2, <3>4, <3>5, <3>7 DEF SelectionOf, Selection
    <3> QED BY <2>6, <2>8, <3>1, <3>8
  <2> QED BY <2>7, <2>8
<1>11. \A i \in Nat : i \in Q
  <2> HIDE DEF Q
  <2> QED BY <1>9, <1>10, InductiveSet
<1>12. SelectionOf(k[n], all, n)
  BY <1>7, <1>11
<1> QED BY <1>1, <1>6, <1>12 DEF SelectionOf

(* As many of them as there are ids: every id is measured.                 *)
LEMMA EveryIdSelected ==
    ASSUME NEW s \in Scripts, NEW c, Selection(c, s.all), Asserted(c)
    PROVE  {c[i].id : i \in 1 .. Len(c)} = BENCH_PROMPT_IDS
<1> DEFINE D == 1 .. Len(c)
           I == {c[i].id : i \in D}
           f == [i \in D |-> c[i].id]
<1>1. Len(c) \in Nat
  BY DEF Selection
<1>2. IsFiniteSet(D) /\ Cardinality(D) = Len(c)
  <2>1. PICK m \in Nat : m = Len(c)
    BY <1>1
  <2>2. /\ IsFiniteSet(1 .. m)
        /\ Cardinality(1 .. m) = IF 1 > m THEN 0 ELSE m - 1 + 1
    BY FS_Interval
  <2>3. Cardinality(1 .. m) = m
    BY <2>2
  <2> QED BY <2>1, <2>2, <2>3
<1>3. f \in Bijection(D, I)
  <2>1. f \in [D -> I] /\ \A i \in D : f[i] = c[i].id
    OBVIOUS
  <2>2. \A i, j \in D : f[i] = f[j] => i = j
    BY DEF Selection
  <2>3. \A x \in I : \E i \in D : f[i] = x
    OBVIOUS
  <2> HIDE DEF D, I, f
  <2> QED BY <2>1, <2>2, <2>3 DEF Bijection, Injection, Surjection, IsInjective
<1>4. IsFiniteSet(I) /\ Cardinality(I) = Len(c)
  <2> HIDE DEF D, I, f
  <2>1. ExistsBijection(D, I)
    BY <1>3 DEF ExistsBijection
  <2> QED BY <1>2, <2>1, FS_Bijection
<1>5. I \subseteq BENCH_PROMPT_IDS
  BY DEF Selection
<1>6. IsFiniteSet(BENCH_PROMPT_IDS) /\ Cardinality(I) = Cardinality(BENCH_PROMPT_IDS)
  BY <1>4, ScriptAssumption DEF Asserted
<1>7. I = BENCH_PROMPT_IDS
  <2> HIDE DEF I
  <2> QED BY <1>5, <1>6, FS_Subset
<1> QED BY <1>7


-----------------------------------------------------------------------------
(* What the target alone would say, and what that costs (Alone, Cost).     *)

LEMMA ScriptFacts ==
    ASSUME script \in Scripts
    PROVE  /\ script.n \in Nat \ {0} /\ script.k \in Nat
           /\ CallOf(script.warmup) \in Calls
           /\ \A p \in Range(script.all) : CallOf(p.ids) \in Calls
<1>1. /\ CallBy(script, script.warmup) \in Calls /\ script.n > 0
      /\ \A p \in Range(script.all) : CallBy(script, p.ids) \in Calls
  BY ScriptAssumption
<1>2. CallBy(script, script.warmup) \in CallType
  BY <1>1, CallAssumption
<1>3. script.n \in Nat /\ script.k \in Nat
  BY <1>2 DEF CallBy, CallType
<1> QED BY <1>1, <1>3 DEF CallOf

AlonePicks(c) == [x \in TargetContext |-> TargetPick(c.target, x)]

LEMMA AloneUnrolls ==
    ASSUME NEW c \in Calls, c = CallOf(c.input_ids)
    PROVE  \E g : /\ Unrolls(g, script.n, c.input_ids, AlonePicks(c), TargetToken)
                  /\ Alone(c.input_ids, script.n) = g[script.n]
<1> DEFINE n == script.n
           ids == c.input_ids
           pick == AlonePicks(c)
           Equations(h) ==
             h = [i \in 0 .. n |->
                    IF i = 0 THEN << >>
                    ELSE Append(h[i - 1], TargetPick(script.target, ids \o h[i - 1]))]
<1>1. /\ n \in Nat /\ ids \in Seq(TargetToken) /\ Len(ids) + n <= MaxContext
      /\ c.target \in TargetModels /\ c.target = script.target
  BY CallAssumption DEF CallType, CallOf, CallBy
<1>2. TargetToken \in SUBSET TargetToken /\ pick \in [TargetContext -> TargetToken]
  BY <1>1, PickAssumption DEF AlonePicks
<1>3. PICK g : Unrolls(g, n, ids, pick, TargetToken)
  <2> HIDE DEF n, ids, pick
  <2> QED BY <1>1, <1>2, Unrolled
<1>4. Equations(g)
  <2>1. \A i \in 1 .. n : g[i] = Append(g[i - 1], TargetPick(script.target, ids \o g[i - 1]))
    BY <1>1, <1>3 DEF Unrolls, AlonePicks
  <2>2. g = [i \in 0 .. n |-> g[i]] /\ g[0] = << >>
    BY <1>3 DEF Unrolls
  <2>3. \A i \in 0 .. n : i # 0 => i \in 1 .. n
    BY <1>1
  <2>4. \A i \in 0 .. n : g[i] = IF i = 0 THEN << >>
          ELSE Append(g[i - 1], TargetPick(script.target, ids \o g[i - 1]))
    BY <2>1, <2>2, <2>3, Zenon
  <2>5. [i \in 0 .. n |-> g[i]] = [i \in 0 .. n |-> IF i = 0 THEN << >>
          ELSE Append(g[i - 1], TargetPick(script.target, ids \o g[i - 1]))]
    BY <2>4, Zenon
  <2> QED BY <2>2, <2>5
<1>5. PICK h : h = CHOOSE x : Equations(x)
  OBVIOUS
<1>6. Equations(h)
  <2> HIDE DEF Equations
  <2> QED BY <1>4, <1>5
<1>7. Alone(ids, n) = h[n]
  BY <1>5 DEF Alone
<1>8. /\ h[0] = << >>
      /\ \A i \in 1 .. n : ids \o h[i - 1] \in TargetContext =>
                             h[i] = Append(h[i - 1], pick[ids \o h[i - 1]])
  <2>1. \A i \in 0 .. n : h[i] = IF i = 0 THEN << >>
          ELSE Append(h[i - 1], TargetPick(script.target, ids \o h[i - 1]))
    BY <1>6, Zenon
  <2>2. 0 \in 0 .. n /\ \A i \in 1 .. n : i \in 0 .. n /\ i # 0
    BY <1>1
  <2>3. \A x \in TargetContext : pick[x] = TargetPick(script.target, x)
    BY <1>1 DEF AlonePicks
  <2>4. h[0] = << >>
    BY <2>1, <2>2, Zenon
  <2>5. \A i \in 1 .. n : h[i] = Append(h[i - 1], TargetPick(script.target, ids \o h[i - 1]))
    BY <2>1, <2>2, Zenon
  <2> HIDE DEF n, ids, pick, Equations
  <2> QED BY <2>3, <2>4, <2>5
<1>9. h[n] = g[n]
  <2> HIDE DEF n, ids, pick
  <2> QED BY <1>1, <1>3, <1>8, OneUnrolling
<1> QED BY <1>3, <1>7, <1>9

LEMMA UnrollsGrow ==
    ASSUME NEW n \in Nat, NEW ids, NEW T, NEW pick, NEW g, Unrolls(g, n, ids, pick, T),
           NEW m \in 0 .. n
    PROVE  /\ SubSeq(g[n], 1, m) = g[m]
           /\ \A j \in 1 .. m : g[n][j] = g[m][j]
<1> DEFINE Q == {i \in Nat : m <= i /\ i <= n => \A j \in 1 .. m : g[i][j] = g[m][j]}
<1>1. \A i \in 0 .. n : g[i] \in Seq(T) /\ Len(g[i]) = i
  BY DEF Unrolls
<1>2. \A i \in 1 .. n : g[i] = Append(g[i - 1], pick[ids \o g[i - 1]])
  BY DEF Unrolls
<1>3. 0 \in Q
  <2>1. m <= 0 => 1 .. m = {}
    OBVIOUS
  <2> QED BY <2>1
<1>4. ASSUME NEW i \in Nat, i \in Q PROVE i + 1 \in Q
  <2> SUFFICES ASSUME m <= i + 1, i + 1 <= n, NEW j \in 1 .. m
               PROVE  g[i + 1][j] = g[m][j]
    <3>1. i + 1 \in Nat
      OBVIOUS
    <3> QED BY <3>1
  <2>1. CASE m = i + 1
    BY <2>1
  <2>2. CASE m # i + 1
    <3>1. /\ m <= i /\ i <= n /\ i + 1 \in 1 .. n /\ (i + 1) - 1 = i
          /\ i \in 0 .. n /\ j \in 1 .. i
      BY <2>2
    <3>2. g[i][j] = g[m][j]
      BY <1>4, <3>1
    <3>3. PICK s, x : s = g[i] /\ x = pick[ids \o g[i]]
      OBVIOUS
    <3>4. s \in Seq(T) /\ Len(s) = i /\ g[i + 1] = Append(s, x)
      BY <1>1, <1>2, <3>1, <3>3
    <3>5. g[i + 1][j] = s[j]
      BY <3>1, <3>4
    <3> QED BY <3>2, <3>3, <3>5
  <2> QED BY <2>1, <2>2
<1>5. \A i \in Nat : i \in Q
  <2> HIDE DEF Q
  <2> QED BY <1>3, <1>4, InductiveSet
<1>6. \A j \in 1 .. m : g[n][j] = g[m][j]
  BY <1>5
<1>7. PICK s, t : s = g[n] /\ t = g[m]
  OBVIOUS
<1>8. s \in Seq(T) /\ Len(s) = n /\ t \in Seq(T) /\ Len(t) = m
  <2>1. n \in 0 .. n
    OBVIOUS
  <2> QED BY <1>1, <1>7, <2>1
<1>9. PICK u : u = SubSeq(s, 1, m)
  OBVIOUS
<1>10. u \in Seq(T) /\ Len(u) = m /\ \A j \in 1 .. m : u[j] = s[j]
  BY <1>8, <1>9
<1>11. u = t
  BY <1>6, <1>7, <1>8, <1>10, SeqExt
<1> QED BY <1>6, <1>7, <1>9, <1>11

-----------------------------------------------------------------------------
\* The draft, asked afresh after said + j - 1 tokens of all, agrees on the next.
Right(ids, all, said, j) ==
    LET before == ids \o SubSeq(all, 1, said + j - 1)
        safe == [i \in 1 .. Len(before) |->
                   IF before[i] < DraftVocab THEN before[i] ELSE 0]
    IN  DraftPick(script.draft, safe) = all[said + j]

RightAsFarAs(a, ids, all, said, w) ==
    /\ \A j \in 1 .. a : Right(ids, all, said, j)
    /\ a < w => ~ Right(ids, all, said, a + 1)

LEMMA GuessedIs ==
    ASSUME NEW ids, NEW all, NEW said, NEW w \in Nat, NEW a \in 0 .. w,
           RightAsFarAs(a, ids, all, said, w)
    PROVE  Guessed(ids, all, said, w) = a
<1>1. Guessed(ids, all, said, w) = CHOOSE b \in 0 .. w : RightAsFarAs(b, ids, all, said, w)
  BY DEF Guessed, RightAsFarAs, Right
<1>2. PICK b : b = CHOOSE x \in 0 .. w : RightAsFarAs(x, ids, all, said, w)
  OBVIOUS
<1>3. b \in 0 .. w /\ RightAsFarAs(b, ids, all, said, w)
  BY <1>2, Zenon
<1>4. CASE b < a
  <2>1. b < w /\ b + 1 \in 1 .. a
    BY <1>3, <1>4
  <2> QED BY <1>3, <2>1 DEF RightAsFarAs
<1>5. CASE a < b
  <2>1. a < w /\ a + 1 \in 1 .. b
    BY <1>3, <1>5
  <2> QED BY <1>3, <2>1 DEF RightAsFarAs
<1>6. b < a \/ a < b \/ a = b
  BY <1>3
<1> QED BY <1>1, <1>2, <1>4, <1>5, <1>6

LEMMA GuessedExists ==
    ASSUME NEW ids, NEW all, NEW said, NEW w \in Nat
    PROVE  Guessed(ids, all, said, w) \in 0 .. w
<1> DEFINE W == {i \in Nat : i < w /\ ~ Right(ids, all, said, i + 1)}
<1>1. CASE W = {}
  <2>1. \A j \in 1 .. w : j - 1 \in Nat /\ j - 1 < w /\ (j - 1) + 1 = j
    OBVIOUS
  <2>2. \A j \in 1 .. w : Right(ids, all, said, j)
    BY <1>1, <2>1
  <2>3. RightAsFarAs(w, ids, all, said, w) /\ w \in 0 .. w
    BY <2>2 DEF RightAsFarAs
  <2> QED BY <2>3, GuessedIs
<1>2. CASE W # {}
  <2>1. PICK a \in W : \A m \in W : a <= m
    <3>1. W \in SUBSET Nat
      OBVIOUS
    <3> HIDE DEF W
    <3> QED BY <1>2, <3>1, LeastNatural
  <2>2. a \in 0 .. w /\ ~ Right(ids, all, said, a + 1)
    BY <2>1
  <2>3. ASSUME NEW j \in 1 .. a PROVE Right(ids, all, said, j)
    <3>1. j - 1 \in Nat /\ j - 1 < w /\ (j - 1) + 1 = j /\ ~ (a <= j - 1)
      BY <2>2
    <3>2. j - 1 \notin W
      BY <2>1, <3>1
    <3> QED BY <3>1, <3>2
  <2>4. RightAsFarAs(a, ids, all, said, w)
    BY <2>2, <2>3 DEF RightAsFarAs
  <2> QED BY <2>2, <2>4, GuessedIs
<1> QED BY <1>1, <1>2


-----------------------------------------------------------------------------
NoCost == [rounds |-> 0, proposed |-> 0, accepted |-> 0]
CostType == [rounds : Nat, proposed : Nat, accepted : Nat]

\* The window after said of the script.n tokens, what of it is right, and
\* how much is said when the round is over.
CostWindow(said) == IF script.k < script.n - said THEN script.k ELSE script.n - said
CostRight(ids, said) == Guessed(ids, Alone(ids, script.n), said, CostWindow(said))
CostNext(ids, said) ==
    IF CostRight(ids, said) + 1 < script.n - said
    THEN said + CostRight(ids, said) + 1 ELSE script.n

\* The local function of Cost, and its equation.
CostAt(c, ids, said) ==
    IF said = script.n THEN NoCost
    ELSE [rounds |-> c[CostNext(ids, said)].rounds + 1,
          proposed |-> c[CostNext(ids, said)].proposed + CostWindow(said),
          accepted |-> c[CostNext(ids, said)].accepted + CostRight(ids, said)]

Costs(c, ids) == c = [said \in 0 .. script.n |-> CostAt(c, ids, said)]

LEMMA RoundCosts ==
    ASSUME script \in Scripts, NEW ids, NEW said \in 0 .. script.n, said # script.n
    PROVE  /\ CostWindow(said) \in Nat
           /\ CostRight(ids, said) \in 0 .. CostWindow(said)
           /\ CostNext(ids, said) \in said + 1 .. script.n
<1>1. script.n \in Nat /\ script.k \in Nat /\ said \in Nat /\ said < script.n
  BY ScriptFacts
<1>2. CostWindow(said) \in Nat
  BY <1>1 DEF CostWindow
<1>3. CostRight(ids, said) \in 0 .. CostWindow(said)
  BY <1>2, GuessedExists DEF CostRight
<1>4. PICK a \in Nat : a = CostRight(ids, said)
  BY <1>2, <1>3
<1>5. (IF a + 1 < script.n - said THEN said + a + 1 ELSE script.n) \in said + 1 .. script.n
  BY <1>1
<1> QED BY <1>2, <1>3, <1>4, <1>5 DEF CostNext

LEMMA CostAtLocal ==
    ASSUME script \in Scripts, NEW ids, NEW said \in 0 .. script.n, NEW f, NEW g,
           \A i \in said + 1 .. script.n : f[i] = g[i]
    PROVE  CostAt(f, ids, said) = CostAt(g, ids, said)
<1>1. CASE said = script.n
  BY <1>1 DEF CostAt
<1>2. CASE said # script.n
  <2>1. f[CostNext(ids, said)] = g[CostNext(ids, said)]
    BY <1>2, RoundCosts
  <2> QED BY <1>2, <2>1 DEF CostAt
<1> QED BY <1>1, <1>2

LEMMA CostsExist ==
    ASSUME script \in Scripts, NEW ids
    PROVE  \E c : Costs(c, ids)
<1> DEFINE D == 0 .. script.n
           FromTop(f, m) == /\ f = [i \in D |-> f[i]]
                            /\ \A i \in script.n - m .. script.n : f[i] = CostAt(f, ids, i)
           Q == {m \in Nat : m <= script.n => \E f : FromTop(f, m)}
<1>1. script.n \in Nat
  BY ScriptFacts
<1>2. 0 \in Q
  <2>1. PICK f : f = [i \in D |-> NoCost]
    OBVIOUS
  <2>2. script.n \in D /\ f[script.n] = NoCost /\ f = [i \in D |-> f[i]]
    BY <1>1, <2>1
  <2>3. ASSUME NEW i \in script.n - 0 .. script.n PROVE f[i] = CostAt(f, ids, i)
    <3>1. i = script.n
      BY <1>1
    <3> QED BY <2>2, <3>1 DEF CostAt
  <2>4. FromTop(f, 0)
    BY <2>2, <2>3
  <2> HIDE DEF FromTop
  <2> QED BY <2>4
<1>3. ASSUME NEW m \in Nat, m \in Q PROVE m + 1 \in Q
  <2> SUFFICES ASSUME m + 1 <= script.n PROVE \E f : FromTop(f, m + 1)
    <3>1. m + 1 \in Nat
      OBVIOUS
    <3> HIDE DEF FromTop
    <3> QED BY <3>1
  <2>1. PICK f : FromTop(f, m)
    <3>1. m <= script.n
      BY <1>1
    <3> HIDE DEF FromTop
    <3> QED BY <1>3, <3>1
  <2>2. PICK low : low = script.n - (m + 1)
    OBVIOUS
  <2>3. /\ low \in D /\ low + 1 = script.n - m
        /\ \A i \in low .. script.n : i \in D /\ (i = low \/ i \in script.n - m .. script.n)
        /\ \A i \in low .. script.n : \A j \in i + 1 .. script.n : j \in D /\ j # low
    BY <1>1, <2>2
  <2>4. PICK g : g = [i \in D |-> IF i = low THEN CostAt(f, ids, low) ELSE f[i]]
    OBVIOUS
  <2>5. ASSUME NEW i \in low .. script.n PROVE g[i] = CostAt(g, ids, i)
    <3>1. \A j \in i + 1 .. script.n : g[j] = f[j]
      <4> HIDE DEF D
      <4> QED BY <2>3, <2>4
    <3>2. CostAt(g, ids, i) = CostAt(f, ids, i)
      BY <2>3, <3>1, CostAtLocal
    <3>3. CASE i = low
      <4>1. g[low] = CostAt(f, ids, low)
        <5> HIDE DEF D
        <5> QED BY <2>3, <2>4
      <4> QED BY <3>2, <3>3, <4>1
    <3>4. CASE i # low
      <4>1. g[i] = f[i] /\ f[i] = CostAt(f, ids, i)
        BY <2>1, <2>3, <2>4, <3>4
      <4> QED BY <3>2, <4>1
    <3> QED BY <3>3, <3>4
  <2>6. g = [i \in D |-> g[i]]
    BY <2>4
  <2>7. FromTop(g, m + 1)
    BY <2>2, <2>5, <2>6
  <2> HIDE DEF FromTop
  <2> QED BY <2>7
<1>4. \A m \in Nat : m \in Q
  <2> HIDE DEF Q
  <2> QED BY <1>2, <1>3, InductiveSet
<1>5. PICK f : FromTop(f, script.n)
  <2>1. script.n <= script.n
    BY <1>1
  <2> HIDE DEF FromTop
  <2> QED BY <1>1, <1>4, <2>1
<1>6. \A i \in D : f[i] = CostAt(f, ids, i)
  <2>1. script.n - script.n = 0
    BY <1>1
  <2> QED BY <1>5, <2>1
<1>7. f = [i \in D |-> CostAt(f, ids, i)]
  <2>1. [i \in D |-> f[i]] = [i \in D |-> CostAt(f, ids, i)]
    <3> HIDE DEF D
    <3> QED BY <1>6, Zenon
  <2> QED BY <1>5, <2>1
<1> QED BY <1>7 DEF Costs

LEMMA CostsTyped ==
    ASSUME script \in Scripts, NEW ids, NEW c, Costs(c, ids)
    PROVE  \A said \in 0 .. script.n : c[said] \in CostType
<1> DEFINE Q == {m \in Nat : m <= script.n =>
                   \A i \in script.n - m .. script.n : c[i] \in CostType}
<1>1. script.n \in Nat
  BY ScriptFacts
<1>2. \A i \in 0 .. script.n : c[i] = CostAt(c, ids, i)
  BY Zenon DEF Costs
<1>3. c[script.n] \in CostType
  <2>1. script.n \in 0 .. script.n
    BY <1>1
  <2>2. c[script.n] = NoCost
    BY <1>2, <2>1 DEF CostAt
  <2> QED BY <2>2 DEF NoCost, CostType
<1>4. 0 \in Q
  <2>1. \A i \in script.n - 0 .. script.n : i = script.n
    BY <1>1
  <2> QED BY <1>3, <2>1
<1>5. ASSUME NEW m \in Nat, m \in Q PROVE m + 1 \in Q
  <2> SUFFICES ASSUME m + 1 <= script.n, NEW i \in script.n - (m + 1) .. script.n
               PROVE  c[i] \in CostType
    <3>1. m + 1 \in Nat
      OBVIOUS
    <3> QED BY <3>1
  <2>1. CASE i \in script.n - m .. script.n
    <3>1. m <= script.n
      BY <1>1
    <3> QED BY <1>5, <2>1, <3>1
  <2>2. CASE i \notin script.n - m .. script.n
    <3>1. /\ i \in 0 .. script.n /\ i # script.n /\ m <= script.n
          /\ \A j \in i + 1 .. script.n : j \in script.n - m .. script.n
      BY <1>1, <2>2
    <3>2. PICK j : j = CostNext(ids, i)
      OBVIOUS
    <3>3. j \in i + 1 .. script.n
      BY <3>1, <3>2, RoundCosts
    <3>4. c[j] \in CostType
      BY <1>5, <3>1, <3>3
    <3>5. CostWindow(i) \in Nat /\ CostRight(ids, i) \in Nat
      BY <3>1, RoundCosts
    <3>6. c[i] = [rounds |-> c[j].rounds + 1, proposed |-> c[j].proposed + CostWindow(i),
                  accepted |-> c[j].accepted + CostRight(ids, i)]
      BY <1>2, <3>1, <3>2 DEF CostAt
    <3> QED BY <3>4, <3>5, <3>6 DEF CostType
  <2> QED BY <2>1, <2>2
<1>6. \A m \in Nat : m \in Q
  <2> HIDE DEF Q
  <2> QED BY <1>4, <1>5, InductiveSet
<1>7. \A i \in script.n - script.n .. script.n : c[i] \in CostType
  <2>1. script.n <= script.n
    BY <1>1
  <2> QED BY <1>1, <1>6, <2>1
<1>8. script.n - script.n = 0
  BY <1>1
<1> QED BY <1>7, <1>8

LEMMA CostIs ==
    ASSUME script \in Scripts, NEW ids
    PROVE  \E c : Costs(c, ids) /\ Cost(ids) = c[0]
<1>1. PICK c : c = CHOOSE x : Costs(x, ids)
  OBVIOUS
<1>2. Costs(c, ids)
  BY <1>1, CostsExist, Zenon
<1>3. Cost(ids) = c[0]
  BY <1>1 DEF Cost, Costs, CostAt, CostWindow, CostRight, CostNext, NoCost
<1> QED BY <1>2, <1>3


-----------------------------------------------------------------------------
(* The decoder under a call of benchmark.py.                               *)

BenchCall == script \in Scripts /\ call = CallOf(call.input_ids)

LEMMA BenchCallFacts ==
    ASSUME BenchCall, call \in Calls
    PROVE  /\ call.max_new_tokens = script.n /\ call.k = script.k
           /\ call.target = script.target /\ call.draft = script.draft
           /\ call.eos_token_id = NoEos
           /\ script.n \in Nat \ {0} /\ script.k \in Nat
BY ScriptFacts DEF BenchCall, CallOf, CallBy

\* What is emitted is what the target alone would say.
OutputAlone ==
    pc # "prefill" =>
      \A g : Unrolls(g, call.max_new_tokens, call.input_ids, AlonePicks(call), TargetToken)
               => Follows(g)

LEMMA OutputIsAlone == IndInv => OutputAlone
<1> SUFFICES ASSUME IndInv, pc # "prefill", NEW g,
                    Unrolls(g, call.max_new_tokens, call.input_ids, AlonePicks(call), TargetToken)
             PROVE  Follows(g)
  BY DEF OutputAlone
<1> DEFINE n == call.max_new_tokens
           pick == AlonePicks(call)
<1>1. n \in Nat /\ n_new <= n /\ TargetToken \in SUBSET TargetToken
  BY CallFacts DEF IndInv, TypeOK, OutputShape
<1>2. ASSUME NEW i \in 1 .. n_new
      PROVE  pick[SubSeq(generated, 1, prompt_len + i - 1)] = generated[prompt_len + i]
  <2>1. PICK context : context = SubSeq(generated, 1, prompt_len + i - 1)
    OBVIOUS
  <2>2. /\ context \in TargetContext
        /\ generated[prompt_len + i] = TargetPick(call.target, context)
    BY <2>1, EmittedPicks
  <2>3. pick[context] = TargetPick(call.target, context)
    BY <2>2 DEF AlonePicks
  <2> QED BY <2>1, <2>2, <2>3
<1>3. Unrolls(g, n, call.input_ids, pick, TargetToken)
  OBVIOUS
<1> HIDE DEF n, pick
<1> QED BY <1>1, <1>2, <1>3, OutputUnrolls

\* A draft is right where the target confirmed it.
LEMMA RightIsConfirmed ==
    ASSUME IndInv, IndInv', BenchCall, BenchCall', NEW n, Emitting(n, FALSE),
           NEW j \in 1 .. n, j <= this_k
    PROVE  Right(call.input_ids, Alone(call.input_ids, script.n), n_new, j)
             <=> drafted[j] = predictions[j]
<1> DEFINE ids == call.input_ids
           all == Alone(ids, script.n)
<1>1. /\ call \in Calls /\ generated \in Seq(TargetToken) /\ n_new \in Nat
      /\ drafted \in Seq(DraftToken) /\ drafted \in Seq(TargetToken)
      /\ this_k \in Nat /\ accepted \in Nat /\ prompt_len \in Nat
      /\ ids \in Seq(TargetToken) /\ Len(ids) = prompt_len
  BY CallFacts, DraftIsTarget DEF IndInv, TypeOK, prompt_len
<1>2. /\ pc = "accept" /\ ~ DraftConfirmed
      /\ n = Len(NewTokens) /\ n \in 1 .. Len(NewTokens)
      /\ Emit(SubSeq(NewTokens, 1, n), FALSE)
  BY Zenon DEF Emitting
<1>3. /\ NewTokens \in Seq(TargetToken) /\ Len(NewTokens) \in 1 .. remaining
      /\ Len(NewTokens) = IF accepted < remaining THEN accepted + 1 ELSE remaining
      /\ \A i \in 1 .. Len(NewTokens) : NewTokens[i] = predictions[i]
      /\ \A i \in 0 .. accepted : SubSeq(NewTokens, 1, i) = SubSeq(drafted, 1, i)
  BY <1>2, RoundTokens
<1>4. /\ RoundOpen /\ DraftAhead /\ Len(drafted) = this_k
      /\ n_new < call.max_new_tokens /\ call.max_new_tokens \in Nat
      /\ Len(generated) = prompt_len + n_new
      /\ accepted <= this_k
  BY <1>1, <1>2, CallFacts DEF IndInv, AtAccept, RoundOpen, OutputShape
<1>5. SubSeq(NewTokens, 1, n) = NewTokens /\ n \in Nat /\ n <= remaining /\ n <= accepted + 1
  <2>1. SubSeq(NewTokens, 1, Len(NewTokens)) = NewTokens
    BY <1>3, PrefixWhole
  <2>2. remaining \in Nat
    BY <1>1, <1>4 DEF remaining
  <2> QED BY <1>1, <1>2, <1>3, <2>1, <2>2
<1>6. /\ generated' = generated \o NewTokens /\ n_new' = n_new + n
      /\ call' = call /\ pc' # "prefill"
  BY <1>2, <1>5 DEF Emit
<1>7. PICK g : /\ Unrolls(g, script.n, ids, AlonePicks(call), TargetToken)
               /\ all = g[script.n]
  <2>1. call = CallOf(call.input_ids)
    BY DEF BenchCall
  <2> QED BY <1>1, <2>1, AloneUnrolls
<1>8. call.max_new_tokens = script.n /\ script.n \in Nat /\ call.draft = script.draft
  BY <1>1, BenchCallFacts
<1>9. Follows(g)'
  <2>1. OutputAlone'
    BY OutputIsAlone, PTL
  <2>2. /\ AlonePicks(call)' = AlonePicks(call)
        /\ call'.max_new_tokens = script.n /\ call'.input_ids = ids
    BY <1>6, <1>8 DEF AlonePicks
  <2> HIDE DEF ids, all
  <2> QED BY <1>6, <1>7, <2>1, <2>2 DEF OutputAlone
<1>10. \A i \in 0 .. n_new + n :
         /\ SubSeq(generated', 1, prompt_len + i) = ids \o g[i]
         /\ g[i] = SubSeq(generated', prompt_len + 1, prompt_len + i)
  BY <1>6, <1>9 DEF Follows, prompt_len
<1>11. /\ n_new + j \in 1 .. script.n /\ n_new + (j - 1) \in 0 .. script.n
       /\ n_new + j \in 0 .. n_new + n /\ n_new + (j - 1) \in 0 .. n_new + n
       /\ j - 1 \in 0 .. accepted /\ j - 1 \in 0 .. n
       /\ n_new + j \in 1 .. n_new + j
  BY <1>1, <1>4, <1>5, <1>8 DEF remaining
\* What the draft is asked.
<1>12. SubSeq(all, 1, n_new + (j - 1)) = g[n_new + (j - 1)]
       /\ all[n_new + j] = g[n_new + j][n_new + j]
  <2>1. n_new + j \in 0 .. script.n
    BY <1>11
  <2> HIDE DEF ids, all
  <2>2. SubSeq(g[script.n], 1, n_new + (j - 1)) = g[n_new + (j - 1)]
    BY <1>7, <1>8, <1>11, UnrollsGrow
  <2>3. g[script.n][n_new + j] = g[n_new + j][n_new + j]
    BY <1>7, <1>8, <1>11, <2>1, UnrollsGrow
  <2> QED BY <1>7, <2>2, <2>3
<1>13. ids \o SubSeq(all, 1, n_new + (j - 1)) = generated \o SubSeq(drafted, 1, j - 1)
  <2>1. ids \o g[n_new + (j - 1)] = SubSeq(generated', 1, prompt_len + (n_new + (j - 1)))
    BY <1>10, <1>11
  <2>2. prompt_len + (n_new + (j - 1)) = Len(generated) + (j - 1)
    BY <1>1, <1>4
  <2>3. SubSeq(generated \o NewTokens, 1, Len(generated) + (j - 1))
          = generated \o SubSeq(NewTokens, 1, j - 1)
    <3>1. j - 1 \in 0 .. Len(NewTokens)
      BY <1>2, <1>11
    <3>2. PICK s, t, i : s = generated /\ t = NewTokens /\ i = j - 1
      OBVIOUS
    <3>3. s \in Seq(TargetToken) /\ t \in Seq(TargetToken) /\ i \in 0 .. Len(t)
      BY <1>1, <1>3, <3>1, <3>2
    <3>4. SubSeq(s \o t, 1, Len(s) + i) = s \o SubSeq(t, 1, i)
      BY <3>3, PrefixOfConcat
    <3> QED BY <3>2, <3>4
  <2>4. SubSeq(NewTokens, 1, j - 1) = SubSeq(drafted, 1, j - 1)
    BY <1>3, <1>11
  <2> HIDE DEF ids, all
  <2> QED BY <1>6, <1>12, <2>1, <2>2, <2>3, <2>4
<1>14. DraftSafe(generated \o SubSeq(drafted, 1, j - 1))
         = DraftSafe(generated) \o SubSeq(drafted, 1, j - 1)
  <2>1. PICK tail : tail = SubSeq(drafted, 1, j - 1)
    OBVIOUS
  <2>2. tail \in Seq(DraftToken) /\ tail \in Seq(TargetToken)
    BY <1>1, <1>4, <1>11, <2>1
  <2>3. DraftSafe(tail) = tail
    BY <2>2, DraftSafeIdentity
  <2>4. DraftSafe(generated \o tail) = DraftSafe(generated) \o DraftSafe(tail)
    BY <1>1, <2>2, DraftSafeConcat
  <2> QED BY <2>1, <2>3, <2>4
<1>15. drafted[j] = DraftArgmax(DraftSafe(generated) \o SubSeq(drafted, 1, j - 1))
  <2>1. j \in 1 .. Len(drafted)
    BY <1>1, <1>4, <1>11
  <2> QED BY <1>4, <2>1 DEF DraftAhead
\* What the target says.
<1>16. all[n_new + j] = predictions[j]
  <2>1. j \in 1 .. Len(NewTokens) /\ j \in Nat
    BY <1>2
  <2>2. g[n_new + j] = SubSeq(generated', prompt_len + 1, prompt_len + (n_new + j))
    BY <1>10, <1>11
  <2>3. generated' \in Seq(TargetToken) /\ Len(generated') = prompt_len + (n_new + n)
    <3>1. Len(generated \o NewTokens) = Len(generated) + Len(NewTokens)
      <4>1. \A s, t \in Seq(TargetToken) : Len(s \o t) = Len(s) + Len(t)
        OBVIOUS
      <4> QED BY <1>1, <1>3, <4>1
    <3>2. generated' \in Seq(TargetToken)
      BY DEF IndInv, TypeOK
    <3>3. (prompt_len + n_new) + n = prompt_len + (n_new + n)
      BY <1>1, <1>5
    <3> HIDE DEF ids, all
    <3> QED BY <1>2, <1>4, <1>6, <3>1, <3>2, <3>3
  <2>4. g[n_new + j][n_new + j] = generated'[prompt_len + (n_new + j)]
    BY <1>1, <1>5, <1>11, <2>2, <2>3
  <2>5. prompt_len + (n_new + j) = Len(generated) + j
    BY <1>1, <1>4, <2>1
  <2>6. (generated \o NewTokens)[Len(generated) + j] = NewTokens[j]
    BY <1>1, <1>3, <2>1
  <2> HIDE DEF ids, all
  <2> QED BY <1>3, <1>6, <1>12, <2>1, <2>4, <2>5, <2>6
<1>17. PICK before : before = generated \o SubSeq(drafted, 1, j - 1)
  OBVIOUS
<1>18. DOMAIN before = 1 .. Len(before)
  <2>1. SubSeq(drafted, 1, j - 1) \in Seq(TargetToken)
    BY <1>1, <1>4, <1>11
  <2> QED BY <1>1, <1>17, <2>1
<1>19. Right(ids, all, n_new, j) <=> DraftPick(script.draft, DraftSafe(before)) = all[n_new + j]
  <2>1. n_new + j - 1 = n_new + (j - 1)
    BY <1>1
  <2>2. ids \o SubSeq(all, 1, n_new + j - 1) = before
    BY <1>13, <1>17, <2>1
  <2> HIDE DEF ids, all
  <2> QED BY <1>18, <2>2 DEF Right, DraftSafe
<1>20. DraftPick(script.draft, DraftSafe(before)) = drafted[j]
  BY <1>8, <1>14, <1>15, <1>17 DEF DraftArgmax
<1> QED BY <1>16, <1>19, <1>20


\* The round just emitted is the round Cost predicts.
LEMMA RoundAsPredicted ==
    ASSUME IndInv, IndInv', BenchCall, BenchCall', NEW n, Emitting(n, FALSE),
           this_k = Window
    PROVE  /\ n_new \in 0 .. script.n /\ n_new # script.n
           /\ CostWindow(n_new) = this_k
           /\ CostRight(call.input_ids, n_new) = accepted
           /\ CostNext(call.input_ids, n_new) = n_new'
<1> DEFINE ids == call.input_ids
           all == Alone(ids, script.n)
<1>1. /\ n_new \in Nat /\ this_k \in Nat /\ accepted \in Nat
      /\ call.max_new_tokens = script.n /\ call.k = script.k
      /\ script.n \in Nat /\ script.k \in Nat /\ call \in Calls
  BY BenchCallFacts DEF IndInv, TypeOK
<1>2. /\ pc = "accept" /\ ~ DraftConfirmed /\ n \in 1 .. Len(NewTokens)
      /\ n = Len(NewTokens) /\ Emit(SubSeq(NewTokens, 1, n), FALSE)
  BY Zenon DEF Emitting
<1>3. /\ accepted <= this_k /\ this_k <= remaining /\ n_new < script.n
      /\ \A j \in 1 .. accepted : predictions[j] = drafted[j]
  BY <1>1, <1>2 DEF IndInv, AtAccept, RoundOpen
<1>4. remaining = script.n - n_new
  BY <1>1 DEF remaining
<1>5. /\ NewTokens \in Seq(TargetToken)
      /\ n = IF accepted < remaining THEN accepted + 1 ELSE remaining
  BY <1>2, RoundTokens
<1>6. n_new' = n_new + n
  <2>1. Len(SubSeq(NewTokens, 1, n)) = n
    BY <1>2, <1>5
  <2> QED BY <1>2, <2>1 DEF Emit
<1>7. CostWindow(n_new) = this_k
  BY <1>1, <1>4 DEF CostWindow, Window
<1>8. \A j \in 1 .. n : j <= this_k => (Right(ids, all, n_new, j) <=> drafted[j] = predictions[j])
  BY RightIsConfirmed
<1>9. RightAsFarAs(accepted, ids, all, n_new, this_k)
  <2>1. \A j \in 1 .. accepted : j \in 1 .. n /\ j <= this_k
    BY <1>1, <1>3, <1>4, <1>5
  <2>2. \A j \in 1 .. accepted : Right(ids, all, n_new, j)
    <3> HIDE DEF ids, all
    <3> QED BY <1>3, <1>8, <2>1
  <2>3. ASSUME accepted < this_k PROVE ~ Right(ids, all, n_new, accepted + 1)
    <3>1. accepted + 1 \in 1 .. n /\ accepted + 1 <= this_k
      BY <1>1, <1>3, <1>4, <1>5, <2>3
    <3>2. predictions[accepted + 1] # drafted[accepted + 1]
      BY <1>2, <2>3 DEF DraftConfirmed
    <3> HIDE DEF ids, all
    <3> QED BY <1>8, <3>1, <3>2
  <2> HIDE DEF ids, all
  <2> QED BY <2>2, <2>3 DEF RightAsFarAs
<1>10. CostRight(ids, n_new) = accepted
  <2>1. accepted \in 0 .. this_k
    BY <1>1, <1>3
  <2>2. Guessed(ids, all, n_new, this_k) = accepted
    <3> HIDE DEF ids, all
    <3> QED BY <1>1, <1>9, <2>1, GuessedIs
  <2> QED BY <1>7, <2>2 DEF CostRight
<1>11. CostNext(ids, n_new) = n_new'
  <2>1. (IF accepted + 1 < script.n - n_new THEN n_new + accepted + 1 ELSE script.n) = n_new + n
    BY <1>1, <1>3, <1>4, <1>5
  <2> HIDE DEF ids, all
  <2> QED BY <1>6, <1>10, <2>1 DEF CostNext
<1> QED BY <1>1, <1>3, <1>7, <1>10, <1>11

\* The prediction depends on the script and the prompt only.
LEMMA CostsKept ==
    ASSUME UNCHANGED script, NEW c, NEW ids
    PROVE  Costs(c, ids)' <=> Costs(c, ids)
<1>1. PICK all : all = Alone(ids, script.n)
  OBVIOUS
<1>3. Alone(ids, script.n)' = all
  BY <1>1 DEF Alone
<1>4. \A said : CostWindow(said)' = CostWindow(said)
  BY DEF CostWindow
<1>5. \A said, w : Guessed(ids, all, said, w)' = Guessed(ids, all, said, w)
  BY DEF Guessed
<1>6. \A said : CostRight(ids, said)' = CostRight(ids, said)
  <2>1. \A said : CostRight(ids, said)' = Guessed(ids, all, said, CostWindow(said))'
    BY <1>3 DEF CostRight
  <2> QED BY <1>1, <1>4, <1>5, <2>1 DEF CostRight
<1>7. \A said : CostNext(ids, said)' = CostNext(ids, said)
  BY <1>6 DEF CostNext
<1>8. \A said : CostAt(c, ids, said)' = CostAt(c, ids, said)
  BY <1>4, <1>6, <1>7 DEF CostAt
<1>9. [said \in 0 .. script.n |-> CostAt(c, ids, said)]'
        = [said \in 0 .. script.n |-> CostAt(c, ids, said)]
  BY <1>8
<1> QED BY <1>9 DEF Costs

\* Statistics so far and the predicted cost of the rest are the whole cost.
Accounted(c) ==
    /\ stats.rounds + c[n_new].rounds = c[0].rounds
    /\ stats.tokens_proposed + c[n_new].proposed = c[0].proposed
    /\ stats.tokens_accepted_from_draft + c[n_new].accepted = c[0].accepted

(* What benchmark.py relies on while the decoder runs: each round's window *)
(* is as large as it may be and proposes something, and the rounds cost    *)
(* what Cost predicts.                                                     *)
RunInv ==
    /\ IndInv /\ StatsAddUp
    /\ BenchCall
    /\ pc \in {"draft", "accept"} => this_k = Window
    /\ stats.rounds <= stats.tokens_proposed
    /\ \A c : Costs(c, call.input_ids) => Accounted(c)

LEMMA RunStarts == Init /\ BenchCall => RunInv
<1> SUFFICES ASSUME Init, BenchCall PROVE RunInv
  OBVIOUS
<1>1. IndInv /\ StatsAddUp
  BY InitIndInv, StatsStart
<1>2. ASSUME NEW c, Costs(c, call.input_ids) PROVE Accounted(c)
  <2>1. c[0] \in CostType
    <3>1. script.n \in Nat /\ script \in Scripts
      BY ScriptFacts DEF BenchCall
    <3>2. 0 \in 0 .. script.n
      BY <3>1
    <3> QED BY <1>2, <3>1, <3>2, CostsTyped
  <2> QED BY <2>1 DEF Init, NoStats, Accounted, CostType
<1> QED BY <1>1, <1>2 DEF RunInv, Init, NoStats

LEMMA EmitAccounted ==
    ASSUME RunInv, IndInv', BenchCall', UNCHANGED script, NEW n, NEW eos, Emitting(n, eos)
    PROVE  /\ stats'.rounds <= stats'.tokens_proposed
           /\ (\A c : Costs(c, call.input_ids) => Accounted(c))'
<1>1. /\ IndInv /\ BenchCall /\ pc = "accept" /\ this_k = Window
      /\ stats.rounds <= stats.tokens_proposed
      /\ \A c : Costs(c, call.input_ids) => Accounted(c)
      /\ stats \in StatsType /\ n_new \in Nat /\ accepted \in Nat /\ this_k \in Nat
      /\ call \in Calls /\ script \in Scripts
  BY DEF RunInv, Emitting, IndInv, TypeOK, BenchCall
<1>2. ~ DraftConfirmed /\ n \in 1 .. Len(NewTokens) /\ eos \in BOOLEAN
      /\ (eos <=> NewTokens[n] = call.eos_token_id)
      /\ Emit(SubSeq(NewTokens, 1, n), eos)
  BY DEF Emitting
<1>3. eos = FALSE
  <2>1. NewTokens \in Seq(TargetToken)
    BY <1>1, <1>2, RoundTokens
  <2>2. NewTokens[n] \in TargetToken
    BY <1>2, <2>1
  <2>3. call.eos_token_id = NoEos
    BY <1>1, BenchCallFacts
  <2> QED BY <1>2, <2>2, <2>3, VocabAssumption
<1>4. Emitting(n, FALSE)
  BY <1>3
<1>5. /\ n_new \in 0 .. script.n /\ n_new # script.n
      /\ CostWindow(n_new) = this_k
      /\ CostRight(call.input_ids, n_new) = accepted
      /\ CostNext(call.input_ids, n_new) = n_new'
  BY <1>1, <1>4, RoundAsPredicted
<1>6. /\ stats'.rounds = stats.rounds + 1
      /\ stats'.tokens_proposed = stats.tokens_proposed + this_k
      /\ stats'.tokens_accepted_from_draft = stats.tokens_accepted_from_draft + accepted
      /\ call' = call
  BY <1>2 DEF Emit, CountRound
<1>7. PICK r, p, a \in Nat : /\ r = stats.rounds /\ p = stats.tokens_proposed
                             /\ a = stats.tokens_accepted_from_draft
  BY <1>1 DEF StatsType
<1>8. stats'.rounds <= stats'.tokens_proposed
  <2>1. this_k > 0
    BY <1>1 DEF IndInv, AtAccept
  <2>2. r <= p
    BY <1>1, <1>7
  <2>3. r + 1 <= p + this_k
    BY <1>1, <2>1, <2>2
  <2> QED BY <1>6, <1>7, <2>3
<1>9. ASSUME NEW c, Costs(c, call.input_ids)' PROVE Accounted(c)'
  <2>1. Costs(c, call.input_ids)
    <3>1. PICK ids : ids = call.input_ids
      OBVIOUS
    <3>2. Costs(c, ids)'
      BY <1>6, <1>9, <3>1 DEF Costs
    <3> QED BY <3>1, <3>2, CostsKept
  <2>2. Accounted(c)
    BY <1>1, <2>1
  <2>3. c[n_new] = [rounds |-> c[n_new'].rounds + 1,
                    proposed |-> c[n_new'].proposed + this_k,
                    accepted |-> c[n_new'].accepted + accepted]
    <3>1. c[n_new] = CostAt(c, call.input_ids, n_new)
      BY <1>5, <2>1 DEF Costs
    <3> QED BY <1>5, <3>1 DEF CostAt
  <2>4. c[n_new'] \in CostType
    <3>1. n_new' \in n_new + 1 .. script.n /\ script.n \in Nat
      BY <1>1, <1>5, RoundCosts, ScriptFacts
    <3>2. n_new' \in 0 .. script.n
      BY <1>1, <3>1
    <3> QED BY <1>1, <2>1, <3>2, CostsTyped
  <2>5. PICK cr, cp, ca \in Nat : /\ cr = c[n_new'].rounds /\ cp = c[n_new'].proposed
                                  /\ ca = c[n_new'].accepted
    BY <2>4 DEF CostType
  <2>6. /\ r + (cr + 1) = c[0].rounds
        /\ p + (cp + this_k) = c[0].proposed
        /\ a + (ca + accepted) = c[0].accepted
    BY <1>7, <2>2, <2>3, <2>5 DEF Accounted
  <2>7. /\ (r + 1) + cr = c[0].rounds
        /\ (p + this_k) + cp = c[0].proposed
        /\ (a + accepted) + ca = c[0].accepted
    BY <1>1, <2>6
  <2> QED BY <1>6, <1>7, <2>5, <2>7 DEF Accounted
<1> QED BY <1>8, <1>9

\* Every other step leaves the statistics and their prediction alone.
LEMMA QuietAccounted ==
    ASSUME RunInv, UNCHANGED <<script, call, n_new, stats>>
    PROVE  /\ stats'.rounds <= stats'.tokens_proposed
           /\ (\A c : Costs(c, call.input_ids) => Accounted(c))'
<1>1. ASSUME NEW c, Costs(c, call.input_ids)' PROVE Accounted(c)'
  <2>1. Costs(c, call.input_ids)
    <3>1. PICK ids : ids = call.input_ids
      OBVIOUS
    <3>2. Costs(c, ids)'
      BY <1>1, <3>1 DEF Costs
    <3> QED BY <3>1, <3>2, CostsKept
  <2> QED BY <2>1 DEF RunInv, Accounted
<1> QED BY <1>1 DEF RunInv

LEMMA RunStep == RunInv /\ [Next]_vars /\ UNCHANGED script => RunInv'
<1> SUFFICES ASSUME RunInv, [Next]_vars, UNCHANGED script PROVE RunInv'
  OBVIOUS
<1>1. IndInv' /\ StatsAddUp' /\ IndInv /\ BenchCall
  BY NextIndInv, StatsStep DEF RunInv
<1>2. call' = call
  BY DEF Next, Prefill, StartRound, ExitLoop, DraftOne, CatOfNothing, Verify,
         AcceptOne, EmitAll, EmitThroughEos, Emit, Fold, Finished, vars
<1>3. BenchCall'
  BY <1>1, <1>2 DEF BenchCall, CallOf, CallBy
<1>4. CASE EmitAll \/ EmitThroughEos
  <2>1. PICK n, eos : Emitting(n, eos)
    BY <1>1, <1>4, EmitIsEmitting
  <2>2. /\ stats'.rounds <= stats'.tokens_proposed
        /\ (\A c : Costs(c, call.input_ids) => Accounted(c))'
    BY <1>1, <1>3, <2>1, EmitAccounted
  <2>3. pc' \notin {"draft", "accept"}
    BY <1>4 DEF EmitAll, EmitThroughEos, Emit
  <2> QED BY <1>1, <1>3, <2>2, <2>3 DEF RunInv
<1>5. CASE Prefill \/ StartRound \/ ExitLoop \/ DraftOne \/ CatOfNothing \/ Verify
             \/ AcceptOne \/ Fold \/ UNCHANGED vars
  <2>1. UNCHANGED <<script, call, n_new, stats>>
    BY <1>5 DEF Prefill, StartRound, ExitLoop, DraftOne, CatOfNothing, Verify, AcceptOne,
                Fold, vars, output, round
  <2>2. /\ stats'.rounds <= stats'.tokens_proposed
        /\ (\A c : Costs(c, call.input_ids) => Accounted(c))'
    BY <2>1, QuietAccounted
  <2>3. Window' = Window
    BY <2>1 DEF Window, remaining
  <2>4. pc' \in {"draft", "accept"} => this_k' = Window'
    BY <1>5, <2>3 DEF RunInv, Prefill, StartRound, ExitLoop, DraftOne, CatOfNothing, Verify,
                      AcceptOne, Fold, vars, output, round
  <2> QED BY <1>1, <1>3, <2>2, <2>4 DEF RunInv
<1> QED BY <1>4, <1>5 DEF Next, Finished


-----------------------------------------------------------------------------
(* benchmark.py: rows hold the costs of the first prompts of the plan, in  *)
(* order, and todo the prompts that are left.                              *)
Plan == Chosen(script.all)

RowType ==
    [id : BENCH_PROMPT_IDS, acceptance_rate : Nat \X Nat, rounds : Nat,
     tokens_generated : Nat]

\* row is what decoding prompt p costs, all of it and nothing else.
RowOwn(row, p) ==
    /\ row.id = p.id
    /\ row.rounds = Cost(p.ids).rounds
    /\ row.acceptance_rate = <<Cost(p.ids).accepted, Cost(p.ids).proposed>>
    /\ row.acceptance_rate[1] \in 0 .. row.acceptance_rate[2]
    /\ row.acceptance_rate[2] > 0
    /\ row.tokens_generated = script.n

Measuring ==
    /\ todo \in Seq(Range(script.all))
    /\ Len(rows) + Len(todo) = Len(Plan)
    /\ \A i \in 1 .. Len(todo) : todo[i] = Plan[Len(rows) + i]

Stages ==
    {"select", "warm_plain", "warm_speculative", "plain", "speculative", "open", "dump",
     "done", "failed"}

BenchInv ==
    /\ RunInv
    /\ stage \in Stages
    /\ rows \in Seq(RowType)
    /\ \A i \in 1 .. Len(rows) : RowOwn(rows[i], Plan[i])
    /\ Len(rows) <= Len(Plan)
    /\ stage \in {"select", "warm_plain", "warm_speculative"} => rows = << >>
    /\ stage # "select" => Measuring
    /\ stage \notin {"select", "failed"} => Asserted(Plan)
    /\ stage \in {"plain", "speculative"} => todo # << >> /\ call = CallOf(todo[1].ids)
    /\ stage \in {"open", "dump", "done"} => todo = << >>
    /\ results.is = "whole" <=> stage = "done"
    /\ stage = "done" => results.rows = rows

LEMMA PlanSelects ==
    ASSUME script \in Scripts
    PROVE  Selection(Plan, script.all) /\ Len(Plan) \in Nat
BY ChosenSelects DEF Plan, Selection

\* The statistics of a call that returned, as a row.
LEMMA RowOfReturned ==
    ASSUME RunInv, pc = "returned", NEW p, call = CallOf(p.ids), p.id \in BENCH_PROMPT_IDS
    PROVE  RowOwn(Row(p.id), p) /\ Row(p.id) \in RowType
<1>1. /\ IndInv /\ StatsAddUp /\ script \in Scripts /\ call \in Calls /\ BenchCall
      /\ stats \in StatsType /\ call.input_ids = p.ids
  BY DEF RunInv, IndInv, TypeOK, BenchCall, CallOf, CallBy
<1>2. /\ call.max_new_tokens = script.n /\ call.eos_token_id = NoEos
      /\ script.n \in Nat \ {0}
  BY <1>1, BenchCallFacts
<1>3. n_new = script.n
  BY <1>1, <1>2, BudgetFilled
<1>4. PICK c : Costs(c, p.ids) /\ Cost(p.ids) = c[0]
  BY <1>1, CostIs
<1>5. c[script.n] = NoCost
  <2>1. script.n \in 0 .. script.n
    BY <1>2
  <2>2. c[script.n] = CostAt(c, p.ids, script.n)
    BY <1>4, <2>1 DEF Costs
  <2> QED BY <2>2 DEF CostAt
<1>6. PICK r, q, a \in Nat : /\ r = stats.rounds /\ q = stats.tokens_proposed
                             /\ a = stats.tokens_accepted_from_draft
  BY <1>1 DEF StatsType
<1>7. /\ r = Cost(p.ids).rounds /\ q = Cost(p.ids).proposed /\ a = Cost(p.ids).accepted
  <2>1. Accounted(c)
    BY <1>1, <1>4 DEF RunInv
  <2>2. r + 0 = c[0].rounds /\ q + 0 = c[0].proposed /\ a + 0 = c[0].accepted
    BY <1>3, <1>5, <1>6, <2>1 DEF Accounted, NoCost
  <2> QED BY <1>4, <2>2
<1>8. stats.tokens_generated = script.n /\ script.n <= a + r /\ a <= q /\ r <= q
  BY <1>1, <1>3, <1>6 DEF StatsAddUp, RunInv
<1>9. q > 0
  BY <1>2, <1>8
<1>10. (IF q > 1 THEN q ELSE 1) = q
  BY <1>9
<1>11. Row(p.id) = [id |-> p.id, acceptance_rate |-> <<a, q>>, rounds |-> r,
                    tokens_generated |-> script.n]
  BY <1>6, <1>8, <1>10 DEF Row, AcceptanceRate
<1>12. a \in 0 .. q /\ script.n \in Nat
  BY <1>2, <1>8
<1> QED BY <1>7, <1>9, <1>11, <1>12 DEF RowOwn, RowType

\* What a prompt costs depends on the script's constants alone.
LEMMA CostKept ==
    ASSUME UNCHANGED script
    PROVE  \A ids : Cost(ids)' = Cost(ids)
<1> SUFFICES ASSUME NEW ids PROVE Cost(ids)' = Cost(ids)
  OBVIOUS
<1>1. Cost(ids) = (CHOOSE c : Costs(c, ids))[0]
  BY DEF Cost, Costs, CostAt, CostWindow, CostRight, CostNext, NoCost
<1>2. Cost(ids)' = (CHOOSE c : Costs(c, ids)')[0]
  BY DEF Cost, Costs, CostAt, CostWindow, CostRight, CostNext, NoCost
<1>3. \A c : Costs(c, ids)' <=> Costs(c, ids)
  BY CostsKept
<1>4. (CHOOSE c : Costs(c, ids)') = (CHOOSE c : Costs(c, ids))
  BY <1>3, Zenon
<1> QED BY <1>1, <1>2, <1>4

\* What has been measured stays so while the script's constants do.
LEMMA RowsKept ==
    ASSUME UNCHANGED script
    PROVE  /\ Plan' = Plan
           /\ (\A i \in 1 .. Len(rows) : RowOwn(rows[i], Plan[i])) /\ UNCHANGED rows
                => (\A i \in 1 .. Len(rows) : RowOwn(rows[i], Plan[i]))'
           /\ \A row, p : RowOwn(row, p)' <=> RowOwn(row, p)
<1>1. Plan' = Plan
  BY DEF Plan
<1>4. \A ids : Cost(ids)' = Cost(ids)
  BY CostKept
<1>5. \A row, p : RowOwn(row, p)' <=> RowOwn(row, p)
  BY <1>4 DEF RowOwn
<1>6. ASSUME \A i \in 1 .. Len(rows) : RowOwn(rows[i], Plan[i]), UNCHANGED rows
      PROVE  (\A i \in 1 .. Len(rows) : RowOwn(rows[i], Plan[i]))'
  BY <1>1, <1>4, <1>6 DEF RowOwn
<1> QED BY <1>1, <1>5, <1>6

LEMMA BenchStarts == BenchInit => BenchInv
<1> SUFFICES ASSUME BenchInit PROVE BenchInv
  OBVIOUS
<1>1. BenchCall
  BY DEF BenchInit, BenchCall, CallOf, CallBy
<1>2. RunInv
  BY <1>1, RunStarts DEF BenchInit
<1>3. rows = << >> /\ << >> \in Seq(RowType) /\ Len(<< >>) = 0 /\ script \in Scripts
  BY DEF BenchInit
<1>4. Len(Plan) \in Nat
  BY <1>3, PlanSelects
<1> QED BY <1>2, <1>3, <1>4 DEF BenchInit, BenchInv, Stages

LEMMA SelectStep == BenchInv /\ Select => BenchInv'
<1> SUFFICES ASSUME BenchInv, Select PROVE BenchInv'
  OBVIOUS
<1>1. /\ stage = "select" /\ todo' = Plan /\ UNCHANGED <<vars, script, rows, results>>
      /\ stage' = IF Asserted(Plan) THEN "warm_plain" ELSE "failed"
  BY DEF Select, Plan
<1>2. RunInv'
  BY <1>1, RunStep DEF BenchInv
<1>3. /\ rows = << >> /\ script \in Scripts /\ results.is # "whole"
  BY <1>1 DEF BenchInv, RunInv, BenchCall
<1>4. /\ Plan' = Plan
      /\ Plan \in Seq(Range(script.all)) /\ Len(Plan) \in Nat
  BY <1>1, <1>3, RowsKept, PlanSelects DEF Selection
<1>5. Measuring'
  BY <1>1, <1>3, <1>4 DEF Measuring
<1>6. rows' \in Seq(RowType) /\ rows' = << >> /\ Len(<< >>) = 0
  BY <1>1, <1>3 DEF BenchInv
<1>7. Asserted(Plan)' <=> Asserted(Plan)
  BY <1>4 DEF Asserted
<1> QED BY <1>1, <1>2, <1>3, <1>4, <1>5, <1>6, <1>7 DEF BenchInv, Stages

\* Steps that measure nothing: all but the stage and the call stays.
LEMMA QuietStep ==
    ASSUME BenchInv, RunInv', UNCHANGED <<script, todo, rows>>, stage # "select",
           stage' \in Stages \ {"select", "done"},
           results'.is # "whole",
           stage' \in {"warm_plain", "warm_speculative"} => rows = << >>,
           stage' # "failed" => stage # "failed",
           stage' \in {"plain", "speculative"} => todo # << >> /\ call' = CallOf(todo[1].ids)',
           stage' \in {"open", "dump"} => todo = << >>
    PROVE  BenchInv'
<1>1. Plan' = Plan
  BY RowsKept
<1>2. Measuring'
  BY <1>1 DEF BenchInv, Measuring
<1>3. (\A i \in 1 .. Len(rows) : RowOwn(rows[i], Plan[i]))'
  BY RowsKept DEF BenchInv
<1>4. Asserted(Plan)' <=> Asserted(Plan)
  BY <1>1 DEF Asserted
<1> QED BY <1>1, <1>2, <1>3, <1>4 DEF BenchInv, Stages

LEMMA TimedPlainStep == BenchInv /\ TimedPlain => BenchInv'
<1> SUFFICES ASSUME BenchInv, TimedPlain PROVE BenchInv'
  OBVIOUS
<1>1. UNCHANGED <<vars, script, todo, rows, results>>
  BY DEF TimedPlain
<1>2. \/ stage = "warm_plain" /\ stage' = "warm_speculative"
      \/ stage = "plain" /\ stage' = "speculative"
  BY DEF TimedPlain
<1>3. RunInv'
  BY <1>1, RunStep DEF BenchInv
<1>4. CallOf(todo[1].ids)' = CallOf(todo[1].ids) /\ call' = call
  BY <1>1 DEF CallOf, CallBy, vars
<1>5. results'.is # "whole"
  BY <1>1, <1>2 DEF BenchInv
<1> QED BY <1>1, <1>2, <1>3, <1>4, <1>5, QuietStep DEF BenchInv, Stages

LEMMA TimedSpeculativeStep == BenchInv /\ TimedSpeculative => BenchInv'
<1> SUFFICES ASSUME BenchInv, TimedSpeculative PROVE BenchInv'
  OBVIOUS
<1>1. /\ stage \in {"warm_speculative", "speculative"}
      /\ UNCHANGED <<script, stage, todo, rows, results>> /\ Next
  BY DEF TimedSpeculative, bench
<1>2. RunInv'
  BY <1>1, RunStep DEF BenchInv
<1>3. call' = call
  BY <1>1
  DEF Next, Prefill, StartRound, ExitLoop, DraftOne, CatOfNothing, Verify,
      AcceptOne, EmitAll, EmitThroughEos, Emit, Fold, Finished, vars
<1>4. CallOf(todo[1].ids)' = CallOf(todo[1].ids)
  BY <1>1 DEF CallOf, CallBy
<1>5. results'.is # "whole"
  BY <1>1 DEF BenchInv
<1> QED BY <1>1, <1>2, <1>3, <1>4, <1>5, QuietStep DEF BenchInv, Stages

\* A call for a prompt of the plan starts the decoder afresh.
LEMMA EnterPrompt ==
    ASSUME script \in Scripts, NEW p \in Range(script.all), Enter(CallOf(p.ids)),
           UNCHANGED script
    PROVE  RunInv' /\ call' = CallOf(p.ids) /\ CallOf(p.ids)' = CallOf(p.ids)
<1>1. CallOf(p.ids) \in Calls
  BY ScriptFacts
<1>2. Init'
  BY <1>1, EnterStarts
<1>3. call' = CallOf(p.ids)
  BY DEF Enter, Restart
<1>4. CallOf(p.ids)' = CallOf(p.ids)
  BY DEF CallOf, CallBy
<1>5. BenchCall'
  BY <1>3 DEF BenchCall, CallOf, CallBy
<1>6. Init' /\ BenchCall' => RunInv'
  BY RunStarts, PTL
<1> QED BY <1>2, <1>3, <1>4, <1>5, <1>6

LEMMA WarmedUpStep == BenchInv /\ WarmedUp => BenchInv'
<1> SUFFICES ASSUME BenchInv, WarmedUp PROVE BenchInv'
  OBVIOUS
<1>1. /\ stage = "warm_speculative" /\ stage' = "plain"
      /\ Enter(CallOf(Head(todo).ids)) /\ UNCHANGED <<script, todo, rows, results>>
  BY DEF WarmedUp
<1>2. /\ Measuring /\ rows = << >> /\ Asserted(Plan) /\ script \in Scripts
      /\ results.is # "whole"
  BY <1>1 DEF BenchInv, RunInv, BenchCall
<1>3. Len(Plan) # 0
  <2>1. Len(Plan) = Cardinality(BENCH_PROMPT_IDS)
    BY <1>2 DEF Asserted
  <2>2. IsFiniteSet(BENCH_PROMPT_IDS) /\ BENCH_PROMPT_IDS # {}
    BY ScriptAssumption
  <2> QED BY <2>1, <2>2, FS_EmptySet
<1>4. /\ todo \in Seq(Range(script.all)) /\ Len(todo) = Len(Plan)
  <2>1. Len(rows) = 0 /\ Len(todo) \in Nat
    BY <1>2 DEF Measuring
  <2> QED BY <1>2, <2>1 DEF Measuring
<1>5. todo # << >> /\ Head(todo) = todo[1] /\ todo[1] \in Range(script.all)
  BY <1>3, <1>4
<1>6. RunInv' /\ call' = CallOf(todo[1].ids) /\ CallOf(todo[1].ids)' = CallOf(todo[1].ids)
  <2>1. PICK p : p = todo[1]
    OBVIOUS
  <2>2. RunInv' /\ call' = CallOf(p.ids) /\ CallOf(p.ids)' = CallOf(p.ids)
    BY <1>1, <1>2, <1>5, <2>1, EnterPrompt
  <2>3. CallOf(todo[1].ids)' = CallOf(todo[1].ids)
    BY <1>1 DEF CallOf, CallBy
  <2> QED BY <2>1, <2>2, <2>3
<1> QED BY <1>1, <1>2, <1>5, <1>6, QuietStep DEF Stages


LEMMA AppendRowStep == BenchInv /\ AppendRow => BenchInv'
<1> SUFFICES ASSUME BenchInv, AppendRow PROVE BenchInv'
  OBVIOUS
<1>1. /\ stage = "speculative" /\ pc = "returned"
      /\ rows' = Append(rows, Row(Head(todo).id)) /\ todo' = Tail(todo)
      /\ UNCHANGED <<script, results>>
      /\ \/ Len(todo) > 1 /\ stage' = "plain" /\ Enter(CallOf(todo[2].ids))
         \/ ~ (Len(todo) > 1) /\ stage' = "open" /\ UNCHANGED vars
  BY DEF AppendRow
<1>2. /\ RunInv /\ Measuring /\ todo # << >> /\ Asserted(Plan)
      /\ call = CallOf(todo[1].ids) /\ script \in Scripts
      /\ rows \in Seq(RowType) /\ \A i \in 1 .. Len(rows) : RowOwn(rows[i], Plan[i])
      /\ results.is # "whole"
  BY <1>1 DEF BenchInv, RunInv, BenchCall
<1>3. /\ Len(todo) \in Nat \ {0} /\ Len(rows) \in Nat
      /\ Len(rows) + Len(todo) = Len(Plan) /\ Len(Plan) \in Nat
      /\ \A i \in 1 .. Len(todo) : todo[i] = Plan[Len(rows) + i]
      /\ todo \in Seq(Range(script.all))
  BY <1>2 DEF Measuring
<1>4. PICK p : p = todo[1]
  OBVIOUS
<1>5. Head(todo) = p /\ p = Plan[Len(rows) + 1] /\ p.id \in BENCH_PROMPT_IDS
  <2>1. Len(rows) + 1 \in 1 .. Len(Plan) /\ 1 \in 1 .. Len(todo)
    BY <1>3
  <2>2. Plan[Len(rows) + 1].id \in BENCH_PROMPT_IDS
    BY <1>2, <2>1, PlanSelects DEF Selection
  <2>3. todo[1] = Plan[Len(rows) + 1] /\ Head(todo) = todo[1]
    BY <1>3, <2>1
  <2> QED BY <1>4, <2>2, <2>3
<1>6. RowOwn(Row(p.id), p) /\ Row(p.id) \in RowType
  BY <1>1, <1>2, <1>4, <1>5, RowOfReturned
<1>7. PICK row : row = Row(p.id)
  OBVIOUS
<1>8. /\ rows' = Append(rows, row) /\ rows' \in Seq(RowType)
      /\ Len(rows') = Len(rows) + 1 /\ rows'[Len(rows) + 1] = row
      /\ \A i \in 1 .. Len(rows) : rows'[i] = rows[i]
  BY <1>1, <1>2, <1>3, <1>5, <1>6, <1>7
<1>9. /\ Plan' = Plan
      /\ \A x, q : RowOwn(x, q)' <=> RowOwn(x, q)
  BY <1>1, RowsKept
<1>10. (\A i \in 1 .. Len(rows) : RowOwn(rows[i], Plan[i]))'
  <2>1. \A i \in 1 .. Len(rows') : i \in 1 .. Len(rows) \/ i = Len(rows) + 1
    BY <1>3, <1>8
  <2>2. \A i \in 1 .. Len(rows') : RowOwn(rows'[i], Plan[i])
    BY <1>2, <1>5, <1>6, <1>7, <1>8, <2>1
  <2>3. script' = script
    BY <1>1
  <2>4. \A ids : Cost(ids)' = Cost(ids)
    BY <2>3, CostKept
  <2> QED BY <1>9, <2>2, <2>3, <2>4 DEF RowOwn
<1>11. /\ todo' \in Seq(Range(script.all)) /\ Len(todo') = Len(todo) - 1
       /\ \A i \in 1 .. Len(todo') : todo'[i] = todo[i + 1] /\ i + 1 \in 1 .. Len(todo)
  BY <1>1, <1>2, <1>3
<1>12. Measuring'
  <2>1. Len(rows') + Len(todo') = Len(Plan)
    <3>1. PICK r, t \in Nat : r = Len(rows) /\ t = Len(todo)
      BY <1>3
    <3>2. Len(rows') = r + 1 /\ Len(todo') = t - 1 /\ r + t = Len(Plan)
      BY <1>3, <1>8, <1>11, <3>1
    <3> QED BY <3>2
  <2>2. \A i \in 1 .. Len(todo') : todo'[i] = Plan[Len(rows') + i]
    <3> SUFFICES ASSUME NEW i \in 1 .. Len(todo') PROVE todo'[i] = Plan[Len(rows') + i]
      OBVIOUS
    <3>1. i \in Nat /\ Len(rows') + i = Len(rows) + (i + 1)
      BY <1>3, <1>8, <1>11
    <3> QED BY <1>3, <1>11, <3>1
  <2>3. script' = script
    BY <1>1
  <2> QED BY <1>9, <1>11, <2>1, <2>2, <2>3 DEF Measuring
<1>13. Asserted(Plan)' <=> Asserted(Plan)
  BY <1>9 DEF Asserted
<1>14. Len(rows') <= Len(Plan)
  BY <1>3, <1>8
<1>15. results'.is # "whole"
  BY <1>1, <1>2
<1>16. CASE Len(todo) > 1 /\ stage' = "plain" /\ Enter(CallOf(todo[2].ids))
  <2>1. PICK q : q = todo[2]
    OBVIOUS
  <2>2. todo'[1] = q /\ todo' # << >> /\ q \in Range(script.all)
    <3>1. 1 \in 1 .. Len(todo') /\ 1 + 1 = 2 /\ 2 \in 1 .. Len(todo)
      BY <1>3, <1>11, <1>16
    <3>2. todo'[1] = todo[2]
      BY <1>11, <3>1
    <3>3. todo' # << >>
      BY <3>1
    <3>4. todo[2] \in Range(script.all)
      BY <1>3, <3>1
    <3> QED BY <2>1, <3>2, <3>3, <3>4
  <2>3. RunInv' /\ call' = CallOf(q.ids) /\ CallOf(q.ids)' = CallOf(q.ids)
    BY <1>1, <1>2, <1>16, <2>1, <2>2, EnterPrompt
  <2>4. CallOf(todo[1].ids)' = CallOf(q.ids)
    BY <1>1, <2>2 DEF CallOf, CallBy
  <2>5. stage' = "plain" /\ rows' \in Seq(RowType)
    BY <1>8, <1>16
  <2> QED
    BY <1>9, <1>10, <1>12, <1>13, <1>14, <1>15, <1>2, <2>2, <2>3, <2>4, <2>5
    DEF BenchInv, Stages
<1>17. CASE ~ (Len(todo) > 1) /\ stage' = "open" /\ UNCHANGED vars
  <2>1. RunInv'
    BY <1>1, <1>2, <1>17, RunStep
  <2>2. todo' = << >>
    BY <1>3, <1>11, <1>17
  <2>3. stage' = "open" /\ rows' \in Seq(RowType)
    BY <1>8, <1>17
  <2> QED
    BY <1>9, <1>10, <1>12, <1>13, <1>14, <1>15, <1>2, <2>1, <2>2, <2>3
    DEF BenchInv, Stages
<1> QED BY <1>1, <1>16, <1>17

LEMMA RunOutOfMemoryStep == BenchInv /\ RunOutOfMemory => BenchInv'
<1> SUFFICES ASSUME BenchInv, RunOutOfMemory PROVE BenchInv'
  OBVIOUS
<1>1. /\ stage \in {"warm_plain", "plain", "warm_speculative", "speculative"}
      /\ stage' = "failed" /\ UNCHANGED <<vars, script, todo, rows, results>>
  BY DEF RunOutOfMemory
<1>2. RunInv'
  BY <1>1, RunStep DEF BenchInv
<1>3. results'.is # "whole"
  BY <1>1 DEF BenchInv
<1> QED BY <1>1, <1>2, <1>3, QuietStep DEF Stages

LEMMA OpenResultsStep == BenchInv /\ OpenResults => BenchInv'
<1> SUFFICES ASSUME BenchInv, OpenResults PROVE BenchInv'
  OBVIOUS
<1>1. /\ stage = "open" /\ stage' = "dump" /\ UNCHANGED <<vars, script, todo, rows>>
      /\ results' = [is |-> "torn", rows |-> << >>]
  BY DEF OpenResults
<1>2. RunInv'
  BY <1>1, RunStep DEF BenchInv
<1>3. results'.is # "whole"
  BY <1>1
<1>4. todo = << >>
  BY <1>1 DEF BenchInv
<1> QED BY <1>1, <1>2, <1>3, <1>4, QuietStep DEF Stages

LEMMA DumpStep == BenchInv /\ Dump => BenchInv'
<1> SUFFICES ASSUME BenchInv, Dump PROVE BenchInv'
  OBVIOUS
<1>1. /\ stage = "dump" /\ UNCHANGED <<vars, script, todo, rows>>
      /\ \/ results' = [is |-> "whole", rows |-> rows] /\ stage' = "done"
         \/ results' = results /\ stage' = "failed"
  BY DEF Dump
<1>2. RunInv'
  BY <1>1, RunStep DEF BenchInv
<1>3. results.is # "whole" /\ todo = << >>
  BY <1>1 DEF BenchInv
<1>4. CASE results' = results /\ stage' = "failed"
  BY <1>1, <1>2, <1>3, <1>4, QuietStep DEF Stages
<1>5. CASE results' = [is |-> "whole", rows |-> rows] /\ stage' = "done"
  <2>1. Plan' = Plan /\ (\A i \in 1 .. Len(rows) : RowOwn(rows[i], Plan[i]))'
    BY <1>1, RowsKept DEF BenchInv
  <2>2. Measuring'
    BY <1>1, <2>1 DEF BenchInv, Measuring
  <2>3. Asserted(Plan)' <=> Asserted(Plan)
    BY <2>1 DEF Asserted
  <2>4. results'.is = "whole" /\ results'.rows = rows'
    BY <1>1, <1>5
  <2> QED BY <1>1, <1>2, <1>3, <1>5, <2>1, <2>2, <2>3, <2>4 DEF BenchInv, Stages
<1> QED BY <1>1, <1>4, <1>5

LEMMA BenchStutter == BenchInv /\ UNCHANGED bench_vars => BenchInv'
<1> SUFFICES ASSUME BenchInv, UNCHANGED bench_vars PROVE BenchInv'
  OBVIOUS
<1>1. UNCHANGED <<vars, script, stage, todo, rows, results>>
  BY DEF bench_vars, bench
<1>2. RunInv'
  BY <1>1, RunStep DEF BenchInv
<1>3. Plan' = Plan /\ (\A i \in 1 .. Len(rows) : RowOwn(rows[i], Plan[i]))'
  BY <1>1, RowsKept DEF BenchInv
<1>4. Measuring' <=> Measuring
  BY <1>1, <1>3 DEF Measuring
<1>5. Asserted(Plan)' <=> Asserted(Plan)
  BY <1>3 DEF Asserted
<1>6. CallOf(todo[1].ids)' = CallOf(todo[1].ids) /\ call' = call
  BY <1>1 DEF CallOf, CallBy, vars
<1> QED BY <1>1, <1>2, <1>3, <1>4, <1>5, <1>6 DEF BenchInv

LEMMA BenchInvStep == BenchInv /\ [BenchNext]_bench_vars => BenchInv'
<1> SUFFICES ASSUME BenchInv, [BenchNext]_bench_vars PROVE BenchInv'
  OBVIOUS
<1>1. CASE Select
  BY <1>1, SelectStep
<1>2. CASE TimedPlain
  BY <1>2, TimedPlainStep
<1>3. CASE TimedSpeculative
  BY <1>3, TimedSpeculativeStep
<1>4. CASE WarmedUp
  BY <1>4, WarmedUpStep
<1>5. CASE AppendRow
  BY <1>5, AppendRowStep
<1>6. CASE RunOutOfMemory
  BY <1>6, RunOutOfMemoryStep
<1>7. CASE OpenResults
  BY <1>7, OpenResultsStep
<1>8. CASE Dump
  BY <1>8, DumpStep
<1>9. CASE BenchEnded \/ UNCHANGED bench_vars
  BY <1>9, BenchStutter DEF BenchEnded
<1> QED
  BY <1>1, <1>2, <1>3, <1>4, <1>5, <1>6, <1>7, <1>8, <1>9 DEF BenchNext

LEMMA BenchInvHolds == BenchSpec => []BenchInv
BY BenchInvStep, BenchStarts, PTL DEF BenchSpec

-----------------------------------------------------------------------------
LEMMA BenchTypesOK == BenchInv => BenchTypeOK
<1> SUFFICES ASSUME BenchInv PROVE BenchTypeOK
  OBVIOUS
<1>1. \A i \in 1 .. Len(rows) : rows[i] \in RowType /\ RowOwn(rows[i], Plan[i])
  BY DEF BenchInv
<1>2. stage \in Stages
  BY DEF BenchInv
<1> QED BY <1>1, <1>2 DEF BenchTypeOK, RowType, RowOwn, Stages

(* benchmark.py: a row names a measured prompt and its acceptance rate is  *)
(* a fraction between 0 and 1.                                             *)
THEOREM BenchTypes == BenchSpec => []BenchTypeOK
BY BenchTypesOK, BenchInvHolds, PTL

(* benchmark.py: each row reports what decoding its own prompt costs.      *)
THEOREM RowsReportTheirPrompts == BenchSpec => []RowsAreOwn
<1>1. BenchInv => RowsAreOwn
  <2> SUFFICES ASSUME BenchInv, NEW i \in 1 .. Len(rows)
               PROVE  LET asked == CHOOSE p \in Range(script.all) : p.id = rows[i].id
                          cost == Cost(asked.ids)
                      IN  /\ rows[i].rounds = cost.rounds
                          /\ rows[i].acceptance_rate = <<cost.accepted, cost.proposed>>
    BY DEF RowsAreOwn
  <2>1. /\ script \in Scripts /\ Len(rows) \in Nat /\ Len(rows) <= Len(Plan)
        /\ RowOwn(rows[i], Plan[i])
    BY DEF BenchInv, RunInv, BenchCall
  <2>2. PICK p : p = Plan[i]
    OBVIOUS
  <2>3. p \in Range(script.all)
    <3>1. Selection(Plan, script.all) /\ Len(Plan) \in Nat
      BY <2>1, PlanSelects
    <3> QED BY <2>1, <2>2, <3>1 DEF Selection
  <2>4. p.id = rows[i].id
    BY <2>1, <2>2 DEF RowOwn
  <2>5. \A q \in Range(script.all) : q.id = rows[i].id => q = p
    <3>1. \A l, j \in 1 .. Len(script.all) : script.all[l].id = script.all[j].id => l = j
      BY <2>1, ScriptAssumption
    <3>2. script.all \in Seq(Range(script.all))
      BY <2>1, ScriptAssumption
    <3>3. \A q \in Range(script.all) : \E l \in 1 .. Len(script.all) : q = script.all[l]
      BY <3>2 DEF Range
    <3> QED BY <2>3, <2>4, <3>1, <3>3
  <2>6. PICK asked : asked = CHOOSE q \in Range(script.all) : q.id = rows[i].id
    OBVIOUS
  <2>7. asked = p
    BY <2>3, <2>4, <2>5, <2>6
  <2>8. /\ rows[i].rounds = Cost(asked.ids).rounds
        /\ rows[i].acceptance_rate = <<Cost(asked.ids).accepted, Cost(asked.ids).proposed>>
    BY <2>1, <2>2, <2>7 DEF RowOwn
  <2> QED BY <2>6, <2>8
<1> QED BY <1>1, BenchInvHolds, PTL

(* benchmark.py: every measured speculative generation is MAX_NEW_TOKENS   *)
(* long, as min_new_tokens makes the plain one (benchmark.py:45, 59).      *)
THEOREM SameWork == BenchSpec => []EqualWork
<1>1. BenchInv => EqualWork
  BY DEF BenchInv, RowOwn, EqualWork
<1> QED BY <1>1, BenchInvHolds, PTL

(* benchmark.py: results.json ends up with one row per measured id, or the *)
(* script did not end normally.                                            *)
THEOREM ResultsWhole == BenchSpec => []ResultsAreWhole
<1>1. BenchInv => ResultsAreWhole
  <2> SUFFICES ASSUME BenchInv, stage = "done"
               PROVE  /\ {results.rows[i].id : i \in 1 .. Len(results.rows)} = BENCH_PROMPT_IDS
                      /\ Len(results.rows) = Cardinality(BENCH_PROMPT_IDS)
    BY DEF BenchInv, ResultsAreWhole
  <2>1. /\ script \in Scripts /\ results.rows = rows /\ todo = << >> /\ Measuring
        /\ Asserted(Plan) /\ \A i \in 1 .. Len(rows) : RowOwn(rows[i], Plan[i])
        /\ rows \in Seq(RowType)
    BY DEF BenchInv, RunInv, BenchCall
  <2>2. Len(rows) = Len(Plan)
    <3>1. Len(todo) = 0 /\ Len(rows) \in Nat
      BY <2>1
    <3> QED BY <2>1, <3>1 DEF Measuring
  <2>3. \A i \in 1 .. Len(rows) : rows[i].id = Plan[i].id
    BY <2>1 DEF RowOwn
  <2>4. {Plan[i].id : i \in 1 .. Len(Plan)} = BENCH_PROMPT_IDS
    BY <2>1, PlanSelects, EveryIdSelected
  <2>5. Len(Plan) = Cardinality(BENCH_PROMPT_IDS)
    BY <2>1 DEF Asserted
  <2> QED BY <2>1, <2>2, <2>3, <2>4, <2>5
<1> QED BY <1>1, BenchInvHolds, PTL

-----------------------------------------------------------------------------
(* The two scripts side by side: one runs, the variables of the other are  *)
(* as they started.                                                        *)
ScriptsInv ==
    \/ running = "verify_correctness" /\ VerifyInv /\ stage = "select" /\ rows = << >>
    \/ running = "benchmark" /\ BenchInv /\ VerifyTypeOK

LEMMA ScriptsStart == MCInit => ScriptsInv
<1>1. NoVerification => VerifyTypeOK
  <2>1. << >> \in Seq(TargetToken \ EosIds)
    OBVIOUS
  <2> QED BY <2>1 DEF NoVerification, VerifyTypeOK
<1> QED BY <1>1, VerifyStarts, BenchStarts DEF MCInit, ScriptsInv, NoBenchmark

LEMMA ScriptsStep ==
    ScriptsInv /\ [MCNext]_<<running, vars, harness, bench>> => ScriptsInv'
<1> SUFFICES ASSUME ScriptsInv, [MCNext]_<<running, vars, harness, bench>>
             PROVE  ScriptsInv'
  OBVIOUS
<1>1. CASE running = "verify_correctness"
  <2>1. running' = running /\ UNCHANGED bench /\ [VerifyNext]_allvars
    BY <1>1 DEF MCNext, allvars
  <2>2. VerifyInv /\ stage = "select" /\ rows = << >>
    BY <1>1 DEF ScriptsInv
  <2>3. VerifyInv'
    BY <2>1, <2>2, VerifyInvStep
  <2>4. stage' = stage /\ rows' = rows
    BY <2>1 DEF bench
  <2> QED BY <1>1, <2>1, <2>2, <2>3, <2>4 DEF ScriptsInv
<1>2. CASE running = "benchmark"
  <2>1. running' = running /\ UNCHANGED harness /\ [BenchNext]_bench_vars
    BY <1>2 DEF MCNext, bench_vars
  <2>2. BenchInv /\ VerifyTypeOK
    BY <1>2 DEF ScriptsInv
  <2>3. BenchInv'
    BY <2>1, <2>2, BenchInvStep
  <2>4. VerifyTypeOK'
    BY <2>1, <2>2 DEF harness, VerifyTypeOK
  <2> QED BY <1>2, <2>1, <2>3, <2>4 DEF ScriptsInv
<1> QED BY <1>1, <1>2 DEF ScriptsInv

(* Whichever script runs, plain generation holds no EOS id and a row's     *)
(* acceptance rate is a fraction between 0 and 1 of a measured prompt.     *)
THEOREM ScriptTypes == MCSpec => []ScriptTypesOK
<1>1. ScriptsInv => ScriptTypesOK
  <2>1. stage = "select" /\ rows = << >> => BenchTypeOK
    BY DEF BenchTypeOK
  <2>2. VerifyInv => VerifyTypeOK
    BY DEF VerifyInv
  <2> QED BY <2>1, <2>2, BenchTypesOK DEF ScriptsInv, ScriptTypesOK
<1> QED BY <1>1, ScriptsStart, ScriptsStep, PTL DEF MCSpec
=============================================================================
