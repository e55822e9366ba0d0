------------------------- MODULE SignalCasterProofs -------------------------
(***************************************************************************)
(* The registry of casts, for any types, libraries and texts: what is      *)
(* registered under a name is for the type_info kept under that name, and  *)
(* stays so while plugins are loaded and unloaded.                         *)
(*                                                                         *)
(* The readers, for any text: what they take from one without throwing is  *)
(* written in it.  The text is made into tokens once (LexedBy), and each   *)
(* step of a reader is shown to have read the tokens that it says: what is *)
(* left of the text begins where these end (ReadTo), no later character    *)
(* changes them (LexedKeeps), and a stream or a reader that fails stays    *)
(* failed (FineBefore), so that the looks at it that are left out, after   *)
(* the size, are made up for by the last one.                              *)
(***************************************************************************)
EXTENDS SignalCaster, NatLemmas, SequenceTheorems

\* A step takes the registry from a state of its types to another one.
LEMMA StepTyped == TypeOK /\ [Next]_vars => TypeOK'
<1> SUFFICES ASSUME TypeOK, [Next]_vars PROVE TypeOK'
  OBVIOUS
<1> USE DEF TypeOK, existsCast
<1>1. ASSUME NEW t \in Types, NEW a \in Addresses, registerCast(t, a) PROVE TypeOK'
  BY <1>1 DEF registerCast
<1>2. ASSUME NEW t \in Types, unregisterCast(t) PROVE TypeOK'
  BY <1>2 DEF unregisterCast
<1>3. ASSUME NEW t \in Types, NEW text \in Texts[t], Set(t, text) PROVE TypeOK'
  BY <1>3 DEF Set
<1>4. CASE Destroy
  BY <1>4 DEF Destroy
<1>5. CASE UNCHANGED vars
  BY <1>5 DEF vars
<1> QED  BY <1>1, <1>2, <1>3, <1>4, <1>5 DEF Next

\* Functions are registered with the type_info they were compiled for, or not at all.
THEOREM TypeCorrect == Spec => []TypeOK
<1>1. Init => TypeOK
  BY DEF Init, TypeOK, existsCast
<1> QED  BY <1>1, StepTyped, PTL DEF Spec

\* A name that is registered before and after a step is for the same type_info:
\* registerCast() compares with the type_info of whoever registered the name, which
\* no call but unregisterCast() and destroy() parts from its functions.
THEOREM NeverReplaced == Spec => CastKept
<1> DEFINE Kept == \A t \in Types : existsCast(t) /\ existsCast(t)' => functions'[t] = functions[t]
<1>1. TypeOK /\ [Next]_vars => [Kept]_vars
  <2> SUFFICES ASSUME TypeOK, [Next]_vars,
                      NEW t \in Types, existsCast(t), existsCast(t)'
               PROVE  functions'[t] = functions[t]
    OBVIOUS
  <2> USE DEF TypeOK, existsCast
  <2>1. ASSUME NEW u \in Types, NEW a \in Addresses, registerCast(u, a)
        PROVE  functions'[t] = functions[t]
    BY <2>1 DEF registerCast
  <2>2. ASSUME NEW u \in Types, unregisterCast(u) PROVE functions'[t] = functions[t]
    BY <2>2 DEF unregisterCast
  <2>3. ASSUME NEW u \in Types, NEW text \in Texts[u], Set(u, text)
        PROVE  functions'[t] = functions[t]
    BY <2>3 DEF Set
  <2>4. ~ Destroy
    BY DEF Destroy
  <2>5. CASE UNCHANGED vars
    BY <2>5 DEF vars
  <2> QED  BY <2>1, <2>2, <2>3, <2>4, <2>5 DEF Next
<1> HIDE DEF Kept
<1>2. Spec => [][Kept]_vars
  BY <1>1, TypeCorrect, PTL DEF Spec
<1> QED  BY <1>2 DEF CastKept, Kept
----------------------------------------------------------------------------
(* Reading.  What the readers consume of a text is followed in its tokens: *)
(* lex[k] is what the first k characters are as tokens.                    *)

Token == [is : STRING \cup {"number"}, of : Nat]
Lexes == {l \in [tokens : Seq(Token), number : BOOLEAN] : l.number => l.tokens # <<>>}
Streams == [rest : Seq(STRING), fail : BOOLEAN, throws : BOOLEAN, numbers : Seq(Nat)]
Fine(st) == ~ st.fail /\ ~ st.throws
Digit == DOMAIN Value
Suffix(s, k) == SubSeq(s, k + 1, Len(s))

\* The digits and their values.
LEMMA DigitValues ==
  /\ Digit = {"0", "1", "2", "3"}
  /\ \A d \in Digit : Value[d] \in 0 .. 3
  /\ Value["0"] = 0 /\ Value["1"] = 1 /\ Value["2"] = 2 /\ Value["3"] = 3
BY DEF Digit, Value

\* What follows the first k characters.
LEMMA SuffixIs ==
  ASSUME NEW S, NEW s \in Seq(S), NEW k \in 0 .. Len(s)
  PROVE  /\ Suffix(s, k) \in Seq(S) /\ Len(Suffix(s, k)) = Len(s) - k
         /\ \A i \in 1 .. Len(s) - k : Suffix(s, k)[i] = s[k + i]
<1>1. Len(s) \in Nat /\ k + 1 \in Int /\ Len(s) \in Int
  OBVIOUS
<1>2. \A i \in k + 1 .. Len(s) : s[i] \in S
  BY <1>1
<1>3. /\ SubSeq(s, k + 1, Len(s)) \in Seq(S)
      /\ Len(SubSeq(s, k + 1, Len(s))) = IF k + 1 <= Len(s) THEN Len(s) - (k + 1) + 1 ELSE 0
      /\ \A i \in 1 .. Len(s) - (k + 1) + 1 : SubSeq(s, k + 1, Len(s))[i] = s[k + 1 + i - 1]
  BY <1>1, <1>2, SubSeqProperties
<1> QED  BY <1>1, <1>3 DEF Suffix

\* A suffix of a suffix is a suffix.
LEMMA SuffixOfSuffix ==
  ASSUME NEW S, NEW s \in Seq(S), NEW k \in 0 .. Len(s), NEW j \in 0 .. Len(s) - k
  PROVE  Suffix(Suffix(s, k), j) = Suffix(s, k + j)
<1> DEFINE r == Suffix(s, k)
<1>1. r \in Seq(S) /\ Len(r) = Len(s) - k /\ \A i \in 1 .. Len(s) - k : r[i] = s[k + i]
  BY SuffixIs
<1>2. j \in 0 .. Len(r) /\ k + j \in 0 .. Len(s)
  BY <1>1
<1> HIDE DEF r
<1>3. /\ Suffix(r, j) \in Seq(S) /\ Len(Suffix(r, j)) = Len(r) - j
      /\ \A i \in 1 .. Len(r) - j : Suffix(r, j)[i] = r[j + i]
  BY <1>1, <1>2, SuffixIs
<1>4. /\ Suffix(s, k + j) \in Seq(S) /\ Len(Suffix(s, k + j)) = Len(s) - (k + j)
      /\ \A i \in 1 .. Len(s) - (k + j) : Suffix(s, k + j)[i] = s[k + j + i]
  BY <1>2, SuffixIs
<1>5. Len(Suffix(r, j)) = Len(Suffix(s, k + j))
  <2>1. Len(s) \in Int /\ k \in Int /\ j \in Int
    OBVIOUS
  <2>2. (Len(s) - k) - j = Len(s) - (k + j)
    BY <2>1
  <2> QED  BY <1>1, <1>3, <1>4, <2>2
<1>6. ASSUME NEW i \in 1 .. Len(Suffix(r, j))
      PROVE  Suffix(r, j)[i] = Suffix(s, k + j)[i]
  <2>1. i \in 1 .. Len(r) - j /\ i \in 1 .. Len(s) - (k + j) /\ j + i \in 1 .. Len(s) - k
    BY <1>1, <1>3
  <2>2. k + (j + i) = k + j + i
    BY <2>1
  <2> QED  BY <1>1, <1>3, <1>4, <2>1, <2>2
<1>7. Suffix(r, j) = Suffix(s, k + j)
  BY <1>3, <1>4, <1>5, <1>6, SeqEqual
<1> QED  BY <1>7 DEF r

\* After() skips the first characters, as many as are in the set.
LEMMA AfterIs ==
  ASSUME NEW S, NEW s \in Seq(S), NEW Chars
  PROVE  \E j \in 0 .. Len(s) :
           /\ After(s, Chars) = Suffix(s, j) /\ Before(s, Chars) = SubSeq(s, 1, j)
           /\ \A i \in 1 .. j : s[i] \in Chars
           /\ j < Len(s) => s[j + 1] \notin Chars
<1> DEFINE I == {i \in 1 .. Len(s) : s[i] \notin Chars}
           i0 == IF I # {} THEN Min(I) ELSE 0
<1>1. After(s, Chars) = IF i0 = 0 THEN <<>> ELSE SubSeq(s, i0, Len(s))
  BY DEF After, SelectInSeq
<1>2. Len(s) \in Nat
  OBVIOUS
<1>3. CASE I = {}
  <2>1. After(s, Chars) = <<>>
    BY <1>1, <1>3
  <2>2. Suffix(s, Len(s)) = <<>>
    <3>1. Len(s) + 1 \in Int /\ Len(s) \in Int /\ Len(s) < Len(s) + 1
      BY <1>2
    <3> QED  BY <3>1, SubSeqEmpty DEF Suffix
  <2>3. Before(s, Chars) = SubSeq(s, 1, Len(s))
    <3>1. Len(s) - Len(<<>>) = Len(s)
      BY <1>2
    <3> QED  BY <2>1, <3>1 DEF Before
  <2>4. \A i \in 1 .. Len(s) : s[i] \in Chars
    BY <1>3
  <2> QED  BY <1>2, <2>1, <2>2, <2>3, <2>4
<1>4. CASE I # {}
  <2> DEFINE m == Min(I)
  <2>1. m \in I /\ \A i \in I : m <= i
    <3>1. I \subseteq Nat
      OBVIOUS
    <3> HIDE DEF I
    <3> QED  BY <1>4, <3>1, LeastOf
  <2> HIDE DEF m
  <2>2. m \in 1 .. Len(s) /\ s[m] \notin Chars
    BY <2>1
  <2>3. After(s, Chars) = SubSeq(s, m, Len(s))
    <3>1. i0 = m /\ m # 0
      BY <1>4, <2>2 DEF m
    <3> HIDE DEF i0, I
    <3> QED  BY <1>1, <3>1
  <2>4. m - 1 \in 0 .. Len(s) /\ (m - 1) + 1 = m
    BY <2>2
  <2>5. After(s, Chars) = Suffix(s, m - 1)
    BY <2>3, <2>4 DEF Suffix
  <2>6. Len(s) - Len(After(s, Chars)) = m - 1
    <3>1. Len(Suffix(s, m - 1)) = Len(s) - (m - 1)
      BY <2>4, SuffixIs
    <3> QED  BY <2>2, <2>5, <3>1
  <2>7. Before(s, Chars) = SubSeq(s, 1, m - 1)
    BY <2>6 DEF Before
  <2>8. \A i \in 1 .. m - 1 : s[i] \in Chars
    BY <2>1, <2>2
  <2> QED  BY <2>2, <2>4, <2>5, <2>7, <2>8
<1> QED  BY <1>3, <1>4

----------------------------------------------------------------------------
(* The loops, one step after the other.                                    *)

\* A number is made digit by digit.
LEMMA DecimalSteps ==
  ASSUME NEW w \in Seq(Digit)
  PROVE  \E acc \in [0 .. Len(w) -> Nat] :
           /\ acc[0] = 0 /\ acc[Len(w)] = Decimal(w)
           /\ \A k \in 1 .. Len(w) : acc[k] = 10 * acc[k - 1] + Value[w[k]]
<1> DEFINE n == Len(w)
           Solves(f) == f = [R \in SUBSET DOMAIN w |->
                               IF R = {} THEN 0
                               ELSE LET x == Max(R) IN 10 * f[R \ {x}] + Value[w[x]]]
           it == CHOOSE f : Solves(f)
           G == [p \in Nat \X (1 .. n) |-> 10 * p[1] + Value[w[p[2]]]]
<1>1. Decimal(w) = it[DOMAIN w]
  BY Zenon DEF Decimal, FoldLeft, MapThenFoldSet
<1>2. n \in Nat /\ DOMAIN w = 1 .. n /\ \A k \in 1 .. n : Value[w[k]] \in Nat
  BY DigitValues
<1>3. \A a \in Nat, k \in 1 .. n : G[<<a, k>>] = 10 * a + Value[w[k]]
  OBVIOUS
<1>4. G \in [Nat \X (1 .. n) -> Nat]
  BY <1>2
<1> HIDE DEF G, n
<1>5. \E f : Solves(f)
  <2>1. PICK f : Folded(f, Nat, G, 0, n)
    BY <1>2, <1>4, Folds
  <2>2. ASSUME NEW R \in SUBSET (1 .. n), R # {}
        PROVE  f[R] = 10 * f[R \ {Max(R)}] + Value[w[Max(R)]]
    <3>1. Max(R) \in 1 .. n
      BY <1>2, <2>2, MaxOf
    <3>2. f[R \ {Max(R)}] \in Nat
      BY <2>1 DEF Folded
    <3>3. f[R] = G[<<f[R \ {Max(R)}], Max(R)>>]
      BY <2>1, <2>2 DEF Folded
    <3> QED  BY <1>3, <3>1, <3>2, <3>3
  <2>3. f = [R \in SUBSET (1 .. n) |-> f[R]] /\ f[{}] = 0
    BY <2>1 DEF Folded
  <2>4. Solves(f)
    BY <1>2, <2>2, <2>3, Zenon
  <2> QED  BY <2>4
<1>6. Solves(it)
  BY <1>5
<1> HIDE DEF it
<1>7. it[{}] = 0
  BY <1>6, Zenon
<1>8. ASSUME NEW k \in 1 .. n, it[1 .. (k - 1)] \in Nat
      PROVE  it[1 .. k] = G[<<it[1 .. (k - 1)], k>>]
  <2> DEFINE R == 1 .. k
  <2>1. R # {} /\ Max(R) = k /\ R \ {k} = 1 .. (k - 1)
    <3>1. k \in Nat /\ k # 0
      BY <1>2
    <3> QED  BY <3>1, Prefix
  <2>2. R \in SUBSET DOMAIN w
    BY <1>2
  <2> HIDE DEF R
  <2>3. it[R] = LET x == Max(R) IN 10 * it[R \ {x}] + Value[w[x]]
    BY <1>6, <2>1, <2>2, Zenon
  <2>4. it[R] = 10 * it[1 .. (k - 1)] + Value[w[k]]
    BY <2>1, <2>3, Zenon
  <2> QED  BY <1>3, <1>8, <2>4 DEF R
<1>9. FoldsBy(it, Nat, G, 0, n)
  BY <1>7, <1>8 DEF FoldsBy
<1>10. PICK acc : Folding(acc, it, Nat, G, 0, n)
  BY <1>2, <1>4, <1>9, FoldSteps
<1>11. ASSUME NEW k \in 1 .. n
       PROVE  acc[k] = 10 * acc[k - 1] + Value[w[k]]
  <2>1. k - 1 \in 0 .. n /\ acc[k - 1] \in Nat
    BY <1>2, <1>10 DEF Folding
  <2> QED  BY <1>3, <1>10, <2>1 DEF Folding
<1> QED  BY <1>1, <1>2, <1>10, <1>11 DEF Folding, n

\* lex[k] is what the first k characters of s are as tokens.
LexedBy(lex, s) ==
  /\ lex \in [0 .. Len(s) -> Lexes]
  /\ lex[0] = [tokens |-> <<>>, number |-> FALSE]
  /\ \A k \in 1 .. Len(s) : lex[k] = Lexed(lex[k - 1], s[k])

\* Numbers and marks are tokens.
LEMMA TokensTyped ==
  /\ \A n \in Nat : Numeral(n) \in Token
  /\ \A c \in STRING : Mark(c) \in Token
<1>1. ASSUME NEW n \in Nat PROVE Numeral(n) \in Token
  BY DEF Numeral, Token
<1>2. ASSUME NEW c \in STRING PROVE Mark(c) \in Token
  BY DEF Mark, Token
<1> QED  BY <1>1, <1>2

\* A character takes tokens to tokens.
LEMMA LexedTyped ==
  ASSUME NEW l \in Lexes, NEW c \in STRING
  PROVE  Lexed(l, c) \in Lexes
<1> DEFINE ts == l.tokens
<1>1. ts \in Seq(Token) /\ Len(ts) \in Nat /\ (l.number => ts # <<>>) /\ l.number \in BOOLEAN
  BY DEF Lexes
<1>2. Mark(c) \in Token
  BY TokensTyped
<1>3. CASE c \in Digit
  <2>1. Value[c] \in Nat /\ Numeral(Value[c]) \in Token
    <3>1. Value[c] \in Nat
      BY <1>3, DigitValues
    <3> QED  BY <3>1, TokensTyped
  <2>2. CASE l.number
    <3> DEFINE us == [ts EXCEPT ![Len(ts)].of = 10 * @ + Value[c]]
    <3>1. Len(ts) \in 1 .. Len(ts) /\ ts[Len(ts)] \in Token
      BY <1>1, <2>2
    <3>2. [ts[Len(ts)] EXCEPT !.of = 10 * @ + Value[c]] \in Token
      BY <2>1, <3>1 DEF Token
    <3>3. us \in Seq(Token) /\ Len(us) = Len(ts)
      BY <1>1, <3>1, <3>2
    <3>4. Lexed(l, c) = [tokens |-> us, number |-> TRUE]
      BY <1>3, <2>2 DEF Lexed, Digit
    <3> HIDE DEF us
    <3>5. us # <<>>
      BY <3>1, <3>3
    <3> QED  BY <3>3, <3>4, <3>5 DEF Lexes
  <2>3. CASE ~ l.number
    <3> DEFINE us == Append(ts, Numeral(Value[c]))
    <3>1. us \in Seq(Token) /\ us # <<>>
      BY <1>1, <2>1, AppendProperties
    <3>2. Lexed(l, c) = [tokens |-> us, number |-> TRUE]
      BY <1>3, <2>3 DEF Lexed, Digit
    <3> HIDE DEF us
    <3> QED  BY <3>1, <3>2 DEF Lexes
  <2> QED  BY <2>2, <2>3
<1>4. CASE c \notin Digit
  <2> DEFINE us == IF c \in {",", " "} THEN ts ELSE Append(ts, Mark(c))
  <2>1. us \in Seq(Token)
    BY <1>1, <1>2, AppendProperties
  <2>2. Lexed(l, c) = [tokens |-> us, number |-> FALSE]
    BY <1>4 DEF Lexed, Digit
  <2> HIDE DEF us
  <2> QED  BY <2>1, <2>2 DEF Lexes
<1> QED  BY <1>3, <1>4

\* A text is made into tokens character by character.
LEMMA TokensSteps ==
  ASSUME NEW s \in Seq(STRING)
  PROVE  \E lex : LexedBy(lex, s) /\ lex[Len(s)].tokens = Tokens(s)
<1> DEFINE n == Len(s)
           base == [tokens |-> <<>>, number |-> FALSE]
           Solves(f) == f = [R \in SUBSET DOMAIN s |->
                               IF R = {} THEN base
                               ELSE LET x == Max(R) IN Lexed(f[R \ {x}], s[x])]
           it == CHOOSE f : Solves(f)
           G == [p \in Lexes \X (1 .. n) |-> Lexed(p[1], s[p[2]])]
<1>1. Tokens(s) = it[DOMAIN s].tokens
  BY Zenon DEF Tokens, FoldLeft, MapThenFoldSet
<1>2. n \in Nat /\ DOMAIN s = 1 .. n /\ \A k \in 1 .. n : s[k] \in STRING
  OBVIOUS
<1>3. \A l \in Lexes, k \in 1 .. n : G[<<l, k>>] = Lexed(l, s[k])
  OBVIOUS
<1>4. G \in [Lexes \X (1 .. n) -> Lexes]
  <2>1. \A l \in Lexes, k \in 1 .. n : Lexed(l, s[k]) \in Lexes
    BY <1>2, LexedTyped
  <2> HIDE DEF n
  <2> QED  BY <2>1
<1>5. base \in Lexes
  BY DEF Lexes
<1> HIDE DEF G, n, base
<1>6. \E f : Solves(f)
  <2>1. PICK f : Folded(f, Lexes, G, base, n)
    BY <1>2, <1>4, <1>5, Folds
  <2>2. ASSUME NEW R \in SUBSET (1 .. n), R # {}
        PROVE  f[R] = Lexed(f[R \ {Max(R)}], s[Max(R)])
    <3>1. Max(R) \in 1 .. n
      BY <1>2, <2>2, MaxOf
    <3>2. f[R \ {Max(R)}] \in Lexes
      BY <2>1 DEF Folded
    <3>3. f[R] = G[<<f[R \ {Max(R)}], Max(R)>>]
      BY <2>1, <2>2 DEF Folded
    <3> QED  BY <1>3, <3>1, <3>2, <3>3
  <2>3. f = [R \in SUBSET (1 .. n) |-> f[R]] /\ f[{}] = base
    BY <2>1 DEF Folded
  <2>4. Solves(f)
    BY <1>2, <2>2, <2>3, Zenon
  <2> QED  BY <2>4
<1>7. Solves(it)
  BY <1>6
<1> HIDE DEF it
<1>8. it[{}] = base
  BY <1>7, Zenon
<1>9. ASSUME NEW k \in 1 .. n, it[1 .. (k - 1)] \in Lexes
      PROVE  it[1 .. k] = G[<<it[1 .. (k - 1)], k>>]
  <2> DEFINE R == 1 .. k
  <2>1. R # {} /\ Max(R) = k /\ R \ {k} = 1 .. (k - 1)
    <3>1. k \in Nat /\ k # 0
      BY <1>2
    <3> QED  BY <3>1, Prefix
  <2>2. R \in SUBSET DOMAIN s
    BY <1>2
  <2> HIDE DEF R
  <2>3. it[R] = LET x == Max(R) IN Lexed(it[R \ {x}], s[x])
    BY <1>7, <2>1, <2>2, Zenon
  <2>4. it[R] = Lexed(it[1 .. (k - 1)], s[k])
    BY <2>1, <2>3, Zenon
  <2> QED  BY <1>3, <1>9, <2>4 DEF R
<1>10. FoldsBy(it, Lexes, G, base, n)
  BY <1>8, <1>9 DEF FoldsBy
<1>11. PICK acc : Folding(acc, it, Lexes, G, base, n)
  BY <1>2, <1>4, <1>5, <1>10, FoldSteps
<1>12. ASSUME NEW k \in 1 .. n
       PROVE  acc[k] = Lexed(acc[k - 1], s[k])
  <2>1. k - 1 \in 0 .. n /\ acc[k - 1] \in Lexes
    BY <1>2, <1>11 DEF Folding
  <2> QED  BY <1>3, <1>11, <2>1 DEF Folding
<1>13. LexedBy(acc, s) /\ acc[n].tokens = Tokens(s)
  BY <1>1, <1>2, <1>11, <1>12 DEF Folding, LexedBy, n, base
<1> QED  BY <1>13 DEF n

\* What a reader leaves of a stream is one.
LEMMA SkipTyped ==
  ASSUME NEW s \in Seq(STRING)
  PROVE  Skip(s) \in Seq(STRING) /\ Digits(s) \in Seq(Digit) /\ Len(Digits(s)) \in 0 .. Len(s)
<1>1. Skip(s) \in Seq(STRING)
  <2>1. PICK j \in 0 .. Len(s) : After(s, {" "}) = Suffix(s, j)
    BY AfterIs
  <2>2. Suffix(s, j) \in Seq(STRING)
    BY SuffixIs
  <2> QED  BY <2>1, <2>2 DEF Skip
<1>2. PICK j \in 0 .. Len(s) : /\ Before(s, Digit) = SubSeq(s, 1, j)
                               /\ \A i \in 1 .. j : s[i] \in Digit
  BY AfterIs
<1>3. SubSeq(s, 1, j) \in Seq(Digit) /\ Len(SubSeq(s, 1, j)) = j
  <2>1. 1 \in Int /\ j \in Int /\ j >= 0
    OBVIOUS
  <2>2. SubSeq(s, 1, j) \in Seq(Digit)
    BY <1>2, <2>1, SubSeqProperties
  <2>3. Len(SubSeq(s, 1, j)) = IF 1 <= j THEN j - 1 + 1 ELSE 0
    BY <1>2, <2>1, SubSeqProperties
  <2> QED  BY <2>1, <2>2, <2>3
<1> QED  BY <1>1, <1>2, <1>3 DEF Digits, Digit

\* Digits make a natural number.
LEMMA DecimalTyped ==
  ASSUME NEW w \in Seq(Digit)
  PROVE  Decimal(w) \in Nat
<1>1. PICK acc \in [0 .. Len(w) -> Nat] : acc[Len(w)] = Decimal(w)
  BY DecimalSteps
<1>2. Len(w) \in 0 .. Len(w)
  OBVIOUS
<1> QED  BY <1>1, <1>2

\* A step of a reader takes a stream to a stream.
LEMMA StreamsTyped ==
  ASSUME NEW st \in Streams, NEW c
  PROVE  /\ Expect(st, c) \in Streams /\ Number(st) \in Streams
         /\ Separator(st) \in Streams /\ ThrowIfFailed(st) \in Streams
<1>1. st.rest \in Seq(STRING) /\ st.numbers \in Seq(Nat)
  BY DEF Streams
<1> DEFINE s == Skip(st.rest)
<1>2. s \in Seq(STRING) /\ Digits(s) \in Seq(Digit) /\ Len(Digits(s)) \in 0 .. Len(s)
  BY <1>1, SkipTyped
<1>3. Expect(st, c) \in Streams
  <2>1. s # <<>> => Tail(s) \in Seq(STRING)
    BY <1>2, HeadTailProperties
  <2> HIDE DEF s
  <2> QED  BY <2>1 DEF Expect, Streams, s
<1>4. Number(st) \in Streams
  <2>1. SubSeq(s, Len(Digits(s)) + 1, Len(s)) \in Seq(STRING)
    BY <1>2, SuffixIs DEF Suffix
  <2>2. Append(st.numbers, 0) \in Seq(Nat) /\ Append(st.numbers, Decimal(Digits(s))) \in Seq(Nat)
    <3>1. 0 \in Nat /\ Decimal(Digits(s)) \in Nat
      BY <1>2, DecimalTyped
    <3> HIDE DEF s
    <3> QED  BY <1>1, <3>1, AppendProperties
  <2> HIDE DEF s
  <2> QED  BY <2>1, <2>2 DEF Number, Streams, s
<1>5. Separator(st) \in Streams
  <2>1. st.rest # <<>> => Tail(st.rest) \in Seq(STRING)
    BY <1>1, HeadTailProperties
  <2> QED  BY <2>1 DEF Separator, Streams
<1>6. ThrowIfFailed(st) \in Streams
  BY DEF ThrowIfFailed, Streams
<1> QED  BY <1>3, <1>4, <1>5, <1>6

\* The loop over the numbers of a vector, or of a row.
LEMMA NumbersSteps ==
  ASSUME NEW n \in Nat, NEW st \in Streams
  PROVE  \E acc \in [0 .. n -> Streams] :
           /\ acc[0] = st /\ acc[n] = Numbers(n, st)
           /\ \A k \in 1 .. n : acc[k] = Separator(Number(acc[k - 1]))
<1> DEFINE Indices == [i \in 1 .. n |-> i]
           Solves(f) == f = [R \in SUBSET DOMAIN Indices |->
                               IF R = {} THEN st
                               ELSE LET x == Max(R) IN Separator(Number(f[R \ {x}]))]
           it == CHOOSE f : Solves(f)
           G == [p \in Streams \X (1 .. n) |-> Separator(Number(p[1]))]
<1>1. Numbers(n, st) = it[DOMAIN Indices]
  BY Zenon DEF Numbers, Repeat, FoldLeft, MapThenFoldSet
<1>2. DOMAIN Indices = 1 .. n
  OBVIOUS
<1>3. \A a \in Streams, k \in 1 .. n : G[<<a, k>>] = Separator(Number(a))
  OBVIOUS
<1>4. G \in [Streams \X (1 .. n) -> Streams]
  <2>1. \A a \in Streams : Separator(Number(a)) \in Streams
    BY StreamsTyped
  <2> QED  BY <2>1
<1> HIDE DEF G, Indices
<1>5. \E f : Solves(f)
  <2>1. PICK f : Folded(f, Streams, G, st, n)
    BY <1>4, Folds
  <2>2. ASSUME NEW R \in SUBSET (1 .. n), R # {}
        PROVE  f[R] = Separator(Number(f[R \ {Max(R)}]))
    <3>1. Max(R) \in 1 .. n
      BY <2>2, MaxOf
    <3>2. f[R \ {Max(R)}] \in Streams
      BY <2>1 DEF Folded
    <3>3. f[R] = G[<<f[R \ {Max(R)}], Max(R)>>]
      BY <2>1, <2>2 DEF Folded
    <3> QED  BY <1>3, <3>1, <3>2, <3>3
  <2>3. f = [R \in SUBSET (1 .. n) |-> f[R]] /\ f[{}] = st
    BY <2>1 DEF Folded
  <2>4. Solves(f)
    BY <1>2, <2>2, <2>3, Zenon
  <2> QED  BY <2>4
<1>6. Solves(it)
  BY <1>5
<1> HIDE DEF it
<1>7. it[{}] = st
  BY <1>6, Zenon
<1>8. ASSUME NEW k \in 1 .. n, it[1 .. (k - 1)] \in Streams
      PROVE  it[1 .. k] = G[<<it[1 .. (k - 1)], k>>]
  <2> DEFINE R == 1 .. k
  <2>1. R # {} /\ Max(R) = k /\ R \ {k} = 1 .. (k - 1)
    <3>1. k \in Nat /\ k # 0
      OBVIOUS
    <3> QED  BY <3>1, Prefix
  <2>2. R \in SUBSET DOMAIN Indices
    BY <1>2
  <2> HIDE DEF R
  <2>3. it[R] = LET x == Max(R) IN Separator(Number(it[R \ {x}]))
    BY <1>6, <2>1, <2>2, Zenon
  <2>4. it[R] = Separator(Number(it[1 .. (k - 1)]))
    BY <2>1, <2>3, Zenon
  <2> QED  BY <1>3, <1>8, <2>4 DEF R
<1>9. FoldsBy(it, Streams, G, st, n)
  BY <1>7, <1>8 DEF FoldsBy
<1>10. PICK acc : Folding(acc, it, Streams, G, st, n)
  BY <1>4, <1>9, FoldSteps
<1>11. ASSUME NEW k \in 1 .. n
       PROVE  acc[k] = Separator(Number(acc[k - 1]))
  <2>1. k - 1 \in 0 .. n /\ acc[k - 1] \in Streams
    BY <1>10 DEF Folding
  <2> QED  BY <1>3, <1>10, <2>1 DEF Folding
<1> QED  BY <1>1, <1>2, <1>10, <1>11 DEF Folding

\* A row that is read, and its numbers, leave a stream.
LEMMA RowTyped ==
  ASSUME NEW cols \in Nat, NEW st \in Streams
  PROVE  Numbers(cols, st) \in Streams /\ Row(cols, st) \in Streams
<1>1. ASSUME NEW u \in Streams PROVE Numbers(cols, u) \in Streams
  <2>1. PICK acc \in [0 .. cols -> Streams] : acc[cols] = Numbers(cols, u)
    BY NumbersSteps
  <2> QED  BY <2>1
<1>2. Expect(st, "(") \in Streams
  BY StreamsTyped
<1>3. Separator(Expect(Numbers(cols, Expect(st, "(")), ")")) \in Streams
  BY <1>1, <1>2, StreamsTyped
<1> QED  BY <1>1, <1>3 DEF Row

\* The loop over the rows of a matrix.
LEMMA RowsSteps ==
  ASSUME NEW n \in Nat, NEW cols \in Nat, NEW st \in Streams
  PROVE  \E acc \in [0 .. n -> Streams] :
           /\ acc[0] = st /\ acc[n] = Rows(n, cols, st)
           /\ \A k \in 1 .. n : acc[k] = Row(cols, acc[k - 1])
<1> DEFINE Indices == [i \in 1 .. n |-> i]
           Solves(f) == f = [R \in SUBSET DOMAIN Indices |->
                               IF R = {} THEN st
                               ELSE LET x == Max(R) IN Row(cols, f[R \ {x}])]
           it == CHOOSE f : Solves(f)
           G == [p \in Streams \X (1 .. n) |-> Row(cols, p[1])]
<1>1. Rows(n, cols, st) = it[DOMAIN Indices]
  BY Zenon DEF Rows, Repeat, FoldLeft, MapThenFoldSet
<1>2. DOMAIN Indices = 1 .. n
  OBVIOUS
<1>3. \A a \in Streams, k \in 1 .. n : G[<<a, k>>] = Row(cols, a)
  OBVIOUS
<1>4. G \in [Streams \X (1 .. n) -> Streams]
  <2>1. \A a \in Streams : Row(cols, a) \in Streams
    BY RowTyped
  <2> QED  BY <2>1
<1> HIDE DEF G, Indices
<1>5. \E f : Solves(f)
  <2>1. PICK f : Folded(f, Streams, G, st, n)
    BY <1>4, Folds
  <2>2. ASSUME NEW R \in SUBSET (1 .. n), R # {}
        PROVE  f[R] = Row(cols, f[R \ {Max(R)}])
    <3>1. Max(R) \in 1 .. n
      BY <2>2, MaxOf
    <3>2. f[R \ {Max(R)}] \in Streams
      BY <2>1 DEF Folded
    <3>3. f[R] = G[<<f[R \ {Max(R)}], Max(R)>>]
      BY <2>1, <2>2 DEF Folded
    <3> QED  BY <1>3, <3>1, <3>2, <3>3
  <2>3. f = [R \in SUBSET (1 .. n) |-> f[R]] /\ f[{}] = st
    BY <2>1 DEF Folded
  <2>4. Solves(f)
    BY <1>2, <2>2, <2>3, Zenon
  <2> QED  BY <2>4
<1>6. Solves(it)
  BY <1>5
<1> HIDE DEF it
<1>7. it[{}] = st
  BY <1>6, Zenon
<1>8. ASSUME NEW k \in 1 .. n, it[1 .. (k - 1)] \in Streams
      PROVE  it[1 .. k] = G[<<it[1 .. (k - 1)], k>>]
  <2> DEFINE R == 1 .. k
  <2>1. R # {} /\ Max(R) = k /\ R \ {k} = 1 .. (k - 1)
    <3>1. k \in Nat /\ k # 0
      OBVIOUS
    <3> QED  BY <3>1, Prefix
  <2>2. R \in SUBSET DOMAIN Indices
    BY <1>2
  <2> HIDE DEF R
  <2>3. it[R] = LET x == Max(R) IN Row(cols, it[R \ {x}])
    BY <1>6, <2>1, <2>2, Zenon
  <2>4. it[R] = Row(cols, it[1 .. (k - 1)])
    BY <2>1, <2>3, Zenon
  <2> QED  BY <1>3, <1>8, <2>4 DEF R
<1>9. FoldsBy(it, Streams, G, st, n)
  BY <1>7, <1>8 DEF FoldsBy
<1>10. PICK acc : Folding(acc, it, Streams, G, st, n)
  BY <1>4, <1>9, FoldSteps
<1>11. ASSUME NEW k \in 1 .. n
       PROVE  acc[k] = Row(cols, acc[k - 1])
  <2>1. k - 1 \in 0 .. n /\ acc[k - 1] \in Streams
    BY <1>10 DEF Folding
  <2> QED  BY <1>3, <1>10, <2>1 DEF Folding
<1> QED  BY <1>1, <1>2, <1>10, <1>11 DEF Folding

----------------------------------------------------------------------------
(* What is read of a text is there in its tokens.                          *)

\* When rest is left of s, ts are the tokens read: no digit that follows goes on with
\* the last of them.
ReadTo(lex, s, rest, ts) ==
  \E k \in 0 .. Len(s) :
    /\ rest = Suffix(s, k) /\ lex[k].tokens = ts
    /\ lex[k].number /\ k < Len(s) => s[k + 1] \notin Digit

\* Tokens that no digit goes on with stay.
LEMMA LexedKeeps ==
  ASSUME NEW l \in Lexes, NEW c \in STRING, NEW m \in Nat, m <= Len(l.tokens),
         c \in Digit /\ l.number => m < Len(l.tokens)
  PROVE  /\ m <= Len(Lexed(l, c).tokens)
         /\ \A p \in 1 .. m : Lexed(l, c).tokens[p] = l.tokens[p]
         /\ Lexed(l, c).number => m < Len(Lexed(l, c).tokens)
<1> DEFINE ts == l.tokens
<1>1. ts \in Seq(Token) /\ Len(ts) \in Nat /\ l.number \in BOOLEAN /\ (l.number => ts # <<>>)
  BY DEF Lexes
<1>2. CASE c \in Digit /\ l.number
  <2> DEFINE us == [ts EXCEPT ![Len(ts)].of = 10 * @ + Value[c]]
  <2>1. Lexed(l, c).tokens = us
    BY <1>2 DEF Lexed, Digit
  <2>2. Len(us) = Len(ts) /\ \A p \in 1 .. m : us[p] = ts[p]
    <3>1. DOMAIN us = 1 .. Len(ts)
      BY <1>1
    <3>2. Len(us) = Len(ts)
      BY <1>1, <3>1
    <3>3. \A p \in 1 .. m : p \in 1 .. Len(ts) /\ p # Len(ts)
      BY <1>1, <1>2
    <3> QED  BY <1>1, <3>2, <3>3
  <2> HIDE DEF us
  <2> QED  BY <1>2, <2>1, <2>2
<1>3. CASE c \in Digit /\ ~ l.number
  <2>1. Lexed(l, c).tokens = Append(ts, Numeral(Value[c])) /\ Numeral(Value[c]) \in Token
    <3>1. Value[c] \in Nat
      BY <1>3, DigitValues
    <3> QED  BY <1>3, <3>1, TokensTyped DEF Lexed, Digit
  <2>2. /\ Len(Append(ts, Numeral(Value[c]))) = Len(ts) + 1
        /\ \A p \in 1 .. Len(ts) : Append(ts, Numeral(Value[c]))[p] = ts[p]
    BY <1>1, <2>1, AppendProperties
  <2> QED  BY <1>1, <2>1, <2>2
<1>4. CASE c \notin Digit
  <2>1. ~ Lexed(l, c).number
    BY <1>4 DEF Lexed, Digit
  <2>2. CASE c \in {",", " "}
    BY <1>4, <2>1, <2>2 DEF Lexed, Digit
  <2>3. CASE c \notin {",", " "}
    <3>1. Lexed(l, c).tokens = Append(ts, Mark(c)) /\ Mark(c) \in Token
      BY <1>4, <2>3, TokensTyped DEF Lexed, Digit
    <3>2. /\ Len(Append(ts, Mark(c))) = Len(ts) + 1
          /\ \A p \in 1 .. Len(ts) : Append(ts, Mark(c))[p] = ts[p]
      BY <1>1, <3>1, AppendProperties
    <3> QED  BY <1>1, <2>1, <3>1, <3>2
  <2> QED  BY <2>2, <2>3
<1> QED  BY <1>2, <1>3, <1>4

\* So the tokens that have been read are the first of the text.
LEMMA ReadIsPrefix ==
  ASSUME NEW s \in Seq(STRING), NEW lex, LexedBy(lex, s), NEW rest, NEW ts,
         ReadTo(lex, s, rest, ts)
  PROVE  /\ ts \in Seq(Token) /\ lex[Len(s)].tokens \in Seq(Token)
         /\ Len(ts) <= Len(lex[Len(s)].tokens)
         /\ \A p \in 1 .. Len(ts) : lex[Len(s)].tokens[p] = ts[p]
<1> DEFINE n == Len(s)
           m == Len(ts)
<1>1. PICK k \in 0 .. n : /\ lex[k].tokens = ts
                          /\ lex[k].number /\ k < n => s[k + 1] \notin Digit
  BY DEF ReadTo
<1>2. n \in Nat /\ \A i \in 0 .. n : lex[i] \in Lexes
  BY DEF LexedBy
<1>3. ts \in Seq(Token) /\ m \in Nat
  BY <1>1, <1>2 DEF Lexes
<1> DEFINE Keeps(i) == LET l == lex[k + i]
                       IN  /\ m <= Len(l.tokens)
                           /\ \A p \in 1 .. m : l.tokens[p] = ts[p]
                           /\ i # 0 /\ l.number => m < Len(l.tokens)
           S == {i \in 0 .. n - k : Keeps(i)}
<1>4. n - k \in Nat /\ n - k \in 0 .. n - k
  BY <1>2
<1>5. 0 \in S
  <2>1. k + 0 = k /\ 0 \in 0 .. n - k
    BY <1>2
  <2> QED  BY <1>1, <1>3, <2>1
<1>6. ASSUME NEW i \in 0 .. n - k, i # n - k, i \in S
      PROVE  i + 1 \in S
  <2> DEFINE l == lex[k + i]
             c == s[k + i + 1]
  <2>1. k + i \in 0 .. n /\ k + i + 1 \in 1 .. n /\ (k + i + 1) - 1 = k + i /\ i + 1 \in 0 .. n - k
        /\ k + (i + 1) = k + i + 1 /\ i + 1 # 0
    BY <1>2, <1>6
  <2>2. l \in Lexes /\ c \in STRING /\ lex[k + (i + 1)] = Lexed(l, c)
    BY <1>2, <2>1 DEF LexedBy
  <2>3. Keeps(i)
    BY <1>6
  <2>4. c \in Digit /\ l.number => m < Len(l.tokens)
    <3>1. CASE i = 0
      <4>1. k + i = k /\ k < n
        BY <3>1, <1>6, <2>1
      <4> QED  BY <1>1, <4>1
    <3>2. CASE i # 0
      BY <2>3, <3>2
    <3> QED  BY <3>1, <3>2
  <2> HIDE DEF l, c, m
  <2>5. /\ m <= Len(Lexed(l, c).tokens)
        /\ \A p \in 1 .. m : Lexed(l, c).tokens[p] = l.tokens[p]
        /\ Lexed(l, c).number => m < Len(Lexed(l, c).tokens)
    BY <1>3, <2>2, <2>3, <2>4, LexedKeeps DEF l
  <2>6. Keeps(i + 1)
    BY <2>2, <2>3, <2>5 DEF l
  <2> QED  BY <2>1, <2>6
<1> HIDE DEF S
<1>7. n - k \in S
  BY <1>4, <1>5, <1>6, UpTo
<1>8. k + (n - k) = n
  BY <1>2
<1>9. m <= Len(lex[n].tokens) /\ \A p \in 1 .. m : lex[n].tokens[p] = ts[p]
  BY <1>7, <1>8 DEF S
<1>10. lex[n].tokens \in Seq(Token)
  <2>1. n \in 0 .. n
    BY <1>2
  <2> QED  BY <1>2, <2>1 DEF Lexes
<1> QED  BY <1>3, <1>9, <1>10

\* Spaces make no token.
LEMMA ReadSpaces ==
  ASSUME NEW s \in Seq(STRING), NEW lex, LexedBy(lex, s), NEW rest, NEW ts,
         ReadTo(lex, s, rest, ts)
  PROVE  rest \in Seq(STRING) /\ ReadTo(lex, s, Skip(rest), ts)
<1> DEFINE n == Len(s)
<1>1. PICK k \in 0 .. n : /\ rest = Suffix(s, k) /\ lex[k].tokens = ts
                          /\ lex[k].number /\ k < n => s[k + 1] \notin Digit
  BY DEF ReadTo
<1>2. n \in Nat /\ rest \in Seq(STRING) /\ Len(rest) = n - k
      /\ \A i \in 1 .. n - k : rest[i] = s[k + i]
  <2>1. /\ Suffix(s, k) \in Seq(STRING) /\ Len(Suffix(s, k)) = Len(s) - k
        /\ \A i \in 1 .. Len(s) - k : Suffix(s, k)[i] = s[k + i]
    BY SuffixIs
  <2> QED  BY <1>1, <2>1
<1>3. PICK j \in 0 .. Len(rest) : /\ Skip(rest) = Suffix(rest, j)
                                  /\ \A i \in 1 .. j : rest[i] \in {" "}
  BY <1>2, AfterIs DEF Skip
<1>4. j \in 0 .. n - k /\ j \in Nat /\ j \in 0 .. j /\ k + j \in 0 .. n
  BY <1>2
<1>5. Skip(rest) = Suffix(s, k + j)
  BY <1>1, <1>3, <1>4, SuffixOfSuffix
<1> DEFINE S == {i \in 0 .. j : lex[k + i].tokens = ts /\ (i # 0 => ~ lex[k + i].number)}
<1>6. 0 \in S
  <2>1. k + 0 = k /\ 0 \in 0 .. j
    BY <1>4
  <2> QED  BY <1>1, <2>1
<1>7. ASSUME NEW i \in 0 .. j, i # j, i \in S
      PROVE  i + 1 \in S
  <2>1. k + i + 1 \in 1 .. n /\ (k + i + 1) - 1 = k + i /\ i + 1 \in 1 .. j /\ i + 1 \in 0 .. j
        /\ k + (i + 1) = k + i + 1 /\ i + 1 \in 1 .. n - k
    BY <1>2, <1>4, <1>7
  <2>2. s[k + i + 1] = " "
    BY <1>2, <1>3, <2>1
  <2>3. lex[k + (i + 1)] = Lexed(lex[k + i], " ")
    BY <2>1, <2>2 DEF LexedBy
  <2>4. " " \notin Digit
    BY DigitValues
  <2>5. Lexed(lex[k + i], " ").tokens = lex[k + i].tokens /\ ~ Lexed(lex[k + i], " ").number
    BY <2>4 DEF Lexed, Digit
  <2> QED  BY <1>7, <2>1, <2>3, <2>5
<1> HIDE DEF S
<1>8. j \in S
  BY <1>4, <1>6, <1>7, UpTo
<1>9. /\ lex[k + j].tokens = ts
      /\ lex[k + j].number /\ k + j < n => s[k + j + 1] \notin Digit
  <2>1. j = 0 => k + j = k
    BY <1>4
  <2> QED  BY <1>1, <1>8, <2>1 DEF S
<1> QED  BY <1>2, <1>4, <1>5, <1>9 DEF ReadTo

\* A character that is not a digit is a token of its own, or none.
LEMMA ReadMark ==
  ASSUME NEW s \in Seq(STRING), NEW lex, LexedBy(lex, s), NEW rest, NEW ts,
         ReadTo(lex, s, rest, ts), rest # <<>>, Head(rest) \notin Digit
  PROVE  ReadTo(lex, s, Tail(rest),
                IF Head(rest) \in {",", " "} THEN ts ELSE Append(ts, Mark(Head(rest))))
<1> DEFINE n == Len(s)
           c == Head(rest)
<1>1. PICK k \in 0 .. n : rest = Suffix(s, k) /\ lex[k].tokens = ts
  BY DEF ReadTo
<1>2. n \in Nat /\ rest \in Seq(STRING) /\ Len(rest) = n - k
      /\ \A i \in 1 .. n - k : rest[i] = s[k + i]
  <2>1. /\ Suffix(s, k) \in Seq(STRING) /\ Len(Suffix(s, k)) = Len(s) - k
        /\ \A i \in 1 .. Len(s) - k : Suffix(s, k)[i] = s[k + i]
    BY SuffixIs
  <2> QED  BY <1>1, <2>1
<1>3. Len(rest) # 0
  BY <1>2
<1>4. k + 1 \in 1 .. n /\ k + 1 \in 0 .. n /\ 1 \in 1 .. n - k /\ (k + 1) - 1 = k /\ 1 \in 0 .. n - k
  BY <1>2, <1>3
<1>5. c = s[k + 1]
  <2>1. c = rest[1]
    BY <1>2
  <2> QED  BY <1>2, <1>4, <2>1
<1>6. Tail(rest) = Suffix(s, k + 1)
  <2>1. Tail(rest) = SubSeq(rest, 2, Len(rest))
    BY <1>2, TailIsSubSeq
  <2>2. 2 = 1 + 1
    OBVIOUS
  <2>3. Tail(rest) = Suffix(rest, 1)
    BY <2>1, <2>2 DEF Suffix
  <2> QED  BY <1>1, <1>4, <2>3, SuffixOfSuffix
<1>7. lex[k + 1] = Lexed(lex[k], c)
  BY <1>4, <1>5 DEF LexedBy
<1>8. /\ Lexed(lex[k], c).tokens = IF c \in {",", " "} THEN ts ELSE Append(ts, Mark(c))
      /\ ~ Lexed(lex[k], c).number
  BY <1>1 DEF Lexed, Digit
<1> QED  BY <1>4, <1>6, <1>7, <1>8 DEF ReadTo

\* The digits that follow are one number.
LEMMA ReadNumber ==
  ASSUME NEW s \in Seq(STRING), NEW lex, LexedBy(lex, s), NEW rest, NEW ts,
         ReadTo(lex, s, rest, ts), NEW j \in 1 .. Len(rest),
         \A i \in 1 .. j : rest[i] \in Digit,
         j < Len(rest) => rest[j + 1] \notin Digit
  PROVE  /\ SubSeq(rest, 1, j) \in Seq(Digit) /\ Len(SubSeq(rest, 1, j)) = j
         /\ ReadTo(lex, s, Suffix(rest, j), Append(ts, Numeral(Decimal(SubSeq(rest, 1, j)))))
<1> DEFINE n == Len(s)
           w == SubSeq(rest, 1, j)
<1>1. PICK k \in 0 .. n : /\ rest = Suffix(s, k) /\ lex[k].tokens = ts
                          /\ lex[k].number /\ k < n => s[k + 1] \notin Digit
  BY DEF ReadTo
<1>2. n \in Nat /\ rest \in Seq(STRING) /\ Len(rest) = n - k
      /\ \A i \in 1 .. n - k : rest[i] = s[k + i]
  <2>1. /\ Suffix(s, k) \in Seq(STRING) /\ Len(Suffix(s, k)) = Len(s) - k
        /\ \A i \in 1 .. Len(s) - k : Suffix(s, k)[i] = s[k + i]
    BY SuffixIs
  <2> QED  BY <1>1, <2>1
<1>3. j \in 1 .. n - k /\ j \in Nat /\ j \in 0 .. j /\ k + j \in 0 .. n /\ j \in 0 .. n - k
  BY <1>2
<1>4. w \in Seq(Digit) /\ Len(w) = j /\ \A i \in 1 .. j : w[i] = rest[i]
  <2>1. 1 \in Int /\ j \in Int /\ 1 <= j
    BY <1>3
  <2>2. /\ SubSeq(rest, 1, j) \in Seq(Digit)
        /\ Len(SubSeq(rest, 1, j)) = IF 1 <= j THEN j - 1 + 1 ELSE 0
        /\ \A i \in 1 .. j - 1 + 1 : SubSeq(rest, 1, j)[i] = rest[1 + i - 1]
    BY <2>1, SubSeqProperties
  <2>3. j - 1 + 1 = j /\ \A i \in 1 .. j : 1 + i - 1 = i
    BY <2>1
  <2> QED  BY <2>1, <2>2, <2>3
<1> HIDE DEF w
<1>5. PICK acc \in [0 .. j -> Nat] :
        /\ acc[0] = 0 /\ acc[j] = Decimal(w)
        /\ \A i \in 1 .. j : acc[i] = 10 * acc[i - 1] + Value[w[i]]
  <2>1. \E acc \in [0 .. Len(w) -> Nat] :
           /\ acc[0] = 0 /\ acc[Len(w)] = Decimal(w)
           /\ \A i \in 1 .. Len(w) : acc[i] = 10 * acc[i - 1] + Value[w[i]]
    BY <1>4, DecimalSteps
  <2> QED  BY <1>4, <2>1
<1> DEFINE Reads(i) == lex[k + i].tokens = Append(ts, Numeral(acc[i])) /\ lex[k + i].number
           S == {i \in 0 .. j : i # 0 => Reads(i)}
<1>6. ts \in Seq(Token) /\ lex[k].number \in BOOLEAN
  BY <1>1 DEF LexedBy, Lexes
<1>7. ASSUME NEW i \in 0 .. j, i # j, i \in S
      PROVE  i + 1 \in S
  <2> DEFINE c == s[k + i + 1]
             v == Value[c]
  <2>1. /\ k + i + 1 \in 1 .. n /\ (k + i + 1) - 1 = k + i /\ i + 1 \in 1 .. j /\ i + 1 \in 0 .. j
        /\ k + (i + 1) = k + i + 1 /\ i + 1 \in 1 .. n - k /\ (i + 1) - 1 = i
    BY <1>2, <1>3, <1>7
  <2>2. c = w[i + 1] /\ c \in Digit
    BY <1>2, <1>4, <2>1
  <2>3. v \in Nat
    BY <2>2, DigitValues
  <2>4. lex[k + (i + 1)] = Lexed(lex[k + i], c)
    BY <2>1 DEF LexedBy
  <2>5. acc[i + 1] = 10 * acc[i] + v /\ acc[i] \in Nat
    <3>1. acc[i + 1] = 10 * acc[(i + 1) - 1] + Value[w[i + 1]]
      BY <1>5, <2>1
    <3> QED  BY <1>5, <2>1, <2>2, <3>1
  <2>6. c \in DOMAIN Value
    BY <2>2 DEF Digit
  <2> HIDE DEF c, v
  <2>7. CASE i = 0
    <3>1. k + i = k /\ k < n /\ k + i + 1 = k + 1
      BY <1>2, <1>3, <2>1, <2>7
    <3>2. ~ lex[k].number
      BY <1>1, <2>2, <3>1 DEF c
    <3>3. Lexed(lex[k], c) = [tokens |-> Append(ts, Numeral(v)), number |-> TRUE]
      BY <1>1, <2>6, <3>2 DEF Lexed, v
    <3>4. acc[i + 1] = v
      BY <1>5, <2>3, <2>5, <2>7
    <3>5. Reads(i + 1)
      BY <2>4, <3>1, <3>3, <3>4
    <3> QED  BY <2>1, <3>5
  <2>8. CASE i # 0
    <3> DEFINE us == Append(ts, Numeral(acc[i]))
    <3>1. lex[k + i].tokens = us /\ lex[k + i].number
      BY <1>7, <2>8
    <3>2. Lexed(lex[k + i], c) = [tokens |-> [us EXCEPT ![Len(us)].of = 10 * @ + v], number |-> TRUE]
      BY <2>6, <3>1 DEF Lexed, v
    <3>3. [us EXCEPT ![Len(us)].of = 10 * @ + v] = Append(ts, Numeral(10 * acc[i] + v))
      <4>1. Numeral(acc[i]) \in Token
        BY <2>5, TokensTyped
      <4>2. /\ us \in Seq(Token) /\ Len(us) = Len(ts) + 1 /\ us[Len(us)] = Numeral(acc[i])
            /\ \A p \in 1 .. Len(ts) : us[p] = ts[p]
        BY <1>6, <4>1, AppendProperties
      <4>3. [us[Len(us)] EXCEPT !.of = 10 * @ + v] = Numeral(10 * acc[i] + v)
        BY <4>2 DEF Numeral
      <4> DEFINE xs == Append(ts, Numeral(10 * acc[i] + v))
      <4>4. Numeral(10 * acc[i] + v) \in Token
        <5>1. 10 * acc[i] + v \in Nat
          BY <2>3, <2>5
        <5> QED  BY <5>1, TokensTyped
      <4>5. /\ xs \in Seq(Token) /\ Len(xs) = Len(ts) + 1
            /\ xs[Len(ts) + 1] = Numeral(10 * acc[i] + v)
            /\ \A p \in 1 .. Len(ts) : xs[p] = ts[p]
        BY <1>6, <4>4, AppendProperties
      <4>6. Len(us) \in 1 .. Len(us) /\ Len(ts) \in Nat
        BY <1>6, <4>2
      <4> HIDE DEF us, xs
      <4>7. [us EXCEPT ![Len(us)] = Numeral(10 * acc[i] + v)] = xs
        <5> DEFINE ys == [us EXCEPT ![Len(us)] = Numeral(10 * acc[i] + v)]
        <5>1. ys \in Seq(Token) /\ Len(ys) = Len(us) /\ DOMAIN us = 1 .. Len(us)
          BY <4>2, <4>4, <4>6
        <5>2. \A p \in 1 .. Len(us) : ys[p] = IF p = Len(us) THEN Numeral(10 * acc[i] + v) ELSE us[p]
          BY <5>1
        <5> HIDE DEF ys
        <5>3. \A p \in 1 .. Len(ys) : ys[p] = xs[p]
          <6>1. \A p \in 1 .. Len(us) : p # Len(us) => p \in 1 .. Len(ts)
            BY <4>2, <4>6
          <6> QED  BY <4>2, <4>5, <5>1, <5>2, <6>1
        <5>4. ys = xs
          BY <4>2, <4>5, <5>1, <5>3, SeqEqual
        <5> QED  BY <5>4 DEF ys
      <4>8. [us EXCEPT ![Len(us)].of = 10 * @ + v]
              = [us EXCEPT ![Len(us)] = [us[Len(us)] EXCEPT !.of = 10 * @ + v]]
        OBVIOUS
      <4> QED  BY <4>3, <4>7, <4>8 DEF xs
    <3>4. Lexed(lex[k + i], c) = [tokens |-> Append(ts, Numeral(acc[i + 1])), number |-> TRUE]
      BY <2>5, <3>2, <3>3
    <3>5. Reads(i + 1)
      BY <2>4, <3>4
    <3> QED  BY <2>1, <3>5
  <2> QED  BY <2>7, <2>8
<1>8. 0 \in S
  BY <1>3
<1> HIDE DEF S
<1>9. j \in S
  BY <1>3, <1>7, <1>8, UpTo
<1>10. lex[k + j].tokens = Append(ts, Numeral(Decimal(w)))
  BY <1>3, <1>5, <1>9 DEF S
<1>11. k + j < n => s[k + j + 1] \notin Digit
  <2>1. k + j < n => j < Len(rest) /\ j + 1 \in 1 .. n - k /\ k + (j + 1) = k + j + 1
    BY <1>2, <1>3
  <2> QED  BY <1>2, <2>1
<1>12. Suffix(rest, j) = Suffix(s, k + j)
  BY <1>1, <1>3, SuffixOfSuffix
<1>13. ReadTo(lex, s, Suffix(rest, j), Append(ts, Numeral(Decimal(w))))
  BY <1>3, <1>10, <1>11, <1>12 DEF ReadTo
<1> QED  BY <1>4, <1>13 DEF w

----------------------------------------------------------------------------
(* The operations of the readers.                                          *)

\* A stream that has failed, or a reader that has thrown, does not recover.
LEMMA FineBefore ==
  ASSUME NEW st \in Streams, NEW c
  PROVE  /\ Fine(Expect(st, c)) => Fine(st)
         /\ Fine(Number(st)) => Fine(st)
         /\ Fine(Separator(st)) => Fine(st)
         /\ Fine(ThrowIfFailed(st)) => Fine(st) /\ ThrowIfFailed(st) = st
<1> USE DEF Fine, Streams
<1>1. Fine(Expect(st, c)) => Fine(st)
  BY DEF Expect
<1>2. Fine(Number(st)) => Fine(st)
  BY DEF Number
<1>3. Fine(Separator(st)) => Fine(st)
  BY DEF Separator
<1>4. Fine(ThrowIfFailed(st)) => Fine(st) /\ ThrowIfFailed(st) = st
  BY DEF ThrowIfFailed
<1> QED  BY <1>1, <1>2, <1>3, <1>4

\* The same of the loop over numbers,
LEMMA FineBeforeNumbers ==
  ASSUME NEW n \in Nat, NEW st \in Streams, Fine(Numbers(n, st))
  PROVE  Fine(st)
<1>1. PICK acc \in [0 .. n -> Streams] :
        /\ acc[0] = st /\ acc[n] = Numbers(n, st)
        /\ \A k \in 1 .. n : acc[k] = Separator(Number(acc[k - 1]))
  BY NumbersSteps
<1> DEFINE S == {k \in 0 .. n : Fine(acc[k]) => Fine(st)}
<1>2. 0 \in S
  BY <1>1
<1>3. ASSUME NEW k \in 0 .. n, k # n, k \in S PROVE k + 1 \in S
  <2>1. k + 1 \in 1 .. n /\ (k + 1) - 1 = k /\ k + 1 \in 0 .. n
    BY <1>3
  <2>2. acc[k + 1] = Separator(Number(acc[k]))
    BY <1>1, <2>1
  <2>3. Fine(acc[k + 1]) => Fine(acc[k])
    BY <2>2, StreamsTyped, FineBefore
  <2> QED  BY <1>3, <2>1, <2>3
<1> HIDE DEF S
<1>4. n \in S
  <2>1. n \in 0 .. n
    OBVIOUS
  <2> QED  BY <1>2, <1>3, <2>1, UpTo
<1> QED  BY <1>1, <1>4 DEF S

\* of a row and each of its steps,
LEMMA FineBeforeRow ==
  ASSUME NEW cols \in Nat, NEW st \in Streams, Fine(Row(cols, st))
  PROVE  /\ Fine(Expect(Numbers(cols, Expect(st, "(")), ")"))
         /\ Fine(Numbers(cols, Expect(st, "("))) /\ Fine(Expect(st, "(")) /\ Fine(st)
<1>1. Expect(st, "(") \in Streams /\ Numbers(cols, Expect(st, "(")) \in Streams
      /\ Expect(Numbers(cols, Expect(st, "(")), ")") \in Streams
  BY StreamsTyped, RowTyped
<1>2. Fine(Expect(Numbers(cols, Expect(st, "(")), ")"))
  BY <1>1, FineBefore DEF Row
<1>3. Fine(Numbers(cols, Expect(st, "(")))
  BY <1>1, <1>2, FineBefore
<1>4. Fine(Expect(st, "("))
  BY <1>1, <1>3, FineBeforeNumbers
<1>5. Fine(st)
  BY <1>4, FineBefore
<1> QED  BY <1>2, <1>3, <1>4, <1>5

\* and of the loop over rows.
LEMMA FineBeforeRows ==
  ASSUME NEW n \in Nat, NEW cols \in Nat, NEW st \in Streams, Fine(Rows(n, cols, st))
  PROVE  Fine(st)
<1>1. PICK acc \in [0 .. n -> Streams] :
        /\ acc[0] = st /\ acc[n] = Rows(n, cols, st)
        /\ \A k \in 1 .. n : acc[k] = Row(cols, acc[k - 1])
  BY RowsSteps
<1> DEFINE S == {k \in 0 .. n : Fine(acc[k]) => Fine(st)}
<1>2. 0 \in S
  BY <1>1
<1>3. ASSUME NEW k \in 0 .. n, k # n, k \in S PROVE k + 1 \in S
  <2>1. k + 1 \in 1 .. n /\ (k + 1) - 1 = k /\ k + 1 \in 0 .. n
    BY <1>3
  <2>2. acc[k + 1] = Row(cols, acc[k])
    BY <1>1, <2>1
  <2>3. Fine(acc[k + 1]) => Fine(acc[k])
    BY <2>2, FineBeforeRow
  <2> QED  BY <1>3, <2>1, <2>3
<1> HIDE DEF S
<1>4. n \in S
  <2>1. n \in 0 .. n
    OBVIOUS
  <2> QED  BY <1>2, <1>3, <2>1, UpTo
<1> QED  BY <1>1, <1>4 DEF S

\* A mark that is expected and found is the next token.
LEMMA ExpectReads ==
  ASSUME NEW s \in Seq(STRING), NEW lex, LexedBy(lex, s), NEW st \in Streams, NEW ts,
         ReadTo(lex, s, st.rest, ts), NEW c, c \in {"[", "]", "(", ")"}, Fine(Expect(st, c))
  PROVE  /\ Expect(st, c).numbers = st.numbers
         /\ ReadTo(lex, s, Expect(st, c).rest, Append(ts, Mark(c)))
<1> DEFINE r == Skip(st.rest)
<1>1. ReadTo(lex, s, r, ts)
  BY ReadSpaces
<1> HIDE DEF r
<1>2. r # <<>> /\ Head(r) = c /\ Expect(st, c) = [st EXCEPT !.rest = Tail(r)]
  BY DEF Expect, Fine, Streams, r
<1>3. c \notin Digit /\ c \notin {",", " "}
  BY DigitValues
<1>4. ReadTo(lex, s, Tail(r), Append(ts, Mark(c)))
  BY <1>1, <1>2, <1>3, ReadMark
<1>5. [st EXCEPT !.rest = Tail(r)].rest = Tail(r) /\ [st EXCEPT !.rest = Tail(r)].numbers = st.numbers
  BY DEF Streams
<1> QED  BY <1>2, <1>4, <1>5

\* A number that is read is the next token.
LEMMA NumberReads ==
  ASSUME NEW s \in Seq(STRING), NEW lex, LexedBy(lex, s), NEW st \in Streams, NEW ts,
         ReadTo(lex, s, st.rest, ts), Fine(Number(st))
  PROVE  \E n \in Nat : /\ Number(st).numbers = Append(st.numbers, n)
                        /\ ReadTo(lex, s, Number(st).rest, Append(ts, Numeral(n)))
<1> DEFINE r == Skip(st.rest)
           w == Digits(r)
<1>1. ReadTo(lex, s, r, ts) /\ r \in Seq(STRING) /\ w \in Seq(Digit)
  <2>1. st.rest \in Seq(STRING)
    BY DEF Streams
  <2> QED  BY <2>1, ReadSpaces, SkipTyped
<1>2. PICK j \in 0 .. Len(r) : /\ w = SubSeq(r, 1, j)
                               /\ \A i \in 1 .. j : r[i] \in Digit
                               /\ j < Len(r) => r[j + 1] \notin Digit
  BY <1>1, AfterIs DEF Digits, Digit
<1> HIDE DEF r, w
<1>3. /\ w # <<>>
      /\ Number(st) = [st EXCEPT !.rest = SubSeq(r, Len(w) + 1, Len(r)),
                                 !.numbers = Append(@, Decimal(w))]
  BY DEF Number, Fine, Streams, r, w
<1>4. j \in 1 .. Len(r)
  <2>1. j # 0
    <3>1. SubSeq(r, 1, 0) = <<>>
      BY SubSeqEmpty
    <3> QED  BY <1>2, <1>3, <3>1
  <2> QED  BY <1>1, <2>1
<1>5. Len(w) = j /\ ReadTo(lex, s, Suffix(r, j), Append(ts, Numeral(Decimal(w))))
  BY <1>1, <1>2, <1>4, ReadNumber
<1>6. Number(st).rest = Suffix(r, j) /\ Number(st).numbers = Append(st.numbers, Decimal(w))
  BY <1>3, <1>5 DEF Suffix, Streams
<1>7. Decimal(w) \in Nat
  BY <1>1, DecimalTyped
<1> QED  BY <1>5, <1>6, <1>7

\* A separator is no token.
LEMMA SeparatorReads ==
  ASSUME NEW s \in Seq(STRING), NEW lex, LexedBy(lex, s), NEW st \in Streams, NEW ts,
         ReadTo(lex, s, st.rest, ts), Fine(Separator(st))
  PROVE  /\ Separator(st).numbers = st.numbers
         /\ ReadTo(lex, s, Separator(st).rest, ts)
<1>1. st.rest # <<>> /\ ~ st.fail
  BY DEF Separator, Fine, Streams
<1>2. CASE Head(st.rest) \in {",", " "}
  <2>1. Head(st.rest) \notin Digit
    BY <1>2, DigitValues
  <2>2. ReadTo(lex, s, Tail(st.rest), ts)
    BY <1>1, <1>2, <2>1, ReadMark
  <2>3. Separator(st).rest = Tail(st.rest) /\ Separator(st).numbers = st.numbers
    BY <1>1, <1>2 DEF Separator, Streams
  <2> QED  BY <2>2, <2>3
<1>3. CASE Head(st.rest) \notin {",", " "}
  BY <1>1, <1>3 DEF Separator
<1> QED  BY <1>2, <1>3

Joined(a, b) == a \o b

\* Joining sequences is associative.
LEMMA JoinedThree ==
  ASSUME NEW S, NEW a \in Seq(S), NEW b \in Seq(S), NEW c \in Seq(S)
  PROVE  Joined(a, Joined(b, c)) = Joined(Joined(a, b), c)
<1>1. \A s, t \in Seq(S) :
        /\ Joined(s, t) \in Seq(S) /\ Len(Joined(s, t)) = Len(s) + Len(t)
        /\ \A i \in 1 .. Len(s) + Len(t) :
             Joined(s, t)[i] = IF i <= Len(s) THEN s[i] ELSE t[i - Len(s)]
  BY ConcatProperties DEF Joined
<1> DEFINE bc == Joined(b, c)
           ab == Joined(a, b)
           u == Joined(a, bc)
           w == Joined(ab, c)
<1>2. Len(a) \in Nat /\ Len(b) \in Nat /\ Len(c) \in Nat
  OBVIOUS
<1>3. /\ bc \in Seq(S) /\ Len(bc) = Len(b) + Len(c)
      /\ \A i \in 1 .. Len(b) + Len(c) : bc[i] = IF i <= Len(b) THEN b[i] ELSE c[i - Len(b)]
  BY <1>1
<1>4. /\ ab \in Seq(S) /\ Len(ab) = Len(a) + Len(b)
      /\ \A i \in 1 .. Len(a) + Len(b) : ab[i] = IF i <= Len(a) THEN a[i] ELSE b[i - Len(a)]
  BY <1>1
<1> HIDE DEF bc, ab
<1>5. /\ u \in Seq(S) /\ Len(u) = Len(a) + Len(bc)
      /\ \A i \in 1 .. Len(a) + Len(bc) : u[i] = IF i <= Len(a) THEN a[i] ELSE bc[i - Len(a)]
  BY <1>1, <1>3
<1>6. /\ w \in Seq(S) /\ Len(w) = Len(ab) + Len(c)
      /\ \A i \in 1 .. Len(ab) + Len(c) : w[i] = IF i <= Len(ab) THEN ab[i] ELSE c[i - Len(ab)]
  BY <1>1, <1>4
<1> HIDE DEF u, w
<1>7. ASSUME NEW i \in 1 .. Len(u) PROVE u[i] = w[i]
  <2>1. /\ i \in 1 .. Len(a) + Len(bc) /\ i \in 1 .. Len(ab) + Len(c)
    BY <1>2, <1>3, <1>4, <1>5
  <2>2. /\ u[i] = IF i <= Len(a) THEN a[i] ELSE bc[i - Len(a)]
        /\ w[i] = IF i <= Len(ab) THEN ab[i] ELSE c[i - Len(ab)]
    BY <1>5, <1>6, <2>1
  <2>3. CASE i <= Len(a)
    <3>1. i <= Len(ab) /\ i \in 1 .. Len(a) + Len(b)
      BY <1>2, <1>4, <2>3
    <3> QED  BY <1>4, <2>2, <2>3, <3>1
  <2>4. CASE ~ (i <= Len(a)) /\ i <= Len(ab)
    <3>1. /\ i \in 1 .. Len(a) + Len(b) /\ i - Len(a) \in 1 .. Len(b) + Len(c)
          /\ i - Len(a) <= Len(b)
      BY <1>2, <1>4, <2>4
    <3> QED  BY <1>3, <1>4, <2>2, <2>4, <3>1
  <2>5. CASE ~ (i <= Len(a)) /\ ~ (i <= Len(ab))
    <3>1. /\ i - Len(a) \in 1 .. Len(b) + Len(c) /\ ~ (i - Len(a) <= Len(b))
          /\ (i - Len(a)) - Len(b) = i - Len(ab)
      BY <1>2, <1>3, <1>4, <2>1, <2>5
    <3> QED  BY <1>3, <2>2, <2>5, <3>1
  <2> QED  BY <2>3, <2>4, <2>5
<1>8. Len(u) = Len(w)
  BY <1>2, <1>3, <1>4, <1>5, <1>6
<1>9. u = w
  BY <1>5, <1>6, <1>7, <1>8, SeqEqual
<1> QED  BY <1>9 DEF u, w, bc, ab

\* Appending to the second of two sequences.
LEMMA ConcatAppend ==
  ASSUME NEW S, NEW a \in Seq(S), NEW b \in Seq(S), NEW x \in S
  PROVE  Append(a \o b, x) = a \o Append(b, x) /\ a \o Append(b, x) \in Seq(S)
<1>1. <<x>> \in Seq(S) /\ a \o b \in Seq(S)
  BY ConcatProperties
<1>2. Append(a \o b, x) = (a \o b) \o <<x>> /\ Append(b, x) = b \o <<x>>
  BY <1>1, AppendIsConcat
<1>3. (a \o b) \o <<x>> = a \o (b \o <<x>>)
  <2> DEFINE t == <<x>>
  <2>1. t \in Seq(S)
    BY <1>1
  <2> HIDE DEF t
  <2>2. Joined(a, Joined(b, t)) = Joined(Joined(a, b), t)
    BY <2>1, JoinedThree
  <2> QED  BY <2>2 DEF Joined, t
<1>4. Append(b, x) \in Seq(S)
  BY AppendProperties
<1>5. a \o Append(b, x) \in Seq(S)
  BY <1>4, ConcatProperties
<1> QED  BY <1>2, <1>3, <1>5

\* Numbers as tokens.
LEMMA NumeralsTyped ==
  ASSUME NEW vs \in Seq(Nat), NEW from \in Nat, NEW n \in Nat, from + n <= Len(vs)
  PROVE  /\ Numerals(vs, from, n) \in Seq(Token) /\ Len(Numerals(vs, from, n)) = n
         /\ \A i \in 1 .. n : Numerals(vs, from, n)[i] = Numeral(vs[from + i])
<1>1. \A i \in 1 .. n : Numeral(vs[from + i]) \in Token
  <2>1. \A i \in 1 .. n : from + i \in 1 .. Len(vs)
    OBVIOUS
  <2> QED  BY <2>1, TokensTyped
<1>2. Numerals(vs, from, n) \in [1 .. n -> Token]
  BY <1>1 DEF Numerals
<1>3. Numerals(vs, from, n) \in Seq(Token) /\ Len(Numerals(vs, from, n)) = n
  <2> DEFINE f == Numerals(vs, from, n)
  <2>1. f \in [1 .. n -> Token] /\ DOMAIN f = 1 .. n
    BY <1>2
  <2> HIDE DEF f
  <2>2. f \in Seq(Token) /\ Len(f) = n
    BY <2>1
  <2> QED  BY <2>2 DEF f
<1>4. \A i \in 1 .. n : Numerals(vs, from, n)[i] = Numeral(vs[from + i])
  BY DEF Numerals
<1> QED  BY <1>3, <1>4

\* One number more is one token more.
LEMMA NumeralsAppend ==
  ASSUME NEW vs \in Seq(Nat), NEW x \in Nat
  PROVE  Numerals(Append(vs, x), 0, Len(vs) + 1) = Append(Numerals(vs, 0, Len(vs)), Numeral(x))
<1> DEFINE n == Len(vs)
           ws == Append(vs, x)
           a == Numerals(ws, 0, n + 1)
           b == Numerals(vs, 0, n)
           c == Append(b, Numeral(x))
<1>1. n \in Nat /\ 0 \in Nat /\ n + 1 \in Nat
  OBVIOUS
<1>2. /\ ws \in Seq(Nat) /\ Len(ws) = n + 1 /\ ws[n + 1] = x
      /\ \A i \in 1 .. n : ws[i] = vs[i]
  BY AppendProperties
<1>3. b \in Seq(Token) /\ Len(b) = n /\ \A i \in 1 .. n : b[i] = Numeral(vs[0 + i])
  BY <1>1, NumeralsTyped
<1> HIDE DEF ws, n
<1>4. a \in Seq(Token) /\ Len(a) = n + 1 /\ \A i \in 1 .. n + 1 : a[i] = Numeral(ws[0 + i])
  BY <1>1, <1>2, NumeralsTyped
<1>5. Numeral(x) \in Token
  BY TokensTyped
<1> HIDE DEF a, b
<1>6. /\ c \in Seq(Token) /\ Len(c) = n + 1 /\ c[n + 1] = Numeral(x)
      /\ \A i \in 1 .. n : c[i] = b[i]
  BY <1>3, <1>5, AppendProperties
<1> HIDE DEF c
<1>7. ASSUME NEW i \in 1 .. Len(a) PROVE a[i] = c[i]
  <2>1. i \in 1 .. n + 1 /\ 0 + i = i /\ (i # n + 1 => i \in 1 .. n)
    BY <1>1, <1>4
  <2> QED  BY <1>2, <1>3, <1>4, <1>6, <2>1
<1>8. a = c
  BY <1>4, <1>6, <1>7, SeqEqual
<1> QED  BY <1>8 DEF a, b, c, n, ws

\* The loop over the numbers reads as many as it is told.
LEMMA NumbersRead ==
  ASSUME NEW s \in Seq(STRING), NEW lex, LexedBy(lex, s), NEW st \in Streams, NEW ts \in Seq(Token),
         ReadTo(lex, s, st.rest, ts), NEW n \in Nat, Fine(Numbers(n, st))
  PROVE  \E vs \in Seq(Nat) :
           /\ Len(vs) = n /\ Numbers(n, st).numbers = st.numbers \o vs
           /\ ReadTo(lex, s, Numbers(n, st).rest, ts \o Numerals(vs, 0, n))
<1>1. PICK acc \in [0 .. n -> Streams] :
        /\ acc[0] = st /\ acc[n] = Numbers(n, st)
        /\ \A k \in 1 .. n : acc[k] = Separator(Number(acc[k - 1]))
  BY NumbersSteps
<1> DEFINE Reads(k, vs) == /\ Len(vs) = k /\ acc[k].numbers = st.numbers \o vs
                           /\ ReadTo(lex, s, acc[k].rest, ts \o Numerals(vs, 0, k))
           S == {k \in 0 .. n : Fine(acc[k]) => \E vs \in Seq(Nat) : Reads(k, vs)}
<1>2. 0 \in S
  <2>1. <<>> \in Seq(Nat) /\ Len(<<>>) = 0 /\ 0 \in 0 .. n
    OBVIOUS
  <2>2. Numerals(<<>>, 0, 0) = <<>>
    <3>1. Numerals(<<>>, 0, 0) \in Seq(Token) /\ Len(Numerals(<<>>, 0, 0)) = 0
      BY <2>1, NumeralsTyped
    <3> QED  BY <3>1
  <2>3. st.numbers \o <<>> = st.numbers /\ ts \o <<>> = ts
    <3>1. st.numbers \in Seq(Nat)
      BY DEF Streams
    <3> QED  BY <3>1, ConcatEmptySeq
  <2>4. Reads(0, <<>>)
    BY <1>1, <2>1, <2>2, <2>3
  <2> QED  BY <2>1, <2>4
<1>3. ASSUME NEW k \in 0 .. n, k # n, k \in S, Fine(acc[k + 1])
      PROVE  \E vs \in Seq(Nat) : Reads(k + 1, vs)
  <2>0. Fine(acc[k]) => \E vs \in Seq(Nat) : Reads(k, vs)
    BY <1>3
  <2> HIDE DEF S
  <2>1. k + 1 \in 1 .. n /\ (k + 1) - 1 = k /\ k + 1 \in 0 .. n /\ k \in Nat
    BY <1>3
  <2> DEFINE a == acc[k]
             b == Number(a)
  <2>2. acc[k + 1] = Separator(b) /\ a \in Streams /\ b \in Streams
    <3>1. acc[k + 1] = Separator(Number(acc[(k + 1) - 1])) /\ a \in Streams
      BY <1>1, <2>1
    <3> QED  BY <2>1, <3>1, StreamsTyped
  <2>3. Fine(b) /\ Fine(a)
    BY <1>3, <2>2, FineBefore
  <2>4. PICK vs \in Seq(Nat) : Reads(k, vs)
    BY <2>0, <2>3
  <2> DEFINE us == ts \o Numerals(vs, 0, k)
  <2>5. PICK x \in Nat : /\ b.numbers = Append(a.numbers, x)
                         /\ ReadTo(lex, s, b.rest, Append(us, Numeral(x)))
    BY <2>2, <2>3, <2>4, NumberReads
  <2>6. /\ acc[k + 1].numbers = b.numbers
        /\ ReadTo(lex, s, acc[k + 1].rest, Append(us, Numeral(x)))
    <3> DEFINE ys == Append(us, Numeral(x))
    <3>1. ReadTo(lex, s, b.rest, ys) /\ Fine(Separator(b))
      BY <1>3, <2>2, <2>5
    <3> HIDE DEF ys, b
    <3>2. Separator(b).numbers = b.numbers /\ ReadTo(lex, s, Separator(b).rest, ys)
      BY <2>2, <3>1, SeparatorReads
    <3> QED  BY <2>2, <3>2 DEF ys
  <2> DEFINE ws == Append(vs, x)
  <2>7. ws \in Seq(Nat) /\ Len(ws) = k + 1
    BY <2>4, AppendProperties
  <2>8. acc[k + 1].numbers = st.numbers \o ws
    <3>1. st.numbers \in Seq(Nat)
      BY DEF Streams
    <3> DEFINE ns == st.numbers
    <3> HIDE DEF ns
    <3>2. ns \in Seq(Nat)
      BY <3>1 DEF ns
    <3>3. ns \o Append(vs, x) = Append(ns \o vs, x)
      BY <3>2, ConcatAppend
    <3> QED  BY <2>4, <2>5, <2>6, <3>3 DEF ns
  <2>9. Append(us, Numeral(x)) = ts \o Numerals(ws, 0, k + 1)
    <3>1. Numerals(ws, 0, k + 1) = Append(Numerals(vs, 0, k), Numeral(x))
      BY <2>4, NumeralsAppend
    <3>2. Numerals(vs, 0, k) \in Seq(Token) /\ Numeral(x) \in Token
      <4>1. 0 + k <= Len(vs) /\ 0 \in Nat
        BY <2>1, <2>4
      <4> QED  BY <2>1, <4>1, NumeralsTyped, TokensTyped
    <3> DEFINE ms == Numerals(vs, 0, k)
               y == Numeral(x)
    <3> HIDE DEF ms, y
    <3>3. ms \in Seq(Token) /\ y \in Token
      BY <3>2 DEF ms, y
    <3>4. ts \o Append(ms, y) = Append(ts \o ms, y)
      BY <3>3, ConcatAppend
    <3> QED  BY <3>1, <3>4 DEF ms, y
  <2>10. Reads(k + 1, ws)
    <3> HIDE DEF ws, us
    <3> QED  BY <2>6, <2>7, <2>8, <2>9
  <2> QED  BY <2>7, <2>10
<1>4. ASSUME NEW k \in 0 .. n, k # n, k \in S PROVE k + 1 \in S
  <2>1. k + 1 \in 0 .. n
    BY <1>4
  <2> QED  BY <1>3, <1>4, <2>1
<1> HIDE DEF S
<1>5. n \in S
  <2>1. n \in 0 .. n
    OBVIOUS
  <2> QED  BY <1>2, <1>4, <2>1, UpTo
<1> QED  BY <1>1, <1>5 DEF S

----------------------------------------------------------------------------
(* The readers of vectors and matrices.                                    *)

\* Tuples grow by a component.
LEMMA AppendTuple ==
  /\ \A a : Append(<<>>, a) = <<a>>
  /\ \A a, b : Append(<<a>>, b) = <<a, b>>
  /\ \A a, b, c : Append(<<a, b>>, c) = <<a, b, c>>
  /\ \A a, b, c, d : Append(<<a, b, c>>, d) = <<a, b, c, d>>
  /\ \A a, b, c, d, e : Append(<<a, b, c, d>>, e) = <<a, b, c, d, e>>
<1>1. \A a : Append(<<>>, a) = <<a>>
  OBVIOUS
<1>2. ASSUME NEW a, NEW b PROVE Append(<<a>>, b) = <<a, b>>
  <2> DEFINE S == {a, b}
             w == <<a, b>>
             u == Append(<<a>>, b)
  <2>1. /\ <<a>> \in Seq(S) /\ Len(<<a>>) = 1 /\ b \in S
        /\ <<a>>[1] = a
    OBVIOUS
  <2>2. w \in Seq(S) /\ Len(w) = 2 /\ w[1] = a /\ w[2] = b
    OBVIOUS
  <2> HIDE DEF S, w
  <2>3. u \in Seq(S)
    BY <2>1, AppendProperties
  <2>4. Len(u) = 2
    BY <2>1, AppendProperties
  <2>5. u[1] = a /\ u[2] = b
    BY <2>1, AppendProperties
  <2> HIDE DEF u
  <2>6. \A i \in 1 .. Len(u) : i = 1 \/ i = 2
    BY <2>4
  <2>7. u = w
    BY <2>2, <2>3, <2>4, <2>5, <2>6, SeqEqual
  <2> QED  BY <2>7 DEF u, w
<1>3. ASSUME NEW a, NEW b, NEW c PROVE Append(<<a, b>>, c) = <<a, b, c>>
  <2> DEFINE S == {a, b, c}
             w == <<a, b, c>>
             u == Append(<<a, b>>, c)
  <2>1. /\ <<a, b>> \in Seq(S) /\ Len(<<a, b>>) = 2 /\ c \in S
        /\ <<a, b>>[1] = a /\ <<a, b>>[2] = b
    OBVIOUS
  <2>2. w \in Seq(S) /\ Len(w) = 3 /\ w[1] = a /\ w[2] = b /\ w[3] = c
    OBVIOUS
  <2> HIDE DEF S, w
  <2>3. u \in Seq(S)
    BY <2>1, AppendProperties
  <2>4. Len(u) = 3
    BY <2>1, AppendProperties
  <2>5. u[1] = a /\ u[2] = b /\ u[3] = c
    BY <2>1, AppendProperties
  <2> HIDE DEF u
  <2>6. \A i \in 1 .. Len(u) : i = 1 \/ i = 2 \/ i = 3
    BY <2>4
  <2>7. u = w
    BY <2>2, <2>3, <2>4, <2>5, <2>6, SeqEqual
  <2> QED  BY <2>7 DEF u, w
<1>4. ASSUME NEW a, NEW b, NEW c, NEW d PROVE Append(<<a, b, c>>, d) = <<a, b, c, d>>
  <2> DEFINE S == {a, b, c, d}
             w == <<a, b, c, d>>
             u == Append(<<a, b, c>>, d)
  <2>1. /\ <<a, b, c>> \in Seq(S) /\ Len(<<a, b, c>>) = 3 /\ d \in S
        /\ <<a, b, c>>[1] = a /\ <<a, b, c>>[2] = b /\ <<a, b, c>>[3] = c
    OBVIOUS
  <2>2. w \in Seq(S) /\ Len(w) = 4 /\ w[1] = a /\ w[2] = b /\ w[3] = c /\ w[4] = d
    OBVIOUS
  <2> HIDE DEF S, w
  <2>3. u \in Seq(S)
    BY <2>1, AppendProperties
  <2>4. Len(u) = 4
    BY <2>1, AppendProperties
  <2>5. u[1] = a /\ u[2] = b /\ u[3] = c /\ u[4] = d
    BY <2>1, AppendProperties
  <2> HIDE DEF u
  <2>6. \A i \in 1 .. Len(u) : i = 1 \/ i = 2 \/ i = 3 \/ i = 4
    BY <2>4
  <2>7. u = w
    BY <2>2, <2>3, <2>4, <2>5, <2>6, SeqEqual
  <2> QED  BY <2>7 DEF u, w
<1>5. ASSUME NEW a, NEW b, NEW c, NEW d, NEW e PROVE Append(<<a, b, c, d>>, e) = <<a, b, c, d, e>>
  <2> DEFINE S == {a, b, c, d, e}
             w == <<a, b, c, d, e>>
             u == Append(<<a, b, c, d>>, e)
  <2>1. /\ <<a, b, c, d>> \in Seq(S) /\ Len(<<a, b, c, d>>) = 4 /\ e \in S
        /\ <<a, b, c, d>>[1] = a /\ <<a, b, c, d>>[2] = b
        /\ <<a, b, c, d>>[3] = c /\ <<a, b, c, d>>[4] = d
    OBVIOUS
  <2>2. w \in Seq(S) /\ Len(w) = 5 /\ w[1] = a /\ w[2] = b /\ w[3] = c /\ w[4] = d /\ w[5] = e
    OBVIOUS
  <2> HIDE DEF S, w
  <2>3. u \in Seq(S)
    BY <2>1, AppendProperties
  <2>4. Len(u) = 5
    BY <2>1, AppendProperties
  <2>5. u[1] = a /\ u[2] = b /\ u[3] = c /\ u[4] = d /\ u[5] = e
    BY <2>1, AppendProperties
  <2> HIDE DEF u
  <2>6. \A i \in 1 .. Len(u) : i = 1 \/ i = 2 \/ i = 3 \/ i = 4 \/ i = 5
    BY <2>4
  <2>7. u = w
    BY <2>2, <2>3, <2>4, <2>5, <2>6, SeqEqual
  <2> QED  BY <2>7 DEF u, w
<1> QED  BY <1>1, <1>2, <1>3, <1>4, <1>5

\* Nothing is read at first.
LEMMA ReadNothing ==
  ASSUME NEW s \in Seq(STRING), NEW lex, LexedBy(lex, s)
  PROVE  /\ Stream(s) \in Streams /\ Stream(s).numbers = <<>>
         /\ ReadTo(lex, s, Stream(s).rest, <<>>)
<1>1. 0 \in 0 .. Len(s) /\ 0 + 1 = 1
  OBVIOUS
<1>2. s = Suffix(s, 0)
  BY <1>1, SubSeqFull DEF Suffix
<1>3. lex[0].tokens = <<>> /\ ~ lex[0].number
  BY DEF LexedBy
<1>4. ReadTo(lex, s, s, <<>>)
  BY <1>1, <1>2, <1>3 DEF ReadTo
<1>5. Stream(s) \in Streams /\ Stream(s).numbers = <<>> /\ Stream(s).rest = s
  BY DEF Stream, Streams
<1> QED  BY <1>4, <1>5

\* What has been read is what the tokens begin with.
LEMMA ReadBegins ==
  ASSUME NEW s \in Seq(STRING), NEW lex, LexedBy(lex, s), lex[Len(s)].tokens = Tokens(s),
         NEW rest, NEW ts, ReadTo(lex, s, rest, ts)
  PROVE  /\ ts \in Seq(Token) /\ Tokens(s) \in Seq(Token) /\ Len(ts) <= Len(Tokens(s))
         /\ \A p \in 1 .. Len(ts) : Tokens(s)[p] = ts[p]
         /\ IsPrefix(ts, Tokens(s))
<1> DEFINE us == Tokens(s)
           m == Len(ts)
<1>1. ts \in Seq(Token) /\ us \in Seq(Token) /\ m <= Len(us) /\ \A p \in 1 .. m : us[p] = ts[p]
  BY ReadIsPrefix
<1> HIDE DEF us
<1>2. SubSeq(ts, 1, m) = ts
  BY <1>1, SubSeqFull
<1>3. SubSeq(us, 1, m) = ts
  <2>1. m \in Nat /\ 1 \in Int /\ m \in Int /\ \A p \in 1 .. m : us[p] \in Token
    BY <1>1
  <2> DEFINE xs == SubSeq(us, 1, m)
  <2>2. /\ xs \in Seq(Token) /\ Len(xs) = (IF 1 <= m THEN m - 1 + 1 ELSE 0)
        /\ \A p \in 1 .. m - 1 + 1 : xs[p] = us[1 + p - 1]
    BY <2>1, SubSeqProperties
  <2> HIDE DEF xs
  <2>3. Len(xs) = m /\ \A p \in 1 .. m : xs[p] = us[p]
    <3>1. m - 1 + 1 = m /\ \A p \in 1 .. m : 1 + p - 1 = p
      BY <2>1
    <3> QED  BY <2>1, <2>2, <3>1
  <2>4. xs = ts
    BY <1>1, <2>2, <2>3, SeqEqual
  <2> QED  BY <2>4 DEF xs
<1>4. IsPrefix(ts, us)
  BY <1>1, <1>2, <1>3 DEF IsPrefix
<1> QED  BY <1>1, <1>4 DEF us

\* A vector is read from what is written as it.
LEMMA VectorExact ==
  ASSUME NEW s \in Seq(STRING), Fine(Vector(s))
  PROVE  SpellsVector(Tokens(s), Vector(s).numbers)
<1>1. PICK lex : LexedBy(lex, s) /\ lex[Len(s)].tokens = Tokens(s)
  BY TokensSteps
<1> DEFINE a0 == Stream(s)
           a1 == Expect(a0, "[")
           a2 == Number(a1)
           size == ThrowIfFailed(a2)
           a3 == Expect(size, "]")
           a4 == Expect(a3, "(")
           n == IF size.throws THEN 0 ELSE size.numbers[1]
           a5 == Numbers(n, a4)
           a6 == Expect(a5, ")")
<1>2. Vector(s) = a6
  BY DEF Vector
<1>3. a0 \in Streams /\ a0.numbers = <<>> /\ ReadTo(lex, s, a0.rest, <<>>)
  BY <1>1, ReadNothing
<1> HIDE DEF a0
<1>4. a1 \in Streams
  BY <1>3, StreamsTyped
<1> HIDE DEF a1
<1>5. a2 \in Streams /\ a2.numbers # <<>>
  <2>1. a1.numbers \in Seq(Nat)
    BY <1>4 DEF Streams
  <2>2. \A x \in Nat : Append(a1.numbers, x) # <<>>
    BY <2>1, AppendProperties
  <2>3. \E x \in Nat : a2.numbers = Append(a1.numbers, x)
    <3> DEFINE r == Skip(a1.rest)
               w == Digits(r)
    <3>1. Decimal(w) \in Nat
      <4>1. a1.rest \in Seq(STRING)
        BY <1>4 DEF Streams
      <4> QED  BY <4>1, SkipTyped, DecimalTyped
    <3>2. \/ a2 = [a1 EXCEPT !.fail = TRUE, !.numbers = Append(@, 0)]
          \/ a2 = [a1 EXCEPT !.rest = SubSeq(r, Len(w) + 1, Len(r)), !.numbers = Append(@, Decimal(w))]
      BY DEF Number
    <3>3. a2.numbers = Append(a1.numbers, 0) \/ a2.numbers = Append(a1.numbers, Decimal(w))
      BY <1>4, <3>2 DEF Streams
    <3> QED  BY <3>1, <3>3
  <2>4. a2 \in Streams
    BY <1>4, StreamsTyped
  <2> QED  BY <2>2, <2>3, <2>4
<1> HIDE DEF a2
<1>6. size \in Streams /\ n \in Nat
  <2>1. size \in Streams /\ size.numbers = a2.numbers /\ size.numbers \in Seq(Nat)
    BY <1>5 DEF ThrowIfFailed, Streams
  <2>2. size.numbers[1] \in Nat
    BY <1>5, <2>1
  <2> QED  BY <2>1, <2>2
<1> HIDE DEF size, n
<1>7. a3 \in Streams
  BY <1>6, StreamsTyped
<1> HIDE DEF a3
<1>8. a4 \in Streams
  BY <1>7, StreamsTyped
<1> HIDE DEF a4
<1>9. a5 \in Streams
  BY <1>6, <1>8, RowTyped
<1> HIDE DEF a5
<1>10. /\ Fine(a1) /\ Fine(a2) /\ size = a2 /\ Fine(a3) /\ Fine(a4) /\ Fine(a5) /\ Fine(a6)
  <2>1. Fine(a6)
    BY <1>2
  <2>2. Fine(a5)
    BY <1>9, <2>1, FineBefore
  <2>3. Fine(a4)
    BY <1>6, <1>8, <2>2, FineBeforeNumbers DEF a5
  <2>4. Fine(a3)
    BY <1>7, <2>3, FineBefore DEF a4
  <2>5. Fine(size)
    BY <1>6, <2>4, FineBefore DEF a3
  <2>6. Fine(a2) /\ size = a2
    BY <1>5, <2>5, FineBefore DEF size
  <2>7. Fine(a1)
    BY <1>4, <2>6, FineBefore DEF a2
  <2> QED  BY <2>1, <2>2, <2>3, <2>4, <2>5, <2>6, <2>7
<1> DEFINE t0 == <<>>
           t1 == Append(t0, Mark("["))
<1> HIDE DEF t0
<1>11. a1.numbers = <<>> /\ ReadTo(lex, s, a1.rest, t1)
  <2>1. ReadTo(lex, s, a0.rest, t0)
    BY <1>3 DEF t0
  <2> QED  BY <1>1, <1>3, <1>10, <2>1, ExpectReads DEF a1
<1> HIDE DEF t1
<1>12. PICK x \in Nat : a2.numbers = Append(<<>>, x) /\ ReadTo(lex, s, a2.rest, Append(t1, Numeral(x)))
  BY <1>1, <1>4, <1>10, <1>11, NumberReads DEF a2
<1>13. n = x
  <2>1. ~ size.throws
    BY <1>10 DEF Fine
  <2> QED  BY <1>10, <1>12, <2>1 DEF n
<1> DEFINE t2 == Append(t1, Numeral(x))
           t3 == Append(t2, Mark("]"))
           t4 == Append(t3, Mark("("))
<1> HIDE DEF t2
<1>14. a3.numbers = a2.numbers /\ ReadTo(lex, s, a3.rest, t3)
  <2>1. ReadTo(lex, s, a2.rest, t2)
    BY <1>12 DEF t2
  <2> QED  BY <1>1, <1>5, <1>10, <2>1, ExpectReads DEF a3
<1> HIDE DEF t3
<1>15. a4.numbers = a2.numbers /\ ReadTo(lex, s, a4.rest, t4)
  BY <1>1, <1>7, <1>10, <1>14, ExpectReads DEF a4
<1> HIDE DEF t4
<1>16. t4 \in Seq(Token)
  BY <1>1, <1>15, ReadBegins
<1>17. PICK vs \in Seq(Nat) : /\ Len(vs) = x /\ a5.numbers = a4.numbers \o vs
                              /\ ReadTo(lex, s, a5.rest, t4 \o Numerals(vs, 0, x))
  BY <1>1, <1>8, <1>10, <1>13, <1>15, <1>16, NumbersRead DEF a5
<1> DEFINE t5 == t4 \o Numerals(vs, 0, x)
           t6 == Append(t5, Mark(")"))
<1> HIDE DEF t5
<1>18. a6.numbers = a5.numbers /\ ReadTo(lex, s, a6.rest, t6)
  <2>1. ReadTo(lex, s, a5.rest, t5)
    BY <1>17 DEF t5
  <2> QED  BY <1>1, <1>9, <1>10, <2>1, ExpectReads
<1> HIDE DEF a6
<1> DEFINE v == a6.numbers
<1>19. /\ v = <<x>> \o vs /\ Len(v) = 1 + x /\ v[1] = x
       /\ \A i \in 1 .. x : v[1 + i] = vs[i]
  <2>1. v = <<x>> \o vs
    BY <1>12, <1>15, <1>17, <1>18
  <2>2. <<x>> \in Seq(Nat) /\ Len(<<x>>) = 1 /\ <<x>>[1] = x
    OBVIOUS
  <2>3. /\ Len(<<x>> \o vs) = 1 + x
        /\ \A i \in 1 .. 1 + x : (<<x>> \o vs)[i] = IF i <= 1 THEN <<x>>[i] ELSE vs[i - 1]
    BY <1>17, <2>2, ConcatProperties
  <2>4. 1 \in 1 .. 1 + x /\ \A i \in 1 .. x : 1 + i \in 1 .. 1 + x /\ ~ (1 + i <= 1) /\ (1 + i) - 1 = i
    OBVIOUS
  <2> HIDE DEF v
  <2> QED  BY <2>1, <2>2, <2>3, <2>4
<1> HIDE DEF v
<1>20. Numerals(v, 1, x) = Numerals(vs, 0, x)
  BY <1>19 DEF Numerals
<1>21. t4 = <<Mark("["), Numeral(x), Mark("]"), Mark("(")>>
  <2>1. t1 = <<Mark("[")>>
    BY AppendTuple DEF t0, t1
  <2>2. t2 = <<Mark("["), Numeral(x)>>
    BY <2>1, AppendTuple DEF t2
  <2>3. t3 = <<Mark("["), Numeral(x), Mark("]")>>
    BY <2>2, AppendTuple DEF t3
  <2> QED  BY <2>3, AppendTuple DEF t4
<1>22. t6 = <<Mark("["), Numeral(x), Mark("]"), Mark("(")>> \o Numerals(v, 1, x) \o <<Mark(")")>>
  <2>1. t5 \in Seq(Token)
    BY <1>1, <1>17, ReadBegins DEF t5
  <2>2. Mark(")") \in Token
    <3>1. t6 \in Seq(Token)
      BY <1>1, <1>18, ReadBegins
    <3> QED  BY <2>1, <3>1 
  <2>3. t6 = t5 \o <<Mark(")")>>
    BY <2>1, <2>2, AppendIsConcat
  <2> QED  BY <1>20, <1>21, <2>3 DEF t5
<1>23. IsPrefix(t6, Tokens(s))
  BY <1>1, <1>18, ReadBegins
<1>24. SpellsVector(Tokens(s), v)
  BY <1>19, <1>22, <1>23 DEF SpellsVector
<1> QED  BY <1>2, <1>24 DEF v

\* Two sequences that agree on a stretch, d places apart.
LEMMA SubSeqSame ==
  ASSUME NEW S, NEW a \in Seq(S), NEW b \in Seq(S), NEW m \in Int, NEW n \in Int, NEW d \in Int,
         1 <= m, n <= Len(a), 1 <= m - d, n - d <= Len(b),
         \A i \in m .. n : a[i] = b[i - d]
  PROVE  SubSeq(a, m, n) = SubSeq(b, m - d, n - d)
<1> DEFINE u == SubSeq(a, m, n)
           w == SubSeq(b, m - d, n - d)
<1>1. /\ \A i \in m .. n : a[i] \in S
      /\ \A i \in m - d .. n - d : b[i] \in S
      /\ m - d \in Int /\ n - d \in Int
  <2>1. /\ \A i \in m .. n : i \in 1 .. Len(a)
        /\ \A i \in m - d .. n - d : i \in 1 .. Len(b)
    OBVIOUS
  <2> QED  BY <2>1
<1>2. /\ u \in Seq(S) /\ Len(u) = (IF m <= n THEN n - m + 1 ELSE 0)
      /\ \A i \in 1 .. n - m + 1 : u[i] = a[m + i - 1]
  BY <1>1, SubSeqProperties
<1>3. /\ w \in Seq(S) /\ Len(w) = (IF m - d <= n - d THEN (n - d) - (m - d) + 1 ELSE 0)
      /\ \A i \in 1 .. (n - d) - (m - d) + 1 : w[i] = b[(m - d) + i - 1]
  BY <1>1, SubSeqProperties
<1> HIDE DEF u, w
<1>4. Len(u) = Len(w)
  BY <1>2, <1>3
<1>5. ASSUME NEW i \in 1 .. Len(u) PROVE u[i] = w[i]
  <2>1. /\ i \in 1 .. n - m + 1 /\ i \in 1 .. (n - d) - (m - d) + 1
        /\ m + i - 1 \in m .. n /\ (m + i - 1) - d = (m - d) + i - 1
    BY <1>2
  <2> QED  BY <1>2, <1>3, <2>1
<1>6. u = w
  BY <1>2, <1>3, <1>4, <1>5, SeqEqual
<1> QED  BY <1>6 DEF u, w

\* How a row is written.
RowTokens(v, from, cols) == <<Mark("(")>> \o Numerals(v, from, cols) \o <<Mark(")")>>

\* A row is its numbers and two parentheses.
LEMMA RowTokensTyped ==
  ASSUME NEW vs \in Seq(Nat), NEW from \in Nat, NEW cols \in Nat, from + cols <= Len(vs),
         Mark("(") \in Token, Mark(")") \in Token
  PROVE  RowTokens(vs, from, cols) \in Seq(Token) /\ Len(RowTokens(vs, from, cols)) = cols + 2
<1> DEFINE ns == Numerals(vs, from, cols)
           a == <<Mark("(")>>
           b == <<Mark(")")>>
<1>1. ns \in Seq(Token) /\ Len(ns) = cols
  BY NumeralsTyped
<1>2. a \in Seq(Token) /\ Len(a) = 1 /\ b \in Seq(Token) /\ Len(b) = 1
  OBVIOUS
<1> HIDE DEF ns, a, b
<1> DEFINE p == a \o ns
           q == p \o b
<1>3. p \in Seq(Token) /\ Len(p) = 1 + cols
  <2>1. p \in Seq(Token)
    BY <1>1, <1>2, ConcatProperties
  <2>2. Len(p) = Len(a) + Len(ns)
    BY <1>1, <1>2, ConcatProperties
  <2> QED  BY <1>1, <1>2, <2>1, <2>2
<1> HIDE DEF p
<1>4. q \in Seq(Token) /\ Len(q) = (1 + cols) + 1
  <2>1. q \in Seq(Token)
    BY <1>2, <1>3, ConcatProperties
  <2>2. Len(q) = Len(p) + Len(b)
    <3>1. p \in Seq(Token) /\ b \in Seq(Token)
      BY <1>2, <1>3
    <3> QED  BY <3>1
  <2> QED  BY <1>2, <1>3, <2>1, <2>2
<1>5. (1 + cols) + 1 = cols + 2
  OBVIOUS
<1> QED  BY <1>4, <1>5 DEF RowTokens, p, ns, a, b

\* A row is read from what is written as it.
LEMMA RowRead ==
  ASSUME NEW s \in Seq(STRING), NEW lex, LexedBy(lex, s), lex[Len(s)].tokens = Tokens(s),
         NEW st \in Streams, NEW ts,
         ReadTo(lex, s, st.rest, ts), NEW cols \in Nat, Fine(Row(cols, st))
  PROVE  \E vs \in Seq(Nat) :
           /\ Len(vs) = cols /\ Row(cols, st).numbers = st.numbers \o vs
           /\ RowTokens(vs, 0, cols) \in Seq(Token) /\ Len(RowTokens(vs, 0, cols)) = cols + 2
           /\ ReadTo(lex, s, Row(cols, st).rest, ts \o RowTokens(vs, 0, cols))
<1> DEFINE a1 == Expect(st, "(")
           a2 == Numbers(cols, a1)
           a3 == Expect(a2, ")")
           a4 == Separator(a3)
<1>1. Row(cols, st) = a4
  BY DEF Row
<1>2. a1 \in Streams /\ a2 \in Streams /\ a3 \in Streams
  BY StreamsTyped, RowTyped
<1>3. Fine(a1) /\ Fine(a2) /\ Fine(a3) /\ Fine(a4)
  BY <1>1, FineBeforeRow
<1>4. ts \in Seq(Token)
  BY ReadBegins
<1> DEFINE t1 == Append(ts, Mark("("))
<1>5. a1.numbers = st.numbers /\ ReadTo(lex, s, a1.rest, t1)
  BY <1>3, ExpectReads
<1> HIDE DEF t1, a1
<1>6. t1 \in Seq(Token)
  BY <1>5, ReadBegins
<1>7. PICK vs \in Seq(Nat) : /\ Len(vs) = cols /\ a2.numbers = a1.numbers \o vs
                             /\ ReadTo(lex, s, a2.rest, t1 \o Numerals(vs, 0, cols))
  BY <1>2, <1>3, <1>5, <1>6, NumbersRead
<1> DEFINE ns == Numerals(vs, 0, cols)
           t2 == t1 \o ns
           t3 == Append(t2, Mark(")"))
<1> HIDE DEF t2, a2
<1>8. a3.numbers = a2.numbers /\ ReadTo(lex, s, a3.rest, t3)
  <2>1. ReadTo(lex, s, a2.rest, t2)
    BY <1>7 DEF t2
  <2> QED  BY <1>2, <1>3, <2>1, ExpectReads
<1> HIDE DEF a3, t3
<1>9. a4.numbers = a3.numbers /\ ReadTo(lex, s, a4.rest, t3)
  BY <1>2, <1>3, <1>8, SeparatorReads
<1>10. Mark("(") \in Token /\ Mark(")") \in Token
  <2>1. t2 \in Seq(Token) /\ t3 \in Seq(Token)
    <3>1. ReadTo(lex, s, a2.rest, t2)
      BY <1>7 DEF t2
    <3> QED  BY <1>8, <3>1, ReadBegins
  <2>2. t1 = Append(ts, Mark("(")) /\ t3 = Append(t2, Mark(")"))
    BY DEF t1, t3
  <2>3. \A xs \in Seq(Token) : \A x : Append(xs, x) \in Seq(Token) => x \in Token
    <3> SUFFICES ASSUME NEW xs \in Seq(Token), NEW x, Append(xs, x) \in Seq(Token) PROVE x \in Token
      OBVIOUS
    <3>1. Len(Append(xs, x)) = Len(xs) + 1 /\ Append(xs, x)[Len(xs) + 1] = x
      OBVIOUS
    <3>2. Len(xs) + 1 \in 1 .. Len(Append(xs, x))
      BY <3>1
    <3> QED  BY <3>1, <3>2, ElementOfSeq
  <2> QED  BY <1>4, <1>6, <2>1, <2>2, <2>3
<1>11. RowTokens(vs, 0, cols) \in Seq(Token) /\ Len(RowTokens(vs, 0, cols)) = cols + 2
  <2>1. 0 \in Nat /\ 0 + cols <= Len(vs)
    BY <1>7
  <2> QED  BY <1>10, <2>1, RowTokensTyped
<1>12. t3 = ts \o RowTokens(vs, 0, cols)
  <2>1. ns \in Seq(Token)
    <3>1. 0 \in Nat /\ 0 + cols <= Len(vs)
      BY <1>7
    <3> QED  BY <3>1, NumeralsTyped
  <2> DEFINE a == <<Mark("(")>>
             b == <<Mark(")")>>
  <2>2. a \in Seq(Token) /\ b \in Seq(Token)
    BY <1>10
  <2>3. t1 = ts \o a
    BY <1>4, <1>10, AppendIsConcat DEF t1
  <2>4. t3 = t2 \o b
    <3>1. t2 \in Seq(Token)
      BY <1>6, <2>1, ConcatProperties DEF t2
    <3> QED  BY <1>10, <3>1, AppendIsConcat DEF t3
  <2>5. RowTokens(vs, 0, cols) = (a \o ns) \o b
    BY DEF RowTokens
  <2> HIDE DEF a, b, ns
  <2>6. t2 = ts \o (a \o ns) /\ a \o ns \in Seq(Token)
    <3>1. ts \o (a \o ns) = (ts \o a) \o ns
      <4>1. Joined(ts, Joined(a, ns)) = Joined(Joined(ts, a), ns)
        BY <1>4, <2>1, <2>2, JoinedThree
      <4> QED  BY <4>1 DEF Joined
    <3> QED  BY <2>1, <2>2, <2>3, <3>1, ConcatProperties DEF t2, ns
  <2> DEFINE p == a \o ns
  <2>7. p \in Seq(Token) /\ t2 = ts \o p
    BY <2>6
  <2> HIDE DEF p
  <2>8. ts \o (p \o b) = (ts \o p) \o b
    <3>1. Joined(ts, Joined(p, b)) = Joined(Joined(ts, p), b)
      BY <1>4, <2>2, <2>7, JoinedThree
    <3> QED  BY <3>1 DEF Joined
  <2> QED  BY <2>4, <2>5, <2>7, <2>8 DEF p
<1>13. a4.numbers = st.numbers \o vs /\ ReadTo(lex, s, a4.rest, ts \o RowTokens(vs, 0, cols))
  BY <1>5, <1>7, <1>8, <1>9, <1>12
<1> QED  BY <1>1, <1>7, <1>11, <1>13 DEF a3, a2, a1

\* Numbers that are the same are written the same.
LEMMA RowTokensSame ==
  ASSUME NEW v, NEW w, NEW i, NEW j, NEW cols \in Nat,
         \A k \in 1 .. cols : v[i + k] = w[j + k]
  PROVE  RowTokens(v, i, cols) = RowTokens(w, j, cols)
<1>1. Numerals(v, i, cols) = Numerals(w, j, cols)
  BY DEF Numerals
<1> QED  BY <1>1 DEF RowTokens

\* rs are the rows of the numbers vs, one after the other.
RowsOf(vs, rs, rows, cols) ==
  /\ vs \in Seq(Nat) /\ Len(vs) = rows * cols
  /\ rs \in Seq(Token) /\ Len(rs) = rows * (cols + 2)
  /\ \A i \in 0 .. rows - 1 :
       SubSeq(rs, i * (cols + 2) + 1, (i + 1) * (cols + 2)) = RowTokens(vs, i * cols, cols)

\* Before row i there are i rows.
LEMMA Multiples ==
  ASSUME NEW rows \in Nat, NEW m \in Nat, NEW i \in 0 .. rows - 1
  PROVE  /\ i * m \in Nat /\ rows * m \in Nat /\ (i + 1) * m = i * m + m
         /\ (i + 1) * m <= rows * m
<1>1. i * m \in Nat /\ rows * m \in Nat /\ (i + 1) * m = i * m + m
  OBVIOUS
<1>2. (i + 1) * m <= rows * m
  <2> DEFINE d == rows - (i + 1)
  <2>1. d \in Nat /\ rows = (i + 1) + d
    OBVIOUS
  <2>2. d * m \in Nat
    BY <2>1
  <2> HIDE DEF d
  <2>3. ((i + 1) + d) * m = (i + 1) * m + d * m
    BY <2>1
  <2> QED  BY <1>1, <2>1, <2>2, <2>3
<1> QED  BY <1>1, <1>2

\* One row more.
LEMMA RowsAppend ==
  ASSUME NEW rows \in Nat, NEW cols \in Nat, NEW vs, NEW rs, RowsOf(vs, rs, rows, cols),
         NEW xs \in Seq(Nat), Len(xs) = cols,
         RowTokens(xs, 0, cols) \in Seq(Token), Len(RowTokens(xs, 0, cols)) = cols + 2
  PROVE  RowsOf(vs \o xs, rs \o RowTokens(xs, 0, cols), rows + 1, cols)
<1> DEFINE m == cols + 2
           r == RowTokens(xs, 0, cols)
           ws == vs \o xs
           ss == rs \o r
           nv == rows * cols
           nr == rows * m
<1>1. /\ vs \in Seq(Nat) /\ Len(vs) = nv /\ rs \in Seq(Token) /\ Len(rs) = nr
      /\ r \in Seq(Token) /\ Len(r) = m /\ nv \in Nat /\ nr \in Nat /\ m \in Nat
  BY DEF RowsOf
<1>2. ASSUME NEW i \in 0 .. rows - 1
      PROVE  SubSeq(rs, i * m + 1, (i + 1) * m) = RowTokens(vs, i * cols, cols)
  BY DEF RowsOf
<1>3. (rows + 1) * cols = nv + cols /\ (rows + 1) * m = nr + m
  BY Multiples
<1> HIDE DEF r, nv, nr, m
<1>4. /\ ws \in Seq(Nat) /\ Len(ws) = nv + cols
      /\ \A k \in 1 .. nv : ws[k] = vs[k]
      /\ \A k \in 1 .. cols : ws[nv + k] = xs[k]
  <2>1. ws \in Seq(Nat)
    BY <1>1
  <2>2. /\ Len(ws) = Len(vs) + Len(xs)
        /\ \A k \in 1 .. Len(vs) + Len(xs) : ws[k] = IF k <= Len(vs) THEN vs[k] ELSE xs[k - Len(vs)]
    BY <1>1, ConcatProperties
  <2>3. /\ \A k \in 1 .. nv : k \in 1 .. nv + cols /\ k <= nv
        /\ \A k \in 1 .. cols : nv + k \in 1 .. nv + cols /\ ~ (nv + k <= nv) /\ (nv + k) - nv = k
    BY <1>1
  <2> HIDE DEF ws
  <2> QED  BY <1>1, <2>1, <2>2, <2>3
<1>5. /\ ss \in Seq(Token) /\ Len(ss) = nr + m
      /\ \A k \in 1 .. nr : ss[k] = rs[k]
      /\ \A k \in 1 .. m : ss[nr + k] = r[k]
  <2>1. ss \in Seq(Token)
    BY <1>1
  <2>2. /\ Len(ss) = Len(rs) + Len(r)
        /\ \A k \in 1 .. Len(rs) + Len(r) : ss[k] = IF k <= Len(rs) THEN rs[k] ELSE r[k - Len(rs)]
    BY <1>1, ConcatProperties
  <2>3. /\ \A k \in 1 .. nr : k \in 1 .. nr + m /\ k <= nr
        /\ \A k \in 1 .. m : nr + k \in 1 .. nr + m /\ ~ (nr + k <= nr) /\ (nr + k) - nr = k
    BY <1>1
  <2> HIDE DEF ss
  <2> QED  BY <1>1, <2>1, <2>2, <2>3
<1> HIDE DEF ws, ss
<1>6. ASSUME NEW i \in 0 .. (rows + 1) - 1
      PROVE  SubSeq(ss, i * m + 1, (i + 1) * m) = RowTokens(ws, i * cols, cols)
  <2>1. CASE i = rows
    <3>1. i * m = nr /\ (i + 1) * m = nr + m /\ i * cols = nv
      BY <1>3, <2>1 DEF nr, nv
    <3>2. SubSeq(ss, nr + 1, nr + m) = SubSeq(r, 1, m)
      <4>1. ASSUME NEW k \in nr + 1 .. nr + m PROVE ss[k] = r[k - nr]
        <5> DEFINE j == k - nr
        <5>1. j \in 1 .. m /\ nr + j = k
          BY <1>1
        <5> HIDE DEF j
        <5>2. \A l \in 1 .. m : ss[nr + l] = r[l]
          BY <1>5
        <5>3. ss[nr + j] = r[j]
          BY <5>1, <5>2, Zenon
        <5> QED  BY <5>1, <5>3 DEF j
      <4>2. /\ (nr + 1) - nr = 1 /\ (nr + m) - nr = m /\ 1 <= nr + 1
            /\ nr + 1 \in Int /\ nr + m \in Int /\ nr \in Int
        BY <1>1
      <4>3. SubSeq(ss, nr + 1, nr + m) = SubSeq(r, (nr + 1) - nr, (nr + m) - nr)
        BY <1>1, <1>5, <4>1, <4>2, SubSeqSame
      <4> QED  BY <4>2, <4>3
    <3>3. SubSeq(r, 1, m) = r
      BY <1>1, SubSeqFull
    <3>4. RowTokens(ws, nv, cols) = r
      <4>1. \A k \in 1 .. cols : ws[nv + k] = xs[0 + k]
        <5>1. \A k \in 1 .. cols : 0 + k = k
          OBVIOUS
        <5>2. \A k \in 1 .. cols : ws[nv + k] = xs[k]
          BY <1>4
        <5> QED  BY <5>1, <5>2, Zenon
      <4> QED  BY <4>1, RowTokensSame DEF r
    <3> QED  BY <3>1, <3>2, <3>3, <3>4
  <2>2. CASE i # rows
    <3>1. i \in 0 .. rows - 1
      BY <2>2
    <3> DEFINE p == i * m
               q == i * cols
    <3>2. p \in Nat /\ (i + 1) * m = p + m /\ p + m <= nr /\ q \in Nat /\ q + cols <= nv
      <4>1. p \in Nat /\ (i + 1) * m = p + m /\ (i + 1) * m <= nr
        BY <1>1, <3>1, Multiples DEF nr
      <4>2. q \in Nat /\ (i + 1) * cols = q + cols /\ (i + 1) * cols <= nv
        BY <3>1, Multiples DEF nv
      <4> QED  BY <4>1, <4>2
    <3>3. SubSeq(rs, p + 1, p + m) = RowTokens(vs, q, cols)
      BY <1>2, <3>1, <3>2
    <3> HIDE DEF p, q
    <3>4. SubSeq(ss, p + 1, p + m) = SubSeq(rs, p + 1, p + m)
      <4>1. \A k \in p + 1 .. p + m : ss[k] = rs[k - 0]
        <5>1. \A k \in p + 1 .. p + m : k - 0 = k /\ k \in 1 .. nr
          BY <1>1, <3>2
        <5> QED  BY <1>5, <5>1
      <4>2. /\ (p + 1) - 0 = p + 1 /\ (p + m) - 0 = p + m /\ 1 <= p + 1 /\ p + m <= nr
            /\ p + m <= nr + m /\ p + 1 \in Int /\ p + m \in Int /\ 0 \in Int
        BY <1>1, <3>2
      <4>3. SubSeq(ss, p + 1, p + m) = SubSeq(rs, (p + 1) - 0, (p + m) - 0)
        <5>1. /\ p + 1 \in Int /\ p + m \in Int /\ 0 \in Int /\ 1 <= p + 1
              /\ p + m <= Len(ss) /\ 1 <= (p + 1) - 0 /\ (p + m) - 0 <= Len(rs)
          BY <1>1, <1>5, <3>2
        <5>2. ss \in Seq(Token) /\ rs \in Seq(Token)
          BY <1>1, <1>5
        <5> DEFINE x == p + 1
                   y == p + m
        <5>3. /\ x \in Int /\ y \in Int /\ 0 \in Int /\ 1 <= x
              /\ y <= Len(ss) /\ 1 <= x - 0 /\ y - 0 <= Len(rs)
              /\ \A k \in x .. y : ss[k] = rs[k - 0]
          BY <4>1, <5>1
        <5> HIDE DEF x, y
        <5>4. SubSeq(ss, x, y) = SubSeq(rs, x - 0, y - 0)
          BY <5>2, <5>3, SubSeqSame
        <5> QED  BY <5>4 DEF x, y
      <4> QED  BY <4>2, <4>3
    <3>5. RowTokens(ws, q, cols) = RowTokens(vs, q, cols)
      <4>1. \A k \in 1 .. cols : ws[q + k] = vs[q + k]
        <5>1. \A k \in 1 .. cols : q + k \in 1 .. nv
          BY <1>1, <3>2
        <5> QED  BY <1>4, <5>1
      <4> QED  BY <4>1, RowTokensSame
    <3> QED  BY <3>2, <3>3, <3>4, <3>5 DEF p, q
  <2> QED  BY <2>1, <2>2
<1>7. RowsOf(ws, ss, rows + 1, cols)
  BY <1>3, <1>4, <1>5, <1>6 DEF RowsOf, m
<1> QED  BY <1>7 DEF ws, ss, r

\* The loop over the rows reads as many as it is told.
LEMMA RowsRead ==
  ASSUME NEW s \in Seq(STRING), NEW lex, LexedBy(lex, s), lex[Len(s)].tokens = Tokens(s),
         NEW st \in Streams, NEW ts \in Seq(Token), ReadTo(lex, s, st.rest, ts),
         NEW rows \in Nat, NEW cols \in Nat, Fine(Rows(rows, cols, st))
  PROVE  \E vs, rs : /\ RowsOf(vs, rs, rows, cols)
                     /\ Rows(rows, cols, st).numbers = st.numbers \o vs
                     /\ ReadTo(lex, s, Rows(rows, cols, st).rest, ts \o rs)
<1>1. PICK acc \in [0 .. rows -> Streams] :
        /\ acc[0] = st /\ acc[rows] = Rows(rows, cols, st)
        /\ \A k \in 1 .. rows : acc[k] = Row(cols, acc[k - 1])
  BY RowsSteps
<1> DEFINE Reads(k, vs, rs) == /\ RowsOf(vs, rs, k, cols) /\ acc[k].numbers = st.numbers \o vs
                               /\ ReadTo(lex, s, acc[k].rest, ts \o rs)
           S == {k \in 0 .. rows : Fine(acc[k]) => \E vs, rs : Reads(k, vs, rs)}
<1>0. st.numbers \in Seq(Nat)
  BY DEF Streams
<1>2. 0 \in S
  <2>1. RowsOf(<<>>, <<>>, 0, cols)
    <3>1. 0 * cols = 0 /\ 0 * (cols + 2) = 0 /\ 0 .. 0 - 1 = {}
      OBVIOUS
    <3>2. <<>> \in Seq(Nat) /\ <<>> \in Seq(Token) /\ Len(<<>>) = 0
      OBVIOUS
    <3> QED  BY <3>1, <3>2 DEF RowsOf
  <2>2. st.numbers \o <<>> = st.numbers /\ ts \o <<>> = ts
    BY <1>0, ConcatEmptySeq
  <2>3. Reads(0, <<>>, <<>>) /\ 0 \in 0 .. rows
    BY <1>1, <2>1, <2>2
  <2> QED  BY <2>3
<1>3. ASSUME NEW k \in 0 .. rows, k # rows, k \in S, Fine(acc[k + 1])
      PROVE  \E vs, rs : Reads(k + 1, vs, rs)
  <2>0. Fine(acc[k]) => \E vs, rs : Reads(k, vs, rs)
    BY <1>3
  <2> HIDE DEF S
  <2>1. k + 1 \in 1 .. rows /\ (k + 1) - 1 = k /\ k \in Nat
    BY <1>3
  <2> DEFINE a == acc[k]
             b == Row(cols, a)
  <2>2. acc[k + 1] = b /\ a \in Streams /\ a = acc[k]
    <3>1. acc[k + 1] = Row(cols, acc[(k + 1) - 1]) /\ a \in Streams
      BY <1>1, <2>1
    <3> QED  BY <2>1, <3>1
  <2> HIDE DEF a
  <2>3. Fine(b) /\ Fine(a)
    BY <1>3, <2>2, FineBeforeRow
  <2>4. PICK vs, rs : Reads(k, vs, rs)
    BY <2>0, <2>2, <2>3
  <2> DEFINE us == ts \o rs
  <2>5. /\ RowsOf(vs, rs, k, cols) /\ a.numbers = st.numbers \o vs /\ ReadTo(lex, s, a.rest, us)
        /\ vs \in Seq(Nat) /\ rs \in Seq(Token)
    BY <2>2, <2>4 DEF RowsOf
  <2> HIDE DEF us
  <2>6. PICK xs \in Seq(Nat) :
          /\ Len(xs) = cols /\ b.numbers = a.numbers \o xs
          /\ RowTokens(xs, 0, cols) \in Seq(Token) /\ Len(RowTokens(xs, 0, cols)) = cols + 2
          /\ ReadTo(lex, s, b.rest, us \o RowTokens(xs, 0, cols))
    BY <2>2, <2>3, <2>5, RowRead
  <2> HIDE DEF b
  <2> DEFINE r == RowTokens(xs, 0, cols)
  <2>7. RowsOf(vs \o xs, rs \o r, k + 1, cols)
    BY <2>1, <2>5, <2>6, RowsAppend
  <2>8. b.numbers = st.numbers \o (vs \o xs)
    <3> DEFINE ns == st.numbers
    <3>1. ns \in Seq(Nat) /\ vs \in Seq(Nat) /\ xs \in Seq(Nat)
      BY <1>0, <2>5
    <3> HIDE DEF ns
    <3>2. ns \o (vs \o xs) = (ns \o vs) \o xs
      <4>1. Joined(ns, Joined(vs, xs)) = Joined(Joined(ns, vs), xs)
        BY <3>1, JoinedThree
      <4> QED  BY <4>1 DEF Joined
    <3> QED  BY <2>5, <2>6, <3>2 DEF ns
  <2>9. us \o r = ts \o (rs \o r)
    <3>1. r \in Seq(Token) /\ rs \in Seq(Token)
      BY <2>5, <2>6
    <3> HIDE DEF r
    <3>2. ts \o (rs \o r) = (ts \o rs) \o r
      <4>1. Joined(ts, Joined(rs, r)) = Joined(Joined(ts, rs), r)
        BY <3>1, JoinedThree
      <4> QED  BY <4>1 DEF Joined
    <3> QED  BY <3>2 DEF us
  <2>10. Reads(k + 1, vs \o xs, rs \o r)
    BY <2>2, <2>6, <2>7, <2>8, <2>9
  <2> QED  BY <2>10
<1>4. ASSUME NEW k \in 0 .. rows, k # rows, k \in S PROVE k + 1 \in S
  <2>1. k + 1 \in 0 .. rows
    BY <1>4
  <2> QED  BY <1>3, <1>4, <2>1
<1> HIDE DEF S
<1>5. rows \in S
  <2>1. rows \in 0 .. rows
    OBVIOUS
  <2> QED  BY <1>2, <1>4, <2>1, UpTo
<1> QED  BY <1>1, <1>5 DEF S

\* Whether it finds one or not, a number is added.
LEMMA NumberAppends ==
  ASSUME NEW st \in Streams
  PROVE  \E x \in Nat : Number(st).numbers = Append(st.numbers, x)
<1> DEFINE r == Skip(st.rest)
           w == Digits(r)
<1>1. Decimal(w) \in Nat
  <2>1. st.rest \in Seq(STRING)
    BY DEF Streams
  <2> QED  BY <2>1, SkipTyped, DecimalTyped
<1>2. \/ Number(st) = [st EXCEPT !.fail = TRUE, !.numbers = Append(@, 0)]
      \/ Number(st) = [st EXCEPT !.rest = SubSeq(r, Len(w) + 1, Len(r)),
                                 !.numbers = Append(@, Decimal(w))]
  BY DEF Number
<1>3. Number(st).numbers = Append(st.numbers, 0) \/ Number(st).numbers = Append(st.numbers, Decimal(w))
  BY <1>2 DEF Streams
<1> QED  BY <1>1, <1>3

\* No other step of a reader adds one.
LEMMA NumbersKept ==
  ASSUME NEW st \in Streams, NEW c
  PROVE  /\ Expect(st, c).numbers = st.numbers /\ Separator(st).numbers = st.numbers
         /\ ThrowIfFailed(st).numbers = st.numbers
BY DEF Expect, Separator, ThrowIfFailed, Streams

\* The rows that are read leave a stream.
LEMMA RowsTyped ==
  ASSUME NEW n \in Nat, NEW cols \in Nat, NEW st \in Streams
  PROVE  Rows(n, cols, st) \in Streams
<1>1. PICK acc \in [0 .. n -> Streams] :
        /\ acc[0] = st /\ acc[n] = Rows(n, cols, st)
        /\ \A k \in 1 .. n : acc[k] = Row(cols, acc[k - 1])
  BY RowsSteps
<1>2. n \in 0 .. n
  OBVIOUS
<1> QED  BY <1>1, <1>2

\* The rows of the numbers vs follow the sizes and the first marks.
RowsFollow(us, v, vs, rs, rows, cols) ==
  /\ 5 + rows * (cols + 2) <= Len(us)
  /\ \A p \in 1 .. rows * (cols + 2) : us[5 + p] = rs[p]
  /\ \A k \in 1 .. rows * cols : v[2 + k] = vs[k]
RowAt(us, v, i, cols) ==
  SubSeq(us, (5 + i * (cols + 2)) + 1, 5 + (i + 1) * (cols + 2)) = RowTokens(v, 2 + i * cols, cols)

\* The rows of a matrix that is read are written one after the other.
LEMMA RowsSpelled ==
  ASSUME NEW rows \in Nat, NEW cols \in Nat, NEW vs, NEW rs, RowsOf(vs, rs, rows, cols),
         NEW us \in Seq(Token), NEW v, RowsFollow(us, v, vs, rs, rows, cols),
         NEW i \in 0 .. rows - 1
  PROVE  RowAt(us, v, i, cols)
<1> DEFINE m == cols + 2
           nr == rows * m
           nv == rows * cols
           p == i * m
           q == i * cols
<1>1. /\ vs \in Seq(Nat) /\ Len(vs) = nv /\ rs \in Seq(Token) /\ Len(rs) = nr
      /\ SubSeq(rs, p + 1, (i + 1) * m) = RowTokens(vs, q, cols)
  BY DEF RowsOf
<1>2. /\ p \in Nat /\ nr \in Nat /\ (i + 1) * m = p + m /\ p + m <= nr /\ m \in Nat
  <2>1. m \in Nat
    OBVIOUS
  <2> HIDE DEF m
  <2> QED  BY <2>1, Multiples
<1>3. q \in Nat /\ nv \in Nat /\ q + cols <= nv
  BY Multiples
<1>4. /\ 5 + nr <= Len(us)
      /\ \A k \in 1 .. nr : us[5 + k] = rs[k]
      /\ \A k \in 1 .. nv : v[2 + k] = vs[k]
  BY DEF RowsFollow
<1> HIDE DEF m, nr, nv, p, q
<1> DEFINE b == (5 + p) + 1
           e == 5 + (p + m)
<1>5. /\ b \in Int /\ e \in Int /\ 5 \in Int /\ b - 5 = p + 1 /\ e - 5 = p + m
      /\ 1 <= b /\ e <= Len(us) /\ 1 <= b - 5 /\ e - 5 <= Len(rs)
  BY <1>1, <1>2, <1>4
<1>6. ASSUME NEW k \in b .. e PROVE us[k] = rs[k - 5]
  <2> DEFINE j == k - 5
  <2>1. j \in 1 .. nr /\ 5 + j = k
    BY <1>2
  <2> HIDE DEF j
  <2>2. us[5 + j] = rs[j]
    BY <1>4, <2>1
  <2> QED  BY <2>1, <2>2 DEF j
<1> HIDE DEF b, e
<1>7. SubSeq(us, b, e) = SubSeq(rs, b - 5, e - 5)
  BY <1>1, <1>5, <1>6, SubSeqSame
<1>8. SubSeq(us, b, e) = RowTokens(vs, q, cols)
  BY <1>1, <1>2, <1>5, <1>7
<1>9. RowTokens(v, 2 + q, cols) = RowTokens(vs, q, cols)
  <2>1. ASSUME NEW k \in 1 .. cols PROVE v[(2 + q) + k] = vs[q + k]
    <3> DEFINE j == q + k
    <3>1. j \in 1 .. nv /\ (2 + q) + k = 2 + j
      BY <1>3
    <3> HIDE DEF j
    <3>2. v[2 + j] = vs[j]
      BY <1>4, <3>1
    <3> QED  BY <3>1, <3>2 DEF j
  <2> QED  BY <2>1, RowTokensSame
<1>10. SubSeq(us, (5 + p) + 1, 5 + (i + 1) * m) = RowTokens(v, 2 + q, cols)
  BY <1>2, <1>8, <1>9 DEF b, e
<1> QED  BY <1>10 DEF RowAt, m, p, q

\* A matrix is read from what is written as it.
LEMMA MatrixExact ==
  ASSUME NEW s \in Seq(STRING), Fine(Matrix(s))
  PROVE  SpellsMatrix(Tokens(s), Matrix(s).numbers)
<1>1. PICK lex : LexedBy(lex, s) /\ lex[Len(s)].tokens = Tokens(s)
  BY TokensSteps
<1> DEFINE a0 == Stream(s)
           a1 == Expect(a0, "[")
           a2 == Number(a1)
           a3 == Separator(a2)
           a4 == Number(a3)
           size == ThrowIfFailed(a4)
           a5 == Expect(size, "]")
           a6 == Expect(a5, "(")
           rows == IF size.throws THEN 0 ELSE size.numbers[1]
           cols == IF size.throws THEN 0 ELSE size.numbers[2]
           a7 == Rows(rows, cols, a6)
           a8 == Expect(a7, ")")
<1>2. Matrix(s) = a8
  BY DEF Matrix
<1>3. a0 \in Streams /\ a0.numbers = <<>> /\ ReadTo(lex, s, a0.rest, <<>>)
  BY <1>1, ReadNothing
<1> HIDE DEF a0
<1>4. a1 \in Streams /\ a1.numbers = <<>>
  BY <1>3, StreamsTyped, NumbersKept
<1> HIDE DEF a1
<1>5. PICK x \in Nat : a2.numbers = Append(<<>>, x)
  BY <1>4, NumberAppends
<1>6. a2 \in Streams /\ a2.numbers = <<x>>
  BY <1>4, <1>5, StreamsTyped, AppendTuple
<1> HIDE DEF a2
<1>7. a3 \in Streams /\ a3.numbers = <<x>>
  BY <1>6, StreamsTyped, NumbersKept
<1> HIDE DEF a3
<1>8. PICK y \in Nat : a4.numbers = Append(<<x>>, y)
  BY <1>7, NumberAppends
<1>9. a4 \in Streams /\ a4.numbers = <<x, y>>
  BY <1>7, <1>8, StreamsTyped, AppendTuple
<1> HIDE DEF a4
<1>10. size \in Streams /\ size.numbers = <<x, y>>
  BY <1>9, StreamsTyped, NumbersKept
<1>11. rows \in Nat /\ cols \in Nat /\ (~ size.throws => rows = x /\ cols = y)
  BY <1>10
<1> HIDE DEF size, rows, cols
<1>12. a5 \in Streams /\ a5.numbers = <<x, y>>
  BY <1>10, StreamsTyped, NumbersKept
<1> HIDE DEF a5
<1>13. a6 \in Streams /\ a6.numbers = <<x, y>>
  BY <1>12, StreamsTyped, NumbersKept
<1> HIDE DEF a6
<1>14. a7 \in Streams
  <2>1. rows \in Nat /\ cols \in Nat
    BY <1>11
  <2> QED  BY <1>13, <2>1, RowsTyped
<1> HIDE DEF a7
<1>15. /\ Fine(a1) /\ Fine(a2) /\ Fine(a3) /\ Fine(a4) /\ size = a4
       /\ Fine(a5) /\ Fine(a6) /\ Fine(a7) /\ Fine(a8)
  <2>1. Fine(a8)
    BY <1>2
  <2>2. Fine(a7)
    BY <1>14, <2>1, FineBefore
  <2>3. Fine(a6)
    BY <1>11, <1>13, <2>2, FineBeforeRows DEF a7
  <2>4. Fine(a5)
    BY <1>12, <2>3, FineBefore DEF a6
  <2>5. Fine(size)
    BY <1>10, <2>4, FineBefore DEF a5
  <2>6. Fine(a4) /\ size = a4
    BY <1>9, <2>5, FineBefore DEF size
  <2>7. Fine(a3)
    BY <1>7, <2>6, FineBefore DEF a4
  <2>8. Fine(a2)
    BY <1>6, <2>7, FineBefore DEF a3
  <2>9. Fine(a1)
    BY <1>4, <2>8, FineBefore DEF a2
  <2> QED  BY <2>1, <2>2, <2>3, <2>4, <2>5, <2>6, <2>7, <2>8, <2>9
<1>16. rows = x /\ cols = y
  BY <1>9, <1>11, <1>15 DEF Fine
<1> DEFINE t0 == <<>>
           t1 == Append(t0, Mark("["))
           t2 == Append(t1, Numeral(x))
           t3 == Append(t2, Numeral(y))
           t4 == Append(t3, Mark("]"))
           t5 == Append(t4, Mark("("))
<1>17. t5 = <<Mark("["), Numeral(x), Numeral(y), Mark("]"), Mark("(")>>
  <2> HIDE DEF t1, t2, t3, t4
  <2>1. t1 = <<Mark("[")>>
    BY AppendTuple DEF t0, t1
  <2>2. t2 = <<Mark("["), Numeral(x)>>
    BY <2>1, AppendTuple DEF t2
  <2>3. t3 = <<Mark("["), Numeral(x), Numeral(y)>>
    BY <2>2, AppendTuple DEF t3
  <2>4. t4 = <<Mark("["), Numeral(x), Numeral(y), Mark("]")>>
    BY <2>3, AppendTuple DEF t4
  <2> QED  BY <2>4, AppendTuple DEF t5
<1> HIDE DEF t0, t1, t2, t3, t4, t5
<1>18. ReadTo(lex, s, a1.rest, t1)
  <2>1. ReadTo(lex, s, a0.rest, t0)
    BY <1>3 DEF t0
  <2> QED  BY <1>1, <1>3, <1>15, <2>1, ExpectReads DEF a1, t1
<1>19. ReadTo(lex, s, a2.rest, t2)
  <2>1. PICK n \in Nat : a2.numbers = Append(<<>>, n) /\ ReadTo(lex, s, a2.rest, Append(t1, Numeral(n)))
    BY <1>1, <1>4, <1>15, <1>18, NumberReads DEF a2
  <2>2. <<n>> = <<x>>
    BY <1>6, <2>1, AppendTuple
  <2>3. <<n>>[1] = n /\ <<x>>[1] = x
    OBVIOUS
  <2>4. n = x
    BY <2>2, <2>3
  <2> QED  BY <2>1, <2>4 DEF t2
<1>20. ReadTo(lex, s, a3.rest, t2)
  BY <1>1, <1>6, <1>15, <1>19, SeparatorReads DEF a3
<1>21. ReadTo(lex, s, a4.rest, t3)
  <2>1. PICK n \in Nat : /\ a4.numbers = Append(<<x>>, n)
                         /\ ReadTo(lex, s, a4.rest, Append(t2, Numeral(n)))
    BY <1>1, <1>7, <1>15, <1>20, NumberReads DEF a4
  <2>2. <<x, n>> = <<x, y>>
    BY <1>9, <2>1, AppendTuple
  <2>3. <<x, n>>[2] = n /\ <<x, y>>[2] = y
    OBVIOUS
  <2>4. n = y
    BY <2>2, <2>3
  <2> QED  BY <2>1, <2>4 DEF t3
<1>22. ReadTo(lex, s, a5.rest, t4)
  BY <1>1, <1>9, <1>15, <1>21, ExpectReads DEF a5, t4
<1>23. ReadTo(lex, s, a6.rest, t5)
  BY <1>1, <1>12, <1>15, <1>22, ExpectReads DEF a6, t5
<1>24. t5 \in Seq(Token) /\ Len(t5) = 5
  <2>1. t5 \in Seq(Token)
    BY <1>1, <1>23, ReadBegins
  <2> QED  BY <1>17, <2>1
<1>25. PICK vs, rs : /\ RowsOf(vs, rs, x, y) /\ a7.numbers = a6.numbers \o vs
                     /\ ReadTo(lex, s, a7.rest, t5 \o rs)
  BY <1>1, <1>11, <1>13, <1>15, <1>16, <1>23, <1>24, RowsRead DEF a7
<1> DEFINE us == Tokens(s)
           nr == x * (y + 2)
           nv == x * y
           t6 == t5 \o rs
           t7 == Append(t6, Mark(")"))
<1>26. /\ vs \in Seq(Nat) /\ Len(vs) = nv /\ rs \in Seq(Token) /\ Len(rs) = nr
       /\ nr \in Nat /\ nv \in Nat
  BY <1>25 DEF RowsOf
<1>27. ReadTo(lex, s, a7.rest, t6)
  BY <1>25
<1> HIDE DEF us, nr, nv, t6
<1>28. a8.numbers = a7.numbers /\ ReadTo(lex, s, a8.rest, t7)
  BY <1>1, <1>14, <1>15, <1>27, ExpectReads
<1> HIDE DEF a8
<1> DEFINE v == a8.numbers
<1>29. /\ Len(v) = 2 + nv /\ v[1] = x /\ v[2] = y
       /\ \A k \in 1 .. nv : v[2 + k] = vs[k]
  <2> DEFINE h == <<x, y>>
  <2>1. v = h \o vs
    BY <1>13, <1>25, <1>28
  <2>2. h \in Seq(Nat) /\ Len(h) = 2 /\ h[1] = x /\ h[2] = y
    OBVIOUS
  <2> HIDE DEF v, h
  <2>3. /\ Len(h \o vs) = Len(h) + Len(vs)
        /\ \A k \in 1 .. Len(h) + Len(vs) :
             (h \o vs)[k] = IF k <= Len(h) THEN h[k] ELSE vs[k - Len(h)]
    BY <1>26, <2>2, ConcatProperties
  <2>4. /\ 1 \in 1 .. 2 + nv /\ 2 \in 1 .. 2 + nv
        /\ \A k \in 1 .. nv : 2 + k \in 1 .. 2 + nv /\ ~ (2 + k <= 2) /\ (2 + k) - 2 = k
    BY <1>26
  <2> QED  BY <1>26, <2>1, <2>2, <2>3, <2>4
<1> HIDE DEF v
<1>30. /\ us \in Seq(Token) /\ IsPrefix(t5, us)
  BY <1>1, <1>23, ReadBegins DEF us
<1>31. /\ t6 \in Seq(Token) /\ Len(t6) = 5 + nr
       /\ \A p \in 1 .. nr : t6[5 + p] = rs[p]
  <2>1. t6 \in Seq(Token)
    BY <1>24, <1>26, ConcatProperties DEF t6
  <2>2. /\ Len(t6) = Len(t5) + Len(rs)
        /\ \A k \in 1 .. Len(t5) + Len(rs) : t6[k] = IF k <= Len(t5) THEN t5[k] ELSE rs[k - Len(t5)]
    BY <1>24, <1>26, ConcatProperties DEF t6
  <2>3. \A p \in 1 .. nr : 5 + p \in 1 .. 5 + nr /\ ~ (5 + p <= 5) /\ (5 + p) - 5 = p
    BY <1>26
  <2> QED  BY <1>24, <1>26, <2>1, <2>2, <2>3
<1>32. /\ Len(t7) <= Len(us) /\ \A p \in 1 .. Len(t7) : us[p] = t7[p]
  <2> HIDE DEF t7
  <2> QED  BY <1>1, <1>28, ReadBegins DEF us
<1>33. /\ Len(t7) = (5 + nr) + 1 /\ t7[(5 + nr) + 1] = Mark(")")
       /\ \A p \in 1 .. 5 + nr : t7[p] = t6[p]
  <2>1. t7 \in Seq(Token)
    BY <1>1, <1>28, ReadBegins
  <2>2. Mark(")") \in Token
    <3>1. Len(t7) = Len(t6) + 1 /\ t7[Len(t6) + 1] = Mark(")")
      BY <1>31
    <3>2. Len(t6) + 1 \in 1 .. Len(t7)
      BY <1>31, <3>1
    <3> QED  BY <2>1, <3>1, <3>2, ElementOfSeq
  <2> QED  BY <1>26, <1>31, <2>2, AppendProperties
<1>34. /\ Len(us) > 5 + nr /\ us[(5 + nr) + 1] = Mark(")")
       /\ \A p \in 1 .. nr : us[5 + p] = rs[p]
  <2> HIDE DEF t7
  <2>1. us \in Seq(Token) /\ Len(us) \in Nat
    BY <1>30
  <2>2. Len(us) > 5 + nr
    BY <1>26, <1>32, <1>33, <2>1
  <2>3. /\ (5 + nr) + 1 \in 1 .. Len(t7)
        /\ \A p \in 1 .. nr : 5 + p \in 1 .. Len(t7) /\ 5 + p \in 1 .. 5 + nr
    BY <1>26, <1>33
  <2>4. us[(5 + nr) + 1] = Mark(")")
    BY <1>32, <1>33, <2>3
  <2>5. ASSUME NEW p \in 1 .. nr PROVE us[5 + p] = rs[p]
    <3>1. us[5 + p] = t7[5 + p]
      BY <1>32, <2>3
    <3>2. t7[5 + p] = t6[5 + p]
      BY <1>33, <2>3
    <3>3. t6[5 + p] = rs[p]
      BY <1>31
    <3> QED  BY <3>1, <3>2, <3>3
  <2> QED  BY <2>2, <2>4, <2>5
<1>35. ASSUME NEW i \in 0 .. x - 1
       PROVE  RowAt(us, v, i, y)
  <2>1. 5 + nr <= Len(us)
    BY <1>26, <1>30, <1>34
  <2>2. RowsFollow(us, v, vs, rs, x, y)
    BY <1>29, <1>34, <2>1 DEF nr, nv, RowsFollow
  <2> QED  BY <1>25, <1>30, <2>2, RowsSpelled
<1>36. SpellsMatrix(us, v)
  <2>1. Len(v) = 2 + v[1] * v[2]
    BY <1>29 DEF nv
  <2>2. IsPrefix(<<Mark("["), Numeral(v[1]), Numeral(v[2]), Mark("]"), Mark("(")>>, us)
    BY <1>17, <1>29, <1>30
  <2>3. \A i \in 0 .. v[1] - 1 :
           SubSeq(us, (5 + i * (v[2] + 2)) + 1, 5 + (i + 1) * (v[2] + 2))
             = <<Mark("(")>> \o Numerals(v, 2 + i * v[2], v[2]) \o <<Mark(")")>>
    BY <1>29, <1>35 DEF RowAt, RowTokens
  <2>4. Len(us) > 5 + v[1] * (v[2] + 2) /\ us[(5 + v[1] * (v[2] + 2)) + 1] = Mark(")")
    BY <1>29, <1>34 DEF nr
  <2> QED  BY <2>1, <2>2, <2>3, <2>4 DEF SpellsMatrix
<1> QED  BY <1>2, <1>36 DEF v, us

----------------------------------------------------------------------------
(* Doubles, and the theorem.                                               *)

Space == {" "}

\* A word is read to its end.
LEMMA WordIs ==
  ASSUME NEW S, S \cap Space = {}, NEW w \in Seq(S)
  PROVE  Skip(w) = w /\ Word(w) = w
<1>0. \A i \in 1 .. Len(w) : w[i] \in S
  BY ElementOfSeq
<1>1. Skip(w) = w
  <2>1. PICK j \in 0 .. Len(w) : /\ After(w, Space) = Suffix(w, j)
                                 /\ \A i \in 1 .. j : w[i] \in Space
    BY AfterIs
  <2>2. j = 0
    <3>1. j # 0 => 1 \in 1 .. j /\ 1 \in 1 .. Len(w)
      OBVIOUS
    <3> QED  BY <1>0, <2>1, <3>1
  <2>3. 0 + 1 = 1
    OBVIOUS
  <2>4. After(w, Space) = w
    BY <2>1, <2>2, <2>3, SubSeqFull DEF Suffix
  <2> QED  BY <2>4 DEF Skip, Space
<1>2. Word(w) = w
  <2> DEFINE Chars == Range(w) \ Space
  <2>1. PICK j \in 0 .. Len(w) : /\ Before(w, Chars) = SubSeq(w, 1, j)
                                 /\ j < Len(w) => w[j + 1] \notin Chars
    BY AfterIs
  <2>2. \A i \in 1 .. Len(w) : w[i] \in Chars
    BY <1>0 DEF Range
  <2> HIDE DEF Chars
  <2>3. j = Len(w)
    <3>1. j # Len(w) => j < Len(w) /\ j + 1 \in 1 .. Len(w)
      OBVIOUS
    <3> QED  BY <2>1, <2>2, <3>1
  <2>4. Before(w, Chars) = w
    BY <2>1, <2>3, SubSeqFull
  <2> QED  BY <2>4 DEF Word, Chars, Space
<1> QED  BY <1>1, <1>2

\* Digits are no spaces, and the names of special doubles are neither.
LEMMA SpecialValues ==
  /\ Digit \cap Space = {}
  /\ DOMAIN Special = {"nan", "inf", "+inf", "-inf"}
  /\ Special["nan"] = -1 /\ Special["inf"] = -2 /\ Special["+inf"] = -2 /\ Special["-inf"] = -3
  /\ \A w \in DOMAIN Special : w \notin Digit /\ w \notin {",", " "} /\ {w} \cap Space = {}
<1>1. Digit \cap Space = {}
  BY DigitValues, Zenon DEF Space
<1>2. DOMAIN Special = {"nan", "inf", "+inf", "-inf"}
  BY DEF Special
<1>3. Special["nan"] = -1 /\ Special["inf"] = -2 /\ Special["+inf"] = -2 /\ Special["-inf"] = -3
  BY DEF Special
<1>4. \A w \in DOMAIN Special : w \notin Digit
  BY <1>2, DigitValues
<1>5. \A w \in DOMAIN Special : w \notin {",", " "}
  BY <1>2, Zenon
<1>6. \A w \in DOMAIN Special : {w} \cap Space = {}
  BY <1>5, Zenon DEF Space
<1> QED  BY <1>1, <1>2, <1>3, <1>4, <1>5, <1>6

\* The name of a special double reads as it.
LEMMA ReadsSpecial ==
  ASSUME NEW w \in DOMAIN Special
  PROVE  Double(<<w>>) = [Stream(<<w>>) EXCEPT !.numbers = <<Special[w]>>]
<1> DEFINE s == <<w>>
<1>1. s \in Seq({w}) /\ Len(s) = 1 /\ s[1] = w /\ DOMAIN s = {1}
  OBVIOUS
<1>2. w \notin Digit /\ {w} \cap Space = {}
  BY SpecialValues, Zenon
<1> HIDE DEF s
<1>4. Skip(s) = s /\ Word(s) = s
  BY <1>1, <1>2, WordIs
<1>5. ~ (Range(s) \subseteq DOMAIN Value)
  BY <1>1, <1>2 DEF Range, Digit
<1>6. Double(s) = [Stream(s) EXCEPT !.numbers = <<Special[s[1]]>>]
  BY <1>1, <1>4, <1>5 DEF Double
<1> QED  BY <1>1, <1>6 DEF s

\* Digits read as the number that they spell.
LEMMA ReadsDigits ==
  ASSUME NEW w \in Seq(Digit), w # <<>>
  PROVE  Double(w) = [Stream(w) EXCEPT !.numbers = <<Decimal(w)>>]
<1>1. \A i \in 1 .. Len(w) : w[i] \in Digit
  BY ElementOfSeq
<1>2. Digit \cap Space = {}
  BY SpecialValues, Zenon
<1>3. Skip(w) = w /\ Word(w) = w
  BY <1>2, WordIs
<1>4. Range(w) \subseteq DOMAIN Value
  BY <1>1 DEF Range, Digit
<1> QED  BY <1>3, <1>4 DEF Double

\* A digit is found for each of the numbers from 0 to 3.
LEMMA NameIs ==
  ASSUME NEW k \in 0 .. 3
  PROVE  Name[k] \in Digit /\ Value[Name[k]] = k
<1>1. \E d \in DOMAIN Value : Value[d] = k
  BY DigitValues DEF Digit
<1>2. Name[k] = CHOOSE d \in DOMAIN Value : Value[d] = k
  BY DEF Name
<1> QED  BY <1>1, <1>2 DEF Digit

\* One or two digits.
LEMMA DecimalShort ==
  /\ \A a \in Digit : Decimal(<<a>>) = Value[a]
  /\ \A a, b \in Digit : Decimal(<<a, b>>) = 10 * Value[a] + Value[b]
<1>0. \A d \in Digit : Value[d] \in Nat
  BY DigitValues
<1>1. ASSUME NEW a \in Digit PROVE Decimal(<<a>>) = Value[a]
  <2> DEFINE w == <<a>>
  <2>1. w \in Seq(Digit) /\ Len(w) = 1 /\ w[1] = a
    OBVIOUS
  <2> HIDE DEF w
  <2>2. PICK acc \in [0 .. Len(w) -> Nat] :
          /\ acc[0] = 0 /\ acc[Len(w)] = Decimal(w)
          /\ \A k \in 1 .. Len(w) : acc[k] = 10 * acc[k - 1] + Value[w[k]]
    BY <2>1, DecimalSteps
  <2>3. acc[1] = 10 * acc[0] + Value[a]
    <3>1. 1 \in 1 .. Len(w) /\ 1 - 1 = 0
      BY <2>1
    <3>2. acc[1] = 10 * acc[1 - 1] + Value[w[1]]
      BY <2>2, <3>1
    <3> QED  BY <2>1, <3>1, <3>2
  <2>4. Decimal(w) = Value[a]
    BY <1>0, <2>1, <2>2, <2>3
  <2> QED  BY <2>4 DEF w
<1>2. ASSUME NEW a \in Digit, NEW b \in Digit PROVE Decimal(<<a, b>>) = 10 * Value[a] + Value[b]
  <2> DEFINE w == <<a, b>>
  <2>1. w \in Seq(Digit) /\ Len(w) = 2 /\ w[1] = a /\ w[2] = b
    OBVIOUS
  <2> HIDE DEF w
  <2>2. PICK acc \in [0 .. Len(w) -> Nat] :
          /\ acc[0] = 0 /\ acc[Len(w)] = Decimal(w)
          /\ \A k \in 1 .. Len(w) : acc[k] = 10 * acc[k - 1] + Value[w[k]]
    BY <2>1, DecimalSteps
  <2>3. acc[1] = 10 * acc[0] + Value[a] /\ acc[2] = 10 * acc[1] + Value[b]
    <3>1. 1 \in 1 .. Len(w) /\ 1 - 1 = 0 /\ 2 \in 1 .. Len(w) /\ 2 - 1 = 1
      BY <2>1
    <3>2. acc[1] = 10 * acc[1 - 1] + Value[w[1]] /\ acc[2] = 10 * acc[2 - 1] + Value[w[2]]
      BY <2>2, <3>1
    <3> QED  BY <2>1, <3>1, <3>2
  <2>4. Decimal(w) = 10 * Value[a] + Value[b]
    BY <1>0, <2>1, <2>2, <2>3
  <2> QED  BY <2>4 DEF w
<1> QED  BY <1>1, <1>2

\* A number that digits spell has no other digit, at least below 100.
LEMMA DigitsOfNumber ==
  ASSUME NEW w \in Seq(Digit), w # <<>>, Decimal(w) < 100
  PROVE  \E p, d \in 0 .. 3 : Decimal(w) = 10 * p + d
<1> DEFINE m == Len(w)
<1>1. PICK acc \in [0 .. m -> Nat] :
        /\ acc[0] = 0 /\ acc[m] = Decimal(w)
        /\ \A k \in 1 .. m : acc[k] = 10 * acc[k - 1] + Value[w[k]]
  BY DecimalSteps
<1>2. ASSUME NEW k \in 1 .. m PROVE Value[w[k]] \in 0 .. 3
  BY ElementOfSeq, DigitValues
<1>3. m \in Nat /\ m >= 1 /\ m \in 1 .. m /\ m - 1 \in 0 .. m
  OBVIOUS
<1> HIDE DEF m
<1> DEFINE p == acc[m - 1]
           d == Value[w[m]]
<1>4. p \in Nat /\ d \in 0 .. 3 /\ Decimal(w) = 10 * p + d
  BY <1>1, <1>2, <1>3
<1>5. p \in 0 .. 3
  <2>1. CASE m = 1
    <3>1. m - 1 = 0
      BY <2>1
    <3> QED  BY <1>1, <3>1
  <2>2. CASE m # 1
    <3> DEFINE j == m - 1
    <3>1. j \in 1 .. m /\ j - 1 \in 0 .. m
      BY <1>3, <2>2
    <3> HIDE DEF j
    <3>2. acc[j] = 10 * acc[j - 1] + Value[w[j]] /\ acc[j - 1] \in Nat /\ Value[w[j]] \in 0 .. 3
      BY <1>1, <1>2, <3>1
    <3>3. acc[j] < 10
      <4>1. p < 10
        <5> HIDE DEF p, d
        <5> QED  BY <1>4
      <4> QED  BY <4>1 DEF j
    <3>4. acc[j] \in 0 .. 3
      BY <3>2, <3>3
    <3> QED  BY <3>4 DEF j
  <2> QED  BY <2>1, <2>2
<1> QED  BY <1>4, <1>5

\* What is written of a number reads as that number.
LEMMA ReadsSpelled ==
  ASSUME NEW p \in 0 .. 3, NEW d \in 0 .. 3
  PROVE  /\ Spelled(10 * p + d) \in Seq(Digit) /\ Spelled(10 * p + d) # <<>>
         /\ Decimal(Spelled(10 * p + d)) = 10 * p + d
<1> DEFINE n == 10 * p + d
<1>1. n \in Nat /\ n \div 10 = p /\ n % 10 = d /\ (n < 10 => p = 0 /\ n = d)
  OBVIOUS
<1>2. Name[p] \in Digit /\ Value[Name[p]] = p /\ Name[d] \in Digit /\ Value[Name[d]] = d
  BY NameIs
<1> HIDE DEF n
<1>3. CASE n < 10
  <2>1. Spelled(n) = <<Name[d]>>
    BY <1>1, <1>3 DEF Spelled
  <2>2. <<Name[d]>> \in Seq(Digit) /\ <<Name[d]>> # <<>> /\ Decimal(<<Name[d]>>) = d
    BY <1>2, DecimalShort
  <2> QED  BY <1>1, <1>3, <2>1, <2>2 DEF n
<1>4. CASE ~ (n < 10)
  <2>1. Spelled(n) = <<Name[p], Name[d]>>
    BY <1>1, <1>4 DEF Spelled
  <2>2. /\ <<Name[p], Name[d]>> \in Seq(Digit) /\ <<Name[p], Name[d]>> # <<>>
        /\ Decimal(<<Name[p], Name[d]>>) = 10 * p + d
    BY <1>2, DecimalShort
  <2> QED  BY <2>1, <2>2 DEF n
<1> QED  BY <1>3, <1>4

\* A double is read from what is written as it, and what is written of it reads as it.
LEMMA DoubleExact ==
  ASSUME NEW s \in Seq(STRING), Fine(Double(s))
  PROVE  LET v == Double(s).numbers
         IN  SpellsDouble(Tokens(s), v) /\ (v[1] < 100 => Cast("double", Disp(v[1])) = v)
<1>1. PICK lex : LexedBy(lex, s) /\ lex[Len(s)].tokens = Tokens(s)
  BY TokensSteps
<1> DEFINE r == Skip(s)
           word == Word(r)
           Chars == Range(r) \ Space
<1>2. r \in Seq(STRING) /\ ReadTo(lex, s, r, <<>>)
  <2>1. ReadTo(lex, s, s, <<>>)
    <3>1. Stream(s).rest = s
      BY DEF Stream
    <3> QED  BY <1>1, <3>1, ReadNothing
  <2> QED  BY <1>1, <2>1, ReadSpaces, SkipTyped
<1> HIDE DEF r
<1>3. PICK j \in 0 .. Len(r) :
        /\ word = SubSeq(r, 1, j)
        /\ j < Len(r) => r[j + 1] \notin Chars
  <2>1. PICK j \in 0 .. Len(r) :
          /\ Before(r, Chars) = SubSeq(r, 1, j)
          /\ j < Len(r) => r[j + 1] \notin Chars
    BY <1>2, AfterIs
  <2>2. Before(r, Chars) = word
    BY DEF Word, Space
  <2> QED  BY <2>1, <2>2
<1>4. /\ word \in Seq(STRING) /\ Len(word) = j
      /\ \A i \in 1 .. j : word[i] = r[i]
  <2>1. /\ 1 \in Int /\ j \in Int /\ \A i \in 1 .. j : i \in 1 .. Len(r) /\ r[i] \in STRING
        /\ j - 1 + 1 = j /\ \A i \in 1 .. j : 1 + i - 1 = i
    BY <1>2, ElementOfSeq
  <2>2. /\ SubSeq(r, 1, j) \in Seq(STRING) /\ Len(SubSeq(r, 1, j)) = (IF 1 <= j THEN j - 1 + 1 ELSE 0)
        /\ \A i \in 1 .. j - 1 + 1 : SubSeq(r, 1, j)[i] = r[1 + i - 1]
    BY <2>1, SubSeqProperties
  <2> HIDE DEF word
  <2> QED  BY <1>3, <2>1, <2>2
<1> HIDE DEF word
<1> DEFINE digits == word # <<>> /\ Range(word) \subseteq DOMAIN Value
           special == Len(word) = 1 /\ word[1] \in DOMAIN Special
           v == Double(s).numbers
<1>5. /\ digits => v = <<Decimal(word)>>
      /\ ~ digits => special /\ v = <<Special[word[1]]>>
  BY DEF Double, Fine, Stream, r, word
<1> HIDE DEF v
<1>6. CASE digits
  <2>1. /\ word \in Seq(Digit) /\ word # <<>> /\ j \in 1 .. Len(r)
        /\ \A i \in 1 .. j : r[i] \in Digit
    <3>1. \A i \in 1 .. j : word[i] \in Digit
      BY <1>4, <1>6 DEF Range, Digit
    <3>2. j # 0
      BY <1>4, <1>6
    <3> QED  BY <1>3, <1>4, <1>6, <3>1, <3>2
  <2>2. j < Len(r) => r[j + 1] \notin Digit
    <3>1. j < Len(r) => j + 1 \in 1 .. Len(r)
      BY <1>2
    <3>2. j < Len(r) => r[j + 1] \in Range(r)
      BY <1>2, <3>1 DEF Range
    <3> QED  BY <1>3, <3>2, SpecialValues
  <2> DEFINE n == Decimal(word)
  <2>3. ReadTo(lex, s, Suffix(r, j), Append(<<>>, Numeral(n)))
    BY <1>1, <1>2, <1>3, <2>1, <2>2, ReadNumber
  <2>4. n \in Nat /\ v = <<n>>
    BY <1>5, <1>6, <2>1, DecimalTyped
  <2>5. n < 100 => Cast("double", Disp(n)) = <<n>>
    <3> SUFFICES ASSUME n < 100 PROVE Cast("double", Disp(n)) = <<n>>
      OBVIOUS
    <3>1. PICK p, d \in 0 .. 3 : n = 10 * p + d
      BY <2>1, DigitsOfNumber
    <3> HIDE DEF n
    <3>2. Spelled(n) \in Seq(Digit) /\ Spelled(n) # <<>> /\ Decimal(Spelled(n)) = n
      BY <3>1, ReadsSpelled
    <3>3. Disp(n) = Spelled(n)
      BY <2>4 DEF Disp
    <3>4. Double(Disp(n)) = [Stream(Disp(n)) EXCEPT !.numbers = <<n>>]
      BY <3>2, <3>3, ReadsDigits
    <3> QED  BY <3>4 DEF Cast, Read, Stream
  <2> HIDE DEF n
  <2>6. SpellsDouble(Tokens(s), v)
    <3> DEFINE us == Tokens(s)
    <3>1. ReadTo(lex, s, Suffix(r, j), <<Numeral(n)>>)
      BY <2>3, AppendTuple
    <3>2. /\ us \in Seq(Token) /\ Len(<<Numeral(n)>>) <= Len(us)
          /\ \A p \in 1 .. Len(<<Numeral(n)>>) : us[p] = <<Numeral(n)>>[p]
      BY <1>1, <3>1, ReadBegins
    <3> HIDE DEF us
    <3>3. us # <<>> /\ us[1] = Numeral(n)
      BY <3>2
    <3>4. Len(v) = 1 /\ v[1] = n
      BY <2>4
    <3> QED  BY <3>3, <3>4 DEF SpellsDouble, us
  <2> QED  BY <2>4, <2>5, <2>6 DEF v
<1>7. CASE ~ digits
  <2> DEFINE w == word[1]
  <2>1. j = 1 /\ w \in DOMAIN Special /\ v = <<Special[w]>>
    BY <1>4, <1>5, <1>7
  <2>2. r # <<>> /\ Head(r) = w
    BY <1>2, <1>3, <1>4, <2>1
  <2> HIDE DEF w
  <2>3. ReadTo(lex, s, Tail(r), <<Mark(w)>>)
    <3>1. w \notin Digit /\ w \notin {",", " "}
      BY <2>1, SpecialValues, Zenon
    <3>2. ReadTo(lex, s, Tail(r), Append(<<>>, Mark(w)))
      BY <1>1, <1>2, <2>2, <3>1, ReadMark
    <3> QED  BY <3>2, AppendTuple
  <2>4. SpellsDouble(Tokens(s), v)
    <3> DEFINE us == Tokens(s)
    <3>1. /\ us \in Seq(Token) /\ Len(<<Mark(w)>>) <= Len(us)
          /\ \A p \in 1 .. Len(<<Mark(w)>>) : us[p] = <<Mark(w)>>[p]
      BY <1>1, <2>3, ReadBegins
    <3> HIDE DEF us
    <3>2. us # <<>> /\ us[1] = Mark(w)
      BY <3>1
    <3>3. Len(v) = 1 /\ v[1] = Special[w]
      BY <2>1
    <3> QED  BY <2>1, <3>2, <3>3 DEF SpellsDouble, us
  <2>5. Cast("double", Disp(v[1])) = v
    <3> DEFINE n == Special[w]
    <3>1. n < 0 /\ \E x \in {"nan", "inf", "-inf"} : Special[x] = n
      BY <2>1, SpecialValues
    <3> HIDE DEF n
    <3> DEFINE x == CHOOSE y \in {"nan", "inf", "-inf"} : Special[y] = n
    <3>2. x \in DOMAIN Special /\ Special[x] = n
      BY <3>1, SpecialValues
    <3>3. Disp(n) = <<x>>
      BY <3>1 DEF Disp
    <3> HIDE DEF x
    <3>4. Double(Disp(n)) = [Stream(Disp(n)) EXCEPT !.numbers = <<n>>]
      BY <3>2, <3>3, ReadsSpecial
    <3>5. Cast("double", Disp(n)) = <<n>>
      BY <3>4 DEF Cast, Read, Stream
    <3>6. v = <<n>> /\ v[1] = n
      BY <2>1 DEF n
    <3> QED  BY <3>5, <3>6
  <2> QED  BY <2>4, <2>5 DEF v
<1> QED  BY <1>6, <1>7

\* Nothing was set, or the signal has what the reader of its type reads of the text.
LastRead ==
  \/ last.type = Null /\ signal = [t \in Types |-> [copy |-> <<>>, referenced |-> <<>>]]
  \/ /\ last.type \in Types /\ last.text \in Texts[last.type]
     /\ Accessed(last.type) # <<>> =>
          /\ Accessed(last.type) = Cast(Reader[last.type], last.text)
          /\ signal[last.type].copy = Accessed(last.type)

\* Whatever the texts, what a reader takes from one without throwing is written in it,
\* size, numbers and parentheses: at every point what is left of the text begins where
\* the tokens read end, and a stream that failed once is seen to have failed.
THEOREM ReadsExactly == Spec => []ReadExact
<1>1. Init => LastRead
  BY DEF Init, LastRead
<1>2. LastRead /\ [Next]_vars => LastRead'
  <2> SUFFICES ASSUME LastRead, [Next]_vars PROVE LastRead'
    OBVIOUS
  <2>1. ASSUME UNCHANGED <<signal, last>> PROVE LastRead'
    BY <2>1 DEF LastRead, Accessed
  <2>2. ASSUME NEW t \in Types, NEW a \in Addresses, registerCast(t, a) PROVE LastRead'
    BY <2>1, <2>2 DEF registerCast
  <2>3. ASSUME NEW t \in Types, unregisterCast(t) PROVE LastRead'
    BY <2>1, <2>3 DEF unregisterCast
  <2>4. ASSUME NEW t \in Types, NEW text \in Texts[t], Set(t, text) PROVE LastRead'
    <3> DEFINE v == signal_cast(t, text)
    <3>1. /\ last' = [type |-> t, text |-> text]
          /\ signal' = IF v = <<>> THEN signal ELSE [signal EXCEPT ![t] = Assigned(t, v)]
          /\ signal = [u \in Types |-> [copy |-> <<>>, referenced |-> <<>>]]
      BY <2>4, CasterAssumption DEF Set, LastRead
    <3>2. v # <<>> => v = Cast(Reader[t], text)
      BY DEF signal_cast
    <3> HIDE DEF v
    <3>3. CASE v = <<>>
      <4>1. Accessed(t)' = <<>>
        BY <3>1, <3>3 DEF Accessed
      <4> QED  BY <3>1, <4>1 DEF LastRead
    <3>4. CASE v # <<>>
      <4>1. signal'[t].copy = v /\ (t \in KeepReference => signal'[t].referenced = v)
        BY <3>1, <3>4 DEF Assigned
      <4>2. Accessed(t)' = v
        BY <4>1 DEF Accessed
      <4> QED  BY <3>1, <3>2, <3>4, <4>1, <4>2 DEF LastRead
    <3> QED  BY <3>3, <3>4
  <2>5. CASE Destroy
    BY <2>1, <2>5 DEF Destroy
  <2>6. CASE UNCHANGED vars
    BY <2>1, <2>6 DEF vars
  <2> QED  BY <2>2, <2>3, <2>4, <2>5, <2>6 DEF Next
<1>3. LastRead => ReadExact
  <2> SUFFICES ASSUME LastRead, last.type # Null, Accessed(last.type) # <<>> PROVE ReadExact
    BY DEF ReadExact
  <2> DEFINE reader == Reader[last.type]
             s == last.text
             v == Accessed(last.type)
  <2>1. s \in Seq(STRING) /\ v = Cast(reader, s) /\ v # <<>>
    BY CasterAssumption DEF LastRead
  <2> HIDE DEF s, v, reader
  <2>2. Fine(Read(reader, s)) /\ v = Read(reader, s).numbers
    BY <2>1 DEF Cast, Fine
  <2>3. ASSUME reader = "vector" PROVE SpellsVector(Tokens(s), v)
    BY <2>1, <2>2, <2>3, VectorExact DEF Read
  <2>4. ASSUME reader = "matrix" PROVE SpellsMatrix(Tokens(s), v)
    BY <2>1, <2>2, <2>4, MatrixExact DEF Read
  <2>5. ASSUME reader = "double"
        PROVE  SpellsDouble(Tokens(s), v) /\ (v[1] < 100 => Cast(reader, Disp(v[1])) = v)
    BY <2>1, <2>2, <2>5, DoubleExact DEF Read
  <2>6. signal[last.type].copy = v
    BY DEF LastRead, v
  <2> QED  BY <2>3, <2>4, <2>5, <2>6 DEF ReadExact, reader, s, v
<1> QED  BY <1>1, <1>2, <1>3, PTL DEF Spec
=============================================================================
