--------------------------- MODULE CommandsProofs ---------------------------
(***************************************************************************)
(* What commands do with Values, for any types, names, commands and numbers*)
(* of variables: every Value has a cell of its own, nothing leaks, and     *)
(* what a command holds is what it was given.                              *)
(*                                                                         *)
(* An operation on Values is known by the cells it frees and the cells it  *)
(* fills (Changes); what else is in the heap it leaves alone.  The theorems *)
(* suppose that there are cells enough: new never fails.                   *)
(***************************************************************************)
EXTENDS Commands, NatLemmas

\* The Values that hold data.
Full == [type_ : Types \cup {"STRING"}, value_ : Cells]
Filled == [type : Types \cup {"STRING"}, data : Data]

Used(h) == {c \in Cells : h[c] # Free}
Heaps == {h \in [Cells -> {Free} \cup Filled] : IsFiniteSet(Used(h))}

Cell(v) == IF v \in Full THEN {v.value_} ELSE {}
CellsOf(vs) == UNION {Cell(vs[i]) : i \in DOMAIN vs}

\* The cell of v holds data of its type.
Sound(h, v) == v \in Full => h[v.value_] # Free /\ h[v.value_].type = v.type_

Kept(h, g, S) == \A c \in S : g[c] = h[c]

\* From h to g the cells of out were freed and those of in filled.
Changes(h, g, out, in) ==
  /\ g \in Heaps
  /\ in \cap (Used(h) \ out) = {}
  /\ Used(g) = (Used(h) \ out) \cup in
  /\ \A c \in Used(h) \ out : g[c] = h[c]

----------------------------------------------------------------------------
(* One Value.                                                              *)

LEMMA Kinds ==
  /\ None \notin Full /\ Unborn \notin Full /\ None # Unborn
  /\ Free \notin Filled
  /\ Value = Full \cup {None}
  /\ Cells \subseteq Nat \ {0}
  /\ Data \subseteq Nat \ {0}
<1>1. \A v \in Full : v.type_ \in Types \cup {"STRING"}
  BY DEF Full
<1>2. \A d \in Filled : d.type \in Types \cup {"STRING"}
  BY DEF Filled
<1>3. "NONE" \notin Types \cup {"STRING"} /\ "UNBORN" \notin Types \cup {"STRING"}
      /\ "FREE" \notin Types \cup {"STRING"}
  BY CommandsAssumption DEF TypeIDs
<1>4. None.type_ = "NONE" /\ Unborn.type_ = "UNBORN" /\ Free.type = "FREE"
  BY DEF None, Unborn, Free
<1>5. Value = Full \cup {None}
  BY DEF Value, Full
<1> QED  BY <1>1, <1>2, <1>3, <1>4, <1>5, CommandsAssumption

\* There is always a free cell.
LEMMA FreeCell ==
  ASSUME ~ IsFiniteSet(Cells), NEW h \in Heaps
  PROVE  LET c == Min({a \in Cells : h[a] = Free}) IN c \in Cells /\ h[c] = Free
<1> DEFINE S == {a \in Cells : h[a] = Free}
<1>1. IsFiniteSet(Used(h))
  BY DEF Heaps
<1>2. S # {}
  <2>1. SUFFICES ASSUME S = {} PROVE FALSE
    OBVIOUS
  <2>2. Cells = Used(h)
    BY <2>1 DEF Used
  <2> QED  BY <1>1, <2>2
<1>3. S \subseteq Nat
  BY Kinds
<1>4. Min(S) \in S
  <2> HIDE DEF S
  <2> QED  BY <1>2, <1>3, LeastOf
<1> QED  BY <1>4

LEMMA NewIn ==
  ASSUME ~ IsFiniteSet(Cells), NEW h \in Heaps, NEW T \in Types \cup {"STRING"}, NEW d \in Data
  PROVE  LET new == NewValue(h, T, d)
         IN  /\ new.value \in Full /\ new.value.type_ = T
             /\ Changes(h, new.heap, {}, {new.value.value_})
             /\ new.heap[new.value.value_] = [type |-> T, data |-> d]
<1> DEFINE c == Min({a \in Cells : h[a] = Free})
           g == [h EXCEPT ![c] = [type |-> T, data |-> d]]
<1>1. c \in Cells /\ h[c] = Free
  BY FreeCell
<1>2. NewValue(h, T, d) = [heap |-> g, value |-> [type_ |-> T, value_ |-> c]]
  BY DEF NewValue
<1> HIDE DEF c
<1>3. [type |-> T, data |-> d] \in Filled
  BY DEF Filled
<1>4. h \in [Cells -> {Free} \cup Filled] /\ IsFiniteSet(Used(h))
  BY DEF Heaps
<1>5. g \in [Cells -> {Free} \cup Filled]
  BY <1>3, <1>4
<1>6. Used(g) = Used(h) \cup {c} /\ c \notin Used(h)
  BY <1>1, <1>3, <1>4, Kinds DEF Used
<1>7. IsFiniteSet(Used(g))
  BY <1>4, <1>6, FS_AddElement
<1>8. Changes(h, g, {}, {c})
  BY <1>1, <1>4, <1>5, <1>6, <1>7 DEF Changes, Heaps, Used
<1>9. g[c] = [type |-> T, data |-> d]
  BY <1>1, <1>4
<1>10. [type_ |-> T, value_ |-> c] \in Full
  BY <1>1 DEF Full
<1> HIDE DEF g
<1> QED  BY <1>2, <1>8, <1>9, <1>10

\* What copying v gives: c is the heap and the Value that come of it.
Copied(h, v, c) ==
  /\ c.value \in Value
  /\ v = None => c.value = None
  /\ v \in Full => /\ c.value \in Full /\ c.value.type_ = v.type_
                   /\ c.heap[c.value.value_] = h[v.value_]

LEMMA Copying ==
  ASSUME ~ IsFiniteSet(Cells), NEW h \in Heaps, NEW v \in Value, Sound(h, v)
  PROVE  LET c == CopyValue(h, v)
         IN  Changes(h, c.heap, {}, Cell(c.value)) /\ Copied(h, v, c)
<1>1. CASE v = None
  <2>1. CopyValue(h, v) = [heap |-> h, value |-> None]
    BY <1>1 DEF CopyValue
  <2>2. Changes(h, h, {}, {})
    BY DEF Changes
  <2> QED  BY <1>1, <2>1, <2>2, Kinds DEF Cell, Copied
<1>2. CASE v \in Full
  <2>1. v.type_ \in Types \cup {"STRING"} /\ v.value_ \in Cells
    BY <1>2 DEF Full
  <2>2. h[v.value_] \in Filled /\ h[v.value_].type = v.type_
    BY <1>2, <2>1 DEF Sound, Heaps
  <2>3. DataOf(h, v) \in Data /\ h[v.value_] = [type |-> v.type_, data |-> DataOf(h, v)]
    BY <2>2 DEF DataOf, Filled
  <2>4. CopyValue(h, v) = NewValue(h, v.type_, DataOf(h, v))
    BY <1>2, Kinds DEF CopyValue
  <2> DEFINE new == NewValue(h, v.type_, DataOf(h, v))
  <2>5. /\ new.value \in Full /\ new.value.type_ = v.type_
        /\ Changes(h, new.heap, {}, {new.value.value_})
        /\ new.heap[new.value.value_] = h[v.value_]
    BY <2>1, <2>3, NewIn
  <2> HIDE DEF new
  <2> QED  BY <1>2, <2>4, <2>5, Kinds DEF new, Cell, Copied
<1> QED  BY <1>1, <1>2, Kinds

LEMMA Deleting ==
  ASSUME NEW h \in Heaps, NEW v \in Value
  PROVE  Changes(h, DeleteValue(h, v), Cell(v), {})
<1>1. CASE v = None
  <2>1. DeleteValue(h, v) = h /\ Cell(v) = {}
    BY <1>1, Kinds DEF DeleteValue, Cell
  <2> QED  BY <2>1 DEF Changes
<1>2. CASE v \in Full
  <2> DEFINE g == [h EXCEPT ![v.value_] = Free]
  <2>1. DeleteValue(h, v) = g /\ Cell(v) = {v.value_} /\ v.value_ \in Cells
    BY <1>2, Kinds DEF DeleteValue, Cell, Full
  <2>2. h \in [Cells -> {Free} \cup Filled] /\ IsFiniteSet(Used(h))
    BY DEF Heaps
  <2>3. g \in [Cells -> {Free} \cup Filled]
    BY <2>2
  <2>4. Used(g) = Used(h) \ {v.value_}
    BY <2>1, <2>2 DEF Used
  <2>5. IsFiniteSet(Used(g))
    BY <2>2, <2>4, FS_Subset
  <2>6. Changes(h, g, {v.value_}, {})
    BY <2>2, <2>3, <2>4, <2>5 DEF Changes, Heaps, Used
  <2> QED  BY <2>1, <2>6
<1> QED  BY <1>1, <1>2, Kinds

\* One change after another, of what the first left alone.
LeftBy(h, out, S) == S \subseteq Used(h) \ out
LEMMA Composed ==
  ASSUME NEW h, NEW g, NEW f, NEW o1, NEW i1, NEW o2, NEW i2,
         Changes(h, g, o1, i1), Changes(g, f, o2, i2), LeftBy(h, o1, o2)
  PROVE  /\ Changes(h, f, o1 \cup o2, i1 \cup i2)
         /\ i1 \cap i2 = {} /\ Kept(g, f, i1)
<1>1. i1 \cap o2 = {} /\ i1 \subseteq Used(g) \ o2
  BY DEF Changes, LeftBy
<1>2. i1 \cap i2 = {} /\ Kept(g, f, i1)
  BY <1>1 DEF Changes, Kept
<1>3. Used(f) = (Used(h) \ (o1 \cup o2)) \cup (i1 \cup i2)
  BY <1>1 DEF Changes
<1>4. (i1 \cup i2) \cap (Used(h) \ (o1 \cup o2)) = {}
  BY DEF Changes
<1>5. \A c \in Used(h) \ (o1 \cup o2) : f[c] = h[c]
  BY DEF Changes
<1> QED  BY <1>2, <1>3, <1>4, <1>5 DEF Changes

\* v = w, where w does not share the cell of v.
LEMMA Assigning ==
  ASSUME ~ IsFiniteSet(Cells), NEW h \in Heaps, NEW v \in Value, NEW w \in Value,
         Sound(h, w), Cell(v) \cap Cell(w) = {}
  PROVE  LET c == AssignValue(h, v, w)
         IN  Changes(h, c.heap, Cell(v), Cell(c.value)) /\ Copied(h, w, c)
<1> DEFINE g == DeleteValue(h, v)
           c == CopyValue(g, w)
<1>1. Changes(h, g, Cell(v), {})
  BY Deleting
<1>2. g \in Heaps /\ \A a \in Used(h) \ Cell(v) : g[a] = h[a]
  BY <1>1 DEF Changes
<1>3. w \in Full => w.value_ \in Used(h) \ Cell(v) /\ g[w.value_] = h[w.value_]
  BY <1>2 DEF Sound, Cell, Used, Full
<1>4. Sound(g, w)
  BY <1>3 DEF Sound
<1>5. AssignValue(h, v, w) = c
  BY DEF AssignValue
<1> HIDE DEF g
<1>6. Changes(g, c.heap, {}, Cell(c.value)) /\ Copied(g, w, c)
  BY <1>2, <1>4, Copying
<1> HIDE DEF c
<1>7. Changes(h, c.heap, Cell(v) \cup {}, {} \cup Cell(c.value))
  <2>1. LeftBy(h, Cell(v), {})
    BY DEF LeftBy
  <2> QED  BY <1>1, <1>6, <2>1, Composed
<1>8. Changes(h, c.heap, Cell(v), Cell(c.value))
  <2>1. Cell(v) \cup {} = Cell(v) /\ {} \cup Cell(c.value) = Cell(c.value)
    OBVIOUS
  <2> QED  BY <1>7, <2>1
<1>9. Copied(h, w, c)
  BY <1>3, <1>6 DEF Copied
<1> QED  BY <1>5, <1>8, <1>9
----------------------------------------------------------------------------
(* Vectors of Values.                                                      *)

Apart(vs) == \A i, j \in DOMAIN vs : i # j => Cell(vs[i]) \cap Cell(vs[j]) = {}
UpToCells(vs, k) == UNION {Cell(vs[i]) : i \in 1 .. k}

\* What the assignment of vectors goes through: ws is readable throughout.
Readers(h, ws) ==
  {a \in [heap : Heaps, values : Seq(Full)] :
     \A i \in DOMAIN ws : a.heap[ws[i].value_] = h[ws[i].value_]}
AssignTurn(a, v, w) ==
  LET c == AssignValue(a.heap, v, w) IN [heap |-> c.heap, values |-> Append(a.values, c.value)]

\* vs can be assigned ws.
Assignable(h, vs, ws) ==
  /\ h \in Heaps /\ vs \in Seq(Value) /\ ws \in Seq(Full) /\ Len(vs) = Len(ws)
  /\ \A i \in DOMAIN vs : Sound(h, vs[i]) /\ Sound(h, ws[i])
  /\ Apart(vs) /\ CellsOf(vs) \cap CellsOf(ws) = {}

LEMMA AssignedOne ==
  ASSUME ~ IsFiniteSet(Cells), NEW h, NEW vs, NEW ws, Assignable(h, vs, ws),
         NEW a \in Readers(h, ws), NEW k \in 1 .. Len(vs)
  PROVE  LET c == AssignValue(a.heap, vs[k], ws[k])
         IN  /\ AssignTurn(a, vs[k], ws[k]) \in Readers(h, ws)
             /\ Changes(a.heap, c.heap, Cell(vs[k]), Cell(c.value))
             /\ Copied(h, ws[k], c) /\ c.value \in Full
<1> DEFINE c == AssignValue(a.heap, vs[k], ws[k])
<1>1. /\ a.heap \in Heaps /\ a.values \in Seq(Full)
      /\ \A i \in DOMAIN ws : a.heap[ws[i].value_] = h[ws[i].value_]
  BY DEF Readers
<1>2. /\ DOMAIN vs = 1 .. Len(vs) /\ DOMAIN ws = 1 .. Len(vs)
      /\ vs[k] \in Value /\ \A i \in DOMAIN ws : ws[i] \in Full /\ ws[i] \in Value
  BY Kinds DEF Assignable
<1>3. \A i \in DOMAIN ws : Sound(a.heap, ws[i])
  BY <1>1, <1>2 DEF Sound, Assignable
<1>4. \A i \in DOMAIN ws : Cell(vs[k]) \cap Cell(ws[i]) = {}
  BY <1>2 DEF Assignable, CellsOf
<1>5. Changes(a.heap, c.heap, Cell(vs[k]), Cell(c.value)) /\ Copied(a.heap, ws[k], c)
  BY <1>1, <1>2, <1>3, <1>4, Assigning
<1> HIDE DEF c
<1>6. c.value \in Full
  BY <1>2, <1>5 DEF Copied
<1>7. ASSUME NEW i \in DOMAIN ws
      PROVE  c.heap[ws[i].value_] = h[ws[i].value_]
  <2>1. ws[i].value_ \in Used(a.heap) \ Cell(vs[k])
    BY <1>2, <1>3, <1>4 DEF Sound, Used, Cell, Full
  <2> QED  BY <1>1, <1>5, <2>1 DEF Changes
<1>8. c.heap \in Heaps /\ Append(a.values, c.value) \in Seq(Full)
  BY <1>1, <1>5, <1>6 DEF Changes
<1>9. [heap |-> c.heap, values |-> Append(a.values, c.value)] \in Readers(h, ws)
  BY <1>7, <1>8 DEF Readers
<1>10. AssignTurn(a, vs[k], ws[k]) \in Readers(h, ws)
  BY <1>9 DEF AssignTurn, c
<1>11. Copied(h, ws[k], c)
  BY <1>1, <1>2, <1>5 DEF Copied
<1> QED  BY <1>5, <1>6, <1>10, <1>11 DEF c

\* What has been done of vs = ws after k turns.
AssignedTo(h, vs, ws, a, k) ==
  /\ a.values \in Seq(Full) /\ Len(a.values) = k
  /\ Changes(h, a.heap, UpToCells(vs, k), CellsOf(a.values))
  /\ Apart(a.values)
  /\ \A i \in 1 .. k : /\ a.values[i].type_ = ws[i].type_
                       /\ a.heap[a.values[i].value_] = h[ws[i].value_]

LEMMA AssignedNext ==
  ASSUME ~ IsFiniteSet(Cells), NEW h, NEW vs, NEW ws, Assignable(h, vs, ws),
         NEW a \in Readers(h, ws), NEW k \in 1 .. Len(vs), AssignedTo(h, vs, ws, a, k - 1)
  PROVE  AssignedTo(h, vs, ws, AssignTurn(a, vs[k], ws[k]), k)
<1> DEFINE c == AssignValue(a.heap, vs[k], ws[k])
           b == AssignTurn(a, vs[k], ws[k])
<1>1. /\ Changes(a.heap, c.heap, Cell(vs[k]), Cell(c.value))
      /\ Copied(h, ws[k], c) /\ c.value \in Full
  BY AssignedOne
<1>2. b = [heap |-> c.heap, values |-> Append(a.values, c.value)]
  BY DEF AssignTurn
<1> HIDE DEF c, b
<1>3. /\ a.values \in Seq(Full) /\ Len(a.values) = k - 1
      /\ Changes(h, a.heap, UpToCells(vs, k - 1), CellsOf(a.values))
      /\ Apart(a.values)
      /\ \A i \in 1 .. k - 1 : /\ a.values[i].type_ = ws[i].type_
                               /\ a.heap[a.values[i].value_] = h[ws[i].value_]
  BY DEF AssignedTo
<1>4. /\ DOMAIN vs = 1 .. Len(vs) /\ DOMAIN ws = 1 .. Len(vs) /\ k \in Nat
      /\ \A i \in 1 .. k - 1 : i \in DOMAIN vs /\ i # k
      /\ ws[k] \in Full
  BY DEF Assignable
<1>5. /\ b.values \in Seq(Full) /\ Len(b.values) = k
      /\ DOMAIN a.values = 1 .. k - 1 /\ DOMAIN b.values = 1 .. k
      /\ \A i \in 1 .. k - 1 : b.values[i] = a.values[i]
      /\ b.values[k] = c.value
  BY <1>1, <1>2, <1>3, <1>4
<1>6. \A i \in 1 .. k : i = k \/ i \in 1 .. k - 1
  BY <1>4
<1>7. CellsOf(b.values) = CellsOf(a.values) \cup Cell(c.value)
  BY <1>4, <1>5, <1>6 DEF CellsOf
<1>8. UpToCells(vs, k) = UpToCells(vs, k - 1) \cup Cell(vs[k])
  BY <1>4, <1>6 DEF UpToCells
<1>9. Cell(vs[k]) \subseteq Used(h) \ UpToCells(vs, k - 1)
  <2>1. Cell(vs[k]) \subseteq Used(h)
    BY <1>4 DEF Assignable, Sound, Cell, Used, Full
  <2>2. \A i \in 1 .. k - 1 : Cell(vs[i]) \cap Cell(vs[k]) = {}
    BY <1>4 DEF Assignable, Apart
  <2> QED  BY <2>1, <2>2 DEF UpToCells
<1>10. /\ Changes(h, c.heap, UpToCells(vs, k), CellsOf(b.values))
       /\ CellsOf(a.values) \cap Cell(c.value) = {}
       /\ \A x \in CellsOf(a.values) : c.heap[x] = a.heap[x]
  <2> DEFINE o1 == UpToCells(vs, k - 1)
             i1 == CellsOf(a.values)
             o2 == Cell(vs[k])
             i2 == Cell(c.value)
             g == a.heap
             f == c.heap
  <2>1. Changes(h, g, o1, i1) /\ Changes(g, f, o2, i2) /\ LeftBy(h, o1, o2)
    BY <1>1, <1>3, <1>9 DEF LeftBy
  <2> HIDE DEF o1, i1, o2, i2, g, f
  <2>2. /\ Changes(h, f, o1 \cup o2, i1 \cup i2)
        /\ i1 \cap i2 = {} /\ Kept(g, f, i1)
    BY ONLY <2>1, Composed
  <2> QED  BY <1>7, <1>8, <2>2 DEF o1, i1, o2, i2, g, f, Kept
<1>11. \A i \in 1 .. k - 1 : /\ a.values[i] \in Full /\ a.values[i].value_ \in CellsOf(a.values)
                             /\ Cell(a.values[i]) \subseteq CellsOf(a.values)
  BY <1>3, <1>5 DEF CellsOf, Cell
<1>12. Apart(b.values)
  <2>1. ASSUME NEW i \in 1 .. k, NEW j \in 1 .. k, i # j
        PROVE  Cell(b.values[i]) \cap Cell(b.values[j]) = {}
    <3>1. CASE i = k
      BY <2>1, <3>1, <1>5, <1>6, <1>10, <1>11
    <3>2. CASE j = k
      BY <2>1, <3>2, <1>5, <1>6, <1>10, <1>11
    <3>3. CASE i # k /\ j # k
      BY <2>1, <3>3, <1>3, <1>5, <1>6 DEF Apart
    <3> QED  BY <3>1, <3>2, <3>3
  <2> QED  BY <2>1, <1>5 DEF Apart
<1>13. ASSUME NEW i \in 1 .. k
       PROVE  /\ b.values[i].type_ = ws[i].type_
              /\ b.heap[b.values[i].value_] = h[ws[i].value_]
  <2>1. CASE i = k
    BY <2>1, <1>1, <1>2, <1>4, <1>5 DEF Copied
  <2>2. CASE i \in 1 .. k - 1
    BY <2>2, <1>2, <1>3, <1>5, <1>10, <1>11
  <2> QED  BY <2>1, <2>2, <1>6
<1>14. b.heap = c.heap
  BY <1>2
<1> QED  BY <1>5, <1>10, <1>12, <1>13, <1>14 DEF AssignedTo, b

LEMMA AssigningAll ==
  ASSUME ~ IsFiniteSet(Cells), NEW h, NEW vs, NEW ws, Assignable(h, vs, ws)
  PROVE  AssignedTo(h, vs, ws, AssignAll(h, vs, ws), Len(vs))
<1> DEFINE n == Len(vs)
           base == [heap |-> h, values |-> <<>>]
           Indices == [i \in DOMAIN vs |-> i]
           Solves(f) == f = [R \in SUBSET DOMAIN Indices |->
                               IF R = {} THEN base
                               ELSE LET x == Max(R)
                                        c == AssignValue(f[R \ {x}].heap, vs[Indices[x]], ws[Indices[x]])
                                    IN  [heap |-> c.heap, values |-> Append(f[R \ {x}].values, c.value)]]
           it == CHOOSE f : Solves(f)
<1>1. AssignAll(h, vs, ws) = it[DOMAIN Indices]
  BY Zenon DEF AssignAll, FoldLeft, MapThenFoldSet
<1>2. /\ n \in Nat /\ DOMAIN vs = 1 .. n /\ DOMAIN Indices = 1 .. n
      /\ \A k \in 1 .. n : Indices[k] = k
  BY DEF Assignable
<1> DEFINE D == Readers(h, ws)
           Turn(a, k) == AssignTurn(a, vs[k], ws[k])
           G == [p \in D \X (1 .. n) |-> Turn(p[1], p[2])]
<1>3. \A a \in D, k \in 1 .. n : G[<<a, k>>] = Turn(a, k)
  OBVIOUS
<1>4. G \in [D \X (1 .. n) -> D]
  <2>1. \A a \in D, k \in 1 .. n : Turn(a, k) \in D
    BY AssignedOne
  <2> HIDE DEF D, n
  <2> QED  BY <2>1
<1>5. base \in D
  BY DEF Readers, Assignable
<1> HIDE DEF G, D, n, Indices, base
<1>6. \E f : Solves(f)
  <2>1. PICK f : Folded(f, D, G, base, n)
    BY <1>2, <1>4, <1>5, Folds
  <2>2. ASSUME NEW R \in SUBSET (1 .. n), R # {}
        PROVE  /\ Max(R) \in 1 .. n /\ Indices[Max(R)] = Max(R)
               /\ f[R] = Turn(f[R \ {Max(R)}], Max(R))
    <3>1. Max(R) \in 1 .. n
      BY <1>2, <2>2, MaxOf
    <3>2. f[R \ {Max(R)}] \in D
      BY <2>1 DEF Folded
    <3>3. f[R] = G[<<f[R \ {Max(R)}], Max(R)>>]
      BY <2>1, <2>2 DEF Folded
    <3> QED  BY <1>2, <1>3, <3>1, <3>2, <3>3
  <2>3. f = [R \in SUBSET (1 .. n) |-> f[R]] /\ f[{}] = base
    BY <2>1 DEF Folded
  <2>4. ASSUME NEW R \in SUBSET (1 .. n), R # {}
        PROVE  f[R] = LET x == Max(R)
                          c == AssignValue(f[R \ {x}].heap, vs[Indices[x]], ws[Indices[x]])
                      IN  [heap |-> c.heap, values |-> Append(f[R \ {x}].values, c.value)]
    BY <2>2, <2>4, Zenon DEF AssignTurn
  <2>5. Solves(f)
    BY <1>2, <2>3, <2>4, Zenon
  <2> QED  BY <2>5
<1>7. Solves(it)
  BY <1>6
<1> HIDE DEF it
<1>8. it[{}] = base
  BY <1>7, Zenon
<1>0. n \in Nat
  BY <1>2
<1>9. ASSUME NEW k \in 1 .. n, it[1 .. (k - 1)] \in D
      PROVE  it[1 .. k] = G[<<it[1 .. (k - 1)], k>>]
  <2>1. 1 .. k # {} /\ Max(1 .. k) = k /\ (1 .. k) \ {k} = 1 .. (k - 1)
    <3>1. k \in Nat /\ k # 0
      BY <1>0
    <3> QED  BY <3>1, Prefix
  <2>2. 1 .. k \in SUBSET DOMAIN Indices /\ Indices[k] = k
    BY <1>2
  <2>3. it[1 .. k] = LET c == AssignValue(it[1 .. (k - 1)].heap, vs[k], ws[k])
                     IN  [heap |-> c.heap, values |-> Append(it[1 .. (k - 1)].values, c.value)]
    <3> DEFINE R == 1 .. k
    <3>1. R \in SUBSET DOMAIN Indices /\ R # {}
      BY <2>1, <2>2
    <3>2. it[R] = LET x == Max(R)
                      c == AssignValue(it[R \ {x}].heap, vs[Indices[x]], ws[Indices[x]])
                  IN  [heap |-> c.heap, values |-> Append(it[R \ {x}].values, c.value)]
      <4> HIDE DEF R
      <4> QED  BY <1>7, <3>1, Zenon
    <3>3. Max(R) = k /\ R \ {k} = 1 .. (k - 1)
      BY <2>1
    <3> HIDE DEF R
    <3>4. it[R] = LET c == AssignValue(it[1 .. (k - 1)].heap, vs[k], ws[k])
                  IN  [heap |-> c.heap, values |-> Append(it[1 .. (k - 1)].values, c.value)]
      BY <2>2, <3>2, <3>3, Zenon
    <3> QED  BY <3>4 DEF R
  <2>4. it[1 .. k] = Turn(it[1 .. (k - 1)], k)
    BY <2>3, Zenon DEF AssignTurn
  <2> QED  BY <1>3, <1>9, <2>4
<1>10. PICK acc : Folding(acc, it, D, G, base, n)
  <2>1. FoldsBy(it, D, G, base, n)
    BY <1>8, <1>9 DEF FoldsBy
  <2> QED  BY <1>0, <1>4, <1>5, <2>1, FoldSteps
<1>11. \A k \in 1 .. n : acc[k - 1] \in D /\ acc[k] = Turn(acc[k - 1], k)
  <2>1. \A k \in 1 .. n : k - 1 \in 0 .. n
    BY <1>2
  <2> QED  BY <1>3, <1>10, <2>1 DEF Folding
<1> DEFINE S == {k \in 0 .. n : AssignedTo(h, vs, ws, acc[k], k)}
<1>12. 0 \in S
  <2>1. acc[0] = base
    BY <1>10 DEF Folding
  <2>2. UpToCells(vs, 0) = {} /\ CellsOf(<<>>) = {} /\ Apart(<<>>)
    BY DEF UpToCells, CellsOf, Apart
  <2>3. Changes(h, h, {}, {})
    BY DEF Changes, Assignable
  <2>4. AssignedTo(h, vs, ws, base, 0)
    <3>1. <<>> \in Seq(Full) /\ Len(<<>>) = 0 /\ 1 .. 0 = {}
      OBVIOUS
    <3> QED  BY <2>2, <2>3, <3>1 DEF AssignedTo, base
  <2> QED  BY <1>2, <2>1, <2>4
<1>13. ASSUME NEW k \in 0 .. n, k # n, k \in S
       PROVE  k + 1 \in S
  <2>1. k + 1 \in 1 .. n /\ k + 1 \in 0 .. n /\ (k + 1) - 1 = k /\ n = Len(vs)
    BY <1>0, <1>13 DEF n
  <2>2. acc[k] \in Readers(h, ws) /\ acc[k + 1] = Turn(acc[k], k + 1)
    <3>1. acc[(k + 1) - 1] \in D /\ acc[k + 1] = Turn(acc[(k + 1) - 1], k + 1)
      BY <1>11, <2>1
    <3> QED  BY <2>1, <3>1 DEF D
  <2>3. AssignedTo(h, vs, ws, acc[k], (k + 1) - 1)
    BY <1>13, <2>1
  <2>4. AssignedTo(h, vs, ws, Turn(acc[k], k + 1), k + 1)
    BY <2>1, <2>2, <2>3, AssignedNext
  <2> QED  BY <2>1, <2>2, <2>4
<1> HIDE DEF S
<1>14. n \in S
  <2>1. \A k \in 0 .. n : k \in S
    BY <1>0, <1>12, <1>13, UpTo
  <2> QED  BY <1>0, <2>1
<1> QED  BY <1>1, <1>2, <1>10, <1>14 DEF S, n, Folding

----------------------------------------------------------------------------
(* Reading Values through copies of them.                                  *)

LEMMA ReadOne ==
  ASSUME ~ IsFiniteSet(Cells), NEW h \in Heaps, NEW v \in Full, Sound(h, v)
  PROVE  /\ EitherType(h, v) = [heap |-> h, data |-> DataOf(h, v)]
         /\ DataOf(h, v) \in Data
<1> DEFINE copy == CopyValue(h, v)
           c == copy.value.value_
           g == copy.heap
<1>1. Changes(h, g, {}, Cell(copy.value)) /\ Copied(h, v, copy)
  BY Copying, Kinds
<1>2. EitherType(h, v) = [heap |-> DeleteValue(g, copy.value), data |-> DataOf(g, copy.value)]
  BY DEF EitherType
<1>3. copy.value \in Full /\ c \in Cells /\ g[c] = h[v.value_] /\ Cell(copy.value) = {c}
  BY <1>1 DEF Copied, Cell, Full
<1>4. DeleteValue(g, copy.value) = [g EXCEPT ![c] = Free] /\ DataOf(g, copy.value) = g[c].data
  BY <1>3, Kinds DEF DeleteValue, DataOf
<1> HIDE DEF copy
<1>5. /\ h \in [Cells -> {Free} \cup Filled] /\ g \in [Cells -> {Free} \cup Filled]
      /\ c \notin Used(h) /\ Used(g) = Used(h) \cup {c}
      /\ \A x \in Used(h) : g[x] = h[x]
  BY <1>1, <1>3 DEF Changes, Heaps
<1> HIDE DEF c, g
<1>6. h[c] = Free /\ \A x \in Cells : x # c => g[x] = h[x]
  BY <1>3, <1>5 DEF Used
<1>7. [g EXCEPT ![c] = Free] = h
  BY <1>3, <1>5, <1>6
<1>8. h[v.value_] \in Filled
  BY <1>5 DEF Sound, Full
<1>9. DataOf(h, v) = h[v.value_].data /\ DataOf(h, v) \in Data
  BY <1>8 DEF DataOf, Filled
<1> QED  BY <1>2, <1>3, <1>4, <1>7, <1>9

ReadTurn(a, v) ==
  LET e == EitherType(a.heap, v) IN [heap |-> e.heap, args |-> Append(a.args, e.data)]

\* doExecute() reads what the command holds, and leaves the heap as it was.
LEMMA ReadAll ==
  ASSUME ~ IsFiniteSet(Cells), NEW n \in Names, heap \in Heaps, params[n] \in Seq(Full),
         \A i \in DOMAIN params[n] : Sound(heap, params[n][i])
  PROVE  /\ Arguments(n).heap = heap
         /\ Arguments(n).args = DataOfAll(heap, params[n])
         /\ DataOfAll(heap, params[n]) \in Seq(Data)
<1> DEFINE vs == params[n]
           size == Len(vs)
           base == [heap |-> heap, args |-> <<>>]
           Solves(f) == f = [R \in SUBSET DOMAIN vs |->
                               IF R = {} THEN base
                               ELSE LET x == Max(R)
                                        e == EitherType(f[R \ {x}].heap, vs[x])
                                    IN  [heap |-> e.heap, args |-> Append(f[R \ {x}].args, e.data)]]
           it == CHOOSE f : Solves(f)
<1>1. Arguments(n) = it[DOMAIN vs]
  BY Zenon DEF Arguments, FoldLeft, MapThenFoldSet
<1>2. /\ size \in Nat /\ DOMAIN vs = 1 .. size
      /\ \A k \in 1 .. size : vs[k] \in Full /\ Sound(heap, vs[k])
  OBVIOUS
<1> DEFINE D == [heap : {heap}, args : Seq(Data)]
           Turn(a, k) == ReadTurn(a, vs[k])
           G == [p \in D \X (1 .. size) |-> Turn(p[1], p[2])]
<1>3. \A a \in D, k \in 1 .. size : G[<<a, k>>] = Turn(a, k)
  OBVIOUS
<1> HIDE DEF size, vs
<1>4. ASSUME NEW a \in D, NEW k \in 1 .. size
      PROVE  /\ Turn(a, k) \in D
             /\ Turn(a, k) = [heap |-> heap, args |-> Append(a.args, DataOf(heap, vs[k]))]
  <2>1. a.heap = heap /\ a.args \in Seq(Data)
    OBVIOUS
  <2>2. /\ EitherType(heap, vs[k]) = [heap |-> heap, data |-> DataOf(heap, vs[k])]
        /\ DataOf(heap, vs[k]) \in Data
    BY <1>2, ReadOne
  <2>3. Turn(a, k) = [heap |-> heap, args |-> Append(a.args, DataOf(heap, vs[k]))]
    BY <2>1, <2>2 DEF ReadTurn
  <2> QED  BY <2>1, <2>2, <2>3
<1>5. G \in [D \X (1 .. size) -> D]
  <2>1. \A a \in D, k \in 1 .. size : Turn(a, k) \in D
    BY <1>4
  <2> HIDE DEF D, Turn
  <2> QED  BY <2>1
<1>6. base \in D
  OBVIOUS
<1>7. \A a \in D : a.args \in Seq(Data)
  OBVIOUS
<1> HIDE DEF G, D, base
<1>8. \E f : Solves(f)
  <2>1. PICK f : Folded(f, D, G, base, size)
    BY <1>2, <1>5, <1>6, Folds
  <2>2. ASSUME NEW R \in SUBSET (1 .. size), R # {}
        PROVE  f[R] = Turn(f[R \ {Max(R)}], Max(R))
    <3>1. Max(R) \in 1 .. size
      BY <1>2, <2>2, MaxOf
    <3>2. f[R \ {Max(R)}] \in D
      BY <2>1 DEF Folded
    <3>3. f[R] = G[<<f[R \ {Max(R)}], Max(R)>>]
      BY <2>1, <2>2 DEF Folded
    <3> QED  BY <1>3, <3>1, <3>2, <3>3
  <2>3. f = [R \in SUBSET (1 .. size) |-> f[R]] /\ f[{}] = base
    BY <2>1 DEF Folded
  <2>4. ASSUME NEW R \in SUBSET (1 .. size), R # {}
        PROVE  f[R] = LET x == Max(R)
                          e == EitherType(f[R \ {x}].heap, vs[x])
                      IN  [heap |-> e.heap, args |-> Append(f[R \ {x}].args, e.data)]
    BY <2>2, <2>4, Zenon DEF ReadTurn
  <2>5. Solves(f)
    BY <1>2, <2>3, <2>4, Zenon
  <2> QED  BY <2>5
<1>9. Solves(it)
  BY <1>8
<1> HIDE DEF it
<1>10. it[{}] = base
  BY <1>9, Zenon
<1>11. size \in Nat
  BY <1>2
<1>12. ASSUME NEW k \in 1 .. size, it[1 .. (k - 1)] \in D
       PROVE  it[1 .. k] = G[<<it[1 .. (k - 1)], k>>]
  <2>1. 1 .. k # {} /\ Max(1 .. k) = k /\ (1 .. k) \ {k} = 1 .. (k - 1)
    <3>1. k \in Nat /\ k # 0
      BY <1>11
    <3> QED  BY <3>1, Prefix
  <2> DEFINE R == 1 .. k
  <2>2. R \in SUBSET DOMAIN vs /\ R # {}
    BY <1>2, <2>1
  <2>3. Max(R) = k /\ R \ {k} = 1 .. (k - 1)
    BY <2>1
  <2> HIDE DEF R
  <2>4. it[R] = LET x == Max(R)
                    e == EitherType(it[R \ {x}].heap, vs[x])
                IN  [heap |-> e.heap, args |-> Append(it[R \ {x}].args, e.data)]
    BY <1>9, <2>2, Zenon
  <2>5. it[R] = Turn(it[1 .. (k - 1)], k)
    BY <2>3, <2>4, Zenon DEF ReadTurn
  <2> QED  BY <1>3, <1>12, <2>5 DEF R
<1>13. PICK acc : Folding(acc, it, D, G, base, size)
  <2>1. FoldsBy(it, D, G, base, size)
    BY <1>10, <1>12 DEF FoldsBy
  <2> QED  BY <1>5, <1>6, <1>11, <2>1, FoldSteps
<1>14. ASSUME NEW k \in 1 .. size
       PROVE  /\ acc[k - 1] \in D
              /\ acc[k] = [heap |-> heap, args |-> Append(acc[k - 1].args, DataOf(heap, vs[k]))]
  <2>1. k - 1 \in 0 .. size
    BY <1>11
  <2>2. acc[k - 1] \in D /\ acc[k] = G[<<acc[k - 1], k>>]
    BY <1>13, <2>1 DEF Folding
  <2> QED  BY <1>3, <1>4, <2>2
<1> DEFINE Read(a, k) == /\ a.heap = heap /\ Len(a.args) = k
                         /\ \A i \in 1 .. k : a.args[i] = DataOf(heap, vs[i])
           S == {k \in 0 .. size : Read(acc[k], k)}
<1>15. 0 \in S
  <2>1. acc[0] = base
    BY <1>13 DEF Folding
  <2> QED  BY <1>11, <2>1 DEF base
<1>16. ASSUME NEW k \in 0 .. size, k # size, k \in S
       PROVE  k + 1 \in S
  <2>1. k + 1 \in 1 .. size /\ k + 1 \in 0 .. size /\ (k + 1) - 1 = k
    BY <1>11, <1>16
  <2>2. acc[(k + 1) - 1] \in D /\ acc[k + 1] = [heap |-> heap,
            args |-> Append(acc[(k + 1) - 1].args, DataOf(heap, vs[k + 1]))]
    BY <1>14, <2>1
  <2> DEFINE old == acc[k].args
             new == acc[k + 1].args
  <2>3. old \in Seq(Data) /\ Len(old) = k /\ \A i \in 1 .. k : old[i] = DataOf(heap, vs[i])
    BY <1>7, <1>16, <2>1, <2>2
  <2>4. new = Append(old, DataOf(heap, vs[k + 1])) /\ acc[k + 1].heap = heap
    BY <2>1, <2>2
  <2> HIDE DEF old, new
  <2>5. Len(new) = k + 1 /\ \A i \in 1 .. k + 1 : new[i] = DataOf(heap, vs[i])
    BY <2>1, <2>3, <2>4
  <2> QED  BY <2>1, <2>4, <2>5 DEF new
<1> HIDE DEF S
<1>17. size \in S
  <2>1. \A k \in 0 .. size : k \in S
    BY <1>11, <1>15, <1>16, UpTo
  <2> QED  BY <1>11, <2>1
<1>18. Read(it[1 .. size], size) /\ it[1 .. size] \in D
  BY <1>13, <1>17 DEF S, Folding
<1> DEFINE args == it[1 .. size].args
<1>19. /\ args \in Seq(Data) /\ Len(args) = size
       /\ \A i \in 1 .. size : args[i] = DataOf(heap, vs[i])
  BY <1>7, <1>18
<1> HIDE DEF args
<1>20. args = [i \in 1 .. size |-> DataOf(heap, vs[i])]
  BY <1>19
<1>21. args = DataOfAll(heap, params[n])
  BY <1>2, <1>20 DEF DataOfAll, vs
<1> QED  BY <1>1, <1>2, <1>18, <1>19, <1>21 DEF args

----------------------------------------------------------------------------
(* The invariant.                                                          *)

AnyOffered == UNION {Offered[n] : n \in Names}

Typed ==
  /\ heap \in Heaps
  /\ var \in [Vars -> Value \cup {Unborn}]
  /\ commands \in [Names -> AnyOffered \cup {NoCommand}]
  /\ params \in [Names -> Seq(Full)]
  /\ member \in [Types -> Data]
  /\ given \in [Names -> Seq(Data)]

AllSound(h, vs) == \A i \in DOMAIN vs : Sound(h, vs[i])
Sounds ==
  /\ \A x \in Vars : Sound(heap, var[x])
  /\ \A n \in Names : AllSound(heap, params[n])

Separate ==
  /\ \A x, y \in Vars : x # y => Cell(var[x]) \cap Cell(var[y]) = {}
  /\ \A x \in Vars, n \in Names : Cell(var[x]) \cap CellsOf(params[n]) = {}
  /\ \A n, m \in Names : n # m => CellsOf(params[n]) \cap CellsOf(params[m]) = {}
  /\ \A n \in Names : Apart(params[n])

NoLeak ==
  \A c \in Used(heap) : \/ \E x \in Vars : c \in Cell(var[x])
                        \/ \E n \in Names : c \in CellsOf(params[n])

CommandsInv == Typed /\ Sounds /\ Separate /\ NoLeak /\ ParametersKept

\* A Value whose cell a change does not concern.
LEMMA Framed ==
  ASSUME NEW h, NEW g, NEW out, NEW in, Changes(h, g, out, in),
         NEW v, Sound(h, v), Cell(v) \cap out = {}
  PROVE  /\ Sound(g, v) /\ Cell(v) \cap in = {}
         /\ v \in Full => g[v.value_] = h[v.value_]
<1>1. CASE v \in Full
  <2>1. Cell(v) = {v.value_} /\ v.value_ \in Cells /\ h[v.value_] # Free
    BY <1>1 DEF Cell, Full, Sound
  <2>2. v.value_ \in Used(h) \ out
    BY <2>1 DEF Used
  <2>3. g[v.value_] = h[v.value_] /\ v.value_ \notin in
    BY <2>2 DEF Changes
  <2> QED  BY <2>1, <2>3 DEF Sound
<1>2. CASE v \notin Full
  BY <1>2 DEF Sound, Cell
<1> QED  BY <1>1, <1>2

\* A vector of such Values.
LEMMA FramedAll ==
  ASSUME NEW h, NEW g, NEW out, NEW in, Changes(h, g, out, in),
         NEW vs \in Seq(Full), AllSound(h, vs), CellsOf(vs) \cap out = {}
  PROVE  /\ AllSound(g, vs)
         /\ CellsOf(vs) \cap in = {}
         /\ DataOfAll(g, vs) = DataOfAll(h, vs)
<1>1. \A i \in DOMAIN vs : /\ Sound(g, vs[i]) /\ Cell(vs[i]) \cap in = {}
                           /\ vs[i] \in Full /\ g[vs[i].value_] = h[vs[i].value_]
  <2> SUFFICES ASSUME NEW i \in DOMAIN vs
               PROVE  /\ Sound(g, vs[i]) /\ Cell(vs[i]) \cap in = {}
                      /\ vs[i] \in Full /\ g[vs[i].value_] = h[vs[i].value_]
    OBVIOUS
  <2>1. vs[i] \in Full /\ Sound(h, vs[i]) /\ Cell(vs[i]) \cap out = {}
    BY DEF CellsOf, AllSound
  <2> QED  BY <2>1, Framed
<1>2. CellsOf(vs) \cap in = {}
  BY <1>1 DEF CellsOf
<1>3. DataOfAll(g, vs) = DataOfAll(h, vs)
  BY <1>1 DEF DataOfAll, DataOf
<1> QED  BY <1>1, <1>2, <1>3 DEF AllSound

\* One variable of the caller gets another Value, or ends.
LEMMA OneVar ==
  ASSUME CommandsInv, NEW x \in Vars, NEW v \in Value \cup {Unborn},
         Changes(heap, heap', Cell(var[x]), Cell(v)), Sound(heap', v),
         var' = [var EXCEPT ![x] = v], member' \in [Types -> Data],
         UNCHANGED <<commands, params, given>>
  PROVE  CommandsInv'
<1> USE DEF CommandsInv
<1>1. var \in [Vars -> Value \cup {Unborn}] /\ params \in [Names -> Seq(Full)]
  BY DEF Typed
<1>2. var'[x] = v /\ \A y \in Vars : y # x => var'[y] = var[y]
  BY <1>1
<1>3. ASSUME NEW y \in Vars, y # x
      PROVE  Sound(heap', var[y]) /\ Cell(var[y]) \cap Cell(v) = {}
  <2>1. Sound(heap, var[y]) /\ Cell(var[y]) \cap Cell(var[x]) = {}
    BY <1>3 DEF Sounds, Separate
  <2> QED  BY <2>1, Framed
<1>4. ASSUME NEW n \in Names
      PROVE  /\ AllSound(heap', params[n])
             /\ CellsOf(params[n]) \cap Cell(v) = {}
             /\ DataOfAll(heap', params[n]) = DataOfAll(heap, params[n])
  <2>1. /\ params[n] \in Seq(Full)
        /\ AllSound(heap, params[n])
        /\ CellsOf(params[n]) \cap Cell(var[x]) = {}
    BY <1>1 DEF Sounds, Separate
  <2> QED  BY <2>1, FramedAll
<1>5. Typed'
  <2>1. heap' \in Heaps
    BY DEF Changes
  <2>2. var' \in [Vars -> Value \cup {Unborn}]
    BY <1>1
  <2> QED  BY <2>1, <2>2 DEF Typed
<1>6. Sounds'
  BY <1>2, <1>3, <1>4 DEF Sounds
<1>7. Separate'
  <2>1. \A y, z \in Vars : y # z => Cell(var'[y]) \cap Cell(var'[z]) = {}
    BY <1>2, <1>3 DEF Separate
  <2>2. \A y \in Vars, n \in Names : Cell(var'[y]) \cap CellsOf(params[n]) = {}
    BY <1>2, <1>4 DEF Separate
  <2> QED  BY <2>1, <2>2 DEF Separate
<1>8. NoLeak'
  <2> SUFFICES ASSUME NEW c \in Used(heap')
               PROVE  \/ \E y \in Vars : c \in Cell(var'[y])
                      \/ \E n \in Names : c \in CellsOf(params'[n])
    BY DEF NoLeak
  <2>1. CASE c \in Cell(v)
    BY <1>2, <2>1
  <2>2. CASE c \in Used(heap) \ Cell(var[x])
    <3>1. (\E y \in Vars : c \in Cell(var[y])) \/ \E n \in Names : c \in CellsOf(params[n])
      BY <2>2 DEF NoLeak
    <3> QED  BY <1>2, <2>2, <3>1
  <2> QED  BY <2>1, <2>2 DEF Changes
<1>9. ParametersKept'
  BY <1>4 DEF ParametersKept, Acceptable, Holds
<1> QED  BY <1>5, <1>6, <1>7, <1>8, <1>9

----------------------------------------------------------------------------
(* setParameterValues().                                                   *)

\* Every command asks for types that Values have, and returns what it says.
AsksWell(k) ==
  /\ k.args \in Seq(Types)
  /\ k.does = "get" => k.of \in Types
  /\ k.does = "print" => k.of = "STRING"

LEMMA Asks ==
  ASSUME NEW k \in Catalogue
  PROVE  AsksWell(k)
<1> USE DEF Command
<1>1. AsksWell(CommandVoid0) /\ AsksWell(CommandVerbose)
  <2>1. <<>> \in Seq(Types)
    OBVIOUS
  <2> QED  BY <2>1 DEF AsksWell, CommandVoid0, CommandVerbose
<1>2. ASSUME NEW T \in Types
      PROVE  /\ AsksWell(CommandVoid1(T)) /\ AsksWell(DirectSetter(T))
             /\ AsksWell(IntegralSetter(T)) /\ AsksWell(FloatingSetter(T)) /\ AsksWell(ObjectSetter(T))
             /\ AsksWell(Getter(T)) /\ AsksWell(DirectGetter(T))
  <2>1. <<T>> \in Seq(Types) /\ <<>> \in Seq(Types)
    OBVIOUS
  <2>2. /\ AsksWell(CommandVoid1(T)) /\ AsksWell(DirectSetter(T))
        /\ AsksWell(IntegralSetter(T)) /\ AsksWell(FloatingSetter(T)) /\ AsksWell(ObjectSetter(T))
    BY <2>1 DEF AsksWell, CommandVoid1, DirectSetter, IntegralSetter, FloatingSetter, ObjectSetter
  <2>3. AsksWell(Getter(T)) /\ AsksWell(DirectGetter(T))
    BY <2>1 DEF AsksWell, Getter, DirectGetter
  <2> QED  BY <2>2, <2>3
<1>3. ASSUME NEW T \in Types, NEW U \in Types, NEW V \in Types, NEW W \in Types
      PROVE  /\ AsksWell(CommandVoid2(T, U)) /\ AsksWell(CommandVoid3(T, U, V))
             /\ AsksWell(CommandVoid4(T, U, V, W))
  <2>1. <<T, U>> \in Seq(Types) /\ <<T, U, V>> \in Seq(Types) /\ <<T, U, V, W>> \in Seq(Types)
    OBVIOUS
  <2> QED  BY <2>1 DEF AsksWell, CommandVoid2, CommandVoid3, CommandVoid4
<1> HIDE DEF Command
<1>4. \/ k \in {CommandVoid0, CommandVerbose}
      \/ \E T \in Types : k \in {CommandVoid1(T), DirectSetter(T), Getter(T), DirectGetter(T)}
      \/ \E T \in Types : k = IntegralSetter(T) \/ k = FloatingSetter(T) \/ k = ObjectSetter(T)
      \/ \E T, U \in Types : k = CommandVoid2(T, U)
      \/ \E T, U, V \in Types : k = CommandVoid3(T, U, V)
      \/ \E T, U, V, W \in Types : k = CommandVoid4(T, U, V, W)
  <2> DEFINE Ones == UNION {{CommandVoid1(T), DirectSetter(T), Getter(T), DirectGetter(T)} :
                             T \in Types}
             Integral == {IntegralSetter(T) : T \in Types \cap {"BOOL", "UNSIGNED", "INT"}}
             Floating == {FloatingSetter(T) : T \in Types \cap {"FLOAT", "DOUBLE"}}
             Objects == {ObjectSetter(T) : T \in Types \cap {"STRING", "VECTOR", "MATRIX"}}
             Twos == {CommandVoid2(T, U) : T, U \in Types}
             Threes == {CommandVoid3(T, U, V) : T, U, V \in Types}
             Fours == {CommandVoid4(T, U, V, W) : T, U, V, W \in Types}
  <2>1. Catalogue = {CommandVoid0, CommandVerbose} \cup Ones \cup Integral \cup Floating
                      \cup Objects \cup Twos \cup Threes \cup Fours
    BY DEF Catalogue
  <2>2. ASSUME k \in Ones
        PROVE  \E T \in Types : k \in {CommandVoid1(T), DirectSetter(T), Getter(T), DirectGetter(T)}
    BY <2>2
  <2>3. ASSUME k \in Integral \/ k \in Floating \/ k \in Objects
        PROVE  \E T \in Types : k = IntegralSetter(T) \/ k = FloatingSetter(T) \/ k = ObjectSetter(T)
    BY <2>3
  <2>4. ASSUME k \in Twos
        PROVE  \E T, U \in Types : k = CommandVoid2(T, U)
    BY <2>4
  <2>5. ASSUME k \in Threes
        PROVE  \E T, U, V \in Types : k = CommandVoid3(T, U, V)
    BY <2>5
  <2>6. ASSUME k \in Fours
        PROVE  \E T, U, V, W \in Types : k = CommandVoid4(T, U, V, W)
    BY <2>6
  <2> HIDE DEF Ones, Integral, Floating, Objects, Twos, Threes, Fours
  <2>7. \/ k \in {CommandVoid0, CommandVerbose} \/ k \in Ones
        \/ k \in Integral \/ k \in Floating \/ k \in Objects
        \/ k \in Twos \/ k \in Threes \/ k \in Fours
    BY <2>1
  <2> QED  BY <2>2, <2>3, <2>4, <2>5, <2>6, <2>7, Zenon
<1>5. CASE k \in {CommandVoid0, CommandVerbose}
  BY <1>1, <1>5
<1>6. CASE \E T \in Types : k \in {CommandVoid1(T), DirectSetter(T), Getter(T), DirectGetter(T)}
  BY <1>2, <1>6
<1>7. CASE \E T \in Types : k = IntegralSetter(T) \/ k = FloatingSetter(T) \/ k = ObjectSetter(T)
  BY <1>2, <1>7
<1>8. CASE \E T, U \in Types : k = CommandVoid2(T, U)
  BY <1>3, <1>8
<1>9. CASE \E T, U, V \in Types : k = CommandVoid3(T, U, V)
  BY <1>3, <1>9
<1>10. CASE \E T, U, V, W \in Types : k = CommandVoid4(T, U, V, W)
  BY <1>3, <1>10
<1> QED  BY <1>4, <1>5, <1>6, <1>7, <1>8, <1>9, <1>10

LEMMA KnownAsks ==
  ASSUME Typed, NEW n \in Names, Known(n)
  PROVE  /\ commands[n] \in Catalogue /\ commands[n].args \in Seq(Types)
         /\ AsksWell(commands[n])
<1>1. commands[n] \in AnyOffered
  BY DEF Typed, Known
<1>2. commands[n] \in Catalogue
  BY <1>1, CommandsAssumption DEF AnyOffered
<1> QED  BY <1>2, Asks DEF AsksWell

\* A vector at hand that is acceptable can be read, and shares nothing with what the
\* command holds.
LEMMA AtHand ==
  ASSUME CommandsInv, NEW n \in Names, Known(n), NEW ws \in Vectors(n), Acceptable(n, ws)
  PROVE  /\ ws \in Seq(Full) /\ Len(ws) = Len(commands[n].args)
         /\ AllSound(heap, ws) /\ CellsOf(ws) \cap CellsOf(params[n]) = {}
<1> USE DEF CommandsInv
<1>1. params \in [Names -> Seq(Full)] /\ var \in [Vars -> Value \cup {Unborn}]
  BY DEF Typed
<1>2. Len(ws) = Len(commands[n].args)
  BY DEF Acceptable
<1>3. ASSUME NEW m \in Names, m # n, ws = params[m]
      PROVE  /\ ws \in Seq(Full) /\ AllSound(heap, ws)
             /\ CellsOf(ws) \cap CellsOf(params[n]) = {}
  BY <1>1, <1>3 DEF Sounds, Separate
<1>4. ASSUME NEW f \in [1 .. Len(commands[n].args) -> {x \in Vars : Born(x)}],
             ws = [i \in 1 .. Len(commands[n].args) |-> var[f[i]]]
      PROVE  /\ ws \in Seq(Full) /\ AllSound(heap, ws)
             /\ CellsOf(ws) \cap CellsOf(params[n]) = {}
  <2> DEFINE size == Len(commands[n].args)
  <2>1. size \in Nat /\ \A i \in 1 .. size : commands[n].args[i] \in Types
    BY KnownAsks
  <2>2. DOMAIN ws = 1 .. size /\ \A i \in 1 .. size : f[i] \in Vars /\ Born(f[i]) /\ ws[i] = var[f[i]]
    BY <1>4
  <2> HIDE DEF size
  <2>3. ASSUME NEW i \in 1 .. size
        PROVE  ws[i] \in Full
    <3>1. ws[i] \in Value
      BY <1>1, <2>2 DEF Born
    <3>2. ws[i].type_ \in Types
      BY <2>1, <2>2 DEF Acceptable, Holds
    <3>3. None.type_ \notin Types
      BY CommandsAssumption DEF None, TypeIDs
    <3> QED  BY <3>1, <3>2, <3>3, Kinds
  <2>4. ws \in Seq(Full)
    <3>1. ws = [i \in 1 .. size |-> ws[i]]
      BY <1>4, <2>2 DEF size
    <3> QED  BY <2>1, <2>3, <3>1
  <2>5. AllSound(heap, ws)
    BY <2>2 DEF AllSound, Sounds
  <2>6. CellsOf(ws) \cap CellsOf(params[n]) = {}
    <3>1. \A i \in 1 .. size : Cell(ws[i]) \cap CellsOf(params[n]) = {}
      BY <2>2 DEF Separate
    <3>2. CellsOf(ws) = UNION {Cell(ws[i]) : i \in 1 .. size}
      BY <2>2 DEF CellsOf
    <3> HIDE DEF CellsOf
    <3> QED  BY <3>1, <3>2
  <2> QED  BY <2>4, <2>5, <2>6
<1> QED  BY <1>2, <1>3, <1>4 DEF Vectors

\* What can be read of a vector is data.
LEMMA DataRead ==
  ASSUME NEW h \in Heaps, NEW vs \in Seq(Full), AllSound(h, vs)
  PROVE  DataOfAll(h, vs) \in Seq(Data)
<1>1. Len(vs) \in Nat /\ DOMAIN vs = 1 .. Len(vs)
  OBVIOUS
<1>2. ASSUME NEW i \in 1 .. Len(vs)
      PROVE  DataOf(h, vs[i]) \in Data
  <2>1. vs[i] \in Full /\ Sound(h, vs[i])
    BY <1>1 DEF AllSound
  <2>2. h[vs[i].value_] \in Filled
    BY <2>1 DEF Sound, Full, Heaps
  <2> QED  BY <2>2 DEF DataOf, Filled
<1> QED  BY <1>1, <1>2 DEF DataOfAll

\* The vector that is assigned to.
Old(n, ws) == IF params[n] = <<>> THEN [i \in DOMAIN ws |-> None] ELSE params[n]

LEMMA OldCells ==
  ASSUME CommandsInv, NEW n \in Names, Known(n), NEW ws \in Vectors(n), Acceptable(n, ws)
  PROVE  /\ Assignable(heap, Old(n, ws), ws)
         /\ UpToCells(Old(n, ws), Len(Old(n, ws))) = CellsOf(params[n])
<1> USE DEF CommandsInv
<1> DEFINE vs == Old(n, ws)
<1>1. /\ ws \in Seq(Full) /\ Len(ws) = Len(commands[n].args)
      /\ AllSound(heap, ws) /\ CellsOf(ws) \cap CellsOf(params[n]) = {}
  BY AtHand
<1>2. heap \in Heaps /\ params[n] \in Seq(Full) /\ AllSound(heap, params[n]) /\ Apart(params[n])
  BY DEF Typed, Sounds, Separate
<1>3. CASE params[n] = <<>>
  <2>1. vs = [i \in DOMAIN ws |-> None]
    BY <1>3 DEF Old
  <2>2. DOMAIN ws = 1 .. Len(ws) /\ Len(ws) \in Nat
    BY <1>1
  <2>3. /\ vs \in Seq(Value) /\ Len(vs) = Len(ws) /\ DOMAIN vs = DOMAIN ws
        /\ \A i \in DOMAIN vs : vs[i] = None
    BY <2>1, <2>2, Kinds
  <2> HIDE DEF vs
  <2>4. \A i \in DOMAIN vs : Cell(vs[i]) = {} /\ Sound(heap, vs[i])
    BY <2>3, Kinds DEF Cell, Sound
  <2>5. CellsOf(vs) = {} /\ CellsOf(params[n]) = {} /\ UpToCells(vs, Len(vs)) = {}
    BY <1>3, <2>2, <2>3, <2>4 DEF CellsOf, UpToCells
  <2>6. Apart(vs)
    BY <2>4 DEF Apart
  <2>7. Assignable(heap, vs, ws)
    BY <1>1, <1>2, <2>3, <2>4, <2>5, <2>6 DEF Assignable, AllSound
  <2> QED  BY <2>5, <2>7 DEF vs
<1>4. CASE params[n] # <<>>
  <2>1. vs = params[n]
    BY <1>4 DEF Old
  <2>2. Len(vs) = Len(ws)
    BY <1>1, <1>4, <2>1 DEF ParametersKept, Acceptable
  <2>3. vs \in Seq(Full) /\ vs \in Seq(Value)
    BY <1>2, <2>1, Kinds
  <2> HIDE DEF vs
  <2>4. DOMAIN vs = 1 .. Len(vs) /\ DOMAIN ws = DOMAIN vs
    BY <1>1, <2>2, <2>3
  <2>5. UpToCells(vs, Len(vs)) = CellsOf(vs)
    BY <2>4 DEF UpToCells, CellsOf
  <2>6. Assignable(heap, vs, ws)
    BY <1>1, <1>2, <2>1, <2>2, <2>3, <2>4 DEF Assignable, AllSound
  <2> QED  BY <2>1, <2>5, <2>6 DEF vs
<1> QED  BY <1>3, <1>4

LEMMA StoreKeeps ==
  ASSUME ~ IsFiniteSet(Cells), CommandsInv, NEW n \in Names, Known(n),
         NEW ws \in Vectors(n), Acceptable(n, ws), Store(n, ws)
  PROVE  CommandsInv'
<1> USE DEF CommandsInv
<1> DEFINE new == AssignAll(heap, Old(n, ws), ws)
           vs == new.values
<1>1. /\ heap' = new.heap /\ params' = [params EXCEPT ![n] = vs]
      /\ given' = [given EXCEPT ![n] = DataOfAll(heap, ws)]
      /\ UNCHANGED <<var, commands, member>>
  BY DEF Store, Old, CopyAll
<1>2. /\ ws \in Seq(Full) /\ Len(ws) = Len(commands[n].args) /\ AllSound(heap, ws)
  BY AtHand
<1>3. Len(Old(n, ws)) = Len(ws)
  BY OldCells DEF Assignable
<1>4. AssignedTo(heap, Old(n, ws), ws, new, Len(ws))
  BY <1>3, OldCells, AssigningAll
<1>5. /\ vs \in Seq(Full) /\ Len(vs) = Len(ws) /\ Apart(vs)
      /\ Changes(heap, heap', CellsOf(params[n]), CellsOf(vs))
      /\ \A i \in 1 .. Len(ws) : vs[i].type_ = ws[i].type_ /\ heap'[vs[i].value_] = heap[ws[i].value_]
  BY <1>1, <1>3, <1>4, OldCells DEF AssignedTo
<1> HIDE DEF new
<1> HIDE DEF vs
<1>6. DOMAIN vs = 1 .. Len(ws) /\ DOMAIN ws = 1 .. Len(ws)
  BY <1>2, <1>5
<1>7. params \in [Names -> Seq(Full)] /\ params'[n] = vs /\ \A m \in Names : m # n => params'[m] = params[m]
  BY <1>1 DEF Typed
<1>8. AllSound(heap', vs)
  <2> SUFFICES ASSUME NEW i \in 1 .. Len(ws) PROVE Sound(heap', vs[i])
    BY <1>6 DEF AllSound
  <2>1. ws[i] \in Full /\ Sound(heap, ws[i])
    BY <1>2, <1>6 DEF AllSound
  <2> QED  BY <1>5, <2>1 DEF Sound
<1>9. ASSUME NEW x \in Vars
      PROVE  Sound(heap', var[x]) /\ Cell(var[x]) \cap CellsOf(vs) = {}
  <2>1. Sound(heap, var[x]) /\ Cell(var[x]) \cap CellsOf(params[n]) = {}
    BY DEF Sounds, Separate
  <2> QED  BY <1>5, <2>1, Framed
<1>10. ASSUME NEW m \in Names, m # n
       PROVE  /\ AllSound(heap', params[m])
              /\ CellsOf(params[m]) \cap CellsOf(vs) = {}
              /\ DataOfAll(heap', params[m]) = DataOfAll(heap, params[m])
  <2>1. /\ params[m] \in Seq(Full) /\ AllSound(heap, params[m])
        /\ CellsOf(params[m]) \cap CellsOf(params[n]) = {}
    BY <1>7, <1>10 DEF Sounds, Separate
  <2> QED  BY <1>5, <2>1, FramedAll
<1>11. Typed'
  <2>1. heap' \in Heaps
    BY <1>5 DEF Changes
  <2>2. params' \in [Names -> Seq(Full)]
    BY <1>1, <1>5, <1>7
  <2>3. DataOfAll(heap, ws) \in Seq(Data)
    BY <1>2, DataRead DEF Typed
  <2>4. given' \in [Names -> Seq(Data)]
    BY <1>1, <2>3 DEF Typed
  <2> QED  BY <1>1, <2>1, <2>2, <2>4 DEF Typed
<1>12. Sounds'
  BY <1>1, <1>7, <1>8, <1>9, <1>10 DEF Sounds
<1>13. Separate'
  <2>1. \A x, y \in Vars : x # y => Cell(var'[x]) \cap Cell(var'[y]) = {}
    BY <1>1 DEF Separate
  <2>2. \A x \in Vars, m \in Names : Cell(var'[x]) \cap CellsOf(params'[m]) = {}
    BY <1>1, <1>7, <1>9 DEF Separate
  <2>3. \A m, k \in Names : m # k => CellsOf(params'[m]) \cap CellsOf(params'[k]) = {}
    BY <1>7, <1>10 DEF Separate
  <2>4. \A m \in Names : Apart(params'[m])
    BY <1>5, <1>7 DEF Separate
  <2> QED  BY <2>1, <2>2, <2>3, <2>4 DEF Separate
<1>14. NoLeak'
  <2> SUFFICES ASSUME NEW c \in Used(heap')
               PROVE  \/ \E y \in Vars : c \in Cell(var'[y])
                      \/ \E m \in Names : c \in CellsOf(params'[m])
    BY DEF NoLeak
  <2>1. CASE c \in CellsOf(vs)
    BY <1>7, <2>1
  <2>2. CASE c \in Used(heap) \ CellsOf(params[n])
    <3>1. (\E y \in Vars : c \in Cell(var[y])) \/ \E m \in Names : c \in CellsOf(params[m])
      BY <2>2 DEF NoLeak
    <3> QED  BY <1>1, <1>7, <2>2, <3>1
  <2> QED  BY <1>5, <2>1, <2>2 DEF Changes
<1>15. DataOfAll(heap', vs) = DataOfAll(heap, ws)
  BY <1>5, <1>6 DEF DataOfAll, DataOf
<1>16. Acceptable(n, vs)
  BY <1>2, <1>5, <1>6 DEF Acceptable, Holds
<1>17. ParametersKept'
  <2> SUFFICES ASSUME NEW m \in Names
               PROVE  /\ DataOfAll(heap', params'[m]) = given'[m]
                      /\ params'[m] # <<>> => Acceptable(m, params[m])'
    BY DEF ParametersKept
  <2>1. given'[n] = DataOfAll(heap, ws) /\ (m # n => given'[m] = given[m])
    BY <1>1 DEF Typed
  <2>2. CASE m = n
    BY <1>1, <1>7, <1>15, <1>16, <2>1, <2>2 DEF Acceptable, Holds
  <2>3. CASE m # n
    BY <1>1, <1>7, <1>10, <2>1, <2>3 DEF ParametersKept, Acceptable, Holds
  <2> QED  BY <2>2, <2>3
<1> QED  BY <1>11, <1>12, <1>13, <1>14, <1>17

----------------------------------------------------------------------------
(* The other actions.                                                      *)

LEMMA InitKeeps == Init => CommandsInv
<1> SUFFICES ASSUME Init PROVE CommandsInv
  OBVIOUS
<1>1. heap \in [Cells -> {Free} \cup Filled] /\ Used(heap) = {}
  BY DEF Init, Used
<1>2. heap \in Heaps
  BY <1>1, FS_EmptySet DEF Heaps
<1>3. /\ var = [x \in Vars |-> Unborn] /\ params = [n \in Names |-> <<>>]
      /\ given = [n \in Names |-> <<>>] /\ commands = [n \in Names |-> NoCommand]
      /\ member \in [Types -> Data]
  BY DEF Init
<1>4. <<>> \in Seq(Full) /\ <<>> \in Seq(Data) /\ DOMAIN <<>> = {}
  OBVIOUS
<1>5. Typed
  BY <1>2, <1>3, <1>4 DEF Typed
<1>6. \A x \in Vars : Cell(var[x]) = {} /\ Sound(heap, var[x])
  BY <1>3, Kinds DEF Cell, Sound
<1>7. \A n \in Names : CellsOf(params[n]) = {} /\ AllSound(heap, params[n]) /\ Apart(params[n])
  BY <1>3, <1>4 DEF CellsOf, AllSound, Apart
<1>8. Sounds /\ Separate /\ NoLeak
  BY <1>1, <1>6, <1>7 DEF Sounds, Separate, NoLeak
<1>9. ParametersKept
  BY <1>3, <1>4 DEF ParametersKept, DataOfAll
<1> QED  BY <1>5, <1>8, <1>9 DEF CommandsInv

LEMMA ConstructKeeps ==
  ASSUME ~ IsFiniteSet(Cells), CommandsInv, NEW x \in Vars, Construct(x)
  PROVE  CommandsInv'
<1>1. heap \in Heaps /\ var[x] = Unborn /\ Cell(var[x]) = {}
  BY Kinds DEF Construct, Born, Cell, CommandsInv, Typed
<1>2. CASE Make(x, [heap |-> heap, value |-> None])
  <2>1. /\ heap' = heap /\ var' = [var EXCEPT ![x] = None]
        /\ UNCHANGED <<commands, params, member, given>>
    BY <1>2 DEF Make
  <2>2. Cell(None) = {} /\ Sound(heap', None) /\ None \in Value \cup {Unborn}
    BY Kinds DEF Cell, Sound
  <2>3. Changes(heap, heap', Cell(var[x]), Cell(None))
    BY <1>1, <2>1, <2>2 DEF Changes
  <2>4. member' \in [Types -> Data]
    BY <2>1 DEF CommandsInv, Typed
  <2> QED  BY <2>1, <2>2, <2>3, <2>4, OneVar
<1>3. ASSUME NEW T \in Types, NEW d \in Data, Make(x, NewValue(heap, T, d))
      PROVE  CommandsInv'
  <2> DEFINE new == NewValue(heap, T, d)
             v == new.value
  <2>1. /\ heap' = new.heap /\ var' = [var EXCEPT ![x] = v]
        /\ UNCHANGED <<commands, params, member, given>>
    BY <1>3 DEF Make
  <2>2. /\ v \in Full /\ v.type_ = T /\ Changes(heap, new.heap, {}, {v.value_})
        /\ new.heap[v.value_] = [type |-> T, data |-> d]
    BY <1>1, NewIn
  <2> HIDE DEF new
  <2>3. [type |-> T, data |-> d] \in Filled /\ Cell(v) = {v.value_}
    BY <2>2 DEF Filled, Cell
  <2>4. Sound(heap', v) /\ v \in Value \cup {Unborn}
    BY <2>1, <2>2, <2>3, Kinds DEF Sound
  <2>5. Changes(heap, heap', Cell(var[x]), Cell(v))
    BY <1>1, <2>1, <2>2, <2>3
  <2>6. member' \in [Types -> Data]
    BY <2>1 DEF CommandsInv, Typed
  <2> QED  BY <2>1, <2>4, <2>5, <2>6, OneVar
<1> QED  BY <1>2, <1>3 DEF Construct

\* A copy is as sound as what was copied.
LEMMA CopiedSound ==
  ASSUME NEW h, NEW v \in Value, NEW c, Sound(h, v), Copied(h, v, c)
  PROVE  Sound(c.heap, c.value)
BY Kinds DEF Sound, Copied

LEMMA CopyKeeps ==
  ASSUME ~ IsFiniteSet(Cells), CommandsInv, NEW x \in Vars, NEW y \in Vars, CopyConstruct(x, y)
  PROVE  CommandsInv'
<1>1. /\ heap \in Heaps /\ var[x] = Unborn /\ Cell(var[x]) = {}
      /\ var[y] \in Value /\ Sound(heap, var[y])
  BY Kinds DEF CopyConstruct, Born, Cell, CommandsInv, Typed, Sounds
<1> DEFINE c == CopyValue(heap, var[y])
           v == c.value
<1>2. /\ heap' = c.heap /\ var' = [var EXCEPT ![x] = v]
      /\ UNCHANGED <<commands, params, member, given>>
  BY DEF CopyConstruct, Make
<1>3. Changes(heap, c.heap, {}, Cell(v)) /\ Copied(heap, var[y], c)
  BY <1>1, Copying
<1> HIDE DEF c
<1>4. Sound(heap', v) /\ v \in Value \cup {Unborn}
  BY <1>1, <1>2, <1>3, CopiedSound DEF Copied
<1>5. Changes(heap, heap', Cell(var[x]), Cell(v))
  BY <1>1, <1>2, <1>3
<1>6. member' \in [Types -> Data]
  BY <1>2 DEF CommandsInv, Typed
<1> QED  BY <1>2, <1>4, <1>5, <1>6, OneVar

LEMMA AssignKeeps ==
  ASSUME ~ IsFiniteSet(Cells), CommandsInv, NEW x \in Vars, NEW y \in Vars, x # y, Assign(x, y)
  PROVE  CommandsInv'
<1>1. /\ heap \in Heaps /\ var[x] \in Value /\ var[y] \in Value
      /\ Sound(heap, var[y]) /\ Cell(var[x]) \cap Cell(var[y]) = {}
  BY DEF Assign, Born, CommandsInv, Typed, Sounds, Separate
<1> DEFINE c == AssignValue(heap, var[x], var[y])
           v == c.value
<1>2. /\ heap' = c.heap /\ var' = [var EXCEPT ![x] = v]
      /\ UNCHANGED <<commands, params, member, given>>
  BY DEF Assign, Make
<1>3. Changes(heap, c.heap, Cell(var[x]), Cell(v)) /\ Copied(heap, var[y], c)
  BY <1>1, Assigning
<1> HIDE DEF c
<1>4. Sound(heap', v) /\ v \in Value \cup {Unborn}
  BY <1>1, <1>2, <1>3, CopiedSound DEF Copied
<1>5. Changes(heap, heap', Cell(var[x]), Cell(v))
  BY <1>2, <1>3
<1>6. member' \in [Types -> Data]
  BY <1>2 DEF CommandsInv, Typed
<1> QED  BY <1>2, <1>4, <1>5, <1>6, OneVar

LEMMA DestroyKeeps ==
  ASSUME CommandsInv, NEW x \in Vars, Destroy(x)
  PROVE  CommandsInv'
<1>1. heap \in Heaps /\ var[x] \in Value
  BY DEF Destroy, Born, CommandsInv, Typed
<1>2. /\ heap' = DeleteValue(heap, var[x]) /\ var' = [var EXCEPT ![x] = Unborn]
      /\ UNCHANGED <<commands, params, member, given>>
  BY DEF Destroy, Make
<1>3. Cell(Unborn) = {} /\ Sound(heap', Unborn)
  BY Kinds DEF Cell, Sound
<1>4. Changes(heap, heap', Cell(var[x]), Cell(Unborn))
  BY <1>1, <1>2, <1>3, Deleting
<1>5. member' \in [Types -> Data]
  BY <1>2 DEF CommandsInv, Typed
<1> QED  BY <1>2, <1>3, <1>4, <1>5, OneVar

LEMMA AddKeeps ==
  ASSUME CommandsInv, NEW n \in Names, AddCommand(n)
  PROVE  CommandsInv'
<1>1. PICK k \in Offered[n] : commands' = [commands EXCEPT ![n] = k]
  BY DEF AddCommand
<1>2. UNCHANGED <<heap, var, params, member, given>> /\ commands[n] = NoCommand
  BY DEF AddCommand, Known
<1>3. Typed'
  <2>1. k \in AnyOffered
    BY DEF AnyOffered
  <2> QED  BY <1>1, <1>2, <2>1 DEF CommandsInv, Typed
<1>4. Sounds' /\ Separate' /\ NoLeak'
  BY <1>2 DEF CommandsInv, Sounds, Separate, NoLeak
<1>5. params[n] = <<>>
  <2>1. params[n] # <<>> => Len(params[n]) = Len(<<>>)
    BY <1>2 DEF CommandsInv, ParametersKept, Acceptable, NoCommand
  <2>2. params[n] \in Seq(Full)
    BY DEF CommandsInv, Typed
  <2> QED  BY <2>1, <2>2
<1>6. ParametersKept'
  <2> SUFFICES ASSUME NEW m \in Names
               PROVE  /\ DataOfAll(heap', params'[m]) = given'[m]
                      /\ params'[m] # <<>> => Acceptable(m, params[m])'
    BY DEF ParametersKept
  <2>1. m # n => commands'[m] = commands[m]
    BY <1>1 DEF CommandsInv, Typed
  <2> QED  BY <1>2, <1>5, <2>1 DEF CommandsInv, ParametersKept, Acceptable, Holds
<1> QED  BY <1>3, <1>4, <1>6 DEF CommandsInv

\* A bound function is called with what the command holds, ...
LEMMA ArgumentsGiven ==
  ASSUME ~ IsFiniteSet(Cells), CommandsInv, NEW n \in Names
  PROVE  /\ Arguments(n).args = given[n] /\ given[n] \in Seq(Data)
         /\ Len(given[n]) = Len(params[n])
<1>1. heap \in Heaps /\ params[n] \in Seq(Full) /\ AllSound(heap, params[n])
  BY DEF CommandsInv, Typed, Sounds
<1>2. Arguments(n).args = DataOfAll(heap, params[n]) /\ DataOfAll(heap, params[n]) \in Seq(Data)
  BY <1>1, ReadAll DEF AllSound
<1>3. given[n] = DataOfAll(heap, params[n])
  BY DEF CommandsInv, ParametersKept
<1>4. Len(DataOfAll(heap, params[n])) = Len(params[n])
  BY <1>1 DEF DataOfAll
<1> QED  BY <1>2, <1>3, <1>4

\* ... and stores it.
LEMMA StoresGiven ==
  ASSUME ~ IsFiniteSet(Cells), CommandsInv, NEW n \in Names, Known(n),
         Len(params[n]) = Len(commands[n].args), NEW T \in Types
  PROVE  LET k == commands[n]
             at == {i \in DOMAIN k.args : k.args[i] = T}
         IN  at # {} => /\ Max(at) \in DOMAIN k.args /\ k.args[Max(at)] = T
                        /\ given[n] # <<>>
                        /\ Arguments(n).args[Max(at)] = given[n][Max(at)]
                        /\ Arguments(n).args[Max(at)] \in Data
<1> DEFINE k == commands[n]
           at == {i \in DOMAIN k.args : k.args[i] = T}
<1> SUFFICES ASSUME at # {}
             PROVE  /\ Max(at) \in DOMAIN k.args /\ k.args[Max(at)] = T
                    /\ given[n] # <<>>
                    /\ Arguments(n).args[Max(at)] = given[n][Max(at)]
                    /\ Arguments(n).args[Max(at)] \in Data
  OBVIOUS
<1>1. k.args \in Seq(Types)
  BY KnownAsks DEF CommandsInv
<1> HIDE DEF k
<1>2. Len(k.args) \in Nat /\ DOMAIN k.args = 1 .. Len(k.args) /\ at \subseteq 1 .. Len(k.args)
  BY <1>1
<1>3. Max(at) \in at
  <2> HIDE DEF at
  <2> QED  BY <1>2, MaxOf
<1>4. Max(at) \in DOMAIN k.args /\ k.args[Max(at)] = T
  BY <1>3
<1>5. Arguments(n).args = given[n] /\ given[n] \in Seq(Data)
  BY ArgumentsGiven
<1>6. Len(given[n]) = Len(k.args)
  BY ArgumentsGiven DEF k
<1> HIDE DEF at
<1>7. Max(at) \in 1 .. Len(given[n])
  BY <1>2, <1>4, <1>6
<1> QED  BY <1>4, <1>5, <1>7

LEMMA DoExecuteKeeps ==
  ASSUME ~ IsFiniteSet(Cells), CommandsInv, NEW n \in Names, NEW x \in Vars,
         Known(n), ~ Born(x), Len(params[n]) = Len(commands[n].args), DoExecute(n, x)
  PROVE  CommandsInv' /\ CallsAsGiven'
<1> DEFINE k == commands[n]
           at(T) == {i \in DOMAIN k.args : k.args[i] = T}
           Stored == k.does = "set" =>
                       \A T \in Types : at(T) # {} => member'[T] = given[n][Max(at(T))]
<1>1. /\ heap \in Heaps /\ var[x] = Unborn /\ Cell(var[x]) = {} /\ Known(n)
      /\ Len(params[n]) = Len(k.args) /\ UNCHANGED <<commands, params, given>>
      /\ member \in [Types -> Data]
  BY Kinds DEF DoExecute, Born, Cell, CommandsInv, Typed
<1>2. AsksWell(k)
  BY <1>1, KnownAsks DEF CommandsInv
<1>3. ASSUME heap' = Arguments(n).heap, var' = [var EXCEPT ![x] = None],
             member' = [T \in Types |-> IF at(T) = {} THEN member[T]
                                         ELSE Arguments(n).args[Max(at(T))]]
      PROVE  CommandsInv' /\ Stored
  <2>1. heap' = heap
    <3>1. heap \in Heaps /\ params[n] \in Seq(Full) /\ AllSound(heap, params[n])
      BY DEF CommandsInv, Typed, Sounds
    <3> QED  BY <1>3, <3>1, ReadAll DEF AllSound
  <2>2. Cell(None) = {} /\ Sound(heap', None) /\ None \in Value \cup {Unborn}
    BY Kinds DEF Cell, Sound
  <2>3. Changes(heap, heap', Cell(var[x]), Cell(None))
    BY <1>1, <2>1, <2>2 DEF Changes
  <2>4. ASSUME NEW T \in Types
        PROVE  /\ member'[T] \in Data
               /\ at(T) # {} => member'[T] = given[n][Max(at(T))]
    <3>1. member'[T] = IF at(T) = {} THEN member[T] ELSE Arguments(n).args[Max(at(T))]
      BY <1>3
    <3>2. at(T) # {} => /\ Max(at(T)) \in DOMAIN k.args /\ k.args[Max(at(T))] = T
                        /\ given[n] # <<>>
                        /\ Arguments(n).args[Max(at(T))] = given[n][Max(at(T))]
                        /\ Arguments(n).args[Max(at(T))] \in Data
      BY <1>1, StoresGiven
    <3> HIDE DEF at
    <3> QED  BY <1>1, <3>1, <3>2
  <2>5. member' \in [Types -> Data] /\ Stored
    BY <1>3, <2>4
  <2>6. CommandsInv'
    BY <1>1, <1>3, <2>2, <2>3, <2>5, OneVar
  <2> QED  BY <2>5, <2>6
<1>4. ASSUME NEW T \in Types \cup {"STRING"}, NEW d \in Data,
             heap' = NewValue(heap, T, d).heap,
             var' = [var EXCEPT ![x] = NewValue(heap, T, d).value], member' = member,
             k.does # "set"
      PROVE  CommandsInv' /\ Stored
  <2> DEFINE new == NewValue(heap, T, d)
             v == new.value
  <2>1. /\ v \in Full /\ v.type_ = T /\ Changes(heap, new.heap, {}, {v.value_})
        /\ new.heap[v.value_] = [type |-> T, data |-> d]
    <3>1. heap \in Heaps
      BY <1>1
    <3> QED  BY ONLY <3>1, ~ IsFiniteSet(Cells), T \in Types \cup {"STRING"}, d \in Data, NewIn
  <2>2. heap' = new.heap /\ var' = [var EXCEPT ![x] = v]
    BY <1>4
  <2> HIDE DEF new
  <2>3. [type |-> T, data |-> d] \in Filled /\ Cell(v) = {v.value_}
    BY <2>1 DEF Filled, Cell
  <2>4. Sound(heap', v) /\ v \in Value \cup {Unborn}
    BY <2>1, <2>2, <2>3, Kinds DEF Sound
  <2>5. Changes(heap, heap', Cell(var[x]), Cell(v))
    BY <1>1, <2>1, <2>2, <2>3
  <2>6. member' \in [Types -> Data]
    BY <1>1, <1>4
  <2>7. CommandsInv'
    BY <1>1, <2>2, <2>4, <2>5, <2>6, OneVar
  <2> QED  BY <1>4, <2>7
<1>5. \/ /\ heap' = Arguments(n).heap /\ var' = [var EXCEPT ![x] = None]
         /\ member' = [T \in Types |-> IF at(T) = {} THEN member[T]
                                        ELSE Arguments(n).args[Max(at(T))]]
      \/ /\ k.does = "get" /\ heap' = NewValue(heap, k.of, member[k.of]).heap
         /\ var' = [var EXCEPT ![x] = NewValue(heap, k.of, member[k.of]).value]
         /\ member' = member
      \/ /\ k.does = "print"
         /\ \E d \in Data : /\ heap' = NewValue(heap, k.of, d).heap
                            /\ var' = [var EXCEPT ![x] = NewValue(heap, k.of, d).value]
         /\ member' = member
  BY DEF DoExecute
<1>6. ASSUME k.does = "get", heap' = NewValue(heap, k.of, member[k.of]).heap,
             var' = [var EXCEPT ![x] = NewValue(heap, k.of, member[k.of]).value],
             member' = member
      PROVE  CommandsInv' /\ Stored
  <2>1. k.of \in Types /\ member[k.of] \in Data
    BY <1>1, <1>2, <1>6 DEF AsksWell
  <2> QED  BY <1>4, <1>6, <2>1
<1>7. ASSUME k.does = "print", member' = member,
             \E d \in Data : /\ heap' = NewValue(heap, k.of, d).heap
                            /\ var' = [var EXCEPT ![x] = NewValue(heap, k.of, d).value]
      PROVE  CommandsInv' /\ Stored
  <2>1. k.of = "STRING"
    BY <1>2, <1>7 DEF AsksWell
  <2> QED  BY <1>4, <1>7, <2>1
<1>8. CommandsInv' /\ Stored
  BY <1>3, <1>5, <1>6, <1>7
<1>9. call' = [of |-> {n}, args |-> given[n]] /\ Len(given[n]) = Len(k.args)
  BY <1>1, ArgumentsGiven DEF DoExecute
<1>10. ASSUME k.does = "set", NEW i \in DOMAIN k.args,
              \A j \in DOMAIN k.args : k.args[j] = k.args[i] => j <= i
       PROVE  member'[k.args[i]] = given[n][i]
  <2>1. k.args \in Seq(Types) /\ k.args[i] \in Types
    BY <1>1, KnownAsks DEF CommandsInv
  <2> DEFINE m == at(k.args[i])
  <2>2. m \subseteq 1 .. Len(k.args) /\ Len(k.args) \in Nat /\ i \in m
    BY <2>1
  <2>3. Max(m) \in m /\ \A j \in m : j <= Max(m)
    <3> HIDE DEF m
    <3> QED  BY <2>2, MaxOf
  <2>4. \A j \in m : j \in DOMAIN k.args /\ k.args[j] = k.args[i]
    OBVIOUS
  <2>5. Max(m) <= i /\ i <= Max(m) /\ i \in Nat /\ Max(m) \in Nat
    <3>1. Max(m) \in DOMAIN k.args /\ k.args[Max(m)] = k.args[i]
      <4> HIDE DEF m, k
      <4> QED  BY <2>3, <2>4
    <3> HIDE DEF m, k
    <3> QED  BY <1>10, <2>2, <2>3, <3>1
  <2>6. Max(m) = i
    <3> HIDE DEF m
    <3> QED  BY <2>5
  <2> QED  BY <1>8, <1>10, <2>1, <2>2, <2>6
<1>11. CallsAsGiven'
  BY <1>1, <1>9, <1>10 DEF CallsAsGiven
<1> QED  BY <1>8, <1>11

LEMMA DeleteKeeps ==
  ASSUME CommandsInv, DeleteEntity
  PROVE  CommandsInv'
<1> USE DEF CommandsInv
<1> DEFINE vs == UNION {Range(params[n]) : n \in Names}
           Ends(c) == \E n \in Names : c \in CellsOf(params[n])
<1>1. /\ heap' = DeleteAll(heap, vs) /\ commands' = [n \in Names |-> NoCommand]
      /\ params' = [n \in Names |-> <<>>] /\ given' = [n \in Names |-> <<>>]
      /\ member' \in [Types -> Data] /\ var' = var
  BY DEF DeleteEntity
<1>2. /\ heap \in [Cells -> {Free} \cup Filled] /\ IsFiniteSet(Used(heap))
      /\ params \in [Names -> Seq(Full)]
  BY DEF Typed, Heaps
<1>3. ASSUME NEW v \in vs
      PROVE  v \in Full /\ \E n \in Names : v.value_ \in CellsOf(params[n])
  <2>1. PICK n \in Names : v \in Range(params[n])
    OBVIOUS
  <2>2. PICK i \in DOMAIN params[n] : v = params[n][i]
    BY <2>1 DEF Range
  <2>3. v \in Full
    BY <1>2, <2>2
  <2> QED  BY <2>2, <2>3 DEF CellsOf, Cell
<1>4. ASSUME NEW n \in Names, NEW c \in CellsOf(params[n])
      PROVE  \E v \in vs : v \in Full /\ v.value_ = c
  <2>1. PICK i \in DOMAIN params[n] : c \in Cell(params[n][i])
    BY DEF CellsOf
  <2>2. params[n][i] \in Full /\ params[n][i].value_ = c
    BY <1>2, <2>1 DEF Cell
  <2>3. params[n][i] \in vs
    BY <2>1 DEF Range
  <2> QED  BY <2>2, <2>3
<1> HIDE DEF vs
<1>5. ASSUME NEW c \in Cells
      PROVE  heap'[c] = IF Ends(c) THEN Free ELSE heap[c]
  <2>1. heap'[c] = IF \E v \in vs : DeleteValue(heap, v)[c] = Free THEN Free ELSE heap[c]
    BY <1>1 DEF DeleteAll
  <2>2. ASSUME NEW v \in vs
        PROVE  DeleteValue(heap, v)[c] = IF c = v.value_ THEN Free ELSE heap[c]
    <3>1. v \in Full /\ v # None
      BY <1>3, Kinds
    <3> QED  BY <1>2, <3>1 DEF DeleteValue
  <2>3. CASE Ends(c)
    <3>1. PICK v \in vs : v.value_ = c
      BY <1>4, <2>3
    <3> QED  BY <2>1, <2>2, <2>3, <3>1
  <2>4. CASE ~ Ends(c)
    <3>1. \A v \in vs : v.value_ # c
      BY <1>3, <2>4
    <3> QED  BY <2>1, <2>2, <2>4, <3>1
  <2> QED  BY <2>3, <2>4
<1> HIDE DEF Ends
<1>6. heap' \in Heaps /\ \A c \in Used(heap') : c \in Used(heap) /\ ~ Ends(c)
  <2>1. DOMAIN heap' = Cells /\ heap' = [c \in Cells |-> heap'[c]]
    BY <1>1 DEF DeleteAll
  <2>2. heap' \in [Cells -> {Free} \cup Filled]
    BY <1>2, <1>5, <2>1
  <2>3. \A c \in Used(heap') : c \in Used(heap) /\ ~ Ends(c)
    BY <1>5 DEF Used
  <2>4. IsFiniteSet(Used(heap'))
    BY <1>2, <2>3, FS_Subset
  <2> QED  BY <2>2, <2>3, <2>4 DEF Heaps
<1>7. <<>> \in Seq(Full) /\ <<>> \in Seq(Data) /\ DOMAIN <<>> = {}
  OBVIOUS
<1>8. Typed'
  BY <1>1, <1>6, <1>7 DEF Typed
<1>9. ASSUME NEW x \in Vars
      PROVE  Sound(heap', var[x])
  <2>1. Sound(heap, var[x])
    BY DEF Sounds
  <2>2. CASE var[x] \in Full
    <3>1. var[x].value_ \in Cells /\ Cell(var[x]) = {var[x].value_}
      BY <2>2 DEF Full, Cell
    <3>2. ~ Ends(var[x].value_)
      BY <3>1 DEF Ends, Separate
    <3> QED  BY <1>5, <2>1, <3>1, <3>2 DEF Sound
  <2>3. CASE var[x] \notin Full
    BY <2>3 DEF Sound
  <2> QED  BY <2>2, <2>3
<1>10. \A n \in Names : CellsOf(params'[n]) = {} /\ AllSound(heap', params'[n]) /\ Apart(params'[n])
  BY <1>1, <1>7 DEF CellsOf, AllSound, Apart
<1>11. Sounds'
  BY <1>1, <1>9, <1>10 DEF Sounds
<1>12. Separate'
  BY <1>1, <1>10 DEF Separate
<1>13. NoLeak'
  <2> SUFFICES ASSUME NEW c \in Used(heap')
               PROVE  \E y \in Vars : c \in Cell(var'[y])
    BY DEF NoLeak
  <2>1. c \in Used(heap) /\ ~ Ends(c)
    BY <1>6
  <2> QED  BY <1>1, <2>1 DEF NoLeak, Ends
<1>14. ParametersKept'
  BY <1>1, <1>7 DEF ParametersKept, DataOfAll
<1> QED  BY <1>8, <1>11, <1>12, <1>13, <1>14

----------------------------------------------------------------------------
(* Every action, and the theorems.                                         *)

\* What was called last is as good as what commands hold.
CalledInv == CommandsInv /\ crashed \in BOOLEAN /\ CallsAsGiven

\* A step that calls no function.
LEMMA NoneCalled == ASSUME call' = NoCall PROVE CallsAsGiven'
<1>1. call'.of = {}
  BY DEF NoCall
<1> QED  BY <1>1 DEF CallsAsGiven

LEMMA SameObjects ==
  ASSUME CommandsInv, UNCHANGED objects
  PROVE  CommandsInv'
<1>1. UNCHANGED <<heap, var, commands, params, member, given>>
  BY DEF objects
<1> QED
  BY <1>1 DEF CommandsInv, Typed, Sounds, Separate, NoLeak, ParametersKept, Acceptable

LEMMA OtherKeeps ==
  ASSUME ~ IsFiniteSet(Cells), CommandsInv, Other
  PROVE  CommandsInv'
<1>1. ASSUME NEW x \in Vars, NEW y \in Vars, Assign(x, y) PROVE CommandsInv'
  <2>1. CASE x = y
    BY <1>1, <2>1, SameObjects DEF Assign
  <2>2. CASE x # y
    BY <1>1, <2>2, AssignKeeps
  <2> QED  BY <2>1, <2>2
<1>2. ASSUME NEW n \in Names, NEW ws \in Vectors(n), SetParameterValues(n, ws)
      PROVE  CommandsInv'
  <2>1. CASE ~ Acceptable(n, ws)
    BY <1>2, <2>1, SameObjects DEF SetParameterValues
  <2>2. CASE Acceptable(n, ws)
    <3>1. Known(n) /\ Store(n, ws)
      BY <1>2, <2>2 DEF SetParameterValues
    <3> QED  BY <2>2, <3>1, StoreKeeps
  <2> QED  BY <2>1, <2>2
<1> QED
  BY <1>1, <1>2, ConstructKeeps, DestroyKeeps, CopyKeeps, AddKeeps, DeleteKeeps DEF Other

LEMMA NextKeeps ==
  ASSUME ~ IsFiniteSet(Cells), CalledInv, [Next]_vars
  PROVE  CalledInv'
<1>1. CASE ~crashed /\ Other /\ call' = NoCall /\ UNCHANGED crashed
  BY <1>1, OtherKeeps, NoneCalled DEF CalledInv
<1>2. ASSUME NEW n \in Names, NEW x \in Vars, Execute(n, x) PROVE CalledInv'
  <2>1. CASE Len(params[n]) = Len(commands[n].args)
    <3>1. DoExecute(n, x) /\ Known(n) /\ ~ Born(x)
      BY <1>2, <2>1 DEF Execute
    <3>2. crashed' = crashed
      BY <3>1 DEF DoExecute
    <3> QED  BY <2>1, <3>1, <3>2, DoExecuteKeeps DEF CalledInv
  <2>2. CASE Len(params[n]) # Len(commands[n].args)
    <3>1. crashed' = TRUE /\ call' = NoCall /\ UNCHANGED objects
      BY <1>2, <2>2 DEF Execute
    <3> QED  BY <3>1, SameObjects, NoneCalled DEF CalledInv
  <2> QED  BY <2>1, <2>2
<1>3. CASE UNCHANGED vars
  <2>1. UNCHANGED <<objects, call, crashed>>
    BY <1>3 DEF vars
  <2>2. CallsAsGiven'
    BY <2>1 DEF CalledInv, CallsAsGiven, objects
  <2> QED  BY <2>1, <2>2, SameObjects DEF CalledInv
<1> QED  BY <1>1, <1>2, <1>3 DEF Next

LEMMA InvAlways == ASSUME ~ IsFiniteSet(Cells) PROVE Spec => []CalledInv
<1>1. Init => CalledInv
  <2> SUFFICES ASSUME Init PROVE CalledInv
    OBVIOUS
  <2>1. crashed = FALSE /\ call.of = {}
    BY DEF Init, NoCall
  <2> QED  BY <2>1, InitKeeps DEF CalledInv, CallsAsGiven
<1>2. CalledInv /\ [Next]_vars => CalledInv'
  BY NextKeeps
<1> QED  BY <1>1, <1>2, PTL DEF Spec

\* Whatever the caller does with Values and commands, each cell holds data of a type and
\* each Value designates a cell: as long as new succeeds.
THEOREM TypeCorrect == ASSUME ~ IsFiniteSet(Cells) PROVE Spec => []TypeOK
<1>1. CalledInv => TypeOK
  <2> SUFFICES ASSUME CalledInv PROVE TypeOK
    OBVIOUS
  <2>0. CommandsInv /\ crashed \in BOOLEAN
    BY DEF CalledInv
  <2>1. heap \in [Cells -> {Free} \cup [type : Types \cup {"STRING"}, data : Data]]
    BY <2>0 DEF CommandsInv, Typed, Heaps, Filled
  <2>2. /\ var \in [Vars -> Value \cup {Unborn}] /\ member \in [Types -> Data]
        /\ commands \in [Names -> (UNION {Offered[n] : n \in Names}) \cup {NoCommand}]
    BY <2>0 DEF CommandsInv, Typed, AnyOffered
  <2>3. \A n \in Names : \A i \in DOMAIN params[n] : params[n][i] \in Value
    BY <2>0, Kinds DEF CommandsInv, Typed
  <2> QED  BY <2>0, <2>1, <2>2, <2>3 DEF TypeOK
<1> QED  BY <1>1, InvAlways, PTL

\* No cell is shared, freed twice, read after it was freed or lost: for any number of
\* variables, commands and parameters, and Values assigned to themselves, given to
\* commands and returned by them.
THEOREM MemoryExact == ASSUME ~ IsFiniteSet(Cells) PROVE Spec => []OwnershipExact
<1>1. CommandsInv => OwnershipExact
  <2> SUFFICES ASSUME CommandsInv PROVE OwnershipExact
    OBVIOUS
  <2>1. /\ \A x \in Vars : var[x] \in Value \cup {Unborn} /\ Sound(heap, var[x])
        /\ \A n \in Names : params[n] \in Seq(Full) /\ AllSound(heap, params[n])
    BY DEF CommandsInv, Typed, Sounds
  <2>2. ASSUME NEW o \in Owners
        PROVE  \/ \E x \in Vars : o = <<x, 0>> /\ Owned(o) = var[x] /\ var[x] \in Value
               \/ \E n \in Names : \E i \in DOMAIN params[n] :
                    o = <<n, i>> /\ i # 0 /\ Owned(o) = params[n][i] /\ params[n][i] \in Full
    <3>1. CASE \E x \in Vars : Born(x) /\ o = <<x, 0>>
      <4>1. PICK x \in Vars : Born(x) /\ o = <<x, 0>>
        BY <3>1
      <4> QED  BY <2>1, <4>1 DEF Born, Owned
    <3>2. CASE \E n \in Names : \E i \in DOMAIN params[n] : o = <<n, i>>
      <4>0. PICK n \in Names : \E i \in DOMAIN params[n] : o = <<n, i>>
        BY <3>2
      <4>1. PICK i \in DOMAIN params[n] : o = <<n, i>>
        BY <4>0
      <4>2. params[n] \in Seq(Full) /\ i \in 1 .. Len(params[n])
        BY <2>1
      <4>3. i # 0 /\ params[n][i] \in Full
        BY <4>2
      <4> QED  BY <4>1, <4>3 DEF Owned
    <3> QED  BY <3>1, <3>2 DEF Owners
  <2>3. ASSUME NEW o \in Owners
        PROVE  Owned(o) \in Value /\ Sound(heap, Owned(o))
    BY <2>1, <2>2, Kinds DEF AllSound
  <2>4. ASSUME NEW o \in Owners, NEW p \in Owners, o # p
        PROVE  Cell(Owned(o)) \cap Cell(Owned(p)) = {}
    <3>1. ASSUME NEW n \in Names, NEW i \in DOMAIN params[n]
          PROVE  Cell(params[n][i]) \subseteq CellsOf(params[n])
      BY DEF CellsOf
    <3>2. CASE \E x \in Vars : o = <<x, 0>> /\ Owned(o) = var[x]
      BY <2>2, <2>4, <3>1, <3>2 DEF CommandsInv, Separate
    <3>3. CASE \E n \in Names : \E i \in DOMAIN params[n] :
                 o = <<n, i>> /\ i # 0 /\ Owned(o) = params[n][i]
      <4>0. PICK n \in Names : \E i \in DOMAIN params[n] :
              o = <<n, i>> /\ i # 0 /\ Owned(o) = params[n][i]
        BY <3>3
      <4>1. PICK i \in DOMAIN params[n] : o = <<n, i>> /\ i # 0 /\ Owned(o) = params[n][i]
        BY <4>0
      <4>2. CASE \E x \in Vars : p = <<x, 0>> /\ Owned(p) = var[x]
        BY <3>1, <4>1, <4>2 DEF CommandsInv, Separate
      <4>3. CASE \E m \in Names : \E j \in DOMAIN params[m] :
                   p = <<m, j>> /\ Owned(p) = params[m][j]
        <5>0. PICK m \in Names : \E j \in DOMAIN params[m] : p = <<m, j>> /\ Owned(p) = params[m][j]
          BY <4>3
        <5>1. PICK j \in DOMAIN params[m] : p = <<m, j>> /\ Owned(p) = params[m][j]
          BY <5>0
        <5>2. CASE m = n
          BY <2>4, <4>1, <5>1, <5>2 DEF CommandsInv, Separate, Apart
        <5>3. CASE m # n
          BY <3>1, <4>1, <5>1, <5>3 DEF CommandsInv, Separate
        <5> QED  BY <5>2, <5>3
      <4> QED  BY <2>2, <4>2, <4>3
    <3> QED  BY <2>2, <3>2, <3>3
  <2>5. \A o \in Owners : Owned(o) # None => heap[Owned(o).value_].type = Owned(o).type_
    BY <2>3, Kinds DEF Sound
  <2>6. ASSUME NEW o \in Owners, NEW p \in Owners, o # p, Owned(o).value_ = Owned(p).value_
        PROVE  Owned(o) = None
    <3>1. SUFFICES ASSUME Owned(o) \in Full PROVE FALSE
      BY <2>3, Kinds
    <3>2. Owned(p) \in Full
      <4>1. Owned(o).value_ \in Cells
        BY <3>1 DEF Full
      <4>2. Owned(p) # None
        BY <2>6, <4>1, Kinds DEF None
      <4> QED  BY <2>3, <4>2, Kinds
    <3> QED  BY <2>4, <2>6, <3>1, <3>2 DEF Cell
  <2>7. ASSUME NEW c \in Cells, heap[c] # Free
        PROVE  \E o \in Owners : Owned(o).value_ = c
    <3>1. CASE \E x \in Vars : c \in Cell(var[x])
      <4>1. PICK x \in Vars : c \in Cell(var[x])
        BY <3>1
      <4>2. var[x] \in Full /\ var[x].value_ = c
        BY <4>1 DEF Cell
      <4>3. <<x, 0>> \in Owners /\ Owned(<<x, 0>>) = var[x]
        BY <4>2, Kinds DEF Owners, Owned, Born
      <4> QED  BY <4>2, <4>3
    <3>2. CASE \E n \in Names : c \in CellsOf(params[n])
      <4>0. PICK n \in Names : c \in CellsOf(params[n])
        BY <3>2
      <4>1. PICK i \in DOMAIN params[n] : c \in Cell(params[n][i])
        BY <4>0 DEF CellsOf
      <4>2. params[n][i].value_ = c
        BY <4>1 DEF Cell
      <4>3. i # 0
        <5>1. params[n] \in Seq(Full) /\ i \in 1 .. Len(params[n])
          BY <2>1
        <5> QED  BY <5>1
      <4>4. <<n, i>> \in Owners /\ Owned(<<n, i>>) = params[n][i]
        BY <4>3 DEF Owners, Owned
      <4> QED  BY <4>2, <4>4
    <3>3. c \in Used(heap)
      BY <2>7 DEF Used
    <3> QED  BY <3>1, <3>2, <3>3 DEF CommandsInv, NoLeak
  <2> QED  BY <2>5, <2>6, <2>7 DEF OwnershipExact
<1>2. CalledInv => CommandsInv
  BY DEF CalledInv
<1> QED  BY <1>1, <1>2, InvAlways, PTL

\* A command holds what it was last given, of the types it asks for, whatever becomes
\* of the Values it was given and of other commands.
THEOREM GivenKept == ASSUME ~ IsFiniteSet(Cells) PROVE Spec => []ParametersKept
<1>1. CommandsInv => ParametersKept
  BY DEF CommandsInv
<1>2. CalledInv => CommandsInv
  BY DEF CalledInv
<1> QED  BY <1>1, <1>2, InvAlways, PTL

\* The function of a command is called with exactly what that command was last given,
\* each argument in its place: for any number of commands and parameters, and however
\* many calls lie between the two.
THEOREM CalledRight == ASSUME ~ IsFiniteSet(Cells) PROVE Spec => []CallsAsGiven
<1>1. CalledInv => CallsAsGiven
  BY DEF CalledInv
<1> QED  BY <1>1, InvAlways, PTL
=============================================================================
