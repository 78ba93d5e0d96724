------------------------ MODULE ProofDecodingProofs ------------------------
(***************************************************************************)
(* That the length of an audit path tells the number of its nodes, that    *)
(* the path of a transfer leads to the root of its block, and that its     *)
(* fields are read as Poly wrote them; proved for every size of a hash,    *)
(* every base and all blocks.                                              *)
(***************************************************************************)
EXTENDS PolyTree, Induction

-----------------------------------------------------------------------------
(* The number of nodes                                                     *)

(* A quotient is at least q, or below q, when a multiple says so.          *)
LEMMA Quotient ==
    ASSUME NEW a \in Nat, NEW h \in Nat \ {0}, NEW q \in Nat
    PROVE  /\ a \div h \in Nat
           /\ h * q <= a => q <= a \div h
           /\ a < h * (q + 1) => a \div h <= q
<1> DEFINE d == a \div h
<1>1. d \in Nat /\ h * d <= a /\ a < h * (d + 1)
  OBVIOUS
<1> HIDE DEF d
<1>2. ASSUME NEW x \in Nat, NEW y \in Nat, h * x < h * y
      PROVE  x < y
  <2>1. ASSUME y <= x
        PROVE  h * y <= h * x
    BY <2>1
  <2> QED
    BY <1>2, <2>1
<1>3. ASSUME h * q <= a PROVE q <= d
  BY <1>1, <1>2, <1>3
<1>4. ASSUME a < h * (q + 1) PROVE d <= q
  BY <1>1, <1>2, <1>4
<1> QED
  BY <1>1, <1>3, <1>4 DEF d

(* Nodes of h + 1 bytes, counted as if they had h.                         *)
LEMMA NodeCount ==
    ASSUME NEW h \in Nat \ {0}, NEW l \in Nat
    PROVE  /\ ((h + 1) * l) \div h \in Nat
           /\ l <= ((h + 1) * l) \div h
           /\ l < h => ((h + 1) * l) \div h = l
<1>1. (h + 1) * l \in Nat /\ (h + 1) * l = h * l + l
  OBVIOUS
<1>2. h * l <= (h + 1) * l
  BY <1>1
<1>3. l < h => (h + 1) * l < h * (l + 1)
  BY <1>1
<1> QED
  BY <1>1, <1>2, <1>3, Quotient

(* In the loop nothing of the path is passed but the value and i nodes.    *)
PathInv ==
    /\ answer \in Answers
    /\ i \in Nat /\ i <= Len(answer.nodes)
    /\ pc = "loop" => offset = Len(answer.bytes)
    /\ pc = "noNode" => Len(answer.nodes) >= HashSize

LEMMA SizeInLoop ==
    ASSUME PathInv, pc = "loop"
    PROVE  /\ size \in Nat /\ Len(answer.nodes) \in Nat
           /\ Len(answer.nodes) <= size
           /\ Len(answer.nodes) < HashSize => size = Len(answer.nodes)
<1> DEFINE l == Len(answer.nodes)
<1>1. /\ l \in Nat /\ Len(answer.bytes) \in Nat
      /\ HashSize \in Nat \ {0}
  BY AnswerAssumption DEF PathInv
<1>2. PathLength - offset = (HashSize + 1) * l
  <2> DEFINE m == (HashSize + 1) * l
  <2>1. m \in Int /\ PathLength = Len(answer.bytes) + m
    BY <1>1 DEF PathLength
  <2>2. offset = Len(answer.bytes)
    BY DEF PathInv
  <2> HIDE DEF m
  <2>3. PathLength - offset = m
    BY <1>1, <2>1, <2>2
  <2> QED
    BY <2>3 DEF m
<1> QED
  BY <1>1, <1>2, NodeCount DEF size

LEMMA PathStep ==
    ASSUME PathInv, [Next]_vars
    PROVE  PathInv'
<1>1. Len(answer.nodes) \in Nat
  BY AnswerAssumption DEF PathInv
<1>2. CASE ReadValue
  <2>1. ReadVarBytes(answer.bytes, 0).next = Len(answer.bytes)
    BY AnswerAssumption DEF PathInv
  <2> QED
    BY <1>1, <1>2, <2>1 DEF ReadValue, Keep, PathInv
<1>3. CASE ReadNode
  <2>1. CASE i < Len(answer.nodes)
    BY <1>1, <1>3, <2>1 DEF ReadNode, Keep, PathInv
  <2>2. CASE ~(i < Len(answer.nodes))
    <3>1. Len(answer.nodes) >= HashSize
      BY <1>3, <2>2, SizeInLoop, AnswerAssumption DEF ReadNode, PathInv
    <3> QED
      BY <1>3, <2>2, <3>1 DEF ReadNode, Keep, PathInv
  <2> QED
    BY <2>1, <2>2
<1>4. CASE Compare \/ Deserialize \/ CheckContract \/ CheckMethod
  BY <1>4
     DEF Compare, Deserialize, CheckContract, CheckMethod, Keep, PathInv
<1>5. CASE UNCHANGED vars
  BY <1>5 DEF vars, PathInv
<1> QED
  BY <1>2, <1>3, <1>4, <1>5 DEF Next

(* MerkleProve divides the length of the path by the size of a hash though *)
(* a node is a byte longer.  For every size, the loop hashes all the nodes *)
(* and reads behind them only when there are as many as a hash has bytes.  *)
THEOREM NodesCorrect == Spec => []EveryNodeHashed
<1>1. Init => PathInv
  BY AnswerAssumption DEF Init, PathInv
<1>2. PathInv => EveryNodeHashed
  <2> SUFFICES ASSUME PathInv PROVE EveryNodeHashed
    OBVIOUS
  <2>1. ASSUME pc = "loop", i >= size
        PROVE  i = Len(answer.nodes)
    BY <2>1, SizeInLoop DEF PathInv
  <2> QED
    BY <2>1 DEF EveryNodeHashed, PathInv
<1> QED
  BY <1>1, <1>2, PathStep, PTL DEF Spec

-----------------------------------------------------------------------------
(* Numbers and strings                                                     *)

IsRest(f, x, width) ==
    f = [j \in 1..width |-> IF j = 1 THEN x ELSE f[j - 1] \div Base]

LEMMA RestExists ==
    ASSUME NEW x, NEW width \in Nat
    PROVE  \E f : IsRest(f, x, width)
<1> DEFINE A == { n \in Nat : \E f : IsRest(f, x, n) }
<1>1. 0 \in A
  <2>1. IsRest([j \in 1..0 |-> x], x, 0)
    BY DEF IsRest
  <2> QED
    BY <2>1
<1>2. ASSUME NEW n \in Nat, n \in A PROVE n + 1 \in A
  <2>1. PICK f : IsRest(f, x, n)
    BY <1>2
  <2> DEFINE g == [j \in 1..(n + 1) |->
                      IF j = 1 THEN x
                        ELSE IF j = n + 1 THEN f[n] \div Base ELSE f[j]]
  <2>2. \A j \in 1..n : f[j] = IF j = 1 THEN x ELSE f[j - 1] \div Base
    BY <2>1 DEF IsRest
  <2>3. \A j \in 1..n : g[j] = f[j]
    BY <2>2
  <2>4. ASSUME NEW j \in 1..(n + 1)
        PROVE  g[j] = IF j = 1 THEN x ELSE g[j - 1] \div Base
    <3>1. CASE j = 1
      BY <3>1
    <3>2. CASE j # 1 /\ j = n + 1
      <4>1. j - 1 = n /\ n \in 1..n
        BY <3>2
      <4> QED
        BY <2>3, <3>2, <4>1
    <3>3. CASE j # 1 /\ j # n + 1
      <4>1. j \in 1..n /\ j - 1 \in 1..n
        BY <3>3
      <4>2. g[j] = f[j] /\ g[j - 1] = f[j - 1]
        BY <2>3, <4>1
      <4> QED
        BY <2>2, <3>3, <4>1, <4>2
    <3> QED
      BY <3>1, <3>2, <3>3
  <2>5. DOMAIN g = 1..(n + 1) /\ g = [j \in 1..(n + 1) |-> g[j]]
    OBVIOUS
  <2> HIDE DEF g
  <2>6. IsRest(g, x, n + 1)
    BY <2>4, <2>5 DEF IsRest
  <2> QED
    BY <2>6
<1> HIDE DEF A
<1>3. width \in A
  BY <1>1, <1>2, EveryNumber
<1> QED
  BY <1>3 DEF A

(* A number is written with digits, each of a byte.                        *)
LEMMA DigitsType ==
    ASSUME NEW x \in Nat, NEW width \in Nat
    PROVE  /\ Digits(x, width) \in Seq(Byte)
           /\ Len(Digits(x, width)) = width
<1> DEFINE f == CHOOSE g : IsRest(g, x, width)
<1>1. IsRest(f, x, width)
  BY RestExists, Zenon
<1>2. Digits(x, width) = [j \in 1..width |-> f[j] % Base]
  BY Zenon DEF Digits, IsRest
<1> HIDE DEF f
<1>3. \A j \in 1..width : f[j] = IF j = 1 THEN x ELSE f[j - 1] \div Base
  BY <1>1 DEF IsRest
<1> DEFINE A == { n \in Nat : n + 1 \in 1..width => f[n + 1] \in Nat }
<1>4. 0 \in A
  BY <1>3
<1>5. ASSUME NEW n \in Nat, n \in A PROVE n + 1 \in A
  <2> SUFFICES ASSUME n + 2 \in 1..width PROVE f[n + 2] \in Nat
    OBVIOUS
  <2>1. n + 1 \in 1..width /\ n + 2 # 1 /\ (n + 2) - 1 = n + 1
    OBVIOUS
  <2>2. f[n + 2] = f[n + 1] \div Base /\ f[n + 1] \in Nat
    BY <1>3, <1>5, <2>1
  <2> QED
    BY <2>2, BaseAssumption
<1> HIDE DEF A
<1>6. Nat \subseteq A
  BY <1>4, <1>5, EveryNumber
<1>7. ASSUME NEW j \in 1..width PROVE f[j] % Base \in Byte
  <2>1. j - 1 \in A /\ (j - 1) + 1 = j
    BY <1>6
  <2>2. f[j] \in Nat
    BY <2>1 DEF A
  <2> QED
    BY <2>2, BaseAssumption DEF Byte
<1> DEFINE d == [j \in 1..width |-> f[j] % Base]
<1>8. d \in [1..width -> Byte]
  BY <1>7
<1>9. d \in Seq(Byte) /\ Len(d) = width
  <2> HIDE DEF d
  <2> QED
    BY <1>8
<1> QED
  BY <1>2, <1>9

LEMMA Joined ==
    ASSUME NEW e \in Seq(Byte), NEW f \in Seq(Byte)
    PROVE  e \o f \in Seq(Byte) /\ Len(e \o f) = Len(e) + Len(f)
OBVIOUS

(* The bytes e are in the buffer b behind the offset o.                    *)
At(b, o, e) ==
    /\ o + Len(e) <= Len(b)
    /\ \A k \in 1..Len(e) : b[o + k] = e[k]

LEMMA ReadBytesAt ==
    ASSUME NEW b \in Seq(Byte), NEW o \in Nat, NEW e \in Seq(Byte), At(b, o, e)
    PROVE  ReadBytes(b, o, Len(e)) = Reading(e, o + Len(e))
<1>1. o + Len(e) \in Nat /\ Len(e) \in Nat /\ Len(b) \in Nat
  OBVIOUS
<1>2. SubSeq(b, o + 1, o + Len(e)) = e
  <2> DEFINE sub == SubSeq(b, o + 1, o + Len(e))
  <2>1. sub \in Seq(Byte) /\ Len(sub) = Len(e)
    BY <1>1 DEF At
  <2>2. \A k \in 1..Len(e) : sub[k] = e[k]
    BY <1>1 DEF At
  <2> HIDE DEF sub
  <2> QED
    BY <2>1, <2>2 DEF sub
<1>3. ~(o + Len(e) > Len(b))
  BY <1>1 DEF At
<1> QED
  BY <1>2, <1>3, Zenon DEF ReadBytes

(* The parts of what is in a buffer are there one behind the other.        *)
LEMMA AtParts ==
    ASSUME NEW b \in Seq(Byte), NEW o \in Nat,
           NEW e \in Seq(Byte), NEW f \in Seq(Byte), At(b, o, e \o f)
    PROVE  At(b, o, e) /\ At(b, o + Len(e), f)
<1>1. /\ Len(e) \in Nat /\ Len(f) \in Nat /\ Len(b) \in Nat
      /\ Len(e \o f) = Len(e) + Len(f)
  OBVIOUS
<1>2. \A k \in 1..Len(e) : (e \o f)[k] = e[k] /\ k \in 1..Len(e \o f)
  BY <1>1
<1>3. \A k \in 1..Len(f) : /\ (e \o f)[Len(e) + k] = f[k]
                          /\ Len(e) + k \in 1..Len(e \o f)
                          /\ o + (Len(e) + k) = (o + Len(e)) + k
  BY <1>1
<1> HIDE DEF At
<1>4. /\ o + Len(e \o f) <= Len(b)
      /\ \A k \in 1..Len(e \o f) : b[o + k] = (e \o f)[k]
  BY DEF At
<1>5. At(b, o, e)
  BY <1>1, <1>2, <1>4 DEF At
<1>6. At(b, o + Len(e), f)
  <2>1. \A k \in 1..Len(f) : b[(o + Len(e)) + k] = f[k]
    BY <1>3, <1>4
  <2> QED
    BY <1>1, <1>4, <2>1 DEF At
<1> QED
  BY <1>5, <1>6

(* A number is read as it was written, in any of the forms.                *)
LEMMA ReadNumberAt ==
    ASSUME NEW b \in Seq(Byte), NEW o \in Nat, NEW x \in Nat,
           NEW width \in Nat, Fits(x, width), At(b, o, Digits(x, width))
    PROVE  ReadNumber(b, o, width) = Reading(x, o + width)
<1> DEFINE e == Digits(x, width)
<1>1. e \in Seq(Byte) /\ Len(e) = width
  BY DigitsType
<1>2. LittleEndian(e) = x
  BY DEF Fits
<1> HIDE DEF e
<1>3. At(b, o, e)
  BY DEF e
<1>4. ReadBytes(b, o, width) = Reading(e, o + width)
  BY <1>1, <1>3, ReadBytesAt
<1> QED
  BY <1>2, <1>4 DEF ReadNumber, Reading

LEMMA VarUIntForms ==
    ASSUME NEW x \in Nat, Fits(x, 8)
    PROVE  \/ x \in 0..(Base - 4) /\ VarUInt(x) = <<x>>
           \/ \E marker \in (Base - 3)..(Base - 1) :
                  /\ Fits(x, Width[marker])
                  /\ VarUInt(x) = <<marker>> \o Digits(x, Width[marker])
<1>1. /\ Base - 3 \in (Base - 3)..(Base - 1) /\ Base - 2 \in (Base - 3)..(Base - 1)
      /\ Base - 1 \in (Base - 3)..(Base - 1) /\ Base \in Nat
  BY BaseAssumption
<1>2. Width[Base - 3] = 2 /\ Width[Base - 2] = 4 /\ Width[Base - 1] = 8
  BY <1>1 DEF Width
<1>3. CASE x < Base - 3
  BY <1>1, <1>3 DEF VarUInt
<1>4. CASE ~(x < Base - 3) /\ Fits(x, 2)
  <2>1. VarUInt(x) = <<Base - 3>> \o Digits(x, 2)
    BY <1>4, Zenon DEF VarUInt
  <2> QED
    BY <1>1, <1>2, <1>4, <2>1
<1>5. CASE ~(x < Base - 3) /\ ~Fits(x, 2) /\ Fits(x, 4)
  <2>1. VarUInt(x) = <<Base - 2>> \o Digits(x, 4)
    BY <1>5, Zenon DEF VarUInt
  <2> QED
    BY <1>1, <1>2, <1>5, <2>1
<1>6. CASE ~(x < Base - 3) /\ ~Fits(x, 2) /\ ~Fits(x, 4)
  <2>1. VarUInt(x) = <<Base - 1>> \o Digits(x, 8)
    BY <1>6, Zenon DEF VarUInt
  <2> QED
    BY <1>1, <1>2, <2>1
<1> QED
  BY <1>3, <1>4, <1>5, <1>6

LEMMA VarUIntType ==
    ASSUME NEW x \in Nat, Fits(x, 8)
    PROVE  VarUInt(x) \in Seq(Byte)
<1>1. ASSUME NEW m \in Byte PROVE <<m>> \in Seq(Byte)
  OBVIOUS
<1>2. CASE x \in 0..(Base - 4) /\ VarUInt(x) = <<x>>
  BY <1>1, <1>2, BaseAssumption DEF Byte
<1>3. ASSUME NEW m \in (Base - 3)..(Base - 1),
             VarUInt(x) = <<m>> \o Digits(x, Width[m])
      PROVE  VarUInt(x) \in Seq(Byte)
  <2>1. m \in Byte /\ Width[m] \in Nat
    BY BaseAssumption DEF Byte, Width
  <2>2. Digits(x, Width[m]) \in Seq(Byte) /\ <<m>> \in Seq(Byte)
    BY <1>1, <2>1, DigitsType
  <2> QED
    BY <1>3, <2>2
<1> QED
  BY <1>2, <1>3, VarUIntForms

LEMMA ReadVarUIntAt ==
    ASSUME NEW b \in Seq(Byte), NEW o \in Nat, NEW x \in Nat, Fits(x, 8),
           At(b, o, VarUInt(x))
    PROVE  ReadVarUInt(b, o) = Reading(x, o + Len(VarUInt(x)))
<1> DEFINE first == ReadBytes(b, o, 1)
<1>1. ASSUME NEW m \in Byte, At(b, o, <<m>>)
      PROVE  first.ok /\ first.value[1] = m /\ first.next = o + 1
  <2> DEFINE e == <<m>>
  <2>1. e \in Seq(Byte) /\ Len(e) = 1 /\ e[1] = m
    OBVIOUS
  <2> HIDE DEF e
  <2>2. ReadBytes(b, o, 1) = Reading(e, o + 1)
    BY <1>1, <2>1, ReadBytesAt DEF e
  <2> QED
    BY <2>1, <2>2 DEF Reading
<1> HIDE DEF first
<1>2. ReadVarUInt(b, o) =
        IF ~first.ok THEN TooShort
          ELSE IF first.value[1] \in DOMAIN Width
            THEN ReadNumber(b, first.next, Width[first.value[1]])
            ELSE Reading(first.value[1], first.next)
  BY Zenon DEF ReadVarUInt, first
<1>3. DOMAIN Width = (Base - 3)..(Base - 1)
  BY DEF Width
<1>4. CASE x \in 0..(Base - 4) /\ VarUInt(x) = <<x>>
  <2>1. x \in Byte /\ x \notin (Base - 3)..(Base - 1)
    BY <1>4, BaseAssumption DEF Byte
  <2>2. <<x>> \in Seq(Byte) /\ Len(<<x>>) = 1
    BY <2>1
  <2>3. first.ok /\ first.value[1] = x /\ first.next = o + 1
    BY <1>1, <1>4, <2>1
  <2>4. ReadVarUInt(b, o) = Reading(x, o + 1)
    BY <1>2, <1>3, <2>1, <2>3
  <2> QED
    BY <1>4, <2>2, <2>4
<1>5. ASSUME NEW m \in (Base - 3)..(Base - 1), Fits(x, Width[m]),
             VarUInt(x) = <<m>> \o Digits(x, Width[m])
      PROVE  ReadVarUInt(b, o) = Reading(x, o + Len(VarUInt(x)))
  <2> DEFINE w == Width[m]
             d == Digits(x, w)
             e == <<m>>
  <2>1. w \in Nat
    BY BaseAssumption DEF Width
  <2>2. d \in Seq(Byte) /\ Len(d) = w
    <3> HIDE DEF w
    <3> QED
      BY <2>1, DigitsType
  <2>3. m \in Byte /\ e \in Seq(Byte) /\ Len(e) = 1
    BY BaseAssumption DEF Byte
  <2>4. VarUInt(x) = e \o d /\ Fits(x, w) /\ At(b, o, e \o d)
    BY <1>5
  <2> HIDE DEF w, d, e
  <2>5. At(b, o, e) /\ At(b, o + 1, d)
    BY <2>2, <2>3, <2>4, AtParts
  <2>6. first.ok /\ first.value[1] = m /\ first.next = o + 1
    BY <1>1, <2>3, <2>5 DEF e
  <2>7. ReadNumber(b, o + 1, w) = Reading(x, (o + 1) + w)
    <3>1. o + 1 \in Nat /\ At(b, o + 1, Digits(x, w))
      BY <2>5 DEF d
    <3> QED
      BY <2>1, <2>4, <3>1, ReadNumberAt
  <2>8. ReadVarUInt(b, o) = Reading(x, (o + 1) + w)
    BY <1>2, <1>3, <2>6, <2>7 DEF w
  <2>9. Len(e \o d) = Len(e) + Len(d)
    BY <2>2, <2>3, Joined
  <2>10. (o + 1) + w = o + Len(e \o d)
    BY <2>1, <2>2, <2>3, <2>9
  <2> QED
    BY <2>4, <2>8, <2>10
<1> QED
  BY <1>4, <1>5, VarUIntForms

(* And so is a string.                                                     *)
LEMMA ReadVarBytesAt ==
    ASSUME NEW b \in Seq(Byte), NEW o \in Nat, NEW v \in Seq(Byte),
           Fits(Len(v), 8), At(b, o, VarBytes(v))
    PROVE  ReadVarBytes(b, o) = Reading(v, o + Len(VarBytes(v)))
<1> DEFINE u == VarUInt(Len(v))
           p == o + Len(u)
<1>1. Len(v) \in Nat /\ u \in Seq(Byte) /\ Len(u) \in Nat /\ p \in Nat
  <2>1. u \in Seq(Byte)
    BY VarUIntType
  <2> QED
    BY <2>1
<1>2. VarBytes(v) = u \o v /\ Len(u \o v) = Len(u) + Len(v)
  BY <1>1 DEF VarBytes
<1> HIDE DEF u
<1>3. At(b, o, u) /\ At(b, p, v)
  BY <1>1, <1>2, AtParts
<1>4. ReadVarUInt(b, o) = Reading(Len(v), p)
  BY <1>1, <1>3, ReadVarUIntAt DEF u
<1> HIDE DEF p
<1>5. ReadBytes(b, p, Len(v)) = Reading(v, p + Len(v))
  BY <1>1, <1>3, ReadBytesAt
<1>6. ReadVarBytes(b, o) = Reading(v, p + Len(v))
  BY <1>4, <1>5 DEF ReadVarBytes, Reading
<1>7. p + Len(v) = o + Len(u \o v)
  BY <1>1, <1>2 DEF p
<1> QED
  BY <1>2, <1>6, <1>7

-----------------------------------------------------------------------------
(* The fields of a value                                                   *)

IsJoined(f, seqs, n) ==
    f = [k \in 1..n |-> IF k = 1 THEN seqs[k] ELSE f[k - 1] \o seqs[k]]

LEMMA JoinedExists ==
    ASSUME NEW seqs, NEW length \in Nat
    PROVE  \E f : IsJoined(f, seqs, length)
<1> DEFINE A == { n \in Nat : \E f : IsJoined(f, seqs, n) }
<1>1. 0 \in A
  <2>1. IsJoined([k \in 1..0 |-> seqs], seqs, 0)
    BY DEF IsJoined
  <2> QED
    BY <2>1
<1>2. ASSUME NEW n \in Nat, n \in A PROVE n + 1 \in A
  <2>1. PICK f : IsJoined(f, seqs, n)
    BY <1>2
  <2> DEFINE g == [k \in 1..(n + 1) |->
                      IF k = 1 THEN seqs[k]
                        ELSE IF k = n + 1 THEN f[n] \o seqs[k] ELSE f[k]]
  <2>2. \A k \in 1..n : f[k] = IF k = 1 THEN seqs[k] ELSE f[k - 1] \o seqs[k]
    BY <2>1 DEF IsJoined
  <2>3. \A k \in 1..n : g[k] = f[k]
    BY <2>2
  <2>4. ASSUME NEW k \in 1..(n + 1)
        PROVE  g[k] = IF k = 1 THEN seqs[k] ELSE g[k - 1] \o seqs[k]
    <3>1. CASE k = 1
      BY <3>1
    <3>2. CASE k # 1 /\ k = n + 1
      <4>1. k - 1 = n /\ n \in 1..n
        BY <3>2
      <4> QED
        BY <2>3, <3>2, <4>1
    <3>3. CASE k # 1 /\ k # n + 1
      <4>1. k \in 1..n /\ k - 1 \in 1..n
        BY <3>3
      <4>2. g[k] = f[k] /\ g[k - 1] = f[k - 1]
        BY <2>3, <4>1
      <4> QED
        BY <2>2, <3>3, <4>1, <4>2
    <3> QED
      BY <3>1, <3>2, <3>3
  <2>5. DOMAIN g = 1..(n + 1) /\ g = [k \in 1..(n + 1) |-> g[k]]
    OBVIOUS
  <2> HIDE DEF g
  <2>6. IsJoined(g, seqs, n + 1)
    BY <2>4, <2>5 DEF IsJoined
  <2> QED
    BY <2>6
<1> HIDE DEF A
<1>3. length \in A
  BY <1>1, <1>2, EveryNumber
<1> QED
  BY <1>3 DEF A

(* How a field is written.                                                 *)
Part(meant, j) ==
    IF Layout[j] = "uint64" THEN Digits(meant[j], 8) ELSE VarBytes(meant[j])

(* front[j] is the value up to its j-th field.                             *)
IsFront(front, meant) ==
    /\ front \in [0..9 -> Seq(Byte)]
    /\ front[0] = <<>> /\ front[9] = Serialised(meant)
    /\ \A j \in 1..9 : front[j] = front[j - 1] \o Part(meant, j)

LEMMA LayoutFacts == DOMAIN Layout = 1..9 /\ Len(Layout) = 9
BY DEF Layout

LEMMA PartType ==
    ASSUME NEW meant, IsTransfer(meant), NEW j \in 1..9
    PROVE  Part(meant, j) \in Seq(Byte)
<1>1. CASE Layout[j] = "uint64"
  <2>1. meant[j] \in Nat
    BY <1>1, LayoutFacts DEF IsTransfer
  <2> QED
    BY <1>1, <2>1, DigitsType DEF Part
<1>2. CASE Layout[j] # "uint64"
  <2>1. meant[j] \in Seq(Byte) /\ Fits(Len(meant[j]), 8)
    BY <1>2, LayoutFacts DEF IsTransfer
  <2>2. VarUInt(Len(meant[j])) \in Seq(Byte)
    BY <2>1, VarUIntType
  <2> QED
    BY <1>2, <2>1, <2>2, Joined DEF Part, VarBytes
<1> QED
  BY <1>1, <1>2

LEMMA FrontExists ==
    ASSUME NEW meant, IsTransfer(meant)
    PROVE  \E front : IsFront(front, meant)
<1> DEFINE parts == [j \in DOMAIN Layout |-> Part(meant, j)]
           f == CHOOSE g : IsJoined(g, parts, Len(parts))
           front == [j \in 0..9 |-> IF j = 0 THEN <<>> ELSE f[j]]
<1>1. Len(parts) = 9 /\ \A j \in 1..9 : parts[j] = Part(meant, j)
  BY LayoutFacts
<1>2. Serialised(meant) = FlattenSeq(parts)
  BY Zenon DEF Serialised, Part
<1> HIDE DEF parts
<1>3. IsJoined(f, parts, Len(parts))
  BY <1>1, JoinedExists, Zenon
<1>4. FlattenSeq(parts) = f[Len(parts)]
  <2>1. Len(parts) # 0
    BY <1>1
  <2> QED
    BY <2>1, Zenon DEF FlattenSeq, IsJoined
<1> HIDE DEF f
<1>5. \A j \in 1..9 : f[j] = IF j = 1 THEN Part(meant, j)
                            ELSE f[j - 1] \o Part(meant, j)
  BY <1>1, <1>3 DEF IsJoined
<1> DEFINE A == { n \in Nat : n + 1 \in 1..9 => f[n + 1] \in Seq(Byte) }
<1>6. 0 \in A
  <2>1. 1 \in 1..9 /\ f[1] = Part(meant, 1)
    BY <1>5
  <2>2. Part(meant, 1) \in Seq(Byte)
    BY <2>1, PartType
  <2>3. f[0 + 1] \in Seq(Byte)
    BY <2>1, <2>2
  <2> QED
    BY <2>3
<1>7. ASSUME NEW n \in Nat, n \in A PROVE n + 1 \in A
  <2> SUFFICES ASSUME n + 2 \in 1..9 PROVE f[n + 2] \in Seq(Byte)
    OBVIOUS
  <2>1. n + 1 \in 1..9 /\ n + 2 # 1 /\ (n + 2) - 1 = n + 1
    OBVIOUS
  <2>2. f[n + 2] = f[n + 1] \o Part(meant, n + 2) /\ f[n + 1] \in Seq(Byte)
    BY <1>5, <1>7, <2>1
  <2>3. Part(meant, n + 2) \in Seq(Byte)
    BY PartType
  <2> QED
    BY <2>2, <2>3, Joined
<1> HIDE DEF A
<1>8. Nat \subseteq A
  BY <1>6, <1>7, EveryNumber
<1>9. ASSUME NEW j \in 1..9 PROVE f[j] \in Seq(Byte)
  <2>1. j - 1 \in A /\ (j - 1) + 1 = j
    BY <1>8
  <2> QED
    BY <2>1 DEF A
<1>10. front \in [0..9 -> Seq(Byte)]
  BY <1>9
<1>11. front[0] = <<>> /\ front[9] = Serialised(meant)
  BY <1>1, <1>2, <1>4
<1>12. ASSUME NEW j \in 1..9
       PROVE  front[j] = front[j - 1] \o Part(meant, j)
  <2>1. CASE j = 1
    <3>1. front[1] = Part(meant, 1) /\ front[0] = <<>>
      BY <1>5
    <3>2. <<>> \o Part(meant, 1) = Part(meant, 1)
      BY PartType
    <3> QED
      BY <2>1, <3>1, <3>2
  <2>2. CASE j # 1
    <3>1. j - 1 \in 0..9 /\ j - 1 # 0 /\ j \in 0..9 /\ j # 0
      BY <2>2
    <3>2. front[j] = f[j] /\ front[j - 1] = f[j - 1]
      BY <3>1
    <3> QED
      BY <1>5, <2>2, <3>2
  <2> QED
    BY <2>1, <2>2
<1> HIDE DEF front
<1> QED
  BY <1>10, <1>11, <1>12 DEF IsFront

(* Every field lies behind those before it.                                *)
LEMMA FieldsAt ==
    ASSUME NEW meant, IsTransfer(meant), NEW front, IsFront(front, meant),
           NEW j \in 1..9
    PROVE  At(front[9], Len(front[j - 1]), Part(meant, j))
<1> DEFINE b == front[9]
           A == { n \in Nat : n <= 9 => At(b, 0, front[9 - n]) }
<1>1. b \in Seq(Byte) /\ \A k \in 0..9 : front[k] \in Seq(Byte)
  BY DEF IsFront
<1>2. ASSUME NEW k \in 1..9, At(b, 0, front[k])
      PROVE  At(b, 0, front[k - 1]) /\ At(b, Len(front[k - 1]), Part(meant, k))
  <2> DEFINE e == front[k - 1]
             p == Part(meant, k)
  <2>1. front[k] = e \o p /\ e \in Seq(Byte) /\ p \in Seq(Byte)
    <3>1. p \in Seq(Byte)
      BY PartType
    <3>2. k - 1 \in 0..9
      OBVIOUS
    <3> QED
      BY <1>1, <3>1, <3>2 DEF IsFront
  <2>2. At(b, 0, e \o p) /\ 0 \in Nat /\ 0 + Len(e) = Len(e)
    BY <1>2, <2>1
  <2> HIDE DEF b, e, p
  <2>3. At(b, 0, e) /\ At(b, 0 + Len(e), p)
    BY <1>1, <2>1, <2>2, AtParts
  <2>4. At(b, 0, e) /\ At(b, Len(e), p)
    BY <2>2, <2>3
  <2> QED
    BY <2>4 DEF e, p
<1> HIDE DEF b
<1>3. 0 \in A
  <2>1. At(b, 0, b)
    BY <1>1 DEF At
  <2> QED
    BY <2>1 DEF b
<1>4. ASSUME NEW n \in Nat, n \in A PROVE n + 1 \in A
  <2> SUFFICES ASSUME n + 1 <= 9 PROVE At(b, 0, front[9 - (n + 1)])
    OBVIOUS
  <2>1. 9 - n \in 1..9 /\ (9 - n) - 1 = 9 - (n + 1) /\ At(b, 0, front[9 - n])
    BY <1>4
  <2> QED
    BY <1>2, <2>1
<1> HIDE DEF A
<1>5. 9 - j \in A
  BY <1>3, <1>4, EveryNumber
<1>6. At(b, 0, front[j])
  <2>1. 9 - (9 - j) = j /\ 9 - j <= 9
    OBVIOUS
  <2> QED
    BY <1>5, <2>1 DEF A
<1> QED
  BY <1>2, <1>6 DEF b

(* Every field is read as it was written.                                  *)
LEMMA FieldRead ==
    ASSUME NEW meant, IsTransfer(meant), NEW front, IsFront(front, meant),
           NEW j \in 1..9, value = Serialised(meant), offset = Len(front[j - 1])
    PROVE  ReadField(Layout[j]) = Reading(meant[j], Len(front[j]))
<1> DEFINE p == Part(meant, j)
           e == front[j - 1]
<1>1. At(value, offset, p) /\ value \in Seq(Byte)
  <2>1. value = front[9] /\ front[9] \in Seq(Byte)
    BY DEF IsFront
  <2>2. At(front[9], Len(front[j - 1]), Part(meant, j))
    BY FieldsAt
  <2> QED
    BY <2>1, <2>2
<1>2. e \in Seq(Byte) /\ p \in Seq(Byte) /\ front[j] = e \o p
  <2>1. p \in Seq(Byte)
    BY PartType
  <2>2. j - 1 \in 0..9
    OBVIOUS
  <2> QED
    BY <2>1, <2>2 DEF IsFront
<1> HIDE DEF p, e
<1>3. offset \in Nat /\ Len(front[j]) = offset + Len(p)
  BY <1>2, Joined DEF e
<1>4. CASE Layout[j] = "uint64"
  <2>1. meant[j] \in Nat /\ Fits(meant[j], 8)
    BY <1>4, LayoutFacts DEF IsTransfer
  <2>2. p = Digits(meant[j], 8) /\ Len(p) = 8
    BY <1>4, <2>1, DigitsType DEF p, Part
  <2>3. ReadNumber(value, offset, 8) = Reading(meant[j], offset + 8)
    BY <1>1, <1>3, <2>1, <2>2, ReadNumberAt
  <2> QED
    BY <1>3, <1>4, <2>2, <2>3 DEF ReadField
<1>5. CASE Layout[j] # "uint64"
  <2>1. meant[j] \in Seq(Byte) /\ Fits(Len(meant[j]), 8)
    BY <1>5, LayoutFacts DEF IsTransfer
  <2>2. p = VarBytes(meant[j])
    BY <1>5 DEF p, Part
  <2>3. ReadVarBytes(value, offset) = Reading(meant[j], offset + Len(p))
    BY <1>1, <1>3, <2>1, <2>2, ReadVarBytesAt
  <2> QED
    BY <1>3, <1>5, <2>3 DEF ReadField
<1> QED
  BY <1>4, <1>5

-----------------------------------------------------------------------------
(* The way from a leaf to the root                                         *)

LEMMA TupleSame ==
    ASSUME NEW n \in Nat, NEW f, f = [k \in 1..n |-> f[k]]
    PROVE  Tuple(f) = f /\ Len(f) = n /\ \E X : f \in Seq(X)
<1> DEFINE X == { f[k] : k \in 1..n }
<1>1. f \in [1..n -> X]
  OBVIOUS
<1> HIDE DEF X
<1>2. f \in Seq(X) /\ Len(f) = n
  BY <1>1
<1> QED
  BY <1>2 DEF Tuple

LEMMA JoinedAny ==
    ASSUME NEW X, NEW Y, NEW s \in Seq(X), NEW t \in Seq(Y)
    PROVE  /\ s \o t \in Seq(X \cup Y) /\ Len(s \o t) = Len(s) + Len(t)
           /\ \A k \in 1..Len(s) : (s \o t)[k] = s[k]
           /\ \A k \in 1..Len(t) : (s \o t)[Len(s) + k] = t[k]
<1>1. s \in Seq(X \cup Y) /\ t \in Seq(X \cup Y)
  OBVIOUS
<1> QED
  BY <1>1

(* Where the climb starts.                                                 *)
Leaf(leaves, j) ==
    [level |-> Tuple([k \in DOMAIN leaves |-> HashLeaf(leaves[k])]),
     place |-> j, path |-> <<>>]

IsClimb(at, leaves, j, n) ==
    at = [d \in 0..n |-> IF d > 0 THEN Up(at[d - 1]) ELSE Leaf(leaves, j)]

LEMMA ClimbExists ==
    ASSUME NEW leaves, NEW j, NEW height \in Nat
    PROVE  \E at : IsClimb(at, leaves, j, height)
<1> DEFINE A == { n \in Nat : \E at : IsClimb(at, leaves, j, n) }
           leaf == Leaf(leaves, j)
<1>1. 0 \in A
  <2> DEFINE g == [d \in 0..0 |-> leaf]
  <2>1. \A d \in 0..0 : ~(d > 0)
    OBVIOUS
  <2>2. g = [d \in 0..0 |-> IF d > 0 THEN Up(g[d - 1]) ELSE leaf]
    BY <2>1
  <2>3. IsClimb(g, leaves, j, 0)
    BY <2>2 DEF IsClimb
  <2> QED
    BY <2>3
<1>2. ASSUME NEW n \in Nat, n \in A PROVE n + 1 \in A
  <2>1. PICK f : IsClimb(f, leaves, j, n)
    BY <1>2
  <2> DEFINE next == Up(f[n])
             g == [d \in 0..(n + 1) |-> IF d = n + 1 THEN next ELSE f[d]]
  <2> HIDE DEF leaf
  <2>2. \A d \in 0..n : f[d] = IF d > 0 THEN Up(f[d - 1]) ELSE leaf
    BY <2>1 DEF IsClimb, leaf
  <2>3. \A d \in 0..n : g[d] = f[d]
    OBVIOUS
  <2>4. ASSUME NEW d \in 0..(n + 1)
        PROVE  g[d] = IF d > 0 THEN Up(g[d - 1]) ELSE leaf
    <3>1. CASE d = n + 1
      <4>1. d - 1 = n /\ n \in 0..n /\ d > 0
        BY <3>1
      <4>2. g[d] = next /\ g[d - 1] = f[n]
        BY <2>3, <3>1, <4>1
      <4> QED
        BY <4>1, <4>2
    <3>2. CASE d # n + 1
      <4>1. d \in 0..n /\ (d > 0 => d - 1 \in 0..n)
        BY <3>2
      <4>2. g[d] = f[d] /\ (d > 0 => g[d - 1] = f[d - 1])
        BY <2>3, <4>1
      <4> HIDE DEF g
      <4> QED
        BY <2>2, <4>1, <4>2
    <3> QED
      BY <3>1, <3>2
  <2>5. g = [d \in 0..(n + 1) |-> g[d]]
    OBVIOUS
  <2> HIDE DEF g
  <2>6. g = [d \in 0..(n + 1) |-> IF d > 0 THEN Up(g[d - 1]) ELSE leaf]
    BY <2>4, <2>5
  <2>7. IsClimb(g, leaves, j, n + 1)
    BY <2>6, Zenon DEF IsClimb, leaf
  <2> QED
    BY <2>7
<1> HIDE DEF A
<1>3. height \in A
  BY <1>1, <1>2, EveryNumber
<1> QED
  BY <1>3 DEF A

(* What MerkleProve makes of a node.                                       *)
Join(node, v) ==
    IF node.left THEN HashChildren(node.hash, v) ELSE HashChildren(v, node.hash)

(* The hashes on the way along the nodes.                                  *)
IsWalk(h, nodes, v) ==
    /\ h[0] = v
    /\ \A k \in 1..Len(nodes) : h[k] = Join(nodes[k], h[k - 1])

(* The level grows thinner, and the path leads to the place in it.         *)
OnTheWay(s, v, bound) ==
    /\ \E X : s.level \in Seq(X)
    /\ Len(s.level) = 1 \/ (Len(s.level) > 1 /\ Len(s.level) <= bound)
    /\ s.place \in 1..Len(s.level)
    /\ \E X : s.path \in Seq(X)
    /\ \E h : IsWalk(h, s.path, v) /\ h[Len(s.path)] = s.level[s.place]

(* One node more.                                                          *)
LEMMA WalkOn ==
    ASSUME NEW X, NEW path \in Seq(X), NEW node, NEW v, NEW h, IsWalk(h, path, v)
    PROVE  LET longer == path \o <<node>>
           IN  /\ \E Y : longer \in Seq(Y)
               /\ \E g : /\ IsWalk(g, longer, v)
                         /\ g[Len(longer)] = Join(node, h[Len(path)])
<1> DEFINE longer == path \o <<node>>
           n == Len(path)
           last == Join(node, h[n])
           g == [k \in 0..(n + 1) |-> IF k = n + 1 THEN last ELSE h[k]]
<1>1. <<node>> \in Seq({node}) /\ Len(<<node>>) = 1 /\ <<node>>[1] = node
  OBVIOUS
<1>2. /\ longer \in Seq(X \cup {node}) /\ Len(longer) = n + 1 /\ n \in Nat
      /\ \A k \in 1..n : longer[k] = path[k]
      /\ longer[n + 1] = node
  BY <1>1, JoinedAny
<1>3. g[0] = v /\ g[n + 1] = last /\ \A k \in 0..n : g[k] = h[k]
  BY <1>2 DEF IsWalk
<1> HIDE DEF g, longer, n
<1>4. ASSUME NEW k \in 1..(n + 1)
      PROVE  g[k] = Join(longer[k], g[k - 1])
  <2>1. CASE k = n + 1
    <3>1. k - 1 = n /\ n \in 0..n
      BY <1>2, <2>1
    <3> QED
      BY <1>2, <1>3, <2>1, <3>1
  <2>2. CASE k # n + 1
    <3>1. k \in 1..n /\ k \in 0..n /\ k - 1 \in 0..n
      BY <1>2, <2>2
    <3>2. h[k] = Join(path[k], h[k - 1])
      BY <3>1 DEF IsWalk, n
    <3> QED
      BY <1>2, <1>3, <3>1, <3>2
  <2> QED
    BY <2>1, <2>2
<1>5. IsWalk(g, longer, v) /\ g[Len(longer)] = last
  BY <1>2, <1>3, <1>4 DEF IsWalk
<1> QED
  BY <1>2, <1>5 DEF longer, n

LEMMA AboveFacts ==
    ASSUME NEW X, NEW level \in Seq(X), Len(level) > 0
    PROVE  LET n == (Len(level) + 1) \div 2
           IN  /\ Len(Above(level)) = n /\ n \in Nat
               /\ \E Y : Above(level) \in Seq(Y)
               /\ \A k \in 1..n : Above(level)[k] = Parent(level, k)
<1> DEFINE n == (Len(level) + 1) \div 2
           f == [k \in 1..n |-> Parent(level, k)]
<1>1. n \in Nat
  OBVIOUS
<1>2. f = [k \in 1..n |-> f[k]] /\ \A k \in 1..n : f[k] = Parent(level, k)
  OBVIOUS
<1>3. Above(level) = Tuple(f)
  BY DEF Above
<1> HIDE DEF f, n
<1>4. Tuple(f) = f /\ Len(f) = n /\ \E Y : f \in Seq(Y)
  BY <1>1, <1>2, TupleSame
<1> QED
  BY <1>1, <1>2, <1>3, <1>4 DEF n

(* Where the place of the way lies in the level above.                     *)
LEMMA PlaceAbove ==
    ASSUME NEW X, NEW level \in Seq(X), NEW j \in 1..Len(level)
    PROVE  LET k == (j + 1) \div 2
               up == Above(level)
           IN  /\ k \in 1..Len(up)
               /\ j % 2 = 0 => up[k] = HashChildren(level[j - 1], level[j])
               /\ j % 2 # 0 /\ j < Len(level) =>
                      up[k] = HashChildren(level[j], level[j + 1])
               /\ j % 2 # 0 /\ j = Len(level) => up[k] = level[j]
<1> DEFINE k == (j + 1) \div 2
           m == Len(level)
<1>1. m \in Nat /\ j \in 1..m /\ m > 0
  OBVIOUS
<1>2. /\ Len(Above(level)) = (m + 1) \div 2
      /\ \A l \in 1..((m + 1) \div 2) : Above(level)[l] = Parent(level, l)
  BY <1>1, AboveFacts
<1> HIDE DEF m
<1>3. k \in 1..((m + 1) \div 2)
  BY <1>1
<1>4. Above(level)[k] = Parent(level, k)
  BY <1>2, <1>3
<1>5. /\ j % 2 = 0 => 2 * k = j /\ 2 * k - 1 = j - 1
      /\ j % 2 # 0 => 2 * k = j + 1 /\ 2 * k - 1 = j
  BY <1>1
<1> HIDE DEF k
<1>6. ASSUME j % 2 = 0
      PROVE  Above(level)[k] = HashChildren(level[j - 1], level[j])
  <2>1. ~(2 * k > m)
    BY <1>1, <1>5, <1>6
  <2> QED
    BY <1>4, <1>5, <1>6, <2>1, Zenon DEF Parent, m
<1>7. ASSUME j % 2 # 0, j < m
      PROVE  Above(level)[k] = HashChildren(level[j], level[j + 1])
  <2>1. ~(2 * k > m)
    BY <1>1, <1>5, <1>7
  <2> QED
    BY <1>4, <1>5, <1>7, <2>1, Zenon DEF Parent, m
<1>8. ASSUME j % 2 # 0, j = m
      PROVE  Above(level)[k] = level[j]
  <2>1. 2 * k > m
    BY <1>1, <1>5, <1>8
  <2> QED
    BY <1>4, <1>5, <1>8, <2>1, Zenon DEF Parent, m
<1> QED
  BY <1>2, <1>3, <1>6, <1>7, <1>8 DEF k, m

LEMMA UpFacts ==
    ASSUME NEW s
    PROVE  /\ Up(s).level = Above(s.level)
           /\ Up(s).place = (s.place + 1) \div 2
           /\ Up(s).path = s.path \o Sibling(s.level, s.place)
BY DEF Up

LEMMA UpOnTheWay ==
    ASSUME NEW s, NEW v, NEW bound \in Nat, OnTheWay(s, v, bound + 1)
    PROVE  OnTheWay(Up(s), v, bound)
<1> DEFINE level == s.level
           j == s.place
           path == s.path
           up == Above(level)
           k == (j + 1) \div 2
           more == path \o Sibling(level, j)
<1>1. PICK X : level \in Seq(X)
  BY DEF OnTheWay
<1>2. PICK Y : path \in Seq(Y)
  BY DEF OnTheWay
<1>3. PICK h : IsWalk(h, path, v) /\ h[Len(path)] = level[j]
  BY DEF OnTheWay
<1>4. /\ j \in 1..Len(level) /\ Len(level) \in Nat
      /\ Len(level) = 1 \/ (Len(level) > 1 /\ Len(level) <= bound + 1)
  BY <1>1 DEF OnTheWay
<1>5. Up(s).level = up /\ Up(s).place = k /\ Up(s).path = more
  BY UpFacts
<1> HIDE DEF level, j, path
<1>6. /\ \E Z : up \in Seq(Z)
      /\ Len(up) = (Len(level) + 1) \div 2
  BY <1>1, <1>4, AboveFacts
<1>7. Len(up) = 1 \/ (Len(up) > 1 /\ Len(up) <= bound)
  <2> DEFINE m == Len(level)
             l == Len(up)
  <2>1. m \in Nat /\ (m = 1 \/ (m > 1 /\ m <= bound + 1)) /\ l = (m + 1) \div 2
    BY <1>4, <1>6
  <2> HIDE DEF m, l
  <2>2. l \in Nat /\ 2 * l <= m + 1 /\ m <= 2 * l
    BY <2>1
  <2>3. l = 1 \/ (l > 1 /\ l <= bound)
    BY <2>1, <2>2
  <2> QED
    BY <2>3 DEF l
<1>8. /\ k \in 1..Len(up)
      /\ j % 2 = 0 => up[k] = HashChildren(level[j - 1], level[j])
      /\ j % 2 # 0 /\ j < Len(level) =>
             up[k] = HashChildren(level[j], level[j + 1])
      /\ j % 2 # 0 /\ j = Len(level) => up[k] = level[j]
  BY <1>1, <1>4, PlaceAbove
<1> HIDE DEF up, k
<1>9. (\E Z : more \in Seq(Z)) /\ \E g : IsWalk(g, more, v) /\ g[Len(more)] = up[k]
  <2>1. CASE j % 2 = 0
    <3> DEFINE node == [left |-> TRUE, hash |-> level[j - 1]]
    <3>1. Sibling(level, j) = <<node>>
      BY <2>1 DEF Sibling
    <3>2. Join(node, h[Len(path)]) = up[k]
      BY <1>3, <1>8, <2>1 DEF Join
    <3> HIDE DEF node
    <3> QED
      BY <1>2, <1>3, <3>1, <3>2, WalkOn
  <2>2. CASE j % 2 # 0 /\ j < Len(level)
    <3> DEFINE node == [left |-> FALSE, hash |-> level[j + 1]]
    <3>1. Sibling(level, j) = <<node>>
      BY <2>2 DEF Sibling
    <3>2. Join(node, h[Len(path)]) = up[k]
      BY <1>3, <1>8, <2>2 DEF Join
    <3> HIDE DEF node
    <3> QED
      BY <1>2, <1>3, <3>1, <3>2, WalkOn
  <2>3. CASE j % 2 # 0 /\ j = Len(level)
    <3>1. Sibling(level, j) = <<>>
      BY <1>4, <2>3 DEF Sibling
    <3>2. more = path
      BY <1>2, <3>1
    <3>3. h[Len(path)] = up[k]
      BY <1>3, <1>8, <2>3
    <3> HIDE DEF more
    <3> QED
      BY <1>2, <1>3, <3>2, <3>3
  <2>4. j < Len(level) \/ j = Len(level)
    BY <1>4
  <2> QED
    BY <2>1, <2>2, <2>3, <2>4
<1> HIDE DEF more
<1> QED
  BY <1>5, <1>6, <1>7, <1>8, <1>9 DEF OnTheWay

LEMMA ClimbOnTheWay ==
    ASSUME NEW n \in Nat, NEW leaves, Len(leaves) = n, DOMAIN leaves = 1..n,
           NEW j \in 1..n, NEW at, IsClimb(at, leaves, j, n),
           NEW d \in 0..n
    PROVE  OnTheWay(at[d], HashLeaf(leaves[j]), n - d)
<1> DEFINE v == HashLeaf(leaves[j])
           A == { e \in Nat : e <= n => OnTheWay(at[e], v, n - e) }
<1>1. \A e \in 0..n : at[e] = IF e > 0 THEN Up(at[e - 1]) ELSE Leaf(leaves, j)
  BY DEF IsClimb
<1>2. 0 \in A
  <2> DEFINE f == [k \in DOMAIN leaves |-> HashLeaf(leaves[k])]
             s == Leaf(leaves, j)
  <2>1. /\ f = [k \in 1..n |-> f[k]] /\ f[j] = v
    OBVIOUS
  <2> HIDE DEF f, v
  <2>2. Tuple(f) = f /\ Len(f) = n /\ \E X : f \in Seq(X)
    BY <2>1, TupleSame
  <2>3. s.level = f /\ s.place = j /\ s.path = <<>>
    BY <2>2 DEF Leaf, f
  <2> DEFINE h == [k \in 0..0 |-> v]
  <2>4. IsWalk(h, <<>>, v) /\ h[Len(<<>>)] = v
    BY DEF IsWalk
  <2>5. \E X : <<>> \in Seq(X)
    <3>1. <<>> \in Seq({})
      OBVIOUS
    <3> QED
      BY <3>1
  <2> HIDE DEF s, h
  <2>6. OnTheWay(s, v, n - 0)
    BY <2>1, <2>2, <2>3, <2>4, <2>5 DEF OnTheWay
  <2>7. at[0] = s
    BY <1>1 DEF s
  <2> QED
    BY <2>6, <2>7
<1> HIDE DEF v
<1>3. ASSUME NEW e \in Nat, e \in A PROVE e + 1 \in A
  <2> SUFFICES ASSUME e + 1 <= n PROVE OnTheWay(at[e + 1], v, n - (e + 1))
    OBVIOUS
  <2> DEFINE b == n - (e + 1)
  <2>1. b \in Nat /\ n - e = b + 1 /\ e <= n
    OBVIOUS
  <2>2. OnTheWay(at[e], v, b + 1)
    BY <1>3, <2>1
  <2>3. at[e + 1] = Up(at[e])
    <3>1. e + 1 \in 0..n /\ e + 1 > 0 /\ (e + 1) - 1 = e
      OBVIOUS
    <3> QED
      BY <1>1, <3>1
  <2> HIDE DEF b
  <2>4. OnTheWay(Up(at[e]), v, b)
    BY <2>1, <2>2, UpOnTheWay
  <2> QED
    BY <2>3, <2>4 DEF b
<1> HIDE DEF A
<1>4. d \in A
  BY <1>2, <1>3, EveryNumber
<1> QED
  BY <1>4 DEF A, v

(* The climbs from two leaves see the same tree.                           *)
LEMMA SameLevels ==
    ASSUME NEW n \in Nat, NEW leaves, NEW j, NEW k, NEW at, NEW by,
           IsClimb(at, leaves, j, n), IsClimb(by, leaves, k, n)
    PROVE  at[n].level = by[n].level
<1> DEFINE A == { e \in Nat : e <= n => at[e].level = by[e].level }
<1>1. /\ \A e \in 0..n : at[e] = IF e > 0 THEN Up(at[e - 1]) ELSE Leaf(leaves, j)
      /\ \A e \in 0..n : by[e] = IF e > 0 THEN Up(by[e - 1]) ELSE Leaf(leaves, k)
  BY DEF IsClimb
<1>2. 0 \in A
  <2>1. at[0] = Leaf(leaves, j) /\ by[0] = Leaf(leaves, k)
    BY <1>1
  <2>2. Leaf(leaves, j).level = Leaf(leaves, k).level
    BY DEF Leaf
  <2> QED
    BY <2>1, <2>2
<1>3. ASSUME NEW e \in Nat, e \in A PROVE e + 1 \in A
  <2> SUFFICES ASSUME e + 1 <= n PROVE at[e + 1].level = by[e + 1].level
    OBVIOUS
  <2>1. e + 1 \in 0..n /\ e + 1 > 0 /\ (e + 1) - 1 = e /\ e <= n
    OBVIOUS
  <2>2. at[e + 1] = Up(at[e]) /\ by[e + 1] = Up(by[e])
    BY <1>1, <2>1
  <2>3. at[e].level = by[e].level
    BY <1>3, <2>1
  <2> QED
    BY <2>2, <2>3, UpFacts
<1> HIDE DEF A
<1>4. n \in A
  BY <1>2, <1>3, EveryNumber
<1> QED
  BY <1>4 DEF A

-----------------------------------------------------------------------------
(* What Poly answers                                                       *)

(* The hashes from the leaf of the answer to the root of its tree.         *)
IsWayOf(h, ans) ==
    /\ IsWalk(h, ans.nodes, HashLeaf(Serialised(ans.meant)))
    /\ h[Len(ans.nodes)] = ans.tree

LEMMA AnswerFacts ==
    ASSUME NEW ans \in Answers
    PROVE  /\ IsTransfer(ans.meant)
           /\ ans.bytes = VarBytes(Serialised(ans.meant))
           /\ \E h : IsWayOf(h, ans)
<1>1. PICK block \in Blocks : \E j \in DOMAIN block :
          ans = Answer(block, j, ans.root)
  BY PolyAssumption
<1>2. PICK j \in DOMAIN block : ans = Answer(block, j, ans.root)
  BY <1>1
<1> DEFINE n == Len(block)
           f == [k \in DOMAIN block |-> Serialised(block[k])]
           leaves == Leaves(block)
           at == CHOOSE g : IsClimb(g, leaves, j, Len(leaves))
           by == CHOOSE g : IsClimb(g, leaves, 1, Len(leaves))
           v == HashLeaf(Serialised(ans.meant))
<1>3. /\ n \in Nat /\ DOMAIN block = 1..n /\ j \in 1..n /\ 1 \in 1..n
      /\ IsTransfer(block[j])
  BY BlockAssumption
<1>4. /\ ans.meant = block[j]
      /\ ans.bytes = VarBytes(Serialised(block[j]))
      /\ ans.nodes = Climb(leaves, j).path
      /\ ans.tree = Climb(leaves, 1).level[1]
  <2> DEFINE a == Answer(block, j, ans.root)
  <2>1. /\ a.meant = block[j]
        /\ a.bytes = VarBytes(Serialised(block[j]))
        /\ a.nodes = Climb(leaves, j).path
        /\ a.tree = Climb(leaves, 1).level[1]
    BY DEF Answer, RootOf
  <2>2. ans = a
    BY <1>2
  <2> HIDE DEF a
  <2> QED
    BY <2>1, <2>2
<1>5. leaves = f /\ Len(leaves) = n /\ DOMAIN leaves = 1..n /\ leaves[j] = Serialised(ans.meant)
  <2>1. f = [k \in 1..n |-> f[k]] /\ f[j] = Serialised(block[j]) /\ DOMAIN f = 1..n
    BY <1>3
  <2>2. leaves = Tuple(f)
    BY DEF Leaves
  <2> HIDE DEF f, leaves
  <2>3. Tuple(f) = f /\ Len(f) = n
    BY <1>3, <2>1, TupleSame
  <2> QED
    BY <1>4, <2>1, <2>2, <2>3
<1> HIDE DEF f, leaves
<1>6. IsClimb(at, leaves, j, n) /\ IsClimb(by, leaves, 1, n)
  <2>1. /\ \E g : IsClimb(g, leaves, j, Len(leaves))
        /\ \E g : IsClimb(g, leaves, 1, Len(leaves))
    BY <1>3, <1>5, ClimbExists
  <2>2. IsClimb(at, leaves, j, Len(leaves)) /\ IsClimb(by, leaves, 1, Len(leaves))
    BY <2>1, Zenon
  <2> QED
    BY <1>5, <2>2
<1>7. Climb(leaves, j) = at[n] /\ Climb(leaves, 1) = by[n]
  <2>1. Climb(leaves, j) = at[Len(leaves)] /\ Climb(leaves, 1) = by[Len(leaves)]
    BY Zenon DEF Climb, IsClimb, Leaf
  <2> QED
    BY <1>5, <2>1
<1> HIDE DEF at, by, n, v
<1>8. at[n].level = by[n].level
  BY <1>3, <1>6, SameLevels
<1>9. OnTheWay(at[n], v, 0)
  <2>1. n \in 0..n /\ n - n = 0
    BY <1>3
  <2>2. OnTheWay(at[n], HashLeaf(leaves[j]), n - n)
    BY <1>3, <1>5, <1>6, <2>1, ClimbOnTheWay
  <2> QED
    BY <1>5, <2>1, <2>2 DEF v
<1>10. at[n].place = 1
  BY <1>9 DEF OnTheWay
<1>11. \E h : IsWalk(h, ans.nodes, v) /\ h[Len(ans.nodes)] = ans.tree
  BY <1>4, <1>7, <1>8, <1>9, <1>10 DEF OnTheWay
<1> QED
  BY <1>3, <1>4, <1>11 DEF v, IsWayOf

LEMMA ValueFacts ==
    ASSUME NEW ans \in Answers
    PROVE  /\ \E front : IsFront(front, ans.meant)
           /\ Serialised(ans.meant) \in Seq(Byte)
           /\ ReadVarBytes(ans.bytes, 0) =
                  Reading(Serialised(ans.meant), Len(ans.bytes))
<1> DEFINE m == ans.meant
           v == Serialised(m)
           b == ans.bytes
<1>1. IsTransfer(m) /\ b = VarBytes(v)
  BY AnswerFacts
<1>2. PICK front : IsFront(front, m)
  BY <1>1, FrontExists
<1>3. v \in Seq(Byte) /\ Fits(Len(v), 8)
  BY <1>1, <1>2 DEF IsFront, IsTransfer
<1> HIDE DEF m, v, b
<1>4. VarUInt(Len(v)) \in Seq(Byte)
  BY <1>3, VarUIntType
<1>5. b \in Seq(Byte)
  BY <1>1, <1>3, <1>4, Joined DEF VarBytes
<1>6. At(b, 0, VarBytes(v))
  BY <1>1, <1>5 DEF At
<1>7. ReadVarBytes(b, 0) = Reading(v, 0 + Len(b))
  BY <1>1, <1>3, <1>5, <1>6, ReadVarBytesAt
<1>8. 0 + Len(b) = Len(b)
  BY <1>5
<1> QED
  BY <1>2, <1>3, <1>7, <1>8 DEF m, v, b

-----------------------------------------------------------------------------
(* The steps                                                               *)

Meant == answer.meant

Way == CHOOSE h : IsWayOf(h, answer)

FrontRead == CHOOSE front : IsFront(front, Meant)

Written == { Meant[j] : j \in 1..9 }

Served == RtonContract \in {NoContract, Meant[ToContract]}

Unlocks == Meant[Method] = Unlock

FieldsInv ==
    /\ fields \in Seq(Written) /\ Len(fields) <= 9
    /\ \A j \in 1..Len(fields) : fields[j] = Meant[j]
    /\ pc = "fields" => Len(fields) < 9 /\ offset = Len(FrontRead[Len(fields)])
    /\ pc = "parsed" => Len(fields) = 9 /\ offset = Len(value)

HashInv ==
    /\ pc = "loop" => hash = Way[i]
    /\ pc \in {"loop", "fields", "parsed"} => value = Serialised(Meant)
    /\ pc \in {"fields", "parsed"} => Genuine
    /\ pc = "mismatch" => ~Genuine
    /\ pc # "noBytes"

VerdictInv ==
    /\ ~checked => RtonContract # NoContract
    /\ checked /\ pc # "skipped" => Served
    /\ pc = "skipped" => Genuine /\ ~Served
    /\ pc = "relayed" => checked /\ Genuine /\ Unlocks
    /\ pc = "invalid" => checked /\ Genuine /\ ~Unlocks

DecodeInv == PathInv /\ FieldsInv /\ HashInv /\ VerdictInv

LEMMA NowFacts ==
    ASSUME PathInv
    PROVE  /\ IsTransfer(Meant) /\ IsFront(FrontRead, Meant) /\ IsWayOf(Way, answer)
<1>1. answer \in Answers
  BY DEF PathInv
<1>2. IsTransfer(Meant) /\ \E h : IsWayOf(h, answer)
  BY <1>1, AnswerFacts DEF Meant
<1>3. \E front : IsFront(front, Meant)
  BY <1>1, ValueFacts DEF Meant
<1> QED
  BY <1>2, <1>3, Zenon DEF Way, FrontRead

(* What the steps leave alone.                                             *)
LEMMA KeepFacts ==
    ASSUME Keep
    PROVE  /\ answer' = answer /\ RtonContract' = RtonContract
           /\ Meant' = Meant /\ Way' = Way /\ FrontRead' = FrontRead
           /\ Written' = Written /\ Served' = Served /\ Unlocks' = Unlocks
           /\ Genuine' = Genuine
<1>1. answer' = answer /\ RtonContract' = RtonContract
  BY DEF Keep
<1>2. Meant' = Meant /\ Way' = Way /\ Genuine' = Genuine
  BY <1>1 DEF Meant, Way, Genuine
<1>3. FrontRead' = FrontRead /\ Written' = Written
  BY <1>2 DEF FrontRead, Written
<1> QED
  BY <1>1, <1>2, <1>3 DEF Served, Unlocks

LEMMA ReadValueDecodes ==
    ASSUME DecodeInv, ReadValue
    PROVE  FieldsInv' /\ HashInv' /\ VerdictInv'
<1>1. PathInv /\ FieldsInv /\ HashInv /\ VerdictInv
  BY DEF DecodeInv
<1>2. Keep /\ pc = "value" /\ UNCHANGED <<checked, fields>> /\ i' = 0
  BY DEF ReadValue
<1>3. ReadVarBytes(answer.bytes, 0) = Reading(Serialised(Meant), Len(answer.bytes))
  BY <1>1, ValueFacts DEF PathInv, Meant
<1>4. pc' = "loop" /\ value' = Serialised(Meant) /\ hash' = HashLeaf(Serialised(Meant))
  BY <1>3 DEF ReadValue, Reading
<1>5. Way[0] = HashLeaf(Serialised(Meant))
  BY <1>1, NowFacts DEF IsWayOf, IsWalk, Meant
<1>6. FieldsInv'
  BY <1>1, <1>2, <1>4, KeepFacts DEF FieldsInv
<1>7. HashInv'
  BY <1>1, <1>2, <1>4, <1>5, KeepFacts DEF HashInv
<1>8. VerdictInv'
  BY <1>1, <1>2, <1>4, KeepFacts DEF VerdictInv
<1> QED
  BY <1>6, <1>7, <1>8

LEMMA ReadNodeDecodes ==
    ASSUME DecodeInv, ReadNode
    PROVE  FieldsInv' /\ HashInv' /\ VerdictInv'
<1>1. PathInv /\ FieldsInv /\ HashInv /\ VerdictInv
  BY DEF DecodeInv
<1>2. Keep /\ pc = "loop" /\ UNCHANGED <<checked, value, offset, fields>>
  BY DEF ReadNode
<1>3. CASE i < Len(answer.nodes)
  <2>1. i' = i + 1 /\ pc' = "loop" /\ hash' = Combine(answer.nodes[i + 1])
    BY <1>3 DEF ReadNode
  <2>2. i + 1 \in 1..Len(answer.nodes) /\ (i + 1) - 1 = i
    BY <1>1, <1>3, AnswerAssumption DEF PathInv
  <2>3. Way[i + 1] = Join(answer.nodes[i + 1], Way[i])
    BY <1>1, <2>2, NowFacts DEF IsWayOf, IsWalk
  <2>4. hash' = Way[i + 1]
    BY <1>1, <1>2, <2>1, <2>3 DEF HashInv, Combine, Join
  <2> QED
    BY <1>1, <1>2, <2>1, <2>4, KeepFacts DEF FieldsInv, HashInv, VerdictInv
<1>4. CASE ~(i < Len(answer.nodes))
  <2>1. pc' = "noNode"
    BY <1>4 DEF ReadNode
  <2> QED
    BY <1>1, <1>2, <2>1, KeepFacts DEF FieldsInv, HashInv, VerdictInv
<1> QED
  BY <1>3, <1>4

LEMMA CompareDecodes ==
    ASSUME DecodeInv, Compare
    PROVE  FieldsInv' /\ HashInv' /\ VerdictInv'
<1>1. PathInv /\ FieldsInv /\ HashInv /\ VerdictInv
  BY DEF DecodeInv
<1>2. /\ Keep /\ pc = "loop" /\ i >= size /\ UNCHANGED <<checked, hash, i, value>>
      /\ offset' = 0 /\ fields' = <<>>
      /\ pc' = IF hash = answer.root THEN "fields" ELSE "mismatch"
  BY DEF Compare
<1>3. i = Len(answer.nodes)
  BY <1>1, <1>2, SizeInLoop DEF PathInv
<1>4. hash = answer.tree
  BY <1>1, <1>2, <1>3, NowFacts DEF HashInv, IsWayOf
<1>5. Genuine <=> hash = answer.root
  BY <1>4 DEF Genuine
<1>6. Len(FrontRead[0]) = 0
  BY <1>1, NowFacts DEF IsFront
<1>7. /\ <<>> \in Seq(Written) /\ Len(<<>>) = 0
  OBVIOUS
<1>8. FieldsInv'
  BY <1>2, <1>6, <1>7, KeepFacts DEF FieldsInv
<1>9. HashInv'
  BY <1>1, <1>2, <1>5, KeepFacts DEF HashInv
<1>10. VerdictInv'
  BY <1>1, <1>2, KeepFacts DEF VerdictInv
<1> QED
  BY <1>8, <1>9, <1>10

LEMMA DeserializeDecodes ==
    ASSUME DecodeInv, Deserialize
    PROVE  FieldsInv' /\ HashInv' /\ VerdictInv'
<1> DEFINE n == Len(fields)
           j == n + 1
<1>1. PathInv /\ FieldsInv /\ HashInv /\ VerdictInv
  BY DEF DecodeInv
<1>2. Keep /\ pc = "fields" /\ UNCHANGED <<checked, hash, i, value>>
  BY DEF Deserialize
<1>3. /\ n \in Nat /\ j \in 1..9 /\ j - 1 = n
      /\ value = Serialised(Meant) /\ offset = Len(FrontRead[j - 1])
  BY <1>1, <1>2 DEF FieldsInv, HashInv
<1>4. ReadField(Layout[j]) = Reading(Meant[j], Len(FrontRead[j]))
  <2> HIDE DEF j
  <2> QED
    BY <1>1, <1>3, NowFacts, FieldRead
<1>5. /\ fields' = Append(fields, Meant[j]) /\ offset' = Len(FrontRead[j])
      /\ pc' = IF j = 9 THEN "parsed" ELSE "fields"
  BY <1>4, LayoutFacts DEF Deserialize, Reading
<1>6. Meant[j] \in Written
  BY <1>3 DEF Written
<1>7. /\ fields' \in Seq(Written) /\ Len(fields') = j
      /\ \A k \in 1..j : fields'[k] = Meant[k]
  <2>1. fields \in Seq(Written) /\ \A k \in 1..n : fields[k] = Meant[k]
    BY <1>1 DEF FieldsInv
  <2> QED
    BY <1>5, <1>6, <2>1
<1>8. FrontRead[9] = value
  BY <1>1, <1>3, NowFacts DEF IsFront
<1> HIDE DEF n, j
<1>9. FieldsInv'
  BY <1>2, <1>3, <1>5, <1>7, <1>8, KeepFacts DEF FieldsInv
<1>10. HashInv'
  BY <1>1, <1>2, <1>5, KeepFacts DEF HashInv
<1>11. VerdictInv'
  BY <1>1, <1>2, <1>5, KeepFacts DEF VerdictInv
<1> QED
  BY <1>9, <1>10, <1>11

LEMMA CheckDecodes ==
    ASSUME DecodeInv, CheckContract \/ CheckMethod
    PROVE  FieldsInv' /\ HashInv' /\ VerdictInv'
<1>1. PathInv /\ FieldsInv /\ HashInv /\ VerdictInv
  BY DEF DecodeInv
<1>2. Keep /\ pc = "parsed" /\ UNCHANGED <<hash, i, value, offset, fields>>
  BY DEF CheckContract, CheckMethod
<1>3. fields[ToContract] = Meant[ToContract] /\ fields[Method] = Meant[Method]
  <2>1. Len(fields) = 9
    BY <1>1, <1>2 DEF FieldsInv
  <2>2. 7 \in 1..Len(fields) /\ 8 \in 1..Len(fields)
    BY <2>1
  <2>3. fields[7] = Meant[7] /\ fields[8] = Meant[8]
    BY <1>1, <2>2 DEF FieldsInv
  <2> QED
    BY <2>3 DEF ToContract, Method
<1>4. pc' \in {"value", "skipped", "relayed", "invalid"}
  BY DEF CheckContract, CheckMethod
<1>5. FieldsInv' /\ HashInv'
  BY <1>1, <1>2, <1>4, KeepFacts DEF FieldsInv, HashInv
<1>6. Genuine
  BY <1>1, <1>2 DEF HashInv
<1>7. CASE CheckContract
  <2>1. /\ ~checked /\ checked' = TRUE /\ RtonContract # NoContract
        /\ pc' = IF Meant[ToContract] = RtonContract THEN "value" ELSE "skipped"
    BY <1>1, <1>3, <1>7 DEF CheckContract, VerdictInv
  <2>2. pc' = "value" => Served
    BY <2>1 DEF Served
  <2>3. pc' = "skipped" => ~Served
    BY <2>1 DEF Served
  <2> QED
    BY <1>2, <1>4, <1>5, <1>6, <2>1, <2>2, <2>3, KeepFacts DEF VerdictInv
<1>8. CASE CheckMethod
  <2>1. /\ checked /\ checked' = checked
        /\ pc' = IF Meant[Method] = Unlock THEN "relayed" ELSE "invalid"
    BY <1>3, <1>8 DEF CheckMethod
  <2>2. Served
    BY <1>1, <1>2, <2>1 DEF VerdictInv
  <2> QED
    BY <1>2, <1>4, <1>5, <1>6, <2>1, <2>2, KeepFacts DEF VerdictInv, Unlocks
<1> QED
  BY <1>5, <1>7, <1>8

LEMMA DecodeStep ==
    ASSUME DecodeInv, [Next]_vars
    PROVE  DecodeInv'
<1>1. PathInv'
  BY PathStep DEF DecodeInv
<1>2. CASE UNCHANGED vars
  <2>1. Keep /\ UNCHANGED <<pc, checked, hash, i, value, offset, fields>>
    BY <1>2 DEF vars, Keep
  <2>2. FieldsInv' /\ HashInv' /\ VerdictInv'
    BY <2>1, KeepFacts DEF DecodeInv, FieldsInv, HashInv, VerdictInv
  <2> QED
    BY <1>1, <2>2 DEF DecodeInv
<1>3. CASE Next
  BY <1>1, <1>3, ReadValueDecodes, ReadNodeDecodes, CompareDecodes,
     DeserializeDecodes, CheckDecodes DEF Next, DecodeInv
<1> QED
  BY <1>2, <1>3

LEMMA DecodeAlways == Spec => []DecodeInv
<1>1. Init => DecodeInv
  <2> SUFFICES ASSUME Init PROVE DecodeInv
    OBVIOUS
  <2>1. PathInv
    BY AnswerAssumption DEF Init, PathInv
  <2>2. fields \in Seq(Written) /\ Len(fields) = 0
    BY DEF Init
  <2>3. FieldsInv /\ HashInv
    BY <2>2 DEF Init, FieldsInv, HashInv
  <2>4. pc = "value" /\ (checked <=> RtonContract = NoContract)
    BY Zenon DEF Init
  <2>5. VerdictInv
    BY <2>4 DEF VerdictInv, Served
  <2> QED
    BY <2>1, <2>3, <2>5 DEF DecodeInv
<1> QED
  BY <1>1, DecodeStep, PTL DEF Spec

(* A genuine proof is refused only when its path has as many nodes as a    *)
(* hash has bytes.                                                         *)
THEOREM RefusalsJustified == Spec => []RefusedForCause
<1>1. DecodeInv => RefusedForCause
  BY DEF DecodeInv, PathInv, HashInv, RefusedForCause
<1> QED
  BY <1>1, DecodeAlways, PTL

(* A transfer is relayed, skipped or refused as its contract and method    *)
(* tell, and only when its block has the root of the header.               *)
THEOREM VerdictsRight == Spec => []RightVerdict
<1>1. DecodeInv => RightVerdict
  BY DEF DecodeInv, VerdictInv, RightVerdict, Served, Unlocks, Meant
<1> QED
  BY <1>1, DecodeAlways, PTL

(* The nine fields are read as Poly wrote them, whatever their lengths.    *)
THEOREM FieldsRead == Spec => []FieldsFaithful
<1>1. DecodeInv => FieldsFaithful
  <2> SUFFICES ASSUME DecodeInv PROVE FieldsFaithful
    OBVIOUS
  <2>1. fields \in Seq(Written) /\ \A j \in 1..Len(fields) : fields[j] = answer.meant[j]
    BY DEF DecodeInv, FieldsInv, Meant
  <2>2. DOMAIN fields = 1..Len(fields)
    BY <2>1
  <2> QED
    BY <2>1, <2>2 DEF DecodeInv, FieldsInv, FieldsFaithful
<1> QED
  BY <1>1, DecodeAlways, PTL

=============================================================================
