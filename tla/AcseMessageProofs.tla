-------------------------- MODULE AcseMessageProofs --------------------------
(***************************************************************************)
(* What the operators of AcseMessage compute, for every message: sums of     *)
(* lengths, and which element a reader finds in a message put together from  *)
(* parts.                                                                   *)
(*                                                                         *)
(* The library's theorems of induction take a predicate as a parameter.  A   *)
(* set serves as well: what holds of 0, and of n + 1 when of n, is every     *)
(* natural number.                                                          *)
(***************************************************************************)
EXTENDS AcseFormat, SequenceTheorems, WellFoundedInduction, TLAPS

\* A set of natural numbers that is not empty has a least one.
LEMMA LeastNumber ==
    ASSUME NEW S, S \subseteq Nat, S # {}
    PROVE  \E x \in S : \A y \in S : x <= y
<1> DEFINE Before == {p \in Nat \X Nat : p[1] < p[2]}
<1>1. IsWellFoundedOn(Before, Nat)
    BY NatLessThanWellFounded DEF OpToRel
<1> HIDE DEF Before
<1>2. PICK x \in S : \A y \in S : <<y, x>> \notin Before
    BY <1>1, WFMin
<1>3. \A y \in S : ~(y < x)
    BY <1>2 DEF Before
<1> QED
    BY <1>2, <1>3

\* Induction over the natural numbers, for a set.
LEMMA Induction ==
    ASSUME NEW S, 0 \in S, \A n \in Nat : n \in S => n + 1 \in S
    PROVE  Nat \subseteq S
<1>1. SUFFICES ASSUME Nat \ S # {} PROVE FALSE
    OBVIOUS
<1>2. PICK x \in Nat \ S : \A y \in Nat \ S : x <= y
    BY <1>1, LeastNumber
<1>3. x - 1 \in Nat \ S
    BY <1>2
<1> QED
    BY <1>2, <1>3

-----------------------------------------------------------------------------
(* Sums *)

\* The function that Total unfolds, up to k.
AddsUp(sum, numbers, k) ==
    sum = [n \in 0..k |-> IF n = 0 THEN 0 ELSE sum[n - 1] + numbers[n]]

\* The sums of the first k numbers exist, by induction on k.
LEMMA SumsExist ==
    ASSUME NEW numbers, NEW k \in Nat
    PROVE  \E sum : AddsUp(sum, numbers, k)
<1> DEFINE S == {i \in Nat : \E sum : AddsUp(sum, numbers, i)}
<1>1. 0 \in S
    <2>1. AddsUp([n \in 0..0 |-> 0], numbers, 0)
        BY DEF AddsUp
    <2> QED
        BY <2>1
<1>2. ASSUME NEW i \in Nat, i \in S PROVE i + 1 \in S
    <2>1. PICK sum : AddsUp(sum, numbers, i)
        BY <1>2
    <2> DEFINE next == [n \in 0..(i + 1) |-> IF n <= i THEN sum[n] ELSE sum[i] + numbers[n]]
    <2>2. \A n \in 0..i : sum[n] = IF n = 0 THEN 0 ELSE sum[n - 1] + numbers[n]
        BY <2>1 DEF AddsUp
    <2>3. \A n \in 0..(i + 1) : next[n] = IF n = 0 THEN 0 ELSE next[n - 1] + numbers[n]
        BY <2>2
    <2>4. AddsUp(next, numbers, i + 1)
        BY <2>3 DEF AddsUp
    <2> QED
        BY <2>4
<1> HIDE DEF S
<1>3. Nat \subseteq S
    BY <1>1, <1>2, Induction
<1> QED
    BY <1>3 DEF S

\* Total is the last value of such a function.
LEMMA TotalAddsUp ==
    ASSUME NEW numbers, Len(numbers) \in Nat
    PROVE  \E sum : AddsUp(sum, numbers, Len(numbers)) /\ Total(numbers) = sum[Len(numbers)]
<1> DEFINE sum == CHOOSE f : AddsUp(f, numbers, Len(numbers))
<1>1. AddsUp(sum, numbers, Len(numbers))
    BY SumsExist
<1>2. Total(numbers) = sum[Len(numbers)]
    BY DEF Total, AddsUp
<1> QED
    BY <1>1, <1>2

\* Two lists of numbers are the same up to k.
SameUpTo(a, b, k) == \A i \in 1..k : a[i] \in Nat /\ a[i] = b[i]

\* Then so are the sums over them, which are natural numbers.
LEMMA SumsAgree ==
    ASSUME NEW a, NEW b, NEW k \in Nat, NEW l \in Nat, k <= l, SameUpTo(a, b, k),
           NEW f, NEW g, AddsUp(f, a, k), AddsUp(g, b, l)
    PROVE  f[k] = g[k] /\ f[k] \in Nat
<1> DEFINE S == {i \in Nat : i <= k => f[i] = g[i] /\ f[i] \in Nat}
<1>1. 0 \in S
    BY DEF AddsUp
<1>2. ASSUME NEW i \in Nat, i \in S PROVE i + 1 \in S
    <2>1. SUFFICES ASSUME i + 1 <= k PROVE f[i + 1] = g[i + 1] /\ f[i + 1] \in Nat
        OBVIOUS
    <2>2. f[i] = g[i] /\ f[i] \in Nat
        BY <1>2, <2>1
    <2>3. f[i + 1] = f[i] + a[i + 1] /\ g[i + 1] = g[i] + b[i + 1]
        <3>1. i + 1 \in 0..k /\ i + 1 \in 0..l /\ i + 1 # 0 /\ (i + 1) - 1 = i
            BY <2>1
        <3> QED
            BY <3>1 DEF AddsUp
    <2>4. a[i + 1] \in Nat /\ a[i + 1] = b[i + 1]
        BY <2>1 DEF SameUpTo
    <2> QED
        BY <2>2, <2>3, <2>4
<1> HIDE DEF S
<1>3. Nat \subseteq S
    BY <1>1, <1>2, Induction
<1> QED
    BY <1>3 DEF S

\* The total of a list of numbers is a number.
LEMMA TotalIsNatural ==
    ASSUME NEW numbers \in Seq(Nat)
    PROVE  Total(numbers) \in Nat
<1>1. Len(numbers) \in Nat /\ SameUpTo(numbers, numbers, Len(numbers))
    BY DEF SameUpTo
<1>2. PICK sum : AddsUp(sum, numbers, Len(numbers)) /\ Total(numbers) = sum[Len(numbers)]
    BY <1>1, TotalAddsUp
<1>3. Len(numbers) <= Len(numbers)
    BY <1>1
<1> QED
    BY <1>1, <1>2, <1>3, SumsAgree

\* Nothing adds up to 0.
LEMMA TotalOfNothing == Total(<<>>) = 0
<1>1. Len(<<>>) = 0
    OBVIOUS
<1>2. PICK sum : AddsUp(sum, <<>>, 0) /\ Total(<<>>) = sum[0]
    BY <1>1, TotalAddsUp
<1> QED
    BY <1>2 DEF AddsUp

\* One more number is added to the total.
LEMMA TotalOfAppend ==
    ASSUME NEW numbers \in Seq(Nat), NEW x \in Nat
    PROVE  Total(Append(numbers, x)) = Total(numbers) + x
<1> DEFINE more == Append(numbers, x)
           k    == Len(numbers)
<1>1. /\ k \in Nat /\ k + 1 \in Nat /\ k <= k + 1 /\ Len(more) = k + 1
      /\ more[k + 1] = x
    OBVIOUS
<1>2. SameUpTo(numbers, more, k)
    BY DEF SameUpTo
<1> HIDE DEF more, k
<1>3. PICK f : AddsUp(f, numbers, k) /\ Total(numbers) = f[k]
    BY <1>1, TotalAddsUp DEF k
<1>4. PICK g : AddsUp(g, more, k + 1) /\ Total(more) = g[k + 1]
    BY <1>1, TotalAddsUp
<1>5. f[k] = g[k]
    BY <1>1, <1>2, <1>3, <1>4, SumsAgree
<1>6. g[k + 1] = g[k] + x
    <2>1. k + 1 \in 0..(k + 1) /\ k + 1 # 0 /\ (k + 1) - 1 = k
        BY <1>1
    <2> QED
        BY <1>1, <1>4, <2>1 DEF AddsUp
<1> QED
    BY <1>3, <1>4, <1>5, <1>6 DEF more

\* Sequences of the same length and members are the same.
LEMMA SameSequence ==
    ASSUME NEW E, NEW s \in Seq(E), NEW t \in Seq(E),
           Len(s) = Len(t), \A i \in 1..Len(s) : s[i] = t[i]
    PROVE  s = t
OBVIOUS

\* The sum over two sequences is that of their sums.
LEMMA TotalOfConcat ==
    ASSUME NEW a \in Seq(Nat), NEW b \in Seq(Nat)
    PROVE  Total(a \o b) = Total(a) + Total(b)
<1> DEFINE c == a \o b
           k == Len(a)
           l == Len(b)
<1>1. k \in Nat /\ l \in Nat /\ k + l \in Nat /\ k <= k + l /\ Len(c) = k + l
    OBVIOUS
<1>2. SameUpTo(a, c, k) /\ SameUpTo(b, b, l)
    BY DEF SameUpTo
<1>3. \A i \in 1..l : c[k + i] = b[i]
    OBVIOUS
<1> HIDE DEF c, k, l
<1>4. PICK f : AddsUp(f, a, k) /\ Total(a) = f[k]
    BY <1>1, TotalAddsUp DEF k
<1>5. PICK g : AddsUp(g, b, l) /\ Total(b) = g[l]
    BY <1>1, TotalAddsUp DEF l
<1>6. PICK h : AddsUp(h, c, k + l) /\ Total(c) = h[k + l]
    BY <1>1, TotalAddsUp
<1>7. f[k] = h[k] /\ f[k] \in Nat
    BY <1>1, <1>2, <1>4, <1>6, SumsAgree
<1> DEFINE S == {i \in Nat : i <= l => g[i] \in Nat /\ h[k + i] = f[k] + g[i]}
<1>8. 0 \in S
    BY <1>1, <1>5, <1>7 DEF AddsUp
<1>9. ASSUME NEW i \in Nat, i \in S PROVE i + 1 \in S
    <2>1. SUFFICES ASSUME i + 1 <= l PROVE g[i + 1] \in Nat /\ h[k + (i + 1)] = f[k] + g[i + 1]
        OBVIOUS
    <2>2. g[i] \in Nat /\ h[k + i] = f[k] + g[i]
        BY <1>1, <1>9, <2>1
    <2>3. /\ i + 1 \in 0..l /\ i + 1 # 0 /\ (i + 1) - 1 = i
          /\ k + (i + 1) \in 0..(k + l) /\ k + (i + 1) # 0 /\ (k + (i + 1)) - 1 = k + i
        BY <1>1, <2>1
    <2>4. g[i + 1] = g[i] + b[i + 1] /\ h[k + (i + 1)] = h[k + i] + c[k + (i + 1)]
        BY <1>5, <1>6, <2>3 DEF AddsUp
    <2>5. b[i + 1] \in Nat /\ c[k + (i + 1)] = b[i + 1]
        <3>1. i + 1 \in 1..l
            BY <1>1, <2>1
        <3> QED
            BY <1>2, <1>3, <3>1 DEF SameUpTo
    <2> QED
        BY <1>7, <2>2, <2>4, <2>5
<1> HIDE DEF S
<1>10. l \in S
    BY <1>1, <1>8, <1>9, Induction
<1> QED
    BY <1>1, <1>4, <1>5, <1>6, <1>10 DEF S, c

-----------------------------------------------------------------------------
(* Lengths *)

\* A list of elements.
IsElement(e) == e = Element(e.tag, e.length, e.value) /\ e.length \in Nat

IsList(s) == \E E : s \in Seq(E) /\ \A e \in E : IsElement(e)

\* An element takes two to four bytes more than its content.
LEMMA EncodedIsNatural ==
    ASSUME NEW n \in Nat
    PROVE  /\ SizeOfLength(n) \in 1..3
           /\ Encoded(n) \in Nat /\ n + 2 <= Encoded(n) /\ Encoded(n) <= n + 4
           /\ n < 128 => Encoded(n) = n + 2
BY DEF SizeOfLength, Encoded

\* The lengths of the elements of a list.
LEMMA ListHasLengths ==
    ASSUME NEW s, IsList(s)
    PROVE  /\ Len(s) \in Nat
           /\ \A i \in 1..Len(s) : IsElement(s[i]) /\ s[i].length \in Nat
           /\ [i \in 1..Len(s) |-> Encoded(s[i].length)] \in Seq(Nat)
<1>1. PICK E : s \in Seq(E) /\ \A e \in E : IsElement(e)
    BY DEF IsList
<1>2. Len(s) \in Nat /\ \A i \in 1..Len(s) : IsElement(s[i]) /\ s[i].length \in Nat
    BY <1>1 DEF IsElement
<1>3. \A i \in 1..Len(s) : Encoded(s[i].length) \in Nat
    BY <1>2, EncodedIsNatural
<1> QED
    BY <1>2, <1>3

\* A list has a length.
LEMMA LengthIsNatural ==
    ASSUME NEW s, IsList(s)
    PROVE  LengthOf(s) \in Nat
BY ListHasLengths, TotalIsNatural DEF LengthOf

\* The length of two lists is the sum of theirs.
LEMMA ListsConcat ==
    ASSUME NEW s, NEW t, IsList(s), IsList(t)
    PROVE  IsList(s \o t) /\ LengthOf(s \o t) = LengthOf(s) + LengthOf(t)
<1>1. PICK E : s \in Seq(E) /\ \A e \in E : IsElement(e)
    BY DEF IsList
<1>2. PICK F : t \in Seq(F) /\ \A e \in F : IsElement(e)
    BY DEF IsList
<1>3. s \o t \in Seq(E \cup F)
    BY <1>1, <1>2
<1>4. IsList(s \o t)
    BY <1>1, <1>2, <1>3 DEF IsList
<1> DEFINE a == [i \in 1..Len(s) |-> Encoded(s[i].length)]
           b == [i \in 1..Len(t) |-> Encoded(t[i].length)]
           c == [i \in 1..Len(s \o t) |-> Encoded((s \o t)[i].length)]
<1>5. a \in Seq(Nat) /\ b \in Seq(Nat) /\ c \in Seq(Nat)
    BY <1>4, ListHasLengths
<1>6. Len(a) = Len(s) /\ Len(b) = Len(t) /\ Len(c) = Len(s) + Len(t)
    BY <1>1, <1>2
<1>7. \A i \in 1..(Len(s) + Len(t)) : c[i] = (a \o b)[i]
    BY <1>1, <1>2, <1>5, <1>6
<1>8. c = a \o b
    <2>1. a \o b \in Seq(Nat) /\ Len(a \o b) = Len(s) + Len(t)
        BY <1>5, <1>6
    <2> HIDE DEF a, b, c
    <2> QED
        BY <1>5, <1>6, <1>7, <2>1, SameSequence
<1>9. LengthOf(s) = Total(a) /\ LengthOf(t) = Total(b) /\ LengthOf(s \o t) = Total(c)
    BY DEF LengthOf
<1> HIDE DEF a, b, c
<1> QED
    BY <1>4, <1>5, <1>8, <1>9, TotalOfConcat

\* A sequence of elements is a list.
LEMMA SequenceOfElements ==
    ASSUME NEW E, \A e \in E : IsElement(e), NEW s, s \in Seq(E)
    PROVE  IsList(s)
BY DEF IsList

\* The empty list.
LEMMA EmptyList == IsList(<<>>) /\ LengthOf(<<>>) = 0
<1>1. <<>> \in Seq({})
    OBVIOUS
<1>2. [i \in 1..Len(<<>>) |-> Encoded(<<>>[i].length)] = <<>>
    OBVIOUS
<1>3. IsList(<<>>)
    <2>1. \A e \in {} : IsElement(e)
        OBVIOUS
    <2> QED
        BY <1>1, <2>1, SequenceOfElements
<1>4. LengthOf(<<>>) = Total(<<>>)
    BY <1>2 DEF LengthOf
<1> QED
    BY <1>3, <1>4, TotalOfNothing

\* A list of one element.
LEMMA ListOfOne ==
    ASSUME NEW e, IsElement(e)
    PROVE  IsList(<<e>>) /\ LengthOf(<<e>>) = Encoded(e.length)
<1>1. <<e>> \in Seq({e})
    OBVIOUS
<1>2. [i \in 1..Len(<<e>>) |-> Encoded(<<e>>[i].length)] = Append(<<>>, Encoded(e.length))
    OBVIOUS
<1>3. Encoded(e.length) \in Nat
    BY EncodedIsNatural DEF IsElement
<1>4. Total(Append(<<>>, Encoded(e.length))) = 0 + Encoded(e.length)
    <2>1. <<>> \in Seq(Nat)
        OBVIOUS
    <2> QED
        BY <1>3, <2>1, TotalOfAppend, TotalOfNothing
<1>5. LengthOf(<<e>>) = Encoded(e.length)
    BY <1>2, <1>3, <1>4 DEF LengthOf
<1>6. IsList(<<e>>)
    <2>1. \A x \in {e} : IsElement(x)
        OBVIOUS
    <2> HIDE DEF IsList
    <2> DEFINE E == {e}
    <2>2. <<e>> \in Seq(E) /\ \A x \in E : IsElement(x)
        BY <1>1, <2>1
    <2> HIDE DEF E
    <2> QED
        BY <2>2 DEF IsList
<1> QED
    BY <1>5, <1>6

-----------------------------------------------------------------------------
(* Which element is found *)

Has(s, tag) == \E i \in DOMAIN s : s[i].tag = tag
At(s, tag)  == s[SelectInSeq(s, LAMBDA e : e.tag = tag)]

\* What a message has, and what Find finds in it, is a matter of its elements.
LEMMA FindsInElements ==
    ASSUME NEW m, NEW tag
    PROVE  (HasTag(m, tag) <=> Has(m.elements, tag)) /\ Find(m, tag) = At(m.elements, tag)
BY DEF HasTag, Has, Find, At

IsSequence(s) == Len(s) \in Nat /\ DOMAIN s = 1..Len(s)

IsFirst(s, tag, k) ==
    k \in 1..Len(s) /\ s[k].tag = tag /\ \A j \in 1..(k - 1) : s[j].tag # tag

\* The first element with a tag is found.
LEMMA FindsFirst ==
    ASSUME NEW s, NEW tag, NEW k, IsSequence(s), IsFirst(s, tag, k)
    PROVE  At(s, tag) = s[k]
<1> DEFINE I == {i \in 1..Len(s) : s[i].tag = tag}
<1>1. k \in I /\ \A i \in I : k <= i
    BY DEF IsSequence, IsFirst
<1>2. Min(I) = k
    BY <1>1 DEF Min
<1> QED
    BY <1>1, <1>2 DEF At, SelectInSeq

\* A list with an element of a tag has a first one.
LEMMA HasFirst ==
    ASSUME NEW s, NEW tag, IsSequence(s), Has(s, tag)
    PROVE  \E k \in 1..Len(s) : IsFirst(s, tag, k) /\ At(s, tag) = s[k]
<1> DEFINE I == {i \in 1..Len(s) : s[i].tag = tag}
<1>1. I \subseteq Nat /\ I # {}
    BY DEF Has, IsSequence
<1>2. PICK k \in I : \A i \in I : k <= i
    BY <1>1, LeastNumber
<1>3. k \in 1..Len(s) /\ s[k].tag = tag /\ \A j \in 1..(k - 1) : s[j].tag # tag
    BY <1>2 DEF IsSequence
<1>4. IsFirst(s, tag, k)
    BY <1>3 DEF IsFirst
<1> QED
    BY <1>3, <1>4, FindsFirst

\* In two lists put together, the first is looked in first.
LEMMA FindsInConcat ==
    ASSUME NEW E, NEW s \in Seq(E), NEW t \in Seq(E), NEW tag
    PROVE  /\ Has(s \o t, tag) <=> Has(s, tag) \/ Has(t, tag)
           /\ Has(s, tag) => At(s \o t, tag) = At(s, tag)
           /\ ~Has(s, tag) /\ Has(t, tag) => At(s \o t, tag) = At(t, tag)
<1> DEFINE u == s \o t
<1>1. /\ Len(s) \in Nat /\ Len(t) \in Nat /\ Len(u) = Len(s) + Len(t)
      /\ DOMAIN s = 1..Len(s) /\ DOMAIN t = 1..Len(t) /\ DOMAIN u = 1..Len(u)
    OBVIOUS
<1>2. \A i \in 1..Len(s) : i \in 1..Len(u) /\ u[i] = s[i]
    OBVIOUS
<1>3. \A i \in 1..Len(t) : Len(s) + i \in 1..Len(u) /\ u[Len(s) + i] = t[i]
    OBVIOUS
<1>4. \A i \in 1..Len(u) : i > Len(s) => i - Len(s) \in 1..Len(t) /\ u[i] = t[i - Len(s)]
    OBVIOUS
<1> HIDE DEF u
<1>5. IsSequence(s) /\ IsSequence(t) /\ IsSequence(u)
    BY <1>1 DEF IsSequence
<1>6. Has(u, tag) <=> Has(s, tag) \/ Has(t, tag)
    <2>1. ASSUME Has(u, tag) PROVE Has(s, tag) \/ Has(t, tag)
        <3>1. PICK i \in 1..Len(u) : u[i].tag = tag
            BY <1>1, <2>1 DEF Has
        <3>2. CASE i <= Len(s)
            BY <1>1, <1>2, <3>1, <3>2 DEF Has
        <3>3. CASE i > Len(s)
            BY <1>1, <1>4, <3>1, <3>3 DEF Has
        <3> QED
            BY <1>1, <3>2, <3>3
    <2>2. ASSUME Has(s, tag) PROVE Has(u, tag)
        BY <1>1, <1>2, <2>2 DEF Has
    <2>3. ASSUME Has(t, tag) PROVE Has(u, tag)
        <3>1. PICK i \in 1..Len(t) : t[i].tag = tag
            BY <1>1, <2>3 DEF Has
        <3>2. Len(s) + i \in DOMAIN u /\ u[Len(s) + i].tag = tag
            BY <1>1, <1>3, <3>1
        <3> QED
            BY <3>2 DEF Has
    <2> QED
        BY <2>1, <2>2, <2>3
<1>7. ASSUME Has(s, tag) PROVE At(u, tag) = At(s, tag)
    <2>1. PICK k \in 1..Len(s) : IsFirst(s, tag, k) /\ At(s, tag) = s[k]
        BY <1>5, <1>7, HasFirst
    <2>2. u[k] = s[k] /\ k \in 1..Len(u)
        BY <1>2, <2>1
    <2>3. ASSUME NEW j \in 1..(k - 1) PROVE u[j].tag # tag
        BY <1>1, <1>2, <2>1 DEF IsFirst
    <2>4. IsFirst(u, tag, k)
        BY <2>1, <2>2, <2>3 DEF IsFirst
    <2> QED
        BY <1>5, <2>1, <2>2, <2>4, FindsFirst
<1>8. ASSUME ~Has(s, tag), Has(t, tag) PROVE At(u, tag) = At(t, tag)
    <2>1. PICK k \in 1..Len(t) : IsFirst(t, tag, k) /\ At(t, tag) = t[k]
        BY <1>5, <1>8, HasFirst
    <2> DEFINE l == Len(s) + k
    <2>2. l \in 1..Len(u) /\ u[l] = t[k]
        BY <1>1, <1>3
    <2>3. ASSUME NEW j \in 1..(l - 1) PROVE u[j].tag # tag
        <3>1. CASE j <= Len(s)
            <4>1. j \in 1..Len(s) /\ u[j] = s[j]
                BY <1>1, <1>2, <3>1
            <4> QED
                BY <1>1, <1>8, <4>1 DEF Has
        <3>2. CASE j > Len(s)
            <4>1. j - Len(s) \in 1..(k - 1) /\ j \in 1..Len(u)
                BY <1>1, <3>2
            <4> QED
                BY <1>1, <1>4, <2>1, <3>2, <4>1 DEF IsFirst
        <3> QED
            BY <1>1, <3>1, <3>2
    <2>4. IsFirst(u, tag, l)
        <3> HIDE DEF l
        <3>1. u[l].tag = tag
            BY <2>1, <2>2 DEF IsFirst
        <3> QED
            BY <2>2, <2>3, <3>1 DEF IsFirst
    <2> HIDE DEF l
    <2> QED
        BY <1>5, <2>1, <2>2, <2>4, FindsFirst
<1> QED
    BY <1>6, <1>7, <1>8 DEF u

\* What is found in a list of one element.
LEMMA FindsInOne ==
    ASSUME NEW e, NEW tag
    PROVE  /\ ~Has(<<>>, tag)
           /\ Has(<<e>>, tag) <=> e.tag = tag
           /\ e.tag = tag => At(<<e>>, tag) = e
<1>1. Len(<<e>>) = 1 /\ DOMAIN <<e>> = 1..1 /\ <<e>>[1] = e /\ DOMAIN <<>> = {}
    OBVIOUS
<1>2. ~Has(<<>>, tag) /\ (Has(<<e>>, tag) <=> e.tag = tag)
    BY <1>1 DEF Has
<1>3. ASSUME e.tag = tag PROVE At(<<e>>, tag) = e
    <2>1. IsSequence(<<e>>) /\ IsFirst(<<e>>, tag, 1)
        BY <1>1, <1>3 DEF IsSequence, IsFirst
    <2> QED
        BY <1>1, <2>1, FindsFirst
<1> QED
    BY <1>2, <1>3

\* The same for lists.
LEMMA FindsInLists ==
    ASSUME NEW s, NEW t, IsList(s), IsList(t), NEW tag
    PROVE  /\ Has(s \o t, tag) <=> Has(s, tag) \/ Has(t, tag)
           /\ Has(s, tag) => At(s \o t, tag) = At(s, tag)
           /\ ~Has(s, tag) /\ Has(t, tag) => At(s \o t, tag) = At(t, tag)
<1>1. PICK E : s \in Seq(E) /\ \A e \in E : IsElement(e)
    BY DEF IsList
<1>2. PICK F : t \in Seq(F) /\ \A e \in F : IsElement(e)
    BY DEF IsList
<1>3. s \in Seq(E \cup F) /\ t \in Seq(E \cup F)
    BY <1>1, <1>2
<1> QED
    BY <1>3, FindsInConcat

\* A list is a sequence over the set of its elements.
LEMMA ListIsSequence ==
    ASSUME NEW s, IsList(s)
    PROVE  IsSequence(s)
BY DEF IsList, IsSequence

\* An element that is found is one of the list, with the tag.
LEMMA FindsTag ==
    ASSUME NEW s, NEW tag, IsList(s), Has(s, tag)
    PROVE  \E k \in 1..Len(s) : s[k].tag = tag /\ At(s, tag) = s[k]
BY ListIsSequence, HasFirst DEF IsFirst

\* The set of the elements of a list, in which what is found is.
LEMMA ElementsOfConcat ==
    ASSUME NEW s, NEW t, IsList(s), IsList(t)
    PROVE  ToSet(s \o t) = ToSet(s) \cup ToSet(t)
<1>1. PICK E : s \in Seq(E)
    BY DEF IsList
<1>2. PICK F : t \in Seq(F)
    BY DEF IsList
<1>3. /\ Len(s) \in Nat /\ Len(t) \in Nat /\ Len(s \o t) = Len(s) + Len(t)
      /\ DOMAIN s = 1..Len(s) /\ DOMAIN t = 1..Len(t) /\ DOMAIN (s \o t) = 1..Len(s \o t)
      /\ \A i \in 1..Len(s) : (s \o t)[i] = s[i]
      /\ \A i \in 1..Len(t) : (s \o t)[i + Len(s)] = t[i]
    <2>1. s \in Seq(E \cup F) /\ t \in Seq(E \cup F)
        BY <1>1, <1>2
    <2> QED
        BY <2>1
<1>4. ASSUME NEW e \in ToSet(s \o t) PROVE e \in ToSet(s) \cup ToSet(t)
    <2>1. PICK i \in 1..(Len(s) + Len(t)) : e = (s \o t)[i]
        BY <1>3, <1>4 DEF ToSet
    <2>2. CASE i \in 1..Len(s)
        BY <1>3, <2>1, <2>2 DEF ToSet
    <2>3. CASE i \notin 1..Len(s)
        <3>1. i - Len(s) \in 1..Len(t) /\ i = (i - Len(s)) + Len(s)
            BY <1>3, <2>1, <2>3
        <3> QED
            BY <1>3, <2>1, <3>1 DEF ToSet
    <2> QED
        BY <2>2, <2>3
<1>5. ASSUME NEW e \in ToSet(s) PROVE e \in ToSet(s \o t)
    <2>1. PICK i \in 1..Len(s) : e = s[i]
        BY <1>3, <1>5 DEF ToSet
    <2>2. i \in DOMAIN (s \o t)
        BY <1>3, <2>1
    <2> QED
        BY <1>3, <2>1, <2>2 DEF ToSet
<1>6. ASSUME NEW e \in ToSet(t) PROVE e \in ToSet(s \o t)
    <2>1. PICK i \in 1..Len(t) : e = t[i]
        BY <1>3, <1>6 DEF ToSet
    <2>2. i + Len(s) \in DOMAIN (s \o t)
        BY <1>3, <2>1
    <2> QED
        BY <1>3, <2>1, <2>2 DEF ToSet
<1> QED
    BY <1>4, <1>5, <1>6

\* The elements of an empty list, and of a list of one element.
LEMMA ElementsOfOne ==
    ASSUME NEW e
    PROVE  ToSet(<<>>) = {} /\ ToSet(<<e>>) = {e}
<1>1. DOMAIN <<>> = {} /\ DOMAIN <<e>> = {1} /\ <<e>>[1] = e
    OBVIOUS
<1> QED
    BY <1>1 DEF ToSet

\* What is found with a tag is one of the elements, and has it.
LEMMA FoundInElements ==
    ASSUME NEW s, IsList(s), NEW tag
    PROVE  /\ Has(s, tag) <=> \E e \in ToSet(s) : e.tag = tag
           /\ Has(s, tag) => At(s, tag) \in ToSet(s) /\ At(s, tag).tag = tag
<1>1. Has(s, tag) <=> \E e \in ToSet(s) : e.tag = tag
    BY DEF Has, ToSet
<1>2. ASSUME Has(s, tag) PROVE At(s, tag) \in ToSet(s) /\ At(s, tag).tag = tag
    <2>1. PICK k \in 1..Len(s) : s[k].tag = tag /\ At(s, tag) = s[k]
        BY <1>2, FindsTag
    <2>2. k \in DOMAIN s
        BY <2>1, ListIsSequence DEF IsSequence
    <2> QED
        BY <2>1, <2>2 DEF ToSet
<1> QED
    BY <1>1, <1>2

-----------------------------------------------------------------------------
(* The order of elements *)

\* The elements come in an order of tags, all of them behind its first `low` places.
InOrder(s, order, low, high) ==
    /\ \A i \in 1..Len(s) :
          s[i].tag \in ToSet(order) /\ Place(order, s[i].tag) \in (low + 1)..high
    /\ \A i, j \in 1..Len(s) : i < j => Place(order, s[i].tag) < Place(order, s[j].tag)

\* A message whose elements come in the order of a standard passes its check.
LEMMA InOrderIsOK ==
    ASSUME NEW m, NEW order, NEW low \in Nat, NEW high \in Nat,
           IsList(m.elements), InOrder(m.elements, order, low, high)
    PROVE  TagOrderOK(m, order)
<1>1. IsSequence(m.elements)
    BY ListIsSequence
<1>2. ASSUME NEW i \in DOMAIN m.elements
      PROVE  /\ m.elements[i].tag \in ToSet(order)
             /\ i > 1 => Place(order, m.elements[i - 1].tag) < Place(order, m.elements[i].tag)
    <2>1. i \in 1..Len(m.elements) /\ Len(m.elements) \in Nat
        BY <1>1 DEF IsSequence
    <2>2. m.elements[i].tag \in ToSet(order)
        BY <2>1 DEF InOrder
    <2>3. ASSUME i > 1
          PROVE  Place(order, m.elements[i - 1].tag) < Place(order, m.elements[i].tag)
        <3>1. i - 1 \in 1..Len(m.elements) /\ i - 1 < i
            BY <2>1, <2>3
        <3> QED
            BY <2>1, <3>1 DEF InOrder
    <2> QED
        BY <2>2, <2>3
<1> QED
    BY <1>2 DEF TagOrderOK

\* No element is in any order.
LEMMA NoneInOrder ==
    ASSUME NEW order, NEW low, NEW high
    PROVE  InOrder(<<>>, order, low, high)
BY DEF InOrder

\* One element is, at the place of its tag.
LEMMA OneInOrder ==
    ASSUME NEW e, NEW order, NEW low, NEW high,
           e.tag \in ToSet(order), Place(order, e.tag) \in (low + 1)..high
    PROVE  InOrder(<<e>>, order, low, high)
<1>1. Len(<<e>>) = 1 /\ <<e>>[1] = e
    OBVIOUS
<1> QED
    BY <1>1 DEF InOrder

\* A list behind another in the order is, too.
LEMMA ConcatInOrder ==
    ASSUME NEW s, NEW t, IsList(s), IsList(t), NEW order,
           NEW low \in Nat, NEW middle \in Nat, NEW high \in Nat,
           low <= middle, middle <= high,
           InOrder(s, order, low, middle), InOrder(t, order, middle, high)
    PROVE  InOrder(s \o t, order, low, high)
<1> DEFINE u    == s \o t
           P(e) == Place(order, e.tag)
<1>1. PICK E : s \in Seq(E)
    BY DEF IsList
<1>2. PICK F : t \in Seq(F)
    BY DEF IsList
<1>3. /\ Len(s) \in Nat /\ Len(t) \in Nat /\ Len(u) = Len(s) + Len(t)
      /\ \A i \in 1..Len(u) :
            \/ i \in 1..Len(s) /\ u[i] = s[i]
            \/ i > Len(s) /\ i - Len(s) \in 1..Len(t) /\ u[i] = t[i - Len(s)]
    BY <1>1, <1>2
<1> HIDE DEF u
<1>4. ASSUME NEW i \in 1..Len(u)
      PROVE  u[i].tag \in ToSet(order) /\ P(u[i]) \in (low + 1)..high
    <2>1. CASE i \in 1..Len(s) /\ u[i] = s[i]
        <3>1. s[i].tag \in ToSet(order) /\ P(s[i]) \in (low + 1)..middle
            BY <2>1 DEF InOrder
        <3> HIDE DEF P
        <3> QED
            BY <2>1, <3>1
    <2>2. CASE i - Len(s) \in 1..Len(t) /\ u[i] = t[i - Len(s)]
        <3>1. t[i - Len(s)].tag \in ToSet(order) /\ P(t[i - Len(s)]) \in (middle + 1)..high
            BY <2>2 DEF InOrder
        <3> HIDE DEF P
        <3> QED
            BY <2>2, <3>1
    <2> QED
        BY <1>3, <2>1, <2>2
<1>5. ASSUME NEW i \in 1..Len(u), NEW j \in 1..Len(u), i < j
      PROVE  P(u[i]) < P(u[j])
    <2>1. CASE j \in 1..Len(s) /\ u[j] = s[j]
        <3>1. i \in 1..Len(s) /\ u[i] = s[i]
            BY <1>3, <1>5, <2>1
        <3> QED
            BY <1>5, <2>1, <3>1 DEF InOrder
    <2>2. CASE i > Len(s)
        <3>1. /\ i - Len(s) \in 1..Len(t) /\ u[i] = t[i - Len(s)]
              /\ j - Len(s) \in 1..Len(t) /\ u[j] = t[j - Len(s)]
              /\ i - Len(s) < j - Len(s)
            BY <1>3, <1>5, <2>2
        <3> QED
            BY <3>1 DEF InOrder
    <2>3. CASE i \in 1..Len(s) /\ u[i] = s[i] /\ j - Len(s) \in 1..Len(t) /\ u[j] = t[j - Len(s)]
        <3>1. P(s[i]) \in (low + 1)..middle /\ P(t[j - Len(s)]) \in (middle + 1)..high
            BY <2>3 DEF InOrder
        <3> HIDE DEF P
        <3> QED
            BY <2>3, <3>1
    <2> QED
        BY <1>3, <2>1, <2>2, <2>3
<1> QED
    BY <1>4, <1>5 DEF InOrder, u

\* The place of a tag is the index that has it.
LEMMA PlaceIs ==
    ASSUME NEW order, IsSequence(order), NEW tag, NEW k \in 1..Len(order),
           order[k] = tag, \A i \in 1..Len(order) : order[i] = tag => i = k
    PROVE  Place(order, tag) = k /\ tag \in ToSet(order)
<1> DEFINE I == {i \in 1..Len(order) : order[i] = tag}
<1>1. I = {k}
    BY DEF IsSequence
<1>2. Min({k}) = k
    BY DEF Min
<1>3. Place(order, tag) = k
    <2> HIDE DEF I
    <2>1. Place(order, tag) = Min(I)
        BY <1>1 DEF Place, SelectInSeq, I
    <2> QED
        BY <1>1, <1>2, <2>1
<1> QED
    BY <1>3 DEF ToSet, IsSequence

\* The places of the tags in the 2006 order.
LEMMA Places2006 ==
    LET P(tag) == Place(tagOrder2006, tag)
    IN  /\ {"A1", "A2", "A6", "A7", "AC", "A4", "A8", "BE"} \subseteq ToSet(tagOrder2006)
        /\ P("A1") = 1 /\ P("A2") = 2 /\ P("A6") = 3 /\ P("A7") = 4
        /\ P("AC") = 6 /\ P("A4") = 7 /\ P("A8") = 8 /\ P("BE") = 9
<1>1. IsSequence(tagOrder2006) /\ Len(tagOrder2006) = 9
    BY DEF tagOrder2006, IsSequence
<1>2. /\ tagOrder2006[1] = "A1" /\ tagOrder2006[2] = "A2" /\ tagOrder2006[3] = "A6"
      /\ tagOrder2006[4] = "A7" /\ tagOrder2006[5] = "AB" /\ tagOrder2006[6] = "AC"
      /\ tagOrder2006[7] = "A4" /\ tagOrder2006[8] = "A8" /\ tagOrder2006[9] = "BE"
    BY DEF tagOrder2006
<1>3. \A i \in 1..9 : i \in {1, 2, 3, 4, 5, 6, 7, 8, 9}
    OBVIOUS
<1>4. \A k \in 1..9 : \A i \in 1..9 : tagOrder2006[i] = tagOrder2006[k] => i = k
    BY <1>2, <1>3
<1>5. \A k \in 1..9 : /\ Place(tagOrder2006, tagOrder2006[k]) = k
                      /\ tagOrder2006[k] \in ToSet(tagOrder2006)
    BY <1>1, <1>4, PlaceIs
<1> QED
    BY <1>2, <1>5

\* The places of the tags in the 2008 order.
LEMMA Places2008 ==
    LET P(tag) == Place(tagOrder2008, tag)
    IN  /\ {"A1", "A2", "A3", "A4", "A6", "A7", "A8", "AC", "BE"} \subseteq ToSet(tagOrder2008)
        /\ P("A1") = 1 /\ P("A2") = 2 /\ P("A3") = 3 /\ P("A4") = 4 /\ P("A6") = 5
        /\ P("A7") = 6 /\ P("A8") = 7 /\ P("AC") = 9 /\ P("BE") = 10
<1>1. IsSequence(tagOrder2008) /\ Len(tagOrder2008) = 10
    BY DEF tagOrder2008, IsSequence
<1>2. /\ tagOrder2008[1] = "A1" /\ tagOrder2008[2] = "A2" /\ tagOrder2008[3] = "A3"
      /\ tagOrder2008[4] = "A4" /\ tagOrder2008[5] = "A6" /\ tagOrder2008[6] = "A7"
      /\ tagOrder2008[7] = "A8" /\ tagOrder2008[8] = "8B" /\ tagOrder2008[9] = "AC"
      /\ tagOrder2008[10] = "BE"
    BY DEF tagOrder2008
<1>3. \A i \in 1..10 : i \in {1, 2, 3, 4, 5, 6, 7, 8, 9, 10}
    OBVIOUS
<1>4. \A k \in 1..10 : \A i \in 1..10 : tagOrder2008[i] = tagOrder2008[k] => i = k
    BY <1>2, <1>3
<1>5. \A k \in 1..10 : /\ Place(tagOrder2008, tagOrder2008[k]) = k
                       /\ tagOrder2008[k] \in ToSet(tagOrder2008)
    BY <1>1, <1>4, PlaceIs
<1> QED
    BY <1>2, <1>5

-----------------------------------------------------------------------------
(* The builders *)

\* The fields of an element.
LEMMA ElementFields ==
    ASSUME NEW tag, NEW length \in Nat, NEW value
    PROVE  /\ IsElement(Element(tag, length, value))
           /\ Element(tag, length, value).tag = tag
           /\ Element(tag, length, value).length = length
           /\ Element(tag, length, value).value = value
BY DEF IsElement, Element

\* A message with a list of elements.
IsMessage(m) == m = Message(m.standard, m.elements) /\ IsList(m.elements)

\* The fields of a message.
LEMMA MessageFields ==
    ASSUME NEW standard, NEW s
    PROVE  /\ Message(standard, s).standard = standard
           /\ Message(standard, s).elements = s
           /\ IsList(s) => IsMessage(Message(standard, s))
BY DEF Message, IsMessage

\* Adding an element to a message.
LEMMA ElementIsAppended ==
    ASSUME NEW s, IsList(s), NEW e, IsElement(e)
    PROVE  Append(s, e) = s \o <<e>>
<1>1. PICK E : s \in Seq(E)
    BY DEF IsList
<1> QED
    BY <1>1

Information(m, epsem, wantMac) ==
    Element("BE", InformationLength(m, ContentLength(epsem, wantMac)),
            [standard |-> m.standard, epsem |-> epsem, sealedWith |-> NoNumber,
             mac |-> IF wantMac THEN Mac(m, epsem) ELSE <<>>])

\* The length of the user information: that of the epsem, its headers and the code.
LEMMA InformationLengthIs ==
    ASSUME NEW m, NEW epsem, epsem.length \in Nat, NEW wantMac \in BOOLEAN
    PROVE  /\ ContentLength(epsem, wantMac) \in Nat
           /\ ContentLength(epsem, wantMac) <= epsem.length + 10
           /\ InformationLength(m, ContentLength(epsem, wantMac)) \in Nat
           /\ InformationLength(m, ContentLength(epsem, wantMac)) <= epsem.length + 18
<1> DEFINE c == ContentLength(epsem, wantMac)
<1>1. c \in Nat /\ c <= epsem.length + 10
    BY DEF ContentLength, Padded
<1> HIDE DEF c
<1>2. Encoded(c) \in Nat /\ Encoded(c) <= c + 4
    BY <1>1, EncodedIsNatural
<1>3. Encoded(Encoded(c)) \in Nat /\ Encoded(Encoded(c)) <= Encoded(c) + 4
    BY <1>2, EncodedIsNatural
<1>4. InformationLength(m, c) \in Nat /\ InformationLength(m, c) <= epsem.length + 18
    BY <1>1, <1>2, <1>3 DEF InformationLength
<1> QED
    BY <1>1, <1>4 DEF c

\* SetUserInformation appends one element, with the epsem in it.
LEMMA UserInformationIsAdded ==
    ASSUME NEW m, IsMessage(m), NEW epsem, epsem.length \in Nat, NEW wantMac \in BOOLEAN
    PROVE  /\ IsElement(Information(m, epsem, wantMac))
           /\ SetUserInformation(m, epsem, wantMac) =
                 Message(m.standard, m.elements \o <<Information(m, epsem, wantMac)>>)
<1> DEFINE e == Information(m, epsem, wantMac)
<1>1. IsElement(e)
    BY InformationLengthIs, ElementFields DEF Information
<1>2. Append(m.elements, e) = m.elements \o <<e>>
    BY <1>1, ElementIsAppended DEF IsMessage
<1>3. SetUserInformation(m, epsem, wantMac) = [m EXCEPT !.elements = Append(@, e)]
    BY DEF SetUserInformation, Information
<1> HIDE DEF e
<1>4. [m EXCEPT !.elements = Append(@, e)] = Message(m.standard, Append(m.elements, e))
    BY DEF IsMessage, Message
<1> QED
    BY <1>1, <1>2, <1>3, <1>4 DEF e

\* Replacing the value of an element.
LEMMA ReplaceKeepsTheRest ==
    ASSUME NEW m, IsMessage(m), NEW tag, NEW value
    PROVE  LET r == Replace(m, tag, value)
           IN  /\ IsMessage(r)
               /\ r.standard = m.standard
               /\ Len(r.elements) = Len(m.elements)
               /\ \A i \in 1..Len(m.elements) :
                     r.elements[i] = IF m.elements[i].tag = tag
                                     THEN Element(tag, m.elements[i].length, value)
                                     ELSE m.elements[i]
<1> DEFINE s == m.elements
           Replaced(i) == IF s[i].tag = tag THEN [s[i] EXCEPT !.value = value] ELSE s[i]
           t == [i \in 1..Len(s) |-> Replaced(i)]
           r == Replace(m, tag, value)
<1>1. IsList(s) /\ m = Message(m.standard, s)
    BY DEF IsMessage
<1>2. Len(s) \in Nat /\ DOMAIN s = 1..Len(s) /\ \A i \in 1..Len(s) : IsElement(s[i])
    BY <1>1, ListHasLengths, ListIsSequence DEF IsSequence
<1>3. r = [m EXCEPT !.elements = [i \in DOMAIN s |-> Replaced(i)]]
    BY DEF Replace
<1>4. r = Message(m.standard, t)
    <2> HIDE DEF s, t, r, Replaced
    <2>1. [i \in DOMAIN s |-> Replaced(i)] = t
        BY <1>2 DEF t
    <2>2. [m EXCEPT !.elements = t] = Message(m.standard, t)
        BY <1>1 DEF Message
    <2> QED
        BY <1>3, <2>1, <2>2
<1>5. ASSUME NEW i \in 1..Len(s)
      PROVE  /\ IsElement(t[i])
             /\ t[i] = IF s[i].tag = tag THEN Element(tag, s[i].length, value) ELSE s[i]
    <2>1. t[i] = Replaced(i) /\ IsElement(s[i])
        BY <1>2
    <2> HIDE DEF t
    <2>2. CASE s[i].tag = tag
        <3>1. [s[i] EXCEPT !.value = value] = Element(tag, s[i].length, value)
            BY <2>1, <2>2 DEF IsElement, Element
        <3> QED
            BY <2>1, <2>2, <3>1, ElementFields DEF IsElement
    <2> QED
        BY <2>1, <2>2
<1>6. IsList(t)
    <2> DEFINE E == {t[i] : i \in 1..Len(s)}
    <2>2. \A e \in E : IsElement(e)
        BY <1>5
    <2>3. \A i \in 1..Len(s) : Replaced(i) \in E
        OBVIOUS
    <2> HIDE DEF E
    <2>1. t \in Seq(E)
        <3> HIDE DEF Replaced, s
        <3> QED
            BY <1>2, <2>3
    <2> HIDE DEF t
    <2> QED
        BY <2>1, <2>2 DEF IsList
<1>7. Len(t) = Len(s)
    BY <1>2
<1> HIDE DEF t, r
<1> QED
    BY <1>4, <1>5, <1>6, <1>7, MessageFields DEF r

\* Replace changes the value that is found with one tag, and no other.
LEMMA ReplaceFinds ==
    ASSUME NEW m, IsMessage(m), NEW tag, NEW value, NEW other
    PROVE  LET r == Replace(m, tag, value)
           IN  /\ HasTag(r, other) <=> HasTag(m, other)
               /\ HasTag(m, other) /\ other # tag => Find(r, other) = Find(m, other)
               /\ HasTag(m, tag) => Find(r, tag) = Element(tag, Find(m, tag).length, value)
<1> DEFINE r == Replace(m, tag, value)
           s == m.elements
           t == r.elements
<1>1. /\ IsMessage(r) /\ Len(t) = Len(s)
      /\ \A i \in 1..Len(s) :
            t[i] = IF s[i].tag = tag THEN Element(tag, s[i].length, value) ELSE s[i]
    BY ReplaceKeepsTheRest
<1> HIDE DEF r, s, t
<1>2. IsList(s) /\ IsList(t)
    BY <1>1 DEF IsMessage, s, t
<1>3. IsSequence(s) /\ IsSequence(t)
    BY <1>2, ListIsSequence
<1>4. ASSUME NEW i \in 1..Len(s) PROVE t[i].tag = s[i].tag
    <2>1. CASE s[i].tag = tag
        <3>1. t[i] = Element(tag, s[i].length, value)
            BY <1>1, <2>1
        <3> QED
            BY <2>1, <3>1 DEF Element
    <2>2. CASE s[i].tag # tag
        BY <1>1, <2>2
    <2> QED
        BY <2>1, <2>2
<1>5. \A g : Has(t, g) <=> Has(s, g)
    BY <1>1, <1>3, <1>4 DEF Has, IsSequence
<1>6. ASSUME NEW g, Has(s, g)
      PROVE  \E k \in 1..Len(s) : At(s, g) = s[k] /\ At(t, g) = t[k] /\ s[k].tag = g
    <2>1. PICK k \in 1..Len(s) : IsFirst(s, g, k) /\ At(s, g) = s[k]
        BY <1>3, <1>6, HasFirst
    <2>2. IsFirst(t, g, k)
        <3>1. \A j \in 1..(k - 1) : j \in 1..Len(s)
            BY <1>3, <2>1 DEF IsSequence
        <3> QED
            BY <1>1, <1>4, <2>1, <3>1 DEF IsFirst
    <2>3. At(t, g) = t[k]
        BY <1>3, <2>2, FindsFirst
    <2> QED
        BY <2>1, <2>3 DEF IsFirst
<1>7. ASSUME Has(s, other), other # tag PROVE At(t, other) = At(s, other)
    BY <1>1, <1>6, <1>7
<1>8. ASSUME Has(s, tag) PROVE At(t, tag) = Element(tag, At(s, tag).length, value)
    BY <1>1, <1>6, <1>8
<1> QED
    BY <1>5, <1>7, <1>8, FindsInElements DEF r, s, t

\* Two lists whose elements take the same.
SameLengths(s, t) ==
    /\ IsList(s) /\ IsList(t) /\ Len(s) = Len(t)
    /\ \A i \in 1..Len(s) : s[i].length = t[i].length

\* Lists of elements of the same lengths take the same.
LEMMA SameLengthsTakeTheSame ==
    ASSUME NEW s, NEW t, SameLengths(s, t)
    PROVE  LengthOf(s) = LengthOf(t)
<1>1. [i \in 1..Len(t) |-> Encoded(t[i].length)] = [i \in 1..Len(s) |-> Encoded(s[i].length)]
    BY DEF SameLengths
<1> QED
    BY <1>1 DEF LengthOf

\* Replace keeps the lengths of the elements.
LEMMA ReplaceKeepsLengths ==
    ASSUME NEW m, IsMessage(m), NEW tag, NEW value
    PROVE  SameLengths(m.elements, Replace(m, tag, value).elements)
<1> DEFINE s == m.elements
           t == Replace(m, tag, value).elements
<1>0. /\ IsList(s) /\ IsList(t) /\ Len(t) = Len(s)
      /\ \A i \in 1..Len(s) :
            t[i] = IF s[i].tag = tag THEN Element(tag, s[i].length, value) ELSE s[i]
    BY ReplaceKeepsTheRest DEF IsMessage
<1> HIDE DEF s, t
<1>1. ASSUME NEW i \in 1..Len(s) PROVE t[i].length = s[i].length
    <2>1. CASE s[i].tag = tag
        <3>1. t[i] = Element(tag, s[i].length, value)
            BY <1>0, <2>1
        <3> QED
            BY <2>1, <3>1 DEF Element
    <2>2. CASE s[i].tag # tag
        BY <1>0, <2>2
    <2> QED
        BY <2>1, <2>2
<1>2. SameLengths(s, t)
    BY <1>0, <1>1 DEF SameLengths
<1> QED
    BY <1>2 DEF s, t

\* What is in front of the last element.
LEMMA FrontOfList ==
    ASSUME NEW s, IsList(s), Len(s) > 0
    PROVE  /\ IsList(Front(s)) /\ Len(Front(s)) = Len(s) - 1
           /\ \A i \in 1..(Len(s) - 1) : Front(s)[i] = s[i]
<1>1. PICK E : s \in Seq(E) /\ \A e \in E : IsElement(e)
    BY DEF IsList
<1>2. /\ Front(s) \in Seq(E) /\ Len(Front(s)) = Len(s) - 1
      /\ \A i \in 1..(Len(s) - 1) : Front(s)[i] = s[i]
    <2> DEFINE n == Len(s) - 1
    <2>1. n \in Nat /\ \A i \in 1..n : s[i] \in E /\ 1 + i - 1 = i
        BY <1>1
    <2>2. Front(s) = SubSeq(s, 1, n)
        BY DEF Front
    <2> HIDE DEF n
    <2>3. /\ SubSeq(s, 1, n) \in Seq(E)
          /\ Len(SubSeq(s, 1, n)) = IF 1 <= n THEN n - 1 + 1 ELSE 0
          /\ \A i \in 1..(n - 1 + 1) : SubSeq(s, 1, n)[i] = s[1 + i - 1]
        BY <2>1, SubSeqProperties
    <2>4. n - 1 + 1 = n /\ Len(SubSeq(s, 1, n)) = n
        BY <2>1, <2>3
    <2>5. /\ Front(s) \in Seq(E) /\ Len(Front(s)) = n
          /\ \A i \in 1..n : Front(s)[i] = s[i]
        BY <2>1, <2>2, <2>3, <2>4
    <2> QED
        BY <2>5 DEF n
<1> QED
    BY <1>1, <1>2 DEF IsList

\* So do the elements before the last.
LEMMA FrontsTakeTheSame ==
    ASSUME NEW s, NEW t, SameLengths(s, t), Len(s) > 0
    PROVE  LengthOf(Front(s)) = LengthOf(Front(t))
<1> DEFINE a == Front(s)
           b == Front(t)
<1>1. /\ IsList(a) /\ Len(a) = Len(s) - 1 /\ \A i \in 1..(Len(s) - 1) : a[i] = s[i]
      /\ IsList(b) /\ Len(b) = Len(s) - 1 /\ \A i \in 1..(Len(s) - 1) : b[i] = t[i]
    BY FrontOfList DEF SameLengths
<1>2. Len(s) \in Nat
    BY ListHasLengths DEF SameLengths
<1> HIDE DEF a, b
<1>3. SameLengths(a, b)
    BY <1>1, <1>2 DEF SameLengths
<1> QED
    BY <1>3, SameLengthsTakeTheSame DEF a, b

\* The elements before one that was appended.
LEMMA FrontOfConcat ==
    ASSUME NEW s, IsList(s), NEW e, IsElement(e)
    PROVE  /\ LengthOf(Front(s \o <<e>>)) = LengthOf(s)
           /\ LengthOf(s \o <<e>>) = LengthOf(s) + Encoded(e.length)
           /\ Len(s \o <<e>>) > 0
<1> DEFINE t == s \o <<e>>
           a == Front(t)
<1>1. IsList(t) /\ LengthOf(t) = LengthOf(s) + Encoded(e.length)
    BY ListOfOne, ListsConcat
<1>2. Len(s) \in Nat
    BY ListHasLengths
<1>3. Len(t) = Len(s) + 1 /\ \A i \in 1..Len(s) : t[i] = s[i]
    <2>1. PICK E : s \in Seq(E)
        BY DEF IsList
    <2>2. <<e>> \in Seq({e}) /\ Len(<<e>>) = 1
        OBVIOUS
    <2>3. PICK u : u = <<e>>
        OBVIOUS
    <2>4. Len(s \o u) = Len(s) + 1 /\ \A i \in 1..Len(s) : (s \o u)[i] = s[i]
        BY <2>1, <2>2, <2>3
    <2> QED
        BY <2>3, <2>4
<1> HIDE DEF t
<1>4. IsList(a) /\ Len(a) = Len(t) - 1 /\ \A i \in 1..(Len(t) - 1) : a[i] = t[i]
    BY <1>1, <1>2, <1>3, FrontOfList
<1> HIDE DEF a
<1>5. SameLengths(a, s)
    BY <1>2, <1>3, <1>4 DEF SameLengths
<1>6. LengthOf(a) = LengthOf(s)
    BY <1>5, SameLengthsTakeTheSame
<1> QED
    BY <1>1, <1>2, <1>3, <1>6 DEF a, t

\* Replace keeps the order of the elements.
LEMMA ReplaceKeepsOrder ==
    ASSUME NEW m, IsMessage(m), NEW tag, NEW value, NEW order, NEW low, NEW high,
           InOrder(m.elements, order, low, high)
    PROVE  InOrder(Replace(m, tag, value).elements, order, low, high)
<1> DEFINE s == m.elements
           t == Replace(m, tag, value).elements
<1>0. /\ Len(t) = Len(s)
      /\ \A i \in 1..Len(s) :
            t[i] = IF s[i].tag = tag THEN Element(tag, s[i].length, value) ELSE s[i]
    BY ReplaceKeepsTheRest
<1>2. InOrder(s, order, low, high)
    OBVIOUS
<1> HIDE DEF s, t
<1>1. ASSUME NEW i \in 1..Len(s) PROVE t[i].tag = s[i].tag
    <2>1. CASE s[i].tag = tag
        <3>1. t[i] = Element(tag, s[i].length, value)
            BY <1>0, <2>1
        <3> QED
            BY <2>1, <3>1 DEF Element
    <2>2. CASE s[i].tag # tag
        BY <1>0, <2>2
    <2> QED
        BY <2>1, <2>2
<1>3. InOrder(t, order, low, high)
    BY <1>0, <1>1, <1>2 DEF InOrder
<1> QED
    BY <1>3 DEF t

=============================================================================
