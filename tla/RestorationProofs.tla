------------------------- MODULE RestorationProofs -------------------------
(***************************************************************************)
(* That the reader of a driver's description makes what is described, and  *)
(* that knobs are enabled as their conditions say, for every description   *)
(* that is proper.                                                         *)
(*                                                                         *)
(* RestoreInv is inductive.  While the driver's element is read it says    *)
(* what has been made of the tokens before the next one: the functions     *)
(* that run are the elements that are open (StackOK); each cell, page, map *)
(* entry and enabler is of an element that has been read, and of each such *)
(* element there is one (MadeOK).  A page's reader that takes the end of   *)
(* the driver for its own leaves the driver's reader at the end (OverOK).  *)
(* When all has been read it says so of the whole description (DoneInv).   *)
(***************************************************************************)
EXTENDS ApplicationProofs, FiniteSetTheorems

-----------------------------------------------------------------------------
(* The depths of tokens.                                                   *)

\* How many elements are open behind token i; before the first none is.
Depth(d, i) == IF i = 0 THEN 0 ELSE Depths[d][i]
Type(d, i) == Tokens[d][i].type
NameAt(d, i) == Tokens[d][i].name
Size(d) == Len(Tokens[d])

\* The tokens of a type among the first n.
Seen(d, type, n) == {k \in 1 .. n : Type(d, k) = type}

\* What a sequence is known by.
LEMMA SequenceIs ==
  ASSUME NEW S, NEW s \in Seq(S)
  PROVE  Len(s) \in Nat /\ DOMAIN s = 1 .. Len(s)
OBVIOUS

\* A description is a sequence.
LEMMA TokensAre ==
  ASSUME NEW d \in Descriptions
  PROVE  Size(d) \in Nat /\ DOMAIN Tokens[d] = 1 .. Size(d)
<1>1. Tokens[d] \in Seq(ToSet(Tokens[d]))
  BY TokensAssumption DEF TokensAssumption
<1>2. Len(Tokens[d]) \in Nat /\ DOMAIN Tokens[d] = 1 .. Len(Tokens[d])
  BY <1>1, SequenceIs
<1> QED BY <1>2 DEF Size

\* One token more is one more of its type, and none of another.
LEMMA CountStep ==
  ASSUME NEW d \in Descriptions, NEW i \in Nat \ {0}, NEW type
  PROVE  /\ Cardinality(Seen(d, type, i - 1)) \in Nat
         /\ Cardinality(Seen(d, type, 0)) = 0
         /\ Cardinality(Seen(d, type, i))
              = IF Type(d, i) = type THEN Cardinality(Seen(d, type, i - 1)) + 1
                ELSE Cardinality(Seen(d, type, i - 1))
<1>1. IsFiniteSet(1 .. i - 1)
  BY FS_Interval
<1>2. Seen(d, type, i - 1) \in SUBSET (1 .. i - 1)
  BY DEF Seen
<1>3. IsFiniteSet(Seen(d, type, i - 1))
  BY <1>1, <1>2, FS_Subset
<1>4. Cardinality(Seen(d, type, i - 1)) \in Nat
  BY <1>3, FS_CardinalityType
<1>5. Seen(d, type, 0) = {}
  BY DEF Seen
<1>6. Cardinality(Seen(d, type, 0)) = 0
  BY <1>5, FS_EmptySet
<1>7. CASE Type(d, i) = type
  <2>1. /\ Seen(d, type, i) = Seen(d, type, i - 1) \cup {i}
        /\ i \notin Seen(d, type, i - 1)
    BY <1>7 DEF Seen
  <2>2. Cardinality(Seen(d, type, i)) = Cardinality(Seen(d, type, i - 1)) + 1
    BY <2>1, <1>3, FS_AddElement
  <2> QED BY <1>4, <1>6, <1>7, <2>2
<1>8. CASE Type(d, i) # type
  <2>1. Seen(d, type, i) = Seen(d, type, i - 1)
    BY <1>8 DEF Seen
  <2> QED BY <1>4, <1>6, <1>8, <2>1
<1> QED BY <1>7, <1>8

\* A start tag is one level deeper than what is before it, an end tag one less deep.
LEMMA DepthStep ==
  ASSUME NEW d \in Descriptions, NEW i \in 1 .. Size(d)
  PROVE  /\ Depth(d, i) \in Int /\ Depth(d, i - 1) \in Int
         /\ Depth(d, i) = IF Type(d, i) = "start" THEN Depth(d, i - 1) + 1
                          ELSE IF Type(d, i) = "end" THEN Depth(d, i - 1) - 1
                          ELSE Depth(d, i - 1)
<1> DEFINE Opened(n) == Cardinality(Seen(d, "start", n))
           Ended(n) == Cardinality(Seen(d, "end", n))
<1>1. i \in Nat \ {0} /\ i - 1 \in Nat
  BY TokensAre
<1>2. /\ Opened(i - 1) \in Nat /\ Opened(0) = 0
      /\ Opened(i) = IF Type(d, i) = "start" THEN Opened(i - 1) + 1 ELSE Opened(i - 1)
  BY <1>1, CountStep
<1>3. /\ Ended(i - 1) \in Nat /\ Ended(0) = 0
      /\ Ended(i) = IF Type(d, i) = "end" THEN Ended(i - 1) + 1 ELSE Ended(i - 1)
  BY <1>1, CountStep
<1>4. \A n \in 1 .. Size(d) : Depths[d][n] = Opened(n) - Ended(n)
  BY TokensAre DEF Depths, Type, Seen
<1> HIDE DEF Opened, Ended
<1>5. Depth(d, i) = Opened(i) - Ended(i)
  BY <1>1, <1>4 DEF Depth
<1>6. Depth(d, i - 1) = Opened(i - 1) - Ended(i - 1)
  <2>1. CASE i = 1
    BY <2>1, <1>2, <1>3 DEF Depth
  <2>2. CASE i # 1
    BY <2>2, <1>1, <1>4, TokensAre DEF Depth
  <2> QED BY <2>1, <2>2
<1>7. "start" # "end"
  OBVIOUS
<1> QED BY <1>2, <1>3, <1>5, <1>6, <1>7

\* Every depth is an integer.
LEMMA DepthsAre ==
  ASSUME NEW d \in Descriptions, NEW i \in 0 .. Size(d)
  PROVE  Depth(d, i) \in Int
<1>1. CASE i = 0
  BY <1>1 DEF Depth
<1>2. CASE i # 0
  BY <1>2, TokensAre, DepthStep
<1> QED BY <1>1, <1>2

\* Between a place and a deeper one some element starts that reaches up to the latter.
LEMMA Rise ==
  ASSUME NEW d \in Descriptions, NEW a \in 0 .. Size(d), NEW b \in 0 .. Size(d), a < b,
         NEW level \in Int, Depth(d, a) < level, level <= Depth(d, b)
  PROVE  \E k \in a + 1 .. b :
           /\ k \in Starts(d) /\ Depth(d, k) = level
           /\ \A m \in k .. b : Depth(d, m) >= level
<1> DEFINE Low == {m \in a .. b : Depth(d, m) < level}
<1>0. Size(d) \in Nat /\ DOMAIN Tokens[d] = 1 .. Size(d)
  BY TokensAre
<1>1. PICK x \in Low : \A y \in Low : y <= x
  <2>1. Low \subseteq 0 .. b /\ a \in Low /\ b \in Nat
    BY <1>0
  <2> QED BY <2>1, Greatest
<1>2. x \in a .. b /\ x # b /\ Depth(d, x) < level
  BY <1>0, DepthsAre
<1>3. x + 1 \in 1 .. Size(d) /\ x + 1 \in a + 1 .. b /\ (x + 1) - 1 = x
  BY <1>0, <1>2
<1>4. \A m \in x + 1 .. b : Depth(d, m) >= level
  <2>1. ASSUME NEW m \in x + 1 .. b PROVE Depth(d, m) >= level
    <3>1. m \notin Low /\ m \in a .. b /\ m \in 0 .. Size(d)
      BY <1>0, <1>1, <1>2
    <3> QED BY <3>1, DepthsAre
  <2> QED BY <2>1
<1>5. Depth(d, x + 1) >= level
  BY <1>3, <1>4
<1>6. /\ Depth(d, x) \in Int /\ Depth(d, x + 1) \in Int
      /\ Depth(d, x + 1) = IF Type(d, x + 1) = "start" THEN Depth(d, x) + 1
                           ELSE IF Type(d, x + 1) = "end" THEN Depth(d, x) - 1
                           ELSE Depth(d, x)
  BY <1>3, DepthStep
<1>7. Type(d, x + 1) = "start" /\ Depth(d, x + 1) = level
  BY <1>2, <1>5, <1>6
<1>8. x + 1 \in Starts(d)
  BY <1>0, <1>3, <1>7 DEF Starts, Type
<1> QED BY <1>3, <1>4, <1>7, <1>8

-----------------------------------------------------------------------------
(* Elements and what they are in.                                          *)

\* The greatest and the least number of a set are what Max and Min give.
LEMMA MaxIs ==
  ASSUME NEW S, S \subseteq Nat, NEW x \in S, \A y \in S : y <= x
  PROVE  Max(S) = x
<1>1. \A y \in S : x >= y
  OBVIOUS
<1>2. \A z \in S : (\A y \in S : z >= y) => z = x
  OBVIOUS
<1> QED BY <1>1, <1>2 DEF Max

\* The least of a set of numbers is the one that is at most each.
LEMMA MinIs ==
  ASSUME NEW S, S \subseteq Nat, NEW x \in S, \A y \in S : x <= y
  PROVE  Min(S) = x
<1>1. \A z \in S : (\A y \in S : z <= y) => z = x
  OBVIOUS
<1> QED BY <1>1 DEF Min

\* In a proper description no end tag is without its start tag, nor the other way round.
LEMMA ProperIs ==
  ASSUME NEW d \in ProperDescriptions
  PROVE  /\ d \in Descriptions /\ Size(d) \in Nat \ {0} /\ DOMAIN Tokens[d] = 1 .. Size(d)
         /\ \A i \in 0 .. Size(d) : Depth(d, i) \in Nat
         /\ Depth(d, Size(d)) = 0
<1>1. /\ d \in Descriptions /\ Tokens[d] # <<>> /\ Depths[d][Len(Tokens[d])] = 0
      /\ \A i \in DOMAIN Tokens[d] : Depths[d][i] >= 0
  BY DEF ProperDescriptions
<1>2. Size(d) \in Nat /\ DOMAIN Tokens[d] = 1 .. Size(d)
  BY <1>1, TokensAre
<1>3. Tokens[d] \in Seq(ToSet(Tokens[d]))
  BY <1>1, TokensAssumption DEF TokensAssumption
<1>4. Size(d) # 0
  BY <1>1, <1>3 DEF Size
<1>5. \A i \in 0 .. Size(d) : Depth(d, i) \in Nat
  <2>1. ASSUME NEW i \in 0 .. Size(d) PROVE Depth(d, i) \in Nat
    <3>1. Depth(d, i) \in Int
      BY <1>1, DepthsAre
    <3>2. Depth(d, i) >= 0
      BY <1>1, <1>2 DEF Depth
    <3> QED BY <3>1, <3>2
  <2> QED BY <2>1
<1>6. Depth(d, Size(d)) = 0
  BY <1>1 DEF Depth, Size
<1> QED BY <1>1, <1>2, <1>4, <1>5, <1>6

\* A start tag is one of the tokens, and deeper than nothing.
LEMMA StartIs ==
  ASSUME NEW d \in ProperDescriptions, NEW i \in Starts(d)
  PROVE  /\ i \in 1 .. Size(d) /\ Type(d, i) = "start"
         /\ Depth(d, i) \in Nat \ {0} /\ Depth(d, i - 1) = Depth(d, i) - 1
<1>1. d \in Descriptions /\ i \in 1 .. Size(d) /\ Type(d, i) = "start"
  BY ProperIs DEF Starts, Type
<1>2. Depth(d, i) = Depth(d, i - 1) + 1 /\ Depth(d, i) \in Int /\ Depth(d, i - 1) \in Int
  BY <1>1, DepthStep
<1>3. i - 1 \in 0 .. Size(d)
  BY <1>1, ProperIs
<1>4. Depth(d, i - 1) \in Nat
  BY <1>3, ProperIs
<1> QED BY <1>1, <1>2, <1>4

\* What EndOf gives is the end tag of the element.
LEMMA Ending ==
  ASSUME NEW d \in ProperDescriptions, NEW i \in Starts(d)
  PROVE  /\ EndOf(d, i) \in i + 1 .. Size(d) /\ Type(d, EndOf(d, i)) = "end"
         /\ Depth(d, EndOf(d, i)) = Depth(d, i) - 1
         /\ \A m \in i .. EndOf(d, i) - 1 : Depth(d, m) >= Depth(d, i)
<1> DEFINE After == {j \in i .. Size(d) : Depths[d][j] < Depths[d][i]}
           n == Size(d)
<1>1. d \in Descriptions /\ n \in Nat \ {0} /\ DOMAIN Tokens[d] = 1 .. n
  BY ProperIs
<1>2. i \in 1 .. n /\ Depth(d, i) \in Nat \ {0}
  BY StartIs
<1>3. \A j \in i .. n : Depth(d, j) = Depths[d][j] /\ Depth(d, j) \in Nat
  <2>1. \A j \in i .. n : j \in 0 .. n /\ j # 0
    BY <1>1, <1>2
  <2> QED BY <2>1, ProperIs DEF Depth
<1>4. After = {j \in i .. n : Depth(d, j) < Depth(d, i)}
  BY <1>2, <1>3
<1>5. n \in After
  BY <1>1, <1>2, <1>4, ProperIs
<1>6. EndOf(d, i) = Min({n} \cup After)
  BY <1>1, <1>2 DEF EndOf, Ends, Size
<1> HIDE DEF After
<1>7. After \subseteq Nat
  BY <1>1, <1>2, <1>4
<1>8. PICK e \in After : \A y \in After : e <= y
  BY <1>5, <1>7, Least
<1>9. {n} \cup After = After
  BY <1>5
<1>10. EndOf(d, i) = e
  BY <1>6, <1>7, <1>8, <1>9, MinIs
<1> HIDE DEF n
<1>11. e \in i .. n /\ Depth(d, e) < Depth(d, i) /\ e # i
  BY <1>2, <1>4
<1>12. \A m \in i .. e - 1 : Depth(d, m) >= Depth(d, i)
  <2>1. ASSUME NEW m \in i .. e - 1 PROVE Depth(d, m) >= Depth(d, i)
    <3>1. m \in i .. n /\ m \notin After
      BY <1>1, <1>2, <1>8, <1>11
    <3>2. ~(Depth(d, m) < Depth(d, i)) /\ Depth(d, m) \in Nat
      BY <1>3, <1>4, <3>1
    <3> QED BY <1>2, <3>2
  <2> QED BY <2>1
<1>13. e \in 1 .. n /\ e - 1 \in i .. e - 1 /\ e \in i + 1 .. n
  BY <1>1, <1>2, <1>11
<1>14. /\ Depth(d, e) \in Int /\ Depth(d, e - 1) \in Int
       /\ Depth(d, e) = IF Type(d, e) = "start" THEN Depth(d, e - 1) + 1
                        ELSE IF Type(d, e) = "end" THEN Depth(d, e - 1) - 1
                        ELSE Depth(d, e - 1)
  BY <1>1, <1>13, DepthStep DEF n
<1>15. Depth(d, e - 1) >= Depth(d, i)
  BY <1>12, <1>13
<1>16. Type(d, e) = "end" /\ Depth(d, e) = Depth(d, i) - 1
  BY <1>2, <1>11, <1>14, <1>15
<1> QED BY <1>10, <1>12, <1>13, <1>16 DEF n

\* There is one such place.
LEMMA EndIs ==
  ASSUME NEW d \in ProperDescriptions, NEW i \in Starts(d), NEW e \in i .. Size(d),
         Depth(d, e) < Depth(d, i), \A m \in i .. e - 1 : Depth(d, m) >= Depth(d, i)
  PROVE  EndOf(d, i) = e
<1> DEFINE f == EndOf(d, i)
<1>1. /\ f \in i + 1 .. Size(d) /\ Depth(d, f) = Depth(d, i) - 1
      /\ \A m \in i .. f - 1 : Depth(d, m) >= Depth(d, i)
  BY Ending
<1> HIDE DEF f
<1>2. i \in Nat /\ Size(d) \in Nat /\ Depth(d, i) \in Nat /\ Depth(d, e) \in Nat
  <2>1. e \in 0 .. Size(d)
    BY StartIs, ProperIs
  <2> QED BY <2>1, StartIs, ProperIs
<1>3. ~(f < e)
  <2>1. f < e => f \in i .. e - 1
    BY <1>1, <1>2
  <2> QED BY <1>1, <1>2, <2>1
<1>4. ~(e < f)
  <2>1. e < f => e \in i .. f - 1
    BY <1>1, <1>2
  <2> QED BY <1>1, <1>2, <2>1
<1>5. f = e
  BY <1>1, <1>2, <1>3, <1>4
<1> QED BY <1>5 DEF f

\* The element that an element is directly in is the last one a level above.
LEMMA ParentIsLast ==
  ASSUME NEW d \in ProperDescriptions, NEW i \in Starts(d)
  PROVE  /\ Parents[d][i] \in 0 .. i - 1
         /\ Parents[d][i] # 0 => /\ Parents[d][i] \in Starts(d)
                                 /\ Depth(d, Parents[d][i]) = Depth(d, i) - 1
         /\ \A j \in Starts(d) : j < i /\ Depth(d, j) = Depth(d, i) - 1 => j <= Parents[d][i]
<1> DEFINE Above == {j \in Starts(d) : j < i /\ Depths[d][j] = Depths[d][i] - 1}
<1>1. \A j \in Starts(d) : j \in Nat \ {0} /\ Depths[d][j] = Depth(d, j)
  <2>1. ASSUME NEW j \in Starts(d) PROVE j \in Nat \ {0} /\ Depths[d][j] = Depth(d, j)
    <3>1. j \in 1 .. Size(d)
      BY StartIs
    <3>2. j \in Nat \ {0}
      BY <3>1, ProperIs
    <3> QED BY <3>2 DEF Depth
  <2> QED BY <2>1
<1>2. Above = {j \in Starts(d) : j < i /\ Depth(d, j) = Depth(d, i) - 1}
  BY <1>1
<1>3. Parents[d][i] = Max({0} \cup Above)
  BY ProperIs DEF Parents
<1> HIDE DEF Above
<1>4. {0} \cup Above \subseteq 0 .. i - 1 /\ i - 1 \in Nat
  BY <1>1, <1>2
<1>5. PICK x \in {0} \cup Above : \A y \in {0} \cup Above : y <= x
  BY <1>4, Greatest
<1>6. {0} \cup Above \subseteq Nat
  BY <1>4
<1>7. Parents[d][i] = x
  BY <1>3, <1>5, <1>6, MaxIs
<1>8. x \in 0 .. i - 1
  BY <1>4
<1>9. x # 0 => x \in Starts(d) /\ Depth(d, x) = Depth(d, i) - 1
  BY <1>2
<1>10. \A j \in Starts(d) : j < i /\ Depth(d, j) = Depth(d, i) - 1 => j <= x
  BY <1>2, <1>5
<1> QED BY <1>7, <1>8, <1>9, <1>10

\* An element that is still open before another, and a level above it, is what it is in.
LEMMA ParentIs ==
  ASSUME NEW d \in ProperDescriptions, NEW i \in Starts(d), NEW a \in Starts(d), a < i,
         Depth(d, a) = Depth(d, i) - 1, \A m \in a .. i - 1 : Depth(d, m) >= Depth(d, a)
  PROVE  Parents[d][i] = a
<1> DEFINE p == Parents[d][i]
<1>1. /\ p \in 0 .. i - 1 /\ a <= p
      /\ p # 0 => p \in Starts(d) /\ Depth(d, p) = Depth(d, i) - 1
  BY ParentIsLast
<1> HIDE DEF p
<1>2. a \in Nat \ {0} /\ Depth(d, a) \in Nat /\ i \in Nat
  <2>1. /\ a \in 1 .. Size(d) /\ i \in 1 .. Size(d) /\ Size(d) \in Nat
        /\ Depth(d, a) \in Nat
    BY StartIs, ProperIs
  <2> QED BY <2>1
<1>3. p # 0 /\ p \in Nat
  BY <1>1, <1>2
<1>4. Depth(d, p - 1) = Depth(d, a) - 1 /\ Depth(d, p) = Depth(d, a)
  BY <1>1, <1>3, StartIs
<1>5. ~(a < p)
  <2>1. a < p => p - 1 \in a .. i - 1
    BY <1>1, <1>2, <1>3
  <2>2. a < p => Depth(d, p - 1) >= Depth(d, a)
    BY <2>1
  <2> QED BY <1>2, <1>4, <2>2
<1>6. p = a
  BY <1>1, <1>2, <1>3, <1>5
<1> QED BY <1>6 DEF p

\* What is at the first level is in nothing.
LEMMA ParentOfRoot ==
  ASSUME NEW d \in ProperDescriptions, NEW i \in Starts(d), Depth(d, i) = 1
  PROVE  Parents[d][i] = 0
<1>1. /\ Parents[d][i] # 0 => /\ Parents[d][i] \in Starts(d)
                              /\ Depth(d, Parents[d][i]) = Depth(d, i) - 1
  BY ParentIsLast
<1>2. \A j \in Starts(d) : Depth(d, j) # 0
  BY StartIs
<1> QED BY <1>1, <1>2

\* What is inside an element, at whatever level, is in it or in something inside it.
LEMMA ParentInside ==
  ASSUME NEW d \in ProperDescriptions, NEW s \in Starts(d), NEW i \in Starts(d),
         s < i, i < EndOf(d, s)
  PROVE  Parents[d][i] \in s .. i - 1 /\ Parents[d][i] \in Starts(d)
<1> DEFINE p == Parents[d][i]
           level == Depth(d, i) - 1
<1>1. /\ p \in 0 .. i - 1
      /\ p # 0 => p \in Starts(d)
      /\ \A j \in Starts(d) : j < i /\ Depth(d, j) = level => j <= p
  BY ParentIsLast
<1>2. /\ s \in 1 .. Size(d) /\ i \in 1 .. Size(d) /\ Size(d) \in Nat
      /\ Depth(d, s) \in Nat \ {0} /\ Depth(d, i) \in Nat \ {0} /\ Depth(d, i - 1) = level
  BY StartIs, ProperIs
<1>3. EndOf(d, s) \in Int
  BY <1>2, Ending
<1>4. i - 1 \in s .. EndOf(d, s) - 1
  BY <1>2, <1>3
<1>5. Depth(d, i - 1) >= Depth(d, s)
  BY <1>4, Ending
<1>6. level \in Int /\ level >= Depth(d, s)
  BY <1>2, <1>5
<1> HIDE DEF p
<1>7. s <= p
  <2>1. CASE level = Depth(d, s)
    BY <1>1, <2>1
  <2>2. CASE level # Depth(d, s)
    <3>1. Depth(d, s) < level /\ level <= Depth(d, i - 1)
      BY <1>2, <1>6, <2>2
    <3>2. s # i - 1
      BY <1>2, <3>1
    <3>3. s \in 0 .. Size(d) /\ i - 1 \in 0 .. Size(d) /\ s < i - 1
      BY <1>2, <3>2
    <3> HIDE DEF level
    <3>4. PICK k \in s + 1 .. i - 1 : k \in Starts(d) /\ Depth(d, k) = level
      BY <3>1, <3>3, <1>6, ProperIs, Rise
    <3>5. k <= p
      BY <1>1, <1>2, <3>4
    <3> QED BY <1>1, <1>2, <3>4, <3>5
  <2> QED BY <2>1, <2>2
<1>8. p # 0 /\ p \in s .. i - 1
  BY <1>1, <1>2, <1>7
<1> QED BY <1>1, <1>8 DEF p

\* What is directly in an element starts before it ends.
LEMMA ParentOpen ==
  ASSUME NEW d \in ProperDescriptions, NEW a \in Starts(d), NEW j \in Starts(d),
         Parents[d][j] = a
  PROVE  a < j /\ j < EndOf(d, a)
<1> DEFINE e == EndOf(d, a)
<1>1. /\ a \in 1 .. Size(d) /\ j \in 1 .. Size(d) /\ Size(d) \in Nat
      /\ Depth(d, a) \in Nat \ {0} /\ Depth(d, j) \in Nat \ {0}
      /\ Depth(d, j - 1) = Depth(d, j) - 1 /\ Type(d, j) = "start"
  BY StartIs, ProperIs
<1>2. /\ e \in a + 1 .. Size(d) /\ Depth(d, e) = Depth(d, a) - 1 /\ Type(d, e) = "end"
  BY Ending
<1> HIDE DEF e
<1>3. /\ a \in 0 .. j - 1 /\ Depth(d, a) = Depth(d, j) - 1
      /\ \A k \in Starts(d) : k < j /\ Depth(d, k) = Depth(d, j) - 1 => k <= a
  <2>1. a # 0
    BY <1>1
  <2> QED BY <2>1, ParentIsLast
<1>4. e # j
  BY <1>1, <1>2
<1>5. ASSUME e < j PROVE FALSE
  <2>1. e # j - 1
    BY <1>1, <1>2, <1>3
  <2>2. /\ e \in 0 .. Size(d) /\ j - 1 \in 0 .. Size(d) /\ e < j - 1
        /\ Depth(d, e) < Depth(d, a) /\ Depth(d, a) <= Depth(d, j - 1)
    BY <1>1, <1>2, <1>3, <1>5, <2>1
  <2>3. PICK k \in e + 1 .. j - 1 : k \in Starts(d) /\ Depth(d, k) = Depth(d, a)
    BY <1>1, <2>2, ProperIs, Rise
  <2>4. k <= a
    BY <1>1, <1>2, <1>3, <2>3
  <2> QED BY <1>1, <1>2, <2>3, <2>4
<1>6. a < j /\ j < e
  BY <1>1, <1>2, <1>3, <1>4, <1>5
<1> QED BY <1>6 DEF e

-----------------------------------------------------------------------------
(* What the invariant is made of.                                          *)

Structure == {"driver", "page", "group", "layout"}
Sheets == {"page", "layout"}

\* The elements that end before a place.
Ended(d, p) == {i \in Starts(d) : EndOf(d, i) < p}

\* The elements of a name directly in another, as far as they start before a place.
Children(d, a, name, p) ==
  {j \in Starts(d) : NameAt(d, j) = name /\ Parents[d][j] = a /\ j < p}

\* The signal that they name last.
SignalUpTo(d, a, p) ==
  LET last == Max({0} \cup Children(d, a, "signalID", p))
  IN  IF last = 0 THEN 0 ELSE Tokens[d][last].number

\* The elements that stand for a cell.
ItemsOf(d) ==
  {i \in Starts(d) :
     /\ NameAt(d, i) \in CellClasses \cup {"group"}
     /\ NameAt(d, i) = "circuitButton" => Tokens[d][i].mode # "unknown"
     /\ Parents[d][i] # 0 /\ NameAt(d, Parents[d][i]) \in Sheets}

\* A condition that counts, and the signal that it is about.
Good(d, j) == Tokens[d][j].second # NotANumber
SignalIn(d, j) == IF Tokens[d][j].number = NotANumber THEN 0 ELSE Tokens[d][j].number
ConditionsIn(d, a) ==
  {j \in Starts(d) : NameAt(d, j) = "enableIf" /\ Parents[d][j] = a /\ Good(d, j)}

IsSeq(s) == \E S : s \in Seq(S)

\* A function under way, with what it has read of a cell; and a cell.
IsFrame(f) ==
  /\ DOMAIN f = {"fn", "at", "layout", "draft"}
  /\ DOMAIN f.draft = DOMAIN NoDraft
IsCell(r) == {"at", "layout", "signal", "enabled"} \subseteq DOMAIN r

\* The k-th function under way reads the open element of its level, and knows where it
\* puts what it finds.
FrameOK(d, f, k, p, ls) ==
  /\ IsFrame(f)
  /\ f.at \in Starts(d) /\ f.at < p /\ Depth(d, f.at) = k - 1
  /\ \A m \in f.at .. p - 1 : Depth(d, m) >= k - 1
  /\ f.fn = NameAt(d, f.at) /\ f.fn \in Structure \cup CellClasses
  /\ f.fn # "driver" => f.layout \in DOMAIN ls
  /\ f.fn \in Sheets => ls[f.layout].at = f.at
  /\ f.fn = "page" => (ls[f.layout].window <=> Tokens[d][f.at].mode = "window")
  /\ f.fn \in CellClasses \cup {"group"} =>
       /\ Parents[d][f.at] # 0 /\ NameAt(d, Parents[d][f.at]) \in Sheets
       /\ ls[f.layout].at = Parents[d][f.at]
       /\ f.draft.class = f.fn
  /\ f.fn = "group" => f.draft.signal = 0

StackOK(d, fs, p, ls) ==
  /\ IsSeq(fs) /\ Len(fs) = Depth(d, p - 1) + 1
  /\ fs[1].fn = "restore"
  /\ \A k \in 2 .. Len(fs) : FrameOK(d, fs[k], k, p, ls)
  /\ \A k \in 1 .. Len(fs) - 1 : fs[k].fn \notin CellClasses

\* Or the end of the last page has taken the end of the driver with it: the loop over the
\* pages goes on, and nothing is left but text.
OverOK(d, fs, p) ==
  /\ IsSeq(fs) /\ Len(fs) = 2 /\ fs[1].fn = "restore" /\ fs[2].fn = "driver"
  /\ fs[2].at \in Starts(d) /\ fs[2].at < p /\ Depth(d, fs[2].at) = 1
  /\ Depth(d, p - 1) = 0

\* What is read of a cell so far: the last signal, and the condition.
DraftOK(d, f, p) ==
  /\ f.draft.signal = IF f.fn = "textLabel" THEN 0 ELSE SignalUpTo(d, f.at, p)
  /\ f.fn = "knob" =>
       LET C == Children(d, f.at, "enableIf", p)
       IN  /\ C = {} => ~f.draft.ifOk
           /\ \A j \in C : /\ f.draft.ifOk = Good(d, j)
                           /\ f.draft.ifSignal = SignalIn(d, j)
                           /\ Good(d, j) => f.draft.ifValue = Tokens[d][j].second

\* The cells are those of the elements that have ended, each once.
CellsOK(d, cs, ls, p) ==
  /\ IsSeq(cs) /\ IsSeq(ls)
  /\ \A c \in DOMAIN cs :
       /\ IsCell(cs[c]) /\ cs[c].at \in ItemsOf(d) \cap Ended(d, p)
       /\ cs[c].layout \in DOMAIN ls /\ ls[cs[c].layout].at = Parents[d][cs[c].at]
       /\ cs[c].signal = SignalOf(d, cs[c].at)
  /\ \A i \in ItemsOf(d) \cap Ended(d, p) : \E c \in DOMAIN cs : cs[c].at = i
  /\ \A b, c \in DOMAIN cs : cs[b].at = cs[c].at => b = c

\* So are the pages of one kind.
PagesOK(d, ps, ls, separate, p) ==
  /\ IsSeq(ps) /\ \A k \in DOMAIN ps : ps[k] \in DOMAIN ls
  /\ {ls[ps[k]].at : k \in DOMAIN ps} = PagesOf(d, separate) \cap Ended(d, p)

\* A signal leads to one of its cells.
MapsOK(u2s, s2u, cs) ==
  /\ DOMAIN u2s \subseteq DOMAIN cs
  /\ \A c \in DOMAIN u2s :
       /\ u2s[c] \in DOMAIN s2u /\ s2u[u2s[c]] \in DOMAIN u2s
       /\ u2s[s2u[u2s[c]]] = u2s[c]

\* Each entry of uiEnbaler is a condition of its knob, and no condition has none.
EnablersOK(d, en, cs) ==
  /\ \A s \in DOMAIN en :
       /\ en[s].ui \in DOMAIN cs
       /\ \E j \in ConditionsIn(d, cs[en[s].ui].at) :
            s = SignalIn(d, j) /\ en[s].value = Tokens[d][j].second
  /\ \A c \in DOMAIN cs : \A j \in ConditionsIn(d, cs[c].at) : SignalIn(d, j) \in DOMAIN en

\* A knob is enabled exactly if the value last reported is the one that enables it.
IsValue(v, w) == v = w

EnabledOK(en, cs, rep) ==
  \A s \in DOMAIN en \cap DOMAIN rep : cs[en[s].ui].enabled = IsValue(rep[s], en[s].value)

MadeOK(p) ==
  /\ CellsOK(doc, cells, layouts, p)
  /\ PagesOK(doc, pages, layouts, FALSE, p) /\ PagesOK(doc, windows, layouts, TRUE, p)
  /\ MapsOK(ui2signal, signal2ui, cells)
  /\ EnablersOK(doc, enablers, cells)

\* Without a panel there is nothing.
Nothing ==
  /\ doc = NoText /\ frames = <<>> /\ layouts = <<>> /\ cells = <<>> /\ pages = <<>>
  /\ windows = <<>> /\ enablers = <<>> /\ reported = <<>>

\* While a proper description is read no more than what is before pos is made, and all
\* of it; behind its end, all.
ReadingOK ==
  /\ ~failed /\ pos \in 1 .. Size(doc) + 1
  /\ StackOK(doc, frames, pos, layouts) \/ OverOK(doc, frames, pos)
  /\ Top.fn \in CellClasses => DraftOK(doc, Top, pos)
  /\ reported = <<>>

RestoreInv ==
  /\ tabs \in Nat /\ (tabs = 0 => Nothing)
  /\ DOMAIN reported \subseteq Reports \ NullSignals
  /\ tabs # 0 /\ Proper =>
       /\ reading => ReadingOK /\ MadeOK(pos)
       /\ ~reading => MadeOK(Size(doc) + 1) /\ EnabledOK(enablers, cells, reported)

-----------------------------------------------------------------------------
(* What a proper description may hold.                                     *)

\* Where the elements of a proper description may be, and what their fields may hold.
LEMMA Grammar ==
  ASSUME NEW d \in ProperDescriptions, NEW i \in Starts(d)
  PROVE  /\ Parents[d][i] = 0 <=> NameAt(d, i) = "driver"
         /\ \A j \in Starts(d) : Parents[d][i] = 0 /\ Parents[d][j] = 0 => i = j
         /\ NameAt(d, i) = "page" => NameAt(d, Parents[d][i]) = "driver"
         /\ NameAt(d, i) = "group" => NameAt(d, Parents[d][i]) \in Sheets
         /\ NameAt(d, i) = "layout" => /\ NameAt(d, Parents[d][i]) = "group"
                                       /\ Type(d, EndOf(d, i) + 1) # "end"
         /\ NameAt(d, i) \in {"page", "group", "layout"} => Parents[d][i] # 0
<1> DEFINE t == Tokens[d][i]
<1>1. /\ Parents[d][i] = 0 <=> t.name = "driver"
      /\ \A j \in Starts(d) : Parents[d][i] = 0 /\ Parents[d][j] = 0 => i = j
      /\ t.name \in DOMAIN Places =>
           Parents[d][i] # 0 /\ Tokens[d][Parents[d][i]].name \in Places[t.name]
      /\ t.name = "layout" => Tokens[d][EndOf(d, i) + 1].type # "end"
  BY DEF ProperDescriptions
<1>2. t.name = NameAt(d, i)
  BY DEF NameAt
<1> HIDE DEF t
<1>3. /\ DOMAIN Places = {"page", "group", "layout", "enableIf"}
      /\ Places["page"] = {"driver"} /\ Places["group"] = Sheets
      /\ Places["layout"] = {"group"}
  BY DEF Places, Sheets
<1>4. t.name \in {"page", "group", "layout"} =>
        Parents[d][i] # 0 /\ NameAt(d, Parents[d][i]) \in Places[t.name]
  BY <1>1, <1>3 DEF NameAt
<1> QED BY <1>1, <1>2, <1>3, <1>4 DEF Type

\* The signals and the conditions in it.
LEMMA FieldsHold ==
  ASSUME NEW d \in ProperDescriptions, NEW i \in Starts(d)
  PROVE  /\ NameAt(d, i) = "signalID" => SixteenBits(Tokens[d][i].number)
         /\ NameAt(d, i) = "enableIf" =>
              /\ Parents[d][i] # 0 /\ NameAt(d, Parents[d][i]) = "knob"
              /\ Tokens[d][i].number = NotANumber \/ SixteenBits(Tokens[d][i].number)
              /\ Tokens[d][i].second = NotANumber \/ SixteenBits(Tokens[d][i].second)
              /\ \A j \in Starts(d) : NameAt(d, j) = "enableIf" /\ Parents[d][j] = Parents[d][i]
                                        => j = i
<1> DEFINE t == Tokens[d][i]
<1>1. /\ t.name \in DOMAIN Places =>
           Parents[d][i] # 0 /\ Tokens[d][Parents[d][i]].name \in Places[t.name]
      /\ t.name = "signalID" => SixteenBits(t.number)
      /\ t.name = "enableIf" =>
           /\ t.number = NotANumber \/ SixteenBits(t.number)
           /\ t.second = NotANumber \/ SixteenBits(t.second)
           /\ \A j \in Starts(d) :
                Tokens[d][j].name = "enableIf" /\ Parents[d][j] = Parents[d][i] => j = i
  BY DEF ProperDescriptions
<1>2. "enableIf" \in DOMAIN Places /\ Places["enableIf"] = {"knob"}
  BY DEF Places
<1> QED BY <1>1, <1>2 DEF NameAt

\* The first level is the driver's.
LEMMA RootLevel ==
  ASSUME NEW d \in ProperDescriptions, NEW i \in Starts(d)
  PROVE  Depth(d, i) = 1 <=> Parents[d][i] = 0
<1>1. Depth(d, i) = 1 => Parents[d][i] = 0
  BY ParentOfRoot
<1>2. ASSUME Depth(d, i) # 1 PROVE Parents[d][i] # 0
  <2> DEFINE level == Depth(d, i) - 1
  <2>1. /\ i \in 1 .. Size(d) /\ Size(d) \in Nat
        /\ Depth(d, i) \in Nat \ {0} /\ Depth(d, i - 1) = level
    BY StartIs, ProperIs
  <2>2. /\ level \in Int /\ 0 < level /\ Depth(d, 0) = 0
    BY <1>2, <2>1 DEF Depth
  <2>3. i # 1
    BY <2>1, <2>2
  <2>4. 0 \in 0 .. Size(d) /\ i - 1 \in 0 .. Size(d) /\ 0 < i - 1
    BY <2>1, <2>3
  <2> HIDE DEF level
  <2>5. Depth(d, 0) < level /\ level <= Depth(d, i - 1)
    BY <2>1, <2>2
  <2>6. PICK k \in 0 + 1 .. i - 1 : k \in Starts(d) /\ Depth(d, k) = level
    BY <2>2, <2>4, <2>5, ProperIs, Rise
  <2>7. k < i /\ k > 0 /\ k \in Int
    BY <2>1, <2>6
  <2>8. k <= Parents[d][i] /\ Parents[d][i] \in 0 .. i - 1
    BY <2>6, <2>7, ParentIsLast DEF level
  <2> QED BY <2>1, <2>7, <2>8
<1> QED BY <1>1, <1>2

\* Inside an element that is none of the structure there is none of the structure.
LEMMA NoStructure ==
  ASSUME NEW d \in ProperDescriptions, NEW s \in Starts(d), NameAt(d, s) \notin Structure,
         NEW i \in Starts(d), s < i, i < EndOf(d, s)
  PROVE  /\ NameAt(d, i) \notin Structure
         /\ Parents[d][i] # 0 /\ NameAt(d, Parents[d][i]) \notin Structure
<1> DEFINE Bad == {j \in Starts(d) : /\ s < j /\ j < EndOf(d, s)
                                     /\ NameAt(d, j) \in Structure}
<1>1. \A j \in Starts(d) : j \in Nat \ {0}
  <2>1. ASSUME NEW j \in Starts(d) PROVE j \in Nat \ {0}
    BY StartIs, ProperIs
  <2> QED BY <2>1
<1>2. EndOf(d, s) \in Int
  BY <1>1, Ending
<1>3. Bad = {}
  <2>1. SUFFICES ASSUME Bad # {} PROVE FALSE
    OBVIOUS
  <2>2. Bad \subseteq Nat
    BY <1>1
  <2>3. PICK x \in Bad : \A y \in Bad : x <= y
    BY <2>1, <2>2, Least
  <2>4. x \in Starts(d) /\ s < x /\ x < EndOf(d, s) /\ NameAt(d, x) \in Structure
    OBVIOUS
  <2>5. Parents[d][x] \in s .. x - 1 /\ Parents[d][x] \in Starts(d)
    BY <2>4, ParentInside
  <2>6. Parents[d][x] # 0
    BY <1>1, <2>5
  <2>7. NameAt(d, Parents[d][x]) \in Structure
    BY <2>4, <2>6, Grammar DEF Structure, Sheets
  <2>8. Parents[d][x] # s
    BY <2>7
  <2>9. Parents[d][x] \in Nat /\ s \in Nat /\ x \in Nat
    BY <1>1, <2>4, <2>5
  <2>10. s < Parents[d][x] /\ Parents[d][x] < x /\ Parents[d][x] < EndOf(d, s)
    BY <1>2, <2>4, <2>5, <2>8, <2>9
  <2>11. Parents[d][x] \in Bad
    BY <2>5, <2>7, <2>10
  <2> QED BY <2>3, <2>9, <2>10, <2>11
<1>4. NameAt(d, i) \notin Structure
  BY <1>3
<1>5. Parents[d][i] \in s .. i - 1 /\ Parents[d][i] \in Starts(d)
  BY ParentInside
<1>6. Parents[d][i] # 0
  BY <1>1, <1>5
<1>7. NameAt(d, Parents[d][i]) \notin Structure
  <2>1. CASE Parents[d][i] = s
    BY <2>1
  <2>2. CASE Parents[d][i] # s
    <3>1. Parents[d][i] \in Nat /\ s \in Nat /\ i \in Nat
      BY <1>1, <1>5
    <3>2. s < Parents[d][i] /\ Parents[d][i] < EndOf(d, s)
      BY <1>2, <1>5, <2>2, <3>1
    <3> QED BY <1>3, <1>5, <3>2
  <2> QED BY <2>1, <2>2
<1> QED BY <1>4, <1>6, <1>7

-----------------------------------------------------------------------------
(* What has ended, and what is directly in an element, as the reader goes  *)
(* on.                                                                     *)

\* A token that ends nothing ends nothing.
LEMMA EndedTick ==
  ASSUME NEW d \in ProperDescriptions, NEW p \in 1 .. Size(d), Type(d, p) # "end"
  PROVE  Ended(d, p + 1) = Ended(d, p)
<1>1. ASSUME NEW i \in Starts(d) PROVE EndOf(d, i) < p + 1 <=> EndOf(d, i) < p
  <2>1. EndOf(d, i) # p
    BY Ending
  <2>2. EndOf(d, i) \in Int
    BY Ending, StartIs, ProperIs
  <2>3. p \in Int
    BY ProperIs
  <2> QED BY <2>1, <2>2, <2>3
<1> QED BY <1>1 DEF Ended

\* The end of the innermost open element ends this one.
LEMMA EndedLeave ==
  ASSUME NEW d \in ProperDescriptions, NEW p \in 1 .. Size(d), Type(d, p) = "end",
         NEW a \in Starts(d), a < p, Depth(d, p - 1) = Depth(d, a),
         \A m \in a .. p - 1 : Depth(d, m) >= Depth(d, a)
  PROVE  EndOf(d, a) = p /\ Ended(d, p + 1) = Ended(d, p) \cup {a} /\ a \notin Ended(d, p)
<1>1. /\ p \in Nat /\ Size(d) \in Nat /\ a \in Nat /\ d \in Descriptions
      /\ Depth(d, a) \in Nat
  BY ProperIs, StartIs
<1>2. Depth(d, p) = Depth(d, a) - 1
  BY <1>1, DepthStep
<1>3. EndOf(d, a) = p
  BY <1>1, <1>2, EndIs
<1>4. ASSUME NEW i \in Starts(d), EndOf(d, i) = p PROVE i = a
  <2>1. /\ i \in Nat /\ i < p /\ Depth(d, p) = Depth(d, i) - 1
        /\ Depth(d, i) \in Nat /\ Depth(d, i - 1) = Depth(d, i) - 1
        /\ \A m \in i .. p - 1 : Depth(d, m) >= Depth(d, i)
    BY <1>1, <1>4, Ending, StartIs
  <2>2. Depth(d, i) = Depth(d, a) /\ Depth(d, a - 1) = Depth(d, a) - 1
    BY <1>1, <1>2, <2>1, StartIs
  <2>3. ~(i < a)
    <3>1. i < a => a - 1 \in i .. p - 1
      BY <1>1, <2>1
    <3> QED BY <1>1, <2>1, <2>2, <3>1
  <2>4. ~(a < i)
    <3>1. a < i => i - 1 \in a .. p - 1
      BY <1>1, <2>1
    <3> QED BY <1>1, <2>1, <2>2, <3>1
  <2> QED BY <1>1, <2>1, <2>3, <2>4
<1>5. ASSUME NEW i \in Starts(d)
      PROVE  EndOf(d, i) < p + 1 <=> EndOf(d, i) < p \/ i = a
  <2>1. EndOf(d, i) \in Int
    BY Ending, StartIs, ProperIs
  <2>2. EndOf(d, i) = p <=> i = a
    BY <1>3, <1>4
  <2> QED BY <1>1, <2>1, <2>2
<1>6. ~(p < p)
  BY <1>1
<1>7. a \notin Ended(d, p)
  BY <1>3, <1>6 DEF Ended
<1>8. Ended(d, p + 1) = Ended(d, p) \cup {a}
  BY <1>5 DEF Ended
<1> QED BY <1>3, <1>7, <1>8

\* With an element that is skipped end those inside it and no others.
LEMMA EndedSkip ==
  ASSUME NEW d \in ProperDescriptions, NEW s \in Starts(d), NEW i \in Starts(d)
  PROVE  i \in Ended(d, EndOf(d, s) + 1)
           => i \in Ended(d, s) \/ i = s \/ (s < i /\ i < EndOf(d, s))
<1> DEFINE e == EndOf(d, s)
           f == EndOf(d, i)
<1>1. /\ s \in Nat /\ i \in Nat /\ Size(d) \in Nat /\ i \in 1 .. Size(d) /\ s \in 1 .. Size(d)
      /\ Depth(d, s) \in Nat /\ Depth(d, i) \in Nat /\ Depth(d, s - 1) = Depth(d, s) - 1
  BY ProperIs, StartIs
<1>2. /\ e \in s + 1 .. Size(d) /\ Depth(d, e) = Depth(d, s) - 1
      /\ \A m \in s .. e - 1 : Depth(d, m) >= Depth(d, s)
  BY Ending
<1>3. /\ f \in i + 1 .. Size(d) /\ Depth(d, f) = Depth(d, i) - 1
      /\ \A m \in i .. f - 1 : Depth(d, m) >= Depth(d, i)
  BY Ending
<1> HIDE DEF e, f
<1>4. SUFFICES ASSUME f < e + 1, ~(f < s), i # s PROVE s < i /\ i < e
  BY DEF Ended, e, f
<1>5. f # s
  BY Ending, StartIs DEF f
<1>6. ASSUME i < s PROVE FALSE
  <2>1. s - 1 \in i .. f - 1
    BY <1>1, <1>2, <1>3, <1>4, <1>5, <1>6
  <2>2. Depth(d, s) - 1 >= Depth(d, i)
    BY <1>1, <1>3, <2>1
  <2>3. f \in s .. e - 1 \/ f = e
    BY <1>1, <1>2, <1>3, <1>4
  <2> QED BY <1>1, <1>2, <1>3, <2>2, <2>3
<1> QED BY <1>1, <1>2, <1>3, <1>4, <1>6

\* None of the structure, and no cell, ends with an element that is skipped.
LEMMA NothingSkipped ==
  ASSUME NEW d \in ProperDescriptions, NEW s \in Starts(d), NameAt(d, s) \notin Structure,
         NameAt(d, s) \in CellClasses => /\ Parents[d][s] # 0
                                         /\ NameAt(d, Parents[d][s]) \notin Sheets
  PROVE  /\ ItemsOf(d) \cap Ended(d, EndOf(d, s) + 1) = ItemsOf(d) \cap Ended(d, s)
         /\ \A separate \in BOOLEAN :
              PagesOf(d, separate) \cap Ended(d, EndOf(d, s) + 1)
                = PagesOf(d, separate) \cap Ended(d, s)
<1>1. Ended(d, s) \subseteq Ended(d, EndOf(d, s) + 1)
  <2>1. s \in Int /\ EndOf(d, s) \in Int /\ s < EndOf(d, s)
    BY Ending, StartIs, ProperIs
  <2>2. ASSUME NEW i \in Ended(d, s) PROVE i \in Ended(d, EndOf(d, s) + 1)
    <3>1. i \in Starts(d) /\ EndOf(d, i) < s
      BY DEF Ended
    <3>2. EndOf(d, i) \in Int
      BY <3>1, Ending, StartIs, ProperIs
    <3>3. EndOf(d, i) < EndOf(d, s) + 1
      BY <2>1, <3>1, <3>2
    <3> QED BY <3>1, <3>3 DEF Ended
  <2> QED BY <2>2
<1>2. ASSUME NEW i \in Starts(d), i \in Ended(d, EndOf(d, s) + 1), i \notin Ended(d, s)
      PROVE  i \notin ItemsOf(d) /\ NameAt(d, i) # "page"
  <2>1. i = s \/ (s < i /\ i < EndOf(d, s))
    BY <1>2, EndedSkip
  <2>2. CASE i = s
    BY <2>2 DEF ItemsOf, Structure
  <2>3. CASE s < i /\ i < EndOf(d, s)
    <3>1. /\ NameAt(d, i) \notin Structure
          /\ Parents[d][i] # 0 /\ NameAt(d, Parents[d][i]) \notin Structure
      BY <2>3, NoStructure
    <3> QED BY <3>1 DEF ItemsOf, Structure, Sheets
  <2> QED BY <2>1, <2>2, <2>3
<1>3. ItemsOf(d) \subseteq Starts(d) /\ Ended(d, EndOf(d, s) + 1) \subseteq Starts(d)
  BY DEF ItemsOf, Ended
<1>4. ASSUME NEW separate \in BOOLEAN, NEW i \in PagesOf(d, separate)
      PROVE  i \in Starts(d) /\ NameAt(d, i) = "page"
  BY DEF PagesOf, NameAt
<1>5. ItemsOf(d) \cap Ended(d, EndOf(d, s) + 1) = ItemsOf(d) \cap Ended(d, s)
  BY <1>1, <1>2, <1>3
<1>6. \A separate \in BOOLEAN :
        PagesOf(d, separate) \cap Ended(d, EndOf(d, s) + 1) = PagesOf(d, separate) \cap Ended(d, s)
  BY <1>1, <1>2, <1>4
<1> QED BY <1>5, <1>6

\* What is directly in an element does not change with a token that starts nothing,
LEMMA ChildrenTick ==
  ASSUME NEW d \in ProperDescriptions, NEW p \in 1 .. Size(d), Type(d, p) # "start",
         NEW a, NEW name
  PROVE  Children(d, a, name, p + 1) = Children(d, a, name, p)
<1>1. \A j \in Starts(d) : j # p /\ j \in Int
  BY StartIs, ProperIs
<1>2. p \in Int
  BY ProperIs
<1> QED BY <1>1, <1>2 DEF Children

\* and by an element that is passed if this is directly in it.
LEMMA ChildrenSkip ==
  ASSUME NEW d \in ProperDescriptions, NEW s \in Starts(d), NEW a \in Starts(d),
         Parents[d][s] = a, NEW name
  PROVE  Children(d, a, name, EndOf(d, s) + 1)
           = Children(d, a, name, s) \cup (IF NameAt(d, s) = name THEN {s} ELSE {})
<1> DEFINE e == EndOf(d, s)
<1>1. s \in Nat /\ a \in Nat /\ a < s
  BY StartIs, ProperIs, ParentOpen
<1>2. e \in Int /\ s < e /\ Type(d, e) = "end"
  BY <1>1, Ending
<1>3. ASSUME NEW j \in Starts(d), Parents[d][j] = a PROVE j < e + 1 <=> j < s \/ j = s
  <2>1. j \in Nat /\ Type(d, j) = "start"
    BY StartIs, ProperIs
  <2>2. j # e
    BY <1>2, <2>1
  <2>3. ~(s < j /\ j < e)
    <3>1. s < j /\ j < e => a \in s .. j - 1
      BY <1>3, ParentInside
    <3> QED BY <1>1, <2>1, <3>1
  <2> QED BY <1>1, <1>2, <2>1, <2>2, <2>3
<1> HIDE DEF e
<1>4. Children(d, a, name, e + 1)
        = Children(d, a, name, s) \cup (IF NameAt(d, s) = name THEN {s} ELSE {})
  BY <1>3 DEF Children
<1> QED BY <1>4 DEF e

\* Before its first token nothing is in it,
LEMMA ChildrenNone ==
  ASSUME NEW d \in ProperDescriptions, NEW a \in Starts(d), NEW name
  PROVE  Children(d, a, name, a + 1) = {}
<1>1. \A j \in Starts(d) : Parents[d][j] = a => a < j /\ j \in Int
  BY ParentOpen, StartIs, ProperIs
<1>2. a \in Int
  BY StartIs, ProperIs
<1>3. \A j \in Starts(d) : Parents[d][j] = a => ~(j < a + 1)
  BY <1>1, <1>2
<1> QED BY <1>3 DEF Children

\* and at its end everything.
LEMMA ChildrenAll ==
  ASSUME NEW d \in ProperDescriptions, NEW a \in Starts(d), NEW name
  PROVE  Children(d, a, name, EndOf(d, a))
           = {j \in Starts(d) : NameAt(d, j) = name /\ Parents[d][j] = a}
<1>1. \A j \in Starts(d) : Parents[d][j] = a => j < EndOf(d, a)
  BY ParentOpen
<1> QED BY <1>1 DEF Children

-----------------------------------------------------------------------------
(* What is read of a cell.                                                 *)

\* A number of sixteen bits is not cut.
LEMMA NotCut ==
  ASSUME NEW n, SixteenBits(n)
  PROVE  n \in Int /\ n % 65536 = n
BY DEF SixteenBits

\* The signal that an element names last, as its fields are passed.
LEMMA SignalRead ==
  ASSUME NEW d \in ProperDescriptions, NEW s \in Starts(d), NEW a \in Starts(d),
         Parents[d][s] = a
  PROVE  SignalUpTo(d, a, EndOf(d, s) + 1)
           = IF NameAt(d, s) = "signalID" THEN Tokens[d][s].number ELSE SignalUpTo(d, a, s)
<1> DEFINE C == Children(d, a, "signalID", s)
<1>1. Children(d, a, "signalID", EndOf(d, s) + 1)
        = C \cup (IF NameAt(d, s) = "signalID" THEN {s} ELSE {})
  BY ChildrenSkip
<1>2. CASE NameAt(d, s) = "signalID"
  <2>1. Children(d, a, "signalID", EndOf(d, s) + 1) = C \cup {s}
    BY <1>1, <1>2
  <2>2. s \in Nat \ {0}
    BY StartIs, ProperIs
  <2>3. \A j \in C : j \in Nat /\ j < s
    BY StartIs, ProperIs DEF Children
  <2> HIDE DEF C
  <2>4. {0} \cup (C \cup {s}) \subseteq Nat /\ \A y \in {0} \cup (C \cup {s}) : y <= s
    BY <2>2, <2>3
  <2>5. Max({0} \cup (C \cup {s})) = s
    BY <2>4, MaxIs
  <2> QED BY <1>2, <2>1, <2>2, <2>5 DEF SignalUpTo
<1>3. CASE NameAt(d, s) # "signalID"
  <2>1. Children(d, a, "signalID", EndOf(d, s) + 1) = C
    BY <1>1, <1>3
  <2> QED BY <1>3, <2>1 DEF SignalUpTo
<1> QED BY <1>2, <1>3

\* Nothing is named before the first token,
LEMMA SignalFirst ==
  ASSUME NEW d \in ProperDescriptions, NEW a \in Starts(d)
  PROVE  SignalUpTo(d, a, a + 1) = 0
<1>1. Children(d, a, "signalID", a + 1) = {}
  BY ChildrenNone
<1>2. Max({0} \cup {}) = 0
  <2>1. {0} \cup {} \subseteq Nat /\ 0 \in {0} \cup {} /\ \A y \in {0} \cup {} : y <= 0
    OBVIOUS
  <2> QED BY <2>1, MaxIs
<1> QED BY <1>1, <1>2 DEF SignalUpTo

\* and at the end it is the signal of the cell.
LEMMA SignalLast ==
  ASSUME NEW d \in ProperDescriptions, NEW a \in Starts(d)
  PROVE  SignalOf(d, a) = IF NameAt(d, a) \in {"textLabel", "group"} THEN 0
                          ELSE SignalUpTo(d, a, EndOf(d, a))
<1> DEFINE C == {j \in Starts(d) : NameAt(d, j) = "signalID" /\ Parents[d][j] = a}
           last == Max({0} \cup C)
<1>1. Children(d, a, "signalID", EndOf(d, a)) = C
  BY ChildrenAll
<1>2. SignalUpTo(d, a, EndOf(d, a)) = IF last = 0 THEN 0 ELSE Tokens[d][last].number
  BY <1>1 DEF SignalUpTo
<1>3. SignalOf(d, a) = IF last = 0 \/ NameAt(d, a) \in {"textLabel", "group"} THEN 0
                       ELSE Tokens[d][last].number
  BY DEF SignalOf, NameAt
<1> QED BY <1>2, <1>3

\* The condition of an element, as its fields are passed.
LEMMA ConditionRead ==
  ASSUME NEW d \in ProperDescriptions, NEW s \in Starts(d), NEW a \in Starts(d),
         Parents[d][s] = a
  PROVE  Children(d, a, "enableIf", EndOf(d, s) + 1)
           = IF NameAt(d, s) = "enableIf" THEN {s} ELSE Children(d, a, "enableIf", s)
<1> DEFINE C == Children(d, a, "enableIf", s)
<1>1. Children(d, a, "enableIf", EndOf(d, s) + 1)
        = C \cup (IF NameAt(d, s) = "enableIf" THEN {s} ELSE {})
  BY ChildrenSkip
<1>2. ASSUME NameAt(d, s) = "enableIf" PROVE C = {}
  <2>1. \A j \in C : j \in Starts(d) /\ NameAt(d, j) = "enableIf" /\ Parents[d][j] = a /\ j < s
    BY DEF Children
  <2>2. \A j \in Starts(d) : NameAt(d, j) = "enableIf" /\ Parents[d][j] = a => j = s
    BY <1>2, FieldsHold
  <2>3. ~(s < s)
    BY StartIs, ProperIs
  <2> QED BY <2>1, <2>2, <2>3
<1> HIDE DEF C
<1>3. CASE NameAt(d, s) = "enableIf"
  BY <1>1, <1>2, <1>3
<1>4. CASE NameAt(d, s) # "enableIf"
  BY <1>1, <1>4 DEF C
<1> QED BY <1>3, <1>4

\* The fields that the function of a class of cell keeps.
Keeps(class, fields) ==
  /\ class \in CellClasses
  /\ fields \subseteq {"signalID", "onQuestion", "offQuestion", "enableIf"}
  /\ IF class = "textLabel" THEN fields = {} ELSE "signalID" \in fields
  /\ class = "knob" => "enableIf" \in fields

\* What a field changes of a draft.
LEMMA FieldGoesIn ==
  ASSUME NEW d \in ProperDescriptions, NEW s \in Starts(d),
         NEW draft, DOMAIN draft = DOMAIN NoDraft, NEW new,
         new = WithField(draft, Tokens[d][s]),
         NameAt(d, s) \in {"signalID", "onQuestion", "offQuestion", "enableIf"}
  PROVE  /\ DOMAIN new = DOMAIN NoDraft /\ new.class = draft.class
         /\ new.signal = IF NameAt(d, s) = "signalID" THEN Tokens[d][s].number ELSE draft.signal
         /\ NameAt(d, s) # "enableIf" => /\ new.ifOk = draft.ifOk
                                         /\ new.ifSignal = draft.ifSignal
                                         /\ new.ifValue = draft.ifValue
         /\ NameAt(d, s) = "enableIf" =>
              /\ new.ifOk = Good(d, s) /\ new.ifSignal = SignalIn(d, s)
              /\ Good(d, s) => new.ifValue = Tokens[d][s].second
<1> DEFINE t == Tokens[d][s]
<1>0. DOMAIN NoDraft = {"class", "signal", "ifOk", "ifSignal", "ifValue", "onAsks", "offAsks"}
  BY DEF NoDraft, NewCell
<1>1. CASE NameAt(d, s) = "signalID"
  <2>1. new = [draft EXCEPT !.signal = t.number % 65536]
    BY <1>1 DEF WithField, NameAt
  <2>2. t.number % 65536 = t.number
    BY <1>1, FieldsHold, NotCut
  <2>3. new = [draft EXCEPT !.signal = t.number]
    BY <2>1, <2>2
  <2> QED BY <1>0, <1>1, <2>3
<1>2. CASE NameAt(d, s) = "onQuestion"
  <2>1. new = [draft EXCEPT !.onAsks = (t.number = 1)]
    BY <1>2 DEF WithField, NameAt
  <2> QED BY <1>0, <1>2, <2>1
<1>3. CASE NameAt(d, s) = "offQuestion"
  <2>1. new = [draft EXCEPT !.offAsks = (t.number = 1)]
    BY <1>3 DEF WithField, NameAt
  <2> QED BY <1>0, <1>3, <2>1
<1>4. CASE NameAt(d, s) = "enableIf"
  <2> DEFINE signal == IF t.number = NotANumber THEN 0 ELSE t.number % 65536
             value == IF t.second = NotANumber THEN 0 ELSE t.second
  <2>1. new = [draft EXCEPT !.ifOk = Good(d, s), !.ifSignal = signal, !.ifValue = value]
    BY <1>4 DEF WithField, NameAt, Good
  <2>2. signal = SignalIn(d, s)
    <3>1. t.number = NotANumber \/ SixteenBits(t.number)
      BY <1>4, FieldsHold
    <3>2. t.number # NotANumber => t.number % 65536 = t.number
      BY <3>1, NotCut
    <3> QED BY <3>2 DEF SignalIn
  <2>3. Good(d, s) => value = Tokens[d][s].second
    BY DEF Good
  <2> HIDE DEF signal, value
  <2>4. /\ DOMAIN new = DOMAIN NoDraft /\ new.class = draft.class
        /\ new.signal = draft.signal /\ new.ifOk = Good(d, s)
        /\ new.ifSignal = signal /\ new.ifValue = value
    BY <1>0, <2>1
  <2> QED BY <1>4, <2>2, <2>3, <2>4
<1> QED BY <1>1, <1>2, <1>3, <1>4

\* What a function has read behind a field.
After(d, f, s, fields) ==
  IF NameAt(d, s) \in fields THEN [f EXCEPT !.draft = WithField(f.draft, Tokens[d][s])] ELSE f

\* A field that is read, or skipped, leaves the draft in step with what is passed.
LEMMA DraftField ==
  ASSUME NEW d \in ProperDescriptions, NEW s \in Starts(d), NEW f, IsFrame(f),
         f.at \in Starts(d), Parents[d][s] = f.at, f.fn = NameAt(d, f.at),
         DraftOK(d, f, s), NEW fields, Keeps(f.fn, fields),
         NEW g, g = After(d, f, s, fields)
  PROVE  /\ IsFrame(g) /\ g.at = f.at /\ g.fn = f.fn /\ g.layout = f.layout
         /\ g.draft.class = f.draft.class
         /\ DraftOK(d, g, EndOf(d, s) + 1)
<1> DEFINE t == Tokens[d][s]
           p == EndOf(d, s) + 1
           new == WithField(f.draft, t)
           a == f.at
<1>0. a \in Starts(d) /\ Parents[d][s] = a
  OBVIOUS
<1>1. CASE NameAt(d, s) \in fields
  <2>1. NameAt(d, s) \in {"signalID", "onQuestion", "offQuestion", "enableIf"}
    BY <1>1 DEF Keeps
  <2>2. /\ DOMAIN new = DOMAIN NoDraft /\ new.class = f.draft.class
        /\ new.signal = IF NameAt(d, s) = "signalID" THEN Tokens[d][s].number
                        ELSE f.draft.signal
        /\ NameAt(d, s) # "enableIf" => /\ new.ifOk = f.draft.ifOk
                                        /\ new.ifSignal = f.draft.ifSignal
                                        /\ new.ifValue = f.draft.ifValue
        /\ NameAt(d, s) = "enableIf" =>
             /\ new.ifOk = Good(d, s) /\ new.ifSignal = SignalIn(d, s)
             /\ Good(d, s) => new.ifValue = Tokens[d][s].second
    BY <2>1, FieldGoesIn DEF IsFrame
  <2> HIDE DEF new
  <2>3. g = [f EXCEPT !.draft = new]
    BY <1>1 DEF new, After
  <2>4. /\ DOMAIN g = {"fn", "at", "layout", "draft"} /\ g.draft = new
        /\ g.at = f.at /\ g.fn = f.fn /\ g.layout = f.layout
    BY <2>3 DEF IsFrame
  <2>5. IsFrame(g) /\ g.draft.class = f.draft.class
    BY <2>2, <2>4 DEF IsFrame
  <2>6. f.fn # "textLabel"
    BY <1>1 DEF Keeps
  <2>7. f.draft.signal = SignalUpTo(d, a, s)
    BY <2>6 DEF DraftOK
  <2>8. new.signal = SignalUpTo(d, a, p)
    BY <1>0, <2>2, <2>7, SignalRead
  <2>9. ASSUME f.fn = "knob"
        PROVE  LET C == Children(d, a, "enableIf", p)
               IN  /\ C = {} => ~new.ifOk
                   /\ \A j \in C : /\ new.ifOk = Good(d, j)
                                   /\ new.ifSignal = SignalIn(d, j)
                                   /\ Good(d, j) => new.ifValue = Tokens[d][j].second
    <3> DEFINE B == Children(d, a, "enableIf", s)
    <3>1. Children(d, a, "enableIf", p) = IF NameAt(d, s) = "enableIf" THEN {s} ELSE B
      BY <1>0, ConditionRead
    <3>2. CASE NameAt(d, s) = "enableIf"
      BY <2>2, <3>1, <3>2
    <3>3. CASE NameAt(d, s) # "enableIf"
      <4>1. /\ B = {} => ~f.draft.ifOk
            /\ \A j \in B : /\ f.draft.ifOk = Good(d, j)
                            /\ f.draft.ifSignal = SignalIn(d, j)
                            /\ Good(d, j) => f.draft.ifValue = Tokens[d][j].second
        BY <2>9 DEF DraftOK
      <4> QED BY <2>2, <3>1, <3>3, <4>1
    <3> QED BY <3>2, <3>3
  <2>10. DraftOK(d, g, p)
    BY <2>4, <2>6, <2>8, <2>9 DEF DraftOK
  <2> QED BY <2>4, <2>5, <2>10
<1>2. CASE NameAt(d, s) \notin fields
  <2>1. g = f
    BY <1>2 DEF After
  <2>2. f.fn # "textLabel" => SignalUpTo(d, a, p) = SignalUpTo(d, a, s)
    <3>1. f.fn # "textLabel" => NameAt(d, s) # "signalID"
      BY <1>2 DEF Keeps
    <3> QED BY <1>0, <3>1, SignalRead
  <2>3. f.fn = "knob" => Children(d, a, "enableIf", p) = Children(d, a, "enableIf", s)
    <3>1. f.fn = "knob" => NameAt(d, s) # "enableIf"
      BY <1>2 DEF Keeps
    <3> QED BY <1>0, <3>1, ConditionRead
  <2>4. DraftOK(d, f, p)
    BY <2>2, <2>3 DEF DraftOK
  <2> QED BY <2>1, <2>4
<1> QED BY <1>1, <1>2

\* Text between the fields changes nothing.
LEMMA DraftTick ==
  ASSUME NEW d \in ProperDescriptions, NEW p \in 1 .. Size(d), Type(d, p) # "start", NEW f,
         DraftOK(d, f, p)
  PROVE  DraftOK(d, f, p + 1)
<1>1. \A name : Children(d, f.at, name, p + 1) = Children(d, f.at, name, p)
  BY ChildrenTick
<1>2. Children(d, f.at, "signalID", p + 1) = Children(d, f.at, "signalID", p)
  BY <1>1
<1>3. SignalUpTo(d, f.at, p + 1) = SignalUpTo(d, f.at, p)
  BY <1>2 DEF SignalUpTo
<1>4. Children(d, f.at, "enableIf", p + 1) = Children(d, f.at, "enableIf", p)
  BY <1>1
<1> QED BY <1>3, <1>4 DEF DraftOK

\* A function that has just been called has read nothing.
LEMMA DraftFirst ==
  ASSUME NEW d \in ProperDescriptions, NEW a \in Starts(d), NEW f, f.at = a,
         f.draft = NewCell(NameAt(d, a))
  PROVE  DraftOK(d, f, a + 1)
<1>1. f.draft.signal = 0 /\ ~f.draft.ifOk
  BY DEF NewCell
<1>2. SignalUpTo(d, a, a + 1) = 0 /\ Children(d, a, "enableIf", a + 1) = {}
  BY SignalFirst, ChildrenNone
<1> QED BY <1>1, <1>2 DEF DraftOK

-----------------------------------------------------------------------------
(* What is made.                                                           *)

\* One more at the end of a sequence.
LEMMA OneMore ==
  ASSUME NEW s, IsSeq(s), NEW x
  PROVE  /\ IsSeq(Append(s, x)) /\ Len(s) \in Nat /\ DOMAIN s = 1 .. Len(s)
         /\ DOMAIN Append(s, x) = 1 .. Len(s) + 1 /\ Len(Append(s, x)) = Len(s) + 1
         /\ \A k \in DOMAIN s : Append(s, x)[k] = s[k]
         /\ Append(s, x)[Len(s) + 1] = x
<1>1. PICK S : s \in Seq(S)
  BY DEF IsSeq
<1>2. s \in Seq(S \cup {x})
  BY <1>1
<1>3. Append(s, x) \in Seq(S \cup {x})
  BY <1>2
<1>4. IsSeq(Append(s, x))
  BY <1>3 DEF IsSeq
<1> QED BY <1>2, <1>4

\* The cells are the same, and the places as far as they matter.
LEMMA CellsStay ==
  ASSUME NEW d, NEW cs, NEW ls, NEW p, NEW q, CellsOK(d, cs, ls, p),
         ItemsOf(d) \cap Ended(d, q) = ItemsOf(d) \cap Ended(d, p)
  PROVE  CellsOK(d, cs, ls, q)
BY DEF CellsOK

\* A page more.
LEMMA CellsOfMore ==
  ASSUME NEW d, NEW cs, NEW ls, NEW p, CellsOK(d, cs, ls, p), NEW x
  PROVE  CellsOK(d, cs, Append(ls, x), p)
<1>1. IsSeq(ls)
  BY DEF CellsOK
<1>2. /\ IsSeq(Append(ls, x)) /\ \A k \in DOMAIN ls : k \in DOMAIN Append(ls, x)
      /\ \A k \in DOMAIN ls : Append(ls, x)[k] = ls[k]
  BY <1>1, OneMore
<1> HIDE DEF CellsOK
<1> DEFINE ms == Append(ls, x)
<1>3. IsSeq(ms) /\ \A k \in DOMAIN ls : k \in DOMAIN ms /\ ms[k] = ls[k]
  BY <1>2
<1> HIDE DEF ms
<1>4. CellsOK(d, cs, ms, p)
  BY <1>3 DEF CellsOK
<1> QED BY <1>4 DEF ms

\* The cell of an element that ends.
LEMMA CellMade ==
  ASSUME NEW d, NEW cs, NEW ls, NEW p, NEW q, CellsOK(d, cs, ls, p), NEW a,
         a \in ItemsOf(d), a \notin Ended(d, p), Ended(d, q) = Ended(d, p) \cup {a},
         NEW new, IsCell(new), new.at = a, new.layout \in DOMAIN ls,
         ls[new.layout].at = Parents[d][a], new.signal = SignalOf(d, a)
  PROVE  CellsOK(d, Append(cs, new), ls, q)
<1> DEFINE ds == Append(cs, new)
           n == Len(cs) + 1
<1>1. /\ IsSeq(ds) /\ n \in DOMAIN ds /\ ds[n] = new
      /\ \A c \in DOMAIN ds : c \in DOMAIN cs \/ c = n
      /\ \A c \in DOMAIN cs : c \in DOMAIN ds /\ ds[c] = cs[c]
  BY OneMore DEF CellsOK
<1> HIDE DEF ds, n
<1>2. \A c \in DOMAIN cs : cs[c].at # a
  BY DEF CellsOK
<1>3. \A c \in DOMAIN ds :
        /\ IsCell(ds[c]) /\ ds[c].at \in ItemsOf(d) \cap Ended(d, q)
        /\ ds[c].layout \in DOMAIN ls /\ ls[ds[c].layout].at = Parents[d][ds[c].at]
        /\ ds[c].signal = SignalOf(d, ds[c].at)
  <2>1. ASSUME NEW c \in DOMAIN cs
        PROVE  /\ IsCell(cs[c]) /\ cs[c].at \in ItemsOf(d) \cap Ended(d, q)
               /\ cs[c].layout \in DOMAIN ls /\ ls[cs[c].layout].at = Parents[d][cs[c].at]
               /\ cs[c].signal = SignalOf(d, cs[c].at)
    BY DEF CellsOK
  <2> QED BY <1>1, <2>1
<1>4. \A i \in ItemsOf(d) \cap Ended(d, q) : \E c \in DOMAIN ds : ds[c].at = i
  <2>1. ASSUME NEW i \in ItemsOf(d) \cap Ended(d, q) PROVE \E c \in DOMAIN ds : ds[c].at = i
    <3>1. CASE i = a
      BY <1>1, <3>1
    <3>2. CASE i # a
      <4>1. i \in ItemsOf(d) \cap Ended(d, p)
        BY <3>2
      <4>2. PICK c \in DOMAIN cs : cs[c].at = i
        BY <4>1 DEF CellsOK
      <4> QED BY <1>1, <4>2
    <3> QED BY <3>1, <3>2
  <2> QED BY <2>1
<1>5. \A b, c \in DOMAIN ds : ds[b].at = ds[c].at => b = c
  <2>1. \A b, c \in DOMAIN cs : cs[b].at = cs[c].at => b = c
    BY DEF CellsOK
  <2> QED BY <1>1, <1>2, <2>1
<1>6. IsSeq(ls)
  BY DEF CellsOK
<1>7. CellsOK(d, ds, ls, q)
  BY <1>1, <1>3, <1>4, <1>5, <1>6 DEF CellsOK
<1> QED BY <1>7 DEF ds

\* Cells that are as they were but for what they show.
SameMakes(cs, ds) ==
  /\ IsSeq(ds) /\ DOMAIN ds = DOMAIN cs
  /\ \A c \in DOMAIN cs : /\ IsCell(ds[c]) /\ ds[c].at = cs[c].at
                          /\ ds[c].layout = cs[c].layout /\ ds[c].signal = cs[c].signal

\* What the cells show is no matter of which cells have been made.
LEMMA CellsShow ==
  ASSUME NEW d, NEW cs, NEW ds, NEW ls, NEW p, CellsOK(d, cs, ls, p), SameMakes(cs, ds)
  PROVE  CellsOK(d, ds, ls, p)
BY DEF CellsOK, SameMakes

\* No page ends.
LEMMA PagesStay ==
  ASSUME NEW d, NEW ps, NEW ls, NEW separate, NEW p, NEW q, PagesOK(d, ps, ls, separate, p),
         PagesOf(d, separate) \cap Ended(d, q) = PagesOf(d, separate) \cap Ended(d, p)
  PROVE  PagesOK(d, ps, ls, separate, q)
BY DEF PagesOK

\* There is a page more, which is not yet added.
LEMMA PagesOfMore ==
  ASSUME NEW d, NEW ps, NEW ls, IsSeq(ls), NEW separate, NEW p,
         PagesOK(d, ps, ls, separate, p), NEW x
  PROVE  PagesOK(d, ps, Append(ls, x), separate, p)
<1> DEFINE ms == Append(ls, x)
<1>1. \A k \in DOMAIN ls : k \in DOMAIN ms /\ ms[k] = ls[k]
  BY OneMore
<1> HIDE DEF ms
<1>2. \A k \in DOMAIN ps : ps[k] \in DOMAIN ls
  BY DEF PagesOK
<1>3. {ms[ps[k]].at : k \in DOMAIN ps} = {ls[ps[k]].at : k \in DOMAIN ps}
  BY <1>1, <1>2
<1>4. PagesOK(d, ps, ms, separate, p)
  BY <1>1, <1>2, <1>3 DEF PagesOK
<1> QED BY <1>4 DEF ms

\* A page is added when its element ends.
LEMMA PageMade ==
  ASSUME NEW d, NEW ps, NEW ls, NEW separate, NEW p, NEW q,
         PagesOK(d, ps, ls, separate, p), NEW layout \in DOMAIN ls,
         PagesOf(d, separate) \cap Ended(d, q)
           = (PagesOf(d, separate) \cap Ended(d, p)) \cup {ls[layout].at}
  PROVE  PagesOK(d, Append(ps, layout), ls, separate, q)
<1> DEFINE rs == Append(ps, layout)
           n == Len(ps) + 1
<1>1. /\ IsSeq(rs) /\ n \in DOMAIN rs /\ rs[n] = layout
      /\ \A k \in DOMAIN rs : k \in DOMAIN ps \/ k = n
      /\ \A k \in DOMAIN ps : k \in DOMAIN rs /\ rs[k] = ps[k]
  BY OneMore DEF PagesOK
<1> HIDE DEF rs, n
<1>2. \A k \in DOMAIN rs : rs[k] \in DOMAIN ls
  BY <1>1 DEF PagesOK
<1>3. {ls[rs[k]].at : k \in DOMAIN rs} = {ls[ps[k]].at : k \in DOMAIN ps} \cup {ls[layout].at}
  BY <1>1
<1>4. PagesOK(d, rs, ls, separate, q)
  BY <1>1, <1>2, <1>3 DEF PagesOK
<1> QED BY <1>4 DEF rs

\* A cell more that is in the maps, and one that is not.
LEMMA MapsMade ==
  ASSUME NEW u2s, NEW s2u, NEW cs, IsSeq(cs), MapsOK(u2s, s2u, cs), NEW new, NEW s
  PROVE  /\ MapsOK(u2s, s2u, Append(cs, new))
         /\ MapsOK(Put(u2s, Len(cs) + 1, s), Put(s2u, s, Len(cs) + 1), Append(cs, new))
<1> DEFINE ds == Append(cs, new)
           n == Len(cs) + 1
           v == Put(u2s, n, s)
           w == Put(s2u, s, n)
<1>1. DOMAIN ds = DOMAIN cs \cup {n} /\ n \notin DOMAIN cs
  BY OneMore
<1> HIDE DEF ds, n
<1>2. /\ DOMAIN v = DOMAIN u2s \cup {n} /\ v[n] = s
      /\ \A c \in DOMAIN u2s : c # n => v[c] = u2s[c]
      /\ DOMAIN w = DOMAIN s2u \cup {s} /\ w[s] = n
      /\ \A t \in DOMAIN s2u : t # s => w[t] = s2u[t]
  BY DEF Put
<1> HIDE DEF v, w
<1>3. n \notin DOMAIN u2s
  BY <1>1 DEF MapsOK
<1>4. MapsOK(u2s, s2u, ds)
  BY <1>1 DEF MapsOK
<1>5. MapsOK(v, w, ds)
  <2>1. DOMAIN v \subseteq DOMAIN ds
    BY <1>1, <1>2 DEF MapsOK
  <2>2. ASSUME NEW c \in DOMAIN v
        PROVE  v[c] \in DOMAIN w /\ w[v[c]] \in DOMAIN v /\ v[w[v[c]]] = v[c]
    <3>1. CASE v[c] = s
      BY <1>2, <3>1
    <3>2. CASE v[c] # s
      <4>1. c \in DOMAIN u2s /\ c # n /\ v[c] = u2s[c]
        BY <1>2, <1>3, <3>2
      <4>2. u2s[c] \in DOMAIN s2u /\ s2u[u2s[c]] \in DOMAIN u2s /\ u2s[s2u[u2s[c]]] = u2s[c]
        BY <4>1 DEF MapsOK
      <4>3. w[v[c]] = s2u[u2s[c]] /\ w[v[c]] # n
        BY <1>2, <1>3, <3>2, <4>1, <4>2
      <4> QED BY <1>2, <4>1, <4>2, <4>3
    <3> QED BY <3>1, <3>2
  <2> QED BY <2>1, <2>2 DEF MapsOK
<1> QED BY <1>4, <1>5 DEF ds, n, v, w

\* A cell more that no condition is about,
LEMMA EnablersStay ==
  ASSUME NEW d, NEW en, NEW cs, IsSeq(cs), EnablersOK(d, en, cs), NEW new,
         ConditionsIn(d, new.at) = {}
  PROVE  EnablersOK(d, en, Append(cs, new))
<1> DEFINE ds == Append(cs, new)
           n == Len(cs) + 1
<1>1. /\ DOMAIN ds = DOMAIN cs \cup {n} /\ n \notin DOMAIN cs /\ ds[n] = new
      /\ \A c \in DOMAIN cs : ds[c] = cs[c]
  BY OneMore
<1> HIDE DEF ds, n
<1>2. EnablersOK(d, en, ds)
  BY <1>1 DEF EnablersOK
<1> QED BY <1>2 DEF ds

\* and one that is.
LEMMA EnablersMade ==
  ASSUME NEW d, NEW en, NEW cs, IsSeq(cs), EnablersOK(d, en, cs), NEW new, NEW j,
         ConditionsIn(d, new.at) = {j}
  PROVE  EnablersOK(d, Put(en, SignalIn(d, j),
                           [value |-> Tokens[d][j].second, ui |-> Len(cs) + 1]),
                    Append(cs, new))
<1> DEFINE ds == Append(cs, new)
           n == Len(cs) + 1
           s == SignalIn(d, j)
           entry == [value |-> Tokens[d][j].second, ui |-> n]
           fn == Put(en, s, entry)
<1>1. /\ DOMAIN ds = DOMAIN cs \cup {n} /\ n \notin DOMAIN cs /\ ds[n] = new
      /\ \A c \in DOMAIN cs : ds[c] = cs[c]
  BY OneMore
<1>2. /\ DOMAIN fn = DOMAIN en \cup {s} /\ fn[s] = entry
      /\ \A t \in DOMAIN en : t # s => fn[t] = en[t]
  BY DEF Put
<1>3. entry.value = Tokens[d][j].second /\ entry.ui = n
  OBVIOUS
<1> HIDE DEF ds, n, s, entry, fn
<1>4. ASSUME NEW t \in DOMAIN fn
      PROVE  /\ fn[t].ui \in DOMAIN ds
             /\ \E i \in ConditionsIn(d, ds[fn[t].ui].at) :
                  t = SignalIn(d, i) /\ fn[t].value = Tokens[d][i].second
  <2>1. CASE t = s
    BY <1>1, <1>2, <1>3, <2>1 DEF s
  <2>2. CASE t # s
    <3>1. t \in DOMAIN en /\ fn[t] = en[t]
      BY <1>2, <2>2
    <3> QED BY <1>1, <3>1 DEF EnablersOK
  <2> QED BY <2>1, <2>2
<1>5. \A c \in DOMAIN ds : \A i \in ConditionsIn(d, ds[c].at) : SignalIn(d, i) \in DOMAIN fn
  BY <1>1, <1>2 DEF EnablersOK, s
<1>6. EnablersOK(d, fn, ds)
  BY <1>4, <1>5 DEF EnablersOK
<1> QED BY <1>6 DEF ds, n, s, entry, fn

-----------------------------------------------------------------------------
(* The functions under way.                                                *)

\* A sequence without its last.
LEMMA OneLess ==
  ASSUME NEW s, IsSeq(s), Len(s) >= 1
  PROVE  /\ IsSeq(Front(s)) /\ Len(s) \in Nat \ {0} /\ Len(Front(s)) = Len(s) - 1
         /\ \A k \in 1 .. Len(s) - 1 : Front(s)[k] = s[k]
         /\ Last(s) = s[Len(s)]
<1>1. PICK S : s \in Seq(S)
  BY DEF IsSeq
<1>2. Front(s) \in Seq(S)
  BY <1>1 DEF Front
<1>3. IsSeq(Front(s))
  BY <1>2 DEF IsSeq
<1>4. Len(s) \in Nat \ {0} /\ Len(Front(s)) = Len(s) - 1
  <2> DEFINE n == Len(s)
  <2>1. n \in Nat
    BY <1>1
  <2> HIDE DEF n
  <2>2. n \in Nat \ {0} /\ n - 1 \in Nat
    BY <2>1 DEF n
  <2>3. \A m \in Nat : Len(SubSeq(s, 1, m)) = IF m = 0 THEN 0 ELSE m
    OBVIOUS
  <2>4. Len(SubSeq(s, 1, n - 1)) = n - 1
    BY <2>2, <2>3
  <2>5. Front(s) = SubSeq(s, 1, n - 1)
    BY DEF Front, n
  <2> QED BY <2>2, <2>4, <2>5 DEF n
<1>5. \A k \in 1 .. Len(s) - 1 : Front(s)[k] = s[k]
  BY <1>1 DEF Front
<1> QED BY <1>3, <1>4, <1>5 DEF Last

\* A function's element stays open as long as nothing less deep comes.
LEMMA FrameOn ==
  ASSUME NEW d \in ProperDescriptions, NEW f, NEW k \in Int, NEW p \in Nat, NEW q \in Nat,
         p <= q, NEW ls, FrameOK(d, f, k, p, ls),
         \A m \in p .. q - 1 : Depth(d, m) >= k - 1
  PROVE  FrameOK(d, f, k, q, ls)
<1>1. f.at \in Nat /\ f.at < p /\ \A m \in f.at .. p - 1 : Depth(d, m) >= k - 1
  BY StartIs, ProperIs DEF FrameOK
<1>2. f.at < q /\ \A m \in f.at .. q - 1 : m \in f.at .. p - 1 \/ m \in p .. q - 1
  BY <1>1
<1>3. \A m \in f.at .. q - 1 : Depth(d, m) >= k - 1
  BY <1>1, <1>2
<1> QED BY <1>2, <1>3 DEF FrameOK

\* A page more is none of those it knows.
LEMMA FrameOfMore ==
  ASSUME NEW d, NEW f, NEW k, NEW p, NEW ls, IsSeq(ls), FrameOK(d, f, k, p, ls), NEW x
  PROVE  FrameOK(d, f, k, p, Append(ls, x))
<1> DEFINE ms == Append(ls, x)
<1>1. \A i \in DOMAIN ls : i \in DOMAIN ms /\ ms[i] = ls[i]
  BY OneMore
<1> HIDE DEF ms
<1>2. f.fn # "driver" => f.layout \in DOMAIN ms /\ ms[f.layout] = ls[f.layout]
  BY <1>1 DEF FrameOK
<1>3. "driver" \notin Sheets /\ "driver" \notin CellClasses \cup {"group"} /\ "driver" # "page"
  BY DEF Sheets, CellClasses
<1>4. FrameOK(d, f, k, p, ms)
  BY <1>2, <1>3 DEF FrameOK
<1> QED BY <1>4 DEF ms

\* There is always a function under way, and the number of them is the depth.
LEMMA StackIs ==
  ASSUME NEW d \in ProperDescriptions, NEW fs, NEW p \in 1 .. Size(d) + 1, NEW ls,
         StackOK(d, fs, p, ls)
  PROVE  /\ p \in Nat \ {0} /\ Depth(d, p - 1) \in Nat
         /\ Len(fs) \in Nat \ {0} /\ Depth(d, p - 1) = Len(fs) - 1
         /\ IsSeq(fs) /\ DOMAIN fs = 1 .. Len(fs) /\ Last(fs) = fs[Len(fs)]
<1>1. p \in Nat \ {0} /\ p - 1 \in 0 .. Size(d)
  BY ProperIs
<1>2. Depth(d, p - 1) \in Nat
  BY <1>1, ProperIs
<1>3. IsSeq(fs) /\ Len(fs) = Depth(d, p - 1) + 1
  BY DEF StackOK
<1>4. Len(fs) \in Nat \ {0} /\ Depth(d, p - 1) = Len(fs) - 1
  BY <1>2, <1>3
<1>5. DOMAIN fs = 1 .. Len(fs)
  BY <1>3, OneMore
<1> QED BY <1>1, <1>2, <1>3, <1>4, <1>5 DEF Last

\* The functions stay, where the depth is in the end what it was.
LEMMA StackOn ==
  ASSUME NEW d \in ProperDescriptions, NEW fs, NEW p \in 1 .. Size(d) + 1,
         NEW q \in p .. Size(d) + 1, NEW ls, StackOK(d, fs, p, ls),
         Depth(d, q - 1) = Depth(d, p - 1),
         \A m \in p .. q - 1 : Depth(d, m) \in Nat /\ Depth(d, m) >= Depth(d, p - 1)
  PROVE  StackOK(d, fs, q, ls)
<1>1. /\ p \in Nat \ {0} /\ Depth(d, p - 1) \in Nat
      /\ Len(fs) \in Nat \ {0} /\ Depth(d, p - 1) = Len(fs) - 1
  BY StackIs
<1>2. q \in Nat /\ p <= q
  BY <1>1, ProperIs
<1>3. ASSUME NEW k \in 2 .. Len(fs) PROVE FrameOK(d, fs[k], k, q, ls)
  <2>1. k \in Int /\ k - 1 <= Depth(d, p - 1)
    BY <1>1
  <2>2. \A m \in p .. q - 1 : Depth(d, m) >= k - 1
    BY <1>1, <2>1
  <2>3. FrameOK(d, fs[k], k, p, ls)
    BY DEF StackOK
  <2> QED BY <1>1, <1>2, <2>1, <2>2, <2>3, FrameOn
<1> QED BY <1>3 DEF StackOK

\* A token that is no element,
LEMMA StackTick ==
  ASSUME NEW d \in ProperDescriptions, NEW fs, NEW p \in 1 .. Size(d), NEW ls,
         StackOK(d, fs, p, ls), Type(d, p) # "start", Type(d, p) # "end"
  PROVE  StackOK(d, fs, p + 1, ls)
<1>1. p \in Nat /\ p + 1 \in p .. Size(d) + 1 /\ p \in 1 .. Size(d) + 1 /\ p \in 0 .. Size(d)
  BY ProperIs
<1>2. Depth(d, p) = Depth(d, p - 1) /\ Depth(d, p) \in Nat
  BY <1>1, ProperIs, DepthStep
<1>3. (p + 1) - 1 = p
  BY <1>1
<1>4. \A m \in p .. (p + 1) - 1 : m = p
  BY <1>1
<1>5. \A m \in p .. (p + 1) - 1 : Depth(d, m) \in Nat /\ Depth(d, m) >= Depth(d, p - 1)
  BY <1>2, <1>4
<1>6. Depth(d, (p + 1) - 1) = Depth(d, p - 1)
  BY <1>2, <1>3
<1> HIDE DEF StackOK
<1> QED BY <1>1, <1>5, <1>6, StackOn

\* and an element that is passed.
LEMMA StackSkip ==
  ASSUME NEW d \in ProperDescriptions, NEW fs, NEW s \in Starts(d), NEW ls,
         StackOK(d, fs, s, ls)
  PROVE  /\ EndOf(d, s) + 1 \in 1 .. Size(d) + 1
         /\ StackOK(d, fs, EndOf(d, s) + 1, ls)
<1> DEFINE e == EndOf(d, s)
           q == e + 1
<1>1. /\ s \in 1 .. Size(d) /\ Size(d) \in Nat /\ s \in Nat \ {0}
      /\ Depth(d, s) \in Nat \ {0} /\ Depth(d, s - 1) = Depth(d, s) - 1
  BY StartIs, ProperIs
<1>2. /\ e \in s + 1 .. Size(d) /\ Depth(d, e) = Depth(d, s) - 1
      /\ \A m \in s .. e - 1 : Depth(d, m) >= Depth(d, s)
  BY Ending
<1> HIDE DEF e
<1>3. q \in s .. Size(d) + 1 /\ q - 1 = e /\ s \in 1 .. Size(d) + 1 /\ q \in 1 .. Size(d) + 1
  BY <1>1, <1>2
<1>4. ASSUME NEW m \in s .. q - 1
      PROVE  Depth(d, m) \in Nat /\ Depth(d, m) >= Depth(d, s - 1)
  <2>1. m \in 0 .. Size(d) /\ (m \in s .. e - 1 \/ m = e)
    BY <1>1, <1>2
  <2>2. Depth(d, m) \in Nat
    BY <2>1, ProperIs
  <2> QED BY <1>1, <1>2, <2>1, <2>2
<1>5. Depth(d, q - 1) = Depth(d, s - 1)
  BY <1>1, <1>2, <1>3
<1>6. StackOK(d, fs, q, ls)
  BY <1>3, <1>4, <1>5, StackOn
<1> QED BY <1>3, <1>6 DEF e

\* The element of the function on top is what the next element is directly in.
LEMMA TopIs ==
  ASSUME NEW d \in ProperDescriptions, NEW fs, NEW p \in 1 .. Size(d) + 1, NEW ls,
         StackOK(d, fs, p, ls), Last(fs).fn # "restore"
  PROVE  LET f == Last(fs)
         IN  /\ FrameOK(d, f, Len(fs), p, ls) /\ Len(fs) >= 2
             /\ f.at \in Starts(d) /\ f.at # 0 /\ f.at < p /\ Depth(d, p - 1) = Depth(d, f.at)
             /\ \A m \in f.at .. p - 1 : Depth(d, m) >= Depth(d, f.at)
             /\ f.fn = NameAt(d, f.at)
             /\ p \in Starts(d) => Parents[d][p] = f.at
             /\ p <= Size(d)
<1> DEFINE f == Last(fs)
           n == Len(fs)
<1>1. /\ p \in Nat \ {0} /\ Depth(d, p - 1) \in Nat
      /\ n \in Nat \ {0} /\ Depth(d, p - 1) = n - 1 /\ f = fs[n]
  BY StackIs
<1>2. n # 1
  BY <1>1 DEF StackOK
<1> HIDE DEF f, n
<1>3. n \in 2 .. n /\ n >= 2
  BY <1>1, <1>2
<1>4. FrameOK(d, f, n, p, ls)
  BY <1>1, <1>3 DEF StackOK, n
<1>5. /\ f.at \in Starts(d) /\ f.at < p /\ Depth(d, f.at) = n - 1
      /\ \A m \in f.at .. p - 1 : Depth(d, m) >= n - 1
      /\ f.fn = NameAt(d, f.at)
  BY <1>4 DEF FrameOK
<1>6. f.at # 0
  BY <1>5, StartIs, ProperIs
<1>7. p \in Starts(d) => Parents[d][p] = f.at
  <2>1. SUFFICES ASSUME p \in Starts(d) PROVE Parents[d][p] = f.at
    OBVIOUS
  <2>2. Depth(d, p - 1) = Depth(d, p) - 1
    BY <2>1, StartIs
  <2>3. /\ Depth(d, f.at) = Depth(d, p) - 1
        /\ \A m \in f.at .. p - 1 : Depth(d, m) >= Depth(d, f.at)
    BY <1>1, <1>5, <2>2
  <2> QED BY <1>5, <2>1, <2>3, ParentIs
<1>8. p <= Size(d)
  <2>1. p # Size(d) + 1
    <3>1. p = Size(d) + 1 => p - 1 = Size(d)
      BY ProperIs
    <3>2. p = Size(d) + 1 => Depth(d, p - 1) = 0
      BY <3>1, ProperIs
    <3> QED BY <1>1, <1>2, <3>2
  <2> QED BY <2>1, ProperIs
<1>9. /\ Depth(d, p - 1) = Depth(d, f.at)
      /\ \A m \in f.at .. p - 1 : Depth(d, m) >= Depth(d, f.at)
  BY <1>1, <1>5
<1> QED BY <1>3, <1>4, <1>5, <1>6, <1>7, <1>8, <1>9 DEF f, n

\* The function on top has read a field.
LEMMA StackReads ==
  ASSUME NEW d \in ProperDescriptions, NEW fs, NEW p \in 1 .. Size(d) + 1, NEW ls,
         StackOK(d, fs, p, ls), Last(fs).fn \in CellClasses,
         NEW g, IsFrame(g), g.at = Last(fs).at, g.fn = Last(fs).fn,
         g.layout = Last(fs).layout, g.draft.class = Last(fs).draft.class
  PROVE  StackOK(d, Append(Front(fs), g), p, ls) /\ Last(Append(Front(fs), g)) = g
<1> DEFINE f == Last(fs)
           gs == Append(Front(fs), g)
<1>1. f.fn # "restore" /\ f.fn # "group"
  BY DEF CellClasses
<1>2. FrameOK(d, f, Len(fs), p, ls) /\ Len(fs) >= 2
  BY <1>1, TopIs
<1>3. Len(fs) \in Nat /\ IsSeq(fs)
  BY StackIs
<1>4. /\ IsSeq(Front(fs)) /\ Len(Front(fs)) = Len(fs) - 1
      /\ \A k \in 1 .. Len(fs) - 1 : Front(fs)[k] = fs[k]
  BY <1>2, <1>3, OneLess
<1>5. /\ IsSeq(gs) /\ Len(gs) = Len(fs) /\ gs[Len(fs)] = g
      /\ \A k \in 1 .. Len(fs) - 1 : gs[k] = fs[k]
  <2>1. /\ IsSeq(gs) /\ Len(gs) = Len(Front(fs)) + 1 /\ gs[Len(Front(fs)) + 1] = g
        /\ DOMAIN Front(fs) = 1 .. Len(Front(fs))
        /\ \A k \in DOMAIN Front(fs) : gs[k] = Front(fs)[k]
    BY <1>4, OneMore
  <2> HIDE DEF gs
  <2> QED BY <1>3, <1>4, <2>1
<1> HIDE DEF gs, f
<1>6. FrameOK(d, g, Len(fs), p, ls)
  BY <1>1, <1>2 DEF FrameOK, f
<1>7. \A k \in 2 .. Len(gs) : FrameOK(d, gs[k], k, p, ls)
  <2>1. ASSUME NEW k \in 2 .. Len(gs) PROVE FrameOK(d, gs[k], k, p, ls)
    <3>1. CASE k = Len(fs)
      BY <1>5, <1>6, <3>1
    <3>2. CASE k # Len(fs)
      <4>1. k \in 1 .. Len(fs) - 1 /\ k \in 2 .. Len(fs)
        BY <1>3, <1>5, <3>2
      <4> QED BY <1>5, <4>1 DEF StackOK
    <3> QED BY <3>1, <3>2
  <2> QED BY <2>1
<1>8. \A k \in 1 .. Len(gs) - 1 : gs[k].fn \notin CellClasses
  BY <1>5 DEF StackOK
<1>9. gs[1].fn = "restore"
  <2>1. 1 \in 1 .. Len(fs) - 1
    BY <1>2, <1>3
  <2> QED BY <1>5, <2>1 DEF StackOK
<1>10. StackOK(d, gs, p, ls)
  BY <1>5, <1>7, <1>8, <1>9 DEF StackOK
<1> QED BY <1>5, <1>10 DEF gs, Last

\* A function is called for the element that starts.
LEMMA StackCalls ==
  ASSUME NEW d \in ProperDescriptions, NEW fs, NEW s \in Starts(d), NEW ls,
         StackOK(d, fs, s, ls), Last(fs).fn \notin CellClasses,
         NEW f, NEW ms, IsSeq(ls), ms = ls \/ \E x : ms = Append(ls, x),
         FrameOK(d, f, Len(fs) + 1, s + 1, ms)
  PROVE  /\ s + 1 \in 1 .. Size(d) + 1
         /\ StackOK(d, Append(fs, f), s + 1, ms) /\ Last(Append(fs, f)) = f
<1> DEFINE gs == Append(fs, f)
           n == Len(fs)
<1>1. /\ s \in Nat \ {0} /\ s \in 1 .. Size(d) + 1 /\ s + 1 \in 1 .. Size(d) + 1
      /\ Depth(d, s - 1) = Depth(d, s) - 1 /\ Depth(d, s) \in Nat
  BY StartIs, ProperIs
<1>2. n \in Nat \ {0} /\ Depth(d, s - 1) = n - 1 /\ IsSeq(fs) /\ Last(fs) = fs[n]
  BY <1>1, StackIs
<1>3. Depth(d, s) = n
  BY <1>1, <1>2
<1>4. /\ IsSeq(gs) /\ Len(gs) = n + 1 /\ gs[n + 1] = f /\ \A k \in 1 .. n : gs[k] = fs[k]
  BY <1>2, OneMore
<1> HIDE DEF gs, n
<1>5. ASSUME NEW k \in 2 .. n PROVE FrameOK(d, fs[k], k, s + 1, ms)
  <2>1. k \in Int /\ s + 1 \in Nat /\ \A m \in s .. (s + 1) - 1 : Depth(d, m) >= k - 1
    BY <1>1, <1>2, <1>3
  <2>2. FrameOK(d, fs[k], k, s, ls)
    BY DEF StackOK, n
  <2>3. FrameOK(d, fs[k], k, s + 1, ls)
    BY <1>1, <2>1, <2>2, FrameOn
  <2> QED BY <2>3, FrameOfMore
<1>6. \A k \in 2 .. Len(gs) : FrameOK(d, gs[k], k, s + 1, ms)
  <2>1. ASSUME NEW k \in 2 .. Len(gs) PROVE FrameOK(d, gs[k], k, s + 1, ms)
    <3>1. CASE k = n + 1
      BY <1>4, <3>1 DEF n
    <3>2. CASE k # n + 1
      <4>1. k \in 2 .. n /\ k \in 1 .. n
        BY <1>2, <1>4, <3>2
      <4> QED BY <1>4, <1>5, <4>1
    <3> QED BY <3>1, <3>2
  <2> QED BY <2>1
<1>7. \A k \in 1 .. Len(gs) - 1 : gs[k].fn \notin CellClasses
  <2>1. ASSUME NEW k \in 1 .. Len(gs) - 1 PROVE gs[k].fn \notin CellClasses
    <3>1. k \in 1 .. n /\ (k = n \/ k \in 1 .. n - 1)
      BY <1>2, <1>4
    <3> QED BY <1>2, <1>4, <3>1 DEF StackOK, n
  <2> QED BY <2>1
<1>8. gs[1].fn = "restore"
  <2>1. 1 \in 1 .. n
    BY <1>2
  <2> QED BY <1>4, <2>1 DEF StackOK
<1>9. Len(gs) = Depth(d, (s + 1) - 1) + 1
  <2>1. (s + 1) - 1 = s
    BY <1>1
  <2> QED BY <1>3, <1>4, <2>1
<1>10. StackOK(d, gs, s + 1, ms)
  BY <1>4, <1>6, <1>7, <1>8, <1>9 DEF StackOK
<1>11. Last(gs) = f
  BY <1>4 DEF Last
<1> QED BY <1>1, <1>10, <1>11 DEF gs

\* The function on top returns at the end of its element.
LEMMA StackReturns ==
  ASSUME NEW d \in ProperDescriptions, NEW fs, NEW p \in 1 .. Size(d), NEW ls,
         StackOK(d, fs, p, ls), Last(fs).fn # "restore", Type(d, p) = "end"
  PROVE  /\ p + 1 \in 1 .. Size(d) + 1
         /\ StackOK(d, Front(fs), p + 1, ls)
         /\ Last(Front(fs)).fn \notin CellClasses
         /\ EndOf(d, Last(fs).at) = p /\ Last(fs).at \notin Ended(d, p)
         /\ Ended(d, p + 1) = Ended(d, p) \cup {Last(fs).at}
<1> DEFINE gs == Front(fs)
           n == Len(fs)
<1>0. p \in 1 .. Size(d) + 1 /\ p + 1 \in 1 .. Size(d) + 1 /\ p \in Nat \ {0} /\ d \in Descriptions
  BY ProperIs
<1>1. /\ n \in Nat \ {0} /\ Depth(d, p - 1) = n - 1 /\ IsSeq(fs)
  BY <1>0, StackIs
<1>2. n >= 2
  BY <1>0, TopIs
<1>3. /\ IsSeq(gs) /\ Len(gs) = n - 1 /\ \A k \in 1 .. n - 1 : gs[k] = fs[k]
  BY <1>1, OneLess
<1> HIDE DEF gs, n
<1>4. Depth(d, p) = n - 2
  <2>1. Depth(d, p) = Depth(d, p - 1) - 1
    BY <1>0, <1>1, DepthStep
  <2> QED BY <1>1, <2>1
<1>5. ASSUME NEW k \in 2 .. Len(gs) PROVE FrameOK(d, gs[k], k, p + 1, ls)
  <2>1. k \in 2 .. n /\ k \in 1 .. n - 1 /\ k \in Int
    BY <1>1, <1>3
  <2>2. FrameOK(d, gs[k], k, p, ls)
    BY <1>3, <2>1 DEF StackOK, n
  <2>3. \A m \in p .. (p + 1) - 1 : Depth(d, m) >= k - 1
    BY <1>0, <1>1, <1>4, <2>1
  <2> QED BY <1>0, <2>1, <2>2, <2>3, FrameOn
<1>6. \A k \in 1 .. n - 1 : gs[k].fn \notin CellClasses
  BY <1>3 DEF StackOK, n
<1>7. gs[1].fn = "restore"
  <2>1. 1 \in 1 .. n - 1
    BY <1>1, <1>2
  <2> QED BY <1>3, <2>1 DEF StackOK
<1>8. Len(gs) = Depth(d, (p + 1) - 1) + 1
  <2>1. (p + 1) - 1 = p
    BY <1>0
  <2> QED BY <1>1, <1>3, <1>4, <2>1
<1>9. \A k \in 1 .. Len(gs) - 1 : gs[k].fn \notin CellClasses
  BY <1>1, <1>3, <1>6
<1>10. StackOK(d, gs, p + 1, ls)
  BY <1>3, <1>5, <1>7, <1>8, <1>9 DEF StackOK
<1>11. Last(gs).fn \notin CellClasses
  <2>1. n - 1 \in 1 .. n - 1
    BY <1>1, <1>2
  <2> QED BY <1>3, <1>6, <2>1 DEF Last
<1>12. /\ EndOf(d, Last(fs).at) = p /\ Last(fs).at \notin Ended(d, p)
       /\ Ended(d, p + 1) = Ended(d, p) \cup {Last(fs).at}
  BY <1>0, TopIs, EndedLeave
<1> QED BY <1>0, <1>10, <1>11, <1>12 DEF gs

-----------------------------------------------------------------------------
(* The steps of the reader.                                                *)

\* A proper description is being read.
ReadInv == Proper /\ reading /\ ReadingOK /\ MadeOK(pos)

\* What the reader sees at its place.
LEMMA Sees ==
  ASSUME ReadInv
  PROVE  /\ doc \in ProperDescriptions /\ doc \in Descriptions /\ ~failed /\ reported = <<>>
         /\ pos \in 1 .. Size(doc) + 1 /\ pos \in Nat /\ Size(doc) \in Nat
         /\ AtEnd <=> pos = Size(doc) + 1
         /\ \A type : At(type) => pos \in 1 .. Size(doc) /\ Type(doc, pos) = type
         /\ At("start") => pos \in Starts(doc) /\ Name = NameAt(doc, pos)
         /\ StackOK(doc, frames, pos, layouts) \/ OverOK(doc, frames, pos)
         /\ Top.fn \in CellClasses => DraftOK(doc, Top, pos)
<1>1. /\ doc \in ProperDescriptions /\ ~failed /\ reported = <<>>
      /\ pos \in 1 .. Size(doc) + 1
      /\ StackOK(doc, frames, pos, layouts) \/ OverOK(doc, frames, pos)
      /\ Top.fn \in CellClasses => DraftOK(doc, Top, pos)
  BY DEF ReadInv, Proper, ReadingOK
<1>2. doc \in Descriptions /\ Size(doc) \in Nat /\ DOMAIN Tokens[doc] = 1 .. Size(doc)
  BY <1>1, ProperIs
<1>3. pos \in Nat
  BY <1>1, <1>2
<1>4. AtEnd <=> pos > Size(doc)
  BY <1>1 DEF AtEnd, Size
<1>5. AtEnd <=> pos = Size(doc) + 1
  BY <1>1, <1>2, <1>4
<1>6. ASSUME NEW type, At(type) PROVE pos \in 1 .. Size(doc) /\ Type(doc, pos) = type
  <2>1. ~AtEnd /\ Tokens[doc][pos].type = type
    BY <1>6 DEF At, Here
  <2> QED BY <1>1, <1>2, <1>5, <2>1 DEF Type
<1>7. At("start") => pos \in Starts(doc) /\ Name = NameAt(doc, pos)
  BY <1>2, <1>6 DEF Starts, Type, Name, Here, NameAt
<1> QED BY <1>1, <1>2, <1>3, <1>5, <1>6, <1>7

\* When the end of the driver has been taken nothing starts and nothing ends.
LEMMA NothingLeft ==
  ASSUME NEW d \in ProperDescriptions, NEW fs, NEW p \in 1 .. Size(d), OverOK(d, fs, p)
  PROVE  Type(d, p) # "start" /\ Type(d, p) # "end"
<1>1. /\ fs[2].at \in Starts(d) /\ fs[2].at < p /\ Depth(d, fs[2].at) = 1
      /\ Depth(d, p - 1) = 0
  BY DEF OverOK
<1>2. p \in 0 .. Size(d) /\ d \in Descriptions
  BY ProperIs
<1>3. Depth(d, p) \in Nat
  BY <1>2, ProperIs
<1>4. Type(d, p) # "end"
  <2>1. Type(d, p) = "end" => Depth(d, p) = Depth(d, p - 1) - 1
    BY <1>2, DepthStep
  <2> QED BY <1>1, <1>3, <2>1
<1>5. ASSUME Type(d, p) = "start" PROVE FALSE
  <2>1. p \in Starts(d)
    BY <1>5, ProperIs DEF Starts, Type
  <2>2. Depth(d, p) = 1
    BY <1>1, <1>2, <1>5, DepthStep
  <2>3. Parents[d][p] = 0 /\ Parents[d][fs[2].at] = 0
    BY <1>1, <2>1, <2>2, RootLevel
  <2>4. fs[2].at = p
    BY <1>1, <2>1, <2>3, Grammar
  <2> QED BY <1>1, <1>2, <2>4, ProperIs
<1> QED BY <1>4, <1>5

\* Any other function than restore() and its loop over the pages is in an open element.
LEMMA Nested ==
  ASSUME ReadInv, Top.fn # "restore", Top.fn # "driver"
  PROVE  /\ StackOK(doc, frames, pos, layouts) /\ ~AtEnd /\ pos \in 1 .. Size(doc)
<1>1. ~OverOK(doc, frames, pos)
  BY DEF OverOK, Top, Last
<1>2. StackOK(doc, frames, pos, layouts)
  BY <1>1, Sees
<1>3. pos <= Size(doc)
  BY <1>2, Sees, TopIs DEF Top
<1> QED BY <1>2, <1>3, Sees

\* What the reader has to leave behind to go on.
LEMMA GoesOn ==
  ASSUME ReadInv, doc' = doc, ~(failed'), reported' = <<>>,
         pos' \in 1 .. Size(doc) + 1,
         StackOK(doc, frames', pos', layouts') \/ OverOK(doc, frames', pos'),
         Last(frames').fn \in CellClasses => DraftOK(doc, Last(frames'), pos'),
         CellsOK(doc, cells', layouts', pos'),
         PagesOK(doc, pages', layouts', FALSE, pos'),
         PagesOK(doc, windows', layouts', TRUE, pos'),
         MapsOK(ui2signal', signal2ui', cells'),
         EnablersOK(doc, enablers', cells')
  PROVE  ReadInv'
<1>1. doc \in ProperDescriptions
  BY Sees
<1>2. frames' # <<>>
  <2>1. CASE StackOK(doc, frames', pos', layouts')
    <3>1. Len(frames') \in Nat \ {0}
      BY <1>1, <2>1, StackIs
    <3> QED BY <3>1
  <2>2. CASE OverOK(doc, frames', pos')
    <3>1. Len(frames') = 2
      BY <2>2 DEF OverOK
    <3> QED BY <3>1
  <2> QED BY <2>1, <2>2
<1>3. MadeOK(pos)'
  BY DEF MadeOK
<1>4. ReadingOK'
  BY DEF ReadingOK, Top
<1> QED BY <1>1, <1>2, <1>3, <1>4 DEF ReadInv, Proper, reading

\* What is made stays what there is to make if with the next place only what is neither
\* a cell nor a page has ended.
LEMMA Stays ==
  ASSUME ReadInv, NEW q, NEW fs, UNCHANGED <<doc, layouts, pages, windows, mapVars, cells>>,
         ItemsOf(doc) \cap Ended(doc, q) = ItemsOf(doc) \cap Ended(doc, pos),
         \A separate \in BOOLEAN :
           PagesOf(doc, separate) \cap Ended(doc, q) = PagesOf(doc, separate) \cap Ended(doc, pos)
  PROVE  /\ CellsOK(doc, cells', layouts', q)
         /\ PagesOK(doc, pages', layouts', FALSE, q)
         /\ PagesOK(doc, windows', layouts', TRUE, q)
         /\ MapsOK(ui2signal', signal2ui', cells')
         /\ EnablersOK(doc, enablers', cells')
<1>1. /\ CellsOK(doc, cells, layouts, pos)
      /\ PagesOK(doc, pages, layouts, FALSE, pos)
      /\ PagesOK(doc, windows, layouts, TRUE, pos)
      /\ MapsOK(ui2signal, signal2ui, cells)
      /\ EnablersOK(doc, enablers, cells)
  BY DEF ReadInv, MadeOK
<1>2. CellsOK(doc, cells, layouts, q)
  BY <1>1, CellsStay
<1>3. PagesOK(doc, pages, layouts, FALSE, q) /\ PagesOK(doc, windows, layouts, TRUE, q)
  BY <1>1, PagesStay
<1> QED BY <1>1, <1>2, <1>3 DEF mapVars

\* readNext() of a text.
LEMMA TextRead ==
  ASSUME ReadInv, ReadText, UNCHANGED reported
  PROVE  ReadInv'
<1>1. /\ pos' = pos + 1 /\ At("text")
      /\ UNCHANGED <<doc, frames, failed, layouts, pages, windows, mapVars, cells>>
  BY DEF ReadText
<1>2. /\ doc \in ProperDescriptions /\ doc \in Descriptions
      /\ pos \in 1 .. Size(doc) /\ Type(doc, pos) = "text" /\ Size(doc) \in Nat
  BY <1>1, Sees
<1>3. Ended(doc, pos + 1) = Ended(doc, pos)
  BY <1>2, EndedTick
<1>4. StackOK(doc, frames, pos + 1, layouts) \/ OverOK(doc, frames, pos + 1)
  <2>1. CASE StackOK(doc, frames, pos, layouts)
    BY <1>2, <2>1, StackTick
  <2>2. CASE OverOK(doc, frames, pos)
    <3>1. Depth(doc, pos) = Depth(doc, pos - 1) /\ (pos + 1) - 1 = pos
      BY <1>2, DepthStep
    <3>2. frames[2].at < pos + 1
      <4>1. frames[2].at < pos /\ frames[2].at \in Starts(doc)
        BY <2>2 DEF OverOK
      <4>2. frames[2].at \in Nat
        BY <1>2, <4>1, StartIs, ProperIs
      <4> QED BY <1>2, <4>1, <4>2
    <3> QED BY <2>2, <3>1, <3>2 DEF OverOK
  <2> QED BY <2>1, <2>2, Sees
<1>5. Top.fn \in CellClasses => DraftOK(doc, Top, pos + 1)
  BY <1>2, Sees, DraftTick
<1>6. pos + 1 \in 1 .. Size(doc) + 1
  BY <1>2
<1>7. /\ CellsOK(doc, cells', layouts', pos + 1)
      /\ PagesOK(doc, pages', layouts', FALSE, pos + 1)
      /\ PagesOK(doc, windows', layouts', TRUE, pos + 1)
      /\ MapsOK(ui2signal', signal2ui', cells')
      /\ EnablersOK(doc, enablers', cells')
  BY <1>1, <1>3, Stays
<1> QED BY <1>1, <1>4, <1>5, <1>6, <1>7, Sees, GoesOn DEF Top

\* An element that is passed.
LEMMA SkipRead ==
  ASSUME ReadInv, At("start"), StackOK(doc, frames, pos, layouts), NEW fs,
         StackOK(doc, fs, pos, layouts), frames' = fs,
         Last(fs).fn \in CellClasses => DraftOK(doc, Last(fs), EndOf(doc, pos) + 1),
         NameAt(doc, pos) \notin Structure,
         NameAt(doc, pos) \in CellClasses => /\ Parents[doc][pos] # 0
                                             /\ NameAt(doc, Parents[doc][pos]) \notin Sheets,
         PastElement,
         UNCHANGED <<doc, failed, layouts, pages, windows, mapVars, cells, reported>>
  PROVE  ReadInv'
<1> DEFINE q == EndOf(doc, pos) + 1
<1>1. doc \in ProperDescriptions /\ pos \in Starts(doc)
  BY Sees
<1>2. /\ ItemsOf(doc) \cap Ended(doc, q) = ItemsOf(doc) \cap Ended(doc, pos)
      /\ \A separate \in BOOLEAN :
           PagesOf(doc, separate) \cap Ended(doc, q) = PagesOf(doc, separate) \cap Ended(doc, pos)
  BY <1>1, NothingSkipped
<1>3. q \in 1 .. Size(doc) + 1 /\ StackOK(doc, fs, q, layouts)
  BY <1>1, StackSkip
<1>4. pos' = q
  BY DEF PastElement
<1> HIDE DEF q
<1>5. /\ CellsOK(doc, cells', layouts', q)
      /\ PagesOK(doc, pages', layouts', FALSE, q)
      /\ PagesOK(doc, windows', layouts', TRUE, q)
      /\ MapsOK(ui2signal', signal2ui', cells')
      /\ EnablersOK(doc, enablers', cells')
  BY <1>2, Stays
<1>6. Last(fs).fn \in CellClasses => DraftOK(doc, Last(fs), q)
  BY DEF q
<1> QED BY <1>3, <1>4, <1>5, <1>6, Sees, GoesOn

\* What is directly in a cell is none of the structure, and no cell.
LEMMA PlainIn ==
  ASSUME NEW d \in ProperDescriptions, NEW s \in Starts(d), Parents[d][s] # 0,
         NameAt(d, Parents[d][s]) \in CellClasses
  PROVE  NameAt(d, s) \notin Structure /\ NameAt(d, Parents[d][s]) \notin Sheets
<1> DEFINE above == NameAt(d, Parents[d][s])
<1>1. above \notin {"driver", "page", "layout", "group"}
  BY DEF CellClasses
<1> HIDE DEF above
<1>2. above \notin Sheets
  BY <1>1 DEF Sheets
<1>3. /\ NameAt(d, s) # "driver" /\ NameAt(d, s) # "page" /\ NameAt(d, s) # "group"
      /\ NameAt(d, s) # "layout"
  BY <1>1, <1>2, Grammar DEF above
<1> QED BY <1>2, <1>3 DEF Structure, above

\* The loop of a function that reads a cell: a field.
LEMMA FieldRead ==
  ASSUME ReadInv, NEW class, NEW fields, Keeps(class, fields), ReadField(class, fields),
         UNCHANGED reported
  PROVE  ReadInv'
<1> DEFINE f == Last(frames)
           g == After(doc, f, pos, fields)
           fs == IF NameAt(doc, pos) \in fields THEN Append(Front(frames), g) ELSE frames
<1>1. /\ Top.fn = class /\ At("start") /\ class \in CellClasses
      /\ frames' = IF Name \in fields
                   THEN Append(Return, [Top EXCEPT !.draft = WithField(Top.draft, Here)])
                   ELSE frames
      /\ PastElement
      /\ UNCHANGED <<doc, failed, layouts, pages, windows, mapVars, cells>>
  BY DEF ReadField, In, Keeps
<1>2. /\ doc \in ProperDescriptions /\ pos \in Starts(doc) /\ Name = NameAt(doc, pos)
      /\ pos \in 1 .. Size(doc) + 1
      /\ DraftOK(doc, f, pos) /\ f = Top
  BY <1>1, Sees DEF Top
<1>3. class # "restore" /\ class # "driver"
  BY <1>1 DEF CellClasses
<1>4. StackOK(doc, frames, pos, layouts)
  BY <1>1, <1>3, Nested
<1>5. frames' = fs
  BY <1>1, <1>2 DEF Return, Here, Top, After
<1> HIDE DEF f
<1>6. /\ FrameOK(doc, f, Len(frames), pos, layouts) /\ f.at \in Starts(doc) /\ f.at # 0
      /\ f.fn = NameAt(doc, f.at) /\ Parents[doc][pos] = f.at
  BY <1>1, <1>2, <1>3, <1>4, TopIs DEF f
<1>7. IsFrame(f)
  BY <1>6 DEF FrameOK
<1>8. f.fn = class /\ Keeps(f.fn, fields)
  <2>1. f.fn = class
    BY <1>1, <1>2
  <2> QED BY <2>1
<1>9. /\ IsFrame(g) /\ g.at = f.at /\ g.fn = f.fn /\ g.layout = f.layout
      /\ g.draft.class = f.draft.class
      /\ DraftOK(doc, g, EndOf(doc, pos) + 1)
  <2> DEFINE d == doc
             s == pos
  <2>1. /\ d \in ProperDescriptions /\ s \in Starts(d) /\ IsFrame(f) /\ f.at \in Starts(d)
        /\ Parents[d][s] = f.at /\ f.fn = NameAt(d, f.at) /\ DraftOK(d, f, s)
        /\ Keeps(f.fn, fields) /\ g = After(d, f, s, fields)
    BY <1>2, <1>6, <1>7, <1>8
  <2> HIDE DEF d, s, g
  <2>2. /\ IsFrame(g) /\ g.at = f.at /\ g.fn = f.fn /\ g.layout = f.layout
        /\ g.draft.class = f.draft.class
        /\ DraftOK(d, g, EndOf(d, s) + 1)
    BY <2>1, DraftField
  <2> QED BY <2>2 DEF d, s
<1>10. NameAt(doc, pos) \notin fields => g = f
  BY DEF After
<1> HIDE DEF g
<1>11. StackOK(doc, fs, pos, layouts) /\ Last(fs) = g
  <2>1. CASE NameAt(doc, pos) \in fields
    <3>1. fs = Append(Front(frames), g)
      BY <2>1
    <3> HIDE DEF fs
    <3> QED BY <1>1, <1>2, <1>4, <1>8, <1>9, <3>1, StackReads DEF f
  <2>2. CASE NameAt(doc, pos) \notin fields
    BY <1>4, <1>10, <2>2 DEF f
  <2> QED BY <2>1, <2>2
<1> HIDE DEF fs
<1>12. /\ NameAt(doc, pos) \notin Structure
       /\ NameAt(doc, Parents[doc][pos]) \notin Sheets /\ Parents[doc][pos] # 0
  <2>1. NameAt(doc, Parents[doc][pos]) \in CellClasses /\ Parents[doc][pos] # 0
    BY <1>1, <1>6, <1>8
  <2> QED BY <1>2, <2>1, PlainIn
<1> QED BY <1>1, <1>4, <1>5, <1>9, <1>11, <1>12, SkipRead

\* The condition that a knob's function has read when its element ends.
LEMMA ConditionLast ==
  ASSUME NEW d \in ProperDescriptions, NEW a \in Starts(d), NEW f, f.at = a,
         f.fn = NameAt(d, a), DraftOK(d, f, EndOf(d, a))
  PROVE  /\ f.fn # "knob" \/ ~f.draft.ifOk => ConditionsIn(d, a) = {}
         /\ f.fn = "knob" /\ f.draft.ifOk =>
              \E j : /\ ConditionsIn(d, a) = {j} /\ f.draft.ifSignal = SignalIn(d, j)
                     /\ f.draft.ifValue % 65536 = Tokens[d][j].second
<1> DEFINE C == Children(d, a, "enableIf", EndOf(d, a))
<1>1. C = {j \in Starts(d) : NameAt(d, j) = "enableIf" /\ Parents[d][j] = a}
  BY ChildrenAll
<1>2. ConditionsIn(d, a) = {j \in C : Good(d, j)}
  BY <1>1 DEF ConditionsIn
<1>3. \A j \in C : /\ SixteenBits(Tokens[d][j].second) \/ ~Good(d, j)
                   /\ \A i \in C : i = j
  BY <1>1, FieldsHold DEF Good
<1>4. f.fn = "knob" => /\ C = {} => ~f.draft.ifOk
                       /\ \A j \in C : /\ f.draft.ifOk = Good(d, j)
                                       /\ f.draft.ifSignal = SignalIn(d, j)
                                       /\ Good(d, j) => f.draft.ifValue = Tokens[d][j].second
  BY DEF DraftOK
<1>5. \A j \in C : f.fn = "knob"
  BY <1>1, FieldsHold
<1> HIDE DEF C
<1>6. ASSUME f.fn # "knob" \/ ~f.draft.ifOk PROVE ConditionsIn(d, a) = {}
  BY <1>2, <1>4, <1>5, <1>6
<1>7. ASSUME f.fn = "knob", f.draft.ifOk
      PROVE  \E j : /\ ConditionsIn(d, a) = {j} /\ f.draft.ifSignal = SignalIn(d, j)
                    /\ f.draft.ifValue % 65536 = Tokens[d][j].second
  <2>1. PICK j \in C : Good(d, j) /\ f.draft.ifSignal = SignalIn(d, j)
                         /\ f.draft.ifValue = Tokens[d][j].second
    BY <1>4, <1>7
  <2>2. ConditionsIn(d, a) = {j}
    BY <1>2, <1>3, <2>1
  <2>3. SixteenBits(Tokens[d][j].second)
    BY <1>3, <2>1
  <2>4. Tokens[d][j].second % 65536 = Tokens[d][j].second
    BY <2>3, NotCut
  <2> QED BY <2>1, <2>2, <2>4
<1> QED BY <1>6, <1>7

\* The end of a cell's or a group's element.
LEMMA ItemEnds ==
  ASSUME ReadInv, Top.fn \in CellClasses \cup {"group"}, NEW q, q = pos + 1,
         (AtEnd /\ pos' = pos) \/ (At("end") /\ pos' = q), frames' = Return,
         UNCHANGED <<doc, failed, layouts, pages, windows, reported>>
  PROVE  /\ pos \in 1 .. Size(doc) /\ pos' = q /\ q \in 1 .. Size(doc) + 1
         /\ Top.at \in Starts(doc) /\ Top.fn = NameAt(doc, Top.at)
         /\ Top.layout \in DOMAIN layouts
         /\ layouts[Top.layout].at = Parents[doc][Top.at]
         /\ Parents[doc][Top.at] # 0 /\ NameAt(doc, Parents[doc][Top.at]) \in Sheets
         /\ Top.draft.class = Top.fn /\ (Top.fn = "group" => Top.draft.signal = 0)
         /\ EndOf(doc, Top.at) = pos /\ Top.at \notin Ended(doc, pos)
         /\ Ended(doc, q) = Ended(doc, pos) \cup {Top.at}
         /\ StackOK(doc, frames', q, layouts) /\ Last(frames').fn \notin CellClasses
         /\ PagesOK(doc, pages', layouts', FALSE, q)
         /\ PagesOK(doc, windows', layouts', TRUE, q)
<1>1. Top.fn # "restore" /\ Top.fn # "driver"
  BY DEF CellClasses
<1>2. /\ doc \in ProperDescriptions /\ StackOK(doc, frames, pos, layouts)
      /\ ~AtEnd /\ pos \in 1 .. Size(doc) /\ pos \in 1 .. Size(doc) + 1
  BY <1>1, Nested, Sees
<1>3. pos' = q /\ Type(doc, pos) = "end"
  BY <1>2, Sees
<1>4. /\ q \in 1 .. Size(doc) + 1
      /\ StackOK(doc, Front(frames), q, layouts)
      /\ Last(Front(frames)).fn \notin CellClasses
      /\ EndOf(doc, Top.at) = pos /\ Top.at \notin Ended(doc, pos)
      /\ Ended(doc, q) = Ended(doc, pos) \cup {Top.at}
  BY <1>1, <1>2, <1>3, StackReturns DEF Top
<1>5. FrameOK(doc, Top, Len(frames), pos, layouts)
  BY <1>1, <1>2, TopIs DEF Top
<1>6. /\ Top.at \in Starts(doc) /\ Top.fn = NameAt(doc, Top.at)
      /\ Top.layout \in DOMAIN layouts
      /\ layouts[Top.layout].at = Parents[doc][Top.at]
      /\ Parents[doc][Top.at] # 0 /\ NameAt(doc, Parents[doc][Top.at]) \in Sheets
      /\ Top.draft.class = Top.fn /\ (Top.fn = "group" => Top.draft.signal = 0)
  BY <1>1, <1>5 DEF FrameOK
<1>7. NameAt(doc, Top.at) # "page"
  BY <1>6 DEF CellClasses
<1>8. \A separate \in BOOLEAN :
        PagesOf(doc, separate) \cap Ended(doc, q) = PagesOf(doc, separate) \cap Ended(doc, pos)
  BY <1>4, <1>7 DEF PagesOf, NameAt
<1>9. PagesOK(doc, pages, layouts, FALSE, pos) /\ PagesOK(doc, windows, layouts, TRUE, pos)
  BY DEF ReadInv, MadeOK
<1>10. PagesOK(doc, pages, layouts, FALSE, q) /\ PagesOK(doc, windows, layouts, TRUE, q)
  BY <1>8, <1>9, PagesStay
<1> QED BY <1>2, <1>3, <1>4, <1>6, <1>10 DEF Return

\* A cell is made of what was read.
LEMMA NewCellIs ==
  ASSUME NEW draft, NEW layout, NEW at
  PROVE  /\ IsCell(Cell(draft, layout, at)) /\ Cell(draft, layout, at).at = at
         /\ Cell(draft, layout, at).layout = layout
         /\ Cell(draft, layout, at).signal = draft.signal
BY DEF IsCell, Cell

\* The end of a cell's element, which makes the cell.
LEMMA CellEnded ==
  ASSUME ReadInv, NEW class \in CellClasses, EndCell(class), UNCHANGED reported
  PROVE  ReadInv'
<1> DEFINE q == pos + 1
           a == Top.at
           f == Top
           n == Len(cells) + 1
<1>1. /\ f.fn = class
      /\ (AtEnd /\ pos' = pos) \/ (At("end") /\ pos' = q)
      /\ frames' = Return
      /\ UNCHANGED <<doc, failed, layouts, pages, windows>>
  BY DEF EndCell, In
<1>2. /\ pos \in 1 .. Size(doc) /\ pos' = q /\ q \in 1 .. Size(doc) + 1
      /\ a \in Starts(doc) /\ f.fn = NameAt(doc, a)
      /\ f.layout \in DOMAIN layouts
      /\ layouts[f.layout].at = Parents[doc][a]
      /\ Parents[doc][a] # 0 /\ NameAt(doc, Parents[doc][a]) \in Sheets
      /\ f.draft.class = f.fn
      /\ EndOf(doc, a) = pos /\ a \notin Ended(doc, pos)
      /\ Ended(doc, q) = Ended(doc, pos) \cup {a}
      /\ StackOK(doc, frames', q, layouts) /\ Last(frames').fn \notin CellClasses
      /\ PagesOK(doc, pages', layouts', FALSE, q)
      /\ PagesOK(doc, windows', layouts', TRUE, q)
  BY <1>1, ItemEnds
<1>3. /\ doc \in ProperDescriptions /\ ~failed /\ reported = <<>>
      /\ DraftOK(doc, f, EndOf(doc, a))
  BY <1>1, <1>2, Sees
<1>4. /\ CellsOK(doc, cells, layouts, pos) /\ MapsOK(ui2signal, signal2ui, cells)
      /\ EnablersOK(doc, enablers, cells) /\ IsSeq(cells)
  BY DEF ReadInv, MadeOK, CellsOK
<1>5. f.draft.signal = SignalOf(doc, a)
  <2>1. f.fn # "group"
    BY <1>1 DEF CellClasses
  <2>2. f.draft.signal = IF f.fn = "textLabel" THEN 0 ELSE SignalUpTo(doc, a, EndOf(doc, a))
    BY <1>3 DEF DraftOK
  <2> QED BY <1>2, <1>3, <2>1, <2>2, SignalLast
<1>6. a \in ItemsOf(doc) <=> Created(f.draft, a)
  <2>1. NameAt(doc, a) \in CellClasses
    BY <1>1, <1>2
  <2> QED BY <1>2, <2>1 DEF ItemsOf, Created
<1>7. /\ f.fn # "knob" \/ ~f.draft.ifOk => ConditionsIn(doc, a) = {}
      /\ f.fn = "knob" /\ f.draft.ifOk =>
           \E j : /\ ConditionsIn(doc, a) = {j} /\ f.draft.ifSignal = SignalIn(doc, j)
                  /\ f.draft.ifValue % 65536 = Tokens[doc][j].second
  BY <1>2, <1>3, ConditionLast
<1>8. /\ CellsOK(doc, cells', layouts, q) /\ MapsOK(ui2signal', signal2ui', cells')
      /\ EnablersOK(doc, enablers', cells')
  <2>1. CASE ~Created(f.draft, a)
    <3>1. UNCHANGED <<cells, mapVars>>
      BY <2>1 DEF EndCell
    <3>2. ItemsOf(doc) \cap Ended(doc, q) = ItemsOf(doc) \cap Ended(doc, pos)
      BY <1>2, <1>6, <2>1
    <3>3. CellsOK(doc, cells, layouts, q)
      BY <1>4, <3>2, CellsStay
    <3> QED BY <1>4, <3>1, <3>3 DEF mapVars
  <2>2. CASE Created(f.draft, a)
    <3> DEFINE new == Cell(f.draft, f.layout, a)
    <3>1. /\ cells' = Append(cells, new)
          /\ class = "textLabel" => UNCHANGED mapVars
          /\ class # "textLabel" =>
               /\ ui2signal' = Put(ui2signal, n, f.draft.signal)
               /\ signal2ui' = Put(signal2ui, f.draft.signal, n)
               /\ enablers' = Enabling(f.draft, n)
      BY <2>2 DEF EndCell
    <3>2. /\ IsCell(new) /\ new.at = a /\ new.layout = f.layout
          /\ new.signal = SignalOf(doc, a)
      BY <1>5, NewCellIs
    <3> HIDE DEF new, f, a, q
    <3>3. CellsOK(doc, Append(cells, new), layouts, q)
      BY <1>2, <1>4, <1>6, <2>2, <3>2, CellMade
    <3>4. /\ MapsOK(ui2signal, signal2ui, Append(cells, new))
          /\ MapsOK(Put(ui2signal, n, f.draft.signal), Put(signal2ui, f.draft.signal, n),
                    Append(cells, new))
      BY <1>4, MapsMade
    <3>5. MapsOK(ui2signal', signal2ui', cells')
      BY <3>1, <3>4 DEF mapVars
    <3>6. EnablersOK(doc, enablers', cells')
      <4>1. CASE f.fn # "knob" \/ ~f.draft.ifOk
        <5>1. EnablersOK(doc, enablers, Append(cells, new))
          BY <1>4, <1>7, <3>2, <4>1, EnablersStay
        <5>2. enablers' = enablers
          BY <1>1, <1>2, <3>1, <4>1 DEF Enabling, mapVars
        <5> QED BY <3>1, <5>1, <5>2
      <4>2. CASE f.fn = "knob" /\ f.draft.ifOk
        <5>1. PICK j : /\ ConditionsIn(doc, a) = {j} /\ f.draft.ifSignal = SignalIn(doc, j)
                       /\ f.draft.ifValue % 65536 = Tokens[doc][j].second
          BY <1>7, <4>2
        <5>2. enablers' = Put(enablers, f.draft.ifSignal,
                              [value |-> f.draft.ifValue % 65536, ui |-> n])
          BY <1>1, <1>2, <3>1, <4>2 DEF Enabling
        <5>3. enablers' = Put(enablers, SignalIn(doc, j),
                              [value |-> Tokens[doc][j].second, ui |-> n])
          BY <5>1, <5>2
        <5>4. ConditionsIn(doc, new.at) = {j}
          BY <3>2, <5>1
        <5> QED BY <1>4, <3>1, <5>3, <5>4, EnablersMade
      <4> QED BY <4>1, <4>2
    <3> QED BY <3>1, <3>3, <3>5, <3>6
  <2> QED BY <2>1, <2>2
<1> HIDE DEF q
<1> QED BY <1>1, <1>2, <1>3, <1>8, GoesOn

\* The end of a group's, which makes its box.
LEMMA GroupEnded ==
  ASSUME ReadInv, EndGroup, UNCHANGED reported
  PROVE  ReadInv'
<1> DEFINE q == pos + 1
           a == Top.at
           f == Top
           new == Cell(f.draft, f.layout, a)
<1>1. /\ f.fn = "group"
      /\ (AtEnd /\ pos' = pos) \/ (At("end") /\ pos' = q)
      /\ frames' = Return /\ cells' = Append(cells, new)
      /\ UNCHANGED <<doc, failed, layouts, pages, windows, mapVars>>
  BY DEF EndGroup, In
<1>2. /\ pos \in 1 .. Size(doc) /\ pos' = q /\ q \in 1 .. Size(doc) + 1
      /\ a \in Starts(doc) /\ f.fn = NameAt(doc, a)
      /\ f.layout \in DOMAIN layouts
      /\ layouts[f.layout].at = Parents[doc][a]
      /\ Parents[doc][a] # 0 /\ NameAt(doc, Parents[doc][a]) \in Sheets
      /\ f.draft.signal = 0
      /\ a \notin Ended(doc, pos)
      /\ Ended(doc, q) = Ended(doc, pos) \cup {a}
      /\ StackOK(doc, frames', q, layouts) /\ Last(frames').fn \notin CellClasses
      /\ PagesOK(doc, pages', layouts', FALSE, q)
      /\ PagesOK(doc, windows', layouts', TRUE, q)
  BY <1>1, ItemEnds
<1>3. doc \in ProperDescriptions /\ ~failed /\ reported = <<>>
  BY Sees
<1>4. /\ CellsOK(doc, cells, layouts, pos) /\ MapsOK(ui2signal, signal2ui, cells)
      /\ EnablersOK(doc, enablers, cells) /\ IsSeq(cells)
  BY DEF ReadInv, MadeOK, CellsOK
<1>5. NameAt(doc, a) = "group" /\ NameAt(doc, a) # "circuitButton" /\ NameAt(doc, a) # "knob"
  BY <1>1, <1>2
<1>6. a \in ItemsOf(doc)
  BY <1>2, <1>5 DEF ItemsOf
<1>7. SignalOf(doc, a) = 0
  BY <1>2, <1>3, <1>5, SignalLast
<1>8. /\ IsCell(new) /\ new.at = a /\ new.layout = f.layout
      /\ new.signal = SignalOf(doc, a)
  BY <1>2, <1>7, NewCellIs
<1>9. ConditionsIn(doc, new.at) = {}
  BY <1>3, <1>5, <1>8, FieldsHold DEF ConditionsIn
<1> HIDE DEF new, f, a, q
<1>10. CellsOK(doc, Append(cells, new), layouts, q)
  BY <1>2, <1>4, <1>6, <1>8, CellMade
<1>11. MapsOK(ui2signal, signal2ui, Append(cells, new))
  BY <1>4, MapsMade
<1>12. EnablersOK(doc, enablers, Append(cells, new))
  BY <1>4, <1>9, EnablersStay
<1>13. /\ CellsOK(doc, cells', layouts', q) /\ MapsOK(ui2signal', signal2ui', cells')
       /\ EnablersOK(doc, enablers', cells')
  BY <1>1, <1>10, <1>11, <1>12 DEF mapVars
<1> QED BY <1>1, <1>2, <1>3, <1>13, GoesOn

\* A function that is called for an element which starts.
LEMMA FrameMade ==
  ASSUME NEW d \in ProperDescriptions, NEW s \in Starts(d), NEW fn, fn = NameAt(d, s),
         fn \in Structure \cup CellClasses, NEW layout, NEW draft, NEW ls,
         DOMAIN draft = DOMAIN NoDraft,
         fn # "driver" => layout \in DOMAIN ls,
         fn \in Sheets => ls[layout].at = s,
         fn = "page" => (ls[layout].window <=> Tokens[d][s].mode = "window"),
         fn \in CellClasses \cup {"group"} =>
           /\ Parents[d][s] # 0 /\ NameAt(d, Parents[d][s]) \in Sheets
           /\ ls[layout].at = Parents[d][s] /\ draft.class = fn,
         fn = "group" => draft.signal = 0
  PROVE  FrameOK(d, Frame(fn, s, layout, draft), Depth(d, s) + 1, s + 1, ls)
<1> DEFINE f == Frame(fn, s, layout, draft)
<1>1. /\ DOMAIN f = {"fn", "at", "layout", "draft"}
      /\ f.fn = fn /\ f.at = s /\ f.layout = layout /\ f.draft = draft
  BY DEF Frame
<1> HIDE DEF f
<1>2. s \in Nat /\ Depth(d, s) \in Nat
  BY StartIs, ProperIs
<1>3. /\ s < s + 1 /\ Depth(d, s) = (Depth(d, s) + 1) - 1
      /\ \A m \in s .. (s + 1) - 1 : m = s
  BY <1>2
<1>4. \A m \in s .. (s + 1) - 1 : Depth(d, m) >= (Depth(d, s) + 1) - 1
  BY <1>2, <1>3
<1>5. IsFrame(f)
  BY <1>1 DEF IsFrame
<1>6. FrameOK(d, f, Depth(d, s) + 1, s + 1, ls)
  BY <1>1, <1>3, <1>4, <1>5 DEF FrameOK
<1> QED BY <1>6 DEF f

\* The call.
LEMMA CallRead ==
  ASSUME ReadInv, At("start"), StackOK(doc, frames, pos, layouts), Top.fn \notin CellClasses,
         NEW f, frames' = Append(frames, f), f.at = pos, pos' = pos + 1,
         NEW ls, layouts' = ls, ls = layouts \/ \E x : ls = Append(layouts, x),
         FrameOK(doc, f, Depth(doc, pos) + 1, pos + 1, ls),
         f.fn \in CellClasses => f.draft = NewCell(f.fn),
         UNCHANGED <<doc, failed, pages, windows, mapVars, cells, reported>>
  PROVE  ReadInv'
<1>1. /\ doc \in ProperDescriptions /\ pos \in Starts(doc) /\ ~failed /\ reported = <<>>
      /\ pos \in 1 .. Size(doc) /\ Type(doc, pos) = "start" /\ pos \in 1 .. Size(doc) + 1
  BY Sees
<1>2. /\ CellsOK(doc, cells, layouts, pos)
      /\ PagesOK(doc, pages, layouts, FALSE, pos)
      /\ PagesOK(doc, windows, layouts, TRUE, pos)
      /\ MapsOK(ui2signal, signal2ui, cells)
      /\ EnablersOK(doc, enablers, cells)
      /\ IsSeq(layouts)
  BY DEF ReadInv, MadeOK, CellsOK
<1>3. Len(frames) = Depth(doc, pos)
  <2>1. /\ Depth(doc, pos - 1) = Len(frames) - 1 /\ Len(frames) \in Nat
    BY <1>1, StackIs
  <2>2. Depth(doc, pos - 1) = Depth(doc, pos) - 1 /\ Depth(doc, pos) \in Nat
    BY <1>1, StartIs
  <2> QED BY <2>1, <2>2
<1>4. FrameOK(doc, f, Len(frames) + 1, pos + 1, ls)
  BY <1>3
<1>5. /\ pos + 1 \in 1 .. Size(doc) + 1
      /\ StackOK(doc, Append(frames, f), pos + 1, ls) /\ Last(Append(frames, f)) = f
  BY <1>1, <1>2, <1>4, StackCalls DEF Top
<1>6. f.fn \in CellClasses => DraftOK(doc, f, pos + 1)
  <2>1. f.fn = NameAt(doc, pos)
    BY <1>4 DEF FrameOK
  <2> QED BY <1>1, <2>1, DraftFirst
<1>7. Ended(doc, pos + 1) = Ended(doc, pos)
  BY <1>1, EndedTick
<1>8. /\ CellsOK(doc, cells, ls, pos)
      /\ PagesOK(doc, pages, ls, FALSE, pos) /\ PagesOK(doc, windows, ls, TRUE, pos)
  BY <1>2, CellsOfMore, PagesOfMore
<1>9. /\ CellsOK(doc, cells, ls, pos + 1)
      /\ PagesOK(doc, pages, ls, FALSE, pos + 1) /\ PagesOK(doc, windows, ls, TRUE, pos + 1)
  BY <1>7, <1>8, CellsStay, PagesStay
<1> QED BY <1>1, <1>2, <1>5, <1>6, <1>9, GoesOn DEF mapVars

\* A draft without anything in it.
LEMMA NewDraft ==
  ASSUME NEW class
  PROVE  /\ DOMAIN NewCell(class) = DOMAIN NoDraft /\ NewCell(class).class = class
         /\ NewCell(class).signal = 0
BY DEF NewCell, NoDraft

\* readLayout_(): a cell or a group starts, or what is not known is passed.
LEMMA LayoutRead ==
  ASSUME ReadInv, ReadLayout, UNCHANGED reported
  PROVE  ReadInv'
<1>1. /\ Top.fn \in Sheets /\ At("start")
  BY DEF ReadLayout, In, Sheets
<1>2. Top.fn # "restore" /\ Top.fn # "driver" /\ Top.fn \notin CellClasses
  BY <1>1 DEF Sheets, CellClasses
<1>3. /\ doc \in ProperDescriptions /\ pos \in Starts(doc) /\ Name = NameAt(doc, pos)
      /\ pos \in 1 .. Size(doc) + 1 /\ StackOK(doc, frames, pos, layouts)
  BY <1>1, <1>2, Sees, Nested
<1>4. /\ FrameOK(doc, Top, Len(frames), pos, layouts)
      /\ Top.at # 0 /\ Top.fn = NameAt(doc, Top.at) /\ Parents[doc][pos] = Top.at
  BY <1>2, <1>3, TopIs DEF Top
<1>5. Top.layout \in DOMAIN layouts /\ layouts[Top.layout].at = Top.at
  BY <1>1, <1>2, <1>4 DEF FrameOK
<1>6. CASE Name \in CellClasses \cup {"group"}
  <2> DEFINE f == Frame(Name, pos, Top.layout, NewCell(Name))
  <2>1. /\ frames' = Append(frames, f) /\ pos' = pos + 1
        /\ UNCHANGED <<doc, failed, layouts, pages, windows, mapVars, cells>>
    BY <1>6 DEF ReadLayout, Call
  <2>2. /\ Name \notin Sheets /\ Name # "driver" /\ Name # "page"
        /\ Name \in Structure \cup CellClasses
    BY <1>6 DEF Sheets, CellClasses, Structure
  <2>3. FrameOK(doc, f, Depth(doc, pos) + 1, pos + 1, layouts)
    BY <1>1, <1>3, <1>4, <1>5, <2>2, FrameMade, NewDraft
  <2>4. f.at = pos /\ f.fn = Name /\ f.draft = NewCell(Name)
    BY DEF Frame
  <2> HIDE DEF f
  <2> QED BY <1>1, <1>2, <1>3, <2>1, <2>3, <2>4, CallRead
<1>7. CASE Name \notin CellClasses \cup {"group"}
  <2>1. /\ frames' = frames /\ PastElement
        /\ UNCHANGED <<doc, failed, layouts, pages, windows, mapVars, cells>>
    BY <1>7 DEF ReadLayout, Skip
  <2>2. NameAt(doc, pos) \notin Structure
    <3>1. NameAt(doc, Parents[doc][pos]) \in Sheets /\ Parents[doc][pos] # 0
      BY <1>1, <1>4
    <3>2. NameAt(doc, Parents[doc][pos]) # "driver" /\ NameAt(doc, Parents[doc][pos]) # "group"
      BY <3>1 DEF Sheets
    <3>3. /\ NameAt(doc, pos) # "driver" /\ NameAt(doc, pos) # "page"
          /\ NameAt(doc, pos) # "layout" /\ NameAt(doc, pos) # "group"
      BY <1>3, <1>7, <3>1, <3>2, Grammar
    <3> QED BY <3>3 DEF Structure
  <2>3. NameAt(doc, pos) \notin CellClasses
    BY <1>3, <1>7
  <2> QED BY <1>1, <1>2, <1>3, <2>1, <2>2, <2>3, SkipRead DEF Top
<1> QED BY <1>6, <1>7

\* readGroup_(): its layout starts, or its place and what is not known is passed.
LEMMA GroupRead ==
  ASSUME ReadInv, ReadGroup, UNCHANGED reported
  PROVE  ReadInv'
<1>1. Top.fn = "group" /\ At("start")
  BY DEF ReadGroup, In
<1>2. Top.fn # "restore" /\ Top.fn # "driver" /\ Top.fn \notin CellClasses
  BY <1>1 DEF CellClasses
<1>3. /\ doc \in ProperDescriptions /\ pos \in Starts(doc) /\ Name = NameAt(doc, pos)
      /\ pos \in 1 .. Size(doc) + 1 /\ StackOK(doc, frames, pos, layouts)
  BY <1>1, <1>2, Sees, Nested
<1>4. Top.at # 0 /\ NameAt(doc, Top.at) = "group" /\ Parents[doc][pos] = Top.at
  BY <1>1, <1>2, <1>3, TopIs DEF Top
<1>5. CASE Name = "layout"
  <2> DEFINE x == [window |-> "none" = "window", at |-> pos]
             ls == Append(layouts, x)
             n == Len(layouts) + 1
             f == Frame("layout", pos, n, NoDraft)
  <2>1. /\ frames' = Append(frames, f) /\ pos' = pos + 1 /\ layouts' = ls
        /\ UNCHANGED <<doc, failed, pages, windows, mapVars, cells>>
    BY <1>5 DEF ReadGroup, OpensLayout, Call
  <2>2. n \in DOMAIN ls /\ ls[n].at = pos
    <3>1. IsSeq(layouts) /\ x.at = pos
      BY DEF ReadInv, MadeOK, CellsOK
    <3> HIDE DEF x
    <3>2. ls[n] = x /\ n \in DOMAIN ls
      BY <3>1, OneMore
    <3> QED BY <3>1, <3>2
  <2>3. \E y : ls = Append(layouts, y)
    OBVIOUS
  <2> HIDE DEF ls, n
  <2>4. /\ "layout" \notin CellClasses \cup {"group"} /\ "layout" # "page"
        /\ "layout" \in Structure \cup CellClasses
    BY DEF CellClasses, Structure
  <2>5. FrameOK(doc, f, Depth(doc, pos) + 1, pos + 1, ls)
    BY <1>3, <1>5, <2>2, <2>4, FrameMade
  <2>6. f.at = pos /\ f.fn \notin CellClasses
    BY <2>4 DEF Frame
  <2> HIDE DEF f
  <2> QED BY <1>1, <1>2, <1>3, <2>1, <2>3, <2>5, <2>6, CallRead
<1>6. CASE Name # "layout"
  <2>1. /\ frames' = frames /\ PastElement
        /\ UNCHANGED <<doc, failed, layouts, pages, windows, mapVars, cells>>
    BY <1>6 DEF ReadGroup, Skip
  <2>2. NameAt(doc, Parents[doc][pos]) \notin Sheets
    BY <1>4 DEF Sheets
  <2>3. NameAt(doc, pos) \notin Structure
    <3>1. /\ NameAt(doc, pos) # "driver" /\ NameAt(doc, pos) # "page"
          /\ NameAt(doc, pos) # "layout" /\ NameAt(doc, pos) # "group"
      BY <1>3, <1>4, <1>6, <2>2, Grammar
    <3> QED BY <3>1 DEF Structure
  <2> QED BY <1>1, <1>2, <1>3, <1>4, <2>1, <2>2, <2>3, SkipRead DEF Top
<1> QED BY <1>5, <1>6

\* The driver's element is the first there is, and nothing is around its pages.
LEMMA PageLevel ==
  ASSUME NEW d \in ProperDescriptions, NEW a \in Starts(d), NameAt(d, a) = "page"
  PROVE  Depth(d, a) = 2
<1>1. Parents[d][a] # 0 /\ NameAt(d, Parents[d][a]) = "driver"
  BY Grammar
<1>2. Parents[d][a] \in Starts(d) /\ Depth(d, Parents[d][a]) = Depth(d, a) - 1
  BY <1>1, ParentIsLast
<1>3. Depth(d, Parents[d][a]) = 1
  BY <1>1, <1>2, Grammar, RootLevel
<1>4. Depth(d, a) \in Nat
  BY StartIs
<1> QED BY <1>2, <1>3, <1>4

\* When a page has ended the loop over the pages may find its own end taken.
LEMMA DriverTaken ==
  ASSUME NEW d \in ProperDescriptions, NEW fs, NEW p \in 1 .. Size(d), NEW ls,
         StackOK(d, fs, p, ls), Depth(d, p - 1) = 1, Type(d, p) = "end"
  PROVE  /\ p + 1 \in 1 .. Size(d) + 1 /\ OverOK(d, fs, p + 1) /\ Last(fs).fn = "driver"
         /\ NameAt(d, Last(fs).at) = "driver"
         /\ Ended(d, p + 1) = Ended(d, p) \cup {Last(fs).at}
<1>0. /\ p \in 1 .. Size(d) + 1 /\ p + 1 \in 1 .. Size(d) + 1 /\ p \in Nat
      /\ (p + 1) - 1 = p /\ d \in Descriptions
  BY ProperIs
<1>1. Len(fs) = 2 /\ IsSeq(fs) /\ fs[1].fn = "restore" /\ Last(fs) = fs[2]
  <2>1. /\ Len(fs) \in Nat /\ Depth(d, p - 1) = Len(fs) - 1
        /\ IsSeq(fs) /\ Last(fs) = fs[Len(fs)]
    BY <1>0, StackIs
  <2>2. Len(fs) = 2
    <3>1. Len(fs) - 1 = 1
      BY <2>1, Zenon
    <3> QED BY <2>1, <3>1
  <2>3. fs[1].fn = "restore"
    BY DEF StackOK
  <2> QED BY <2>1, <2>2, <2>3
<1>2. FrameOK(d, fs[2], 2, p, ls)
  BY <1>1 DEF StackOK
<1>3. Last(fs).fn # "restore"
  BY <1>1, <1>2 DEF FrameOK, Structure, CellClasses
<1>4. /\ fs[2].at \in Starts(d) /\ fs[2].at < p /\ Depth(d, p - 1) = Depth(d, fs[2].at)
      /\ fs[2].fn = NameAt(d, fs[2].at)
  BY <1>0, <1>1, <1>3, TopIs
<1>5. Depth(d, fs[2].at) = 1 /\ fs[2].fn = "driver"
  BY <1>4, RootLevel, Grammar
<1>6. Ended(d, p + 1) = Ended(d, p) \cup {Last(fs).at}
  BY <1>3, StackReturns
<1>7. Depth(d, p) = 0
  BY <1>0, DepthStep
<1>8. fs[2].at < p + 1
  <2>1. fs[2].at \in Nat
    BY <1>4, StartIs, ProperIs
  <2> QED BY <1>0, <1>4, <2>1
<1>9. OverOK(d, fs, p + 1)
  BY <1>0, <1>1, <1>4, <1>5, <1>7, <1>8 DEF OverOK
<1> QED BY <1>0, <1>1, <1>4, <1>5, <1>6, <1>9

\* The end of a layout or of a page, and what may be taken with it.
LEMMA LayoutPast ==
  ASSUME ReadInv, EndLayout, UNCHANGED reported
  PROVE  /\ doc \in ProperDescriptions /\ Top.at \in Starts(doc) /\ Top.fn = NameAt(doc, Top.at)
         /\ Top.fn \in Sheets
         /\ Top.layout \in DOMAIN layouts /\ layouts[Top.layout].at = Top.at
         /\ Top.fn = "page" =>
              (layouts[Top.layout].window <=> Tokens[doc][Top.at].mode = "window")
         /\ pos' \in 1 .. Size(doc) + 1
         /\ StackOK(doc, frames', pos', layouts) \/ OverOK(doc, frames', pos')
         /\ Last(frames').fn \notin CellClasses
         /\ Ended(doc, pos') = Ended(doc, pos) \cup {Top.at}
              \/ \E r : /\ NameAt(doc, r) = "driver"
                        /\ Ended(doc, pos') = Ended(doc, pos) \cup {Top.at, r}
<1>1. /\ Top.fn \in Sheets /\ frames' = Front(frames)
      /\ (AtEnd /\ pos' = pos) \/ (At("end") /\ pos' = PastLayout(pos))
  BY DEF EndLayout, In, Sheets, Return
<1>2. Top.fn # "restore" /\ Top.fn # "driver"
  BY <1>1 DEF Sheets
<1>3. /\ doc \in ProperDescriptions /\ StackOK(doc, frames, pos, layouts)
      /\ pos \in 1 .. Size(doc) /\ pos \in 1 .. Size(doc) + 1 /\ ~AtEnd
  BY <1>2, Sees, Nested
<1>4. Type(doc, pos) = "end" /\ pos' = PastLayout(pos)
  BY <1>1, <1>3, Sees
<1>5. /\ FrameOK(doc, Top, Len(frames), pos, layouts) /\ Top.at \in Starts(doc)
      /\ Top.fn = NameAt(doc, Top.at) /\ Depth(doc, pos - 1) = Depth(doc, Top.at)
  BY <1>2, <1>3, TopIs DEF Top
<1>6. /\ Top.layout \in DOMAIN layouts /\ layouts[Top.layout].at = Top.at
      /\ Top.fn = "page" =>
           (layouts[Top.layout].window <=> Tokens[doc][Top.at].mode = "window")
  BY <1>1, <1>2, <1>5 DEF FrameOK
<1>7. /\ pos + 1 \in 1 .. Size(doc) + 1
      /\ StackOK(doc, Front(frames), pos + 1, layouts)
      /\ Last(Front(frames)).fn \notin CellClasses
      /\ EndOf(doc, Top.at) = pos
      /\ Ended(doc, pos + 1) = Ended(doc, pos) \cup {Top.at}
  BY <1>2, <1>3, <1>4, StackReturns DEF Top
<1>8. CASE pos + 1 <= Size(doc) /\ Type(doc, pos + 1) = "end"
  <2>1. pos' = pos + 2
    BY <1>4, <1>8 DEF PastLayout, Size, Type
  <2>2. Top.fn = "page"
    <3>1. Top.fn # "layout"
      BY <1>3, <1>5, <1>7, <1>8, Grammar
    <3> QED BY <1>1, <3>1 DEF Sheets
  <2>3. Depth(doc, Top.at) = 2
    BY <1>3, <1>5, <2>2, PageLevel
  <2>4. pos \in Nat /\ pos + 1 \in 1 .. Size(doc) /\ (pos + 1) - 1 = pos
    BY <1>3, <1>7, <1>8, ProperIs
  <2>5. Depth(doc, pos) = 1
    BY <1>3, <1>4, <1>5, <2>3, ProperIs, DepthStep
  <2> DEFINE p == pos + 1
             fs == Front(frames)
  <2>6. /\ StackOK(doc, fs, p, layouts) /\ Depth(doc, p - 1) = 1 /\ Type(doc, p) = "end"
        /\ p \in 1 .. Size(doc)
    BY <1>7, <1>8, <2>4, <2>5
  <2>7. pos' = p + 1
    BY <2>1, <2>4
  <2> HIDE DEF p, fs
  <2>8. /\ p + 1 \in 1 .. Size(doc) + 1 /\ OverOK(doc, fs, p + 1)
        /\ Last(fs).fn = "driver" /\ NameAt(doc, Last(fs).at) = "driver"
        /\ Ended(doc, p + 1) = Ended(doc, p) \cup {Last(fs).at}
    BY <1>3, <2>6, DriverTaken
  <2>9. Ended(doc, pos') = Ended(doc, pos) \cup {Top.at, Last(fs).at}
    BY <1>7, <2>7, <2>8 DEF p
  <2> QED BY <1>1, <1>3, <1>5, <1>6, <1>7, <2>7, <2>8, <2>9 DEF fs
<1>9. CASE ~(pos + 1 <= Size(doc) /\ Type(doc, pos + 1) = "end")
  <2>1. pos' = pos + 1
    BY <1>4, <1>9 DEF PastLayout, Size, Type
  <2> QED BY <1>1, <1>3, <1>5, <1>6, <1>7, <2>1
<1> QED BY <1>8, <1>9

\* readLayout_() returns, and readPage_() adds the page.
LEMMA LayoutEnded ==
  ASSUME ReadInv, EndLayout, UNCHANGED reported
  PROVE  ReadInv'
<1> DEFINE q == pos'
           a == Top.at
           layout == Top.layout
<1>1. /\ doc \in ProperDescriptions /\ a \in Starts(doc) /\ Top.fn = NameAt(doc, a)
      /\ Top.fn \in Sheets /\ layout \in DOMAIN layouts /\ layouts[layout].at = a
      /\ Top.fn = "page" => (layouts[layout].window <=> Tokens[doc][a].mode = "window")
      /\ q \in 1 .. Size(doc) + 1
      /\ StackOK(doc, frames', q, layouts) \/ OverOK(doc, frames', q)
      /\ Last(frames').fn \notin CellClasses
      /\ Ended(doc, q) = Ended(doc, pos) \cup {a}
           \/ \E r : /\ NameAt(doc, r) = "driver"
                     /\ Ended(doc, q) = Ended(doc, pos) \cup {a, r}
  BY LayoutPast
<1>2. /\ UNCHANGED <<doc, failed, layouts, mapVars, cells>>
      /\ IF Top.fn = "page" THEN ReadPage(layout) ELSE UNCHANGED <<pages, windows>>
  BY DEF EndLayout
<1>3. /\ CellsOK(doc, cells, layouts, pos)
      /\ PagesOK(doc, pages, layouts, FALSE, pos)
      /\ PagesOK(doc, windows, layouts, TRUE, pos)
      /\ MapsOK(ui2signal, signal2ui, cells)
      /\ EnablersOK(doc, enablers, cells)
  BY DEF ReadInv, MadeOK
<1> HIDE DEF q, a, layout
<1>4. a \notin ItemsOf(doc) /\ \A r : NameAt(doc, r) = "driver" => r \notin ItemsOf(doc)
  <2>1. NameAt(doc, a) \notin CellClasses \cup {"group"}
    BY <1>1 DEF Sheets, CellClasses
  <2>2. "driver" \notin CellClasses \cup {"group"}
    BY DEF CellClasses
  <2> QED BY <2>1, <2>2 DEF ItemsOf
<1>5. ItemsOf(doc) \cap Ended(doc, q) = ItemsOf(doc) \cap Ended(doc, pos)
  BY <1>1, <1>4
<1>6. CellsOK(doc, cells, layouts, q)
  BY <1>3, <1>5, CellsStay
<1> DEFINE P(separate) == PagesOf(doc, separate) \cap Ended(doc, pos)
           Q(separate) == PagesOf(doc, separate) \cap Ended(doc, q)
<1>7. \A separate \in BOOLEAN : \A r : NameAt(doc, r) = "driver" => r \notin PagesOf(doc, separate)
  BY DEF PagesOf, NameAt
<1>8. PagesOK(doc, pages', layouts, FALSE, q) /\ PagesOK(doc, windows', layouts, TRUE, q)
  <2>1. CASE Top.fn # "page"
    <3>1. \A separate \in BOOLEAN : a \notin PagesOf(doc, separate)
      BY <1>1, <2>1 DEF PagesOf, NameAt
    <3>2. P(FALSE) = Q(FALSE) /\ P(TRUE) = Q(TRUE)
      BY <1>1, <1>7, <3>1
    <3>3. PagesOK(doc, pages, layouts, FALSE, q) /\ PagesOK(doc, windows, layouts, TRUE, q)
      BY <1>3, <3>2, PagesStay
    <3> QED BY <1>2, <2>1, <3>3
  <2>2. CASE Top.fn = "page" /\ layouts[layout].window
    <3>1. a \in PagesOf(doc, TRUE) /\ a \notin PagesOf(doc, FALSE)
      BY <1>1, <2>2 DEF PagesOf, NameAt
    <3>2. P(FALSE) = Q(FALSE) /\ Q(TRUE) = P(TRUE) \cup {a}
      BY <1>1, <1>7, <3>1
    <3>3. PagesOK(doc, pages, layouts, FALSE, q)
      BY <1>3, <3>2, PagesStay
    <3>4. PagesOK(doc, Append(windows, layout), layouts, TRUE, q)
      BY <1>1, <1>3, <3>2, PageMade
    <3> QED BY <1>2, <2>2, <3>3, <3>4 DEF ReadPage
  <2>3. CASE Top.fn = "page" /\ ~layouts[layout].window
    <3>1. a \in PagesOf(doc, FALSE) /\ a \notin PagesOf(doc, TRUE)
      BY <1>1, <2>3 DEF PagesOf, NameAt
    <3>2. P(TRUE) = Q(TRUE) /\ Q(FALSE) = P(FALSE) \cup {a}
      BY <1>1, <1>7, <3>1
    <3>3. PagesOK(doc, windows, layouts, TRUE, q)
      BY <1>3, <3>2, PagesStay
    <3>4. PagesOK(doc, Append(pages, layout), layouts, FALSE, q)
      BY <1>1, <1>3, <3>2, PageMade
    <3> QED BY <1>2, <2>3, <3>3, <3>4 DEF ReadPage
  <2> QED BY <2>1, <2>2, <2>3
<1> QED BY <1>1, <1>2, <1>3, <1>6, <1>8, Sees, GoesOn DEF q, mapVars

\* restore()'s loop over the pages: a page starts, or what is none is passed.
LEMMA DriverRead ==
  ASSUME ReadInv, ReadDriver, UNCHANGED reported
  PROVE  ReadInv'
<1>1. Top.fn = "driver" /\ At("start")
  BY DEF ReadDriver, In
<1>2. Top.fn # "restore" /\ Top.fn \notin CellClasses
  BY <1>1 DEF CellClasses
<1>3. /\ doc \in ProperDescriptions /\ pos \in Starts(doc) /\ Name = NameAt(doc, pos)
      /\ pos \in 1 .. Size(doc) /\ pos \in 1 .. Size(doc) + 1 /\ Type(doc, pos) = "start"
  BY <1>1, Sees
<1>4. StackOK(doc, frames, pos, layouts)
  BY <1>3, Sees, NothingLeft
<1>5. Top.at # 0 /\ NameAt(doc, Top.at) = "driver" /\ Parents[doc][pos] = Top.at
  BY <1>1, <1>2, <1>3, <1>4, TopIs DEF Top
<1>6. CASE Name = "page"
  <2> DEFINE x == [window |-> Here.mode = "window", at |-> pos]
             ls == Append(layouts, x)
             n == Len(layouts) + 1
             f == Frame("page", pos, n, NoDraft)
  <2>1. /\ frames' = Append(frames, f) /\ pos' = pos + 1 /\ layouts' = ls
        /\ UNCHANGED <<doc, failed, pages, windows, mapVars, cells>>
    BY <1>6 DEF ReadDriver, OpensLayout, Call
  <2>2. /\ n \in DOMAIN ls /\ ls[n].at = pos
        /\ ls[n].window <=> Tokens[doc][pos].mode = "window"
    <3>1. /\ IsSeq(layouts) /\ x.at = pos
          /\ x.window <=> Tokens[doc][pos].mode = "window"
      BY DEF ReadInv, MadeOK, CellsOK, Here
    <3> HIDE DEF x
    <3>2. ls[n] = x /\ n \in DOMAIN ls
      BY <3>1, OneMore
    <3> QED BY <3>1, <3>2
  <2>3. \E y : ls = Append(layouts, y)
    OBVIOUS
  <2> HIDE DEF ls, n
  <2>4. "page" \notin CellClasses \cup {"group"} /\ "page" \in Structure \cup CellClasses
    BY DEF CellClasses, Structure
  <2>5. FrameOK(doc, f, Depth(doc, pos) + 1, pos + 1, ls)
    BY <1>3, <1>6, <2>2, <2>4, FrameMade
  <2>6. f.at = pos /\ f.fn \notin CellClasses
    BY <2>4 DEF Frame
  <2> HIDE DEF f
  <2> QED BY <1>1, <1>2, <1>4, <2>1, <2>3, <2>5, <2>6, CallRead
<1>7. CASE Name # "page"
  <2>1. /\ frames' = frames /\ PastElement
        /\ UNCHANGED <<doc, failed, layouts, pages, windows, mapVars, cells>>
    BY <1>7 DEF ReadDriver, Skip
  <2>2. NameAt(doc, Parents[doc][pos]) \notin Sheets
    BY <1>5 DEF Sheets
  <2>3. NameAt(doc, pos) \notin Structure
    <3>1. /\ NameAt(doc, pos) # "driver" /\ NameAt(doc, pos) # "page"
          /\ NameAt(doc, pos) # "layout" /\ NameAt(doc, pos) # "group"
      BY <1>3, <1>5, <1>7, <2>2, Grammar
    <3> QED BY <3>1 DEF Structure
  <2> QED BY <1>1, <1>2, <1>4, <1>5, <2>1, <2>2, <2>3, SkipRead DEF Top
<1> QED BY <1>6, <1>7

\* The end of the driver, or of the description if the end of the driver has been taken.
LEMMA DriverEnded ==
  ASSUME ReadInv, EndDriver, UNCHANGED reported
  PROVE  ReadInv'
<1>1. /\ Top.fn = "driver" /\ frames' = Front(frames)
      /\ (AtEnd /\ pos' = pos) \/ (At("end") /\ pos' = pos + 1)
      /\ UNCHANGED <<doc, failed, layouts, pages, windows, mapVars, cells>>
  BY DEF EndDriver, In, Return
<1>2. Top.fn # "restore"
  BY <1>1
<1>3. doc \in ProperDescriptions /\ pos \in 1 .. Size(doc) + 1 /\ ~failed /\ reported = <<>>
  BY Sees
<1>4. CASE At("end") /\ pos' = pos + 1
  <2>1. pos \in 1 .. Size(doc) /\ Type(doc, pos) = "end"
    BY <1>4, Sees
  <2>2. StackOK(doc, frames, pos, layouts)
    BY <1>3, <2>1, Sees, NothingLeft
  <2>3. NameAt(doc, Top.at) = "driver"
    BY <1>1, <1>2, <1>3, <2>2, TopIs DEF Top
  <2>4. /\ pos + 1 \in 1 .. Size(doc) + 1
        /\ StackOK(doc, Front(frames), pos + 1, layouts)
        /\ Last(Front(frames)).fn \notin CellClasses
        /\ Ended(doc, pos + 1) = Ended(doc, pos) \cup {Top.at}
    BY <1>2, <1>3, <2>1, <2>2, StackReturns DEF Top
  <2>5. ItemsOf(doc) \cap Ended(doc, pos + 1) = ItemsOf(doc) \cap Ended(doc, pos)
    BY <2>3, <2>4 DEF ItemsOf, CellClasses
  <2>6. \A separate \in BOOLEAN :
          PagesOf(doc, separate) \cap Ended(doc, pos + 1)
            = PagesOf(doc, separate) \cap Ended(doc, pos)
    BY <2>3, <2>4 DEF PagesOf, NameAt
  <2>7. /\ CellsOK(doc, cells', layouts', pos + 1)
        /\ PagesOK(doc, pages', layouts', FALSE, pos + 1)
        /\ PagesOK(doc, windows', layouts', TRUE, pos + 1)
        /\ MapsOK(ui2signal', signal2ui', cells')
        /\ EnablersOK(doc, enablers', cells')
    BY <1>1, <2>5, <2>6, Stays
  <2> QED BY <1>1, <1>3, <1>4, <2>4, <2>7, GoesOn
<1>5. CASE AtEnd /\ pos' = pos
  <2>1. pos = Size(doc) + 1
    BY <1>5, Sees
  <2>2. OverOK(doc, frames, pos)
    <3>1. ~(pos <= Size(doc))
      BY <1>3, <2>1, ProperIs
    <3>2. ~StackOK(doc, frames, pos, layouts)
      BY <1>2, <1>3, <3>1, TopIs DEF Top
    <3> QED BY <3>2, Sees
  <2> DEFINE fs == Front(frames)
  <2>3. IsSeq(fs) /\ Len(fs) = 1 /\ fs[1].fn = "restore" /\ Depth(doc, pos - 1) = 0
    <3>1. /\ IsSeq(frames) /\ Len(frames) = 2 /\ frames[1].fn = "restore"
          /\ Depth(doc, pos - 1) = 0
      BY <2>2 DEF OverOK
    <3>2. Len(frames) >= 1 /\ 2 - 1 = 1 /\ 1 \in 1 .. 1
      BY <3>1
    <3>3. /\ IsSeq(fs) /\ Len(fs) = 2 - 1 /\ \A k \in 1 .. 2 - 1 : fs[k] = frames[k]
      BY <3>1, <3>2, OneLess
    <3> QED BY <3>1, <3>2, <3>3
  <2> HIDE DEF fs
  <2>4. StackOK(doc, fs, pos, layouts)
    BY <2>3 DEF StackOK
  <2>5. Last(fs).fn \notin CellClasses
    BY <2>3 DEF Last, CellClasses
  <2>6. /\ CellsOK(doc, cells', layouts', pos)
        /\ PagesOK(doc, pages', layouts', FALSE, pos)
        /\ PagesOK(doc, windows', layouts', TRUE, pos)
        /\ MapsOK(ui2signal', signal2ui', cells')
        /\ EnablersOK(doc, enablers', cells')
    BY <1>1, Stays
  <2> QED BY <1>1, <1>3, <1>5, <2>4, <2>5, <2>6, GoesOn DEF fs
<1> QED BY <1>1, <1>4, <1>5

\* restore(): the driver's element starts.
LEMMA RootRead ==
  ASSUME ReadInv, ReadRoot, UNCHANGED reported
  PROVE  ReadInv'
<1>1. Top.fn = "restore" /\ At("start")
  BY DEF ReadRoot, In
<1>2. Top.fn \notin CellClasses
  BY <1>1 DEF CellClasses
<1>3. /\ doc \in ProperDescriptions /\ pos \in Starts(doc) /\ Name = NameAt(doc, pos)
      /\ pos \in 1 .. Size(doc) /\ pos \in 1 .. Size(doc) + 1 /\ Type(doc, pos) = "start"
  BY <1>1, Sees
<1>4. StackOK(doc, frames, pos, layouts)
  BY <1>3, Sees, NothingLeft
<1>5. Depth(doc, pos) = 1
  <2> DEFINE n == Len(frames)
  <2>1. /\ n \in Nat \ {0} /\ Depth(doc, pos - 1) = n - 1 /\ Last(frames) = frames[n]
        /\ \A k \in 2 .. n : FrameOK(doc, frames[k], k, pos, layouts)
    BY <1>3, <1>4, StackIs DEF StackOK
  <2> HIDE DEF n
  <2>2. ~FrameOK(doc, frames[n], n, pos, layouts)
    BY <1>1, <2>1 DEF FrameOK, Structure, CellClasses, Top
  <2>3. n = 1
    BY <2>1, <2>2
  <2>4. Depth(doc, pos - 1) = Depth(doc, pos) - 1 /\ Depth(doc, pos) \in Nat
    BY <1>3, StartIs
  <2> QED BY <2>1, <2>3, <2>4
<1>6. Name = "driver"
  BY <1>3, <1>5, RootLevel, Grammar
<1> DEFINE f == Frame("driver", pos, 0, NoDraft)
<1>7. /\ frames' = Append(frames, f) /\ pos' = pos + 1
      /\ UNCHANGED <<doc, failed, layouts, pages, windows, mapVars, cells>>
  BY <1>6 DEF ReadRoot, Call
<1>8. /\ "driver" \notin CellClasses \cup {"group"} /\ "driver" \in Structure \cup CellClasses
      /\ "driver" \notin Sheets
  BY DEF CellClasses, Structure, Sheets
<1>9. FrameOK(doc, f, Depth(doc, pos) + 1, pos + 1, layouts)
  BY <1>3, <1>6, <1>8, FrameMade
<1>10. f.at = pos /\ f.fn \notin CellClasses
  BY <1>8 DEF Frame
<1> HIDE DEF f
<1> QED BY <1>1, <1>2, <1>4, <1>7, <1>9, <1>10, CallRead

\* The end of restore(): all is made.
LEMMA RestoreEnded ==
  ASSUME ReadInv, EndRestore, UNCHANGED reported
  PROVE  /\ ~(reading') /\ doc' = doc /\ reported' = <<>>
         /\ MadeOK(Size(doc) + 1)'
<1>1. /\ AtEnd /\ frames' = <<>>
      /\ UNCHANGED <<doc, layouts, pages, windows, mapVars, cells>>
  BY DEF EndRestore
<1>2. pos = Size(doc) + 1 /\ reported = <<>>
  BY <1>1, Sees
<1>3. MadeOK(pos)
  BY DEF ReadInv
<1> QED BY <1>1, <1>2, <1>3 DEF MadeOK, reading, mapVars

\* Every step of the reader.
LEMMA ReaderGoesOn ==
  ASSUME ReadInv, Reads, UNCHANGED reported
  PROVE  \/ ReadInv'
         \/ ~(reading') /\ doc' = doc /\ reported' = <<>> /\ MadeOK(Size(doc) + 1)'
<1>1. ASSUME NEW class, NEW fields, Keeps(class, fields), ReadsCell(class, fields)
      PROVE  ReadInv'
  <2>1. class \in CellClasses
    BY <1>1 DEF Keeps
  <2> QED BY <1>1, <2>1, FieldRead, CellEnded DEF ReadsCell
<1>2. ASSUME ReadCurcuitButton PROVE ReadInv'
  <2>1. Keeps("circuitButton", {"signalID", "onQuestion", "offQuestion"})
    BY DEF Keeps, CellClasses
  <2> QED BY <1>1, <1>2, <2>1 DEF ReadCurcuitButton
<1>3. ASSUME ReadImage PROVE ReadInv'
  <2>1. Keeps("image", {"signalID"})
    BY DEF Keeps, CellClasses
  <2> QED BY <1>1, <1>3, <2>1 DEF ReadImage
<1>4. ASSUME ReadKnob PROVE ReadInv'
  <2>1. Keeps("knob", {"signalID", "enableIf"})
    BY DEF Keeps, CellClasses
  <2> QED BY <1>1, <1>4, <2>1 DEF ReadKnob
<1>5. ASSUME ReadLcd PROVE ReadInv'
  <2>1. Keeps("lcd", {"signalID"})
    BY DEF Keeps, CellClasses
  <2> QED BY <1>1, <1>5, <2>1 DEF ReadLcd
<1>6. ASSUME ReadLed PROVE ReadInv'
  <2>1. Keeps("led", {"signalID"})
    BY DEF Keeps, CellClasses
  <2> QED BY <1>1, <1>6, <2>1 DEF ReadLed
<1>7. ASSUME ReadPushButton PROVE ReadInv'
  <2>1. Keeps("pushButton", {"signalID", "onQuestion", "offQuestion"})
    BY DEF Keeps, CellClasses
  <2> QED BY <1>1, <1>7, <2>1 DEF ReadPushButton
<1>8. ASSUME ReadTextLabel PROVE ReadInv'
  <2>1. Keeps("textLabel", {})
    BY DEF Keeps, CellClasses
  <2> QED BY <1>1, <1>8, <2>1 DEF ReadTextLabel
<1>9. ASSUME ReadValueEdit PROVE ReadInv'
  <2>1. Keeps("valueEdit", {"signalID"})
    BY DEF Keeps, CellClasses
  <2> QED BY <1>1, <1>9, <2>1 DEF ReadValueEdit
<1> QED
  BY <1>2, <1>3, <1>4, <1>5, <1>6, <1>7, <1>8, <1>9, TextRead, LayoutRead, LayoutEnded,
     GroupRead, GroupEnded, DriverRead, DriverEnded, RootRead, RestoreEnded
  DEF Reads

-----------------------------------------------------------------------------
(* After reading: values are shown, and the user works.                    *)

\* A cell that is as it was but for what it shows.
SameCell(r, t) ==
  /\ IsCell(t) /\ t.at = r.at /\ t.layout = r.layout /\ t.signal = r.signal
  /\ t.enabled = r.enabled

\* Whatever a cell shows, or the user does with it.
LEMMA CellKeeps ==
  ASSUME NEW r, IsCell(r), NEW v
  PROVE  /\ SameCell(r, [r EXCEPT !.checked = v])
         /\ SameCell(r, [r EXCEPT !.accepted = v])
         /\ SameCell(r, SetValue(r, v))
         /\ Shows(r.class) # {} => SameCell(r, Show(r, v))
<1>1. /\ SameCell(r, [r EXCEPT !.checked = v])
      /\ SameCell(r, [r EXCEPT !.accepted = v])
      /\ \A w : SameCell(r, [r EXCEPT !.value = w])
  BY DEF SameCell, IsCell
<1>2. SameCell(r, SetValue(r, v))
  BY DEF SameCell, IsCell, SetValue
<1>3. ASSUME Shows(r.class) # {} PROVE SameCell(r, Show(r, v))
  <2>1. r.class \in Buttons \cup {"led", "lcd", "valueEdit"}
    BY <1>3 DEF Shows
  <2>2. CASE r.class \in Buttons
    <3>1. r.class \notin {"led", "lcd", "valueEdit"}
      BY <2>2 DEF Buttons
    <3>2. Show(r, v) = [r EXCEPT !.checked = (v # 0)]
      BY <2>2, <3>1 DEF Show, ShowOnButton
    <3> QED BY <3>2 DEF SameCell, IsCell
  <2>3. CASE r.class = "led"
    <3>1. Show(r, v) = [r EXCEPT !.value = IF v = 0 THEN 0 ELSE 1]
      BY <2>3 DEF Show, ShowOnLed, Buttons
    <3> QED BY <3>1 DEF SameCell, IsCell
  <2>4. CASE r.class = "lcd"
    <3>1. Show(r, v) = [r EXCEPT !.value = v]
      BY <2>4 DEF Show, ShowOnLcd, Buttons
    <3> QED BY <3>1 DEF SameCell, IsCell
  <2>5. CASE r.class = "valueEdit"
    <3>1. Show(r, v) = SetValue(r, v)
      BY <2>5 DEF Show, Buttons
    <3> QED BY <1>2, <3>1
  <2> QED BY <2>1, <2>2, <2>3, <2>4, <2>5
<1> QED BY <1>1, <1>2, <1>3

\* One cell of them all becomes another.
LEMMA CellBecomes ==
  ASSUME NEW cs, IsSeq(cs), NEW i, NEW r
  PROVE  /\ IsSeq([cs EXCEPT ![i] = r]) /\ DOMAIN [cs EXCEPT ![i] = r] = DOMAIN cs
         /\ \A c \in DOMAIN cs : [cs EXCEPT ![i] = r][c] = IF c = i THEN r ELSE cs[c]
<1>1. PICK S : cs \in Seq(S)
  BY DEF IsSeq
<1>2. [cs EXCEPT ![i] = r] \in Seq(S \cup {r})
  <2>1. cs \in Seq(S \cup {r})
    BY <1>1
  <2>2. CASE i \in DOMAIN cs
    BY <2>1, <2>2
  <2>3. CASE i \notin DOMAIN cs
    <3>1. [cs EXCEPT ![i] = r] = cs
      BY <2>1, <2>3
    <3> QED BY <3>1, <2>1
  <2> QED BY <2>2, <2>3
<1>3. IsSeq([cs EXCEPT ![i] = r])
  BY <1>2 DEF IsSeq
<1> QED BY <1>1, <1>3

\* The cells are all as they were but for what they show.
AllSame(cs, ds) ==
  /\ IsSeq(ds) /\ DOMAIN ds = DOMAIN cs /\ \A c \in DOMAIN cs : SameCell(cs[c], ds[c])

\* So they are when nothing is done, and when one of them is made to show something else.
LEMMA AllKept ==
  ASSUME NEW cs, IsSeq(cs), \A c \in DOMAIN cs : IsCell(cs[c]), NEW i, NEW r,
         i \in DOMAIN cs => SameCell(cs[i], r)
  PROVE  AllSame(cs, cs) /\ AllSame(cs, [cs EXCEPT ![i] = r])
<1> DEFINE ds == [cs EXCEPT ![i] = r]
<1>1. /\ IsSeq(ds) /\ DOMAIN ds = DOMAIN cs
      /\ \A c \in DOMAIN cs : ds[c] = IF c = i THEN r ELSE cs[c]
  BY CellBecomes
<1> HIDE DEF ds
<1>2. \A c \in DOMAIN cs : SameCell(cs[c], cs[c])
  BY DEF SameCell
<1>3. AllSame(cs, ds)
  BY <1>1, <1>2 DEF AllSame
<1> QED BY <1>2, <1>3 DEF ds, AllSame

\* And so they are the same cells, of the same elements, and as enabled as before.
LEMMA AllSameMakes ==
  ASSUME NEW cs, NEW ds, AllSame(cs, ds)
  PROVE  /\ SameMakes(cs, ds) /\ \A c \in DOMAIN cs : ds[c].enabled = cs[c].enabled
         /\ IsSeq(ds) /\ DOMAIN ds = DOMAIN cs /\ \A c \in DOMAIN ds : IsCell(ds[c])
BY DEF AllSame, SameMakes, SameCell

\* The maps and the enablers know cells by their places and elements.
LEMMA MapsShow ==
  ASSUME NEW d, NEW u2s, NEW s2u, NEW en, NEW cs, NEW ds, SameMakes(cs, ds)
  PROVE  /\ MapsOK(u2s, s2u, cs) => MapsOK(u2s, s2u, ds)
         /\ EnablersOK(d, en, cs) => EnablersOK(d, en, ds)
<1>1. DOMAIN ds = DOMAIN cs /\ \A c \in DOMAIN cs : ds[c].at = cs[c].at
  BY DEF SameMakes
<1>2. MapsOK(u2s, s2u, cs) => MapsOK(u2s, s2u, ds)
  BY <1>1 DEF MapsOK
<1>3. ASSUME EnablersOK(d, en, cs) PROVE EnablersOK(d, en, ds)
  <2>1. ASSUME NEW s \in DOMAIN en
        PROVE  /\ en[s].ui \in DOMAIN ds
               /\ \E j \in ConditionsIn(d, ds[en[s].ui].at) :
                    s = SignalIn(d, j) /\ en[s].value = Tokens[d][j].second
    BY <1>1, <1>3 DEF EnablersOK
  <2>2. \A c \in DOMAIN ds : \A j \in ConditionsIn(d, ds[c].at) : SignalIn(d, j) \in DOMAIN en
    BY <1>1, <1>3 DEF EnablersOK
  <2> QED BY <2>1, <2>2 DEF EnablersOK
<1> QED BY <1>2, <1>3

\* signal2ui_[signalId] may add an entry for a signal without a cell.
LEMMA MapsAsked ==
  ASSUME NEW u2s, NEW s2u, NEW cs, MapsOK(u2s, s2u, cs), NEW id, NEW c,
         id \in DOMAIN s2u => c = s2u[id]
  PROVE  MapsOK(u2s, Put(s2u, id, c), cs)
<1> DEFINE w == Put(s2u, id, c)
<1>1. /\ DOMAIN w = DOMAIN s2u \cup {id}
      /\ \A s \in DOMAIN s2u : w[s] = s2u[s]
  BY DEF Put
<1> HIDE DEF w
<1>2. MapsOK(u2s, w, cs)
  BY <1>1 DEF MapsOK
<1> QED BY <1>2 DEF w

\* A knob has one condition, and so no two signals enable it.
LEMMA EnablersDiffer ==
  ASSUME NEW d \in ProperDescriptions, NEW en, NEW cs, EnablersOK(d, en, cs),
         NEW s \in DOMAIN en, NEW t \in DOMAIN en, en[s].ui = en[t].ui
  PROVE  s = t
<1>1. PICK j \in ConditionsIn(d, cs[en[s].ui].at) : s = SignalIn(d, j)
  BY DEF EnablersOK
<1>2. PICK i \in ConditionsIn(d, cs[en[t].ui].at) : t = SignalIn(d, i)
  BY DEF EnablersOK
<1>3. /\ j \in Starts(d) /\ NameAt(d, j) = "enableIf"
      /\ i \in Starts(d) /\ NameAt(d, i) = "enableIf" /\ Parents[d][i] = Parents[d][j]
  BY DEF ConditionsIn
<1>4. i = j
  BY <1>3, FieldsHold
<1> QED BY <1>1, <1>2, <1>4

\* The value of a signal is reported, and its knob enabled or disabled.
LEMMA EnabledNow ==
  ASSUME NEW d \in ProperDescriptions, NEW cs, IsSeq(cs), \A c \in DOMAIN cs : IsCell(cs[c]),
         EnablersOK(d, enablers, cs), NEW rep, EnabledOK(enablers, cs, rep), NEW id, NEW v
  PROVE  /\ SameMakes(cs, Enable(cs, id, v)) /\ IsSeq(Enable(cs, id, v))
         /\ \A c \in DOMAIN cs : IsCell(Enable(cs, id, v)[c])
         /\ EnabledOK(enablers, Enable(cs, id, v), Put(rep, id, v))
<1> DEFINE ds == Enable(cs, id, v)
           now == Put(rep, id, v)
<1>1. /\ DOMAIN now = DOMAIN rep \cup {id} /\ now[id] = v
      /\ \A s \in DOMAIN rep : s # id => now[s] = rep[s]
  BY DEF Put
<1> HIDE DEF now
<1>2. CASE id \notin DOMAIN enablers
  <2>1. ds = cs
    BY <1>2 DEF Enable
  <2>2. SameMakes(cs, ds)
    BY <2>1 DEF SameMakes
  <2>3. EnabledOK(enablers, ds, now)
    BY <1>1, <1>2, <2>1 DEF EnabledOK
  <2> QED BY <2>1, <2>2, <2>3 DEF now
<1>3. CASE id \in DOMAIN enablers
  <2> DEFINE i == enablers[id].ui
             on == IsValue(v, enablers[id].value)
             r == [cs[i] EXCEPT !.enabled = on]
  <2>1. i \in DOMAIN cs
    BY <1>3 DEF EnablersOK
  <2>2. ds = [cs EXCEPT ![i] = r]
    BY <1>3 DEF Enable, IsValue
  <2>3. /\ IsCell(r) /\ r.at = cs[i].at /\ r.layout = cs[i].layout /\ r.signal = cs[i].signal
        /\ r.enabled = IsValue(v, enablers[id].value)
    <3>1. IsCell(cs[i])
      BY <2>1
    <3>2. /\ IsCell(r) /\ r.at = cs[i].at /\ r.layout = cs[i].layout
          /\ r.signal = cs[i].signal
      BY <3>1 DEF IsCell
    <3>3. r.enabled = on
      BY <3>1 DEF IsCell
    <3> QED BY <3>2, <3>3
  <2> HIDE DEF r, ds
  <2>4. /\ IsSeq(ds) /\ DOMAIN ds = DOMAIN cs
        /\ \A c \in DOMAIN cs : ds[c] = IF c = i THEN r ELSE cs[c]
    BY <2>2, CellBecomes
  <2>5. SameMakes(cs, ds)
    BY <2>3, <2>4 DEF SameMakes
  <2>6. ASSUME NEW s \in DOMAIN enablers \cap DOMAIN now
        PROVE  ds[enablers[s].ui].enabled = IsValue(now[s], enablers[s].value)
    <3>1. enablers[s].ui \in DOMAIN cs
      BY DEF EnablersOK
    <3>2. CASE s = id
      BY <1>1, <2>1, <2>3, <2>4, <3>2
    <3>3. CASE s # id
      <4>1. enablers[s].ui # i
        BY <1>3, <3>3, EnablersDiffer
      <4>2. s \in DOMAIN rep /\ now[s] = rep[s]
        BY <1>1, <3>3
      <4>3. ds[enablers[s].ui] = cs[enablers[s].ui]
        BY <2>4, <3>1, <4>1
      <4>4. cs[enablers[s].ui].enabled = IsValue(rep[s], enablers[s].value)
        BY <4>2 DEF EnabledOK
      <4> QED BY <4>2, <4>3, <4>4
    <3> QED BY <3>2, <3>3
  <2>7. EnabledOK(enablers, ds, now)
    BY <2>6 DEF EnabledOK
  <2>8. \A c \in DOMAIN cs : IsCell(ds[c])
    BY <2>5 DEF SameMakes
  <2> QED BY <2>4, <2>5, <2>7, <2>8 DEF ds, now
<1> QED BY <1>2, <1>3

\* A proper description has been read.
DoneInv ==
  /\ Proper /\ ~reading /\ MadeOK(Size(doc) + 1) /\ EnabledOK(enablers, cells, reported)

\* What the cells show has changed.
LEMMA DoneShows ==
  ASSUME DoneInv, UNCHANGED <<doc, frames, layouts, pages, windows, ui2signal, enablers>>,
         SameMakes(cells, cells'), MapsOK(ui2signal, signal2ui', cells),
         EnabledOK(enablers, cells', reported')
  PROVE  DoneInv'
<1> DEFINE p == Size(doc) + 1
           ds == cells'
<1>1. /\ doc \in ProperDescriptions /\ frames = <<>>
      /\ CellsOK(doc, cells, layouts, p)
      /\ PagesOK(doc, pages, layouts, FALSE, p) /\ PagesOK(doc, windows, layouts, TRUE, p)
      /\ EnablersOK(doc, enablers, cells)
  BY DEF DoneInv, Proper, reading, MadeOK
<1> HIDE DEF p, ds
<1>2. SameMakes(cells, ds)
  BY DEF ds
<1>3. CellsOK(doc, ds, layouts, p)
  BY <1>1, <1>2, CellsShow
<1>4. MapsOK(ui2signal, signal2ui', ds) /\ EnablersOK(doc, enablers, ds)
  BY <1>1, <1>2, MapsShow
<1>5. MadeOK(Size(doc) + 1)'
  BY <1>1, <1>3, <1>4 DEF MadeOK, ds, p
<1> QED BY <1>1, <1>5 DEF DoneInv, Proper, reading

\* What is known of the cells then.
LEMMA DoneCells ==
  ASSUME DoneInv
  PROVE  /\ IsSeq(cells) /\ \A c \in DOMAIN cells : IsCell(cells[c])
         /\ doc \in ProperDescriptions /\ MapsOK(ui2signal, signal2ui, cells)
         /\ EnablersOK(doc, enablers, cells) /\ EnabledOK(enablers, cells, reported)
BY DEF DoneInv, Proper, MadeOK, CellsOK

\* signalValueChanged()
LEMMA ValueShown ==
  ASSUME DoneInv, NEW id, NEW v, SignalValueChanged(id, v)
  PROVE  DoneInv'
<1>1. CASE UNCHANGED <<readVars, reported>>
  BY <1>1 DEF readVars, mapVars, DoneInv, Proper, reading, MadeOK
<1>2. CASE ~(\E c \in Touches(id) : Deleted(c))
  <2> DEFINE cs == Enable(cells, id, v)
             b == Bound(id)
             now == Put(reported, id, v)
             ds == cells'
  <2>1. /\ reported' = now /\ signal2ui' = Put(signal2ui, id, b)
        /\ UNCHANGED <<doc, frames, layouts, pages, windows, ui2signal, enablers>>
        /\ ds = cs \/ \E type \in Shows(cs[b].class) : ds = [cs EXCEPT ![b] = Show(cs[b], v)]
    BY <1>2 DEF SignalValueChanged
  <2>2. /\ SameMakes(cells, cs) /\ IsSeq(cs) /\ \A c \in DOMAIN cells : IsCell(cs[c])
        /\ EnabledOK(enablers, cs, now)
    BY DoneCells, EnabledNow
  <2>3. MapsOK(ui2signal, signal2ui', cells)
    <3>1. id \in DOMAIN signal2ui => b = signal2ui[id]
      BY DEF Bound
    <3> HIDE DEF b
    <3> QED BY <2>1, <3>1, DoneCells, MapsAsked
  <2>4. DOMAIN cs = DOMAIN cells /\ \A c \in DOMAIN cs : IsCell(cs[c])
    BY <2>2 DEF SameMakes
  <2> HIDE DEF cs, b, now, ds
  <2>5. AllSame(cs, ds)
    <3>1. CASE ds = cs
      <4>1. \A c \in DOMAIN cs : SameCell(cs[c], cs[c])
        BY <2>4 DEF SameCell
      <4> QED BY <2>2, <3>1, <4>1 DEF AllSame
    <3>2. CASE \E type \in Shows(cs[b].class) : ds = [cs EXCEPT ![b] = Show(cs[b], v)]
      <4>1. b \in DOMAIN cs => SameCell(cs[b], Show(cs[b], v))
        BY <2>4, <3>2, CellKeeps
      <4>2. AllSame(cs, [cs EXCEPT ![b] = Show(cs[b], v)])
        BY <2>2, <2>4, <4>1, AllKept
      <4> QED BY <3>2, <4>2
    <3> QED BY <2>1, <3>1, <3>2
  <2>6. /\ SameMakes(cs, ds) /\ \A c \in DOMAIN cs : ds[c].enabled = cs[c].enabled
    BY <2>5, AllSameMakes
  <2>7. SameMakes(cells, ds)
    BY <2>2, <2>6 DEF SameMakes
  <2>8. EnabledOK(enablers, ds, now)
    <3>1. \A s \in DOMAIN enablers : enablers[s].ui \in DOMAIN cs
      BY <2>4, DoneCells DEF EnablersOK
    <3>2. ASSUME NEW s \in DOMAIN enablers \cap DOMAIN now
          PROVE  ds[enablers[s].ui].enabled = IsValue(now[s], enablers[s].value)
      <4>1. cs[enablers[s].ui].enabled = IsValue(now[s], enablers[s].value)
        BY <2>2 DEF EnabledOK
      <4>2. ds[enablers[s].ui].enabled = cs[enablers[s].ui].enabled
        BY <2>6, <3>1
      <4> QED BY <4>1, <4>2
    <3> QED BY <3>2 DEF EnabledOK
  <2> QED BY <2>1, <2>3, <2>7, <2>8, DoneShows DEF ds, now
<1> QED BY <1>1, <1>2 DEF SignalValueChanged

\* signalValueChanged() of a value that is no number.
LEMMA UnreadableShown ==
  ASSUME DoneInv, NEW id, SignalUnreadable(id)
  PROVE  DoneInv'
<1> DEFINE b == Bound(id)
           ds == cells'
<1>1. CASE UNCHANGED <<readVars, reported>>
  BY <1>1 DEF readVars, mapVars, DoneInv, Proper, reading, MadeOK
<1>2. CASE ~(UNCHANGED <<readVars, reported>>)
  <2>1. /\ signal2ui' = Put(signal2ui, id, b)
        /\ UNCHANGED <<doc, frames, layouts, pages, windows, ui2signal, enablers, reported>>
        /\ \/ ds = cells
           \/ \E v : Shows(cells[b].class) # {} /\ ds = [cells EXCEPT ![b] = Show(cells[b], v)]
    BY <1>2 DEF SignalUnreadable
  <2>2. MapsOK(ui2signal, signal2ui', cells)
    <3>1. id \in DOMAIN signal2ui => b = signal2ui[id]
      BY DEF Bound
    <3> HIDE DEF b
    <3> QED BY <2>1, <3>1, DoneCells, MapsAsked
  <2> HIDE DEF b, ds
  <2>3. AllSame(cells, ds)
    <3>1. CASE ds = cells
      <4>1. AllSame(cells, cells)
        BY DoneCells DEF AllSame, SameCell
      <4> QED BY <3>1, <4>1
    <3>2. ASSUME NEW v, Shows(cells[b].class) # {}, ds = [cells EXCEPT ![b] = Show(cells[b], v)]
          PROVE  AllSame(cells, ds)
      <4>1. b \in DOMAIN cells => SameCell(cells[b], Show(cells[b], v))
        BY <3>2, DoneCells, CellKeeps
      <4>2. AllSame(cells, [cells EXCEPT ![b] = Show(cells[b], v)])
        BY <4>1, DoneCells, AllKept
      <4> QED BY <3>2, <4>2
    <3> QED BY <2>1, <3>1, <3>2
  <2>4. SameMakes(cells, ds) /\ \A c \in DOMAIN cells : ds[c].enabled = cells[c].enabled
    BY <2>3, AllSameMakes
  <2>5. EnabledOK(enablers, ds, reported)
    <3>1. \A s \in DOMAIN enablers : enablers[s].ui \in DOMAIN cells
      BY DoneCells DEF EnablersOK
    <3>2. ASSUME NEW s \in DOMAIN enablers \cap DOMAIN reported
          PROVE  ds[enablers[s].ui].enabled = IsValue(reported[s], enablers[s].value)
      <4>1. cells[enablers[s].ui].enabled = IsValue(reported[s], enablers[s].value)
        BY DoneCells DEF EnabledOK
      <4>2. ds[enablers[s].ui].enabled = cells[enablers[s].ui].enabled
        BY <2>4, <3>1
      <4> QED BY <4>1, <4>2
    <3> QED BY <3>2 DEF EnabledOK
  <2> QED BY <2>1, <2>2, <2>4, <2>5, DoneShows DEF ds
<1> QED BY <1>1, <1>2

\* What the user does with a cell, or answers to its question.
LEMMA UserKeeps ==
  ASSUME DoneInv, Answer \/ \E c \in DOMAIN cells : UserWorks(c)
  PROVE  DoneInv' /\ UNCHANGED reported
<1>1. /\ UNCHANGED <<doc, frames, layouts, pages, windows, ui2signal, signal2ui, enablers,
                     reported>>
      /\ cells' = cells \/ \E i, r : /\ cells' = [cells EXCEPT ![i] = r]
                                     /\ i \in DOMAIN cells => SameCell(cells[i], r)
  <2>1. CASE Answer
    <3> DEFINE i == asking.cell
               r == [cells[i] EXCEPT !.checked = asking.to]
    <3>1. /\ cells' = [cells EXCEPT ![i] = r] \/ cells' = cells
          /\ OnlyCells
      BY <2>1 DEF Answer
    <3>2. i \in DOMAIN cells => SameCell(cells[i], r)
      BY DoneCells, CellKeeps
    <3> HIDE DEF i, r
    <3> QED BY <3>1, <3>2 DEF OnlyCells, mapVars
  <2>2. ASSUME NEW c \in DOMAIN cells, Toggle(c)
        PROVE  OnlyCells /\ \E r : cells' = [cells EXCEPT ![c] = r] /\ SameCell(cells[c], r)
    <3> DEFINE r == [cells[c] EXCEPT !.checked = ~cells[c].checked]
    <3>1. cells' = [cells EXCEPT ![c] = r] /\ OnlyCells
      BY <2>2 DEF Toggle
    <3>2. SameCell(cells[c], r)
      BY DoneCells, CellKeeps
    <3> HIDE DEF r
    <3> QED BY <3>1, <3>2
  <2>3. ASSUME NEW c, Ask(c) PROVE OnlyCells /\ UNCHANGED cells
    BY <2>3 DEF Ask
  <2>4. ASSUME NEW c \in DOMAIN cells, AcceptValue(c)
        PROVE  OnlyCells /\ \E r : cells' = [cells EXCEPT ![c] = r] /\ SameCell(cells[c], r)
    <3> DEFINE r == [cells[c] EXCEPT !.accepted = cells[c].value]
    <3>1. cells' = [cells EXCEPT ![c] = r] /\ OnlyCells
      BY <2>4 DEF AcceptValue
    <3>2. SameCell(cells[c], r)
      BY DoneCells, CellKeeps
    <3> HIDE DEF r
    <3> QED BY <3>1, <3>2
  <2>5. ASSUME NEW c \in DOMAIN cells, RevertValue(c) \/ \E v \in Values : EnterValue(c, v)
        PROVE  OnlyCells /\ \E r : cells' = [cells EXCEPT ![c] = r] /\ SameCell(cells[c], r)
    <3>1. OnlyCells /\ \E v : cells' = [cells EXCEPT ![c] = SetValue(cells[c], v)]
      BY <2>5 DEF RevertValue, EnterValue
    <3>2. \A v : SameCell(cells[c], SetValue(cells[c], v))
      BY DoneCells, CellKeeps
    <3> QED BY <3>1, <3>2
  <2>6. CASE \E c \in DOMAIN cells : UserWorks(c)
    <3>1. PICK c \in DOMAIN cells : UserWorks(c)
      BY <2>6
    <3>2. /\ OnlyCells
          /\ cells' = cells \/ \E r : cells' = [cells EXCEPT ![c] = r] /\ SameCell(cells[c], r)
      BY <3>1, <2>2, <2>3, <2>4, <2>5 DEF UserWorks
    <3> QED BY <3>2 DEF OnlyCells, mapVars
  <2> QED BY <2>1, <2>6
<1>2. AllSame(cells, cells')
  <2>1. CASE cells' = cells
    <3>1. AllSame(cells, cells)
      BY DoneCells DEF AllSame, SameCell
    <3> QED BY <2>1, <3>1
  <2>2. CASE cells' # cells
    <3>1. PICK i, r : /\ cells' = [cells EXCEPT ![i] = r]
                      /\ i \in DOMAIN cells => SameCell(cells[i], r)
      BY <1>1, <2>2
    <3>2. AllSame(cells, [cells EXCEPT ![i] = r])
      BY <3>1, DoneCells, AllKept
    <3> QED BY <3>1, <3>2
  <2> QED BY <2>1, <2>2
<1> DEFINE ds == cells'
<1>3. /\ SameMakes(cells, ds) /\ \A c \in DOMAIN cells : ds[c].enabled = cells[c].enabled
  BY <1>2, AllSameMakes
<1>4. EnabledOK(enablers, ds, reported)
  <2> HIDE DEF ds
  <2>1. \A s \in DOMAIN enablers : enablers[s].ui \in DOMAIN cells
    BY DoneCells DEF EnablersOK
  <2>2. ASSUME NEW s \in DOMAIN enablers \cap DOMAIN reported
        PROVE  ds[enablers[s].ui].enabled = IsValue(reported[s], enablers[s].value)
    <3>1. cells[enablers[s].ui].enabled = IsValue(reported[s], enablers[s].value)
      BY DoneCells DEF EnabledOK
    <3>2. ds[enablers[s].ui].enabled = cells[enablers[s].ui].enabled
      BY <1>3, <2>1
    <3> QED BY <3>1, <3>2
  <2> QED BY <2>2 DEF EnabledOK
<1>5. MapsOK(ui2signal, signal2ui', cells)
  BY <1>1, DoneCells
<1> QED BY <1>1, <1>3, <1>4, <1>5, DoneShows

-----------------------------------------------------------------------------
(* Every step of the application.                                          *)

\* The description that stands for no panel is none.
LEMMA NoTextIs ==
  NoText \notin ProperDescriptions
<1>1. Tokens[NoText] = <<>>
  BY TokensAssumption DEF TokensAssumption, NoText
<1> QED BY <1>1 DEF ProperDescriptions

\* What the panel's constructor starts from.
LEMMA Begins ==
  ASSUME NEW d \in ProperDescriptions
  PROVE  /\ StackOK(d, <<Frame("restore", 0, 0, NoDraft)>>, 1, <<>>)
         /\ 1 \in 1 .. Size(d) + 1 /\ Tokens[d] # <<>>
         /\ CellsOK(d, <<>>, <<>>, 1)
         /\ \A separate \in BOOLEAN : PagesOK(d, <<>>, <<>>, separate, 1)
         /\ MapsOK(<<>>, <<>>, <<>>) /\ EnablersOK(d, <<>>, <<>>)
<1> DEFINE f == Frame("restore", 0, 0, NoDraft)
<1>1. f.fn = "restore"
  BY DEF Frame
<1> HIDE DEF f
<1>2. /\ IsSeq(<<f>>) /\ Len(<<f>>) = 1 /\ <<f>>[1] = f
  <2>1. <<f>> \in Seq({f})
    OBVIOUS
  <2> QED BY <2>1 DEF IsSeq
<1>3. StackOK(d, <<f>>, 1, <<>>)
  <2> DEFINE fs == <<f>>
  <2>1. IsSeq(fs) /\ Len(fs) = 1 /\ fs[1].fn = "restore"
    BY <1>1, <1>2
  <2> HIDE DEF fs
  <2>2. Depth(d, 1 - 1) = 0
    BY DEF Depth
  <2>3. StackOK(d, fs, 1, <<>>)
    BY <2>1, <2>2 DEF StackOK
  <2> QED BY <2>3 DEF fs
<1>4. Ended(d, 1) = {}
  <2>1. ASSUME NEW i \in Starts(d) PROVE ~(EndOf(d, i) < 1)
    BY Ending, StartIs, ProperIs
  <2> QED BY <2>1 DEF Ended
<1>5. 1 \in 1 .. Size(d) + 1 /\ Tokens[d] # <<>>
  BY ProperIs DEF ProperDescriptions
<1>6. IsSeq(<<>>) /\ DOMAIN <<>> = {}
  <2>1. <<>> \in Seq({})
    OBVIOUS
  <2> QED BY <2>1 DEF IsSeq
<1> DEFINE e == <<>>
<1>7. IsSeq(e) /\ DOMAIN e = {}
  BY <1>6
<1> HIDE DEF e
<1>8. CellsOK(d, e, e, 1)
  BY <1>4, <1>7 DEF CellsOK
<1>9. ASSUME NEW separate \in BOOLEAN PROVE PagesOK(d, e, e, separate, 1)
  BY <1>4, <1>7 DEF PagesOK
<1>10. MapsOK(e, e, e) /\ EnablersOK(d, e, e)
  BY <1>7 DEF MapsOK, EnablersOK
<1> QED BY <1>3, <1>5, <1>8, <1>9, <1>10 DEF e, f

\* Every step keeps the invariant.
LEMMA RestoreKept ==
  ASSUME RestoreInv, [Next]_vars
  PROVE  RestoreInv'
<1>1. ASSUME UNCHANGED <<readVars, reported, tabs>> PROVE RestoreInv'
  BY <1>1 DEF RestoreInv, readVars, mapVars, Nothing, Proper, reading, ReadingOK, Top, MadeOK
<1>2. CASE PanelNext
  <2>1. tabs \in Nat /\ tabs # 0 /\ tabs' = tabs /\ DOMAIN reported \subseteq Reports \ NullSignals
    BY <1>2 DEF PanelNext, mainVars, RestoreInv
  <2>2. DOMAIN reported' \subseteq Reports \ NullSignals
    <3>1. ASSUME NEW id \in Reports, NEW v, SignalValueChanged(id, v)
          PROVE  DOMAIN reported' \subseteq Reports \ NullSignals
      <4>1. id \notin NullSignals /\ (reported' = reported \/ reported' = Put(reported, id, v))
        BY <3>1 DEF SignalValueChanged
      <4>2. DOMAIN Put(reported, id, v) = DOMAIN reported \cup {id}
        BY DEF Put
      <4> QED BY <2>1, <4>1, <4>2
    <3>2. ASSUME UNCHANGED reported PROVE DOMAIN reported' \subseteq Reports \ NullSignals
      BY <2>1, <3>2
    <3> QED BY <1>2, <3>1, <3>2 DEF PanelNext, PanelStep, SignalUnreadable, CloseControlWindow, Answer,
            OnlyCells, UserWorks, Toggle, Ask, AcceptValue, RevertValue, EnterValue
  <2>3. CASE Proper' /\ reading
    <3>1. Reads /\ UNCHANGED reported
      BY <1>2, <2>3 DEF PanelNext, PanelStep, SignalValueChanged, SignalUnreadable,
         CloseControlWindow, UserIsFree,
         Answer, UserWorks, Toggle, Ask, AcceptValue, RevertValue, EnterValue, Usable
    <3>2. doc' = doc
      BY <3>1 DEF Reads, ReadText, ReadCurcuitButton, ReadImage, ReadKnob, ReadLcd, ReadLed,
         ReadPushButton, ReadTextLabel, ReadValueEdit, ReadsCell, ReadField, EndCell, ReadLayout,
         Skip, EndLayout, ReadGroup, OpensLayout, EndGroup, ReadDriver, EndDriver, ReadRoot,
         EndRestore
    <3>3. ReadInv
      BY <2>1, <2>3, <3>2 DEF RestoreInv, ReadInv, Proper
    <3>4. CASE ReadInv'
      BY <2>1, <2>2, <3>4 DEF RestoreInv, ReadInv
    <3>5. CASE ~(reading') /\ reported' = <<>> /\ MadeOK(Size(doc) + 1)'
      <4>1. EnabledOK(enablers, cells, reported)'
        BY <3>5 DEF EnabledOK
      <4> QED BY <2>1, <2>2, <3>5, <4>1 DEF RestoreInv
    <3> QED BY <3>1, <3>3, <3>4, <3>5, ReaderGoesOn
  <2>4. CASE Proper' /\ ~reading
    <3>1. ~Reads
      BY <2>4 DEF Reads, ReadText, ReadCurcuitButton, ReadImage, ReadKnob, ReadLcd, ReadLed,
         ReadPushButton, ReadTextLabel, ReadValueEdit, ReadsCell, ReadField, EndCell, ReadLayout,
         EndLayout, ReadGroup, EndGroup, ReadDriver, EndDriver, ReadRoot, EndRestore, In
    <3>2. \/ \E id \in Reports, v \in Values : SignalValueChanged(id, v)
          \/ \E id \in Reports : SignalUnreadable(id)
          \/ \E p \in DOMAIN layouts : CloseControlWindow(p)
          \/ Answer \/ \E c \in DOMAIN cells : UserWorks(c)
      BY <1>2, <3>1 DEF PanelNext, PanelStep
    <3>3. CASE \E p \in DOMAIN layouts : CloseControlWindow(p)
      BY <1>1, <2>1, <3>3 DEF CloseControlWindow
    <3>4. doc' = doc
      BY <3>2 DEF SignalValueChanged, SignalUnreadable, CloseControlWindow, Answer, UserWorks,
         Toggle, Ask, AcceptValue, RevertValue, EnterValue, OnlyCells, readVars
    <3>5. DoneInv
      BY <2>1, <2>4, <3>4 DEF RestoreInv, DoneInv, Proper
    <3>6. CASE ~(\E p \in DOMAIN layouts : CloseControlWindow(p))
      <4>1. DoneInv'
        BY <3>2, <3>5, <3>6, ValueShown, UnreadableShown, UserKeeps
      <4> QED BY <2>1, <2>2, <4>1 DEF RestoreInv, DoneInv
    <3> QED BY <3>3, <3>6
  <2>5. CASE ~(Proper')
    BY <2>1, <2>2, <2>5 DEF RestoreInv
  <2> QED BY <2>3, <2>4, <2>5
<1>3. CASE ConnectToServer
  <2>1. tabs = 0 /\ Nothing /\ UNCHANGED reported
    BY <1>3 DEF ConnectToServer, RestoreInv
  <2>2. CASE UNCHANGED <<readVars, tabs>>
    BY <1>1, <2>1, <2>2
  <2>3. ASSUME NEW i, OnConnectedToEquipment(i) PROVE RestoreInv'
    <3>1. /\ tabs' = 1 /\ pos' = 1 /\ failed' = (Tokens[doc'] = <<>>)
          /\ frames' = <<Frame("restore", 0, 0, NoDraft)>>
          /\ signal2ui' = <<>> /\ ui2signal' = <<>> /\ layouts' = <<>> /\ pages' = <<>>
          /\ windows' = <<>> /\ enablers' = <<>> /\ cells' = <<>> /\ reported' = <<>>
      BY <2>1, <2>3 DEF OnConnectedToEquipment, RestoreUi, Nothing
    <3>2. reading'
      BY <3>1 DEF reading
    <3>3. Last(frames').fn \notin CellClasses
      BY <3>1 DEF Last, Frame, CellClasses
    <3>4. ASSUME doc' \in ProperDescriptions PROVE ReadingOK' /\ MadeOK(pos)'
      <4>1. /\ StackOK(doc', frames', 1, <<>>)
            /\ 1 \in 1 .. Size(doc') + 1 /\ Tokens[doc'] # <<>>
            /\ CellsOK(doc', <<>>, <<>>, 1)
            /\ \A separate \in BOOLEAN : PagesOK(doc', <<>>, <<>>, separate, 1)
            /\ MapsOK(<<>>, <<>>, <<>>) /\ EnablersOK(doc', <<>>, <<>>)
        BY <3>1, <3>4, Begins
      <4>2. ReadingOK'
        BY <3>1, <3>3, <4>1 DEF ReadingOK, Top
      <4>3. MadeOK(pos)'
        BY <3>1, <4>1 DEF MadeOK
      <4> QED BY <4>2, <4>3
    <3>5. DOMAIN reported' \subseteq Reports \ NullSignals
      BY <2>1 DEF RestoreInv
    <3> QED BY <3>1, <3>2, <3>4, <3>5 DEF RestoreInv, Proper
  <2> QED BY <1>3, <2>2, <2>3 DEF ConnectToServer
<1>4. CASE StartAgain
  <2>1. Nothing' /\ tabs' = 0 /\ DOMAIN reported' = {}
    BY <1>4 DEF StartAgain, PanelAnew, Nothing
  <2> QED BY <2>1 DEF RestoreInv
<1>5. CASE \/ MessageNext \/ MessageAstray \/ SettingsNext \/ CloseMain \/ EndOfMain
           \/ UNCHANGED vars
  <2>1. UNCHANGED <<readVars, reported, tabs>>
    BY <1>5 DEF MessageNext, MessageAstray, SettingsNext, CloseMain, EndOfMain, vars, panelVars,
       mainVars
  <2> QED BY <1>1, <2>1
<1> QED BY <1>2, <1>3, <1>4, <1>5 DEF Next, MainNext

-----------------------------------------------------------------------------
(* What it says at the end.                                                *)

\* At the end every element has ended.
LEMMA AllEnded ==
  ASSUME NEW d \in ProperDescriptions
  PROVE  /\ Ended(d, Size(d) + 1) = Starts(d)
         /\ ItemsOf(d) \cap Ended(d, Size(d) + 1) = ItemsOf(d)
         /\ \A separate \in BOOLEAN :
              PagesOf(d, separate) \cap Ended(d, Size(d) + 1) = PagesOf(d, separate)
<1>1. ASSUME NEW i \in Starts(d) PROVE EndOf(d, i) < Size(d) + 1
  BY Ending, StartIs, ProperIs
<1>2. Ended(d, Size(d) + 1) = Starts(d)
  BY <1>1 DEF Ended
<1>3. /\ ItemsOf(d) \subseteq Starts(d)
      /\ \A separate \in BOOLEAN : PagesOf(d, separate) \subseteq Starts(d)
  BY DEF ItemsOf, PagesOf
<1> QED BY <1>2, <1>3

\* An element that stands for a cell, as the description has it.
Item(d, i) == [at |-> i, on |-> Parents[d][i], signal |-> SignalOf(d, i)]

\* The items of a description are those of the elements that stand for cells.
LEMMA ItemsAre ==
  ASSUME NEW d \in ProperDescriptions
  PROVE  Items[d] = {Item(d, i) : i \in ItemsOf(d)}
<1>1. d \in Descriptions
  BY ProperIs
<1> QED BY <1>1 DEF Items, Item, ItemsOf, NameAt, Sheets

\* There are as many items as cells that are one for each.
LEMMA AsMany ==
  ASSUME NEW d \in ProperDescriptions, NEW cs, NEW ls, CellsOK(d, cs, ls, Size(d) + 1)
  PROVE  /\ Len(cs) = Cardinality(Items[d])
         /\ Items[d] = {[at |-> cs[c].at, on |-> ls[cs[c].layout].at, signal |-> cs[c].signal] :
                          c \in DOMAIN cs}
<1> DEFINE n == Len(cs)
           m == [c \in 1 .. n |-> Item(d, cs[c].at)]
<1>1. n \in Nat /\ DOMAIN cs = 1 .. n
  BY OneMore DEF CellsOK
<1>2. /\ \A c \in 1 .. n :
           /\ cs[c].at \in ItemsOf(d) /\ ls[cs[c].layout].at = Parents[d][cs[c].at]
           /\ cs[c].signal = SignalOf(d, cs[c].at)
      /\ \A i \in ItemsOf(d) : \E c \in 1 .. n : cs[c].at = i
      /\ \A b, c \in 1 .. n : cs[b].at = cs[c].at => b = c
  BY <1>1, AllEnded DEF CellsOK
<1> HIDE DEF n
<1>3. Items[d] = {Item(d, i) : i \in ItemsOf(d)}
  BY ItemsAre
<1>4. \A c \in 1 .. n : m[c] = Item(d, cs[c].at) /\ m[c] \in Items[d]
  BY <1>2, <1>3
<1>5. m \in [1 .. n -> Items[d]]
  BY <1>4
<1>6. \A b, c \in 1 .. n : m[b] = m[c] => b = c
  <2>1. ASSUME NEW b \in 1 .. n, NEW c \in 1 .. n, m[b] = m[c] PROVE b = c
    <3>1. Item(d, cs[b].at) = Item(d, cs[c].at)
      BY <1>4, <2>1
    <3>2. cs[b].at = cs[c].at
      BY <3>1 DEF Item
    <3> QED BY <1>2, <3>2
  <2> QED BY <2>1
<1>7. \A r \in Items[d] : \E c \in 1 .. n : m[c] = r
  BY <1>2, <1>3
<1>8. m \in Bijection(1 .. n, Items[d])
  <2> HIDE DEF m
  <2> QED BY <1>5, <1>6, <1>7 DEF Bijection, Injection, IsInjective, Surjection
<1>9. IsFiniteSet(1 .. n) /\ Cardinality(1 .. n) = n
  BY <1>1, FS_Interval
<1>10. Cardinality(Items[d]) = n
  <2>1. ExistsBijection(1 .. n, Items[d])
    BY <1>8 DEF ExistsBijection
  <2> QED BY <1>9, <2>1, FS_Bijection
<1>11. \A c \in DOMAIN cs : Item(d, cs[c].at)
          = [at |-> cs[c].at, on |-> ls[cs[c].layout].at, signal |-> cs[c].signal]
  BY <1>1, <1>2 DEF Item
<1>12. Items[d] = {Item(d, cs[c].at) : c \in DOMAIN cs}
  BY <1>1, <1>2, <1>3
<1>13. Items[d] = {[at |-> cs[c].at, on |-> ls[cs[c].layout].at, signal |-> cs[c].signal] :
                     c \in DOMAIN cs}
  BY <1>11, <1>12
<1> QED BY <1>10, <1>13 DEF n

\* When nothing is read and the description is proper, all has been read.
LEMMA DoneIs ==
  ASSUME RestoreInv, ~reading, Proper
  PROVE  DoneInv /\ DOMAIN reported \subseteq Reports \ NullSignals
<1>1. tabs # 0
  BY NoTextIs DEF RestoreInv, Nothing, Proper
<1> QED BY <1>1 DEF RestoreInv, DoneInv

\* The elements of the layouts that a list names, by the places of the list.
Listed(ps, ls) == {ls[p].at : p \in ToSet(ps)}
ListedAt(ps, ls) == {ls[ps[k]].at : k \in DOMAIN ps}

\* A list has each at one of its places.
LEMMA ImageOf ==
  ASSUME NEW ps, NEW ls
  PROVE  Listed(ps, ls) = ListedAt(ps, ls)
<1>1. ASSUME NEW p \in ToSet(ps)
      PROVE  \E k \in DOMAIN ps : p = ps[k]
  BY <1>1 DEF ToSet
<1>2. ASSUME NEW k \in DOMAIN ps
      PROVE  ps[k] \in ToSet(ps)
  BY <1>2 DEF ToSet
<1> QED BY <1>1, <1>2 DEF Listed, ListedAt

\* What the invariant says once all is read is that the description is restored.
LEMMA InvRestores ==
  ASSUME RestoreInv
  PROVE  Restored
<1> SUFFICES ASSUME ~reading, Proper
             PROVE  /\ Len(cells) = Cardinality(Items[doc])
                    /\ Items[doc] = {[at |-> cells[c].at, on |-> layouts[cells[c].layout].at,
                                      signal |-> cells[c].signal] : c \in DOMAIN cells}
                    /\ {layouts[p].at : p \in ToSet(pages)} = PagesOf(doc, FALSE)
                    /\ {layouts[p].at : p \in ToSet(windows)} = PagesOf(doc, TRUE)
                    /\ \A c \in DOMAIN ui2signal :
                         (\A b \in DOMAIN ui2signal : ui2signal[b] = ui2signal[c] => b = c)
                           => signal2ui[ui2signal[c]] = c
  BY DEF Restored
<1>1. doc \in ProperDescriptions /\ MadeOK(Size(doc) + 1)
  BY DoneIs DEF DoneInv, Proper
<1>2. /\ Len(cells) = Cardinality(Items[doc])
      /\ Items[doc] = {[at |-> cells[c].at, on |-> layouts[cells[c].layout].at,
                        signal |-> cells[c].signal] : c \in DOMAIN cells}
  BY <1>1, AsMany DEF MadeOK
<1>3. /\ {layouts[pages[k]].at : k \in DOMAIN pages} = PagesOf(doc, FALSE)
      /\ {layouts[windows[k]].at : k \in DOMAIN windows} = PagesOf(doc, TRUE)
  BY <1>1, AllEnded DEF MadeOK, PagesOK
<1>4. /\ {layouts[p].at : p \in ToSet(pages)} = PagesOf(doc, FALSE)
      /\ {layouts[p].at : p \in ToSet(windows)} = PagesOf(doc, TRUE)
  <2>1. Listed(pages, layouts) = ListedAt(pages, layouts)
    BY ImageOf
  <2>2. Listed(windows, layouts) = ListedAt(windows, layouts)
    BY ImageOf
  <2>3. {layouts[p].at : p \in ToSet(pages)} = {layouts[pages[k]].at : k \in DOMAIN pages}
    BY <2>1 DEF Listed, ListedAt
  <2>4. {layouts[p].at : p \in ToSet(windows)} = {layouts[windows[k]].at : k \in DOMAIN windows}
    BY <2>2 DEF Listed, ListedAt
  <2>5. {layouts[p].at : p \in ToSet(pages)} = PagesOf(doc, FALSE)
    BY <1>3, <2>3
  <2>6. {layouts[p].at : p \in ToSet(windows)} = PagesOf(doc, TRUE)
    BY <1>3, <2>4
  <2> QED BY <2>5, <2>6
<1>5. ASSUME NEW c \in DOMAIN ui2signal,
             \A b \in DOMAIN ui2signal : ui2signal[b] = ui2signal[c] => b = c
      PROVE  signal2ui[ui2signal[c]] = c
  BY <1>1, <1>5 DEF MadeOK, MapsOK
<1> QED BY <1>2, <1>4, <1>5

\* What the invariant says of enablers is that knobs are enabled as their conditions say.
LEMMA InvEnables ==
  ASSUME RestoreInv
  PROVE  EnabledAsReported
<1> SUFFICES ASSUME ~reading, Proper, NEW e \in Conditions[doc], NEW c \in DOMAIN cells,
                    cells[c].at = e.knob, e.signal \in DOMAIN reported,
                    \A o \in Conditions[doc] : o.signal = e.signal => o = e
             PROVE  cells[c].enabled = (reported[e.signal] = e.value)
  BY DEF EnabledAsReported
<1>1. /\ doc \in ProperDescriptions /\ doc \in Descriptions
      /\ EnablersOK(doc, enablers, cells) /\ EnabledOK(enablers, cells, reported)
      /\ \A a, b \in DOMAIN cells : cells[a].at = cells[b].at => a = b
      /\ DOMAIN reported \subseteq Reports \ NullSignals
  BY DoneIs, ProperIs DEF DoneInv, Proper, MadeOK, CellsOK
<1>2. Conditions[doc] = {[knob |-> Parents[doc][j], signal |-> Tokens[doc][j].number,
                          value |-> Tokens[doc][j].second] :
                            j \in {i \in Starts(doc) : NameAt(doc, i) = "enableIf" /\ Good(doc, i)}}
  BY <1>1 DEF Conditions, NameAt, Good
<1>3. PICK j \in Starts(doc) : /\ NameAt(doc, j) = "enableIf" /\ Good(doc, j)
                               /\ e.knob = Parents[doc][j] /\ e.signal = Tokens[doc][j].number
                               /\ e.value = Tokens[doc][j].second
  BY <1>2
<1>4. e.signal # NotANumber /\ e.signal # 0
  <2>1. e.signal \in Nat /\ e.signal # 0
    BY <1>1, ReportsAssumption DEF ReportsAssumption, NullSignals
  <2> QED BY <2>1 DEF NotANumber
<1>5. SignalIn(doc, j) = e.signal
  BY <1>3, <1>4 DEF SignalIn
<1>6. j \in ConditionsIn(doc, cells[c].at)
  BY <1>3 DEF ConditionsIn
<1>7. e.signal \in DOMAIN enablers
  BY <1>1, <1>5, <1>6 DEF EnablersOK
<1> DEFINE u == enablers[e.signal].ui
<1>8. PICK i \in ConditionsIn(doc, cells[u].at) :
        e.signal = SignalIn(doc, i) /\ enablers[e.signal].value = Tokens[doc][i].second
  BY <1>1, <1>7 DEF EnablersOK
<1>9. u \in DOMAIN cells
  BY <1>1, <1>7 DEF EnablersOK
<1> HIDE DEF u
<1>10. /\ i \in Starts(doc) /\ NameAt(doc, i) = "enableIf" /\ Good(doc, i)
       /\ Parents[doc][i] = cells[u].at
  BY <1>8 DEF ConditionsIn
<1>11. Tokens[doc][i].number = e.signal
  BY <1>4, <1>8 DEF SignalIn
<1> DEFINE o == [knob |-> Parents[doc][i], signal |-> Tokens[doc][i].number,
                 value |-> Tokens[doc][i].second]
<1>12. o \in Conditions[doc] /\ o.signal = e.signal
  BY <1>2, <1>10, <1>11
<1>13. o = e
  BY <1>12
<1>14. e.knob = cells[u].at /\ e.value = enablers[e.signal].value
  BY <1>8, <1>10, <1>13
<1>15. u = c
  BY <1>1, <1>9, <1>14
<1>16. cells[c].enabled = IsValue(reported[e.signal], e.value)
  BY <1>1, <1>7, <1>14, <1>15 DEF EnabledOK, u
<1> QED BY <1>16 DEF IsValue

\* The invariant holds as the window opens, and whatever is done then.
LEMMA RestoreInvariant ==
  Spec => []RestoreInv
<1>1. Init => RestoreInv
  <2>1. ASSUME Init PROVE tabs = 0 /\ Nothing /\ DOMAIN reported = {}
    BY <2>1 DEF Init, PanelInit, Nothing
  <2> QED BY <2>1 DEF RestoreInv
<1>2. RestoreInv /\ [Next]_vars => RestoreInv'
  BY RestoreKept
<1> QED BY <1>1, <1>2, PTL DEF Spec

\* Of every proper description, whatever it holds and however large it is, the reader
\* (EquipmentUiReader::restore) makes each cell once, where it is written and for the
\* signal that it names, and each page and window; and so they stay, whatever is reported
\* and whatever the user does.
THEOREM DescriptionsAreRestored ==
  Spec => []Restored
<1>1. RestoreInv => Restored
  BY InvRestores
<1> QED BY <1>1, RestoreInvariant, PTL

\* A knob that one signal enables is enabled exactly while the value last reported of the
\* signal is the one that its element names (readKnob_ and signalValueChanged), for every
\* proper description and every order of reports.
THEOREM KnobsAreEnabledAsReported ==
  Spec => []EnabledAsReported
<1>1. RestoreInv => EnabledAsReported
  BY InvEnables
<1> QED BY <1>1, RestoreInvariant, PTL

=============================================================================
