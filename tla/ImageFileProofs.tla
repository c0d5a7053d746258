-------------------------- MODULE ImageFileProofs ---------------------------
(***************************************************************************)
(* What podman pull is called with, for .container and .image files of any *)
(* length (ImageFile).  The lines first, then the filtered arguments.      *)
(***************************************************************************)
EXTENDS ImageFile, FiniteSetTheorems, WellFoundedInduction, TLAPS

ImageSpec == ImageInit /\ [][ImageNext]_imageVars

\* The list holds, in their order, the arguments that stand in these places.
InOrder(list, args, places) ==
  /\ Len(list) = Cardinality(places)
  /\ \A i \in places : list[Cardinality({j \in places : j <= i})] = args[i]

-----------------------------------------------------------------------------
(* The inductive invariant *)

ImageTyped ==
  /\ kind \in {"container", "image"}
  /\ lines \in Seq(FileLines)
  /\ imageVal \in {None} \cup Images \cup UnitRefs
  /\ podmanArgs \in Seq(Arguments) /\ filtered \in Seq(Arguments)

\* What is known after each line is what the lines so far say.
ReadSoFar ==
  /\ section = Own <=> InOwn(Len(lines) + 1)
  /\ imageVal = ImageWritten /\ policy = PolicyWritten
  /\ authFile = AuthWritten /\ tlsVerify = TLSWritten

\* The next argument is no value of a flag, and those before it are sorted.
FilteredSoFar ==
  /\ argAt \in 1..(Len(podmanArgs) + 1)
  /\ argAt <= Len(podmanArgs) => ~IsValue(podmanArgs, argAt)
  /\ InOrder(filtered, podmanArgs, Given(podmanArgs, argAt - 1))
  /\ result = Reading => argAt = 1 /\ filtered = <<>>
  /\ result = Filtering => kind = "container" /\ Asked(podmanArgs) # NoneAsked

\* What the file adds is decided when everything has been gone through.
DecidedByAll ==
  Decided =>
    \/ kind = "image" /\ result = Asked(podmanArgs)
    \/ kind = "container" /\ result = NoneAsked /\ Asked(podmanArgs) = NoneAsked
    \/ kind = "container" /\ argAt = Len(podmanArgs) + 1 /\ result = Asked(filtered)

ImageInv == ImageTyped /\ ReadSoFar /\ FilteredSoFar /\ DecidedByAll

-----------------------------------------------------------------------------
(* Lines *)

\* Of places in the file, one is the last.
LEMMA LastPlace ==
  ASSUME NEW n \in Nat, NEW P, P \subseteq 1..n, P # {}
  PROVE  LET m == CHOOSE i \in P : \A j \in P : j <= i
         IN m \in P /\ \A j \in P : j <= m
<1> DEFINE S == {n - i : i \in P}
<1>1. S \subseteq Nat /\ S # {}
  <2>1. \A i \in P : n - i \in Nat
    OBVIOUS
  <2> QED BY <2>1
<1>2. PICK s \in S : \A r \in S : <<r, s>> \notin OpToRel(<, Nat)
  BY <1>1, NatLessThanWellFounded, WFMin, Zenon
<1>3. ASSUME NEW r \in S PROVE s <= r
  <2>1. <<r, s>> \notin {ss \in Nat \X Nat : ss[1] < ss[2]}
    BY <1>2 DEF OpToRel
  <2> QED BY <1>1, <2>1
<1>4. PICK i \in P : s = n - i
  OBVIOUS
<1>5. \A j \in P : j <= i
  <2>1. ASSUME NEW j \in P PROVE j <= i
    <3>1. n - i <= n - j
      BY <1>3, <1>4
    <3> QED BY <3>1
  <2> QED BY <2>1
<1> QED BY <1>5

LEMMA LineFacts ==
  ASSUME NEW line \in FileLines
  PROVE  /\ line.key \in {"header", "Image", PolicyKey, "AuthFile", "TLSVerify", "PodmanArgs"}
         /\ line.key = "Image" => line.value \in Images \cup UnitRefs \cup {Blank}
         /\ line.key = "AuthFile" => line.value \in {"auth", Blank}
         /\ line.key = "TLSVerify" => line.value \in {"true", "bogus"}
         /\ line.key = "PodmanArgs" => line.value \in Seq(Arguments)
         /\ line = Line("header", Own) <=> line.key = "header" /\ line.value = Own
         /\ PolicyKey \in {"Pull", "Policy"}
<1>1. ArgLists \subseteq Seq(Arguments)
  BY DEF ArgLists, Arguments
<1>2. PolicyKey \in {"Pull", "Policy"}
  BY DEF PolicyKey
<1> QED BY <1>1, <1>2 DEF FileLines, Line

\* One line more: where it is, and which lines are in the file's own section.
LEMMA OneLineMore ==
  ASSUME ImageInv, NEW line \in FileLines, ReadLine(line), NEW k, k = Len(lines) + 1
  PROVE  /\ lines' \in Seq(FileLines)' /\ Len(lines) \in Nat /\ Len(lines') = k
         /\ DOMAIN lines = 1..Len(lines) /\ DOMAIN lines' = 1..k
         /\ \A i \in 1..Len(lines) : lines'[i] = lines[i] /\ lines[i] \in FileLines
         /\ lines'[k] = line
         /\ Own' = Own /\ PolicyKey' = PolicyKey
         /\ \A i \in 1..k : InOwn(i)' <=> InOwn(i)
         /\ InOwn(k) <=> section = Own
         /\ (InOwn(Len(lines) + 1))' <=> IF line.key = "header" THEN line.value = Own
                                         ELSE section = Own
<1>1. /\ lines \in Seq(FileLines) /\ kind' = kind /\ lines' = Append(lines, line)
  BY DEF ImageInv, ImageTyped, ReadLine
<1>2. Own' = Own /\ PolicyKey' = PolicyKey /\ FileLines' = FileLines
  BY <1>1 DEF Own, PolicyKey, FileLines
<1>3. /\ lines' \in Seq(FileLines)' /\ Len(lines) \in Nat /\ Len(lines') = k
      /\ DOMAIN lines = 1..Len(lines) /\ DOMAIN lines' = 1..k
      /\ \A i \in 1..Len(lines) : lines'[i] = lines[i] /\ lines[i] \in FileLines
      /\ lines'[k] = line
  BY <1>1, <1>2
<1>4. ASSUME NEW i \in 1..k PROVE InOwn(i)' <=> InOwn(i)
  <2>1. \A h \in 1..(i - 1) : lines'[h] = lines[h]
    BY <1>3
  <2>2. \A h \in 1..(i - 1) : \A j \in (h + 1)..(i - 1) : lines'[j] = lines[j]
    BY <1>3
  <2> QED BY <1>2, <2>1, <2>2 DEF InOwn, Line
<1>5. InOwn(k) <=> section = Own
  BY DEF ImageInv, ReadSoFar
<1>6. line = Line("header", Own) <=> line.key = "header" /\ line.value = Own
  BY LineFacts
<1>7. (InOwn(Len(lines) + 1))' <=>
        \E h \in 1..k : /\ lines'[h] = Line("header", Own)
                       /\ \A j \in (h + 1)..k : lines'[j].key # "header"
  BY <1>2, <1>3 DEF InOwn, Line
<1>8. section = Own <=> \E h \in 1..(k - 1) : /\ lines[h] = Line("header", Own)
                                             /\ \A j \in (h + 1)..(k - 1) : lines[j].key # "header"
  BY <1>5 DEF InOwn
<1>9. Line("header", Own).key = "header"
  BY DEF Line
<1>10. ASSUME line.key = "header"
       PROVE  (InOwn(Len(lines) + 1))' <=> line.value = Own
  <2>1. ASSUME NEW h \in 1..k, lines'[h] = Line("header", Own),
               \A j \in (h + 1)..k : lines'[j].key # "header"
        PROVE  line.value = Own
    <3>1. h = k
      BY <1>3, <1>10, <2>1
    <3> QED BY <1>3, <1>6, <2>1, <3>1
  <2>2. ASSUME line.value = Own
        PROVE  \E h \in 1..k : /\ lines'[h] = Line("header", Own)
                               /\ \A j \in (h + 1)..k : lines'[j].key # "header"
    <3>1. lines'[k] = Line("header", Own) /\ k \in 1..k /\ (k + 1)..k = {}
      BY <1>3, <1>6, <1>10, <2>2
    <3> QED BY <3>1
  <2> QED BY <1>7, <1>10, <2>1, <2>2
<1>11. ASSUME line.key # "header"
       PROVE  (InOwn(Len(lines) + 1))' <=> section = Own
  <2>1. ASSUME NEW h \in 1..k, lines'[h] = Line("header", Own),
               \A j \in (h + 1)..k : lines'[j].key # "header"
        PROVE  section = Own
    <3>1. h \in 1..(k - 1)
      BY <1>3, <1>9, <1>11, <2>1
    <3>2. lines[h] = Line("header", Own) /\ \A j \in (h + 1)..(k - 1) : lines[j].key # "header"
      BY <1>3, <2>1, <3>1
    <3> QED BY <1>8, <3>1, <3>2
  <2>2. ASSUME section = Own
        PROVE  \E h \in 1..k : /\ lines'[h] = Line("header", Own)
                               /\ \A j \in (h + 1)..k : lines'[j].key # "header"
    <3>1. PICK h \in 1..(k - 1) : /\ lines[h] = Line("header", Own)
                                  /\ \A j \in (h + 1)..(k - 1) : lines[j].key # "header"
      BY <1>8, <2>2
    <3>2. lines'[h] = Line("header", Own) /\ h \in 1..k
      BY <1>3, <3>1
    <3>3. \A j \in (h + 1)..k : lines'[j].key # "header"
      BY <1>3, <1>11, <3>1
    <3> QED BY <3>2, <3>3
  <2> QED BY <1>7, <1>11, <2>1, <2>2
<1> QED BY <1>2, <1>3, <1>4, <1>5, <1>10, <1>11

\* A value that counts, in the file's own section, is the last one from then on.
LEMMA LastValueCounts ==
  ASSUME ImageInv, NEW line \in FileLines, ReadLine(line), NEW k, k = Len(lines) + 1,
         NEW key, key # "header", NEW values, NEW default
  PROVE  Written(key, values, default)' =
           IF line.key = key /\ line.value \in values /\ section = Own THEN line.value
           ELSE Written(key, values, default)
<1>1. /\ Len(lines) \in Nat
      /\ DOMAIN lines = 1..Len(lines) /\ DOMAIN lines' = 1..k
      /\ \A i \in 1..Len(lines) : lines'[i] = lines[i]
      /\ lines'[k] = line
      /\ \A i \in 1..k : InOwn(i)' <=> InOwn(i)
      /\ InOwn(k) <=> section = Own
  BY OneLineMore
<1> DEFINE Counts == line.key = key /\ line.value \in values /\ section = Own
           P == At(key, values)
           Pn == At(key, values)'
<1>2. P \subseteq 1..Len(lines)
  BY <1>1 DEF At
<1>3. \A i : i \in Pn <=> i \in P \/ (i = k /\ Counts)
  BY <1>1 DEF At
<1>4. CASE Counts
  <2>1. k \in Pn /\ \A j \in Pn : j <= k
    BY <1>1, <1>2, <1>3, <1>4
  <2>2. \A i \in Pn : (\A j \in Pn : j <= i) => i = k
    BY <1>1, <1>2, <1>3, <2>1
  <2>3. (CHOOSE i \in Pn : \A j \in Pn : j <= i) = k
    BY <2>1, <2>2
  <2>4. Written(key, values, default)' = lines'[CHOOSE i \in Pn : \A j \in Pn : j <= i].value
    BY <2>1 DEF Written, LastValue
  <2> QED BY <1>1, <1>4, <2>3, <2>4
<1>5. CASE ~Counts
  <2>1. Pn = P
    BY <1>3, <1>5
  <2>2. CASE P = {}
    BY <1>5, <2>1, <2>2 DEF Written, LastValue
  <2>3. CASE P # {}
    <3> DEFINE m == CHOOSE i \in P : \A j \in P : j <= i
    <3>1. m \in P
      BY <1>1, <1>2, <2>3, LastPlace
    <3>2. lines'[m] = lines[m]
      BY <1>1, <1>2, <3>1
    <3>3. Written(key, values, default)' = lines'[m].value
      BY <2>1, <2>3 DEF Written, LastValue
    <3>4. Written(key, values, default) = lines[m].value
      BY <2>3 DEF Written, LastValue
    <3> QED BY <1>5, <3>2, <3>3, <3>4
  <2> QED BY <2>2, <2>3
<1> QED BY <1>4, <1>5

-----------------------------------------------------------------------------
(* Filtered arguments *)

LEMMA ReadingIsNotFiltering ==
  /\ Reading # Filtering /\ Reading # NoneAsked /\ Filtering # NoneAsked
  /\ Reading.is = "reading" /\ Filtering.is = "filtering" /\ NoneAsked.is = "no_image"
  /\ \A list : Asked(list) \notin {Reading, Filtering}
BY DEF Reading, Filtering, NoneAsked, Asked

\* A run of bare flags grows by one, or ends.
LEMMA RunOfBareFlags ==
  ASSUME NEW args, NEW i \in Nat \ {0}
  PROVE  /\ BareBefore(args, i) \in Nat
         /\ BareBefore(args, i + 1) = IF args[i] \in Bare THEN BareBefore(args, i) + 1 ELSE 0
<1> DEFINE run(n) == {k \in 1..(n - 1) : \A j \in k..(n - 1) : args[j] \in Bare}
<1>1. IsFiniteSet(run(i)) /\ i \notin run(i)
  <2>1. IsFiniteSet(1..(i - 1)) /\ run(i) \in SUBSET (1..(i - 1))
    BY FS_Interval
  <2> QED BY <2>1, FS_Subset
<1>2. ASSUME args[i] \in Bare PROVE run(i + 1) = run(i) \cup {i}
  <2>1. \A k \in run(i + 1) : k \in run(i) \/ k = i
    OBVIOUS
  <2>2. \A k \in run(i) : k \in run(i + 1)
    BY <1>2
  <2>3. i \in run(i + 1)
    BY <1>2
  <2> QED BY <2>1, <2>2, <2>3
<1>3. ASSUME args[i] \notin Bare PROVE run(i + 1) = {}
  <2>1. \A k \in run(i + 1) : i \in k..((i + 1) - 1)
    OBVIOUS
  <2> QED BY <1>3, <2>1
<1>4. Cardinality(run(i)) \in Nat /\ Cardinality(run(i) \cup {i}) = Cardinality(run(i)) + 1
  BY <1>1, FS_CardinalityType, FS_AddElement
<1>5. Cardinality({}) = 0
  BY FS_EmptySet
<1>6. \A n : BareBefore(args, n) = Cardinality(run(n))
  BY DEF BareBefore
<1> HIDE DEF run
<1> QED BY <1>2, <1>3, <1>4, <1>5, <1>6

\* Before the first argument there is none, and no flag.
LEMMA NothingBefore ==
  ASSUME NEW args
  PROVE  ~IsValue(args, 1) /\ Given(args, 0) = {} /\ InOrder(<<>>, args, Given(args, 0))
<1>1. BareBefore(args, 1) = Cardinality({}) /\ Given(args, 0) = {}
  BY DEF BareBefore, Given
<1>2. Cardinality({}) = 0
  BY FS_EmptySet
<1>3. ~IsValue(args, 1)
  <2>1. 0 % 2 = 0
    OBVIOUS
  <2> QED BY <1>1, <1>2, <2>1 DEF IsValue
<1>4. InOrder(<<>>, args, {})
  BY <1>2 DEF InOrder
<1> QED BY <1>1, <1>3, <1>4

\* One more argument that is let through comes last.
LEMMA OneMoreLetThrough ==
  ASSUME NEW n \in Nat, NEW places, places \subseteq 1..n, NEW args,
         NEW list \in Seq(Arguments), InOrder(list, args, places), args[n + 1] \in Arguments
  PROVE  /\ Append(list, args[n + 1]) \in Seq(Arguments)
         /\ InOrder(Append(list, args[n + 1]), args, places \cup {n + 1})
<1> DEFINE more == places \cup {n + 1}
           rank(i) == {j \in places : j <= i}
           rankNow(i) == {j \in more : j <= i}
           longer == Append(list, args[n + 1])
<1>1. IsFiniteSet(places) /\ Cardinality(places) \in Nat
  <2>1. IsFiniteSet(1..n) /\ places \in SUBSET (1..n)
    BY FS_Interval
  <2> QED BY <2>1, FS_Subset, FS_CardinalityType
<1>2. Cardinality(more) = Cardinality(places) + 1
  <2>1. n + 1 \notin places
    OBVIOUS
  <2> QED BY <1>1, <2>1, FS_AddElement
<1>3. ASSUME NEW i \in places
      PROVE  rankNow(i) = rank(i) /\ Cardinality(rank(i)) \in 1..Len(list)
  <2>1. rankNow(i) = rank(i)
    OBVIOUS
  <2>2. rank(i) \in SUBSET places /\ i \in rank(i)
    OBVIOUS
  <2>3. IsFiniteSet(rank(i)) /\ Cardinality(rank(i)) <= Cardinality(places)
    BY <1>1, <2>2, FS_Subset
  <2>4. Cardinality(rank(i)) \in Nat /\ Cardinality(rank(i)) # 0
    BY <2>2, <2>3, FS_CardinalityType, FS_EmptySet
  <2>5. Len(list) = Cardinality(places)
    BY DEF InOrder
  <2> QED BY <1>1, <2>1, <2>3, <2>4, <2>5
<1>4. rankNow(n + 1) = more
  <2>1. \A j \in more : j <= n + 1
    OBVIOUS
  <2> QED BY <2>1
<1>5. /\ longer \in Seq(Arguments) /\ Len(longer) = Len(list) + 1
      /\ \A m \in 1..Len(list) : longer[m] = list[m]
      /\ longer[Len(list) + 1] = args[n + 1]
  <2>1. ASSUME NEW a \in Arguments
        PROVE  /\ Append(list, a) \in Seq(Arguments) /\ Len(Append(list, a)) = Len(list) + 1
               /\ \A m \in 1..Len(list) : Append(list, a)[m] = list[m]
               /\ Append(list, a)[Len(list) + 1] = a
    OBVIOUS
  <2> QED BY <2>1
<1>6. /\ Len(list) = Cardinality(places)
      /\ \A i \in places : list[Cardinality(rank(i))] = args[i]
  BY DEF InOrder
<1>7. ASSUME NEW i \in more PROVE longer[Cardinality(rankNow(i))] = args[i]
  <2>1. CASE i \in places
    BY <1>3, <1>5, <1>6, <2>1
  <2>2. CASE i = n + 1
    BY <1>2, <1>4, <1>5, <1>6, <2>2
  <2> QED BY <2>1, <2>2
<1> HIDE DEF more, longer, rank
<1>8. Len(longer) = Cardinality(more)
  BY <1>2, <1>5, <1>6
<1> QED BY <1>5, <1>7, <1>8 DEF InOrder, more, longer

\* Which arguments are to be let through, one more considered.
LEMMA GivenGrows ==
  ASSUME NEW args, NEW n \in Nat
  PROVE  /\ Given(args, n) \subseteq 1..n
         /\ Given(args, n + 1) = IF IsValue(args, n + 1) \/ args[n + 1] \in Passed
                                 THEN Given(args, n) \cup {n + 1} ELSE Given(args, n)
<1>1. Given(args, n) \subseteq 1..n
  BY DEF Given
<1>2. \A i : i \in Given(args, n + 1) <=>
              \/ i \in Given(args, n)
              \/ i = n + 1 /\ (IsValue(args, n + 1) \/ args[n + 1] \in Passed)
  BY DEF Given
<1> QED BY <1>1, <1>2

\* What follows a bare flag that is no value is its value; what follows a value,
\* or anything but a bare flag, is none.
LEMMA ValuesAlternate ==
  ASSUME NEW args, NEW i \in Nat \ {0}
  PROVE  /\ args[i] \notin Bare => ~IsValue(args, i + 1)
         /\ args[i] \in Bare => (IsValue(args, i + 1) <=> ~IsValue(args, i))
<1> DEFINE b == BareBefore(args, i)
<1>1. b \in Nat /\ BareBefore(args, i + 1) = IF args[i] \in Bare THEN b + 1 ELSE 0
  BY RunOfBareFlags
<1>2. \A n \in Nat : (n + 1) % 2 = 1 <=> ~(n % 2 = 1)
  OBVIOUS
<1>3. ~(0 % 2 = 1)
  OBVIOUS
<1> HIDE DEF b
<1>4. CASE args[i] \notin Bare
  BY <1>1, <1>3, <1>4 DEF IsValue
<1>5. CASE args[i] \in Bare
  <2>1. IsValue(args, i) <=> b % 2 = 1
    BY DEF IsValue, b
  <2>2. IsValue(args, i + 1) <=> (b + 1) % 2 = 1
    BY <1>1, <1>5 DEF IsValue
  <2> QED BY <1>1, <1>2, <1>5, <2>1, <2>2
<1> QED BY <1>4, <1>5

ALine(line) ==
  \/ OpenSection(line) \/ PassLine(line) \/ NameImage(line) \/ SetPolicy(line)
  \/ AddArgs(line) \/ SetAuthFile(line) \/ SetTLSVerify(line)

\* What each line does to what is known of the file, whichever line it is.
LEMMA WhatALineDoes ==
  ASSUME ImageInv, NEW line \in FileLines, ALine(line)
  PROVE  /\ ReadLine(line)
         /\ section' = IF line.key = "header" THEN line.value ELSE section
         /\ imageVal' = IF line.key = "Image" /\ section = Own /\ line.value # Blank
                        THEN line.value ELSE imageVal
         /\ policy' = IF line.key = PolicyKey /\ section = Own /\ line.value \in PullPolicies
                      THEN line.value ELSE policy
         /\ authFile' = IF /\ line.key = "AuthFile" /\ section = Own
                           /\ kind = "image" /\ line.value # Blank
                        THEN line.value ELSE authFile
         /\ tlsVerify' = IF line.key = "TLSVerify" /\ section = Own /\ kind = "image"
                         THEN IF line.value \in {"true", "false"} THEN line.value ELSE None
                         ELSE tlsVerify
         /\ podmanArgs' \in Seq(Arguments)
<1>1. /\ kind \in {"container", "image"} /\ podmanArgs \in Seq(Arguments)
      /\ PolicyKey \in {"Pull", "Policy"}
      /\ line.key = "PodmanArgs" => line.value \in Seq(Arguments)
  BY LineFacts DEF ImageInv, ImageTyped
<1>2. CASE OpenSection(line)
  BY <1>1, <1>2 DEF OpenSection
<1>3. CASE PassLine(line)
  BY <1>1, <1>3, LineFacts DEF PassLine
<1>4. CASE NameImage(line)
  BY <1>1, <1>4 DEF NameImage, Value
<1>5. CASE SetPolicy(line)
  BY <1>1, <1>5 DEF SetPolicy, Value
<1>6. CASE AddArgs(line)
  <2>1. podmanArgs' \in Seq(Arguments)
    BY <1>1, <1>6 DEF AddArgs, Value
  <2> QED BY <1>1, <1>6, <2>1 DEF AddArgs, Value
<1>7. CASE SetAuthFile(line)
  BY <1>1, <1>7 DEF SetAuthFile, Value
<1>8. CASE SetTLSVerify(line)
  BY <1>1, <1>8 DEF SetTLSVerify, Value
<1> QED BY <1>2, <1>3, <1>4, <1>5, <1>6, <1>7, <1>8 DEF ALine

LEMMA LinePreserves ==
  ASSUME ImageInv, NEW line \in FileLines, ALine(line)
  PROVE  ImageInv'
<1> DEFINE k == Len(lines) + 1
<1>0. ReadLine(line)
  BY WhatALineDoes
<1>1. /\ result = Reading /\ kind' = kind /\ result' = result
      /\ argAt' = argAt /\ filtered' = filtered
  BY <1>0 DEF ReadLine, filterVars
<1>2. Own' = Own /\ PolicyKey' = PolicyKey
  BY <1>0, OneLineMore
<1>3. ImageTyped'
  <2>1. lines' \in Seq(FileLines)'
    BY <1>0, OneLineMore
  <2>2. imageVal' \in {None} \cup Images \cup UnitRefs
    BY WhatALineDoes, LineFacts DEF ImageInv, ImageTyped
  <2>3. podmanArgs' \in Seq(Arguments)
    BY WhatALineDoes
  <2> QED BY <1>1, <2>1, <2>2, <2>3 DEF ImageInv, ImageTyped
<1>4. (section = Own <=> InOwn(Len(lines) + 1))'
  <2>1. (InOwn(Len(lines) + 1))' <=> IF line.key = "header" THEN line.value = Own
                                     ELSE section = Own
    BY <1>0, OneLineMore
  <2>2. section' = IF line.key = "header" THEN line.value ELSE section
    BY WhatALineDoes
  <2>3. section' = Own' <=> IF line.key = "header" THEN line.value = Own ELSE section = Own
    BY <1>2, <2>2
  <2> QED BY <2>1, <2>3
<1>5. (imageVal = ImageWritten)'
  <2>1. ImageWritten' = IF /\ line.key = "Image" /\ line.value \in Images \cup UnitRefs
                           /\ section = Own
                        THEN line.value ELSE ImageWritten
    BY <1>0, LastValueCounts DEF ImageWritten
  <2>2. line.key = "Image" => (line.value # Blank <=> line.value \in Images \cup UnitRefs)
    BY LineFacts, ImageFileConstantsOK
  <2> QED BY <2>1, <2>2, WhatALineDoes DEF ImageInv, ReadSoFar
<1>6. (policy = PolicyWritten)'
  <2>1. ASSUME NEW key, key = PolicyKey, NEW default, default = DefaultPolicy
        PROVE  PolicyWritten' = IF line.key = key /\ line.value \in PullPolicies /\ section = Own
                                THEN line.value ELSE Written(key, PullPolicies, default)
    <3>1. key # "header"
      BY <2>1, LineFacts
    <3>2. DefaultPolicy' = default /\ PolicyKey' = key
      BY <1>1, <1>2, <2>1 DEF DefaultPolicy
    <3>3. PolicyWritten' = Written(key, PullPolicies, default)'
      BY <3>2 DEF PolicyWritten, Written, At, LastValue
    <3> QED BY <1>0, <3>1, <3>3, LastValueCounts
  <2>2. PolicyWritten' = IF /\ line.key = PolicyKey /\ line.value \in PullPolicies
                            /\ section = Own
                         THEN line.value ELSE PolicyWritten
    BY <2>1 DEF PolicyWritten
  <2> QED BY <2>2, WhatALineDoes DEF ImageInv, ReadSoFar
<1>7. (authFile = AuthWritten)'
  <2>1. Written("AuthFile", {"auth"}, None)' =
          IF line.key = "AuthFile" /\ line.value \in {"auth"} /\ section = Own
          THEN line.value ELSE Written("AuthFile", {"auth"}, None)
    BY <1>0, LastValueCounts
  <2>2. line.key = "AuthFile" => (line.value # Blank <=> line.value \in {"auth"})
    BY LineFacts DEF Blank
  <2>3. AuthWritten' = IF kind = "image" THEN Written("AuthFile", {"auth"}, None)' ELSE None
    BY <1>1 DEF AuthWritten, ForImage
  <2>4. authFile = IF kind = "image" THEN Written("AuthFile", {"auth"}, None) ELSE None
    BY DEF ImageInv, ReadSoFar, AuthWritten, ForImage
  <2> QED BY <2>1, <2>2, <2>3, <2>4, WhatALineDoes
<1>8. (tlsVerify = TLSWritten)'
  <2> DEFINE values == {"true", "false", "bogus"}
  <2>1. Written("TLSVerify", values, None)' =
          IF line.key = "TLSVerify" /\ line.value \in values /\ section = Own
          THEN line.value ELSE Written("TLSVerify", values, None)
    BY <1>0, LastValueCounts
  <2>2. line.key = "TLSVerify" => line.value \in {"true", "bogus"}
    BY LineFacts
  <2>3. TLSWritten' = IF kind = "image" /\ Written("TLSVerify", values, None)' = "true"
                      THEN "true" ELSE None
    BY <1>1 DEF TLSWritten, ForImage
  <2>4. tlsVerify = IF kind = "image" /\ Written("TLSVerify", values, None) = "true"
                    THEN "true" ELSE None
    BY DEF ImageInv, ReadSoFar, TLSWritten, ForImage
  <2> QED BY <2>1, <2>2, <2>3, <2>4, WhatALineDoes
<1>9. FilteredSoFar'
  <2>1. argAt = 1 /\ filtered = <<>>
    BY <1>1 DEF ImageInv, FilteredSoFar
  <2>2. podmanArgs' \in Seq(Arguments)
    BY WhatALineDoes
  <2> QED BY <1>1, <2>1, <2>2, NothingBefore, ReadingIsNotFiltering DEF FilteredSoFar
<1>10. DecidedByAll'
  BY <1>1 DEF DecidedByAll, Decided
<1> QED BY <1>3, <1>4, <1>5, <1>6, <1>7, <1>8, <1>9, <1>10 DEF ImageInv, ReadSoFar

-----------------------------------------------------------------------------
LEMMA ImageStarts == ImageInit => ImageInv
<1> SUFFICES ASSUME ImageInit PROVE ImageInv
  OBVIOUS
<1>1. /\ lines = <<>> /\ Len(lines) = 0 /\ podmanArgs = <<>> /\ Len(podmanArgs) = 0
      /\ kind \in {"container", "image"} /\ section = None /\ imageVal = None
      /\ policy = DefaultPolicy /\ authFile = None /\ tlsVerify = None
      /\ argAt = 1 /\ filtered = <<>> /\ result = Reading
  BY DEF ImageInit
<1>2. ImageTyped
  BY <1>1 DEF ImageTyped
<1>3. Own # None /\ ~InOwn(Len(lines) + 1)
  BY <1>1 DEF Own, None, InOwn
<1>4. \A key, values : At(key, values) = {}
  BY <1>1 DEF At
<1>5. \A key, values, default : Written(key, values, default) = default
  BY <1>4 DEF Written, LastValue
<1>6. ReadSoFar
  BY <1>1, <1>3, <1>5
  DEF ReadSoFar, ImageWritten, PolicyWritten, AuthWritten, TLSWritten, ForImage, None
<1>7. FilteredSoFar
  BY <1>1, NothingBefore, ReadingIsNotFiltering DEF FilteredSoFar
<1>8. DecidedByAll
  BY <1>1 DEF DecidedByAll, Decided
<1> QED BY <1>2, <1>6, <1>7, <1>8 DEF ImageInv

\* What was read stays as it is once the file has been read.
LEMMA NothingMoreRead ==
  ASSUME ImageInv, UNCHANGED <<kind, lines, section, settingVars>>
  PROVE  /\ ReadSoFar'
         /\ \A list : Asked(list)' = Asked(list)
         /\ kind' = kind /\ podmanArgs' = podmanArgs
<1>1. /\ kind' = kind /\ lines' = lines /\ section' = section /\ imageVal' = imageVal
      /\ policy' = policy /\ authFile' = authFile /\ tlsVerify' = tlsVerify
      /\ podmanArgs' = podmanArgs
  BY DEF settingVars
<1>2. Own' = Own /\ PolicyKey' = PolicyKey /\ DefaultPolicy' = DefaultPolicy
  BY <1>1 DEF Own, PolicyKey, DefaultPolicy
<1>3. \A i : InOwn(i)' = InOwn(i)
  BY <1>1, <1>2 DEF InOwn
<1>4. \A key, values, default : Written(key, values, default)' = Written(key, values, default)
  <2>1. \A key, values : At(key, values)' = At(key, values)
    BY <1>1, <1>3 DEF At
  <2>2. ASSUME NEW key, NEW values, NEW default
        PROVE  Written(key, values, default)' = Written(key, values, default)
    <3>1. At(key, values)' = At(key, values)
      BY <2>1
    <3> QED BY <1>1, <3>1 DEF Written, LastValue
  <2> QED BY <2>2
<1>5. /\ ImageWritten' = ImageWritten /\ AuthWritten' = AuthWritten /\ TLSWritten' = TLSWritten
  BY <1>1, <1>4 DEF ImageWritten, AuthWritten, TLSWritten, ForImage
<1>6. PolicyWritten' = PolicyWritten
  <2>1. At(PolicyKey, PullPolicies)' = At(PolicyKey, PullPolicies)
    BY <1>1, <1>2, <1>3 DEF At
  <2> QED BY <1>1, <1>2, <2>1 DEF PolicyWritten, Written, LastValue
<1>7. (InOwn(Len(lines) + 1))' = InOwn(Len(lines) + 1)
  BY <1>1, <1>2 DEF InOwn
<1>8. ReadSoFar'
  BY <1>1, <1>2, <1>5, <1>6, <1>7 DEF ReadSoFar, ImageInv
<1> QED BY <1>1, <1>8 DEF Asked

LEMMA EndOfFilePreserves ==
  ASSUME ImageInv, EndOfFile
  PROVE  ImageInv'
<1>1. /\ result = Reading /\ argAt' = argAt /\ filtered' = filtered /\ lines' = lines
      /\ imageVal' = imageVal
      /\ result' = IF kind = "container" /\ Asked(podmanArgs) # NoneAsked THEN Filtering
                   ELSE Asked(podmanArgs)
      /\ UNCHANGED <<kind, lines, section, settingVars>>
  BY DEF EndOfFile, filterVars, settingVars
<1>2. /\ ReadSoFar' /\ kind' = kind /\ podmanArgs' = podmanArgs
      /\ Asked(podmanArgs)' = Asked(podmanArgs)
  BY <1>1, NothingMoreRead DEF Asked, settingVars
<1>3. ImageTyped'
  BY <1>1, <1>2 DEF ImageInv, ImageTyped, FileLines, PolicyKey
<1>4. FilteredSoFar'
  BY <1>1, <1>2, ReadingIsNotFiltering DEF ImageInv, FilteredSoFar
<1>5. DecidedByAll'
  BY <1>1, <1>2, ReadingIsNotFiltering DEF ImageInv, ImageTyped, DecidedByAll, Decided
<1> QED BY <1>2, <1>3, <1>4, <1>5 DEF ImageInv

\* The next argument is no value, and what is let through is in order.
LEMMA ArgPreserves ==
  ASSUME ImageInv, NEW place \in 1..(Len(podmanArgs) + 1), NEW list \in Seq(Arguments),
         FilterArg(place, list),
         place <= Len(podmanArgs) => ~IsValue(podmanArgs, place),
         InOrder(list, podmanArgs, Given(podmanArgs, place - 1))
  PROVE  ImageInv'
<1>1. /\ result = Filtering /\ result' = result /\ argAt' = place /\ filtered' = list
      /\ lines' = lines /\ imageVal' = imageVal
      /\ UNCHANGED <<kind, lines, section, settingVars>>
  BY DEF FilterArg, settingVars
<1>2. /\ ReadSoFar' /\ kind' = kind /\ podmanArgs' = podmanArgs
      /\ Asked(podmanArgs)' = Asked(podmanArgs)
  BY <1>1, NothingMoreRead DEF Asked, settingVars
<1>3. ImageTyped'
  BY <1>1, <1>2 DEF ImageInv, ImageTyped, FileLines, PolicyKey
<1>4. FilteredSoFar'
  <2>2. (argAt <= Len(podmanArgs) => ~IsValue(podmanArgs, argAt))'
    BY <1>1, <1>2 DEF IsValue, BareBefore
  <2>3. InOrder(filtered, podmanArgs, Given(podmanArgs, argAt - 1))'
    BY <1>1, <1>2
  <2> QED BY <1>1, <1>2, <2>2, <2>3, ReadingIsNotFiltering DEF ImageInv, FilteredSoFar
<1>5. DecidedByAll'
  BY <1>1 DEF DecidedByAll, Decided
<1> QED BY <1>2, <1>3, <1>4, <1>5 DEF ImageInv

\* Each argument is let through or left out, with its value if it is a bare flag.
LEMMA ArgsPreserve ==
  ASSUME ImageInv, SkipArg \/ PassFlag \/ PassFlagAndValue
  PROVE  ImageInv'
<1> DEFINE n == argAt - 1
           given == Given(podmanArgs, n)
           next == podmanArgs[argAt]
<1>1. /\ podmanArgs \in Seq(Arguments) /\ filtered \in Seq(Arguments)
      /\ argAt \in 1..(Len(podmanArgs) + 1) /\ Len(podmanArgs) \in Nat
      /\ InOrder(filtered, podmanArgs, given)
      /\ argAt <= Len(podmanArgs) => ~IsValue(podmanArgs, argAt)
  BY DEF ImageInv, ImageTyped, FilteredSoFar
<1>2. argAt <= Len(podmanArgs)
  BY DEF SkipArg, PassFlag, PassFlagAndValue, FilterArg
<1>3. /\ n \in Nat /\ n + 1 = argAt /\ argAt \in Nat \ {0} /\ next \in Arguments
      /\ (argAt + 1) - 1 = argAt /\ (argAt + 2) - 1 = argAt + 1
  BY <1>1, <1>2
<1>4. given \subseteq 1..n
  BY <1>3, GivenGrows
<1>5. Given(podmanArgs, argAt) = IF next \in Passed THEN given \cup {argAt} ELSE given
  BY <1>1, <1>2, <1>3, GivenGrows
<1>6. /\ next \notin Bare => ~IsValue(podmanArgs, argAt + 1)
      /\ next \in Bare => IsValue(podmanArgs, argAt + 1)
  BY <1>1, <1>2, <1>3, ValuesAlternate
<1>7. /\ Append(filtered, next) \in Seq(Arguments)
      /\ InOrder(Append(filtered, next), podmanArgs, given \cup {argAt})
  BY <1>1, <1>3, <1>4, OneMoreLetThrough
<1> HIDE DEF n, given, next
<1>8. CASE SkipArg
  <2>1. next \notin Passed /\ FilterArg(argAt + 1, filtered)
    BY <1>8 DEF SkipArg, Token, next
  <2>2. next \notin Bare
    BY <2>1 DEF Passed, Bare
  <2>3. InOrder(filtered, podmanArgs, Given(podmanArgs, (argAt + 1) - 1))
    BY <1>1, <1>3, <1>5, <2>1
  <2> QED BY <1>1, <1>2, <1>6, <2>1, <2>2, <2>3, ArgPreserves
<1>9. CASE PassFlag
  <2> DEFINE longer == Append(filtered, next)
  <2>1. /\ next \in Passed /\ (next \in Bare => argAt = Len(podmanArgs))
        /\ FilterArg(argAt + 1, longer)
    BY <1>9 DEF PassFlag, Token, next
  <2>2. /\ longer \in Seq(Arguments)
        /\ InOrder(longer, podmanArgs, Given(podmanArgs, (argAt + 1) - 1))
    BY <1>3, <1>5, <1>7, <2>1
  <2>3. argAt + 1 <= Len(podmanArgs) => ~IsValue(podmanArgs, argAt + 1)
    BY <1>1, <1>6, <2>1
  <2>4. argAt + 1 \in 1..(Len(podmanArgs) + 1)
    BY <1>1, <1>2
  <2> HIDE DEF longer
  <2> QED BY <2>1, <2>2, <2>3, <2>4, ArgPreserves
<1>10. CASE PassFlagAndValue
  <2> DEFINE value == podmanArgs[argAt + 1]
             both == Append(Append(filtered, next), value)
  <2>1. next \in Bare /\ argAt < Len(podmanArgs) /\ FilterArg(argAt + 2, both)
    BY <1>10 DEF PassFlagAndValue, Token, next
  <2>2. next \in Passed /\ value \in Arguments
    BY <1>1, <2>1 DEF Passed, Bare
  <2>3. Given(podmanArgs, argAt) = given \cup {argAt} /\ given \cup {argAt} \subseteq 1..argAt
    BY <1>3, <1>4, <1>5, <2>2
  <2>4. Given(podmanArgs, argAt + 1) = (given \cup {argAt}) \cup {argAt + 1}
    BY <1>3, <1>6, <2>1, <2>3, GivenGrows
  <2>5. both \in Seq(Arguments) /\ InOrder(both, podmanArgs, Given(podmanArgs, argAt + 1))
    <3> DEFINE first == Append(filtered, next)
               places == given \cup {argAt}
    <3>1. /\ first \in Seq(Arguments) /\ InOrder(first, podmanArgs, places)
          /\ places \subseteq 1..argAt /\ podmanArgs[argAt + 1] \in Arguments
          /\ argAt \in Nat
      BY <1>3, <1>7, <2>2, <2>3
    <3> HIDE DEF first, places
    <3>2. /\ Append(first, podmanArgs[argAt + 1]) \in Seq(Arguments)
          /\ InOrder(Append(first, podmanArgs[argAt + 1]), podmanArgs, places \cup {argAt + 1})
      BY <3>1, OneMoreLetThrough
    <3> QED BY <2>4, <3>2 DEF first, places
  <2>6. ~IsValue(podmanArgs, argAt + 2)
    <3>1. /\ value \notin Bare => ~IsValue(podmanArgs, (argAt + 1) + 1)
          /\ value \in Bare => ~IsValue(podmanArgs, (argAt + 1) + 1)
      BY <1>3, <1>6, <2>1, ValuesAlternate
    <3>2. (argAt + 1) + 1 = argAt + 2
      BY <1>3
    <3> QED BY <3>1, <3>2
  <2> HIDE DEF both
  <2>7. argAt + 2 \in 1..(Len(podmanArgs) + 1)
    BY <1>1, <2>1
  <2>8. InOrder(both, podmanArgs, Given(podmanArgs, (argAt + 2) - 1))
    BY <1>3, <2>5
  <2> QED BY <2>1, <2>5, <2>6, <2>7, <2>8, ArgPreserves
<1> QED BY <1>8, <1>9, <1>10

LEMMA FilteredPreserves ==
  ASSUME ImageInv, Filtered
  PROVE  ImageInv'
<1>1. /\ result = Filtering /\ argAt > Len(podmanArgs) /\ result' = Asked(filtered)
      /\ argAt' = argAt /\ filtered' = filtered /\ lines' = lines /\ imageVal' = imageVal
      /\ UNCHANGED <<kind, lines, section, settingVars>>
  BY DEF Filtered, filterVars, settingVars
<1>2. /\ ReadSoFar' /\ kind' = kind /\ podmanArgs' = podmanArgs
      /\ Asked(podmanArgs)' = Asked(podmanArgs) /\ Asked(filtered)' = Asked(filtered)
  BY <1>1, NothingMoreRead DEF Asked, settingVars
<1>3. ImageTyped'
  BY <1>1, <1>2 DEF ImageInv, ImageTyped, FileLines, PolicyKey
<1>4. result' # Reading /\ result' # Filtering
  BY <1>1, ReadingIsNotFiltering
<1>5. FilteredSoFar'
  <2>1. InOrder(filtered, podmanArgs, Given(podmanArgs, argAt - 1))'
    BY <1>1, <1>2 DEF ImageInv, FilteredSoFar
  <2>2. (argAt <= Len(podmanArgs) => ~IsValue(podmanArgs, argAt))'
    BY <1>1, <1>2 DEF ImageInv, FilteredSoFar
  <2>3. argAt' \in 1..(Len(podmanArgs') + 1)
    BY <1>1, <1>2 DEF ImageInv, FilteredSoFar
  <2> QED BY <1>4, <2>1, <2>2, <2>3 DEF FilteredSoFar
<1>6. DecidedByAll'
  <2>1. kind = "container" /\ argAt = Len(podmanArgs) + 1
    BY <1>1, ReadingIsNotFiltering DEF ImageInv, ImageTyped, FilteredSoFar
  <2> QED BY <1>1, <1>2, <2>1 DEF DecidedByAll
<1> QED BY <1>2, <1>3, <1>5, <1>6 DEF ImageInv

LEMMA ImageKeepsInvariant == ImageSpec => []ImageInv
<1>1. ASSUME ImageInv, [ImageNext]_imageVars PROVE ImageInv'
  <2>1. CASE ImageNext
    <3>1. CASE \E line \in FileLines : ALine(line)
      BY <1>1, <3>1, LinePreserves
    <3> QED BY <1>1, <2>1, <3>1, EndOfFilePreserves, ArgsPreserve, FilteredPreserves
      DEF ImageNext, ALine
  <2>2. CASE UNCHANGED imageVars
    <3>1. /\ UNCHANGED <<kind, lines, section, settingVars>>
          /\ result' = result /\ argAt' = argAt /\ filtered' = filtered
          /\ lines' = lines /\ imageVal' = imageVal /\ podmanArgs' = podmanArgs
      BY <2>2 DEF imageVars, filterVars, settingVars
    <3>2. /\ ReadSoFar' /\ kind' = kind
          /\ Asked(podmanArgs)' = Asked(podmanArgs) /\ Asked(filtered)' = Asked(filtered)
      BY <1>1, <3>1, NothingMoreRead DEF Asked, settingVars
    <3>3. ImageTyped'
      BY <1>1, <3>1, <3>2 DEF ImageInv, ImageTyped, FileLines, PolicyKey
    <3>4. FilteredSoFar'
      BY <1>1, <3>1, <3>2 DEF ImageInv, FilteredSoFar
    <3>5. DecidedByAll'
      BY <1>1, <3>1, <3>2 DEF ImageInv, DecidedByAll, Decided
    <3> QED BY <3>2, <3>3, <3>4, <3>5 DEF ImageInv
  <2> QED BY <1>1, <2>1, <2>2
<1> QED BY <1>1, ImageStarts, PTL DEF ImageSpec

LEMMA PulledIsAsWritten == ImageInv => PulledAsWritten
<1> SUFFICES ASSUME ImageInv PROVE PulledAsWritten
  OBVIOUS
<1>1. /\ kind \in {"container", "image"} /\ imageVal \in {None} \cup Images \cup UnitRefs
      /\ imageVal = ImageWritten /\ policy = PolicyWritten
      /\ authFile = AuthWritten /\ tlsVerify = TLSWritten
  BY DEF ImageInv, ImageTyped, ReadSoFar
<1>2. ImageWritten \in Images <=> imageVal \notin {None} \cup UnitRefs
  BY <1>1, ImageFileConstantsOK
<1>3. ASSUME NEW list
      PROVE  IF ImageWritten \notin Images \/ PolicyWritten = "never"
             THEN Asked(list) = NoneAsked
             ELSE /\ Asked(list) # NoneAsked /\ Asked(list).args = list
                  /\ Asked(list).image = ImageWritten /\ Asked(list).policy = PolicyWritten
                  /\ Asked(list).auth = AuthWritten /\ Asked(list).tls = TLSWritten
  BY <1>1, <1>2 DEF Asked, NoneAsked
<1>4. /\ \A list : Asked(list).is = "pulled" => Asked(list).args = list
      /\ NoneAsked.is # "pulled" /\ Reading.is # "pulled" /\ Filtering.is # "pulled"
  BY ReadingIsNotFiltering DEF Asked
<1>5. ImageAsWritten
  <2>1. ASSUME Decided PROVE \E list : result = Asked(list)
    BY <2>1 DEF ImageInv, DecidedByAll
  <2> QED BY <1>3, <2>1 DEF ImageAsWritten
<1>6. PulledWithItsFlags
  <2> SUFFICES ASSUME result.is = "pulled" PROVE PulledWithItsFlags
    BY DEF PulledWithItsFlags
  <2>1. Decided
    BY <1>4 DEF Decided
  <2>2. CASE kind = "image"
    <3>1. result = Asked(podmanArgs)
      BY <2>1, <2>2 DEF ImageInv, DecidedByAll
    <3> QED BY <1>4, <2>2, <3>1 DEF PulledWithItsFlags
  <2>3. CASE kind = "container"
    <3>1. argAt = Len(podmanArgs) + 1 /\ result = Asked(filtered)
      BY <1>4, <2>1, <2>3 DEF ImageInv, DecidedByAll
    <3>2. result.args = filtered
      BY <1>4, <3>1
    <3>3. Len(podmanArgs) \in Nat
      BY DEF ImageInv, ImageTyped
    <3>4. argAt - 1 = Len(podmanArgs)
      BY <3>1, <3>3
    <3>5. InOrder(result.args, podmanArgs, Given(podmanArgs, Len(podmanArgs)))
      BY <3>2, <3>4 DEF ImageInv, FilteredSoFar
    <3> QED BY <2>3, <3>5 DEF PulledWithItsFlags, InOrder
  <2> QED BY <1>1, <2>2, <2>3
<1> QED BY <1>5, <1>6 DEF PulledAsWritten

(***************************************************************************)
(* For .container and .image files of every length, and any arguments:     *)
(* podman pull is called as the file is written, for the image its section *)
(* names last, under its last valid policy and its last login settings,    *)
(* with the flags it knows and their values, in order; or not at all       *)
(* (extract_images, filter_pull_args).                                     *)
(***************************************************************************)
THEOREM PulledAsWrittenAlways == ImageSpec => []PulledAsWritten
BY ImageKeepsInvariant, PulledIsAsWritten, PTL
=============================================================================
