---------------------------- MODULE FunctionsProof ----------------------------
(***************************************************************************)
(* The properties of PureParts for every value of its constants: names of  *)
(* any prefix, command lines of any length, and what ListsProof shows of   *)
(* manifests, samples and aggregates.                                      *)
(***************************************************************************)
EXTENDS ListsProof, PureParts
-----------------------------------------------------------------------------
(***************************************************************************)
(* Bucket names                                                            *)
(***************************************************************************)

\* A dash is neither a letter nor a digit.
LEMMA DashIsSeparate ==
  /\ "-" \notin AlphaNumeric
  /\ "-" \notin DOMAIN Lower
  /\ \A c \in DOMAIN Lower : Lower[c] \in AlphaNumeric
<1>1. DOMAIN Lower = {"A","B","C","D","E","F","G","H","I","J","K","L","M","N","O","P","Q","R","S",
        "T","U","V","W","X","Y","Z"}
  BY DEF Lower
<1>2. \A c \in DOMAIN Lower : Lower[c] # "-"
  BY <1>1 DEF Lower
<1>3. "-" \notin DOMAIN Lower
  BY <1>1
<1> QED
  BY <1>2, <1>3 DEF AlphaNumeric

\* A character is one that a name may have, or becomes one.
LEMMA CleanType ==
  ASSUME NEW c
  PROVE  /\ Clean(c) \in NameCharacter
         /\ c \in NameCharacter => Clean(c) = c
<1>1. CASE c \in AlphaNumeric
  BY <1>1 DEF Clean, NameCharacter
<1>2. CASE c \notin AlphaNumeric /\ c \in DOMAIN Lower
  <2>1. c # "-" /\ Clean(c) = Lower[c]
    BY <1>2, DashIsSeparate DEF Clean
  <2> QED
    BY <1>2, <2>1, DashIsSeparate DEF NameCharacter
<1>3. CASE c \notin AlphaNumeric /\ c \notin DOMAIN Lower
  BY <1>3 DEF Clean, NameCharacter
<1> QED
  BY <1>1, <1>2, <1>3

\* A character more leaves single dashes only, none of them first.
LEMMA AddCharacterKeeps ==
  ASSUME NEW s, HasSingleDashes(s), NEW c \in NameCharacter
  PROVE  /\ HasSingleDashes(AddCharacter(s, c))
         /\ Len(AddCharacter(s, c)) <= Len(s) + 1
         /\ AddCharacter(s, c) = <<>> => s = <<>> /\ c = "-"
<1>1. s \in Seq(NameCharacter) /\ Len(s) \in Nat
  BY DEF HasSingleDashes
<1>2. CASE c = "-" /\ (s = <<>> \/ EndsInDash(s))
  BY <1>1, <1>2 DEF AddCharacter
<1>3. CASE ~(c = "-" /\ (s = <<>> \/ EndsInDash(s)))
  <2> DEFINE t == Append(s, c)
  <2>1. AddCharacter(s, c) = t
    BY <1>3 DEF AddCharacter
  <2>2. t \in Seq(NameCharacter) /\ Len(t) = Len(s) + 1 /\ t # <<>>
    BY <1>1
  <2>3. (\A i \in 1 .. Len(s) : t[i] = s[i]) /\ t[Len(s) + 1] = c
    BY <1>1
  <2>4. t[1] # "-"
    <3>1. CASE s = <<>>
      BY <3>1, <1>3, <2>3
    <3>2. CASE s # <<>>
      <4>1. 1 \in 1 .. Len(s)
        BY <1>1, <3>2
      <4> QED
        BY <4>1, <2>3, <3>2 DEF HasSingleDashes
    <3> QED
      BY <3>1, <3>2
  <2>5. ASSUME NEW i \in 1 .. Len(t) - 1 PROVE t[i] # "-" \/ t[i + 1] # "-"
    <3> HIDE DEF t
    <3>0. i \in 1 .. Len(s) /\ i \in Int
      BY <2>2, <1>1
    <3>1. CASE i = Len(s)
      <4>1. s # <<>> /\ t[i] = s[Len(s)] /\ t[i + 1] = c
        BY <3>0, <3>1, <2>3
      <4> QED
        BY <4>1, <1>3 DEF EndsInDash
    <3>2. CASE i # Len(s)
      <4>1. i \in 1 .. Len(s) - 1 /\ i + 1 \in 1 .. Len(s)
        BY <3>0, <3>2, <1>1
      <4>2. t[i] = s[i] /\ t[i + 1] = s[i + 1]
        BY <3>0, <4>1, <2>3
      <4> QED
        BY <4>1, <4>2 DEF HasSingleDashes
    <3> QED
      BY <3>1, <3>2
  <2> HIDE DEF t
  <2>6. HasSingleDashes(t) /\ Len(t) <= Len(s) + 1
    BY <2>2, <2>4, <2>5, <1>1 DEF HasSingleDashes
  <2> QED
    BY <2>1, <2>2, <2>6
<1> QED
  BY <1>2, <1>3

\* Without the dash at its end such a sequence is sanitized.
LEMMA TrimRightSanitizes ==
  ASSUME NEW s, HasSingleDashes(s)
  PROVE  /\ IsSanitized(TrimRight(s))
         /\ Len(TrimRight(s)) <= Len(s) /\ Len(s) - 1 <= Len(TrimRight(s))
         /\ TrimRight(s) = <<>> => s = <<>>
         /\ \A i \in 1 .. Len(TrimRight(s)) : TrimRight(s)[i] = s[i]
<1>1. s \in Seq(NameCharacter) /\ Len(s) \in Nat
  BY DEF HasSingleDashes
<1>2. CASE ~EndsInDash(s)
  <2>1. TrimRight(s) = s
    BY <1>2 DEF TrimRight
  <2> QED
    BY <1>1, <1>2, <2>1 DEF IsSanitized
<1>3. CASE EndsInDash(s)
  <2> DEFINE n == Len(s)
             t == SubSeq(s, 1, n - 1)
  <2>1. TrimRight(s) = t
    BY <1>3 DEF TrimRight
  <2>2. s # <<>> /\ s[n] = "-" /\ n \in Nat /\ n >= 1
    BY <1>1, <1>3 DEF EndsInDash
  <2>3. n # 1
    BY <2>2 DEF HasSingleDashes
  <2>4. t \in Seq(NameCharacter) /\ Len(t) = n - 1 /\ n - 1 >= 1
    <3>1. n >= 2
      BY <2>2, <2>3
    <3> HIDE DEF n
    <3>2. n - 1 >= 1 /\ n - 1 <= n /\ n - 1 \in Nat
      BY <2>2, <3>1
    <3>3. \A i \in 1 .. n - 1 : s[i] \in NameCharacter
      BY <1>1, <2>2 DEF n
    <3> QED
      BY <3>2, <3>3
  <2>5. \A i \in 1 .. n - 1 : t[i] = s[i]
    BY <1>1, <2>2
  <2> HIDE DEF t
  <2>6. t[1] # "-" /\ t # <<>>
    BY <2>2, <2>4, <2>5 DEF HasSingleDashes
  <2>7. \A i \in 1 .. n - 1 : s[i] # "-" \/ s[i + 1] # "-"
    BY DEF HasSingleDashes
  <2> HIDE DEF n
  <2>8. \A i \in 1 .. Len(t) - 1 : t[i] # "-" \/ t[i + 1] # "-"
    <3> SUFFICES ASSUME NEW i \in 1 .. Len(t) - 1 PROVE t[i] # "-" \/ t[i + 1] # "-"
      OBVIOUS
    <3>1. i \in 1 .. n - 1 /\ i + 1 \in 1 .. n - 1
      BY <2>2, <2>4
    <3> QED
      BY <3>1, <2>5, <2>7
  <2>9. ~EndsInDash(t)
    <3>1. n - 1 \in 1 .. n - 1 /\ (n - 1) + 1 = n
      BY <2>2, <2>4
    <3>2. s[n - 1] # "-"
      BY <3>1, <2>7, <2>2
    <3> QED
      BY <3>1, <3>2, <2>4, <2>5 DEF EndsInDash
  <2>10. HasSingleDashes(t)
    BY <2>4, <2>6, <2>8 DEF HasSingleDashes
  <2>11. Len(t) <= Len(s) /\ Len(s) - 1 <= Len(t)
    BY <2>2, <2>4 DEF n
  <2> QED
    BY <2>1, <2>4, <2>5, <2>6, <2>9, <2>10, <2>11 DEF IsSanitized
<1> QED
  BY <1>2, <1>3

\* What SanitizeBucketPart has after k characters of value.
Part(value, k) ==
  LET scan[i \in 0 .. Len(value)] ==
        IF i = 0 THEN <<>> ELSE AddCharacter(scan[i - 1], Clean(value[i]))
  IN  scan[k]

\* SanitizeBucketPart takes one character after another.
LEMMA PartStep ==
  ASSUME NEW C, NEW value \in Seq(C)
  PROVE  /\ Part(value, 0) = <<>>
         /\ \A k \in 1 .. Len(value) :
              Part(value, k) = AddCharacter(Part(value, k - 1), Clean(value[k]))
         /\ SanitizeBucketPart(value) = TrimRight(Part(value, Len(value)))
<1> DEFINE n == Len(value)
           S == {s \in Seq(NameCharacter) : HasSingleDashes(s)}
           next == [k \in 1 .. n |-> [s \in S |-> AddCharacter(s, Clean(value[k]))]]
           scan[k \in 0 .. n] == IF k = 0 THEN <<>> ELSE AddCharacter(scan[k - 1], Clean(value[k]))
<1>1. n \in Nat
  OBVIOUS
<1>2. next \in [1 .. n -> [S -> S]]
  <2> SUFFICES ASSUME NEW s \in S, NEW c PROVE AddCharacter(s, Clean(c)) \in S
    OBVIOUS
  <2>1. HasSingleDashes(AddCharacter(s, Clean(c)))
    BY CleanType, AddCharacterKeeps
  <2> QED
    BY <2>1 DEF HasSingleDashes
<1>3. <<>> \in S
  BY DEF HasSingleDashes
<1>4. PICK g : IsRecursion(g, n, S, <<>>, next)
  <2> HIDE DEF next, n, scan, S
  <2> QED
    BY <1>1, <1>2, <1>3, Recursion
<1>5. g = [k \in 0 .. n |-> IF k = 0 THEN <<>> ELSE AddCharacter(g[k - 1], Clean(value[k]))]
  <2>1. ASSUME NEW k \in 1 .. n PROVE g[k] = AddCharacter(g[k - 1], Clean(value[k]))
    <3>1. g[k] = next[k][g[k - 1]] /\ g \in [0 .. n -> S]
      <4> HIDE DEF n, next, S
      <4> QED
        BY <1>4 DEF IsRecursion
    <3>2. k - 1 \in 0 .. n
      BY <1>1
    <3> HIDE DEF n, S
    <3> QED
      BY <3>1, <3>2
  <2>2. \A k \in 0 .. n : k # 0 => k \in 1 .. n
    BY <1>1
  <2> HIDE DEF n, next, S
  <2> QED
    BY <1>4, <2>1, <2>2 DEF IsRecursion
<1>6. scan = [k \in 0 .. n |-> IF k = 0 THEN <<>> ELSE AddCharacter(scan[k - 1], Clean(value[k]))]
  <2> HIDE DEF n, next
  <2> QED
    BY <1>5
<1>7. SanitizeBucketPart(value) = TrimRight(scan[n])
  BY DEF SanitizeBucketPart
<1>8. \A k : Part(value, k) = scan[k]
  BY DEF Part
<1> HIDE DEF scan, next
<1>9. scan[0] = <<>>
  BY <1>1, <1>6
<1>10. \A k \in 1 .. n : scan[k] = AddCharacter(scan[k - 1], Clean(value[k]))
  <2>1. \A k \in 1 .. n : k \in 0 .. n /\ k # 0
    BY <1>1
  <2> HIDE DEF n
  <2> QED
    BY <1>6, <2>1
<1> QED
  BY <1>7, <1>8, <1>9, <1>10

\* An invariant of the loop.
LEMMA PartKeeps ==
  ASSUME NEW C, NEW value \in Seq(C), NEW k \in 0 .. Len(value)
  PROVE  /\ HasSingleDashes(Part(value, k))
         /\ \A i \in 1 .. k : Clean(value[i]) # "-" => Part(value, k) # <<>>
<1> DEFINE D == {j \in 0 .. Len(value) :
                   /\ HasSingleDashes(Part(value, j))
                   /\ \A i \in 1 .. j : Clean(value[i]) # "-" => Part(value, j) # <<>>}
           n == Len(value)
<1>1. n \in Nat
  OBVIOUS
<1>2. 0 \in D
  <2>1. Part(value, 0) = <<>> /\ 0 \in 0 .. n /\ 1 .. 0 = {}
    BY <1>1, PartStep
  <2>2. HasSingleDashes(<<>>)
    BY DEF HasSingleDashes
  <2> QED
    BY <2>1, <2>2
<1>3. ASSUME NEW j \in 1 .. n, j - 1 \in D PROVE j \in D
  <2> DEFINE s == Part(value, j - 1)
             c == Clean(value[j])
  <2>1. HasSingleDashes(s) /\ \A i \in 1 .. j - 1 : Clean(value[i]) # "-" => s # <<>>
    BY <1>3
  <2>2. c \in NameCharacter
    BY CleanType
  <2>3. Part(value, j) = AddCharacter(s, c)
    BY PartStep
  <2>4. /\ HasSingleDashes(AddCharacter(s, c))
        /\ AddCharacter(s, c) = <<>> => s = <<>> /\ c = "-"
    <3> HIDE DEF s, c
    <3> QED
      BY <2>1, <2>2, AddCharacterKeeps
  <2>5. \A i \in 1 .. j : i = j \/ i \in 1 .. j - 1
    OBVIOUS
  <2>6. j \in 0 .. n
    BY <1>1
  <2> HIDE DEF s
  <2> QED
    BY <2>1, <2>3, <2>4, <2>5, <2>6
<1> HIDE DEF D
<1>4. \A j \in 0 .. n : j \in D
  BY <1>1, <1>2, <1>3, InductionUpTo
<1> QED
  BY <1>4 DEF D

\* sanitizeBucketPart does what it is for, whatever it is given, and leaves
\* something of a value that has a letter or a digit.
LEMMA SanitizeIsSanitized ==
  ASSUME NEW C, NEW value \in Seq(C)
  PROVE  /\ IsSanitized(SanitizeBucketPart(value))
         /\ (\E i \in 1 .. Len(value) : Clean(value[i]) # "-") => SanitizeBucketPart(value) # <<>>
<1>1. Len(value) \in 0 .. Len(value)
  OBVIOUS
<1>2. SanitizeBucketPart(value) = TrimRight(Part(value, Len(value)))
  BY PartStep
<1>3. /\ HasSingleDashes(Part(value, Len(value)))
      /\ \A i \in 1 .. Len(value) : Clean(value[i]) # "-" => Part(value, Len(value)) # <<>>
  BY <1>1, PartKeeps
<1> QED
  BY <1>2, <1>3, TrimRightSanitizes

\* What is sanitized stays as it is.
LEMMA SanitizedStays ==
  ASSUME NEW value, IsSanitized(value)
  PROVE  SanitizeBucketPart(value) = value
<1> DEFINE n == Len(value)
           D == {k \in 0 .. n : Part(value, k) = SubSeq(value, 1, k)}
<1>1. value \in Seq(NameCharacter) /\ n \in Nat
  BY DEF IsSanitized, HasSingleDashes
<1>2. 0 \in D
  <2>1. SubSeq(value, 1, 0) = <<>> /\ 0 \in 0 .. n
    BY <1>1
  <2>2. Part(value, 0) = <<>>
    BY <1>1, PartStep
  <2> HIDE DEF n
  <2> QED
    BY <2>1, <2>2
<1>3. ASSUME NEW k \in 1 .. n, k - 1 \in D PROVE k \in D
  <2> DEFINE s == SubSeq(value, 1, k - 1)
             c == value[k]
  <2>1. c \in NameCharacter /\ Clean(c) = c
    BY <1>1, CleanType
  <2>2. Part(value, k) = AddCharacter(s, c)
    BY <1>1, <1>3, <2>1, PartStep
  <2>3. k \in 0 .. n /\ s \in Seq(NameCharacter) /\ Len(s) = k - 1
    BY <1>1
  <2>4. ~(c = "-" /\ (s = <<>> \/ EndsInDash(s)))
    <3>1. CASE k = 1
      BY <3>1, <1>1, <2>3 DEF IsSanitized, HasSingleDashes, EndsInDash
    <3>2. CASE k # 1
      <4>1. k - 1 \in 1 .. n - 1 /\ (k - 1) + 1 = k
        BY <3>2, <1>1
      <4>2. s[k - 1] = value[k - 1] /\ s # <<>>
        BY <4>1, <1>1, <2>3
      <4>3. value[k - 1] # "-" \/ value[(k - 1) + 1] # "-"
        BY <4>1 DEF IsSanitized, HasSingleDashes
      <4> HIDE DEF s
      <4> QED
        BY <4>1, <4>2, <4>3, <2>3 DEF EndsInDash
    <3> QED
      BY <3>1, <3>2
  <2>5. AddCharacter(s, c) = Append(s, c)
    BY <2>4 DEF AddCharacter
  <2>6. Append(s, c) = SubSeq(value, 1, k)
    BY <1>1
  <2> HIDE DEF s, c
  <2> QED
    BY <2>2, <2>3, <2>5, <2>6
<1>4. n \in D
  <2>1. n \in 0 .. n
    BY <1>1
  <2> HIDE DEF D, n
  <2> QED
    BY <1>1, <1>2, <1>3, <2>1, InductionUpTo
<1>5. SubSeq(value, 1, n) = value
  BY <1>1
<1> QED
  BY <1>1, <1>4, <1>5, PartStep DEF TrimRight, IsSanitized

\* Where the prefix and the operation stand in what is sanitized.
LEMMA TypedPrefix ==
  ASSUME NEW C, NEW prefix \in Seq(C), NEW operation \in Seq(NameCharacter)
  PROVE  LET isolated == IsolatedPrefix(prefix, operation)
             n == Len(prefix)
         IN  /\ isolated \in Seq(C \union NameCharacter)
             /\ Len(isolated) = n + 1 + Len(operation)
             /\ \A i \in 1 .. n : isolated[i] = prefix[i]
             /\ isolated[n + 1] = "-"
             /\ \A i \in 1 .. Len(operation) : isolated[n + 1 + i] = operation[i]
<1> DEFINE dash == prefix \o <<"-">>
           n == Len(prefix)
           isolated == dash \o operation
<1>1. n \in Nat /\ Len(operation) \in Nat
  OBVIOUS
<1>2. "-" \in NameCharacter
  BY DEF NameCharacter
<1>3. /\ dash \in Seq(C \union NameCharacter) /\ Len(dash) = n + 1
      /\ \A i \in 1 .. n : dash[i] = prefix[i]
      /\ dash[n + 1] = "-"
  BY <1>2
<1>4. operation \in Seq(C \union NameCharacter)
  OBVIOUS
<1> HIDE DEF dash
<1>5. isolated \in Seq(C \union NameCharacter) /\ Len(isolated) = n + 1 + Len(operation)
  BY <1>1, <1>3, <1>4
<1>6. \A i \in 1 .. n + 1 : isolated[i] = dash[i]
  BY <1>1, <1>3, <1>4
<1>7. \A i \in 1 .. Len(operation) : isolated[n + 1 + i] = operation[i]
  BY <1>1, <1>3, <1>4
<1>8. \A i \in 1 .. n : isolated[i] = prefix[i]
  BY <1>1, <1>3, <1>6
<1>9. isolated[n + 1] = "-"
  <2>1. n + 1 \in 1 .. n + 1
    BY <1>1
  <2> QED
    BY <2>1, <1>3, <1>6
<1> QED
  BY <1>5, <1>7, <1>8, <1>9 DEF IsolatedPrefix, dash

\* The sanitized prefix of a run has room in the sanitized prefix of the suite,
\* a dash and the operation: the operation begins with a letter, and no dash
\* that the two parts have between them counts twice.
LEMMA IsolatedPrefixFits ==
  ASSUME NEW C, NEW prefix \in Seq(C),
         NEW operation, IsSanitized(operation), operation # <<>>
  PROVE  LET whole == SanitizeBucketPart(IsolatedPrefix(prefix, operation))
         IN  /\ IsSanitized(whole) /\ whole # <<>>
             /\ Len(whole) <= Len(SanitizeBucketPart(prefix)) + 1 + Len(operation)
<1> DEFINE n == Len(prefix)
           m == Len(operation)
           isolated == IsolatedPrefix(prefix, operation)
           whole == SanitizeBucketPart(isolated)
           most == Len(SanitizeBucketPart(prefix)) + 1
<1>1. operation \in Seq(NameCharacter) /\ n \in Nat /\ m \in Nat /\ m >= 1 /\ operation[1] # "-"
  BY DEF IsSanitized, HasSingleDashes
<1>2. /\ isolated \in Seq(C \union NameCharacter)
      /\ Len(isolated) = n + 1 + m
      /\ \A i \in 1 .. n : isolated[i] = prefix[i]
      /\ isolated[n + 1] = "-"
      /\ \A i \in 1 .. m : isolated[n + 1 + i] = operation[i]
  BY <1>1, TypedPrefix
<1> HIDE DEF isolated
<1>3. IsSanitized(whole) /\ whole # <<>>
  <2>1. n + 1 + 1 \in 1 .. Len(isolated) /\ 1 \in 1 .. m
    BY <1>1, <1>2
  <2>2. isolated[n + 1 + 1] = operation[1] /\ operation[1] \in NameCharacter
    BY <1>1, <1>2, <2>1
  <2>3. Clean(isolated[n + 1 + 1]) # "-"
    BY <1>1, <2>2, CleanType
  <2> QED
    BY <1>2, <2>1, <2>3, SanitizeIsSanitized
<1>4. \A k \in 1 .. Len(isolated) :
        Part(isolated, k) = AddCharacter(Part(isolated, k - 1), Clean(isolated[k]))
  BY <1>2, PartStep
<1>5. \A k \in 0 .. n + 1 + m : HasSingleDashes(Part(isolated, k))
  BY <1>2, PartKeeps
<1>6. Part(isolated, n) = Part(prefix, n)
  <2> DEFINE D == {k \in 0 .. n : Part(isolated, k) = Part(prefix, k)}
  <2>1. 0 \in D
    <3>1. Part(isolated, 0) = <<>> /\ Part(prefix, 0) = <<>> /\ 0 \in 0 .. n
      BY <1>1, <1>2, PartStep
    <3> QED
      BY <3>1
  <2>2. ASSUME NEW k \in 1 .. n, k - 1 \in D PROVE k \in D
    <3>1. k \in 1 .. n + 1 + m /\ k \in 0 .. n
      BY <1>1
    <3>2. Part(prefix, k) = AddCharacter(Part(prefix, k - 1), Clean(prefix[k]))
      BY PartStep
    <3>3. Part(isolated, k - 1) = Part(prefix, k - 1)
      BY <2>2
    <3> QED
      BY <1>2, <1>4, <3>1, <3>2, <3>3
  <2>3. n \in 0 .. n
    BY <1>1
  <2> HIDE DEF D, n
  <2>4. n \in D
    BY <1>1, <2>1, <2>2, <2>3, InductionUpTo
  <2> QED
    BY <2>4 DEF D
<1>7. Len(Part(isolated, n + 1)) <= most
  <2> DEFINE s == Part(prefix, n)
  <2>1. HasSingleDashes(s)
    BY <1>1, PartKeeps
  <2>2. SanitizeBucketPart(prefix) = TrimRight(s)
    BY PartStep
  <2>3. Part(isolated, n + 1) = AddCharacter(s, "-")
    <3>1. n + 1 \in 1 .. Len(isolated) /\ (n + 1) - 1 = n
      BY <1>1, <1>2
    <3>2. Clean("-") = "-"
      BY CleanType DEF NameCharacter
    <3> QED
      BY <3>1, <3>2, <1>2, <1>4, <1>6
  <2>4. s \in Seq(NameCharacter) /\ "-" \in NameCharacter
    BY <2>1 DEF HasSingleDashes, NameCharacter
  <2> HIDE DEF s
  <2>5. CASE s = <<>> \/ EndsInDash(s)
    <3>1. AddCharacter(s, "-") = s
      BY <2>5 DEF AddCharacter
    <3>2. Len(s) - 1 <= Len(TrimRight(s)) /\ Len(TrimRight(s)) \in Nat
      BY <2>1, TrimRightSanitizes DEF IsSanitized, HasSingleDashes
    <3> QED
      BY <2>2, <2>3, <2>4, <3>1, <3>2
  <2>6. CASE ~(s = <<>> \/ EndsInDash(s))
    <3>1. AddCharacter(s, "-") = Append(s, "-")
      BY <2>6 DEF AddCharacter
    <3>2. TrimRight(s) = s
      BY <2>6 DEF TrimRight
    <3>3. Len(Append(s, "-")) = Len(s) + 1
      BY <2>4
    <3> QED
      BY <2>2, <2>3, <2>4, <3>1, <3>2, <3>3
  <2> QED
    BY <2>5, <2>6
<1>8. most \in Nat
  <2>1. IsSanitized(SanitizeBucketPart(prefix))
    BY SanitizeIsSanitized
  <2> QED
    BY <2>1 DEF IsSanitized, HasSingleDashes
<1> HIDE DEF most, n, m
<1>9. Len(Part(isolated, n + 1 + m)) <= most + m
  <2> DEFINE D == {k \in 0 .. m : Len(Part(isolated, n + 1 + k)) <= most + k}
  <2>1. 0 \in D
    <3>1. n + 1 + 0 = n + 1 /\ 0 \in 0 .. m /\ most + 0 = most
      BY <1>1, <1>8
    <3> QED
      BY <1>7, <3>1
  <2>2. ASSUME NEW k \in 1 .. m, k - 1 \in D PROVE k \in D
    <3> DEFINE before == n + 1 + (k - 1)
               s == Part(isolated, before)
    <3>1. /\ before + 1 \in 1 .. n + 1 + m /\ before \in 0 .. n + 1 + m
          /\ before + 1 = n + 1 + k /\ (before + 1) - 1 = before /\ k \in 0 .. m
      BY <1>1
    <3>2. HasSingleDashes(s) /\ Len(s) <= most + (k - 1)
      BY <1>5, <2>2, <3>1
    <3>3. Part(isolated, n + 1 + k) = AddCharacter(s, Clean(isolated[n + 1 + k]))
      <4> HIDE DEF before
      <4>1. Part(isolated, before + 1) = AddCharacter(Part(isolated, (before + 1) - 1), Clean(isolated[before + 1]))
        BY <3>1, <1>2, <1>4
      <4> QED
        BY <3>1, <4>1
    <3> HIDE DEF before, s
    <3>4. Clean(isolated[n + 1 + k]) \in NameCharacter
      BY CleanType
    <3>5. /\ Len(AddCharacter(s, Clean(isolated[n + 1 + k]))) <= Len(s) + 1
          /\ HasSingleDashes(AddCharacter(s, Clean(isolated[n + 1 + k])))
      BY <3>2, <3>4, AddCharacterKeeps
    <3>6. Len(s) \in Nat /\ Len(Part(isolated, n + 1 + k)) \in Nat
      BY <3>2, <3>3, <3>5 DEF HasSingleDashes
    <3>7. Len(Part(isolated, n + 1 + k)) <= most + k
      BY <1>8, <3>2, <3>3, <3>5, <3>6
    <3> QED
      BY <3>1, <3>7
  <2>3. m \in 0 .. m
    BY <1>1
  <2> HIDE DEF D
  <2>4. m \in D
    BY <1>1, <2>1, <2>2, <2>3, InductionUpTo
  <2> QED
    BY <2>4 DEF D
<1>10. Len(whole) <= most + m
  <2>1. n + 1 + m \in 0 .. n + 1 + m
    BY <1>1
  <2>2. whole = TrimRight(Part(isolated, n + 1 + m))
    BY <1>2, PartStep
  <2>3. HasSingleDashes(Part(isolated, n + 1 + m))
    BY <1>5, <2>1
  <2>4. Len(whole) <= Len(Part(isolated, n + 1 + m)) /\ Len(whole) \in Nat
    BY <2>2, <2>3, TrimRightSanitizes DEF IsSanitized, HasSingleDashes
  <2>5. Len(Part(isolated, n + 1 + m)) \in Nat
    BY <2>3 DEF HasSingleDashes
  <2> QED
    BY <1>1, <1>8, <1>9, <2>4, <2>5
<1> QED
  BY <1>3, <1>10 DEF isolated, most, m

\* Two sanitized parts with a dash between them are sanitized.
LEMMA JoinedParts ==
  ASSUME NEW a, IsSanitized(a), a # <<>>, NEW b, IsSanitized(b), b # <<>>
  PROVE  LET joined == a \o <<"-">> \o b
         IN  /\ IsSanitized(joined) /\ joined # <<>>
             /\ Len(joined) = Len(a) + 1 + Len(b)
             /\ \A i \in 1 .. Len(a) : joined[i] = a[i]
             /\ \A i \in 1 .. Len(b) : joined[Len(a) + 1 + i] = b[i]
<1> DEFINE joined == a \o <<"-">> \o b
           n == Len(a)
           m == Len(b)
<1>1. /\ a \in Seq(NameCharacter) /\ b \in Seq(NameCharacter)
      /\ n \in Nat /\ m \in Nat /\ n >= 1 /\ m >= 1
  BY DEF IsSanitized, HasSingleDashes
<1>2. /\ joined \in Seq(NameCharacter) /\ Len(joined) = n + 1 + m
      /\ \A i \in 1 .. n : joined[i] = a[i]
      /\ joined[n + 1] = "-"
      /\ \A i \in 1 .. m : joined[n + 1 + i] = b[i]
  <2> DEFINE isolated == IsolatedPrefix(a, b)
  <2>1. /\ isolated \in Seq(NameCharacter \union NameCharacter)
        /\ Len(isolated) = n + 1 + Len(b)
        /\ \A i \in 1 .. n : isolated[i] = a[i]
        /\ isolated[n + 1] = "-"
        /\ \A i \in 1 .. Len(b) : isolated[n + 1 + i] = b[i]
    BY <1>1, TypedPrefix
  <2>2. isolated = joined /\ NameCharacter \union NameCharacter = NameCharacter
    BY DEF IsolatedPrefix
  <2> HIDE DEF joined, isolated
  <2> QED
    BY <2>1, <2>2
<1> HIDE DEF joined
<1>3. \A i \in 1 .. n + 1 + m :
        \/ i \in 1 .. n \/ i = n + 1 \/ \E j \in 1 .. m : i = n + 1 + j
  <2> SUFFICES ASSUME NEW i \in 1 .. n + 1 + m, i \notin 1 .. n, i # n + 1
               PROVE  \E j \in 1 .. m : i = n + 1 + j
    OBVIOUS
  <2> HIDE DEF n, m
  <2>1. i - (n + 1) \in 1 .. m /\ i = n + 1 + (i - (n + 1))
    BY <1>1
  <2> QED
    BY <2>1
<1>4. a[1] # "-" /\ a[n] # "-" /\ b[1] # "-" /\ b[m] # "-"
  BY DEF IsSanitized, HasSingleDashes, EndsInDash
<1>5. joined[1] # "-"
  <2>1. 1 \in 1 .. n
    BY <1>1
  <2> QED
    BY <2>1, <1>2, <1>4
<1>6. ~EndsInDash(joined)
  <2>1. m \in 1 .. m
    BY <1>1
  <2>2. joined[n + 1 + m] = b[m]
    BY <1>2, <2>1
  <2> QED
    BY <1>2, <1>4, <2>2 DEF EndsInDash
<1>7. ASSUME NEW i \in 1 .. Len(joined) - 1 PROVE joined[i] # "-" \/ joined[i + 1] # "-"
  <2>0. i \in 1 .. n + 1 + m /\ i <= n + m /\ i \in Int
    <3> HIDE DEF n, m
    <3> QED
      BY <1>1, <1>2
  <2>1. CASE i = n
    <3>1. i \in 1 .. n
      BY <2>1, <1>1
    <3> QED
      BY <3>1, <2>1, <1>2, <1>4
  <2>2. CASE i = n + 1
    <3>1. 1 \in 1 .. m /\ i + 1 = n + 1 + 1
      BY <2>2, <1>1
    <3>2. joined[i + 1] = b[1]
      BY <3>1, <1>2
    <3> QED
      BY <3>2, <1>4
  <2>3. CASE i \in 1 .. n /\ i # n
    <3>1. i \in 1 .. Len(a) - 1 /\ i + 1 \in 1 .. n
      BY <2>3, <1>1
    <3>2. a[i] # "-" \/ a[i + 1] # "-"
      BY <3>1 DEF IsSanitized, HasSingleDashes
    <3> QED
      BY <3>1, <3>2, <2>3, <1>2
  <2>4. ASSUME NEW j \in 1 .. m, i = n + 1 + j PROVE joined[i] # "-" \/ joined[i + 1] # "-"
    <3> HIDE DEF n, m
    <3>1. j \in 1 .. m - 1 /\ j + 1 \in 1 .. m /\ i + 1 = n + 1 + (j + 1)
      BY <2>0, <2>4, <1>1
    <3>2. b[j] # "-" \/ b[j + 1] # "-"
      BY <3>1 DEF IsSanitized, HasSingleDashes, m
    <3> QED
      BY <3>1, <3>2, <2>4, <1>2
  <2> QED
    BY <2>0, <2>1, <2>2, <2>3, <2>4, <1>3
<1>8. joined # <<>>
  BY <1>1, <1>2
<1> HIDE DEF n, m
<1>9. IsSanitized(joined)
  BY <1>2, <1>5, <1>6, <1>7 DEF IsSanitized, HasSingleDashes
<1> QED
  BY <1>2, <1>8, <1>9 DEF joined, n, m

\* So are letters and digits alone.
LEMMA RandomIsSanitized ==
  ASSUME NEW n \in Nat \ {0}, NEW random, random \in [1 .. n -> AlphaNumeric]
  PROVE  IsSanitized(random) /\ random # <<>> /\ Len(random) = n
<1>1. \A i \in 1 .. n : random[i] # "-" /\ random[i] \in NameCharacter
  BY DashIsSeparate DEF NameCharacter
<1>2. random \in Seq(NameCharacter) /\ Len(random) = n
  BY <1>1
<1>3. 1 \in 1 .. n /\ n \in 1 .. n /\ random # <<>>
  BY <1>2
<1>4. HasSingleDashes(random)
  <2>1. \A i \in 1 .. n - 1 : i \in 1 .. n
    OBVIOUS
  <2> QED
    BY <1>1, <1>2, <1>3, <2>1 DEF HasSingleDashes
<1> QED
  BY <1>1, <1>2, <1>3, <1>4 DEF IsSanitized, EndsInDash

\* What is sanitized and neither too short nor too long is a name.
LEMMA SanitizedEnds ==
  ASSUME NEW s, IsSanitized(s), Len(s) \in 3 .. MaxNameLength
  PROVE  IsBucketName(s)
<1>1. s \in Seq(NameCharacter) /\ s # <<>> /\ Len(s) \in 1 .. Len(s) /\ 1 \in 1 .. Len(s)
  BY DEF IsSanitized, HasSingleDashes
<1>2. s[1] # "-" /\ s[Len(s)] # "-"
  BY <1>1 DEF IsSanitized, HasSingleDashes, EndsInDash
<1>3. \A i \in 1 .. Len(s) : s[i] \in NameCharacter
  BY <1>1
<1> QED
  BY <1>1, <1>2, <1>3 DEF IsBucketName, NameCharacter

\* The cut leaves the beginning, and a dash at the end of a full name at most.
LEMMA CutKeeps ==
  ASSUME NEW raw, IsSanitized(raw), Len(raw) >= 12
  PROVE  LET cut == CutName(raw)
         IN  /\ HasSingleDashes(cut)
             /\ Len(cut) \in 12 .. MaxNameLength
             /\ EndsInDash(cut) => Len(cut) = MaxNameLength
             /\ Len(raw) <= MaxNameLength => cut = raw
<1>1. raw \in Seq(NameCharacter) /\ Len(raw) \in Nat
  BY DEF IsSanitized, HasSingleDashes
<1>2. CASE Len(raw) <= MaxNameLength
  <2>1. CutName(raw) = raw
    BY <1>1, <1>2 DEF CutName, MaxNameLength
  <2> DEFINE n == Len(raw)
             m == MaxNameLength
  <2>2. n \in Nat /\ m \in Nat /\ n >= 12 /\ n <= m
    BY <1>1, <1>2 DEF MaxNameLength
  <2> HIDE DEF n, m
  <2>3. n \in 12 .. m
    BY <2>2
  <2> QED
    BY <2>1, <2>3 DEF IsSanitized, n, m
<1>3. CASE ~(Len(raw) <= MaxNameLength)
  <2> DEFINE n == MaxNameLength
             cut == SubSeq(raw, 1, n)
  <2>1. CutName(raw) = cut /\ Len(raw) > n /\ n \in Nat /\ n >= 12
    BY <1>1, <1>3 DEF CutName, MaxNameLength
  <2> HIDE DEF n
  <2>2. cut \in Seq(NameCharacter) /\ Len(cut) = n /\ \A i \in 1 .. n : cut[i] = raw[i]
    <3>1. \A i \in 1 .. n : raw[i] \in NameCharacter
      BY <1>1, <2>1
    <3> QED
      BY <1>1, <2>1, <3>1
  <2>3. raw # <<>> /\ 1 \in 1 .. n
    BY <1>1, <2>1
  <2>4. raw[1] # "-" /\ \A i \in 1 .. Len(raw) - 1 : raw[i] # "-" \/ raw[i + 1] # "-"
    BY <2>3 DEF IsSanitized, HasSingleDashes
  <2> HIDE DEF cut
  <2>5. \A i \in 1 .. Len(cut) - 1 : cut[i] # "-" \/ cut[i + 1] # "-"
    <3> SUFFICES ASSUME NEW i \in 1 .. n - 1 PROVE cut[i] # "-" \/ cut[i + 1] # "-"
      BY <2>2
    <3>1. i \in 1 .. n /\ i + 1 \in 1 .. n /\ i \in 1 .. Len(raw) - 1
      BY <1>1, <2>1
    <3> QED
      BY <3>1, <2>2, <2>4
  <2>6. HasSingleDashes(cut)
    <3>1. cut[1] # "-"
      BY <2>2, <2>3, <2>4
    <3> QED
      BY <3>1, <2>2, <2>5 DEF HasSingleDashes
  <2>7. Len(cut) \in 12 .. n
    BY <2>1, <2>2
  <2>8. ~(Len(raw) <= n)
    BY <1>3 DEF n
  <2> QED
    BY <2>1, <2>2, <2>6, <2>7, <2>8 DEF n
<1> QED
  BY <1>2, <1>3

\* Both ways to get rid of that dash make a name of it.
LEMMA NameIsBucketName ==
  ASSUME NEW raw, IsSanitized(raw), Len(raw) >= 12
  PROVE  LET cut == CutName(raw)
         IN  /\ IsBucketName(TrimRight(cut)) /\ TrimRight(cut) # <<>>
             /\ EndsInDash(cut) => IsBucketName(Append(TrimRight(cut), "a"))
             /\ Len(raw) <= MaxNameLength => TrimRight(cut) = raw /\ ~EndsInDash(cut)
<1> DEFINE cut == CutName(raw)
           trimmed == TrimRight(cut)
           longer == Append(trimmed, "a")
<1>1. /\ HasSingleDashes(cut) /\ Len(cut) \in 12 .. MaxNameLength
      /\ EndsInDash(cut) => Len(cut) = MaxNameLength
      /\ Len(raw) <= MaxNameLength => cut = raw
  BY CutKeeps
<1> HIDE DEF cut
<1>2. /\ IsSanitized(trimmed)
      /\ Len(trimmed) <= Len(cut) /\ Len(cut) - 1 <= Len(trimmed)
  BY <1>1, TrimRightSanitizes
<1>3. Len(trimmed) \in 3 .. MaxNameLength /\ trimmed # <<>>
  <2>1. Len(trimmed) \in Nat /\ Len(cut) \in Nat
    BY <1>1, <1>2 DEF IsSanitized, HasSingleDashes
  <2>2. MaxNameLength \in Nat
    BY DEF MaxNameLength
  <2> HIDE DEF trimmed, longer
  <2>3. Len(trimmed) \in 3 .. MaxNameLength
    BY <1>1, <1>2, <2>1, <2>2
  <2> QED
    BY <2>3
<1>4. IsBucketName(trimmed)
  BY <1>2, <1>3, SanitizedEnds
<1>5. ASSUME EndsInDash(cut) PROVE IsBucketName(longer)
  <2> DEFINE n == Len(trimmed)
  <2>1. n = MaxNameLength - 1 /\ trimmed \in Seq(NameCharacter)
    <3>1. trimmed = SubSeq(cut, 1, Len(cut) - 1) /\ cut \in Seq(NameCharacter)
          /\ Len(cut) = MaxNameLength
      BY <1>1, <1>5 DEF TrimRight, HasSingleDashes
    <3>2. MaxNameLength \in Nat /\ MaxNameLength >= 12
      BY DEF MaxNameLength
    <3>3. trimmed \in Seq(NameCharacter)
      BY <1>2 DEF IsSanitized, HasSingleDashes
    <3> QED
      BY <3>1, <3>2, <3>3
  <2>2. "a" \in AlphaNumeric
    <3>1. "A" \in DOMAIN Lower /\ Lower["A"] = "a"
      BY DEF Lower
    <3> QED
      BY <3>1 DEF AlphaNumeric
  <2> HIDE DEF trimmed
  <2>3. /\ longer \in Seq(NameCharacter) /\ Len(longer) = n + 1 /\ longer[n + 1] = "a"
        /\ \A i \in 1 .. n : longer[i] = trimmed[i]
    BY <2>1, <2>2 DEF NameCharacter
  <2> HIDE DEF longer
  <2>4. Len(longer) = MaxNameLength /\ Len(longer) \in 3 .. MaxNameLength
    BY <2>1, <2>3 DEF MaxNameLength
  <2>5. longer[1] \in AlphaNumeric
    <3>1. trimmed[1] \in AlphaNumeric /\ n >= 1 /\ n \in Nat
      BY <1>3, <1>4 DEF IsBucketName
    <3>2. 1 \in 1 .. n
      BY <3>1
    <3> QED
      BY <3>1, <3>2, <2>3
  <2>6. longer[Len(longer)] \in AlphaNumeric
    BY <2>2, <2>3
  <2>7. \A i \in 1 .. Len(longer) : longer[i] \in NameCharacter
    BY <2>3
  <2> QED
    BY <2>4, <2>5, <2>6, <2>7 DEF IsBucketName
<1>6. ASSUME Len(raw) <= MaxNameLength PROVE trimmed = raw /\ ~EndsInDash(cut)
  BY <1>1, <1>6 DEF TrimRight, IsSanitized
<1> HIDE DEF trimmed
<1> QED
  BY <1>3, <1>4, <1>5, <1>6 DEF cut, trimmed

\* The three parts of a name.
Joined(start, suffix, random) == start \o <<"-">> \o suffix \o <<"-">> \o random

\* Where they stand in it.
JoinedShape(raw, start, suffix, random) ==
  /\ IsSanitized(raw)
  /\ Len(start) \in Nat \ {0} /\ Len(suffix) \in Nat \ {0}
  /\ Len(raw) = Len(start) + 1 + Len(suffix) + 1 + Len(random)
  /\ \A i \in 1 .. Len(suffix) : raw[Len(start) + 1 + i] = suffix[i]
  /\ \A i \in 1 .. Len(random) : raw[Len(start) + 1 + Len(suffix) + 1 + i] = random[i]

\* Three sanitized parts make a sanitized name.
LEMMA JoinedIsSanitized ==
  ASSUME NEW start, IsSanitized(start), start # <<>>,
         NEW suffix, IsSanitized(suffix), suffix # <<>>,
         NEW random, IsSanitized(random), random # <<>>
  PROVE  JoinedShape(Joined(start, suffix, random), start, suffix, random)
<1> DEFINE n == Len(start)
           m == Len(suffix)
           named == start \o <<"-">> \o suffix
           raw == named \o <<"-">> \o random
<1>1. /\ IsSanitized(named) /\ named # <<>> /\ Len(named) = n + 1 + m
      /\ \A i \in 1 .. m : named[n + 1 + i] = suffix[i]
  BY JoinedParts
<1>2. n \in Nat \ {0} /\ m \in Nat \ {0}
  BY DEF IsSanitized, HasSingleDashes
<1> HIDE DEF named
<1>3. /\ IsSanitized(raw)
      /\ Len(raw) = Len(named) + 1 + Len(random)
      /\ \A i \in 1 .. Len(named) : raw[i] = named[i]
      /\ \A i \in 1 .. Len(random) : raw[Len(named) + 1 + i] = random[i]
  <2> HIDE DEF n, m
  <2> QED
    BY <1>1, JoinedParts
<1>4. Joined(start, suffix, random) = raw
  BY DEF Joined, named
<1> HIDE DEF raw, n, m
<1>5. \A i \in 1 .. m : raw[n + 1 + i] = suffix[i]
  <2> SUFFICES ASSUME NEW i \in 1 .. m PROVE raw[n + 1 + i] = suffix[i]
    OBVIOUS
  <2>1. n + 1 + i \in 1 .. n + 1 + m
    BY <1>2
  <2> QED
    BY <2>1, <1>1, <1>3
<1>6. Len(raw) = n + 1 + m + 1 + Len(random)
      /\ \A i \in 1 .. Len(random) : raw[n + 1 + m + 1 + i] = random[i]
  BY <1>1, <1>3
<1> QED
  BY <1>2, <1>3, <1>4, <1>5, <1>6 DEF n, m, JoinedShape

\* makeBucketName of either tool, once what it cuts is sanitized.
LEMMA NamesAreBucketNames ==
  ASSUME NEW prefix, NEW suffix, NEW random, NEW tool,
         IsSanitized(RawName(prefix, suffix, random)), Len(RawName(prefix, suffix, random)) >= 12
  PROVE  /\ IsBucketName(BucketName(tool, prefix, suffix, random))
         /\ Len(RawName(prefix, suffix, random)) <= MaxNameLength =>
              BucketName(tool, prefix, suffix, random) = RawName(prefix, suffix, random)
<1> DEFINE raw == RawName(prefix, suffix, random)
           cut == CutName(raw)
<1>2. /\ IsBucketName(TrimRight(cut)) /\ TrimRight(cut) # <<>>
      /\ EndsInDash(cut) => IsBucketName(Append(TrimRight(cut), "a"))
      /\ Len(raw) <= MaxNameLength => TrimRight(cut) = raw /\ ~EndsInDash(cut)
  <2> HIDE DEF raw
  <2> QED
    BY NameIsBucketName DEF raw
<1>3. \/ BucketName(tool, prefix, suffix, random) = TrimRight(cut)
      \/ /\ EndsInDash(cut)
         /\ BucketName(tool, prefix, suffix, random) = Append(TrimRight(cut), "a")
  <2>1. ~EndsInDash(cut) => TrimRight(cut) = cut
    BY DEF TrimRight
  <2>2. GoBucketName(prefix, suffix, random) = TrimRight(cut)
    BY <1>2 DEF GoBucketName
  <2>3. TsBucketName(prefix, suffix, random) =
          IF EndsInDash(cut) THEN Append(TrimRight(cut), "a") ELSE cut
    BY DEF TsBucketName
  <2> HIDE DEF cut
  <2> QED
    BY <2>1, <2>2, <2>3 DEF BucketName
<1> HIDE DEF cut
<1> QED
  BY <1>2, <1>3

\* The random parts have one length, so a name shows where its suffix ends.
LEMMA JoinedNamesDiffer ==
  ASSUME NEW start, IsSanitized(start), start # <<>>,
         NEW s, IsSanitized(s), s # <<>>, NEW t, IsSanitized(t), t # <<>>,
         NEW p, IsSanitized(p), p # <<>>, NEW q, IsSanitized(q), q # <<>>,
         Len(p) = Len(q), Joined(start, s, p) = Joined(start, t, q)
  PROVE  s = t /\ p = q
<1> DEFINE n == Len(start)
           raw == Joined(start, s, p)
<1>1. /\ n \in Nat /\ Len(s) \in Nat
      /\ Len(raw) = n + 1 + Len(s) + 1 + Len(p)
      /\ \A i \in 1 .. Len(s) : raw[n + 1 + i] = s[i]
      /\ \A i \in 1 .. Len(p) : raw[n + 1 + Len(s) + 1 + i] = p[i]
  <2>1. JoinedShape(raw, start, s, p)
    BY JoinedIsSanitized
  <2> QED
    BY <2>1 DEF JoinedShape
<1>2. /\ Len(t) \in Nat
      /\ Len(raw) = n + 1 + Len(t) + 1 + Len(q)
      /\ \A i \in 1 .. Len(t) : raw[n + 1 + i] = t[i]
      /\ \A i \in 1 .. Len(q) : raw[n + 1 + Len(t) + 1 + i] = q[i]
  <2>1. JoinedShape(raw, start, t, q)
    BY JoinedIsSanitized
  <2> QED
    BY <2>1 DEF JoinedShape
<1> HIDE DEF raw, n
<1>0. /\ s \in Seq(NameCharacter) /\ t \in Seq(NameCharacter)
      /\ p \in Seq(NameCharacter) /\ q \in Seq(NameCharacter)
  BY DEF IsSanitized, HasSingleDashes
<1>3. Len(s) = Len(t)
  <2>1. Len(p) \in Nat
    BY <1>0
  <2> QED
    BY <1>1, <1>2, <2>1
<1>4. s = t
  <2>1. \A i \in 1 .. Len(s) : s[i] = t[i]
    BY <1>1, <1>2, <1>3
  <2> QED
    BY <1>0, <1>3, <2>1
<1>5. p = q
  <2>1. \A i \in 1 .. Len(p) : p[i] = q[i]
    BY <1>1, <1>2, <1>3
  <2> QED
    BY <1>0, <2>1
<1> QED
  BY <1>4, <1>5

\* A bucket's name before it is cut.
LEMMA RawNames ==
  ASSUME NEW C, NEW prefix \in Seq(C),
         NEW operation, IsSanitized(operation), Len(operation) \in 1 .. LongestOperation,
         NEW suffix, IsSanitized(suffix), Len(suffix) \in 1 .. LongestSuffix,
         NEW random, random \in [1 .. RandomLength -> AlphaNumeric]
  PROVE  LET whole == IsolatedPrefix(prefix, operation)
             start == SanitizeBucketPart(whole)
             raw == RawName(whole, suffix, random)
         IN  /\ IsSanitized(start) /\ start # <<>>
             /\ raw = Joined(start, suffix, random)
             /\ IsSanitized(raw) /\ Len(raw) >= 12
             /\ suffix # <<>> /\ random # <<>> /\ IsSanitized(random)
             /\ Len(random) = RandomLength
             /\ Len(SanitizeBucketPart(prefix)) <= WholePrefixLength => Len(raw) <= MaxNameLength
<1> DEFINE whole == IsolatedPrefix(prefix, operation)
           start == SanitizeBucketPart(whole)
           raw == RawName(whole, suffix, random)
           n == Len(SanitizeBucketPart(prefix))
<1>1. operation # <<>> /\ suffix # <<>>
  <2>1. Len(<<>>) = 0
    OBVIOUS
  <2> QED
    BY <2>1
<1>2. IsSanitized(start) /\ start # <<>> /\ Len(start) <= n + 1 + Len(operation)
  BY <1>1, IsolatedPrefixFits
<1>3. IsSanitized(random) /\ random # <<>> /\ Len(random) = RandomLength
  <2> DEFINE m == RandomLength
  <2>1. m \in Nat \ {0}
    BY DEF RandomLength
  <2> HIDE DEF m
  <2>2. random \in [1 .. m -> AlphaNumeric]
    BY DEF m
  <2>3. IsSanitized(random) /\ random # <<>> /\ Len(random) = m
    BY <2>1, <2>2, RandomIsSanitized
  <2> QED
    BY <2>3 DEF m
<1>4. raw = Joined(start, suffix, random)
  <2>1. SanitizeBucketPart(suffix) = suffix
    BY SanitizedStays
  <2> HIDE DEF whole
  <2> QED
    BY <2>1 DEF RawName, Joined
<1> HIDE DEF raw, start
<1>5. JoinedShape(Joined(start, suffix, random), start, suffix, random)
  BY <1>1, <1>2, <1>3, JoinedIsSanitized
<1>6. /\ IsSanitized(raw) /\ Len(start) \in Nat \ {0} /\ Len(suffix) \in Nat \ {0}
      /\ Len(raw) = Len(start) + 1 + Len(suffix) + 1 + Len(random)
  <2>1. JoinedShape(raw, start, suffix, random)
    BY <1>4, <1>5
  <2> QED
    BY <2>1 DEF JoinedShape
<1>7. n \in Nat
  <2>1. IsSanitized(SanitizeBucketPart(prefix))
    BY SanitizeIsSanitized
  <2> QED
    BY <2>1 DEF IsSanitized, HasSingleDashes
<1> HIDE DEF n
<1> DEFINE l == Len(start)
           o == Len(operation)
           u == Len(suffix)
<1>8. l \in Nat \ {0} /\ u \in Nat \ {0} /\ o \in 1 .. 20 /\ u \in 1 .. 13 /\ Len(raw) = l + 1 + u + 1 + 8
      /\ l <= n + 1 + o
  BY <1>2, <1>3, <1>6 DEF LongestOperation, LongestSuffix, RandomLength
<1> HIDE DEF l, u, o
<1>9. Len(raw) >= 12 /\ (n <= 19 => Len(raw) <= 63)
  BY <1>7, <1>8
<1>10. WholePrefixLength = 19 /\ MaxNameLength = 63
  BY DEF WholePrefixLength, MaxNameLength, LongestOperation, LongestSuffix, RandomLength
<1> QED
  BY <1>1, <1>2, <1>3, <1>4, <1>6, <1>9, <1>10 DEF raw, start, n

\* What a bucket of a run is called.
Name(tool, prefix, suffixes, bucket) ==
  BucketName(tool, prefix, suffixes[bucket[1]], bucket[2])

\* The names of one run are names, and differ from each other as long as none is
\* cut (NamesAreSound).
LEMMA SoundNames ==
  ASSUME NEW C, NEW prefix \in Seq(C),
         NEW operation, IsSanitized(operation), Len(operation) \in 1 .. LongestOperation,
         NEW suffixes, IsInjective(suffixes),
         \A s \in DOMAIN suffixes :
           IsSanitized(suffixes[s]) /\ Len(suffixes[s]) \in 1 .. LongestSuffix,
         NEW randoms, randoms \subseteq [1 .. RandomLength -> AlphaNumeric],
         NEW tool
  PROVE  LET whole == IsolatedPrefix(prefix, operation)
             buckets == (DOMAIN suffixes) \X randoms
         IN  /\ \A b \in buckets : IsBucketName(Name(tool, whole, suffixes, b))
             /\ Len(SanitizeBucketPart(prefix)) <= WholePrefixLength =>
                  \A b, c \in buckets :
                    Name(tool, whole, suffixes, b) = Name(tool, whole, suffixes, c) => b = c
<1> DEFINE whole == IsolatedPrefix(prefix, operation)
           start == SanitizeBucketPart(whole)
           buckets == (DOMAIN suffixes) \X randoms
           raw(b) == RawName(whole, suffixes[b[1]], b[2])
           short == Len(SanitizeBucketPart(prefix)) <= WholePrefixLength
<1>1. ASSUME NEW b \in buckets
      PROVE  /\ IsSanitized(start) /\ start # <<>>
             /\ IsSanitized(suffixes[b[1]]) /\ suffixes[b[1]] # <<>>
             /\ IsSanitized(b[2]) /\ b[2] # <<>> /\ Len(b[2]) = RandomLength
             /\ raw(b) = Joined(start, suffixes[b[1]], b[2])
             /\ IsBucketName(Name(tool, whole, suffixes, b))
             /\ short => Name(tool, whole, suffixes, b) = raw(b)
  <2> DEFINE suffix == suffixes[b[1]]
             random == b[2]
  <2>1. IsSanitized(suffix) /\ Len(suffix) \in 1 .. LongestSuffix
    OBVIOUS
  <2>2. random \in [1 .. RandomLength -> AlphaNumeric]
    OBVIOUS
  <2> HIDE DEF suffix, random
  <2>3. /\ IsSanitized(start) /\ start # <<>>
        /\ RawName(whole, suffix, random) = Joined(start, suffix, random)
        /\ IsSanitized(RawName(whole, suffix, random))
        /\ Len(RawName(whole, suffix, random)) >= 12
        /\ suffix # <<>> /\ random # <<>> /\ IsSanitized(random)
        /\ Len(random) = RandomLength
        /\ short => Len(RawName(whole, suffix, random)) <= MaxNameLength
    BY <2>1, <2>2, RawNames
  <2> HIDE DEF whole, start, short
  <2>4. /\ IsBucketName(BucketName(tool, whole, suffix, random))
        /\ short => BucketName(tool, whole, suffix, random) = RawName(whole, suffix, random)
    BY <2>3, NamesAreBucketNames
  <2> QED
    BY <2>1, <2>3, <2>4 DEF suffix, random, Name
<1>2. ASSUME short, NEW b \in buckets, NEW c \in buckets,
             Name(tool, whole, suffixes, b) = Name(tool, whole, suffixes, c)
      PROVE  b = c
  <2> HIDE DEF whole, start, short, raw
  <2>1. Joined(start, suffixes[b[1]], b[2]) = Joined(start, suffixes[c[1]], c[2])
    BY <1>1, <1>2
  <2>2. suffixes[b[1]] = suffixes[c[1]] /\ b[2] = c[2]
    <3> DEFINE s == suffixes[b[1]]
               t == suffixes[c[1]]
               p == b[2]
               q == c[2]
    <3>1. /\ IsSanitized(start) /\ start # <<>>
          /\ IsSanitized(s) /\ s # <<>> /\ IsSanitized(t) /\ t # <<>>
          /\ IsSanitized(p) /\ p # <<>> /\ IsSanitized(q) /\ q # <<>>
          /\ Len(p) = Len(q)
      BY <1>1
    <3>2. Joined(start, s, p) = Joined(start, t, q)
      BY <2>1
    <3> HIDE DEF s, t, p, q, buckets
    <3>3. s = t /\ p = q
      BY <3>1, <3>2, JoinedNamesDiffer
    <3> QED
      BY <3>3 DEF s, t, p, q
  <2>3. b[1] \in DOMAIN suffixes /\ c[1] \in DOMAIN suffixes
    OBVIOUS
  <2>4. b[1] = c[1]
    BY <2>2, <2>3 DEF IsInjective
  <2> QED
    BY <2>2, <2>4
<1> QED
  BY <1>1, <1>2
-----------------------------------------------------------------------------
(***************************************************************************)
(* The parsers and a command line made of pieces                           *)
(***************************************************************************)

\* The parsers' states after k tokens.
GoState(args, k) ==
  LET s[i \in 0 .. Len(args)] ==
        IF i = 0 THEN [given |-> NothingGiven, flag |-> Absent, state |-> "flags"]
                 ELSE GoToken(s[i - 1], args[i])
  IN  s[k]

TsState(args, k) ==
  LET s[i \in 0 .. Len(args)] ==
        IF i = 0 THEN [given |-> NothingGiven, flag |-> Absent] ELSE TsToken(s[i - 1], args[i])
  IN  s[k]

\* What an option can be in a parser.
Value(T) == T \union {Absent, Bare}

\* The states of the parsers.
GoParser(T) == [given : [Flags -> Value(T)], flag : Flags \union {Absent},
                state : {"flags", "rest", "error"}]

TsParser(T) == [given : UNION {[D -> Value(T)] : D \in SUBSET (Value(T) \union Flags)},
                flag : Value(T)]

\* An option given is one of the options.
LEMMA GiveType ==
  ASSUME NEW D, NEW V, NEW given \in [D -> V], NEW flag, NEW value \in V
  PROVE  /\ Give(given, flag, value) \in [D \union {flag} -> V]
         /\ flag \in D => Give(given, flag, value) = [given EXCEPT ![flag] = value]
<1>1. Give(given, flag, value) \in [D \union {flag} -> V]
  BY DEF Give
<1>2. ASSUME flag \in D PROVE Give(given, flag, value) = [given EXCEPT ![flag] = value]
  BY <1>2 DEF Give
<1> QED
  BY <1>1, <1>2

\* The cases of GoToken one by one.
LEMMA GoTokenCases ==
  ASSUME NEW s, NEW token
  PROVE  /\ s.state # "flags" => GoToken(s, token) = s
         /\ s.state = "flags" /\ s.flag # Absent => GoToken(s, token) =
              IF s.flag \in Counts /\ GoNumber(Characters(token)) = NotANumber
              THEN [s EXCEPT !.state = "error"]
              ELSE [given |-> Give(s.given, s.flag, token), flag |-> Absent, state |-> "flags"]
         /\ s.state = "flags" /\ s.flag = Absent /\ token \in Switches => GoToken(s, token) =
              [s EXCEPT !.given = Give(s.given, token, Bare)]
         /\ s.state = "flags" /\ s.flag = Absent /\ token \in Flags \ Switches =>
              GoToken(s, token) = [s EXCEPT !.flag = token]
         /\ s.state = "flags" /\ s.flag = Absent /\ token \notin Flags \union Switches =>
              \E state \in {"rest", "error"} : GoToken(s, token) = [s EXCEPT !.state = state]
<1>1. s.state # "flags" => GoToken(s, token) = s
  BY Zenon DEF GoToken
<1>2. s.state = "flags" /\ s.flag # Absent => GoToken(s, token) =
        IF s.flag \in Counts /\ GoNumber(Characters(token)) = NotANumber
        THEN [s EXCEPT !.state = "error"]
        ELSE [given |-> Give(s.given, s.flag, token), flag |-> Absent, state |-> "flags"]
  BY Zenon DEF GoToken
<1>3. s.state = "flags" /\ s.flag = Absent /\ token \in Switches => GoToken(s, token) =
        [s EXCEPT !.given = Give(s.given, token, Bare)]
  BY Zenon DEF GoToken
<1>4. s.state = "flags" /\ s.flag = Absent /\ token \in Flags \ Switches =>
        GoToken(s, token) = [s EXCEPT !.flag = token]
  BY Zenon DEF GoToken
<1>5. s.state = "flags" /\ s.flag = Absent /\ token \notin Flags \union Switches =>
        \E state \in {"rest", "error"} : GoToken(s, token) = [s EXCEPT !.state = state]
  BY Zenon DEF GoToken
<1> QED
  BY <1>1, <1>2, <1>3, <1>4, <1>5

\* A token leaves Go's parser in one of its states.
LEMMA GoTokenType ==
  ASSUME NEW T, NEW s \in GoParser(T), NEW token \in T
  PROVE  GoToken(s, token) \in GoParser(T)
<1> DEFINE V == Value(T)
<1>1. s \in [given : [Flags -> V], flag : Flags \union {Absent}, state : {"flags", "rest", "error"}]
  BY DEF GoParser
<1>2. token \in V /\ Bare \in V
  BY DEF Value
<1> HIDE DEF V
<1>3. ASSUME NEW f \in Flags, NEW v \in V PROVE Give(s.given, f, v) \in [Flags -> V]
  <2>1. Flags \union {f} = Flags /\ s.given \in [Flags -> V]
    BY <1>1
  <2>2. Give(s.given, f, v) \in [Flags \union {f} -> V]
    BY <2>1, GiveType
  <2> QED
    BY <2>1, <2>2
<1>4. Switches \subseteq Flags
  BY DEF Switches, Flags
<1> DEFINE S == [given : [Flags -> V], flag : Flags \union {Absent},
                 state : {"flags", "rest", "error"}]
<1>5. CASE s.state # "flags"
  BY <1>1, <1>5, GoTokenCases DEF GoParser, V
<1>6. CASE s.state = "flags" /\ s.flag # Absent
  <2>1. Give(s.given, s.flag, token) \in [Flags -> V]
    BY <1>1, <1>2, <1>3, <1>6
  <2>2. [given |-> Give(s.given, s.flag, token), flag |-> Absent, state |-> "flags"] \in S
    BY <1>1, <2>1
  <2>3. [s EXCEPT !.state = "error"] \in S
    BY <1>1
  <2> QED
    BY <2>2, <2>3, <1>6, GoTokenCases DEF GoParser, V
<1>7. CASE s.state = "flags" /\ s.flag = Absent /\ token \in Switches
  <2>1. Give(s.given, token, Bare) \in [Flags -> V]
    BY <1>2, <1>3, <1>4, <1>7
  <2>2. [s EXCEPT !.given = Give(s.given, token, Bare)] \in S
    BY <1>1, <2>1
  <2> QED
    BY <2>2, <1>7, GoTokenCases DEF GoParser, V
<1>8. CASE s.state = "flags" /\ s.flag = Absent /\ token \in Flags \ Switches
  <2>1. [s EXCEPT !.flag = token] \in S
    BY <1>1, <1>8
  <2> QED
    BY <2>1, <1>8, GoTokenCases DEF GoParser, V
<1>9. CASE s.state = "flags" /\ s.flag = Absent /\ token \notin Flags \union Switches
  <2>1. PICK state \in {"rest", "error"} : GoToken(s, token) = [s EXCEPT !.state = state]
    BY <1>9, GoTokenCases
  <2>2. [s EXCEPT !.state = state] \in S
    BY <1>1
  <2> QED
    BY <2>1, <2>2 DEF GoParser, V
<1> QED
  BY <1>5, <1>6, <1>7, <1>8, <1>9

\* flag.FlagSet.Parse takes the tokens one after another.
LEMMA GoSteps ==
  ASSUME NEW T, NEW args \in Seq(T)
  PROVE  /\ GoState(args, 0) = [given |-> NothingGiven, flag |-> Absent, state |-> "flags"]
         /\ \A k \in 1 .. Len(args) : GoState(args, k) = GoToken(GoState(args, k - 1), args[k])
         /\ GoParse(args) = GoState(args, Len(args))
<1> DEFINE n == Len(args)
           S == GoParser(T)
           a == [given |-> NothingGiven, flag |-> Absent, state |-> "flags"]
           next == [k \in 1 .. n |-> [s \in S |-> GoToken(s, args[k])]]
           f[k \in 0 .. n] == IF k = 0 THEN a ELSE GoToken(f[k - 1], args[k])
<1>1. n \in Nat /\ \A k \in 1 .. n : args[k] \in T
  OBVIOUS
<1>2. next \in [1 .. n -> [S -> S]]
  BY <1>1, GoTokenType
<1>3. a \in S
  BY DEF GoParser, NothingGiven, Value
<1>4. PICK g : IsRecursion(g, n, S, a, next)
  <2> HIDE DEF next, n, f, S, a
  <2> QED
    BY <1>1, <1>2, <1>3, Recursion
<1>5. g = [k \in 0 .. n |-> IF k = 0 THEN a ELSE GoToken(g[k - 1], args[k])]
  <2>1. ASSUME NEW k \in 1 .. n PROVE g[k] = GoToken(g[k - 1], args[k])
    <3>1. g[k] = next[k][g[k - 1]] /\ g \in [0 .. n -> S]
      <4> HIDE DEF n, next, S, a
      <4> QED
        BY <1>4 DEF IsRecursion
    <3>2. k - 1 \in 0 .. n
      BY <1>1
    <3> HIDE DEF n, S, a
    <3> QED
      BY <3>1, <3>2
  <2>2. \A k \in 0 .. n : k # 0 => k \in 1 .. n
    BY <1>1
  <2> HIDE DEF n, next, S, a
  <2> QED
    BY <1>4, <2>1, <2>2 DEF IsRecursion
<1>6. f = [k \in 0 .. n |-> IF k = 0 THEN a ELSE GoToken(f[k - 1], args[k])]
  <2> HIDE DEF n, next, a
  <2> QED
    BY <1>5
<1>7. GoParse(args) = f[n]
  BY DEF GoParse
<1>8. \A k : GoState(args, k) = f[k]
  BY DEF GoState
<1> HIDE DEF f, next, a
<1>9. f[0] = a
  BY <1>1, <1>6
<1>10. \A k \in 1 .. n : f[k] = GoToken(f[k - 1], args[k])
  <2>1. \A k \in 1 .. n : k \in 0 .. n /\ k # 0
    BY <1>1
  <2> HIDE DEF n
  <2> QED
    BY <1>6, <2>1
<1> QED
  BY <1>7, <1>8, <1>9, <1>10 DEF a

\* The cases of TsToken one by one.
LEMMA TsTokenCases ==
  ASSUME NEW s, NEW token
  PROVE  /\ StartsWith(token, "--") => TsToken(s, token) =
              [given |-> Give(s.given, token, Bare), flag |-> token]
         /\ ~StartsWith(token, "--") /\ token # "" /\ s.flag # Absent => TsToken(s, token) =
              [given |-> Give(s.given, s.flag, token), flag |-> Absent]
         /\ ~StartsWith(token, "--") /\ (token = "" \/ s.flag = Absent) =>
              TsToken(s, token) = [s EXCEPT !.flag = Absent]
<1>1. StartsWith(token, "--") => TsToken(s, token) =
        [given |-> Give(s.given, token, Bare), flag |-> token]
  BY Zenon DEF TsToken
<1>2. ~StartsWith(token, "--") /\ token # "" /\ s.flag # Absent => TsToken(s, token) =
        [given |-> Give(s.given, s.flag, token), flag |-> Absent]
  BY Zenon DEF TsToken
<1>3. ~StartsWith(token, "--") /\ (token = "" \/ s.flag = Absent) =>
        TsToken(s, token) = [s EXCEPT !.flag = Absent]
  BY Zenon DEF TsToken
<1> QED
  BY <1>1, <1>2, <1>3

\* A token leaves TypeScript's parser in one of its states.
LEMMA TsTokenType ==
  ASSUME NEW T, NEW s \in TsParser(T), NEW token \in T
  PROVE  TsToken(s, token) \in TsParser(T)
<1> DEFINE V == Value(T)
           Maps == UNION {[D -> V] : D \in SUBSET (V \union Flags)}
<1>1. s \in [given : Maps, flag : V]
  BY DEF TsParser
<1>2. token \in V /\ Bare \in V /\ Absent \in V
  BY DEF Value
<1> HIDE DEF V
<1>3. ASSUME NEW f \in V, NEW v \in V PROVE Give(s.given, f, v) \in Maps
  <2>1. PICK D \in SUBSET (V \union Flags) : s.given \in [D -> V]
    BY <1>1
  <2>2. D \union {f} \in SUBSET (V \union Flags)
    OBVIOUS
  <2>3. Give(s.given, f, v) \in [D \union {f} -> V]
    BY <2>1, GiveType
  <2> QED
    BY <2>2, <2>3
<1> HIDE DEF Maps
<1> DEFINE S == [given : Maps, flag : V]
<1>4. CASE StartsWith(token, "--")
  <2>1. Give(s.given, token, Bare) \in Maps
    BY <1>2, <1>3
  <2>2. [given |-> Give(s.given, token, Bare), flag |-> token] \in S
    BY <1>1, <1>2, <2>1
  <2> QED
    BY <2>2, <1>4, TsTokenCases DEF TsParser, V, Maps
<1>5. CASE ~StartsWith(token, "--") /\ token # "" /\ s.flag # Absent
  <2>1. Give(s.given, s.flag, token) \in Maps
    BY <1>1, <1>2, <1>3
  <2>2. [given |-> Give(s.given, s.flag, token), flag |-> Absent] \in S
    BY <1>1, <1>2, <2>1
  <2> QED
    BY <2>2, <1>5, TsTokenCases DEF TsParser, V, Maps
<1>6. CASE ~StartsWith(token, "--") /\ (token = "" \/ s.flag = Absent)
  <2>1. [s EXCEPT !.flag = Absent] \in S
    BY <1>1, <1>2
  <2> QED
    BY <2>1, <1>6, TsTokenCases DEF TsParser, V, Maps
<1> QED
  BY <1>4, <1>5, <1>6

\* parseArgs takes the tokens one after another.
LEMMA TsSteps ==
  ASSUME NEW T, NEW args \in Seq(T)
  PROVE  /\ TsState(args, 0) = [given |-> NothingGiven, flag |-> Absent]
         /\ \A k \in 1 .. Len(args) : TsState(args, k) = TsToken(TsState(args, k - 1), args[k])
         /\ TsParse(args) = TsState(args, Len(args))
<1> DEFINE n == Len(args)
           S == TsParser(T)
           a == [given |-> NothingGiven, flag |-> Absent]
           next == [k \in 1 .. n |-> [s \in S |-> TsToken(s, args[k])]]
           f[k \in 0 .. n] == IF k = 0 THEN a ELSE TsToken(f[k - 1], args[k])
<1>1. n \in Nat /\ \A k \in 1 .. n : args[k] \in T
  OBVIOUS
<1>2. next \in [1 .. n -> [S -> S]]
  BY <1>1, TsTokenType
<1>3. a \in S
  <2>1. NothingGiven \in [Flags -> Value(T)] /\ Flags \in SUBSET (Value(T) \union Flags)
        /\ Absent \in Value(T)
    BY DEF NothingGiven, Value
  <2> HIDE DEF f, next
  <2> QED
    BY <2>1 DEF TsParser
<1>4. PICK g : IsRecursion(g, n, S, a, next)
  <2> HIDE DEF next, n, f, S, a
  <2> QED
    BY <1>1, <1>2, <1>3, Recursion
<1>5. g = [k \in 0 .. n |-> IF k = 0 THEN a ELSE TsToken(g[k - 1], args[k])]
  <2>1. ASSUME NEW k \in 1 .. n PROVE g[k] = TsToken(g[k - 1], args[k])
    <3>1. g[k] = next[k][g[k - 1]] /\ g \in [0 .. n -> S]
      <4> HIDE DEF n, next, S, a
      <4> QED
        BY <1>4 DEF IsRecursion
    <3>2. k - 1 \in 0 .. n
      BY <1>1
    <3> HIDE DEF n, S, a
    <3> QED
      BY <3>1, <3>2
  <2>2. \A k \in 0 .. n : k # 0 => k \in 1 .. n
    BY <1>1
  <2> HIDE DEF n, next, S, a
  <2> QED
    BY <1>4, <2>1, <2>2 DEF IsRecursion
<1>6. f = [k \in 0 .. n |-> IF k = 0 THEN a ELSE TsToken(f[k - 1], args[k])]
  <2> HIDE DEF n, next, a
  <2> QED
    BY <1>5
<1>7. TsParse(args) = f[n]
  BY DEF TsParse
<1>8. \A k : TsState(args, k) = f[k]
  BY DEF TsState
<1> HIDE DEF f, next, a
<1>9. f[0] = a
  BY <1>1, <1>6
<1>10. \A k \in 1 .. n : f[k] = TsToken(f[k - 1], args[k])
  <2>1. \A k \in 1 .. n : k \in 0 .. n /\ k # 0
    BY <1>1
  <2> HIDE DEF n
  <2> QED
    BY <1>6, <2>1
<1> QED
  BY <1>7, <1>8, <1>9, <1>10 DEF a

\* flat[i] is the first i of the pieces in a row.
Flattens(flat, pieces, T) ==
  /\ flat \in [0 .. Len(pieces) -> Seq(T)]
  /\ flat[0] = <<>>
  /\ \A i \in 1 .. Len(pieces) : flat[i] = flat[i - 1] \o pieces[i]
  /\ FlattenSeq(pieces) = flat[Len(pieces)]

\* A command line is made of its pieces one after another.
LEMMA FlattenSteps ==
  ASSUME NEW T, NEW pieces \in Seq(Seq(T))
  PROVE  \E flat : Flattens(flat, pieces, T)
<1> DEFINE n == Len(pieces)
           S == Seq(T)
           next == [i \in 1 .. n |-> [s \in S |-> s \o pieces[i]]]
           f[i \in 1 .. n] == IF i = 1 THEN pieces[i] ELSE f[i - 1] \o pieces[i]
<1>1. n \in Nat /\ \A i \in 1 .. n : pieces[i] \in S
  OBVIOUS
<1>2. next \in [1 .. n -> [S -> S]]
  BY <1>1
<1>3. <<>> \in S
  OBVIOUS
<1>4. PICK g : IsRecursion(g, n, S, <<>>, next)
  <2> HIDE DEF next, n, f, S
  <2> QED
    BY <1>1, <1>2, <1>3, Recursion
<1>5. /\ g \in [0 .. n -> S] /\ g[0] = <<>>
      /\ \A i \in 1 .. n : g[i] = g[i - 1] \o pieces[i]
  <2>1. ASSUME NEW i \in 1 .. n PROVE g[i] = g[i - 1] \o pieces[i]
    <3>1. g[i] = next[i][g[i - 1]] /\ g \in [0 .. n -> S]
      <4> HIDE DEF n, next, S
      <4> QED
        BY <1>4 DEF IsRecursion
    <3>2. i - 1 \in 0 .. n
      BY <1>1
    <3> HIDE DEF n, S
    <3> QED
      BY <3>1, <3>2
  <2> HIDE DEF n, next, S, f
  <2> QED
    BY <1>4, <2>1 DEF IsRecursion
<1>6. CASE n = 0
  <2>1. pieces = <<>> /\ FlattenSeq(pieces) = pieces
    BY <1>6 DEF FlattenSeq
  <2> HIDE DEF n, next, f
  <2>2. g[n] = <<>>
    BY <1>5, <1>6
  <2> QED
    BY <1>5, <2>1, <2>2 DEF Flattens, n
<1>7. CASE n # 0
  <2> DEFINE h == [i \in 1 .. n |-> g[i]]
  <2>1. h = [i \in 1 .. n |-> IF i = 1 THEN pieces[i] ELSE h[i - 1] \o pieces[i]]
    <3> SUFFICES ASSUME NEW i \in 1 .. n
                 PROVE  g[i] = IF i = 1 THEN pieces[i] ELSE h[i - 1] \o pieces[i]
      OBVIOUS
    <3>1. CASE i = 1
      <4>1. g[i] = g[0] \o pieces[i] /\ g[0] = <<>>
        <5>1. g[i] = g[i - 1] \o pieces[i]
          BY <1>5
        <5>2. i - 1 = 0
          BY <3>1
        <5> QED
          BY <1>5, <5>1, <5>2
      <4>2. pieces[i] \in Seq(T)
        BY <1>1
      <4>3. <<>> \o pieces[i] = pieces[i]
        BY <4>2
      <4> QED
        BY <3>1, <4>1, <4>3
    <3>2. CASE i # 1
      <4>1. i - 1 \in 1 .. n
        BY <1>1, <3>2
      <4> HIDE DEF n, S
      <4> QED
        BY <1>5, <3>2, <4>1
    <3> QED
      BY <3>1, <3>2
  <2>2. f = [i \in 1 .. n |-> IF i = 1 THEN pieces[i] ELSE f[i - 1] \o pieces[i]]
    <3> HIDE DEF n, h
    <3> QED
      BY <2>1
  <2>3. FlattenSeq(pieces) = f[n]
    BY <1>7 DEF FlattenSeq
  <2> HIDE DEF f, next, h
  <2> DEFINE D == {i \in 0 .. n : i = 0 \/ f[i] = g[i]}
  <2>4. 0 \in D
    BY <1>1
  <2>5. ASSUME NEW i \in 1 .. n, i - 1 \in D PROVE i \in D
    <3>1. i \in 0 .. n
      BY <1>1
    <3>2. CASE i = 1
      <4>1. g[i] = pieces[i]
        <5>1. g[i] = g[0] \o pieces[i] /\ g[0] = <<>>
          <6>1. g[i] = g[i - 1] \o pieces[i]
            BY <1>5
          <6>2. i - 1 = 0
            BY <3>2
          <6> QED
            BY <1>5, <6>1, <6>2
        <5>2. pieces[i] \in Seq(T)
          BY <1>1
        <5>3. <<>> \o pieces[i] = pieces[i]
          BY <5>2
        <5> QED
          BY <5>1, <5>3
      <4>2. f[i] = pieces[i]
        <5> HIDE DEF n
        <5> QED
          BY <2>2, <3>2
      <4> QED
        BY <3>1, <4>1, <4>2
    <3>3. CASE i # 1
      <4>1. i - 1 # 0 /\ f[i - 1] = g[i - 1]
        BY <2>5, <3>3
      <4>2. f[i] = f[i - 1] \o pieces[i]
        <5> HIDE DEF n
        <5> QED
          BY <2>2, <3>3
      <4>3. g[i] = g[i - 1] \o pieces[i]
        BY <1>5
      <4> QED
        BY <3>1, <4>1, <4>2, <4>3
    <3> QED
      BY <3>2, <3>3
  <2>6. n \in D
    <3>1. n \in 0 .. n
      BY <1>1
    <3> HIDE DEF D, n
    <3> QED
      BY <1>1, <2>4, <2>5, <3>1, InductionUpTo
  <2>7. FlattenSeq(pieces) = g[n]
    BY <1>7, <2>3, <2>6
  <2> HIDE DEF n
  <2> QED
    BY <1>5, <2>7 DEF Flattens, n
<1> QED
  BY <1>6, <1>7

\* u begins with s.
Extends(u, s) == Len(s) <= Len(u) /\ \A j \in 1 .. Len(s) : u[j] = s[j]

\* A row to which something is added begins as it did.
LEMMA ConcatExtends ==
  ASSUME NEW T, NEW s \in Seq(T), NEW t \in Seq(T)
  PROVE  /\ Len(s \o t) = Len(s) + Len(t) /\ Len(s) \in Nat /\ Len(t) \in Nat
         /\ Extends(s \o t, s)
         /\ \A j \in 1 .. Len(t) : (s \o t)[Len(s) + j] = t[j]
         /\ \A a \in Seq(T) : Extends(s, a) => Extends(s \o t, a)
<1> DEFINE u == s \o t
<1>1. /\ Len(u) = Len(s) + Len(t) /\ Len(s) \in Nat /\ Len(t) \in Nat
      /\ \A j \in 1 .. Len(s) : u[j] = s[j]
      /\ \A j \in 1 .. Len(t) : u[Len(s) + j] = t[j]
  OBVIOUS
<1> HIDE DEF u
<1>2. Extends(u, s)
  BY <1>1 DEF Extends
<1>3. ASSUME NEW a \in Seq(T), Extends(s, a) PROVE Extends(u, a)
  <2>1. Len(a) \in Nat /\ Len(a) <= Len(s)
    BY <1>3 DEF Extends
  <2>2. \A j \in 1 .. Len(a) : j \in 1 .. Len(s)
    BY <1>1, <2>1
  <2> QED
    BY <1>1, <1>3, <2>1, <2>2 DEF Extends
<1> QED
  BY <1>1, <1>2, <1>3 DEF u

\* It then begins with whatever it began with before.
LEMMA ExtendsFurther ==
  ASSUME NEW T, NEW a \in Seq(T), NEW s \in Seq(T), NEW t \in Seq(T), Extends(s, a)
  PROVE  Extends(s \o t, a)
BY ConcatExtends

\* The i-th piece, and where it stands.
InPlace(flat, pieces, i) ==
  LET args == FlattenSeq(pieces)
      start == Len(flat[i - 1])
  IN  /\ start \in Nat /\ Len(flat[i]) = start + Len(pieces[i])
      /\ Len(flat[i]) <= Len(args)
      /\ \A j \in 1 .. Len(pieces[i]) : args[start + j] = pieces[i][j]

\* Where the pieces stand in the row of all of them.
LEMMA PiecesInPlace ==
  ASSUME NEW T, NEW pieces \in Seq(Seq(T)), NEW flat, Flattens(flat, pieces, T),
         NEW i \in 1 .. Len(pieces)
  PROVE  InPlace(flat, pieces, i)
<1> DEFINE n == Len(pieces)
           args == FlattenSeq(pieces)
           before == flat[i - 1]
           piece == pieces[i]
<1>1. n \in Nat /\ i - 1 \in 0 .. n /\ i \in 0 .. n /\ n \in 0 .. n
  OBVIOUS
<1>2. \A k \in 1 .. n : pieces[k] \in Seq(T) /\ k \in 0 .. n /\ k - 1 \in 0 .. n
  OBVIOUS
<1> HIDE DEF n
<1>3. /\ \A k \in 0 .. n : flat[k] \in Seq(T)
      /\ \A k \in 1 .. n : flat[k] = flat[k - 1] \o pieces[k]
      /\ args = flat[n]
  BY DEF Flattens, n
<1>4. i \in 1 .. n
  BY DEF n
<1>5. before \in Seq(T) /\ piece \in Seq(T) /\ flat[i] = before \o piece /\ flat[i] \in Seq(T)
  BY <1>1, <1>2, <1>3, <1>4
<1> HIDE DEF before, piece, args
<1>6. /\ Len(flat[i]) = Len(before) + Len(piece) /\ Len(before) \in Nat /\ Len(piece) \in Nat
      /\ \A j \in 1 .. Len(piece) : flat[i][Len(before) + j] = piece[j]
  BY <1>5, ConcatExtends
<1> DEFINE D == {k \in 0 .. n : k >= i => Extends(flat[k], flat[i])}
<1>7. 0 \in D
  <2>1. 0 \in 0 .. n /\ ~(0 >= i)
    BY <1>1
  <2> QED
    BY <2>1
<1>8. ASSUME NEW k \in 1 .. n, k - 1 \in D PROVE k \in D
  <2>1. k \in 0 .. n /\ k \in Nat /\ i \in Nat
    BY <1>1
  <2>2. CASE k < i
    <3>1. ~(k >= i)
      BY <2>1, <2>2
    <3> QED
      BY <2>1, <3>1
  <2>3. CASE k = i
    <3>1. Len(flat[i]) \in Nat
      BY <1>5
    <3>2. Extends(flat[i], flat[i])
      BY <3>1 DEF Extends
    <3> QED
      BY <2>1, <2>3, <3>2
  <2>4. CASE k > i
    <3>1. k - 1 >= i
      BY <2>1, <2>4
    <3>2. Extends(flat[k - 1], flat[i])
      BY <1>8, <3>1
    <3>3. flat[k] = flat[k - 1] \o pieces[k] /\ flat[k - 1] \in Seq(T) /\ pieces[k] \in Seq(T)
      BY <1>2, <1>3
    <3>4. Extends(flat[k], flat[i])
      <4> DEFINE a == flat[i]
                 u == flat[k - 1]
                 t == pieces[k]
      <4>1. a \in Seq(T) /\ u \in Seq(T) /\ t \in Seq(T) /\ Extends(u, a)
        BY <1>5, <3>2, <3>3
      <4> HIDE DEF a, u, t
      <4>2. Extends(u \o t, a)
        BY <4>1, ExtendsFurther
      <4> QED
        BY <3>3, <4>2 DEF a, u, t
    <3> QED
      BY <2>1, <3>4
  <2> QED
    BY <2>1, <2>2, <2>3, <2>4
<1>9. n \in D
  <2> HIDE DEF D
  <2> QED
    BY <1>1, <1>7, <1>8, InductionUpTo
<1>10. Extends(args, flat[i])
  <2>1. n >= i
    BY <1>1, <1>4
  <2> QED
    BY <1>3, <1>9, <2>1
<1>11. \A j \in 1 .. Len(piece) : Len(before) + j \in 1 .. Len(flat[i])
  BY <1>6
<1> HIDE DEF D
<1> QED
  BY <1>6, <1>10, <1>11 DEF args, before, piece, Extends, InPlace
-----------------------------------------------------------------------------
(***************************************************************************)
(* Numerals                                                                *)
(***************************************************************************)

\* What either tool finds in a text is a number.
LEMMA NumbersAreInts ==
  ASSUME NEW text
  PROVE  GoNumber(text) \in Int /\ TsNumber(text) \in Int /\ NotANumber \in Int
<1>1. MaxInt \in Nat /\ MaxSafe \in Nat /\ NotANumber \in Int
  BY RangesAssumption DEF NotANumber
<1>2. GoNumber(text) \in Int
  <2>1. \E value : \/ value \in 0 .. MaxInt /\ GoNumber(text) = value
                   \/ value \in 0 .. MaxInt + 1 /\ GoNumber(text) = -value
                   \/ GoNumber(text) = NotANumber
    BY Zenon DEF GoNumber
  <2> QED
    BY <1>1, <2>1
<1>3. TsNumber(text) \in Int
  <2>1. \A value : Rounded(value) \in Int
    BY <1>1 DEF Rounded
  <2>2. \E value : TsNumber(text) \in {NotANumber, Rounded(value), -Rounded(value)}
    BY Zenon DEF TsNumber
  <2> QED
    BY <1>1, <2>1, <2>2
<1> QED
  BY <1>1, <1>2, <1>3

\* A count that is not given is the default one.
LEMMA CountCases ==
  ASSUME NEW text, NEW default
  PROVE  /\ text = Absent => GoCount(text, default) = default /\ TsCount(text, default) = default
         /\ text # Absent => GoCount(text, default) = GoNumber(Characters(text))
         /\ text = Bare => TsCount(text, default) = NotANumber
         /\ text \notin {Absent, Bare} => TsCount(text, default) = TsNumber(Characters(text))
<1>1. Absent # Bare
  BY DEF Absent, Bare
<1>2. text = Absent => TsCount(text, default) = default
  BY <1>1, Zenon DEF TsCount
<1>3. text = Bare => TsCount(text, default) = NotANumber
  BY <1>1, Zenon DEF TsCount
<1>4. text \notin {Absent, Bare} => TsCount(text, default) = TsNumber(Characters(text))
  BY Zenon DEF TsCount
<1>5. /\ text = Absent => GoCount(text, default) = default
      /\ text # Absent => GoCount(text, default) = GoNumber(Characters(text))
  BY DEF GoCount
<1> QED
  BY <1>2, <1>3, <1>4, <1>5

\* Counts are numbers.
LEMMA CountsAreInts ==
  ASSUME NEW text, NEW default \in Int
  PROVE  GoCount(text, default) \in Int /\ TsCount(text, default) \in Int
BY CountCases, NumbersAreInts

\* The decimal digits.
LEMMA DecimalDigits ==
  ASSUME NEW c \in Decimal
  PROVE  /\ DigitOf(c) \in 0 .. 9
         /\ c \notin Signs /\ c \notin Blank /\ c # "_"
         /\ c = "0" => DigitOf(c) = 0
<1> DEFINE places == {i \in 1 .. 16 : Digits[i] = LowerCase(c)}
<1>1. Decimal = {"0", "1", "2", "3", "4", "5", "6", "7", "8", "9"}
  <2>1. \A i \in 1 .. 10 : i \in {1, 2, 3, 4, 5, 6, 7, 8, 9, 10}
    OBVIOUS
  <2> QED
    BY <2>1 DEF Decimal, Digits
<1>2. c \notin DOMAIN Lower
  <2>1. DOMAIN Lower = {"A","B","C","D","E","F","G","H","I","J","K","L","M","N","O","P","Q","R",
          "S","T","U","V","W","X","Y","Z"}
    BY DEF Lower
  <2> QED
    BY <1>1, <2>1
<1>3. LowerCase(c) = c
  BY <1>2 DEF LowerCase
<1>4. ASSUME NEW i \in 11 .. 16 PROVE Digits[i] # c
  <2>1. i \in {11, 12, 13, 14, 15, 16}
    OBVIOUS
  <2>2. Digits[i] \in {"a", "b", "c", "d", "e", "f"}
    BY <2>1 DEF Digits
  <2> QED
    BY <1>1, <2>2
<1>5. places \subseteq 1 .. 10
  BY <1>3, <1>4
<1>6. places # {}
  <2>1. PICK i \in 1 .. 10 : c = Digits[i]
    BY DEF Decimal
  <2> QED
    BY <1>3, <2>1
<1>7. DigitOf(c) = (CHOOSE i \in places : TRUE) - 1
  BY <1>6 DEF DigitOf
<1>8. c = "0" => places = {1}
  <2>1. ASSUME c = "0", NEW i \in 2 .. 10 PROVE Digits[i] # c
    <3>1. i \in {2, 3, 4, 5, 6, 7, 8, 9, 10}
      OBVIOUS
    <3> QED
      BY <2>1, <3>1 DEF Digits
  <2> QED
    BY <1>3, <1>5, <1>6, <2>1
<1> HIDE DEF places
<1>9. (CHOOSE i \in places : TRUE) \in places
  BY <1>6
<1>10. c = "0" => (CHOOSE i \in places : TRUE) = 1
  BY <1>8, <1>9
<1>11. DigitOf(c) \in 0 .. 9
  <2>1. ASSUME NEW i \in 1 .. 10 PROVE i - 1 \in 0 .. 9
    OBVIOUS
  <2> QED
    BY <1>5, <1>7, <1>9, <2>1
<1>12. c \notin Signs /\ c \notin Blank /\ c # "_"
  BY <1>1 DEF Signs, Blank
<1>13. c = "0" => DigitOf(c) = 0
  BY <1>7, <1>10
<1> QED
  BY <1>11, <1>12, <1>13

\* The value of the first k characters, for each k.
Evaluates(g, digits, base) ==
  /\ g \in [0 .. Len(digits) -> Nat]
  /\ g[0] = 0
  /\ \A k \in 1 .. Len(digits) :
       g[k] = IF digits[k] = "_" THEN g[k - 1] ELSE g[k - 1] * base + DigitOf(digits[k])
  /\ Numeral(digits, base) = g[Len(digits)]

\* Every character has a value, if only to tell that it is no digit.
LEMMA DigitType ==
  ASSUME NEW c
  PROVE  DigitOf(c) \in Nat
<1> DEFINE places == {i \in 1 .. 16 : Digits[i] = LowerCase(c)}
<1>1. CASE places = {}
  BY <1>1 DEF DigitOf
<1>2. CASE places # {}
  <2>1. (CHOOSE i \in places : TRUE) \in places
    BY <1>2
  <2>2. DigitOf(c) = (CHOOSE i \in places : TRUE) - 1
    BY <1>2 DEF DigitOf
  <2>3. places \subseteq 1 .. 16
    OBVIOUS
  <2> HIDE DEF places
  <2>4. ASSUME NEW i \in 1 .. 16 PROVE i - 1 \in Nat
    OBVIOUS
  <2> QED
    BY <2>1, <2>2, <2>3, <2>4
<1> QED
  BY <1>1, <1>2

\* A numeral is evaluated from left to right.
LEMMA NumeralSteps ==
  ASSUME NEW C, NEW digits \in Seq(C), NEW base \in Nat
  PROVE  \E g : Evaluates(g, digits, base)
<1> DEFINE n == Len(digits)
           S == Nat
           Step(k, v) == IF digits[k] = "_" THEN v ELSE v * base + DigitOf(digits[k])
           next == [k \in 1 .. n |-> [v \in S |-> Step(k, v)]]
           f[k \in 0 .. n] ==
             IF k = 0 THEN 0
             ELSE IF digits[k] = "_" THEN f[k - 1] ELSE f[k - 1] * base + DigitOf(digits[k])
<1>1. n \in Nat /\ \A k \in 1 .. n : k - 1 \in 0 .. n
  OBVIOUS
<1>2. next \in [1 .. n -> [S -> S]]
  <2>1. ASSUME NEW k \in 1 .. n, NEW v \in S PROVE Step(k, v) \in S
    <3> DEFINE d == DigitOf(digits[k])
    <3>1. d \in Nat
      BY DigitType
    <3> HIDE DEF d
    <3>2. v * base \in Nat /\ v * base + d \in Nat
      BY <3>1
    <3>3. Step(k, v) = IF digits[k] = "_" THEN v ELSE v * base + d
      BY Zenon DEF d
    <3> HIDE DEF Step
    <3> QED
      BY <3>2, <3>3
  <2> HIDE DEF Step
  <2> QED
    BY <2>1
<1>3. 0 \in S
  OBVIOUS
<1>4. PICK g : IsRecursion(g, n, S, 0, next)
  <2> HIDE DEF next, n, f, S, Step
  <2> QED
    BY <1>1, <1>2, <1>3, Recursion
<1>5. g \in [0 .. n -> S] /\ g[0] = 0 /\ \A k \in 1 .. n : g[k] = Step(k, g[k - 1])
  <2>1. ASSUME NEW k \in 1 .. n PROVE g[k] = Step(k, g[k - 1])
    <3>1. g[k] = next[k][g[k - 1]] /\ g \in [0 .. n -> S]
      <4> HIDE DEF n, next, S
      <4> QED
        BY <1>4 DEF IsRecursion
    <3> HIDE DEF n, S, Step
    <3> QED
      BY <1>1, <3>1
  <2> HIDE DEF n, next, S, f, Step
  <2> QED
    BY <1>4, <2>1 DEF IsRecursion
<1>6. g = [k \in 0 .. n |->
            IF k = 0 THEN 0
            ELSE IF digits[k] = "_" THEN g[k - 1] ELSE g[k - 1] * base + DigitOf(digits[k])]
  <2>1. \A k \in 0 .. n : k # 0 => k \in 1 .. n
    BY <1>1
  <2> HIDE DEF n, next, f
  <2> QED
    BY <1>5, <2>1
<1>7. f = [k \in 0 .. n |->
            IF k = 0 THEN 0
            ELSE IF digits[k] = "_" THEN f[k - 1] ELSE f[k - 1] * base + DigitOf(digits[k])]
  <2> HIDE DEF n, next
  <2> QED
    BY <1>6
<1>8. Numeral(digits, base) = f[n]
  BY DEF Numeral
<1> HIDE DEF f, next
<1>9. f[0] = 0 /\ \A k \in 1 .. n : f[k] = Step(k, f[k - 1])
  <2>1. 0 \in 0 .. n /\ \A k \in 1 .. n : k \in 0 .. n /\ k # 0
    BY <1>1
  <2> HIDE DEF n
  <2> QED
    BY <1>7, <2>1
<1> DEFINE D == {k \in 0 .. n : f[k] = g[k]}
<1>10. 0 \in D
  <2>1. 0 \in 0 .. n
    BY <1>1
  <2> HIDE DEF n, Step
  <2> QED
    BY <1>5, <1>9, <2>1
<1>11. ASSUME NEW k \in 1 .. n, k - 1 \in D PROVE k \in D
  <2>1. f[k - 1] = g[k - 1] /\ k \in 0 .. n
    BY <1>11, <1>1
  <2> HIDE DEF n, Step
  <2> QED
    BY <1>5, <1>9, <2>1
<1>12. n \in D
  <2>1. n \in 0 .. n
    BY <1>1
  <2> HIDE DEF D, n
  <2> QED
    BY <1>1, <1>10, <1>11, <2>1, InductionUpTo
<1> QED
  BY <1>5, <1>8, <1>12 DEF Evaluates

\* How much of a text is of one kind, if all of it is, or its beginning is not.
LEMMA LeadingCases ==
  ASSUME NEW C, NEW text \in Seq(C), NEW kind
  PROVE  /\ (\A i \in DOMAIN text : text[i] \in kind) => Leading(text, kind) = Len(text)
         /\ text # <<>> /\ text[1] \notin kind => Leading(text, kind) = 0
<1> DEFINE n == Len(text)
           heads == {k \in DOMAIN text : \A i \in 1 .. k : text[i] \in kind}
<1>1. n \in Nat /\ DOMAIN text = 1 .. n /\ Cardinality(1 .. n) = n
  BY Segment
<1>2. ASSUME \A i \in DOMAIN text : text[i] \in kind PROVE heads = 1 .. n
  <2>1. \A k \in 1 .. n : \A i \in 1 .. k : i \in 1 .. n
    BY <1>1
  <2> HIDE DEF n
  <2> QED
    BY <1>1, <1>2, <2>1
<1>3. ASSUME text[1] \notin kind PROVE heads = {}
  <2>1. \A k \in 1 .. n : 1 \in 1 .. k
    BY <1>1
  <2> HIDE DEF n
  <2> QED
    BY <1>1, <1>3, <2>1
<1>4. Cardinality({}) = 0
  BY FS_EmptySet
<1> HIDE DEF n
<1> QED
  BY <1>1, <1>2, <1>3, <1>4 DEF Leading, n

\* A count that is written plainly is the same to both tools, although one of
\* them looks for a base and the other stops at the first character it cannot use.
LEMMA CountsAgree ==
  ASSUME NEW value, IsCount(value)
  PROVE  LET text == Characters(value)
         IN  /\ GoNumber(text) = TsNumber(text)
             /\ GoNumber(text) \in Nat /\ GoNumber(text) # NotANumber
<1> DEFINE text == Characters(value)
           number == Numeral(text, 10)
<1>1. /\ text \in Seq(Decimal) /\ text # <<>>
      /\ text[1] = "0" => Len(text) = 1
      /\ number \in 0 .. MaxInt /\ number \in 0 .. MaxSafe
  BY DEF IsCount
<1> HIDE DEF text, number
<1>2. /\ Len(text) \in Nat \ {0} /\ DOMAIN text = 1 .. Len(text) /\ 1 \in DOMAIN text
      /\ \A i \in DOMAIN text : text[i] \in Decimal
      /\ SubSeq(text, 1, Len(text)) = text
  BY <1>1
<1>3. \A i \in DOMAIN text : /\ DigitOf(text[i]) < 10 /\ text[i] # "_"
                             /\ text[i] \notin Signs /\ text[i] \notin Blank
  <2>1. ASSUME NEW c \in Decimal
        PROVE  DigitOf(c) < 10 /\ c # "_" /\ c \notin Signs /\ c \notin Blank
    <3>1. DigitOf(c) \in 0 .. 9 /\ c \notin Signs /\ c \notin Blank /\ c # "_"
      BY DecimalDigits
    <3>2. \A d \in 0 .. 9 : d < 10
      OBVIOUS
    <3> QED
      BY <3>1, <3>2
  <2> QED
    BY <1>2, <2>1
<1>4. Unsigned(text) = text /\ text[1] # "-"
  BY <1>2, <1>3 DEF Unsigned, Signs
<1>5. GoNumber(text) = number
  <2> DEFINE s == Unsigned(text)
             zero == s # <<>> /\ s[1] = "0"
             letter == zero /\ Len(s) >= 3 /\ LowerCase(s[2]) \in DOMAIN Bases
             base == IF letter THEN Bases[LowerCase(s[2])] ELSE IF zero THEN 8 ELSE 10
             digits == SubSeq(s, IF letter THEN 3 ELSE IF zero THEN 2 ELSE 1, Len(s))
             isNumeral ==
               /\ s # <<>>
               /\ \A i \in DOMAIN digits :
                    IF digits[i] = "_" THEN IsSeparator(digits, i, zero)
                                       ELSE DigitOf(digits[i]) < base
             found == Numeral(digits, base)
  <2>1. GoNumber(text) = CASE isNumeral /\ text[1] # "-" /\ found \in 0 .. MaxInt -> found
                           [] isNumeral /\ text[1] = "-" /\ found \in 0 .. MaxInt + 1 -> -found
                           [] OTHER -> NotANumber
    BY Zenon DEF GoNumber
  <2> HIDE DEF s
  <2>7. s = text
    BY <1>4 DEF s
  <2>2. ~letter
    BY <1>1, <2>7
  <2>3. isNumeral /\ found = number
    <3>1. CASE text[1] = "0"
      <4>1. zero /\ base = 8 /\ digits = <<>>
        <5>1. digits = SubSeq(text, 2, 1)
          BY <1>1, <2>7, <2>2, <3>1
        <5> HIDE DEF digits
        <5> QED
          BY <1>1, <2>7, <2>2, <3>1, <5>1
      <4>2. isNumeral
        <5>1. DOMAIN digits = {}
          BY <4>1
        <5> HIDE DEF digits, base, letter
        <5> QED
          BY <1>1, <2>7, <5>1
      <4>3. found = 0
        <5>1. <<>> \in Seq(Decimal) /\ Len(<<>>) = 0 /\ 8 \in Nat
          OBVIOUS
        <5>2. PICK g : Evaluates(g, <<>>, 8)
          BY <5>1, NumeralSteps
        <5>3. Numeral(<<>>, 8) = 0
          BY <5>1, <5>2 DEF Evaluates
        <5>4. found = Numeral(<<>>, 8)
          BY <4>1, Zenon
        <5> HIDE DEF found
        <5> QED
          BY <5>3, <5>4
      <4>4. number = 0
        <5>1. Len(text) = 1 /\ DigitOf(text[1]) = 0 /\ text[1] # "_" /\ 10 \in Nat
          BY <1>1, <1>2, <1>3, <3>1, DecimalDigits
        <5>2. PICK g : Evaluates(g, text, 10)
          BY <1>1, <5>1, NumeralSteps
        <5>3. g[0] = 0 /\ number = g[1]
          BY <5>1, <5>2 DEF Evaluates, number
        <5>4. g[1] = g[0] * 10 + DigitOf(text[1])
          <6>1. 1 \in 1 .. Len(text) /\ 1 - 1 = 0
            <7>1. 1 \in 1 .. 1 /\ 1 - 1 = 0
              OBVIOUS
            <7> QED
              BY <5>1, <7>1
          <6>2. g[1] = IF text[1] = "_" THEN g[1 - 1] ELSE g[1 - 1] * 10 + DigitOf(text[1])
            BY <5>2, <6>1 DEF Evaluates
          <6> QED
            BY <5>1, <6>1, <6>2
        <5>5. 0 * 10 + 0 = 0
          OBVIOUS
        <5> QED
          BY <5>1, <5>3, <5>4, <5>5, Zenon
      <4> HIDE DEF isNumeral, found
      <4> QED
        BY <4>2, <4>3, <4>4
    <3>2. CASE text[1] # "0"
      <4>1. ~zero /\ base = 10 /\ digits = text
        BY <1>2, <2>7, <2>2, <3>2
      <4>2. isNumeral
        <5> HIDE DEF digits, base, zero, letter
        <5> QED
          BY <1>1, <1>3, <2>7, <4>1
      <4>3. found = number
        <5> HIDE DEF digits, base, zero, letter
        <5> QED
          BY <4>1 DEF number
      <4> QED
        BY <4>2, <4>3
    <3> QED
      BY <3>1, <3>2
  <2> HIDE DEF isNumeral, found
  <2> QED
    BY <1>1, <1>4, <2>1, <2>3, Zenon
<1>6. TsNumber(text) = number
  <2> DEFINE trimmed == SubSeq(text, Leading(text, Blank) + 1, Len(text))
             s == Unsigned(trimmed)
             digits == SubSeq(s, 1, Leading(s, Decimal))
             found == Rounded(Numeral(digits, 10))
  <2>1. TsNumber(text) = CASE digits = <<>> -> NotANumber
                           [] digits # <<>> /\ trimmed[1] # "-" -> found
                           [] OTHER -> -found
    BY Zenon DEF TsNumber
  <2>2. Leading(text, Blank) = 0
    BY <1>1, <1>2, <1>3, LeadingCases
  <2>3. trimmed = text
    BY <1>2, <2>2
  <2>4. s = text
    <3> HIDE DEF trimmed
    <3> QED
      BY <1>4, <2>3
  <2>5. digits = text
    <3>1. Leading(text, Decimal) = Len(text)
      BY <1>1, <1>2, LeadingCases
    <3> HIDE DEF s
    <3> QED
      BY <1>2, <2>4, <3>1
  <2>6. found = number
    <3> HIDE DEF digits
    <3> QED
      BY <1>1, <2>5 DEF Rounded, number
  <2> HIDE DEF digits, found, trimmed
  <2> QED
    BY <1>1, <1>4, <2>1, <2>3, <2>5, <2>6, Zenon
<1>7. number \in Nat /\ number # NotANumber
  BY <1>1, RangesAssumption DEF NotANumber
<1> QED
  BY <1>5, <1>6, <1>7 DEF text
-----------------------------------------------------------------------------
(***************************************************************************)
(* A documented command line                                               *)
(***************************************************************************)

\* What a documented line leaves in the parsers, wherever an option ends.
DocumentedGiven(T) ==
  {given \in [Flags -> Value(T)] :
     /\ \A f \in Switches : given[f] \in {Absent, Bare}
     /\ \A f \in Flags \ Switches : given[f] = Absent \/ IsDocumentedValue(f, given[f])}

\* Both parsers at the end of an option: neither of them waits for a value, but
\* for TypeScript's after a switch.
BetweenOptions(args, k, T) ==
  LET go == GoState(args, k)
      ts == TsState(args, k)
  IN  /\ go.given \in DocumentedGiven(T)
      /\ go = [given |-> go.given, flag |-> Absent, state |-> "flags"]
      /\ ts = [given |-> go.given, flag |-> ts.flag]

\* Every flag is a switch or takes a value.
LEMMA SwitchesAndOptions ==
  /\ Switches = {"--keep-buckets", "--help"}
  /\ Flags \ Switches = {"--iterations", "--concurrency", "--operations", "--endpoint"}
  /\ Switches \subseteq Flags /\ Absent \notin Flags /\ Absent # Bare
BY DEF Flags, Switches, Absent, Bare

\* Go at a switch.
LEMMA GoTakesSwitch ==
  ASSUME NEW given, NEW flag \in Switches
  PROVE  GoToken([given |-> given, flag |-> Absent, state |-> "flags"], flag)
           = [given |-> Give(given, flag, Bare), flag |-> Absent, state |-> "flags"]
<1> DEFINE s == [given |-> given, flag |-> Absent, state |-> "flags"]
           added == Give(given, flag, Bare)
<1>1. s.state = "flags" /\ s.flag = Absent /\ s.given = given
  OBVIOUS
<1>2. GoToken(s, flag) = [s EXCEPT !.given = Give(s.given, flag, Bare)]
  <2> HIDE DEF s
  <2> QED
    BY <1>1, GoTokenCases
<1>3. [s EXCEPT !.given = added] = [given |-> added, flag |-> Absent, state |-> "flags"]
  <2> HIDE DEF added
  <2> QED
    OBVIOUS
<1> HIDE DEF s
<1> QED
  BY <1>1, <1>2, <1>3 DEF s

\* Go at an option and its value.
LEMMA GoTakesOption ==
  ASSUME NEW given, NEW flag \in Flags \ Switches, NEW value,
         flag \in Counts => GoNumber(Characters(value)) # NotANumber
  PROVE  GoToken(GoToken([given |-> given, flag |-> Absent, state |-> "flags"], flag), value)
           = [given |-> Give(given, flag, value), flag |-> Absent, state |-> "flags"]
<1> DEFINE s == [given |-> given, flag |-> Absent, state |-> "flags"]
           t == [given |-> given, flag |-> flag, state |-> "flags"]
<1>1. s.state = "flags" /\ s.flag = Absent
  OBVIOUS
<1>2. GoToken(s, flag) = [s EXCEPT !.flag = flag]
  <2> HIDE DEF s
  <2> QED
    BY <1>1, GoTokenCases
<1>3. [s EXCEPT !.flag = flag] = t
  OBVIOUS
<1>4. t.state = "flags" /\ t.flag = flag /\ t.given = given /\ flag # Absent
  BY SwitchesAndOptions
<1> HIDE DEF s, t
<1>5. GoToken(t, value) = [given |-> Give(t.given, t.flag, value), flag |-> Absent, state |-> "flags"]
  BY <1>4, GoTokenCases
<1> QED
  BY <1>2, <1>3, <1>4, <1>5 DEF s

\* TypeScript at any flag.
LEMMA TsTakesFlag ==
  ASSUME NEW given, NEW before, NEW flag, StartsWith(flag, "--")
  PROVE  TsToken([given |-> given, flag |-> before], flag)
           = [given |-> Give(given, flag, Bare), flag |-> flag]
<1> DEFINE s == [given |-> given, flag |-> before]
<1>1. s.given = given
  OBVIOUS
<1> HIDE DEF s
<1>2. TsToken(s, flag) = [given |-> Give(s.given, flag, Bare), flag |-> flag]
  BY TsTokenCases
<1> QED
  BY <1>1, <1>2 DEF s

\* TypeScript at a value.
LEMMA TsTakesValue ==
  ASSUME NEW given, NEW flag, flag # Absent, NEW value, value # "", ~StartsWith(value, "--")
  PROVE  TsToken([given |-> given, flag |-> flag], value)
           = [given |-> Give(given, flag, value), flag |-> Absent]
<1> DEFINE s == [given |-> given, flag |-> flag]
<1>1. s.given = given /\ s.flag = flag
  OBVIOUS
<1> HIDE DEF s
<1>2. TsToken(s, value) = [given |-> Give(s.given, s.flag, value), flag |-> Absent]
  BY <1>1, TsTokenCases
<1> QED
  BY <1>1, <1>2 DEF s

\* A documented option more is still documented, and the value counts, not the
\* true that TypeScript gives it at first.
GivesDocumented(T, given, flag, value) ==
  /\ Give(given, flag, value) \in DocumentedGiven(T)
  /\ \A other : Give(Give(given, flag, other), flag, value) = Give(given, flag, value)

\* A documented value keeps what the parsers have documented.
LEMMA GivenStaysDocumented ==
  ASSUME NEW T, NEW given \in DocumentedGiven(T), NEW flag \in Flags, NEW value \in Value(T),
         flag \in Switches => value = Bare,
         flag \notin Switches => IsDocumentedValue(flag, value)
  PROVE  GivesDocumented(T, given, flag, value)
<1>1. given \in [Flags -> Value(T)] /\ DOMAIN given = Flags /\ Flags \union {flag} = Flags
  BY DEF DocumentedGiven
<1>2. \A v : Give(given, flag, v) = [f \in Flags |-> IF f = flag THEN v ELSE given[f]]
  BY <1>1 DEF Give
<1> DEFINE added == [f \in Flags |-> IF f = flag THEN value ELSE given[f]]
<1>3. added \in [Flags -> Value(T)]
  BY <1>1
<1>4. \A f \in Switches : added[f] \in {Absent, Bare}
  BY SwitchesAndOptions DEF DocumentedGiven
<1>5. \A f \in Flags \ Switches : added[f] = Absent \/ IsDocumentedValue(f, added[f])
  BY DEF DocumentedGiven
<1>6. added \in DocumentedGiven(T)
  <2> HIDE DEF added
  <2> QED
    BY <1>3, <1>4, <1>5 DEF DocumentedGiven
<1>7. ASSUME NEW other PROVE Give(Give(given, flag, other), flag, value) = added
  <2> DEFINE first == [f \in Flags |-> IF f = flag THEN other ELSE given[f]]
  <2>1. DOMAIN first = Flags /\ Give(given, flag, other) = first
    BY <1>2
  <2>2. Give(first, flag, value) = [f \in Flags |-> IF f = flag THEN value ELSE first[f]]
    <3> HIDE DEF first
    <3> QED
      BY <1>1, <2>1 DEF Give
  <2>3. [f \in Flags |-> IF f = flag THEN value ELSE first[f]] = added
    OBVIOUS
  <2> HIDE DEF first, added
  <2> QED
    BY <2>1, <2>2, <2>3
<1> HIDE DEF added
<1>8. Give(given, flag, value) = added
  BY <1>2 DEF added
<1> QED
  BY <1>6, <1>7, <1>8 DEF GivesDocumented

\* Both parsers take a switch alike.
LEMMA SwitchParsed ==
  ASSUME NEW T, NEW args \in Seq(T), NEW k \in Nat, k + 1 <= Len(args),
         BetweenOptions(args, k, T),
         NEW flag \in Switches, args[k + 1] = flag, StartsWith(flag, "--")
  PROVE  BetweenOptions(args, k + 1, T)
<1> DEFINE go == GoState(args, k)
           ts == TsState(args, k)
           given == go.given
           before == ts.flag
           added == Give(given, flag, Bare)
<1>1. k + 1 \in 1 .. Len(args) /\ (k + 1) - 1 = k
  OBVIOUS
<1>2. GoState(args, k + 1) = GoToken(go, flag) /\ TsState(args, k + 1) = TsToken(ts, flag)
  BY <1>1, GoSteps, TsSteps
<1>3. /\ given \in DocumentedGiven(T)
      /\ go = [given |-> given, flag |-> Absent, state |-> "flags"]
      /\ ts = [given |-> given, flag |-> before]
  BY DEF BetweenOptions
<1> HIDE DEF given, before
<1>4. GoToken([given |-> given, flag |-> Absent, state |-> "flags"], flag)
        = [given |-> added, flag |-> Absent, state |-> "flags"]
  BY GoTakesSwitch
<1>5. TsToken([given |-> given, flag |-> before], flag) = [given |-> added, flag |-> flag]
  BY TsTakesFlag
<1>6. added \in DocumentedGiven(T)
  <2>1. GivesDocumented(T, given, flag, Bare)
    BY <1>3, SwitchesAndOptions, GivenStaysDocumented DEF Value
  <2> QED
    BY <2>1 DEF GivesDocumented
<1> HIDE DEF added, go, ts
<1>7. /\ GoState(args, k + 1) = [given |-> added, flag |-> Absent, state |-> "flags"]
      /\ TsState(args, k + 1) = [given |-> added, flag |-> flag]
  BY <1>2, <1>3, <1>4, <1>5
<1> QED
  BY <1>6, <1>7 DEF BetweenOptions

\* Both parsers take an option and its value alike.
LEMMA OptionParsed ==
  ASSUME NEW T, NEW args \in Seq(T), NEW k \in Nat, k + 2 <= Len(args),
         BetweenOptions(args, k, T),
         NEW flag \in Flags \ Switches, args[k + 1] = flag, StartsWith(flag, "--"),
         NEW value, args[k + 2] = value, IsDocumentedValue(flag, value)
  PROVE  BetweenOptions(args, k + 2, T)
<1> DEFINE go == GoState(args, k)
           ts == TsState(args, k)
           given == go.given
           before == ts.flag
           bare == Give(given, flag, Bare)
           added == Give(given, flag, value)
<1>1. /\ k + 1 \in 1 .. Len(args) /\ (k + 1) - 1 = k
      /\ k + 2 \in 1 .. Len(args) /\ (k + 2) - 1 = k + 1
  OBVIOUS
<1>2. /\ GoState(args, k + 2) = GoToken(GoToken(go, flag), value)
      /\ TsState(args, k + 2) = TsToken(TsToken(ts, flag), value)
  BY <1>1, GoSteps, TsSteps
<1>3. /\ given \in DocumentedGiven(T)
      /\ go = [given |-> given, flag |-> Absent, state |-> "flags"]
      /\ ts = [given |-> given, flag |-> before]
  BY DEF BetweenOptions
<1> HIDE DEF given, before
<1>4. GoToken(GoToken([given |-> given, flag |-> Absent, state |-> "flags"], flag), value)
        = [given |-> added, flag |-> Absent, state |-> "flags"]
  <2>1. flag \in Counts => GoNumber(Characters(value)) # NotANumber
    BY CountsAgree DEF IsDocumentedValue
  <2> QED
    BY <2>1, GoTakesOption
<1>5. TsToken([given |-> given, flag |-> before], flag) = [given |-> bare, flag |-> flag]
  BY TsTakesFlag
<1>6. flag # Absent /\ value # "" /\ ~StartsWith(value, "--") /\ value \in Value(T)
  <2>1. value \in T
    BY <1>1
  <2> QED
    BY <2>1, SwitchesAndOptions DEF IsDocumentedValue, Value
<1>7. TsToken([given |-> bare, flag |-> flag], value)
        = [given |-> Give(bare, flag, value), flag |-> Absent]
  <2> HIDE DEF bare
  <2> QED
    BY <1>6, TsTakesValue
<1>8. added \in DocumentedGiven(T) /\ Give(bare, flag, value) = added
  <2>1. flag \in Flags /\ flag \notin Switches
    OBVIOUS
  <2>2. IsDocumentedValue(flag, value)
    OBVIOUS
  <2>3. GivesDocumented(T, given, flag, value)
    <3> HIDE DEF added, bare, go, ts
    <3> QED
      BY <1>3, <1>6, <2>1, <2>2, GivenStaysDocumented
  <2> QED
    BY <2>3 DEF GivesDocumented
<1> HIDE DEF added, bare, go, ts
<1>9. /\ GoState(args, k + 2) = [given |-> added, flag |-> Absent, state |-> "flags"]
      /\ TsState(args, k + 2) = [given |-> added, flag |-> Absent]
  BY <1>2, <1>3, <1>4, <1>5, <1>7, <1>8
<1> QED
  BY <1>8, <1>9 DEF BetweenOptions

\* Both parsers have the same options at the end of a documented line.
LEMMA DocumentedLineParsed ==
  ASSUME NEW T, NEW pieces \in Seq(Seq(T)), \A i \in DOMAIN pieces : IsDocumented(pieces[i]),
         \A f \in Flags : StartsWith(f, "--")
  PROVE  LET args == FlattenSeq(pieces)
             given == GoParse(args).given
         IN  /\ given \in DocumentedGiven(T)
             /\ GoParse(args) = [given |-> given, flag |-> Absent, state |-> "flags"]
             /\ TsParse(args).given = given
<1> DEFINE n == Len(pieces)
           args == FlattenSeq(pieces)
<1>1. PICK flat : Flattens(flat, pieces, T)
  BY FlattenSteps
<1>2. n \in Nat /\ DOMAIN pieces = 1 .. n
  OBVIOUS
<1>3. /\ \A k \in 0 .. n : flat[k] \in Seq(T)
      /\ flat[0] = <<>> /\ args = flat[n]
  BY <1>1 DEF Flattens
<1>4. args \in Seq(T)
  BY <1>2, <1>3
<1> DEFINE D == {i \in 0 .. n : BetweenOptions(args, Len(flat[i]), T)}
<1>5. 0 \in D
  <2>1. GoState(args, 0) = [given |-> NothingGiven, flag |-> Absent, state |-> "flags"]
        /\ TsState(args, 0) = [given |-> NothingGiven, flag |-> Absent]
    BY <1>4, GoSteps, TsSteps
  <2>2. NothingGiven \in DocumentedGiven(T)
    BY SwitchesAndOptions DEF NothingGiven, DocumentedGiven, Value
  <2>3. Len(flat[0]) = 0 /\ 0 \in 0 .. n
    BY <1>2, <1>3
  <2> HIDE DEF n, args
  <2> QED
    BY <2>1, <2>2, <2>3 DEF BetweenOptions
<1>6. ASSUME NEW i \in 1 .. n, i - 1 \in D PROVE i \in D
  <2> DEFINE start == Len(flat[i - 1])
             piece == pieces[i]
  <2>1. /\ start \in Nat /\ Len(flat[i]) = start + Len(piece)
        /\ Len(flat[i]) <= Len(args)
        /\ \A j \in 1 .. Len(piece) : args[start + j] = piece[j]
    <3>1. InPlace(flat, pieces, i)
      <4>1. i \in 1 .. Len(pieces) /\ Flattens(flat, pieces, T)
        BY <1>1
      <4> HIDE DEF n, args, D, start, piece
      <4> QED
        BY <4>1, PiecesInPlace
    <3> QED
      BY <3>1 DEF InPlace
  <2>2. BetweenOptions(args, start, T)
    BY <1>6
  <2>3. IsDocumented(piece) /\ i \in 0 .. n
    BY <1>2
  <2> HIDE DEF start, piece, args, n
  <2>4. CASE Len(piece) = 1 /\ piece[1] \in Switches
    <3>1. args[start + 1] = piece[1] /\ Len(flat[i]) = start + 1 /\ start + 1 <= Len(args)
      BY <2>1, <2>4
    <3>2. StartsWith(piece[1], "--")
      BY <2>4, SwitchesAndOptions
    <3>3. BetweenOptions(args, start + 1, T)
      BY <1>4, <2>1, <2>2, <2>4, <3>1, <3>2, SwitchParsed
    <3> QED
      BY <2>3, <3>1, <3>3
  <2>5. CASE /\ Len(piece) = 2 /\ piece[1] \in Flags \ Switches
             /\ IsDocumentedValue(piece[1], piece[2])
    <3>1. /\ args[start + 1] = piece[1] /\ args[start + 2] = piece[2]
          /\ Len(flat[i]) = start + 2 /\ start + 2 <= Len(args)
      BY <2>1, <2>5
    <3>2. StartsWith(piece[1], "--")
      BY <2>5
    <3>3. BetweenOptions(args, start + 2, T)
      BY <1>4, <2>1, <2>2, <2>5, <3>1, <3>2, OptionParsed
    <3> QED
      BY <2>3, <3>1, <3>3
  <2> QED
    BY <2>3, <2>4, <2>5 DEF IsDocumented
<1>7. n \in D
  <2>1. n \in 0 .. n
    BY <1>2
  <2> HIDE DEF D, n
  <2> QED
    BY <1>2, <1>5, <1>6, <2>1, InductionUpTo
<1>8. GoParse(args) = GoState(args, Len(args)) /\ TsParse(args) = TsState(args, Len(args))
  BY <1>4, GoSteps, TsSteps
<1>9. BetweenOptions(args, Len(args), T)
  BY <1>3, <1>7
<1> HIDE DEF args, D
<1> QED
  BY <1>8, <1>9 DEF BetweenOptions, args
-----------------------------------------------------------------------------
(***************************************************************************)
(* What the tools make of their options                                    *)
(***************************************************************************)

\* A sequence is a function on its positions.
LEMMA SequenceIsFunction ==
  ASSUME NEW W, NEW s \in Seq(W)
  PROVE  /\ DOMAIN s = 1 .. Len(s) /\ Len(s) \in Nat
         /\ s = [k \in 1 .. Len(s) |-> s[k]]
         /\ s = <<>> <=> Len(s) = 0
OBVIOUS

\* Two facts about lengths.
LEMMA SmallLengths ==
  /\ \A n \in Nat : (n # 0 => 1 \in 1 .. n) /\ (n <= 1 => n = 0 \/ n = 1)
  /\ \A s : DOMAIN s # {} => s # <<>>
<1>1. \A n \in Nat : (n # 0 => 1 \in 1 .. n) /\ (n <= 1 => n = 0 \/ n = 1)
  OBVIOUS
<1>2. DOMAIN <<>> = {}
  OBVIOUS
<1>3. \A s : DOMAIN s # {} => s # <<>>
  BY <1>2
<1> QED
  BY <1>1, <1>3

\* A list has one entry at least.
LEMMA EntriesCases ==
  ASSUME NEW text
  PROVE  /\ Entries(text) \in Seq({"", "put-new", "get-local", text})
         /\ Entries(text) # <<>>
         /\ DOMAIN Entries(text) = 1 .. Len(Entries(text)) /\ Len(Entries(text)) \in Nat \ {0}
         /\ Entries(text) = [k \in 1 .. Len(Entries(text)) |-> Entries(text)[k]]
<1>1. Entries(text) \in {<<"">>, <<"", "">>, <<"put-new", "get-local">>,
                         <<"put-new", "put-new">>, <<"put-new", "">>, <<text>>}
  BY Zenon DEF Entries
<1> DEFINE W == {"", "put-new", "get-local", text}
<1>2. "" \in W /\ "put-new" \in W /\ "get-local" \in W /\ text \in W
  OBVIOUS
<1> HIDE DEF W
<1>3. \A a, b \in W : <<a>> \in Seq(W) /\ <<a, b>> \in Seq(W) /\ <<a>> # <<>> /\ <<a, b>> # <<>>
  OBVIOUS
<1>4. Entries(text) \in Seq(W) /\ Entries(text) # <<>>
  BY <1>1, <1>2, <1>3
<1>5. /\ DOMAIN Entries(text) = 1 .. Len(Entries(text)) /\ Len(Entries(text)) \in Nat \ {0}
      /\ Entries(text) = [k \in 1 .. Len(Entries(text)) |-> Entries(text)[k]]
  BY <1>4, SequenceIsFunction
<1> QED
  BY <1>4, <1>5 DEF W

\* The default operations are operations, and none is empty.
LEMMA OperationsAreNamed ==
  /\ OperationNames # <<>> /\ "" \notin OperationName
  /\ \A i \in DOMAIN OperationNames : OperationNames[i] \in OperationName
<1>1. DOMAIN OperationNames = 1 .. 7
  BY DEF OperationNames
<1>3. OperationNames # <<>>
  <2>1. 1 \in DOMAIN OperationNames /\ DOMAIN <<>> = {}
    BY <1>1
  <2> HIDE DEF OperationNames
  <2> QED
    BY <2>1
<1>2. \A i \in 1 .. 7 : OperationNames[i] # ""
  <2>1. \A i \in 1 .. 7 : i \in {1, 2, 3, 4, 5, 6, 7}
    OBVIOUS
  <2>2. /\ OperationNames[1] # "" /\ OperationNames[2] # "" /\ OperationNames[3] # ""
        /\ OperationNames[4] # "" /\ OperationNames[5] # "" /\ OperationNames[6] # ""
        /\ OperationNames[7] # ""
    BY DEF OperationNames
  <2> QED
    BY <2>1, <2>2
<1> QED
  BY <1>1, <1>2, <1>3 DEF OperationName

\* What Go accepts, and on which conditions.
LEMMA GoAccepts ==
  ASSUME NEW args, NEW env, NEW file
  PROVE  LET given == GoParse(args).given
             operations == GoOperations(given["--operations"])
             options == GoOptions(args, env, file)
         IN  options.status = "accepted" =>
               /\ options.operations = operations
               /\ \A i \in DOMAIN operations : operations[i] \in OperationName
               /\ options.concurrency = GoConcurrency(given["--concurrency"])
<1> DEFINE parsed == GoParse(args)
           given == parsed.given
           operations == GoOperations(given["--operations"])
           wrong == parsed.state = "error" \/ parsed.flag # Absent
           help == given["--help"]
           unknown == \E i \in DOMAIN operations : operations[i] \notin OperationName
           accepted ==
             [status |-> "accepted",
              iterations |-> GoCount(given["--iterations"], 50),
              concurrency |-> GoConcurrency(given["--concurrency"]),
              operations |-> operations,
              keep |-> given["--keep-buckets"] # Absent,
              endpoint |-> AuthEndpoint(given["--endpoint"], GoEnvironment(env, file))]
           options == GoOptions(args, env, file)
<1>1. options = CASE wrong -> Rejected
                  [] ~wrong /\ help # Absent -> Help
                  [] ~wrong /\ help = Absent /\ unknown -> Rejected
                  [] OTHER -> accepted
  BY Zenon DEF GoOptions
<1>2. Rejected.status = "rejected" /\ Help.status = "help"
  BY DEF Rejected, Help
<1>4. ~unknown => \A i \in DOMAIN operations : operations[i] \in OperationName
  OBVIOUS
<1>5. /\ accepted.operations = operations
      /\ accepted.concurrency = GoConcurrency(given["--concurrency"])
  <2> HIDE DEF given, operations
  <2> QED
    OBVIOUS
<1> HIDE DEF accepted, wrong, unknown, help, options
<1>6. \/ options \in {Rejected, Help}
      \/ options = accepted /\ ~wrong /\ ~unknown
  BY <1>1, Zenon
<1> HIDE DEF operations, given
<1>7. options.status = "accepted" => options = accepted /\ ~wrong /\ ~unknown
  BY <1>2, <1>6
<1> QED
  BY <1>4, <1>5, <1>7 DEF options, operations, given, parsed

\* What TypeScript accepts, and on which conditions.
LEMMA TsAccepts ==
  ASSUME NEW args, NEW env, NEW file
  PROVE  LET given == TsParse(args).given
             operations == TsOperations(given["--operations"])
             concurrency == TsCount(given["--concurrency"], 1)
             options == TsOptions(args, env, file)
         IN  /\ options.status = "accepted" =>
                  /\ options.operations = operations
                  /\ \A i \in DOMAIN operations : operations[i] \in OperationName
                  /\ options.concurrency = IF concurrency < 1 THEN 1 ELSE concurrency
             /\ \/ options.iterations = 0
                \/ /\ options.iterations = TsCount(given["--iterations"], 50)
                   /\ ~(TsCount(given["--iterations"], 1) < 0)
<1> DEFINE given == TsParse(args).given
           operations == TsOperations(given["--operations"])
           concurrency == TsCount(given["--concurrency"], 1)
           wrong == \E f \in Counts : TsCount(given[f], 1) < 0
           help == given["--help"]
           unknown == \E i \in DOMAIN operations : operations[i] \notin OperationName
           accepted ==
             [status |-> "accepted",
              iterations |-> TsCount(given["--iterations"], 50),
              concurrency |-> IF concurrency < 1 THEN 1 ELSE concurrency,
              operations |-> operations,
              keep |-> given["--keep-buckets"] # Absent,
              endpoint |-> AuthEndpoint(given["--endpoint"], TsEnvironment(env, file))]
           options == TsOptions(args, env, file)
<1>1. options = CASE help # Absent -> Help
                  [] help = Absent /\ wrong -> Rejected
                  [] help = Absent /\ unknown -> Rejected
                  [] OTHER -> accepted
  BY Zenon DEF TsOptions
<1>2. /\ Rejected.status = "rejected" /\ Help.status = "help"
      /\ Rejected.iterations = 0 /\ Help.iterations = 0
  BY DEF Rejected, Help
<1>3. ~wrong => ~(TsCount(given["--iterations"], 1) < 0)
  BY DEF Counts
<1>4. ~unknown => \A i \in DOMAIN operations : operations[i] \in OperationName
  OBVIOUS
<1>5. /\ accepted.operations = operations
      /\ accepted.concurrency = IF concurrency < 1 THEN 1 ELSE concurrency
      /\ accepted.iterations = TsCount(given["--iterations"], 50)
  <2> HIDE DEF given, operations, concurrency
  <2> QED
    OBVIOUS
<1> HIDE DEF accepted, wrong, unknown, help, options
<1>6. \/ options \in {Rejected, Help}
      \/ options = accepted /\ ~wrong /\ ~unknown
  BY <1>1, Zenon
<1> HIDE DEF operations, given, concurrency
<1>7. options.status = "accepted" => options = accepted /\ ~wrong /\ ~unknown
  BY <1>2, <1>6
<1>8. options.iterations = 0 \/ (options = accepted /\ ~wrong)
  BY <1>2, <1>6
<1> QED
  BY <1>3, <1>4, <1>5, <1>7, <1>8 DEF options, operations, given, concurrency

\* Neither parseOperations returns an empty list.
LEMMA OperationsAreSome ==
  ASSUME NEW text
  PROVE  GoOperations(text) # <<>> /\ TsOperations(text) # <<>>
<1>1. GoOperations(text) # <<>>
  BY EntriesCases, OperationsAreNamed DEF GoOperations
<1>2. TsOperations(text) # <<>>
  <2> DEFINE entries == Entries(text)
             kept == Ascending({i \in DOMAIN entries : entries[i] # ""})
             chosen == [k \in DOMAIN kept |-> entries[kept[k]]]
             default == text \in {Absent, Bare} \/ kept = <<>>
  <2>1. TsOperations(text) = IF default THEN OperationNames ELSE chosen
    BY DEF TsOperations
  <2>2. ASSUME kept # <<>> PROVE chosen # <<>>
    <3> DEFINE S == {i \in DOMAIN entries : entries[i] # ""}
               m == Cardinality(S)
    <3>1. DOMAIN entries = 1 .. Len(entries) /\ Len(entries) \in Nat
      BY EntriesCases
    <3>2. S \in SUBSET Int /\ IsFiniteSet(S)
      <4>1. IsFiniteSet(1 .. Len(entries)) /\ 1 .. Len(entries) \in SUBSET Int
        BY <3>1, Segment
      <4>2. S \subseteq 1 .. Len(entries)
        BY <3>1
      <4> QED
        BY <4>1, <4>2, FS_Subset
    <3>3. kept = Ascending(S)
      OBVIOUS
    <3> HIDE DEF S, entries, kept
    <3>4. kept \in [1 .. m -> S] /\ m \in Nat
      BY <3>2, <3>3, AscendingLists, FS_CardinalityType
    <3>5. kept \in Seq(S) /\ DOMAIN kept = 1 .. m /\ m # 0
      BY <2>2, <3>4
    <3>6. DOMAIN chosen = 1 .. m /\ 1 \in 1 .. m
      BY <3>4, <3>5
    <3>7. DOMAIN chosen # DOMAIN <<>>
      BY <3>6
    <3> QED
      BY <3>7
  <2> HIDE DEF chosen, kept
  <2> QED
    BY <2>1, <2>2, OperationsAreNamed
<1> QED
  BY <1>1, <1>2

\* What a suite needs of the options it gets.
AcceptsSound(options) ==
  options.status = "accepted" =>
    /\ options.operations # <<>>
    /\ \A i \in DOMAIN options.operations : options.operations[i] \in OperationName
    /\ options.concurrency >= 1

\* Whatever the command line, a suite gets that.
LEMMA AcceptedOptions ==
  ASSUME NEW args, NEW env, NEW file
  PROVE  /\ AcceptsSound(GoOptions(args, env, file))
         /\ AcceptsSound(TsOptions(args, env, file))
         /\ TsOptions(args, env, file).iterations >= 0
<1>1. AcceptsSound(GoOptions(args, env, file))
  <2> DEFINE text == GoParse(args).given["--concurrency"]
             options == GoOptions(args, env, file)
             operations == GoOperations(GoParse(args).given["--operations"])
  <2>1. options.status = "accepted" =>
          /\ options.operations = operations
          /\ \A i \in DOMAIN operations : operations[i] \in OperationName
          /\ options.concurrency = GoConcurrency(text)
    BY GoAccepts
  <2>2. operations # <<>>
    BY OperationsAreSome
  <2> HIDE DEF text, options, operations
  <2>3. GoCount(text, 1) \in Int
    BY CountsAreInts
  <2>4. GoConcurrency(text) >= 1
    BY <2>3 DEF GoConcurrency
  <2> QED
    BY <2>1, <2>2, <2>4 DEF AcceptsSound, options
<1>2. AcceptsSound(TsOptions(args, env, file)) /\ TsOptions(args, env, file).iterations >= 0
  <2> DEFINE given == TsParse(args).given
             concurrency == TsCount(given["--concurrency"], 1)
             iterations == given["--iterations"]
             options == TsOptions(args, env, file)
             operations == TsOperations(given["--operations"])
  <2>1. options.status = "accepted" =>
          /\ options.operations = operations
          /\ \A i \in DOMAIN operations : operations[i] \in OperationName
          /\ options.concurrency = IF concurrency < 1 THEN 1 ELSE concurrency
    BY TsAccepts
  <2>2. operations # <<>>
    BY OperationsAreSome
  <2>3. concurrency \in Int
    <3> HIDE DEF given
    <3> QED
      BY CountsAreInts
  <2>4. \/ options.iterations = 0
        \/ options.iterations = TsCount(iterations, 50) /\ ~(TsCount(iterations, 1) < 0)
    BY TsAccepts
  <2> HIDE DEF given, options, operations, concurrency, iterations
  <2>5. AcceptsSound(options)
    BY <2>1, <2>2, <2>3 DEF AcceptsSound
  <2>6. TsCount(iterations, 50) = 50 \/ TsCount(iterations, 50) = TsCount(iterations, 1)
    BY CountCases
  <2>7. TsCount(iterations, 1) \in Int
    BY CountsAreInts
  <2>8. options.iterations >= 0
    BY <2>4, <2>6, <2>7
  <2> QED
    BY <2>5, <2>8 DEF options
<1> QED
  BY <1>1, <1>2

\* A list without gaps is in order as it is.
LEMMA AllAscend ==
  ASSUME NEW n \in Nat
  PROVE  Ascending(1 .. n) = [k \in 1 .. n |-> k]
<1> DEFINE S == 1 .. n
           key == [p \in S |-> p]
<1>1. Cardinality(S) = n
  BY Segment
<1>2. ASSUME NEW p \in S PROVE Place(S, key, p) = p
  <2>1. {q \in S : q = p \/ Precedes(key, q, p)} = 1 .. p
    <3>1. \A q \in S : Precedes(key, q, p) <=> q < p
      BY DEF Precedes
    <3>2. p \in Int /\ 1 <= p /\ p <= n
      OBVIOUS
    <3>3. \A q \in S : (q = p \/ q < p) <=> q \in 1 .. p
      OBVIOUS
    <3>4. \A q \in 1 .. p : q \in S
      OBVIOUS
    <3> HIDE DEF S, key
    <3> QED
      BY <3>1, <3>3, <3>4
  <2>2. Cardinality(1 .. p) = p
    BY Segment
  <2> QED
    BY <2>1, <2>2 DEF Place
<1> HIDE DEF key
<1>3. \A r \in S : (CHOOSE p \in S : Place(S, key, p) = r) = r
  BY <1>2
<1>4. StableSort(S, key) = [r \in 1 .. n |-> CHOOSE p \in S : Place(S, key, p) = r]
  BY <1>1 DEF StableSort
<1> QED
  BY <1>3, <1>4 DEF Ascending, key

\* Known operations leave nothing to pass over.
LEMMA DocumentedOperations ==
  ASSUME NEW text, text \notin {"", Absent, Bare},
         \A i \in DOMAIN Entries(text) : Entries(text)[i] \in OperationName
  PROVE  GoOperations(text) = Entries(text) /\ TsOperations(text) = Entries(text)
<1> DEFINE entries == Entries(text)
           n == Len(entries)
           kept == Ascending({i \in DOMAIN entries : entries[i] # ""})
           chosen == [k \in DOMAIN kept |-> entries[kept[k]]]
<1>1. DOMAIN entries = 1 .. n /\ n \in Nat /\ entries # <<>>
  BY EntriesCases
<1>2. n # 0 /\ 1 \in 1 .. n
  <2>1. n \in Nat \ {0}
    BY EntriesCases
  <2> HIDE DEF n
  <2> QED
    BY <2>1, SmallLengths
<1>3. \A i \in 1 .. n : entries[i] # ""
  BY <1>1, OperationsAreNamed
<1>4. text # " "
  <2>1. ASSUME text = " " PROVE FALSE
    <3>1. entries = <<"">>
      <4>1. Entries(" ") = <<"">>
        BY Zenon DEF Entries
      <4> QED
        BY <2>1, <4>1
    <3>2. entries[1] = ""
      <4> HIDE DEF entries
      <4> QED
        BY <3>1
    <3> QED
      BY <1>2, <1>3, <3>2
  <2> QED
    BY <2>1
<1>5. GoOperations(text) = entries
  BY <1>4 DEF GoOperations
<1>6. kept = [k \in 1 .. n |-> k]
  <2>1. {i \in DOMAIN entries : entries[i] # ""} = 1 .. n
    BY <1>1, <1>3
  <2> HIDE DEF entries, n
  <2> QED
    BY <1>1, <2>1, AllAscend
<1>7. kept # <<>>
  <2> HIDE DEF kept, n
  <2>1. DOMAIN kept = 1 .. n
    BY <1>6
  <2>2. DOMAIN kept # {}
    BY <1>2, <2>1
  <2> QED
    BY <2>2, SmallLengths
<1>8. chosen = entries
  <2>1. chosen = [k \in 1 .. n |-> entries[k]]
    BY <1>6
  <2>2. entries = [k \in 1 .. n |-> entries[k]]
    BY EntriesCases
  <2> HIDE DEF chosen
  <2> QED
    BY <2>1, <2>2
<1>9. TsOperations(text) = IF text \in {Absent, Bare} \/ kept = <<>> THEN OperationNames ELSE chosen
  BY DEF TsOperations
<1> HIDE DEF chosen, kept
<1> QED
  BY <1>5, <1>7, <1>8, <1>9

\* Documented options mean the same to both tools.
LEMMA ToolsAgree ==
  ASSUME NEW T, NEW given \in DocumentedGiven(T), NEW env, NEW file \in Seq(T), Len(file) <= 1
  PROVE  LET operations == GoOperations(given["--operations"])
         IN  /\ operations = TsOperations(given["--operations"])
             /\ \A i \in DOMAIN operations : operations[i] \in OperationName
             /\ \A f \in Counts :
                  /\ GoCount(given[f], 1) >= 0
                  /\ TsCount(given[f], 1) = GoCount(given[f], 1)
                  /\ TsCount(given[f], 50) = GoCount(given[f], 50)
             /\ GoEnvironment(env, file) = TsEnvironment(env, file)
<1> DEFINE text == given["--operations"]
<1>1. /\ \A f \in Counts \union {"--operations"} :
           given[f] = Absent \/ IsDocumentedValue(f, given[f])
  BY SwitchesAndOptions DEF DocumentedGiven, Counts
<1>2. /\ GoOperations(text) = TsOperations(text)
      /\ \A i \in DOMAIN GoOperations(text) : GoOperations(text)[i] \in OperationName
  <2> HIDE DEF text
  <2>1. CASE text = Absent
    <3>1. GoOperations(text) = OperationNames /\ TsOperations(text) = OperationNames
      BY <2>1 DEF GoOperations, TsOperations
    <3> QED
      BY <3>1, OperationsAreNamed
  <2>2. CASE IsDocumentedValue("--operations", text)
    <3>1. /\ text \notin {"", Absent, Bare}
          /\ \A i \in DOMAIN Entries(text) : Entries(text)[i] \in OperationName
      BY <2>2 DEF IsDocumentedValue
    <3> QED
      BY <3>1, DocumentedOperations
  <2> QED
    BY <1>1, <2>1, <2>2 DEF text
<1>3. ASSUME NEW f \in Counts
      PROVE  /\ GoCount(given[f], 1) >= 0
             /\ TsCount(given[f], 1) = GoCount(given[f], 1)
             /\ TsCount(given[f], 50) = GoCount(given[f], 50)
  <2> DEFINE value == given[f]
             characters == Characters(value)
  <2>1. value = Absent \/ (IsCount(value) /\ value # Bare)
    BY <1>1 DEF IsDocumentedValue
  <2> HIDE DEF value
  <2>2. CASE value = Absent
    BY <2>2, CountCases DEF value
  <2>3. CASE value # Absent
    <3>1. /\ GoCount(value, 1) = GoNumber(characters) /\ GoCount(value, 50) = GoNumber(characters)
          /\ TsCount(value, 1) = TsNumber(characters) /\ TsCount(value, 50) = TsNumber(characters)
      BY <2>1, <2>3, CountCases
    <3>2. GoNumber(characters) = TsNumber(characters) /\ GoNumber(characters) \in Nat
      BY <2>1, <2>3, CountsAgree
    <3> HIDE DEF characters
    <3> QED
      BY <3>1, <3>2 DEF value
  <2> QED
    BY <2>2, <2>3
<1>4. GoEnvironment(env, file) = TsEnvironment(env, file)
  <2>1. file = <<>> \/ Len(file) = 1
    <3>1. Len(file) \in Nat
      OBVIOUS
    <3>2. Len(file) = 0 \/ Len(file) = 1
      BY <3>1, SmallLengths
    <3> QED
      BY <3>2
  <2> QED
    BY <2>1 DEF GoEnvironment, TsEnvironment
<1> QED
  BY <1>2, <1>3, <1>4

\* Both tools understand a line, and in the same way.
Understood(args, env, file) ==
  /\ GoOptions(args, env, file) = TsOptions(args, env, file)
  /\ GoOptions(args, env, file).status # "rejected"

\* A documented line is understood (OptionsAreSound).
LEMMA DocumentedLinesAgree ==
  ASSUME NEW T, NEW pieces \in Seq(Seq(T)), \A i \in DOMAIN pieces : IsDocumented(pieces[i]),
         \A f \in Flags : StartsWith(f, "--"),
         NEW env, NEW file \in Seq(T), Len(file) <= 1
  PROVE  Understood(FlattenSeq(pieces), env, file)
<1> DEFINE args == FlattenSeq(pieces)
           parsed == GoParse(args)
           given == parsed.given
<1>1. /\ given \in DocumentedGiven(T)
      /\ parsed = [given |-> given, flag |-> Absent, state |-> "flags"]
      /\ TsParse(args).given = given
  BY DocumentedLineParsed
<1>2. parsed.flag = Absent /\ parsed.state = "flags"
  <2> HIDE DEF parsed
  <2> QED
    BY <1>1
<1> HIDE DEF args
<1> DEFINE operations == GoOperations(given["--operations"])
           help == given["--help"]
           iterations == GoCount(given["--iterations"], 50)
           concurrency == GoConcurrency(given["--concurrency"])
           endpoint == AuthEndpoint(given["--endpoint"], GoEnvironment(env, file))
           accepted ==
             [status |-> "accepted", iterations |-> iterations, concurrency |-> concurrency,
              operations |-> operations, keep |-> given["--keep-buckets"] # Absent,
              endpoint |-> endpoint]
<1>3. /\ operations = TsOperations(given["--operations"])
      /\ \A i \in DOMAIN operations : operations[i] \in OperationName
      /\ \A f \in Counts :
           /\ GoCount(given[f], 1) >= 0
           /\ TsCount(given[f], 1) = GoCount(given[f], 1)
           /\ TsCount(given[f], 50) = GoCount(given[f], 50)
      /\ GoEnvironment(env, file) = TsEnvironment(env, file)
  <2> HIDE DEF given
  <2> QED
    BY <1>1, ToolsAgree
<1>4. GoOptions(args, env, file) = IF help # Absent THEN Help ELSE accepted
  <2> DEFINE wrong == parsed.state = "error" \/ parsed.flag # Absent
             unknown == \E i \in DOMAIN operations : operations[i] \notin OperationName
  <2>1. GoOptions(args, env, file) =
          CASE wrong -> Rejected
            [] ~wrong /\ help # Absent -> Help
            [] ~wrong /\ help = Absent /\ unknown -> Rejected
            [] OTHER -> accepted
    BY Zenon DEF GoOptions
  <2>2. ~wrong /\ ~unknown
    <3>1. parsed.state # "error"
      BY <1>2
    <3> HIDE DEF parsed, given, operations
    <3> QED
      BY <1>2, <1>3, <3>1
  <2> HIDE DEF wrong, unknown, accepted, help
  <2> QED
    BY <2>1, <2>2, Zenon
<1>5. TsOptions(args, env, file) = IF help # Absent THEN Help ELSE accepted
  <2> DEFINE tsOperations == TsOperations(given["--operations"])
             wrong == \E f \in Counts : TsCount(given[f], 1) < 0
             unknown == \E i \in DOMAIN tsOperations : tsOperations[i] \notin OperationName
             tsConcurrency == TsCount(given["--concurrency"], 1)
             taken ==
               [status |-> "accepted",
                iterations |-> TsCount(given["--iterations"], 50),
                concurrency |-> IF tsConcurrency < 1 THEN 1 ELSE tsConcurrency,
                operations |-> tsOperations,
                keep |-> given["--keep-buckets"] # Absent,
                endpoint |-> AuthEndpoint(given["--endpoint"], TsEnvironment(env, file))]
  <2>1. TsOptions(args, env, file) =
          CASE help # Absent -> Help
            [] help = Absent /\ wrong -> Rejected
            [] help = Absent /\ unknown -> Rejected
            [] OTHER -> taken
    <3>1. TsParse(args).given = given
      BY <1>1
    <3> HIDE DEF given
    <3> QED
      BY <3>1, Zenon DEF TsOptions
  <2>2. ~wrong /\ ~unknown
    <3>1. ASSUME NEW f \in Counts PROVE ~(TsCount(given[f], 1) < 0)
      <4> DEFINE go == GoCount(given[f], 1)
                 ts == TsCount(given[f], 1)
      <4>1. go >= 0 /\ ts = go /\ go \in Int
        BY <1>3, CountsAreInts
      <4> HIDE DEF go, ts
      <4> QED
        BY <4>1 DEF ts
    <3>2. \A i \in DOMAIN tsOperations : tsOperations[i] \in OperationName
      BY <1>3
    <3> HIDE DEF given, tsOperations
    <3> QED
      BY <3>1, <3>2
  <2>3. /\ tsOperations = operations
        /\ TsCount(given["--iterations"], 50) = iterations
        /\ (IF tsConcurrency < 1 THEN 1 ELSE tsConcurrency) = concurrency
        /\ AuthEndpoint(given["--endpoint"], TsEnvironment(env, file)) = endpoint
    <3> HIDE DEF given
    <3> QED
      BY <1>3 DEF GoConcurrency, Counts
  <2>4. taken = accepted
    <3> HIDE DEF tsOperations, tsConcurrency, operations, iterations, concurrency, endpoint, given
    <3> QED
      BY <2>3
  <2> HIDE DEF wrong, unknown, accepted, taken, help
  <2> QED
    BY <2>1, <2>2, <2>4, Zenon
<1>6. Help.status # "rejected" /\ accepted.status # "rejected"
  <2>1. Help.status # "rejected"
    BY DEF Help, Rejected
  <2> HIDE DEF operations, iterations, concurrency, endpoint, given
  <2> QED
    BY <2>1
<1> HIDE DEF accepted
<1> QED
  BY <1>4, <1>5, <1>6 DEF Understood, args
-----------------------------------------------------------------------------
(***************************************************************************)
(* The properties                                                          *)
(***************************************************************************)

\* An input stays one of those it was chosen from.
THEOREM InputsStay == Spec => []Init
<1>1. Init /\ [Next]_vars => Init'
  BY DEF Init, Next, vars
<1> QED
  BY <1>1, PTL DEF Spec

\* Each part looks at its own inputs.
LEMMA InputsOfParts ==
  ASSUME Init
  PROVE  /\ part = "sort" => input \in DepthLists
         /\ part = "summarize" => input \in Samples
         /\ part = "name" => input \in [prefix : NamePrefixes, operation : Spellings]
         /\ part = "options" => input \in Lines
         /\ part = "report" => input \in Aggregates
BY DEF Init

\* CleanupRun of both tools.
LEMMA SortsHold == Init => SortsAreSound
<1> SUFFICES ASSUME Init, part = "sort" PROVE SortsAreSound
  BY DEF SortsAreSound
<1>1. input \in Seq(Nat)
  BY InputsOfParts, NumbersAssumption
<1>2. input \in Seq(Int)
  BY <1>1
<1> QED
  BY <1>2, StableOrderSorts, ExchangeOrderSorts DEF SortsAreSound

\* Whatever the manifest's depths and their order, both CleanupRuns remove every
\* bucket and none before a deeper one, and TypeScript's keeps the order of
\* creation among buckets of one depth (provision.go 161-168, provision.ts 136).
THEOREM SortsSound == Spec => []SortsAreSound
BY InputsStay, SortsHold, PTL

\* summarize of both tools.
LEMMA PercentilesHold == Init => PercentilesAreTrue
<1> SUFFICES ASSUME Init, part = "summarize" PROVE PercentilesAreTrue
  BY DEF PercentilesAreTrue
<1>1. input \in Seq(Nat)
  BY InputsOfParts, NumbersAssumption
<1> QED
  BY <1>1, SummaryIsTrue DEF PercentilesAreTrue

\* Whatever the sample and its size, both tools report the same summary, its
\* percentiles are those samples that the definition asks for, and its total lies
\* between count times min and count times max (util.go 64-76, util.ts 35-42,
\* benchmark.go 72-90).
THEOREM PercentilesTrue == Spec => []PercentilesAreTrue
BY InputsStay, PercentilesHold, PTL

\* makeBucketName of both tools, for the buckets of one run.
LEMMA NamesHold == Init => NamesAreSound
<1> SUFFICES ASSUME Init, part = "name", NEW tool \in {"go", "ts"}
             PROVE  LET prefix == IsolatedPrefix(input.prefix, input.operation)
                        name == [bucket \in (DOMAIN BucketSuffixes) \X Randoms |->
                                   BucketName(tool, prefix, BucketSuffixes[bucket[1]],
                                              bucket[2])]
                    IN  /\ \A bucket \in DOMAIN name : IsBucketName(name[bucket])
                        /\ Len(SanitizeBucketPart(input.prefix)) <= WholePrefixLength =>
                             IsInjective(name)
  BY DEF NamesAreSound
<1> DEFINE whole == IsolatedPrefix(input.prefix, input.operation)
           buckets == (DOMAIN BucketSuffixes) \X Randoms
           name == [bucket \in buckets |-> Name(tool, whole, BucketSuffixes, bucket)]
           short == Len(SanitizeBucketPart(input.prefix)) <= WholePrefixLength
<1>1. /\ input.prefix \in Seq(STRING)
      /\ IsSanitized(input.operation) /\ Len(input.operation) \in 1 .. LongestOperation
  BY InputsOfParts, NamesAssumption
<1>2. /\ \A b \in buckets : IsBucketName(Name(tool, whole, BucketSuffixes, b))
      /\ short => \A b, c \in buckets :
                    Name(tool, whole, BucketSuffixes, b) = Name(tool, whole, BucketSuffixes, c)
                      => b = c
  <2> DEFINE prefix == input.prefix
             operation == input.operation
  <2>1. /\ prefix \in Seq(STRING)
        /\ IsSanitized(operation) /\ Len(operation) \in 1 .. LongestOperation
    BY <1>1
  <2> HIDE DEF prefix, operation
  <2>2. LET isolated == IsolatedPrefix(prefix, operation)
        IN  /\ \A b \in buckets : IsBucketName(Name(tool, isolated, BucketSuffixes, b))
            /\ Len(SanitizeBucketPart(prefix)) <= WholePrefixLength =>
                 \A b, c \in buckets :
                   Name(tool, isolated, BucketSuffixes, b)
                     = Name(tool, isolated, BucketSuffixes, c) => b = c
    BY <2>1, NamesAssumption, SoundNames
  <2> QED
    BY <2>2 DEF prefix, operation
<1>3. name = [bucket \in buckets |->
                BucketName(tool, whole, BucketSuffixes[bucket[1]], bucket[2])]
  BY DEF Name
<1>4. \A bucket \in DOMAIN name : IsBucketName(name[bucket])
  <2> HIDE DEF whole, buckets
  <2> QED
    BY <1>2
<1>5. short => IsInjective(name)
  <2> HIDE DEF whole, buckets, short
  <2> QED
    BY <1>2 DEF IsInjective
<1> HIDE DEF name
<1> QED
  BY <1>3, <1>4, <1>5

\* Whatever the prefix, every name is one that a bucket may have; and with room
\* for the whole name the buckets of a run have different names, as have those of
\* two runs whose random parts differ (util.go 39-48, util.ts 13-19).
THEOREM NamesSound == Spec => []NamesAreSound
BY InputsStay, NamesHold, PTL

\* The command line of both tools.
LEMMA OptionsHold == Init => OptionsAreSound
<1> SUFFICES ASSUME Init, part = "options" PROVE OptionsAreSound
  BY DEF OptionsAreSound
<1> DEFINE pieces == input.pieces
           args == FlattenSeq(pieces)
           file == input.file
           go == GoOptions(args, input.env, file)
           ts == TsOptions(args, input.env, file)
<1>1. pieces \in Seq(Seq(STRING)) /\ file \in Seq(STRING)
  BY InputsOfParts, LinesAssumption
<1>2. AcceptsSound(go) /\ AcceptsSound(ts) /\ ts.iterations >= 0
  BY AcceptedOptions
<1>3. ASSUME \A i \in DOMAIN pieces : IsDocumented(pieces[i]), Len(file) <= 1
      PROVE  go = ts /\ go.status # "rejected"
  <2> HIDE DEF pieces, file
  <2>1. \A f \in Flags : StartsWith(f, "--")
    BY LinesAssumption
  <2>2. Understood(FlattenSeq(pieces), input.env, file)
    BY <1>1, <1>3, <2>1, DocumentedLinesAgree
  <2> QED
    BY <2>2 DEF Understood
<1> HIDE DEF go, ts
<1>4. \A options \in {go, ts} : options.status = "accepted" =>
        /\ options.operations # <<>>
        /\ \A i \in DOMAIN options.operations : options.operations[i] \in OperationName
        /\ options.concurrency >= 1
  BY <1>2 DEF AcceptsSound
<1> QED
  BY <1>2, <1>3, <1>4 DEF OptionsAreSound, go, ts

\* Whatever the command line, a suite gets operations that it knows, one at
\* least, a positive concurrency and in TypeScript no negative count; and a line
\* of any length that is written as documented means the same to both tools
\* (config.go 67-121, config.ts 57-168).
THEOREM OptionsSound == Spec => []OptionsAreSound
BY InputsStay, OptionsHold, PTL

\* The reports of both tools.
LEMMA ReportHolds == Init => ReportIsSound
<1> SUFFICES ASSUME Init, part = "report",
                    NEW report \in GoReports(input, Depth) \union {TsReport(input, Depth)}
             PROVE  SoundReport(input, Depth, report)
  BY DEF ReportIsSound, SoundReport
<1>1. Depth \in [DOMAIN Depth -> Nat] /\ ReportInputs(input, Depth)
  BY InputsOfParts, AggregatesAssumption DEF ReportInputs, Result
<1> QED
  BY <1>1, ReportsAreSound

\* Whatever was measured, every result stands in one row of its operation's
\* section, rows go by depth, and a ratio is taken against the normal bucket of
\* the same operation (report.go 24-101, report.ts).
THEOREM ReportSound == Spec => []ReportIsSound
BY InputsStay, ReportHolds, PTL
===============================================================================
