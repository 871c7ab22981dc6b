------------------------- MODULE AttributionProofs -------------------------
(***************************************************************************)
(* Theorems about Attribution, for any command lines, requests and disk,   *)
(* whichever processes exit while they are read and whatever the user      *)
(* answers.                                                                *)
(***************************************************************************)
EXTENDS Attribution, WellFoundedInduction, TLAPS

-----------------------------------------------------------------------------
(* Numbers, and loops that end. *)

\* A set of numbers that is not empty has a least one.
LEMMA Least ==
  ASSUME NEW T \in SUBSET Nat, T # {}
  PROVE  \E m \in T : \A n \in T : m <= n
<1> DEFINE Less == {p \in Nat \X Nat : p[1] < p[2]}
<1>1. IsWellFoundedOn(Less, Nat)
  BY NatLessThanWellFounded, Zenon DEF OpToRel
<1>2. PICK m \in T : \A n \in T : ~(<<n, m>> \in Less)
  <2> HIDE DEF Less
  <2> QED
    BY <1>1, WFMin
<1>3. ASSUME NEW n \in T, n < m
      PROVE  FALSE
  <2>1. <<n, m>> \in Nat \X Nat
    OBVIOUS
  <2>2. <<n, m>>[1] < <<n, m>>[2]
    BY <1>3
  <2>3. <<n, m>> \in Less
    BY <2>1, <2>2, Zenon
  <2> QED
    BY <2>3, <1>2, Zenon
<1> HIDE DEF Less
<1> QED
  BY <1>3

\* And a greatest one, if it is bounded: what Max is.
LEMMA Greatest ==
  ASSUME NEW n \in Nat, NEW T \in SUBSET (1..n), T # {}
  PROVE  Max(T) \in T /\ \A i \in T : i <= Max(T)
<1> DEFINE D == {n - i : i \in T}
<1>1. D \in SUBSET Nat /\ D # {}
  <2>1. ASSUME NEW i \in T PROVE n - i \in Nat
    OBVIOUS
  <2>2. PICK i \in T : TRUE
    OBVIOUS
  <2>3. n - i \in D
    OBVIOUS
  <2> QED
    BY <2>1, <2>3
<1>2. PICK m \in D : \A d \in D : m <= d
  <2> HIDE DEF D
  <2> QED
    BY <1>1, Least
<1>3. PICK x \in T : m = n - x
  OBVIOUS
<1>4. \A y \in T : x >= y
  <2> SUFFICES ASSUME NEW y \in T PROVE x >= y
    OBVIOUS
  <2>1. n - y \in D
    OBVIOUS
  <2>2. n - x <= n - y
    BY <1>2, <1>3, <2>1
  <2>3. x \in 1..n /\ y \in 1..n
    OBVIOUS
  <2> QED
    BY <2>2, <2>3
<1>5. \E z \in T : \A y \in T : z >= y
  BY <1>4
<1>6. Max(T) \in T /\ \A y \in T : Max(T) >= y
  BY <1>5, Zenon DEF Max
<1> QED
  BY <1>6

\* What Min is.
LEMMA Smallest ==
  ASSUME NEW T \in SUBSET Nat, T # {}
  PROVE  Min(T) \in T /\ \A i \in T : Min(T) <= i
<1>1. \E x \in T : \A y \in T : x <= y
  BY Least
<1> QED
  BY <1>1, Zenon DEF Min

\* A loop that goes on from each place to the next, until a place where it stops,
\* and can not go on for ever.
Ending(D, next, Stop) ==
  /\ next \in [D -> D]
  /\ Stop \in SUBSET D
  /\ \A S \in SUBSET D : S # {} => \E x \in S : x \in Stop \/ next[x] \notin S

\* It has a result, as a function of where it starts.
LEMMA LoopEnds ==
  ASSUME NEW D, NEW next, NEW Stop, Ending(D, next, Stop)
  PROVE  \E f \in [D -> Stop] : \A x \in D : f[x] = IF x \in Stop THEN x ELSE f[next[x]]
<1> USE DEF Ending
<1> DEFINE Closed(S) == \A y \in S : y \notin Stop => next[y] \in S
           On(x) == {y \in D : \A S \in SUBSET D : Closed(S) /\ x \in S => y \in S}
           Ends(x) == On(x) \cap Stop
<1>1. ASSUME NEW x \in D
      PROVE  x \in On(x) /\ On(x) \in SUBSET D /\ Closed(On(x))
  OBVIOUS
<1>2. ASSUME NEW x \in D
      PROVE  Ends(x) # {}
  <2>1. PICK z \in On(x) : z \in Stop \/ next[z] \notin On(x)
    <3> HIDE DEF On
    <3> QED
      BY <1>1
  <2> HIDE DEF On
  <2> QED
    BY <1>1, <2>1
<1>3. ASSUME NEW x \in Stop
      PROVE  Ends(x) = {x}
  <2>1. {x} \in SUBSET D /\ Closed({x}) /\ x \in D
    BY <1>3
  <2>2. On(x) \subseteq {x}
    BY <2>1
  <2> HIDE DEF On
  <2> QED
    BY <1>1, <2>1, <2>2
<1>4. ASSUME NEW x \in D, x \notin Stop
      PROVE  Ends(x) \subseteq Ends(next[x])
  <2> DEFINE W == {x} \cup On(next[x])
  <2>1. next[x] \in D
    OBVIOUS
  <2>2. W \in SUBSET D /\ Closed(W) /\ x \in W
    <3>1. next[x] \in On(next[x]) /\ On(next[x]) \in SUBSET D /\ Closed(On(next[x]))
      BY <1>1, <2>1
    <3> HIDE DEF On
    <3> QED
      BY <3>1
  <2>3. On(x) \subseteq W
    <3> HIDE DEF W
    <3> QED
      BY <2>2
  <2> HIDE DEF On
  <2> QED
    BY <1>4, <2>3
<1> HIDE DEF Ends
<1>5. \A x \in D : \A y, z \in Ends(x) : y = z
  <2> DEFINE B == {x \in D : \E y, z \in Ends(x) : y # z}
  <2>1. SUFFICES ASSUME B # {} PROVE FALSE
    OBVIOUS
  <2>2. PICK x \in B : x \in Stop \/ next[x] \notin B
    BY <2>1
  <2>3. CASE x \in Stop
    BY <1>3, <2>2, <2>3
  <2>4. CASE x \notin Stop
    BY <1>4, <2>2, <2>4
  <2> QED
    BY <2>3, <2>4
<1> DEFINE f == [x \in D |-> CHOOSE y : y \in Ends(x)]
<1>6. \A x \in D : f[x] \in Ends(x)
  BY <1>2
<1>7. ASSUME NEW x \in D
      PROVE  f[x] = IF x \in Stop THEN x ELSE f[next[x]]
  <2> HIDE DEF f
  <2>1. CASE x \in Stop
    BY <1>3, <1>6, <2>1
  <2>2. CASE x \notin Stop
    <3>1. f[x] \in Ends(next[x]) /\ f[next[x]] \in Ends(next[x]) /\ next[x] \in D
      BY <1>4, <1>6, <2>2
    <3> QED
      BY <1>5, <2>2, <3>1
  <2> QED
    BY <2>1, <2>2
<1>8. f \in [D -> Stop]
  BY <1>6 DEF Ends
<1> HIDE DEF f
<1> QED
  BY <1>7, <1>8

-----------------------------------------------------------------------------
(* The words of a command line. *)

\* The run of flags in front of a word is there.
LEMMA BehindIs ==
  ASSUME NEW args, NEW from \in Nat, NEW takes, NEW i \in Nat, from <= i
  PROVE  LET n == Behind(args, from, takes, i)
         IN  /\ n \in 0..i - from
             /\ \A j \in i - n..i - 1 : args[j] \in takes
             /\ i - n > from => args[i - n - 1] \notin takes
<1> DEFINE T == {n \in 0..i - from : i - n > from => args[i - n - 1] \notin takes}
<1>1. T \in SUBSET Nat /\ i - from \in T
  OBVIOUS
<1>2. PICK n \in T : \A m \in T : n <= m
  <2> HIDE DEF T
  <2> QED
    BY <1>1, Least
<1>3. ASSUME NEW j \in i - n..i - 1
      PROVE  args[j] \in takes
  <2>1. i - 1 - j \notin T /\ i - 1 - j \in 0..i - from
    <3>1. i - 1 - j \in 0..i - from /\ ~(n <= i - 1 - j)
      OBVIOUS
    <3> HIDE DEF T
    <3> QED
      BY <1>2, <3>1
  <2>2. i - (i - 1 - j) - 1 = j
    OBVIOUS
  <2> QED
    BY <2>1, <2>2
<1>4. \E m \in 0..i - from : /\ \A j \in i - m..i - 1 : args[j] \in takes
                             /\ i - m > from => args[i - m - 1] \notin takes
  BY <1>2, <1>3
<1> QED
  BY <1>4, Zenon DEF Behind

\* It grows by the flag in front of the word, or ends there.
LEMMA BehindNext ==
  ASSUME NEW args, NEW from \in Nat, NEW takes, NEW i \in Nat, from <= i
  PROVE  /\ Behind(args, from, takes, i) \in Nat
         /\ i = from => Behind(args, from, takes, i) = 0
         /\ i > from => Behind(args, from, takes, i) =
              IF args[i - 1] \in takes THEN Behind(args, from, takes, i - 1) + 1 ELSE 0
<1> DEFINE b == Behind(args, from, takes, i)
           c == Behind(args, from, takes, i - 1)
<1>1. /\ b \in 0..i - from
      /\ \A j \in i - b..i - 1 : args[j] \in takes
      /\ i - b > from => args[i - b - 1] \notin takes
  BY BehindIs
<1>2. ASSUME i > from
      PROVE  b = IF args[i - 1] \in takes THEN c + 1 ELSE 0
  <2>1. i - 1 \in Nat /\ from <= i - 1
    BY <1>2
  <2>2. /\ c \in 0..i - 1 - from
        /\ \A j \in i - 1 - c..i - 1 - 1 : args[j] \in takes
        /\ i - 1 - c > from => args[i - 1 - c - 1] \notin takes
    BY <2>1, BehindIs
  <2> HIDE DEF b, c
  <2>3. CASE args[i - 1] \notin takes
    BY <1>1, <2>3
  <2>4. CASE args[i - 1] \in takes
    <3>1. b >= 1
      BY <1>1, <1>2, <2>4
    <3>2. CASE b - 1 < c
      <4>1. i - b > from /\ i - b - 1 \in i - 1 - c..i - 1 - 1
        BY <1>1, <2>2, <3>1, <3>2
      <4> QED
        BY <1>1, <2>2, <4>1
    <3>3. CASE b - 1 > c
      <4>1. i - 1 - c > from /\ i - 1 - c - 1 \in i - b..i - 1
        BY <1>1, <2>2, <3>1, <3>3
      <4> QED
        BY <1>1, <2>2, <4>1
    <3> QED
      BY <1>1, <2>2, <2>4, <3>2, <3>3
  <2> QED
    BY <2>3, <2>4
<1> HIDE DEF b, c
<1>3. b \in Nat /\ (i = from => b = 0)
  BY <1>1
<1> QED
  BY <1>2, <1>3 DEF b, c

\* Each flag more turns odd and even around.
LEMMA OddNext ==
  ASSUME NEW b \in Nat
  PROVE  (b + 1) % 2 = 1 <=> ~(b % 2 = 1)
OBVIOUS

\* A word is taken by the flag in front of it when the run of flags is odd.
LEMMA TakenIs ==
  ASSUME NEW args, Len(args) \in Nat, NEW from \in Nat, NEW takes, NEW i \in from..Len(args)
  PROVE  Taken(args, from, takes)[i] <=> Behind(args, from, takes, i) % 2 = 1
<1> DEFINE D == from..Len(args)
           B(k) == Behind(args, from, takes, k)
           odd == [k \in D |-> B(k) % 2 = 1]
           Step(t) == [k \in D |-> k > from /\ args[k - 1] \in takes /\ ~t[k - 1]]
<1>1. ASSUME NEW k \in D
      PROVE  /\ B(k) \in Nat
             /\ k = from => B(k) = 0
             /\ k > from => k - 1 \in D /\ B(k) = IF args[k - 1] \in takes THEN B(k - 1) + 1 ELSE 0
  BY BehindNext
<1> HIDE DEF B
<1>2. ASSUME NEW k \in D
      PROVE  (B(k) % 2 = 1) <=> (k > from /\ args[k - 1] \in takes /\ ~(B(k - 1) % 2 = 1))
  <2>1. CASE k = from
    BY <1>1, <2>1
  <2>2. CASE k > from
    <3>1. k - 1 \in D /\ B(k - 1) \in Nat
      BY <1>1, <2>2
    <3>2. B(k) = IF args[k - 1] \in takes THEN B(k - 1) + 1 ELSE 0
      BY <1>1, <2>2
    <3>3. CASE args[k - 1] \in takes
      <4>1. B(k) % 2 = 1 <=> ~(B(k - 1) % 2 = 1)
        BY <3>1, <3>2, <3>3, OddNext
      <4> QED
        BY <2>2, <3>3, <4>1, Zenon
    <3>4. CASE args[k - 1] \notin takes
      BY <3>2, <3>4
    <3> QED
      BY <3>3, <3>4
  <2> QED
    BY <1>1, <2>1, <2>2
<1>3. odd = Step(odd)
  <2>1. ASSUME NEW k \in D
        PROVE  (k > from /\ args[k - 1] \in takes /\ ~odd[k - 1]) <=> (B(k) % 2 = 1)
    <3>1. CASE k > from
      <4>1. odd[k - 1] = (B(k - 1) % 2 = 1)
        BY <1>1, <3>1
      <4> QED
        BY <1>2, <4>1, Zenon
    <3>2. CASE ~(k > from)
      BY <1>2, <3>2, Zenon
    <3> QED
      BY <3>1, <3>2
  <2>2. \A k \in D : (k > from /\ args[k - 1] \in takes /\ ~odd[k - 1]) = (B(k) % 2 = 1)
    BY <2>1, Zenon
  <2> QED
    BY <2>2, Zenon
<1> DEFINE t == Taken(args, from, takes)
<1>4. t = Step(t)
  <2> HIDE DEF odd
  <2> QED
    BY <1>3, Zenon DEF Taken
<1> HIDE DEF t
<1>5. ASSUME NEW k \in D
      PROVE  t[k] <=> (k > from /\ args[k - 1] \in takes /\ ~t[k - 1])
  BY <1>4, Zenon
<1> DEFINE W == {k \in D : ~(t[k] <=> B(k) % 2 = 1)}
<1>6. SUFFICES ASSUME W # {} PROVE FALSE
  BY Zenon DEF B, t
<1>7. PICK k \in W : \A m \in W : k <= m
  <2>1. W \in SUBSET Nat
    OBVIOUS
  <2> HIDE DEF W
  <2> QED
    BY <1>6, <2>1, Least
<1>8. CASE k > from
  <2>1. k - 1 \in D /\ k - 1 \notin W /\ k \in D
    BY <1>7, <1>8
  <2>2. t[k - 1] <=> B(k - 1) % 2 = 1
    BY <2>1, Zenon
  <2> QED
    BY <1>2, <1>5, <1>7, <2>1, <2>2, Zenon
<1>9. CASE ~(k > from)
  BY <1>2, <1>5, <1>7, <1>9, Zenon
<1> QED
  BY <1>8, <1>9

\* The words that a loop does not pass by are the operands.
LEMMA WordsAre ==
  ASSUME NEW args, Len(args) \in Nat, NEW from \in Nat, NEW takes
  PROVE  Operands(args, from, takes) =
           {i \in from..Len(args) : ~Taken(args, from, takes)[i] /\ args[i] \notin Dashed}
<1>1. ASSUME NEW i \in from..Len(args)
      PROVE  ~Taken(args, from, takes)[i] <=> Behind(args, from, takes, i) % 2 = 0
  <2>1. Behind(args, from, takes, i) \in Nat
    BY BehindNext
  <2>2. Behind(args, from, takes, i) % 2 = 0 <=> ~(Behind(args, from, takes, i) % 2 = 1)
    BY <2>1
  <2> QED
    BY <2>2, TakenIs, Zenon
<1> QED
  BY <1>1, Zenon DEF Operands

\* Tables that do not differ on the words find the same operands.
LEMMA OperandsAgree ==
  ASSUME NEW args, Len(args) \in Nat, NEW from \in Nat, NEW A, NEW B, Agree(args, from, A, B)
  PROVE  /\ Operands(args, from, A) = Operands(args, from, B)
         /\ FirstOperand(args, from, A) = FirstOperand(args, from, B)
<1> DEFINE D == from..Len(args)
           P(k) == Behind(args, from, A, k)
           Q(k) == Behind(args, from, B, k)
           W == {k \in D : P(k) # Q(k)}
<1>1. ASSUME NEW k \in D
      PROVE  /\ k = from => P(k) = 0 /\ Q(k) = 0
             /\ k > from => /\ k - 1 \in D
                            /\ P(k) = IF args[k - 1] \in A THEN P(k - 1) + 1 ELSE 0
                            /\ Q(k) = IF args[k - 1] \in B THEN Q(k - 1) + 1 ELSE 0
  BY BehindNext
<1> HIDE DEF P, Q
<1>2. W = {}
  <2>1. SUFFICES ASSUME W # {} PROVE FALSE
    OBVIOUS
  <2>2. PICK k \in W : \A m \in W : k <= m
    <3>1. W \in SUBSET Nat
      OBVIOUS
    <3> HIDE DEF W
    <3> QED
      BY <2>1, <3>1, Least
  <2>3. CASE k = from
    BY <1>1, <2>2, <2>3
  <2>4. CASE k > from
    <3>1. k - 1 \in D /\ k - 1 \notin W
      BY <1>1, <2>2, <2>4
    <3>2. args[k - 1] \in A <=> args[k - 1] \in B
      BY <3>1 DEF Agree
    <3> QED
      BY <1>1, <2>2, <2>4, <3>1, <3>2
  <2> QED
    BY <2>2, <2>3, <2>4
<1>3. \A i \in D : Behind(args, from, A, i) = Behind(args, from, B, i)
  BY <1>2 DEF P, Q
<1>4. Operands(args, from, A) = Operands(args, from, B)
  BY <1>3 DEF Operands
<1> QED
  BY <1>4, Zenon DEF FirstOperand

\* split_ssh's loop, from each place on.
LEMMA OperandLoop ==
  ASSUME NEW S, NEW args \in Seq(S)
  PROVE  \E at : /\ OperandFrom(args) = at[2]
                 /\ at = [i \in 2..Len(args) + 2 |->
                            IF i > Len(args) THEN i
                            ELSE IF args[i] \in SSH_TAKES_ARG THEN at[i + 2]
                            ELSE IF args[i] \in Dashed THEN at[i + 1] ELSE i]
<1> DEFINE D == 2..Len(args) + 2
           Flag(i) == args[i] \in SSH_TAKES_ARG
           Stop == {i \in D : i > Len(args) \/ ~(Flag(i) \/ args[i] \in Dashed)}
           next == [i \in D |-> IF i > Len(args) THEN i ELSE IF Flag(i) THEN i + 2 ELSE i + 1]
           Body(f) == [i \in D |-> IF i > Len(args) THEN i
                                   ELSE IF args[i] \in SSH_TAKES_ARG THEN f[i + 2]
                                   ELSE IF args[i] \in Dashed THEN f[i + 1] ELSE i]
<1> HIDE DEF Flag
<1>1. Len(args) \in Nat
  OBVIOUS
<1>2. next \in [D -> D]
  BY <1>1
<1>3. ASSUME NEW T \in SUBSET D, T # {}
      PROVE  \E x \in T : x \in Stop \/ next[x] \notin T
  <2>1. T \in SUBSET (1..Len(args) + 2) /\ Len(args) + 2 \in Nat
    BY <1>1
  <2>2. PICK x \in T : \A y \in T : y <= x
    BY <1>3, <2>1, Greatest
  <2>3. CASE x > Len(args)
    BY <2>3
  <2>4. CASE ~(x > Len(args))
    <3>1. next[x] > x /\ next[x] \in Nat /\ x \in Nat
      BY <1>1, <2>4
    <3> HIDE DEF next, D
    <3> QED
      BY <2>2, <3>1
  <2> QED
    BY <2>3, <2>4
<1>4. PICK f \in [D -> Stop] : \A x \in D : f[x] = IF x \in Stop THEN x ELSE f[next[x]]
  <2>1. Stop \in SUBSET D
    OBVIOUS
  <2>2. \A T \in SUBSET D : T # {} => \E x \in T : x \in Stop \/ next[x] \notin T
    BY <1>3
  <2>3. Ending(D, next, Stop)
    BY <1>2, <2>1, <2>2, Zenon DEF Ending
  <2> HIDE DEF D, Stop, next
  <2> QED
    BY <2>3, LoopEnds
<1>5. f = Body(f)
  <2>1. ASSUME NEW i \in D
        PROVE  (IF i \in Stop THEN i ELSE f[next[i]]) = Body(f)[i]
    BY <1>1 DEF Flag
  <2> HIDE DEF D, Stop, next
  <2> QED
    BY <1>4, <2>1
<1>6. \E at : at = Body(at)
  BY <1>5
<1> QED
  BY <1>6, Zenon DEF OperandFrom

\* It stops at the first operand, or past the end.
LEMMA OperandFirst ==
  ASSUME NEW S, NEW args \in Seq(S)
  PROVE  LET r   == OperandFrom(args)
             ops == Operands(args, 2, SSH_TAKES_ARG)
         IN  r \in Nat /\ (r <= Len(args) => r \in ops) /\ \A j \in ops : r <= j
<1> DEFINE D == 2..Len(args) + 2
           ops == Operands(args, 2, SSH_TAKES_ARG)
           B(i) == Behind(args, 2, SSH_TAKES_ARG, i)
<1>1. PICK at : /\ OperandFrom(args) = at[2]
                /\ at = [i \in D |-> IF i > Len(args) THEN i
                                     ELSE IF args[i] \in SSH_TAKES_ARG THEN at[i + 2]
                                     ELSE IF args[i] \in Dashed THEN at[i + 1] ELSE i]
  BY OperandLoop
<1>2. Len(args) \in Nat /\ SSH_TAKES_ARG \subseteq Dashed
  BY PurposeAssumption
<1>3. ASSUME NEW i \in D
      PROVE  at[i] = IF i > Len(args) THEN i
                     ELSE IF args[i] \in SSH_TAKES_ARG THEN at[i + 2]
                     ELSE IF args[i] \in Dashed THEN at[i + 1] ELSE i
  BY <1>1, Zenon
<1>4. B(2) = 0
  BY BehindNext
<1>5. ASSUME NEW i \in D
      PROVE  /\ B(i) \in Nat
             /\ B(i + 1) = IF args[i] \in SSH_TAKES_ARG THEN B(i) + 1 ELSE 0
  <2>1. i \in Nat /\ i + 1 \in Nat /\ 2 <= i /\ i + 1 > 2 /\ i + 1 - 1 = i /\ 2 <= i + 1
    BY <1>2
  <2>2. B(i) \in Nat
    BY <2>1, BehindNext
  <2>3. B(i + 1) = IF args[i + 1 - 1] \in SSH_TAKES_ARG THEN B(i + 1 - 1) + 1 ELSE 0
    BY <2>1, BehindNext
  <2> QED
    BY <2>1, <2>2, <2>3
<1>6. ASSUME NEW j \in ops
      PROVE  j \in 2..Len(args) /\ args[j] \notin Dashed /\ B(j) % 2 = 0
  BY DEF Operands
<1>7. ASSUME NEW j \in 2..Len(args), args[j] \notin Dashed, B(j) % 2 = 0
      PROVE  j \in ops
  BY <1>7 DEF Operands
<1> HIDE DEF ops, B
<1> DEFINE First(i) == /\ at[i] \in Nat
                       /\ at[i] <= Len(args) => at[i] \in ops
                       /\ \A j \in ops : i <= j => at[i] <= j
           Bad == {i \in D : B(i) % 2 = 0 /\ ~First(i)}
<1>8. Bad = {}
  <2> SUFFICES ASSUME Bad # {} PROVE FALSE
    OBVIOUS
  <2>1. PICK i \in Bad : \A k \in Bad : k <= i
    <3>1. Bad \in SUBSET (1..Len(args) + 2) /\ Len(args) + 2 \in Nat
      BY <1>2
    <3> HIDE DEF Bad
    <3> QED
      BY <3>1, Greatest
  <2>2. i \in D /\ B(i) % 2 = 0 /\ ~First(i) /\ B(i) \in Nat
    BY <1>5, <2>1
  <2>3. ASSUME NEW k \in D, k > i, B(k) % 2 = 0
        PROVE  First(k)
    <3>1. ~(k <= i)
      BY <1>2, <2>2, <2>3
    <3>2. k \notin Bad
      BY <2>1, <3>1, Zenon
    <3> QED
      BY <2>3, <3>2, Zenon
  <2>4. CASE i > Len(args)
    BY <1>2, <1>3, <1>6, <2>2, <2>4
  <2>5. CASE ~(i > Len(args)) /\ args[i] \in SSH_TAKES_ARG
    <3>1. i + 1 \in D /\ i + 2 \in D /\ i + 1 + 1 = i + 2 /\ i + 2 > i
      BY <1>2, <2>2, <2>5
    <3>2. B(i + 1) = B(i) + 1 /\ (B(i + 2) = 0 \/ B(i + 2) = B(i) + 2)
      BY <1>5, <2>2, <2>5, <3>1
    <3>3. B(i + 1) % 2 # 0 /\ B(i + 2) % 2 = 0
      BY <2>2, <3>2
    <3>4. First(i + 2)
      BY <2>3, <3>1, <3>3
    <3>5. at[i] = at[i + 2]
      BY <1>3, <2>2, <2>5
    <3>6. ASSUME NEW j \in ops, i <= j
          PROVE  i + 2 <= j
      <4>1. j # i /\ j # i + 1 /\ j \in Nat
        BY <1>2, <1>6, <2>5, <3>3
      <4> QED
        BY <1>2, <2>2, <3>6, <4>1
    <3> QED
      BY <2>2, <3>4, <3>5, <3>6
  <2>6. CASE ~(i > Len(args)) /\ args[i] \notin SSH_TAKES_ARG /\ args[i] \in Dashed
    <3>1. i + 1 \in D /\ i + 1 > i
      BY <1>2, <2>2, <2>6
    <3>2. B(i + 1) % 2 = 0
      BY <1>5, <2>2, <2>6
    <3>3. First(i + 1)
      BY <2>3, <3>1, <3>2
    <3>4. at[i] = at[i + 1]
      BY <1>3, <2>2, <2>6
    <3>5. ASSUME NEW j \in ops, i <= j
          PROVE  i + 1 <= j
      <4>1. j # i /\ j \in Nat
        BY <1>2, <1>6, <2>6
      <4> QED
        BY <1>2, <2>2, <3>5, <4>1
    <3> QED
      BY <2>2, <3>3, <3>4, <3>5
  <2>7. CASE ~(i > Len(args)) /\ args[i] \notin SSH_TAKES_ARG /\ args[i] \notin Dashed
    <3>1. at[i] = i /\ i \in 2..Len(args)
      BY <1>2, <1>3, <2>2, <2>7
    <3>2. i \in ops
      BY <1>7, <2>2, <2>7, <3>1
    <3> QED
      BY <2>2, <3>1, <3>2
  <2> QED
    BY <2>4, <2>5, <2>6, <2>7
<1>9. First(2)
  <2>1. 2 \in D /\ B(2) % 2 = 0
    BY <1>2, <1>4
  <2> QED
    BY <1>8, <2>1
<1>10. \A j \in ops : 2 <= j
  BY <1>6
<1> QED
  BY <1>1, <1>9, <1>10 DEF ops

\* Whatever the command line, the log and the scope have its first operand for
\* host (destination_from, split_ssh).
THEOREM LineHasOneHost ==
  ASSUME NEW S, NEW args \in Seq(S)
  PROVE  OneHost(args)
<1> DEFINE ops == Operands(args, 2, SSH_TAKES_ARG)
           r == OperandFrom(args)
<1>1. Len(args) \in Nat
  OBVIOUS
<1>2. TAKES_ARG = SSH_TAKES_ARG
  BY DEF TAKES_ARG, SSH_TAKES_ARG
<1>3. ops = {i \in 2..Len(args) : ~Taken(args, 2, TAKES_ARG)[i] /\ args[i] \notin Dashed}
  BY <1>1, <1>2, WordsAre
<1>4. destination_from(args) = FirstOperand(args, 2, SSH_TAKES_ARG)
  BY <1>3, Zenon DEF destination_from, FirstOperand
<1>5. r \in Nat /\ (r <= Len(args) => r \in ops) /\ \A j \in ops : r <= j
  BY OperandFirst
<1>6. ops \in SUBSET Nat /\ \A j \in ops : j <= Len(args)
  BY <1>1 DEF Operands
<1> HIDE DEF ops, r
<1>7. CASE ops = {}
  <2>1. r > Len(args)
    BY <1>1, <1>5, <1>7
  <2>2. SubSeq(args, r + 1, Len(args)) = <<>>
    BY <1>1, <1>5, <2>1
  <2> QED
    BY <1>4, <1>7, <2>1, <2>2 DEF OneHost, split_ssh, FirstOperand, ops, r
<1>8. CASE ops # {}
  <2>1. Min(ops) \in ops /\ \A j \in ops : Min(ops) <= j
    BY <1>6, <1>8, Smallest
  <2>2. r = Min(ops) /\ ~(r > Len(args))
    <3> DEFINE m == Min(ops)
    <3>1. m \in ops /\ \A j \in ops : m <= j
      BY <2>1
    <3> HIDE DEF m
    <3>2. m \in Nat /\ m <= Len(args) /\ r <= m
      BY <1>5, <1>6, <3>1
    <3>3. r \in ops
      BY <1>1, <1>5, <3>2
    <3>4. r = m /\ ~(r > Len(args))
      BY <1>1, <1>5, <3>1, <3>2, <3>3
    <3> QED
      BY <3>4 DEF m
  <2> QED
    BY <1>4, <1>8, <2>2 DEF OneHost, split_ssh, FirstOperand, ops, r
<1> QED
  BY <1>7, <1>8

-----------------------------------------------------------------------------
(* The disk. *)

\* repo_root's loop.
LEMMA RootLoop ==
  ASSUME NEW p \in Path
  PROVE  repo_root[p] = IF DotGit[p] # None THEN p
                        ELSE IF ParentOf[p] = None THEN None ELSE repo_root[ParentOf[p]]
<1> DEFINE D == Path \cup {None}
           Stop == {q \in D : q = None \/ DotGit[q] # None}
           next == [q \in D |-> IF q = None THEN None ELSE ParentOf[q]]
           Body(f) == [q \in Path |-> IF DotGit[q] # None THEN q
                                      ELSE IF ParentOf[q] = None THEN None ELSE f[ParentOf[q]]]
<1>1. None \notin Path /\ ParentOf \in [Path -> D]
  BY PurposeAssumption
<1>2. next \in [D -> D] /\ Stop \in SUBSET D
  BY <1>1
<1>3. ASSUME NEW T \in SUBSET D, T # {}
      PROVE  \E x \in T : x \in Stop \/ next[x] \notin T
  <2>1. CASE None \in T
    BY <2>1
  <2>2. CASE None \notin T
    <3>1. T \in SUBSET Path
      BY <2>2
    <3>2. PICK x \in T : ParentOf[x] \notin T
      BY <1>3, <3>1, PurposeAssumption
    <3> QED
      BY <1>1, <3>1, <3>2
  <2> QED
    BY <2>1, <2>2
<1>4. Ending(D, next, Stop)
  BY <1>2, <1>3, Zenon DEF Ending
<1>5. PICK f \in [D -> Stop] : \A x \in D : f[x] = IF x \in Stop THEN x ELSE f[next[x]]
  <2> HIDE DEF D, Stop, next
  <2> QED
    BY <1>4, LoopEnds
<1> DEFINE g == [q \in Path |-> f[q]]
<1>6. g = Body(g)
  <2>1. ASSUME NEW q \in Path
        PROVE  f[q] = Body(g)[q]
    <3>1. CASE DotGit[q] # None
      BY <1>5, <3>1
    <3>2. CASE DotGit[q] = None /\ ParentOf[q] = None
      <4>1. f[q] = f[None] /\ f[None] = None
        BY <1>1, <1>5, <3>2
      <4> QED
        BY <3>2, <4>1
    <3>3. CASE DotGit[q] = None /\ ParentOf[q] # None
      <4>1. f[q] = f[ParentOf[q]] /\ ParentOf[q] \in Path
        BY <1>1, <1>5, <3>3
      <4> QED
        BY <3>3, <4>1
    <3> QED
      BY <3>1, <3>2, <3>3
  <2> QED
    BY <2>1
<1>7. \E h : h = Body(h)
  <2> HIDE DEF g
  <2> QED
    BY <1>6
<1>8. repo_root = Body(repo_root)
  BY <1>7, Zenon DEF repo_root
<1> QED
  BY <1>8, Zenon

\* It ends at a directory with a `.git`, or finds none.
LEMMA RootIs ==
  ASSUME NEW p \in Path
  PROVE  /\ repo_root[p] \in Path \cup {None}
         /\ repo_root[p] # None => DotGit[repo_root[p]] # None
         /\ DotGit[p] # None => repo_root[p] = p
<1> DEFINE Fine(q) == /\ repo_root[q] \in Path \cup {None}
                      /\ repo_root[q] # None => DotGit[repo_root[q]] # None
           Bad == {q \in Path : ~Fine(q)}
<1>1. ASSUME Bad # {} PROVE FALSE
  <2>1. Bad \in SUBSET Path
    OBVIOUS
  <2>2. PICK q \in Bad : ParentOf[q] \notin Bad
    <3> HIDE DEF Bad
    <3> QED
      BY <1>1, <2>1, PurposeAssumption
  <2>3. q \in Path /\ ~Fine(q) /\ ParentOf[q] \in Path \cup {None}
    BY <2>2, PurposeAssumption
  <2>4. CASE DotGit[q] # None \/ ParentOf[q] = None
    BY <2>3, <2>4, RootLoop
  <2>5. CASE DotGit[q] = None /\ ParentOf[q] # None
    <3>1. Fine(ParentOf[q])
      BY <2>2, <2>3, <2>5
    <3>2. repo_root[q] = repo_root[ParentOf[q]]
      BY <2>3, <2>5, RootLoop
    <3> QED
      BY <2>3, <3>1, <3>2
  <2> QED
    BY <2>4, <2>5
<1>2. Fine(p)
  BY <1>1
<1>3. DotGit[p] # None => repo_root[p] = p
  BY RootLoop
<1> QED
  BY <1>2, <1>3

\* What is above a directory: itself, and what is above its parent.
LEMMA UpIs ==
  ASSUME NEW d \in Path
  PROVE  /\ d \in Up(d) /\ Up(d) \subseteq Path
         /\ ParentOf[d] = None => Up(d) = {d}
         /\ ParentOf[d] # None => ParentOf[d] \in Path /\ Up(d) = {d} \cup Up(ParentOf[d])
         /\ \A p \in Up(d) : Up(p) \subseteq Up(d)
<1> DEFINE Closed(S) == \A q \in S : ParentOf[q] # None => ParentOf[q] \in S
           e == ParentOf[d]
<1>1. ParentOf \in [Path -> Path \cup {None}] /\ None \notin Path
  BY PurposeAssumption
<1>2. ASSUME NEW p \in Path
      PROVE  p \in Up(p) /\ Up(p) \in SUBSET Path /\ Closed(Up(p))
  BY <1>1 DEF Up
<1>3. ASSUME NEW p \in Path, NEW S \in SUBSET Path, p \in S, Closed(S)
      PROVE  Up(p) \subseteq S
  BY <1>3 DEF Up
<1>4. \A p \in Up(d) : Up(p) \subseteq Up(d)
  BY <1>2, <1>3
<1>5. CASE e = None
  <2>1. Up(d) \subseteq {d}
    <3>1. {d} \in SUBSET Path /\ Closed({d})
      BY <1>5
    <3> QED
      BY <1>3, <3>1
  <2> QED
    BY <1>2, <1>4, <1>5, <2>1
<1>6. CASE e # None
  <2>1. e \in Path /\ e \in Up(d)
    BY <1>1, <1>2, <1>6
  <2>2. Up(e) \subseteq Up(d) /\ d \in Up(d)
    BY <1>2, <1>4, <2>1
  <2>3. Up(d) \subseteq {d} \cup Up(e)
    <3> DEFINE W == {d} \cup Up(e)
    <3>1. W \in SUBSET Path /\ Closed(W) /\ d \in W
      BY <1>2, <2>1
    <3> HIDE DEF W
    <3>2. Up(d) \subseteq W
      BY <1>3, <3>1
    <3> QED
      BY <3>2 DEF W
  <2> QED
    BY <1>2, <1>4, <1>6, <2>1, <2>2, <2>3
<1> QED
  BY <1>5, <1>6

\* No two directories are above each other.
LEMMA UpOrders ==
  ASSUME NEW p \in Path, NEW q \in Path, q \in Up(p), p \in Up(q)
  PROVE  p = q
<1> SUFFICES ASSUME p # q PROVE FALSE
  OBVIOUS
<1> DEFINE C == {x \in Up(p) : p \in Up(x)}
<1>1. C \in SUBSET Path /\ p \in C
  BY UpIs
<1>2. PICK x \in C : ParentOf[x] \notin C
  <2> HIDE DEF C
  <2> QED
    BY <1>1, PurposeAssumption
<1>3. x \in Path /\ x \in Up(p) /\ p \in Up(x) /\ ParentOf[x] \notin C
  BY <1>1, <1>2
<1>4. ParentOf[x] # None /\ p \in Up(ParentOf[x])
  <2>1. CASE x = p
    <3>1. ParentOf[p] # None /\ q \in Up(ParentOf[p]) /\ ParentOf[p] \in Path
      BY UpIs
    <3>2. p \in Up(ParentOf[p])
      BY <3>1, UpIs
    <3> QED
      BY <2>1, <3>1, <3>2
  <2>2. CASE x # p
    BY <1>3, <2>2, UpIs
  <2> QED
    BY <2>1, <2>2
<1>5. ParentOf[x] \in Path /\ ParentOf[x] \in Up(x) /\ Up(x) \subseteq Up(p)
  BY <1>3, <1>4, UpIs
<1> QED
  BY <1>3, <1>4, <1>5

\* What repo_root finds is the nearest repository.
LEMMA RootIsNearest ==
  ASSUME NEW d \in Path
  PROVE  RepoAt(d) = repo_root[d]
<1> DEFINE Repos(p) == {x \in Up(p) : DotGit[x] # None}
           Bad == {p \in Path : RepoAt(p) # repo_root[p]}
<1>1. ASSUME NEW p \in Path
      PROVE  RepoAt(p) = IF Repos(p) = {} THEN None
                         ELSE CHOOSE x \in Repos(p) : Repos(p) \subseteq Up(x)
  BY DEF RepoAt
<1>2. SUFFICES ASSUME Bad # {} PROVE FALSE
  OBVIOUS
<1>3. PICK p \in Bad : ParentOf[p] \notin Bad
  <2>1. Bad \in SUBSET Path
    OBVIOUS
  <2> HIDE DEF Bad
  <2> QED
    BY <1>2, <2>1, PurposeAssumption
<1>4. p \in Path /\ RepoAt(p) # repo_root[p] /\ p \in Up(p)
  BY <1>3, UpIs
<1>5. CASE DotGit[p] # None
  <2>1. p \in Repos(p) /\ Repos(p) \subseteq Up(p)
    BY <1>4, <1>5
  <2>2. ASSUME NEW x \in Repos(p), Repos(p) \subseteq Up(x)
        PROVE  x = p
    <3>1. x \in Path /\ x \in Up(p) /\ p \in Up(x)
      BY <1>4, <2>1, <2>2, UpIs
    <3> QED
      BY <1>4, <3>1, UpOrders
  <2> HIDE DEF Repos
  <2>3. (CHOOSE x \in Repos(p) : Repos(p) \subseteq Up(x)) = p
    BY <2>1, <2>2
  <2>4. RepoAt(p) = p
    BY <1>1, <1>4, <2>1, <2>3
  <2> QED
    BY <1>4, <1>5, <2>4, RootLoop
<1>6. CASE DotGit[p] = None /\ ParentOf[p] = None
  <2>1. Repos(p) = {}
    BY <1>4, <1>6, UpIs
  <2> HIDE DEF Repos
  <2> QED
    BY <1>1, <1>4, <1>6, <2>1, RootLoop
<1>7. CASE DotGit[p] = None /\ ParentOf[p] # None
  <2>1. ParentOf[p] \in Path /\ Repos(p) = Repos(ParentOf[p])
    <3>1. ParentOf[p] \in Path /\ Up(p) = {p} \cup Up(ParentOf[p])
      BY <1>4, <1>7, UpIs
    <3> QED
      BY <1>7, <3>1
  <2>2. RepoAt(ParentOf[p]) = repo_root[ParentOf[p]]
    BY <1>3, <2>1
  <2>3. RepoAt(p) = RepoAt(ParentOf[p])
    <3> HIDE DEF Repos
    <3> QED
      BY <1>1, <1>4, <2>1
  <2> QED
    BY <1>4, <1>7, <2>2, <2>3, RootLoop
<1> QED
  BY <1>5, <1>6, <1>7

\* The gitdir that the worktrees share is its own; a checkout it is in is its
\* own main one.
LEMMA CommonIs ==
  ASSUME NEW g \in Gitdir
  PROVE  /\ Common(g) \in Gitdir
         /\ HomeOf[Common(g)] \in Path \cup {None}
         /\ HomeOf[Common(g)] # None =>
              /\ DotGit[HomeOf[Common(g)]] = Common(g)
              /\ Common(Common(g)) = Common(g)
BY ContextAssumption DEF Common

\* The checkout of a directory is a directory of the same repository, and its
\* own checkout.
LEMMA HomeIs ==
  ASSUME NEW d \in Path
  PROVE  /\ Home(d) \in Path /\ Home(Home(d)) = Home(d)
         /\ repo_root[d] = None => Home(d) = d
         /\ repo_root[d] # None =>
              /\ Home(repo_root[d]) = Home(d)
              /\ repo_root[Home(d)] # None
              /\ Common(DotGit[repo_root[Home(d)]]) = Common(DotGit[repo_root[d]])
<1> DEFINE r == repo_root[d]
           c == Common(DotGit[r])
           m == HomeOf[c]
<1>1. CASE r = None
  BY <1>1, RootIsNearest DEF Home
<1>2. CASE r # None
  <2>1. r \in Path /\ DotGit[r] \in Gitdir /\ DotGit[r] # None /\ repo_root[r] = r
    <3>1. r \in Path /\ DotGit[r] # None
      BY <1>2, RootIs
    <3> QED
      BY <3>1, RootIs, ContextAssumption
  <2>2. /\ c \in Gitdir /\ m \in Path \cup {None}
        /\ m # None => DotGit[m] = c /\ Common(c) = c
    BY <2>1, CommonIs
  <2>3. c # None /\ None \notin Path
    BY <2>2, ContextAssumption, PurposeAssumption
  <2>4. Home(d) = (IF m = None THEN r ELSE m) /\ Home(r) = Home(d)
    BY <1>2, <2>1, RootIsNearest DEF Home
  <2>5. CASE m = None
    BY <1>2, <2>1, <2>3, <2>4, <2>5
  <2>6. CASE m # None
    <3>1. m \in Path /\ repo_root[m] = m
      BY <2>2, <2>3, <2>6, RootIs
    <3>2. Home(m) = m
      BY <2>2, <2>3, <2>6, <3>1, RootIsNearest DEF Home
    <3> QED
      BY <1>2, <2>2, <2>3, <2>4, <2>6, <3>1, <3>2
  <2> QED
    BY <2>5, <2>6
<1> QED
  BY <1>1, <1>2

\* Two directories of one checkout are of one repository.
LEMMA SameHome ==
  ASSUME NEW d \in Path, NEW e \in Path, Home(d) = Home(e)
  PROVE  /\ repo_root[d] = None <=> repo_root[e] = None
         /\ repo_root[d] # None =>
              Common(DotGit[repo_root[d]]) = Common(DotGit[repo_root[e]])
BY HomeIs

\* What is read of a repository's config: the URL of a remote, or none unless
\* every file it takes can be read.
AllRead(repo, R) ==
  /\ IsDir(repo) \/ repo \in R
  /\ WhereIs[DotGit[repo]] \in R
  /\ WhereIs[Common(DotGit[repo])] \in R

UrlAt(config, remote) == IF remote \in DOMAIN config THEN config[remote] ELSE None

LEMMA CommonRead ==
  ASSUME NEW g \in Gitdir, NEW R
  PROVE  /\ common_dir(g, R) \in Gitdir
         /\ WhereIs[g] \in R => common_dir(g, R) = Common(g)
         /\ WhereIs[g] \notin R => common_dir(g, R) = g
BY ContextAssumption DEF common_dir, Common

LEMMA UrlRead ==
  ASSUME NEW repo \in Path, DotGit[repo] # None, NEW R, NEW remote
  PROVE  /\ git_dir(repo, R) \in {None, DotGit[repo]}
         /\ AllRead(repo, R) => /\ git_dir(repo, R) = DotGit[repo]
                                /\ common_dir(DotGit[repo], R) = Common(DotGit[repo])
                                /\ UrlOf(DotGit[repo], remote, R) =
                                     UrlAt(Remotes[Common(DotGit[repo])], remote)
         /\ ~AllRead(repo, R) /\ git_dir(repo, R) # None => UrlOf(DotGit[repo], remote, R) = None
<1> DEFINE g == DotGit[repo]
<1>1. g \in Gitdir /\ g # None
  BY ContextAssumption
<1>2. /\ WhereIs[g] \in R => common_dir(g, R) = Common(g)
      /\ WhereIs[g] \notin R => common_dir(g, R) = g
  BY <1>1, CommonRead
<1>3. git_dir(repo, R) = IF IsDir(repo) \/ repo \in R THEN g ELSE None
  BY DEF git_dir
<1> HIDE DEF g
<1>4. UrlOf(g, remote, R) = LET common == common_dir(g, R)
                            IN  IF /\ WhereIs[common] \in R
                                   /\ remote \in DOMAIN Remotes[common]
                                  THEN Remotes[common][remote]
                                  ELSE None
  BY DEF UrlOf
<1>5. CASE AllRead(repo, R)
  BY <1>1, <1>2, <1>3, <1>4, <1>5 DEF AllRead, UrlAt, g
<1>6. CASE ~AllRead(repo, R)
  BY <1>1, <1>2, <1>3, <1>4, <1>6 DEF AllRead, g
<1> QED
  BY <1>5, <1>6 DEF g

\* The files that git_context opens are the ones it takes.
LEMMA ReadsAll ==
  ASSUME NEW repo \in Path, DotGit[repo] # None, NEW R
  PROVE  /\ ContextReads(repo) \subseteq Path
         /\ ContextReads(repo) \subseteq R => AllRead(repo, R)
<1>1. DotGit[repo] \in Gitdir /\ repo # None
  BY ContextAssumption, PurposeAssumption
<1>2. WhereIs[DotGit[repo]] \in Path /\ common_dir(DotGit[repo], Path) = Common(DotGit[repo])
  BY <1>1, CommonRead, ContextAssumption
<1>3. WhereIs[Common(DotGit[repo])] \in Path
  BY <1>1, CommonIs, ContextAssumption
<1> QED
  BY <1>1, <1>2, <1>3 DEF ContextReads, CheckoutReads, AllRead

\* The directory that scope_of takes counts as the right checkout, and is it if
\* every file that main_checkout opens can be read.
LEMMA CheckoutRead ==
  ASSUME NEW d \in Path, repo_root[d] # None, NEW R
  PROVE  LET repo == repo_root[d]
             main == main_checkout(repo, R)
             dir  == IF main # None THEN main ELSE repo
         IN  /\ CheckoutReads(repo) \subseteq Path
             /\ dir \in Path /\ Home(dir) = Home(d)
             /\ CheckoutReads(repo) \subseteq R => dir = Home(d)
<1> DEFINE r == repo_root[d]
           g == DotGit[r]
           main == main_checkout(r, R)
<1>1. r \in Path /\ g \in Gitdir /\ g # None /\ r # None
  <2>1. r \in Path /\ g # None
    BY RootIs
  <2> QED
    BY <2>1, ContextAssumption, PurposeAssumption
<1>2. /\ Home(d) = IF HomeOf[Common(g)] = None THEN r ELSE HomeOf[Common(g)]
      /\ Home(d) \in Path /\ Home(Home(d)) = Home(d) /\ Home(r) = Home(d)
  BY HomeIs, RootIsNearest DEF Home
<1>3. WhereIs[g] \in Path /\ HomeOf[g] \in Path \cup {None}
      /\ (CommonDir[g] # None => HomeOf[g] = None)
  BY <1>1, ContextAssumption
<1>4. CheckoutReads(r) = IF IsDir(r) THEN {}
                         ELSE {r} \cup (IF CommonDir[g] = None THEN {} ELSE {WhereIs[g]})
  BY <1>1 DEF CheckoutReads
<1>5. main = IF ~(IsDir(r) \/ r \in R) THEN None ELSE HomeOf[common_dir(g, R)]
  BY <1>1 DEF main_checkout, git_dir
<1>6. common_dir(g, R) = IF CommonDir[g] # None /\ WhereIs[g] \in R THEN CommonDir[g] ELSE g
  BY DEF common_dir
<1>7. IsDir(r) => HomeOf[g] = r
  BY DEF IsDir
<1>8. Common(g) = IF CommonDir[g] = None THEN g ELSE CommonDir[g]
  BY DEF Common
<1> HIDE DEF r, g, main
<1>9. main = None \/ main = HomeOf[Common(g)]
  BY <1>3, <1>5, <1>6, <1>8
<1>10. CheckoutReads(r) \subseteq R => main = HomeOf[Common(g)]
  BY <1>1, <1>3, <1>4, <1>5, <1>6, <1>7, <1>8
<1>11. CheckoutReads(r) \subseteq Path
  BY <1>1, <1>3, <1>4
<1>12. LET dir == IF main # None THEN main ELSE r
       IN  /\ dir \in Path /\ Home(dir) = Home(d)
           /\ CheckoutReads(r) \subseteq R => dir = Home(d)
  BY <1>1, <1>2, <1>9, <1>10
<1> QED
  BY <1>11, <1>12 DEF r, main

-----------------------------------------------------------------------------
(* What a request is for. *)

\* The kinds of an ssh.
LEMMA SshKindIs ==
  ASSUME NEW links, NEW cmd
  PROVE  SshKind(links, cmd) \in Kind
<1>1. HasWord(cmd, Receives \cup Uploads) <=> HasWord(cmd, Receives) \/ HasWord(cmd, Uploads)
  BY DEF HasWord
<1> QED
  BY <1>1 DEF SshKind, Kind

\* What a chain is classified as, by its caller and the directory it is in.
LEMMA PurposeOf ==
  ASSUME NEW links, links # <<>>
  PROVE  \E kind \in Kind : classify(links) =
           [kind |-> kind,
            host |-> IF links[1].name \in {"ssh", "scp", "sftp"}
                       THEN split_ssh(links[1].args).dest ELSE None,
            repo_path |-> IF git_cwd(links) = None THEN None ELSE repo_root[git_cwd(links)]]
<1> DEFINE args == links[1].args
           local == IF git_cwd(links) = None THEN None ELSE repo_root[git_cwd(links)]
           ssh == split_ssh(args)
           For(kind, host) == [kind |-> kind, host |-> host, repo_path |-> local]
           name == links[1].name
           host == IF name \in {"ssh", "scp", "sftp"} THEN ssh.dest ELSE None
<1>1. classify(links) =
        CASE name = "ssh-keygen" /\ ArgAfter(args, "-Y") = "sign" ->
               For(IF ArgAfter(args, "-n") = "git" THEN "CommitSigning" ELSE "Signing", None)
          [] name \in {"scp", "sftp"} -> For("FileTransfer", ssh.dest)
          [] name = "ssh" -> For(SshKind(links, ssh.cmd), ssh.dest)
          [] OTHER -> For("Unknown", None)
  BY Zenon DEF classify
<1>2. SshKind(links, ssh.cmd) \in Kind
  BY SshKindIs
<1> HIDE DEF args, local, ssh, name
<1>3. \E kind \in Kind : classify(links) = For(kind, host)
  <2>1. CASE name = "ssh-keygen" /\ ArgAfter(args, "-Y") = "sign"
    BY <1>1, <2>1 DEF Kind
  <2>2. CASE name \in {"scp", "sftp"}
    BY <1>1, <2>2 DEF Kind
  <2>3. CASE name = "ssh"
    BY <1>1, <1>2, <2>3
  <2>4. CASE /\ name \notin {"scp", "sftp", "ssh"}
             /\ ~(name = "ssh-keygen" /\ ArgAfter(args, "-Y") = "sign")
    BY <1>1, <2>4 DEF Kind
  <2> QED
    BY <2>1, <2>2, <2>3, <2>4
<1> QED
  BY <1>3 DEF args, local, ssh, name

\* A purpose is of a known kind, and of a repository or none.
LEMMA PurposeTyped ==
  ASSUME NEW links,
         links # <<>> => git_cwd(links) \in Path \cup {None}
  PROVE  LET p == classify(links)
         IN  /\ p.kind \in Kind
             /\ p.repo_path \in Path \cup {None}
             /\ p.repo_path # None => DotGit[p.repo_path] # None
<1>1. CASE links = <<>>
  BY <1>1 DEF classify, Kind
<1>2. CASE links # <<>>
  <2> DEFINE local == IF git_cwd(links) = None THEN None ELSE repo_root[git_cwd(links)]
  <2>1. local \in Path \cup {None} /\ (local # None => DotGit[local] # None)
    BY <1>2, RootIs
  <2>2. classify(links).kind \in Kind /\ classify(links).repo_path = local
    BY <1>2, PurposeOf
  <2> QED
    BY <2>1, <2>2
<1> QED
  BY <1>1, <1>2

\* The destination is the purpose's host, whatever was read of the caller.
LEMMA HostTold ==
  ASSUME NEW links, links # <<>> => links[1].args \in Seq(STRING)
  PROVE  /\ links # <<>> => OneHost(links[1].args)
         /\ links = <<>> \/ links[1].name # "ssh-keyscan" => destination(links) = classify(links).host
<1>1. CASE links = <<>>
  BY <1>1 DEF destination, classify
<1>2. CASE links # <<>>
  <2>1. OneHost(links[1].args)
    BY <1>2, LineHasOneHost
  <2>2. split_ssh(links[1].args).dest = destination_from(links[1].args)
    BY <2>1 DEF OneHost
  <2>3. classify(links).host = IF links[1].name \in {"ssh", "scp", "sftp"}
                                 THEN split_ssh(links[1].args).dest ELSE None
    BY <1>2, PurposeOf
  <2> QED
    BY <1>2, <2>1, <2>2, <2>3 DEF destination
<1> QED
  BY <1>1, <1>2

-----------------------------------------------------------------------------
(* The walk. *)

\* What can be read of the processes of a request.
Links == {Fields(p, k) : p \in Pids(scene), k \in 0..4}

\* The processes read are the caller's ancestors from the caller up, each whole
\* if it has not exited.
Read ==
  /\ scene \in Scene
  /\ chain \in Seq(Links)
  /\ Len(chain) <= Len(scene.procs)
  /\ Len(chain) <= MaxDepth
  /\ \A i \in 1..Len(chain) :
       chain[i].pid = i + 1 /\ (i + 1 \notin exited => chain[i] = Fields(i + 1, 4))

\* The last process read, or its parent, has exited.
Orphaned == {Len(chain) + 1, Len(chain) + 2} \cap exited # {}

\* The walk is at the next ancestor, or past the last that it can read: it ends
\* early only at a process that exited.
At ==
  /\ pc = "info" =>
       \/ cur = Len(chain) + 2 /\ cur \in Pids(scene)
       \/ cur \in {0, Launchd} /\ (Len(chain) < Len(scene.procs) => Orphaned)
  /\ pc = "parent" => cur = Len(chain) + 1 /\ cur \in Pids(scene)
  /\ pc \notin {"info", "parent"} /\ chain # <<>> =>
       (Len(chain) < MaxDepth /\ Len(chain) < Len(scene.procs) => Orphaned)

\* The inductive invariant of NamesAncestors.
Walk == Read /\ At

-----------------------------------------------------------------------------
\* One more process is read.
LEMMA LinkAppended ==
  ASSUME Walk, NEW k \in 0..4, pc = "info", cur = Len(chain) + 2, cur \in Pids(scene),
         Len(chain) < MaxDepth,
         chain' = Append(chain, Fields(cur, k)), scene' = scene,
         exited \subseteq exited', cur \notin exited' => k = 4,
         pc' = "parent", cur' = cur
  PROVE  Walk'
<1>1. /\ Len(scene.procs) \in Nat /\ scene \in Scene /\ MaxDepth \in Nat
      /\ Pids(scene) = 2..Len(scene.procs) + 1
  BY AttributionAssumption DEF Walk, Read, Pids, Caller
<1>2. Fields(cur, k) \in Links /\ chain \in Seq(Links) /\ Len(chain) \in Nat
  BY DEF Walk, Read, Links
<1>3. Fields(cur, k).pid = cur
  BY DEF Fields
<1>4. \A p, j : Fields(p, j)' = Fields(p, j)
  BY DEF Fields, Proc
<1>5. Links' = Links
  BY <1>4 DEF Links, Pids
<1>6. /\ chain' \in Seq(Links) /\ Len(chain') = Len(chain) + 1
      /\ \A i \in 1..Len(chain) : chain'[i] = chain[i]
      /\ chain'[Len(chain) + 1] = Fields(cur, k)
  BY <1>2
<1>7. Len(chain') <= Len(scene.procs) /\ Len(chain') <= MaxDepth
  BY <1>1, <1>2, <1>6
<1>8. ASSUME NEW i \in 1..Len(chain')
      PROVE  chain'[i].pid = i + 1 /\ (i + 1 \notin exited' => chain'[i] = Fields(i + 1, 4))
  <2>1. CASE i \in 1..Len(chain)
    BY <1>6, <2>1 DEF Walk, Read
  <2>2. CASE i = Len(chain) + 1
    BY <1>2, <1>3, <1>6, <2>2
  <2> QED
    BY <1>2, <1>6, <2>1, <2>2
<1>9. cur' = Len(chain') + 1
  BY <1>2, <1>6
<1>10. chain' \in Seq(Links)'
  BY <1>5, <1>6
<1>11. Len(scene'.procs) = Len(scene.procs) /\ Pids(scene)' = Pids(scene)
  BY DEF Pids
<1>12. \A i \in 1..Len(chain') :
         chain'[i].pid = i + 1 /\ (i + 1 \notin exited' => chain'[i] = Fields(i + 1, 4)')
  BY <1>4, <1>8
<1>13. /\ scene' \in Scene
       /\ cur' = Len(chain') + 1 /\ cur' \in Pids(scene)'
       /\ pc' # "info" /\ pc' \in {"info", "parent"}
       /\ Len(chain') <= Len(scene'.procs) /\ Len(chain') <= MaxDepth
  BY <1>1, <1>7, <1>9, <1>11
<1> QED
  BY <1>10, <1>12, <1>13, Zenon DEF Walk, Read, At

\* What was read stays read.
LEMMA ReadKept ==
  ASSUME Read, scene' = scene, chain' = chain, exited \subseteq exited'
  PROVE  Read'
<1>1. Pids(scene)' = Pids(scene)
  BY DEF Pids
<1>2. \A p, j : Fields(p, j)' = Fields(p, j)
  BY DEF Fields, Proc
<1>3. Links' = Links
  BY <1>1, <1>2 DEF Links
<1>4. \A i \in 1..Len(chain') : i + 1 \notin exited' => chain'[i] = Fields(i + 1, 4)'
  BY <1>2 DEF Read
<1> QED
  BY <1>3, <1>4, Zenon DEF Read

\* The first request has come, and nothing is read.
LEMMA WalkInit == Init => Walk
<1> SUFFICES ASSUME Init PROVE Walk
  OBVIOUS
<1>1. Len(scene.procs) \in Nat \ {0} /\ MaxDepth \in Nat
  BY AttributionAssumption DEF Init
<1>2. Len(chain) = 0 /\ chain \in Seq(Links)
  BY DEF Init
<1>3. Read
  BY <1>1, <1>2 DEF Init, Read
<1>4. At
  BY <1>1, <1>2 DEF Init, At, Pids, Caller
<1> QED
  BY <1>3, <1>4 DEF Walk

\* Each step keeps to the caller's ancestry.
LEMMA WalkStep ==
  ASSUME Walk, [Next]_vars
  PROVE  Walk'
<1> USE DEF world, thread
<1>1. /\ Len(scene.procs) \in Nat \ {0} /\ MaxDepth \in Nat /\ Len(chain) \in Nat
      /\ Pids(scene) = 2..Len(scene.procs) + 1
  BY AttributionAssumption DEF Walk, Read, Pids, Caller
<1>2. ASSUME scene' = scene, chain' = chain, exited \subseteq exited', At'
      PROVE  Walk'
  BY <1>2, ReadKept DEF Walk
<1>3. ASSUME UNCHANGED <<scene, chain, exited>>,
             \/ pc' = pc /\ cur' = cur
             \/ pc \notin {"info", "parent"} /\ pc' \notin {"info", "parent"}
      PROVE  Walk'
  <2>1. At'
    BY <1>3 DEF Walk, At, Orphaned, Pids
  <2> QED
    BY <1>2, <1>3, <2>1
<1>4. CASE NoPeer
  <2>1. At'
    BY <1>4 DEF NoPeer, At
  <2> QED
    BY <1>2, <1>4, <2>1 DEF NoPeer
<1>5. CASE Info
  <2>1. cur = Len(chain) + 2 /\ cur \in Pids(scene) /\ Len(chain) < MaxDepth
    BY <1>1, <1>5 DEF Info, WalkEnds, Walk, At, Launchd
  <2>2. PICK k \in 0..4 : /\ chain' = Append(chain, Fields(cur, k))
                          /\ exited \subseteq exited' /\ (cur \notin exited' => k = 4)
    <3>1. CASE chain' = Append(chain, Fields(cur, IF cur \in exited THEN 0 ELSE 4))
               /\ UNCHANGED exited
      <4>1. CASE cur \in exited
        BY <3>1, <4>1
      <4>2. CASE cur \notin exited
        BY <3>1, <4>2
      <4> QED
        BY <4>1, <4>2
    <3>2. CASE (\E k \in 1..3 : chain' = Append(chain, Fields(cur, k)))
               /\ exited' = exited \cup {cur}
      BY <3>2
    <3> QED
      BY <1>5, <3>1, <3>2 DEF Info
  <2> QED
    BY <1>5, <2>1, <2>2, LinkAppended DEF Info
<1>6. CASE Parent
  <2>1. cur = Len(chain) + 1 /\ cur \in Pids(scene)
    BY <1>6 DEF Parent, Walk, At
  <2>2. /\ cur' = ParentPid(cur) /\ pc' = "info"
        /\ UNCHANGED <<scene, chain, exited>>
    BY <1>6 DEF Parent
  <2>3. \/ cur' = Len(chain) + 2 /\ cur' \in Pids(scene)
        \/ cur' \in {0, Launchd} /\ (Len(chain) < Len(scene.procs) => Orphaned)
    BY <1>1, <2>1, <2>2 DEF ParentPid, Orphaned
  <2>4. At'
    BY <2>2, <2>3 DEF At, Orphaned, Pids
  <2> QED
    BY <1>2, <2>2, <2>4
<1>7. CASE Classify
  <2>1. Len(chain) < MaxDepth /\ Len(chain) < Len(scene.procs) => Orphaned
    BY <1>1, <1>7 DEF Classify, WalkEnds, Walk, Read, At, Pids, Caller, Launchd
  <2>2. pc' = "gather" /\ UNCHANGED <<scene, chain, exited>>
    BY <1>7 DEF Classify
  <2>3. At'
    BY <2>1, <2>2 DEF At, Orphaned
  <2> QED
    BY <1>2, <2>2, <2>3
<1>8. CASE Receive \/ GiveUp \/ ScopeOf
  BY <1>3, <1>8 DEF Receive, GiveUp, ScopeOf
<1>9. CASE Reader \/ Consent \/ Quiet \/ UNCHANGED vars
  <2>1. UNCHANGED <<scene, exited, chain, pc, cur>>
    BY <1>9 DEF Reader, ReadProcesses, ReadRepository, Consent, Quiet, vars
  <2> QED
    BY <1>3, <2>1
<1>10. CASE NextRequest
  <2>1. /\ scene' \in Scene /\ chain' = <<>> /\ pc' = "info" /\ cur' = 2
    BY <1>10 DEF NextRequest, Caller
  <2>2. Len(scene'.procs) \in Nat \ {0}
    BY <2>1, AttributionAssumption
  <2>3. Len(chain') = 0 /\ chain' \in Seq(Links')
    BY <2>1
  <2>4. Read'
    BY <1>1, <2>1, <2>2, <2>3 DEF Read
  <2>5. At'
    BY <2>1, <2>2, <2>3 DEF At, Pids, Caller
  <2> QED
    BY <2>4, <2>5 DEF Walk
<1>11. CASE \E pid \in Pids(scene) : Exit(pid)
  <2>1. /\ exited \subseteq exited'
        /\ UNCHANGED <<scene, chain, pc, cur>>
    BY <1>11 DEF Exit
  <2>2. Orphaned => Orphaned'
    BY <2>1 DEF Orphaned
  <2>3. At'
    BY <2>1, <2>2 DEF Walk, At, Pids
  <2> QED
    BY <1>2, <2>1, <2>3
<1> QED
  BY <1>4, <1>5, <1>6, <1>7, <1>8, <1>9, <1>10, <1>11 DEF Next, Serve

\* A request is attributed to the caller's own ancestors, in order, each with all
\* its fields unless it exited, and to all of them up to the walk's limit unless
\* the last one read or its parent exited (attribute, parent_pid).
THEOREM AncestorsAreNamed == Spec => []NamesAncestors
<1>1. ASSUME Walk, pc = "gate", chain # <<>>
      PROVE  /\ \A i \in 1..Len(chain) : /\ chain[i].pid = i + 1
                                         /\ i + 1 \notin exited => chain[i] = Fields(i + 1, 4)
             /\ Len(chain) < MaxDepth /\ Len(chain) < Len(scene.procs) =>
                  {Len(chain) + 1, Len(chain) + 2} \cap exited # {}
  BY <1>1 DEF Walk, Read, At, Orphaned
<1>2. Walk => NamesAncestors
  BY <1>1, Zenon DEF NamesAncestors
<1> QED
  BY <1>2, WalkInit, WalkStep, PTL DEF Spec

-----------------------------------------------------------------------------
(* A request that was read whole. *)

\* The chain has the processes of a request, up to the walk's limit.
WholeOf(s, links) ==
  /\ Len(links) \in Nat \ {0}
  /\ Len(links) <= Len(s.procs)
  /\ Len(links) = MaxDepth \/ Len(links) = Len(s.procs)
  /\ \A i \in 1..Len(links) : /\ links[i].name = s.procs[i].name
                              /\ links[i].cwd = s.procs[i].cwd
                              /\ links[i].args = s.procs[i].args

\* What the daemon makes of a request that it reads whole, if all files can be
\* read in time: the host on the command line, by its own table of flags,
ReadHost(s) ==
  IF s.procs[1].name \in {"ssh", "scp", "sftp"}
    THEN FirstOperand(s.procs[1].args, 2, SSH_TAKES_ARG) ELSE None

\* the URL in the config of the remote that is pushed to, by its table,
ReadUrl(s) ==
  LET gitdir == DotGit[RepoIn(s)]
      named  == FirstOperand(GitArgs(s), Min(PushAt(s)) + 1, PUSH_TAKES_ARG)
  IN  IF PushAt(s) = {} THEN None
      ELSE UrlAt(Remotes[Common(gitdir)], OrElse(named, OnBranch(BranchRemote, gitdir)))

\* and the remote that the scope is of.
ReadRepo(s) ==
  IF RepoIn(s) = None THEN None
  ELSE OrElse(ReadUrl(s), UrlAt(Remotes[Common(DotGit[RepoIn(s)])], "origin"))

\* The nearest git of the chain is the one nearest to the request.
LEMMA GitFound ==
  ASSUME NEW s \in Scene, InPlace(s), NEW links, WholeOf(s, links)
  PROVE  /\ GitsOf(s) = {} => NearestGit(links) = 0
         /\ GitsOf(s) # {} => /\ NearestGit(links) = Min(GitsOf(s))
                              /\ Min(GitsOf(s)) \in 1..Len(links)
<1> DEFINE I == {i \in 1..Len(links) : links[i].name = "git"}
           G == GitsOf(s)
<1>1. /\ Len(links) \in Nat /\ Len(s.procs) \in Nat /\ MaxDepth \in Nat
      /\ Len(links) <= Len(s.procs)
      /\ Len(links) = MaxDepth \/ Len(links) = Len(s.procs)
      /\ \A i \in 1..Len(links) : links[i].name = s.procs[i].name
  BY AttributionAssumption DEF WholeOf
<1>2. NearestGit(links) = IF I # {} THEN Min(I) ELSE 0
  BY DEF NearestGit, SelectInSeq
<1>3. \A i : i \in G <=> i \in 1..Len(s.procs) /\ s.procs[i].name = "git"
  BY DEF GitsOf
<1>4. \A i : i \in I <=> i \in G /\ i \in 1..Len(links)
  BY <1>1, <1>3
<1>5. G \in SUBSET Nat /\ I \in SUBSET Nat
  BY <1>3
<1> HIDE DEF I, G
<1>6. CASE G = {}
  BY <1>2, <1>4, <1>6 DEF G
<1>7. CASE G # {}
  <2> DEFINE m == Min(G)
             n == Min(I)
  <2>1. m \in G /\ \A i \in G : m <= i
    BY <1>5, <1>7, Smallest
  <2>2. m <= MaxDepth
    BY <1>7 DEF InPlace, G
  <2> HIDE DEF m
  <2>3. m \in 1..Len(links) /\ m \in I
    BY <1>1, <1>3, <1>4, <2>1, <2>2
  <2>4. n \in I /\ \A i \in I : n <= i
    BY <1>5, <2>3, Smallest
  <2> HIDE DEF n
  <2>5. m = n
    <3>1. m <= n /\ n <= m /\ m \in Nat /\ n \in Nat
      BY <1>4, <1>5, <2>1, <2>3, <2>4
    <3> QED
      BY <3>1
  <2> QED
    BY <1>2, <1>7, <2>3, <2>5 DEF m, n, G
<1> QED
  BY <1>6, <1>7

\* The caller of a request, as the chain has it.
LEMMA CallerIs ==
  ASSUME NEW s \in Scene, InPlace(s), NEW links, WholeOf(s, links)
  PROVE  /\ links[1].name = s.procs[1].name
         /\ links[1].cwd = s.procs[1].cwd
         /\ links[1].args = s.procs[1].args
         /\ links[1].args \in Seq(STRING)
         /\ git_cwd(links) = s.procs[1].cwd
         /\ s.procs[1].cwd \in Path /\ s.procs[1].cwd # None
<1>1. Len(links) \in Nat \ {0} /\ Len(s.procs) \in Nat \ {0}
  BY AttributionAssumption DEF WholeOf
<1>2. /\ links[1].name = s.procs[1].name
      /\ links[1].cwd = s.procs[1].cwd
      /\ links[1].args = s.procs[1].args
  BY <1>1 DEF WholeOf
<1>3. links[1].args \in Seq(STRING)
  BY <1>1, <1>2, AttributionAssumption
<1>4. s.procs[1].cwd \in Path /\ s.procs[1].cwd # None
  BY SceneAssumption, PurposeAssumption
<1>5. git_cwd(links) = s.procs[1].cwd
  <2>1. CASE GitsOf(s) = {}
    BY <1>2, <2>1, GitFound DEF git_cwd
  <2>2. CASE GitsOf(s) # {}
    <3> DEFINE m == Min(GitsOf(s))
    <3>1. NearestGit(links) = m /\ m \in 1..Len(links)
      BY <2>2, GitFound
    <3>2. s.procs[m].cwd = s.procs[1].cwd
      BY <2>2 DEF InPlace
    <3> HIDE DEF m
    <3>3. links[m].cwd = s.procs[m].cwd
      BY <3>1 DEF WholeOf
    <3> QED
      BY <1>1, <1>4, <3>1, <3>2, <3>3 DEF git_cwd
  <2> QED
    BY <2>1, <2>2
<1> QED
  BY <1>2, <1>3, <1>4, <1>5

\* What the request is for: its own host, and the repository it is made in.
LEMMA PurposeIs ==
  ASSUME NEW s \in Scene, InPlace(s), NEW links, WholeOf(s, links)
  PROVE  classify(links).host = ReadHost(s) /\ classify(links).repo_path = RepoIn(s)
<1> DEFINE args == links[1].args
<1>1. /\ links[1].name = s.procs[1].name /\ args = s.procs[1].args /\ args \in Seq(STRING)
      /\ git_cwd(links) = s.procs[1].cwd /\ s.procs[1].cwd \in Path /\ s.procs[1].cwd # None
      /\ links # <<>>
  BY CallerIs DEF WholeOf
<1>2. split_ssh(args).dest = FirstOperand(args, 2, SSH_TAKES_ARG)
  <2>1. OneHost(args)
    BY <1>1, LineHasOneHost
  <2> QED
    BY <2>1 DEF OneHost
<1>3. /\ classify(links).host = IF links[1].name \in {"ssh", "scp", "sftp"}
                                  THEN split_ssh(args).dest ELSE None
      /\ classify(links).repo_path = IF git_cwd(links) = None THEN None ELSE repo_root[git_cwd(links)]
  BY <1>1, PurposeOf
<1>4. ReadHost(s) = IF links[1].name \in {"ssh", "scp", "sftp"} THEN split_ssh(args).dest ELSE None
  BY <1>1, <1>2 DEF ReadHost
<1>5. RepoIn(s) = repo_root[git_cwd(links)]
  BY <1>1, RootIsNearest DEF RepoIn
<1> QED
  BY <1>1, <1>3, <1>4, <1>5

\* The words that are no flags are the operands of `push`.
LEMMA PositionalIs ==
  ASSUME NEW args, Len(args) \in Nat, NEW at \in Nat
  PROVE  Positional(args, at) = Operands(args, at + 1, PUSH_TAKES_ARG)
<1>1. at + 1 \in Nat /\ "--" \in Dashed
  BY ContextAssumption
<1>2. Operands(args, at + 1, PUSH_TAKES_ARG) =
        {i \in at + 1..Len(args) :
           ~Taken(args, at + 1, PUSH_TAKES_ARG)[i] /\ args[i] \notin Dashed}
  BY <1>1, WordsAre
<1>3. \A i : args[i] \notin Dashed => args[i] # "--"
  BY <1>1
<1> QED
  BY <1>2, <1>3, Zenon DEF Positional

\* What is pushed to, as the arguments of the request's git have it.
LEMMA PushIs ==
  ASSUME NEW s \in Scene, InPlace(s), NEW links, WholeOf(s, links)
  PROVE  /\ PushAt(s) = {} => ~push_args(links).push
         /\ PushAt(s) # {} =>
              /\ push_args(links).push
              /\ push_args(links).remote =
                   FirstOperand(GitArgs(s), Min(PushAt(s)) + 1, PUSH_TAKES_ARG)
<1> DEFINE g == NearestGit(links)
           args == IF g = 0 THEN <<>> ELSE links[g].args
           at == SelectInSeq(args, LAMBDA a : a = "push")
           words == Positional(args, at)
           A == {i \in 1..Len(args) : args[i] = "push"}
<1>1. push_args(links) =
        [push |-> at # 0, remote |-> IF at = 0 \/ words = {} THEN None ELSE args[Min(words)]]
  BY DEF push_args
<1>2. at = IF A # {} THEN Min(A) ELSE 0
  BY DEF SelectInSeq
<1>3. push_args(links).push = (at # 0)
  BY <1>1
<1>4. CASE GitsOf(s) = {}
  <2>1. g = 0
    BY <1>4, GitFound
  <2>2. Len(args) = 0
    BY <2>1
  <2> HIDE DEF g, args
  <2>3. A = {}
    BY <2>2
  <2>4. at = 0
    BY <1>2, <2>3
  <2> HIDE DEF at
  <2>5. ~push_args(links).push
    BY <1>3, <2>4, Zenon
  <2>6. PushAt(s) = {}
    BY <1>4 DEF PushAt, GitArgs
  <2> QED
    BY <2>5, <2>6
<1>5. CASE GitsOf(s) # {}
  <2> DEFINE m == Min(GitsOf(s))
  <2>1. g = m /\ m \in 1..Len(links) /\ Len(links) <= Len(s.procs) /\ Len(links) \in Nat
        /\ Len(s.procs) \in Nat
    BY <1>5, GitFound, AttributionAssumption DEF WholeOf
  <2>2. /\ GitArgs(s) = s.procs[m].args
        /\ PushAt(s) = {i \in 1..Len(s.procs[m].args) : s.procs[m].args[i] = "push"}
    BY <1>5 DEF PushAt, GitArgs
  <2> HIDE DEF m, g
  <2>3. args = s.procs[m].args /\ s.procs[m].args \in Seq(STRING)
    BY <2>1, AttributionAssumption DEF WholeOf
  <2> HIDE DEF args
  <2>4. A = PushAt(s) /\ Len(args) \in Nat
    BY <2>2, <2>3
  <2>5. A \in SUBSET (Nat \ {0})
    BY <2>4
  <2> HIDE DEF A
  <2>6. CASE A = {}
    <3>1. at = 0
      BY <1>2, <2>6
    <3> HIDE DEF at
    <3>2. ~push_args(links).push
      BY <1>3, <3>1, Zenon
    <3> QED
      BY <2>4, <2>6, <3>2
  <2>7. CASE A # {}
    <3>1. Min(A) \in A
      BY <2>5, <2>7, Smallest
    <3>2. at = Min(A) /\ at \in Nat \ {0}
      BY <1>2, <2>5, <2>7, <3>1
    <3> HIDE DEF at
    <3>3. words = Operands(args, at + 1, PUSH_TAKES_ARG)
      BY <2>4, <3>2, PositionalIs
    <3>4. push_args(links).remote = FirstOperand(args, at + 1, PUSH_TAKES_ARG)
      BY <1>1, <3>2, <3>3 DEF FirstOperand
    <3>5. push_args(links).push
      <4>1. at # 0
        BY <3>2
      <4> QED
        BY <1>3, <4>1, Zenon
    <3> QED
      BY <2>2, <2>3, <2>4, <2>7, <3>2, <3>4, <3>5
  <2> QED
    BY <2>6, <2>7
<1> QED
  BY <1>4, <1>5

\* A URL of a config is one of the URLs.
LEMMA UrlIs ==
  ASSUME NEW c \in Gitdir, NEW remote
  PROVE  UrlAt(Remotes[c], remote) \in Urls \cup {None}
<1>1. ASSUME remote \in DOMAIN Remotes[c]
      PROVE  Remotes[c][remote] \in Urls
  <2> DEFINE U(g) == {Remotes[g][r] : r \in DOMAIN Remotes[g]}
  <2>1. Remotes[c][remote] \in U(c)
    BY <1>1
  <2>2. Urls = UNION {U(g) : g \in Gitdir}
    BY DEF Urls
  <2> HIDE DEF U
  <2> QED
    BY <2>1, <2>2
<1> QED
  BY <1>1, Zenon DEF UrlAt

\* A GitContext is not None.
LEMMA ContextIs ==
  ASSUME NEW g \in Gitdir, NEW branch, branch = Branch[g] \/ branch = None,
         NEW remote \in Urls \cup {None}, NEW url \in Urls \cup {None}
  PROVE  [branch |-> branch, remote |-> remote, push_remote_url |-> url] # None
<1>1. [branch |-> branch, remote |-> remote, push_remote_url |-> url] \in GitContext
  BY DEF GitContext
<1> QED
  BY <1>1, ContextAssumption

\* The remote that is read: the request's own, or none unless every file it
\* takes can be read.
LEMMA RepoRead ==
  ASSUME NEW s \in Scene, InPlace(s), NEW links, WholeOf(s, links), RepoIn(s) # None, NEW R
  PROVE  RepoOf(GitOf(links, RepoIn(s), R)) = IF AllRead(RepoIn(s), R) THEN ReadRepo(s) ELSE None
<1> DEFINE repo == RepoIn(s)
           g == DotGit[repo]
           git == git_context(repo, R)
           push == push_args(links)
           blank == [branch |-> None, remote |-> None, push_remote_url |-> None]
           filled == IF git = None THEN blank ELSE git
           url == push_remote_url(repo, filled.branch, push.remote, R)
<1>1. repo \in Path /\ repo # None /\ g # None /\ g \in Gitdir
  <2>1. s.procs[1].cwd \in Path
    BY SceneAssumption
  <2>2. repo \in Path /\ g # None
    BY <2>1, RootIs, RootIsNearest DEF RepoIn
  <2> QED
    BY <2>2, ContextAssumption
<1>2. GitOf(links, repo, R) =
        IF push.push THEN [filled EXCEPT !.push_remote_url = url] ELSE git
  BY <1>1 DEF GitOf
<1>3. git = IF git_dir(repo, R) = None THEN None
            ELSE [branch |-> IF WhereIs[git_dir(repo, R)] \in R THEN Branch[git_dir(repo, R)] ELSE None,
                  remote |-> UrlOf(git_dir(repo, R), "origin", R),
                  push_remote_url |-> None]
  BY DEF git_context, origin_url
<1>4. push_remote_url(repo, filled.branch, push.remote, R) =
        LET d    == git_dir(repo, R)
            name == IF push.remote # None THEN push.remote
                    ELSE IF filled.branch = None THEN None
                    ELSE BranchRemote[common_dir(d, R)][filled.branch]
        IN  IF d = None \/ name = None THEN None ELSE UrlOf(d, name, R)
  BY DEF push_remote_url
<1> HIDE DEF repo, g, git, push
<1>5. CASE ~AllRead(repo, R)
  <2>1. git_dir(repo, R) = None \/ git_dir(repo, R) = g
    BY <1>1, UrlRead DEF g
  <2>2. \A remote : git_dir(repo, R) = None \/ UrlOf(g, remote, R) = None
    BY <1>1, <1>5, UrlRead DEF g
  <2>3. CASE git_dir(repo, R) = None
    <3>1. git = None /\ url = None
      BY <1>3, <1>4, <2>3
    <3> QED
      BY <1>2, <1>5, <3>1 DEF RepoOf, repo
  <2>4. CASE git_dir(repo, R) = g /\ g # None
    <3>1. git # None /\ git.remote = None /\ git.push_remote_url = None /\ url = None
      <4>1. git = [branch |-> IF WhereIs[g] \in R THEN Branch[g] ELSE None,
                   remote |-> None, push_remote_url |-> None]
        BY <1>3, <2>2, <2>4
      <4>2. git # None
        <5>1. CASE WhereIs[g] \in R
          BY <1>1, <4>1, <5>1, ContextIs
        <5>2. CASE WhereIs[g] \notin R
          BY <1>1, <4>1, <5>2, ContextIs
        <5> QED
          BY <5>1, <5>2
      <4> QED
        BY <1>4, <2>2, <2>4, <4>1, <4>2
    <3>2. [git EXCEPT !.push_remote_url = None].remote = None
          /\ [git EXCEPT !.push_remote_url = None].push_remote_url = None
      BY <1>3, <2>2, <2>4
    <3>3. GitOf(links, repo, R) = IF push.push THEN [git EXCEPT !.push_remote_url = None] ELSE git
      BY <1>2, <3>1
    <3> QED
      BY <1>5, <3>1, <3>2, <3>3 DEF RepoOf, repo
  <2> QED
    BY <1>1, <2>1, <2>3, <2>4
<1>6. CASE AllRead(repo, R)
  <2> DEFINE c == Common(g)
             origin == UrlAt(Remotes[c], "origin")
  <2>1. /\ git_dir(repo, R) = g /\ common_dir(g, R) = c
        /\ \A remote : UrlOf(g, remote, R) = UrlAt(Remotes[c], remote)
        /\ WhereIs[g] \in R
    BY <1>1, <1>6, UrlRead DEF AllRead, g
  <2> HIDE DEF c
  <2>2. git = [branch |-> Branch[g], remote |-> origin, push_remote_url |-> None]
    BY <1>1, <1>3, <2>1
  <2>3. c \in Gitdir /\ git # None
    <3>1. c \in Gitdir
      BY <1>1, CommonIs DEF c
    <3>2. origin \in Urls \cup {None}
      BY <3>1, UrlIs
    <3> QED
      BY <1>1, <2>2, <3>1, <3>2, ContextIs
  <2>4. ReadRepo(s) = IF ReadUrl(s) # None THEN ReadUrl(s) ELSE origin
    BY <1>1 DEF ReadRepo, OrElse, repo, g, c
  <2>5. CASE PushAt(s) = {}
    <3>1. ~push.push
      BY <2>5, PushIs DEF push
    <3>2. ReadUrl(s) = None
      BY <2>5 DEF ReadUrl
    <3>3. GitOf(links, repo, R) = git
      BY <1>2, <3>1, Zenon
    <3> QED
      BY <1>6, <2>2, <2>3, <2>4, <3>2, <3>3 DEF RepoOf, repo
  <2>6. CASE PushAt(s) # {}
    <3> DEFINE named == FirstOperand(GitArgs(s), Min(PushAt(s)) + 1, PUSH_TAKES_ARG)
               own == IF Branch[g] = None THEN None ELSE BranchRemote[c][Branch[g]]
    <3>1. push.push /\ push.remote = named
      BY <2>6, PushIs DEF push
    <3>2. OnBranch(BranchRemote, g) = own
      BY DEF OnBranch, c
    <3>3. ReadUrl(s) = UrlAt(Remotes[c], IF named # None THEN named ELSE own)
      BY <2>6, <3>2 DEF ReadUrl, OrElse, c, g, repo
    <3> HIDE DEF named, own
    <3>4. filled = git /\ filled.branch = Branch[g]
      BY <2>2, <2>3
    <3>5. url = LET name == IF named # None THEN named ELSE own
                IN  IF name = None THEN None ELSE UrlAt(Remotes[c], name)
      BY <1>1, <1>4, <2>1, <3>1, <3>4 DEF own
    <3>6. UrlAt(Remotes[c], None) = None
      BY <2>3, ContextAssumption DEF UrlAt
    <3>7. url = ReadUrl(s)
      BY <3>3, <3>5, <3>6
    <3> HIDE DEF url, filled
    <3>8. GitOf(links, repo, R) = [git EXCEPT !.push_remote_url = ReadUrl(s)]
      BY <1>2, <3>1, <3>4, <3>7, Zenon
    <3>9. GitOf(links, repo, R) =
            [branch |-> Branch[g], remote |-> origin, push_remote_url |-> ReadUrl(s)]
      BY <2>2, <3>8
    <3>10. ReadUrl(s) \in Urls \cup {None} /\ origin \in Urls \cup {None}
      BY <2>3, <3>3, UrlIs
    <3>11. GitOf(links, repo, R) # None
      BY <1>1, <3>9, <3>10, ContextIs
    <3> QED
      BY <1>6, <2>4, <3>9, <3>11 DEF RepoOf, repo
  <2> QED
    BY <2>5, <2>6
<1> QED
  BY <1>5, <1>6 DEF repo

-----------------------------------------------------------------------------
(* Types. *)

\* What TypeOK rests on: the pids that are found but not yet received, and that
\* the repository of a purpose is one.
Typed ==
  /\ TypeOK
  /\ {found.env_from, found.declared_from} \subseteq {0} \cup Pids(scene)
  /\ purpose.repo_path # None => DotGit[purpose.repo_path] # None

\* The links of the chain.
LEMMA LinkIs ==
  ASSUME Walk, NEW i \in 1..Len(chain)
  PROVE  /\ chain[i].pid \in Pids(scene)
         /\ chain[i].cwd \in Path \cup {None}
         /\ chain[i].args \in Seq(STRING)
<1>1. chain[i] \in Links
  BY DEF Walk, Read
<1>2. PICK pid \in Pids(scene), k \in 0..4 : chain[i] = Fields(pid, k)
  BY <1>1 DEF Links
<1>3. pid - 1 \in 1..Len(scene.procs) /\ scene \in Scene
  BY AttributionAssumption DEF Walk, Read, Pids, Caller
<1>4. Proc(scene, pid).cwd \in Path \cup {None} /\ Proc(scene, pid).args \in Seq(STRING)
  BY <1>3, AttributionAssumption DEF Proc
<1>5. /\ Fields(pid, k).pid = pid
      /\ Fields(pid, k).cwd = IF k >= 3 THEN Proc(scene, pid).cwd ELSE None
      /\ Fields(pid, k).args = IF k >= 4 THEN Proc(scene, pid).args ELSE <<>>
  BY DEF Fields
<1>6. <<>> \in Seq(STRING)
  OBVIOUS
<1> QED
  BY <1>2, <1>4, <1>5, <1>6

\* The pid of a link, or none.
LEMMA NearestIs ==
  ASSUME Walk, NEW I \in SUBSET (1..Len(chain))
  PROVE  LET i == IF I # {} THEN Min(I) ELSE 0
         IN  /\ i \in {0} \cup 1..Len(chain)
             /\ (IF i = 0 THEN 0 ELSE chain[i].pid) \in {0} \cup Pids(scene)
<1>1. Len(chain) \in Nat
  BY DEF Walk, Read
<1>2. CASE I = {}
  BY <1>2
<1>3. CASE I # {}
  <2> DEFINE m == Min(I)
  <2>1. I \in SUBSET Nat
    BY <1>1
  <2>2. m \in I
    BY <1>3, <2>1, Smallest
  <2> HIDE DEF m
  <2>3. m \in 1..Len(chain) /\ m # 0
    BY <1>1, <2>2
  <2>4. chain[m].pid \in Pids(scene)
    BY <2>3, LinkIs
  <2> QED
    BY <1>3, <2>3, <2>4 DEF m
<1> QED
  BY <1>2, <1>3

\* The directory that a chain is in.
LEMMA CwdIs ==
  ASSUME Walk, chain # <<>>
  PROVE  git_cwd(chain) \in Path \cup {None} /\ chain[1].cwd \in Path \cup {None}
<1> DEFINE I == {i \in 1..Len(chain) : chain[i].name = "git"}
           g == IF I # {} THEN Min(I) ELSE 0
<1>1. NearestGit(chain) = g
  BY DEF NearestGit, SelectInSeq
<1>2. g \in {0} \cup 1..Len(chain)
  <2>1. I \in SUBSET (1..Len(chain))
    OBVIOUS
  <2> HIDE DEF I
  <2> QED
    BY <2>1, NearestIs
<1>3. 1 \in 1..Len(chain)
  BY DEF Walk, Read
<1> HIDE DEF g
<1>4. chain[1].cwd \in Path \cup {None} /\ (g # 0 => chain[g].cwd \in Path \cup {None})
  BY <1>2, <1>3, LinkIs
<1> QED
  BY <1>1, <1>4 DEF git_cwd

\* The directory of a scope.
LEMMA DirectoryIs ==
  ASSUME Walk, Typed
  PROVE  DirectoryOf \in Path \cup {None}
<1> DEFINE repo == purpose.repo_path
           g == git_dir(repo, Readable)
<1>1. repo \in Path \cup {None} /\ (repo # None => DotGit[repo] # None)
  BY DEF Typed, TypeOK
<1>2. CASE repo = None
  BY <1>2, CwdIs DEF DirectoryOf
<1>3. CASE repo # None
  <2>1. repo \in Path /\ DotGit[repo] \in Gitdir
    BY <1>1, <1>3, ContextAssumption
  <2>2. g \in Gitdir \cup {None}
    BY <2>1 DEF git_dir
  <2>3. main_checkout(repo, Readable) = IF g = None THEN None ELSE HomeOf[common_dir(g, Readable)]
    BY DEF main_checkout
  <2> HIDE DEF g
  <2>4. main_checkout(repo, Readable) \in Path \cup {None}
    BY <2>2, <2>3, CommonRead, ContextAssumption
  <2> QED
    BY <1>3, <2>1, <2>4 DEF DirectoryOf
<1> QED
  BY <1>2, <1>3

\* The first request is well typed.
LEMMA TypedInit == Init => Typed
<1> SUFFICES ASSUME Init PROVE Typed
  OBVIOUS
<1>1. /\ NoPurpose.kind \in Kind /\ NoPurpose.repo_path = None
  BY DEF NoPurpose, classify, Kind
<1>2. /\ Len(scene.procs) \in Nat \ {0} /\ MaxDepth \in Nat /\ MaxRequests \in Nat \ {0}
      /\ Len(chain) = 0
  BY AttributionAssumption DEF Init
<1>3. cur \in Pids(scene)
  BY <1>2 DEF Init, Pids, Caller
<1>4. /\ found.env_from = 0 /\ found.declared_from = 0
      /\ ctx.env_from = 0 /\ ctx.declared_from = 0
      /\ scope.directory = None
      /\ purpose = NoPurpose
  BY DEF Init, NoContext, NoScope
<1>5. TypeOK
  <2>1. requests \in 1..MaxRequests /\ Len(chain) <= MaxDepth
    BY <1>2 DEF Init
  <2>2. /\ {ctx.env_from, ctx.declared_from} \subseteq {0} \cup Pids(scene)
        /\ cur \in {0, Launchd} \cup Pids(scene)
        /\ scope.directory \in Path \cup {None}
    BY <1>3, <1>4
  <2>3. purpose.kind \in Kind /\ purpose.repo_path \in Path \cup {None}
    BY <1>1, <1>4
  <2>4. /\ scene \in Scene /\ exited = {} /\ consent = "unanswered" /\ pc = "info"
        /\ reader = "idle" /\ late = FALSE
    BY DEF Init
  <2> QED
    BY <2>1, <2>2, <2>3, <2>4, Zenon DEF TypeOK
<1> QED
  BY <1>1, <1>4, <1>5 DEF Typed

\* Each step keeps the types.
LEMMA TypedStep ==
  ASSUME Typed, Walk, Walk', [Next]_vars
  PROVE  Typed'
<1> USE DEF world, thread
<1>1. /\ NoPurpose.kind \in Kind /\ NoPurpose.repo_path = None /\ classify(<<>>) = NoPurpose
  BY DEF NoPurpose, classify, Kind
<1>2. scene' = scene => Pids(scene)' = Pids(scene)
  BY DEF Pids
<1>3. Len(chain') <= MaxDepth
  BY DEF Walk, Read
<1>4. CASE NoPeer
  BY <1>1, <1>2, <1>3, <1>4 DEF NoPeer, Typed, TypeOK, NoContext
<1>5. CASE Info
  <2>1. cur \in Pids(scene)
    BY <1>5 DEF Info, WalkEnds, Walk, At, Launchd
  <2>2. exited' \subseteq Pids(scene)
    BY <1>5, <2>1 DEF Info, Typed, TypeOK
  <2> QED
    BY <1>2, <1>3, <1>5, <2>2 DEF Info, Typed, TypeOK
<1>6. CASE Parent
  <2>1. cur' \in {0, Launchd} \cup Pids(scene)
    BY <1>6 DEF Parent, ParentPid
  <2> QED
    BY <1>2, <1>3, <1>6, <2>1 DEF Parent, Typed, TypeOK
<1>7. CASE Classify
  <2>1. /\ purpose'.kind \in Kind
        /\ purpose'.repo_path \in Path \cup {None}
        /\ purpose'.repo_path # None => DotGit[purpose'.repo_path] # None
    BY <1>7, CwdIs, PurposeTyped DEF Classify
  <2> QED
    BY <1>2, <1>3, <1>7, <2>1 DEF Classify, Typed, TypeOK
<1>8. CASE Receive
  BY <1>2, <1>3, <1>8 DEF Receive, Typed, TypeOK
<1>9. CASE GiveUp
  BY <1>2, <1>3, <1>9 DEF GiveUp, Typed, TypeOK, NoContext
<1>10. CASE ScopeOf
  <2>1. DirectoryOf \in Path \cup {None}
    BY DirectoryIs
  <2>2. scope'.directory \in Path \cup {None}
    BY <1>10, <2>1 DEF ScopeOf
  <2> QED
    BY <1>2, <1>3, <1>10, <2>2 DEF ScopeOf, Typed, TypeOK
<1>11. CASE ReadProcesses
  <2> DEFINE I == {i \in 1..Len(chain) : chain[i].pid \notin exited /\ Proc(scene, chain[i].pid).env}
             J == {i \in 1..Len(chain) : Proc(scene, chain[i].pid).declares}
             At1(T) == IF T # {} THEN Min(T) ELSE 0
             Pid(T) == IF At1(T) = 0 THEN 0 ELSE chain[At1(T)].pid
  <2>1. found' = [git |-> None, env_from |-> Pid(I), declared_from |-> Pid(J)]
    BY <1>11, Zenon DEF ReadProcesses, Nearest, SelectInSeq
  <2>2. I \in SUBSET (1..Len(chain)) /\ J \in SUBSET (1..Len(chain))
    OBVIOUS
  <2> HIDE DEF I, J
  <2>3. Pid(I) \in {0} \cup Pids(scene) /\ Pid(J) \in {0} \cup Pids(scene)
    BY <2>2, NearestIs
  <2> HIDE DEF Pid
  <2> QED
    BY <1>2, <1>3, <1>11, <2>1, <2>3 DEF ReadProcesses, Typed, TypeOK
<1>12. CASE ReadRepository
  <2>1. found'.env_from = found.env_from /\ found'.declared_from = found.declared_from
    BY <1>12 DEF ReadRepository
  <2> QED
    BY <1>2, <1>3, <1>12, <2>1 DEF ReadRepository, Typed, TypeOK
<1>13. CASE Consent
  BY <1>2, <1>3, <1>13 DEF Consent, Typed, TypeOK
<1>14. CASE NextRequest
  <2>1. Len(scene'.procs) \in Nat \ {0} /\ cur' \in Pids(scene')
    BY <1>14, AttributionAssumption DEF NextRequest, Pids, Caller
  <2>2. requests' \in 1..MaxRequests
    BY <1>14, AttributionAssumption DEF NextRequest, Typed, TypeOK
  <2> QED
    BY <1>1, <1>3, <1>14, <2>1, <2>2 DEF NextRequest, Typed, TypeOK, NoContext, NoScope
<1>15. CASE Quiet \/ UNCHANGED vars
  BY <1>2, <1>3, <1>15 DEF Quiet, vars, Typed, TypeOK
<1>16. CASE \E pid \in Pids(scene) : Exit(pid)
  BY <1>2, <1>3, <1>16 DEF Exit, Typed, TypeOK
<1> QED
  BY <1>4, <1>5, <1>6, <1>7, <1>8, <1>9, <1>10, <1>11, <1>12, <1>13, <1>14, <1>15, <1>16
     DEF Next, Serve, Reader

\* Every variable stays within its type: no process outside of the request's own
\* is named, and a request is always of a known kind (attribute, classify,
\* env_from_chain, declared_for).
THEOREM TypesHold == Spec => []TypeOK
<1>1. Typed => TypeOK
  BY DEF Typed
<1> QED
  BY <1>1, TypedInit, TypedStep, WalkInit, WalkStep, PTL DEF Spec

-----------------------------------------------------------------------------
(* Scopes. *)

\* The scope of a request that is read whole, in time or too late.
ReadScope(s, gaveUp) ==
  LET repo == IF gaveUp THEN None ELSE ReadRepo(s)
  IN  [directory |-> IF repo = None THEN Place(s) ELSE None, host |-> ReadHost(s), repo |-> repo]

\* What was read of a repository is its remote or nothing, and its remote if the
\* user has not denied the daemon its files.
Gotten(s, git, answer) ==
  /\ RepoOf(git) \in {None, ReadRepo(s)}
  /\ answer # "denied" => RepoOf(git) = ReadRepo(s)

\* A scope is the request's own, or says less of it.
Good(s, sc, gaveUp, answer) ==
  /\ sc.host = ReadHost(s)
  /\ sc.repo \in {None, ReadRepo(s)}
  /\ sc.repo = None => sc.directory \in Path /\ Home(sc.directory) = Place(s)
  /\ answer # "denied" => sc = ReadScope(s, gaveUp)

\* The connection's thread and the reader's, in step.
Stages ==
  /\ reader # "idle" => pc \notin {"info", "parent"}
  /\ late => pc \in {"scope", "gate"}
  /\ pc \notin {"info", "parent"} => purpose = classify(chain)

\* What is known at each stage, of a request that was read whole and is in one
\* place.
Gathered ==
  Whole /\ InPlace(scene) =>
    /\ reader = "sent" => Gotten(scene, found.git, consent)
    /\ pc \in {"scope", "gate"} =>
         IF late THEN ctx.git = None ELSE Gotten(scene, ctx.git, consent)
    /\ pc = "gate" => Good(scene, scope, late, consent)

\* And of the request before.
Remembered ==
  earlier # None =>
    /\ earlier.scene \in Scene
    /\ InPlace(earlier.scene) => Good(earlier.scene, earlier.scope, earlier.late, consent)

\* The inductive invariant of ApprovalKeepsToScope and WorktreeShares.
Knows == Stages /\ Gathered /\ Remembered

-----------------------------------------------------------------------------
\* An answer can only take away.
LEMMA AnswerKept ==
  ASSUME NEW a, NEW b, b # "denied" => a # "denied"
  PROVE  /\ \A s, git : Gotten(s, git, a) => Gotten(s, git, b)
         /\ \A s, sc, g : Good(s, sc, g, a) => Good(s, sc, g, b)
BY DEF Gotten, Good

\* A request that was read whole, once the walk is over.
LEMMA ReadIsWhole ==
  ASSUME Walk, Whole, pc \notin {"info", "parent"}
  PROVE  scene \in Scene /\ WholeOf(scene, chain)
<1>1. /\ scene \in Scene /\ chain \in Seq(Links) /\ chain # <<>>
      /\ Len(chain) <= Len(scene.procs)
      /\ \A i \in 1..Len(chain) : chain[i] = Fields(i + 1, 4)
  BY DEF Walk, Read, Whole
<1>2. Len(chain) \in Nat \ {0} /\ (Len(chain) = MaxDepth \/ Len(chain) = Len(scene.procs))
  <2>1. Len(chain) \in Nat \ {0} /\ Len(scene.procs) \in Nat /\ MaxDepth \in Nat
    BY <1>1, AttributionAssumption
  <2>2. ~(Len(chain) < MaxDepth /\ Len(chain) < Len(scene.procs)) /\ Len(chain) <= MaxDepth
    BY <1>1 DEF Walk, Read, At, Orphaned, Whole
  <2> QED
    BY <1>1, <2>1, <2>2
<1>3. ASSUME NEW i \in 1..Len(chain)
      PROVE  /\ chain[i].name = scene.procs[i].name
             /\ chain[i].cwd = scene.procs[i].cwd
             /\ chain[i].args = scene.procs[i].args
  <2>1. Proc(scene, i + 1) = scene.procs[i]
    BY <1>2 DEF Proc
  <2>2. /\ Fields(i + 1, 4).name = Proc(scene, i + 1).name
        /\ Fields(i + 1, 4).cwd = Proc(scene, i + 1).cwd
        /\ Fields(i + 1, 4).args = Proc(scene, i + 1).args
    BY DEF Fields
  <2> QED
    BY <1>1, <2>1, <2>2
<1> QED
  BY <1>1, <1>2, <1>3 DEF WholeOf

\* What does not wait can be read, unless the user denied it.
LEMMA OpensRead ==
  ASSUME TypeOK, NEW dirs \in SUBSET Path, ~Waits(dirs), consent # "denied"
  PROVE  dirs \subseteq Readable
BY DEF TypeOK, Waits, Readable

\* git_context and push_summary find the remote, or nothing.
LEMMA RepositoryRead ==
  ASSUME TypeOK, scene \in Scene, InPlace(scene), WholeOf(scene, chain), purpose = classify(chain),
         ~Waits(ContextReads(purpose.repo_path))
  PROVE  Gotten(scene, GitOf(chain, purpose.repo_path, Readable), consent)
<1> DEFINE repo == RepoIn(scene)
<1>1. purpose.repo_path = repo
  BY PurposeIs
<1>2. CASE repo = None
  BY <1>1, <1>2 DEF GitOf, RepoOf, Gotten, ReadRepo
<1>3. CASE repo # None
  <2>1. repo \in Path /\ DotGit[repo] # None
    <3>1. scene.procs[1].cwd \in Path
      BY SceneAssumption
    <3> QED
      BY <1>3, <3>1, RootIs, RootIsNearest DEF RepoIn
  <2>2. RepoOf(GitOf(chain, repo, Readable)) =
          IF AllRead(repo, Readable) THEN ReadRepo(scene) ELSE None
    BY <1>3, RepoRead
  <2>3. consent # "denied" => AllRead(repo, Readable)
    BY <1>1, <2>1, OpensRead, ReadsAll
  <2> QED
    BY <1>1, <2>2, <2>3 DEF Gotten
<1> QED
  BY <1>2, <1>3

\* scope_of finds the checkout, or a directory that counts as it.
LEMMA DirectoryRead ==
  ASSUME TypeOK, scene \in Scene, InPlace(scene), WholeOf(scene, chain), purpose = classify(chain),
         ~Waits(CheckoutReads(purpose.repo_path))
  PROVE  /\ DirectoryOf \in Path /\ Home(DirectoryOf) = Place(scene)
         /\ consent # "denied" => DirectoryOf = Place(scene)
<1> DEFINE d == scene.procs[1].cwd
           repo == repo_root[d]
           main == main_checkout(repo, Readable)
<1>1. /\ purpose.repo_path = repo /\ d \in Path /\ Place(scene) = Home(d)
      /\ chain[1].cwd = d /\ chain # <<>>
  <2>1. chain # <<>>
    BY DEF WholeOf
  <2> QED
    BY <2>1, PurposeIs, CallerIs, SceneAssumption, RootIsNearest DEF RepoIn, Place
<1> HIDE DEF d
<1>2. CASE repo = None
  <2>1. DirectoryOf = d
    BY <1>1, <1>2 DEF DirectoryOf
  <2> QED
    BY <1>1, <1>2, <2>1, HomeIs
<1>3. CASE repo # None
  <2> DEFINE dir == IF main # None THEN main ELSE repo
  <2>1. DirectoryOf = dir
    BY <1>1, <1>3 DEF DirectoryOf
  <2>2. /\ CheckoutReads(repo) \subseteq Path
        /\ dir \in Path /\ Home(dir) = Home(d)
        /\ CheckoutReads(repo) \subseteq Readable => dir = Home(d)
    BY <1>1, <1>3, CheckoutRead
  <2> HIDE DEF dir, repo
  <2>3. consent # "denied" => CheckoutReads(repo) \subseteq Readable
    BY <1>1, <2>2, OpensRead
  <2> QED
    BY <1>1, <2>1, <2>2, <2>3
<1> QED
  BY <1>2, <1>3

\* scope_of, as a whole.
LEMMA ScopeRead ==
  ASSUME Typed, Walk, Knows, ScopeOf, Whole, InPlace(scene)
  PROVE  Good(scene, scope', late, consent)
<1> DEFINE repo == RepoOf(ctx.git)
<1>1. /\ repo = None => ~Waits(CheckoutReads(purpose.repo_path))
      /\ scope' = [directory |-> IF repo = None THEN DirectoryOf ELSE None,
                   host |-> purpose.host, repo |-> repo]
      /\ pc = "scope"
  BY DEF ScopeOf
<1>2. TypeOK /\ scene \in Scene /\ WholeOf(scene, chain) /\ purpose = classify(chain)
  BY <1>1, ReadIsWhole DEF Typed, Knows, Stages
<1>3. purpose.host = ReadHost(scene)
  BY <1>2, PurposeIs
<1>4. /\ repo \in {None, ReadRepo(scene)}
      /\ consent # "denied" => repo = IF late THEN None ELSE ReadRepo(scene)
  <2>1. IF late THEN ctx.git = None ELSE Gotten(scene, ctx.git, consent)
    BY <1>1 DEF Knows, Gathered
  <2> QED
    BY <2>1 DEF Gotten, RepoOf
<1>5. repo = None => /\ DirectoryOf \in Path /\ Home(DirectoryOf) = Place(scene)
                     /\ consent # "denied" => DirectoryOf = Place(scene)
  BY <1>1, <1>2, DirectoryRead
<1> HIDE DEF repo
<1>6. consent # "denied" => scope' = ReadScope(scene, late)
  BY <1>1, <1>3, <1>4, <1>5 DEF ReadScope
<1>7. /\ scope'.host = ReadHost(scene) /\ scope'.repo = repo
      /\ repo = None => scope'.directory = DirectoryOf
  BY <1>1, <1>3
<1> QED
  BY <1>4, <1>5, <1>6, <1>7 DEF Good

\* Nothing is known of the first request.
LEMMA KnowsInit == Init => Knows
<1> SUFFICES ASSUME Init PROVE Knows
  OBVIOUS
<1>1. Stages
  BY DEF Init, Stages
<1>2. Gathered /\ Remembered
  BY DEF Init, Gathered, Remembered, Whole
<1> QED
  BY <1>1, <1>2 DEF Knows

\* Each step keeps what is known.
LEMMA KnowsStep ==
  ASSUME Knows, Typed, Walk, [Next]_vars
  PROVE  Knows'
<1> USE DEF world, thread
<1>1. Stages /\ Gathered /\ Remembered
  BY DEF Knows
<1>2. TypeOK
  BY DEF Typed
<1>3. ASSUME UNCHANGED <<consent, earlier>>
      PROVE  Remembered'
  BY <1>1, <1>3 DEF Remembered
<1>4. CASE NoPeer
  <2>1. Stages'
    BY <1>1, <1>4 DEF NoPeer, Stages
  <2>2. Gathered'
    BY <1>4 DEF NoPeer, Gathered, Whole
  <2> QED
    BY <1>3, <1>4, <2>1, <2>2 DEF NoPeer, Knows
<1>5. CASE Info
  <2>1. Stages'
    BY <1>1, <1>5 DEF Info, Stages
  <2>2. Gathered'
    BY <1>1, <1>5 DEF Info, Gathered, Stages
  <2> QED
    BY <1>3, <1>5, <2>1, <2>2 DEF Info, Knows
<1>6. CASE Parent
  <2>1. Stages'
    BY <1>1, <1>6 DEF Parent, Stages
  <2>2. Gathered'
    BY <1>1, <1>6 DEF Parent, Gathered, Stages
  <2> QED
    BY <1>3, <1>6, <2>1, <2>2 DEF Parent, Knows
<1>7. CASE Classify
  <2>1. Stages'
    BY <1>1, <1>7 DEF Classify, Stages
  <2>2. Gathered'
    BY <1>7 DEF Classify, Gathered
  <2> QED
    BY <1>3, <1>7, <2>1, <2>2 DEF Classify, Knows
<1>8. CASE Receive
  <2>1. Stages'
    BY <1>1, <1>8 DEF Receive, Stages
  <2>2. ~late
    BY <1>1, <1>8 DEF Receive, Stages
  <2>3. Gathered'
    BY <1>1, <1>8, <2>2 DEF Receive, Gathered, Whole
  <2> QED
    BY <1>3, <1>8, <2>1, <2>3 DEF Receive, Knows
<1>9. CASE GiveUp
  <2>1. Stages'
    BY <1>1, <1>9 DEF GiveUp, Stages
  <2>2. Gathered'
    BY <1>9 DEF GiveUp, Gathered, NoContext
  <2> QED
    BY <1>3, <1>9, <2>1, <2>2 DEF GiveUp, Knows
<1>10. CASE ScopeOf
  <2>1. Stages'
    BY <1>1, <1>10 DEF ScopeOf, Stages
  <2>2. Whole /\ InPlace(scene) => Good(scene, scope', late, consent)
    BY <1>10, ScopeRead
  <2>3. Gathered'
    BY <1>1, <1>10, <2>2 DEF ScopeOf, Gathered, Whole
  <2> QED
    BY <1>3, <1>10, <2>1, <2>3 DEF ScopeOf, Knows
<1>11. CASE ReadProcesses
  <2>1. Stages'
    BY <1>1, <1>11 DEF ReadProcesses, Stages
  <2>2. Gathered'
    BY <1>1, <1>11 DEF ReadProcesses, Gathered, Whole
  <2> QED
    BY <1>3, <1>11, <2>1, <2>2 DEF ReadProcesses, Knows
<1>12. CASE ReadRepository
  <2>1. Stages'
    BY <1>1, <1>12 DEF ReadRepository, Stages
  <2>2. ASSUME Whole, InPlace(scene)
        PROVE  Gotten(scene, found'.git, consent)
    <3>1. pc \notin {"info", "parent"} /\ purpose = classify(chain)
      BY <1>1, <1>12 DEF ReadRepository, Stages
    <3>2. scene \in Scene /\ WholeOf(scene, chain)
      BY <2>2, <3>1, ReadIsWhole
    <3>3. found'.git = GitOf(chain, purpose.repo_path, Readable)
      BY <1>12 DEF ReadRepository
    <3> QED
      BY <1>2, <1>12, <2>2, <3>1, <3>2, <3>3, RepositoryRead DEF ReadRepository
  <2>3. Gathered'
    BY <1>1, <1>12, <2>2 DEF ReadRepository, Gathered, Whole
  <2> QED
    BY <1>3, <1>12, <2>1, <2>3 DEF ReadRepository, Knows
<1>13. CASE Consent
  <2>1. Stages'
    BY <1>1, <1>13 DEF Consent, Stages
  <2>2. /\ \A s, git : Gotten(s, git, consent) => Gotten(s, git, consent')
        /\ \A s, sc, g : Good(s, sc, g, consent) => Good(s, sc, g, consent')
    BY <1>13, AnswerKept DEF Consent
  <2>3. Gathered' /\ Remembered'
    BY <1>1, <1>13, <2>2 DEF Consent, Gathered, Remembered, Whole
  <2> QED
    BY <2>1, <2>3 DEF Knows
<1>14. CASE NextRequest
  <2>1. Stages' /\ Gathered'
    BY <1>14 DEF NextRequest, Stages, Gathered, Whole
  <2>2. ASSUME Whole, InPlace(scene) PROVE Good(scene, scope, late, consent)
    BY <1>1, <1>14, <2>2 DEF NextRequest, Gathered
  <2>3. Remembered'
    <3>1. CASE Whole
      <4>1. earlier' = [scene |-> scene, scope |-> scope, late |-> late] /\ consent' = consent
        BY <1>14, <3>1 DEF NextRequest
      <4>2. earlier'.scene = scene /\ earlier'.scope = scope /\ earlier'.late = late
        BY <4>1
      <4> QED
        BY <1>2, <2>2, <3>1, <4>1, <4>2 DEF Remembered, TypeOK
    <3>2. CASE ~Whole
      BY <1>14, <3>2 DEF NextRequest, Remembered
    <3> QED
      BY <3>1, <3>2
  <2> QED
    BY <2>1, <2>3 DEF Knows
<1>15. CASE Quiet \/ UNCHANGED vars
  <2>1. UNCHANGED vars
    BY <1>15 DEF Quiet
  <2> QED
    BY <1>1, <2>1 DEF vars, Knows, Stages, Gathered, Remembered, Whole
<1>16. CASE \E pid \in Pids(scene) : Exit(pid)
  <2>1. Stages'
    BY <1>1, <1>16 DEF Exit, Stages
  <2>2. Gathered'
    BY <1>16 DEF Exit, Gathered, Whole
  <2> QED
    BY <1>3, <1>16, <2>1, <2>2 DEF Exit, Knows
<1> QED
  BY <1>4, <1>5, <1>6, <1>7, <1>8, <1>9, <1>10, <1>11, <1>12, <1>13, <1>14, <1>15, <1>16
     DEF Next, Serve, Reader

\* The log, the card and the scope speak of one host, whatever the command line
\* and however much of the caller could be read (attribute, destination_from,
\* split_ssh).
THEOREM HostsAgree == Spec => []ReadsOneHost
<1>1. ASSUME Knows, Walk, pc = "gate"
      PROVE  ReadsOneHost
  <2>1. purpose = classify(chain)
    BY <1>1 DEF Knows, Stages
  <2>2. chain # <<>> => chain[1].args \in Seq(STRING)
    <3>1. chain # <<>> => 1 \in 1..Len(chain)
      BY <1>1 DEF Walk, Read
    <3> QED
      BY <1>1, <3>1, LinkIs
  <2> QED
    BY <2>1, <2>2, HostTold DEF ReadsOneHost
<1>2. Knows /\ Walk => ReadsOneHost
  BY <1>1 DEF ReadsOneHost
<1> QED
  BY <1>2, KnowsInit, KnowsStep, TypedInit, TypedStep, WalkInit, WalkStep, PTL DEF Spec

-----------------------------------------------------------------------------
(* What is read of a plain request, and what it really is. *)

\* The host on its command line is the only one that it names.
LEMMA PlainHost ==
  ASSUME NEW s \in Scene, KnownHost(s), ReadHost(s) # None
  PROVE  Hosts(s) = {HostOf(ReadHost(s))}
<1> DEFINE args == s.procs[1].args
           tool == s.procs[1].name
           ops  == Operands(args, 2, SSH_TAKES_ARG)
           w    == args[Min(ops)]
<1>1. tool \in {"ssh", "scp", "sftp"} /\ FirstOperand(args, 2, SSH_TAKES_ARG) = ReadHost(s)
  BY DEF ReadHost
<1>2. args \in Seq(STRING) /\ Len(args) \in Nat
  BY AttributionAssumption
<1>3. ops # {} /\ w = ReadHost(s)
  BY <1>1 DEF FirstOperand
<1>4. Min(ops) \in ops
  <2>1. ops \in SUBSET Nat
    BY <1>2 DEF Operands
  <2> HIDE DEF ops
  <2> QED
    BY <1>3, <2>1, Smallest
<1>5. Operands(args, 2, Takes[tool]) = ops
  <2>1. Agree(args, 2, Takes[tool], SSH_TAKES_ARG)
    BY <1>1 DEF KnownHost
  <2> QED
    BY <1>2, <2>1, OperandsAgree
<1>6. tool # "ssh" => /\ w \in DOMAIN HostIn
                      /\ \A i \in ops : args[i] \in DOMAIN HostIn => HostIn[args[i]] = HostIn[w]
  BY <1>1, <1>3 DEF KnownHost
<1>7. Hosts(s) = IF tool = "ssh" THEN IF ops = {} THEN {} ELSE {HostOf(args[Min(ops)])}
                 ELSE IF tool \in {"scp", "sftp"}
                   THEN {HostIn[args[i]] : i \in {j \in ops : args[j] \in DOMAIN HostIn}}
                 ELSE {}
  BY <1>5 DEF Hosts
<1> HIDE DEF args, tool, ops
<1>8. CASE tool = "ssh"
  BY <1>3, <1>7, <1>8
<1>9. CASE tool # "ssh"
  <2>1. Hosts(s) = {HostIn[args[i]] : i \in {j \in ops : args[j] \in DOMAIN HostIn}}
    BY <1>1, <1>7, <1>9
  <2>2. Hosts(s) = {HostIn[w]}
    BY <1>4, <1>6, <1>9, <2>1
  <2> QED
    BY <1>3, <1>6, <1>9, <2>2 DEF HostOf
<1> QED
  BY <1>8, <1>9

\* The remote of its scope is the one that it contacts.
LEMMA PlainUrl ==
  ASSUME NEW s \in Scene, InPlace(s), KnownRemote(s), Contacts(s) # None
  PROVE  ReadRepo(s) = Contacts(s)
<1> DEFINE args == GitArgs(s)
           at   == SubAt(args)
           repo == RepoIn(s)
           g    == DotGit[repo]
           c    == Common(g)
           origin == UrlAt(Remotes[c], "origin")
           own  == OnBranch(BranchRemote, g)
           pushed == FirstOperand(args, at + 1, PUSH_TAKES_ARG)
<1>1. GitRepo(s) # None /\ at # 0
  BY DEF Contacts
<1>2. GitsOf(s) # {}
  BY <1>1 DEF GitRepo
<1>3. GitRepo(s) = repo /\ repo # None
  BY <1>1, <1>2 DEF GitRepo, RepoIn, InPlace
<1>4. args \in Seq(STRING) /\ Len(args) \in Nat
  <2>1. GitsOf(s) \in SUBSET Nat /\ \A i \in GitsOf(s) : i \in 1..Len(s.procs)
    BY DEF GitsOf
  <2>2. Min(GitsOf(s)) \in 1..Len(s.procs)
    BY <1>2, <2>1, Smallest
  <2> QED
    BY <1>2, <2>2, AttributionAssumption DEF GitArgs
<1>5. at \in 1..Len(args)
  <2> DEFINE ops == Operands(args, 2, Takes["git"])
  <2>1. ops \in SUBSET Nat /\ ops \subseteq 1..Len(args)
    BY <1>4 DEF Operands
  <2>2. at = IF ops = {} THEN 0 ELSE Min(ops)
    BY DEF SubAt
  <2> HIDE DEF ops, at, args
  <2>3. ops # {} /\ at = Min(ops)
    BY <1>1, <2>2
  <2> QED
    BY <2>1, <2>3, Smallest
<1>6. c \in Gitdir /\ None \notin DOMAIN Remotes[c] /\ g \in Gitdir
  <2>1. s.procs[1].cwd \in Path
    BY SceneAssumption
  <2>2. repo \in Path /\ g # None
    BY <1>3, <2>1, RootIs, RootIsNearest DEF RepoIn
  <2> QED
    BY <2>2, CommonIs, ContextAssumption
<1>7. ReadRepo(s) = OrElse(ReadUrl(s), origin)
  BY <1>3 DEF ReadRepo
<1>8. ReadUrl(s) = IF PushAt(s) = {} THEN None
                   ELSE LET named == FirstOperand(args, Min(PushAt(s)) + 1, PUSH_TAKES_ARG)
                        IN  UrlAt(Remotes[c], OrElse(named, own))
  BY DEF ReadUrl
<1>9. Contacts(s) = IF args[at] = "push" THEN PushesTo(args, at, g)
                    ELSE IF args[at] \in {"fetch", "pull"} THEN FetchesFrom(args, at, g)
                    ELSE None
  BY <1>1, <1>3 DEF Contacts
<1>10. PushAt(s) = {i \in 1..Len(args) : args[i] = "push"}
  BY DEF PushAt
<1>11. PushAt(s) # {} =>
         /\ at = Min(PushAt(s))
         /\ Agree(args, at + 1, Takes["push"], PUSH_TAKES_ARG)
         /\ pushed = None => /\ ArgAfter(SubSeq(args, at + 1, Len(args)), "--repo") = None
                             /\ OnBranch(PushRemote, g) = None
         /\ OrElse(pushed, OrElse(own, "origin")) \in DOMAIN Remotes[c] \ DOMAIN PushUrl[c]
  BY <1>1, <1>3 DEF KnownRemote
<1>12. PushAt(s) = {} /\ args[at] \in {"fetch", "pull"} =>
         LET from == OrElse(FirstOperand(args, at + 1, Takes["fetch"]), OrElse(own, "origin"))
         IN  from = "origin" /\ from \in DOMAIN Remotes[c]
  BY <1>1, <1>3 DEF KnownRemote
<1> HIDE DEF args, at, repo, g, c
<1>13. CASE args[at] = "push"
  <2> DEFINE named == FirstOperand(args, at + 1, Takes["push"])
             word  == OrElse(pushed, OrElse(own, "origin"))
  <2>1. PushAt(s) # {}
    BY <1>5, <1>10, <1>13
  <2>2. named = pushed
    BY <1>4, <1>5, <1>11, <2>1, OperandsAgree
  <2>3. PushesTo(args, at, g) =
          LET option == ArgAfter(SubSeq(args, at + 1, Len(args)), "--repo")
              set    == OrElse(OnBranch(PushRemote, g), own)
              to     == OrElse(named, OrElse(option, OrElse(set, "origin")))
          IN  IF to \in DOMAIN PushUrl[c] THEN PushUrl[c][to] ELSE UrlOfWord(c, to)
    BY DEF PushesTo, c
  <2> HIDE DEF named
  <2>4. PushesTo(args, at, g) =
          IF word \in DOMAIN PushUrl[c] THEN PushUrl[c][word] ELSE UrlOfWord(c, word)
    BY <1>11, <2>1, <2>2, <2>3 DEF OrElse
  <2>5. word \in DOMAIN Remotes[c] /\ word \notin DOMAIN PushUrl[c]
    BY <1>11, <2>1
  <2>6. Contacts(s) = Remotes[c][word] /\ UrlAt(Remotes[c], word) = Remotes[c][word]
    BY <1>9, <1>13, <2>4, <2>5 DEF UrlOfWord, UrlAt
  <2>7. ReadUrl(s) = UrlAt(Remotes[c], OrElse(pushed, own))
    BY <1>8, <1>11, <2>1
  <2> HIDE DEF pushed, own
  <2>8. CASE OrElse(pushed, own) # None
    <3>1. word = OrElse(pushed, own)
      BY <2>8 DEF OrElse
    <3> QED
      BY <1>7, <2>6, <2>7, <3>1 DEF OrElse
  <2>9. CASE OrElse(pushed, own) = None
    <3>1. word = "origin"
      BY <2>9 DEF OrElse
    <3>2. ReadUrl(s) = None
      BY <1>6, <2>7, <2>9 DEF UrlAt
    <3> QED
      BY <1>7, <2>6, <3>1, <3>2 DEF OrElse
  <2> QED
    BY <2>8, <2>9
<1>14. CASE args[at] # "push"
  <2>1. PushAt(s) = {}
    <3>1. ASSUME PushAt(s) # {} PROVE FALSE
      <4>1. PushAt(s) \in SUBSET Nat
        BY <1>10
      <4>2. at \in PushAt(s)
        BY <1>11, <3>1, <4>1, Smallest
      <4> QED
        BY <1>10, <1>14, <4>2
    <3> QED
      BY <3>1
  <2>2. args[at] \in {"fetch", "pull"} /\ Contacts(s) = FetchesFrom(args, at, g)
    BY <1>9, <1>14
  <2>3. FetchesFrom(args, at, g) =
          UrlOfWord(c, OrElse(FirstOperand(args, at + 1, Takes["fetch"]), OrElse(own, "origin")))
    BY DEF FetchesFrom, c
  <2>4. Contacts(s) = origin
    BY <1>12, <2>1, <2>2, <2>3 DEF UrlOfWord, UrlAt
  <2>5. ReadUrl(s) = None
    BY <1>8, <2>1
  <2> QED
    BY <1>7, <2>4, <2>5 DEF OrElse
<1> QED
  BY <1>13, <1>14

\* The same command in the checkouts of one repository has one scope.
LEMMA ScopeShared ==
  ASSUME NEW s \in Scene, NEW t \in Scene, s.command = t.command, Place(s) = Place(t), NEW gaveUp
  PROVE  ReadScope(s, gaveUp) = ReadScope(t, gaveUp)
<1> DEFINE d == s.procs[1].cwd
           e == t.procs[1].cwd
<1>1. /\ s.procs[1].name = t.procs[1].name /\ s.procs[1].args = t.procs[1].args
      /\ GitArgs(s) = GitArgs(t)
      /\ RepoIn(s) # None /\ RepoIn(t) # None =>
           OnBranch(BranchRemote, DotGit[RepoIn(s)]) = OnBranch(BranchRemote, DotGit[RepoIn(t)])
      /\ d \in Path /\ e \in Path
  BY SceneAssumption
<1>2. Home(d) = Home(e)
  BY DEF Place
<1>3. RepoIn(s) = repo_root[d] /\ RepoIn(t) = repo_root[e]
  BY <1>1, RootIsNearest DEF RepoIn
<1> HIDE DEF d, e
<1>4. /\ RepoIn(s) = None <=> RepoIn(t) = None
      /\ RepoIn(s) # None => Common(DotGit[RepoIn(s)]) = Common(DotGit[RepoIn(t)])
  BY <1>1, <1>2, <1>3, SameHome
<1>5. ReadHost(s) = ReadHost(t) /\ PushAt(s) = PushAt(t)
  BY <1>1 DEF ReadHost, PushAt
<1>6. RepoIn(s) # None => ReadUrl(s) = ReadUrl(t)
  BY <1>1, <1>4, <1>5 DEF ReadUrl
<1>7. ReadRepo(s) = ReadRepo(t)
  BY <1>4, <1>6 DEF ReadRepo
<1> QED
  BY <1>5, <1>7 DEF ReadScope

\* An approval does not reach past what it was given for, of any two requests
\* whose command lines the daemon reads as ssh and git do, whatever it can read of
\* their repositories and whenever the user answers (classify, push_summary,
\* scope_of).
THEOREM ApprovalsKeepToScope == Spec => []ApprovalKeepsToScope
<1>1. ASSUME Knows, Typed, Rides, Plain(scene), Plain(earlier.scene)
      PROVE  NoBroader
  <2> DEFINE t == earlier.scene
  <2>1. scene \in Scene /\ t \in Scene
    BY <1>1 DEF Knows, Remembered, Rides, Typed, TypeOK
  <2>2. /\ InPlace(scene) /\ KnownHost(scene) /\ KnownRemote(scene)
        /\ InPlace(t) /\ KnownHost(t) /\ KnownRemote(t)
    BY <1>1 DEF Plain
  <2>3. Good(scene, scope, late, consent) /\ Good(t, scope, earlier.late, consent)
    BY <1>1, <2>2 DEF Knows, Gathered, Remembered, Rides
  <2> HIDE DEF t
  <2>4. scope.host # None => Hosts(scene) = Hosts(t)
    <3>1. ReadHost(scene) = scope.host /\ ReadHost(t) = scope.host
      BY <2>3 DEF Good
    <3> QED
      BY <2>1, <2>2, <3>1, PlainHost
  <2>5. scope.repo # None /\ Contacts(scene) # None /\ Contacts(t) # None
          => Contacts(scene) = Contacts(t)
    <3>1. scope.repo # None => ReadRepo(scene) = scope.repo /\ ReadRepo(t) = scope.repo
      BY <2>3 DEF Good
    <3> QED
      BY <2>1, <2>2, <3>1, PlainUrl
  <2>6. scope.repo = None => Place(scene) = Place(t)
    BY <2>3 DEF Good
  <2> QED
    BY <2>4, <2>5, <2>6 DEF NoBroader, t
<1>2. Knows /\ Typed => ApprovalKeepsToScope
  BY <1>1 DEF ApprovalKeepsToScope
<1> QED
  BY <1>2, KnowsInit, KnowsStep, TypedInit, TypedStep, WalkInit, WalkStep, PTL DEF Spec

\* A linked worktree and the clone it came from count as one place (main_checkout,
\* common_dir, origin_url).
THEOREM WorktreesShare == Spec => []WorktreeShares
<1>1. ASSUME Knows, Typed, pc = "gate", Whole, earlier # None,
             scene.command = earlier.scene.command, Place(scene) = Place(earlier.scene),
             InPlace(scene), InPlace(earlier.scene),
             late = earlier.late, consent # "denied"
      PROVE  scope = earlier.scope
  <2>1. scene \in Scene /\ earlier.scene \in Scene
    BY <1>1 DEF Knows, Remembered, Typed, TypeOK
  <2>2. scope = ReadScope(scene, late) /\ earlier.scope = ReadScope(earlier.scene, late)
    BY <1>1 DEF Knows, Gathered, Remembered, Good
  <2> QED
    BY <1>1, <2>1, <2>2, ScopeShared
<1>2. Knows /\ Typed => WorktreeShares
  BY <1>1 DEF WorktreeShares
<1> QED
  BY <1>2, KnowsInit, KnowsStep, TypedInit, TypedStep, WalkInit, WalkStep, PTL DEF Spec
=============================================================================
