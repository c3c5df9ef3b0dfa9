----------------------------- MODULE GateProofs -----------------------------
(***************************************************************************)
(* Proofs about the gate, for every registry, parser and text: what the    *)
(* validator accepts, what the host reads, how long it may take and what   *)
(* the caller gets.                                                        *)
(*                                                                         *)
(* First come the loops, as functions of one round, and the induction they *)
(* need; then, part by part, what each loop computes; and at the end the   *)
(* invariant of Gate that ties the parts to its steps.                     *)
(***************************************************************************)
EXTENDS Gate, FiniteSetTheorems, WellFoundedInduction, TLAPS

-----------------------------------------------------------------------------
(* Loops                                                                   *)

\* Every set of numbers that has a member has a least one: the intervals from
\* zero to its members are finite, and one of them contains no other.
LEMMA LeastMember ==
    ASSUME NEW T \in SUBSET Nat, T # {}
    PROVE  \E m \in T : \A n \in T : m <= n
<1> DEFINE F == {0..n : n \in T}
<1>1. F \subseteq FiniteSubsetsOf(Nat) /\ F # {}
  <2>1. ASSUME NEW n \in T PROVE 0..n \in FiniteSubsetsOf(Nat)
    BY FS_Interval DEF FiniteSubsetsOf
  <2> QED
    BY <2>1
<1>2. IsWellFoundedOn(StrictSubsetOrdering(Nat), FiniteSubsetsOf(Nat))
  BY FS_StrictSubsetOrderingWellFounded
<1>3. PICK X \in F : \A Y \in F : <<Y, X>> \notin StrictSubsetOrdering(Nat)
  <2> HIDE DEF F
  <2> QED
    BY <1>1, <1>2, WFMin
<1>4. PICK m \in T : X = 0..m
  OBVIOUS
<1>5. ASSUME NEW n \in T PROVE m <= n
  <2> SUFFICES ASSUME n < m PROVE FALSE
    OBVIOUS
  <2>1. 0..n \subseteq 0..m /\ 0..n # 0..m /\ 0..n \subseteq Nat /\ 0..m \subseteq Nat
    <3>1. m \in 0..m /\ m \notin 0..n
      OBVIOUS
    <3> QED
      BY <3>1
  <2>2. <<0..n, 0..m>> \in StrictSubsetOrdering(Nat)
    BY <2>1 DEF StrictSubsetOrdering
  <2> QED
    BY <1>3, <1>4, <2>2
<1> QED
  BY <1>4, <1>5

LEMMA LeastIsLeast ==
    ASSUME NEW T \in SUBSET Nat, T # {}
    PROVE  Least(T) \in T /\ \A n \in T : Least(T) <= n
BY LeastMember DEF Least

\* Induction over the numbers, on the set of those that have the property.
LEMMA Induction ==
    ASSUME NEW S, 0 \in S, \A n \in Nat : n \in S => n + 1 \in S
    PROVE  Nat \subseteq S
<1> SUFFICES ASSUME Nat \ S # {} PROVE FALSE
  OBVIOUS
<1>1. PICK x \in Nat \ S : \A y \in Nat \ S : x <= y
  BY LeastMember
<1>2. x # 0 /\ x - 1 \in Nat /\ x - 1 + 1 = x
  BY <1>1
<1> QED
  BY <1>1, <1>2

\* The values that n rounds go through, the k-th of which is round[k].
Rounds(f, round, init, n) ==
    /\ DOMAIN f = 0..n
    /\ f[0] = init
    /\ \A k \in 1..n : f[k] = round[k][f[k - 1]]

LEMMA RoundsExist ==
    ASSUME NEW X, NEW round \in [Nat -> [X -> X]], NEW init \in X
    PROVE  \A n \in Nat : \E f \in [0..n -> X] : Rounds(f, round, init, n)
<1> DEFINE S == {n \in Nat : \E f \in [0..n -> X] : Rounds(f, round, init, n)}
<1>1. 0 \in S
  <2>1. [k \in 0..0 |-> init] \in [0..0 -> X] /\ Rounds([k \in 0..0 |-> init], round, init, 0)
    BY DEF Rounds
  <2> QED
    BY <2>1
<1>2. ASSUME NEW n \in Nat, n \in S PROVE n + 1 \in S
  <2>1. PICK f \in [0..n -> X] : Rounds(f, round, init, n)
    BY <1>2
  <2> DEFINE g == [k \in 0..(n + 1) |-> IF k <= n THEN f[k] ELSE round[n + 1][f[n]]]
  <2>2. round[n + 1] \in [X -> X] /\ f[n] \in X
    OBVIOUS
  <2>3. g \in [0..(n + 1) -> X]
    BY <2>2
  <2>4. \A k \in 1..(n + 1) : g[k] = round[k][g[k - 1]]
    BY <2>1 DEF Rounds
  <2>5. Rounds(g, round, init, n + 1)
    BY <2>1, <2>4 DEF Rounds
  <2> QED
    BY <2>3, <2>5
<1> QED
  BY <1>1, <1>2, Induction

LEMMA RoundsAgree ==
    ASSUME NEW round, NEW init, NEW n \in Nat, NEW f, NEW m \in Nat, NEW g,
           Rounds(f, round, init, n), Rounds(g, round, init, m)
    PROVE  \A k \in Nat : k <= n /\ k <= m => f[k] = g[k]
<1> DEFINE S == {k \in Nat : k <= n /\ k <= m => f[k] = g[k]}
<1>1. 0 \in S
  BY DEF Rounds
<1>2. ASSUME NEW k \in Nat, k \in S PROVE k + 1 \in S
  <2> SUFFICES ASSUME k + 1 <= n, k + 1 <= m PROVE f[k + 1] = g[k + 1]
    OBVIOUS
  <2>1. f[k + 1] = round[k + 1][f[k]] /\ g[k + 1] = round[k + 1][g[k]]
    BY DEF Rounds
  <2> QED
    BY <1>2, <2>1
<1> QED
  BY <1>1, <1>2, Induction

\* A function that is defined from its value before satisfies its definition.
Recursive(init, round, n) ==
    CHOOSE f : f = [k \in 0..n |-> IF k = 0 THEN init ELSE round[k][f[k - 1]]]

LEMMA RecursiveIsRounds ==
    ASSUME NEW X, NEW round \in [Nat -> [X -> X]], NEW init \in X, NEW n \in Nat
    PROVE  /\ Rounds(Recursive(init, round, n), round, init, n)
           /\ Recursive(init, round, n) \in [0..n -> X]
<1> DEFINE Eq(f) == f = [k \in 0..n |-> IF k = 0 THEN init ELSE round[k][f[k - 1]]]
           g == CHOOSE f : Eq(f)
<1>1. PICK f \in [0..n -> X] : Rounds(f, round, init, n)
  BY RoundsExist
<1>2. Eq(f)
  <2>1. \A k \in 0..n : f[k] = IF k = 0 THEN init ELSE round[k][f[k - 1]]
    BY <1>1 DEF Rounds
  <2> QED
    BY <2>1
<1>3. Eq(g)
  <2> HIDE DEF Eq
  <2> QED
    BY <1>2
<1>4. Rounds(g, round, init, n)
  <2> HIDE DEF g
  <2>1. DOMAIN g = 0..n /\ \A k \in 0..n : g[k] = IF k = 0 THEN init ELSE round[k][g[k - 1]]
    BY <1>3
  <2> QED
    BY <2>1 DEF Rounds
<1>5. g = f
  <2>1. \A k \in 0..n : g[k] = f[k]
    <3> HIDE DEF g
    <3> QED
      BY <1>1, <1>4, RoundsAgree
  <2>2. g = [k \in 0..n |-> g[k]] /\ f = [k \in 0..n |-> f[k]]
    <3> HIDE DEF g
    <3> QED
      BY <1>3
  <2> HIDE DEF g
  <2> QED
    BY <2>1, <2>2
<1>6. Recursive(init, round, n) = g
  BY DEF Recursive
<1> HIDE DEF g
<1> QED
  BY <1>1, <1>5, <1>6

\* Iterate gives the last of them.
IsLast(X, step, init, n) ==
    \E f \in [0..n -> X] : Rounds(f, [k \in Nat |-> step], init, n) /\ Iterate(step, init, n) = f[n]

LEMMA IterateIsLast ==
    ASSUME NEW X, NEW step \in [X -> X], NEW init \in X
    PROVE  \A n \in Nat : IsLast(X, step, init, n)
<1> SUFFICES ASSUME NEW n \in Nat PROVE IsLast(X, step, init, n)
  OBVIOUS
<1> DEFINE round == [k \in Nat |-> step]
           g == CHOOSE f : f = [k \in 0..n |-> IF k = 0 THEN init ELSE step[f[k - 1]]]
<1>1. \A f : [k \in 0..n |-> IF k = 0 THEN init ELSE step[f[k - 1]]]
                  = [k \in 0..n |-> IF k = 0 THEN init ELSE round[k][f[k - 1]]]
  OBVIOUS
<1>2. Recursive(init, round, n) = g
  BY <1>1 DEF Recursive
<1>3. Iterate(step, init, n) = g[n]
  BY DEF Iterate
<1>4. round \in [Nat -> [X -> X]]
  OBVIOUS
<1> HIDE DEF g, round
<1>5. Rounds(g, round, init, n) /\ g \in [0..n -> X]
  BY <1>2, <1>4, RecursiveIsRounds
<1> QED
  BY <1>3, <1>5 DEF IsLast, round

\* A loop's value after no rounds, and after one more.
LEMMA IterateStep ==
    ASSUME NEW X, NEW step \in [X -> X], NEW init \in X
    PROVE  /\ Iterate(step, init, 0) = init
           /\ \A n \in Nat : /\ Iterate(step, init, n) \in X
                             /\ Iterate(step, init, n + 1) = step[Iterate(step, init, n)]
<1>1. \A n \in Nat : IsLast(X, step, init, n)
  BY IterateIsLast
<1>2. Iterate(step, init, 0) = init
  BY <1>1 DEF Rounds, IsLast
<1>3. ASSUME NEW n \in Nat
      PROVE  /\ Iterate(step, init, n) \in X
             /\ Iterate(step, init, n + 1) = step[Iterate(step, init, n)]
  <2> DEFINE round == [k \in Nat |-> step]
  <2>1. IsLast(X, step, init, n) /\ IsLast(X, step, init, n + 1)
    BY <1>1
  <2>2. PICK f \in [0..n -> X] : Rounds(f, round, init, n) /\ Iterate(step, init, n) = f[n]
    BY <2>1 DEF IsLast
  <2>3. PICK g \in [0..(n + 1) -> X] :
            Rounds(g, round, init, n + 1) /\ Iterate(step, init, n + 1) = g[n + 1]
    BY <2>1 DEF IsLast
  <2>4. f[n] = g[n]
    <3> HIDE DEF round
    <3> QED
      BY <2>2, <2>3, RoundsAgree
  <2>5. g[n + 1] = step[g[n]]
    BY <2>3 DEF Rounds
  <2> QED
    BY <2>2, <2>3, <2>4, <2>5
<1> QED
  BY <1>2, <1>3

\* A loop rule: what holds before the first round, and after a round when it
\* held before, holds at the end.  Inv[k] is the set of values with it after k
\* rounds.
LEMMA LoopRule ==
    ASSUME NEW X, NEW step \in [X -> X], NEW init \in X,
           NEW Inv \in [Nat -> SUBSET X],
           init \in Inv[0],
           \A k \in Nat : \A v \in Inv[k] : step[v] \in Inv[k + 1]
    PROVE  \A n \in Nat : Iterate(step, init, n) \in Inv[n]
<1> DEFINE S == {n \in Nat : Iterate(step, init, n) \in Inv[n]}
<1>1. 0 \in S
  BY IterateStep
<1>2. ASSUME NEW n \in Nat, n \in S PROVE n + 1 \in S
  BY <1>2, IterateStep
<1> QED
  BY <1>1, <1>2, Induction

-----------------------------------------------------------------------------
(* Roles                                                                   *)

RoleNames == {"none", "flag", "value", "positional"}
RoleAfter(args, m, i, before) ==
    IF before = "flag" /\ TakesNext(m, args[i - 1]) THEN "value"
    ELSE IF LooksLikeFlag(args[i]) THEN "flag" ELSE "positional"

LEMMA RolesAre ==
    ASSUME NEW args \in Seq(STRING), NEW m
    PROVE  /\ Roles(args, m)[0] = "none"
           /\ \A i \in 1..Len(args) : Roles(args, m)[i] = RoleAfter(args, m, i, Roles(args, m)[i - 1])
<1> DEFINE round == [i \in Nat |-> [r \in RoleNames |-> RoleAfter(args, m, i, r)]]
           n == Len(args)
           g == CHOOSE role : role = [i \in 0..n |-> IF i = 0 THEN "none"
                                                     ELSE RoleAfter(args, m, i, role[i - 1])]
<1>1. n \in Nat
  OBVIOUS
<1>2. round \in [Nat -> [RoleNames -> RoleNames]]
  BY DEF RoleAfter, RoleNames
<1>3. "none" \in RoleNames
  BY DEF RoleNames
<1>4. PICK f \in [0..n -> RoleNames] : Rounds(f, round, "none", n)
  <2> HIDE DEF round, n
  <2> QED
    BY <1>1, <1>2, <1>3, RoundsExist
<1>5. f = [i \in 0..n |-> IF i = 0 THEN "none" ELSE RoleAfter(args, m, i, f[i - 1])]
  <2>1. \A i \in 1..n : f[i - 1] \in RoleNames /\ i \in Nat
    BY <1>1, <1>4
  <2>2. \A i \in 0..n : f[i] = IF i = 0 THEN "none" ELSE RoleAfter(args, m, i, f[i - 1])
    <3> HIDE DEF n
    <3>1. f[0] = "none" /\ \A i \in 1..n : f[i] = round[i][f[i - 1]]
      <4> HIDE DEF round
      <4> QED
        BY <1>4 DEF Rounds
    <3>2. \A i \in 1..n : round[i][f[i - 1]] = RoleAfter(args, m, i, f[i - 1])
      BY <2>1
    <3>3. \A i \in 1..n : f[i] = RoleAfter(args, m, i, f[i - 1])
      <4> HIDE DEF round
      <4> QED
        BY <3>1, <3>2
    <3> HIDE DEF round
    <3> QED
      BY <1>1, <3>1, <3>3
  <2> QED
    BY <1>4, <2>2
<1>6. g = [i \in 0..n |-> IF i = 0 THEN "none" ELSE RoleAfter(args, m, i, g[i - 1])]
  <2> DEFINE Eq(h) == h = [i \in 0..n |-> IF i = 0 THEN "none" ELSE RoleAfter(args, m, i, h[i - 1])]
  <2>1. Eq(f)
    BY <1>5
  <2>2. g = CHOOSE h : Eq(h)
    OBVIOUS
  <2> HIDE DEF Eq, g
  <2>3. Eq(g)
    BY <2>1, <2>2
  <2> QED
    BY <2>3 DEF Eq
<1>7. Roles(args, m) = g
  BY DEF Roles, RoleAfter
<1> HIDE DEF g, n
<1>8. g[0] = "none" /\ \A i \in 1..n : g[i] = RoleAfter(args, m, i, g[i - 1])
  BY <1>1, <1>6
<1> QED
  BY <1>7, <1>8 DEF n

-----------------------------------------------------------------------------
(* Flags                                                                   *)

\* GetFlag finds one flag at most.
LEMMA OneFlag ==
    ASSUME NEW m, NEW name, NEW f \in GetFlag(m, name)
    PROVE  GetFlag(m, name) = {f}
BY DEF GetFlag

\* Where the flags of a bundle end.
LEMMA LastLetterIs ==
    ASSUME NEW Character, NEW flag \in Seq(Character), Len(flag) >= 2, NEW m
    PROVE  /\ LastLetter(flag, m) \in 2..Len(flag)
           /\ \A k \in 2..Len(flag) :
                k < LastLetter(flag, m) => ~ TakesValue(m, Letter(flag, k))
           /\ LastLetter(flag, m) < Len(flag) => TakesValue(m, Letter(flag, LastLetter(flag, m)))
<1> DEFINE n == Len(flag)
           T == {k \in 2..n : TakesValue(m, Letter(flag, k))} \cup {n}
<1>1. n \in Nat /\ n >= 2
  OBVIOUS
<1> HIDE DEF n
<1>2. T \in SUBSET Nat /\ T # {} /\ T \subseteq 2..n
  BY <1>1
<1>3. LastLetter(flag, m) = Least(T)
  BY DEF LastLetter, n
<1>4. \A k \in T : k = n \/ TakesValue(m, Letter(flag, k))
  OBVIOUS
<1>5. \A k \in 2..n : TakesValue(m, Letter(flag, k)) => k \in T
  OBVIOUS
<1> HIDE DEF T
<1>6. Least(T) \in T /\ \A k \in T : Least(T) <= k
  BY <1>2, LeastIsLeast
<1>7. Least(T) \in 2..n
  BY <1>2, <1>6
<1>8. \A k \in 2..n : k < Least(T) => ~ TakesValue(m, Letter(flag, k))
  BY <1>1, <1>5, <1>6, <1>7
<1> QED
  BY <1>1, <1>3, <1>4, <1>6, <1>7, <1>8 DEF n

\* The loop over a bundle finds what the bundle is: flags that are declared
\* and not denied, and the value of the last one.
LEMMA BundleIsAllowed ==
    ASSUME NEW Character, NEW flag \in Seq(Character), Len(flag) >= 2, NEW command, NEW m
    PROVE  BundleAllowed(command, flag, m) <=>
             LET last == LastLetter(flag, m) IN
             /\ \A k \in 2..last : \E f \in GetFlag(m, Letter(flag, k)) : ~ f.deny
             /\ last < Len(flag) =>
                  \A f \in GetFlag(m, Letter(flag, last)) :
                      validateFlagValue(command, m, f, From(flag, last + 1))
<1> DEFINE X == [at : Nat, verdict : {"open", "accepted", "rejected"}]
           n == Len(flag)
           last == LastLetter(flag, m)
           undenied(k) == \E f \in GetFlag(m, Letter(flag, k)) : ~ f.deny
           valued(k) == TakesValue(m, Letter(flag, k))
           right(k) == \A f \in GetFlag(m, Letter(flag, k)) :
                          validateFlagValue(command, m, f, From(flag, k + 1))
           step == BundleRound(command, flag, m)
           goal == (\A k \in 2..last : undenied(k)) /\ (last < n => right(last))
           Holds(v, k) ==
               /\ v.at \in 2..(n + 1)
               /\ v.verdict = "open" => (v.at > k + 1 \/ v.at > n)
               /\ v.verdict = "open" => \A j \in 2..(v.at - 1) : undenied(j) /\ ~ valued(j)
               /\ v.verdict = "accepted" => goal
               /\ v.verdict = "rejected" => ~ goal
           Inv == [k \in Nat |-> {v \in X : Holds(v, k)}]
           start == [at |-> 2, verdict |-> "open"]
<1>1. n \in Nat /\ n >= 2
  OBVIOUS
<1>2. /\ last \in 2..n
      /\ \A k \in 2..n : k < last => ~ valued(k)
      /\ last < n => valued(last)
  BY LastLetterIs
<1>3. step \in [X -> X]
  BY DEF BundleRound
<1>4. start \in Inv[0]
  BY <1>1
<1>5. ASSUME NEW k \in Nat, NEW v \in Inv[k] PROVE step[v] \in Inv[k + 1]
  <2>1. v \in X /\ Holds(v, k) /\ step[v] \in X /\ k + 1 \in Nat
    <3> HIDE DEF Holds, step, X
    <3> QED
      BY <1>3
  <2>2. SUFFICES Holds(step[v], k + 1)
    BY <2>1
  <2>3. CASE v.at > n \/ v.verdict # "open"
    <3>1. step[v] = v
      BY <2>1, <2>3 DEF BundleRound
    <3> QED
      BY <2>1, <2>3, <3>1
  <2>4. CASE ~ (v.at > n \/ v.verdict # "open")
    <3> DEFINE a == v.at
    <3>1. a \in 2..n /\ a <= last /\ v.verdict = "open" /\ a > k + 1
          /\ \A j \in 2..(a - 1) : undenied(j) /\ ~ valued(j)
      <4>1. a \in 2..n /\ v.verdict = "open" /\ a > k + 1
            /\ \A j \in 2..(a - 1) : undenied(j) /\ ~ valued(j)
        BY <1>1, <2>1, <2>4
      <4> HIDE DEF undenied, valued, n, last, a
      <4> QED
        BY <1>1, <1>2, <4>1
    <3>2. step[v] = [at |-> a + 1,
                     verdict |-> IF ~ undenied(a) THEN "rejected"
                                 ELSE IF ~ valued(a) THEN "open"
                                 ELSE IF a = n \/ right(a) THEN "accepted" ELSE "rejected"]
      BY <2>1, <2>4 DEF BundleRound
    <3> HIDE DEF undenied, valued, right, n, last, a, step
    <3>3. CASE ~ undenied(a)
      BY <1>1, <3>1, <3>2, <3>3
    <3>4. CASE undenied(a) /\ ~ valued(a)
      BY <1>1, <2>1, <3>1, <3>2, <3>4
    <3>5. CASE undenied(a) /\ valued(a)
      <4>1. last = a
        BY <1>1, <1>2, <3>1, <3>5
      <4>2. \A j \in 2..last : undenied(j)
        BY <1>1, <3>1, <3>5, <4>1
      <4> QED
        BY <1>1, <3>1, <3>2, <3>5, <4>1, <4>2, SMTT(30)
    <3> QED
      BY <3>3, <3>4, <3>5
  <2> QED
    BY <2>3, <2>4
<1>6. Iterate(step, start, n) \in Inv[n]
  <2>1. start \in X /\ Inv \in [Nat -> SUBSET X]
    BY <1>1
  <2> HIDE DEF step, start, Inv, X, n
  <2> QED
    BY <1>1, <1>3, <1>4, <1>5, <2>1, LoopRule
<1> DEFINE v == Iterate(step, start, n)
<1>7. v \in X /\ Holds(v, n)
  BY <1>1, <1>6
<1>8. BundleAllowed(command, flag, m) <=> v.verdict # "rejected"
  BY DEF BundleAllowed
<1> HIDE DEF v, step, start, undenied, valued, right, n, last
<1>9. v.verdict = "open" => goal
  <2> SUFFICES ASSUME v.verdict = "open" PROVE goal
    OBVIOUS
  <2>1. v.at = n + 1
    BY <1>1, <1>7
  <2>2. \A j \in 2..n : undenied(j) /\ ~ valued(j)
    BY <1>1, <1>7, <2>1
  <2>3. last = n
    BY <1>1, <1>2, <2>2
  <2> QED
    BY <1>1, <2>2, <2>3
<1>10. BundleAllowed(command, flag, m) <=> goal
  BY <1>7, <1>8, <1>9
<1> QED
  BY <1>10 DEF n, last, undenied, right

\* Where a character is found.
LEMMA IndexIsInText ==
    ASSUME NEW Character, NEW s \in Seq(Character), NEW c
    PROVE  IndexOf(s, c) \in 0..Len(s)
<1> DEFINE T == {i \in 1..Len(s) : Char(s, i) = c}
<1>1. CASE c \in CharsOf(s)
  <2>1. T \in SUBSET Nat /\ T # {} /\ T \subseteq 0..Len(s)
    BY <1>1 DEF CharsOf
  <2>2. IndexOf(s, c) = Least(T)
    BY <1>1 DEF IndexOf
  <2> HIDE DEF T
  <2> QED
    BY <2>1, <2>2, LeastIsLeast
<1>2. CASE c \notin CharsOf(s)
  BY <1>2 DEF IndexOf
<1> QED
  BY <1>1, <1>2

LEMMA NameIsText ==
    ASSUME NEW Character, NEW arg \in Seq(Character)
    PROVE  FlagName(arg) \in Seq(Character) /\ (HasInline(arg) => Inline(arg) \in Seq(Character))
<1>1. CASE HasInline(arg)
  <2>1. IndexOf(arg, "=") \in 2..Len(arg)
    BY <1>1, IndexIsInText DEF HasInline
  <2>2. \A k \in 1..Len(arg) : SubSeq(arg, 1, k) \in Seq(Character)
    OBVIOUS
  <2>3. \A k \in 2..(Len(arg) + 1) : SubSeq(arg, k, Len(arg)) \in Seq(Character)
    OBVIOUS
  <2> QED
    BY <1>1, <2>1, <2>2, <2>3 DEF FlagName, Inline, From
<1>2. CASE ~ HasInline(arg)
  BY <1>2 DEF FlagName
<1> QED
  BY <1>1, <1>2

\* The rule for a value is the manifest's, and it is no stricter but for SQL.
ValuesAreJudged(command, Values) ==
    \A m, f : \A value \in Values :
        /\ validateFlagValue(command, m, f, value) => ValueAllowed(command, m, f, value)
        /\ command # "psql" =>
             (ValueAllowed(command, m, f, value) => validateFlagValue(command, m, f, value))

LEMMA NoSQLValues ==
    ASSUME NEW command, command # "psql", NEW Values
    PROVE  ValuesAreJudged(command, Values)
BY DEF ValuesAreJudged, validateFlagValue, ValueAllowed

\* One flag token: what validateArgs asks of it is what its manifest asks.
LEMMA FlagIsJudged ==
    ASSUME NEW Character, NEW args \in Seq(Seq(Character)), NEW i \in 1..Len(args),
           NEW command, NEW m, ~ Undeclared(m, args[i]), ValuesAreJudged(command, Seq(Character))
    PROVE  /\ FlagAccepted(command, args, m, i) => FlagMeetsItsRule(command, args, m, i)
           /\ command # "psql" =>
                (FlagMeetsItsRule(command, args, m, i) => FlagAccepted(command, args, m, i))
<1> DEFINE arg == args[i]
           name == FlagName(arg)
           G == GetFlag(m, name)
           last == LastLetter(name, m)
           right(f, value) == validateFlagValue(command, m, f, value)
           allowed(f, value) == ValueAllowed(command, m, f, value)
<1>1. arg \in Seq(Character) /\ name \in Seq(Character)
      /\ (HasInline(arg) => Inline(arg) \in Seq(Character))
  <2>1. arg \in Seq(Character)
    OBVIOUS
  <2> HIDE DEF arg
  <2> QED
    BY <2>1, NameIsText
<1>2. ~ IsShorthand(m, arg) /\ ~ IsCommon(m, arg)
  BY DEF Undeclared
<1>3. \A f : \A value \in Seq(Character) :
        /\ right(f, value) => allowed(f, value)
        /\ command # "psql" => (allowed(f, value) => right(f, value))
  BY DEF ValuesAreJudged
<1>4. CASE G # {}
  <2>1. PICK f : G = {f}
    BY <1>4, OneFlag
  <2>2. validateFlag(command, name, m) <=> ~ f.deny
    BY <1>4, <2>1 DEF validateFlag
  <2>3. FlagAllowed(m, arg) <=> ~ f.deny
    BY <1>4, <2>1 DEF FlagAllowed, NamedBy
  <2>4. TakesNext(m, arg) <=> ~ HasInline(arg) /\ f.takesValue
    BY <1>2, <2>1 DEF TakesNext, TakesValue
  <2>5. ValuesGiven(args, m, i) =
            IF ~ f.takesValue THEN {}
            ELSE IF HasInline(arg) THEN {f} \X {Inline(arg)}
            ELSE IF i < Len(args) THEN {f} \X {args[i + 1]} ELSE {}
    <3>1. ~ InBundle(m, arg) /\ ~ Undeclared(m, arg)
      BY <1>4 DEF InBundle
    <3>2. {g \in G : g.takesValue} = IF f.takesValue THEN {f} ELSE {}
      BY <2>1
    <3> HIDE DEF G
    <3>3. ValuesGiven(args, m, i) =
            IF HasInline(arg) THEN {g \in G : g.takesValue} \X {Inline(arg)}
            ELSE IF i < Len(args) THEN {g \in G : g.takesValue} \X {args[i + 1]} ELSE {}
      BY <3>1 DEF ValuesGiven, G
    <3> QED
      BY <3>2, <3>3
  <2>6. (\A given \in ValuesGiven(args, m, i) : allowed(given[1], given[2])) <=>
            (f.takesValue => /\ HasInline(arg) => allowed(f, Inline(arg))
                             /\ ~ HasInline(arg) /\ i < Len(args) => allowed(f, args[i + 1]))
    <3> DEFINE given == ValuesGiven(args, m, i)
               only(value) == (\A g \in given : allowed(g[1], g[2])) <=> allowed(f, value)
    <3>1. ASSUME NEW value, given = {f} \X {value} PROVE only(value)
      <4>1. <<f, value>> \in given /\ \A g \in given : g[1] = f /\ g[2] = value
        BY <3>1
      <4> HIDE DEF allowed, given
      <4> QED
        BY <4>1
    <3>2. given = {} => \A g \in given : allowed(g[1], g[2])
      <4> HIDE DEF allowed, given
      <4> QED
        OBVIOUS
    <3>3. /\ ~ f.takesValue => given = {}
          /\ f.takesValue /\ HasInline(arg) => only(Inline(arg))
          /\ f.takesValue /\ ~ HasInline(arg) /\ i < Len(args) => only(args[i + 1])
          /\ f.takesValue /\ ~ HasInline(arg) /\ ~ (i < Len(args)) => given = {}
      <4> HIDE DEF only, given
      <4>1. given = IF ~ f.takesValue THEN {}
                    ELSE IF HasInline(arg) THEN {f} \X {Inline(arg)}
                    ELSE IF i < Len(args) THEN {f} \X {args[i + 1]} ELSE {}
        BY <2>5 DEF given
      <4> HIDE DEF arg
      <4> QED
        BY <3>1, <4>1
    <3> HIDE DEF allowed, given, arg
    <3> QED
      BY <3>2, <3>3 DEF given
  <2>7. FlagMeetsItsRule(command, args, m, i) <=>
            /\ ~ f.deny
            /\ f.takesValue => HasInline(arg) \/ i < Len(args)
            /\ f.takesValue => /\ HasInline(arg) => allowed(f, Inline(arg))
                               /\ ~ HasInline(arg) /\ i < Len(args) => allowed(f, args[i + 1])
    BY <1>2, <2>3, <2>4, <2>6 DEF FlagMeetsItsRule
  <2>8. FlagAccepted(command, args, m, i) <=>
            /\ ~ f.deny
            /\ f.takesValue => /\ HasInline(arg) \/ i < Len(args)
                               /\ right(f, IF HasInline(arg) THEN Inline(arg) ELSE args[i + 1])
    BY <2>1, <2>2 DEF FlagAccepted
  <2>9. i < Len(args) => args[i + 1] \in Seq(Character)
    OBVIOUS
  <2> HIDE DEF arg, right, allowed
  <2> QED
    BY <1>1, <1>3, <2>7, <2>8, <2>9
<1>5. CASE G = {}
  <2>1. validateFlag(command, name, m) <=> Bundles(name, m) /\ BundleAllowed(command, name, m)
    BY <1>5 DEF validateFlag
  <2>2. FlagAccepted(command, args, m, i) <=> Bundles(name, m) /\ BundleAllowed(command, name, m)
    BY <1>5, <2>1 DEF FlagAccepted
  <2>3. ~ TakesNext(m, arg)
    BY <1>2, <1>5 DEF TakesNext, TakesValue
  <2>4. CASE ~ Bundles(name, m)
    <3>1. ~ FlagAllowed(m, arg)
      BY <1>2, <1>5, <2>4 DEF FlagAllowed, NamedBy, Undeclared
    <3> QED
      BY <2>2, <2>4, <3>1 DEF FlagMeetsItsRule
  <2>5. CASE Bundles(name, m)
    <3>1. Len(name) >= 2 /\ Len(name) \in Nat
      BY <1>1, <2>5 DEF Bundles
    <3>2. last \in 2..Len(name)
      BY <1>1, <3>1, LastLetterIs
    <3>3. FlagAllowed(m, arg) <=> \A k \in 2..last : \E f \in GetFlag(m, Letter(name, k)) : ~ f.deny
      <4>1. NamedBy(m, arg) = {Letter(name, k) : k \in 2..last}
        BY <1>5, <2>5 DEF NamedBy
      <4> QED
        BY <4>1 DEF FlagAllowed
    <3>4. ValuesGiven(args, m, i) =
            IF last < Len(name) THEN GetFlag(m, Letter(name, last)) \X {From(name, last + 1)} ELSE {}
      <4>1. (InBundle(m, arg) <=> last < Len(name)) /\ ~ Undeclared(m, arg)
        BY <1>5, <2>5 DEF InBundle
      <4>2. {f \in G : f.takesValue} = {}
        BY <1>5
      <4>3. \A value : {f \in G : f.takesValue} \X {value} = {}
        BY <4>2
      <4> QED
        BY <4>1, <4>3 DEF ValuesGiven
    <3>5. (\A given \in ValuesGiven(args, m, i) : allowed(given[1], given[2])) <=>
            (last < Len(name) =>
                \A f \in GetFlag(m, Letter(name, last)) : allowed(f, From(name, last + 1)))
      <4> DEFINE given == ValuesGiven(args, m, i)
                 A == GetFlag(m, Letter(name, last))
                 value == From(name, last + 1)
      <4>1. CASE last < Len(name)
        <5>1. /\ \A f \in A : <<f, value>> \in given /\ <<f, value>>[1] = f /\ <<f, value>>[2] = value
              /\ \A g \in given : g[1] \in A /\ g[2] = value
          <6>1. given = A \X {value}
            BY <3>4, <4>1
          <6> HIDE DEF given, A, value
          <6> QED
            BY <6>1
        <5> HIDE DEF allowed, given, A, value
        <5>2. (\A g \in given : allowed(g[1], g[2])) <=> \A f \in A : allowed(f, value)
          BY <5>1
        <5> QED
          BY <4>1, <5>2 DEF given, A, value
      <4>2. CASE ~ (last < Len(name))
        <5>1. given = {}
          BY <3>4, <4>2
        <5> HIDE DEF allowed, given
        <5> QED
          BY <4>2, <5>1 DEF given
      <4> QED
        BY <4>1, <4>2
    <3>6. BundleAllowed(command, name, m) <=>
            /\ \A k \in 2..last : \E f \in GetFlag(m, Letter(name, k)) : ~ f.deny
            /\ last < Len(name) =>
                 \A f \in GetFlag(m, Letter(name, last)) : right(f, From(name, last + 1))
      <4> HIDE DEF name
      <4> QED
        BY <1>1, <3>1, BundleIsAllowed
    <3>7. last < Len(name) => From(name, last + 1) \in Seq(Character)
      <4> HIDE DEF name, last
      <4>1. \A k \in 3..Len(name) : SubSeq(name, k, Len(name)) \in Seq(Character)
        BY <1>1, <3>1
      <4> QED
        BY <3>1, <3>2, <4>1 DEF From
    <3>8. FlagMeetsItsRule(command, args, m, i) <=>
            /\ FlagAllowed(m, arg)
            /\ \A given \in ValuesGiven(args, m, i) : allowed(given[1], given[2])
      BY <2>3 DEF FlagMeetsItsRule
    <3> HIDE DEF arg, name, last, right, allowed
    <3> QED
      BY <1>3, <2>2, <2>5, <3>3, <3>5, <3>6, <3>7, <3>8
  <2> QED
    BY <2>4, <2>5
<1> QED
  BY <1>4, <1>5

-----------------------------------------------------------------------------
(* Walks over an argument list                                             *)

\* The token that follows the one at a, and its value if it takes one.
After(args, m, a) == IF LooksLikeFlag(args[a]) /\ TakesNext(m, args[a]) THEN a + 2 ELSE a + 1

\* A walk that skips the values of flags stands on flags and positional
\* arguments only, and skips nothing else.
LEMMA WalkSkipsValues ==
    ASSUME NEW args \in Seq(STRING), NEW m, NEW a \in 1..Len(args), Roles(args, m)[a] # "value"
    PROVE  /\ Roles(args, m)[a] = IF LooksLikeFlag(args[a]) THEN "flag" ELSE "positional"
           /\ After(args, m, a) \in {a + 1, a + 2}
           /\ After(args, m, a) <= Len(args) => Roles(args, m)[After(args, m, a)] # "value"
           /\ \A j \in 1..Len(args) : a < j /\ j < After(args, m, a) => Roles(args, m)[j] = "value"
<1> DEFINE R == Roles(args, m)
           n == Len(args)
<1>1. n \in Nat /\ \A i \in 1..n : R[i] = RoleAfter(args, m, i, R[i - 1])
  BY RolesAre
<1>2. \A i \in 1..n : R[i - 1] # "flag" => R[i] # "value"
  <2> HIDE DEF R, n
  <2> QED
    BY <1>1 DEF RoleAfter
<1> HIDE DEF R, n
<1>3. R[a] = IF LooksLikeFlag(args[a]) THEN "flag" ELSE "positional"
  BY <1>1 DEF RoleAfter, R, n
<1>4. a + 1 <= n => R[a + 1] = RoleAfter(args, m, a + 1, R[a])
  <2>1. a + 1 <= n => a + 1 \in 1..n /\ (a + 1) - 1 = a
    BY <1>1 DEF n
  <2> QED
    BY <1>1, <2>1
<1>5. a + 2 <= n => R[a + 2] = RoleAfter(args, m, a + 2, R[a + 1])
  <2>1. a + 2 <= n => a + 2 \in 1..n /\ (a + 2) - 1 = a + 1
    BY <1>1 DEF n
  <2> QED
    BY <1>1, <2>1
<1>6. CASE LooksLikeFlag(args[a]) /\ TakesNext(m, args[a])
  <2>1. After(args, m, a) = a + 2 /\ R[a] = "flag"
    BY <1>3, <1>6 DEF After
  <2>2. a + 1 <= n => R[a + 1] = "value"
    BY <1>4, <1>6, <2>1 DEF RoleAfter
  <2>3. a + 2 <= n => R[a + 2] # "value"
    BY <1>1, <1>5, <2>2 DEF RoleAfter, n
  <2> QED
    BY <1>1, <1>3, <2>1, <2>2, <2>3 DEF R, n
<1>7. CASE ~ (LooksLikeFlag(args[a]) /\ TakesNext(m, args[a]))
  <2>1. After(args, m, a) = a + 1
    BY <1>7 DEF After
  <2>2. a + 1 <= n => R[a + 1] # "value"
    BY <1>3, <1>4, <1>7 DEF RoleAfter
  <2> QED
    BY <1>1, <1>3, <2>1, <2>2 DEF R, n
<1> QED
  BY <1>6, <1>7

LEMMA WalkStarts ==
    ASSUME NEW args \in Seq(STRING), NEW m, Len(args) >= 1
    PROVE  Roles(args, m)[1] # "value"
<1>1. Roles(args, m)[0] = "none" /\ Roles(args, m)[1] = RoleAfter(args, m, 1, Roles(args, m)[0])
  <2>1. 1 \in 1..Len(args) /\ 1 - 1 = 0
    OBVIOUS
  <2> QED
    BY <2>1, RolesAre
<1> QED
  BY <1>1 DEF RoleAfter

\* The flags that the validator skips the value of are those that take one.
LEMMA SpanIsAfter ==
    ASSUME NEW m, NEW arg, ~ IsShorthand(m, arg)
    PROVE  Span(m, arg) = IF TakesNext(m, arg) THEN 2 ELSE 1
<1>1. CASE IsCommon(m, arg)
  BY <1>1 DEF Span, TakesNext, IsCommon, psCommonParamsTakesValue
<1>2. CASE ~ IsCommon(m, arg)
  BY <1>2 DEF Span, TakesNext
<1> QED
  BY <1>1, <1>2

-----------------------------------------------------------------------------
(* validateArgs                                                            *)

TokenMeetsItsRule(command, args, m, i) ==
    /\ Roles(args, m)[i] = "flag" => FlagMeetsItsRule(command, args, m, i)
    /\ Roles(args, m)[i] = "positional" =>
         validatePositional(args[i], PositionalIndex(args, m, i), m)

\* The numbers of positional arguments that the walk counts.
LEMMA Positionals ==
    ASSUME NEW args \in Seq(STRING), NEW m, NEW a \in 1..Len(args), NEW b \in Nat, a < b,
           \A j \in 1..Len(args) : a < j /\ j < b => Roles(args, m)[j] = "value"
    PROVE  /\ PositionalIndex(args, m, a) \in Nat
           /\ PositionalIndex(args, m, b) = PositionalIndex(args, m, a)
                  + (IF Roles(args, m)[a] = "positional" THEN 1 ELSE 0)
<1> DEFINE P(i) == {j \in WithRole(args, m, "positional") : j < i}
           W == WithRole(args, m, "positional")
<1>1. W \subseteq 1..Len(args) /\ Len(args) \in Nat
      /\ \A j \in 1..Len(args) : j \in W <=> Roles(args, m)[j] = "positional"
  BY DEF WithRole
<1>2. IsFiniteSet(P(a))
  <2>1. IsFiniteSet(1..Len(args)) /\ P(a) \subseteq 1..Len(args)
    BY <1>1, FS_Interval
  <2> QED
    BY <2>1, FS_Subset
<1>3. Cardinality(P(a)) \in Nat
  BY <1>2, FS_CardinalityType
<1>4. CASE Roles(args, m)[a] = "positional"
  <2>1. P(b) = P(a) \cup {a} /\ a \notin P(a)
    <3> HIDE DEF W
    <3>1. P(b) = {j \in W : j < b} /\ P(a) = {j \in W : j < a}
      BY DEF W
    <3>2. a \in W /\ \A j \in W : a < j => ~ (j < b)
      BY <1>1, <1>4
    <3>3. \A j \in W : j < b <=> j < a \/ j = a
      BY <1>1, <3>2
    <3> QED
      BY <1>1, <3>1, <3>2, <3>3
  <2>2. Cardinality(P(b)) = Cardinality(P(a)) + 1
    BY <1>2, <2>1, FS_AddElement
  <2> QED
    BY <1>3, <1>4, <2>2 DEF PositionalIndex
<1>5. CASE Roles(args, m)[a] # "positional"
  <2>1. P(b) = P(a)
    <3> HIDE DEF W
    <3>1. P(b) = {j \in W : j < b} /\ P(a) = {j \in W : j < a}
      BY DEF W
    <3>2. a \notin W /\ \A j \in W : a < j => ~ (j < b)
      BY <1>1, <1>5
    <3>3. \A j \in W : j < b <=> j < a
      BY <1>1, <3>2
    <3> QED
      BY <1>1, <3>1, <3>2, <3>3
  <2>2. /\ PositionalIndex(args, m, a) = Cardinality(P(a))
        /\ PositionalIndex(args, m, b) = Cardinality(P(b))
    BY DEF PositionalIndex
  <2> HIDE DEF P
  <2> QED
    BY <1>3, <1>5, <2>1, <2>2
<1> QED
  BY <1>4, <1>5

\* The loop of validateArgs accepts the tokens that meet the rules of their
\* roles, and rejects no others but for SQL.
LEMMA ArgsAreJudged ==
    ASSUME NEW Character, NEW args \in Seq(STRING), args \in Seq(Seq(Character)),
           NEW command, NEW m, ValuesAreJudged(command, Seq(Character))
    PROVE  /\ ArgsAccepted(command, args, m) =>
                \A i \in 1..Len(args) : TokenMeetsItsRule(command, args, m, i)
           /\ command # "psql" =>
                ((\A i \in 1..Len(args) : TokenMeetsItsRule(command, args, m, i)) =>
                    ArgsAccepted(command, args, m))
<1> DEFINE n == Len(args)
           X == ArgsStates
           step == ArgsRound(command, args, m)
           meets(i) == TokenMeetsItsRule(command, args, m, i)
           role(i) == Roles(args, m)[i]
           start == [idx |-> 1, n |-> 0, ok |-> TRUE]
           Holds(v, k) ==
               /\ v.idx >= 1
               /\ v.ok => (v.idx > k \/ v.idx > n)
               /\ v.ok => v.n = PositionalIndex(args, m, v.idx)
               /\ v.ok /\ v.idx <= n => role(v.idx) # "value"
               /\ v.ok => \A i \in 1..n : i < v.idx => meets(i)
               /\ ~ v.ok /\ command # "psql" => \E i \in 1..n : ~ meets(i)
           Inv == [k \in Nat |-> {v \in X : Holds(v, k)}]
<1>1. n \in Nat
  OBVIOUS
<1>2. step \in [X -> X]
  <2>1. ASSUME NEW v \in X PROVE step[v] \in X
    <3>1. v.idx + 1 \in Nat /\ v.n + 1 \in Nat /\ v.idx + Span(m, args[v.idx]) \in Nat
      BY DEF ArgsStates, Span
    <3> QED
      BY <3>1 DEF ArgsRound, ArgsStates, validatePositional
  <2>2. step = [v \in X |-> step[v]]
    BY DEF ArgsRound
  <2> HIDE DEF X, step
  <2> QED
    BY <2>1, <2>2
<1>3. start \in Inv[0]
  <2>1. start \in X
    BY DEF ArgsStates
  <2>2. PositionalIndex(args, m, 1) = 0
    <3>1. {j \in WithRole(args, m, "positional") : j < 1} = {}
      BY DEF WithRole
    <3> QED
      BY <3>1, FS_EmptySet DEF PositionalIndex
  <2>3. 1 <= n => role(1) # "value"
    BY <1>1, WalkStarts
  <2>4. Holds(start, 0)
    BY <1>1, <2>2, <2>3
  <2> QED
    BY <2>1, <2>4
<1>4. ASSUME NEW k \in Nat, NEW v \in Inv[k] PROVE step[v] \in Inv[k + 1]
  <2>1. v \in X /\ Holds(v, k) /\ step[v] \in X /\ k + 1 \in Nat
    <3> HIDE DEF Holds, step, X
    <3> QED
      BY <1>2
  <2>2. SUFFICES Holds(step[v], k + 1)
    BY <2>1
  <2>3. CASE v.idx > n \/ ~ v.ok
    <3>1. step[v] = v
      BY <2>1, <2>3 DEF ArgsRound
    <3> HIDE DEF step, X
    <3> QED
      BY <2>1, <2>3, <3>1
  <2>4. CASE ~ (v.idx > n \/ ~ v.ok)
    <3> DEFINE a == v.idx
               arg == args[a]
               b == After(args, m, a)
    <3>1. /\ a \in 1..n /\ v.ok /\ a > k /\ v.n = PositionalIndex(args, m, a) /\ role(a) # "value"
          /\ \A i \in 1..n : i < a => meets(i)
      <4>1. a \in Nat
        BY <2>1 DEF ArgsStates
      <4> HIDE DEF meets, role, step, X
      <4> QED
        BY <1>1, <2>1, <2>4, <4>1
    <3>2. /\ role(a) = IF LooksLikeFlag(arg) THEN "flag" ELSE "positional"
          /\ b \in {a + 1, a + 2}
          /\ b <= n => role(b) # "value"
          /\ \A j \in 1..n : a < j /\ j < b => role(j) = "value"
      <4>1. a \in 1..Len(args) /\ Roles(args, m)[a] # "value"
        BY <3>1
      <4> HIDE DEF a
      <4> QED
        BY <4>1, WalkSkipsValues
    <3>3. \A i \in 1..n : i < b /\ i # a => meets(i)
      <4>1. \A i \in 1..n : role(i) = "value" => meets(i)
        BY DEF TokenMeetsItsRule
      <4> HIDE DEF a, b, meets, role, n
      <4> QED
        BY <1>1, <3>1, <3>2, <4>1
    <3>4. /\ PositionalIndex(args, m, a) \in Nat
          /\ PositionalIndex(args, m, b) =
                PositionalIndex(args, m, a) + (IF role(a) = "positional" THEN 1 ELSE 0)
      <4>1. a \in 1..Len(args) /\ b \in Nat /\ a < b
            /\ \A j \in 1..Len(args) : a < j /\ j < b => Roles(args, m)[j] = "value"
        BY <3>1, <3>2
      <4> HIDE DEF a, b
      <4> QED
        BY <4>1, Positionals
    <3>5. step[v] = IF ~ LooksLikeFlag(arg)
                    THEN [idx |-> a + 1, n |-> v.n + 1, ok |-> validatePositional(arg, v.n, m)]
                    ELSE IF IsShorthand(m, arg) THEN [v EXCEPT !.idx = a + 1]
                    ELSE [idx |-> a + Span(m, arg), n |-> v.n,
                          ok |-> IsCommon(m, arg) \/ FlagAccepted(command, args, m, a)]
      BY <2>1, <2>4 DEF ArgsRound
    \* What the round leaves: it stands on b, and the token at a is judged.
    <3>6. SUFFICES /\ step[v].idx = b
                   /\ step[v].n = PositionalIndex(args, m, b)
                   /\ step[v].ok => meets(a)
                   /\ ~ step[v].ok /\ command # "psql" => ~ meets(a)
      <4> HIDE DEF a, b, meets, role, n, step, X, arg
      <4> QED
        BY <1>1, <3>1, <3>2, <3>3, <3>6
    <3>7. CASE ~ LooksLikeFlag(arg)
      <4>1. b = a + 1 /\ role(a) = "positional"
        BY <3>2, <3>7 DEF After
      <4>2. meets(a) <=> validatePositional(arg, v.n, m)
        BY <3>1, <4>1 DEF TokenMeetsItsRule
      <4>3. step[v] = [idx |-> a + 1, n |-> v.n + 1, ok |-> validatePositional(arg, v.n, m)]
        BY <3>5, <3>7
      <4> HIDE DEF a, b, meets, role, n, step, X, arg
      <4> QED
        BY <3>1, <3>4, <4>1, <4>2, <4>3
    <3>8. CASE LooksLikeFlag(arg) /\ Undeclared(m, arg)
      <4>1. role(a) = "flag"
        BY <3>2, <3>8
      <4>2. meets(a)
        <5>1. FlagAllowed(m, arg) /\ ValuesGiven(args, m, a) = {}
              /\ (TakesNext(m, arg) => IsCommon(m, arg))
          BY <3>8 DEF FlagAllowed, ValuesGiven, TakesNext, Undeclared
        <5>2. FlagMeetsItsRule(command, args, m, a)
          BY <5>1 DEF FlagMeetsItsRule
        <5> QED
          BY <4>1, <5>2 DEF TokenMeetsItsRule
      <4>3. CASE IsShorthand(m, arg)
        <5>1. b = a + 1
          BY <4>3 DEF After, TakesNext
        <5>2. step[v] = [v EXCEPT !.idx = a + 1]
          BY <3>5, <3>8, <4>3
        <5>3. step[v].idx = b /\ step[v].n = v.n /\ step[v].ok
          BY <2>1, <3>1, <5>1, <5>2 DEF ArgsStates
        <5> HIDE DEF a, b, meets, role, n, step, X, arg
        <5> QED
          BY <3>1, <3>4, <4>1, <4>2, <5>3
      <4>4. CASE ~ IsShorthand(m, arg)
        <5>1. b = a + Span(m, arg)
          BY <3>8, <4>4, SpanIsAfter DEF After
        <5>2. step[v] = [idx |-> a + Span(m, arg), n |-> v.n,
                         ok |-> IsCommon(m, arg) \/ FlagAccepted(command, args, m, a)]
          BY <3>5, <3>8, <4>4
        <5>3. IsCommon(m, arg)
          BY <3>8, <4>4 DEF Undeclared
        <5>4. step[v].idx = b /\ step[v].n = v.n /\ step[v].ok
          <6> DEFINE accepted == IsCommon(m, arg) \/ FlagAccepted(command, args, m, a)
          <6>1. accepted
            BY <5>3
          <6>2. step[v] = [idx |-> a + Span(m, arg), n |-> v.n, ok |-> accepted]
            BY <5>2
          <6> HIDE DEF a, b, step, X, arg, accepted
          <6> QED
            BY <5>1, <6>1, <6>2
        <5> HIDE DEF a, b, meets, role, n, step, X, arg
        <5> QED
          BY <3>1, <3>4, <4>1, <4>2, <5>4
      <4> QED
        BY <4>3, <4>4
    <3>9. CASE LooksLikeFlag(arg) /\ ~ Undeclared(m, arg)
      <4>1. role(a) = "flag"
        BY <3>2, <3>9
      <4>2. meets(a) <=> FlagMeetsItsRule(command, args, m, a)
        BY <4>1 DEF TokenMeetsItsRule
      <4>3. /\ FlagAccepted(command, args, m, a) => FlagMeetsItsRule(command, args, m, a)
            /\ command # "psql" =>
                 (FlagMeetsItsRule(command, args, m, a) => FlagAccepted(command, args, m, a))
        <5>1. a \in 1..Len(args) /\ ~ Undeclared(m, args[a])
          BY <3>1, <3>9
        <5> HIDE DEF a
        <5> QED
          BY <5>1, FlagIsJudged
      <4>4. ~ IsShorthand(m, arg) /\ ~ IsCommon(m, arg)
        BY <3>9 DEF Undeclared
      <4>5. b = a + Span(m, arg)
        BY <3>9, <4>4, SpanIsAfter DEF After
      <4>6. step[v] = [idx |-> a + Span(m, arg), n |-> v.n,
                       ok |-> IsCommon(m, arg) \/ FlagAccepted(command, args, m, a)]
        BY <3>5, <3>9, <4>4
      <4>7. step[v].idx = b /\ step[v].n = v.n
            /\ (step[v].ok <=> FlagAccepted(command, args, m, a))
        <5> DEFINE accepted == IsCommon(m, arg) \/ FlagAccepted(command, args, m, a)
        <5>1. accepted <=> FlagAccepted(command, args, m, a)
          BY <4>4
        <5>2. step[v] = [idx |-> a + Span(m, arg), n |-> v.n, ok |-> accepted]
          BY <4>6
        <5>3. accepted \in BOOLEAN
          OBVIOUS
        <5> HIDE DEF a, b, step, X, arg, accepted
        <5> QED
          BY <4>5, <5>1, <5>2, <5>3
      <4> HIDE DEF a, b, meets, role, n, step, X, arg
      <4> QED
        BY <3>1, <3>4, <4>1, <4>2, <4>3, <4>7
    <3> QED
      BY <3>7, <3>8, <3>9
  <2> QED
    BY <2>3, <2>4
<1>5. Iterate(step, start, n) \in Inv[n]
  <2>1. start \in X /\ Inv \in [Nat -> SUBSET X]
    BY DEF ArgsStates
  <2> HIDE DEF step, start, Inv, X, n
  <2> QED
    BY <1>1, <1>2, <1>3, <1>4, <2>1, LoopRule
<1> DEFINE v == Iterate(step, start, n)
<1>6. v \in X /\ Holds(v, n)
  <2> HIDE DEF v, Holds
  <2> QED
    BY <1>1, <1>5 DEF v
<1>7. ArgsAccepted(command, args, m) = v.ok
  BY DEF ArgsAccepted
<1>8. v.idx \in Nat
  <2> HIDE DEF v, Holds
  <2> QED
    BY <1>6 DEF ArgsStates
<1> HIDE DEF v, n, meets, step, start
<1>9. /\ v.ok => \A i \in 1..n : meets(i)
      /\ ~ v.ok /\ command # "psql" => \E i \in 1..n : ~ meets(i)
  BY <1>1, <1>6, <1>8
<1> QED
  BY <1>7, <1>9 DEF n, meets

\* A token that reads as a count for -n takes no value.
ShorthandsArePlain(args, m) ==
    \A i \in DOMAIN args : IsShorthand(m, args[i]) =>
        \A f \in GetFlag(m, FlagName(args[i])) : ~ f.takesValue /\ ~ f.deny

\* The loop of validateRequiresOneOf finds a flag asked for where there is one
\* among the flags, and stops at a denied flag only.
LEMMA RequirementIsJudged ==
    ASSUME NEW args \in Seq(STRING), NEW m, ShorthandsArePlain(args, m)
    PROVE  /\ validateRequiresOneOf(args, m) => RequirementMet(args, m)
           /\ (\A i \in WithRole(args, m, "flag") : FlagAllowed(m, args[i])) =>
                (RequirementMet(args, m) => validateRequiresOneOf(args, m))
<1> DEFINE n == Len(args)
           X == [idx : Nat, verdict : {"open", "met", "denied"}]
           step == RequirementRound(args, m)
           role(i) == Roles(args, m)[i]
           meets(i) == ~ IsCommon(m, args[i]) /\ Meets(m, FlagName(args[i]))
           denied(i) == ~ IsCommon(m, args[i]) /\ \E f \in GetFlag(m, FlagName(args[i])) : f.deny
           start == [idx |-> 1, verdict |-> "open"]
           Holds(v, k) ==
               /\ v.idx >= 1
               /\ v.verdict = "open" => (v.idx > k \/ v.idx > n)
               /\ v.verdict = "open" /\ v.idx <= n => role(v.idx) # "value"
               /\ v.verdict = "open" => \A i \in 1..n : i < v.idx => ~ (role(i) = "flag" /\ meets(i))
               /\ v.verdict = "met" => \E i \in 1..n : role(i) = "flag" /\ meets(i)
               /\ v.verdict = "denied" => \E i \in 1..n : role(i) = "flag" /\ denied(i)
           Inv == [k \in Nat |-> {v \in X : Holds(v, k)}]
<1>1. n \in Nat
  OBVIOUS
<1>2. step \in [X -> X]
  BY DEF RequirementRound, Span
<1>3. start \in Inv[0]
  <2>1. 1 <= n => role(1) # "value"
    BY <1>1, WalkStarts
  <2> QED
    BY <1>1, <2>1
<1>4. \A i \in 1..n : LooksLikeFlag(args[i]) => After(args, m, i) = i + Span(m, args[i])
  <2> SUFFICES ASSUME NEW i \in 1..n, LooksLikeFlag(args[i])
               PROVE  After(args, m, i) = i + Span(m, args[i])
    OBVIOUS
  <2>1. CASE ~ IsShorthand(m, args[i])
    BY <2>1, SpanIsAfter DEF After
  <2>2. CASE IsShorthand(m, args[i])
    <3>1. ~ TakesValue(m, FlagName(args[i]))
      BY <1>1, <2>2 DEF ShorthandsArePlain, TakesValue
    <3>2. IsCommon(m, args[i]) => HasInline(args[i])
      BY <2>2, CommonParamsAreNoCounts DEF IsCommon, FlagName, IsShorthand
    <3>3. Span(m, args[i]) = 1
      BY <3>1, <3>2 DEF Span
    <3>4. After(args, m, i) = i + 1
      BY <2>2 DEF After, TakesNext
    <3> QED
      BY <3>3, <3>4
  <2> QED
    BY <2>1, <2>2
<1>5. ASSUME NEW k \in Nat, NEW v \in Inv[k] PROVE step[v] \in Inv[k + 1]
  <2>1. v \in X /\ Holds(v, k) /\ step[v] \in X /\ k + 1 \in Nat
    <3> HIDE DEF Holds, step, X
    <3> QED
      BY <1>2
  <2>2. SUFFICES Holds(step[v], k + 1)
    BY <2>1
  <2>3. CASE v.idx > n \/ v.verdict # "open"
    <3>1. step[v] = v
      BY <2>1, <2>3 DEF RequirementRound
    <3> HIDE DEF step, meets, denied, role
    <3> QED
      BY <1>1, <2>1, <2>3, <3>1
  <2>4. CASE ~ (v.idx > n \/ v.verdict # "open")
    <3> DEFINE a == v.idx
               arg == args[a]
               b == After(args, m, a)
    <3>1. /\ a \in 1..n /\ v.verdict = "open" /\ a > k /\ role(a) # "value"
          /\ \A i \in 1..n : i < a => ~ (role(i) = "flag" /\ meets(i))
      <4> HIDE DEF meets, denied, role, step
      <4> QED
        BY <1>1, <2>1, <2>4
    <3>2. /\ role(a) = IF LooksLikeFlag(arg) THEN "flag" ELSE "positional"
          /\ b \in {a + 1, a + 2}
          /\ b <= n => role(b) # "value"
          /\ \A j \in 1..n : a < j /\ j < b => role(j) = "value"
      <4>1. a \in 1..Len(args) /\ Roles(args, m)[a] # "value"
        BY <3>1
      <4> HIDE DEF a
      <4> QED
        BY <4>1, WalkSkipsValues
    <3>3. step[v] = IF ~ LooksLikeFlag(arg) THEN [v EXCEPT !.idx = a + 1]
                    ELSE IF IsCommon(m, arg) THEN [v EXCEPT !.idx = a + Span(m, arg)]
                    ELSE IF Meets(m, FlagName(arg)) THEN [v EXCEPT !.verdict = "met"]
                    ELSE IF \E f \in GetFlag(m, FlagName(arg)) : f.deny
                         THEN [v EXCEPT !.verdict = "denied"]
                    ELSE [v EXCEPT !.idx = a + Span(m, arg)]
      BY <2>1, <2>4 DEF RequirementRound
    <3>4. b = a + (IF LooksLikeFlag(arg) THEN Span(m, arg) ELSE 1)
      <4>1. ~ LooksLikeFlag(arg) => b = a + 1
        BY DEF After
      <4> HIDE DEF a
      <4> QED
        BY <1>4, <3>1, <4>1
    <3>5. CASE role(a) = "flag" /\ meets(a)
      <4>1. step[v] = [v EXCEPT !.verdict = "met"]
        BY <3>2, <3>3, <3>5
      <4>2. step[v].verdict = "met" /\ step[v].idx = a
        BY <2>1, <4>1
      <4> HIDE DEF meets, denied, role, step, arg, b
      <4> QED
        BY <3>1, <3>5, <4>2
    <3>6. CASE ~ (role(a) = "flag" /\ meets(a)) /\ role(a) = "flag" /\ denied(a)
      <4>1. step[v] = [v EXCEPT !.verdict = "denied"]
        BY <3>2, <3>3, <3>6
      <4>2. step[v].verdict = "denied" /\ step[v].idx = a
        BY <2>1, <4>1
      <4> HIDE DEF meets, denied, role, step, arg, b
      <4> QED
        BY <3>1, <3>6, <4>2
    <3>7. CASE ~ (role(a) = "flag" /\ meets(a)) /\ ~ (role(a) = "flag" /\ denied(a))
      <4>1. step[v] = [v EXCEPT !.idx = b]
        BY <3>2, <3>3, <3>4, <3>7
      <4>2. step[v].idx = b /\ step[v].verdict = "open"
        BY <2>1, <3>1, <4>1
      <4>3. b \in Nat /\ a \in Nat
        BY <3>1, <3>2
      <4> HIDE DEF meets, denied, role, step, arg, b, a, n
      <4>4. \A i \in 1..n : i < b => ~ (role(i) = "flag" /\ meets(i))
        BY <1>1, <3>1, <3>2, <3>7, <4>3
      <4> QED
        BY <1>1, <3>1, <3>2, <4>2, <4>3, <4>4
    <3> QED
      BY <3>5, <3>6, <3>7
  <2> QED
    BY <2>3, <2>4
<1>6. Iterate(step, start, n) \in Inv[n]
  <2>1. start \in X /\ Inv \in [Nat -> SUBSET X]
    OBVIOUS
  <2> HIDE DEF step, start, Inv, X, n
  <2> QED
    BY <1>1, <1>2, <1>3, <1>5, <2>1, LoopRule
<1> DEFINE v == Iterate(step, start, n)
<1>7. v \in X /\ Holds(v, n)
  <2> HIDE DEF v, Holds
  <2> QED
    BY <1>1, <1>6 DEF v
<1>8. validateRequiresOneOf(args, m) <=> m.requires = {} \/ v.verdict = "met"
  BY DEF validateRequiresOneOf
<1>9. RequirementMet(args, m) <=> m.requires = {} \/ \E i \in 1..n : role(i) = "flag" /\ meets(i)
  BY DEF RequirementMet, WithRole
<1>10. (\A i \in WithRole(args, m, "flag") : FlagAllowed(m, args[i])) =>
            \A i \in 1..n : ~ (role(i) = "flag" /\ denied(i))
  <2> SUFFICES ASSUME NEW i \in 1..n, role(i) = "flag", denied(i), FlagAllowed(m, args[i])
               PROVE  FALSE
    BY DEF WithRole
  <2>1. PICK f \in GetFlag(m, FlagName(args[i])) : f.deny /\ GetFlag(m, FlagName(args[i])) = {f}
    BY OneFlag
  <2>2. ~ IsShorthand(m, args[i])
    BY <1>1, <2>1 DEF ShorthandsArePlain
  <2>3. NamedBy(m, args[i]) = {FlagName(args[i])}
    BY <2>1 DEF NamedBy
  <2> QED
    BY <2>1, <2>2, <2>3 DEF FlagAllowed, Undeclared
<1>11. v.verdict = "open" => \A i \in 1..n : ~ (role(i) = "flag" /\ meets(i))
  <2> HIDE DEF v, n, meets, role, denied, step, start
  <2> QED
    BY <1>1, <1>7
<1> HIDE DEF v, n, meets, denied, role, step, start
<1> QED
  BY <1>7, <1>8, <1>9, <1>10, <1>11

\* What validateArgs accepts for a manifest is what the manifest allows.
LEMMA UseIsJudged ==
    ASSUME NEW Character, NEW args \in Seq(STRING), args \in Seq(Seq(Character)),
           NEW command, NEW m, ShorthandsArePlain(args, m),
           ValuesAreJudged(command, Seq(Character))
    PROVE  /\ ~ m.deny /\ validateArgs(command, args, m) => UseAllowed(command, args, m)
           /\ command \notin WithMoreRules =>
                (UseAllowed(command, args, m) => ~ m.deny /\ validateArgs(command, args, m))
<1> DEFINE meets(i) == TokenMeetsItsRule(command, args, m, i)
           flagsAllowed == \A i \in WithRole(args, m, "flag") : FlagAllowed(m, args[i])
<1>1. /\ ArgsAccepted(command, args, m) => \A i \in 1..Len(args) : meets(i)
      /\ command # "psql" =>
           ((\A i \in 1..Len(args) : meets(i)) => ArgsAccepted(command, args, m))
  BY ArgsAreJudged
<1>2. /\ validateRequiresOneOf(args, m) => RequirementMet(args, m)
      /\ flagsAllowed => (RequirementMet(args, m) => validateRequiresOneOf(args, m))
  BY RequirementIsJudged
<1>3. UseAllowed(command, args, m) <=>
         ~ m.deny /\ (\A i \in 1..Len(args) : meets(i)) /\ RequirementMet(args, m)
  <2>1. \A r : \A i : i \in WithRole(args, m, r) <=> i \in 1..Len(args) /\ Roles(args, m)[i] = r
    BY DEF WithRole
  <2>2. (\A i \in 1..Len(args) : meets(i)) <=>
            /\ \A i \in WithRole(args, m, "flag") : FlagMeetsItsRule(command, args, m, i)
            /\ \A i \in WithRole(args, m, "positional") :
                 validatePositional(args[i], PositionalIndex(args, m, i), m)
    BY <2>1 DEF TokenMeetsItsRule
  <2> HIDE DEF meets
  <2> QED
    BY <2>2 DEF UseAllowed
<1>4. (\A i \in 1..Len(args) : meets(i)) => flagsAllowed
  BY SMTT(30) DEF TokenMeetsItsRule, WithRole, FlagMeetsItsRule
<1>5. validateArgs(command, args, m) => validateRequiresOneOf(args, m) /\ ArgsAccepted(command, args, m)
  BY DEF validateArgs
<1>6. command \notin WithMoreRules =>
        /\ command # "psql"
        /\ validateRequiresOneOf(args, m) /\ ArgsAccepted(command, args, m) =>
             validateArgs(command, args, m)
  BY DEF validateArgs, validatePsqlRequiresC, validateUnzipRequiresMode,
         validateTarExtractRequiresStdout, WithMoreRules
<1> HIDE DEF meets, flagsAllowed
<1> QED
  BY <1>1, <1>2, <1>3, <1>4, <1>5, <1>6

-----------------------------------------------------------------------------
(* Wrappers                                                                *)

\* The loop of validateXargs over xargs' own flags stands on the first
\* positional argument when it ends, or on none.
LEMMA XargsFindsItsCommand ==
    ASSUME NEW Character, NEW args \in Seq(STRING), args \in Seq(Seq(Character)),
           NEW op, NEW reg, Unambiguous(args, reg),
           XargsCommand(args, op, reg) # 0
    PROVE  /\ XargsCommand(args, op, reg) \in 1..Len(args)
           /\ XargsCommand(args, op, reg) = AfterXargs(args, reg)
<1> DEFINE n == Len(args)
           m == reg["xargs"]
           X == [idx : Nat, ok : BOOLEAN]
           step == XargsRound(args, m)
           role(i) == Roles(args, m)[i]
           start == [idx |-> 1, ok |-> TRUE]
           Holds(v, k) ==
               /\ v.idx >= 1
               /\ v.ok => (v.idx > k \/ v.idx > n \/ ~ LooksLikeFlag(args[v.idx]))
               /\ v.ok /\ v.idx <= n => role(v.idx) # "value"
               /\ v.ok => \A i \in 1..n : i < v.idx => role(i) # "positional"
           Inv == [k \in Nat |-> {v \in X : Holds(v, k)}]
<1>1. n \in Nat
  OBVIOUS
<1>2. "xargs" \in DOMAIN reg
  BY DEF XargsCommand
<1>3. step \in [X -> X]
  <2>1. ASSUME NEW v \in X PROVE step[v] \in X
    <3> DEFINE allowed == validateFlag("xargs", args[v.idx], m)
               next == IF TakesValue(m, FlagName(args[v.idx])) THEN 2 ELSE 1
    <3>1. allowed \in BOOLEAN
      BY DEF validateFlag, Bundles, BundleAllowed
    <3>2. step[v] = IF v.idx > n \/ ~ v.ok \/ ~ LooksLikeFlag(args[v.idx]) THEN v
                    ELSE [idx |-> v.idx + next, ok |-> allowed]
      BY DEF XargsRound
    <3>3. next \in Nat
      OBVIOUS
    <3> HIDE DEF allowed, next, step
    <3> QED
      BY <3>1, <3>2, <3>3
  <2>2. step = [v \in X |-> step[v]]
    BY DEF XargsRound
  <2> HIDE DEF X, step
  <2> QED
    BY <2>1, <2>2
<1>4. start \in Inv[0]
  <2>1. 1 <= n => role(1) # "value"
    BY <1>1, WalkStarts
  <2> QED
    BY <1>1, <2>1
\* A flag that is accepted has no inline value, so that the loop skips what
\* the flag takes.
<1>5. \A i \in 1..n : LooksLikeFlag(args[i]) /\ validateFlag("xargs", args[i], m) =>
        After(args, m, i) = i + (IF TakesValue(m, FlagName(args[i])) THEN 2 ELSE 1)
  <2> SUFFICES ASSUME NEW i \in 1..n, LooksLikeFlag(args[i]), validateFlag("xargs", args[i], m)
               PROVE  After(args, m, i) = i + (IF TakesValue(m, FlagName(args[i])) THEN 2 ELSE 1)
    OBVIOUS
  <2>1. ~ IsPowerShell(m)
    BY <1>2 DEF Unambiguous, Lookup
  <2>2. ~ HasInline(args[i])
    <3>1. HasInline(args[i]) => GetFlag(m, args[i]) = {}
      BY <1>1, <1>2 DEF Unambiguous
    <3> QED
      BY <3>1 DEF validateFlag, Bundles, HasInline
  <2>3. IsShorthand(m, args[i]) => ~ TakesValue(m, FlagName(args[i]))
    <3>1. IsShorthand(m, args[i]) => \A f \in GetFlag(m, FlagName(args[i])) : ~ f.takesValue
      BY <1>1, <1>2 DEF Unambiguous
    <3> QED
      BY <3>1 DEF TakesValue
  <2>4. TakesNext(m, args[i]) <=> TakesValue(m, FlagName(args[i]))
    BY <2>1, <2>2, <2>3 DEF TakesNext, IsCommon
  <2> QED
    BY <2>4 DEF After
<1>6. ASSUME NEW k \in Nat, NEW v \in Inv[k] PROVE step[v] \in Inv[k + 1]
  <2>1. v \in X /\ Holds(v, k) /\ step[v] \in X /\ k + 1 \in Nat
    <3> HIDE DEF Holds, step, X
    <3> QED
      BY <1>3
  <2>2. SUFFICES Holds(step[v], k + 1)
    BY <2>1
  <2>3. CASE v.idx > n \/ ~ v.ok \/ ~ LooksLikeFlag(args[v.idx])
    <3>1. step[v] = v
      BY <2>1, <2>3 DEF XargsRound
    <3> HIDE DEF step, role, n
    <3> QED
      BY <1>1, <2>1, <2>3, <3>1
  <2>4. CASE ~ (v.idx > n \/ ~ v.ok \/ ~ LooksLikeFlag(args[v.idx]))
    <3> DEFINE a == v.idx
               b == After(args, m, a)
               allowed == validateFlag("xargs", args[a], m)
               next == IF TakesValue(m, FlagName(args[a])) THEN 2 ELSE 1
    <3>1. /\ a \in 1..n /\ a > k /\ role(a) # "value" /\ LooksLikeFlag(args[a])
          /\ \A i \in 1..n : i < a => role(i) # "positional"
      <4> HIDE DEF role, step
      <4> QED
        BY <1>1, <2>1, <2>4
    <3>2. step[v] = [idx |-> a + next, ok |-> allowed]
      BY <2>1, <2>4 DEF XargsRound
    <3>3. allowed \in BOOLEAN /\ next \in {1, 2}
      BY DEF validateFlag, Bundles, BundleAllowed
    <3>4. allowed => b = a + next
      <4> HIDE DEF a, m
      <4> QED
        BY <1>5, <3>1
    <3>5. /\ role(a) = "flag"
          /\ b <= n => role(b) # "value"
          /\ \A j \in 1..n : a < j /\ j < b => role(j) = "value"
      <4>1. a \in 1..Len(args) /\ Roles(args, m)[a] # "value"
        BY <3>1
      <4> HIDE DEF a, m
      <4> QED
        BY <3>1, <4>1, WalkSkipsValues
    <3>6. step[v].idx = a + next /\ (step[v].ok <=> allowed)
      <4> HIDE DEF allowed, next, step, a
      <4> QED
        BY <3>2, <3>3
    <3>7. a \in Nat
      BY <3>1
    <3> HIDE DEF role, step, a, b, n, allowed, next, m
    <3>8. allowed => \A i \in 1..n : i < b => role(i) # "positional"
      BY <1>1, <3>1, <3>3, <3>4, <3>5, <3>7
    <3> QED
      BY <1>1, <3>1, <3>3, <3>4, <3>5, <3>6, <3>7, <3>8
  <2> QED
    BY <2>3, <2>4
<1>7. Iterate(step, start, n) \in Inv[n]
  <2>1. start \in X /\ Inv \in [Nat -> SUBSET X]
    OBVIOUS
  <2> HIDE DEF step, start, Inv, X, n
  <2> QED
    BY <1>1, <1>3, <1>4, <1>6, <2>1, LoopRule
<1> DEFINE v == Iterate(step, start, n)
           first == XargsCommand(args, op, reg)
<1>8. v \in X /\ Holds(v, n)
  <2> HIDE DEF v, Holds
  <2> QED
    BY <1>1, <1>7 DEF v
<1>9. first = v.idx /\ v.ok /\ v.idx <= n
  BY DEF XargsCommand
<1>10. first \in 1..n /\ ~ LooksLikeFlag(args[first]) /\ role(first) # "value"
       /\ \A i \in 1..n : i < first => role(i) # "positional"
  <2> HIDE DEF v, first, role, step, start, m
  <2> QED
    BY <1>1, <1>8, <1>9
<1>11. role(first) = "positional"
  <2>1. first \in 1..Len(args)
    BY <1>10
  <2> HIDE DEF first, m
  <2> QED
    BY <1>10, <2>1, WalkSkipsValues
<1> DEFINE T == {i \in DOMAIN args : \A x \in Lookup(reg, "xargs") : Roles(args, x)[i] = "positional"}
                  \cup {n + 1}
<1>12. T = {i \in 1..n : role(i) = "positional"} \cup {n + 1}
  BY <1>1, <1>2 DEF Lookup
<1>13. AfterXargs(args, reg) = Least(T)
  BY DEF AfterXargs
<1>14. Least(T) \in T /\ \A i \in T : Least(T) <= i
  <2>1. T \in SUBSET Nat /\ T # {}
    <3> HIDE DEF n, role
    <3> QED
      BY <1>1, <1>12
  <2> HIDE DEF T
  <2> QED
    BY <2>1, LeastIsLeast
<1> HIDE DEF T, first, role, n, v, m
<1>15. first \in T /\ \A i \in T : first <= i
  BY <1>1, <1>10, <1>11, <1>12
<1>16. T \subseteq Nat
  BY <1>1, <1>12
<1>17. Least(T) = first
  <2> DEFINE least == Least(T)
  <2>1. least \in Nat /\ first \in Nat /\ least <= first /\ first <= least
    BY <1>14, <1>15, <1>16
  <2> HIDE DEF least
  <2>2. least = first
    BY <2>1
  <2> QED
    BY <2>2 DEF least
<1> QED
  BY <1>10, <1>13, <1>17 DEF first, n

\* What stands behind a wrapper, wherever it is found.
LEMMA FirstsAreArguments ==
    ASSUME NEW args \in Seq(STRING), NEW reg
    PROVE  /\ SudoCommand(args) \in 0..Len(args)
           /\ SudoCommand(args) # 0 => SudoCommand(args) = AfterSudo(args)
           /\ \A op : XargsCommand(args, op, reg) \in 0..Len(args)
           /\ AfterSudo(args) \in Nat \ {0}
           /\ AfterXargs(args, reg) \in 1..(Len(args) + 1)
<1> DEFINE n == Len(args)
<1>1. n \in Nat
  OBVIOUS
<1>2. /\ SudoCommand(args) \in 0..n
      /\ SudoCommand(args) # 0 => SudoCommand(args) = AfterSudo(args)
      /\ AfterSudo(args) \in Nat \ {0}
  BY <1>1 DEF SudoCommand, AfterSudo
<1>3. ASSUME NEW op PROVE XargsCommand(args, op, reg) \in 0..n
  <2> DEFINE X == [idx : Nat, ok : BOOLEAN]
             m == reg["xargs"]
             step == XargsRound(args, m)
             start == [idx |-> 1, ok |-> TRUE]
  <2>1. step \in [X -> X]
    <3>1. ASSUME NEW v \in X PROVE step[v] \in X
      <4> DEFINE allowed == validateFlag("xargs", args[v.idx], m)
                 next == IF TakesValue(m, FlagName(args[v.idx])) THEN 2 ELSE 1
      <4>1. allowed \in BOOLEAN
        BY DEF validateFlag, Bundles, BundleAllowed
      <4>2. step[v] = IF v.idx > n \/ ~ v.ok \/ ~ LooksLikeFlag(args[v.idx]) THEN v
                      ELSE [idx |-> v.idx + next, ok |-> allowed]
        BY DEF XargsRound
      <4>3. next \in Nat
        OBVIOUS
      <4> HIDE DEF allowed, next, step
      <4> QED
        BY <4>1, <4>2, <4>3
    <3>2. step = [v \in X |-> step[v]]
      BY DEF XargsRound
    <3> HIDE DEF X, step
    <3> QED
      BY <3>1, <3>2
  <2>2. start \in X
    OBVIOUS
  <2>3. Iterate(step, start, n) \in X
    <3> HIDE DEF X, step, start, n
    <3> QED
      BY <1>1, <2>1, <2>2, IterateStep
  <2> DEFINE last == Iterate(step, start, n)
  <2>4. last.idx \in Nat
    <3> HIDE DEF step, start
    <3> QED
      BY <2>3
  <2>5. XargsCommand(args, op, reg) = 0
        \/ (last.idx <= n /\ XargsCommand(args, op, reg) = last.idx)
    BY DEF XargsCommand
  <2> HIDE DEF last, n
  <2> QED
    BY <1>1, <2>4, <2>5
<1>4. AfterXargs(args, reg) \in 1..(n + 1)
  <2> DEFINE T == {i \in DOMAIN args : \A x \in Lookup(reg, "xargs") : Roles(args, x)[i] = "positional"}
                    \cup {n + 1}
  <2>1. T \subseteq 1..(n + 1) /\ T # {} /\ T \in SUBSET Nat
    BY <1>1
  <2>2. AfterXargs(args, reg) = Least(T)
    BY DEF AfterXargs
  <2> HIDE DEF T
  <2> QED
    BY <2>1, <2>2, LeastIsLeast
<1> QED
  BY <1>2, <1>3, <1>4

LEMMA RestIsUnambiguous ==
    ASSUME NEW args, NEW rest, NEW reg, Unambiguous(args, reg),
           \A i \in DOMAIN rest : \E j \in DOMAIN args : rest[i] = args[j]
    PROVE  Unambiguous(rest, reg)
BY DEF Unambiguous

LEMMA SegmentParts ==
    ASSUME NEW seg \in Segments
    PROVE  /\ seg.cmd \in STRING /\ seg.args \in Seq(STRING)
           /\ seg.op \in Operators \cup {""}
           /\ Len(seg.args) \in Nat
<1> DEFINE OpNames == Operators \cup {""}
<1>1. Segments = [cmd : STRING, args : Seq(STRING), op : OpNames]
  BY DEF Segments
<1> HIDE DEF OpNames
<1>2. seg.cmd \in STRING /\ seg.args \in Seq(STRING) /\ seg.op \in OpNames /\ Len(seg.args) \in Nat
  BY <1>1
<1> QED
  BY <1>2 DEF OpNames

LEMMA RoundsOfWrappers ==
    ASSUME NEW reg
    PROVE  /\ UnwrapRound(reg) \in [[seg : Segments, ok : BOOLEAN] -> [seg : Segments, ok : BOOLEAN]]
           /\ StartRound(reg) \in [Segments -> Segments]
<1> DEFINE X == [seg : Segments, ok : BOOLEAN]
           OpNames == Operators \cup {""}
<1>1. ASSUME NEW args \in Seq(STRING), NEW first \in 1..Len(args), NEW op, op \in OpNames
      PROVE  Segment(args[first], SubSeq(args, first + 1, Len(args)), op) \in Segments
  <2>1. \A a \in Seq(STRING) : \A f \in 1..Len(a) :
            a[f] \in STRING /\ SubSeq(a, f + 1, Len(a)) \in Seq(STRING)
    OBVIOUS
  <2>2. args[first] \in STRING /\ SubSeq(args, first + 1, Len(args)) \in Seq(STRING)
    BY <2>1
  <2> DEFINE rest == SubSeq(args, first + 1, Len(args))
             word == args[first]
             Str == STRING
             Lists == Seq(STRING)
  <2>3. Segments = [cmd : Str, args : Lists, op : OpNames]
    BY DEF Segments
  <2>4. Segment(word, rest, op) = [cmd |-> word, args |-> rest, op |-> op]
    BY DEF Segment
  <2>5. word \in Str /\ rest \in Lists
    BY <2>2
  <2> HIDE DEF OpNames, rest, word, Str, Lists
  <2>6. Segment(word, rest, op) \in Segments
    BY <1>1, <2>3, <2>4, <2>5
  <2> QED
    BY <2>6 DEF rest, word
<1>2. ASSUME NEW seg \in Segments
      PROVE  seg.cmd \in STRING /\ seg.args \in Seq(STRING) /\ seg.op \in OpNames
             /\ Len(seg.args) \in Nat
  BY SegmentParts
<1>3. UnwrapRound(reg) \in [X -> X]
  <2>1. ASSUME NEW v \in X PROVE UnwrapRound(reg)[v] \in X
    <3> DEFINE seg == v.seg
               first == IF seg.cmd = "sudo" THEN SudoCommand(seg.args)
                        ELSE XargsCommand(seg.args, seg.op, reg)
               op == IF seg.cmd = "sudo" THEN seg.op ELSE ""
    <3>1. UnwrapRound(reg)[v] = IF ~ v.ok \/ seg.cmd \notin Wrappers THEN v
                                ELSE IF first = 0 THEN [v EXCEPT !.ok = FALSE]
                                ELSE [v EXCEPT !.seg = InnerSegment(seg.args, first, op)]
      BY DEF UnwrapRound
    <3>2. seg \in Segments
      OBVIOUS
    <3> HIDE DEF seg, OpNames
    <3>3. first \in 0..Len(seg.args) /\ op \in OpNames /\ Len(seg.args) \in Nat
      <4>1. seg.args \in Seq(STRING) /\ seg.op \in OpNames /\ Len(seg.args) \in Nat
        BY <1>2, <3>2
      <4>2. SudoCommand(seg.args) \in 0..Len(seg.args)
            /\ XargsCommand(seg.args, seg.op, reg) \in 0..Len(seg.args)
        BY <4>1, FirstsAreArguments
      <4>3. first \in 0..Len(seg.args)
        <5>1. CASE seg.cmd = "sudo"
          BY <4>2, <5>1
        <5>2. CASE seg.cmd # "sudo"
          BY <4>2, <5>2
        <5> QED
          BY <5>1, <5>2
      <4>4. op \in OpNames
        BY <4>1 DEF OpNames
      <4> QED
        BY <4>1, <4>3, <4>4
    <3>4. first # 0 => InnerSegment(seg.args, first, op) \in Segments
      <4>1. first # 0 => first \in 1..Len(seg.args)
        <5> HIDE DEF first
        <5>1. \A n \in Nat : \A i \in 0..n : i # 0 => i \in 1..n
          OBVIOUS
        <5>2. first \in 0..Len(seg.args) /\ Len(seg.args) \in Nat
          BY <3>3
        <5> DEFINE n == Len(seg.args)
        <5> HIDE DEF n
        <5>3. first \in 0..n /\ n \in Nat
          BY <5>2 DEF n
        <5>4. first # 0 => first \in 1..n
          BY <5>1, <5>3
        <5> QED
          BY <5>4 DEF n
      <4> HIDE DEF first, op, seg
      <4> QED
        BY <1>1, <1>2, <3>2, <3>3, <4>1 DEF InnerSegment, Segment
    <3> HIDE DEF first, op
    <3> QED
      BY <3>1, <3>4 DEF seg
  <2>2. UnwrapRound(reg) = [v \in X |-> UnwrapRound(reg)[v]]
    BY DEF UnwrapRound
  <2> HIDE DEF X
  <2> QED
    BY <2>1, <2>2
<1>4. StartRound(reg) \in [Segments -> Segments]
  <2>1. ASSUME NEW seg \in Segments PROVE StartRound(reg)[seg] \in Segments
    <3> HIDE DEF OpNames
    <3> DEFINE first == IF seg.cmd = "sudo" THEN AfterSudo(seg.args) ELSE AfterXargs(seg.args, reg)
               inner == Segment(seg.args[first], SubSeq(seg.args, first + 1, Len(seg.args)), "")
    <3>1. StartRound(reg)[seg] = IF seg.cmd \notin {"sudo", "xargs"} \/ first > Len(seg.args) THEN seg
                                 ELSE inner
      BY DEF StartRound
    <3>2. first \in Nat \ {0}
      <4>1. seg.args \in Seq(STRING) /\ Len(seg.args) \in Nat
        BY <1>2
      <4>2. AfterSudo(seg.args) \in Nat \ {0} /\ AfterXargs(seg.args, reg) \in 1..(Len(seg.args) + 1)
        BY <4>1, FirstsAreArguments
      <4> QED
        BY <4>1, <4>2
    <3>3. ~ (first > Len(seg.args)) => inner \in Segments
      <4>1. ~ (first > Len(seg.args)) => first \in 1..Len(seg.args)
        <5> HIDE DEF first
        <5> QED
          BY <1>2, <3>2
      <4>2. seg.args \in Seq(STRING) /\ "" \in OpNames
        BY <1>2 DEF OpNames
      <4> HIDE DEF first
      <4> QED
        BY <1>1, <4>1, <4>2
    <3> HIDE DEF first, inner
    <3> QED
      BY <3>1, <3>3
  <2>2. StartRound(reg) = [seg \in Segments |-> StartRound(reg)[seg]]
    BY DEF StartRound
  <2> QED
    BY <2>1, <2>2
<1> QED
  BY <1>3, <1>4

LEMMA ListsOf ==
    ASSUME NEW S, NEW T, S \subseteq T
    PROVE  Seq(S) \subseteq Seq(T)
OBVIOUS

\* One round: the validator's wrapper is replaced by what it starts.
LEMMA UnwrapStepIsStartStep ==
    ASSUME NEW Character, STRING \subseteq Seq(Character), NEW reg,
           NEW v \in [seg : Segments, ok : BOOLEAN], NEW s \in Segments,
           v.ok, v.seg.cmd = s.cmd, v.seg.args = s.args, Unambiguous(v.seg.args, reg),
           UnwrapRound(reg)[v].ok
    PROVE  /\ UnwrapRound(reg)[v].seg.cmd = StartRound(reg)[s].cmd
           /\ UnwrapRound(reg)[v].seg.args = StartRound(reg)[s].args
           /\ Unambiguous(UnwrapRound(reg)[v].seg.args, reg)
<1> DEFINE seg == v.seg
           args == seg.args
           first == IF seg.cmd = "sudo" THEN SudoCommand(args) ELSE XargsCommand(args, seg.op, reg)
           op == IF seg.cmd = "sudo" THEN seg.op ELSE ""
           start == IF s.cmd = "sudo" THEN AfterSudo(s.args) ELSE AfterXargs(s.args, reg)
           w == UnwrapRound(reg)[v]
           t == StartRound(reg)[s]
<1>1. w = IF ~ v.ok \/ seg.cmd \notin Wrappers THEN v
          ELSE IF first = 0 THEN [v EXCEPT !.ok = FALSE]
          ELSE [v EXCEPT !.seg = InnerSegment(args, first, op)]
  BY DEF UnwrapRound
<1>2. t = IF s.cmd \notin {"sudo", "xargs"} \/ start > Len(s.args) THEN s
          ELSE Segment(s.args[start], SubSeq(s.args, start + 1, Len(s.args)), "")
  BY DEF StartRound
<1>3. args \in Seq(STRING) /\ Len(args) \in Nat
  <2>1. seg \in Segments
    OBVIOUS
  <2> HIDE DEF seg
  <2> QED
    BY <2>1, SegmentParts
<1>4. args \in Seq(Seq(Character))
  <2> DEFINE Str == STRING
             Texts == Seq(Character)
  <2>1. Str \subseteq Texts /\ args \in Seq(Str)
    BY <1>3
  <2> HIDE DEF Str, Texts, args
  <2>2. args \in Seq(Texts)
    BY <2>1, ListsOf
  <2> QED
    BY <2>2 DEF Texts
<1>5. v.ok /\ seg.cmd = s.cmd /\ args = s.args /\ Unambiguous(args, reg) /\ w.ok
  OBVIOUS
<1>6. CASE seg.cmd \notin Wrappers
  <2>1. w = v /\ t = s
    BY <1>1, <1>2, <1>5, <1>6 DEF Wrappers
  <2> QED
    BY <1>5, <2>1
<1>7. CASE seg.cmd \in Wrappers
  <2>1. first # 0
    <3>1. first = 0 => w = [v EXCEPT !.ok = FALSE]
      BY <1>1, <1>5, <1>7
    <3>2. [v EXCEPT !.ok = FALSE].ok = FALSE
      OBVIOUS
    <3> HIDE DEF w, first
    <3> QED
      BY <1>5, <3>1, <3>2
  <2>2. w = [v EXCEPT !.seg = InnerSegment(args, first, op)]
    BY <1>1, <1>5, <1>7, <2>1
  <2>3. w.seg = InnerSegment(args, first, op)
    <3>1. \A x : [v EXCEPT !.seg = x].seg = x
      OBVIOUS
    <3> HIDE DEF w, args, first, op
    <3> QED
      BY <2>2, <3>1
  <2>4. first = start /\ first \in 1..Len(args)
    <3> HIDE DEF seg, args
    <3>1. CASE seg.cmd = "sudo"
      <4>1. SudoCommand(args) # 0
        BY <2>1, <3>1
      <4>2. SudoCommand(args) \in 0..Len(args) /\ SudoCommand(args) = AfterSudo(args)
        BY <1>3, <4>1, FirstsAreArguments
      <4>3. SudoCommand(args) \in 1..Len(args)
        BY <1>3, <4>1, <4>2
      <4> QED
        BY <1>5, <3>1, <4>2, <4>3
    <3>2. CASE seg.cmd # "sudo"
      <4>1. XargsCommand(args, seg.op, reg) # 0
        BY <2>1, <3>2
      <4>2. XargsCommand(args, seg.op, reg) \in 1..Len(args)
            /\ XargsCommand(args, seg.op, reg) = AfterXargs(args, reg)
        BY <1>3, <1>4, <1>5, <4>1, XargsFindsItsCommand
      <4> QED
        BY <1>5, <3>2, <4>2
    <3> QED
      BY <3>1, <3>2
  <2>5. t = Segment(args[first], SubSeq(args, first + 1, Len(args)), "")
    <3>1. ~ (start > Len(s.args))
      <4> HIDE DEF first, start, args
      <4> QED
        BY <1>3, <1>5, <2>4
    <3> HIDE DEF first, start, args, seg, t
    <3> QED
      BY <1>2, <1>5, <1>7, <2>4, <3>1 DEF Wrappers
  <2> DEFINE rest == SubSeq(args, first + 1, Len(args))
  <2>6. w.seg.cmd = args[first] /\ w.seg.args = rest /\ t.cmd = args[first] /\ t.args = rest
    <3>1. \A c, a, o : Segment(c, a, o).cmd = c /\ Segment(c, a, o).args = a
      BY DEF Segment
    <3>2. InnerSegment(args, first, op) = Segment(args[first], rest, op)
      BY DEF InnerSegment
    <3> DEFINE word == args[first]
               none == ""
    <3>3. w.seg = Segment(word, rest, op) /\ t = Segment(word, rest, none)
      BY <2>3, <2>5, <3>2
    <3> HIDE DEF w, t, word, rest, op, none
    <3>4. w.seg.cmd = word /\ w.seg.args = rest /\ t.cmd = word /\ t.args = rest
      BY <3>1, <3>3
    <3> QED
      BY <3>4 DEF word
  <2>7. Unambiguous(rest, reg)
    <3>1. \A i \in DOMAIN rest : rest[i] = args[first + i] /\ first + i \in DOMAIN args
      <4>1. \A a \in Seq(STRING) : \A f \in 1..Len(a) : \A i \in DOMAIN SubSeq(a, f + 1, Len(a)) :
                SubSeq(a, f + 1, Len(a))[i] = a[f + i] /\ f + i \in DOMAIN a
        OBVIOUS
      <4> HIDE DEF args, first
      <4> QED
        BY <1>3, <2>4, <4>1
    <3> HIDE DEF args, first, rest
    <3> QED
      BY <1>5, <3>1, RestIsUnambiguous
  <2> HIDE DEF w, t, args, first, rest
  <2>8. w.seg.cmd = t.cmd /\ w.seg.args = t.args /\ Unambiguous(w.seg.args, reg)
    BY <2>6, <2>7
  <2> QED
    BY <2>8 DEF w, t
<1> QED
  BY <1>6, <1>7

\* What the validator has unwrapped after some rounds is what the wrappers
\* start after as many.
LEMMA UnwrapFollowsStart ==
    ASSUME NEW Character, STRING \subseteq Seq(Character), NEW reg,
           NEW seg \in Segments, Unambiguous(seg.args, reg), NEW n \in Nat,
           Iterate(UnwrapRound(reg), [seg |-> seg, ok |-> TRUE], n).ok
    PROVE  LET last    == Iterate(UnwrapRound(reg), [seg |-> seg, ok |-> TRUE], n).seg
               started == Iterate(StartRound(reg), seg, n) IN
           /\ last \in Segments
           /\ last.cmd = started.cmd /\ last.args = started.args
           /\ Unambiguous(last.args, reg)
<1> DEFINE X == [seg : Segments, ok : BOOLEAN]
           step == UnwrapRound(reg)
           begin == [seg |-> seg, ok |-> TRUE]
           started(k) == Iterate(StartRound(reg), seg, k)
           Holds(v, k) == v.ok => /\ v.seg.cmd = started(k).cmd
                                  /\ v.seg.args = started(k).args
                                  /\ Unambiguous(v.seg.args, reg)
           Inv == [k \in Nat |-> {v \in X : Holds(v, k)}]
<1>1. step \in [X -> X] /\ StartRound(reg) \in [Segments -> Segments]
  BY RoundsOfWrappers
<1>2. started(0) = seg
      /\ \A k \in Nat : started(k) \in Segments /\ started(k + 1) = StartRound(reg)[started(k)]
  BY <1>1, IterateStep
<1>3. begin \in Inv[0]
  BY <1>2
<1>4. ASSUME NEW k \in Nat, NEW v \in Inv[k] PROVE step[v] \in Inv[k + 1]
  <2>1. v \in X /\ Holds(v, k) /\ step[v] \in X /\ k + 1 \in Nat
    <3> HIDE DEF Holds, step, X
    <3> QED
      BY <1>1
  <2>2. Holds(step[v], k + 1)
    <3> SUFFICES ASSUME step[v].ok
                 PROVE  /\ step[v].seg.cmd = started(k + 1).cmd
                        /\ step[v].seg.args = started(k + 1).args
                        /\ Unambiguous(step[v].seg.args, reg)
      OBVIOUS
    <3>1. v.ok
      <4>1. ~ v.ok => step[v] = v
        BY <2>1 DEF UnwrapRound
      <4> HIDE DEF step
      <4> QED
        BY <4>1
    <3>2. started(k) \in Segments /\ started(k + 1) = StartRound(reg)[started(k)]
      BY <1>2
    <3>3. v.seg.cmd = started(k).cmd /\ v.seg.args = started(k).args /\ Unambiguous(v.seg.args, reg)
      BY <2>1, <3>1
    <3> HIDE DEF started
    <3> QED
      BY <2>1, <3>1, <3>2, <3>3, UnwrapStepIsStartStep
  <2> HIDE DEF Holds, step, X
  <2> QED
    BY <2>1, <2>2
<1>5. Iterate(step, begin, n) \in Inv[n]
  <2>1. begin \in X /\ Inv \in [Nat -> SUBSET X]
    OBVIOUS
  <2> HIDE DEF step, begin, Inv, X
  <2> QED
    BY <1>1, <1>3, <1>4, <2>1, LoopRule
<1> DEFINE v == Iterate(step, begin, n)
<1>6. v \in X /\ Holds(v, n) /\ v.ok
  <2>1. v.ok
    OBVIOUS
  <2> HIDE DEF v, Holds
  <2> QED
    BY <1>5, <2>1 DEF v
<1>7. v.seg \in Segments
  <2> HIDE DEF v, Holds
  <2> QED
    BY <1>6
<1> HIDE DEF step, begin
<1> QED
  BY <1>6, <1>7 DEF step, begin

-----------------------------------------------------------------------------
(* The verdict on a segment                                                *)

LEMMA ListsOfText ==
    ASSUME NEW Character, STRING \subseteq Seq(Character), NEW args \in Seq(STRING)
    PROVE  args \in Seq(Seq(Character))
<1> DEFINE Str == STRING
           Texts == Seq(Character)
<1>1. Str \subseteq Texts /\ args \in Seq(Str)
  OBVIOUS
<1> HIDE DEF Str, Texts
<1>2. args \in Seq(Texts)
  BY <1>1, ListsOf
<1> QED
  BY <1>2 DEF Texts

LEMMA UnambiguousIsPlain ==
    ASSUME NEW args, NEW reg, Unambiguous(args, reg), NEW n \in DOMAIN reg
    PROVE  ShorthandsArePlain(args, reg[n])
BY DEF Unambiguous, ShorthandsArePlain

\* A manifest of the registry is asked about a list of arguments.
LEMMA ManifestIsJudged ==
    ASSUME NEW Character, STRING \subseteq Seq(Character),
           ValuesAreJudged("psql", Seq(Character)),
           NEW reg, NEW args \in Seq(STRING), Unambiguous(args, reg),
           NEW name, NEW n \in DOMAIN reg
    PROVE  LET accepted == ~ reg[n].deny /\ validateArgs(name, args, reg[n]) IN
           /\ accepted => UseAllowed(name, args, reg[n])
           /\ name \notin WithMoreRules /\ UseAllowed(name, args, reg[n]) => accepted
<1>1. args \in Seq(Seq(Character))
  BY ListsOfText
<1>2. ShorthandsArePlain(args, reg[n])
  BY UnambiguousIsPlain
<1>3. ValuesAreJudged(name, Seq(Character))
  <2>1. CASE name = "psql"
    BY <2>1
  <2>2. CASE name # "psql"
    BY <2>2, NoSQLValues
  <2> QED
    BY <2>1, <2>2
<1> DEFINE m == reg[n]
<1> HIDE DEF m
<1>4. /\ ~ m.deny /\ validateArgs(name, args, m) => UseAllowed(name, args, m)
      /\ name \notin WithMoreRules =>
           (UseAllowed(name, args, m) => ~ m.deny /\ validateArgs(name, args, m))
  BY <1>1, <1>2, <1>3, UseIsJudged DEF m
<1> QED
  BY <1>4 DEF m

\* A command without a wrapper in front of it.
LEMMA PlainIsJudged ==
    ASSUME NEW Character, STRING \subseteq Seq(Character),
           ValuesAreJudged("psql", Seq(Character)),
           NEW reg, NEW seg \in Segments, Unambiguous(seg.args, reg)
    PROVE  LET allowed == \E s \in SpeaksFor(seg, reg) : UseAllowed(s.name, s.args, s.m) IN
           /\ validatePlain(seg, reg) => allowed
           /\ (\A s \in SpeaksFor(seg, reg) : s.name \notin WithMoreRules) /\ allowed =>
                validatePlain(seg, reg)
<1> DEFINE args == seg.args
           accepted(name, rest, m) == ~ m.deny /\ validateArgs(name, rest, m)
<1>1. args \in Seq(STRING) /\ Len(args) \in Nat
  BY SegmentParts
<1>2. Unambiguous(args, reg)
  OBVIOUS
<1>3. CASE seg.cmd \in SubcommandCommands /\ seg.args # << >>
  <2> DEFINE key == SubcommandKey(seg.cmd, args, reg)
             rest == SubSeq(args, key.skip + 1, Len(args))
             name == key.name
             M == Lookup(reg, name)
  <2>1. key.skip \in {1, 2} /\ key.skip <= Len(args)
    <3>1. Len(args) >= 1
      <4> HIDE DEF args
      <4>1. args # << >>
        BY <1>3 DEF args
      <4> QED
        BY <1>1, <4>1
    <3> HIDE DEF args
    <3> QED
      BY <1>1, <3>1 DEF SubcommandKey
  <2>2. /\ rest \in Seq(STRING)
        /\ \A i \in DOMAIN rest : \E j \in DOMAIN args : rest[i] = args[j]
    <3>1. \A a \in Seq(STRING) : \A k \in {1, 2} : k <= Len(a) =>
            /\ SubSeq(a, k + 1, Len(a)) \in Seq(STRING)
            /\ \A i \in DOMAIN SubSeq(a, k + 1, Len(a)) :
                  SubSeq(a, k + 1, Len(a))[i] = a[k + i] /\ k + i \in DOMAIN a
      OBVIOUS
    <3> HIDE DEF key, args
    <3> QED
      BY <1>1, <2>1, <3>1
  <2>3. Unambiguous(rest, reg)
    <3> HIDE DEF rest, args
    <3> QED
      BY <1>2, <2>2, RestIsUnambiguous
  <2>4. validatePlain(seg, reg) <=> \E m \in M : accepted(name, rest, m)
    BY <1>3 DEF validatePlain, validateSubcommand
  <2> DEFINE speaker(m) == [name |-> name, m |-> m, args |-> rest]
  <2>5. SpeaksFor(seg, reg) = {speaker(m) : m \in M}
    BY <1>3 DEF SpeaksFor
  <2>6. \A m \in M : name \in DOMAIN reg /\ m = reg[name]
    BY DEF Lookup
  <2>10. \A m : speaker(m).name = name /\ speaker(m).m = m /\ speaker(m).args = rest
    OBVIOUS
  <2> HIDE DEF speaker, key, rest, name, M, accepted, args
  <2>7. \A m \in M : /\ accepted(name, rest, m) => UseAllowed(name, rest, m)
                     /\ name \notin WithMoreRules /\ UseAllowed(name, rest, m) =>
                          accepted(name, rest, m)
    <3>1. SUFFICES ASSUME name \in DOMAIN reg
                   PROVE  /\ accepted(name, rest, reg[name]) => UseAllowed(name, rest, reg[name])
                          /\ name \notin WithMoreRules /\ UseAllowed(name, rest, reg[name]) =>
                               accepted(name, rest, reg[name])
      BY <2>6
    <3> QED
      BY <2>2, <2>3, <3>1, ManifestIsJudged DEF accepted
  <2>8. (\E s \in SpeaksFor(seg, reg) : UseAllowed(s.name, s.args, s.m))
            <=> \E m \in M : UseAllowed(name, rest, m)
    BY <2>5, <2>10
  <2>9. (\A s \in SpeaksFor(seg, reg) : s.name \notin WithMoreRules) =>
            M = {} \/ name \notin WithMoreRules
    BY <2>5, <2>10
  <2> QED
    BY <2>4, <2>7, <2>8, <2>9
<1>4. CASE ~ (seg.cmd \in SubcommandCommands /\ seg.args # << >>)
  <2> DEFINE name == seg.cmd
             M == lookupManifest(name, reg)
  <2>1. validatePlain(seg, reg) <=> \E m \in M : accepted(name, args, m)
    BY <1>4 DEF validatePlain
  <2> DEFINE speaker(m) == [name |-> name, m |-> m, args |-> args]
  <2>2. SpeaksFor(seg, reg) = {speaker(m) : m \in M}
    BY <1>4 DEF SpeaksFor
  <2>3. \A m \in M : \E n \in DOMAIN reg : m = reg[n]
    BY DEF lookupManifest
  <2>10. \A m : speaker(m).name = name /\ speaker(m).m = m /\ speaker(m).args = args
    OBVIOUS
  <2> HIDE DEF speaker, name, M, accepted, args
  <2>4. \A m \in M : /\ accepted(name, args, m) => UseAllowed(name, args, m)
                     /\ name \notin WithMoreRules /\ UseAllowed(name, args, m) =>
                          accepted(name, args, m)
    <3> SUFFICES ASSUME NEW n \in DOMAIN reg
                 PROVE  /\ accepted(name, args, reg[n]) => UseAllowed(name, args, reg[n])
                        /\ name \notin WithMoreRules /\ UseAllowed(name, args, reg[n]) =>
                             accepted(name, args, reg[n])
      BY <2>3
    <3> QED
      BY <1>1, <1>2, ManifestIsJudged DEF accepted
  <2>5. (\E s \in SpeaksFor(seg, reg) : UseAllowed(s.name, s.args, s.m))
            <=> \E m \in M : UseAllowed(name, args, m)
    BY <2>2, <2>10
  <2>6. (\A s \in SpeaksFor(seg, reg) : s.name \notin WithMoreRules) =>
            M = {} \/ name \notin WithMoreRules
    BY <2>2, <2>10
  <2> QED
    BY <2>1, <2>4, <2>5, <2>6
<1> QED
  BY <1>3, <1>4

LEMMA SegmentIsJudged ==
    ASSUME NEW Character, STRING \subseteq Seq(Character),
           ValuesAreJudged("psql", Seq(Character)),
           NEW reg, NEW seg \in Segments
    PROVE  VerdictIsRight(seg, reg)
<1> DEFINE n == Len(seg.args) + 1
           begin == [seg |-> seg, ok |-> TRUE]
           last == Iterate(UnwrapRound(reg), begin, n)
           started == Iterate(StartRound(reg), seg, n)
<1>1. n \in Nat
  <2>1. Len(seg.args) \in Nat
    BY SegmentParts
  <2> QED
    BY <2>1
<1>2. SUFFICES ASSUME Unambiguous(seg.args, reg)
               PROVE  /\ validateSegment(seg, reg) => AllowedToStart(seg, reg)
                      /\ /\ seg.cmd \notin {"sudo", "xargs"}
                         /\ \A s \in SpeaksFor(seg, reg) : s.name \notin WithMoreRules
                         /\ AllowedToStart(seg, reg)
                         => validateSegment(seg, reg)
  BY DEF VerdictIsRight
<1>3. validateSegment(seg, reg) <=> last.ok /\ validatePlain(last.seg, reg)
  BY DEF validateSegment
<1>4. AllowedToStart(seg, reg) <=>
        \E s \in SpeaksFor(started, reg) : UseAllowed(s.name, s.args, s.m)
  BY DEF AllowedToStart, Started
<1>5. ASSUME validateSegment(seg, reg) PROVE AllowedToStart(seg, reg)
  <2>1. last.ok
    BY <1>3, <1>5
  <2>2. /\ last.seg \in Segments
        /\ last.seg.cmd = started.cmd /\ last.seg.args = started.args
        /\ Unambiguous(last.seg.args, reg)
    <3> HIDE DEF n
    <3> QED
      BY <1>1, <1>2, <2>1, UnwrapFollowsStart
  <2>3. SpeaksFor(last.seg, reg) = SpeaksFor(started, reg)
    <3> HIDE DEF last, started
    <3> QED
      BY <2>2 DEF SpeaksFor
  <2> HIDE DEF last, started
  <2>4. \E s \in SpeaksFor(last.seg, reg) : UseAllowed(s.name, s.args, s.m)
    BY <1>3, <1>5, <2>2, PlainIsJudged
  <2> QED
    BY <1>4, <2>3, <2>4
<1>6. ASSUME seg.cmd \notin {"sudo", "xargs"},
             \A s \in SpeaksFor(seg, reg) : s.name \notin WithMoreRules,
             AllowedToStart(seg, reg)
      PROVE  validateSegment(seg, reg)
  <2> DEFINE X == [seg : Segments, ok : BOOLEAN]
  <2>1. UnwrapRound(reg) \in [X -> X] /\ StartRound(reg) \in [Segments -> Segments]
    BY RoundsOfWrappers
  <2>2. begin \in X /\ UnwrapRound(reg)[begin] = begin
    BY <1>6 DEF UnwrapRound, Wrappers
  <2>3. StartRound(reg)[seg] = seg
    BY <1>6 DEF StartRound
  <2>4. last = begin
    <3> DEFINE Inv == [k \in Nat |-> {begin}]
    <3>1. Inv \in [Nat -> SUBSET X] /\ begin \in Inv[0]
          /\ \A k \in Nat : \A v \in Inv[k] : UnwrapRound(reg)[v] \in Inv[k + 1]
      <4> HIDE DEF begin, X
      <4>1. \A k \in Nat : Inv[k] = {begin} /\ k + 1 \in Nat
        OBVIOUS
      <4>2. Inv \in [Nat -> SUBSET X]
        BY <2>2
      <4> HIDE DEF Inv
      <4> QED
        BY <2>2, <4>1, <4>2
    <3>2. Inv[n] = {begin}
      BY <1>1
    <3> HIDE DEF Inv, X, begin, n
    <3>3. last \in Inv[n]
      BY <1>1, <2>1, <2>2, <3>1, LoopRule
    <3> QED
      BY <3>2, <3>3
  <2>5. started = seg
    <3> DEFINE Inv == [k \in Nat |-> {seg}]
    <3>1. Inv \in [Nat -> SUBSET Segments] /\ seg \in Inv[0]
          /\ \A k \in Nat : \A v \in Inv[k] : StartRound(reg)[v] \in Inv[k + 1]
      BY <2>3
    <3>2. Inv[n] = {seg}
      BY <1>1
    <3> HIDE DEF Inv, n
    <3>3. started \in Inv[n]
      BY <1>1, <2>1, <3>1, LoopRule
    <3> QED
      BY <3>2, <3>3
  <2>6. last.ok /\ last.seg = seg
    <3>1. begin.ok /\ begin.seg = seg
      OBVIOUS
    <3> HIDE DEF last, begin
    <3> QED
      BY <2>4, <3>1
  <2> HIDE DEF last, started
  <2>7. validatePlain(seg, reg)
    BY <1>2, <1>4, <1>6, <2>5, PlainIsJudged
  <2> QED
    BY <1>3, <2>6, <2>7
<1> QED
  BY <1>5, <1>6

-----------------------------------------------------------------------------
(* SQL                                                                     *)

\* The members of a set up to a number.
LEMMA Counting ==
    ASSUME NEW S
    PROVE  /\ Cardinality(S \cap (1..0)) = 0
           /\ \A i \in Nat : Cardinality(S \cap (1..i)) \in Nat
           /\ \A i \in Nat : Cardinality(S \cap (1..(i + 1))) =
                  Cardinality(S \cap (1..i)) + (IF i + 1 \in S THEN 1 ELSE 0)
<1>1. Cardinality(S \cap (1..0)) = 0
  <2>1. S \cap (1..0) = {}
    OBVIOUS
  <2> QED
    BY <2>1, FS_EmptySet
<1>2. ASSUME NEW i \in Nat
      PROVE  IsFiniteSet(S \cap (1..i)) /\ Cardinality(S \cap (1..i)) \in Nat
  <2>1. IsFiniteSet(1..i) /\ S \cap (1..i) \subseteq 1..i
    BY FS_Interval
  <2> QED
    BY <2>1, FS_Subset, FS_CardinalityType
<1>3. ASSUME NEW i \in Nat
      PROVE  Cardinality(S \cap (1..(i + 1))) =
                Cardinality(S \cap (1..i)) + (IF i + 1 \in S THEN 1 ELSE 0)
  <2> DEFINE T == S \cap (1..i)
  <2>1. CASE i + 1 \in S
    <3>1. S \cap (1..(i + 1)) = T \cup {i + 1} /\ i + 1 \notin T
      BY <2>1
    <3>2. IsFiniteSet(T)
      BY <1>2
    <3> HIDE DEF T
    <3> QED
      BY <2>1, <3>1, <3>2, FS_AddElement DEF T
  <2>2. CASE i + 1 \notin S
    <3>1. S \cap (1..(i + 1)) = T
      BY <2>2
    <3>2. Cardinality(T) \in Nat
      BY <1>2
    <3> HIDE DEF T
    <3> QED
      BY <2>2, <3>1, <3>2 DEF T
  <2> QED
    BY <2>1, <2>2
<1> QED
  BY <1>1, <1>2, <1>3

\* Whether a character is in quotes follows from the one before it.
LEMMA QuoteByQuote ==
    ASSUME NEW s
    PROVE  /\ ~ InQuote(s, 1)
           /\ \A i \in Nat \ {0} : InQuote(s, i) \in BOOLEAN
           /\ \A i \in Nat \ {0} : InQuote(s, i + 1) <=> (InQuote(s, i) # (Char(s, i) = "'"))
<1> DEFINE S == {j \in Nat : Char(s, j) = "'"}
           count(i) == Cardinality(S \cap (1..i))
<1>1. \A i \in Nat \ {0} : InQuote(s, i) = (count(i - 1) % 2 = 1)
  <2> SUFFICES ASSUME NEW i \in Nat \ {0} PROVE InQuote(s, i) = (count(i - 1) % 2 = 1)
    OBVIOUS
  <2>1. {j \in 1..(i - 1) : Char(s, j) = "'"} = S \cap (1..(i - 1))
    OBVIOUS
  <2> QED
    BY <2>1 DEF InQuote
<1>2. /\ count(0) = 0
      /\ \A i \in Nat : count(i) \in Nat
      /\ \A i \in Nat : count(i + 1) = count(i) + (IF i + 1 \in S THEN 1 ELSE 0)
  <2> HIDE DEF S
  <2> QED
    BY Counting
<1>3. \A i \in Nat \ {0} : i \in S <=> Char(s, i) = "'"
  OBVIOUS
<1> HIDE DEF count, S
<1>4. ~ InQuote(s, 1)
  <2>1. 1 - 1 = 0 /\ 1 \in Nat \ {0} /\ 0 % 2 = 0
    OBVIOUS
  <2> QED
    BY <1>1, <1>2, <2>1
<1>5. ASSUME NEW i \in Nat \ {0}
      PROVE  InQuote(s, i + 1) <=> (InQuote(s, i) # (Char(s, i) = "'"))
  <2>1. count(i - 1) \in Nat /\ (i - 1) + 1 = i /\ (i + 1) - 1 = i /\ i + 1 \in Nat \ {0} /\ i - 1 \in Nat
    BY <1>2
  <2>2. count(i) = count(i - 1) + (IF Char(s, i) = "'" THEN 1 ELSE 0)
    BY <1>2, <1>3, <2>1
  <2>3. (InQuote(s, i) <=> count(i - 1) % 2 = 1) /\ (InQuote(s, i + 1) <=> count(i) % 2 = 1)
    BY <1>1, <2>1
  <2>4. \A c \in Nat : ((c + 1) % 2 = 1) <=> ~ (c % 2 = 1)
    OBVIOUS
  <2>5. InQuote(s, i) \in BOOLEAN
    BY DEF InQuote
  <2> QED
    BY <2>1, <2>2, <2>3, <2>4, <2>5
<1> QED
  BY <1>4, <1>5 DEF InQuote

\* How deep a character is follows from the one before it.
LEMMA DepthByDepth ==
    ASSUME NEW s
    PROVE  /\ DepthAt(s, 0) = 0
           /\ \A i \in Nat : DepthAt(s, i) \in Int
           /\ \A i \in Nat : DepthAt(s, i + 1) =
                  Deeper(Char(s, i + 1), InQuote(s, i + 1), DepthAt(s, i))
<1> DEFINE S(c) == {j \in Nat : Char(s, j) = c /\ ~ InQuote(s, j)}
           count(c, i) == Cardinality(S(c) \cap (1..i))
<1>1. \A i \in Nat : DepthAt(s, i) = count("(", i) - count(")", i)
  <2> SUFFICES ASSUME NEW i \in Nat PROVE DepthAt(s, i) = count("(", i) - count(")", i)
    OBVIOUS
  <2>1. \A c : {j \in 1..i : Char(s, j) = c /\ ~ InQuote(s, j)} = S(c) \cap (1..i)
    OBVIOUS
  <2> QED
    BY <2>1 DEF DepthAt
<1>2. ASSUME NEW c
      PROVE  /\ count(c, 0) = 0
             /\ \A i \in Nat : count(c, i) \in Nat
             /\ \A i \in Nat : count(c, i + 1) = count(c, i) + (IF i + 1 \in S(c) THEN 1 ELSE 0)
  <2> HIDE DEF S
  <2> QED
    BY Counting
<1>3. ASSUME NEW c PROVE \A i \in Nat : i + 1 \in S(c) <=> Char(s, i + 1) = c /\ ~ InQuote(s, i + 1)
  OBVIOUS
<1> HIDE DEF count, S
<1>4. DepthAt(s, 0) = 0
  BY <1>1, <1>2
<1>5. ASSUME NEW i \in Nat PROVE DepthAt(s, i) \in Int
  <2>1. count("(", i) \in Nat /\ count(")", i) \in Nat
    BY <1>2
  <2> QED
    BY <1>1, <2>1
<1>6. ASSUME NEW i \in Nat
      PROVE  DepthAt(s, i + 1) = Deeper(Char(s, i + 1), InQuote(s, i + 1), DepthAt(s, i))
  <2> DEFINE c == Char(s, i + 1)
             q == InQuote(s, i + 1)
             a == count("(", i)
             b == count(")", i)
  <2>1. /\ a \in Nat /\ b \in Nat
        /\ count("(", i + 1) = a + (IF c = "(" /\ ~ q THEN 1 ELSE 0)
        /\ count(")", i + 1) = b + (IF c = ")" /\ ~ q THEN 1 ELSE 0)
    BY <1>2, <1>3
  <2>2. DepthAt(s, i) = a - b /\ DepthAt(s, i + 1) = count("(", i + 1) - count(")", i + 1)
    BY <1>1
  <2>3. "(" # ")"
    OBVIOUS
  <2> HIDE DEF a, b, c, q
  <2>4. DepthAt(s, i + 1) = IF q \/ c \notin {"(", ")"} THEN a - b
                            ELSE IF c = "(" THEN (a - b) + 1 ELSE (a - b) - 1
    BY <2>1, <2>2, <2>3
  <2> QED
    BY <2>2, <2>4 DEF Deeper, c, q
<1> QED
  BY <1>4, <1>5, <1>6

LEMMA DepthIsNumber ==
    ASSUME NEW c, NEW q, NEW d \in Int, NEW e \in Int
    PROVE  Deeper(c, q, d) \in Int /\ Deeper(c, q, d - e) = Deeper(c, q, d) - e
BY DEF Deeper

\* extractCTEBody finds the parenthesis that takes the depth back to where it
\* was before the one at open.
LEMMA CloseIsFound ==
    ASSUME NEW Character, NEW s \in Seq(Character), NEW open \in 1..Len(s), ~ InQuote(s, open),
           CloseOf(s, open) # 0
    PROVE  /\ CloseOf(s, open) \in open..Len(s)
           /\ Char(s, CloseOf(s, open)) = ")"
           /\ DepthAt(s, CloseOf(s, open)) = DepthAt(s, open - 1)
<1> DEFINE n == Len(s)
           X == CloseStates
           step == CloseRound(s)
           start == [at |-> open, depth |-> 0, quoted |-> FALSE, close |-> 0]
           base == DepthAt(s, open - 1)
           right(c) == c \in open..n /\ Char(s, c) = ")" /\ DepthAt(s, c) = base
           Holds(v) ==
               /\ v.at >= open
               /\ v.close = 0 => v.quoted = InQuote(s, v.at) /\ v.depth = DepthAt(s, v.at - 1) - base
               /\ v.close # 0 => right(v.close)
           Inv == [k \in Nat |-> {v \in X : Holds(v)}]
<1>1. n \in Nat /\ open \in Nat \ {0} /\ open - 1 \in Nat /\ base \in Int
  <2>1. n \in Nat /\ open \in Nat \ {0} /\ open - 1 \in Nat
    OBVIOUS
  <2>2. base \in Int
    BY <2>1, DepthByDepth
  <2> QED
    BY <2>1, <2>2
<1>2. step \in [X -> X]
  <2>1. ASSUME NEW v \in X PROVE step[v] \in X
    <3> DEFINE c == Char(s, v.at)
               turned == (v.quoted # (c = "'"))
               deeper == Deeper(c, v.quoted, v.depth)
               close == IF ~ v.quoted /\ c = ")" /\ v.depth = 1 THEN v.at ELSE 0
    <3>1. step[v] = IF v.at > n \/ v.close # 0 THEN v
                    ELSE [at |-> v.at + 1, depth |-> deeper, quoted |-> turned, close |-> close]
      BY DEF CloseRound
    <3>2. turned \in BOOLEAN /\ deeper \in Int /\ close \in Nat /\ v.at + 1 \in Nat
      BY DEF CloseStates, Deeper
    <3> HIDE DEF turned, deeper, close, step
    <3> QED
      BY <3>1, <3>2 DEF CloseStates
  <2>2. step = [v \in X |-> step[v]]
    BY DEF CloseRound
  <2> HIDE DEF X, step
  <2> QED
    BY <2>1, <2>2
<1>3. start \in X /\ Holds(start)
  <2>1. InQuote(s, open) = FALSE
    BY <1>1, QuoteByQuote
  <2>2. start \in X
    BY <1>1 DEF CloseStates
  <2> HIDE DEF base
  <2>3. base - base = 0 /\ open >= open
    BY <1>1
  <2>4. Holds(start)
    BY <2>1, <2>3 DEF base
  <2> QED
    BY <2>2, <2>4
<1>4. ASSUME NEW v \in X, Holds(v) PROVE step[v] \in X /\ Holds(step[v])
  <2>1. step[v] \in X
    <3> HIDE DEF X, step, Holds
    <3> QED
      BY <1>2
  <2>2. CASE v.at > n \/ v.close # 0
    <3>1. step[v] = v
      BY <2>2 DEF CloseRound
    <3> HIDE DEF step, X, Holds
    <3> QED
      BY <1>4, <3>1
  <2>3. CASE ~ (v.at > n \/ v.close # 0)
    <3> DEFINE a == v.at
               c == Char(s, a)
               q == v.quoted
               turned == (q # (c = "'"))
               deeper == Deeper(c, q, v.depth)
               closes == ~ q /\ c = ")" /\ v.depth = 1
    <3>1. a \in open..n /\ a \in Nat \ {0} /\ a - 1 \in Nat /\ v.depth \in Int /\ q \in BOOLEAN
          /\ q = InQuote(s, a) /\ v.depth = DepthAt(s, a - 1) - base
      BY <1>1, <1>4, <2>3 DEF CloseStates
    <3>2. step[v] = [at |-> a + 1, depth |-> deeper, quoted |-> turned,
                     close |-> IF closes THEN a ELSE 0]
      BY <2>3 DEF CloseRound
    <3>3. turned = InQuote(s, a + 1)
      <4>1. InQuote(s, a + 1) \in BOOLEAN /\ (InQuote(s, a + 1) <=> (InQuote(s, a) # (c = "'")))
        <5>1. a + 1 \in Nat \ {0}
          BY <3>1
        <5> QED
          BY <3>1, <5>1, QuoteByQuote
      <4> QED
        BY <3>1, <4>1
    <3>4. DepthAt(s, a) = Deeper(c, q, DepthAt(s, a - 1)) /\ DepthAt(s, a - 1) \in Int
      <4>1. (a - 1) + 1 = a
        BY <3>1
      <4>2. DepthAt(s, (a - 1) + 1) =
              Deeper(Char(s, (a - 1) + 1), InQuote(s, (a - 1) + 1), DepthAt(s, a - 1))
        BY <3>1, DepthByDepth
      <4>3. DepthAt(s, a - 1) \in Int
        BY <3>1, DepthByDepth
      <4> QED
        BY <3>1, <4>1, <4>2, <4>3
    <3>5. deeper = DepthAt(s, a) - base
      BY <1>1, <3>1, <3>4, DepthIsNumber
    <3>6. closes => right(a)
      <4>1. closes => DepthAt(s, a) = DepthAt(s, a - 1) - 1
        BY <3>4 DEF Deeper
      <4> HIDE DEF base
      <4> QED
        BY <1>1, <3>1, <3>4, <4>1
    <3> HIDE DEF step, turned, deeper, closes, right, base
    <3>7. step[v].at = a + 1 /\ step[v].depth = deeper /\ step[v].quoted = turned
          /\ step[v].close = (IF closes THEN a ELSE 0)
      BY <3>2
    <3>8. (a + 1) - 1 = a /\ a + 1 >= open /\ a # 0
      BY <1>1, <3>1
    <3>9. Holds(step[v])
      <4> HIDE DEF a
      <4> QED
        BY <3>3, <3>5, <3>6, <3>7, <3>8
    <3> QED
      BY <2>1, <3>9
  <2> QED
    BY <2>2, <2>3
<1> DEFINE v == Iterate(step, start, n)
<1>5. v \in X /\ Holds(v)
  <2>1. /\ Inv \in [Nat -> SUBSET X] /\ start \in Inv[0]
        /\ \A k \in Nat : \A w \in Inv[k] : step[w] \in Inv[k + 1]
    <3>1. \A k \in Nat : Inv[k] = {w \in X : Holds(w)} /\ k + 1 \in Nat
      OBVIOUS
    <3> HIDE DEF X, step, Holds, start
    <3>2. Inv \in [Nat -> SUBSET X]
      OBVIOUS
    <3> HIDE DEF Inv
    <3> QED
      BY <1>3, <1>4, <3>1, <3>2
  <2>2. v \in Inv[n]
    <3> HIDE DEF Inv, X, step, start, n
    <3> QED
      BY <1>1, <1>2, <1>3, <2>1, LoopRule
  <2> HIDE DEF v, X, Holds
  <2> QED
    BY <1>1, <2>2
<1>6. CloseOf(s, open) = v.close
  BY DEF CloseOf
<1> HIDE DEF v
<1> QED
  BY <1>5, <1>6

\* An outermost parenthesis of a statement.
Opens(s, o) == ~ InQuote(s, o) /\ Char(s, o) = "(" /\ DepthAt(s, o - 1) = 0

\* The loop of validateWithCTE reads the body of every one of them.
LEMMA BodiesAreRead ==
    ASSUME NEW Character, NEW s \in Seq(Character), CTEWalk(s).ok
    PROVE  \A o \in 1..Len(s) : Opens(s, o) => BodyReads(s, o)
<1> DEFINE n == Len(s)
           X == CTEStates
           step == CTERound(s)
           start == [at |-> 1, depth |-> 0, quoted |-> FALSE, close |-> 0, ok |-> TRUE]
           read(o) == Opens(s, o) => BodyReads(s, o)
           Holds(v, k) ==
               v.ok => /\ v.at >= 1
                       /\ v.at > k \/ v.at > n
                       /\ v.quoted = InQuote(s, v.at)
                       /\ v.depth = DepthAt(s, v.at - 1)
                       /\ \A o \in 1..n : o < v.at => read(o)
           Inv == [k \in Nat |-> {v \in X : Holds(v, k)}]
<1>1. n \in Nat
  OBVIOUS
<1>2. ASSUME NEW v \in X
      PROVE  LET c == Char(s, v.at)
                 new == [at |-> v.at + 1, depth |-> Deeper(c, v.quoted, v.depth),
                         quoted |-> (v.quoted # (c = "'")),
                         close |-> IF ~ v.quoted /\ c = ")" /\ v.depth = 1 THEN v.at ELSE v.close,
                         ok |-> (~ v.quoted /\ c = "(" /\ v.depth = 0) => BodyReads(s, v.at)] IN
             /\ step[v] = IF v.at > n \/ ~ v.ok THEN v ELSE new
             /\ step[v] \in X
  <2> DEFINE c == Char(s, v.at)
             turned == (v.quoted # (c = "'"))
             deeper == Deeper(c, v.quoted, v.depth)
             close == IF ~ v.quoted /\ c = ")" /\ v.depth = 1 THEN v.at ELSE v.close
             accepted == (~ v.quoted /\ c = "(" /\ v.depth = 0) => BodyReads(s, v.at)
  <2>1. step[v] = IF v.at > n \/ ~ v.ok THEN v
                  ELSE [at |-> v.at + 1, depth |-> deeper, quoted |-> turned, close |-> close,
                        ok |-> accepted]
    BY DEF CTERound
  <2>2. turned \in BOOLEAN /\ deeper \in Int /\ close \in Nat /\ v.at + 1 \in Nat /\ accepted \in BOOLEAN
    BY DEF CTEStates, Deeper
  <2>3. step[v] \in X
    <3> HIDE DEF turned, deeper, close, accepted, step
    <3> QED
      BY <2>1, <2>2 DEF CTEStates
  <2> QED
    BY <2>1, <2>3
<1>3. step \in [X -> X]
  <2>1. step = [v \in X |-> step[v]]
    BY DEF CTERound
  <2> HIDE DEF X, step
  <2> QED
    BY <1>2, <2>1
<1>4. start \in X /\ Holds(start, 0)
  <2>1. start \in X
    BY DEF CTEStates
  <2>2. InQuote(s, 1) = FALSE /\ DepthAt(s, 1 - 1) = 0
    <3>1. 1 - 1 = 0 /\ 1 \in Nat \ {0}
      OBVIOUS
    <3> QED
      BY <3>1, QuoteByQuote, DepthByDepth
  <2> HIDE DEF read
  <2>3. \A o \in 1..n : ~ (o < 1)
    BY <1>1
  <2>4. start.at = 1 /\ start.quoted = FALSE /\ start.depth = 0 /\ 1 > 0 /\ 1 >= 1
    OBVIOUS
  <2> HIDE DEF start, X, n
  <2>5. Holds(start, 0)
    BY <2>2, <2>3, <2>4
  <2> QED
    BY <2>1, <2>5
<1>5. ASSUME NEW k \in Nat, NEW v \in X, Holds(v, k) PROVE step[v] \in X /\ Holds(step[v], k + 1)
  <2>1. step[v] \in X
    <3> HIDE DEF X, step, Holds
    <3> QED
      BY <1>3
  <2>2. CASE v.at > n \/ ~ v.ok
    <3>1. step[v] = v
      BY <1>2, <2>2
    <3>2. v.at \in Nat
      BY DEF CTEStates
    <3> HIDE DEF step, X, read
    <3>3. Holds(v, k + 1)
      BY <1>1, <1>5, <2>2, <3>2
    <3> HIDE DEF Holds
    <3> QED
      BY <2>1, <3>1, <3>3
  <2>3. CASE ~ (v.at > n \/ ~ v.ok)
    <3> DEFINE a == v.at
               c == Char(s, a)
               q == v.quoted
               turned == (q # (c = "'"))
               deeper == Deeper(c, q, v.depth)
               close == IF ~ q /\ c = ")" /\ v.depth = 1 THEN a ELSE v.close
               accepted == (~ q /\ c = "(" /\ v.depth = 0) => BodyReads(s, a)
    <3>1. /\ a \in 1..n /\ a - 1 \in Nat /\ q \in BOOLEAN /\ a > k
          /\ q = InQuote(s, a) /\ v.depth = DepthAt(s, a - 1)
          /\ \A o \in 1..n : o < a => read(o)
      <4>1. a \in Nat /\ q \in BOOLEAN
        BY DEF CTEStates
      <4> HIDE DEF read, X
      <4> QED
        BY <1>1, <1>5, <2>3, <4>1
    <3>2. step[v] = [at |-> a + 1, depth |-> deeper, quoted |-> turned, close |-> close,
                     ok |-> accepted]
      <4> HIDE DEF step
      <4> QED
        BY <1>2, <2>3
    <3>3. turned = InQuote(s, a + 1)
      <4>1. InQuote(s, a + 1) \in BOOLEAN /\ (InQuote(s, a + 1) <=> (InQuote(s, a) # (c = "'")))
        <5>1. a + 1 \in Nat \ {0} /\ a \in Nat \ {0}
          BY <3>1
        <5> QED
          BY <5>1, QuoteByQuote
      <4> QED
        BY <3>1, <4>1
    <3>4. deeper = DepthAt(s, a)
      <4>1. (a - 1) + 1 = a
        BY <3>1
      <4>2. DepthAt(s, (a - 1) + 1) =
              Deeper(Char(s, (a - 1) + 1), InQuote(s, (a - 1) + 1), DepthAt(s, a - 1))
        BY <3>1, DepthByDepth
      <4> QED
        BY <3>1, <4>1, <4>2
    <3>5. accepted => read(a)
      BY <3>1 DEF Opens
    <3>6. accepted \in BOOLEAN
      OBVIOUS
    <3> HIDE DEF step, turned, deeper, close, accepted, read
    <3>7. /\ step[v].at = a + 1 /\ step[v].depth = deeper /\ step[v].quoted = turned
          /\ (step[v].ok <=> accepted)
      BY <3>2, <3>6
    <3>8. (a + 1) - 1 = a /\ a + 1 >= 1 /\ a + 1 > k + 1 /\ (\A o \in 1..n : o < a + 1 => o < a \/ o = a)
      BY <1>1, <3>1
    <3>9. Holds(step[v], k + 1)
      <4> HIDE DEF a, n
      <4> QED
        BY <3>1, <3>3, <3>4, <3>5, <3>7, <3>8
    <3> QED
      BY <2>1, <3>9
  <2> QED
    BY <2>2, <2>3
<1> DEFINE v == Iterate(step, start, n)
<1>6. v \in X /\ Holds(v, n)
  <2>1. /\ Inv \in [Nat -> SUBSET X] /\ start \in Inv[0]
        /\ \A k \in Nat : \A w \in Inv[k] : step[w] \in Inv[k + 1]
    <3>1. \A k \in Nat : Inv[k] = {w \in X : Holds(w, k)} /\ k + 1 \in Nat
      OBVIOUS
    <3> HIDE DEF X, step, Holds, start
    <3>2. Inv \in [Nat -> SUBSET X]
      OBVIOUS
    <3> HIDE DEF Inv
    <3> QED
      BY <1>4, <1>5, <3>1, <3>2
  <2>2. v \in Inv[n]
    <3> HIDE DEF Inv, X, step, start, n
    <3> QED
      BY <1>1, <1>3, <1>4, <2>1, LoopRule
  <2> HIDE DEF v, X, Holds
  <2> QED
    BY <1>1, <2>2
<1>7. CTEWalk(s) = v
  BY DEF CTEWalk
<1>8. v.at \in Nat /\ v.ok
  <2>1. v.ok
    BY <1>7
  <2> HIDE DEF v, Holds
  <2> QED
    BY <1>6, <2>1 DEF CTEStates
<1> HIDE DEF v, read, n
<1>9. \A o \in 1..n : read(o)
  BY <1>1, <1>6, <1>8
<1> QED
  BY <1>9 DEF read, n

\* Two sequences with the same members are the same.
LEMMA SameTexts ==
    ASSUME NEW C, NEW u \in Seq(C), NEW w \in Seq(C), Len(u) = Len(w),
           \A i \in 1..Len(u) : u[i] = w[i]
    PROVE  u = w
OBVIOUS

LEMMA PartOfPart ==
    ASSUME NEW Character, NEW s \in Seq(Character), NEW a \in Nat \ {0}, NEW b \in 0..Len(s),
           a <= b + 1, NEW x \in Nat \ {0}, NEW y \in Nat, x <= y + 1, y <= b - a + 1
    PROVE  /\ SubSeq(s, a, b) \in Seq(Character) /\ Len(SubSeq(s, a, b)) = b - a + 1
           /\ SubSeq(SubSeq(s, a, b), x, y) = SubSeq(s, a + x - 1, a + y - 1)
<1> DEFINE t == SubSeq(s, a, b)
           u == SubSeq(t, x, y)
           w == SubSeq(s, a + x - 1, a + y - 1)
<1>1. t \in Seq(Character) /\ Len(t) = b - a + 1 /\ \A i \in 1..(b - a + 1) : t[i] = s[a + i - 1]
  OBVIOUS
<1>2. u \in Seq(Character) /\ Len(u) = y - x + 1 /\ \A i \in 1..(y - x + 1) : u[i] = t[x + i - 1]
  <2> HIDE DEF t
  <2> QED
    BY <1>1
<1>3. w \in Seq(Character) /\ Len(w) = y - x + 1 /\ \A i \in 1..(y - x + 1) : w[i] = s[a + x - 1 + i - 1]
  OBVIOUS
<1>4. u = w
  <2> HIDE DEF t, u, w
  <2>1. \A i \in 1..(y - x + 1) : u[i] = w[i]
    BY <1>1, <1>2, <1>3
  <2>2. \A i \in 1..Len(u) : u[i] = w[i]
    BY <1>2, <2>1
  <2> QED
    BY <1>2, <1>3, <2>2, SameTexts
<1> QED
  BY <1>1, <1>4

\* The quotes of a body are those of the statement.
LEMMA QuotesInBody ==
    ASSUME NEW Character, NEW s \in Seq(Character), NEW o \in 1..Len(s), Opens(s, o),
           NEW c \in (o + 1)..Len(s)
    PROVE  \A j \in 1..(c - o) : InQuote(SubSeq(s, o + 1, c - 1), j) <=> InQuote(s, o + j)
<1> DEFINE body == SubSeq(s, o + 1, c - 1)
           S == {j \in Nat : j + 1 <= c - o => (InQuote(body, j + 1) <=> InQuote(s, o + (j + 1)))}
<1>1. \A j \in 1..(c - 1 - o) : Char(body, j) = Char(s, o + j)
  <2> SUFFICES ASSUME NEW j \in 1..(c - 1 - o) PROVE Char(body, j) = Char(s, o + j)
    OBVIOUS
  <2>1. SubSeq(body, j, j) = SubSeq(s, (o + 1) + j - 1, (o + 1) + j - 1)
    BY PartOfPart
  <2>2. (o + 1) + j - 1 = o + j
    OBVIOUS
  <2> QED
    BY <2>1, <2>2 DEF Char
<1> HIDE DEF body
<1>2. 0 \in S
  <2>1. InQuote(s, o + 1) <=> (InQuote(s, o) # (Char(s, o) = "'"))
    <3>1. o \in Nat \ {0}
      OBVIOUS
    <3> QED
      BY <3>1, QuoteByQuote
  <2>2. ~ InQuote(s, o + 1)
    BY <2>1 DEF Opens, InQuote
  <2>3. ~ InQuote(body, 1)
    BY QuoteByQuote
  <2> QED
    BY <2>2, <2>3
<1>3. ASSUME NEW j \in Nat, j \in S PROVE j + 1 \in S
  <2> SUFFICES ASSUME j + 1 + 1 <= c - o
               PROVE  InQuote(body, j + 1 + 1) <=> InQuote(s, o + (j + 1 + 1))
    OBVIOUS
  <2>1. InQuote(body, j + 1) <=> InQuote(s, o + (j + 1))
    BY <1>3
  <2>2. Char(body, j + 1) = Char(s, o + (j + 1))
    BY <1>1
  <2>3. InQuote(body, (j + 1) + 1) <=> (InQuote(body, j + 1) # (Char(body, j + 1) = "'"))
    <3>1. j + 1 \in Nat \ {0}
      OBVIOUS
    <3> QED
      BY <3>1, QuoteByQuote
  <2>4. InQuote(s, (o + (j + 1)) + 1) <=> (InQuote(s, o + (j + 1)) # (Char(s, o + (j + 1)) = "'"))
    <3>1. o + (j + 1) \in Nat \ {0}
      OBVIOUS
    <3> QED
      BY <3>1, QuoteByQuote
  <2>5. (o + (j + 1)) + 1 = o + (j + 1 + 1)
    OBVIOUS
  <2>6. InQuote(body, j + 1) \in BOOLEAN /\ InQuote(s, o + (j + 1)) \in BOOLEAN
    BY DEF InQuote
  <2> QED
    BY <2>1, <2>2, <2>3, <2>4, <2>5, <2>6
<1>4. Nat \subseteq S
  <2> HIDE DEF S
  <2> QED
    BY <1>2, <1>3, Induction
<1>5. ASSUME NEW j \in 1..(c - o) PROVE InQuote(body, j) <=> InQuote(s, o + j)
  <2>1. j - 1 \in S /\ (j - 1) + 1 = j
    BY <1>4
  <2> QED
    BY <2>1
<1> QED
  BY <1>5 DEF body

\* A keyword between two parentheses is one of the text between them.
LEMMA KeywordInBody ==
    ASSUME NEW Character, NEW s \in Seq(Character), NEW o \in 1..Len(s), Opens(s, o),
           NEW c \in o..Len(s), Char(s, c) = ")",
           NEW i \in 1..Len(s), KeywordAt(s, i), o <= i, i < c
    PROVE  containsDML(SubSeq(s, o + 1, c - 1))
<1> DEFINE body == SubSeq(s, o + 1, c - 1)
           j == i - o
<1>1. PICK kw \in dmlKeywords :
        /\ i + Len(kw) - 1 <= Len(s)
        /\ EqualFold(SubSeq(s, i, i + Len(kw) - 1), kw)
        /\ i > 1 => Char(s, i - 1) \notin WordChars
        /\ i + Len(kw) <= Len(s) => Char(s, i + Len(kw)) \notin WordChars
        /\ ~ InQuote(s, i)
  BY DEF KeywordAt
<1> DEFINE L == Len(kw)
           word == SubSeq(s, i, i + L - 1)
<1>2. /\ L \in Nat \ {0}
      /\ \A k \in 1..L : Lower(Char(kw, k)) # Lower("(") /\ Lower(Char(kw, k)) # Lower(")")
  BY KeywordsAreWords
<1> HIDE DEF L
<1>3. \A k \in 1..L : Lower(Char(s, i + k - 1)) = Lower(Char(kw, k))
  <2> SUFFICES ASSUME NEW k \in 1..L PROVE Lower(Char(s, i + k - 1)) = Lower(Char(kw, k))
    OBVIOUS
  <2>1. Len(word) = L /\ Char(word, k) = Char(s, i + k - 1)
    <3>1. i \in Nat \ {0} /\ i + L - 1 \in 0..Len(s) /\ i <= (i + L - 1) + 1
          /\ k \in Nat \ {0} /\ k \in Nat /\ k <= k + 1 /\ k <= (i + L - 1) - i + 1
      BY <1>1, <1>2 DEF L
    <3>2. /\ Len(word) = (i + L - 1) - i + 1
          /\ SubSeq(word, k, k) = SubSeq(s, i + k - 1, i + k - 1)
      <4> HIDE DEF word
      <4> QED
        BY <3>1, PartOfPart DEF word
    <3>3. (i + L - 1) - i + 1 = L
      BY <1>2
    <3> QED
      BY <3>2, <3>3 DEF Char
  <2>2. \A p \in 1..Len(word) : Lower(Char(word, p)) = Lower(Char(kw, p))
    BY <1>1 DEF EqualFold, L
  <2> HIDE DEF word
  <2> QED
    BY <2>1, <2>2
<1>4. i # o
  <2> SUFFICES ASSUME i = o PROVE FALSE
    OBVIOUS
  <2>1. 1 \in 1..L /\ i + 1 - 1 = o
    BY <1>2
  <2>2. Lower(Char(s, o)) = Lower(Char(kw, 1))
    BY <1>3, <2>1
  <2> QED
    BY <1>2, <2>1, <2>2 DEF Opens
<1>5. i + L - 1 < c
  <2> SUFFICES ASSUME ~ (i + L - 1 < c) PROVE FALSE
    OBVIOUS
  <2>1. c - i + 1 \in 1..L /\ i + (c - i + 1) - 1 = c
    BY <1>2
  <2>2. Lower(Char(s, c)) = Lower(Char(kw, c - i + 1))
    BY <1>3, <2>1
  <2> QED
    BY <1>2, <2>1, <2>2
<1>6. /\ o + 1 \in Nat \ {0} /\ c - 1 \in 0..Len(s) /\ o + 1 <= (c - 1) + 1
      /\ j \in Nat \ {0} /\ j + L - 1 \in Nat /\ j <= (j + L - 1) + 1
      /\ j + L - 1 <= (c - 1) - (o + 1) + 1
      /\ c \in (o + 1)..Len(s) /\ j \in 1..(c - o) /\ o + j = i
  BY <1>2, <1>4, <1>5
<1>7. Len(body) = (c - 1) - (o + 1) + 1
  BY <1>6, PartOfPart
<1>8. SubSeq(body, j, j + L - 1) = word
  <2>1. SubSeq(body, j, j + L - 1) = SubSeq(s, (o + 1) + j - 1, (o + 1) + (j + L - 1) - 1)
    <3> HIDE DEF j
    <3> QED
      BY <1>6, PartOfPart, SMTT(30)
  <2>2. (o + 1) + j - 1 = i /\ (o + 1) + (j + L - 1) - 1 = i + L - 1
    BY <1>2
  <2> QED
    BY <2>1, <2>2
<1>9. \A k \in 1..Len(body) : Char(body, k) = Char(s, o + k)
  <2> SUFFICES ASSUME NEW k \in 1..((c - 1) - (o + 1) + 1) PROVE Char(body, k) = Char(s, o + k)
    BY <1>7
  <2>1. SubSeq(body, k, k) = SubSeq(s, (o + 1) + k - 1, (o + 1) + k - 1)
    <3>1. k \in Nat \ {0} /\ k \in Nat /\ k <= k + 1
      BY <1>6
    <3> QED
      BY <1>6, <3>1, PartOfPart
  <2>2. (o + 1) + k - 1 = o + k
    BY <1>6
  <2> QED
    BY <2>1, <2>2 DEF Char
<1>10. ~ InQuote(body, j)
  <2>1. InQuote(body, j) <=> InQuote(s, o + j)
    <3> HIDE DEF j
    <3> QED
      BY <1>6, QuotesInBody
  <2> QED
    BY <1>1, <1>6, <2>1
<1> HIDE DEF body, word
<1>11. j > 1 => Char(body, j - 1) \notin WordChars
  <2> SUFFICES ASSUME j > 1 PROVE Char(body, j - 1) \notin WordChars
    OBVIOUS
  <2>1. j - 1 \in 1..Len(body) /\ o + (j - 1) = i - 1 /\ i > 1
    BY <1>2, <1>6, <1>7
  <2> QED
    BY <1>1, <1>9, <2>1
<1>12. j + L <= Len(body) => Char(body, j + L) \notin WordChars
  <2> SUFFICES ASSUME j + L <= Len(body) PROVE Char(body, j + L) \notin WordChars
    OBVIOUS
  <2>1. j + L \in 1..Len(body) /\ o + (j + L) = i + L /\ i + L <= Len(s)
    BY <1>2, <1>6, <1>7
  <2> QED
    BY <1>1, <1>9, <2>1 DEF L
<1>13. j \in 1..Len(body) /\ j + L - 1 <= Len(body)
  BY <1>2, <1>6, <1>7
<1>14. KeywordAt(body, j)
  <2> HIDE DEF j
  <2> QED
    BY <1>1, <1>8, <1>10, <1>11, <1>12, <1>13 DEF KeywordAt, L, word
<1> QED
  BY <1>13, <1>14 DEF containsDML, body

\* What validateWithCTE accepts writes nothing inside of parentheses: a keyword
\* there is behind an outermost parenthesis that has not closed yet.
LEMMA NothingWritesInside ==
    ASSUME NEW Character, NEW s \in Seq(Character), CTEWalk(s).ok,
           NEW i \in 1..Len(s), KeywordAt(s, i), DepthAt(s, i) > 0
    PROVE  FALSE
<1> DEFINE depth(j) == DepthAt(s, j)
           T == {t \in Nat : t <= i /\ depth(i - t) <= 0}
<1>1. depth(0) = 0 /\ \A j \in Nat : depth(j) \in Int
  BY DepthByDepth
<1>2. \A j \in Nat : depth(j + 1) = Deeper(Char(s, j + 1), InQuote(s, j + 1), depth(j))
  BY DepthByDepth
<1> HIDE DEF depth
<1>3. i \in T
  <2>1. i - i = 0 /\ i \in Nat
    OBVIOUS
  <2> QED
    BY <1>1, <2>1
<1>4. PICK m \in T : \A t \in T : m <= t
  <2>1. T \in SUBSET Nat /\ T # {}
    BY <1>3
  <2> HIDE DEF T
  <2> QED
    BY <2>1, LeastMember
<1> DEFINE o == i - m + 1
<1>5. m # 0
  <2>1. depth(i) > 0 /\ i - 0 = i
    BY DEF depth
  <2> QED
    BY <1>1, <1>4, <2>1
<1>6. o \in 1..i /\ o - 1 \in Nat /\ (o - 1) + 1 = o /\ depth(o - 1) <= 0
  <2>1. i - m = o - 1
    OBVIOUS
  <2> QED
    BY <1>4, <1>5, <2>1
<1>7. \A q \in o..i : depth(q) > 0
  <2> SUFFICES ASSUME NEW q \in o..i, ~ (depth(q) > 0) PROVE FALSE
    OBVIOUS
  <2>1. q \in Nat /\ i - q \in Nat /\ i - q <= i /\ i - (i - q) = q /\ i - q < m
    BY <1>4, <1>6
  <2>2. depth(q) <= 0
    BY <1>1, <2>1
  <2>3. i - q \in T
    BY <2>1, <2>2
  <2> QED
    BY <1>4, <2>1, <2>3
<1>8. Opens(s, o)
  <2> DEFINE d == depth(o - 1)
             c == Char(s, o)
             quoted == InQuote(s, o)
  <2>1. depth(o) = Deeper(c, quoted, d) /\ d \in Int /\ depth(o) > 0 /\ d <= 0
    <3>1. depth((o - 1) + 1) = Deeper(Char(s, (o - 1) + 1), InQuote(s, (o - 1) + 1), depth(o - 1))
      BY <1>2, <1>6
    <3>2. o \in o..i
      BY <1>6
    <3> QED
      BY <1>1, <1>6, <1>7, <3>1, <3>2
  <2> HIDE DEF d, c, quoted, o
  <2>2. ~ quoted /\ c = "(" /\ d = 0
    BY <2>1 DEF Deeper
  <2> QED
    BY <2>2 DEF Opens, d, c, quoted, depth
<1>9. o \in 1..Len(s)
  BY <1>6
<1>10. CloseOf(s, o) # 0 /\ ~ containsDML(SubSeq(s, o + 1, CloseOf(s, o) - 1))
  <2> HIDE DEF o
  <2> QED
    BY <1>8, <1>9, BodiesAreRead DEF BodyReads
<1> DEFINE c == CloseOf(s, o)
<1>11. c \in o..Len(s) /\ Char(s, c) = ")" /\ depth(c) = depth(o - 1)
  <2> HIDE DEF o
  <2> QED
    BY <1>8, <1>9, <1>10, CloseIsFound DEF Opens, depth
<1>12. i < c
  <2> SUFFICES ASSUME ~ (i < c) PROVE FALSE
    OBVIOUS
  <2>1. c \in o..i
    BY <1>6, <1>11
  <2> HIDE DEF c, o
  <2>2. depth(c) > 0 /\ depth(c) <= 0
    BY <1>6, <1>7, <1>11, <2>1
  <2>3. depth(c) \in Int
    BY <1>1, <1>6, <1>11
  <2> QED
    BY <2>2, <2>3
<1>13. o <= i
  BY <1>6
<1> HIDE DEF c, o
<1>14. containsDML(SubSeq(s, o + 1, c - 1))
  BY <1>8, <1>9, <1>11, <1>12, <1>13, KeywordInBody
<1> QED
  BY <1>10, <1>14 DEF c

\* TrimSpace returns a part of the text.
LEMMA TrimIsText ==
    ASSUME NEW Character, NEW s \in Seq(Character)
    PROVE  TrimSpace(s) \in Seq(Character)
<1>1. ASSUME NEW t \in Seq(Character), NEW cut PROVE TrimLeft(t, cut) \in Seq(Character)
  <2> DEFINE T == {i \in 1..Len(t) : Char(t, i) \notin cut} \cup {Len(t) + 1}
  <2>1. T \in SUBSET Nat /\ T # {} /\ T \subseteq 1..(Len(t) + 1)
    OBVIOUS
  <2>2. TrimLeft(t, cut) = SubSeq(t, Least(T), Len(t))
    BY DEF TrimLeft, From
  <2> HIDE DEF T
  <2>3. Least(T) \in 1..(Len(t) + 1)
    BY <2>1, LeastIsLeast
  <2>4. \A i \in 1..(Len(t) + 1) : SubSeq(t, i, Len(t)) \in Seq(Character)
    OBVIOUS
  <2> QED
    BY <2>2, <2>3, <2>4
<1>2. ASSUME NEW t \in Seq(Character), NEW cut PROVE TrimRight(t, cut) \in Seq(Character)
  <2> DEFINE kept == {i \in 1..Len(t) : Char(t, i) \notin cut} \cup {0}
             last == CHOOSE i \in kept : \A j \in kept : j <= i
             T == {d \in Nat : d <= Len(t) /\ Len(t) - d \in kept}
  <2>1. kept \subseteq 0..Len(t) /\ 0 \in kept /\ Len(t) \in Nat
    OBVIOUS
  <2>2. \E i \in kept : \A j \in kept : j <= i
    <3> HIDE DEF kept
    <3>1. T \in SUBSET Nat /\ Len(t) \in T
      <4>1. Len(t) - Len(t) = 0
        BY <2>1
      <4> QED
        BY <2>1, <4>1
    <3>2. PICK d \in T : \A e \in T : d <= e
      <4> HIDE DEF T
      <4> QED
        BY <3>1, LeastMember
    <3>3. ASSUME NEW j \in kept PROVE j <= Len(t) - d
      <4>1. Len(t) - j \in Nat /\ Len(t) - (Len(t) - j) = j /\ Len(t) - j <= Len(t)
        BY <2>1
      <4>2. Len(t) - j \in T
        BY <4>1
      <4>3. d \in Nat /\ d <= Len(t) - j
        BY <3>2, <4>2
      <4>4. j \in Nat
        BY <2>1
      <4> HIDE DEF T
      <4> QED
        BY <2>1, <4>3, <4>4
    <3> QED
      BY <3>2, <3>3
  <2>3. TrimRight(t, cut) = SubSeq(t, 1, last)
    BY DEF TrimRight
  <2>4. last \in kept
    <3> HIDE DEF kept
    <3> QED
      BY <2>2
  <2> HIDE DEF last, kept
  <2>5. \A i \in 0..Len(t) : SubSeq(t, 1, i) \in Seq(Character)
    OBVIOUS
  <2> QED
    BY <2>1, <2>3, <2>4, <2>5
<1> QED
  BY <1>1, <1>2 DEF TrimSpace

\* A statement that validateSQL accepts only reads.
LEMMA SQLIsJudged ==
    ASSUME NEW Character
    PROVE  ValuesAreJudged("psql", Seq(Character))
<1>1. ASSUME NEW sql \in Seq(Character), validateSQL(sql) PROVE OnlyReads(sql)
  <2> DEFINE s == TrimSpace(sql)
             body == IF HasSuffix(s, ";") THEN SubSeq(s, 1, Len(s) - 1) ELSE s
  <2>1. s \in Seq(Character)
    BY TrimIsText
  <2>2. /\ ";" \notin CharsOf(body)
        /\ HasWord(s, ReadWords \cup MetaCommands)
        /\ HasWord(s, {"WITH"}) => validateWithCTE(s)
    BY <1>1 DEF validateSQL
  <2>3. OnlyReads(sql) <=>
          /\ \A i \in 1..(Len(s) - 1) : Char(s, i) # ";"
          /\ HasWord(s, ReadWords \cup MetaCommands)
          /\ HasWord(s, {"WITH"}) => ~ \E i \in 1..Len(s) : KeywordAt(s, i) /\ DepthAt(s, i) > 0
    BY DEF OnlyReads
  <2> HIDE DEF s
  <2>4. \A i \in 1..(Len(s) - 1) : Char(s, i) # ";"
    <3> SUFFICES ASSUME NEW i \in 1..(Len(s) - 1) PROVE Char(s, i) # ";"
      OBVIOUS
    <3>1. i \in 1..Len(body) /\ Char(body, i) = Char(s, i)
      <4>1. Len(s) \in Nat
        BY <2>1
      <4>2. CASE HasSuffix(s, ";")
        <5>1. body = SubSeq(s, 1, Len(s) - 1)
          BY <4>2
        <5>2. 1 \in Nat \ {0} /\ Len(s) - 1 \in 0..Len(s) /\ 1 <= (Len(s) - 1) + 1
              /\ i \in Nat \ {0} /\ i \in Nat /\ i <= i + 1 /\ i <= (Len(s) - 1) - 1 + 1
          BY <4>1
        <5>3. Len(body) = (Len(s) - 1) - 1 + 1 /\ SubSeq(body, i, i) = SubSeq(s, 1 + i - 1, 1 + i - 1)
          <6> HIDE DEF body
          <6> QED
            BY <2>1, <5>1, <5>2, PartOfPart
        <5>4. 1 + i - 1 = i
          OBVIOUS
        <5> HIDE DEF body
        <5> QED
          BY <5>2, <5>3, <5>4 DEF Char
      <4>3. CASE ~ HasSuffix(s, ";")
        <5>1. body = s
          BY <4>3
        <5> HIDE DEF body
        <5> QED
          BY <4>1, <5>1
      <4> QED
        BY <4>2, <4>3
    <3> HIDE DEF body
    <3> QED
      BY <2>2, <3>1 DEF CharsOf
  <2>5. HasWord(s, {"WITH"}) => ~ \E i \in 1..Len(s) : KeywordAt(s, i) /\ DepthAt(s, i) > 0
    <3> SUFFICES ASSUME HasWord(s, {"WITH"}), NEW i \in 1..Len(s), KeywordAt(s, i), DepthAt(s, i) > 0
                 PROVE  FALSE
      OBVIOUS
    <3>1. CTEWalk(s).ok
      BY <2>2 DEF validateWithCTE
    <3> QED
      BY <2>1, <3>1, NothingWritesInside
  <2> QED
    BY <2>2, <2>3, <2>4, <2>5
<1> QED
  BY <1>1 DEF ValuesAreJudged, validateFlagValue, ValueAllowed

-----------------------------------------------------------------------------
(* truncateString                                                          *)

\* The shares of head and tail fill the budget at most.
LEMMA Shares ==
    ASSUME NEW limit \in Nat, limit > Len(Separator)
    PROVE  /\ HeadSize(limit) \in 0..limit
           /\ TailSize(limit) \in 0..limit
           /\ HeadSize(limit) + Len(Separator) + TailSize(limit) <= limit
<1>1. Len(Separator) \in Nat
  BY OutputAssumption
<1>2. Budget(limit) \in Nat /\ Budget(limit) + Len(Separator) = limit
  BY <1>1 DEF Budget
<1>3. HeadSize(limit) \in 0..Budget(limit)
  <2>1. (3 * Budget(limit)) \div 4 \in 0..Budget(limit)
    BY <1>2
  <2>2. Smaller(DefaultHeadBytes, Budget(limit)) \in 0..Budget(limit)
    BY <1>2, OutputAssumption DEF Smaller
  <2> QED BY <2>1, <2>2 DEF HeadSize
<1>4. TailSize(limit) \in 0..(Budget(limit) - HeadSize(limit))
  <2>1. Budget(limit) - HeadSize(limit) \in Nat
    BY <1>2, <1>3
  <2>2. Smaller(DefaultTailBytes, Budget(limit) - HeadSize(limit))
            \in 0..(Budget(limit) - HeadSize(limit))
    BY <2>1, OutputAssumption DEF Smaller
  <2> QED BY <2>1, <2>2 DEF TailSize
<1> QED BY <1>1, <1>2, <1>3, <1>4

\* Writing the separator does not reach the bytes the tail is read from.
LEMMA TailIsNotOverwritten ==
    ASSUME NEW data \in Seq(Byte), NEW head \in Nat, NEW tail \in Nat,
           head + Len(Separator) + tail <= Len(data),
           NEW i \in 1..tail
    PROVE  Overwritten(data, head)[Len(data) - tail + i] = data[Len(data) - tail + i]
<1>1. Len(Separator) \in Nat /\ Len(data) \in Nat
  BY OutputAssumption
<1>2. Len(data) - tail + i \in 1..Len(data)
  BY <1>1
<1>3. ~ (Len(data) - tail + i <= head + Len(Separator))
  BY <1>1
<1> QED BY <1>2, <1>3 DEF Overwritten

\* The bytes of the combined text, part by part.
LEMMA CombinedIsHeadAndTail ==
    ASSUME NEW data \in Seq(Byte), NEW limit \in Nat, NEW head \in 0..limit, NEW tail \in 0..limit,
           head + Len(Separator) + tail <= limit, limit < Len(data)
    PROVE  HeadAndTailOf(Combined(data, head, tail), data, limit)
<1> DEFINE cut == Combined(data, head, tail)
           kept == head + Len(Separator)
<1>1. Len(Separator) \in Nat /\ Len(data) \in Nat /\ head \in Nat /\ tail \in Nat
  BY OutputAssumption
<1>2. cut = [i \in 1..(kept + tail) |->
                 IF i <= kept THEN Overwritten(data, head)[i]
                 ELSE Overwritten(data, head)[Len(data) - tail + (i - kept)]]
  BY DEF Combined
<1>3. kept + tail \in Nat /\ DOMAIN cut = 1..(kept + tail)
  BY <1>1, <1>2
<1>4. Len(cut) = kept + tail
  BY <1>2, <1>3
<1>5. ASSUME NEW i \in 1..head PROVE cut[i] = data[i]
  <2>1. i \in 1..(kept + tail) /\ i <= kept /\ i \in 1..Len(data) /\ ~ (head < i)
    BY <1>1
  <2>2. cut[i] = Overwritten(data, head)[i]
    BY <1>2, <2>1
  <2> QED BY <2>1, <2>2 DEF Overwritten
<1>6. ASSUME NEW i \in 1..Len(Separator) PROVE cut[head + i] = Separator[i]
  <2>1. head + i \in 1..(kept + tail) /\ head + i <= kept /\ head + i \in 1..Len(data)
        /\ head < head + i /\ (head + i) - head = i
    BY <1>1
  <2>2. cut[head + i] = Overwritten(data, head)[head + i]
    BY <1>2, <2>1
  <2> QED BY <2>1, <2>2 DEF Overwritten
<1>7. ASSUME NEW i \in 1..tail PROVE cut[kept + i] = data[Len(data) - tail + i]
  <2>1. kept + i \in 1..(kept + tail) /\ ~ (kept + i <= kept) /\ (kept + i) - kept = i
    BY <1>1
  <2>2. cut[kept + i] = Overwritten(data, head)[Len(data) - tail + i]
    BY <1>2, <2>1
  <2>3. head + Len(Separator) + tail <= Len(data)
    BY <1>1
  <2> QED BY <1>1, <2>2, <2>3, TailIsNotOverwritten
<1> HIDE DEF cut
<1> QED BY <1>1, <1>4, <1>5, <1>6, <1>7 DEF HeadAndTailOf, cut

\* TruncateOutput's texts: one that fits is returned as it is, one that does
\* not is the head and the tail of the data around the separator, and never
\* longer than the limit -- for every text, every limit (zero and negative
\* ones among them) and every split of the default limit.
THEOREM TruncationIsRight ==
    ASSUME NEW data \in Seq(Byte), NEW limit \in Int
    PROVE  CutRight(truncateString(data, limit), data, limit)
<1>1. Len(Separator) \in Nat /\ Len(data) \in Nat
  BY OutputAssumption
<1>2. CASE Len(data) <= limit
  BY <1>2 DEF CutRight, truncateString
<1>3. CASE ~ (Len(data) <= limit) /\ limit <= 0
  BY <1>1, <1>3 DEF CutRight, truncateString
<1>4. CASE ~ (Len(data) <= limit) /\ ~ (limit <= 0) /\ limit <= Len(Separator)
  BY <1>1, <1>4 DEF CutRight, truncateString
<1>5. CASE ~ (Len(data) <= limit) /\ ~ (limit <= 0) /\ ~ (limit <= Len(Separator))
  <2>1. limit \in Nat /\ limit > Len(Separator) /\ limit < Len(data)
    BY <1>1, <1>5
  <2>2. HeadAndTailOf(Combined(data, HeadSize(limit), TailSize(limit)), data, limit)
    BY <2>1, Shares, CombinedIsHeadAndTail
  <2>3. truncateString(data, limit) = Combined(data, HeadSize(limit), TailSize(limit))
    BY <1>5 DEF truncateString
  <2> QED BY <1>5, <2>2, <2>3 DEF CutRight
<1> QED BY <1>2, <1>3, <1>4, <1>5

\* A text is returned shorter exactly when TruncateOutput says so.
LEMMA CutIsReported ==
    ASSUME NEW data \in Seq(Byte), NEW limit \in Nat
    PROVE  Truncated(data, limit) <=> truncateString(data, limit) # data
<1> DEFINE t == truncateString(data, limit)
<1>1. Len(data) \in Nat /\ CutRight(t, data, limit) /\ Len(Separator) \in Nat
  BY TruncationIsRight, OutputAssumption
<1>2. CASE Len(data) <= limit
  BY <1>1, <1>2 DEF CutRight, Truncated
<1>3. CASE ~ (Len(data) <= limit)
  <2> HIDE DEF t
  <2>1. Len(t) <= limit
    BY <1>1, <1>3 DEF CutRight, HeadAndTailOf
  <2>2. t # data
    BY <1>1, <1>3, <2>1
  <2> QED
    BY <1>1, <1>3, <2>2 DEF Truncated, t
<1> QED
  BY <1>2, <1>3

-----------------------------------------------------------------------------
(* The timeout of a pipeline                                               *)

\* The time that a command's manifests ask for, under either of its names.
Covered(seg, time) ==
    \A key \in {seg.cmd, TimeoutKey(seg)} :
        key \in DOMAIN registry => time >= registry[key].timeout

\* A registry has numbers for timeouts, and each manifest under its own name.
RegistryType ==
    \A n \in DOMAIN registry :
        registry[n].name = n /\ n \in STRING /\ registry[n].timeout \in Int

LEMMA LongerIsLonger ==
    ASSUME RegistryType, NEW t \in Int, NEW key
    PROVE  /\ Longer(t, key) \in Int /\ Longer(t, key) >= t
           /\ key \in DOMAIN registry => Longer(t, key) >= registry[key].timeout
<1>1. CASE key \in DOMAIN registry
  <2>1. registry[key].timeout \in Int
    BY <1>1 DEF RegistryType
  <2> QED
    BY <1>1, <2>1 DEF Longer
<1>2. CASE key \notin DOMAIN registry
  BY <1>2 DEF Longer
<1> QED
  BY <1>1, <1>2

\* The loop of getPipelineTimeout takes the longest of them all.
LEMMA TimeoutIsLongest ==
    ASSUME RegistryType, pipeline \in Seq(Segments)
    PROVE  getPipelineTimeout \in Int /\ \A i \in DOMAIN pipeline : Covered(pipeline[i], getPipelineTimeout)
<1> DEFINE n == Len(pipeline)
           X == [i : Nat, max : Int]
           step == TimeoutRound
           start == [i |-> 1, max |-> DefaultTimeout]
           covered(j, t) == Covered(pipeline[j], t)
           Holds(v, k) ==
               /\ v.i >= 1
               /\ v.i > k \/ v.i > n
               /\ \A j \in 1..n : j < v.i => covered(j, v.max)
           Inv == [k \in Nat |-> {v \in X : Holds(v, k)}]
<1>1. n \in Nat /\ DOMAIN pipeline = 1..n
  <2> DEFINE S == Segments
  <2>1. pipeline \in Seq(S)
    OBVIOUS
  <2> HIDE DEF S
  <2> QED
    BY <2>1
<1>2. ASSUME NEW v \in X
      PROVE  LET seg == pipeline[v.i]
                 max == Longer(Longer(v.max, seg.cmd), TimeoutKey(seg)) IN
             /\ step[v] = IF v.i > n THEN v ELSE [i |-> v.i + 1, max |-> max]
             /\ max \in Int /\ max >= v.max /\ Covered(seg, max)
             /\ step[v] \in X
  <2> DEFINE seg == pipeline[v.i]
             one == Longer(v.max, seg.cmd)
             max == Longer(one, TimeoutKey(seg))
  <2>1. step[v] = IF v.i > n THEN v ELSE [i |-> v.i + 1, max |-> max]
    BY DEF TimeoutRound
  <2> HIDE DEF seg
  <2>2. /\ one \in Int /\ one >= v.max
        /\ seg.cmd \in DOMAIN registry => one >= registry[seg.cmd].timeout
    BY LongerIsLonger
  <2> HIDE DEF one
  <2>3. /\ max \in Int /\ max >= one
        /\ TimeoutKey(seg) \in DOMAIN registry => max >= registry[TimeoutKey(seg)].timeout
    BY <2>2, LongerIsLonger
  <2> HIDE DEF max
  <2>4. seg.cmd \in DOMAIN registry => registry[seg.cmd].timeout \in Int
    BY DEF RegistryType
  <2>5. max >= v.max /\ (seg.cmd \in DOMAIN registry => max >= registry[seg.cmd].timeout)
    BY <2>2, <2>3, <2>4
  <2>6. Covered(seg, max)
    BY <2>3, <2>5 DEF Covered
  <2>7. step[v] \in X
    <3> HIDE DEF step
    <3> QED
      BY <2>1, <2>3
  <2> QED
    BY <2>1, <2>3, <2>5, <2>6, <2>7 DEF max, one, seg
<1>3. step \in [X -> X]
  <2>1. step = [v \in X |-> step[v]]
    BY DEF TimeoutRound
  <2> HIDE DEF X, step
  <2> QED
    BY <1>2, <2>1
<1>4. start \in X /\ Holds(start, 0)
  BY <1>1, GateAssumption
<1>5. ASSUME NEW k \in Nat, NEW v \in X, Holds(v, k) PROVE step[v] \in X /\ Holds(step[v], k + 1)
  <2>1. step[v] \in X
    <3> HIDE DEF X, step, Holds
    <3> QED
      BY <1>3
  <2> DEFINE a == v.i
  <2>2. a \in Nat /\ v.max \in Int
    OBVIOUS
  <2>3. CASE a > n
    <3>1. step[v] = v
      BY <1>2, <2>3
    <3> HIDE DEF step, covered
    <3>2. Holds(v, k + 1)
      BY <1>1, <1>5, <2>2, <2>3
    <3> HIDE DEF Holds, X
    <3> QED
      BY <2>1, <3>1, <3>2
  <2>4. CASE ~ (a > n)
    <3> DEFINE max == Longer(Longer(v.max, pipeline[a].cmd), TimeoutKey(pipeline[a]))
    <3>1. /\ step[v] = [i |-> a + 1, max |-> max]
          /\ max \in Int /\ max >= v.max /\ covered(a, max)
      BY <1>2, <2>4
    <3>2. \A j \in 1..n : covered(j, v.max) => covered(j, max)
      <4> SUFFICES ASSUME NEW j \in 1..n, covered(j, v.max) PROVE covered(j, max)
        OBVIOUS
      <4>1. \A key \in DOMAIN registry : registry[key].timeout \in Int
        BY DEF RegistryType
      <4> HIDE DEF max
      <4> QED
        BY <2>2, <3>1, <4>1 DEF Covered
    <3> HIDE DEF step, covered, max
    <3>3. step[v].i = a + 1 /\ step[v].max = max
      BY <3>1
    <3>4. Holds(step[v], k + 1)
      <4>1. a + 1 >= 1 /\ a + 1 > k + 1 /\ \A j \in 1..n : j < a + 1 => j < a \/ j = a
        BY <1>1, <1>5, <2>2, <2>4
      <4> HIDE DEF a, n
      <4> QED
        BY <1>5, <3>1, <3>2, <3>3, <4>1 DEF a
    <3> QED
      BY <2>1, <3>4
  <2> QED
    BY <2>3, <2>4
<1> DEFINE v == Iterate(step, start, n)
<1>6. v \in X /\ Holds(v, n)
  <2>1. /\ Inv \in [Nat -> SUBSET X] /\ start \in Inv[0]
        /\ \A k \in Nat : \A w \in Inv[k] : step[w] \in Inv[k + 1]
    <3>1. \A k \in Nat : Inv[k] = {w \in X : Holds(w, k)} /\ k + 1 \in Nat
      OBVIOUS
    <3> HIDE DEF X, step, Holds, start
    <3>2. Inv \in [Nat -> SUBSET X]
      OBVIOUS
    <3> HIDE DEF Inv
    <3> QED
      BY <1>4, <1>5, <3>1, <3>2
  <2>2. v \in Inv[n]
    <3> HIDE DEF Inv, X, step, start, n
    <3> QED
      BY <1>1, <1>3, <1>4, <2>1, LoopRule
  <2> HIDE DEF v, X, Holds
  <2> QED
    BY <1>1, <2>2
<1>7. getPipelineTimeout = v.max
  BY DEF getPipelineTimeout
<1> HIDE DEF v, covered, n
<1>8. v.i \in Nat /\ v.max \in Int
  BY <1>6
<1>9. \A j \in 1..n : covered(j, v.max)
  BY <1>1, <1>6, <1>8
<1> QED
  BY <1>1, <1>7, <1>8, <1>9 DEF covered

\* Two words in lower case that differ at most in case are the same word.
LEMMA LowerWordsAreEqual ==
    ASSUME NEW Character, NEW a \in Seq(Character), NEW b \in Seq(Character),
           IsLower(a), IsLower(b), EqualFold(a, b)
    PROVE  a = b
<1>1. Len(a) = Len(b) /\ Len(a) \in Nat
  BY DEF EqualFold
<1>2. ASSUME NEW i \in 1..Len(a) PROVE a[i] = b[i]
  <2>1. Char(a, i) = Char(b, i)
    BY <1>1 DEF IsLower, EqualFold
  <2>2. Char(a, i)[1] = a[i] /\ Char(b, i)[1] = b[i]
    BY <1>1 DEF Char
  <2> QED
    BY <2>1, <2>2
<1> QED
  BY <1>1, <1>2

-----------------------------------------------------------------------------
(* Texts                                                                   *)

LEMMA Glued ==
    ASSUME NEW C, NEW a \in Seq(C), NEW b \in Seq(C)
    PROVE  /\ a \o b \in Seq(C) /\ Len(a \o b) = Len(a) + Len(b)
           /\ \A i \in 1..Len(a) : (a \o b)[i] = a[i]
           /\ \A i \in 1..Len(b) : (a \o b)[Len(a) + i] = b[i]
<1>1. a \o b \in Seq(C) /\ Len(a \o b) = Len(a) + Len(b)
  OBVIOUS
<1>2. ASSUME NEW i \in 1..Len(a) PROVE (a \o b)[i] = a[i]
  OBVIOUS
<1>3. ASSUME NEW i \in 1..Len(b) PROVE (a \o b)[Len(a) + i] = b[i]
  <2> DEFINE j == Len(a) + i
  <2>1. j \in 1..(Len(a) + Len(b)) /\ j > Len(a) /\ j - Len(a) = i
    OBVIOUS
  <2> HIDE DEF j
  <2>2. (a \o b)[j] = b[j - Len(a)]
    BY <2>1
  <2> QED
    BY <2>1, <2>2 DEF j
<1> QED
  BY <1>1, <1>2, <1>3

LEMMA Cut ==
    ASSUME NEW C, NEW a \in Seq(C), NEW b \in Seq(C)
    PROVE  SubSeq(a \o b, 1, Len(a)) = a /\ From(a \o b, Len(a) + 1) = b
<1> DEFINE t == a \o b
<1>1. /\ t \in Seq(C) /\ Len(t) = Len(a) + Len(b)
      /\ \A i \in 1..Len(a) : t[i] = a[i]
      /\ \A i \in 1..Len(b) : t[Len(a) + i] = b[i]
  BY Glued
<1>2. SubSeq(t, 1, Len(a)) = a
  <2> HIDE DEF t
  <2>1. /\ SubSeq(t, 1, Len(a)) \in Seq(C) /\ Len(SubSeq(t, 1, Len(a))) = Len(a)
        /\ \A i \in 1..Len(a) : SubSeq(t, 1, Len(a))[i] = t[i]
    BY <1>1
  <2> QED
    BY <1>1, <2>1, SameTexts
<1>3. From(t, Len(a) + 1) = b
  <2> HIDE DEF t
  <2>1. /\ From(t, Len(a) + 1) \in Seq(C) /\ Len(From(t, Len(a) + 1)) = Len(b)
        /\ \A i \in 1..Len(b) : From(t, Len(a) + 1)[i] = t[Len(a) + 1 + i - 1]
    BY <1>1 DEF From
  <2>2. ASSUME NEW i \in 1..Len(b) PROVE From(t, Len(a) + 1)[i] = b[i]
    <3>1. Len(a) + 1 + i - 1 = Len(a) + i
      OBVIOUS
    <3> QED
      BY <1>1, <2>1, <3>1
  <2> QED
    BY <2>1, <2>2, SameTexts
<1> QED
  BY <1>2, <1>3

\* A text that starts with one character.
LEMMA FirstOfText ==
    ASSUME NEW C, NEW c \in Seq(C), Len(c) = 1, NEW r \in Seq(C)
    PROVE  /\ c \o r \in Seq(C) /\ Len(c \o r) = Len(r) + 1
           /\ Char(c \o r, 1) = c /\ From(c \o r, 2) = r
<1>1. c \o r \in Seq(C) /\ Len(c \o r) = 1 + Len(r)
  BY Glued
<1>2. SubSeq(c \o r, 1, 1) = c /\ From(c \o r, 1 + 1) = r
  BY Cut
<1> QED
  BY <1>1, <1>2 DEF Char

LEMMA JoinedTexts ==
    ASSUME NEW C, NEW a \in Seq(C), NEW b \in Seq(C), NEW c \in Seq(C)
    PROVE  a \o b \in Seq(C) /\ (a \o b) \o c = a \o (b \o c)
<1> DEFINE u == (a \o b) \o c
           w == a \o (b \o c)
<1>1. a \o b \in Seq(C) /\ u \in Seq(C) /\ w \in Seq(C) /\ Len(u) = Len(w)
  OBVIOUS
<1>2. \A i \in 1..Len(u) : u[i] = w[i]
  OBVIOUS
<1> HIDE DEF u, w
<1>3. u = w
  BY <1>1, <1>2, SameTexts
<1> QED
  BY <1>1, <1>3 DEF u, w

\* Three texts one after the other.
Grouped3(C, a, b, c) == a \o b \in Seq(C) /\ b \o c \in Seq(C) /\ (a \o b) \o c = a \o (b \o c)

LEMMA Regrouped ==
    ASSUME NEW C, NEW a \in Seq(C), NEW b \in Seq(C), NEW c \in Seq(C)
    PROVE  Grouped3(C, a, b, c)
BY JoinedTexts DEF Grouped3

LEMMA NoText ==
    ASSUME NEW C, NEW e \in Seq(C), Len(e) = 0, NEW r \in Seq(C)
    PROVE  e \o r = r /\ r \o e = r /\ (Len(r) = 0 => r = e)
<1>1. e \o r \in Seq(C) /\ Len(e \o r) = Len(r) /\ \A i \in 1..Len(r) : (e \o r)[i] = r[i]
  OBVIOUS
<1>2. r \o e \in Seq(C) /\ Len(r \o e) = Len(r) /\ \A i \in 1..Len(r) : (r \o e)[i] = r[i]
  OBVIOUS
<1>3. e \o r = r /\ r \o e = r
  BY <1>1, <1>2, SameTexts
<1>4. Len(r) = 0 => r = e
  BY SameTexts
<1> QED
  BY <1>3, <1>4

\* A text, character by character.
LEMMA CharByChar ==
    ASSUME NEW C, NEW t \in Seq(C), NEW i \in 1..Len(t)
    PROVE  /\ Char(t, i) \in Seq(C) /\ Len(Char(t, i)) = 1
           /\ SubSeq(t, 1, i) \in Seq(C) /\ SubSeq(t, 1, i - 1) \in Seq(C)
           /\ SubSeq(t, 1, i) = SubSeq(t, 1, i - 1) \o Char(t, i)
           /\ From(t, i + 1) \in Seq(C)
           /\ From(t, i) = Char(t, i) \o From(t, i + 1)
<1> DEFINE u == SubSeq(t, 1, i)
           b == SubSeq(t, 1, i - 1)
           c == Char(t, i)
           f == From(t, i)
           g == From(t, i + 1)
<1>1. c \in Seq(C) /\ Len(c) = 1 /\ c[1] = t[i]
  BY DEF Char
<1>2. u \in Seq(C) /\ Len(u) = i /\ \A j \in 1..i : u[j] = t[j]
  OBVIOUS
<1>3. b \in Seq(C) /\ Len(b) = i - 1 /\ \A j \in 1..(i - 1) : b[j] = t[j]
  OBVIOUS
<1>4. f \in Seq(C) /\ Len(f) = Len(t) - i + 1 /\ \A j \in 1..(Len(t) - i + 1) : f[j] = t[i + j - 1]
  BY DEF From
<1>5. g \in Seq(C) /\ Len(g) = Len(t) - i /\ \A j \in 1..(Len(t) - i) : g[j] = t[i + j]
  <2>1. g \in Seq(C) /\ Len(g) = Len(t) - i
    BY DEF From
  <2>2. ASSUME NEW j \in 1..(Len(t) - i) PROVE g[j] = t[i + j]
    <3>1. g[j] = t[i + 1 + j - 1]
      BY DEF From
    <3>2. i + 1 + j - 1 = i + j
      OBVIOUS
    <3> QED
      BY <3>1, <3>2
  <2> QED
    BY <2>1, <2>2
<1> HIDE DEF u, b, c, f, g
<1>6. u = b \o c
  <2>1. /\ b \o c \in Seq(C) /\ Len(b \o c) = i
        /\ \A j \in 1..(i - 1) : (b \o c)[j] = b[j]
        /\ (b \o c)[i - 1 + 1] = c[1]
    <3>1. \A j \in 1..Len(c) : (b \o c)[Len(b) + j] = c[j]
      BY <1>1, <1>3, Glued
    <3>2. Len(b) + 1 = i - 1 + 1 /\ 1 \in 1..Len(c)
      BY <1>1, <1>3
    <3>3. (b \o c)[i - 1 + 1] = c[1]
      BY <3>1, <3>2
    <3>4. /\ b \o c \in Seq(C) /\ Len(b \o c) = Len(b) + Len(c)
          /\ \A j \in 1..Len(b) : (b \o c)[j] = b[j]
      BY <1>1, <1>3, Glued, ZenonT(60)
    <3> QED
      BY <1>1, <1>3, <3>3, <3>4
  <2>2. \A j \in 1..i : (b \o c)[j] = u[j]
    <3> TAKE j \in 1..i
    <3>1. CASE j = i
      BY <1>1, <1>2, <2>1, <3>1
    <3>2. CASE j # i
      BY <1>2, <1>3, <2>1, <3>2, SMTT(30)
    <3> QED
      BY <3>1, <3>2
  <2> QED
    BY <1>2, <2>1, <2>2, SameTexts
<1>7. f = c \o g
  <2>0. c \in Seq(C) /\ g \in Seq(C)
    BY <1>1, <1>5
  <2>1. /\ c \o g \in Seq(C) /\ Len(c \o g) = Len(g) + 1
        /\ (c \o g)[1] = c[1]
        /\ \A j \in 1..Len(g) : (c \o g)[1 + j] = g[j]
    <3>1. /\ c \o g \in Seq(C) /\ Len(c \o g) = Len(c) + Len(g)
          /\ \A j \in 1..Len(c) : (c \o g)[j] = c[j]
          /\ \A j \in 1..Len(g) : (c \o g)[Len(c) + j] = g[j]
      BY <2>0, Glued
    <3>2. ASSUME NEW j \in 1..Len(g) PROVE (c \o g)[1 + j] = g[j]
      <4>1. (c \o g)[Len(c) + j] = g[j]
        BY <3>1
      <4> QED
        BY <1>1, <4>1
    <3>3. (c \o g)[1] = c[1]
      BY <1>1, <3>1
    <3>4. Len(c \o g) = Len(g) + 1
      BY <1>1, <1>5, <3>1
    <3> QED
      BY <3>1, <3>2, <3>3, <3>4
  <2>2. \A j \in 1..Len(f) : (c \o g)[j] = f[j]
    <3> TAKE j \in 1..Len(f)
    <3>1. CASE j = 1
      BY <1>1, <1>4, <2>1, <3>1
    <3>2. CASE j # 1
      <4>1. j - 1 \in 1..Len(g) /\ 1 + (j - 1) = j /\ i + (j - 1) = i + j - 1
        BY <1>4, <1>5, <3>2
      <4> QED
        BY <1>4, <1>5, <2>1, <4>1
    <3> QED
      BY <3>1, <3>2
  <2> QED
    <3>1. Len(f) = Len(c \o g)
      BY <1>4, <1>5, <2>1
    <3>2. \A j \in 1..Len(f) : f[j] = (c \o g)[j]
      BY <2>2
    <3> QED
      BY <1>4, <2>1, <3>1, <3>2, SameTexts
<1> QED
  BY <1>1, <1>2, <1>3, <1>5, <1>6, <1>7 DEF u, b, c, f, g

\* The whole of a text, and nothing of it.
LEMMA WholeText ==
    ASSUME NEW C, NEW t \in Seq(C)
    PROVE  /\ From(t, 1) = t /\ SubSeq(t, 1, Len(t)) = t
           /\ From(t, Len(t) + 1) \in Seq(C) /\ Len(From(t, Len(t) + 1)) = 0
           /\ SubSeq(t, 1, 0) \in Seq(C) /\ Len(SubSeq(t, 1, 0)) = 0
<1>1. SubSeq(t, 1, Len(t)) = t
  <2>1. /\ SubSeq(t, 1, Len(t)) \in Seq(C) /\ Len(SubSeq(t, 1, Len(t))) = Len(t)
        /\ \A i \in 1..Len(t) : SubSeq(t, 1, Len(t))[i] = t[i]
    OBVIOUS
  <2> QED
    BY <2>1, SameTexts
<1> QED
  BY <1>1 DEF From

-----------------------------------------------------------------------------
(* Replacements and joins                                                  *)

\* What is left of a replacement, from each character on.
Replaced(s, c, by, j) == IF Char(s, j) = c THEN by ELSE Char(s, j)

HasReplacedParts(C, s, c, by) ==
    \E part \in [1..(Len(s) + 1) -> Seq(C)] :
        /\ part[1] = ReplaceAll(s, c, by) /\ part[Len(s) + 1] = None
        /\ \A j \in 1..Len(s) : part[j] = Replaced(s, c, by, j) \o part[j + 1]

LEMMA ReplacedParts ==
    ASSUME NEW C, None \in Seq(C), NEW s \in Seq(C), NEW c, NEW by \in Seq(C)
    PROVE  HasReplacedParts(C, s, c, by)
<1> DEFINE X == Seq(C)
           n == Len(s)
           value(k, x) == (IF Char(s, n - k + 1) = c THEN by ELSE Char(s, n - k + 1)) \o x
           Eq(f) == f = [k \in 0..n |-> IF k = 0 THEN None ELSE value(k, f[k - 1])]
           round == [k \in Nat |-> [x \in X |-> IF k \in 1..n THEN value(k, x) ELSE x]]
           g == CHOOSE f : Eq(f)
<1>1. n \in Nat /\ None \in X
  OBVIOUS
<1>2. ASSUME NEW k \in 1..n, NEW x \in X PROVE value(k, x) \in X
  <2>1. n - k + 1 \in 1..Len(s)
    BY <1>1
  <2>2. Char(s, n - k + 1) \in X
    BY <2>1, CharByChar
  <2> QED
    BY <2>2, JoinedTexts
<1>3. round \in [Nat -> [X -> X]]
  <2> HIDE DEF value, n
  <2> QED
    BY <1>2
<1>4. PICK f \in [0..n -> X] : Rounds(f, round, None, n)
  <2> HIDE DEF round, n
  <2> QED
    BY <1>1, <1>3, RoundsExist
<1>5. Eq(f)
  <2>1. f[0] = None /\ \A k \in 1..n : f[k] = round[k][f[k - 1]]
    <3> HIDE DEF round
    <3> QED
      BY <1>4 DEF Rounds
  <2> HIDE DEF value, n
  <2>2. \A k \in 1..n : k \in Nat /\ k - 1 \in 0..n
    BY <1>1
  <2>3. \A k \in 1..n : f[k] = value(k, f[k - 1])
    BY <1>4, <2>1, <2>2
  <2>4. \A k \in 0..n : k = 0 \/ k \in 1..n
    BY <1>1
  <2> QED
    BY <1>1, <1>4, <2>1, <2>3, <2>4
<1>6. Eq(g)
  <2> HIDE DEF Eq
  <2> QED
    BY <1>5
<1>7. ReplaceAll(s, c, by) = g[n]
  BY DEF ReplaceAll, None
<1> HIDE DEF g, value
<1>8. g[0] = None /\ \A k \in 1..n : g[k] = value(k, g[k - 1])
  <2> HIDE DEF n, X
  <2>1. \A k \in 0..n : g[k] = IF k = 0 THEN None ELSE value(k, g[k - 1])
    BY <1>6
  <2>2. 0 \in 0..n /\ \A k \in 1..n : k \in 0..n /\ k # 0
    BY <1>1
  <2> QED
    BY <2>1, <2>2
<1>9. \A k \in 0..n : g[k] \in X
  <2> DEFINE S == {k \in Nat : k <= n => g[k] \in X}
  <2>1. 0 \in S
    BY <1>1, <1>8
  <2>2. ASSUME NEW k \in Nat, k \in S PROVE k + 1 \in S
    <3> SUFFICES ASSUME k + 1 <= n PROVE g[k + 1] \in X
      OBVIOUS
    <3>1. k + 1 \in 1..n /\ k + 1 - 1 = k /\ g[k] \in X
      BY <1>1, <2>2
    <3> HIDE DEF S, n
    <3> QED
      BY <1>2, <1>8, <3>1
  <2>3. Nat \subseteq S
    <3> HIDE DEF S
    <3> QED
      BY <2>1, <2>2, Induction
  <2> QED
    BY <1>1, <2>3
<1> DEFINE part == [j \in 1..(n + 1) |-> g[n + 1 - j]]
<1>10. part \in [1..(n + 1) -> X]
  BY <1>1, <1>9
<1>11. part[1] = ReplaceAll(s, c, by) /\ part[n + 1] = None
  BY <1>1, <1>7, <1>8
<1>12. ASSUME NEW j \in 1..n PROVE part[j] = Replaced(s, c, by, j) \o part[j + 1]
  <2>1. n + 1 - j \in 1..n /\ n - (n + 1 - j) + 1 = j
    BY <1>1
  <2>2. part[j] = g[n + 1 - j] /\ part[j + 1] = g[n + 1 - j - 1]
    BY <1>1
  <2> HIDE DEF part
  <2>3. g[n + 1 - j] = value(n + 1 - j, g[n + 1 - j - 1])
    BY <1>8, <2>1
  <2>4. value(n + 1 - j, g[n + 1 - j - 1]) = Replaced(s, c, by, j) \o g[n + 1 - j - 1]
    BY <2>1 DEF value, Replaced
  <2> QED
    BY <2>2, <2>3, <2>4
<1> HIDE DEF part
<1> QED
  BY <1>10, <1>11, <1>12 DEF HasReplacedParts

\* What is left of a join, from each text on.
HasJoinedParts(C, ss, sep) ==
    \E part \in [1..Len(ss) -> Seq(C)] :
        /\ part[1] = Join(ss, sep) /\ part[Len(ss)] = ss[Len(ss)]
        /\ \A j \in 1..(Len(ss) - 1) : part[j] = ss[j] \o (sep \o part[j + 1])

LEMMA JoinedParts ==
    ASSUME NEW C, None \in Seq(C), NEW ss \in Seq(Seq(C)), ss # <<>>, NEW sep \in Seq(C)
    PROVE  HasJoinedParts(C, ss, sep)
<1> DEFINE X == Seq(C)
           n == Len(ss)
           value(k, x) == ss[n - k + 1] \o (IF k = 1 THEN None ELSE sep \o x)
           Eq(f) == f = [k \in 0..n |-> IF k = 0 THEN None ELSE value(k, f[k - 1])]
           round == [k \in Nat |-> [x \in X |-> IF k \in 1..n THEN value(k, x) ELSE x]]
           g == CHOOSE f : Eq(f)
<1>1. n \in Nat \ {0} /\ None \in X
  OBVIOUS
<1>2. ASSUME NEW k \in 1..n, NEW x \in X PROVE value(k, x) \in X
  <2>1. n - k + 1 \in 1..Len(ss)
    BY <1>1
  <2>2. ss[n - k + 1] \in X
    BY <2>1
  <2>3. (IF k = 1 THEN None ELSE sep \o x) \in X
    BY <1>1, JoinedTexts
  <2> QED
    BY <2>2, <2>3, JoinedTexts
<1>3. round \in [Nat -> [X -> X]]
  <2> HIDE DEF value, n
  <2> QED
    BY <1>2
<1>4. PICK f \in [0..n -> X] : Rounds(f, round, None, n)
  <2> HIDE DEF round, n
  <2> QED
    BY <1>1, <1>3, RoundsExist
<1>5. Eq(f)
  <2>1. f[0] = None /\ \A k \in 1..n : f[k] = round[k][f[k - 1]]
    <3> HIDE DEF round
    <3> QED
      BY <1>4 DEF Rounds
  <2> HIDE DEF value, n
  <2>2. \A k \in 1..n : k \in Nat /\ k - 1 \in 0..n
    BY <1>1
  <2>3. \A k \in 1..n : f[k] = value(k, f[k - 1])
    BY <1>4, <2>1, <2>2
  <2>4. \A k \in 0..n : k = 0 \/ k \in 1..n
    BY <1>1
  <2> QED
    BY <1>1, <1>4, <2>1, <2>3, <2>4
<1>6. Eq(g)
  <2> HIDE DEF Eq
  <2> QED
    BY <1>5
<1>7. Join(ss, sep) = g[n]
  BY DEF Join, None
<1> HIDE DEF g, value
<1>8. g[0] = None /\ \A k \in 1..n : g[k] = value(k, g[k - 1])
  <2> HIDE DEF n, X
  <2>1. \A k \in 0..n : g[k] = IF k = 0 THEN None ELSE value(k, g[k - 1])
    BY <1>6
  <2>2. 0 \in 0..n /\ \A k \in 1..n : k \in 0..n /\ k # 0
    BY <1>1
  <2> QED
    BY <2>1, <2>2
<1>9. \A k \in 0..n : g[k] \in X
  <2> DEFINE S == {k \in Nat : k <= n => g[k] \in X}
  <2>1. 0 \in S
    BY <1>1, <1>8
  <2>2. ASSUME NEW k \in Nat, k \in S PROVE k + 1 \in S
    <3> SUFFICES ASSUME k + 1 <= n PROVE g[k + 1] \in X
      OBVIOUS
    <3>1. k + 1 \in 1..n /\ k + 1 - 1 = k /\ g[k] \in X
      BY <1>1, <2>2
    <3> HIDE DEF S, n
    <3> QED
      BY <1>2, <1>8, <3>1
  <2>3. Nat \subseteq S
    <3> HIDE DEF S
    <3> QED
      BY <2>1, <2>2, Induction
  <2> QED
    BY <1>1, <2>3
<1> DEFINE part == [j \in 1..n |-> g[n + 1 - j]]
<1>10. part \in [1..n -> X]
  BY <1>1, <1>9
<1>11. part[1] = Join(ss, sep) /\ part[n] = ss[n]
  <2>1. part[1] = g[n] /\ part[n] = g[1] /\ 1 \in 1..n /\ n - 1 + 1 = n
    BY <1>1
  <2> HIDE DEF part
  <2>2. g[1] = ss[n] \o None
    BY <1>8, <2>1 DEF value
  <2>3. ss[n] \o None = ss[n]
    BY <1>1, LiteralsAreTexts, NoText
  <2> QED
    BY <1>7, <2>1, <2>2, <2>3
<1>12. ASSUME NEW j \in 1..(n - 1) PROVE part[j] = ss[j] \o (sep \o part[j + 1])
  <2>1. n + 1 - j \in 1..n /\ n - (n + 1 - j) + 1 = j /\ n + 1 - j # 1
    BY <1>1
  <2>2. part[j] = g[n + 1 - j] /\ part[j + 1] = g[n + 1 - j - 1]
    BY <1>1
  <2> HIDE DEF part
  <2>3. g[n + 1 - j] = value(n + 1 - j, g[n + 1 - j - 1])
    BY <1>8, <2>1
  <2>4. value(n + 1 - j, g[n + 1 - j - 1]) = ss[j] \o (sep \o g[n + 1 - j - 1])
    BY <2>1 DEF value
  <2> QED
    BY <2>2, <2>3, <2>4
<1> HIDE DEF part
<1> QED
  BY <1>10, <1>11, <1>12 DEF HasJoinedParts

-----------------------------------------------------------------------------
(* What the shell on the host does with each part of a line                *)

Texts == STRING

LEMMA LiteralTexts ==
    /\ None \in Texts /\ Len(None) = 0
    /\ \A c \in Special : c \in Texts /\ Len(c) = 1 /\ c \notin SafeShellChars
    /\ Quote \in Special /\ DoubleQuote \in Special /\ Space \in Special
    /\ Bar \in Special /\ Ampersand \in Special
BY LiteralsAreTexts DEF Texts, Special

\* What starts an expansion inside double quotes.
Expanding == {"$", Backtick, "\\"}

LEMMA SpecialsDiffer ==
    /\ None \notin Special
    /\ Quote # DoubleQuote /\ Quote # Space /\ Quote # Bar /\ Quote # Ampersand
    /\ DoubleQuote # Space /\ DoubleQuote # Bar /\ DoubleQuote # Ampersand
    /\ Space # Bar /\ Space # Ampersand /\ Bar # Ampersand
    /\ Quote \notin Expanding
BY DEF Expanding, None, Quote, DoubleQuote, Space, Bar, Ampersand, Special, Backtick

\* The shell in the middle of a line.
At(v, rest, quote, open, word, words, op, read) ==
    /\ v \in ShellStates /\ v.ok = TRUE
    /\ v.rest = rest /\ v.quote = quote /\ v.open = open /\ v.word = word
    /\ v.words = words /\ v.op = op /\ v.read = read

\* One round, by the first character that is left.
RoundOn(v, c, r) ==
    /\ v.quote # None /\ c = v.quote =>
           ShellRound[v] = [[v EXCEPT !.rest = r] EXCEPT !.quote = None]
    /\ v.quote # None /\ c # v.quote /\ ~ (v.quote = DoubleQuote /\ c \in Expanding) =>
           ShellRound[v] = [[v EXCEPT !.rest = r] EXCEPT !.word = v.word \o c]
    /\ v.quote = None /\ c \in {Quote, DoubleQuote} =>
           ShellRound[v] = [[v EXCEPT !.rest = r] EXCEPT !.quote = c, !.open = TRUE]
    /\ v.quote = None /\ c \notin {Quote, DoubleQuote} /\ c = Space =>
           ShellRound[v] = EndWord([v EXCEPT !.rest = r])

LEMMA RoundIs ==
    ASSUME NEW v \in ShellStates, v.rest # None, NEW c, Char(v.rest, 1) = c,
           NEW r, From(v.rest, 2) = r
    PROVE  RoundOn(v, c, r)
<1> DEFINE S == ShellStates
<1>1. v \in S
  OBVIOUS
<1> HIDE DEF S
<1>2. ShellRound[v] =
        LET c_   == Char(v.rest, 1)
            two  == IF Len(v.rest) = 1 THEN None ELSE SubSeq(v.rest, 1, 2)
            next == [v EXCEPT !.rest = From(v.rest, 2)] IN
        IF v.rest = None THEN v
        ELSE IF v.quote # None
        THEN IF c_ = v.quote THEN [next EXCEPT !.quote = None]
             ELSE IF v.quote = DoubleQuote /\ c_ \in {"$", Backtick, "\\"} THEN Stuck(v)
             ELSE [next EXCEPT !.word = v.word \o c_]
        ELSE IF c_ \in {Quote, DoubleQuote} THEN [next EXCEPT !.quote = c_, !.open = TRUE]
        ELSE IF c_ = Space THEN EndWord(next)
        ELSE IF two \in Operators
        THEN [EndCommand([v EXCEPT !.rest = From(v.rest, 3)]) EXCEPT !.op = two]
        ELSE IF c_ \in Operators THEN [EndCommand(next) EXCEPT !.op = c_]
        ELSE IF c_ \in SafeShellChars THEN [next EXCEPT !.word = v.word \o c_, !.open = TRUE]
        ELSE Stuck(v)
  BY DEF ShellRound
<1> QED
  BY <1>2 DEF Expanding, RoundOn

LEMMA EndWordAt ==
    ASSUME NEW v \in ShellStates, NEW r \in Texts
    PROVE  LET u == EndWord([v EXCEPT !.rest = r]) IN
           /\ u \in ShellStates
           /\ u.rest = r /\ u.quote = v.quote /\ u.open = FALSE /\ u.word = None
           /\ u.words = IF v.open THEN Append(v.words, v.word) ELSE v.words
           /\ u.op = v.op /\ u.read = v.read /\ u.ok = v.ok
<1> DEFINE w == [v EXCEPT !.rest = r]
           u == EndWord(w)
           words == IF v.open THEN Append(v.words, v.word) ELSE v.words
<1>1. /\ w \in ShellStates
      /\ w.rest = r /\ w.quote = v.quote /\ w.open = v.open /\ w.word = v.word
      /\ w.words = v.words /\ w.op = v.op /\ w.read = v.read /\ w.ok = v.ok
  BY DEF ShellStates, Texts
<1>2. words \in Seq(Texts)
  <2>1. v.words \in Seq(Texts) /\ v.word \in Texts
    BY DEF ShellStates, Texts
  <2> QED
    BY <2>1
<1> HIDE DEF w, words
<1>3. u = [w EXCEPT !.words = words, !.open = FALSE, !.word = None]
  BY <1>1 DEF EndWord, words
<1>4. None \in Texts
  BY LiteralTexts
<1> HIDE DEF u
<1>5. /\ u \in ShellStates
      /\ u.rest = r /\ u.quote = v.quote /\ u.open = FALSE /\ u.word = None
      /\ u.words = words /\ u.op = v.op /\ u.read = v.read /\ u.ok = v.ok
  BY <1>1, <1>2, <1>3, <1>4 DEF ShellStates, Texts
<1> QED
  BY <1>5 DEF u, w, words

\* Where the first character that is left leads.
CharacterLeads(w, ch, r, quote, open, word, words, op, read) ==
    /\ quote # None /\ ch = quote => At(w, r, None, open, word, words, op, read)
    /\ quote = Quote /\ ch # Quote => At(w, r, quote, open, word \o ch, words, op, read)
    /\ quote = DoubleQuote /\ ch = Quote => At(w, r, quote, open, word \o ch, words, op, read)
    /\ quote = None /\ ch \in {Quote, DoubleQuote} => At(w, r, ch, TRUE, word, words, op, read)
    /\ quote = None /\ ch = Space /\ open =>
           At(w, r, None, FALSE, None, Append(words, word), op, read)
    /\ quote = None /\ ch = Space /\ ~ open => At(w, r, None, FALSE, None, words, op, read)

LEMMA CharacterIsRead ==
    ASSUME NEW C, Texts = Seq(C), NEW ch \in Seq(C), Len(ch) = 1, NEW r \in Seq(C),
           NEW quote, NEW open, NEW word, NEW words, NEW op, NEW read,
           NEW v, At(v, ch \o r, quote, open, word, words, op, read)
    PROVE  CharacterLeads(ShellRound[v], ch, r, quote, open, word, words, op, read)
<1> DEFINE w == ShellRound[v]
<1>1. /\ ch \o r \in Texts /\ Char(ch \o r, 1) = ch /\ From(ch \o r, 2) = r
      /\ ch \o r # None
  <2>1. /\ ch \o r \in Seq(C) /\ Len(ch \o r) = Len(r) + 1
        /\ Char(ch \o r, 1) = ch /\ From(ch \o r, 2) = r
    BY FirstOfText
  <2>2. Len(r) \in Nat
    OBVIOUS
  <2>3. Len(r) + 1 # 0
    BY <2>2
  <2>4. ch \o r # None
    BY <2>1, <2>3, LiteralTexts
  <2> QED
    BY <2>1, <2>4
<1>2. /\ v \in ShellStates /\ v.rest # None /\ Char(v.rest, 1) = ch /\ From(v.rest, 2) = r
      /\ v.quote = quote /\ v.open = open /\ v.word = word
      /\ v.words = words /\ v.op = op /\ v.read = read /\ v.ok = TRUE
  BY <1>1 DEF At
<1>3. RoundOn(v, ch, r)
  BY <1>2, RoundIs
<1> HIDE DEF w
<1>4. None \notin {Quote, DoubleQuote} /\ Space \notin {Quote, DoubleQuote} /\ Quote # DoubleQuote
      /\ Quote \notin Expanding
  BY SpecialsDiffer, LiteralTexts
<1>5. r \in Texts /\ v.word \o ch \in Texts
  <2>1. v.word \in Texts
    BY <1>2 DEF ShellStates, Texts
  <2> QED
    BY <2>1, JoinedTexts
<1>6. CASE quote # None /\ ch = quote
  <2>1. w = [[v EXCEPT !.rest = r] EXCEPT !.quote = None]
    BY <1>2, <1>3, <1>6 DEF RoundOn, w
  <2>2. At(w, r, None, open, word, words, op, read)
    BY <1>2, <1>5, <2>1 DEF At, ShellStates, Texts
  <2> QED
    BY <1>4, <1>6, <2>2 DEF CharacterLeads, w
<1>7. CASE (quote = Quote /\ ch # Quote) \/ (quote = DoubleQuote /\ ch = Quote)
  <2>1. w = [[v EXCEPT !.rest = r] EXCEPT !.word = v.word \o ch]
    BY <1>2, <1>3, <1>4, <1>7 DEF RoundOn, w
  <2>2. At(w, r, quote, open, word \o ch, words, op, read)
    <3> DEFINE x == v.word \o ch
    <3>1. x \in Texts /\ x = word \o ch /\ w = [[v EXCEPT !.rest = r] EXCEPT !.word = x]
      BY <1>2, <1>5, <2>1
    <3> HIDE DEF x
    <3>2. At(w, r, quote, open, x, words, op, read)
      BY <1>2, <1>5, <3>1 DEF At, ShellStates, Texts
    <3> QED
      BY <3>1, <3>2
  <2> QED
    BY <1>4, <1>7, <2>2 DEF CharacterLeads, w
<1>8. CASE quote = None /\ ch \in {Quote, DoubleQuote}
  <2>1. w = [[v EXCEPT !.rest = r] EXCEPT !.quote = ch, !.open = TRUE]
    BY <1>2, <1>3, <1>8 DEF RoundOn, w
  <2>2. At(w, r, ch, TRUE, word, words, op, read)
    BY <1>2, <1>5, <1>8, <2>1 DEF At, ShellStates, Texts
  <2> QED
    BY <1>4, <1>8, <2>2 DEF CharacterLeads, w
<1>9. CASE quote = None /\ ch = Space
  <2>1. w = EndWord([v EXCEPT !.rest = r])
    BY <1>2, <1>3, <1>4, <1>9 DEF RoundOn, w
  <2>2. /\ w \in ShellStates
        /\ w.rest = r /\ w.quote = v.quote /\ w.open = FALSE /\ w.word = None
        /\ w.words = (IF v.open THEN Append(v.words, v.word) ELSE v.words)
        /\ w.op = v.op /\ w.read = v.read /\ w.ok = v.ok
    BY <1>2, <1>5, <2>1, EndWordAt, ZenonT(60)
  <2>3. CASE open
    BY <1>2, <1>4, <1>9, <2>2, <2>3 DEF At, CharacterLeads, w
  <2>4. CASE ~ open
    BY <1>2, <1>4, <1>9, <2>2, <2>4 DEF At, CharacterLeads, w
  <2> QED
    BY <2>3, <2>4
<1>10. CASE /\ ~ (quote # None /\ ch = quote)
           /\ ~ ((quote = Quote /\ ch # Quote) \/ (quote = DoubleQuote /\ ch = Quote))
           /\ ~ (quote = None /\ ch \in {Quote, DoubleQuote})
           /\ ~ (quote = None /\ ch = Space)
  BY <1>10 DEF CharacterLeads
<1> QED
  BY <1>6, <1>7, <1>8, <1>9, <1>10 DEF w

\* A text that starts with two characters.
StartsWithTwo(C, t, c, d, r) ==
    /\ t = c \o (d \o r) /\ t \in Seq(C) /\ Len(t) = Len(r) + 2
    /\ SubSeq(t, 1, 2) = c \o d /\ From(t, 3) = r

LEMMA FirstTwoOfText ==
    ASSUME NEW C, NEW c \in Seq(C), Len(c) = 1, NEW d \in Seq(C), Len(d) = 1, NEW r \in Seq(C)
    PROVE  StartsWithTwo(C, c \o (d \o r), c, d, r)
<1> DEFINE two == c \o d
<1>1. two \in Seq(C) /\ Len(two) = 2 /\ two \o r = c \o (d \o r)
  <2>1. two \in Seq(C) /\ Len(two) = Len(c) + Len(d)
    BY Glued
  <2> QED
    BY <2>1, JoinedTexts
<1> HIDE DEF two
<1>2. two \o r \in Seq(C) /\ Len(two \o r) = Len(two) + Len(r)
  BY <1>1, Glued
<1>3. SubSeq(two \o r, 1, Len(two)) = two /\ From(two \o r, Len(two) + 1) = r
  BY <1>1, Cut
<1>4. Len(two) + 1 = 3 /\ Len(two) + Len(r) = Len(r) + 2
  BY <1>1
<1> QED
  BY <1>1, <1>2, <1>3, <1>4 DEF two, StartsWithTwo

LEMMA TwoCharacters ==
    ASSUME NEW C, NEW a \in Seq(C), Len(a) = 1, NEW b \in Seq(C), Len(b) = 1,
           NEW c \in Seq(C), Len(c) = 1, NEW d \in Seq(C), Len(d) = 1, a \o b = c \o d
    PROVE  a = c /\ b = d
<1>1. Char(a \o b, 1) = a /\ From(a \o b, 2) = b
  BY FirstOfText
<1>2. Char(c \o d, 1) = c /\ From(c \o d, 2) = d
  BY FirstOfText
<1> QED
  BY <1>1, <1>2

LEMMA LongerThanBar == ASSUME NEW x, Len(x) = 2 PROVE x # Bar
<1>1. Len(Bar) = 1
  BY LiteralTexts
<1> SUFFICES ASSUME x = Bar PROVE FALSE
  OBVIOUS
<1>2. Len(Bar) = 2
  OBVIOUS
<1> QED
  BY <1>1, <1>2

LEMMA OperatorsAre ==
    ASSUME NEW C, Texts = Seq(C)
    PROVE  /\ None \notin Operators
           /\ \A o \in Operators :
                  o \in Seq(C) /\ (o = Bar \/ (Len(o) = 2 /\ \E s \in {Bar, Ampersand} : o = s \o s))
           /\ \A o \in Seq(C) : Len(o) = 1 /\ o \in Operators => o = Bar
<1>1. /\ Bar \in Seq(C) /\ Len(Bar) = 1 /\ Ampersand \in Seq(C) /\ Len(Ampersand) = 1
      /\ Len(None) = 0
  BY LiteralTexts
<1>2. ASSUME NEW s \in {Bar, Ampersand} PROVE s \o s \in Seq(C) /\ Len(s \o s) = 2
  BY <1>1, FirstOfText
<1>3. Operators = {Bar, Bar \o Bar, Ampersand \o Ampersand}
  BY LiteralsAreTexts
<1>4. ASSUME NEW o \in Operators
      PROVE  o \in Seq(C) /\ (o = Bar \/ (Len(o) = 2 /\ \E s \in {Bar, Ampersand} : o = s \o s))
  <2>1. o = Bar \/ o = Bar \o Bar \/ o = Ampersand \o Ampersand
    BY <1>3
  <2>2. CASE o = Bar
    <3>1. o \in Seq(C)
      BY <1>1, <2>2
    <3> QED
      BY <2>2, <3>1
  <2>3. CASE o = Bar \o Bar
    BY <1>2, <2>3
  <2>4. CASE o = Ampersand \o Ampersand
    BY <1>2, <2>4
  <2> QED
    BY <2>1, <2>2, <2>3, <2>4
<1>5. None \notin Operators
  <2> SUFFICES ASSUME None \in Operators PROVE FALSE
    OBVIOUS
  <2>1. None = Bar \/ Len(None) = 2
    BY <1>4
  <2> QED
    BY <1>1, <2>1
<1>6. ASSUME NEW o \in Seq(C), Len(o) = 1, o \in Operators PROVE o = Bar
  <2>1. o = Bar \/ Len(o) = 2
    BY <1>4, <1>6
  <2> QED
    BY <1>6, <2>1
<1> QED
  BY <1>4, <1>5, <1>6

LEMMA EndCommandAt ==
    ASSUME NEW v \in ShellStates, NEW r \in Texts
    PROVE  LET u  == EndCommand([v EXCEPT !.rest = r])
               ws == IF v.open THEN Append(v.words, v.word) ELSE v.words IN
           /\ u \in ShellStates /\ u.rest \in {r, None}
           /\ ws # <<>> =>
                /\ u.rest = r /\ u.quote = v.quote /\ u.open = FALSE /\ u.word = None
                /\ u.words = <<>> /\ u.op = v.op /\ u.ok = v.ok
                /\ u.read = Append(v.read, Segment(ws[1], Tail(ws), v.op))
<1> DEFINE w  == [v EXCEPT !.rest = r]
           e  == EndWord(w)
           u  == EndCommand(w)
           ws == IF v.open THEN Append(v.words, v.word) ELSE v.words
<1>1. /\ e \in ShellStates
      /\ e.rest = r /\ e.quote = v.quote /\ e.open = FALSE /\ e.word = None
      /\ e.words = ws /\ e.op = v.op /\ e.read = v.read /\ e.ok = v.ok
  BY EndWordAt
<1>2. w \in ShellStates /\ w.read = v.read /\ w.op = v.op
  BY DEF ShellStates, Texts
<1>3. u = IF ws = <<>> THEN Stuck(w)
          ELSE [e EXCEPT !.words = <<>>, !.read = Append(v.read, Segment(ws[1], Tail(ws), v.op))]
  <2> HIDE DEF w, ws
  <2> QED
    BY <1>1, <1>2 DEF EndCommand
<1>4. ws \in Seq(Texts) /\ v.op \in Operators \cup {None} /\ v.read \in Seq(Segments)
  <2>1. ws \in Seq(Texts)
    <3> HIDE DEF ws, e
    <3> QED
      BY <1>1 DEF ShellStates, Texts
  <2>2. v.op \in Operators \cup {None} /\ v.read \in Seq(Segments)
    BY DEF ShellStates
  <2> QED
    BY <2>1, <2>2
<1> HIDE DEF w, e, u, ws
<1>5. CASE ws = <<>>
  <2>1. u = [w EXCEPT !.rest = None, !.ok = FALSE] /\ None \in Texts
    BY <1>3, <1>5, LiteralTexts DEF Stuck
  <2>2. u \in ShellStates /\ u.rest = None
    BY <1>2, <2>1 DEF ShellStates, Texts
  <2> QED
    BY <1>5, <2>2 DEF u, w, ws
<1>6. CASE ws # <<>>
  <2> DEFINE seg == Segment(ws[1], Tail(ws), v.op)
             done == Append(v.read, seg)
  <2>1. seg \in Segments
    <3>1. ws[1] \in Texts /\ Tail(ws) \in Seq(Texts)
      BY <1>4, <1>6
    <3> QED
      BY <1>4, <3>1 DEF Segment, Segments, Texts, None
  <2>2. done \in Seq(Segments)
    <3> DEFINE S == Segments
    <3>1. seg \in S /\ v.read \in Seq(S)
      BY <1>4, <2>1
    <3> HIDE DEF seg, S
    <3>2. Append(v.read, seg) \in Seq(S)
      BY <3>1
    <3> QED
      BY <3>2 DEF S
  <2>3. u = [e EXCEPT !.words = <<>>, !.read = done]
    BY <1>3, <1>6
  <2>4. <<>> \in Seq(Texts)
    OBVIOUS
  <2> HIDE DEF done
  <2>5. /\ u \in ShellStates
        /\ u.rest = r /\ u.quote = v.quote /\ u.open = FALSE /\ u.word = None
        /\ u.words = <<>> /\ u.op = v.op /\ u.ok = v.ok /\ u.read = done
    BY <1>1, <2>2, <2>3, <2>4 DEF ShellStates, Texts
  <2> QED
    BY <2>5 DEF done, u, w, ws
<1> QED
  BY <1>5, <1>6

PlainRound(v, c, r, two) ==
    ShellRound[v] =
        IF two \in Operators
        THEN [EndCommand([v EXCEPT !.rest = From(v.rest, 3)]) EXCEPT !.op = two]
        ELSE IF c \in Operators THEN [EndCommand([v EXCEPT !.rest = r]) EXCEPT !.op = c]
        ELSE IF c \in SafeShellChars
        THEN [[v EXCEPT !.rest = r] EXCEPT !.word = v.word \o c, !.open = TRUE]
        ELSE Stuck(v)

LEMMA PlainRoundIs ==
    ASSUME NEW v \in ShellStates, v.rest # None, v.quote = None,
           NEW c, Char(v.rest, 1) = c, c \notin {Quote, DoubleQuote, Space},
           NEW r, From(v.rest, 2) = r,
           NEW two, two = IF Len(v.rest) = 1 THEN None ELSE SubSeq(v.rest, 1, 2)
    PROVE  PlainRound(v, c, r, two)
<1> DEFINE S == ShellStates
<1>1. v \in S
  OBVIOUS
<1> HIDE DEF S
<1>2. ShellRound[v] =
        LET first == Char(v.rest, 1)
            pair  == IF Len(v.rest) = 1 THEN None ELSE SubSeq(v.rest, 1, 2)
            next  == [v EXCEPT !.rest = From(v.rest, 2)] IN
        IF v.rest = None THEN v
        ELSE IF v.quote # None
        THEN IF first = v.quote THEN [next EXCEPT !.quote = None]
             ELSE IF v.quote = DoubleQuote /\ first \in {"$", Backtick, "\\"} THEN Stuck(v)
             ELSE [next EXCEPT !.word = v.word \o first]
        ELSE IF first \in {Quote, DoubleQuote} THEN [next EXCEPT !.quote = first, !.open = TRUE]
        ELSE IF first = Space THEN EndWord(next)
        ELSE IF pair \in Operators
        THEN [EndCommand([v EXCEPT !.rest = From(v.rest, 3)]) EXCEPT !.op = pair]
        ELSE IF first \in Operators THEN [EndCommand(next) EXCEPT !.op = first]
        ELSE IF first \in SafeShellChars THEN [next EXCEPT !.word = v.word \o first, !.open = TRUE]
        ELSE Stuck(v)
  BY <1>1 DEF ShellRound, S
<1> QED
  BY <1>2 DEF PlainRound

\* A character that needs no quotes goes to the word.
LEMMA SafeCharacterIsRead ==
    ASSUME NEW C, Texts = Seq(C), NEW ch \in Seq(C), Len(ch) = 1, ch \in SafeShellChars,
           NEW r \in Seq(C), NEW open, NEW word, NEW words, NEW op, NEW read,
           NEW v, At(v, ch \o r, None, open, word, words, op, read)
    PROVE  At(ShellRound[v], r, None, TRUE, word \o ch, words, op, read)
<1> DEFINE two == IF Len(v.rest) = 1 THEN None ELSE SubSeq(v.rest, 1, 2)
<1>1. /\ ch \o r \in Seq(C) /\ Len(ch \o r) = Len(r) + 1
      /\ Char(ch \o r, 1) = ch /\ From(ch \o r, 2) = r
  BY FirstOfText
<1>2. ch \o r # None
  <2>1. Len(r) \in Nat
    OBVIOUS
  <2>2. Len(r) + 1 # 0
    BY <2>1
  <2> QED
    BY <1>1, <2>2, LiteralTexts
<1>3. /\ v \in ShellStates /\ v.rest = ch \o r
      /\ v.quote = None /\ v.open = open /\ v.word = word
      /\ v.words = words /\ v.op = op /\ v.read = read /\ v.ok = TRUE
  BY DEF At
<1>4. ch \notin Special
  BY LiteralTexts
<1>5. ch \notin {Quote, DoubleQuote, Space} /\ ch # Bar /\ ch # Ampersand
  BY <1>4, LiteralTexts
<1>6. ch \notin Operators
  BY <1>5, OperatorsAre
<1>7. two \notin Operators
  <2>1. CASE Len(r) = 0
    BY <1>1, <1>3, <2>1, OperatorsAre
  <2>2. CASE Len(r) # 0
    <3> DEFINE d == Char(r, 1)
               s == From(r, 2)
    <3>1. d \in Seq(C) /\ Len(d) = 1 /\ s \in Seq(C) /\ r = d \o s
      <4>1. 1 \in 1..Len(r) /\ 1 + 1 = 2
        BY <2>2
      <4>2. /\ Char(r, 1) \in Seq(C) /\ Len(Char(r, 1)) = 1 /\ From(r, 1 + 1) \in Seq(C)
            /\ From(r, 1) = Char(r, 1) \o From(r, 1 + 1)
        BY <4>1, CharByChar
      <4> QED
        BY <4>2, WholeText, SMTT(30)
    <3> HIDE DEF d, s
    <3>2. two = ch \o d
      <4>1. SubSeq(ch \o r, 1, 2) = ch \o d
        BY <3>1, FirstTwoOfText DEF StartsWithTwo
      <4>2. Len(ch \o r) # 1
        BY <1>1, <2>2
      <4> QED
        BY <1>3, <4>1, <4>2
    <3> HIDE DEF two
    <3>3. Len(two) = 2
      <4>1. Len(ch \o d) = Len(d) + 1
        BY <3>1, FirstOfText
      <4> QED
        BY <3>1, <3>2, <4>1
    <3> SUFFICES ASSUME two \in Operators PROVE FALSE
      OBVIOUS
    <3>4. Len(Bar) = 1 /\ Bar \in Seq(C) /\ Ampersand \in Seq(C) /\ Len(Ampersand) = 1
      BY LiteralTexts
    <3>5. PICK x \in {Bar, Ampersand} : two = x \o x
      <4>1. two # Bar
        BY <3>3, LongerThanBar
      <4> QED
        BY <4>1, OperatorsAre
    <3>6. ch = x
      <4>1. x \in Seq(C) /\ Len(x) = 1 /\ ch \o d = x \o x
        BY <3>2, <3>4, <3>5
      <4> QED
        BY <3>1, <4>1, TwoCharacters
    <3> QED
      BY <1>5, <3>5, <3>6
  <2> QED
    BY <2>1, <2>2
<1> HIDE DEF two
<1>8. ShellRound[v] = [[v EXCEPT !.rest = r] EXCEPT !.word = v.word \o ch, !.open = TRUE]
  <2>1. /\ v.rest # None /\ Char(v.rest, 1) = ch /\ From(v.rest, 2) = r
        /\ two = IF Len(v.rest) = 1 THEN None ELSE SubSeq(v.rest, 1, 2)
    BY <1>1, <1>2, <1>3 DEF two
  <2>2. PlainRound(v, ch, r, two)
    BY <1>3, <1>5, <2>1, PlainRoundIs
  <2> QED
    BY <1>6, <1>7, <2>2 DEF PlainRound
<1> DEFINE w == ShellRound[v]
           x == v.word \o ch
<1>9. x \in Texts /\ r \in Texts /\ x = word \o ch
  <2>1. v.word \in Texts
    BY <1>3 DEF ShellStates, Texts
  <2> QED
    BY <1>3, <2>1, JoinedTexts
<1>10. w = [[v EXCEPT !.rest = r] EXCEPT !.word = x, !.open = TRUE]
  BY <1>8
<1> HIDE DEF w, x
<1>11. At(w, r, None, TRUE, x, words, op, read)
  BY <1>3, <1>9, <1>10 DEF At, ShellStates, Texts
<1> QED
  BY <1>9, <1>11 DEF w

\* An operator ends the command before it.
LEMMA OperatorIsRead ==
    ASSUME NEW C, Texts = Seq(C), NEW o \in Operators, NEW r \in Seq(C),
           NEW words \in Seq(Texts), words # <<>>, NEW op, NEW read,
           NEW v, At(v, o \o (Space \o r), None, FALSE, None, words, op, read)
    PROVE  At(ShellRound[v], Space \o r, None, FALSE, None, <<>>, o,
              Append(read, Segment(words[1], Tail(words), op)))
<1> DEFINE t    == Space \o r
           s    == o \o t
           two  == IF Len(s) = 1 THEN None ELSE SubSeq(s, 1, 2)
           done == Append(read, Segment(words[1], Tail(words), op))
           w    == ShellRound[v]
<1>1. /\ Space \in Seq(C) /\ Len(Space) = 1 /\ Bar \in Seq(C) /\ Len(Bar) = 1
      /\ Ampersand \in Seq(C) /\ Len(Ampersand) = 1 /\ Len(None) = 0
  BY LiteralTexts
<1>2. Bar \notin {Quote, DoubleQuote, Space} /\ Ampersand \notin {Quote, DoubleQuote, Space}
  BY SpecialsDiffer
<1>3. t \in Seq(C) /\ Len(t) = Len(r) + 1
  BY <1>1, FirstOfText
<1>4. /\ v \in ShellStates /\ v.rest = s /\ v.quote = None /\ v.open = FALSE
      /\ v.words = words /\ v.op = op /\ v.read = read /\ v.ok = TRUE
  BY DEF At
<1> HIDE DEF t
<1>5. ASSUME NEW from \in Texts, from = t, w = [EndCommand([v EXCEPT !.rest = from]) EXCEPT !.op = o]
      PROVE  At(w, t, None, FALSE, None, <<>>, o, done)
  <2> DEFINE u == EndCommand([v EXCEPT !.rest = from])
  <2>1. /\ u \in ShellStates
        /\ u.rest = from /\ u.quote = None /\ u.open = FALSE /\ u.word = None
        /\ u.words = <<>> /\ u.ok = TRUE /\ u.read = done
    BY <1>4, EndCommandAt
  <2> HIDE DEF u, done, w
  <2>2. w = [u EXCEPT !.op = o]
    BY <1>5 DEF u
  <2> QED
    BY <1>5, <2>1, <2>2 DEF At, ShellStates
<1>6. CASE o = Bar
  <2>1. s \in Seq(C) /\ Len(s) = Len(t) + 1 /\ Char(s, 1) = Bar /\ From(s, 2) = t
    BY <1>1, <1>3, <1>6, FirstOfText
  <2>2. SubSeq(s, 1, 2) = Bar \o Space /\ Len(s) = Len(r) + 2
    <3>1. s = Bar \o (Space \o r)
      BY <1>6 DEF t
    <3>2. StartsWithTwo(C, Bar \o (Space \o r), Bar, Space, r)
      <4> HIDE DEF s
      <4> QED
        BY <1>1, FirstTwoOfText
    <3> HIDE DEF s
    <3> QED
      BY <3>1, <3>2 DEF StartsWithTwo
  <2> HIDE DEF s
  <2>3. Len(s) # 1 /\ Len(s) # 0
    <3>1. Len(r) \in Nat
      OBVIOUS
    <3> QED
      BY <2>2, <3>1
  <2>4. two = Bar \o Space
    BY <2>2, <2>3
  <2>5. two \notin Operators
    <3> SUFFICES ASSUME two \in Operators PROVE FALSE
      OBVIOUS
    <3>1. two \in Seq(C) /\ Len(two) = 2
      <4>1. Bar \o Space \in Seq(C) /\ Len(Bar \o Space) = Len(Space) + 1
        BY <1>1, FirstOfText
      <4>2. Len(Bar \o Space) = 2
        BY <1>1, <4>1
      <4> DEFINE u == Bar \o Space
      <4>3. u \in Seq(C) /\ Len(u) = 2 /\ two = u
        BY <2>4, <4>1, <4>2
      <4> HIDE DEF two, u
      <4> QED
        BY <4>3
    <3> HIDE DEF two
    <3>2. two # Bar
      BY <3>1, LongerThanBar
    <3>3. PICK x \in {Bar, Ampersand} : two = x \o x
      BY <3>2, OperatorsAre
    <3>4. x \in Seq(C) /\ Len(x) = 1 /\ Bar \o Space = x \o x
      BY <1>1, <2>4, <3>3
    <3>5. Bar = x /\ Space = x
      BY <1>1, <3>4, TwoCharacters
    <3> QED
      BY <3>5, SpecialsDiffer
  <2>6. PlainRound(v, Bar, t, two)
    <3>1. v.rest # None /\ Char(v.rest, 1) = Bar /\ From(v.rest, 2) = t
          /\ two = IF Len(v.rest) = 1 THEN None ELSE SubSeq(v.rest, 1, 2)
      BY <1>1, <1>4, <2>1, <2>3
    <3> HIDE DEF two
    <3> QED
      BY <1>2, <1>4, <3>1, PlainRoundIs
  <2> HIDE DEF two
  <2>7. w = [EndCommand([v EXCEPT !.rest = t]) EXCEPT !.op = o]
    BY <1>6, <2>5, <2>6 DEF PlainRound
  <2> HIDE DEF w, done
  <2> QED
    BY <1>3, <1>5, <2>7 DEF t, w, done
<1>7. CASE o # Bar
  <2>1. PICK x \in {Bar, Ampersand} : o = x \o x
    BY <1>7, OperatorsAre
  <2>2. x \in Seq(C) /\ Len(x) = 1 /\ x \notin {Quote, DoubleQuote, Space}
    BY <1>1, <1>2, <2>1
  <2>3. s = x \o (x \o t)
    <3>1. (x \o x) \o t = x \o (x \o t)
      <4> HIDE DEF s, two
      <4>1. t \in Seq(C)
        BY <1>3
      <4>2. x \in Seq(C)
        BY <2>2
      <4> QED
        BY <4>1, <4>2, JoinedTexts, SMTT(30)
    <3> QED
      BY <2>1, <3>1
  <2>4. SubSeq(s, 1, 2) = o /\ From(s, 3) = t /\ Len(s) = Len(t) + 2
    <3>1. StartsWithTwo(C, x \o (x \o t), x, x, t)
      <4>1. t \in Seq(C)
        BY <1>3
      <4>2. x \in Seq(C) /\ Len(x) = 1
        BY <2>2
      <4> QED
        BY <4>1, <4>2, FirstTwoOfText
    <3> HIDE DEF s
    <3> QED
      BY <2>1, <2>3, <3>1 DEF StartsWithTwo
  <2>5. Char(s, 1) = x
    <3>1. x \o t \in Seq(C)
      BY <1>3, <2>2, JoinedTexts
    <3>2. Char(x \o (x \o t), 1) = x
      BY <2>2, <3>1, FirstOfText
    <3> HIDE DEF s
    <3> QED
      BY <2>3, <3>2
  <2> HIDE DEF s
  <2>6. Len(s) # 1 /\ Len(s) # 0
    <3>1. Len(t) \in Nat
      BY <1>3
    <3> QED
      BY <2>4, <3>1
  <2>7. two = o
    BY <2>4, <2>6
  <2>8. PlainRound(v, x, From(s, 2), two)
    <3>1. v.rest # None /\ Char(v.rest, 1) = x /\ From(v.rest, 2) = From(s, 2)
          /\ two = IF Len(v.rest) = 1 THEN None ELSE SubSeq(v.rest, 1, 2)
      BY <1>1, <1>4, <2>5, <2>6
    <3> HIDE DEF two
    <3> QED
      BY <1>4, <2>2, <3>1, PlainRoundIs
  <2> HIDE DEF two
  <2>9. w = [EndCommand([v EXCEPT !.rest = t]) EXCEPT !.op = o]
    BY <1>4, <2>4, <2>7, <2>8 DEF PlainRound
  <2> HIDE DEF w, done
  <2> QED
    BY <1>3, <1>5, <2>9 DEF t, w, done
<1> QED
  BY <1>6, <1>7 DEF t

\* Every round leads to a state of the shell.
LEMMA RoundKeepsStates == ASSUME NEW C, Texts = Seq(C) PROVE ShellRound \in [ShellStates -> ShellStates]
<1> SUFFICES ASSUME NEW v \in ShellStates PROVE ShellRound[v] \in ShellStates
  BY DEF ShellRound
<1>1. CASE v.rest = None
  BY <1>1 DEF ShellRound
<1>2. CASE v.rest # None
  <2> DEFINE c == Char(v.rest, 1)
             r == From(v.rest, 2)
             two == IF Len(v.rest) = 1 THEN None ELSE SubSeq(v.rest, 1, 2)
             w == ShellRound[v]
             x == v.word \o c
  <2>1. v.rest \in Seq(C) /\ v.word \in Seq(C)
    BY DEF ShellStates, Texts
  <2>2. c \in Seq(C) /\ r \in Seq(C) /\ From(v.rest, 3) \in Seq(C)
    <3>1. Len(v.rest) # 0
      BY <1>2, <2>1, LiteralTexts, NoText
    <3>2. c \in Seq(C)
      BY <2>1, <3>1, CharByChar
    <3>3. \A i \in {2, 3} : From(v.rest, i) \in Seq(C)
      BY <2>1 DEF From
    <3> QED
      BY <3>2, <3>3
  <2>3. x \in Texts
    BY <2>1, <2>2, JoinedTexts
  <2>4. Stuck(v) \in ShellStates
    <3>1. None \in Texts
      BY LiteralTexts
    <3> QED
      BY <3>1 DEF Stuck, ShellStates, Texts
  <2>5. RoundOn(v, c, r)
    BY <1>2, RoundIs
  <2>6. v.quote = None /\ c \notin {Quote, DoubleQuote, Space} => PlainRound(v, c, r, two)
    BY <1>2, PlainRoundIs
  <2>7. v.quote \in {None, Quote, DoubleQuote} /\ None \in Texts
    BY LiteralTexts DEF ShellStates
  <2>8. r \in Texts /\ From(v.rest, 3) \in Texts
    BY <2>2
  <2> HIDE DEF c, r, two, x, w
  <2>9. ASSUME NEW q \in {None, Quote, DoubleQuote}
        PROVE  /\ [[v EXCEPT !.rest = r] EXCEPT !.quote = q] \in ShellStates
               /\ [[v EXCEPT !.rest = r] EXCEPT !.quote = q, !.open = TRUE] \in ShellStates
    BY <2>8 DEF ShellStates, Texts
  <2>10. /\ [[v EXCEPT !.rest = r] EXCEPT !.word = x] \in ShellStates
         /\ [[v EXCEPT !.rest = r] EXCEPT !.word = x, !.open = TRUE] \in ShellStates
    BY <2>3, <2>8 DEF ShellStates, Texts
  <2>11. EndWord([v EXCEPT !.rest = r]) \in ShellStates
    BY <2>8, EndWordAt
  <2>12. ASSUME NEW from \in Texts, NEW op \in Operators
         PROVE  [EndCommand([v EXCEPT !.rest = from]) EXCEPT !.op = op] \in ShellStates
    <3> DEFINE u == EndCommand([v EXCEPT !.rest = from])
    <3>1. u \in ShellStates
      BY EndCommandAt
    <3> HIDE DEF u
    <3>2. [u EXCEPT !.op = op] \in ShellStates
      BY <3>1 DEF ShellStates
    <3> QED
      BY <3>2 DEF u
  <2>13. CASE v.quote # None
    <3> DEFINE stuck == Stuck(v)
    <3>1. v.quote = DoubleQuote /\ c \in Expanding /\ c # v.quote => w = stuck
      BY <1>2, <2>13 DEF ShellRound, Expanding, w, c
    <3> HIDE DEF stuck
    <3>2. stuck \in ShellStates
      BY <2>4 DEF stuck
    <3>3. c = v.quote => w \in ShellStates
      BY <2>5, <2>9, <2>13 DEF RoundOn, w
    <3>4. c # v.quote /\ ~ (v.quote = DoubleQuote /\ c \in Expanding) => w \in ShellStates
      BY <2>5, <2>10, <2>13 DEF RoundOn, w, x
    <3> QED
      BY <3>1, <3>2, <3>3, <3>4 DEF w
  <2>14. CASE v.quote = None /\ c \in {Quote, DoubleQuote}
    BY <2>5, <2>9, <2>14 DEF RoundOn, w
  <2>15. CASE v.quote = None /\ c = Space
    BY <2>5, <2>11, <2>15, SpecialsDiffer DEF RoundOn, w
  <2>16. CASE v.quote = None /\ c \notin {Quote, DoubleQuote, Space}
    <3>1. PlainRound(v, c, r, two)
      BY <2>6, <2>16
    <3> QED
      BY <2>4, <2>8, <2>10, <2>12, <3>1 DEF PlainRound, w, x
  <2> QED
    BY <2>7, <2>13, <2>14, <2>15, <2>16
<1> QED
  BY <1>1, <1>2

-----------------------------------------------------------------------------
(* The shell reads back each word, command and pipeline                    *)

\* V holds the states that the shell goes through: with each the one after it.
Closed(V) == \A v \in V : ShellRound[v] \in V
Reached(V, rest, quote, open, word, words, op, read) ==
    \E v \in V : At(v, rest, quote, open, word, words, op, read)

Leads(V, ch, r, quote, open, word, words, op, read) ==
    /\ quote # None /\ ch = quote => Reached(V, r, None, open, word, words, op, read)
    /\ quote = Quote /\ ch # Quote => Reached(V, r, quote, open, word \o ch, words, op, read)
    /\ quote = DoubleQuote /\ ch = Quote => Reached(V, r, quote, open, word \o ch, words, op, read)
    /\ quote = None /\ ch \in {Quote, DoubleQuote} => Reached(V, r, ch, TRUE, word, words, op, read)
    /\ quote = None /\ ch = Space /\ open =>
           Reached(V, r, None, FALSE, None, Append(words, word), op, read)
    /\ quote = None /\ ch = Space /\ ~ open => Reached(V, r, None, FALSE, None, words, op, read)
    /\ quote = None /\ ch \in SafeShellChars =>
           Reached(V, r, None, TRUE, word \o ch, words, op, read)

LEMMA Onward ==
    ASSUME NEW C, Texts = Seq(C), NEW V, Closed(V),
           NEW ch \in Seq(C), Len(ch) = 1, NEW r \in Seq(C),
           NEW quote, NEW open, NEW word, NEW words, NEW op, NEW read,
           Reached(V, ch \o r, quote, open, word, words, op, read)
    PROVE  Leads(V, ch, r, quote, open, word, words, op, read)
<1>1. PICK v \in V : At(v, ch \o r, quote, open, word, words, op, read)
  BY DEF Reached
<1> DEFINE w == ShellRound[v]
<1>2. w \in V
  BY DEF Closed
<1>3. CharacterLeads(w, ch, r, quote, open, word, words, op, read)
  BY <1>1, CharacterIsRead
<1>4. quote = None /\ ch \in SafeShellChars => At(w, r, None, TRUE, word \o ch, words, op, read)
  <2> SUFFICES ASSUME quote = None, ch \in SafeShellChars
               PROVE  At(w, r, None, TRUE, word \o ch, words, op, read)
    OBVIOUS
  <2> QED
    BY <1>1, SafeCharacterIsRead
<1> HIDE DEF w
<1> QED
  BY <1>2, <1>3, <1>4 DEF Reached, Leads, CharacterLeads

\* A word of safe characters.
LEMMA SafeWordIsRead ==
    ASSUME NEW C, Texts = Seq(C), NEW V, Closed(V),
           NEW token \in Seq(C), token # None, isSafeShellToken(token), NEW r \in Seq(C),
           NEW words, NEW op, NEW read,
           Reached(V, token \o r, None, FALSE, None, words, op, read)
    PROVE  Reached(V, r, None, TRUE, token, words, op, read)
<1> DEFINE n == Len(token)
           front(k) == SubSeq(token, 1, k)
           back(k) == From(token, k + 1)
           Here(k, open) == Reached(V, back(k) \o r, None, open, front(k), words, op, read)
           S == {k \in Nat : k <= n => \E open : Here(k, open) /\ (k # 0 => open = TRUE)}
<1>1. n \in Nat /\ n # 0
  <2>1. None \in Seq(C) /\ Len(None) = 0
    BY LiteralTexts
  <2> QED
    BY <2>1, NoText
<1>2. /\ back(0) = token /\ front(n) = token
      /\ back(n) \o r = r /\ front(0) = None
  <2>1. /\ From(token, 1) = token /\ SubSeq(token, 1, Len(token)) = token
        /\ From(token, Len(token) + 1) \in Seq(C) /\ Len(From(token, Len(token) + 1)) = 0
        /\ SubSeq(token, 1, 0) \in Seq(C) /\ Len(SubSeq(token, 1, 0)) = 0
    BY WholeText
  <2>2. From(token, Len(token) + 1) \o r = r
    BY <2>1, NoText
  <2>3. SubSeq(token, 1, 0) = None
    BY <2>1, LiteralTexts, NoText
  <2> QED
    BY <2>1, <2>2, <2>3
<1>3. 0 \in S
  BY <1>2
<1>4. ASSUME NEW k \in Nat, k \in S PROVE k + 1 \in S
  <2> SUFFICES ASSUME k + 1 <= n
               PROVE  Here(k + 1, TRUE)
    <3>1. Here(k + 1, TRUE) => \E open : Here(k + 1, open) /\ (k + 1 # 0 => open = TRUE)
      <4> HIDE DEF Here
      <4> QED
        OBVIOUS
    <3>2. k + 1 \in Nat
      OBVIOUS
    <3> HIDE DEF Here, n
    <3> QED
      BY <3>1, <3>2
  <2> DEFINE c == Char(token, k + 1)
  <2>1. k + 1 \in 1..n /\ k + 1 - 1 = k
    BY <1>1
  <2>2. /\ c \in Seq(C) /\ Len(c) = 1 /\ front(k) \in Seq(C) /\ front(k + 1) = front(k) \o c
        /\ back(k + 1) \in Seq(C) /\ back(k) = c \o back(k + 1)
    <3>1. /\ Char(token, k + 1) \in Seq(C) /\ Len(Char(token, k + 1)) = 1
          /\ SubSeq(token, 1, k + 1) \in Seq(C) /\ SubSeq(token, 1, k + 1 - 1) \in Seq(C)
          /\ SubSeq(token, 1, k + 1) = SubSeq(token, 1, k + 1 - 1) \o Char(token, k + 1)
          /\ From(token, k + 1 + 1) \in Seq(C)
          /\ From(token, k + 1) = Char(token, k + 1) \o From(token, k + 1 + 1)
      <4> DEFINE i == k + 1
      <4>1. i \in 1..Len(token)
        BY <2>1
      <4> HIDE DEF i
      <4>2. /\ Char(token, i) \in Seq(C) /\ Len(Char(token, i)) = 1
            /\ SubSeq(token, 1, i) \in Seq(C) /\ SubSeq(token, 1, i - 1) \in Seq(C)
            /\ SubSeq(token, 1, i) = SubSeq(token, 1, i - 1) \o Char(token, i)
            /\ From(token, i + 1) \in Seq(C)
            /\ From(token, i) = Char(token, i) \o From(token, i + 1)
        BY <4>1, CharByChar
      <4> QED
        BY <4>2 DEF i
    <3> QED
      BY <2>1, <3>1
  <2>3. c \in SafeShellChars
    BY <2>1 DEF isSafeShellToken, CharsOf
  <2>4. PICK open : Here(k, open)
    <3> HIDE DEF Here
    <3> QED
      BY <1>1, <1>4
  <2> HIDE DEF c, front, back, S
  <2>5. back(k) \o r = c \o (back(k + 1) \o r) /\ back(k + 1) \o r \in Seq(C)
    <3> DEFINE b == back(k + 1)
    <3>1. b \in Seq(C) /\ c \in Seq(C)
      BY <2>2
    <3> HIDE DEF b
    <3>2. b \o r \in Seq(C) /\ (c \o b) \o r = c \o (b \o r)
      BY <3>1, JoinedTexts, SMTT(30)
    <3> QED
      BY <2>2, <3>2 DEF b
  <2>6. Reached(V, back(k + 1) \o r, None, TRUE, front(k) \o c, words, op, read)
    <3> DEFINE t == back(k + 1) \o r
    <3>1. t \in Seq(C) /\ Reached(V, c \o t, None, open, front(k), words, op, read)
      BY <2>4, <2>5
    <3> HIDE DEF t
    <3>2. Leads(V, c, t, None, open, front(k), words, op, read)
      <4>1. c \in Seq(C) /\ Len(c) = 1
        BY <2>2
      <4> QED
        BY <3>1, <4>1, Onward
    <3>3. Reached(V, t, None, TRUE, front(k) \o c, words, op, read)
      BY <2>3, <3>2 DEF Leads
    <3> QED
      BY <3>3 DEF t
  <2> QED
    BY <2>2, <2>6
<1>5. Nat \subseteq S
  <2> HIDE DEF S
  <2> QED
    BY <1>3, <1>4, Induction
<1>6. PICK open : Here(n, open) /\ open = TRUE
  <2> HIDE DEF Here
  <2> QED
    BY <1>1, <1>5
<1>7. Here(n, TRUE)
  BY <1>6
<1> QED
  BY <1>2, <1>7

LEMMA EscapedIsText ==
    ASSUME NEW C, Texts = Seq(C), NEW t \in Seq(C)
    PROVE  /\ Escaped \in Seq(C)
           /\ Escaped \o t = Quote \o (DoubleQuote \o (Quote \o (DoubleQuote \o (Quote \o t))))
<1>1. Quote \in Seq(C) /\ DoubleQuote \in Seq(C)
  BY LiteralTexts
<1> DEFINE d == DoubleQuote \o Quote
           e == Quote \o d
           f == DoubleQuote \o e
<1>2. Grouped3(C, DoubleQuote, Quote, t)
  BY <1>1, Regrouped
<1>3. d \in Seq(C)
  BY <1>2 DEF Grouped3
<1> HIDE DEF d
<1>4. Grouped3(C, Quote, d, t)
  BY <1>1, <1>3, Regrouped
<1>5. e \in Seq(C)
  BY <1>4 DEF Grouped3
<1> HIDE DEF e
<1>6. Grouped3(C, DoubleQuote, e, t)
  BY <1>1, <1>5, Regrouped
<1>7. f \in Seq(C)
  BY <1>6 DEF Grouped3
<1> HIDE DEF f
<1>8. Grouped3(C, Quote, f, t)
  BY <1>1, <1>7, Regrouped
<1>9. Escaped = Quote \o f
  BY LiteralsAreTexts DEF d, e, f
<1>10. /\ Escaped \in Seq(C) /\ Escaped \o t = Quote \o (f \o t)
       /\ f \o t = DoubleQuote \o (e \o t) /\ e \o t = Quote \o (d \o t)
       /\ d \o t = DoubleQuote \o (Quote \o t)
  BY <1>2, <1>4, <1>6, <1>8, <1>9 DEF Grouped3, d, e, f
<1> QED
  BY <1>10

\* A quote inside a word.
LEMMA EscapedQuoteIsRead ==
    ASSUME NEW C, Texts = Seq(C), NEW V, Closed(V), NEW t \in Seq(C),
           NEW open, open = TRUE, NEW word, NEW words, NEW op, NEW read,
           Reached(V, Escaped \o t, Quote, open, word, words, op, read)
    PROVE  Reached(V, t, Quote, TRUE, word \o Quote, words, op, read)
<1>1. /\ Quote \in Seq(C) /\ Len(Quote) = 1 /\ DoubleQuote \in Seq(C) /\ Len(DoubleQuote) = 1
  BY LiteralTexts
<1>2. None # Quote /\ None # DoubleQuote /\ Quote # DoubleQuote
  BY SpecialsDiffer, LiteralTexts
<1> DEFINE d == Quote \o t
           e == DoubleQuote \o d
           f == Quote \o e
           g == DoubleQuote \o f
<1>3. d \in Seq(C)
  BY <1>1, JoinedTexts
<1> HIDE DEF d
<1>4. e \in Seq(C)
  BY <1>1, <1>3, JoinedTexts
<1> HIDE DEF e
<1>5. f \in Seq(C)
  BY <1>1, <1>4, JoinedTexts
<1> HIDE DEF f
<1>6. g \in Seq(C)
  BY <1>1, <1>5, JoinedTexts
<1> HIDE DEF g
<1>7. Reached(V, Quote \o g, Quote, open, word, words, op, read)
  <2>1. Escaped \o t = Quote \o g
    BY EscapedIsText DEF d, e, f, g
  <2> QED
    BY <2>1
<1>8. Reached(V, g, None, open, word, words, op, read)
  <2>1. Leads(V, Quote, g, Quote, open, word, words, op, read)
    BY <1>1, <1>6, <1>7, Onward
  <2> QED
    BY <1>2, <2>1 DEF Leads
<1>9. Reached(V, f, DoubleQuote, TRUE, word, words, op, read)
  <2>1. Leads(V, DoubleQuote, f, None, open, word, words, op, read)
    BY <1>1, <1>5, <1>8, Onward DEF g
  <2> QED
    BY <1>2, <2>1 DEF Leads
<1>10. Reached(V, e, DoubleQuote, TRUE, word \o Quote, words, op, read)
  <2>1. Leads(V, Quote, e, DoubleQuote, TRUE, word, words, op, read)
    BY <1>1, <1>4, <1>9, Onward DEF f
  <2> QED
    BY <1>2, <2>1 DEF Leads
<1>11. Reached(V, d, None, TRUE, word \o Quote, words, op, read)
  <2>1. Leads(V, DoubleQuote, d, DoubleQuote, TRUE, word \o Quote, words, op, read)
    BY <1>1, <1>3, <1>10, Onward DEF e
  <2> QED
    BY <1>2, <2>1 DEF Leads
<1>12. Reached(V, t, Quote, TRUE, word \o Quote, words, op, read)
  <2>1. Leads(V, Quote, t, None, TRUE, word \o Quote, words, op, read)
    BY <1>1, <1>11, Onward DEF d
  <2> QED
    BY <1>2, <2>1 DEF Leads
<1> QED
  BY <1>12

LEMMA QuotedWordIsRead ==
    ASSUME NEW C, Texts = Seq(C), NEW V, Closed(V), NEW token \in Seq(C), NEW r \in Seq(C),
           NEW words, NEW op, NEW read,
           Reached(V, (Quote \o ReplaceAll(token, Quote, Escaped) \o Quote) \o r,
                   None, FALSE, None, words, op, read)
    PROVE  Reached(V, r, None, TRUE, token, words, op, read)
<1> DEFINE n == Len(token)
           tail == Quote \o r
<1>1. /\ None \in Seq(C) /\ Quote \in Seq(C) /\ Len(Quote) = 1 /\ Escaped \in Seq(C)
      /\ None # Quote /\ n \in Nat
  BY LiteralTexts, EscapedIsText, SpecialsDiffer
<1>2. PICK part \in [1..(n + 1) -> Seq(C)] :
         /\ part[1] = ReplaceAll(token, Quote, Escaped) /\ part[n + 1] = None
         /\ \A j \in 1..n : part[j] = Replaced(token, Quote, Escaped, j) \o part[j + 1]
  <2>1. HasReplacedParts(C, token, Quote, Escaped)
    <3>1. None \in Seq(C) /\ Escaped \in Seq(C)
      BY <1>1
    <3> HIDE DEF n, tail
    <3> QED
      BY <3>1, ReplacedParts
  <2> QED
    BY <2>1 DEF HasReplacedParts
<1>3. tail \in Seq(C)
  BY <1>1, JoinedTexts
<1>4. (Quote \o part[1] \o Quote) \o r = Quote \o (part[1] \o tail) /\ part[1] \o tail \in Seq(C)
  <2> DEFINE p == part[1]
  <2>1. p \in Seq(C)
    <3>1. 1 \in 1..(n + 1)
      BY <1>1
    <3> HIDE DEF n
    <3> QED
      BY <1>2, <3>1
  <2> HIDE DEF p, tail
  <2>2. Grouped3(C, Quote, p, tail)
    BY <1>1, <1>3, <2>1, Regrouped
  <2>3. Quote \o p \in Seq(C)
    BY <2>2 DEF Grouped3
  <2>4. Grouped3(C, Quote \o p, Quote, r)
    BY <1>1, <2>3, Regrouped
  <2>5. ((Quote \o p) \o Quote) \o r = (Quote \o p) \o (Quote \o r)
    BY <2>4 DEF Grouped3
  <2>6. (Quote \o p) \o tail = Quote \o (p \o tail) /\ p \o tail \in Seq(C)
    BY <2>2 DEF Grouped3
  <2> QED
    BY <2>5, <2>6 DEF p, tail
<1>5. Reached(V, part[1] \o tail, Quote, TRUE, None, words, op, read)
  <2> DEFINE t == part[1] \o tail
  <2>1. t \in Seq(C) /\ Reached(V, Quote \o t, None, FALSE, None, words, op, read)
    BY <1>2, <1>4
  <2> HIDE DEF t
  <2>2. Leads(V, Quote, t, None, FALSE, None, words, op, read)
    BY <1>1, <2>1, Onward
  <2>3. Reached(V, t, Quote, TRUE, None, words, op, read)
    BY <1>1, <2>2 DEF Leads
  <2> QED
    BY <2>3 DEF t
<1> HIDE DEF tail
<1> DEFINE front(k) == SubSeq(token, 1, k)
           Here(k) == Reached(V, part[k + 1] \o tail, Quote, TRUE, front(k), words, op, read)
           S == {k \in Nat : k <= n => Here(k)}
<1>6. 0 \in S
  <2>1. SubSeq(token, 1, 0) \in Seq(C) /\ Len(SubSeq(token, 1, 0)) = 0
    BY WholeText
  <2>2. front(0) = None
    BY <2>1, LiteralTexts, NoText
  <2>3. 0 + 1 = 1
    OBVIOUS
  <2> HIDE DEF front
  <2> QED
    BY <1>5, <2>2, <2>3
<1>7. ASSUME NEW k \in Nat, k \in S PROVE k + 1 \in S
  <2>1. ASSUME k + 1 <= n PROVE Here(k + 1)
    <3> DEFINE j == k + 1
               c == Char(token, j)
               t == part[j + 1] \o tail
    <3>1. j \in 1..n /\ j - 1 = k /\ j + 1 \in 1..(n + 1)
      BY <1>1, <2>1
    <3>2. Here(k)
      <4> HIDE DEF Here
      <4> QED
        BY <1>1, <1>7, <2>1
    <3> HIDE DEF j
    <3>3. /\ c \in Seq(C) /\ Len(c) = 1 /\ front(k) \in Seq(C) /\ front(j) = front(k) \o c
      <4>1. /\ Char(token, j) \in Seq(C) /\ Len(Char(token, j)) = 1
            /\ SubSeq(token, 1, j) \in Seq(C) /\ SubSeq(token, 1, j - 1) \in Seq(C)
            /\ SubSeq(token, 1, j) = SubSeq(token, 1, j - 1) \o Char(token, j)
        BY <3>1, CharByChar
      <4> QED
        BY <3>1, <4>1
    <3>4. part[j + 1] \in Seq(C) /\ part[j] = (IF c = Quote THEN Escaped ELSE c) \o part[j + 1]
      BY <1>2, <3>1 DEF Replaced
    <3>5. t \in Seq(C)
      BY <1>3, <3>4, JoinedTexts
    <3>6. Reached(V, part[j] \o tail, Quote, TRUE, front(k), words, op, read)
      BY <3>2 DEF j
    <3> HIDE DEF c, front, Here, S
    <3>7. part[j] \o tail = (IF c = Quote THEN Escaped ELSE c) \o t
      <4> DEFINE e == IF c = Quote THEN Escaped ELSE c
                 p == part[j + 1]
      <4>1. e \in Seq(C) /\ p \in Seq(C)
        BY <1>1, <3>3, <3>4
      <4> HIDE DEF e, p
      <4>2. Grouped3(C, e, p, tail)
        BY <1>3, <4>1, Regrouped
      <4> QED
        BY <3>4, <4>2 DEF e, p, t, Grouped3
    <3> HIDE DEF t
    <3>8. Reached(V, t, Quote, TRUE, front(j), words, op, read)
      <4>1. CASE c = Quote
        <5>1. Reached(V, Escaped \o t, Quote, TRUE, front(k), words, op, read)
          BY <3>6, <3>7, <4>1
        <5>2. Reached(V, t, Quote, TRUE, front(k) \o Quote, words, op, read)
          BY <3>5, <5>1, EscapedQuoteIsRead
        <5> QED
          BY <3>3, <4>1, <5>2
      <4>2. CASE c # Quote
        <5>1. Reached(V, c \o t, Quote, TRUE, front(k), words, op, read)
          BY <3>6, <3>7, <4>2
        <5>2. Leads(V, c, t, Quote, TRUE, front(k), words, op, read)
          BY <3>3, <3>5, <5>1, Onward
        <5>3. Reached(V, t, Quote, TRUE, front(k) \o c, words, op, read)
          BY <4>2, <5>2 DEF Leads
        <5> QED
          BY <3>3, <5>3
      <4> QED
        BY <4>1, <4>2
    <3> QED
      BY <3>8 DEF t, j, Here
  <2> HIDE DEF Here, n
  <2> QED
    BY <2>1
<1>8. Nat \subseteq S
  <2> HIDE DEF S
  <2> QED
    BY <1>6, <1>7, Induction
<1>9. Here(n)
  <2> HIDE DEF Here
  <2> QED
    BY <1>1, <1>8
<1>10. front(n) = token /\ part[n + 1] \o tail = tail
  <2>1. SubSeq(token, 1, Len(token)) = token
    BY WholeText
  <2>2. None \o tail = tail
    BY <1>3, LiteralTexts, NoText
  <2> QED
    BY <1>2, <2>1, <2>2
<1>11. Reached(V, Quote \o r, Quote, TRUE, token, words, op, read)
  <2> HIDE DEF front, n
  <2> QED
    BY <1>9, <1>10 DEF tail
<1>12. Leads(V, Quote, r, Quote, TRUE, token, words, op, read)
  BY <1>1, <1>11, Onward
<1> QED
  BY <1>1, <1>12 DEF Leads

LEMMA WordIsRead ==
    ASSUME NEW C, Texts = Seq(C), NEW V, Closed(V), NEW token \in Seq(C), NEW r \in Seq(C),
           NEW words, NEW op, NEW read,
           Reached(V, ShellQuote(token) \o r, None, FALSE, None, words, op, read)
    PROVE  Reached(V, r, None, TRUE, token, words, op, read)
<1>1. CASE token # None /\ isSafeShellToken(token)
  <2>1. ShellQuote(token) = token
    BY <1>1 DEF ShellQuote
  <2> QED
    BY <1>1, <2>1, SafeWordIsRead
<1>2. CASE ~ (token # None /\ isSafeShellToken(token))
  <2>1. ShellQuote(token) = Quote \o ReplaceAll(token, Quote, Escaped) \o Quote
    BY <1>2 DEF ShellQuote
  <2>2. Reached(V, (Quote \o ReplaceAll(token, Quote, Escaped) \o Quote) \o r,
                None, FALSE, None, words, op, read)
    BY <2>1
  <2> QED
    BY <2>2, QuotedWordIsRead
<1> QED
  BY <1>1, <1>2

LEMMA QuotedIsText ==
    ASSUME NEW C, Texts = Seq(C), NEW token \in Seq(C)
    PROVE  ShellQuote(token) \in Seq(C)
<1>1. None \in Seq(C) /\ Quote \in Seq(C) /\ Escaped \in Seq(C)
  BY LiteralTexts, EscapedIsText
<1> DEFINE p == ReplaceAll(token, Quote, Escaped)
<1>2. p \in Seq(C)
  <2>1. HasReplacedParts(C, token, Quote, Escaped)
    BY <1>1, ReplacedParts
  <2>2. PICK part \in [1..(Len(token) + 1) -> Seq(C)] : part[1] = p
    BY <2>1 DEF HasReplacedParts
  <2>3. 1 \in 1..(Len(token) + 1)
    OBVIOUS
  <2> QED
    BY <2>2, <2>3
<1> HIDE DEF p
<1>3. Quote \o p \in Seq(C)
  BY <1>1, <1>2, JoinedTexts
<1>4. (Quote \o p) \o Quote \in Seq(C)
  BY <1>1, <1>3, JoinedTexts
<1> QED
  BY <1>4 DEF ShellQuote, p

LEMMA OneMore ==
    ASSUME NEW X, NEW s \in Seq(X), NEW j \in 1..Len(s)
    PROVE  Append(SubSeq(s, 1, j - 1), s[j]) = SubSeq(s, 1, j)
<1> DEFINE b == SubSeq(s, 1, j - 1)
           u == SubSeq(s, 1, j)
           a == Append(b, s[j])
<1>1. b \in Seq(X) /\ Len(b) = j - 1 /\ \A i \in 1..(j - 1) : b[i] = s[i]
  OBVIOUS
<1>2. u \in Seq(X) /\ Len(u) = j /\ \A i \in 1..j : u[i] = s[i]
  OBVIOUS
<1>3. s[j] \in X
  OBVIOUS
<1> HIDE DEF b, u
<1>4. a \in Seq(X) /\ Len(a) = j
  BY <1>1, <1>3
<1>5. ASSUME NEW i \in 1..j PROVE a[i] = s[i]
  <2>1. CASE i = j
    BY <1>1, <1>3, <2>1
  <2>2. CASE i # j
    <3>1. i \in 1..Len(b)
      BY <1>1, <2>2
    <3> QED
      BY <1>1, <1>3, <3>1
  <2> QED
    BY <2>1, <2>2
<1> HIDE DEF a
<1>6. a = u
  BY <1>2, <1>4, <1>5, SameTexts
<1> QED
  BY <1>6 DEF a, b, u

\* The words of a command, each in quotes where it needs them.
LEMMA WordsAreRead ==
    ASSUME NEW C, Texts = Seq(C), NEW V, Closed(V), NEW ws \in Seq(Texts), ws # <<>>,
           NEW r \in Seq(C), NEW op, NEW read,
           Reached(V, Join([i \in 1..Len(ws) |-> ShellQuote(ws[i])], Space) \o r,
                   None, FALSE, None, <<>>, op, read)
    PROVE  Reached(V, r, None, TRUE, ws[Len(ws)], SubSeq(ws, 1, Len(ws) - 1), op, read)
<1> DEFINE n == Len(ws)
           qs == [i \in 1..n |-> ShellQuote(ws[i])]
<1>1. n \in Nat \ {0} /\ \A i \in 1..n : ws[i] \in Seq(C)
  OBVIOUS
<1>2. qs \in Seq(Seq(C)) /\ Len(qs) = n /\ qs # <<>> /\ \A i \in 1..n : qs[i] = ShellQuote(ws[i])
  <2>1. \A i \in 1..n : ShellQuote(ws[i]) \in Seq(C)
    BY <1>1, QuotedIsText
  <2> DEFINE X == Seq(C)
  <2>2. \A i \in 1..n : qs[i] = ShellQuote(ws[i]) /\ qs[i] \in X
    BY <2>1
  <2>3. qs \in [1..n -> X]
    BY <2>1
  <2> HIDE DEF n, qs, X
  <2>4. qs \in Seq(X) /\ Len(qs) = n
    BY <1>1, <2>3
  <2>5. qs # <<>>
    BY <1>1, <2>4
  <2> QED
    BY <2>2, <2>4, <2>5 DEF X
<1>3. Space \in Seq(C) /\ Len(Space) = 1 /\ None \in Seq(C)
  BY LiteralTexts
<1>4. PICK part \in [1..n -> Seq(C)] :
         /\ part[1] = Join(qs, Space) /\ part[n] = qs[n]
         /\ \A j \in 1..(n - 1) : part[j] = qs[j] \o (Space \o part[j + 1])
  <2> HIDE DEF qs, n
  <2>1. HasJoinedParts(C, qs, Space)
    BY <1>2, <1>3, JoinedParts
  <2> QED
    BY <1>2, <2>1 DEF HasJoinedParts
<1> DEFINE front(j) == SubSeq(ws, 1, j - 1)
           Here(j) == Reached(V, part[j] \o r, None, FALSE, None, front(j), op, read)
           S == {k \in Nat : k + 1 <= n => Here(k + 1)}
<1>5. 0 \in S
  <2>1. front(1) = <<>>
    OBVIOUS
  <2>2. Reached(V, Join(qs, Space) \o r, None, FALSE, None, <<>>, op, read)
    OBVIOUS
  <2>4. 0 + 1 = 1
    OBVIOUS
  <2>3. Here(1)
    <3>1. part[1] = Join(qs, Space)
      BY <1>4
    <3> HIDE DEF front, qs, n
    <3>2. Reached(V, part[1] \o r, None, FALSE, None, front(1), op, read)
      BY <2>1, <2>2, <3>1
    <3> QED
      BY <3>2
  <2> HIDE DEF Here, n
  <2> QED
    BY <2>3, <2>4
<1>6. ASSUME NEW k \in Nat, k \in S PROVE k + 1 \in S
  <2>1. ASSUME k + 1 + 1 <= n PROVE Here(k + 1 + 1)
    <3> DEFINE j == k + 1
               t == part[j + 1] \o r
    <3>1. j \in 1..(n - 1) /\ j \in 1..n /\ j + 1 \in 1..n /\ j + 1 - 1 = j
      BY <1>1, <2>1
    <3>2. Here(j)
      <4> HIDE DEF Here
      <4> QED
        BY <1>1, <1>6, <2>1
    <3> HIDE DEF j
    <3>3. ws[j] \in Seq(C) /\ part[j + 1] \in Seq(C)
          /\ part[j] = ShellQuote(ws[j]) \o (Space \o part[j + 1])
      <4> HIDE DEF qs, n
      <4> QED
        BY <1>1, <1>2, <1>4, <3>1
    <3>4. ShellQuote(ws[j]) \in Seq(C)
      BY <3>3, QuotedIsText
    <3>5. t \in Seq(C) /\ Space \o t \in Seq(C) /\ part[j] \o r = ShellQuote(ws[j]) \o (Space \o t)
      <4> DEFINE q == ShellQuote(ws[j])
                 p == part[j + 1]
                 x == Space \o p
      <4>1. q \in Seq(C) /\ p \in Seq(C)
        BY <3>3, <3>4
      <4> HIDE DEF q, p
      <4>2. Grouped3(C, Space, p, r)
        BY <1>3, <4>1, Regrouped
      <4>3. x \in Seq(C)
        BY <4>2 DEF Grouped3
      <4> HIDE DEF x
      <4>4. Grouped3(C, q, x, r)
        BY <4>1, <4>3, Regrouped
      <4>5. part[j] = q \o x
        BY <3>3 DEF q, x, p
      <4>6. x \o r = Space \o (p \o r) /\ p \o r \in Seq(C)
        BY <4>2 DEF Grouped3, x
      <4>7. (q \o x) \o r = q \o (x \o r) /\ x \o r \in Seq(C)
        BY <4>4 DEF Grouped3
      <4> HIDE DEF front, Here
      <4> QED
        BY <4>5, <4>6, <4>7 DEF q, p
    <3> HIDE DEF t
    <3>6. Reached(V, ShellQuote(ws[j]) \o (Space \o t), None, FALSE, None, front(j), op, read)
      BY <3>2, <3>5
    <3>7. Reached(V, Space \o t, None, TRUE, ws[j], front(j), op, read)
      BY <3>3, <3>5, <3>6, WordIsRead
    <3>8. Leads(V, Space, t, None, TRUE, ws[j], front(j), op, read)
      BY <1>3, <3>5, <3>7, Onward
    <3>9. Reached(V, t, None, FALSE, None, Append(front(j), ws[j]), op, read)
      BY <3>8 DEF Leads
    <3>10. Append(front(j), ws[j]) = front(j + 1)
      <4>1. j \in 1..Len(ws)
        BY <3>1
      <4>2. Append(SubSeq(ws, 1, j - 1), ws[j]) = SubSeq(ws, 1, j)
        BY <4>1, OneMore
      <4> QED
        BY <3>1, <4>2
    <3> QED
      BY <3>9, <3>10 DEF t, j
  <2> HIDE DEF Here, n
  <2> QED
    BY <2>1
<1>7. Nat \subseteq S
  <2> HIDE DEF S
  <2> QED
    BY <1>5, <1>6, Induction
<1>8. Here(n)
  <2>1. n - 1 \in S /\ n - 1 + 1 = n
    <3> HIDE DEF S
    <3> QED
      BY <1>1, <1>7
  <2> HIDE DEF Here
  <2> QED
    BY <1>1, <2>1
<1>9. Reached(V, ShellQuote(ws[n]) \o r, None, FALSE, None, front(n), op, read)
  <2>1. part[n] = ShellQuote(ws[n])
    <3> HIDE DEF qs, n, Here, front
    <3> QED
      BY <1>1, <1>2, <1>4
  <2> QED
    BY <1>8, <2>1
<1>10. ws[n] \in Seq(C)
  BY <1>1
<1> QED
  BY <1>9, <1>10, WordIsRead

WordsOf(seg) == [i \in 1..(Len(seg.args) + 1) |-> IF i = 1 THEN seg.cmd ELSE seg.args[i - 1]]
JoinedWords(ws) == Join([i \in 1..Len(ws) |-> ShellQuote(ws[i])], Space)
IsReadAs(seg, ws) ==
    /\ ws \in Seq(Texts) /\ ws # <<>> /\ Len(ws) \in Nat \ {0}
    /\ Segment(ws[1], Tail(ws), seg.op) = seg
    /\ RenderedSegment(seg) = (IF seg.op = None THEN None ELSE seg.op \o Space) \o JoinedWords(ws)

LEMMA WordsOfSegment == ASSUME NEW seg \in Segments PROVE IsReadAs(seg, WordsOf(seg))
<1> DEFINE ws == WordsOf(seg)
           n == Len(seg.args)
<1>1. /\ seg.cmd \in Texts /\ seg.args \in Seq(Texts)
      /\ seg = [cmd |-> seg.cmd, args |-> seg.args, op |-> seg.op]
  BY DEF Segments, Texts
<1>2. ws \in Seq(Texts) /\ Len(ws) = n + 1 /\ ws[1] = seg.cmd /\ \A i \in 1..n : ws[i + 1] = seg.args[i]
  <2>1. n \in Nat /\ \A i \in 1..n : seg.args[i] \in Texts
    BY <1>1
  <2>2. ws \in [1..(n + 1) -> Texts]
    <3>1. \A i \in 1..(n + 1) : i = 1 \/ i - 1 \in 1..n
      BY <2>1
    <3> HIDE DEF n
    <3> QED
      BY <1>1, <2>1, <3>1 DEF WordsOf, n
  <2>3. ws[1] = seg.cmd /\ \A i \in 1..n : ws[i + 1] = seg.args[i]
    <3>1. \A i \in 1..n : i + 1 \in 1..(n + 1) /\ i + 1 # 1 /\ i + 1 - 1 = i
      BY <2>1
    <3>2. 1 \in 1..(n + 1)
      BY <2>1
    <3> HIDE DEF n
    <3> QED
      BY <3>1, <3>2 DEF WordsOf, n
  <2> HIDE DEF ws, n
  <2> QED
    BY <2>1, <2>2, <2>3
<1>3. Tail(ws) = seg.args
  <2> HIDE DEF ws
  <2>1. /\ Tail(ws) \in Seq(Texts) /\ Len(Tail(ws)) = n
        /\ \A i \in 1..n : Tail(ws)[i] = ws[i + 1]
    BY <1>1, <1>2
  <2> QED
    BY <1>1, <1>2, <2>1, SameTexts
<1>4. Segment(ws[1], Tail(ws), seg.op) = seg
  <2> HIDE DEF ws
  <2> QED
    BY <1>1, <1>2, <1>3 DEF Segment
<1>5. [i \in 1..(n + 1) |-> ShellQuote(IF i = 1 THEN seg.cmd ELSE seg.args[i - 1])]
          = [i \in 1..Len(ws) |-> ShellQuote(ws[i])]
  <2>1. \A i \in 1..(n + 1) : ws[i] = IF i = 1 THEN seg.cmd ELSE seg.args[i - 1]
    BY DEF WordsOf
  <2> HIDE DEF ws, n
  <2> QED
    BY <1>2, <2>1
<1>6. ws # <<>> /\ Len(ws) \in Nat \ {0}
  <2>1. n \in Nat
    BY <1>1
  <2> HIDE DEF ws, n
  <2> QED
    BY <1>2, <2>1
<1>7. RenderedSegment(seg) = (IF seg.op = None THEN None ELSE seg.op \o Space) \o JoinedWords(ws)
  BY <1>5 DEF RenderedSegment, JoinedWords
<1> HIDE DEF ws
<1> QED
  BY <1>2, <1>4, <1>6, <1>7 DEF IsReadAs, ws

LEMMA JoinedWordsAreText ==
    ASSUME NEW C, Texts = Seq(C), NEW ws \in Seq(Texts), ws # <<>>
    PROVE  JoinedWords(ws) \in Seq(C)
<1> DEFINE n == Len(ws)
           X == Seq(C)
           qs == [i \in 1..n |-> ShellQuote(ws[i])]
<1>1. n \in Nat \ {0} /\ \A i \in 1..n : ws[i] \in X
  OBVIOUS
<1>2. \A i \in 1..n : ShellQuote(ws[i]) \in X
  <2> HIDE DEF n
  <2> QED
    BY <1>1, QuotedIsText
<1>3. qs \in [1..n -> X]
  <2> HIDE DEF X
  <2> QED
    BY <1>2
<1>4. Space \in X /\ None \in X
  BY LiteralTexts
<1>5. qs \in Seq(X) /\ qs # <<>> /\ Len(qs) = n
  <2> HIDE DEF X, n, qs
  <2> QED
    BY <1>1, <1>3
<1> HIDE DEF qs, n
<1>6. HasJoinedParts(C, qs, Space)
  BY <1>4, <1>5, JoinedParts
<1>7. Join(qs, Space) \in Seq(C)
  <2>1. PICK part \in [1..Len(qs) -> Seq(C)] : part[1] = Join(qs, Space)
    BY <1>6 DEF HasJoinedParts
  <2>2. 1 \in 1..Len(qs)
    BY <1>1, <1>5
  <2> QED
    BY <2>1, <2>2
<1> QED
  BY <1>7 DEF JoinedWords, qs, n

\* The last word of a command is still open.
Last(V, r, seg, read) ==
    LET ws == WordsOf(seg) IN
    Reached(V, r, None, TRUE, ws[Len(ws)], SubSeq(ws, 1, Len(ws) - 1), seg.op, read)

LEMMA FirstSegmentIsRead ==
    ASSUME NEW C, Texts = Seq(C), NEW V, Closed(V), NEW seg \in Segments, seg.op = None,
           NEW r \in Seq(C), NEW read,
           Reached(V, RenderedSegment(seg) \o r, None, FALSE, None, <<>>, None, read)
    PROVE  Last(V, r, seg, read)
<1> DEFINE ws == WordsOf(seg)
<1>1. IsReadAs(seg, ws)
  BY WordsOfSegment
<1> HIDE DEF ws
<1>2. ws \in Seq(Texts) /\ ws # <<>> /\ RenderedSegment(seg) = None \o JoinedWords(ws)
  BY <1>1 DEF IsReadAs
<1>3. JoinedWords(ws) \in Seq(C)
  BY <1>2, JoinedWordsAreText
<1>4. RenderedSegment(seg) = JoinedWords(ws)
  BY <1>2, <1>3, LiteralTexts, NoText
<1>5. Reached(V, JoinedWords(ws) \o r, None, FALSE, None, <<>>, None, read)
  BY <1>4
<1>6. Reached(V, r, None, TRUE, ws[Len(ws)], SubSeq(ws, 1, Len(ws) - 1), None, read)
  BY <1>2, <1>5, WordsAreRead DEF JoinedWords
<1> QED
  BY <1>6 DEF Last, ws

LEMMA NextSegmentIsRead ==
    ASSUME NEW C, Texts = Seq(C), NEW V, Closed(V), NEW seg \in Segments, seg.op # None,
           NEW r \in Seq(C), NEW words \in Seq(Texts), words # <<>>, NEW op, NEW read,
           Reached(V, RenderedSegment(seg) \o r, None, FALSE, None, words, op, read)
    PROVE  Last(V, r, seg, Append(read, Segment(words[1], Tail(words), op)))
<1> DEFINE ws == WordsOf(seg)
           o == seg.op
           done == Append(read, Segment(words[1], Tail(words), op))
<1>1. IsReadAs(seg, ws)
  BY WordsOfSegment
<1> HIDE DEF ws
<1>2. ws \in Seq(Texts) /\ ws # <<>> /\ RenderedSegment(seg) = (o \o Space) \o JoinedWords(ws)
  BY <1>1 DEF IsReadAs
<1>3. o \in Operators
  <2>1. seg.op \in Operators \cup {""}
    BY DEF Segments
  <2> QED
    BY <2>1 DEF None
<1>4. o \in Seq(C) /\ Space \in Seq(C) /\ Len(Space) = 1
  BY <1>3, OperatorsAre, LiteralTexts
<1> HIDE DEF o, done
<1> DEFINE j == JoinedWords(ws)
           t == j \o r
           os == o \o Space
<1>5. j \in Seq(C)
  BY <1>2, JoinedWordsAreText
<1> HIDE DEF j
<1>6. t \in Seq(C)
  BY <1>5, JoinedTexts
<1>7. os \in Seq(C)
  BY <1>4, JoinedTexts
<1> HIDE DEF os
<1>8. Grouped3(C, os, j, r)
  BY <1>5, <1>7, Regrouped
<1> HIDE DEF t
<1>9. Grouped3(C, o, Space, t)
  BY <1>4, <1>6, Regrouped
<1>10. RenderedSegment(seg) \o r = o \o (Space \o t)
  BY <1>2, <1>8, <1>9 DEF Grouped3, j, t, os
<1>11. PICK v \in V : At(v, o \o (Space \o t), None, FALSE, None, words, op, read)
  BY <1>10 DEF Reached
<1>12. At(ShellRound[v], Space \o t, None, FALSE, None, <<>>, o, done)
  BY <1>3, <1>6, <1>11, OperatorIsRead DEF done
<1>13. Reached(V, Space \o t, None, FALSE, None, <<>>, o, done)
  <2>1. ShellRound[v] \in V
    BY DEF Closed
  <2> QED
    BY <1>12, <2>1 DEF Reached
<1>14. Leads(V, Space, t, None, FALSE, None, <<>>, o, done)
  BY <1>4, <1>6, <1>13, Onward
<1>15. Reached(V, t, None, FALSE, None, <<>>, o, done)
  BY <1>14 DEF Leads
<1>16. Reached(V, JoinedWords(ws) \o r, None, FALSE, None, <<>>, o, done)
  BY <1>15 DEF t, j
<1>17. Reached(V, r, None, TRUE, ws[Len(ws)], SubSeq(ws, 1, Len(ws) - 1), o, done)
  BY <1>2, <1>16, WordsAreRead DEF JoinedWords
<1> QED
  BY <1>17 DEF Last, ws, o, done

\* Before a segment, the one before it has been read up to its operator.
Before(V, p, i, text_) ==
    IF i = 1 THEN Reached(V, text_, None, FALSE, None, <<>>, None, <<>>)
    ELSE Reached(V, text_, None, FALSE, None, WordsOf(p[i - 1]), p[i - 1].op, SubSeq(p, 1, i - 2))

LEMMA SegmentsAreRead ==
    ASSUME NEW C, Texts = Seq(C), NEW V, Closed(V), NEW p \in Seq(Segments), IsPipeline(p),
           NEW i \in 1..Len(p), NEW r \in Seq(C), Before(V, p, i, RenderedSegment(p[i]) \o r)
    PROVE  Last(V, r, p[i], SubSeq(p, 1, i - 1))
<1> DEFINE S == Segments
<1>1. p \in Seq(S) /\ p[i] \in S
  OBVIOUS
<1>2. i = 1 <=> p[i].op = None
  BY DEF IsPipeline
<1>3. CASE i = 1
  <2>1. SubSeq(p, 1, i - 1) = <<>>
    BY <1>3
  <2>2. Reached(V, RenderedSegment(p[i]) \o r, None, FALSE, None, <<>>, None, <<>>)
    BY <1>3 DEF Before
  <2>3. Last(V, r, p[i], <<>>)
    BY <1>1, <1>2, <1>3, <2>2, FirstSegmentIsRead
  <2> QED
    BY <2>1, <2>3
<1>4. CASE i # 1
  <2> DEFINE k == i - 1
             ws == WordsOf(p[k])
  <2>1. k \in 1..Len(p) /\ i - 2 = k - 1
    BY <1>4
  <2> HIDE DEF k, S
  <2>2. p[k] \in S
    BY <1>1, <2>1
  <2>3. IsReadAs(p[k], ws)
    BY <2>2, WordsOfSegment DEF S
  <2> HIDE DEF ws
  <2>4. Reached(V, RenderedSegment(p[i]) \o r, None, FALSE, None, ws, p[k].op, SubSeq(p, 1, k - 1))
    BY <1>4, <2>1 DEF Before, ws, k
  <2>5. ws \in Seq(Texts) /\ ws # <<>> /\ Segment(ws[1], Tail(ws), p[k].op) = p[k]
    BY <2>3 DEF IsReadAs
  <2>6. Last(V, r, p[i], Append(SubSeq(p, 1, k - 1), Segment(ws[1], Tail(ws), p[k].op)))
    BY <1>1, <1>2, <1>4, <2>4, <2>5, NextSegmentIsRead DEF S
  <2>7. Append(SubSeq(p, 1, k - 1), p[k]) = SubSeq(p, 1, k)
    BY <1>1, <2>1, OneMore
  <2> QED
    BY <2>5, <2>6, <2>7 DEF k
<1> QED
  BY <1>3, <1>4

LEMMA RenderedIsText ==
    ASSUME NEW C, Texts = Seq(C), NEW seg \in Segments
    PROVE  RenderedSegment(seg) \in Seq(C)
<1> DEFINE ws == WordsOf(seg)
           o == seg.op
           j == JoinedWords(ws)
           head == IF o = None THEN None ELSE o \o Space
<1>1. IsReadAs(seg, ws)
  BY WordsOfSegment
<1> HIDE DEF ws
<1>2. j \in Seq(C)
  BY <1>1, JoinedWordsAreText DEF IsReadAs
<1>3. o \in Operators \cup {None}
  <2>1. seg.op \in Operators \cup {""}
    BY DEF Segments
  <2> QED
    BY <2>1 DEF None
<1>4. None \in Seq(C) /\ Space \in Seq(C) /\ (o # None => o \in Seq(C))
  BY <1>3, OperatorsAre, LiteralTexts
<1> HIDE DEF o
<1>5. head \in Seq(C)
  <2>1. CASE o = None
    BY <1>4, <2>1
  <2>2. CASE o # None
    <3>1. o \o Space \in Seq(C)
      BY <1>4, <2>2, JoinedTexts
    <3> QED
      BY <2>2, <3>1
  <2> QED
    BY <2>1, <2>2
<1> HIDE DEF head, j
<1>6. head \o j \in Seq(C)
  BY <1>2, <1>5, JoinedTexts
<1> QED
  BY <1>1, <1>6 DEF IsReadAs, head, j, o

\* What is left of the text of a pipeline, from each segment on.
HasRenderedParts(C, p) ==
    \E part \in [1..Len(p) -> Seq(C)] :
        /\ part[1] = ReconstructCommand(p) /\ part[Len(p)] = RenderedSegment(p[Len(p)])
        /\ \A j \in 1..(Len(p) - 1) : part[j] = RenderedSegment(p[j]) \o (Space \o part[j + 1])

LEMMA RenderedParts ==
    ASSUME NEW C, Texts = Seq(C), NEW p \in Seq(Segments), p # <<>>
    PROVE  HasRenderedParts(C, p)
<1> DEFINE n == Len(p)
           S == Segments
           X == Seq(C)
           rs == [i \in DOMAIN p |-> RenderedSegment(p[i])]
<1>1. n \in Nat \ {0} /\ DOMAIN p = 1..n /\ \A i \in 1..n : p[i] \in S
  <2> HIDE DEF S
  <2>1. p \in Seq(S) /\ p # <<>>
    BY DEF S
  <2> QED
    BY <2>1
<1>2. \A i \in 1..n : RenderedSegment(p[i]) \in X
  <2> HIDE DEF X
  <2> QED
    BY <1>1, RenderedIsText DEF X
<1> HIDE DEF S
<1>3. Space \in Seq(C) /\ None \in Seq(C)
  BY LiteralTexts
<1>4. rs \in [1..n -> X] /\ \A i \in 1..n : rs[i] = RenderedSegment(p[i])
  <2> HIDE DEF X, n
  <2> QED
    BY <1>1, <1>2
<1>5. rs \in Seq(X) /\ rs # <<>> /\ Len(rs) = n
  <2> HIDE DEF X, n, rs
  <2> QED
    BY <1>1, <1>4
<1>6. PICK part \in [1..n -> X] :
         /\ part[1] = Join(rs, Space) /\ part[n] = rs[n]
         /\ \A j \in 1..(n - 1) : part[j] = rs[j] \o (Space \o part[j + 1])
  <2> HIDE DEF rs, n
  <2>1. HasJoinedParts(C, rs, Space)
    BY <1>3, <1>5, JoinedParts
  <2> QED
    BY <1>5, <2>1 DEF HasJoinedParts
<1>7. ReconstructCommand(p) = Join(rs, Space)
  BY DEF ReconstructCommand
<1> HIDE DEF rs
<1>8. /\ part[1] = ReconstructCommand(p) /\ part[n] = RenderedSegment(p[n])
      /\ \A j \in 1..(n - 1) : part[j] = RenderedSegment(p[j]) \o (Space \o part[j + 1])
  <2>1. n \in 1..n /\ \A j \in 1..(n - 1) : j \in 1..n
    BY <1>1
  <2> HIDE DEF n, X
  <2> QED
    BY <1>4, <1>6, <1>7, <2>1
<1> QED
  BY <1>6, <1>8 DEF HasRenderedParts

\* All the commands of a line but the last, and the last but for its end.
LEMMA PipelineIsRead ==
    ASSUME NEW C, Texts = Seq(C), NEW V, Closed(V), NEW p \in Seq(Segments), IsPipeline(p),
           Reached(V, ReconstructCommand(p), None, FALSE, None, <<>>, None, <<>>)
    PROVE  Last(V, None, p[Len(p)], SubSeq(p, 1, Len(p) - 1))
<1> DEFINE n == Len(p)
           S == Segments
           X == Seq(C)
<1>1. n \in Nat \ {0} /\ p \in Seq(S) /\ p # <<>> /\ \A i \in 1..n : p[i] \in S
  <2> HIDE DEF S
  <2>1. p \in Seq(S) /\ p # <<>>
    BY DEF IsPipeline, S
  <2> QED
    BY <2>1
<1> HIDE DEF S
<1>3. Space \in Seq(C) /\ Len(Space) = 1 /\ None \in Seq(C)
  BY LiteralTexts
<1>6. PICK part \in [1..n -> X] :
         /\ part[1] = ReconstructCommand(p) /\ part[n] = RenderedSegment(p[n])
         /\ \A j \in 1..(n - 1) : part[j] = RenderedSegment(p[j]) \o (Space \o part[j + 1])
  <2>1. HasRenderedParts(C, p)
    BY <1>1, RenderedParts DEF S
  <2> QED
    BY <2>1 DEF HasRenderedParts
<1> DEFINE Here(j) == Before(V, p, j, part[j])
           T == {k \in Nat : k + 1 <= n => Here(k + 1)}
<1>8. 0 \in T
  <2>1. part[1] = ReconstructCommand(p)
    BY <1>6
  <2>2. Here(1)
    <3> HIDE DEF n
    <3> QED
      BY <2>1 DEF Before
  <2>3. 0 + 1 = 1
    OBVIOUS
  <2> HIDE DEF Here, n
  <2> QED
    BY <2>2, <2>3
<1>9. ASSUME NEW k \in Nat, k \in T PROVE k + 1 \in T
  <2>1. ASSUME k + 1 + 1 <= n PROVE Here(k + 1 + 1)
    <3> DEFINE j == k + 1
               t == part[j + 1]
    <3>1. j \in 1..(n - 1) /\ j \in 1..n /\ j + 1 \in 1..n /\ j + 1 - 1 = j /\ j + 1 - 2 = j - 1 /\ j + 1 # 1
      BY <1>1, <2>1
    <3>2. Here(j)
      <4> HIDE DEF Here
      <4> QED
        BY <1>1, <1>9, <2>1
    <3> HIDE DEF j
    <3>3. t \in X /\ part[j] = RenderedSegment(p[j]) \o (Space \o t)
      <4> HIDE DEF X, n
      <4> QED
        BY <1>6, <3>1
    <3> HIDE DEF t
    <3>4. Space \o t \in Seq(C)
      BY <1>3, <3>3, JoinedTexts
    <3>5. Before(V, p, j, RenderedSegment(p[j]) \o (Space \o t))
      BY <3>2, <3>3
    <3>6. Last(V, Space \o t, p[j], SubSeq(p, 1, j - 1))
      <4>1. j \in 1..Len(p)
        BY <3>1
      <4> HIDE DEF n
      <4> QED
        BY <3>4, <3>5, <4>1, SegmentsAreRead
    <3> DEFINE ws == WordsOf(p[j])
               m == Len(ws)
    <3>7. IsReadAs(p[j], ws)
      BY <1>1, <3>1, WordsOfSegment DEF S
    <3> HIDE DEF ws
    <3>8. Reached(V, Space \o t, None, TRUE, ws[m], SubSeq(ws, 1, m - 1), p[j].op, SubSeq(p, 1, j - 1))
      BY <3>6 DEF Last, ws
    <3>9. ws \in Seq(Texts) /\ m \in Nat \ {0}
      BY <3>7 DEF IsReadAs
    <3>10. Append(SubSeq(ws, 1, m - 1), ws[m]) = ws
      <4>1. m \in 1..Len(ws)
        BY <3>9
      <4>2. Append(SubSeq(ws, 1, m - 1), ws[m]) = SubSeq(ws, 1, m)
        BY <3>9, <4>1, OneMore
      <4>3. SubSeq(ws, 1, Len(ws)) = ws
        BY <3>9, WholeText
      <4> QED
        BY <4>2, <4>3
    <3> HIDE DEF m
    <3>11. Leads(V, Space, t, None, TRUE, ws[m], SubSeq(ws, 1, m - 1), p[j].op, SubSeq(p, 1, j - 1))
      BY <1>3, <3>3, <3>8, Onward
    <3>12. Reached(V, t, None, FALSE, None, ws, p[j].op, SubSeq(p, 1, j - 1))
      BY <3>10, <3>11 DEF Leads
    <3>13. Before(V, p, j + 1, t)
      <4> DEFINE i == j + 1
      <4>1. i - 1 = j /\ i - 2 = j - 1 /\ i # 1
        BY <3>1
      <4> HIDE DEF n, i
      <4>2. Reached(V, t, None, FALSE, None, WordsOf(p[i - 1]), p[i - 1].op, SubSeq(p, 1, i - 2))
        BY <3>12, <4>1 DEF ws
      <4>3. Before(V, p, i, t)
        BY <4>1, <4>2 DEF Before
      <4> QED
        BY <4>3 DEF i
    <3> QED
      BY <3>13 DEF j, t
  <2> HIDE DEF Here, n
  <2> QED
    BY <2>1
<1>10. Nat \subseteq T
  <2> HIDE DEF T
  <2> QED
    BY <1>8, <1>9, Induction
<1>11. Here(n)
  <2>1. n - 1 \in T /\ n - 1 + 1 = n
    <3> HIDE DEF T
    <3> QED
      BY <1>1, <1>10
  <2> HIDE DEF Here
  <2> QED
    BY <1>1, <2>1
<1>12. part[n] = RenderedSegment(p[n]) /\ RenderedSegment(p[n]) \in Seq(C) /\ n \in 1..Len(p)
  <2>1. n \in 1..n
    BY <1>1
  <2>2. RenderedSegment(p[n]) \in Seq(C)
    BY <1>1, <2>1, RenderedIsText DEF S
  <2> QED
    BY <1>6, <2>1, <2>2
<1>13. Before(V, p, n, RenderedSegment(p[n]) \o None)
  <2>1. RenderedSegment(p[n]) \o None = RenderedSegment(p[n])
    BY <1>12, LiteralTexts, NoText
  <2> QED
    BY <1>11, <1>12, <2>1
<1> HIDE DEF n
<1>14. Last(V, None, p[n], SubSeq(p, 1, n - 1))
  BY <1>3, <1>12, <1>13, SegmentsAreRead
<1> QED
  BY <1>14 DEF n

\* Two rounds after which nothing changes leave the same.
LEMMA OneEnd ==
    ASSUME NEW X, NEW step \in [X -> X], NEW init \in X, NEW k \in Nat, NEW n \in Nat,
           step[Iterate(step, init, k)] = Iterate(step, init, k),
           step[Iterate(step, init, n)] = Iterate(step, init, n)
    PROVE  Iterate(step, init, k) = Iterate(step, init, n)
<1> DEFINE At_(j) == Iterate(step, init, j)
<1>1. \A j \in Nat : At_(j) \in X /\ At_(j + 1) = step[At_(j)]
  BY IterateStep
<1>2. ASSUME NEW a \in Nat, step[At_(a)] = At_(a), NEW d \in Nat PROVE At_(a + d) = At_(a)
  <2> DEFINE S == {e \in Nat : At_(a + e) = At_(a)}
  <2> HIDE DEF At_
  <2>1. 0 \in S
    BY <1>2
  <2>2. ASSUME NEW e \in Nat, e \in S PROVE e + 1 \in S
    <3>1. a + e \in Nat /\ a + (e + 1) = a + e + 1 /\ At_(a + e) = At_(a)
      BY <2>2
    <3>2. At_(a + e + 1) = step[At_(a + e)]
      BY <1>1, <3>1
    <3>3. At_(a + (e + 1)) = At_(a)
      BY <1>2, <3>1, <3>2
    <3> QED
      BY <3>3
  <2>3. Nat \subseteq S
    <3> HIDE DEF S
    <3> QED
      BY <2>1, <2>2, Induction
  <2> QED
    BY <2>3
<1>3. CASE k <= n
  <2>1. n - k \in Nat /\ k + (n - k) = n
    BY <1>3
  <2>2. At_(k + (n - k)) = At_(k)
    <3>1. step[At_(k)] = At_(k)
      OBVIOUS
    <3> HIDE DEF At_
    <3> QED
      BY <1>2, <2>1, <3>1
  <2> QED
    BY <2>1, <2>2
<1>4. CASE n <= k
  <2>1. k - n \in Nat /\ n + (k - n) = k
    BY <1>4
  <2>2. At_(n + (k - n)) = At_(n)
    <3>1. step[At_(n)] = At_(n)
      OBVIOUS
    <3> HIDE DEF At_
    <3> QED
      BY <1>2, <2>1, <3>1
  <2> QED
    BY <2>1, <2>2
<1> QED
  BY <1>3, <1>4

\* A round reads something, or there was nothing left.
LEMMA RoundShortens ==
    ASSUME NEW C, Texts = Seq(C), NEW v \in ShellStates
    PROVE  /\ v.rest = None => ShellRound[v] = v
           /\ v.rest # None => Len(ShellRound[v].rest) < Len(v.rest)
<1>1. v.rest = None => ShellRound[v] = v
  BY DEF ShellRound
<1>2. ASSUME v.rest # None PROVE Len(ShellRound[v].rest) < Len(v.rest)
  <2> DEFINE c == Char(v.rest, 1)
             r == From(v.rest, 2)
             s == From(v.rest, 3)
             two == IF Len(v.rest) = 1 THEN None ELSE SubSeq(v.rest, 1, 2)
             w == ShellRound[v]
             x == v.word \o c
             l == Len(v.rest)
  <2>1. v.rest \in Seq(C) /\ v.word \in Seq(C) /\ l \in Nat /\ l # 0
    <3>1. v.rest \in Seq(C) /\ v.word \in Seq(C)
      BY DEF ShellStates, Texts
    <3> QED
      BY <1>2, <3>1, LiteralTexts, NoText
  <2>2. r \in Texts /\ s \in Texts /\ Len(r) < l /\ Len(s) < l /\ None \in Texts /\ Len(None) < l
    <3>1. r \in Seq(C) /\ s \in Seq(C)
      BY <2>1 DEF From
    <3>2. Len(r) < l /\ Len(s) < l
      BY <2>1 DEF From
    <3> QED
      BY <2>1, <3>1, <3>2, LiteralTexts
  <2>3. RoundOn(v, c, r)
    BY <1>2, RoundIs
  <2>4. v.quote = None /\ c \notin {Quote, DoubleQuote, Space} => PlainRound(v, c, r, two)
    BY <1>2, PlainRoundIs
  <2> HIDE DEF c, r, s, two, w, x, l
  <2>5. ASSUME NEW q
        PROVE  /\ [[v EXCEPT !.rest = r] EXCEPT !.quote = q].rest = r
               /\ [[v EXCEPT !.rest = r] EXCEPT !.quote = q, !.open = TRUE].rest = r
               /\ [[v EXCEPT !.rest = r] EXCEPT !.word = q].rest = r
               /\ [[v EXCEPT !.rest = r] EXCEPT !.word = q, !.open = TRUE].rest = r
               /\ Stuck(v).rest = None
    BY DEF ShellStates, Stuck
  <2>6. EndWord([v EXCEPT !.rest = r]).rest = r
    BY <2>2, EndWordAt
  <2>7. ASSUME NEW from \in Texts, NEW op
        PROVE  [EndCommand([v EXCEPT !.rest = from]) EXCEPT !.op = op].rest \in {from, None}
    <3> DEFINE u == EndCommand([v EXCEPT !.rest = from])
    <3>1. u \in ShellStates /\ u.rest \in {from, None}
      BY EndCommandAt
    <3> HIDE DEF u
    <3>2. [u EXCEPT !.op = op].rest = u.rest
      BY <3>1 DEF ShellStates
    <3> QED
      BY <3>1, <3>2 DEF u
  <2>8. w.rest \in {r, s, None}
    <3>1. CASE v.quote # None
      <4>1. v.quote = DoubleQuote /\ c \in Expanding /\ c # v.quote => w = Stuck(v)
        BY <1>2, <3>1 DEF ShellRound, Expanding, w, c
      <4>2. c = v.quote => w.rest = r
        BY <2>3, <2>5, <3>1 DEF RoundOn, w
      <4>3. c # v.quote /\ ~ (v.quote = DoubleQuote /\ c \in Expanding) => w.rest = r
        BY <2>3, <2>5, <3>1 DEF RoundOn, w
      <4>4. Stuck(v).rest = None
        BY <2>5
      <4> QED
        BY <4>1, <4>2, <4>3, <4>4
    <3>2. CASE v.quote = None /\ c \in {Quote, DoubleQuote}
      BY <2>3, <2>5, <3>2 DEF RoundOn, w
    <3>3. CASE v.quote = None /\ c = Space
      BY <2>3, <2>6, <3>3, SpecialsDiffer DEF RoundOn, w
    <3>4. CASE v.quote = None /\ c \notin {Quote, DoubleQuote, Space}
      <4>1. PlainRound(v, c, r, two)
        BY <2>4, <3>4
      <4> QED
        BY <2>2, <2>5, <2>7, <4>1 DEF PlainRound, w, s
    <3> QED
      BY <3>1, <3>2, <3>3, <3>4
  <2> QED
    BY <2>2, <2>8 DEF w, l
<1> QED
  BY <1>1, <1>2

EndCommandReads(v, ws) ==
    /\ EndCommand(v).ok = v.ok
    /\ EndCommand(v).read = Append(v.read, Segment(ws[1], Tail(ws), v.op))

LEMMA EndCommandAtTheEnd ==
    ASSUME NEW v \in ShellStates, NEW ws, v.rest = None, v.open = TRUE,
           ws = Append(v.words, v.word), ws # <<>>
    PROVE  EndCommandReads(v, ws)
<1> DEFINE w == [v EXCEPT !.rest = None]
<1>1. w = v
  BY DEF ShellStates
<1>2. None \in Texts
  BY LiteralTexts
<1>3. ws = IF v.open THEN Append(v.words, v.word) ELSE v.words
  OBVIOUS
<1> DEFINE wd == IF v.open THEN Append(v.words, v.word) ELSE v.words
<1>4. wd # <<>> => EndCommand(w).ok = v.ok /\ EndCommand(w).read = Append(v.read, Segment(wd[1], Tail(wd), v.op))
  <2>1. LET u == EndCommand([v EXCEPT !.rest = None])
            xs == IF v.open THEN Append(v.words, v.word) ELSE v.words IN
        /\ u \in ShellStates /\ u.rest \in {None, None}
        /\ xs # <<>> =>
             /\ u.rest = None /\ u.quote = v.quote /\ u.open = FALSE /\ u.word = None
             /\ u.words = <<>> /\ u.op = v.op /\ u.ok = v.ok
             /\ u.read = Append(v.read, Segment(xs[1], Tail(xs), v.op))
    <3> DEFINE r == None
    <3>1. r \in Texts
      BY <1>2
    <3> HIDE DEF r
    <3> QED
      BY <1>2, EndCommandAt
  <2> QED
    BY <2>1
<1>5. EndCommand(w).ok = v.ok /\ EndCommand(w).read = Append(v.read, Segment(ws[1], Tail(ws), v.op))
  <2> HIDE DEF w
  <2> QED
    BY <1>3, <1>4
<1> HIDE DEF w
<1> QED
  BY <1>1, <1>5 DEF EndCommandReads

\* The line is read to its end in as many rounds as it has characters.
LEMMA LineIsReadToItsEnd ==
    ASSUME NEW C, Texts = Seq(C), NEW line \in Seq(C), NEW start \in ShellStates, start.rest = line
    PROVE  Iterate(ShellRound, start, Len(line)).rest = None
<1> DEFINE n == Len(line)
           Left(v, k) == v.rest = None \/ Len(v.rest) + k <= n
           Some(k) == {v \in ShellStates : Left(v, k)}
           Inv == [k \in Nat |-> Some(k)]
           step == ShellRound
           X == ShellStates
<1>1. n \in Nat /\ \A v \in X : v.rest \in Seq(C) /\ Len(v.rest) \in Nat
  <2>1. \A v \in X : v.rest \in Texts
    BY DEF ShellStates, Texts
  <2> HIDE DEF X
  <2> QED
    BY <2>1
<1>2. step \in [X -> X]
  BY RoundKeepsStates
<1>3. Inv \in [Nat -> SUBSET X]
  OBVIOUS
<1>4. start \in Inv[0]
  BY <1>1
<1>5. \A k \in Nat : \A v \in Inv[k] : step[v] \in Inv[k + 1]
  <2>1. ASSUME NEW k \in Nat, NEW v \in X, Left(v, k) PROVE step[v] \in X /\ Left(step[v], k + 1)
    <3>1. step[v] \in X
      BY <1>2
    <3>2. CASE v.rest = None
      BY <3>1, <3>2, RoundShortens
    <3>3. CASE v.rest # None
      <4> DEFINE a == Len(step[v].rest)
                 b == Len(v.rest)
      <4>1. a < b
        BY <3>3, RoundShortens
      <4>2. a \in Nat /\ b \in Nat /\ n \in Nat
        BY <1>1, <3>1
      <4>3. b + k <= n
        BY <2>1, <3>3
      <4>4. a + (k + 1) <= n
        <5> HIDE DEF a, b, n, step, X, Left
        <5> QED
          BY <4>1, <4>2, <4>3
      <4> QED
        BY <3>1, <4>4
    <3> QED
      BY <3>2, <3>3
  <2>2. \A k \in Nat : k + 1 \in Nat
    OBVIOUS
  <2> HIDE DEF step, X, Left
  <2>3. \A k \in Nat : Inv[k] = Some(k)
    <3> HIDE DEF Some
    <3> QED
      OBVIOUS
  <2>4. \A k, v : v \in Some(k) <=> v \in X /\ Left(v, k)
    BY DEF X
  <2> HIDE DEF Inv, Some
  <2> SUFFICES ASSUME NEW k \in Nat, NEW v \in Inv[k] PROVE step[v] \in Inv[k + 1]
    OBVIOUS
  <2>5. v \in X /\ Left(v, k)
    BY <2>3, <2>4
  <2>6. step[v] \in X /\ Left(step[v], k + 1)
    BY <2>1, <2>5
  <2>7. Inv[k + 1] = Some(k + 1)
    BY <2>2, <2>3
  <2> QED
    BY <2>4, <2>6, <2>7
<1> HIDE DEF Left, step, X
<1>6. Iterate(step, start, n) \in Inv[n]
  <2> HIDE DEF Inv, n
  <2>1. start \in X
    BY DEF X
  <2> QED
    BY <1>1, <1>2, <1>3, <1>4, <1>5, <2>1, LoopRule
<1> DEFINE end == Iterate(step, start, n)
<1> HIDE DEF end
<1>7. end \in X /\ Left(end, n)
  BY <1>1, <1>6 DEF end, X
<1>8. end.rest = None
  <2> SUFFICES ASSUME Len(end.rest) + n <= n PROVE end.rest = None
    BY <1>7 DEF Left
  <2>1. end.rest \in Seq(C) /\ Len(end.rest) \in Nat
    BY <1>1, <1>7
  <2>2. Len(end.rest) = 0
    BY <1>1, <2>1
  <2> QED
    BY <2>1, <2>2, LiteralTexts, NoText
<1> QED
  BY <1>8 DEF end, step, n

\* The shell reads back every pipeline from the text that is made of it.
LEMMA ReadsBack ==
    ASSUME NEW C, Texts = Seq(C), NEW p \in Seq(Segments), IsPipeline(p)
    PROVE  ShellReads(ReconstructCommand(p)) = p
<1> DEFINE line == ReconstructCommand(p)
           start == [rest |-> line, quote |-> None, open |-> FALSE, word |-> None,
                     words |-> <<>>, op |-> None, read |-> <<>>, ok |-> TRUE]
           V == {v \in ShellStates : \E k \in Nat : Iterate(ShellRound, start, k) = v}
           last == Iterate(ShellRound, start, Len(line))
           n == Len(p)
           seg == p[n]
           ws == WordsOf(seg)
           m == Len(ws)
<1>1. p # <<>> /\ n \in Nat \ {0} /\ n \in 1..n
  <2> DEFINE S == Segments
  <2>1. p \in Seq(S) /\ p # <<>>
    BY DEF IsPipeline
  <2> HIDE DEF S
  <2> QED
    BY <2>1
<1>2. line \in Seq(C)
  <2>1. HasRenderedParts(C, p)
    BY <1>1, RenderedParts
  <2>2. PICK part \in [1..Len(p) -> Seq(C)] : part[1] = line
    BY <2>1 DEF HasRenderedParts
  <2>3. 1 \in 1..Len(p)
    BY <1>1
  <2> HIDE DEF line
  <2> QED
    BY <2>2, <2>3
<1> HIDE DEF line
<1>3. At(start, line, None, FALSE, None, <<>>, None, <<>>)
  <2>1. line \in Texts /\ None \in Texts /\ <<>> \in Seq(Texts) /\ <<>> \in Seq(Segments)
    BY <1>2, LiteralTexts
  <2>2. start \in ShellStates
    BY <2>1 DEF ShellStates, Texts
  <2> QED
    BY <2>2 DEF At
<1>4. start \in ShellStates /\ start.rest = line
  BY <1>3 DEF At
<1> HIDE DEF start
<1>5. ShellRound \in [ShellStates -> ShellStates]
  BY RoundKeepsStates
<1>6. /\ Iterate(ShellRound, start, 0) = start
      /\ \A k \in Nat : /\ Iterate(ShellRound, start, k) \in ShellStates
                        /\ Iterate(ShellRound, start, k + 1) = ShellRound[Iterate(ShellRound, start, k)]
  BY <1>4, <1>5, IterateStep
<1>7. Closed(V)
  <2> SUFFICES ASSUME NEW v \in V PROVE ShellRound[v] \in V
    BY DEF Closed
  <2>1. PICK k \in Nat : Iterate(ShellRound, start, k) = v
    OBVIOUS
  <2>2. k + 1 \in Nat /\ Iterate(ShellRound, start, k + 1) = ShellRound[v] /\ ShellRound[v] \in ShellStates
    BY <1>5, <1>6, <2>1
  <2> QED
    BY <2>2
<1>8. Reached(V, ReconstructCommand(p), None, FALSE, None, <<>>, None, <<>>)
  <2>1. start \in V
    BY <1>4, <1>6
  <2> HIDE DEF V
  <2> QED
    BY <1>3, <2>1 DEF Reached, line
<1>9. Last(V, None, p[n], SubSeq(p, 1, n - 1))
  <2> HIDE DEF V
  <2> QED
    BY <1>7, <1>8, PipelineIsRead
<1>10. PICK v \in V : At(v, None, None, TRUE, ws[m], SubSeq(ws, 1, m - 1), seg.op, SubSeq(p, 1, n - 1))
  <2> HIDE DEF V
  <2> QED
    BY <1>9 DEF Last, Reached
<1>11. last = v
  <2>1. PICK k \in Nat : Iterate(ShellRound, start, k) = v
    OBVIOUS
  <2>2. v \in ShellStates /\ v.rest = None
    BY <1>10 DEF At
  <2>3. last.rest = None
    BY <1>2, <1>4, LineIsReadToItsEnd
  <2>4. Len(line) \in Nat
    BY <1>2
  <2>5. last \in ShellStates
    BY <1>6, <2>4
  <2>6. ShellRound[v] = v /\ ShellRound[last] = last
    BY <2>2, <2>3, <2>5, RoundShortens
  <2> QED
    BY <1>4, <1>5, <2>1, <2>4, <2>6, OneEnd
<1> HIDE DEF last, V
<1>12. seg \in Segments
  <2> DEFINE S == Segments
  <2>1. p \in Seq(S)
    OBVIOUS
  <2> HIDE DEF S
  <2>2. p[n] \in S
    BY <1>1, <2>1
  <2> QED
    BY <2>2 DEF S
<1>13. IsReadAs(seg, ws)
  BY <1>12, WordsOfSegment, SMTT(30)
<1> HIDE DEF n, seg, ws
<1>14. Append(SubSeq(ws, 1, m - 1), ws[m]) = ws
  <2>1. ws \in Seq(Texts) /\ m \in 1..Len(ws)
    BY <1>13 DEF IsReadAs
  <2>2. Append(SubSeq(ws, 1, m - 1), ws[m]) = SubSeq(ws, 1, m)
    BY <2>1, OneMore
  <2>3. SubSeq(ws, 1, Len(ws)) = ws
    BY <2>1, WholeText
  <2> QED
    BY <2>2, <2>3
<1>15. Append(SubSeq(p, 1, n - 1), seg) = p
  <2>1. n \in 1..Len(p)
    BY <1>1 DEF n
  <2>2. Append(SubSeq(p, 1, n - 1), p[n]) = SubSeq(p, 1, n)
    BY <2>1, OneMore
  <2>3. SubSeq(p, 1, Len(p)) = p
    BY WholeText
  <2> QED
    BY <2>2, <2>3 DEF n, seg
<1>16. ws # <<>> /\ Segment(ws[1], Tail(ws), seg.op) = seg
  BY <1>13 DEF IsReadAs
<1>17. /\ last \in ShellStates /\ last.rest = None /\ last.quote = None /\ last.open = TRUE /\ last.ok = TRUE
       /\ last.op = seg.op /\ last.read = SubSeq(p, 1, n - 1)
       /\ Append(last.words, last.word) = ws
  BY <1>10, <1>11, <1>14 DEF At
<1> DEFINE end == EndCommand(last)
<1>18. end.read = p /\ end.ok = TRUE
  <2>1. EndCommandReads(last, ws)
    BY <1>16, <1>17, EndCommandAtTheEnd
  <2> QED
    BY <1>15, <1>16, <1>17, <2>1 DEF EndCommandReads
<1>19. ShellReads(line) = IF last.quote = None /\ end.ok THEN end.read ELSE <<>>
  BY DEF ShellReads, last, start
<1> HIDE DEF end
<1> QED
  BY <1>17, <1>18, <1>19 DEF line

-----------------------------------------------------------------------------
(* The invariant of the gate                                               *)

\* What is asked, parsed and sent at each stage of a call.  A parser's word is
\* not looked at here: GateAssumption says what it returns.
CallType ==
    /\ stage \in {"asked", "parsed", "valid", "sent"} =>
         asked.shell \in {"", "bash", "powershell"}
    /\ stage = "asked" =>
         asked.tree \in (IF asked.shell = "powershell" THEN PSPipelines ELSE BashFiles)
    /\ stage \in {"parsed", "valid", "sent"} =>
         /\ pipeline \in Seq(Segments)
         /\ asked.shell = "powershell" => \A i \in DOMAIN pipeline : IsLower(pipeline[i].cmd)
         /\ asked.shell # "powershell" => IsPipeline(pipeline)

\* What is sent is the text of the pipeline and has its timeout, and is never
\* a call of ValidateCommand.
SentType ==
    stage = "sent" =>
        /\ asked.shell # ""
        /\ asked.shell = "bash" => text = ReconstructCommand(pipeline)
        /\ \A i \in DOMAIN pipeline : Covered(pipeline[i], timeout)

\* Only the call that was answered last has something printed.
PrintedType ==
    /\ printed \in [stdout : Seq(Byte), stderr : Seq(Byte), limit : Nat]
    /\ stage \notin {"answered", "ready"} => printed = NoPrinted

GateInv == CallType /\ RegistryType /\ SentType /\ PrintedType /\ ResultIsCutRight

\* Every manifest of a directory that loads is kept under its own name.
LEMMA LoadedIsNamed ==
    ASSUME NEW dir \in Bases \cup Overlays, NEW n \in DOMAIN loadFromFS(dir)
    PROVE  /\ loadFromFS(dir)[n].name = n /\ n \in STRING
           /\ loadFromFS(dir)[n].timeout \in Int
<1> DEFINE f == CHOOSE g \in Walked(dir) : g.name = n
<1>1. f \in Walked(dir) /\ f.name = n
  BY DEF loadFromFS
<1>2. f \in dir
  BY <1>1 DEF Walked
<1>3. f.name \in STRING /\ f.timeout \in SUBSET Int
  BY <1>2, GateAssumption
<1>4. loadFromFS(dir)[n] = parseManifest(f)
  BY DEF loadFromFS
<1> HIDE DEF f
<1>5. parseManifest(f).name = n
  BY <1>1 DEF parseManifest
<1>6. parseManifest(f).timeout \in Int
  <2> DEFINE t == IF f.timeout = {} THEN defaultTimeout ELSE CHOOSE u \in f.timeout : TRUE
  <2>1. parseManifest(f).timeout = t
    BY DEF parseManifest
  <2>2. t \in Int
    BY <1>3 DEF defaultTimeout
  <2> QED
    BY <2>1, <2>2
<1> QED
  BY <1>1, <1>3, <1>4, <1>5, <1>6

LEMMA MergedIsNamed ==
    ASSUME NEW base \in Bases, NEW overlay \in Overlays,
           NEW n \in DOMAIN Merge(loadFromFS(base), loadFromFS(overlay))
    PROVE  LET m == Merge(loadFromFS(base), loadFromFS(overlay))[n] IN
           m.name = n /\ n \in STRING /\ m.timeout \in Int
<1>1. CASE n \in DOMAIN loadFromFS(overlay)
  BY <1>1, LoadedIsNamed DEF Merge
<1>2. CASE n \notin DOMAIN loadFromFS(overlay)
  <2>1. n \in DOMAIN loadFromFS(base)
    BY <1>2 DEF Merge
  <2> QED
    BY <1>2, <2>1, LoadedIsNamed DEF Merge
<1> QED
  BY <1>1, <1>2

LEMMA ScopedIsPart ==
    ASSUME NEW shell
    PROVE  LET scoped == ScopeRegistry(registry, shell) IN
           \A n \in DOMAIN scoped :
               /\ n \in DOMAIN registry /\ scoped[n] = registry[n]
               /\ shell = "" \/ registry[n].shell \in {"", shell}
BY DEF ScopeRegistry

LEMMA NothingIsPrinted ==
    NoPrinted \in [stdout : Seq(Byte), stderr : Seq(Byte), limit : Nat]
<1>1. << >> \in Seq(Byte)
  OBVIOUS
<1> QED
  BY <1>1 DEF NoPrinted

LEMMA InitInv == Init => GateInv
<1> SUFFICES ASSUME Init PROVE GateInv
  OBVIOUS
<1>1. PrintedType
  BY NothingIsPrinted DEF Init, PrintedType
<1>2. ResultIsCutRight
  BY DEF Init, ResultIsCutRight
<1>3. CallType
  BY DEF Init, CallType
<1>4. SentType /\ RegistryType
  <2>1. DOMAIN << >> = {}
    OBVIOUS
  <2>2. stage # "sent" /\ DOMAIN registry = {}
    BY <2>1 DEF Init
  <2> QED
    BY <2>2 DEF SentType, RegistryType
<1> QED
  BY <1>1, <1>2, <1>3, <1>4 DEF GateInv

\* The steps of New and of a call, one by one.
LEMMA LoadKeeps == ASSUME GateInv, Load PROVE GateInv'
<1>1. stage = "new" /\ stage' \in {"ready", "failed"} /\ printed' = printed /\ result' = result
  BY DEF Load, answer
<1>2. PrintedType' /\ printed' = NoPrinted
  BY <1>1 DEF GateInv, PrintedType
<1>3. CallType' /\ SentType' /\ ResultIsCutRight'
  BY <1>1, <1>2 DEF CallType, SentType, ResultIsCutRight, NoPrinted
<1>4. PICK base \in Bases, overlay \in Overlays :
          registry' \in {registry, Merge(loadFromFS(base), loadFromFS(overlay))}
  BY DEF Load
<1>5. RegistryType'
  <2>1. CASE registry' = registry
    BY <2>1 DEF GateInv, RegistryType
  <2>2. CASE registry' = Merge(loadFromFS(base), loadFromFS(overlay))
    BY <2>2, MergedIsNamed DEF RegistryType
  <2> QED
    BY <1>4, <2>1, <2>2
<1> QED
  BY <1>2, <1>3, <1>5 DEF GateInv

LEMMA AskKeeps == ASSUME GateInv, Execute \/ ValidateCommand PROVE GateInv'
<1> DEFINE Trees(shell) == IF shell = "powershell" THEN PSPipelines ELSE BashFiles
<1>1. PICK shell \in {"", "bash", "powershell"} : Ask(shell, Trees(shell))
  BY DEF Execute, ValidateCommand
<1>2. PICK tree \in Trees(shell) : asked' = [shell |-> shell, tree |-> tree]
  BY <1>1 DEF Ask
<1>3. /\ stage' = "asked" /\ printed' = NoPrinted /\ registry' = registry
      /\ asked'.shell = shell /\ asked'.tree = tree
  BY <1>1, <1>2 DEF Ask
<1>4. CallType' /\ SentType' /\ ResultIsCutRight'
  BY <1>3 DEF CallType, SentType, ResultIsCutRight
<1>5. PrintedType'
  <2>1. printed' = NoPrinted
    BY <1>3
  <2> QED
    BY <2>1, NothingIsPrinted DEF PrintedType
<1>6. RegistryType'
  BY <1>3 DEF GateInv, RegistryType
<1> QED
  BY <1>4, <1>5, <1>6 DEF GateInv

\* A call that returns before the host has answered: nothing was printed.
LEMMA ReturnKeeps ==
    ASSUME GateInv, Return, stage \in {"asked", "parsed", "valid", "sent"} PROVE GateInv'
<1>1. stage' = "ready" /\ registry' = registry /\ printed' = printed /\ result' = result
  BY DEF Return, answer
<1>2. printed' = NoPrinted /\ PrintedType'
  BY <1>1 DEF GateInv, PrintedType
<1>3. CallType' /\ SentType' /\ ResultIsCutRight'
  BY <1>1, <1>2 DEF CallType, SentType, ResultIsCutRight
<1>4. RegistryType'
  BY <1>1 DEF GateInv, RegistryType
<1> QED
  BY <1>2, <1>3, <1>4 DEF GateInv

\* What a parser accepts is a pipeline, in lower case for PowerShell.
LEMMA ParserReturnsPipeline ==
    ASSUME NEW parsed \in Parses PROVE parsed.segments \in Seq(Segments)
BY DEF Parses

LEMMA ParseCommandKeeps == ASSUME GateInv, ParseCommand PROVE GateInv'
<1>1. stage = "asked"
  BY DEF ParseCommand
<1>2. CASE Return
  BY <1>1, <1>2, ReturnKeeps
<1>3. CASE ~ Return
  <2> DEFINE parsed == IF asked.shell = "powershell" THEN ParsePS(asked.tree)
                       ELSE ParseBash(asked.tree)
  <2>1. /\ stage' = "parsed" /\ pipeline' = parsed.segments
        /\ registry' = registry /\ asked' = asked /\ printed' = printed
    BY <1>3 DEF ParseCommand, answer
  <2>2. /\ asked.shell \in {"", "bash", "powershell"}
        /\ asked.tree \in (IF asked.shell = "powershell" THEN PSPipelines ELSE BashFiles)
    BY <1>1 DEF GateInv, CallType
  <2>3. parsed \in Parses
    BY <2>2, GateAssumption
  <2>4. /\ asked.shell = "powershell" => \A i \in DOMAIN parsed.segments : IsLower(parsed.segments[i].cmd)
        /\ asked.shell # "powershell" => IsPipeline(parsed.segments)
    <3>1. asked.shell # "powershell" => parsed.ok
      BY <1>3 DEF ParseCommand
    <3> QED
      BY <2>2, <3>1, GateAssumption
  <2> HIDE DEF parsed
  <2>5. parsed.segments \in Seq(Segments)
    BY <2>3, ParserReturnsPipeline
  <2>6. CallType'
    BY <2>1, <2>2, <2>4, <2>5 DEF CallType
  <2>7. PrintedType' /\ SentType' /\ ResultIsCutRight'
    BY <1>1, <2>1 DEF GateInv, PrintedType, SentType, ResultIsCutRight
  <2>8. RegistryType'
    BY <2>1 DEF GateInv, RegistryType
  <2> QED
    BY <2>6, <2>7, <2>8 DEF GateInv
<1> QED
  BY <1>2, <1>3

LEMMA ValidateKeeps == ASSUME GateInv, Validate PROVE GateInv'
<1>1. stage = "parsed"
  BY DEF Validate
<1>2. CASE Return
  BY <1>1, <1>2, ReturnKeeps
<1>3. CASE ~ Return
  <2>1. /\ stage' = "valid" /\ pipeline' = pipeline /\ registry' = registry
        /\ asked' = asked /\ printed' = printed
    BY <1>3 DEF Validate, call, answer
  <2>2. CallType'
    BY <1>1, <2>1 DEF GateInv, CallType
  <2>3. PrintedType' /\ SentType' /\ ResultIsCutRight'
    BY <1>1, <2>1 DEF GateInv, PrintedType, SentType, ResultIsCutRight
  <2>4. RegistryType'
    BY <2>1 DEF GateInv, RegistryType
  <2> QED
    BY <2>2, <2>3, <2>4 DEF GateInv
<1> QED
  BY <1>2, <1>3

LEMMA ReconstructKeeps == ASSUME GateInv, Reconstruct PROVE GateInv'
<1>1. /\ stage = "valid" /\ stage' = "sent" /\ asked.shell # ""
      /\ pipeline' = pipeline /\ registry' = registry /\ asked' = asked /\ printed' = printed
      /\ timeout' = getPipelineTimeout
      /\ asked.shell = "bash" => text' = ReconstructCommand(pipeline)
  BY DEF Reconstruct, answer
<1>2. CallType'
  BY <1>1 DEF GateInv, CallType
<1>3. PrintedType' /\ ResultIsCutRight'
  BY <1>1 DEF GateInv, PrintedType, ResultIsCutRight
<1>4. RegistryType'
  BY <1>1 DEF GateInv, RegistryType
<1>5. SentType'
  <2> DEFINE t == getPipelineTimeout
  <2>1. pipeline \in Seq(Segments) /\ RegistryType
    BY <1>1 DEF GateInv, CallType
  <2>2. \A i \in DOMAIN pipeline : Covered(pipeline[i], t)
    BY <2>1, TimeoutIsLongest
  <2>3. timeout' = t
    BY <1>1
  <2> HIDE DEF t
  <2>4. \A i \in DOMAIN pipeline : Covered(pipeline[i], timeout)'
    BY <1>1, <2>2, <2>3 DEF Covered, TimeoutKey
  <2> QED
    BY <1>1, <2>4 DEF SentType
<1> QED
  BY <1>2, <1>3, <1>4, <1>5 DEF GateInv

LEMMA RunnerAnswersKeeps == ASSUME GateInv, RunnerAnswers PROVE GateInv'
<1>1. stage' = "answered" /\ registry' = registry
  BY DEF RunnerAnswers
<1>2. PICK p \in Printed, limit \in Limits :
          printed' = [stdout |-> p.stdout, stderr |-> p.stderr, limit |-> limit]
  BY DEF RunnerAnswers
<1>3. p \in [stdout : Seq(Byte), stderr : Seq(Byte)] /\ limit \in Nat
  BY GateAssumption
<1>4. PrintedType'
  BY <1>1, <1>2, <1>3 DEF PrintedType
<1>5. CallType' /\ SentType' /\ ResultIsCutRight'
  BY <1>1 DEF CallType, SentType, ResultIsCutRight
<1>6. RegistryType'
  BY <1>1 DEF GateInv, RegistryType
<1> QED
  BY <1>4, <1>5, <1>6 DEF GateInv

LEMMA TruncateOutputKeeps == ASSUME GateInv, TruncateOutput PROVE GateInv'
<1>1. stage' = "ready" /\ registry' = registry /\ printed' = printed
  BY DEF TruncateOutput
<1>2. PrintedType'
  BY <1>1 DEF GateInv, PrintedType
<1>3. RegistryType' /\ CallType' /\ SentType'
  BY <1>1 DEF GateInv, RegistryType, CallType, SentType
<1>4. ResultIsCutRight'
  <2> DEFINE out == printed.stdout
             err == printed.stderr
             limit == printed.limit
  <2>1. out \in Seq(Byte) /\ err \in Seq(Byte) /\ limit \in Nat /\ limit \in Int
    BY DEF GateInv, PrintedType
  <2>2. /\ result'.stdout = truncateString(out, limit)
        /\ result'.stderr = truncateString(err, limit)
        /\ result'.truncated = (Truncated(out, limit) \/ Truncated(err, limit))
    BY DEF TruncateOutput
  <2>3. printed'.stdout = out /\ printed'.stderr = err /\ printed'.limit = limit
    BY <1>1
  <2> HIDE DEF out, err, limit
  <2>4. /\ CutRight(truncateString(out, limit), out, limit)
        /\ CutRight(truncateString(err, limit), err, limit)
    BY <2>1, TruncationIsRight
  <2>5. /\ Truncated(out, limit) <=> truncateString(out, limit) # out
        /\ Truncated(err, limit) <=> truncateString(err, limit) # err
    BY <2>1, CutIsReported
  <2>6. /\ CutRight(result'.stdout, printed'.stdout, printed'.limit)
        /\ CutRight(result'.stderr, printed'.stderr, printed'.limit)
    BY <2>2, <2>3, <2>4
  <2>7. result'.truncated <=> \/ result'.stdout # printed'.stdout
                              \/ result'.stderr # printed'.stderr
    BY <2>2, <2>3, <2>5
  <2> QED
    BY <2>6, <2>7 DEF ResultIsCutRight
<1> QED
  BY <1>2, <1>3, <1>4 DEF GateInv

\* The invariant of the gate: a registry holds every manifest under its own
\* name, a parsed command is a pipeline, what is sent has the time that every
\* manifest of its commands asks for, and a result is cut from what was
\* printed (server.go: New, Execute and ValidateCommand; output.go).
THEOREM GateInvariant == Spec => []GateInv
<1>1. Init => GateInv
  BY InitInv
<1>2. GateInv /\ [Next]_vars => GateInv'
  <2> SUFFICES ASSUME GateInv, [Next]_vars PROVE GateInv'
    OBVIOUS
  <2>1. CASE Load
    BY <2>1, LoadKeeps
  <2>2. CASE Execute \/ ValidateCommand
    BY <2>2, AskKeeps
  <2>3. CASE ParseCommand
    BY <2>3, ParseCommandKeeps
  <2>4. CASE Validate
    BY <2>4, ValidateKeeps
  <2>5. CASE ReturnVerdict \/ RunnerFails
    BY <2>5, ReturnKeeps DEF ReturnVerdict, RunnerFails
  <2>6. CASE Reconstruct
    BY <2>6, ReconstructKeeps
  <2>7. CASE RunnerAnswers
    BY <2>7, RunnerAnswersKeeps
  <2>8. CASE TruncateOutput
    BY <2>8, TruncateOutputKeeps
  <2>9. CASE UNCHANGED vars
    <3>1. /\ stage' = stage /\ registry' = registry /\ asked' = asked /\ pipeline' = pipeline
          /\ text' = text /\ timeout' = timeout /\ printed' = printed /\ result' = result
      BY <2>9 DEF vars, call, answer
    <3>2. CallType' /\ RegistryType' /\ PrintedType' /\ ResultIsCutRight'
      BY <3>1 DEF GateInv, CallType, RegistryType, PrintedType, ResultIsCutRight
    <3>3. SentType'
      BY <3>1 DEF GateInv, SentType, Covered, TimeoutKey
    <3> QED
      BY <3>2, <3>3 DEF GateInv
  <2> QED
    BY <2>1, <2>2, <2>3, <2>4, <2>5, <2>6, <2>7, <2>8, <2>9 DEF Next
<1> QED
  BY <1>1, <1>2, PTL DEF Spec

-----------------------------------------------------------------------------
(* The properties of the gate                                              *)

\* What the caller gets is the head and the tail of what the host printed, and
\* it says so exactly when something was cut: for every text and every limit
\* the configuration admits (output.go: TruncateOutput and truncateString,
\* whose separator is appended over the data that the tail is read from).
THEOREM ResultIsRight == Spec => []ResultIsCutRight
<1>1. GateInv => ResultIsCutRight
  BY DEF GateInv
<1> QED
  BY <1>1, GateInvariant, PTL

\* What is accepted starts nothing that its manifest does not allow, behind
\* sudo and xargs too, and a plain command is accepted whenever its manifest
\* allows it: for every registry, every argument list, every nesting of the
\* wrappers and every SQL text (validator.go: validatePipeline and the walks
\* under it).  The hypothesis is what TLA+ says of strings: that they are the
\* finite sequences of the characters, whatever a character is.
THEOREM AcceptanceIsRight ==
    ASSUME NEW CONSTANT Character, STRING \subseteq Seq(Character)
    PROVE  Spec => []AcceptedExactlyWhenAllowed
<1>1. ValuesAreJudged("psql", Seq(Character))
  BY SQLIsJudged
<1>2. GateInv => AcceptedExactlyWhenAllowed
  <2> SUFFICES ASSUME GateInv, stage = "parsed", NEW i \in DOMAIN pipeline
               PROVE  VerdictIsRight(pipeline[i], ScopeRegistry(registry, asked.shell))
    BY DEF AcceptedExactlyWhenAllowed
  <2>1. pipeline \in Seq(Segments)
    BY DEF GateInv, CallType
  <2> DEFINE S == Segments
  <2>2. pipeline[i] \in S
    <3> HIDE DEF S
    <3> QED
      BY <2>1 DEF S
  <2> QED
    BY <1>1, <2>2, SegmentIsJudged
<1> QED
  BY <1>2, GateInvariant, PTL

\* A command that no wrapper starts gets at least the time that the manifest
\* that admitted it asks for: for every registry and every pipeline
\* (server.go: getPipelineTimeout, which looks only for the names as they are
\* written, and relies on PowerShell manifests with lower-case names).
THEOREM TimeoutIsLongEnough ==
    ASSUME NEW CONSTANT Character, STRING \subseteq Seq(Character)
    PROVE  Spec => []TimeoutCoversManifests
<1>1. GateInv => TimeoutCoversManifests
  <2> DEFINE scoped == ScopeRegistry(registry, asked.shell)
             Key(seg, reg) == SubcommandKey(seg.cmd, seg.args, reg)
  <2> SUFFICES ASSUME GateInv, stage = "sent", NEW i \in DOMAIN pipeline,
                      pipeline[i].cmd \in SubcommandCommands /\ pipeline[i].args # <<>> =>
                          Key(pipeline[i], scoped) = Key(pipeline[i], registry),
                      NEW s \in SpeaksFor(pipeline[i], scoped),
                      IsLower(s.m.name) \/ s.m.shell # "powershell"
               PROVE  timeout >= s.m.timeout
    BY DEF TimeoutCoversManifests
  <2> DEFINE seg == pipeline[i]
  <2>1. /\ asked.shell \in {"bash", "powershell"}
        /\ asked.shell = "powershell" => IsLower(seg.cmd)
        /\ Covered(seg, timeout)
    BY DEF GateInv, CallType, SentType
  <2>2. seg.cmd \in STRING
    <3> DEFINE S == Segments
    <3>1. pipeline \in Seq(S)
      BY DEF GateInv, CallType
    <3>2. seg \in S
      <4> HIDE DEF S
      <4> QED
        BY <3>1
    <3> QED
      BY <3>2 DEF Segments
  <2>3. \A n \in DOMAIN scoped :
            /\ n \in DOMAIN registry /\ scoped[n] = registry[n]
            /\ registry[n].shell \in {"", asked.shell}
    BY <2>1, ScopedIsPart
  <2>4. CASE seg.cmd \in SubcommandCommands /\ seg.args # <<>>
    <3>1. PICK m \in Lookup(scoped, Key(seg, scoped).name) : s.m = m
      <4> HIDE DEF scoped, seg
      <4> QED
        BY <2>4 DEF SpeaksFor, seg
    <3>2. TimeoutKey(seg) = Key(seg, scoped).name
      BY <2>4 DEF TimeoutKey
    <3> HIDE DEF scoped, seg, Key
    <3>3. TimeoutKey(seg) \in DOMAIN scoped /\ s.m = scoped[TimeoutKey(seg)]
      BY <3>1, <3>2 DEF Lookup
    <3> QED
      BY <2>1, <2>3, <3>3 DEF Covered
  <2>5. CASE ~ (seg.cmd \in SubcommandCommands /\ seg.args # <<>>)
    <3> HIDE DEF scoped, seg
    <3>1. s.m \in lookupManifest(seg.cmd, scoped)
      BY <2>5 DEF SpeaksFor, seg
    <3>2. PICK n \in DOMAIN scoped :
              s.m = scoped[n] /\ (n = seg.cmd \/ (scoped[n].shell = "powershell"
                                                  /\ EqualFold(scoped[n].name, seg.cmd)))
      BY <3>1 DEF lookupManifest
    <3>3. n \in DOMAIN registry /\ s.m = registry[n] /\ s.m.name = n /\ n \in STRING
      BY <2>3, <3>2 DEF GateInv, RegistryType
    <3>4. n = seg.cmd
      <4> SUFFICES ASSUME n # seg.cmd PROVE FALSE
        OBVIOUS
      <4>1. s.m.shell = "powershell" /\ EqualFold(n, seg.cmd)
        BY <3>2, <3>3
      <4>2. asked.shell = "powershell"
        BY <2>3, <3>2, <4>1
      <4>3. IsLower(n) /\ IsLower(seg.cmd)
        BY <2>1, <3>3, <4>1, <4>2
      <4>4. n \in Seq(Character) /\ seg.cmd \in Seq(Character)
        BY <2>2, <3>3
      <4> QED
        BY <4>1, <4>3, <4>4, LowerWordsAreEqual
    <3> QED
      BY <2>1, <3>3, <3>4 DEF Covered
  <2> QED
    BY <2>4, <2>5
<1> QED
  BY <1>1, GateInvariant, PTL

\* The shell on a bash host reads from the text that is sent the words and the
\* operators that were validated: for every pipeline of every length, with
\* whatever in its words (reconstruct.go: ShellQuote and ReconstructCommand).
\* Again the strings are the finite sequences of the characters.
THEOREM BashReadsItBack ==
    ASSUME NEW CONSTANT Character, STRING = Seq(Character)
    PROVE  Spec => []BashReadsWhatWasValidated
<1>1. Texts = Seq(Character)
  BY DEF Texts
<1>2. GateInv => BashReadsWhatWasValidated
  <2> SUFFICES ASSUME GateInv, stage = "sent", asked.shell = "bash"
               PROVE  ShellReads(text) = pipeline
    BY DEF BashReadsWhatWasValidated
  <2>1. pipeline \in Seq(Segments) /\ IsPipeline(pipeline) /\ text = ReconstructCommand(pipeline)
    BY DEF GateInv, CallType, SentType
  <2> QED
    BY <1>1, <2>1, ReadsBack
<1> QED
  BY <1>2, GateInvariant, PTL
=============================================================================
